------------------------------- MODULE Agents -------------------------------
(***************************************************************************)
(* The runs of a sub-agent (packages/tools/src): started by its cron job,  *)
(* by the delegate tool or by a message it matches, charged to the daily   *)
(* budget and to the trust metrics, ended by its retention, reported as a  *)
(* notice; the proposals that wait for approval; the daily lifecycle check.*)
(*                                                                         *)
(* Every query awaited is a step, and runs interleave at each.  Agents     *)
(* share nothing but the stores of proposals and notices, so there is one, *)
(* and `others' counts what the others keep in the store of proposals.  The*)
(* success rate and the age a promotion asks for are a choice.  Overrides  *)
(* are recorded by nobody, so no agent is ever demoted.                    *)
(***************************************************************************)
EXTENDS Naturals, Sequences, FiniteSets

CONSTANTS
  Run,            \* runs of the agent, numbered in the order they start
  MaxFaults,      \* bound on the failures of a behaviour
  MaxSteps,       \* maxSteps of the agent
  Limit,          \* DEFAULT_MAX_TOOL_CALLS of the daily budget
  PromotionTasks, \* tasks needed to leave each trust level
  MaxProposals,   \* MAX_STORE_SIZE
  OtherProposals  \* bound on the proposals of other agents

ASSUME AgentAssumption ==
  /\ Run \subseteq Nat /\ IsFiniteSet(Run) /\ MaxFaults \in Nat
  /\ MaxSteps \in Nat \ {0} /\ Limit \in Nat \ {0}
  /\ PromotionTasks \in Seq(Nat \ {0})
  /\ MaxProposals \in Nat \ {0} /\ OtherProposals \in Nat

VARIABLES
  row,      \* the agent in agent_registry
  job,      \* the cron job is registered
  used,     \* tool calls in agent_budgets, of one day
  kind,     \* who started each run
  at,       \* what the run waits for, or does next
  outcome,  \* its AgentResult: status and tool calls claimed
  seen,     \* the agent as checkAndApplyPromotion read it
  proposal, \* its proposal in the pending-approval store
  others,   \* proposals of other agents in the store
  approved, \* times the proposed tool was executed
  review,   \* the daily lifecycle check, and what it read
  counted,  \* tasks recorded by updateTrustMetrics
  met,      \* runs that overlapped with another
  reported, \* runs whose result was handed on
  faults    \* failures so far

vars == <<faults, row, job, used, kind, at, outcome, seen,
          proposal, others, approved, review, counted, met, reported>>
registry == <<row, job, review, counted>>
approvals == <<proposal, others, approved>>
ledger == <<used, seen>>

Step == {"new", "look", "wake", "budget", "start", "run", "bill", "trust", "judge",
         "promote", "retain", "report", "done"}
Kind == {"none", "cron", "delegated", "matched"}
Status == {"success", "failure", "needs-approval"}
Unread == [level |-> 0, tasks |-> 0]
NoOutcome == [status |-> "none", claim |-> 0]
Present == {"stored", "expired"}

Fault == faults < MaxFaults /\ faults' = faults + 1
Active == row.there /\ row.status = "active"
Busy(r) == at[r] \notin {"new", "done"}
Asks(r) == outcome[r].status = "needs-approval"
Go(r, step) == at' = [at EXCEPT ![r] = step]

Init ==
  /\ faults = 0
  /\ row \in [there : {TRUE}, status : {"active"}, retention : {"persistent", "seasonal", "ephemeral"},
              level : {0}, tasks : {0}, scheduled : {TRUE}]
  /\ job = TRUE /\ used = 0
  /\ kind = [r \in Run |-> "none"] /\ at = [r \in Run |-> "new"]
  /\ outcome = [r \in Run |-> NoOutcome]
  /\ seen = [r \in Run |-> Unread]
  /\ proposal = [r \in Run |-> "none"] /\ others = 0
  /\ approved = [r \in Run |-> 0]
  /\ review = "due" /\ counted = 0 /\ met = {} /\ reported = {}

-----------------------------------------------------------------------------
(* A run up to its tool loop.                                              *)

(* tick, the delegate tool's execute, and FLOW B of handlePostMessage.     *)
Begins(r, k) ==
  /\ at[r] = "new" /\ \A q \in Run : q < r => at[q] # "new"
  /\ k = "cron" => job
  /\ kind' = [kind EXCEPT ![r] = k]
  /\ Go(r, "look")
  /\ met' = IF \E q \in Run : Busy(q) THEN met \cup {r} \cup {q \in Run : Busy(q)} ELSE met
  /\ UNCHANGED <<faults, registry, approvals, outcome, ledger, reported>>

(* A delegation wakes a seasonal agent that sleeps.                        *)
Sleeping(r) ==
  kind[r] = "delegated" /\ row.there /\ row.status = "dormant" /\ row.retention = "seasonal"

(* getAgent: only an active agent runs.  If the query fails the run is over*)
(* and the cron job stays.                                                 *)
Look(r) ==
  /\ at[r] = "look"
  /\ \/ Active /\ Go(r, "budget") /\ UNCHANGED <<job, faults>>
     \/ Sleeping(r) /\ Go(r, "wake") /\ UNCHANGED <<job, faults>>
     \/ /\ ~Active /\ ~Sleeping(r)
        /\ Go(r, "done") /\ job' = (job /\ kind[r] # "cron") /\ UNCHANGED faults
     \/ Fault /\ Go(r, "done") /\ UNCHANGED job
  /\ UNCHANGED <<row, review, counted, approvals, outcome, ledger, kind, met, reported>>

(* reactivateAgent throws if another delegation was faster (or is, having  *)
(* looked before that, as fast); its queries fail before or after the      *)
(* update, and so may the one that reads the agent once more.              *)
Wake(r) ==
  /\ at[r] = "wake"
  /\ \/ /\ row.there /\ row' = [row EXCEPT !.status = "active"]
        /\ \/ Go(r, "budget") /\ UNCHANGED faults
           \/ Fault /\ Go(r, "done")
     \/ /\ UNCHANGED row /\ Go(r, "done")
        /\ Active \/ ~row.there
        /\ UNCHANGED faults
     \/ UNCHANGED row /\ Go(r, "done") /\ Fault
  /\ UNCHANGED <<job, review, counted, approvals, outcome, ledger, kind, met, reported>>

(* A slip: the last call of the day leaves room for another run.           *)
AllowedAtLimit == used <= Limit

(* checkBudget *)
Allowed == used < Limit

(* If the query fails, only a delegation goes on.                          *)
CheckBudget(r) ==
  /\ at[r] = "budget"
  /\ \/ Allowed /\ Go(r, "start") /\ UNCHANGED faults
     \/ ~Allowed /\ Go(r, "done") /\ UNCHANGED faults
     \/ Fault /\ Go(r, IF kind[r] = "delegated" THEN "start" ELSE "done")
  /\ UNCHANGED <<registry, approvals, outcome, ledger, kind, met, reported>>

(* FLOW B stores the proposals of its runs and hands the results on; what  *)
(* they cost, and the trust they earn, is recorded beside that and awaited *)
(* by nobody.  It comes last here: neither touches what the other does.    *)
AfterLoop(r) == IF kind[r] = "matched" THEN "retain" ELSE "bill"

(* executeAgent looks for the agent once more, and reads its memory.       *)
Start(r) ==
  /\ at[r] = "start"
  /\ \/ row.there /\ Go(r, "run") /\ UNCHANGED <<outcome, faults>>
     \/ /\ ~row.there /\ Go(r, AfterLoop(r)) /\ UNCHANGED faults
        /\ outcome' = [outcome EXCEPT ![r] = [status |-> "failure", claim |-> 0]]
     \/ Fault /\ Go(r, "done") /\ UNCHANGED outcome
  /\ UNCHANGED <<registry, approvals, ledger, kind, met, reported>>

-----------------------------------------------------------------------------
(* The tool loop of executeAgent and the timeout it races.                 *)

(* How the loop may end: with an answer, at a call that needs approval, or *)
(* else by an LLM error, the step limit or a repeated call, which nothing  *)
(* here tells apart (the status `partial' counts as a failure below).      *)
Results ==
  {o \in [status : Status, claim : 0 .. MaxSteps] :
     o.status = "needs-approval" => o.claim > 0}

(* A loop that has lost the race goes on calling tools, but what it comes  *)
(* to, and what it costs, is lost.                                         *)
TimedOut == [status |-> "failure", claim |-> 0]

LoopEnds(r) ==
  /\ at[r] = "run" /\ Go(r, AfterLoop(r))
  /\ \E o \in Results : outcome' = [outcome EXCEPT ![r] = o]
  /\ UNCHANGED <<faults, registry, approvals, ledger, kind, met, reported>>

Timeout(r) ==
  /\ at[r] = "run" /\ Go(r, AfterLoop(r))
  /\ outcome' = [outcome EXCEPT ![r] = TimedOut]
  /\ UNCHANGED <<faults, registry, approvals, ledger, kind, met, reported>>

-----------------------------------------------------------------------------
(* A run after its tool loop.  A query that fails ends a cron run silently;*)
(* the others go on without what it was for.                               *)

(* What is left of a run whose trust is settled.                           *)
AfterTrust(r) == IF kind[r] = "matched" THEN "done" ELSE "retain"

(* deriveTrustOutcome: a run that asks has none.                           *)
AfterBill(r) == IF Asks(r) THEN AfterTrust(r) ELSE "trust"

(* recordUsage.  What was claimed is forgotten once it is billed. *)
Bill(r) ==
  /\ at[r] = "bill"
  /\ outcome' = [outcome EXCEPT ![r].claim = 0]
  /\ \/ used' = used + outcome[r].claim /\ Go(r, AfterBill(r)) /\ UNCHANGED faults
     \/ Fault /\ Go(r, IF kind[r] = "cron" THEN "done" ELSE AfterBill(r)) /\ UNCHANGED used
  /\ UNCHANGED <<registry, approvals, seen, kind, met, reported>>

(* A slip: an agent that is gone has no metrics, and the run is given up.  *)
GivesUp(r) == "done"

(* Errors of the trust metrics are ignored.                                *)
Ignores(r) == AfterTrust(r)

(* updateTrustMetrics, one atomic statement.                               *)
Trust(r) ==
  /\ at[r] = "trust"
  /\ \/ row.there /\ row' = [row EXCEPT !.tasks = @ + 1] /\ counted' = counted + 1
        /\ Go(r, "judge") /\ UNCHANGED faults
     \/ ~row.there /\ Go(r, Ignores(r)) /\ UNCHANGED <<row, counted, faults>>
     \/ Fault /\ Go(r, AfterTrust(r)) /\ UNCHANGED <<row, counted>>
  /\ UNCHANGED <<job, review, approvals, outcome, ledger, kind, met, reported>>

(* A slip: the metrics a promotion writes are those of the run's beginning.*)
ReadBeforeTask == [level |-> row.level, tasks |-> row.tasks - 1]

(* checkAndApplyPromotion reads the agent and, if it is to be promoted,    *)
(* writes back what it has read.                                           *)
ReadAgent == [level |-> row.level, tasks |-> row.tasks]
Promotable == row.level < Len(PromotionTasks) /\ row.tasks >= PromotionTasks[row.level + 1]
Judge(r) ==
  /\ at[r] = "judge"
  /\ \/ Go(r, AfterTrust(r)) /\ UNCHANGED seen
     \/ /\ row.there /\ Promotable
        /\ seen' = [seen EXCEPT ![r] = ReadAgent] /\ Go(r, "promote")
  /\ UNCHANGED <<faults, registry, approvals, outcome, used, kind, met, reported>>

Promote(r) ==
  /\ at[r] = "promote" /\ Go(r, AfterTrust(r)) /\ seen' = [seen EXCEPT ![r] = Unread]
  /\ row' = IF row.there THEN [row EXCEPT !.level = seen[r].level + 1, !.tasks = seen[r].tasks] ELSE row
  /\ UNCHANGED <<faults, job, review, counted, approvals, outcome, used, kind, met, reported>>

(* cleanupExpired *)
Cleaned == [q \in Run |-> IF proposal[q] = "expired" THEN "lapsed" ELSE proposal[q]]

(* storeProposal drops what has expired when the store is full, proposals  *)
(* of other agents among it, and throws if that leaves no room.            *)
Full == Cardinality({q \in Run : proposal[q] \in Present}) + others >= MaxProposals
Kept == IF Full THEN Cleaned ELSE proposal
OthersLeft == IF Full THEN 0 .. others ELSE {others}
HasRoom(n) == Cardinality({q \in Run : Kept[q] \in Present}) + n < MaxProposals

(* A slip: a store that is full lets the proposal go instead of throwing.  *)
DroppedWhenFull(r) ==
  \E n \in OthersLeft :
    others' = n /\ proposal' = IF HasRoom(n) THEN [Kept EXCEPT ![r] = "stored"] ELSE Kept

StoreProposal(r) ==
  \E n \in OthersLeft :
    HasRoom(n) /\ others' = n /\ proposal' = [Kept EXCEPT ![r] = "stored"]
NoStore ==
  \E n \in OthersLeft : ~HasRoom(n) /\ others' = n /\ proposal' = Kept

(* Other agents store proposals, which are decided, or expire.             *)
OtherStores ==
  /\ \E n \in OthersLeft : proposal' = Kept /\ others' = IF HasRoom(n) THEN n + 1 ELSE n
  /\ others' <= OtherProposals
  /\ UNCHANGED <<faults, registry, approved, outcome, ledger, kind, at, met, reported>>

OtherLeaves ==
  /\ others > 0 /\ others' = others - 1
  /\ UNCHANGED <<faults, registry, proposal, approved, outcome, ledger, kind, at, met, reported>>

(* Proposals of a cron run and of FLOW B are stored, those of a delegation *)
(* are not: its result only names them.  Without room a cron run ends, and *)
(* so does the message of FLOW B.                                          *)
KeepProposal(r) ==
  /\ at[r] = "retain" /\ Asks(r)
  /\ \/ kind[r] = "delegated" /\ Go(r, "report") /\ UNCHANGED <<proposal, others>>
     \/ kind[r] # "delegated" /\ StoreProposal(r) /\ Go(r, "report")
     \/ kind[r] = "cron" /\ NoStore /\ Go(r, "done")
     \/ kind[r] = "matched" /\ NoStore /\ Go(r, "bill")
  /\ UNCHANGED <<faults, registry, approved, outcome, ledger, kind, met, reported>>

(* A slip: deleting an agent that is gone already counts as deleting it.   *)
DeletedTwice == row.there \/ row.retention = "ephemeral"

(* deleteAgent and updateStatus throw when no row is there.                *)
Deletable == row.there

(* handlePostExecution: retention applies to what succeeded, and not at all*)
(* to FLOW B.  The agent's memory, deleted first, is left out, and the job *)
(* goes with the agent.                                                    *)
Retain(r) ==
  /\ at[r] = "retain" /\ ~Asks(r)
  /\ LET kept == kind[r] = "matched" \/ outcome[r].status # "success" \/ row.retention = "persistent" IN
     \/ kept /\ Go(r, "report") /\ UNCHANGED <<row, job, faults>>
     \/ ~kept /\ Deletable /\ Go(r, "report") /\ job' = FALSE /\ UNCHANGED faults
        /\ row' = IF row.retention = "ephemeral" THEN [row EXCEPT !.there = FALSE]
                  ELSE [row EXCEPT !.status = "dormant"]
     \/ ~kept /\ ~Deletable /\ Go(r, "done") /\ UNCHANGED <<row, job, faults>>
     \/ ~kept /\ Fault /\ Go(r, "done") /\ UNCHANGED <<row, job>>
  /\ UNCHANGED <<review, counted, approvals, outcome, ledger, kind, met, reported>>

(* A cron run becomes a notice, and handleProactiveResult stores its       *)
(* proposal once more: if that throws the notice is stored all the same,   *)
(* see Notices.  The other runs hand their result to the model.            *)
Report(r) ==
  /\ at[r] = "report" /\ Go(r, IF kind[r] = "matched" THEN "bill" ELSE "done")
  /\ reported' = reported \cup {r}
  /\ \/ ~(kind[r] = "cron" /\ Asks(r)) /\ UNCHANGED <<proposal, others>>
     \/ kind[r] = "cron" /\ Asks(r) /\ (StoreProposal(r) \/ NoStore)
  /\ UNCHANGED <<faults, registry, approved, outcome, ledger, kind, met>>

RunStep(r) ==
  \/ Look(r) \/ Wake(r) \/ CheckBudget(r) \/ Start(r)
  \/ Bill(r) \/ Trust(r) \/ Judge(r) \/ Promote(r)
  \/ KeepProposal(r) \/ Retain(r) \/ Report(r)

-----------------------------------------------------------------------------
(* Proposals are approved, rejected, or expire.                            *)

(* executeApproval removes the proposal before it executes the tool.       *)
Removed(r) == [proposal EXCEPT ![r] = "decided"]

(* handleConfirm: known ids are those a notice has named; any other is     *)
(* answered 404.                                                           *)
Confirm(r) ==
  /\ kind[r] = "cron" /\ r \in reported /\ proposal[r] = "stored"
  /\ \/ approved[r] < 2 /\ proposal' = Removed(r) /\ approved' = [approved EXCEPT ![r] = @ + 1]
     \/ proposal' = [proposal EXCEPT ![r] = "decided"] /\ UNCHANGED approved
  /\ UNCHANGED <<faults, registry, others, outcome, ledger, kind, at, met, reported>>

ProposalExpires(r) ==
  /\ proposal[r] = "stored" /\ proposal' = [proposal EXCEPT ![r] = "expired"]
  /\ UNCHANGED <<faults, registry, others, approved, outcome, ledger, kind, at, met, reported>>

-----------------------------------------------------------------------------
(* The daily lifecycle check: it reads the agent, and acts on what it read.*)

(* runLifecycleCheck: what becomes of an agent depends on how long it was  *)
(* not used, which is a choice here; a one-off agent is left alone.  Only  *)
(* seasonal agents are woken, so being archived is being dormant.          *)
Verdicts ==
  {v \in {"dormant"} : Active /\ row.retention # "ephemeral"}
  \cup {v \in {"delete"} : row.there /\ row.retention = "persistent"}

ReviewReads ==
  /\ review = "due"
  /\ \/ review' \in Verdicts /\ UNCHANGED <<proposal, others>>
     \/ review' = "over" /\ proposal' = Cleaned /\ others' \in 0 .. others
  /\ UNCHANGED <<faults, row, job, counted, approved, outcome, ledger, kind, at, met, reported>>

(* updateStatus and updateAgent, or deleteAgent, the job, and the cleanup; *)
(* nothing of it if the agent is gone.                                     *)
ReviewActs ==
  /\ review \notin {"due", "over"} /\ review' = "over"
  /\ \/ /\ row.there /\ job' = FALSE /\ proposal' = Cleaned /\ others' \in 0 .. others
        /\ row' = IF review = "delete" THEN [row EXCEPT !.there = FALSE]
                  ELSE [row EXCEPT !.status = review, !.scheduled = FALSE]
     \/ ~row.there /\ UNCHANGED <<row, job, proposal, others>>
  /\ UNCHANGED <<faults, counted, approved, outcome, ledger, kind, at, met, reported>>

-----------------------------------------------------------------------------
(* The gateway dies with all runs, jobs and proposals and starts again,    *)
(* which registers the jobs of active agents; nothing happens in between.  *)
(* registerAllAgentCronJobs: getScheduledAgents are the jobs there are.    *)
Restart ==
  /\ Fault
  /\ at' = [r \in Run |-> IF Busy(r) THEN "done" ELSE at[r]]
  /\ proposal' = [r \in Run |-> IF proposal[r] \in Present THEN "lapsed" ELSE proposal[r]]
  /\ others' = 0
  /\ job' = (Active /\ row.scheduled)
  /\ review' = IF review = "due" THEN "due" ELSE "over"
  /\ UNCHANGED <<row, counted, approved, outcome, ledger, kind, met, reported>>

Next ==
  \/ \E r \in Run :
       \/ \E k \in Kind \ {"none"} : Begins(r, k)
       \/ RunStep(r) \/ LoopEnds(r) \/ Timeout(r)
       \/ Confirm(r) \/ ProposalExpires(r)
  \/ OtherStores \/ OtherLeaves
  \/ ReviewReads \/ ReviewActs
  \/ Restart

Spec == Init /\ [][Next]_vars

-----------------------------------------------------------------------------
(* What runs, budgets, approvals and notices are promised.                 *)

(* The variables have their types; a run has a kind from its beginning, and*)
(* an agent on the last trust level is not promoted.                       *)
Row ==
  [there : BOOLEAN, status : {"active", "dormant"},
   retention : {"persistent", "seasonal", "ephemeral"},
   level : 0 .. Len(PromotionTasks), tasks : Nat, scheduled : BOOLEAN]
Outcome == [status : Status \cup {"none"}, claim : 0 .. MaxSteps]
Fate == {"none", "stored", "expired", "lapsed", "decided"}

TypeOK ==
  /\ faults \in 0 .. MaxFaults
  /\ row \in Row /\ job \in BOOLEAN /\ used \in Nat /\ counted \in Nat
  /\ kind \in [Run -> Kind] /\ at \in [Run -> Step]
  /\ outcome \in [Run -> Outcome]
  /\ seen \in [Run -> [level : 0 .. Len(PromotionTasks), tasks : Nat]]
  /\ proposal \in [Run -> Fate] /\ others \in 0 .. OtherProposals
  /\ approved \in [Run -> 0 .. 2]
  /\ review \in {"due", "over", "dormant", "delete"}
  /\ met \subseteq Run /\ reported \subseteq Run
  /\ \A r \in Run :
       /\ kind[r] = "none" <=> at[r] = "new"
       /\ at[r] = "promote" => seen[r].level < Len(PromotionTasks)

(* The budget may be overrun by what one run claims, and by what runs that *)
(* overlapped claim together, but by nothing else (budget-controller.ts    *)
(* checks before a run and records after it), or by a delegation whose     *)
(* check failed.                                                           *)
Overrun == MaxSteps * (IF met = {} THEN 1 ELSE Cardinality(met))
BudgetBound == used < Limit + Overrun + MaxSteps * faults

(* As long as runs do not overlap the trust metrics count every task that  *)
(* was recorded: a promotion writes back what is current.                  *)
TrustKept == met = {} => row.tasks = counted

(* Of the runs of a one-off agent at most one is reported as a success, by *)
(* a notice or to the model that delegated, however many overlap.          *)
Succeeded(r) ==
  kind[r] \in {"cron", "delegated"} /\ outcome[r].status = "success" /\ r \in reported
OneOffReportsOnce ==
  row.retention = "ephemeral" => Cardinality({r \in Run : Succeeded(r)}) <= 1

(* Whoever is asked for approval can give it, until the proposal expires,  *)
(* is decided or the gateway dies; and the tool it names runs at most once,*)
(* and never after it was decided otherwise, however often the user asks.  *)
AskedIsAnsweredOnce ==
  \A r \in Run :
    /\ r \in reported /\ kind[r] = "cron" /\ Asks(r) => proposal[r] # "none"
    /\ approved[r] <= 1 /\ (approved[r] = 1 => proposal[r] = "decided")

(* A cron run with a result reports it, unless a query failed, the gateway *)
(* died, it asks and the store of proposals was full, whatever had expired *)
(* left out, or another run of the one-off agent deleted the agent first.  *)
SilenceIsExcused ==
  [][\A r \in Run :
       /\ kind[r] = "cron" /\ at[r] \in Step \ {"look", "wake", "budget"} /\ Busy(r)
       /\ at'[r] = "done" /\ r \notin reported'
       => \/ faults' # faults
          \/ Asks(r) /\ at[r] = "retain" /\ Full'
          \/ row.retention = "ephemeral" /\ ~row.there /\ r \in met]_vars

=============================================================================
