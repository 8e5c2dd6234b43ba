---------------------------- MODULE Agents_proofs ----------------------------
(***************************************************************************)
(* What sub-agents are promised, for any number of runs and failures: whom *)
(* a notice asks can answer, once; the trust metrics lose no task unless   *)
(* runs overlap; a one-off agent reports one success; silence is excused.  *)
(***************************************************************************)
EXTENDS Agents, FiniteSetTheorems, TLAPS

(* Where a run is that was handed on: FLOW B records its costs afterwards. *)
Reported(r) ==
  IF kind[r] = "matched" THEN {"bill", "trust", "judge", "promote", "done"} ELSE {"done"}

(* A proposal that a notice may name is in the store or has left it, and   *)
(* nobody decides about it before the notice.                              *)
AskInv ==
  \A r \in Run :
    /\ r \in reported => at[r] \in Reported(r)
    /\ kind[r] = "cron" /\ Asks(r) /\ (at[r] = "report" \/ r \in reported) => proposal[r] # "none"
    /\ proposal[r] = "decided" => r \in reported
    /\ approved[r] <= 1
    /\ approved[r] = 1 => proposal[r] = "decided"

(* Runs that are busy at the same time have met.                           *)
MetInv ==
  \A r, q \in Run : r # q /\ Busy(r) /\ Busy(q) => r \in met /\ q \in met

(* Without a meeting, what a promotion has read is what it writes.         *)
TrustInv ==
  met = {} =>
    /\ row.tasks = counted
    /\ \A r \in Run : at[r] = "promote" => seen[r].tasks = row.tasks

(* Once a run of a one-off agent is to be reported as a success the agent  *)
(* is gone, and there is one such run.                                     *)
ToReport(r) ==
  /\ kind[r] \in {"cron", "delegated"} /\ outcome[r].status = "success"
  /\ at[r] = "report" \/ r \in reported

OneOffInv ==
  row.retention = "ephemeral" =>
    \A r \in Run : ToReport(r) => ~ row.there /\ \A q \in Run : ToReport(q) => q = r

(* Who deletes an agent: its retention, or the review of a persistent one. *)
(* A run that finds it gone after its start has met the one that did.      *)
InLoop == {"run", "bill", "trust", "judge", "promote", "retain"}

GoneInv ==
  /\ review = "delete" => row.retention = "persistent"
  /\ ~ row.there => row.retention # "seasonal"
  /\ \A r \in Run :
       /\ ~ row.there /\ row.retention = "ephemeral"
       /\ kind[r] # "matched" /\ at[r] \in InLoop
       /\ at[r] = "run" \/ outcome[r].status = "success"
       => r \in met

(* The inductive invariant.                                                *)
AgentsInv == TypeOK /\ AskInv /\ MetInv /\ TrustInv /\ OneOffInv /\ GoneInv

-----------------------------------------------------------------------------
LEMMA Types ==
  /\ MaxSteps \in Nat /\ MaxFaults \in Nat /\ Len(PromotionTasks) \in Nat
  /\ Run \subseteq Nat
BY AgentAssumption

LEMMA AgentsInit == Init => AgentsInv
<1> SUFFICES ASSUME Init PROVE AgentsInv
  OBVIOUS
<1>1. row \in Row /\ row.there /\ row.tasks = 0
  <2>1. row \in [there : {TRUE}, status : {"active"},
                retention : {"persistent", "seasonal", "ephemeral"},
                level : {0}, tasks : {0}, scheduled : {TRUE}]
    BY DEF Init
  <2>2. 0 \in 0 .. Len(PromotionTasks)
    BY Types
  <2>3. /\ row = [there |-> TRUE, status |-> "active", retention |-> row.retention,
                  level |-> 0, tasks |-> 0, scheduled |-> TRUE]
        /\ row.retention \in {"persistent", "seasonal", "ephemeral"}
    BY <2>1
  <2>4. row.there /\ row.tasks = 0
    BY <2>3
  <2>5. ASSUME NEW k \in {"persistent", "seasonal", "ephemeral"}
        PROVE  [there |-> TRUE, status |-> "active", retention |-> k,
                level |-> 0, tasks |-> 0, scheduled |-> TRUE] \in Row
    BY <2>2 DEF Row
  <2>6. row \in Row
    BY <2>3, <2>5, Zenon
  <2> QED BY <2>4, <2>6
<1> USE Types DEF Init
<1>2. TypeOK
  <2>1. outcome \in [Run -> Outcome]
    BY DEF Outcome, Status, NoOutcome
  <2>2. seen \in [Run -> [level : 0 .. Len(PromotionTasks), tasks : Nat]]
    BY DEF Unread
  <2> QED BY <1>1, <2>1, <2>2, AgentAssumption DEF TypeOK, Kind, Step, Fate
<1>3. AskInv /\ MetInv /\ TrustInv /\ OneOffInv /\ GoneInv
  BY <1>1 DEF AskInv, MetInv, TrustInv, OneOffInv, GoneInv, ToReport, InLoop, Asks, Busy
<1> QED BY <1>2, <1>3 DEF AgentsInv

(* What the actions make of the agent's row.                               *)
LEMMA RowEdits ==
  ASSUME TypeOK, NEW s \in {"active", "dormant"}, NEW l \in 0 .. Len(PromotionTasks), NEW n \in Nat
  PROVE  /\ [row EXCEPT !.status = s] \in Row
         /\ [row EXCEPT !.there = FALSE] \in Row
         /\ [row EXCEPT !.status = s, !.scheduled = FALSE] \in Row
         /\ [row EXCEPT !.tasks = @ + 1] \in Row
         /\ [row EXCEPT !.level = l, !.tasks = n] \in Row
<1>0. row \in Row
  BY DEF TypeOK
<1>1. [row EXCEPT !.status = s] \in Row
  BY <1>0 DEF Row
<1>2. [row EXCEPT !.there = FALSE] \in Row
  BY <1>0 DEF Row
<1>3. [row EXCEPT !.status = s, !.scheduled = FALSE] \in Row
  BY <1>0 DEF Row
<1>4. [row EXCEPT !.tasks = @ + 1] \in Row
  BY <1>0 DEF Row
<1>5. [row EXCEPT !.level = l, !.tasks = n] \in Row
  BY <1>0 DEF Row
<1> QED BY <1>1, <1>2, <1>3, <1>4, <1>5

(* The fields a change of the row leaves, and those it sets.               *)
LEMMA StatusFields ==
  ASSUME TypeOK, NEW s, row' = [row EXCEPT !.status = s] \/ row' = [row EXCEPT !.status = s, !.scheduled = FALSE]
  PROVE  row'.there = row.there /\ row'.retention = row.retention /\ row'.tasks = row.tasks
BY DEF TypeOK, Row

LEMMA GoneFields ==
  ASSUME TypeOK, row' = [row EXCEPT !.there = FALSE]
  PROVE  ~ row'.there /\ row'.retention = row.retention /\ row'.tasks = row.tasks
BY DEF TypeOK, Row

LEMMA TaskFields ==
  ASSUME TypeOK, row' = [row EXCEPT !.tasks = @ + 1]
  PROVE  row'.there = row.there /\ row'.retention = row.retention /\ row'.tasks = row.tasks + 1
BY DEF TypeOK, Row

LEMMA PromotedFields ==
  ASSUME TypeOK, NEW l, NEW n, row' = [row EXCEPT !.level = l, !.tasks = n]
  PROVE  row'.there = row.there /\ row'.retention = row.retention /\ row'.tasks = n
BY DEF TypeOK, Row

-----------------------------------------------------------------------------
(* A run that goes on without a promotion.                                 *)
LEMMA GoesOn ==
  ASSUME TypeOK, NEW r \in Run, at[r] # "new", NEW s \in Step \ {"new", "promote"}, Go(r, s),
         UNCHANGED kind, UNCHANGED seen
  PROVE  /\ at' \in [Run -> Step]
         /\ \A q \in Run :
              /\ kind'[q] = "none" <=> at'[q] = "new"
              /\ at'[q] = "promote" => seen'[q].level < Len(PromotionTasks)
BY DEF Go, TypeOK

LEMMA FaultType == TypeOK /\ Fault => faults' \in 0 .. MaxFaults
BY Types DEF TypeOK, Fault

(* The variables keep their types.                                         *)
LEMMA TypeStep == TypeOK /\ [Next]_vars => TypeOK'
<1> SUFFICES ASSUME TypeOK, [Next]_vars PROVE TypeOK'
  OBVIOUS
<1> USE Types DEF registry, approvals, ledger
<1>t. \A r \in Run : outcome[r] \in Outcome /\ outcome[r].status \in Status \cup {"none"}
                    /\ outcome[r].claim \in 0 .. MaxSteps
  BY DEF TypeOK, Outcome
<1>w. /\ row.level \in 0 .. Len(PromotionTasks) /\ row.tasks \in Nat /\ row \in Row
      /\ row.retention \in {"persistent", "seasonal", "ephemeral"}
  BY DEF TypeOK, Row
<1>1. ASSUME NEW r \in Run, NEW k \in Kind \ {"none"}, Begins(r, k) PROVE TypeOK'
  BY <1>1 DEF Begins, Go, TypeOK, Step, Kind
<1>2. ASSUME NEW r \in Run, Look(r) PROVE TypeOK'
  <2>1. row' = row /\ job' \in BOOLEAN /\ at[r] = "look" /\ UNCHANGED <<kind, seen>>
    BY <1>2 DEF Look, TypeOK
  <2>2. PICK s \in {"budget", "wake", "done"} : Go(r, s)
    BY <1>2 DEF Look
  <2>3. faults' \in 0 .. MaxFaults
    BY <1>2, FaultType DEF Look, TypeOK
  <2> QED BY <1>2, <2>1, <2>2, <2>3, GoesOn DEF Look, TypeOK, Step
<1>17. ASSUME NEW r \in Run, Wake(r) PROVE TypeOK'
  <2>1. row' = row \/ row' = [row EXCEPT !.status = "active"]
    BY <1>17 DEF Wake
  <2>2. row' \in Row
    BY <1>w, <2>1, RowEdits
  <2>3. PICK s \in {"budget", "done"} : Go(r, s)
    BY <1>17 DEF Wake
  <2>4. faults' \in 0 .. MaxFaults
    BY <1>17, FaultType DEF Wake, TypeOK
  <2>5. at[r] = "wake" /\ UNCHANGED <<kind, seen>>
    BY <1>17 DEF Wake
  <2> QED BY <1>17, <2>2, <2>3, <2>4, <2>5, GoesOn DEF Wake, TypeOK, Step
<1>3. ASSUME NEW r \in Run, CheckBudget(r) PROVE TypeOK'
  <2>1. PICK s \in {"start", "done"} : at[r] = "budget" /\ Go(r, s) /\ UNCHANGED <<kind, seen>>
    BY <1>3 DEF CheckBudget
  <2>2. faults' \in 0 .. MaxFaults
    BY <1>3, FaultType DEF CheckBudget, TypeOK
  <2> QED BY <1>3, <2>1, <2>2, GoesOn DEF CheckBudget, TypeOK, Step
<1>4. ASSUME NEW r \in Run, Start(r) PROVE TypeOK'
  <2>1. [status |-> "failure", claim |-> 0] \in Outcome
    BY DEF Outcome, Status
  <2>2. outcome' \in [Run -> Outcome]
    BY <1>4, <2>1 DEF Start, TypeOK
  <2>3. PICK s \in {"run", "bill", "retain", "done"} : Go(r, s)
    BY <1>4 DEF Start, AfterLoop
  <2>4. faults' \in 0 .. MaxFaults
    BY <1>4, FaultType DEF Start, TypeOK
  <2>5. at[r] = "start" /\ UNCHANGED <<kind, seen>>
    BY <1>4 DEF Start
  <2> QED BY <1>4, <2>2, <2>3, <2>4, <2>5, GoesOn DEF Start, TypeOK, Step
<1>5. ASSUME NEW r \in Run, LoopEnds(r) \/ Timeout(r) PROVE TypeOK'
  <2>1. Results \subseteq Outcome /\ TimedOut \in Outcome
    BY DEF Results, TimedOut, Outcome, Status
  <2>2. outcome' \in [Run -> Outcome]
    BY <1>5, <2>1 DEF LoopEnds, Timeout, TypeOK
  <2>3. PICK s \in {"bill", "retain"} : Go(r, s)
    BY <1>5 DEF LoopEnds, Timeout, AfterLoop
  <2>4. at[r] = "run" /\ UNCHANGED <<kind, seen>>
    BY <1>5 DEF LoopEnds, Timeout
  <2> QED BY <1>5, <2>2, <2>3, <2>4, GoesOn DEF LoopEnds, Timeout, TypeOK, Step
<1>6. ASSUME NEW r \in Run, Bill(r) PROVE TypeOK'
  <2>1. [outcome[r] EXCEPT !.claim = 0] \in Outcome
    BY <1>t DEF Outcome
  <2>2. outcome' = [outcome EXCEPT ![r] = [outcome[r] EXCEPT !.claim = 0]]
    BY <1>6 DEF Bill
  <2>3. outcome' \in [Run -> Outcome]
    BY <2>1, <2>2 DEF TypeOK
  <2>4. used' \in Nat
    BY <1>6, <1>t DEF Bill, TypeOK
  <2>5. PICK s \in {"retain", "trust", "done"} : Go(r, s)
    BY <1>6 DEF Bill, AfterBill, AfterTrust
  <2>6. faults' \in 0 .. MaxFaults
    BY <1>6, FaultType DEF Bill, TypeOK
  <2>7. at[r] # "new" /\ UNCHANGED <<kind, seen>>
    BY <1>6 DEF Bill
  <2> QED BY <1>6, <2>3, <2>4, <2>5, <2>6, <2>7, GoesOn DEF Bill, TypeOK, Step
<1>7. ASSUME NEW r \in Run, Trust(r) PROVE TypeOK'
  <2>1. row' = [row EXCEPT !.tasks = @ + 1] \/ row' = row
    BY <1>7 DEF Trust
  <2>2. row' \in Row
    BY <1>w, <2>1, RowEdits
  <2>3. counted' \in Nat
    BY <1>7 DEF Trust, TypeOK
  <2>4. PICK s \in {"judge", "retain", "done"} : Go(r, s)
    BY <1>7 DEF Trust, Ignores, AfterTrust
  <2>5. faults' \in 0 .. MaxFaults
    BY <1>7, FaultType DEF Trust, TypeOK
  <2>6. at[r] # "new" /\ UNCHANGED <<kind, seen>>
    BY <1>7 DEF Trust
  <2> QED BY <1>7, <2>2, <2>3, <2>4, <2>5, <2>6, GoesOn DEF Trust, TypeOK, Step
<1>8. ASSUME NEW r \in Run, Judge(r) PROVE TypeOK'
  <2>1. ReadAgent \in [level : 0 .. Len(PromotionTasks), tasks : Nat]
        /\ ReadAgent.level = row.level
    BY <1>w DEF ReadAgent
  <2>2. seen' \in [Run -> [level : 0 .. Len(PromotionTasks), tasks : Nat]]
    BY <1>8, <2>1 DEF Judge, TypeOK
  <2>3. at' \in [Run -> Step]
    BY <1>8 DEF Judge, AfterTrust, Go, TypeOK, Step
  <2>4. \A q \in Run : at'[q] = "promote" => seen'[q].level < Len(PromotionTasks)
    BY <1>8, <1>w, <2>1 DEF Judge, AfterTrust, Promotable, Go, TypeOK
  <2>5. \A q \in Run : kind'[q] = "none" <=> at'[q] = "new"
    BY <1>8 DEF Judge, AfterTrust, Go, TypeOK
  <2> QED BY <1>8, <2>2, <2>3, <2>4, <2>5 DEF Judge, TypeOK
<1>9. ASSUME NEW r \in Run, Promote(r) PROVE TypeOK'
  <2>1. /\ seen[r].level \in 0 .. Len(PromotionTasks) /\ seen[r].level < Len(PromotionTasks)
        /\ seen[r].tasks \in Nat
    BY <1>9 DEF Promote, TypeOK
  <2>0. /\ seen[r].level + 1 \in 0 .. Len(PromotionTasks)
        /\ row' = row \/ row' = [row EXCEPT !.level = seen[r].level + 1, !.tasks = seen[r].tasks]
    BY <1>9, <2>1 DEF Promote
  <2>2. row' \in Row
    BY <1>w, <2>0, <2>1, RowEdits
  <2>3. seen' \in [Run -> [level : 0 .. Len(PromotionTasks), tasks : Nat]]
    BY <1>9 DEF Promote, Unread, TypeOK
  <2> QED BY <1>9, <2>2, <2>3 DEF Promote, AfterTrust, Go, TypeOK, Step
<1>k. Kept \in [Run -> Fate] /\ Cleaned \in [Run -> Fate]
  BY DEF Kept, Cleaned, TypeOK, Fate
<1>o. OthersLeft \subseteq 0 .. OtherProposals
  BY AgentAssumption DEF OthersLeft, TypeOK
<1>10. ASSUME NEW r \in Run, KeepProposal(r) \/ Report(r) PROVE TypeOK'
  <2>1. \/ StoreProposal(r) \/ NoStore \/ UNCHANGED <<proposal, others>>
    BY <1>10 DEF KeepProposal, Report
  <2>2. proposal' \in [Run -> Fate] /\ others' \in 0 .. OtherProposals
    BY <1>k, <1>o, <2>1 DEF StoreProposal, NoStore, TypeOK, Fate
  <2>3. PICK s \in {"report", "bill", "done"} : Go(r, s)
    BY <1>10 DEF KeepProposal, Report
  <2>4. at[r] \in {"retain", "report"} /\ UNCHANGED <<kind, seen>>
    BY <1>10 DEF KeepProposal, Report
  <2>5. /\ UNCHANGED <<faults, row, job, review, counted, approved, outcome, used, met>>
        /\ reported' = reported \/ reported' = reported \cup {r}
    BY <1>10 DEF KeepProposal, Report
  <2> QED BY <2>2, <2>3, <2>4, <2>5, GoesOn DEF TypeOK, Step
<1>11. ASSUME NEW r \in Run, Retain(r) PROVE TypeOK'
  <2>1. /\ row' = row \/ row' = [row EXCEPT !.there = FALSE]
           \/ row' = [row EXCEPT !.status = "dormant"]
        /\ job' = job \/ job' = FALSE
    BY <1>11 DEF Retain
  <2>2. row' \in Row /\ job' \in BOOLEAN
    BY <1>w, <2>1, RowEdits DEF TypeOK
  <2>4. PICK s \in {"report", "done"} : Go(r, s)
    BY <1>11 DEF Retain
  <2>5. faults' \in 0 .. MaxFaults
    BY <1>11, FaultType DEF Retain, TypeOK
  <2>6. at[r] # "new" /\ UNCHANGED <<kind, seen>>
    BY <1>11 DEF Retain
  <2> QED BY <1>11, <2>2, <2>4, <2>5, <2>6, GoesOn DEF Retain, TypeOK, Step
<1>12. ASSUME NEW r \in Run, Confirm(r) \/ ProposalExpires(r) PROVE TypeOK'
  <2>1. proposal' \in [Run -> Fate]
    BY <1>12 DEF Confirm, ProposalExpires, Removed, TypeOK, Fate
  <2>2. approved' \in [Run -> 0 .. 2]
    BY <1>12 DEF Confirm, ProposalExpires, TypeOK
  <2> QED BY <1>12, <2>1, <2>2 DEF Confirm, ProposalExpires, TypeOK
<1>13. CASE ReviewReads
  <2>1. proposal' \in [Run -> Fate] /\ others' \in 0 .. OtherProposals
    BY <1>13, <1>k, AgentAssumption DEF ReviewReads, TypeOK
  <2> QED BY <1>13, <2>1 DEF ReviewReads, Verdicts, TypeOK
<1>14. CASE ReviewActs
  <2>1. proposal' \in [Run -> Fate] /\ others' \in 0 .. OtherProposals
    BY <1>14, <1>k, AgentAssumption DEF ReviewActs, TypeOK
  <2>2. row' \in Row /\ job' \in BOOLEAN /\ review' = "over"
    BY <1>14, <1>w, RowEdits DEF ReviewActs, TypeOK
  <2> QED BY <1>14, <2>1, <2>2 DEF ReviewActs, TypeOK
<1>18. CASE OtherStores
  <2>1. proposal' = Kept /\ others' \in 0 .. OtherProposals
    <3>1. PICK n \in OthersLeft : proposal' = Kept /\ others' = IF HasRoom(n) THEN n + 1 ELSE n
      BY <1>18 DEF OtherStores
    <3>2. n \in Nat /\ others' <= OtherProposals /\ OtherProposals \in Nat
      BY <1>18, <1>o, <3>1, AgentAssumption DEF OtherStores
    <3> QED BY <3>1, <3>2
  <2> QED BY <1>18, <1>k, <2>1 DEF OtherStores, TypeOK
<1>19. CASE OtherLeaves
  BY <1>19, AgentAssumption DEF OtherLeaves, TypeOK
<1>15. CASE Restart
  <2>1. proposal' \in [Run -> Fate] /\ at' \in [Run -> Step] /\ job' \in BOOLEAN
    BY <1>15, <1>w DEF Restart, TypeOK, Fate, Step, Active, Row
  <2>2. others' \in 0 .. OtherProposals
    BY <1>15, AgentAssumption DEF Restart
  <2> QED BY <1>15, <2>1, <2>2 DEF Restart, Fault, Busy, TypeOK
<1>16. CASE UNCHANGED vars
  BY <1>16 DEF vars, TypeOK
<1> QED
  BY <1>1, <1>2, <1>3, <1>4, <1>5, <1>6, <1>7, <1>8, <1>9, <1>10, <1>11, <1>12, <1>13,
     <1>14, <1>15, <1>16, <1>17, <1>18, <1>19 DEF Next, RunStep

-----------------------------------------------------------------------------
(* A run only becomes busy by beginning.                                   *)
NobodyBegins == UNCHANGED <<met, kind>> /\ \A q \in Run : Busy(q)' => Busy(q)

LEMMA BusyStep ==
  ASSUME TypeOK, [Next]_vars
  PROVE  NobodyBegins \/ \E r \in Run : \E k \in Kind \ {"none"} : Begins(r, k)
<1>t. at \in [Run -> Step]
  BY DEF TypeOK
<1> USE DEF NobodyBegins
<1>1. ASSUME NEW r \in Run, RunStep(r) \/ LoopEnds(r) \/ Timeout(r) PROVE NobodyBegins
  <2>1. /\ Busy(r) /\ UNCHANGED <<met, kind>>
        /\ \E s \in Step : Go(r, s)
    BY <1>1 DEF RunStep, Look, Wake, CheckBudget, Start, LoopEnds, AfterLoop, Timeout, Bill,
                AfterBill, Trust, Ignores, AfterTrust, Judge, Promote, KeepProposal, Retain,
                Report, Busy, Step
  <2> QED BY <1>t, <2>1 DEF Go, Busy
<1>2. ASSUME NEW r \in Run, Confirm(r) \/ ProposalExpires(r) PROVE NobodyBegins
  BY <1>2 DEF Confirm, ProposalExpires, Busy
<1>3. CASE ReviewReads \/ ReviewActs \/ OtherStores \/ OtherLeaves
  BY <1>3 DEF ReviewReads, ReviewActs, OtherStores, OtherLeaves, Busy
<1>4. CASE Restart
  BY <1>4, <1>t DEF Restart, Busy
<1>5. CASE UNCHANGED vars
  BY <1>5 DEF vars, Busy
<1> QED BY <1>1, <1>2, <1>3, <1>4, <1>5 DEF Next

LEMMA MetStep == AgentsInv /\ [Next]_vars => MetInv'
<1> SUFFICES ASSUME AgentsInv, [Next]_vars PROVE MetInv'
  OBVIOUS
<1>0. TypeOK /\ MetInv
  BY DEF AgentsInv
<1>1. CASE NobodyBegins
  BY <1>0, <1>1 DEF NobodyBegins, MetInv
<1>2. ASSUME NEW r \in Run, NEW k \in Kind \ {"none"}, Begins(r, k) PROVE MetInv'
  <2>1. /\ at[r] = "new" /\ at' = [at EXCEPT ![r] = "look"]
        /\ met' = IF \E q \in Run : Busy(q) THEN met \cup {r} \cup {q \in Run : Busy(q)} ELSE met
    BY <1>2 DEF Begins, Go
  <2>2. \A q \in Run : q # r => (Busy(q)' <=> Busy(q))
    BY <1>0, <2>1 DEF TypeOK, Busy
  <2> QED BY <1>0, <2>1, <2>2 DEF MetInv
<1> QED BY <1>0, <1>1, <1>2, BusyStep

-----------------------------------------------------------------------------
(* The trust metrics.                                                      *)
LEMMA TrustStep == AgentsInv /\ [Next]_vars => TrustInv'
<1> SUFFICES ASSUME AgentsInv, [Next]_vars, met' = {} PROVE TrustInv'
  BY DEF TrustInv
<1>0. TypeOK /\ MetInv /\ TrustInv
  BY DEF AgentsInv
<1>t. at \in [Run -> Step] /\ counted \in Nat /\ row.tasks \in Nat /\ row \in Row
  BY <1>0 DEF TypeOK, Row
<1>m. met = {}
  BY <1>0, BusyStep DEF NobodyBegins, Begins
<1>i. row.tasks = counted /\ \A q \in Run : at[q] = "promote" => seen[q].tasks = row.tasks
  BY <1>0, <1>m DEF TrustInv
<1>a. ASSUME row'.tasks = row.tasks, UNCHANGED <<counted, seen>>,
             \A q \in Run : at'[q] = "promote" => at[q] = "promote"
      PROVE  TrustInv'
  BY <1>i, <1>a DEF TrustInv
<1>g. ASSUME NEW r \in Run, NEW s \in Step \ {"promote"}, Go(r, s)
      PROVE  \A q \in Run : at'[q] = "promote" => at[q] = "promote"
  BY <1>t, <1>g DEF Go
<1> USE DEF registry, approvals, ledger
<1>1. ASSUME NEW r \in Run, NEW k \in Kind, Begins(r, k) PROVE TrustInv'
  BY <1>1, <1>a, <1>g DEF Begins, Step
<1>2. ASSUME NEW r \in Run, Wake(r) PROVE TrustInv'
  <2>1. row' = row \/ row' = [row EXCEPT !.status = "active"]
    BY <1>2 DEF Wake
  <2>2. row'.tasks = row.tasks
    BY <1>0, <2>1, StatusFields, GoneFields, TaskFields, PromotedFields
  <2>3. PICK s \in {"budget", "done"} : Go(r, s)
    BY <1>2 DEF Wake
  <2> QED BY <1>2, <1>a, <1>g, <2>2, <2>3 DEF Wake, Step
<1>3. ASSUME NEW r \in Run,
             Look(r) \/ CheckBudget(r) \/ Start(r) \/ LoopEnds(r) \/ Timeout(r) \/ Bill(r)
               \/ KeepProposal(r) \/ Report(r)
      PROVE  TrustInv'
  <2>1. PICK s \in Step \ {"promote"} : Go(r, s)
    BY <1>3 DEF Look, CheckBudget, Start, LoopEnds, AfterLoop, Timeout, Bill, AfterBill,
                AfterTrust, KeepProposal, Report, Step
  <2>2. UNCHANGED <<row, counted, seen>>
    BY <1>3 DEF Look, CheckBudget, Start, LoopEnds, Timeout, Bill, KeepProposal, Report
  <2> QED BY <1>a, <1>g, <2>1, <2>2
<1>4. ASSUME NEW r \in Run, Trust(r) PROVE TrustInv'
  <2>1. CASE row' = [row EXCEPT !.tasks = @ + 1] /\ counted' = counted + 1
    <3>1. row'.tasks = row.tasks + 1
      BY <1>0, <2>1, StatusFields, GoneFields, TaskFields, PromotedFields
    <3>2. \A q \in Run : at[q] # "promote"
      BY <1>0, <1>4, <1>m DEF MetInv, Busy, Trust
    <3>3. \A q \in Run : at'[q] # "promote"
      BY <1>4, <1>t, <3>2 DEF Trust, Ignores, AfterTrust, Go
    <3> QED BY <1>i, <2>1, <3>1, <3>3 DEF TrustInv
  <2>2. CASE UNCHANGED <<row, counted>>
    <3>1. PICK s \in {"judge", "retain", "done"} : Go(r, s)
      BY <1>4 DEF Trust, Ignores, AfterTrust
    <3> QED BY <1>4, <1>a, <1>g, <2>2, <3>1 DEF Trust, Step
  <2> QED BY <1>4, <2>1, <2>2 DEF Trust
<1>5. ASSUME NEW r \in Run, Judge(r) PROVE TrustInv'
  <2>1. UNCHANGED <<row, counted>>
    BY <1>5 DEF Judge
  <2>2. CASE UNCHANGED seen /\ Go(r, AfterTrust(r))
    BY <1>a, <1>g, <2>1, <2>2 DEF AfterTrust, Step
  <2>3. CASE seen' = [seen EXCEPT ![r] = ReadAgent] /\ Go(r, "promote")
    <3>1. \A q \in Run : seen'[q] = IF q = r THEN ReadAgent ELSE seen[q]
      BY <1>0, <2>3 DEF TypeOK
    <3>2. \A q \in Run : q # r => (at'[q] = "promote" => at[q] = "promote")
      BY <1>t, <2>3 DEF Go
    <3> QED BY <1>i, <2>1, <3>1, <3>2 DEF TrustInv, ReadAgent
  <2> QED BY <1>5, <2>2, <2>3 DEF Judge
<1>6. ASSUME NEW r \in Run, Promote(r) PROVE TrustInv'
  <2>1. row' = row \/ row' = [row EXCEPT !.level = seen[r].level + 1, !.tasks = seen[r].tasks]
    BY <1>6 DEF Promote
  <2>2. row'.tasks = row.tasks
    BY <1>0, <1>6, <1>i, <2>1, StatusFields, GoneFields, TaskFields, PromotedFields DEF Promote
  <2>3. \A q \in Run : at'[q] = "promote" => at[q] = "promote" /\ q # r
    BY <1>6, <1>t DEF Promote, AfterTrust, Go
  <2>4. \A q \in Run : q # r => seen'[q] = seen[q]
    BY <1>0, <1>6 DEF Promote, TypeOK
  <2>5. UNCHANGED counted
    BY <1>6 DEF Promote
  <2> QED BY <1>i, <2>2, <2>3, <2>4, <2>5 DEF TrustInv
<1>7. ASSUME NEW r \in Run, Retain(r) PROVE TrustInv'
  <2>1. row' = row \/ row' = [row EXCEPT !.there = FALSE] \/ row' = [row EXCEPT !.status = "dormant"]
    BY <1>7 DEF Retain
  <2>2. row'.tasks = row.tasks
    BY <1>0, <2>1, StatusFields, GoneFields, TaskFields, PromotedFields
  <2>3. PICK s \in {"report", "done"} : Go(r, s)
    BY <1>7 DEF Retain
  <2> QED BY <1>7, <1>a, <1>g, <2>2, <2>3 DEF Retain, Step
<1>8. ASSUME NEW r \in Run, Confirm(r) \/ ProposalExpires(r) PROVE TrustInv'
  BY <1>8, <1>a DEF Confirm, ProposalExpires
<1>9. CASE ReviewReads \/ OtherStores \/ OtherLeaves
  BY <1>9, <1>a DEF ReviewReads, OtherStores, OtherLeaves
<1>10. CASE ReviewActs
  <2>1. row' = row \/ row' = [row EXCEPT !.there = FALSE]
        \/ row' = [row EXCEPT !.status = review, !.scheduled = FALSE]
    BY <1>10 DEF ReviewActs
  <2>2. row'.tasks = row.tasks
    BY <1>0, <2>1, StatusFields, GoneFields, TaskFields, PromotedFields
  <2> QED BY <1>10, <1>a, <2>2 DEF ReviewActs
<1>11. CASE Restart
  BY <1>11, <1>a DEF Restart
<1>12. CASE UNCHANGED vars
  BY <1>12, <1>a DEF vars
<1> QED
  BY <1>1, <1>2, <1>3, <1>4, <1>5, <1>6, <1>7, <1>8, <1>9, <1>10, <1>11, <1>12 DEF Next, RunStep

-----------------------------------------------------------------------------
(* Who deletes the agent: a run of a one-off agent that succeeded, or the  *)
(* review.  The retention stays what it was.                               *)
Deletes(r) ==
  /\ Retain(r) /\ row.there /\ row.retention = "ephemeral" /\ ~ row'.there
  /\ kind[r] # "matched" /\ outcome[r].status = "success"

RowKept == row'.retention = row.retention /\ row'.there = row.there

LEMMA RowStep ==
  ASSUME TypeOK, [Next]_vars
  PROVE  /\ row'.retention = row.retention
         /\ \/ RowKept
            \/ \E r \in Run : Deletes(r)
            \/ review = "delete" /\ ~ row'.there
<1>w. row \in Row /\ row.retention \in {"persistent", "seasonal", "ephemeral"}
  BY DEF TypeOK, Row
<1> USE DEF registry, RowKept
<1>a. UNCHANGED row => RowKept
  OBVIOUS
<1>1. ASSUME NEW r \in Run, NEW k \in Kind, Begins(r, k) PROVE RowKept
  BY <1>1 DEF Begins
<1>2. ASSUME NEW r \in Run, Wake(r) PROVE RowKept
  <2>1. row' = row \/ row' = [row EXCEPT !.status = "active"]
    BY <1>2 DEF Wake
  <2> QED BY <2>1, StatusFields
<1>3. ASSUME NEW r \in Run,
             Look(r) \/ CheckBudget(r) \/ Start(r) \/ LoopEnds(r) \/ Timeout(r) \/ Bill(r) \/ Judge(r)
               \/ KeepProposal(r) \/ Report(r) \/ Confirm(r) \/ ProposalExpires(r)
      PROVE  RowKept
  BY <1>3 DEF Look, CheckBudget, Start, LoopEnds, Timeout, Bill, Judge, KeepProposal, Report,
              Confirm, ProposalExpires
<1>4. ASSUME NEW r \in Run, Trust(r) PROVE RowKept
  <2>1. row' = row \/ row' = [row EXCEPT !.tasks = @ + 1]
    BY <1>4 DEF Trust
  <2> QED BY <2>1, TaskFields
<1>5. ASSUME NEW r \in Run, Promote(r) PROVE RowKept
  <2>1. row' = row \/ row' = [row EXCEPT !.level = seen[r].level + 1, !.tasks = seen[r].tasks]
    BY <1>5 DEF Promote
  <2> QED BY <2>1, PromotedFields
<1>6. ASSUME NEW r \in Run, Retain(r)
      PROVE  row'.retention = row.retention /\ (RowKept \/ Deletes(r))
  <2>1. CASE row' = row
    BY <2>1
  <2>2. CASE row' = [row EXCEPT !.status = "dormant"]
    BY <2>2, StatusFields
  <2>3. CASE /\ row.retention = "ephemeral" /\ row.there /\ row' = [row EXCEPT !.there = FALSE]
             /\ kind[r] # "matched" /\ outcome[r].status = "success"
    BY <1>6, <2>3, GoneFields DEF Deletes
  <2> QED BY <1>6, <2>1, <2>2, <2>3 DEF Retain, Deletable
<1>7. CASE ReviewReads \/ Restart \/ OtherStores \/ OtherLeaves
  BY <1>7 DEF ReviewReads, Restart, OtherStores, OtherLeaves
<1>8. CASE ReviewActs
  <2>1. row' = row \/ row' = [row EXCEPT !.status = review, !.scheduled = FALSE]
        \/ (review = "delete" /\ row' = [row EXCEPT !.there = FALSE])
    BY <1>8 DEF ReviewActs
  <2> QED BY <2>1, StatusFields, GoneFields
<1>9. CASE UNCHANGED vars
  BY <1>9 DEF vars
<1> QED
  BY <1>1, <1>2, <1>3, <1>4, <1>5, <1>6, <1>7, <1>8, <1>9 DEF Next, RunStep

(* A run that is done, or about to be reported, has its outcome for good.  *)
LEMMA ToReportStep ==
  ASSUME TypeOK, AskInv, [Next]_vars, NEW q \in Run, ToReport(q)', row.retention = "ephemeral"
  PROVE  ToReport(q) \/ Deletes(q)
<1>t. /\ at \in [Run -> Step] /\ kind \in [Run -> Kind] /\ outcome \in [Run -> Outcome]
      /\ reported \subseteq Run
  BY DEF TypeOK
<1>k. kind'[q] \in {"cron", "delegated"}
  BY DEF ToReport
<1>i. q \in reported => at[q] \in Reported(q)
  BY DEF AskInv
<1> USE DEF registry, approvals, ledger
<1>a. ASSUME UNCHANGED <<kind, outcome, reported>>, at'[q] = "report" => at[q] = "report"
      PROVE  ToReport(q)
  BY <1>a DEF ToReport
<1>b. ASSUME NEW r \in Run, NEW s \in Step \ {"report"}, Go(r, s), UNCHANGED <<kind, outcome, reported>>
      PROVE  ToReport(q)
  BY <1>a, <1>b, <1>t DEF Go
<1>1. ASSUME NEW r \in Run, NEW k \in Kind, Begins(r, k) PROVE ToReport(q)
  <2>1. q # r
    BY <1>1, <1>t, <1>i DEF Begins, Go, ToReport, Reported
  <2> QED BY <1>1, <1>t, <2>1 DEF Begins, Go, ToReport
<1>2. ASSUME NEW r \in Run, Look(r) \/ Wake(r) \/ CheckBudget(r) \/ Trust(r) \/ Judge(r) \/ Promote(r)
      PROVE  ToReport(q)
  <2>1. PICK s \in Step \ {"report"} : Go(r, s)
    BY <1>2 DEF Look, Wake, CheckBudget, Trust, Ignores, AfterTrust, Judge, Promote, Step
  <2> QED BY <1>2, <1>b, <2>1 DEF Look, Wake, CheckBudget, Trust, Judge, Promote
<1>3. ASSUME NEW r \in Run, Start(r) \/ LoopEnds(r) \/ Timeout(r) \/ Bill(r) PROVE ToReport(q)
  <2>1. PICK s \in Step \ {"report"} : Go(r, s)
    BY <1>3 DEF Start, LoopEnds, AfterLoop, Timeout, Bill, AfterBill, AfterTrust, Step
  <2>2. at[r] \in {"start", "run", "bill"} /\ UNCHANGED <<kind, reported>>
    BY <1>3 DEF Start, LoopEnds, Timeout, Bill
  <2>3. q # r
    <3>1. ASSUME q = r PROVE FALSE
      <4>1. at'[q] # "report" /\ q \notin reported'
        BY <1>t, <1>i, <1>k, <2>1, <2>2, <3>1 DEF Go, Reported
      <4> QED BY <4>1 DEF ToReport
    <3> QED BY <3>1
  <2>4. outcome'[q] = outcome[q]
    <3>1. (\E o : outcome' = [outcome EXCEPT ![r] = o]) \/ outcome' = outcome
      BY <1>3 DEF Start, LoopEnds, Timeout, Bill
    <3> QED BY <1>t, <2>3, <3>1
  <2> QED BY <1>t, <2>1, <2>2, <2>3, <2>4 DEF Go, ToReport
<1>4. ASSUME NEW r \in Run, KeepProposal(r) PROVE ToReport(q)
  <2>1. /\ UNCHANGED <<kind, outcome, reported>> /\ outcome[r].status # "success"
        /\ \A p \in Run : p # r => at'[p] = at[p]
    BY <1>4, <1>t DEF KeepProposal, Asks, Go
  <2>2. q # r \/ q \in reported
    BY <2>1 DEF ToReport
  <2> QED BY <2>1, <2>2 DEF ToReport
<1>5. ASSUME NEW r \in Run, Retain(r) PROVE ToReport(q) \/ Deletes(q)
  <2>1. /\ UNCHANGED <<kind, outcome, reported>>
        /\ \A p \in Run : p # r => at'[p] = at[p]
    BY <1>5, <1>t DEF Retain, Go
  <2>2. CASE q # r \/ q \in reported
    BY <2>1, <2>2 DEF ToReport
  <2>3. CASE q = r /\ q \notin reported
    <3>1. at'[r] = "report" /\ kind[r] # "matched" /\ outcome[r].status = "success"
      BY <2>1, <2>3 DEF ToReport
    <3>2. row.there /\ row' = [row EXCEPT !.there = FALSE]
      BY <1>5, <1>t, <3>1 DEF Retain, Deletable, Go
    <3> QED BY <1>5, <2>3, <3>1, <3>2, GoneFields DEF Deletes
  <2> QED BY <2>2, <2>3
<1>6. ASSUME NEW r \in Run, Report(r) PROVE ToReport(q)
  <2>1. /\ at[r] = "report" /\ UNCHANGED <<kind, outcome>> /\ reported' = reported \cup {r}
        /\ \A p \in Run : at'[p] = "report" => at[p] = "report"
    BY <1>6, <1>t DEF Report, Go
  <2> QED BY <2>1 DEF ToReport
<1>7. ASSUME NEW r \in Run, Confirm(r) \/ ProposalExpires(r) PROVE ToReport(q)
  BY <1>7, <1>a DEF Confirm, ProposalExpires
<1>8. CASE ReviewReads \/ ReviewActs \/ OtherStores \/ OtherLeaves
  BY <1>8, <1>a DEF ReviewReads, ReviewActs, OtherStores, OtherLeaves
<1>9. CASE Restart
  BY <1>9, <1>a, <1>t DEF Restart
<1>10. CASE UNCHANGED vars
  BY <1>10, <1>a DEF vars
<1> QED
  BY <1>1, <1>2, <1>3, <1>4, <1>5, <1>6, <1>7, <1>8, <1>9, <1>10 DEF Next, RunStep

LEMMA OneOffStep == AgentsInv /\ [Next]_vars => OneOffInv'
<1> SUFFICES ASSUME AgentsInv, [Next]_vars, row'.retention = "ephemeral"
             PROVE  \A r \in Run : ToReport(r)' => ~ row'.there /\ \A q \in Run : ToReport(q)' => q = r
  BY DEF OneOffInv
<1>0. TypeOK /\ AskInv /\ OneOffInv /\ GoneInv
  BY DEF AgentsInv
<1>1. row.retention = "ephemeral" /\ (RowKept \/ (\E r \in Run : Deletes(r)))
  BY <1>0, RowStep DEF GoneInv
<1>2. \A r \in Run : ToReport(r) => ~ row.there /\ \A q \in Run : ToReport(q) => q = r
  BY <1>0, <1>1 DEF OneOffInv
<1>3. \A q \in Run : ToReport(q)' => ToReport(q) \/ Deletes(q)
  BY <1>0, <1>1, ToReportStep
<1>4. \A q, r \in Run : Deletes(q) /\ Deletes(r) => q = r
  <2> SUFFICES ASSUME NEW q \in Run, NEW r \in Run, Deletes(q), Deletes(r), q # r PROVE FALSE
    OBVIOUS
  <2>1. at[q] = "retain" /\ at'[q] # "retain" /\ at' # at
    BY <1>0 DEF Deletes, Retain, Go, TypeOK
  <2>2. at'[q] = at[q]
    BY <1>0 DEF Deletes, Retain, Go, TypeOK
  <2> QED BY <2>1, <2>2
<1> QED BY <1>1, <1>2, <1>3, <1>4 DEF RowKept, Deletes

-----------------------------------------------------------------------------
(* A run that may yet succeed was one before, or has just found its agent. *)
MaySucceed(r) ==
  kind[r] # "matched" /\ at[r] \in InLoop /\ (at[r] = "run" \/ outcome[r].status = "success")

LEMMA LoopStep ==
  ASSUME TypeOK, [Next]_vars, NEW q \in Run, MaySucceed(q)'
  PROVE  MaySucceed(q) \/ (row.there /\ UNCHANGED row)
<1>t. /\ at \in [Run -> Step] /\ outcome \in [Run -> Outcome]
  BY DEF TypeOK
<1> USE DEF registry, approvals, ledger
<1>b. ASSUME UNCHANGED <<kind, outcome, at>> PROVE MaySucceed(q)
  BY <1>b DEF MaySucceed
<1>c. ASSUME NEW r \in Run, NEW s \in Step, Go(r, s), q # r, UNCHANGED kind,
             UNCHANGED outcome \/ \E o : outcome' = [outcome EXCEPT ![r] = o]
      PROVE  MaySucceed(q)
  BY <1>t, <1>c DEF Go, MaySucceed
<1>1. ASSUME NEW r \in Run, NEW k \in Kind, Begins(r, k) PROVE MaySucceed(q)
  BY <1>1, <1>t DEF Begins, Go, MaySucceed, InLoop
<1>2. ASSUME NEW r \in Run, Look(r) \/ Wake(r) \/ CheckBudget(r) \/ KeepProposal(r) \/ Retain(r) \/ Report(r)
      PROVE  MaySucceed(q)
  <2>1. PICK s \in Step : Go(r, s) /\ (s \in InLoop => kind[r] = "matched")
    BY <1>2 DEF Look, Wake, CheckBudget, KeepProposal, Retain, Report, Step, InLoop
  <2>2. UNCHANGED <<kind, outcome>>
    BY <1>2 DEF Look, Wake, CheckBudget, KeepProposal, Retain, Report
  <2>3. q # r
    BY <1>t, <2>1, <2>2 DEF Go, MaySucceed
  <2> QED BY <1>c, <2>1, <2>2, <2>3
<1>3. ASSUME NEW r \in Run, Start(r), ~ MaySucceed(q) PROVE row.there /\ UNCHANGED row
  <2>0. UNCHANGED <<kind, row>>
    BY <1>3 DEF Start
  <2>1. CASE Go(r, "run")
    <3>1. row.there
      BY <1>3, <1>t, <2>1 DEF Start, AfterLoop, Go
    <3> QED BY <2>0, <3>1
  <2>2. CASE Go(r, "done") /\ UNCHANGED outcome
    <3>1. q # r
      BY <1>t, <2>2 DEF Go, MaySucceed, InLoop
    <3> QED BY <1>3, <1>c, <2>0, <2>2, <3>1 DEF Step
  <2>3. CASE /\ Go(r, AfterLoop(r))
             /\ outcome' = [outcome EXCEPT ![r] = [status |-> "failure", claim |-> 0]]
    <3>1. q # r
      BY <1>t, <2>3 DEF Go, MaySucceed, AfterLoop
    <3> QED BY <1>3, <1>c, <2>0, <2>3, <3>1 DEF Step, AfterLoop
  <2> QED BY <1>3, <2>1, <2>2, <2>3 DEF Start
<1>4. ASSUME NEW r \in Run, LoopEnds(r) \/ Timeout(r) PROVE MaySucceed(q)
  <2>1. /\ at[r] = "run" /\ Go(r, AfterLoop(r)) /\ UNCHANGED kind
        /\ \E o : outcome' = [outcome EXCEPT ![r] = o]
    BY <1>4 DEF LoopEnds, Timeout
  <2>2. CASE q = r
    BY <2>1, <2>2 DEF MaySucceed, InLoop
  <2> QED BY <1>c, <2>1, <2>2 DEF Step, AfterLoop
<1>5. ASSUME NEW r \in Run, Bill(r) PROVE MaySucceed(q)
  <2>1. /\ at[r] = "bill" /\ UNCHANGED kind
        /\ outcome' = [outcome EXCEPT ![r] = [outcome[r] EXCEPT !.claim = 0]]
    BY <1>5 DEF Bill
  <2>2. PICK s \in Step \ {"run"} : Go(r, s)
    BY <1>5 DEF Bill, AfterBill, AfterTrust, Step
  <2>3. CASE q = r
    <3>1. outcome'[r].status = outcome[r].status
      <4>1. outcome'[r] = [outcome[r] EXCEPT !.claim = 0]
        BY <1>t, <2>1
      <4>2. outcome[r] \in Outcome
        BY <1>t
      <4> QED BY <4>1, <4>2 DEF Outcome
    <3>2. at'[r] # "run"
      BY <1>t, <2>2 DEF Go
    <3> QED BY <2>1, <2>3, <3>1, <3>2 DEF MaySucceed, InLoop
  <2>4. CASE q # r
    BY <1>c, <2>1, <2>2, <2>4
  <2> QED BY <2>3, <2>4
<1>6. ASSUME NEW r \in Run, Trust(r) \/ Judge(r) \/ Promote(r) PROVE MaySucceed(q)
  <2>1. PICK s \in Step \ {"run"} : Go(r, s)
    BY <1>6 DEF Trust, Ignores, AfterTrust, Judge, Promote, Step
  <2>2. at[r] \in InLoop /\ UNCHANGED <<kind, outcome>>
    BY <1>6 DEF Trust, Judge, Promote, InLoop
  <2>3. CASE q = r
    BY <1>t, <2>1, <2>2, <2>3 DEF Go, MaySucceed
  <2> QED BY <1>c, <2>1, <2>2, <2>3
<1>7. ASSUME NEW r \in Run, Confirm(r) \/ ProposalExpires(r) PROVE MaySucceed(q)
  BY <1>7, <1>b DEF Confirm, ProposalExpires
<1>8. CASE ReviewReads \/ ReviewActs \/ OtherStores \/ OtherLeaves
  BY <1>8, <1>b DEF ReviewReads, ReviewActs, OtherStores, OtherLeaves
<1>9. CASE Restart
  BY <1>9, <1>t DEF Restart, MaySucceed, InLoop
<1>10. CASE UNCHANGED vars
  BY <1>10, <1>b DEF vars
<1> QED
  BY <1>1, <1>2, <1>3, <1>4, <1>5, <1>6, <1>7, <1>8, <1>9, <1>10 DEF Next, RunStep

LEMMA GoneStep == AgentsInv /\ [Next]_vars => GoneInv'
<1> SUFFICES ASSUME AgentsInv, [Next]_vars PROVE GoneInv'
  OBVIOUS
<1>0. TypeOK /\ MetInv /\ GoneInv
  BY DEF AgentsInv
<1>w. row.retention \in {"persistent", "seasonal", "ephemeral"}
  BY <1>0 DEF TypeOK, Row
<1>1. review' = "delete" => review = "delete" \/ row.retention = "persistent"
  <2>1. CASE ReviewReads
    BY <2>1 DEF ReviewReads, Verdicts
  <2>2. CASE ReviewActs
    BY <2>2 DEF ReviewActs
  <2>3. CASE Restart
    BY <2>3 DEF Restart
  <2>4. ASSUME NEW r \in Run, NEW k \in Kind, Begins(r, k) PROVE review' = review
    BY <2>4 DEF Begins, registry
  <2>5. ASSUME NEW r \in Run, RunStep(r) PROVE review' = review
    BY <2>5 DEF RunStep, Look, Wake, CheckBudget, Start, Bill, Trust, Judge, Promote, KeepProposal,
                Retain, Report, registry
  <2>6. ASSUME NEW r \in Run, LoopEnds(r) \/ Timeout(r) \/ Confirm(r) \/ ProposalExpires(r)
        PROVE  review' = review
    BY <2>6 DEF LoopEnds, Timeout, Confirm, ProposalExpires, registry
  <2>7. CASE UNCHANGED vars
    BY <2>7 DEF vars
  <2>8. CASE OtherStores \/ OtherLeaves
    BY <2>8 DEF OtherStores, OtherLeaves, registry
  <2> QED BY <2>1, <2>2, <2>3, <2>4, <2>5, <2>6, <2>7, <2>8 DEF Next
<1>2. /\ row'.retention = row.retention
      /\ RowKept \/ (\E r \in Run : Deletes(r)) \/ (review = "delete" /\ ~ row'.there)
  BY <1>0, RowStep
<1>3. review' = "delete" => row'.retention = "persistent"
  BY <1>0, <1>1, <1>2 DEF GoneInv
<1>4. ~ row'.there => row'.retention # "seasonal"
  BY <1>0, <1>2 DEF GoneInv, RowKept, Deletes
<1>5. ASSUME NEW q \in Run, ~ row'.there, row'.retention = "ephemeral", MaySucceed(q)'
      PROVE  q \in met'
  <2>1. met \subseteq met'
    BY <1>0, BusyStep DEF NobodyBegins, Begins
  <2>2. CASE RowKept
    <3>1. MaySucceed(q) /\ ~ row.there /\ row.retention = "ephemeral"
      BY <1>0, <1>2, <1>5, <2>2, LoopStep DEF RowKept
    <3> QED BY <1>0, <2>1, <3>1 DEF GoneInv, MaySucceed
  <2>3. ASSUME NEW r \in Run, Deletes(r) PROVE q \in met'
    <3>1. at[r] = "retain" /\ at'[r] \in {"report", "done"} /\ UNCHANGED kind /\ \A p \in Run : p # r => at'[p] = at[p]
      BY <1>0, <2>3 DEF Deletes, Retain, Go, TypeOK
    <3>2. q # r /\ at[q] \in InLoop
      BY <1>5, <3>1 DEF MaySucceed, InLoop
    <3>3. Busy(r) /\ Busy(q)
      BY <3>1, <3>2 DEF Busy, InLoop
    <3> QED BY <1>0, <2>1, <3>2, <3>3 DEF MetInv
  <2>4. review # "delete"
    BY <1>0, <1>2, <1>5 DEF GoneInv
  <2> QED BY <1>2, <2>2, <2>3, <2>4
<1> QED BY <1>3, <1>4, <1>5 DEF GoneInv, MaySucceed

-----------------------------------------------------------------------------
(* Proposals: what a cleanup leaves, and what the store makes of them.     *)
LEMMA KeptFacts ==
  ASSUME TypeOK, NEW q \in Run
  PROVE  Kept[q] = proposal[q] \/ (proposal[q] = "expired" /\ Kept[q] = "lapsed")
BY DEF Kept, Cleaned, TypeOK

LEMMA AskStep == AgentsInv /\ [Next]_vars => AskInv'
<1> SUFFICES ASSUME AgentsInv, [Next]_vars PROVE AskInv'
  OBVIOUS
<1>0. TypeOK /\ AskInv
  BY DEF AgentsInv
<1>t. /\ at \in [Run -> Step] /\ kind \in [Run -> Kind] /\ outcome \in [Run -> Outcome]
      /\ proposal \in [Run -> Fate] /\ approved \in [Run -> 0 .. 2] /\ reported \subseteq Run
  BY <1>0 DEF TypeOK
<1> USE DEF registry, approvals, ledger
<1>a. ASSUME UNCHANGED <<kind, outcome, reported, approved>>,
             \A q \in Run : at'[q] = "report" => at[q] = "report",
             \A q \in Run : at[q] \in Reported(q) => at'[q] \in Reported(q),
             \A q \in Run : \/ proposal'[q] = proposal[q]
                            \/ proposal[q] \in Present /\ proposal'[q] \in {"expired", "lapsed"}
      PROVE  AskInv'
  BY <1>0, <1>t, <1>a DEF AskInv, Reported, Asks, Present
<1>c. \A q \in Run : Cleaned[q] = proposal[q] \/ (proposal[q] \in Present /\ Cleaned[q] = "lapsed")
  BY DEF Cleaned, Present
<1>1. ASSUME NEW r \in Run, NEW k \in Kind, Begins(r, k) PROVE AskInv'
  <2>1. /\ at[r] = "new" /\ at'[r] = "look" /\ r \notin reported
        /\ \A q \in Run : q # r => at'[q] = at[q] /\ kind'[q] = kind[q]
    BY <1>0, <1>t, <1>1 DEF Begins, Go, AskInv, Reported
  <2>2. UNCHANGED <<outcome, reported, approved, proposal>>
    BY <1>1 DEF Begins
  <2> QED BY <1>0, <2>1, <2>2 DEF AskInv, Reported, Asks
<1>2. ASSUME NEW r \in Run, Look(r) \/ Wake(r) \/ CheckBudget(r) \/ Trust(r) \/ Judge(r) \/ Promote(r)
      PROVE  AskInv'
  <2>1. PICK s \in Step \ {"report"} : Go(r, s) /\ (at[r] \in Reported(r) => s \in Reported(r))
    BY <1>2 DEF Look, Wake, CheckBudget, Trust, Ignores, AfterTrust, Judge, Promote, Step, Reported
  <2>2. UNCHANGED <<kind, outcome, reported, approved, proposal>>
    BY <1>2 DEF Look, Wake, CheckBudget, Trust, Judge, Promote
  <2>3. \A q \in Run : /\ at'[q] = "report" => at[q] = "report"
                       /\ at[q] \in Reported(q) => at'[q] \in Reported(q)
    BY <1>t, <2>1 DEF Go
  <2> QED BY <1>a, <2>2, <2>3
<1>b. ASSUME NEW r \in Run, Bill(r) PROVE AskInv'
  <2>1. /\ UNCHANGED <<kind, reported, approved, proposal>>
        /\ outcome' = [outcome EXCEPT ![r] = [outcome[r] EXCEPT !.claim = 0]]
    BY <1>b DEF Bill
  <2>2. PICK s \in Step \ {"report"} : Go(r, s) /\ (at[r] \in Reported(r) => s \in Reported(r))
    BY <1>b DEF Bill, AfterBill, AfterTrust, Step, Reported
  <2>3. \A q \in Run : /\ at'[q] = "report" => at[q] = "report"
                       /\ at[q] \in Reported(q) => at'[q] \in Reported(q)
    BY <1>t, <2>2 DEF Go
  <2>4. \A q \in Run : outcome'[q].status = outcome[q].status
    BY <1>t, <2>1 DEF Outcome
  <2> QED BY <1>0, <2>1, <2>3, <2>4 DEF AskInv, Reported, Asks
<1>3. ASSUME NEW r \in Run, Start(r) \/ LoopEnds(r) \/ Timeout(r) PROVE AskInv'
  <2>1. PICK s \in Step \ {"report"} : Go(r, s)
    BY <1>3 DEF Start, LoopEnds, AfterLoop, Timeout, Step
  <2>2. at[r] \in {"start", "run"} /\ UNCHANGED <<kind, reported, proposal, approved>>
    BY <1>3 DEF Start, LoopEnds, Timeout
  <2>3. \A q \in Run : q # r => outcome'[q] = outcome[q] /\ at'[q] = at[q]
    <3>1. (\E o : outcome' = [outcome EXCEPT ![r] = o]) \/ outcome' = outcome
      BY <1>3 DEF Start, LoopEnds, Timeout
    <3> QED BY <1>t, <2>1, <3>1 DEF Go
  <2>4. r \notin reported /\ at'[r] # "report"
    BY <1>0, <1>t, <2>1, <2>2 DEF AskInv, Reported, Go
  <2> QED BY <1>0, <2>2, <2>3, <2>4 DEF AskInv, Reported, Asks
<1>4. ASSUME NEW r \in Run, StoreProposal(r), r \notin reported,
             UNCHANGED <<kind, outcome, approved>>,
             reported' \subseteq reported \cup {r}, reported \subseteq reported',
             r \in reported' => at'[r] \in Reported(r),
             \A q \in Run : q # r => at'[q] = at[q]
      PROVE  AskInv'
  <2>1. /\ \A q \in Run : q # r => proposal'[q] = Kept[q]
        /\ proposal'[r] = "stored"
    <3>1. Kept \in [Run -> Fate]
      BY <1>0 DEF Kept, Cleaned, TypeOK, Fate
    <3> QED BY <1>4, <3>1 DEF StoreProposal
  <2>2. \A q \in Run : q # r =>
          \/ proposal'[q] = proposal[q]
          \/ proposal[q] = "expired" /\ proposal'[q] = "lapsed"
    BY <1>0, <2>1, KeptFacts
  <2>3. approved[r] = 0
    BY <1>0, <1>t, <1>4 DEF AskInv
  <2> QED BY <1>0, <1>4, <2>1, <2>2, <2>3 DEF AskInv, Reported, Asks
<1>5. ASSUME NEW r \in Run, KeepProposal(r) PROVE AskInv'
  <2>1. /\ at[r] = "retain" /\ r \notin reported /\ UNCHANGED <<kind, outcome, reported, approved>>
        /\ \A q \in Run : q # r => at'[q] = at[q]
    BY <1>0, <1>t, <1>5 DEF KeepProposal, AskInv, Reported, Go
  <2>2. CASE kind[r] = "delegated" /\ UNCHANGED proposal
    BY <1>0, <2>1, <2>2 DEF AskInv, Reported, Asks
  <2>3. CASE StoreProposal(r)
    BY <1>4, <2>1, <2>3
  <2>4. CASE NoStore /\ (Go(r, "done") \/ (kind[r] = "matched" /\ Go(r, "bill")))
    <3>1. at'[r] \in Reported(r) /\ at'[r] # "report"
      BY <1>t, <2>4 DEF Go, Reported
    <3>2. \A q \in Run : \/ proposal'[q] = proposal[q]
                         \/ proposal[q] = "expired" /\ proposal'[q] = "lapsed"
      BY <1>0, <2>4, KeptFacts DEF NoStore
    <3> QED BY <1>a, <2>1, <3>1, <3>2 DEF Present
  <2> QED BY <1>5, <2>2, <2>3, <2>4 DEF KeepProposal
<1>6. ASSUME NEW r \in Run, Retain(r) PROVE AskInv'
  <2>1. /\ at[r] = "retain" /\ ~ Asks(r) /\ r \notin reported
        /\ UNCHANGED <<kind, outcome, reported, approved, proposal>>
        /\ \A q \in Run : q # r => at'[q] = at[q]
    BY <1>0, <1>t, <1>6 DEF Retain, AskInv, Reported, Go
  <2> QED BY <1>0, <2>1 DEF AskInv, Reported, Asks
<1>7. ASSUME NEW r \in Run, Report(r) PROVE AskInv'
  <2>1. /\ at[r] = "report" /\ at'[r] \in Reported(r) /\ r \notin reported
        /\ reported' = reported \cup {r} /\ UNCHANGED <<kind, outcome, approved>>
        /\ \A q \in Run : q # r => at'[q] = at[q]
    BY <1>0, <1>t, <1>7 DEF Report, AskInv, Reported, Go
  <2>2. CASE UNCHANGED proposal
    BY <1>0, <1>t, <2>1, <2>2 DEF AskInv, Reported, Asks
  <2>3. CASE StoreProposal(r)
    BY <1>4, <2>1, <2>3
  <2>4. CASE NoStore
    <3>1. \A q \in Run : \/ proposal'[q] = proposal[q]
                         \/ proposal[q] = "expired" /\ proposal'[q] = "lapsed"
      BY <1>0, <2>4, KeptFacts DEF NoStore
    <3> QED BY <1>0, <1>t, <2>1, <3>1 DEF AskInv, Reported, Asks
  <2> QED BY <1>7, <2>2, <2>3, <2>4 DEF Report
<1>8. ASSUME NEW r \in Run, Confirm(r) PROVE AskInv'
  <2>1. /\ r \in reported /\ proposal[r] = "stored"
        /\ UNCHANGED <<kind, outcome, at, reported>>
        /\ proposal' = [proposal EXCEPT ![r] = "decided"]
        /\ approved' = approved \/ approved' = [approved EXCEPT ![r] = @ + 1]
    BY <1>8 DEF Confirm, Removed
  <2>2. approved[r] = 0
    BY <1>0, <1>t, <2>1 DEF AskInv
  <2>3. /\ proposal'[r] = "decided" /\ approved'[r] \in {0, 1}
        /\ \A q \in Run : q # r => proposal'[q] = proposal[q] /\ approved'[q] = approved[q]
    BY <1>t, <2>1, <2>2
  <2> QED BY <1>0, <2>1, <2>3 DEF AskInv, Reported, Asks
<1>9. ASSUME NEW r \in Run, ProposalExpires(r) PROVE AskInv'
  BY <1>9, <1>a, <1>t DEF ProposalExpires, Present
<1>10. CASE ReviewReads \/ ReviewActs
  <2>1. proposal' = proposal \/ proposal' = Cleaned
    BY <1>10 DEF ReviewReads, ReviewActs
  <2> QED BY <1>10, <1>a, <1>c, <2>1 DEF ReviewReads, ReviewActs
<1>11. CASE Restart
  BY <1>11, <1>a, <1>t DEF Restart, Reported, Busy, Present
<1>13. CASE OtherStores
  <2>1. \A q \in Run : \/ proposal'[q] = proposal[q]
                       \/ proposal[q] = "expired" /\ proposal'[q] = "lapsed"
    BY <1>0, <1>13, KeptFacts DEF OtherStores
  <2> QED BY <1>13, <1>a, <2>1 DEF OtherStores, Present
<1>14. CASE OtherLeaves
  BY <1>14, <1>a DEF OtherLeaves
<1>12. CASE UNCHANGED vars
  BY <1>12, <1>a DEF vars
<1> QED
  BY <1>1, <1>2, <1>b, <1>3, <1>5, <1>6, <1>7, <1>8, <1>9, <1>10, <1>11, <1>12, <1>13, <1>14
  DEF Next, RunStep

-----------------------------------------------------------------------------
(* The budget: what was billed, with what the runs that are allowed to go  *)
(* on may still claim.  When one more is allowed without a failure there is*)
(* budget left, and those that are allowed with it have met it.            *)
Unbilled(r, step) ==
  step \in {"start", "run", "bill"} \cup (IF kind[r] = "matched" THEN {"retain", "report"} ELSE {})
MayClaim == {r \in Run : Unbilled(r, at[r])}
BudgetInv ==
  used + MaxSteps * Cardinality(MayClaim) < Limit + Overrun + MaxSteps * faults

(* What the proofs need of finite sets and products.                       *)
LEMMA Times ==
  ASSUME NEW a \in Nat, NEW b \in Nat, NEW c \in Nat
  PROVE  /\ a * b \in Nat
         /\ b <= c => a * b <= a * c
         /\ a * (b + 1) = a * b + a
         /\ a * 0 = 0 /\ a * 1 = a
BY Z3

LEMMA Sizes ==
  ASSUME TypeOK
  PROVE  /\ IsFiniteSet(Run) /\ IsFiniteSet(met) /\ IsFiniteSet(MayClaim)
         /\ Cardinality(met) \in Nat /\ Cardinality(MayClaim) \in Nat
         /\ Overrun \in Nat /\ used \in Nat /\ faults \in Nat /\ Limit \in Nat /\ MaxSteps \in Nat
         /\ MaxSteps * Cardinality(MayClaim) \in Nat /\ MaxSteps * faults \in Nat
<1>1. IsFiniteSet(Run) /\ Limit \in Nat /\ MaxSteps \in Nat /\ MaxFaults \in Nat
  BY AgentAssumption
<1>2. met \subseteq Run /\ MayClaim \subseteq Run /\ used \in Nat /\ faults \in Nat
  BY <1>1 DEF TypeOK, MayClaim
<1>3. IsFiniteSet(met) /\ IsFiniteSet(MayClaim)
  BY <1>1, <1>2, FS_Subset
<1>4. Cardinality(met) \in Nat /\ Cardinality(MayClaim) \in Nat
  BY <1>3, FS_CardinalityType
<1>5. Overrun \in Nat /\ MaxSteps * Cardinality(MayClaim) \in Nat /\ MaxSteps * faults \in Nat
  BY <1>1, <1>2, <1>4, Times DEF Overrun
<1> QED BY <1>1, <1>2, <1>3, <1>4, <1>5

(* More runs that have met excuse more.                                    *)
LEMMA OverrunGrows ==
  ASSUME TypeOK, TypeOK', met \subseteq met'
  PROVE  Overrun <= Overrun'
<1>1. Cardinality(met) \in Nat /\ MaxSteps \in Nat
  BY Sizes
<1>2. IsFiniteSet(Run) /\ met' \subseteq Run
  BY AgentAssumption DEF TypeOK
<1>3. IsFiniteSet(met') /\ Cardinality(met') \in Nat
  BY <1>2, FS_Subset, FS_CardinalityType
<1>4. Cardinality(met) <= Cardinality(met')
  BY <1>3, FS_Subset
<1>5. met' # {} => Cardinality(met') >= 1
  BY <1>3, FS_EmptySet
<1>6. MaxSteps * Cardinality(met) <= MaxSteps * Cardinality(met')
  BY <1>1, <1>3, <1>4, Times
<1>7. met' # {} => MaxSteps * 1 <= MaxSteps * Cardinality(met')
  BY <1>1, <1>3, <1>5, Times
<1>8. CASE met = {} /\ met' = {}
  BY <1>8, <1>1, Times DEF Overrun
<1>9. CASE met = {} /\ met' # {}
  BY <1>7, <1>9 DEF Overrun
<1>10. CASE met # {}
  <2>1. met' # {}
    BY <1>10
  <2> QED BY <1>6, <1>10, <2>1 DEF Overrun
<1> QED BY <1>8, <1>9, <1>10

(* When one more run is allowed, either it is alone or all have met.       *)
LEMMA OverrunCovers ==
  ASSUME TypeOK, MetInv, NEW r \in Run, at[r] = "budget"
  PROVE  MaxSteps * Cardinality(MayClaim) + MaxSteps <= Overrun
<1>0. /\ IsFiniteSet(met) /\ IsFiniteSet(MayClaim) /\ MaxSteps \in Nat
      /\ Cardinality(met) \in Nat /\ Cardinality(MayClaim) \in Nat
  BY Sizes
<1>1. CASE MayClaim = {}
  <2>1. Cardinality(MayClaim) = 0
    BY <1>1, FS_EmptySet
  <2>2. met # {} => Cardinality(met) >= 1
    BY <1>0, FS_EmptySet
  <2>3. met # {} => MaxSteps * 1 <= MaxSteps * Cardinality(met)
    BY <1>0, <2>2, Times
  <2>4. MaxSteps * 0 = 0 /\ MaxSteps * 1 = MaxSteps
    BY <1>0, Times
  <2> QED BY <1>0, <2>1, <2>3, <2>4 DEF Overrun
<1>2. CASE MayClaim # {}
  <2>1. r \notin MayClaim
    BY DEF MayClaim, Unbilled
  <2>2. \A q \in MayClaim \cup {r} : q \in met
    BY <1>2, <2>1 DEF MayClaim, Unbilled, MetInv, Busy
  <2>3. IsFiniteSet(MayClaim \cup {r}) /\ Cardinality(MayClaim \cup {r}) = Cardinality(MayClaim) + 1
    BY <1>0, <2>1, FS_AddElement
  <2>4. MayClaim \cup {r} \subseteq met
    BY <2>2
  <2>5. Cardinality(MayClaim) + 1 <= Cardinality(met)
    BY <1>0, <2>3, <2>4, FS_Subset
  <2>6. MaxSteps * (Cardinality(MayClaim) + 1) <= MaxSteps * Cardinality(met)
    BY <1>0, <2>5, Times
  <2>7. MaxSteps * (Cardinality(MayClaim) + 1) = MaxSteps * Cardinality(MayClaim) + MaxSteps
    BY <1>0, Times
  <2>8. met # {}
    BY <2>2
  <2> QED BY <2>6, <2>7, <2>8 DEF Overrun
<1> QED BY <1>1, <1>2

(* The steps that allow nobody and bill nothing.                           *)
LEMMA BudgetFrame ==
  ASSUME AgentsInv, BudgetInv, TypeOK', UNCHANGED used, MayClaim' \subseteq MayClaim,
         met \subseteq met', faults <= faults'
  PROVE  BudgetInv'
<1>0. TypeOK
  BY DEF AgentsInv
<1>1. /\ IsFiniteSet(MayClaim) /\ Cardinality(MayClaim) \in Nat /\ MaxSteps \in Nat
      /\ MaxSteps * Cardinality(MayClaim) \in Nat /\ MaxSteps * faults \in Nat
      /\ Overrun \in Nat /\ used \in Nat /\ Limit \in Nat /\ faults \in Nat
  BY <1>0, Sizes
<1>2. /\ IsFiniteSet(MayClaim') /\ Cardinality(MayClaim') \in Nat
      /\ Cardinality(MayClaim') <= Cardinality(MayClaim)
  BY <1>1, FS_Subset, FS_CardinalityType
<1>3. faults' \in Nat /\ Overrun' \in Nat
  <2>1. faults' \in Nat /\ IsFiniteSet(Run) /\ met' \subseteq Run
    BY AgentAssumption DEF TypeOK
  <2>2. Cardinality(met') \in Nat
    BY <2>1, FS_Subset, FS_CardinalityType
  <2> QED BY <1>1, <2>1, <2>2, Times DEF Overrun
<1>4. MaxSteps * Cardinality(MayClaim') <= MaxSteps * Cardinality(MayClaim)
      /\ MaxSteps * Cardinality(MayClaim') \in Nat
  BY <1>1, <1>2, Times
<1>5. MaxSteps * faults <= MaxSteps * faults' /\ MaxSteps * faults' \in Nat
  BY <1>1, <1>3, Times
<1>6. Overrun <= Overrun'
  BY <1>0, OverrunGrows
<1> HIDE DEF MayClaim, Overrun
<1> QED BY <1>1, <1>3, <1>4, <1>5, <1>6 DEF BudgetInv

LEMMA BudgetStep == AgentsInv /\ BudgetInv /\ [Next]_vars => BudgetInv'
<1> SUFFICES ASSUME AgentsInv, BudgetInv, [Next]_vars PROVE BudgetInv'
  OBVIOUS
<1>0. TypeOK /\ MetInv
  BY DEF AgentsInv
<1>t. /\ at \in [Run -> Step] /\ TypeOK' /\ \A r \in Run : outcome[r].claim \in 0 .. MaxSteps
  BY <1>0, TypeStep DEF TypeOK, Outcome
<1>s. /\ IsFiniteSet(MayClaim) /\ Cardinality(MayClaim) \in Nat /\ MaxSteps \in Nat
      /\ MaxSteps * Cardinality(MayClaim) \in Nat /\ MaxSteps * faults \in Nat
      /\ Overrun \in Nat /\ used \in Nat /\ Limit \in Nat /\ faults \in Nat
  BY <1>0, Sizes
<1>m. met \subseteq met'
  BY <1>0, BusyStep DEF NobodyBegins, Begins
<1>f. Fault => faults <= faults' /\ faults' = faults + 1
  BY <1>s DEF Fault
<1>a. ASSUME UNCHANGED used, UNCHANGED faults \/ Fault,
             \A q \in Run : Unbilled(q, at[q])' => Unbilled(q, at[q])
      PROVE  BudgetInv'
  <2>1. MayClaim' \subseteq MayClaim
    BY <1>a DEF MayClaim
  <2> QED BY <1>a, <1>f, <1>s, <1>t, <1>m, <2>1, BudgetFrame
<1>g. ASSUME NEW r \in Run, NEW s \in Step, Go(r, s), UNCHANGED kind,
             Unbilled(r, s) => Unbilled(r, at[r])
      PROVE  \A q \in Run : Unbilled(q, at[q])' => Unbilled(q, at[q])
  BY <1>t, <1>g DEF Go, Unbilled
<1> USE DEF ledger
<1>1. ASSUME NEW r \in Run, NEW k \in Kind, Begins(r, k) PROVE BudgetInv'
  <2>1. /\ at'[r] = "look" /\ UNCHANGED <<faults, used>>
        /\ \A q \in Run : q # r => at'[q] = at[q] /\ kind'[q] = kind[q]
    BY <1>0, <1>t, <1>1 DEF Begins, Go, TypeOK
  <2>2. \A q \in Run : Unbilled(q, at[q])' => Unbilled(q, at[q])
    BY <2>1 DEF Unbilled
  <2> QED BY <1>a, <2>1, <2>2
<1>2. ASSUME NEW r \in Run,
             Look(r) \/ Wake(r) \/ Start(r) \/ LoopEnds(r) \/ Timeout(r) \/ Trust(r) \/ Judge(r)
               \/ Promote(r) \/ KeepProposal(r) \/ Retain(r) \/ Report(r)
      PROVE  BudgetInv'
  <2>1. PICK s \in Step : Go(r, s) /\ (Unbilled(r, s) => Unbilled(r, at[r]))
    BY <1>2 DEF Look, Wake, Start, LoopEnds, AfterLoop, Timeout, Trust, Ignores, AfterTrust, Judge,
                Promote, KeepProposal, Retain, Report, Step, Unbilled
  <2>2. UNCHANGED <<used, kind>> /\ (UNCHANGED faults \/ Fault)
    BY <1>2 DEF Look, Wake, Start, LoopEnds, Timeout, Trust, Judge, Promote, KeepProposal, Retain, Report
  <2> QED BY <1>a, <1>g, <2>1, <2>2
<1>3. ASSUME NEW r \in Run, CheckBudget(r) PROVE BudgetInv'
  <2>1. CASE Go(r, "done")
    BY <1>3, <1>a, <1>g, <2>1 DEF CheckBudget, Step, Unbilled
  <2>2. CASE Go(r, "start")
    <3>1. at[r] = "budget" /\ UNCHANGED <<used, met, kind>>
      BY <1>3 DEF CheckBudget
    <3>2. MayClaim' = MayClaim \cup {r} /\ r \notin MayClaim
      BY <1>t, <2>2, <3>1 DEF Go, MayClaim, Unbilled
    <3>3. Cardinality(MayClaim') = Cardinality(MayClaim) + 1
      BY <1>s, <3>2, FS_AddElement
    <3>4. MaxSteps * Cardinality(MayClaim') = MaxSteps * Cardinality(MayClaim) + MaxSteps
      BY <1>s, <3>3, Times
    <3>5. Overrun' = Overrun
      BY <3>1 DEF Overrun
    <3>6. CASE Allowed /\ UNCHANGED faults
      <4>1. MaxSteps * Cardinality(MayClaim) + MaxSteps <= Overrun
        BY <1>0, <3>1, OverrunCovers
      <4> HIDE DEF MayClaim, Overrun
      <4> QED BY <1>s, <3>1, <3>4, <3>5, <3>6, <4>1 DEF BudgetInv, Allowed
    <3>7. CASE Fault
      <4>1. MaxSteps * faults' = MaxSteps * faults + MaxSteps
        BY <1>s, <1>f, <3>7, Times
      <4> HIDE DEF MayClaim, Overrun
      <4> QED BY <1>s, <3>1, <3>4, <3>5, <4>1 DEF BudgetInv
    <3>8. Go(r, "start") /\ Go(r, "done") => FALSE
      BY <1>t DEF Go
    <3> QED BY <1>3, <2>2, <3>6, <3>7, <3>8 DEF CheckBudget
  <2> QED BY <1>3, <2>1, <2>2 DEF CheckBudget
<1>4. ASSUME NEW r \in Run, Bill(r) PROVE BudgetInv'
  <2>1. PICK s \in Step : Go(r, s) /\ ~ Unbilled(r, s)
    BY <1>4 DEF Bill, AfterBill, AfterTrust, Unbilled, Step
  <2>2. CASE UNCHANGED used
    BY <1>4, <1>a, <1>g, <2>1, <2>2 DEF Bill
  <2>3. CASE used' = used + outcome[r].claim /\ UNCHANGED faults
    <3>1. MayClaim' = MayClaim \ {r} /\ r \in MayClaim
      BY <1>4, <1>t, <2>1 DEF Bill, Go, MayClaim, Unbilled
    <3>2. Cardinality(MayClaim') = Cardinality(MayClaim) - 1
      BY <1>s, <3>1, FS_RemoveElement
    <3>3. Cardinality(MayClaim') \in Nat /\ Cardinality(MayClaim) = Cardinality(MayClaim') + 1
      BY <1>s, <3>1, <3>2, FS_RemoveElement, FS_CardinalityType
    <3>4. MaxSteps * Cardinality(MayClaim) = MaxSteps * Cardinality(MayClaim') + MaxSteps
          /\ MaxSteps * Cardinality(MayClaim') \in Nat
      BY <1>s, <3>3, Times
    <3>5. Overrun' = Overrun
      BY <1>4 DEF Bill, Overrun
    <3>6. outcome[r].claim \in Nat /\ outcome[r].claim <= MaxSteps
      BY <1>t, <1>s
    <3> HIDE DEF MayClaim, Overrun
    <3> QED BY <1>s, <2>3, <3>4, <3>5, <3>6 DEF BudgetInv
  <2> QED BY <1>4, <2>2, <2>3 DEF Bill
<1>5. ASSUME NEW r \in Run, Confirm(r) \/ ProposalExpires(r) PROVE BudgetInv'
  BY <1>5, <1>a DEF Confirm, ProposalExpires, Unbilled
<1>6. CASE ReviewReads \/ ReviewActs \/ OtherStores \/ OtherLeaves
  BY <1>6, <1>a DEF ReviewReads, ReviewActs, OtherStores, OtherLeaves, Unbilled
<1>7. CASE Restart
  BY <1>7, <1>a, <1>t DEF Restart, Unbilled
<1>8. CASE UNCHANGED vars
  BY <1>8, <1>a DEF vars, Unbilled
<1> QED
  BY <1>1, <1>2, <1>3, <1>4, <1>5, <1>6, <1>7, <1>8 DEF Next, RunStep

LEMMA BudgetInit == Init => BudgetInv
<1> SUFFICES ASSUME Init PROVE BudgetInv
  OBVIOUS
<1>1. MayClaim = {} /\ met = {} /\ used = 0 /\ faults = 0
  BY DEF Init, MayClaim, Unbilled
<1>2. Cardinality(MayClaim) = 0
  BY <1>1, FS_EmptySet
<1>3. MaxSteps \in Nat /\ Limit \in Nat \ {0}
  BY AgentAssumption
<1>4. MaxSteps * 0 = 0 /\ MaxSteps * 1 = MaxSteps
  BY <1>3, Times
<1>5. Overrun = MaxSteps
  BY <1>1, <1>4 DEF Overrun
<1> QED BY <1>1, <1>2, <1>3, <1>4, <1>5 DEF BudgetInv

-----------------------------------------------------------------------------
(* The theorems.                                                           *)
LEMMA AgentsStep == AgentsInv /\ [Next]_vars => AgentsInv'
BY TypeStep, AskStep, MetStep, TrustStep, OneOffStep, GoneStep DEF AgentsInv

LEMMA AgentsInvariant == Spec => []AgentsInv
BY AgentsInit, AgentsStep, PTL DEF Spec

(* The variables keep their types, and the trust level its bounds.         *)
THEOREM TypeCorrect == Spec => []TypeOK
<1>1. AgentsInv => TypeOK
  BY DEF AgentsInv
<1> QED BY <1>1, AgentsInvariant, PTL

(* Whoever is asked can answer, and the tool a proposal names runs once.   *)
THEOREM AskedIsAnsweredOnceCorrect == Spec => []AskedIsAnsweredOnce
<1>1. AgentsInv => AskedIsAnsweredOnce
  BY DEF AgentsInv, AskInv, AskedIsAnsweredOnce
<1> QED BY <1>1, AgentsInvariant, PTL

(* Without overlapping runs every recorded task stays counted.             *)
THEOREM TrustKeptCorrect == Spec => []TrustKept
<1>1. AgentsInv => TrustKept
  BY DEF AgentsInv, TrustInv, TrustKept
<1> QED BY <1>1, AgentsInvariant, PTL

(* A one-off agent reports one success, however many of its runs overlap.  *)
THEOREM OneOffReportsOnceCorrect == Spec => []OneOffReportsOnce
<1>1. ASSUME AgentsInv, row.retention = "ephemeral"
      PROVE  Cardinality({r \in Run : Succeeded(r)}) <= 1
  <2> DEFINE S == {r \in Run : Succeeded(r)}
  <2>1. \A q, r \in S : q = r
    BY <1>1 DEF AgentsInv, OneOffInv, ToReport, Succeeded
  <2>2. CASE S = {}
    BY <2>2, FS_EmptySet
  <2>3. CASE S # {}
    <3>1. PICK q \in S : S = {q}
      BY <2>1, <2>3
    <3>2. Cardinality({q}) = 1
      BY FS_Singleton
    <3>3. Cardinality(S) = 1
      BY <3>1, <3>2
    <3> QED BY <3>3
  <2> QED BY <2>2, <2>3
<1>2. AgentsInv => OneOffReportsOnce
  BY <1>1 DEF OneOffReportsOnce
<1> QED BY <1>2, AgentsInvariant, PTL

(* A cron run with a result is silent only for one of the reasons named.   *)
THEOREM SilenceIsExcusedCorrect == Spec => SilenceIsExcused
<1> DEFINE Excused(r) ==
      \/ faults' # faults
      \/ Asks(r) /\ at[r] = "retain" /\ Full'
      \/ row.retention = "ephemeral" /\ ~row.there /\ r \in met
<1> DEFINE Excuses ==
      \A r \in Run :
        /\ kind[r] = "cron" /\ at[r] \in Step \ {"look", "wake", "budget"} /\ Busy(r)
        /\ at'[r] = "done" /\ r \notin reported'
        => Excused(r)
<1>1. AgentsInv /\ [Next]_vars => [Excuses]_vars
  <2> SUFFICES ASSUME AgentsInv, [Next]_vars, NEW r \in Run, kind[r] = "cron",
                      at[r] \in Step \ {"look", "wake", "budget"}, Busy(r), at'[r] = "done", r \notin reported'
               PROVE  Excused(r)
    OBVIOUS
  <2>0. TypeOK /\ GoneInv
    BY DEF AgentsInv
  <2>t. at \in [Run -> Step] /\ row.retention \in {"persistent", "seasonal", "ephemeral"}
    BY <2>0 DEF TypeOK, Row
  <2>f. Fault => faults' # faults
    BY <2>0 DEF Fault, TypeOK
  <2>1. at' # at
    BY DEF Busy
  <2>2. CASE Restart
    BY <2>2, <2>f DEF Restart
  <2>3. ASSUME NEW q \in Run, NEW s \in Step, Go(q, s) PROVE q = r /\ s = "done"
    BY <2>3, <2>t DEF Go, Busy
  <2>4. ASSUME NEW q \in Run, NEW k \in Kind, Begins(q, k) PROVE FALSE
    BY <2>4, <2>3 DEF Begins, Step
  <2>5. ASSUME NEW q \in Run, Look(q) \/ Wake(q) \/ CheckBudget(q) PROVE FALSE
    <3>1. PICK s \in Step : Go(q, s)
      BY <2>5 DEF Look, Wake, CheckBudget, Step
    <3>2. q = r
      BY <2>3, <3>1
    <3> QED BY <2>5, <3>2 DEF Look, Wake, CheckBudget
  <2>6. ASSUME NEW q \in Run, LoopEnds(q) \/ Timeout(q) PROVE FALSE
    BY <2>6, <2>3 DEF LoopEnds, Timeout, AfterLoop, Step
  <2>a. ASSUME NEW q \in Run, Trust(q) \/ Judge(q) \/ Promote(q) PROVE Excused(r)
    BY <2>a, <2>3, <2>f DEF Trust, Ignores, AfterTrust, Judge, Promote, Step
  <2>b. ASSUME NEW q \in Run, Start(q) PROVE Excused(r)
    BY <2>b, <2>3, <2>f DEF Start, AfterLoop, Step
  <2>7. ASSUME NEW q \in Run, Bill(q) PROVE Excused(r)
    BY <2>7, <2>3, <2>f DEF Bill, AfterBill, AfterTrust, Step
  <2>8. ASSUME NEW q \in Run, KeepProposal(q) PROVE Excused(r)
    <3>1. PICK s \in Step : Go(q, s)
      BY <2>8 DEF KeepProposal, Step
    <3>2. q = r /\ NoStore /\ Asks(r) /\ at[r] = "retain"
      BY <2>8, <2>3, <3>1 DEF KeepProposal, Step
    <3>3. PICK n \in OthersLeft : ~ HasRoom(n) /\ others' = n /\ proposal' = Kept
      BY <3>2 DEF NoStore
    <3>4. Full'
      <4>1. ~ (Cardinality({p \in Run : proposal'[p] \in Present}) + others' < MaxProposals)
        BY <3>3 DEF HasRoom
      <4>2. IsFiniteSet({p \in Run : proposal'[p] \in Present})
        BY AgentAssumption, FS_Subset
      <4>3. Cardinality({p \in Run : proposal'[p] \in Present}) \in Nat
        BY <4>2, FS_CardinalityType
      <4>4. others' \in Nat /\ MaxProposals \in Nat
        BY <2>0, TypeStep, AgentAssumption DEF TypeOK
      <4> QED BY <4>1, <4>3, <4>4 DEF Full
    <3> QED BY <3>2, <3>4
  <2>9. ASSUME NEW q \in Run, Retain(q) PROVE Excused(r)
    <3>1. CASE Fault
      BY <3>1, <2>f
    <3>2. CASE ~ Fault
      <4>1. /\ q = r /\ outcome[r].status = "success" /\ row.retention # "persistent" /\ ~ row.there
            /\ at[r] = "retain"
        BY <2>3, <2>9, <3>2 DEF Retain, Deletable, Step
      <4>2. row.retention = "ephemeral"
        BY <2>0, <2>t, <4>1 DEF GoneInv
      <4>3. r \in met
        BY <2>0, <4>1, <4>2 DEF GoneInv, InLoop
      <4> QED BY <4>1, <4>2, <4>3
    <3> QED BY <3>1, <3>2
  <2>10. ASSUME NEW q \in Run, Report(q) PROVE FALSE
    BY <2>10, <2>3 DEF Report, Step
  <2>11. ASSUME NEW q \in Run, Confirm(q) \/ ProposalExpires(q) PROVE FALSE
    BY <2>1, <2>11 DEF Confirm, ProposalExpires
  <2>12. CASE ReviewReads \/ ReviewActs \/ OtherStores \/ OtherLeaves \/ UNCHANGED vars
    BY <2>1, <2>12 DEF ReviewReads, ReviewActs, OtherStores, OtherLeaves, vars
  <2> QED
    BY <2>2, <2>4, <2>5, <2>6, <2>a, <2>b, <2>7, <2>8, <2>9, <2>10, <2>11, <2>12 DEF Next, RunStep
<1> QED BY <1>1, AgentsInvariant, PTL DEF Spec, SilenceIsExcused

(* The budget of a day is overrun by no more than one run, or the runs that*)
(* overlapped, and the delegations whose check failed, may claim.          *)
THEOREM BudgetBoundCorrect == Spec => []BudgetBound
<1>1. Init => AgentsInv /\ BudgetInv
  BY AgentsInit, BudgetInit
<1>2. (AgentsInv /\ BudgetInv) /\ [Next]_vars => (AgentsInv /\ BudgetInv)'
  BY AgentsStep, BudgetStep
<1>3. AgentsInv /\ BudgetInv => BudgetBound
  <2> SUFFICES ASSUME AgentsInv, BudgetInv PROVE BudgetBound
    OBVIOUS
  <2>1. /\ MaxSteps * Cardinality(MayClaim) \in Nat /\ MaxSteps * faults \in Nat
        /\ Overrun \in Nat /\ used \in Nat /\ Limit \in Nat
    BY Sizes DEF AgentsInv
  <2> HIDE DEF MayClaim, Overrun
  <2> QED BY <2>1 DEF BudgetInv, BudgetBound
<1> QED BY <1>1, <1>2, <1>3, PTL DEF Spec
=============================================================================
