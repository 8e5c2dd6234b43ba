---------------------------- MODULE CommandLanes ----------------------------
(***************************************************************************)
(* The in-process command queue of the gateway,                            *)
(* packages/gateway/src/process/command-queue.ts, and the loop around it   *)
(* that restarts the server inside the process on SIGUSR1,                 *)
(* packages/gateway/src/cli/gateway-cli/run-loop.ts.                       *)
(*                                                                         *)
(* A lane starts its commands in order, at most maxConcurrent at a time.   *)
(* A command may await another one in a different lane: runEmbeddedPiAgent *)
(* holds its session's lane while its turn waits in the global lane.       *)
(* A restart forgets which commands run (their completions then count for  *)
(* nothing, by the generation they were started in) and keeps the queues.  *)
(*                                                                         *)
(* Every operation runs without an await, so it is one step, the pump at   *)
(* its end included; the draining flag only stops the pump from reentering *)
(* itself.  Task ids are never reused: a command stands for its id.        *)
(***************************************************************************)
EXTENDS Naturals, Sequences, FiniteSets

CONSTANTS
  Lane,           \* names of lanes
  Task,           \* commands
  LaneOf,         \* the lane each command is enqueued in
  Parent,         \* the command that enqueues and awaits a command
  NoTask,         \* no such command
  Adjustable,     \* lanes whose concurrency the configuration sets
  MaxConcurrency, \* bound on what the configuration asks for
  MaxRestarts     \* bound on the number of restarts

ASSUME LaneAssumption == LaneOf \in [Task -> Lane] /\ Adjustable \subseteq Lane
ASSUME TaskAssumption == IsFiniteSet(Task) /\ NoTask \notin Task
ASSUME ParentAssumption ==
  /\ Parent \in [Task -> Task \cup {NoTask}]
  /\ \A t \in Task : Parent[t] # NoTask => LaneOf[Parent[t]] \notin Adjustable
ASSUME BoundAssumption == MaxConcurrency \in Nat \ {0} /\ MaxRestarts \in Nat

VARIABLES
  queue,    \* waiting commands of each lane
  active,   \* activeTaskIds of each lane
  max,      \* maxConcurrent of each lane
  gen,      \* generation, the same for every lane
  status,   \* progress of each command
  born,     \* taskGeneration of a started command
  loop,     \* what the restart loop is doing
  waiting,  \* activeAtStart of waitForActiveTasks
  drained   \* its result

laneVars == <<queue, active, max, status, born>>
loopVars == <<gen, loop, waiting, drained>>
vars == <<laneVars, loopVars>>

Status == {"new", "queued", "running", "settled", "cleared"}
Settled(t) == status[t] \in {"settled", "cleared"}
Loop == {"up", "draining", "closing"}

Init ==
  /\ queue = [l \in Lane |-> <<>>]
  /\ active = [l \in Lane |-> {}]
  /\ max = [l \in Lane |-> 1]
  /\ gen = 0
  /\ status = [t \in Task |-> "new"]
  /\ born = [t \in Task |-> 0]
  /\ loop = "up"
  /\ waiting = {}
  /\ drained = FALSE

-----------------------------------------------------------------------------
(* The pump takes commands off the front while there is room.              *)

RoomForOneMore(act, m) ==
  IF Cardinality(act) <= m THEN m + 1 - Cardinality(act) ELSE 0
Room(act, m) == IF Cardinality(act) < m THEN m - Cardinality(act) ELSE 0
Taken(q, act, m) == IF Room(act, m) < Len(q) THEN Room(act, m) ELSE Len(q)
Front(q, k) == {q[i] : i \in 1 .. k}
Rest(q, k) == SubSeq(q, k + 1, Len(q))

(* drainLane(l), after an operation has left q, act, m and st behind.      *)
Pump(l, q, act, m, st) ==
  LET k == Taken(q, act, m)
      started == Front(q, k)
  IN  /\ queue' = [queue EXCEPT ![l] = Rest(q, k)]
      /\ active' = [active EXCEPT ![l] = act \cup started]
      /\ max' = [max EXCEPT ![l] = m]
      /\ status' = [t \in Task |-> IF t \in started THEN "running" ELSE st[t]]
      /\ born' = [t \in Task |-> IF t \in started THEN gen ELSE born[t]]

(* enqueueCommandInLane.                                                   *)
EnqueueCommandInLane(t) ==
  LET l == LaneOf[t]
  IN  /\ status[t] = "new"
      /\ Parent[t] # NoTask => status[Parent[t]] = "running"
      /\ Pump(l, Append(queue[l], t), active[l], max[l],
              [status EXCEPT ![t] = "queued"])
      /\ UNCHANGED loopVars

(* A command ends, well or with an error, completeTask: one of an earlier  *)
(* generation frees no place and starts nothing.                           *)
Current(t) == born[t] = gen

CompleteWithoutPump(t) ==
  /\ status[t] = "running"
  /\ \A c \in Task : Parent[c] = t => status[c] \notin {"queued", "running"}
  /\ active' = [active EXCEPT ![LaneOf[t]] = @ \ {t}]
  /\ status' = [status EXCEPT ![t] = "settled"]
  /\ UNCHANGED <<queue, max, born, loopVars>>
CompleteTask(t) ==
  LET l == LaneOf[t]
      st == [status EXCEPT ![t] = "settled"]
  IN  /\ status[t] = "running"
      /\ \A c \in Task : Parent[c] = t => status[c] \notin {"queued", "running"}
      /\ \/ /\ Current(t)
            /\ Pump(l, queue[l], active[l] \ {t}, max[l], st)
         \/ /\ ~ Current(t)
            /\ status' = st
            /\ UNCHANGED <<queue, active, max, born>>
      /\ UNCHANGED loopVars

(* clearCommandLane, of the lane of a session.                             *)
ClearCommandLane(l) ==
  /\ queue[l] # <<>>
  /\ queue' = [queue EXCEPT ![l] = <<>>]
  /\ status' = [t \in Task |-> IF t \in Front(queue[l], Len(queue[l]))
                               THEN "cleared" ELSE status[t]]
  /\ UNCHANGED <<active, max, born, loopVars>>

(* setCommandLaneConcurrency, at the start and when the configuration is   *)
(* reloaded.                                                               *)
AtLeastOne(n) == IF n < 1 THEN 1 ELSE n

SetCommandLaneConcurrency(l, n) ==
  /\ Pump(l, queue[l], active[l], AtLeastOne(n), status)
  /\ UNCHANGED loopVars

-----------------------------------------------------------------------------
(* The restart loop: request("restart"), waitForActiveTasks, the close of  *)
(* the server, resetAllLanes.  A second signal meanwhile is ignored.       *)

Active == UNION {active[l] : l \in Lane}

RequestRestart ==
  /\ loop = "up"
  /\ gen < MaxRestarts
  /\ loop' = IF Active = {} THEN "closing" ELSE "draining"
  /\ waiting' = Active
  /\ drained' = (Active = {})
  /\ UNCHANGED <<laneVars, gen>>

(* The poll of waitForActiveTasks.                                         *)
SomeGone == waiting = {} \/ ~ waiting \subseteq Active
AllGone == waiting \cap Active = {}

Drained ==
  /\ loop = "draining"
  /\ AllGone
  /\ loop' = "closing"
  /\ drained' = TRUE
  /\ UNCHANGED <<laneVars, gen, waiting>>

DrainTimeout ==
  /\ loop = "draining"
  /\ ~ AllGone
  /\ loop' = "closing"
  /\ UNCHANGED <<laneVars, gen, waiting, drained>>

(* resetAllLanes: forgets what runs and pumps what waits in every lane.    *)
NextGeneration == gen + 1
KeptActive(l) == active[l]
Kept(l) == {}
NothingRestarted(l) == 0
Restarted(l) == Taken(queue[l], Kept(l), max[l])

ResetAllLanes ==
  LET started == UNION {Front(queue[l], Restarted(l)) : l \in Lane}
  IN  /\ loop = "closing"
      /\ gen' = NextGeneration
      /\ queue' = [l \in Lane |-> Rest(queue[l], Restarted(l))]
      /\ active' = [l \in Lane |-> Kept(l) \cup Front(queue[l], Restarted(l))]
      /\ status' = [t \in Task |-> IF t \in started THEN "running" ELSE status[t]]
      /\ born' = [t \in Task |-> IF t \in started THEN NextGeneration ELSE born[t]]
      /\ loop' = "up"
      /\ waiting' = {}
      /\ drained' = FALSE
      /\ UNCHANGED max

-----------------------------------------------------------------------------
Next ==
  \/ \E t \in Task : EnqueueCommandInLane(t) \/ CompleteTask(t)
  \/ \E l \in Lane \ Adjustable : ClearCommandLane(l)
  \/ \E l \in Adjustable, n \in 0 .. MaxConcurrency : SetCommandLaneConcurrency(l, n)
  \/ RequestRestart \/ Drained \/ DrainTimeout \/ ResetAllLanes

Spec == Init /\ [][Next]_vars

(* A command of the current generation ends once what it awaits has ended  *)
(* (agent runs have a time limit of their own), and the restart loop goes  *)
(* on by itself.  Nothing is assumed of a command that a restart           *)
(* interrupted: its finally block may never run.                           *)
Fairness ==
  /\ \A t \in Task : WF_vars(Current(t) /\ CompleteTask(t))
  /\ WF_vars(Drained) /\ WF_vars(DrainTimeout) /\ WF_vars(ResetAllLanes)

FairSpec == Spec /\ Fairness

-----------------------------------------------------------------------------
(* Properties                                                              *)

(* Type invariant of the lanes and of the restart loop.                    *)
TypeOK ==
  /\ queue \in [Lane -> Seq(Task)]
  /\ active \in [Lane -> SUBSET Task]
  /\ max \in [Lane -> 1 .. MaxConcurrency]
  /\ gen \in 0 .. MaxRestarts
  /\ status \in [Task -> Status]
  /\ born \in [Task -> 0 .. MaxRestarts]
  /\ loop \in Loop
  /\ waiting \subseteq Task
  /\ drained \in BOOLEAN

(* No wake-up is lost: whatever completes, fails, is cleared, reconfigured *)
(* or reset, a command never waits while its lane has a free place.        *)
NoIdleSlot ==
  \A l \in Lane : queue[l] # <<>> => Cardinality(active[l]) >= max[l]

(* The ids a lane counts as active are those of the commands of the        *)
(* current generation that still run: after a restart no place is taken by *)
(* a command that was interrupted or given free by one that ends late.     *)
SlotsAreCurrent ==
  \A l \in Lane :
    active[l] = {t \in Task : LaneOf[t] = l /\ status[t] = "running" /\ born[t] = gen}

(* Two commands of one session run together only if a restart lies between *)
(* their starts: each generation runs a session's turns one at a time.     *)
OneTurnPerSession ==
  \A t, u \in Task :
    /\ LaneOf[t] = LaneOf[u] /\ LaneOf[t] \notin Adjustable
    /\ status[t] = "running" /\ status[u] = "running"
    /\ born[t] = born[u]
    => t = u

(* When the loop closes the server because waitForActiveTasks said         *)
(* "drained", every command it waited for has settled, and so has what     *)
(* those commands awaited.                                                 *)
DrainedMeansSettled ==
  loop = "closing" /\ drained =>
    \A t \in Task : t \in waiting \/ Parent[t] \in waiting =>
      status[t] \notin {"queued", "running"}

(* A lane never starts a command beyond its limit, not even right after    *)
(* the limit was lowered below what runs already.                          *)
WithinLimit ==
  [][\A l \in Lane :
       ~ active'[l] \subseteq active[l] => Cardinality(active'[l]) <= max'[l]]_vars

(* Every command that is enqueued is started or cleared, and settles       *)
(* unless a restart interrupts it while it runs: also one that waits in a  *)
(* lane behind commands which themselves wait in another lane, or behind   *)
(* commands that a restart interrupted and that never end.                 *)
Interrupted(t) == status[t] = "running" /\ ~ Current(t)

EveryCommandSettles ==
  \A t \in Task : status[t] = "queued" ~> Settled(t) \/ Interrupted(t)
=============================================================================
