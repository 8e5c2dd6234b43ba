------------------------ MODULE CommandLanes_proofs ------------------------
(* Proofs about the command lanes, for any lanes, commands, parents,       *)
(* concurrency limits and number of restarts.                              *)
EXTENDS CommandLanes, FiniteSetTheorems, TLAPS

-----------------------------------------------------------------------------
(* The pump on sequences.  A queue of a lane holds its waiting commands,   *)
(* each of them once.                                                      *)

Distinct(q) == \A i, j \in 1 .. Len(q) : q[i] = q[j] => i = j

(* The pump takes at most what waits and at most what there is room for,   *)
(* and leaves nothing behind unless the lane is full.                      *)
LEMMA TakenBounds ==
  ASSUME NEW q \in Seq(Task), NEW act \in SUBSET Task, NEW m \in Nat
  PROVE  LET k == Taken(q, act, m)
         IN  /\ k \in 0 .. Len(q)
             /\ k < Len(q) => Cardinality(act) + k >= m
             /\ k > 0 => Cardinality(act) + k <= m
<1>1. Cardinality(act) \in Nat
  BY TaskAssumption, FS_Subset, FS_CardinalityType
<1>2. Len(q) \in Nat
  OBVIOUS
<1>3. QED
  BY <1>1, <1>2 DEF Taken, Room

LEMMA FrontType ==
  ASSUME NEW q \in Seq(Task), NEW k \in 0 .. Len(q)
  PROVE  Front(q, k) \subseteq Task /\ IsFiniteSet(Front(q, k))
<1>1. Front(q, k) \subseteq Task
  BY DEF Front
<1>2. QED
  BY <1>1, TaskAssumption, FS_Subset

LEMMA RestType ==
  ASSUME NEW q \in Seq(Task), NEW k \in 0 .. Len(q)
  PROVE  /\ Rest(q, k) \in Seq(Task)
         /\ Len(Rest(q, k)) = Len(q) - k
         /\ \A i \in 1 .. Len(q) - k : Rest(q, k)[i] = q[i + k]
BY DEF Rest

LEMMA FrontCardinality ==
  ASSUME NEW q \in Seq(Task), Distinct(q), NEW k \in 0 .. Len(q)
  PROVE  Cardinality(Front(q, k)) = k
<1> DEFINE f == [i \in 1 .. k |-> q[i]]
<1>1. f \in Bijection(1 .. k, Front(q, k))
  <2>1. f \in Surjection(1 .. k, Front(q, k))
    BY DEF Front, Surjection
  <2>2. \A i, j \in 1 .. k : f[i] = f[j] => i = j
    BY DEF Distinct
  <2>3. QED
    BY <2>1, <2>2 DEF Surjection, Injection, IsInjective, Bijection
<1>2. QED
  BY <1>1, FS_CountingElements DEF ExistsBijection

(* Started commands add up with those that already ran.                    *)
LEMMA PumpCardinality ==
  ASSUME NEW q \in Seq(Task), Distinct(q), NEW k \in 0 .. Len(q),
         NEW act \in SUBSET Task, act \cap Front(q, k) = {}
  PROVE  Cardinality(act \cup Front(q, k)) = Cardinality(act) + k
<1>1. IsFiniteSet(act) /\ IsFiniteSet(Front(q, k))
  BY TaskAssumption, FS_Subset, FrontType
<1>2. Cardinality(act) \in Nat
  BY <1>1, FS_CardinalityType
<1>3. Cardinality(act \cap Front(q, k)) = 0
  BY FS_EmptySet
<1>4. Cardinality(act \cup Front(q, k))
        = Cardinality(act) + Cardinality(Front(q, k))
            - Cardinality(act \cap Front(q, k))
  BY <1>1, FS_Union
<1>5. QED
  BY <1>2, <1>3, <1>4, FrontCardinality

-----------------------------------------------------------------------------
(* The inductive invariant.                                                *)

(* The queue of a lane holds commands of that lane that wait, each once.   *)
QueueOf(l, q, st) ==
  /\ q \in Seq(Task)
  /\ Distinct(q)
  /\ \A i \in 1 .. Len(q) : LaneOf[q[i]] = l /\ st[q[i]] = "queued"

QueueInv == \A l \in Lane : QueueOf(l, queue[l], status)

(* Only the lanes of sessions are never given another limit than one.      *)
LimitInv == \A l \in Lane \ Adjustable : max[l] = 1

BornInv == \A t \in Task : born[t] <= gen

(* What awaits a command that waits or runs is still running.              *)
ParentInv ==
  \A c \in Task : Parent[c] # NoTask /\ status[c] \in {"queued", "running"} =>
    status[Parent[c]] = "running"

(* What the restart loop waits for runs in the current generation until it *)
(* has settled; a restart under way is within the bound.                   *)
WaitInv ==
  /\ \A t \in waiting : Settled(t) \/ (status[t] = "running" /\ born[t] = gen)
  /\ loop = "closing" /\ drained => \A t \in waiting : Settled(t)
  /\ loop # "closing" => ~ drained
  /\ loop # "up" => gen < MaxRestarts

LaneInv == TypeOK /\ QueueInv /\ SlotsAreCurrent /\ NoIdleSlot
SessionInv == LimitInv /\ BornInv /\ OneTurnPerSession
IInv == LaneInv /\ SessionInv /\ ParentInv /\ WaitInv

(* What the operations establish before they pump a lane in generation g:  *)
(* everything but that the lane has no free place.                         *)
Ready(l, q, act, m, st, g) ==
  /\ QueueOf(l, q, st)
  /\ act = {t \in Task : LaneOf[t] = l /\ st[t] = "running" /\ born[t] = g}
  /\ m \in 1 .. MaxConcurrency
  /\ l \notin Adjustable => m = 1
  /\ st \in [Task -> Status]
  /\ \A t \in Task : LaneOf[t] # l => st[t] = status[t]
  /\ \A t \in Task : st[t] = "running" => status[t] = "running"

-----------------------------------------------------------------------------
(* One pump.                                                               *)

(* What a pump starts: k commands of the lane off the front of the queue,  *)
(* within the limit, and all of them unless the lane is then full.         *)
Starts(l, q, act, m, st, k) ==
  /\ k \in 0 .. Len(q)
  /\ k < Len(q) => Cardinality(act) + k >= m
  /\ k > 0 => Cardinality(act) + k <= m
  /\ Front(q, k) \subseteq Task
  /\ \A t \in Front(q, k) : LaneOf[t] = l /\ st[t] = "queued"
  /\ act \subseteq Task
  /\ Cardinality(act) \in Nat
  /\ Cardinality(act \cup Front(q, k)) = Cardinality(act) + k

LEMMA StartedFacts ==
  ASSUME NEW l \in Lane, NEW q, NEW act, NEW m, NEW st, NEW g,
         Ready(l, q, act, m, st, g), NEW k, k = Taken(q, act, m)
  PROVE  Starts(l, q, act, m, st, k)
<1>1. q \in Seq(Task) /\ Distinct(q) /\ m \in Nat /\ act \in SUBSET Task
  BY BoundAssumption DEF Ready, QueueOf
<1>2. /\ k \in 0 .. Len(q)
      /\ k < Len(q) => Cardinality(act) + k >= m
      /\ k > 0 => Cardinality(act) + k <= m
  BY <1>1, TakenBounds
<1>3. \A t \in Front(q, k) : t \in Task /\ LaneOf[t] = l /\ st[t] = "queued"
  BY <1>1, <1>2, FrontType DEF Front, Ready, QueueOf
<1>4. act \cap Front(q, k) = {}
  BY <1>3 DEF Ready
<1>5. Cardinality(act) \in Nat
  BY <1>1, TaskAssumption, FS_Subset, FS_CardinalityType
<1>6. Cardinality(act \cup Front(q, k)) = Cardinality(act) + k
  BY <1>1, <1>2, <1>4, PumpCardinality
<1>7. QED
  BY <1>1, <1>2, <1>3, <1>5, <1>6 DEF Starts

(* What is left of the queue is still in order.                            *)
LEMMA RestIsQueue ==
  ASSUME NEW l \in Lane, NEW q, NEW st, QueueOf(l, q, st), NEW k \in 0 .. Len(q),
         NEW st2, \A t \in Task : st2[t] = IF t \in Front(q, k) THEN "running" ELSE st[t]
  PROVE  QueueOf(l, Rest(q, k), st2)
<1>1. q \in Seq(Task) /\ Distinct(q) /\ Len(q) \in Nat
  BY DEF QueueOf
<1>2. /\ Rest(q, k) \in Seq(Task)
      /\ Len(Rest(q, k)) = Len(q) - k
      /\ \A i \in 1 .. Len(q) - k : Rest(q, k)[i] = q[i + k]
  BY <1>1, RestType
<1>3. \A i \in 1 .. Len(q) - k : i + k \in 1 .. Len(q) /\ ~ q[i + k] \in Front(q, k)
  <2> TAKE i \in 1 .. Len(q) - k
  <2>1. i + k \in 1 .. Len(q)
    BY <1>1
  <2>2. \A j \in 1 .. k : q[j] # q[i + k]
    BY <1>1, <2>1 DEF Distinct
  <2>3. QED
    BY <2>1, <2>2 DEF Front
<1>4. Distinct(Rest(q, k))
  <2> DEFINE r == Rest(q, k)
  <2>1. ASSUME NEW i \in 1 .. Len(q) - k, NEW j \in 1 .. Len(q) - k,
               q[i + k] = q[j + k]
        PROVE  i = j
    <3>1. i + k = j + k
      BY <1>1, <1>3, <2>1 DEF Distinct
    <3>2. QED
      BY <1>1, <3>1
  <2>2. \A i, j \in 1 .. Len(q) - k : r[i] = r[j] => i = j
    BY <1>2, <2>1
  <2>3. Len(r) = Len(q) - k
    BY <1>2
  <2> HIDE DEF r
  <2>4. Distinct(r)
    BY <2>2, <2>3 DEF Distinct
  <2>5. QED
    BY <2>4 DEF r
<1>5. ASSUME NEW i \in 1 .. Len(q) - k
      PROVE  LaneOf[Rest(q, k)[i]] = l /\ st2[Rest(q, k)[i]] = "queued"
  <2>1. Rest(q, k)[i] = q[i + k] /\ i + k \in 1 .. Len(q) /\ ~ q[i + k] \in Front(q, k)
    BY <1>2, <1>3
  <2>2. q[i + k] \in Task /\ LaneOf[q[i + k]] = l /\ st[q[i + k]] = "queued"
    BY <1>1, <2>1 DEF QueueOf
  <2>3. QED
    BY <2>1, <2>2
<1>6. QED
  BY <1>1, <1>2, <1>4, <1>5 DEF QueueOf

(* A queue is only concerned with the commands of its lane.                *)
LEMMA QueueOfLane ==
  ASSUME NEW l \in Lane, NEW q, NEW st, QueueOf(l, q, st),
         NEW st2, \A t \in Task : LaneOf[t] = l => st2[t] = st[t]
  PROVE  QueueOf(l, q, st2)
BY DEF QueueOf

-----------------------------------------------------------------------------
(* An operation that ends in a pump.                                       *)

LEMMA PumpLane ==
  ASSUME IInv, NEW l \in Lane, NEW q, NEW act, NEW m, NEW st,
         Ready(l, q, act, m, st, gen), Pump(l, q, act, m, st), gen' = gen,
         UNCHANGED <<loop, waiting, drained>>
  PROVE  LaneInv'
<1> DEFINE k == Taken(q, act, m)
           S == Front(q, k)
<1>0. TypeOK /\ k = Taken(q, act, m)
  BY DEF IInv, LaneInv
<1> HIDE DEF k
<1>1. /\ k \in 0 .. Len(q)
      /\ k < Len(q) => Cardinality(act) + k >= m
      /\ S \subseteq Task
      /\ \A t \in S : LaneOf[t] = l /\ st[t] = "queued"
      /\ act \subseteq Task
      /\ Cardinality(act) \in Nat
      /\ Cardinality(act \cup S) = Cardinality(act) + k
  <2>1. Starts(l, q, act, m, st, k)
    BY <1>0, StartedFacts
  <2>2. QED
    BY <2>1 DEF Starts
<1>2. /\ queue' = [queue EXCEPT ![l] = Rest(q, k)]
      /\ active' = [active EXCEPT ![l] = act \cup S]
      /\ max' = [max EXCEPT ![l] = m]
      /\ status' = [t \in Task |-> IF t \in S THEN "running" ELSE st[t]]
      /\ born' = [t \in Task |-> IF t \in S THEN gen ELSE born[t]]
  BY <1>0 DEF Pump
<1> HIDE DEF S
<1>3. QueueOf(l, Rest(q, k), status')
  BY <1>1, <1>2, RestIsQueue DEF Ready, S
<1>4. TypeOK /\ QueueInv /\ SlotsAreCurrent /\ NoIdleSlot
  BY DEF IInv, LaneInv
<1>5. TypeOK'
  <2>1. queue' \in [Lane -> Seq(Task)]
    BY <1>2, <1>3, <1>4 DEF TypeOK, QueueOf
  <2>2. active' \in [Lane -> SUBSET Task] /\ max' \in [Lane -> 1 .. MaxConcurrency]
    BY <1>1, <1>2, <1>4 DEF TypeOK, Ready
  <2>3. status' \in [Task -> Status]
    BY <1>2 DEF Ready, Status
  <2>4. born' \in [Task -> 0 .. MaxRestarts]
    BY <1>2, <1>4 DEF TypeOK
  <2>5. QED
    BY <1>4, <2>1, <2>2, <2>3, <2>4 DEF TypeOK
<1>6. QueueInv'
  <2>1. ASSUME NEW o \in Lane, o # l
        PROVE  QueueOf(o, queue'[o], status')
    <3>1. queue'[o] = queue[o] /\ QueueOf(o, queue[o], status)
      BY <1>2, <1>4, <2>1 DEF TypeOK, QueueInv
    <3>2. \A t \in Task : LaneOf[t] = o => status'[t] = status[t]
      BY <1>1, <1>2, <2>1 DEF Ready
    <3>3. QED
      BY <3>1, <3>2 DEF QueueOf
  <2>2. QueueOf(l, queue'[l], status')
    BY <1>2, <1>3, <1>4 DEF TypeOK
  <2>3. QED
    BY <2>1, <2>2 DEF QueueInv
<1>7. SlotsAreCurrent'
  <2>1. ASSUME NEW o \in Lane, o # l
        PROVE  active'[o] = {t \in Task : LaneOf[t] = o /\ status'[t] = "running" /\ born'[t] = gen'}
    <3>1. active'[o] = active[o]
      BY <1>2, <1>4, <2>1 DEF TypeOK
    <3>2. \A t \in Task : LaneOf[t] = o => status'[t] = status[t] /\ born'[t] = born[t]
      BY <1>1, <1>2, <2>1 DEF Ready
    <3>3. QED
      BY <1>4, <3>1, <3>2 DEF SlotsAreCurrent
  <2>2. active'[l] = {t \in Task : LaneOf[t] = l /\ status'[t] = "running" /\ born'[t] = gen'}
    <3>1. active'[l] = act \cup S
      BY <1>2, <1>4 DEF TypeOK
    <3>2. QED
      BY <1>1, <1>2, <3>1 DEF Ready
  <2>3. QED
    BY <2>1, <2>2 DEF SlotsAreCurrent
<1>8. NoIdleSlot'
  <2>1. ASSUME NEW o \in Lane, o # l, queue'[o] # <<>>
        PROVE  Cardinality(active'[o]) >= max'[o]
    BY <1>2, <1>4, <2>1 DEF TypeOK, NoIdleSlot
  <2>2. ASSUME queue'[l] # <<>>
        PROVE  Cardinality(active'[l]) >= max'[l]
    <3>1. queue'[l] = Rest(q, k) /\ active'[l] = act \cup S /\ max'[l] = m
      BY <1>2, <1>4 DEF TypeOK
    <3>2. q \in Seq(Task) /\ Len(Rest(q, k)) = Len(q) - k /\ Rest(q, k) \in Seq(Task)
      BY <1>1, RestType DEF Ready, QueueOf
    <3>3. k < Len(q)
      BY <1>1, <2>2, <3>1, <3>2
    <3>4. QED
      BY <1>1, <3>1, <3>3
  <2>3. QED
    BY <2>1, <2>2 DEF NoIdleSlot
<1>9. QED
  BY <1>5, <1>6, <1>7, <1>8 DEF LaneInv

(* What a step may do to the limits: see WithinLimit.                      *)
LimitKept ==
  \A l \in Lane : ~ active'[l] \subseteq active[l] => Cardinality(active'[l]) <= max'[l]

LEMMA PumpLimit ==
  ASSUME IInv, NEW l \in Lane, NEW q, NEW act, NEW m, NEW st,
         Ready(l, q, act, m, st, gen), Pump(l, q, act, m, st), act \subseteq active[l]
  PROVE  LimitKept
<1> DEFINE k == Taken(q, act, m)
           S == Front(q, k)
<1>1. /\ k > 0 => Cardinality(act) + k <= m
      /\ Cardinality(act \cup S) = Cardinality(act) + k
      /\ k \in 0 .. Len(q) /\ Len(q) \in Nat
  <2>1. Starts(l, q, act, m, st, k)
    BY StartedFacts
  <2>2. QED
    BY <2>1 DEF Starts, Ready, QueueOf
<1>2. k = 0 => S = {}
  BY DEF Front
<1>3. /\ active' = [active EXCEPT ![l] = act \cup S]
      /\ max' = [max EXCEPT ![l] = m]
      /\ active \in [Lane -> SUBSET Task] /\ max \in [Lane -> 1 .. MaxConcurrency]
  BY DEF Pump, IInv, LaneInv, TypeOK
<1> HIDE DEF k, S
<1>4. QED
  BY <1>1, <1>2, <1>3 DEF LimitKept

LEMMA PumpSession ==
  ASSUME IInv, NEW l \in Lane, NEW q, NEW act, NEW m, NEW st,
         Ready(l, q, act, m, st, gen), Pump(l, q, act, m, st), gen' = gen
  PROVE  SessionInv'
<1> DEFINE k == Taken(q, act, m)
           S == Front(q, k)
<1>0. TypeOK /\ k = Taken(q, act, m)
  BY DEF IInv, LaneInv
<1> HIDE DEF k
<1>1. /\ k \in 0 .. Len(q)
      /\ k > 0 => Cardinality(act) + k <= m
      /\ S \subseteq Task
      /\ \A t \in S : LaneOf[t] = l /\ st[t] = "queued"
      /\ act \subseteq Task
      /\ Cardinality(act) \in Nat
  <2>1. Starts(l, q, act, m, st, k)
    BY <1>0, StartedFacts
  <2>2. QED
    BY <2>1 DEF Starts
<1>2. /\ max' = [max EXCEPT ![l] = m]
      /\ status' = [t \in Task |-> IF t \in S THEN "running" ELSE st[t]]
      /\ born' = [t \in Task |-> IF t \in S THEN gen ELSE born[t]]
  BY <1>0 DEF Pump
<1>3. TypeOK /\ LimitInv /\ BornInv /\ OneTurnPerSession /\ LaneOf \in [Task -> Lane]
  BY LaneAssumption DEF IInv, LaneInv, SessionInv
<1>4. LimitInv'
  BY <1>2, <1>3 DEF TypeOK, LimitInv, Ready
<1>5. BornInv'
  BY <1>2, <1>3 DEF TypeOK, BornInv
<1>6. l \notin Adjustable /\ S # {} => act = {} /\ \A t, u \in S : t = u
  <2> SUFFICES ASSUME l \notin Adjustable, S # {}
               PROVE  act = {} /\ \A t, u \in S : t = u
    OBVIOUS
  <2>1. Len(q) \in Nat /\ m = 1
    BY DEF Ready, QueueOf
  <2>2. k > 0
    BY <1>1, <2>1 DEF Front
  <2>3. k = 1 /\ Cardinality(act) = 0
    BY <1>1, <2>1, <2>2
  <2>4. act = {}
    BY <1>1, <2>3, TaskAssumption, FS_Subset, FS_EmptySet
  <2>5. \A t \in S : t = q[1]
    BY <2>3 DEF Front
  <2>6. QED
    BY <2>4, <2>5
<1> HIDE DEF S
<1>7. OneTurnPerSession'
  <2> SUFFICES ASSUME NEW t \in Task, NEW u \in Task,
                      LaneOf[t] = LaneOf[u], LaneOf[t] \notin Adjustable,
                      status'[t] = "running", status'[u] = "running",
                      born'[t] = born'[u]
               PROVE  t = u
    BY DEF OneTurnPerSession
  <2>1. CASE t \notin S /\ u \notin S
    BY <1>2, <1>3, <2>1 DEF Ready, OneTurnPerSession
  <2>2. CASE t \in S /\ u \in S
    BY <1>1, <1>6, <2>2
  <2>3. CASE t \in S /\ u \notin S
    <3>1. u \in act
      BY <1>1, <1>2, <2>3 DEF Ready
    <3>2. QED
      BY <1>1, <1>6, <2>3, <3>1
  <2>4. CASE t \notin S /\ u \in S
    <3>1. t \in act
      BY <1>1, <1>2, <2>4 DEF Ready
    <3>2. QED
      BY <1>1, <1>6, <2>4, <3>1
  <2>5. QED
    BY <2>1, <2>2, <2>3, <2>4
<1>8. QED
  BY <1>4, <1>5, <1>7 DEF SessionInv

LEMMA PumpParents ==
  ASSUME IInv, NEW l \in Lane, NEW q, NEW act, NEW m, NEW st,
         Ready(l, q, act, m, st, gen), Pump(l, q, act, m, st),
         \A c \in Task : Parent[c] # NoTask /\ st[c] \in {"queued", "running"} =>
           st[Parent[c]] = "running"
  PROVE  ParentInv'
<1> DEFINE k == Taken(q, act, m)
           S == Front(q, k)
<1>1. \A t \in S : st[t] = "queued"
  <2>1. Starts(l, q, act, m, st, k)
    BY StartedFacts
  <2>2. QED
    BY <2>1 DEF Starts
<1>2. status' = [t \in Task |-> IF t \in S THEN "running" ELSE st[t]]
  BY DEF Pump
<1> HIDE DEF k, S
<1>3. QED
  BY <1>1, <1>2, ParentAssumption DEF ParentInv

LEMMA PumpWait ==
  ASSUME IInv, NEW l \in Lane, NEW q, NEW act, NEW m, NEW st,
         Ready(l, q, act, m, st, gen), Pump(l, q, act, m, st),
         UNCHANGED <<gen, loop, waiting, drained>>,
         \A t \in waiting : \/ st[t] \in {"settled", "cleared"}
                            \/ st[t] = "running" /\ born[t] = gen,
         loop = "closing" /\ drained =>
           \A t \in waiting : st[t] \in {"settled", "cleared"}
  PROVE  WaitInv'
<1> DEFINE k == Taken(q, act, m)
           S == Front(q, k)
<1>1. \A t \in S : st[t] = "queued"
  <2>1. Starts(l, q, act, m, st, k)
    BY StartedFacts
  <2>2. QED
    BY <2>1 DEF Starts
<1>2. /\ status' = [t \in Task |-> IF t \in S THEN "running" ELSE st[t]]
      /\ born' = [t \in Task |-> IF t \in S THEN gen ELSE born[t]]
  BY DEF Pump
<1>3. waiting \subseteq Task
  BY DEF IInv, LaneInv, TypeOK
<1> HIDE DEF k, S
<1>4. QED
  BY <1>1, <1>2, <1>3 DEF IInv, WaitInv, Settled

-----------------------------------------------------------------------------
(* The operations.                                                         *)

LEMMA EnqueueInv ==
  ASSUME IInv, NEW t \in Task, EnqueueCommandInLane(t)
  PROVE  IInv' /\ LimitKept
<1> DEFINE l == LaneOf[t]
           q == Append(queue[l], t)
           st == [status EXCEPT ![t] = "queued"]
<1>1. /\ status[t] = "new"
      /\ Parent[t] # NoTask => status[Parent[t]] = "running"
      /\ Pump(l, q, active[l], max[l], st)
      /\ UNCHANGED <<gen, loop, waiting, drained>>
  BY DEF EnqueueCommandInLane, loopVars
<1>2. l \in Lane /\ TypeOK /\ QueueOf(l, queue[l], status) /\ SlotsAreCurrent
  BY LaneAssumption DEF IInv, LaneInv, QueueInv
<1>3. QueueOf(l, q, st)
  <2>1. /\ queue[l] \in Seq(Task) /\ Distinct(queue[l])
        /\ \A i \in 1 .. Len(queue[l]) :
             LaneOf[queue[l][i]] = l /\ status[queue[l][i]] = "queued"
    BY <1>2 DEF QueueOf
  <2>2. /\ q \in Seq(Task) /\ Len(q) = Len(queue[l]) + 1 /\ q[Len(queue[l]) + 1] = t
        /\ \A i \in 1 .. Len(queue[l]) : q[i] = queue[l][i]
    BY <2>1
  <2>3. \A i \in 1 .. Len(queue[l]) : queue[l][i] # t
    BY <1>1, <2>1
  <2>4. Distinct(q)
    <3>1. SUFFICES ASSUME NEW i \in 1 .. Len(queue[l]) + 1,
                          NEW j \in 1 .. Len(queue[l]) + 1, q[i] = q[j]
                   PROVE  i = j
      BY <2>2 DEF Distinct
    <3>2. CASE i \in 1 .. Len(queue[l]) /\ j \in 1 .. Len(queue[l])
      BY <2>1, <2>2, <3>1, <3>2 DEF Distinct
    <3>3. CASE i = Len(queue[l]) + 1 \/ j = Len(queue[l]) + 1
      BY <2>1, <2>2, <2>3, <3>1, <3>3
    <3>4. QED
      BY <2>1, <3>2, <3>3
  <2>5. \A i \in 1 .. Len(q) : LaneOf[q[i]] = l /\ st[q[i]] = "queued"
    <3>1. \A i \in 1 .. Len(queue[l]) : LaneOf[q[i]] = l /\ st[q[i]] = "queued"
      BY <1>2, <2>1, <2>2, <2>3 DEF TypeOK
    <3>2. LaneOf[q[Len(queue[l]) + 1]] = l /\ st[q[Len(queue[l]) + 1]] = "queued"
      BY <1>2, <2>2 DEF TypeOK
    <3>3. QED
      BY <2>1, <2>2, <3>1, <3>2
  <2>6. QED
    BY <2>2, <2>4, <2>5 DEF QueueOf
<1> HIDE DEF q
<1>4. Ready(l, q, active[l], max[l], st, gen)
  <2>1. active[l] = {u \in Task : LaneOf[u] = l /\ st[u] = "running" /\ born[u] = gen}
    BY <1>1, <1>2 DEF SlotsAreCurrent, TypeOK
  <2>2. max[l] \in 1 .. MaxConcurrency /\ (l \notin Adjustable => max[l] = 1)
    BY <1>2 DEF TypeOK, IInv, SessionInv, LimitInv
  <2>3. st \in [Task -> Status]
    BY <1>2 DEF TypeOK, Status
  <2>4. QED
    BY <1>2, <1>3, <2>1, <2>2, <2>3 DEF Ready, TypeOK
<1>5. LaneInv'
  BY <1>1, <1>2, <1>4, PumpLane
<1>6. SessionInv'
  BY <1>1, <1>2, <1>4, PumpSession
<1>7. ParentInv'
  <2>1. \A c \in Task : Parent[c] # NoTask /\ st[c] \in {"queued", "running"} =>
          st[Parent[c]] = "running"
    BY <1>1, <1>2, ParentAssumption DEF IInv, ParentInv, TypeOK
  <2>2. QED
    BY <1>1, <1>2, <1>4, <2>1, PumpParents
<1>8. WaitInv'
  <2>1. /\ \A u \in waiting : \/ st[u] \in {"settled", "cleared"}
                              \/ st[u] = "running" /\ born[u] = gen
        /\ loop = "closing" /\ drained =>
             \A u \in waiting : st[u] \in {"settled", "cleared"}
    BY <1>1, <1>2 DEF IInv, WaitInv, Settled, TypeOK
  <2>2. QED
    BY <1>1, <1>2, <1>4, <2>1, PumpWait
<1>9. LimitKept
  BY <1>1, <1>2, <1>4, PumpLimit
<1>10. QED
  BY <1>5, <1>6, <1>7, <1>8, <1>9 DEF IInv

LEMMA CompleteInv ==
  ASSUME IInv, NEW t \in Task, CompleteTask(t)
  PROVE  IInv' /\ LimitKept
<1> DEFINE l == LaneOf[t]
           st == [status EXCEPT ![t] = "settled"]
<1>1. /\ status[t] = "running"
      /\ \A c \in Task : Parent[c] = t => status[c] \notin {"queued", "running"}
      /\ UNCHANGED <<gen, loop, waiting, drained>>
  BY DEF CompleteTask, loopVars
<1>2. l \in Lane /\ TypeOK /\ QueueOf(l, queue[l], status) /\ SlotsAreCurrent
  BY LaneAssumption DEF IInv, LaneInv, QueueInv
<1>3. \A o \in Lane : QueueOf(o, queue[o], st)
  <2> TAKE o \in Lane
  <2>1. QueueOf(o, queue[o], status)
    BY DEF IInv, LaneInv, QueueInv
  <2>2. QED
    BY <1>1, <1>2, <2>1 DEF QueueOf, TypeOK
<1>4. st \in [Task -> Status]
  BY <1>2 DEF TypeOK, Status
<1>5. \A c \in Task : Parent[c] # NoTask /\ st[c] \in {"queued", "running"} =>
        st[Parent[c]] = "running"
  BY <1>1, <1>2, ParentAssumption DEF IInv, ParentInv, TypeOK
<1>6. /\ \A u \in waiting : \/ st[u] \in {"settled", "cleared"}
                            \/ st[u] = "running" /\ born[u] = gen
      /\ loop = "closing" /\ drained =>
           \A u \in waiting : st[u] \in {"settled", "cleared"}
  BY <1>1, <1>2 DEF IInv, WaitInv, Settled, TypeOK
<1>7. CASE Current(t) /\ Pump(l, queue[l], active[l] \ {t}, max[l], st)
  <2>1. Ready(l, queue[l], active[l] \ {t}, max[l], st, gen)
    <3>1. active[l] \ {t} = {u \in Task : LaneOf[u] = l /\ st[u] = "running" /\ born[u] = gen}
      BY <1>1, <1>2 DEF SlotsAreCurrent, TypeOK
    <3>2. max[l] \in 1 .. MaxConcurrency /\ (l \notin Adjustable => max[l] = 1)
      BY <1>2 DEF TypeOK, IInv, SessionInv, LimitInv
    <3>3. QED
      BY <1>1, <1>2, <1>3, <1>4, <3>1, <3>2 DEF Ready, TypeOK
  <2>2. LaneInv'
    BY <1>1, <1>2, <1>7, <2>1, PumpLane
  <2>3. SessionInv'
    BY <1>1, <1>2, <1>7, <2>1, PumpSession
  <2>4. ParentInv'
    BY <1>2, <1>5, <1>7, <2>1, PumpParents
  <2>5. WaitInv'
    BY <1>1, <1>2, <1>6, <1>7, <2>1, PumpWait
  <2>6. LimitKept
    BY <1>2, <1>7, <2>1, PumpLimit
  <2>7. QED
    BY <2>2, <2>3, <2>4, <2>5, <2>6 DEF IInv
<1>8. CASE ~ Current(t) /\ status' = st /\ UNCHANGED <<queue, active, max, born>>
  <2>1. TypeOK'
    BY <1>1, <1>2, <1>4, <1>8 DEF TypeOK
  <2>2. QueueInv'
    BY <1>3, <1>8 DEF QueueInv
  <2>3. SlotsAreCurrent'
    BY <1>1, <1>2, <1>8 DEF SlotsAreCurrent, TypeOK, Current
  <2>4. NoIdleSlot'
    BY <1>8 DEF IInv, LaneInv, NoIdleSlot
  <2>5. SessionInv'
    BY <1>1, <1>2, <1>8 DEF IInv, SessionInv, LimitInv, BornInv, OneTurnPerSession, TypeOK
  <2>6. ParentInv'
    BY <1>5, <1>8 DEF ParentInv
  <2>7. WaitInv'
    BY <1>1, <1>6, <1>8 DEF IInv, WaitInv, Settled
  <2>8. LimitKept
    BY <1>8 DEF LimitKept
  <2>9. QED
    BY <2>1, <2>2, <2>3, <2>4, <2>5, <2>6, <2>7, <2>8 DEF IInv, LaneInv
<1>9. QED
  BY <1>7, <1>8 DEF CompleteTask

LEMMA ClearInv ==
  ASSUME IInv, NEW l \in Lane, ClearCommandLane(l)
  PROVE  IInv'
<1> DEFINE S == Front(queue[l], Len(queue[l]))
<1>1. /\ queue' = [queue EXCEPT ![l] = <<>>]
      /\ status' = [t \in Task |-> IF t \in S THEN "cleared" ELSE status[t]]
      /\ UNCHANGED <<active, max, born, gen, loop, waiting, drained>>
  BY DEF ClearCommandLane, loopVars
<1>2. \A t \in S : t \in Task /\ LaneOf[t] = l /\ status[t] = "queued"
  <2>1. QueueOf(l, queue[l], status)
    BY DEF IInv, LaneInv, QueueInv
  <2>2. QED
    BY <2>1 DEF QueueOf, Front
<1>3. TypeOK
  BY DEF IInv, LaneInv
<1> HIDE DEF S
<1>4. TypeOK'
  <2>1. queue' \in [Lane -> Seq(Task)] /\ status' \in [Task -> Status]
    BY <1>1, <1>3 DEF TypeOK, Status
  <2>2. QED
    BY <1>1, <1>3, <2>1 DEF TypeOK
<1>5. QueueInv'
  <2> SUFFICES ASSUME NEW o \in Lane
               PROVE  QueueOf(o, queue'[o], status')
    BY DEF QueueInv
  <2>1. CASE o = l
    BY <1>1, <1>3, <2>1 DEF TypeOK, QueueOf, Distinct
  <2>2. CASE o # l
    <3>1. QueueOf(o, queue[o], status) /\ queue'[o] = queue[o]
      BY <1>1, <1>3, <2>2 DEF IInv, LaneInv, QueueInv, TypeOK
    <3>2. \A t \in Task : LaneOf[t] = o => status'[t] = status[t]
      BY <1>1, <1>2, <2>2
    <3>3. QED
      BY <3>1, <3>2 DEF QueueOf
  <2>3. QED
    BY <2>1, <2>2
<1>6. \A t \in Task : status'[t] = "running" <=> status[t] = "running"
  BY <1>1, <1>2
<1>7. SlotsAreCurrent'
  BY <1>1, <1>6 DEF IInv, LaneInv, SlotsAreCurrent
<1>8. NoIdleSlot'
  BY <1>1, <1>3 DEF IInv, LaneInv, NoIdleSlot, TypeOK
<1>9. SessionInv'
  BY <1>1, <1>6 DEF IInv, SessionInv, LimitInv, BornInv, OneTurnPerSession
<1>10. ParentInv'
  BY <1>1, <1>2, ParentAssumption DEF IInv, ParentInv
<1>11. WaitInv'
  BY <1>1, <1>2, <1>3 DEF IInv, WaitInv, Settled, TypeOK
<1>12. QED
  BY <1>4, <1>5, <1>7, <1>8, <1>9, <1>10, <1>11 DEF IInv, LaneInv

LEMMA SetConcurrencyInv ==
  ASSUME IInv, NEW l \in Adjustable, NEW n \in 0 .. MaxConcurrency,
         SetCommandLaneConcurrency(l, n)
  PROVE  IInv' /\ LimitKept
<1> DEFINE m == AtLeastOne(n)
<1>1. /\ Pump(l, queue[l], active[l], m, status)
      /\ UNCHANGED <<gen, loop, waiting, drained>>
  BY DEF SetCommandLaneConcurrency, loopVars
<1>2. l \in Lane /\ TypeOK /\ SlotsAreCurrent /\ QueueOf(l, queue[l], status)
  BY LaneAssumption DEF IInv, LaneInv, QueueInv
<1>3. Ready(l, queue[l], active[l], m, status, gen)
  <2>1. m \in 1 .. MaxConcurrency
    BY BoundAssumption DEF AtLeastOne
  <2>2. QED
    BY <1>2, <2>1 DEF Ready, SlotsAreCurrent, TypeOK
<1> HIDE DEF m
<1>4. LaneInv'
  BY <1>1, <1>2, <1>3, PumpLane
<1>5. SessionInv'
  BY <1>1, <1>2, <1>3, PumpSession
<1>6. ParentInv'
  <2>1. \A c \in Task : Parent[c] # NoTask /\ status[c] \in {"queued", "running"} =>
          status[Parent[c]] = "running"
    BY DEF IInv, ParentInv
  <2>2. QED
    BY <1>1, <1>2, <1>3, <2>1, PumpParents
<1>7. WaitInv'
  <2>1. /\ \A u \in waiting : \/ status[u] \in {"settled", "cleared"}
                              \/ status[u] = "running" /\ born[u] = gen
        /\ loop = "closing" /\ drained =>
             \A u \in waiting : status[u] \in {"settled", "cleared"}
    BY DEF IInv, WaitInv, Settled
  <2>2. QED
    BY <1>1, <1>2, <1>3, <2>1, PumpWait
<1>8. LimitKept
  BY <1>1, <1>2, <1>3, PumpLimit
<1>9. QED
  BY <1>4, <1>5, <1>6, <1>7, <1>8 DEF IInv

(* Steps of the restart loop that leave the lanes alone.                   *)
LEMMA LoopInv ==
  ASSUME IInv, UNCHANGED <<laneVars, gen>>, loop' \in Loop, drained' \in BOOLEAN,
         waiting' \subseteq Task, WaitInv'
  PROVE  IInv'
<1>1. UNCHANGED <<queue, active, max, status, born, gen>>
  BY DEF laneVars
<1>2. LaneInv'
  BY <1>1 DEF IInv, LaneInv, TypeOK, QueueInv, QueueOf, SlotsAreCurrent, NoIdleSlot
<1>3. SessionInv' /\ ParentInv'
  BY <1>1 DEF IInv, SessionInv, LimitInv, BornInv, OneTurnPerSession, ParentInv
<1>4. QED
  BY <1>2, <1>3 DEF IInv

LEMMA RequestInv == IInv /\ RequestRestart => IInv'
<1> SUFFICES ASSUME IInv, RequestRestart
             PROVE  IInv'
  OBVIOUS
<1>1. \A t \in Active : t \in Task /\ status[t] = "running" /\ born[t] = gen
  BY DEF Active, IInv, LaneInv, SlotsAreCurrent
<1>2. /\ waiting' = Active /\ drained' = (Active = {})
      /\ loop' = IF Active = {} THEN "closing" ELSE "draining"
      /\ gen < MaxRestarts /\ UNCHANGED <<laneVars, gen>>
  BY DEF RequestRestart
<1>3. WaitInv'
  BY <1>1, <1>2 DEF WaitInv, laneVars
<1>4. QED
  BY <1>1, <1>2, <1>3, LoopInv DEF Loop

LEMMA DrainedInv == IInv /\ Drained => IInv'
<1> SUFFICES ASSUME IInv, Drained
             PROVE  IInv'
  OBVIOUS
<1>1. /\ loop = "draining" /\ waiting \cap Active = {}
      /\ loop' = "closing" /\ drained' = TRUE
      /\ UNCHANGED <<laneVars, gen, waiting>>
  BY DEF Drained, AllGone
<1>2. \A t \in waiting : Settled(t)
  <2> TAKE t \in waiting
  <2>1. t \in Task /\ t \notin Active
    BY <1>1 DEF IInv, LaneInv, TypeOK
  <2>2. LaneOf[t] \in Lane
    BY <2>1, LaneAssumption
  <2>3. ~ (status[t] = "running" /\ born[t] = gen)
    BY <2>1, <2>2 DEF Active, IInv, LaneInv, SlotsAreCurrent
  <2>4. QED
    BY <2>3 DEF IInv, WaitInv
<1>3. WaitInv'
  BY <1>1, <1>2 DEF IInv, WaitInv, Settled, laneVars
<1>4. QED
  BY <1>1, <1>3, LoopInv DEF Loop, IInv, LaneInv, TypeOK

LEMMA TimeoutInv == IInv /\ DrainTimeout => IInv'
<1> SUFFICES ASSUME IInv, DrainTimeout
             PROVE  IInv'
  OBVIOUS
<1>1. /\ loop = "draining" /\ loop' = "closing"
      /\ UNCHANGED <<laneVars, gen, waiting, drained>>
  BY DEF DrainTimeout
<1>2. drained = FALSE
  BY <1>1 DEF IInv, WaitInv
<1>3. WaitInv'
  BY <1>1, <1>2 DEF IInv, WaitInv, Settled, laneVars
<1>4. QED
  BY <1>1, <1>3, LoopInv DEF Loop, IInv, LaneInv, TypeOK

(* The reset pumps every lane in a new generation, as if nothing ran.      *)
LEMMA ResetInv == IInv /\ ResetAllLanes => IInv' /\ LimitKept
<1> SUFFICES ASSUME IInv, ResetAllLanes
             PROVE  IInv' /\ LimitKept
  OBVIOUS
<1> DEFINE k(l) == Taken(queue[l], {}, max[l])
           S(l) == Front(queue[l], k(l))
<1>1. TypeOK /\ LaneOf \in [Task -> Lane] /\ gen \in Nat /\ gen + 1 \in 0 .. MaxRestarts
  BY LaneAssumption, BoundAssumption DEF IInv, LaneInv, TypeOK, WaitInv, ResetAllLanes
<1>2. ASSUME NEW l \in Lane
      PROVE  Starts(l, queue[l], {}, max[l], status, k(l))
  <2>1. {} = {t \in Task : LaneOf[t] = l /\ status[t] = "running" /\ born[t] = gen + 1}
    BY <1>1 DEF IInv, SessionInv, BornInv, TypeOK
  <2>2. Ready(l, queue[l], {}, max[l], status, gen + 1)
    BY <1>1, <2>1 DEF IInv, LaneInv, SessionInv, QueueInv, LimitInv, TypeOK, Ready
  <2>3. QED
    BY <2>2, StartedFacts
<1> HIDE DEF k
<1>3. /\ queue' = [l \in Lane |-> Rest(queue[l], k(l))]
      /\ active' = [l \in Lane |-> S(l)]
      /\ status' = [t \in Task |-> IF t \in UNION {S(l) : l \in Lane}
                                    THEN "running" ELSE status[t]]
      /\ born' = [t \in Task |-> IF t \in UNION {S(l) : l \in Lane}
                                  THEN gen + 1 ELSE born[t]]
      /\ gen' = gen + 1 /\ loop' = "up" /\ waiting' = {} /\ drained' = FALSE
      /\ max' = max
  BY DEF ResetAllLanes, Restarted, Kept, NextGeneration, k
<1>4. ASSUME NEW l \in Lane
      PROVE  /\ S(l) \subseteq Task
             /\ \A t \in S(l) : LaneOf[t] = l /\ status[t] = "queued"
             /\ k(l) \in 0 .. Len(queue[l])
             /\ k(l) < Len(queue[l]) => Cardinality(S(l)) >= max[l]
             /\ k(l) > 0 => k(l) <= max[l]
  <2>1. Cardinality({}) = 0 /\ {} \cup S(l) = S(l)
    BY FS_EmptySet
  <2>2. QED
    BY <1>2, <2>1 DEF Starts
<1> HIDE DEF S
<1>5. \A t \in Task : t \in UNION {S(l) : l \in Lane} <=> t \in S(LaneOf[t])
  BY <1>1, <1>4
<1>6. ASSUME NEW t \in Task
      PROVE  /\ status'[t] = IF t \in S(LaneOf[t]) THEN "running" ELSE status[t]
             /\ born'[t] = IF t \in S(LaneOf[t]) THEN gen + 1 ELSE born[t]
  BY <1>3, <1>5
<1>7. ASSUME NEW l \in Lane
      PROVE  QueueOf(l, queue'[l], status')
  <2>1. QueueOf(l, queue[l], status) /\ queue'[l] = Rest(queue[l], k(l))
    BY <1>3 DEF IInv, LaneInv, QueueInv
  <2> DEFINE st == [t \in Task |-> IF t \in Front(queue[l], k(l)) THEN "running" ELSE status[t]]
  <2>2. QueueOf(l, Rest(queue[l], k(l)), st)
    BY <1>4, <2>1, RestIsQueue
  <2>3. \A t \in Task : LaneOf[t] = l => status'[t] = st[t]
    BY <1>6 DEF S
  <2> HIDE DEF st
  <2>4. QED
    BY <2>1, <2>2, <2>3, QueueOfLane
<1>8. TypeOK'
  <2>1. queue' \in [Lane -> Seq(Task)] /\ active' \in [Lane -> SUBSET Task]
    BY <1>3, <1>4, <1>7 DEF QueueOf
  <2>2. status' \in [Task -> Status] /\ born' \in [Task -> 0 .. MaxRestarts]
    BY <1>1, <1>3 DEF TypeOK, Status
  <2>3. QED
    BY <1>1, <1>3, <2>1, <2>2 DEF TypeOK, Loop
<1>9. QueueInv'
  BY <1>7 DEF QueueInv
<1>10. SlotsAreCurrent'
  <2> SUFFICES ASSUME NEW l \in Lane
               PROVE  active'[l] = {t \in Task : LaneOf[t] = l /\ status'[t] = "running" /\ born'[t] = gen'}
    BY DEF SlotsAreCurrent
  <2>1. \A t \in Task : born[t] # gen + 1
    BY <1>1 DEF IInv, SessionInv, BornInv, TypeOK
  <2>2. \A t \in Task : t \in S(l) <=> (LaneOf[t] = l /\ status'[t] = "running" /\ born'[t] = gen + 1)
    BY <1>4, <1>6, <2>1
  <2>3. QED
    BY <1>3, <1>4, <2>2
<1>11. NoIdleSlot'
  <2> SUFFICES ASSUME NEW l \in Lane, queue'[l] # <<>>
               PROVE  Cardinality(active'[l]) >= max'[l]
    BY DEF NoIdleSlot
  <2>1. queue'[l] = Rest(queue[l], k(l)) /\ active'[l] = S(l) /\ queue[l] \in Seq(Task)
    BY <1>1, <1>3 DEF TypeOK
  <2>2. k(l) < Len(queue[l])
    <3>1. Rest(queue[l], k(l)) \in Seq(Task) /\ Len(Rest(queue[l], k(l))) = Len(queue[l]) - k(l)
      BY <1>4, <2>1, RestType
    <3>2. QED
      BY <1>4, <2>1, <3>1
  <2>3. QED
    BY <1>3, <1>4, <2>1, <2>2
<1>12. LimitInv' /\ BornInv'
  BY <1>1, <1>3, <1>6 DEF IInv, SessionInv, LimitInv, BornInv, TypeOK
<1>13. OneTurnPerSession'
  <2> SUFFICES ASSUME NEW t \in Task, NEW u \in Task,
                      LaneOf[t] = LaneOf[u], LaneOf[t] \notin Adjustable,
                      status'[t] = "running", status'[u] = "running",
                      born'[t] = born'[u]
               PROVE  t = u
    BY DEF OneTurnPerSession
  <2> DEFINE l == LaneOf[t]
  <2>1. l \in Lane /\ born[t] # gen + 1 /\ born[u] # gen + 1
    BY <1>1 DEF IInv, SessionInv, BornInv, TypeOK
  <2>2. CASE t \in S(l) /\ u \in S(l)
    <3>1. max[l] = 1 /\ Len(queue[l]) \in Nat
      BY <1>1, <2>1 DEF IInv, SessionInv, LimitInv, TypeOK
    <3>2. k(l) = 0 \/ k(l) = 1
      BY <1>4, <2>1, <3>1
    <3>3. \A v \in S(l) : v = queue[l][1]
      BY <3>2 DEF S, Front
    <3>4. QED
      BY <2>2, <3>3
  <2>3. CASE t \notin S(l) /\ u \notin S(l)
    BY <1>6, <2>3 DEF IInv, SessionInv, OneTurnPerSession
  <2>4. CASE (t \in S(l)) # (u \in S(l))
    BY <1>6, <2>1, <2>4
  <2>5. QED
    BY <2>2, <2>3, <2>4
<1>14. ParentInv'
  BY <1>4, <1>6, LaneAssumption, ParentAssumption DEF IInv, ParentInv
<1>15. WaitInv'
  BY <1>3 DEF WaitInv
<1>16. LimitKept
  <2>1. ASSUME NEW l \in Lane
        PROVE  Cardinality(S(l)) <= max[l]
    <3>1. Cardinality(S(l)) = k(l) /\ k(l) \in Nat /\ max[l] \in Nat
      <4>1. queue[l] \in Seq(Task) /\ Distinct(queue[l])
        BY DEF IInv, LaneInv, QueueInv, QueueOf
      <4>2. max[l] \in Nat /\ Len(queue[l]) \in Nat
        BY <1>1, <4>1, BoundAssumption DEF TypeOK
      <4>3. QED
        BY <1>4, <4>1, <4>2, FrontCardinality DEF S
    <3>2. QED
      BY <1>1, <1>4, <3>1 DEF TypeOK
  <2>2. QED
    BY <1>3, <2>1 DEF LimitKept
<1>17. QED
  BY <1>8, <1>9, <1>10, <1>11, <1>12, <1>13, <1>14, <1>15, <1>16 DEF IInv, LaneInv, SessionInv

LEMMA InitInv == Init => IInv
<1> SUFFICES ASSUME Init
             PROVE  IInv
  OBVIOUS
<1>1. TypeOK
  <2>1. 1 \in 1 .. MaxConcurrency /\ 0 \in 0 .. MaxRestarts
    BY BoundAssumption
  <2>2. <<>> \in Seq(Task)
    OBVIOUS
  <2>3. QED
    BY <2>1, <2>2 DEF Init, TypeOK, Status, Loop
<1>2. QueueInv /\ SlotsAreCurrent /\ NoIdleSlot
  BY DEF Init, QueueInv, QueueOf, Distinct, SlotsAreCurrent, NoIdleSlot
<1>3. SessionInv /\ ParentInv /\ WaitInv
  BY ParentAssumption DEF Init, SessionInv, LimitInv, BornInv, OneTurnPerSession, ParentInv, WaitInv
<1>4. QED
  BY <1>1, <1>2, <1>3 DEF IInv, LaneInv

LEMMA NextInv == IInv /\ [Next]_vars => IInv' /\ LimitKept
<1> SUFFICES ASSUME IInv, [Next]_vars
             PROVE  IInv' /\ LimitKept
  OBVIOUS
<1>1. CASE \E t \in Task : EnqueueCommandInLane(t) \/ CompleteTask(t)
  BY <1>1, EnqueueInv, CompleteInv
<1>2. CASE \E l \in Lane \ Adjustable : ClearCommandLane(l)
  <2>1. active' = active
    BY <1>2 DEF ClearCommandLane
  <2>2. QED
    BY <1>2, <2>1, ClearInv DEF LimitKept
<1>3. CASE \E l \in Adjustable, n \in 0 .. MaxConcurrency : SetCommandLaneConcurrency(l, n)
  BY <1>3, SetConcurrencyInv
<1>4. CASE RequestRestart \/ Drained \/ DrainTimeout \/ ResetAllLanes
  <2>1. CASE RequestRestart \/ Drained \/ DrainTimeout
    <3>1. active' = active
      BY <2>1 DEF RequestRestart, Drained, DrainTimeout, laneVars
    <3>2. QED
      BY <2>1, <3>1, RequestInv, DrainedInv, TimeoutInv DEF LimitKept
  <2>2. QED
    BY <1>4, <2>1, ResetInv
<1>5. CASE UNCHANGED vars
  <2>1. UNCHANGED <<laneVars, gen, loop, waiting, drained>>
    BY <1>5 DEF vars, loopVars
  <2>2. WaitInv'
    BY <2>1 DEF IInv, WaitInv, Settled, laneVars
  <2>3. LimitKept
    BY <2>1 DEF LimitKept, laneVars
  <2>4. QED
    BY <2>1, <2>2, <2>3, LoopInv DEF IInv, LaneInv, TypeOK
<1>6. QED
  BY <1>1, <1>2, <1>3, <1>4, <1>5 DEF Next

LEMMA Invariant == Spec => []IInv
BY InitInv, NextInv, PTL DEF Spec

-----------------------------------------------------------------------------
(* Types are kept, whatever is enqueued, cleared, configured or restarted. *)
THEOREM TypeCorrect == Spec => []TypeOK
<1>1. IInv => TypeOK
  BY DEF IInv, LaneInv
<1>2. QED
  BY <1>1, Invariant, PTL

(* No operation of the queue forgets to pump: a lane with a free place has *)
(* nobody waiting.                                                         *)
THEOREM NoIdleSlotCorrect == Spec => []NoIdleSlot
<1>1. IInv => NoIdleSlot
  BY DEF IInv, LaneInv
<1>2. QED
  BY <1>1, Invariant, PTL

(* completeTask's generation check and resetAllLanes keep the active ids   *)
(* those of the running commands of the current generation.                *)
THEOREM SlotsAreCurrentCorrect == Spec => []SlotsAreCurrent
<1>1. IInv => SlotsAreCurrent
  BY DEF IInv, LaneInv
<1>2. QED
  BY <1>1, Invariant, PTL

(* The turns of a session are serialised within each generation.           *)
THEOREM OneTurnPerSessionCorrect == Spec => []OneTurnPerSession
<1>1. IInv => OneTurnPerSession
  BY DEF IInv, SessionInv
<1>2. QED
  BY <1>1, Invariant, PTL

(* waitForActiveTasks says "drained" only when all it waited for, and all  *)
(* that awaited in turn, has settled.                                      *)
THEOREM DrainedMeansSettledCorrect == Spec => []DrainedMeansSettled
<1>1. IInv => DrainedMeansSettled
  <2> SUFFICES ASSUME IInv, loop = "closing", drained, NEW t \in Task,
                      t \in waiting \/ Parent[t] \in waiting
               PROVE  status[t] \notin {"queued", "running"}
    BY DEF DrainedMeansSettled
  <2>1. \A u \in waiting : u \in Task /\ status[u] \in {"settled", "cleared"}
    BY DEF IInv, LaneInv, TypeOK, WaitInv, Settled
  <2>2. CASE t \in waiting
    BY <2>1, <2>2
  <2>3. CASE Parent[t] \in waiting
    <3>1. Parent[t] # NoTask /\ status[Parent[t]] # "running"
      BY <2>1, <2>3, TaskAssumption
    <3>2. QED
      BY <3>1 DEF IInv, ParentInv
  <2>4. QED
    BY <2>2, <2>3
<1>2. QED
  BY <1>1, Invariant, PTL

(* No step starts a command beyond the limit its lane has then.            *)
THEOREM WithinLimitCorrect == Spec => WithinLimit
<1>1. IInv /\ [Next]_vars =>
        [\A l \in Lane :
           ~ active'[l] \subseteq active[l] => Cardinality(active'[l]) <= max'[l]]_vars
  BY NextInv DEF LimitKept
<1>2. QED
  BY <1>1, Invariant, PTL DEF Spec, WithinLimit
=============================================================================
