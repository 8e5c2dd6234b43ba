---------------------------- MODULE OfflineQueue ----------------------------
(***************************************************************************)
(* The offline queue of one device, packages/relay/src/offline-queue.ts: a *)
(* Durable Object with messages under a key of time and random bytes, and  *)
(* one alarm that deletes what has grown too old.                          *)
(*                                                                         *)
(* Every handler waits only for its own storage and is therefore one step. *)
(* The clock never goes back, and the platform runs a due alarm at most    *)
(* Late ticks after its time.                                              *)
(***************************************************************************)
EXTENDS Naturals, FiniteSets

CONSTANTS
  MaxQueueSize,    \* MAX_QUEUE_SIZE
  MaxAge,          \* MAX_AGE_MS
  CleanupInterval, \* CLEANUP_INTERVAL_MS
  Late,            \* how late an alarm may run
  Key,             \* the random part of a key, a natural number
  LastTick,        \* bound on the clock
  LastMessage,     \* bound on the messages accepted
  NoAlarm          \* absence of an alarm

ASSUME LimitsAssumption ==
  /\ MaxQueueSize \in Nat \ {0}
  /\ MaxAge \in Nat
  /\ CleanupInterval \in Nat \ {0}
  /\ Late \in Nat
ASSUME KeyAssumption == Key \subseteq Nat
ASSUME BoundsAssumption == LastTick \in Nat /\ LastMessage \in Nat
ASSUME NoAlarmAssumption == NoAlarm \notin Nat

VARIABLES
  now,    \* Date.now()
  stored, \* the messages, by the time and the random part of their keys
  count,  \* messages accepted so far
  alarm   \* time of the alarm, or NoAlarm

vars == <<now, stored, count, alarm>>

Entry == [at: Nat, key: Nat]

Init ==
  /\ now = 0
  /\ stored = {}
  /\ count = 0
  /\ alarm = NoAlarm

AlarmPostponed == now + CleanupInterval
AlarmEnsured == IF alarm = NoAlarm THEN now + CleanupInterval ELSE alarm

HasRoom == Cardinality(stored) < MaxQueueSize

(* enqueue.  The 64 random bits never repeat within one tick.              *)
Enqueue ==
  /\ count < LastMessage
  /\ HasRoom
  /\ \E k \in Key :
       /\ \A e \in stored : ~ (e.at = now /\ e.key = k)
       /\ stored' = stored \cup {[at |-> now, key |-> k]}
  /\ count' = count + 1
  /\ alarm' = AlarmEnsured
  /\ UNCHANGED now

(* drain lists all messages and deletes them.                              *)
Drain ==
  /\ stored # {}
  /\ stored' = {}
  /\ UNCHANGED <<now, count, alarm>>

(* cleanup, also reachable as /cleanup of the object.                      *)
Outdated(e) == e.at + MaxAge < now
Cleaned == {e \in stored : ~ Outdated(e)}

Cleanup ==
  /\ stored' = Cleaned
  /\ UNCHANGED <<now, count, alarm>>

(* alarm: the alarm is gone when it runs, and set again while there is     *)
(* something left to clean.                                                *)
AlarmNotRenewed == NoAlarm
AlarmRenewed == IF Cleaned = {} THEN NoAlarm ELSE now + CleanupInterval

Alarm ==
  /\ alarm # NoAlarm
  /\ alarm <= now
  /\ stored' = Cleaned
  /\ alarm' = AlarmRenewed
  /\ UNCHANGED <<now, count>>

Tick ==
  /\ now < LastTick
  /\ alarm # NoAlarm => now < alarm + Late
  /\ now' = now + 1
  /\ UNCHANGED <<stored, count, alarm>>

Next == Enqueue \/ Drain \/ Cleanup \/ Alarm \/ Tick

Spec == Init /\ [][Next]_vars
-----------------------------------------------------------------------------
(* Type invariant: the keys are times that have passed, the queue keeps    *)
(* its limit and no alarm is set further ahead than one interval.          *)
TypeOK ==
  /\ now \in Nat
  /\ stored \subseteq Entry
  /\ IsFiniteSet(stored) /\ Cardinality(stored) <= MaxQueueSize
  /\ count \in Nat
  /\ alarm \in Nat \cup {NoAlarm}
  /\ \A e \in stored : e.at <= now
  /\ alarm # NoAlarm => alarm <= now + CleanupInterval

(* A queue that stores something always has an alarm ahead of it: messages *)
(* of a device that never connects again do not stay forever, whatever     *)
(* drains, cleanups and late alarms came between.                          *)
NeverForgotten == stored # {} => alarm # NoAlarm

(* No message is stored longer than the maximal age and one interval (and  *)
(* the delay of one alarm): a steady stream of messages does not postpone  *)
(* the cleanup of the old ones.                                            *)
NothingStale ==
  \A e \in stored : now <= e.at + MaxAge + CleanupInterval + Late
=============================================================================
