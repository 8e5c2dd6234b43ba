-------------------------- MODULE PhoneMail_proofs --------------------------
(***************************************************************************)
(* The safety of the two ends of what waits for a phone: the offline queue *)
(* of the relay, for every limit, age, interval and delay, and the phone's *)
(* relay client, for any messages, number of losses and limit of the delay.*)
(***************************************************************************)
EXTENDS OfflineQueue, PhoneLink, FiniteSetTheorems, TLAPS

-----------------------------------------------------------------------------
(* The queue.  The age of a stored message is bounded through the alarm:   *)
(* the alarm is never further ahead than the oldest message allows, and    *)
(* the clock never runs past the alarm by more than its delay.             *)

USE LimitsAssumption, NoAlarmAssumption

AlarmInTime ==
  alarm # NoAlarm =>
    /\ now <= alarm + Late
    /\ \A e \in stored : alarm <= e.at + MaxAge + CleanupInterval

QueueInv == TypeOK /\ NeverForgotten /\ AlarmInTime

(* Cleaning keeps a part of what is stored.                                *)
LEMMA CleanedType ==
  ASSUME TypeOK
  PROVE  /\ Cleaned \subseteq stored
         /\ IsFiniteSet(Cleaned)
         /\ Cardinality(Cleaned) <= MaxQueueSize
<1>1. Cleaned \subseteq stored
  BY DEF Cleaned
<1>2. IsFiniteSet(Cleaned) /\ Cardinality(Cleaned) <= Cardinality(stored)
  BY <1>1, FS_Subset DEF TypeOK
<1>3. Cardinality(stored) \in Nat /\ Cardinality(Cleaned) \in Nat
  BY <1>2, FS_CardinalityType DEF TypeOK
<1>4. QED
  BY <1>1, <1>2, <1>3 DEF TypeOK

LEMMA QueueInit == Init => QueueInv
<1> SUFFICES ASSUME Init
             PROVE  QueueInv
  OBVIOUS
<1>1. IsFiniteSet(stored) /\ Cardinality(stored) = 0
  BY FS_EmptySet DEF Init
<1>2. QED
  BY <1>1 DEF Init, QueueInv, TypeOK, NeverForgotten, AlarmInTime

LEMMA QueueNext == QueueInv /\ [Next]_vars => QueueInv'
<1> SUFFICES ASSUME QueueInv, [Next]_vars
             PROVE  QueueInv'
  OBVIOUS
<1> USE DEF QueueInv, NeverForgotten, AlarmInTime
<1>1. CASE Enqueue
  <2>1. PICK k \in Key : stored' = stored \cup {[at |-> now, key |-> k]}
    BY <1>1 DEF Enqueue
  <2> DEFINE e == [at |-> now, key |-> k]
  <2>2. e \in Entry
    BY KeyAssumption DEF TypeOK, Entry
  <2>3. IsFiniteSet(stored') /\ Cardinality(stored') <= MaxQueueSize
    <3>1. /\ IsFiniteSet(stored')
          /\ Cardinality(stored') = Cardinality(stored)
               \/ Cardinality(stored') = Cardinality(stored) + 1
      BY <2>1, FS_AddElement DEF TypeOK
    <3>2. Cardinality(stored) \in Nat /\ Cardinality(stored) < MaxQueueSize
      BY <1>1, FS_CardinalityType DEF TypeOK, Enqueue, HasRoom
    <3>3. QED
      BY <3>1, <3>2
  <2>4. /\ alarm' \in Nat /\ alarm' <= now + CleanupInterval
        /\ now <= alarm' + Late
        /\ alarm = NoAlarm => stored = {}
        /\ alarm # NoAlarm => alarm' = alarm
    BY <1>1 DEF Enqueue, AlarmEnsured, TypeOK
  <2>5. TypeOK'
    BY <1>1, <2>1, <2>2, <2>3, <2>4 DEF Enqueue, TypeOK, Entry
  <2>6. AlarmInTime'
    <3>1. SUFFICES ASSUME NEW f \in stored'
                   PROVE  alarm' <= f.at + MaxAge + CleanupInterval
      BY <1>1, <2>4 DEF Enqueue
    <3>2. CASE f = e
      BY <2>4, <3>2 DEF TypeOK
    <3>3. CASE f # e
      BY <2>1, <2>4, <3>3
    <3>4. QED
      BY <3>2, <3>3
  <2>7. QED
    BY <2>4, <2>5, <2>6
<1>2. CASE Drain
  <2>1. IsFiniteSet({}) /\ Cardinality({}) = 0
    BY FS_EmptySet
  <2>2. QED
    BY <1>2, <2>1 DEF Drain, TypeOK
<1>3. CASE Cleanup
  BY <1>3, CleanedType DEF Cleanup, TypeOK
<1>4. CASE Alarm
  <2>1. TypeOK'
    BY <1>4, CleanedType DEF Alarm, AlarmRenewed, TypeOK
  <2>2. \A e \in Cleaned : now <= e.at + MaxAge
    BY DEF Cleaned, Outdated, TypeOK, Entry
  <2>3. alarm' # NoAlarm => now' <= alarm' + Late
    BY <1>4 DEF Alarm, AlarmRenewed, TypeOK
  <2>4. ASSUME NEW e \in stored', alarm' # NoAlarm
        PROVE  alarm' <= e.at + MaxAge + CleanupInterval
    <3>1. e \in Cleaned /\ e.at \in Nat /\ alarm' = now + CleanupInterval
      BY <1>4, <2>4, CleanedType DEF Alarm, AlarmRenewed, TypeOK, Entry
    <3>2. QED
      BY <2>2, <3>1 DEF TypeOK
  <2>5. stored' # {} => alarm' # NoAlarm
    BY <1>4 DEF Alarm, AlarmRenewed, TypeOK
  <2>6. QED
    BY <2>1, <2>3, <2>4, <2>5
<1>5. CASE Tick
  <2>1. TypeOK'
    BY <1>5 DEF Tick, TypeOK, Entry
  <2>2. QED
    BY <1>5, <2>1 DEF Tick, TypeOK
<1>6. CASE UNCHANGED vars
  BY <1>6 DEF vars, TypeOK
<1>7. QED
  BY <1>1, <1>2, <1>3, <1>4, <1>5, <1>6 DEF Next

LEMMA QueueCorrect == Spec => []QueueInv
BY QueueInit, QueueNext, PTL DEF Spec

(* While the queue holds a message its alarm is set.                       *)
THEOREM NeverForgottenCorrect == Spec => []NeverForgotten
<1>1. QueueInv => NeverForgotten
  BY DEF QueueInv
<1>2. QED
  BY <1>1, QueueCorrect, PTL

(* No message is stored longer than MaxAge, one interval and one delay,    *)
(* for every value of the four and every pattern of enqueues and drains.   *)
THEOREM NothingStaleCorrect == Spec => []NothingStale
<1>1. QueueInv => NothingStale
  <2> SUFFICES ASSUME QueueInv, NEW e \in stored
               PROVE  now <= e.at + MaxAge + CleanupInterval + Late
    BY DEF NothingStale
  <2>1. alarm \in Nat /\ now \in Nat /\ e.at \in Nat
    BY DEF QueueInv, NeverForgotten, TypeOK, Entry
  <2>2. now <= alarm + Late /\ alarm <= e.at + MaxAge + CleanupInterval
    BY <2>1 DEF QueueInv, AlarmInTime
  <2>3. QED
    BY <2>1, <2>2
<1>2. QED
  BY <1>1, QueueCorrect, PTL

-----------------------------------------------------------------------------
(* The phone.                                                              *)

(* TypeOK in two parts: the connection, and where the messages are.        *)
LinkTypes ==
  /\ ws \in {"null", "connecting", "open", "dead"}
  /\ closePending \in BOOLEAN /\ intentionalClose \in BOOLEAN
  /\ mounted \in {"not yet", "yes", "gone"}
  /\ pingTimer \in BOOLEAN /\ reconnectTimer \in BOOLEAN
  /\ delay \in 0 .. MaxDelay /\ losses \in 0 .. LastLoss

MailTypes ==
  /\ unsent \subseteq Message /\ queue \subseteq Message /\ direct \subseteq Message
  /\ batches \subseteq Message /\ arrived \subseteq Message /\ shown \subseteq Message
  /\ unsent \cap (queue \cup direct \cup batches \cup arrived) = {}
  /\ queue \cap (direct \cup batches \cup arrived) = {}
  /\ direct \cap (batches \cup arrived) = {} /\ batches \cap arrived = {}

(* The flag follows the screen, and before the screen there is nothing.    *)
FollowsScreen ==
  /\ intentionalClose <=> mounted = "gone"
  /\ mounted = "not yet" =>
       ws = "null" /\ ~ closePending /\ ~ pingTimer /\ ~ reconnectTimer

(* While the screen is there, a close event that is due is that of the     *)
(* current socket.                                                         *)
CloseIsOwn == closePending /\ mounted = "yes" => ws = "dead"

(* The inductive invariant: what OneWayBack needs is CloseIsOwn.           *)
LinkInv == LinkTypes /\ MailTypes /\ OneWayBack /\ FollowsScreen /\ CloseIsOwn

-----------------------------------------------------------------------------
(* The link starts in the invariant.                                       *)
LEMMA LinkInit ==
  PhoneInit => LinkInv
<1> SUFFICES ASSUME PhoneInit PROVE LinkInv
  OBVIOUS
<1>1. LinkTypes
  <2>1. 0 \in 0 .. MaxDelay /\ 0 \in 0 .. LastLoss
    BY BoundAssumption
  <2> QED BY <2>1 DEF PhoneInit, LinkTypes
<1>2. MailTypes
  BY DEF PhoneInit, MailTypes
<1> QED
  BY <1>1, <1>2 DEF PhoneInit, LinkInv, OneWayBack, FollowsScreen, CloseIsOwn

(* The counters stay within their limits.                                  *)
LEMMA Counts ==
  /\ 0 \in 0 .. MaxDelay
  /\ delay \in 0 .. MaxDelay /\ delay < MaxDelay => delay + 1 \in 0 .. MaxDelay
  /\ losses \in 0 .. LastLoss /\ losses < LastLoss => losses + 1 \in 0 .. LastLoss
  BY BoundAssumption

(* No step puts a message in two places.                                   *)
LEMMA MailStep ==
  MailTypes /\ [PhoneNext]_phoneVars => MailTypes'
<1> SUFFICES ASSUME MailTypes, [PhoneNext]_phoneVars PROVE MailTypes'
  OBVIOUS
<1> USE DEF MailTypes, phoneVars, mailVars
<1>1. CASE Mount \/ OnClose \/ Reconnect \/ UNCHANGED phoneVars
  BY <1>1 DEF Mount, OnClose, Reconnect
<1>2. CASE Unmount \/ Lost
  BY <1>2 DEF Unmount, Lost
<1>3. CASE Opens
  BY <1>3 DEF Opens, QueueHandedOver
<1>4. CASE QueuedMessagesFrame
  BY <1>4 DEF QueuedMessagesFrame
<1>5. ASSUME NEW m \in Message, DesktopSends(m) PROVE MailTypes'
  <2>1. CASE ws = "open"
    BY <1>5, <2>1 DEF DesktopSends
  <2>2. CASE ws # "open"
    BY <1>5, <2>2 DEF DesktopSends
  <2> QED BY <2>1, <2>2
<1>6. ASSUME NEW m \in Message, MessageFrame(m) PROVE MailTypes'
  BY <1>6 DEF MessageFrame
<1> QED
  BY <1>1, <1>2, <1>3, <1>4, <1>5, <1>6 DEF PhoneNext

(* The steps of the connection keep the rest.                              *)
LEMMA LinkStep ==
  LinkInv /\ [PhoneNext]_phoneVars => LinkInv'
<1> SUFFICES ASSUME LinkInv, [PhoneNext]_phoneVars PROVE LinkInv'
  OBVIOUS
<1>1. MailTypes'
  BY MailStep DEF LinkInv
<1>2. (LinkTypes /\ OneWayBack /\ FollowsScreen /\ CloseIsOwn)'
  <2> USE DEF LinkInv, LinkTypes, OneWayBack, FollowsScreen,
          CloseIsOwn, phoneVars, linkVars
  <2>1. CASE Mount
    BY <2>1 DEF Mount
  <2>2. CASE Unmount
    BY <2>2 DEF Unmount, TimerCleared
  <2>3. CASE Opens
    BY <2>3, Counts DEF Opens
  <2>4. CASE Lost
    BY <2>4, Counts DEF Lost
  <2>5. CASE OnClose
    <3>1. delay' \in 0 .. MaxDelay
      BY <2>5, Counts DEF OnClose
    <3>2. CASE intentionalClose
      BY <2>5, <3>1, <3>2 DEF OnClose, Scheduled
    <3>3. CASE ~ intentionalClose
      BY <2>5, <3>1, <3>3 DEF OnClose, Scheduled
    <3> QED BY <3>2, <3>3
  <2>6. CASE Reconnect
    BY <2>6 DEF Reconnect
  <2>7. CASE UNCHANGED linkVars
    BY <2>7
  <2> QED
    BY <2>1, <2>2, <2>3, <2>4, <2>5, <2>6, <2>7 DEF PhoneNext, QueuedMessagesFrame, DesktopSends, MessageFrame
<1> QED
  BY <1>1, <1>2 DEF LinkInv

LEMMA LinkInvariant ==
  PhoneSpec => []LinkInv
  BY LinkInit, LinkStep, PTL DEF PhoneSpec

-----------------------------------------------------------------------------
(* The variables have their types, and a message is in one place at a time.*)
THEOREM LinkTypeCorrect ==
  PhoneSpec => []PhoneTypeOK
<1>1. LinkInv => PhoneTypeOK
  BY DEF LinkInv, LinkTypes, MailTypes, PhoneTypeOK
<1> QED BY LinkInvariant, <1>1, PTL

(* Close event and reconnect timer never compete for the next connection,  *)
(* and a screen that is gone leaves no socket and no timer behind.         *)
THEOREM OneWayBackCorrect ==
  PhoneSpec => []OneWayBack
<1>1. LinkInv => OneWayBack
  BY DEF LinkInv
<1> QED BY LinkInvariant, <1>1, PTL
=============================================================================
