------------------------------ MODULE Notices ------------------------------
(***************************************************************************)
(* Notices of sub-agents on their way to the user: the NotificationStore   *)
(* and the notification stream of packages/gateway/channels/in-app.ts, and *)
(* the desktop's end of that stream in apps/desktop/src/main/index.ts.     *)
(*                                                                         *)
(* The notices come from the runs modelled in Agents.  The desktop has its *)
(* token file; what it does with a notice it has read (the renderer's list,*)
(* the native notification, the phone) is left out.                        *)
(***************************************************************************)
EXTENDS Naturals, Sequences, SequencesExt

CONSTANTS
  Notice,    \* notices, numbered in the order they are stored
  MaxNotes,  \* MAX_NOTIFICATIONS
  MaxFaults  \* bound on the failures of a behaviour

ASSUME NoticeAssumption ==
  Notice \subseteq Nat /\ MaxNotes \in Nat \ {0} /\ MaxFaults \in Nat

VARIABLES
  up,      \* the gateway process lives
  notes,   \* NotificationStore, oldest first
  stale,   \* notices older than 24 hours
  online,  \* the last status the gateway manager told
  stream,  \* notificationStream: none (or over), asked for, open
  timer,   \* notificationReconnectTimer is set
  pipe,    \* written to the stream, not read yet
  told,    \* notices handleNotificationEvent was called with
  muted,   \* notices stored without a broadcast
  next,    \* number of the next notice
  faults   \* failures so far

vars == <<up, notes, stale, online, stream, timer, pipe, told, muted, next, faults>>
desktop == <<online, stream, timer>>
history == <<muted, next>>

Fault == faults < MaxFaults /\ faults' = faults + 1
Stored == ToSet(notes)

(* The gateway has been started and the desktop follows it.               *)
Init ==
  /\ up = TRUE /\ notes = <<>> /\ stale = {}
  /\ online = TRUE /\ stream = "open" /\ timer = FALSE
  /\ pipe = <<>> /\ told = {}
  /\ muted = {} /\ next = 1 /\ faults = 0

-----------------------------------------------------------------------------
(* The gateway: NotificationStore.                                         *)

(* getPending.  The store is in order of time and every notice lives as    *)
(* long: what has expired is in front.                                     *)
InFront(k) == \A i \in DOMAIN notes : notes[i] \in stale <=> i <= k
Unexpired ==
  LET k == CHOOSE k \in 0 .. Len(notes) : InFront(k)
  IN SubSeq(notes, k + 1, Len(notes))

(* Two slips: no limit, and the newest is evicted.                         *)
RoomUnlimited == notes
RoomAtTheEnd == IF Len(notes) < MaxNotes THEN notes ELSE Front(notes)

(* add: a full store drops what has expired, then what is oldest.          *)
Room ==
  LET kept == IF Len(notes) < MaxNotes THEN notes ELSE Unexpired
  IN IF Len(kept) < MaxNotes THEN kept ELSE Tail(kept)
Add(n) == notes' = Append(Room, n)

(* emitNotification: only a stream that is open gets it.                   *)
Emit(n) == pipe' = IF stream = "open" THEN Append(pipe, n) ELSE pipe

(* handleProactiveResult stores the notice and broadcasts it, unless it    *)
(* asks for an approval and the store of proposals is full: that throws.   *)
HandleProactiveResult ==
  /\ up /\ next \in Notice /\ next' = next + 1
  /\ Add(next)
  /\ \/ Emit(next) /\ UNCHANGED muted
     \/ UNCHANGED pipe /\ muted' = muted \cup {next}
  /\ UNCHANGED <<up, stale, told, faults, desktop>>

Expire(n) ==
  /\ Fault
  /\ n \notin stale
  /\ \E i \in DOMAIN notes : notes[i] = n /\ \A j \in 1 .. i - 1 : notes[j] \in stale
  /\ stale' = stale \cup {n}
  /\ UNCHANGED <<up, notes, pipe, told, history, desktop>>

(* acknowledge: the user has dismissed it.  A request that is lost leaves  *)
(* the notice stored.                                                      *)
Acknowledge(n) ==
  /\ up /\ n \in told
  /\ \E i \in DOMAIN notes : notes[i] = n /\ notes' = RemoveAt(notes, i)
  /\ UNCHANGED <<up, stale, pipe, told, history, faults, desktop>>

-----------------------------------------------------------------------------
(* The desktop.  destroy() of a request that is not over raises its error  *)
(* event right after the code that called it, and that event schedules a   *)
(* reconnect: also when the stream was only replaced or switched off.      *)

(* disconnectNotificationStream *)
Disconnect == stream' = "none" /\ timer' = (stream # "none") /\ pipe' = <<>>

(* connectNotificationStream *)
Connect == stream' = "asked" /\ timer' = (stream # "none") /\ pipe' = <<>>

(* A slip: only errors schedule a reconnect, the end of a stream does not. *)
LostQuietly == stream' = "none" /\ UNCHANGED timer /\ pipe' = <<>>

(* scheduleNotificationReconnect, for a stream that ended by itself.       *)
Lost == stream' = "none" /\ timer' = TRUE /\ pipe' = <<>>

GatewayOnline ==
  /\ up /\ ~online /\ online' = TRUE
  /\ Connect
  /\ UNCHANGED <<up, notes, stale, told, history, faults>>

(* Any other status: a failed health check, or a manager that starts.      *)
GatewayNotOnline ==
  /\ IF online THEN Fault ELSE UNCHANGED faults
  /\ online' = FALSE
  /\ Disconnect
  /\ UNCHANGED <<up, notes, stale, told, history>>

(* A slip: a new stream starts without what is stored.                     *)
NoReplay == <<>>

(* The stream starts with everything stored, newest first.                 *)
Replay == Reverse(Unexpired)

(* handleNotificationStream: nothing comes between replay and subscription.*)
Served ==
  /\ up /\ stream = "asked" /\ stream' = "open"
  /\ pipe' = Replay
  /\ notes' = Unexpired
  /\ UNCHANGED <<up, stale, online, timer, told, history, faults>>

(* Refused, answered with an error, or broken.                             *)
StreamFails ==
  /\ stream # "none"
  /\ IF up THEN Fault ELSE UNCHANGED faults
  /\ Lost
  /\ UNCHANGED <<up, notes, stale, online, told, history>>

(* The delay is at least 5 s: what was written before has been read.       *)
ReconnectTimer ==
  /\ timer /\ pipe = <<>>
  /\ Connect
  /\ UNCHANGED <<up, notes, stale, online, told, history, faults>>

(* handleNotificationEvent *)
Receive ==
  /\ stream = "open" /\ pipe # <<>>
  /\ told' = told \cup {Head(pipe)} /\ pipe' = Tail(pipe)
  /\ UNCHANGED <<up, notes, stale, history, faults, desktop>>

-----------------------------------------------------------------------------
(* The gateway process dies and is started again.  The manager hears of    *)
(* the exit before or after the stream does: only then is a reconnect      *)
(* scheduled that was not cleared.                                         *)
GatewayDies ==
  /\ up /\ Fault
  /\ up' = FALSE /\ online' = FALSE
  /\ notes' = <<>> /\ stale' = {} /\ pipe' = <<>>
  /\ stream' = "none" /\ timer' \in {FALSE, stream # "none"}
  /\ UNCHANGED <<told, history>>

GatewayStarts ==
  /\ ~up /\ up' = TRUE
  /\ UNCHANGED <<notes, stale, pipe, told, history, faults, desktop>>

Next ==
  \/ HandleProactiveResult
  \/ GatewayOnline \/ GatewayNotOnline
  \/ Served \/ StreamFails \/ ReconnectTimer \/ Receive
  \/ \E n \in Notice : Expire(n) \/ Acknowledge(n)
  \/ GatewayDies \/ GatewayStarts

(* A request is answered or refused, the stream is read, timers fire.      *)
Spec == Init /\ [][Next]_vars
FairSpec ==
  /\ Spec
  /\ WF_vars(Served) /\ WF_vars(Receive) /\ WF_vars(ReconnectTimer)
  /\ WF_vars(~up /\ StreamFails)

-----------------------------------------------------------------------------
(* What the user is promised.                                              *)

(* The variables have their types; only an open stream carries notices, and*)
(* a dead gateway has neither.                                             *)
TypeOK ==
  /\ up \in BOOLEAN /\ online \in BOOLEAN /\ timer \in BOOLEAN
  /\ notes \in Seq(Notice) /\ Len(notes) <= MaxNotes /\ pipe \in Seq(Notice)
  /\ stale \cup told \cup muted \subseteq Notice
  /\ stream \in {"none", "asked", "open"} /\ (pipe # <<>> => stream = "open")
  /\ ~up => stream # "open" /\ notes = <<>>
  /\ faults \in 0 .. MaxFaults

(* A stream that is open misses nothing: what is stored has been read, is  *)
(* on its way, has expired, or was stored without a broadcast.             *)
NothingMissed ==
  stream = "open" => Stored \subseteq told \cup ToSet(pipe) \cup stale \cup muted

(* A notice that nobody has read leaves the store only if it has expired,  *)
(* if the gateway dies, or as the oldest of a full store.                  *)
UnreadIsKept ==
  [][\A n \in Stored \ told :
       n \in ToSet(notes') \/ n \in stale \/ ~up'
       \/ (Len(notes) = MaxNotes /\ n = Head(Unexpired))]_vars

(* Every notice reaches the desktop while the gateway stays online, unless *)
(* it left the store before, or was stored without a broadcast.            *)
EventuallyTold ==
  \A n \in Notice : <>[]online => [](n \in Stored => <>(n \in told \cup muted \/ n \notin Stored))

=============================================================================
