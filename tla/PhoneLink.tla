------------------------------ MODULE PhoneLink ------------------------------
(***************************************************************************)
(* The phone's end of the relay: RelayService                              *)
(* (apps/mobile/src/services/relay.ts) as the chat screen uses it          *)
(* (apps/mobile/src/hooks/useChat.ts), one service per pairing, connected  *)
(* when the screen is mounted and disconnected when it goes.               *)
(*                                                                         *)
(* Of the relay only what the phone sees is here: it forwards to an open   *)
(* socket, queues and pushes otherwise, and hands the queue over when the  *)
(* socket opens.  The races inside the relay are those of module Relay.    *)
(***************************************************************************)
EXTENDS Naturals

CONSTANTS
  Message,   \* messages the desktop sends to the phone
  MaxDelay,  \* number of doublings from 3 s to MAX_RECONNECT_DELAY
  LastLoss   \* bound on the connections that fail or break

ASSUME BoundAssumption == MaxDelay \in Nat /\ LastLoss \in Nat

VARIABLES
  ws,               \* "null", "connecting", "open", or "dead" after its end
  closePending,     \* an onclose has still to run
  intentionalClose,
  mounted,          \* the chat screen: "not yet", "yes", "gone"
  pingTimer,
  reconnectTimer,
  delay,            \* doublings of reconnectDelay
  losses,           \* connections lost so far
  unsent,           \* messages the desktop has still to send
  queue,            \* messages in the relay's queue
  direct,           \* `message` frames on their way
  batches,          \* messages in `queued_messages` frames on their way
  arrived,          \* messages whose frame reached the phone
  shown             \* messages in the chat

linkVars == <<ws, closePending, intentionalClose, mounted, pingTimer,
              reconnectTimer, delay, losses>>
mailVars == <<unsent, queue, direct, batches, arrived, shown>>
phoneVars == <<linkVars, mailVars>>

PhoneInit ==
  /\ ws = "null"
  /\ closePending = FALSE
  /\ intentionalClose = FALSE
  /\ mounted = "not yet"
  /\ pingTimer = FALSE
  /\ reconnectTimer = FALSE
  /\ delay = 0
  /\ losses = 0
  /\ unsent = Message
  /\ queue = {}
  /\ direct = {}
  /\ batches = {}
  /\ arrived = {}
  /\ shown = {}

-----------------------------------------------------------------------------
(* The effect of useChat: connect on mount, disconnect on unmount.         *)
Mount ==
  /\ mounted = "not yet"
  /\ mounted' = "yes"
  /\ ws' = "connecting"
  /\ UNCHANGED <<closePending, intentionalClose, pingTimer, reconnectTimer,
                 delay, losses, mailVars>>

TimerCleared == FALSE

Unmount ==
  /\ mounted = "yes"
  /\ mounted' = "gone"
  /\ intentionalClose' = TRUE
  /\ pingTimer' = FALSE
  /\ reconnectTimer' = TimerCleared
  /\ closePending' = (ws \in {"connecting", "open"} \/ closePending)
  /\ ws' = "null"
  /\ direct' = {}
  /\ batches' = {}
  /\ UNCHANGED <<delay, losses, unsent, queue, arrived, shown>>

QueueHandedOver == {}

(* onopen; the relay hands the queue over.                                 *)
Opens ==
  /\ ws = "connecting"
  /\ ws' = "open"
  /\ delay' = 0
  /\ pingTimer' = TRUE
  /\ batches' = queue
  /\ queue' = QueueHandedOver
  /\ UNCHANGED <<closePending, intentionalClose, mounted, reconnectTimer, losses,
                 unsent, direct, arrived, shown>>

(* The connection fails or breaks, and onclose follows.                    *)
Lost ==
  /\ ws \in {"connecting", "open"}
  /\ losses < LastLoss
  /\ losses' = losses + 1
  /\ ws' = "dead"
  /\ closePending' = TRUE
  /\ direct' = {}
  /\ batches' = {}
  /\ UNCHANGED <<intentionalClose, mounted, pingTimer, reconnectTimer, delay,
                 unsent, queue, arrived, shown>>

NeverScheduled == FALSE
AlwaysScheduled == TRUE
Scheduled == ~ intentionalClose

OnClose ==
  /\ closePending
  /\ closePending' = FALSE
  /\ pingTimer' = FALSE
  /\ reconnectTimer' = Scheduled
  /\ delay' = IF ~ intentionalClose /\ delay < MaxDelay THEN delay + 1 ELSE delay
  /\ UNCHANGED <<ws, intentionalClose, mounted, losses, mailVars>>

Reconnect ==
  /\ reconnectTimer
  /\ reconnectTimer' = FALSE
  /\ ws' = "connecting"
  /\ UNCHANGED <<closePending, intentionalClose, mounted, pingTimer, delay, losses,
                 mailVars>>

-----------------------------------------------------------------------------
(* The desktop sends a message: the relay forwards or queues it.           *)
DesktopSends(m) ==
  /\ m \in unsent
  /\ unsent' = unsent \ {m}
  /\ IF ws = "open"
     THEN direct' = direct \cup {m} /\ UNCHANGED queue
     ELSE queue' = queue \cup {m} /\ UNCHANGED direct
  /\ UNCHANGED <<linkVars, batches, arrived, shown>>

(* handleRawMessage.                                                       *)
MessageFrame(m) ==
  /\ ws = "open" /\ m \in direct
  /\ direct' = direct \ {m}
  /\ arrived' = arrived \cup {m}
  /\ shown' = shown \cup {m}
  /\ UNCHANGED <<linkVars, unsent, queue, batches>>

QueuedMessagesFrame ==
  /\ ws = "open" /\ batches # {}
  /\ batches' = {}
  /\ arrived' = arrived \cup batches
  /\ UNCHANGED <<linkVars, unsent, queue, direct, shown>>

-----------------------------------------------------------------------------
PhoneNext ==
  \/ Mount \/ Unmount \/ Opens \/ Lost \/ OnClose \/ Reconnect
  \/ QueuedMessagesFrame
  \/ \E m \in Message : DesktopSends(m) \/ MessageFrame(m)

PhoneSpec == PhoneInit /\ [][PhoneNext]_phoneVars

(* Events and timers run, and a connection that is not refused opens.      *)
Fairness == WF_phoneVars(OnClose) /\ WF_phoneVars(Reconnect) /\ WF_phoneVars(Opens)

PhoneFairSpec == PhoneSpec /\ Fairness
-----------------------------------------------------------------------------
(* Type invariant; every message is in one place at a time.                *)
PhoneTypeOK ==
  /\ ws \in {"null", "connecting", "open", "dead"}
  /\ closePending \in BOOLEAN
  /\ intentionalClose \in BOOLEAN
  /\ mounted \in {"not yet", "yes", "gone"}
  /\ pingTimer \in BOOLEAN
  /\ reconnectTimer \in BOOLEAN
  /\ delay \in 0 .. MaxDelay
  /\ losses \in 0 .. LastLoss
  /\ {unsent, queue, direct, batches, arrived, shown} \subseteq SUBSET Message
  /\ unsent \cap (queue \cup direct \cup batches \cup arrived) = {}
  /\ queue \cap (direct \cup batches \cup arrived) = {}
  /\ direct \cap (batches \cup arrived) = {} /\ batches \cap arrived = {}

(* The reconnect timer and the close event never compete: at most one of   *)
(* them can start the next connection, so there is never a second socket.  *)
(* A screen that is gone leaves neither socket nor timer behind, and the   *)
(* late close event brings none back.                                      *)
OneWayBack ==
  /\ reconnectTimer => ws = "dead" /\ ~ closePending /\ ~ pingTimer
  /\ pingTimer => ws = "open" \/ closePending
  /\ mounted = "gone" => ws = "null" /\ ~ pingTimer /\ ~ reconnectTimer

(* A phone whose screen is there is online again after every loss.         *)
PhoneComesBack == ws = "dead" ~> (ws = "open" \/ mounted = "gone")
=============================================================================
