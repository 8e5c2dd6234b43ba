------------------------------- MODULE Relay -------------------------------
(***************************************************************************)
(* The WebSocket half of the relay worker, packages/relay/src/index.ts:    *)
(* the table connectedDevices, the connect, message and close handlers of  *)
(* a socket, the two asynchronous calls they make to the offline queue of  *)
(* a device (drain and enqueue) and the push that follows an enqueue.      *)
(*                                                                         *)
(* A step is what runs between two awaits.  The worker is single-threaded, *)
(* so the handlers interleave only where they await, but every call in     *)
(* flight and every pending close event may be answered in any order.      *)
(*                                                                         *)
(* The client end of a socket receives a frame at the moment the worker    *)
(* writes it if it is still there, and never otherwise: a frame lost on    *)
(* the way is the same as a client that left earlier.                      *)
(***************************************************************************)
EXTENDS Naturals, FiniteSets

CONSTANTS
  Device,    \* device ids
  Claims,    \* the <<sub, pair>> of the JWTs issued by /pair
  Socket,    \* sockets, <<claim, name>>: who connects, with which JWT
  Message,   \* messages, <<claim, name>>: who sends it, with which JWT
  PushToken, \* devices with a push token in the registry
  QueueCap,  \* MAX_QUEUE_SIZE
  RateLimit, \* maxRequests of the rate limiter
  Faults,    \* which failures of the environment a run allows
  NoSocket   \* absence of an entry in connectedDevices

ASSUME ClaimsAssumption ==
  Claims \subseteq {c \in Device \X Device : c[1] # c[2]}
ASSUME SocketAssumption == \A s \in Socket : s[1] \in Claims
ASSUME MessageAssumption == \A m \in Message : m[1] \in Claims
ASSUME NoSocketAssumption == NoSocket \notin Socket
ASSUME QueueCapAssumption == QueueCap \in Nat \ {0}
ASSUME RateLimitAssumption == RateLimit \in Nat \ {0}
ASSUME FaultsAssumption == Faults \subseteq {"call", "reply", "expiry", "noise"}

sub(x) == x[1][1]   \* the device a socket or a message belongs to
pair(x) == x[1][2]  \* its partner by the same JWT

VARIABLES
  ws,        \* state of each server-side socket
  connected, \* connectedDevices: the registered socket of each device
  rate,      \* requests counted in the current window of each device
  view,      \* what the client on each socket was last told of its partner
  unsent,    \* messages the clients have not sent yet
  uplink,    \* <<socket, message>> on the way to the worker, in any order
  enqueuing, \* messages whose call to the offline queue is in flight
  queue,     \* OfflineQueue: what each device's queue stores
  drain,     \* progress of drainOfflineQueue of each socket
  batch,     \* messages a drain call took out of the queue
  pushing,   \* stored messages whose push has not been attempted
  pushed,    \* messages for which a push request was sent
  received   \* messages that reached a client of each device

vars == <<ws, connected, rate, view, unsent, uplink, enqueuing, queue, drain,
          batch, pushing, pushed, received>>

WsState == {"fresh", "open", "replaced", "gone", "closed"}
DrainState == {"idle", "asked", "answered"}
View == {"none", "online", "offline"}

Init ==
  /\ ws = [s \in Socket |-> "fresh"]
  /\ connected = [d \in Device |-> NoSocket]
  /\ rate = [d \in Device |-> 0]
  /\ view = [s \in Socket |-> "none"]
  /\ unsent = Message
  /\ uplink = {}
  /\ enqueuing = {}
  /\ queue = [d \in Device |-> {}]
  /\ drain = [s \in Socket |-> "idle"]
  /\ batch = [s \in Socket |-> {}]
  /\ pushing = {}
  /\ pushed = {}
  /\ received = [d \in Device |-> {}]

-----------------------------------------------------------------------------
(* Writing to sockets.  A frame written to a socket whose client has gone  *)
(* disappears; the worker learns of it only by the close event.            *)

HearsIfOnline(s) == s # NoSocket /\ ws[s] = "open" /\ view[s] = "online"
Hears(s) == s # NoSocket /\ ws[s] = "open"

TellNobody(s, v) == view
Tell(s, v) == IF Hears(s) THEN [view EXCEPT ![s] = v] ELSE view

-----------------------------------------------------------------------------
(* connectedDevices is looked up by the partner the JWT of the socket      *)
(* names, each time a frame is forwarded or presence is announced.         *)

Partner(s) == connected[pair(s)]

Unregistered(d) == [connected EXCEPT ![d] = NoSocket]

(* handleWebSocket: accept, replace the registered socket of the device,   *)
(* register, tell both ends if the partner is registered, start the drain. *)

HandleWebSocket(s) ==
  LET old == connected[sub(s)]
  IN  /\ ws[s] = "fresh"
      /\ ws' = [t \in Socket |-> IF t = s THEN "open"
                                 ELSE IF t = old /\ ws[t] = "open" THEN "replaced"
                                 ELSE ws[t]]
      /\ connected' = [connected EXCEPT ![sub(s)] = s]
      /\ view' = IF Partner(s) = NoSocket THEN view
                 ELSE [Tell(Partner(s), "online") EXCEPT ![s] = "online"]
      /\ drain' = [drain EXCEPT ![s] = "asked"]
      /\ UNCHANGED <<rate, unsent, uplink, enqueuing, queue, batch, pushing,
                     pushed, received>>

(* The close listener.  It names its device, not its socket: it removes    *)
(* whatever entry connectedDevices has for the device.                     *)
CloseEvent(s) ==
  /\ ws[s] \in {"replaced", "gone"}
  /\ ~ \E m \in Message : <<s, m>> \in uplink
  /\ ws' = [ws EXCEPT ![s] = "closed"]
  /\ connected' = Unregistered(sub(s))
  /\ rate' = [rate EXCEPT ![sub(s)] = 0]
  /\ view' = Tell(Partner(s), "offline")
  /\ UNCHANGED <<unsent, uplink, enqueuing, queue, drain, batch, pushing,
                 pushed, received>>

-----------------------------------------------------------------------------
(* drainOfflineQueue.  /drain is one step of the queue's Durable Object:   *)
(* it lists and deletes.  The answer comes back in a later step; if the    *)
(* socket was closed meanwhile the write throws and the batch is dropped.  *)

Undrained(d) == queue
Drained(d) == [queue EXCEPT ![d] = {}]

DrainQueue(s) ==
  /\ drain[s] = "asked"
  /\ drain' = [drain EXCEPT ![s] = "answered"]
  /\ batch' = [batch EXCEPT ![s] = queue[sub(s)]]
  /\ queue' = Drained(sub(s))
  /\ UNCHANGED <<ws, connected, rate, view, unsent, uplink, enqueuing, pushing,
                 pushed, received>>

DrainAnswer(s) ==
  /\ drain[s] = "answered"
  /\ drain' = [drain EXCEPT ![s] = "idle"]
  /\ batch' = [batch EXCEPT ![s] = {}]
  /\ received' = IF Hears(s)
                 THEN [received EXCEPT ![sub(s)] = @ \cup batch[s]]
                 ELSE received
  /\ UNCHANGED <<ws, connected, rate, view, unsent, uplink, enqueuing, queue,
                 pushing, pushed>>

(* The call fails before it reaches the queue, or its answer is lost.      *)
DrainFails(s) ==
  /\ \/ "call" \in Faults /\ drain[s] = "asked"
     \/ "reply" \in Faults /\ drain[s] = "answered"
  /\ drain' = [drain EXCEPT ![s] = "idle"]
  /\ batch' = [batch EXCEPT ![s] = {}]
  /\ UNCHANGED <<ws, connected, rate, view, unsent, uplink, enqueuing, queue,
                 pushing, pushed, received>>

-----------------------------------------------------------------------------
(* handleMessage.  A frame is handled even on a socket that has already    *)
(* been replaced, as long as its close event has not been delivered.       *)

Allowed(d) == rate[d] < RateLimit
Counted(d) == [rate EXCEPT ![d] = @ + 1]

Handled(s, m) ==
  /\ <<s, m>> \in uplink
  /\ uplink' = uplink \ {<<s, m>>}

RateLimited(s, m) ==
  /\ Handled(s, m)
  /\ ~ Allowed(sub(s))
  /\ UNCHANGED <<ws, connected, rate, view, unsent, enqueuing, queue, drain,
                 batch, pushing, pushed, received>>

ForwardMessage(s, m) ==
  /\ Handled(s, m)
  /\ Allowed(sub(s))
  /\ rate' = Counted(sub(s))
  /\ Partner(s) # NoSocket
  /\ received' = IF Hears(Partner(s))
                 THEN [received EXCEPT ![sub(Partner(s))] = @ \cup {m}]
                 ELSE received
  /\ UNCHANGED <<ws, connected, view, unsent, enqueuing, queue, drain, batch,
                 pushing, pushed>>

EnqueueMessage(s, m) ==
  /\ Handled(s, m)
  /\ Allowed(sub(s))
  /\ rate' = Counted(sub(s))
  /\ Partner(s) = NoSocket
  /\ enqueuing' = enqueuing \cup {m}
  /\ UNCHANGED <<ws, connected, view, unsent, queue, drain, batch, pushing,
                 pushed, received>>

(* A ping or a malformed frame only counts against the rate limit.         *)
OtherFrame(s) ==
  /\ ws[s] \in {"open", "replaced"}
  /\ "noise" \in Faults
  /\ Allowed(sub(s))
  /\ rate' = Counted(sub(s))
  /\ UNCHANGED <<ws, connected, view, unsent, uplink, enqueuing, queue, drain,
                 batch, pushing, pushed, received>>

(* The oldest request of a device leaves the sliding window.               *)
RateWindow(d) ==
  /\ rate[d] > 0
  /\ rate' = [rate EXCEPT ![d] = @ - 1]
  /\ UNCHANGED <<ws, connected, view, unsent, uplink, enqueuing, queue, drain,
                 batch, pushing, pushed, received>>

-----------------------------------------------------------------------------
(* enqueueOfflineMessage and triggerPushForDevice.  A full queue answers   *)
(* 429, which the caller does not look at: the push is sent all the same.  *)

StoredForSender(m) ==
  IF Cardinality(queue[sub(m)]) >= QueueCap THEN queue
  ELSE [queue EXCEPT ![sub(m)] = @ \cup {m}]
Stored(m) ==
  IF Cardinality(queue[pair(m)]) >= QueueCap THEN queue
  ELSE [queue EXCEPT ![pair(m)] = @ \cup {m}]

StoreMessage(m) ==
  /\ m \in enqueuing
  /\ enqueuing' = enqueuing \ {m}
  /\ pushing' = pushing \cup {m}
  /\ queue' = Stored(m)
  /\ UNCHANGED <<ws, connected, rate, view, unsent, uplink, drain, batch,
                 pushed, received>>

(* The call fails before it reaches the queue, or its answer is lost: then *)
(* the message is stored all the same.  Either way there is no push.       *)
EnqueueFails(m) ==
  /\ m \in enqueuing
  /\ enqueuing' = enqueuing \ {m}
  /\ \/ "call" \in Faults /\ UNCHANGED queue
     \/ "reply" \in Faults /\ queue' = Stored(m)
  /\ UNCHANGED <<ws, connected, rate, view, unsent, uplink, drain, batch,
                 pushing, pushed, received>>

TriggerPush(m) ==
  /\ m \in pushing
  /\ pushing' = pushing \ {m}
  /\ pushed' = IF pair(m) \in PushToken THEN pushed \cup {m} ELSE pushed
  /\ UNCHANGED <<ws, connected, rate, view, unsent, uplink, enqueuing, queue,
                 drain, batch, received>>

(* The registry does not answer: the error is swallowed, nothing is sent.  *)
PushFails(m) ==
  /\ "call" \in Faults
  /\ m \in pushing
  /\ pushing' = pushing \ {m}
  /\ UNCHANGED <<ws, connected, rate, view, unsent, uplink, enqueuing, queue,
                 drain, batch, pushed, received>>

(* The queue's alarm deletes messages that have grown too old.             *)
Cleanup(d) ==
  /\ "expiry" \in Faults
  /\ \E old \in SUBSET queue[d] \ {{}} :
       queue' = [queue EXCEPT ![d] = @ \ old]
  /\ UNCHANGED <<ws, connected, rate, view, unsent, uplink, enqueuing, drain,
                 batch, pushing, pushed, received>>

-----------------------------------------------------------------------------
(* The clients, external to the worker.  A client may send as long as it   *)
(* has not seen the close; when it goes, frames it sent may be lost.       *)

ClientSends(s, m) ==
  /\ ws[s] \in {"open", "replaced"}
  /\ m \in unsent
  /\ m[1] = s[1]
  /\ unsent' = unsent \ {m}
  /\ uplink' = uplink \cup {<<s, m>>}
  /\ UNCHANGED <<ws, connected, rate, view, enqueuing, queue, drain, batch,
                 pushing, pushed, received>>

ClientGone(s) ==
  /\ ws[s] \in {"open", "replaced"}
  /\ ws' = [ws EXCEPT ![s] = IF @ = "open" THEN "gone" ELSE @]
  /\ \E lost \in SUBSET {f \in uplink : f[1] = s} : uplink' = uplink \ lost
  /\ UNCHANGED <<connected, rate, view, unsent, enqueuing, queue, drain, batch,
                 pushing, pushed, received>>

-----------------------------------------------------------------------------
HandleMessage(s, m) ==
  \/ RateLimited(s, m)
  \/ ForwardMessage(s, m)
  \/ EnqueueMessage(s, m)

Next ==
  \/ \E s \in Socket :
       \/ HandleWebSocket(s) \/ CloseEvent(s)
       \/ DrainQueue(s) \/ DrainAnswer(s) \/ DrainFails(s)
       \/ OtherFrame(s) \/ ClientGone(s)
  \/ \E s \in Socket, m \in Message : HandleMessage(s, m) \/ ClientSends(s, m)
  \/ \E m \in Message :
       StoreMessage(m) \/ EnqueueFails(m) \/ TriggerPush(m) \/ PushFails(m)
  \/ \E d \in Device : RateWindow(d) \/ Cleanup(d)

Spec == Init /\ [][Next]_vars

(* The worker runs every handler whose event has arrived and every call to *)
(* a Durable Object is answered.  Clients connect, send and leave at will. *)
Fairness ==
  /\ \A s \in Socket :
       /\ WF_vars(DrainQueue(s))
       /\ WF_vars(DrainAnswer(s))
       /\ WF_vars(CloseEvent(s))
  /\ \A s \in Socket, m \in Message : WF_vars(HandleMessage(s, m))
  /\ \A m \in Message : WF_vars(StoreMessage(m)) /\ WF_vars(TriggerPush(m))

FairSpec == Spec /\ Fairness
-----------------------------------------------------------------------------
(* Properties                                                              *)

(* Type invariant: every variable of the worker, of the two Durable        *)
(* Objects and of the clients keeps its range; a device never has more     *)
(* than the allowed requests in one window.                                *)
TypeOK ==
  /\ ws \in [Socket -> WsState]
  /\ connected \in [Device -> Socket \cup {NoSocket}]
  /\ rate \in [Device -> 0 .. RateLimit]
  /\ view \in [Socket -> View]
  /\ unsent \subseteq Message
  /\ uplink \subseteq Socket \X Message
  /\ enqueuing \subseteq Message
  /\ queue \in [Device -> SUBSET Message]
  /\ drain \in [Socket -> DrainState]
  /\ batch \in [Socket -> SUBSET Message]
  /\ pushing \subseteq Message
  /\ pushed \subseteq Message
  /\ received \in [Device -> SUBSET Message]

(* The socket connectedDevices holds for a device belongs to that device   *)
(* and has been closed neither by the worker nor by a handled close event: *)
(* forwarding and presence frames are never written to a closed socket,    *)
(* where ws.send throws and aborts the handler half way.                   *)
RegisteredIsLive ==
  \A d \in Device :
    connected[d] # NoSocket =>
      /\ sub(connected[d]) = d
      /\ ws[connected[d]] \in {"open", "gone"}

(* Where a message is.  The empty set means that it is lost.               *)
Where(m) ==
  {<<"unsent", c>> : c \in {c \in Claims : c = m[1] /\ m \in unsent}}
    \cup {<<"uplink", s>> : s \in {s \in Socket : <<s, m>> \in uplink}}
    \cup {<<"call", c>> : c \in {c \in Claims : c = m[1] /\ m \in enqueuing}}
    \cup {<<"queue", d>> : d \in {d \in Device : m \in queue[d]}}
    \cup {<<"batch", s>> : s \in {s \in Socket : m \in batch[s]}}
    \cup {<<"received", d>> : d \in {d \in Device : m \in received[d]}}

(* However connects, replacements, drains and enqueues interleave, there   *)
(* is never a second copy of a message: none is both queued and forwarded, *)
(* taken by two drains, or delivered and still stored.                     *)
OneCopy == \A m \in Message : \A p, q \in Where(m) : p = q

(* A message waits for, is drained for and reaches only the device that    *)
(* the sender's JWT names, even when a device holds JWTs of two pairings.  *)
OnlyAddressee ==
  \A m \in Message :
    /\ \A d \in Device : m \in queue[d] \cup received[d] => d = pair(m)
    /\ \A s \in Socket : m \in batch[s] => sub(s) = pair(m)

(* The steps in which the environment fails a call or a message expires.   *)
FaultStep ==
  \/ \E s \in Socket : DrainFails(s)
  \/ \E m \in Message : EnqueueFails(m)
  \/ \E d \in Device : Cleanup(d)

(* Except in a step that is itself a failed call or an expiry, a message   *)
(* disappears only because its sender is over the rate limit or has gone,  *)
(* because it was written to a socket whose client had gone or that had    *)
(* been closed, or because the queue of its addressee was full.            *)
LossIsExplained ==
  [][\A m \in Message :
       Where(m) # {} /\ Where(m)' = {} =>
         \/ \E s \in Socket :
              /\ <<s, m>> \in uplink
              /\ \/ rate[sub(s)] = RateLimit
                 \/ ws[s] # "open" \/ ws'[s] # "open"
         \/ /\ connected[pair(m)] # NoSocket
            /\ ws[connected[pair(m)]] = "gone"
         \/ \E s \in Socket : m \in batch[s] /\ ws[s] # "open"
         \/ m \in enqueuing /\ Cardinality(queue[pair(m)]) = QueueCap
         \/ FaultStep
    ]_vars

(* When every device has one pairing, the presence a connected client was  *)
(* last told is exactly whether its partner has an entry in                *)
(* connectedDevices, across replacements and late close events.            *)
Mutual == \A c \in Claims : <<c[2], c[1]>> \in Claims
SinglePairing == \A b, c \in Claims : b[1] = c[1] => b = c

PresenceMatchesTable ==
  Mutual /\ SinglePairing =>
    \A d \in Device :
      Hears(connected[d]) =>
        (view[connected[d]] = "online"
           <=> connected[pair(connected[d])] # NoSocket)

(* A message that is stored while a drain of its device is asked for, at   *)
(* a first connect as at a reconnect that replaces a socket, is handed to  *)
(* the device.  The one way out is the socket of the very drain that took  *)
(* the message out of the queue: it was lost before that drain's answer.   *)
StoredIsHandedOver ==
  \A s \in Socket, m \in Message :
    (drain[s] = "asked" /\ m \in queue[sub(s)])
      ~> (\/ m \in received[sub(s)]
          \/ \E t \in Socket : m \in batch[t] /\ ws[t] # "open")

(* What the worker does with each message, seen from outside: the abstract *)
(* specification of the relay, in which a message is accepted once and     *)
(* then delivered once or lost for good.                                   *)
Phase(m) ==
  IF Where(m) = {} THEN "lost"
  ELSE IF Where(m) = {<<"unsent", m[1]>>} THEN "unsent"
  ELSE IF Where(m) = {<<"received", pair(m)>>} THEN "delivered"
  ELSE IF \A p, q \in Where(m) : p = q THEN "held"
  ELSE "copied"  \* no phase of MailContract

Contract == INSTANCE MailContract WITH phase <- [m \in Message |-> Phase(m)]

(* The worker, with every fault, implements MailContract.                  *)
MailContractHolds == Contract!Spec
=============================================================================
