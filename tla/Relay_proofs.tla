---------------------------- MODULE Relay_proofs ----------------------------
(* Proofs about the relay worker, for every set of devices, JWTs, sockets  *)
(* and messages, every limit and every set of faults.                      *)
EXTENDS Relay, FiniteSetTheorems, TLAPS

(* The device and the partner a JWT names are devices, and differ.         *)
LEMMA SubPairSocket ==
  ASSUME NEW s \in Socket
  PROVE  /\ sub(s) \in Device
         /\ pair(s) \in Device
         /\ sub(s) # pair(s)
BY SocketAssumption, ClaimsAssumption DEF sub, pair

LEMMA SubPairMessage ==
  ASSUME NEW m \in Message
  PROVE  /\ sub(m) \in Device
         /\ pair(m) \in Device
         /\ sub(m) # pair(m)
BY MessageAssumption, ClaimsAssumption DEF sub, pair

LEMMA TellType ==
  ASSUME TypeOK, NEW s, NEW v \in View
  PROVE  Tell(s, v) \in [Socket -> View]
BY DEF TypeOK, Tell, View

LEMMA CountedType ==
  ASSUME TypeOK, NEW d \in Device, Allowed(d)
  PROVE  Counted(d) \in [Device -> 0 .. RateLimit]
BY RateLimitAssumption DEF TypeOK, Allowed, Counted

LEMMA StoredType ==
  ASSUME TypeOK, NEW m \in Message
  PROVE  Stored(m) \in [Device -> SUBSET Message]
BY SubPairMessage DEF TypeOK, Stored

USE DEF Partner, Unregistered, Drained

-----------------------------------------------------------------------------
(* Type correctness.                                                       *)
LEMMA TypeInit == Init => TypeOK
BY RateLimitAssumption DEF Init, TypeOK, WsState, DrainState, View

LEMMA TypeNext == TypeOK /\ [Next]_vars => TypeOK'
<1> SUFFICES ASSUME TypeOK, [Next]_vars
             PROVE  TypeOK'
  OBVIOUS
<1> USE DEF TypeOK
<1>1. ASSUME NEW s \in Socket, HandleWebSocket(s)
      PROVE  TypeOK'
  <2> DEFINE partner == Partner(s)
  <2>1. ws' \in [Socket -> WsState]
    BY <1>1 DEF HandleWebSocket, WsState
  <2>2. connected' \in [Device -> Socket \cup {NoSocket}]
    BY <1>1 DEF HandleWebSocket
  <2>3. view' \in [Socket -> View]
    <3>1. [Tell(partner, "online") EXCEPT ![s] = "online"] \in [Socket -> View]
      BY TellType DEF View
    <3>2. QED
      BY <1>1, <3>1 DEF HandleWebSocket
  <2>4. drain' \in [Socket -> DrainState]
    BY <1>1 DEF HandleWebSocket, DrainState
  <2>5. QED
    BY <1>1, <2>1, <2>2, <2>3, <2>4 DEF HandleWebSocket
<1>2. ASSUME NEW s \in Socket, CloseEvent(s)
      PROVE  TypeOK'
  <2>1. view' \in [Socket -> View]
    BY <1>2, TellType DEF CloseEvent, View
  <2>2. ws' \in [Socket -> WsState]
    BY <1>2 DEF CloseEvent, WsState
  <2>3. rate' \in [Device -> 0 .. RateLimit]
    <3>1. 0 \in 0 .. RateLimit
      BY RateLimitAssumption
    <3>2. QED
      BY <1>2, <3>1, Zenon DEF CloseEvent
  <2>4. QED
    BY <1>2, <2>1, <2>2, <2>3 DEF CloseEvent
<1>3. ASSUME NEW s \in Socket, DrainQueue(s)
      PROVE  TypeOK'
  BY <1>3, SubPairSocket DEF DrainQueue, DrainState
<1>4. ASSUME NEW s \in Socket, DrainAnswer(s)
      PROVE  TypeOK'
  <2>1. received' \in [Device -> SUBSET Message]
    BY <1>4, SubPairSocket DEF DrainAnswer
  <2>2. QED
    BY <1>4, <2>1 DEF DrainAnswer, DrainState
<1>5. ASSUME NEW s \in Socket, DrainFails(s)
      PROVE  TypeOK'
  BY <1>5 DEF DrainFails, DrainState
<1>6. ASSUME NEW s \in Socket, OtherFrame(s)
      PROVE  TypeOK'
  <2>1. rate' \in [Device -> 0 .. RateLimit]
    BY <1>6, SubPairSocket, CountedType DEF OtherFrame
  <2>2. QED
    BY <1>6, <2>1 DEF OtherFrame
<1>7. ASSUME NEW s \in Socket, ClientGone(s)
      PROVE  TypeOK'
  BY <1>7 DEF ClientGone, WsState
<1>8. ASSUME NEW s \in Socket, NEW m \in Message, RateLimited(s, m)
      PROVE  TypeOK'
  BY <1>8 DEF RateLimited, Handled
<1>9. ASSUME NEW s \in Socket, NEW m \in Message, ForwardMessage(s, m)
      PROVE  TypeOK'
  <2>1. rate' \in [Device -> 0 .. RateLimit]
    BY <1>9, SubPairSocket, CountedType DEF ForwardMessage
  <2>2. received' \in [Device -> SUBSET Message]
    BY <1>9 DEF ForwardMessage
  <2>3. QED
    BY <1>9, <2>1, <2>2 DEF ForwardMessage, Handled
<1>10. ASSUME NEW s \in Socket, NEW m \in Message, EnqueueMessage(s, m)
       PROVE  TypeOK'
  <2>1. rate' \in [Device -> 0 .. RateLimit]
    BY <1>10, SubPairSocket, CountedType DEF EnqueueMessage
  <2>2. QED
    BY <1>10, <2>1 DEF EnqueueMessage, Handled
<1>11. ASSUME NEW s \in Socket, NEW m \in Message, ClientSends(s, m)
       PROVE  TypeOK'
  BY <1>11 DEF ClientSends
<1>12. ASSUME NEW m \in Message, StoreMessage(m)
       PROVE  TypeOK'
  BY <1>12, StoredType DEF StoreMessage
<1>13. ASSUME NEW m \in Message, EnqueueFails(m)
       PROVE  TypeOK'
  BY <1>13, StoredType DEF EnqueueFails
<1>14. ASSUME NEW m \in Message, TriggerPush(m)
       PROVE  TypeOK'
  BY <1>14 DEF TriggerPush
<1>15. ASSUME NEW m \in Message, PushFails(m)
       PROVE  TypeOK'
  BY <1>15 DEF PushFails
<1>16. ASSUME NEW d \in Device, RateWindow(d)
       PROVE  TypeOK'
  <2>1. rate' \in [Device -> 0 .. RateLimit]
    BY <1>16, RateLimitAssumption DEF RateWindow
  <2>2. QED
    BY <1>16, <2>1 DEF RateWindow
<1>17. ASSUME NEW d \in Device, Cleanup(d)
       PROVE  TypeOK'
  BY <1>17 DEF Cleanup
<1>18. CASE UNCHANGED vars
  BY <1>18 DEF vars
<1>19. QED
  BY <1>1, <1>2, <1>3, <1>4, <1>5, <1>6, <1>7, <1>8, <1>9, <1>10, <1>11,
     <1>12, <1>13, <1>14, <1>15, <1>16, <1>17, <1>18
  DEF Next, HandleMessage

(* Every variable of the worker keeps its range, in particular no device   *)
(* is ever counted beyond its rate limit.                                  *)
THEOREM TypeCorrect == Spec => []TypeOK
BY TypeInit, TypeNext, PTL DEF Spec

-----------------------------------------------------------------------------
(* connectedDevices holds only sockets that can be written to.  The map    *)
(* and the socket states change together: the only step that closes an     *)
(* open socket overwrites its entry, and the close event of a replaced     *)
(* socket may remove an entry but never restores one.                      *)
LEMMA RegisteredNext == TypeOK /\ RegisteredIsLive /\ [Next]_vars => RegisteredIsLive'
<1> SUFFICES ASSUME TypeOK, RegisteredIsLive, [Next]_vars,
                    NEW d \in Device, connected'[d] # NoSocket
             PROVE  /\ sub(connected'[d]) = d
                    /\ ws'[connected'[d]] \in {"open", "gone"}
  BY DEF RegisteredIsLive
<1>1. ASSUME NEW s \in Socket, HandleWebSocket(s)
      PROVE  /\ sub(connected'[d]) = d
             /\ ws'[connected'[d]] \in {"open", "gone"}
  <2>1. CASE d = sub(s)
    BY <1>1, <2>1 DEF HandleWebSocket, TypeOK
  <2>2. CASE d # sub(s)
    <3>1. connected'[d] = connected[d]
      BY <1>1, <2>2 DEF HandleWebSocket, TypeOK
    <3>2. connected[d] # connected[sub(s)] /\ connected[d] # s
      BY <2>2, <3>1, SubPairSocket, NoSocketAssumption DEF RegisteredIsLive, TypeOK
    <3>3. ws'[connected[d]] = ws[connected[d]]
      BY <1>1, <3>1, <3>2 DEF HandleWebSocket, TypeOK
    <3>4. QED
      BY <3>1, <3>3 DEF RegisteredIsLive
  <2>3. QED
    BY <2>1, <2>2
<1>2. ASSUME NEW s \in Socket, CloseEvent(s)
      PROVE  /\ sub(connected'[d]) = d
             /\ ws'[connected'[d]] \in {"open", "gone"}
  <2>1. d # sub(s) /\ connected'[d] = connected[d]
    BY <1>2 DEF CloseEvent, TypeOK
  <2>2. connected[d] # s
    BY <2>1 DEF RegisteredIsLive
  <2>3. QED
    BY <1>2, <2>1, <2>2 DEF CloseEvent, TypeOK, RegisteredIsLive
<1>3. ASSUME NEW s \in Socket, ClientGone(s)
      PROVE  /\ sub(connected'[d]) = d
             /\ ws'[connected'[d]] \in {"open", "gone"}
  BY <1>3 DEF ClientGone, TypeOK, RegisteredIsLive
<1>4. CASE UNCHANGED <<ws, connected>>
  BY <1>4 DEF RegisteredIsLive
<1>5. QED
  BY <1>1, <1>2, <1>3, <1>4
  DEF Next, vars, HandleMessage, DrainQueue, DrainAnswer, DrainFails, OtherFrame,
      RateLimited, ForwardMessage, EnqueueMessage, ClientSends, StoreMessage,
      EnqueueFails, TriggerPush, PushFails, RateWindow, Cleanup

(* Nothing is ever written to a socket the worker has closed.              *)
THEOREM RegisteredCorrect == Spec => []RegisteredIsLive
<1>1. Init => RegisteredIsLive
  BY DEF Init, RegisteredIsLive
<1>2. QED
  BY <1>1, RegisteredNext, TypeCorrect, PTL DEF Spec

-----------------------------------------------------------------------------
(* Addressing.  What is on the wire was sent with the JWT of its socket,   *)
(* so the partner the socket forwards to is the one the message names.     *)
SentWithOwnClaim ==
  \A s \in Socket, m \in Message : <<s, m>> \in uplink => s[1] = m[1]

AddressInv == OnlyAddressee /\ SentWithOwnClaim

LEMMA AddressNext == TypeOK /\ RegisteredIsLive /\ AddressInv /\ [Next]_vars => AddressInv'
<1> SUFFICES ASSUME TypeOK, RegisteredIsLive, AddressInv, [Next]_vars
             PROVE  AddressInv'
  OBVIOUS
<1> USE DEF TypeOK, AddressInv, OnlyAddressee, SentWithOwnClaim
<1>1. ASSUME NEW s \in Socket,
             HandleWebSocket(s) \/ CloseEvent(s) \/ DrainFails(s)
               \/ OtherFrame(s) \/ ClientGone(s)
      PROVE  AddressInv'
  BY <1>1 DEF HandleWebSocket, CloseEvent, DrainFails, OtherFrame, ClientGone
<1>2. ASSUME NEW s \in Socket, DrainQueue(s)
      PROVE  AddressInv'
  BY <1>2, SubPairSocket DEF DrainQueue
<1>3. ASSUME NEW s \in Socket, DrainAnswer(s)
      PROVE  AddressInv'
  BY <1>3, SubPairSocket DEF DrainAnswer
<1>4. ASSUME NEW s \in Socket, NEW m \in Message,
             RateLimited(s, m) \/ EnqueueMessage(s, m) \/ ClientSends(s, m)
      PROVE  AddressInv'
  BY <1>4 DEF RateLimited, EnqueueMessage, ClientSends, Handled
<1>5. ASSUME NEW s \in Socket, NEW m \in Message, ForwardMessage(s, m)
      PROVE  AddressInv'
  <2>1. sub(Partner(s)) = pair(m)
    BY <1>5, SubPairSocket DEF ForwardMessage, Handled, pair, RegisteredIsLive
  <2>2. QED
    BY <1>5, <2>1, SubPairMessage DEF ForwardMessage, Handled
<1>6. ASSUME NEW m \in Message, StoreMessage(m) \/ EnqueueFails(m)
      PROVE  AddressInv'
  BY <1>6, SubPairMessage DEF StoreMessage, EnqueueFails, Stored
<1>7. ASSUME NEW m \in Message, TriggerPush(m) \/ PushFails(m)
      PROVE  AddressInv'
  BY <1>7 DEF TriggerPush, PushFails
<1>8. ASSUME NEW d \in Device, RateWindow(d)
      PROVE  AddressInv'
  BY <1>8 DEF RateWindow
<1>9. ASSUME NEW d \in Device, Cleanup(d)
      PROVE  AddressInv'
  BY <1>9 DEF Cleanup
<1>10. CASE UNCHANGED vars
  BY <1>10 DEF vars
<1>11. QED
  BY <1>1, <1>2, <1>3, <1>4, <1>5, <1>6, <1>7, <1>8, <1>9, <1>10
  DEF Next, HandleMessage

LEMMA AddressCorrect == Spec => []AddressInv
<1>1. Init => AddressInv
  BY DEF Init, AddressInv, OnlyAddressee, SentWithOwnClaim
<1>2. QED
  BY <1>1, AddressNext, TypeCorrect, RegisteredCorrect, PTL DEF Spec

(* A message is stored for, drained for and received by its addressee only.*)
THEOREM OnlyAddresseeCorrect == Spec => []OnlyAddressee
<1>1. AddressInv => OnlyAddressee
  BY DEF AddressInv
<1>2. QED
  BY <1>1, AddressCorrect, PTL

-----------------------------------------------------------------------------
(* At most one copy of a message.  Where(m) is a set of places; the        *)
(* inductive form says it place by place: a message waiting with its       *)
(* sender, on the wire, in a call, in a queue, in a batch or received is   *)
(* in no other of these places, and each kind of place holds it once.      *)
OnWire(m) == \E s \in Socket : <<s, m>> \in uplink
InBatch(m) == \E s \in Socket : m \in batch[s]
InQueue(m) == m \in queue[pair(m)]
Arrived(m) == m \in received[pair(m)]

Exclusive(m) ==
  /\ m \in unsent => ~ OnWire(m) /\ m \notin enqueuing /\ ~ InBatch(m)
                     /\ ~ InQueue(m) /\ ~ Arrived(m)
  /\ OnWire(m) => m \notin enqueuing /\ ~ InBatch(m)
                   /\ ~ InQueue(m) /\ ~ Arrived(m)
  /\ m \in enqueuing => ~ InBatch(m) /\ ~ InQueue(m) /\ ~ Arrived(m)
  /\ InBatch(m) => ~ InQueue(m) /\ ~ Arrived(m)
  /\ InQueue(m) => ~ Arrived(m)
  /\ \A s, t \in Socket : <<s, m>> \in uplink /\ <<t, m>> \in uplink => s = t
  /\ \A s, t \in Socket : m \in batch[s] /\ m \in batch[t] => s = t
  /\ \A s \in Socket : m \in batch[s] => drain[s] = "answered"

FreshIsIdle == \A s \in Socket : ws[s] = "fresh" => drain[s] = "idle"

CopyInv == FreshIsIdle /\ \A m \in Message : Exclusive(m)

(* A step may take a message out of places but puts it nowhere new.        *)
LEMMA OnlyLeaves ==
  ASSUME NEW m \in Message, Exclusive(m),
         m \in unsent' => m \in unsent,
         \A s \in Socket : <<s, m>> \in uplink' => <<s, m>> \in uplink,
         m \in enqueuing' => m \in enqueuing,
         InQueue(m)' => InQueue(m),
         Arrived(m)' => Arrived(m),
         \A s \in Socket : m \in batch'[s] =>
           m \in batch[s] /\ drain'[s] = "answered"
  PROVE  Exclusive(m)'
BY DEF Exclusive, OnWire, InBatch

(* The message moves from the place of the first to that of the second.    *)
LEMMA Moves ==
  ASSUME NEW m \in Message, Exclusive(m),
         m \in unsent \/ OnWire(m) \/ m \in enqueuing \/ InBatch(m) \/ InQueue(m),
         \/ /\ m \notin unsent' /\ m \notin enqueuing'
            /\ ~ OnWire(m)' /\ ~ InBatch(m)' /\ ~ InQueue(m)'
         \/ /\ m \notin unsent' /\ m \notin enqueuing'
            /\ ~ OnWire(m)' /\ ~ InBatch(m)' /\ ~ Arrived(m)'
         \/ /\ m \notin unsent' /\ ~ Arrived(m)'
            /\ ~ OnWire(m)' /\ ~ InBatch(m)' /\ ~ InQueue(m)'
  PROVE  Exclusive(m)'
BY DEF Exclusive, OnWire, InBatch

LEMMA CopyInit == Init => CopyInv
BY SubPairMessage
DEF Init, CopyInv, FreshIsIdle, Exclusive, OnWire, InBatch, InQueue, Arrived

LEMMA FreshNext == TypeOK /\ FreshIsIdle /\ [Next]_vars => FreshIsIdle'
BY DEF TypeOK, FreshIsIdle, Next, vars, HandleMessage, HandleWebSocket, CloseEvent,
  DrainQueue, DrainAnswer, DrainFails, OtherFrame, ClientGone, RateLimited,
  ForwardMessage, EnqueueMessage, ClientSends, StoreMessage, EnqueueFails,
  TriggerPush, PushFails, RateWindow, Cleanup

LEMMA CopyNext ==
  TypeOK /\ RegisteredIsLive /\ AddressInv /\ CopyInv /\ [Next]_vars => CopyInv'
<1> SUFFICES ASSUME TypeOK, RegisteredIsLive, AddressInv, CopyInv,
                    [Next]_vars, NEW m \in Message
             PROVE  Exclusive(m)'
  BY FreshNext DEF CopyInv
<1> USE SubPairSocket, SubPairMessage DEF TypeOK
<1>0. Exclusive(m) /\ FreshIsIdle
  BY DEF CopyInv
<1>1. ASSUME NEW s \in Socket, HandleWebSocket(s)
      PROVE  Exclusive(m)'
  <2>1. m \notin batch[s]
    BY <1>0, <1>1 DEF HandleWebSocket, FreshIsIdle, Exclusive
  <2>2. QED
    BY <1>0, <1>1, <2>1, OnlyLeaves
    DEF HandleWebSocket, Exclusive, InQueue, Arrived
<1>2. ASSUME NEW s \in Socket, CloseEvent(s)
      PROVE  Exclusive(m)'
  BY <1>0, <1>2, OnlyLeaves DEF CloseEvent, Exclusive, InQueue, Arrived
<1>3. ASSUME NEW s \in Socket, DrainQueue(s)
      PROVE  Exclusive(m)'
  <2>1. /\ \A t \in Socket : batch'[t] = IF t = s THEN queue[sub(s)] ELSE batch[t]
        /\ \A d \in Device : queue'[d] = IF d = sub(s) THEN {} ELSE queue[d]
        /\ \A t \in Socket : drain'[t] = IF t = s THEN "answered" ELSE drain[t]
        /\ UNCHANGED <<unsent, uplink, enqueuing, received>>
    BY <1>3 DEF DrainQueue
  <2>2. m \notin batch[s]
    BY <1>0, <1>3 DEF DrainQueue, Exclusive
  <2>3. CASE m \in queue[sub(s)]
    <3>1. pair(m) = sub(s) /\ InQueue(m)
      BY <2>3 DEF AddressInv, OnlyAddressee, InQueue
    <3>2. \A t \in Socket : m \in batch'[t] <=> t = s
      BY <1>0, <2>1, <2>3, <3>1 DEF Exclusive, InBatch
    <3>3. ~ InQueue(m)' /\ ~ Arrived(m)' /\ ~ OnWire(m)'
          /\ m \notin unsent' /\ m \notin enqueuing'
      BY <1>0, <2>1, <3>1 DEF Exclusive, OnWire, InQueue, Arrived
    <3>4. QED
      BY <2>1, <3>2, <3>3 DEF Exclusive, InBatch, OnWire
  <2>4. CASE m \notin queue[sub(s)]
    BY <1>0, <2>1, <2>2, <2>4, OnlyLeaves DEF Exclusive, InQueue, Arrived
  <2>5. QED
    BY <2>3, <2>4
<1>4. ASSUME NEW s \in Socket, DrainAnswer(s)
      PROVE  Exclusive(m)'
  <2>1. /\ \A t \in Socket : batch'[t] = IF t = s THEN {} ELSE batch[t]
        /\ \A d \in Device :
             \/ received'[d] = received[d]
             \/ d = sub(s) /\ received'[d] = received[d] \cup batch[s]
        /\ \A t \in Socket : drain'[t] = IF t = s THEN "idle" ELSE drain[t]
        /\ UNCHANGED <<unsent, uplink, enqueuing, queue>>
    BY <1>4 DEF DrainAnswer
  <2>2. CASE m \in batch[s]
    <3>1. ~ InBatch(m)'
      BY <1>0, <2>1, <2>2 DEF Exclusive, InBatch
    <3>2. m \notin unsent' /\ m \notin enqueuing' /\ ~ OnWire(m)' /\ ~ InQueue(m)'
      BY <1>0, <2>1, <2>2 DEF Exclusive, InBatch, OnWire, InQueue
    <3>3. QED
      BY <1>0, <2>2, <3>1, <3>2, Moves DEF InBatch
  <2>3. CASE m \notin batch[s]
    BY <1>0, <2>1, <2>3, OnlyLeaves DEF Exclusive, InQueue, Arrived
  <2>4. QED
    BY <2>2, <2>3
<1>5. ASSUME NEW s \in Socket, DrainFails(s)
      PROVE  Exclusive(m)'
  BY <1>0, <1>5, OnlyLeaves DEF DrainFails, Exclusive, InQueue, Arrived
<1>6. ASSUME NEW s \in Socket, OtherFrame(s) \/ ClientGone(s)
      PROVE  Exclusive(m)'
  BY <1>0, <1>6, OnlyLeaves DEF OtherFrame, ClientGone, Exclusive, InQueue, Arrived
<1>7. ASSUME NEW s \in Socket, NEW n \in Message, RateLimited(s, n)
      PROVE  Exclusive(m)'
  BY <1>0, <1>7, OnlyLeaves DEF RateLimited, Handled, Exclusive, InQueue, Arrived
<1>8. ASSUME NEW s \in Socket, NEW n \in Message, ForwardMessage(s, n)
      PROVE  Exclusive(m)'
  <2>1. sub(Partner(s)) = pair(n) /\ <<s, n>> \in uplink
    BY <1>8 DEF ForwardMessage, Handled, AddressInv, SentWithOwnClaim, pair,
                RegisteredIsLive
  <2>2. /\ uplink' = uplink \ {<<s, n>>}
        /\ \A d \in Device :
             \/ received'[d] = received[d]
             \/ d = pair(n) /\ received'[d] = received[d] \cup {n}
        /\ UNCHANGED <<unsent, enqueuing, queue, batch, drain>>
    BY <1>8, <2>1 DEF ForwardMessage, Handled
  <2>3. CASE m = n
    <3>1. ~ OnWire(m)'
      BY <1>0, <2>1, <2>2, <2>3 DEF Exclusive, OnWire
    <3>2. m \notin unsent' /\ m \notin enqueuing' /\ ~ InBatch(m)' /\ ~ InQueue(m)'
      BY <1>0, <2>1, <2>2, <2>3 DEF Exclusive, InBatch, OnWire, InQueue
    <3>3. QED
      BY <1>0, <2>1, <2>3, <3>1, <3>2, Moves DEF OnWire
  <2>4. CASE m # n
    BY <1>0, <2>2, <2>4, OnlyLeaves DEF Exclusive, InQueue, Arrived
  <2>5. QED
    BY <2>3, <2>4
<1>9. ASSUME NEW s \in Socket, NEW n \in Message, EnqueueMessage(s, n)
      PROVE  Exclusive(m)'
  <2>1. CASE m = n
    BY <1>0, <1>9, <2>1, Moves
    DEF EnqueueMessage, Handled, Exclusive, OnWire, InBatch, InQueue, Arrived
  <2>2. CASE m # n
    BY <1>0, <1>9, <2>2, OnlyLeaves
    DEF EnqueueMessage, Handled, Exclusive, InQueue, Arrived
  <2>3. QED
    BY <2>1, <2>2
<1>10. ASSUME NEW s \in Socket, NEW n \in Message, ClientSends(s, n)
       PROVE  Exclusive(m)'
  <2>1. CASE m = n
    BY <1>0, <1>10, <2>1
    DEF ClientSends, Exclusive, OnWire, InBatch, InQueue, Arrived
  <2>2. CASE m # n
    BY <1>0, <1>10, <2>2, OnlyLeaves DEF ClientSends, Exclusive, InQueue, Arrived
  <2>3. QED
    BY <2>1, <2>2
<1>11. ASSUME NEW n \in Message, StoreMessage(n) \/ EnqueueFails(n)
       PROVE  Exclusive(m)'
  <2>1. /\ n \in enqueuing
        /\ enqueuing' = enqueuing \ {n}
        /\ \A d \in Device :
             \/ queue'[d] = queue[d]
             \/ d = pair(n) /\ queue'[d] = queue[d] \cup {n}
        /\ UNCHANGED <<unsent, uplink, batch, drain, received>>
    BY <1>11 DEF StoreMessage, EnqueueFails, Stored
  <2>2. CASE m = n
    <3>1. m \notin unsent' /\ m \notin enqueuing' /\ ~ OnWire(m)'
          /\ ~ InBatch(m)' /\ ~ Arrived(m)'
      BY <1>0, <2>1, <2>2 DEF Exclusive, OnWire, InBatch, Arrived
    <3>2. QED
      BY <1>0, <2>1, <2>2, <3>1, Moves
  <2>3. CASE m # n
    BY <1>0, <2>1, <2>3, OnlyLeaves DEF Exclusive, InQueue, Arrived
  <2>4. QED
    BY <2>2, <2>3
<1>12. ASSUME NEW n \in Message, TriggerPush(n) \/ PushFails(n)
       PROVE  Exclusive(m)'
  BY <1>0, <1>12, OnlyLeaves DEF TriggerPush, PushFails, Exclusive, InQueue, Arrived
<1>13. ASSUME NEW d \in Device, RateWindow(d) \/ Cleanup(d)
       PROVE  Exclusive(m)'
  BY <1>0, <1>13, OnlyLeaves DEF RateWindow, Cleanup, Exclusive, InQueue, Arrived
<1>14. CASE UNCHANGED vars
  BY <1>0, <1>14, OnlyLeaves DEF vars, Exclusive, InQueue, Arrived
<1>15. QED
  BY <1>1, <1>2, <1>3, <1>4, <1>5, <1>6, <1>7, <1>8, <1>9, <1>10, <1>11,
     <1>12, <1>13, <1>14
  DEF Next, HandleMessage

(* The places of Where are the places of Exclusive.                        *)
LEMMA WherePlaces ==
  ASSUME TypeOK, AddressInv, NEW m \in Message, NEW p \in Where(m)
  PROVE  \/ m \in unsent /\ p = <<"unsent", m[1]>>
         \/ \E s \in Socket : <<s, m>> \in uplink /\ p = <<"uplink", s>>
         \/ m \in enqueuing /\ p = <<"call", m[1]>>
         \/ InQueue(m) /\ p = <<"queue", pair(m)>>
         \/ \E s \in Socket : m \in batch[s] /\ p = <<"batch", s>>
         \/ Arrived(m) /\ p = <<"received", pair(m)>>
BY SubPairMessage
DEF TypeOK, AddressInv, OnlyAddressee, Where, InQueue, Arrived

LEMMA CopyImplies == TypeOK /\ AddressInv /\ CopyInv => OneCopy
<1> SUFFICES ASSUME TypeOK, AddressInv, CopyInv, NEW m \in Message,
                    NEW p \in Where(m), NEW q \in Where(m)
             PROVE  p = q
  BY DEF OneCopy
<1>1. Exclusive(m)
  BY DEF CopyInv
<1>2. CASE m \in unsent /\ p = <<"unsent", m[1]>>
  BY <1>1, <1>2, WherePlaces DEF Exclusive, OnWire, InBatch
<1>3. CASE \E s \in Socket : <<s, m>> \in uplink /\ p = <<"uplink", s>>
  BY <1>1, <1>3, WherePlaces DEF Exclusive, OnWire, InBatch
<1>4. CASE m \in enqueuing /\ p = <<"call", m[1]>>
  BY <1>1, <1>4, WherePlaces DEF Exclusive, OnWire, InBatch
<1>5. CASE InQueue(m) /\ p = <<"queue", pair(m)>>
  BY <1>1, <1>5, WherePlaces DEF Exclusive, OnWire, InBatch
<1>6. CASE \E s \in Socket : m \in batch[s] /\ p = <<"batch", s>>
  BY <1>1, <1>6, WherePlaces DEF Exclusive, OnWire, InBatch
<1>7. CASE Arrived(m) /\ p = <<"received", pair(m)>>
  BY <1>1, <1>7, WherePlaces DEF Exclusive, OnWire, InBatch
<1>8. QED
  BY <1>2, <1>3, <1>4, <1>5, <1>6, <1>7, WherePlaces

LEMMA CopyCorrect == Spec => []CopyInv
BY CopyInit, CopyNext, TypeCorrect, RegisteredCorrect, AddressCorrect, PTL DEF Spec

(* Connects, replacements, drains, enqueues, failures and expiry together  *)
(* never make a second copy of a message.                                  *)
THEOREM OneCopyCorrect == Spec => []OneCopy
BY CopyCorrect, CopyImplies, TypeCorrect, AddressCorrect, PTL

-----------------------------------------------------------------------------
(* Presence.  When every JWT has its counterpart and every device one      *)
(* JWT, the partner of a socket's partner is the socket's own device.      *)
LEMMA PartnerOfPartner ==
  ASSUME Mutual, SinglePairing, NEW s \in Socket, NEW t \in Socket
  PROVE  pair(t) = sub(s) <=> pair(s) = sub(t)
<1>1. PICK a \in Device, b \in Device : s[1] = <<a, b>> /\ <<a, b>> \in Claims
  BY SocketAssumption, ClaimsAssumption
<1>2. PICK c \in Device, e \in Device : t[1] = <<c, e>> /\ <<c, e>> \in Claims
  BY SocketAssumption, ClaimsAssumption
<1>3. <<b, a>> \in Claims /\ <<e, c>> \in Claims
  BY <1>1, <1>2 DEF Mutual
<1>4. ASSUME e = a PROVE b = c
  BY <1>1, <1>3, <1>4 DEF SinglePairing
<1>5. ASSUME b = c PROVE e = a
  BY <1>2, <1>3, <1>5 DEF SinglePairing
<1>6. QED
  BY <1>1, <1>2, <1>4, <1>5 DEF sub, pair

(* A socket that has not connected yet was told nothing: when it registers *)
(* without a partner, its client still believes the partner to be away.    *)
FreshUntold == \A s \in Socket : ws[s] = "fresh" => view[s] = "none"

LEMMA UntoldNext == TypeOK /\ FreshUntold /\ [Next]_vars => FreshUntold'
<1> SUFFICES ASSUME TypeOK, FreshUntold, [Next]_vars
             PROVE  FreshUntold'
  OBVIOUS
<1> USE DEF TypeOK, FreshUntold
<1>1. ASSUME NEW s \in Socket, HandleWebSocket(s)
      PROVE  FreshUntold'
  BY <1>1 DEF HandleWebSocket, Tell, Hears
<1>2. ASSUME NEW s \in Socket, CloseEvent(s)
      PROVE  FreshUntold'
  BY <1>2 DEF CloseEvent, Tell, Hears
<1>3. ASSUME NEW s \in Socket, ClientGone(s)
      PROVE  FreshUntold'
  BY <1>3 DEF ClientGone
<1>4. CASE UNCHANGED <<ws, view>>
  BY <1>4
<1>5. QED
  BY <1>1, <1>2, <1>3, <1>4
  DEF Next, vars, HandleMessage, DrainQueue, DrainAnswer, DrainFails, OtherFrame,
      RateLimited, ForwardMessage, EnqueueMessage, ClientSends, StoreMessage,
      EnqueueFails, TriggerPush, PushFails, RateWindow, Cleanup

LEMMA PresenceNext ==
  TypeOK /\ RegisteredIsLive /\ FreshUntold /\ PresenceMatchesTable /\ [Next]_vars
    => PresenceMatchesTable'
<1> SUFFICES ASSUME TypeOK, RegisteredIsLive, FreshUntold, PresenceMatchesTable,
                    [Next]_vars, Mutual, SinglePairing,
                    NEW d \in Device, Hears(connected[d])'
             PROVE  view'[connected'[d]] = "online"
                      <=> connected'[pair(connected'[d])] # NoSocket
  BY DEF PresenceMatchesTable
<1> DEFINE t == connected'[d]
<1> USE DEF TypeOK
<1>0. Hears(connected[d]) => (view[connected[d]] = "online"
                               <=> connected[pair(connected[d])] # NoSocket)
  BY DEF PresenceMatchesTable
<1>1. ASSUME NEW s \in Socket, HandleWebSocket(s)
      PROVE  view'[t] = "online" <=> connected'[pair(t)] # NoSocket
  <2> USE SubPairSocket
  <2>1. CASE d = sub(s)
    <3>1. t = s /\ connected'[pair(t)] = Partner(s)
      BY <1>1, <2>1 DEF HandleWebSocket
    <3>2. CASE Partner(s) = NoSocket
      BY <1>1, <3>1, <3>2 DEF HandleWebSocket, FreshUntold
    <3>3. CASE Partner(s) # NoSocket
      <4>1. view'[s] = "online"
        BY <1>1, <3>3, TellType DEF HandleWebSocket, View
      <4>2. QED
        BY <3>1, <3>3, <4>1
    <3>4. QED
      BY <3>2, <3>3
  <2>2. CASE d # sub(s)
    <3>1. t = connected[d] /\ t \in Socket /\ sub(t) = d /\ t # s
      BY <1>1, <2>2 DEF HandleWebSocket, Hears, RegisteredIsLive
    <3>2. Hears(t)
      BY <1>1, <3>1 DEF HandleWebSocket, Hears
    <3>3. CASE d = pair(s)
      <4>1. t = Partner(s) /\ pair(t) = sub(s)
        BY <3>1, <3>3, PartnerOfPartner
      <4>2. view'[t] = "online"
        BY <1>1, <3>1, <3>2, <4>1 DEF HandleWebSocket, Tell, Hears
      <4>3. connected'[pair(t)] = s
        BY <1>1, <4>1 DEF HandleWebSocket
      <4>4. QED
        BY <4>2, <4>3, NoSocketAssumption
    <3>4. CASE d # pair(s)
      <4>1. pair(t) # sub(s)
        BY <3>1, <3>4, PartnerOfPartner
      <4>2. t # Partner(s)
        BY <3>1, <3>2, <3>4 DEF RegisteredIsLive, Hears
      <4>3. connected'[pair(t)] = connected[pair(t)]
        BY <1>1, <3>1, <4>1 DEF HandleWebSocket
      <4>4. view'[t] = view[t]
        BY <1>1, <3>1, <4>2 DEF HandleWebSocket, Tell
      <4>5. QED
        BY <1>0, <3>1, <3>2, <4>3, <4>4
    <3>5. QED
      BY <3>3, <3>4
  <2>3. QED
    BY <2>1, <2>2
<1>2. ASSUME NEW s \in Socket, CloseEvent(s)
      PROVE  view'[t] = "online" <=> connected'[pair(t)] # NoSocket
  <2> USE SubPairSocket
  <2>1. t = connected[d] /\ t \in Socket /\ d # sub(s) /\ sub(t) = d /\ t # s
    BY <1>2 DEF CloseEvent, Hears, RegisteredIsLive
  <2>2. Hears(t)
    BY <1>2, <2>1 DEF CloseEvent, Hears
  <2>3. CASE d = pair(s)
    <3>1. t = Partner(s) /\ pair(t) = sub(s)
      BY <2>1, <2>3, PartnerOfPartner
    <3>2. QED
      BY <1>2, <2>1, <2>2, <3>1 DEF CloseEvent, Tell
  <2>4. CASE d # pair(s)
    <3>1. pair(t) # sub(s)
      BY <2>1, <2>4, PartnerOfPartner
    <3>2. t # Partner(s)
      BY <2>1, <2>2, <2>4 DEF RegisteredIsLive, Hears
    <3>3. QED
      BY <1>0, <1>2, <2>1, <2>2, <3>1, <3>2 DEF CloseEvent, Tell
  <2>5. QED
    BY <2>3, <2>4
<1>3. ASSUME NEW s \in Socket, ClientGone(s)
      PROVE  view'[t] = "online" <=> connected'[pair(t)] # NoSocket
  BY <1>0, <1>3 DEF ClientGone, Hears
<1>4. CASE UNCHANGED <<ws, connected, view>>
  BY <1>0, <1>4 DEF Hears
<1>5. QED
  BY <1>1, <1>2, <1>3, <1>4
  DEF Next, vars, HandleMessage, DrainQueue, DrainAnswer, DrainFails, OtherFrame,
      RateLimited, ForwardMessage, EnqueueMessage, ClientSends, StoreMessage,
      EnqueueFails, TriggerPush, PushFails, RateWindow, Cleanup

(* Between devices with one pairing each, the client of a registered       *)
(* socket always knows whether its partner is registered, across           *)
(* replacements and the late close events of replaced sockets.             *)
THEOREM PresenceCorrect == Spec => []PresenceMatchesTable
<1>1. Init => FreshUntold /\ PresenceMatchesTable
  BY DEF Init, FreshUntold, PresenceMatchesTable, Hears
<1>2. QED
  BY <1>1, UntoldNext, PresenceNext, TypeCorrect, RegisteredCorrect, PTL DEF Spec

-----------------------------------------------------------------------------
(* A queue never holds more than its capacity: an insert is refused at the *)
(* limit, and the other steps only take messages out.                      *)
QueueBound ==
  \A d \in Device : IsFiniteSet(queue[d]) /\ Cardinality(queue[d]) <= QueueCap

LEMMA StoredBound ==
  ASSUME TypeOK, QueueBound, NEW n \in Message, queue' = Stored(n)
  PROVE  QueueBound'
<1> SUFFICES ASSUME NEW d \in Device
             PROVE  IsFiniteSet(queue'[d]) /\ Cardinality(queue'[d]) <= QueueCap
  BY DEF QueueBound
<1>1. IsFiniteSet(queue[d]) /\ Cardinality(queue[d]) <= QueueCap
  BY DEF QueueBound
<1>2. CASE queue'[d] = queue[d]
  BY <1>1, <1>2
<1>3. CASE queue'[d] # queue[d]
  <2>1. d = pair(n) /\ queue'[d] = queue[d] \cup {n}
    BY <1>3, SubPairMessage DEF Stored, TypeOK
  <2>2. ~ (Cardinality(queue[d]) >= QueueCap)
    BY <1>3, <2>1 DEF Stored, TypeOK
  <2>3. /\ IsFiniteSet(queue[d] \cup {n})
        /\ \/ Cardinality(queue[d] \cup {n}) = Cardinality(queue[d])
           \/ Cardinality(queue[d] \cup {n}) = Cardinality(queue[d]) + 1
    BY <1>1, FS_AddElement
  <2>4. Cardinality(queue[d]) \in Nat
    BY <1>1, FS_CardinalityType
  <2>5. QED
    BY <1>1, <2>1, <2>2, <2>3, <2>4, QueueCapAssumption
<1>4. QED
  BY <1>2, <1>3

LEMMA QueueBoundNext == TypeOK /\ QueueBound /\ [Next]_vars => QueueBound'
<1> SUFFICES ASSUME TypeOK, QueueBound, [Next]_vars
             PROVE  QueueBound'
  OBVIOUS
<1>1. ASSUME \A d \in Device : queue'[d] \subseteq queue[d]
      PROVE  QueueBound'
  <2> SUFFICES ASSUME NEW d \in Device
               PROVE  IsFiniteSet(queue'[d]) /\ Cardinality(queue'[d]) <= QueueCap
    BY DEF QueueBound
  <2>1. IsFiniteSet(queue[d]) /\ Cardinality(queue[d]) <= QueueCap
    BY DEF QueueBound
  <2>2. /\ IsFiniteSet(queue'[d])
        /\ Cardinality(queue'[d]) <= Cardinality(queue[d])
    BY <1>1, <2>1, FS_Subset
  <2>3. Cardinality(queue[d]) \in Nat /\ Cardinality(queue'[d]) \in Nat
    BY <2>1, <2>2, FS_CardinalityType
  <2>4. QED
    BY <2>1, <2>2, <2>3, QueueCapAssumption
<1>2. ASSUME NEW s \in Socket, DrainQueue(s)
      PROVE  QueueBound'
  BY <1>1, <1>2, SubPairSocket DEF DrainQueue, TypeOK
<1>3. ASSUME NEW n \in Message, StoreMessage(n) \/ EnqueueFails(n)
      PROVE  QueueBound'
  BY <1>1, <1>3, StoredBound DEF StoreMessage, EnqueueFails
<1>4. ASSUME NEW d \in Device, Cleanup(d)
      PROVE  QueueBound'
  BY <1>1, <1>4 DEF Cleanup, TypeOK
<1>5. CASE UNCHANGED queue
  BY <1>1, <1>5
<1>6. QED
  BY <1>2, <1>3, <1>4, <1>5
  DEF Next, vars, HandleMessage, HandleWebSocket, CloseEvent, DrainAnswer,
      DrainFails, OtherFrame, ClientGone, RateLimited, ForwardMessage,
      EnqueueMessage, ClientSends, TriggerPush, PushFails, RateWindow

LEMMA QueueBoundCorrect == Spec => []QueueBound
<1>1. Init => QueueBound
  BY FS_EmptySet, QueueCapAssumption DEF Init, QueueBound
<1>2. QED
  BY <1>1, QueueBoundNext, TypeCorrect, PTL DEF Spec

-----------------------------------------------------------------------------
(* Losses.  A message is lost when it is in none of the places of Where.   *)
Present(m) ==
  \/ m \in unsent \/ m \in enqueuing \/ OnWire(m) \/ InBatch(m)
  \/ \E d \in Device : m \in queue[d]
  \/ \E d \in Device : m \in received[d]

LEMMA WherePresent ==
  ASSUME NEW m \in Message
  PROVE  (Where(m) # {} <=> Present(m)) /\ (Where(m)' # {} <=> Present(m)')
<1>1. m[1] \in Claims
  BY MessageAssumption
<1>2. Where(m) # {} <=> Present(m)
  BY <1>1 DEF Where, Present, OnWire, InBatch
<1>3. Where(m)' # {} <=> Present(m)'
  BY <1>1 DEF Where, Present, OnWire, InBatch
<1>4. QED
  BY <1>2, <1>3

(* The causes LossIsExplained names, of a step.                            *)
Explained(m) ==
  \/ \E s \in Socket :
       /\ <<s, m>> \in uplink
       /\ \/ rate[sub(s)] = RateLimit
          \/ ws[s] # "open" \/ ws'[s] # "open"
  \/ /\ connected[pair(m)] # NoSocket
     /\ ws[connected[pair(m)]] = "gone"
  \/ \E s \in Socket : m \in batch[s] /\ ws[s] # "open"
  \/ m \in enqueuing /\ Cardinality(queue[pair(m)]) = QueueCap
  \/ FaultStep

(* Every step that takes a message out of its last place has such a cause. *)
LEMMA LossStep ==
  ASSUME TypeOK, RegisteredIsLive, AddressInv, CopyInv, QueueBound,
         [Next]_vars, NEW m \in Message, Present(m), ~ Present(m)'
  PROVE  Explained(m)
<1> USE SubPairSocket, SubPairMessage DEF TypeOK
<1>0. Exclusive(m)
  BY DEF CopyInv
<1>1. ASSUME UNCHANGED <<unsent, uplink, enqueuing, queue, batch, received>>
      PROVE  FALSE
  BY <1>1 DEF Present, OnWire, InBatch
<1>2. ASSUME NEW s \in Socket,
             HandleWebSocket(s) \/ CloseEvent(s) \/ OtherFrame(s)
      PROVE  FALSE
  BY <1>1, <1>2 DEF HandleWebSocket, CloseEvent, OtherFrame
<1>3. ASSUME NEW s \in Socket, DrainQueue(s)
      PROVE  FALSE
  <2>1. m \notin batch[s]
    BY <1>0, <1>3 DEF DrainQueue, Exclusive
  <2>2. InBatch(m) => InBatch(m)'
    BY <1>3, <2>1 DEF DrainQueue, InBatch
  <2>3. \A d \in Device : m \in queue[d] => m \in queue'[d] \/ m \in batch'[s]
    BY <1>3 DEF DrainQueue
  <2>4. QED
    BY <1>3, <2>2, <2>3 DEF DrainQueue, Present, OnWire, InBatch
<1>4. ASSUME NEW s \in Socket, DrainAnswer(s)
      PROVE  Explained(m)
  <2>1. m \in batch[s]
    BY <1>4 DEF DrainAnswer, Present, OnWire, InBatch
  <2>2. CASE Hears(s)
    BY <1>4, <2>1, <2>2 DEF DrainAnswer, Present
  <2>3. CASE ~ Hears(s)
    BY <2>1, <2>3, NoSocketAssumption DEF Hears, Explained
  <2>4. QED
    BY <2>2, <2>3
<1>5. ASSUME NEW s \in Socket, DrainFails(s)
      PROVE  Explained(m)
  BY <1>5 DEF FaultStep, Explained
<1>6. ASSUME NEW s \in Socket, ClientGone(s)
      PROVE  Explained(m)
  <2>1. <<s, m>> \in uplink
    BY <1>6 DEF ClientGone, Present, OnWire, InBatch
  <2>2. ws'[s] # "open"
    BY <1>6 DEF ClientGone
  <2>3. QED
    BY <2>1, <2>2 DEF Explained
<1>7. ASSUME NEW s \in Socket, NEW n \in Message, RateLimited(s, n)
      PROVE  Explained(m)
  <2>1. <<s, m>> \in uplink
    BY <1>7 DEF RateLimited, Handled, Present, OnWire, InBatch
  <2>2. rate[sub(s)] = RateLimit
    BY <1>7, RateLimitAssumption DEF RateLimited, Allowed
  <2>3. QED
    BY <2>1, <2>2 DEF Explained
<1>8. ASSUME NEW s \in Socket, NEW n \in Message, ForwardMessage(s, n)
      PROVE  Explained(m)
  <2>1. m = n
    BY <1>8 DEF ForwardMessage, Handled, Present, OnWire, InBatch
  <2>2. Partner(s) = connected[pair(m)] /\ Partner(s) # NoSocket
    BY <1>8, <2>1 DEF ForwardMessage, Handled, AddressInv, SentWithOwnClaim, pair
  <2>3. sub(Partner(s)) = pair(m) /\ ws[Partner(s)] \in {"open", "gone"}
    BY <2>2 DEF RegisteredIsLive
  <2>4. ~ Hears(Partner(s))
    BY <1>8, <2>1, <2>3 DEF ForwardMessage, Present
  <2>5. QED
    BY <2>2, <2>3, <2>4 DEF Hears, Explained
<1>9. ASSUME NEW s \in Socket, NEW n \in Message,
             EnqueueMessage(s, n) \/ ClientSends(s, n)
      PROVE  FALSE
  BY <1>9 DEF EnqueueMessage, ClientSends, Handled, Present, OnWire, InBatch
<1>10. ASSUME NEW n \in Message, StoreMessage(n)
       PROVE  Explained(m)
  <2>1. m = n
    BY <1>10 DEF StoreMessage, Stored, Present, OnWire, InBatch
  <2>2. Cardinality(queue[pair(m)]) >= QueueCap
    BY <1>10, <2>1 DEF StoreMessage, Stored, Present
  <2>3. Cardinality(queue[pair(m)]) <= QueueCap /\ Cardinality(queue[pair(m)]) \in Nat
    BY FS_CardinalityType DEF QueueBound
  <2>4. Cardinality(queue[pair(m)]) = QueueCap
    BY <2>2, <2>3, QueueCapAssumption
  <2>5. QED
    BY <1>10, <2>1, <2>4 DEF StoreMessage, Explained
<1>11. ASSUME NEW n \in Message, EnqueueFails(n)
       PROVE  Explained(m)
  BY <1>11 DEF FaultStep, Explained
<1>12. ASSUME NEW n \in Message, TriggerPush(n) \/ PushFails(n)
       PROVE  FALSE
  BY <1>1, <1>12 DEF TriggerPush, PushFails
<1>13. ASSUME NEW d \in Device, RateWindow(d)
       PROVE  FALSE
  BY <1>1, <1>13 DEF RateWindow
<1>14. ASSUME NEW d \in Device, Cleanup(d)
       PROVE  Explained(m)
  BY <1>14 DEF FaultStep, Explained
<1>15. CASE UNCHANGED vars
  BY <1>1, <1>15 DEF vars
<1>16. QED
  BY <1>2, <1>3, <1>4, <1>5, <1>6, <1>7, <1>8, <1>9, <1>10, <1>11, <1>12,
     <1>13, <1>14, <1>15
  DEF Next, HandleMessage

(* Without a failed call or an expiry, a message is lost only by the rate  *)
(* limit, a departed sender, a dead or closed socket, or a full queue.     *)
THEOREM LossExplained == Spec => LossIsExplained
<1>1. TypeOK /\ RegisteredIsLive /\ AddressInv /\ CopyInv /\ QueueBound /\ [Next]_vars
        => [\A m \in Message : Where(m) # {} /\ Where(m)' = {} => Explained(m)]_vars
  BY LossStep, WherePresent
<1>2. QED
  BY <1>1, TypeCorrect, RegisteredCorrect, AddressCorrect, CopyCorrect,
     QueueBoundCorrect, PTL DEF Spec, LossIsExplained, Explained

-----------------------------------------------------------------------------
(* The relay implements MailContract.  A message that has left its sender  *)
(* and has neither arrived nor been lost is on the wire, in a call, in the *)
(* queue of its addressee or in the batch of a drain.                      *)
Underway(m) == m \in enqueuing \/ OnWire(m) \/ InBatch(m) \/ InQueue(m)

PhaseByPlace(m) ==
  IF m \in unsent THEN "unsent"
  ELSE IF Arrived(m) THEN "delivered"
  ELSE IF Underway(m) THEN "held" ELSE "lost"

PhaseInv == \A m \in Message : Phase(m) = PhaseByPlace(m)

LEMMA PhaseImplied == TypeOK /\ AddressInv /\ CopyInv => PhaseInv
<1> SUFFICES ASSUME TypeOK, AddressInv, CopyInv, NEW m \in Message
             PROVE  Phase(m) = PhaseByPlace(m)
  BY DEF PhaseInv
<1>1. Exclusive(m) /\ m[1] \in Claims /\ pair(m) \in Device
  BY MessageAssumption, SubPairMessage DEF CopyInv
<1>2. \A p, q \in Where(m) : p = q
  BY CopyImplies DEF OneCopy
<1>3. CASE m \in unsent
  <2>1. <<"unsent", m[1]>> \in Where(m)
    BY <1>1, <1>3 DEF Where
  <2>2. QED
    BY <1>2, <1>3, <2>1 DEF Phase, PhaseByPlace
<1>4. CASE m \notin unsent /\ Arrived(m)
  <2>1. <<"received", pair(m)>> \in Where(m)
    BY <1>1, <1>4 DEF Where, Arrived
  <2>2. Where(m) = {<<"received", pair(m)>>}
    BY <1>2, <2>1
  <2>3. <<"received", pair(m)>> # <<"unsent", m[1]>>
    OBVIOUS
  <2>4. QED
    BY <1>4, <2>2, <2>3 DEF Phase, PhaseByPlace
<1>5. CASE m \notin unsent /\ ~ Arrived(m) /\ Underway(m)
  <2>1. Where(m) # {}
    BY <1>1, <1>5 DEF Where, Underway, OnWire, InBatch, InQueue
  <2>2. <<"unsent", m[1]>> \notin Where(m) /\ <<"received", pair(m)>> \notin Where(m)
    BY <1>5 DEF Where, Arrived
  <2>3. QED
    BY <1>2, <1>5, <2>1, <2>2 DEF Phase, PhaseByPlace
<1>6. CASE m \notin unsent /\ ~ Arrived(m) /\ ~ Underway(m)
  <2>1. Where(m) = {}
    BY <1>6, WherePlaces DEF Underway, OnWire, InBatch
  <2>2. QED
    BY <1>6, <2>1 DEF Phase, PhaseByPlace
<1>7. QED
  BY <1>3, <1>4, <1>5, <1>6

(* What a step does to the phases of the messages it touches.              *)
Keeps(m) == PhaseByPlace(m)' = PhaseByPlace(m)
Delivers(m) == PhaseByPlace(m) = "held" /\ PhaseByPlace(m)' = "delivered"
Loses(m) == PhaseByPlace(m) = "held" /\ PhaseByPlace(m)' = "lost"

ContractStep ==
  \/ \A m \in Message : Keeps(m) \/ Delivers(m)
  \/ \A m \in Message : Keeps(m) \/ Loses(m)
  \/ \E n \in Message :
       /\ PhaseByPlace(n) = "unsent" /\ PhaseByPlace(n)' = "held"
       /\ \A m \in Message \ {n} : Keeps(m)

LEMMA PhaseStep ==
  TypeOK /\ RegisteredIsLive /\ AddressInv /\ CopyInv /\ [Next]_vars => ContractStep
<1> SUFFICES ASSUME TypeOK, RegisteredIsLive, AddressInv, CopyInv, [Next]_vars
             PROVE  ContractStep
  OBVIOUS
<1> USE SubPairSocket, SubPairMessage DEF TypeOK
<1>0. \A m \in Message : Exclusive(m)
  BY DEF CopyInv
<1>1. ASSUME UNCHANGED <<unsent, uplink, enqueuing, queue, batch, received>>
      PROVE  ContractStep
  BY <1>1 DEF ContractStep, Keeps, PhaseByPlace, Underway, OnWire, InBatch,
              InQueue, Arrived
(* A message that only leaves places, and arrives nowhere, is kept or lost.*)
<1>2. ASSUME UNCHANGED <<unsent, received>>,
             \A m \in Message : ~ Underway(m) => ~ Underway(m)'
      PROVE  ContractStep
  <2>1. ASSUME NEW m \in Message PROVE Keeps(m) \/ Loses(m)
    <3>1. Arrived(m)' <=> Arrived(m)
      BY <1>2 DEF Arrived
    <3>2. QED
      BY <1>2, <3>1 DEF Keeps, Loses, PhaseByPlace
  <2>2. QED
    BY <2>1 DEF ContractStep
<1>3. ASSUME NEW s \in Socket,
             HandleWebSocket(s) \/ CloseEvent(s) \/ OtherFrame(s)
      PROVE  ContractStep
  BY <1>1, <1>3 DEF HandleWebSocket, CloseEvent, OtherFrame
<1>4. ASSUME NEW s \in Socket, DrainQueue(s)
      PROVE  ContractStep
  <2>1. /\ \A t \in Socket : batch'[t] = IF t = s THEN queue[sub(s)] ELSE batch[t]
        /\ \A d \in Device : queue'[d] = IF d = sub(s) THEN {} ELSE queue[d]
        /\ UNCHANGED <<unsent, uplink, enqueuing, received>>
    BY <1>4 DEF DrainQueue
  <2>2. ASSUME NEW m \in Message, ~ Underway(m)
        PROVE  ~ Underway(m)'
    <3>1. m \in queue[sub(s)] => InQueue(m)
      BY DEF AddressInv, OnlyAddressee, InQueue
    <3>2. QED
      BY <2>1, <2>2, <3>1 DEF Underway, OnWire, InBatch, InQueue
  <2>3. QED
    BY <1>2, <2>1, <2>2
<1>5. ASSUME NEW s \in Socket, DrainAnswer(s)
      PROVE  ContractStep
  <2>1. /\ \A t \in Socket : batch'[t] = IF t = s THEN {} ELSE batch[t]
        /\ UNCHANGED <<unsent, uplink, enqueuing, queue>>
    BY <1>5 DEF DrainAnswer
  <2>2. CASE ~ Hears(s)
    <3>1. \A m \in Message : ~ Underway(m) => ~ Underway(m)'
      BY <2>1 DEF Underway, OnWire, InBatch, InQueue
    <3>2. QED
      BY <1>2, <1>5, <2>2, <3>1 DEF DrainAnswer
  <2>3. CASE Hears(s)
    <3>1. \A d \in Device :
            received'[d] = IF d = sub(s) THEN received[d] \cup batch[s] ELSE received[d]
      BY <1>5, <2>3 DEF DrainAnswer
    <3>2. ASSUME NEW m \in Message PROVE Keeps(m) \/ Delivers(m)
      <4>1. CASE m \in batch[s]
        <5>1. sub(s) = pair(m) /\ Arrived(m)'
          BY <3>1, <4>1 DEF AddressInv, OnlyAddressee, Arrived
        <5>2. m \notin unsent /\ ~ Arrived(m) /\ Underway(m)
          BY <1>0, <4>1 DEF Exclusive, InBatch, Underway
        <5>3. QED
          BY <2>1, <5>1, <5>2 DEF Delivers, PhaseByPlace
      <4>2. CASE m \notin batch[s]
        <5>1. (Arrived(m)' <=> Arrived(m)) /\ (Underway(m)' <=> Underway(m))
          BY <2>1, <3>1, <4>2 DEF Arrived, Underway, OnWire, InBatch, InQueue
        <5>2. QED
          BY <2>1, <5>1 DEF Keeps, PhaseByPlace
      <4>3. QED
        BY <4>1, <4>2
    <3>3. QED
      BY <3>2 DEF ContractStep
  <2>4. QED
    BY <2>2, <2>3
<1>6. ASSUME NEW s \in Socket, DrainFails(s) \/ ClientGone(s)
      PROVE  ContractStep
  <2>1. \A m \in Message : ~ Underway(m) => ~ Underway(m)'
    BY <1>6 DEF DrainFails, ClientGone, Underway, OnWire, InBatch, InQueue
  <2>2. QED
    BY <1>2, <1>6, <2>1 DEF DrainFails, ClientGone
<1>7. ASSUME NEW s \in Socket, NEW n \in Message,
             RateLimited(s, n) \/ EnqueueMessage(s, n)
      PROVE  ContractStep
  <2>1. \A m \in Message : ~ Underway(m) => ~ Underway(m)'
    BY <1>7 DEF RateLimited, EnqueueMessage, Handled, Underway, OnWire, InBatch, InQueue
  <2>2. QED
    BY <1>2, <1>7, <2>1 DEF RateLimited, EnqueueMessage, Handled
<1>8. ASSUME NEW s \in Socket, NEW n \in Message, ForwardMessage(s, n)
      PROVE  ContractStep
  <2>1. sub(Partner(s)) = pair(n) /\ <<s, n>> \in uplink
    BY <1>8 DEF ForwardMessage, Handled, AddressInv, SentWithOwnClaim, pair,
                RegisteredIsLive
  <2>2. /\ uplink' = uplink \ {<<s, n>>}
        /\ UNCHANGED <<unsent, enqueuing, queue, batch>>
    BY <1>8 DEF ForwardMessage, Handled
  <2>3. CASE ~ Hears(Partner(s))
    <3>1. \A m \in Message : ~ Underway(m) => ~ Underway(m)'
      BY <2>2 DEF Underway, OnWire, InBatch, InQueue
    <3>2. QED
      BY <1>2, <1>8, <2>3, <3>1 DEF ForwardMessage
  <2>4. CASE Hears(Partner(s))
    <3>1. \A d \in Device :
            received'[d] = IF d = pair(n) THEN received[d] \cup {n} ELSE received[d]
      BY <1>8, <2>1, <2>4 DEF ForwardMessage
    <3>2. Delivers(n)
      <4>1. n \notin unsent /\ ~ Arrived(n) /\ Underway(n) /\ Arrived(n)'
        BY <1>0, <2>1, <3>1 DEF Exclusive, OnWire, Underway, Arrived
      <4>2. QED
        BY <2>2, <4>1 DEF Delivers, PhaseByPlace
    <3>3. ASSUME NEW m \in Message, m # n PROVE Keeps(m)
      <4>1. (Arrived(m)' <=> Arrived(m)) /\ (Underway(m)' <=> Underway(m))
        BY <2>2, <3>1, <3>3 DEF Arrived, Underway, OnWire, InBatch, InQueue
      <4>2. QED
        BY <2>2, <4>1 DEF Keeps, PhaseByPlace
    <3>4. QED
      BY <3>2, <3>3 DEF ContractStep
  <2>5. QED
    BY <2>3, <2>4
<1>9. ASSUME NEW s \in Socket, NEW n \in Message, ClientSends(s, n)
      PROVE  ContractStep
  <2>1. PhaseByPlace(n) = "unsent" /\ PhaseByPlace(n)' = "held"
    BY <1>0, <1>9 DEF ClientSends, PhaseByPlace, Exclusive, Arrived, Underway, OnWire
  <2>2. ASSUME NEW m \in Message \ {n} PROVE Keeps(m)
    BY <1>9 DEF ClientSends, Keeps, PhaseByPlace, Arrived, Underway, OnWire,
                InBatch, InQueue
  <2>3. QED
    BY <2>1, <2>2 DEF ContractStep
<1>10. ASSUME NEW n \in Message, StoreMessage(n) \/ EnqueueFails(n)
       PROVE  ContractStep
  <2>1. /\ n \in enqueuing
        /\ enqueuing' = enqueuing \ {n}
        /\ \A d \in Device :
             \/ queue'[d] = queue[d]
             \/ d = pair(n) /\ queue'[d] = queue[d] \cup {n}
        /\ UNCHANGED <<unsent, uplink, batch, received>>
    BY <1>10 DEF StoreMessage, EnqueueFails, Stored
  <2>2. \A m \in Message : ~ Underway(m) => ~ Underway(m)'
    BY <2>1 DEF Underway, OnWire, InBatch, InQueue
  <2>3. QED
    BY <1>2, <2>1, <2>2
<1>11. ASSUME NEW n \in Message, TriggerPush(n) \/ PushFails(n)
       PROVE  ContractStep
  BY <1>1, <1>11 DEF TriggerPush, PushFails
<1>12. ASSUME NEW d \in Device, RateWindow(d)
       PROVE  ContractStep
  BY <1>1, <1>12 DEF RateWindow
<1>13. ASSUME NEW d \in Device, Cleanup(d)
       PROVE  ContractStep
  <2>1. \A m \in Message : ~ Underway(m) => ~ Underway(m)'
    BY <1>13 DEF Cleanup, Underway, OnWire, InBatch, InQueue
  <2>2. QED
    BY <1>2, <1>13, <2>1 DEF Cleanup
<1>14. CASE UNCHANGED vars
  BY <1>1, <1>14 DEF vars
<1>15. QED
  BY <1>3, <1>4, <1>5, <1>6, <1>7, <1>8, <1>9, <1>10, <1>11, <1>12, <1>13, <1>14
  DEF Next, HandleMessage

(* A step that does this to the phases is a step of MailContract, or none. *)
PhaseMap == [m \in Message |-> Phase(m)]

LEMMA ContractNext ==
  ASSUME PhaseInv, PhaseInv', ContractStep
  PROVE  [Contract!Next]_PhaseMap
<1> USE DEF PhaseInv, PhaseMap
<1>1. ASSUME \A m \in Message : Keeps(m) \/ Delivers(m)
      PROVE  Contract!Next
  <2> DEFINE S == {m \in Message : Delivers(m)}
  <2>1. Contract!Moves(S, "held", "delivered")
    BY <1>1 DEF Contract!Moves, Keeps, Delivers
  <2>2. QED
    BY <2>1 DEF Contract!Next, Contract!Deliver
<1>2. ASSUME \A m \in Message : Keeps(m) \/ Loses(m)
      PROVE  Contract!Next
  <2> DEFINE S == {m \in Message : Loses(m)}
  <2>1. Contract!Moves(S, "held", "lost")
    BY <1>2 DEF Contract!Moves, Keeps, Loses
  <2>2. QED
    BY <2>1 DEF Contract!Next, Contract!Lose
<1>3. ASSUME NEW n \in Message,
             PhaseByPlace(n) = "unsent", PhaseByPlace(n)' = "held",
             \A m \in Message \ {n} : Keeps(m)
      PROVE  Contract!Next
  <2>1. Contract!Moves({n}, "unsent", "held")
    BY <1>3 DEF Contract!Moves, Keeps
  <2>2. QED
    BY <2>1 DEF Contract!Next, Contract!Accept
<1>4. QED
  BY <1>1, <1>2, <1>3 DEF ContractStep

(* The worker, with every fault, implements the mailbox of MailContract:   *)
(* a message is accepted once, then delivered once or lost for good.       *)
THEOREM MailContractCorrect == Spec => MailContractHolds
<1>1. Init => Contract!Init
  <2>1. Init => \A m \in Message : PhaseByPlace(m) = "unsent"
    BY DEF Init, PhaseByPlace
  <2>2. Init => PhaseInv
    BY CopyInit, TypeInit, PhaseImplied, SubPairMessage
    DEF Init, AddressInv, OnlyAddressee, SentWithOwnClaim
  <2>3. QED
    BY <2>1, <2>2 DEF Contract!Init, PhaseInv
<1>2. TypeOK /\ RegisteredIsLive /\ AddressInv /\ CopyInv /\ PhaseInv /\ PhaseInv'
        /\ [Next]_vars => [Contract!Next]_PhaseMap
  BY PhaseStep, ContractNext
<1>3. QED
  BY <1>1, <1>2, PhaseImplied, TypeCorrect, RegisteredCorrect, AddressCorrect,
     CopyCorrect, PTL
  DEF Spec, MailContractHolds, Contract!Spec, PhaseMap
=============================================================================
