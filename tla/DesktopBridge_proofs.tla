------------------------ MODULE DesktopBridge_proofs ------------------------
(* Proofs about the desktop bridge, for any number of sockets and calls    *)
(* and with every fault.  The connection half rests on what the bridge     *)
(* knows of its own sockets (BridgeInv); the call half on where a request  *)
(* or an answer can be at one time (CallInv).  Most actions only move      *)
(* sockets: they are Quiet, and one lemma deals with all of them.          *)
EXTENDS DesktopBridge, TLAPS

USE BoundAssumption, NameAssumption

(* An authenticated socket was accepted, and missedPongs is only beyond    *)
(* its limit once the socket is being terminated.                          *)
AuthedWasAccepted == \A s \in authed : bridgeEnd[s] # "none"
MissedInLimit ==
  socket # NoSocket /\ bridgeEnd[socket] = "open" => missed <= MaxMissedPongs

BridgeInv ==
  /\ TypeOK
  /\ NobodyWaitsAlone
  /\ RegisteredIsLive
  /\ OneAgent
  /\ AuthedWasAccepted
  /\ MissedInLimit

(* A request on its way has not been taken and is on one socket only; an   *)
(* answer on its way is of a tool that has ended; a call that was not sent *)
(* has not started its tool.                                               *)
RequestsAreNew ==
  \A s \in Socket, c \in Call :
    c \in toAgent[s] => tool[c] = "idle" /\ call[c] \notin {"new", "waiting"}
RequestsAreSingle ==
  \A s, t \in Socket, c \in Call : c \in toAgent[s] /\ c \in toAgent[t] => s = t
AnswersAreDone ==
  \A s \in Socket, c \in Call : c \in toBridge[s] => tool[c] = "done"
UnsentIsIdle ==
  \A c \in Call : call[c] \in {"new", "waiting"} => tool[c] = "idle"

CallInv == RequestsAreNew /\ RequestsAreSingle /\ AnswersAreDone /\ UnsentIsIdle

-----------------------------------------------------------------------------
(* What the two writing operators may do to the frames of a socket.        *)
LEMMA ToAgentAdds ==
  ASSUME TypeOK, NEW s \in Socket, NEW f \in Call \cup {"ping"}
  PROVE  /\ ToAgent(s, f) \in [Socket -> SUBSET (Call \cup {"ping"})]
         /\ \A t \in Socket : ToAgent(s, f)[t] \subseteq toAgent[t] \cup {f}
         /\ \A t \in Socket : t # s => ToAgent(s, f)[t] = toAgent[t]
BY DEF ToAgent, TypeOK

LEMMA ToBridgeAdds ==
  ASSUME TypeOK, NEW f \in Call \cup {"auth", "pong"}
  PROVE  /\ ToBridge(f) \in [Socket -> SUBSET (Call \cup {"auth", "pong"})]
         /\ \A t \in Socket : ToBridge(f)[t] \subseteq toBridge[t] \cup {f}
BY DEF ToBridge, TypeOK

(* A connection that breaks, and a name that is used again, lose frames.   *)
LEMMA BreakType ==
  ASSUME TypeOK, NEW S \in SUBSET Socket, Break(S)
  PROVE  /\ cut' \subseteq Socket
         /\ toAgent' \in [Socket -> SUBSET (Call \cup {"ping"})]
         /\ toBridge' \in [Socket -> SUBSET (Call \cup {"auth", "pong"})]
         /\ \A t \in Socket : toAgent'[t] \subseteq toAgent[t] /\ toBridge'[t] \subseteq toBridge[t]
BY DEF Break, TypeOK

LEMMA NewSocketType ==
  ASSUME TypeOK, NEW s \in Socket, NewSocket(s)
  PROVE  /\ bridgeEnd' \in [Socket -> BridgeEnd] /\ authed' \subseteq Socket /\ cut' \subseteq Socket
         /\ toAgent' \in [Socket -> SUBSET (Call \cup {"ping"})]
         /\ toBridge' \in [Socket -> SUBSET (Call \cup {"auth", "pong"})]
         /\ \A t \in Socket : toAgent'[t] \subseteq toAgent[t] /\ toBridge'[t] \subseteq toBridge[t]
BY DEF NewSocket, TypeOK, BridgeEnd

LEMMA BridgeInit == Init => BridgeInv
<1> SUFFICES ASSUME Init
             PROVE  BridgeInv
  OBVIOUS
<1>1. TypeOK
  <2>1. missed \in 0 .. MaxMissedPongs + 1 /\ delay \in 0 .. MaxDelay
    BY DEF Init
  <2>2. /\ bridgeEnd \in [Socket -> BridgeEnd] /\ agentEnd \in [Socket -> AgentEnd]
        /\ call \in [Call -> CallState]
    BY DEF Init, BridgeEnd, AgentEnd, CallState
  <2>3. QED
    BY <2>1, <2>2 DEF Init, TypeOK
<1>2. QED
  BY <1>1 DEF Init, BridgeInv, NobodyWaitsAlone, RegisteredIsLive, OneAgent,
              AuthedWasAccepted, MissedInLimit

-----------------------------------------------------------------------------
(* Type correctness of each kind of step.                                  *)
LEMMA CallStepType ==
  ASSUME BridgeInv, NEW c \in Call, CallStep(c)
  PROVE  TypeOK'
<1> USE DEF BridgeInv
<1>1. ASSUME socket # NoSocket, Dispatch(c),
             UNCHANGED <<up, bridgeEnd, authed, socket, missed, agentVars, toBridge, cut>>
      PROVE  TypeOK'
  <2>1. toAgent' \in [Socket -> SUBSET (Call \cup {"ping"})]
    BY <1>1, ToAgentAdds DEF Dispatch, TypeOK
  <2>2. QED
    BY <1>1, <2>1 DEF Dispatch, TypeOK, agentVars, CallState
<1>2. CASE RouteToolCall(c)
  BY <1>1, <1>2 DEF RouteToolCall, TypeOK, agentVars, CallState
<1>3. CASE PollSucceeds(c)
  BY <1>1, <1>3 DEF PollSucceeds
<1>4. CASE WaitEnds(c) \/ CallTimesOut(c)
  BY <1>4 DEF WaitEnds, CallTimesOut, TimedOut, TypeOK, agentVars, netVars, CallState
<1>5. CASE ToolEnds(c)
  <2>1. toBridge' \in [Socket -> SUBSET (Call \cup {"auth", "pong"})]
    BY <1>5, ToBridgeAdds DEF ToolEnds
  <2>2. QED
    BY <1>5, <2>1 DEF ToolEnds, TypeOK, bridgeVars
<1>6. QED
  BY <1>2, <1>3, <1>4, <1>5 DEF CallStep

LEMMA ClosingType ==
  ASSUME TypeOK, NEW S
  PROVE  /\ Closing(S) \in [Socket -> BridgeEnd]
         /\ \A s \in Socket : Closing(S)[s] = bridgeEnd[s]
                               \/ (bridgeEnd[s] = "open" /\ s \in S /\ Closing(S)[s] = "closing")
         /\ \A s \in Socket : s \in S => Closing(S)[s] # "open"
<1>1. \A s \in Socket : bridgeEnd[s] \in BridgeEnd
  BY DEF TypeOK
<1>2. Closing(S) \in [Socket -> BridgeEnd]
  BY <1>1 DEF Closing, BridgeEnd
<1>3. \A s \in Socket :
        Closing(S)[s] = IF s \in S /\ bridgeEnd[s] = "open" THEN "closing" ELSE bridgeEnd[s]
  BY DEF Closing
<1>4. QED
  BY <1>2, <1>3

LEMMA SocketStepType ==
  ASSUME BridgeInv, NEW s \in Socket, SocketStep(s)
  PROVE  TypeOK'
<1> USE DEF BridgeInv
<1>1. CASE HandleNewConnection(s)
  BY <1>1 DEF HandleNewConnection, TypeOK, BridgeEnd, agentVars, netVars
<1>2. CASE AuthTimeout(s)
  BY <1>2, ClosingType DEF AuthTimeout, TypeOK, agentVars, netVars
<1>3. CASE AuthAccepted(s)
  BY <1>3, ClosingType DEF AuthAccepted, OldClosed, SentOnAuth, Arrives, TypeOK, agentVars
<1>4. CASE AuthRefused(s)
  BY <1>4, ClosingType DEF AuthRefused, Arrives, TypeOK, agentVars
<1>5. CASE Pong(s)
  BY <1>5 DEF Pong, Arrives, TypeOK, agentVars
<1>6. CASE BridgeClosed(s)
  BY <1>6 DEF BridgeClosed, NotRegistered, PendingFailed, TypeOK, BridgeEnd, CallState, agentVars
<1>f. CASE BridgeFails(s)
  BY <1>f, ClosingType DEF BridgeFails, NotRegistered, PendingFailed, TypeOK, CallState, agentVars, netVars
<1>7. CASE Connect(s)
  BY <1>7, NewSocketType DEF Connect, DoConnect, TypeOK, AgentEnd
<1>8. CASE AgentOpens(s)
  BY <1>8 DEF AgentOpens, TypeOK, AgentEnd, bridgeVars
<1>9. CASE AgentClosed(s)
  <2>1. timer' \in BOOLEAN
    BY <1>9 DEF AgentClosed, Scheduled
  <2>2. delay' \in 0 .. MaxDelay
    BY <1>9 DEF AgentClosed, TypeOK
  <2>3. /\ agentEnd' \in [Socket -> AgentEnd]
        /\ toAgent' \in [Socket -> SUBSET (Call \cup {"ping"})]
    BY <1>9 DEF AgentClosed, TypeOK, AgentEnd
  <2>4. QED
    BY <1>9, <2>1, <2>2, <2>3 DEF AgentClosed, TypeOK, bridgeVars
<1>10. CASE ReconnectTimer(s)
  BY <1>10, NewSocketType DEF ReconnectTimer, DoConnect, TypeOK, AgentEnd
<1>11. CASE Ping(s)
  <2>1. toBridge' \in [Socket -> SUBSET (Call \cup {"auth", "pong"})]
    BY <1>11, ToBridgeAdds DEF Ping
  <2>2. QED
    BY <1>11, <2>1 DEF Ping, Received, TypeOK, bridgeVars, agentVars
<1>12. CASE Cut(s)
  BY <1>12, BreakType DEF Cut, TypeOK, bridgeVars, agentVars
<1>13. CASE \E c \in Call : ToolAnswer(s, c)
  BY <1>13 DEF ToolAnswer, Arrives, TypeOK, CallState, agentVars
<1>14. CASE \E c \in Call : ExecuteToolRequest(s, c)
  BY <1>14 DEF ExecuteToolRequest, Received, TypeOK, bridgeVars
<1>15. QED
  BY <1>1, <1>2, <1>3, <1>4, <1>5, <1>6, <1>f, <1>7, <1>8, <1>9, <1>10, <1>11, <1>12,
     <1>13, <1>14 DEF SocketStep

LEMMA OtherStepType ==
  ASSUME BridgeInv, Heartbeat \/ Stop \/ Disconnect \/ StableTimer
  PROVE  TypeOK'
<1> USE DEF BridgeInv
<1>1. CASE Heartbeat
  <2>1. socket \in Socket /\ missed' \in 0 .. MaxMissedPongs + 1
    BY <1>1 DEF Heartbeat, MissedInLimit, TypeOK
  <2>2. CASE TooMany(missed')
    BY <1>1, <2>1, <2>2, ClosingType, BreakType DEF Heartbeat, TypeOK, agentVars
  <2>3. CASE ~ TooMany(missed')
    <3>1. toAgent' \in [Socket -> SUBSET (Call \cup {"ping"})]
      BY <1>1, <2>1, <2>3, ToAgentAdds DEF Heartbeat
    <3>2. QED
      BY <1>1, <2>1, <2>3, <3>1 DEF Heartbeat, TypeOK, agentVars
  <2>4. QED
    BY <2>2, <2>3
<1>2. CASE Stop
  <2>1. call' \in [Call -> CallState]
    BY <1>2 DEF Stop, PendingFailed, TypeOK, CallState
  <2>2. bridgeEnd' \in [Socket -> BridgeEnd]
    BY <1>2, ClosingType DEF Stop
  <2>3. QED
    BY <1>2, <2>1, <2>2, BreakType DEF Stop, TypeOK, agentVars
<1>3. CASE Disconnect
  BY <1>3 DEF Disconnect, TypeOK, AgentEnd, bridgeVars, netVars
<1>4. CASE StableTimer
  <2>1. delay' = 0
    BY <1>4 DEF StableTimer
  <2>2. stable' \in BOOLEAN
    BY <1>4 DEF StableTimer
  <2>3. delay' \in 0 .. MaxDelay
    BY <2>1
  <2>4. QED
    BY <1>4, <2>2, <2>3 DEF StableTimer, TypeOK, bridgeVars, netVars
<1>5. QED
  BY <1>1, <1>2, <1>3, <1>4

LEMMA TypeNext == BridgeInv /\ [Next]_vars => TypeOK'
<1> SUFFICES ASSUME BridgeInv, [Next]_vars
             PROVE  TypeOK'
  OBVIOUS
<1>1. CASE UNCHANGED vars
  BY <1>1 DEF BridgeInv, TypeOK, vars, bridgeVars, agentVars, netVars
<1>2. QED
  BY <1>1, CallStepType, SocketStepType, OtherStepType DEF Next

-----------------------------------------------------------------------------
(* The other parts of BridgeInv.                                           *)
OfBridge ==
  NobodyWaitsAlone /\ RegisteredIsLive /\ OneAgent /\ AuthedWasAccepted /\ MissedInLimit

LEMMA CallStepBridge ==
  ASSUME BridgeInv, NEW c \in Call, CallStep(c)
  PROVE  OfBridge'
<1> USE DEF BridgeInv, OfBridge, NobodyWaitsAlone, RegisteredIsLive, OneAgent,
            AuthedWasAccepted, MissedInLimit
<1>1. CASE RouteToolCall(c)
  BY <1>1 DEF RouteToolCall, Dispatch, TypeOK
<1>2. CASE PollSucceeds(c)
  BY <1>2 DEF PollSucceeds, Dispatch, TypeOK
<1>3. CASE WaitEnds(c)
  BY <1>3 DEF WaitEnds, TypeOK
<1>4. CASE CallTimesOut(c)
  BY <1>4 DEF CallTimesOut, TimedOut, TypeOK
<1>5. CASE ToolEnds(c)
  BY <1>5 DEF ToolEnds, bridgeVars
<1>6. QED
  BY <1>1, <1>2, <1>3, <1>4, <1>5 DEF CallStep

LEMMA SocketStepBridge ==
  ASSUME BridgeInv, NEW s \in Socket, SocketStep(s)
  PROVE  OfBridge'
<1> USE DEF BridgeInv, OfBridge, NobodyWaitsAlone, RegisteredIsLive, OneAgent,
            AuthedWasAccepted, MissedInLimit
<1>1. CASE HandleNewConnection(s)
  BY <1>1 DEF HandleNewConnection, TypeOK
<1>2. CASE AuthTimeout(s) \/ AuthRefused(s)
  <2>1. /\ bridgeEnd' = Closing({s})
        /\ UNCHANGED <<authed, socket, missed, call>>
    BY <1>2 DEF AuthTimeout, AuthRefused
  <2>2. \A t \in Socket : bridgeEnd'[t] = bridgeEnd[t]
                           \/ (bridgeEnd[t] = "open" /\ bridgeEnd'[t] = "closing")
    BY <2>1, ClosingType
  <2>3. authed \subseteq Socket /\ (socket # NoSocket => socket \in Socket)
    BY DEF TypeOK
  <2>4. QED
    BY <2>1, <2>2, <2>3
<1>3. CASE AuthAccepted(s)
  <2>1. /\ authed' = authed \cup {s} /\ socket' = s /\ missed' = 0
        /\ bridgeEnd' = Closing({socket}) /\ call' = call
        /\ bridgeEnd[s] \in {"open", "closing"}
    BY <1>3 DEF AuthAccepted, OldClosed, Arrives
  <2>2. s # NoSocket /\ \A t \in authed : t \in Socket
    BY DEF TypeOK, Socket
  <2>3. bridgeEnd'[s] \in {"open", "closing"}
    BY <2>1, ClosingType
  <2>4. \A t \in authed : bridgeEnd'[t] # "open"
    BY <2>1, <2>2, ClosingType
  <2>5. \A t \in authed' : bridgeEnd'[t] # "none"
    BY <2>1, <2>2, ClosingType
  <2>6. QED
    BY <2>1, <2>2, <2>3, <2>4, <2>5
<1>4. CASE Pong(s)
  BY <1>4 DEF Pong, TypeOK
<1>5. CASE BridgeClosed(s)
  BY <1>5 DEF BridgeClosed, NotRegistered, PendingFailed, TypeOK
<1>f. CASE BridgeFails(s)
  <2>1. /\ bridgeEnd' = Closing({s}) /\ UNCHANGED <<authed, missed>>
        /\ socket' = NotRegistered(s) /\ call' = IF s = socket THEN PendingFailed ELSE call
    BY <1>f DEF BridgeFails
  <2>2. \A t \in Socket : bridgeEnd'[t] = bridgeEnd[t]
                           \/ (bridgeEnd[t] = "open" /\ bridgeEnd'[t] = "closing")
    BY <2>1, ClosingType
  <2>3. bridgeEnd'[s] # "open"
    BY <2>1, ClosingType
  <2>4. authed \subseteq Socket /\ (socket # NoSocket => socket \in Socket)
    BY DEF TypeOK
  <2>5. CASE s = socket
    <3>1. socket' = NoSocket /\ \A c \in Call : call'[c] # "pending"
      BY <2>1, <2>5 DEF NotRegistered, PendingFailed
    <3> QED BY <2>1, <2>2, <2>3, <2>4, <2>5, <3>1
  <2>6. CASE s # socket
    <3>1. socket' = socket /\ call' = call
      BY <2>1, <2>6 DEF NotRegistered
    <3> QED BY <2>1, <2>2, <2>4, <3>1
  <2>7. QED
    BY <2>5, <2>6
<1>6. CASE AgentOpens(s) \/ AgentClosed(s) \/ Ping(s) \/ Cut(s)
  BY <1>6 DEF AgentOpens, AgentClosed, Ping, Cut, bridgeVars
<1>c. CASE Connect(s) \/ ReconnectTimer(s)
  <2>1. /\ bridgeEnd[s] \in {"none", "closed"}
        /\ bridgeEnd' = [bridgeEnd EXCEPT ![s] = "none"] /\ authed' = authed \ {s}
        /\ UNCHANGED <<socket, missed, call>>
    BY <1>c DEF Connect, ReconnectTimer, DoConnect, NewSocket, Free
  <2>2. \A t \in Socket : t # s => bridgeEnd'[t] = bridgeEnd[t]
    BY <2>1 DEF TypeOK
  <2>3. s # socket
    <3>1. s # NoSocket
      BY DEF Socket
    <3>2. QED
      BY <2>1, <3>1
  <2>4. authed \subseteq Socket /\ (socket # NoSocket => socket \in Socket)
    BY DEF TypeOK
  <2>5. QED
    BY <2>1, <2>2, <2>3, <2>4
<1>7. CASE \E c \in Call : ToolAnswer(s, c)
  BY <1>7 DEF ToolAnswer, TypeOK
<1>8. CASE \E c \in Call : ExecuteToolRequest(s, c)
  BY <1>8 DEF ExecuteToolRequest, bridgeVars
<1>9. QED
  BY <1>1, <1>2, <1>3, <1>4, <1>5, <1>f, <1>6, <1>c, <1>7, <1>8 DEF SocketStep

LEMMA OtherStepBridge ==
  ASSUME BridgeInv, Heartbeat \/ Stop \/ Disconnect \/ StableTimer
  PROVE  OfBridge'
<1> USE DEF BridgeInv, OfBridge, NobodyWaitsAlone, RegisteredIsLive, OneAgent,
            AuthedWasAccepted, MissedInLimit
<1>1. CASE Heartbeat
  <2>1. socket \in Socket /\ socket' = socket /\ authed' = authed /\ call' = call
    BY <1>1 DEF Heartbeat, TypeOK
  <2>2. CASE TooMany(missed')
    <3>1. bridgeEnd' = Closing({socket})
      BY <1>1, <2>2 DEF Heartbeat
    <3>2. \A t \in Socket : bridgeEnd'[t] = bridgeEnd[t]
                             \/ (bridgeEnd[t] = "open" /\ bridgeEnd'[t] = "closing")
      BY <3>1, ClosingType
    <3>3. bridgeEnd'[socket] # "open"
      BY <2>1, <3>1, ClosingType
    <3>4. authed \subseteq Socket
      BY DEF TypeOK
    <3>5. QED
      BY <2>1, <3>2, <3>3, <3>4
  <2>3. CASE ~ TooMany(missed')
    <3>1. missed' <= MaxMissedPongs /\ bridgeEnd' = bridgeEnd
      BY <1>1, <2>3 DEF Heartbeat, TooMany, TypeOK
    <3>2. QED
      BY <2>1, <3>1
  <2>4. QED
    BY <2>2, <2>3
<1>2. CASE Stop
  <2>1. /\ socket' = NoSocket /\ authed' = authed
        /\ bridgeEnd' = Closing(Socket)
        /\ \A c \in Call : call'[c] # "pending"
    BY <1>2 DEF Stop, PendingFailed, TypeOK
  <2>2. authed \subseteq Socket
    BY DEF TypeOK
  <2>3. \A t \in Socket : bridgeEnd'[t] # "open" /\ (bridgeEnd[t] # "none" => bridgeEnd'[t] # "none")
    BY <2>1, ClosingType
  <2>4. QED
    BY <2>1, <2>2, <2>3
<1>3. CASE Disconnect \/ StableTimer
  BY <1>3 DEF Disconnect, StableTimer, bridgeVars
<1>4. QED
  BY <1>1, <1>2, <1>3

LEMMA BridgeNext == BridgeInv /\ [Next]_vars => BridgeInv'
<1> SUFFICES ASSUME BridgeInv, [Next]_vars
             PROVE  BridgeInv'
  OBVIOUS
<1>1. TypeOK'
  BY TypeNext
<1>2. OfBridge'
  <2>1. CASE UNCHANGED vars
    BY <2>1 DEF BridgeInv, OfBridge, NobodyWaitsAlone, RegisteredIsLive, OneAgent,
                AuthedWasAccepted, MissedInLimit, vars, bridgeVars
  <2>2. QED
    BY <2>1, CallStepBridge, SocketStepBridge, OtherStepBridge DEF Next
<1>3. QED
  BY <1>1, <1>2 DEF BridgeInv, OfBridge

LEMMA BridgeCorrect == Spec => []BridgeInv
BY BridgeInit, BridgeNext, PTL DEF Spec

(* The type invariant, missedPongs within its limit included.              *)
THEOREM TypeCorrect == Spec => []TypeOK
<1>1. BridgeInv => TypeOK
  BY DEF BridgeInv
<1>2. QED
  BY <1>1, BridgeCorrect, PTL

(* A pending call always has an agent whose close event is still to come.  *)
THEOREM NobodyWaitsAloneCorrect == Spec => []NobodyWaitsAlone
<1>1. BridgeInv => NobodyWaitsAlone
  BY DEF BridgeInv
<1>2. QED
  BY <1>1, BridgeCorrect, PTL

(* Calls go to the one authenticated socket that is not being closed by    *)
(* the bridge, for any number of reconnecting agents.                      *)
THEOREM OneAgentCorrect == Spec => []OneAgent
<1>1. BridgeInv => OneAgent
  BY DEF BridgeInv
<1>2. QED
  BY <1>1, BridgeCorrect, PTL

-----------------------------------------------------------------------------
(* Requests, answers and the state of calls.                               *)
LEMMA CallInit == Init => CallInv
BY DEF Init, CallInv, RequestsAreNew, RequestsAreSingle, AnswersAreDone, UnsentIsIdle

Quiet ==
  /\ UNCHANGED <<call, tool>>
  /\ \A s \in Socket, c \in Call : c \in toAgent'[s] => c \in toAgent[s]
  /\ \A s \in Socket, c \in Call : c \in toBridge'[s] => c \in toBridge[s]

LEMMA QuietKeeps == CallInv /\ Quiet => CallInv'
BY DEF Quiet, CallInv, RequestsAreNew, RequestsAreSingle, AnswersAreDone, UnsentIsIdle

LEMMA SocketStepQuiet ==
  ASSUME TypeOK, NEW s \in Socket,
         \/ HandleNewConnection(s) \/ AuthTimeout(s) \/ AuthAccepted(s) \/ AuthRefused(s)
         \/ Pong(s) \/ Connect(s) \/ AgentOpens(s) \/ AgentClosed(s)
         \/ ReconnectTimer(s) \/ Ping(s) \/ Cut(s)
  PROVE  Quiet
<1>1. CASE HandleNewConnection(s) \/ AuthTimeout(s)
  BY <1>1 DEF HandleNewConnection, AuthTimeout, Quiet, agentVars, netVars
<1>2. CASE AuthAccepted(s) \/ AuthRefused(s) \/ Pong(s)
  BY <1>2 DEF AuthAccepted, SentOnAuth, AuthRefused, Pong, Arrives, Quiet, agentVars, TypeOK
<1>3. CASE Connect(s) \/ ReconnectTimer(s)
  BY <1>3, NewSocketType DEF Connect, ReconnectTimer, DoConnect, Quiet
<1>b. CASE Cut(s)
  BY <1>b, BreakType DEF Cut, Quiet, agentVars, bridgeVars
<1>4. CASE AgentOpens(s)
  BY <1>4 DEF AgentOpens, Quiet, bridgeVars, TypeOK
<1>5. CASE AgentClosed(s)
  BY <1>5 DEF AgentClosed, Quiet, bridgeVars, TypeOK
<1>6. CASE Ping(s)
  BY <1>6, ToBridgeAdds DEF Ping, Received, Quiet, bridgeVars, agentVars, TypeOK
<1>7. QED
  BY <1>1, <1>2, <1>3, <1>b, <1>4, <1>5, <1>6

LEMMA OtherStepQuiet ==
  ASSUME TypeOK, Heartbeat \/ Disconnect \/ StableTimer
  PROVE  Quiet
<1>1. CASE Heartbeat
  <2>1. socket \in Socket
    BY <1>1 DEF Heartbeat, TypeOK
  <2>2. CASE TooMany(missed')
    BY <1>1, <2>1, <2>2, BreakType DEF Heartbeat, Quiet, agentVars
  <2>3. CASE ~ TooMany(missed')
    <3>1. toAgent' = ToAgent(socket, "ping")
      BY <1>1, <2>3 DEF Heartbeat
    <3>2. \A s \in Socket, c \in Call : c \in toAgent'[s] => c \in toAgent[s]
      BY <2>1, <3>1, ToAgentAdds
    <3>3. QED
      BY <1>1, <2>3, <3>2 DEF Heartbeat, Quiet, agentVars
  <2>4. QED
    BY <2>2, <2>3
<1>2. CASE Disconnect \/ StableTimer
  BY <1>2 DEF Disconnect, StableTimer, Quiet, bridgeVars, netVars
<1>3. QED
  BY <1>1, <1>2

(* What the steps that are not quiet do to the state of one call, in the   *)
(* terms of ToolCalls.                                                     *)
LEMMA OutcomeOf ==
  ASSUME TypeOK, NEW c \in Call
  PROVE  Outcome[c] = IF call[c] \in {"waiting", "pending"} THEN "open" ELSE call[c]
BY DEF Outcome

LEMMA DispatchStep ==
  ASSUME TypeOK, TypeOK', CallInv, NEW c \in Call, call[c] \in {"new", "waiting"},
         socket # NoSocket, Dispatch(c), UNCHANGED <<tool, toBridge>>
  PROVE  /\ CallInv'
         /\ call[c] = "new" => Contract!Begin(c)
         /\ call[c] = "waiting" => UNCHANGED <<Outcome, tool>>
<1> USE DEF CallInv, RequestsAreNew, RequestsAreSingle, AnswersAreDone, UnsentIsIdle
<1>1. call' = [call EXCEPT ![c] = "pending"] /\ tool[c] = "idle" /\ socket \in Socket
  BY DEF Dispatch, TypeOK
<1>2. /\ \A t \in Socket : toAgent'[t] \subseteq toAgent[t] \cup {c}
      /\ \A t \in Socket : t # socket => toAgent'[t] = toAgent[t]
  BY <1>1, ToAgentAdds DEF Dispatch
<1>3. \A t \in Socket : c \notin toAgent[t]
  OBVIOUS
<1>4. CallInv'
  <2>1. RequestsAreNew' /\ UnsentIsIdle' /\ AnswersAreDone'
    BY <1>1, <1>2 DEF TypeOK
  <2>2. RequestsAreSingle'
    BY <1>2, <1>3
  <2>3. QED
    BY <2>1, <2>2
<1>5. call[c] = "new" => Outcome' = [Outcome EXCEPT ![c] = "open"] /\ Outcome[c] = "new"
  BY <1>1 DEF Outcome, TypeOK
<1>6. call[c] = "waiting" => Outcome' = Outcome
  BY <1>1 DEF Outcome, TypeOK
<1>7. QED
  BY <1>4, <1>5, <1>6 DEF Contract!Begin

(* A call that ends without an answer, or several at once.                 *)
LEMMA FailStep ==
  ASSUME TypeOK, CallInv, NEW S \in SUBSET Call,
         \A c \in S : call[c] \in {"waiting", "pending"},
         call' = [c \in Call |-> IF c \in S THEN "failed" ELSE call[c]],
         UNCHANGED tool,
         \A s \in Socket : toAgent'[s] \subseteq toAgent[s] /\ toBridge'[s] \subseteq toBridge[s]
  PROVE  CallInv' /\ Contract!FailTogether(S)
<1>1. CallInv'
  BY DEF CallInv, RequestsAreNew, RequestsAreSingle, AnswersAreDone, UnsentIsIdle
<1>2. Outcome' = [c \in Call |-> IF c \in S THEN "failed" ELSE Outcome[c]]
  BY DEF Outcome
<1>3. \A c \in S : Outcome[c] = "open"
  BY DEF Outcome
<1>4. QED
  BY <1>1, <1>2, <1>3 DEF Contract!FailTogether

LEMMA PendingFailedStep ==
  ASSUME TypeOK, CallInv, call' = PendingFailed, UNCHANGED tool,
         \A s \in Socket : toAgent'[s] \subseteq toAgent[s] /\ toBridge'[s] \subseteq toBridge[s]
  PROVE  CallInv' /\ Contract!Next
<1> DEFINE S == {c \in Call : call[c] = "pending"}
<1>1. call' = [c \in Call |-> IF c \in S THEN "failed" ELSE call[c]]
  BY DEF PendingFailed
<1>2. CallInv' /\ Contract!FailTogether(S)
  BY <1>1, FailStep
<1>3. QED
  BY <1>2 DEF Contract!Next

ToolStep == Contract!Next \/ UNCHANGED <<Outcome, tool>>

LEMMA CallStepCall ==
  ASSUME TypeOK, TypeOK', CallInv, NEW c \in Call, CallStep(c)
  PROVE  CallInv' /\ ToolStep
<1>1. CASE call[c] \in {"new", "waiting"} /\ socket # NoSocket /\ (RouteToolCall(c) \/ PollSucceeds(c))
  <2>1. Dispatch(c) /\ UNCHANGED <<tool, toBridge>>
    BY <1>1 DEF RouteToolCall, PollSucceeds, agentVars
  <2>2. QED
    BY <1>1, <2>1, DispatchStep DEF ToolStep, Contract!Next
<1>2. CASE RouteToolCall(c) /\ socket = NoSocket
  <2>1. /\ call[c] = "new" /\ call' = [call EXCEPT ![c] = "waiting"]
        /\ UNCHANGED <<tool, toAgent, toBridge>>
    BY <1>2 DEF RouteToolCall, agentVars
  <2>2. CallInv'
    BY <2>1 DEF TypeOK, CallInv, RequestsAreNew, RequestsAreSingle, AnswersAreDone, UnsentIsIdle
  <2>3. Outcome' = [Outcome EXCEPT ![c] = "open"] /\ Outcome[c] = "new"
    BY <2>1 DEF Outcome, TypeOK
  <2>4. QED
    BY <2>1, <2>2, <2>3 DEF ToolStep, Contract!Next, Contract!Begin
<1>3. CASE WaitEnds(c) \/ CallTimesOut(c)
  <2>1. /\ call[c] \in {"waiting", "pending"} /\ call' = [call EXCEPT ![c] = "failed"]
        /\ UNCHANGED <<tool, toAgent, toBridge>>
    BY <1>3 DEF WaitEnds, CallTimesOut, TimedOut, agentVars, netVars
  <2>2. call' = [d \in Call |-> IF d \in {c} THEN "failed" ELSE call[d]]
    BY <2>1 DEF TypeOK
  <2>3. CallInv' /\ Contract!FailTogether({c})
    BY <2>1, <2>2, FailStep
  <2>4. QED
    BY <2>3 DEF ToolStep, Contract!Next
<1>4. CASE ToolEnds(c)
  <2>1. /\ tool[c] = "running" /\ tool' = [tool EXCEPT ![c] = "done"]
        /\ UNCHANGED <<call, toAgent>> /\ toBridge' = ToBridge(c)
    BY <1>4 DEF ToolEnds, bridgeVars
  <2>2. \A t \in Socket : toBridge'[t] \subseteq toBridge[t] \cup {c}
    BY <2>1, ToBridgeAdds
  <2>3. CallInv'
    BY <2>1, <2>2 DEF TypeOK, CallInv, RequestsAreNew, RequestsAreSingle, AnswersAreDone, UnsentIsIdle
  <2>4. Contract!End(c)
    BY <2>1 DEF Contract!End, Outcome
  <2>5. QED
    BY <2>3, <2>4 DEF ToolStep, Contract!Next
<1>5. QED
  BY <1>1, <1>2, <1>3, <1>4 DEF CallStep, RouteToolCall, PollSucceeds

LEMMA SocketStepCall ==
  ASSUME TypeOK, CallInv, NEW s \in Socket, SocketStep(s)
  PROVE  CallInv' /\ ToolStep
<1>1. CASE Quiet
  BY <1>1, QuietKeeps DEF ToolStep, Quiet, Outcome
<1>2. CASE BridgeClosed(s) \/ BridgeFails(s)
  <2>1. /\ UNCHANGED <<tool, toAgent>>
        /\ call' = PendingFailed \/ call' = call
        /\ \A t \in Socket : toBridge'[t] \subseteq toBridge[t]
    BY <1>2 DEF BridgeClosed, BridgeFails, agentVars, netVars, TypeOK
  <2>2. CASE call' = PendingFailed
    BY <2>1, <2>2, PendingFailedStep DEF ToolStep
  <2>3. CASE call' = call
    <3>1. Quiet
      BY <2>1, <2>3 DEF Quiet
    <3>2. QED
      BY <3>1, QuietKeeps DEF ToolStep, Quiet, Outcome
  <2>4. QED
    BY <2>1, <2>2, <2>3
<1>3. ASSUME NEW c \in Call, ToolAnswer(s, c)
      PROVE  CallInv' /\ ToolStep
  <2>1. /\ c \in toBridge[s] /\ UNCHANGED <<tool, toAgent>>
        /\ call' = IF call[c] = "pending" THEN [call EXCEPT ![c] = "answered"] ELSE call
        /\ \A t \in Socket : toBridge'[t] \subseteq toBridge[t]
    BY <1>3 DEF ToolAnswer, Arrives, agentVars, TypeOK
  <2>2. CallInv' /\ tool[c] = "done"
    BY <2>1 DEF TypeOK, CallInv, RequestsAreNew, RequestsAreSingle, AnswersAreDone, UnsentIsIdle
  <2>3. CASE call[c] = "pending"
    <3>1. Outcome' = [Outcome EXCEPT ![c] = "answered"] /\ Outcome[c] = "open"
      BY <2>1, <2>3 DEF Outcome, TypeOK
    <3>2. QED
      BY <2>1, <2>2, <3>1 DEF ToolStep, Contract!Next, Contract!Answer
  <2>4. CASE call[c] # "pending"
    BY <2>1, <2>2, <2>4 DEF ToolStep, Outcome
  <2>5. QED
    BY <2>3, <2>4
<1>4. ASSUME NEW c \in Call, ExecuteToolRequest(s, c)
      PROVE  CallInv' /\ ToolStep
  <2>1. /\ c \in toAgent[s] /\ UNCHANGED <<call, toBridge>>
        /\ tool' = [tool EXCEPT ![c] = "running"]
        /\ toAgent' = [toAgent EXCEPT ![s] = @ \ {c}]
    BY <1>4 DEF ExecuteToolRequest, Received, bridgeVars
  <2>2. tool[c] = "idle" /\ call[c] \notin {"new", "waiting"}
    BY <2>1 DEF CallInv, RequestsAreNew
  <2>3. \A t \in Socket : c \notin toAgent'[t] /\ toAgent'[t] \subseteq toAgent[t]
    BY <2>1 DEF CallInv, RequestsAreSingle, TypeOK
  <2>4. CallInv'
    BY <2>1, <2>2, <2>3 DEF TypeOK, CallInv, RequestsAreNew, RequestsAreSingle, AnswersAreDone, UnsentIsIdle
  <2>5. Contract!Start(c)
    BY <2>1, <2>2 DEF Contract!Start, Outcome, TypeOK
  <2>6. QED
    BY <2>4, <2>5 DEF ToolStep, Contract!Next
<1>5. QED
  BY <1>1, <1>2, <1>3, <1>4, SocketStepQuiet DEF SocketStep

LEMMA CallNext == BridgeInv /\ CallInv /\ [Next]_vars => CallInv' /\ [Contract!Next]_(Contract!vars)
<1> SUFFICES ASSUME BridgeInv, CallInv, [Next]_vars
             PROVE  CallInv' /\ ToolStep
  BY DEF ToolStep, Contract!vars
<1>1. TypeOK /\ TypeOK'
  BY TypeNext DEF BridgeInv
<1>2. CASE \E c \in Call : CallStep(c)
  BY <1>1, <1>2, CallStepCall
<1>3. CASE \E s \in Socket : SocketStep(s)
  BY <1>1, <1>3, SocketStepCall
<1>4. CASE Heartbeat \/ Disconnect \/ StableTimer
  BY <1>1, <1>4, OtherStepQuiet, QuietKeeps DEF ToolStep, Quiet, Outcome
<1>5. CASE Stop
  <2>1. /\ call' = PendingFailed /\ UNCHANGED tool
        /\ \A t \in Socket : toAgent'[t] \subseteq toAgent[t] /\ toBridge'[t] \subseteq toBridge[t]
    BY <1>1, <1>5, BreakType DEF Stop, agentVars
  <2>2. QED
    BY <1>1, <2>1, PendingFailedStep DEF ToolStep
<1>6. CASE UNCHANGED vars
  <2>1. Quiet
    BY <1>6 DEF Quiet, vars, bridgeVars, agentVars, netVars
  <2>2. QED
    BY <2>1, QuietKeeps DEF ToolStep, Quiet, Outcome
<1>7. QED
  BY <1>2, <1>3, <1>4, <1>5, <1>6 DEF Next

(* The bridge and the agent implement ToolCalls: for any sets of sockets   *)
(* and calls a call has one outcome and its tool runs at most once.        *)
THEOREM ToolCallsCorrect == Spec => ToolCallsHold
<1>1. Init => Contract!Init
  BY DEF Init, Contract!Init, Outcome
<1>2. QED
  BY <1>1, BridgeInit, BridgeNext, CallInit, CallNext, PTL
     DEF Spec, ToolCallsHold, Contract!Spec
=============================================================================
