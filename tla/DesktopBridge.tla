---------------------------- MODULE DesktopBridge ----------------------------
(***************************************************************************)
(* Tool calls that the gateway routes to the desktop app over a WebSocket: *)
(* DesktopAgentBridge (packages/gateway/tool-router.ts) is the server,     *)
(* DesktopAgent (apps/desktop/src/main/agent.ts) the client, and           *)
(* apps/desktop/src/main/index.ts connects and disconnects the client as   *)
(* the gateway goes online and offline.                                    *)
(*                                                                         *)
(* Each socket has two ends, and each end learns of its closing by a close *)
(* event of its own, as late as it likes.  Frames of one socket are a set: *)
(* nothing but the auth frame, which comes first, depends on their order.  *)
(***************************************************************************)
EXTENDS Naturals

CONSTANTS
  LastSocket,      \* bound on the sockets that are alive at a time
  Call,            \* tool calls, named by their request id
  MaxMissedPongs,  \* MAX_MISSED_PONGS
  MaxDelay,        \* number of doublings from 3 s to MAX_RECONNECT_DELAY
  Faults,          \* "cut": connections break; "auth": tokens are refused or
                   \* the auth timer runs out; "stop": the bridge is stopped
  NoSocket         \* null

ASSUME BoundAssumption == LastSocket \in Nat /\ MaxMissedPongs \in Nat /\ MaxDelay \in Nat
ASSUME NameAssumption == Call \cap {"ping", "pong", "auth"} = {} /\ NoSocket \notin Nat

Socket == 1 .. LastSocket

VARIABLES
  up,              \* the bridge is started
  bridgeEnd,       \* state of the server end of a socket
  authed,          \* sockets whose `authenticated` is true
  socket,          \* the bridge's socket; connected is socket # null
  missed,          \* missedPongs
  call,            \* state of a call at the bridge
  agentEnd,        \* state of the client end of a socket
  ws,              \* the agent's ws
  shouldReconnect,
  timer,           \* reconnectTimer is set
  stable,          \* stableTimer is set
  delay,           \* doublings of reconnectDelay
  status,          \* _status is "connected"
  tool,            \* the tool of a call, at the agent
  toAgent,         \* frames on their way, per socket
  toBridge,
  cut              \* sockets that transport nothing any more

bridgeVars == <<up, bridgeEnd, authed, socket, missed, call>>
agentVars == <<agentEnd, ws, shouldReconnect, timer, stable, delay, status, tool>>
netVars == <<toAgent, toBridge, cut>>
vars == <<bridgeVars, agentVars, netVars>>

BridgeEnd == {"none", "open", "closing", "closed"}
AgentEnd == {"none", "connecting", "open", "closing", "closed"}
CallState == {"new", "waiting", "pending", "answered", "failed"}

Init ==
  /\ up = TRUE
  /\ bridgeEnd = [s \in Socket |-> "none"]
  /\ authed = {}
  /\ socket = NoSocket
  /\ missed = 0
  /\ call = [c \in Call |-> "new"]
  /\ agentEnd = [s \in Socket |-> "none"]
  /\ ws = NoSocket
  /\ shouldReconnect = TRUE
  /\ timer = FALSE
  /\ stable = FALSE
  /\ delay = 0
  /\ status = FALSE
  /\ tool = [c \in Call |-> "idle"]
  /\ toAgent = [s \in Socket |-> {}]
  /\ toBridge = [s \in Socket |-> {}]
  /\ cut = {}

-----------------------------------------------------------------------------
(* Writing.  The server library drops what is written to a socket that is  *)
(* not open; the client drops it too, or throws if it is still connecting, *)
(* which loses the frame just the same.  A connection that breaks loses    *)
(* all that is on its way.                                                 *)

ToAgent(s, f) ==
  IF bridgeEnd[s] = "open" /\ s \notin cut /\ agentEnd[s] \in {"connecting", "open"}
  THEN [toAgent EXCEPT ![s] = @ \cup {f}] ELSE toAgent

ToBridge(f) ==
  IF ws # NoSocket /\ agentEnd[ws] = "open" /\ ws \notin cut /\ bridgeEnd[ws] # "closed"
  THEN [toBridge EXCEPT ![ws] = @ \cup {f}] ELSE toBridge

Break(S) ==
  /\ cut' = cut \cup S
  /\ toAgent' = [s \in Socket |-> IF s \in S THEN {} ELSE toAgent[s]]
  /\ toBridge' = [s \in Socket |-> IF s \in S THEN {} ELSE toBridge[s]]

-----------------------------------------------------------------------------
(* The bridge: tool calls.                                                 *)

Dispatch(c) ==
  /\ call' = [call EXCEPT ![c] = "pending"]
  /\ toAgent' = ToAgent(socket, c)

(* routeToolCall and the polls of waitForConnection before it.             *)
RouteToolCall(c) ==
  /\ call[c] = "new"
  /\ IF socket # NoSocket THEN Dispatch(c)
     ELSE call' = [call EXCEPT ![c] = "waiting"] /\ UNCHANGED toAgent
  /\ UNCHANGED <<up, bridgeEnd, authed, socket, missed, agentVars, toBridge, cut>>

PollSucceeds(c) ==
  /\ call[c] = "waiting"
  /\ socket # NoSocket
  /\ Dispatch(c)
  /\ UNCHANGED <<up, bridgeEnd, authed, socket, missed, agentVars, toBridge, cut>>

WaitEnds(c) ==
  /\ call[c] = "waiting"
  /\ socket = NoSocket
  /\ call' = [call EXCEPT ![c] = "failed"]
  /\ UNCHANGED <<up, bridgeEnd, authed, socket, missed, agentVars, netVars>>

TimeoutForgets(c) == call
TimedOut(c) == [call EXCEPT ![c] = "failed"]

CallTimesOut(c) ==
  /\ call[c] = "pending"
  /\ call' = TimedOut(c)
  /\ UNCHANGED <<up, bridgeEnd, authed, socket, missed, agentVars, netVars>>

PendingKept == call
PendingFailed == [c \in Call |-> IF call[c] = "pending" THEN "failed" ELSE call[c]]

-----------------------------------------------------------------------------
(* The bridge: connections.                                                *)

Closing(S) == [s \in Socket |-> IF s \in S /\ bridgeEnd[s] = "open" THEN "closing" ELSE bridgeEnd[s]]

HandleNewConnection(s) ==
  /\ up
  /\ agentEnd[s] = "connecting" /\ bridgeEnd[s] = "none"
  /\ bridgeEnd' = [bridgeEnd EXCEPT ![s] = "open"]
  /\ UNCHANGED <<up, authed, socket, missed, call, agentVars, netVars>>

AuthTimeout(s) ==
  /\ "auth" \in Faults
  /\ bridgeEnd[s] = "open" /\ s \notin authed
  /\ bridgeEnd' = Closing({s})
  /\ UNCHANGED <<up, authed, socket, missed, call, agentVars, netVars>>

(* Frames are handled even while the server end is closing.                *)
Arrives(s, f) ==
  /\ f \in toBridge[s]
  /\ bridgeEnd[s] \in {"open", "closing"} /\ s \notin cut
  /\ toBridge' = [toBridge EXCEPT ![s] = @ \ {f}]

OldClosed == Closing({socket})
ResentOnAuth(s) == [toAgent EXCEPT ![s] = @ \cup {c \in Call : call[c] = "pending"}]
SentOnAuth(s) == toAgent

AuthAccepted(s) ==
  /\ Arrives(s, "auth")
  /\ s \notin authed
  /\ authed' = authed \cup {s}
  /\ bridgeEnd' = OldClosed
  /\ socket' = s
  /\ missed' = 0
  /\ toAgent' = SentOnAuth(s)
  /\ UNCHANGED <<up, call, agentVars, cut>>

AuthRefused(s) ==
  /\ "auth" \in Faults
  /\ Arrives(s, "auth")
  /\ s \notin authed
  /\ bridgeEnd' = Closing({s})
  /\ UNCHANGED <<up, authed, socket, missed, call, agentVars, toAgent, cut>>

(* handleMessage of any authenticated socket, replaced ones included.      *)
ToolAnswer(s, c) ==
  /\ s \in authed
  /\ Arrives(s, c)
  /\ call' = IF call[c] = "pending" THEN [call EXCEPT ![c] = "answered"] ELSE call
  /\ UNCHANGED <<up, bridgeEnd, authed, socket, missed, agentVars, toAgent, cut>>

Pong(s) ==
  /\ s \in authed
  /\ Arrives(s, "pong")
  /\ missed' = 0
  /\ UNCHANGED <<up, bridgeEnd, authed, socket, call, agentVars, toAgent, cut>>

TooMany(n) == n > MaxMissedPongs

Heartbeat ==
  /\ socket # NoSocket
  /\ bridgeEnd[socket] = "open"
  /\ missed' = missed + 1
  /\ IF TooMany(missed')
     THEN /\ bridgeEnd' = Closing({socket})
          /\ Break({socket})
     ELSE /\ toAgent' = ToAgent(socket, "ping")
          /\ UNCHANGED <<bridgeEnd, toBridge, cut>>
  /\ UNCHANGED <<up, authed, socket, call, agentVars>>

(* The close listener and handleClose.                                     *)
NotRegistered(s) == IF s = socket THEN NoSocket ELSE socket

BridgeClosed(s) ==
  /\ bridgeEnd[s] \in {"open", "closing"}
  /\ bridgeEnd[s] = "closing" \/ agentEnd[s] \in {"closing", "closed"} \/ s \in cut
  /\ bridgeEnd' = [bridgeEnd EXCEPT ![s] = "closed"]
  /\ toBridge' = [toBridge EXCEPT ![s] = {}]
  /\ socket' = NotRegistered(s)
  /\ call' = IF s = socket THEN PendingFailed ELSE call
  /\ UNCHANGED <<up, authed, missed, agentVars, toAgent, cut>>

(* The error listener of a broken socket calls handleClose as well; the    *)
(* close event that follows finds another socket, or none, registered.     *)
BridgeFails(s) ==
  /\ bridgeEnd[s] = "open" /\ s \in cut
  /\ bridgeEnd' = Closing({s})
  /\ socket' = NotRegistered(s)
  /\ call' = IF s = socket THEN PendingFailed ELSE call
  /\ UNCHANGED <<up, authed, missed, agentVars, netVars>>

(* stop: pending calls are rejected, every client is terminated.           *)
Stop ==
  /\ "stop" \in Faults
  /\ up
  /\ up' = FALSE
  /\ call' = PendingFailed
  /\ bridgeEnd' = Closing(Socket)
  /\ Break({s \in Socket : bridgeEnd[s] \in {"open", "closing"}})
  /\ socket' = NoSocket
  /\ UNCHANGED <<authed, missed, agentVars>>

-----------------------------------------------------------------------------
(* The agent: connections.                                                 *)

(* A new socket takes the first name that has never been used or whose     *)
(* last socket is closed at both ends, and nothing is left of that socket. *)
Free(s) == agentEnd[s] \in {"none", "closed"} /\ bridgeEnd[s] \in {"none", "closed"}

NewSocket(s) ==
  /\ Free(s) /\ \A t \in Socket : t < s => ~ Free(t)
  /\ bridgeEnd' = [bridgeEnd EXCEPT ![s] = "none"]
  /\ authed' = authed \ {s}
  /\ toAgent' = [toAgent EXCEPT ![s] = {}]
  /\ toBridge' = [toBridge EXCEPT ![s] = {}]
  /\ cut' = cut \ {s}

DoConnect(s) ==
  /\ NewSocket(s)
  /\ agentEnd' = [t \in Socket |->
                    IF t = s THEN "connecting"
                    ELSE IF t = ws /\ agentEnd[t] \in {"connecting", "open"} THEN "closing"
                    ELSE agentEnd[t]]
  /\ ws' = s

(* index.ts calls connect when the gateway comes online and disconnect on  *)
(* every other status.  The manager shows no status twice in a row, so a   *)
(* connect follows a disconnect, but a disconnect may follow another.      *)
Connect(s) ==
  /\ shouldReconnect => \A t \in Socket : agentEnd[t] = "none"
  /\ shouldReconnect' = TRUE
  /\ DoConnect(s)
  /\ UNCHANGED <<up, socket, missed, call, timer, stable, delay, status, tool>>

Disconnect ==
  /\ \E t \in Socket : agentEnd[t] # "none"
  /\ shouldReconnect' = FALSE
  /\ timer' = FALSE
  /\ stable' = FALSE
  /\ agentEnd' = [t \in Socket |->
                    IF t = ws /\ agentEnd[t] \in {"connecting", "open"} THEN "closing"
                    ELSE agentEnd[t]]
  /\ ws' = NoSocket
  /\ status' = FALSE
  /\ UNCHANGED <<bridgeVars, delay, tool, netVars>>

(* The open listener.                                                      *)
AgentOpens(s) ==
  /\ agentEnd[s] = "connecting"
  /\ bridgeEnd[s] \in {"open", "closing"} /\ s \notin cut
  /\ agentEnd' = [agentEnd EXCEPT ![s] = "open"]
  /\ toBridge' = [toBridge EXCEPT ![s] = @ \cup {"auth"}]
  /\ status' = TRUE
  /\ delay' = 0
  /\ stable' = TRUE
  /\ UNCHANGED <<bridgeVars, ws, shouldReconnect, timer, tool, toAgent, cut>>

(* The close listener and scheduleReconnect.  It names no socket: whatever *)
(* ws is by now, it becomes null.                                          *)
NotScheduled == timer
Scheduled == timer \/ shouldReconnect

AgentClosed(s) ==
  /\ \/ agentEnd[s] = "closing"
     \/ agentEnd[s] \in {"connecting", "open"} /\ (bridgeEnd[s] \in {"closing", "closed"} \/ s \in cut)
     \/ agentEnd[s] = "connecting" /\ bridgeEnd[s] = "none" /\ ~ up
  /\ agentEnd' = [agentEnd EXCEPT ![s] = "closed"]
  /\ toAgent' = [toAgent EXCEPT ![s] = {}]
  /\ ws' = NoSocket
  /\ status' = FALSE
  /\ stable' = FALSE
  /\ timer' = Scheduled
  /\ delay' = IF shouldReconnect /\ delay < MaxDelay THEN delay + 1 ELSE delay
  /\ UNCHANGED <<bridgeVars, shouldReconnect, tool, toBridge, cut>>

ReconnectTimer(s) ==
  /\ timer
  /\ timer' = FALSE
  /\ DoConnect(s)
  /\ UNCHANGED <<up, socket, missed, call, shouldReconnect, stable, delay, status, tool>>

StableTimer ==
  /\ stable
  /\ stable' = FALSE
  /\ delay' = 0
  /\ UNCHANGED <<bridgeVars, agentEnd, ws, shouldReconnect, timer, status, tool, netVars>>

-----------------------------------------------------------------------------
(* The agent: frames.  Both answers go to ws as it is when they are ready. *)

Received(s, f) ==
  /\ f \in toAgent[s]
  /\ agentEnd[s] = "open" /\ s \notin cut
  /\ toAgent' = [toAgent EXCEPT ![s] = @ \ {f}]

Ping(s) ==
  /\ Received(s, "ping")
  /\ toBridge' = ToBridge("pong")
  /\ UNCHANGED <<bridgeVars, agentVars, cut>>

ExecuteToolRequest(s, c) ==
  /\ Received(s, c)
  /\ tool' = [tool EXCEPT ![c] = "running"]
  /\ UNCHANGED <<bridgeVars, agentEnd, ws, shouldReconnect, timer, stable, delay,
                 status, toBridge, cut>>

ToolEnds(c) ==
  /\ tool[c] = "running"
  /\ tool' = [tool EXCEPT ![c] = "done"]
  /\ toBridge' = ToBridge(c)
  /\ UNCHANGED <<bridgeVars, agentEnd, ws, shouldReconnect, timer, stable, delay,
                 status, toAgent, cut>>

(* The network: a connection breaks, and what was on its way is lost.      *)
Cut(s) ==
  /\ "cut" \in Faults
  /\ bridgeEnd[s] # "none" /\ s \notin cut
  /\ {bridgeEnd[s], agentEnd[s]} # {"closed"}
  /\ Break({s})
  /\ UNCHANGED <<bridgeVars, agentVars>>

-----------------------------------------------------------------------------
CallStep(c) == RouteToolCall(c) \/ PollSucceeds(c) \/ WaitEnds(c) \/ CallTimesOut(c) \/ ToolEnds(c)

SocketStep(s) ==
  \/ HandleNewConnection(s) \/ AuthTimeout(s) \/ AuthAccepted(s) \/ AuthRefused(s)
  \/ Pong(s) \/ BridgeClosed(s) \/ BridgeFails(s) \/ Connect(s) \/ AgentOpens(s) \/ AgentClosed(s)
  \/ ReconnectTimer(s) \/ Ping(s) \/ Cut(s)
  \/ \E c \in Call : ToolAnswer(s, c) \/ ExecuteToolRequest(s, c)

Next ==
  \/ \E c \in Call : CallStep(c)
  \/ \E s \in Socket : SocketStep(s)
  \/ Heartbeat \/ Stop \/ Disconnect \/ StableTimer

Spec == Init /\ [][Next]_vars

(* Timers run out and events that are due are delivered; nothing is said   *)
(* of calls to the program, of faults or of how long a tool runs.          *)
Fairness ==
  /\ \A c \in Call : WF_vars(WaitEnds(c) \/ PollSucceeds(c)) /\ WF_vars(CallTimesOut(c))
  /\ \A s \in Socket :
       /\ WF_vars(HandleNewConnection(s)) /\ WF_vars(AgentOpens(s))
       /\ WF_vars(AuthAccepted(s) \/ AuthRefused(s))
       /\ WF_vars(AgentClosed(s)) /\ WF_vars(BridgeClosed(s))
  /\ WF_vars(\E s \in Socket : ReconnectTimer(s))

FairSpec == Spec /\ Fairness
-----------------------------------------------------------------------------
(* Type invariant.                                                         *)
TypeOK ==
  /\ up \in BOOLEAN
  /\ bridgeEnd \in [Socket -> BridgeEnd]
  /\ authed \subseteq Socket
  /\ socket \in Socket \cup {NoSocket}
  /\ missed \in 0 .. MaxMissedPongs + 1
  /\ call \in [Call -> CallState]
  /\ agentEnd \in [Socket -> AgentEnd]
  /\ ws \in Socket \cup {NoSocket}
  /\ shouldReconnect \in BOOLEAN
  /\ timer \in BOOLEAN
  /\ stable \in BOOLEAN
  /\ delay \in 0 .. MaxDelay
  /\ status \in BOOLEAN
  /\ tool \in [Call -> {"idle", "running", "done"}]
  /\ toAgent \in [Socket -> SUBSET (Call \cup {"ping"})]
  /\ toBridge \in [Socket -> SUBSET (Call \cup {"auth", "pong"})]
  /\ cut \subseteq Socket

(* While a call is pending the bridge has an agent, and the close event of *)
(* that agent's socket, which fails the call, is still to come: a bridge   *)
(* that lost its agent by a close, an error, a missed pong or a stop has   *)
(* nobody waiting.  It need not be the socket the call was sent over: if   *)
(* that one was replaced, the call stays pending with its successor.       *)
NobodyWaitsAlone ==
  \A c \in Call : call[c] = "pending" =>
    socket # NoSocket /\ socket \in authed /\ bridgeEnd[socket] \in {"open", "closing"}

(* The bridge's socket is authenticated and its close event is still to    *)
(* come, so that calls never go to a socket nobody will report as closed.  *)
RegisteredIsLive ==
  socket # NoSocket => socket \in authed /\ bridgeEnd[socket] \in {"open", "closing"}

(* Only one agent is served: every other authenticated socket is closing.  *)
OneAgent == \A s \in authed : bridgeEnd[s] = "open" => s = socket

(* A call has one outcome and its tool runs at most once, as ToolCalls     *)
(* demands, over any reconnects, late answers and late close events.       *)
Outcome == [c \in Call |-> IF call[c] \in {"waiting", "pending"} THEN "open" ELSE call[c]]
Contract == INSTANCE ToolCalls WITH outcome <- Outcome
ToolCallsHold == Contract!Spec

(* Every call that is routed gets its outcome, even if no agent ever comes *)
(* or the agent never answers.                                             *)
CallsEnd == \A c \in Call : call[c] # "new" ~> call[c] \in {"answered", "failed"}

(* Once connections no longer break, heartbeats no longer go unanswered    *)
(* and tokens are accepted in time, an agent that lost its connection, or  *)
(* the `ws` of a live one by the late close event of the one before, is    *)
(* served again, after this and every later loss, while the bridge is up   *)
(* and the agent wants it.                                                 *)
Trouble ==
  \/ \E s \in Socket : Cut(s) \/ AuthTimeout(s) \/ AuthRefused(s)
  \/ Heartbeat /\ cut' # cut
Lost == shouldReconnect /\ ws = NoSocket /\ \E s \in Socket : agentEnd[s] = "closed"
Served == ws # NoSocket /\ ws = socket
AgentComesBack ==
  <>[][~ Trouble]_vars => (Lost ~> (Served \/ ~ up \/ ~ shouldReconnect))
=============================================================================
