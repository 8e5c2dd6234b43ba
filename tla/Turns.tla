------------------------------- MODULE Turns -------------------------------
(***************************************************************************)
(* The turns of the in-app channel, packages/gateway/channels/in-app.ts: a *)
(* message posted to a session, its agent run with the retry and the       *)
(* fallback, and the events the session's streams are sent.                *)
(*                                                                         *)
(* The response-mode contexts are kept by session, not by turn.  A context *)
(* whose gate is off acts like none, so NoGate stands for both.  Tokens    *)
(* are snapshots of the whole text: of the held ones only the last counts, *)
(* and `held' keeps only that.                                             *)
(*                                                                         *)
(* The agent runs of a session wait for each other in its lane, and all    *)
(* runs share one place in the lane "in-app"; what the lanes promise is    *)
(* checked in CommandLanes and taken for granted here.                     *)
(***************************************************************************)
EXTENDS Naturals, Sequences, FiniteSets

CONSTANTS
  Session,  \* session ids
  Turn,     \* the posted messages, numbered in the order they are written
  NoSession,\* the session of a message that is not written yet
  MaxFaults,\* bound on the failures and delays of a behaviour
  MaxAlone  \* the same while there is one message only

ASSUME TurnAssumption == Turn \subseteq Nat /\ IsFiniteSet(Turn)
ASSUME SessionAssumption == NoSession \notin Session /\ MaxFaults \in Nat /\ MaxAlone \in Nat

VARIABLES
  wired,    \* messageHandler: whether wireMessageHandler succeeded at the start
  sess,     \* session of each turn
  phase,    \* progress of each turn
  attempt,  \* its run: 1 primary, 2 retry, 3 fallback
  emitted,  \* hasEmittedTokens
  tooled,   \* the current run has called its tool
  mode,     \* responseMode of the turns that were classified
  gate,     \* responseModeContexts: the stream gate of each session
  lane,     \* runs of each session, waiting or running, in order
  log,      \* the events sent to the streams of each session
  met,      \* turns that were under way at the same time as another of their session
  late,     \* turns whose session's gate timed out under them
  slips,    \* deliveries that threw: the turn, and what failed
  faults    \* failures and delays so far

turnVars == <<wired, sess, phase, attempt, emitted, tooled, mode, gate, lane, log, met, late,
              slips, faults>>

Phase == {"new", "posted", "preparing", "prepared", "waiting", "running",
          "pausing", "ended", "refused", "unheard"}
Mode == {"none", "action", "answer"}
NoGate == [on |-> FALSE, held |-> <<>>, timer |-> "off"]

(* An event: its type, the turn it is about and the run that caused it.    *)
(* "token" carries the text of that run so far and "done" its answer.      *)
Ev(type, t) == [type |-> type, turn |-> t, run |-> attempt[t]]
UnderWay(t) == phase[t] \notin {"new", "posted", "ended", "refused", "unheard"}
Running(t) == phase[t] = "running"

TurnInit ==
  /\ wired \in BOOLEAN
  /\ sess = [t \in Turn |-> NoSession]
  /\ phase = [t \in Turn |-> "new"]
  /\ attempt = [t \in Turn |-> 0]
  /\ emitted = [t \in Turn |-> FALSE]
  /\ tooled = [t \in Turn |-> FALSE]
  /\ mode = [t \in Turn |-> "none"]
  /\ gate = [s \in Session |-> NoGate]
  /\ lane = [s \in Session |-> <<>>]
  /\ log = [s \in Session |-> <<>>]
  /\ met = {}
  /\ late = {}
  /\ slips = {}
  /\ faults = 0

-----------------------------------------------------------------------------
(* Sending events.  SSEManager.emit reaches whoever is subscribed; log is  *)
(* what it was called with, subscribed or not.                             *)

(* flushGateBuffer: the held text goes out, the gate is off.               *)
Flushed(g) == IF g.on THEN g.held ELSE <<>>

(* A slip: a tool call opens the gate without discarding what it holds.    *)
PassedFlushing(g, e) ==
  IF g.on /\ g.timer # "expired" /\ e.type = "token"
    THEN [gate |-> [on |-> TRUE, held |-> <<e>>, timer |-> "running"], out |-> <<>>]
  ELSE [gate |-> NoGate, out |-> Flushed(g) \o <<e>>]

(* emitSSE: what an event of a run does to the gate, and what gets out.    *)
Passed(g, e) ==
  IF g.on /\ g.timer = "expired" THEN [gate |-> NoGate, out |-> Flushed(g) \o <<e>>]
  ELSE IF g.on /\ e.type = "token"
    THEN [gate |-> [on |-> TRUE, held |-> <<e>>, timer |-> "running"], out |-> <<>>]
  ELSE IF e.type = "tool" THEN [gate |-> NoGate, out |-> <<e>>]
  ELSE [gate |-> g, out |-> <<e>>]

Send(s, events) == log' = [log EXCEPT ![s] = @ \o events]
SetGate(s, g) == gate' = [gate EXCEPT ![s] = g]
EmitSSE(s, e) ==
  LET p == Passed(gate[s], e) IN SetGate(s, p.gate) /\ Send(s, p.out)
Alone == \A t, u \in Turn : phase[t] # "new" /\ phase[u] # "new" => t = u
Fault == faults < (IF Alone THEN MaxAlone ELSE MaxFaults) /\ faults' = faults + 1
Step(t, p) == phase' = [phase EXCEPT ![t] = p]

-----------------------------------------------------------------------------
(* handlePostMessage.                                                      *)

(* A message of session s arrives.                                         *)
Arrives(t, s) ==
  /\ phase[t] = "new" /\ \A u \in Turn : u < t => phase[u] # "new"
  /\ sess' = [sess EXCEPT ![t] = s]
  /\ Step(t, "posted")
  /\ UNCHANGED <<wired, attempt, emitted, tooled, mode, gate, lane, log, met, late, slips, faults>>

(* Storing the message fails: the request is answered 500.                 *)
PostRefused(t) ==
  /\ Fault
  /\ phase[t] = "posted"
  /\ Step(t, "refused")
  /\ UNCHANGED <<wired, sess, attempt, emitted, tooled, mode, gate, lane, log, met, late, slips>>

(* The cost optimizer answers instead of an agent: the request is blocked, *)
(* or it is a heartbeat.  The events go out before the request is answered.*)
PostAnswered(t) ==
  /\ Fault
  /\ phase[t] = "posted"
  /\ Step(t, "ended")
  /\ \/ Send(sess[t], <<Ev("error", t)>>)
     \/ Send(sess[t], <<Ev("token", t), Ev("done", t)>>)
  /\ UNCHANGED <<wired, sess, attempt, emitted, tooled, mode, gate, lane, met, late, slips>>

(* The request is answered 202 and the turn goes on by itself.             *)
PostAccepted(t) ==
  LET others == {u \in Turn : UnderWay(u) /\ sess[u] = sess[t]} IN
  /\ wired /\ phase[t] = "posted"
  /\ Step(t, "preparing")
  /\ met' = met \cup others \cup (IF others = {} THEN {} ELSE {t})
  /\ UNCHANGED <<wired, sess, attempt, emitted, tooled, mode, gate, lane, log, late, slips, faults>>

(* The wiring of the handler failed at the start, which only warned: the   *)
(* request is answered 202 all the same, and nothing follows.              *)
PostUnheard(t) ==
  /\ ~wired /\ phase[t] = "posted"
  /\ Step(t, "unheard")
  /\ UNCHANGED <<wired, sess, attempt, emitted, tooled, mode, gate, lane, log, met, late, slips,
                 faults>>

(* A slip: the failed turn is only logged.                                 *)
FailsQuietly(t, sent) ==
  Step(t, "ended") /\ SetGate(sess[t], NoGate) /\ Send(sess[t], sent)

(* The catch block: the session's context is dropped with what it holds.   *)
Failed(t, sent) ==
  /\ Step(t, "ended")
  /\ SetGate(sess[t], NoGate)
  /\ Send(sess[t], sent \o <<Ev("error", t)>>)

PrepareFails(t) ==
  /\ Fault
  /\ phase[t] = "preparing"
  /\ Failed(t, <<>>)
  /\ UNCHANGED <<wired, sess, attempt, emitted, tooled, mode, lane, met, late, slips>>

(* Classified, or not (m = "none": the context of another turn stays).     *)
FreshGate(m) == [NoGate EXCEPT !.on = (m = "action")]
Prepare(t) ==
  /\ phase[t] = "preparing"
  /\ Step(t, "prepared")
  /\ \E m \in Mode :
       /\ mode' = [mode EXCEPT ![t] = m]
       /\ IF m = "none" THEN UNCHANGED gate ELSE SetGate(sess[t], FreshGate(m))
  /\ UNCHANGED <<wired, sess, attempt, emitted, tooled, lane, log,
                 met, late, slips, faults>>

-----------------------------------------------------------------------------
(* The message handler, wireMessageHandler: the runs of a turn.            *)

(* runEmbeddedPiAgent enters the session's lane.                           *)
EnterLane(t, n) ==
  /\ Step(t, "waiting")
  /\ attempt' = [attempt EXCEPT ![t] = n]
  /\ emitted' = [emitted EXCEPT ![t] = FALSE]
  /\ tooled' = [tooled EXCEPT ![t] = FALSE]

CallHandler(t) ==
  /\ phase[t] = "prepared"
  /\ EnterLane(t, 1)
  /\ lane' = [lane EXCEPT ![sess[t]] = Append(@, t)]
  /\ UNCHANGED <<wired, sess, mode, gate, log, met, late, slips, faults>>

RunStarts(t) ==
  /\ phase[t] = "waiting"
  /\ t = Head(lane[sess[t]])
  /\ \A u \in Turn : ~Running(u)
  /\ Step(t, "running")
  /\ UNCHANGED <<wired, sess, attempt, emitted, tooled, mode, gate, lane, log, met, late, slips, faults>>

(* onPartialReply: noted as emitted, whether it passes the gate or not.  A *)
(* run streams one text and calls one tool here, in either order.          *)
PartialReply(t) ==
  /\ Running(t) /\ ~emitted[t]
  /\ emitted' = [emitted EXCEPT ![t] = TRUE]
  /\ EmitSSE(sess[t], Ev("token", t))
  /\ UNCHANGED <<wired, sess, phase, attempt, tooled, mode, lane, met, late, slips, faults>>

(* onAgentEvent of a tool call.                                            *)
ToolStart(t) ==
  /\ Running(t) /\ ~tooled[t]
  /\ tooled' = [tooled EXCEPT ![t] = TRUE]
  /\ EmitSSE(sess[t], Ev("tool", t))
  /\ UNCHANGED <<wired, sess, phase, attempt, emitted, mode, lane, met, late, slips, faults>>

(* Five seconds after a token was held, with no event in between.          *)
GateExpires(s) ==
  /\ Fault
  /\ gate[s].on /\ gate[s].timer = "running"
  /\ SetGate(s, [gate[s] EXCEPT !.timer = "expired"])
  /\ late' = late \cup {t \in Turn : UnderWay(t) /\ sess[t] = s}
  /\ UNCHANGED <<wired, sess, phase, attempt, emitted, tooled, mode, lane, log, met, slips>>

(* How a run ends: "runFails", or it succeeds and deliverResponse sends    *)
(* the answer ("ok"), fails to store it, or fails to count the messages    *)
(* once it has been sent.                                                  *)
Outcome == {"ok", "runFails", "saveFails", "countFails"}
(* A slip: the answer goes out before the flush.                           *)
DeliveredThenFlushed(t, o) ==
  IF o = "runFails" THEN <<>>
  ELSE (IF o = "saveFails" THEN <<>> ELSE <<Ev("done", t)>>) \o Flushed(gate[sess[t]])
(* deliverResponse.                                                        *)
Delivered(t, o) ==
  IF o = "runFails" THEN <<>>
  ELSE Flushed(gate[sess[t]]) \o IF o = "saveFails" THEN <<>> ELSE <<Ev("done", t)>>
GateLeft(t, o) == IF o = "runFails" THEN gate[sess[t]] ELSE NoGate
Noted(t, o) == slips' = IF o = "runFails" THEN slips ELSE slips \cup {<<t, o>>}
(* A slip: the place in the lane is kept.                                  *)
StayInLane(t) == Running(t) /\ UNCHANGED lane
(* The run leaves the lanes.                                               *)
LeaveLane(t) == lane' = [lane EXCEPT ![sess[t]] = Tail(@)]
(* A slip: a run is repeated whatever was emitted.                         *)
AlwaysRerun(t) == Running(t)
(* !hasEmittedTokens.                                                      *)
MayRerun(t) == ~emitted[t]

(* The answer goes out; the context of the session is deleted.             *)
RunSucceeds(t) ==
  /\ Running(t)
  /\ LeaveLane(t)
  /\ Step(t, "ended")
  /\ Send(sess[t], Delivered(t, "ok"))
  /\ SetGate(sess[t], NoGate)
  /\ UNCHANGED <<wired, sess, attempt, emitted, tooled, mode, met, late, slips, faults>>

(* Nothing was emitted yet: the same model is tried again in two seconds.  *)
PrimaryFails(t, o) ==
  /\ Fault /\ Running(t) /\ attempt[t] = 1 /\ MayRerun(t)
  /\ LeaveLane(t)
  /\ Step(t, "pausing")
  /\ Send(sess[t], Delivered(t, o))
  /\ SetGate(sess[t], GateLeft(t, o))
  /\ Noted(t, o)
  /\ UNCHANGED <<wired, sess, attempt, emitted, tooled, mode, met, late>>

RetryStarts(t) ==
  /\ phase[t] = "pausing"
  /\ EnterLane(t, 2)
  /\ lane' = [lane EXCEPT ![sess[t]] = Append(@, t)]
  /\ UNCHANGED <<wired, sess, mode, gate, log, met, late, slips, faults>>

(* Still nothing emitted, and there is a fallback model: it is announced   *)
(* and run.                                                                *)
RetryFails(t, o) ==
  LET p == Passed(GateLeft(t, o), [Ev("token", t) EXCEPT !.run = 3]) IN
  /\ Fault /\ Running(t) /\ attempt[t] = 2 /\ MayRerun(t)
  /\ EnterLane(t, 3)
  /\ lane' = [lane EXCEPT ![sess[t]] = Append(Tail(@), t)]
  /\ Send(sess[t], Delivered(t, o) \o p.out)
  /\ SetGate(sess[t], p.gate)
  /\ Noted(t, o)
  /\ UNCHANGED <<wired, sess, mode, met, late>>

(* Something was emitted, or nothing is left to try: the primary error is  *)
(* thrown and caught in handlePostMessage.                                 *)
RunGivesUp(t, o) ==
  /\ Fault /\ Running(t) /\ (attempt[t] = 1 => ~MayRerun(t))
  /\ LeaveLane(t)
  /\ Failed(t, Delivered(t, o))
  /\ Noted(t, o)
  /\ UNCHANGED <<wired, sess, attempt, emitted, tooled, mode, met, late>>

RunEnds(t) ==
  \/ RunSucceeds(t)
  \/ \E o \in Outcome \ {"ok"} :
       PrimaryFails(t, o) \/ RetryFails(t, o) \/ RunGivesUp(t, o)

TurnStep(t) ==
  \/ PostRefused(t) \/ PostAnswered(t) \/ PostAccepted(t) \/ PostUnheard(t)
  \/ PrepareFails(t) \/ Prepare(t) \/ CallHandler(t)
  \/ RunStarts(t) \/ PartialReply(t) \/ ToolStart(t) \/ RunEnds(t) \/ RetryStarts(t)

Next ==
  \/ \E t \in Turn : TurnStep(t) \/ \E s \in Session : Arrives(t, s)
  \/ \E s \in Session : GateExpires(s)

(* Every handler goes on, and a run ends: it has a timeout.                *)
Spec == TurnInit /\ [][Next]_turnVars
FairSpec ==
  Spec /\ \A t \in Turn :
    /\ WF_turnVars(Prepare(t) \/ PrepareFails(t) \/ CallHandler(t)
                   \/ RunStarts(t) \/ RetryStarts(t))
    /\ WF_turnVars(RunEnds(t))

-----------------------------------------------------------------------------
(* What the streams of a session are promised.                             *)

(* The channel's variables have their types; the lane of a session holds   *)
(* exactly its waiting and running runs, each once; a gate times only text *)
(* that it holds.                                                          *)
TypeOK ==
  /\ wired \in BOOLEAN
  /\ sess \in [Turn -> Session \cup {NoSession}]
  /\ phase \in [Turn -> Phase]
  /\ attempt \in [Turn -> 0 .. 3]
  /\ emitted \in [Turn -> BOOLEAN] /\ tooled \in [Turn -> BOOLEAN]
  /\ mode \in [Turn -> Mode]
  /\ \A s \in Session :
       /\ ~gate[s].on => gate[s] = NoGate
       /\ gate[s].timer = "off" <=> gate[s].held = <<>>
       /\ {lane[s][i] : i \in DOMAIN lane[s]} =
            {t \in Turn : sess[t] = s /\ phase[t] \in {"waiting", "running"}}
       /\ \A i, j \in DOMAIN lane[s] : lane[s][i] = lane[s][j] => i = j

Terminal(e) == e.type \in {"done", "error"}
Ended(t) ==
  sess[t] \in Session
  /\ \E i \in DOMAIN log[sess[t]] : log[sess[t]][i].turn = t /\ Terminal(log[sess[t]][i])

(* After its done or error event a turn is silent, also when held text has *)
(* to be flushed, runs are repeated or another turn shares the gate.  The  *)
(* one exception is real: the title check sits behind the answer in the    *)
(* same try block, and its failure repeats or fails the answered turn.     *)
SilentAfterEnd ==
  \A s \in Session : \A j \in DOMAIN log[s] : \A i \in 1 .. j - 1 :
    Terminal(log[s][i]) /\ log[s][j].turn = log[s][i].turn
      => <<log[s][i].turn, "countFails">> \in slips

(* The text of a turn, streamed and in its answer, comes from one of its   *)
(* runs: a run is repeated only if nothing of it was, or will be, shown.   *)
(* The one exception is real: a run that streamed nothing is repeated when *)
(* the title check throws after its answer is out.  Even then the streamed *)
(* text is that of one run; it is an answer that differs.                  *)
Text(e) == e.type \in {"token", "done"}

OneVoice ==
  \A s \in Session : \A i, j \in DOMAIN log[s] :
    LET e == log[s][i] IN
    /\ Text(e) /\ Text(log[s][j]) /\ e.turn = log[s][j].turn
    /\ e.run # log[s][j].run
    => /\ "done" \in {e.type, log[s][j].type}
       /\ <<e.turn, "countFails">> \in slips

(* In action mode no text is shown before the first tool call, except the  *)
(* text the turn ends with, unless the gate timed out, was shared with     *)
(* another turn of the session, or was taken down by a delivery that threw.*)
NoFiller ==
  \A s \in Session : \A i \in DOMAIN log[s] :
    LET t == log[s][i].turn IN
    /\ log[s][i].type = "token" /\ mode[t] = "action"
    /\ \A j \in 1 .. i - 1 : ~(log[s][j].turn = t /\ log[s][j].type = "tool")
    => \/ t \in met \cup late \/ \E o \in Outcome : <<t, o>> \in slips
       \/ i < Len(log[s]) /\ log[s][i + 1].turn = t /\ Terminal(log[s][i + 1])

(* Every turn that is accepted while a message handler is wired ends with  *)
(* an event that says so.                                                  *)
EveryTurnEnds == \A t \in Turn : phase[t] = "preparing" ~> Ended(t)

=============================================================================
