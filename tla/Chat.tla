-------------------------------- MODULE Chat --------------------------------
(***************************************************************************)
(* The chat page of the desktop, useChat in                                *)
(* apps/desktop/src/renderer/src/hooks/useChat.ts, on top of the in-app    *)
(* channel: it posts a message, opens a stream of the session once the     *)
(* request is answered, and follows the stream until the turn is done.     *)
(* The stream a message opens is named by its turn.  It carries whatever   *)
(* is sent to the session from then on: events do not say whose they are.  *)
(***************************************************************************)
EXTENDS Turns

CONSTANTS
  MaxSwitches, \* bound on how often the user changes the session
  NoStream     \* no stream referenced, a value that is no turn

VARIABLES
  current,   \* currentSessionIdRef
  loading,   \* isLoading
  stream,    \* progress of the stream each message opens
  next,      \* position in the session's log of the next event it delivers
  ref,       \* eventSourceRef
  closing,   \* streams with a title timeout set
  switches   \* how often the session was changed

chatVars == <<current, loading, stream, next, ref, closing, switches>>
vars == <<turnVars, chatVars>>

StreamState == {"none", "posting", "opening", "open", "closed"}

ChatInit ==
  /\ TurnInit
  /\ current \in Session
  /\ loading = FALSE
  /\ stream = [t \in Turn |-> "none"]
  /\ next = [t \in Turn |-> 0]
  /\ ref = NoStream
  /\ closing = {}
  /\ switches = 0

(* eventSourceRef.current?.close(), then the reference is dropped.         *)
CloseRef(st) ==
  /\ stream' = IF ref \in Turn /\ st[ref] = "open" THEN [st EXCEPT ![ref] = "closed"] ELSE st
  /\ ref' = NoStream
(* A handler of stream t closes it and drops the reference, whatever it    *)
(* refers to by now.                                                       *)
CloseOwn(t) ==
  /\ stream' = [stream EXCEPT ![t] = IF @ = "open" THEN "closed" ELSE @]
  /\ ref' = NoStream

(* sendMessage.                                                            *)
SendMessage(t) ==
  /\ ~loading
  /\ Arrives(t, current)
  /\ loading' = TRUE
  /\ CloseRef([stream EXCEPT ![t] = "posting"])
  /\ UNCHANGED <<current, next, closing, switches>>

(* The answer to the request: an error, or the cue to open a stream.       *)
PostFails(t) ==
  /\ stream[t] = "posting" /\ phase[t] = "refused"
  /\ stream' = [stream EXCEPT ![t] = "closed"]
  /\ loading' = FALSE
  /\ UNCHANGED <<turnVars, current, next, ref, closing, switches>>
PostSucceeds(t) ==
  /\ stream[t] = "posting" /\ phase[t] \notin {"posted", "refused"}
  /\ stream' = [stream EXCEPT ![t] = "opening"]
  /\ UNCHANGED <<turnVars, current, loading, next, ref, closing, switches>>

(* The stream is opened and reaches handleStream.                          *)
OpenStream(t) ==
  /\ stream[t] = "opening"
  /\ stream' = [stream EXCEPT ![t] = "open"]
  /\ next' = [next EXCEPT ![t] = Len(log[sess[t]]) + 1]
  /\ ref' = t
  /\ UNCHANGED <<turnVars, current, loading, closing, switches>>

(* Texts and tool calls on the way are only displayed; the next event that *)
(* changes the state is taken with them.                                   *)
Pending(t) ==
  {i \in next[t] .. Len(log[sess[t]]) : log[sess[t]][i].type \in {"done", "error"}}
NextOf(t) == CHOOSE i \in Pending(t) : \A j \in Pending(t) : i <= j
NextEvent(t) == log[sess[t]][NextOf(t)]

(* The event listeners of stream t.                                        *)
Receive(t) ==
  /\ stream[t] = "open" /\ Pending(t) # {}
  /\ next' = [next EXCEPT ![t] = NextOf(t) + 1]
  /\ CASE NextEvent(t).type = "done" ->
            /\ loading' = FALSE
            /\ closing' = closing \cup {t}
            /\ UNCHANGED <<stream, ref>>
       [] NextEvent(t).type = "error" ->
            /\ CloseOwn(t)
            /\ loading' = FALSE
            /\ UNCHANGED closing
  /\ UNCHANGED <<turnVars, current, switches>>

(* The title timeout set by the done event, 15 s later.                    *)
TitleTimeout(t) ==
  /\ t \in closing
  /\ closing' = closing \ {t}
  /\ CloseOwn(t)
  /\ UNCHANGED <<turnVars, current, loading, next, switches>>

(* The connection of a stream breaks: an error event without a message.    *)
StreamBreaks(t) ==
  /\ Fault /\ stream[t] = "open"
  /\ CloseOwn(t)
  /\ loading' = FALSE
  /\ UNCHANGED <<wired, sess, phase, attempt, emitted, tooled, mode, gate, lane, log, met, late,
                 slips, current, next, closing, switches>>

(* The user opens another session.                                         *)
SwitchSession(s) ==
  /\ s # current /\ switches < MaxSwitches
  /\ current' = s
  /\ switches' = switches + 1
  /\ CloseRef(stream)
  /\ loading' = FALSE
  /\ UNCHANGED <<turnVars, next, closing>>

ChatStep(t) ==
  \/ SendMessage(t) \/ PostFails(t) \/ PostSucceeds(t) \/ OpenStream(t)
  \/ Receive(t) \/ TitleTimeout(t) \/ StreamBreaks(t)
ChatNext ==
  \/ \E t \in Turn : TurnStep(t) /\ UNCHANGED chatVars
  \/ \E s \in Session : GateExpires(s) /\ UNCHANGED chatVars
  \/ \E t \in Turn : ChatStep(t)
  \/ \E s \in Session : SwitchSession(s)

ChatSpec == ChatInit /\ [][ChatNext]_vars

-----------------------------------------------------------------------------
(* "Close any active stream" when the session changes, useChat.ts:236: an  *)
(* open stream is one of the session that is shown.                        *)
StreamsFollowSession == \A t \in Turn : stream[t] = "open" => sess[t] = current
=============================================================================
