------------------------------ MODULE ToolCalls ------------------------------
(***************************************************************************)
(* What the gateway may rely on when it routes tool calls to the desktop:  *)
(* a call that was begun gets exactly one outcome, an answer only after    *)
(* its tool has ended; a tool runs at most once per call and never before  *)
(* the call.  A call may fail although its tool runs, even while it runs.  *)
(***************************************************************************)
CONSTANT Call
VARIABLES outcome, tool

vars == <<outcome, tool>>

Init ==
  /\ outcome = [c \in Call |-> "new"]
  /\ tool = [c \in Call |-> "idle"]

Begin(c) ==
  /\ outcome[c] = "new"
  /\ outcome' = [outcome EXCEPT ![c] = "open"]
  /\ UNCHANGED tool

Start(c) ==
  /\ tool[c] = "idle" /\ outcome[c] # "new"
  /\ tool' = [tool EXCEPT ![c] = "running"]
  /\ UNCHANGED outcome

End(c) ==
  /\ tool[c] = "running"
  /\ tool' = [tool EXCEPT ![c] = "done"]
  /\ UNCHANGED outcome

Answer(c) ==
  /\ outcome[c] = "open" /\ tool[c] = "done"
  /\ outcome' = [outcome EXCEPT ![c] = "answered"]
  /\ UNCHANGED tool

FailTogether(S) ==
  /\ \A c \in S : outcome[c] = "open"
  /\ outcome' = [c \in Call |-> IF c \in S THEN "failed" ELSE outcome[c]]
  /\ UNCHANGED tool

Next ==
  \/ \E c \in Call : Begin(c) \/ Start(c) \/ End(c) \/ Answer(c)
  \/ \E S \in SUBSET Call : FailTogether(S)

Spec == Init /\ [][Next]_vars
=============================================================================
