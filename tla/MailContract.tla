---------------------------- MODULE MailContract ----------------------------
(***************************************************************************)
(* What a mailbox between two devices promises: every message is accepted  *)
(* at most once, is then held, and leaves exactly once, delivered or lost. *)
(* A lost message never comes back and a delivered one is never delivered  *)
(* again.  Several messages leave together when a batch is handed over.    *)
(***************************************************************************)
CONSTANT Message
VARIABLE phase

PhaseType == [Message -> {"unsent", "held", "delivered", "lost"}]

Init == phase = [m \in Message |-> "unsent"]

Moves(S, p, q) ==
  /\ \A m \in S : phase[m] = p
  /\ phase' = [m \in Message |-> IF m \in S THEN q ELSE phase[m]]

Accept == \E m \in Message : Moves({m}, "unsent", "held")
Deliver == \E S \in SUBSET Message : Moves(S, "held", "delivered")
Lose == \E S \in SUBSET Message : Moves(S, "held", "lost")

Next == Accept \/ Deliver \/ Lose

Spec == Init /\ [][Next]_phase
=============================================================================
