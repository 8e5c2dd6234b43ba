----------------------------- MODULE MCPairing -----------------------------
(* Instances of Pairing for TLC.                                           *)
EXTENDS Pairing

CONSTANTS d1, d2, p1, p2, t1, t2

TwoDesk == {d1, d2}
TwoPhones == {p1, p2}
AllIds == TwoDesk \cup TwoPhones
=============================================================================
