----------------------------- MODULE MCPhoneLink -----------------------------
(* Instances of PhoneLink for TLC.                                         *)
EXTENDS PhoneLink

CONSTANTS m1, m2

TwoMessages == {m1, m2}
=============================================================================
