--------------------------- MODULE MCDesktopBridge ---------------------------
(* Instances of DesktopBridge for TLC.                                     *)
EXTENDS DesktopBridge

CONSTANT c1

OneCall == {c1}
=============================================================================
