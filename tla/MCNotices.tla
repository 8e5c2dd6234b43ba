----------------------------- MODULE MCNotices -----------------------------
(* An instance of Notices for TLC.                                         *)
EXTENDS Notices

FourNotices == 1 .. 4
=============================================================================
