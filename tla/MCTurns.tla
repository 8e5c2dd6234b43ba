------------------------------- MODULE MCTurns -------------------------------
(* An instance of Turns for TLC.                                           *)
EXTENDS Turns

TwoTurns == 1 .. 2
=============================================================================
