------------------------------ MODULE MCAgents ------------------------------
(* An instance of Agents for TLC.                                          *)
EXTENDS Agents

TwoRuns == 1 .. 2
FirstTask == <<1>>
=============================================================================
