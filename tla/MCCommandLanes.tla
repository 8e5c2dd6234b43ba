--------------------------- MODULE MCCommandLanes ---------------------------
(* An instance of CommandLanes for TLC: two turns of one session, each of  *)
(* which awaits a run in the main lane, and a command of the main lane.    *)
EXTENDS CommandLanes, TLC

CONSTANTS s, main, t1, t2, r1, r2, x

Lanes == {s, main}
Tasks == {t1, t2, r1, r2, x}
LaneOfTask == (t1 :> s) @@ (t2 :> s) @@ [t \in {r1, r2, x} |-> main]
ParentOfTask == (r1 :> t1) @@ (r2 :> t2) @@ [t \in {t1, t2, x} |-> NoTask]
=============================================================================
