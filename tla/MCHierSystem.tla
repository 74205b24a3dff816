----------------------------- MODULE MCHierSystem ------------------------------
(***************************************************************************)
(* Instances of HierSystem for TLC: two waypoints, one lap, the first of   *)
(* them one that must be visited and the second one that may be given up.  *)
(***************************************************************************)
EXTENDS HierSystem

Stable == <<1>>
WaitsTwo == <<1, 2>>
LoopOfTwo == {[n |-> 2, loop |-> TRUE, laps |-> 1, must |-> {0}]}

===============================================================================
