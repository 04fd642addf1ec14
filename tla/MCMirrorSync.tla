---------------------------- MODULE MCMirrorSync ----------------------------
(* A route of the past and one of the present.                              *)
EXTENDS MirrorSync

CONSTANTS p1, p2, m1, m2

Past == [start |-> 1, finish |-> 2]
Present == [start |-> 8, finish |-> 9]

(* Participants do not plan for times that are culled already.              *)
MCItineraries == [time \in {0, 5} |-> IF time = 0 THEN {<<Past, Present>>} ELSE {<<Present>>}]
=============================================================================
