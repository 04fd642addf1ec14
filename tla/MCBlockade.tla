----------------------------- MODULE MCBlockade ------------------------------
(* Small instances of Blockade.                                             *)
EXTENDS Blockade, TLC

CONSTANTS A, B, C

Points(n) == [i \in 0..(n - 1) |-> TRUE]
Segment(i, include_start, include_finish) ==
  [start |-> i, finish |-> i + 1, include_start |-> include_start, include_finish |-> include_finish]
Conflict(a, of_a, b, of_b) == [a |-> a, A |-> of_a, b |-> b, B |-> of_b]

(* Three robots in a ring: the way on of each passes the checkpoint where    *)
(* the next one may wait.  Robot B must not wait at its checkpoint 2.       *)
RingPoints == A :> Points(4) @@ B :> [Points(4) EXCEPT ![2] = FALSE] @@ C :> Points(3)
RingConflicts ==
  {Conflict(A, Segment(1, FALSE, FALSE), B, Segment(0, FALSE, TRUE)),
   Conflict(B, Segment(2, FALSE, FALSE), C, Segment(0, FALSE, TRUE)),
   Conflict(C, Segment(1, FALSE, FALSE), A, Segment(0, FALSE, TRUE))}
RingOrder == <<<<A, 0>>, <<A, 1>>, <<A, 2>>, <<B, 0>>, <<B, 1>>, <<B, 2>>, <<C, 0>>, <<C, 1>>>>
BothOrders == {RingOrder, Reverse(RingOrder)}
AfterTheConflicts == A :> {2} @@ B :> {} @@ C :> {}

(* The path of B crosses a segment of A twice.                              *)
CrossingPoints == A :> Points(3) @@ B :> Points(5)
CrossingConflicts ==
  {Conflict(A, Segment(1, FALSE, FALSE), B, Segment(1, FALSE, FALSE)),
   Conflict(A, Segment(1, FALSE, FALSE), B, Segment(3, FALSE, FALSE))}
CrossingOrder == <<<<A, 0>>, <<A, 1>>, <<B, 0>>, <<B, 1>>, <<B, 2>>, <<B, 3>>>>
OneOrder == {CrossingOrder}
Never == A :> {} @@ B :> {}

(* The ring meets the hypothesis of the theorem that robots stay apart, the *)
(* path that is crossed twice does not.                                     *)
ASSUME RingIsGuarded == EveryConflictIsGuarded <=> Conflicts = RingConflicts
=============================================================================
