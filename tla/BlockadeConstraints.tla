------------------------ MODULE BlockadeConstraints --------------------------
(***************************************************************************)
(* What keeps two robots of the traffic blockade apart.  Where the paths of *)
(* two robots conflict, each has a bracket of checkpoints; a constraint     *)
(* keeps a robot from entering its bracket unless the other robot stops     *)
(* before its own one or has left it.  A range is what a robot was assigned: *)
(* it is at or after checkpoint begin and may move up to checkpoint end.    *)
(***************************************************************************)
EXTENDS Integers, FiniteSetsExt

NoPoint == -1

Bracket ==
  [start : Nat, finish : Nat, include_start : BOOLEAN, include_finish : BOOLEAN]

-----------------------------------------------------------------------------
(* Brackets                                                                 *)

(* A checkpoint where the robot must not wait belongs to the bracket after  *)
(* it: the start moves back to behind the last checkpoint where it may.     *)
Expanded(bracket, can_hold) ==
  IF bracket.start = 0 \/ (can_hold[bracket.start] /\ ~bracket.include_start) THEN bracket
  ELSE LET holds == {i \in 0..(bracket.start - 1) : can_hold[i]}
       IN  IF holds = {} THEN [bracket EXCEPT !.start = 0, !.include_start = FALSE]
           ELSE [bracket EXCEPT !.start = Max(holds) + 1, !.include_start = TRUE]

Compatible(later, earlier) ==
  /\ later.start <= earlier.finish + 1
  /\ later.start = earlier.finish => later.include_start \/ earlier.include_finish
  /\ later.start = earlier.finish + 1 => later.include_start /\ earlier.include_finish

CanMerge(bracket0, bracket1) == Compatible(bracket0, bracket1) /\ Compatible(bracket1, bracket0)

Merged(bracket0, bracket1) ==
  LET both == {bracket0, bracket1}
      start == Min({b.start : b \in both})
      finish == Max({b.finish : b \in both})
  IN  [start |-> start, finish |-> finish,
       include_start |-> \E b \in both : b.start = start /\ b.include_start,
       include_finish |-> \E b \in both : b.finish = finish /\ b.include_finish]

-----------------------------------------------------------------------------
(* Constraints                                                              *)

(* The checkpoint a robot leaves to enter its bracket.                      *)
GoFrom(me) == IF me.include_start /\ me.start > 0 THEN me.start - 1 ELSE me.start

(* compute_blocker: what robot me must see of the robot other to go.  The   *)
(* other may hold before its bracket unless me will stay in its own for     *)
(* good; a bracket that includes its finish must be passed, not just reached. *)
Blocker(me, my_size, other, other_size, id) ==
  [from |-> GoFrom(me),
   blocked_by |-> id,
   hold |-> CASE me.include_finish /\ me.finish >= my_size - 1 -> NoPoint
              [] other.include_start -> other.start - 1
              [] OTHER -> other.start,
   end |-> IF other.include_finish /\ other.finish >= other_size - 1 THEN NoPoint
           ELSE other.finish,
   pass |-> other.include_finish]

CanHold(blocker, range) == range.end <= blocker.hold

(* Mutant: a bracket that includes its finish is left when it is reached.    *)
HasReachedIt(blocker, range) == blocker.end # NoPoint /\ blocker.end <= range.begin

HasReached(blocker, range) ==
  /\ blocker.end # NoPoint
  /\ blocker.end <= range.begin
  /\ blocker.end < range.end \/ (~blocker.pass /\ blocker.end = range.begin)

Satisfied(blocker, range) == CanHold(blocker, range) \/ HasReached(blocker, range)

(* A robot at a position (2c at checkpoint c, 2c + 1 between c and c + 1) is  *)
(* in its bracket.  The moderator takes it for gone from the last checkpoint *)
(* of the bracket when it may leave it.                                     *)
InBracket(bracket, range, position) ==
  /\ \/ position > 2 * bracket.start
     \/ bracket.include_start /\ position = 2 * bracket.start
  /\ \/ position < 2 * bracket.finish
     \/ /\ bracket.include_finish /\ position = 2 * bracket.finish
        /\ range.end <= bracket.finish
=============================================================================
