----------------------------- MODULE LaggingCopy -----------------------------
(***************************************************************************)
(* What the schedule promises those who follow it at a distance: a reader   *)
(* shows what the schedule itself showed at some version, never a mixture   *)
(* of versions, and it never goes back to an earlier one.                   *)
(***************************************************************************)
EXTENDS Naturals, Sequences

CONSTANTS
  Readers,     (* the copies of the schedule                                *)
  Blank        (* what a schedule without itineraries shows                 *)

VARIABLES
  history,     (* what the schedule showed at each of its versions          *)
  copies       (* of each reader, the version it is at and what it shows    *)

Init ==
  /\ \A v \in DOMAIN history : history[v] = Blank
  /\ copies = [r \in Readers |-> [version |-> 0, content |-> Blank]]

(* The schedule goes on to its next version.                                *)
Publish ==
  /\ Len(history') = Len(history) + 1
  /\ SubSeq(history', 1, Len(history)) = history
  /\ UNCHANGED copies

(* A reader goes on to a later version, skipping any number of them.        *)
CatchUp(r) ==
  /\ \E v \in (copies[r].version + 1)..Len(history) :
       copies' = [copies EXCEPT ![r] = [version |-> v, content |-> history[v]]]
  /\ UNCHANGED history

Next == Publish \/ \E r \in Readers : CatchUp(r)

Spec == Init /\ [][Next]_<<history, copies>>
=============================================================================
