----------------------------- MODULE SpotLedger -----------------------------
(***************************************************************************)
(* What rmf_reservation_node promises about parking spots, whatever its     *)
(* tickets and queues do: every spot has at most one robot as its owner, a  *)
(* robot becomes the owner of a spot nobody owns, and a spot never passes   *)
(* from one robot to another without having been free in between.           *)
(***************************************************************************)
CONSTANTS
  Locations,   (* the named spots                                          *)
  Robots,      (* the robots, each one a fleet_name/robot_name pair        *)
  Nobody       (* the owner of a free spot                                 *)

VARIABLE owner

TypeOK == owner \in [Locations -> Robots \cup {Nobody}]

Init == owner = [l \in Locations |-> Nobody]

(* One step may give up any number of spots and hand out free ones to one  *)
(* robot; what is owned by somebody else is left alone or given up.         *)
Transfer(r) ==
  /\ owner' \in [Locations -> Robots \cup {Nobody}]
  /\ \A l \in Locations :
       \/ owner'[l] = owner[l]
       \/ owner[l] = Nobody /\ owner'[l] = r
       \/ owner[l] = r /\ owner'[l] = Nobody

Next == \E r \in Robots : Transfer(r)

Spec == Init /\ [][Next]_owner
=============================================================================
