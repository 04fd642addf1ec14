-------------------------- MODULE MCReservationNode --------------------------
(* rmf_reservation_node alone, with clients that send anything they may.    *)
EXTENDS ReservationNode, TLC

CONSTANTS p, q, w, r1, r2, r3

Req(l, c) == [location |-> l, cost |-> c]

MCLocations == {p, q, w}
MCRobots == {r1, r2, r3}
RobotsAreAlike == Permutations(MCRobots)
MCParkingSpots == {w}
(* two goals, and two goals of one cost (std::sort leaves these open)         *)
MCAlternatives == {<<Req(p, 2), Req(q, 1)>>, <<Req(w, 1), Req(q, 1)>>}
MCWaitLists == {<<w>>, << >>}
=============================================================================
