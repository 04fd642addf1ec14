------------------------ MODULE MCReservationProtocol ------------------------
(* Small fleets for ReservationProtocol.                                    *)
EXTENDS ReservationProtocol

CONSTANTS p, q, w, x, r1, r2

NoAlternatives == {}      \* the robots make their own requests
FourSpots == {p, q, w, x}
ParkingWX == {w, x}
WaitsW == {<<w>>}
WaitsWThenX == {<<w, x>>}
WaitsWX == {<<w, x>>, <<x, w>>}
GoalsPQ == {<<p>>, <<q>>}
GoalsPW == {<<p>>, <<w>>}
GoalsPQW == {<<p>>, <<q>>, <<w>>}
GoalsPair == {<<p, q>>, <<q>>}
AllKept == [r \in Robots |-> {}]
OneSkipsP == [r \in Robots |-> IF r = r1 THEN {p} ELSE {}]

(* Two parking spots are enough for the two robots when none of them is a    *)
(* goal, which is the hypothesis of the theorems on who waits.              *)
ASSUME ParkingIsEnough ==
  EnoughParking <=> WaitLists = WaitsWX /\ GoalLists \in {GoalsPQ, GoalsPair}
ASSUME OneGoalRemains == SomeGoalIsKept
=============================================================================
