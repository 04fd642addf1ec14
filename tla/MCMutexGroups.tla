---------------------------- MODULE MCMutexGroups ----------------------------
(* Small instances of MutexGroups.                                          *)
EXTENDS MutexGroups, TLC

CONSTANTS r1, r2, r3, a, b

MCRobots == {r1, r2}
MCGroups == {a, b}

(* No two robots ever claim the same two groups.                            *)
Apart == (r1 :> {{a}}) @@ (r2 :> {{a}, {a, b}})
OneGroup == [r \in Robots |-> {{a}}]
Both == [r \in MCRobots |-> {{a, b}}]

(* The later of two claims is earlier within its second.                    *)
Descending == [t \in Times |-> ClaimLimit - t]
=============================================================================
