------------------------------ MODULE RouteChain ------------------------------
(***************************************************************************)
(* How the schedule database (Database.cpp) keeps the past of one route, so *)
(* that it can tell a reader who last saw version "after" what has changed. *)
(*                                                                         *)
(* A route is stored as a chain of entries, each one linked by a transition *)
(* to its predecessor: here a sequence, the oldest linked entry first.  The *)
(* last entry is current; an entry without a route says that it was erased. *)
(* Of a trajectory only its times matter; a delay moves both of them.       *)
(***************************************************************************)
EXTENDS Integers, FiniteSets, Sequences, FiniteSetsExt

CONSTANTS
  DelayStep,   (* by how much a delay moves a route                         *)
  NoRoute      (* the route of an entry that erases                         *)

ASSUME ChainAssumption == DelayStep \in Nat \ {0}

Late(route, times) ==
  [start |-> route.start + times * DelayStep, finish |-> route.finish + times * DelayStep]

Entry(version, kind, route) == [version |-> version, kind |-> kind, route |-> route]

Newest(chain) == chain[Len(chain)]

(* insert_items: a new chain, without predecessors.                         *)
Added(route, version) == <<Entry(version, "add", route)>>

(* apply_delay: the current entry becomes the predecessor of a late one.    *)
Delayed(chain, version) ==
  Append(chain, Entry(version, "delay", Late(Newest(chain).route, 1)))

(* apply_description_update: the same route again, by a transition without  *)
(* a delay.                                                                 *)
Described(chain, version) ==
  Append(chain, Entry(version, "describe", Newest(chain).route))

(* clear: the current entry becomes the predecessor of one that erases it,  *)
(* and every transition but this one and the one before is severed.         *)
Erased(chain, version) ==
  LET kept == SubSeq(chain, IF Len(chain) = 1 THEN 1 ELSE Len(chain) - 1, Len(chain))
  IN  Append(kept, Entry(version, "erase", NoRoute))

(* get_last_known_ancestor: the index of the entry a reader at version      *)
(* "after" knows, 0 when no linked entry is that old.                       *)
LastKnown(chain, after) ==
  Max({0} \cup {i \in 1..Len(chain) : chain[i].version <= after})

(* PatchRelevanceInspector::inspect, for a query of everything: whether the *)
(* reader has a route of this chain, has to be told of a newer entry, and   *)
(* what it is told: an erasure, the versions of the delays, or an addition. *)
Knows(chain, after) ==
  LET last == LastKnown(chain, after) IN last # 0 /\ chain[last].route # NoRoute

IsErasure(chain, after) == Knows(chain, after) /\ Newest(chain).route = NoRoute

DelaysSince(chain, after) ==
  IF Knows(chain, after) /\ Newest(chain).route # NoRoute
  THEN {chain[i].version :
          i \in {i \in (LastKnown(chain, after) + 1)..Len(chain) : chain[i].kind = "delay"}}
  ELSE {}

IsAddition(chain, after) == ~Knows(chain, after) /\ Newest(chain).route # NoRoute

(* CullRelevanceInspector: the last route the chain had.                    *)
LastRoute(chain) ==
  IF Newest(chain).route # NoRoute THEN Newest(chain).route ELSE chain[Len(chain) - 1].route
=============================================================================
