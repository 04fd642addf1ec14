------------------------- MODULE ScheduleSync_proofs -------------------------
(***************************************************************************)
(* Proofs that the schedule database shows only itineraries its participant *)
(* had, and none that is older than one it has shown, for any number of     *)
(* changes, losses and restarts of the schedule node, and changes that      *)
(* arrive in any order; and that the participant is able to retransmit all   *)
(* changes since its last plan.                                             *)
(*                                                                         *)
(* Every change, wherever it is, describes how one logged itinerary follows *)
(* from the one before it.  The tracker's own invariant orders the changes; *)
(* what remains to be shown is that the database stands where the tracker   *)
(* expects it to, unless a saved plan will put it there.                    *)
(***************************************************************************)
EXTENDS ScheduleSync, InconsistencyTracker_proofs

(* A change up to the participant's last one says how itineraries follow.   *)
Describes(itineraries, last, c) ==
  /\ c.version <= last
  /\ c.kind = "set" => itineraries[c.version] = [plan |-> c.plan, delays |-> 0]
  /\ c.kind = "clear" => itineraries[c.version] = NoItinerary
  /\ c.kind = "delay" =>
       /\ c.version > 0 /\ itineraries[c.version - 1] # NoItinerary
       /\ itineraries[c.version] =
            [plan |-> itineraries[c.version - 1].plan,
             delays |-> itineraries[c.version - 1].delays + 1]

ChangesDescribe ==
  /\ \A c \in network : Describes(log, participant.version, c)
  /\ \A c \in participant.history : Describes(log, participant.version, c)
  /\ \A v \in Saved(tracker) : Describes(log, participant.version, tracker.changes[v])

(* The database has applied what the tracker expects it to, or a new plan   *)
(* is saved that needs nothing before it.                                   *)
StandsBefore(db, t, itineraries) ==
  /\ db.applied < t.expected
  /\ \/ db.applied = t.expected - 1
     \/ /\ t.expected \in Saved(t)
        /\ itineraries[t.expected].plan # 0 /\ itineraries[t.expected].delays = 0

Shows(db, itineraries) ==
  db.itinerary = IF db.applied = -1 THEN NoItinerary ELSE itineraries[db.applied]

DatabaseInv ==
  /\ Shows(database, log)
  /\ StandsBefore(database, tracker, log)
  /\ database.applied <= participant.version
  /\ database.id <= database.restarts

ParticipantInv ==
  /\ log \in [Versions -> Itinerary]
  /\ participant.itinerary =
       IF participant.version = -1 THEN NoItinerary ELSE log[participant.version]
  /\ participant.plan <= participant.version + 1
  /\ participant.itinerary.delays <= participant.version + 1
  /\ participant.version >= 0 => participant.itinerary.delays <= participant.version
  /\ HistoryIsComplete

SyncInv == TypeOK /\ TrackerInv /\ ParticipantInv /\ ChangesDescribe /\ DatabaseInv

-----------------------------------------------------------------------------
(* Changes and numbers *)

(* The sets of numbers, and the empty itinerary is one.                     *)
LEMMA Numbers ==
  /\ VersionLimit \in Nat /\ RestartLimit \in Nat
  /\ Versions = 0..VersionLimit /\ Plans = 1..(VersionLimit + 1) /\ Ids = 0..RestartLimit
  /\ NoItinerary \in Itinerary
<1>1. VersionLimit \in Nat /\ RestartLimit \in Nat
  BY TrackerAssumption, SyncAssumption
<1> QED BY <1>1 DEF Versions, Plans, Ids, NoItinerary, Itinerary

(* What a change is made of.                                                *)
LEMMA ChangeFields ==
  ASSUME NEW c \in Change
  PROVE  /\ c.version \in Versions /\ c.version \in Nat /\ c.nullifying \in BOOLEAN
         /\ c.kind \in {"set", "delay", "clear"} /\ c.long \in BOOLEAN
         /\ c.nullifying <=> c.kind = "set"
         /\ c.kind = "set" => c.plan \in Plans /\ c.plan # 0
<1>1. c \in ItineraryChange
  BY ChangeAssumption
<1>2. \A v \in Versions : v \in Nat
  BY Numbers
<1>3. \A plan \in Plans : plan # 0
  BY Numbers
<1>4. CASE c \in [version : Versions, id : Ids, kind : {"set"}, plan : Plans,
                 nullifying : {TRUE}, long : {FALSE}]
  BY <1>2, <1>3, <1>4
<1>5. CASE c \in [version : Versions, id : Ids, kind : {"delay"}, plan : {0},
                 nullifying : {FALSE}, long : BOOLEAN]
  BY <1>2, <1>5
<1>6. CASE c \in [version : Versions, id : Ids, kind : {"clear"}, plan : {0},
                 nullifying : {FALSE}, long : {FALSE}]
  BY <1>2, <1>6
<1> QED BY <1>1, <1>4, <1>5, <1>6 DEF ItineraryChange

(* A change that describes a new plan is one.                               *)
LEMMA NewPlansAreSet ==
  ASSUME NEW c \in Change, NEW itineraries \in [Versions -> Itinerary], NEW last,
         Describes(itineraries, last, c),
         itineraries[c.version].plan # 0, itineraries[c.version].delays = 0
  PROVE  c.kind = "set"
<1>1. CASE c.kind = "clear"
  BY <1>1 DEF Describes, NoItinerary
<1>2. CASE c.kind = "delay"
  <2>1. c.version \in Nat /\ c.version > 0 /\ c.version \in Versions
    BY <1>2, ChangeFields DEF Describes
  <2>2. c.version - 1 \in Versions
    BY <2>1, Numbers
  <2>3. itineraries[c.version - 1].delays \in Nat
    BY <2>2, Numbers, SMTT(30) DEF Itinerary
  <2>4. itineraries[c.version].delays = itineraries[c.version - 1].delays + 1
    BY <1>2 DEF Describes
  <2> QED BY <2>3, <2>4
<1> QED BY <1>1, <1>2, ChangeFields

(* What the handler does to the database when the tracker lets it: the      *)
(* itinerary it shows becomes the one after the change.                     *)
LEMMA AppliedIsLogged ==
  ASSUME SyncInv, NEW c \in Change, Describes(log, participant.version, c),
         c.kind = "set" \/ database.applied = c.version - 1
  PROVE  /\ Applied(database, c).itinerary = log[c.version]
         /\ Applied(database, c).applied = c.version
         /\ Applied(database, c).id = database.id
         /\ Applied(database, c).restarts = database.restarts
         /\ Applied(database, c) \in [id : Ids, itinerary : Itinerary,
                                      applied : Versions \cup {-1}, restarts : 0..RestartLimit]
<1> DEFINE new == CASE c.kind = "set" -> [plan |-> c.plan, delays |-> 0]
                    [] c.kind = "clear" -> NoItinerary
                    [] c.kind = "delay" -> IF database.itinerary = NoItinerary
                                           THEN database.itinerary
                                           ELSE [database.itinerary EXCEPT !.delays = @ + 1]
<1>1. database \in [id : Ids, itinerary : Itinerary, applied : Versions \cup {-1},
                    restarts : 0..RestartLimit]
      /\ log \in [Versions -> Itinerary]
  BY DEF SyncInv, TypeOK, ParticipantInv
<1>2. Applied(database, c) = [database EXCEPT !.applied = c.version, !.itinerary = new]
  BY DEF Applied
<1>3. new = log[c.version]
  <2>1. CASE c.kind = "set"
    BY <2>1 DEF Describes
  <2>2. CASE c.kind = "clear"
    BY <2>2 DEF Describes
  <2>3. CASE c.kind = "delay"
    <3>1. /\ c.version > 0 /\ c.version \in Nat /\ database.applied = c.version - 1
          /\ log[c.version - 1] # NoItinerary
          /\ log[c.version] = [plan |-> log[c.version - 1].plan,
                               delays |-> log[c.version - 1].delays + 1]
      BY <2>3, ChangeFields DEF Describes
    <3>2. database.itinerary = log[c.version - 1]
      BY <3>1 DEF SyncInv, DatabaseInv, Shows
    <3>3. database.itinerary \in Itinerary
      BY <1>1
    <3>4. new = [database.itinerary EXCEPT !.delays = @ + 1]
      BY <2>3, <3>1, <3>2
    <3>5. [database.itinerary EXCEPT !.delays = @ + 1]
            = [plan |-> database.itinerary.plan, delays |-> database.itinerary.delays + 1]
      BY <3>3 DEF Itinerary
    <3> QED BY <3>1, <3>2, <3>4, <3>5
  <2> QED BY <2>1, <2>2, <2>3, ChangeFields
<1>4. c.version \in Versions /\ log[c.version] \in Itinerary
  BY <1>1, ChangeFields
<1> HIDE DEF new
<1> QED BY <1>1, <1>2, <1>3, <1>4

-----------------------------------------------------------------------------
(* What the tracker decides *)

(* A saved change is an old one or the new one.                             *)
SavesOnly(t, u, c) ==
  \A w \in Saved(u) : (w \in Saved(t) /\ u.changes[w] = t.changes[w]) \/ u.changes[w] = c

(* An accepted change is a new plan, or the one that is expected when there *)
(* is no gap.                                                               *)
Accepts(t, u, c) ==
  /\ c.version >= t.expected /\ u.expected = c.version + 1
  /\ c.kind = "set" \/ (c.version = t.expected /\ t.ranges = {})

(* A change that has to wait changes nothing of what is expected, unless it *)
(* is a plan, which is expected then.                                       *)
Waits(t, u, c) ==
  \/ u.expected = t.expected /\ Saved(t) \subseteq Saved(u)
  \/ c.kind = "set" /\ c.version >= t.expected /\ u.expected = c.version /\ c.version \in Saved(u)

Decides(t, h, c) ==
  /\ SavesOnly(t, h.tracker, c)
  /\ IF h.accepted THEN Accepts(t, h.tracker, c) ELSE Waits(t, h.tracker, c)

(* The tracker with a change saved, and other ranges and expectations.      *)
LEMMA SavingSaves ==
  ASSUME NEW t \in Tracker, NEW c \in Change, NEW u, u.changes = SavedWith(t, c)
  PROVE  Saved(u) = Saved(t) \cup {c.version} /\ SavesOnly(t, u, c)
<1>1. Saved(u) = Saved(t) \cup {c.version}
  BY SavedWithFields
<1>2. \A w \in Versions : u.changes[w] = IF w = c.version THEN c ELSE t.changes[w]
  BY SavedWithFields
<1> QED BY <1>1, <1>2 DEF SavesOnly, Saved

(* The branch without a gap.                                                *)
LEMMA ConsistentDecides ==
  ASSUME NEW t, Ordered(t), t.ranges = {}, NEW c \in Change, c.version >= t.expected
  PROVE  Decides(t, CheckConsistent(Known(t, c), c), c)
<1> DEFINE k == Known(t, c)
           h == CheckConsistent(k, c)
<1>1. t \in Tracker BY DEF Ordered
<1>2. /\ k \in Tracker /\ k.expected = t.expected /\ k.changes = t.changes
      /\ Saved(k) = Saved(t)
  BY <1>1, KnownFields
<1>3. c.nullifying <=> c.kind = "set"
  BY ChangeFields
<1> HIDE DEF k
<1>4. CASE c.nullifying \/ c.version = k.expected
  <2> DEFINE u == [k EXCEPT !.expected = c.version + 1]
  <2>1. h = [tracker |-> u, accepted |-> TRUE]
    BY <1>4 DEF CheckConsistent, Accept
  <2>2. u.expected = c.version + 1 /\ u.changes = t.changes
    BY <1>2 DEF Tracker
  <2> HIDE DEF u
  <2>3. Saved(u) = Saved(t)
    BY <2>2 DEF Saved
  <2> HIDE DEF h
  <2> QED BY <1>2, <1>3, <1>4, <2>1, <2>2, <2>3 DEF Decides, SavesOnly, Accepts, h, k
<1>5. CASE ~(c.nullifying \/ c.version = k.expected)
  <2> DEFINE u == [k EXCEPT !.ranges = {[lower |-> k.expected, upper |-> c.version - 1]},
                            !.changes = SavedWith(k, c)]
  <2>1. h = [tracker |-> u, accepted |-> FALSE]
    BY <1>5 DEF CheckConsistent, Save
  <2>2. u.expected = t.expected /\ u.changes = SavedWith(t, c)
    BY <1>2 DEF Tracker, SavedWith
  <2> HIDE DEF u
  <2>3. Saved(u) = Saved(t) \cup {c.version} /\ SavesOnly(t, u, c)
    BY <1>1, <2>2, SavingSaves
  <2> HIDE DEF h
  <2> QED BY <2>1, <2>2, <2>3 DEF Decides, Waits, h, k
<1> QED BY <1>4, <1>5

(* A plan while there are gaps.                                             *)
LEMMA NullifyingDecides ==
  ASSUME NEW t, Ordered(t), NEW c \in Change, c.version >= t.expected, c.nullifying
  PROVE  Decides(t, CheckNullifying(Known(t, c), c), c)
<1> DEFINE k == Known(t, c)
           h == CheckNullifying(k, c)
<1>1. t \in Tracker BY DEF Ordered
<1>2. /\ k \in Tracker /\ k.expected = t.expected /\ k.changes = t.changes
      /\ Saved(k) = Saved(t)
  BY <1>1, KnownFields
<1>3. c.kind = "set" /\ c.version \in Versions
  BY ChangeFields
<1> HIDE DEF k
<1>4. CASE NotBefore(k, c.version) = {}
  <2> DEFINE u == [k EXCEPT !.ranges = {}, !.changes = NothingSaved, !.expected = c.version + 1]
  <2>1. h = [tracker |-> u, accepted |-> TRUE]
    BY <1>4 DEF CheckNullifying, Accept
  <2>2. u.expected = c.version + 1 /\ u.changes = NothingSaved
    BY <1>2 DEF Tracker
  <2> HIDE DEF u
  <2>3. Saved(u) = {}
    BY <2>2 DEF Saved, NothingSaved
  <2> HIDE DEF h
  <2> QED BY <1>3, <2>1, <2>2, <2>3 DEF Decides, SavesOnly, Accepts, h, k
<1>5. CASE NotBefore(k, c.version) # {}
  <2> DEFINE at == RangeAt(k, c.version)
             later == {r \in k.ranges : r.upper > at.upper}
             rest == [lower |-> c.version + 1, upper |-> at.upper]
             kept == [k EXCEPT !.changes = SavedWith(k, c)]
             left == IF c.version = at.upper THEN later ELSE later \cup {rest}
             u == [k EXCEPT !.ranges = left, !.changes = SavedFrom(kept, c.version),
                            !.expected = c.version]
  <2>1. h = [tracker |-> u, accepted |-> FALSE]
    BY <1>5 DEF CheckNullifying, Save
  <2> HIDE DEF left
  <2>2. u.expected = c.version /\ u.changes = SavedFrom(kept, c.version)
    BY <1>2 DEF Tracker
  <2>3. kept.changes = SavedWith(t, c)
    BY <1>2 DEF Tracker, SavedWith
  <2> HIDE DEF u, kept, h
  <2>4. \A w \in Versions : kept.changes[w] = IF w = c.version THEN c ELSE t.changes[w]
    BY <1>1, <2>3, SavedWithFields
  <2>5. \A w \in Versions : u.changes[w] = IF w >= c.version THEN kept.changes[w] ELSE NoChange
    BY <2>2 DEF SavedFrom
  <2>6. c.version \in Saved(u)
    <3>1. c.version >= c.version
      BY ChangeFields
    <3>2. u.changes[c.version] = c
      BY <1>3, <2>4, <2>5, <3>1
    <3> QED BY <1>3, <3>2, TrackerAssumption DEF Saved
  <2>7. SavesOnly(t, u, c)
    <3>1. SUFFICES ASSUME NEW w \in Versions, u.changes[w] # NoChange
                   PROVE  (w \in Saved(t) /\ u.changes[w] = t.changes[w]) \/ u.changes[w] = c
      BY DEF SavesOnly, Saved
    <3>2. u.changes[w] = kept.changes[w]
      BY <2>5, <3>1
    <3> QED BY <2>4, <3>1, <3>2 DEF Saved
  <2> QED BY <1>3, <2>1, <2>2, <2>6, <2>7 DEF Decides, Waits, h, k
<1> QED BY <1>4, <1>5

(* Any other change while there are gaps.                                   *)
LEMMA MissingDecides ==
  ASSUME NEW t, Ordered(t), NEW c \in Change
  PROVE  Decides(t, CheckMissing(Known(t, c), c), c)
<1> DEFINE k == Known(t, c)
           at == RangeAt(k, c.version)
           ranges == IF NotBefore(k, c.version) = {}
                     THEN k.ranges \cup Gap(HighestSaved(k) + 1, c.version - 1)
                     ELSE (k.ranges \ {at}) \cup Gap(at.lower, c.version - 1)
                                            \cup Gap(c.version + 1, at.upper)
           u == [k EXCEPT !.ranges = ranges, !.changes = SavedWith(k, c)]
           h == CheckMissing(k, c)
<1>1. t \in Tracker BY DEF Ordered
<1>2. k \in Tracker /\ k.expected = t.expected /\ k.changes = t.changes
  BY <1>1, KnownFields
<1> HIDE DEF k
<1>3. h = [tracker |-> u, accepted |-> FALSE]
  BY DEF CheckMissing, Save
<1> HIDE DEF ranges, h
<1>4. u.expected = t.expected /\ u.changes = SavedWith(t, c)
  BY <1>2 DEF Tracker, SavedWith
<1> HIDE DEF u
<1>5. Saved(u) = Saved(t) \cup {c.version} /\ SavesOnly(t, u, c)
  BY <1>1, <1>4, SavingSaves
<1> QED BY <1>3, <1>4, <1>5 DEF Decides, Waits, h, k

(* All of it.                                                               *)
LEMMA HandledDecides ==
  ASSUME NEW t, Ordered(t), NEW c \in Change
  PROVE  Decides(t, Handled(t, c), c)
<1> DEFINE k == Known(t, c)
           u == [k EXCEPT !.changes = SavedWith(t, c)]
<1>1. t \in Tracker BY DEF Ordered
<1>2. k \in Tracker /\ k.expected = t.expected /\ k.changes = t.changes
  BY <1>1, KnownFields
<1>3. c.version \in Int /\ t.expected \in Int
  BY <1>1, ChangeFields, Numbers DEF Tracker
<1>4. CASE c.version < t.expected
  <2>1. Handled(t, c) = [tracker |-> t, accepted |-> FALSE]
    BY <1>4 DEF Handled, Save
  <2> QED BY <2>1 DEF Decides, SavesOnly, Waits
<1>5. CASE ~(c.version < t.expected)
  <2>1. Handled(t, c) = Check(t, c) /\ c.version >= t.expected
    BY <1>3, <1>5 DEF Handled
  <2>2. Check(t, c) = IF t.ranges = {} THEN CheckConsistent(k, c)
                      ELSE IF c.version \in Saved(t) THEN [tracker |-> u, accepted |-> FALSE]
                      ELSE IF c.nullifying THEN CheckNullifying(k, c)
                      ELSE CheckMissing(k, c)
    BY DEF Check, Known, Save
  <2>3. Decides(t, [tracker |-> u, accepted |-> FALSE], c)
    <3> HIDE DEF k
    <3>1. u.expected = t.expected /\ u.changes = SavedWith(t, c)
      BY <1>2 DEF Tracker
    <3> HIDE DEF u
    <3>2. Saved(u) = Saved(t) \cup {c.version} /\ SavesOnly(t, u, c)
      BY <1>1, <3>1, SavingSaves
    <3> QED BY <3>1, <3>2 DEF Decides, Waits
  <2> HIDE DEF u
  <2> QED BY <2>1, <2>2, <2>3, ConsistentDecides, NullifyingDecides, MissingDecides
<1> QED BY <1>4, <1>5

-----------------------------------------------------------------------------
(* The participant *)

(* The log grows; what is in it stays.                                      *)
LEMMA DescriptionStays ==
  ASSUME NEW c \in Change, NEW last \in Int, NEW itineraries \in [Versions -> Itinerary],
         NEW itinerary \in Itinerary, Describes(itineraries, last, c)
  PROVE  Describes([itineraries EXCEPT ![last + 1] = itinerary], last + 1, c)
<1> DEFINE longer == [itineraries EXCEPT ![last + 1] = itinerary]
<1>1. c.version \in Versions /\ c.version \in Nat /\ c.version <= last
  BY ChangeFields DEF Describes
<1>2. longer[c.version] = itineraries[c.version]
  BY <1>1
<1>3. c.version > 0 => longer[c.version - 1] = itineraries[c.version - 1]
  <2>1. c.version > 0 => c.version - 1 \in Versions
    BY <1>1, Numbers
  <2> QED BY <1>1, <2>1
<1> HIDE DEF longer
<1>4. c.version <= last + 1
  BY <1>1
<1> QED BY <1>2, <1>3, <1>4 DEF Describes, longer

(* A change is written: it describes what it does to the itinerary, and the *)
(* history stays without a hole.                                            *)
LEMMA WritePreserves ==
  ASSUME SyncInv, NEW kind \in {"set", "delay", "clear"}, NEW itinerary \in Itinerary,
         NEW history, NEW long \in BOOLEAN, Write(kind, long, itinerary, history),
         kind # "delay" => ~long,
         kind = "set" => /\ itinerary = [plan |-> participant.plan + 1, delays |-> 0]
                         /\ history = {},
         kind # "set" => participant.version >= 0 /\ history = participant.history,
         kind = "clear" => itinerary = NoItinerary,
         kind = "delay" => /\ participant.itinerary # NoItinerary
                           /\ itinerary = [plan |-> participant.itinerary.plan,
                                           delays |-> participant.itinerary.delays + 1]
  PROVE  SyncInv'
<1> DEFINE v == participant.version + 1
           plan == IF kind = "set" THEN itinerary.plan ELSE 0
           change == [version |-> v, id |-> participant.id, kind |-> kind, plan |-> plan,
                      nullifying |-> kind = "set", long |-> long]
<1>1. /\ participant \in [id : Ids, version : Versions \cup {-1}, plan : Plans \cup {0},
                          itinerary : Itinerary, history : SUBSET Change]
      /\ network \subseteq Change /\ log \in [Versions -> Itinerary]
      /\ v \in Versions /\ v \in Nat /\ participant.version \in Int
  BY Numbers DEF SyncInv, TypeOK, ParticipantInv, Write
<1>2. /\ participant' = [participant EXCEPT !.version = v, !.itinerary = itinerary,
                           !.plan = IF kind = "set" THEN itinerary.plan ELSE @,
                           !.history = history \cup {change}]
      /\ log' = [log EXCEPT ![v] = itinerary]
      /\ network' = network \cup {change} \/ network' = network
      /\ losses' = losses \/ (losses < LossLimit /\ losses' = losses + 1)
      /\ long_delays' = long_delays \cup {v} \/ long_delays' = long_delays
      /\ UNCHANGED <<tracker, replaying, reports, database>>
  BY DEF Write
<1>3. (kind = "set" => plan \in Plans) /\ (kind # "set" => plan = 0)
  <2>1. ASSUME kind = "set" PROVE itinerary.plan \in Plans
    <3>1. itinerary.plan = participant.plan + 1 /\ itinerary.plan \in Plans \cup {0}
      BY <2>1 DEF Itinerary
    <3>2. participant.plan \in Nat
      BY <1>1, Numbers
    <3> QED BY <3>1, <3>2
  <2> QED BY <2>1
<1>4. change \in Change
  <2>1. CASE kind = "set"
    <3>1. plan \in Plans
      BY <1>3, <2>1
    <3> HIDE DEF plan, v
    <3> QED BY <1>1, <2>1, <3>1, ChangeAssumption DEF ItineraryChange
  <2>2. CASE kind = "delay"
    <3>1. plan = 0
      BY <2>2
    <3> HIDE DEF plan, v
    <3> QED BY <1>1, <2>2, <3>1, ChangeAssumption DEF ItineraryChange
  <2>3. CASE kind = "clear"
    <3>1. plan = 0
      BY <2>3
    <3> HIDE DEF plan, v
    <3> QED BY <1>1, <2>3, <3>1, ChangeAssumption DEF ItineraryChange
  <2> QED BY <2>1, <2>2, <2>3
<1>5. /\ change.version = v /\ change.kind = kind /\ change.plan = plan
  OBVIOUS
<1>6. Describes(log', v, change)
  <2>1. log'[v] = itinerary /\ v <= v
    BY <1>1, <1>2
  <2>2. CASE kind = "set"
    <3>1. itinerary = [plan |-> plan, delays |-> 0]
      BY <2>2
    <3> HIDE DEF change, plan, v
    <3> QED BY <1>5, <2>1, <2>2, <3>1 DEF Describes
  <2>3. CASE kind = "clear"
    <3> HIDE DEF change, plan, v
    <3> QED BY <1>5, <2>1, <2>3 DEF Describes
  <2>4. CASE kind = "delay"
    <3>1. v > 0 /\ v - 1 = participant.version /\ v - 1 \in Versions
      BY <1>1, <2>4, Numbers
    <3>2. log'[v - 1] = log[v - 1] /\ log[v - 1] = participant.itinerary
      BY <1>1, <1>2, <2>4, <3>1 DEF SyncInv, ParticipantInv
    <3> HIDE DEF change, plan, v
    <3> QED BY <1>5, <2>1, <2>4, <3>1, <3>2 DEF Describes
  <2> QED BY <2>2, <2>3, <2>4
<1>7. /\ participant' \in [id : Ids, version : Versions \cup {-1}, plan : Plans \cup {0},
                           itinerary : Itinerary, history : SUBSET Change]
      /\ participant'.version = v /\ participant'.itinerary = itinerary
      /\ participant'.id = participant.id
      /\ participant'.plan = IF kind = "set" THEN itinerary.plan ELSE participant.plan
      /\ participant'.history = history \cup {change}
  <2>1. history \in SUBSET Change
    BY <1>1
  <2>2. itinerary.plan \in Plans \cup {0}
    BY DEF Itinerary
  <2> HIDE DEF change, plan, v
  <2> QED BY <1>1, <1>2, <1>4, <2>1, <2>2
<1>8. \A c \in Change : Describes(log, participant.version, c) => Describes(log', v, c)
  BY <1>1, <1>2, DescriptionStays
<1> HIDE DEF change
<1>9. ChangesDescribe'
  <2>1. \A w \in Saved(tracker) : tracker.changes[w] \in Change
    BY DEF SyncInv, TypeOK, TrackerTypeOK, Tracker, Saved
  <2>2. \A c \in network' : Describes(log', v, c)
    BY <1>1, <1>2, <1>6, <1>8 DEF SyncInv, ChangesDescribe
  <2>3. \A c \in participant'.history : Describes(log', v, c)
    BY <1>1, <1>6, <1>7, <1>8 DEF SyncInv, ChangesDescribe
  <2>4. \A w \in Saved(tracker) : Describes(log', v, tracker.changes[w])
    BY <1>8, <2>1 DEF SyncInv, ChangesDescribe
  <2> HIDE DEF v
  <2> QED BY <1>2, <1>7, <2>2, <2>3, <2>4 DEF ChangesDescribe, Saved
<1>10. HistoryIsComplete'
  <2>1. \E c \in participant'.history : c.version = v
    BY <1>5, <1>7
  <2>2. CASE kind = "set"
    <3>1. participant'.history = {change} /\ participant'.plan = plan
      BY <1>7, <2>2
    <3>2. {c.version : c \in participant'.history} = v..v
      BY <1>1, <1>5, <3>1
    <3> HIDE DEF v, plan
    <3> QED BY <1>5, <1>7, <2>1, <2>2, <3>1, <3>2 DEF HistoryIsComplete
  <2>3. CASE kind # "set"
    <3>1. PICK first \in participant.history :
            /\ first.kind = "set" /\ first.plan = participant.plan
            /\ {c.version : c \in participant.history} = first.version..participant.version
      BY <2>3 DEF SyncInv, ParticipantInv, HistoryIsComplete
    <3>2. participant'.history = participant.history \cup {change}
          /\ participant'.plan = participant.plan
      BY <1>7, <2>3
    <3>3. first.version \in Nat /\ first.version <= participant.version
      <4>1. first.version \in first.version..participant.version
        BY <3>1
      <4>2. first \in Change
        BY <1>1
      <4> QED BY <4>1, <4>2, ChangeFields
    <3>4. {c.version : c \in participant'.history} = first.version..v
      <4>1. {c.version : c \in participant'.history}
              = {c.version : c \in participant.history} \cup {v}
        BY <1>5, <3>2
      <4>2. first.version..v = (first.version..participant.version) \cup {v}
        BY <1>1, <3>3
      <4> QED BY <3>1, <4>1, <4>2
    <3> HIDE DEF v, plan
    <3> QED BY <1>7, <2>1, <3>1, <3>2, <3>4 DEF HistoryIsComplete
  <2> QED BY <2>2, <2>3
<1>11. ParticipantInv'
  <2>1. log' \in [Versions -> Itinerary] /\ participant'.itinerary = log'[v] /\ v # -1
    BY <1>1, <1>2, <1>7
  <2>2. participant'.plan <= v + 1
    BY <1>1, <1>7, Numbers DEF SyncInv, ParticipantInv
  <2>3. itinerary.delays <= v
    <3>1. participant.itinerary.delays \in Nat
      BY <1>1, Numbers DEF Itinerary
    <3> QED BY <1>1, <3>1 DEF SyncInv, ParticipantInv, NoItinerary
  <2>4. itinerary.delays <= v + 1
    BY <1>1, <2>3, Numbers DEF Itinerary
  <2> HIDE DEF v
  <2> QED BY <1>7, <1>10, <2>1, <2>2, <2>3, <2>4 DEF ParticipantInv
<1>12. DatabaseInv'
  <2>1. \A w \in Versions : w <= participant.version => log'[w] = log[w]
    BY <1>1, <1>2
  <2>2. database.applied \in Versions \cup {-1} /\ database.applied <= participant.version
    BY DEF SyncInv, TypeOK, DatabaseInv
  <2>3. Shows(database, log')
    BY <2>1, <2>2 DEF SyncInv, DatabaseInv, Shows
  <2>4. StandsBefore(database, tracker, log')
    <3>1. ASSUME tracker.expected \in Saved(tracker)
          PROVE  log'[tracker.expected] = log[tracker.expected]
      <4>1. /\ tracker.changes[tracker.expected].version = tracker.expected
            /\ tracker.expected \in Versions
        BY <3>1 DEF SyncInv, TypeOK, TrackerTypeOK, Saved
      <4>2. tracker.expected <= participant.version
        BY <3>1, <4>1 DEF SyncInv, ChangesDescribe, Describes
      <4> QED BY <2>1, <4>1, <4>2
    <3> QED BY <3>1 DEF SyncInv, DatabaseInv, StandsBefore
  <2>5. database.applied <= v
    BY <1>1, <2>2, Numbers
  <2> HIDE DEF v
  <2> QED BY <1>2, <1>7, <2>3, <2>4, <2>5
        DEF SyncInv, DatabaseInv, Shows, StandsBefore, Saved
<1>13. TypeOK'
  <2>1. network' \subseteq Change
    BY <1>1, <1>2, <1>4
  <2>2. losses' \in 0..LossLimit
    BY <1>2, SyncAssumption DEF SyncInv, TypeOK
  <2>3. long_delays' \subseteq Versions
    BY <1>1, <1>2 DEF SyncInv, TypeOK
  <2> QED BY <1>2, <1>7, <2>1, <2>2, <2>3 DEF SyncInv, TypeOK, TrackerTypeOK, Saved
<1>14. TrackerInv'
  BY <1>2 DEF SyncInv, TrackerInv, TrackerTypeOK, ReplayIsInOrder, Ordered, Settled,
              Saved, Maximal, Missing
<1> QED BY <1>9, <1>11, <1>12, <1>13, <1>14 DEF SyncInv

(* set(): a new plan, which forgets the changes before it.                  *)
LEMMA SetPreserves ==
  ASSUME SyncInv, Set PROVE SyncInv'
<1> DEFINE itinerary == [plan |-> participant.plan + 1, delays |-> 0]
<1>1. Write("set", FALSE, itinerary, {})
  BY DEF Set
<1>2. participant.version + 1 \in 0..VersionLimit
  BY <1>1, Numbers DEF Write
<1>3. /\ participant.version \in Int /\ participant.plan \in 0..(VersionLimit + 1)
      /\ participant.plan <= participant.version + 1
  BY Numbers DEF SyncInv, TypeOK, ParticipantInv
<1>4. participant.plan + 1 \in Plans /\ 0 \in 0..VersionLimit
  BY <1>2, <1>3, Numbers
<1>5. itinerary \in Itinerary
  BY <1>4 DEF Itinerary
<1> HIDE DEF itinerary
<1> QED BY <1>1, <1>5, WritePreserves DEF itinerary

(* delay() adds one delay to the itinerary, if there is one.                *)
LEMMA DelayPreserves ==
  ASSUME SyncInv, Delay PROVE SyncInv'
<1> DEFINE itinerary == [plan |-> participant.itinerary.plan,
                         delays |-> participant.itinerary.delays + 1]
<1>1. participant.itinerary \in Itinerary /\ participant.itinerary # NoItinerary
  BY DEF SyncInv, TypeOK, Delay
<1>2. [participant.itinerary EXCEPT !.delays = @ + 1] = itinerary
  BY <1>1 DEF Itinerary
<1>3. PICK long \in {FALSE, LongDelays} :
        Write("delay", long, itinerary, participant.history)
  BY <1>2 DEF Delay
<1>10. long \in BOOLEAN
  BY SyncAssumption
<1>4. participant.version + 1 \in 0..VersionLimit
  BY <1>3, Numbers DEF Write
<1>5. participant.version \in Versions \cup {-1} /\ participant.version # -1
  BY <1>1 DEF SyncInv, TypeOK, ParticipantInv
<1>6. participant.version >= 0 /\ participant.version \in Int
  BY <1>5, Numbers
<1>7. participant.itinerary.delays <= participant.version
  BY <1>6 DEF SyncInv, ParticipantInv
<1>8. participant.itinerary.delays + 1 \in 0..VersionLimit
  BY <1>1, <1>4, <1>6, <1>7, Numbers DEF Itinerary
<1>9. itinerary \in Itinerary
  BY <1>1, <1>8 DEF Itinerary
<1> HIDE DEF itinerary
<1> QED BY <1>1, <1>3, <1>6, <1>9, <1>10, WritePreserves DEF itinerary

(* clear() empties the itinerary, if there is one.                          *)
LEMMA ClearPreserves ==
  ASSUME SyncInv, Clear PROVE SyncInv'
<1>1. Write("clear", FALSE, NoItinerary, participant.history) /\ participant.itinerary # NoItinerary
  BY DEF Clear
<1>2. participant.version \in Versions \cup {-1} /\ participant.version # -1
  BY <1>1 DEF SyncInv, TypeOK, ParticipantInv
<1>3. participant.version >= 0
  BY <1>2, Numbers
<1> QED BY <1>1, <1>3, Numbers, WritePreserves

(* What is retransmitted is in the history, and describes what it did.      *)
LEMMA RetransmittedDescribe ==
  ASSUME SyncInv, NEW ranges, NEW last_known,
         network' \subseteq network \cup Retransmitted(ranges, last_known)
  PROVE  /\ network' \subseteq Change
         /\ \A c \in network' : Describes(log, participant.version, c)
<1>1. Retransmitted(ranges, last_known) \subseteq participant.history
  <2>1. \A r : InRange(participant.history, r) \subseteq participant.history
    BY DEF InRange
  <2>2. Newer(participant.history, last_known) \subseteq participant.history
    BY DEF Newer
  <2>3. ASSUME NEW c \in UNION {InRange(participant.history, r) : r \in ranges}
        PROVE  c \in participant.history
    <3>1. PICK r \in ranges : c \in InRange(participant.history, r)
      OBVIOUS
    <3> QED BY <2>1, <3>1
  <2> DEFINE filled == UNION {InRange(participant.history, r) : r \in ranges}
  <2>4. Retransmitted(ranges, last_known) = filled \cup Newer(participant.history, last_known)
    BY DEF Retransmitted
  <2>5. filled \subseteq participant.history
    BY <2>3
  <2> HIDE DEF filled
  <2> QED BY <2>2, <2>4, <2>5
<1>2. participant.history \subseteq Change /\ network \subseteq Change
  BY DEF SyncInv, TypeOK
<1> QED BY <1>1, <1>2 DEF SyncInv, ChangesDescribe

(* A step of the network alone, and of the reports.                         *)
LEMMA NetworkStepPreserves ==
  ASSUME SyncInv, network' \subseteq Change,
         \A c \in network' : Describes(log, participant.version, c),
         UNCHANGED <<tracker, replaying, participant, database, losses, log, long_delays>>
  PROVE  SyncInv'
<1>1. TypeOK'
  BY DEF SyncInv, TypeOK, TrackerTypeOK, Saved
<1>2. TrackerInv'
  BY DEF SyncInv, TrackerInv, TrackerTypeOK, ReplayIsInOrder, Ordered, Settled,
         Saved, Maximal, Missing
<1>3. ParticipantInv'
  BY DEF SyncInv, ParticipantInv, HistoryIsComplete
<1>4. ChangesDescribe'
  BY DEF SyncInv, ChangesDescribe, Saved
<1>5. DatabaseInv'
  BY DEF SyncInv, DatabaseInv, Shows, StandsBefore, Saved
<1> QED BY <1>1, <1>2, <1>3, <1>4, <1>5 DEF SyncInv

(* The registry's id is taken over.                                         *)
LEMMA CorrectIdPreserves ==
  ASSUME SyncInv, CorrectId PROVE SyncInv'
<1>1. /\ participant \in [id : Ids, version : Versions \cup {-1}, plan : Plans \cup {0},
                          itinerary : Itinerary, history : SUBSET Change]
      /\ database.id \in Ids
  BY DEF SyncInv, TypeOK
<1>2. /\ participant' = [participant EXCEPT !.id = database.id]
      /\ UNCHANGED <<tracker, replaying, network, reports, database, losses, log, long_delays>>
  BY DEF CorrectId
<1>3. /\ participant' \in [id : Ids, version : Versions \cup {-1}, plan : Plans \cup {0},
                           itinerary : Itinerary, history : SUBSET Change]
      /\ participant'.version = participant.version /\ participant'.plan = participant.plan
      /\ participant'.itinerary = participant.itinerary
      /\ participant'.history = participant.history
  BY <1>1, <1>2
<1>4. TypeOK'
  BY <1>2, <1>3 DEF SyncInv, TypeOK, TrackerTypeOK, Saved
<1>5. TrackerInv'
  BY <1>2 DEF SyncInv, TrackerInv, TrackerTypeOK, ReplayIsInOrder, Ordered, Settled,
              Saved, Maximal, Missing
<1>6. ParticipantInv'
  BY <1>2, <1>3 DEF SyncInv, ParticipantInv, HistoryIsComplete
<1>7. ChangesDescribe'
  BY <1>2, <1>3 DEF SyncInv, ChangesDescribe, Saved
<1>8. DatabaseInv'
  BY <1>2, <1>3 DEF SyncInv, DatabaseInv, Shows, StandsBefore, Saved
<1> QED BY <1>4, <1>5, <1>6, <1>7, <1>8 DEF SyncInv

-----------------------------------------------------------------------------
(* The schedule node *)

(* The part of the invariant a step of the node leaves to be shown.         *)
LEMMA NodeStepPreserves ==
  ASSUME SyncInv, TrackerInv', network' \subseteq network,
         database' \in [id : Ids, itinerary : Itinerary, applied : Versions \cup {-1},
                        restarts : 0..RestartLimit],
         Shows(database', log), StandsBefore(database', tracker', log),
         database'.applied <= participant.version, database'.id <= database'.restarts,
         \A v \in Saved(tracker') : Describes(log, participant.version, tracker'.changes[v]),
         UNCHANGED <<participant, losses, log, long_delays>>
  PROVE  SyncInv'
<1>1. TypeOK'
  BY DEF SyncInv, TypeOK, TrackerInv
<1>2. ParticipantInv'
  BY DEF SyncInv, ParticipantInv, HistoryIsComplete
<1>3. ChangesDescribe'
  BY DEF SyncInv, ChangesDescribe, Saved
<1>4. DatabaseInv'
  BY DEF SyncInv, DatabaseInv, Shows, StandsBefore, Saved
<1> QED BY <1>1, <1>2, <1>3, <1>4 DEF SyncInv

(* What is saved after a change is handled describes what it did.           *)
LEMMA SavedDescribe ==
  ASSUME SyncInv, NEW c \in Change, Describes(log, participant.version, c),
         NEW u, SavesOnly(tracker, u, c)
  PROVE  \A v \in Saved(u) : Describes(log, participant.version, u.changes[v])
<1>1. \A v \in Saved(tracker) : Describes(log, participant.version, tracker.changes[v])
  BY DEF SyncInv, ChangesDescribe
<1>2. SUFFICES ASSUME NEW v \in Saved(u)
               PROVE  Describes(log, participant.version, u.changes[v])
  OBVIOUS
<1>3. CASE v \in Saved(tracker) /\ u.changes[v] = tracker.changes[v]
  BY <1>1, <1>3
<1>4. CASE u.changes[v] = c
  BY <1>4
<1> QED BY <1>3, <1>4 DEF SavesOnly

(* An accepted change finds the database where its predecessor left it, or  *)
(* is a plan; a change that waits leaves the database where it is.          *)
LEMMA DeliverPreserves ==
  ASSUME SyncInv, NEW c \in network, Deliver(c) PROVE SyncInv'
<1> DEFINE h == Handled(tracker, c)
<1>1. c \in Change /\ Describes(log, participant.version, c)
  BY DEF SyncInv, TypeOK, ChangesDescribe
<1>2. /\ database \in [id : Ids, itinerary : Itinerary, applied : Versions \cup {-1},
                       restarts : 0..RestartLimit]
      /\ log \in [Versions -> Itinerary]
      /\ Shows(database, log) /\ StandsBefore(database, tracker, log)
      /\ database.applied <= participant.version /\ database.id <= database.restarts
  BY DEF SyncInv, TypeOK, DatabaseInv, ParticipantInv
<1>3. CASE c.id # database.id \/ c.long
  <2>1. network' \subseteq network
        /\ UNCHANGED <<tracker, replaying, participant, reports, database, losses, log, long_delays>>
    BY <1>3 DEF Deliver
  <2>2. /\ network' \subseteq Change
        /\ \A d \in network' : Describes(log, participant.version, d)
    BY <2>1 DEF SyncInv, TypeOK, ChangesDescribe
  <2> QED BY <2>1, <2>2, NetworkStepPreserves
<1>4. CASE c.id = database.id /\ ~c.long
  <2>1. /\ network' \subseteq network /\ Receive(c) /\ database' = DatabaseAfter(c)
        /\ UNCHANGED <<participant, losses, log, long_delays>>
    BY <1>4 DEF Deliver
  <2>2. TrackerInv'
    BY <1>1, <2>1, ReceivePreserves DEF SyncInv
  <2>3. replaying = {} /\ tracker' = h.tracker
    BY <2>1 DEF Receive
  <2>4. Ordered(tracker) /\ Settled(tracker)
    BY <2>3 DEF SyncInv, TrackerInv
  <2>5. Decides(tracker, h, c)
    BY <1>1, <2>4, HandledDecides
  <2>6. database' = IF h.accepted THEN Applied(database, c) ELSE database
    BY <2>1 DEF DatabaseAfter
  <2> HIDE DEF h
  <2>7. SavesOnly(tracker, tracker', c)
    BY <2>3, <2>5 DEF Decides
  <2>8. \A v \in Saved(tracker') : Describes(log, participant.version, tracker'.changes[v])
    BY <1>1, <2>7, SavedDescribe
  <2>9. /\ tracker.expected \in Nat /\ database.applied \in Int
        /\ c.version \in Nat /\ c.version <= participant.version
    BY <1>1, <1>2, <2>4, Numbers, ChangeFields DEF Ordered, Tracker, Describes
  <2>10. CASE h.accepted
    <3>1. Accepts(tracker, tracker', c)
      BY <2>3, <2>5, <2>10 DEF Decides
    <3>2. c.kind = "set" \/ database.applied = c.version - 1
      <4>1. SUFFICES ASSUME c.version = tracker.expected, tracker.ranges = {}
                     PROVE  database.applied = c.version - 1
        BY <3>1 DEF Accepts
      <4>2. Saved(tracker) = {}
        BY <2>4, <4>1 DEF Settled
      <4> QED BY <1>2, <4>1, <4>2 DEF StandsBefore
    <3>3. /\ database'.itinerary = log[c.version] /\ database'.applied = c.version
          /\ database'.id = database.id /\ database'.restarts = database.restarts
          /\ database' \in [id : Ids, itinerary : Itinerary, applied : Versions \cup {-1},
                            restarts : 0..RestartLimit]
      BY <1>1, <2>6, <2>10, <3>2, AppliedIsLogged
    <3>4. Shows(database', log)
      BY <2>9, <3>3 DEF Shows
    <3>5. StandsBefore(database', tracker', log)
      BY <2>9, <3>1, <3>3 DEF StandsBefore, Accepts
    <3> QED BY <1>2, <2>1, <2>2, <2>8, <2>9, <3>3, <3>4, <3>5, NodeStepPreserves
  <2>11. CASE ~h.accepted
    <3>1. Waits(tracker, tracker', c) /\ database' = database
      BY <2>3, <2>5, <2>6, <2>11 DEF Decides
    <3>2. StandsBefore(database, tracker', log)
      <4>1. CASE tracker'.expected = tracker.expected /\ Saved(tracker) \subseteq Saved(tracker')
        BY <1>2, <4>1 DEF StandsBefore
      <4>2. CASE /\ c.kind = "set" /\ c.version >= tracker.expected
                 /\ tracker'.expected = c.version /\ c.version \in Saved(tracker')
        <5>1. log[c.version].plan # 0 /\ log[c.version].delays = 0
          BY <1>1, <4>2, ChangeFields DEF Describes
        <5>2. database.applied < c.version
          BY <1>2, <2>9, <4>2 DEF StandsBefore
        <5> QED BY <4>2, <5>1, <5>2 DEF StandsBefore
      <4> QED BY <3>1, <4>1, <4>2 DEF Waits
    <3> QED BY <1>2, <2>1, <2>2, <2>8, <3>1, <3>2, NodeStepPreserves
  <2> QED BY <2>10, <2>11
<1> QED BY <1>3, <1>4

(* What a replayed change does to the tracker: it is accepted.              *)
LEMMA ReplayIsAccepted ==
  ASSUME SyncInv, ReplayNext
  PROVE  LET c == tracker.changes[NextReplayed]
         IN  /\ c \in Change /\ c.version = tracker.expected
             /\ Describes(log, participant.version, c)
             /\ Handled(tracker, c).accepted
             /\ tracker'.expected = c.version + 1
             /\ \A v \in Saved(tracker') :
                  v \in Saved(tracker) /\ tracker'.changes[v] = tracker.changes[v]
<1> DEFINE c == tracker.changes[NextReplayed]
           k == Known(tracker, c)
           u == [k EXCEPT !.expected = c.version + 1]
<1>1. /\ TrackerTypeOK /\ ReplayIsInOrder /\ replaying # {}
      /\ tracker \in Tracker /\ tracker.ranges = {} /\ replaying \subseteq Saved(tracker)
      /\ NextReplayed \in replaying
  <2>1. TrackerTypeOK /\ ReplayIsInOrder /\ replaying # {}
    BY DEF SyncInv, TrackerInv, ReplayNext
  <2>2. NextReplayed = tracker.expected /\ tracker.expected <= tracker.last_known
    BY <2>1, NextReplayedIsExpected
  <2>3. tracker.expected \in Int /\ tracker.last_known \in Int
    BY <2>1, Numbers DEF TrackerTypeOK, Tracker
  <2> QED BY <2>1, <2>2, <2>3 DEF TrackerTypeOK, ReplayIsInOrder
<1>2. c \in Change /\ c.version = tracker.expected
  BY <1>1, NextReplayedIsExpected
<1>3. Describes(log, participant.version, c)
  BY <1>1 DEF SyncInv, ChangesDescribe
<1>4. c.version \in Nat
  BY <1>2, ChangeFields
<1>5. /\ k \in Tracker /\ k.ranges = {} /\ k.expected = tracker.expected
      /\ k.changes = tracker.changes
  BY <1>1, <1>2, KnownFields
<1>6. Handled(tracker, c) = [tracker |-> u, accepted |-> TRUE]
  <2>1. Handled(tracker, c) = CheckConsistent(k, c)
    BY <1>1, <1>2, <1>4 DEF Handled, Check, Known
  <2> QED BY <1>2, <1>5, <2>1 DEF CheckConsistent, Accept
<1>7. u.expected = c.version + 1 /\ u.changes = tracker.changes
  <2> HIDE DEF k, c
  <2> QED BY <1>5 DEF Tracker
<1>8. tracker' = u \/ tracker' = [u EXCEPT !.changes = NothingSaved]
  BY <1>6 DEF ReplayNext
<1> HIDE DEF u, k, c
<1>9. CASE tracker' = u
  BY <1>2, <1>3, <1>6, <1>7, <1>9 DEF Saved, c
<1>10. CASE tracker' = [u EXCEPT !.changes = NothingSaved]
  <2>1. tracker'.expected = c.version + 1 /\ tracker'.changes = NothingSaved
    BY <1>7, <1>10
  <2>2. Saved(tracker') = {}
    BY <2>1 DEF Saved, NothingSaved
  <2> QED BY <1>2, <1>3, <1>6, <2>1, <2>2 DEF c
<1> QED BY <1>8, <1>9, <1>10

(* A replayed change that is no plan follows what the database shows.       *)
LEMMA ReplayStepPreserves ==
  ASSUME SyncInv, Replay PROVE SyncInv'
<1> DEFINE c == tracker.changes[NextReplayed]
<1>1. /\ ReplayNext /\ database' = DatabaseAfter(c)
      /\ UNCHANGED <<participant, network, losses, log, long_delays>>
  BY DEF Replay
<1>2. /\ c \in Change /\ c.version = tracker.expected
      /\ Describes(log, participant.version, c)
      /\ Handled(tracker, c).accepted /\ tracker'.expected = c.version + 1
      /\ \A v \in Saved(tracker') :
           v \in Saved(tracker) /\ tracker'.changes[v] = tracker.changes[v]
  BY <1>1, ReplayIsAccepted
<1>3. TrackerInv'
  BY <1>1, ReplayPreserves DEF SyncInv
<1>4. database' = Applied(database, c)
  BY <1>1, <1>2 DEF DatabaseAfter
<1> HIDE DEF c
<1>5. /\ StandsBefore(database, tracker, log) /\ log \in [Versions -> Itinerary]
      /\ database.id <= database.restarts
  BY DEF SyncInv, DatabaseInv, ParticipantInv
<1>6. c.kind = "set" \/ database.applied = c.version - 1
  BY <1>2, <1>5, NewPlansAreSet DEF StandsBefore
<1>7. /\ database'.itinerary = log[c.version] /\ database'.applied = c.version
      /\ database'.id = database.id /\ database'.restarts = database.restarts
      /\ database' \in [id : Ids, itinerary : Itinerary, applied : Versions \cup {-1},
                        restarts : 0..RestartLimit]
  BY <1>2, <1>4, <1>6, AppliedIsLogged
<1>8. c.version \in Nat /\ c.version <= participant.version
  BY <1>2, ChangeFields DEF Describes
<1>9. Shows(database', log) /\ StandsBefore(database', tracker', log)
  BY <1>2, <1>7, <1>8 DEF Shows, StandsBefore
<1>10. \A v \in Saved(tracker') : Describes(log, participant.version, tracker'.changes[v])
  BY <1>2 DEF SyncInv, ChangesDescribe
<1> QED BY <1>1, <1>3, <1>5, <1>7, <1>8, <1>9, <1>10, NodeStepPreserves

(* A restarted node knows of no version.                                    *)
LEMMA RestartPreserves ==
  ASSUME SyncInv, NEW shift \in IdShifts, Restarted(shift), network' \subseteq network
  PROVE  SyncInv'
<1>1. /\ database' = [id |-> database.id + shift, itinerary |-> NoItinerary, applied |-> -1,
                      restarts |-> database.restarts + 1]
      /\ tracker' = InitialTracker /\ replaying = {} /\ replaying' = {}
      /\ database.restarts < RestartLimit
      /\ UNCHANGED <<participant, losses, log, long_delays>>
  BY DEF Restarted
<1>2. Ordered(InitialTracker) /\ Settled(InitialTracker)
  BY InitialIsOrdered
<1>3. InitialTracker.expected = 0 /\ Saved(InitialTracker) = {}
  BY DEF InitialTracker, Saved, NothingSaved
<1> DEFINE new == InitialTracker
<1> HIDE DEF new
<1>4. TrackerInv'
  <2>1. tracker' = new /\ Ordered(new) /\ Settled(new)
    BY <1>1, <1>2 DEF new
  <2> QED BY <1>1, <2>1 DEF TrackerInv, TrackerTypeOK, ReplayIsInOrder, Ordered, Settled,
                            Saved, Maximal, Missing
<1>5. /\ database'.itinerary = NoItinerary /\ database'.applied = -1
      /\ database'.id = database.id + shift /\ database'.restarts = database.restarts + 1
  BY <1>1
<1>6. /\ database.id \in 0..RestartLimit /\ database.restarts \in 0..RestartLimit
      /\ database.id <= database.restarts /\ shift \in {0, 1} /\ RestartLimit \in Nat
      /\ participant.version \in Versions \cup {-1}
  BY Numbers, SyncAssumption DEF SyncInv, TypeOK, DatabaseInv
<1>7. /\ database.id + shift \in 0..RestartLimit
      /\ database.restarts + 1 \in 0..RestartLimit
      /\ database.id + shift <= database.restarts + 1
  BY <1>1, <1>6
<1>8. database' \in [id : Ids, itinerary : Itinerary, applied : Versions \cup {-1},
                     restarts : 0..RestartLimit]
  BY <1>1, <1>7, Numbers
<1>9. Shows(database', log)
  BY <1>5 DEF Shows
<1>10. StandsBefore(database', tracker', log)
  BY <1>1, <1>3, <1>5 DEF StandsBefore
<1>11. database'.applied <= participant.version
  BY <1>5, <1>6, Numbers
<1>12. Saved(tracker') = {}
  BY <1>1, <1>3
<1> QED BY <1>1, <1>4, <1>5, <1>7, <1>8, <1>9, <1>10, <1>11, <1>12, NodeStepPreserves

-----------------------------------------------------------------------------
(* The theorems *)

(* At first nobody has written anything.                                    *)
LEMMA SyncStarts == Init => SyncInv
<1> SUFFICES ASSUME Init PROVE SyncInv
  OBVIOUS
<1>1. Ordered(tracker) /\ Settled(tracker) /\ replaying = {}
  BY InitialIsOrdered DEF Init, TrackerInit
<1>2. TrackerInv
  BY <1>1 DEF TrackerInv, TrackerTypeOK, ReplayIsInOrder, Ordered
<1>3. /\ participant = [id |-> 0, version |-> -1, plan |-> 0, itinerary |-> NoItinerary,
                        history |-> {}]
      /\ network = {} /\ long_delays = {} /\ losses = 0 /\ log = [v \in Versions |-> NoItinerary]
      /\ database = [id |-> 0, itinerary |-> NoItinerary, applied |-> -1, restarts |-> 0]
  BY DEF Init
<1>4. 0 \in Ids /\ 0 \in 0..RestartLimit /\ 0 \in 0..LossLimit
  BY Numbers, SyncAssumption
<1>5. TypeOK
  BY <1>2, <1>3, <1>4, Numbers DEF TypeOK, TrackerInv
<1>6. ParticipantInv
  BY <1>3, Numbers DEF ParticipantInv, HistoryIsComplete, NoItinerary
<1>7. tracker.expected = 0 /\ Saved(tracker) = {}
  BY DEF Init, TrackerInit, InitialTracker, Saved, NothingSaved
<1>8. ChangesDescribe
  BY <1>3, <1>7 DEF ChangesDescribe
<1>9. DatabaseInv
  BY <1>3, <1>7 DEF DatabaseInv, Shows, StandsBefore
<1> QED BY <1>2, <1>5, <1>6, <1>8, <1>9 DEF SyncInv

(* Every step keeps the invariant.                                          *)
LEMMA StepPreserves == SyncInv /\ [Next]_vars => SyncInv'
<1> SUFFICES ASSUME SyncInv, [Next]_vars PROVE SyncInv'
  OBVIOUS
<1>1. CASE Set
  BY <1>1, SetPreserves
<1>2. CASE Delay
  BY <1>2, DelayPreserves
<1>3. CASE Clear
  BY <1>3, ClearPreserves
<1>4. ASSUME NEW report \in reports, OnReport(report) PROVE SyncInv'
  <2>1. UNCHANGED <<tracker, replaying, participant, database, losses, log, long_delays>>
    BY <1>4 DEF OnReport
  <2>2. network' \subseteq network \cup Retransmitted(report.ranges, report.last_known)
    BY <1>4 DEF OnReport
  <2> QED BY <2>1, <2>2, RetransmittedDescribe, NetworkStepPreserves
<1>5. CASE Rectify
  <2>1. /\ UNCHANGED <<tracker, replaying, participant, database, losses, log, long_delays>>
        /\ network' \subseteq network \cup Retransmitted(tracker.ranges, tracker.last_known)
    BY <1>5 DEF Rectify
  <2> QED BY <2>1, RetransmittedDescribe, NetworkStepPreserves
<1>6. CASE CorrectId
  BY <1>6, CorrectIdPreserves
<1>7. ASSUME NEW c \in network, Deliver(c) PROVE SyncInv'
  BY <1>7, DeliverPreserves
<1>8. CASE Replay
  BY <1>8, ReplayStepPreserves
<1>9. ASSUME NEW shift \in IdShifts, Restart(shift) PROVE SyncInv'
  BY <1>9, RestartPreserves DEF Restart
<1>11. ASSUME NEW shift \in IdShifts, NEW c \in network, Crash(c, shift) PROVE SyncInv'
  BY <1>11, RestartPreserves DEF Crash
<1>10. CASE UNCHANGED vars
  <2>1. /\ network' = network
        /\ UNCHANGED <<tracker, replaying, participant, database, losses, log, long_delays>>
    BY <1>10 DEF vars
  <2>2. network' \subseteq Change
        /\ \A c \in network' : Describes(log, participant.version, c)
    BY <2>1 DEF SyncInv, TypeOK, ChangesDescribe
  <2> QED BY <2>1, <2>2, NetworkStepPreserves
<1> QED BY <1>1, <1>2, <1>3, <1>4, <1>5, <1>6, <1>7, <1>8, <1>9, <1>10, <1>11 DEF Next

(* The invariant holds of every behaviour.                                  *)
THEOREM SyncInvariant == Spec => []SyncInv
BY SyncStarts, StepPreserves, PTL DEF Spec

(* Every variable keeps its type.                                           *)
THEOREM SyncTypes == Spec => []TypeOK
<1>1. SyncInv => TypeOK BY DEF SyncInv
<1> QED BY <1>1, SyncInvariant, PTL

(* The schedule never shows an itinerary its participant did not have,      *)
(* whatever order its changes arrive in, however many are lost, sent again  *)
(* or written by a former id, and however often the node restarts.          *)
THEOREM DatabaseShowsThePast == Spec => []DatabaseShowsAnItineraryOfThePast
<1>1. SyncInv => DatabaseShowsAnItineraryOfThePast
  BY DEF SyncInv, DatabaseInv, Shows, DatabaseShowsAnItineraryOfThePast
<1> QED BY <1>1, SyncInvariant, PTL

(* A participant is always able to retransmit every change since its plan.  *)
THEOREM HistoryStaysComplete == Spec => []HistoryIsComplete
<1>1. SyncInv => HistoryIsComplete
  BY DEF SyncInv, ParticipantInv
<1> QED BY <1>1, SyncInvariant, PTL

(* What arrives late or again never takes the database back.                *)
THEOREM NeverGoesBack == Spec => DatabaseNeverGoesBack
<1>1. SyncInv /\ [Next]_vars
        => (database'.restarts = database.restarts => database'.applied >= database.applied)
  <2> SUFFICES ASSUME SyncInv, [Next]_vars, database'.restarts = database.restarts
               PROVE  database'.applied >= database.applied
    OBVIOUS
  <2>1. /\ database.applied \in Int /\ database.applied < tracker.expected
        /\ tracker.expected \in Int /\ database.restarts \in Nat
        /\ database \in [id : Ids, itinerary : Itinerary, applied : Versions \cup {-1},
                         restarts : 0..RestartLimit]
    BY Numbers DEF SyncInv, TypeOK, TrackerTypeOK, Tracker, DatabaseInv, StandsBefore
  <2>2. CASE database' = database
    BY <2>1, <2>2
  <2>3. ASSUME NEW c \in Change, database' = Applied(database, c),
               c.version >= tracker.expected
        PROVE  database'.applied >= database.applied
    <3>1. database'.applied = c.version
      BY <2>1, <2>3 DEF Applied
    <3> QED BY <2>1, <2>3, <3>1, ChangeFields
  <2>4. ASSUME NEW c \in network, Deliver(c)
        PROVE  database'.applied >= database.applied
    <3>1. c \in Change
      BY DEF SyncInv, TypeOK
    <3>2. CASE database' # database
      <4>1. Receive(c) /\ database' = Applied(database, c) /\ Handled(tracker, c).accepted
        BY <2>4, <3>2 DEF Deliver, DatabaseAfter
      <4>2. Ordered(tracker)
        BY <4>1 DEF Receive, SyncInv, TrackerInv
      <4>3. c.version >= tracker.expected
        BY <3>1, <4>1, <4>2, HandledDecides DEF Decides, Accepts
      <4> QED BY <2>3, <3>1, <4>1, <4>3
    <3> QED BY <2>2, <3>2
  <2>5. CASE Replay
    <3> DEFINE c == tracker.changes[NextReplayed]
    <3>1. ReplayNext /\ database' = DatabaseAfter(c)
      BY <2>5 DEF Replay
    <3>2. c \in Change /\ c.version = tracker.expected /\ Handled(tracker, c).accepted
      BY <3>1, ReplayIsAccepted
    <3>3. database' = Applied(database, c)
      BY <3>1, <3>2 DEF DatabaseAfter
    <3> HIDE DEF c
    <3> QED BY <2>1, <2>3, <3>2, <3>3
  <2>6. ASSUME NEW shift \in IdShifts, Restarted(shift) PROVE FALSE
    BY <2>1, <2>6 DEF Restarted
  <2>7. CASE Set \/ Delay \/ Clear
    BY <2>2, <2>7 DEF Set, Delay, Clear, Write
  <2>8. CASE (\E report \in reports : OnReport(report)) \/ Rectify \/ CorrectId
    BY <2>2, <2>8 DEF OnReport, Rectify, CorrectId
  <2>9. CASE UNCHANGED vars
    BY <2>2, <2>9 DEF vars
  <2> QED BY <2>4, <2>5, <2>6, <2>7, <2>8, <2>9 DEF Next, Restart, Crash
<1> QED BY <1>1, SyncInvariant, PTL DEF Spec, DatabaseNeverGoesBack
=============================================================================
