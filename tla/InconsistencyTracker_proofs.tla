--------------------- MODULE InconsistencyTracker_proofs ---------------------
(***************************************************************************)
(* Proofs that the tracker reports exactly the missing versions and replays *)
(* the saved changes in order, for any number of versions and any changes.  *)
(*                                                                         *)
(* The inductive invariant is about the value of the tracker (Ordered),     *)
(* whatever step produced it; the lemmas show, branch by branch of check(), *)
(* that a handled change keeps it.                                          *)
(***************************************************************************)
EXTENDS InconsistencyTracker, TLAPS

(* What holds of the tracker between two changes and at the start of a      *)
(* replay: everything from the expected to the last known version is either *)
(* missing or saved, nothing else is, and the last one is saved.            *)
Ordered(t) ==
  /\ t \in Tracker
  /\ \A v \in Saved(t) : t.changes[v].version = v
  /\ t.expected <= t.last_known + 1
  /\ Maximal(t)
  /\ Missing(t) = (t.expected..t.last_known) \ Saved(t)
  /\ Saved(t) \subseteq t.expected..t.last_known
  /\ t.expected <= t.last_known => t.last_known \in Saved(t)

(* Nothing is saved when there is no gap.                                   *)
Settled(t) == t.ranges = {} => Saved(t) = {}

TrackerInv ==
  /\ TrackerTypeOK
  /\ replaying = {} => Ordered(tracker) /\ Settled(tracker)
  /\ ReplayIsInOrder

(* A new tracker has nothing missing and nothing saved.                     *)
LEMMA InitialIsOrdered == Ordered(InitialTracker) /\ Settled(InitialTracker)
BY TrackerAssumption
   DEF Ordered, Settled, InitialTracker, NothingSaved, Tracker, Saved, Versions, Maximal, Missing

(* A version that is not older than the expected one and not above every    *)
(* gap, and is not saved, is missing; RangeAt finds its gap.                *)
LEMMA RangeAtHoldsVersion ==
  ASSUME NEW t, Ordered(t), NEW v \in Versions, v >= t.expected, v \notin Saved(t),
         NotBefore(t, v) # {}
  PROVE  /\ RangeAt(t, v) \in t.ranges
         /\ RangeAt(t, v).lower <= v /\ v <= RangeAt(t, v).upper
         /\ v < t.last_known
<1>1. PICK s \in t.ranges : s.upper >= v
  BY DEF NotBefore
<1>2. /\ s.upper + 1 \in Saved(t)
      /\ \A r \in t.ranges : r \in Range
      /\ Saved(t) \subseteq t.expected..t.last_known
      /\ t.expected \in Nat /\ t.last_known \in Int
  BY TrackerAssumption DEF Ordered, Maximal, Tracker, Versions
<1>3. v < t.last_known
  BY <1>1, <1>2 DEF Range, Versions
<1>4. v \in Missing(t)
  BY <1>2, <1>3 DEF Ordered, Versions
<1>5. PICK r \in t.ranges : r.lower <= v /\ v <= r.upper
  BY <1>4 DEF Missing
<1>6. \A q \in NotBefore(t, v) : r.upper <= q.upper
  <2>1. SUFFICES ASSUME NEW q \in t.ranges, q.upper >= v, q # r
                 PROVE  r.upper <= q.upper
    BY <1>2, <1>5 DEF NotBefore, Range, Versions
  <2>2. r.upper + 1 < q.lower \/ q.upper + 1 < r.lower
    BY <2>1, <1>5 DEF Ordered, Maximal
  <2>3. q.lower <= q.upper
    BY <2>1 DEF Ordered, Maximal
  <2> QED BY <2>1, <2>2, <2>3, <1>2, <1>5 DEF Range, Versions
<1>7. r \in NotBefore(t, v)
  BY <1>5, <1>2 DEF NotBefore, Range, Versions
<1>8. /\ RangeAt(t, v) \in NotBefore(t, v)
      /\ \A q \in NotBefore(t, v) : RangeAt(t, v).upper <= q.upper
  BY <1>6, <1>7 DEF RangeAt
<1>9. RangeAt(t, v) = r
  <2>1. RangeAt(t, v).upper = r.upper
    BY <1>2, <1>5, <1>6, <1>7, <1>8 DEF NotBefore, Range, Versions
  <2>2. SUFFICES ASSUME RangeAt(t, v) # r PROVE FALSE
    OBVIOUS
  <2>3. RangeAt(t, v) \in t.ranges
    BY <1>8 DEF NotBefore
  <2>4. \/ RangeAt(t, v).upper + 1 < r.lower
        \/ r.upper + 1 < RangeAt(t, v).lower
    BY <2>2, <2>3, <1>5 DEF Ordered, Maximal
  <2>5. r.lower <= r.upper /\ RangeAt(t, v).lower <= RangeAt(t, v).upper
    BY <2>3, <1>5 DEF Ordered, Maximal
  <2> QED BY <2>1, <2>3, <2>4, <2>5, <1>2, <1>5 DEF Range, Versions
<1> QED BY <1>3, <1>5, <1>9

(* The result of a branch of check() on a tracker that is ordered and       *)
(* settled: it is ordered, and settled if there was no gap before.          *)
Kept(t, u) == Ordered(u) /\ (t.ranges = {} => Settled(u))

(* Without a gap nothing is saved, and the next version is the expected one. *)
LEMMA NoGapNothingMissing ==
  ASSUME NEW t, Ordered(t), Settled(t), t.ranges = {}
  PROVE  Saved(t) = {} /\ t.expected = t.last_known + 1
<1>1. t.expected \in Int /\ t.last_known \in Int /\ t.expected <= t.last_known + 1
  BY TrackerAssumption DEF Ordered, Tracker, Versions
<1>2. Saved(t) = {} BY DEF Settled
<1> QED BY <1>1, <1>2 DEF Ordered

(* check() first raises the last known version.                             *)
Known(t, c) == [t EXCEPT !.last_known = IF c.version > @ THEN c.version ELSE @]

(* Only the last known version changes by that.                             *)
LEMMA KnownFields ==
  ASSUME NEW t \in Tracker, NEW c \in Change
  PROVE  /\ Known(t, c) \in Tracker
         /\ Known(t, c).ranges = t.ranges
         /\ Known(t, c).expected = t.expected
         /\ Known(t, c).changes = t.changes
         /\ Saved(Known(t, c)) = Saved(t)
         /\ Known(t, c).last_known =
              IF c.version > t.last_known THEN c.version ELSE t.last_known
BY TrackerAssumption DEF Known, Tracker, Saved

(* Saving a change adds its version to the saved ones, and keeps the others. *)
LEMMA SavedWithFields ==
  ASSUME NEW t \in Tracker, NEW c \in Change
  PROVE  /\ SavedWith(t, c) \in [Versions -> Change \cup {NoChange}]
         /\ \A w \in Versions : SavedWith(t, c)[w] = IF w = c.version THEN c ELSE t.changes[w]
         /\ \A u : u.changes = SavedWith(t, c) => Saved(u) = Saved(t) \cup {c.version}
<1>1. t.changes \in [Versions -> Change \cup {NoChange}] /\ c.version \in Versions
  BY TrackerAssumption DEF Tracker
<1>2. SavedWith(t, c) \in [Versions -> Change \cup {NoChange}]
  BY <1>1 DEF SavedWith
<1>3. \A w \in Versions : SavedWith(t, c)[w] = IF w = c.version THEN c ELSE t.changes[w]
  BY <1>1 DEF SavedWith
<1>4. ASSUME NEW u, u.changes = SavedWith(t, c)
      PROVE  Saved(u) = Saved(t) \cup {c.version}
  BY <1>1, <1>3, <1>4, TrackerAssumption DEF Saved
<1> QED BY <1>2, <1>3, <1>4

(* The branch of check() without a gap.                                     *)
LEMMA ConsistentKeeps ==
  ASSUME NEW t, Ordered(t), Settled(t), t.ranges = {},
         NEW c \in Change, c.version >= t.expected
  PROVE  Kept(t, CheckConsistent(Known(t, c), c).tracker)
<1> DEFINE k == Known(t, c)
           v == c.version
           u == CheckConsistent(k, c).tracker
<1>1. Saved(t) = {} /\ t.expected = t.last_known + 1
  BY NoGapNothingMissing
<1>2. t \in Tracker /\ v \in Versions /\ v \in Int /\ t.last_known \in Int /\ t.expected \in Nat
  BY TrackerAssumption DEF Ordered, Tracker, Versions
<1>3. /\ k \in Tracker /\ k.ranges = {} /\ k.expected = t.expected
      /\ k.changes = t.changes /\ Saved(k) = {} /\ k.last_known = v
  BY KnownFields, <1>1, <1>2
<1>4. CASE c.nullifying \/ v = k.expected
  <2>1. u = [k EXCEPT !.expected = v + 1]
    BY <1>4 DEF CheckConsistent, Accept
  <2>2. /\ u \in Tracker /\ u.ranges = {} /\ u.expected = v + 1
        /\ u.last_known = v /\ u.changes = k.changes
    BY <2>1, <1>2, <1>3, TrackerAssumption DEF Tracker, Versions
  <2>3. Saved(u) = {}
    BY <2>2, <1>3 DEF Saved
  <2>4. Missing(u) = {} /\ Maximal(u)
    BY <2>2 DEF Missing, Maximal
  <2> QED BY <2>2, <2>3, <2>4, <1>2 DEF Kept, Ordered, Settled
<1>5. CASE ~(c.nullifying \/ v = k.expected)
  <2> DEFINE gap == [lower |-> t.expected, upper |-> v - 1]
  <2>1. u = [k EXCEPT !.ranges = {gap}, !.changes = SavedWith(k, c)]
    BY <1>5, <1>3 DEF CheckConsistent, Save
  <2>2. v > t.expected /\ gap \in Range
    BY <1>5, <1>2, <1>3, TrackerAssumption DEF Range, Versions
  <2>3. /\ u \in Tracker /\ u.ranges = {gap} /\ u.expected = t.expected
        /\ u.last_known = v /\ u.changes = SavedWith(k, c)
    <3>1. SavedWith(k, c) \in [Versions -> Change \cup {NoChange}]
      BY <1>3, SavedWithFields
    <3>2. {gap} \in SUBSET Range
      BY <2>2
    <3> HIDE DEF k, v, u, gap
    <3> QED BY <2>1, <3>1, <3>2, <1>3 DEF Tracker
  <2>4. Saved(u) = {v} /\ u.changes[v] = c
    BY <2>3, <1>2, <1>3, SavedWithFields
  <2>5. Missing(u) = (u.expected..u.last_known) \ Saved(u)
    BY <2>2, <2>3, <2>4, <1>2, TrackerAssumption DEF Missing, Versions
  <2>6. Maximal(u)
    BY <2>2, <2>3, <2>4, <1>2 DEF Maximal
  <2> QED BY <2>2, <2>3, <2>4, <2>5, <2>6, <1>2, <1>3 DEF Kept, Ordered, Settled
<1> QED BY <1>4, <1>5

(* What a new version above every gap says about the last known version.    *)
LEMMA AboveEveryGap ==
  ASSUME NEW t, Ordered(t), t.ranges # {}, NEW v \in Versions, v >= t.expected,
         v \notin Saved(t), NotBefore(t, v) = {}
  PROVE  /\ v > t.last_known /\ t.expected <= t.last_known
         /\ t.last_known \in Saved(t) /\ HighestSaved(t) = t.last_known
         /\ \A r \in t.ranges : r.upper < v
<1>1. /\ t.expected \in Nat /\ t.last_known \in Int /\ v \in Nat
      /\ \A r \in t.ranges : r.lower \in Nat /\ r.upper \in Nat
      /\ Saved(t) \subseteq t.expected..t.last_known
  BY TrackerAssumption DEF Ordered, Tracker, Range, Versions
<1>2. \A r \in t.ranges : r.upper < v
  BY <1>1 DEF NotBefore
<1>3. v \notin Missing(t)
  BY <1>1, <1>2 DEF Missing
<1>4. v > t.last_known
  BY <1>1, <1>3 DEF Ordered
<1>5. PICK r \in t.ranges : r.upper + 1 \in Saved(t)
  BY DEF Ordered, Maximal
<1>6. t.expected <= t.last_known
  BY <1>1, <1>5
<1>7. t.last_known \in Saved(t)
  BY <1>6 DEF Ordered
<1>8. \A w \in Saved(t) : w <= t.last_known
  BY <1>1
<1>9. HighestSaved(t) = t.last_known
  <2>1. /\ HighestSaved(t) \in Saved(t)
        /\ \A w \in Saved(t) : w <= HighestSaved(t)
    BY <1>7, <1>8 DEF HighestSaved
  <2> QED BY <2>1, <1>1, <1>7, <1>8
<1> QED BY <1>2, <1>4, <1>6, <1>7, <1>9

(* The other ranges are away from the gap that holds the version.           *)
LEMMA RangeAtIsApart ==
  ASSUME NEW t, Ordered(t), NEW v \in Versions, v >= t.expected, v \notin Saved(t),
         NotBefore(t, v) # {}
  PROVE  \A r \in t.ranges \ {RangeAt(t, v)} :
           \/ r.upper + 1 < RangeAt(t, v).lower
           \/ RangeAt(t, v).upper + 1 < r.lower
<1>1. RangeAt(t, v) \in t.ranges
  BY RangeAtHoldsVersion
<1> QED BY <1>1 DEF Ordered, Maximal

(* The branch of check() for a nullifying change when there are gaps.       *)
LEMMA NullifyingKeeps ==
  ASSUME NEW t, Ordered(t), t.ranges # {}, NEW c \in Change,
         c.version >= t.expected, c.version \notin Saved(t)
  PROVE  Kept(t, CheckNullifying(Known(t, c), c).tracker)
<1> DEFINE k == Known(t, c)
           v == c.version
           at == RangeAt(t, v)
           u == CheckNullifying(k, c).tracker
<1>1. /\ t \in Tracker /\ v \in Versions /\ v \in Nat
      /\ t.last_known \in Int /\ t.expected \in Nat /\ VersionLimit \in Nat
      /\ v <= VersionLimit
  BY TrackerAssumption DEF Ordered, Tracker, Versions
<1>2. /\ k \in Tracker /\ k.ranges = t.ranges /\ k.expected = t.expected
      /\ k.changes = t.changes /\ Saved(k) = Saved(t)
      /\ k.last_known = IF v > t.last_known THEN v ELSE t.last_known
  BY KnownFields, <1>1
<1>3. NotBefore(k, v) = NotBefore(t, v) /\ RangeAt(k, v) = at
  BY <1>2 DEF NotBefore, RangeAt
<1>4. CASE NotBefore(t, v) = {}
  <2>1. v > t.last_known
    BY <1>1, <1>4, AboveEveryGap
  <2>2. u = [k EXCEPT !.ranges = {}, !.changes = NothingSaved, !.expected = v + 1]
    BY <1>3, <1>4 DEF CheckNullifying, Accept
  <2>3. NothingSaved \in [Versions -> Change \cup {NoChange}] /\ v + 1 \in 0..(VersionLimit + 1)
    BY <1>1 DEF NothingSaved
  <2>4. /\ u \in Tracker /\ u.ranges = {} /\ u.changes = NothingSaved
        /\ u.expected = v + 1 /\ u.last_known = v
    <3> HIDE DEF k, v, u
    <3> QED BY <2>1, <2>2, <2>3, <1>2 DEF Tracker
  <2>5. Saved(u) = {}
    BY <2>4 DEF Saved, NothingSaved
  <2>6. Missing(u) = {} /\ Maximal(u)
    BY <2>4 DEF Missing, Maximal
  <2> QED BY <2>4, <2>5, <2>6, <1>1 DEF Kept, Ordered, Settled
<1>5. CASE NotBefore(t, v) # {}
  <2> DEFINE later == {r \in t.ranges : r.upper > at.upper}
             rest == [lower |-> v + 1, upper |-> at.upper]
             R == IF v = at.upper THEN later ELSE later \cup {rest}
             kept == [k EXCEPT !.changes = SavedWith(k, c)]
  <2>1. /\ at \in t.ranges /\ at.lower <= v /\ v <= at.upper /\ v < t.last_known
        /\ \A r \in t.ranges \ {at} : r.upper + 1 < at.lower \/ at.upper + 1 < r.lower
    BY <1>1, <1>5, RangeAtHoldsVersion, RangeAtIsApart
  <2>2. /\ \A r \in t.ranges : r \in Range /\ r.lower \in Nat /\ r.upper \in Nat
                               /\ r.lower <= r.upper
        /\ Saved(t) \subseteq Nat /\ Saved(t) \subseteq t.expected..t.last_known
    BY <1>1, TrackerAssumption DEF Ordered, Tracker, Range, Versions, Maximal
  <2>3. R \in SUBSET Range
    BY <1>1, <2>1, <2>2 DEF Range, Versions
  <2>4. /\ kept \in Tracker /\ kept.changes = SavedWith(k, c)
        /\ Saved(kept) = Saved(t) \cup {v}
    <3>1. SavedWith(k, c) \in [Versions -> Change \cup {NoChange}]
      BY <1>2, SavedWithFields
    <3>2. kept \in Tracker /\ kept.changes = SavedWith(k, c)
      BY <3>1, <1>2 DEF Tracker
    <3> HIDE DEF k, kept
    <3> QED BY <3>2, <1>2, SavedWithFields
  <2>5. SavedFrom(kept, v) \in [Versions -> Change \cup {NoChange}]
    BY <2>4 DEF SavedFrom, Tracker
  <2>6. u = [k EXCEPT !.ranges = R, !.changes = SavedFrom(kept, v), !.expected = v]
    BY <1>2, <1>3, <1>5 DEF CheckNullifying, Save
  <2>7. /\ u \in Tracker /\ u.ranges = R /\ u.changes = SavedFrom(kept, v)
        /\ u.expected = v /\ u.last_known = t.last_known
    <3>1. v \in 0..(VersionLimit + 1)
      BY <1>1
    <3>2. k.last_known = t.last_known
      BY <2>1, <1>1, <1>2
    <3> HIDE DEF R, kept, k, v, u
    <3> QED BY <2>3, <2>5, <2>6, <3>1, <3>2, <1>2 DEF Tracker
  <2>8. Saved(u) = {w \in Saved(t) \cup {v} : w >= v}
    BY <2>4, <2>7 DEF Saved, SavedFrom
  <2>9. \A w \in Saved(u) : u.changes[w].version = w
    <3> SUFFICES ASSUME NEW w \in Saved(u) PROVE u.changes[w].version = w
      OBVIOUS
    <3>1. w \in Versions /\ w >= v /\ w \in Saved(t) \cup {v}
      BY <2>8 DEF Saved
    <3>2. u.changes[w] = IF w = v THEN c ELSE t.changes[w]
      BY <3>1, <2>4, <2>7, <1>2, SavedWithFields DEF SavedFrom
    <3> QED BY <3>1, <3>2 DEF Ordered
  <2>10. Missing(u) = (v..t.last_known) \ Saved(u)
    <3>1. ASSUME NEW w \in Missing(u) PROVE w \in (v..t.last_known) \ Saved(u)
      <4>1. PICK r \in R : r.lower <= w /\ w <= r.upper
        BY <3>1, <2>7 DEF Missing
      <4>2. w > v /\ w \in Versions /\ w \in Nat
        BY <4>1, <3>1, <2>1, <2>2, <1>1 DEF Missing, Versions
      <4>3. \E s \in t.ranges : s.lower <= w /\ w <= s.upper
        BY <4>1, <4>2, <2>1, <2>2, <1>1
      <4>4. w \in Missing(t)
        BY <4>2, <4>3 DEF Missing
      <4> QED BY <4>2, <4>4, <2>8, <1>1 DEF Ordered
    <3>2. ASSUME NEW w \in (v..t.last_known) \ Saved(u) PROVE w \in Missing(u)
      <4>1. w > v /\ w \notin Saved(t) /\ w \in t.expected..t.last_known
        BY <3>2, <2>8, <1>1
      <4>2. PICK s \in t.ranges : s.lower <= w /\ w <= s.upper
        BY <4>1 DEF Ordered, Missing
      <4>3. w \in Versions
        BY <4>1, <4>2, <2>2, <1>1 DEF Range, Versions
      <4>4. \E r \in R : r.lower <= w /\ w <= r.upper
        <5>1. CASE s = at
          <6>1. rest \in R /\ rest.lower <= w /\ w <= rest.upper
            BY <5>1, <4>1, <4>2, <2>1, <2>2, <1>1
          <6> QED BY <6>1
        <5>2. CASE s # at
          BY <5>2, <4>1, <4>2, <2>1, <2>2, <1>1
        <5> QED BY <5>1, <5>2
      <4> QED BY <4>3, <4>4, <2>7 DEF Missing
    <3> QED BY <3>1, <3>2
  <2>11. Maximal(u)
    <3>1. \A r \in R : r.lower <= r.upper /\ r.upper + 1 \in Saved(u)
      BY <2>1, <2>2, <2>8, <1>1 DEF Ordered, Maximal
    <3>2. \A r, s \in R : r # s => r.upper + 1 < s.lower \/ s.upper + 1 < r.lower
      BY <2>1, <2>2, <1>1 DEF Ordered, Maximal
    <3> QED BY <3>1, <3>2, <2>7 DEF Maximal
  <2>12. Saved(u) \subseteq v..t.last_known /\ t.last_known \in Saved(u)
    BY <2>1, <2>2, <2>8, <1>1 DEF Ordered
  <2> QED BY <2>1, <2>7, <2>9, <2>10, <2>11, <2>12, <1>1 DEF Kept, Ordered
<1> QED BY <1>4, <1>5

(* Gap(a, b) holds the versions from a to b.                                *)
LEMMA GapHolds ==
  ASSUME NEW a \in Int, NEW b \in Int, NEW w \in Int
  PROVE  (\E r \in Gap(a, b) : r.lower <= w /\ w <= r.upper) <=> a <= w /\ w <= b
<1>1. CASE a <= b
  <2> DEFINE gap == [lower |-> a, upper |-> b]
  <2>1. Gap(a, b) = {gap} BY <1>1 DEF Gap
  <2>2. gap.lower = a /\ gap.upper = b OBVIOUS
  <2> HIDE DEF gap
  <2> QED BY <2>1, <2>2
<1>2. CASE ~(a <= b)
  BY <1>2 DEF Gap
<1> QED BY <1>1, <1>2

(* The branch of check() for any other change when there are gaps.          *)
LEMMA MissingKeeps ==
  ASSUME NEW t, Ordered(t), t.ranges # {}, NEW c \in Change,
         c.version >= t.expected, c.version \notin Saved(t)
  PROVE  Kept(t, CheckMissing(Known(t, c), c).tracker)
<1> DEFINE k == Known(t, c)
           v == c.version
           at == RangeAt(t, v)
           u == CheckMissing(k, c).tracker
           R == IF NotBefore(t, v) = {}
                THEN t.ranges \cup Gap(t.last_known + 1, v - 1)
                ELSE (t.ranges \ {at}) \cup Gap(at.lower, v - 1) \cup Gap(v + 1, at.upper)
<1>1. /\ t \in Tracker /\ v \in Versions /\ v \in Nat
      /\ t.last_known \in Int /\ t.expected \in Nat /\ VersionLimit \in Nat
      /\ v <= VersionLimit /\ t.expected <= v
  BY TrackerAssumption DEF Ordered, Tracker, Versions
<1>2. /\ k \in Tracker /\ k.ranges = t.ranges /\ k.expected = t.expected
      /\ k.changes = t.changes /\ Saved(k) = Saved(t)
      /\ k.last_known = IF v > t.last_known THEN v ELSE t.last_known
  BY KnownFields, <1>1
<1>3. NotBefore(k, v) = NotBefore(t, v) /\ RangeAt(k, v) = at /\ HighestSaved(k) = HighestSaved(t)
  BY <1>2 DEF NotBefore, RangeAt, HighestSaved
<1>4. /\ \A r \in t.ranges : r \in Range /\ r.lower \in Nat /\ r.upper \in Nat
                             /\ r.lower <= r.upper
      /\ Saved(t) \subseteq Versions /\ Saved(t) \subseteq t.expected..t.last_known
  BY <1>1, TrackerAssumption DEF Ordered, Tracker, Range, Versions, Maximal, Saved
<1>5. ASSUME NotBefore(t, v) = {}
      PROVE  /\ v > t.last_known /\ t.expected <= t.last_known
             /\ t.last_known \in Saved(t) /\ HighestSaved(t) = t.last_known
             /\ \A r \in t.ranges : r.upper < v
  BY <1>1, <1>5, AboveEveryGap
<1>6. ASSUME NotBefore(t, v) # {}
      PROVE  /\ at \in t.ranges /\ at.lower <= v /\ v <= at.upper /\ v < t.last_known
             /\ \A r \in t.ranges \ {at} : r.upper + 1 < at.lower \/ at.upper + 1 < r.lower
  BY <1>1, <1>6, RangeAtHoldsVersion, RangeAtIsApart
<1>7. t.expected <= t.last_known /\ t.last_known \in Saved(t)
  <2>1. CASE NotBefore(t, v) = {}
    BY <2>1, <1>5
  <2>2. CASE NotBefore(t, v) # {}
    BY <2>2, <1>6, <1>1 DEF Ordered
  <2> QED BY <2>1, <2>2
<1>8. R \in SUBSET Range
  <2>1. CASE NotBefore(t, v) = {}
    <3>1. t.last_known + 1 \in Nat
      BY <1>1, <1>7
    <3>2. Gap(t.last_known + 1, v - 1) \subseteq Range
      BY <3>1, <1>1 DEF Gap, Range, Versions
    <3> QED BY <2>1, <3>2, <1>4
  <2>2. CASE NotBefore(t, v) # {}
    <3>1. Gap(at.lower, v - 1) \subseteq Range /\ Gap(v + 1, at.upper) \subseteq Range
      BY <2>2, <1>1, <1>4, <1>6 DEF Gap, Range, Versions
    <3> QED BY <2>2, <3>1, <1>4
  <2> QED BY <2>1, <2>2
<1>9. SavedWith(k, c) \in [Versions -> Change \cup {NoChange}]
  BY <1>2, SavedWithFields
<1>10. u = [k EXCEPT !.ranges = R, !.changes = SavedWith(k, c)]
  BY <1>2, <1>3, <1>5 DEF CheckMissing, Save
<1>11. /\ u \in Tracker /\ u.ranges = R /\ u.changes = SavedWith(k, c)
       /\ u.expected = t.expected /\ u.last_known = k.last_known
  <2> HIDE DEF R, k, v, u
  <2> QED BY <1>2, <1>8, <1>9, <1>10 DEF Tracker
<1>12. Saved(u) = Saved(t) \cup {v}
  <2> HIDE DEF k, u
  <2> QED BY <1>2, <1>11, SavedWithFields
<1>13. \A w \in Saved(u) : u.changes[w].version = w
  <2> SUFFICES ASSUME NEW w \in Saved(u) PROVE u.changes[w].version = w
    OBVIOUS
  <2>1. w \in Versions
    BY DEF Saved
  <2>2. u.changes[w] = IF w = v THEN c ELSE t.changes[w]
    BY <2>1, <1>2, <1>11, SavedWithFields
  <2> QED BY <2>1, <2>2, <1>12 DEF Ordered
<1>14. Missing(u) = (u.expected..u.last_known) \ Saved(u)
  <2>1. ASSUME NEW w \in Versions
        PROVE  (\E r \in R : r.lower <= w /\ w <= r.upper)
                 <=> w \in (t.expected..k.last_known) /\ w \notin Saved(t) /\ w # v
    <3>1. w \in Nat
      BY <2>1, <1>1 DEF Versions
    <3>2. (\E r \in t.ranges : r.lower <= w /\ w <= r.upper)
            <=> w \in t.expected..t.last_known /\ w \notin Saved(t)
      BY DEF Ordered, Missing
    <3>3. CASE NotBefore(t, v) = {}
      <4>1. (\E r \in Gap(t.last_known + 1, v - 1) : r.lower <= w /\ w <= r.upper)
              <=> t.last_known < w /\ w < v
        <5>1. t.last_known + 1 \in Int /\ v - 1 \in Int /\ w \in Int
          BY <3>1, <1>1
        <5>2. (\E r \in Gap(t.last_known + 1, v - 1) : r.lower <= w /\ w <= r.upper)
                <=> t.last_known + 1 <= w /\ w <= v - 1
          BY <5>1, GapHolds
        <5> QED BY <5>2, <3>1, <1>1
      <4>2. k.last_known = v
        BY <3>3, <1>2, <1>5
      <4> QED BY <3>1, <3>2, <3>3, <4>1, <4>2, <1>1, <1>4, <1>5
    <3>4. CASE NotBefore(t, v) # {}
      <4>1. (\E r \in Gap(at.lower, v - 1) \cup Gap(v + 1, at.upper) : r.lower <= w /\ w <= r.upper)
              <=> at.lower <= w /\ w <= at.upper /\ w # v
        <5>1. at.lower \in Int /\ at.upper \in Int /\ v - 1 \in Int /\ v + 1 \in Int /\ w \in Int
          BY <3>1, <3>4, <1>1, <1>4, <1>6
        <5>2. /\ (\E r \in Gap(at.lower, v - 1) : r.lower <= w /\ w <= r.upper)
                   <=> at.lower <= w /\ w <= v - 1
              /\ (\E r \in Gap(v + 1, at.upper) : r.lower <= w /\ w <= r.upper)
                   <=> v + 1 <= w /\ w <= at.upper
          BY <5>1, GapHolds
        <5> QED BY <5>1, <5>2, <3>4, <1>1, <1>6
      <4>2. (\E r \in t.ranges \ {at} : r.lower <= w /\ w <= r.upper)
              => ~(at.lower <= w /\ w <= at.upper)
        BY <3>1, <3>4, <1>1, <1>4, <1>6
      <4>3. k.last_known = t.last_known
        BY <3>4, <1>1, <1>2, <1>6
      <4>4. (\E r \in t.ranges : r.lower <= w /\ w <= r.upper)
              <=> \/ at.lower <= w /\ w <= at.upper
                  \/ \E r \in t.ranges \ {at} : r.lower <= w /\ w <= r.upper
        BY <3>4, <1>6
      <4>5. (\E r \in R : r.lower <= w /\ w <= r.upper)
              <=> \/ at.lower <= w /\ w <= at.upper /\ w # v
                  \/ \E r \in t.ranges \ {at} : r.lower <= w /\ w <= r.upper
        BY <3>4, <4>1
      <4>6. ~ \E r \in t.ranges \ {at} : r.lower <= v /\ v <= r.upper
        BY <3>4, <1>1, <1>4, <1>6
      <4> QED BY <3>2, <4>3, <4>4, <4>5, <4>6
    <3> QED BY <3>3, <3>4
  <2>2. (t.expected..k.last_known) \subseteq Versions
    BY <1>1, <1>2 DEF Tracker, Versions
  <2> QED BY <2>1, <2>2, <1>11, <1>12 DEF Missing
<1>15. Maximal(u)
  <2>1. \A r \in t.ranges : r.upper + 1 \in Saved(t)
    BY DEF Ordered, Maximal
  <2>2. \A r, s \in t.ranges : r # s => r.upper + 1 < s.lower \/ s.upper + 1 < r.lower
    BY DEF Ordered, Maximal
  <2>3. CASE NotBefore(t, v) = {}
    <3>1. \A r \in t.ranges : r.upper + 1 <= t.last_known
      BY <2>1, <1>1, <1>4
    <3>2. \A r \in Gap(t.last_known + 1, v - 1) :
            r.lower = t.last_known + 1 /\ r.upper = v - 1 /\ r.lower <= r.upper
      BY DEF Gap
    <3>3. \A r, s \in Gap(t.last_known + 1, v - 1) : r = s
      BY DEF Gap
    <3>4. R = t.ranges \cup Gap(t.last_known + 1, v - 1)
      BY <2>3
    <3>5. \A r \in R : r.lower <= r.upper /\ r.upper + 1 \in Saved(t) \cup {v}
      BY <2>1, <3>2, <3>4, <1>1, <1>4
    <3>6. \A r, s \in R : r # s => r.upper + 1 < s.lower \/ s.upper + 1 < r.lower
      BY <2>2, <3>1, <3>2, <3>3, <3>4, <1>1, <1>4
    <3> QED BY <3>5, <3>6, <1>11, <1>12 DEF Maximal
  <2>4. CASE NotBefore(t, v) # {}
    <3>1. \A r \in Gap(at.lower, v - 1) :
            r.lower = at.lower /\ r.upper = v - 1 /\ r.lower <= r.upper
      BY DEF Gap
    <3>2. \A r \in Gap(v + 1, at.upper) :
            r.lower = v + 1 /\ r.upper = at.upper /\ r.lower <= r.upper
      BY DEF Gap
    <3>3. /\ \A r, s \in Gap(at.lower, v - 1) : r = s
          /\ \A r, s \in Gap(v + 1, at.upper) : r = s
      BY DEF Gap
    <3>4. R = (t.ranges \ {at}) \cup Gap(at.lower, v - 1) \cup Gap(v + 1, at.upper)
      BY <2>4
    <3>5. \A r \in R : r.lower <= r.upper /\ r.upper + 1 \in Saved(t) \cup {v}
      BY <2>1, <2>4, <3>1, <3>2, <3>4, <1>1, <1>4, <1>6
    <3>6. \A r, s \in R : r # s => r.upper + 1 < s.lower \/ s.upper + 1 < r.lower
      BY <2>2, <2>4, <3>1, <3>2, <3>3, <3>4, <1>1, <1>4, <1>6
    <3> QED BY <3>5, <3>6, <1>11, <1>12 DEF Maximal
  <2> QED BY <2>3, <2>4
<1>16. Saved(u) \subseteq u.expected..u.last_known
  BY <1>1, <1>2, <1>4, <1>11, <1>12
<1>17. u.last_known \in Saved(u)
  <2>1. CASE NotBefore(t, v) = {}
    BY <2>1, <1>2, <1>5, <1>11, <1>12
  <2>2. CASE NotBefore(t, v) # {}
    BY <2>2, <1>1, <1>2, <1>6, <1>7, <1>11, <1>12
  <2> QED BY <2>1, <2>2
<1>18. u.expected <= u.last_known + 1
  BY <1>1, <1>2, <1>7, <1>11
<1> QED BY <1>11, <1>13, <1>14, <1>15, <1>16, <1>17, <1>18 DEF Kept, Ordered

(* Handled, on a tracker between two changes.                               *)
LEMMA HandledKeeps ==
  ASSUME NEW t, Ordered(t), Settled(t), NEW c \in Change
  PROVE  Kept(t, Handled(t, c).tracker)
<1>1. t \in Tracker BY DEF Ordered
<1>2. CASE c.version < t.expected
  BY <1>2 DEF Handled, Save, Kept
<1>3. CASE ~(c.version < t.expected)
  <2>1. c.version >= t.expected /\ c.version \in Versions /\ c.version \in Nat
    BY <1>1, <1>3, TrackerAssumption DEF Tracker, Versions
  <2>2. Handled(t, c) = Check(t, c)
    BY <1>3 DEF Handled
  <2>3. CASE t.ranges = {}
    <3>1. Check(t, c) = CheckConsistent(Known(t, c), c)
      BY <2>3 DEF Check, Known
    <3> QED BY <2>1, <2>2, <2>3, <3>1, ConsistentKeeps
  <2>4. CASE t.ranges # {} /\ c.version \in Saved(t)
    <3> DEFINE k == Known(t, c)
               u == [k EXCEPT !.changes = SavedWith(t, c)]
    <3>1. Check(t, c).tracker = u
      BY <2>4 DEF Check, Known, Save
    <3>2. c.version <= t.last_known
      BY <2>4, <1>1, <2>1, TrackerAssumption DEF Ordered, Tracker, Versions
    <3>3. k \in Tracker /\ k.last_known = t.last_known /\ k.ranges = t.ranges /\ k.expected = t.expected
      BY <1>1, <2>1, <3>2, KnownFields, TrackerAssumption DEF Tracker, Versions
    <3>4. SavedWith(t, c) \in [Versions -> Change \cup {NoChange}]
      BY <1>1, SavedWithFields
    <3>5. /\ u \in Tracker /\ u.last_known = t.last_known /\ u.ranges = t.ranges
          /\ u.expected = t.expected /\ u.changes = SavedWith(t, c)
      <4> HIDE DEF k
      <4> QED BY <3>3, <3>4 DEF Tracker
    <3>6. Saved(u) = Saved(t)
      <4> HIDE DEF u
      <4>1. Saved(u) = Saved(t) \cup {c.version}
        BY <1>1, <3>5, SavedWithFields
      <4> QED BY <2>4, <4>1
    <3>7. \A w \in Saved(u) : u.changes[w].version = w
      <4> HIDE DEF u
      <4> QED BY <1>1, <2>1, <3>5, <3>6, SavedWithFields DEF Ordered, Saved
    <3>8. Missing(u) = Missing(t) /\ (Maximal(u) <=> Maximal(t))
      <4> HIDE DEF u
      <4> QED BY <3>5, <3>6 DEF Missing, Maximal
    <3> HIDE DEF u
    <3> QED BY <2>2, <2>4, <3>1, <3>5, <3>6, <3>7, <3>8 DEF Kept, Ordered
  <2>5. CASE t.ranges # {} /\ c.version \notin Saved(t) /\ c.nullifying
    <3>1. Check(t, c) = CheckNullifying(Known(t, c), c)
      BY <2>5 DEF Check, Known
    <3> QED BY <2>1, <2>2, <2>5, <3>1, NullifyingKeeps
  <2>6. CASE t.ranges # {} /\ c.version \notin Saved(t) /\ ~c.nullifying
    <3>1. Check(t, c) = CheckMissing(Known(t, c), c)
      BY <2>6 DEF Check, Known
    <3> QED BY <2>1, <2>2, <2>6, <3>1, MissingKeeps
  <2> QED BY <2>3, <2>4, <2>5, <2>6
<1> QED BY <1>2, <1>3

(* While saved changes are replayed, what remains starts at the expected    *)
(* version.                                                                 *)
LEMMA NextReplayedIsExpected ==
  ASSUME TrackerTypeOK, ReplayIsInOrder, replaying # {}
  PROVE  /\ NextReplayed = tracker.expected /\ tracker.expected <= tracker.last_known
         /\ tracker.changes[NextReplayed] \in Change
         /\ tracker.changes[NextReplayed].version = NextReplayed
<1>1. tracker.expected \in Nat /\ tracker.last_known \in Int
  BY TrackerAssumption DEF TrackerTypeOK, Tracker, Versions
<1>2. replaying = tracker.expected..tracker.last_known
  BY DEF ReplayIsInOrder
<1>3. tracker.expected \in replaying /\ \A w \in replaying : tracker.expected <= w
  BY <1>1, <1>2
<1>4. NextReplayed \in replaying /\ \A w \in replaying : NextReplayed <= w
  BY <1>3 DEF NextReplayed
<1>5. NextReplayed = tracker.expected
  BY <1>1, <1>2, <1>3, <1>4
<1>6. NextReplayed \in Saved(tracker)
  BY <1>4 DEF TrackerTypeOK
<1> QED BY <1>1, <1>2, <1>3, <1>5, <1>6 DEF TrackerTypeOK, Tracker, Saved

(* A change that arrives keeps the invariant.                               *)
LEMMA ReceivePreserves ==
  ASSUME TrackerInv, NEW c \in Change, Receive(c)
  PROVE  TrackerInv'
<1> DEFINE u == Handled(tracker, c).tracker
<1>1. Ordered(tracker) /\ Settled(tracker) /\ replaying = {}
  BY DEF TrackerInv, Receive
<1>2. Ordered(u) /\ (tracker.ranges = {} => Settled(u))
  BY <1>1, HandledKeeps DEF Kept
<1>3. /\ tracker' = u
      /\ replaying' = IF tracker.ranges # {} /\ u.ranges = {} THEN Saved(u) ELSE {}
  BY DEF Receive
<1> HIDE DEF u
<1>4. TrackerTypeOK'
  BY <1>2, <1>3 DEF TrackerTypeOK, Ordered, Saved
<1>5. (replaying = {} => Ordered(tracker) /\ Settled(tracker))'
  BY <1>2, <1>3 DEF Ordered, Settled, Tracker, Saved, Maximal, Missing
<1>6. ReplayIsInOrder'
  <2>1. SUFFICES ASSUME replaying' # {}
                 PROVE  u.ranges = {} /\ Saved(u) = u.expected..u.last_known
    BY <1>3 DEF ReplayIsInOrder
  <2>2. u.ranges = {} BY <1>3, <2>1
  <2>3. Missing(u) = {} BY <2>2 DEF Missing
  <2> QED BY <2>2, <2>3, <1>2 DEF Ordered
<1> QED BY <1>4, <1>5, <1>6 DEF TrackerInv

(* A change that is replayed keeps the invariant.                           *)
LEMMA ReplayPreserves ==
  ASSUME TrackerInv, ReplayNext
  PROVE  TrackerInv'
<1> DEFINE v == NextReplayed
           c == tracker.changes[v]
           u == Handled(tracker, c).tracker
<1>1. /\ TrackerTypeOK /\ ReplayIsInOrder /\ replaying # {}
      /\ tracker \in Tracker /\ tracker.ranges = {}
      /\ replaying = tracker.expected..tracker.last_known
  BY DEF TrackerInv, ReplayNext, TrackerTypeOK, ReplayIsInOrder
<1>2. /\ v = tracker.expected /\ v <= tracker.last_known
      /\ c \in Change /\ c.version = v
  BY <1>1, NextReplayedIsExpected
<1>3. v \in Nat /\ v \in Versions /\ tracker.last_known \in Int /\ v + 1 \in 0..(VersionLimit + 1)
  BY <1>1, <1>2, TrackerAssumption DEF Tracker, Versions
<1>4. /\ Known(tracker, c) \in Tracker
      /\ Known(tracker, c).last_known = tracker.last_known
      /\ Known(tracker, c).ranges = {}
      /\ Known(tracker, c).expected = tracker.expected
      /\ Known(tracker, c).changes = tracker.changes
  BY <1>1, <1>2, <1>3, KnownFields
<1>5. u = [Known(tracker, c) EXCEPT !.expected = v + 1]
  <2>1. Handled(tracker, c) = Check(tracker, c)
    BY <1>2, <1>3 DEF Handled
  <2>2. Check(tracker, c) = CheckConsistent(Known(tracker, c), c)
    BY <1>1 DEF Check, Known
  <2>3. CheckConsistent(Known(tracker, c), c)
          = Accept([Known(tracker, c) EXCEPT !.expected = v + 1])
    BY <1>2, <1>4 DEF CheckConsistent
  <2> QED BY <2>1, <2>2, <2>3 DEF Accept
<1>6. /\ u \in Tracker /\ u.ranges = {} /\ u.expected = v + 1
      /\ u.last_known = tracker.last_known /\ u.changes = tracker.changes
  <2> HIDE DEF u, v, c
  <2> QED BY <1>3, <1>4, <1>5 DEF Tracker
<1>7. replaying' = (v + 1)..tracker.last_known
  BY <1>1, <1>2, <1>3 DEF ReplayNext
<1>8. CASE replaying = {v}
  <2>1. tracker' = [u EXCEPT !.changes = NothingSaved]
    BY <1>8 DEF ReplayNext
  <2>2. NothingSaved \in [Versions -> Change \cup {NoChange}]
    BY DEF NothingSaved
  <2>3. /\ tracker' \in Tracker /\ tracker'.ranges = {} /\ tracker'.expected = v + 1
        /\ tracker'.last_known = tracker.last_known /\ tracker'.changes = NothingSaved
    <3> HIDE DEF u, v, c
    <3> QED BY <2>1, <2>2, <1>6 DEF Tracker
  <2>4. replaying' = {} /\ v + 1 = tracker.last_known + 1
    BY <1>1, <1>2, <1>3, <1>7, <1>8
  <2>5. Saved(tracker') = {}
    BY <2>3 DEF Saved, NothingSaved
  <2>6. Missing(tracker') = {} /\ Maximal(tracker')
    BY <2>3 DEF Missing, Maximal
  <2>7. Ordered(tracker') /\ Settled(tracker')
    BY <2>3, <2>4, <2>5, <2>6, <1>3 DEF Ordered, Settled
  <2> QED BY <2>3, <2>4, <2>5, <2>7
        DEF TrackerInv, TrackerTypeOK, ReplayIsInOrder, Ordered, Settled, Saved, Maximal, Missing
<1>9. CASE replaying # {v}
  <2>1. tracker' = u
    BY <1>9 DEF ReplayNext
  <2>2. replaying' # {}
    BY <1>1, <1>2, <1>3, <1>7, <1>9
  <2> HIDE DEF u, v, c
  <2>3. Saved(tracker)' = Saved(tracker)
    BY <2>1, <1>6 DEF Saved
  <2>4. TrackerTypeOK'
    BY <2>1, <2>3, <1>1, <1>2, <1>3, <1>6, <1>7 DEF TrackerTypeOK
  <2> QED BY <2>1, <2>2, <2>4, <1>6, <1>7 DEF TrackerInv, ReplayIsInOrder
<1> QED BY <1>8, <1>9

(* Whatever changes arrive, in any order, repeatedly or never: the ranges   *)
(* are exactly the missing versions, maximal and apart, nothing is saved    *)
(* without a gap, and saved changes are replayed in order.                  *)
THEOREM TrackerInvariant == TrackerSpec => []TrackerInv
<1>1. TrackerInit => TrackerInv
  <2> SUFFICES ASSUME TrackerInit PROVE TrackerInv
    OBVIOUS
  <2>1. Ordered(tracker) /\ Settled(tracker) /\ replaying = {}
    BY InitialIsOrdered DEF TrackerInit
  <2> QED BY <2>1 DEF TrackerInv, TrackerTypeOK, ReplayIsInOrder, Ordered
<1>2. TrackerInv /\ [TrackerNext]_trackerVars => TrackerInv'
  <2> SUFFICES ASSUME TrackerInv, [TrackerNext]_trackerVars PROVE TrackerInv'
    OBVIOUS
  <2>1. CASE ReplayNext
    BY <2>1, ReplayPreserves
  <2>2. ASSUME NEW c \in Change, Receive(c) PROVE TrackerInv'
    BY <2>2, ReceivePreserves
  <2>3. CASE UNCHANGED trackerVars
    BY <2>3 DEF trackerVars, TrackerInv, TrackerTypeOK, ReplayIsInOrder, Ordered, Settled,
                Saved, Maximal, Missing
  <2> QED BY <2>1, <2>2, <2>3 DEF TrackerNext
<1> QED BY <1>1, <1>2, PTL DEF TrackerSpec

(* The tracker's fields keep their types.                                   *)
THEOREM TrackerTypes == TrackerSpec => []TrackerTypeOK
<1>1. TrackerInv => TrackerTypeOK BY DEF TrackerInv
<1> QED BY <1>1, TrackerInvariant, PTL

(* The participant is asked for what is missing, all of it and nothing      *)
(* else.                                                                    *)
THEOREM MissingIsReported == TrackerSpec => []RangesAreTheMissingVersions
<1>1. TrackerInv => RangesAreTheMissingVersions
  BY DEF TrackerInv, Ordered, RangesAreTheMissingVersions
<1> QED BY <1>1, TrackerInvariant, PTL

(* It is asked in whole runs, which no saved change is part of.             *)
THEOREM RangesStayMaximal == TrackerSpec => []RangesAreMaximal
<1>1. TrackerInv => RangesAreMaximal
  BY DEF TrackerInv, Ordered, RangesAreMaximal, ReplayIsInOrder, Maximal
<1> QED BY <1>1, TrackerInvariant, PTL

(* Every change that had to wait is applied once the last gap is closed, in *)
(* the order of the versions.                                               *)
THEOREM ReplayInOrder == TrackerSpec => []ReplayIsInOrder
<1>1. TrackerInv => ReplayIsInOrder BY DEF TrackerInv
<1> QED BY <1>1, TrackerInvariant, PTL

(* Nothing stays saved when there is no gap.                                *)
THEOREM NothingStaysSaved == TrackerSpec => []NothingSavedWithoutGap
<1>1. TrackerInv => NothingSavedWithoutGap
  <2> SUFFICES ASSUME TrackerInv, tracker.ranges = {}, replaying = {}
               PROVE  Saved(tracker) = {} /\ tracker.expected = tracker.last_known + 1
    BY DEF NothingSavedWithoutGap
  <2>1. Ordered(tracker) /\ Settled(tracker)
    BY DEF TrackerInv
  <2> QED BY <2>1, NoGapNothingMissing
<1> QED BY <1>1, TrackerInvariant, PTL

=============================================================================
