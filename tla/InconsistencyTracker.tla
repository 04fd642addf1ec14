------------------------ MODULE InconsistencyTracker ------------------------
(***************************************************************************)
(* rmf_traffic/schedule/InconsistencyTracker.cpp, with the test that every  *)
(* itinerary handler of Database.cpp makes before it: how the schedule      *)
(* database puts the itinerary changes of one participant back in order.    *)
(*                                                                         *)
(* Changes carry consecutive versions but arrive in any order, repeatedly   *)
(* or never.  A change that cannot be applied yet is saved; the versions    *)
(* still missing are kept as a set of ranges for the participant to         *)
(* retransmit.  A nullifying change (a new itinerary) makes all earlier     *)
(* ones irrelevant.                                                         *)
(*                                                                         *)
(* Versions are numbers without overflow: the initial last known version,   *)
(* the largest 64-bit number in the code, is -1, which is what it is in the *)
(* code's modular arithmetic.                                               *)
(***************************************************************************)
EXTENDS Integers, FiniteSets

CONSTANTS
  VersionLimit,   (* bound of the model: the largest itinerary version      *)
  Change,         (* itinerary changes, with a version and a nullifying flag *)
  NoChange        (* where no change is saved                               *)

Versions == 0..VersionLimit

ASSUME TrackerAssumption ==
  /\ VersionLimit \in Nat
  /\ NoChange \notin Change
  /\ \A c \in Change : c.version \in Versions /\ c.nullifying \in BOOLEAN

VARIABLES
  tracker,    (* the InconsistencyTracker of the participant                *)
  replaying   (* versions of saved changes _apply_changes has yet to apply  *)

trackerVars == <<tracker, replaying>>

Range == [lower : Versions, upper : Versions]

NothingSaved == [v \in Versions |-> NoChange]

InitialTracker ==
  [ranges     |-> {},             (* _ranges                                *)
   last_known |-> -1,             (* _last_known_version                    *)
   expected   |-> 0,              (* _expected_version                      *)
   changes    |-> NothingSaved]   (* _changes, by version                   *)

Saved(t) == {v \in Versions : t.changes[v] # NoChange}

SavedWith(t, c) == [t.changes EXCEPT ![c.version] = c]

SavedFrom(t, v) == [w \in Versions |-> IF w >= v THEN t.changes[w] ELSE NoChange]

(* What check() decides: the tracker after it, and whether it returned no   *)
(* ticket, so that the caller applies the change at once.                   *)
Accept(t) == [tracker |-> t, accepted |-> TRUE]
Save(t) == [tracker |-> t, accepted |-> FALSE]

-----------------------------------------------------------------------------
(* check(), part by part.  c is the change; the tracker already knows that  *)
(* its version exists.                                                      *)

(* No inconsistency so far: the change is the expected one, or makes its    *)
(* predecessors irrelevant, or opens the first gap.                         *)
CheckConsistent(t, c) ==
  IF c.nullifying \/ c.version = t.expected
  THEN Accept([t EXCEPT !.expected = c.version + 1])
  ELSE Save([t EXCEPT !.ranges = {[lower |-> t.expected, upper |-> c.version - 1]},
                      !.changes = SavedWith(t, c)])

(* _ranges.lower_bound: the lowest range that does not end before v.        *)
NotBefore(t, v) == {r \in t.ranges : r.upper >= v}
RangeAt(t, v) ==
  CHOOSE r \in NotBefore(t, v) : \A s \in NotBefore(t, v) : r.upper <= s.upper

(* Mutant: the expected version is the one after the new itinerary, which   *)
(* the replay will then ignore.                                             *)
CheckNullifyingPast(t, c) ==
  LET at == RangeAt(t, c.version)
      later == {r \in t.ranges : r.upper > at.upper}
  IN  IF NotBefore(t, c.version) = {}
      THEN Accept([t EXCEPT !.ranges = {}, !.changes = NothingSaved,
                            !.expected = c.version + 1])
      ELSE Save([t EXCEPT
             !.ranges = IF c.version = at.upper THEN later
                        ELSE later \cup {[lower |-> c.version + 1, upper |-> at.upper]},
             !.changes = SavedFrom([t EXCEPT !.changes = SavedWith(t, c)], c.version),
             !.expected = c.version + 1])

(* A new itinerary above every gap: nothing older matters any more.  Inside *)
(* or below a gap it removes the gaps below it, and waits for the rest.     *)
CheckNullifying(t, c) ==
  IF NotBefore(t, c.version) = {}
  THEN Accept([t EXCEPT !.ranges = {}, !.changes = NothingSaved,
                        !.expected = c.version + 1])
  ELSE LET at == RangeAt(t, c.version)
           later == {r \in t.ranges : r.upper > at.upper}
           rest == [lower |-> c.version + 1, upper |-> at.upper]
           kept == [t EXCEPT !.changes = SavedWith(t, c)]
       IN  Save([t EXCEPT
                  !.ranges = IF c.version = at.upper THEN later ELSE later \cup {rest},
                  !.changes = SavedFrom(kept, c.version),
                  !.expected = c.version])

(* The highest change seen so far opens a new gap below it, unless it       *)
(* follows the highest saved one; any other one shrinks, splits or removes  *)
(* the gap it belongs to.                                                   *)
HighestSaved(t) == CHOOSE v \in Saved(t) : \A w \in Saved(t) : w <= v

(* Mutant: the empty range is inserted too.                                 *)
GapUnchecked(lower, upper) == {[lower |-> lower, upper |-> upper]}

Gap(lower, upper) == IF lower <= upper THEN {[lower |-> lower, upper |-> upper]} ELSE {}

(* Mutant: the highest saved change is taken to be the new one itself       *)
(* (rbegin in place of the element below it), so that no gap is opened.     *)
CheckMissingNoGap(t, c) ==
  LET at == RangeAt(t, c.version)
  IN  Save([t EXCEPT
        !.ranges = IF NotBefore(t, c.version) = {} THEN @
                   ELSE (@ \ {at}) \cup Gap(at.lower, c.version - 1)
                                   \cup Gap(c.version + 1, at.upper),
        !.changes = SavedWith(t, c)])

CheckMissing(t, c) ==
  LET at == RangeAt(t, c.version)
      ranges ==
        IF NotBefore(t, c.version) = {}
        THEN t.ranges \cup Gap(HighestSaved(t) + 1, c.version - 1)
        ELSE (t.ranges \ {at}) \cup Gap(at.lower, c.version - 1)
                               \cup Gap(c.version + 1, at.upper)
  IN  Save([t EXCEPT !.ranges = ranges, !.changes = SavedWith(t, c)])

Check(t, c) ==
  LET known == [t EXCEPT !.last_known = IF c.version > @ THEN c.version ELSE @]
  IN  IF t.ranges = {} THEN CheckConsistent(known, c)
      ELSE IF c.version \in Saved(t)
      THEN Save([known EXCEPT !.changes = SavedWith(t, c)])
      ELSE IF c.nullifying THEN CheckNullifying(known, c)
      ELSE CheckMissing(known, c)

(* Database::set, extend, delay and clear ignore a change older than the    *)
(* expected version, and check the others.                                  *)
Handled(t, c) == IF c.version < t.expected THEN Save(t) ELSE Check(t, c)

-----------------------------------------------------------------------------
(* The steps *)

TrackerInit == tracker = InitialTracker /\ replaying = {}

(* Mutant: closing the last gap does not set _ready.                        *)
ReceiveUnready(c) ==
  /\ replaying = {}
  /\ tracker' = Handled(tracker, c).tracker
  /\ UNCHANGED replaying

(* A change arrives.  The ticket's destructor finds _ready set when the     *)
(* change has closed the last gap, and replays what was saved.              *)
Receive(c) ==
  LET verdict == Handled(tracker, c)
  IN  /\ replaying = {}
      /\ tracker' = verdict.tracker
      /\ replaying' = IF tracker.ranges # {} /\ verdict.tracker.ranges = {}
                      THEN Saved(verdict.tracker) ELSE {}

(* _apply_changes: the saved changes, lowest first, are handed to the       *)
(* database handler again, and forgotten after the last one.                *)
NextReplayed == CHOOSE v \in replaying : \A w \in replaying : v <= w

(* Mutant: the saved changes are forgotten after the first replay.          *)
ReplayNextForgetting ==
  /\ replaying # {}
  /\ replaying' = replaying \ {NextReplayed}
  /\ tracker' = [Handled(tracker, tracker.changes[NextReplayed]).tracker
                   EXCEPT !.changes = NothingSaved]

ReplayNext ==
  LET verdict == Handled(tracker, tracker.changes[NextReplayed])
  IN  /\ replaying # {}
      /\ replaying' = replaying \ {NextReplayed}
      /\ tracker' = IF replaying = {NextReplayed}
                    THEN [verdict.tracker EXCEPT !.changes = NothingSaved]
                    ELSE verdict.tracker

TrackerNext == ReplayNext \/ \E c \in Change : Receive(c)

TrackerSpec == TrackerInit /\ [][TrackerNext]_trackerVars

-----------------------------------------------------------------------------
(* Types and properties *)

(* The tracker's fields have their types, every saved change is kept at its *)
(* own version, and replaying is a part of what is saved.                   *)
Tracker ==
  [ranges     : SUBSET Range,
   last_known : Versions \cup {-1},
   expected   : 0..(VersionLimit + 1),
   changes    : [Versions -> Change \cup {NoChange}]]

TrackerTypeOK ==
  /\ tracker \in Tracker
  /\ \A v \in Saved(tracker) : tracker.changes[v].version = v
  /\ replaying \subseteq Saved(tracker)

Missing(t) == {v \in Versions : \E r \in t.ranges : r.lower <= v /\ v <= r.upper}

(* The ranges reported to the participant are exactly the versions that are *)
(* missing: from the expected one to the last known one, those not saved.   *)
(* A version left out would never be retransmitted, and the saved changes   *)
(* behind it never applied.                                                 *)
RangesAreTheMissingVersions ==
  replaying = {} =>
    Missing(tracker) = (tracker.expected..tracker.last_known) \ Saved(tracker)

(* Ranges are runs of missing versions: not empty, directly below a saved    *)
(* change, and apart from each other.                                       *)
Maximal(t) ==
  \A r \in t.ranges :
    /\ r.lower <= r.upper
    /\ r.upper + 1 \in Saved(t)
    /\ \A s \in t.ranges : r # s => r.upper + 1 < s.lower \/ s.upper + 1 < r.lower

RangesAreMaximal == Maximal(tracker)

(* Nothing is left waiting once there is nothing to wait for.               *)
NothingSavedWithoutGap ==
  tracker.ranges = {} /\ replaying = {} =>
    Saved(tracker) = {} /\ tracker.expected = tracker.last_known + 1

(* The replay never meets a gap: what it hands to the database next is the  *)
(* expected version, so that check() accepts it and the assertions of       *)
(* check() hold.                                                            *)
ReplayIsInOrder ==
  replaying # {} =>
    /\ tracker.ranges = {}
    /\ replaying = tracker.expected..tracker.last_known
=============================================================================
