---------------------------- MODULE ScheduleSync ----------------------------
(***************************************************************************)
(* One participant of the traffic schedule and the schedule database it     *)
(* writes to: Participant.cpp and its retransmissions, the itinerary        *)
(* handlers of Database.cpp behind an InconsistencyTracker, the schedule    *)
(* node that publishes inconsistencies, and the topics in between.          *)
(*                                                                         *)
(* Set, delay and clear travel on topics of their own, so that they         *)
(* overtake each other.  The network is a set of messages, delivered in any *)
(* order.  A full history may lose a change when it is published; what is   *)
(* retransmitted arrives.                                                   *)
(*                                                                         *)
(* An itinerary is its plan and the delays added to it since; plan 0 is the *)
(* empty itinerary.                                                         *)
(***************************************************************************)
EXTENDS InconsistencyTracker

CONSTANTS
  LossLimit,      (* bound of the model: changes lost                       *)
  RestartLimit,   (* bound of the model: restarts of the schedule node      *)
  IdShifts,       (* what a restart may add to the participant's id: 0 when *)
                  (* the registry's log still has it, 1 when it is shifted  *)
  Polling,        (* whether DatabaseRectificationRequesterFactory::rectify *)
                  (* is called, as in the library without ROS               *)
  LongDelays      (* whether the participant may report a delay above the   *)
                  (* schedule node's delay_limit of one hour                *)

ASSUME SyncAssumption ==
  /\ LossLimit \in Nat /\ RestartLimit \in Nat /\ IdShifts \subseteq {0, 1}
  /\ Polling \in BOOLEAN /\ LongDelays \in BOOLEAN

VARIABLES
  participant,  (* Participant::Implementation::Shared                      *)
  network,      (* changes on their way to the schedule node                *)
  reports,      (* inconsistency messages on their way to the participant   *)
  database,     (* the participant's state in the Database, but its tracker *)
  losses,       (* how many changes were lost                               *)
  log,          (* history: the participant's itinerary after each version  *)
  long_delays   (* history: the versions that were delays above the limit   *)

vars == <<tracker, replaying, participant, network, reports, database, losses, log,
          long_delays>>

NoItinerary == [plan |-> 0, delays |-> 0]
Plans == 1..(VersionLimit + 1)
Itinerary == [plan : Plans \cup {0}, delays : 0..VersionLimit]
Ids == 0..RestartLimit

(* The changes a participant may write; only set is nullifying for check(), *)
(* and only a delay may be longer than delay_limit.                         *)
ItineraryChange ==
  [version : Versions, id : Ids, kind : {"set"}, plan : Plans, nullifying : {TRUE},
   long : {FALSE}]
  \cup
  [version : Versions, id : Ids, kind : {"delay"}, plan : {0}, nullifying : {FALSE},
   long : BOOLEAN]
  \cup
  [version : Versions, id : Ids, kind : {"clear"}, plan : {0}, nullifying : {FALSE},
   long : {FALSE}]

(* They are the changes the tracker orders.                                 *)
ASSUME ChangeAssumption == Change = ItineraryChange

Init ==
  /\ TrackerInit
  /\ participant = [id |-> 0, version |-> -1, plan |-> 0, itinerary |-> NoItinerary,
                    history |-> {}]
  /\ network = {}
  /\ reports = {}
  /\ database = [id |-> 0, itinerary |-> NoItinerary, applied |-> -1, restarts |-> 0]
  /\ losses = 0
  /\ log = [v \in Versions |-> NoItinerary]
  /\ long_delays = {}

-----------------------------------------------------------------------------
(* The participant *)

(* A change of the current itinerary: the next version is written and       *)
(* remembered.  A new plan forgets the changes before it.                   *)
Write(kind, long, itinerary, history) ==
  LET version == participant.version + 1
      change == [version |-> version, id |-> participant.id, kind |-> kind,
                 plan |-> IF kind = "set" THEN itinerary.plan ELSE 0,
                 nullifying |-> kind = "set", long |-> long]
  IN  /\ version \in Versions
      /\ participant' = [participant EXCEPT !.version = version,
                           !.itinerary = itinerary,
                           !.plan = IF kind = "set" THEN itinerary.plan ELSE @,
                           !.history = history \cup {change}]
      /\ log' = [log EXCEPT ![version] = itinerary]
      /\ long_delays' = IF long THEN long_delays \cup {version} ELSE long_delays
      /\ \/ network' = network \cup {change} /\ losses' = losses
         \/ losses < LossLimit /\ losses' = losses + 1 /\ network' = network
      /\ UNCHANGED <<tracker, replaying, reports, database>>

(* Mutant: a new plan leaves the changes of the old one in the history.     *)
SetKeepingHistory ==
  Write("set", FALSE, [plan |-> participant.plan + 1, delays |-> 0], participant.history)

Set == Write("set", FALSE, [plan |-> participant.plan + 1, delays |-> 0], {})

(* delay and clear do nothing when there are no routes.  The participant    *)
(* takes a delay of any length.                                             *)
Delay ==
  /\ participant.itinerary # NoItinerary
  /\ \E long \in {FALSE, LongDelays} :
       Write("delay", long, [participant.itinerary EXCEPT !.delays = @ + 1],
             participant.history)

Clear ==
  /\ participant.itinerary # NoItinerary
  /\ Write("clear", FALSE, NoItinerary, participant.history)

(* Mutant: the loop over the range stops before its upper end.              *)
InRangeOpen(history, r) ==
  IF \E c \in history : c.version = r.upper
  THEN {c \in history : r.lower <= c.version /\ c.version < r.upper}
  ELSE {}

(* Every message the participant's history holds for a range, if it holds   *)
(* the range's upper end, and those after the last known version: upper_    *)
(* bound compares plain 64-bit numbers, and -1 is the largest of them.      *)
InRange(history, r) ==
  IF \E c \in history : c.version = r.upper
  THEN {c \in history : r.lower <= c.version /\ c.version <= r.upper}
  ELSE {}

Newer(history, last_known) ==
  IF last_known = -1 THEN {} ELSE {c \in history : c.version > last_known}

Retransmitted(ranges, last_known) ==
  (UNION {InRange(participant.history, r) : r \in ranges})
    \cup Newer(participant.history, last_known)

(* Writer: an inconsistency message of this participant's id is answered.   *)
OnReport(report) ==
  /\ report \in reports
  /\ reports' = reports \ {report}
  /\ network' = IF report.id = participant.id
                THEN network \cup Retransmitted(report.ranges, report.last_known)
                ELSE network
  /\ UNCHANGED <<tracker, replaying, participant, database, losses, log, long_delays>>

(* rectify: the database's ranges are read and answered directly.           *)
Rectify ==
  /\ Polling
  /\ replaying = {}
  /\ participant.id = database.id
  /\ network' = network \cup Retransmitted(tracker.ranges, tracker.last_known)
  /\ UNCHANGED <<tracker, replaying, participant, reports, database, losses, log, long_delays>>

(* The registry gives the participant another id: correct_id stores it and  *)
(* calls set() with the current plan, which set() refuses as not newer.     *)
CorrectId ==
  /\ participant.id # database.id
  /\ participant' = [participant EXCEPT !.id = database.id]
  /\ UNCHANGED <<tracker, replaying, network, reports, database, losses, log, long_delays>>

-----------------------------------------------------------------------------
(* The schedule node *)

(* What an accepted change makes of the participant's itinerary.            *)
Applied(db, c) ==
  [db EXCEPT
     !.applied = c.version,
     !.itinerary = CASE c.kind = "set" -> [plan |-> c.plan, delays |-> 0]
                     [] c.kind = "clear" -> NoItinerary
                     [] c.kind = "delay" -> IF @ = NoItinerary THEN @
                                            ELSE [@ EXCEPT !.delays = @ + 1]]

(* Mutants: the change is not compared with the expected version; it is     *)
(* applied without being checked.                                           *)
DatabaseAfterOld(c) ==
  IF Check(tracker, c).accepted THEN Applied(database, c) ELSE database

DatabaseAfterAny(c) == Applied(database, c)

DatabaseAfter(c) ==
  IF Handled(tracker, c).accepted THEN Applied(database, c) ELSE database

(* itinerary_set, _delay and _clear: the change is handled, and the ranges  *)
(* that remain are published.  An unknown id is an exception, and a warning;*)
(* a delay above the limit is an error message, before anything is handled  *)
(* or published.                                                            *)
Deliver(c) ==
  /\ c \in network
  /\ network' = network \ {c}
  /\ \/ /\ (c.long /\ c.id = database.id) \/ (~c.long /\ c.id # database.id)
        /\ replaying = {}
        /\ UNCHANGED <<tracker, replaying, database, reports>>
     \/ /\ c.id = database.id /\ ~c.long
        /\ Receive(c)
        /\ database' = DatabaseAfter(c)
        /\ reports' = IF tracker'.ranges = {} THEN reports
                      ELSE reports \cup {[id |-> database.id, ranges |-> tracker'.ranges,
                                          last_known |-> tracker'.last_known]}
  /\ UNCHANGED <<participant, losses, log, long_delays>>

Replay ==
  /\ ReplayNext
  /\ database' = DatabaseAfter(tracker.changes[NextReplayed])
  /\ UNCHANGED <<participant, network, reports, losses, log, long_delays>>

(* The schedule node starts again.  Its database is empty; the registry     *)
(* reads its log and registers the participant again, without any version.  *)
Restarted(shift) ==
  /\ replaying = {}
  /\ database.restarts < RestartLimit
  /\ database' = [id |-> database.id + shift, itinerary |-> NoItinerary, applied |-> -1,
                  restarts |-> database.restarts + 1]
  /\ tracker' = InitialTracker
  /\ UNCHANGED <<replaying, participant, reports, losses, log, long_delays>>

Restart(shift) == Restarted(shift) /\ UNCHANGED network

(* itinerary_delay, for a delay above the limit and an id the database does *)
(* not know: the error message names the participant through the null       *)
(* pointer that get_participant returns, and the node goes down.            *)
Crash(c, shift) ==
  /\ c \in network /\ c.long /\ c.id # database.id
  /\ Restarted(shift)
  /\ network' = network \ {c}

-----------------------------------------------------------------------------
Next ==
  \/ Set \/ Delay \/ Clear
  \/ \E report \in reports : OnReport(report)
  \/ Rectify \/ CorrectId
  \/ \E c \in network : Deliver(c)
  \/ Replay
  \/ \E shift \in IdShifts : Restart(shift) \/ \E c \in network : Crash(c, shift)

Spec == Init /\ [][Next]_vars

(* Reliable topics deliver what they do not lose, and both nodes' executors *)
(* run what is ready.  Nothing makes the participant write.  A version is   *)
(* written once, so that it names its change.                               *)
Fairness ==
  /\ \A v \in Versions : WF_vars(\E c \in network : c.version = v /\ Deliver(c))
  /\ WF_vars(Replay)
  /\ WF_vars(\E report \in reports : OnReport(report))
  /\ WF_vars(Rectify)
  /\ WF_vars(CorrectId)

FairSpec == Spec /\ Fairness

-----------------------------------------------------------------------------
(* Types and properties *)

(* Every variable has its type.                                             *)
TypeOK ==
  /\ TrackerTypeOK
  /\ participant \in [id : Ids, version : Versions \cup {-1}, plan : Plans \cup {0},
                      itinerary : Itinerary, history : SUBSET Change]
  /\ network \subseteq Change
  /\ database \in [id : Ids, itinerary : Itinerary, applied : Versions \cup {-1},
                   restarts : 0..RestartLimit]
  /\ losses \in 0..LossLimit
  /\ long_delays \subseteq Versions

(* What the database shows of the participant is an itinerary the           *)
(* participant had: the one after the last version that was applied.  A     *)
(* delay applied twice, on the wrong plan or before its predecessor would   *)
(* show one it never had.                                                   *)
DatabaseShowsAnItineraryOfThePast ==
  database.itinerary = IF database.applied = -1 THEN NoItinerary ELSE log[database.applied]

(* The database never goes back to an older itinerary, late and repeated    *)
(* changes notwithstanding, unless its node restarts.                         *)
DatabaseNeverGoesBack ==
  [][database'.restarts = database.restarts => database'.applied >= database.applied]_vars

(* The versions the participant is still able to retransmit go, without a   *)
(* hole, from its current plan to its current version.                      *)
HistoryIsComplete ==
  participant.version >= 0 =>
    /\ \E c \in participant.history : c.version = participant.version
    /\ \E first \in participant.history :
         /\ first.kind = "set" /\ first.plan = participant.plan
         /\ {c.version : c \in participant.history} = first.version..participant.version

(* A gap does not stay: a report reaches the participant, which sends what  *)
(* is missing, or a newer plan makes it irrelevant.  Only delays above the  *)
(* limit stay missing, since the node drops them whenever they are sent.    *)
GapsAreFilled == tracker.ranges # {} ~> Missing(tracker) \subseteq long_delays

(* Once the database has heard of the participant's latest change, it comes  *)
(* to show the itinerary after it, unless the participant goes on or the     *)
(* node restarts, or the plan has been delayed by more than the limit: then  *)
(* the database shows it again from the next plan on.                        *)
CatchesUp ==
  \A v \in Versions :
    (tracker.last_known = v /\ participant.version = v)
      ~> \/ database.applied = v /\ database.itinerary = participant.itinerary
         \/ tracker.last_known # v \/ participant.version # v
         \/ \E c \in participant.history : c.long

(* When the participant writes no more, the database comes to show its      *)
(* current itinerary for good.                                              *)
EventuallyInSync == <>[](database.itinerary = participant.itinerary)
=============================================================================
