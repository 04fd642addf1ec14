# TLA+ specifications of rmf_ws

`rmf_ws` is a workspace of the Open Robotics Middleware Framework: the fleet
adapters of robot fleets, a traffic schedule they share, and services for
parking spots, mutex groups, doors, lifts and the dispatching of tasks.  All of
it is asynchronous: nodes own their state, change it in the callbacks of ROS 2
topics and services, and rely on retransmission, time-outs and versions.  The
modules here specify the parts where the order of messages decides correctness.

Paths below are relative to `src/src/rmf/`.

## The system

| Component | State | Operations | Talks to |
|---|---|---|---|
| Reservation node `rmf_ros2/rmf_reservation_node/src/main.cpp` | ticket store, requests, spot↔ticket maps, one FIFO per spot | graph, request, claim, release (with a loop that hands spots on) | fleet adapters, five reliable topics |
| Reservations in the fleet adapter `rmf_fleet_adapter/.../internal_ReservationNodeNegotiator.hpp`, `ReservationManager.cpp`, `GoToPlace.cpp` | negotiator of the current task, the allocation held | make request, claim, replace ticket, cancel | reservation node, task execution |
| Schedule database `rmf_traffic/.../schedule/Database.cpp`, `InconsistencyTracker.cpp` | per participant: chains of route entries, active routes, progress, expected version, ranges of missing versions, saved changes | set, extend, delay, reached, clear, cull; check and replay; patches since a version | schedule node |
| Schedule participant `schedule/Participant.cpp`, `Rectifier.cpp`, `rmf_traffic_ros2/.../Writer.cpp` | version, plan, itinerary, history of changes since the last plan | set, delay, clear, reached, retransmit, correct id | schedule node, one topic per kind of change |
| Schedule node `rmf_traffic_ros2/.../schedule/Node.cpp`, `ParticipantRegistry.cpp`, `MonitorNode.cpp` | database, registry and its log, queries, negotiations | itinerary handlers, publication of inconsistencies, registration, mirror updates, fail-over | participants, mirrors |
| Schedule mirror `schedule/Mirror.cpp`, `rmf_traffic_ros2/.../MirrorManager.cpp` | a copy of the database by version | update, reset, fork, request of changes, timeout | schedule node, one topic per query |
| Traffic negotiation `schedule/Negotiation.cpp`, `rmf_traffic_ros2/.../Negotiation.cpp` | a tree of tables with versions, cached messages | submit, reject, forfeit, conclude | participants of a conflict |
| Blockade `rmf_traffic/.../blockade/` | per participant: path, ready and reached checkpoints, reservations | set, ready, release, reached, cancel | moderator |
| Mutex groups `rmf_fleet_adapter/src/mutex_group_supervisor/main.cpp`, `LockMutexGroup.cpp`, `RobotContext.cpp` | claims with times, assignment per group; per robot requests and locks | lock, release, heartbeat, conflict resolution | robots |
| Task dispatch `rmf_task_ros2/.../Dispatcher.cpp`, `bidding/Auctioneer.cpp` | queue of auctions, task states | submit, bid, award, cancel | fleet adapters |
| Task execution `rmf_task_sequence/.../Task.cpp`, `rmf_fleet_adapter/.../TaskManager.cpp` | phases, interruption, cancellation; queue of a robot | begin, finish, interrupt, cancel, kill, skip, rewind | dispatcher, planners |
| Doors and lifts `door_supervisor/Node.cpp`, `lift_supervisor/Node.cpp` | sessions of requesters | request, release, heartbeat | adapters |
| Planning, geometry, battery, simulation, editors | | | not concurrent |

**What is hard.**  Messages of different topics overtake each other: a release
and the next request, a delay and the plan it belongs to.  State is split between
two parties that see each other late: a robot that is cancelled while its ticket
waits, a schedule node that restarts under participants that go on.  Everything
that waits must be woken by somebody: a ticket in a queue, a saved change
behind a gap.  And identifiers mix up: the index of an alternative, the id of a
participant, the version of a change.

**What makes each part correct.**  A spot has one robot, which keeps it until it
gives it up; nobody is overtaken; every task ends.  The database shows an
itinerary the participant had, never an older one after a newer one; gaps are
closed; and when the participant stops it is shown what it has.  A mirror
shows a past state of the database.  At most one robot has a mutex group, and no
two robots each wait for a group the other has.  Negotiations end with
compatible plans or are forfeited.  An awarded task is executed once.

## Modules

| Module | What it specifies |
|---|---|
| `SpotLedger` | the abstract promise of the reservation node: who owns which spot, and that a spot is never taken from one robot for another |
| `ReservationNode` | the node itself, every handler of `main.cpp`, with any client; implements `SpotLedger` |
| `ReservationProtocol` | the node composed with the fleet adapters' side of every robot over FIFO channels, one per topic |
| `InconsistencyTracker` | the tracker with every branch of `check()`, and the version guard of the itinerary handlers |
| `ScheduleSync` | a participant, the database behind the tracker, retransmission, restarts of the schedule node |
| `LaggingCopy` | the abstract promise to those who follow the schedule: they show some version of it and never go back |
| `RouteChain` | how the database keeps the past of one route, and what it tells a reader of it |
| `MirrorSync` | the database, the node's patches, the topic, the mirrors and their requests; implements `LaggingCopy` |
| `MutexGroups` | the supervisor of mutex groups and the robots that ask for them |
| `TaskDispatch` | the dispatcher, its auctioneer, the fleets' bids, awards, queues and task executions |
| `BlockadeConstraints` | brackets of conflicts, and the constraint that lets a robot go on or not |
| `Blockade` | the moderator with its queue and its search for gridlocks, composed with the traffic lights of the robots |
| `..._proofs` | theorems and their proofs, one module for each of the eight that have any; `MirrorSync_proofs` also has those about `RouteChain` |
| `MC...` | small instances |

### ReservationNode

`ticket_store`, `requests`, `current_state` and `queues` are the members of the
node (`TicketStore`, `requests_`, `CurrentState`, `ServiceQueueManager`).
`current_state` holds both maps, spots to tickets (`holder`) and tickets to spots
(`placed`), because the code updates them separately.  A handler is an action.  The loop at the end of `release` publishes in every
iteration, and a robot may answer before the loop is over, so an iteration is a step
(`ServiceNext`) and `freed` is the loop's variable; the executor is single
threaded, so no other handler runs meanwhile.  `std::sort` leaves the order of
equal costs open: `CheapestFree` is a set.  Left out: `publish_free_spots`, a
timer that only publishes.  Messages carry
only tickets the node has issued: a client learns a ticket from nowhere else, and
the code itself does not check (`requests_[...]` gives an unknown ticket an empty
list of alternatives).

### ReservationProtocol

`negotiator` is the `ReservationNodeNegotiator` of the robot's current
`GoToPlace`, `allocation` what the `ReservationManager` holds, `spot` the
waypoint the robot was last told to drive to.  `to_node` and `to_robot` are the
channels.  `Cancel` drops the negotiator with its subscriptions, as destroying
the event's state does; the code sends nothing to the node.  Distances are any
of `Costs`.  Constants switch on what makes a difference: whether tasks are
cancelled (`MayCancel`), whether a robot is sent where it is (`MayAskAgain`), and
which goals `make_request` leaves out (`Skipped`).

### InconsistencyTracker

`tracker` has the members of the class: `ranges`, `last_known`, `expected`, and
the saved `changes` by version.  A change is accepted (no ticket) or saved (a
ticket).  The ticket's destructor replays the saved changes when the last
gap was closed: `replaying` is the rest of that replay, and `ReplayNext` hands one
change to the handler again, as `_apply_changes` does.  Versions are unbounded
numbers; the code starts from the largest 64-bit number, here -1, which behaves
the same in its modular comparisons.  Where the code compares plain numbers
(`upper_bound` in `retransmit`), the model does too.

### ScheduleSync

`participant` is the `Shared` of `Participant.cpp`, with the history of the
changes since the last plan; `database` is what the database shows.  An itinerary
is a plan and how often it was delayed, which is what tells versions apart.  The
network is a set, so that changes are delivered in any order; a change may be lost
when it is published (`LossLimit`), as happens to a participant or topic that is not
matched yet.  `OnReport` answers an inconsistency report, `Rectify` is the polling
variant of the library without ROS, `Restart` an empty database in which the registry
has registered the participant again, with its id (the log has it) or with
another one.  The schedule node drops a delay of more than one hour before it handles or publishes
anything (`Node.cpp:1143`), and every retransmission of it: a delay may be `long`, `Deliver` drops it, and
when its id is not the one the database knows, the error message reads a null pointer and the node goes
down (`Crash`).  The library without ROS has no such limit (`LongDelays = FALSE`).  A cumulative
delay above the limit is only warned of.  `log` and `long_delays` are history
variables: the itinerary after every version, and the versions of delays above the limit.

### RouteChain and MirrorSync

A route in the database is a chain of `RouteEntry`, linked by transitions; here it is a
sequence whose first element is the oldest entry still linked.  Of a trajectory
only start and finish matter, which delays move.  `Erased` keeps what `clear()` keeps:
the erasure and the last two entries.  `LastKnown` is `get_last_known_ancestor`, and
what a reader is told follows the four cases of `PatchRelevanceInspector::inspect`.

`database` has the version, and per participant the storage, the active routes, the
next storage id, the plan and the progress; `query` is the node's `QueryInfo`: the
version looked at last, the version sent last, and the requests for remedial
updates, which go out in any order because they are kept in a hash set.  `mirrors` holds
each `Mirror`; `Deliver` is `handle_update` with its four outcomes.  All mirrors
share the query for everything, hence the topic; `OthersRequest` is a
mirror elsewhere that asks, so that everybody gets patches nobody here asked for.
The versions of the itineraries are checked before (`ScheduleSync`), so a
handler here is one that is accepted.  `Itineraries` gives what participants may plan once the
past before a time was culled: nobody plans routes that begin in a past which is forgotten already.  `history` is a history variable.

### MutexGroups

`claims` and `assigned` are the supervisor's `claims` and `latest_states`; of each
robot, `requesting` and `locked` are the maps of `RobotContext`, `wanted` and
`remaining` the data of a `LockMutexGroup`, `inside` the groups it has been let into and has not left.
Requests and states travel in FIFO order, one state topic for everybody.
`DoHeartbeat` drops stale claims, resolves conflicts and publishes; `Heartbeat` is
the robot's two-second repetition.  A claim is stale only when its robot does not
repeat it (the ten seconds are five of its periods).  `MoveOn` is a robot that leaves groups and
releases them; `IdleRelease` is the timer that makes a robot without a task release all of its
groups after ten seconds (`RobotContext.cpp:1933`), while it stays where it is, so that a group may be given to
another while it is still in there.  `Nested`, `Hasty`, `Manual` and `Idle`
switch on a claim inside of another, a claim begun before the state of the
last release came back, an operator's release, and robots that are left without a task.

### TaskDispatch

Dispatcher: `Submit`, `Announce`, `ReceiveResponse`, `Conclude`, `CancelTask`,
`PublishLingering`, `HandleAck`.  Fleet: `BidNotice` and `BidCalculated` (a planner
thread in between, which may fail), `DispatchCommand` with award and removal,
`Replanned` and `ReplanFailed`, `BeginNextTask`, `TaskFinished`.  A plan is the order of
tasks it found; it is checked against what has become of these tasks in the meantime
(`Valid`) and made again if not.  A fleet has one robot.  `Prompt` says that an
acknowledgment does not take longer than the window of the next auction.

### BlockadeConstraints and Blockade

A conflict is a pair of brackets of checkpoints, one in the path of each robot;
which ones conflict is given (`Conflicts`), since it comes from geometry.  `Expanded`, `Merged` and
`FinalConflicts` join brackets as `compute_brackets` does, `Blocker` says who has to have
reached or to hold where, `Loops` is the search of `compute_gridlock_constraint`, and
`Processed` serves the ready queue, one `Iteration` after the other, until nobody can be let go.  These recursions are
recursive functions, so that theorems can be stated about the module.  A robot is at a
checkpoint or between two (`position`), and acts on `cleared`, what it was told last.
`AskWithNewPlan` is the dependency of a new plan that makes an `EasyTrafficLight`
release part of its range.  Two robots that block each other are always merged into
one bracket; gridlocks need three, hence the ring.

## Runs

| Run | Instance | Shows |
|---|---|---|
| `node` | 4 tickets, 3 robots that are alike, 3 spots, any order of requests, claims and releases, repeatedly | types, inverse maps, a ticket in all of its queues or none, queues that agree on the order, refinement of `SpotLedger` |
| `protocol` | 2 robots with 2 tasks each, 2 goals, 2 parking spots that are not goals | exclusive spots, no forgotten ticket, no overtaking, every task ends |
| `churn` | the same with cancellations and repeated goals, one parking spot | a ticket loses its spot only to its own robot |
| `deadlock` | as many parking spots as robots, one of them a goal | a finding |
| `sync` | 4 changes, delays above the limit, polling, up to two restarts with the same or another id | the tracker's ranges are the missing versions, maximal; replay in order; the database shows itineraries the participant had and never goes back; the history has no holes |
| `sync_live` | 4 changes, up to 2 lost, delays above the limit | gaps are closed but for the delays above the limit; the latest change, once heard of, is shown, unless the plan has such a delay |
| `mirror` | one participant, one mirror, three changes after registration (every kind of them), a cull, one patch or request lost or made by another mirror | every patch leads from its base to the present; refinement of `LaggingCopy`; the mirror catches up |
| `mirror_ghost` | four changes, two delays of one route, nothing lost | a finding |
| `mutex` | 2 robots that both want both groups, robots without a task, one restart of an adapter | groups go to claimants; a robot repeats what it lacks; every wait ends |
| `mutex_idle` | 2 robots, one group, a robot without a task in it | a finding |
| `dispatch` | 2 tasks, 2 fleets, one cancellation, plans that fail | one fleet per task, nothing is done twice, dispatched tasks are kept, every auction ends |
| `blockade` | a ring of 3 robots, one checkpoint where nobody may hold, one release, two search orders | no collision, no gridlock, every robot arrives |

**Bounds.**  `TicketLimit` and `MissionLimit` end the run of tickets: two robots
with two tasks each are the smallest fleet in which a robot gives up a spot that
another waits for while it asks for one itself.  In `node` two tickets hold spots while two others wait
for both of them in two queues, in the order of their claims; what a handler does never depends on which robot a robot is, so that
states which differ by a permutation of robots are checked once (`SYMMETRY`).  With four changes a gap of two with a
plan in the middle of it occurs; `InconsistencyTracker.cfg` has eight versions, so that three gaps
exist at once, split and are closed from both ends.  `LossLimit`, `RestartLimit` and
`DisturbanceLimit` count faults.  In `mirror`, `TransitionLimit` = 1 keeps every chain short
enough for `clear()` to sever nothing that a reader needs, which is where the schedule keeps its
promise; with 2 it does not (`mirror_ghost`).  Its routes lie before or after the time of the cull:
a route that spans it is a listed hazard.  In `mutex` two robots want the same two groups, so that their requests can cross and each may
be given one; with one state on its way at a time, because the properties look at what robots ask for
and not at how old the answer is (`MutexHasty` has two).  Two tasks and two fleets let a bid grow stale behind an award.

**Fairness.**  In `ReservationProtocol` the node and the adapters run what is
ready (executors), messages arrive (reliable topics), a robot that was told to
proceed gets there, and tasks that remain begin; cancelling and the graph are
not fair.  In `ScheduleSync` what is on its way is delivered and reports are
answered; the participant need not write.  In `MirrorSync` the node's timer of
ten milliseconds, its service and the mirrors' subscriptions and timeouts go on;
participants need not change anything.  In `MutexGroups` messages arrive, timers
fire and a robot inside moves on; the supervisor's heartbeat is strongly fair, since its two
seconds are long compared with the messages that disable it for a moment.  In `TaskDispatch` the auctioneer's timer,
commands, acknowledgments and replans go on (bids need not come), in `Blockade` everything but a robot that
moves without being asked to (`MovingFrom`).

`CHECK_DEADLOCK` is on in `node`, whose clients never run out of messages.  It is off elsewhere:
the bounded numbers of tasks, changes, claims or paths are used up and the system rests.

**Further instances.**  Configurations beside the runs, to be started by hand:
`InconsistencyTracker.cfg` (8 versions) and `TaskDispatchReplan.cfg` (one fleet, two cancellations), both
without an error, and counterexamples to what one would like to be true: `ReservationLeak` (a ticket nobody releases: `replace_ticket` forgets
one of two tickets for one resource), `ReservationCancelled` (two robots on a spot after a
cancellation), `ReservationSkippedGoal` (the index in the answer is into the filtered list of
goals and used on the unfiltered one), `ScheduleSyncFirstLost` (`upper_bound` of the largest
number is the end of the history, so that the first changes are not retransmitted),
`ScheduleSyncCorrectId` (`set()` refuses the current plan id and the history carries the old id),
`ScheduleSyncLongDelay` (a delay above the limit keeps the database apart until the next plan),
`MutexConflict` (merging the times of claims takes a group from a robot that has locked it and
waits for another), `MutexHasty` (a release arrives after the next claim of its robot was made), `MutexRelease` (below), `BlockadeTwice` (below), `TaskDispatchUnannounced` (a
task fails without having been announced), `TaskDispatchRejected` (a plan that failed counts as
dispatched), `TaskDispatchRemoved` (a removed task comes back with a plan), `TaskDispatchSlow` (a slow
acknowledgment loses a task, below).

## Findings

* **Deadlock with enough parking spots** (`deadlock`).  The release loop drops
  the ticket it took off the queues when it holds nothing or gets nothing.
  When a parking spot is also a goal a robot can wait forever, although
  the package's README promises the contrary.
* **Ghost routes in mirrors** (`mirror_ghost`).  `clear()` severs all but the last two entries of
  a route.  A mirror at an older one (the plan was set, delayed twice and replaced between two
  patches, or a patch was lost) is not told of the erasure and shows the old routes for good,
  next to the new ones.  `ErasureReachesRecentReaders` says exactly who is told.

* **Idle robots give up the group they stand in** (`mutex_idle`).  A robot that has had no task for ten
  seconds is made to release its mutex groups and stays where it is; the supervisor gives the
  group to the next robot, which is let in.  `Graph.hpp:204` says "Only one robot at a time is allowed to occupy any
  waypoint or lane associated with a particular mutex group."

Not among the runs, each with a configuration or a hazard entry:

* **Two robots in one mutex group** (`MutexRelease.cfg`).  `handle_request` picks the next claimant
  whenever any claim is released, whoever has the group, and the earliest claim may
  be one that arrived late.
* **Robots meet where a path crosses another twice** (`BlockadeTwice.cfg`).  `compute_blockers` keeps
  one constraint for each checkpoint.
* **Unregistering keeps the routes** (`Node.cpp:986`, from reading).  The node clears with the version the
  database already has, which `Database::clear` ignores.

## Proofs

`tlapm` checks all of them, for every value of the constants, from the named assumptions of the
modules alone: `ConstantsAssumption`, `ProtocolAssumption`, `TrackerAssumption`, `SyncAssumption` and
`ChangeAssumption`, `MutexAssumption`, `DispatchAssumption`, `BlockadeAssumption`, `ChainAssumption` and `MirrorAssumption`.
A theorem that needs more, that tasks are not cancelled for example, states it as its hypothesis;
below is why it does, and which configuration shows that it fails otherwise.

*Reservation node* (`ReservationNode_proofs`).  `NodeTypes`, `MapsStayInverse` and `NodeImplementsLedger`
follow from the inductive invariant `NodeInv`.  Besides types and inverse maps it
says that what holds a spot or waits in a queue was issued to a robot
(`OnlyIssued`): otherwise the header written by `on_request` might
change the owner of a spot.  `Released`, `Taken` and `Allocated` get a lemma each
about the maps they return; a handler then is a `StepFor(t)`: it
changes holders on behalf of one ticket only (`ChangesFor`), which is a
`Transfer` of the ledger.

Its queues: a queue is described by whom it contains and who is before
whom; `EnqueuedQueue` and `RemovedQueue` say how the two change.  With `NodeInv`,
`QueuesAgree` is inductive: a ticket is in all of the queues of its request or in none, and no two
queues have two tickets in different orders.  `NobodyOvertakes` and `CarefulStepIsFair`, about a node
whose clients claim a ticket once, are what the composition needs of it.

*Reservation protocol* (`ReservationProtocol_proofs`).  Three invariants, each on top of the one before:

* `ProtocolInv` holds always.  The channels of a robot carry tickets of its own; a ticket is claimed once,
  after its robot was told of it; answers fit the question they answer.  Hence the node has only
  clients that claim a ticket once, and `ServingInv` holds: a ticket waits in queues of spots other than the one
  it has, and the spot the loop hands on is free.  From it: `ProtocolTypesHold`,
  `ProtocolImplementsLedger`, `NobodyIsEvicted` (an action property) and `NoOvertaking`.  The last
  has the hypothesis `[]WaitersArePlaced`, that whoever waits has a place to wait at: the loop that
  hands spots on ends at a waiter without one (the finding of `deadlock`); then nobody
  waits for a free spot, except for the one in the loop's hands (`FreeUnwanted`).  `ParkingInv` below discharges it.
* `FollowInv` holds when no task is cancelled and no robot is sent where it is (`MayCancel`,
  `MayAskAgain` both `FALSE`): the adapter follows its ticket from request to release, so that no ticket is forgotten
  (`NoTicketIsForgotten`).  `ReservationLeak.cfg` shows a ticket that is lost otherwise, and
  `ReservationCancelled.cfg` two robots at one spot.
* `ParkingInv` holds then too when there is parking for everybody, a condition on the constants: among the spots a
  robot may wait at, as many as there are robots are nobody's goal (`EnoughParking`), and a robot can use one of its
  goals (`SomeGoalIsKept`).  A robot has one ticket at a spot that is not a goal, and the one that asks has none there yet, so
  that there is a free one by counting: whoever waits has a place (`EverybodyWaitsSomewhere`).  Hence
  `NobodyIsOvertakenWithParking`, and `NoWaiterIsForgotten`: who is parked is in the queue of every goal it
  asked for, and none of these is free.  The instances of the run `protocol` meet the condition and that of `deadlock`, where one
  parking spot is a goal, does not (`ParkingIsEnough` in `MCReservationProtocol`): the condition is what the finding is about.
* `SpotInv` holds when moreover no goal is left out of a request (`Skipped[r] = {}`): the spot a robot
  drives to is the one its ticket holds, or the decision about the next one is on its way.  With the inverse maps of
  the node, `SpotsAreExclusive`.  The instance of `ReservationSkippedGoal.cfg`
  sends two robots to one spot otherwise.

*Tracker* (`InconsistencyTracker_proofs`).  The inductive invariant `TrackerInv` says that between two changes the
tracker is `Ordered`: everything from the expected to the last known version is
missing or saved, nothing else is saved, and if there is a gap the last
known version is saved.  The last part is what makes "above every gap" mean "new",
in `AboveEveryGap`, and what the saved maximum in `CheckMissing` relies on.
`RangeAtHoldsVersion` shows that the range `lower_bound` finds holds the version.
One lemma per branch of `check()` shows that it stays ordered.  When the last gap closes, the
saved versions are exactly those from the expected one on: that is the start of
`ReplayIsInOrder`, which `ReplayPreserves` carries through the replay.

*Participant and database* (`ScheduleSync_proofs`).  `SyncInv` adds to the tracker's invariant that
every change anywhere (on its way, in the history, saved) describes how one itinerary of
the log follows from the one before, and that the database shows the itinerary just before the
version the tracker expects, or a saved new plan will put it there (`StandsBefore`).  `HandledDecides`
says what `check()` decides, so that the database lemmas need not look into it.
From it: `DatabaseShowsThePast`, `NeverGoesBack` (an action property), `HistoryStaysComplete`.

*Mutex groups* (`MutexGroups_proofs`).  `MutexInv`: types, and a group is assigned to a robot that claims
it or to nobody.  `PickedIsAClaimant` needs that a finite set of claims has an earliest one
(`LeastExists`), `NormalizedKeepsClaimants` that merging the times of claims adds and drops nobody.
`WaitersKeepAsking` and `ClaimsOfAWaitStay` follow from `WaitInv`, which relates what a robot waits for and
has to what it keeps asking for: a robot repeats what it lacks and what it has locked already, so that no claim of a robot
that waits ever counts as stale.  They have the hypothesis that no operator releases groups
(`Manual = FALSE`), who may take a group from under a robot, as the code intends.  Of a robot that is inside a group and waits
for nothing the second is not true, as the idle timer makes it give up its claims.

There is no theorem that a group has one robot in it, and no passing run, because it does not hold: an idle robot gives its group up
(`mutex_idle`), a late state lets a robot in (`MutexHasty`), the release of a waiting robot hands on a group that another is in
(`MutexRelease`), and the resolution of conflicts takes a locked group (`MutexConflict`).

*Task dispatch* (`TaskDispatch_proofs`).  `OneFleet` and `DoneOnce` follow from `DispatchInv`: a task is
auctioned once, every command follows from the fleet its auction selected, only that fleet ever
owns the task, and what was executed is neither queued, planned nor awarded again.

`DispatchedStay` is about plans that are made side by side: a fleet bids with a plan that starts from
what it expects to do, and an award replaces the queue by that plan, so that an award to a plan which is
out of date would drop what the fleet got meanwhile.  Its invariant `KeptInv` has three layers.

* *Commands.*  A number names one command (`Numbered`), and one award at a time is not acknowledged (`OneAward`).
* *Answers.*  A fleet is asked once for a task, and has the bid it answered with as long as the task may be awarded to
  it (`AnswersStand`); otherwise it would acknowledge an award it has no plan for.
* *Plans.*  A plan of a task that may still be awarded covers what the fleet expects to do, and one that is made again
  does unless an award came since (`PlansKept`).  For the commands on their way that means: while the fleet has the bid
  of a task it was awarded, the award lingers, comes before any other command about the task, and every other award
  before it is the last one repeated.  `AcksFollow` says that nothing was acknowledged before.

A step of a fleet is described by its effect first (`AwardEffect`, `RemoveTaskEffect`, `ReplanEffect`, `WorkEffect`); the
case that matters is `FreshAward`, an award of a bid.  The hypothesis is that awards are acknowledged before the
auctioneer's timer fires again (`Prompt`): while an award
waits for its acknowledgment the timer gives up the next task and announces the one after; the fleet
bids for it without knowing of the first award, and the second award drops the first task (`TaskDispatchSlow.cfg`, 18 states, three tasks and one fleet).

*Blockade* (`Blockade_proofs`).  Two robots are apart in a conflict when the range of
one of them keeps it before its bracket, or says that it has left it (`Apart`).  A constraint that is satisfied when
a range grows keeps them apart (`GrantKeepsApart`), so does reaching a checkpoint, and so does
a release, unless it takes back the move out of a bracket that includes its finish
(`ReleaseKeepsApart` names that condition).  `ApartMeansOutside` concludes that they
are not both inside.

`RobotsStayApart` says the same of the whole system, for any number of robots with paths of any length, any order of
calls and any number of releases.  Its invariant `ApartInv` has two halves.

* *The moderator is `Safe`*: the robots that have a path have their constraints, ranges begin where their
  robots were last, and all ranges keep robots apart.  Every operation ends with `Processed`, of which
  `ProcessedIsSafe` needs that every iteration that serves an entry of the queue keeps it so (`ServedIsSafe`).  `Processed` is the result of a
  recursive function over the iterations, and that there is such a function has to be proved:
  `IterationsExist` does so, from one finite piece to the next.  Ranges of others only grow meanwhile (`Grown`).
* *Robots are `Placed`*: one that drives is within its range, and one that may leave a checkpoint has a
  range that goes on.  So what a robot was told earlier still holds when it moves; a release is
  told to the robot in the same step.

Its hypothesis `EveryConflictIsGuarded` has three parts.  Every conflict lies within brackets that have constraints of their
own: `compute_blockers` keeps one for each checkpoint, and robots do meet otherwise (`BlockadeTwice.cfg`).
No path starts or ends in such a bracket: the moderator forgets a robot that is done with its path, and puts the range of a robot without one at
its first checkpoint.  No new plan makes a robot wait at the end of a bracket that it was to pass, the condition of
`ReleaseKeepsApart`.  How brackets are joined is part of the hypothesis (`FinalConflicts` gives the constraints), not of the proof; TLC evaluates it:
the ring of the run `blockade` meets it, and the path that is crossed twice does not (`RingIsGuarded` in `MCBlockade`).

`QueueIsServed` says that `process_ready_queue` comes to its end: between two calls nobody in the queue is done or could be assigned more.
Each `Iteration` takes an entry from the queue or a checkpoint from those that are not assigned (`Work`, `ServedWorks`), so the number of
iterations in `Processed` is enough (`WorkIsLimited`); it is not a bound of the model.  It needs no hypothesis.  Neither does `AssignmentsStayOnThePaths`, which says that ranges, queue entries and what was
reached are about checkpoints of the robots' own paths, and that no robot is past the end of its path.  It follows from both invariants:
ranges end on their paths since what is queued does (`WithinPaths`), and the entries that remain are at least where their range ends,
which is why the entry for no checkpoint that a release may leave behind is gone again.

That nobody is blocked in a ring (`NoGridlock`) is model-checked only.  `check_reservation` looks at the loops that a search among the
constraints found, and the search marks nodes as expanded across starting nodes, so that what it finds depends on
the iteration order of unordered maps.  A theorem would have to assume of it what the code does not promise.

*Mirrors* (`MirrorSync_proofs`).  `ErasureReachesRecentReaders`: for a chain of any length a reader is told
of an erasure if and only if it is as new as the second last entry of the route.  `MirrorTypesHold` rests on
`TypeInv`, which says of a participant that what is active is stored and has a route, that what is not was
erased, and that no route is newer than its progress.

`MirrorsFollow` says that the mirrors follow if the patches lead: as long as every patch the database
computes leads from its base to the present, the mirrors implement `LaggingCopy`, whatever is lost,
late or meant for others.  `FollowInv` says that a mirror shows what was shown at its version, that
a patch on its way leads every reader of its base to its latest version, and that it tells enough of the progress
and the plan.  The last is needed because a mirror keeps progress it does not show (a participant without routes),
so that two mirrors which show the same are not the same; `PatchedAlike` says that they show the same after
the same patch.

That patches lead (`PatchesLeadFromEveryVersion`) is not a theorem.  The run `mirror` checks it where chains are whole, with
`TransitionLimit` = 1 and no route under way at the time of a cull.  It fails otherwise: with two delays a chain is
severed (`MirrorGhost.cfg`), and of a route under way at the time of a cull the mirrors forget
what the database keeps (`Mirror.cpp:543`, a listed hazard).

*Only model-checked.*  All liveness, which the prover cannot do under fairness; `NoGridlock`, and of the types of
`Blockade` those of the constraints and loops that its searches find; `PatchesLeadFromEveryVersion`.  How brackets are joined in
`Blockade`, a recursion over sequences of any length, enters `RobotsStayApart` as a
hypothesis on the constants that TLC evaluates on the instances (`RingIsGuarded`).  Every other invariant and
action property of the passing runs is also a theorem, under the hypotheses named above.

## Not modelled, and the plan

`PROJECT.json` lists every component with its status, and the hazards no property
covers yet.  What is left of the modelled components:

* Schedule: restart of a participant whose old messages are still on their way
  (`ParticipantRegistry.cpp:94`), fail-over to a node that starts from a mirror
  (`MonitorNode.cpp`, `Mirror::fork`), registration and `unregister_participant`, queries with a filter,
  the refresh of an itinerary after two hours of delay, progress that is
  reported ahead of its plan, participant descriptions in mirrors.
* Mutex groups: a restart of the supervisor.
* Dispatch: direct requests to robots, the ten seconds after which a command is
  given up, fleets with several robots, charging and other automatic tasks, interruptions.
* Blockade: the topics, heartbeats and reservation ids between participants and moderator,
  new paths on the way, paths that share a direction.

Components still to be specified, in this order: task sequence and task manager (interruption, cancellation,
kill and skip at every point); traffic negotiation (the tree of tables with versions and the cache of early messages);
doors and lifts (sessions of the supervisors).  Proofs still to be written: conditions
on the conflicts alone from which `EveryConflictIsGuarded` follows, beginning with paths
of which any two conflict at most once.

Out of scope: continuous geometry (`DetectConflict`, `Trajectory`), searches over real
costs (path and task planners), battery models, user interfaces, simulation,
generated message code and vendored packages.

## Running

```
tlc -workers 2 -config ReservationNode.cfg MCReservationNode.tla
tlapm ReservationNode_proofs.tla
```
