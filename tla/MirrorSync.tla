------------------------------ MODULE MirrorSync ------------------------------
(***************************************************************************)
(* The schedule database as its mirrors see it: the handlers of             *)
(* Database.cpp that move its version on, the patches it computes, the      *)
(* schedule node that publishes them (Node.cpp), the topic, and the mirrors *)
(* (Mirror.cpp) with the manager that asks for what they miss               *)
(* (MirrorManager.cpp).                                                     *)
(*                                                                         *)
(* All mirrors have registered the query for everything, so that one topic  *)
(* serves them and each receives the patches another one asked for.  A      *)
(* version of 0 stands for no version.                                      *)
(***************************************************************************)
EXTENDS RouteChain, Functions, SequencesExt

CONSTANTS
  Participants,
  Mirrors,
  CullTimes,         (* the times before which the past may be forgotten    *)
  Itineraries,       (* what a participant may set or extend by, once the   *)
                     (* past before a time, or nothing, is forgotten        *)
  CheckpointLimit,   (* the last checkpoint of a plan                       *)
  VersionLimit,      (* bound of the model: versions of the schedule        *)
  TransitionLimit,   (* bound of the model: delays and new descriptions of  *)
                     (* one route                                           *)
  DisturbanceLimit   (* bound of the model: patches and requests lost, and  *)
                     (* requests of mirrors that are not modelled           *)

Route == [start : Nat, finish : Nat]

ASSUME MirrorAssumption ==
  /\ IsFiniteSet(Participants) /\ Participants # {}
  /\ VersionLimit \in Nat /\ Cardinality(Participants) <= VersionLimit
  /\ {CheckpointLimit, TransitionLimit, DisturbanceLimit} \subseteq Nat
  /\ CullTimes \subseteq Nat
  /\ Itineraries \in [{0} \cup CullTimes -> SUBSET Seq(Route)]
  /\ \A time \in {0} \cup CullTimes : \A itinerary \in Itineraries[time] :
       \A i \in DOMAIN itinerary : itinerary[i].start > time
  /\ NoRoute \notin Route

VARIABLES
  database,    (* Database::Implementation                                  *)
  query,       (* the QueryInfo of the schedule node                        *)
  updates,     (* of each mirror, the patches on their way to it            *)
  requests,    (* the versions since which mirrors request the changes      *)
  mirrors,     (* the Mirror of each MirrorManager                          *)
  disturbances,  (* how many of them there were                             *)
  history      (* history: what the database showed at each version         *)

vars == <<database, query, updates, requests, mirrors, disturbances, history>>

NoCull == [time |-> 0, version |-> 0]
Versions == 1..VersionLimit
Registered == Cardinality(Participants)

(* What a viewer is shown of a participant: its plan, its routes and, while *)
(* it has routes, the checkpoints it has reached.                           *)
Shown(plan, routes, progress) ==
  [plan |-> plan, routes |-> routes, progress |-> IF routes = <<>> THEN 0 ELSE progress]

Blank == [p \in Participants |-> Shown(0, <<>>, 0)]

CurrentRoutes(state) == [id \in state.active |-> Newest(state.storage[id]).route]

DatabaseShows(states) ==
  [p \in Participants |->
    Shown(states[p].plan, CurrentRoutes(states[p]), states[p].progress)]

StatesShow(states) ==
  [p \in Participants |-> Shown(states[p].plan, states[p].storage, states[p].progress)]

MirrorShows(m) == StatesShow(mirrors[m].states)

Init ==
  /\ database = [version |-> Registered, cull |-> NoCull,
       states |-> [p \in Participants |->
         [active |-> {}, storage |-> <<>>, next_storage |-> 1, plan |-> 0, progress |-> 0,
          version_of_progress |-> 0]]]
  /\ query = [checked |-> 0, sent |-> 0, remediation |-> {}]
  /\ updates = [m \in Mirrors |-> <<>>]
  /\ requests = {}
  /\ mirrors = [m \in Mirrors |-> [joined |-> FALSE, version |-> 0,
       states |-> [p \in Participants |-> [storage |-> <<>>, plan |-> 0, progress |-> 0]]]]
  /\ disturbances = 0
  /\ history = [v \in 1..Registered |-> Blank]

-----------------------------------------------------------------------------
(* The database *)

NextVersion == database.version + 1

(* Every handler moves the schedule version on.                             *)
Advance(states, cull) ==
  /\ NextVersion \in Versions
  /\ database' = [version |-> NextVersion, states |-> states, cull |-> cull]
  /\ history' = Append(history, DatabaseShows(states))
  /\ UNCHANGED <<query, updates, requests, mirrors, disturbances>>

Update(p, state) == Advance([database.states EXCEPT ![p] = state], database.cull)

(* The chains of the routes a participant has now are replaced.             *)
WithActive(state, Chain(_)) ==
  [id \in DOMAIN state.storage |->
     IF id \in state.active THEN Chain(state.storage[id]) ELSE state.storage[id]]

(* clear: the active routes are erased, and so is what was reached.         *)
Cleared(state) ==
  [state EXCEPT !.storage = WithActive(state, LAMBDA chain : Erased(chain, NextVersion)),
                !.active = {}, !.progress = 0]

(* Mutant: the next storage id is left as it is.                            *)
InsertedKeepingBase(state, itinerary) ==
  LET first == state.next_storage
      new == first..(first + Len(itinerary) - 1)
  IN  [state EXCEPT
        !.storage = [id \in DOMAIN @ \cup new |->
          IF id \in new THEN Added(itinerary[id - first + 1], NextVersion) ELSE @[id]],
        !.active = @ \cup new]

(* insert_items: every route gets a storage id of its own.                  *)
Inserted(state, itinerary) ==
  LET first == state.next_storage
      new == first..(first + Len(itinerary) - 1)
  IN  [state EXCEPT
        !.storage = [id \in DOMAIN @ \cup new |->
          IF id \in new THEN Added(itinerary[id - first + 1], NextVersion) ELSE @[id]],
        !.active = @ \cup new,
        !.next_storage = first + Len(itinerary)]

(* set: the next plan, of which nothing is reached yet.                     *)
Set(p, itinerary) ==
  Update(p, Inserted([Cleared(database.states[p]) EXCEPT
                        !.plan = @ + 1, !.version_of_progress = NextVersion],
                     itinerary))

Extend(p, itinerary) ==
  /\ database.states[p].plan # 0
  /\ Update(p, Inserted([database.states[p] EXCEPT !.version_of_progress = NextVersion],
                        itinerary))

HasRoomForTransition(state) ==
  \A id \in state.active : Len(state.storage[id]) <= TransitionLimit

(* delay, below the cumulative delay that makes the database start afresh.  *)
Delay(p) ==
  LET state == database.states[p] IN
  /\ HasRoomForTransition(state)
  /\ Update(p, [state EXCEPT
       !.storage = WithActive(state, LAMBDA chain : Delayed(chain, NextVersion))])

Clear(p) == Update(p, Cleared(database.states[p]))

UpdateDescription(p) ==
  LET state == database.states[p] IN
  /\ HasRoomForTransition(state)
  /\ Update(p, [state EXCEPT
       !.storage = WithActive(state, LAMBDA chain : Described(chain, NextVersion))])

(* reached, for the current plan: the version moves on even when nothing    *)
(* new was reached.                                                         *)
Reached(p, checkpoint) ==
  LET state == database.states[p] IN
  /\ state.plan # 0
  /\ Update(p, [state EXCEPT !.progress = Max({@, checkpoint}),
                             !.version_of_progress = NextVersion])

(* cull: the routes that were over before the given time are forgotten,     *)
(* with their past.                                                         *)
Cull(time) ==
  LET Over(storage) == {id \in DOMAIN storage : LastRoute(storage[id]).finish < time}
      Culled(state) ==
        [state EXCEPT !.storage = Restrict(@, DOMAIN @ \ Over(@)),
                      !.active = @ \ Over(state.storage)]
  IN  /\ time >= database.cull.time
      /\ Advance([p \in Participants |-> Culled(database.states[p])],
                 [time |-> time, version |-> NextVersion])

-----------------------------------------------------------------------------
(* Patches *)

(* Database::changes for one participant, since version "after" or, when it *)
(* is 0, from the beginning: nobody knows anything of version 0.            *)
ChangesOf(state, after) ==
  LET Ids == DOMAIN state.storage
      Told(Test(_, _)) == {id \in Ids : Test(state.storage[id], after)}
  IN  [erasures |-> Told(IsErasure),
       delays |-> UNION {DelaysSince(state.storage[id], after) : id \in Ids},
       additions |-> [id \in Told(IsAddition) |-> Newest(state.storage[id]).route],
       plan |-> state.plan,
       has_progress |-> after < state.version_of_progress,
       progress |-> state.progress]

(* A participant without changes is left out of the patch.                  *)
IsChange(c) == c.erasures # {} \/ c.delays # {} \/ c.additions # <<>> \/ c.has_progress

Patch(after, remedial) ==
  LET Changed == {p \in Participants : IsChange(ChangesOf(database.states[p], after))}
  IN  [base |-> after,
       latest |-> database.version,
       changes |-> [p \in Changed |-> ChangesOf(database.states[p], after)],
       cull |-> IF after # 0 /\ after < database.cull.version THEN database.cull.time ELSE 0,
       remedial |-> remedial]

(* update_query: an empty patch is not sent, unless somebody asked for it.  *)
IsEmpty(patch) == patch.changes = <<>> /\ patch.cull = 0

(* The patches of the requests go out in the order of a hash table.         *)
Remedies(order) == [i \in DOMAIN order |-> Patch(order[i], TRUE)]

Publish(patches) ==
  updates' = [m \in Mirrors |-> IF mirrors[m].joined THEN updates[m] \o patches ELSE updates[m]]

(* Mutant: the requests are forgotten without an answer.                    *)
UpdateMirrorsIgnoringRequests ==
  LET regular == Patch(query.sent, FALSE)
      due == query.checked # database.version /\ ~IsEmpty(regular)
  IN  /\ query.remediation # {} \/ query.checked # database.version
      /\ Publish(IF due THEN <<regular>> ELSE <<>>)
      /\ query' = [checked |-> database.version, remediation |-> {},
                   sent |-> IF due THEN database.version ELSE query.sent]
      /\ UNCHANGED <<database, requests, mirrors, disturbances, history>>

(* update_mirrors, every ten milliseconds: the requests are answered, then  *)
(* everybody gets what has changed since the last patch for everybody.      *)
UpdateMirrors ==
  LET regular == Patch(query.sent, FALSE)
      due == query.checked # database.version /\ ~IsEmpty(regular)
  IN  /\ query.remediation # {} \/ query.checked # database.version
      /\ \E order \in SetToSeqs(query.remediation) :
           Publish(Remedies(order) \o (IF due THEN <<regular>> ELSE <<>>))
      /\ query' = [checked |-> database.version, remediation |-> {},
                   sent |-> IF due THEN database.version ELSE query.sent]
      /\ UNCHANGED <<database, requests, mirrors, disturbances, history>>

(* request_changes: a request for what was sent last is accepted and        *)
(* forgotten.                                                               *)
OnRequest(version) ==
  /\ requests' = requests \ {version}
  /\ query' = [query EXCEPT !.remediation =
       @ \cup {v \in {version} : v = 0 \/ v < query.sent}]
  /\ UNCHANGED <<database, updates, mirrors, disturbances, history>>

-----------------------------------------------------------------------------
(* The mirrors *)

(* The MirrorManager subscribes to the topic of its query.                  *)
Join(m) ==
  /\ ~mirrors[m].joined
  /\ mirrors' = [mirrors EXCEPT ![m].joined = TRUE]
  /\ UNCHANGED <<database, query, updates, requests, disturbances, history>>

(* request_update: the request is dropped while the service is not ready.   *)
Request(version) ==
  \/ requests' = requests \cup {version} /\ disturbances' = disturbances
  \/ disturbances < DisturbanceLimit /\ disturbances' = disturbances + 1 /\ requests' = requests

(* Mutant: additions are made before the delays, which then move them too.  *)
ChangedAddingFirst(state, c) ==
  LET kept == Restrict(state.storage, DOMAIN state.storage \ c.erasures)
      all == [id \in DOMAIN c.additions \cup DOMAIN kept |->
                IF id \in DOMAIN c.additions THEN c.additions[id] ELSE kept[id]]
  IN  [storage |-> [id \in DOMAIN all |-> Late(all[id], Cardinality(c.delays))],
       plan |-> c.plan,
       progress |-> IF c.has_progress THEN c.progress
                    ELSE IF c.plan # state.plan THEN 0 ELSE state.progress]

(* Mirror::update for one participant of the patch: erasures, delays of all *)
(* routes that are left, a new plan, additions, progress.                   *)
Changed(state, c) ==
  LET kept == Restrict(state.storage, DOMAIN state.storage \ c.erasures)
  IN  [storage |-> [id \in DOMAIN c.additions \cup DOMAIN kept |->
          IF id \in DOMAIN c.additions THEN c.additions[id]
          ELSE Late(kept[id], Cardinality(c.delays))],
       plan |-> c.plan,
       progress |-> IF c.has_progress THEN c.progress
                    ELSE IF c.plan # state.plan THEN 0 ELSE state.progress]

(* A cull removes what began at or before its time.                         *)
WithoutPast(state, time) ==
  [state EXCEPT !.storage = Restrict(@, {id \in DOMAIN @ : @[id].start > time})]

Patched(mirror, patch) ==
  LET Base(p) == IF patch.base = 0 THEN [mirror.states[p] EXCEPT !.storage = <<>>]
                 ELSE mirror.states[p]
      New(p) == IF p \in DOMAIN patch.changes THEN Changed(Base(p), patch.changes[p])
                ELSE Base(p)
  IN  [mirror EXCEPT !.version = patch.latest,
                     !.states = [p \in Participants |-> WithoutPast(New(p), patch.cull)]]

IsOld(mirror, patch) == mirror.version >= patch.latest

(* Mutant: a patch is applied whatever it is based on.                      *)
FitsAnything(mirror, patch) == TRUE

Fits(mirror, patch) == patch.base = 0 \/ patch.base = mirror.version

(* handle_update: an old patch is ignored, one that does not fit makes the  *)
(* manager ask for the changes since the mirror's version, unless the patch *)
(* was sent for somebody else.                                              *)
Deliver(m) ==
  /\ updates[m] # <<>>
  /\ LET patch == Head(updates[m]) IN
       /\ updates' = [updates EXCEPT ![m] = Tail(@)]
       /\ \/ /\ IsOld(mirrors[m], patch) \/ (~Fits(mirrors[m], patch) /\ patch.remedial)
             /\ UNCHANGED <<mirrors, requests, disturbances>>
          \/ /\ ~IsOld(mirrors[m], patch) /\ Fits(mirrors[m], patch)
             /\ mirrors' = [mirrors EXCEPT ![m] = Patched(@, patch)]
             /\ UNCHANGED <<requests, disturbances>>
          \/ /\ ~IsOld(mirrors[m], patch) /\ ~Fits(mirrors[m], patch) /\ ~patch.remedial
             /\ Request(mirrors[m].version)
             /\ UNCHANGED mirrors
  /\ UNCHANGED <<database, query, history>>

(* Another mirror of the same query, which starts or has missed a patch,    *)
(* requests the changes since its version.                                  *)
OthersRequest(version) ==
  /\ disturbances < DisturbanceLimit
  /\ disturbances' = disturbances + 1
  /\ requests' = requests \cup {version}
  /\ UNCHANGED <<database, query, updates, mirrors, history>>

(* A patch is lost.                                                         *)
Lose(m) ==
  /\ updates[m] # <<>>
  /\ disturbances < DisturbanceLimit
  /\ disturbances' = disturbances + 1
  /\ updates' = [updates EXCEPT ![m] = Tail(@)]
  /\ UNCHANGED <<database, query, requests, mirrors, history>>

(* handle_update_timeout, after twenty seconds without a patch: longer than *)
(* the node's timer, a patch or the answer to a request takes.              *)
Timeout(m) ==
  /\ mirrors[m].joined
  /\ updates[m] = <<>> /\ query.checked = database.version
  /\ mirrors[m].version \notin requests \cup query.remediation
  /\ mirrors[m].version < query.sent
  /\ Request(mirrors[m].version)
  /\ UNCHANGED <<database, query, updates, mirrors, history>>

-----------------------------------------------------------------------------
Next ==
  \/ \E p \in Participants :
       \/ \E itinerary \in Itineraries[database.cull.time] : Set(p, itinerary) \/ Extend(p, itinerary)
       \/ Delay(p) \/ Clear(p) \/ UpdateDescription(p)
       \/ \E c \in 1..CheckpointLimit : Reached(p, c)
  \/ \E time \in CullTimes : Cull(time)
  \/ UpdateMirrors
  \/ \E version \in requests : OnRequest(version)
  \/ \E version \in {0} \cup Registered..query.sent : OthersRequest(version)
  \/ \E m \in Mirrors : Join(m) \/ Deliver(m) \/ Lose(m) \/ Timeout(m)

Spec == Init /\ [][Next]_vars

(* The node's timer and the executors go on; the topic and the service lose *)
(* no more than DisturbanceLimit messages; a mirror that hears nothing asks.       *)
(* Nothing makes a participant change its itinerary.                        *)
Fairness ==
  /\ WF_vars(UpdateMirrors)
  /\ WF_vars(\E version \in requests : OnRequest(version))
  /\ \A m \in Mirrors : WF_vars(Deliver(m)) /\ WF_vars(Timeout(m))

FairSpec == Spec /\ Fairness

-----------------------------------------------------------------------------
(* Types and properties *)

IsRoutes(routes) == DOMAIN routes \subseteq Nat /\ \A id \in DOMAIN routes : routes[id] \in Route
IsChain(chain) ==
  chain \in Seq([version : Versions, kind : {"add", "delay", "describe", "erase"},
                 route : Route \cup {NoRoute}])

(* Every variable has its type.                                             *)
TypeOK ==
  /\ database.version \in Versions /\ database.cull.version \in Versions \cup {0}
  /\ \A p \in Participants :
       LET state == database.states[p] IN
       /\ state.active \subseteq DOMAIN state.storage
       /\ \A id \in DOMAIN state.storage : id < state.next_storage /\ IsChain(state.storage[id])
       /\ \A id \in state.active : Newest(state.storage[id]).route # NoRoute
       /\ state.plan \in Nat /\ state.progress \in 0..CheckpointLimit
       /\ state.version_of_progress \in Versions \cup {0}
  /\ query \in [checked : Versions \cup {0}, sent : Versions \cup {0},
                remediation : SUBSET (Versions \cup {0})]
  /\ \A m \in Mirrors :
       /\ mirrors[m].joined \in BOOLEAN /\ mirrors[m].version \in Versions \cup {0}
       /\ \A p \in Participants :
            LET state == mirrors[m].states[p] IN
            IsRoutes(state.storage) /\ state.plan \in Nat /\ state.progress \in 0..CheckpointLimit
       /\ \A i \in DOMAIN updates[m] :
            /\ updates[m][i].base \in Versions \cup {0}
            /\ updates[m][i].latest \in (updates[m][i].base)..database.version
            /\ updates[m][i].remedial \in BOOLEAN
  /\ requests \subseteq Versions \cup {0}
  /\ disturbances \in 0..DisturbanceLimit
  /\ DOMAIN history = 1..database.version

(* From whatever version a reader is at, the patch since that version leads *)
(* it to what the database shows now: the severed chains still tell what    *)
(* became of every route of that version.                                   *)
PatchesLeadFromEveryVersion ==
  \A v \in 0..database.version :
    LET reader == [version |-> v,
                   states |-> [p \in Participants |->
                     LET shown == IF v = 0 THEN Blank[p] ELSE history[v][p]
                     IN  [storage |-> shown.routes, plan |-> shown.plan,
                          progress |-> shown.progress]]]
    IN  StatesShow(Patched(reader, Patch(v, TRUE)).states) = DatabaseShows(database.states)

(* Of each mirror, its version and what it shows.                           *)
Copies == [m \in Mirrors |-> [version |-> mirrors[m].version, content |-> MirrorShows(m)]]

Schedule == INSTANCE LaggingCopy WITH Readers <- Mirrors, copies <- Copies

(* A mirror shows, at its version, what the database showed at that         *)
(* version, and never goes back.                                            *)
FollowsTheSchedule == Schedule!Spec

(* When the database stays as it is, every mirror comes to show it.         *)
EveryMirrorCatchesUp ==
  <>[](\A m \in Mirrors : mirrors[m].joined => MirrorShows(m) = DatabaseShows(database.states))
=============================================================================
