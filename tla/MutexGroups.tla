----------------------------- MODULE MutexGroups -----------------------------
(***************************************************************************)
(* Mutex groups: at most one robot may be on the waypoints and lanes of a   *)
(* group.  The mutex_group_supervisor keeps the claims and assigns every    *)
(* group to the earliest of them; a robot (LockMutexGroup, RobotContext)    *)
(* repeats its requests and locks as a heartbeat and learns the assignments *)
(* from the states the supervisor publishes.                                *)
(*                                                                         *)
(* Requests are FIFO per robot, and so are the states each robot is sent.   *)
(* Claim times are distinct; of a robot's own times only the nanoseconds    *)
(* are compared.  A claim is stale when its robot has not repeated it for   *)
(* ten seconds: it no longer asks for it and nothing of it is on its way.   *)
(***************************************************************************)
EXTENDS Integers, FiniteSets, SequencesExt

CONSTANTS
  Robots, Groups,
  Unclaimed,      (* the claimant of a group that nobody has               *)
  ClaimLimit,     (* bound of the model: claims of all robots together      *)
  RestartLimit,   (* bound of the model: restarts of fleet adapters         *)
  StatesLimit,    (* bound of the model: states on their way to a robot     *)
  RequestsLimit,  (* bound of the model: requests on their way from a robot  *)
                  (* when the supervisor's timer fires                      *)
  Wishes,         (* per robot, the sets of groups it may have to lock at    *)
                  (* once                                                   *)
  Nanoseconds,    (* of each claim time, the part below a second            *)
  Nested,         (* whether it claims while it is in other groups          *)
  Hasty,          (* whether it claims again while messages about its last  *)
                  (* claim are still on their way                           *)
  Manual,         (* whether an operator releases groups of a waiting robot *)
  Idle            (* whether a robot may be left without a task             *)

Times == 1..ClaimLimit
NoTime == 0

ASSUME MutexAssumption ==
  /\ Unclaimed \notin Robots
  /\ IsFiniteSet(Groups)
  /\ ClaimLimit \in Nat /\ RestartLimit \in Nat /\ StatesLimit \in Nat
  /\ RequestsLimit \in Nat
  /\ Wishes \in [Robots -> SUBSET ((SUBSET Groups) \ {{}})]
  /\ Nanoseconds \in [Times -> Nat]
  /\ {Nested, Hasty, Manual, Idle} \subseteq BOOLEAN

VARIABLES
  claims,         (* mutex_groups: per group and robot, the time of a claim *)
  assigned,       (* latest_states: per group, the claimant and its time    *)
  requesting,     (* per robot, _requesting_mutex_groups                    *)
  locked,         (* per robot, _locked_mutex_groups                        *)
  wanted,         (* per robot, the groups its LockMutexGroup waits to lock *)
  remaining,      (* per robot, LockMutexGroup::Active::_remaining          *)
  inside,         (* per robot, the groups its adapter let it into          *)
  to_supervisor,  (* per robot, requests on their way                       *)
  to_robot,       (* per robot, states on their way                         *)
  used,           (* history: the claim times given out                     *)
  restarts        (* how many adapters restarted                            *)

supervisorVars == <<claims, assigned>>
robotVars == <<requesting, locked, wanted, remaining, inside>>
vars == <<supervisorVars, robotVars, to_supervisor, to_robot, used, restarts>>

NothingAssigned == [claimant |-> Unclaimed, time |-> NoTime]
NoGroups == [g \in Groups |-> NoTime]
Has(groups) == {g \in Groups : groups[g] # NoTime}

Init ==
  /\ claims = [g \in Groups |-> [r \in Robots |-> NoTime]]
  /\ assigned = [g \in Groups |-> NothingAssigned]
  /\ requesting = [r \in Robots |-> NoGroups]
  /\ locked = [r \in Robots |-> NoGroups]
  /\ wanted = [r \in Robots |-> {}]
  /\ remaining = [r \in Robots |-> {}]
  /\ inside = [r \in Robots |-> {}]
  /\ to_supervisor = [r \in Robots |-> << >>]
  /\ to_robot = [r \in Robots |-> << >>]
  /\ used = {}
  /\ restarts = 0

-----------------------------------------------------------------------------
(* The supervisor                                                           *)

Claimants(c, g) == {r \in Robots : c[g][r] # NoTime}

(* pick_next: the earliest claim, if there is one.                          *)
Picked(c, g) ==
  IF Claimants(c, g) = {} THEN NothingAssigned
  ELSE LET first == CHOOSE r \in Claimants(c, g) : \A s \in Claimants(c, g) : c[g][r] <= c[g][s]
       IN  [claimant |-> first, time |-> c[g][first]]

(* check_for_conflicts: robots that claim the same groups, several of them, *)
(* get the earliest of their times for all of their groups, which are then  *)
(* picked again.                                                            *)
ClaimedBy(c, r) == {g \in Groups : c[g][r] # NoTime}

InConflict(c) ==
  {r \in Robots : /\ Cardinality(ClaimedBy(c, r)) > 1
                  /\ \E s \in Robots \ {r} : ClaimedBy(c, s) = ClaimedBy(c, r)}

Normalized(c) ==
  [g \in Groups |-> [r \in Robots |->
    IF r \in InConflict(c) /\ c[g][r] # NoTime
    THEN Min({c[h][r] : h \in ClaimedBy(c, r)}) ELSE c[g][r]]]

(* Mutant: conflicts are not looked for.                                    *)
CheckForNoConflicts(c) == claims' = c /\ assigned' = assigned

CheckForConflicts(c) ==
  /\ claims' = Normalized(c)
  /\ assigned' = [g \in Groups |->
       IF \E r \in InConflict(claims') : g \in ClaimedBy(claims', r)
       THEN Picked(claims', g) ELSE assigned[g]]

Published(states) == [r \in Robots |-> Append(to_robot[r], states)]

(* Mutant: the group stays with the robot that released it.                  *)
ReleaseUnpicked(r, m) ==
  /\ claims' = [claims EXCEPT ![m.group][r] = NoTime]
  /\ UNCHANGED <<assigned, to_robot>>

(* A release of a claim that has been made again since is ignored.          *)
Release(r, m) ==
  \/ /\ claims[m.group][r] \in 1..m.time
     /\ claims' = [claims EXCEPT ![m.group][r] = NoTime]
     /\ assigned' = [assigned EXCEPT ![m.group] = Picked(claims', m.group)]
     /\ to_robot' = Published(assigned')
  \/ /\ claims[m.group][r] \notin 1..m.time
     /\ UNCHANGED <<claims, assigned, to_robot>>

(* The claim is made or repeated.  Nothing is published before the next     *)
(* heartbeat.                                                               *)
Lock(r, m) ==
  /\ \/ /\ assigned[m.group].claimant # Unclaimed
        /\ \E c \in {[claims EXCEPT ![m.group][r] = m.time]} : CheckForConflicts(c)
     \/ /\ assigned[m.group].claimant = Unclaimed
        /\ claims' = [claims EXCEPT ![m.group][r] = m.time]
        /\ assigned' = [assigned EXCEPT ![m.group] = Picked(claims', m.group)]
  /\ UNCHANGED to_robot

HandleRequest(r) ==
  /\ to_supervisor[r] # << >>
  /\ \A s \in Robots : Len(to_robot[s]) < StatesLimit
  /\ to_supervisor' = [to_supervisor EXCEPT ![r] = Tail(@)]
  /\ LET m == Head(to_supervisor[r])
     IN  \/ m.mode = "release" /\ Release(r, m)
         \/ m.mode = "lock" /\ Lock(r, m)
  /\ UNCHANGED <<robotVars, used, restarts>>

Repeats(r, g) ==
  \/ requesting[r][g] # NoTime \/ locked[r][g] # NoTime
  \/ \E i \in DOMAIN to_supervisor[r] : to_supervisor[r][i].group = g

Stale ==
  {c \in Groups \X Robots : claims[c[1]][c[2]] # NoTime /\ ~Repeats(c[2], c[1])}

(* do_heartbeat: claims that were not repeated in time are removed, a group *)
(* that had such a claimant is picked again, and the states are published.  *)
(* Bound of the model: the previous states have arrived.                    *)
DoHeartbeat(expired) ==
  /\ \A r \in Robots : to_robot[r] = << >> /\ Len(to_supervisor[r]) <= RequestsLimit
  /\ UNCHANGED <<robotVars, to_supervisor, used, restarts>>
  /\ claims' = [g \in Groups |-> [r \in Robots |->
       IF <<g, r>> \in expired THEN NoTime ELSE claims[g][r]]]
  /\ assigned' = [g \in Groups |->
       IF <<g, assigned[g].claimant>> \in expired THEN Picked(claims', g) ELSE assigned[g]]
  /\ to_robot' = Published(assigned')

-----------------------------------------------------------------------------
(* A robot and its fleet adapter                                            *)

(* The messages for some groups of a robot, in any order.                   *)
Orders == [some \in SUBSET Groups |-> SetToSeqs(some)]

(* Mutant: for all groups, also those it does not have.                      *)
MessagesForAll(groups, mode) ==
  {[i \in DOMAIN order |-> [group |-> order[i], time |-> groups[order[i]], mode |-> mode]] :
     order \in Orders[Groups]}

Messages(groups, mode) ==
  {[i \in DOMAIN order |-> [group |-> order[i], time |-> groups[order[i]], mode |-> mode]] :
     order \in Orders[Has(groups)]}

Publish(r, messages) ==
  to_supervisor' = [to_supervisor EXCEPT ![r] = @ \o messages]

(* _publish_mutex_group_requests: what is requested, then what is locked.   *)
PublishRequests(r, requested) ==
  \E m1 \in Messages(requested, "lock"), m2 \in Messages(locked[r], "lock") :
    Publish(r, m1 \o m2)

(* request_mutex_groups: a group that is requested already keeps its time,  *)
(* unless the nanoseconds of the new one are less.                          *)
Requested(r, groups, time) ==
  [g \in Groups |->
    IF g \notin groups THEN requesting[r][g]
    ELSE IF requesting[r][g] = NoTime THEN time
    ELSE IF Nanoseconds[time] < Nanoseconds[requesting[r][g]] THEN time
    ELSE requesting[r][g]]

(* Whether all messages about the groups r held before have arrived.        *)
Settled(r) == to_robot[r] = << >> /\ to_supervisor[r] = << >>

(* LockMutexGroup begins with the time the robot was planned to be there.   *)
(* When everything is locked already the robot goes on at once.             *)
Claim(r, groups, time) ==
  /\ wanted[r] = {}
  /\ Nested \/ inside[r] = {}
  /\ Hasty \/ Settled(r)
  /\ time \notin used
  /\ used' = used \cup {time}
  /\ LET left == groups \ Has(locked[r])
     IN  \/ /\ left = {}
            /\ inside' = [inside EXCEPT ![r] = @ \cup groups]
            /\ UNCHANGED <<requesting, wanted, remaining, to_supervisor>>
         \/ /\ left # {}
            /\ wanted' = [wanted EXCEPT ![r] = groups]
            /\ remaining' = [remaining EXCEPT ![r] = left]
            /\ requesting' = [requesting EXCEPT ![r] = Requested(r, groups, time)]
            /\ PublishRequests(r, requesting'[r])
            /\ UNCHANGED inside
  /\ UNCHANGED <<supervisorVars, locked, to_robot, restarts>>

(* The two-second timer.  Bound of the model: all requests and the states   *)
(* for this robot have arrived.                                             *)
Heartbeat(r) ==
  /\ to_robot[r] = << >> /\ \A s \in Robots : to_supervisor[s] = << >>
  /\ Has(requesting[r]) \cup Has(locked[r]) # {}
  /\ UNCHANGED <<supervisorVars, robotVars, to_robot, used, restarts>>
  /\ PublishRequests(r, requesting[r])

AssignedTo(r, states) == {g \in Groups : states[g].claimant = r}

(* The listener of LockMutexGroup: when nothing is left to wait for the      *)
(* robot goes on, or, when it waited for long and its plan has changed, has *)
(* it planned again.                                                        *)
OnLocked(r, granted) ==
  LET left == remaining[r] \ granted
      ready == remaining[r] # {} /\ left = {}
  IN  /\ remaining' = [remaining EXCEPT ![r] = left]
      /\ wanted' = [wanted EXCEPT ![r] = IF ready THEN {} ELSE @]
      /\ \/ ready /\ inside' = [inside EXCEPT ![r] = @ \cup wanted[r]]
         \/ UNCHANGED inside

(* _check_mutex_groups: what was requested becomes locked, and what was     *)
(* neither requested nor locked is released.                                *)
OnStates(r) ==
  /\ to_robot[r] # << >>
  /\ to_robot' = [to_robot EXCEPT ![r] = Tail(@)]
  /\ \E states \in {Head(to_robot[r])} :
       LET mine == AssignedTo(r, states)
           granted == mine \cap Has(requesting[r])
           errors == [g \in Groups |-> IF g \in mine \ (granted \cup Has(locked[r]))
                                       THEN states[g].time ELSE NoTime]
       IN  /\ requesting' = [requesting EXCEPT ![r] =
                [g \in Groups |-> IF g \in granted THEN NoTime ELSE @[g]]]
           /\ locked' = [locked EXCEPT ![r] =
                [g \in Groups |-> IF g \in granted THEN states[g].time ELSE @[g]]]
           /\ OnLocked(r, granted)
           /\ \E m \in Messages(errors, "release") : Publish(r, m)
  /\ UNCHANGED <<supervisorVars, used, restarts>>

(* Some of what a robot has requested and locked is released.               *)
Dropped(groups, keep) == [g \in Groups |-> IF g \in keep THEN NoTime ELSE groups[g]]
Kept(groups, keep) == [g \in Groups |-> IF g \in keep THEN groups[g] ELSE NoTime]

ReleaseAllBut(r, keep) ==
  /\ UNCHANGED <<supervisorVars, wanted, remaining, to_robot, used, restarts>>
  /\ requesting' = [requesting EXCEPT ![r] = Kept(@, keep)]
  /\ locked' = [locked EXCEPT ![r] = Kept(@, keep)]
  /\ \E m1 \in Messages(Dropped(requesting[r], keep), "release"),
        m2 \in Messages(Dropped(locked[r], keep), "release") : Publish(r, m1 \o m2)

(* retain_mutex_groups, for a robot that is in no other group.              *)
Retain(r, keep) ==
  /\ inside' = [inside EXCEPT ![r] = @ \cap keep]
  /\ ReleaseAllBut(r, keep)

(* MoveRobot, as the robot gets on, or GoToPlace, when it is there already: *)
(* the groups it is not in, or no longer, are released.                     *)
MoveOn(r, keep) ==
  /\ wanted[r] = {}
  /\ keep \subseteq inside[r]
  /\ Has(requesting[r]) \cup Has(locked[r]) \cup inside[r] # keep
  /\ Retain(r, keep)

(* Mutant: the idle timer does not look whether the robot has a task.       *)
IdleReleaseAnyway(r) ==
  /\ Idle
  /\ Settled(r)
  /\ Has(requesting[r]) \cup Has(locked[r]) # {}
  /\ ReleaseAllBut(r, {})
  /\ UNCHANGED inside

(* _publish_mutex_group_requests of a robot without a task for ten seconds, *)
(* in which its messages have arrived: whatever it has requested or locked   *)
(* is released, and the robot stays where it is.                            *)
IdleRelease(r) ==
  /\ Idle
  /\ wanted[r] = {}
  /\ Settled(r)
  /\ Has(requesting[r]) \cup Has(locked[r]) # {}
  /\ ReleaseAllBut(r, {})
  /\ UNCHANGED inside

(* An operator's message makes the robot retain only what is locked and not *)
(* in the message.  The robot, if it is in there, is taken care of.         *)
ManualRelease(r, groups) ==
  /\ wanted[r] = {} \/ Manual
  /\ Has(locked[r]) \cap groups # {}
  /\ Retain(r, Has(locked[r]) \ groups)

(* LockMutexGroup::cancel and kill: nothing is released.                    *)
Cancel(r) ==
  /\ wanted[r] # {}
  /\ wanted' = [wanted EXCEPT ![r] = {}]
  /\ remaining' = [remaining EXCEPT ![r] = {}]
  /\ UNCHANGED <<supervisorVars, requesting, locked, inside, to_supervisor, to_robot,
                 used, restarts>>

(* The fleet adapter starts anew, with nothing requested or locked.         *)
Restart(r) ==
  /\ restarts < RestartLimit
  /\ restarts' = restarts + 1
  /\ requesting' = [requesting EXCEPT ![r] = NoGroups]
  /\ locked' = [locked EXCEPT ![r] = NoGroups]
  /\ wanted' = [wanted EXCEPT ![r] = {}]
  /\ remaining' = [remaining EXCEPT ![r] = {}]
  /\ inside' = [inside EXCEPT ![r] = {}]
  /\ UNCHANGED <<supervisorVars, to_supervisor, to_robot, used>>

-----------------------------------------------------------------------------
Next ==
  \/ \E r \in Robots :
       \/ HandleRequest(r)
       \/ \E groups \in Wishes[r], time \in Times : Claim(r, groups, time)
       \/ Heartbeat(r)
       \/ OnStates(r)
       \/ \E keep \in SUBSET Groups : MoveOn(r, keep) \/ ManualRelease(r, keep)
       \/ IdleRelease(r)
       \/ Cancel(r)
       \/ Restart(r)
  \/ \E expired \in SUBSET Stale : DoHeartbeat(expired)

Spec == Init /\ [][Next]_vars

(* Timers fire, messages arrive, stale claims reach their ten seconds, and  *)
(* a robot that waits for nothing leaves the groups it is in.  Strong for   *)
(* the supervisor's timer: messages take milliseconds, and between two      *)
(* heartbeats of robots there are none.                                     *)
Fairness ==
  /\ SF_vars(DoHeartbeat(Stale))
  /\ \A r \in Robots :
       /\ WF_vars(HandleRequest(r)) /\ WF_vars(OnStates(r)) /\ WF_vars(Heartbeat(r))
       /\ WF_vars(MoveOn(r, {}))

FairSpec == Spec /\ Fairness

-----------------------------------------------------------------------------
(* Types and properties *)

TimeOrNone == Times \cup {NoTime}
Message == [group : Groups, time : Times, mode : {"lock", "release"}]
States == [Groups -> [claimant : Robots \cup {Unclaimed}, time : TimeOrNone]]

(* Every variable has its type.                                             *)
TypeOK ==
  /\ claims \in [Groups -> [Robots -> TimeOrNone]]
  /\ assigned \in States
  /\ requesting \in [Robots -> [Groups -> TimeOrNone]]
  /\ locked \in [Robots -> [Groups -> TimeOrNone]]
  /\ wanted \in [Robots -> SUBSET Groups]
  /\ remaining \in [Robots -> SUBSET Groups]
  /\ inside \in [Robots -> SUBSET Groups]
  /\ to_supervisor \in [Robots -> Seq(Message)]
  /\ to_robot \in [Robots -> Seq(States)]
  /\ used \subseteq Times
  /\ restarts \in 0..RestartLimit

(* Two robots are never let into the same group ("Only one robot at a time  *)
(* is allowed to occupy any waypoint or lane associated with a particular   *)
(* mutex group").                                                           *)
MutualExclusion ==
  \A r, s \in Robots : r # s => inside[r] \cap inside[s] = {}

(* A group is assigned to one of its claimants, and to nobody only when     *)
(* there is none: whatever is released, expires or conflicts, no claim is   *)
(* passed over and no robot that has gone keeps a group.                    *)
AssignedToAClaimant ==
  \A g \in Groups :
    \/ assigned[g].claimant \in Claimants(claims, g)
    \/ assigned[g].claimant = Unclaimed /\ Claimants(claims, g) = {}

(* A robot that waits is still asking for what it waits for.                *)
AsksForWhatItLacks ==
  \A r \in Robots : remaining[r] \subseteq Has(requesting[r])

(* Every wait for groups ends: the earliest claim of a set of groups gets   *)
(* all of them, even if another robot already had one.                      *)
EveryWaitEnds == \A r \in Robots : []<>(wanted[r] = {})
=============================================================================
