------------------------- MODULE ReservationProtocol -------------------------
(***************************************************************************)
(* rmf_reservation_node and the robots of the fleet adapters that use it    *)
(* (GoToPlace with the parking spot manager on, ReservationNodeNegotiator,  *)
(* ReservationManager), over their five reliable topics.                    *)
(*                                                                         *)
(* Each robot has one channel per topic and direction.  A channel is FIFO;  *)
(* channels of different topics are not ordered with each other, so that a  *)
(* release may arrive after the next request, and an allocation after the   *)
(* task it was for is gone.                                                 *)
(***************************************************************************)
EXTENDS ReservationNode

CONSTANTS
  GoalLists,     (* the goals (one_of) a GoToPlace task may have           *)
  Skipped,       (* per robot, goals make_request leaves out: on another    *)
                 (* map, unreachable or without a name                      *)
  Costs,         (* distances quickest_path may report                      *)
  MissionLimit,  (* bound of the model: GoToPlace tasks per robot           *)
  MayCancel,     (* whether tasks are cancelled                             *)
  MayAskAgain    (* whether a robot is sent to the spot it has already      *)

ASSUME ProtocolAssumption ==
  /\ GoalLists \subseteq Seq(Locations)
  /\ Skipped \in [Robots -> SUBSET Locations]
  /\ Costs \subseteq Int
  /\ MissionLimit \in Nat \ {0} /\ RequestIds = 0..(MissionLimit - 1)
  /\ MayCancel \in BOOLEAN /\ MayAskAgain \in BOOLEAN

VARIABLES
  missions,     (* per robot, GoToPlace tasks begun: the next request_id    *)
  negotiator,   (* per robot, its ReservationNodeNegotiator                 *)
  allocation,   (* per robot, ReservationManager::_allocation               *)
  spot,         (* per robot, the goal it was last told to drive to         *)
  to_node,      (* per robot, messages on their way to the node             *)
  to_robot      (* per robot, messages on their way to the fleet adapter    *)

robotVars == <<missions, negotiator, allocation, spot>>
vars == <<nodeVars, robotVars, to_node, to_robot>>

NoNegotiator == [state |-> "None", request_id |-> 0, goals |-> << >>, ticket |-> NoTicket]
NoAllocation == [ticket |-> NoTicket, resource |-> Nowhere]

Init ==
  /\ NodeInit
  /\ missions = [r \in Robots |-> 0]
  /\ negotiator = [r \in Robots |-> NoNegotiator]
  /\ allocation = [r \in Robots |-> NoAllocation]
  /\ spot = [r \in Robots |-> Nowhere]
  /\ to_node = [r \in Robots |-> [request |-> << >>, claim |-> << >>, release |-> << >>]]
  /\ to_robot = [r \in Robots |-> [ticket |-> << >>, allocation |-> << >>]]

-----------------------------------------------------------------------------
(* The node takes a message from a robot's channel and publishes.           *)

Addressee(m, header) == IF m.type = "ticket" THEN m.header.robot ELSE header[m.ticket]

(* A ticket or allocation is published to every adapter; all but the robot  *)
(* it is for ignore it.  A step of the node publishes one message at most.  *)
Deliver(messages, header) ==
  [r \in Robots |->
    [topic \in {"ticket", "allocation"} |->
      IF /\ messages # << >> /\ Head(messages).type = topic
         /\ Addressee(Head(messages), header) = r
      THEN Append(to_robot[r][topic], Head(messages)) ELSE to_robot[r][topic]]]

NodeStep ==
  /\ to_robot' = Deliver(published', ticket_store'.header)
  /\ UNCHANGED robotVars

Receive(r, topic) ==
  /\ to_node[r][topic] # << >>
  /\ to_node' = [to_node EXCEPT ![r][topic] = Tail(@)]

NodeReceivedGraph ==
  /\ ReceivedGraph /\ current_state' # current_state
  /\ UNCHANGED to_node /\ NodeStep

NodeOnRequest(r) ==
  /\ Receive(r, "request")
  /\ LET m == Head(to_node[r].request) IN OnRequest(r, m.request_id, m.alternatives)
  /\ NodeStep

NodeClaimRequest(r) ==
  /\ Receive(r, "claim")
  /\ LET m == Head(to_node[r].claim) IN ClaimRequest(m.ticket, m.wait_points)
  /\ NodeStep

NodeRelease(r) ==
  /\ Receive(r, "release")
  /\ Release(Head(to_node[r].release))
  /\ NodeStep

NodeServiceNext == ServiceNext /\ UNCHANGED to_node /\ NodeStep

-----------------------------------------------------------------------------
(* The fleet adapter's side of one robot                                    *)

AdapterStep == published' = << >> /\ UNCHANGED <<ticket_store, requests, current_state, queues, freed>>

Publish(r, topic, m) == to_node' = [to_node EXCEPT ![r][topic] = Append(@, m)]

(* GoToPlace begins: make() subscribes, and schedules make_request on the   *)
(* worker.  With the patch it does so even when the robot already holds a   *)
(* goal's spot.                                                             *)
BeginGoToPlace(r, goals) ==
  /\ negotiator[r].state = "None"
  /\ missions[r] < MissionLimit
  /\ MayAskAgain \/ allocation[r].resource \notin {goals[i] : i \in DOMAIN goals}
  /\ negotiator' = [negotiator EXCEPT ![r] =
       [state |-> "Pending", request_id |-> missions[r], goals |-> goals, ticket |-> NoTicket]]
  /\ missions' = [missions EXCEPT ![r] = @ + 1]
  /\ UNCHANGED <<allocation, spot, to_node, to_robot>>
  /\ AdapterStep

(* make_request looks at the goals in order, and keeps those that are not   *)
(* skipped: what it has kept after n of them.                               *)
KeptOf(r, goals) ==
  LET kept[n \in 0..Len(goals)] ==
        IF n = 0 THEN << >>
        ELSE IF goals[n] \in Skipped[r] THEN kept[n - 1] ELSE Append(kept[n - 1], goals[n])
  IN  kept

(* make_request: the goals that are kept, each with its distance.           *)
MakeRequest(r, cost) ==
  LET goals == negotiator[r].goals
      kept == KeptOf(r, goals)[Len(goals)]
  IN  /\ negotiator[r].state = "Pending"
      /\ Publish(r, "request",
           [request_id |-> negotiator[r].request_id,
            alternatives |-> [i \in DOMAIN kept |->
              [location |-> kept[i], cost |-> cost[kept[i]]]]])
      /\ negotiator' = [negotiator EXCEPT ![r].state = "Requested"]
      /\ UNCHANGED <<missions, allocation, spot, to_robot>>
      /\ AdapterStep

Consume(r, topic) == to_robot' = [to_robot EXCEPT ![r][topic] = Tail(@)]

(* The ticket subscription: the ticket of another request is ignored; ours  *)
(* is kept and claimed with the parking spots in order of their distance.   *)
OnTicket(r, wait_points) ==
  /\ to_robot[r].ticket # << >>
  /\ Consume(r, "ticket")
  /\ LET m == Head(to_robot[r].ticket)
         ours == /\ negotiator[r].state # "None"
                 /\ m.header.request_id = negotiator[r].request_id
     IN  \/ /\ ~ours
            /\ UNCHANGED <<negotiator, to_node>>
         \/ /\ ours
            /\ negotiator' = [negotiator EXCEPT ![r].ticket = m.ticket]
            /\ IF wait_points = << >> THEN UNCHANGED to_node
               ELSE Publish(r, "claim", [ticket |-> m.ticket, wait_points |-> wait_points])
  /\ UNCHANGED <<missions, allocation, spot>>
  /\ AdapterStep

(* Mutant: the replaced ticket is not released.                             *)
ReplaceTicketOnly(r, m) ==
  /\ allocation' = [allocation EXCEPT ![r] = [ticket |-> m.ticket, resource |-> m.resource]]
  /\ UNCHANGED to_node

(* ReservationManager::replace_ticket: the ticket held so far is released   *)
(* when it is another one, unless the new one is for the same resource, in  *)
(* which case nothing is recorded either.                                   *)
ReplaceTicket(r, m) ==
  LET held == allocation[r]
      other == held.ticket \notin {NoTicket, m.ticket}
  IN  /\ allocation' = IF other /\ m.resource = held.resource THEN allocation
                       ELSE [allocation EXCEPT ![r] =
                              [ticket |-> m.ticket, resource |-> m.resource]]
      /\ IF other /\ m.resource # held.resource
         THEN Publish(r, "release", held.ticket)
         ELSE UNCHANGED to_node

(* The allocation subscription: only one for the negotiator's own ticket    *)
(* counts.  The final destination is the goal whose index the node chose.   *)
OnAllocation(r) ==
  /\ to_robot[r].allocation # << >>
  /\ Consume(r, "allocation")
  /\ LET m == Head(to_robot[r].allocation)
         ours == negotiator[r].state # "None" /\ negotiator[r].ticket = m.ticket
     IN  \/ /\ ~ours
            /\ UNCHANGED <<negotiator, allocation, spot, to_node>>
         \/ /\ ours
            /\ ReplaceTicket(r, m)
            /\ \/ /\ m.instruction = "IMMEDIATELY_PROCEED"
                  /\ negotiator' = [negotiator EXCEPT ![r].state = "Immediate"]
                  /\ spot' = [spot EXCEPT ![r] = negotiator[r].goals[m.chosen]]
               \/ /\ m.instruction = "WAIT_IDENTIFIED"
                  /\ negotiator' = [negotiator EXCEPT ![r].state = "WaitPoint"]
                  /\ spot' = [spot EXCEPT ![r] = m.resource]
  /\ UNCHANGED missions
  /\ AdapterStep

(* The robot reaches its final destination and GoToPlace finishes.          *)
Finish(r) ==
  /\ negotiator[r].state = "Immediate"
  /\ negotiator' = [negotiator EXCEPT ![r] = NoNegotiator]
  /\ UNCHANGED <<missions, allocation, spot, to_node, to_robot>>
  /\ AdapterStep

(* GoToPlace::cancel and kill: the negotiator is dropped.  Neither the      *)
(* ticket nor its place in the node's queues is given up.                   *)
Cancel(r) ==
  /\ MayCancel
  /\ negotiator[r].state # "None"
  /\ negotiator' = [negotiator EXCEPT ![r] = NoNegotiator]
  /\ UNCHANGED <<missions, allocation, spot, to_node, to_robot>>
  /\ AdapterStep

-----------------------------------------------------------------------------
NodeActions == NodeServiceNext \/ \E r \in Robots :
  NodeOnRequest(r) \/ NodeClaimRequest(r) \/ NodeRelease(r)

Respond(r) ==
  \/ \E cost \in [Locations -> Costs] : MakeRequest(r, cost)
  \/ \E w \in WaitLists : OnTicket(r, w)
  \/ OnAllocation(r)

Next ==
  \/ NodeActions
  \/ NodeReceivedGraph
  \/ \E r \in Robots :
       \/ \E goals \in GoalLists : BeginGoToPlace(r, goals)
       \/ Respond(r)
       \/ Finish(r)
       \/ Cancel(r)

Spec == Init /\ [][Next]_vars

(* The node's and the adapters' executors run what is ready, a published    *)
(* message arrives, a robot that was told to proceed gets there, and a      *)
(* robot with tasks left begins the next one.                               *)
Fairness ==
  /\ WF_vars(NodeServiceNext)
  /\ \A r \in Robots :
       /\ WF_vars(NodeOnRequest(r)) /\ WF_vars(NodeClaimRequest(r))
       /\ WF_vars(NodeRelease(r))
       /\ WF_vars(Respond(r)) /\ WF_vars(Finish(r))
       /\ WF_vars(\E goals \in GoalLists : BeginGoToPlace(r, goals))

FairSpec == Spec /\ Fairness

-----------------------------------------------------------------------------
(* What the spots must be like for everybody who waits to have a place       *)

Goals == UNION {{goals[i] : i \in DOMAIN goals} : goals \in GoalLists}

(* Whichever parking spots a robot may wait at, there is one for every robot *)
(* among them that is nobody's goal.                                        *)
EnoughParking ==
  /\ IsFiniteSet(Robots)
  /\ \A wait_points \in WaitLists :
       Cardinality({wait_points[i] : i \in DOMAIN wait_points} \ Goals) >= Cardinality(Robots)

(* A robot can use one of the goals it is given.                            *)
SomeGoalIsKept ==
  \A r \in Robots, goals \in GoalLists : \E i \in DOMAIN goals : goals[i] \notin Skipped[r]

-----------------------------------------------------------------------------
(* Types and properties *)

(* Every variable has its type.                                             *)
TypeOK ==
  /\ NodeTypeOK
  /\ missions \in [Robots -> 0..MissionLimit]
  /\ negotiator \in [Robots ->
       [state : {"None", "Pending", "Requested", "WaitPoint", "Immediate"},
        request_id : RequestIds, goals : Seq(Locations), ticket : Tickets \cup {NoTicket}]]
  /\ allocation \in [Robots -> [ticket : Tickets \cup {NoTicket},
                                resource : Locations \cup {Nowhere}]]
  /\ spot \in [Robots -> Locations \cup {Nowhere}]

InFlightAllocation(r, t) ==
  \E i \in DOMAIN to_robot[r].allocation : to_robot[r].allocation[i].ticket = t

(* No two robots are driven to the same spot, unless the one that was told  *)
(* first has an allocation on its way that takes it elsewhere.              *)
ExclusiveSpots ==
  \A r1, r2 \in Robots :
    r1 # r2 /\ spot[r1] # Nowhere /\ spot[r1] = spot[r2] =>
      \E r \in {r1, r2} : InFlightAllocation(r, negotiator[r].ticket)

(* Somebody will still act on a ticket that holds a spot: the robot's       *)
(* reservation manager has it, its negotiator waits for it, or a message    *)
(* about it is on its way.  A spot whose ticket everybody forgot can never   *)
(* be released ("The fleet adapter will release the previous location as it *)
(* starts to move to its next location").                                   *)
NoForgottenTicket ==
  \A t \in Tickets :
    current_state.placed[t] # Nowhere =>
      LET r == ticket_store.header[t]
      IN  \/ allocation[r].ticket = t
          \/ negotiator[r].ticket = t
          \/ \E i \in DOMAIN to_node[r].release : to_node[r].release[i] = t

(* A goal that make_request skipped is not where the robot is sent ("If not *)
(* don't consider location").                                               *)
SkippedGoalIsNotConsidered ==
  \A r \in Robots : spot[r] \notin Skipped[r]

(* A location is free only when nobody waits for it (or the loop that       *)
(* serves its queue is about to): whoever claims later cannot overtake.     *)
NobodyIsOvertaken ==
  \A l \in Locations :
    current_state.holder[l] = NoTicket /\ freed = Nowhere => queues[l] = << >>

(* A ticket loses its spot only for another one that the same step          *)
(* publishes, by a release its own robot sent, or to a newer ticket of the  *)
(* same robot on the same spot.                                             *)
KeepsItsSpot ==
  [][\A t \in Tickets :
       LET l == current_state.placed[t]
       IN  l # Nowhere /\ current_state'.placed[t] # l =>
             \/ \E i \in DOMAIN published' :
                  /\ published'[i].type = "allocation"
                  /\ published'[i].ticket = t
                  /\ published'[i].resource = current_state'.placed[t]
             \/ /\ current_state'.holder[l] # NoTicket
                /\ ticket_store.header[current_state'.holder[l]] = ticket_store.header[t]
             \/ freed = Nowhere /\ freed' = l]_vars

(* Every GoToPlace task ends, unless it waits for spots of robots that are   *)
(* done with all their tasks and never leave: with enough parking spots     *)
(* nobody waits forever on anybody who waits ("you should never have a      *)
(* deadlock").                                                              *)
HasRetired(r) == negotiator[r].state = "None" /\ missions[r] = MissionLimit

WaitsForRetired(r) ==
  /\ negotiator[r].state = "WaitPoint"
  /\ \A l \in Requested(negotiator[r].ticket) :
       \E other \in Robots : HasRetired(other) /\ Owner(l) = other

EveryTaskEnds ==
  \A r \in Robots :
    negotiator[r].state # "None" ~> (negotiator[r].state = "None" \/ WaitsForRetired(r))
=============================================================================
