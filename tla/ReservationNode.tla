--------------------------- MODULE ReservationNode ---------------------------
(***************************************************************************)
(* rmf_reservation_node (src/main.cpp): tickets, the mutex on parking spots *)
(* and one FIFO of waiting tickets per spot.                                *)
(*                                                                         *)
(* The node is single threaded.  Its four subscriptions are the actions     *)
(* ReceivedGraph, OnRequest, ClaimRequest and Release.  The while loop that *)
(* ends Release publishes between its iterations, and other nodes may act   *)
(* on what it published before it ends: ServiceNext is one iteration, and   *)
(* no other handler runs until the loop is over (freed = Nowhere).          *)
(***************************************************************************)
EXTENDS Integers, Sequences, FiniteSets

CONSTANTS
  Locations,    (* spot names that requests and graphs mention             *)
  Robots,       (* fleet_name/robot_name pairs                             *)
  RequestIds,   (* request_id values of a RequestHeader                    *)
  Alternatives, (* the alternative lists a FlexibleTimeRequest may carry   *)
  WaitLists,    (* the wait_points lists a ClaimRequest may carry          *)
  ParkingSpots, (* the is_parking_spot vertices of the navigation graphs   *)
  TicketLimit,  (* bound of the model: how many tickets are ever issued    *)
  NoRobot,      (* the header of a ticket that was not issued              *)
  Nowhere       (* no location                                             *)

Tickets == 1..TicketLimit
NoTicket == 0
LocationReq == [location : Locations, cost : Int]
RequestHeader == [robot : Robots, request_id : RequestIds]

ASSUME ConstantsAssumption ==
  /\ TicketLimit \in Nat
  /\ NoRobot \notin Robots
  /\ Nowhere \notin Locations
  /\ ParkingSpots \subseteq Locations
  /\ Alternatives \subseteq Seq(LocationReq)
  /\ WaitLists \subseteq Seq(Locations)

VARIABLES
  ticket_store,   (* TicketStore: the next id and the header of each ticket *)
  requests,       (* requests_: the alternatives of each ticket             *)
  current_state,  (* CurrentState: known spots, and the two maps between    *)
                  (* spots and tickets                                      *)
  queues,         (* ServiceQueueManager: the tickets waiting for each spot *)
  freed,          (* the location the release loop services, or Nowhere     *)
  published       (* what the last step published, oldest first             *)

nodeVars == <<ticket_store, requests, current_state, queues, freed, published>>

TicketMsg(t, h) == [type |-> "ticket", ticket |-> t, header |-> h]
Allocation(t, instruction, chosen, resource) ==
  [type |-> "allocation", ticket |-> t, instruction |-> instruction,
   chosen |-> chosen, resource |-> resource]

NodeInit ==
  /\ ticket_store = [next |-> 1, header |-> [t \in Tickets |-> NoRobot]]
  /\ requests = [t \in Tickets |-> << >>]
  /\ current_state = [known  |-> {},
                      holder |-> [l \in Locations |-> NoTicket],
                      placed |-> [t \in Tickets |-> Nowhere]]
  /\ queues = [l \in Locations |-> << >>]
  /\ freed = Nowhere
  /\ published = << >>

-----------------------------------------------------------------------------
(* CurrentState *)

(* Mutant: the ticket keeps its entry in _ticket_to_location.               *)
ReleasedHalf(st, t) ==
  IF st.placed[t] = Nowhere THEN st
  ELSE [st EXCEPT !.holder[st.placed[t]] = NoTicket]

(* CurrentState::release; a ticket that is placed nowhere changes nothing.  *)
Released(st, t) ==
  IF st.placed[t] = Nowhere THEN st
  ELSE [st EXCEPT !.holder[st.placed[t]] = NoTicket, !.placed[t] = Nowhere]

Taken(st, t, l) ==
  [st EXCEPT !.known = @ \cup {l}, !.holder[l] = t, !.placed[t] = l]

(* positions[location]: the last index of the list that names the location *)
Position(list, l) ==
  CHOOSE i \in DOMAIN list :
    /\ list[i].location = l
    /\ \A j \in DOMAIN list : list[j].location = l => j <= i

(* A location the sorted scan may stop at: free or not known yet, and of the *)
(* lowest cost among those.  std::sort leaves the order of equal costs open. *)
CheapestFree(st, list) ==
  {list[i].location : i \in
    {i \in DOMAIN list :
      /\ st.holder[list[i].location] = NoTicket
      /\ \A j \in DOMAIN list :
           st.holder[list[j].location] = NoTicket => list[i].cost <= list[j].cost}}

(* Mutant: the headers of the two tickets are not compared.                 *)
SittingAnyone(st, list, t) ==
  {l \in st.known :
    /\ st.holder[l] # NoTicket
    /\ \E i \in DOMAIN list : list[i].location = l}

(* A location of the list that a ticket of the same robot already holds.    *)
SittingOn(st, list, t) ==
  {l \in st.known :
    /\ st.holder[l] # NoTicket
    /\ ticket_store.header[st.holder[l]] = ticket_store.header[t]
    /\ \E i \in DOMAIN list : list[i].location = l}

(* CurrentState::allocate_lowest_cost_free_spot: the locations it may give, *)
(* and the state after it gives one.  An empty set is its std::nullopt.     *)
Choices(st, list, t) ==
  IF CheapestFree(st, list) # {} THEN CheapestFree(st, list)
  ELSE SittingOn(st, list, t)

Allocated(st, t, l) ==
  IF st.holder[l] = NoTicket THEN Taken(st, t, l)
  ELSE Taken(Released(st, st.holder[l]), t, l)

-----------------------------------------------------------------------------
(* ServiceQueueManager *)

Contains(queue, t) == \E i \in DOMAIN queue : queue[i] = t

Enqueued(queue, t) == IF Contains(queue, t) THEN queue ELSE Append(queue, t)

Removed(queue, t) ==
  IF Contains(queue, t)
  THEN LET at == CHOOSE i \in DOMAIN queue : queue[i] = t
       IN  SubSeq(queue, 1, at - 1) \o SubSeq(queue, at + 1, Len(queue))
  ELSE queue

(* Mutant: the ticket leaves the queue that is serviced, and no other.      *)
DequeuedOnce(t) == [queues EXCEPT ![freed] = Removed(queues[freed], t)]

(* remove_ticket: from every queue at once.                                 *)
Dequeued(t) == [l \in Locations |-> Removed(queues[l], t)]

Requested(t) == {requests[t][i].location : i \in DOMAIN requests[t]}

(* Mutant: in the queue of its first alternative the ticket is put in front. *)
QueuedInFront(t) ==
  [l \in Locations |->
    IF l = requests[t][1].location THEN <<t>> \o Removed(queues[l], t)
    ELSE IF l \in Requested(t) THEN Enqueued(queues[l], t)
    ELSE queues[l]]

(* add_to_queue: in the queues of all requested locations.                  *)
Queued(t) ==
  [l \in Locations |-> IF l \in Requested(t) THEN Enqueued(queues[l], t) ELSE queues[l]]

-----------------------------------------------------------------------------
(* The handlers *)

(* received_graph: every parking spot of the graph not known yet is added.  *)
ReceivedGraph ==
  /\ freed = Nowhere
  /\ current_state' = [current_state EXCEPT !.known = @ \cup ParkingSpots]
  /\ published' = << >>
  /\ UNCHANGED <<ticket_store, requests, queues, freed>>

(* on_request: a fresh ticket for the request, published at once.           *)
OnRequest(robot, id, alternatives) ==
  LET t == ticket_store.next
  IN  /\ freed = Nowhere
      /\ t <= TicketLimit
      /\ ticket_store' = [next |-> t + 1,
                          header |-> [ticket_store.header EXCEPT ![t] = robot]]
      /\ requests' = [requests EXCEPT ![t] = alternatives]
      /\ published' = <<TicketMsg(t, [robot |-> robot, request_id |-> id])>>
      /\ UNCHANGED <<current_state, queues, freed>>

(* claim_request, when a requested location can be given.                   *)
ClaimProceed(t, st) ==
  \E l \in Choices(st, requests[t], t) :
    /\ current_state' = Allocated(st, t, l)
    /\ published' = <<Allocation(t, "IMMEDIATELY_PROCEED",
                                 Position(requests[t], l), l)>>
    /\ UNCHANGED queues

(* claim_request, otherwise: the ticket waits for all of its locations, and *)
(* may be given a waitpoint, the wait_points costing 0, 1, 2 ... in order.  *)
WaitReqs(wait_points) ==
  [i \in DOMAIN wait_points |-> [location |-> wait_points[i], cost |-> i - 1]]

ClaimWait(t, st, wait_points) ==
  LET list == WaitReqs(wait_points)
  IN  /\ Choices(st, requests[t], t) = {}
      /\ queues' = Queued(t)
      /\ \/ \E l \in Choices(st, list, t) :
              /\ current_state' = Allocated(st, t, l)
              /\ published' = <<Allocation(t, "WAIT_IDENTIFIED",
                                           Position(list, l), l)>>
         \/ /\ Choices(st, list, t) = {}
            /\ current_state' = st
            /\ published' = << >>

ClaimRequest(t, wait_points) ==
  LET st == Released(current_state, t)
  IN  /\ freed = Nowhere
      /\ ClaimProceed(t, st) \/ ClaimWait(t, st, wait_points)
      /\ UNCHANGED <<ticket_store, requests, freed>>

(* Mutants: the loop starts with the ticket in place of its location; the   *)
(* queue of the released location is not serviced.                          *)
ReleaseWithTicket(t) ==
  /\ freed = Nowhere
  /\ current_state' = Released(current_state, t)
  /\ freed' = t
  /\ published' = << >>
  /\ UNCHANGED <<ticket_store, requests, queues>>

ReleaseUnserviced(t) ==
  /\ freed = Nowhere
  /\ current_state' = Released(current_state, t)
  /\ published' = << >>
  /\ UNCHANGED <<ticket_store, requests, queues, freed>>

(* release, up to its loop: a ticket that holds nothing ends the handler.   *)
Release(t) ==
  /\ freed = Nowhere
  /\ current_state' = Released(current_state, t)
  /\ freed' = current_state.placed[t]
  /\ published' = << >>
  /\ UNCHANGED <<ticket_store, requests, queues>>

(* release, one iteration of its loop.  The first ticket of the freed       *)
(* location's queue leaves every queue.  If it holds nothing the handler    *)
(* returns; otherwise it gives up its waitpoint and is allocated one of its *)
(* requested locations, and the loop goes on with the waitpoint.            *)
ServiceEmpty ==
  /\ queues[freed] = << >>
  /\ freed' = Nowhere
  /\ published' = << >>
  /\ UNCHANGED <<current_state, queues>>

ServiceTicket(t) ==
  /\ queues' = Dequeued(t)
  /\ LET waiting_at == current_state.placed[t]
         st == Released(current_state, t)
         choices == Choices(st, requests[t], t)
     IN  \/ /\ waiting_at = Nowhere \/ choices = {}
            /\ current_state' = st
            /\ freed' = Nowhere
            /\ published' = << >>
         \/ /\ waiting_at # Nowhere
            /\ \E l \in choices :
                 /\ current_state' = Allocated(st, t, l)
                 /\ published' = <<Allocation(t, "IMMEDIATELY_PROCEED",
                                              Position(requests[t], l), l)>>
            /\ freed' = waiting_at

ServiceNext ==
  /\ freed # Nowhere
  /\ \/ ServiceEmpty
     \/ queues[freed] # << >> /\ ServiceTicket(Head(queues[freed]))
  /\ UNCHANGED <<ticket_store, requests>>

-----------------------------------------------------------------------------
(* The node alone, whatever its clients send: any request, any claim and    *)
(* any release of a ticket it issued, in any order and any number of times. *)

Issued == 1..(ticket_store.next - 1)

NodeNext ==
  \/ ReceivedGraph
  \/ \E r \in Robots, id \in RequestIds, a \in Alternatives : OnRequest(r, id, a)
  \/ \E t \in Issued, w \in WaitLists : ClaimRequest(t, w)
  \/ \E t \in Issued : Release(t)
  \/ ServiceNext

NodeSpec == NodeInit /\ [][NodeNext]_nodeVars

-----------------------------------------------------------------------------
(* Types and properties *)

State ==
  [known  : SUBSET Locations,
   holder : [Locations -> Tickets \cup {NoTicket}],
   placed : [Tickets -> Locations \cup {Nowhere}]]

(* The node's state has its types: tickets it issued in 1..next-1, spots,   *)
(* and queues of tickets.                                                   *)
NodeTypeOK ==
  /\ ticket_store \in [next : 1..(TicketLimit + 1),
                       header : [Tickets -> Robots \cup {NoRobot}]]
  /\ requests \in [Tickets -> Seq(LocationReq)]
  /\ current_state \in State
  /\ queues \in [Locations -> Seq(Tickets)]
  /\ freed \in Locations \cup {Nowhere}

(* _current_location_reservations and _ticket_to_location are inverse maps: *)
(* a spot's ticket is placed on that spot, and a placed ticket is the one   *)
(* its spot names ("Only one robot can claim a location at a time").        *)
MapsAgree(st) ==
  /\ \A l \in Locations : st.holder[l] # NoTicket =>
       l \in st.known /\ st.placed[st.holder[l]] = l
  /\ \A t \in Tickets : st.placed[t] # Nowhere => st.holder[st.placed[t]] = t

HolderAndPlacedAgree == MapsAgree(current_state)

(* A ticket waits in the queue of every location it requested or of none,   *)
(* once per queue, and in no other queue: service_next_in_queue removes it  *)
(* from all of them at once.                                                *)
QueuedEverywhereOrNowhere ==
  /\ \A l \in Locations : \A i, j \in DOMAIN queues[l] :
       queues[l][i] = queues[l][j] => i = j
  /\ \A t \in Issued : \A l, m \in Requested(t) :
       Contains(queues[l], t) <=> Contains(queues[m], t)
  /\ \A t \in Tickets : \A l \in Locations :
       Contains(queues[l], t) => l \in Requested(t)

(* Two tickets that wait for the same two locations are in the same order   *)
(* in both queues, so that no pair of queues serves them in opposite order. *)
QueuesAgreeOnOrder ==
  \A l, m \in Locations :
    \A i1, i2 \in DOMAIN queues[l] : \A j1, j2 \in DOMAIN queues[m] :
      (/\ queues[l][i1] = queues[m][j1]
       /\ queues[l][i2] = queues[m][j2]
       /\ i1 < i2) => j1 < j2

Owner(l) ==
  IF current_state.holder[l] = NoTicket THEN NoRobot
  ELSE ticket_store.header[current_state.holder[l]]

Ledger == INSTANCE SpotLedger
            WITH owner <- [l \in Locations |-> Owner(l)], Nobody <- NoRobot

(* The node implements the ledger of spots and owners.                      *)
LedgerSpec == Ledger!Spec
=============================================================================
