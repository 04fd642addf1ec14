---------------------------- MODULE TaskDispatch -----------------------------
(***************************************************************************)
(* The dispatch of tasks: the Dispatcher and its Auctioneer ask the fleets  *)
(* for bids one task after the other and award each task to a fleet; the    *)
(* fleets (FleetUpdateHandle) plan their robots' queues for a bid, take the *)
(* plan over when the task is awarded, and plan again when it has become    *)
(* invalid or a task is removed.                                            *)
(*                                                                         *)
(* A fleet has one robot; its queue is the set of the tasks before it, and   *)
(* the task planner finds a plan for any set, or fails.  Notices and commands   *)
(* are FIFO per fleet, proposals and acknowledgments arrive in any order.   *)
(***************************************************************************)
EXTENDS Naturals, FiniteSets, SequencesExt

CONSTANTS
  Tasks, Fleets,
  Addressed,        (* per task, the fleets its request is for                *)
  None,             (* no task, no fleet                                     *)
  Cancels,          (* how many tasks may be cancelled at the dispatcher      *)
  CanFail,          (* whether the task planner of a fleet may fail           *)
  Prompt,           (* whether awards are acknowledged before the auctioneer's *)
                    (* timer fires again, 200 ms later                       *)
  CommandsLimit     (* bound of the model: commands on their way to a fleet   *)
                    (* when the dispatcher's timer fires                      *)

ASSUME DispatchAssumption ==
  /\ None \notin Tasks \cup Fleets
  /\ Addressed \in [Tasks -> SUBSET Fleets]
  /\ Cancels \in Nat /\ CanFail \in BOOLEAN /\ Prompt \in BOOLEAN
  /\ CommandsLimit \in Nat

VARIABLES
  status,           (* per task, DispatchState::status                       *)
  assignment,       (* per task, the fleet it was awarded to                 *)
  open_bids,        (* open_bid_queue: a task and the fleets that proposed   *)
  bidding,          (* bidding_in_process                                    *)
  lingering,        (* lingering_commands                                    *)
  next_command,     (* next_dispatch_command_id                              *)
  notices,          (* per fleet, bid notices on their way                   *)
  proposals,        (* bid responses on their way                            *)
  commands,         (* per fleet, dispatch commands on their way             *)
  acks,             (* acknowledgments on their way: the ids of the commands *)
  fleet,            (* per fleet, its state (below)                          *)
  announced         (* history: the tasks the fleets were asked for          *)

dispatcherVars == <<status, assignment, open_bids, bidding, lingering, next_command, announced>>
topicVars == <<notices, proposals, commands, acks>>
vars == <<dispatcherVars, topicVars, fleet>>

Active == {t \in Tasks : status[t] \in {"queued", "selected", "failed_to_assign"}}

NoPlan == [task |-> None, plan |-> {}]

Init ==
  /\ status = [t \in Tasks |-> "uninitialized"]
  /\ assignment = [t \in Tasks |-> None]
  /\ open_bids = << >>
  /\ bidding = FALSE
  /\ lingering = {}
  /\ next_command = 1
  /\ notices = [f \in Fleets |-> << >>]
  /\ proposals = {}
  /\ commands = [f \in Fleets |-> << >>]
  /\ acks = {}
  /\ fleet = [f \in Fleets |->
       [queue |-> {},        (* the queue of its robot's task manager         *)
        active |-> None,     (* the task a robot works on                     *)
        executed |-> {},     (* the tasks that began or were removed          *)
        bids |-> {},         (* bid_notice_assignments: a task and the plan    *)
        calculating |-> NoPlan,   (* calculate_bid                            *)
        unassigned |-> {},   (* unassigned_requests                           *)
        last_bid |-> None,   (* last_bid_assignment                           *)
        rejected |-> {},     (* history: the awards that had no plan          *)
        replans |-> << >>]]  (* what reassignment_worker has to plan          *)
  /\ announced = {}

-----------------------------------------------------------------------------
(* The dispatcher *)

(* push_bid_notice and request_bid.                                         *)
Submit(t) ==
  /\ status[t] = "uninitialized"
  /\ status' = [status EXCEPT ![t] = "queued"]
  /\ open_bids' = Append(open_bids, [task |-> t, fleets |-> {}])
  /\ UNCHANGED <<assignment, bidding, lingering, next_command, announced, topicVars, fleet>>

(* finish_bidding_process, when no bid is in process.                       *)
Announce ==
  /\ open_bids # << >>
  /\ ~bidding
  /\ bidding' = TRUE
  /\ announced' = announced \cup {Head(open_bids).task}
  /\ notices' = [f \in Fleets |-> Append(notices[f], Head(open_bids).task)]
  /\ UNCHANGED <<status, assignment, open_bids, lingering, next_command, proposals, commands,
                 acks, fleet>>

(* receive_response: only a proposal for the task in front counts.          *)
ReceiveResponse(p) ==
  /\ p \in proposals
  /\ open_bids # << >>
  /\ proposals' = proposals \ {p}
  /\ open_bids' = IF Head(open_bids).task = p.task
                  THEN [open_bids EXCEPT ![1].fleets = @ \cup {p.fleet}] ELSE open_bids
  /\ UNCHANGED <<status, assignment, bidding, lingering, next_command, announced, notices,
                 commands, acks, fleet>>

Command(t, f, type) == [id |-> next_command, task |-> t, fleet |-> f, type |-> type]

(* Mutant: the next command gets the same number.                           *)
SendUnnumbered(c) ==
  /\ lingering' = lingering \cup {c}
  /\ commands' = [f \in Fleets |-> Append(commands[f], c)]
  /\ UNCHANGED next_command

(* The command is published, and stays to be published again.               *)
Send(c) ==
  /\ lingering' = lingering \cup {c}
  /\ next_command' = next_command + 1
  /\ commands' = [f \in Fleets |-> Append(commands[f], c)]

(* determine_winner and conclude_bid, when the time window is over: that of *)
(* a task which waited began when it was submitted.  A task that is no      *)
(* longer active leaves the bid in process, and so does an award until it   *)
(* is acknowledged: the next task in the queue may be concluded unannounced. *)
Conclude ==
  /\ open_bids # << >>
  /\ bidding
  /\ Prompt => \A c \in lingering : c.type # "award"
  /\ open_bids' = Tail(open_bids)
  /\ LET t == Head(open_bids).task
         fleets == Head(open_bids).fleets
     IN  \/ /\ t \notin Active
            /\ UNCHANGED <<status, assignment, bidding, lingering, next_command, commands>>
         \/ /\ t \in Active /\ fleets = {}
            /\ status' = [status EXCEPT ![t] = "failed_to_assign"]
            /\ bidding' = FALSE
            /\ UNCHANGED <<assignment, lingering, next_command, commands>>
         \/ /\ t \in Active
            /\ \E f \in fleets :
                 /\ assignment' = [assignment EXCEPT ![t] = f]
                 /\ Send(Command(t, f, "award"))
            /\ status' = [status EXCEPT ![t] = "selected"]
            /\ UNCHANGED bidding
  /\ UNCHANGED <<announced, notices, proposals, acks, fleet>>

(* cancel_task: the open bid of a queued task stays in the queue; a task     *)
(* that was awarded is removed from its fleet.                              *)
CancelTask(t) ==
  /\ Cardinality({s \in Tasks : status[s] = "canceled_in_flight"}) < Cancels
  /\ \/ /\ status[t] = "queued"
        /\ UNCHANGED <<lingering, next_command, commands>>
     \/ /\ status[t] = "selected"
        /\ Send(Command(t, assignment[t], "remove"))
  /\ status' = [status EXCEPT ![t] = "canceled_in_flight"]
  /\ UNCHANGED <<assignment, open_bids, bidding, announced, notices, proposals, acks, fleet>>

(* publish_lingering_commands: all of them again, in any order.  That one   *)
(* expires after ten seconds without an answer is not modelled.  Bound of   *)
(* the model: the fleets have received most of the last ones.               *)
PublishLingering ==
  /\ lingering # {}
  /\ \A f \in Fleets : Len(commands[f]) <= CommandsLimit
  /\ \E order \in SetToSeqs(lingering) : commands' = [f \in Fleets |-> commands[f] \o order]
  /\ UNCHANGED <<dispatcherVars, notices, proposals, acks, fleet>>

(* handle_dispatch_ack: whether the command succeeded is not looked at.     *)
HandleAck(id) ==
  /\ id \in acks
  /\ acks' = acks \ {id}
  /\ \/ /\ \A c \in lingering : c.id # id
        /\ UNCHANGED <<status, bidding, lingering>>
     \/ \E c \in lingering :
          /\ c.id = id
          /\ lingering' = lingering \ {c}
          /\ \/ /\ c.type = "award" /\ c.task \in Active
                /\ status' = [status EXCEPT ![c.task] =
                                IF @ = "selected" THEN "dispatched" ELSE @]
                /\ bidding' = FALSE
             \/ /\ c.type = "remove" \/ c.task \notin Active
                /\ UNCHANGED <<status, bidding>>
  /\ UNCHANGED <<assignment, open_bids, next_command, announced, notices, proposals, commands,
                 fleet>>

-----------------------------------------------------------------------------
(* A fleet *)

(* Mutant: the active task is planned for again.                            *)
ExpectationsWithActive(fl) == fl.queue \cup fl.unassigned \cup ({fl.active} \ {None})

(* Mutant: what waits for a robot is not planned for.                       *)
ExpectationsOfQueue(fl) == fl.queue

(* aggregate_expectations: the tasks to plan for.                           *)
Expectations(fl) == fl.queue \cup fl.unassigned

(* Mutant: what began or was removed is not looked at.                      *)
ValidAnyway(fl, plan) == TRUE

(* is_valid_assignments: no task of the plan began or was removed.          *)
Valid(fl, plan) == plan \cap fl.executed = {}

(* reassign_dispatched_tasks begins: the tasks and the last award are noted, *)
(* and the plan is made in the background.                                  *)
WithReplan(fl, task, id) ==
  [fl EXCEPT !.replans = Append(@, [tasks |-> Expectations(fl), last_bid |-> fl.last_bid,
                                    task |-> task, id |-> id])]

(* bid_notice_cb: a plan with the new task begins to be calculated, if the   *)
(* task is for this fleet; one that is being calculated is dropped.         *)
BidNotice(f) ==
  /\ notices[f] # << >>
  /\ LET t == Head(notices[f])
     IN  fleet' = IF f \notin Addressed[t] \/ \E b \in fleet[f].bids : b.task = t
                  THEN fleet ELSE [fleet EXCEPT ![f].calculating =
                          [task |-> t, plan |-> Expectations(fleet[f]) \cup {t}]]
  /\ notices' = [notices EXCEPT ![f] = Tail(@)]
  /\ UNCHANGED <<dispatcherVars, proposals, commands, acks>>

(* The plan is there, or there is none.                                     *)
BidCalculated(f) ==
  /\ fleet[f].calculating # NoPlan
  /\ \/ /\ proposals' = proposals \cup {[task |-> fleet[f].calculating.task, fleet |-> f]}
        /\ fleet' = [fleet EXCEPT ![f].bids = @ \cup {fleet[f].calculating},
                                  ![f].calculating = NoPlan]
     \/ /\ CanFail
        /\ fleet' = [fleet EXCEPT ![f].calculating = NoPlan]
        /\ UNCHANGED proposals
  /\ UNCHANGED <<dispatcherVars, notices, commands, acks>>

(* An award takes over the plan of the bid, if all its tasks are still to   *)
(* begin, and has everything planned again otherwise.                       *)
Award(f, c) ==
  LET fl == [fleet[f] EXCEPT !.last_bid = c.task]
  IN  \/ /\ \A b \in fl.bids : b.task # c.task
         /\ fleet' = [fleet EXCEPT ![f] = fl]
         /\ acks' = acks \cup {c.id}
      \/ \E b \in fl.bids :
           /\ b.task = c.task
           /\ \/ /\ Valid(fl, b.plan)
                 /\ fleet' = [fleet EXCEPT ![f] = [fl EXCEPT !.bids = @ \ {b},
                                !.queue = b.plan, !.unassigned = {}]]
                 /\ acks' = acks \cup {c.id}
              \/ /\ ~Valid(fl, b.plan)
                 /\ fleet' = [fleet EXCEPT ![f] =
                      WithReplan([fl EXCEPT !.bids = @ \ {b}, !.unassigned = @ \cup {c.task}],
                                 c.task, c.id)]
                 /\ UNCHANGED acks

(* cancel_task_if_present.                                                  *)
CancelledIfPresent(fl, t) ==
  [fl EXCEPT !.queue = @ \ {t}, !.executed = @ \cup {t},
             !.active = IF @ = t THEN None ELSE @]

RemoveTask(f, c) ==
  LET fl == fleet[f]
  IN  /\ fleet' = [fleet EXCEPT ![f] =
           IF \E b \in fl.bids : b.task = c.task
           THEN [fl EXCEPT !.bids = {b \in @ : b.task # c.task}]
           ELSE IF c.task \in fl.queue \/ c.task = fl.active
           THEN WithReplan(CancelledIfPresent(fl, c.task), None, 0)
           ELSE fl]
      /\ acks' = acks \cup {c.id}

(* Mutant: the name of the fleet is not compared.                           *)
ForAnyFleet(f, c) == TRUE

ForThisFleet(f, c) == c.fleet = f

(* dispatch_command_cb: what another fleet is awarded or has removed is     *)
(* forgotten.                                                               *)
DispatchCommand(f) ==
  /\ commands[f] # << >>
  /\ commands' = [commands EXCEPT ![f] = Tail(@)]
  /\ LET c == Head(commands[f])
     IN  \/ /\ ~ForThisFleet(f, c)
            /\ fleet' = [fleet EXCEPT ![f].bids = {b \in @ : b.task # c.task}]
            /\ UNCHANGED acks
         \/ ForThisFleet(f, c) /\ c.type = "award" /\ Award(f, c)
         \/ ForThisFleet(f, c) /\ c.type = "remove" /\ RemoveTask(f, c)
  /\ UNCHANGED <<dispatcherVars, notices, proposals>>

(* A task was awarded, began or was removed while the plan was made.        *)
Outdated(fl, plan) == fl.last_bid # plan.last_bid \/ ~Valid(fl, plan.tasks)

Acknowledged(plan) == IF plan.task = None THEN acks ELSE acks \cup {plan.id}

(* reassign_dispatched_tasks ends: the plan is taken over, or made again if  *)
(* it is outdated.                                                          *)
Replanned(f) ==
  /\ fleet[f].replans # << >>
  /\ LET plan == Head(fleet[f].replans)
         fl == [fleet[f] EXCEPT !.replans = Tail(@)]
     IN  \/ /\ Outdated(fl, plan)
            /\ fleet' = [fleet EXCEPT ![f] = WithReplan(fl, plan.task, plan.id)]
            /\ UNCHANGED acks
         \/ /\ ~Outdated(fl, plan)
            /\ fleet' = [fleet EXCEPT ![f] = [fl EXCEPT !.queue = plan.tasks, !.unassigned = {}]]
            /\ acks' = Acknowledged(plan)
  /\ UNCHANGED <<dispatcherVars, notices, proposals, commands>>

(* There was no plan: the task that was awarded is given up.                *)
ReplanFailed(f) ==
  /\ CanFail
  /\ fleet[f].replans # << >>
  /\ LET plan == Head(fleet[f].replans)
     IN  /\ fleet' = [fleet EXCEPT ![f].replans = Tail(@),
                                   ![f].unassigned = @ \ {plan.task},
                                   ![f].rejected = @ \cup ({plan.task} \ {None})]
         /\ acks' = Acknowledged(plan)
  /\ UNCHANGED <<dispatcherVars, notices, proposals, commands>>

(* _begin_next_task.                                                        *)
BeginNextTask(f, t) ==
  /\ fleet[f].active = None
  /\ t \in fleet[f].queue
  /\ fleet' = [fleet EXCEPT ![f].active = t, ![f].queue = @ \ {t}, ![f].executed = @ \cup {t}]
  /\ UNCHANGED <<dispatcherVars, topicVars>>

(* _task_finished.                                                          *)
TaskFinished(f) ==
  /\ fleet[f].active # None
  /\ fleet' = [fleet EXCEPT ![f].active = None]
  /\ UNCHANGED <<dispatcherVars, topicVars>>

-----------------------------------------------------------------------------
Next ==
  \/ \E t \in Tasks : Submit(t) \/ CancelTask(t)
  \/ Announce \/ Conclude \/ PublishLingering
  \/ \E p \in proposals : ReceiveResponse(p)
  \/ \E id \in acks : HandleAck(id)
  \/ \E f \in Fleets :
       \/ BidNotice(f) \/ BidCalculated(f) \/ DispatchCommand(f)
       \/ Replanned(f) \/ ReplanFailed(f)
       \/ \E t \in Tasks : BeginNextTask(f, t)
       \/ TaskFinished(f)

Spec == Init /\ [][Next]_vars

(* Timers fire, messages arrive and plans get made.                         *)
Fairness ==
  /\ WF_vars(Announce) /\ WF_vars(Conclude)
  /\ WF_vars(\E id \in acks : HandleAck(id))
  /\ \A f \in Fleets : WF_vars(DispatchCommand(f)) /\ WF_vars(Replanned(f))

FairSpec == Spec /\ Fairness

-----------------------------------------------------------------------------
(* Types and properties *)

Status == {"uninitialized", "queued", "selected", "dispatched", "failed_to_assign",
           "canceled_in_flight"}
Ids == 1..(next_command - 1)
Commands == [id : Ids, task : Tasks, fleet : Fleets, type : {"award", "remove"}]
Plan == [task : Tasks, plan : SUBSET Tasks]
Replan ==
  [tasks : SUBSET Tasks, last_bid : Tasks \cup {None}, task : Tasks, id : Ids] \cup
  [tasks : SUBSET Tasks, last_bid : Tasks \cup {None}, task : {None}, id : {0}]
FleetState ==
  [queue : SUBSET Tasks, active : Tasks \cup {None}, executed : SUBSET Tasks, bids : SUBSET Plan,
   calculating : Plan \cup {NoPlan}, unassigned : SUBSET Tasks, last_bid : Tasks \cup {None},
   rejected : SUBSET Tasks, replans : Seq(Replan)]

(* Every variable has its type, and every command and plan the number of a  *)
(* command that was sent.                                                   *)
TypeOK ==
  /\ status \in [Tasks -> Status]
  /\ assignment \in [Tasks -> Fleets \cup {None}]
  /\ open_bids \in Seq([task : Tasks, fleets : SUBSET Fleets])
  /\ bidding \in BOOLEAN
  /\ lingering \subseteq Commands
  /\ next_command \in Nat \ {0}
  /\ announced \subseteq Tasks
  /\ notices \in [Fleets -> Seq(Tasks)]
  /\ proposals \subseteq [task : Tasks, fleet : Fleets]
  /\ commands \in [Fleets -> Seq(Commands)]
  /\ acks \subseteq Ids
  /\ fleet \in [Fleets -> FleetState]

Has(f) == fleet[f].queue \cup fleet[f].unassigned \cup fleet[f].executed

(* No task is with two fleets, whatever they bid and however often they are *)
(* sent its award.                                                          *)
OneFleetPerTask == \A f, g \in Fleets : f # g => Has(f) \cap Has(g) = {}

(* A plan that was made before a task began or was removed does not bring   *)
(* it back into the queue, to be done a second time.                        *)
NothingIsDoneTwice == \A f \in Fleets : fleet[f].queue \cap fleet[f].executed = {}

(* A task that counts as dispatched is with the fleet it was awarded to,    *)
(* unless that fleet could not plan for it: plans that are made side by side *)
(* do not lose a task.                                                      *)
DispatchedTasksAreKept ==
  \A t \in Tasks : status[t] = "dispatched" =>
    t \in Has(assignment[t]) \cup fleet[assignment[t]].rejected

(* A task counts as dispatched only if its fleet accepted it.               *)
DispatchedTasksAreAccepted ==
  \A t \in Tasks : status[t] = "dispatched" => t \notin fleet[assignment[t]].rejected

(* A task fails only after the fleets were asked for it ("No fleet adapters *)
(* offered a bid for task").                                                *)
FailsOnlyAfterAuction == \A t \in Tasks : status[t] = "failed_to_assign" => t \in announced

(* A task that was cancelled is not in the queue of a fleet once the fleet  *)
(* has acknowledged its removal.                                            *)
RemovedTasksStayAway ==
  \A t \in Tasks :
    (status[t] = "canceled_in_flight" /\ \A c \in lingering : c.task # t)
      => \A f \in Fleets : t \notin fleet[f].queue

(* Every auction ends: a submitted task is dispatched, fails or is          *)
(* cancelled.                                                               *)
EveryAuctionEnds ==
  \A t \in Tasks : status[t] \in {"queued", "selected"} ~> status[t] \notin {"queued", "selected"}
=============================================================================
