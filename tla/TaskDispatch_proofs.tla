------------------------ MODULE TaskDispatch_proofs -------------------------
(***************************************************************************)
(* Proofs that the dispatch of tasks keeps its types, that no task is ever  *)
(* with two fleets, and that no plan brings back a task that began or was   *)
(* removed, for any tasks and fleets, whatever gets cancelled and however   *)
(* often commands are sent again; and, when awards are acknowledged before  *)
(* the auctioneer's timer fires again, that a fleet keeps the tasks that    *)
(* were dispatched to it.                                                   *)
(***************************************************************************)
EXTENDS TaskDispatch, FiniteSetTheorems, SequenceTheorems, TLAPS

(* A task that is selected was awarded to a fleet.                          *)
SelectedHasFleet == \A t \in Tasks : status[t] = "selected" => assignment[t] \in Fleets

TypeInv == TypeOK /\ IsFiniteSet(lingering) /\ SelectedHasFleet

(* The tasks that were awarded to a fleet, and the commands that say so.    *)
Mine(f) == {t \in Tasks : assignment[t] = f}
Followed == {c \in Commands : assignment[c.task] = c.fleet}

(* A task is auctioned once, and not awarded before.                        *)
AuctionedOnce ==
  /\ \A t \in Tasks : status[t] = "uninitialized" =>
       assignment[t] = None /\ \A i \in 1..Len(open_bids) : open_bids[i].task # t
  /\ \A i \in 1..Len(open_bids) : assignment[open_bids[i].task] = None
  /\ \A i, j \in 1..Len(open_bids) : open_bids[i].task = open_bids[j].task => i = j

CommandsFollow == lingering \subseteq Followed /\ commands \in [Fleets -> Seq(Followed)]

(* A fleet has and plans for its own tasks only, but for the task it bids   *)
(* for, and plans for none that began or was removed.                       *)
OwnsOnly(f, fl) ==
  /\ fl.queue \cup fl.unassigned \cup fl.executed \subseteq Mine(f)
  /\ \A b \in fl.bids : b.plan \ {b.task} \subseteq Mine(f)
  /\ fl.calculating.plan \ {fl.calculating.task} \subseteq Mine(f)
  /\ \A i \in 1..Len(fl.replans) : fl.replans[i].tasks \subseteq Mine(f)

(* A fleet that owns only its own, and has nothing in its queue twice.      *)
Sound(f, fl) == OwnsOnly(f, fl) /\ fl.queue \cap fl.executed = {}

FleetsOwn == \A f \in Fleets : OwnsOnly(f, fleet[f])

DispatchInv ==
  /\ TypeInv /\ AuctionedOnce /\ CommandsFollow /\ FleetsOwn /\ NothingIsDoneTwice

-----------------------------------------------------------------------------
(* Types *)

(* What was typed stays typed when more commands are numbered.              *)
LEMMA IdsGrow ==
  ASSUME TypeInv, next_command' \in Nat \ {0}, next_command' >= next_command
  PROVE  /\ Ids \subseteq Ids'
         /\ Commands \subseteq Commands'
         /\ Seq(Commands) \subseteq Seq(Commands')
         /\ FleetState \subseteq FleetState'
<1>1. Ids \subseteq Ids'
  <2>1. next_command \in Nat
    BY DEF TypeInv, TypeOK
  <2>2. \A m, n \in Nat : n >= m => 1..(m - 1) \subseteq 1..(n - 1)
    OBVIOUS
  <2> QED BY <2>1, <2>2 DEF Ids
<1>2. Commands \subseteq Commands'
  BY <1>1 DEF Commands
<1>3. Replan \subseteq Replan'
  BY <1>1 DEF Replan
<1>4. Seq(Commands) \subseteq Seq(Commands') /\ Seq(Replan) \subseteq Seq(Replan')
  BY <1>2, <1>3, SeqMonotonic
<1>5. FleetState \subseteq FleetState'
  <2>1. SUFFICES ASSUME NEW fl \in FleetState PROVE fl \in FleetState'
    OBVIOUS
  <2>2. Plan' = Plan /\ NoPlan' = NoPlan
    BY DEF Plan, NoPlan
  <2> QED BY <1>4, <2>2 DEF FleetState
<1> QED BY <1>1, <1>2, <1>4, <1>5

(* A command that is sent gets the next number.                             *)
LEMMA SendKeepsTypes ==
  ASSUME TypeInv, NEW t \in Tasks, NEW f \in Fleets, NEW type \in {"award", "remove"},
         Send(Command(t, f, type))
  PROVE  /\ next_command' \in Nat \ {0} /\ next_command' >= next_command
         /\ lingering' \subseteq Commands' /\ IsFiniteSet(lingering')
         /\ commands' \in [Fleets -> Seq(Commands')]
         /\ Command(t, f, type) \in Commands'
<1> DEFINE c == Command(t, f, type)
<1>1. next_command' \in Nat \ {0} /\ next_command' >= next_command
  BY DEF TypeInv, TypeOK, Send
<1>2. c \in Commands'
  BY DEF TypeInv, TypeOK, Send, Command, Commands, Ids
<1>3. lingering' \subseteq Commands'
  BY <1>1, <1>2, IdsGrow DEF Send, TypeInv, TypeOK
<1>4. IsFiniteSet(lingering')
  BY FS_AddElement DEF Send, TypeInv
<1>5. commands' \in [Fleets -> Seq(Commands')]
  <2>1. \A g \in Fleets : commands[g] \in Seq(Commands')
    BY <1>1, IdsGrow DEF TypeInv, TypeOK
  <2>2. \A g \in Fleets : Append(commands[g], c) \in Seq(Commands')
    BY <1>2, <2>1, AppendProperties
  <2> HIDE DEF c
  <2> QED BY <2>2 DEF Send, c
<1> QED BY <1>1, <1>2, <1>3, <1>4, <1>5

(* A plan to make is added behind the others, and nothing else changes.     *)
LEMMA WithReplanTypes ==
  ASSUME TypeInv, NEW fl \in FleetState, NEW task, NEW id,
         (task \in Tasks /\ id \in Ids) \/ (task = None /\ id = 0)
  PROVE  LET new == WithReplan(fl, task, id)
         IN  /\ new \in FleetState
             /\ new.queue = fl.queue /\ new.executed = fl.executed
             /\ new.unassigned = fl.unassigned /\ new.bids = fl.bids
             /\ new.calculating = fl.calculating
             /\ \A i \in 1..Len(new.replans) :
                  new.replans[i].tasks = Expectations(fl) \/
                  (i \in 1..Len(fl.replans) /\ new.replans[i] = fl.replans[i])
<1> DEFINE r == [tasks |-> Expectations(fl), last_bid |-> fl.last_bid, task |-> task, id |-> id]
           new == WithReplan(fl, task, id)
<1>1. r \in Replan
  BY DEF FleetState, Replan, Expectations
<1>2. fl.replans \in Seq(Replan)
  BY DEF FleetState
<1>3. /\ Append(fl.replans, r) \in Seq(Replan)
      /\ Len(Append(fl.replans, r)) = Len(fl.replans) + 1
      /\ \A i \in 1..Len(fl.replans) : Append(fl.replans, r)[i] = fl.replans[i]
      /\ Append(fl.replans, r)[Len(fl.replans) + 1] = r
  BY <1>1, <1>2, AppendProperties
<1>4. new = [fl EXCEPT !.replans = Append(fl.replans, r)]
  BY DEF WithReplan
<1>5. r.tasks = Expectations(fl)
  OBVIOUS
<1> HIDE DEF r, new
<1>6. /\ new \in FleetState
      /\ new.queue = fl.queue /\ new.executed = fl.executed
      /\ new.unassigned = fl.unassigned /\ new.bids = fl.bids
      /\ new.calculating = fl.calculating /\ new.replans = Append(fl.replans, r)
  BY <1>3, <1>4 DEF FleetState
<1>7. ASSUME NEW i \in 1..Len(new.replans)
      PROVE  \/ new.replans[i].tasks = Expectations(fl)
             \/ i \in 1..Len(fl.replans) /\ new.replans[i] = fl.replans[i]
  <2>1. i \in 1..(Len(fl.replans) + 1) /\ Len(fl.replans) \in Nat
    BY <1>2, <1>3, <1>6, <1>7
  <2>2. CASE i = Len(fl.replans) + 1
    BY <1>3, <1>5, <1>6, <2>2
  <2>3. CASE i \in 1..Len(fl.replans)
    BY <1>3, <1>6, <2>1, <2>3
  <2> QED BY <2>1, <2>2, <2>3
<1> QED BY <1>6, <1>7 DEF new

(* The next notice, command or plan is taken off.                           *)
LEMMA TailOfTyped ==
  ASSUME NEW S, NEW Q \in [Fleets -> Seq(S)], NEW f \in Fleets, Q[f] # << >>
  PROVE  Head(Q[f]) \in S /\ [Q EXCEPT ![f] = Tail(@)] \in [Fleets -> Seq(S)]
<1>1. Head(Q[f]) \in S /\ Tail(Q[f]) \in Seq(S)
  BY HeadTailProperties
<1> QED BY <1>1

Bid == [task : Tasks, fleets : SUBSET Fleets]

-----------------------------------------------------------------------------
(* The steps of the dispatcher keep the types.                              *)

(* What is in front of the open bids.                                       *)
LEMMA FrontBid ==
  ASSUME TypeInv, open_bids # << >>
  PROVE  /\ open_bids \in Seq(Bid) /\ Tail(open_bids) \in Seq(Bid)
         /\ Head(open_bids) = open_bids[1] /\ 1 \in 1..Len(open_bids)
         /\ open_bids[1] \in Bid /\ Head(open_bids).task \in Tasks /\ Head(open_bids).fleets \subseteq Fleets
<1>1. open_bids \in Seq(Bid)
  BY DEF TypeInv, TypeOK, Bid
<1>2. Head(open_bids) \in Bid /\ Tail(open_bids) \in Seq(Bid)
  BY <1>1, HeadTailProperties
<1>3. Head(open_bids) = open_bids[1] /\ 1 \in 1..Len(open_bids)
  BY <1>1
<1> QED BY <1>1, <1>2, <1>3 DEF Bid

(* No step of the dispatcher or its auctioneer leaves the types.            *)
LEMMA DispatcherKeepsTypes ==
  ASSUME TypeInv,
         \/ \E t \in Tasks : Submit(t) \/ CancelTask(t)
         \/ Announce \/ Conclude \/ PublishLingering
         \/ \E p \in proposals : ReceiveResponse(p)
         \/ \E id \in acks : HandleAck(id)
  PROVE  TypeInv'
<1> USE DEF dispatcherVars, topicVars
<1>1. ASSUME NEW t \in Tasks, Submit(t) PROVE TypeInv'
  <2>1. [task |-> t, fleets |-> {}] \in [task : Tasks, fleets : SUBSET Fleets]
    OBVIOUS
  <2>2. open_bids' \in Seq([task : Tasks, fleets : SUBSET Fleets])
    BY <1>1, <2>1, AppendProperties DEF Submit, TypeInv, TypeOK
  <2>3. status' \in [Tasks -> Status] /\ SelectedHasFleet'
    BY <1>1 DEF Submit, TypeInv, TypeOK, Status, SelectedHasFleet
  <2> QED BY <1>1, <2>2, <2>3 DEF Submit, TypeInv, TypeOK, Commands, FleetState, Ids, Replan
<1>2. ASSUME NEW t \in Tasks, CancelTask(t) PROVE TypeInv'
  <2>1. status' \in [Tasks -> Status] /\ SelectedHasFleet'
    BY <1>2 DEF CancelTask, TypeInv, TypeOK, Status, SelectedHasFleet
  <2>2. CASE UNCHANGED <<lingering, next_command, commands>>
    BY <1>2, <2>1, <2>2 DEF CancelTask, TypeInv, TypeOK, Commands, FleetState, Ids, Replan
  <2>3. CASE status[t] = "selected" /\ Send(Command(t, assignment[t], "remove"))
    <3>1. assignment[t] \in Fleets
      BY <2>3 DEF TypeInv, SelectedHasFleet
    <3>2. /\ next_command' \in Nat \ {0} /\ next_command' >= next_command
          /\ lingering' \subseteq Commands' /\ IsFiniteSet(lingering')
          /\ commands' \in [Fleets -> Seq(Commands')]
      BY <2>3, <3>1, SendKeepsTypes
    <3>3. acks' \subseteq Ids' /\ fleet' \in [Fleets -> FleetState']
      BY <1>2, <3>2, IdsGrow DEF CancelTask, TypeInv, TypeOK
    <3> QED BY <1>2, <2>1, <3>2, <3>3 DEF CancelTask, TypeInv, TypeOK
  <2> QED BY <1>2, <2>2, <2>3 DEF CancelTask
<1>3. ASSUME Announce PROVE TypeInv'
  <2>1. Head(open_bids).task \in Tasks
    BY <1>3, FrontBid DEF Announce
  <2>2. notices' \in [Fleets -> Seq(Tasks)]
    BY <1>3, <2>1, AppendProperties DEF Announce, TypeInv, TypeOK
  <2> QED BY <1>3, <2>1, <2>2
        DEF Announce, TypeInv, TypeOK, SelectedHasFleet, Commands, FleetState, Ids, Replan
<1>4. ASSUME Conclude PROVE TypeInv'
  <2> DEFINE t == Head(open_bids).task
             fleets == Head(open_bids).fleets
  <2>1. t \in Tasks /\ fleets \subseteq Fleets
        /\ open_bids' \in Seq([task : Tasks, fleets : SUBSET Fleets])
    BY <1>4, FrontBid DEF Conclude, Bid
  <2>2. CASE UNCHANGED <<status, assignment, bidding, lingering, next_command, commands>>
    BY <1>4, <2>1, <2>2
      DEF Conclude, TypeInv, TypeOK, SelectedHasFleet, Commands, FleetState, Ids, Replan
  <2>3. CASE /\ status' = [status EXCEPT ![t] = "failed_to_assign"] /\ bidding' = FALSE
             /\ UNCHANGED <<assignment, lingering, next_command, commands>>
    <3>1. status' \in [Tasks -> Status] /\ SelectedHasFleet'
      BY <2>1, <2>3 DEF TypeInv, TypeOK, Status, SelectedHasFleet
    <3> QED BY <1>4, <2>1, <2>3, <3>1
          DEF Conclude, TypeInv, TypeOK, Commands, FleetState, Ids, Replan
  <2>4. ASSUME NEW f \in fleets, assignment' = [assignment EXCEPT ![t] = f],
               Send(Command(t, f, "award")), status' = [status EXCEPT ![t] = "selected"],
               UNCHANGED bidding
        PROVE  TypeInv'
    <3>1. status' \in [Tasks -> Status] /\ SelectedHasFleet'
          /\ assignment' \in [Tasks -> Fleets \cup {None}]
      BY <2>1, <2>4 DEF TypeInv, TypeOK, Status, SelectedHasFleet
    <3>2. /\ next_command' \in Nat \ {0} /\ next_command' >= next_command
          /\ lingering' \subseteq Commands' /\ IsFiniteSet(lingering')
          /\ commands' \in [Fleets -> Seq(Commands')]
      BY <2>1, <2>4, SendKeepsTypes
    <3>3. acks' \subseteq Ids' /\ fleet' \in [Fleets -> FleetState']
      BY <1>4, <3>2, IdsGrow DEF Conclude, TypeInv, TypeOK
    <3> QED BY <1>4, <2>1, <2>4, <3>1, <3>2, <3>3 DEF Conclude, TypeInv, TypeOK
  <2> QED BY <1>4, <2>2, <2>3, <2>4 DEF Conclude
<1>5. ASSUME PublishLingering PROVE TypeInv'
  <2>1. PICK order \in SetToSeqs(lingering) :
               commands' = [f \in Fleets |-> commands[f] \o order]
    BY <1>5 DEF PublishLingering
  <2>2. Cardinality(lingering) \in Nat
    BY FS_CardinalityType DEF TypeInv
  <2>3. order \in Seq(lingering)
    BY <2>1, <2>2 DEF SetToSeqs
  <2>4. order \in Seq(Commands)
    BY <2>3, SeqMonotonic DEF TypeInv, TypeOK
  <2>5. commands' \in [Fleets -> Seq(Commands)]
    BY <2>1, <2>4, ConcatProperties DEF TypeInv, TypeOK
  <2> QED BY <1>5, <2>5
        DEF PublishLingering, TypeInv, TypeOK, SelectedHasFleet, Commands, FleetState, Ids, Replan
<1>6. ASSUME NEW p \in proposals, ReceiveResponse(p) PROVE TypeInv'
  <2>1. open_bids \in Seq(Bid) /\ open_bids[1] \in Bid /\ 1 \in 1..Len(open_bids)
    BY <1>6, FrontBid DEF ReceiveResponse
  <2>2. p.fleet \in Fleets
    BY <1>6 DEF TypeInv, TypeOK
  <2>3. [open_bids[1] EXCEPT !.fleets = @ \cup {p.fleet}] \in Bid
    BY <2>1, <2>2 DEF Bid
  <2>4. [open_bids EXCEPT ![1] = [open_bids[1] EXCEPT !.fleets = @ \cup {p.fleet}]] \in Seq(Bid)
    BY <2>1, <2>3, ExceptSeq
  <2>5. open_bids' \in Seq(Bid)
    BY <1>6, <2>1, <2>4 DEF ReceiveResponse
  <2> QED BY <1>6, <2>5
        DEF Bid, ReceiveResponse, TypeInv, TypeOK, SelectedHasFleet, Commands, FleetState, Ids, Replan
<1>7. ASSUME NEW id \in acks, HandleAck(id) PROVE TypeInv'
  <2> DEFINE Typed == /\ status' \in [Tasks -> Status] /\ SelectedHasFleet'
                      /\ bidding' \in BOOLEAN /\ lingering' \subseteq lingering
  <2>1. Typed
    <3>1. CASE UNCHANGED <<status, bidding, lingering>>
      BY <1>7, <3>1 DEF HandleAck, TypeInv, TypeOK, SelectedHasFleet
    <3>2. ASSUME NEW c \in lingering, lingering' = lingering \ {c}, UNCHANGED <<status, bidding>>
          PROVE  Typed
      BY <1>7, <3>2 DEF HandleAck, TypeInv, TypeOK, SelectedHasFleet
    <3>3. ASSUME NEW c \in lingering, lingering' = lingering \ {c}, bidding' = FALSE,
                 status' = [status EXCEPT ![c.task] = IF @ = "selected" THEN "dispatched" ELSE @]
          PROVE  Typed
      <4>1. c.task \in Tasks
        BY <3>3 DEF TypeInv, TypeOK, Commands
      <4> QED BY <1>7, <3>3, <4>1 DEF HandleAck, TypeInv, TypeOK, Status, SelectedHasFleet
    <3> QED BY <1>7, <3>1, <3>2, <3>3 DEF HandleAck
  <2>2. IsFiniteSet(lingering')
    BY <2>1, FS_Subset DEF TypeInv
  <2> QED BY <1>7, <2>1, <2>2
        DEF HandleAck, TypeInv, TypeOK, Commands, FleetState, Ids, Replan
<1> QED BY <1>1, <1>2, <1>3, <1>4, <1>5, <1>6, <1>7

-----------------------------------------------------------------------------
(* The steps of a fleet keep the types.                                     *)

(* The state of the fleets and the topics are all that a fleet changes.     *)
LEMMA FleetStepTypes ==
  ASSUME TypeInv, UNCHANGED dispatcherVars,
         fleet' \in [Fleets -> FleetState], notices' \in [Fleets -> Seq(Tasks)],
         proposals' \subseteq [task : Tasks, fleet : Fleets],
         commands' \in [Fleets -> Seq(Commands)], acks' \subseteq Ids
  PROVE  TypeInv'
BY DEF TypeInv, TypeOK, SelectedHasFleet, dispatcherVars, Commands, FleetState, Ids, Replan

(* What an award makes of a fleet.                                          *)
LEMMA AwardTypes ==
  ASSUME TypeInv, NEW f \in Fleets, NEW c \in Commands, Award(f, c)
  PROVE  fleet' \in [Fleets -> FleetState] /\ acks' \subseteq Ids
<1> DEFINE fl == [fleet[f] EXCEPT !.last_bid = c.task]
<1>1. c.id \in Ids /\ c.task \in Tasks /\ acks \subseteq Ids
  BY DEF Commands, TypeInv, TypeOK
<1>2. fleet \in [Fleets -> FleetState] /\ fleet[f] \in FleetState
  BY DEF TypeInv, TypeOK
<1>3. fl \in FleetState
  BY <1>1, <1>2 DEF FleetState
<1> HIDE DEF fl
<1>4. CASE fleet' = [fleet EXCEPT ![f] = fl] /\ acks' = acks \cup {c.id}
  BY <1>1, <1>2, <1>3, <1>4
<1>5. ASSUME NEW b \in fl.bids, acks' = acks \cup {c.id},
             fleet' = [fleet EXCEPT ![f] = [fl EXCEPT !.bids = @ \ {b},
                         !.queue = b.plan, !.unassigned = {}]]
      PROVE  fleet' \in [Fleets -> FleetState] /\ acks' \subseteq Ids
  <2>1. [fl EXCEPT !.bids = @ \ {b}, !.queue = b.plan, !.unassigned = {}] \in FleetState
    BY <1>3, <1>5 DEF FleetState, Plan
  <2> QED BY <1>1, <1>2, <1>5, <2>1
<1>6. ASSUME NEW b \in fl.bids, UNCHANGED acks,
             fleet' = [fleet EXCEPT ![f] =
                WithReplan([fl EXCEPT !.bids = @ \ {b}, !.unassigned = @ \cup {c.task}],
                           c.task, c.id)]
      PROVE  fleet' \in [Fleets -> FleetState] /\ acks' \subseteq Ids
  <2> DEFINE new == [fl EXCEPT !.bids = @ \ {b}, !.unassigned = @ \cup {c.task}]
  <2>1. new \in FleetState
    BY <1>1, <1>3 DEF FleetState
  <2> HIDE DEF new
  <2>2. WithReplan(new, c.task, c.id) \in FleetState
    BY <1>1, <2>1, WithReplanTypes
  <2> QED BY <1>1, <1>2, <1>6, <2>2 DEF new
<1> QED BY <1>4, <1>5, <1>6 DEF Award, fl

(* What the removal of a task makes of a fleet.                             *)
LEMMA RemoveTaskTypes ==
  ASSUME TypeInv, NEW f \in Fleets, NEW c \in Commands, RemoveTask(f, c)
  PROVE  fleet' \in [Fleets -> FleetState] /\ acks' \subseteq Ids
<1> DEFINE fl == fleet[f]
           less == [fl EXCEPT !.bids = {b \in @ : b.task # c.task}]
           without == CancelledIfPresent(fl, c.task)
<1>1. c.id \in Ids /\ c.task \in Tasks /\ acks \subseteq Ids
  BY DEF Commands, TypeInv, TypeOK
<1>2. fleet \in [Fleets -> FleetState] /\ fl \in FleetState
  BY DEF TypeInv, TypeOK
<1>3. less \in FleetState
  BY <1>2 DEF FleetState
<1>4. without \in FleetState
  BY <1>1, <1>2 DEF FleetState, CancelledIfPresent
<1>5. WithReplan(without, None, 0) \in FleetState
  <2> HIDE DEF without
  <2> QED BY <1>4, WithReplanTypes
<1>6. acks' = acks \cup {c.id}
      /\ \E new \in {less, WithReplan(without, None, 0), fl} : fleet' = [fleet EXCEPT ![f] = new]
  BY DEF RemoveTask
<1> QED BY <1>1, <1>2, <1>3, <1>5, <1>6

(* No step of a fleet leaves the types.                                     *)
LEMMA FleetKeepsTypes ==
  ASSUME TypeInv, NEW f \in Fleets,
         \/ BidNotice(f) \/ BidCalculated(f) \/ DispatchCommand(f)
         \/ Replanned(f) \/ ReplanFailed(f)
         \/ \E t \in Tasks : BeginNextTask(f, t)
         \/ TaskFinished(f)
  PROVE  TypeInv'
<1>0. /\ fleet \in [Fleets -> FleetState] /\ fleet[f] \in FleetState
      /\ notices \in [Fleets -> Seq(Tasks)] /\ commands \in [Fleets -> Seq(Commands)]
      /\ proposals \subseteq [task : Tasks, fleet : Fleets] /\ acks \subseteq Ids
  BY DEF TypeInv, TypeOK
<1>1. CASE BidNotice(f)
  <2> DEFINE t == Head(notices[f])
             new == [fleet[f] EXCEPT !.calculating =
                       [task |-> t, plan |-> Expectations(fleet[f]) \cup {t}]]
  <2>1. t \in Tasks /\ notices' \in [Fleets -> Seq(Tasks)]
    BY <1>0, <1>1, TailOfTyped DEF BidNotice
  <2>2. new \in FleetState
    BY <1>0, <2>1 DEF FleetState, Expectations, Plan
  <2>3. fleet' = fleet \/ fleet' = [fleet EXCEPT ![f] = new]
    BY <1>0, <1>1 DEF BidNotice
  <2> HIDE DEF t, new
  <2>4. fleet' \in [Fleets -> FleetState]
    BY <1>0, <2>2, <2>3
  <2> QED BY <1>0, <1>1, <2>1, <2>4, FleetStepTypes DEF BidNotice
<1>2. CASE BidCalculated(f)
  <2> DEFINE done == [fleet[f] EXCEPT !.bids = @ \cup {fleet[f].calculating},
                                      !.calculating = NoPlan]
             none == [fleet[f] EXCEPT !.calculating = NoPlan]
  <2>1. fleet[f].calculating \in Plan
    BY <1>0, <1>2 DEF BidCalculated, FleetState
  <2>2. done \in FleetState /\ none \in FleetState
    BY <1>0, <2>1 DEF FleetState
  <2>3. \E new \in {done, none} : fleet' = [fleet EXCEPT ![f] = new]
    BY <1>0, <1>2 DEF BidCalculated
  <2> HIDE DEF done, none
  <2>4. fleet' \in [Fleets -> FleetState]
    BY <1>0, <2>2, <2>3
  <2>5. proposals' \subseteq [task : Tasks, fleet : Fleets]
    BY <1>0, <1>2, <2>1 DEF BidCalculated, Plan
  <2> QED BY <1>0, <1>2, <2>4, <2>5, FleetStepTypes DEF BidCalculated
<1>3. CASE DispatchCommand(f)
  <2> DEFINE c == Head(commands[f])
             less == [fleet[f] EXCEPT !.bids = {b \in @ : b.task # c.task}]
  <2>1. c \in Commands /\ commands' \in [Fleets -> Seq(Commands)]
    BY <1>0, <1>3, TailOfTyped DEF DispatchCommand
  <2>2. less \in FleetState
    BY <1>0 DEF FleetState
  <2>3. \/ fleet' = [fleet EXCEPT ![f] = less] /\ UNCHANGED acks
        \/ Award(f, c) \/ RemoveTask(f, c)
    BY <1>0, <1>3 DEF DispatchCommand
  <2> HIDE DEF c, less
  <2>4. fleet' \in [Fleets -> FleetState] /\ acks' \subseteq Ids
    BY <1>0, <2>1, <2>2, <2>3, AwardTypes, RemoveTaskTypes
  <2> QED BY <1>0, <1>3, <2>1, <2>4, FleetStepTypes DEF DispatchCommand
<1>4. CASE Replanned(f) \/ ReplanFailed(f)
  <2> DEFINE plan == Head(fleet[f].replans)
             fl == [fleet[f] EXCEPT !.replans = Tail(@)]
             taken == [fl EXCEPT !.queue = plan.tasks, !.unassigned = {}]
             failed == [fleet[f] EXCEPT !.replans = Tail(@), !.unassigned = @ \ {plan.task},
                                        !.rejected = @ \cup ({plan.task} \ {None})]
  <2>1. plan \in Replan /\ Tail(fleet[f].replans) \in Seq(Replan)
    BY <1>0, <1>4, HeadTailProperties DEF Replanned, ReplanFailed, FleetState
  <2>2. fl \in FleetState /\ fl.replans = Tail(fleet[f].replans)
    BY <1>0, <2>1 DEF FleetState
  <2>3. taken \in FleetState /\ failed \in FleetState
    <3> HIDE DEF fl
    <3>1. taken \in FleetState
      BY <2>1, <2>2 DEF FleetState, Replan
    <3>2. failed \in FleetState
      <4>1. plan.task \in Tasks \cup {None}
        BY <2>1 DEF Replan
      <4> HIDE DEF plan
      <4> QED BY <1>0, <2>1, <4>1 DEF FleetState
    <3> QED BY <3>1, <3>2
  <2>4. (plan.task \in Tasks /\ plan.id \in Ids) \/ (plan.task = None /\ plan.id = 0)
    BY <2>1 DEF Replan
  <2> HIDE DEF plan, fl
  <2>5. WithReplan(fl, plan.task, plan.id) \in FleetState
    BY <2>2, <2>4, WithReplanTypes
  <2>6. \E new \in {WithReplan(fl, plan.task, plan.id), taken, failed} :
          fleet' = [fleet EXCEPT ![f] = new]
    BY <1>0, <1>4 DEF Replanned, ReplanFailed, plan, fl
  <2>7. fleet' \in [Fleets -> FleetState]
    BY <1>0, <2>3, <2>5, <2>6
  <2>8. UNCHANGED acks \/ acks' = Acknowledged(plan)
    BY <1>4 DEF Replanned, ReplanFailed, plan
  <2>9. acks' \subseteq Ids
    BY <1>0, <2>8, <2>4 DEF Acknowledged
  <2> QED BY <1>0, <1>4, <2>7, <2>9, FleetStepTypes DEF Replanned, ReplanFailed
<1>5. ASSUME NEW t \in Tasks, BeginNextTask(f, t) PROVE TypeInv'
  <2>1. fleet' \in [Fleets -> FleetState]
    BY <1>0, <1>5, ZenonT(40) DEF BeginNextTask, FleetState
  <2> QED BY <1>0, <1>5, <2>1, FleetStepTypes DEF BeginNextTask, topicVars
<1>6. CASE TaskFinished(f)
  <2>1. fleet' \in [Fleets -> FleetState]
    BY <1>0, <1>6 DEF TaskFinished, FleetState
  <2> QED BY <1>0, <1>6, <2>1, FleetStepTypes DEF TaskFinished, topicVars
<1> QED BY <1>1, <1>2, <1>3, <1>4, <1>5, <1>6

-----------------------------------------------------------------------------
(* Type correctness *)

(* The types hold at the start.                                             *)
LEMMA InitTypes == Init => TypeInv
<1> SUFFICES ASSUME Init PROVE TypeInv
  OBVIOUS
<1>1. fleet \in [Fleets -> FleetState]
  BY DEF Init, FleetState, NoPlan
<1>2. commands \in [Fleets -> Seq(Commands)] /\ notices \in [Fleets -> Seq(Tasks)]
  BY DEF Init
<1>3. IsFiniteSet(lingering)
  BY FS_EmptySet DEF Init
<1>4. open_bids \in Seq([task : Tasks, fleets : SUBSET Fleets])
  BY DEF Init
<1>5. status \in [Tasks -> Status] /\ assignment \in [Tasks -> Fleets \cup {None}]
      /\ SelectedHasFleet
  BY DEF Init, Status, SelectedHasFleet
<1>6. /\ lingering \subseteq Commands /\ announced \subseteq Tasks /\ acks \subseteq Ids
      /\ proposals \subseteq [task : Tasks, fleet : Fleets]
  BY DEF Init
<1>7. next_command \in Nat \ {0}
  BY DEF Init
<1>8. bidding \in BOOLEAN
  BY Zenon DEF Init
<1> QED BY <1>1, <1>2, <1>3, <1>4, <1>5, <1>6, <1>7, <1>8 DEF TypeInv, TypeOK

(* Every step keeps the types.                                              *)
LEMMA NextTypes == TypeInv /\ [Next]_vars => TypeInv'
<1> SUFFICES ASSUME TypeInv, [Next]_vars PROVE TypeInv'
  OBVIOUS
<1>1. CASE UNCHANGED vars
  BY <1>1 DEF vars, dispatcherVars, topicVars, TypeInv, TypeOK, SelectedHasFleet, Commands,
              FleetState, Ids, Replan
<1>2. CASE Next
  BY <1>2, DispatcherKeepsTypes, FleetKeepsTypes DEF Next
<1> QED BY <1>1, <1>2

(* Every variable has its type, and every command and plan the number of a  *)
(* command that was sent.                                                   *)
THEOREM DispatchTypes == Spec => []TypeOK
<1>1. TypeInv => TypeOK
  BY DEF TypeInv
<1> QED BY <1>1, InitTypes, NextTypes, PTL DEF Spec

-----------------------------------------------------------------------------
(* Ownership *)

(* When the awards made so far stay, what fleets own stays theirs.          *)
LEMMA OwnsOnlyStays ==
  ASSUME NEW f \in Fleets, NEW fl, OwnsOnly(f, fl), Mine(f) \subseteq Mine(f)'
  PROVE  OwnsOnly(f, fl)'
BY DEF OwnsOnly

(* The front of the auctions is over.                                       *)
LEMMA TailOfAuctions ==
  ASSUME TypeInv, AuctionedOnce, open_bids # << >>, open_bids' = Tail(open_bids)
  PROVE  /\ \A i \in 1..Len(open_bids)' : i + 1 \in 1..Len(open_bids)
                                         /\ open_bids'[i] = open_bids[i + 1]
                                         /\ open_bids[i + 1].task # Head(open_bids).task
<1>1. open_bids \in Seq(Bid) /\ Head(open_bids) = open_bids[1] /\ 1 \in 1..Len(open_bids)
  BY FrontBid
<1>2. /\ Len(Tail(open_bids)) = Len(open_bids) - 1
      /\ \A i \in 1..Len(Tail(open_bids)) : Tail(open_bids)[i] = open_bids[i + 1]
  BY <1>1, HeadTailProperties
<1>3. \A i \in 1..(Len(open_bids) - 1) : i + 1 \in 1..Len(open_bids) /\ i + 1 # 1
  BY <1>1
<1> QED BY <1>1, <1>2, <1>3 DEF AuctionedOnce

(* Commands that follow the awards are sent.                                *)
LEMMA SendFollows ==
  ASSUME TypeInv, CommandsFollow, NEW c \in Followed', Followed \subseteq Followed', Send(c)
  PROVE  CommandsFollow'
<1>1. \A f \in Fleets : commands[f] \in Seq(Followed')
  BY SeqMonotonic DEF CommandsFollow
<1>2. \A f \in Fleets : Append(commands[f], c) \in Seq(Followed')
  BY <1>1, AppendProperties
<1> QED BY <1>2 DEF Send, CommandsFollow

(* While no task is awarded the tasks of the fleets stay the same.          *)
LEMMA SameAwards ==
  ASSUME DispatchInv, TypeInv', UNCHANGED <<assignment, fleet>>, next_command' >= next_command
  PROVE  /\ FleetsOwn' /\ NothingIsDoneTwice' /\ Followed \subseteq Followed'
         /\ Seq(Followed) \subseteq Seq(Followed')
<1>1. Followed \subseteq Followed'
  <2>1. Commands \subseteq Commands'
    BY IdsGrow DEF DispatchInv, TypeInv, TypeOK
  <2> QED BY <2>1 DEF Followed
<1>2. \A f \in Fleets : Mine(f)' = Mine(f)
  BY DEF Mine
<1>3. FleetsOwn'
  BY <1>2 DEF DispatchInv, FleetsOwn, OwnsOnly
<1> QED BY <1>1, <1>3, SeqMonotonic DEF DispatchInv, NothingIsDoneTwice

(* The dispatcher awards only auctioned tasks, each once, and its commands  *)
(* follow the awards.                                                       *)
LEMMA DispatcherKeepsOwnership ==
  ASSUME DispatchInv, TypeInv',
         \/ \E t \in Tasks : Submit(t) \/ CancelTask(t)
         \/ Announce \/ Conclude \/ PublishLingering
         \/ \E p \in proposals : ReceiveResponse(p)
         \/ \E id \in acks : HandleAck(id)
  PROVE  DispatchInv'
<1> DEFINE Same == UNCHANGED <<assignment, fleet>> /\ next_command' >= next_command
<1>0. /\ TypeInv /\ next_command \in Nat /\ open_bids \in Seq(Bid)
      /\ status \in [Tasks -> Status] /\ assignment \in [Tasks -> Fleets \cup {None}]
  BY DEF DispatchInv, TypeInv, TypeOK, Bid
<1>s. ASSUME Same
      PROVE  /\ FleetsOwn' /\ NothingIsDoneTwice' /\ Followed \subseteq Followed'
             /\ Seq(Followed) \subseteq Seq(Followed')
  BY <1>s, SameAwards
<1>c. ASSUME Same, UNCHANGED commands, lingering' \subseteq lingering PROVE CommandsFollow'
  BY <1>s, <1>c DEF DispatchInv, CommandsFollow
<1>a. ASSUME UNCHANGED <<assignment, open_bids>>,
             \A t \in Tasks : status'[t] = "uninitialized" => status[t] = "uninitialized"
      PROVE  AuctionedOnce'
  BY <1>a DEF DispatchInv, AuctionedOnce
<1>1. ASSUME NEW t \in Tasks, Submit(t) PROVE DispatchInv'
  <2> DEFINE b == [task |-> t, fleets |-> {}]
  <2>1. Same /\ UNCHANGED <<commands, lingering>>
    BY <1>0, <1>1 DEF Submit, topicVars
  <2>2. /\ Len(open_bids') = Len(open_bids) + 1 /\ open_bids'[Len(open_bids) + 1].task = t
        /\ \A i \in 1..Len(open_bids) : open_bids'[i] = open_bids[i]
    <3>1. b \in Bid /\ open_bids' = Append(open_bids, b) /\ b.task = t
      BY <1>1 DEF Submit, Bid
    <3> HIDE DEF b
    <3> QED BY <1>0, <3>1, AppendProperties
  <2>3. status[t] = "uninitialized" /\ status' = [status EXCEPT ![t] = "queued"]
    BY <1>1 DEF Submit
  <2>4. \A i \in 1..Len(open_bids') : i \in 1..Len(open_bids) \/ i = Len(open_bids) + 1
    BY <1>0, <2>2
  <2>5. AuctionedOnce'
    <3>1. /\ assignment[t] = None
          /\ \A i \in 1..Len(open_bids) : open_bids[i].task # t /\ assignment[open_bids[i].task] = None
      BY <2>3 DEF DispatchInv, AuctionedOnce
    <3>2. \A s \in Tasks : status'[s] = "uninitialized" => s # t /\ status[s] = "uninitialized"
      BY <1>0, <2>3
    <3>3. \A s \in Tasks : status'[s] = "uninitialized" =>
            assignment[s] = None /\ \A i \in 1..Len(open_bids') : open_bids'[i].task # s
      BY <2>2, <2>4, <3>2 DEF DispatchInv, AuctionedOnce
    <3>4. \A i \in 1..Len(open_bids') : assignment[open_bids'[i].task] = None
      BY <2>2, <2>4, <3>1
    <3>5. \A i, j \in 1..Len(open_bids') : open_bids'[i].task = open_bids'[j].task => i = j
      BY <2>2, <2>4, <3>1 DEF DispatchInv, AuctionedOnce
    <3> QED BY <2>1, <3>3, <3>4, <3>5 DEF AuctionedOnce
  <2> HIDE DEF Same
  <2> QED BY <1>s, <1>c, <2>1, <2>5 DEF DispatchInv
<1>2. ASSUME NEW t \in Tasks, CancelTask(t) PROVE DispatchInv'
  <2>1. Same /\ AuctionedOnce'
    BY <1>0, <1>2, <1>a DEF CancelTask, Send
  <2>2. CASE UNCHANGED <<lingering, next_command, commands>>
    BY <1>s, <1>c, <2>1, <2>2 DEF DispatchInv
  <2>3. CASE status[t] = "selected" /\ Send(Command(t, assignment[t], "remove"))
    <3>1. assignment[t] \in Fleets /\ UNCHANGED assignment
      BY <1>0, <1>2, <2>3 DEF TypeInv, SelectedHasFleet, CancelTask
    <3>2. Command(t, assignment[t], "remove") \in Followed'
      BY <1>0, <2>3, <3>1, SendKeepsTypes DEF Command, Followed
    <3>3. CommandsFollow'
      BY <1>0, <1>s, <2>1, <2>3, <3>2, SendFollows DEF DispatchInv
    <3> QED BY <1>s, <2>1, <3>3 DEF DispatchInv
  <2> QED BY <1>2, <2>2, <2>3 DEF CancelTask
<1>3. ASSUME Announce PROVE DispatchInv'
  <2>1. Same /\ AuctionedOnce' /\ UNCHANGED <<commands, lingering>>
    BY <1>0, <1>3, <1>a DEF Announce
  <2> QED BY <1>s, <1>c, <2>1 DEF DispatchInv
<1>4. ASSUME Conclude PROVE DispatchInv'
  <2> DEFINE t == Head(open_bids).task
             fleets == Head(open_bids).fleets
  <2>1. /\ open_bids # << >> /\ open_bids' = Tail(open_bids)
        /\ t \in Tasks /\ fleets \subseteq Fleets /\ UNCHANGED fleet
        /\ assignment[t] = None /\ status[t] # "uninitialized"
    BY <1>0, <1>4, FrontBid DEF Conclude, DispatchInv, AuctionedOnce
  <2>2. ASSUME \A s \in Tasks : s # t => assignment'[s] = assignment[s],
               \A s \in Tasks : status'[s] = "uninitialized" => status[s] = "uninitialized"
        PROVE  AuctionedOnce'
    <3>1. \A i \in 1..Len(open_bids') : /\ i + 1 \in 1..Len(open_bids)
                                       /\ open_bids'[i] = open_bids[i + 1]
                                       /\ open_bids[i + 1].task # t
      BY <1>0, <2>1, TailOfAuctions DEF DispatchInv
    <3>2. \A i \in 1..Len(open_bids) : open_bids[i].task \in Tasks
      <4>1. \A i \in 1..Len(open_bids) : open_bids[i] \in Bid
        BY <1>0
      <4> QED BY <4>1 DEF Bid
    <3>3. \A s \in Tasks : status'[s] = "uninitialized" =>
            assignment'[s] = None /\ \A i \in 1..Len(open_bids') : open_bids'[i].task # s
      BY <2>1, <2>2, <3>1 DEF DispatchInv, AuctionedOnce
    <3>4. \A i \in 1..Len(open_bids') : assignment'[open_bids'[i].task] = None
      BY <2>2, <3>1, <3>2 DEF DispatchInv, AuctionedOnce
    <3>5. \A i, j \in 1..Len(open_bids') : open_bids'[i].task = open_bids'[j].task => i = j
      <4> TAKE i, j \in 1..Len(open_bids')
      <4>1. open_bids'[i].task = open_bids'[j].task => i + 1 = j + 1
        <5>1. /\ i + 1 \in 1..Len(open_bids) /\ open_bids'[i] = open_bids[i + 1]
              /\ j + 1 \in 1..Len(open_bids) /\ open_bids'[j] = open_bids[j + 1]
          BY <3>1
        <5>2. \A m, n \in 1..Len(open_bids) : open_bids[m].task = open_bids[n].task => m = n
          BY DEF DispatchInv, AuctionedOnce
        <5> QED BY <5>1, <5>2
      <4> QED BY <4>1
    <3> QED BY <3>3, <3>4, <3>5 DEF AuctionedOnce
  <2>3. CASE UNCHANGED <<status, assignment, lingering, next_command, commands>>
    <3>1. Same
      BY <1>0, <2>1, <2>3
    <3> QED BY <1>s, <1>c, <2>2, <2>3, <3>1 DEF DispatchInv
  <2>4. CASE /\ status' = [status EXCEPT ![t] = "failed_to_assign"]
             /\ UNCHANGED <<assignment, lingering, next_command, commands>>
    <3>1. Same
      BY <1>0, <2>1, <2>4
    <3>2. \A s \in Tasks : status'[s] = "uninitialized" => status[s] = "uninitialized"
      BY <1>0, <2>1, <2>4
    <3> QED BY <1>s, <1>c, <2>2, <2>4, <3>1, <3>2 DEF DispatchInv
  <2>5. ASSUME NEW f \in fleets, assignment' = [assignment EXCEPT ![t] = f],
               Send(Command(t, f, "award")), status' = [status EXCEPT ![t] = "selected"]
        PROVE  DispatchInv'
    <3>1. \A s \in Tasks : status'[s] = "uninitialized" => status[s] = "uninitialized"
      BY <1>0, <2>1, <2>5
    <3>2. AuctionedOnce'
      BY <1>0, <2>1, <2>2, <2>5, <3>1
    <3>3. \A g \in Fleets : Mine(g) \subseteq Mine(g)'
      <4> SUFFICES ASSUME NEW g \in Fleets, NEW s \in Tasks, assignment[s] = g
                   PROVE  assignment'[s] = g
        BY DEF Mine
      <4>1. s # t
        BY <2>1, DispatchAssumption
      <4> QED BY <1>0, <2>5, <4>1
    <3>4. FleetsOwn' /\ NothingIsDoneTwice'
      BY <2>1, <3>3, OwnsOnlyStays DEF DispatchInv, FleetsOwn, NothingIsDoneTwice, OwnsOnly
    <3>5. Commands \subseteq Commands'
      <4>1. next_command' \in Nat \ {0} /\ next_command' >= next_command
        BY <1>0, <2>5 DEF Send
      <4> QED BY <1>0, <4>1, IdsGrow
    <3>6. Followed \subseteq Followed'
      <4> SUFFICES ASSUME NEW c \in Commands, assignment[c.task] = c.fleet
                   PROVE  assignment'[c.task] = c.fleet
        BY <3>5 DEF Followed
      <4>1. c.task \in Tasks /\ c.fleet \in Fleets
        BY DEF Commands
      <4>2. c.task # t
        BY <2>1, <4>1, DispatchAssumption
      <4> QED BY <1>0, <2>5, <4>1, <4>2
    <3>7. Command(t, f, "award") \in Followed'
      BY <1>0, <2>1, <2>5, SendKeepsTypes DEF Command, Followed
    <3>8. CommandsFollow'
      BY <1>0, <2>5, <3>6, <3>7, SendFollows DEF DispatchInv
    <3> QED BY <3>2, <3>4, <3>8 DEF DispatchInv
  <2> QED BY <1>4, <2>3, <2>4, <2>5 DEF Conclude
<1>5. ASSUME PublishLingering PROVE DispatchInv'
  <2>1. Same /\ AuctionedOnce' /\ UNCHANGED <<lingering, next_command>>
    BY <1>0, <1>5, <1>a DEF PublishLingering, dispatcherVars
  <2>2. PICK order \in SetToSeqs(lingering) :
               commands' = [f \in Fleets |-> commands[f] \o order]
    BY <1>5 DEF PublishLingering
  <2>3. Cardinality(lingering) \in Nat
    BY <1>0, FS_CardinalityType DEF TypeInv
  <2>4. order \in Seq(lingering)
    BY <2>2, <2>3 DEF SetToSeqs
  <2>5. order \in Seq(Followed)
    BY <2>4, SeqMonotonic DEF DispatchInv, CommandsFollow
  <2>6. commands' \in [Fleets -> Seq(Followed)]
    BY <2>2, <2>5, ConcatProperties DEF DispatchInv, CommandsFollow
  <2>7. CommandsFollow'
    BY <1>s, <2>1, <2>6 DEF DispatchInv, CommandsFollow
  <2> QED BY <1>s, <2>1, <2>7 DEF DispatchInv
<1>6. ASSUME NEW p \in proposals, ReceiveResponse(p) PROVE DispatchInv'
  <2>1. Same /\ UNCHANGED <<commands, lingering, status, assignment>>
    BY <1>0, <1>6 DEF ReceiveResponse
  <2>2. Len(open_bids') = Len(open_bids)
        /\ \A i \in 1..Len(open_bids) : open_bids'[i].task = open_bids[i].task
    <3>1. \A i \in 1..Len(open_bids) : open_bids[i] \in Bid
      BY <1>0
    <3> QED BY <1>0, <1>6, <3>1 DEF ReceiveResponse, Bid
  <2>3. AuctionedOnce'
    BY <2>1, <2>2 DEF DispatchInv, AuctionedOnce
  <2> QED BY <1>s, <1>c, <2>1, <2>3 DEF DispatchInv
<1>7. ASSUME NEW id \in acks, HandleAck(id) PROVE DispatchInv'
  <2>1. Same /\ UNCHANGED commands /\ lingering' \subseteq lingering
    BY <1>0, <1>7 DEF HandleAck
  <2>2. \A t \in Tasks : status'[t] = "uninitialized" => status[t] = "uninitialized"
    BY <1>0, <1>7 DEF HandleAck
  <2>3. AuctionedOnce'
    BY <1>7, <1>a, <2>2 DEF HandleAck
  <2> QED BY <1>s, <1>c, <2>1, <2>3 DEF DispatchInv
<1> QED BY <1>1, <1>2, <1>3, <1>4, <1>5, <1>6, <1>7

(* A plan to make again holds only the tasks of its fleet.                  *)
LEMMA WithReplanIsSound ==
  ASSUME TypeInv, NEW f \in Fleets, NEW fl \in FleetState, Sound(f, fl), NEW task, NEW id,
         (task \in Tasks /\ id \in Ids) \/ (task = None /\ id = 0)
  PROVE  Sound(f, WithReplan(fl, task, id))
<1> DEFINE new == WithReplan(fl, task, id)
<1>1. /\ new.queue = fl.queue /\ new.executed = fl.executed
      /\ new.unassigned = fl.unassigned /\ new.bids = fl.bids
      /\ new.calculating = fl.calculating
      /\ \A i \in 1..Len(new.replans) :
           new.replans[i].tasks = Expectations(fl) \/
           (i \in 1..Len(fl.replans) /\ new.replans[i] = fl.replans[i])
  BY WithReplanTypes
<1> HIDE DEF new
<1>2. \A i \in 1..Len(new.replans) : new.replans[i].tasks \subseteq Mine(f)
  BY <1>1 DEF Sound, OwnsOnly, Expectations
<1> QED BY <1>1, <1>2 DEF Sound, OwnsOnly, new

(* A step of one fleet keeps ownership when that fleet's state stays sound. *)
LEMMA FleetStepOwnership ==
  ASSUME DispatchInv, TypeInv', UNCHANGED dispatcherVars, commands' \in [Fleets -> Seq(Followed)],
         NEW f \in Fleets, NEW new, Sound(f, new), fleet' = [fleet EXCEPT ![f] = new]
  PROVE  DispatchInv'
<1>1. AuctionedOnce'
  BY DEF dispatcherVars, DispatchInv, AuctionedOnce
<1>2. CommandsFollow'
  BY DEF dispatcherVars, DispatchInv, CommandsFollow, Followed, Commands, Ids
<1>3. \A g \in Fleets : Mine(g)' = Mine(g)
  BY DEF dispatcherVars, Mine
<1>4. \A g \in Fleets : fleet'[g] = IF g = f THEN new ELSE fleet[g]
  BY DEF DispatchInv, TypeInv, TypeOK
<1>5. FleetsOwn'
  BY <1>3, <1>4 DEF DispatchInv, FleetsOwn, OwnsOnly, Sound
<1>6. NothingIsDoneTwice'
  BY <1>4 DEF DispatchInv, NothingIsDoneTwice, Sound
<1> QED BY <1>1, <1>2, <1>5, <1>6 DEF DispatchInv

(* An award takes over a plan with the task that is now the fleet's own.    *)
LEMMA AwardIsSound ==
  ASSUME DispatchInv, NEW f \in Fleets, NEW c \in Followed, c.fleet = f, Award(f, c)
  PROVE  \E new : Sound(f, new) /\ fleet' = [fleet EXCEPT ![f] = new]
<1> DEFINE fl == [fleet[f] EXCEPT !.last_bid = c.task]
<1>1. /\ c.id \in Ids /\ c.task \in Mine(f) /\ c.task \in Tasks /\ TypeInv
      /\ fleet[f] \in FleetState /\ Sound(f, fleet[f])
  BY DEF Followed, Commands, Mine, DispatchInv, TypeInv, TypeOK, FleetsOwn, NothingIsDoneTwice, Sound
<1>2. fl \in FleetState
  BY <1>1 DEF FleetState
<1>3. Sound(f, fl)
  BY <1>1 DEF FleetState, Sound, OwnsOnly
<1> HIDE DEF fl
<1>4. CASE fleet' = [fleet EXCEPT ![f] = fl]
  BY <1>3, <1>4
<1>5. ASSUME NEW b \in fl.bids, b.task = c.task, Valid(fl, b.plan),
             fleet' = [fleet EXCEPT ![f] = [fl EXCEPT !.bids = @ \ {b},
                         !.queue = b.plan, !.unassigned = {}]]
      PROVE  \E new : Sound(f, new) /\ fleet' = [fleet EXCEPT ![f] = new]
  <2> DEFINE new == [fl EXCEPT !.bids = @ \ {b}, !.queue = b.plan, !.unassigned = {}]
  <2>1. /\ new.queue = b.plan /\ new.unassigned = {} /\ new.executed = fl.executed
        /\ new.bids \subseteq fl.bids /\ new.calculating = fl.calculating
        /\ new.replans = fl.replans
    BY <1>2 DEF FleetState
  <2>2. b.plan \subseteq Mine(f)
    BY <1>1, <1>3, <1>5 DEF Sound, OwnsOnly
  <2> HIDE DEF new
  <2>3. Sound(f, new)
    BY <1>3, <1>5, <2>1, <2>2 DEF Sound, OwnsOnly, Valid
  <2> QED BY <1>5, <2>3 DEF new
<1>6. ASSUME NEW b \in fl.bids,
             fleet' = [fleet EXCEPT ![f] =
                WithReplan([fl EXCEPT !.bids = @ \ {b}, !.unassigned = @ \cup {c.task}],
                           c.task, c.id)]
      PROVE  \E new : Sound(f, new) /\ fleet' = [fleet EXCEPT ![f] = new]
  <2> DEFINE new == [fl EXCEPT !.bids = @ \ {b}, !.unassigned = @ \cup {c.task}]
  <2>1. /\ new \in FleetState
        /\ new.queue = fl.queue /\ new.unassigned = fl.unassigned \cup {c.task}
        /\ new.executed = fl.executed /\ new.bids \subseteq fl.bids
        /\ new.calculating = fl.calculating /\ new.replans = fl.replans
    BY <1>1, <1>2 DEF FleetState
  <2> HIDE DEF new
  <2>2. Sound(f, new)
    BY <1>1, <1>3, <2>1 DEF Sound, OwnsOnly
  <2>3. Sound(f, WithReplan(new, c.task, c.id))
    BY <1>1, <2>1, <2>2, WithReplanIsSound
  <2> QED BY <1>6, <2>3 DEF new
<1> QED BY <1>4, <1>5, <1>6 DEF Award, fl

(* Removing a task leaves the fleet with its own tasks only.                *)
LEMMA RemoveTaskIsSound ==
  ASSUME DispatchInv, NEW f \in Fleets, NEW c \in Followed, c.fleet = f, RemoveTask(f, c)
  PROVE  \E new : Sound(f, new) /\ fleet' = [fleet EXCEPT ![f] = new]
<1> DEFINE fl == fleet[f]
           less == [fl EXCEPT !.bids = {b \in @ : b.task # c.task}]
           without == CancelledIfPresent(fl, c.task)
<1>1. c.task \in Mine(f) /\ c.task \in Tasks /\ TypeInv /\ fl \in FleetState /\ Sound(f, fl)
  BY DEF Followed, Commands, Mine, DispatchInv, TypeInv, TypeOK, FleetsOwn, NothingIsDoneTwice, Sound
<1>2. Sound(f, less)
  <2>1. /\ less.queue = fl.queue /\ less.unassigned = fl.unassigned
        /\ less.executed = fl.executed /\ less.bids \subseteq fl.bids
        /\ less.calculating = fl.calculating /\ less.replans = fl.replans
    BY <1>1 DEF FleetState
  <2> HIDE DEF less
  <2> QED BY <1>1, <2>1 DEF Sound, OwnsOnly
<1>3. without \in FleetState /\ Sound(f, without)
  <2>1. /\ without \in FleetState
        /\ without.queue = fl.queue \ {c.task} /\ without.unassigned = fl.unassigned
        /\ without.executed = fl.executed \cup {c.task} /\ without.bids = fl.bids
        /\ without.calculating = fl.calculating /\ without.replans = fl.replans
    BY <1>1, ZenonT(40) DEF FleetState, CancelledIfPresent
  <2> HIDE DEF without
  <2> QED BY <1>1, <2>1 DEF Sound, OwnsOnly
<1>4. Sound(f, WithReplan(without, None, 0))
  <2> HIDE DEF without
  <2> QED BY <1>1, <1>3, WithReplanIsSound
<1>5. \E new \in {less, WithReplan(without, None, 0), fl} : fleet' = [fleet EXCEPT ![f] = new]
  BY DEF RemoveTask
<1> HIDE DEF fl, less, without
<1> QED BY <1>1, <1>2, <1>4, <1>5

(* No step of a fleet gives it a task that was not awarded to it.           *)
LEMMA FleetKeepsOwnership ==
  ASSUME DispatchInv, TypeInv', NEW f \in Fleets,
         \/ BidNotice(f) \/ BidCalculated(f) \/ DispatchCommand(f)
         \/ Replanned(f) \/ ReplanFailed(f)
         \/ \E t \in Tasks : BeginNextTask(f, t)
         \/ TaskFinished(f)
  PROVE  DispatchInv'
<1> DEFINE fl == fleet[f]
           Moved == \E new : Sound(f, new) /\ fleet' = [fleet EXCEPT ![f] = new]
<1>0. /\ TypeInv /\ fleet \in [Fleets -> FleetState] /\ fl \in FleetState /\ Sound(f, fl)
      /\ notices \in [Fleets -> Seq(Tasks)] /\ commands \in [Fleets -> Seq(Followed)]
  BY DEF DispatchInv, TypeInv, TypeOK, FleetsOwn, NothingIsDoneTwice, Sound, CommandsFollow
<1>s. ASSUME Moved, UNCHANGED <<dispatcherVars, commands>> PROVE DispatchInv'
  BY <1>0, <1>s, FleetStepOwnership
<1>1. CASE BidNotice(f)
  <2> DEFINE t == Head(notices[f])
             plan == Expectations(fl) \cup {t}
             new == [fl EXCEPT !.calculating = [task |-> t, plan |-> plan]]
  <2>1. new.queue = fl.queue /\ new.unassigned = fl.unassigned /\ new.executed = fl.executed
        /\ new.bids = fl.bids /\ new.replans = fl.replans
        /\ new.calculating = [task |-> t, plan |-> plan]
    BY <1>0 DEF FleetState
  <2>2. plan \ {t} \subseteq Mine(f)
    BY <1>0 DEF Expectations, Sound, OwnsOnly
  <2>3. fleet' = [fleet EXCEPT ![f] = fl] \/ fleet' = [fleet EXCEPT ![f] = new]
    BY <1>0, <1>1 DEF BidNotice
  <2> HIDE DEF plan, new
  <2>4. Sound(f, new)
    BY <1>0, <2>1, <2>2 DEF Sound, OwnsOnly
  <2> HIDE DEF fl
  <2>5. Moved
    BY <1>0, <2>3, <2>4
  <2> QED BY <1>1, <1>s, <2>5 DEF BidNotice
<1>2. CASE BidCalculated(f)
  <2> DEFINE done == [fl EXCEPT !.bids = @ \cup {fl.calculating}, !.calculating = NoPlan]
             none == [fl EXCEPT !.calculating = NoPlan]
  <2>1. /\ done.queue = fl.queue /\ done.unassigned = fl.unassigned /\ done.executed = fl.executed
        /\ done.bids = fl.bids \cup {fl.calculating} /\ done.replans = fl.replans
        /\ done.calculating = NoPlan
        /\ none.queue = fl.queue /\ none.unassigned = fl.unassigned /\ none.executed = fl.executed
        /\ none.bids = fl.bids /\ none.replans = fl.replans /\ none.calculating = NoPlan
    BY <1>0 DEF FleetState
  <2>2. \E new \in {done, none} : fleet' = [fleet EXCEPT ![f] = new]
    BY <1>0, <1>2 DEF BidCalculated
  <2>3. NoPlan.plan \ {NoPlan.task} \subseteq Mine(f)
    BY DEF NoPlan
  <2> HIDE DEF done, none
  <2>4. Sound(f, done) /\ Sound(f, none)
    BY <1>0, <2>1, <2>3 DEF Sound, OwnsOnly
  <2>5. Moved
    BY <2>2, <2>4
  <2> QED BY <1>2, <1>s, <2>5 DEF BidCalculated
<1>3. CASE DispatchCommand(f)
  <2> DEFINE c == Head(commands[f])
             less == [fl EXCEPT !.bids = {b \in @ : b.task # c.task}]
  <2>1. c \in Followed /\ commands' \in [Fleets -> Seq(Followed)]
    BY <1>0, <1>3, TailOfTyped DEF DispatchCommand
  <2>2. /\ less.queue = fl.queue /\ less.unassigned = fl.unassigned
        /\ less.executed = fl.executed /\ less.bids \subseteq fl.bids
        /\ less.calculating = fl.calculating /\ less.replans = fl.replans
    BY <1>0 DEF FleetState
  <2>3. \/ fleet' = [fleet EXCEPT ![f] = less]
        \/ c.fleet = f /\ (Award(f, c) \/ RemoveTask(f, c))
    BY <1>0, <1>3 DEF DispatchCommand, ForThisFleet
  <2> HIDE DEF c, less
  <2>4. Sound(f, less)
    BY <1>0, <2>2 DEF Sound, OwnsOnly
  <2>5. Moved
    BY <2>1, <2>3, <2>4, AwardIsSound, RemoveTaskIsSound
  <2> QED BY <1>3, <2>1, <2>5, FleetStepOwnership DEF DispatchCommand
<1>4. CASE Replanned(f) \/ ReplanFailed(f)
  <2> DEFINE plan == Head(fl.replans)
             rest == [fl EXCEPT !.replans = Tail(@)]
             taken == [rest EXCEPT !.queue = plan.tasks, !.unassigned = {}]
             failed == [fl EXCEPT !.replans = Tail(@), !.unassigned = @ \ {plan.task},
                                  !.rejected = @ \cup ({plan.task} \ {None})]
  <2>1. fl.replans \in Seq(Replan) /\ fl.replans # << >>
    BY <1>0, <1>4 DEF Replanned, ReplanFailed, FleetState
  <2>2. /\ plan \in Replan /\ Tail(fl.replans) \in Seq(Replan)
        /\ plan = fl.replans[1] /\ 1 \in 1..Len(fl.replans)
        /\ \A i \in 1..Len(Tail(fl.replans)) :
             i + 1 \in 1..Len(fl.replans) /\ Tail(fl.replans)[i] = fl.replans[i + 1]
    BY <2>1, HeadTailProperties
  <2>3. (plan.task \in Tasks /\ plan.id \in Ids) \/ (plan.task = None /\ plan.id = 0)
    BY <2>2 DEF Replan
  <2>4. plan.tasks \subseteq Mine(f)
    BY <1>0, <2>2 DEF Sound, OwnsOnly
  <2>5. /\ rest \in FleetState /\ rest.queue = fl.queue /\ rest.unassigned = fl.unassigned
        /\ rest.executed = fl.executed /\ rest.bids = fl.bids
        /\ rest.calculating = fl.calculating /\ rest.replans = Tail(fl.replans)
    BY <1>0, <2>2 DEF FleetState
  <2>6. /\ failed.queue = fl.queue /\ failed.unassigned \subseteq fl.unassigned
        /\ failed.executed = fl.executed /\ failed.bids = fl.bids
        /\ failed.calculating = fl.calculating /\ failed.replans = Tail(fl.replans)
    BY <1>0 DEF FleetState
  <2> HIDE DEF plan, rest, failed
  <2>7. Sound(f, rest) /\ Sound(f, failed)
    BY <1>0, <2>2, <2>5, <2>6 DEF Sound, OwnsOnly
  <2>8. /\ taken.queue = plan.tasks /\ taken.unassigned = {} /\ taken.executed = rest.executed
        /\ taken.bids = rest.bids /\ taken.calculating = rest.calculating
        /\ taken.replans = rest.replans
    BY <2>5 DEF FleetState
  <2>9. ASSUME Valid(rest, plan.tasks) PROVE Sound(f, taken)
    <3> HIDE DEF taken
    <3> QED BY <2>4, <2>7, <2>8, <2>9 DEF Sound, OwnsOnly, Valid
  <2>10. Sound(f, WithReplan(rest, plan.task, plan.id))
    BY <1>0, <2>3, <2>5, <2>7, WithReplanIsSound
  <2>11. \/ fleet' = [fleet EXCEPT ![f] = WithReplan(rest, plan.task, plan.id)]
         \/ Valid(rest, plan.tasks) /\ fleet' = [fleet EXCEPT ![f] = taken]
         \/ fleet' = [fleet EXCEPT ![f] = failed]
    BY <1>0, <1>4 DEF Replanned, ReplanFailed, Outdated, plan, rest, failed
  <2> HIDE DEF taken
  <2>12. Moved
    BY <2>7, <2>9, <2>10, <2>11
  <2> QED BY <1>4, <1>s, <2>12 DEF Replanned, ReplanFailed
<1>5. ASSUME NEW t \in Tasks, BeginNextTask(f, t) PROVE DispatchInv'
  <2> DEFINE new == [fl EXCEPT !.active = t, !.queue = @ \ {t}, !.executed = @ \cup {t}]
  <2>1. /\ new.queue = fl.queue \ {t} /\ new.unassigned = fl.unassigned
        /\ new.executed = fl.executed \cup {t} /\ new.bids = fl.bids
        /\ new.calculating = fl.calculating /\ new.replans = fl.replans
    BY <1>0 DEF FleetState
  <2>2. fleet' = [fleet EXCEPT ![f] = new] /\ t \in fl.queue
    BY <1>0, <1>5 DEF BeginNextTask
  <2> HIDE DEF new
  <2>3. Sound(f, new)
    BY <1>0, <2>1, <2>2 DEF Sound, OwnsOnly
  <2> QED BY <1>5, <1>s, <2>2, <2>3 DEF BeginNextTask, topicVars
<1>6. CASE TaskFinished(f)
  <2> DEFINE new == [fl EXCEPT !.active = None]
  <2>1. /\ new.queue = fl.queue /\ new.unassigned = fl.unassigned /\ new.executed = fl.executed
        /\ new.bids = fl.bids /\ new.calculating = fl.calculating /\ new.replans = fl.replans
    BY <1>0 DEF FleetState
  <2>2. fleet' = [fleet EXCEPT ![f] = new]
    BY <1>0, <1>6 DEF TaskFinished
  <2> HIDE DEF new
  <2>3. Sound(f, new)
    BY <1>0, <2>1 DEF Sound, OwnsOnly
  <2> QED BY <1>6, <1>s, <2>2, <2>3 DEF TaskFinished, topicVars
<1> QED BY <1>1, <1>2, <1>3, <1>4, <1>5, <1>6

-----------------------------------------------------------------------------
(* The invariant holds *)

(* Ownership holds at the start, when nothing was awarded.                  *)
LEMMA InitOwnership == Init => DispatchInv
<1> SUFFICES ASSUME Init PROVE DispatchInv
  OBVIOUS
<1>1. AuctionedOnce
  BY DEF Init, AuctionedOnce
<1>2. CommandsFollow
  BY DEF Init, CommandsFollow
<1>3. FleetsOwn /\ NothingIsDoneTwice
  BY DEF Init, FleetsOwn, NothingIsDoneTwice, OwnsOnly, NoPlan
<1> QED BY <1>1, <1>2, <1>3, InitTypes DEF DispatchInv

(* Every step keeps ownership.                                              *)
LEMMA NextOwnership == DispatchInv /\ [Next]_vars => DispatchInv'
<1> SUFFICES ASSUME DispatchInv, [Next]_vars PROVE DispatchInv'
  OBVIOUS
<1>1. TypeInv'
  BY NextTypes DEF DispatchInv
<1>2. CASE UNCHANGED vars
  <2>1. UNCHANGED <<assignment, fleet, open_bids, status, lingering, commands>>
    BY <1>2 DEF vars, dispatcherVars, topicVars
  <2>2. UNCHANGED next_command
    BY <1>2 DEF vars, dispatcherVars
  <2>3. AuctionedOnce' /\ CommandsFollow'
    BY <2>1, <2>2 DEF DispatchInv, AuctionedOnce, CommandsFollow, Followed, Commands, Ids
  <2>4. FleetsOwn' /\ NothingIsDoneTwice'
    BY <2>1 DEF DispatchInv, FleetsOwn, OwnsOnly, Mine, NothingIsDoneTwice
  <2> QED BY <1>1, <2>3, <2>4 DEF DispatchInv
<1>3. CASE Next
  BY <1>1, <1>3, DispatcherKeepsOwnership, FleetKeepsOwnership DEF Next
<1> QED BY <1>2, <1>3

(* No task is with two fleets, whatever they bid and however often they are *)
(* sent its award: whatever a fleet has was awarded to it, and a task is     *)
(* awarded once.                                                            *)
THEOREM OneFleet == Spec => []OneFleetPerTask
<1>1. DispatchInv => OneFleetPerTask
  BY DEF DispatchInv, FleetsOwn, OwnsOnly, Mine, OneFleetPerTask, Has
<1> QED BY <1>1, InitOwnership, NextOwnership, PTL DEF Spec

(* A plan that was made before a task began or was removed does not bring   *)
(* it back into the queue, to be done a second time.                        *)
THEOREM DoneOnce == Spec => []NothingIsDoneTwice
<1>1. DispatchInv => NothingIsDoneTwice
  BY DEF DispatchInv
<1> QED BY <1>1, InitOwnership, NextOwnership, PTL DEF Spec

-----------------------------------------------------------------------------
(* A dispatched task stays with its fleet                                   *)

(* The awards that are not acknowledged, and where a task stands with the   *)
(* auctioneer: in the queue of open bids, behind another one, with a bid of  *)
(* a fleet that was received.                                               *)
Awards == {c \in lingering : c.type = "award"}
Open(t) == \E i \in 1..Len(open_bids) : open_bids[i].task = t
Waits(t) == \E i \in 2..Len(open_bids) : open_bids[i].task = t
Offers(f, t) == \E i \in 1..Len(open_bids) : open_bids[i].task = t /\ f \in open_bids[i].fleets

(* A bid notice is on its way to a fleet, the fleet has a plan for a task,   *)
(* and the fleet's answer is on its way, received or awarded.               *)
Asked(f, t) == \E i \in 1..Len(notices[f]) : notices[f][i] = t
HasBid(f, t) == \E b \in fleet[f].bids : b.task = t
Answered(f, t) ==
  [task |-> t, fleet |-> f] \in proposals \/ Offers(f, t) \/ assignment[t] = f

(* What a fleet has begun or removed, and what it could not plan for.       *)
Given(f) == fleet[f].executed \cup fleet[f].rejected

(* A number says which command it is.                                       *)
Numbered ==
  /\ \A c, d \in lingering : c.id = d.id => c = d
  /\ \A c \in lingering : \A f \in Fleets : \A i \in 1..Len(commands[f]) :
       commands[f][i].id = c.id => commands[f][i] = c

(* One award at a time, and while it lasts no open bid was announced.       *)
OneAward ==
  /\ \A c, d \in Awards : c = d
  /\ Awards # {} => bidding
  /\ \A t \in announced :
       status[t] # "uninitialized" /\ ~Waits(t) /\ (Open(t) => bidding /\ Awards = {})

(* A fleet is asked once for a task, before it plans for it and answers.    *)
AskedOnce(f) ==
  /\ \A i, j \in 1..Len(notices[f]) : notices[f][i] = notices[f][j] => i = j
  /\ \A t \in Tasks : Asked(f, t) =>
       t \in announced /\ fleet[f].calculating.task # t /\ ~Answered(f, t)

(* A fleet has one plan for a task it answered for, which includes the task, *)
(* as long as the task is auctioned.                                        *)
BidsStand(f) ==
  /\ fleet[f].calculating # NoPlan =>
       LET t == fleet[f].calculating.task
       IN  t \in announced /\ t \in fleet[f].calculating.plan /\ ~Answered(f, t) /\ ~HasBid(f, t)
  /\ \A b \in fleet[f].bids : b.task \in announced /\ b.task \in b.plan
  /\ \A b, c \in fleet[f].bids : b.task = c.task => b = c
  /\ \A t \in Tasks : Answered(f, t) => t \in announced /\ (Open(t) => HasBid(f, t))

(* Every fleet was asked once, and what it answered it keeps.               *)
AnswersStand == \A f \in Fleets : AskedOnce(f) /\ BidsStand(f)

(* What a fleet plans again covers what it expects to do, unless another     *)
(* task was awarded to it since.                                            *)
ReplansHold(f) ==
  LET fl == fleet[f]
  IN  /\ fl.last_bid # None => assignment[fl.last_bid] = f /\ ~HasBid(f, fl.last_bid)
      /\ \A i \in 1..Len(fl.replans) :
           LET r == fl.replans[i]
           IN  /\ r.last_bid # None => assignment[r.last_bid] = f /\ ~HasBid(f, r.last_bid)
               /\ r.last_bid = fl.last_bid =>
                    /\ Expectations(fl) \subseteq r.tasks \cup Given(f)
                    /\ r.tasks \subseteq Expectations(fl) \cup Given(f)

(* A plan with a task that may still be awarded to the fleet covers what it  *)
(* expects to do.                                                           *)
BidsHold(f) ==
  \A b \in fleet[f].bids \cup ({fleet[f].calculating} \ {NoPlan}) :
    Open(b.task) \/ assignment[b.task] = f =>
      Expectations(fleet[f]) \subseteq b.plan \cup Given(f)

(* While a fleet has the plan of a task awarded to it, the award lasts and is *)
(* the first command about the task that will arrive.  Any other award is   *)
(* the last one again, and those come first.                                *)
AwardsOf(f) ==
  {i \in 1..Len(commands[f]) : commands[f][i].fleet = f /\ commands[f][i].type = "award"}

AwardComes(f, t) ==
  /\ \E c \in Awards : c.task = t
  /\ \E i \in AwardsOf(f) :
       commands[f][i].task = t /\ \A j \in 1..(i - 1) : commands[f][j].task # t

AwardsArrive(f) ==
  /\ \A t \in Tasks : assignment[t] = f /\ HasBid(f, t) => AwardComes(f, t)
  /\ \A i \in AwardsOf(f) :
       commands[f][i].task = fleet[f].last_bid \/ HasBid(f, commands[f][i].task)
  /\ \A c \in Awards : c.fleet = f => c.task = fleet[f].last_bid \/ HasBid(f, c.task)
  /\ \A i, j \in AwardsOf(f) :
       i < j /\ commands[f][i].task # fleet[f].last_bid => commands[f][j].task # fleet[f].last_bid

(* An award is acknowledged, or planned for, once its bid is gone.          *)
AcksFollow ==
  \A c \in Awards : HasBid(c.fleet, c.task) =>
    /\ c.id \notin acks
    /\ \A f \in Fleets : \A i \in 1..Len(fleet[f].replans) : fleet[f].replans[i].id # c.id

(* What a fleet was awarded it has, or has the bid of, or could not plan.    *)
NothingLost ==
  \A f \in Fleets : \A t \in Tasks :
    assignment[t] = f => HasBid(f, t) \/ t \in Has(f) \cup fleet[f].rejected

(* A task counts as dispatched only once its award was acknowledged.        *)
DispatchedIsDone ==
  \A t \in Tasks : status[t] = "dispatched" => assignment[t] \in Fleets /\ \A c \in Awards : c.task # t

(* The plans of every fleet cover what it expects, and its awards are in    *)
(* order.                                                                   *)
PlansKept == \A f \in Fleets : ReplansHold(f) /\ BidsHold(f) /\ AwardsArrive(f)

(* The inductive invariant: ownership, the numbers, one award at a time,    *)
(* the answers, the plans, and the tasks themselves.                        *)
KeptInv ==
  /\ DispatchInv /\ Numbered /\ OneAward /\ AnswersStand
  /\ PlansKept /\ AcksFollow /\ NothingLost /\ DispatchedIsDone

(* What a step of a fleet leaves alone.                                     *)
QueueStays(f) ==
  UNCHANGED <<fleet[f].queue, fleet[f].unassigned, fleet[f].executed, fleet[f].rejected>>
BidsStay(f) == UNCHANGED <<fleet[f].bids, fleet[f].calculating>>
PlansStay(f) == UNCHANGED <<fleet[f].replans, fleet[f].last_bid>>
OthersStay(f) == \A g \in Fleets : g # f => fleet'[g] = fleet[g]

-----------------------------------------------------------------------------
(* What is appended to a sequence is its last element; the others keep      *)
(* their places.                                                            *)
LEMMA AppendedAt ==
  ASSUME NEW S, NEW s \in Seq(S), NEW x \in S
  PROVE  /\ Append(s, x) \in Seq(S) /\ Len(Append(s, x)) = Len(s) + 1 /\ Len(s) \in Nat
         /\ \A i \in 1..Len(s) : i \in 1..Len(Append(s, x)) /\ Append(s, x)[i] = s[i]
         /\ Append(s, x)[Len(s) + 1] = x /\ Len(s) + 1 \in 1..Len(Append(s, x))
         /\ \A i \in 1..Len(Append(s, x)) : i \in 1..Len(s) \/ i = Len(s) + 1
<1>1. /\ Append(s, x) \in Seq(S) /\ Len(Append(s, x)) = Len(s) + 1 /\ Len(s) \in Nat
      /\ \A i \in 1..Len(s) : Append(s, x)[i] = s[i]
      /\ Append(s, x)[Len(s) + 1] = x
  BY AppendProperties
<1> QED BY <1>1

(* The tail of a sequence holds every element but the first, one place      *)
(* earlier.                                                                 *)
LEMMA TailAt ==
  ASSUME NEW S, NEW s \in Seq(S), s # << >>
  PROVE  /\ Tail(s) \in Seq(S) /\ Head(s) \in S /\ Head(s) = s[1] /\ 1 \in 1..Len(s)
         /\ Len(s) \in Nat /\ Len(Tail(s)) = Len(s) - 1
         /\ \A i \in 1..Len(Tail(s)) :
              i + 1 \in 2..Len(s) /\ i + 1 \in 1..Len(s) /\ Tail(s)[i] = s[i + 1]
         /\ \A i \in 1..Len(s) :
              i = 1 \/ (i - 1 \in 1..Len(Tail(s)) /\ Tail(s)[i - 1] = s[i] /\ i = (i - 1) + 1)
<1>1. /\ Tail(s) \in Seq(S) /\ Head(s) \in S /\ Len(Tail(s)) = Len(s) - 1 /\ Len(s) \in Nat
      /\ \A i \in 1..Len(Tail(s)) : Tail(s)[i] = s[i + 1]
      /\ Head(s) = s[1] /\ 1 \in 1..Len(s)
  BY HeadTailProperties
<1>2. \A i \in 1..Len(Tail(s)) : i + 1 \in 2..Len(s) /\ i + 1 \in 1..Len(s)
  BY <1>1
<1>3. \A i \in 1..Len(s) : i = 1 \/ (i - 1 \in 1..Len(Tail(s)) /\ i = (i - 1) + 1)
  BY <1>1
<1> QED BY <1>1, <1>2, <1>3

(* Every place of two sequences joined is one of the first or one of the    *)
(* second.                                                                  *)
LEMMA JoinedAt ==
  ASSUME NEW S, NEW s \in Seq(S), NEW t \in Seq(S)
  PROVE  /\ s \o t \in Seq(S) /\ Len(s) \in Nat /\ Len(s \o t) = Len(s) + Len(t)
         /\ \A i \in 1..Len(s) : i \in 1..Len(s \o t) /\ (s \o t)[i] = s[i]
         /\ \A i \in 1..Len(s \o t) :
              i \in 1..Len(s) \/
              (i > Len(s) /\ i - Len(s) \in 1..Len(t) /\ (s \o t)[i] = t[i - Len(s)])
<1>1. /\ s \o t \in Seq(S) /\ Len(s \o t) = Len(s) + Len(t) /\ Len(s) \in Nat /\ Len(t) \in Nat
      /\ \A i \in 1..(Len(s) + Len(t)) : (s \o t)[i] = IF i <= Len(s) THEN s[i] ELSE t[i - Len(s)]
  BY ConcatProperties
<1> QED BY <1>1

-----------------------------------------------------------------------------
(* What the actions of the dispatcher do to the open bids *)

(* Submit puts its task at the end of the queue of open bids, with no       *)
(* answer yet.                                                              *)
LEMMA SubmitOpens ==
  ASSUME TypeInv, NEW t \in Tasks, Submit(t)
  PROVE  /\ \A s \in Tasks : /\ Open(s)' => Open(s) \/ s = t
                             /\ Waits(s)' => Waits(s) \/ s = t
         /\ \A f \in Fleets : \A s \in Tasks : Offers(f, s)' => Offers(f, s)
<1> DEFINE b == [task |-> t, fleets |-> {}]
<1>1. b \in Bid /\ open_bids \in Seq(Bid) /\ open_bids' = Append(open_bids, b)
  BY DEF Submit, TypeInv, TypeOK, Bid
<1>2. b.task = t /\ b.fleets = {}
  OBVIOUS
<1> HIDE DEF b
<1>3. /\ Len(open_bids') = Len(open_bids) + 1 /\ Len(open_bids) \in Nat
      /\ \A i \in 1..Len(open_bids) : open_bids'[i] = open_bids[i]
      /\ open_bids'[Len(open_bids) + 1] = b
      /\ \A i \in 1..Len(open_bids') : i \in 1..Len(open_bids) \/ i = Len(open_bids) + 1
  BY <1>1, AppendedAt
<1>4. \A i \in 2..Len(open_bids') : i \in 2..Len(open_bids) \/ i = Len(open_bids) + 1
  BY <1>3
<1>5. \A i \in 2..Len(open_bids) : open_bids'[i] = open_bids[i]
  BY <1>3
<1>6. \A s \in Tasks : Open(s)' => Open(s) \/ s = t
  BY <1>2, <1>3 DEF Open
<1>7. \A s \in Tasks : Waits(s)' => Waits(s) \/ s = t
  BY <1>2, <1>3, <1>4, <1>5 DEF Waits
<1>8. \A f \in Fleets : \A s \in Tasks : Offers(f, s)' => Offers(f, s)
  BY <1>2, <1>3 DEF Offers
<1> QED BY <1>6, <1>7, <1>8

(* Dropping the first open bid leaves the tasks that waited behind it.      *)
LEMMA TailOpens ==
  ASSUME TypeInv, AuctionedOnce, open_bids # << >>, open_bids' = Tail(open_bids)
  PROVE  /\ \A s \in Tasks : /\ Open(s)' => Waits(s) /\ Open(s) /\ s # Head(open_bids).task
                             /\ Waits(s)' => Waits(s)
         /\ \A f \in Fleets : \A s \in Tasks : Offers(f, s)' => Offers(f, s)
<1>1. open_bids \in Seq(Bid)
  BY DEF TypeInv, TypeOK, Bid
<1>2. /\ Len(open_bids) \in Nat /\ Len(open_bids') = Len(open_bids) - 1
      /\ \A i \in 1..Len(open_bids') :
           /\ i + 1 \in 2..Len(open_bids) /\ i + 1 \in 1..Len(open_bids)
           /\ open_bids'[i] = open_bids[i + 1]
           /\ open_bids[i + 1].task # Head(open_bids).task
  BY <1>1, TailAt, TailOfAuctions
<1>3. \A i \in 2..Len(open_bids') : i \in 1..Len(open_bids')
  BY <1>2
<1> QED BY <1>2, <1>3 DEF Open, Waits, Offers

(* The task at the front of the queue is open and does not wait behind      *)
(* another.                                                                 *)
LEMMA FrontWaitsNot ==
  ASSUME TypeInv, AuctionedOnce, open_bids # << >>
  PROVE  Open(Head(open_bids).task) /\ ~Waits(Head(open_bids).task)
         /\ \A f \in Head(open_bids).fleets : Offers(f, Head(open_bids).task)
<1>1. open_bids \in Seq(Bid) /\ Head(open_bids) = open_bids[1] /\ 1 \in 1..Len(open_bids)
  BY FrontBid
<1>2. \A i \in 2..Len(open_bids) : i \in 1..Len(open_bids) /\ i # 1
  BY <1>1
<1> QED BY <1>1, <1>2 DEF AuctionedOnce, Open, Waits, Offers

(* A response adds the fleet that sent it to the bid of its task and        *)
(* nothing else.                                                            *)
LEMMA ResponseOpens ==
  ASSUME TypeInv, NEW p \in proposals, ReceiveResponse(p)
  PROVE  /\ \A s \in Tasks : /\ Open(s)' <=> Open(s)
                             /\ Waits(s)' => Waits(s)
         /\ \A f \in Fleets : \A s \in Tasks :
              Offers(f, s)' => Offers(f, s) \/ (s = p.task /\ f = p.fleet /\ Open(s))
<1>1. /\ open_bids \in Seq(Bid) /\ 1 \in 1..Len(open_bids) /\ Head(open_bids) = open_bids[1]
  BY FrontBid DEF ReceiveResponse
<1>2. \A i \in 1..Len(open_bids) : open_bids[i] \in Bid
  BY <1>1
<1>3. /\ Len(open_bids') = Len(open_bids)
      /\ \A i \in 1..Len(open_bids) :
           /\ open_bids'[i].task = open_bids[i].task
           /\ \A f \in open_bids'[i].fleets : f \in open_bids[i].fleets \/
                (f = p.fleet /\ open_bids[i].task = p.task)
  BY <1>1, <1>2 DEF ReceiveResponse, Bid
<1>4. \A i \in 2..Len(open_bids) : i \in 1..Len(open_bids)
  BY <1>1
<1> QED BY <1>3, <1>4 DEF Open, Waits, Offers

-----------------------------------------------------------------------------
(* The first layer: commands are numbered and one award lasts at a time.    *)

(* A command with the next number, sent to every fleet, keeps the numbers   *)
(* apart.                                                                   *)
LEMMA SendNumbers ==
  ASSUME DispatchInv, Numbered, NEW c, Send(c), c \in Commands', c.id = next_command
  PROVE  Numbered'
<1>1. /\ lingering \subseteq Commands /\ commands \in [Fleets -> Seq(Commands)]
      /\ next_command \in Nat
  BY DEF DispatchInv, TypeInv, TypeOK
<1>2. \A d \in Commands : d.id # next_command
  BY <1>1 DEF Commands, Ids
<1>3. \A f \in Fleets : \A i \in 1..Len(commands[f]) : commands[f][i] \in Commands
  BY <1>1
<1>4. Commands \subseteq Commands'
  <2>1. next_command' \in Nat \ {0} /\ next_command' >= next_command
    BY <1>1 DEF Send
  <2> QED BY <2>1, IdsGrow DEF DispatchInv
<1>5. ASSUME NEW f \in Fleets
      PROVE  /\ \A i \in 1..Len(commands'[f]) :
                  commands'[f][i] = c \/ (i \in 1..Len(commands[f]) /\ commands'[f][i] = commands[f][i])
  <2>1. commands[f] \in Seq(Commands') /\ commands'[f] = Append(commands[f], c)
    BY <1>1, <1>4, SeqMonotonic DEF Send
  <2> QED BY <2>1, AppendedAt
<1>6. lingering' = lingering \cup {c}
  BY DEF Send
<1>7. \A d, e \in lingering' : d.id = e.id => d = e
  BY <1>1, <1>2, <1>6 DEF Numbered
<1>8. ASSUME NEW d \in lingering', NEW f \in Fleets, NEW i \in 1..Len(commands'[f]),
             commands'[f][i].id = d.id
      PROVE  commands'[f][i] = d
  <2>1. CASE commands'[f][i] = c
    BY <1>1, <1>2, <1>6, <1>8, <2>1
  <2>2. CASE i \in 1..Len(commands[f]) /\ commands'[f][i] = commands[f][i]
    <3>1. d # c
      BY <1>2, <1>3, <1>8, <2>2
    <3> QED BY <1>6, <1>8, <2>2, <3>1 DEF Numbered
  <2> QED BY <1>5, <2>1, <2>2
<1> QED BY <1>7, <1>8 DEF Numbered

(* What is sent again is what was sent.                                     *)
LEMMA PublishedAgain ==
  ASSUME DispatchInv, PublishLingering
  PROVE  \A f \in Fleets :
           /\ Len(commands[f]) \in Nat
           /\ \A i \in 1..Len(commands[f]) : i \in 1..Len(commands'[f]) /\ commands'[f][i] = commands[f][i]
           /\ \A i \in 1..Len(commands'[f]) :
                i \in 1..Len(commands[f]) \/ (i > Len(commands[f]) /\ commands'[f][i] \in lingering)
<1>1. PICK order \in SetToSeqs(lingering) : commands' = [f \in Fleets |-> commands[f] \o order]
  BY DEF PublishLingering
<1>2. Cardinality(lingering) \in Nat
  BY FS_CardinalityType DEF DispatchInv, TypeInv
<1>3. order \in Seq(lingering)
  BY <1>1, <1>2 DEF SetToSeqs
<1>4. \A i \in 1..Len(order) : order[i] \in lingering
  BY <1>3
<1>5. order \in Seq(Commands)
  BY <1>3, SeqMonotonic DEF DispatchInv, TypeInv, TypeOK
<1> TAKE f \in Fleets
<1>6. commands[f] \in Seq(Commands) /\ commands'[f] = commands[f] \o order
  BY <1>1, SMTT(30) DEF DispatchInv, TypeInv, TypeOK
<1> QED BY <1>4, <1>5, <1>6, JoinedAt

(* Every step of dispatcher and fleets keeps the numbers of commands apart. *)
LEMMA NextNumbered ==
  ASSUME DispatchInv, DispatchInv', Numbered, Next
  PROVE  Numbered'
<1> USE DEF dispatcherVars, topicVars
<1>0. TypeInv /\ next_command \in Nat /\ commands \in [Fleets -> Seq(Commands)]
      /\ lingering \subseteq Commands
  BY DEF DispatchInv, TypeInv, TypeOK
<1>a. ASSUME lingering' \subseteq lingering, UNCHANGED commands PROVE Numbered'
  BY <1>a DEF Numbered
<1>1. ASSUME NEW t \in Tasks, CancelTask(t) PROVE Numbered'
  <2>1. CASE UNCHANGED <<lingering, commands>>
    BY <1>a, <2>1
  <2>2. CASE status[t] = "selected" /\ Send(Command(t, assignment[t], "remove"))
    <3>1. assignment[t] \in Fleets
      BY <1>0, <2>2 DEF TypeInv, SelectedHasFleet
    <3>2. Command(t, assignment[t], "remove") \in Commands'
      BY <1>0, <2>2, <3>1, SendKeepsTypes
    <3> QED BY <2>2, <3>2, SendNumbers DEF Command
  <2> QED BY <1>1, <2>1, <2>2 DEF CancelTask
<1>2. ASSUME Conclude PROVE Numbered'
  <2>1. CASE UNCHANGED <<lingering, commands>>
    BY <1>a, <2>1
  <2>2. ASSUME NEW f \in Head(open_bids).fleets, Send(Command(Head(open_bids).task, f, "award"))
        PROVE  Numbered'
    <3>1. Head(open_bids).task \in Tasks /\ f \in Fleets
      BY <1>0, <1>2, <2>2, FrontBid DEF Conclude
    <3>2. Command(Head(open_bids).task, f, "award") \in Commands'
      BY <1>0, <2>2, <3>1, SendKeepsTypes
    <3> QED BY <2>2, <3>2, SendNumbers DEF Command
  <2> QED BY <1>2, <2>1, <2>2 DEF Conclude
<1>3. ASSUME PublishLingering PROVE Numbered'
  <2>1. UNCHANGED lingering
    BY <1>3 DEF PublishLingering
  <2>2. \A f \in Fleets : \A i \in 1..Len(commands'[f]) :
          \/ i \in 1..Len(commands[f]) /\ commands'[f][i] = commands[f][i]
          \/ commands'[f][i] \in lingering
    BY <1>3, PublishedAgain
  <2> QED BY <2>1, <2>2 DEF Numbered
<1>4. ASSUME NEW f \in Fleets, DispatchCommand(f) PROVE Numbered'
  <2>1. commands[f] \in Seq(Commands) /\ commands[f] # << >> /\ UNCHANGED lingering
        /\ commands'[f] = Tail(commands[f]) /\ \A g \in Fleets : g # f => commands'[g] = commands[g]
    BY <1>0, <1>4 DEF DispatchCommand
  <2>2. \A i \in 1..Len(commands'[f]) :
          i + 1 \in 1..Len(commands[f]) /\ commands'[f][i] = commands[f][i + 1]
    BY <2>1, TailAt
  <2>3. ASSUME NEW g \in Fleets, NEW i \in 1..Len(commands'[g])
        PROVE  \E j \in 1..Len(commands[g]) : commands'[g][i] = commands[g][j]
    BY <2>1, <2>2, <2>3
  <2> QED BY <2>1, <2>3, SMTT(30) DEF Numbered
<1>5. CASE UNCHANGED <<lingering, commands>>
  BY <1>5, <1>a
<1>6. ASSUME NEW id \in acks, HandleAck(id) PROVE Numbered'
  BY <1>6, <1>a DEF HandleAck
<1> QED BY <1>1, <1>2, <1>3, <1>4, <1>5, <1>6, Zenon
      DEF Next, Submit, Announce, ReceiveResponse, BidNotice, BidCalculated, Replanned,
          ReplanFailed, BeginNextTask, TaskFinished

(* With prompt acknowledgments no step awards a task while another award    *)
(* lasts: Conclude runs when no award lingers, and only the front is        *)
(* announced.                                                               *)
LEMMA NextOneAward ==
  ASSUME Prompt, DispatchInv, DispatchInv', OneAward, Next
  PROVE  OneAward'
<1> USE DEF dispatcherVars, topicVars
<1>0. /\ TypeInv /\ AuctionedOnce /\ status \in [Tasks -> Status] /\ announced \subseteq Tasks
      /\ lingering \subseteq Commands
  BY DEF DispatchInv, TypeInv, TypeOK
<1>a. ASSUME UNCHANGED <<announced, bidding, open_bids, lingering>>,
             \A t \in Tasks : status'[t] = "uninitialized" => status[t] = "uninitialized"
      PROVE  OneAward'
  BY <1>0, <1>a DEF OneAward, Awards, Open, Waits
<1>1. ASSUME NEW t \in Tasks, Submit(t) PROVE OneAward'
  <2>1. \A s \in Tasks : /\ Open(s)' => Open(s) \/ s = t
                         /\ Waits(s)' => Waits(s) \/ s = t
    BY <1>0, <1>1, SubmitOpens
  <2>2. t \notin announced /\ UNCHANGED <<announced, bidding, lingering>>
    BY <1>1 DEF Submit, OneAward
  <2>3. \A s \in announced : s \in Tasks /\ status'[s] # "uninitialized"
    BY <1>0, <1>1, <2>2 DEF Submit, OneAward
  <2> QED BY <2>1, <2>2, <2>3 DEF OneAward, Awards
<1>2. ASSUME NEW t \in Tasks, CancelTask(t) PROVE OneAward'
  <2>1. \A s \in Tasks : status'[s] = "uninitialized" => status[s] = "uninitialized"
    BY <1>0, <1>2 DEF CancelTask
  <2>2. CASE UNCHANGED lingering
    BY <1>2, <1>a, <2>1, <2>2 DEF CancelTask
  <2>3. CASE Send(Command(t, assignment[t], "remove"))
    <3>1. Awards' = Awards
      BY <2>3 DEF Send, Awards, Command
    <3> QED BY <1>0, <1>2, <2>1, <3>1 DEF CancelTask, OneAward, Open, Waits
  <2> QED BY <1>2, <2>2, <2>3 DEF CancelTask
<1>3. ASSUME Announce PROVE OneAward'
  <2> DEFINE t == Head(open_bids).task
  <2>1. /\ t \in Tasks /\ ~Waits(t) /\ Open(t) /\ status[t] # "uninitialized"
    BY <1>0, <1>3, FrontBid, FrontWaitsNot DEF Announce, AuctionedOnce
  <2>2. Awards = {} /\ bidding' /\ announced' = announced \cup {t}
        /\ UNCHANGED <<status, open_bids, lingering>>
    BY <1>3 DEF Announce, OneAward
  <2> QED BY <2>1, <2>2 DEF OneAward, Awards, Open, Waits
<1>4. ASSUME Conclude PROVE OneAward'
  <2> DEFINE t == Head(open_bids).task
  <2>1. \A s \in Tasks : Open(s)' => Waits(s)
    BY <1>0, <1>4, TailOpens DEF Conclude
  <2>2. \A s \in Tasks : Waits(s)' => Waits(s)
    BY <1>0, <1>4, TailOpens DEF Conclude
  <2>3. bidding /\ Awards = {} /\ UNCHANGED announced
    BY <1>4 DEF Conclude, Awards
  <2>4. \A s \in Tasks : status'[s] = "uninitialized" => status[s] = "uninitialized"
    BY <1>0, <1>4, FrontBid DEF Conclude
  <2>5. \A s \in announced : s \in Tasks /\ status'[s] # "uninitialized" /\ ~Waits(s)' /\ ~Open(s)'
    BY <1>0, <2>1, <2>2, <2>4 DEF OneAward
  <2>6. CASE UNCHANGED lingering
    BY <2>3, <2>5, <2>6 DEF OneAward, Awards
  <2>7. ASSUME NEW f, Send(Command(t, f, "award")), UNCHANGED bidding
        PROVE  OneAward'
    <3>1. Awards' = {Command(t, f, "award")}
      BY <2>3, <2>7 DEF Send, Awards, Command
    <3> QED BY <2>3, <2>5, <2>7, <3>1 DEF OneAward
  <2> QED BY <1>4, <2>6, <2>7 DEF Conclude
<1>5. ASSUME NEW p \in proposals, ReceiveResponse(p) PROVE OneAward'
  <2>1. \A s \in Tasks : (Open(s)' <=> Open(s)) /\ (Waits(s)' => Waits(s))
    BY <1>0, <1>5, ResponseOpens
  <2> QED BY <1>0, <1>5, <2>1 DEF ReceiveResponse, OneAward, Awards
<1>6. ASSUME NEW id \in acks, HandleAck(id) PROVE OneAward'
  <2>1. UNCHANGED <<announced, open_bids>>
        /\ \A s \in Tasks : status'[s] = "uninitialized" => status[s] = "uninitialized"
    BY <1>0, <1>6 DEF HandleAck
  <2>2. CASE UNCHANGED <<bidding, lingering>>
    BY <1>a, <2>1, <2>2
  <2>3. ASSUME NEW c \in lingering, c.type = "award", lingering' = lingering \ {c}
        PROVE  OneAward'
    <3>1. c \in Awards /\ Awards' = {}
      BY <2>3 DEF OneAward, Awards
    <3>2. \A s \in announced : ~Open(s)
      BY <3>1 DEF OneAward
    <3> QED BY <1>0, <2>1, <3>1, <3>2 DEF OneAward, Open, Waits
  <2>4. ASSUME NEW c \in lingering, c.type # "award", lingering' = lingering \ {c},
               UNCHANGED bidding
        PROVE  OneAward'
    <3>1. Awards' = Awards
      BY <2>4 DEF Awards
    <3> QED BY <1>0, <2>1, <2>4, <3>1 DEF OneAward, Open, Waits
  <2> QED BY <1>6, <2>2, <2>3, <2>4 DEF HandleAck
<1>7. CASE UNCHANGED <<announced, bidding, open_bids, lingering, status>>
  BY <1>7, <1>a, SMTT(30)
<1>8. ASSUME NEW f \in Fleets,
             \/ BidNotice(f) \/ BidCalculated(f) \/ DispatchCommand(f)
             \/ Replanned(f) \/ ReplanFailed(f)
             \/ \E t \in Tasks : BeginNextTask(f, t)
             \/ TaskFinished(f)
      PROVE  UNCHANGED dispatcherVars
  BY <1>8, Zenon DEF BidNotice, BidCalculated, DispatchCommand, Replanned,
          ReplanFailed, BeginNextTask, TaskFinished
<1>9. PublishLingering => UNCHANGED dispatcherVars
  BY DEF PublishLingering
<1> QED BY <1>1, <1>2, <1>3, <1>4, <1>5, <1>6, <1>7, <1>8, <1>9 DEF Next

-----------------------------------------------------------------------------
(* What the actions of a fleet do to it *)

(* A bid notice changes what its fleet is calculating and nothing else of   *)
(* it.                                                                      *)
LEMMA BidNoticeEffect ==
  ASSUME TypeInv, NEW f \in Fleets, BidNotice(f)
  PROVE  /\ OthersStay(f) /\ QueueStays(f) /\ PlansStay(f) /\ UNCHANGED fleet[f].bids
         /\ \/ UNCHANGED fleet[f].calculating
            \/ /\ ~HasBid(f, Head(notices[f]))
               /\ fleet'[f].calculating = [task |-> Head(notices[f]),
                    plan |-> Expectations(fleet[f]) \cup {Head(notices[f])}]
<1>1. fleet \in [Fleets -> FleetState] /\ fleet[f] \in FleetState
  BY DEF TypeInv, TypeOK
<1> DEFINE p == [task |-> Head(notices[f]),
                 plan |-> Expectations(fleet[f]) \cup {Head(notices[f])}]
<1>2. \/ fleet' = fleet
      \/ ~HasBid(f, Head(notices[f])) /\ fleet' = [fleet EXCEPT ![f].calculating = p]
  BY <1>1 DEF BidNotice, HasBid
<1> HIDE DEF p
<1>3. CASE fleet' = fleet
  BY <1>3 DEF OthersStay, QueueStays, PlansStay
<1>4. CASE ~HasBid(f, Head(notices[f])) /\ fleet' = [fleet EXCEPT ![f].calculating = p]
  BY <1>1, <1>4 DEF OthersStay, QueueStays, PlansStay, FleetState, p
<1> QED BY <1>2, <1>3, <1>4

(* A bid that was calculated joins the bids of its fleet and is sent, or is *)
(* dropped.                                                                 *)
LEMMA BidCalculatedEffect ==
  ASSUME TypeInv, NEW f \in Fleets, BidCalculated(f)
  PROVE  /\ OthersStay(f) /\ QueueStays(f) /\ PlansStay(f)
         /\ fleet'[f].calculating = NoPlan
         /\ \/ UNCHANGED <<fleet[f].bids, proposals>>
            \/ /\ fleet'[f].bids = fleet[f].bids \cup {fleet[f].calculating}
               /\ proposals' = proposals \cup {[task |-> fleet[f].calculating.task, fleet |-> f]}
<1>1. fleet \in [Fleets -> FleetState] /\ fleet[f] \in FleetState
  BY DEF TypeInv, TypeOK
<1> QED BY <1>1 DEF BidCalculated, OthersStay, QueueStays, PlansStay, FleetState

(* A plan to make again starts from what the fleet expects to do and knows  *)
(* the last award of the moment.                                            *)
LEMMA WithReplanEffect ==
  ASSUME NEW fl \in FleetState, NEW task, NEW id
  PROVE  LET new == WithReplan(fl, task, id)
         IN  /\ new.queue = fl.queue /\ new.executed = fl.executed
             /\ new.unassigned = fl.unassigned /\ new.bids = fl.bids
             /\ new.rejected = fl.rejected /\ new.last_bid = fl.last_bid
             /\ new.calculating = fl.calculating
             /\ new.replans = Append(fl.replans, [tasks |-> Expectations(fl),
                  last_bid |-> fl.last_bid, task |-> task, id |-> id])
BY DEF WithReplan, FleetState

(* The plans to make when one more is added.                                *)
ReplanAdded(f, old, tasks, id) ==
  \A i \in 1..Len(fleet'[f].replans) :
    \/ \E j \in 1..Len(old) : fleet'[f].replans[i] = old[j]
    \/ /\ fleet'[f].replans[i].tasks = tasks
       /\ fleet'[f].replans[i].last_bid = fleet'[f].last_bid
       /\ fleet'[f].replans[i].id = id

(* An award of a task the fleet has no bid for is acknowledged and          *)
(* remembered.                                                              *)
AwardWithoutBid(f, c) ==
  /\ c.fleet = f /\ c.type = "award" /\ ~HasBid(f, c.task)
  /\ QueueStays(f) /\ BidsStay(f) /\ UNCHANGED fleet[f].replans
  /\ fleet'[f].last_bid = c.task
  /\ acks' = acks \cup {c.id}

(* An award whose plan can be taken makes the plan the fleet's queue.       *)
AwardTaken(f, c, b) ==
  /\ c.fleet = f /\ c.type = "award" /\ b.task = c.task
  /\ fleet'[f].bids = fleet[f].bids \ {b} /\ UNCHANGED fleet[f].calculating
  /\ fleet'[f].queue = b.plan /\ fleet'[f].unassigned = {}
  /\ UNCHANGED <<fleet[f].executed, fleet[f].rejected, fleet[f].replans>>
  /\ fleet'[f].last_bid = c.task
  /\ acks' = acks \cup {c.id}

(* An award that comes while the plan is outdated is planned for again.     *)
AwardReplanned(f, c, b) ==
  /\ c.fleet = f /\ c.type = "award" /\ b.task = c.task
  /\ fleet'[f].bids = fleet[f].bids \ {b} /\ UNCHANGED fleet[f].calculating
  /\ fleet'[f].unassigned = fleet[f].unassigned \cup {c.task}
  /\ UNCHANGED <<fleet[f].queue, fleet[f].executed, fleet[f].rejected>>
  /\ fleet'[f].last_bid = c.task
  /\ ReplanAdded(f, fleet[f].replans, fleet'[f].queue \cup fleet'[f].unassigned, c.id)
  /\ UNCHANGED acks

(* A command for another fleet, or the removal of a task that was never     *)
(* begun, drops the bid.                                                    *)
Forgotten(f, c) ==
  /\ c.fleet # f \/ c.type = "remove"
  /\ QueueStays(f) /\ PlansStay(f) /\ UNCHANGED fleet[f].calculating
  /\ fleet'[f].bids = {b \in fleet[f].bids : b.task # c.task}
  /\ acks' \subseteq acks \cup {c.id} /\ (c.fleet # f => acks' = acks)

(* The removal of a task in the queue takes it out and plans for the rest.  *)
Removed(f, c) ==
  /\ c.fleet = f /\ c.type = "remove"
  /\ BidsStay(f) /\ UNCHANGED <<fleet[f].unassigned, fleet[f].rejected, fleet[f].last_bid>>
  /\ fleet'[f].queue = fleet[f].queue \ {c.task}
  /\ fleet'[f].executed = fleet[f].executed \cup {c.task}
  /\ ReplanAdded(f, fleet[f].replans, fleet'[f].queue \cup fleet'[f].unassigned, 0)
  /\ acks' = acks \cup {c.id}

(* An award has one of three effects on the fleet it is for.                *)
LEMMA AwardEffect ==
  ASSUME TypeInv, NEW f \in Fleets, NEW c \in Commands, c.fleet = f, c.type = "award", Award(f, c)
  PROVE  /\ OthersStay(f)
         /\ \/ AwardWithoutBid(f, c)
            \/ \E b \in fleet[f].bids : AwardTaken(f, c, b) \/ AwardReplanned(f, c, b)
<1> DEFINE fl == [fleet[f] EXCEPT !.last_bid = c.task]
<1>1. fleet \in [Fleets -> FleetState] /\ fleet[f] \in FleetState /\ c.task \in Tasks
  BY DEF TypeInv, TypeOK, Commands
<1>2. /\ fl \in FleetState /\ fl.queue = fleet[f].queue /\ fl.executed = fleet[f].executed
      /\ fl.unassigned = fleet[f].unassigned /\ fl.bids = fleet[f].bids
      /\ fl.rejected = fleet[f].rejected /\ fl.last_bid = c.task
      /\ fl.calculating = fleet[f].calculating /\ fl.replans = fleet[f].replans
  BY <1>1, Zenon DEF FleetState
<1> HIDE DEF fl
<1>3. CASE /\ \A b \in fl.bids : b.task # c.task
           /\ fleet' = [fleet EXCEPT ![f] = fl] /\ acks' = acks \cup {c.id}
  BY <1>1, <1>2, <1>3 DEF AwardWithoutBid, OthersStay, QueueStays, BidsStay, HasBid
<1>4. ASSUME NEW b \in fl.bids, b.task = c.task, acks' = acks \cup {c.id},
             fleet' = [fleet EXCEPT ![f] = [fl EXCEPT !.bids = @ \ {b},
                         !.queue = b.plan, !.unassigned = {}]]
      PROVE  OthersStay(f) /\ AwardTaken(f, c, b)
  BY <1>1, <1>2, <1>4 DEF AwardTaken, OthersStay, FleetState
<1>5. ASSUME NEW b \in fl.bids, b.task = c.task, UNCHANGED acks,
             fleet' = [fleet EXCEPT ![f] =
                WithReplan([fl EXCEPT !.bids = @ \ {b}, !.unassigned = @ \cup {c.task}],
                           c.task, c.id)]
      PROVE  OthersStay(f) /\ AwardReplanned(f, c, b)
  <2> DEFINE new == [fl EXCEPT !.bids = @ \ {b}, !.unassigned = @ \cup {c.task}]
             r == [tasks |-> Expectations(new), last_bid |-> new.last_bid,
                   task |-> c.task, id |-> c.id]
  <2>1. /\ new \in FleetState
        /\ new.queue = fl.queue /\ new.executed = fl.executed
        /\ new.unassigned = fl.unassigned \cup {c.task} /\ new.bids = fl.bids \ {b}
        /\ new.rejected = fl.rejected /\ new.last_bid = fl.last_bid
        /\ new.calculating = fl.calculating /\ new.replans = fl.replans
    BY <1>1, <1>2 DEF FleetState
  <2>2. r.tasks = new.queue \cup new.unassigned /\ r.last_bid = new.last_bid /\ r.id = c.id
    BY DEF Expectations
  <2>3. fleet'[f] = WithReplan(new, c.task, c.id) /\ OthersStay(f)
    BY <1>1, <1>5 DEF OthersStay
  <2> HIDE DEF new
  <2>4. /\ fleet'[f].queue = new.queue /\ fleet'[f].executed = new.executed
        /\ fleet'[f].unassigned = new.unassigned /\ fleet'[f].bids = new.bids
        /\ fleet'[f].rejected = new.rejected /\ fleet'[f].last_bid = new.last_bid
        /\ fleet'[f].calculating = new.calculating
        /\ fleet'[f].replans = Append(fl.replans, r)
    BY <2>1, <2>3, WithReplanEffect
  <2> HIDE DEF r
  <2>5. \A i \in 1..Len(fleet'[f].replans) :
          (i \in 1..Len(fl.replans) /\ fleet'[f].replans[i] = fl.replans[i]) \/ fleet'[f].replans[i] = r
    <3>1. fl.replans \in Seq(Replan \cup {r}) /\ r \in Replan \cup {r}
      BY <1>2, SeqMonotonic DEF FleetState
    <3> QED BY <2>4, <3>1, AppendedAt
  <2> QED BY <1>2, <1>5, <2>1, <2>2, <2>3, <2>4, <2>5, ZenonT(40) DEF AwardReplanned, ReplanAdded
<1> QED BY <1>2, <1>3, <1>4, <1>5 DEF Award, fl

(* A removal has one of two effects on the fleet it is for.                 *)
LEMMA RemoveTaskEffect ==
  ASSUME TypeInv, NEW f \in Fleets, NEW c \in Commands, c.fleet = f, c.type = "remove",
         RemoveTask(f, c)
  PROVE  OthersStay(f) /\ (Forgotten(f, c) \/ Removed(f, c))
<1> DEFINE fl == fleet[f]
           less == [fl EXCEPT !.bids = {b \in @ : b.task # c.task}]
           without == CancelledIfPresent(fl, c.task)
<1>1. fleet \in [Fleets -> FleetState] /\ fl \in FleetState /\ c.task \in Tasks
  BY DEF TypeInv, TypeOK, Commands
<1>2. acks' = acks \cup {c.id}
  BY DEF RemoveTask
<1>3. CASE fleet' = [fleet EXCEPT ![f] = less]
  BY <1>1, <1>2, <1>3 DEF Forgotten, OthersStay, QueueStays, PlansStay, FleetState
<1>4. CASE fleet' = [fleet EXCEPT ![f] = WithReplan(without, None, 0)]
  <2> DEFINE r == [tasks |-> Expectations(without), last_bid |-> without.last_bid,
                   task |-> None, id |-> 0]
  <2>1. /\ without \in FleetState
        /\ without.queue = fl.queue \ {c.task} /\ without.executed = fl.executed \cup {c.task}
        /\ without.unassigned = fl.unassigned /\ without.bids = fl.bids
        /\ without.rejected = fl.rejected /\ without.last_bid = fl.last_bid
        /\ without.calculating = fl.calculating /\ without.replans = fl.replans
    BY <1>1, ZenonT(40) DEF FleetState, CancelledIfPresent
  <2>2. r.tasks = without.queue \cup without.unassigned /\ r.last_bid = without.last_bid /\ r.id = 0
    BY DEF Expectations
  <2>3. fleet'[f] = WithReplan(without, None, 0) /\ OthersStay(f)
    BY <1>1, <1>4 DEF OthersStay
  <2> HIDE DEF without
  <2>4. /\ fleet'[f].queue = without.queue /\ fleet'[f].executed = without.executed
        /\ fleet'[f].unassigned = without.unassigned /\ fleet'[f].bids = without.bids
        /\ fleet'[f].rejected = without.rejected /\ fleet'[f].last_bid = without.last_bid
        /\ fleet'[f].calculating = without.calculating
        /\ fleet'[f].replans = Append(without.replans, r)
    BY <2>1, <2>3, WithReplanEffect
  <2> HIDE DEF r
  <2>5. \A i \in 1..Len(fleet'[f].replans) :
          \/ i \in 1..Len(fl.replans) /\ fleet'[f].replans[i] = fl.replans[i]
          \/ fleet'[f].replans[i] = r
    <3>1. fl.replans \in Seq(Replan \cup {r}) /\ r \in Replan \cup {r}
      BY <1>1, SeqMonotonic DEF FleetState
    <3> QED BY <2>1, <2>4, <3>1, AppendedAt
  <2> QED BY <1>1, <1>2, <2>1, <2>2, <2>3, <2>4, <2>5 DEF Removed, ReplanAdded, BidsStay
<1>5. CASE fleet' = fleet /\ \A b \in fl.bids : b.task # c.task
  BY <1>2, <1>5 DEF Forgotten, OthersStay, QueueStays, PlansStay
<1>6. fleet = [fleet EXCEPT ![f] = fleet[f]]
  BY <1>1
<1> QED BY <1>3, <1>4, <1>5, <1>6 DEF RemoveTask

(* A command that arrives has one of five effects on the fleet.             *)
LEMMA DispatchCommandEffect ==
  ASSUME DispatchInv, NEW f \in Fleets, DispatchCommand(f)
  PROVE  LET c == Head(commands[f])
         IN  /\ c \in Followed /\ c \in Commands /\ OthersStay(f)
             /\ \/ AwardWithoutBid(f, c) \/ Forgotten(f, c) \/ Removed(f, c)
                \/ \E b \in fleet[f].bids : AwardTaken(f, c, b) \/ AwardReplanned(f, c, b)
<1> DEFINE c == Head(commands[f])
           less == [fleet[f] EXCEPT !.bids = {b \in @ : b.task # c.task}]
<1>1. /\ TypeInv /\ commands \in [Fleets -> Seq(Followed)] /\ commands[f] # << >>
      /\ fleet \in [Fleets -> FleetState] /\ fleet[f] \in FleetState
  BY DEF DispatchInv, CommandsFollow, DispatchCommand, TypeInv, TypeOK
<1>2. c \in Followed /\ c \in Commands
  <2>1. c \in Followed
    BY <1>1, TailOfTyped
  <2> QED BY <2>1 DEF Followed
<1>3. \/ c.fleet # f /\ fleet' = [fleet EXCEPT ![f] = less] /\ UNCHANGED acks
      \/ c.fleet = f /\ c.type = "award" /\ Award(f, c)
      \/ c.fleet = f /\ c.type = "remove" /\ RemoveTask(f, c)
  BY <1>1 DEF DispatchCommand, ForThisFleet
<1> HIDE DEF c
<1>4. ASSUME c.fleet # f, fleet' = [fleet EXCEPT ![f] = less], UNCHANGED acks
      PROVE  OthersStay(f) /\ Forgotten(f, c)
  BY <1>1, <1>4 DEF Forgotten, OthersStay, QueueStays, PlansStay, FleetState
<1>5. OthersStay(f) /\ (\/ AwardWithoutBid(f, c) \/ Forgotten(f, c) \/ Removed(f, c)
                \/ \E b \in fleet[f].bids : AwardTaken(f, c, b) \/ AwardReplanned(f, c, b))
  BY <1>1, <1>2, <1>3, <1>4, AwardEffect, RemoveTaskEffect
<1> QED BY <1>2, <1>5 DEF c

(* A plan made again is taken when nothing was awarded since it was         *)
(* started.                                                                 *)
ReplanTaken(f, r) ==
  /\ r.last_bid = fleet[f].last_bid
  /\ BidsStay(f) /\ UNCHANGED <<fleet[f].executed, fleet[f].rejected>>
  /\ fleet'[f].queue = r.tasks /\ fleet'[f].unassigned = {}

(* A plan that failed drops the task it was made for.                       *)
ReplanDropped(f, r) ==
  /\ BidsStay(f) /\ UNCHANGED <<fleet[f].queue, fleet[f].executed>>
  /\ fleet'[f].unassigned = fleet[f].unassigned \ {r.task}
  /\ fleet'[f].rejected = fleet[f].rejected \cup ({r.task} \ {None})

(* A plan that comes back is started again, taken or dropped; the next one  *)
(* waits behind it.                                                         *)
LEMMA ReplanEffect ==
  ASSUME TypeInv, NEW f \in Fleets, Replanned(f) \/ ReplanFailed(f)
  PROVE  LET r == fleet[f].replans[1]
         IN  /\ OthersStay(f) /\ 1 \in 1..Len(fleet[f].replans) /\ UNCHANGED fleet[f].last_bid
             /\ r \in Replan
             /\ \/ /\ QueueStays(f) /\ BidsStay(f) /\ UNCHANGED acks
                   /\ ReplanAdded(f, fleet[f].replans,
                                  fleet'[f].queue \cup fleet'[f].unassigned, r.id)
                \/ /\ ReplanTaken(f, r) \/ ReplanDropped(f, r)
                   /\ acks' \subseteq acks \cup {r.id}
                   /\ \A i \in 1..Len(fleet'[f].replans) : \E j \in 1..Len(fleet[f].replans) :
                        fleet'[f].replans[i] = fleet[f].replans[j]
<1> DEFINE fl == fleet[f]
           plan == Head(fl.replans)
           rest == [fl EXCEPT !.replans = Tail(@)]
           taken == [rest EXCEPT !.queue = plan.tasks, !.unassigned = {}]
           failed == [fl EXCEPT !.replans = Tail(@), !.unassigned = @ \ {plan.task},
                                !.rejected = @ \cup ({plan.task} \ {None})]
<1>0. fleet \in [Fleets -> FleetState] /\ fl \in FleetState
  BY DEF TypeInv, TypeOK
<1>1. fl.replans \in Seq(Replan) /\ fl.replans # << >>
  BY <1>0 DEF Replanned, ReplanFailed, FleetState
<1>2. /\ plan \in Replan /\ Tail(fl.replans) \in Seq(Replan)
      /\ plan = fl.replans[1] /\ 1 \in 1..Len(fl.replans)
      /\ \A i \in 1..Len(Tail(fl.replans)) :
           i + 1 \in 1..Len(fl.replans) /\ Tail(fl.replans)[i] = fl.replans[i + 1]
  BY <1>1, TailAt
<1>3. /\ rest \in FleetState /\ rest.queue = fl.queue /\ rest.unassigned = fl.unassigned
      /\ rest.executed = fl.executed /\ rest.rejected = fl.rejected /\ rest.bids = fl.bids
      /\ rest.calculating = fl.calculating /\ rest.last_bid = fl.last_bid
      /\ rest.replans = Tail(fl.replans)
  BY <1>0, <1>2 DEF FleetState
<1>4. \/ fleet' = [fleet EXCEPT ![f] = WithReplan(rest, plan.task, plan.id)] /\ UNCHANGED acks
      \/ /\ plan.last_bid = rest.last_bid
         /\ fleet' = [fleet EXCEPT ![f] = taken] /\ acks' = Acknowledged(plan)
      \/ fleet' = [fleet EXCEPT ![f] = failed] /\ acks' = Acknowledged(plan)
  BY <1>0, Zenon DEF Replanned, ReplanFailed, Outdated
<1>5. CASE fleet' = [fleet EXCEPT ![f] = WithReplan(rest, plan.task, plan.id)] /\ UNCHANGED acks
  <2> DEFINE r == [tasks |-> Expectations(rest), last_bid |-> rest.last_bid,
                   task |-> plan.task, id |-> plan.id]
  <2>1. r.tasks = rest.queue \cup rest.unassigned /\ r.last_bid = rest.last_bid /\ r.id = plan.id
    BY DEF Expectations
  <2>2. fleet'[f] = WithReplan(rest, plan.task, plan.id) /\ OthersStay(f)
    BY <1>0, <1>5 DEF OthersStay
  <2> HIDE DEF rest, plan
  <2>a. rest \in FleetState
    BY <1>3
  <2>3. /\ fleet'[f].queue = rest.queue /\ fleet'[f].executed = rest.executed
        /\ fleet'[f].unassigned = rest.unassigned /\ fleet'[f].bids = rest.bids
        /\ fleet'[f].rejected = rest.rejected /\ fleet'[f].last_bid = rest.last_bid
        /\ fleet'[f].calculating = rest.calculating
        /\ fleet'[f].replans = Append(rest.replans, r)
    BY <2>a, <2>2, WithReplanEffect
  <2> HIDE DEF r
  <2>4. \A i \in 1..Len(fleet'[f].replans) :
          \/ \E j \in 1..Len(fl.replans) : fleet'[f].replans[i] = fl.replans[j]
          \/ fleet'[f].replans[i] = r
    <3>1. Tail(fl.replans) \in Seq(Replan \cup {r}) /\ r \in Replan \cup {r}
      BY <1>2, SeqMonotonic
    <3>2. \A i \in 1..Len(fleet'[f].replans) :
            \/ i \in 1..Len(Tail(fl.replans)) /\ fleet'[f].replans[i] = Tail(fl.replans)[i]
            \/ fleet'[f].replans[i] = r
      BY <1>3, <2>3, <3>1, AppendedAt
    <3> QED BY <1>2, <3>2
  <2>5. ReplanAdded(f, fl.replans, fleet'[f].queue \cup fleet'[f].unassigned, plan.id)
    BY <2>1, <2>3, <2>4 DEF ReplanAdded
  <2> QED BY <1>2, <1>3, <1>5, <2>2, <2>3, <2>5, Zenon DEF QueueStays, BidsStay
<1>6. CASE /\ plan.last_bid = rest.last_bid
           /\ fleet' = [fleet EXCEPT ![f] = taken] /\ acks' = Acknowledged(plan)
  <2>1. OthersStay(f) /\ fleet'[f] = taken
    BY <1>0, <1>6 DEF OthersStay
  <2> HIDE DEF rest, plan
  <2>2. /\ fleet'[f].queue = plan.tasks /\ fleet'[f].unassigned = {}
        /\ fleet'[f].executed = fl.executed /\ fleet'[f].rejected = fl.rejected
        /\ fleet'[f].bids = fl.bids /\ fleet'[f].calculating = fl.calculating
        /\ fleet'[f].last_bid = fl.last_bid /\ fleet'[f].replans = Tail(fl.replans)
    BY <1>3, <2>1 DEF FleetState
  <2>3. acks' \subseteq acks \cup {plan.id}
    BY <1>6 DEF Acknowledged
  <2>4. ReplanTaken(f, plan)
    BY <1>3, <1>6, <2>2 DEF ReplanTaken, BidsStay
  <2>5. \A i \in 1..Len(fleet'[f].replans) : \E j \in 1..Len(fl.replans) :
          fleet'[f].replans[i] = fl.replans[j]
    BY <1>2, <2>2
  <2>6. fleet'[f].last_bid = fl.last_bid
    BY <2>2
  <2> QED BY <1>2, <2>1, <2>3, <2>4, <2>5, <2>6
<1>7. CASE fleet' = [fleet EXCEPT ![f] = failed] /\ acks' = Acknowledged(plan)
  <2>1. OthersStay(f) /\ fleet'[f] = failed
    BY <1>0, <1>7 DEF OthersStay
  <2> HIDE DEF rest, plan
  <2>2. /\ fleet'[f].queue = fl.queue /\ fleet'[f].unassigned = fl.unassigned \ {plan.task}
        /\ fleet'[f].executed = fl.executed
        /\ fleet'[f].rejected = fl.rejected \cup ({plan.task} \ {None})
        /\ fleet'[f].bids = fl.bids /\ fleet'[f].calculating = fl.calculating
        /\ fleet'[f].last_bid = fl.last_bid /\ fleet'[f].replans = Tail(fl.replans)
    BY <1>0, <2>1 DEF FleetState
  <2>3. acks' \subseteq acks \cup {plan.id}
    BY <1>7 DEF Acknowledged
  <2> QED BY <1>2, <1>7, <2>1, <2>2, <2>3 DEF ReplanDropped, BidsStay
<1> QED BY <1>4, <1>5, <1>6, <1>7

(* Beginning and finishing tasks moves them from the queue to what was      *)
(* executed.                                                                *)
LEMMA WorkEffect ==
  ASSUME TypeInv, NEW f \in Fleets,
         (\E t \in Tasks : BeginNextTask(f, t)) \/ TaskFinished(f)
  PROVE  /\ OthersStay(f) /\ BidsStay(f) /\ PlansStay(f)
         /\ UNCHANGED <<fleet[f].unassigned, fleet[f].rejected>>
         /\ fleet'[f].queue \subseteq fleet[f].queue
         /\ fleet[f].executed \subseteq fleet'[f].executed
         /\ fleet[f].queue \subseteq fleet'[f].queue \cup fleet'[f].executed
<1>0. fleet \in [Fleets -> FleetState] /\ fleet[f] \in FleetState
  BY DEF TypeInv, TypeOK
<1>1. ASSUME NEW t \in Tasks, BeginNextTask(f, t)
      PROVE  fleet' = [fleet EXCEPT ![f] = [fleet[f] EXCEPT !.active = t, !.queue = @ \ {t},
                                              !.executed = @ \cup {t}]]
  BY <1>0, <1>1 DEF BeginNextTask
<1>2. ASSUME NEW t \in Tasks, BeginNextTask(f, t)
      PROVE  /\ OthersStay(f) /\ BidsStay(f) /\ PlansStay(f)
             /\ UNCHANGED <<fleet[f].unassigned, fleet[f].rejected>>
             /\ fleet'[f].queue = fleet[f].queue \ {t}
             /\ fleet'[f].executed = fleet[f].executed \cup {t}
  <2> DEFINE new == [fleet[f] EXCEPT !.active = t, !.queue = @ \ {t}, !.executed = @ \cup {t}]
  <2>1. OthersStay(f) /\ fleet'[f] = new
    BY <1>0, <1>1, <1>2 DEF OthersStay
  <2>2. /\ new.queue = fleet[f].queue \ {t} /\ new.executed = fleet[f].executed \cup {t}
        /\ new.unassigned = fleet[f].unassigned /\ new.rejected = fleet[f].rejected
        /\ new.bids = fleet[f].bids /\ new.calculating = fleet[f].calculating
        /\ new.replans = fleet[f].replans /\ new.last_bid = fleet[f].last_bid
    BY <1>0 DEF FleetState
  <2> HIDE DEF new
  <2> QED BY <2>1, <2>2 DEF BidsStay, PlansStay
<1>3. CASE TaskFinished(f)
  <2>1. fleet' = [fleet EXCEPT ![f] = [fleet[f] EXCEPT !.active = None]]
    BY <1>0, <1>3 DEF TaskFinished
  <2>2. /\ OthersStay(f) /\ BidsStay(f) /\ PlansStay(f)
        /\ UNCHANGED <<fleet[f].unassigned, fleet[f].rejected, fleet[f].queue, fleet[f].executed>>
    BY <1>0, <2>1 DEF OthersStay, BidsStay, PlansStay, FleetState
  <2> QED BY <2>2
<1> QED BY <1>2, <1>3

-----------------------------------------------------------------------------
(* The second layer: fleets are asked once, and their answers stand.        *)

(* Fleets and notices as before and no new answers or open bids: the        *)
(* answers stand.                                                           *)
LEMMA FewerAnswers ==
  ASSUME AnswersStand, UNCHANGED <<fleet, notices, announced>>,
         \A f \in Fleets : \A t \in Tasks : Answered(f, t)' => Answered(f, t),
         \A t \in announced : Open(t)' => Open(t),
         announced \subseteq Tasks
  PROVE  AnswersStand'
<1> SUFFICES ASSUME NEW f \in Fleets PROVE AskedOnce(f)' /\ BidsStand(f)'
  BY DEF AnswersStand
<1>1. AskedOnce(f) /\ BidsStand(f)
  BY DEF AnswersStand
<1>2. AskedOnce(f)'
  BY <1>1 DEF AskedOnce, Asked
<1>3. \A t \in Tasks : HasBid(f, t)' <=> HasBid(f, t)
  BY DEF HasBid
<1>4. BidsStand(f)'
  BY <1>1, <1>3 DEF BidsStand
<1> QED BY <1>2, <1>4

(* Announcing a task asks every fleet for the first time.                   *)
LEMMA AnnounceKeepsAnswers ==
  ASSUME DispatchInv, OneAward, AnswersStand, Announce
  PROVE  AnswersStand'
<1> DEFINE t == Head(open_bids).task
<1>1. /\ t \in Tasks /\ t \notin announced /\ announced' = announced \cup {t}
      /\ announced \subseteq Tasks /\ None \notin Tasks
  BY FrontBid, FrontWaitsNot, DispatchAssumption DEF Announce, OneAward, DispatchInv, TypeInv, TypeOK
<1>2. UNCHANGED <<open_bids, proposals, assignment, fleet>>
  BY DEF Announce
<1> SUFFICES ASSUME NEW f \in Fleets PROVE AskedOnce(f)' /\ BidsStand(f)'
  BY DEF AnswersStand
<1>3. AskedOnce(f) /\ BidsStand(f)
  BY DEF AnswersStand
<1>4. \A s \in Tasks : (Answered(f, s)' <=> Answered(f, s)) /\ (Open(s)' <=> Open(s))
                       /\ (HasBid(f, s)' <=> HasBid(f, s))
  BY <1>2 DEF Answered, Offers, Open, HasBid
<1>5. BidsStand(f)'
  BY <1>1, <1>2, <1>3, <1>4 DEF BidsStand
<1>6. /\ notices[f] \in Seq(Tasks) /\ notices'[f] = Append(notices[f], t)
  BY DEF Announce, DispatchInv, TypeInv, TypeOK
<1> HIDE DEF t
<1>7. /\ Len(notices'[f]) = Len(notices[f]) + 1 /\ notices'[f][Len(notices[f]) + 1] = t
      /\ \A i \in 1..Len(notices'[f]) : i = Len(notices[f]) + 1 \/
           (i \in 1..Len(notices[f]) /\ notices'[f][i] = notices[f][i] /\ notices[f][i] \in Tasks)
  BY <1>1, <1>6, AppendedAt
<1>8. \A i \in 1..Len(notices[f]) : notices[f][i] \in Tasks /\ notices[f][i] # t
  BY <1>1, <1>3, <1>6 DEF AskedOnce, Asked
<1>9. \A i, j \in 1..Len(notices'[f]) : notices'[f][i] = notices'[f][j] => i = j
  BY <1>3, <1>7, <1>8 DEF AskedOnce
<1>10. \A s \in Tasks : Asked(f, s)' => Asked(f, s) \/ s = t
  BY <1>7 DEF Asked
<1>11. fleet[f].calculating.task # t /\ ~Answered(f, t)
  BY <1>1, <1>3 DEF BidsStand, NoPlan
<1>12. AskedOnce(f)'
  BY <1>1, <1>2, <1>3, <1>4, <1>9, <1>10, <1>11 DEF AskedOnce
<1> QED BY <1>5, <1>12

(* A fleet forgets a bid only when the task is no longer auctioned.         *)
LEMMA FewerBids ==
  ASSUME AnswersStand, NEW f \in Fleets, OthersStay(f), UNCHANGED <<dispatcherVars, notices, proposals>>,
         UNCHANGED fleet[f].calculating, fleet'[f].bids \subseteq fleet[f].bids,
         \A t \in Tasks : Open(t) /\ HasBid(f, t) => HasBid(f, t)',
         announced \subseteq Tasks
  PROVE  AnswersStand'
<1> SUFFICES ASSUME NEW g \in Fleets PROVE AskedOnce(g)' /\ BidsStand(g)'
  BY DEF AnswersStand
<1>1. AskedOnce(g) /\ BidsStand(g)
  BY DEF AnswersStand
<1>2. \A t \in Tasks : (Answered(g, t)' <=> Answered(g, t)) /\ (Open(t)' <=> Open(t))
  BY DEF dispatcherVars, Answered, Offers, Open
<1>3. /\ UNCHANGED <<fleet[g].calculating, notices, announced>>
      /\ fleet'[g].bids \subseteq fleet[g].bids
      /\ \A t \in Tasks : Open(t) /\ HasBid(g, t) => HasBid(g, t)'
  BY DEF OthersStay, dispatcherVars, HasBid
<1>4. AskedOnce(g)'
  BY <1>1, <1>2, <1>3 DEF AskedOnce, Asked
<1>5. \A t : HasBid(g, t)' => HasBid(g, t)
  BY <1>3 DEF HasBid
<1>6. BidsStand(g)'
  BY <1>1, <1>2, <1>3, <1>5 DEF BidsStand
<1> QED BY <1>4, <1>6

(* A fleet that is asked plans for the task, which it has no bid for.       *)
LEMMA BidNoticeKeepsAnswers ==
  ASSUME DispatchInv, AnswersStand, NEW f \in Fleets, BidNotice(f)
  PROVE  AnswersStand'
<1> DEFINE t == Head(notices[f])
<1>1. /\ notices[f] \in Seq(Tasks) /\ notices[f] # << >> /\ notices'[f] = Tail(notices[f])
      /\ \A g \in Fleets : g # f => notices'[g] = notices[g]
      /\ UNCHANGED <<dispatcherVars, proposals>>
  BY DEF BidNotice, DispatchInv, TypeInv, TypeOK
<1>2. /\ OthersStay(f) /\ UNCHANGED fleet[f].bids
      /\ \/ UNCHANGED fleet[f].calculating
         \/ /\ ~HasBid(f, t)
            /\ fleet'[f].calculating = [task |-> t, plan |-> Expectations(fleet[f]) \cup {t}]
  BY BidNoticeEffect DEF DispatchInv
<1> SUFFICES ASSUME NEW g \in Fleets PROVE AskedOnce(g)' /\ BidsStand(g)'
  BY DEF AnswersStand
<1>3. AskedOnce(g) /\ BidsStand(g)
  BY DEF AnswersStand
<1>4. \A s \in Tasks : (Answered(g, s)' <=> Answered(g, s)) /\ (Open(s)' <=> Open(s))
  BY <1>1 DEF dispatcherVars, Answered, Offers, Open
<1>5. UNCHANGED announced
  BY <1>1 DEF dispatcherVars
<1>6. CASE g # f
  <2>1. UNCHANGED <<fleet[g], notices[g]>>
    BY <1>1, <1>2, <1>6 DEF OthersStay
  <2>2. \A s : HasBid(g, s)' <=> HasBid(g, s)
    BY <2>1 DEF HasBid
  <2>3. announced \subseteq Tasks
    BY DEF DispatchInv, TypeInv, TypeOK
  <2>4. BidsStand(g)'
    BY <1>3, <1>4, <1>5, <2>1, <2>2, <2>3 DEF BidsStand
  <2> QED BY <1>3, <1>4, <1>5, <2>1, <2>4 DEF AskedOnce, Asked
<1>7. CASE g = f
  <2>1. /\ t \in Tasks /\ t = notices[f][1] /\ 1 \in 1..Len(notices[f])
        /\ \A i \in 1..Len(notices'[f]) :
             i + 1 \in 2..Len(notices[f]) /\ i + 1 \in 1..Len(notices[f])
             /\ notices'[f][i] = notices[f][i + 1]
    BY <1>1, TailAt
  <2>2. Asked(f, t) /\ \A s \in Tasks : Asked(f, s)' => Asked(f, s) /\ s # t
    <3>1. \A i \in 2..Len(notices[f]) : i # 1
      OBVIOUS
    <3> QED BY <1>3, <1>7, <2>1, <3>1 DEF Asked, AskedOnce
  <2>3. t \in announced /\ ~Answered(f, t)
    BY <1>3, <1>7, <2>1, <2>2 DEF AskedOnce
  <2>4. \A s : HasBid(f, s)' <=> HasBid(f, s)
    BY <1>2 DEF HasBid
  <2>5. \A i, j \in 1..Len(notices'[f]) : notices'[f][i] = notices'[f][j] => i = j
    <3> TAKE i, j \in 1..Len(notices'[f])
    <3>1. /\ i + 1 \in 1..Len(notices[f]) /\ notices'[f][i] = notices[f][i + 1]
          /\ j + 1 \in 1..Len(notices[f]) /\ notices'[f][j] = notices[f][j + 1]
      BY <2>1
    <3>2. notices'[f][i] = notices'[f][j] => i + 1 = j + 1
      BY <1>3, <1>7, <3>1 DEF AskedOnce
    <3> QED BY <3>2
  <2> HIDE DEF t
  <2>6. fleet'[f].calculating.task \in {fleet[f].calculating.task, t}
    BY <1>2
  <2>7. AskedOnce(f)'
    BY <1>3, <1>4, <1>5, <1>7, <2>2, <2>5, <2>6 DEF AskedOnce
  <2>8. fleet'[f].calculating # NoPlan =>
          LET s == fleet'[f].calculating.task
          IN  s \in announced /\ s \in fleet'[f].calculating.plan /\ ~Answered(f, s) /\ ~HasBid(f, s)
    <3>1. CASE UNCHANGED fleet[f].calculating
      BY <1>3, <1>7, <3>1 DEF BidsStand
    <3>2. CASE /\ ~HasBid(f, t)
               /\ fleet'[f].calculating = [task |-> t, plan |-> Expectations(fleet[f]) \cup {t}]
      <4>1. fleet'[f].calculating.task = t /\ t \in fleet'[f].calculating.plan
        BY <3>2
      <4> QED BY <2>3, <3>2, <4>1
    <3> QED BY <1>2, <3>1, <3>2
  <2>9. announced \subseteq Tasks
    BY DEF DispatchInv, TypeInv, TypeOK
  <2>10. BidsStand(f)'
    BY <1>2, <1>3, <1>4, <1>5, <1>7, <2>4, <2>8, <2>9 DEF BidsStand
  <2> QED BY <1>7, <2>7, <2>10
<1> QED BY <1>6, <1>7

(* A fleet answers with the bid it keeps.                                   *)
LEMMA BidCalculatedKeepsAnswers ==
  ASSUME DispatchInv, AnswersStand, NEW f \in Fleets, BidCalculated(f)
  PROVE  AnswersStand'
<1> DEFINE t == fleet[f].calculating.task
<1>1. /\ fleet[f].calculating \in Plan /\ t \in Tasks /\ None \notin Tasks
      /\ UNCHANGED <<dispatcherVars, notices>> /\ announced \subseteq Tasks
      /\ fleet[f].calculating # NoPlan
  BY DispatchAssumption DEF BidCalculated, DispatchInv, TypeInv, TypeOK, FleetState, Plan
<1>2. /\ OthersStay(f) /\ fleet'[f].calculating = NoPlan
      /\ \/ UNCHANGED <<fleet[f].bids, proposals>>
         \/ /\ fleet'[f].bids = fleet[f].bids \cup {fleet[f].calculating}
            /\ proposals' = proposals \cup {[task |-> t, fleet |-> f]}
  BY BidCalculatedEffect DEF DispatchInv
<1>3. CASE UNCHANGED <<fleet[f].bids, proposals>>
  <2> SUFFICES ASSUME NEW g \in Fleets PROVE AskedOnce(g)' /\ BidsStand(g)'
    BY DEF AnswersStand
  <2>1. AskedOnce(g) /\ BidsStand(g)
    BY DEF AnswersStand
  <2>2. \A s \in Tasks : (Answered(g, s)' <=> Answered(g, s)) /\ (Open(s)' <=> Open(s))
    BY <1>1, <1>3 DEF dispatcherVars, Answered, Offers, Open
  <2>3. /\ UNCHANGED <<fleet[g].bids, notices, announced>>
        /\ fleet'[g].calculating \in {fleet[g].calculating, NoPlan}
    BY <1>1, <1>2, <1>3 DEF OthersStay, dispatcherVars
  <2>4. \A s \in Tasks : HasBid(g, s)' <=> HasBid(g, s)
    BY <2>3 DEF HasBid
  <2>5. AskedOnce(g)'
    BY <1>1, <2>1, <2>2, <2>3 DEF AskedOnce, Asked, NoPlan
  <2>6. BidsStand(g)'
    BY <1>1, <2>1, <2>2, <2>3, <2>4 DEF BidsStand
  <2> QED BY <2>5, <2>6
<1>4. CASE /\ fleet'[f].bids = fleet[f].bids \cup {fleet[f].calculating}
           /\ proposals' = proposals \cup {[task |-> t, fleet |-> f]}
  <2> SUFFICES ASSUME NEW g \in Fleets PROVE AskedOnce(g)' /\ BidsStand(g)'
    BY DEF AnswersStand
  <2>1. AskedOnce(g) /\ BidsStand(g)
    BY DEF AnswersStand
  <2>2. \A s \in Tasks : /\ Answered(g, s)' <=> Answered(g, s) \/ (g = f /\ s = t)
                         /\ Open(s)' <=> Open(s)
    <3>1. \A s \in Tasks : [task |-> s, fleet |-> g] = [task |-> t, fleet |-> f] => g = f /\ s = t
      OBVIOUS
    <3> HIDE DEF t
    <3> QED BY <1>1, <1>4, <3>1 DEF dispatcherVars, Answered, Offers, Open
  <2>3. UNCHANGED <<announced, notices>>
    BY <1>1 DEF dispatcherVars
  <2>4. CASE g # f
    <3>1. UNCHANGED fleet[g]
      BY <1>2, <2>4 DEF OthersStay
    <3>2. \A s \in Tasks : HasBid(g, s)' <=> HasBid(g, s)
      BY <3>1 DEF HasBid
    <3>3. AskedOnce(g)'
      BY <2>1, <2>2, <2>3, <2>4, <3>1 DEF AskedOnce, Asked
    <3>4. BidsStand(g)'
      BY <1>1, <2>1, <2>2, <2>3, <2>4, <3>1, <3>2 DEF BidsStand
    <3> QED BY <3>3, <3>4
  <2>5. CASE g = f
    <3>1. t \in announced /\ t \in fleet[f].calculating.plan /\ ~HasBid(f, t)
      BY <1>1, <2>1, <2>5 DEF BidsStand
    <3>2. \A s \in Tasks : HasBid(f, s)' <=> HasBid(f, s) \/ s = t
      BY <1>4 DEF HasBid
    <3>3. ~Asked(f, t)
      BY <1>1, <2>1, <2>5 DEF AskedOnce
    <3>4. AskedOnce(f)'
      BY <1>1, <1>2, <2>1, <2>2, <2>3, <2>5, <3>3 DEF AskedOnce, Asked, NoPlan
    <3>5. \A b \in fleet[f].bids : b.task # t
      BY <3>1 DEF HasBid
    <3>6. BidsStand(f)'
      BY <1>2, <1>4, <2>1, <2>2, <2>3, <2>5, <3>1, <3>2, <3>5 DEF BidsStand
    <3> QED BY <2>5, <3>4, <3>6
  <2> QED BY <2>4, <2>5
<1> QED BY <1>2, <1>3, <1>4

(* No step asks a fleet twice or takes a bid away while its answer may be   *)
(* awarded.                                                                 *)
LEMMA NextAnswersStand ==
  ASSUME DispatchInv, DispatchInv', OneAward, AnswersStand, Next
  PROVE  AnswersStand'
<1> USE DEF dispatcherVars, topicVars
<1>0. /\ TypeInv /\ AuctionedOnce /\ announced \subseteq Tasks /\ status \in [Tasks -> Status]
      /\ assignment \in [Tasks -> Fleets \cup {None}]
  BY DEF DispatchInv, TypeInv, TypeOK
<1>a. ASSUME UNCHANGED <<fleet, notices, announced, proposals, open_bids, assignment>>
      PROVE  AnswersStand'
  <2>1. \A f \in Fleets : \A t \in Tasks : Answered(f, t)' => Answered(f, t)
    BY <1>a DEF Answered, Offers
  <2>2. \A t \in announced : Open(t)' => Open(t)
    BY <1>a DEF Open
  <2> QED BY <1>0, <1>a, <2>1, <2>2, FewerAnswers
<1>1. ASSUME NEW t \in Tasks, Submit(t) PROVE AnswersStand'
  <2>1. UNCHANGED <<fleet, notices, announced, proposals, assignment>>
    BY <1>1 DEF Submit
  <2>2. \A f \in Fleets : \A s \in Tasks : Answered(f, s)' => Answered(f, s)
    BY <1>0, <1>1, <2>1, SubmitOpens DEF Answered
  <2>3. \A s \in announced : Open(s)' => Open(s)
    <3>1. t \notin announced
      BY <1>1 DEF Submit, OneAward
    <3> QED BY <1>0, <1>1, <3>1, SubmitOpens
  <2> QED BY <1>0, <2>1, <2>2, <2>3, FewerAnswers
<1>2. ASSUME Conclude PROVE AnswersStand'
  <2> DEFINE t == Head(open_bids).task
  <2>1. UNCHANGED <<fleet, notices, announced, proposals>>
    BY <1>2 DEF Conclude
  <2>2. /\ \A s \in Tasks : Open(s)' => Open(s)
        /\ \A f \in Fleets : \A s \in Tasks : Offers(f, s)' => Offers(f, s)
    BY <1>0, <1>2, TailOpens DEF Conclude
  <2>3. t \in Tasks /\ \A f \in Head(open_bids).fleets : Offers(f, t)
    BY <1>0, <1>2, FrontBid, FrontWaitsNot DEF Conclude
  <2>4. \A f \in Fleets : \A s \in Tasks :
          assignment'[s] = f => assignment[s] = f \/ Offers(f, s)
    <3>1. CASE UNCHANGED assignment
      BY <3>1
    <3>2. ASSUME NEW g \in Head(open_bids).fleets, assignment' = [assignment EXCEPT ![t] = g]
          PROVE  \A s \in Tasks : assignment'[s] = IF s = t THEN g ELSE assignment[s]
      BY <1>0, <3>2
    <3>3. \/ UNCHANGED assignment
          \/ \E g \in Head(open_bids).fleets : assignment' = [assignment EXCEPT ![t] = g]
      BY <1>2 DEF Conclude
    <3> HIDE DEF t
    <3> QED BY <2>3, <3>1, <3>2, <3>3
  <2>5. \A f \in Fleets : \A s \in Tasks : Answered(f, s)' => Answered(f, s)
    BY <2>1, <2>2, <2>4 DEF Answered
  <2> QED BY <1>0, <2>1, <2>2, <2>5, FewerAnswers
<1>3. ASSUME NEW p \in proposals, ReceiveResponse(p) PROVE AnswersStand'
  <2>1. UNCHANGED <<fleet, notices, announced, assignment>> /\ proposals' \subseteq proposals
    BY <1>3 DEF ReceiveResponse
  <2>2. p = [task |-> p.task, fleet |-> p.fleet]
    BY <1>0 DEF TypeInv, TypeOK
  <2>3. /\ \A s \in Tasks : Open(s)' <=> Open(s)
        /\ \A f \in Fleets : \A s \in Tasks :
             Offers(f, s)' => Offers(f, s) \/ (s = p.task /\ f = p.fleet)
    BY <1>0, <1>3, ResponseOpens
  <2>4. \A f \in Fleets : \A s \in Tasks : Answered(f, s)' => Answered(f, s)
    BY <2>1, <2>2, <2>3 DEF Answered
  <2> QED BY <1>0, <2>1, <2>3, <2>4, FewerAnswers
<1>4. ASSUME NEW f \in Fleets, DispatchCommand(f) PROVE AnswersStand'
  <2> DEFINE c == Head(commands[f])
  <2>1. /\ c \in Followed /\ c \in Commands /\ OthersStay(f)
        /\ \/ AwardWithoutBid(f, c) \/ Forgotten(f, c) \/ Removed(f, c)
           \/ \E b \in fleet[f].bids : AwardTaken(f, c, b) \/ AwardReplanned(f, c, b)
    BY <1>4, DispatchCommandEffect
  <2>2. UNCHANGED <<dispatcherVars, notices, proposals>>
    BY <1>4 DEF DispatchCommand
  <2> HIDE DEF c
  <2>3. /\ UNCHANGED fleet[f].calculating /\ fleet'[f].bids \subseteq fleet[f].bids
        /\ \A b \in fleet[f].bids : b.task # c.task => b \in fleet'[f].bids
    BY <2>1 DEF AwardWithoutBid, Forgotten, Removed, AwardTaken, AwardReplanned, BidsStay
  <2>4. ~Open(c.task)
    <3>1. assignment[c.task] # None
      BY <2>1, DispatchAssumption DEF Followed, Commands
    <3> QED BY <1>0, <3>1 DEF Open, AuctionedOnce
  <2>5. \A t \in Tasks : Open(t) /\ HasBid(f, t) => HasBid(f, t)'
    BY <2>3, <2>4 DEF HasBid
  <2> QED BY <1>0, <2>1, <2>2, <2>3, <2>5, FewerBids
<1>5. ASSUME NEW f \in Fleets,
             \/ Replanned(f) \/ ReplanFailed(f)
             \/ \E t \in Tasks : BeginNextTask(f, t)
             \/ TaskFinished(f)
      PROVE  AnswersStand'
  <2>1. UNCHANGED <<dispatcherVars, notices, proposals>>
    BY <1>5, Zenon DEF Replanned, ReplanFailed, BeginNextTask, TaskFinished
  <2>2. OthersStay(f) /\ BidsStay(f)
    BY <1>0, <1>5, ReplanEffect, WorkEffect DEF ReplanTaken, ReplanDropped
  <2>3. \A t \in Tasks : HasBid(f, t) => HasBid(f, t)'
    BY <2>2 DEF BidsStay, HasBid
  <2> QED BY <1>0, <2>1, <2>2, <2>3, FewerBids, SMTT(30) DEF BidsStay
<1>6. Announce => AnswersStand'
  BY AnnounceKeepsAnswers
<1>7. ASSUME NEW f \in Fleets, BidNotice(f) \/ BidCalculated(f) PROVE AnswersStand'
  BY <1>7, BidNoticeKeepsAnswers, BidCalculatedKeepsAnswers
<1>8. ASSUME (\E t \in Tasks : CancelTask(t)) \/ PublishLingering \/ (\E id \in acks : HandleAck(id))
      PROVE  UNCHANGED <<fleet, notices, announced, proposals, open_bids, assignment>>
  BY <1>8 DEF CancelTask, PublishLingering, HandleAck
<1> QED BY <1>a, <1>1, <1>2, <1>3, <1>4, <1>5, <1>6, <1>7, <1>8 DEF Next

-----------------------------------------------------------------------------
(* The third layer, the steps of the dispatcher                             *)

(* No award is taken back, and only an open bid is awarded.                 *)
LEMMA AwardsStay ==
  ASSUME DispatchInv,
         \/ \E t \in Tasks : Submit(t) \/ CancelTask(t)
         \/ Announce \/ Conclude \/ PublishLingering
         \/ \E p \in proposals : ReceiveResponse(p)
         \/ \E id \in acks : HandleAck(id)
  PROVE  \A f \in Fleets : \A t \in Tasks :
           /\ assignment[t] = f => assignment'[t] = f
           /\ assignment'[t] = f => assignment[t] = f \/ (Open(t) /\ Offers(f, t))
<1>0. TypeInv /\ AuctionedOnce /\ assignment \in [Tasks -> Fleets \cup {None}] /\ None \notin Fleets
  BY DispatchAssumption DEF DispatchInv, TypeInv, TypeOK
<1>1. CASE Conclude
  <2> DEFINE t == Head(open_bids).task
  <2>1. t \in Tasks /\ assignment[t] = None /\ Open(t)
        /\ \A f \in Head(open_bids).fleets : f \in Fleets /\ Offers(f, t)
    BY <1>0, <1>1, FrontBid, FrontWaitsNot DEF Conclude, AuctionedOnce
  <2>2. \/ UNCHANGED assignment
        \/ \E f \in Head(open_bids).fleets : assignment' = [assignment EXCEPT ![t] = f]
    BY <1>1 DEF Conclude
  <2> HIDE DEF t
  <2>3. ASSUME NEW f \in Head(open_bids).fleets, assignment' = [assignment EXCEPT ![t] = f]
        PROVE  \A s \in Tasks : assignment'[s] = IF s = t THEN f ELSE assignment[s]
    BY <1>0, <2>1, <2>3
  <2> QED BY <1>0, <2>1, <2>2, <2>3
<1>2. CASE \/ \E t \in Tasks : Submit(t) \/ CancelTask(t)
           \/ Announce \/ PublishLingering
           \/ \E p \in proposals : ReceiveResponse(p)
           \/ \E id \in acks : HandleAck(id)
  BY <1>2 DEF Submit, CancelTask, Announce, PublishLingering, ReceiveResponse, HandleAck, dispatcherVars
<1> QED BY <1>1, <1>2

(* A step of the dispatcher that awards only an open bid with an answer     *)
(* keeps the plans of a fleet good.                                         *)
LEMMA DispatcherKeepsPlans ==
  ASSUME DispatchInv, AnswersStand, NEW f \in Fleets, ReplansHold(f), BidsHold(f),
         UNCHANGED fleet, \A t \in announced : Open(t)' => Open(t),
         \A g \in Fleets : \A t \in Tasks :
           /\ assignment[t] = g => assignment'[t] = g
           /\ assignment'[t] = g => assignment[t] = g \/ (Open(t) /\ Offers(g, t))
  PROVE  ReplansHold(f)' /\ BidsHold(f)'
<1>1. fleet[f] \in FleetState /\ announced \subseteq Tasks
  BY DEF DispatchInv, TypeInv, TypeOK
<1>2. \A t \in Tasks : HasBid(f, t)' <=> HasBid(f, t)
  BY DEF HasBid
<1>3. Given(f)' = Given(f)
  BY DEF Given
<1>4. \A i \in 1..Len(fleet[f].replans) : fleet[f].replans[i].last_bid \in Tasks \cup {None}
  <2>1. fleet[f].replans \in Seq(Replan)
    BY <1>1 DEF FleetState
  <2>2. \A i \in 1..Len(fleet[f].replans) : fleet[f].replans[i] \in Replan
    BY <2>1
  <2> QED BY <2>2 DEF Replan
<1>5. fleet[f].last_bid \in Tasks \cup {None}
  BY <1>1 DEF FleetState
<1>6. ReplansHold(f)'
  BY <1>2, <1>3, <1>4, <1>5 DEF ReplansHold, Expectations
<1>7. \A b \in fleet[f].bids \cup ({fleet[f].calculating} \ {NoPlan}) : b.task \in announced
  BY DEF AnswersStand, BidsStand
<1>8. BidsHold(f)'
  BY <1>1, <1>3, <1>7 DEF BidsHold, Expectations
<1> QED BY <1>6, <1>8

(* Announced tasks are not auctioned again.                                 *)
LEMMA OpensStay ==
  ASSUME DispatchInv, OneAward,
         \/ \E t \in Tasks : Submit(t) \/ CancelTask(t)
         \/ Announce \/ Conclude \/ PublishLingering
         \/ \E p \in proposals : ReceiveResponse(p)
         \/ \E id \in acks : HandleAck(id)
  PROVE  \A t \in announced : Open(t)' => Open(t)
<1>0. TypeInv /\ AuctionedOnce /\ announced \subseteq Tasks
  BY DEF DispatchInv, TypeInv, TypeOK
<1>1. ASSUME NEW t \in Tasks, Submit(t) PROVE \A s \in announced : Open(s)' => Open(s)
  <2>1. t \notin announced
    BY <1>1 DEF Submit, OneAward
  <2> QED BY <1>0, <1>1, <2>1, SubmitOpens
<1>2. ASSUME Conclude PROVE \A s \in announced : Open(s)' => Open(s)
  BY <1>0, <1>2, TailOpens DEF Conclude
<1>3. ASSUME NEW p \in proposals, ReceiveResponse(p) PROVE \A s \in announced : Open(s)' => Open(s)
  BY <1>0, <1>3, ResponseOpens
<1>4. ASSUME UNCHANGED open_bids PROVE \A s \in announced : Open(s)' => Open(s)
  BY <1>4 DEF Open
<1> QED BY <1>1, <1>2, <1>3, <1>4 DEF CancelTask, Announce, PublishLingering, HandleAck, dispatcherVars

(* The award of a task whose bid the fleet still has is the only one, and   *)
(* no open bid was announced.                                               *)
LEMMA OneFreshAward ==
  ASSUME OneAward, PlansKept, NEW f \in Fleets, NEW t \in Tasks, assignment[t] = f, HasBid(f, t)
  PROVE  /\ \A c \in Awards : c.task = t
         /\ \A s \in announced : ~Open(s)
         /\ \A s \in Tasks : assignment[s] = f /\ HasBid(f, s) => s = t
BY DEF OneAward, PlansKept, AwardsArrive, AwardComes

(* Commands that are sent come behind the others, and an award among them is *)
(* the one that lasts.                                                      *)
LEMMA MoreCommands ==
  ASSUME DispatchInv, NEW f \in Fleets, AwardsArrive(f), UNCHANGED fleet,
         Awards \subseteq Awards', \A c, d \in Awards' : c = d,
         Len(commands[f]) \in Nat,
         \A i \in 1..Len(commands[f]) : i \in 1..Len(commands'[f]) /\ commands'[f][i] = commands[f][i],
         \A i \in 1..Len(commands'[f]) :
           \/ i \in 1..Len(commands[f])
           \/ /\ i > Len(commands[f])
              /\ i \in AwardsOf(f)' => commands'[f][i] \in Awards',
         \A c \in Awards' : c.fleet = f => c.task = fleet[f].last_bid \/ HasBid(f, c.task),
         \A t \in Tasks : assignment'[t] = f /\ HasBid(f, t) => assignment[t] = f \/ AwardComes(f, t)'
  PROVE  AwardsArrive(f)'
<1>1. \A t : HasBid(f, t)' <=> HasBid(f, t)
  BY DEF HasBid
<1>2. \A i \in 1..Len(commands[f]) : i \in AwardsOf(f)' <=> i \in AwardsOf(f)
  BY DEF AwardsOf
<1>3. \A i \in AwardsOf(f)' : i \in AwardsOf(f) \/ (i > Len(commands[f]) /\ commands'[f][i] \in Awards')
  BY <1>2 DEF AwardsOf
<1>4. \A i \in AwardsOf(f)' : commands'[f][i].fleet = f
  BY DEF AwardsOf
<1>5. \A i \in AwardsOf(f) : i \in 1..Len(commands[f]) /\ commands'[f][i] = commands[f][i]
  BY DEF AwardsOf
<1>6. \A i \in AwardsOf(f)' :
        commands'[f][i].task = fleet[f].last_bid \/ HasBid(f, commands'[f][i].task)
  BY <1>3, <1>4, <1>5 DEF AwardsArrive
<1>7. ASSUME NEW t \in Tasks, assignment'[t] = f, HasBid(f, t) PROVE AwardComes(f, t)'
  <2>1. CASE AwardComes(f, t)'
    BY <2>1
  <2>2. CASE assignment[t] = f
    <3>1. AwardComes(f, t)
      BY <1>7, <2>2 DEF AwardsArrive
    <3>2. PICK i \in AwardsOf(f) :
             commands[f][i].task = t /\ \A j \in 1..(i - 1) : commands[f][j].task # t
      BY <3>1 DEF AwardComes
    <3>3. i \in 1..Len(commands[f]) /\ \A j \in 1..(i - 1) : j \in 1..Len(commands[f])
      BY DEF AwardsOf
    <3>4. i \in AwardsOf(f)' /\ commands'[f][i].task = t /\ \A j \in 1..(i - 1) : commands'[f][j].task # t
      BY <1>2, <3>2, <3>3
    <3>5. \E c \in Awards' : c.task = t
      BY <3>1 DEF AwardComes
    <3> QED BY <3>4, <3>5 DEF AwardComes
  <2> QED BY <1>7, <2>1, <2>2
<1>8. ASSUME NEW i \in AwardsOf(f)', NEW j \in AwardsOf(f)', i < j,
             commands'[f][i].task # fleet[f].last_bid
      PROVE  commands'[f][j].task # fleet[f].last_bid
  <2>1. CASE i \in AwardsOf(f) /\ j \in AwardsOf(f)
    BY <1>5, <1>8, <2>1 DEF AwardsArrive
  <2>2. CASE i \in AwardsOf(f) /\ commands'[f][j] \in Awards'
    <3>1. commands[f][i] \in Followed /\ commands'[f][i] = commands[f][i] /\ commands[f][i].fleet = f
      <4>1. commands[f] \in Seq(Followed) /\ i \in 1..Len(commands[f])
        BY <2>2 DEF DispatchInv, CommandsFollow, AwardsOf
      <4> QED BY <2>2, <4>1 DEF AwardsOf
    <3>2. commands[f][i].task \in Tasks /\ assignment[commands[f][i].task] = f
      BY <3>1 DEF Followed, Commands
    <3>3. HasBid(f, commands[f][i].task)
      BY <1>8, <2>2, <3>1 DEF AwardsArrive
    <3>4. \E c \in Awards : c.task = commands[f][i].task
      BY <3>2, <3>3 DEF AwardsArrive, AwardComes
    <3>5. commands'[f][j].task = commands[f][i].task
      BY <2>2, <3>4
    <3> QED BY <1>8, <3>1, <3>5
  <2>3. CASE commands'[f][i] \in Awards' /\ commands'[f][j] \in Awards'
    <3>1. commands'[f][i] = commands'[f][j]
      BY <2>3
    <3> QED BY <1>8, <3>1
  <2>4. ~(i > Len(commands[f]) /\ j \in AwardsOf(f))
    BY <1>8 DEF AwardsOf
  <2> QED BY <1>3, <2>1, <2>2, <2>3, <2>4
<1>9. UNCHANGED fleet[f].last_bid
  OBVIOUS
<1> QED BY <1>1, <1>6, <1>7, <1>8, <1>9 DEF AwardsArrive

(* A command is sent to every fleet.                                        *)
LEMMA SentAt ==
  ASSUME DispatchInv, DispatchInv', NEW c, Send(c), NEW f \in Fleets
  PROVE  /\ Len(commands[f]) \in Nat
         /\ \A i \in 1..Len(commands[f]) : i \in 1..Len(commands'[f]) /\ commands'[f][i] = commands[f][i]
         /\ Len(commands[f]) + 1 \in 1..Len(commands'[f]) /\ commands'[f][Len(commands[f]) + 1] = c
         /\ \A i \in 1..Len(commands'[f]) : i \in 1..Len(commands[f]) \/ i = Len(commands[f]) + 1
<1>1. commands[f] \in Seq(Commands) /\ commands'[f] = Append(commands[f], c)
  BY DEF Send, DispatchInv, TypeInv, TypeOK
<1>2. commands[f] \in Seq(Commands \cup {c}) /\ c \in Commands \cup {c}
  BY <1>1, SeqMonotonic
<1> QED BY <1>1, <1>2, AppendedAt

(* Cancelling a task adds a removal behind the awards that are on their     *)
(* way.                                                                     *)
LEMMA CancelKeepsAwards ==
  ASSUME DispatchInv, DispatchInv', OneAward, PlansKept, NEW t \in Tasks, CancelTask(t), NEW f \in Fleets
  PROVE  AwardsArrive(f)' /\ Awards' = Awards
<1> USE DEF dispatcherVars, topicVars
<1>0. AwardsArrive(f) /\ \A c, d \in Awards : c = d
  BY DEF PlansKept, OneAward
<1>1. CASE UNCHANGED <<lingering, commands>>
  BY <1>0, <1>1 DEF CancelTask, AwardsArrive, AwardComes, AwardsOf, Awards, HasBid
<1>2. CASE Send(Command(t, assignment[t], "remove"))
  <2> DEFINE c == Command(t, assignment[t], "remove")
  <2>1. c.type = "remove" /\ lingering' = lingering \cup {c}
    BY <1>2 DEF Command, Send
  <2> HIDE DEF c
  <2>2. Awards' = Awards
    BY <2>1 DEF Awards
  <2>3. UNCHANGED <<fleet, assignment>>
    BY DEF CancelTask
  <2>4. /\ Len(commands[f]) \in Nat
        /\ \A i \in 1..Len(commands[f]) : i \in 1..Len(commands'[f]) /\ commands'[f][i] = commands[f][i]
        /\ commands'[f][Len(commands[f]) + 1] = c
        /\ \A i \in 1..Len(commands'[f]) : i \in 1..Len(commands[f]) \/ i = Len(commands[f]) + 1
    BY <1>2, SentAt DEF c
  <2>5. \A i \in 1..Len(commands'[f]) :
          \/ i \in 1..Len(commands[f])
          \/ /\ i > Len(commands[f])
             /\ i \in AwardsOf(f)' => commands'[f][i] \in Awards'
    BY <2>1, <2>4 DEF AwardsOf
  <2>6. \A d \in Awards' : d.fleet = f => d.task = fleet[f].last_bid \/ HasBid(f, d.task)
    BY <1>0, <2>2 DEF AwardsArrive
  <2> QED BY <1>0, <2>2, <2>3, <2>4, <2>5, <2>6, MoreCommands
<1> QED BY <1>1, <1>2 DEF CancelTask

(* Sending again what is not acknowledged adds only the award that lasts.   *)
LEMMA PublishKeepsAwards ==
  ASSUME DispatchInv, OneAward, PlansKept, PublishLingering, NEW f \in Fleets
  PROVE  AwardsArrive(f)' /\ Awards' = Awards
<1>0. AwardsArrive(f) /\ \A c, d \in Awards : c = d
  BY DEF PlansKept, OneAward
<1>1. UNCHANGED <<fleet, assignment, lingering>>
  BY DEF PublishLingering, dispatcherVars
<1>2. Awards' = Awards
  BY <1>1 DEF Awards
<1>3. /\ Len(commands[f]) \in Nat
      /\ \A i \in 1..Len(commands[f]) : i \in 1..Len(commands'[f]) /\ commands'[f][i] = commands[f][i]
      /\ \A i \in 1..Len(commands'[f]) :
           i \in 1..Len(commands[f]) \/ (i > Len(commands[f]) /\ commands'[f][i] \in lingering)
  BY PublishedAgain
<1>4. \A i \in 1..Len(commands'[f]) :
        \/ i \in 1..Len(commands[f])
        \/ /\ i > Len(commands[f])
           /\ i \in AwardsOf(f)' => commands'[f][i] \in Awards'
  BY <1>2, <1>3 DEF AwardsOf, Awards
<1>5. \A d \in Awards' : d.fleet = f => d.task = fleet[f].last_bid \/ HasBid(f, d.task)
  BY <1>0, <1>2 DEF AwardsArrive
<1> QED BY <1>0, <1>1, <1>2, <1>3, <1>4, <1>5, MoreCommands

(* A new award is the first command about its task, and the only award that *)
(* lasts.                                                                   *)
LEMMA AwardedArrives ==
  ASSUME DispatchInv, DispatchInv', AnswersStand, PlansKept, Awards = {}, open_bids # << >>,
         NEW g \in Head(open_bids).fleets, NEW f \in Fleets,
         assignment' = [assignment EXCEPT ![Head(open_bids).task] = g],
         Send(Command(Head(open_bids).task, g, "award")), UNCHANGED fleet
  PROVE  AwardsArrive(f)' /\ Awards' = {Command(Head(open_bids).task, g, "award")}
<1> DEFINE t == Head(open_bids).task
           c == Command(t, g, "award")
<1>1. /\ c.type = "award" /\ c.task = t /\ c.fleet = g /\ lingering' = lingering \cup {c}
  BY DEF Command, Send
<1>2. /\ t \in Tasks /\ g \in Fleets /\ assignment[t] = None /\ Open(t) /\ Offers(g, t)
      /\ assignment \in [Tasks -> Fleets \cup {None}]
  <2>1. TypeInv /\ AuctionedOnce /\ assignment \in [Tasks -> Fleets \cup {None}]
    BY DEF DispatchInv, TypeInv, TypeOK
  <2>2. t \in Tasks /\ g \in Fleets /\ Head(open_bids) = open_bids[1] /\ 1 \in 1..Len(open_bids)
    BY <2>1, FrontBid
  <2>3. Open(t) /\ Offers(g, t)
    BY <2>1, FrontWaitsNot
  <2>4. assignment[t] = None
    BY <2>1, <2>2 DEF AuctionedOnce
  <2> QED BY <2>1, <2>2, <2>3, <2>4
<1>3. HasBid(g, t)
  BY <1>2 DEF AnswersStand, BidsStand, Answered
<1>4. \A s \in Tasks : assignment'[s] = IF s = t THEN g ELSE assignment[s]
  BY <1>2
<1>5. /\ Len(commands[f]) \in Nat
      /\ \A i \in 1..Len(commands[f]) : i \in 1..Len(commands'[f]) /\ commands'[f][i] = commands[f][i]
      /\ Len(commands[f]) + 1 \in 1..Len(commands'[f]) /\ commands'[f][Len(commands[f]) + 1] = c
      /\ \A i \in 1..Len(commands'[f]) : i \in 1..Len(commands[f]) \/ i = Len(commands[f]) + 1
  BY SentAt
<1>6. \A i \in 1..Len(commands[f]) : commands[f][i].task # t
  <2>1. commands[f] \in Seq(Followed)
    BY DEF DispatchInv, CommandsFollow
  <2>2. \A i \in 1..Len(commands[f]) : commands[f][i] \in Followed
    BY <2>1
  <2> QED BY <1>2, <2>2, DispatchAssumption DEF Followed, Commands
<1> HIDE DEF c, t
<1>7. Awards' = {c}
  BY <1>1 DEF Awards
<1>8. \A i \in 1..Len(commands'[f]) :
        \/ i \in 1..Len(commands[f])
        \/ /\ i > Len(commands[f])
           /\ i \in AwardsOf(f)' => commands'[f][i] \in Awards'
  BY <1>5, <1>7
<1>9. \A d \in Awards' : d.fleet = f => d.task = fleet[f].last_bid \/ HasBid(f, d.task)
  BY <1>1, <1>3, <1>7
<1>10. ASSUME NEW s \in Tasks, assignment'[s] = f, assignment[s] # f PROVE AwardComes(f, s)'
  <2>1. s = t /\ f = g
    BY <1>4, <1>10
  <2>2. Len(commands[f]) + 1 \in AwardsOf(f)'
    BY <1>1, <1>5, <2>1 DEF AwardsOf
  <2>3. \A j \in 1..(Len(commands[f]) + 1 - 1) : commands'[f][j].task # t
    BY <1>5, <1>6
  <2>4. commands'[f][Len(commands[f]) + 1].task = t /\ \E d \in Awards' : d.task = t
    BY <1>1, <1>5, <1>7
  <2> QED BY <2>1, <2>2, <2>3, <2>4 DEF AwardComes
<1>11. AwardsArrive(f)
  BY DEF PlansKept
<1>12. AwardsArrive(f)'
  BY <1>5, <1>7, <1>8, <1>9, <1>10, <1>11, MoreCommands
<1> QED BY <1>7, <1>12 DEF c, t

(* An award is acknowledged only after its bid is gone, so it need not      *)
(* arrive again.                                                            *)
LEMMA AckKeepsAwards ==
  ASSUME DispatchInv, OneAward, PlansKept, AcksFollow, NEW id \in acks, HandleAck(id), NEW f \in Fleets
  PROVE  AwardsArrive(f)' /\ Awards' \subseteq Awards
<1>1. UNCHANGED <<fleet, assignment, commands>> /\ lingering' \subseteq lingering
  BY DEF HandleAck
<1>2. Awards' \subseteq Awards
  BY <1>1 DEF Awards
<1>3. AwardsArrive(f)
  BY DEF PlansKept
<1>4. \A c \in lingering \ lingering' : c.id = id
  BY DEF HandleAck
<1>5. ASSUME NEW t \in Tasks, assignment[t] = f, HasBid(f, t) PROVE \E c \in Awards' : c.task = t
  <2>1. PICK c \in Awards : c.task = t
    BY <1>3, <1>5 DEF AwardsArrive, AwardComes
  <2>2. c.fleet = f
    BY <1>5, <2>1 DEF DispatchInv, CommandsFollow, Followed, Awards
  <2>3. c.id # id
    BY <1>5, <2>1, <2>2 DEF AcksFollow
  <2> QED BY <1>4, <2>1, <2>3 DEF Awards
<1>6. \A t : HasBid(f, t)' <=> HasBid(f, t)
  BY <1>1 DEF HasBid
<1>7. AwardsOf(f)' = AwardsOf(f)
  BY <1>1 DEF AwardsOf
<1>8. \A t \in Tasks : assignment[t] = f /\ HasBid(f, t) => AwardComes(f, t)'
  BY <1>1, <1>3, <1>5, <1>7 DEF AwardsArrive, AwardComes
<1>9. AwardsArrive(f)'
  BY <1>1, <1>2, <1>3, <1>6, <1>7, <1>8 DEF AwardsArrive
<1> QED BY <1>2, <1>9

(* Ending an auction, with or without an award, keeps the awards in order   *)
(* and the dispatched tasks.                                                *)
LEMMA ConcludeKeepsAwards ==
  ASSUME Prompt, KeptInv, DispatchInv', Conclude
  PROVE  (\A f \in Fleets : AwardsArrive(f)') /\ AcksFollow' /\ DispatchedIsDone'
<1> DEFINE t == Head(open_bids).task
<1>0. /\ DispatchInv /\ AnswersStand /\ PlansKept /\ AcksFollow /\ DispatchedIsDone
      /\ (\A f \in Fleets : AwardsArrive(f))
      /\ TypeInv /\ status \in [Tasks -> Status] /\ t \in Tasks
      /\ assignment \in [Tasks -> Fleets \cup {None}]
      /\ lingering \subseteq Commands /\ acks \subseteq Ids /\ fleet \in [Fleets -> FleetState]
      /\ next_command \in Nat \ {0}
  BY FrontBid DEF KeptInv, PlansKept, Conclude, DispatchInv, TypeInv, TypeOK
<1>1. Awards = {} /\ open_bids # << >> /\ UNCHANGED <<fleet, acks>>
  BY DEF Conclude, Awards
<1>2. CASE UNCHANGED <<status, assignment, lingering, commands>>
  BY <1>0, <1>1, <1>2
    DEF AwardsArrive, AwardComes, AwardsOf, Awards, HasBid, AcksFollow, DispatchedIsDone
<1>3. CASE /\ status' = [status EXCEPT ![t] = "failed_to_assign"]
           /\ UNCHANGED <<assignment, lingering, commands>>
  <2>1. (\A f \in Fleets : AwardsArrive(f)') /\ AcksFollow'
    BY <1>0, <1>1, <1>3 DEF AwardsArrive, AwardComes, AwardsOf, Awards, HasBid, AcksFollow
  <2>2. \A s \in Tasks : status'[s] = "dispatched" => status[s] = "dispatched"
    BY <1>0, <1>3
  <2> QED BY <1>0, <1>3, <2>1, <2>2 DEF DispatchedIsDone, Awards
<1>4. ASSUME NEW g \in Head(open_bids).fleets, assignment' = [assignment EXCEPT ![t] = g],
             Send(Command(t, g, "award")), status' = [status EXCEPT ![t] = "selected"]
      PROVE  (\A f \in Fleets : AwardsArrive(f)') /\ AcksFollow' /\ DispatchedIsDone'
  <2> DEFINE c == Command(t, g, "award")
  <2>0. g \in Fleets
    BY <1>0, <1>1, <1>4, FrontBid
  <2>1. (\A f \in Fleets : AwardsArrive(f)') /\ Awards' = {c}
    BY <1>0, <1>1, <1>4, <2>0, AwardedArrives
  <2>2. c.id = next_command /\ c.task = t
    BY DEF Command
  <2>3. next_command \notin Ids \cup {0}
    BY <1>0 DEF Ids
  <2>4. \A h \in Fleets : \A i \in 1..Len(fleet[h].replans) : fleet[h].replans[i].id \in Ids \cup {0}
    <3> TAKE h \in Fleets
    <3>1. fleet[h].replans \in Seq(Replan)
      BY <1>0 DEF FleetState
    <3>2. \A i \in 1..Len(fleet[h].replans) : fleet[h].replans[i] \in Replan
      BY <3>1
    <3> QED BY <3>2 DEF Replan
  <2> HIDE DEF c
  <2>5. AcksFollow'
    BY <1>0, <1>1, <2>1, <2>2, <2>3, <2>4 DEF AcksFollow
  <2>6. \A s \in Tasks : status'[s] = "dispatched" =>
          s # t /\ status[s] = "dispatched" /\ assignment'[s] = assignment[s]
    BY <1>0, <1>4
  <2>7. DispatchedIsDone'
    BY <1>0, <2>1, <2>2, <2>6 DEF DispatchedIsDone
  <2> QED BY <2>1, <2>5, <2>7
<1> QED BY <1>2, <1>3, <1>4 DEF Conclude

(* No step of the dispatcher loses a task of a fleet.                       *)
LEMMA DispatcherKeepsTasks ==
  ASSUME Prompt, KeptInv, DispatchInv',
         \/ \E t \in Tasks : Submit(t) \/ CancelTask(t)
         \/ Announce \/ Conclude \/ PublishLingering
         \/ \E p \in proposals : ReceiveResponse(p)
         \/ \E id \in acks : HandleAck(id)
  PROVE  PlansKept' /\ AcksFollow' /\ NothingLost' /\ DispatchedIsDone'
<1> USE DEF dispatcherVars, topicVars
<1>0. /\ DispatchInv /\ Numbered /\ OneAward /\ AnswersStand /\ PlansKept /\ AcksFollow
      /\ NothingLost /\ DispatchedIsDone /\ status \in [Tasks -> Status]
      /\ lingering \subseteq Followed
  BY DEF KeptInv, DispatchInv, TypeInv, TypeOK, CommandsFollow
<1>1. UNCHANGED fleet
  BY DEF Submit, CancelTask, Announce, Conclude, PublishLingering, ReceiveResponse, HandleAck
<1>2. \A g \in Fleets : \A t \in Tasks :
        /\ assignment[t] = g => assignment'[t] = g
        /\ assignment'[t] = g => assignment[t] = g \/ (Open(t) /\ Offers(g, t))
  BY <1>0, AwardsStay
<1>3. ASSUME NEW f \in Fleets PROVE ReplansHold(f)' /\ BidsHold(f)'
  <2>1. \A t \in announced : Open(t)' => Open(t)
    BY <1>0, OpensStay
  <2>2. ReplansHold(f) /\ BidsHold(f)
    BY <1>0 DEF PlansKept
  <2> QED BY <1>0, <1>1, <1>2, <2>1, <2>2, DispatcherKeepsPlans
<1>4. NothingLost'
  <2>1. ASSUME NEW f \in Fleets, NEW t \in Tasks, assignment'[t] = f
        PROVE  HasBid(f, t) \/ t \in Has(f) \cup fleet[f].rejected
    <3>1. CASE assignment[t] = f
      BY <1>0, <3>1 DEF NothingLost
    <3>2. CASE Open(t) /\ Offers(f, t)
      BY <1>0, <3>2 DEF AnswersStand, BidsStand, Answered
    <3> QED BY <1>2, <2>1, <3>1, <3>2
  <2> QED BY <1>1, <2>1 DEF NothingLost, HasBid, Has
<1>6. ASSUME \A f \in Fleets : AwardsArrive(f)', AcksFollow', DispatchedIsDone'
      PROVE  PlansKept' /\ AcksFollow' /\ NothingLost' /\ DispatchedIsDone'
  BY <1>3, <1>4, <1>6 DEF PlansKept
<1>a. ASSUME UNCHANGED <<fleet, assignment, commands, lingering, acks>>,
             \A t \in Tasks : status'[t] = "dispatched" => status[t] = "dispatched"
      PROVE  (\A f \in Fleets : AwardsArrive(f)') /\ AcksFollow' /\ DispatchedIsDone'
  <2>1. \A f \in Fleets : AwardsArrive(f)'
    BY <1>0, <1>a DEF PlansKept, AwardsArrive, AwardComes, AwardsOf, Awards, HasBid
  <2>2. AcksFollow' /\ DispatchedIsDone'
    BY <1>0, <1>a DEF AcksFollow, DispatchedIsDone, Awards, HasBid
  <2> QED BY <2>1, <2>2
<1>7. ASSUME NEW t \in Tasks, Submit(t)
      PROVE  (\A f \in Fleets : AwardsArrive(f)') /\ AcksFollow' /\ DispatchedIsDone'
  BY <1>0, <1>7, <1>a DEF Submit
<1>8. ASSUME NEW t \in Tasks, CancelTask(t)
      PROVE  (\A f \in Fleets : AwardsArrive(f)') /\ AcksFollow' /\ DispatchedIsDone'
  <2>1. \A f \in Fleets : AwardsArrive(f)'
    BY <1>0, <1>8, CancelKeepsAwards
  <2>2. UNCHANGED <<acks, assignment>>
        /\ \A s \in Tasks : status'[s] = "dispatched" => status[s] = "dispatched"
    BY <1>0, <1>8 DEF CancelTask
  <2>3. UNCHANGED lingering \/ Send(Command(t, assignment[t], "remove"))
    BY <1>8 DEF CancelTask
  <2>4. Awards' = Awards
    BY <2>3 DEF Awards, Send, Command
  <2>5. AcksFollow'
    BY <1>0, <1>1, <2>2, <2>4 DEF AcksFollow, HasBid
  <2>6. DispatchedIsDone'
    BY <1>0, <2>2, <2>4 DEF DispatchedIsDone
  <2> QED BY <2>1, <2>5, <2>6
<1>9. ASSUME Announce
      PROVE  (\A f \in Fleets : AwardsArrive(f)') /\ AcksFollow' /\ DispatchedIsDone'
  BY <1>0, <1>9, <1>a DEF Announce
<1>10. ASSUME PublishLingering
       PROVE  (\A f \in Fleets : AwardsArrive(f)') /\ AcksFollow' /\ DispatchedIsDone'
  <2>1. \A f \in Fleets : AwardsArrive(f)'
    BY <1>0, <1>10, PublishKeepsAwards
  <2>2. UNCHANGED <<acks, assignment, status, lingering>>
    BY <1>10 DEF PublishLingering
  <2> QED BY <1>0, <1>1, <2>1, <2>2 DEF AcksFollow, DispatchedIsDone, HasBid, Awards
<1>11. ASSUME NEW p \in proposals, ReceiveResponse(p)
       PROVE  (\A f \in Fleets : AwardsArrive(f)') /\ AcksFollow' /\ DispatchedIsDone'
  BY <1>0, <1>11, <1>a DEF ReceiveResponse
<1>12. ASSUME NEW id \in acks, HandleAck(id)
       PROVE  (\A f \in Fleets : AwardsArrive(f)') /\ AcksFollow' /\ DispatchedIsDone'
  <2>1. \A f \in Fleets : AwardsArrive(f)'
    BY <1>0, <1>12, AckKeepsAwards
  <2>2. Awards' \subseteq Awards /\ acks' \subseteq acks /\ UNCHANGED assignment
    BY <1>12 DEF HandleAck, Awards
  <2>3. AcksFollow'
    BY <1>0, <1>1, <2>2 DEF AcksFollow, HasBid
  <2>4. ASSUME NEW t \in Tasks, status'[t] = "dispatched", status[t] # "dispatched"
        PROVE  assignment[t] \in Fleets /\ \A c \in Awards' : c.task # t
    <3>1. PICK c \in lingering : /\ c.type = "award" /\ lingering' = lingering \ {c} /\ c.task = t
      BY <1>0, <1>12, <2>4 DEF HandleAck
    <3>2. c \in Awards /\ Awards' = {}
      BY <1>0, <3>1 DEF OneAward, Awards
    <3>3. assignment[t] \in Fleets
      BY <1>0, <3>1 DEF Followed, Commands
    <3> QED BY <3>2, <3>3
  <2>5. DispatchedIsDone'
    BY <1>0, <2>2, <2>4 DEF DispatchedIsDone
  <2> QED BY <2>1, <2>3, <2>5
<1>13. ASSUME Conclude
       PROVE  (\A f \in Fleets : AwardsArrive(f)') /\ AcksFollow' /\ DispatchedIsDone'
  BY <1>0, <1>13, ConcludeKeepsAwards
<1> QED BY <1>6, <1>7, <1>8, <1>9, <1>10, <1>11, <1>12, <1>13

-----------------------------------------------------------------------------
(* The third layer, the steps of the fleets                                 *)

(* What a fleet expects to do changes only by what began, was removed or     *)
(* was rejected.                                                            *)
SameExpectations(f) ==
  /\ Given(f) \subseteq Given(f)'
  /\ Expectations(fleet'[f]) \subseteq Expectations(fleet[f]) \cup Given(f)'
  /\ Expectations(fleet[f]) \subseteq Expectations(fleet'[f]) \cup Given(f)'

(* A step of one fleet keeps the whole invariant when its plans, its awards *)
(* and its own tasks stay good.                                             *)
LEMMA FleetStepKeeps ==
  ASSUME KeptInv, NEW f \in Fleets, OthersStay(f), UNCHANGED dispatcherVars,
         \A g \in Fleets : g # f => commands'[g] = commands[g],
         ReplansHold(f)', BidsHold(f)', AwardsArrive(f)',
         \A c \in Awards : HasBid(c.fleet, c.task)' =>
           /\ HasBid(c.fleet, c.task) /\ c.id \notin acks'
           /\ \A i \in 1..Len(fleet'[f].replans) : fleet'[f].replans[i].id # c.id,
         \A t \in Tasks : assignment[t] = f => HasBid(f, t)' \/ t \in (Has(f) \cup fleet[f].rejected)'
  PROVE  PlansKept' /\ AcksFollow' /\ NothingLost' /\ DispatchedIsDone'
<1>1. UNCHANGED <<assignment, open_bids, lingering, status>>
  BY DEF dispatcherVars
<1>2. Awards' = Awards /\ \A t : Open(t)' <=> Open(t)
  BY <1>1 DEF Awards, Open
<1>3. ASSUME NEW g \in Fleets, g # f
      PROVE  /\ ReplansHold(g)' /\ BidsHold(g)' /\ AwardsArrive(g)'
             /\ \A t \in Tasks : assignment[t] = g => HasBid(g, t)' \/ t \in (Has(g) \cup fleet[g].rejected)'
  <2>1. UNCHANGED <<fleet[g], commands[g]>>
    BY <1>3 DEF OthersStay
  <2>2. \A t : HasBid(g, t)' <=> HasBid(g, t)
    BY <2>1 DEF HasBid
  <2>3. ReplansHold(g)
    BY DEF KeptInv, PlansKept
  <2>4. ReplansHold(g)'
    BY <1>1, <2>1, <2>2, <2>3 DEF ReplansHold, Given, Expectations
  <2>5. BidsHold(g)
    BY DEF KeptInv, PlansKept
  <2>6. BidsHold(g)'
    BY <1>1, <1>2, <2>1, <2>5 DEF BidsHold, Given, Expectations
  <2>7. AwardsArrive(g)
    BY DEF KeptInv, PlansKept
  <2>8. AwardsArrive(g)'
    <3>1. AwardsOf(g)' = AwardsOf(g)
      BY <2>1 DEF AwardsOf
    <3>2. \A t : AwardComes(g, t)' <=> AwardComes(g, t)
      BY <1>2, <2>1, <3>1 DEF AwardComes
    <3> QED BY <1>1, <1>2, <2>1, <2>2, <2>7, <3>1, <3>2 DEF AwardsArrive
  <2>9. \A t \in Tasks : assignment[t] = g => HasBid(g, t)' \/ t \in (Has(g) \cup fleet[g].rejected)'
    BY <2>1, <2>2 DEF KeptInv, NothingLost, Has
  <2> QED BY <2>4, <2>6, <2>8, <2>9
<1>4. PlansKept'
  BY <1>3 DEF PlansKept
<1>5. AcksFollow'
  <2>1. \A g \in Fleets : g # f => fleet'[g] = fleet[g]
    BY DEF OthersStay
  <2> QED BY <1>2, <2>1 DEF KeptInv, AcksFollow
<1>6. NothingLost'
  BY <1>1, <1>3 DEF NothingLost
<1>7. DispatchedIsDone'
  BY <1>1, <1>2 DEF KeptInv, DispatchedIsDone
<1> QED BY <1>4, <1>5, <1>6, <1>7

(* Plans stay good when what the fleet expects to do stays the same.        *)
LEMMA SettledPlans ==
  ASSUME KeptInv, NEW f \in Fleets, UNCHANGED dispatcherVars, SameExpectations(f),
         UNCHANGED <<fleet[f].last_bid, fleet[f].calculating>>, fleet'[f].bids \subseteq fleet[f].bids,
         \A i \in 1..Len(fleet'[f].replans) :
           \/ \E j \in 1..Len(fleet[f].replans) : fleet'[f].replans[i] = fleet[f].replans[j]
           \/ /\ fleet'[f].replans[i].tasks = fleet'[f].queue \cup fleet'[f].unassigned
              /\ fleet'[f].replans[i].last_bid = fleet'[f].last_bid
  PROVE  ReplansHold(f)' /\ BidsHold(f)'
<1>1. UNCHANGED <<assignment, open_bids>> /\ ReplansHold(f) /\ BidsHold(f)
  BY DEF dispatcherVars, KeptInv, PlansKept
<1>2. \A t : (HasBid(f, t)' => HasBid(f, t)) /\ (Open(t)' <=> Open(t))
  BY <1>1 DEF HasBid, Open
<1>3. (fleet[f].last_bid # None => assignment[fleet[f].last_bid] = f /\ ~HasBid(f, fleet[f].last_bid))'
  BY <1>1, <1>2 DEF ReplansHold
<1>4. ASSUME NEW i \in 1..Len(fleet'[f].replans), NEW r, r = fleet'[f].replans[i]
      PROVE  /\ r.last_bid # None => assignment'[r.last_bid] = f /\ ~HasBid(f, r.last_bid)'
             /\ r.last_bid = fleet'[f].last_bid =>
                  /\ Expectations(fleet'[f]) \subseteq r.tasks \cup Given(f)'
                  /\ r.tasks \subseteq Expectations(fleet'[f]) \cup Given(f)'
  <2>1. ASSUME NEW j \in 1..Len(fleet[f].replans), r = fleet[f].replans[j]
        PROVE  /\ r.last_bid # None => assignment[r.last_bid] = f /\ ~HasBid(f, r.last_bid)
               /\ r.last_bid = fleet[f].last_bid =>
                    /\ Expectations(fleet[f]) \subseteq r.tasks \cup Given(f)
                    /\ r.tasks \subseteq Expectations(fleet[f]) \cup Given(f)
    BY <1>1, <2>1 DEF ReplansHold
  <2>2. CASE \E j \in 1..Len(fleet[f].replans) : r = fleet[f].replans[j]
    <3>1. r.last_bid # None => assignment'[r.last_bid] = f /\ ~HasBid(f, r.last_bid)'
      BY <1>1, <1>2, <2>1, <2>2
    <3>2. r.last_bid = fleet'[f].last_bid =>
            /\ Expectations(fleet'[f]) \subseteq r.tasks \cup Given(f)'
            /\ r.tasks \subseteq Expectations(fleet'[f]) \cup Given(f)'
      BY <2>1, <2>2 DEF SameExpectations
    <3> QED BY <3>1, <3>2
  <2>3. CASE r.tasks = fleet'[f].queue \cup fleet'[f].unassigned /\ r.last_bid = fleet'[f].last_bid
    <3>1. r.tasks = Expectations(fleet'[f])
      BY <2>3 DEF Expectations
    <3>2. r.last_bid # None => assignment'[r.last_bid] = f /\ ~HasBid(f, r.last_bid)'
      BY <1>3, <2>3
    <3> QED BY <2>3, <3>1, <3>2
  <2> QED BY <1>4, <2>2, <2>3
<1>5. ReplansHold(f)'
  BY <1>3, <1>4 DEF ReplansHold
<1>6. BidsHold(f)'
  BY <1>1, <1>2 DEF BidsHold, SameExpectations
<1> QED BY <1>5, <1>6

(* A fleet whose expectations stay keeps the tasks it was awarded.          *)
LEMMA SettledTasks ==
  ASSUME KeptInv, NEW f \in Fleets, SameExpectations(f),
         \A t \in Tasks : assignment[t] = f => (HasBid(f, t) => HasBid(f, t)')
  PROVE  \A t \in Tasks : assignment[t] = f => HasBid(f, t)' \/ t \in (Has(f) \cup fleet[f].rejected)'
<1>1. Has(f) \cup fleet[f].rejected = Expectations(fleet[f]) \cup Given(f)
  BY DEF Has, Expectations, Given
<1>2. (Has(f) \cup fleet[f].rejected)' = Expectations(fleet'[f]) \cup Given(f)'
  BY DEF Has, Expectations, Given
<1> QED BY <1>1, <1>2 DEF KeptInv, NothingLost, SameExpectations

(* The awards on their way stay when nothing arrives and no bid of the       *)
(* fleet's own tasks comes or goes.                                         *)
LEMMA SameAwardsArrive ==
  ASSUME KeptInv, NEW f \in Fleets, UNCHANGED <<dispatcherVars, commands, fleet[f].last_bid>>,
         \A t \in Tasks : assignment[t] = f => (HasBid(f, t)' <=> HasBid(f, t))
  PROVE  AwardsArrive(f)'
<1>1. AwardsArrive(f) /\ UNCHANGED <<assignment, lingering>>
  BY DEF KeptInv, PlansKept, dispatcherVars
<1>2. Awards' = Awards /\ AwardsOf(f)' = AwardsOf(f)
  BY <1>1 DEF Awards, AwardsOf
<1>3. \A t : AwardComes(f, t)' <=> AwardComes(f, t)
  BY <1>2 DEF AwardComes
<1>4. \A i \in AwardsOf(f) : commands[f][i].task \in Tasks /\ assignment[commands[f][i].task] = f
  <2>1. commands[f] \in Seq(Followed)
    BY DEF KeptInv, DispatchInv, CommandsFollow
  <2>2. \A i \in 1..Len(commands[f]) : commands[f][i] \in Followed
    BY <2>1
  <2> QED BY <2>2 DEF AwardsOf, Followed, Commands
<1>5. \A c \in Awards : c.fleet = f => c.task \in Tasks /\ assignment[c.task] = f
  BY DEF KeptInv, DispatchInv, CommandsFollow, Awards, Followed, Commands
<1>6. \A t \in Tasks : assignment'[t] = f /\ HasBid(f, t)' => AwardComes(f, t)'
  BY <1>1, <1>3 DEF AwardsArrive
<1>7. (\A i \in AwardsOf(f) : commands[f][i].task = fleet[f].last_bid \/ HasBid(f, commands[f][i].task))'
  BY <1>1, <1>2, <1>4 DEF AwardsArrive
<1>8. (\A c \in Awards : c.fleet = f => c.task = fleet[f].last_bid \/ HasBid(f, c.task))'
  BY <1>1, <1>2, <1>5 DEF AwardsArrive
<1>9. (\A i, j \in AwardsOf(f) : i < j /\ commands[f][i].task # fleet[f].last_bid
                                   => commands[f][j].task # fleet[f].last_bid)'
  BY <1>1, <1>2 DEF AwardsArrive
<1> QED BY <1>6, <1>7, <1>8, <1>9 DEF AwardsArrive

(* Calculating a bid and sending it loses no task.                          *)
LEMMA BiddingKeepsTasks ==
  ASSUME KeptInv, NEW f \in Fleets, BidNotice(f) \/ BidCalculated(f)
  PROVE  PlansKept' /\ AcksFollow' /\ NothingLost' /\ DispatchedIsDone'
<1> DEFINE calc == fleet[f].calculating
           t == Head(notices[f])
<1>0. /\ TypeInv /\ AcksFollow /\ ReplansHold(f) /\ BidsHold(f) /\ BidsStand(f)
      /\ notices \in [Fleets -> Seq(Tasks)] /\ lingering \subseteq Followed
      /\ fleet \in [Fleets -> FleetState] /\ fleet[f] \in FleetState
  BY DEF KeptInv, DispatchInv, TypeInv, TypeOK, PlansKept, AnswersStand, CommandsFollow
<1>1. /\ OthersStay(f) /\ QueueStays(f) /\ PlansStay(f)
      /\ UNCHANGED <<dispatcherVars, commands, acks>>
  BY <1>0, BidNoticeEffect, BidCalculatedEffect DEF BidNotice, BidCalculated
<1>2. /\ fleet[f].bids \subseteq fleet'[f].bids
      /\ fleet'[f].bids \subseteq fleet[f].bids \cup ({calc} \ {NoPlan})
      /\ \/ fleet'[f].calculating \in {calc, NoPlan}
         \/ fleet'[f].calculating = [task |-> t, plan |-> Expectations(fleet[f]) \cup {t}]
  <2>1. BidCalculated(f) => calc # NoPlan
    BY DEF BidCalculated
  <2> QED BY <1>0, <2>1, BidNoticeEffect, BidCalculatedEffect
<1>3. UNCHANGED <<assignment, open_bids>> /\ Given(f)' = Given(f)
      /\ Expectations(fleet'[f]) = Expectations(fleet[f])
  BY <1>1 DEF dispatcherVars, QueueStays, Given, Expectations
<1>4. calc # NoPlan => assignment[calc.task] # f /\ calc.task \in announced
  BY <1>0 DEF BidsStand, Answered
<1>5. \A s \in Tasks : HasBid(f, s) => HasBid(f, s)'
  BY <1>2 DEF HasBid
<1>6. \A s : HasBid(f, s)' => HasBid(f, s) \/ (calc # NoPlan /\ s = calc.task)
  BY <1>2 DEF HasBid
<1>7. \A s \in Tasks : assignment[s] = f => (HasBid(f, s)' <=> HasBid(f, s))
  BY <1>4, <1>5, <1>6
<1>8. AwardsArrive(f)'
  BY <1>1, <1>7, SameAwardsArrive DEF PlansStay
<1>9. ReplansHold(f)'
  <2>1. \A s : assignment[s] = f /\ ~HasBid(f, s) => ~HasBid(f, s)'
    BY <1>4, <1>6
  <2>2. UNCHANGED <<fleet[f].replans, fleet[f].last_bid>>
    BY <1>1 DEF PlansStay
  <2>3. (fleet[f].last_bid # None => assignment[fleet[f].last_bid] = f /\ ~HasBid(f, fleet[f].last_bid))'
    BY <1>0, <1>3, <2>1, <2>2 DEF ReplansHold
  <2>4. ASSUME NEW i \in 1..Len(fleet'[f].replans), NEW r, r = fleet'[f].replans[i]
        PROVE  /\ r.last_bid # None => assignment'[r.last_bid] = f /\ ~HasBid(f, r.last_bid)'
               /\ r.last_bid = fleet'[f].last_bid =>
                    /\ Expectations(fleet'[f]) \subseteq r.tasks \cup Given(f)'
                    /\ r.tasks \subseteq Expectations(fleet'[f]) \cup Given(f)'
    BY <1>0, <1>3, <2>1, <2>2, <2>4 DEF ReplansHold
  <2> QED BY <2>3, <2>4 DEF ReplansHold
<1>10. BidsHold(f)'
  <2>1. \A s : Open(s)' <=> Open(s)
    BY <1>3 DEF Open
  <2>2. ASSUME NEW b \in fleet'[f].bids \cup ({fleet'[f].calculating} \ {NoPlan}),
               Open(b.task) \/ assignment[b.task] = f
        PROVE  Expectations(fleet'[f]) \subseteq b.plan \cup Given(f)'
    <3>1. CASE b \in fleet[f].bids \cup ({calc} \ {NoPlan})
      BY <1>0, <1>3, <2>2, <3>1 DEF BidsHold
    <3>2. CASE b = [task |-> t, plan |-> Expectations(fleet[f]) \cup {t}]
      BY <1>3, <3>2
    <3> QED BY <1>2, <2>2, <3>1, <3>2
  <2> QED BY <1>3, <2>1, <2>2 DEF BidsHold
<1>11. \A c \in Awards : HasBid(c.fleet, c.task)' =>
         /\ HasBid(c.fleet, c.task) /\ c.id \notin acks'
         /\ \A i \in 1..Len(fleet'[f].replans) : fleet'[f].replans[i].id # c.id
  <2> SUFFICES ASSUME NEW c \in Awards, HasBid(c.fleet, c.task)'
               PROVE  /\ HasBid(c.fleet, c.task) /\ c.id \notin acks'
                      /\ \A i \in 1..Len(fleet'[f].replans) : fleet'[f].replans[i].id # c.id
    OBVIOUS
  <2>1. c.task \in Tasks /\ c.fleet \in Fleets /\ assignment[c.task] = c.fleet
    BY <1>0 DEF Awards, Followed, Commands
  <2>2. HasBid(c.fleet, c.task)
    <3>1. CASE c.fleet = f
      BY <1>7, <2>1, <3>1
    <3>2. CASE c.fleet # f
      BY <1>1, <2>1, <3>2 DEF OthersStay, HasBid
    <3> QED BY <3>1, <3>2
  <2>3. UNCHANGED <<acks, fleet[f].replans>>
    BY <1>1 DEF PlansStay
  <2> QED BY <1>0, <2>2, <2>3 DEF AcksFollow
<1>12. SameExpectations(f)
  BY <1>3 DEF SameExpectations
<1>13. \A s \in Tasks : assignment[s] = f => HasBid(f, s)' \/ s \in (Has(f) \cup fleet[f].rejected)'
  BY <1>5, <1>12, SettledTasks
<1> QED BY <1>1, <1>8, <1>9, <1>10, <1>11, <1>13, FleetStepKeeps

(* Plans that come back, and the tasks that begin and finish, lose no task  *)
(* of the fleet.                                                            *)
LEMMA WorkKeepsTasks ==
  ASSUME KeptInv, NEW f \in Fleets,
         \/ Replanned(f) \/ ReplanFailed(f)
         \/ \E t \in Tasks : BeginNextTask(f, t)
         \/ TaskFinished(f)
  PROVE  PlansKept' /\ AcksFollow' /\ NothingLost' /\ DispatchedIsDone'
<1> DEFINE r == fleet[f].replans[1]
<1>0. /\ TypeInv /\ AcksFollow /\ ReplansHold(f) /\ fleet[f] \in FleetState
      /\ fleet[f].queue \subseteq Tasks /\ fleet[f].unassigned \subseteq Tasks /\ None \notin Tasks
  BY DispatchAssumption, SMTT(30) DEF KeptInv, DispatchInv, TypeInv, TypeOK, PlansKept, FleetState
<1>1. UNCHANGED <<dispatcherVars, commands>>
  BY Zenon DEF Replanned, ReplanFailed, BeginNextTask, TaskFinished, topicVars
<1>2. CASE (\E t \in Tasks : BeginNextTask(f, t)) \/ TaskFinished(f)
  <2>1. UNCHANGED acks
    BY <1>2, Zenon DEF BeginNextTask, TaskFinished, topicVars
  <2>2. /\ OthersStay(f) /\ BidsStay(f) /\ PlansStay(f)
        /\ UNCHANGED <<fleet[f].unassigned, fleet[f].rejected>>
        /\ fleet'[f].queue \subseteq fleet[f].queue
        /\ fleet[f].executed \subseteq fleet'[f].executed
        /\ fleet[f].queue \subseteq fleet'[f].queue \cup fleet'[f].executed
    BY <1>0, <1>2, WorkEffect
  <2>3. SameExpectations(f)
    BY <2>2 DEF SameExpectations, Expectations, Given
  <2>4. \A t : HasBid(f, t)' <=> HasBid(f, t)
    BY <2>2 DEF BidsStay, HasBid
  <2>5. AwardsArrive(f)'
    BY <1>1, <2>2, <2>4, SameAwardsArrive DEF PlansStay
  <2>6. ReplansHold(f)' /\ BidsHold(f)'
    BY <1>1, <2>2, <2>3, SettledPlans DEF PlansStay, BidsStay
  <2>7. \A t \in Tasks : assignment[t] = f => HasBid(f, t)' \/ t \in (Has(f) \cup fleet[f].rejected)'
    BY <2>3, <2>4, SettledTasks
  <2>8. \A c \in Awards : HasBid(c.fleet, c.task)' =>
          /\ HasBid(c.fleet, c.task) /\ c.id \notin acks'
          /\ \A i \in 1..Len(fleet'[f].replans) : fleet'[f].replans[i].id # c.id
    <3>1. \A g \in Fleets : \A t : HasBid(g, t)' <=> HasBid(g, t)
      BY <2>2, <2>4 DEF OthersStay, HasBid
    <3>2. \A c \in Awards : c.fleet \in Fleets
      BY <1>0 DEF TypeInv, TypeOK, Awards, Commands
    <3> QED BY <1>0, <2>1, <2>2, <3>1, <3>2 DEF AcksFollow, PlansStay
  <2> QED BY <1>1, <2>2, <2>5, <2>6, <2>7, <2>8, FleetStepKeeps, SMTT(30)
<1>3. CASE Replanned(f) \/ ReplanFailed(f)
  <2>1. /\ OthersStay(f) /\ 1 \in 1..Len(fleet[f].replans) /\ UNCHANGED fleet[f].last_bid
        /\ r \in Replan
        /\ \/ /\ QueueStays(f) /\ BidsStay(f) /\ UNCHANGED acks
              /\ ReplanAdded(f, fleet[f].replans, fleet'[f].queue \cup fleet'[f].unassigned, r.id)
           \/ /\ ReplanTaken(f, r) \/ ReplanDropped(f, r)
              /\ acks' \subseteq acks \cup {r.id}
              /\ \A i \in 1..Len(fleet'[f].replans) : \E j \in 1..Len(fleet[f].replans) :
                   fleet'[f].replans[i] = fleet[f].replans[j]
    BY <1>0, <1>3, ReplanEffect
  <2>2. BidsStay(f)
    BY <2>1 DEF ReplanTaken, ReplanDropped
  <2>3. SameExpectations(f)
    <3>1. CASE QueueStays(f)
      BY <3>1 DEF QueueStays, SameExpectations, Expectations, Given
    <3>2. CASE ReplanTaken(f, r)
      <4>1. /\ Expectations(fleet[f]) \subseteq r.tasks \cup Given(f)
            /\ r.tasks \subseteq Expectations(fleet[f]) \cup Given(f)
        BY <1>0, <2>1, <3>2 DEF ReplanTaken, ReplansHold
      <4>2. Given(f)' = Given(f) /\ Expectations(fleet'[f]) = r.tasks
        BY <3>2 DEF ReplanTaken, Given, Expectations
      <4> QED BY <4>1, <4>2 DEF SameExpectations
    <3>3. CASE ReplanDropped(f, r)
      BY <1>0, <3>3 DEF ReplanDropped, SameExpectations, Expectations, Given
    <3> QED BY <2>1, <3>1, <3>2, <3>3
  <2>4. \A t : HasBid(f, t)' <=> HasBid(f, t)
    BY <2>2 DEF BidsStay, HasBid
  <2>5. AwardsArrive(f)'
    BY <1>1, <2>1, <2>4, SameAwardsArrive
  <2>6. \A i \in 1..Len(fleet'[f].replans) :
          \/ \E j \in 1..Len(fleet[f].replans) : fleet'[f].replans[i] = fleet[f].replans[j]
          \/ /\ fleet'[f].replans[i].tasks = fleet'[f].queue \cup fleet'[f].unassigned
             /\ fleet'[f].replans[i].last_bid = fleet'[f].last_bid
             /\ fleet'[f].replans[i].id = r.id
    BY <2>1 DEF ReplanAdded
  <2>7. ReplansHold(f)' /\ BidsHold(f)'
    BY <1>1, <2>1, <2>2, <2>3, <2>6, SettledPlans DEF BidsStay
  <2>8. \A t \in Tasks : assignment[t] = f => HasBid(f, t)' \/ t \in (Has(f) \cup fleet[f].rejected)'
    BY <2>3, <2>4, SettledTasks
  <2>9. \A c \in Awards : HasBid(c.fleet, c.task)' =>
          /\ HasBid(c.fleet, c.task) /\ c.id \notin acks'
          /\ \A i \in 1..Len(fleet'[f].replans) : fleet'[f].replans[i].id # c.id
    <3>1. \A g \in Fleets : \A t : HasBid(g, t)' <=> HasBid(g, t)
      BY <2>1, <2>4 DEF OthersStay, HasBid
    <3>2. \A c \in Awards : c.fleet \in Fleets
      BY <1>0 DEF TypeInv, TypeOK, Awards, Commands
    <3>3. \A c \in Awards : HasBid(c.fleet, c.task) =>
            /\ c.id \notin acks /\ r.id # c.id
            /\ \A j \in 1..Len(fleet[f].replans) : fleet[f].replans[j].id # c.id
      BY <1>0, <2>1 DEF AcksFollow
    <3>4. acks' \subseteq acks \cup {r.id}
      BY <2>1
    <3> HIDE DEF r
    <3> QED BY <2>6, <3>1, <3>2, <3>3, <3>4
  <2> QED BY <1>1, <2>1, <2>5, <2>7, <2>8, <2>9, FleetStepKeeps
<1> QED BY <1>2, <1>3

(* The command that arrives, and what is still to come.                     *)
LEMMA CommandArrives ==
  ASSUME KeptInv, NEW f \in Fleets, DispatchCommand(f)
  PROVE  LET c == Head(commands[f])
         IN  /\ c = commands[f][1] /\ 1 \in 1..Len(commands[f]) /\ c \in Commands
             /\ assignment[c.task] = c.fleet
             /\ UNCHANGED dispatcherVars
             /\ \A g \in Fleets : g # f => commands'[g] = commands[g]
             /\ \A i \in 1..Len(commands'[f]) :
                  i + 1 \in 2..Len(commands[f]) /\ commands'[f][i] = commands[f][i + 1]
             /\ \A i \in 1..Len(commands[f]) :
                  i = 1 \/ (i - 1 \in 1..Len(commands'[f]) /\ commands'[f][i - 1] = commands[f][i])
<1>1. /\ commands \in [Fleets -> Seq(Followed)] /\ commands[f] # << >>
      /\ commands'[f] = Tail(commands[f]) /\ UNCHANGED dispatcherVars
      /\ \A g \in Fleets : g # f => commands'[g] = commands[g]
  BY DEF KeptInv, DispatchInv, CommandsFollow, DispatchCommand
<1>2. commands[f] \in Seq(Followed)
  BY <1>1
<1>3. /\ Head(commands[f]) \in Followed /\ Head(commands[f]) = commands[f][1]
      /\ 1 \in 1..Len(commands[f])
      /\ \A i \in 1..Len(Tail(commands[f])) :
           i + 1 \in 2..Len(commands[f]) /\ Tail(commands[f])[i] = commands[f][i + 1]
      /\ \A i \in 1..Len(commands[f]) :
           i = 1 \/ (i - 1 \in 1..Len(Tail(commands[f])) /\ Tail(commands[f])[i - 1] = commands[f][i])
  BY <1>1, <1>2, TailAt
<1>4. Head(commands[f]) \in Commands /\ assignment[Head(commands[f]).task] = Head(commands[f]).fleet
  BY <1>3 DEF Followed
<1> QED BY <1>1, <1>3, <1>4

(* Awards are for the fleet that their task is assigned to.                 *)
LEMMA AwardsOfTheFleet ==
  ASSUME KeptInv, NEW f \in Fleets
  PROVE  /\ \A i \in AwardsOf(f) : /\ i \in 1..Len(commands[f]) /\ commands[f][i].task \in Tasks
                                   /\ assignment[commands[f][i].task] = f
         /\ \A c \in Awards : c \in Commands /\ c.task \in Tasks /\ c.fleet \in Fleets
                              /\ assignment[c.task] = c.fleet
<1>1. commands[f] \in Seq(Followed) /\ lingering \subseteq Followed
  BY DEF KeptInv, DispatchInv, CommandsFollow
<1>2. \A i \in 1..Len(commands[f]) : commands[f][i] \in Followed
  BY <1>1
<1> QED BY <1>1, <1>2 DEF AwardsOf, Awards, Followed, Commands

(* A command with another number, and an award that is acknowledged or       *)
(* planned for has no bid any more.                                         *)
LEMMA CommandAcks ==
  ASSUME KeptInv, NEW f \in Fleets, OthersStay(f), NEW c, c = commands[f][1], 1 \in 1..Len(commands[f]),
         acks' \subseteq acks \cup {c.id}, fleet'[f].bids \subseteq fleet[f].bids,
         \A i \in 1..Len(fleet'[f].replans) :
           \/ \E j \in 1..Len(fleet[f].replans) : fleet'[f].replans[i] = fleet[f].replans[j]
           \/ fleet'[f].replans[i].id \in {0, c.id},
         \/ c.type = "remove"
         \/ c.fleet = f /\ ~HasBid(f, c.task)'
         \/ /\ acks' = acks
            /\ \A i \in 1..Len(fleet'[f].replans) :
                 \E j \in 1..Len(fleet[f].replans) : fleet'[f].replans[i] = fleet[f].replans[j]
  PROVE  \A d \in Awards : HasBid(d.fleet, d.task)' =>
           /\ HasBid(d.fleet, d.task) /\ d.id \notin acks'
           /\ \A i \in 1..Len(fleet'[f].replans) : fleet'[f].replans[i].id # d.id
<1> SUFFICES ASSUME NEW d \in Awards, HasBid(d.fleet, d.task)'
             PROVE  /\ HasBid(d.fleet, d.task) /\ d.id \notin acks'
                    /\ \A i \in 1..Len(fleet'[f].replans) : fleet'[f].replans[i].id # d.id
  OBVIOUS
<1>1. d \in Commands /\ d.fleet \in Fleets /\ d \in lingering /\ d.type = "award"
  BY AwardsOfTheFleet DEF Awards
<1>2. HasBid(d.fleet, d.task)
  <2>1. CASE d.fleet = f
    BY <2>1 DEF HasBid
  <2>2. CASE d.fleet # f
    BY <1>1, <2>2 DEF HasBid, OthersStay
  <2> QED BY <2>1, <2>2
<1>3. /\ d.id \notin acks
      /\ \A j \in 1..Len(fleet[f].replans) : fleet[f].replans[j].id # d.id
  BY <1>2 DEF KeptInv, AcksFollow
<1>4. d.id # 0
  BY <1>1 DEF Commands, Ids
<1>5. c.id = d.id => c = d
  BY <1>1 DEF KeptInv, Numbered
<1>6. CASE c.id # d.id
  BY <1>2, <1>3, <1>4, <1>6
<1>7. CASE /\ acks' = acks
           /\ \A i \in 1..Len(fleet'[f].replans) :
                \E j \in 1..Len(fleet[f].replans) : fleet'[f].replans[i] = fleet[f].replans[j]
  BY <1>2, <1>3, <1>7
<1>8. c = d => c.type # "remove" /\ ~(c.fleet = f /\ ~HasBid(f, c.task)')
  BY <1>1
<1> QED BY <1>5, <1>6, <1>7, <1>8

(* The command is no award of a bid: the awards to come stay in order.      *)
LEMMA SettledAwards ==
  ASSUME KeptInv, NEW f \in Fleets, DispatchCommand(f), UNCHANGED fleet[f].last_bid,
         \A t : HasBid(f, t)' => HasBid(f, t),
         ~(assignment[Head(commands[f]).task] = f /\ HasBid(f, Head(commands[f]).task)),
         \A t \in Tasks : assignment[t] = f => (HasBid(f, t) => HasBid(f, t)')
  PROVE  AwardsArrive(f)'
<1> DEFINE c == Head(commands[f])
<1>1. /\ c = commands[f][1] /\ 1 \in 1..Len(commands[f])
      /\ UNCHANGED dispatcherVars
      /\ \A i \in 1..Len(commands'[f]) :
           i + 1 \in 2..Len(commands[f]) /\ commands'[f][i] = commands[f][i + 1]
      /\ \A i \in 1..Len(commands[f]) :
           i = 1 \/ (i - 1 \in 1..Len(commands'[f]) /\ commands'[f][i - 1] = commands[f][i])
  BY CommandArrives
<1>2. UNCHANGED assignment /\ Awards' = Awards /\ AwardsArrive(f)
  BY <1>1 DEF dispatcherVars, Awards, KeptInv, PlansKept
<1>3. \A i \in AwardsOf(f)' : i + 1 \in AwardsOf(f) /\ commands'[f][i] = commands[f][i + 1]
  BY <1>1 DEF AwardsOf
<1>4. ASSUME NEW t \in Tasks, assignment[t] = f, HasBid(f, t)' PROVE AwardComes(f, t)'
  <2>1. AwardComes(f, t) /\ HasBid(f, t)
    BY <1>2, <1>4 DEF AwardsArrive
  <2>2. PICK i \in AwardsOf(f) :
           commands[f][i].task = t /\ \A j \in 1..(i - 1) : commands[f][j].task # t
    BY <2>1 DEF AwardComes
  <2>3. i \in 1..Len(commands[f]) /\ i # 1
    BY <1>1, <1>4, <2>1, <2>2 DEF AwardsOf
  <2>4. i - 1 \in 1..Len(commands'[f]) /\ commands'[f][i - 1] = commands[f][i]
    BY <1>1, <2>3
  <2>5. i - 1 \in AwardsOf(f)'
    BY <2>4 DEF AwardsOf
  <2>6. ASSUME NEW j \in 1..((i - 1) - 1) PROVE commands'[f][j].task # t
    <3>1. j + 1 \in 1..(i - 1) /\ j \in 1..Len(commands'[f])
      BY <2>3, <2>4, <2>6
    <3>2. commands'[f][j] = commands[f][j + 1]
      BY <1>1, <3>1
    <3> QED BY <2>2, <3>1, <3>2
  <2>7. \E d \in Awards' : d.task = t
    BY <1>2, <2>1 DEF AwardComes
  <2> QED BY <2>2, <2>4, <2>5, <2>6, <2>7 DEF AwardComes
<1>5. (\A i \in AwardsOf(f) : commands[f][i].task = fleet[f].last_bid \/ HasBid(f, commands[f][i].task))'
  BY <1>2, <1>3, AwardsOfTheFleet DEF AwardsArrive
<1>6. (\A d \in Awards : d.fleet = f => d.task = fleet[f].last_bid \/ HasBid(f, d.task))'
  BY <1>2, AwardsOfTheFleet DEF AwardsArrive
<1>7. ASSUME NEW i \in AwardsOf(f)', NEW j \in AwardsOf(f)', i < j,
             commands'[f][i].task # fleet'[f].last_bid
      PROVE  commands'[f][j].task # fleet'[f].last_bid
  <2>1. i + 1 \in AwardsOf(f) /\ j + 1 \in AwardsOf(f) /\ i + 1 < j + 1
    BY <1>3, <1>7 DEF AwardsOf
  <2> QED BY <1>2, <1>3, <1>7, <2>1 DEF AwardsArrive
<1> QED BY <1>2, <1>4, <1>5, <1>6, <1>7 DEF AwardsArrive

(* What another fleet was awarded, or was removed, is no bid the fleet waits *)
(* for the award of.                                                        *)
LEMMA NoFreshBid ==
  ASSUME KeptInv, NEW f \in Fleets, DispatchCommand(f),
         LET c == Head(commands[f]) IN c.fleet # f \/ c.type = "remove"
  PROVE  ~(assignment[Head(commands[f]).task] = f /\ HasBid(f, Head(commands[f]).task))
<1> DEFINE c == Head(commands[f])
<1>1. c = commands[f][1] /\ c \in Commands /\ assignment[c.task] = c.fleet
  BY CommandArrives
<1>2. SUFFICES ASSUME c.type = "remove", assignment[c.task] = f, HasBid(f, c.task) PROVE FALSE
  BY <1>1
<1>3. AwardComes(f, c.task)
  BY <1>1, <1>2 DEF KeptInv, PlansKept, AwardsArrive, Commands
<1>4. PICK i \in AwardsOf(f) :
         commands[f][i].task = c.task /\ \A j \in 1..(i - 1) : commands[f][j].task # c.task
  BY <1>3 DEF AwardComes
<1>5. i \in 1..Len(commands[f]) /\ commands[f][i].type = "award"
  BY DEF AwardsOf
<1>6. i # 1
  BY <1>1, <1>2, <1>5
<1>7. 1 \in 1..(i - 1)
  BY <1>5, <1>6
<1> QED BY <1>1, <1>4, <1>7

(* A command that is no award of a bid loses no task.                       *)
LEMMA SettledCommand ==
  ASSUME KeptInv, NEW f \in Fleets, DispatchCommand(f), OthersStay(f),
         NEW c, c = Head(commands[f]), AwardWithoutBid(f, c) \/ Forgotten(f, c) \/ Removed(f, c)
  PROVE  PlansKept' /\ AcksFollow' /\ NothingLost' /\ DispatchedIsDone'
<1>1. /\ c = commands[f][1] /\ 1 \in 1..Len(commands[f]) /\ c \in Commands /\ assignment[c.task] = c.fleet
      /\ UNCHANGED dispatcherVars /\ \A g \in Fleets : g # f => commands'[g] = commands[g]
  BY CommandArrives
<1>2. c.fleet # f \/ c.type = "remove" => ~(assignment[c.task] = f /\ HasBid(f, c.task))
  BY NoFreshBid
<1>3. AwardWithoutBid(f, c) \/ Forgotten(f, c) \/ Removed(f, c)
  OBVIOUS
<1>4. AwardWithoutBid(f, c) => c.task = fleet[f].last_bid
  <2>1. AwardWithoutBid(f, c) => 1 \in AwardsOf(f) /\ ~HasBid(f, c.task)
    BY <1>1 DEF AwardWithoutBid, AwardsOf
  <2> QED BY <1>1, <2>1 DEF KeptInv, PlansKept, AwardsArrive
<1>5. ~(assignment[c.task] = f /\ HasBid(f, c.task))
  BY <1>2, <1>3, SMTT(30) DEF AwardWithoutBid, Forgotten, Removed
<1>6. /\ UNCHANGED <<fleet[f].last_bid, fleet[f].calculating>>
      /\ fleet'[f].bids \subseteq fleet[f].bids
      /\ \A b \in fleet[f].bids : b.task # c.task => b \in fleet'[f].bids
      /\ acks' \subseteq acks \cup {c.id}
  BY <1>3, <1>4, SMTT(30) DEF AwardWithoutBid, Forgotten, Removed, QueueStays, BidsStay, PlansStay
<1>7. SameExpectations(f)
  BY <1>3, SMTT(30) DEF AwardWithoutBid, Forgotten, Removed, QueueStays, SameExpectations, Expectations, Given
<1>8. \A i \in 1..Len(fleet'[f].replans) :
        \/ \E j \in 1..Len(fleet[f].replans) : fleet'[f].replans[i] = fleet[f].replans[j]
        \/ /\ fleet'[f].replans[i].tasks = fleet'[f].queue \cup fleet'[f].unassigned
           /\ fleet'[f].replans[i].last_bid = fleet'[f].last_bid
           /\ fleet'[f].replans[i].id = 0
  BY <1>3 DEF AwardWithoutBid, Forgotten, Removed, PlansStay, ReplanAdded
<1>9. /\ \A t : HasBid(f, t)' => HasBid(f, t)
      /\ \A t \in Tasks : assignment[t] = f => (HasBid(f, t) => HasBid(f, t)')
  BY <1>5, <1>6 DEF HasBid
<1>10. AwardsArrive(f)'
  BY <1>5, <1>6, <1>9, SettledAwards
<1>11. ReplansHold(f)' /\ BidsHold(f)'
  BY <1>1, <1>6, <1>7, <1>8, SettledPlans
<1>12. \A t \in Tasks : assignment[t] = f => HasBid(f, t)' \/ t \in (Has(f) \cup fleet[f].rejected)'
  BY <1>7, <1>9, SettledTasks
<1>13. \/ c.type = "remove"
       \/ c.fleet = f /\ ~HasBid(f, c.task)'
       \/ /\ acks' = acks
          /\ \A i \in 1..Len(fleet'[f].replans) :
               \E j \in 1..Len(fleet[f].replans) : fleet'[f].replans[i] = fleet[f].replans[j]
  <2>1. AwardWithoutBid(f, c) => c.fleet = f /\ ~HasBid(f, c.task)'
    BY <1>9 DEF AwardWithoutBid
  <2>2. Forgotten(f, c) => c.type = "remove" \/ (acks' = acks /\ UNCHANGED fleet[f].replans)
    BY DEF Forgotten, PlansStay
  <2> QED BY <1>3, <2>1, <2>2 DEF Removed
<1>14. \A d \in Awards : HasBid(d.fleet, d.task)' =>
         /\ HasBid(d.fleet, d.task) /\ d.id \notin acks'
         /\ \A i \in 1..Len(fleet'[f].replans) : fleet'[f].replans[i].id # d.id
  BY <1>1, <1>6, <1>8, <1>13, CommandAcks
<1> QED BY <1>1, <1>10, <1>11, <1>12, <1>14, FleetStepKeeps

(* The award of a bid: no other bid of the fleet can be awarded any more.    *)
LEMMA FreshAward ==
  ASSUME KeptInv, NEW f \in Fleets, DispatchCommand(f), OthersStay(f), NEW b \in fleet[f].bids,
         NEW c, c = Head(commands[f]), AwardTaken(f, c, b) \/ AwardReplanned(f, c, b)
  PROVE  PlansKept' /\ AcksFollow' /\ NothingLost' /\ DispatchedIsDone'
<1>1. /\ c = commands[f][1] /\ 1 \in 1..Len(commands[f]) /\ c \in Commands /\ assignment[c.task] = c.fleet
      /\ UNCHANGED dispatcherVars /\ \A g \in Fleets : g # f => commands'[g] = commands[g]
      /\ \A i \in 1..Len(commands'[f]) :
           i + 1 \in 2..Len(commands[f]) /\ commands'[f][i] = commands[f][i + 1]
  BY CommandArrives
<1>2. AwardTaken(f, c, b) \/ AwardReplanned(f, c, b)
  OBVIOUS
<1>3. 1 \in AwardsOf(f)
  BY <1>1, <1>2 DEF AwardTaken, AwardReplanned, AwardsOf
<1>4. /\ c.fleet = f /\ c.type = "award" /\ b.task = c.task
      /\ fleet'[f].bids = fleet[f].bids \ {b}
      /\ UNCHANGED <<fleet[f].calculating, fleet[f].executed, fleet[f].rejected>>
      /\ fleet'[f].last_bid = c.task
      /\ acks' \subseteq acks \cup {c.id}
  BY <1>2 DEF AwardTaken, AwardReplanned
<1>5. /\ c.task \in Tasks /\ assignment[c.task] = f /\ HasBid(f, c.task) /\ None \notin Tasks
  BY <1>1, <1>4, DispatchAssumption DEF Commands, HasBid
<1>6. /\ OneAward /\ PlansKept /\ ReplansHold(f) /\ BidsHold(f) /\ AwardsArrive(f) /\ BidsStand(f)
      /\ NothingLost
  BY DEF KeptInv, PlansKept, AnswersStand
<1>7. /\ \A d \in Awards : d.task = c.task
      /\ \A s \in announced : ~Open(s)
      /\ \A s \in Tasks : assignment[s] = f /\ HasBid(f, s) => s = c.task
  BY <1>5, <1>6, OneFreshAward
<1>8. /\ \A t : HasBid(f, t)' <=> HasBid(f, t) /\ t # c.task
  BY <1>4, <1>6 DEF HasBid, BidsStand
<1>9. /\ UNCHANGED <<assignment, open_bids>> /\ Awards' = Awards /\ \A t : Open(t)' <=> Open(t)
      /\ Given(f)' = Given(f)
  BY <1>1, <1>4, SMTT(30) DEF dispatcherVars, Awards, Open, Given
<1>10. \A i \in 1..Len(fleet'[f].replans) :
         \/ \E j \in 1..Len(fleet[f].replans) : fleet'[f].replans[i] = fleet[f].replans[j]
         \/ /\ fleet'[f].replans[i].tasks = fleet'[f].queue \cup fleet'[f].unassigned
            /\ fleet'[f].replans[i].last_bid = fleet'[f].last_bid
            /\ fleet'[f].replans[i].id = c.id
  BY <1>2 DEF AwardTaken, AwardReplanned, ReplanAdded
<1>11. ReplansHold(f)'
  <2>1. (fleet[f].last_bid # None => assignment[fleet[f].last_bid] = f /\ ~HasBid(f, fleet[f].last_bid))'
    BY <1>4, <1>5, <1>8, <1>9
  <2>2. ASSUME NEW i \in 1..Len(fleet'[f].replans), NEW r, r = fleet'[f].replans[i]
        PROVE  /\ r.last_bid # None => assignment'[r.last_bid] = f /\ ~HasBid(f, r.last_bid)'
               /\ r.last_bid = fleet'[f].last_bid =>
                    /\ Expectations(fleet'[f]) \subseteq r.tasks \cup Given(f)'
                    /\ r.tasks \subseteq Expectations(fleet'[f]) \cup Given(f)'
    <3>1. ASSUME NEW j \in 1..Len(fleet[f].replans), r = fleet[f].replans[j]
          PROVE  r.last_bid # None => assignment[r.last_bid] = f /\ ~HasBid(f, r.last_bid)
      BY <1>6, <3>1 DEF ReplansHold
    <3>2. CASE \E j \in 1..Len(fleet[f].replans) : r = fleet[f].replans[j]
      <4>1. r.last_bid # None => assignment[r.last_bid] = f /\ ~HasBid(f, r.last_bid)
        BY <3>1, <3>2
      <4>2. r.last_bid # c.task
        BY <1>5, <4>1
      <4> QED BY <1>4, <1>8, <1>9, <4>1, <4>2
    <3>3. CASE /\ r.tasks = fleet'[f].queue \cup fleet'[f].unassigned
               /\ r.last_bid = fleet'[f].last_bid
      <4>1. r.tasks = Expectations(fleet'[f])
        BY <3>3 DEF Expectations
      <4> QED BY <2>1, <3>3, <4>1
    <3> QED BY <1>10, <2>2, <3>2, <3>3
  <2> QED BY <2>1, <2>2 DEF ReplansHold
<1>12. BidsHold(f)'
  <2>1. ASSUME NEW d \in fleet'[f].bids \cup ({fleet'[f].calculating} \ {NoPlan})
        PROVE  ~Open(d.task) /\ assignment[d.task] # f
    <3>1. announced \subseteq Tasks
      BY DEF KeptInv, DispatchInv, TypeInv, TypeOK
    <3>2. CASE d \in fleet'[f].bids
      <4>1. d.task \in announced /\ HasBid(f, d.task)' /\ HasBid(f, d.task)
        BY <1>4, <1>6, <3>2 DEF BidsStand, HasBid
      <4> QED BY <1>7, <1>8, <3>1, <4>1
    <3>3. CASE d = fleet[f].calculating /\ d # NoPlan
      <4>1. d.task \in announced /\ ~Answered(f, d.task)
        BY <1>6, <3>3 DEF BidsStand
      <4> QED BY <1>7, <4>1 DEF Answered
    <3> QED BY <1>4, <2>1, <3>2, <3>3
  <2> QED BY <1>9, <2>1 DEF BidsHold
<1>13. AwardsArrive(f)'
  <2>1. \A i \in AwardsOf(f)' : i + 1 \in AwardsOf(f) /\ commands'[f][i] = commands[f][i + 1] /\ 1 < i + 1
    BY <1>1 DEF AwardsOf
  <2>2. commands[f][1].task # fleet[f].last_bid
    BY <1>1, <1>5, <1>6 DEF ReplansHold
  <2>3. ASSUME NEW i \in AwardsOf(f)' PROVE commands'[f][i].task = c.task
    <3>1. commands[f][i + 1].task # fleet[f].last_bid
      BY <1>3, <1>6, <2>1, <2>2 DEF AwardsArrive
    <3>2. HasBid(f, commands[f][i + 1].task)
      BY <1>6, <2>1, <3>1 DEF AwardsArrive
    <3>3. commands[f][i + 1].task \in Tasks /\ assignment[commands[f][i + 1].task] = f
      BY <2>1, AwardsOfTheFleet
    <3> QED BY <1>7, <2>1, <3>2, <3>3
  <2>4. \A t \in Tasks : assignment[t] = f => ~HasBid(f, t)'
    BY <1>7, <1>8
  <2> QED BY <1>4, <1>7, <1>9, <2>3, <2>4 DEF AwardsArrive
<1>14. ASSUME NEW t \in Tasks, assignment[t] = f
       PROVE  HasBid(f, t)' \/ t \in (Has(f) \cup fleet[f].rejected)'
  <2>1. (Has(f) \cup fleet[f].rejected)' = Expectations(fleet'[f]) \cup Given(f)
    BY <1>9 DEF Has, Expectations, Given
  <2>2. t = c.task \/ t \in Expectations(fleet[f]) \cup Given(f)
    BY <1>6, <1>7, <1>14 DEF NothingLost, Has, Expectations, Given
  <2>3. CASE AwardTaken(f, c, b)
    <3>1. Expectations(fleet'[f]) = b.plan
      BY <2>3 DEF AwardTaken, Expectations
    <3>2. Expectations(fleet[f]) \subseteq b.plan \cup Given(f) /\ c.task \in b.plan
      BY <1>4, <1>5, <1>6 DEF BidsHold, BidsStand
    <3> QED BY <2>1, <2>2, <3>1, <3>2
  <2>4. CASE AwardReplanned(f, c, b)
    <3>1. Expectations(fleet'[f]) = Expectations(fleet[f]) \cup {c.task}
      BY <2>4 DEF AwardReplanned, Expectations
    <3> QED BY <2>1, <2>2, <3>1
  <2> QED BY <1>2, <2>3, <2>4
<1>15. \A d \in Awards : HasBid(d.fleet, d.task)' =>
         /\ HasBid(d.fleet, d.task) /\ d.id \notin acks'
         /\ \A i \in 1..Len(fleet'[f].replans) : fleet'[f].replans[i].id # d.id
  <2>1. fleet'[f].bids \subseteq fleet[f].bids /\ c.fleet = f /\ ~HasBid(f, c.task)'
    BY <1>4, <1>8
  <2> QED BY <1>1, <1>4, <1>10, <2>1, CommandAcks
<1> QED BY <1>1, <1>11, <1>12, <1>13, <1>14, <1>15, FleetStepKeeps

-----------------------------------------------------------------------------
(* The invariant holds at the start: there are no tasks, bids or commands.  *)
LEMMA InitKept == Init => KeptInv
<1> SUFFICES ASSUME Init PROVE KeptInv
  OBVIOUS
<1>1. DispatchInv
  BY InitOwnership
<1>2. Numbered /\ OneAward /\ Awards = {}
  BY DEF Init, Numbered, OneAward, Awards
<1>3. /\ proposals = {} /\ announced = {} /\ open_bids = << >>
      /\ \A f \in Fleets : /\ fleet[f].bids = {} /\ fleet[f].calculating = NoPlan
                           /\ fleet[f].last_bid = None /\ fleet[f].replans = << >>
                           /\ notices[f] = << >> /\ commands[f] = << >>
      /\ \A t \in Tasks : assignment[t] = None /\ status[t] = "uninitialized"
      /\ None \notin Fleets
  BY DispatchAssumption DEF Init
<1>4. AnswersStand
  BY <1>3 DEF AnswersStand, AskedOnce, BidsStand, Asked, Answered, Offers
<1>5. PlansKept
  BY <1>2, <1>3 DEF PlansKept, ReplansHold, BidsHold, AwardsArrive, AwardsOf
<1>6. AcksFollow /\ NothingLost /\ DispatchedIsDone
  BY <1>2, <1>3 DEF AcksFollow, NothingLost, DispatchedIsDone
<1> QED BY <1>1, <1>2, <1>4, <1>5, <1>6 DEF KeptInv

(* Every step keeps the invariant, when awards are acknowledged promptly.   *)
LEMMA SteppedKept ==
  ASSUME Prompt, KeptInv, Next
  PROVE  KeptInv'
<1>1. DispatchInv'
  BY NextOwnership DEF KeptInv
<1>2. Numbered' /\ OneAward' /\ AnswersStand'
  BY <1>1, NextNumbered, NextOneAward, NextAnswersStand DEF KeptInv
<1>3. ASSUME NEW f \in Fleets, DispatchCommand(f)
      PROVE  PlansKept' /\ AcksFollow' /\ NothingLost' /\ DispatchedIsDone'
  <2>1. PICK c : c = Head(commands[f])
    OBVIOUS
  <2>2. /\ OthersStay(f)
        /\ \/ AwardWithoutBid(f, c) \/ Forgotten(f, c) \/ Removed(f, c)
           \/ \E b \in fleet[f].bids : AwardTaken(f, c, b) \/ AwardReplanned(f, c, b)
    BY <1>3, <2>1, DispatchCommandEffect DEF KeptInv
  <2> QED BY <1>3, <2>1, <2>2, SettledCommand, FreshAward
<1>4. PlansKept' /\ AcksFollow' /\ NothingLost' /\ DispatchedIsDone'
  BY <1>1, <1>3, DispatcherKeepsTasks, BiddingKeepsTasks, WorkKeepsTasks DEF Next
<1> QED BY <1>1, <1>2, <1>4 DEF KeptInv

(* A step that changes no variable keeps the invariant.                     *)
LEMMA StutterKept ==
  ASSUME KeptInv, UNCHANGED vars
  PROVE  KeptInv'
<1>1. DispatchInv'
  BY NextOwnership DEF KeptInv
<1> USE DEF vars, dispatcherVars, topicVars
<1>2. Numbered' /\ OneAward'
  BY DEF KeptInv, Numbered, OneAward, Awards, Open, Waits
<1>3. AnswersStand'
  BY DEF KeptInv, AnswersStand, AskedOnce, BidsStand, Asked, Answered, Offers, Open, HasBid
<1>4. \A f \in Fleets : ReplansHold(f)' /\ BidsHold(f)'
  BY DEF KeptInv, PlansKept, ReplansHold, BidsHold, HasBid, Open, Expectations, Given
<1>5. \A f \in Fleets : AwardsArrive(f)'
  BY DEF KeptInv, PlansKept, AwardsArrive, AwardComes, AwardsOf, Awards, HasBid
<1>6. AcksFollow' /\ NothingLost' /\ DispatchedIsDone'
  BY DEF KeptInv, AcksFollow, NothingLost, DispatchedIsDone, Awards, HasBid, Has
<1> QED BY <1>1, <1>2, <1>3, <1>4, <1>5, <1>6 DEF KeptInv, PlansKept

(* A task that counts as dispatched is with the fleet it was awarded to,    *)
(* unless that fleet could not plan for it, whatever is planned side by      *)
(* side, if awards are acknowledged before the auctioneer's timer fires     *)
(* again.                                                                   *)
THEOREM DispatchedStay == ASSUME Prompt = TRUE PROVE Spec => []DispatchedTasksAreKept
<1>1. KeptInv => DispatchedTasksAreKept
  <2> SUFFICES ASSUME KeptInv, NEW t \in Tasks, status[t] = "dispatched"
               PROVE  t \in Has(assignment[t]) \cup fleet[assignment[t]].rejected
    BY DEF DispatchedTasksAreKept
  <2>1. assignment[t] \in Fleets /\ \A c \in Awards : c.task # t
    BY DEF KeptInv, DispatchedIsDone
  <2>2. ~HasBid(assignment[t], t)
    BY <2>1 DEF KeptInv, PlansKept, AwardsArrive, AwardComes
  <2> QED BY <2>1, <2>2 DEF KeptInv, NothingLost
<1>2. KeptInv /\ [Next]_vars => KeptInv'
  BY SteppedKept, StutterKept
<1> QED BY <1>1, <1>2, InitKept, PTL DEF Spec
=============================================================================
