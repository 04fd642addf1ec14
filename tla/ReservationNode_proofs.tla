----------------------- MODULE ReservationNode_proofs -----------------------
(***************************************************************************)
(* Proofs that the reservation node keeps its types, keeps its two maps     *)
(* inverse to each other, implements SpotLedger and keeps its queues in     *)
(* agreement, for any spots, robots, alternatives, waiting points and       *)
(* number of tickets, and whatever its clients send.                        *)
(*                                                                         *)
(* The refinement needs to know that a ticket that holds a spot or waits    *)
(* for one was issued, to a robot: the header of a fresh ticket then        *)
(* changes the owner of nothing.                                            *)
(*                                                                         *)
(* The last part is about clients that claim a ticket once, as the          *)
(* negotiators of the fleet adapters do: what each operation then does to   *)
(* the place of every ticket, why nobody is evicted, and when nobody is     *)
(* overtaken.  ReservationProtocol_proofs shows that they are such clients. *)
(***************************************************************************)
EXTENDS ReservationNode, SequenceTheorems, FiniteSetTheorems, WellFoundedInduction, TLAPS

(* What holds a spot or waits in a queue was issued.                        *)
OnlyIssued ==
  /\ \A t \in Issued : ticket_store.header[t] \in Robots
  /\ \A l \in Locations : current_state.holder[l] \in Issued \cup {NoTicket}
  /\ \A l \in Locations : queues[l] \in Seq(Issued)

NodeInv == NodeTypeOK /\ HolderAndPlacedAgree /\ OnlyIssued

(* A state of the two maps that is typed, with inverse maps.                *)
Sound(st) == st \in State /\ MapsAgree(st)

-----------------------------------------------------------------------------
(* CurrentState *)

(* Releasing a ticket keeps the maps inverse and frees its spot only.       *)
LEMMA ReleasedIsSound ==
  ASSUME NEW st, Sound(st), NEW t \in Tickets
  PROVE  /\ Sound(Released(st, t))
         /\ Released(st, t).placed[t] = Nowhere
         /\ Released(st, t).known = st.known
         /\ \A l \in Locations : Released(st, t).holder[l] =
              IF st.holder[l] = t THEN NoTicket ELSE st.holder[l]
<1> DEFINE at == st.placed[t]
           u == Released(st, t)
<1>1. st \in State /\ t # NoTicket /\ at \in Locations \cup {Nowhere} /\ Nowhere \notin Locations
  BY ConstantsAssumption DEF Sound, State, Tickets, NoTicket
<1>2. CASE at = Nowhere
  <2>1. u = st BY <1>2 DEF Released
  <2>2. \A l \in Locations : st.holder[l] # t
    BY <1>1, <1>2 DEF Sound, MapsAgree
  <2> QED BY <1>2, <2>1, <2>2
<1>3. CASE at # Nowhere
  <2>1. u = [st EXCEPT !.holder[at] = NoTicket, !.placed[t] = Nowhere]
    BY <1>3 DEF Released
  <2>2. /\ u \in State /\ u.known = st.known
        /\ u.holder = [st.holder EXCEPT ![at] = NoTicket]
        /\ u.placed = [st.placed EXCEPT ![t] = Nowhere]
    <3>1. /\ [st.holder EXCEPT ![at] = NoTicket] \in [Locations -> Tickets \cup {NoTicket}]
          /\ [st.placed EXCEPT ![t] = Nowhere] \in [Tickets -> Locations \cup {Nowhere}]
      BY <1>1 DEF State
    <3> HIDE DEF at, u
    <3> QED BY <1>1, <2>1, <3>1 DEF State
  <2>3. st.holder[at] = t
    BY <1>3 DEF Sound, MapsAgree
  <2>4. \A l \in Locations : st.holder[l] = t => l = at
    BY <1>1 DEF Sound, MapsAgree
  <2>5. \A l \in Locations : u.holder[l] = IF st.holder[l] = t THEN NoTicket ELSE st.holder[l]
    BY <1>1, <2>2, <2>3, <2>4 DEF State
  <2>6. \A s \in Tickets : u.placed[s] = IF s = t THEN Nowhere ELSE st.placed[s]
    BY <1>1, <2>2 DEF State
  <2> HIDE DEF u
  <2>7. MapsAgree(u)
    <3>1. ASSUME NEW l \in Locations, u.holder[l] # NoTicket
          PROVE  l \in u.known /\ u.placed[u.holder[l]] = l
      <4>1. u.holder[l] = st.holder[l] /\ st.holder[l] # t /\ st.holder[l] \in Tickets
        BY <3>1, <2>5, <1>1 DEF State
      <4> QED BY <3>1, <4>1, <2>2, <2>6 DEF Sound, MapsAgree
    <3>2. ASSUME NEW s \in Tickets, u.placed[s] # Nowhere
          PROVE  u.holder[u.placed[s]] = s
      <4>1. s # t /\ u.placed[s] = st.placed[s] /\ st.placed[s] \in Locations
        BY <3>2, <2>6, <1>1 DEF State
      <4>2. st.holder[st.placed[s]] = s
        BY <4>1, <1>1 DEF Sound, MapsAgree
      <4> QED BY <4>1, <4>2, <2>5
    <3> QED BY <3>1, <3>2 DEF MapsAgree
  <2> QED BY <2>2, <2>5, <2>6, <2>7 DEF u, Sound
<1> QED BY <1>2, <1>3

(* A ticket placed nowhere takes a free spot.                               *)
LEMMA TakenIsSound ==
  ASSUME NEW st, Sound(st), NEW t \in Tickets, NEW l \in Locations,
         st.holder[l] = NoTicket, st.placed[t] = Nowhere
  PROVE  /\ Sound(Taken(st, t, l))
         /\ \A m \in Locations : Taken(st, t, l).holder[m] = IF m = l THEN t ELSE st.holder[m]
<1> DEFINE u == Taken(st, t, l)
<1>1. st \in State /\ t # NoTicket /\ Nowhere \notin Locations
  BY ConstantsAssumption DEF Sound, State, Tickets, NoTicket
<1>2. /\ u \in State /\ u.known = st.known \cup {l}
      /\ u.holder = [st.holder EXCEPT ![l] = t]
      /\ u.placed = [st.placed EXCEPT ![t] = l]
  BY <1>1 DEF Taken, State
<1>3. \A m \in Locations : u.holder[m] = IF m = l THEN t ELSE st.holder[m]
  BY <1>1, <1>2 DEF State
<1>4. \A s \in Tickets : u.placed[s] = IF s = t THEN l ELSE st.placed[s]
  BY <1>1, <1>2 DEF State
<1> HIDE DEF u
<1>5. MapsAgree(u)
  <2>1. ASSUME NEW m \in Locations, u.holder[m] # NoTicket
        PROVE  m \in u.known /\ u.placed[u.holder[m]] = m
    <3>1. CASE m = l
      BY <3>1, <1>2, <1>3, <1>4
    <3>2. CASE m # l
      <4>1. /\ u.holder[m] = st.holder[m] /\ st.holder[m] \in Tickets
            /\ m \in st.known /\ st.placed[st.holder[m]] = m
        BY <2>1, <3>2, <1>1, <1>3 DEF Sound, MapsAgree, State
      <4>2. st.holder[m] # t
        BY <4>1, <1>1
      <4> QED BY <4>1, <4>2, <1>2, <1>4
    <3> QED BY <3>1, <3>2
  <2>2. ASSUME NEW s \in Tickets, u.placed[s] # Nowhere
        PROVE  u.holder[u.placed[s]] = s
    <3>1. CASE s = t
      BY <3>1, <1>3, <1>4
    <3>2. CASE s # t
      <4>1. /\ u.placed[s] = st.placed[s] /\ st.placed[s] \in Locations
            /\ st.holder[st.placed[s]] = s
        BY <2>2, <3>2, <1>1, <1>4 DEF Sound, MapsAgree, State
      <4>2. st.placed[s] # l
        BY <4>1 DEF Tickets, NoTicket
      <4> QED BY <4>1, <4>2, <1>3
    <3> QED BY <3>1, <3>2
  <2> QED BY <2>1, <2>2 DEF MapsAgree
<1> QED BY <1>2, <1>3, <1>5 DEF u, Sound

(* A location that may be given is a spot, and free or a spot of the same   *)
(* robot; giving it to a ticket that is placed nowhere changes its holder.  *)
LEMMA ChoicesAreSpots ==
  ASSUME NEW st, st \in State, NEW t, NEW list \in Seq(LocationReq), NEW l \in Choices(st, list, t)
  PROVE  /\ l \in Locations
         /\ \/ st.holder[l] = NoTicket
            \/ ticket_store.header[st.holder[l]] = ticket_store.header[t]
<1>1. \A i \in DOMAIN list : list[i].location \in Locations
  <2> SUFFICES ASSUME NEW i \in DOMAIN list PROVE list[i].location \in Locations
    OBVIOUS
  <2>1. i \in 1..Len(list)
    BY LenProperties
  <2>2. list[i] \in LocationReq
    BY <2>1, ElementOfSeq
  <2> QED BY <2>2 DEF LocationReq
<1> QED BY <1>1 DEF Choices, CheapestFree, SittingOn, State

(* A location is given: the ticket of the same robot gives it up first.     *)
LEMMA AllocatedIsSound ==
  ASSUME NEW st, Sound(st), NEW t \in Tickets, NEW l \in Locations, st.placed[t] = Nowhere
  PROVE  /\ Sound(Allocated(st, t, l))
         /\ \A m \in Locations : Allocated(st, t, l).holder[m] = IF m = l THEN t ELSE st.holder[m]
<1>1. CASE st.holder[l] = NoTicket
  BY <1>1, TakenIsSound DEF Allocated
<1>2. CASE st.holder[l] # NoTicket
  <2> DEFINE s == st.holder[l]
             v == Released(st, s)
  <2>1. s \in Tickets /\ st.placed[s] = l
    BY <1>2 DEF Sound, State, MapsAgree
  <2>2. s # t
    BY <2>1, ConstantsAssumption
  <2>3. /\ Sound(v)
        /\ \A m \in Locations : v.holder[m] = IF st.holder[m] = s THEN NoTicket ELSE st.holder[m]
    BY <2>1, ReleasedIsSound
  <2>4. \A m \in Locations : st.holder[m] = s => m = l
    BY <2>1, <1>2 DEF Sound, MapsAgree
  <2>5. v.holder[l] = NoTicket
    BY <2>3
  <2>6. v.placed[t] = Nowhere
    BY <2>1, <2>2, ConstantsAssumption DEF Released, Sound, State
  <2>7. Allocated(st, t, l) = Taken(v, t, l)
    BY <1>2 DEF Allocated
  <2> HIDE DEF v
  <2>8. /\ Sound(Taken(v, t, l))
        /\ \A m \in Locations : Taken(v, t, l).holder[m] = IF m = l THEN t ELSE v.holder[m]
    BY <2>3, <2>5, <2>6, TakenIsSound
  <2> QED BY <2>3, <2>4, <2>7, <2>8
<1> QED BY <1>1, <1>2

-----------------------------------------------------------------------------
(* ServiceQueueManager *)

(* Queues stay sequences of the same tickets.                               *)
LEMMA EnqueuedIsTyped ==
  ASSUME NEW S, NEW queue \in Seq(S), NEW t \in S
  PROVE  Enqueued(queue, t) \in Seq(S)
BY DEF Enqueued

(* Removing a ticket leaves a sequence of the others.                       *)
LEMMA RemovedIsTyped ==
  ASSUME NEW S, NEW queue \in Seq(S), NEW t
  PROVE  Removed(queue, t) \in Seq(S)
<1>1. CASE ~Contains(queue, t)
  BY <1>1 DEF Removed
<1>2. CASE Contains(queue, t)
  <2> DEFINE at == CHOOSE i \in DOMAIN queue : queue[i] = t
  <2>1. at \in 1..Len(queue) /\ Len(queue) \in Nat
    BY <1>2, LenProperties DEF Contains
  <2>2. \A i \in 1..Len(queue) : queue[i] \in S
    BY ElementOfSeq
  <2> HIDE DEF at
  <2>3. SubSeq(queue, 1, at - 1) \in Seq(S)
    <3>1. 1 \in Int /\ at - 1 \in Int /\ \A i \in 1..(at - 1) : queue[i] \in S
      BY <2>1, <2>2
    <3> QED BY <3>1, SubSeqProperties
  <2>4. SubSeq(queue, at + 1, Len(queue)) \in Seq(S)
    <3>1. at + 1 \in Int /\ Len(queue) \in Int /\ \A i \in (at + 1)..Len(queue) : queue[i] \in S
      BY <2>1, <2>2
    <3> QED BY <3>1, SubSeqProperties
  <2>5. Removed(queue, t) = SubSeq(queue, 1, at - 1) \o SubSeq(queue, at + 1, Len(queue))
    BY <1>2 DEF Removed, at
  <2> QED BY <2>3, <2>4, <2>5, ConcatProperties
<1> QED BY <1>1, <1>2

(* remove_ticket keeps the type of every queue.                             *)
LEMMA DequeuedIsTyped ==
  ASSUME NEW S, queues \in [Locations -> Seq(S)], NEW t
  PROVE  Dequeued(t) \in [Locations -> Seq(S)]
BY RemovedIsTyped DEF Dequeued

-----------------------------------------------------------------------------
(* The steps *)

(* A ticket that gave up what it held is given one of the locations.        *)
LEMMA ReallocatedIsSound ==
  ASSUME NodeInv, NEW t \in Issued, NEW list \in Seq(LocationReq),
         NEW l \in Choices(Released(current_state, t), list, t)
  PROVE  LET st == Released(current_state, t)
             u == Allocated(st, t, l)
         IN  /\ Sound(st) /\ Sound(u) /\ l \in Locations
             /\ \A m \in Locations : st.holder[m] =
                  IF current_state.holder[m] = t THEN NoTicket ELSE current_state.holder[m]
             /\ \A m \in Locations : u.holder[m] = IF m = l THEN t ELSE st.holder[m]
             /\ \/ st.holder[l] = NoTicket
                \/ ticket_store.header[st.holder[l]] = ticket_store.header[t]
<1> DEFINE st == Released(current_state, t)
<1>1. t \in Tickets /\ Sound(current_state)
  BY ConstantsAssumption DEF NodeInv, NodeTypeOK, HolderAndPlacedAgree, Sound, Issued, Tickets
<1>2. /\ Sound(st) /\ st.placed[t] = Nowhere
      /\ \A m \in Locations : st.holder[m] =
            IF current_state.holder[m] = t THEN NoTicket ELSE current_state.holder[m]
  BY <1>1, ReleasedIsSound
<1> HIDE DEF st
<1>3. l \in Choices(st, list, t)
  BY DEF st
<1>4. /\ l \in Locations
      /\ \/ st.holder[l] = NoTicket
         \/ ticket_store.header[st.holder[l]] = ticket_store.header[t]
  BY <1>2, <1>3, ChoicesAreSpots DEF Sound
<1>5. /\ Sound(Allocated(st, t, l))
      /\ \A m \in Locations : Allocated(st, t, l).holder[m] = IF m = l THEN t ELSE st.holder[m]
  BY <1>1, <1>2, <1>4, AllocatedIsSound
<1> QED BY <1>2, <1>4, <1>5 DEF st

(* What a step does to the holders of spots on behalf of a ticket: some of  *)
(* its spots become free, and at most one spot that was free, or whose      *)
(* ticket is of the same robot, becomes its own.                            *)
ChangesFor(t) ==
  \A m \in Locations :
    \/ current_state'.holder[m] = current_state.holder[m]
    \/ current_state.holder[m] = t /\ current_state'.holder[m] = NoTicket
    \/ /\ current_state'.holder[m] = t
       /\ \/ current_state.holder[m] = NoTicket
          \/ ticket_store.header[current_state.holder[m]] = ticket_store.header[t]

(* A step on behalf of an issued ticket keeps the node sound.               *)
StepFor(t) ==
  /\ Sound(current_state')
  /\ ChangesFor(t)
  /\ UNCHANGED <<ticket_store, requests>>
  /\ queues' \in [Locations -> Seq(Issued)]
  /\ freed' \in Locations \cup {Nowhere}

(* The facts of the invariant that every handler needs.                     *)
LEMMA IssuedTypes ==
  ASSUME NodeInv
  PROVE  /\ Issued \subseteq Tickets
         /\ queues \in [Locations -> Seq(Issued)]
         /\ Sound(current_state)
BY ConstantsAssumption
   DEF NodeInv, NodeTypeOK, OnlyIssued, HolderAndPlacedAgree, Sound, Issued, Tickets

(* Giving up a spot, and nothing else.                                      *)
LEMMA ReleasedChanges ==
  ASSUME NodeInv, NEW t \in Issued, current_state' = Released(current_state, t)
  PROVE  Sound(current_state') /\ ChangesFor(t)
BY IssuedTypes, ReleasedIsSound DEF ChangesFor

(* Giving up a spot and being given another, or the same, one.              *)
LEMMA ReallocatedChanges ==
  ASSUME NodeInv, NEW t \in Issued, NEW list \in Seq(LocationReq),
         NEW l \in Choices(Released(current_state, t), list, t),
         current_state' = Allocated(Released(current_state, t), t, l)
  PROVE  Sound(current_state') /\ ChangesFor(t)
<1> DEFINE st == Released(current_state, t)
<1>1. /\ Sound(current_state')
      /\ l \in Locations
      /\ \A m \in Locations : st.holder[m] =
            IF current_state.holder[m] = t THEN NoTicket ELSE current_state.holder[m]
      /\ \A m \in Locations : current_state'.holder[m] = IF m = l THEN t ELSE st.holder[m]
      /\ \/ st.holder[l] = NoTicket
         \/ ticket_store.header[st.holder[l]] = ticket_store.header[t]
  BY ReallocatedIsSound
<1> HIDE DEF st
<1> QED BY <1>1 DEF ChangesFor

(* Wait points are turned into a list of locations and costs.               *)
LEMMA WaitReqsIsTyped ==
  ASSUME NEW w \in Seq(Locations)
  PROVE  WaitReqs(w) \in Seq(LocationReq)
<1>1. Len(w) \in Nat /\ DOMAIN w = 1..Len(w)
  BY LenProperties
<1>2. \A i \in 1..Len(w) : w[i] \in Locations
  BY ElementOfSeq
<1>3. WaitReqs(w) \in [1..Len(w) -> LocationReq]
  BY <1>1, <1>2 DEF WaitReqs, LocationReq
<1> QED BY <1>1, <1>3

(* claim_request acts for the ticket that claims.                           *)
LEMMA ClaimRequestStep ==
  ASSUME NodeInv, NEW t \in Issued, NEW w \in WaitLists, ClaimRequest(t, w)
  PROVE  StepFor(t)
<1> DEFINE st == Released(current_state, t)
<1>1. /\ freed' \in Locations \cup {Nowhere} /\ UNCHANGED <<ticket_store, requests>>
      /\ ClaimProceed(t, st) \/ ClaimWait(t, st, w)
  BY DEF ClaimRequest, NodeInv, NodeTypeOK
<1>2. requests[t] \in Seq(LocationReq) /\ w \in Seq(Locations)
  BY IssuedTypes, ConstantsAssumption DEF NodeInv, NodeTypeOK
<1>3. CASE ClaimProceed(t, st)
  <2>1. PICK l \in Choices(st, requests[t], t) : current_state' = Allocated(st, t, l)
    BY <1>3 DEF ClaimProceed
  <2>2. Sound(current_state') /\ ChangesFor(t)
    BY <1>2, <2>1, ReallocatedChanges
  <2>3. queues' \in [Locations -> Seq(Issued)]
    BY <1>3, IssuedTypes DEF ClaimProceed
  <2> QED BY <1>1, <2>2, <2>3 DEF StepFor
<1>4. CASE ClaimWait(t, st, w)
  <2>1. queues' \in [Locations -> Seq(Issued)]
    BY <1>4, IssuedTypes, EnqueuedIsTyped DEF ClaimWait, Queued
  <2>2. CASE \E l \in Choices(st, WaitReqs(w), t) : current_state' = Allocated(st, t, l)
    <3>1. PICK l \in Choices(st, WaitReqs(w), t) : current_state' = Allocated(st, t, l)
      BY <2>2
    <3>2. Sound(current_state') /\ ChangesFor(t)
      BY <1>2, <3>1, WaitReqsIsTyped, ReallocatedChanges
    <3> QED BY <1>1, <2>1, <3>2 DEF StepFor
  <2>3. CASE current_state' = st
    <3>1. Sound(current_state') /\ ChangesFor(t)
      BY <2>3, ReleasedChanges
    <3> QED BY <1>1, <2>1, <3>1 DEF StepFor
  <2> QED BY <1>4, <2>2, <2>3 DEF ClaimWait
<1> QED BY <1>1, <1>3, <1>4

(* release acts for the ticket that is released.                            *)
LEMMA ReleaseStep ==
  ASSUME NodeInv, NEW t \in Issued, Release(t)
  PROVE  StepFor(t)
<1>1. Sound(current_state') /\ ChangesFor(t)
  BY ReleasedChanges DEF Release
<1>2. freed' \in Locations \cup {Nowhere}
  BY IssuedTypes DEF Release, Sound, State
<1> QED BY <1>1, <1>2, IssuedTypes DEF StepFor, Release

(* One iteration of the loop serves the ticket that waits first.            *)
LEMMA ServiceTicketStep ==
  ASSUME NodeInv, freed # Nowhere, queues[freed] # << >>, ServiceTicket(Head(queues[freed])),
         UNCHANGED <<ticket_store, requests>>
  PROVE  /\ Head(queues[freed]) \in Issued
         /\ StepFor(Head(queues[freed]))
<1> DEFINE t == Head(queues[freed])
           st == Released(current_state, t)
           choices == Choices(st, requests[t], t)
<1>1. freed \in Locations /\ queues[freed] \in Seq(Issued)
  BY IssuedTypes DEF NodeInv, NodeTypeOK
<1>2. t \in Issued
  BY <1>1, HeadTailProperties
<1>3. requests[t] \in Seq(LocationReq)
  BY <1>2, IssuedTypes DEF NodeInv, NodeTypeOK
<1>4. queues' \in [Locations -> Seq(Issued)]
  BY IssuedTypes, DequeuedIsTyped DEF ServiceTicket
<1>5. current_state.placed[t] \in Locations \cup {Nowhere}
  BY <1>2, IssuedTypes DEF Sound, State
<1> HIDE DEF t
<1>6. CASE current_state' = st /\ freed' = Nowhere
  <2>1. Sound(current_state') /\ ChangesFor(t)
    BY <1>2, <1>6, ReleasedChanges
  <2> QED BY <1>2, <1>4, <1>6, <2>1 DEF StepFor, t
<1>7. CASE /\ \E l \in choices : current_state' = Allocated(st, t, l)
           /\ freed' = current_state.placed[t]
  <2>1. PICK l \in choices : current_state' = Allocated(st, t, l)
    BY <1>7
  <2>2. Sound(current_state') /\ ChangesFor(t)
    BY <1>2, <1>3, <2>1, ReallocatedChanges
  <2> QED BY <1>2, <1>4, <1>5, <1>7, <2>2 DEF StepFor, t
<1> QED BY <1>6, <1>7 DEF ServiceTicket, t

(* Such a step keeps the invariant, and is a transfer of the ledger.        *)
LEMMA StepForPreserves ==
  ASSUME NodeInv, NEW t \in Issued, StepFor(t)
  PROVE  NodeInv' /\ Ledger!Transfer(ticket_store.header[t])
<1>1. /\ ticket_store' = ticket_store /\ requests' = requests /\ Issued' = Issued
      /\ t \in Tickets /\ ticket_store.header[t] \in Robots
      /\ Sound(current_state') /\ ChangesFor(t)
      /\ NoRobot \notin Robots /\ NoTicket \notin Tickets
  <2>1. ticket_store' = ticket_store /\ requests' = requests /\ Issued' = Issued
    BY DEF StepFor, Issued
  <2>2. NoRobot \notin Robots /\ NoTicket \notin Tickets
    BY ConstantsAssumption DEF Tickets, NoTicket
  <2>3. ticket_store.header[t] \in Robots
    BY DEF NodeInv, OnlyIssued
  <2> QED BY <2>1, <2>2, <2>3, IssuedTypes DEF StepFor
<1>2. \A m \in Locations : current_state'.holder[m] \in Issued \cup {NoTicket}
  BY <1>1 DEF ChangesFor, NodeInv, OnlyIssued
<1>3. queues' \in [Locations -> Seq(Tickets)]
  <2>1. \A q \in Seq(Issued) : q \in Seq(Tickets)
    BY IssuedTypes, SeqMonotonic
  <2> QED BY <2>1 DEF StepFor
<1>4. NodeInv'
  BY <1>1, <1>2, <1>3
     DEF StepFor, NodeInv, NodeTypeOK, HolderAndPlacedAgree, OnlyIssued, Sound, State, MapsAgree, Issued
<1>5. \A m \in Locations : Owner(m) \in Robots \cup {NoRobot} /\ Owner(m)' \in Robots \cup {NoRobot}
  BY <1>1, <1>2 DEF Owner, NodeInv, OnlyIssued
<1>6. \A m \in Locations :
        \/ Owner(m)' = Owner(m)
        \/ Owner(m) = NoRobot /\ Owner(m)' = ticket_store.header[t]
        \/ Owner(m) = ticket_store.header[t] /\ Owner(m)' = NoRobot
  BY <1>1 DEF Owner, ChangesFor
<1>7. Ledger!Transfer(ticket_store.header[t])
  BY <1>5, <1>6 DEF Ledger!Transfer
<1> QED BY <1>4, <1>7

(* A fresh ticket holds nothing and waits nowhere.                          *)
LEMMA OnRequestPreserves ==
  ASSUME NodeInv, NEW r \in Robots, NEW id, NEW a \in Seq(LocationReq),
         OnRequest(r, id, a)
  PROVE  NodeInv' /\ [l \in Locations |-> Owner(l)]' = [l \in Locations |-> Owner(l)]
<1> DEFINE n == ticket_store.next
<1>1. /\ n \in Tickets /\ n \in Nat /\ TicketLimit \in Nat /\ n <= TicketLimit
      /\ ticket_store.header \in [Tickets -> Robots \cup {NoRobot}]
  BY ConstantsAssumption DEF NodeInv, NodeTypeOK, OnRequest, Tickets
<1>2. /\ ticket_store' = [next |-> n + 1, header |-> [ticket_store.header EXCEPT ![n] = r]]
      /\ requests' = [requests EXCEPT ![n] = a]
      /\ current_state' = current_state /\ queues' = queues /\ freed' = freed
  BY DEF OnRequest
<1>3. ticket_store' \in [next : 1..(TicketLimit + 1), header : [Tickets -> Robots \cup {NoRobot}]]
  BY <1>1, <1>2
<1>4. NodeTypeOK'
  BY <1>1, <1>2, <1>3 DEF NodeInv, NodeTypeOK
<1>5. Issued' = Issued \cup {n}
  <2>1. ticket_store'.next = n + 1
    BY <1>2
  <2>2. Issued' = 1..(ticket_store'.next - 1) /\ Issued = 1..(n - 1)
    BY DEF Issued
  <2>3. n \in Nat /\ n >= 1 /\ 1..(n + 1 - 1) = 1..n
    BY <1>1 DEF Tickets
  <2>4. 1..n = 1..(n - 1) \cup {n}
    <3> HIDE DEF n
    <3> QED BY <2>3
  <2> QED BY <2>1, <2>2, <2>3, <2>4
<1>6. n \notin Issued
  BY <1>1 DEF Issued
<1>7. /\ ticket_store'.header[n] = r
      /\ \A t \in Issued : ticket_store'.header[t] = ticket_store.header[t]
  BY <1>1, <1>2, <1>6, IssuedTypes
<1>8. \A q \in Seq(Issued) : q \in Seq(Issued')
  BY <1>5, SeqMonotonic
<1>9. OnlyIssued'
  BY <1>2, <1>5, <1>7, <1>8 DEF NodeInv, OnlyIssued
<1>10. HolderAndPlacedAgree'
  BY <1>2 DEF NodeInv, HolderAndPlacedAgree, MapsAgree
<1>11. \A l \in Locations : Owner(l)' = Owner(l)
  BY <1>2, <1>7 DEF Owner, NodeInv, OnlyIssued
<1> QED BY <1>4, <1>9, <1>10, <1>11 DEF NodeInv

(* A step of the node, or a step of its clients that leaves it alone; the   *)
(* alternatives of a request may be any list.                               *)
ClientStep == UNCHANGED <<ticket_store, requests, current_state, queues, freed>>

AnyNodeStep ==
  \/ ReceivedGraph
  \/ \E r \in Robots : \E id : \E a \in Seq(LocationReq) : OnRequest(r, id, a)
  \/ \E t \in Issued, w \in WaitLists : ClaimRequest(t, w)
  \/ \E t \in Issued : Release(t)
  \/ ServiceNext
  \/ ClientStep

(* The node's own specification takes no other steps.                       *)
LEMMA NodeStepsAreSuch == [NodeNext]_nodeVars => AnyNodeStep
<1>1. NodeNext => AnyNodeStep
  <2>1. \A a \in Alternatives : a \in Seq(LocationReq)
    BY ConstantsAssumption
  <2> QED BY <2>1 DEF NodeNext, AnyNodeStep
<1>2. UNCHANGED nodeVars => AnyNodeStep
  BY DEF AnyNodeStep, ClientStep, nodeVars
<1> QED BY <1>1, <1>2

(* Every step keeps the invariant and is a step of the ledger or a stutter. *)
LEMMA NodeStepPreserves ==
  ASSUME NodeInv, AnyNodeStep
  PROVE  NodeInv' /\ [Ledger!Next]_([l \in Locations |-> Owner(l)])
<1>1. ASSUME NEW t \in Issued, StepFor(t)
      PROVE  NodeInv' /\ Ledger!Next
  <2>1. ticket_store.header[t] \in Robots
    BY DEF NodeInv, OnlyIssued
  <2> QED BY <1>1, <2>1, StepForPreserves DEF Ledger!Next
<1>2. ASSUME UNCHANGED <<ticket_store, requests, queues>>, freed' \in Locations \cup {Nowhere},
             current_state'.holder = current_state.holder, Sound(current_state')
      PROVE  /\ NodeInv'
             /\ [l \in Locations |-> Owner(l)]' = [l \in Locations |-> Owner(l)]
  BY <1>2 DEF NodeInv, NodeTypeOK, HolderAndPlacedAgree, OnlyIssued, Issued, Sound, Owner
<1>3. CASE ReceivedGraph
  <2>1. /\ current_state' \in State /\ current_state'.holder = current_state.holder
        /\ current_state'.placed = current_state.placed
        /\ current_state.known \subseteq current_state'.known
    BY <1>3, ConstantsAssumption DEF ReceivedGraph, NodeInv, NodeTypeOK, State
  <2>2. Sound(current_state')
    BY <2>1, IssuedTypes DEF Sound, MapsAgree
  <2> QED BY <1>2, <1>3, <2>1, <2>2 DEF ReceivedGraph, NodeInv, NodeTypeOK
<1>4. ASSUME NEW r \in Robots, NEW id, NEW a \in Seq(LocationReq), OnRequest(r, id, a)
      PROVE  NodeInv' /\ [l \in Locations |-> Owner(l)]' = [l \in Locations |-> Owner(l)]
  BY <1>4, OnRequestPreserves
<1>5. ASSUME NEW t \in Issued, NEW w \in WaitLists, ClaimRequest(t, w)
      PROVE  NodeInv' /\ Ledger!Next
  BY <1>1, <1>5, ClaimRequestStep
<1>6. ASSUME NEW t \in Issued, Release(t)
      PROVE  NodeInv' /\ Ledger!Next
  BY <1>1, <1>6, ReleaseStep
<1>7. CASE ServiceNext
  <2>1. CASE ServiceEmpty
    BY <1>2, <1>7, <2>1, IssuedTypes DEF ServiceNext, ServiceEmpty
  <2>2. CASE queues[freed] # << >> /\ ServiceTicket(Head(queues[freed]))
    BY <1>1, <1>7, <2>2, ServiceTicketStep DEF ServiceNext
  <2> QED BY <1>7, <2>1, <2>2 DEF ServiceNext
<1>8. CASE ClientStep
  BY <1>2, <1>8, IssuedTypes DEF ClientStep, NodeInv, NodeTypeOK
<1> QED BY <1>3, <1>4, <1>5, <1>6, <1>7, <1>8 DEF AnyNodeStep

(* The node starts in the invariant with nothing owned.                     *)
LEMMA NodeInitially ==
  ASSUME NodeInit
  PROVE  NodeInv /\ Ledger!Init
<1>1. NodeTypeOK
  BY ConstantsAssumption DEF NodeInit, NodeTypeOK, State, Tickets, NoTicket
<1>2. HolderAndPlacedAgree
  BY DEF NodeInit, HolderAndPlacedAgree, MapsAgree
<1>3. Issued = {}
  BY DEF NodeInit, Issued
<1>4. OnlyIssued
  BY <1>3 DEF NodeInit, OnlyIssued
<1>5. Ledger!Init
  BY DEF NodeInit, Ledger!Init, Owner
<1> QED BY <1>1, <1>2, <1>4, <1>5 DEF NodeInv

(* The inductive invariant holds whatever the clients send.                 *)
THEOREM NodeInvariant == NodeSpec => []NodeInv
<1>1. NodeInit => NodeInv BY NodeInitially
<1>2. NodeInv /\ [NodeNext]_nodeVars => NodeInv' BY NodeStepPreserves, NodeStepsAreSuch
<1> QED BY <1>1, <1>2, PTL DEF NodeSpec

(* Tickets, spots and queues keep their types, whatever is requested,       *)
(* claimed and released.                                                    *)
THEOREM NodeTypes == NodeSpec => []NodeTypeOK
<1>1. NodeInv => NodeTypeOK BY DEF NodeInv
<1> QED BY <1>1, NodeInvariant, PTL

(* The maps from spots to tickets and from tickets to spots are inverse:    *)
(* one ticket per spot, one spot per ticket.                                *)
THEOREM MapsStayInverse == NodeSpec => []HolderAndPlacedAgree
<1>1. NodeInv => HolderAndPlacedAgree BY DEF NodeInv
<1> QED BY <1>1, NodeInvariant, PTL

(* The node implements the ledger: a spot has one robot as its owner, and   *)
(* never passes from one robot to another without having been free.         *)
THEOREM NodeImplementsLedger == NodeSpec => LedgerSpec
<1>1. NodeInit => Ledger!Init BY NodeInitially
<1>2. NodeInv /\ [NodeNext]_nodeVars => [Ledger!Next]_([l \in Locations |-> Owner(l)])
  BY NodeStepPreserves, NodeStepsAreSuch
<1> QED BY <1>1, <1>2, NodeInvariant, PTL DEF NodeSpec, LedgerSpec, Ledger!Spec

-----------------------------------------------------------------------------
(* The queues: a queue is described by what it contains and by which ticket *)
(* is before which; adding at the end and removing are stated in these      *)
(* terms once, and the handlers then need no indices.                       *)

Distinct(queue) == \A i, j \in DOMAIN queue : queue[i] = queue[j] => i = j

Before(queue, s, u) == \E i, j \in DOMAIN queue : i < j /\ queue[i] = s /\ queue[j] = u

(* The two properties, in terms of Contains and Before.                      *)
QueuesAgree ==
  /\ \A l \in Locations : Distinct(queues[l])
  /\ \A t \in Issued : \A l, m \in Requested(t) :
       Contains(queues[l], t) => Contains(queues[m], t)
  /\ \A t \in Tickets : \A l \in Locations :
       Contains(queues[l], t) => l \in Requested(t)
  /\ \A l, m \in Locations : \A s, u \in Tickets :
       Before(queues[l], s, u) /\ Contains(queues[m], s) /\ Contains(queues[m], u)
         => Before(queues[m], s, u)

QueuesInv == NodeInv /\ QueuesAgree

-----------------------------------------------------------------------------
(* One queue *)

(* Whoever is before another is in the queue, and so is the other.          *)
LEMMA BeforeIsContained ==
  ASSUME NEW queue, NEW s, NEW u, Before(queue, s, u)
  PROVE  Contains(queue, s) /\ Contains(queue, u)
BY DEF Before, Contains

(* A ticket joins at the end, unless it waits already.                      *)
LEMMA EnqueuedQueue ==
  ASSUME NEW queue \in Seq(Tickets), Distinct(queue), NEW t \in Tickets
  PROVE  LET e == Enqueued(queue, t)
         IN  /\ Distinct(e)
             /\ \A s \in Tickets : Contains(e, s) <=> Contains(queue, s) \/ s = t
             /\ \A s, u \in Tickets : Before(e, s, u) <=>
                  \/ Before(queue, s, u)
                  \/ ~Contains(queue, t) /\ u = t /\ Contains(queue, s)
<1>1. CASE Contains(queue, t)
  BY <1>1 DEF Enqueued
<1>2. CASE ~Contains(queue, t)
  <2> DEFINE e == Append(queue, t)
             n == Len(queue)
  <2>1. /\ e \in Seq(Tickets) /\ n \in Nat /\ DOMAIN queue = 1..n /\ DOMAIN e = 1..(n + 1)
        /\ \A i \in 1..n : e[i] = queue[i]
        /\ e[n + 1] = t
    BY AppendProperties, LenProperties
  <2>2. \A i \in 1..n : queue[i] # t
    BY <1>2, <2>1 DEF Contains
  <2>3. Enqueued(queue, t) = e
    BY <1>2 DEF Enqueued
  <2> HIDE DEF e, n
  <2>4. Distinct(e)
    BY <2>1, <2>2 DEF Distinct
  <2>5. \A s \in Tickets : Contains(e, s) <=> Contains(queue, s) \/ s = t
    BY <2>1 DEF Contains
  <2>6. ASSUME NEW s \in Tickets, NEW u \in Tickets, Before(e, s, u)
        PROVE  Before(queue, s, u) \/ (u = t /\ Contains(queue, s))
    <3>1. PICK i, j \in 1..(n + 1) : i < j /\ e[i] = s /\ e[j] = u
      BY <2>1, <2>6 DEF Before
    <3>2. i \in 1..n /\ queue[i] = s
      BY <2>1, <3>1
    <3>3. CASE j \in 1..n
      BY <2>1, <3>1, <3>2, <3>3 DEF Before
    <3>4. CASE j = n + 1
      BY <2>1, <3>1, <3>2, <3>4 DEF Contains
    <3> QED BY <2>1, <3>1, <3>3, <3>4
  <2>7. ASSUME NEW s \in Tickets, NEW u \in Tickets, Before(queue, s, u)
        PROVE  Before(e, s, u)
    BY <2>1, <2>7 DEF Before
  <2>8. ASSUME NEW s \in Tickets, Contains(queue, s) PROVE Before(e, s, t)
    <3>1. PICK i \in 1..n : queue[i] = s
      BY <2>1, <2>8 DEF Contains
    <3>2. i \in 1..(n + 1) /\ n + 1 \in 1..(n + 1) /\ i < n + 1 /\ e[i] = s /\ e[n + 1] = t
      BY <2>1, <3>1
    <3> QED BY <2>1, <3>2 DEF Before
  <2> QED BY <1>2, <2>3, <2>4, <2>5, <2>6, <2>7, <2>8
<1> QED BY <1>1, <1>2

(* What is behind a removed ticket moves up by one.                         *)
LEMMA RemovedIndices ==
  ASSUME NEW queue \in Seq(Tickets), NEW t, Contains(queue, t)
  PROVE  \E at \in 1..Len(queue) :
           /\ queue[at] = t
           /\ DOMAIN Removed(queue, t) = 1..(Len(queue) - 1)
           /\ \A i \in 1..(Len(queue) - 1) :
                Removed(queue, t)[i] = IF i < at THEN queue[i] ELSE queue[i + 1]
<1> DEFINE at == CHOOSE i \in DOMAIN queue : queue[i] = t
           n == Len(queue)
           front == SubSeq(queue, 1, at - 1)
           back == SubSeq(queue, at + 1, n)
<1>1. at \in 1..n /\ queue[at] = t /\ n \in Nat
  BY LenProperties DEF Contains
<1>2. \A i \in 1..n : queue[i] \in Tickets
  BY ElementOfSeq
<1>3. Removed(queue, t) = front \o back
  BY DEF Removed
<1> HIDE DEF at
<1>4. /\ front \in Seq(Tickets) /\ Len(front) = at - 1
      /\ \A i \in 1..(at - 1) : front[i] = queue[i]
  <2>1. at - 1 \in Int /\ \A i \in 1..(at - 1) : queue[i] \in Tickets
    BY <1>1, <1>2
  <2>2. /\ front \in Seq(Tickets)
        /\ Len(front) = IF 1 <= at - 1 THEN (at - 1) - 1 + 1 ELSE 0
        /\ \A i \in 1..((at - 1) - 1 + 1) : front[i] = queue[1 + i - 1]
    BY <2>1, SubSeqProperties
  <2> QED BY <1>1, <2>2
<1>5. /\ back \in Seq(Tickets) /\ Len(back) = n - at
      /\ \A i \in 1..(n - at) : back[i] = queue[at + i]
  <2>1. at + 1 \in Int /\ \A i \in (at + 1)..n : queue[i] \in Tickets
    BY <1>1, <1>2
  <2>2. /\ back \in Seq(Tickets)
        /\ Len(back) = IF at + 1 <= n THEN n - (at + 1) + 1 ELSE 0
        /\ \A i \in 1..(n - (at + 1) + 1) : back[i] = queue[at + 1 + i - 1]
    BY <1>1, <2>1, SubSeqProperties
  <2> QED BY <1>1, <2>2
<1> DEFINE both == front \o back
<1>6. /\ both \in Seq(Tickets) /\ Len(both) = Len(front) + Len(back)
      /\ \A i \in 1..(Len(front) + Len(back)) :
           both[i] = IF i <= Len(front) THEN front[i] ELSE back[i - Len(front)]
  <2> HIDE DEF front, back
  <2> QED BY <1>4, <1>5, ConcatProperties
<1> HIDE DEF front, back, n, both
<1>7. Len(front) + Len(back) = n - 1 /\ at \in Int /\ n \in Int
  BY <1>1, <1>4, <1>5
<1>8. ASSUME NEW i \in 1..(n - 1)
      PROVE  both[i] = IF i < at THEN queue[i] ELSE queue[i + 1]
  <2>1. i \in Int /\ both[i] = IF i <= at - 1 THEN front[i] ELSE back[i - (at - 1)]
    BY <1>4, <1>6, <1>7
  <2>2. CASE i < at
    BY <1>1, <1>4, <2>1, <2>2
  <2>3. CASE ~(i < at)
    <3>1. i - (at - 1) \in 1..(n - at) /\ at + (i - (at - 1)) = i + 1
      BY <1>1, <2>1, <2>3
    <3>2. both[i] = back[i - (at - 1)]
      BY <1>7, <2>1, <2>3
    <3>3. back[i - (at - 1)] = queue[i + 1]
      BY <1>5, <3>1
    <3> QED BY <2>3, <3>2, <3>3
  <2> QED BY <2>2, <2>3
<1>9. DOMAIN both = 1..(n - 1)
  BY <1>6, <1>7, LenProperties
<1> QED BY <1>1, <1>3, <1>8, <1>9 DEF n, both

(* A ticket is removed, and the others stay in order.                       *)
LEMMA RemovedQueue ==
  ASSUME NEW queue \in Seq(Tickets), Distinct(queue), NEW t \in Tickets
  PROVE  LET r == Removed(queue, t)
         IN  /\ Distinct(r)
             /\ \A s \in Tickets : Contains(r, s) <=> Contains(queue, s) /\ s # t
             /\ \A s, u \in Tickets :
                  Before(r, s, u) <=> Before(queue, s, u) /\ s # t /\ u # t
<1>1. CASE ~Contains(queue, t)
  BY <1>1 DEF Removed, Before, Contains
<1>2. CASE Contains(queue, t)
  <2> DEFINE r == Removed(queue, t)
             n == Len(queue)
  <2>1. PICK at \in 1..n :
          /\ queue[at] = t
          /\ DOMAIN r = 1..(n - 1)
          /\ \A i \in 1..(n - 1) : r[i] = IF i < at THEN queue[i] ELSE queue[i + 1]
    BY <1>2, RemovedIndices
  <2>2. n \in Nat /\ DOMAIN queue = 1..n
    BY LenProperties
  <2> HIDE DEF r, n
  <2> DEFINE Old(i) == IF i < at THEN i ELSE i + 1
             New(i) == IF i < at THEN i ELSE i - 1
  <2>3. \A i \in 1..(n - 1) : Old(i) \in 1..n /\ Old(i) # at /\ r[i] = queue[Old(i)]
    BY <2>1, <2>2
  <2>4. \A i \in 1..n : i # at => New(i) \in 1..(n - 1) /\ r[New(i)] = queue[i]
    BY <2>1, <2>2
  <2>5. \A i, j \in 1..(n - 1) : (i < j => Old(i) < Old(j)) /\ (Old(i) = Old(j) => i = j)
    BY <2>1, <2>2
  <2>6. \A i, j \in 1..n : i # at /\ j # at /\ i < j => New(i) < New(j)
    BY <2>1, <2>2
  <2> HIDE DEF Old, New
  <2>7. \A i \in 1..n : queue[i] = t <=> i = at
    BY <2>1, <2>2 DEF Distinct
  <2>8. Distinct(r)
    BY <2>1, <2>2, <2>3, <2>5 DEF Distinct
  <2>9. \A s \in Tickets : Contains(r, s) <=> Contains(queue, s) /\ s # t
    BY <2>1, <2>2, <2>3, <2>4, <2>7 DEF Contains
  <2>10. ASSUME NEW s \in Tickets, NEW u \in Tickets, Before(r, s, u)
         PROVE  Before(queue, s, u) /\ s # t /\ u # t
    <3>1. PICK i, j \in 1..(n - 1) : i < j /\ r[i] = s /\ r[j] = u
      BY <2>1, <2>10 DEF Before
    <3>2. /\ Old(i) \in 1..n /\ Old(j) \in 1..n /\ Old(i) < Old(j)
          /\ queue[Old(i)] = s /\ queue[Old(j)] = u /\ Old(i) # at /\ Old(j) # at
      BY <2>3, <2>5, <3>1
    <3> QED BY <2>2, <2>7, <3>2 DEF Before
  <2>11. ASSUME NEW s \in Tickets, NEW u \in Tickets, Before(queue, s, u), s # t, u # t
         PROVE  Before(r, s, u)
    <3>1. PICK i, j \in 1..n : i < j /\ queue[i] = s /\ queue[j] = u
      BY <2>2, <2>11 DEF Before
    <3>2. i # at /\ j # at
      BY <2>1, <2>11, <3>1
    <3>3. /\ New(i) \in 1..(n - 1) /\ New(j) \in 1..(n - 1) /\ New(i) < New(j)
          /\ r[New(i)] = s /\ r[New(j)] = u
      BY <2>4, <2>6, <3>1, <3>2
    <3> QED BY <2>1, <3>3 DEF Before
  <2> QED BY <2>8, <2>9, <2>10, <2>11 DEF r
<1> QED BY <1>1, <1>2

-----------------------------------------------------------------------------
(* The handlers *)

(* Types the steps below rely on.                                           *)
LEMMA QueueTypes ==
  ASSUME NodeInv
  PROVE  /\ Issued \subseteq Tickets
         /\ \A l \in Locations : queues[l] \in Seq(Tickets)
         /\ \A t \in Tickets : Requested(t) \subseteq Locations
<1>1. Issued \subseteq Tickets
  BY IssuedTypes
<1>2. \A l \in Locations : queues[l] \in Seq(Tickets)
  BY DEF NodeInv, NodeTypeOK
<1>3. ASSUME NEW t \in Tickets, NEW l \in Requested(t) PROVE l \in Locations
  <2>1. PICK i \in DOMAIN requests[t] : l = requests[t][i].location
    BY DEF Requested
  <2>2. requests[t] \in Seq(LocationReq)
    BY DEF NodeInv, NodeTypeOK
  <2>3. requests[t][i] \in LocationReq
    BY <2>1, <2>2, LenProperties, ElementOfSeq
  <2> QED BY <2>1, <2>3 DEF LocationReq
<1> QED BY <1>1, <1>2, <1>3

(* A claim that waits joins all of its queues, behind everybody there.      *)
LEMMA ClaimKeepsQueues ==
  ASSUME QueuesInv, NEW t \in Issued, NEW w \in WaitLists, ClaimRequest(t, w)
  PROVE  QueuesAgree'
<1>0. t \in Tickets /\ Issued \subseteq Tickets /\ Issued' = Issued
      /\ \A s \in Tickets : Requested(s)' = Requested(s)
  BY QueueTypes DEF QueuesInv, ClaimRequest, Issued, Requested
<1>1. CASE UNCHANGED queues
  BY <1>0, <1>1 DEF QueuesInv, QueuesAgree
<1>2. CASE queues' = [l \in Locations |-> IF l \in Requested(t) THEN Enqueued(queues[l], t)
                                         ELSE queues[l]]
  <2>1. ASSUME NEW l \in Locations
        PROVE  /\ Distinct(queues'[l])
               /\ \A s \in Tickets : Contains(queues'[l], s) <=>
                    Contains(queues[l], s) \/ (l \in Requested(t) /\ s = t)
               /\ \A s, u \in Tickets : Before(queues'[l], s, u) <=>
                    \/ Before(queues[l], s, u)
                    \/ /\ l \in Requested(t) /\ ~Contains(queues[l], t)
                       /\ u = t /\ Contains(queues[l], s)
    <3>1. queues[l] \in Seq(Tickets) /\ Distinct(queues[l])
      BY QueueTypes DEF QueuesInv, QueuesAgree
    <3>2. CASE l \in Requested(t)
      <4>1. queues'[l] = Enqueued(queues[l], t)
        BY <1>2, <3>2
      <4> QED BY <1>0, <3>1, <3>2, <4>1, EnqueuedQueue
    <3>3. CASE l \notin Requested(t)
      <4>1. queues'[l] = queues[l]
        BY <1>2, <3>3
      <4> QED BY <3>1, <3>3, <4>1
    <3> QED BY <3>2, <3>3
  <2>2. ASSUME NEW s \in Issued, NEW l \in Requested(s), NEW m \in Requested(s),
               Contains(queues'[l], s)
        PROVE  Contains(queues'[m], s)
    <3>1. s \in Tickets /\ l \in Locations /\ m \in Locations
      BY QueueTypes DEF QueuesInv
    <3>2. CASE s = t
      BY <2>1, <3>1, <3>2
    <3>3. CASE s # t
      <4>1. Contains(queues[l], s)
        BY <2>1, <2>2, <3>1, <3>3
      <4>2. Contains(queues[m], s)
        BY <4>1 DEF QueuesInv, QueuesAgree
      <4> QED BY <2>1, <3>1, <4>2
    <3> QED BY <3>2, <3>3
  <2>3. ASSUME NEW s \in Tickets, NEW l \in Locations, Contains(queues'[l], s)
        PROVE  l \in Requested(s)
    BY <2>1, <2>3 DEF QueuesInv, QueuesAgree
  <2>4. ASSUME NEW l \in Locations, NEW m \in Locations, NEW s \in Tickets, NEW u \in Tickets,
               Before(queues'[l], s, u), Contains(queues'[m], s), Contains(queues'[m], u)
        PROVE  Before(queues'[m], s, u)
    <3>1. CASE Before(queues[l], s, u)
      <4>1. Contains(queues[l], s) /\ Contains(queues[l], u)
        BY <3>1, BeforeIsContained
      <4>2. \A x \in Tickets : Contains(queues[l], x) /\ Contains(queues'[m], x)
              => Contains(queues[m], x)
        <5>1. SUFFICES ASSUME NEW x \in Tickets, Contains(queues[l], x), m \in Requested(t), x = t
                       PROVE  Contains(queues[m], x)
          BY <2>1
        <5>2. l \in Requested(t)
          BY <5>1 DEF QueuesInv, QueuesAgree
        <5> QED BY <5>1, <5>2 DEF QueuesInv, QueuesAgree
      <4>3. Contains(queues[m], s) /\ Contains(queues[m], u)
        BY <2>4, <4>1, <4>2
      <4>4. Before(queues[m], s, u)
        BY <3>1, <4>3 DEF QueuesInv, QueuesAgree
      <4> QED BY <2>1, <4>4
    <3>2. CASE /\ l \in Requested(t) /\ ~Contains(queues[l], t)
               /\ u = t /\ Contains(queues[l], s)
      <4>1. m \in Requested(t)
        BY <2>3, <2>4, <3>2
      <4>2. ~Contains(queues[m], t)
        BY <3>2, <4>1 DEF QueuesInv, QueuesAgree
      <4>3. s # t
        BY <3>2
      <4>4. Contains(queues[m], s)
        BY <2>1, <2>4, <4>3
      <4> QED BY <2>1, <3>2, <4>1, <4>2, <4>4
    <3> QED BY <2>1, <2>4, <3>1, <3>2
  <2> QED BY <1>0, <2>1, <2>2, <2>3, <2>4 DEF QueuesAgree
<1>3. UNCHANGED queues \/ queues' = [l \in Locations |->
        IF l \in Requested(t) THEN Enqueued(queues[l], t) ELSE queues[l]]
  BY DEF ClaimRequest, ClaimProceed, ClaimWait, Queued
<1> QED BY <1>1, <1>2, <1>3

(* The ticket that is served leaves all queues.                             *)
LEMMA ServiceKeepsQueues ==
  ASSUME QueuesInv, ServiceNext
  PROVE  QueuesAgree'
<1>0. Issued \subseteq Tickets /\ Issued' = Issued
      /\ \A s \in Tickets : Requested(s)' = Requested(s)
  BY QueueTypes DEF QueuesInv, ServiceNext, Issued, Requested
<1>1. CASE UNCHANGED queues
  BY <1>0, <1>1 DEF QueuesInv, QueuesAgree
<1>2. ASSUME NEW t \in Tickets, queues' = Dequeued(t) PROVE QueuesAgree'
  <2>1. ASSUME NEW l \in Locations
        PROVE  /\ Distinct(queues'[l])
               /\ \A s \in Tickets : Contains(queues'[l], s) <=> Contains(queues[l], s) /\ s # t
               /\ \A s, u \in Tickets : Before(queues'[l], s, u) <=>
                    Before(queues[l], s, u) /\ s # t /\ u # t
    <3>1. queues[l] \in Seq(Tickets) /\ Distinct(queues[l])
      BY QueueTypes DEF QueuesInv, QueuesAgree
    <3>2. queues'[l] = Removed(queues[l], t)
      BY <1>2 DEF Dequeued
    <3> QED BY <3>1, <3>2, RemovedQueue
  <2>2. \A s \in Issued : s \in Tickets /\ Requested(s) \subseteq Locations
    BY QueueTypes DEF QueuesInv
  <2>3. \A s \in Issued : \A l, m \in Requested(s) :
          Contains(queues'[l], s) => Contains(queues'[m], s)
    BY <2>1, <2>2 DEF QueuesInv, QueuesAgree
  <2>4. \A s \in Tickets : \A l \in Locations : Contains(queues'[l], s) => l \in Requested(s)
    BY <2>1 DEF QueuesInv, QueuesAgree
  <2>5. \A l, m \in Locations : \A s, u \in Tickets :
          Before(queues'[l], s, u) /\ Contains(queues'[m], s) /\ Contains(queues'[m], u)
            => Before(queues'[m], s, u)
    BY <2>1 DEF QueuesInv, QueuesAgree
  <2> QED BY <1>0, <2>1, <2>3, <2>4, <2>5 DEF QueuesAgree
<1>3. CASE ServiceEmpty
  BY <1>1, <1>3 DEF ServiceEmpty
<1>4. CASE queues[freed] # << >> /\ ServiceTicket(Head(queues[freed]))
  <2>1. freed \in Locations
    BY DEF ServiceNext, QueuesInv, NodeInv, NodeTypeOK
  <2>2. queues[freed] \in Seq(Tickets)
    BY <2>1, QueueTypes DEF QueuesInv
  <2>3. Head(queues[freed]) \in Tickets
    BY <1>4, <2>2, HeadTailProperties
  <2> QED BY <1>2, <1>4, <2>3 DEF ServiceTicket
<1> QED BY <1>3, <1>4 DEF ServiceNext

(* The new ticket is in no queue.                                           *)
LEMMA RequestKeepsQueues ==
  ASSUME QueuesInv, NEW r \in Robots, NEW id, NEW a \in Seq(LocationReq),
         OnRequest(r, id, a)
  PROVE  QueuesAgree'
<1>0. PICK t \in Tickets : t = ticket_store.next
  BY ConstantsAssumption DEF OnRequest, QueuesInv, NodeInv, NodeTypeOK, Tickets
<1>1. t \notin Issued /\ Issued' = Issued \cup {t}
  <2>1. t \in Nat \ {0} /\ t <= TicketLimit /\ ticket_store'.next = t + 1
    BY <1>0, ConstantsAssumption DEF OnRequest, Tickets
  <2> QED BY <1>0, <2>1, ConstantsAssumption DEF Issued, Tickets
<1>2. queues' = queues /\ requests' = [requests EXCEPT ![t] = a]
  BY <1>0 DEF OnRequest
<1>3. \A s \in Tickets \ {t} : Requested(s)' = Requested(s)
  BY <1>2 DEF Requested, QueuesInv, NodeInv, NodeTypeOK
<1>4. ASSUME NEW l \in Locations, Contains(queues[l], t) PROVE FALSE
  <2>1. queues[l] \in Seq(Issued)
    BY DEF QueuesInv, NodeInv, OnlyIssued
  <2>2. PICK i \in DOMAIN queues[l] : queues[l][i] = t
    BY <1>4 DEF Contains
  <2>3. queues[l][i] \in Issued
    BY <2>1, <2>2, LenProperties, ElementOfSeq
  <2> QED BY <1>1, <2>2, <2>3
<1>5. Requested(t)' \subseteq Locations
  <2>1. requests'[t] = a
    BY <1>1, <1>2 DEF QueuesInv, NodeInv, NodeTypeOK
  <2>2. \A i \in DOMAIN a : a[i] \in LocationReq
    BY <2>1, LenProperties, ElementOfSeq
  <2> QED BY <2>1, <2>2 DEF Requested, LocationReq
<1>6. \A s \in Issued' : \A l, m \in Requested(s)' :
        Contains(queues'[l], s) => Contains(queues'[m], s)
  <2>1. \A s \in Issued : s \in Tickets \ {t}
    BY <1>1, QueueTypes DEF QueuesInv
  <2> QED BY <1>1, <1>2, <1>3, <1>4, <1>5, <2>1 DEF QueuesInv, QueuesAgree
<1>7. \A s \in Tickets : \A l \in Locations : Contains(queues'[l], s) => l \in Requested(s)'
  BY <1>1, <1>2, <1>3, <1>4 DEF QueuesInv, QueuesAgree
<1> QED BY <1>2, <1>6, <1>7 DEF QueuesInv, QueuesAgree

(* Every step keeps the queues in agreement.                                *)
LEMMA NextKeepsQueues == QueuesInv /\ AnyNodeStep => QueuesInv'
<1> SUFFICES ASSUME QueuesInv, AnyNodeStep PROVE QueuesAgree'
  BY NodeStepPreserves DEF QueuesInv
<1>2. ASSUME UNCHANGED <<ticket_store, requests, queues>> PROVE QueuesAgree'
  BY <1>2 DEF QueuesInv, QueuesAgree, Issued, Requested
<1>3. ASSUME NEW r \in Robots, NEW id, NEW a \in Seq(LocationReq), OnRequest(r, id, a)
      PROVE  QueuesAgree'
  BY <1>3, RequestKeepsQueues
<1>4. ASSUME NEW t \in Issued, NEW w \in WaitLists, ClaimRequest(t, w) PROVE QueuesAgree'
  BY <1>4, ClaimKeepsQueues
<1>5. CASE ServiceNext
  BY <1>5, ServiceKeepsQueues
<1>6. CASE ReceivedGraph
  BY <1>2, <1>6 DEF ReceivedGraph
<1>7. ASSUME NEW t \in Issued, Release(t) PROVE QueuesAgree'
  BY <1>2, <1>7 DEF Release
<1>8. CASE ClientStep
  BY <1>2, <1>8 DEF ClientStep
<1> QED BY <1>3, <1>4, <1>5, <1>6, <1>7, <1>8 DEF AnyNodeStep

(* At first nobody waits.                                                   *)
LEMMA InitEstablishesQueues == NodeInit => QueuesInv
<1> SUFFICES ASSUME NodeInit PROVE QueuesInv
  OBVIOUS
<1>1. \A l \in Locations : queues[l] = << >>
  BY DEF NodeInit
<1>2. QueuesAgree
  <2>1. Issued = {}
    BY DEF NodeInit, Issued
  <2>2. \A l \in Locations : DOMAIN queues[l] = {}
    BY <1>1
  <2> QED BY <2>1, <2>2 DEF QueuesAgree, Distinct, Contains, Before
<1> QED BY <1>2, NodeInitially DEF QueuesInv

(* The inductive invariant of the queues.                                   *)
LEMMA QueuesInvariant == NodeSpec => []QueuesInv
BY InitEstablishesQueues, NextKeepsQueues, NodeStepsAreSuch, PTL DEF NodeSpec

(* A ticket waits in the queues of all spots it requested or in none, once  *)
(* per queue and in no other, whatever is claimed, served and released.     *)
THEOREM QueuesAreAllOrNone == NodeSpec => []QueuedEverywhereOrNowhere
<1>1. QueuesInv => QueuedEverywhereOrNowhere
  BY DEF QueuesInv, QueuesAgree, QueuedEverywhereOrNowhere, Distinct
<1> QED BY <1>1, QueuesInvariant, PTL

(* Two tickets that wait for the same two spots are in the same order in    *)
(* both queues: no two queues serve them in opposite order.                 *)
THEOREM QueuesServeInOneOrder == NodeSpec => []QueuesAgreeOnOrder
<1>1. QueuesInv => QueuesAgreeOnOrder
  <2>1. SUFFICES ASSUME QueuesInv, NEW l \in Locations, NEW m \in Locations,
                        NEW i1 \in DOMAIN queues[l], NEW i2 \in DOMAIN queues[l],
                        NEW j1 \in DOMAIN queues[m], NEW j2 \in DOMAIN queues[m],
                        queues[l][i1] = queues[m][j1], queues[l][i2] = queues[m][j2], i1 < i2
                 PROVE  j1 < j2
    BY DEF QueuesAgreeOnOrder
  <2> DEFINE s == queues[l][i1]
             u == queues[l][i2]
  <2>2. queues[l] \in Seq(Tickets) /\ s \in Tickets /\ u \in Tickets
    BY <2>1, QueueTypes, LenProperties, ElementOfSeq DEF QueuesInv
  <2>3. Before(queues[l], s, u) /\ Contains(queues[m], s) /\ Contains(queues[m], u)
    BY <2>1 DEF Before, Contains
  <2> HIDE DEF s, u
  <2>4. Before(queues[m], s, u)
    BY <2>1, <2>2, <2>3 DEF QueuesInv, QueuesAgree
  <2>5. PICK i, j \in DOMAIN queues[m] : i < j /\ queues[m][i] = s /\ queues[m][j] = u
    BY <2>4 DEF Before
  <2>6. i = j1 /\ j = j2
    BY <2>1, <2>5 DEF s, u, QueuesInv, QueuesAgree, Distinct
  <2> QED BY <2>5, <2>6
<1> QED BY <1>1, QueuesInvariant, PTL

-----------------------------------------------------------------------------
(* Where tickets are placed, and who waits                                  *)

(* A finite set that is not empty has an element of least value: the sets   *)
(* of elements of lesser value are ordered by inclusion.                    *)
LEMMA LeastOf ==
  ASSUME NEW S, IsFiniteSet(S), S # {}, NEW f \in [S -> Int]
  PROVE  \E x \in S : \A y \in S : f[x] <= f[y]
<1> DEFINE Below(x) == {y \in S : f[y] < f[x]}
           R == StrictSubsetOrdering(S)
           F == FiniteSubsetsOf(S)
           B == {Below(x) : x \in S}
<1>1. B # {} /\ B \subseteq F
  <2>1. \A x \in S : IsFiniteSet(Below(x)) /\ Below(x) \in SUBSET S
    BY FS_Subset
  <2> HIDE DEF Below
  <2>2. \A x \in S : Below(x) \in F
    BY <2>1 DEF FiniteSubsetsOf
  <2> QED BY <2>2
<1>2. IsWellFoundedOn(R, F)
  BY FS_StrictSubsetOrderingWellFounded
<1>3. PICK b \in B : \A c \in B : ~(<<c, b>> \in R)
  <2> HIDE DEF R, F, B
  <2> QED BY <1>1, <1>2, WFMin
<1>4. PICK x \in S : b = Below(x)
  OBVIOUS
<1>5. ASSUME NEW y \in S, f[y] < f[x] PROVE FALSE
  <2>1. Below(y) \in B /\ Below(y) \in SUBSET S /\ Below(x) \in SUBSET S
    OBVIOUS
  <2>2. Below(y) \subseteq Below(x) /\ y \in Below(x) /\ y \notin Below(y)
    BY <1>5
  <2> HIDE DEF Below
  <2>3. <<Below(y), Below(x)>> \in R
    BY <2>1, <2>2 DEF StrictSubsetOrdering
  <2> HIDE DEF R, B
  <2> QED BY <1>3, <1>4, <2>1, <2>3
<1> QED BY <1>5

(* The costs of a list's indices, and what they stand for.                  *)
LEMMA ListIndices ==
  ASSUME NEW list \in Seq(LocationReq)
  PROVE  /\ IsFiniteSet(DOMAIN list) /\ DOMAIN list \subseteq Nat
         /\ \A i \in DOMAIN list : list[i].location \in Locations /\ list[i].cost \in Int
<1>1. Len(list) \in Nat /\ DOMAIN list = 1..Len(list)
  BY LenProperties
<1>2. \A i \in 1..Len(list) : list[i] \in LocationReq
  BY ElementOfSeq
<1>3. IsFiniteSet(1..Len(list))
  BY <1>1, FS_Interval
<1> QED BY <1>1, <1>2, <1>3 DEF LocationReq

(* positions[location] is an index of the location.                         *)
LEMMA PositionIsAnIndex ==
  ASSUME NEW list \in Seq(LocationReq), NEW n \in DOMAIN list
  PROVE  /\ Position(list, list[n].location) \in DOMAIN list
         /\ list[Position(list, list[n].location)].location = list[n].location
<1> DEFINE l == list[n].location
           S == {i \in DOMAIN list : list[i].location = l}
           f == [i \in S |-> -i]
<1>1. IsFiniteSet(S) /\ S # {} /\ S \subseteq Nat
  BY ListIndices, FS_Subset
<1>2. f \in [S -> Int]
  BY <1>1
<1>3. PICK i \in S : \A j \in S : f[i] <= f[j]
  <2> HIDE DEF S, f
  <2> QED BY <1>1, <1>2, LeastOf
<1>4. \A j \in S : j <= i
  BY <1>1, <1>3
<1>5. \E k \in DOMAIN list : list[k].location = l
                          /\ \A j \in DOMAIN list : list[j].location = l => j <= k
  BY <1>3, <1>4
<1> QED BY <1>5 DEF Position

(* Whenever a location of the list is free, a free one can be given.        *)
LEMMA FreeSpotIsFound ==
  ASSUME NEW st \in State, NEW list \in Seq(LocationReq), NEW n \in DOMAIN list,
         st.holder[list[n].location] = NoTicket
  PROVE  CheapestFree(st, list) # {}
<1> DEFINE S == {i \in DOMAIN list : st.holder[list[i].location] = NoTicket}
           f == [i \in S |-> list[i].cost]
<1>1. IsFiniteSet(S) /\ S # {}
  BY ListIndices, FS_Subset
<1>2. f \in [S -> Int]
  BY ListIndices
<1>3. PICK i \in S : \A j \in S : f[i] <= f[j]
  <2> HIDE DEF S, f
  <2> QED BY <1>1, <1>2, LeastOf
<1>4. i \in {k \in DOMAIN list :
               /\ st.holder[list[k].location] = NoTicket
               /\ \A j \in DOMAIN list :
                    st.holder[list[j].location] = NoTicket => list[k].cost <= list[j].cost}
  BY <1>3
<1> QED BY <1>4 DEF CheapestFree

-----------------------------------------------------------------------------
(* What a step does to tickets: where they are placed, what they wait for   *)
(* and what is published about them.                                        *)

Waits(t) == \E l \in Locations : Contains(queues[l], t)

(* A ticket that was never claimed.                                         *)
Untouched(t) == current_state.placed[t] = Nowhere /\ ~Waits(t)

(* A location is named by the ticket that is placed there.                  *)
LEMMA HolderIsPlaced ==
  ASSUME NEW st, Sound(st), NEW l \in Locations
  PROVE  /\ \A t \in Tickets : st.holder[l] = t <=> st.placed[t] = l
         /\ st.holder[l] = NoTicket <=> \A t \in Tickets : st.placed[t] # l
<1>1. st.holder[l] \in Tickets \cup {NoTicket} /\ NoTicket \notin Tickets /\ Nowhere \notin Locations
  BY ConstantsAssumption DEF Sound, State, Tickets, NoTicket
<1> QED BY <1>1 DEF Sound, MapsAgree

(* Releasing a ticket moves no other.                                       *)
LEMMA ReleasedPlaces ==
  ASSUME NEW st, Sound(st), NEW t \in Tickets
  PROVE  \A s \in Tickets : Released(st, t).placed[s] = IF s = t THEN Nowhere ELSE st.placed[s]
<1>1. CASE st.placed[t] = Nowhere
  BY <1>1 DEF Released
<1>2. CASE st.placed[t] # Nowhere
  BY <1>2 DEF Released, Sound, State
<1> QED BY <1>1, <1>2

(* A ticket is given a location; the ticket that gives it up, if any, is of *)
(* the same robot.                                                          *)
MovedTo(t, l) ==
  /\ current_state'.placed[t] = l
  /\ \A s \in Tickets \ {t} :
       \/ current_state'.placed[s] = current_state.placed[s]
       \/ /\ current_state.placed[s] = l /\ current_state'.placed[s] = Nowhere
          /\ ticket_store.header[s] = ticket_store.header[t]

(* The same, of a location that nobody else held.                           *)
MovedToFree(t, l) ==
  /\ current_state'.placed[t] = l
  /\ \A s \in Tickets \ {t} : /\ current_state'.placed[s] = current_state.placed[s]
                              /\ current_state.placed[s] # l

(* The ticket that is given a location has it, and only the ticket that     *)
(* held it before, of the same robot, is moved.                             *)
LEMMA AllocatedPlaces ==
  ASSUME Sound(current_state), NEW t \in Tickets, NEW l \in Locations,
         LET st == Released(current_state, t)
         IN  /\ current_state' = Allocated(st, t, l)
             /\ \/ st.holder[l] = NoTicket
                \/ ticket_store.header[st.holder[l]] = ticket_store.header[t]
  PROVE  /\ MovedTo(t, l)
         /\ Released(current_state, t).holder[l] = NoTicket => MovedToFree(t, l)
<1> DEFINE st == Released(current_state, t)
<1>1. /\ Sound(st)
      /\ \A s \in Tickets : st.placed[s] = IF s = t THEN Nowhere ELSE current_state.placed[s]
  BY ReleasedIsSound, ReleasedPlaces
<1>2. /\ current_state' = Allocated(st, t, l)
      /\ \/ st.holder[l] = NoTicket
         \/ ticket_store.header[st.holder[l]] = ticket_store.header[t]
  OBVIOUS
<1> HIDE DEF st
<1>3. Nowhere \notin Locations /\ NoTicket \notin Tickets
  BY ConstantsAssumption DEF Tickets, NoTicket
<1>4. CASE st.holder[l] = NoTicket
  <2>1. current_state' = Taken(st, t, l)
    BY <1>2, <1>4 DEF Allocated
  <2>2. \A s \in Tickets : current_state'.placed[s] = IF s = t THEN l ELSE st.placed[s]
    BY <1>1, <2>1 DEF Taken, Sound, State
  <2>3. \A s \in Tickets : st.placed[s] # l
    BY <1>1, <1>4, HolderIsPlaced
  <2>4. MovedToFree(t, l)
    BY <1>1, <2>2, <2>3 DEF MovedToFree
  <2> QED BY <1>4, <2>4 DEF MovedTo, MovedToFree, st
<1>5. CASE st.holder[l] # NoTicket
  <2> DEFINE h == st.holder[l]
             v == Released(st, h)
  <2>1. h \in Tickets /\ st.placed[h] = l
    BY <1>1, <1>5, HolderIsPlaced DEF Sound, State
  <2>2. /\ \A s \in Tickets : v.placed[s] = IF s = h THEN Nowhere ELSE st.placed[s]
        /\ Sound(v)
    BY <1>1, <2>1, ReleasedPlaces, ReleasedIsSound, ZenonT(40)
  <2>3. current_state' = Taken(v, t, l)
    BY <1>2, <1>5 DEF Allocated
  <2>4. ticket_store.header[h] = ticket_store.header[t]
    BY <1>2, <1>5
  <2> HIDE DEF h, v
  <2>5. \A s \in Tickets : current_state'.placed[s] = IF s = t THEN l ELSE v.placed[s]
    BY <2>2, <2>3 DEF Taken, Sound, State
  <2>6. h # t /\ current_state.placed[h] = l
    BY <1>1, <1>3, <2>1
  <2>7. MovedTo(t, l)
    BY <1>1, <2>2, <2>4, <2>5, <2>6 DEF MovedTo
  <2> QED BY <1>5, <2>7 DEF st
<1> QED BY <1>4, <1>5

(* A ticket joins the queues of what it requested, or leaves all queues.    *)
Joins(t) ==
  \A l \in Locations : \A s \in Tickets :
    Contains(queues'[l], s) <=> Contains(queues[l], s) \/ (s = t /\ l \in Requested(t))

Leaves(t) ==
  \A l \in Locations : \A s \in Tickets :
    Contains(queues'[l], s) <=> Contains(queues[l], s) /\ s # t

(* What claim_request does for a ticket that was never claimed: it is given *)
(* a requested location; or none of these can be given, and it waits for    *)
(* them, at a wait point or nowhere.                                        *)
Proceeds(t) ==
  \E i \in DOMAIN requests[t] :
    /\ MovedTo(t, requests[t][i].location)
    /\ published' = <<Allocation(t, "IMMEDIATELY_PROCEED", i, requests[t][i].location)>>
    /\ queues' = queues

WaitsAt(t, l) ==
  /\ MovedTo(t, l)
  /\ l \notin Requested(t)
  /\ \E i \in Nat : published' = <<Allocation(t, "WAIT_IDENTIFIED", i, l)>>
  /\ Joins(t)

WaitsNowhere(t) ==
  /\ current_state' = current_state
  /\ published' = << >>
  /\ Joins(t)

(* The outcomes of claim_request for a ticket that was never claimed.       *)
LEMMA ClaimEffect ==
  ASSUME QueuesInv, NEW t \in Issued, NEW w \in WaitLists, ClaimRequest(t, w), Untouched(t)
  PROVE  \/ Proceeds(t)
         \/ /\ \A l \in Requested(t) : current_state.holder[l] # NoTicket
            /\ WaitsNowhere(t) \/ \E l \in Locations : WaitsAt(t, l)
<1>1. /\ t \in Tickets /\ Sound(current_state) /\ current_state \in State /\ NodeInv
      /\ requests[t] \in Seq(LocationReq) /\ w \in Seq(Locations)
  BY IssuedTypes, ConstantsAssumption DEF QueuesInv, NodeInv, NodeTypeOK, Sound
<1>2. Released(current_state, t) = current_state
  BY DEF Released, Untouched
<1>3. ClaimProceed(t, current_state) \/ ClaimWait(t, current_state, w)
  BY <1>2 DEF ClaimRequest
<1>4. ASSUME NEW list \in Seq(LocationReq), NEW l \in Choices(current_state, list, t),
             current_state' = Allocated(current_state, t, l)
      PROVE  /\ l \in Locations /\ MovedTo(t, l)
             /\ \E i \in DOMAIN list : /\ i \in Nat /\ list[i].location = l
                                       /\ i = Position(list, l)
  <2>1. /\ l \in Locations
        /\ \/ current_state.holder[l] = NoTicket
           \/ ticket_store.header[current_state.holder[l]] = ticket_store.header[t]
    BY <1>1, ChoicesAreSpots
  <2>2. MovedTo(t, l)
    BY <1>1, <1>2, <1>4, <2>1, AllocatedPlaces
  <2>3. PICK n \in DOMAIN list : list[n].location = l
    BY DEF Choices, CheapestFree, SittingOn
  <2>4. Position(list, l) \in DOMAIN list /\ list[Position(list, l)].location = l
    BY <2>3, PositionIsAnIndex
  <2>5. DOMAIN list \subseteq Nat
    BY ListIndices
  <2> QED BY <2>1, <2>2, <2>4, <2>5
<1>5. CASE ClaimProceed(t, current_state)
  <2>1. PICK l \in Choices(current_state, requests[t], t) :
          /\ current_state' = Allocated(current_state, t, l)
          /\ published' = <<Allocation(t, "IMMEDIATELY_PROCEED", Position(requests[t], l), l)>>
          /\ queues' = queues
    BY <1>5 DEF ClaimProceed
  <2> QED BY <1>1, <1>4, <2>1 DEF Proceeds
<1>6. CASE ClaimWait(t, current_state, w)
  <2> DEFINE list == WaitReqs(w)
  <2>1. list \in Seq(LocationReq)
    BY <1>1, WaitReqsIsTyped
  <2>2. /\ Choices(current_state, requests[t], t) = {}
        /\ queues' = [l \in Locations |-> IF l \in Requested(t) THEN Enqueued(queues[l], t)
                                          ELSE queues[l]]
        /\ \/ \E l \in Choices(current_state, list, t) :
                /\ current_state' = Allocated(current_state, t, l)
                /\ published' = <<Allocation(t, "WAIT_IDENTIFIED", Position(list, l), l)>>
           \/ current_state' = current_state /\ published' = << >>
    BY <1>6 DEF ClaimWait, Queued
  <2> HIDE DEF list
  <2>3. Joins(t)
    <3>1. ASSUME NEW l \in Locations, NEW s \in Tickets
          PROVE  Contains(queues'[l], s) <=>
                   Contains(queues[l], s) \/ (s = t /\ l \in Requested(t))
      <4>1. queues[l] \in Seq(Tickets) /\ Distinct(queues[l])
        BY QueueTypes DEF QueuesInv, QueuesAgree
      <4>2. Contains(Enqueued(queues[l], t), s) <=> Contains(queues[l], s) \/ s = t
        BY <1>1, <4>1, EnqueuedQueue
      <4>3. queues'[l] = IF l \in Requested(t) THEN Enqueued(queues[l], t) ELSE queues[l]
        BY <2>2
      <4> QED BY <4>2, <4>3
    <3> QED BY <3>1 DEF Joins
  <2>4. ASSUME NEW l \in Requested(t)
        PROVE  /\ current_state.holder[l] # NoTicket
               /\ ticket_store.header[current_state.holder[l]] # ticket_store.header[t]
    <3>1. PICK n \in DOMAIN requests[t] : requests[t][n].location = l
      BY DEF Requested
    <3>2. l \in Locations
      BY <1>1, <3>1, ListIndices
    <3>3. current_state.holder[l] # NoTicket
      <4>1. SUFFICES ASSUME current_state.holder[l] = NoTicket PROVE FALSE
        OBVIOUS
      <4>2. CheapestFree(current_state, requests[t]) # {}
        BY <1>1, <3>1, <4>1, FreeSpotIsFound
      <4> QED BY <2>2, <4>2 DEF Choices
    <3>4. l \in current_state.known
      BY <1>1, <3>2, <3>3 DEF Sound, MapsAgree
    <3>5. l \notin SittingOn(current_state, requests[t], t)
      BY <2>2 DEF Choices
    <3> QED BY <3>1, <3>3, <3>4, <3>5 DEF SittingOn
  <2>5. ASSUME NEW l \in Choices(current_state, list, t),
               current_state' = Allocated(current_state, t, l),
               published' = <<Allocation(t, "WAIT_IDENTIFIED", Position(list, l), l)>>
        PROVE  l \in Locations /\ WaitsAt(t, l)
    <3>1. l \in Locations /\ MovedTo(t, l) /\ Position(list, l) \in Nat
      BY <1>4, <2>1, <2>5
    <3>2. l \notin Requested(t)
      BY <1>1, <2>1, <2>4, ChoicesAreSpots
    <3> QED BY <2>3, <2>5, <3>1, <3>2 DEF WaitsAt
  <2> QED BY <2>2, <2>3, <2>4, <2>5 DEF WaitsNowhere
<1> QED BY <1>3, <1>5, <1>6

(* A ticket that waits is placed at none of the locations it waits for, and *)
(* the location the loop serves is free.                                    *)
WaitsElsewhere ==
  \A t \in Tickets : Waits(t) => current_state.placed[t] \notin Requested(t)

FreedIsFree == freed # Nowhere => current_state.holder[freed] = NoTicket

ServingInv == QueuesInv /\ WaitsElsewhere /\ FreedIsFree

(* What one iteration of the loop does: nobody waits and it ends; the first *)
(* ticket has no place and it ends; or the ticket moves from where it waits *)
(* to a free location it requested, and the loop goes on with the former.   *)
LoopEnds ==
  /\ queues[freed] = << >> /\ freed' = Nowhere
  /\ UNCHANGED <<current_state, queues>> /\ published' = << >>

Dropped(t) ==
  /\ current_state.placed[t] = Nowhere
  /\ current_state' = current_state /\ freed' = Nowhere /\ published' = << >>

Served(t) ==
  /\ current_state.placed[t] # Nowhere /\ freed' = current_state.placed[t]
  /\ \E i \in DOMAIN requests[t] :
       /\ MovedToFree(t, requests[t][i].location)
       /\ published' = <<Allocation(t, "IMMEDIATELY_PROCEED", i, requests[t][i].location)>>

(* The outcomes of service_next_in_queue: the loop ends, or one waiter      *)
(* leaves all queues, is dropped or is served.                              *)
LEMMA ServiceEffect ==
  ASSUME ServingInv, ServiceNext
  PROVE  /\ freed \in Locations /\ UNCHANGED <<ticket_store, requests>>
         /\ \/ LoopEnds
            \/ \E t \in Issued : /\ Contains(queues[freed], t) /\ Leaves(t)
                                 /\ Dropped(t) \/ Served(t)
<1>1. /\ freed \in Locations /\ freed # Nowhere /\ UNCHANGED <<ticket_store, requests>>
      /\ Sound(current_state) /\ current_state \in State /\ NodeInv /\ Issued \subseteq Tickets
      /\ queues[freed] \in Seq(Issued)
  BY IssuedTypes DEF ServiceNext, ServingInv, QueuesInv, NodeInv, NodeTypeOK, Sound
<1>2. CASE ServiceEmpty
  BY <1>1, <1>2 DEF ServiceEmpty, LoopEnds
<1>3. CASE queues[freed] # << >> /\ ServiceTicket(Head(queues[freed]))
  <2> DEFINE t == Head(queues[freed])
             st == Released(current_state, t)
  <2>1. t \in Issued /\ t \in Tickets
    BY <1>1, <1>3, HeadTailProperties
  <2>2. Contains(queues[freed], t)
    <3>1. queues[freed] # << >> /\ 1 \in DOMAIN queues[freed] /\ t = queues[freed][1]
      BY <1>1, <1>3, EmptySeq, LenProperties
    <3> QED BY <3>1 DEF Contains
  <2> HIDE DEF t
  <2>3. /\ queues' = Dequeued(t)
        /\ \/ /\ current_state.placed[t] = Nowhere \/ Choices(st, requests[t], t) = {}
              /\ current_state' = st /\ freed' = Nowhere /\ published' = << >>
           \/ /\ current_state.placed[t] # Nowhere
              /\ \E l \in Choices(st, requests[t], t) :
                   /\ current_state' = Allocated(st, t, l)
                   /\ published' = <<Allocation(t, "IMMEDIATELY_PROCEED",
                                                Position(requests[t], l), l)>>
              /\ freed' = current_state.placed[t]
    BY <1>3 DEF ServiceTicket, t
  <2>4. Leaves(t)
    <3>1. ASSUME NEW l \in Locations, NEW u \in Tickets
          PROVE  Contains(queues'[l], u) <=> Contains(queues[l], u) /\ u # t
      <4>1. queues[l] \in Seq(Tickets) /\ Distinct(queues[l])
        BY QueueTypes DEF ServingInv, QueuesInv, QueuesAgree
      <4>2. queues'[l] = Removed(queues[l], t)
        BY <2>3 DEF Dequeued
      <4> QED BY <2>1, <4>1, <4>2, RemovedQueue
    <3> QED BY <3>1 DEF Leaves
  <2>5. /\ Sound(st) /\ st \in State
        /\ \A m \in Locations : st.holder[m] =
             IF current_state.holder[m] = t THEN NoTicket ELSE current_state.holder[m]
    BY <1>1, <2>1, ReleasedIsSound DEF Sound
  <2>6. requests[t] \in Seq(LocationReq)
    BY <1>1, <2>1 DEF NodeInv, NodeTypeOK
  <2>7. freed \in Requested(t)
    BY <1>1, <2>1, <2>2 DEF ServingInv, QueuesInv, QueuesAgree
  <2>8. CheapestFree(st, requests[t]) # {}
    <3>1. PICK n \in DOMAIN requests[t] : requests[t][n].location = freed
      BY <2>7 DEF Requested
    <3>2. st.holder[freed] = NoTicket
      BY <1>1, <2>5 DEF ServingInv, FreedIsFree
    <3> HIDE DEF st
    <3> QED BY <2>5, <2>6, <3>1, <3>2, FreeSpotIsFound
  <2>9. Choices(st, requests[t], t) = CheapestFree(st, requests[t])
    BY <2>8 DEF Choices
  <2>10. CASE current_state.placed[t] = Nowhere
    <3>1. st = current_state
      BY <2>10 DEF Released
    <3> QED BY <1>1, <2>1, <2>2, <2>3, <2>4, <2>10, <3>1 DEF Dropped
  <2>11. CASE current_state.placed[t] # Nowhere
    <3>1. PICK l \in CheapestFree(st, requests[t]) :
            /\ current_state' = Allocated(st, t, l)
            /\ published' = <<Allocation(t, "IMMEDIATELY_PROCEED", Position(requests[t], l), l)>>
      BY <2>3, <2>8, <2>9, <2>11
    <3>2. freed' = current_state.placed[t]
      BY <2>3, <2>8, <2>9, <2>11
    <3>3. PICK n \in DOMAIN requests[t] : requests[t][n].location = l /\ st.holder[l] = NoTicket
      BY DEF CheapestFree
    <3>4. l \in Locations
      BY <2>6, <3>3, ListIndices
    <3>5. MovedToFree(t, l)
      BY <1>1, <2>1, <3>1, <3>3, <3>4, AllocatedPlaces
    <3>6. Position(requests[t], l) \in DOMAIN requests[t]
          /\ requests[t][Position(requests[t], l)].location = l
      BY <2>6, <3>3, PositionIsAnIndex
    <3>7. Served(t)
      BY <2>11, <3>1, <3>2, <3>5, <3>6 DEF Served
    <3> QED BY <1>1, <2>1, <2>2, <2>4, <3>7
  <2> QED BY <2>10, <2>11
<1> QED BY <1>1, <1>2, <1>3 DEF ServiceNext

(* What release does: the ticket gives up its place, and no other does.      *)
LEMMA ReleaseEffect ==
  ASSUME NodeInv, NEW t \in Issued, Release(t)
  PROVE  /\ freed = Nowhere /\ freed' = current_state.placed[t]
         /\ \A s \in Tickets : current_state'.placed[s] =
              IF s = t THEN Nowhere ELSE current_state.placed[s]
         /\ published' = << >>
BY IssuedTypes, ReleasedPlaces DEF Release

(* What on_request does: the ticket is fresh, and nobody else's changes.     *)
LEMMA RequestEffect ==
  ASSUME NodeInv, NEW r \in Robots, NEW id, NEW a \in Seq(LocationReq), OnRequest(r, id, a)
  PROVE  \E t \in Tickets \ Issued :
           /\ Issued' = Issued \cup {t}
           /\ \A s \in Issued : /\ ticket_store'.header[s] = ticket_store.header[s]
                                /\ requests'[s] = requests[s]
           /\ ticket_store'.header[t] = r /\ requests'[t] = a
           /\ current_state.placed[t] = Nowhere /\ ~Waits(t)
           /\ published' = <<TicketMsg(t, [robot |-> r, request_id |-> id])>>
<1>0. PICK t \in Tickets : t = ticket_store.next
  BY ConstantsAssumption DEF OnRequest, NodeInv, NodeTypeOK, Tickets
<1>1. t \notin Issued /\ Issued' = Issued \cup {t} /\ Issued \subseteq Tickets
  <2>1. t \in Nat \ {0} /\ t <= TicketLimit /\ ticket_store'.next = t + 1
    BY <1>0, ConstantsAssumption DEF OnRequest, Tickets
  <2> QED BY <1>0, <2>1, IssuedTypes, ConstantsAssumption DEF Issued, Tickets
<1>2. /\ ticket_store' = [next |-> t + 1, header |-> [ticket_store.header EXCEPT ![t] = r]]
      /\ requests' = [requests EXCEPT ![t] = a]
      /\ published' = <<TicketMsg(t, [robot |-> r, request_id |-> id])>>
  BY <1>0 DEF OnRequest
<1>3. /\ ticket_store.header \in [Tickets -> Robots \cup {NoRobot}]
      /\ requests \in [Tickets -> Seq(LocationReq)]
      /\ Sound(current_state)
  BY IssuedTypes DEF NodeInv, NodeTypeOK
<1>4. /\ \A s \in Issued : /\ ticket_store'.header[s] = ticket_store.header[s]
                           /\ requests'[s] = requests[s]
      /\ ticket_store'.header[t] = r /\ requests'[t] = a
  BY <1>1, <1>2, <1>3
<1>5. current_state.placed[t] = Nowhere
  <2>1. SUFFICES ASSUME current_state.placed[t] # Nowhere PROVE FALSE
    OBVIOUS
  <2>2. current_state.placed[t] \in Locations /\ current_state.holder[current_state.placed[t]] = t
    BY <1>3, <2>1 DEF Sound, State, MapsAgree
  <2>3. t # NoTicket
    BY ConstantsAssumption DEF Tickets, NoTicket
  <2> QED BY <1>1, <2>2, <2>3 DEF NodeInv, OnlyIssued
<1>6. ~Waits(t)
  <2>1. SUFFICES ASSUME NEW l \in Locations, NEW i \in DOMAIN queues[l], queues[l][i] = t
                 PROVE  FALSE
    BY DEF Waits, Contains
  <2>2. queues[l] \in Seq(Issued)
    BY DEF NodeInv, OnlyIssued
  <2> QED BY <1>1, <2>1, <2>2, LenProperties, ElementOfSeq
<1> QED BY <1>1, <1>2, <1>4, <1>5, <1>6

-----------------------------------------------------------------------------
(* Clients that claim a ticket once, as a ReservationNodeNegotiator does.   *)

CarefulStep ==
  \/ ReceivedGraph
  \/ \E r \in Robots : \E id : \E a \in Seq(LocationReq) : OnRequest(r, id, a)
  \/ \E t \in Issued, w \in WaitLists : Untouched(t) /\ ClaimRequest(t, w)
  \/ \E t \in Issued : Release(t)
  \/ ServiceNext
  \/ ClientStep

(* Whoever waits was issued.                                                *)
LEMMA WaitersAreIssued ==
  ASSUME NodeInv, NEW t, Waits(t)
  PROVE  t \in Issued
<1>1. PICK l \in Locations : \E i \in DOMAIN queues[l] : queues[l][i] = t
  BY DEF Waits, Contains
<1>2. queues[l] \in Seq(Issued)
  BY DEF NodeInv, OnlyIssued
<1> QED BY <1>1, <1>2, LenProperties, ElementOfSeq

(* A step that moves a ticket, and what it keeps of the two facts.          *)
LEMMA MovesKeepWaits ==
  ASSUME ServingInv, UNCHANGED requests, NEW t \in Tickets, NEW l,
         MovedTo(t, l) \/ MovedToFree(t, l) \/ UNCHANGED current_state,
         \A s \in Tickets \ {t} : Waits(s)' => Waits(s),
         \/ ~Waits(t)'
         \/ current_state'.placed[t] \notin Requested(t)
  PROVE  WaitsElsewhere'
<1>1. \A s \in Tickets : Requested(s)' = Requested(s) /\ Nowhere \notin Requested(s)
  BY QueueTypes, ConstantsAssumption DEF ServingInv, QueuesInv, Requested
<1>2. \A s \in Tickets \ {t} : \/ current_state'.placed[s] = current_state.placed[s]
                              \/ current_state'.placed[s] = Nowhere
  BY DEF MovedTo, MovedToFree
<1> QED BY <1>1, <1>2 DEF ServingInv, WaitsElsewhere

(* Who waits after a step that leaves the queues alone, and after a ticket  *)
(* joins or leaves them.                                                    *)
LEMMA WaitsAfter ==
  ASSUME NEW t \in Tickets
  PROVE  /\ UNCHANGED queues => \A s \in Tickets : Waits(s)' <=> Waits(s)
         /\ Joins(t) => \A s \in Tickets \ {t} : Waits(s)' <=> Waits(s)
         /\ Leaves(t) => /\ ~Waits(t)'
                         /\ \A s \in Tickets \ {t} : Waits(s)' <=> Waits(s)
BY DEF Waits, Joins, Leaves

(* Clients that claim a ticket once keep the serving invariant.             *)
LEMMA CarefulKeepsServing == ServingInv /\ CarefulStep => ServingInv'
<1> SUFFICES ASSUME ServingInv, CarefulStep PROVE ServingInv'
  OBVIOUS
<1>0. /\ QueuesInv /\ NodeInv /\ Issued \subseteq Tickets /\ Sound(current_state)
      /\ Nowhere \notin Locations
  BY IssuedTypes, ConstantsAssumption DEF ServingInv, QueuesInv
<1>1. AnyNodeStep
  BY DEF CarefulStep, AnyNodeStep
<1>2. QueuesInv' /\ Sound(current_state)'
  BY <1>1, NextKeepsQueues, NodeStepPreserves DEF ServingInv, QueuesInv, NodeInv, NodeTypeOK,
     HolderAndPlacedAgree, Sound
<1>3. ASSUME UNCHANGED <<requests, queues, freed>>, current_state'.placed = current_state.placed,
             current_state'.holder = current_state.holder
      PROVE  WaitsElsewhere' /\ FreedIsFree'
  BY <1>3 DEF ServingInv, WaitsElsewhere, FreedIsFree, Waits, Requested
<1>4. CASE ReceivedGraph \/ ClientStep
  <2>1. /\ current_state'.placed = current_state.placed
        /\ current_state'.holder = current_state.holder
    BY <1>0, <1>4 DEF ReceivedGraph, ClientStep, Sound, State
  <2> QED BY <1>2, <1>3, <1>4, <2>1 DEF ReceivedGraph, ClientStep, ServingInv
<1>5. ASSUME NEW r \in Robots, NEW id, NEW a \in Seq(LocationReq), OnRequest(r, id, a)
      PROVE  ServingInv'
  <2>1. UNCHANGED <<current_state, queues, freed>>
    BY <1>5 DEF OnRequest
  <2>2. \A s \in Issued : requests'[s] = requests[s]
    BY <1>0, <1>5, RequestEffect
  <2>3. \A s \in Issued : Requested(s)' = Requested(s)
    BY <2>2 DEF Requested
  <2>4. \A s \in Tickets : Waits(s)' => s \in Issued
    BY <1>0, <2>1, WaitersAreIssued DEF Waits
  <2>5. WaitsElsewhere'
    BY <2>1, <2>3, <2>4 DEF ServingInv, WaitsElsewhere, Waits
  <2> QED BY <1>2, <2>1, <2>5 DEF ServingInv, FreedIsFree
<1>6. ASSUME NEW t \in Issued, NEW w \in WaitLists, Untouched(t), ClaimRequest(t, w)
      PROVE  ServingInv'
  <2>1. t \in Tickets /\ UNCHANGED requests /\ freed' = Nowhere
    BY <1>0, <1>6 DEF ClaimRequest
  <2>2. CASE Proceeds(t)
    <3>1. PICK i \in DOMAIN requests[t] : MovedTo(t, requests[t][i].location)
      BY <2>2 DEF Proceeds
    <3>2. requests[t][i].location \in Locations
      BY <1>0, <2>1, ListIndices DEF NodeInv, NodeTypeOK
    <3>3. ~Waits(t)' /\ \A s \in Tickets : Waits(s)' => Waits(s)
      BY <1>6, <2>1, <2>2, WaitsAfter DEF Proceeds, Untouched
    <3>4. WaitsElsewhere'
      BY <2>1, <3>1, <3>2, <3>3, MovesKeepWaits
    <3> QED BY <1>2, <2>1, <3>4 DEF ServingInv, FreedIsFree
  <2>3. CASE WaitsNowhere(t)
    <3>1. \A s \in Tickets \ {t} : Waits(s)' => Waits(s)
      BY <2>1, <2>3, WaitsAfter DEF WaitsNowhere
    <3>2. current_state'.placed[t] \notin Requested(t)
      BY <1>0, <1>6, <2>1, <2>3, QueueTypes DEF WaitsNowhere, Untouched
    <3>3. WaitsElsewhere'
      BY <2>1, <2>3, <3>1, <3>2, MovesKeepWaits DEF WaitsNowhere
    <3> QED BY <1>2, <2>1, <3>3 DEF ServingInv, FreedIsFree
  <2>4. ASSUME NEW l \in Locations, WaitsAt(t, l) PROVE ServingInv'
    <3>1. MovedTo(t, l) /\ \A s \in Tickets \ {t} : Waits(s)' => Waits(s)
      BY <2>1, <2>4, WaitsAfter DEF WaitsAt
    <3>2. current_state'.placed[t] \notin Requested(t)
      BY <2>4 DEF WaitsAt, MovedTo
    <3>3. WaitsElsewhere'
      BY <2>1, <3>1, <3>2, MovesKeepWaits
    <3> QED BY <1>2, <2>1, <3>3 DEF ServingInv, FreedIsFree
  <2> QED BY <1>0, <1>6, <2>2, <2>3, <2>4, ClaimEffect
<1>7. ASSUME NEW t \in Issued, Release(t) PROVE ServingInv'
  <2>1. /\ freed' = current_state.placed[t]
        /\ \A s \in Tickets : current_state'.placed[s] =
             IF s = t THEN Nowhere ELSE current_state.placed[s]
        /\ UNCHANGED <<requests, queues>>
    BY <1>0, <1>7, ReleaseEffect DEF Release
  <2>2. WaitsElsewhere'
    <3>1. \A s \in Tickets : Requested(s)' = Requested(s) /\ Nowhere \notin Requested(s)
      BY <1>0, <2>1, QueueTypes DEF Requested
    <3> QED BY <2>1, <3>1 DEF ServingInv, WaitsElsewhere, Waits
  <2>3. ASSUME freed' # Nowhere PROVE current_state'.holder[freed'] = NoTicket
    <3>1. freed' \in Locations
      BY <1>0, <2>1, <2>3 DEF Sound, State
    <3>2. \A s \in Tickets : current_state.placed[s] = freed' => s = t
      BY <1>0, <2>1, <3>1, HolderIsPlaced
    <3>3. \A s \in Tickets : current_state'.placed[s] # freed'
      BY <2>1, <2>3, <3>2
    <3> QED BY <1>2, <3>1, <3>3, HolderIsPlaced
  <2> QED BY <1>2, <2>2, <2>3 DEF ServingInv, FreedIsFree
<1>8. CASE ServiceNext
  <2>0. freed \in Locations /\ UNCHANGED requests
    BY <1>8, ServiceEffect
  <2>1. CASE LoopEnds
    BY <1>2, <2>0, <2>1 DEF LoopEnds, ServingInv, WaitsElsewhere, FreedIsFree, Waits, Requested
  <2>2. ASSUME NEW t \in Issued, Contains(queues[freed], t), Leaves(t), Dropped(t)
        PROVE  ServingInv'
    <3>1. ~Waits(t)' /\ \A s \in Tickets \ {t} : Waits(s)' => Waits(s)
      BY <1>0, <2>2, WaitsAfter
    <3>2. WaitsElsewhere'
      BY <1>0, <2>0, <2>2, <3>1, MovesKeepWaits DEF Dropped
    <3> QED BY <1>2, <2>2, <3>2 DEF Dropped, ServingInv, FreedIsFree
  <2>3. ASSUME NEW t \in Issued, Contains(queues[freed], t), Leaves(t), Served(t)
        PROVE  ServingInv'
    <3>1. ~Waits(t)' /\ \A s \in Tickets \ {t} : Waits(s)' => Waits(s)
      BY <1>0, <2>3, WaitsAfter
    <3>2. PICK i \in DOMAIN requests[t] : MovedToFree(t, requests[t][i].location)
      BY <2>3 DEF Served
    <3> DEFINE l == requests[t][i].location
    <3>3. l \in Locations /\ l \in Requested(t)
      BY <1>0, ListIndices DEF NodeInv, NodeTypeOK, Requested
    <3> HIDE DEF l
    <3>4. MovedToFree(t, l)
      BY <3>2 DEF l
    <3>5. WaitsElsewhere'
      BY <1>0, <2>0, <3>1, <3>3, <3>4, MovesKeepWaits
    <3>6. freed' = current_state.placed[t] /\ freed' # Nowhere /\ freed' \in Locations
      BY <1>0, <2>3 DEF Served, Sound, State
    <3>7. freed' # l
      <4>1. Waits(t)
        BY <2>0, <2>3 DEF Waits
      <4> QED BY <1>0, <3>3, <3>6, <4>1 DEF ServingInv, WaitsElsewhere
    <3>8. \A s \in Tickets : current_state.placed[s] = freed' => s = t
      BY <1>0, <3>6, HolderIsPlaced
    <3>9. \A s \in Tickets : current_state'.placed[s] # freed'
      BY <3>4, <3>7, <3>8 DEF MovedToFree
    <3>10. current_state'.holder[freed'] = NoTicket
      BY <1>2, <3>6, <3>9, HolderIsPlaced
    <3> QED BY <1>2, <3>5, <3>10 DEF ServingInv, FreedIsFree
  <2> QED BY <1>8, <2>1, <2>2, <2>3, ServiceEffect
<1> QED BY <1>4, <1>5, <1>6, <1>7, <1>8 DEF CarefulStep

-----------------------------------------------------------------------------
(* Who loses a spot, and who may overtake                                   *)

(* The ticket is given another spot by the step that publishes it, or its   *)
(* spot is a newer ticket's of the same robot, or it was released.          *)
LosesFairly(t) ==
  LET l == current_state.placed[t]
  IN  l # Nowhere /\ current_state'.placed[t] # l =>
        \/ \E i \in DOMAIN published' :
             /\ published'[i].type = "allocation"
             /\ published'[i].ticket = t
             /\ published'[i].resource = current_state'.placed[t]
        \/ /\ current_state'.holder[l] # NoTicket
           /\ ticket_store.header[current_state'.holder[l]] = ticket_store.header[t]
        \/ freed = Nowhere /\ freed' = l

(* No ticket loses its location by such a step, but for the three reasons.  *)
LEMMA CarefulStepIsFair ==
  ASSUME ServingInv, CarefulStep
  PROVE  \A t \in Tickets : LosesFairly(t)
<1>0. /\ QueuesInv /\ NodeInv /\ Issued \subseteq Tickets /\ Sound(current_state)
      /\ Sound(current_state)' /\ NoTicket \notin Tickets
  BY IssuedTypes, CarefulKeepsServing, ConstantsAssumption
     DEF ServingInv, QueuesInv, NodeInv, NodeTypeOK, HolderAndPlacedAgree, Sound, Tickets, NoTicket
<1>1. ASSUME current_state'.placed = current_state.placed PROVE \A t \in Tickets : LosesFairly(t)
  BY <1>1 DEF LosesFairly
<1>2. CASE ReceivedGraph \/ ClientStep \/ \E r \in Robots : \E id : \E a \in Seq(LocationReq) :
             OnRequest(r, id, a)
  <2>1. current_state'.placed = current_state.placed
    BY <1>0, <1>2 DEF ReceivedGraph, ClientStep, OnRequest, Sound, State
  <2> QED BY <1>1, <2>1
<1>3. ASSUME NEW u \in Tickets, NEW l \in Locations, MovedTo(u, l), current_state.placed[u] = Nowhere
      PROVE  \A t \in Tickets : LosesFairly(t)
  <2>1. current_state'.holder[l] = u
    BY <1>0, <1>3, HolderIsPlaced DEF MovedTo
  <2> QED BY <1>0, <1>3, <2>1 DEF LosesFairly, MovedTo
<1>4. ASSUME NEW u \in Issued, NEW w \in WaitLists, Untouched(u), ClaimRequest(u, w)
      PROVE  \A t \in Tickets : LosesFairly(t)
  <2>1. CASE Proceeds(u)
    <3>1. PICK i \in DOMAIN requests[u] : MovedTo(u, requests[u][i].location)
      BY <2>1 DEF Proceeds
    <3>2. requests[u][i].location \in Locations
      BY <1>0, ListIndices DEF NodeInv, NodeTypeOK
    <3> QED BY <1>0, <1>3, <1>4, <3>1, <3>2 DEF Untouched
  <2>2. CASE WaitsNowhere(u)
    BY <1>1, <2>2 DEF WaitsNowhere
  <2>3. ASSUME NEW l \in Locations, WaitsAt(u, l) PROVE \A t \in Tickets : LosesFairly(t)
    BY <1>0, <1>3, <1>4, <2>3 DEF WaitsAt, Untouched
  <2> QED BY <1>0, <1>4, <2>1, <2>2, <2>3, ClaimEffect
<1>5. ASSUME NEW u \in Issued, Release(u) PROVE \A t \in Tickets : LosesFairly(t)
  BY <1>0, <1>5, ReleaseEffect DEF LosesFairly
<1>6. ASSUME NEW u \in Tickets, Served(u) PROVE \A t \in Tickets : LosesFairly(t)
  <2>1. PICK i \in DOMAIN requests[u] :
          /\ MovedToFree(u, requests[u][i].location)
          /\ published' = <<Allocation(u, "IMMEDIATELY_PROCEED", i, requests[u][i].location)>>
    BY <1>6 DEF Served
  <2>2. /\ 1 \in DOMAIN published' /\ published'[1].type = "allocation"
        /\ published'[1].ticket = u /\ published'[1].resource = current_state'.placed[u]
    BY <2>1 DEF Allocation, MovedToFree
  <2> QED BY <2>1, <2>2 DEF LosesFairly, MovedToFree
<1>7. CASE ServiceNext
  BY <1>0, <1>1, <1>6, <1>7, ServiceEffect DEF LoopEnds, Dropped
<1> QED BY <1>2, <1>4, <1>5, <1>7 DEF CarefulStep

(* With a place for everybody who waits, a location is free only when       *)
(* nobody waits for it, or while the loop serves it.                        *)
WaitersArePlaced == \A t \in Tickets : Waits(t) => current_state.placed[t] # Nowhere

FreeUnwanted ==
  \A l \in Locations \ {freed} : \A t \in Tickets :
    Contains(queues[l], t) => current_state.holder[l] # NoTicket

(* While every waiter has a place, what is free and not about to be served  *)
(* has no queue.                                                            *)
LEMMA NobodyOvertakes ==
  ASSUME ServingInv, FreeUnwanted, WaitersArePlaced, CarefulStep
  PROVE  FreeUnwanted'
<1>0. /\ QueuesInv /\ NodeInv /\ Issued \subseteq Tickets /\ Sound(current_state)
      /\ Sound(current_state)' /\ Nowhere \notin Locations
  BY IssuedTypes, CarefulKeepsServing, ConstantsAssumption
     DEF ServingInv, QueuesInv, NodeInv, NodeTypeOK, HolderAndPlacedAgree, Sound
<1>1. ASSUME UNCHANGED <<queues, freed>>, current_state'.holder = current_state.holder
      PROVE  FreeUnwanted'
  BY <1>1 DEF FreeUnwanted
<1>2. CASE ReceivedGraph \/ ClientStep \/ \E r \in Robots : \E id : \E a \in Seq(LocationReq) :
             OnRequest(r, id, a)
  <2>1. current_state'.holder = current_state.holder
    BY <1>0, <1>2 DEF ReceivedGraph, ClientStep, OnRequest, Sound, State
  <2> QED BY <1>1, <1>2, <2>1 DEF ReceivedGraph, ClientStep, OnRequest
<1>3. ASSUME NEW l \in Locations, current_state'.holder[l] = NoTicket
      PROVE  \A s \in Tickets : current_state'.placed[s] # l
  BY <1>0, <1>3, HolderIsPlaced
<1>4. ASSUME NEW l \in Locations, \A s \in Tickets : current_state.placed[s] # l
      PROVE  current_state.holder[l] = NoTicket
  BY <1>0, <1>4, HolderIsPlaced
<1>5. ASSUME NEW t \in Tickets, NEW m, MovedTo(t, m), current_state.placed[t] = Nowhere,
             NEW l \in Locations, current_state'.holder[l] = NoTicket
      PROVE  current_state.holder[l] = NoTicket
  BY <1>0, <1>3, <1>4, <1>5 DEF MovedTo
<1>6. ASSUME NEW t \in Issued, NEW w \in WaitLists, Untouched(t), ClaimRequest(t, w)
      PROVE  FreeUnwanted'
  <2>1. t \in Tickets /\ freed = Nowhere /\ freed' = Nowhere /\ current_state.placed[t] = Nowhere
    BY <1>0, <1>6 DEF ClaimRequest, Untouched
  <2>2. ASSUME NEW l \in Locations, current_state'.holder[l] = NoTicket
        PROVE  current_state.holder[l] = NoTicket
    <3>1. current_state' = current_state \/ \E m : MovedTo(t, m)
      BY <1>0, <1>6, ClaimEffect DEF Proceeds, WaitsAt, WaitsNowhere
    <3> QED BY <1>5, <2>1, <2>2, <3>1
  <2>3. \/ queues' = queues
        \/ Joins(t) /\ \A l \in Requested(t) : current_state.holder[l] # NoTicket
    BY <1>0, <1>6, ClaimEffect DEF Proceeds, WaitsAt, WaitsNowhere
  <2> QED BY <2>1, <2>2, <2>3 DEF FreeUnwanted, Joins
<1>7. ASSUME NEW t \in Issued, Release(t) PROVE FreeUnwanted'
  <2>1. /\ freed = Nowhere /\ freed' = current_state.placed[t] /\ queues' = queues
        /\ \A s \in Tickets : current_state'.placed[s] =
             IF s = t THEN Nowhere ELSE current_state.placed[s]
    BY <1>0, <1>7, ReleaseEffect DEF Release
  <2>2. ASSUME NEW l \in Locations, l # freed', current_state'.holder[l] = NoTicket
        PROVE  current_state.holder[l] = NoTicket
    BY <1>0, <1>3, <1>4, <2>1, <2>2
  <2> QED BY <1>0, <2>1, <2>2 DEF FreeUnwanted
<1>8. CASE ServiceNext
  <2>0. freed \in Locations
    BY <1>8, ServiceEffect
  <2>1. CASE LoopEnds
    <3>1. \A t \in Tickets : ~Contains(queues[freed], t)
      BY <2>1 DEF LoopEnds, Contains
    <3> QED BY <2>1, <3>1 DEF LoopEnds, FreeUnwanted
  <2>2. ASSUME NEW t \in Issued, Contains(queues[freed], t), Leaves(t), Dropped(t) PROVE FALSE
    BY <1>0, <2>0, <2>2 DEF Waits, WaitersArePlaced, Dropped
  <2>3. ASSUME NEW t \in Issued, Contains(queues[freed], t), Leaves(t), Served(t)
        PROVE  FreeUnwanted'
    <3>1. t \in Tickets /\ Waits(t)
      BY <1>0, <2>0, <2>3 DEF Waits
    <3>2. PICK i \in DOMAIN requests[t] : MovedToFree(t, requests[t][i].location)
      BY <2>3 DEF Served
    <3> DEFINE m == requests[t][i].location
    <3>3. m \in Locations /\ m \in Requested(t)
      BY <1>0, <3>1, ListIndices DEF NodeInv, NodeTypeOK, Requested
    <3> HIDE DEF m
    <3>4. MovedToFree(t, m)
      BY <3>2 DEF m
    <3>5. current_state.placed[t] # m
      BY <3>1, <3>3 DEF ServingInv, WaitsElsewhere
    <3>6. current_state.holder[m] = NoTicket
      BY <1>4, <3>3, <3>4, <3>5 DEF MovedToFree
    <3>7. freed \in Requested(t)
      BY <1>0, <2>0, <2>3, <3>1 DEF QueuesInv, QueuesAgree
    <3>8. Contains(queues[m], t)
      BY <1>0, <2>3, <3>3, <3>7 DEF QueuesInv, QueuesAgree
    <3>9. m = freed
      BY <3>1, <3>3, <3>6, <3>8 DEF FreeUnwanted
    <3>10. ASSUME NEW l \in Locations, l # freed', current_state'.holder[l] = NoTicket
           PROVE  current_state.holder[l] = NoTicket /\ l # freed
      <4>1. \A s \in Tickets : current_state'.placed[s] # l
        BY <1>3, <3>10
      <4>2. \A s \in Tickets : current_state.placed[s] # l
        BY <2>3, <3>4, <3>10, <4>1 DEF Served, MovedToFree
      <4> QED BY <1>4, <3>1, <3>4, <3>9, <4>1, <4>2 DEF MovedToFree
    <3> QED BY <2>3, <3>10 DEF FreeUnwanted, Leaves
  <2> QED BY <1>8, <2>1, <2>2, <2>3, ServiceEffect
<1> QED BY <1>2, <1>6, <1>7, <1>8 DEF CarefulStep

(* A ticket that was never claimed stays so until it is claimed.            *)
LEMMA UntouchedStays ==
  ASSUME ServingInv, CarefulStep, NEW t \in Issued, Untouched(t),
         \A w \in WaitLists : ~ClaimRequest(t, w)
  PROVE  Untouched(t)'
<1>0. /\ QueuesInv /\ NodeInv /\ Issued \subseteq Tickets /\ Sound(current_state)
      /\ t \in Tickets /\ ~Waits(t) /\ current_state.placed[t] = Nowhere
  BY IssuedTypes DEF ServingInv, QueuesInv, Untouched
<1>1. CASE ReceivedGraph \/ ClientStep \/ \E r \in Robots : \E id : \E a \in Seq(LocationReq) :
             OnRequest(r, id, a)
  <2>1. current_state'.placed = current_state.placed /\ queues' = queues
    BY <1>0, <1>1 DEF ReceivedGraph, ClientStep, OnRequest, Sound, State
  <2> QED BY <1>0, <2>1 DEF Untouched, Waits
<1>2. ASSUME NEW u \in Issued, NEW w \in WaitLists, Untouched(u), ClaimRequest(u, w)
      PROVE  Untouched(t)'
  <2>1. u # t /\ u \in Tickets
    BY <1>0, <1>2
  <2>2. current_state' = current_state \/ \E m : MovedTo(u, m)
    BY <1>0, <1>2, ClaimEffect DEF Proceeds, WaitsAt, WaitsNowhere
  <2>3. current_state'.placed[t] = Nowhere
    BY <1>0, <2>1, <2>2 DEF MovedTo
  <2>4. queues' = queues \/ Joins(u)
    BY <1>0, <1>2, ClaimEffect DEF Proceeds, WaitsAt, WaitsNowhere
  <2>5. ~Waits(t)'
    BY <1>0, <2>1, <2>4, WaitsAfter
  <2> QED BY <2>3, <2>5 DEF Untouched
<1>3. ASSUME NEW u \in Issued, Release(u) PROVE Untouched(t)'
  <2>1. current_state'.placed[t] = Nowhere /\ queues' = queues
    BY <1>0, <1>3, ReleaseEffect DEF Release
  <2> QED BY <1>0, <2>1 DEF Untouched, Waits
<1>4. CASE ServiceNext
  <2>0. freed \in Locations
    BY <1>4, ServiceEffect
  <2>1. CASE LoopEnds
    BY <1>0, <2>1 DEF LoopEnds, Untouched, Waits
  <2>2. ASSUME NEW u \in Issued, Contains(queues[freed], u), Leaves(u), Dropped(u) \/ Served(u)
        PROVE  Untouched(t)'
    <3>1. u # t /\ u \in Tickets
      BY <1>0, <2>0, <2>2 DEF Waits
    <3>2. current_state'.placed[t] = Nowhere
      BY <1>0, <2>2, <3>1 DEF Dropped, Served, MovedToFree
    <3>3. ~Waits(t)'
      BY <1>0, <2>2, <3>1, WaitsAfter
    <3> QED BY <3>2, <3>3 DEF Untouched
  <2> QED BY <1>4, <2>1, <2>2, ServiceEffect
<1> QED BY <1>1, <1>2, <1>3, <1>4 DEF CarefulStep
=============================================================================
