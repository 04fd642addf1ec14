------------------------- MODULE MutexGroups_proofs --------------------------
(***************************************************************************)
(* Proofs that the mutex group supervisor and the robots keep their types,   *)
(* that a group is always assigned to one of its claimants, and, when no     *)
(* operator releases groups by hand, that a robot keeps asking for what it   *)
(* waits for and that no claim of its wait grows stale, for any robots,       *)
(* groups and claims, however messages are delayed and adapters restart.     *)
(***************************************************************************)
EXTENDS MutexGroups, FiniteSetTheorems, WellFoundedInduction, SequenceTheorems, TLAPS

Claims == [Groups -> [Robots -> TimeOrNone]]
MutexInv == TypeOK /\ AssignedToAClaimant

-----------------------------------------------------------------------------
(* The earliest claim *)

(* A set of times has a least one.  The sets 0..x are ordered by inclusion, *)
(* and a least of them exists.                                              *)
LEMMA LeastExists ==
  ASSUME NEW T \in SUBSET Nat, T # {}
  PROVE  \E x \in T : \A y \in T : x <= y
<1> DEFINE R == StrictSubsetOrdering(Nat)
           F == FiniteSubsetsOf(Nat)
           B == {0..x : x \in T}
<1>1. B # {} /\ B \subseteq F
  <2>1. \A x \in Nat : IsFiniteSet(0..x) /\ 0..x \in SUBSET Nat
    BY FS_Interval
  <2> QED BY <2>1 DEF FiniteSubsetsOf
<1>2. IsWellFoundedOn(R, F)
  BY FS_StrictSubsetOrderingWellFounded
<1>3. PICK b \in B : \A c \in B : ~(<<c, b>> \in R)
  <2> HIDE DEF R, F, B
  <2> QED BY <1>1, <1>2, WFMin
<1>4. PICK x \in T : b = 0..x
  OBVIOUS
<1>5. ASSUME NEW y \in T, y < x PROVE FALSE
  <2>1. 0..y \in B /\ 0..y \subseteq 0..x /\ 0..y # 0..x
    BY <1>5
  <2>2. 0..y \in SUBSET Nat /\ 0..x \in SUBSET Nat
    OBVIOUS
  <2>3. <<0..y, 0..x>> \in R
    <3> DEFINE s == 0..y t == 0..x
    <3>1. s \in SUBSET Nat /\ t \in SUBSET Nat /\ s \subseteq t /\ s # t
      BY <2>1, <2>2
    <3> HIDE DEF s, t
    <3>2. <<s, t>> \in R
      BY <3>1 DEF StrictSubsetOrdering
    <3> QED BY <3>2 DEF s, t
  <2> HIDE DEF R, B
  <2> QED BY <1>3, <1>4, <2>1, <2>3
<1> QED BY <1>5

(* Times are numbers, and no time is none of them.                          *)
LEMMA TimesAreNumbers == Times \subseteq Nat /\ NoTime \in Nat /\ NoTime \notin Times
<1>1. ClaimLimit \in Nat
  BY MutexAssumption DEF MutexAssumption
<1> QED BY <1>1 DEF Times, NoTime

(* pick_next finds a claimant whenever there is one.                        *)
LEMMA PickedIsAClaimant ==
  ASSUME NEW c \in Claims, NEW g \in Groups
  PROVE  /\ Picked(c, g) \in [claimant : Robots \cup {Unclaimed}, time : TimeOrNone]
         /\ Claimants(c, g) = {} => Picked(c, g).claimant = Unclaimed
         /\ Claimants(c, g) # {} => Picked(c, g).claimant \in Claimants(c, g)
<1>1. CASE Claimants(c, g) = {}
  BY <1>1 DEF Picked, NothingAssigned, TimeOrNone
<1>2. CASE Claimants(c, g) # {}
  <2> DEFINE T == {c[g][r] : r \in Claimants(c, g)}
             Earliest(r) == \A s \in Claimants(c, g) : c[g][r] <= c[g][s]
             first == CHOOSE r \in Claimants(c, g) : Earliest(r)
  <2>1. T \in SUBSET Nat /\ T # {}
    <3>1. \A r \in Claimants(c, g) : c[g][r] \in Nat
      BY TimesAreNumbers DEF Claims, Claimants, TimeOrNone
    <3> QED BY <1>2, <3>1
  <2>2. PICK time \in T : \A other \in T : time <= other
    <3> HIDE DEF T
    <3> QED BY <2>1, LeastExists
  <2>3. \E r \in Claimants(c, g) : Earliest(r)
    BY <2>2
  <2>4. first \in Claimants(c, g)
    <3> HIDE DEF Earliest
    <3> QED BY <2>3
  <2>5. Picked(c, g) = [claimant |-> first, time |-> c[g][first]]
    BY <1>2 DEF Picked
  <2>6. first \in Robots /\ c[g][first] \in TimeOrNone
    BY <2>4 DEF Claimants, Claims
  <2> HIDE DEF first
  <2> QED BY <1>2, <2>4, <2>5, <2>6
<1> QED BY <1>1, <1>2

(* check_for_conflicts changes the times of claims, and nothing else.        *)
LEMMA NormalizedKeepsClaimants ==
  ASSUME NEW c \in Claims
  PROVE  /\ Normalized(c) \in Claims
         /\ \A g \in Groups : Claimants(Normalized(c), g) = Claimants(c, g)
<1>1. ASSUME NEW g \in Groups, NEW r \in Robots, c[g][r] # NoTime
      PROVE  Min({c[h][r] : h \in ClaimedBy(c, r)}) \in Times
  <2> DEFINE T == {c[h][r] : h \in ClaimedBy(c, r)}
  <2>1. T \subseteq Times /\ T # {}
    BY <1>1 DEF Claims, ClaimedBy, TimeOrNone
  <2>2. T \in SUBSET Nat
    BY <2>1, TimesAreNumbers
  <2> HIDE DEF T
  <2>3. \E x \in T : \A y \in T : x <= y
    BY <2>1, <2>2, LeastExists
  <2>4. Min(T) \in T
    BY <2>3 DEF Min
  <2> QED BY <2>1, <2>4 DEF T
<1>2. ASSUME NEW g \in Groups, NEW r \in Robots
      PROVE  /\ Normalized(c)[g][r] \in TimeOrNone
             /\ Normalized(c)[g][r] = NoTime <=> c[g][r] = NoTime
  <2>1. NoTime \notin Times
    BY TimesAreNumbers
  <2>2. c[g][r] \in TimeOrNone
    BY DEF Claims
  <2>3. CASE r \in InConflict(c) /\ c[g][r] # NoTime
    <3>1. Normalized(c)[g][r] = Min({c[h][r] : h \in ClaimedBy(c, r)})
      BY <2>3 DEF Normalized
    <3> QED BY <1>1, <2>1, <2>3, <3>1 DEF TimeOrNone
  <2>4. CASE ~(r \in InConflict(c) /\ c[g][r] # NoTime)
    BY <2>2, <2>4 DEF Normalized
  <2> QED BY <2>3, <2>4
<1>3. Normalized(c) \in Claims
  <2>1. Normalized(c) = [g \in Groups |-> [r \in Robots |-> Normalized(c)[g][r]]]
    BY DEF Normalized
  <2> QED BY <1>2, <2>1 DEF Claims
<1> QED BY <1>2, <1>3 DEF Claimants

-----------------------------------------------------------------------------
(* Messages *)

(* The messages for some groups are a sequence of typed messages.           *)
LEMMA MessagesAreTyped ==
  ASSUME NEW groups \in [Groups -> TimeOrNone], NEW mode \in {"lock", "release"},
         NEW m \in Messages(groups, mode)
  PROVE  m \in Seq(Message)
<1>1. PICK order \in Orders[Has(groups)] :
        m = [i \in DOMAIN order |-> [group |-> order[i], time |-> groups[order[i]], mode |-> mode]]
  BY DEF Messages
<1>2. IsFiniteSet(Has(groups)) /\ Has(groups) \in SUBSET Groups
  <2>1. IsFiniteSet(Groups)
    BY MutexAssumption DEF MutexAssumption
  <2> QED BY <2>1, FS_Subset DEF Has
<1>3. Cardinality(Has(groups)) \in Nat
  BY <1>2, FS_CardinalityType
<1>4. order \in [1..Cardinality(Has(groups)) -> Has(groups)]
  BY <1>2 DEF Orders, SetToSeqs
<1>5. \A i \in 1..Cardinality(Has(groups)) :
        [group |-> order[i], time |-> groups[order[i]], mode |-> mode] \in Message
  <2>1. \A g \in Has(groups) : g \in Groups /\ groups[g] \in Times
    BY DEF Has, TimeOrNone
  <2> QED BY <1>4, <2>1 DEF Message
<1>6. m \in [1..Cardinality(Has(groups)) -> Message]
  BY <1>1, <1>4, <1>5
<1> QED BY <1>3, <1>6

(* What a robot publishes goes behind what is on its way.                   *)
LEMMA PublishTypes ==
  ASSUME TypeOK, NEW r \in Robots, NEW m \in Seq(Message), Publish(r, m)
  PROVE  to_supervisor' \in [Robots -> Seq(Message)]
<1>1. to_supervisor[r] \o m \in Seq(Message)
  BY ConcatProperties DEF TypeOK
<1> QED BY <1>1 DEF TypeOK, Publish

(* So it is with two rounds of messages.                                    *)
LEMMA PublishBothTypes ==
  ASSUME TypeOK, NEW r \in Robots, NEW mode \in {"lock", "release"},
         NEW groups0 \in [Groups -> TimeOrNone], NEW groups1 \in [Groups -> TimeOrNone],
         NEW m0 \in Messages(groups0, mode), NEW m1 \in Messages(groups1, mode),
         Publish(r, m0 \o m1)
  PROVE  to_supervisor' \in [Robots -> Seq(Message)]
<1>1. m0 \in Seq(Message) /\ m1 \in Seq(Message)
  BY MessagesAreTyped
<1>2. m0 \o m1 \in Seq(Message)
  BY <1>1, ConcatProperties
<1> QED BY <1>2, PublishTypes

(* A claim and a heartbeat publish what is requested and what is locked.    *)
LEMMA PublishRequestsTypes ==
  ASSUME TypeOK, NEW r \in Robots, NEW groups \in [Groups -> TimeOrNone],
         PublishRequests(r, groups)
  PROVE  to_supervisor' \in [Robots -> Seq(Message)]
<1>1. PICK m0 \in Messages(groups, "lock"), m1 \in Messages(locked[r], "lock") :
        Publish(r, m0 \o m1)
  BY DEF PublishRequests
<1>2. locked[r] \in [Groups -> TimeOrNone]
  BY DEF TypeOK
<1> QED BY <1>1, <1>2, PublishBothTypes

(* The states that are published are typed if the assignments are.          *)
LEMMA PublishedTypes ==
  ASSUME TypeOK, NEW states \in States
  PROVE  Published(states) \in [Robots -> Seq(States)]
<1>1. \A r \in Robots : Append(to_robot[r], states) \in Seq(States)
  BY AppendProperties DEF TypeOK
<1> QED BY <1>1 DEF Published

-----------------------------------------------------------------------------
(* The supervisor *)

(* A release takes the group to its next claimant.                          *)
LEMMA ReleaseKeepsInv ==
  ASSUME MutexInv, NEW r \in Robots, NEW m \in Message, Release(r, m)
  PROVE  claims' \in Claims /\ assigned' \in States /\ AssignedToAClaimant'
         /\ to_robot' \in [Robots -> Seq(States)]
<1>0. claims \in Claims /\ assigned \in States /\ m.group \in Groups
  BY DEF MutexInv, TypeOK, Claims, Message
<1>1. CASE UNCHANGED <<claims, assigned, to_robot>>
  BY <1>0, <1>1 DEF MutexInv, TypeOK, AssignedToAClaimant
<1>2. CASE /\ claims' = [claims EXCEPT ![m.group][r] = NoTime]
           /\ assigned' = [assigned EXCEPT ![m.group] = Picked(claims', m.group)]
           /\ to_robot' = Published(assigned')
  <2>1. claims' \in Claims
    BY <1>0, <1>2 DEF Claims, TimeOrNone
  <2>2. assigned' \in States
    BY <1>0, <1>2, <2>1, PickedIsAClaimant DEF States
  <2>3. to_robot' \in [Robots -> Seq(States)]
    BY <1>2, <2>2, PublishedTypes DEF MutexInv
  <2>4. AssignedToAClaimant'
    <3>1. SUFFICES ASSUME NEW g \in Groups
                   PROVE  \/ assigned'[g].claimant \in Claimants(claims', g)
                          \/ assigned'[g].claimant = Unclaimed /\ Claimants(claims', g) = {}
      BY DEF AssignedToAClaimant
    <3>2. CASE g = m.group
      <4>1. assigned'[g] = Picked(claims', g)
        BY <1>0, <1>2, <3>2 DEF States
      <4> QED BY <2>1, <4>1, PickedIsAClaimant
    <3>3. CASE g # m.group
      <4>1. assigned'[g] = assigned[g] /\ claims'[g] = claims[g]
        BY <1>0, <1>2, <3>3 DEF States, Claims
      <4> QED BY <4>1 DEF MutexInv, AssignedToAClaimant, Claimants
    <3> QED BY <3>2, <3>3
  <2> QED BY <2>1, <2>2, <2>3, <2>4
<1> QED BY <1>1, <1>2 DEF Release

(* Conflicts are resolved among claimants only: a group that is not picked  *)
(* again keeps its claimant, who still claims it.                           *)
LEMMA ResolutionKeepsClaimants ==
  ASSUME MutexInv, NEW c \in Claims, CheckForConflicts(c),
         \A g \in Groups : /\ assigned[g].claimant \in Claimants(claims, g) =>
                                assigned[g].claimant \in Claimants(c, g)
                           /\ assigned[g].claimant = Unclaimed => Claimants(c, g) = {}
  PROVE  claims' \in Claims /\ assigned' \in States /\ AssignedToAClaimant'
<1>0. assigned \in States
  BY DEF MutexInv, TypeOK
<1>1. claims' \in Claims /\ \A g \in Groups : Claimants(claims', g) = Claimants(c, g)
  BY NormalizedKeepsClaimants DEF CheckForConflicts
<1>2. ASSUME NEW g \in Groups
      PROVE  assigned'[g] = Picked(claims', g) \/ assigned'[g] = assigned[g]
  BY DEF CheckForConflicts
<1>3. assigned' \in States
  <2>1. \A g \in Groups :
          assigned'[g] \in [claimant : Robots \cup {Unclaimed}, time : TimeOrNone]
    BY <1>0, <1>1, <1>2, PickedIsAClaimant DEF States
  <2>2. assigned' = [g \in Groups |-> assigned'[g]]
    BY DEF CheckForConflicts
  <2> QED BY <2>1, <2>2 DEF States
<1>4. ASSUME NEW g \in Groups
      PROVE  \/ assigned'[g].claimant \in Claimants(claims', g)
             \/ assigned'[g].claimant = Unclaimed /\ Claimants(claims', g) = {}
  <2>1. CASE assigned'[g] = Picked(claims', g)
    BY <1>1, <2>1, PickedIsAClaimant
  <2>2. CASE assigned'[g] = assigned[g]
    BY <1>1, <2>2 DEF MutexInv, AssignedToAClaimant
  <2> QED BY <1>2, <2>1, <2>2
<1> QED BY <1>1, <1>3, <1>4 DEF AssignedToAClaimant

(* A claim goes to a group that is free, or into the resolution.            *)
LEMMA LockKeepsInv ==
  ASSUME MutexInv, NEW r \in Robots, NEW m \in Message, Lock(r, m)
  PROVE  claims' \in Claims /\ assigned' \in States /\ AssignedToAClaimant'
<1> DEFINE c == [claims EXCEPT ![m.group][r] = m.time]
<1>0. claims \in Claims /\ assigned \in States /\ m.group \in Groups /\ m.time \in Times
      /\ m.time # NoTime /\ Unclaimed \notin Robots
  BY TimesAreNumbers, MutexAssumption DEF MutexInv, TypeOK, Claims, Message, MutexAssumption
<1>1. c \in Claims
  BY <1>0 DEF Claims, TimeOrNone
<1>2. /\ \A g \in Groups : Claimants(claims, g) \subseteq Claimants(c, g)
      /\ \A g \in Groups \ {m.group} : Claimants(claims, g) = Claimants(c, g)
  BY <1>0 DEF Claims, Claimants
<1>3. CASE assigned[m.group].claimant # Unclaimed /\ CheckForConflicts(c)
  <2>1. \A g \in Groups : assigned[g].claimant = Unclaimed => Claimants(c, g) = {}
    <3>1. SUFFICES ASSUME NEW g \in Groups, assigned[g].claimant = Unclaimed
                   PROVE  Claimants(c, g) = {}
      OBVIOUS
    <3>2. assigned[g].claimant \notin Claimants(claims, g)
      BY <1>0, <3>1 DEF Claimants
    <3>3. Claimants(claims, g) = {}
      BY <3>2 DEF MutexInv, AssignedToAClaimant
    <3> QED BY <1>2, <1>3, <3>1, <3>3
  <2> QED BY <1>1, <1>2, <1>3, <2>1, ResolutionKeepsClaimants
<1>4. CASE /\ claims' = c
           /\ assigned' = [assigned EXCEPT ![m.group] = Picked(claims', m.group)]
  <2>1. assigned' \in States
    BY <1>0, <1>1, <1>4, PickedIsAClaimant DEF States
  <2>2. ASSUME NEW g \in Groups
        PROVE  \/ assigned'[g].claimant \in Claimants(claims', g)
               \/ assigned'[g].claimant = Unclaimed /\ Claimants(claims', g) = {}
    <3>1. CASE g = m.group
      <4>1. assigned'[g] = Picked(claims', g)
        BY <1>0, <1>4, <3>1 DEF States
      <4> QED BY <1>1, <1>4, <4>1, PickedIsAClaimant
    <3>2. CASE g # m.group
      <4>1. assigned'[g] = assigned[g] /\ Claimants(claims', g) = Claimants(claims, g)
        BY <1>0, <1>2, <1>4, <3>2 DEF States
      <4> QED BY <4>1 DEF MutexInv, AssignedToAClaimant
    <3> QED BY <3>1, <3>2
  <2> QED BY <1>1, <1>4, <2>1, <2>2 DEF AssignedToAClaimant
<1> QED
  <2>1. \/ /\ assigned[m.group].claimant # Unclaimed
           /\ \E d \in {c} : CheckForConflicts(d)
        \/ /\ assigned[m.group].claimant = Unclaimed
           /\ claims' = c
           /\ assigned' = [assigned EXCEPT ![m.group] = Picked(claims', m.group)]
    BY DEF Lock
  <2> HIDE DEF c
  <2> QED BY <1>3, <1>4, <2>1

(* Claims that went stale are gone, and their groups are picked again.      *)
LEMMA HeartbeatKeepsInv ==
  ASSUME MutexInv, NEW expired \in SUBSET Stale, DoHeartbeat(expired)
  PROVE  MutexInv'
<1>0. claims \in Claims /\ assigned \in States
  BY DEF MutexInv, TypeOK, Claims
<1>1. claims' = [g \in Groups |-> [r \in Robots |->
        IF <<g, r>> \in expired THEN NoTime ELSE claims[g][r]]]
  BY DEF DoHeartbeat
<1>2. claims' \in Claims
  BY <1>0, <1>1 DEF Claims, TimeOrNone
<1>3. ASSUME NEW g \in Groups
      PROVE  assigned'[g] = IF <<g, assigned[g].claimant>> \in expired THEN Picked(claims', g)
                            ELSE assigned[g]
  BY DEF DoHeartbeat
<1>4. assigned' \in States
  <2>1. \A g \in Groups :
          assigned'[g] \in [claimant : Robots \cup {Unclaimed}, time : TimeOrNone]
    BY <1>0, <1>2, <1>3, PickedIsAClaimant DEF States
  <2>2. assigned' = [g \in Groups |-> assigned'[g]]
    BY DEF DoHeartbeat
  <2> QED BY <2>1, <2>2 DEF States
<1>5. ASSUME NEW g \in Groups
      PROVE  \/ assigned'[g].claimant \in Claimants(claims', g)
             \/ assigned'[g].claimant = Unclaimed /\ Claimants(claims', g) = {}
  <2>1. CASE <<g, assigned[g].claimant>> \in expired
    BY <1>2, <1>3, <2>1, PickedIsAClaimant
  <2>2. CASE <<g, assigned[g].claimant>> \notin expired
    <3>1. assigned'[g] = assigned[g]
      BY <1>3, <2>2
    <3>2. Claimants(claims', g) \subseteq Claimants(claims, g)
      BY <1>1 DEF Claimants
    <3>3. assigned[g].claimant \in Claimants(claims, g) =>
            assigned[g].claimant \in Claimants(claims', g)
      BY <1>1, <2>2 DEF Claimants
    <3> QED BY <3>1, <3>2, <3>3 DEF MutexInv, AssignedToAClaimant
  <2> QED BY <2>1, <2>2
<1>6. AssignedToAClaimant'
  BY <1>5 DEF AssignedToAClaimant
<1>7. to_robot' \in [Robots -> Seq(States)]
  BY <1>4, PublishedTypes DEF DoHeartbeat, MutexInv
<1> QED BY <1>2, <1>4, <1>6, <1>7 DEF DoHeartbeat, robotVars, MutexInv, TypeOK, Claims

(* A request is taken off its channel and handled.                          *)
LEMMA HandleRequestKeepsInv ==
  ASSUME MutexInv, NEW r \in Robots, HandleRequest(r)
  PROVE  MutexInv'
<1> DEFINE m == Head(to_supervisor[r])
<1>1. m \in Message /\ Tail(to_supervisor[r]) \in Seq(Message)
  <2>1. to_supervisor[r] \in Seq(Message) /\ to_supervisor[r] # << >>
    BY DEF MutexInv, TypeOK, HandleRequest
  <2> QED BY <2>1, HeadTailProperties
<1>2. /\ claims' \in Claims /\ assigned' \in States /\ AssignedToAClaimant'
      /\ to_robot' \in [Robots -> Seq(States)]
  <2>1. CASE Release(r, m)
    BY <1>1, <2>1, ReleaseKeepsInv
  <2>2. CASE Lock(r, m)
    <3>1. to_robot' \in [Robots -> Seq(States)]
      BY <2>2 DEF Lock, MutexInv, TypeOK
    <3> QED BY <1>1, <2>2, <3>1, LockKeepsInv
  <2> QED BY <2>1, <2>2 DEF HandleRequest
<1>3. to_supervisor' \in [Robots -> Seq(Message)]
  BY <1>1 DEF HandleRequest, MutexInv, TypeOK
<1> QED BY <1>2, <1>3 DEF HandleRequest, robotVars, MutexInv, TypeOK, Claims

-----------------------------------------------------------------------------
(* The robots *)

(* The supervisor knows nothing of what a robot does until it is told.      *)
LEMMA RobotKeepsAssignment ==
  ASSUME MutexInv, UNCHANGED supervisorVars
  PROVE  /\ claims' \in [Groups -> [Robots -> TimeOrNone]] /\ assigned' \in States
         /\ AssignedToAClaimant'
BY DEF MutexInv, TypeOK, AssignedToAClaimant, supervisorVars

(* LockMutexGroup begins: requests are made and published.                  *)
LEMMA ClaimKeepsInv ==
  ASSUME MutexInv, NEW r \in Robots, NEW groups \in Wishes[r], NEW time \in Times,
         Claim(r, groups, time)
  PROVE  MutexInv'
<1>1. groups \in SUBSET Groups
  BY MutexAssumption DEF MutexAssumption
<1>2. requesting' \in [Robots -> [Groups -> TimeOrNone]]
      /\ to_supervisor' \in [Robots -> Seq(Message)]
  <2>1. CASE UNCHANGED <<requesting, to_supervisor>>
    BY <2>1 DEF MutexInv, TypeOK
  <2>2. CASE /\ requesting' = [requesting EXCEPT ![r] = Requested(r, groups, time)]
             /\ PublishRequests(r, requesting'[r])
    <3>1. Requested(r, groups, time) \in [Groups -> TimeOrNone]
      BY DEF Requested, MutexInv, TypeOK, TimeOrNone
    <3>2. requesting' \in [Robots -> [Groups -> TimeOrNone]]
      BY <2>2, <3>1 DEF MutexInv, TypeOK
    <3>3. to_supervisor' \in [Robots -> Seq(Message)]
      BY <2>2, <3>2, PublishRequestsTypes DEF MutexInv
    <3> QED BY <3>2, <3>3
  <2> QED BY <2>1, <2>2 DEF Claim
<1>3. wanted' \in [Robots -> SUBSET Groups] /\ remaining' \in [Robots -> SUBSET Groups]
      /\ inside' \in [Robots -> SUBSET Groups]
  <2>1. /\ wanted \in [Robots -> SUBSET Groups] /\ remaining \in [Robots -> SUBSET Groups]
        /\ inside \in [Robots -> SUBSET Groups]
    BY DEF MutexInv, TypeOK
  <2>2. \/ wanted' = wanted \/ wanted' = [wanted EXCEPT ![r] = groups]
    BY DEF Claim
  <2>3. \/ remaining' = remaining
        \/ remaining' = [remaining EXCEPT ![r] = groups \ Has(locked[r])]
    BY DEF Claim
  <2>4. \/ inside' = inside \/ inside' = [inside EXCEPT ![r] = @ \cup groups]
    BY DEF Claim
  <2> QED BY <1>1, <2>1, <2>2, <2>3, <2>4
<1>4. locked' = locked /\ to_robot' = to_robot /\ restarts' = restarts /\ used' \subseteq Times
  BY DEF Claim, MutexInv, TypeOK
<1>5. UNCHANGED supervisorVars
  BY DEF Claim
<1> QED BY <1>2, <1>3, <1>4, <1>5, RobotKeepsAssignment DEF MutexInv, TypeOK

(* The requests and locks are repeated.                                     *)
LEMMA RobotHeartbeatKeepsInv ==
  ASSUME MutexInv, NEW r \in Robots, Heartbeat(r)
  PROVE  MutexInv'
<1>1. to_supervisor' \in [Robots -> Seq(Message)]
  BY PublishRequestsTypes DEF Heartbeat, MutexInv, TypeOK
<1>2. UNCHANGED supervisorVars
  BY DEF Heartbeat
<1> QED BY <1>1, <1>2, RobotKeepsAssignment DEF Heartbeat, robotVars, MutexInv, TypeOK

(* What a robot is let into was in the states, or wanted by it.             *)
LEMMA OnStatesKeepsInv ==
  ASSUME MutexInv, NEW r \in Robots, OnStates(r)
  PROVE  MutexInv'
<1> DEFINE states == Head(to_robot[r])
           mine == AssignedTo(r, states)
           granted == mine \cap Has(requesting[r])
           errors == [g \in Groups |-> IF g \in mine \ (granted \cup Has(locked[r]))
                                       THEN states[g].time ELSE NoTime]
<1>1. states \in States /\ Tail(to_robot[r]) \in Seq(States)
  <2>1. to_robot[r] \in Seq(States) /\ to_robot[r] # << >>
    BY DEF MutexInv, TypeOK, OnStates
  <2> QED BY <2>1, HeadTailProperties
<1>2. /\ requesting' = [requesting EXCEPT ![r] =
           [g \in Groups |-> IF g \in granted THEN NoTime ELSE @[g]]]
      /\ locked' = [locked EXCEPT ![r] =
           [g \in Groups |-> IF g \in granted THEN states[g].time ELSE @[g]]]
      /\ OnLocked(r, granted)
      /\ \E m \in Messages(errors, "release") : Publish(r, m)
  BY DEF OnStates
<1>3. requesting' \in [Robots -> [Groups -> TimeOrNone]]
  <2> HIDE DEF granted
  <2> QED BY <1>2 DEF MutexInv, TypeOK, TimeOrNone
<1>4. locked' \in [Robots -> [Groups -> TimeOrNone]]
  <2> HIDE DEF granted
  <2>1. \A g \in Groups : states[g].time \in TimeOrNone
    BY <1>1 DEF States
  <2> HIDE DEF states
  <2>2. [g \in Groups |-> IF g \in granted THEN states[g].time ELSE locked[r][g]]
          \in [Groups -> TimeOrNone]
    BY <2>1 DEF MutexInv, TypeOK
  <2> QED BY <1>2, <2>2 DEF MutexInv, TypeOK
<1>5. to_supervisor' \in [Robots -> Seq(Message)]
  <2>1. errors \in [Groups -> TimeOrNone]
    BY <1>1 DEF States, TimeOrNone
  <2> HIDE DEF errors
  <2>2. PICK m \in Messages(errors, "release") : Publish(r, m)
    BY <1>2
  <2>3. m \in Seq(Message)
    BY <2>1, MessagesAreTyped
  <2> QED BY <2>2, <2>3, PublishTypes DEF MutexInv
<1>6. wanted' \in [Robots -> SUBSET Groups] /\ remaining' \in [Robots -> SUBSET Groups]
      /\ inside' \in [Robots -> SUBSET Groups]
  <2> HIDE DEF granted
  <2>1. /\ wanted \in [Robots -> SUBSET Groups] /\ remaining \in [Robots -> SUBSET Groups]
        /\ inside \in [Robots -> SUBSET Groups]
    BY DEF MutexInv, TypeOK
  <2>2. wanted' = wanted \/ wanted' = [wanted EXCEPT ![r] = {}]
    BY <1>2, <2>1 DEF OnLocked
  <2>3. remaining' = [remaining EXCEPT ![r] = remaining[r] \ granted]
    BY <1>2 DEF OnLocked
  <2>4. inside' = inside \/ inside' = [inside EXCEPT ![r] = @ \cup wanted[r]]
    BY <1>2 DEF OnLocked
  <2> QED BY <2>1, <2>2, <2>3, <2>4
<1>7. to_robot' \in [Robots -> Seq(States)]
  BY <1>1 DEF OnStates, MutexInv, TypeOK
<1>8. UNCHANGED supervisorVars
  BY DEF OnStates
<1> HIDE DEF states, mine, granted, errors
<1> QED BY <1>3, <1>4, <1>5, <1>6, <1>7, <1>8, RobotKeepsAssignment DEF OnStates, MutexInv, TypeOK

(* MoveOn, IdleRelease and ManualRelease: what is not kept is released,      *)
(* wherever the robot is.                                                   *)
LEMMA ReleaseAllButKeepsInv ==
  ASSUME MutexInv, NEW r \in Robots, NEW keep \in SUBSET Groups, ReleaseAllBut(r, keep),
         inside' \in [Robots -> SUBSET Groups]
  PROVE  MutexInv'
<1>1. \A groups \in [Groups -> TimeOrNone] :
        /\ Kept(groups, keep) \in [Groups -> TimeOrNone]
        /\ Dropped(groups, keep) \in [Groups -> TimeOrNone]
  BY DEF TimeOrNone, Kept, Dropped
<1>2. requesting[r] \in [Groups -> TimeOrNone] /\ locked[r] \in [Groups -> TimeOrNone]
  BY DEF MutexInv, TypeOK
<1>3. /\ requesting' = [requesting EXCEPT ![r] = Kept(requesting[r], keep)]
      /\ locked' = [locked EXCEPT ![r] = Kept(locked[r], keep)]
      /\ \E m1 \in Messages(Dropped(requesting[r], keep), "release"),
            m2 \in Messages(Dropped(locked[r], keep), "release") : Publish(r, m1 \o m2)
      /\ UNCHANGED <<supervisorVars, wanted, remaining, to_robot, used, restarts>>
  BY DEF ReleaseAllBut
<1>4. to_supervisor' \in [Robots -> Seq(Message)]
  BY <1>1, <1>2, <1>3, PublishBothTypes DEF MutexInv
<1>5. requesting' \in [Robots -> [Groups -> TimeOrNone]]
      /\ locked' \in [Robots -> [Groups -> TimeOrNone]]
  BY <1>1, <1>2, <1>3 DEF MutexInv, TypeOK
<1> QED BY <1>3, <1>4, <1>5, RobotKeepsAssignment DEF MutexInv, TypeOK

LEMMA RetainKeepsInv ==
  ASSUME MutexInv, NEW r \in Robots, NEW keep \in SUBSET Groups, Retain(r, keep)
  PROVE  MutexInv'
<1>1. inside' \in [Robots -> SUBSET Groups]
  BY DEF Retain, MutexInv, TypeOK
<1> QED BY <1>1, ReleaseAllButKeepsInv DEF Retain

LEMMA IdleReleaseKeepsInv ==
  ASSUME MutexInv, NEW r \in Robots, IdleRelease(r)
  PROVE  MutexInv'
<1>1. inside' \in [Robots -> SUBSET Groups] /\ {} \in SUBSET Groups
  BY DEF IdleRelease, MutexInv, TypeOK
<1> QED BY <1>1, ReleaseAllButKeepsInv DEF IdleRelease

(* A wait ends, and nothing is released.                                    *)
LEMMA CancelKeepsInv ==
  ASSUME MutexInv, NEW r \in Robots, Cancel(r)
  PROVE  MutexInv'
<1>1. UNCHANGED supervisorVars
  BY DEF Cancel
<1> QED BY <1>1, RobotKeepsAssignment DEF Cancel, MutexInv, TypeOK

(* An adapter forgets; the supervisor does not.                             *)
LEMMA RestartKeepsInv ==
  ASSUME MutexInv, NEW r \in Robots, Restart(r)
  PROVE  MutexInv'
<1>1. UNCHANGED supervisorVars
  BY DEF Restart
<1>2. NoGroups \in [Groups -> TimeOrNone]
  BY DEF NoGroups, TimeOrNone
<1>3. restarts' \in 0..RestartLimit
  BY MutexAssumption DEF Restart, MutexInv, TypeOK, MutexAssumption
<1> QED BY <1>1, <1>2, <1>3, RobotKeepsAssignment DEF Restart, MutexInv, TypeOK

-----------------------------------------------------------------------------
(* The specification *)

(* At first nothing is claimed.                                             *)
LEMMA InitEstablishesInv == Init => MutexInv
<1> SUFFICES ASSUME Init PROVE MutexInv
  OBVIOUS
<1>1. NoGroups \in [Groups -> TimeOrNone] /\ 0 \in 0..RestartLimit
  BY MutexAssumption DEF NoGroups, TimeOrNone, MutexAssumption
<1>2. assigned \in States /\ claims \in [Groups -> [Robots -> TimeOrNone]]
  BY DEF Init, NothingAssigned, States, TimeOrNone
<1>3. AssignedToAClaimant
  BY DEF Init, NothingAssigned, AssignedToAClaimant, Claimants
<1> QED BY <1>1, <1>2, <1>3 DEF Init, MutexInv, TypeOK

(* Every action keeps the invariant.                                        *)
LEMMA NextKeepsInv == MutexInv /\ [Next]_vars => MutexInv'
<1> SUFFICES ASSUME MutexInv, [Next]_vars PROVE MutexInv'
  OBVIOUS
<1>1. CASE UNCHANGED vars
  BY <1>1 DEF vars, supervisorVars, robotVars, MutexInv, TypeOK, AssignedToAClaimant
<1>2. ASSUME NEW r \in Robots, HandleRequest(r) PROVE MutexInv'
  BY <1>2, HandleRequestKeepsInv
<1>3. ASSUME NEW r \in Robots, NEW groups \in Wishes[r], NEW time \in Times,
             Claim(r, groups, time)
      PROVE  MutexInv'
  BY <1>3, ClaimKeepsInv
<1>4. ASSUME NEW r \in Robots, Heartbeat(r) PROVE MutexInv'
  BY <1>4, RobotHeartbeatKeepsInv
<1>5. ASSUME NEW r \in Robots, OnStates(r) PROVE MutexInv'
  BY <1>5, OnStatesKeepsInv
<1>6. ASSUME NEW r \in Robots, NEW keep \in SUBSET Groups, MoveOn(r, keep) PROVE MutexInv'
  BY <1>6, RetainKeepsInv DEF MoveOn
<1>7. ASSUME NEW r \in Robots, NEW groups \in SUBSET Groups, ManualRelease(r, groups)
      PROVE  MutexInv'
  <2>1. Has(locked[r]) \ groups \in SUBSET Groups
    BY DEF Has
  <2> QED BY <1>7, <2>1, RetainKeepsInv DEF ManualRelease
<1>8. ASSUME NEW r \in Robots, Cancel(r) PROVE MutexInv'
  BY <1>8, CancelKeepsInv
<1>9. ASSUME NEW r \in Robots, Restart(r) PROVE MutexInv'
  BY <1>9, RestartKeepsInv
<1>10. ASSUME NEW expired \in SUBSET Stale, DoHeartbeat(expired) PROVE MutexInv'
  BY <1>10, HeartbeatKeepsInv
<1>11. ASSUME NEW r \in Robots, IdleRelease(r) PROVE MutexInv'
  BY <1>11, IdleReleaseKeepsInv
<1> QED BY <1>1, <1>2, <1>3, <1>4, <1>5, <1>6, <1>7, <1>8, <1>9, <1>10, <1>11 DEF Next

(* The invariant of all behaviours.                                         *)
LEMMA MutexInvariant == Spec => []MutexInv
BY InitEstablishesInv, NextKeepsInv, PTL DEF Spec

(* The claims, assignments and messages of MutexGroups keep their types, for  *)
(* any robots, groups and claims.                                           *)
THEOREM MutexTypes == Spec => []TypeOK
<1>1. MutexInv => TypeOK
  BY DEF MutexInv
<1> QED BY <1>1, MutexInvariant, PTL

(* Whatever is released, expires or is resolved, a group is assigned to one  *)
(* of its claimants, and to nobody only when there is none.                 *)
THEOREM GroupsGoToClaimants == Spec => []AssignedToAClaimant
<1>1. MutexInv => AssignedToAClaimant
  BY DEF MutexInv
<1> QED BY <1>1, MutexInvariant, PTL
-----------------------------------------------------------------------------
(* What a robot waits for                                                   *)

(* Whatever says that a group is assigned says since when.                  *)
HaveTimes(states) ==
  \A g \in Groups : states[g].claimant # Unclaimed => states[g].time # NoTime

StatesHaveTimes ==
  /\ HaveTimes(assigned)
  /\ \A r \in Robots : \A i \in DOMAIN to_robot[r] : HaveTimes(to_robot[r][i])

(* A robot that waits lacks something, has locked the rest of what it wants, *)
(* and asks for what it lacks.                                              *)
Waits(asked, lock, want, lack) ==
  /\ want # {} => lack # {}
  /\ lack \subseteq want
  /\ lack \subseteq Has(asked)
  /\ want \ lack \subseteq Has(lock)

WaitsWell(r) == Waits(requesting[r], locked[r], wanted[r], remaining[r])

WaitInv == MutexInv /\ StatesHaveTimes /\ \A r \in Robots : WaitsWell(r)

(* A claim that is picked has a time.                                       *)
LEMMA PickedHasTime ==
  ASSUME NEW c \in Claims, NEW g \in Groups, Picked(c, g).claimant # Unclaimed
  PROVE  Picked(c, g).time # NoTime
<1>1. Claimants(c, g) # {}
  BY PickedIsAClaimant
<1>2. Picked(c, g).claimant \in Claimants(c, g)
  BY <1>1, PickedIsAClaimant
<1>3. Picked(c, g).time = c[g][Picked(c, g).claimant]
  BY <1>1 DEF Picked
<1> QED BY <1>2, <1>3 DEF Claimants

(* What is assigned in a step was assigned before, or is picked from the     *)
(* claims after it; what is published is what is assigned after it.         *)
AssignsPicked ==
  /\ claims' \in Claims
  /\ \A g \in Groups : assigned'[g] = assigned[g] \/ assigned'[g] = Picked(claims', g)

LEMMA PickedStatesHaveTimes ==
  ASSUME WaitInv, AssignsPicked
  PROVE  HaveTimes(assigned')
<1>1. ASSUME NEW g \in Groups, assigned'[g].claimant # Unclaimed
      PROVE  assigned'[g].time # NoTime
  <2>1. CASE assigned'[g] = assigned[g]
    BY <1>1, <2>1 DEF WaitInv, StatesHaveTimes, HaveTimes
  <2>2. CASE assigned'[g] = Picked(claims', g)
    BY <1>1, <2>2, PickedHasTime DEF AssignsPicked
  <2> QED BY <2>1, <2>2 DEF AssignsPicked
<1> QED BY <1>1 DEF HaveTimes

LEMMA PublishedStatesHaveTimes ==
  ASSUME WaitInv, HaveTimes(assigned'), to_robot' = to_robot \/ to_robot' = Published(assigned'),
         assigned' \in States
  PROVE  StatesHaveTimes'
<1>1. ASSUME NEW r \in Robots, NEW i \in DOMAIN to_robot'[r]
      PROVE  HaveTimes(to_robot'[r][i])
  <2>1. CASE to_robot' = to_robot
    BY <2>1 DEF WaitInv, StatesHaveTimes
  <2>2. CASE to_robot' = Published(assigned')
    <3>1. to_robot'[r] = Append(to_robot[r], assigned') /\ to_robot[r] \in Seq(States)
      BY <2>2 DEF Published, WaitInv, MutexInv, TypeOK
    <3>2. /\ i \in 1..(Len(to_robot[r]) + 1) /\ Len(to_robot[r]) \in Nat
          /\ DOMAIN to_robot[r] = 1..Len(to_robot[r])
          /\ to_robot'[r][Len(to_robot[r]) + 1] = assigned'
          /\ \A j \in 1..Len(to_robot[r]) : to_robot'[r][j] = to_robot[r][j]
      BY <3>1, AppendProperties, LenProperties
    <3>3. CASE i = Len(to_robot[r]) + 1
      BY <3>2, <3>3
    <3>4. CASE i \in 1..Len(to_robot[r])
      BY <3>2, <3>4 DEF WaitInv, StatesHaveTimes
    <3> QED BY <3>2, <3>3, <3>4
  <2> QED BY <2>1, <2>2
<1> QED BY <1>1 DEF StatesHaveTimes, HaveTimes

(* The supervisor's steps change nothing of what robots wait for.           *)
LEMMA RequestKeepsStates ==
  ASSUME WaitInv, NEW r \in Robots, HandleRequest(r)
  PROVE  StatesHaveTimes'
<1> DEFINE m == Head(to_supervisor[r])
<1>1. m \in Message
  <2>1. to_supervisor[r] \in Seq(Message) /\ to_supervisor[r] # << >>
    BY DEF WaitInv, MutexInv, TypeOK, HandleRequest
  <2> QED BY <2>1, HeadTailProperties
<1>2. MutexInv'
  BY HandleRequestKeepsInv DEF WaitInv
<1>3. claims' \in Claims /\ assigned' \in States /\ assigned \in States
  BY <1>2 DEF WaitInv, MutexInv, TypeOK, Claims
<1>4. \A g \in Groups : assigned'[g] = assigned[g] \/ assigned'[g] = Picked(claims', g)
  <2>1. CASE Release(r, m)
    BY <1>1, <1>3, <2>1 DEF Release, States
  <2>2. CASE Lock(r, m)
    <3> DEFINE c == [claims EXCEPT ![m.group][r] = m.time]
    <3>1. CASE CheckForConflicts(c)
      <4> HIDE DEF c
      <4> QED BY <3>1 DEF CheckForConflicts
    <3>2. CASE assigned' = [assigned EXCEPT ![m.group] = Picked(claims', m.group)]
      BY <1>3, <3>2 DEF States
    <3>3. CheckForConflicts(c) \/ assigned' = [assigned EXCEPT ![m.group] = Picked(claims', m.group)]
      <4>1. \/ \E d \in {c} : CheckForConflicts(d)
            \/ assigned' = [assigned EXCEPT ![m.group] = Picked(claims', m.group)]
        BY <2>2 DEF Lock
      <4> HIDE DEF c
      <4> QED BY <4>1
    <3> QED BY <3>1, <3>2, <3>3
  <2> QED BY <2>1, <2>2 DEF HandleRequest
<1>5. HaveTimes(assigned')
  BY <1>3, <1>4, PickedStatesHaveTimes, SMTT(30) DEF AssignsPicked
<1>6. to_robot' = to_robot \/ to_robot' = Published(assigned')
  BY Zenon DEF HandleRequest, Release, Lock
<1> QED BY <1>3, <1>5, <1>6, PublishedStatesHaveTimes

LEMMA HeartbeatKeepsStates ==
  ASSUME WaitInv, NEW expired \in SUBSET Stale, DoHeartbeat(expired)
  PROVE  StatesHaveTimes'
<1>1. MutexInv'
  BY HeartbeatKeepsInv DEF WaitInv
<1>2. claims' \in Claims /\ assigned' \in States
  BY <1>1 DEF MutexInv, TypeOK, Claims
<1>3. ASSUME NEW g \in Groups
      PROVE  assigned'[g] = assigned[g] \/ assigned'[g] = Picked(claims', g)
  BY DEF DoHeartbeat
<1>4. HaveTimes(assigned')
  BY <1>2, <1>3, PickedStatesHaveTimes DEF AssignsPicked
<1> QED BY <1>2, <1>4, PublishedStatesHaveTimes DEF DoHeartbeat

(* A step of a robot leaves the other robots' waits alone.                  *)
LEMMA OthersWaitOn ==
  ASSUME WaitInv, NEW r \in Robots, WaitsWell(r)',
         \A s \in Robots \ {r} :
           /\ requesting'[s] = requesting[s] /\ locked'[s] = locked[s]
           /\ wanted'[s] = wanted[s] /\ remaining'[s] = remaining[s]
  PROVE  \A s \in Robots : WaitsWell(s)'
<1>1. \A s \in Robots \ {r} : WaitsWell(s)'
  BY DEF WaitInv, WaitsWell
<1> QED BY <1>1

(* It publishes no states, and may take some off its channel.               *)
LEMMA StatesStay ==
  ASSUME WaitInv, assigned' = assigned, NEW r \in Robots,
         \/ to_robot' = to_robot
         \/ to_robot[r] # << >> /\ to_robot' = [to_robot EXCEPT ![r] = Tail(@)]
  PROVE  StatesHaveTimes'
<1>1. CASE to_robot' = to_robot
  BY <1>1 DEF WaitInv, StatesHaveTimes, HaveTimes
<1>2. CASE to_robot[r] # << >> /\ to_robot' = [to_robot EXCEPT ![r] = Tail(@)]
  <2>1. to_robot[r] \in Seq(States) /\ to_robot'[r] = Tail(to_robot[r])
        /\ \A s \in Robots \ {r} : to_robot'[s] = to_robot[s]
    BY <1>2 DEF WaitInv, MutexInv, TypeOK
  <2>2. \A i \in DOMAIN Tail(to_robot[r]) :
          /\ i + 1 \in DOMAIN to_robot[r] /\ Tail(to_robot[r])[i] = to_robot[r][i + 1]
    BY <1>2, <2>1, HeadTailProperties, LenProperties
  <2>3. \A i \in DOMAIN to_robot'[r] : HaveTimes(to_robot'[r][i])
    BY <2>1, <2>2 DEF WaitInv, StatesHaveTimes
  <2>4. \A s \in Robots : \A i \in DOMAIN to_robot'[s] : HaveTimes(to_robot'[s][i])
    BY <2>1, <2>3 DEF WaitInv, StatesHaveTimes
  <2>5. HaveTimes(assigned')
    BY DEF WaitInv, StatesHaveTimes
  <2> QED BY <2>4, <2>5 DEF StatesHaveTimes, HaveTimes
<1> QED BY <1>1, <1>2

(* A claim asks for everything it lacks, at a time.                         *)
LEMMA ClaimWaits ==
  ASSUME WaitInv, NEW r \in Robots, NEW groups \in Wishes[r], NEW time \in Times,
         Claim(r, groups, time)
  PROVE  \A s \in Robots : WaitsWell(s)'
<1> DEFINE left == groups \ Has(locked[r])
<1>1. groups \subseteq Groups /\ groups # {} /\ time # NoTime
  BY TimesAreNumbers, MutexAssumption DEF MutexAssumption
<1>2. /\ requesting \in [Robots -> [Groups -> TimeOrNone]] /\ wanted \in [Robots -> SUBSET Groups]
      /\ remaining \in [Robots -> SUBSET Groups] /\ inside \in [Robots -> SUBSET Groups]
      /\ WaitsWell(r)
  BY DEF WaitInv, MutexInv, TypeOK
<1>3. locked' = locked /\ wanted[r] = {}
  BY DEF Claim
<1>4. CASE /\ left = {}
           /\ inside' = [inside EXCEPT ![r] = @ \cup groups]
           /\ UNCHANGED <<requesting, wanted, remaining>>
  <2>1. WaitsWell(r)'
    BY <1>2, <1>3, <1>4 DEF WaitsWell, Waits
  <2> QED BY <1>2, <1>3, <1>4, <2>1, OthersWaitOn
<1>5. CASE /\ left # {}
           /\ wanted' = [wanted EXCEPT ![r] = groups]
           /\ remaining' = [remaining EXCEPT ![r] = left]
           /\ requesting' = [requesting EXCEPT ![r] = Requested(r, groups, time)]
           /\ UNCHANGED inside
  <2>1. groups \subseteq Has(Requested(r, groups, time))
    BY <1>1 DEF Requested, Has
  <2>2. /\ requesting'[r] = Requested(r, groups, time) /\ wanted'[r] = groups
        /\ remaining'[r] = left /\ inside'[r] = inside[r] /\ locked'[r] = locked[r]
    BY <1>2, <1>3, <1>5
  <2>3. WaitsWell(r)'
    BY <1>2, <1>5, <2>1, <2>2 DEF WaitsWell, Waits
  <2> QED BY <1>2, <1>3, <1>5, <2>3, OthersWaitOn
<1> QED BY <1>4, <1>5 DEF Claim

(* What is granted is locked from now on; who lacks nothing more goes on.   *)
LEMMA OnStatesWaits ==
  ASSUME WaitInv, NEW r \in Robots, OnStates(r)
  PROVE  \A s \in Robots : WaitsWell(s)'
<1> DEFINE states == Head(to_robot[r])
           granted == AssignedTo(r, states) \cap Has(requesting[r])
<1>1. states \in States /\ HaveTimes(states)
  <2>1. to_robot[r] \in Seq(States) /\ to_robot[r] # << >>
    BY DEF WaitInv, MutexInv, TypeOK, OnStates
  <2>2. 1 \in DOMAIN to_robot[r] /\ states = to_robot[r][1] /\ states \in States
    BY <2>1, HeadTailProperties, LenProperties
  <2> QED BY <2>2 DEF WaitInv, StatesHaveTimes
<1>2. granted \subseteq Groups /\ \A g \in granted : states[g].time # NoTime
  BY <1>1, MutexAssumption DEF AssignedTo, HaveTimes, MutexAssumption
<1>3. /\ requesting' = [requesting EXCEPT ![r] =
           [g \in Groups |-> IF g \in granted THEN NoTime ELSE @[g]]]
      /\ locked' = [locked EXCEPT ![r] =
           [g \in Groups |-> IF g \in granted THEN states[g].time ELSE @[g]]]
      /\ OnLocked(r, granted)
  BY DEF OnStates
<1> HIDE DEF states, granted
<1>4. /\ requesting \in [Robots -> [Groups -> TimeOrNone]]
      /\ locked \in [Robots -> [Groups -> TimeOrNone]] /\ wanted \in [Robots -> SUBSET Groups]
      /\ remaining \in [Robots -> SUBSET Groups] /\ inside \in [Robots -> SUBSET Groups]
      /\ WaitsWell(r)
  BY DEF WaitInv, MutexInv, TypeOK
<1>5. Has(requesting'[r]) = Has(requesting[r]) \ granted
  BY <1>3, <1>4 DEF Has
<1>6. Has(locked'[r]) = Has(locked[r]) \cup granted
  BY <1>2, <1>3, <1>4 DEF Has
<1>7. remaining'[r] = remaining[r] \ granted
  BY <1>3, <1>4 DEF OnLocked
<1>8. WaitsWell(r)'
  <2>1. CASE remaining[r] # {} /\ remaining[r] \ granted = {}
    <3>1. wanted'[r] = {} /\ (inside'[r] = inside[r] \/ inside'[r] = inside[r] \cup wanted[r])
      BY <1>3, <1>4, <2>1 DEF OnLocked
    <3> QED BY <1>4, <1>5, <1>6, <1>7, <2>1, <3>1 DEF WaitsWell, Waits
  <2>2. CASE ~(remaining[r] # {} /\ remaining[r] \ granted = {})
    <3>1. wanted'[r] = wanted[r] /\ inside'[r] = inside[r]
      BY <1>3, <1>4, <2>2 DEF OnLocked
    <3> QED BY <1>4, <1>5, <1>6, <1>7, <2>2, <3>1 DEF WaitsWell, Waits
  <2> QED BY <2>1, <2>2
<1>9. \A s \in Robots \ {r} :
        /\ requesting'[s] = requesting[s] /\ locked'[s] = locked[s]
        /\ wanted'[s] = wanted[s] /\ remaining'[s] = remaining[s]
  BY <1>3, <1>4 DEF OnLocked
<1> QED BY <1>8, <1>9, OthersWaitOn

(* A robot that does not wait may release anything.                         *)
LEMMA ReleaseWaits ==
  ASSUME WaitInv, NEW r \in Robots, NEW keep, ReleaseAllBut(r, keep), wanted[r] = {}
  PROVE  \A s \in Robots : WaitsWell(s)'
<1>1. /\ requesting \in [Robots -> [Groups -> TimeOrNone]]
      /\ locked \in [Robots -> [Groups -> TimeOrNone]] /\ wanted \in [Robots -> SUBSET Groups]
      /\ remaining \in [Robots -> SUBSET Groups] /\ inside \in [Robots -> SUBSET Groups]
      /\ WaitsWell(r)
  BY DEF WaitInv, MutexInv, TypeOK
<1>2. /\ requesting' = [requesting EXCEPT ![r] = Kept(requesting[r], keep)]
      /\ locked' = [locked EXCEPT ![r] = Kept(locked[r], keep)]
      /\ wanted' = wanted /\ remaining' = remaining
  BY DEF ReleaseAllBut
<1>3. WaitsWell(r)'
  BY <1>1, <1>2 DEF WaitsWell, Waits
<1> QED BY <1>1, <1>2, <1>3, OthersWaitOn

(* A wait that ends, by a cancellation or a restart, leaves nothing behind. *)
LEMMA CancelWaits ==
  ASSUME WaitInv, NEW r \in Robots, Cancel(r)
  PROVE  \A s \in Robots : WaitsWell(s)'
<1>1. WaitsWell(r)'
  BY DEF Cancel, WaitInv, MutexInv, TypeOK, WaitsWell, Waits
<1> QED BY <1>1, OthersWaitOn DEF Cancel, WaitInv, MutexInv, TypeOK

LEMMA RestartWaits ==
  ASSUME WaitInv, NEW r \in Robots, Restart(r)
  PROVE  \A s \in Robots : WaitsWell(s)'
<1>1. WaitsWell(r)'
  BY DEF Restart, WaitInv, MutexInv, TypeOK, WaitsWell, Waits
<1> QED BY <1>1, OthersWaitOn DEF Restart, WaitInv, MutexInv, TypeOK

(* Every action keeps the waits in order, as long as no operator releases    *)
(* groups of a robot that waits.                                            *)
LEMMA NextKeepsWaits ==
  ASSUME Manual = FALSE, WaitInv, [Next]_vars
  PROVE  WaitInv'
<1>0. MutexInv'
  BY NextKeepsInv DEF WaitInv
<1>1. ASSUME UNCHANGED robotVars PROVE \A s \in Robots : WaitsWell(s)'
  BY <1>1 DEF WaitInv, WaitsWell, robotVars
<1>2. CASE UNCHANGED vars
  <2>1. UNCHANGED robotVars /\ StatesHaveTimes'
    BY <1>2 DEF vars, supervisorVars, robotVars, WaitInv, StatesHaveTimes, HaveTimes
  <2> QED BY <1>0, <1>1, <2>1 DEF WaitInv
<1>3. ASSUME NEW r \in Robots, HandleRequest(r) PROVE WaitInv'
  BY <1>0, <1>1, <1>3, RequestKeepsStates DEF HandleRequest, WaitInv
<1>4. ASSUME NEW r \in Robots, NEW groups \in Wishes[r], NEW time \in Times,
             Claim(r, groups, time)
      PROVE  WaitInv'
  <2>1. assigned' = assigned /\ to_robot' = to_robot
    BY <1>4 DEF Claim, supervisorVars
  <2> QED BY <1>0, <1>4, <2>1, StatesStay, ClaimWaits DEF WaitInv
<1>5. ASSUME NEW r \in Robots, Heartbeat(r) PROVE WaitInv'
  <2>1. assigned' = assigned /\ to_robot' = to_robot /\ UNCHANGED robotVars
    BY <1>5 DEF Heartbeat, supervisorVars
  <2> QED BY <1>0, <1>1, <2>1, StatesStay DEF WaitInv
<1>6. ASSUME NEW r \in Robots, OnStates(r) PROVE WaitInv'
  <2>1. assigned' = assigned /\ to_robot[r] # << >> /\ to_robot' = [to_robot EXCEPT ![r] = Tail(@)]
    BY <1>6 DEF OnStates, supervisorVars
  <2> QED BY <1>0, <1>6, <2>1, StatesStay, OnStatesWaits DEF WaitInv
<1>7. ASSUME NEW r \in Robots, NEW keep, ReleaseAllBut(r, keep), wanted[r] = {}
      PROVE  WaitInv'
  <2>1. assigned' = assigned /\ to_robot' = to_robot
    BY <1>7 DEF ReleaseAllBut, supervisorVars
  <2> QED BY <1>0, <1>7, <2>1, StatesStay, ReleaseWaits DEF WaitInv
<1>8. ASSUME NEW r \in Robots, NEW keep \in SUBSET Groups, MoveOn(r, keep) PROVE WaitInv'
  BY <1>7, <1>8 DEF MoveOn, Retain
<1>9. ASSUME NEW r \in Robots, NEW groups \in SUBSET Groups, ManualRelease(r, groups)
      PROVE  WaitInv'
  BY <1>7, <1>9 DEF ManualRelease, Retain
<1>10. ASSUME NEW r \in Robots, Cancel(r) PROVE WaitInv'
  <2>1. assigned' = assigned /\ to_robot' = to_robot
    BY <1>10 DEF Cancel, supervisorVars
  <2> QED BY <1>0, <1>10, <2>1, StatesStay, CancelWaits DEF WaitInv
<1>11. ASSUME NEW r \in Robots, Restart(r) PROVE WaitInv'
  <2>1. assigned' = assigned /\ to_robot' = to_robot
    BY <1>11 DEF Restart, supervisorVars
  <2> QED BY <1>0, <1>11, <2>1, StatesStay, RestartWaits DEF WaitInv
<1>12. ASSUME NEW expired \in SUBSET Stale, DoHeartbeat(expired) PROVE WaitInv'
  BY <1>0, <1>1, <1>12, HeartbeatKeepsStates DEF DoHeartbeat, WaitInv
<1>13. ASSUME NEW r \in Robots, IdleRelease(r) PROVE WaitInv'
  BY <1>7, <1>13 DEF IdleRelease
<1> QED BY <1>2, <1>3, <1>4, <1>5, <1>6, <1>8, <1>9, <1>10, <1>11, <1>12, <1>13 DEF Next

(* At first nobody waits.                                                   *)
LEMMA InitEstablishesWaits == Init => WaitInv
<1> SUFFICES ASSUME Init PROVE WaitInv
  OBVIOUS
<1>1. StatesHaveTimes
  BY DEF Init, NothingAssigned, StatesHaveTimes, HaveTimes
<1>2. \A r \in Robots : WaitsWell(r)
  BY DEF Init, WaitsWell, Waits
<1> QED BY <1>1, <1>2, InitEstablishesInv DEF WaitInv

(* A robot that waits is still asking for all it waits for, through late     *)
(* states, cancellations, releases of idle robots and restarts.  Only an    *)
(* operator who releases groups of a robot that waits can take a request     *)
(* away from it.                                                            *)
THEOREM WaitersKeepAsking ==
  ASSUME Manual = FALSE
  PROVE  Spec => []AsksForWhatItLacks
<1>1. WaitInv => AsksForWhatItLacks
  BY DEF WaitInv, WaitsWell, Waits, AsksForWhatItLacks
<1>2. WaitInv /\ [Next]_vars => WaitInv'
  BY NextKeepsWaits
<1> QED BY <1>1, <1>2, InitEstablishesWaits, PTL DEF Spec

NoClaimOfAWaitIsStale == \A r \in Robots : \A g \in wanted[r] : <<g, r>> \notin Stale

(* While a robot waits, it repeats its claims to all groups of the wait,      *)
(* those it has locked already among them: no heartbeat of the supervisor     *)
(* finds one of them stale, so that half of a set is never lost by silence.   *)
THEOREM ClaimsOfAWaitStay ==
  ASSUME Manual = FALSE
  PROVE  Spec => []NoClaimOfAWaitIsStale
<1>1. WaitInv => NoClaimOfAWaitIsStale
  BY DEF WaitInv, WaitsWell, Waits, NoClaimOfAWaitIsStale, Stale, Repeats, Has
<1>2. WaitInv /\ [Next]_vars => WaitInv'
  BY NextKeepsWaits
<1> QED BY <1>1, <1>2, InitEstablishesWaits, PTL DEF Spec

=============================================================================
