------------------------------ MODULE Blockade -------------------------------
(***************************************************************************)
(* The traffic blockade: robots that follow fixed paths (traffic lights of  *)
(* EasyTrafficLight) and the Moderator, which assigns each of them a range  *)
(* of its checkpoints so that no two robots get to a place where their paths *)
(* conflict, and so that they do not wait for each other in a ring.         *)
(*                                                                         *)
(* Where paths conflict is geometry, and given as a constant; the paths do   *)
(* not run along each other (no alignments).  Every robot has one path, and *)
(* calls the moderator directly, as in the library without ROS.             *)
(***************************************************************************)
EXTENDS BlockadeConstraints, SequencesExt

CONSTANTS
  Robots,
  CanHoldAt,       (* per robot, for each of its checkpoints from 0, can_hold  *)
  Conflicts,       (* the segments that conflict: [a, b, A, B], brackets A of  *)
                   (* robot a and B of robot b                                *)
  SearchOrders,    (* orders in which the unordered maps of the search for     *)
                   (* gridlocks may be iterated: of pairs robot, checkpoint    *)
  Dependent,       (* per robot, the checkpoints whose dependencies may change *)
  ReleaseLimit     (* bound of the model: how often they change               *)

Size(r) == Cardinality(DOMAIN CanHoldAt[r])
Checkpoints == UNION {DOMAIN CanHoldAt[r] : r \in Robots}
Node == Robots \X Checkpoints
Range0 == [begin |-> 0, end |-> 0]

ASSUME BlockadeAssumption ==
  /\ IsFiniteSet(Robots)
  /\ \A r \in Robots : Size(r) \in Nat \ {0, 1} /\ DOMAIN CanHoldAt[r] = 0..(Size(r) - 1)
  /\ \A c \in Conflicts : /\ c.a \in Robots /\ c.b \in Robots \ {c.a}
                          /\ {c.A, c.B} \subseteq Bracket
                          /\ c.A.finish = c.A.start + 1 /\ c.B.finish = c.B.start + 1
                          /\ c.A.finish < Size(c.a) /\ c.B.finish < Size(c.b)
  /\ ReleaseLimit \in Nat

VARIABLES
  moderator,   (* the Moderator: known, blockers, loops, ranges, queue, last_ready, *)
               (* last_reached                                             *)
  phase,       (* per robot: "off", "driving" or "idle"                    *)
  position,    (* per robot: 2c at checkpoint c, 2c + 1 between c and c + 1  *)
  cleared,     (* per robot, whether it may leave the checkpoint it is at or    *)
               (* comes to                                                 *)
  releases     (* how often a robot released a checkpoint                 *)

vars == <<moderator, phase, position, cleared, releases>>

Init ==
  /\ moderator = [known |-> {},
                  blockers |-> [r \in Robots |-> [s \in Robots |-> {}]],
                  loops |-> {},
                  ranges |-> [r \in Robots |-> Range0],
                  queue |-> << >>,
                  last_ready |-> [r \in Robots |-> NoPoint],
                  last_reached |-> [r \in Robots |-> 0]]
  /\ phase = [r \in Robots |-> "off"]
  /\ position = [r \in Robots |-> 0]
  /\ cleared = [r \in Robots |-> FALSE]
  /\ releases = 0

-----------------------------------------------------------------------------
(* Brackets and blockers of two paths                                       *)

(* The conflicts of r with s, r first, in the order of the multimap.        *)
ConflictPairs(r, s) ==
  LET pairs == {[A |-> Expanded(c.A, CanHoldAt[r]), B |-> Expanded(c.B, CanHoldAt[s]),
                 at |-> <<c.A.start, c.B.start>>] :
                c \in {d \in Conflicts : d.a = r /\ d.b = s} \cup
                      {[a |-> d.b, b |-> d.a, A |-> d.B, B |-> d.A] :
                       d \in {d \in Conflicts : d.a = s /\ d.b = r}}}
  IN  SetToSortSeq(pairs, LAMBDA p, q :
        \/ p.A.start < q.A.start
        \/ p.A.start = q.A.start /\ p.at[1] < q.at[1]
        \/ p.A.start = q.A.start /\ p.at[1] = q.at[1] /\ p.at[2] < q.at[2])

Joined(pair0, pair1) == [pair0 EXCEPT !.A = Merged(@, pair1.A), !.B = Merged(@, pair1.B)]
Joinable(pair0, pair1) == CanMerge(pair0.A, pair1.A) /\ CanMerge(pair0.B, pair1.B)

(* The first pair takes in what it can merge with and goes back into the    *)
(* multimap, until it finds nothing more.                                   *)
Pair == [A : Bracket, B : Bracket, at : Nat \X Nat]
FinalConflicts[pairs \in Seq(Pair)] ==
  IF pairs = << >> THEN << >>
  ELSE LET result == FoldLeft(LAMBDA acc, p :
             IF Joinable(acc.pair, p) THEN [acc EXCEPT !.pair = Joined(@, p)]
             ELSE [acc EXCEPT !.rest = Append(@, p)],
             [pair |-> Head(pairs), rest |-> << >>], Tail(pairs))
           before(p) == p.A.start <= result.pair.A.start
       IN  IF Len(result.rest) = Len(pairs) - 1
           THEN <<result.pair>> \o FinalConflicts[result.rest]
           ELSE FinalConflicts[SelectSeq(result.rest, before) \o <<result.pair>> \o
                               SelectSeq(result.rest, LAMBDA p : ~before(p))]

(* compute_blockers: of several conflicts to be entered from one checkpoint *)
(* the first one counts.                                                    *)
FirstOfEach(blockers) ==
  {blockers[i] : i \in {i \in DOMAIN blockers :
     \A j \in 1..(i - 1) : blockers[j].from # blockers[i].from}}

(* The constraints of r, whose path is set, and of another robot s.         *)
Blockers(r, s) ==
  LET final == FinalConflicts[ConflictPairs(r, s)]
  IN  [of |-> FirstOfEach([i \in DOMAIN final |->
                Blocker(final[i].A, Size(r), final[i].B, Size(s), s)]),
       by |-> FirstOfEach([i \in DOMAIN final |->
                Blocker(final[i].B, Size(s), final[i].A, Size(r), r)])]
PeerBlockers == [r \in Robots |-> [s \in Robots \ {r} |-> Blockers(r, s)]]

-----------------------------------------------------------------------------
(* Gridlocks                                                                *)

Constraints(blockers, r, c) == {b \in UNION {blockers[r][s] : s \in Robots} : b.from = c}

Go(blockers, ranges, r, c) ==
  \A b \in Constraints(blockers, r, c) : Satisfied(b, ranges[b.blocked_by])

(* A robot that holds at the checkpoint of node keeps that of next from going. *)
Blocks(blockers, node, next) ==
  \E b \in Constraints(blockers, next[1], next[2]) :
    b.blocked_by = node[1] /\ ~Satisfied(b, [begin |-> node[2], end |-> node[2]])

(* compute_gridlock_constraint: a depth-first search; each entry of the     *)
(* stack is the chain of nodes that leads to it.                            *)
Expand(blockers, order, search) ==
  LET chain == Last(search.stack)
      next == SelectSeq(order, LAMBDA n : Blocks(blockers, Last(chain), n))
      new == SelectSeq(next, LAMBDA n : n \notin Range(chain))
      loop(n) == {chain[i] : i \in {i \in DOMAIN chain : \E j \in 1..i : chain[j] = n}}
  IN  IF Last(chain) \in search.expanded THEN [search EXCEPT !.stack = Front(@)]
      ELSE [stack |-> Front(search.stack) \o [i \in DOMAIN new |-> Append(chain, new[i])],
            expanded |-> search.expanded \cup {Last(chain)},
            loops |-> search.loops \cup {loop(n) : n \in Range(next) \cap Range(chain)}]

Search == [stack : Seq(Seq(Node)), expanded : SUBSET Node, loops : SUBSET (SUBSET Node)]
Loops(blockers, order, start) ==
  LET found[search \in Search] ==
        IF search.stack = << >> THEN search.loops ELSE found[Expand(blockers, order, search)]
  IN  found[start]

GridlockLoops(blockers, order) ==
  LET nodes == SelectSeq(order, LAMBDA n : Constraints(blockers, n[1], n[2]) # {})
  IN  Loops(blockers, nodes, [stack |-> [i \in DOMAIN nodes |-> <<nodes[i]>>],
                              expanded |-> {}, loops |-> {}])

(* One robot of every loop can still go.                                    *)
HasGridlock(m, ranges) ==
  \E loop \in m.loops : \A n \in loop : ~Go(m.blockers, ranges, n[1], n[2])

-----------------------------------------------------------------------------
(* The moderator                                                            *)

(* Mutant: a range is assigned though it completes a ring.                  *)
AcceptableInRing(m, r, end) ==
  LET ranges == [m.ranges EXCEPT ![r].end = end]
  IN  \A c \in ranges[r].begin..(end - 1) : Go(m.blockers, ranges, r, c)

Acceptable(m, r, end) ==
  LET ranges == [m.ranges EXCEPT ![r].end = end]
  IN  \A c \in ranges[r].begin..(end - 1) :
        Constraints(m.blockers, r, c) = {} \/
        (Go(m.blockers, ranges, r, c) /\ ~HasGridlock(m, ranges))

(* check_reservation: the ends that the i-th of the queue may be given.      *)
Ends(m, i) ==
  LET r == m.queue[i].robot
  IN  {end \in (m.ranges[r].end + 1)..(m.queue[i].checkpoint + 1) : Acceptable(m, r, end)}

Finished(m, i) ==
  m.queue[i].robot \notin m.known \/ m.queue[i].checkpoint < m.ranges[m.queue[i].robot].end

(* The first of the queue that can get anything gets as much as it can, and *)
(* leaves the queue when it has all it is ready for.                        *)
Served(m) ==
  LET i == Min({i \in DOMAIN m.queue : Finished(m, i) \/ Ends(m, i) # {}})
      r == m.queue[i].robot
  IN  IF Finished(m, i) THEN [m EXCEPT !.queue = RemoveAt(@, i)]
      ELSE [m EXCEPT !.ranges[r].end = Max(Ends(m, i))]

(* process_ready_queue, which is over when nothing of the queue can be       *)
(* served: every iteration shortens the queue or moves the end of a range.   *)
(* (What was reached is bound by a set so that TLC evaluates it once.)       *)
Iteration(it) ==
  IF it.over THEN it
  ELSE IF \E i \in DOMAIN it.m.queue : Finished(it.m, i) \/ Ends(it.m, i) # {}
       THEN [m |-> Served(it.m), over |-> FALSE]
       ELSE [m |-> it.m, over |-> TRUE]

Processed(start) ==
  LET iteration[n \in Nat] ==
        IF n = 0 THEN [m |-> start, over |-> FALSE]
        ELSE CHOOSE it \in {Iteration(before) : before \in {iteration[n - 1]}} : TRUE
  IN  iteration[Len(start.queue) + Cardinality(Robots) * Cardinality(Checkpoints) + 1].m

WithSet(m, r, order) ==
  LET others == m.known
      blockers == [p \in Robots |-> [q \in Robots |->
        CASE p = r -> IF q \in others THEN PeerBlockers[r][q].of ELSE {}
          [] q = r /\ p \in others -> PeerBlockers[r][p].by
          [] OTHER -> m.blockers[p][q]]]
  IN  Processed([m EXCEPT !.known = @ \cup {r}, !.blockers = blockers,
                          !.loops = GridlockLoops(blockers, order),
                          !.ranges[r] = Range0, !.last_ready[r] = NoPoint,
                          !.last_reached[r] = 0])

WithReady(m, r, checkpoint) ==
  IF checkpoint <= m.last_ready[r] THEN m
  ELSE Processed([m EXCEPT !.last_ready[r] = checkpoint,
                           !.queue = Append(@, [robot |-> r, checkpoint |-> checkpoint])])

(* Mutant: the robot still counts as ready.                                 *)
WithReleaseStillReady(m, r, checkpoint) ==
  Processed([m EXCEPT !.ranges[r].end = Min({@, checkpoint})])

(* A robot is told to wait at a checkpoint again.  What it was ready for     *)
(* beyond is still ready in the queue, up to the checkpoint itself.  At its  *)
(* first checkpoint it is ready for nothing more: entries for no checkpoint *)
(* are finished, and leave the queue when it is processed.                  *)
WithRelease(m, r, checkpoint) ==
  LET from == Max({checkpoint, m.last_reached[r]})
      ready(c) == IF from > 0 THEN Min({c, from}) ELSE NoPoint
      entry(e) == IF e.robot = r THEN [e EXCEPT !.checkpoint = ready(@)] ELSE e
  IN  Processed([m EXCEPT !.last_ready[r] = from - 1,
                          !.ranges[r].end = Min({m.ranges[r].end, from}),
                          !.queue = [i \in DOMAIN m.queue |-> entry(m.queue[i])]])

WithReached(m, r, checkpoint) ==
  IF checkpoint <= m.last_reached[r] THEN m
  ELSE Processed([m EXCEPT !.last_reached[r] = checkpoint, !.ranges[r].begin = checkpoint])

WithCancel(m, r, order) ==
  LET blockers == [p \in Robots |-> [q \in Robots |->
        IF r \in {p, q} THEN {} ELSE m.blockers[p][q]]]
  IN  Processed([m EXCEPT !.known = @ \ {r}, !.blockers = blockers,
                          !.loops = GridlockLoops(blockers, order),
                          !.ranges[r] = Range0, !.last_ready[r] = NoPoint,
                          !.last_reached[r] = 0])

-----------------------------------------------------------------------------
(* The robots                                                               *)

FollowNewPath(r) ==
  /\ phase[r] = "off"
  /\ phase' = [phase EXCEPT ![r] = "driving"]
  /\ \E order \in SearchOrders : moderator' = WithSet(moderator, r, order)
  /\ UNCHANGED <<position, cleared, releases>>

(* update_location: where the robot is, at or after checkpoint c.           *)
Located(r, c) == WithReached(moderator, r, c)

(* Mutant: the last checkpoint counts as one to depart from.                *)
CheckIfReadyAtLast(m, r, c) ==
  /\ cleared' = [cleared EXCEPT ![r] = c < m.ranges[r].end]
  /\ moderator' = IF c < m.ranges[r].end THEN m ELSE WithReady(m, r, c)

(* check_if_ready: may robot r leave checkpoint c; if not it gets ready, the *)
(* last checkpoint standing for the one before it.                          *)
CheckIfReady(m, r, c) ==
  /\ cleared' = [cleared EXCEPT ![r] = c < m.ranges[r].end]
  /\ moderator' = IF c < m.ranges[r].end THEN m
                  ELSE WithReady(m, r, Min({c, Size(r) - 2}))

(* consider_proposal: the first checkpoint of the range that the new plan    *)
(* makes depend on others who are not ready.  A plan with such a dependency *)
(* before checkpoint first is not taken.                                    *)
Releasable(m, r, first) ==
  Dependent[r] \cap (Max({first, m.ranges[r].begin})..(m.ranges[r].end - 1))

(* The robot asks whether it may leave c, its last report being that it is   *)
(* at or after the checkpoint at.                                           *)
Ask(r, at, c) ==
  /\ \E m \in {Located(r, at)} : CheckIfReady(m, r, c)
  /\ UNCHANGED <<phase, position, releases>>

AskWithNewPlan(r, at, c) ==
  /\ releases < ReleaseLimit
  /\ \E checkpoint \in Releasable(Located(r, at), r, c) :
       /\ moderator' = WithRelease(Located(r, at), r, checkpoint)
       /\ cleared' = [cleared EXCEPT ![r] = c < checkpoint]
  /\ releases' = releases + 1
  /\ UNCHANGED <<phase, position>>

WaitingAt(r) ==
  /\ phase[r] = "driving" /\ position[r] % 2 = 0
  /\ LET c == position[r] \div 2
     IN  /\ c <= moderator.ranges[r].end
         /\ Ask(r, c, c) \/ AskWithNewPlan(r, c, c)

MovingFrom(r) ==
  /\ phase[r] = "driving" /\ position[r] > 0
  /\ LET c == (position[r] - 1) \div 2
     IN  /\ c < moderator.ranges[r].end
         /\ Ask(r, c, c + 1) \/ AskWithNewPlan(r, c, c + 1)

Depart(r) ==
  /\ position[r] % 2 = 0 /\ cleared[r]
  /\ position' = [position EXCEPT ![r] = @ + 1]
  /\ cleared' = [cleared EXCEPT ![r] = FALSE]
  /\ UNCHANGED <<moderator, phase, releases>>

Arrive(r) ==
  /\ position[r] % 2 = 1
  /\ position' = [position EXCEPT ![r] = @ + 1]
  /\ UNCHANGED <<moderator, phase, cleared, releases>>

(* update_idle_location, at the end of the path.                            *)
Idle(r) ==
  /\ phase[r] = "driving" /\ position[r] = 2 * (Size(r) - 1)
  /\ phase' = [phase EXCEPT ![r] = "idle"]
  /\ cleared' = [cleared EXCEPT ![r] = FALSE]
  /\ \E order \in SearchOrders : moderator' = WithCancel(moderator, r, order)
  /\ UNCHANGED <<position, releases>>

Next ==
  \E r \in Robots : \/ FollowNewPath(r) \/ WaitingAt(r) \/ MovingFrom(r)
                    \/ Depart(r) \/ Arrive(r) \/ Idle(r)

Spec == Init /\ [][Next]_vars

(* The adapter of a robot drives it, and asks as long as it is told to wait. *)
Fairness ==
  \A r \in Robots :
    /\ WF_vars(FollowNewPath(r)) /\ WF_vars(Depart(r)) /\ WF_vars(Arrive(r)) /\ WF_vars(Idle(r))
    /\ WF_vars(WaitingAt(r))

FairSpec == Spec /\ Fairness

-----------------------------------------------------------------------------
(* What the paths must be like for the constraints to keep robots apart     *)

(* The constraint of robot r in its bracket A by robot s in B is among those *)
(* of the two, whichever of them sets its path last.                        *)
Constrained(r, A, s, B) ==
  Blocker(A, Size(r), B, Size(s), s) \in PeerBlockers[r][s].of \cap PeerBlockers[s][r].by

(* A path neither starts nor ends in the bracket.                           *)
EndsOutside(r, A) ==
  /\ ~(A.include_start /\ A.start = 0)
  /\ ~(A.include_finish /\ A.finish >= Size(r) - 1)

(* No new plan makes the robot wait at the end of a bracket that it was to   *)
(* pass.                                                                    *)
StaysPassed(r, A) == A.include_finish => A.finish \notin Dependent[r]

Guard(r, A, s, B) ==
  /\ r # s /\ Constrained(r, A, s, B) /\ Constrained(s, B, r, A)
  /\ EndsOutside(r, A) /\ EndsOutside(s, B)
  /\ StaysPassed(r, A) /\ StaysPassed(s, B)

Covers(bracket, segment) ==
  /\ bracket.start <= segment.start /\ segment.finish <= bracket.finish
  /\ bracket.start = segment.start /\ segment.include_start => bracket.include_start
  /\ bracket.finish = segment.finish /\ segment.include_finish => bracket.include_finish

BracketsOf(r) ==
  [start : DOMAIN CanHoldAt[r], finish : DOMAIN CanHoldAt[r],
   include_start : BOOLEAN, include_finish : BOOLEAN]

(* Every conflict is within brackets that have their own constraints.       *)
EveryConflictIsGuarded ==
  \A c \in Conflicts : \E A \in BracketsOf(c.a), B \in BracketsOf(c.b) :
    Covers(A, c.A) /\ Covers(B, c.B) /\ Guard(c.a, A, c.b, B)

-----------------------------------------------------------------------------
(* Properties                                                               *)

RangeOf == [begin : Checkpoints, end : Checkpoints]

(* Ranges, queue entries and what was reached are about checkpoints that     *)
(* exist, and robots are on their paths.                                    *)
OnThePaths ==
  /\ moderator.known \in SUBSET Robots
  /\ \A r \in Robots : moderator.ranges[r] \in RangeOf /\ moderator.ranges[r].end < Size(r)
  /\ \A i \in DOMAIN moderator.queue :
       moderator.queue[i].checkpoint \in 0..(Size(moderator.queue[i].robot) - 2)
  /\ moderator.last_ready \in [Robots -> Checkpoints \cup {NoPoint}]
  /\ moderator.last_reached \in [Robots -> Checkpoints]
  /\ phase \in [Robots -> {"off", "driving", "idle"}]
  /\ \A r \in Robots : position[r] \in 0..(2 * (Size(r) - 1))
  /\ cleared \in [Robots -> BOOLEAN]
  /\ releases \in 0..ReleaseLimit

(* Everything keeps its type: what is assigned, and what the searches for    *)
(* constraints and for loops find.                                          *)
TypeOK ==
  /\ OnThePaths
  /\ \A r, s \in Robots : \A b \in moderator.blockers[r][s] :
       b.from \in DOMAIN CanHoldAt[r] /\ b.blocked_by = s
  /\ moderator.loops \in SUBSET (SUBSET Node)

(* Robot r is where the bracket conflicts.                                  *)
Inside(r, bracket) == InBracket(bracket, moderator.ranges[r], position[r])

(* No two robots are where their paths conflict at once, whatever they were  *)
(* assigned, released and told meanwhile.                                   *)
NoCollision == \A c \in Conflicts : ~(Inside(c.a, c.A) /\ Inside(c.b, c.B))

(* The robots that drive never block each other in a ring: has_gridlock of   *)
(* the moderator stays false.                                               *)
NoGridlock == ~HasGridlock(moderator, moderator.ranges)

(* Every robot gets to the end of its path.                                 *)
EveryRobotArrives == \A r \in Robots : <>(phase[r] = "idle")
=============================================================================
