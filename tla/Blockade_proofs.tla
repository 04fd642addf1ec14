--------------------------- MODULE Blockade_proofs ---------------------------
(***************************************************************************)
(* Why the constraints of the traffic blockade keep two robots apart, for    *)
(* brackets and paths of any size, and that the moderator keeps them apart   *)
(* whatever it is told by any number of robots.  Ranges on which two robots  *)
(* are Apart stay so whatever the moderator assigns or a robot reaches, and  *)
(* robots within such ranges are never both in their brackets.  Then, that   *)
(* nothing is left in the queue that could be served, and that whatever is    *)
(* assigned, queued and reached is on the paths of the robots.              *)
(***************************************************************************)
EXTENDS Blockade, FiniteSetTheorems, SequenceTheorems, WellFoundedInduction, TLAPS

AssignedRange == {range \in [begin : Nat, end : Nat] : range.begin <= range.end}

(* The last checkpoint at which a robot is before its bracket.              *)
LastBefore(bracket) == IF bracket.include_start THEN bracket.start - 1 ELSE bracket.start

(* The robot has left its bracket, as the moderator sees it.                *)
HasLeft(bracket, size, range) ==
  /\ ~(bracket.include_finish /\ bracket.finish >= size - 1)
  /\ bracket.finish <= range.begin
  /\ bracket.finish < range.end \/ ~bracket.include_finish

(* The robot may not enter its bracket, or has left it.                     *)
KeepsOut(bracket, size, range) ==
  range.end <= LastBefore(bracket) \/ HasLeft(bracket, size, range)

Apart(A, na, ra, B, nb, rb) == KeepsOut(A, na, ra) \/ KeepsOut(B, nb, rb)

-----------------------------------------------------------------------------
(* A satisfied constraint on the first robot keeps the second one out: the  *)
(* hold point and end point that compute_blocker derives are those of the   *)
(* second robot's bracket.                                                  *)
LEMMA SatisfiedKeepsOut ==
  ASSUME NEW A \in Bracket, NEW B \in Bracket, NEW na \in Nat, NEW nb \in Nat, NEW s,
         NEW rb \in AssignedRange, Satisfied(Blocker(A, na, B, nb, s), rb)
  PROVE  KeepsOut(B, nb, rb)
<1> DEFINE b == Blocker(A, na, B, nb, s)
<1>1. rb.end \in Nat /\ rb.begin \in Nat
  BY DEF AssignedRange
<1>2. B.start \in Nat /\ B.finish \in Nat /\ B.include_start \in BOOLEAN
      /\ B.include_finish \in BOOLEAN
  BY DEF Bracket
<1>3. CASE CanHold(b, rb)
  <2>1. rb.end <= b.hold
    BY <1>3 DEF CanHold
  <2>2. b.hold = NoPoint \/ b.hold = LastBefore(B)
    BY <1>2 DEF Blocker, LastBefore
  <2> QED  BY <2>1, <2>2, <1>1 DEF KeepsOut, NoPoint
<1>4. CASE HasReached(b, rb)
  <2>1. /\ b.end # NoPoint /\ b.end <= rb.begin
        /\ b.end < rb.end \/ (~b.pass /\ b.end = rb.begin)
    BY <1>4 DEF HasReached
  <2>2. b.pass = B.include_finish
    BY DEF Blocker
  <2>3. ~(B.include_finish /\ B.finish >= nb - 1) /\ b.end = B.finish
    BY <2>1 DEF Blocker
  <2> QED  BY <2>1, <2>2, <2>3 DEF KeepsOut, HasLeft
<1> QED  BY <1>3, <1>4 DEF Satisfied

(* check_reservation: the first robot gets a longer range, whose every       *)
(* checkpoint to depart from has its constraint satisfied.  The robots stay  *)
(* apart.                                                                   *)
THEOREM GrantKeepsApart ==
  ASSUME NEW A \in Bracket, NEW B \in Bracket, NEW na \in Nat, NEW nb \in Nat, NEW s,
         NEW ra \in AssignedRange, NEW rb \in AssignedRange, NEW end \in Nat,
         ra.end <= end,
         Apart(A, na, ra, B, nb, rb),
         LET a == Blocker(A, na, B, nb, s)
         IN  a.from \in ra.begin..(end - 1) => Satisfied(a, rb)
  PROVE  Apart(A, na, [ra EXCEPT !.end = end], B, nb, rb)
<1> DEFINE longer == [ra EXCEPT !.end = end]
<1>1. ra.begin \in Nat /\ ra.end \in Nat /\ ra.begin <= ra.end
      /\ longer.begin = ra.begin /\ longer.end = end
  BY DEF AssignedRange
<1>2. A.start \in Nat /\ A.finish \in Nat /\ A.include_start \in BOOLEAN
  BY DEF Bracket
<1>3. CASE KeepsOut(B, nb, rb)
  BY <1>3 DEF Apart
<1>4. CASE HasLeft(A, na, ra)
  BY <1>1, <1>2, <1>4 DEF Apart, KeepsOut, HasLeft
<1>5. CASE ra.end <= LastBefore(A)
  <2>1. CASE end <= LastBefore(A)
    BY <1>1, <2>1 DEF Apart, KeepsOut
  <2>2. CASE end > LastBefore(A)
    <3>1. GoFrom(A) = LastBefore(A)
      BY <1>1, <1>2, <1>5 DEF GoFrom, LastBefore
    <3>2. GoFrom(A) \in ra.begin..(end - 1)
      BY <1>1, <1>2, <1>5, <2>2, <3>1 DEF LastBefore
    <3>3. Satisfied(Blocker(A, na, B, nb, s), rb)
      BY <3>2 DEF Blocker
    <3> QED  BY <3>3, SatisfiedKeepsOut DEF Apart
  <2> QED  BY <1>2, <2>1, <2>2 DEF LastBefore
<1> QED  BY <1>3, <1>4, <1>5 DEF Apart, KeepsOut

(* WithReached: a robot that reports a later checkpoint of its range has     *)
(* left whatever it had left before.                                        *)
THEOREM ReachingKeepsApart ==
  ASSUME NEW A \in Bracket, NEW B \in Bracket, NEW na \in Nat, NEW nb \in Nat,
         NEW ra \in AssignedRange, NEW rb \in AssignedRange, NEW begin \in Nat,
         ra.begin <= begin, Apart(A, na, ra, B, nb, rb)
  PROVE  Apart(A, na, [ra EXCEPT !.begin = begin], B, nb, rb)
<1>1. ra.begin \in Nat /\ ra.end \in Nat
      /\ [ra EXCEPT !.begin = begin].begin = begin
      /\ [ra EXCEPT !.begin = begin].end = ra.end
  BY DEF AssignedRange
<1>2. A.finish \in Nat
  BY DEF Bracket
<1> QED  BY <1>1, <1>2 DEF Apart, KeepsOut, HasLeft

(* WithRelease: a robot may give up the end of its range, unless that is the *)
(* move out of a bracket whose finish is part of it: the other robot may     *)
(* already count on it.                                                     *)
THEOREM ReleaseKeepsApart ==
  ASSUME NEW A \in Bracket, NEW B \in Bracket, NEW na \in Nat, NEW nb \in Nat,
         NEW ra \in AssignedRange, NEW rb \in AssignedRange, NEW end \in Nat,
         end <= ra.end, Apart(A, na, ra, B, nb, rb),
         A.include_finish /\ HasLeft(A, na, ra) => A.finish < end
  PROVE  Apart(A, na, [ra EXCEPT !.end = end], B, nb, rb)
<1>1. ra.begin \in Nat /\ ra.end \in Nat
      /\ [ra EXCEPT !.end = end].begin = ra.begin
      /\ [ra EXCEPT !.end = end].end = end
  BY DEF AssignedRange
<1>2. A.start \in Nat /\ A.finish \in Nat /\ A.include_finish \in BOOLEAN
  BY DEF Bracket
<1>3. LastBefore(A) \in Int
  BY <1>2 DEF LastBefore
<1> QED  BY <1>1, <1>2, <1>3 DEF Apart, KeepsOut, HasLeft

(* Robots whose ranges are apart, and who are within their ranges, are not   *)
(* both in their brackets.                                                  *)
THEOREM ApartMeansOutside ==
  ASSUME NEW A \in Bracket, NEW B \in Bracket, NEW na \in Nat, NEW nb \in Nat,
         NEW ra \in AssignedRange, NEW rb \in AssignedRange,
         NEW pa \in (2 * ra.begin)..(2 * ra.end), NEW pb \in (2 * rb.begin)..(2 * rb.end),
         Apart(A, na, ra, B, nb, rb)
  PROVE  ~(InBracket(A, ra, pa) /\ InBracket(B, rb, pb))
<1>1. ASSUME NEW C \in Bracket, NEW n \in Nat, NEW range \in AssignedRange,
             NEW p \in (2 * range.begin)..(2 * range.end), KeepsOut(C, n, range)
      PROVE  ~InBracket(C, range, p)
  <2>1. range.begin \in Nat /\ range.end \in Nat /\ p \in Int
    BY <1>1 DEF AssignedRange
  <2>2. C.start \in Nat /\ C.finish \in Nat /\ C.include_start \in BOOLEAN
        /\ C.include_finish \in BOOLEAN
    BY <1>1 DEF Bracket
  <2>3. CASE range.end <= LastBefore(C)
    BY <1>1, <2>1, <2>2, <2>3 DEF LastBefore, InBracket
  <2>4. CASE HasLeft(C, n, range)
    BY <1>1, <2>1, <2>2, <2>4 DEF HasLeft, InBracket
  <2> QED  BY <1>1, <2>3, <2>4 DEF KeepsOut
<1> QED  BY <1>1 DEF Apart
-----------------------------------------------------------------------------
(* Numbers                                                                  *)

(* A set of natural numbers has a least element.                            *)
LEMMA LeastExists ==
  ASSUME NEW T \in SUBSET Nat, T # {}
  PROVE  \E x \in T : \A y \in T : x <= y
<1> DEFINE R == StrictSubsetOrdering(Nat)
           F == FiniteSubsetsOf(Nat)
           B == {0..x : x \in T}
<1>1. B # {} /\ B \subseteq F
  <2>1. \A x \in Nat : IsFiniteSet(0..x) /\ 0..x \in SUBSET Nat
    BY FS_Interval
  <2> QED BY <2>1 DEF FiniteSubsetsOf
<1>2. IsWellFoundedOn(R, F)
  BY FS_StrictSubsetOrderingWellFounded
<1>3. PICK b \in B : \A c \in B : ~(<<c, b>> \in R)
  <2> HIDE DEF R, F, B
  <2> QED BY <1>1, <1>2, WFMin
<1>4. PICK x \in T : b = 0..x
  OBVIOUS
<1>5. ASSUME NEW y \in T, y < x PROVE FALSE
  <2>1. 0..y \in B /\ 0..y \subseteq 0..x /\ 0..y # 0..x
    BY <1>5
  <2>2. 0..y \in SUBSET Nat /\ 0..x \in SUBSET Nat
    OBVIOUS
  <2>3. <<0..y, 0..x>> \in R
    <3> DEFINE s == 0..y t == 0..x
    <3>1. s \in SUBSET Nat /\ t \in SUBSET Nat /\ s \subseteq t /\ s # t
      BY <2>1, <2>2
    <3> HIDE DEF s, t
    <3>2. <<s, t>> \in R
      BY <3>1 DEF StrictSubsetOrdering
    <3> QED BY <3>2 DEF s, t
  <2> HIDE DEF R, B
  <2> QED BY <1>3, <1>4, <2>1, <2>3
<1> QED BY <1>5

(* Min of a set of natural numbers is its least element.                    *)
LEMMA MinIsLeast ==
  ASSUME NEW T \in SUBSET Nat, T # {}
  PROVE  Min(T) \in T /\ \A y \in T : Min(T) <= y
<1>1. \E x \in T : \A y \in T : x <= y
  BY LeastExists
<1> QED BY <1>1 DEF Min

(* Max of a set of numbers that is bounded is its greatest element.         *)
LEMMA MaxIsGreatest ==
  ASSUME NEW high \in Int, NEW T \in SUBSET Int, T # {}, \A x \in T : x <= high
  PROVE  Max(T) \in T /\ \A y \in T : y <= Max(T)
<1> DEFINE U == {high - x : x \in T}
<1>1. U \in SUBSET Nat /\ U # {}
  <2>1. \A x \in T : high - x \in Nat
    OBVIOUS
  <2> QED BY <2>1
<1> HIDE DEF U
<1>2. PICK u \in U : \A y \in U : u <= y
  BY <1>1, LeastExists
<1>3. PICK x \in T : u = high - x
  BY <1>2 DEF U
<1>4. \A y \in T : high - y \in U
  BY DEF U
<1>5. \A y \in T : y <= x
  BY <1>2, <1>3, <1>4
<1> QED BY <1>5 DEF Max

(* Min and Max of two numbers.                                              *)
LEMMA OfTwo ==
  ASSUME NEW a \in Int, NEW b \in Int
  PROVE  /\ Min({a, b}) = IF a <= b THEN a ELSE b
         /\ Max({a, b}) = IF a >= b THEN a ELSE b
<1>1. \E x \in {a, b} : \A y \in {a, b} : x <= y
  OBVIOUS
<1>2. Min({a, b}) \in {a, b} /\ \A y \in {a, b} : Min({a, b}) <= y
  BY <1>1 DEF Min
<1>3. \E x \in {a, b} : \A y \in {a, b} : x >= y
  OBVIOUS
<1>4. Max({a, b}) \in {a, b} /\ \A y \in {a, b} : Max({a, b}) >= y
  BY <1>3 DEF Max
<1>5. Min({a, b}) = IF a <= b THEN a ELSE b
  BY <1>2
<1> QED BY <1>4, <1>5

-----------------------------------------------------------------------------
(* The iterations of process_ready_queue                                    *)

Step(before) == CHOOSE it \in {Iteration(b) : b \in {before}} : TRUE
Iterates(start, N, f) ==
  f = [n \in N |-> IF n = 0 THEN [m |-> start, over |-> FALSE] ELSE Step(f[n - 1])]

(* There are iterations for every number of steps: the recursive function   *)
(* that Processed uses is well defined.                                     *)
LEMMA IterationsExist ==
  ASSUME NEW start
  PROVE  \E f : Iterates(start, Nat, f)
<1> DEFINE first == [m |-> start, over |-> FALSE]
           Missing == {N \in Nat : ~\E f : Iterates(start, 0..N, f)}
<1>1. Missing = {}
  <2>1. SUFFICES ASSUME Missing # {} PROVE FALSE
    OBVIOUS
  <2>2. PICK N \in Missing : \A M \in Missing : N <= M
    <3>1. Missing \in SUBSET Nat
      OBVIOUS
    <3> HIDE DEF Missing
    <3> QED BY <2>1, <3>1, LeastExists
  <2>3. CASE N = 0
    <3>1. Iterates(start, 0..0, [n \in 0..0 |-> first])
      BY DEF Iterates
    <3> QED BY <2>2, <2>3, <3>1
  <2>4. CASE N # 0
    <3>1. N - 1 \in Nat /\ N - 1 \notin Missing
      BY <2>2, <2>4
    <3>2. PICK f : Iterates(start, 0..(N - 1), f)
      BY <3>1
    <3> DEFINE g == [n \in 0..N |-> IF n = N THEN Step(f[N - 1]) ELSE f[n]]
    <3>3. \A n \in 0..N : g[n] = IF n = 0 THEN first ELSE Step(g[n - 1])
      <4>1. \A n \in 0..(N - 1) : f[n] = IF n = 0 THEN first ELSE Step(f[n - 1])
        BY <3>2 DEF Iterates
      <4>2. TAKE n \in 0..N
      <4>3. CASE n = N
        <5>1. g[n] = Step(f[N - 1]) /\ g[n - 1] = f[N - 1] /\ n # 0
          BY <2>2, <2>4, <4>3
        <5> QED BY <5>1, <4>3
      <4>4. CASE n # N
        <5>1. n \in 0..(N - 1) /\ g[n] = f[n] /\ (n # 0 => g[n - 1] = f[n - 1])
          BY <2>2, <4>4
        <5> QED BY <5>1, <4>1
      <4> QED BY <4>3, <4>4
    <3>4. Iterates(start, 0..N, g)
      <4>1. g = [n \in 0..N |-> g[n]]
        OBVIOUS
      <4> HIDE DEF g
      <4> QED BY <3>3, <4>1 DEF Iterates
    <3> QED BY <2>2, <3>4
  <2> QED BY <2>3, <2>4
<1>2. ASSUME NEW M \in Nat, NEW N \in Nat, M <= N, NEW f, NEW g,
             Iterates(start, 0..M, f), Iterates(start, 0..N, g)
      PROVE  f[M] = g[M]
  <2> DEFINE Differ == {n \in 0..M : f[n] # g[n]}
  <2>1. SUFFICES ASSUME Differ # {} PROVE FALSE
    BY <1>2
  <2>2. PICK n \in Differ : \A k \in Differ : n <= k
    <3>1. Differ \in SUBSET Nat
      OBVIOUS
    <3> HIDE DEF Differ
    <3> QED BY <2>1, <3>1, LeastExists
  <2>3. /\ f[n] = IF n = 0 THEN first ELSE Step(f[n - 1])
        /\ g[n] = IF n = 0 THEN first ELSE Step(g[n - 1])
    <3>1. \A k \in 0..M : f[k] = IF k = 0 THEN first ELSE Step(f[k - 1])
      BY <1>2 DEF Iterates
    <3>2. \A k \in 0..N : g[k] = IF k = 0 THEN first ELSE Step(g[k - 1])
      BY <1>2 DEF Iterates
    <3>3. n \in 0..M /\ n \in 0..N
      BY <1>2, <2>2
    <3> QED BY <3>1, <3>2, <3>3
  <2>4. n # 0 => n - 1 \in 0..M /\ n - 1 \notin Differ
    BY <2>2
  <2> QED BY <2>2, <2>3, <2>4
<1> DEFINE Up(n) == CHOOSE f : Iterates(start, 0..n, f)
           F == [n \in Nat |-> Up(n)[n]]
<1>3. \A n \in Nat : Iterates(start, 0..n, Up(n))
  BY <1>1
<1> HIDE DEF Up, Missing
<1>4. \A n \in Nat : F[n] = IF n = 0 THEN first ELSE Step(F[n - 1])
  <2>1. TAKE n \in Nat
  <2>2. F[n] = IF n = 0 THEN first ELSE Step(Up(n)[n - 1])
    <3>1. Iterates(start, 0..n, Up(n)) /\ n \in 0..n
      BY <1>3
    <3>2. F[n] = Up(n)[n]
      OBVIOUS
    <3> HIDE DEF F
    <3>3. \A k \in 0..n : Up(n)[k] = IF k = 0 THEN first ELSE Step(Up(n)[k - 1])
      BY <3>1 DEF Iterates
    <3> QED BY <3>1, <3>2, <3>3
  <2>3. CASE n = 0
    BY <2>2, <2>3
  <2>4. CASE n # 0
    <3>1. n - 1 \in Nat /\ n - 1 <= n
      BY <2>4
    <3>2. Up(n - 1)[n - 1] = Up(n)[n - 1]
      BY <3>1, <1>2, <1>3
    <3> QED BY <2>2, <2>4, <3>1, <3>2
  <2> QED BY <2>3, <2>4
<1>5. Iterates(start, Nat, F)
  <2>1. F = [n \in Nat |-> F[n]]
    OBVIOUS
  <2> HIDE DEF F
  <2> QED BY <1>4, <2>1 DEF Iterates
<1> QED BY <1>5

(* There are finitely many checkpoints.                                     *)
LEMMA CheckpointsFinite == IsFiniteSet(Checkpoints)
<1> DEFINE T == {DOMAIN CanHoldAt[r] : r \in Robots}
           f == [r \in Robots |-> DOMAIN CanHoldAt[r]]
<1>1. f \in Surjection(Robots, T)
  BY DEF Surjection
<1>2. \A t \in T : IsFiniteSet(t)
  <2>1. \A r \in Robots : Size(r) - 1 \in Int /\ DOMAIN CanHoldAt[r] = 0..(Size(r) - 1)
    BY BlockadeAssumption
  <2> QED BY <2>1, FS_Interval
<1>3. IsFiniteSet(T)
  <2> HIDE DEF T, f
  <2> QED BY <1>1, BlockadeAssumption, FS_Surjection
<1> QED BY <1>2, <1>3, FS_UNION DEF Checkpoints

(* What Processed yields is the state of the moderator after so many          *)
(* iterations.                                                              *)
HowMany(start) == Len(start.queue) + Cardinality(Robots) * Cardinality(Checkpoints) + 1

LEMMA ProcessedIterates ==
  ASSUME NEW start, Len(start.queue) \in Nat
  PROVE  /\ HowMany(start) \in Nat
         /\ \E f : /\ f[0] = [m |-> start, over |-> FALSE]
                  /\ \A n \in Nat : f[n + 1] = Iteration(f[n])
                  /\ Processed(start) = f[HowMany(start)].m
<1> DEFINE f == CHOOSE f : Iterates(start, Nat, f)
           N == HowMany(start)
<1>1. Iterates(start, Nat, f)
  BY IterationsExist
<1>2. Processed(start) = f[N].m
  BY DEF Processed, Iterates, Step, HowMany
<1>3. N \in Nat
  BY BlockadeAssumption, CheckpointsFinite, FS_CardinalityType DEF HowMany
<1> HIDE DEF f
<1>4. \A n \in Nat : f[n] = IF n = 0 THEN [m |-> start, over |-> FALSE] ELSE Step(f[n - 1])
  BY <1>1 DEF Iterates
<1>5. \A b : Step(b) = Iteration(b)
  BY DEF Step
<1>6. \A n \in Nat : f[n + 1] = Iteration(f[n])
  BY <1>4, <1>5
<1> QED BY <1>2, <1>3, <1>4, <1>6

-----------------------------------------------------------------------------
(* The moderator keeps robots apart                                         *)

Ready == [robot : Robots, checkpoint : Int]

IsModerator(m) ==
  m \in [known : SUBSET Robots, blockers : {m.blockers}, loops : {m.loops},
         ranges : [Robots -> AssignedRange], queue : Seq(Ready),
         last_ready : {m.last_ready}, last_reached : [Robots -> Nat]]

(* A range begins where the robot was last, and a robot without a path has   *)
(* the first range.                                                         *)
RangesFit(m) ==
  \A r \in Robots : /\ m.last_reached[r] = m.ranges[r].begin
                    /\ r \notin m.known => m.ranges[r] = Range0

(* Two robots with a path have their constraints in the moderator, and the   *)
(* ranges of any two keep them out of the brackets of a guarded conflict.    *)
GuardsHold(m) ==
  \A r, s \in Robots : \A A, B \in Bracket : Guard(r, A, s, B) =>
    /\ r \in m.known /\ s \in m.known => Blocker(A, Size(r), B, Size(s), s) \in m.blockers[r][s]
    /\ Apart(A, Size(r), m.ranges[r], B, Size(s), m.ranges[s])

Safe(m) == IsModerator(m) /\ RangesFit(m) /\ GuardsHold(m)

(* Robots get more of their paths, and nothing else happens to them.        *)
Grown(m, n) ==
  /\ n.known = m.known
  /\ \A r \in Robots : n.ranges[r].begin = m.ranges[r].begin /\ m.ranges[r].end <= n.ranges[r].end

(* The number of checkpoints is a number.                                   *)
LEMMA Sizes == \A r \in Robots : Size(r) \in Nat /\ Size(r) > 1
BY BlockadeAssumption

(* A guard is a guard for either of the two robots.                         *)
LEMMA GuardTurned ==
  ASSUME NEW r, NEW A, NEW s, NEW B, Guard(r, A, s, B)
  PROVE  Guard(s, B, r, A)
BY DEF Guard

(* At its first checkpoint a robot is outside of guarded brackets.          *)
LEMMA StartIsOutside ==
  ASSUME NEW r, NEW s, NEW A \in Bracket, NEW B \in Bracket, Guard(r, A, s, B)
  PROVE  KeepsOut(A, Size(r), Range0) /\ KeepsOut(B, Size(s), Range0)
<1>1. A.start \in Nat /\ B.start \in Nat
  BY DEF Bracket
<1> QED BY <1>1 DEF Guard, EndsOutside, KeepsOut, LastBefore, Range0

(* A moderator with other ranges.                                           *)
LEMMA WithRanges ==
  ASSUME NEW m, IsModerator(m), NEW r \in Robots, NEW range \in AssignedRange
  PROVE  LET n == [m EXCEPT !.ranges = [m.ranges EXCEPT ![r] = range]]
         IN  /\ IsModerator(n) /\ n.ranges = [m.ranges EXCEPT ![r] = range]
             /\ n.known = m.known /\ n.blockers = m.blockers /\ n.loops = m.loops
             /\ n.queue = m.queue /\ n.last_ready = m.last_ready /\ n.last_reached = m.last_reached
<1> DEFINE ranges == [m.ranges EXCEPT ![r] = range]
<1>1. ranges \in [Robots -> AssignedRange]
  BY DEF IsModerator
<1> HIDE DEF ranges
<1>2. [m EXCEPT !.ranges = ranges] =
        [known |-> m.known, blockers |-> m.blockers, loops |-> m.loops, ranges |-> ranges,
         queue |-> m.queue, last_ready |-> m.last_ready, last_reached |-> m.last_reached]
  <2>1. DOMAIN m = {"known", "blockers", "loops", "ranges", "queue", "last_ready", "last_reached"}
        /\ m = [field \in DOMAIN m |-> m[field]]
    BY DEF IsModerator
  <2> QED BY <2>1
<1>3. IsModerator([m EXCEPT !.ranges = ranges])
  BY <1>1, <1>2 DEF IsModerator
<1> QED BY <1>2, <1>3 DEF ranges

(* What a longer range is like.                                             *)
LEMMA LongerRange ==
  ASSUME NEW m, IsModerator(m), NEW r \in m.known, NEW end \in Int, m.ranges[r].end <= end
  PROVE  LET longer == [m.ranges[r] EXCEPT !.end = end]
             n == [m EXCEPT !.ranges[r].end = end]
         IN  /\ r \in Robots /\ m.ranges[r] \in AssignedRange /\ longer \in AssignedRange
             /\ longer.begin = m.ranges[r].begin /\ longer.end = end
             /\ IsModerator(n) /\ n.known = m.known /\ n.blockers = m.blockers
             /\ n.loops = m.loops /\ n.queue = m.queue /\ n.last_ready = m.last_ready
             /\ n.ranges[r] = longer /\ \A s \in Robots : s # r => n.ranges[s] = m.ranges[s]
<1> DEFINE longer == [m.ranges[r] EXCEPT !.end = end]
           n == [m EXCEPT !.ranges[r].end = end]
<1>1. /\ r \in Robots /\ m.ranges \in [Robots -> AssignedRange]
      /\ m.ranges[r] \in AssignedRange /\ longer \in AssignedRange
      /\ longer.begin = m.ranges[r].begin /\ longer.end = end
  <2>1. r \in Robots /\ m.ranges \in [Robots -> AssignedRange]
    BY DEF IsModerator
  <2> QED BY <2>1 DEF AssignedRange
<1>2. n = [m EXCEPT !.ranges = [m.ranges EXCEPT ![r] = longer]]
  OBVIOUS
<1> HIDE DEF n, longer
<1>3. /\ IsModerator(n) /\ n.ranges = [m.ranges EXCEPT ![r] = longer]
      /\ n.known = m.known /\ n.blockers = m.blockers /\ n.loops = m.loops
      /\ n.queue = m.queue /\ n.last_ready = m.last_ready
  BY <1>1, <1>2, WithRanges
<1>4. n.ranges[r] = longer /\ \A s \in Robots : s # r => n.ranges[s] = m.ranges[s]
  BY <1>1, <1>3
<1> QED BY <1>1, <1>3, <1>4 DEF n, longer

(* A robot gets a longer range, whose every checkpoint to depart from has    *)
(* its constraints satisfied.                                               *)
LEMMA GrantIsSafe ==
  ASSUME NEW m, Safe(m), NEW r \in m.known, NEW end \in Int, m.ranges[r].end <= end,
         Acceptable(m, r, end)
  PROVE  LET n == [m EXCEPT !.ranges[r].end = end] IN Safe(n) /\ Grown(m, n)
<1> DEFINE n == [m EXCEPT !.ranges[r].end = end]
           longer == [m.ranges[r] EXCEPT !.end = end]
<1>1. /\ r \in Robots /\ m.ranges \in [Robots -> AssignedRange] /\ m.ranges[r] \in AssignedRange
      /\ end \in Nat /\ longer \in AssignedRange
      /\ longer.begin = m.ranges[r].begin /\ longer.end = end
  <2>1. r \in Robots /\ m.ranges \in [Robots -> AssignedRange]
    BY DEF Safe, IsModerator
  <2> QED BY <2>1 DEF AssignedRange
<1>2. /\ n.ranges = [m.ranges EXCEPT ![r] = longer]
      /\ n.known = m.known /\ n.blockers = m.blockers /\ n.loops = m.loops
      /\ n.queue = m.queue /\ n.last_ready = m.last_ready /\ n.last_reached = m.last_reached
  <2>1. n = [m EXCEPT !.ranges = [m.ranges EXCEPT ![r] = longer]]
    OBVIOUS
  <2> HIDE DEF n, longer
  <2> QED BY <1>1, <2>1, WithRanges DEF Safe
<1>3. n.ranges \in [Robots -> AssignedRange] /\ n.ranges[r] = longer
      /\ \A s \in Robots : s # r => n.ranges[s] = m.ranges[s]
  BY <1>1, <1>2
<1>4. IsModerator(n)
  <2>1. n = [m EXCEPT !.ranges = [m.ranges EXCEPT ![r] = longer]]
    OBVIOUS
  <2> HIDE DEF n, longer
  <2> QED BY <1>1, <2>1, WithRanges DEF Safe
<1> HIDE DEF n
<1>5. RangesFit(n)
  BY <1>1, <1>2, <1>3 DEF Safe, RangesFit
<1>6. ASSUME NEW s \in Robots, NEW A \in Bracket, NEW B \in Bracket, Guard(r, A, s, B)
      PROVE  Apart(A, Size(r), longer, B, Size(s), m.ranges[s])
  <2>1. s # r /\ Size(r) \in Nat /\ Size(s) \in Nat /\ m.ranges[s] \in AssignedRange
    BY <1>1, <1>6, Sizes DEF Guard
  <2>2. CASE s \notin m.known
    BY <2>2, <1>6, StartIsOutside DEF Safe, RangesFit, Apart
  <2>3. CASE s \in m.known
    <3> DEFINE b == Blocker(A, Size(r), B, Size(s), s)
    <3>1. b \in m.blockers[r][s] /\ Apart(A, Size(r), m.ranges[r], B, Size(s), m.ranges[s])
      BY <1>1, <1>6, <2>3 DEF Safe, GuardsHold
    <3>2. b.blocked_by = s
      BY DEF Blocker
    <3>3. ASSUME b.from \in m.ranges[r].begin..(end - 1)
          PROVE  Satisfied(b, m.ranges[s])
      <4> DEFINE c == b.from
      <4>1. b \in Constraints(m.blockers, r, c)
        BY <3>1 DEF Constraints
      <4>2. Go(m.blockers, n.ranges, r, c)
        <5>1. n.ranges = [m.ranges EXCEPT ![r].end = end]
          BY <1>2
        <5>2. c \in n.ranges[r].begin..(end - 1)
          BY <1>1, <1>3, <3>3
        <5> HIDE DEF c, b
        <5> QED BY <4>1, <5>1, <5>2 DEF Acceptable
      <4>3. Satisfied(b, n.ranges[b.blocked_by])
        BY <4>1, <4>2 DEF Go
      <4> QED BY <4>3, <3>2, <1>3, <2>1
    <3> HIDE DEF b
    <3>4. LET a == Blocker(A, Size(r), B, Size(s), s)
          IN  a.from \in m.ranges[r].begin..(end - 1) => Satisfied(a, m.ranges[s])
      BY <3>3 DEF b
    <3> QED BY <1>1, <2>1, <3>1, <3>4, GrantKeepsApart
  <2> QED BY <2>2, <2>3
<1>7. GuardsHold(n)
  <2> SUFFICES ASSUME NEW p \in Robots, NEW q \in Robots, NEW A \in Bracket, NEW B \in Bracket,
                      Guard(p, A, q, B)
               PROVE  /\ p \in n.known /\ q \in n.known =>
                           Blocker(A, Size(p), B, Size(q), q) \in n.blockers[p][q]
                      /\ Apart(A, Size(p), n.ranges[p], B, Size(q), n.ranges[q])
    BY DEF GuardsHold
  <2>1. p \in n.known /\ q \in n.known => Blocker(A, Size(p), B, Size(q), q) \in n.blockers[p][q]
    BY <1>2 DEF Safe, GuardsHold
  <2>2. p # q
    BY DEF Guard
  <2>3. CASE p = r
    <3>1. Apart(A, Size(r), longer, B, Size(q), m.ranges[q])
      BY <1>6, <2>3
    <3> HIDE DEF longer
    <3> QED BY <1>3, <2>1, <2>2, <2>3, <3>1
  <2>4. CASE q = r
    <3>1. Apart(B, Size(r), longer, A, Size(p), m.ranges[p])
      BY <2>4, <1>6, GuardTurned
    <3> QED BY <1>3, <2>1, <2>2, <2>4, <3>1 DEF Apart
  <2>5. CASE p # r /\ q # r
    BY <1>3, <2>1, <2>5 DEF Safe, GuardsHold
  <2> QED BY <2>1, <2>3, <2>4, <2>5
<1>8. Grown(m, n)
  <2>1. \A s \in Robots : m.ranges[s] \in AssignedRange
    BY <1>1
  <2> QED BY <1>1, <1>2, <1>3, <2>1 DEF Grown, AssignedRange
<1> QED BY <1>4, <1>5, <1>7, <1>8 DEF Safe, n

(* A queue without one of its entries is a queue, and shorter.              *)
LEMMA RemovedFromQueue ==
  ASSUME NEW Entries, NEW queue \in Seq(Entries), NEW i \in DOMAIN queue
  PROVE  RemoveAt(queue, i) \in Seq(Entries) /\ Len(RemoveAt(queue, i)) = Len(queue) - 1
<1>1. Len(queue) \in Nat /\ i \in 1..Len(queue)
  OBVIOUS
<1>2. SubSeq(queue, 1, i - 1) \in Seq(Entries) /\ Len(SubSeq(queue, 1, i - 1)) = i - 1
  <2>1. \A j \in 1..(i - 1) : queue[j] \in Entries
    BY <1>1
  <2> QED BY <1>1, <2>1, SubSeqProperties
<1>3. /\ SubSeq(queue, i + 1, Len(queue)) \in Seq(Entries)
      /\ Len(SubSeq(queue, i + 1, Len(queue))) = Len(queue) - i
  <2>1. \A j \in (i + 1)..Len(queue) : queue[j] \in Entries
    BY <1>1
  <2> QED BY <1>1, <2>1, SubSeqProperties
<1> DEFINE left == SubSeq(queue, 1, i - 1)
           right == SubSeq(queue, i + 1, Len(queue))
<1>4. left \o right \in Seq(Entries) /\ Len(left \o right) = Len(left) + Len(right)
  <2> HIDE DEF left, right
  <2>1. left \in Seq(Entries) /\ right \in Seq(Entries)
    BY <1>2, <1>3 DEF left, right
  <2> QED BY <2>1, ConcatProperties
<1>5. Len(left) = i - 1 /\ Len(right) = Len(queue) - i
  BY <1>2, <1>3
<1> HIDE DEF left, right
<1>6. left \o right = RemoveAt(queue, i)
  BY Zenon DEF RemoveAt, left, right
<1>7. (i - 1) + (Len(queue) - i) = Len(queue) - 1
  BY <1>1
<1>8. Len(left \o right) = Len(queue) - 1
  BY <1>4, <1>5, <1>7, Zenon
<1> QED BY <1>4, <1>6, <1>8, Zenon

(* What is queued, or counts as ready, does not matter for robots' ranges.   *)
LEMMA QueueIsSafe ==
  ASSUME NEW m, Safe(m), NEW queue \in Seq(Ready), NEW n, IsModerator(n),
         n.known = m.known, n.blockers = m.blockers, n.ranges = m.ranges,
         n.last_reached = m.last_reached
  PROVE  Safe(n) /\ Grown(m, n)
<1>1. \A r \in Robots : m.ranges[r] \in AssignedRange
  BY DEF Safe, IsModerator
<1>2. \A r \in Robots : m.ranges[r].end <= m.ranges[r].end
  BY <1>1 DEF AssignedRange
<1> QED BY <1>2 DEF Safe, RangesFit, GuardsHold, Grown

(* Of the ends an entry may be given there is a furthest one.               *)
LEMMA FurthestEnd ==
  ASSUME NEW m, NEW i, m.queue[i].checkpoint \in Int, m.ranges[m.queue[i].robot].end \in Nat,
         Ends(m, i) # {}
  PROVE  Max(Ends(m, i)) \in Ends(m, i)
<1> DEFINE E == Ends(m, i)
           high == m.queue[i].checkpoint + 1
<1>1. E \in SUBSET Int /\ (\A x \in E : x <= high) /\ high \in Int
  BY DEF Ends
<1>2. E # {}
  OBVIOUS
<1> HIDE DEF E, high
<1>3. Max(E) \in E
  BY <1>1, <1>2, MaxIsGreatest
<1> QED BY <1>3 DEF E

(* An end that the i-th of the queue may be given.                          *)
LEMMA EndsAreLater ==
  ASSUME NEW m, NEW i, NEW end \in Ends(m, i),
         m.ranges[m.queue[i].robot].end \in Nat, m.queue[i].checkpoint \in Int
  PROVE  /\ end \in Int /\ m.ranges[m.queue[i].robot].end < end
         /\ Acceptable(m, m.queue[i].robot, end) /\ end <= m.queue[i].checkpoint + 1
<1> DEFINE from == m.ranges[m.queue[i].robot].end
           last == m.queue[i].checkpoint
           can(e) == Acceptable(m, m.queue[i].robot, e)
<1>1. end \in {e \in (from + 1)..(last + 1) : can(e)}
  BY Zenon DEF Ends
<1>2. from \in Nat /\ last \in Int
  OBVIOUS
<1> HIDE DEF from, last, can
<1>3. end \in (from + 1)..(last + 1) /\ can(end)
  BY <1>1
<1>4. end \in Int /\ from < end /\ end <= last + 1
  BY <1>2, <1>3
<1> QED BY <1>3, <1>4 DEF from, last, can

(* One iteration of process_ready_queue: an entry leaves the queue, or its    *)
(* robot gets an acceptable range.                                          *)
LEMMA ServedDropsOrGrants ==
  ASSUME NEW m, IsModerator(m), \E i \in DOMAIN m.queue : Finished(m, i) \/ Ends(m, i) # {}
  PROVE  \/ /\ IsModerator(Served(m))
            /\ \E i \in DOMAIN m.queue : Served(m).queue = RemoveAt(m.queue, i)
            /\ Served(m).last_ready = m.last_ready
            /\ Served(m).known = m.known /\ Served(m).blockers = m.blockers
            /\ Served(m).loops = m.loops /\ Served(m).ranges = m.ranges
            /\ Served(m).last_reached = m.last_reached
         \/ \E r \in m.known : \E end \in Int :
              /\ m.ranges[r].end < end /\ Acceptable(m, r, end)
              /\ \E i \in DOMAIN m.queue : m.queue[i].robot = r /\ end <= m.queue[i].checkpoint + 1
              /\ Served(m) = [m EXCEPT !.ranges[r].end = end]
<1> DEFINE T == {i \in DOMAIN m.queue : Finished(m, i) \/ Ends(m, i) # {}}
           i == Min(T)
           r == m.queue[i].robot
<1>1. m.queue \in Seq(Ready)
  BY DEF IsModerator
<1>2. i \in T
  <2>1. T \in SUBSET Nat /\ T # {}
    BY <1>1
  <2> HIDE DEF T
  <2> QED BY <2>1, MinIsLeast
<1>3. i \in DOMAIN m.queue /\ m.queue[i] \in Ready
  <2> HIDE DEF i
  <2>1. i \in DOMAIN m.queue
    BY <1>2
  <2> QED BY <1>1, <2>1
<1>4. Served(m) = IF Finished(m, i) THEN [m EXCEPT !.queue = RemoveAt(@, i)]
                  ELSE [m EXCEPT !.ranges[r].end = Max(Ends(m, i))]
  BY DEF Served
<1> HIDE DEF i
<1>5. CASE Finished(m, i)
  <2> DEFINE n == [m EXCEPT !.queue = RemoveAt(@, i)]
  <2>1. RemoveAt(m.queue, i) \in Seq(Ready)
    BY <1>1, <1>3, RemovedFromQueue
  <2>2. /\ n.known = m.known /\ n.blockers = m.blockers /\ n.ranges = m.ranges
        /\ n.last_reached = m.last_reached /\ n.loops = m.loops /\ n.last_ready = m.last_ready
        /\ n.queue = RemoveAt(m.queue, i)
    BY DEF IsModerator
  <2>3. n = [known |-> m.known, blockers |-> m.blockers, loops |-> m.loops, ranges |-> m.ranges,
             queue |-> n.queue, last_ready |-> m.last_ready, last_reached |-> m.last_reached]
    <3>1. DOMAIN m = {"known", "blockers", "loops", "ranges", "queue", "last_ready", "last_reached"}
          /\ m = [field \in DOMAIN m |-> m[field]]
      BY DEF IsModerator
    <3> DEFINE queue == RemoveAt(m.queue, i)
    <3>2. n = [m EXCEPT !.queue = queue] /\ n.queue = queue
      BY <2>2
    <3> HIDE DEF n, queue
    <3> QED BY <3>1, <3>2
  <2>4. IsModerator(n)
    <3> HIDE DEF n
    <3> QED BY <2>1, <2>2, <2>3 DEF IsModerator
  <2>5. Served(m) = n
    BY <1>4, <1>5
  <2> HIDE DEF n
  <2> QED BY <1>3, <2>2, <2>4, <2>5
<1>6. CASE ~Finished(m, i)
  <2>1. Ends(m, i) # {} /\ r \in m.known
    BY <1>2, <1>6 DEF Finished
  <2>2. r \in Robots /\ m.ranges[r].end \in Nat /\ m.queue[i].checkpoint \in Int
    <3>1. m.ranges \in [Robots -> AssignedRange]
      BY DEF IsModerator
    <3> QED BY <1>3, <3>1 DEF Ready, AssignedRange
  <2>3. Max(Ends(m, i)) \in Ends(m, i)
    BY <2>1, <2>2, FurthestEnd
  <2> DEFINE end == Max(Ends(m, i))
  <2>4. /\ end \in Int /\ m.ranges[r].end < end /\ Acceptable(m, r, end)
        /\ m.queue[i].robot = r /\ end <= m.queue[i].checkpoint + 1
    BY <2>2, <2>3, EndsAreLater
  <2>5. Served(m) = [m EXCEPT !.ranges[r].end = end]
    BY <1>4, <1>6
  <2> HIDE DEF end, r
  <2> QED BY <1>3, <2>1, <2>4, <2>5
<1> QED BY <1>5, <1>6

(* It keeps robots apart.                                                   *)
LEMMA ServedIsSafe ==
  ASSUME NEW m, Safe(m), \E i \in DOMAIN m.queue : Finished(m, i) \/ Ends(m, i) # {}
  PROVE  Safe(Served(m)) /\ Grown(m, Served(m))
<1> DEFINE n == Served(m)
<1>1. \/ /\ IsModerator(n)
         /\ n.known = m.known /\ n.blockers = m.blockers /\ n.loops = m.loops
         /\ n.ranges = m.ranges /\ n.last_reached = m.last_reached
      \/ \E r \in m.known : \E end \in Int :
           /\ m.ranges[r].end < end /\ Acceptable(m, r, end)
           /\ n = [m EXCEPT !.ranges[r].end = end]
  BY ServedDropsOrGrants DEF Safe
<1>2. m.queue \in Seq(Ready)
  BY DEF Safe, IsModerator
<1> HIDE DEF n
<1>3. \A r \in m.known : m.ranges[r].end \in Int
  BY DEF Safe, IsModerator, AssignedRange
<1>4. Safe(n) /\ Grown(m, n)
  BY <1>1, <1>2, <1>3, QueueIsSafe, GrantIsSafe
<1> QED BY <1>4 DEF n

(* process_ready_queue keeps robots apart, and takes nothing from them.     *)
LEMMA ProcessedIsSafe ==
  ASSUME NEW start, Safe(start)
  PROVE  Safe(Processed(start)) /\ Grown(start, Processed(start))
<1>1. Len(start.queue) \in Nat
  BY DEF Safe, IsModerator
<1>2. PICK f : /\ f[0] = [m |-> start, over |-> FALSE]
               /\ \A n \in Nat : f[n + 1] = Iteration(f[n])
               /\ Processed(start) = f[HowMany(start)].m
  BY <1>1, ProcessedIterates
<1>3. HowMany(start) \in Nat
  BY <1>1, ProcessedIterates
<1> DEFINE Good(n) == Safe(f[n].m) /\ Grown(start, f[n].m)
           Bad == {n \in Nat : ~Good(n)}
<1>4. Good(0)
  <2>1. f[0].m = start
    BY <1>2
  <2>2. \A r \in Robots : start.ranges[r].end <= start.ranges[r].end
    <3>1. start.ranges \in [Robots -> AssignedRange]
      BY DEF Safe, IsModerator
    <3> QED BY <3>1 DEF AssignedRange
  <2> QED BY <2>1, <2>2 DEF Grown
<1>5. ASSUME NEW n \in Nat, Good(n) PROVE Good(n + 1)
  <2> DEFINE it == f[n]
  <2>1. f[n + 1] = Iteration(it)
    BY <1>2
  <2>2. CASE it.over \/ ~\E i \in DOMAIN it.m.queue : Finished(it.m, i) \/ Ends(it.m, i) # {}
    <3>1. f[n + 1].m = it.m
      BY <2>1, <2>2 DEF Iteration
    <3> QED BY <1>5, <3>1
  <2>3. CASE ~it.over /\ \E i \in DOMAIN it.m.queue : Finished(it.m, i) \/ Ends(it.m, i) # {}
    <3>1. f[n + 1].m = Served(it.m)
      BY <2>1, <2>3 DEF Iteration
    <3>2. Safe(it.m) /\ Grown(start, it.m)
      BY <1>5
    <3>3. Safe(Served(it.m)) /\ Grown(it.m, Served(it.m))
      BY <2>3, <3>2, ServedIsSafe
    <3>4. Grown(start, Served(it.m))
      <4>1. \A r \in Robots : /\ start.ranges[r].end \in Nat /\ it.m.ranges[r].end \in Nat
                              /\ Served(it.m).ranges[r].end \in Nat
        BY <3>2, <3>3 DEF Safe, IsModerator, AssignedRange
      <4> QED BY <3>2, <3>3, <4>1 DEF Grown
    <3> QED BY <3>1, <3>3, <3>4
  <2> QED BY <2>2, <2>3
<1> HIDE DEF Good
<1>6. Bad = {}
  <2>1. SUFFICES ASSUME Bad # {} PROVE FALSE
    OBVIOUS
  <2>2. PICK n \in Bad : \A k \in Bad : n <= k
    <3>1. Bad \in SUBSET Nat
      OBVIOUS
    <3> HIDE DEF Bad
    <3> QED BY <2>1, <3>1, LeastExists
  <2>3. n # 0 /\ n - 1 \in Nat /\ n - 1 \notin Bad
    BY <1>4, <2>2
  <2>4. Good((n - 1) + 1)
    BY <1>5, <2>3
  <2> QED BY <2>2, <2>4
<1> QED BY <1>2, <1>3, <1>6 DEF Good

-----------------------------------------------------------------------------
(* The calls to the moderator                                               *)

(* What calls to the moderator do to its queue: a robot gets ready for a       *)
(* checkpoint, is ready for nothing beyond one any more, or not ready at all. *)
Queued(m, r, checkpoint, n) ==
  /\ n.queue = Append(m.queue, [robot |-> r, checkpoint |-> checkpoint])
  /\ n.last_ready = [m.last_ready EXCEPT ![r] = checkpoint]
Unqueued(m, r, checkpoint, n) ==
  /\ n.last_ready = [m.last_ready EXCEPT ![r] = checkpoint - 1]
  /\ DOMAIN n.queue = DOMAIN m.queue
  /\ \A i \in DOMAIN m.queue :
       /\ n.queue[i].robot = m.queue[i].robot
       /\ n.queue[i].checkpoint = NoPoint \/ n.queue[i].checkpoint <= m.queue[i].checkpoint
NotReady(m, r, n) ==
  n.queue = m.queue /\ n.last_ready = [m.last_ready EXCEPT ![r] = NoPoint]

(* What a robot is told keeps robots apart if its new range does.           *)
LEMMA OneRangeIsSafe ==
  ASSUME NEW m, Safe(m), NEW r \in Robots, NEW range \in AssignedRange, NEW n, IsModerator(n),
         n.ranges = [m.ranges EXCEPT ![r] = range],
         \A s \in Robots : n.last_reached[s] = IF s = r THEN range.begin ELSE m.last_reached[s],
         r \notin n.known => range = Range0,
         \A s \in Robots : s # r => (s \in n.known <=> s \in m.known),
         \A p, q \in Robots : \A A, B \in Bracket :
           Guard(p, A, q, B) /\ p \in n.known /\ q \in n.known =>
             Blocker(A, Size(p), B, Size(q), q) \in n.blockers[p][q],
         \A s \in Robots : \A A, B \in Bracket :
           Guard(r, A, s, B) => Apart(A, Size(r), range, B, Size(s), m.ranges[s])
  PROVE  Safe(n)
<1>1. n.ranges[r] = range /\ \A s \in Robots : s # r => n.ranges[s] = m.ranges[s]
  BY DEF Safe, IsModerator
<1>2. RangesFit(n)
  BY <1>1 DEF Safe, RangesFit
<1>3. ASSUME NEW p \in Robots, NEW q \in Robots, NEW A \in Bracket, NEW B \in Bracket, Guard(p, A, q, B)
      PROVE  Apart(A, Size(p), n.ranges[p], B, Size(q), n.ranges[q])
  <2>1. p # q
    BY <1>3 DEF Guard
  <2>2. CASE p = r
    BY <1>1, <1>3, <2>1, <2>2
  <2>3. CASE q = r
    <3>1. Apart(B, Size(r), range, A, Size(p), m.ranges[p])
      BY <1>3, <2>3, GuardTurned
    <3> QED BY <1>1, <2>1, <2>3, <3>1 DEF Apart
  <2>4. CASE p # r /\ q # r
    BY <1>1, <1>3, <2>4 DEF Safe, GuardsHold
  <2> QED BY <2>2, <2>3, <2>4
<1> QED BY <1>2, <1>3 DEF Safe, GuardsHold

(* ready: a robot asks to go on; it enters the queue, which is processed.     *)
LEMMA ReadyQueues ==
  ASSUME NEW m, Safe(m), NEW r \in Robots, NEW checkpoint \in Int
  PROVE  \/ WithReady(m, r, checkpoint) = m
         \/ \E n : /\ Safe(n) /\ WithReady(m, r, checkpoint) = Processed(n)
                   /\ n.known = m.known /\ n.blockers = m.blockers /\ n.loops = m.loops
                   /\ n.ranges = m.ranges
                   /\ Queued(m, r, checkpoint, n)
<1>1. m.queue \in Seq(Ready) /\ [robot |-> r, checkpoint |-> checkpoint] \in Ready
  BY DEF Safe, IsModerator, Ready
<1>2. CASE checkpoint <= m.last_ready[r]
  BY <1>2 DEF WithReady
<1>3. CASE ~(checkpoint <= m.last_ready[r])
  <2> DEFINE queue == Append(m.queue, [robot |-> r, checkpoint |-> checkpoint])
             n == [m EXCEPT !.last_ready[r] = checkpoint,
                     !.queue = Append(@, [robot |-> r, checkpoint |-> checkpoint])]
  <2>1. queue \in Seq(Ready)
    BY <1>1
  <2>2. n = [known |-> m.known, blockers |-> m.blockers, loops |-> m.loops, ranges |-> m.ranges,
             queue |-> queue, last_ready |-> [m.last_ready EXCEPT ![r] = checkpoint],
             last_reached |-> m.last_reached]
    <3>1. n = [m EXCEPT !.last_ready = [m.last_ready EXCEPT ![r] = checkpoint], !.queue = queue]
      OBVIOUS
    <3> HIDE DEF n, queue
    <3> QED BY <3>1 DEF Safe, IsModerator
  <2>3. WithReady(m, r, checkpoint) = Processed(n)
    BY <1>3 DEF WithReady
  <2> HIDE DEF n, queue
  <2>4. IsModerator(n)
    BY <2>1, <2>2 DEF Safe, IsModerator
  <2>5. Safe(n) /\ Grown(m, n)
    BY <1>1, <2>2, <2>4, QueueIsSafe
  <2>6. /\ n.known = m.known /\ n.blockers = m.blockers /\ n.loops = m.loops
        /\ n.ranges = m.ranges /\ n.queue = queue
        /\ n.last_ready = [m.last_ready EXCEPT ![r] = checkpoint]
    BY <2>2
  <2> QED BY <2>3, <2>5, <2>6 DEF queue, Queued
<1> QED BY <1>2, <1>3

LEMMA ReadyIsSafe ==
  ASSUME NEW m, Safe(m), NEW r \in Robots, NEW checkpoint \in Int
  PROVE  Safe(WithReady(m, r, checkpoint)) /\ Grown(m, WithReady(m, r, checkpoint))
<1>1. CASE WithReady(m, r, checkpoint) = m
  <2>1. m.queue \in Seq(Ready)
    BY DEF Safe, IsModerator
  <2> QED BY <1>1, <2>1, QueueIsSafe DEF Safe
<1>2. CASE WithReady(m, r, checkpoint) # m
  <2>1. PICK n : /\ Safe(n) /\ WithReady(m, r, checkpoint) = Processed(n)
                 /\ n.known = m.known /\ n.ranges = m.ranges
    BY <1>2, ReadyQueues
  <2>2. Safe(Processed(n)) /\ Grown(n, Processed(n))
    BY <2>1, ProcessedIsSafe
  <2> QED BY <2>1, <2>2 DEF Grown
<1> QED BY <1>1, <1>2

(* reached: a robot reports a checkpoint of its range, which begins there.   *)
LEMMA ReachedMoves ==
  ASSUME NEW m, Safe(m), NEW r \in m.known, NEW c \in Nat, c <= m.ranges[r].end
  PROVE  \/ c <= m.ranges[r].begin /\ WithReached(m, r, c) = m
         \/ /\ ~(c <= m.ranges[r].begin)
            /\ \E n : /\ Safe(n) /\ WithReached(m, r, c) = Processed(n)
                      /\ n.known = m.known /\ n.blockers = m.blockers /\ n.loops = m.loops
                      /\ n.ranges = [m.ranges EXCEPT ![r] = [m.ranges[r] EXCEPT !.begin = c]]
                      /\ n.queue = m.queue /\ n.last_ready = m.last_ready
<1>1. /\ r \in Robots /\ m.ranges \in [Robots -> AssignedRange]
      /\ m.last_reached[r] = m.ranges[r].begin /\ m.last_reached \in [Robots -> Nat]
  BY DEF Safe, IsModerator, RangesFit
<1>2. \A s \in Robots : m.ranges[s].begin \in Nat /\ m.ranges[s].end \in Nat
  BY <1>1 DEF AssignedRange
<1>3. CASE c <= m.ranges[r].begin
  BY <1>1, <1>3 DEF WithReached
<1>4. CASE ~(c <= m.ranges[r].begin)
  <2> DEFINE range == [m.ranges[r] EXCEPT !.begin = c]
             n == [m EXCEPT !.last_reached[r] = c, !.ranges[r].begin = c]
             reached == [m.last_reached EXCEPT ![r] = c]
  <2>1. range \in AssignedRange /\ range.begin = c /\ range.end = m.ranges[r].end
    <3>1. m.ranges[r] \in AssignedRange
      BY <1>1
    <3> QED BY <3>1 DEF AssignedRange
  <2>2. n = [m EXCEPT !.last_reached = reached, !.ranges = [m.ranges EXCEPT ![r] = range]]
    OBVIOUS
  <2>3. reached \in [Robots -> Nat] /\ reached[r] = c
        /\ \A s \in Robots : s # r => reached[s] = m.last_reached[s]
    BY <1>1
  <2>4. WithReached(m, r, c) = Processed(n)
    BY <1>1, <1>4 DEF WithReached
  <2>5. \A s \in Robots : \A A, B \in Bracket :
          Guard(r, A, s, B) => Apart(A, Size(r), range, B, Size(s), m.ranges[s])
    <3>1. TAKE s \in Robots
    <3> TAKE A \in Bracket, B \in Bracket
    <3>2. HAVE Guard(r, A, s, B)
    <3>3. Apart(A, Size(r), m.ranges[r], B, Size(s), m.ranges[s])
      BY <1>1, <3>2 DEF Safe, GuardsHold
    <3>4. m.ranges[r] \in AssignedRange /\ m.ranges[s] \in AssignedRange /\ m.ranges[r].begin <= c
      BY <1>1, <1>2, <1>4
    <3> QED BY <3>3, <3>4, <1>1, Sizes, ReachingKeepsApart
  <2> HIDE DEF range, n, reached
  <2>6. n = [known |-> m.known, blockers |-> m.blockers, loops |-> m.loops,
             ranges |-> [m.ranges EXCEPT ![r] = range],
             queue |-> m.queue, last_ready |-> m.last_ready, last_reached |-> reached]
    BY <2>2 DEF Safe, IsModerator
  <2>7. IsModerator(n)
    <3>1. [m.ranges EXCEPT ![r] = range] \in [Robots -> AssignedRange]
      BY <1>1, <2>1
    <3> QED BY <2>3, <2>6, <3>1 DEF Safe, IsModerator
  <2>8. Safe(n)
    <3>1. /\ n.ranges = [m.ranges EXCEPT ![r] = range] /\ n.known = m.known
          /\ n.blockers = m.blockers /\ n.last_reached = reached
      BY <2>6
    <3>2. \A p, q \in Robots : \A A, B \in Bracket :
            Guard(p, A, q, B) /\ p \in n.known /\ q \in n.known =>
              Blocker(A, Size(p), B, Size(q), q) \in n.blockers[p][q]
      BY <3>1 DEF Safe, GuardsHold
    <3>3. \A s \in Robots : n.last_reached[s] = IF s = r THEN range.begin ELSE m.last_reached[s]
      BY <3>1, <2>1, <2>3
    <3> QED BY <1>1, <2>1, <2>5, <2>7, <3>1, <3>2, <3>3, OneRangeIsSafe
  <2>9. /\ n.known = m.known /\ n.blockers = m.blockers /\ n.loops = m.loops
        /\ n.ranges = [m.ranges EXCEPT ![r] = range]
        /\ n.queue = m.queue /\ n.last_ready = m.last_ready
    BY <2>6
  <2> QED BY <1>4, <2>4, <2>8, <2>9 DEF range
<1> QED BY <1>3, <1>4

LEMMA ReachedIsSafe ==
  ASSUME NEW m, Safe(m), NEW r \in m.known, NEW c \in Nat, c <= m.ranges[r].end
  PROVE  LET n == WithReached(m, r, c)
         IN  /\ Safe(n) /\ n.known = m.known
             /\ \A s \in Robots : m.ranges[s].end <= n.ranges[s].end
             /\ \A s \in Robots : s # r => n.ranges[s].begin = m.ranges[s].begin
             /\ n.ranges[r].begin = IF c <= m.ranges[r].begin THEN m.ranges[r].begin ELSE c
<1>1. r \in Robots /\ m.ranges \in [Robots -> AssignedRange]
  BY DEF Safe, IsModerator
<1>2. \A s \in Robots : m.ranges[s].begin \in Nat /\ m.ranges[s].end \in Nat
  BY <1>1 DEF AssignedRange
<1>3. CASE c <= m.ranges[r].begin
  <2>1. WithReached(m, r, c) = m
    BY <1>3, ReachedMoves
  <2>2. \A s \in Robots : m.ranges[s].end <= m.ranges[s].end
    BY <1>2
  <2> QED BY <1>3, <2>1, <2>2
<1>4. CASE ~(c <= m.ranges[r].begin)
  <2> DEFINE range == [m.ranges[r] EXCEPT !.begin = c]
  <2>1. range.begin = c /\ range.end = m.ranges[r].end
    <3>1. m.ranges[r] \in AssignedRange
      BY <1>1
    <3> QED BY <3>1 DEF AssignedRange
  <2>2. PICK n : /\ Safe(n) /\ WithReached(m, r, c) = Processed(n) /\ n.known = m.known
                 /\ n.ranges = [m.ranges EXCEPT ![r] = range]
    BY <1>4, ReachedMoves
  <2> HIDE DEF range
  <2>3. Safe(Processed(n)) /\ Grown(n, Processed(n))
    BY <2>2, ProcessedIsSafe
  <2>4. /\ n.ranges[r].begin = c /\ n.ranges[r].end = m.ranges[r].end
        /\ \A s \in Robots : s # r => n.ranges[s] = m.ranges[s]
    BY <1>1, <2>1, <2>2
  <2>5. \A s \in Robots : n.ranges[s].end = m.ranges[s].end
                          /\ (s # r => n.ranges[s].begin = m.ranges[s].begin)
    BY <2>4
  <2> QED BY <1>1, <1>4, <2>2, <2>3, <2>4, <2>5 DEF Grown
<1> QED BY <1>3, <1>4

(* release: a robot is told to wait at a checkpoint of its range after all.  *)
(* What the other may count on, that it moves out of a bracket, it keeps.   *)
LEMMA ReleaseShortens ==
  ASSUME NEW m, Safe(m), NEW r \in m.known, NEW checkpoint \in Dependent[r], checkpoint \in Int,
         m.ranges[r].begin <= checkpoint, checkpoint < m.ranges[r].end
  PROVE  \E n : /\ Safe(n) /\ WithRelease(m, r, checkpoint) = Processed(n)
               /\ n.known = m.known /\ n.blockers = m.blockers /\ n.loops = m.loops
               /\ n.ranges = [m.ranges EXCEPT ![r] = [m.ranges[r] EXCEPT !.end = checkpoint]]
               /\ Unqueued(m, r, checkpoint, n)
<1>1. /\ r \in Robots /\ m.ranges \in [Robots -> AssignedRange] /\ m.queue \in Seq(Ready)
      /\ m.last_reached[r] = m.ranges[r].begin /\ m.last_reached \in [Robots -> Nat]
  BY DEF Safe, IsModerator, RangesFit
<1>2. \A s \in Robots : m.ranges[s].begin \in Nat /\ m.ranges[s].end \in Nat
  BY <1>1 DEF AssignedRange
<1> DEFINE from == Max({checkpoint, m.last_reached[r]})
           end == Min({m.ranges[r].end, from})
           range == [m.ranges[r] EXCEPT !.end = end]
           ready(c) == IF from > 0 THEN Min({c, from}) ELSE NoPoint
           queue == [i \in DOMAIN m.queue |-> IF m.queue[i].robot = r
                       THEN [m.queue[i] EXCEPT !.checkpoint = ready(@)] ELSE m.queue[i]]
           n == [m EXCEPT !.last_ready[r] = from - 1, !.ranges[r].end = end, !.queue = queue]
<1>3. WithRelease(m, r, checkpoint) = Processed(n)
  BY DEF WithRelease
<1>14. from = checkpoint
  <2>1. m.last_reached[r] \in Int
    BY <1>1
  <2> QED BY <1>1, <1>2, <2>1, OfTwo
<1> HIDE DEF from
<1>15. end = checkpoint
  <2>1. m.ranges[r].end \in Int
    BY <1>1, <1>2
  <2> QED BY <1>14, <2>1, OfTwo
<1> HIDE DEF end
<1>4. range \in AssignedRange /\ range.begin = m.ranges[r].begin /\ range.end = checkpoint
  <2>1. m.ranges[r] \in AssignedRange
    BY <1>1
  <2> QED BY <1>15, <2>1 DEF AssignedRange
<1>5. queue \in Seq(Ready)
  <2>1. ASSUME NEW i \in DOMAIN m.queue PROVE queue[i] \in Ready
    <3>1. m.queue[i] \in Ready
      BY <1>1
    <3>2. ready(m.queue[i].checkpoint) \in Int
      <4>1. m.queue[i].checkpoint \in Int
        BY <3>1 DEF Ready
      <4> QED BY <1>14, <4>1, OfTwo DEF NoPoint
    <3> HIDE DEF ready
    <3> QED BY <3>1, <3>2 DEF Ready
  <2>2. DOMAIN m.queue = 1..Len(m.queue) /\ Len(m.queue) \in Nat /\ DOMAIN queue = DOMAIN m.queue
    BY <1>1
  <2> HIDE DEF queue
  <2>3. queue \in [1..Len(m.queue) -> Ready]
    <3>1. queue = [i \in DOMAIN m.queue |-> queue[i]]
      BY DEF queue
    <3> QED BY <2>1, <2>2, <3>1
  <2> QED BY <2>2, <2>3, SeqDef
<1>6. \A s \in Robots : \A A, B \in Bracket :
        Guard(r, A, s, B) => Apart(A, Size(r), range, B, Size(s), m.ranges[s])
  <2>1. TAKE s \in Robots
  <2> TAKE A \in Bracket, B \in Bracket
  <2>2. HAVE Guard(r, A, s, B)
  <2>3. Apart(A, Size(r), m.ranges[r], B, Size(s), m.ranges[s])
    BY <1>1, <2>2 DEF Safe, GuardsHold
  <2>4. A.include_finish /\ HasLeft(A, Size(r), m.ranges[r]) => A.finish < checkpoint
    <3>1. A.finish \in Nat
      BY DEF Bracket
    <3>2. A.include_finish => A.finish # checkpoint
      BY <2>2 DEF Guard, StaysPassed
    <3> QED BY <1>1, <1>2, <3>1, <3>2 DEF HasLeft
  <2>5. m.ranges[r] \in AssignedRange /\ m.ranges[s] \in AssignedRange /\ checkpoint <= m.ranges[r].end
        /\ checkpoint \in Nat
    BY <1>1, <1>2
  <2>6. Apart(A, Size(r), [m.ranges[r] EXCEPT !.end = checkpoint], B, Size(s), m.ranges[s])
    BY <2>3, <2>4, <2>5, <1>1, Sizes, ReleaseKeepsApart
  <2> QED BY <1>15, <2>6
<1>16. DOMAIN queue = DOMAIN m.queue
  OBVIOUS
<1>17. ASSUME NEW i \in DOMAIN m.queue
       PROVE  /\ queue[i].robot = m.queue[i].robot
              /\ queue[i].checkpoint = NoPoint \/ queue[i].checkpoint <= m.queue[i].checkpoint
  <2>1. m.queue[i] \in Ready
    BY <1>1
  <2>4. m.queue[i].checkpoint \in Int
    BY <2>1 DEF Ready
  <2>2. ready(m.queue[i].checkpoint) = NoPoint
        \/ ready(m.queue[i].checkpoint) <= m.queue[i].checkpoint
    BY <1>14, <2>4, OfTwo
  <2>3. queue[i] = IF m.queue[i].robot = r
                   THEN [m.queue[i] EXCEPT !.checkpoint = ready(m.queue[i].checkpoint)]
                   ELSE m.queue[i]
    OBVIOUS
  <2> HIDE DEF queue, ready
  <2> QED BY <2>1, <2>2, <2>3, <2>4 DEF Ready
<1>7. n = [m EXCEPT !.last_ready = [m.last_ready EXCEPT ![r] = from - 1], !.queue = queue,
                    !.ranges = [m.ranges EXCEPT ![r] = range]]
  OBVIOUS
<1> HIDE DEF range, n, queue
<1>8. n = [known |-> m.known, blockers |-> m.blockers, loops |-> m.loops,
           ranges |-> [m.ranges EXCEPT ![r] = range], queue |-> queue,
           last_ready |-> [m.last_ready EXCEPT ![r] = from - 1],
           last_reached |-> m.last_reached]
  BY <1>7 DEF Safe, IsModerator
<1>9. IsModerator(n)
  <2>1. [m.ranges EXCEPT ![r] = range] \in [Robots -> AssignedRange]
    BY <1>1, <1>4
  <2> QED BY <1>5, <1>8, <2>1 DEF Safe, IsModerator
<1>10. /\ n.ranges = [m.ranges EXCEPT ![r] = range] /\ n.known = m.known
       /\ n.blockers = m.blockers /\ n.loops = m.loops /\ n.last_reached = m.last_reached
       /\ n.queue = queue /\ n.last_ready = [m.last_ready EXCEPT ![r] = checkpoint - 1]
  BY <1>8, <1>14
<1>11. Safe(n)
  <2>1. \A p, q \in Robots : \A A, B \in Bracket :
          Guard(p, A, q, B) /\ p \in n.known /\ q \in n.known =>
            Blocker(A, Size(p), B, Size(q), q) \in n.blockers[p][q]
    BY <1>10 DEF Safe, GuardsHold
  <2> QED BY <1>1, <1>4, <1>6, <1>9, <1>10, <2>1, OneRangeIsSafe
<1>12. range = [m.ranges[r] EXCEPT !.end = checkpoint]
  BY <1>15 DEF range
<1> HIDE DEF ready
<1> QED BY <1>3, <1>10, <1>11, <1>12, <1>16, <1>17 DEF Unqueued

LEMMA ReleaseIsSafe ==
  ASSUME NEW m, Safe(m), NEW r \in m.known, NEW checkpoint \in Dependent[r], checkpoint \in Int,
         m.ranges[r].begin <= checkpoint, checkpoint < m.ranges[r].end
  PROVE  LET n == WithRelease(m, r, checkpoint)
         IN  /\ Safe(n) /\ n.known = m.known
             /\ \A s \in Robots : n.ranges[s].begin = m.ranges[s].begin
             /\ \A s \in Robots : s # r => m.ranges[s].end <= n.ranges[s].end
             /\ checkpoint <= n.ranges[r].end
<1> DEFINE range == [m.ranges[r] EXCEPT !.end = checkpoint]
<1>1. /\ r \in Robots /\ m.ranges \in [Robots -> AssignedRange]
      /\ range.begin = m.ranges[r].begin /\ range.end = checkpoint
  <2>1. r \in Robots /\ m.ranges \in [Robots -> AssignedRange]
    BY DEF Safe, IsModerator
  <2> QED BY <2>1 DEF AssignedRange
<1>2. PICK n : /\ Safe(n) /\ WithRelease(m, r, checkpoint) = Processed(n) /\ n.known = m.known
               /\ n.ranges = [m.ranges EXCEPT ![r] = range]
  BY ReleaseShortens
<1> HIDE DEF range
<1>3. Safe(Processed(n)) /\ Grown(n, Processed(n))
  BY <1>2, ProcessedIsSafe
<1>4. /\ n.ranges[r].begin = m.ranges[r].begin /\ n.ranges[r].end = checkpoint
      /\ \A s \in Robots : s # r => n.ranges[s] = m.ranges[s]
  BY <1>1, <1>2
<1>5. \A s \in Robots : n.ranges[s].begin = m.ranges[s].begin
                        /\ (s # r => n.ranges[s].end = m.ranges[s].end)
  BY <1>4
<1> QED BY <1>1, <1>2, <1>3, <1>4, <1>5 DEF Grown

(* The constraints of the robots when one gets a path, and when it is done.   *)
BlockersWith(m, r) ==
  [p \in Robots |-> [q \in Robots |->
    CASE p = r -> IF q \in m.known THEN PeerBlockers[r][q].of ELSE {}
      [] q = r /\ p \in m.known -> PeerBlockers[r][p].by
      [] OTHER -> m.blockers[p][q]]]
BlockersWithout(m, r) ==
  [p \in Robots |-> [q \in Robots |-> IF r \in {p, q} THEN {} ELSE m.blockers[p][q]]]

(* set: a robot gets a path, and the constraints with all other robots that  *)
(* have one.                                                                *)
LEMMA SetAdds ==
  ASSUME NEW m, Safe(m), NEW r \in Robots \ m.known, NEW order
  PROVE  \E n : /\ Safe(n) /\ WithSet(m, r, order) = Processed(n)
               /\ n.known = m.known \cup {r} /\ n.ranges = m.ranges
               /\ n.blockers = BlockersWith(m, r)
               /\ n.loops = GridlockLoops(n.blockers, order)
               /\ NotReady(m, r, n)
<1> DEFINE blockers == [p \in Robots |-> [q \in Robots |->
             CASE p = r -> IF q \in m.known THEN PeerBlockers[r][q].of ELSE {}
               [] q = r /\ p \in m.known -> PeerBlockers[r][p].by
               [] OTHER -> m.blockers[p][q]]]
           loops == GridlockLoops(blockers, order)
           n == [m EXCEPT !.known = @ \cup {r}, !.blockers = blockers, !.loops = loops,
                          !.ranges[r] = Range0, !.last_ready[r] = NoPoint, !.last_reached[r] = 0]
<1>1. WithSet(m, r, order) = Processed(n)
  BY DEF WithSet
<1>2. \A p, q \in Robots : \A A, B \in Bracket :
        Guard(p, A, q, B) /\ p \in m.known \cup {r} /\ q \in m.known \cup {r} =>
          Blocker(A, Size(p), B, Size(q), q) \in blockers[p][q]
  <2>1. TAKE p \in Robots, q \in Robots
  <2> TAKE A \in Bracket, B \in Bracket
  <2>2. HAVE Guard(p, A, q, B) /\ p \in m.known \cup {r} /\ q \in m.known \cup {r}
  <2>3. /\ Blocker(A, Size(p), B, Size(q), q) \in PeerBlockers[p][q].of
        /\ Blocker(A, Size(p), B, Size(q), q) \in PeerBlockers[q][p].by
        /\ p # q
    BY <2>2 DEF Guard, Constrained
  <2>4. p # r /\ q # r => Blocker(A, Size(p), B, Size(q), q) \in m.blockers[p][q]
    BY <2>2 DEF Safe, GuardsHold
  <2> QED BY <2>2, <2>3, <2>4
<1> HIDE DEF blockers, loops
<1>3. /\ r \in Robots /\ m.ranges \in [Robots -> AssignedRange] /\ m.ranges[r] = Range0
      /\ m.last_reached[r] = 0 /\ m.last_reached \in [Robots -> Nat]
  BY DEF Safe, IsModerator, RangesFit, Range0
<1>4. n = [known |-> m.known \cup {r}, blockers |-> blockers, loops |-> loops,
           ranges |-> m.ranges, queue |-> m.queue,
           last_ready |-> [m.last_ready EXCEPT ![r] = NoPoint],
           last_reached |-> m.last_reached]
  <2>1. [m.ranges EXCEPT ![r] = Range0] = m.ranges /\ [m.last_reached EXCEPT ![r] = 0] = m.last_reached
    BY <1>3
  <2>2. n = [m EXCEPT !.known = m.known \cup {r}, !.blockers = blockers, !.loops = loops,
                      !.ranges = m.ranges, !.last_ready = [m.last_ready EXCEPT ![r] = NoPoint],
                      !.last_reached = m.last_reached]
    BY <2>1
  <2> HIDE DEF n
  <2> QED BY <2>2 DEF Safe, IsModerator
<1> HIDE DEF n
<1>5. IsModerator(n)
  BY <1>3, <1>4 DEF Safe, IsModerator
<1>6. Safe(n)
  BY <1>2, <1>4, <1>5 DEF Safe, RangesFit, GuardsHold
<1>7. /\ n.known = m.known \cup {r} /\ n.ranges = m.ranges /\ n.blockers = blockers
      /\ n.loops = loops /\ n.queue = m.queue
      /\ n.last_ready = [m.last_ready EXCEPT ![r] = NoPoint]
  BY <1>4
<1>8. n.loops = GridlockLoops(n.blockers, order)
  BY <1>7 DEF loops
<1> QED BY <1>1, <1>6, <1>7, <1>8 DEF blockers, BlockersWith, NotReady

LEMMA SetIsSafe ==
  ASSUME NEW m, Safe(m), NEW r \in Robots \ m.known, NEW order
  PROVE  LET n == WithSet(m, r, order)
         IN  /\ Safe(n) /\ n.known = m.known \cup {r}
             /\ \A s \in Robots : n.ranges[s].begin = m.ranges[s].begin
                                  /\ m.ranges[s].end <= n.ranges[s].end
<1>1. PICK n : /\ Safe(n) /\ WithSet(m, r, order) = Processed(n)
               /\ n.known = m.known \cup {r} /\ n.ranges = m.ranges
               /\ n.blockers = BlockersWith(m, r)
               /\ n.loops = GridlockLoops(n.blockers, order)
  BY SetAdds
<1>2. Safe(Processed(n)) /\ Grown(n, Processed(n))
  BY <1>1, ProcessedIsSafe
<1> QED BY <1>1, <1>2 DEF Grown

(* cancel: a robot that is done leaves no constraints.                      *)
LEMMA CancelRemoves ==
  ASSUME NEW m, Safe(m), NEW r \in Robots, NEW order
  PROVE  \E n : /\ Safe(n) /\ WithCancel(m, r, order) = Processed(n)
               /\ n.known = m.known \ {r} /\ n.ranges = [m.ranges EXCEPT ![r] = Range0]
               /\ n.blockers = BlockersWithout(m, r)
               /\ n.loops = GridlockLoops(n.blockers, order)
               /\ NotReady(m, r, n)
<1> DEFINE blockers == [p \in Robots |-> [q \in Robots |->
             IF r \in {p, q} THEN {} ELSE m.blockers[p][q]]]
           loops == GridlockLoops(blockers, order)
           n == [m EXCEPT !.known = @ \ {r}, !.blockers = blockers, !.loops = loops,
                          !.ranges[r] = Range0, !.last_ready[r] = NoPoint, !.last_reached[r] = 0]
<1>1. WithCancel(m, r, order) = Processed(n)
  BY DEF WithCancel
<1>2. \A p, q \in Robots : \A A, B \in Bracket :
        Guard(p, A, q, B) /\ p \in m.known \ {r} /\ q \in m.known \ {r} =>
          Blocker(A, Size(p), B, Size(q), q) \in blockers[p][q]
  BY DEF Safe, GuardsHold
<1> HIDE DEF blockers, loops
<1>3. m.ranges \in [Robots -> AssignedRange] /\ m.last_reached \in [Robots -> Nat]
      /\ Range0 \in AssignedRange /\ Range0.begin = 0
  BY DEF Safe, IsModerator, Range0, AssignedRange
<1>4. n = [known |-> m.known \ {r}, blockers |-> blockers, loops |-> loops,
           ranges |-> [m.ranges EXCEPT ![r] = Range0], queue |-> m.queue,
           last_ready |-> [m.last_ready EXCEPT ![r] = NoPoint],
           last_reached |-> [m.last_reached EXCEPT ![r] = 0]]
  <2>1. n = [m EXCEPT !.known = m.known \ {r}, !.blockers = blockers, !.loops = loops,
                      !.ranges = [m.ranges EXCEPT ![r] = Range0],
                      !.last_ready = [m.last_ready EXCEPT ![r] = NoPoint],
                      !.last_reached = [m.last_reached EXCEPT ![r] = 0]]
    OBVIOUS
  <2> HIDE DEF n
  <2> QED BY <2>1 DEF Safe, IsModerator
<1> HIDE DEF n
<1>5. IsModerator(n)
  <2>1. /\ [m.ranges EXCEPT ![r] = Range0] \in [Robots -> AssignedRange]
        /\ [m.last_reached EXCEPT ![r] = 0] \in [Robots -> Nat]
    BY <1>3
  <2> QED BY <1>4, <2>1 DEF Safe, IsModerator
<1>6. /\ n.ranges = [m.ranges EXCEPT ![r] = Range0] /\ n.known = m.known \ {r}
      /\ n.blockers = blockers /\ n.last_reached = [m.last_reached EXCEPT ![r] = 0]
      /\ n.loops = loops /\ n.queue = m.queue
      /\ n.last_ready = [m.last_ready EXCEPT ![r] = NoPoint]
  BY <1>4
<1>7. Safe(n)
  <2>1. \A s \in Robots : \A A, B \in Bracket :
          Guard(r, A, s, B) => Apart(A, Size(r), Range0, B, Size(s), m.ranges[s])
    BY StartIsOutside DEF Apart
  <2>2. \A s \in Robots : n.last_reached[s] = IF s = r THEN Range0.begin ELSE m.last_reached[s]
    BY <1>3, <1>6
  <2>3. \A s \in Robots : s # r => (s \in n.known <=> s \in m.known)
    BY <1>6
  <2>4. \A p, q \in Robots : \A A, B \in Bracket :
          Guard(p, A, q, B) /\ p \in n.known /\ q \in n.known =>
            Blocker(A, Size(p), B, Size(q), q) \in n.blockers[p][q]
    BY <1>2, <1>6
  <2> QED BY <1>3, <1>5, <1>6, <2>1, <2>2, <2>3, <2>4, OneRangeIsSafe
<1>8. n.loops = GridlockLoops(n.blockers, order)
  BY <1>6 DEF loops
<1> QED BY <1>1, <1>6, <1>7, <1>8 DEF blockers, BlockersWithout, NotReady

LEMMA CancelIsSafe ==
  ASSUME NEW m, Safe(m), NEW r \in Robots, NEW order
  PROVE  LET n == WithCancel(m, r, order)
         IN  /\ Safe(n) /\ n.known = m.known \ {r}
             /\ \A s \in Robots : s # r => n.ranges[s].begin = m.ranges[s].begin
                                           /\ m.ranges[s].end <= n.ranges[s].end
<1>1. PICK n : /\ Safe(n) /\ WithCancel(m, r, order) = Processed(n)
               /\ n.known = m.known \ {r} /\ n.ranges = [m.ranges EXCEPT ![r] = Range0]
               /\ n.blockers = BlockersWithout(m, r)
               /\ n.loops = GridlockLoops(n.blockers, order)
  BY CancelRemoves
<1>2. Safe(Processed(n)) /\ Grown(n, Processed(n))
  BY <1>1, ProcessedIsSafe
<1>3. m.ranges \in [Robots -> AssignedRange]
  BY DEF Safe, IsModerator
<1>4. \A s \in Robots : s # r => n.ranges[s] = m.ranges[s]
  BY <1>1, <1>3
<1> QED BY <1>1, <1>2, <1>4 DEF Grown

-----------------------------------------------------------------------------
(* Robots stay apart                                                        *)

(* A robot that drives is within its range, and leaves a checkpoint only if  *)
(* the range goes on.  One that does not drive is at an end of its path.     *)
Placed(r) ==
  /\ phase[r] = "off" => r \notin moderator.known /\ position[r] = 0 /\ ~cleared[r]
  /\ phase[r] = "idle" =>
       r \notin moderator.known /\ position[r] = 2 * (Size(r) - 1) /\ ~cleared[r]
  /\ phase[r] = "driving" =>
       /\ r \in moderator.known
       /\ 2 * moderator.ranges[r].begin <= position[r]
       /\ position[r] <= 2 * moderator.ranges[r].end
       /\ cleared[r] => position[r] <= 2 * moderator.ranges[r].end - 2

RobotTypes ==
  /\ phase \in [Robots -> {"off", "driving", "idle"}]
  /\ position \in [Robots -> Int] /\ cleared \in [Robots -> BOOLEAN]

(* The inductive invariant.                                                 *)
ApartInv == Safe(moderator) /\ RobotTypes /\ \A r \in Robots : Placed(r)

(* No robot moves or has a path at the start.                               *)
LEMMA InitApart == Init => ApartInv
<1> SUFFICES ASSUME Init PROVE ApartInv
  OBVIOUS
<1>1. /\ moderator.known = {} /\ moderator.queue = << >>
      /\ moderator.ranges = [r \in Robots |-> Range0]
      /\ moderator.last_reached = [r \in Robots |-> 0]
  BY DEF Init
<1>2. Range0 \in AssignedRange /\ Range0.begin = 0
  BY DEF Range0, AssignedRange
<1>3. IsModerator(moderator)
  <2>1. moderator = [known |-> moderator.known, blockers |-> moderator.blockers,
                     loops |-> moderator.loops, ranges |-> moderator.ranges,
                     queue |-> moderator.queue, last_ready |-> moderator.last_ready,
                     last_reached |-> moderator.last_reached]
    BY DEF Init
  <2>2. << >> \in Seq(Ready) /\ {} \in SUBSET Robots
    OBVIOUS
  <2>3. [r \in Robots |-> Range0] \in [Robots -> AssignedRange]
        /\ [r \in Robots |-> 0] \in [Robots -> Nat]
    BY <1>2
  <2>4. /\ moderator.known \in SUBSET Robots /\ moderator.queue \in Seq(Ready)
        /\ moderator.ranges \in [Robots -> AssignedRange]
        /\ moderator.last_reached \in [Robots -> Nat]
    BY <1>1, <2>2, <2>3
  <2>5. ASSUME NEW known \in SUBSET Robots, NEW queue \in Seq(Ready), NEW blockers, NEW loops,
               NEW ranges \in [Robots -> AssignedRange], NEW last_ready,
               NEW last_reached \in [Robots -> Nat]
        PROVE  IsModerator([known |-> known, blockers |-> blockers, loops |-> loops,
                            ranges |-> ranges, queue |-> queue, last_ready |-> last_ready,
                            last_reached |-> last_reached])
    BY DEF IsModerator
  <2>6. IsModerator([known |-> moderator.known, blockers |-> moderator.blockers,
                     loops |-> moderator.loops, ranges |-> moderator.ranges,
                     queue |-> moderator.queue, last_ready |-> moderator.last_ready,
                     last_reached |-> moderator.last_reached])
    BY <2>4, <2>5
  <2> QED BY <2>1, <2>6
<1>4. RangesFit(moderator)
  BY <1>1, <1>2 DEF RangesFit
<1>5. GuardsHold(moderator)
  BY <1>1, StartIsOutside DEF GuardsHold, Apart
<1> QED BY <1>1, <1>3, <1>4, <1>5 DEF Init, ApartInv, Safe, RobotTypes, Placed

(* A step of one robot, after which the others have what they had.          *)
LEMMA OneRobotMoves ==
  ASSUME ApartInv, NEW r \in Robots, Safe(moderator'), RobotTypes', Placed(r)',
         \A s \in Robots : s # r =>
           /\ phase'[s] = phase[s] /\ position'[s] = position[s] /\ cleared'[s] = cleared[s]
           /\ s \in moderator'.known <=> s \in moderator.known
           /\ moderator'.ranges[s].begin = moderator.ranges[s].begin
           /\ moderator.ranges[s].end <= moderator'.ranges[s].end
  PROVE  ApartInv'
<1>1. ASSUME NEW s \in Robots, s # r PROVE Placed(s)'
  <2>1. moderator.ranges[s].end \in Nat /\ moderator'.ranges[s].end \in Nat
    BY DEF ApartInv, Safe, IsModerator, AssignedRange
  <2>2. position[s] \in Int /\ Placed(s)
    BY DEF ApartInv, RobotTypes
  <2> QED BY <1>1, <2>1, <2>2 DEF Placed
<1> QED BY <1>1 DEF ApartInv

(* A robot asks whether it may leave checkpoint c, being after checkpoint at *)
(* and not after c.                                                         *)
LEMMA AskKeepsApart ==
  ASSUME ApartInv, NEW r \in Robots, phase[r] = "driving", NEW at \in Nat, NEW c \in Nat,
         at <= moderator.ranges[r].end, 2 * at <= position[r], position[r] <= 2 * c,
         Ask(r, at, c)
  PROVE  ApartInv'
<1> DEFINE m == WithReached(moderator, r, at)
<1>1. /\ Safe(moderator) /\ r \in moderator.known /\ position[r] \in Int
      /\ 2 * moderator.ranges[r].begin <= position[r]
      /\ position[r] <= 2 * moderator.ranges[r].end
  BY DEF ApartInv, RobotTypes, Placed
<1>2. /\ Safe(m) /\ m.known = moderator.known
      /\ \A s \in Robots : moderator.ranges[s].end <= m.ranges[s].end
      /\ \A s \in Robots : s # r => m.ranges[s].begin = moderator.ranges[s].begin
      /\ m.ranges[r].begin = IF at <= moderator.ranges[r].begin
                             THEN moderator.ranges[r].begin ELSE at
  BY <1>1, ReachedIsSafe
<1>3. /\ cleared' = [cleared EXCEPT ![r] = c < m.ranges[r].end]
      /\ \/ moderator' = m
         \/ moderator' = WithReady(m, r, Min({c, Size(r) - 2}))
      /\ UNCHANGED <<phase, position>>
  BY DEF Ask, CheckIfReady, Located
<1> HIDE DEF m
<1>4. Min({c, Size(r) - 2}) \in Int
  BY Sizes, OfTwo
<1>5. Safe(moderator') /\ Grown(m, moderator')
  <2>1. Grown(m, m)
    <3>1. \A s \in Robots : m.ranges[s].end \in Nat
      BY <1>2 DEF Safe, IsModerator, AssignedRange
    <3> QED BY <3>1 DEF Grown
  <2>2. /\ Safe(WithReady(m, r, Min({c, Size(r) - 2})))
        /\ Grown(m, WithReady(m, r, Min({c, Size(r) - 2})))
    BY <1>2, <1>4, ReadyIsSafe
  <2> QED BY <1>2, <1>3, <2>1, <2>2
<1>6. \A s \in Robots : /\ moderator.ranges[s].begin \in Nat /\ moderator.ranges[s].end \in Nat
                        /\ m.ranges[s].end \in Nat /\ moderator'.ranges[s].end \in Nat
  BY <1>1, <1>2, <1>5 DEF Safe, IsModerator, AssignedRange
<1>7. cleared \in [Robots -> BOOLEAN]
  BY DEF ApartInv, RobotTypes
<1>8. RobotTypes'
  BY <1>3, <1>7 DEF ApartInv, RobotTypes
<1>9. Placed(r)'
  <2>1. /\ r \in moderator'.known /\ moderator'.ranges[r].begin = m.ranges[r].begin
        /\ m.ranges[r].end <= moderator'.ranges[r].end
    BY <1>1, <1>2, <1>5 DEF Grown
  <2>2. 2 * m.ranges[r].begin <= position[r]
    BY <1>1, <1>2
  <2>3. position[r] <= 2 * moderator'.ranges[r].end
    BY <1>1, <1>2, <1>6, <2>1
  <2>4. cleared'[r] => position[r] <= 2 * moderator'.ranges[r].end - 2
    <3>1. cleared'[r] = (c < m.ranges[r].end)
      BY <1>3, <1>7
    <3>2. cleared'[r] => c < m.ranges[r].end
      BY <3>1, Zenon
    <3>3. m.ranges[r].end \in Nat /\ moderator'.ranges[r].end \in Nat
      BY <1>6
    <3>4. c < m.ranges[r].end => position[r] <= 2 * moderator'.ranges[r].end - 2
      BY <1>1, <2>1, <3>3
    <3> QED BY <3>2, <3>4, Zenon
  <2> QED BY <1>3, <2>1, <2>2, <2>3, <2>4 DEF Placed
<1>10. \A s \in Robots : s # r =>
         /\ phase'[s] = phase[s] /\ position'[s] = position[s] /\ cleared'[s] = cleared[s]
         /\ s \in moderator'.known <=> s \in moderator.known
         /\ moderator'.ranges[s].begin = moderator.ranges[s].begin
         /\ moderator.ranges[s].end <= moderator'.ranges[s].end
  <2>1. \A s \in Robots : /\ moderator'.ranges[s].begin = m.ranges[s].begin
                          /\ m.ranges[s].end <= moderator'.ranges[s].end
    BY <1>5 DEF Grown
  <2>2. moderator'.known = m.known
    BY <1>5 DEF Grown
  <2>3. \A s \in Robots : moderator.ranges[s].end <= moderator'.ranges[s].end
    BY <1>2, <1>6, <2>1
  <2> QED BY <1>2, <1>3, <1>7, <2>1, <2>2, <2>3
<1> QED BY <1>5, <1>8, <1>9, <1>10, OneRobotMoves

(* The same when a new plan makes the robot wait at a checkpoint after all.  *)
LEMMA NewPlanKeepsApart ==
  ASSUME ApartInv, NEW r \in Robots, phase[r] = "driving", NEW at \in Nat, NEW c \in Nat,
         at <= moderator.ranges[r].end, 2 * at <= position[r], position[r] <= 2 * c,
         AskWithNewPlan(r, at, c)
  PROVE  ApartInv'
<1> DEFINE m == WithReached(moderator, r, at)
<1>1. /\ Safe(moderator) /\ r \in moderator.known /\ position[r] \in Int
      /\ 2 * moderator.ranges[r].begin <= position[r]
      /\ position[r] <= 2 * moderator.ranges[r].end
  BY DEF ApartInv, RobotTypes, Placed
<1>2. /\ Safe(m) /\ m.known = moderator.known
      /\ \A s \in Robots : moderator.ranges[s].end <= m.ranges[s].end
      /\ \A s \in Robots : s # r => m.ranges[s].begin = moderator.ranges[s].begin
      /\ m.ranges[r].begin = IF at <= moderator.ranges[r].begin
                             THEN moderator.ranges[r].begin ELSE at
  BY <1>1, ReachedIsSafe
<1>3. PICK checkpoint \in Releasable(m, r, c) :
        /\ moderator' = WithRelease(m, r, checkpoint)
        /\ cleared' = [cleared EXCEPT ![r] = c < checkpoint]
  BY DEF AskWithNewPlan, Located
<1>4. UNCHANGED <<phase, position>>
  BY DEF AskWithNewPlan
<1> HIDE DEF m
<1>5. \A s \in Robots : /\ moderator.ranges[s].begin \in Nat /\ moderator.ranges[s].end \in Nat
                        /\ m.ranges[s].begin \in Nat /\ m.ranges[s].end \in Nat
  BY <1>1, <1>2 DEF Safe, IsModerator, AssignedRange
<1>6. /\ checkpoint \in Dependent[r] /\ checkpoint \in Int
      /\ c <= checkpoint /\ m.ranges[r].begin <= checkpoint /\ checkpoint < m.ranges[r].end
  <2> DEFINE begin == m.ranges[r].begin
  <2>1. Max({c, m.ranges[r].begin}) = IF c >= m.ranges[r].begin THEN c ELSE m.ranges[r].begin
    <3>1. begin \in Int /\ c \in Int
      BY <1>5
    <3> HIDE DEF begin
    <3>2. Max({c, begin}) = IF c >= begin THEN c ELSE begin
      BY <3>1, OfTwo
    <3> QED BY <3>2 DEF begin
  <2>2. Max({c, m.ranges[r].begin}) \in Int
    BY <1>5, <2>1
  <2>3. checkpoint \in Dependent[r] /\ checkpoint \in Max({c, m.ranges[r].begin})..(m.ranges[r].end - 1)
    BY <1>3 DEF Releasable
  <2> QED BY <1>5, <2>1, <2>2, <2>3
<1>7. /\ Safe(moderator') /\ moderator'.known = m.known
      /\ \A s \in Robots : moderator'.ranges[s].begin = m.ranges[s].begin
      /\ \A s \in Robots : s # r => m.ranges[s].end <= moderator'.ranges[s].end
      /\ checkpoint <= moderator'.ranges[r].end
  BY <1>1, <1>2, <1>3, <1>6, ReleaseIsSafe
<1>8. \A s \in Robots : moderator'.ranges[s].end \in Nat
  BY <1>7 DEF Safe, IsModerator, AssignedRange
<1>9. cleared \in [Robots -> BOOLEAN]
  BY DEF ApartInv, RobotTypes
<1>10. RobotTypes'
  BY <1>3, <1>4, <1>9 DEF ApartInv, RobotTypes
<1>11. Placed(r)'
  <2>1. 2 * m.ranges[r].begin <= position[r]
    BY <1>1, <1>2
  <2>2. position[r] <= 2 * moderator'.ranges[r].end
    BY <1>1, <1>6, <1>7, <1>8
  <2>3. cleared'[r] => position[r] <= 2 * moderator'.ranges[r].end - 2
    <3>1. cleared'[r] = (c < checkpoint)
      BY <1>3, <1>9
    <3>2. cleared'[r] => c < checkpoint
      BY <3>1, Zenon
    <3>3. moderator'.ranges[r].end \in Nat
      BY <1>8
    <3>4. c < checkpoint => position[r] <= 2 * moderator'.ranges[r].end - 2
      BY <1>1, <1>6, <1>7, <3>3
    <3> QED BY <3>2, <3>4, Zenon
  <2> QED BY <1>1, <1>2, <1>4, <1>7, <2>1, <2>2, <2>3 DEF Placed
<1>12. \A s \in Robots : s # r =>
         /\ phase'[s] = phase[s] /\ position'[s] = position[s] /\ cleared'[s] = cleared[s]
         /\ s \in moderator'.known <=> s \in moderator.known
         /\ moderator'.ranges[s].begin = moderator.ranges[s].begin
         /\ moderator.ranges[s].end <= moderator'.ranges[s].end
  <2>1. \A s \in Robots : s # r => moderator.ranges[s].end <= moderator'.ranges[s].end
    BY <1>2, <1>5, <1>7, <1>8
  <2> QED BY <1>2, <1>3, <1>4, <1>7, <1>9, <2>1
<1> QED BY <1>7, <1>10, <1>11, <1>12, OneRobotMoves

(* A robot gets a path, at whose start it is.                               *)
LEMMA FollowKeepsApart ==
  ASSUME ApartInv, NEW r \in Robots, FollowNewPath(r)
  PROVE  ApartInv'
<1>1. PICK order \in SearchOrders : moderator' = WithSet(moderator, r, order)
  BY DEF FollowNewPath
<1>2. /\ Safe(moderator) /\ phase[r] = "off" /\ r \notin moderator.known
      /\ position[r] = 0 /\ ~cleared[r] /\ RobotTypes
      /\ phase' = [phase EXCEPT ![r] = "driving"] /\ UNCHANGED <<position, cleared>>
  BY DEF FollowNewPath, ApartInv, Placed
<1>3. /\ Safe(moderator') /\ moderator'.known = moderator.known \cup {r}
      /\ \A s \in Robots : moderator'.ranges[s].begin = moderator.ranges[s].begin
                           /\ moderator.ranges[s].end <= moderator'.ranges[s].end
  BY <1>1, <1>2, SetIsSafe
<1>4. moderator.ranges[r] = Range0 /\ moderator'.ranges[r].end \in Nat
  BY <1>2, <1>3 DEF Safe, IsModerator, RangesFit, AssignedRange
<1>5. RobotTypes' /\ phase'[r] = "driving" /\ \A s \in Robots : s # r => phase'[s] = phase[s]
  BY <1>2 DEF RobotTypes
<1>6. Placed(r)'
  BY <1>2, <1>3, <1>4, <1>5 DEF Placed, Range0
<1> QED BY <1>2, <1>3, <1>5, <1>6, OneRobotMoves

(* A robot that is at the end of its path is done with it.                  *)
LEMMA IdleKeepsApart ==
  ASSUME ApartInv, NEW r \in Robots, Idle(r)
  PROVE  ApartInv'
<1>1. PICK order \in SearchOrders : moderator' = WithCancel(moderator, r, order)
  BY DEF Idle
<1>2. /\ Safe(moderator) /\ position[r] = 2 * (Size(r) - 1) /\ RobotTypes
      /\ phase' = [phase EXCEPT ![r] = "idle"] /\ UNCHANGED position
      /\ cleared' = [cleared EXCEPT ![r] = FALSE]
  BY DEF Idle, ApartInv
<1>3. /\ Safe(moderator') /\ moderator'.known = moderator.known \ {r}
      /\ \A s \in Robots : s # r => moderator'.ranges[s].begin = moderator.ranges[s].begin
                                    /\ moderator.ranges[s].end <= moderator'.ranges[s].end
  BY <1>1, <1>2, CancelIsSafe
<1>4. /\ RobotTypes' /\ phase'[r] = "idle" /\ ~cleared'[r]
      /\ \A s \in Robots : s # r => phase'[s] = phase[s] /\ cleared'[s] = cleared[s]
  <2>1. phase' \in [Robots -> {"off", "driving", "idle"}] /\ phase'[r] = "idle"
        /\ \A s \in Robots : s # r => phase'[s] = phase[s]
    BY <1>2 DEF RobotTypes
  <2>2. cleared \in [Robots -> BOOLEAN] /\ cleared' = [cleared EXCEPT ![r] = FALSE]
    BY <1>2 DEF RobotTypes
  <2>3. cleared' \in [Robots -> BOOLEAN]
    BY <2>2
  <2>4. cleared'[r] = FALSE
    BY <2>2, Zenon
  <2>5. \A s \in Robots : s # r => cleared'[s] = cleared[s]
    BY <2>2, Zenon
  <2>6. position' \in [Robots -> Int]
    BY <1>2 DEF RobotTypes
  <2> QED BY <2>1, <2>3, <2>4, <2>5, <2>6 DEF RobotTypes
<1>5. Placed(r)'
  BY <1>2, <1>3, <1>4 DEF Placed
<1> QED BY <1>2, <1>3, <1>4, <1>5, OneRobotMoves

(* A robot moves: it leaves a checkpoint when it may, or comes to the next.  *)
LEMMA MoveKeepsApart ==
  ASSUME ApartInv, NEW r \in Robots, Depart(r) \/ Arrive(r)
  PROVE  ApartInv'
<1>1. /\ position[r] \in Int /\ RobotTypes /\ Placed(r) /\ UNCHANGED <<moderator, phase>>
      /\ position' = [position EXCEPT ![r] = position[r] + 1]
      /\ \/ cleared[r] /\ cleared' = [cleared EXCEPT ![r] = FALSE]
         \/ position[r] % 2 = 1 /\ UNCHANGED cleared
  BY DEF Depart, Arrive, ApartInv, RobotTypes
<1>2. /\ RobotTypes' /\ position'[r] = position[r] + 1
      /\ \A s \in Robots : s # r => position'[s] = position[s] /\ cleared'[s] = cleared[s]
  <2>1. /\ position \in [Robots -> Int] /\ cleared \in [Robots -> BOOLEAN]
        /\ phase \in [Robots -> {"off", "driving", "idle"}]
    BY <1>1 DEF RobotTypes
  <2>2. /\ position' \in [Robots -> Int] /\ position'[r] = position[r] + 1
        /\ \A s \in Robots : s # r => position'[s] = position[s]
    BY <1>1, <2>1
  <2>3. cleared' \in [Robots -> BOOLEAN]
    BY <1>1, <2>1
  <2>4. \A s \in Robots : s # r => cleared'[s] = cleared[s]
    BY <1>1, <2>1, Zenon
  <2> QED BY <1>1, <2>1, <2>2, <2>3, <2>4 DEF RobotTypes
<1>3. \A s \in Robots : moderator.ranges[s].begin \in Nat /\ moderator.ranges[s].end \in Nat
  BY DEF ApartInv, Safe, IsModerator, AssignedRange
<1>4. Placed(r)'
  <2>1. CASE cleared[r] /\ cleared' = [cleared EXCEPT ![r] = FALSE]
    <3>1. ~cleared'[r] /\ phase[r] = "driving"
      BY <1>1, <2>1 DEF RobotTypes, Placed
    <3> QED BY <1>1, <1>2, <1>3, <2>1, <3>1 DEF Placed
  <2>2. CASE position[r] % 2 = 1 /\ UNCHANGED cleared
    <3>1. phase[r] = "driving"
      BY <1>1, <2>2, Sizes DEF RobotTypes, Placed
    <3>2. /\ r \in moderator.known /\ 2 * moderator.ranges[r].begin <= position[r] + 1
          /\ position[r] + 1 <= 2 * moderator.ranges[r].end
          /\ cleared[r] => position[r] + 1 <= 2 * moderator.ranges[r].end - 2
      BY <1>1, <1>3, <2>2, <3>1 DEF Placed
    <3> QED BY <1>1, <1>2, <2>2, <3>1, <3>2 DEF Placed
  <2> QED BY <1>1, <2>1, <2>2
<1>5. Safe(moderator') /\ \A s \in Robots : moderator'.ranges[s].end <= moderator'.ranges[s].end
  BY <1>1, <1>3 DEF ApartInv
<1> QED BY <1>1, <1>2, <1>4, <1>5, OneRobotMoves

(* Every step keeps the invariant.                                          *)
LEMMA NextApart == ApartInv /\ [Next]_vars => ApartInv'
<1>1. ASSUME ApartInv, NEW r \in Robots, WaitingAt(r) PROVE ApartInv'
  <2> DEFINE c == position[r] \div 2
  <2>1. /\ phase[r] = "driving" /\ position[r] % 2 = 0 /\ position[r] \in Int
        /\ c <= moderator.ranges[r].end
        /\ Ask(r, c, c) \/ AskWithNewPlan(r, c, c)
    BY <1>1 DEF WaitingAt, ApartInv, RobotTypes
  <2>2. moderator.ranges[r].begin \in Nat /\ 2 * moderator.ranges[r].begin <= position[r]
    BY <1>1, <2>1 DEF ApartInv, Placed, Safe, IsModerator, AssignedRange
  <2>3. c \in Nat /\ 2 * c <= position[r] /\ position[r] <= 2 * c
    BY <2>1, <2>2
  <2> HIDE DEF c
  <2> QED BY <1>1, <2>1, <2>3, AskKeepsApart, NewPlanKeepsApart
<1>2. ASSUME ApartInv, NEW r \in Robots, MovingFrom(r) PROVE ApartInv'
  <2> DEFINE c == (position[r] - 1) \div 2
  <2>1. /\ phase[r] = "driving" /\ position[r] > 0 /\ position[r] \in Int
        /\ c < moderator.ranges[r].end
        /\ Ask(r, c, c + 1) \/ AskWithNewPlan(r, c, c + 1)
    BY <1>2 DEF MovingFrom, ApartInv, RobotTypes
  <2>2. moderator.ranges[r].end \in Nat
    BY <1>2 DEF ApartInv, Safe, IsModerator, AssignedRange
  <2>3. c \in Nat /\ 2 * c <= position[r] /\ position[r] <= 2 * (c + 1)
    BY <2>1
  <2>4. c + 1 \in Nat /\ c <= moderator.ranges[r].end
    BY <2>1, <2>2, <2>3
  <2> HIDE DEF c
  <2> QED BY <1>2, <2>1, <2>3, <2>4, AskKeepsApart, NewPlanKeepsApart
<1>3. ApartInv /\ UNCHANGED vars => ApartInv'
  BY DEF vars, ApartInv, Safe, IsModerator, RangesFit, GuardsHold, RobotTypes, Placed
<1>4. ApartInv /\ Next => ApartInv'
  BY <1>1, <1>2, FollowKeepsApart, IdleKeepsApart, MoveKeepsApart DEF Next
<1> QED BY <1>3, <1>4

(* A robot in a segment is in every bracket that covers it.                 *)
LEMMA InCoveringBracket ==
  ASSUME NEW A \in Bracket, NEW segment \in Bracket, Covers(A, segment),
         NEW range \in AssignedRange, NEW p \in Int, InBracket(segment, range, p)
  PROVE  InBracket(A, range, p)
<1>1. /\ A.start \in Nat /\ A.finish \in Nat /\ segment.start \in Nat /\ segment.finish \in Nat
      /\ range.end \in Nat
  BY DEF Bracket, AssignedRange
<1>2. p > 2 * A.start \/ (A.include_start /\ p = 2 * A.start)
  BY <1>1 DEF InBracket, Covers
<1>3. p < 2 * A.finish \/ (A.include_finish /\ p = 2 * A.finish /\ range.end <= A.finish)
  BY <1>1 DEF InBracket, Covers
<1> QED BY <1>2, <1>3 DEF InBracket

(* Robots that are where the moderator wants them are not both where their   *)
(* paths conflict.                                                          *)
LEMMA ApartAvoidsCollision ==
  ASSUME EveryConflictIsGuarded, ApartInv
  PROVE  NoCollision
<1> SUFFICES ASSUME NEW c \in Conflicts, Inside(c.a, c.A), Inside(c.b, c.B)
             PROVE  FALSE
  BY DEF NoCollision
<1>1. /\ c.a \in Robots /\ c.b \in Robots /\ c.A \in Bracket /\ c.B \in Bracket
      /\ c.A.finish < Size(c.a) /\ c.B.finish < Size(c.b)
  BY BlockadeAssumption
<1>2. PICK A \in BracketsOf(c.a), B \in BracketsOf(c.b) :
        Covers(A, c.A) /\ Covers(B, c.B) /\ Guard(c.a, A, c.b, B)
  BY DEF EveryConflictIsGuarded
<1>3. \A r \in Robots : \A b \in BracketsOf(r) : b \in Bracket /\ b.finish < Size(r)
  <2> SUFFICES ASSUME NEW r \in Robots, NEW b \in BracketsOf(r)
               PROVE  b \in Bracket /\ b.finish < Size(r)
    OBVIOUS
  <2>1. DOMAIN CanHoldAt[r] = 0..(Size(r) - 1) /\ Size(r) \in Nat
    BY BlockadeAssumption
  <2> DEFINE n == Size(r)
             checkpoints == DOMAIN CanHoldAt[r]
  <2>2. b \in [start : checkpoints, finish : checkpoints,
               include_start : BOOLEAN, include_finish : BOOLEAN]
    BY DEF BracketsOf
  <2>3. checkpoints = 0..(n - 1) /\ n \in Nat
    BY <2>1
  <2> HIDE DEF n, checkpoints
  <2>4. b \in Bracket /\ b.finish < n
    BY <2>2, <2>3 DEF Bracket
  <2> QED BY <2>4 DEF n
<1>4. A \in Bracket /\ B \in Bracket
  BY <1>1, <1>3
<1>5. ASSUME NEW r \in Robots, NEW b \in Bracket, NEW segment \in Bracket, b.finish < Size(r),
             segment.finish < Size(r), Covers(b, segment), EndsOutside(r, b), Inside(r, segment)
      PROVE  /\ position[r] \in (2 * moderator.ranges[r].begin)..(2 * moderator.ranges[r].end)
             /\ moderator.ranges[r] \in AssignedRange
             /\ InBracket(b, moderator.ranges[r], position[r])
  <2>1. moderator.ranges[r] \in AssignedRange /\ position[r] \in Int /\ Placed(r)
        /\ Size(r) \in Nat
    BY Sizes DEF ApartInv, Safe, IsModerator, RobotTypes
  <2>2. InBracket(b, moderator.ranges[r], position[r])
    BY <1>5, <2>1, InCoveringBracket DEF Inside
  <2>3. phase[r] # "idle"
    <3>1. SUFFICES ASSUME position[r] = 2 * (Size(r) - 1) PROVE FALSE
      BY <2>1 DEF Placed
    <3>2. b.finish \in Nat /\ segment.finish \in Nat
      BY DEF Bracket
    <3> QED BY <1>5, <2>1, <2>2, <3>1, <3>2 DEF InBracket, EndsOutside
  <2>4. CASE phase[r] = "off"
    <3>1. moderator.ranges[r] = Range0 /\ position[r] = 0
      BY <2>1, <2>4 DEF Placed, ApartInv, Safe, RangesFit
    <3> QED BY <2>1, <2>2, <3>1 DEF Range0
  <2>5. CASE phase[r] = "driving"
    <3>1. moderator.ranges[r].begin \in Nat /\ moderator.ranges[r].end \in Nat
      BY <2>1 DEF AssignedRange
    <3> QED BY <2>1, <2>2, <2>5, <3>1 DEF Placed
  <2>6. phase[r] \in {"off", "driving", "idle"}
    BY DEF ApartInv, RobotTypes
  <2> QED BY <2>3, <2>4, <2>5, <2>6
<1>6. EndsOutside(c.a, A) /\ EndsOutside(c.b, B)
  BY <1>2 DEF Guard
<1>7. /\ position[c.a] \in (2 * moderator.ranges[c.a].begin)..(2 * moderator.ranges[c.a].end)
      /\ moderator.ranges[c.a] \in AssignedRange
      /\ InBracket(A, moderator.ranges[c.a], position[c.a])
  BY <1>1, <1>2, <1>3, <1>4, <1>5, <1>6
<1>8. /\ position[c.b] \in (2 * moderator.ranges[c.b].begin)..(2 * moderator.ranges[c.b].end)
      /\ moderator.ranges[c.b] \in AssignedRange
      /\ InBracket(B, moderator.ranges[c.b], position[c.b])
  BY <1>1, <1>2, <1>3, <1>4, <1>5, <1>6
<1>9. Apart(A, Size(c.a), moderator.ranges[c.a], B, Size(c.b), moderator.ranges[c.b])
  BY <1>1, <1>2, <1>4 DEF ApartInv, Safe, GuardsHold
<1> QED BY <1>1, <1>4, <1>7, <1>8, <1>9, Sizes, ApartMeansOutside

(* No two robots are where their paths conflict at once, whatever they are   *)
(* assigned, released and told, if every conflict is within brackets that    *)
(* have constraints of their own, no path starts or ends in one of them, and *)
(* no new plan takes back the move out of one.                              *)
THEOREM RobotsStayApart ==
  ASSUME EveryConflictIsGuarded
  PROVE  Spec => []NoCollision
<1>1. ApartInv => NoCollision
  BY ApartAvoidsCollision
<1> QED BY <1>1, InitApart, NextApart, PTL DEF Spec

-----------------------------------------------------------------------------
(* What a robot asks for                                                    *)

(* What a robot may release is assigned to it, and may depend on others.    *)
LEMMA ReleasableInRange ==
  ASSUME NEW m, Safe(m), NEW r \in Robots, NEW c \in Nat, NEW checkpoint \in Releasable(m, r, c)
  PROVE  /\ checkpoint \in Dependent[r] /\ checkpoint \in Int
         /\ m.ranges[r].begin <= checkpoint /\ checkpoint < m.ranges[r].end
<1> DEFINE begin == m.ranges[r].begin
<1>1. begin \in Nat /\ m.ranges[r].end \in Nat
  BY DEF Safe, IsModerator, AssignedRange
<1>2. checkpoint \in Dependent[r] /\ checkpoint \in Max({c, begin})..(m.ranges[r].end - 1)
  BY DEF Releasable
<1> HIDE DEF begin
<1>3. Max({c, begin}) \in Int /\ begin <= Max({c, begin})
  <2>1. begin \in Int /\ c \in Int
    BY <1>1
  <2>2. Max({c, begin}) = IF c >= begin THEN c ELSE begin
    BY <2>1, OfTwo
  <2> QED BY <2>1, <2>2
<1>4. begin <= checkpoint /\ checkpoint < m.ranges[r].end /\ checkpoint \in Int
  BY <1>1, <1>2, <1>3
<1> QED BY <1>2, <1>4 DEF begin

(* A robot that waits, or moves, asks about a checkpoint of its path.        *)
LEMMA WaitingAsks ==
  ASSUME ApartInv, NEW r \in Robots, WaitingAt(r)
  PROVE  /\ r \in moderator.known
         /\ \E at \in Nat : /\ at <= moderator.ranges[r].end
                           /\ \E c \in Nat : Ask(r, at, c) \/ AskWithNewPlan(r, at, c)
<1> USE DEF ApartInv
<1> DEFINE c == position[r] \div 2
<1>1. /\ phase[r] = "driving" /\ position[r] \in Int /\ c <= moderator.ranges[r].end
      /\ Ask(r, c, c) \/ AskWithNewPlan(r, c, c)
  BY DEF WaitingAt, RobotTypes
<1>2. moderator.ranges[r].begin \in Nat /\ 2 * moderator.ranges[r].begin <= position[r]
      /\ r \in moderator.known
  BY <1>1 DEF Placed, Safe, IsModerator, AssignedRange
<1>3. c \in Nat
  BY <1>1, <1>2
<1> HIDE DEF c
<1> QED BY <1>1, <1>2, <1>3

LEMMA MovingAsks ==
  ASSUME ApartInv, NEW r \in Robots, MovingFrom(r)
  PROVE  /\ r \in moderator.known
         /\ \E at \in Nat : /\ at <= moderator.ranges[r].end
                           /\ \E c \in Nat : Ask(r, at, c) \/ AskWithNewPlan(r, at, c)
<1> USE DEF ApartInv
<1> DEFINE at == (position[r] - 1) \div 2
<1>1. /\ phase[r] = "driving" /\ position[r] > 0 /\ position[r] \in Int
      /\ at < moderator.ranges[r].end
      /\ Ask(r, at, at + 1) \/ AskWithNewPlan(r, at, at + 1)
  BY DEF MovingFrom, RobotTypes
<1>2. moderator.ranges[r].end \in Nat /\ r \in moderator.known
  BY <1>1 DEF Placed, Safe, IsModerator, AssignedRange
<1>3. at \in Nat
  BY <1>1
<1> HIDE DEF at
<1>4. at + 1 \in Nat /\ at <= moderator.ranges[r].end
  BY <1>1, <1>2, <1>3
<1> QED BY <1>1, <1>2, <1>3, <1>4

-----------------------------------------------------------------------------
(* Nothing that could be served is left in the queue                        *)

AllServed(m) == \A i \in DOMAIN m.queue : ~Finished(m, i) /\ Ends(m, i) = {}

(* Ranges, what is queued and what robots said they were ready for are on     *)
(* their paths.                                                             *)
WithinPaths(m) ==
  /\ \A r \in Robots : m.ranges[r].end < Size(r)
  /\ \A i \in DOMAIN m.queue : m.queue[i].checkpoint <= Size(m.queue[i].robot) - 2
  /\ m.last_ready \in [Robots -> Checkpoints \cup {NoPoint}]

(* What is left to do for process_ready_queue: the entries of the queue, and  *)
(* the checkpoints that robots have not got yet.                            *)
NotAssigned(m) == {p \in Robots \X Checkpoints : m.ranges[p[1]].end < p[2]}
Work(m) == Len(m.queue) + Cardinality(NotAssigned(m))

(* The checkpoints of a robot.                                              *)
LEMMA OwnCheckpoints ==
  ASSUME NEW r \in Robots, NEW c \in Int, 0 <= c, c < Size(r)
  PROVE  c \in DOMAIN CanHoldAt[r] /\ c \in Checkpoints
<1>1. DOMAIN CanHoldAt[r] = 0..(Size(r) - 1) /\ Size(r) \in Nat
  BY BlockadeAssumption
<1>2. c \in DOMAIN CanHoldAt[r]
  BY <1>1
<1> QED BY <1>2 DEF Checkpoints

(* There is no more work than entries and checkpoints.                      *)
LEMMA WorkIsLimited ==
  ASSUME NEW m, IsModerator(m)
  PROVE  /\ Work(m) \in Nat /\ HowMany(m) \in Nat /\ Work(m) < HowMany(m)
         /\ IsFiniteSet(NotAssigned(m))
<1>1. IsFiniteSet(Robots \X Checkpoints)
      /\ Cardinality(Robots \X Checkpoints) = Cardinality(Robots) * Cardinality(Checkpoints)
  BY BlockadeAssumption, CheckpointsFinite, FS_Product
<1>2. NotAssigned(m) \in SUBSET (Robots \X Checkpoints)
  BY DEF NotAssigned
<1>3. /\ IsFiniteSet(NotAssigned(m))
      /\ Cardinality(NotAssigned(m)) <= Cardinality(Robots \X Checkpoints)
  BY <1>1, <1>2, FS_Subset
<1>4. /\ Cardinality(NotAssigned(m)) \in Nat /\ Cardinality(Robots \X Checkpoints) \in Nat
      /\ Len(m.queue) \in Nat
  BY <1>1, <1>3, FS_CardinalityType DEF IsModerator
<1> QED BY <1>1, <1>3, <1>4 DEF Work, HowMany

(* One iteration does some of the work.                                     *)
LEMMA ServedWorks ==
  ASSUME NEW m, IsModerator(m), WithinPaths(m),
         \E i \in DOMAIN m.queue : Finished(m, i) \/ Ends(m, i) # {}
  PROVE  LET n == Served(m)
         IN  /\ IsModerator(n) /\ WithinPaths(n) /\ Work(n) < Work(m)
             /\ n.blockers = m.blockers /\ n.loops = m.loops
<1> DEFINE n == Served(m)
<1>1. \/ /\ IsModerator(n)
         /\ \E i \in DOMAIN m.queue : n.queue = RemoveAt(m.queue, i)
         /\ n.last_ready = m.last_ready
         /\ n.known = m.known /\ n.blockers = m.blockers /\ n.loops = m.loops
         /\ n.ranges = m.ranges /\ n.last_reached = m.last_reached
      \/ \E r \in m.known : \E end \in Int :
           /\ m.ranges[r].end < end /\ Acceptable(m, r, end)
           /\ \E i \in DOMAIN m.queue : m.queue[i].robot = r /\ end <= m.queue[i].checkpoint + 1
           /\ n = [m EXCEPT !.ranges[r].end = end]
  BY ServedDropsOrGrants
<1>2. m.queue \in Seq(Ready) /\ Len(m.queue) \in Nat
  BY DEF IsModerator
<1> HIDE DEF n
<1>3. ASSUME IsModerator(n), n.last_ready = m.last_ready, n.ranges = m.ranges,
             n.blockers = m.blockers, n.loops = m.loops,
             NEW i \in DOMAIN m.queue, n.queue = RemoveAt(m.queue, i)
      PROVE  WithinPaths(n) /\ Work(n) < Work(m)
  <2> DEFINE Entries == {e \in Ready : e.checkpoint <= Size(e.robot) - 2}
  <2>1. m.queue \in Seq(Entries)
    <3>1. \A j \in 1..Len(m.queue) : m.queue[j] \in Entries
      BY <1>2 DEF WithinPaths
    <3> QED BY <1>2, <3>1
  <2> HIDE DEF Entries
  <2>2. n.queue \in Seq(Entries) /\ Len(n.queue) = Len(m.queue) - 1
    BY <1>3, <2>1, RemovedFromQueue
  <2>3. WithinPaths(n)
    BY <1>3, <2>2 DEF WithinPaths, Entries
  <2>4. NotAssigned(n) = NotAssigned(m) /\ Cardinality(NotAssigned(m)) \in Nat
    <3>1. IsFiniteSet(NotAssigned(m))
      BY WorkIsLimited
    <3> QED BY <1>3, <3>1, FS_CardinalityType DEF NotAssigned
  <2> QED BY <1>2, <2>2, <2>3, <2>4 DEF Work
<1>4. ASSUME NEW r \in m.known, NEW end \in Int, m.ranges[r].end < end,
             NEW i \in DOMAIN m.queue, m.queue[i].robot = r, end <= m.queue[i].checkpoint + 1,
             n = [m EXCEPT !.ranges[r].end = end]
      PROVE  /\ IsModerator(n) /\ WithinPaths(n) /\ Work(n) < Work(m)
             /\ n.blockers = m.blockers /\ n.loops = m.loops
  <2> DEFINE longer == [m.ranges[r] EXCEPT !.end = end]
  <2>1. m.ranges[r].end \in Nat /\ r \in Robots
    BY DEF IsModerator, AssignedRange
  <2>2. /\ longer.end = end
        /\ IsModerator(n) /\ n.known = m.known /\ n.blockers = m.blockers
        /\ n.loops = m.loops /\ n.queue = m.queue /\ n.last_ready = m.last_ready
        /\ n.ranges[r] = longer /\ \A s \in Robots : s # r => n.ranges[s] = m.ranges[s]
    BY <1>4, <2>1, LongerRange
  <2> HIDE DEF longer
  <2>3. end < Size(r)
    <3>1. m.queue[i] \in Ready /\ m.queue[i].checkpoint <= Size(r) - 2
      BY <1>2, <1>4 DEF WithinPaths
    <3>2. m.queue[i].checkpoint \in Int /\ Size(r) \in Nat
      BY <2>1, <3>1, Sizes DEF Ready
    <3> QED BY <1>4, <3>1, <3>2
  <2>4. WithinPaths(n)
    BY <2>1, <2>2, <2>3 DEF WithinPaths
  <2>5. Cardinality(NotAssigned(n)) < Cardinality(NotAssigned(m))
    <3>1. NotAssigned(n) \in SUBSET NotAssigned(m)
      <4>1. \A s \in Robots : m.ranges[s].end \in Int /\ Checkpoints \subseteq Int
        <5>1. \A s \in Robots : DOMAIN CanHoldAt[s] \subseteq Int
          BY BlockadeAssumption
        <5> QED BY <5>1 DEF IsModerator, AssignedRange, Checkpoints
      <4>2. \A p \in Robots \X Checkpoints : n.ranges[p[1]].end < p[2] => m.ranges[p[1]].end < p[2]
        BY <1>4, <2>1, <2>2, <4>1
      <4> QED BY <4>2 DEF NotAssigned
    <3>2. <<r, end>> \in NotAssigned(m) /\ <<r, end>> \notin NotAssigned(n)
      <4>1. <<r, end>> \in Robots \X Checkpoints
        BY <1>4, <2>1, <2>3, OwnCheckpoints
      <4> QED BY <1>4, <2>2, <4>1 DEF NotAssigned
    <3>3. IsFiniteSet(NotAssigned(m))
      BY WorkIsLimited
    <3> QED BY <3>1, <3>2, <3>3, FS_Subset, FS_CardinalityType
  <2>6. Cardinality(NotAssigned(n)) \in Nat /\ Cardinality(NotAssigned(m)) \in Nat
    BY <2>2, WorkIsLimited, FS_CardinalityType
  <2> QED BY <1>2, <2>2, <2>4, <2>5, <2>6 DEF Work
<1> QED BY <1>1, <1>3, <1>4 DEF n

(* process_ready_queue comes to an end within the iterations of the model, so *)
(* that nothing is left in the queue that could be served.                  *)
LEMMA ProcessedIsServed ==
  ASSUME NEW start, IsModerator(start), WithinPaths(start)
  PROVE  LET n == Processed(start)
         IN  /\ WithinPaths(n) /\ AllServed(n)
             /\ n.blockers = start.blockers /\ n.loops = start.loops
<1>1. Len(start.queue) \in Nat
  BY DEF IsModerator
<1>2. PICK f : /\ f[0] = [m |-> start, over |-> FALSE]
               /\ \A n \in Nat : f[n + 1] = Iteration(f[n])
               /\ Processed(start) = f[HowMany(start)].m
  BY <1>1, ProcessedIterates
<1>3. HowMany(start) \in Nat /\ Work(start) \in Nat /\ Work(start) < HowMany(start)
  BY WorkIsLimited
<1> DEFINE Good(n) ==
             /\ IsModerator(f[n].m) /\ WithinPaths(f[n].m)
             /\ f[n].m.blockers = start.blockers /\ f[n].m.loops = start.loops
             /\ \/ f[n].over /\ AllServed(f[n].m)
                \/ ~f[n].over /\ Work(f[n].m) + n <= Work(start)
           Bad == {n \in Nat : ~Good(n)}
<1>4. Good(0)
  <2>1. f[0].m = start /\ ~f[0].over
    BY <1>2
  <2> QED BY <1>3, <2>1
<1>5. ASSUME NEW n \in Nat, Good(n) PROVE Good(n + 1)
  <2> DEFINE it == f[n]
             More == \E i \in DOMAIN it.m.queue : Finished(it.m, i) \/ Ends(it.m, i) # {}
  <2>1. f[n + 1] = IF it.over THEN it
                   ELSE IF More THEN [m |-> Served(it.m), over |-> FALSE]
                   ELSE [m |-> it.m, over |-> TRUE]
    BY <1>2 DEF Iteration
  <2>2. CASE it.over
    <3>1. f[n + 1] = it
      BY <2>1, <2>2
    <3> HIDE DEF it
    <3> QED BY <1>5, <2>2, <3>1 DEF it
  <2>3. CASE ~it.over /\ ~More
    <3>1. f[n + 1].m = it.m /\ f[n + 1].over
      BY <2>1, <2>3
    <3>2. AllServed(it.m)
      BY <2>3 DEF AllServed
    <3> QED BY <1>5, <3>1, <3>2
  <2>4. CASE ~it.over /\ More
    <3>1. f[n + 1].m = Served(it.m) /\ ~f[n + 1].over
      BY <2>1, <2>4
    <3>2. IsModerator(it.m) /\ WithinPaths(it.m) /\ Work(it.m) + n <= Work(start)
      BY <1>5, <2>4
    <3> DEFINE next == Served(it.m)
    <3>3. /\ IsModerator(next) /\ WithinPaths(next) /\ Work(next) < Work(it.m)
          /\ next.blockers = it.m.blockers /\ next.loops = it.m.loops
      BY <2>4, <3>2, ServedWorks
    <3>4. Work(next) \in Nat /\ Work(it.m) \in Nat
      BY <3>2, <3>3, WorkIsLimited
    <3>5. Work(next) + (n + 1) <= Work(start)
      BY <1>3, <3>2, <3>3, <3>4
    <3> HIDE DEF next, it
    <3>6. f[n + 1].m = next
      BY <3>1 DEF next
    <3>7. it.m.blockers = start.blockers /\ it.m.loops = start.loops
      BY <1>5 DEF it
    <3> QED BY <3>1, <3>3, <3>5, <3>6, <3>7
  <2> QED BY <2>2, <2>3, <2>4
<1>6. \A n \in Nat : Good(n)
  <2> HIDE DEF Good
  <2>1. SUFFICES ASSUME Bad # {} PROVE FALSE
    OBVIOUS
  <2>2. PICK n \in Bad : \A k \in Bad : n <= k
    <3>1. Bad \in SUBSET Nat
      OBVIOUS
    <3> HIDE DEF Bad
    <3> QED BY <2>1, <3>1, LeastExists
  <2>3. n # 0 /\ n - 1 \in Nat /\ n - 1 \notin Bad
    BY <1>4, <2>2
  <2>4. Good((n - 1) + 1)
    BY <1>5, <2>3
  <2> QED BY <2>2, <2>4
<1> DEFINE last == f[HowMany(start)]
<1>7. Good(HowMany(start)) /\ Work(last.m) \in Nat
  BY <1>3, <1>6, WorkIsLimited
<1>8. ~(Work(last.m) + HowMany(start) <= Work(start))
  BY <1>3, <1>7
<1> QED BY <1>2, <1>7, <1>8

(* The calls to the moderator: what is queued and ready is on the paths, and  *)
(* nothing is left that could be served.                                    *)
LEMMA ReadyIsServed ==
  ASSUME NEW m, Safe(m), WithinPaths(m), AllServed(m), NEW r \in Robots,
         NEW checkpoint \in Int, 0 <= checkpoint, checkpoint <= Size(r) - 2
  PROVE  WithinPaths(WithReady(m, r, checkpoint)) /\ AllServed(WithReady(m, r, checkpoint))
<1>1. CASE WithReady(m, r, checkpoint) = m
  BY <1>1
<1>2. CASE WithReady(m, r, checkpoint) # m
  <2>1. PICK n : /\ Safe(n) /\ WithReady(m, r, checkpoint) = Processed(n)
                 /\ n.known = m.known /\ n.blockers = m.blockers /\ n.loops = m.loops
                 /\ n.ranges = m.ranges
                 /\ Queued(m, r, checkpoint, n)
    BY <1>2, ReadyQueues
  <2> DEFINE entry == [robot |-> r, checkpoint |-> checkpoint]
  <2>2. /\ m.queue \in Seq(Ready) /\ entry \in Ready
        /\ entry.robot = r /\ entry.checkpoint = checkpoint
    BY DEF Safe, IsModerator, Ready
  <2>3. n.queue = Append(m.queue, entry) /\ n.last_ready = [m.last_ready EXCEPT ![r] = checkpoint]
    BY <2>1 DEF Queued
  <2> HIDE DEF entry
  <2>4. ASSUME NEW i \in DOMAIN n.queue
        PROVE  n.queue[i].checkpoint <= Size(n.queue[i].robot) - 2
    <3>1. n.queue[i] = entry \/ (i \in DOMAIN m.queue /\ n.queue[i] = m.queue[i])
      BY <2>2, <2>3, <2>4, AppendProperties
    <3> QED BY <2>2, <3>1 DEF WithinPaths
  <2>5. checkpoint \in Checkpoints
    BY Sizes, OwnCheckpoints
  <2>6. WithinPaths(n)
    BY <2>1, <2>3, <2>4, <2>5 DEF WithinPaths
  <2>7. IsModerator(n)
    BY <2>1 DEF Safe
  <2> QED BY <2>1, <2>6, <2>7, ProcessedIsServed
<1> QED BY <1>1, <1>2

LEMMA ReachedIsServed ==
  ASSUME NEW m, Safe(m), WithinPaths(m), AllServed(m), NEW r \in m.known, NEW c \in Nat,
         c <= m.ranges[r].end
  PROVE  WithinPaths(WithReached(m, r, c)) /\ AllServed(WithReached(m, r, c))
<1>1. CASE c <= m.ranges[r].begin
  <2>1. WithReached(m, r, c) = m
    BY <1>1, ReachedMoves
  <2> QED BY <2>1
<1>2. CASE ~(c <= m.ranges[r].begin)
  <2> DEFINE range == [m.ranges[r] EXCEPT !.begin = c]
  <2>1. PICK n : /\ Safe(n) /\ WithReached(m, r, c) = Processed(n)
                 /\ n.known = m.known /\ n.blockers = m.blockers /\ n.loops = m.loops
                 /\ n.ranges = [m.ranges EXCEPT ![r] = range]
                 /\ n.queue = m.queue /\ n.last_ready = m.last_ready
    BY <1>2, ReachedMoves
  <2>2. m.ranges \in [Robots -> AssignedRange] /\ range.end = m.ranges[r].end /\ r \in Robots
    <3>1. m.ranges \in [Robots -> AssignedRange] /\ r \in Robots
      BY DEF Safe, IsModerator
    <3> QED BY <3>1 DEF AssignedRange
  <2> HIDE DEF range
  <2>3. \A s \in Robots : n.ranges[s].end = m.ranges[s].end
    BY <2>1, <2>2
  <2>4. WithinPaths(n) /\ IsModerator(n)
    BY <2>1, <2>3 DEF WithinPaths, Safe
  <2> QED BY <2>1, <2>4, ProcessedIsServed
<1> QED BY <1>1, <1>2

LEMMA ReleaseIsServed ==
  ASSUME NEW m, Safe(m), WithinPaths(m), AllServed(m), NEW r \in m.known,
         NEW checkpoint \in Dependent[r], checkpoint \in Int,
         m.ranges[r].begin <= checkpoint, checkpoint < m.ranges[r].end
  PROVE  WithinPaths(WithRelease(m, r, checkpoint)) /\ AllServed(WithRelease(m, r, checkpoint))
<1> DEFINE range == [m.ranges[r] EXCEPT !.end = checkpoint]
<1>1. PICK n : /\ Safe(n) /\ WithRelease(m, r, checkpoint) = Processed(n)
               /\ n.known = m.known /\ n.blockers = m.blockers /\ n.loops = m.loops
               /\ n.ranges = [m.ranges EXCEPT ![r] = range]
               /\ Unqueued(m, r, checkpoint, n)
  BY ReleaseShortens
<1>2. /\ m.ranges \in [Robots -> AssignedRange] /\ r \in Robots /\ range.end = checkpoint
      /\ m.ranges[r].begin \in Nat /\ m.ranges[r].end \in Nat
  <2>1. m.ranges \in [Robots -> AssignedRange] /\ r \in Robots
    BY DEF Safe, IsModerator
  <2> QED BY <2>1 DEF AssignedRange
<1> HIDE DEF range
<1>3. 0 <= checkpoint /\ checkpoint < Size(r)
  BY <1>2, Sizes DEF WithinPaths
<1>4. \A s \in Robots : n.ranges[s].end < Size(s)
  BY <1>1, <1>2, <1>3 DEF WithinPaths
<1>5. n.last_ready \in [Robots -> Checkpoints \cup {NoPoint}]
  <2>1. checkpoint - 1 \in Checkpoints \cup {NoPoint}
    <3>1. CASE checkpoint = 0
      BY <3>1 DEF NoPoint
    <3>2. CASE checkpoint # 0
      <4>1. 0 <= checkpoint - 1 /\ checkpoint - 1 < Size(r) /\ checkpoint - 1 \in Int
        BY <1>2, <1>3, <3>2, Sizes
      <4> QED BY <1>2, <4>1, OwnCheckpoints
    <3> QED BY <3>1, <3>2
  <2> QED BY <1>1, <2>1 DEF WithinPaths, Unqueued
<1>6. ASSUME NEW i \in DOMAIN n.queue
      PROVE  n.queue[i].checkpoint <= Size(n.queue[i].robot) - 2
  <2>1. /\ i \in DOMAIN m.queue /\ n.queue[i].robot = m.queue[i].robot
        /\ n.queue[i].checkpoint = NoPoint \/ n.queue[i].checkpoint <= m.queue[i].checkpoint
    BY <1>1, <1>6 DEF Unqueued
  <2>2. m.queue \in Seq(Ready) /\ n.queue \in Seq(Ready)
    BY <1>1 DEF Safe, IsModerator
  <2>3. m.queue[i] \in Ready /\ n.queue[i] \in Ready
    BY <1>6, <2>1, <2>2
  <2>4. /\ m.queue[i].checkpoint \in Int /\ n.queue[i].checkpoint \in Int
        /\ Size(m.queue[i].robot) \in Nat /\ Size(m.queue[i].robot) > 1
    BY <2>3, Sizes DEF Ready
  <2> QED BY <2>1, <2>4 DEF WithinPaths, NoPoint
<1>7. WithinPaths(n) /\ IsModerator(n)
  BY <1>1, <1>4, <1>5, <1>6 DEF WithinPaths, Safe
<1> QED BY <1>1, <1>7, ProcessedIsServed

LEMMA SetIsServed ==
  ASSUME NEW m, Safe(m), WithinPaths(m), NEW r \in Robots \ m.known, NEW order
  PROVE  WithinPaths(WithSet(m, r, order)) /\ AllServed(WithSet(m, r, order))
<1>1. PICK n : /\ Safe(n) /\ WithSet(m, r, order) = Processed(n)
               /\ n.known = m.known \cup {r} /\ n.ranges = m.ranges
               /\ n.blockers = BlockersWith(m, r)
               /\ n.loops = GridlockLoops(n.blockers, order)
               /\ NotReady(m, r, n)
  BY SetAdds
<1>2. WithinPaths(n) /\ IsModerator(n)
  BY <1>1 DEF WithinPaths, NotReady, Safe
<1> QED BY <1>1, <1>2, ProcessedIsServed

LEMMA CancelIsServed ==
  ASSUME NEW m, Safe(m), WithinPaths(m), NEW r \in Robots, NEW order
  PROVE  WithinPaths(WithCancel(m, r, order)) /\ AllServed(WithCancel(m, r, order))
<1>1. PICK n : /\ Safe(n) /\ WithCancel(m, r, order) = Processed(n)
               /\ n.known = m.known \ {r} /\ n.ranges = [m.ranges EXCEPT ![r] = Range0]
               /\ n.blockers = BlockersWithout(m, r)
               /\ n.loops = GridlockLoops(n.blockers, order)
               /\ NotReady(m, r, n)
  BY CancelRemoves
<1>2. m.ranges \in [Robots -> AssignedRange]
  BY DEF Safe, IsModerator
<1>3. \A s \in Robots : n.ranges[s].end < Size(s)
  BY <1>1, <1>2, Sizes DEF WithinPaths, Range0
<1>4. WithinPaths(n) /\ IsModerator(n)
  BY <1>1, <1>3 DEF WithinPaths, NotReady, Safe
<1> QED BY <1>1, <1>4, ProcessedIsServed

(* A robot asks whether it may leave a checkpoint.                          *)
LEMMA AskIsServed ==
  ASSUME Safe(moderator), WithinPaths(moderator), AllServed(moderator),
         NEW r \in moderator.known, NEW at \in Nat, NEW c \in Nat, at <= moderator.ranges[r].end,
         Ask(r, at, c) \/ AskWithNewPlan(r, at, c)
  PROVE  WithinPaths(moderator)' /\ AllServed(moderator)'
<1> DEFINE m == WithReached(moderator, r, at)
<1>1. r \in Robots
  BY DEF Safe, IsModerator
<1>2. Safe(m) /\ m.known = moderator.known
  BY ReachedIsSafe
<1>3. WithinPaths(m) /\ AllServed(m)
  BY ReachedIsServed
<1>4. CASE Ask(r, at, c)
  <2>1. moderator' = m \/ moderator' = WithReady(m, r, Min({c, Size(r) - 2}))
    BY <1>4 DEF Ask, CheckIfReady, Located
  <2>2. /\ Min({c, Size(r) - 2}) \in Int /\ 0 <= Min({c, Size(r) - 2})
        /\ Min({c, Size(r) - 2}) <= Size(r) - 2
    <3> DEFINE last == Size(r) - 2
    <3>1. last \in Int /\ 0 <= last
      BY <1>1, Sizes
    <3> HIDE DEF last
    <3>2. Min({c, last}) = IF c <= last THEN c ELSE last
      BY <3>1, OfTwo
    <3> QED BY <3>1, <3>2 DEF last
  <2> HIDE DEF m
  <2> QED BY <1>1, <1>2, <1>3, <2>1, <2>2, ReadyIsServed
<1>5. CASE AskWithNewPlan(r, at, c)
  <2>1. PICK checkpoint \in Releasable(m, r, c) : moderator' = WithRelease(m, r, checkpoint)
    BY <1>5 DEF AskWithNewPlan, Located
  <2> HIDE DEF m
  <2>2. /\ checkpoint \in Dependent[r] /\ checkpoint \in Int
        /\ m.ranges[r].begin <= checkpoint /\ checkpoint < m.ranges[r].end
    BY <1>1, <1>2, <2>1, ReleasableInRange
  <2> QED BY <1>2, <1>3, <2>1, <2>2, ReleaseIsServed
<1> QED BY <1>4, <1>5

(* The inductive invariant, besides that robots are apart.                  *)
ServedInv == WithinPaths(moderator) /\ AllServed(moderator) /\ releases \in 0..ReleaseLimit

LEMMA InitServed == Init => ServedInv
<1> SUFFICES ASSUME Init PROVE ServedInv
  OBVIOUS
<1>1. /\ moderator.ranges = [r \in Robots |-> Range0] /\ moderator.queue = << >>
      /\ moderator.last_ready = [r \in Robots |-> NoPoint] /\ releases = 0
  BY DEF Init
<1> QED BY <1>1, Sizes, BlockadeAssumption DEF ServedInv, WithinPaths, AllServed, Range0

LEMMA NextServed == ApartInv /\ ServedInv /\ [Next]_vars => ServedInv'
<1> SUFFICES ASSUME ApartInv, ServedInv, [Next]_vars PROVE ServedInv'
  OBVIOUS
<1> USE DEF ApartInv, ServedInv
<1>1. releases' \in 0..ReleaseLimit
  <2>1. ASSUME NEW r \in Robots, WaitingAt(r) PROVE releases' \in 0..ReleaseLimit
    BY <2>1, BlockadeAssumption DEF WaitingAt, Ask, AskWithNewPlan
  <2>2. ASSUME NEW r \in Robots, MovingFrom(r) PROVE releases' \in 0..ReleaseLimit
    BY <2>2, BlockadeAssumption DEF MovingFrom, Ask, AskWithNewPlan
  <2> QED BY <2>1, <2>2 DEF Next, FollowNewPath, Depart, Arrive, Idle, vars
<1>2. CASE UNCHANGED moderator
  BY <1>1, <1>2
<1>3. ASSUME NEW r \in Robots, WaitingAt(r) PROVE WithinPaths(moderator)' /\ AllServed(moderator)'
  BY <1>3, WaitingAsks, AskIsServed
<1>4. ASSUME NEW r \in Robots, MovingFrom(r) PROVE WithinPaths(moderator)' /\ AllServed(moderator)'
  BY <1>4, MovingAsks, AskIsServed
<1>5. ASSUME NEW r \in Robots, FollowNewPath(r)
      PROVE  WithinPaths(moderator)' /\ AllServed(moderator)'
  <2>1. PICK order \in SearchOrders : moderator' = WithSet(moderator, r, order)
    BY <1>5 DEF FollowNewPath
  <2>2. Safe(moderator) /\ r \in Robots \ moderator.known
    BY <1>5 DEF FollowNewPath, Placed
  <2> QED BY <2>1, <2>2, SetIsServed
<1>6. ASSUME NEW r \in Robots, Idle(r) PROVE WithinPaths(moderator)' /\ AllServed(moderator)'
  <2>1. PICK order \in SearchOrders : moderator' = WithCancel(moderator, r, order)
    BY <1>6 DEF Idle
  <2> QED BY <2>1, CancelIsServed
<1>7. (UNCHANGED vars => UNCHANGED moderator)
      /\ \A r \in Robots : Depart(r) \/ Arrive(r) => UNCHANGED moderator
  BY DEF vars, Depart, Arrive
<1> QED BY <1>1, <1>2, <1>3, <1>4, <1>5, <1>6, <1>7 DEF Next

(* The moderator leaves nobody in its queue who is done or could be assigned  *)
(* more of the path: process_ready_queue always comes to its end.           *)
THEOREM QueueIsServed == Spec => [](\A i \in DOMAIN moderator.queue :
                                      ~Finished(moderator, i) /\ Ends(moderator, i) = {})
<1>1. ServedInv => \A i \in DOMAIN moderator.queue : ~Finished(moderator, i) /\ Ends(moderator, i) = {}
  BY DEF ServedInv, AllServed
<1> QED BY <1>1, InitApart, NextApart, InitServed, NextServed, PTL DEF Spec

(* The invariants leave no range, entry or robot off a path.                *)
LEMMA PathsHold ==
  ASSUME ApartInv, ServedInv
  PROVE  OnThePaths
<1> USE DEF ApartInv, ServedInv
<1>1. /\ moderator.known \in SUBSET Robots /\ moderator.ranges \in [Robots -> AssignedRange]
      /\ moderator.queue \in Seq(Ready) /\ moderator.last_reached \in [Robots -> Nat]
  BY DEF Safe, IsModerator
<1>2. ASSUME NEW r \in Robots
      PROVE  /\ moderator.ranges[r] \in RangeOf /\ moderator.ranges[r].end < Size(r)
             /\ moderator.ranges[r].begin \in Checkpoints
             /\ moderator.ranges[r].end \in Nat /\ moderator.ranges[r].begin \in Nat
  <2>1. /\ moderator.ranges[r].begin \in Nat /\ moderator.ranges[r].end \in Nat
        /\ moderator.ranges[r].begin <= moderator.ranges[r].end
        /\ moderator.ranges[r] \in [begin : Nat, end : Nat]
    BY <1>1 DEF AssignedRange
  <2>2. moderator.ranges[r].end < Size(r) /\ moderator.ranges[r].begin < Size(r)
    BY <2>1, Sizes DEF WithinPaths
  <2>3. moderator.ranges[r].begin \in Checkpoints /\ moderator.ranges[r].end \in Checkpoints
    BY <2>1, <2>2, OwnCheckpoints
  <2> QED BY <2>1, <2>2, <2>3 DEF RangeOf
<1>3. ASSUME NEW i \in DOMAIN moderator.queue
      PROVE  moderator.queue[i].checkpoint \in 0..(Size(moderator.queue[i].robot) - 2)
  <2>1. moderator.queue[i] \in Ready
    BY <1>1, <1>3
  <2>2. moderator.queue[i].robot \in Robots /\ moderator.queue[i].checkpoint \in Int
    BY <2>1 DEF Ready
  <2>3. ~(moderator.queue[i].checkpoint < moderator.ranges[moderator.queue[i].robot].end)
    BY <1>3 DEF AllServed, Finished
  <2>4. moderator.queue[i].checkpoint <= Size(moderator.queue[i].robot) - 2
    BY <1>3 DEF WithinPaths
  <2> QED BY <1>2, <2>2, <2>3, <2>4, Sizes
<1>4. moderator.last_reached \in [Robots -> Checkpoints]
  <2>1. \A r \in Robots : moderator.last_reached[r] = moderator.ranges[r].begin
    BY DEF Safe, RangesFit
  <2> QED BY <1>1, <1>2, <2>1
<1>5. ASSUME NEW r \in Robots PROVE position[r] \in 0..(2 * (Size(r) - 1))
  <2>1. position[r] \in Int /\ Size(r) \in Nat /\ Size(r) > 1 /\ Placed(r)
        /\ phase[r] \in {"off", "driving", "idle"}
    BY Sizes DEF RobotTypes
  <2> QED BY <1>2, <2>1 DEF Placed
<1> QED BY <1>1, <1>2, <1>3, <1>4, <1>5 DEF OnThePaths, WithinPaths, RobotTypes

(* Whatever robots report, release and are told, what is assigned to them,    *)
(* queued and reached is about checkpoints of their paths, no assigned range *)
(* is past the end of a path, and no robot is.                              *)
THEOREM AssignmentsStayOnThePaths == Spec => []OnThePaths
<1>1. ApartInv /\ ServedInv => OnThePaths
  BY PathsHold
<1> QED BY <1>1, InitApart, NextApart, InitServed, NextServed, PTL DEF Spec
=============================================================================
