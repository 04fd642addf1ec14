--------------------------- MODULE MirrorSync_proofs ---------------------------
(***************************************************************************)
(* Mirrors follow the schedule database, whatever patches are lost or late. *)
(*                                                                         *)
(* What is shown to whom rests on FollowInv: a mirror shows what the         *)
(* database showed at the mirror's version, and a patch on its way leads     *)
(* from what was shown at its base to what was shown at its latest version. *)
(* It is kept as long as the patches the database computes do lead on        *)
(* (PatchesLeadFromEveryVersion), which is for the runs to show: a chain     *)
(* that was severed before it was erased makes it fail.                     *)
(***************************************************************************)
EXTENDS MirrorSync, FiniteSetTheorems, WellFoundedInduction, SequenceTheorems, TLAPS

-----------------------------------------------------------------------------
(* Which readers the database can still tell that a route was erased         *)

(* A chain of a route that was not erased: its entries have a route, and    *)
(* each one a later version than its predecessor.                           *)
IsLiveChain(chain, Routes) ==
  /\ chain \in Seq([version : Nat, kind : {"add", "delay", "describe"}, route : Routes])
  /\ NoRoute \notin Routes
  /\ Len(chain) # 0
  /\ \A i, j \in 1..Len(chain) : i < j => chain[i].version < chain[j].version

(* The older one of the two entries that Erased keeps.                      *)
OldestKept(chain) == IF Len(chain) = 1 THEN 1 ELSE Len(chain) - 1

(* What Max chooses from a set with a greatest element is that element.     *)
LEMMA MaxIsGreatest ==
  ASSUME NEW S \in SUBSET Int, NEW m \in S, \A n \in S : m >= n
  PROVE  Max(S) = m
<1>1. \E x \in S : \A n \in S : x >= n
  OBVIOUS
<1>2. Max(S) \in S /\ \A n \in S : Max(S) >= n
  BY <1>1 DEF Max
<1>3. Max(S) \in Int /\ m \in Int
  BY <1>2
<1>4. Max(S) >= m /\ m >= Max(S)
  BY <1>2
<1> QED BY <1>3, <1>4

(* A sequence from its a-th element on, one element added.                  *)
LEMMA KeptAndAdded ==
  ASSUME NEW E, NEW chain \in Seq(E), Len(chain) # 0, NEW e,
         NEW a \in 1..Len(chain)
  PROVE  LET kept == Append(SubSeq(chain, a, Len(chain)), e)
         IN  /\ Len(kept) = Len(chain) - a + 2
             /\ kept[Len(chain) - a + 2] = e
             /\ \A i \in 1..(Len(chain) - a + 1) : kept[i] = chain[a + i - 1]
<1>1. SubSeq(chain, a, Len(chain)) \in Seq(E)
  OBVIOUS
<1>2. Len(SubSeq(chain, a, Len(chain))) = Len(chain) - a + 1
  OBVIOUS
<1>3. \A i \in 1..(Len(chain) - a + 1) : SubSeq(chain, a, Len(chain))[i] = chain[a + i - 1]
  OBVIOUS
<1> QED BY <1>1, <1>2, <1>3

(* Two of n entries are kept, or the only one.                              *)
LEMMA KeptBounds ==
  ASSUME NEW n \in Nat, n # 0, NEW a, (n = 1 /\ a = 1) \/ (n # 1 /\ a = n - 1)
  PROVE  a \in 1..n /\ n - a + 2 \in {2, 3} /\ n = a + (n - a + 2) - 2
OBVIOUS

(* A reader that is older than the erasure is told of it just when it is as *)
(* new as the older one of the last two entries the route had: clear() in   *)
(* Database.cpp forgets the erased routes of all readers before.            *)
THEOREM ErasureReachesRecentReaders ==
  ASSUME NEW Routes, NEW chain, IsLiveChain(chain, Routes),
         NEW version \in Nat, Newest(chain).version < version,
         NEW after \in Nat, after < version
  PROVE  IsErasure(Erased(chain, version), after)
           <=> chain[OldestKept(chain)].version <= after
<1> DEFINE a == OldestKept(chain)
           size == Len(chain) - a + 2
           rest == Erased(chain, version)
           E == [version : Nat, kind : {"add", "delay", "describe"}, route : Routes]
           Old == {i \in 1..Len(rest) : rest[i].version <= after}
<1>1. /\ chain \in Seq(E) /\ Len(chain) \in Nat \ {0} /\ a \in 1..Len(chain)
      /\ size \in {2, 3} /\ Len(chain) = a + size - 2
  <2>1. chain \in Seq(E)
    BY DEF IsLiveChain
  <2>2. Len(chain) \in Nat /\ Len(chain) # 0
    <3> HIDE DEF E
    <3> QED BY <2>1 DEF IsLiveChain
  <2>3. (Len(chain) = 1 /\ a = 1) \/ (Len(chain) # 1 /\ a = Len(chain) - 1)
    BY DEF OldestKept
  <2> HIDE DEF a, E
  <2> QED BY <2>1, <2>2, <2>3, KeptBounds
<1>2. rest = Append(SubSeq(chain, a, Len(chain)), Entry(version, "erase", NoRoute))
  BY DEF Erased, OldestKept
<1>3. /\ Len(rest) = size
      /\ rest[size] = Entry(version, "erase", NoRoute)
      /\ \A i \in 1..(size - 1) : rest[i] = chain[a + i - 1]
  <2> HIDE DEF a, rest, E
  <2> QED BY <1>1, <1>2, KeptAndAdded
<1>4. LastKnown(rest, after) = Max({0} \cup Old)
  BY DEF LastKnown
<1>5. OldestKept(chain) = a /\ Erased(chain, version) = rest
  OBVIOUS
<1>6. \A i \in 1..Len(chain) : chain[i].version \in Nat /\ chain[i].route # NoRoute
  <2>1. \A i \in 1..Len(chain) : chain[i] \in E
    <3> HIDE DEF E
    <3> QED BY <1>1
  <2> QED BY <2>1 DEF IsLiveChain
<1> HIDE DEF a, size, rest, E
<1>7. \A i \in 1..(size - 1) :
        /\ rest[i].version \in Nat /\ rest[i].route # NoRoute
        /\ chain[a].version <= rest[i].version
  <2> SUFFICES ASSUME NEW i \in 1..(size - 1)
               PROVE  /\ rest[i].version \in Nat /\ rest[i].route # NoRoute
                      /\ chain[a].version <= rest[i].version
    OBVIOUS
  <2>1. a + i - 1 \in 1..Len(chain) /\ a \in Int
    BY <1>1
  <2>2. rest[i] = chain[a + i - 1]
    BY <1>3
  <2>3. a = a + i - 1 \/ a < a + i - 1
    BY <1>1, <2>1
  <2>4. a = a + i - 1 \/ chain[a].version < chain[a + i - 1].version
    BY <1>1, <2>1, <2>3 DEF IsLiveChain
  <2>5. chain[a].version \in Nat /\ chain[a + i - 1].version \in Nat
        /\ chain[a + i - 1].route # NoRoute
    BY <1>1, <1>6, <2>1
  <2> QED BY <2>2, <2>4, <2>5
<1>8. rest[1].version = chain[a].version /\ 1 \in 1..(size - 1)
  BY <1>1, <1>3
<1>9. rest[size].version = version /\ Newest(rest).route = NoRoute
  BY <1>3 DEF Entry, Newest
<1>10. Old \subseteq 1..(size - 1) /\ (1 \in Old <=> chain[a].version <= after)
       /\ (Old # {} => 1 \in Old)
  <2>1. \A i \in Old : i \in 1..(size - 1) /\ chain[a].version <= after
    <3> SUFFICES ASSUME NEW i \in 1..size, rest[i].version <= after
                 PROVE  i \in 1..(size - 1) /\ chain[a].version <= after
      BY <1>3
    <3>1. i # size
      BY <1>9
    <3>2. i \in 1..(size - 1)
      BY <1>1, <3>1
    <3>3. chain[a].version \in Nat /\ rest[i].version \in Nat
      BY <1>1, <1>6, <1>7, <3>2
    <3> QED BY <1>7, <3>2, <3>3
  <2>2. 1 \in 1..Len(rest)
    BY <1>1, <1>3
  <2> QED BY <1>8, <2>1, <2>2
<1> HIDE DEF Old
<1>11. CASE Old = {}
  <2>1. \A n \in {0} : 0 >= n
    OBVIOUS
  <2>2. Max({0}) = 0
    BY <2>1, MaxIsGreatest
  <2>3. LastKnown(rest, after) = 0
    BY <1>4, <1>11, <2>2
  <2> QED BY <1>5, <1>10, <1>11, <2>3 DEF IsErasure, Knows
<1>12. CASE Old # {}
  <2> DEFINE m == IF 2 \in Old THEN 2 ELSE 1
             known == {0} \cup Old
  <2>1. 1 \in Old /\ \A n \in Old : n \in {1, 2}
    BY <1>1, <1>10, <1>12
  <2>2. known \in SUBSET Int /\ m \in known /\ \A n \in known : m >= n
    BY <2>1
  <2>3. m \in Old /\ m # 0 /\ m \in 1..(size - 1)
    BY <1>10, <2>1
  <2>4. Max(known) = m
    <3> HIDE DEF known, m
    <3> QED BY <2>2, MaxIsGreatest
  <2>5. LastKnown(rest, after) = m
    BY <1>4, <2>4
  <2>6. rest[m].route # NoRoute
    BY <1>7, <2>3
  <2> HIDE DEF m
  <2> QED BY <1>5, <1>9, <1>10, <1>12, <2>3, <2>5, <2>6 DEF IsErasure, Knows
<1> QED BY <1>11, <1>12

-----------------------------------------------------------------------------
(* Types *)

(* Functions from some numbers.                                             *)
Maps(X) == UNION {[D -> X] : D \in SUBSET Nat}

(* What the database stores of a participant, what is shown of it, and what *)
(* a mirror stores of it.                                                   *)
ChainEntry ==
  [version : Versions, kind : {"add", "delay", "describe", "erase"}, route : Route \cup {NoRoute}]

StateType ==
  [active : SUBSET Nat, storage : Maps(Seq(ChainEntry)), next_storage : Nat \ {0}, plan : Nat,
   progress : 0..CheckpointLimit, version_of_progress : Versions \cup {0}]

ShownType == [plan : Nat, routes : Maps(Route), progress : 0..CheckpointLimit]

CopyType == [storage : Maps(Route), plan : Nat, progress : 0..CheckpointLimit]

(* A patch, what it tells of a participant, and the mirror it is for.       *)
ChangeType ==
  [erasures : SUBSET Nat, delays : SUBSET Versions, additions : Maps(Route), plan : Nat,
   has_progress : BOOLEAN, progress : 0..CheckpointLimit]

PatchType ==
  [base : Versions \cup {0}, latest : Versions,
   changes : UNION {[D -> ChangeType] : D \in SUBSET Participants},
   cull : Nat, remedial : BOOLEAN]

MirrorType ==
  [joined : BOOLEAN, version : Versions \cup {0}, states : [Participants -> CopyType]]

(* A participant's state in a database at version n: what is active is      *)
(* stored and has routes, what is not was erased; a route was added no      *)
(* later than the progress was last set.                                    *)
StateInv(s, n) ==
  /\ s \in StateType
  /\ s.active \subseteq DOMAIN s.storage
  /\ \A id \in DOMAIN s.storage : id < s.next_storage
  /\ \A id \in DOMAIN s.storage : Len(s.storage[id]) # 0
  /\ \A id \in DOMAIN s.storage : \A i \in DOMAIN s.storage[id] : s.storage[id][i].version <= n
  /\ \A id \in s.active : /\ s.storage[id][1].version <= s.version_of_progress
                          /\ \A i \in DOMAIN s.storage[id] : s.storage[id][i].route \in Route
  /\ \A id \in DOMAIN s.storage \ s.active : Newest(s.storage[id]).route = NoRoute
  /\ s.version_of_progress <= n
  /\ s.version_of_progress = 0 <=> s.plan = 0
  /\ s.plan = 0 => DOMAIN s.storage = {}

DatabaseType ==
  /\ database \in [version : Versions, cull : [time : {0} \cup CullTimes, version : Versions \cup {0}],
                   states : [Participants -> StateType]]
  /\ \A p \in Participants : StateInv(database.states[p], database.version)
  /\ database.cull.version <= database.version

HistoryType ==
  /\ history \in Seq([Participants -> ShownType])
  /\ Len(history) = database.version
  /\ history[database.version] = DatabaseShows(database.states)
  /\ \A v \in 1..database.version : \A p \in Participants :
       /\ history[v][p].routes = << >> => history[v][p].progress = 0
       /\ database.states[p].plan = 0 => history[v][p].plan = 0

(* The versions there were; 0 is none.                                      *)
Known == 0..database.version

MirrorTypes ==
  /\ query \in [checked : Known, sent : Known, remediation : SUBSET Known]
  /\ requests \in SUBSET Known
  /\ disturbances \in 0..DisturbanceLimit
  /\ mirrors \in [Mirrors -> MirrorType]
  /\ \A m \in Mirrors : mirrors[m].version \in Known
  /\ updates \in [Mirrors -> Seq(PatchType)]
  /\ \A m \in Mirrors : \A patch \in Range(updates[m]) :
       patch.latest <= database.version /\ patch.base <= patch.latest

(* The types of everything.                                                 *)
TypeInv == DatabaseType /\ HistoryType /\ MirrorTypes

-----------------------------------------------------------------------------
(* Maps and chains *)

(* A map is given by its domain and values.                                 *)
LEMMA MapIs ==
  ASSUME NEW X
  PROVE  /\ \A f \in Maps(X) : /\ DOMAIN f \subseteq Nat /\ f \in [DOMAIN f -> X]
                               /\ \A i \in DOMAIN f : f[i] \in X
         /\ \A D \in SUBSET Nat : \A f \in [D -> X] : f \in Maps(X)
BY DEF Maps

(* The empty map is the empty tuple.                                        *)
LEMMA EmptyMap ==
  ASSUME NEW X
  PROVE  /\ << >> \in Maps(X) /\ DOMAIN << >> = {}
         /\ \A f \in Maps(X) : DOMAIN f = {} <=> f = << >>
<1>1. << >> \in [{} -> X] /\ DOMAIN << >> = {}
  OBVIOUS
<1>2. << >> \in Maps(X)
  BY <1>1, MapIs
<1>3. ASSUME NEW f \in Maps(X), DOMAIN f = {} PROVE f = << >>
  <2>1. f \in [{} -> X]
    BY <1>3, MapIs
  <2> QED BY <1>1, <2>1
<1> QED BY <1>1, <1>2, <1>3

(* A set of numbers up to n has a greatest one: the sets k..n, for k in it, *)
(* are ordered by inclusion.                                                *)
LEMMA GreatestExists ==
  ASSUME NEW n \in Nat, NEW S \in SUBSET (0..n), S # {}
  PROVE  Max(S) \in S /\ \A k \in S : Max(S) >= k
<1> DEFINE R == StrictSubsetOrdering(0..n)
           F == FiniteSubsetsOf(0..n)
           B == {k..n : k \in S}
<1>1. B # {} /\ B \subseteq F
  <2>1. \A k \in S : IsFiniteSet(k..n) /\ k..n \in SUBSET (0..n)
    BY FS_Interval
  <2> QED BY <2>1 DEF FiniteSubsetsOf
<1>2. IsWellFoundedOn(R, F)
  BY FS_StrictSubsetOrderingWellFounded
<1>3. PICK b \in B : \A c \in B : ~(<<c, b>> \in R)
  <2> HIDE DEF R, F, B
  <2> QED BY <1>1, <1>2, WFMin
<1>4. PICK m \in S : b = m..n
  OBVIOUS
<1>5. ASSUME NEW k \in S, m < k PROVE FALSE
  <2>1. k..n \in B /\ k..n \in SUBSET (0..n) /\ m..n \in SUBSET (0..n)
    OBVIOUS
  <2>2. k..n \subseteq m..n /\ m \in m..n /\ m \notin k..n
    BY <1>5
  <2>3. <<k..n, m..n>> \in R
    BY <2>1, <2>2 DEF StrictSubsetOrdering
  <2> QED BY <1>3, <1>4, <2>1, <2>3
<1>6. m \in S /\ \A k \in S : m >= k
  BY <1>5
<1> QED BY <1>6 DEF Max

(* A late route is a route.                                                 *)
LEMMA LateRoute ==
  ASSUME NEW route \in Route, NEW n \in Nat
  PROVE  Late(route, n) \in Route
<1>1. n * DelayStep \in Nat
  BY ChainAssumption
<1> HIDE ChainAssumption
<1> QED BY <1>1 DEF Late, Route

(* The entries of a chain.                                                  *)
LEMMA ChainEntries ==
  ASSUME NEW chain \in Seq(ChainEntry), Len(chain) # 0
  PROVE  /\ Len(chain) \in Nat \ {0} /\ DOMAIN chain = 1..Len(chain)
         /\ 1 \in DOMAIN chain /\ Len(chain) \in DOMAIN chain
         /\ \A i \in DOMAIN chain : chain[i] \in ChainEntry
         /\ Newest(chain) = chain[Len(chain)]
<1>1. Len(chain) \in Nat /\ DOMAIN chain = 1..Len(chain)
  BY LenProperties
<1>2. \A i \in 1..Len(chain) : chain[i] \in ChainEntry
  BY ElementOfSeq
<1> QED BY <1>1, <1>2 DEF Newest

(* One entry is added to a chain.                                           *)
LEMMA ChainGrows ==
  ASSUME NEW chain \in Seq(ChainEntry), NEW e \in ChainEntry
  PROVE  LET c == Append(chain, e)
         IN  /\ c \in Seq(ChainEntry) /\ Len(c) = Len(chain) + 1 /\ Len(c) # 0
             /\ DOMAIN c = 1..Len(c)
             /\ \A i \in 1..Len(chain) : c[i] = chain[i]
             /\ c[Len(c)] = e /\ Newest(c) = e
             /\ Len(chain) # 0 => c[1] = chain[1]
<1>1. Len(chain) \in Nat
  BY LenProperties
<1> QED BY <1>1, AppendProperties DEF Newest

(* What the database may put in the place of an active chain at a version.  *)
Transition(chain, c, version) ==
  /\ c \in Seq(ChainEntry) /\ Len(c) # 0
  /\ \A i \in DOMAIN c : c[i].version <= version
  /\ c[1] = chain[1]
  /\ \A i \in DOMAIN c : c[i].route \in Route

Erasure(c, version) ==
  /\ c \in Seq(ChainEntry) /\ Len(c) # 0
  /\ \A i \in DOMAIN c : c[i].version <= version
  /\ Newest(c).route = NoRoute

(* A live chain at version n.                                               *)
LiveChain(chain, n) ==
  /\ chain \in Seq(ChainEntry) /\ Len(chain) # 0
  /\ \A i \in DOMAIN chain : chain[i].version <= n /\ chain[i].route \in Route

(* A live chain that is delayed or described stays live; one that is erased *)
(* ends in an erasure.                                                      *)
LEMMA TransitionsOfChains ==
  ASSUME NEW n \in Nat, NEW chain, LiveChain(chain, n), n + 1 \in Versions
  PROVE  /\ Transition(chain, Delayed(chain, n + 1), n + 1)
         /\ Transition(chain, Described(chain, n + 1), n + 1)
         /\ Erasure(Erased(chain, n + 1), n + 1)
<1>1. /\ Newest(chain).route \in Route
      /\ \A i \in 1..Len(chain) : chain[i].version <= n /\ chain[i].version \in Versions
                                  /\ chain[i].route \in Route
      /\ chain \in Seq(ChainEntry) /\ Len(chain) \in Nat \ {0}
  BY ChainEntries DEF LiveChain, ChainEntry
<1>2. Late(Newest(chain).route, 1) \in Route
  BY <1>1, LateRoute
<1>3. /\ Entry(n + 1, "delay", Late(Newest(chain).route, 1)) \in ChainEntry
      /\ Entry(n + 1, "describe", Newest(chain).route) \in ChainEntry
      /\ Entry(n + 1, "erase", NoRoute) \in ChainEntry
  BY <1>1, <1>2 DEF Entry, ChainEntry
<1>4. ASSUME NEW e \in ChainEntry, e.version = n + 1, e.route \in Route
      PROVE  Transition(chain, Append(chain, e), n + 1)
  <2> DEFINE c == Append(chain, e)
  <2>1. /\ c \in Seq(ChainEntry) /\ Len(c) = Len(chain) + 1 /\ Len(c) # 0 /\ DOMAIN c = 1..Len(c)
        /\ \A i \in 1..Len(chain) : c[i] = chain[i]
        /\ c[Len(c)] = e /\ c[1] = chain[1]
    BY <1>1, ChainGrows
  <2>2. \A i \in DOMAIN c : i \in 1..Len(chain) \/ i = Len(c)
    BY <1>1, <2>1
  <2>3. \A i \in DOMAIN c : c[i].version <= n + 1 /\ c[i].route \in Route
    BY <1>1, <1>4, <2>1, <2>2 DEF Versions
  <2> QED BY <2>1, <2>3 DEF Transition
<1>5. Transition(chain, Delayed(chain, n + 1), n + 1)
  BY <1>2, <1>3, <1>4 DEF Delayed, Entry
<1>6. Transition(chain, Described(chain, n + 1), n + 1)
  BY <1>1, <1>3, <1>4 DEF Described, Entry
<1>7. Erasure(Erased(chain, n + 1), n + 1)
  <2> DEFINE a == IF Len(chain) = 1 THEN 1 ELSE Len(chain) - 1
             kept == SubSeq(chain, a, Len(chain))
             e == Entry(n + 1, "erase", NoRoute)
             c == Append(kept, e)
  <2>1. a \in 1..Len(chain)
    <3>1. PICK k \in Nat \ {0} : Len(chain) = k
      BY <1>1
    <3>2. a = IF k = 1 THEN 1 ELSE k - 1
      BY <3>1
    <3> HIDE DEF a
    <3> QED BY <3>1, <3>2
  <2> HIDE DEF a
  <2>2. kept \in Seq(ChainEntry) /\ \A i \in 1..Len(kept) : \E j \in 1..Len(chain) : kept[i] = chain[j]
    <3>1. kept \in Seq(ChainEntry) /\ Len(kept) = Len(chain) - a + 1
          /\ \A i \in 1..(Len(chain) - a + 1) : kept[i] = chain[a + i - 1]
      BY <1>1, <2>1
    <3>2. ASSUME NEW i \in 1..Len(kept) PROVE a + i - 1 \in 1..Len(chain) /\ kept[i] = chain[a + i - 1]
      <4>1. Len(chain) \in Nat /\ a \in Nat /\ 1 <= a /\ a <= Len(chain)
        BY <1>1, <2>1
      <4> HIDE DEF kept
      <4>2. i \in 1..(Len(chain) - a + 1)
        BY <3>1
      <4> QED BY <3>1, <4>1, <4>2
    <3> QED BY <3>1, <3>2
  <2> HIDE DEF kept
  <2>3. /\ c \in Seq(ChainEntry) /\ Len(c) = Len(kept) + 1 /\ Len(c) # 0 /\ DOMAIN c = 1..Len(c)
        /\ \A i \in 1..Len(kept) : c[i] = kept[i]
        /\ c[Len(c)] = e /\ Newest(c) = e
    BY <1>3, <2>2, ChainGrows
  <2>4. \A i \in DOMAIN c : i \in 1..Len(kept) \/ i = Len(c)
    BY <2>2, <2>3, LenProperties
  <2>5. \A i \in DOMAIN c : c[i].version <= n + 1
    BY <1>1, <2>2, <2>3, <2>4, SMTT(30) DEF Entry, Versions
  <2>6. Erased(chain, n + 1) = c
    BY DEF Erased, kept, a
  <2>7. e.route = NoRoute
    BY DEF Entry
  <2> HIDE DEF c, e
  <2> QED BY <2>3, <2>5, <2>6, <2>7 DEF Erasure
<1> QED BY <1>5, <1>6, <1>7

-----------------------------------------------------------------------------
(* The handlers of the database keep a participant's state                   *)

(* The chains of the active routes are replaced by those of f.              *)
WithChains(s, f) ==
  [id \in DOMAIN s.storage |-> IF id \in s.active THEN f[id] ELSE s.storage[id]]

(* The parts of StateInv.                                                   *)
LEMMA StateFacts ==
  ASSUME NEW n \in Nat, NEW s, StateInv(s, n)
  PROVE  /\ s \in StateType /\ s.storage \in Maps(Seq(ChainEntry)) /\ s.active \subseteq DOMAIN s.storage
         /\ DOMAIN s.storage \subseteq Nat
         /\ \A id \in DOMAIN s.storage : s.storage[id] \in Seq(ChainEntry)
         /\ \A id \in s.active : LiveChain(s.storage[id], n)
<1>1. s \in StateType /\ s.storage \in Maps(Seq(ChainEntry)) /\ s.active \subseteq DOMAIN s.storage
  BY DEF StateInv, StateType
<1>2. DOMAIN s.storage \subseteq Nat /\ \A id \in DOMAIN s.storage : s.storage[id] \in Seq(ChainEntry)
  BY <1>1, MapIs
<1>3. \A id \in s.active : LiveChain(s.storage[id], n)
  BY <1>1, <1>2 DEF StateInv, LiveChain
<1> QED BY <1>1, <1>2, <1>3

(* Replacing the active chains by transitions of theirs keeps a             *)
(* participant's state.                                                     *)
LEMMA TransitionsKeepState ==
  ASSUME NEW n \in Nat, NEW s, StateInv(s, n), NEW f,
         \A id \in s.active : Transition(s.storage[id], f[id], n + 1)
  PROVE  StateInv([s EXCEPT !.storage = WithChains(s, f)], n + 1)
<1> DEFINE t == [s EXCEPT !.storage = WithChains(s, f)]
           st == WithChains(s, f)
<1>1. /\ s \in StateType /\ s.active \subseteq DOMAIN s.storage /\ DOMAIN s.storage \subseteq Nat
      /\ \A id \in DOMAIN s.storage : s.storage[id] \in Seq(ChainEntry)
  BY StateFacts
<1>2. /\ DOMAIN st = DOMAIN s.storage
      /\ \A id \in DOMAIN st : st[id] = IF id \in s.active THEN f[id] ELSE s.storage[id]
  BY DEF WithChains
<1>3. st \in Maps(Seq(ChainEntry))
  <2>1. st \in [DOMAIN s.storage -> Seq(ChainEntry)]
    BY <1>1 DEF WithChains, Transition
  <2> QED BY <1>1, <2>1, MapIs
<1> HIDE DEF st
<1>4. t = [s EXCEPT !.storage = st]
  BY DEF st
<1> HIDE DEF t
<1>5. /\ t \in StateType /\ t.storage = st /\ t.active = s.active /\ t.plan = s.plan
      /\ t.next_storage = s.next_storage /\ t.version_of_progress = s.version_of_progress
  BY <1>1, <1>3, <1>4 DEF StateType
<1>6. \A id \in DOMAIN st : \A i \in DOMAIN st[id] : st[id][i].version <= n + 1
  <2> SUFFICES ASSUME NEW id \in DOMAIN st, NEW i \in DOMAIN st[id] PROVE st[id][i].version <= n + 1
    OBVIOUS
  <2>1. CASE id \in s.active
    BY <1>2, <2>1 DEF Transition
  <2>2. CASE id \notin s.active
    <3>1. st[id] = s.storage[id] /\ id \in DOMAIN s.storage
      BY <1>2, <2>2
    <3>2. s.storage[id][i].version \in Versions /\ s.storage[id][i].version <= n
      <4>1. s.storage[id] \in Seq(ChainEntry) /\ Len(s.storage[id]) # 0
        BY <1>1, <3>1 DEF StateInv
      <4> QED BY <3>1, <4>1, ChainEntries DEF StateInv, ChainEntry
    <3> QED BY <3>1, <3>2 DEF Versions
  <2> QED BY <2>1, <2>2
<1>7. \A id \in s.active : /\ st[id][1].version <= s.version_of_progress
                           /\ \A i \in DOMAIN st[id] : st[id][i].route \in Route
  BY <1>1, <1>2 DEF Transition, StateInv
<1>8. \A id \in DOMAIN st : Len(st[id]) # 0
  BY <1>2 DEF StateInv, Transition
<1>9. \A id \in DOMAIN st \ s.active : Newest(st[id]).route = NoRoute
  BY <1>2 DEF StateInv
<1>10. s.version_of_progress <= n + 1
  BY <1>1 DEF StateInv, StateType, Versions
<1>11. StateInv(t, n + 1)
  BY <1>2, <1>5, <1>6, <1>7, <1>8, <1>9, <1>10 DEF StateInv
<1> QED BY <1>11 DEF t

(* What clear() leaves of a state.                                          *)
LEMMA ClearedIs ==
  ASSUME NEW n \in Nat, NEW s, StateInv(s, n)
  PROVE  LET f == [id \in s.active |-> Erased(s.storage[id], NextVersion)]
         IN  Cleared(s) = [s EXCEPT !.storage = WithChains(s, f), !.active = {}, !.progress = 0]
BY StateFacts DEF Cleared, WithActive, WithChains

(* clear keeps a participant's state: its erased chains stay stored, none is*)
(* active.                                                                  *)
LEMMA ClearedKeepsState ==
  ASSUME NEW n \in Nat, NEW s, StateInv(s, n), n = database.version, n + 1 \in Versions
  PROVE  /\ StateInv(Cleared(s), n + 1)
         /\ Cleared(s).active = {} /\ Cleared(s).plan = s.plan
         /\ Cleared(s).next_storage = s.next_storage
<1> DEFINE f == [id \in s.active |-> Erased(s.storage[id], NextVersion)]
           st == WithChains(s, f)
           t == Cleared(s)
<1>1. /\ s \in StateType /\ s.active \subseteq DOMAIN s.storage /\ DOMAIN s.storage \subseteq Nat
      /\ \A id \in DOMAIN s.storage : s.storage[id] \in Seq(ChainEntry)
  BY StateFacts
<1>2. \A id \in s.active : Erasure(f[id], n + 1)
  BY StateFacts, TransitionsOfChains DEF NextVersion
<1> HIDE DEF f
<1>3. /\ DOMAIN st = DOMAIN s.storage
      /\ \A id \in DOMAIN st : st[id] = IF id \in s.active THEN f[id] ELSE s.storage[id]
  BY DEF WithChains
<1>4. st \in Maps(Seq(ChainEntry))
  <2>1. st \in [DOMAIN s.storage -> Seq(ChainEntry)]
    BY <1>1, <1>2 DEF WithChains, Erasure
  <2> QED BY <1>1, <2>1, MapIs
<1>5. t = [s EXCEPT !.storage = st, !.active = {}, !.progress = 0]
  BY ClearedIs DEF f
<1> HIDE DEF st, t
<1>6. 0 \in 0..CheckpointLimit
  BY MirrorAssumption
<1>7. /\ t \in StateType /\ t.storage = st /\ t.active = {} /\ t.plan = s.plan
      /\ t.next_storage = s.next_storage /\ t.version_of_progress = s.version_of_progress
  BY <1>1, <1>4, <1>5, <1>6 DEF StateType
<1>8. \A id \in DOMAIN st : \A i \in DOMAIN st[id] : st[id][i].version <= n + 1
  <2> SUFFICES ASSUME NEW id \in DOMAIN st, NEW i \in DOMAIN st[id] PROVE st[id][i].version <= n + 1
    OBVIOUS
  <2>1. CASE id \in s.active
    BY <1>2, <1>3, <2>1 DEF Erasure
  <2>2. CASE id \notin s.active
    <3>1. st[id] = s.storage[id] /\ id \in DOMAIN s.storage
      BY <1>3, <2>2
    <3>2. s.storage[id][i].version \in Versions /\ s.storage[id][i].version <= n
      <4>1. s.storage[id] \in Seq(ChainEntry) /\ Len(s.storage[id]) # 0
        BY <1>1, <3>1 DEF StateInv
      <4> QED BY <3>1, <4>1, ChainEntries DEF StateInv, ChainEntry
    <3> QED BY <3>1, <3>2 DEF Versions
  <2> QED BY <2>1, <2>2
<1>9. \A id \in DOMAIN st : Len(st[id]) # 0 /\ Newest(st[id]).route = NoRoute
  BY <1>2, <1>3 DEF StateInv, Erasure
<1>10. s.version_of_progress <= n + 1
  BY <1>1 DEF StateInv, StateType, Versions
<1>11. StateInv(t, n + 1)
  BY <1>3, <1>7, <1>8, <1>9, <1>10 DEF StateInv
<1> QED BY <1>7, <1>11 DEF t

(* What insert_items() adds to a state.                                     *)
LEMMA InsertedKeepsState ==
  ASSUME NEW n \in Nat, NEW s, StateInv(s, n), n = NextVersion, n \in Versions,
         s.version_of_progress = n, NEW it \in Seq(Route)
  PROVE  LET t == Inserted(s, it)
             new == s.next_storage..(s.next_storage + Len(it) - 1)
         IN  /\ StateInv(t, n)
             /\ t.plan = s.plan /\ t.version_of_progress = n /\ t.active = s.active \cup new
             /\ t.next_storage = s.next_storage + Len(it)
             /\ DOMAIN t.storage = DOMAIN s.storage \cup new
             /\ \A id \in DOMAIN s.storage : t.storage[id] = s.storage[id] /\ id \notin new
             /\ \A id \in new : \E i \in DOMAIN it : t.storage[id] = Added(it[i], n)
<1> DEFINE first == s.next_storage
           new == first..(first + Len(it) - 1)
           st == [id \in DOMAIN s.storage \cup new |->
                    IF id \in new THEN Added(it[id - first + 1], n) ELSE s.storage[id]]
           t == Inserted(s, it)
<1>1. /\ s \in StateType /\ s.active \subseteq DOMAIN s.storage /\ DOMAIN s.storage \subseteq Nat
      /\ \A id \in DOMAIN s.storage : s.storage[id] \in Seq(ChainEntry)
      /\ first \in Nat \ {0} /\ Len(it) \in Nat
  BY StateFacts, LenProperties DEF StateType
<1>2. t = [s EXCEPT !.storage = st, !.active = s.active \cup new, !.next_storage = first + Len(it)]
  BY DEF Inserted
<1>3. \A id \in new : /\ id - first + 1 \in 1..Len(it) /\ it[id - first + 1] \in Route
                      /\ id \in Nat /\ id \notin DOMAIN s.storage
  <2> SUFFICES ASSUME NEW id \in new
               PROVE  /\ id - first + 1 \in 1..Len(it) /\ it[id - first + 1] \in Route
                      /\ id \in Nat /\ id \notin DOMAIN s.storage
    OBVIOUS
  <2>1. id - first + 1 \in 1..Len(it) /\ id \in Nat /\ first <= id
    BY <1>1
  <2> HIDE DEF new
  <2>2. it[id - first + 1] \in Route
    BY <2>1, ElementOfSeq
  <2>3. id \notin DOMAIN s.storage
    BY <1>1, <2>1 DEF StateInv
  <2> QED BY <2>1, <2>2, <2>3
<1>4. \A id \in new : LET c == Added(it[id - first + 1], n)
                      IN  /\ c \in Seq(ChainEntry) /\ Len(c) = 1 /\ DOMAIN c = {1}
                          /\ c[1].version = n /\ c[1].route \in Route
  <2> SUFFICES ASSUME NEW id \in new
               PROVE LET c == Added(it[id - first + 1], n)
                     IN  /\ c \in Seq(ChainEntry) /\ Len(c) = 1 /\ DOMAIN c = {1}
                         /\ c[1].version = n /\ c[1].route \in Route
    OBVIOUS
  <2>1. PICK r \in Route : r = it[id - first + 1]
    BY <1>3
  <2>2. Entry(n, "add", r) \in ChainEntry /\ Entry(n, "add", r).version = n /\ Entry(n, "add", r).route = r
    BY DEF Entry, ChainEntry
  <2> QED BY <2>1, <2>2 DEF Added
<1> HIDE DEF new
<1>5. /\ DOMAIN st = DOMAIN s.storage \cup new
      /\ \A id \in new : st[id] = Added(it[id - first + 1], n)
      /\ \A id \in DOMAIN s.storage : st[id] = s.storage[id] /\ id \notin new
  BY <1>3
<1>6. st \in Maps(Seq(ChainEntry))
  <2>1. st \in [DOMAIN s.storage \cup new -> Seq(ChainEntry)]
    BY <1>1, <1>4
  <2> QED BY <1>1, <1>3, <2>1, MapIs
<1> HIDE DEF st, t
<1>7. /\ t \in StateType /\ t.storage = st /\ t.active = s.active \cup new
      /\ t.plan = s.plan /\ t.next_storage = first + Len(it)
      /\ t.version_of_progress = n
  <2>1. s.active \cup new \in SUBSET Nat
    BY <1>1, <1>3
  <2>2. first + Len(it) \in Nat \ {0}
    BY <1>1
  <2> QED BY <1>1, <1>2, <1>6, <2>1, <2>2 DEF StateType
<1>8. \A id \in DOMAIN st : id < first + Len(it)
  <2>1. \A id \in new : id < first + Len(it)
    BY <1>1 DEF new
  <2>2. \A id \in DOMAIN s.storage : id < first /\ id \in Nat
    BY <1>1 DEF StateInv
  <2> QED BY <1>1, <1>5, <2>1, <2>2
<1>9. \A id \in DOMAIN st : Len(st[id]) # 0 /\ \A i \in DOMAIN st[id] : st[id][i].version <= n
  BY <1>4, <1>5 DEF StateInv
<1>10. \A id \in t.active : /\ st[id][1].version <= n
                            /\ \A i \in DOMAIN st[id] : st[id][i].route \in Route
  BY <1>1, <1>4, <1>5, <1>7 DEF StateInv
<1>11. \A id \in DOMAIN st \ t.active : Newest(st[id]).route = NoRoute
  BY <1>5, <1>7 DEF StateInv
<1>12. s.plan # 0
  BY DEF StateInv, NextVersion, Versions
<1>13. StateInv(t, n)
  BY <1>1, <1>5, <1>7, <1>8, <1>9, <1>10, <1>11, <1>12 DEF StateInv, Versions
<1>14. \A id \in new : \E i \in DOMAIN it : st[id] = Added(it[i], n)
  BY <1>3, <1>5, LenProperties
<1> QED BY <1>5, <1>7, <1>13, <1>14 DEF t, new

(* A later version.                                                         *)
LEMMA StateInvLater ==
  ASSUME NEW n \in Nat, NEW s, StateInv(s, n)
  PROVE  StateInv(s, n + 1)
<1>1. \A id \in DOMAIN s.storage : \A i \in DOMAIN s.storage[id] :
        s.storage[id][i].version \in Nat /\ s.storage[id][i].version <= n + 1
  <2> SUFFICES ASSUME NEW id \in DOMAIN s.storage, NEW i \in DOMAIN s.storage[id]
               PROVE  s.storage[id][i].version \in Nat /\ s.storage[id][i].version <= n + 1
    OBVIOUS
  <2>1. s.storage[id] \in Seq(ChainEntry) /\ Len(s.storage[id]) # 0 /\ s.storage[id][i].version <= n
    BY StateFacts DEF StateInv
  <2>2. s.storage[id][i].version \in Versions
    BY <2>1, ChainEntries DEF ChainEntry
  <2> QED BY <2>1, <2>2 DEF Versions
<1>2. s.version_of_progress <= n + 1
  BY DEF StateInv, StateType, Versions
<1> QED BY <1>1, <1>2 DEF StateInv

(* The plan and the progress are set, at the present version.               *)
LEMMA RestampedKeepsState ==
  ASSUME NEW n \in Versions, NEW s, StateInv(s, n), NEW k \in Nat \ {0}, NEW q \in 0..CheckpointLimit
  PROVE  StateInv([s EXCEPT !.plan = k, !.progress = q, !.version_of_progress = n], n)
<1> DEFINE t == [s EXCEPT !.plan = k, !.progress = q, !.version_of_progress = n]
<1>1. s \in StateType /\ s.storage \in Maps(Seq(ChainEntry))
  BY DEF StateInv, StateType
<1>2. /\ t \in StateType /\ t.storage = s.storage /\ t.active = s.active
      /\ t.next_storage = s.next_storage /\ t.plan = k /\ t.version_of_progress = n
  BY <1>1 DEF StateType
<1> HIDE DEF t
<1>3. \A id \in s.active : s.storage[id][1].version <= n
  <2> SUFFICES ASSUME NEW id \in s.active PROVE s.storage[id][1].version <= n
    OBVIOUS
  <2>1. s.storage[id] \in Seq(ChainEntry) /\ Len(s.storage[id]) # 0 /\ id \in DOMAIN s.storage
    BY <1>1, MapIs DEF StateInv
  <2> QED BY <2>1, ChainEntries DEF StateInv
<1>4. StateInv(t, n)
  BY <1>2, <1>3 DEF StateInv, Versions
<1> QED BY <1>4 DEF t

(* Chains are forgotten.                                                    *)
LEMMA RestrictedKeepsState ==
  ASSUME NEW n \in Nat, NEW s, StateInv(s, n), NEW S
  PROVE  StateInv([s EXCEPT !.storage = Restrict(s.storage, DOMAIN s.storage \ S),
                            !.active = s.active \ S], n)
<1> DEFINE st == Restrict(s.storage, DOMAIN s.storage \ S)
           t == [s EXCEPT !.storage = st, !.active = s.active \ S]
<1>1. /\ s \in StateType /\ s.active \subseteq DOMAIN s.storage /\ DOMAIN s.storage \subseteq Nat
      /\ \A id \in DOMAIN s.storage : s.storage[id] \in Seq(ChainEntry)
  BY StateInvLater, StateFacts
<1>2. DOMAIN st = DOMAIN s.storage \ S /\ \A id \in DOMAIN st : st[id] = s.storage[id]
  BY DEF Restrict
<1>3. st \in Maps(Seq(ChainEntry))
  <2>1. st \in [DOMAIN s.storage \ S -> Seq(ChainEntry)]
    BY <1>1 DEF Restrict
  <2> QED BY <1>1, <2>1, MapIs
<1> HIDE DEF st
<1>4. /\ t \in StateType /\ t.storage = st /\ t.active = s.active \ S /\ t.plan = s.plan
      /\ t.next_storage = s.next_storage /\ t.version_of_progress = s.version_of_progress
  BY <1>1, <1>3 DEF StateType
<1> HIDE DEF t
<1>5. StateInv(t, n)
  BY <1>1, <1>2, <1>4 DEF StateInv
<1> QED BY <1>5 DEF t, st

(* What the database shows.                                                 *)
LEMMA ShownIsTyped ==
  ASSUME NEW n \in Nat, NEW states, \A p \in Participants : StateInv(states[p], n)
  PROVE  /\ DatabaseShows(states) \in [Participants -> ShownType]
         /\ \A p \in Participants :
              LET shown == DatabaseShows(states)[p] IN
              /\ shown.plan = states[p].plan
              /\ shown.routes = CurrentRoutes(states[p])
              /\ shown.routes \in Maps(Route)
              /\ shown.routes = << >> => shown.progress = 0
              /\ shown.routes # << >> => shown.progress = states[p].progress
<1> SUFFICES ASSUME NEW p \in Participants
             PROVE  LET shown == Shown(states[p].plan, CurrentRoutes(states[p]), states[p].progress) IN
                    /\ shown \in ShownType
                    /\ shown.plan = states[p].plan
                    /\ shown.routes = CurrentRoutes(states[p])
                    /\ shown.routes \in Maps(Route)
                    /\ shown.routes = << >> => shown.progress = 0
                    /\ shown.routes # << >> => shown.progress = states[p].progress
  BY DEF DatabaseShows
<1> DEFINE s == states[p]
<1>1. /\ s \in StateType /\ s.active \subseteq Nat
      /\ \A id \in s.active : LiveChain(s.storage[id], n)
  BY StateFacts DEF StateType
<1>2. \A id \in s.active : Newest(s.storage[id]).route \in Route
  BY <1>1, ChainEntries DEF LiveChain
<1>3. CurrentRoutes(s) \in Maps(Route)
  <2>1. CurrentRoutes(s) \in [s.active -> Route]
    BY <1>2 DEF CurrentRoutes
  <2> QED BY <1>1, <2>1, MapIs
<1>4. 0 \in 0..CheckpointLimit /\ s.progress \in 0..CheckpointLimit /\ s.plan \in Nat
  BY <1>1, MirrorAssumption DEF StateType
<1> QED BY <1>3, <1>4 DEF Shown, ShownType

(* Every handler of the database goes on to the next version.               *)
LEMMA AdvanceKeepsTypes ==
  ASSUME TypeInv, NEW states \in [Participants -> StateType], NEW cull, Advance(states, cull),
         \A p \in Participants : StateInv(states[p], NextVersion),
         \A p \in Participants : states[p].plan = 0 => database.states[p].plan = 0,
         cull \in [time : {0} \cup CullTimes, version : Versions \cup {0}],
         cull.version <= NextVersion
  PROVE  TypeInv'
<1> DEFINE n == database.version
<1>1. /\ n \in Nat \ {0} /\ n + 1 \in Versions /\ NextVersion = n + 1 /\ n \in Versions
      /\ database' = [version |-> n + 1, states |-> states, cull |-> cull]
      /\ history' = Append(history, DatabaseShows(states))
      /\ UNCHANGED <<query, updates, requests, mirrors, disturbances>>
  BY DEF Advance, TypeInv, DatabaseType, NextVersion, Versions
<1>2. DatabaseType'
  BY <1>1 DEF DatabaseType
<1>3. DatabaseShows(states) \in [Participants -> ShownType]
  BY <1>1, ShownIsTyped
<1>4. HistoryType'
  <2>1. history \in Seq([Participants -> ShownType]) /\ Len(history) = n
    BY DEF TypeInv, HistoryType
  <2>2. /\ history' \in Seq([Participants -> ShownType]) /\ Len(history') = n + 1
        /\ history'[n + 1] = DatabaseShows(states)
        /\ \A v \in 1..n : history'[v] = history[v]
    BY <1>1, <1>3, <2>1, AppendProperties
  <2>3. ASSUME NEW v \in 1..(n + 1), NEW p \in Participants
        PROVE  /\ history'[v][p].routes = << >> => history'[v][p].progress = 0
               /\ states[p].plan = 0 => history'[v][p].plan = 0
    <3>1. CASE v \in 1..n
      BY <2>2, <3>1 DEF TypeInv, HistoryType
    <3>2. CASE v = n + 1
      BY <1>1, <2>2, <3>2, ShownIsTyped
    <3>3. v \in 1..n \/ v = n + 1
      <4>1. PICK k \in Nat : k = n
        BY <1>1
      <4>2. v \in 1..(k + 1) => v \in 1..k \/ v = k + 1
        OBVIOUS
      <4> QED BY <4>1, <4>2
    <3> QED BY <3>1, <3>2, <3>3
  <2> QED BY <1>1, <2>2, <2>3 DEF HistoryType
<1>5. MirrorTypes'
  <2>1. Known \subseteq Known'
    BY <1>1 DEF Known
  <2>2. \A m \in Mirrors : \A patch \in Range(updates[m]) : patch.latest <= n + 1
    <3> SUFFICES ASSUME NEW m \in Mirrors, NEW patch \in Range(updates[m]) PROVE patch.latest <= n + 1
      OBVIOUS
    <3>1. patch \in PatchType /\ patch.latest <= n
      BY RangeOfSeq DEF TypeInv, MirrorTypes
    <3> QED BY <1>1, <3>1 DEF PatchType, Versions
  <2> QED BY <1>1, <2>1, <2>2 DEF TypeInv, MirrorTypes
<1> QED BY <1>2, <1>4, <1>5 DEF TypeInv

(* A handler changes the state of one participant.                          *)
LEMMA UpdateKeepsTypes ==
  ASSUME TypeInv, NEW p \in Participants, NEW state, Update(p, state), NextVersion \in Versions =>
           StateInv(state, NextVersion) /\ (state.plan = 0 => database.states[p].plan = 0)
  PROVE  TypeInv'
<1> DEFINE n == database.version
           states == [database.states EXCEPT ![p] = state]
<1>1. n \in Nat /\ NextVersion = n + 1 /\ n + 1 \in Versions /\ Advance(states, database.cull)
  BY DEF Update, Advance, TypeInv, DatabaseType, NextVersion, Versions
<1>2. /\ database.states \in [Participants -> StateType]
      /\ \A q \in Participants : StateInv(database.states[q], n)
      /\ database.cull \in [time : {0} \cup CullTimes, version : Versions \cup {0}]
      /\ database.cull.version <= n
  BY DEF TypeInv, DatabaseType
<1>3. \A q \in Participants : StateInv(states[q], n + 1)
  BY <1>1, <1>2, StateInvLater
<1>4. states \in [Participants -> StateType]
  BY <1>2, <1>3 DEF StateInv
<1>5. \A q \in Participants : states[q].plan = 0 => database.states[q].plan = 0
  BY <1>1, <1>2
<1>6. database.cull.version <= n + 1
  BY <1>1, <1>2 DEF Versions
<1> HIDE DEF states
<1> QED BY <1>1, <1>2, <1>3, <1>4, <1>5, <1>6, AdvanceKeepsTypes

(* The state a participant has.                                             *)
LEMMA TheState ==
  ASSUME TypeInv, NEW p \in Participants
  PROVE  /\ database.version \in Nat /\ NextVersion = database.version + 1
         /\ StateInv(database.states[p], database.version)
         /\ StateInv(database.states[p], NextVersion)
         /\ database.states[p] \in StateType
<1>1. database.version \in Nat /\ NextVersion = database.version + 1 /\ StateInv(database.states[p], database.version)
  BY DEF TypeInv, DatabaseType, NextVersion, Versions
<1>2. StateInv(database.states[p], NextVersion)
  BY <1>1, StateInvLater
<1> QED BY <1>1, <1>2 DEF StateInv

(* The state that set() gives a participant.                                *)
LEMMA SetKeepsState ==
  ASSUME TypeInv, NEW p \in Participants, NextVersion \in Versions, NEW it \in Seq(Route)
  PROVE  LET t == [Cleared(database.states[p]) EXCEPT !.plan = @ + 1, !.version_of_progress = NextVersion]
         IN  /\ StateInv(t, NextVersion) /\ t.version_of_progress = NextVersion
             /\ StateInv(Inserted(t, it), NextVersion) /\ Inserted(t, it).plan = t.plan
             /\ t.plan = database.states[p].plan + 1 /\ t.plan # 0
<1> DEFINE s == database.states[p]
           c == Cleared(s)
           t == [c EXCEPT !.plan = @ + 1, !.version_of_progress = NextVersion]
<1>1. StateInv(c, NextVersion) /\ c.plan = s.plan /\ c \in StateType /\ s.plan \in Nat
  <2>1. /\ database.version \in Nat /\ NextVersion = database.version + 1
        /\ StateInv(s, database.version) /\ s \in StateType
    BY TheState
  <2> HIDE DEF s
  <2>2. StateInv(c, NextVersion) /\ c.plan = s.plan
    BY <2>1, ClearedKeepsState
  <2>3. s.plan \in Nat
    BY <2>1 DEF StateType
  <2> HIDE DEF c
  <2> QED BY <2>2, <2>3 DEF StateInv
<1> HIDE DEF c
<1>2. t = [c EXCEPT !.plan = c.plan + 1, !.progress = c.progress, !.version_of_progress = NextVersion]
  BY <1>1 DEF StateType
<1>3. c.plan + 1 \in Nat \ {0} /\ c.progress \in 0..CheckpointLimit
  BY <1>1 DEF StateType
<1>4. StateInv(t, NextVersion)
  BY <1>1, <1>2, <1>3, RestampedKeepsState
<1>5. t.version_of_progress = NextVersion /\ t.plan = s.plan + 1 /\ t.plan # 0
  BY <1>1, <1>3 DEF StateType
<1> HIDE DEF t
<1>6. NextVersion \in Nat
  BY DEF Versions
<1>7. StateInv(Inserted(t, it), NextVersion) /\ Inserted(t, it).plan = t.plan
  BY <1>4, <1>5, <1>6, InsertedKeepsState
<1> QED BY <1>4, <1>5, <1>7 DEF t, c, s

(* The state that extend() gives a participant.                             *)
LEMMA ExtendKeepsState ==
  ASSUME TypeInv, NEW p \in Participants, NextVersion \in Versions, NEW it \in Seq(Route),
         database.states[p].plan # 0
  PROVE  LET t == [database.states[p] EXCEPT !.version_of_progress = NextVersion]
         IN  /\ StateInv(t, NextVersion) /\ t.version_of_progress = NextVersion
             /\ StateInv(Inserted(t, it), NextVersion) /\ Inserted(t, it).plan = t.plan
             /\ t.plan = database.states[p].plan
<1> DEFINE s == database.states[p]
           t == [s EXCEPT !.version_of_progress = NextVersion]
<1>1. StateInv(s, NextVersion) /\ s \in StateType
  BY TheState
<1> HIDE DEF s
<1>2. t = [s EXCEPT !.plan = s.plan, !.progress = s.progress, !.version_of_progress = NextVersion]
  BY <1>1 DEF StateType
<1>3. s.plan \in Nat \ {0} /\ s.progress \in 0..CheckpointLimit
  BY <1>1 DEF StateType, s
<1>4. StateInv(t, NextVersion)
  BY <1>1, <1>2, <1>3, RestampedKeepsState
<1>5. t.version_of_progress = NextVersion /\ t.plan = s.plan
  BY <1>1 DEF StateType
<1> HIDE DEF t
<1>6. NextVersion \in Nat
  BY DEF Versions
<1>7. StateInv(Inserted(t, it), NextVersion) /\ Inserted(t, it).plan = t.plan
  BY <1>4, <1>5, <1>6, InsertedKeepsState
<1> QED BY <1>4, <1>5, <1>7 DEF t, s

(* Every handler keeps the types.                                           *)
LEMMA DatabaseKeepsTypes ==
  ASSUME TypeInv, NEW p \in Participants
  PROVE  /\ \A it \in Itineraries[database.cull.time] :
              (Set(p, it) => TypeInv') /\ (Extend(p, it) => TypeInv')
         /\ (Delay(p) => TypeInv') /\ (Clear(p) => TypeInv') /\ (UpdateDescription(p) => TypeInv')
         /\ \A c \in 1..CheckpointLimit : Reached(p, c) => TypeInv'
<1> DEFINE s == database.states[p]
           n == database.version
<1>1. /\ n \in Nat /\ NextVersion = n + 1 /\ StateInv(s, n) /\ StateInv(s, NextVersion)
      /\ s \in StateType
  BY TheState
<1>2. \A it \in Itineraries[database.cull.time] : it \in Seq(Route)
  BY MirrorAssumption DEF TypeInv, DatabaseType
<1>3. ASSUME NEW it \in Itineraries[database.cull.time], Set(p, it) PROVE TypeInv'
  <2> DEFINE t == [Cleared(s) EXCEPT !.plan = @ + 1, !.version_of_progress = NextVersion]
  <2>1. Update(p, Inserted(t, it))
    BY <1>3 DEF Set
  <2>2. NextVersion \in Versions => StateInv(Inserted(t, it), NextVersion) /\ Inserted(t, it).plan # 0
    BY <1>2, SetKeepsState
  <2> HIDE DEF t
  <2> QED BY <2>1, <2>2, UpdateKeepsTypes
<1>4. ASSUME NEW it \in Itineraries[database.cull.time], Extend(p, it) PROVE TypeInv'
  <2> DEFINE t == [s EXCEPT !.version_of_progress = NextVersion]
  <2>1. Update(p, Inserted(t, it)) /\ s.plan # 0
    BY <1>4 DEF Extend
  <2>2. NextVersion \in Versions => StateInv(Inserted(t, it), NextVersion) /\ Inserted(t, it).plan = s.plan
    BY <1>2, <2>1, ExtendKeepsState
  <2> HIDE DEF t
  <2> QED BY <2>1, <2>2, UpdateKeepsTypes
<1>5. ASSUME Delay(p) PROVE TypeInv'
  <2> DEFINE f == [id \in s.active |-> Delayed(s.storage[id], NextVersion)]
             t == [s EXCEPT !.storage = WithChains(s, f)]
  <2>1. Update(p, t)
    BY <1>1, <1>5, StateFacts DEF Delay, WithActive, WithChains
  <2>2. NextVersion \in Versions => \A id \in s.active : Transition(s.storage[id], f[id], n + 1)
    BY <1>1, StateFacts, TransitionsOfChains
  <2> HIDE DEF f
  <2>3. NextVersion \in Versions => StateInv(t, NextVersion)
    BY <1>1, <2>2, TransitionsKeepState
  <2>4. t.plan = s.plan
    BY <1>1 DEF StateType
  <2> HIDE DEF t
  <2> QED BY <2>1, <2>3, <2>4, UpdateKeepsTypes
<1>6. ASSUME UpdateDescription(p) PROVE TypeInv'
  <2> DEFINE f == [id \in s.active |-> Described(s.storage[id], NextVersion)]
             t == [s EXCEPT !.storage = WithChains(s, f)]
  <2>1. Update(p, t)
    BY <1>1, <1>6, StateFacts DEF UpdateDescription, WithActive, WithChains
  <2>2. NextVersion \in Versions => \A id \in s.active : Transition(s.storage[id], f[id], n + 1)
    BY <1>1, StateFacts, TransitionsOfChains
  <2> HIDE DEF f
  <2>3. NextVersion \in Versions => StateInv(t, NextVersion)
    BY <1>1, <2>2, TransitionsKeepState
  <2>4. t.plan = s.plan
    BY <1>1 DEF StateType
  <2> HIDE DEF t
  <2> QED BY <2>1, <2>3, <2>4, UpdateKeepsTypes
<1>7. ASSUME Clear(p) PROVE TypeInv'
  <2>1. NextVersion \in Versions => StateInv(Cleared(s), NextVersion) /\ Cleared(s).plan = s.plan
    BY <1>1, ClearedKeepsState
  <2> QED BY <1>7, <2>1, UpdateKeepsTypes DEF Clear
<1>8. ASSUME NEW c \in 1..CheckpointLimit, Reached(p, c) PROVE TypeInv'
  <2> DEFINE q == Max({s.progress, c})
             t == [s EXCEPT !.progress = q, !.version_of_progress = NextVersion]
             u == [s EXCEPT !.plan = s.plan, !.progress = q, !.version_of_progress = NextVersion]
  <2>1. Update(p, t) /\ s.plan # 0
    BY <1>8 DEF Reached
  <2>2. q \in 0..CheckpointLimit
    <3>1. {s.progress, c} \in SUBSET (0..CheckpointLimit) /\ CheckpointLimit \in Nat
      BY <1>1, MirrorAssumption DEF StateType
    <3> QED BY <3>1, GreatestExists
  <2> HIDE DEF q
  <2>3. t = u
    BY <1>1 DEF StateType
  <2>4. s.plan \in Nat \ {0}
    BY <1>1, <2>1 DEF StateType
  <2>5. NextVersion \in Versions => StateInv(u, NextVersion)
    BY <1>1, <2>2, <2>4, RestampedKeepsState
  <2>6. t.plan = s.plan
    BY <1>1 DEF StateType
  <2> HIDE DEF t, u
  <2> QED BY <2>1, <2>3, <2>5, <2>6, UpdateKeepsTypes
<1> QED BY <1>3, <1>4, <1>5, <1>6, <1>7, <1>8

(* A cull keeps the types.                                                  *)
LEMMA CullKeepsTypes ==
  ASSUME TypeInv, NEW time \in CullTimes, Cull(time)
  PROVE  TypeInv'
<1> DEFINE Over(storage) == {id \in DOMAIN storage : LastRoute(storage[id]).finish < time}
           Culled(s) == [s EXCEPT !.storage = Restrict(s.storage, DOMAIN s.storage \ Over(s.storage)),
                                  !.active = s.active \ Over(s.storage)]
           states == [p \in Participants |-> Culled(database.states[p])]
           cull == [time |-> time, version |-> NextVersion]
<1>1. Advance(states, cull)
  BY DEF Cull
<1>2. NextVersion \in Versions /\ NextVersion \in Nat
  <2>1. NextVersion \in Versions
    BY <1>1, ZenonT(40) DEF Advance
  <2> QED BY <2>1, SMTT(30) DEF Versions
<1>3. ASSUME NEW p \in Participants
      PROVE  StateInv(states[p], NextVersion) /\ states[p].plan = database.states[p].plan
  <2>1. StateInv(Culled(database.states[p]), NextVersion)
    <3>1. StateInv(database.states[p], NextVersion)
      BY TheState
    <3> HIDE DEF Over
    <3> QED BY <1>2, <3>1, RestrictedKeepsState
  <2>2. states[p] = Culled(database.states[p])
    OBVIOUS
  <2>3. Culled(database.states[p]).plan = database.states[p].plan
    BY TheState, SMTT(30) DEF StateType
  <2> QED BY <2>1, <2>2, <2>3, Zenon
<1>4. states \in [Participants -> StateType]
  <2>1. \A p \in Participants : states[p] \in StateType
    BY <1>3, Zenon DEF StateInv
  <2> QED BY <2>1, ZenonT(40)
<1>5. cull \in [time : {0} \cup CullTimes, version : Versions \cup {0}] /\ cull.version <= NextVersion
  BY <1>2
<1> HIDE DEF states, cull
<1> QED BY <1>1, <1>3, <1>4, <1>5, AdvanceKeepsTypes

-----------------------------------------------------------------------------
(* Patches and mirrors                                                       *)

(* What the database tells of one participant.                              *)
LEMMA ChangesAreTyped ==
  ASSUME TypeInv, NEW p \in Participants, NEW after \in Known
  PROVE  ChangesOf(database.states[p], after) \in ChangeType
<1> DEFINE s == database.states[p]
           c == ChangesOf(s, after)
<1>1. /\ s \in StateType /\ DOMAIN s.storage \subseteq Nat
      /\ \A id \in DOMAIN s.storage : s.storage[id] \in Seq(ChainEntry) /\ Len(s.storage[id]) # 0
      /\ s.version_of_progress \in Nat /\ after \in Nat
  <2>1. StateInv(s, database.version) /\ database.version \in Nat /\ s \in StateType
    BY TheState
  <2>2. s.version_of_progress \in Nat /\ after \in Nat
    BY <2>1, SMTT(30) DEF StateType, Versions, Known
  <2>3. \A id \in DOMAIN s.storage : Len(s.storage[id]) # 0
    BY <2>1 DEF StateInv
  <2> HIDE DEF s
  <2> QED BY <2>1, <2>2, <2>3, StateFacts
<1>2. \A id \in DOMAIN s.storage : Newest(s.storage[id]).route \in Route \cup {NoRoute}
  BY <1>1, ChainEntries DEF ChainEntry
<1>3. c.erasures \in SUBSET Nat
  BY <1>1 DEF ChangesOf
<1>4. c.delays \in SUBSET Versions
  <2>1. \A id \in DOMAIN s.storage : DelaysSince(s.storage[id], after) \in SUBSET Versions
    <3> SUFFICES ASSUME NEW id \in DOMAIN s.storage PROVE DelaysSince(s.storage[id], after) \in SUBSET Versions
      OBVIOUS
    <3> DEFINE chain == s.storage[id]
               k == LastKnown(chain, after)
    <3>1. \A i \in 1..Len(chain) : chain[i].version \in Versions
      BY <1>1, ChainEntries DEF ChainEntry
    <3>2. Knows(chain, after) => k \in Nat
      <4>1. {0} \cup {i \in 1..Len(chain) : chain[i].version <= after} \in SUBSET (0..Len(chain))
            /\ Len(chain) \in Nat
        BY <1>1, LenProperties
      <4>2. k \in 0..Len(chain)
        BY <4>1, GreatestExists DEF LastKnown
      <4> QED BY <4>1, <4>2
    <3>3. Knows(chain, after) => \A i \in (k + 1)..Len(chain) : i \in 1..Len(chain)
      BY <1>1, <3>2, LenProperties
    <3> HIDE DEF k
    <3> QED BY <3>1, <3>3 DEF DelaysSince, k
  <2>2. c.delays = UNION {DelaysSince(s.storage[id], after) : id \in DOMAIN s.storage}
    BY DEF ChangesOf
  <2> QED BY <2>1, <2>2
<1>5. c.additions \in Maps(Route)
  <2> DEFINE Ids == {id \in DOMAIN s.storage : IsAddition(s.storage[id], after)}
  <2>1. c.additions = [id \in Ids |-> Newest(s.storage[id]).route]
    BY DEF ChangesOf
  <2>2. c.additions \in [Ids -> Route]
    BY <1>2, <2>1 DEF IsAddition
  <2> QED BY <1>1, <2>2, MapIs
<1>6. c.plan \in Nat /\ c.progress \in 0..CheckpointLimit /\ c.has_progress \in BOOLEAN
  BY <1>1 DEF ChangesOf, StateType
<1>7. c = [erasures |-> c.erasures, delays |-> c.delays, additions |-> c.additions, plan |-> c.plan,
           has_progress |-> c.has_progress, progress |-> c.progress]
  BY DEF ChangesOf
<1> HIDE DEF c
<1>8. c \in ChangeType
  BY <1>3, <1>4, <1>5, <1>6, <1>7 DEF ChangeType
<1> QED BY <1>8 DEF c, s

(* The time of the last cull is a number.                                   *)
LEMMA TheCullTime ==
  ASSUME TypeInv
  PROVE  database.cull.time \in Nat
<1>1. database.cull \in [time : {0} \cup CullTimes, version : Versions \cup {0}]
  BY DEF TypeInv, DatabaseType
<1>2. database.cull.time \in {0} \cup CullTimes
  <2> HIDE MirrorAssumption
  <2> QED BY <1>1
<1>3. CullTimes \subseteq Nat
  BY MirrorAssumption
<1>4. \A x \in {0} \cup CullTimes : x \in Nat
  BY <1>3
<1> QED BY <1>2, <1>4

(* A patch since a version that was has its type, and ends at the database's*)
(* version.                                                                 *)
LEMMA PatchIsTyped ==
  ASSUME TypeInv, NEW after \in Known, NEW remedial \in BOOLEAN
  PROVE  /\ Patch(after, remedial) \in PatchType
         /\ Patch(after, remedial).base = after
         /\ Patch(after, remedial).latest = database.version
         /\ after <= database.version
<1> DEFINE D == {p \in Participants : IsChange(ChangesOf(database.states[p], after))}
           changes == [p \in D |-> ChangesOf(database.states[p], after)]
           cull == IF after # 0 /\ after < database.cull.version THEN database.cull.time ELSE 0
<1>1. changes \in [D -> ChangeType]
  BY ChangesAreTyped
<1>2. changes \in UNION {[E -> ChangeType] : E \in SUBSET Participants}
  BY <1>1
<1>3. cull \in Nat
  BY TheCullTime
<1>4. database.version \in Versions /\ after \in Versions \cup {0} /\ after <= database.version
  <2>1. database.version \in Versions
    BY DEF TypeInv, DatabaseType
  <2>2. VersionLimit \in Nat
    BY MirrorAssumption
  <2> QED BY <2>1, <2>2 DEF Known, Versions
<1>5. Patch(after, remedial) = [base |-> after, latest |-> database.version, changes |-> changes,
                                cull |-> cull, remedial |-> remedial]
  BY DEF Patch
<1> HIDE DEF changes, cull
<1> QED BY <1>2, <1>3, <1>4, <1>5 DEF PatchType

(* The number of a change's delays.                                         *)
LEMMA DelaysAreCounted ==
  ASSUME NEW delays \in SUBSET Versions
  PROVE  Cardinality(delays) \in Nat
<1>1. IsFiniteSet(Versions)
  BY MirrorAssumption, FS_Interval DEF Versions
<1> QED BY <1>1, FS_Subset, FS_CardinalityType

(* Parts of a change and a copy.                                            *)
LEMMA ChangedIsTyped ==
  ASSUME NEW copy \in CopyType, NEW c \in ChangeType
  PROVE  Changed(copy, c) \in CopyType
<1> DEFINE kept == Restrict(copy.storage, DOMAIN copy.storage \ c.erasures)
           k == Cardinality(c.delays)
           st == [id \in DOMAIN c.additions \cup DOMAIN kept |->
                   IF id \in DOMAIN c.additions THEN c.additions[id] ELSE Late(kept[id], k)]
           q == IF c.has_progress THEN c.progress ELSE IF c.plan # copy.plan THEN 0 ELSE copy.progress
<1>1. /\ c.delays \in SUBSET Versions /\ c.plan \in Nat /\ c.progress \in 0..CheckpointLimit
      /\ c.additions \in Maps(Route) /\ copy.storage \in Maps(Route)
      /\ copy.progress \in 0..CheckpointLimit
  BY DEF ChangeType, CopyType
<1>2. k \in Nat
  BY <1>1, DelaysAreCounted
<1>3. /\ DOMAIN c.additions \subseteq Nat /\ \A id \in DOMAIN c.additions : c.additions[id] \in Route
      /\ DOMAIN copy.storage \subseteq Nat /\ \A id \in DOMAIN copy.storage : copy.storage[id] \in Route
  BY <1>1, MapIs
<1>4. DOMAIN kept \subseteq DOMAIN copy.storage /\ \A id \in DOMAIN kept : kept[id] = copy.storage[id]
  BY DEF Restrict
<1> HIDE DEF kept, k
<1>5. st \in [DOMAIN c.additions \cup DOMAIN kept -> Route]
  BY <1>2, <1>3, <1>4, LateRoute
<1>6. st \in Maps(Route)
  BY <1>3, <1>4, <1>5, MapIs
<1>7. q \in 0..CheckpointLimit
  BY <1>1, MirrorAssumption
<1>8. Changed(copy, c) = [storage |-> st, plan |-> c.plan, progress |-> q]
  BY DEF Changed, kept, k
<1> HIDE DEF st, q
<1> QED BY <1>1, <1>6, <1>7, <1>8 DEF CopyType

(* A copy from which the past is removed is a copy.                         *)
LEMMA WithoutPastIsTyped ==
  ASSUME NEW copy \in CopyType, NEW time
  PROVE  WithoutPast(copy, time) \in CopyType
<1> DEFINE D == {id \in DOMAIN copy.storage : copy.storage[id].start > time}
           st == Restrict(copy.storage, D)
<1>1. copy.storage \in Maps(Route)
  BY DEF CopyType
<1>2. D \in SUBSET Nat /\ \A id \in D : copy.storage[id] \in Route
  BY <1>1, MapIs
<1> HIDE DEF D
<1>3. st \in [D -> Route]
  BY <1>2 DEF Restrict
<1>4. st \in Maps(Route)
  BY <1>2, <1>3, MapIs
<1>5. WithoutPast(copy, time) = [copy EXCEPT !.storage = st]
  BY DEF WithoutPast, D
<1> HIDE DEF st
<1> QED BY <1>4, <1>5 DEF CopyType

(* What a patch makes of a copy.                                            *)
PatchedCopy(copy, patch, p) ==
  LET base == IF patch.base = 0 THEN [copy EXCEPT !.storage = << >>] ELSE copy
  IN  WithoutPast(IF p \in DOMAIN patch.changes THEN Changed(base, patch.changes[p]) ELSE base,
                  patch.cull)

(* What a patch makes of a mirror, told copy by copy.                       *)
LEMMA PatchedIs ==
  ASSUME NEW mirror, NEW patch
  PROVE  Patched(mirror, patch) = [mirror EXCEPT !.version = patch.latest,
           !.states = [p \in Participants |-> PatchedCopy(mirror.states[p], patch, p)]]
BY DEF Patched, PatchedCopy

(* A patched copy is a copy.                                                *)
LEMMA PatchedCopyIsTyped ==
  ASSUME NEW copy \in CopyType, NEW patch \in PatchType, NEW p \in Participants
  PROVE  PatchedCopy(copy, patch, p) \in CopyType
<1> DEFINE base == IF patch.base = 0 THEN [copy EXCEPT !.storage = << >>] ELSE copy
<1>1. base \in CopyType
  BY EmptyMap DEF CopyType
<1>2. p \in DOMAIN patch.changes => patch.changes[p] \in ChangeType
  <2>1. PICK D \in SUBSET Participants : patch.changes \in [D -> ChangeType]
    BY DEF PatchType
  <2> QED BY <2>1
<1> HIDE DEF base
<1>3. p \in DOMAIN patch.changes => Changed(base, patch.changes[p]) \in CopyType
  BY <1>1, <1>2, ChangedIsTyped
<1>4. PatchedCopy(copy, patch, p) =
        WithoutPast(IF p \in DOMAIN patch.changes THEN Changed(base, patch.changes[p]) ELSE base,
                    patch.cull)
  BY DEF PatchedCopy, base
<1> QED BY <1>1, <1>3, <1>4, WithoutPastIsTyped

(* A patched mirror is a mirror, at the version the patch leads to.         *)
LEMMA PatchedIsTyped ==
  ASSUME NEW mirror \in MirrorType, NEW patch \in PatchType
  PROVE  /\ Patched(mirror, patch) \in MirrorType
         /\ Patched(mirror, patch).version = patch.latest
         /\ Patched(mirror, patch).joined = mirror.joined
         /\ \A p \in Participants :
              Patched(mirror, patch).states[p] = PatchedCopy(mirror.states[p], patch, p)
<1> DEFINE st == [p \in Participants |-> PatchedCopy(mirror.states[p], patch, p)]
<1>1. st \in [Participants -> CopyType]
  BY PatchedCopyIsTyped DEF MirrorType
<1>2. Patched(mirror, patch) = [mirror EXCEPT !.version = patch.latest, !.states = st]
  BY PatchedIs
<1>3. \A p \in Participants : st[p] = PatchedCopy(mirror.states[p], patch, p)
  OBVIOUS
<1> HIDE DEF st
<1>4. patch.latest \in Versions
  BY DEF PatchType
<1> QED BY <1>1, <1>2, <1>3, <1>4 DEF MirrorType

(* Sequences of patches.                                                    *)
LEMMA PatchesInSequence ==
  ASSUME NEW X, NEW s \in Seq(X), NEW t \in Seq(X)
  PROVE  /\ s \o t \in Seq(X)
         /\ \A x \in Range(s \o t) : x \in Range(s) \cup Range(t)
         /\ s # << >> => Head(s) \in X /\ Head(s) \in Range(s) /\ Tail(s) \in Seq(X)
                         /\ \A x \in Range(Tail(s)) : x \in Range(s)
<1>1. s \o t \in Seq(X) /\ Len(s \o t) = Len(s) + Len(t) /\ Len(s) \in Nat /\ Len(t) \in Nat
      /\ \A i \in 1..(Len(s) + Len(t)) :
           (s \o t)[i] = IF i <= Len(s) THEN s[i] ELSE t[i - Len(s)]
  BY ConcatProperties, LenProperties
<1>2. ASSUME NEW x \in Range(s \o t) PROVE x \in Range(s) \cup Range(t)
  <2>1. PICK i \in 1..(Len(s) + Len(t)) : x = (s \o t)[i]
    BY <1>1, LenProperties DEF Range
  <2>2. CASE i <= Len(s)
    <3>1. i \in 1..Len(s) /\ x = s[i]
      BY <1>1, <2>1, <2>2
    <3> QED BY <3>1, LenProperties DEF Range
  <2>3. CASE ~(i <= Len(s))
    <3>1. i - Len(s) \in 1..Len(t) /\ x = t[i - Len(s)]
      BY <1>1, <2>1, <2>3
    <3> QED BY <3>1, LenProperties DEF Range
  <2> QED BY <2>2, <2>3
<1>3. ASSUME s # << >>
      PROVE  Head(s) \in X /\ Head(s) \in Range(s) /\ Tail(s) \in Seq(X)
             /\ \A x \in Range(Tail(s)) : x \in Range(s)
  <2>1. /\ Head(s) = s[1] /\ Len(s) # 0 /\ Tail(s) \in Seq(X) /\ Len(Tail(s)) = Len(s) - 1
        /\ \A i \in 1..(Len(s) - 1) : Tail(s)[i] = s[i + 1]
    BY <1>1, <1>3, HeadTailProperties, EmptySeq
  <2>2. 1 \in 1..Len(s) /\ \A i \in 1..(Len(s) - 1) : i + 1 \in 1..Len(s)
    BY <1>1, <2>1
  <2>3. Head(s) \in X /\ Head(s) \in Range(s)
    BY <2>1, <2>2, LenProperties, ElementOfSeq DEF Range
  <2>4. \A x \in Range(Tail(s)) : x \in Range(s)
    <3> SUFFICES ASSUME NEW x \in Range(Tail(s)) PROVE x \in Range(s)
      OBVIOUS
    <3>1. PICK i \in 1..(Len(s) - 1) : x = Tail(s)[i]
      BY <2>1, LenProperties DEF Range
    <3> QED BY <2>1, <2>2, <3>1, LenProperties DEF Range
  <2> QED BY <2>1, <2>3, <2>4
<1> QED BY <1>1, <1>2, <1>3

(* The patches that the node sends in one turn.                             *)
Sent(order) == Remedies(order) \o (IF query.checked # database.version /\ ~IsEmpty(Patch(query.sent, FALSE))
                                   THEN <<Patch(query.sent, FALSE)>> ELSE << >>)

(* Each patch the node sends is computed since a version that was.          *)
LEMMA SentPatches ==
  ASSUME TypeInv, NEW order \in SetToSeqs(query.remediation)
  PROVE  /\ Sent(order) \in Seq(PatchType)
         /\ \A patch \in Range(Sent(order)) :
              \E after \in Known, remedial \in BOOLEAN : patch = Patch(after, remedial)
<1>1. query.remediation \in SUBSET Known /\ query.sent \in Known
  BY DEF TypeInv, MirrorTypes
<1>2. IsFiniteSet(query.remediation) /\ Cardinality(query.remediation) \in Nat
  <2>1. database.version \in Nat
    BY DEF TypeInv, DatabaseType, Versions
  <2>2. IsFiniteSet(Known)
    BY <2>1, FS_Interval DEF Known
  <2> QED BY <1>1, <2>2, FS_Subset, FS_CardinalityType
<1>3. order \in [1..Cardinality(query.remediation) -> query.remediation]
  BY DEF SetToSeqs
<1>4. \A i \in DOMAIN order : order[i] \in Known
  BY <1>1, <1>3
<1>5. Remedies(order) \in Seq(PatchType)
  <2>1. Remedies(order) \in [1..Cardinality(query.remediation) -> PatchType]
    BY <1>3, <1>4, PatchIsTyped DEF Remedies
  <2> QED BY <1>2, <2>1, IsASeq
<1>6. \A patch \in Range(Remedies(order)) : \E after \in Known : patch = Patch(after, TRUE)
  BY <1>4 DEF Range, Remedies
<1> DEFINE regular == Patch(query.sent, FALSE)
           last == IF query.checked # database.version /\ ~IsEmpty(regular) THEN <<regular>> ELSE << >>
<1>7. /\ last \in Seq(PatchType) /\ \A patch \in Range(last) : patch = regular
  <2>1. regular \in PatchType
    BY <1>1, PatchIsTyped
  <2> HIDE DEF regular
  <2>2. <<regular>> \in Seq(PatchType) /\ << >> \in Seq(PatchType)
    BY <2>1
  <2>3. \A patch \in Range(<<regular>>) : patch = regular
    BY DEF Range
  <2>4. Range(<< >>) = {}
    BY DEF Range
  <2> QED BY <2>2, <2>3, <2>4
<1>8. Sent(order) = Remedies(order) \o last
  BY DEF Sent
<1> HIDE DEF last
<1>9. Sent(order) \in Seq(PatchType)
      /\ \A patch \in Range(Sent(order)) : patch \in Range(Remedies(order)) \cup Range(last)
  BY <1>5, <1>7, <1>8, PatchesInSequence
<1> QED BY <1>1, <1>6, <1>7, <1>9

(* What a step of the node or of a mirror leaves as it is.                  *)
LEMMA DatabaseUntouched ==
  ASSUME TypeInv, UNCHANGED <<database, history>>
  PROVE  /\ DatabaseType' /\ HistoryType' /\ Known' = Known
         /\ (MirrorTypes' => TypeInv')
BY DEF TypeInv, DatabaseType, HistoryType, Known, TypeInv

(* The node's timer keeps the types.                                        *)
LEMMA UpdateMirrorsKeepsTypes ==
  ASSUME TypeInv, UpdateMirrors
  PROVE  /\ TypeInv'
         /\ \E order \in SetToSeqs(query.remediation) : Publish(Sent(order))
<1> DEFINE regular == Patch(query.sent, FALSE)
           due == query.checked # database.version /\ ~IsEmpty(regular)
<1>1. UNCHANGED <<database, requests, mirrors, disturbances, history>>
  BY DEF UpdateMirrors
<1>2. PICK order \in SetToSeqs(query.remediation) : Publish(Sent(order))
  BY DEF UpdateMirrors, Sent
<1>3. query' = [checked |-> database.version, remediation |-> {},
                sent |-> IF due THEN database.version ELSE query.sent]
  BY DEF UpdateMirrors
<1> HIDE DEF due
<1>4. database.version \in Known /\ query.sent \in Known
  BY DEF TypeInv, DatabaseType, MirrorTypes, Versions, Known
<1>5. query' \in [checked : Known, sent : Known, remediation : SUBSET Known]
  BY <1>3, <1>4
<1>6. ASSUME NEW m \in Mirrors
      PROVE  /\ updates'[m] = IF mirrors[m].joined THEN updates[m] \o Sent(order) ELSE updates[m]
             /\ updates'[m] \in Seq(PatchType)
             /\ \A patch \in Range(updates'[m]) :
                  patch.latest <= database.version /\ patch.base <= patch.latest
  <2>1. updates[m] \in Seq(PatchType) /\ Sent(order) \in Seq(PatchType)
    BY <1>2, SentPatches DEF TypeInv, MirrorTypes
  <2>2. updates'[m] = IF mirrors[m].joined THEN updates[m] \o Sent(order) ELSE updates[m]
    BY <1>2 DEF Publish
  <2>3. updates'[m] \in Seq(PatchType)
        /\ \A patch \in Range(updates'[m]) : patch \in Range(updates[m]) \cup Range(Sent(order))
    BY <2>1, <2>2, PatchesInSequence
  <2>4. \A patch \in Range(updates[m]) : patch.latest <= database.version /\ patch.base <= patch.latest
    BY DEF TypeInv, MirrorTypes
  <2>5. \A patch \in Range(Sent(order)) : patch.latest <= database.version /\ patch.base <= patch.latest
    <3> SUFFICES ASSUME NEW patch \in Range(Sent(order))
                 PROVE  patch.latest <= database.version /\ patch.base <= patch.latest
      OBVIOUS
    <3>1. PICK after \in Known, remedial \in BOOLEAN : patch = Patch(after, remedial)
      BY <1>2, SentPatches
    <3>2. patch.base = after /\ patch.latest = database.version /\ after <= database.version
      BY <3>1, PatchIsTyped
    <3>3. database.version \in Nat
      BY DEF TypeInv, DatabaseType, Versions
    <3> QED BY <3>2, <3>3
  <2> QED BY <2>2, <2>3, <2>4, <2>5
<1>7. updates' \in [Mirrors -> Seq(PatchType)]
  <2>1. updates' = [m \in Mirrors |-> IF mirrors[m].joined THEN updates[m] \o Sent(order) ELSE updates[m]]
    BY <1>2 DEF Publish
  <2> QED BY <1>6, <2>1
<1>8. MirrorTypes'
  BY <1>1, <1>5, <1>6, <1>7, DatabaseUntouched DEF TypeInv, MirrorTypes
<1> QED BY <1>1, <1>2, <1>8, DatabaseUntouched

(* The patches that remain when the first one is gone.                      *)
LEMMA HeadGone ==
  ASSUME TypeInv, NEW m \in Mirrors, updates[m] # << >>, updates' = [updates EXCEPT ![m] = Tail(@)]
  PROVE  /\ updates' \in [Mirrors -> Seq(PatchType)]
         /\ \A o \in Mirrors : \A patch \in Range(updates'[o]) : patch \in Range(updates[o])
         /\ Head(updates[m]) \in Range(updates[m]) /\ Head(updates[m]) \in PatchType
<1>1. updates \in [Mirrors -> Seq(PatchType)]
  BY DEF TypeInv, MirrorTypes
<1>2. /\ Head(updates[m]) \in Range(updates[m]) /\ Head(updates[m]) \in PatchType
      /\ Tail(updates[m]) \in Seq(PatchType)
      /\ \A patch \in Range(Tail(updates[m])) : patch \in Range(updates[m])
  BY <1>1, PatchesInSequence
<1> QED BY <1>1, <1>2

(* A mirror asks for what it misses.                                        *)
LEMMA RequestKeepsTypes ==
  ASSUME TypeInv, NEW version \in Known, Request(version)
  PROVE  requests' \in SUBSET Known /\ disturbances' \in 0..DisturbanceLimit
<1>1. requests \in SUBSET Known /\ disturbances \in 0..DisturbanceLimit /\ DisturbanceLimit \in Nat
  BY MirrorAssumption DEF TypeInv, MirrorTypes
<1>2. disturbances < DisturbanceLimit => disturbances + 1 \in 0..DisturbanceLimit
  BY <1>1
<1> QED BY <1>1, <1>2 DEF Request

(* What a delivery does.                                                    *)
LEMMA DeliverCases ==
  ASSUME TypeInv, NEW m \in Mirrors, Deliver(m)
  PROVE  LET patch == Head(updates[m]) IN
         /\ updates[m] # << >> /\ updates' = [updates EXCEPT ![m] = Tail(@)]
         /\ patch \in Range(updates[m]) /\ patch \in PatchType
         /\ UNCHANGED <<database, query, history>>
         /\ \/ UNCHANGED <<mirrors, requests, disturbances>>
            \/ /\ ~IsOld(mirrors[m], patch) /\ Fits(mirrors[m], patch)
               /\ mirrors' = [mirrors EXCEPT ![m] = Patched(mirrors[m], patch)]
               /\ UNCHANGED <<requests, disturbances>>
            \/ Request(mirrors[m].version) /\ UNCHANGED mirrors
<1>1. mirrors \in [Mirrors -> MirrorType]
  BY DEF TypeInv, MirrorTypes
<1>2. /\ updates[m] # << >> /\ updates' = [updates EXCEPT ![m] = Tail(@)]
      /\ UNCHANGED <<database, query, history>>
  BY DEF Deliver
<1>3. Head(updates[m]) \in Range(updates[m]) /\ Head(updates[m]) \in PatchType
  BY <1>2, HeadGone
<1>4. \/ UNCHANGED <<mirrors, requests, disturbances>>
      \/ /\ ~IsOld(mirrors[m], Head(updates[m])) /\ Fits(mirrors[m], Head(updates[m]))
         /\ mirrors' = [mirrors EXCEPT ![m] = Patched(mirrors[m], Head(updates[m]))]
         /\ UNCHANGED <<requests, disturbances>>
      \/ Request(mirrors[m].version) /\ UNCHANGED mirrors
  BY <1>1 DEF Deliver
<1> QED BY <1>2, <1>3, <1>4

(* A mirror that handles a patch keeps the types.                           *)
LEMMA DeliverKeepsTypes ==
  ASSUME TypeInv, NEW m \in Mirrors, Deliver(m)
  PROVE  TypeInv'
<1> DEFINE patch == Head(updates[m])
<1>1. /\ updates' = [updates EXCEPT ![m] = Tail(@)] /\ updates[m] # << >>
      /\ patch \in Range(updates[m]) /\ patch \in PatchType
      /\ UNCHANGED <<database, query, history>>
      /\ \/ UNCHANGED <<mirrors, requests, disturbances>>
         \/ /\ mirrors' = [mirrors EXCEPT ![m] = Patched(mirrors[m], patch)]
            /\ UNCHANGED <<requests, disturbances>>
         \/ Request(mirrors[m].version) /\ UNCHANGED mirrors
  BY DeliverCases
<1>2. /\ updates' \in [Mirrors -> Seq(PatchType)]
      /\ \A o \in Mirrors : \A u \in Range(updates'[o]) : u.latest <= database.version /\ u.base <= u.latest
  BY <1>1, HeadGone DEF TypeInv, MirrorTypes
<1>3. requests' \in SUBSET Known /\ disturbances' \in 0..DisturbanceLimit
  BY <1>1, RequestKeepsTypes DEF TypeInv, MirrorTypes
<1>4. mirrors' \in [Mirrors -> MirrorType] /\ \A o \in Mirrors : mirrors'[o].version \in Known
  <2>1. mirrors \in [Mirrors -> MirrorType] /\ \A o \in Mirrors : mirrors[o].version \in Known
    BY DEF TypeInv, MirrorTypes
  <2>2. Patched(mirrors[m], patch) \in MirrorType /\ Patched(mirrors[m], patch).version = patch.latest
    BY <1>1, <2>1, PatchedIsTyped
  <2>3. patch.latest \in Known
    <3>1. patch.latest \in Nat /\ patch.latest <= database.version /\ database.version \in Nat
      BY <1>1 DEF TypeInv, MirrorTypes, PatchType, DatabaseType, Versions
    <3> QED BY <3>1 DEF Known
  <2> QED BY <1>1, <2>1, <2>2, <2>3
<1>5. MirrorTypes'
  BY <1>1, <1>2, <1>3, <1>4, DatabaseUntouched DEF TypeInv, MirrorTypes
<1> QED BY <1>1, <1>5, DatabaseUntouched

(* Requests, losses, joining and timeouts keep the types.                   *)
LEMMA OthersKeepTypes ==
  ASSUME TypeInv
  PROVE  /\ \A version \in requests : OnRequest(version) => TypeInv'
         /\ \A version \in {0} \cup Registered..query.sent : OthersRequest(version) => TypeInv'
         /\ \A m \in Mirrors : /\ Join(m) => TypeInv'
                               /\ Lose(m) => TypeInv'
                               /\ Timeout(m) => TypeInv'
<1>1. /\ query \in [checked : Known, sent : Known, remediation : SUBSET Known]
      /\ requests \in SUBSET Known /\ disturbances \in 0..DisturbanceLimit
      /\ mirrors \in [Mirrors -> MirrorType] /\ \A m \in Mirrors : mirrors[m].version \in Known
      /\ updates \in [Mirrors -> Seq(PatchType)]
      /\ DisturbanceLimit \in Nat /\ database.version \in Nat
  <2>1. database.version \in Nat
    BY DEF TypeInv, DatabaseType, Versions
  <2> QED BY <2>1, MirrorAssumption DEF TypeInv, MirrorTypes
<1>2. disturbances < DisturbanceLimit => disturbances + 1 \in 0..DisturbanceLimit
  BY <1>1
<1>3. \A version \in {0} \cup Registered..query.sent : version \in Known
  <2>1. Registered \in Nat
    BY MirrorAssumption, FS_CardinalityType DEF Registered
  <2> QED BY <1>1, <2>1 DEF Known
<1>4. ASSUME NEW version \in requests, OnRequest(version) PROVE TypeInv'
  <2>1. MirrorTypes'
    <3>1. /\ requests' = requests \ {version} /\ UNCHANGED <<database, updates, mirrors, disturbances, history>>
          /\ query' = [query EXCEPT !.remediation = @ \cup {v \in {version} : v = 0 \/ v < query.sent}]
      BY <1>4 DEF OnRequest
    <3>2. query' \in [checked : Known, sent : Known, remediation : SUBSET Known]
      BY <1>1, <3>1
    <3> QED BY <1>1, <3>1, <3>2, DatabaseUntouched DEF TypeInv, MirrorTypes
  <2> QED BY <1>4, <2>1, DatabaseUntouched DEF OnRequest
<1>5. ASSUME NEW version \in {0} \cup Registered..query.sent, OthersRequest(version) PROVE TypeInv'
  <2>1. MirrorTypes'
    BY <1>1, <1>2, <1>3, <1>5, DatabaseUntouched DEF TypeInv, MirrorTypes, OthersRequest
  <2> QED BY <1>5, <2>1, DatabaseUntouched DEF OthersRequest
<1>6. ASSUME NEW m \in Mirrors, Join(m) PROVE TypeInv'
  <2>1. mirrors' \in [Mirrors -> MirrorType] /\ \A o \in Mirrors : mirrors'[o].version \in Known
    BY <1>1, <1>6 DEF Join, MirrorType
  <2>2. MirrorTypes'
    BY <1>6, <2>1, DatabaseUntouched DEF TypeInv, MirrorTypes, Join
  <2> QED BY <1>6, <2>2, DatabaseUntouched DEF Join
<1>7. ASSUME NEW m \in Mirrors, Lose(m) PROVE TypeInv'
  <2>1. /\ updates' \in [Mirrors -> Seq(PatchType)]
        /\ \A o \in Mirrors : \A u \in Range(updates'[o]) : u.latest <= database.version /\ u.base <= u.latest
    BY <1>7, HeadGone DEF TypeInv, MirrorTypes, Lose
  <2>2. MirrorTypes'
    BY <1>1, <1>2, <1>7, <2>1, DatabaseUntouched DEF TypeInv, MirrorTypes, Lose
  <2> QED BY <1>7, <2>2, DatabaseUntouched DEF Lose
<1>8. ASSUME NEW m \in Mirrors, Timeout(m) PROVE TypeInv'
  <2>1. requests' \in SUBSET Known /\ disturbances' \in 0..DisturbanceLimit
        /\ UNCHANGED <<database, query, updates, mirrors, history>>
    BY <1>1, <1>8, RequestKeepsTypes DEF Timeout
  <2>2. MirrorTypes'
    BY <2>1, DatabaseUntouched DEF TypeInv, MirrorTypes
  <2> QED BY <2>1, <2>2, DatabaseUntouched
<1> QED BY <1>4, <1>5, <1>6, <1>7, <1>8

(* Every step keeps the types.                                              *)
LEMMA StepKeepsTypes ==
  ASSUME TypeInv, [Next]_vars
  PROVE  TypeInv'
<1>1. CASE Next
  BY <1>1, DatabaseKeepsTypes, CullKeepsTypes, UpdateMirrorsKeepsTypes, OthersKeepTypes,
     DeliverKeepsTypes DEF Next
<1>2. CASE UNCHANGED vars
  BY <1>2 DEF vars, TypeInv, DatabaseType, HistoryType, MirrorTypes, Known, Patch, DatabaseShows
<1> QED BY <1>1, <1>2

(* The registrations of the participants made the first versions.           *)
LEMMA RegisteredIsVersion ==
  Registered \in Versions /\ Registered \in Nat \ {0}
<1>1. IsFiniteSet(Participants) /\ Participants # {} /\ VersionLimit \in Nat /\ Registered <= VersionLimit
  BY MirrorAssumption DEF Registered
<1>2. Registered \in Nat /\ Registered # 0
  BY <1>1, FS_CardinalityType, FS_EmptySet DEF Registered
<1> HIDE DEF Registered
<1> QED BY <1>1, <1>2 DEF Versions

(* What is shown before anything was planned has its type.                  *)
LEMMA BlankIsTyped ==
  /\ Blank \in [Participants -> ShownType]
  /\ \A p \in Participants : Blank[p] = [plan |-> 0, routes |-> << >>, progress |-> 0]
<1>1. << >> \in Maps(Route) /\ 0 \in 0..CheckpointLimit
  BY EmptyMap, MirrorAssumption
<1>2. Blank = [p \in Participants |-> [plan |-> 0, routes |-> << >>, progress |-> 0]]
  BY DEF Blank, Shown
<1>3. [plan |-> 0, routes |-> << >>, progress |-> 0] \in ShownType
  BY <1>1 DEF ShownType
<1> QED BY <1>2, <1>3

(* A participant that has planned nothing has its state, and no routes.     *)
LEMMA InitialState ==
  ASSUME NEW n \in Nat,
         NEW s, s = [active |-> {}, storage |-> << >>, next_storage |-> 1, plan |-> 0, progress |-> 0,
                     version_of_progress |-> 0]
  PROVE  StateInv(s, n) /\ CurrentRoutes(s) = << >>
<1>1. << >> \in Maps(Seq(ChainEntry)) /\ DOMAIN << >> = {} /\ 0 \in 0..CheckpointLimit
  BY EmptyMap, MirrorAssumption
<1>2. s \in StateType
  BY <1>1 DEF StateType
<1>3. StateInv(s, n)
  BY <1>1, <1>2 DEF StateInv
<1>4. CurrentRoutes(s) = << >>
  <2>1. CurrentRoutes(s) \in [{} -> Route] /\ << >> \in [{} -> Route]
    BY DEF CurrentRoutes
  <2> QED BY <2>1
<1> QED BY <1>3, <1>4

(* Initially everything has its type.                                       *)
LEMMA InitHasTypes ==
  ASSUME Init PROVE TypeInv
<1> DEFINE s == [active |-> {}, storage |-> << >>, next_storage |-> 1, plan |-> 0, progress |-> 0,
                 version_of_progress |-> 0]
           states == [p \in Participants |-> s]
<1>1. /\ database = [version |-> Registered, cull |-> NoCull, states |-> states]
      /\ Registered \in Versions /\ Registered \in Nat \ {0}
  BY RegisteredIsVersion DEF Init
<1>2. \A p \in Participants : states[p] = s
  OBVIOUS
<1>3. StateInv(s, Registered) /\ s \in StateType
  BY <1>1, InitialState DEF StateInv
<1>4. DatabaseShows(states) = Blank
  <2> SUFFICES ASSUME NEW p \in Participants
               PROVE  Shown(states[p].plan, CurrentRoutes(states[p]), states[p].progress) = Shown(0, << >>, 0)
    BY DEF DatabaseShows, Blank
  <2>1. CurrentRoutes(s) = << >>
    BY <1>1, InitialState
  <2> QED BY <1>2, <2>1
<1>5. states \in [Participants -> StateType] /\ \A p \in Participants : states[p].plan = 0
  BY <1>3
<1>6. NoCull = [time |-> 0, version |-> 0]
  BY DEF NoCull
<1> HIDE DEF states
<1>7. DatabaseType
  <2>1. NoCull \in [time : {0} \cup CullTimes, version : Versions \cup {0}] /\ NoCull.version <= Registered
    BY <1>1, <1>6
  <2> HIDE DEF s
  <2> QED BY <1>1, <1>2, <1>3, <1>5, <2>1 DEF DatabaseType
<1>8. HistoryType
  <2>1. history = [v \in 1..Registered |-> Blank]
    BY DEF Init
  <2>2. history \in Seq([Participants -> ShownType]) /\ Len(history) = Registered
        /\ \A v \in 1..Registered : history[v] = Blank
    <3>1. history \in [1..Registered -> [Participants -> ShownType]]
      BY <2>1, BlankIsTyped
    <3>2. history \in Seq([Participants -> ShownType])
      BY <1>1, <3>1, IsASeq
    <3>3. Len(history) = Registered
      BY <1>1, <3>1, <3>2, LenProperties
    <3> QED BY <2>1, <3>2, <3>3
  <2> QED BY <1>1, <1>4, <2>2, BlankIsTyped DEF HistoryType
<1>9. MirrorTypes
  <2>1. /\ query = [checked |-> 0, sent |-> 0, remediation |-> {}]
        /\ updates = [m \in Mirrors |-> << >>] /\ requests = {} /\ disturbances = 0
        /\ mirrors = [m \in Mirrors |-> [joined |-> FALSE, version |-> 0,
             states |-> [p \in Participants |-> [storage |-> << >>, plan |-> 0, progress |-> 0]]]]
    BY DEF Init
  <2>2. 0 \in Known /\ DisturbanceLimit \in Nat /\ 0 \in 0..CheckpointLimit
    BY <1>1, MirrorAssumption DEF Known
  <2>3. [storage |-> << >>, plan |-> 0, progress |-> 0] \in CopyType
    BY <2>2, EmptyMap DEF CopyType
  <2>4. mirrors \in [Mirrors -> MirrorType] /\ \A m \in Mirrors : mirrors[m].version \in Known
    BY <2>1, <2>2, <2>3 DEF MirrorType
  <2>5. Range(<< >>) = {}
    BY DEF Range
  <2>6. updates \in [Mirrors -> Seq(PatchType)] /\ \A m \in Mirrors : Range(updates[m]) = {}
    BY <2>1, <2>5
  <2>7. query \in [checked : Known, sent : Known, remediation : SUBSET Known]
    BY <2>1, <2>2
  <2>8. requests \in SUBSET Known /\ disturbances \in 0..DisturbanceLimit
    BY <2>1, <2>2
  <2>9. \A m \in Mirrors : \A patch \in Range(updates[m]) :
          patch.latest <= database.version /\ patch.base <= patch.latest
    BY <2>6
  <2> QED BY <2>4, <2>6, <2>7, <2>8, <2>9 DEF MirrorTypes
<1> QED BY <1>7, <1>8, <1>9 DEF TypeInv

(* Everything always has its type.                                          *)
LEMMA TypeInvHoldsAlways ==
  Spec => []TypeInv
BY InitHasTypes, StepKeepsTypes, PTL DEF Spec

(* These types are at least as strict as the ones that the runs check.      *)
LEMMA TypeInvImpliesTypeOK ==
  ASSUME TypeInv PROVE TypeOK
<1>1. database.version \in Versions /\ database.cull.version \in Versions \cup {0}
      /\ database.version \in Nat
  BY DEF TypeInv, DatabaseType, Versions
<1>2. ASSUME NEW p \in Participants
      PROVE  LET state == database.states[p] IN
             /\ state.active \subseteq DOMAIN state.storage
             /\ \A id \in DOMAIN state.storage : id < state.next_storage /\ IsChain(state.storage[id])
             /\ \A id \in state.active : Newest(state.storage[id]).route # NoRoute
             /\ state.plan \in Nat /\ state.progress \in 0..CheckpointLimit
             /\ state.version_of_progress \in Versions \cup {0}
  <2> DEFINE s == database.states[p]
  <2>1. StateInv(s, database.version) /\ s \in StateType
    BY TheState
  <2>2. \A id \in DOMAIN s.storage : s.storage[id] \in Seq(ChainEntry)
    BY <1>1, <2>1, StateFacts
  <2>3. \A id \in s.active : Newest(s.storage[id]).route \in Route
    BY <1>1, <2>1, StateFacts, ChainEntries DEF LiveChain
  <2> HIDE DEF s
  <2>4. \A id \in s.active : Newest(s.storage[id]).route # NoRoute
    BY <2>3, MirrorAssumption
  <2>5. \A id \in DOMAIN s.storage : id < s.next_storage /\ IsChain(s.storage[id])
    BY <2>1, <2>2 DEF StateInv, IsChain, ChainEntry
  <2>6. s.plan \in Nat /\ s.progress \in 0..CheckpointLimit /\ s.version_of_progress \in Versions \cup {0}
        /\ s.active \subseteq DOMAIN s.storage
    BY <2>1 DEF StateInv, StateType
  <2> QED BY <2>4, <2>5, <2>6 DEF s
<1>3. Known \subseteq Versions \cup {0}
  <2>1. VersionLimit \in Nat
    BY MirrorAssumption
  <2> QED BY <1>1, <2>1 DEF Known, Versions
<1>4. query \in [checked : Versions \cup {0}, sent : Versions \cup {0},
                 remediation : SUBSET (Versions \cup {0})]
      /\ requests \subseteq Versions \cup {0} /\ disturbances \in 0..DisturbanceLimit
  BY <1>3 DEF TypeInv, MirrorTypes
<1>5. ASSUME NEW m \in Mirrors
      PROVE  /\ mirrors[m].joined \in BOOLEAN /\ mirrors[m].version \in Versions \cup {0}
             /\ \A p \in Participants :
                  LET state == mirrors[m].states[p] IN
                  IsRoutes(state.storage) /\ state.plan \in Nat /\ state.progress \in 0..CheckpointLimit
  <2>1. mirrors[m] \in MirrorType
    BY DEF TypeInv, MirrorTypes
  <2>2. ASSUME NEW p \in Participants
        PROVE  LET state == mirrors[m].states[p] IN
               IsRoutes(state.storage) /\ state.plan \in Nat /\ state.progress \in 0..CheckpointLimit
    <3>1. mirrors[m].states[p] \in CopyType
      BY <2>1 DEF MirrorType
    <3>2. mirrors[m].states[p].storage \in Maps(Route)
      BY <3>1 DEF CopyType
    <3>3. IsRoutes(mirrors[m].states[p].storage)
      BY <3>2, MapIs DEF IsRoutes
    <3> QED BY <3>1, <3>3 DEF CopyType
  <2> QED BY <2>1, <2>2 DEF MirrorType
<1>6. ASSUME NEW m \in Mirrors, NEW i \in DOMAIN updates[m]
      PROVE  /\ updates[m][i].base \in Versions \cup {0}
             /\ updates[m][i].latest \in (updates[m][i].base)..database.version
             /\ updates[m][i].remedial \in BOOLEAN
  <2>1. updates[m] \in Seq(PatchType) /\ updates[m][i] \in Range(updates[m])
    BY DEF TypeInv, MirrorTypes, Range
  <2>2. updates[m][i] \in PatchType
    BY <2>1, RangeOfSeq
  <2>3. updates[m][i].latest <= database.version /\ updates[m][i].base <= updates[m][i].latest
    BY <2>1 DEF TypeInv, MirrorTypes
  <2>4. updates[m][i].base \in Nat /\ updates[m][i].latest \in Nat
    BY <2>2 DEF PatchType, Versions
  <2> QED BY <1>1, <2>2, <2>3, <2>4 DEF PatchType
<1>7. DOMAIN history = 1..database.version
  BY LenProperties DEF TypeInv, HistoryType
<1> QED BY <1>1, <1>2, <1>4, <1>5, <1>6, <1>7 DEF TypeOK

(* Every variable has its type.                                             *)
THEOREM MirrorTypesHold ==
  Spec => []TypeOK
BY TypeInvHoldsAlways, TypeInvImpliesTypeOK, PTL

-----------------------------------------------------------------------------
(* Two mirrors that show the same show the same after the same patch          *)

(* What a copy shows.                                                       *)
Shows(copy) == Shown(copy.plan, copy.storage, copy.progress)

(* What shows the same.                                                     *)
Alike(a, b) ==
  /\ a.plan = b.plan
  /\ a.storage = b.storage
  /\ a.storage # << >> => a.progress = b.progress

(* Two copies are alike just when they show the same.                       *)
LEMMA AlikeShowTheSame ==
  ASSUME NEW a, NEW b
  PROVE  Alike(a, b) <=> Shows(a) = Shows(b)
<1>1. Shows(a) = [plan |-> a.plan, routes |-> a.storage, progress |-> IF a.storage = << >> THEN 0 ELSE a.progress]
  BY DEF Shows, Shown
<1>2. Shows(b) = [plan |-> b.plan, routes |-> b.storage, progress |-> IF b.storage = << >> THEN 0 ELSE b.progress]
  BY DEF Shows, Shown
<1>3. ASSUME Alike(a, b) PROVE Shows(a) = Shows(b)
  BY <1>1, <1>2, <1>3 DEF Alike
<1>4. ASSUME Shows(a) = Shows(b) PROVE Alike(a, b)
  <2>1. /\ Shows(a).plan = a.plan /\ Shows(a).routes = a.storage
        /\ a.storage # << >> => Shows(a).progress = a.progress
    BY <1>1
  <2>2. /\ Shows(b).plan = b.plan /\ Shows(b).routes = b.storage
        /\ b.storage # << >> => Shows(b).progress = b.progress
    BY <1>2
  <2> QED BY <1>4, <2>1, <2>2 DEF Alike
<1> QED BY <1>3, <1>4

(* Copies that are alike are so without their past.                         *)
LEMMA AlikeWithoutPast ==
  ASSUME NEW a \in CopyType, NEW b \in CopyType, Alike(a, b), NEW time
  PROVE  Alike(WithoutPast(a, time), WithoutPast(b, time))
<1> DEFINE S == {id \in DOMAIN a.storage : a.storage[id].start > time}
           st == Restrict(a.storage, S)
<1>1. a.storage = b.storage /\ a.plan = b.plan
  BY DEF Alike
<1>2. WithoutPast(a, time) = [a EXCEPT !.storage = st] /\ WithoutPast(b, time) = [b EXCEPT !.storage = st]
  BY <1>1 DEF WithoutPast
<1>3. a.storage = << >> => st = << >>
  <2> SUFFICES ASSUME a.storage = << >> PROVE st = << >>
    OBVIOUS
  <2>1. DOMAIN a.storage = {}
    BY EmptyMap
  <2>2. S = {}
    BY <2>1
  <2>3. st \in [{} -> Route] /\ << >> \in [{} -> Route]
    BY <2>2 DEF Restrict
  <2> QED BY <2>3
<1> HIDE DEF st
<1>4. /\ WithoutPast(a, time).plan = a.plan /\ WithoutPast(b, time).plan = b.plan
      /\ WithoutPast(a, time).storage = st /\ WithoutPast(b, time).storage = st
      /\ WithoutPast(a, time).progress = a.progress /\ WithoutPast(b, time).progress = b.progress
  BY <1>2 DEF CopyType
<1> QED BY <1>1, <1>3, <1>4 DEF Alike

(* A change of a participant tells its progress when a reader needs it.     *)
TellsProgress(patch, p) ==
  LET c == patch.changes[p]
  IN  (c.additions # << >> => c.has_progress) /\ (patch.base = 0 => c.has_progress)

(* Copies that are alike are changed alike, whatever progress they hide.    *)
LEMMA ChangedAlike ==
  ASSUME NEW a \in CopyType, NEW b \in CopyType, NEW c \in ChangeType, a.storage = b.storage,
         c.additions # << >> => c.has_progress,
         ~c.has_progress => Alike(a, b)
  PROVE  Alike(Changed(a, c), Changed(b, c))
<1> DEFINE kept == Restrict(a.storage, DOMAIN a.storage \ c.erasures)
           st == [id \in DOMAIN c.additions \cup DOMAIN kept |->
                    IF id \in DOMAIN c.additions THEN c.additions[id]
                    ELSE Late(kept[id], Cardinality(c.delays))]
<1>1. /\ Changed(a, c).storage = st /\ Changed(b, c).storage = st
      /\ Changed(a, c).plan = c.plan /\ Changed(b, c).plan = c.plan
  BY DEF Changed
<1>2. CASE c.has_progress
  <2>1. Changed(a, c).progress = c.progress /\ Changed(b, c).progress = c.progress
    BY <1>2 DEF Changed
  <2> QED BY <1>1, <2>1 DEF Alike
<1>3. CASE ~c.has_progress
  <2>1. /\ Changed(a, c).progress = IF c.plan # a.plan THEN 0 ELSE a.progress
        /\ Changed(b, c).progress = IF c.plan # b.plan THEN 0 ELSE b.progress
    BY <1>3 DEF Changed
  <2>2. Alike(a, b) /\ c.additions = << >>
    BY <1>3
  <2>3. a.storage = << >> => st = << >>
    <3> SUFFICES ASSUME a.storage = << >> PROVE st = << >>
      OBVIOUS
    <3>1. DOMAIN a.storage = {} /\ DOMAIN c.additions = {}
      BY <2>2, EmptyMap
    <3>2. DOMAIN kept = {}
      BY <3>1 DEF Restrict
    <3> HIDE DEF kept
    <3>3. st \in [{} -> Route] /\ << >> \in [{} -> Route]
      BY <3>1, <3>2
    <3> QED BY <3>3
  <2> HIDE DEF st
  <2> QED BY <1>1, <2>1, <2>2, <2>3 DEF Alike
<1> QED BY <1>2, <1>3

(* Copies that are alike are patched alike.                                 *)
LEMMA PatchedAlike ==
  ASSUME NEW a \in CopyType, NEW b \in CopyType, NEW patch \in PatchType, NEW p \in Participants,
         patch.base # 0 => Alike(a, b),
         p \notin DOMAIN patch.changes => a.plan = b.plan,
         p \in DOMAIN patch.changes => TellsProgress(patch, p)
  PROVE  Alike(PatchedCopy(a, patch, p), PatchedCopy(b, patch, p))
<1> DEFINE Base(x) == IF patch.base = 0 THEN [x EXCEPT !.storage = << >>] ELSE x
           New(x) == IF p \in DOMAIN patch.changes THEN Changed(Base(x), patch.changes[p]) ELSE Base(x)
<1>1. Base(a) \in CopyType /\ Base(b) \in CopyType
  BY EmptyMap DEF CopyType
<1>2. p \in DOMAIN patch.changes => patch.changes[p] \in ChangeType
  <2>1. PICK D \in SUBSET Participants : patch.changes \in [D -> ChangeType]
    BY DEF PatchType
  <2> QED BY <2>1
<1>3. Base(a).storage = Base(b).storage
  BY DEF Alike, CopyType
<1>4. (p \notin DOMAIN patch.changes \/ patch.base # 0) => Alike(Base(a), Base(b))
  BY DEF Alike, CopyType
<1>5. PatchedCopy(a, patch, p) = WithoutPast(New(a), patch.cull)
      /\ PatchedCopy(b, patch, p) = WithoutPast(New(b), patch.cull)
  BY DEF PatchedCopy
<1> HIDE DEF Base
<1>6. Alike(New(a), New(b))
  <2>1. CASE p \notin DOMAIN patch.changes
    BY <1>4, <2>1
  <2>2. CASE p \in DOMAIN patch.changes
    <3>1. ~patch.changes[p].has_progress => Alike(Base(a), Base(b))
      BY <1>4, <2>2 DEF TellsProgress
    <3>2. Alike(Changed(Base(a), patch.changes[p]), Changed(Base(b), patch.changes[p]))
      BY <1>1, <1>2, <1>3, <2>2, <3>1, ChangedAlike DEF TellsProgress
    <3> QED BY <2>2, <3>2
  <2> QED BY <2>1, <2>2
<1>7. New(a) \in CopyType /\ New(b) \in CopyType
  BY <1>1, <1>2, ChangedIsTyped
<1> HIDE DEF New
<1> QED BY <1>5, <1>6, <1>7, AlikeWithoutPast

-----------------------------------------------------------------------------
(* Mirrors follow the schedule                                               *)

(* What the database showed at a version; nothing at version 0.             *)
At(v) == IF v = 0 THEN Blank ELSE history[v]

(* A reader at a version, that shows what the database showed.              *)
ReaderAt(v) ==
  [version |-> v,
   states |-> [p \in Participants |->
     LET shown == IF v = 0 THEN Blank[p] ELSE history[v][p]
     IN  [storage |-> shown.routes, plan |-> shown.plan, progress |-> shown.progress]]]

(* A patch leads the readers of its base to its latest version.             *)
Leads(patch) == StatesShow(Patched(ReaderAt(patch.base), patch).states) = At(patch.latest)

(* It tells the progress a reader may not know, and a plan that there was.  *)
TellsEnough(patch) ==
  \A p \in Participants :
    /\ p \in DOMAIN patch.changes => TellsProgress(patch, p)
    /\ patch.base = 0 /\ p \notin DOMAIN patch.changes =>
         \A v \in 1..patch.latest : history[v][p].plan = 0

(* Mirrors show what the database showed at their version, and the patches  *)
(* on their way lead from version to version.                               *)
FollowInv ==
  /\ TypeInv
  /\ \A m \in Mirrors : MirrorShows(m) = At(mirrors[m].version)
  /\ \A m \in Mirrors : \A patch \in Range(updates[m]) : Leads(patch) /\ TellsEnough(patch)

(* What the database shows at a version it has had.                         *)
LEMMA AtIsTyped ==
  ASSUME TypeInv, NEW v \in Known
  PROVE  /\ At(v) \in [Participants -> ShownType]
         /\ \A p \in Participants : At(v)[p].routes = << >> => At(v)[p].progress = 0
         /\ v # 0 => v \in 1..Len(history)
<1>1. /\ history \in Seq([Participants -> ShownType]) /\ Len(history) = database.version
      /\ database.version \in Nat
  BY DEF TypeInv, HistoryType, DatabaseType, Versions
<1>2. v # 0 => v \in 1..Len(history)
  BY <1>1 DEF Known
<1>3. CASE v = 0
  BY <1>3, BlankIsTyped DEF At
<1>4. CASE v # 0
  <2>1. history[v] \in [Participants -> ShownType]
    BY <1>1, <1>2, <1>4, ElementOfSeq
  <2>2. \A p \in Participants : history[v][p].routes = << >> => history[v][p].progress = 0
    BY <1>1, <1>2, <1>4 DEF TypeInv, HistoryType
  <2> QED BY <1>2, <1>4, <2>1, <2>2 DEF At
<1> QED BY <1>3, <1>4

(* A reader at a version is a copy and shows what the database showed.      *)
LEMMA ReaderShows ==
  ASSUME TypeInv, NEW v \in Known, NEW p \in Participants
  PROVE  /\ ReaderAt(v).states[p] \in CopyType
         /\ Shows(ReaderAt(v).states[p]) = At(v)[p]
         /\ ReaderAt(v).states[p].plan = At(v)[p].plan
<1> DEFINE shown == At(v)[p]
           copy == [storage |-> shown.routes, plan |-> shown.plan, progress |-> shown.progress]
<1>1. ReaderAt(v).states[p] = copy
  BY DEF ReaderAt, At
<1>2. shown \in ShownType /\ (shown.routes = << >> => shown.progress = 0)
  BY AtIsTyped
<1> HIDE DEF shown
<1>3. copy \in CopyType
  BY <1>2 DEF CopyType, ShownType
<1>4. Shows(copy) = shown
  BY <1>2 DEF Shows, Shown, ShownType
<1> QED BY <1>1, <1>3, <1>4 DEF shown

(* The entries of a live chain.                                             *)
LEMMA LiveEntries ==
  ASSUME NEW n \in Nat, NEW chain, LiveChain(chain, n)
  PROVE  /\ Len(chain) \in Nat \ {0} /\ DOMAIN chain = 1..Len(chain) /\ chain \in Seq(ChainEntry)
         /\ \A i \in 1..Len(chain) :
              /\ chain[i] \in ChainEntry
              /\ chain[i].route # NoRoute /\ chain[i].route \in Route
              /\ chain[i].version \in Nat /\ chain[i].version <= n
         /\ chain[1].version \in Nat /\ chain[1].version <= n
         /\ Newest(chain) = chain[Len(chain)] /\ Newest(chain).route \in Route
         /\ Newest(chain).route # NoRoute
<1>1. /\ chain \in Seq(ChainEntry) /\ Len(chain) # 0
      /\ \A i \in DOMAIN chain : chain[i].version <= n /\ chain[i].route \in Route
  BY DEF LiveChain
<1>2. /\ Len(chain) \in Nat \ {0} /\ DOMAIN chain = 1..Len(chain)
      /\ 1 \in DOMAIN chain /\ Len(chain) \in DOMAIN chain
      /\ \A i \in DOMAIN chain : chain[i] \in ChainEntry
      /\ Newest(chain) = chain[Len(chain)]
  BY <1>1, ChainEntries
<1>3. NoRoute \notin Route
  BY MirrorAssumption
<1>4. \A i \in DOMAIN chain : chain[i].version \in Nat
  BY <1>2 DEF ChainEntry, Versions
<1> QED BY <1>1, <1>2, <1>3, <1>4

(* What the database tells.                                                 *)
LEMMA UnknownChainIsNew ==
  ASSUME NEW n \in Nat, NEW chain, LiveChain(chain, n), NEW after \in Nat, ~Knows(chain, after)
  PROVE  after < chain[1].version
<1>1. /\ Len(chain) \in Nat \ {0} /\ chain[1].version \in Nat
      /\ \A i \in 1..Len(chain) : chain[i].route # NoRoute
  BY LiveEntries
<1> DEFINE S == {0} \cup {i \in 1..Len(chain) : chain[i].version <= after}
<1>2. S \in SUBSET (0..Len(chain)) /\ S # {}
  BY <1>1
<1>3. LastKnown(chain, after) = Max(S)
  BY DEF LastKnown
<1> HIDE DEF S
<1>4. Max(S) \in S /\ \A k \in S : Max(S) >= k
  BY <1>1, <1>2, GreatestExists
<1>5. Max(S) = 0
  BY <1>1, <1>2, <1>3, <1>4 DEF Knows, S
<1>6. 1 \notin S
  BY <1>4, <1>5
<1> QED BY <1>1, <1>6 DEF S

(* Every patch the database computes tells enough.                          *)
LEMMA DatabaseTellsEnough ==
  ASSUME TypeInv, NEW after \in Known, NEW remedial \in BOOLEAN
  PROVE  TellsEnough(Patch(after, remedial))
<1> DEFINE patch == Patch(after, remedial)
<1>1. patch.base = after /\ patch.latest = database.version
  BY PatchIsTyped
<1> SUFFICES ASSUME NEW p \in Participants
             PROVE  /\ p \in DOMAIN patch.changes => TellsProgress(patch, p)
                    /\ after = 0 /\ p \notin DOMAIN patch.changes =>
                         \A v \in 1..database.version : history[v][p].plan = 0
  BY <1>1 DEF TellsEnough
<1> DEFINE s == database.states[p]
           c == ChangesOf(s, after)
<1>2. /\ p \in DOMAIN patch.changes => patch.changes[p] = c /\ IsChange(c)
      /\ p \notin DOMAIN patch.changes => ~IsChange(c)
  BY DEF Patch
<1>3. /\ StateInv(s, database.version) /\ database.version \in Nat /\ after \in Nat
      /\ s.version_of_progress \in Nat
  BY TheState DEF StateType, Versions, Known
<1>4. c.has_progress <=> after < s.version_of_progress
  BY DEF ChangesOf
<1>5. ASSUME c.additions # << >> PROVE c.has_progress
  <2>1. PICK id \in DOMAIN s.storage : IsAddition(s.storage[id], after)
    <3> DEFINE Ids == {id \in DOMAIN s.storage : IsAddition(s.storage[id], after)}
    <3>1. c.additions = [id \in Ids |-> Newest(s.storage[id]).route]
      BY DEF ChangesOf
    <3>2. CASE Ids = {}
      <4>1. c.additions = << >>
        <5>1. c.additions \in [{} -> Route] /\ << >> \in [{} -> Route]
          BY <3>1, <3>2
        <5> QED BY <5>1
      <4> QED BY <1>5, <4>1
    <3> QED BY <3>2
  <2>2. id \in s.active
    BY <1>3, <2>1 DEF StateInv, IsAddition
  <2>3. LiveChain(s.storage[id], database.version)
    BY <1>3, <2>2, StateFacts
  <2>4. after < s.storage[id][1].version
    BY <1>3, <2>1, <2>3, UnknownChainIsNew DEF IsAddition
  <2>5. s.storage[id][1].version <= s.version_of_progress /\ s.storage[id][1].version \in Nat
    BY <1>3, <2>2, <2>3, LiveEntries DEF StateInv
  <2> QED BY <1>3, <1>4, <2>4, <2>5
<1>6. ASSUME after = 0, ~c.has_progress PROVE s.plan = 0 /\ ~IsChange(c)
  <2>1. s.version_of_progress = 0 /\ s.plan = 0 /\ DOMAIN s.storage = {}
    BY <1>3, <1>4, <1>6 DEF StateInv
  <2>2. c.erasures = {} /\ c.delays = {}
    BY <2>1 DEF ChangesOf
  <2>3. c.additions = << >>
    BY <1>5, <1>6
  <2> QED BY <1>6, <2>1, <2>2, <2>3 DEF IsChange
<1> HIDE DEF c
<1>7. ASSUME p \in DOMAIN patch.changes PROVE TellsProgress(patch, p)
  BY <1>1, <1>2, <1>5, <1>6, <1>7 DEF TellsProgress
<1>8. ASSUME after = 0, p \notin DOMAIN patch.changes
      PROVE  \A v \in 1..database.version : history[v][p].plan = 0
  <2>1. ~c.has_progress
    BY <1>2, <1>8 DEF IsChange
  <2>2. s.plan = 0
    BY <1>6, <1>8, <2>1
  <2> QED BY <2>2 DEF TypeInv, HistoryType
<1> QED BY <1>7, <1>8

(* What the database showed at a version it has had does not change.        *)
LEMMA HistoryStays ==
  ASSUME TypeInv, NEW m \in Mirrors, NEW patch \in Range(updates[m]),
         history' = history \/ (NextVersion \in Versions /\ \E x \in [Participants -> ShownType] : history' = Append(history, x))
  PROVE  /\ Leads(patch) => Leads(patch)'
         /\ TellsEnough(patch) => TellsEnough(patch)'
<1>1. /\ patch \in PatchType /\ patch.latest <= database.version /\ patch.base <= patch.latest
      /\ database.version \in Nat
      /\ history \in Seq([Participants -> ShownType]) /\ Len(history) = database.version
  BY RangeOfSeq DEF TypeInv, MirrorTypes, HistoryType, DatabaseType, Versions
<1>2. patch.latest \in Known /\ patch.base \in Known /\ patch.latest \in Nat
  BY <1>1 DEF PatchType, Versions, Known
<1>3. \A v \in 1..database.version : history'[v] = history[v]
  BY <1>1, AppendProperties
<1>4. \A v \in Known : At(v)' = At(v) /\ ReaderAt(v)' = ReaderAt(v)
  <2> SUFFICES ASSUME NEW v \in Known PROVE At(v)' = At(v) /\ ReaderAt(v)' = ReaderAt(v)
    OBVIOUS
  <2>1. v = 0 \/ history'[v] = history[v]
    BY <1>1, <1>3 DEF Known
  <2> QED BY <2>1 DEF At, ReaderAt, Blank
<1>5. Leads(patch) => Leads(patch)'
  BY <1>2, <1>4, Zenon DEF Leads, StatesShow, Patched
<1>6. TellsEnough(patch) => TellsEnough(patch)'
  <2>1. \A v \in 1..patch.latest : v \in 1..database.version
    BY <1>1, <1>2
  <2> QED BY <1>3, <2>1 DEF TellsEnough, TellsProgress
<1> QED BY <1>5, <1>6

(* A step of the database moves its history on, all others leave it.        *)
DatabaseStep ==
  /\ NextVersion \in Versions
  /\ \E x \in [Participants -> ShownType] : history' = Append(history, x)
  /\ UNCHANGED <<updates, mirrors>>

(* A mirror takes a patch from its topic and applies it or leaves it.       *)
MirrorStep(m) ==
  LET patch == Head(updates[m]) IN
  /\ updates' = [updates EXCEPT ![m] = Tail(@)] /\ updates[m] # << >>
  /\ patch \in Range(updates[m]) /\ patch \in PatchType
  /\ ~IsOld(mirrors[m], patch) /\ Fits(mirrors[m], patch)
  /\ mirrors' = [mirrors EXCEPT ![m] = Patched(mirrors[m], patch)]
  /\ UNCHANGED <<database, history>>

(* The node sends patches, or nothing is sent and no mirror changes.        *)
PlainStep ==
  /\ UNCHANGED <<database, history>>
  /\ mirrors' \in [Mirrors -> MirrorType]
  /\ \A m \in Mirrors : mirrors'[m].states = mirrors[m].states /\ mirrors'[m].version = mirrors[m].version
  /\ \A m \in Mirrors : \A patch \in Range(updates'[m]) :
       \/ patch \in Range(updates[m])
       \/ \E after \in Known, remedial \in BOOLEAN : patch = Patch(after, remedial)

(* Every handler of the database makes such a step.                         *)
LEMMA AdvanceIsDatabaseStep ==
  ASSUME TypeInv, TypeInv', NEW states, NEW cull, Advance(states, cull)
  PROVE  DatabaseStep
<1>1. /\ NextVersion \in Versions /\ history' = Append(history, DatabaseShows(states))
      /\ UNCHANGED <<updates, mirrors>>
  BY DEF Advance
<1>2. DatabaseShows(states) = DatabaseShows(database'.states)
  BY DEF Advance
<1>3. /\ history' \in Seq([Participants -> ShownType]) /\ Len(history') = database'.version
      /\ database'.version \in Nat \ {0} /\ history'[database'.version] = DatabaseShows(database'.states)
  <2>1. history'[database'.version] = DatabaseShows(database'.states)
    BY DEF TypeInv, HistoryType, DatabaseShows
  <2> QED BY <2>1 DEF TypeInv, HistoryType, DatabaseType, Versions
<1>4. DatabaseShows(states) \in [Participants -> ShownType]
  <2>1. database'.version \in 1..Len(history')
    BY <1>3
  <2> QED BY <1>2, <1>3, <2>1, ElementOfSeq
<1> QED BY <1>1, <1>4 DEF DatabaseStep

(* Every step is one of the three kinds.                                    *)
LEMMA StepKinds ==
  ASSUME TypeInv, TypeInv', [Next]_vars
  PROVE  DatabaseStep \/ PlainStep \/ \E m \in Mirrors : MirrorStep(m)
<1>1. ASSUME NEW p \in Participants, NEW state, Update(p, state) PROVE DatabaseStep
  BY <1>1, AdvanceIsDatabaseStep DEF Update
<1>2. ASSUME \E p \in Participants :
               \/ \E it \in Itineraries[database.cull.time] : Set(p, it) \/ Extend(p, it)
               \/ Delay(p) \/ Clear(p) \/ UpdateDescription(p)
               \/ \E c \in 1..CheckpointLimit : Reached(p, c)
      PROVE  DatabaseStep
  <2>1. PICK p \in Participants :
               \/ \E it \in Itineraries[database.cull.time] : Set(p, it) \/ Extend(p, it)
               \/ Delay(p) \/ Clear(p) \/ UpdateDescription(p)
               \/ \E c \in 1..CheckpointLimit : Reached(p, c)
    BY <1>2
  <2>2. \E state : Update(p, state)
    BY <2>1 DEF Set, Extend, Delay, Clear, UpdateDescription, Reached
  <2> QED BY <1>1, <2>2
<1>3. ASSUME NEW time \in CullTimes, Cull(time) PROVE DatabaseStep
  BY <1>3, AdvanceIsDatabaseStep DEF Cull
<1>4. mirrors \in [Mirrors -> MirrorType] /\ mirrors' \in [Mirrors -> MirrorType]
  BY DEF TypeInv, MirrorTypes, MirrorType, CopyType
<1>5. ASSUME UpdateMirrors PROVE PlainStep
  <2>1. UNCHANGED <<database, requests, mirrors, disturbances, history>>
    BY <1>5 DEF UpdateMirrors
  <2>2. PICK order \in SetToSeqs(query.remediation) : Publish(Sent(order))
    BY <1>5, UpdateMirrorsKeepsTypes
  <2>3. ASSUME NEW m \in Mirrors, NEW patch \in Range(updates'[m])
        PROVE  \/ patch \in Range(updates[m])
               \/ \E after \in Known, remedial \in BOOLEAN : patch = Patch(after, remedial)
    <3>1. updates[m] \in Seq(PatchType) /\ Sent(order) \in Seq(PatchType)
          /\ \A u \in Range(Sent(order)) :
               \E after \in Known, remedial \in BOOLEAN : u = Patch(after, remedial)
      BY <2>2, SentPatches DEF TypeInv, MirrorTypes
    <3>2. updates'[m] = IF mirrors[m].joined THEN updates[m] \o Sent(order) ELSE updates[m]
      BY <2>2 DEF Publish
    <3>3. patch \in Range(updates[m]) \cup Range(Sent(order))
      BY <2>3, <3>1, <3>2, PatchesInSequence
    <3> QED BY <3>1, <3>3
  <2> QED BY <1>4, <2>1, <2>3 DEF PlainStep
<1>6. ASSUME UNCHANGED <<database, history, updates>>, mirrors' = mirrors PROVE PlainStep
  BY <1>4, <1>6 DEF PlainStep
<1>7. ASSUME NEW m \in Mirrors, Deliver(m) PROVE PlainStep \/ MirrorStep(m)
  <2>1. /\ updates[m] # << >> /\ updates' = [updates EXCEPT ![m] = Tail(@)]
        /\ Head(updates[m]) \in Range(updates[m]) /\ Head(updates[m]) \in PatchType
        /\ UNCHANGED <<database, query, history>>
        /\ \/ UNCHANGED <<mirrors, requests, disturbances>>
           \/ /\ ~IsOld(mirrors[m], Head(updates[m])) /\ Fits(mirrors[m], Head(updates[m]))
              /\ mirrors' = [mirrors EXCEPT ![m] = Patched(mirrors[m], Head(updates[m]))]
              /\ UNCHANGED <<requests, disturbances>>
           \/ Request(mirrors[m].version) /\ UNCHANGED mirrors
    BY <1>7, DeliverCases
  <2>2. \A o \in Mirrors : \A u \in Range(updates'[o]) : u \in Range(updates[o])
    BY <2>1, HeadGone
  <2> QED BY <1>4, <2>1, <2>2 DEF PlainStep, MirrorStep
<1>8. ASSUME NEW m \in Mirrors, Join(m) PROVE PlainStep
  <2>1. /\ UNCHANGED <<database, updates, history>>
        /\ mirrors' = [mirrors EXCEPT ![m].joined = TRUE]
    BY <1>8 DEF Join
  <2>2. \A o \in Mirrors : mirrors'[o].states = mirrors[o].states /\ mirrors'[o].version = mirrors[o].version
    BY <1>4, <2>1 DEF MirrorType
  <2> QED BY <1>4, <2>1, <2>2 DEF PlainStep
<1>9. ASSUME NEW m \in Mirrors, Lose(m) PROVE PlainStep
  <2>1. /\ updates[m] # << >> /\ updates' = [updates EXCEPT ![m] = Tail(@)]
        /\ UNCHANGED <<database, mirrors, history>>
    BY <1>9 DEF Lose
  <2>2. \A o \in Mirrors : \A u \in Range(updates'[o]) : u \in Range(updates[o])
    BY <2>1, HeadGone
  <2> QED BY <1>4, <2>1, <2>2 DEF PlainStep
<1>10. ASSUME NEW m \in Mirrors, Timeout(m) PROVE PlainStep
  BY <1>6, <1>10 DEF Timeout
<1>11. ASSUME NEW version, OnRequest(version) \/ OthersRequest(version) PROVE PlainStep
  BY <1>6, <1>11 DEF OnRequest, OthersRequest
<1>12. CASE UNCHANGED vars
  BY <1>6, <1>12 DEF vars
<1>13. CASE Next
  BY <1>2, <1>3, <1>5, <1>7, <1>8, <1>9, <1>10, <1>11, <1>13 DEF Next
<1> QED BY <1>12, <1>13

(* The patches the database makes lead on.                                  *)
LEMMA DatabasePatchesLead ==
  ASSUME TypeInv, PatchesLeadFromEveryVersion, NEW after \in Known, NEW remedial \in BOOLEAN
  PROVE  Leads(Patch(after, remedial))
<1>1. /\ Patch(after, remedial).base = after /\ Patch(after, remedial).latest = database.version
      /\ database.version \in Nat \ {0} /\ history[database.version] = DatabaseShows(database.states)
  BY PatchIsTyped DEF TypeInv, HistoryType, DatabaseType, Versions
<1>2. StatesShow(Patched(ReaderAt(after), Patch(after, TRUE)).states) = DatabaseShows(database.states)
  BY DEF PatchesLeadFromEveryVersion, ReaderAt, Known
<1>3. Patched(ReaderAt(after), Patch(after, remedial)) = Patched(ReaderAt(after), Patch(after, TRUE))
  BY DEF Patched, Patch
<1> QED BY <1>1, <1>2, <1>3 DEF Leads, At

(* A patch that leads on leads every mirror on that it fits.                *)
LEMMA PatchedMirrorShows ==
  ASSUME FollowInv, NEW m \in Mirrors, NEW patch \in Range(updates[m]),
         ~IsOld(mirrors[m], patch), Fits(mirrors[m], patch)
  PROVE  StatesShow(Patched(mirrors[m], patch).states) = At(patch.latest)
<1> DEFINE mirror == mirrors[m]
           reader == ReaderAt(patch.base)
<1>1. TypeInv /\ Leads(patch) /\ TellsEnough(patch) /\ MirrorShows(m) = At(mirror.version)
  BY DEF FollowInv
<1>2. /\ mirror \in MirrorType /\ mirror.version \in Known
      /\ patch \in PatchType /\ patch.latest <= database.version /\ patch.base <= patch.latest
      /\ database.version \in Nat
  BY <1>1, RangeOfSeq DEF TypeInv, MirrorTypes, DatabaseType, Versions
<1>3. patch.base \in Known /\ patch.latest \in Nat /\ mirror.version \in Nat /\ mirror.version < patch.latest
  BY <1>2 DEF PatchType, Versions, Known, IsOld
<1>4. patch.base = 0 \/ patch.base = mirror.version
  BY DEF Fits
<1>5. ASSUME NEW p \in Participants
      PROVE  Shows(PatchedCopy(mirror.states[p], patch, p)) = Shows(PatchedCopy(reader.states[p], patch, p))
  <2> DEFINE a == mirror.states[p]
             b == reader.states[p]
  <2>1. a \in CopyType /\ b \in CopyType /\ Shows(b) = At(patch.base)[p]
    BY <1>1, <1>2, <1>3, ReaderShows DEF MirrorType
  <2>2. Shows(a) = At(mirror.version)[p]
    BY <1>1 DEF MirrorShows, StatesShow, Shows
  <2>3. patch.base # 0 => Alike(a, b)
    BY <1>4, <2>1, <2>2, AlikeShowTheSame
  <2>4. p \notin DOMAIN patch.changes => a.plan = b.plan
    <3>1. CASE patch.base # 0
      BY <2>3, <3>1 DEF Alike
    <3>2. CASE patch.base = 0
      <4>1. b.plan = 0
        BY <1>1, <1>3, <3>2, ReaderShows, BlankIsTyped DEF At
      <4>2. a.plan = At(mirror.version)[p].plan
        BY <2>2 DEF Shows, Shown
      <4>3. p \notin DOMAIN patch.changes => At(mirror.version)[p].plan = 0
        <5>1. CASE mirror.version = 0
          BY <5>1, BlankIsTyped DEF At
        <5>2. CASE mirror.version # 0
          <6>1. mirror.version \in 1..patch.latest
            BY <1>3, <5>2
          <6> QED BY <1>1, <3>2, <5>2, <6>1 DEF TellsEnough, At
        <5> QED BY <5>1, <5>2
      <4> QED BY <4>1, <4>2, <4>3
    <3> QED BY <3>1, <3>2
  <2>5. p \in DOMAIN patch.changes => TellsProgress(patch, p)
    BY <1>1 DEF TellsEnough
  <2> HIDE DEF a, b
  <2>6. Alike(PatchedCopy(a, patch, p), PatchedCopy(b, patch, p))
    BY <1>2, <2>1, <2>3, <2>4, <2>5, PatchedAlike
  <2> QED BY <2>6, AlikeShowTheSame DEF a, b
<1>6. StatesShow(Patched(mirror, patch).states)
        = [p \in Participants |-> Shows(PatchedCopy(mirror.states[p], patch, p))]
  BY <1>2, PatchedIsTyped, SMTT(30) DEF StatesShow, Shows
<1>7. StatesShow(Patched(reader, patch).states)
        = [p \in Participants |-> Shows(PatchedCopy(reader.states[p], patch, p))]
  BY PatchedIs, ZenonT(40) DEF StatesShow, Shows, ReaderAt
<1> QED BY <1>1, <1>5, <1>6, <1>7 DEF Leads

(* While the history stays, patches lead as they did.                       *)
LEMMA SameHistory ==
  ASSUME history' = history, NEW patch
  PROVE  (Leads(patch) => Leads(patch)') /\ (TellsEnough(patch) => TellsEnough(patch)')
<1>1. \A v : At(v)' = At(v) /\ ReaderAt(v)' = ReaderAt(v)
  BY DEF At, ReaderAt, Blank
<1>2. Leads(patch)' = Leads(patch)
  <2>1. At(patch.latest)' = At(patch.latest) /\ ReaderAt(patch.base)' = ReaderAt(patch.base)
    BY <1>1
  <2> HIDE DEF ReaderAt, At
  <2>2. StatesShow(Patched(ReaderAt(patch.base), patch).states)'
          = StatesShow(Patched(ReaderAt(patch.base), patch).states)
    BY <2>1 DEF StatesShow, Patched
  <2> QED BY <2>1, <2>2 DEF Leads
<1>3. TellsEnough(patch)' <=> TellsEnough(patch)
  BY DEF TellsEnough, TellsProgress
<1> QED BY <1>2, <1>3

(* Every step keeps the mirrors following, if the patches computed now lead *)
(* on.                                                                      *)
LEMMA StepKeepsFollow ==
  ASSUME FollowInv, TypeInv', [Next]_vars, PatchesLeadFromEveryVersion
  PROVE  FollowInv'
<1>1. TypeInv /\ \A m \in Mirrors : mirrors[m] \in MirrorType /\ mirrors[m].version \in Known
  BY DEF FollowInv, TypeInv, MirrorTypes
<1>2. /\ history \in Seq([Participants -> ShownType]) /\ Len(history) = database.version
      /\ database.version \in Nat
  BY <1>1 DEF TypeInv, HistoryType, DatabaseType, Versions
<1>3. CASE DatabaseStep
  <2>1. UNCHANGED <<updates, mirrors>>
    BY <1>3 DEF DatabaseStep
  <2>2. \A v \in Known : At(v)' = At(v)
    <3> SUFFICES ASSUME NEW v \in Known PROVE At(v)' = At(v)
      OBVIOUS
    <3>1. v = 0 \/ history'[v] = history[v]
      BY <1>2, <1>3, AppendProperties DEF Known, DatabaseStep
    <3> QED BY <3>1 DEF At, Blank
  <2>3. \A m \in Mirrors : MirrorShows(m)' = At(mirrors[m].version)'
    BY <1>1, <2>1, <2>2 DEF FollowInv, MirrorShows, StatesShow, At
  <2>4. \A m \in Mirrors : \A patch \in Range(updates'[m]) : Leads(patch)' /\ TellsEnough(patch)'
    BY <1>1, <1>3, <2>1, HistoryStays DEF FollowInv, DatabaseStep
  <2> QED BY <2>3, <2>4 DEF FollowInv
<1>4. CASE PlainStep
  <2>1. history' = history /\ database' = database
    BY <1>4 DEF PlainStep
  <2>2. \A m \in Mirrors : MirrorShows(m)' = At(mirrors[m].version)'
    BY <1>4, <2>1 DEF FollowInv, MirrorShows, StatesShow, At, Blank, PlainStep
  <2>3. ASSUME NEW m \in Mirrors, NEW patch \in Range(updates'[m])
        PROVE  Leads(patch) /\ TellsEnough(patch)
    <3>1. CASE patch \in Range(updates[m])
      BY <3>1 DEF FollowInv
    <3>2. CASE \E after \in Known, remedial \in BOOLEAN : patch = Patch(after, remedial)
      BY <1>1, <3>2, DatabasePatchesLead, DatabaseTellsEnough
    <3> QED BY <1>4, <3>1, <3>2 DEF PlainStep
  <2>4. \A patch : (Leads(patch) => Leads(patch)') /\ (TellsEnough(patch) => TellsEnough(patch)')
    BY <2>1, SameHistory
  <2> QED BY <2>2, <2>3, <2>4 DEF FollowInv
<1>5. CASE \E m \in Mirrors : MirrorStep(m)
  <2>1. PICK m \in Mirrors : MirrorStep(m)
    BY <1>5
  <2> DEFINE patch == Head(updates[m])
  <2>2. /\ updates[m] # << >> /\ updates' = [updates EXCEPT ![m] = Tail(@)]
        /\ patch \in Range(updates[m]) /\ patch \in PatchType
        /\ ~IsOld(mirrors[m], patch) /\ Fits(mirrors[m], patch)
        /\ mirrors' = [mirrors EXCEPT ![m] = Patched(mirrors[m], patch)]
        /\ history' = history /\ database' = database
    BY <2>1 DEF MirrorStep
  <2>3. StatesShow(Patched(mirrors[m], patch).states) = At(patch.latest)
    BY <2>2, PatchedMirrorShows
  <2>4. Patched(mirrors[m], patch).version = patch.latest
    BY <1>1, <2>2, PatchedIsTyped
  <2> HIDE DEF patch
  <2>5. mirrors \in [Mirrors -> MirrorType]
    BY <1>1 DEF TypeInv, MirrorTypes
  <2>6. ASSUME NEW o \in Mirrors PROVE MirrorShows(o)' = At(mirrors[o].version)'
    <3>1. CASE o = m
      BY <2>2, <2>3, <2>4, <2>5, <3>1 DEF MirrorShows, StatesShow, At, Blank
    <3>2. CASE o # m
      BY <2>2, <2>5, <3>2 DEF FollowInv, MirrorShows, StatesShow, At, Blank
    <3> QED BY <3>1, <3>2
  <2>7. \A o \in Mirrors : \A u \in Range(updates'[o]) : u \in Range(updates[o])
    BY <1>1, <2>2, HeadGone
  <2>8. \A u : (Leads(u) => Leads(u)') /\ (TellsEnough(u) => TellsEnough(u)')
    BY <2>2, SameHistory
  <2> QED BY <2>6, <2>7, <2>8 DEF FollowInv
<1> QED BY <1>1, <1>3, <1>4, <1>5, StepKinds

(* Initially mirrors show nothing, as the database does.                    *)
LEMMA InitFollows ==
  ASSUME Init, TypeInv PROVE FollowInv
<1>1. /\ updates = [m \in Mirrors |-> << >>]
      /\ mirrors = [m \in Mirrors |-> [joined |-> FALSE, version |-> 0,
             states |-> [p \in Participants |-> [storage |-> << >>, plan |-> 0, progress |-> 0]]]]
  BY DEF Init
<1>2. \A m \in Mirrors : MirrorShows(m) = At(mirrors[m].version)
  BY <1>1 DEF MirrorShows, StatesShow, At, Blank, Shown
<1>3. Range(<< >>) = {}
  BY DEF Range
<1>4. \A m \in Mirrors : Range(updates[m]) = {}
  BY <1>1, <1>3
<1> QED BY <1>2, <1>4 DEF FollowInv

(* As long as patches lead on, mirrors show what was shown at their version.*)
LEMMA FollowInvHoldsAlways ==
  Spec /\ []PatchesLeadFromEveryVersion => []FollowInv
<1>1. Init /\ TypeInv => FollowInv
  BY InitFollows
<1>2. FollowInv /\ TypeInv' /\ [Next]_vars /\ PatchesLeadFromEveryVersion => FollowInv'
  BY StepKeepsFollow
<1> QED BY <1>1, <1>2, TypeInvHoldsAlways, PTL DEF Spec

(* The steps of the mirrors are those of lagging copies.                    *)
LEMMA InitIsLagging ==
  ASSUME Init, TypeInv PROVE Schedule!Init
<1>1. history = [v \in 1..Registered |-> Blank]
  BY DEF Init
<1>2. mirrors = [m \in Mirrors |-> [joined |-> FALSE, version |-> 0,
             states |-> [p \in Participants |-> [storage |-> << >>, plan |-> 0, progress |-> 0]]]]
  BY DEF Init
<1>3. \A m \in Mirrors : mirrors[m].version = 0 /\ MirrorShows(m) = Blank
  BY <1>2 DEF MirrorShows, StatesShow, Blank, Shown
<1>4. Copies = [m \in Mirrors |-> [version |-> 0, content |-> Blank]]
  BY <1>3 DEF Copies
<1> QED BY <1>1, <1>4 DEF Schedule!Init

(* Every step is one of the abstract schedule with its lagging copies, or   *)
(* none.                                                                    *)
LEMMA StepIsLagging ==
  ASSUME FollowInv, FollowInv', [Next]_vars
  PROVE  Schedule!Next \/ UNCHANGED <<history, Copies>>
<1>1. TypeInv /\ TypeInv' /\ \A m \in Mirrors : mirrors[m] \in MirrorType /\ mirrors[m].version \in Known
  BY DEF FollowInv, TypeInv, MirrorTypes
<1>2. /\ history \in Seq([Participants -> ShownType]) /\ Len(history) = database.version
      /\ database.version \in Nat
  BY <1>1 DEF TypeInv, HistoryType, DatabaseType, Versions
<1>3. CASE DatabaseStep
  <2>1. PICK x \in [Participants -> ShownType] : history' = Append(history, x)
    BY <1>3 DEF DatabaseStep
  <2>2. /\ Len(history') = Len(history) + 1 /\ history' \in Seq([Participants -> ShownType])
        /\ \A v \in 1..Len(history) : history'[v] = history[v]
    BY <1>2, <2>1, AppendProperties
  <2>3. SubSeq(history', 1, Len(history)) = history
    <3>1. SubSeq(history', 1, Len(history)) = [v \in 1..Len(history) |-> history'[v]]
      BY <1>2, <2>2
    <3>2. history = [v \in 1..Len(history) |-> history[v]]
      BY <1>2, LenProperties
    <3> QED BY <2>2, <3>1, <3>2
  <2>4. Copies' = Copies
    BY <1>3 DEF DatabaseStep, Copies, MirrorShows, StatesShow
  <2>5. Schedule!Publish
    BY <2>2, <2>3, <2>4 DEF Schedule!Publish
  <2> QED BY <2>5 DEF Schedule!Next
<1>4. CASE PlainStep
  BY <1>4 DEF PlainStep, Copies, MirrorShows, StatesShow
<1>5. ASSUME NEW m \in Mirrors, MirrorStep(m) PROVE Schedule!CatchUp(m)
  <2> DEFINE patch == Head(updates[m])
             v == patch.latest
  <2>1. /\ patch \in Range(updates[m]) /\ patch \in PatchType
        /\ ~IsOld(mirrors[m], patch) /\ Fits(mirrors[m], patch)
        /\ mirrors' = [mirrors EXCEPT ![m] = Patched(mirrors[m], patch)]
        /\ history' = history /\ database' = database
    BY <1>5 DEF MirrorStep
  <2>2. v \in Nat /\ v <= database.version /\ mirrors[m].version < v
    BY <1>1, <2>1 DEF PatchType, Versions, IsOld, TypeInv, MirrorTypes, Known
  <2>3. mirrors[m].version \in Nat
    BY <1>1 DEF Known
  <2>4. Copies[m].version = mirrors[m].version
    BY DEF Copies
  <2>5. v \in (Copies[m].version + 1)..Len(history)
    BY <1>2, <2>2, <2>3, <2>4
  <2>6. mirrors'[m].version = v /\ mirrors' \in [Mirrors -> MirrorType]
        /\ \A o \in Mirrors : o # m => mirrors'[o] = mirrors[o]
    BY <1>1, <2>1, PatchedIsTyped DEF TypeInv, MirrorTypes
  <2>7. MirrorShows(m)' = At(mirrors[m].version)'
    BY DEF FollowInv
  <2>8. MirrorShows(m)' = history[v]
    BY <2>1, <2>2, <2>3, <2>6, <2>7 DEF At
  <2>9. Copies' = [Copies EXCEPT ![m] = [version |-> v, content |-> history[v]]]
    <3>1. \A o \in Mirrors : o # m => Copies'[o] = Copies[o]
      BY <2>6 DEF Copies, MirrorShows, StatesShow
    <3>2. Copies'[m] = [version |-> v, content |-> history[v]]
      BY <2>6, <2>8 DEF Copies
    <3>3. Copies = [o \in Mirrors |-> Copies[o]] /\ Copies' = [o \in Mirrors |-> Copies'[o]]
      BY DEF Copies
    <3> QED BY <3>1, <3>2, <3>3
  <2> HIDE DEF patch, v
  <2> QED BY <2>1, <2>5, <2>9 DEF Schedule!CatchUp
<1>6. CASE \E m \in Mirrors : MirrorStep(m)
  BY <1>5, <1>6 DEF Schedule!Next
<1> QED BY <1>1, <1>3, <1>4, <1>6, StepKinds

(* Mirrors lag behind but never mix versions, as long as patches lead on.   *)
THEOREM MirrorsFollow ==
  Spec /\ []PatchesLeadFromEveryVersion => FollowsTheSchedule
<1>1. Init /\ TypeInv => Schedule!Init
  BY InitIsLagging
<1>2. FollowInv /\ FollowInv' /\ [Next]_vars => [Schedule!Next]_<<history, Copies>>
  BY StepIsLagging
<1> QED BY <1>1, <1>2, TypeInvHoldsAlways, FollowInvHoldsAlways, PTL
    DEF Spec, FollowsTheSchedule, Schedule!Spec
=============================================================================
