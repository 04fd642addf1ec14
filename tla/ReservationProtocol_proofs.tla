--------------------- MODULE ReservationProtocol_proofs ---------------------
(***************************************************************************)
(* Proofs about the reservation node together with the fleet adapters that   *)
(* negotiate with it, for any robots, spots, goals, waiting points, costs    *)
(* and numbers of missions and tickets, and however the messages of the      *)
(* topics are delayed against each other.                                    *)
(*                                                                         *)
(* ProtocolInv holds always.  It says that whatever a robot's channels carry *)
(* is about tickets of its own, that a ticket is claimed once, after its     *)
(* robot was told of it, and that answers fit the question they answer.      *)
(* FollowInv adds, when nobody cancels and no robot is sent to the spot it   *)
(* has, that the adapter follows its ticket to the end; SpotInv adds, when   *)
(*XX does not keep them when tasks are cancelled, robots are sent     *)
(* where they are, or goals are skipped: ReservationLeak.cfg,                *)
(* ReservationCancelled.cfg and ReservationSkippedGoal.cfg show how.         *)
(***************************************************************************)
EXTENDS ReservationProtocol, ReservationNode_proofs

(* What holds of 0, and of the next number whenever it holds of one, holds  *)
(* up to a bound: a least number it does not hold of would have none before. *)
LEMMA UpTo ==
  ASSUME NEW N \in Nat, NEW T, 0 \in T, \A n \in 0..(N - 1) : n \in T => n + 1 \in T
  PROVE  0..N \subseteq T
<1> SUFFICES ASSUME NEW m \in 0..N, m \notin T PROVE FALSE
  OBVIOUS
<1> DEFINE S == {n \in 0..N : n \notin T}
           f == [n \in S |-> n]
<1>1. IsFiniteSet(S) /\ S # {}
  <2>1. IsFiniteSet(0..N)
    BY FS_Interval
  <2>2. S \in SUBSET (0..N) /\ m \in S
    OBVIOUS
  <2> HIDE DEF S
  <2> QED BY <2>1, <2>2, FS_Subset
<1>2. f \in [S -> Int]
  OBVIOUS
<1>3. PICK n \in S : \A k \in S : f[n] <= f[k]
  <2> HIDE DEF S, f
  <2> QED BY <1>1, <1>2, LeastOf
<1>4. n # 0 /\ n - 1 \in 0..(N - 1) /\ n - 1 \in 0..N
  OBVIOUS
<1>5. n - 1 \in T
  <2>1. SUFFICES ASSUME n - 1 \in S PROVE FALSE
    BY <1>4
  <2>2. f[n] <= f[n - 1]
    BY <1>3, <2>1
  <2> QED BY <2>1, <2>2
<1> QED BY <1>4, <1>5

(* What make_request keeps after n goals, as its loop computes it.          *)
LEMMA KeptStepwise ==
  ASSUME NEW r \in Robots, NEW goals \in Seq(Locations)
  PROVE  LET kept == KeptOf(r, goals)
         IN  /\ kept[0] = << >>
             /\ \A n \in 1..Len(goals) :
                  kept[n] = IF goals[n] \in Skipped[r] THEN kept[n - 1]
                            ELSE Append(kept[n - 1], goals[n])
<1> DEFINE N == Len(goals)
           Then(s, n) == IF goals[n] \in Skipped[r] THEN s ELSE Append(s, goals[n])
           Computes(g, m) == /\ g[0] = << >> 
                             /\ \A n \in 1..m : g[n] = Then(g[n - 1], n)
           T == {m \in 0..N : \E g : Computes(g, m)}
<1>1. N \in Nat
  BY LenProperties
<1> HIDE DEF N, Then
<1>2. 0 \in T
  <2>1. Computes([n \in {0} |-> << >>], 0)
    OBVIOUS
  <2> HIDE DEF Computes
  <2>2. \E g : Computes(g, 0)
    BY <2>1
  <2> QED BY <1>1, <2>2
<1>3. ASSUME NEW m \in 0..(N - 1), m \in T PROVE m + 1 \in T
  <2>1. PICK g : Computes(g, m)
    BY <1>3
  <2>2. m \in Nat /\ m + 1 \in 0..N
    BY <1>1
  <2> DEFINE h == [n \in 0..(m + 1) |-> IF n = m + 1 THEN Then(g[m], m + 1) ELSE g[n]]
  <2>3. \A n \in 0..m : h[n] = g[n]
    BY <2>2
  <2>4. h[m + 1] = Then(g[m], m + 1)
    BY <2>2
  <2> HIDE DEF h
  <2>5. h[0] = << >>
    BY <2>1, <2>2, <2>3
  <2>6. ASSUME NEW n \in 1..(m + 1) PROVE h[n] = Then(h[n - 1], n)
    <3>1. n - 1 \in 0..m
      BY <2>2
    <3>2. CASE n = m + 1
      BY <2>2, <2>3, <2>4, <3>1, <3>2
    <3>3. CASE n # m + 1
      <4>1. n \in 1..m /\ n \in 0..m
        BY <2>2, <3>3
      <4> QED BY <2>1, <2>3, <3>1, <4>1
    <3> QED BY <3>2, <3>3
  <2> QED BY <2>2, <2>5, <2>6
<1>4. N \in T
  <2> HIDE DEF T
  <2>1. \A m \in 0..(N - 1) : m \in T => m + 1 \in T
    BY <1>3
  <2>2. 0..N \subseteq T
    BY <1>1, <1>2, <2>1, UpTo
  <2> QED BY <1>1, <2>2
<1>5. PICK g : Computes(g, N)
  BY <1>4
<1> DEFINE f == [n \in 0..N |-> g[n]]
<1>6. f = [n \in 0..N |-> IF n = 0 THEN << >> ELSE Then(f[n - 1], n)]
  <2>1. ASSUME NEW n \in 0..N PROVE f[n] = IF n = 0 THEN << >> ELSE Then(f[n - 1], n)
    <3>1. CASE n = 0
      BY <1>1, <1>5, <3>1
    <3>2. CASE n # 0
      <4>1. n \in 1..N /\ n - 1 \in 0..N
        BY <1>1, <3>2
      <4>2. g[n] = Then(g[n - 1], n)
        BY <1>5, <4>1
      <4> QED BY <3>2, <4>1, <4>2
    <3> QED BY <3>1, <3>2
  <2> HIDE DEF f
  <2>2. f = [n \in 0..N |-> f[n]]
    BY DEF f
  <2> QED BY <2>1, <2>2
<1> HIDE DEF f
<1> DEFINE kept == KeptOf(r, goals)
<1>7. kept = CHOOSE k : k = [n \in 0..N |-> IF n = 0 THEN << >> ELSE Then(k[n - 1], n)]
  BY DEF KeptOf, N, Then
<1>8. kept = [n \in 0..N |-> IF n = 0 THEN << >> ELSE Then(kept[n - 1], n)]
  <2> HIDE DEF kept
  <2> QED BY <1>6, <1>7
<1> HIDE DEF kept
<1>9. kept[0] = << >>
  BY <1>1, <1>8
<1>10. ASSUME NEW n \in 1..N PROVE kept[n] = Then(kept[n - 1], n)
  <2>1. n \in 0..N /\ n # 0
    BY <1>1
  <2> QED BY <1>8, <2>1
<1> QED BY <1>9, <1>10 DEF kept, N, Then

(* What is kept are goals, no more than there are, and all of them in their *)
(* order when the robot skips none.                                         *)
LEMMA KeptAreGoals ==
  ASSUME NEW r \in Robots, NEW goals \in Seq(Locations)
  PROVE  LET kept == KeptOf(r, goals)[Len(goals)]
         IN  /\ kept \in Seq(Locations) /\ Len(kept) <= Len(goals)
             /\ Range(kept) \subseteq Range(goals)
             /\ Skipped[r] = {} => kept = goals
<1> DEFINE N == Len(goals)
           kept == KeptOf(r, goals)
           Fits(s, n) == /\ s \in Seq(Locations) /\ Len(s) <= n
                         /\ \A i \in 1..Len(s) : s[i] \in Range(goals)
                         /\ Skipped[r] = {} => Len(s) = n /\ \A i \in 1..n : s[i] = goals[i]
           T == {n \in 0..N : Fits(kept[n], n)}
<1>1. /\ N \in Nat /\ DOMAIN goals = 1..N
      /\ \A n \in 1..N : goals[n] \in Locations /\ goals[n] \in Range(goals)
  BY LenProperties, ElementOfSeq DEF Range
<1>2. /\ kept[0] = << >>
      /\ \A n \in 1..N : kept[n] = IF goals[n] \in Skipped[r] THEN kept[n - 1]
                                   ELSE Append(kept[n - 1], goals[n])
  BY KeptStepwise
<1> HIDE DEF N, kept
<1>3. 0 \in T
  <2> DEFINE s == << >>
  <2>1. s \in Seq(Locations) /\ Len(s) = 0
    BY EmptySeq
  <2> HIDE DEF s
  <2>2. Fits(s, 0)
    BY <2>1
  <2> HIDE DEF Fits
  <2> QED BY <1>1, <1>2, <2>2 DEF s
<1>4. ASSUME NEW m \in 0..(N - 1), m \in T PROVE m + 1 \in T
  <2>1. m \in Nat /\ m + 1 \in 1..N /\ m + 1 \in 0..N /\ (m + 1) - 1 = m
    BY <1>1
  <2>2. Fits(kept[m], m)
    BY <1>4
  <2>3. CASE goals[m + 1] \in Skipped[r]
    <3>1. kept[m + 1] = kept[m]
      BY <1>2, <2>1, <2>3
    <3>2. Fits(kept[m + 1], m + 1)
      BY <2>1, <2>2, <2>3, <3>1, LenProperties
    <3> QED BY <2>1, <3>2
  <2>4. CASE goals[m + 1] \notin Skipped[r]
    <3> DEFINE s == kept[m]
               e == goals[m + 1]
               u == Append(s, e)
    <3>1. kept[m + 1] = u
      BY <1>2, <2>1, <2>4
    <3>2. s \in Seq(Locations) /\ e \in Locations /\ e \in Range(goals) /\ Len(s) \in Nat
      BY <1>1, <2>1, <2>2, LenProperties
    <3>3. /\ u \in Seq(Locations) /\ Len(u) = Len(s) + 1
          /\ \A i \in 1..Len(s) : u[i] = s[i]
          /\ u[Len(s) + 1] = e
      BY <3>2, AppendProperties
    <3> HIDE DEF u, s
    <3>4. Fits(s, m)
      BY <2>2 DEF s
    <3>5. Fits(u, m + 1)
      BY <2>1, <3>2, <3>3, <3>4, SMTT(30)
    <3> HIDE DEF Fits
    <3> QED BY <2>1, <3>1, <3>5
  <2> QED BY <2>3, <2>4
<1>5. N \in T
  <2> HIDE DEF T
  <2>1. \A m \in 0..(N - 1) : m \in T => m + 1 \in T
    BY <1>4
  <2>2. 0..N \subseteq T
    BY <1>1, <1>3, <2>1, UpTo
  <2> QED BY <1>1, <2>2
<1> DEFINE s == kept[N]
<1>6. Fits(s, N)
  BY <1>5
<1> HIDE DEF s
<1>7. DOMAIN s = 1..Len(s)
  BY <1>6, LenProperties
<1>8. Skipped[r] = {} => s = goals
  BY <1>1, <1>6, SeqEqual DEF N
<1> QED BY <1>6, <1>7, <1>8 DEF s, kept, N, Range

-----------------------------------------------------------------------------
(* Channels *)

(* A message is added at the end, or taken from the front.                  *)
LEMMA AppendToChannel ==
  ASSUME NEW S, NEW c \in Seq(S), NEW m \in S
  PROVE  /\ Append(c, m) \in Seq(S)
         /\ Range(Append(c, m)) = Range(c) \cup {m}
<1>1. /\ Append(c, m) \in Seq(S) /\ DOMAIN c = 1..Len(c) /\ Len(c) \in Nat
      /\ DOMAIN Append(c, m) = 1..(Len(c) + 1)
      /\ \A i \in 1..Len(c) : Append(c, m)[i] = c[i]
      /\ Append(c, m)[Len(c) + 1] = m
  BY AppendProperties, LenProperties
<1> DEFINE a == Append(c, m)
<1> HIDE DEF a
<1>2. \A i \in 1..(Len(c) + 1) : i \in 1..Len(c) \/ i = Len(c) + 1
  BY <1>1
<1>3. Range(a) \subseteq Range(c) \cup {m}
  BY <1>1, <1>2 DEF Range, a
<1>4. \A i \in 1..Len(c) : i \in 1..(Len(c) + 1)
  BY <1>1
<1>5. Len(c) + 1 \in 1..(Len(c) + 1)
  BY <1>1
<1>6. Range(c) \cup {m} \subseteq Range(a)
  BY <1>1, <1>4, <1>5 DEF Range, a
<1> QED BY <1>1, <1>3, <1>6 DEF a

(* The message at the front of a channel, and the channel without it.       *)
LEMMA TailOfChannel ==
  ASSUME NEW S, NEW c \in Seq(S), c # << >>
  PROVE  /\ Head(c) \in S /\ Tail(c) \in Seq(S)
         /\ Head(c) \in Range(c) /\ Range(c) \subseteq S
         /\ Range(c) = Range(Tail(c)) \cup {Head(c)}
<1> DEFINE t == Tail(c)
           n == Len(c)
<1>1. /\ Head(c) \in S /\ t \in Seq(S) /\ Len(t) = n - 1 /\ n \in Nat \ {0}
      /\ DOMAIN c = 1..n /\ DOMAIN t = 1..(n - 1)
      /\ \A i \in 1..(n - 1) : t[i] = c[i + 1]
      /\ \A i \in 1..n : c[i] \in S
  BY HeadTailProperties, LenProperties, EmptySeq, ElementOfSeq
<1>2. Head(c) = c[1]
  OBVIOUS
<1> HIDE DEF t, n
<1>3. \A i \in 1..(n - 1) : i + 1 \in 1..n
  BY <1>1
<1>4. \A i \in 1..n : i = 1 \/ (i - 1 \in 1..(n - 1) /\ c[i] = t[i - 1])
  BY <1>1
<1>5. 1 \in 1..n
  BY <1>1
<1>6. ASSUME NEW i \in DOMAIN c PROVE c[i] \in Range(t) \cup {Head(c)}
  <2>1. i = 1 \/ (i - 1 \in DOMAIN t /\ c[i] = t[i - 1])
    BY <1>1, <1>4
  <2> QED BY <1>2, <2>1 DEF Range
<1>7. Range(t) \cup {Head(c)} \subseteq Range(c)
  BY <1>1, <1>2, <1>3, <1>5 DEF Range
<1>8. Range(c) \subseteq Range(t) \cup {Head(c)}
  BY <1>6 DEF Range
<1>9. Range(c) \subseteq S
  BY <1>1 DEF Range
<1> QED BY <1>1, <1>7, <1>8, <1>9 DEF t

(* What is in a channel is a message.                                       *)
LEMMA RangeTyped ==
  ASSUME NEW S, NEW c \in Seq(S)
  PROVE  \A x \in Range(c) : x \in S
<1>1. DOMAIN c = 1..Len(c) /\ \A i \in 1..Len(c) : c[i] \in S
  BY LenProperties, ElementOfSeq
<1> QED BY <1>1 DEF Range

(* No two messages of a channel have the same key.                          *)
Keyed(c, key) == \A i, j \in DOMAIN c : key[c[i]] = key[c[j]] => i = j

(* A message of a new key keeps the keys apart.                             *)
LEMMA AppendKeepsKeys ==
  ASSUME NEW S, NEW c \in Seq(S), NEW m \in S, NEW key, Keyed(c, key),
         \A x \in Range(c) : key[x] # key[m]
  PROVE  Keyed(Append(c, m), key)
<1> DEFINE a == Append(c, m)
           n == Len(c)
<1>1. /\ DOMAIN c = 1..n /\ n \in Nat /\ DOMAIN a = 1..(n + 1)
      /\ \A i \in 1..n : a[i] = c[i] /\ c[i] \in Range(c)
      /\ a[n + 1] = m
  BY AppendProperties, LenProperties DEF Range
<1> HIDE DEF a, n
<1>2. \A i \in 1..(n + 1) : i \in 1..n \/ i = n + 1
  BY <1>1
<1> QED BY <1>1, <1>2 DEF Keyed, a

(* Without its first message the keys stay apart, and that one is gone.     *)
LEMMA TailKeepsKeys ==
  ASSUME NEW S, NEW c \in Seq(S), c # << >>, NEW key, Keyed(c, key)
  PROVE  /\ Keyed(Tail(c), key)
         /\ \A x \in Range(Tail(c)) : key[x] # key[Head(c)]
<1> DEFINE t == Tail(c)
           n == Len(c)
<1>1. /\ n \in Nat \ {0} /\ DOMAIN c = 1..n /\ DOMAIN t = 1..(n - 1)
      /\ \A i \in 1..(n - 1) : t[i] = c[i + 1]
  BY HeadTailProperties, LenProperties, EmptySeq
<1>2. Head(c) = c[1]
  OBVIOUS
<1> HIDE DEF t, n
<1>3. \A i \in 1..(n - 1) : i + 1 \in 1..n /\ i + 1 # 1
  BY <1>1
<1>4. 1 \in 1..n /\ \A i, j \in 1..(n - 1) : i + 1 = j + 1 => i = j
  BY <1>1
<1>5. Keyed(t, key)
  <2>1. SUFFICES ASSUME NEW i \in DOMAIN t, NEW j \in DOMAIN t, key[t[i]] = key[t[j]]
                 PROVE  i = j
    BY DEF Keyed
  <2>2. i + 1 \in DOMAIN c /\ j + 1 \in DOMAIN c /\ key[c[i + 1]] = key[c[j + 1]]
    BY <1>1, <1>3, <2>1
  <2>3. i + 1 = j + 1
    BY <2>2 DEF Keyed
  <2> QED BY <1>1, <1>4, <2>3
<1>6. ASSUME NEW i \in DOMAIN t, key[t[i]] = key[Head(c)] PROVE FALSE
  <2>1. i + 1 \in DOMAIN c /\ 1 \in DOMAIN c /\ i + 1 # 1 /\ key[c[i + 1]] = key[c[1]]
    BY <1>1, <1>2, <1>3, <1>4, <1>6
  <2> QED BY <2>1, Zenon DEF Keyed
<1> QED BY <1>5, <1>6 DEF t, Range

(* The last decision, and decisions of which only the last is final.        *)
Final(c) == c[Len(c)]

Proceed == "IMMEDIATELY_PROCEED"
EndsWithProceed(c) == \A i \in DOMAIN c : c[i].instruction = Proceed => i = Len(c)

(* After decisions to wait any decision may follow.                         *)
LEMMA AppendDecision ==
  ASSUME NEW S, NEW c \in Seq(S), NEW m \in S, \A x \in Range(c) : x.instruction # Proceed
  PROVE  /\ EndsWithProceed(Append(c, m)) /\ Final(Append(c, m)) = m /\ Append(c, m) # << >>
<1> DEFINE a == Append(c, m)
           n == Len(c)
<1>1. /\ DOMAIN c = 1..n /\ n \in Nat /\ DOMAIN a = 1..(n + 1) /\ Len(a) = n + 1
      /\ \A i \in 1..n : a[i] = c[i] /\ c[i] \in Range(c)
      /\ a[n + 1] = m /\ a # << >>
  BY AppendProperties, LenProperties DEF Range
<1> HIDE DEF a, n
<1>2. \A i \in 1..(n + 1) : i \in 1..n \/ i = n + 1
  BY <1>1
<1> QED BY <1>1, <1>2 DEF EndsWithProceed, Final, a

(* A decision is taken: the last stays the last, and nothing follows the    *)
(* one to proceed.                                                          *)
LEMMA TailDecision ==
  ASSUME NEW S, NEW c \in Seq(S), c # << >>, EndsWithProceed(c)
  PROVE  /\ EndsWithProceed(Tail(c))
         /\ Tail(c) # << >> => Final(Tail(c)) = Final(c)
         /\ Tail(c) = << >> => Head(c) = Final(c)
         /\ Head(c).instruction = Proceed => Tail(c) = << >>
<1> DEFINE t == Tail(c)
           n == Len(c)
<1>1. /\ n \in Nat \ {0} /\ DOMAIN c = 1..n /\ DOMAIN t = 1..(n - 1) /\ Len(t) = n - 1
      /\ \A i \in 1..(n - 1) : t[i] = c[i + 1]
      /\ t = << >> <=> n = 1
  <2>1. /\ n \in Nat \ {0} /\ DOMAIN c = 1..n /\ Len(t) = n - 1 /\ t \in Seq(S)
        /\ \A i \in 1..(n - 1) : t[i] = c[i + 1]
    BY HeadTailProperties, LenProperties, EmptySeq
  <2>2. t = << >> <=> Len(t) = 0
    <3> HIDE DEF t
    <3> QED BY <2>1, EmptySeq
  <2>3. DOMAIN t = 1..(n - 1)
    BY <2>1, LenProperties
  <2> HIDE DEF n, t
  <2> QED BY <2>1, <2>2, <2>3
<1>2. Head(c) = c[1]
  OBVIOUS
<1> HIDE DEF t, n
<1>3. \A i \in 1..(n - 1) : i + 1 \in 1..n /\ (i + 1 = n => i = n - 1)
  BY <1>1
<1>4. EndsWithProceed(t)
  BY <1>1, <1>3, Zenon DEF EndsWithProceed, n
<1>5. ASSUME n # 1 PROVE Final(t) = Final(c)
  <2>1. n - 1 \in 1..(n - 1) /\ (n - 1) + 1 = n
    BY <1>1, <1>5
  <2> QED BY <1>1, <2>1 DEF Final, n
<1>6. n = 1 => Head(c) = Final(c)
  BY <1>2 DEF Final, n
<1>7. Head(c).instruction = Proceed => n = 1
  <2>1. 1 \in DOMAIN c
    BY <1>1
  <2> QED BY <1>2, <2>1 DEF EndsWithProceed, n
<1> QED BY <1>1, <1>4, <1>5, <1>6, <1>7 DEF t

-----------------------------------------------------------------------------
(* The invariant.  A robot's part of it speaks of its adapter, of its own   *)
(* channels and of the tickets the node issued to it.                       *)

Req(r) == to_node[r].request
Clm(r) == to_node[r].claim
Rel(r) == to_node[r].release
Tkt(r) == to_robot[r].ticket
Dec(r) == to_robot[r].allocation

Request == [request_id : RequestIds, alternatives : Seq(LocationReq)]
ClaimMessage == [ticket : Tickets, wait_points : WaitLists]
TicketMessage == [type : {"ticket"}, ticket : Tickets, header : RequestHeader]
AllocationMessage ==
  [type : {"allocation"}, ticket : Tickets, instruction : {Proceed, "WAIT_IDENTIFIED"},
   chosen : Nat, resource : Locations]

Negotiator ==
  [state : {"None", "Pending", "Requested", "WaitPoint", "Immediate"},
   request_id : RequestIds, goals : Seq(Locations), ticket : Tickets \cup {NoTicket}]

ProtocolTypes ==
  /\ missions \in [Robots -> 0..MissionLimit]
  /\ negotiator \in [Robots -> Negotiator]
  /\ allocation \in [Robots -> [ticket : Tickets \cup {NoTicket},
                                resource : Locations \cup {Nowhere}]]
  /\ spot \in [Robots -> Locations \cup {Nowhere}]
  /\ to_node \in [Robots -> [request : Seq(Request), claim : Seq(ClaimMessage),
                             release : Seq(Tickets)]]
  /\ to_robot \in [Robots -> [ticket : Seq(TicketMessage), allocation : Seq(AllocationMessage)]]

(* The tickets issued to a robot.                                           *)
Own(r) == {t \in Issued : ticket_store.header[t] = r}

TicketOf == [m \in TicketMessage |-> m.ticket]
ClaimOf == [m \in ClaimMessage |-> m.ticket]

(* Whatever a robot and its channels name is a ticket of its own, and a     *)
(* ticket that its robot has not been told of, or whose claim is on its     *)
(* way, was never claimed: it is placed nowhere and waits for nothing.      *)
KnowsItsTickets(r) ==
  /\ negotiator[r].ticket \in Own(r) \cup {NoTicket}
  /\ allocation[r].ticket \in Own(r) \cup {NoTicket}
  /\ \A m \in Range(Tkt(r)) : m.ticket \in Own(r)
  /\ \A c \in Range(Clm(r)) : c.ticket \in Own(r)
  /\ \A d \in Range(Dec(r)) : d.ticket \in Own(r)
  /\ Range(Rel(r)) \subseteq Own(r)

NewToRobot(r, t) ==
  /\ Untouched(t)
  /\ t \notin Range(Rel(r)) /\ t # negotiator[r].ticket /\ t # allocation[r].ticket
  /\ \A c \in Range(Clm(r)) : c.ticket # t
  /\ \A d \in Range(Dec(r)) : d.ticket # t

ClaimsOnce(r) ==
  /\ Keyed(Tkt(r), TicketOf) /\ Keyed(Clm(r), ClaimOf)
  /\ \A m \in Range(Tkt(r)) : NewToRobot(r, m.ticket)
  /\ \A c \in Range(Clm(r)) : /\ Untouched(c.ticket)
                              /\ \A d \in Range(Dec(r)) : d.ticket # c.ticket

(* A list of alternatives names the goals that were kept.                   *)
Lists(r, list, goals) ==
  LET kept == KeptOf(r, goals)[Len(goals)]
  IN  DOMAIN list = DOMAIN kept /\ \A i \in DOMAIN list : list[i].location = kept[i]

(* What is on its way under the negotiator's request_id is about its goals, *)
(* and so is its ticket; the index that is chosen is one of the request.    *)
AnswersFit(r) ==
  LET n == negotiator[r]
  IN  /\ \A m \in Range(Req(r)) : m.request_id < missions[r]
      /\ \A m \in Range(Tkt(r)) : m.header.request_id < missions[r]
      /\ n.state # "None" =>
           /\ n.request_id < missions[r]
           /\ \A m \in Range(Req(r)) :
                m.request_id = n.request_id => Lists(r, m.alternatives, n.goals)
           /\ \A m \in Range(Tkt(r)) :
                m.header.request_id = n.request_id => Lists(r, requests[m.ticket], n.goals)
      /\ n.ticket # NoTicket => Lists(r, requests[n.ticket], n.goals)
      /\ \A d \in Range(Dec(r)) : d.instruction = Proceed =>
           d.chosen \in DOMAIN requests[d.ticket] /\ requests[d.ticket][d.chosen].location = d.resource

ProtocolInv ==
  /\ ServingInv /\ ProtocolTypes
  /\ \A r \in Robots : KnowsItsTickets(r) /\ ClaimsOnce(r) /\ AnswersFit(r)

(* Without cancellation: every request_id is in flight once, and only until *)
(* its ticket is there.                                                     *)
RequestId == [m \in Request |-> m.request_id]
TicketId == [m \in TicketMessage |-> m.header.request_id]

AsksOnce(r) ==
  LET n == negotiator[r]
  IN  /\ Keyed(Req(r), RequestId) /\ Keyed(Tkt(r), TicketId)
      /\ \A m \in Range(Req(r)), k \in Range(Tkt(r)) : m.request_id # k.header.request_id
      /\ n.state # "None" => n.request_id = missions[r] - 1
      /\ n.state # "None" /\ (n.state = "Pending" \/ n.ticket # NoTicket) =>
           /\ \A m \in Range(Req(r)) : m.request_id # n.request_id
           /\ \A m \in Range(Tkt(r)) : m.header.request_id # n.request_id
      /\ n.state \in {"None", "Pending"} => n.ticket = NoTicket
      /\ n.state \in {"WaitPoint", "Immediate"} => n.ticket # NoTicket

(* The adapter follows its negotiator's ticket: the claim, the decisions    *)
(* and the place in the queues are that ticket's, the decision to proceed   *)
(* is the last one, and a released ticket is neither the negotiator's nor   *)
(* the reservation manager's.                                               *)
Follows(r) ==
  LET n == negotiator[r]
      a == allocation[r]
  IN  /\ \A c \in Range(Clm(r)) : c.ticket = n.ticket /\ n.state = "Requested"
      /\ \A d \in Range(Dec(r)) : d.ticket = n.ticket /\ n.state \in {"Requested", "WaitPoint"}
      /\ \A t \in Own(r) : Waits(t) =>
           /\ t = n.ticket /\ n.state \in {"Requested", "WaitPoint"}
           /\ \A d \in Range(Dec(r)) : d.instruction # Proceed
      /\ EndsWithProceed(Dec(r))
      /\ Dec(r) # << >> => current_state.placed[n.ticket] = Final(Dec(r)).resource
      /\ n.ticket \notin Range(Rel(r)) /\ a.ticket \notin Range(Rel(r))
      /\ n.state = "Immediate" => a.ticket = n.ticket
      /\ n.state # "None" /\ (a.ticket # n.ticket \/ n.ticket = NoTicket) =>
           a.resource \notin Range(n.goals)

(* A ticket that holds a spot is the negotiator's, the reservation          *)
(* manager's, or on its way to be released.                                 *)
Remembers(r) ==
  \A t \in Own(r) : current_state.placed[t] # Nowhere =>
    t = negotiator[r].ticket \/ t = allocation[r].ticket \/ t \in Range(Rel(r))

FollowInv ==
  ProtocolInv /\ \A r \in Robots : AsksOnce(r) /\ Follows(r) /\ Remembers(r)

(* Without skipped goals: the spot a robot was told to drive to is held by  *)
(* its ticket, unless the next decision is on its way.                      *)
HoldsItsSpot(r) ==
  spot[r] # Nowhere =>
    \/ Dec(r) # << >>
    \/ \E t \in {negotiator[r].ticket, allocation[r].ticket} \ {NoTicket} :
         current_state.placed[t] = spot[r]

SpotInv == FollowInv /\ \A r \in Robots : HoldsItsSpot(r)

-----------------------------------------------------------------------------
(* What a step does to the channels                                         *)

SameToNode(r) == Req(r)' = Req(r) /\ Clm(r)' = Clm(r) /\ Rel(r)' = Rel(r)
SameToRobot(r) == Tkt(r)' = Tkt(r) /\ Dec(r)' = Dec(r)

(* The types of one robot's state and channels.                             *)
LEMMA RobotTypes ==
  ASSUME ProtocolTypes, NEW r \in Robots
  PROVE  /\ Req(r) \in Seq(Request) /\ Clm(r) \in Seq(ClaimMessage) /\ Rel(r) \in Seq(Tickets)
         /\ Tkt(r) \in Seq(TicketMessage) /\ Dec(r) \in Seq(AllocationMessage)
         /\ missions[r] \in Nat /\ missions[r] <= MissionLimit
         /\ negotiator[r] \in Negotiator
         /\ allocation[r].ticket \in Tickets \cup {NoTicket}
         /\ allocation[r].resource \in Locations \cup {Nowhere}
<1>1. missions[r] \in 0..MissionLimit /\ MissionLimit \in Nat
  BY ProtocolAssumption DEF ProtocolTypes
<1>2. missions[r] \in Nat /\ missions[r] <= MissionLimit
  BY <1>1
<1> QED BY <1>2 DEF ProtocolTypes, Req, Clm, Rel, Tkt, Dec

(* What a robot receives of a step of the node: its own tickets and the     *)
(* decisions about them.                                                    *)
LEMMA DeliverEffect ==
  ASSUME NodeStep, NEW r \in Robots
  PROVE  /\ published' = << >> => SameToRobot(r)
         /\ \A t, h : published' = <<TicketMsg(t, h)>> =>
              /\ Tkt(r)' = IF h.robot = r THEN Append(Tkt(r), TicketMsg(t, h)) ELSE Tkt(r)
              /\ Dec(r)' = Dec(r)
         /\ \A t, i, c, l : published' = <<Allocation(t, i, c, l)>> =>
              /\ Dec(r)' = IF ticket_store'.header[t] = r
                           THEN Append(Dec(r), Allocation(t, i, c, l)) ELSE Dec(r)
              /\ Tkt(r)' = Tkt(r)
<1>1. /\ Tkt(r)' = IF /\ published' # << >> /\ Head(published').type = "ticket"
                     /\ Addressee(Head(published'), ticket_store'.header) = r
                   THEN Append(Tkt(r), Head(published')) ELSE Tkt(r)
      /\ Dec(r)' = IF /\ published' # << >> /\ Head(published').type = "allocation"
                     /\ Addressee(Head(published'), ticket_store'.header) = r
                   THEN Append(Dec(r), Head(published')) ELSE Dec(r)
  BY DEF NodeStep, Deliver, Tkt, Dec
<1>2. \A m : Head(<<m>>) = m /\ <<m>> # << >>
  OBVIOUS
<1>3. ASSUME NEW t, NEW h
      PROVE  /\ TicketMsg(t, h).type = "ticket"
             /\ \A header : Addressee(TicketMsg(t, h), header) = h.robot
  BY DEF TicketMsg, Addressee
<1>4. ASSUME NEW t, NEW i, NEW c, NEW l
      PROVE  /\ Allocation(t, i, c, l).type = "allocation"
             /\ \A header : Addressee(Allocation(t, i, c, l), header) = header[t]
  BY DEF Allocation, Addressee
<1> QED BY <1>1, <1>2, <1>3, <1>4 DEF SameToRobot

(* The node takes one message of one robot.                                 *)
LEMMA ReceiveEffect ==
  ASSUME ProtocolTypes, NEW r \in Robots
  PROVE  /\ Receive(r, "request") =>
              /\ Req(r) # << >> /\ Req(r)' = Tail(Req(r)) /\ Clm(r)' = Clm(r) /\ Rel(r)' = Rel(r)
         /\ Receive(r, "claim") =>
              /\ Clm(r) # << >> /\ Clm(r)' = Tail(Clm(r)) /\ Req(r)' = Req(r) /\ Rel(r)' = Rel(r)
         /\ Receive(r, "release") =>
              /\ Rel(r) # << >> /\ Rel(r)' = Tail(Rel(r)) /\ Req(r)' = Req(r) /\ Clm(r)' = Clm(r)
         /\ \A topic : Receive(r, topic) => \A s \in Robots \ {r} : SameToNode(s)
<1>1. Receive(r, "request") =>
        Req(r) # << >> /\ Req(r)' = Tail(Req(r)) /\ Clm(r)' = Clm(r) /\ Rel(r)' = Rel(r)
  BY DEF Receive, Req, Clm, Rel, ProtocolTypes
<1>2. Receive(r, "claim") =>
        Clm(r) # << >> /\ Clm(r)' = Tail(Clm(r)) /\ Req(r)' = Req(r) /\ Rel(r)' = Rel(r)
  BY DEF Receive, Req, Clm, Rel, ProtocolTypes
<1>3. Receive(r, "release") =>
        Rel(r) # << >> /\ Rel(r)' = Tail(Rel(r)) /\ Req(r)' = Req(r) /\ Clm(r)' = Clm(r)
  BY DEF Receive, Req, Clm, Rel, ProtocolTypes
<1>4. ASSUME NEW topic, Receive(r, topic), NEW s \in Robots \ {r} PROVE SameToNode(s)
  <2>1. to_node'[s] = to_node[s]
    BY <1>4 DEF Receive, ProtocolTypes
  <2> QED BY <2>1 DEF SameToNode, Req, Clm, Rel
<1> QED BY <1>1, <1>2, <1>3, <1>4

(* A robot sends one message, on one topic.                                 *)
LEMMA PublishEffect ==
  ASSUME ProtocolTypes, NEW r \in Robots, NEW m
  PROVE  /\ Publish(r, "request", m) =>
              Req(r)' = Append(Req(r), m) /\ Clm(r)' = Clm(r) /\ Rel(r)' = Rel(r)
         /\ Publish(r, "claim", m) =>
              Clm(r)' = Append(Clm(r), m) /\ Req(r)' = Req(r) /\ Rel(r)' = Rel(r)
         /\ Publish(r, "release", m) =>
              Rel(r)' = Append(Rel(r), m) /\ Req(r)' = Req(r) /\ Clm(r)' = Clm(r)
         /\ \A topic : Publish(r, topic, m) => \A s \in Robots \ {r} : SameToNode(s)
<1> DEFINE node == to_node[r]
<1>1. /\ to_node \in [Robots -> [request : Seq(Request), claim : Seq(ClaimMessage),
                               release : Seq(Tickets)]]
      /\ DOMAIN node = {"request", "claim", "release"}
  BY DEF ProtocolTypes
<1>2. ASSUME NEW topic, Publish(r, topic, m)
      PROVE  /\ to_node'[r] = [node EXCEPT ![topic] = Append(@, m)]
             /\ \A s \in Robots \ {r} : SameToNode(s)
  <2>1. to_node' = [to_node EXCEPT ![r] = [node EXCEPT ![topic] = Append(@, m)]]
    BY <1>2 DEF Publish
  <2>2. \A s \in Robots \ {r} : to_node'[s] = to_node[s]
    BY <1>1, <2>1
  <2> QED BY <1>1, <2>1, <2>2 DEF SameToNode, Req, Clm, Rel
<1> HIDE DEF node
<1>3. ASSUME NEW topic \in {"request", "claim", "release"}, Publish(r, topic, m)
      PROVE  /\ to_node'[r][topic] = Append(node[topic], m)
             /\ \A other \in {"request", "claim", "release"} \ {topic} :
                  to_node'[r][other] = node[other]
  BY <1>1, <1>2, <1>3
<1> QED BY <1>2, <1>3 DEF Req, Clm, Rel, node

(* A robot takes one message, and no other robot does.                      *)
LEMMA ConsumeEffect ==
  ASSUME ProtocolTypes, NEW r \in Robots
  PROVE  /\ Consume(r, "ticket") => Tkt(r)' = Tail(Tkt(r)) /\ Dec(r)' = Dec(r)
         /\ Consume(r, "allocation") => Dec(r)' = Tail(Dec(r)) /\ Tkt(r)' = Tkt(r)
         /\ \A topic : Consume(r, topic) => \A s \in Robots \ {r} : SameToRobot(s)
<1>1. Consume(r, "ticket") => Tkt(r)' = Tail(Tkt(r)) /\ Dec(r)' = Dec(r)
  BY DEF Consume, Tkt, Dec, ProtocolTypes
<1>2. Consume(r, "allocation") => Dec(r)' = Tail(Dec(r)) /\ Tkt(r)' = Tkt(r)
  BY DEF Consume, Tkt, Dec, ProtocolTypes
<1>3. ASSUME NEW topic, Consume(r, topic), NEW s \in Robots \ {r} PROVE SameToRobot(s)
  <2>1. to_robot'[s] = to_robot[s]
    BY <1>3 DEF Consume, ProtocolTypes
  <2> QED BY <2>1 DEF SameToRobot, Tkt, Dec
<1> QED BY <1>1, <1>2, <1>3

(* The channels keep their types.                                           *)
ToNodeTypes ==
  to_node \in [Robots -> [request : Seq(Request), claim : Seq(ClaimMessage),
                          release : Seq(Tickets)]]
ToRobotTypes ==
  to_robot \in [Robots -> [ticket : Seq(TicketMessage), allocation : Seq(AllocationMessage)]]

(* The channels to the node stay typed when a message is sent or taken.     *)
LEMMA ToNodeStaysTyped ==
  ASSUME ProtocolTypes, NEW r \in Robots
  PROVE  /\ Receive(r, "request") \/ Receive(r, "claim") \/ Receive(r, "release") => ToNodeTypes'
         /\ \A m \in Request : Publish(r, "request", m) => ToNodeTypes'
         /\ \A m \in ClaimMessage : Publish(r, "claim", m) => ToNodeTypes'
         /\ \A m \in Tickets : Publish(r, "release", m) => ToNodeTypes'
<1> DEFINE Channels == [request : Seq(Request), claim : Seq(ClaimMessage), release : Seq(Tickets)]
<1>1. /\ to_node \in [Robots -> Channels]
      /\ Req(r) \in Seq(Request) /\ Clm(r) \in Seq(ClaimMessage) /\ Rel(r) \in Seq(Tickets)
  BY RobotTypes DEF ProtocolTypes
<1>2. ASSUME NEW x \in Channels, to_node' = [to_node EXCEPT ![r] = x] PROVE ToNodeTypes'
  <2>1. to_node' \in [Robots -> Channels]
    <3> HIDE DEF Channels
    <3> QED BY <1>1, <1>2
  <2> QED BY <2>1 DEF ToNodeTypes
<1>3. ASSUME NEW c \in Seq(Request), to_node' = [to_node EXCEPT ![r]["request"] = c]
      PROVE  ToNodeTypes'
  <2>1. [to_node[r] EXCEPT !["request"] = c] \in Channels
    BY <1>1
  <2>2. to_node' = [to_node EXCEPT ![r] = [to_node[r] EXCEPT !["request"] = c]]
    BY <1>1, <1>3
  <2> QED BY <1>2, <2>1, <2>2
<1>4. ASSUME NEW c \in Seq(ClaimMessage), to_node' = [to_node EXCEPT ![r]["claim"] = c]
      PROVE  ToNodeTypes'
  <2>1. [to_node[r] EXCEPT !["claim"] = c] \in Channels
    BY <1>1
  <2>2. to_node' = [to_node EXCEPT ![r] = [to_node[r] EXCEPT !["claim"] = c]]
    BY <1>1, <1>4
  <2> QED BY <1>2, <2>1, <2>2
<1>5. ASSUME NEW c \in Seq(Tickets), to_node' = [to_node EXCEPT ![r]["release"] = c]
      PROVE  ToNodeTypes'
  <2>1. [to_node[r] EXCEPT !["release"] = c] \in Channels
    BY <1>1
  <2>2. to_node' = [to_node EXCEPT ![r] = [to_node[r] EXCEPT !["release"] = c]]
    BY <1>1, <1>5
  <2> QED BY <1>2, <2>1, <2>2
<1>6. CASE Receive(r, "request")
  <2>1. Req(r) # << >> /\ to_node' = [to_node EXCEPT ![r]["request"] = Tail(Req(r))]
    BY <1>1, <1>6 DEF Receive, Req
  <2> QED BY <1>1, <1>3, <2>1, TailOfChannel
<1>7. CASE Receive(r, "claim")
  <2>1. Clm(r) # << >> /\ to_node' = [to_node EXCEPT ![r]["claim"] = Tail(Clm(r))]
    BY <1>1, <1>7 DEF Receive, Clm
  <2> QED BY <1>1, <1>4, <2>1, TailOfChannel
<1>8. CASE Receive(r, "release")
  <2>1. Rel(r) # << >> /\ to_node' = [to_node EXCEPT ![r]["release"] = Tail(Rel(r))]
    BY <1>1, <1>8 DEF Receive, Rel
  <2> QED BY <1>1, <1>5, <2>1, TailOfChannel
<1>9. ASSUME NEW m \in Request, Publish(r, "request", m) PROVE ToNodeTypes'
  <2>1. to_node' = [to_node EXCEPT ![r]["request"] = Append(Req(r), m)]
    BY <1>1, <1>9 DEF Publish, Req
  <2> QED BY <1>1, <1>3, <2>1, AppendToChannel
<1>10. ASSUME NEW m \in ClaimMessage, Publish(r, "claim", m) PROVE ToNodeTypes'
  <2>1. to_node' = [to_node EXCEPT ![r]["claim"] = Append(Clm(r), m)]
    BY <1>1, <1>10 DEF Publish, Clm
  <2> QED BY <1>1, <1>4, <2>1, AppendToChannel
<1>11. ASSUME NEW m \in Tickets, Publish(r, "release", m) PROVE ToNodeTypes'
  <2>1. to_node' = [to_node EXCEPT ![r]["release"] = Append(Rel(r), m)]
    BY <1>1, <1>11 DEF Publish, Rel
  <2> QED BY <1>1, <1>5, <2>1, AppendToChannel
<1> QED BY <1>6, <1>7, <1>8, <1>9, <1>10, <1>11

(* The channels to the robots stay typed when a message is delivered or     *)
(* taken.                                                                   *)
LEMMA ToRobotStaysTyped ==
  ASSUME ProtocolTypes
  PROVE  /\ \A r \in Robots : Tkt(r) # << >> /\ Consume(r, "ticket") => ToRobotTypes'
         /\ \A r \in Robots : Dec(r) # << >> /\ Consume(r, "allocation") => ToRobotTypes'
         /\ NodeStep /\ published' = << >> => ToRobotTypes'
         /\ NodeStep /\ (\E m \in TicketMessage : published' = <<m>>) => ToRobotTypes'
         /\ NodeStep /\ (\E m \in AllocationMessage : published' = <<m>>) => ToRobotTypes'
<1> DEFINE Channels == [ticket : Seq(TicketMessage), allocation : Seq(AllocationMessage)]
<1>1. /\ to_robot \in [Robots -> Channels]
      /\ \A r \in Robots : Tkt(r) \in Seq(TicketMessage) /\ Dec(r) \in Seq(AllocationMessage)
  BY RobotTypes DEF ProtocolTypes
<1>2. ASSUME NEW r \in Robots, Tkt(r) # << >>, Consume(r, "ticket") PROVE ToRobotTypes'
  <2>1. to_robot' = [to_robot EXCEPT ![r]["ticket"] = Tail(Tkt(r))]
    BY <1>1, <1>2 DEF Consume, Tkt
  <2>2. [to_robot[r] EXCEPT !["ticket"] = Tail(Tkt(r))] \in Channels
    <3>1. Tail(Tkt(r)) \in Seq(TicketMessage)
      BY <1>1, <1>2, TailOfChannel
    <3>2. \A c \in Seq(TicketMessage) : [to_robot[r] EXCEPT !["ticket"] = c] \in Channels
      BY <1>1
    <3> QED BY <3>1, <3>2
  <2>3. to_robot' = [to_robot EXCEPT ![r] = [to_robot[r] EXCEPT !["ticket"] = Tail(Tkt(r))]]
    BY <1>1, <2>1
  <2> HIDE DEF Channels
  <2>4. to_robot' \in [Robots -> Channels]
    BY <1>1, <2>2, <2>3
  <2> QED BY <2>4 DEF ToRobotTypes, Channels
<1>3. ASSUME NEW r \in Robots, Dec(r) # << >>, Consume(r, "allocation") PROVE ToRobotTypes'
  <2>1. to_robot' = [to_robot EXCEPT ![r]["allocation"] = Tail(Dec(r))]
    BY <1>1, <1>3 DEF Consume, Dec
  <2>2. [to_robot[r] EXCEPT !["allocation"] = Tail(Dec(r))] \in Channels
    <3>1. Tail(Dec(r)) \in Seq(AllocationMessage)
      BY <1>1, <1>3, TailOfChannel
    <3>2. \A c \in Seq(AllocationMessage) : [to_robot[r] EXCEPT !["allocation"] = c] \in Channels
      BY <1>1
    <3> QED BY <3>1, <3>2
  <2>3. to_robot' = [to_robot EXCEPT ![r] = [to_robot[r] EXCEPT !["allocation"] = Tail(Dec(r))]]
    BY <1>1, <2>1
  <2> HIDE DEF Channels
  <2>4. to_robot' \in [Robots -> Channels]
    BY <1>1, <2>2, <2>3
  <2> QED BY <2>4 DEF ToRobotTypes, Channels
<1>4. ASSUME NodeStep,
             \/ published' = << >>
             \/ \E m \in TicketMessage : published' = <<m>>
             \/ \E m \in AllocationMessage : published' = <<m>>
      PROVE  ToRobotTypes'
  <2>1. ASSUME NEW r \in Robots
        PROVE  /\ to_robot'[r]["ticket"] \in Seq(TicketMessage)
               /\ to_robot'[r]["allocation"] \in Seq(AllocationMessage)
    <3>1. /\ to_robot'[r]["ticket"] =
                IF /\ published' # << >> /\ Head(published').type = "ticket"
                   /\ Addressee(Head(published'), ticket_store'.header) = r
                THEN Append(Tkt(r), Head(published')) ELSE Tkt(r)
          /\ to_robot'[r]["allocation"] =
                IF /\ published' # << >> /\ Head(published').type = "allocation"
                   /\ Addressee(Head(published'), ticket_store'.header) = r
                THEN Append(Dec(r), Head(published')) ELSE Dec(r)
      BY <1>4 DEF NodeStep, Deliver, Tkt, Dec
    <3>2. /\ published' # << >> /\ Head(published').type = "ticket"
             => Head(published') \in TicketMessage
          /\ published' # << >> /\ Head(published').type = "allocation"
             => Head(published') \in AllocationMessage
      <4>1. \A m \in TicketMessage : m.type = "ticket"
        BY DEF TicketMessage
      <4>2. \A m \in AllocationMessage : m.type = "allocation"
        BY DEF AllocationMessage
      <4> QED BY <1>4, <4>1, <4>2
    <3> HIDE DEF Channels
    <3> QED BY <1>1, <3>1, <3>2, AppendToChannel
  <2>2. to_robot' = [r \in Robots |->
          [topic \in {"ticket", "allocation"} |-> to_robot'[r][topic]]]
    BY <1>4 DEF NodeStep, Deliver
  <2>3. \A r \in Robots : [topic \in {"ticket", "allocation"} |-> to_robot'[r][topic]] \in Channels
    BY <2>1
  <2> HIDE DEF Channels
  <2>4. to_robot' \in [Robots -> Channels]
    BY <2>2, <2>3
  <2> QED BY <2>4 DEF ToRobotTypes, Channels
<1> QED BY <1>2, <1>3, <1>4

-----------------------------------------------------------------------------
(* What a step leaves alone                                                 *)

(* Nothing about a robot's tickets changes at the node.                     *)
NodeFrame(r) ==
  /\ Own(r)' = Own(r)
  /\ \A t \in Own(r) : /\ current_state'.placed[t] = current_state.placed[t]
                       /\ Waits(t)' <=> Waits(t)
                       /\ requests'[t] = requests[t]

AdapterFrame(r) ==
  /\ missions'[r] = missions[r] /\ negotiator'[r] = negotiator[r]
  /\ allocation'[r] = allocation[r] /\ spot'[r] = spot[r]

Frame(r) == NodeFrame(r) /\ AdapterFrame(r) /\ SameToNode(r) /\ SameToRobot(r)

(* A robot that is left alone keeps its part of the invariant.              *)
LEMMA FrameKeepsBase ==
  ASSUME NEW r \in Robots, Frame(r), KnowsItsTickets(r), ClaimsOnce(r), AnswersFit(r),
         NoTicket \notin Issued
  PROVE  KnowsItsTickets(r)' /\ ClaimsOnce(r)' /\ AnswersFit(r)'
<1>1. KnowsItsTickets(r)'
  BY DEF Frame, NodeFrame, AdapterFrame, SameToNode, SameToRobot, KnowsItsTickets
<1>2. \A t \in Own(r) : Untouched(t)' <=> Untouched(t)
  BY DEF Frame, NodeFrame, Untouched
<1>3. ClaimsOnce(r)'
  <2>1. Keyed(Tkt(r), TicketOf)' /\ Keyed(Clm(r), ClaimOf)'
    BY DEF Frame, SameToNode, SameToRobot, ClaimsOnce, Keyed, TicketOf, ClaimOf, TicketMessage, ClaimMessage
  <2>2. \A m \in Range(Tkt(r)) : NewToRobot(r, m.ticket)'
    BY <1>2 DEF Frame, AdapterFrame, SameToNode, SameToRobot, ClaimsOnce, NewToRobot, KnowsItsTickets
  <2>3. \A c \in Range(Clm(r)) : /\ Untouched(c.ticket)'
                                /\ \A d \in Range(Dec(r)) : d.ticket # c.ticket
    BY <1>2 DEF ClaimsOnce, KnowsItsTickets
  <2> QED BY <2>1, <2>2, <2>3 DEF Frame, SameToNode, SameToRobot, ClaimsOnce
<1>4. AnswersFit(r)'
  <2>1. \A t \in Own(r) : requests'[t] = requests[t]
    BY DEF Frame, NodeFrame
  <2>2. \A t : t \in Own(r) => t # NoTicket
    BY DEF Own
  <2> QED BY <2>1, <2>2 DEF Frame, AdapterFrame, SameToNode, SameToRobot, AnswersFit, KnowsItsTickets, Lists
<1> QED BY <1>1, <1>3, <1>4

(* The same, of what holds without cancellation.                            *)
LEMMA FrameKeepsFollowing ==
  ASSUME ProtocolTypes, NEW r \in Robots, Frame(r), KnowsItsTickets(r),
         AsksOnce(r), Follows(r), Remembers(r)
  PROVE  AsksOnce(r)' /\ Follows(r)' /\ Remembers(r)' /\ (HoldsItsSpot(r) => HoldsItsSpot(r)')
<1>1. AsksOnce(r)'
  <2>1. Keyed(Req(r), RequestId)' /\ Keyed(Tkt(r), TicketId)'
    BY DEF Frame, SameToNode, SameToRobot, AsksOnce, Keyed, RequestId, TicketId, Request, TicketMessage
  <2> QED BY <2>1 DEF Frame, AdapterFrame, SameToNode, SameToRobot, AsksOnce
<1>2. Follows(r)'
  <2>1. Dec(r) # << >> =>
          current_state'.placed[negotiator[r].ticket] = current_state.placed[negotiator[r].ticket]
    <3>1. SUFFICES ASSUME Dec(r) # << >>
                   PROVE  current_state'.placed[negotiator[r].ticket] =
                            current_state.placed[negotiator[r].ticket]
      OBVIOUS
    <3>2. Head(Dec(r)) \in Range(Dec(r))
      BY <3>1, RobotTypes, TailOfChannel
    <3>3. negotiator[r].ticket \in Own(r)
      BY <3>2 DEF Follows, KnowsItsTickets
    <3> QED BY <3>3 DEF Frame, NodeFrame
  <2> QED BY <2>1 DEF Frame, NodeFrame, AdapterFrame, SameToNode, SameToRobot, Follows
<1>3. Remembers(r)'
  BY DEF Frame, NodeFrame, AdapterFrame, SameToNode, SameToRobot, Remembers
<1>4. HoldsItsSpot(r) => HoldsItsSpot(r)'
  BY DEF Frame, NodeFrame, AdapterFrame, SameToNode, SameToRobot, HoldsItsSpot, KnowsItsTickets
<1> QED BY <1>1, <1>2, <1>3, <1>4

(* A step on behalf of one ticket leaves the tickets of other robots alone; *)
(* another ticket of its robot may lose its place, and nothing else.        *)
OnlyTicket(t) ==
  /\ UNCHANGED <<ticket_store, requests>>
  /\ \A s \in Tickets \ {t} :
       /\ Waits(s)' <=> Waits(s)
       /\ \/ current_state'.placed[s] = current_state.placed[s]
          \/ /\ current_state'.placed[s] = Nowhere
             /\ ticket_store.header[s] = ticket_store.header[t]

(* claim_request acts on behalf of the ticket it is called with.            *)
LEMMA ClaimIsOfOneTicket ==
  ASSUME ServingInv, NEW t \in Issued, NEW w \in WaitLists, Untouched(t), ClaimRequest(t, w)
  PROVE  OnlyTicket(t)
<1>0. QueuesInv /\ NodeInv /\ t \in Tickets
  BY IssuedTypes DEF ServingInv, QueuesInv
<1>1. UNCHANGED <<ticket_store, requests>>
  BY DEF ClaimRequest
<1>2. current_state' = current_state \/ \E m : MovedTo(t, m)
  BY <1>0, ClaimEffect DEF Proceeds, WaitsAt, WaitsNowhere
<1>3. queues' = queues \/ Joins(t)
  BY <1>0, ClaimEffect DEF Proceeds, WaitsAt, WaitsNowhere
<1>4. \A s \in Tickets \ {t} : Waits(s)' <=> Waits(s)
  BY <1>0, <1>3, WaitsAfter
<1> QED BY <1>1, <1>2, <1>4 DEF OnlyTicket, MovedTo

(* So does release.                                                         *)
LEMMA ReleaseIsOfOneTicket ==
  ASSUME ServingInv, NEW t \in Issued, Release(t)
  PROVE  OnlyTicket(t)
<1>1. NodeInv /\ UNCHANGED <<ticket_store, requests, queues>>
  BY DEF ServingInv, QueuesInv, Release
<1> QED BY <1>1, ReleaseEffect DEF OnlyTicket, Waits

(* service_next_in_queue acts on behalf of the waiter it removes.           *)
LEMMA ServiceIsOfOneTicket ==
  ASSUME ServingInv, ServiceNext, NEW t \in Issued, Leaves(t), Dropped(t) \/ Served(t)
  PROVE  OnlyTicket(t)
<1>1. NodeInv /\ t \in Tickets /\ UNCHANGED <<ticket_store, requests>>
  BY IssuedTypes, ServiceEffect DEF ServingInv, QueuesInv
<1>2. \A s \in Tickets \ {t} : Waits(s)' <=> Waits(s)
  BY <1>1, WaitsAfter
<1>3. \A s \in Tickets \ {t} : current_state'.placed[s] = current_state.placed[s]
  BY DEF Dropped, Served, MovedToFree
<1> QED BY <1>1, <1>2, <1>3 DEF OnlyTicket

(* A step on behalf of one ticket leaves the tickets of all other robots    *)
(* alone.                                                                   *)
LEMMA OneTicketFrames ==
  ASSUME NodeInv, NEW r \in Robots, NEW t \in Own(r), OnlyTicket(t)
  PROVE  /\ \A s \in Robots \ {r} : NodeFrame(s)
         /\ Own(r)' = Own(r) /\ requests' = requests
         /\ \A u \in Own(r) \ {t} : Untouched(u) => Untouched(u)'
<1>1. Issued \subseteq Tickets /\ ticket_store' = ticket_store /\ requests' = requests
      /\ Issued' = Issued /\ ticket_store.header[t] = r
  BY IssuedTypes DEF OnlyTicket, Issued, Own
<1>2. \A s \in Robots : Own(s)' = Own(s)
  BY <1>1 DEF Own
<1>3. ASSUME NEW s \in Robots \ {r}, NEW u \in Own(s)
      PROVE  u \in Tickets \ {t} /\ ticket_store.header[u] # ticket_store.header[t]
  BY <1>1 DEF Own
<1>4. \A s \in Robots \ {r} : NodeFrame(s)
  BY <1>1, <1>2, <1>3 DEF NodeFrame, OnlyTicket
<1>5. ASSUME NEW u \in Own(r) \ {t}, Untouched(u) PROVE Untouched(u)'
  <2>1. u \in Tickets \ {t}
    BY <1>1 DEF Own
  <2> QED BY <1>5, <2>1 DEF OnlyTicket, Untouched
<1> QED BY <1>1, <1>2, <1>4, <1>5

(* What leaves the maps and the queues alone leaves all tickets alone.      *)
LEMMA QuietFrames ==
  ASSUME UNCHANGED <<ticket_store, requests, queues>>,
         current_state'.placed = current_state.placed, NEW r \in Robots
  PROVE  NodeFrame(r)
BY DEF NodeFrame, Own, Issued, Waits

(* An adapter leaves all tickets at the node alone.                         *)
LEMMA AdapterFrames ==
  ASSUME AdapterStep, NEW r \in Robots
  PROVE  /\ NodeFrame(r) /\ Own(r)' = Own(r)
         /\ \A t \in Own(r) : Untouched(t)' <=> Untouched(t)
         /\ requests' = requests /\ current_state' = current_state
<1>1. UNCHANGED <<ticket_store, requests, queues, current_state>>
  BY DEF AdapterStep
<1>2. NodeFrame(r)
  BY <1>1, QuietFrames
<1> QED BY <1>1, <1>2 DEF NodeFrame, Untouched

(* A request adds a ticket to its robot's, which it was not told of yet.     *)
LEMMA RequestFrames ==
  ASSUME NodeInv, NEW r \in Robots, NEW id, NEW a \in Seq(LocationReq), OnRequest(r, id, a)
  PROVE  /\ \A s \in Robots \ {r} : NodeFrame(s)
         /\ \E t \in Tickets \ Issued :
              /\ published' = <<TicketMsg(t, [robot |-> r, request_id |-> id])>>
              /\ requests'[t] = a
              /\ Own(r)' = Own(r) \cup {t}
              /\ Untouched(t)'
         /\ \A u \in Own(r) : requests'[u] = requests[u]
         /\ \A u : Untouched(u)' <=> Untouched(u)
         /\ current_state' = current_state
<1>1. UNCHANGED <<current_state, queues>>
  BY DEF OnRequest
<1>2. \A u : (Untouched(u)' <=> Untouched(u)) /\ (Waits(u)' <=> Waits(u))
  BY <1>1 DEF Untouched, Waits
<1>3. PICK t \in Tickets \ Issued :
        /\ Issued' = Issued \cup {t}
        /\ \A s \in Issued : /\ ticket_store'.header[s] = ticket_store.header[s]
                             /\ requests'[s] = requests[s]
        /\ ticket_store'.header[t] = r /\ requests'[t] = a
        /\ current_state.placed[t] = Nowhere /\ ~Waits(t)
        /\ published' = <<TicketMsg(t, [robot |-> r, request_id |-> id])>>
  BY RequestEffect
<1>4. \A s \in Robots \ {r} : Own(s)' = Own(s)
  BY <1>3 DEF Own
<1>5. Own(r)' = Own(r) \cup {t}
  BY <1>3 DEF Own
<1>6. \A s \in Robots \ {r} : NodeFrame(s)
  BY <1>1, <1>2, <1>3, <1>4 DEF NodeFrame, Own
<1> QED BY <1>1, <1>2, <1>3, <1>5, <1>6 DEF Untouched, Own

-----------------------------------------------------------------------------
(* Every step keeps the invariant                                           *)

RobotInv(r) == KnowsItsTickets(r) /\ ClaimsOnce(r) /\ AnswersFit(r)

(* What a step on behalf of one robot, or of nobody, comes to.              *)
Keeps == CarefulStep /\ ProtocolTypes' /\ \A s \in Robots : RobotInv(s)'
StepOf(r) == Keeps /\ \A s \in Robots \ {r} : Frame(s)
StepOfNobody == Keeps /\ \A s \in Robots : Frame(s)

(* Facts of the invariant that every action needs.                          *)
LEMMA ProtocolFacts ==
  ASSUME ProtocolInv
  PROVE  /\ ServingInv /\ QueuesInv /\ NodeInv /\ ProtocolTypes
         /\ Issued \subseteq Tickets /\ NoTicket \notin Tickets /\ NoTicket \notin Issued
         /\ Nowhere \notin Locations
         /\ \A r \in Robots : RobotInv(r) /\ Own(r) \subseteq Tickets
BY IssuedTypes, ConstantsAssumption
   DEF ProtocolInv, ServingInv, QueuesInv, RobotInv, Own, Tickets, NoTicket

(* A node step leaves every adapter alone, and the channels to the node     *)
(* that it does not take a message from.                                    *)
LEMMA NodeStepFrames ==
  ASSUME NodeStep, NEW r \in Robots
  PROVE  AdapterFrame(r)
BY DEF NodeStep, robotVars, AdapterFrame

(* The typed part of the invariant after a node step.                       *)
LEMMA NodeStepTypes ==
  ASSUME ProtocolTypes, NodeStep, ToNodeTypes', ToRobotTypes'
  PROVE  ProtocolTypes'
BY DEF ProtocolTypes, NodeStep, robotVars, ToNodeTypes, ToRobotTypes

(* A request is answered with a ticket that its robot has not been told of. *)
LEMMA OnRequestKeeps ==
  ASSUME ProtocolInv, NEW r \in Robots, NodeOnRequest(r)
  PROVE  StepOf(r)
<1>0. /\ ServingInv /\ NodeInv /\ ProtocolTypes /\ Issued \subseteq Tickets /\ NoTicket \notin Issued
      /\ \A s \in Robots : RobotInv(s) /\ Own(s) \subseteq Tickets
      /\ NoTicket \notin Tickets
  BY ProtocolFacts
<1> DEFINE q == Head(Req(r))
<1>1. /\ Req(r) # << >> /\ Req(r)' = Tail(Req(r)) /\ Clm(r)' = Clm(r) /\ Rel(r)' = Rel(r)
      /\ \A s \in Robots \ {r} : SameToNode(s)
      /\ ToNodeTypes'
  BY <1>0, ReceiveEffect, ToNodeStaysTyped DEF NodeOnRequest
<1>2. /\ q \in Request /\ Range(Req(r)) = Range(Req(r)') \cup {q}
  BY <1>0, <1>1, RobotTypes, TailOfChannel
<1>3. NodeStep /\ OnRequest(r, q.request_id, q.alternatives)
  BY DEF NodeOnRequest, Req
<1> HIDE DEF q
<1>4. q.alternatives \in Seq(LocationReq) /\ q.request_id \in RequestIds
  BY <1>2 DEF Request
<1>5. CarefulStep
  BY <1>3, <1>4 DEF CarefulStep
<1>6. /\ \A s \in Robots \ {r} : NodeFrame(s)
      /\ \A u \in Own(r) : requests'[u] = requests[u]
      /\ \A u : Untouched(u)' <=> Untouched(u)
  BY <1>0, <1>3, <1>4, RequestFrames
<1>7. PICK t \in Tickets \ Issued :
        /\ published' = <<TicketMsg(t, [robot |-> r, request_id |-> q.request_id])>>
        /\ requests'[t] = q.alternatives
        /\ Own(r)' = Own(r) \cup {t}
        /\ Untouched(t)'
  BY <1>0, <1>3, <1>4, RequestFrames
<1> DEFINE m == TicketMsg(t, [robot |-> r, request_id |-> q.request_id])
<1>8. /\ m \in TicketMessage /\ m.ticket = t /\ m.header.robot = r
      /\ m.header.request_id = q.request_id
  BY <1>4 DEF TicketMsg, TicketMessage, RequestHeader
<1>9. /\ Tkt(r)' = Append(Tkt(r), m) /\ Dec(r)' = Dec(r)
      /\ \A s \in Robots \ {r} : SameToRobot(s)
  BY <1>3, <1>7, DeliverEffect DEF SameToRobot
<1>10. published' = <<m>>
  BY <1>7
<1> HIDE DEF m
<1>11. ProtocolTypes'
  BY <1>0, <1>1, <1>3, <1>8, <1>10, ToRobotStaysTyped, NodeStepTypes
<1>12. Range(Tkt(r)') = Range(Tkt(r)) \cup {m} /\ Tkt(r) \in Seq(TicketMessage)
  BY <1>0, <1>8, <1>9, RobotTypes, AppendToChannel
<1>13. AdapterFrame(r) /\ \A s \in Robots \ {r} : Frame(s)
  BY <1>1, <1>3, <1>6, <1>9, NodeStepFrames DEF Frame
<1>14. \A s \in Robots \ {r} : RobotInv(s)'
  BY <1>0, <1>13, FrameKeepsBase DEF RobotInv
<1>15. KnowsItsTickets(r)'
  BY <1>0, <1>1, <1>7, <1>8, <1>9, <1>12, <1>13 DEF KnowsItsTickets, RobotInv, AdapterFrame
<1>16. t \notin Own(r) /\ t # NoTicket
  BY <1>0 DEF Own
<1>17. ClaimsOnce(r)'
  <2>1. Keyed(Tkt(r)', TicketOf)
    <3>1. \A x \in Range(Tkt(r)) : x \in TicketMessage /\ x.ticket # t
      BY <1>0, <1>12, <1>16, RangeTyped DEF RobotInv, KnowsItsTickets
    <3>2. \A x \in Range(Tkt(r)) : TicketOf[x] # TicketOf[m]
      BY <1>8, <3>1 DEF TicketOf
    <3> QED BY <1>0, <1>8, <1>9, <1>12, <3>2, AppendKeepsKeys DEF RobotInv, ClaimsOnce
  <2>2. NewToRobot(r, t)'
    BY <1>0, <1>1, <1>7, <1>9, <1>13, <1>16
       DEF NewToRobot, RobotInv, KnowsItsTickets, AdapterFrame
  <2>3. \A x \in Range(Tkt(r)) : NewToRobot(r, x.ticket)'
    BY <1>0, <1>1, <1>6, <1>9, <1>13 DEF NewToRobot, RobotInv, ClaimsOnce, AdapterFrame
  <2>4. Keyed(Clm(r), ClaimOf)'
    <3>1. Keyed(Clm(r), ClaimOf) /\ ClaimOf' = ClaimOf
      BY <1>0 DEF RobotInv, ClaimsOnce, ClaimOf, ClaimMessage
    <3> QED BY <1>1, <3>1 DEF Keyed
  <2>5. \A c \in Range(Clm(r)') : /\ Untouched(c.ticket)'
                                 /\ \A d \in Range(Dec(r)') : d.ticket # c.ticket
    BY <1>0, <1>1, <1>6, <1>9 DEF RobotInv, ClaimsOnce
  <2>6. \A x \in Range(Tkt(r)') : NewToRobot(r, x.ticket)'
    BY <1>8, <1>12, <2>2, <2>3
  <2>7. Keyed(Tkt(r), TicketOf)'
    BY <2>1 DEF TicketOf, TicketMessage
  <2> QED BY <2>4, <2>5, <2>6, <2>7 DEF ClaimsOnce
<1>18. AnswersFit(r)'
  <2>1. /\ missions'[r] = missions[r] /\ negotiator'[r] = negotiator[r]
        /\ q.request_id < missions[r]
    BY <1>0, <1>2, <1>13 DEF AdapterFrame, RobotInv, AnswersFit
  <2>2. \A u \in Own(r) \cup {NoTicket} : u # t
    BY <1>16
  <2>3. KnowsItsTickets(r) /\ AnswersFit(r)
    BY <1>0 DEF RobotInv
  <2>4. \A u \in Own(r) : requests'[u] = requests[u]
    BY <1>6
  <2>5. q \in Range(Req(r)) /\ Range(Req(r)') \subseteq Range(Req(r))
    BY <1>2
  <2> DEFINE n == negotiator[r]
  <2>6. /\ \A x \in Range(Req(r)') : x.request_id < missions[r]
        /\ \A x \in Range(Tkt(r)') : x.header.request_id < missions[r]
    BY <1>8, <1>12, <2>1, <2>3, <2>5 DEF AnswersFit
  <2>7. ASSUME n.state # "None"
        PROVE  /\ n.request_id < missions[r]
               /\ \A x \in Range(Req(r)') :
                    x.request_id = n.request_id => Lists(r, x.alternatives, n.goals)
               /\ \A x \in Range(Tkt(r)') :
                    x.header.request_id = n.request_id => Lists(r, requests'[x.ticket], n.goals)
    <3>1. \A x \in Range(Tkt(r)) : requests'[x.ticket] = requests[x.ticket]
      BY <2>3, <2>4 DEF KnowsItsTickets
    <3>2. \A x \in Range(Tkt(r)) :
            x.header.request_id = n.request_id => Lists(r, requests[x.ticket], n.goals)
      BY <2>3, <2>7 DEF AnswersFit
    <3>3. m.header.request_id = n.request_id => Lists(r, requests'[m.ticket], n.goals)
      BY <1>7, <1>8, <2>3, <2>5, <2>7 DEF AnswersFit
    <3>4. /\ n.request_id < missions[r]
          /\ \A x \in Range(Req(r)') :
               x.request_id = n.request_id => Lists(r, x.alternatives, n.goals)
      BY <2>3, <2>5, <2>7 DEF AnswersFit
    <3> HIDE DEF n
    <3> QED BY <1>12, <3>1, <3>2, <3>3, <3>4
  <2>8. n.ticket # NoTicket => Lists(r, requests'[n.ticket], n.goals)
    BY <2>3, <2>4 DEF AnswersFit, KnowsItsTickets
  <2>9. \A d \in Range(Dec(r)') : d.instruction = Proceed =>
           d.chosen \in DOMAIN requests'[d.ticket] /\ requests'[d.ticket][d.chosen].location = d.resource
    <3>1. \A d \in Range(Dec(r)) : requests'[d.ticket] = requests[d.ticket]
      BY <2>3, <2>4 DEF KnowsItsTickets
    <3> QED BY <1>9, <2>3, <3>1 DEF AnswersFit
  <2> QED BY <2>1, <2>6, <2>7, <2>8, <2>9 DEF AnswersFit, Lists
<1> QED BY <1>5, <1>11, <1>13, <1>14, <1>15, <1>17, <1>18 DEF RobotInv, StepOf, Keeps

(* A step of the node on behalf of one of a robot's tickets, which is not    *)
(* among those it has not been told of or is about to claim.                *)
Decides(t) ==
  \E i \in {Proceed, "WAIT_IDENTIFIED"}, c \in Nat, l \in Locations :
    /\ published' = <<Allocation(t, i, c, l)>>
    /\ i = Proceed => c \in DOMAIN requests[t] /\ requests[t][c].location = l

StaysUntouched(t) == published' = << >> /\ Untouched(t)'

(* The decision, when there is one, is delivered to the ticket's robot.     *)
LEMMA DecisionDelivered ==
  ASSUME NodeStep, NEW r \in Robots, NEW t \in Tickets, ticket_store'.header[t] = r,
         UNCHANGED requests, Dec(r) \in Seq(AllocationMessage), published' = << >> \/ Decides(t)
  PROVE  /\ \A s \in Robots \ {r} : SameToRobot(s)
         /\ Tkt(r)' = Tkt(r)
         /\ \/ published' = << >> /\ Dec(r)' = Dec(r)
            \/ \E d \in AllocationMessage :
                 /\ published' = <<d>> /\ d.ticket = t /\ Dec(r)' = Append(Dec(r), d)
                 /\ Range(Dec(r)') = Range(Dec(r)) \cup {d}
                 /\ d.instruction = Proceed => /\ d.chosen \in DOMAIN requests[t]
                                               /\ requests[t][d.chosen].location = d.resource
<1>1. CASE published' = << >>
  BY <1>1, DeliverEffect DEF SameToRobot
<1>2. CASE Decides(t)
  <2>1. PICK i \in {Proceed, "WAIT_IDENTIFIED"}, c \in Nat, l \in Locations :
          /\ published' = <<Allocation(t, i, c, l)>>
          /\ i = Proceed => c \in DOMAIN requests[t] /\ requests[t][c].location = l
    BY <1>2 DEF Decides
  <2> DEFINE d == Allocation(t, i, c, l)
  <2>2. /\ d \in AllocationMessage /\ d.ticket = t /\ d.instruction = i /\ d.chosen = c
        /\ d.resource = l
    BY DEF Allocation, AllocationMessage
  <2>3. /\ \A s \in Robots \ {r} : SameToRobot(s)
        /\ Tkt(r)' = Tkt(r) /\ Dec(r)' = Append(Dec(r), d)
    BY <2>1, DeliverEffect DEF SameToRobot
  <2>4. published' = <<d>>
    BY <2>1
  <2> HIDE DEF d
  <2>5. Range(Dec(r)') = Range(Dec(r)) \cup {d}
    BY <2>2, <2>3, AppendToChannel
  <2> QED BY <2>1, <2>2, <2>3, <2>4, <2>5
<1> QED BY <1>1, <1>2

(* A step on behalf of one ticket keeps its robot's part of the invariant,  *)
(* if it leaves the tickets alone that must stay untouched.                 *)
LEMMA OneTicketKeeps ==
  ASSUME ProtocolInv, NodeStep, NEW r \in Robots, NEW t \in Own(r), OnlyTicket(t),
         published' = << >> \/ Decides(t),
         ToNodeTypes', \A s \in Robots \ {r} : SameToNode(s), Req(r)' = Req(r),
         Range(Rel(r)') \subseteq Range(Rel(r)), Range(Clm(r)') \subseteq Range(Clm(r)),
         Keyed(Clm(r)', ClaimOf),
         \A x \in Range(Tkt(r)) : x.ticket # t \/ StaysUntouched(t),
         \A x \in Range(Clm(r)') : x.ticket # t \/ StaysUntouched(t)
  PROVE  /\ ProtocolTypes' /\ \A s \in Robots : RobotInv(s)'
         /\ \A s \in Robots \ {r} : Frame(s)
<1>0. /\ NodeInv /\ ProtocolTypes /\ Issued \subseteq Tickets /\ NoTicket \notin Issued
      /\ \A s \in Robots : RobotInv(s) /\ Own(s) \subseteq Tickets
  BY ProtocolFacts
<1>1. /\ \A s \in Robots \ {r} : NodeFrame(s)
      /\ Own(r)' = Own(r) /\ requests' = requests
      /\ \A u \in Own(r) \ {t} : Untouched(u) => Untouched(u)'
  BY <1>0, OneTicketFrames
<1>2. t \in Tickets /\ ticket_store'.header[t] = r
  BY <1>0 DEF Own, OnlyTicket
<1>3. /\ \A s \in Robots \ {r} : SameToRobot(s)
      /\ Tkt(r)' = Tkt(r)
      /\ \/ published' = << >> /\ Dec(r)' = Dec(r)
         \/ \E d \in AllocationMessage :
              /\ published' = <<d>> /\ d.ticket = t /\ Dec(r)' = Append(Dec(r), d)
              /\ Range(Dec(r)') = Range(Dec(r)) \cup {d}
              /\ d.instruction = Proceed => /\ d.chosen \in DOMAIN requests[t]
                                            /\ requests[t][d.chosen].location = d.resource
  BY <1>0, <1>1, <1>2, RobotTypes, DecisionDelivered
<1>4. ProtocolTypes'
  BY <1>0, <1>3, ToRobotStaysTyped, NodeStepTypes
<1>5. AdapterFrame(r) /\ \A s \in Robots \ {r} : Frame(s) /\ RobotInv(s)'
  BY <1>0, <1>1, <1>3, NodeStepFrames, FrameKeepsBase DEF Frame, RobotInv
<1>6. KnowsItsTickets(r) /\ ClaimsOnce(r) /\ AnswersFit(r)
  BY <1>0 DEF RobotInv
<1>7. \A d \in Range(Dec(r)') :
        d \in Range(Dec(r)) \/ (published' # << >> /\ d.ticket = t)
  BY <1>3
<1>8. KnowsItsTickets(r)'
  BY <1>1, <1>3, <1>5, <1>6, <1>7 DEF KnowsItsTickets, AdapterFrame
<1>9. ClaimsOnce(r)'
  <2>1. Keyed(Tkt(r), TicketOf)' /\ Keyed(Clm(r), ClaimOf)'
    BY <1>3, <1>6 DEF ClaimsOnce, Keyed, TicketOf, ClaimOf, TicketMessage, ClaimMessage
  <2>2. ASSUME NEW x \in Range(Tkt(r)) PROVE NewToRobot(r, x.ticket)'
    <3>1. NewToRobot(r, x.ticket) /\ x.ticket \in Own(r)
      BY <1>6, <2>2 DEF ClaimsOnce, KnowsItsTickets
    <3>2. Untouched(x.ticket)'
      BY <1>1, <2>2, <3>1 DEF NewToRobot, StaysUntouched
    <3>3. \A d \in Range(Dec(r)') : d.ticket # x.ticket
      BY <1>7, <2>2, <3>1 DEF NewToRobot, StaysUntouched
    <3> QED BY <1>5, <3>1, <3>2, <3>3 DEF NewToRobot, AdapterFrame
  <2>3. ASSUME NEW x \in Range(Clm(r)')
        PROVE  Untouched(x.ticket)' /\ \A d \in Range(Dec(r)') : d.ticket # x.ticket
    <3>1. /\ Untouched(x.ticket) /\ x.ticket \in Own(r)
          /\ \A d \in Range(Dec(r)) : d.ticket # x.ticket
      BY <1>6, <2>3 DEF ClaimsOnce, KnowsItsTickets
    <3>2. Untouched(x.ticket)'
      BY <1>1, <2>3, <3>1 DEF StaysUntouched
    <3>3. \A d \in Range(Dec(r)') : d.ticket # x.ticket
      BY <1>7, <2>3, <3>1 DEF StaysUntouched
    <3> QED BY <3>2, <3>3
  <2> QED BY <1>3, <2>1, <2>2, <2>3 DEF ClaimsOnce
<1>10. AnswersFit(r)'
  <2>1. \A d \in Range(Dec(r)') : d.instruction = Proceed =>
          d.chosen \in DOMAIN requests[d.ticket] /\ requests[d.ticket][d.chosen].location = d.resource
    BY <1>3, <1>6 DEF AnswersFit
  <2> QED BY <1>1, <1>3, <1>5, <1>6, <2>1 DEF AnswersFit, AdapterFrame, Lists
<1> QED BY <1>4, <1>5, <1>8, <1>9, <1>10 DEF RobotInv

(* The claim that was taken was the only one of its ticket.                 *)
LEMMA ClaimRequestKeeps ==
  ASSUME ProtocolInv, NEW r \in Robots, NodeClaimRequest(r)
  PROVE  StepOf(r)
<1>0. /\ ServingInv /\ QueuesInv /\ NodeInv /\ ProtocolTypes /\ RobotInv(r)
  BY ProtocolFacts
<1> DEFINE c == Head(Clm(r))
           t == c.ticket
<1>1. /\ Clm(r) # << >> /\ Clm(r)' = Tail(Clm(r)) /\ Req(r)' = Req(r) /\ Rel(r)' = Rel(r)
      /\ \A s \in Robots \ {r} : SameToNode(s)
      /\ ToNodeTypes'
  BY <1>0, ReceiveEffect, ToNodeStaysTyped DEF NodeClaimRequest
<1>2. /\ c \in ClaimMessage /\ Range(Clm(r)) = Range(Clm(r)') \cup {c}
      /\ Clm(r) \in Seq(ClaimMessage)
      /\ Clm(r)' \in Seq(ClaimMessage)
  BY <1>0, <1>1, RobotTypes, TailOfChannel
<1>3. NodeStep /\ ClaimRequest(t, c.wait_points)
  BY DEF NodeClaimRequest, Clm
<1> HIDE DEF c
<1>4. c.wait_points \in WaitLists /\ t \in Own(r) /\ Untouched(t) /\ t \in Issued
  BY <1>0, <1>2 DEF ClaimMessage, RobotInv, KnowsItsTickets, ClaimsOnce, Own
<1>5. CarefulStep
  BY <1>3, <1>4 DEF CarefulStep
<1>6. OnlyTicket(t)
  BY <1>0, <1>3, <1>4, ClaimIsOfOneTicket
<1>7. published' = << >> \/ Decides(t)
  <2>1. CASE Proceeds(t)
    <3>1. PICK i \in DOMAIN requests[t] :
            published' = <<Allocation(t, "IMMEDIATELY_PROCEED", i, requests[t][i].location)>>
      BY <2>1 DEF Proceeds
    <3>2. requests[t] \in Seq(LocationReq)
      BY <1>0, <1>4, IssuedTypes DEF NodeInv, NodeTypeOK
    <3>3. i \in Nat /\ requests[t][i].location \in Locations
      BY <3>2, ListIndices
    <3> QED BY <3>1, <3>3 DEF Decides, Proceed
  <2>2. CASE WaitsNowhere(t)
    BY <2>2 DEF WaitsNowhere
  <2>3. ASSUME NEW l \in Locations, WaitsAt(t, l) PROVE Decides(t)
    BY <2>3 DEF WaitsAt, Decides, Proceed
  <2> QED BY <1>0, <1>3, <1>4, <2>1, <2>2, <2>3, ClaimEffect
<1>8. /\ Keyed(Clm(r)', ClaimOf) /\ \A x \in Range(Clm(r)') : x.ticket # t
  <2>1. /\ Keyed(Clm(r)', ClaimOf) /\ \A x \in Range(Clm(r)') : ClaimOf[x] # ClaimOf[c]
    BY <1>0, <1>1, <1>2, TailKeepsKeys DEF RobotInv, ClaimsOnce, c
  <2>2. \A x \in Range(Clm(r)') : x \in ClaimMessage
    BY <1>2, RangeTyped
  <2> QED BY <1>2, <2>1, <2>2 DEF ClaimOf
<1>9. \A x \in Range(Tkt(r)) : x.ticket # t
  BY <1>0, <1>2 DEF RobotInv, ClaimsOnce, NewToRobot
<1> HIDE DEF t
<1> QED BY <1>1, <1>2, <1>3, <1>4, <1>5, <1>6, <1>7, <1>8, <1>9, OneTicketKeeps DEF StepOf, Keeps

(* The released ticket was told to its robot, and is not about to be        *)
(* claimed.                                                                 *)
LEMMA ReleaseKeeps ==
  ASSUME ProtocolInv, NEW r \in Robots, NodeRelease(r)
  PROVE  StepOf(r)
<1>0. /\ ServingInv /\ NodeInv /\ ProtocolTypes /\ RobotInv(r)
  BY ProtocolFacts
<1>1. /\ Rel(r) # << >> /\ Rel(r)' = Tail(Rel(r)) /\ Req(r)' = Req(r) /\ Clm(r)' = Clm(r)
      /\ \A s \in Robots \ {r} : SameToNode(s)
      /\ ToNodeTypes'
  BY <1>0, ReceiveEffect, ToNodeStaysTyped DEF NodeRelease
<1>2. Range(Rel(r)) = Range(Rel(r)') \cup {Head(Rel(r))}
  BY <1>0, <1>1, RobotTypes, TailOfChannel
<1>3. PICK t \in Own(r) : t = Head(Rel(r))
  BY <1>0, <1>2 DEF RobotInv, KnowsItsTickets
<1>4. /\ NodeStep /\ Release(t) /\ t \in Issued /\ t \in Tickets /\ t \in Range(Rel(r))
      /\ Range(Rel(r)') \subseteq Range(Rel(r))
  BY <1>0, <1>2, <1>3, IssuedTypes DEF Own, NodeRelease, Rel
<1>5. CarefulStep
  BY <1>4 DEF CarefulStep
<1>6. OnlyTicket(t) /\ published' = << >>
  BY <1>0, <1>4, ReleaseIsOfOneTicket, ReleaseEffect
<1>7. Untouched(t) => StaysUntouched(t)
  <2>1. current_state'.placed[t] = Nowhere /\ queues' = queues
    BY <1>0, <1>4, ReleaseEffect DEF Release
  <2>2. Waits(t)' <=> Waits(t)
    BY <2>1 DEF Waits
  <2> QED BY <1>6, <2>1, <2>2 DEF StaysUntouched, Untouched
<1>8. /\ \A x \in Range(Tkt(r)) : x.ticket # t
      /\ \A x \in Range(Clm(r)) : Untouched(x.ticket)
      /\ Keyed(Clm(r)', ClaimOf)
  BY <1>0, <1>1, <1>4 DEF RobotInv, ClaimsOnce, NewToRobot
<1>9. \A x \in Range(Clm(r)') : x.ticket # t \/ StaysUntouched(t)
  BY <1>1, <1>7, <1>8
<1> QED BY <1>1, <1>4, <1>5, <1>6, <1>8, <1>9, OneTicketKeeps DEF StepOf, Keeps

(* A step of the node's on nobody's behalf.                                 *)
LEMMA QuietKeeps ==
  ASSUME ProtocolInv, NodeStep, UNCHANGED <<ticket_store, requests, queues, to_node>>,
         current_state'.placed = current_state.placed, published' = << >>
  PROVE  ProtocolTypes' /\ \A s \in Robots : RobotInv(s)' /\ Frame(s)
<1>0. /\ ProtocolTypes /\ NoTicket \notin Issued /\ \A s \in Robots : RobotInv(s)
  BY ProtocolFacts
<1>1. \A s \in Robots : Frame(s)
  BY QuietFrames, NodeStepFrames, DeliverEffect DEF Frame, SameToNode, Req, Clm, Rel
<1>2. ProtocolTypes'
  <2>1. ToNodeTypes'
    BY <1>0 DEF ProtocolTypes, ToNodeTypes
  <2> QED BY <1>0, <2>1, ToRobotStaysTyped, NodeStepTypes
<1> QED BY <1>0, <1>1, <1>2, FrameKeepsBase DEF RobotInv

(* The spots become known: nobody's ticket changes.                         *)
LEMMA ReceivedGraphKeeps ==
  ASSUME ProtocolInv, NodeReceivedGraph
  PROVE  StepOfNobody
<1>1. ReceivedGraph /\ UNCHANGED to_node /\ NodeStep /\ current_state \in State
  BY ProtocolFacts DEF NodeReceivedGraph, NodeInv, NodeTypeOK
<1>2. /\ UNCHANGED <<ticket_store, requests, queues, to_node>> /\ published' = << >>
      /\ current_state'.placed = current_state.placed
  BY <1>1 DEF ReceivedGraph, State
<1> QED BY <1>1, <1>2, QuietKeeps DEF CarefulStep, StepOfNobody, Keeps

(* Serving a queue is a step of nobody, or on behalf of one waiter and its  *)
(* robot.                                                                   *)
LEMMA ServiceNextKeeps ==
  ASSUME ProtocolInv, NodeServiceNext
  PROVE  \/ StepOfNobody
         \/ \E r \in Robots : /\ StepOf(r)
                              /\ \E t \in Own(r) : Waits(t) /\ Leaves(t) /\ (Dropped(t) \/ Served(t))
<1>0. /\ ServingInv /\ NodeInv /\ ProtocolTypes
      /\ \A s \in Robots : RobotInv(s)
  BY ProtocolFacts
<1>1. ServiceNext /\ UNCHANGED to_node /\ NodeStep /\ CarefulStep
  BY DEF NodeServiceNext, CarefulStep
<1>2. /\ \A s \in Robots : SameToNode(s)
      /\ ToNodeTypes'
  BY <1>0, <1>1 DEF SameToNode, Req, Clm, Rel, ProtocolTypes, ToNodeTypes
<1>3. freed \in Locations /\ UNCHANGED <<ticket_store, requests>>
  BY <1>0, <1>1, ServiceEffect
<1>4. ASSUME LoopEnds PROVE StepOfNobody
  BY <1>1, <1>3, <1>4, QuietKeeps DEF LoopEnds, StepOfNobody, Keeps
<1>5. ASSUME NEW t \in Issued, Contains(queues[freed], t), Leaves(t), Dropped(t) \/ Served(t)
      PROVE  \E r \in Robots : StepOf(r) /\ \E u \in Own(r) :
               Waits(u) /\ Leaves(u) /\ (Dropped(u) \/ Served(u))
  <2>1. PICK r \in Robots : t \in Own(r) /\ t \in Tickets
    BY <1>0, IssuedTypes DEF NodeInv, OnlyIssued, Own
  <2>2. OnlyTicket(t) /\ Waits(t)
    BY <1>0, <1>1, <1>3, <1>5, ServiceIsOfOneTicket DEF Waits
  <2>3. published' = << >> \/ Decides(t)
    <3>1. CASE Dropped(t)
      BY <3>1 DEF Dropped
    <3>2. CASE Served(t)
      <4>1. PICK i \in DOMAIN requests[t] :
              published' = <<Allocation(t, "IMMEDIATELY_PROCEED", i, requests[t][i].location)>>
        BY <3>2 DEF Served
      <4>2. requests[t] \in Seq(LocationReq)
        BY <1>0, <2>1 DEF NodeInv, NodeTypeOK
      <4>3. i \in Nat /\ requests[t][i].location \in Locations
        BY <4>2, ListIndices
      <4> QED BY <4>1, <4>3 DEF Decides, Proceed
    <3> QED BY <1>5, <3>1, <3>2
  <2>4. Clm(r)' = Clm(r) /\ Rel(r)' = Rel(r) /\ Req(r)' = Req(r)
    BY <1>2, <2>1 DEF SameToNode
  <2>5. ClaimsOnce(r) /\ ~Untouched(t)
    BY <1>0, <2>1, <2>2 DEF RobotInv, Untouched
  <2>6. /\ \A x \in Range(Tkt(r)) : x.ticket # t
        /\ \A x \in Range(Clm(r)) : x.ticket # t
    BY <2>5 DEF ClaimsOnce, NewToRobot
  <2>7. Keyed(Clm(r)', ClaimOf)
    BY <2>4, <2>5 DEF ClaimsOnce
  <2>8. /\ Range(Rel(r)') \subseteq Range(Rel(r)) /\ Range(Clm(r)') \subseteq Range(Clm(r))
        /\ \A x \in Range(Clm(r)') : x.ticket # t
        /\ \A s \in Robots \ {r} : SameToNode(s)
    BY <1>2, <2>4, <2>6
  <2>9. StepOf(r)
    BY <1>1, <1>2, <2>1, <2>2, <2>3, <2>4, <2>6, <2>7, <2>8, OneTicketKeeps DEF StepOf, Keeps
  <2> QED BY <1>5, <2>1, <2>2, <2>9
<1> QED BY <1>0, <1>1, <1>4, <1>5, ServiceEffect

-----------------------------------------------------------------------------
(* The adapter's actions: one robot's state and channels change.            *)

OthersAlone(r) ==
  \A s \in Robots \ {r} : AdapterFrame(s) /\ SameToNode(s) /\ SameToRobot(s)

(* A step of one adapter is a step on behalf of its robot.                  *)
LEMMA AdapterKeeps ==
  ASSUME ProtocolInv, AdapterStep, ProtocolTypes', NEW r \in Robots, OthersAlone(r), RobotInv(r)'
  PROVE  StepOf(r)
<1>1. NoTicket \notin Issued /\ \A s \in Robots : RobotInv(s)
  BY ProtocolFacts
<1>2. \A s \in Robots \ {r} : Frame(s)
  BY AdapterFrames DEF OthersAlone, Frame
<1>3. \A s \in Robots \ {r} : RobotInv(s)'
  BY <1>1, <1>2, FrameKeepsBase DEF RobotInv
<1> QED BY <1>2, <1>3 DEF StepOf, Keeps, CarefulStep, ClientStep, AdapterStep

(* The tickets of a robot are not NoTicket.                                 *)
LEMMA OwnTickets ==
  ASSUME ProtocolInv, NEW r \in Robots
  PROVE  /\ NoTicket \notin Own(r) /\ Own(r) \subseteq Tickets
         /\ KnowsItsTickets(r) /\ ClaimsOnce(r) /\ AnswersFit(r)
BY ProtocolFacts DEF Own, RobotInv

(* A new negotiator has a request_id that was never used, and no ticket.    *)
LEMMA BeginKeeps ==
  ASSUME ProtocolInv, NEW r \in Robots, NEW goals \in GoalLists, BeginGoToPlace(r, goals)
  PROVE  StepOf(r)
<1>0. /\ ProtocolTypes /\ goals \in Seq(Locations) /\ MissionLimit \in Nat
      /\ missions[r] \in Nat /\ RequestIds = 0..(MissionLimit - 1)
  BY ProtocolFacts, RobotTypes, ProtocolAssumption
<1> DEFINE n == [state |-> "Pending", request_id |-> missions[r], goals |-> goals,
                 ticket |-> NoTicket]
<1>1. /\ negotiator' = [negotiator EXCEPT ![r] = n]
      /\ missions' = [missions EXCEPT ![r] = @ + 1] /\ missions[r] < MissionLimit
      /\ UNCHANGED <<allocation, spot, to_node, to_robot>> /\ AdapterStep
  BY DEF BeginGoToPlace
<1>2. /\ n \in Negotiator /\ n.ticket = NoTicket /\ n.request_id = missions[r]
      /\ missions[r] + 1 \in 0..MissionLimit
  BY <1>0, <1>1 DEF Negotiator
<1> HIDE DEF n
<1>3. /\ negotiator'[r] = n /\ missions'[r] = missions[r] + 1
      /\ \A s \in Robots \ {r} : negotiator'[s] = negotiator[s] /\ missions'[s] = missions[s]
      /\ negotiator' \in [Robots -> Negotiator] /\ missions' \in [Robots -> 0..MissionLimit]
  BY <1>0, <1>1, <1>2 DEF ProtocolTypes
<1>4. ProtocolTypes'
  BY <1>0, <1>1, <1>3 DEF ProtocolTypes
<1>5. /\ Req(r)' = Req(r) /\ Clm(r)' = Clm(r) /\ Rel(r)' = Rel(r) /\ Tkt(r)' = Tkt(r)
      /\ Dec(r)' = Dec(r) /\ allocation'[r] = allocation[r]
      /\ OthersAlone(r)
  BY <1>1, <1>3 DEF Req, Clm, Rel, Tkt, Dec, SameToNode, SameToRobot, OthersAlone, AdapterFrame
<1>6. /\ NoTicket \notin Own(r) /\ KnowsItsTickets(r) /\ ClaimsOnce(r) /\ AnswersFit(r)
      /\ Own(r)' = Own(r) /\ requests' = requests
      /\ \A t \in Own(r) : Untouched(t)' <=> Untouched(t)
  BY <1>1, OwnTickets, AdapterFrames
<1>7. KnowsItsTickets(r)'
  BY <1>2, <1>3, <1>5, <1>6 DEF KnowsItsTickets
<1>8. ClaimsOnce(r)'
  <2>1. Keyed(Tkt(r), TicketOf)' /\ Keyed(Clm(r), ClaimOf)'
    BY <1>5, <1>6 DEF ClaimsOnce, Keyed, TicketOf, ClaimOf, TicketMessage, ClaimMessage
  <2>2. \A x \in Range(Tkt(r)) : NewToRobot(r, x.ticket)'
    BY <1>2, <1>3, <1>5, <1>6 DEF ClaimsOnce, KnowsItsTickets, NewToRobot
  <2>3. \A x \in Range(Clm(r)) : Untouched(x.ticket)' /\ \A d \in Range(Dec(r)) : d.ticket # x.ticket
    BY <1>6 DEF ClaimsOnce, KnowsItsTickets
  <2> QED BY <1>5, <2>1, <2>2, <2>3 DEF ClaimsOnce
<1>9. AnswersFit(r)'
  <2>1. /\ \A x \in Range(Req(r)) : x \in Request
        /\ \A x \in Range(Tkt(r)) : x \in TicketMessage
    BY <1>0, RobotTypes, RangeTyped
  <2>2. /\ \A x \in Range(Req(r)) : x.request_id \in Nat
        /\ \A x \in Range(Tkt(r)) : x.header.request_id \in Nat
    BY <1>0, <2>1 DEF Request, TicketMessage, RequestHeader
  <2>3. /\ \A x \in Range(Req(r)) : x.request_id < missions[r]
        /\ \A x \in Range(Tkt(r)) : x.header.request_id < missions[r]
    BY <1>6 DEF AnswersFit
  <2>4. /\ \A x \in Range(Req(r)) : x.request_id < missions'[r] /\ x.request_id # n.request_id
        /\ \A x \in Range(Tkt(r)) : /\ x.header.request_id < missions'[r]
                                    /\ x.header.request_id # n.request_id
        /\ n.request_id < missions'[r]
    BY <1>0, <1>2, <1>3, <2>2, <2>3
  <2> QED BY <1>2, <1>3, <1>5, <1>6, <2>4 DEF AnswersFit, Lists
<1> QED BY <1>1, <1>4, <1>5, <1>7, <1>8, <1>9, AdapterKeeps DEF RobotInv

(* Only the negotiator's state changes, or it is dropped.                   *)
LEMMA NegotiatorChanges ==
  ASSUME ProtocolInv, NEW r \in Robots, NEW n \in Negotiator,
         negotiator' = [negotiator EXCEPT ![r] = n], AdapterStep,
         UNCHANGED <<missions, allocation, spot, to_node, to_robot>>,
         \/ n.state = "None" /\ n.ticket = NoTicket
         \/ /\ negotiator[r].state # "None"
            /\ n = [negotiator[r] EXCEPT !.state = n.state]
  PROVE  StepOf(r)
<1>0. ProtocolTypes
  BY ProtocolFacts
<1>1. \/ n.state = "None" /\ n.ticket = NoTicket
      \/ /\ negotiator[r].state # "None" /\ n.ticket = negotiator[r].ticket
         /\ n.request_id = negotiator[r].request_id /\ n.goals = negotiator[r].goals
  BY <1>0 DEF ProtocolTypes, Negotiator
<1>2. /\ negotiator'[r] = n /\ negotiator' \in [Robots -> Negotiator]
      /\ \A s \in Robots \ {r} : negotiator'[s] = negotiator[s]
  BY <1>0 DEF ProtocolTypes
<1>3. ProtocolTypes'
  BY <1>0, <1>2 DEF ProtocolTypes
<1>4. /\ Req(r)' = Req(r) /\ Clm(r)' = Clm(r) /\ Rel(r)' = Rel(r) /\ Tkt(r)' = Tkt(r)
      /\ Dec(r)' = Dec(r) /\ allocation'[r] = allocation[r] /\ missions'[r] = missions[r]
      /\ OthersAlone(r)
  BY <1>2 DEF Req, Clm, Rel, Tkt, Dec, SameToNode, SameToRobot, OthersAlone, AdapterFrame
<1>5. /\ NoTicket \notin Own(r) /\ KnowsItsTickets(r) /\ ClaimsOnce(r) /\ AnswersFit(r)
      /\ Own(r)' = Own(r) /\ requests' = requests
      /\ \A t \in Own(r) : Untouched(t)' <=> Untouched(t)
  BY OwnTickets, AdapterFrames
<1>6. KnowsItsTickets(r)'
  BY <1>1, <1>2, <1>4, <1>5 DEF KnowsItsTickets
<1>7. ClaimsOnce(r)'
  <2>1. Keyed(Tkt(r), TicketOf)' /\ Keyed(Clm(r), ClaimOf)'
    BY <1>4, <1>5 DEF ClaimsOnce, Keyed, TicketOf, ClaimOf, TicketMessage, ClaimMessage
  <2>2. \A x \in Range(Tkt(r)) : NewToRobot(r, x.ticket)'
    BY <1>1, <1>2, <1>4, <1>5 DEF ClaimsOnce, KnowsItsTickets, NewToRobot
  <2>3. \A x \in Range(Clm(r)) : Untouched(x.ticket)' /\ \A d \in Range(Dec(r)) : d.ticket # x.ticket
    BY <1>5 DEF ClaimsOnce, KnowsItsTickets
  <2> QED BY <1>4, <2>1, <2>2, <2>3 DEF ClaimsOnce
<1>8. AnswersFit(r)'
  BY <1>1, <1>2, <1>4, <1>5 DEF AnswersFit, Lists
<1> QED BY <1>3, <1>4, <1>6, <1>7, <1>8, AdapterKeeps DEF RobotInv

(* The absence of a negotiator is typed like one.                           *)
LEMMA NoNegotiatorTyped == NoNegotiator \in Negotiator
<1>1. 0 \in RequestIds
  BY ProtocolAssumption
<1> QED BY <1>1 DEF NoNegotiator, Negotiator

(* A task ends, or is cancelled: the negotiator is dropped.                 *)
LEMMA EndKeeps ==
  ASSUME ProtocolInv, NEW r \in Robots, Finish(r) \/ Cancel(r)
  PROVE  StepOf(r)
<1>1. /\ negotiator' = [negotiator EXCEPT ![r] = NoNegotiator] /\ AdapterStep
      /\ UNCHANGED <<missions, allocation, spot, to_node, to_robot>>
  BY DEF Finish, Cancel
<1>2. NoNegotiator \in Negotiator /\ NoNegotiator.state = "None" /\ NoNegotiator.ticket = NoTicket
  BY NoNegotiatorTyped DEF NoNegotiator
<1> HIDE DEF NoNegotiator
<1> QED BY <1>1, <1>2, NegotiatorChanges, Zenon

(* What make_request sends is a request for the goals it kept.              *)
LEMMA RequestIsTyped ==
  ASSUME ProtocolTypes, NEW r \in Robots, NEW cost \in [Locations -> Costs]
  PROVE  LET n == negotiator[r]
             kept == KeptOf(r, n.goals)[Len(n.goals)]
             list == [i \in DOMAIN kept |-> [location |-> kept[i], cost |-> cost[kept[i]]]]
         IN  /\ [request_id |-> n.request_id, alternatives |-> list] \in Request
             /\ Lists(r, list, n.goals)
<1> DEFINE n == negotiator[r]
           kept == KeptOf(r, n.goals)[Len(n.goals)]
           list == [i \in DOMAIN kept |-> [location |-> kept[i], cost |-> cost[kept[i]]]]
<1>1. n \in Negotiator /\ n.goals \in Seq(Locations)
  BY RobotTypes DEF Negotiator
<1>2. kept \in Seq(Locations)
  BY <1>1, KeptAreGoals
<1>3. DOMAIN kept = 1..Len(kept) /\ Len(kept) \in Nat /\ \A i \in 1..Len(kept) : kept[i] \in Locations
  BY <1>2, LenProperties, ElementOfSeq
<1>4. Lists(r, list, n.goals)
  BY DEF Lists
<1> HIDE DEF kept
<1>5. \A i \in DOMAIN kept : [location |-> kept[i], cost |-> cost[kept[i]]] \in LocationReq
  BY <1>3, ProtocolAssumption DEF LocationReq
<1>6. list \in Seq(LocationReq)
  BY <1>3, <1>5, IsASeq
<1>7. [request_id |-> n.request_id, alternatives |-> list] \in Request
  <2> HIDE DEF list
  <2> QED BY <1>1, <1>6 DEF Request, Negotiator
<1> QED BY <1>4, <1>7, Zenon DEF kept

(* The request lists the goals that are kept, in their order.               *)
LEMMA MakeRequestKeeps ==
  ASSUME ProtocolInv, NEW r \in Robots, NEW cost \in [Locations -> Costs], MakeRequest(r, cost)
  PROVE  StepOf(r)
<1> DEFINE n == negotiator[r]
           kept == KeptOf(r, n.goals)[Len(n.goals)]
           list == [i \in DOMAIN kept |-> [location |-> kept[i], cost |-> cost[kept[i]]]]
           m == [request_id |-> n.request_id, alternatives |-> list]
           after == [n EXCEPT !.state = "Requested"]
<1>0. /\ ProtocolTypes /\ n \in Negotiator /\ n.goals \in Seq(Locations)
  BY ProtocolFacts, RobotTypes DEF Negotiator
<1>1. /\ n.state = "Pending" /\ Publish(r, "request", m) /\ AdapterStep
      /\ negotiator' = [negotiator EXCEPT ![r].state = "Requested"]
      /\ UNCHANGED <<missions, allocation, spot, to_robot>>
  BY Zenon DEF MakeRequest
<1>2. /\ m \in Request /\ m.request_id = n.request_id /\ m.alternatives = list
      /\ Lists(r, list, n.goals)
  BY <1>0, RequestIsTyped, Zenon
<1>3. /\ after \in Negotiator /\ after.state = "Requested" /\ after.goals = n.goals
      /\ after.request_id = n.request_id /\ after.ticket = n.ticket
      /\ negotiator' = [negotiator EXCEPT ![r] = after]
  BY <1>0, <1>1 DEF Negotiator, ProtocolTypes
<1> HIDE DEF m, list, after
<1>4. /\ Req(r)' = Append(Req(r), m) /\ Clm(r)' = Clm(r) /\ Rel(r)' = Rel(r)
      /\ \A s \in Robots \ {r} : SameToNode(s)
      /\ ToNodeTypes'
  BY <1>0, <1>1, <1>2, PublishEffect, ToNodeStaysTyped
<1>5. /\ negotiator'[r] = after /\ negotiator' \in [Robots -> Negotiator]
      /\ \A s \in Robots \ {r} : negotiator'[s] = negotiator[s]
  BY <1>0, <1>3 DEF ProtocolTypes
<1>6. /\ Tkt(r)' = Tkt(r) /\ Dec(r)' = Dec(r) /\ allocation'[r] = allocation[r]
      /\ missions'[r] = missions[r] /\ OthersAlone(r)
  BY <1>1, <1>4, <1>5 DEF Tkt, Dec, SameToRobot, OthersAlone, AdapterFrame
<1>7. ProtocolTypes'
  BY <1>0, <1>1, <1>4, <1>5 DEF ProtocolTypes, ToNodeTypes
<1>8. Range(Req(r)') = Range(Req(r)) \cup {m}
  BY <1>0, <1>2, <1>4, RobotTypes, AppendToChannel
<1>9. /\ NoTicket \notin Own(r) /\ KnowsItsTickets(r) /\ ClaimsOnce(r) /\ AnswersFit(r)
      /\ Own(r)' = Own(r) /\ requests' = requests
      /\ \A t \in Own(r) : Untouched(t)' <=> Untouched(t)
  BY <1>1, OwnTickets, AdapterFrames
<1>10. KnowsItsTickets(r)'
  BY <1>3, <1>4, <1>5, <1>6, <1>9 DEF KnowsItsTickets
<1>11. ClaimsOnce(r)'
  <2>1. Keyed(Tkt(r), TicketOf)' /\ Keyed(Clm(r), ClaimOf)'
    BY <1>4, <1>6, <1>9 DEF ClaimsOnce, Keyed, TicketOf, ClaimOf, TicketMessage, ClaimMessage
  <2>2. \A x \in Range(Tkt(r)) : NewToRobot(r, x.ticket)'
    BY <1>3, <1>4, <1>5, <1>6, <1>9 DEF ClaimsOnce, KnowsItsTickets, NewToRobot
  <2>3. \A x \in Range(Clm(r)) : Untouched(x.ticket)' /\ \A d \in Range(Dec(r)) : d.ticket # x.ticket
    BY <1>9 DEF ClaimsOnce, KnowsItsTickets
  <2> QED BY <1>4, <1>6, <2>1, <2>2, <2>3 DEF ClaimsOnce
<1>12. AnswersFit(r)'
  BY <1>1, <1>2, <1>3, <1>5, <1>6, <1>8, <1>9 DEF AnswersFit, Lists
<1> QED BY <1>1, <1>6, <1>7, <1>10, <1>11, <1>12, AdapterKeeps DEF RobotInv

(* The ticket becomes the negotiator's and is claimed, which it never was.  *)
LEMMA OnTicketKeeps ==
  ASSUME ProtocolInv, NEW r \in Robots, NEW w \in WaitLists, OnTicket(r, w)
  PROVE  StepOf(r)
<1>0. /\ ProtocolTypes /\ negotiator[r] \in Negotiator
  BY ProtocolFacts, RobotTypes
<1>1. /\ Tkt(r) # << >> /\ Consume(r, "ticket") /\ AdapterStep
      /\ UNCHANGED <<missions, allocation, spot>>
  BY DEF OnTicket, Tkt
<1>2. /\ Tkt(r)' = Tail(Tkt(r)) /\ Dec(r)' = Dec(r) /\ ToRobotTypes'
      /\ \A s \in Robots \ {r} : SameToRobot(s)
      /\ allocation'[r] = allocation[r] /\ missions'[r] = missions[r]
  BY <1>0, <1>1, ConsumeEffect, ToRobotStaysTyped
<1>3. /\ NoTicket \notin Own(r) /\ KnowsItsTickets(r) /\ ClaimsOnce(r) /\ AnswersFit(r)
      /\ Own(r)' = Own(r) /\ requests' = requests
      /\ \A t \in Own(r) : Untouched(t)' <=> Untouched(t)
      /\ Own(r) \subseteq Tickets
  BY <1>1, OwnTickets, AdapterFrames
<1>4. PICK m \in Range(Tkt(r)) : m = Head(Tkt(r))
  BY <1>0, <1>1, RobotTypes, TailOfChannel
<1>5. /\ m \in TicketMessage /\ Range(Tkt(r)) = Range(Tkt(r)') \cup {m}
      /\ Keyed(Tkt(r)', TicketOf)
      /\ \A x \in Range(Tkt(r)') : x.ticket # m.ticket
  <2>1. /\ m \in TicketMessage /\ Range(Tkt(r)) = Range(Tkt(r)') \cup {m}
        /\ Tkt(r)' \in Seq(TicketMessage)
    BY <1>0, <1>1, <1>2, <1>4, RobotTypes, TailOfChannel
  <2>2. /\ Keyed(Tkt(r)', TicketOf)
        /\ \A x \in Range(Tkt(r)') : TicketOf[x] # TicketOf[m]
    BY <1>0, <1>1, <1>2, <1>3, <1>4, RobotTypes, TailKeepsKeys DEF ClaimsOnce
  <2>3. \A x \in Range(Tkt(r)') : x \in TicketMessage
    BY <2>1, RangeTyped
  <2> QED BY <2>1, <2>2, <2>3 DEF TicketOf
<1>6. m.ticket \in Own(r) /\ NewToRobot(r, m.ticket)
  BY <1>3 DEF KnowsItsTickets, ClaimsOnce
<1>7. CASE UNCHANGED <<negotiator, to_node>>
  <2>1. /\ Req(r)' = Req(r) /\ Clm(r)' = Clm(r) /\ Rel(r)' = Rel(r)
        /\ negotiator'[r] = negotiator[r] /\ OthersAlone(r)
    BY <1>1, <1>2, <1>7 DEF Req, Clm, Rel, SameToNode, OthersAlone, AdapterFrame
  <2>2. ProtocolTypes'
    BY <1>0, <1>1, <1>2, <1>7 DEF ProtocolTypes, ToRobotTypes
  <2>3. KnowsItsTickets(r)'
    BY <1>2, <1>3, <1>5, <2>1 DEF KnowsItsTickets
  <2>4. ClaimsOnce(r)'
    <3>1. Keyed(Tkt(r), TicketOf)' /\ Keyed(Clm(r), ClaimOf)'
      BY <1>3, <1>5, <2>1 DEF ClaimsOnce, Keyed, TicketOf, ClaimOf, TicketMessage, ClaimMessage
    <3>2. \A x \in Range(Tkt(r)) : NewToRobot(r, x.ticket)'
      BY <1>2, <1>3, <2>1 DEF ClaimsOnce, KnowsItsTickets, NewToRobot
    <3>3. \A x \in Range(Clm(r)) : Untouched(x.ticket)' /\ \A d \in Range(Dec(r)) : d.ticket # x.ticket
      BY <1>3 DEF ClaimsOnce, KnowsItsTickets
    <3> QED BY <1>2, <1>5, <2>1, <3>1, <3>2, <3>3 DEF ClaimsOnce
  <2>5. AnswersFit(r)'
    BY <1>2, <1>3, <1>5, <2>1 DEF AnswersFit, Lists
  <2> QED BY <1>1, <2>1, <2>2, <2>3, <2>4, <2>5, AdapterKeeps DEF RobotInv
<1>8. CASE /\ negotiator[r].state # "None"
           /\ m.header.request_id = negotiator[r].request_id
           /\ negotiator' = [negotiator EXCEPT ![r].ticket = m.ticket]
           /\ IF w = << >> THEN UNCHANGED to_node
              ELSE Publish(r, "claim", [ticket |-> m.ticket, wait_points |-> w])
  <2> DEFINE n == negotiator[r]
             after == [n EXCEPT !.ticket = m.ticket]
             c == [ticket |-> m.ticket, wait_points |-> w]
  <2>1. /\ after \in Negotiator /\ after.state = n.state /\ after.goals = n.goals
        /\ after.request_id = n.request_id /\ after.ticket = m.ticket
        /\ negotiator' = [negotiator EXCEPT ![r] = after]
    BY <1>0, <1>3, <1>6, <1>8 DEF Negotiator, ProtocolTypes
  <2>2. c \in ClaimMessage /\ c.ticket = m.ticket
    BY <1>3, <1>6 DEF ClaimMessage
  <2> HIDE DEF after, c
  <2>3. /\ negotiator'[r] = after /\ negotiator' \in [Robots -> Negotiator]
        /\ \A s \in Robots \ {r} : negotiator'[s] = negotiator[s]
    BY <1>0, <2>1 DEF ProtocolTypes
  <2>4. /\ Req(r)' = Req(r) /\ Rel(r)' = Rel(r) /\ ToNodeTypes'
        /\ \A s \in Robots \ {r} : SameToNode(s)
        /\ Clm(r)' = Clm(r) \/ Clm(r)' = Append(Clm(r), c)
    <3>1. CASE UNCHANGED to_node
      BY <1>0, <3>1 DEF Req, Clm, Rel, SameToNode, ToNodeTypes, ProtocolTypes
    <3>2. CASE Publish(r, "claim", c)
      BY <1>0, <2>2, <3>2, PublishEffect, ToNodeStaysTyped
    <3> QED BY <1>8, <3>1, <3>2 DEF c
  <2>5. ProtocolTypes' /\ OthersAlone(r)
    BY <1>0, <1>1, <1>2, <2>3, <2>4
       DEF ProtocolTypes, ToNodeTypes, ToRobotTypes, OthersAlone, AdapterFrame
  <2>6. Range(Clm(r)') \subseteq Range(Clm(r)) \cup {c}
    BY <1>0, <2>2, <2>4, RobotTypes, AppendToChannel, ZenonT(40)
  <2>7. Keyed(Clm(r)', ClaimOf)
    <3>1. \A x \in Range(Clm(r)) : x \in ClaimMessage /\ x.ticket # c.ticket
      BY <1>0, <1>6, <2>2, RobotTypes, RangeTyped DEF NewToRobot
    <3>2. \A x \in Range(Clm(r)) : ClaimOf[x] # ClaimOf[c]
      BY <2>2, <3>1 DEF ClaimOf
    <3>3. Keyed(Clm(r), ClaimOf) /\ Clm(r) \in Seq(ClaimMessage)
      BY <1>0, <1>3, RobotTypes DEF ClaimsOnce
    <3>4. Keyed(Append(Clm(r), c), ClaimOf)
      BY <2>2, <3>2, <3>3, AppendKeepsKeys
    <3> QED BY <2>4, <3>3, <3>4
  <2>8. KnowsItsTickets(r)'
    BY <1>2, <1>3, <1>5, <1>6, <2>1, <2>2, <2>3, <2>4, <2>6 DEF KnowsItsTickets
  <2>9. ClaimsOnce(r)'
    <3>1. Keyed(Tkt(r), TicketOf)' /\ Keyed(Clm(r), ClaimOf)'
      BY <1>5, <2>7 DEF Keyed, TicketOf, ClaimOf, TicketMessage, ClaimMessage
    <3>2. \A x \in Range(Tkt(r)') : NewToRobot(r, x.ticket)'
      BY <1>2, <1>3, <1>5, <2>1, <2>2, <2>3, <2>4, <2>6 DEF ClaimsOnce, KnowsItsTickets, NewToRobot
    <3>3. \A x \in Range(Clm(r)') : Untouched(x.ticket)' /\ \A d \in Range(Dec(r)) : d.ticket # x.ticket
      BY <1>3, <1>6, <2>2, <2>6 DEF ClaimsOnce, KnowsItsTickets, NewToRobot
    <3> QED BY <1>2, <3>1, <3>2, <3>3 DEF ClaimsOnce
  <2>10. AnswersFit(r)'
    <3>1. Lists(r, requests[m.ticket], n.goals)
      BY <1>3, <1>8 DEF AnswersFit
    <3> QED BY <1>2, <1>3, <1>5, <1>8, <2>1, <2>3, <2>4, <3>1 DEF AnswersFit, Lists
  <2> QED BY <1>1, <2>5, <2>8, <2>9, <2>10, AdapterKeeps DEF RobotInv
<1> QED BY <1>4, <1>7, <1>8 DEF OnTicket, Tkt

(* replace_ticket: what is recorded, and what is released.                  *)
LEMMA ReplaceTicketEffect ==
  ASSUME ProtocolInv, NEW r \in Robots, NEW d \in AllocationMessage, d.ticket \in Own(r),
         ReplaceTicket(r, d)
  PROVE  /\ \A s \in Robots \ {r} : SameToNode(s) /\ allocation'[s] = allocation[s]
         /\ ToNodeTypes' /\ Req(r)' = Req(r) /\ Clm(r)' = Clm(r)
         /\ allocation' \in [Robots -> [ticket : Tickets \cup {NoTicket},
                                        resource : Locations \cup {Nowhere}]]
         /\ \/ /\ allocation[r].ticket \notin {NoTicket, d.ticket}
               /\ d.resource = allocation[r].resource
               /\ allocation'[r] = allocation[r] /\ Rel(r)' = Rel(r)
            \/ /\ allocation[r].ticket \notin {NoTicket, d.ticket}
               /\ d.resource # allocation[r].resource
               /\ allocation'[r].ticket = d.ticket /\ allocation'[r].resource = d.resource
               /\ Range(Rel(r)') = Range(Rel(r)) \cup {allocation[r].ticket}
            \/ /\ allocation[r].ticket \in {NoTicket, d.ticket}
               /\ allocation'[r].ticket = d.ticket /\ allocation'[r].resource = d.resource
               /\ Rel(r)' = Rel(r)
<1> DEFINE held == allocation[r]
           new == [ticket |-> d.ticket, resource |-> d.resource]
           Kind == [ticket : Tickets \cup {NoTicket}, resource : Locations \cup {Nowhere}]
<1>0. /\ ProtocolTypes /\ held.ticket \in Own(r) \cup {NoTicket}
      /\ Own(r) \subseteq Tickets
  BY ProtocolFacts, OwnTickets DEF KnowsItsTickets
<1>1. /\ new \in Kind /\ new.ticket = d.ticket /\ new.resource = d.resource
      /\ allocation \in [Robots -> Kind]
  BY <1>0 DEF AllocationMessage, ProtocolTypes
<1> HIDE DEF new, Kind
<1>3. ASSUME UNCHANGED to_node
      PROVE  /\ \A s \in Robots \ {r} : SameToNode(s)
             /\ ToNodeTypes' /\ Req(r)' = Req(r) /\ Clm(r)' = Clm(r) /\ Rel(r)' = Rel(r)
  BY <1>0, <1>3 DEF Req, Clm, Rel, SameToNode, ToNodeTypes, ProtocolTypes
<1>4. ASSUME held.ticket \in Tickets, Publish(r, "release", held.ticket)
      PROVE  /\ \A s \in Robots \ {r} : SameToNode(s)
             /\ ToNodeTypes' /\ Req(r)' = Req(r) /\ Clm(r)' = Clm(r)
             /\ Range(Rel(r)') = Range(Rel(r)) \cup {held.ticket}
  <2>1. /\ \A s \in Robots \ {r} : SameToNode(s)
        /\ Req(r)' = Req(r) /\ Clm(r)' = Clm(r) /\ Rel(r)' = Append(Rel(r), held.ticket)
    BY <1>0, <1>4, PublishEffect
  <2>2. ToNodeTypes'
    BY <1>0, <1>4, ToNodeStaysTyped
  <2>3. Range(Append(Rel(r), held.ticket)) = Range(Rel(r)) \cup {held.ticket}
    BY <1>0, <1>4, RobotTypes, AppendToChannel
  <2> QED BY <2>1, <2>2, <2>3
<1>5. ASSUME allocation' = [allocation EXCEPT ![r] = new]
      PROVE  /\ allocation' \in [Robots -> Kind] /\ allocation'[r] = new
             /\ \A s \in Robots \ {r} : allocation'[s] = allocation[s]
  BY <1>1, <1>5
<1>6. CASE held.ticket \notin {NoTicket, d.ticket} /\ d.resource = held.resource
  <2>1. allocation' = allocation /\ UNCHANGED to_node
    BY <1>6 DEF ReplaceTicket
  <2> QED BY <1>1, <1>3, <1>6, <2>1 DEF Kind
<1>7. CASE held.ticket \notin {NoTicket, d.ticket} /\ d.resource # held.resource
  <2>1. allocation' = [allocation EXCEPT ![r] = new] /\ Publish(r, "release", held.ticket)
    BY <1>7 DEF ReplaceTicket, new
  <2>2. held.ticket \in Tickets
    BY <1>0, <1>7
  <2> QED BY <1>1, <1>4, <1>5, <1>7, <2>1, <2>2 DEF Kind
<1>8. CASE held.ticket \in {NoTicket, d.ticket}
  <2>1. allocation' = [allocation EXCEPT ![r] = new] /\ UNCHANGED to_node
    BY <1>8 DEF ReplaceTicket, new
  <2> QED BY <1>1, <1>3, <1>5, <1>8, <2>1 DEF Kind
<1> QED BY <1>6, <1>7, <1>8

(* What a robot is told: its negotiator's state and its spot.               *)
IsTold(r, d) ==
  \/ /\ d.instruction = Proceed
     /\ negotiator' = [negotiator EXCEPT ![r].state = "Immediate"]
     /\ spot' = [spot EXCEPT ![r] = negotiator[r].goals[d.chosen]]
  \/ /\ d.instruction = "WAIT_IDENTIFIED"
     /\ negotiator' = [negotiator EXCEPT ![r].state = "WaitPoint"]
     /\ spot' = [spot EXCEPT ![r] = d.resource]

(* The spot a robot is told of is a location: the chosen index is one of    *)
(* its goals.                                                               *)
LEMMA ToldEffect ==
  ASSUME ProtocolInv, NEW r \in Robots, NEW d \in Range(Dec(r)), d \in AllocationMessage,
         negotiator[r].ticket = d.ticket, negotiator[r].state # "None", IsTold(r, d)
  PROVE  /\ \A s \in Robots \ {r} : negotiator'[s] = negotiator[s] /\ spot'[s] = spot[s]
         /\ negotiator' \in [Robots -> Negotiator]
         /\ spot' \in [Robots -> Locations \cup {Nowhere}]
         /\ negotiator'[r].ticket = negotiator[r].ticket
         /\ negotiator'[r].request_id = negotiator[r].request_id
         /\ negotiator'[r].goals = negotiator[r].goals
         /\ negotiator'[r].state =
              IF d.instruction = Proceed THEN "Immediate" ELSE "WaitPoint"
         /\ d.instruction = Proceed =>
              LET kept == KeptOf(r, negotiator[r].goals)[Len(negotiator[r].goals)]
              IN  /\ spot'[r] = negotiator[r].goals[d.chosen]
                  /\ d.chosen \in DOMAIN kept /\ kept[d.chosen] = d.resource
         /\ d.instruction # Proceed => spot'[r] = d.resource
<1> DEFINE n == negotiator[r]
           kept == KeptOf(r, n.goals)[Len(n.goals)]
<1>0. /\ ProtocolTypes /\ n \in Negotiator /\ n.goals \in Seq(Locations)
      /\ n.ticket # NoTicket /\ AnswersFit(r)
      /\ d.resource \in Locations
  BY ProtocolFacts, RobotTypes, OwnTickets DEF Negotiator, KnowsItsTickets, AllocationMessage
<1>1. ASSUME NEW x \in {"Immediate", "WaitPoint"},
             negotiator' = [negotiator EXCEPT ![r].state = x]
      PROVE  /\ negotiator' \in [Robots -> Negotiator]
             /\ \A s \in Robots \ {r} : negotiator'[s] = negotiator[s]
             /\ negotiator'[r].ticket = n.ticket /\ negotiator'[r].state = x
             /\ negotiator'[r].request_id = n.request_id /\ negotiator'[r].goals = n.goals
  <2> DEFINE after == [n EXCEPT !.state = x]
  <2>1. /\ after \in Negotiator /\ after.state = x /\ after.goals = n.goals
        /\ after.request_id = n.request_id /\ after.ticket = n.ticket
        /\ negotiator' = [negotiator EXCEPT ![r] = after]
    BY <1>0, <1>1 DEF Negotiator, ProtocolTypes
  <2> HIDE DEF after
  <2> QED BY <1>0, <2>1 DEF ProtocolTypes
<1>2. ASSUME NEW l \in Locations, spot' = [spot EXCEPT ![r] = l]
      PROVE  /\ spot' \in [Robots -> Locations \cup {Nowhere}]
             /\ \A s \in Robots \ {r} : spot'[s] = spot[s]
             /\ spot'[r] = l
  BY <1>0, <1>2 DEF ProtocolTypes
<1>3. CASE d.instruction = Proceed
  <2>1. /\ Lists(r, requests[n.ticket], n.goals)
        /\ d.chosen \in DOMAIN requests[n.ticket]
        /\ requests[n.ticket][d.chosen].location = d.resource
    BY <1>0, <1>3 DEF AnswersFit
  <2>2. d.chosen \in DOMAIN kept /\ kept[d.chosen] = d.resource
    BY <2>1 DEF Lists
  <2>3. n.goals[d.chosen] \in Locations
    <3>1. kept \in Seq(Locations) /\ Len(kept) <= Len(n.goals)
      BY <1>0, KeptAreGoals
    <3> HIDE DEF kept
    <3>2. d.chosen \in 1..Len(n.goals)
      BY <1>0, <2>2, <3>1, LenProperties
    <3> QED BY <1>0, <3>2, ElementOfSeq
  <2>4. d.instruction # "WAIT_IDENTIFIED"
    BY <1>3 DEF Proceed
  <2> HIDE DEF kept
  <2> QED BY <1>1, <1>2, <1>3, <2>2, <2>3, <2>4 DEF IsTold, kept
<1>4. CASE d.instruction # Proceed
  <2>1. /\ negotiator' = [negotiator EXCEPT ![r].state = "WaitPoint"]
        /\ spot' = [spot EXCEPT ![r] = d.resource]
    BY <1>4 DEF IsTold
  <2> QED BY <1>0, <1>1, <1>2, <1>4, <2>1
<1> QED BY <1>3, <1>4

(* A decision is followed, and a ticket it replaces is released.            *)
LEMMA OnAllocationKeeps ==
  ASSUME ProtocolInv, NEW r \in Robots, OnAllocation(r)
  PROVE  StepOf(r)
<1>0. ProtocolTypes
  BY ProtocolFacts
<1>1. Dec(r) # << >> /\ Consume(r, "allocation") /\ AdapterStep /\ UNCHANGED missions
  BY DEF OnAllocation, Dec
<1>2. /\ Dec(r)' = Tail(Dec(r)) /\ Tkt(r)' = Tkt(r) /\ ToRobotTypes'
      /\ \A s \in Robots \ {r} : SameToRobot(s)
      /\ missions'[r] = missions[r]
  BY <1>0, <1>1, ConsumeEffect, ToRobotStaysTyped
<1>3. /\ NoTicket \notin Own(r) /\ KnowsItsTickets(r) /\ ClaimsOnce(r) /\ AnswersFit(r)
      /\ Own(r)' = Own(r) /\ requests' = requests
      /\ \A t \in Own(r) : Untouched(t)' <=> Untouched(t)
  BY <1>1, OwnTickets, AdapterFrames
<1>4. PICK d \in Range(Dec(r)) : d = Head(Dec(r))
  BY <1>0, <1>1, RobotTypes, TailOfChannel
<1>5. /\ d \in AllocationMessage /\ Range(Dec(r)) = Range(Dec(r)') \cup {d}
      /\ d.ticket \in Own(r)
  BY <1>0, <1>1, <1>2, <1>3, <1>4, RobotTypes, TailOfChannel DEF KnowsItsTickets
<1>6. ASSUME /\ Req(r)' = Req(r) /\ Clm(r)' = Clm(r) /\ OthersAlone(r)
             /\ negotiator'[r].ticket = negotiator[r].ticket
             /\ \/ negotiator'[r] = negotiator[r]
                \/ /\ negotiator'[r].request_id = negotiator[r].request_id
                   /\ negotiator'[r].goals = negotiator[r].goals
                   /\ negotiator[r].state # "None"
             /\ allocation'[r].ticket \in {allocation[r].ticket, d.ticket}
             /\ Range(Rel(r)') \subseteq Range(Rel(r)) \cup ({allocation[r].ticket} \ {NoTicket})
             /\ ProtocolTypes'
      PROVE  StepOf(r)
  <2>1. KnowsItsTickets(r)'
    BY <1>2, <1>3, <1>5, <1>6 DEF KnowsItsTickets
  <2>2. ClaimsOnce(r)'
    <3>1. Keyed(Tkt(r), TicketOf)' /\ Keyed(Clm(r), ClaimOf)'
      BY <1>2, <1>3, <1>6 DEF ClaimsOnce, Keyed, TicketOf, ClaimOf, TicketMessage, ClaimMessage
    <3>2. \A x \in Range(Tkt(r)) : NewToRobot(r, x.ticket)'
      BY <1>2, <1>3, <1>5, <1>6 DEF ClaimsOnce, KnowsItsTickets, NewToRobot
    <3>3. \A x \in Range(Clm(r)) : Untouched(x.ticket)' /\ \A k \in Range(Dec(r)) : k.ticket # x.ticket
      BY <1>3 DEF ClaimsOnce, KnowsItsTickets
    <3> QED BY <1>2, <1>5, <1>6, <3>1, <3>2, <3>3 DEF ClaimsOnce
  <2>3. AnswersFit(r)'
    BY <1>2, <1>3, <1>5, <1>6 DEF AnswersFit, Lists
  <2> QED BY <1>1, <1>6, <2>1, <2>2, <2>3, AdapterKeeps DEF RobotInv
<1>7. CASE UNCHANGED <<negotiator, allocation, spot, to_node>>
  <2>1. /\ Req(r)' = Req(r) /\ Clm(r)' = Clm(r) /\ Rel(r)' = Rel(r) /\ OthersAlone(r)
    BY <1>1, <1>2, <1>7 DEF Req, Clm, Rel, SameToNode, OthersAlone, AdapterFrame
  <2>2. ProtocolTypes'
    BY <1>0, <1>1, <1>2, <1>7 DEF ProtocolTypes, ToRobotTypes
  <2> QED BY <1>6, <1>7, <2>1, <2>2
<1>8. CASE /\ negotiator[r].state # "None" /\ negotiator[r].ticket = d.ticket
           /\ ReplaceTicket(r, d) /\ IsTold(r, d)
  <2>1. /\ \A s \in Robots \ {r} : SameToNode(s) /\ allocation'[s] = allocation[s]
        /\ ToNodeTypes' /\ Req(r)' = Req(r) /\ Clm(r)' = Clm(r)
        /\ allocation' \in [Robots -> [ticket : Tickets \cup {NoTicket},
                                       resource : Locations \cup {Nowhere}]]
        /\ allocation'[r].ticket \in {allocation[r].ticket, d.ticket}
        /\ Range(Rel(r)') \subseteq Range(Rel(r)) \cup ({allocation[r].ticket} \ {NoTicket})
    BY <1>5, <1>8, ReplaceTicketEffect
  <2>2. /\ \A s \in Robots \ {r} : negotiator'[s] = negotiator[s] /\ spot'[s] = spot[s]
        /\ negotiator' \in [Robots -> Negotiator]
        /\ spot' \in [Robots -> Locations \cup {Nowhere}]
        /\ negotiator'[r].ticket = negotiator[r].ticket
        /\ negotiator'[r].request_id = negotiator[r].request_id
        /\ negotiator'[r].goals = negotiator[r].goals
    BY <1>5, <1>8, ToldEffect
  <2>3. ProtocolTypes' /\ OthersAlone(r)
    BY <1>0, <1>1, <1>2, <2>1, <2>2
       DEF ProtocolTypes, ToNodeTypes, ToRobotTypes, OthersAlone, AdapterFrame
  <2> QED BY <1>6, <1>8, <2>1, <2>2, <2>3
<1> QED BY <1>4, <1>7, <1>8 DEF OnAllocation, IsTold, Proceed, Dec

-----------------------------------------------------------------------------
(* The whole specification                                                  *)

(* Nothing changes.                                                         *)
LEMMA StutterKeeps ==
  ASSUME ProtocolInv, UNCHANGED vars
  PROVE  StepOfNobody
<1>0. /\ ProtocolTypes /\ NoTicket \notin Issued /\ \A s \in Robots : RobotInv(s)
  BY ProtocolFacts
<1>1. UNCHANGED <<ticket_store, requests, current_state, queues, freed>>
  BY DEF vars, nodeVars
<1>2. UNCHANGED <<missions, negotiator, allocation, spot, to_node, to_robot>>
  BY DEF vars, robotVars
<1>3. \A s \in Robots : Frame(s)
  BY <1>1, <1>2, QuietFrames
     DEF Frame, AdapterFrame, SameToNode, SameToRobot, Req, Clm, Rel, Tkt, Dec
<1>4. ProtocolTypes'
  BY <1>0, <1>2 DEF ProtocolTypes
<1> QED BY <1>0, <1>1, <1>3, <1>4, FrameKeepsBase DEF RobotInv, CarefulStep, ClientStep, StepOfNobody, Keeps

(* Every step keeps the invariant, and claims no ticket twice.              *)
LEMMA StepKeeps ==
  ASSUME ProtocolInv, [Next]_vars
  PROVE  CarefulStep /\ ProtocolInv'
<1>1. CarefulStep /\ ProtocolTypes' /\ \A s \in Robots : RobotInv(s)'
  <2>1. CASE NodeActions \/ NodeReceivedGraph
    BY <2>1, ServiceNextKeeps, OnRequestKeeps, ClaimRequestKeeps, ReleaseKeeps, ReceivedGraphKeeps
       DEF NodeActions, StepOf, StepOfNobody, Keeps
  <2>2. ASSUME NEW r \in Robots,
               \/ \E goals \in GoalLists : BeginGoToPlace(r, goals)
               \/ Respond(r) \/ Finish(r) \/ Cancel(r)
        PROVE  CarefulStep /\ ProtocolTypes' /\ \A s \in Robots : RobotInv(s)'
    BY <2>2, BeginKeeps, MakeRequestKeeps, OnTicketKeeps, OnAllocationKeeps, EndKeeps
       DEF Respond, StepOf, Keeps
  <2> QED BY <2>1, <2>2, StutterKeeps DEF Next, StepOfNobody, Keeps
<1>2. ServingInv'
  BY <1>1, ProtocolFacts, CarefulKeepsServing
<1> QED BY <1>1, <1>2 DEF ProtocolInv, RobotInv

(* At first nothing is placed, waits or is on its way.                      *)
LEMMA ChannelsStartEmpty ==
  ASSUME Init, NEW r \in Robots
  PROVE  /\ Range(Req(r)) = {} /\ Range(Clm(r)) = {} /\ Range(Rel(r)) = {}
         /\ Range(Tkt(r)) = {} /\ Range(Dec(r)) = {}
         /\ Keyed(Tkt(r), TicketOf) /\ Keyed(Clm(r), ClaimOf)
<1>1. /\ Req(r) = << >> /\ Clm(r) = << >> /\ Rel(r) = << >>
      /\ Tkt(r) = << >> /\ Dec(r) = << >>
  BY DEF Init, Req, Clm, Rel, Tkt, Dec
<1>2. DOMAIN << >> = {}
  OBVIOUS
<1> QED BY <1>1, <1>2 DEF Range, Keyed

(* The initial state satisfies the invariant.                               *)
LEMMA ProtocolInitially == Init => ProtocolInv
<1> SUFFICES ASSUME Init PROVE ProtocolInv
  OBVIOUS
<1>1. /\ QueuesInv /\ \A l \in Locations : queues[l] = << >>
      /\ freed = Nowhere
  BY InitEstablishesQueues DEF Init, NodeInit
<1>2. ServingInv
  <2>1. DOMAIN << >> = {}
    OBVIOUS
  <2>2. \A t \in Tickets : ~Waits(t)
    BY <1>1, <2>1 DEF Waits, Contains
  <2> QED BY <1>1, <2>2 DEF ServingInv, WaitsElsewhere, FreedIsFree
<1>3. ProtocolTypes
  <2>1. \A S : << >> \in Seq(S)
    OBVIOUS
  <2>2. to_node \in [Robots -> [request : Seq(Request), claim : Seq(ClaimMessage),
                                release : Seq(Tickets)]]
    BY <2>1 DEF Init
  <2>3. to_robot \in [Robots -> [ticket : Seq(TicketMessage), allocation : Seq(AllocationMessage)]]
    BY <2>1 DEF Init
  <2>4. missions \in [Robots -> 0..MissionLimit]
    BY ProtocolAssumption DEF Init
  <2>5. negotiator \in [Robots -> Negotiator]
    BY NoNegotiatorTyped DEF Init
  <2> QED BY <2>2, <2>3, <2>4, <2>5 DEF Init, NoAllocation, ProtocolTypes
<1>4. ASSUME NEW r \in Robots PROVE RobotInv(r)
  <2>1. /\ negotiator[r].state = "None" /\ negotiator[r].ticket = NoTicket
        /\ allocation[r].ticket = NoTicket
    BY DEF Init, NoNegotiator, NoAllocation
  <2> QED BY <2>1, ChannelsStartEmpty DEF RobotInv, KnowsItsTickets, ClaimsOnce, AnswersFit
<1> QED BY <1>2, <1>3, <1>4 DEF ProtocolInv, RobotInv

(* Whatever the robots and the node do, what their channels carry belongs   *)
(* to the robot, tickets are claimed once, and answers fit their questions. *)
THEOREM ProtocolInvariant == Spec => []ProtocolInv
BY ProtocolInitially, StepKeeps, PTL DEF Spec

(* The variables of the node and of the adapters keep their types; the      *)
(* index a robot uses on its goals is in their range.                       *)
THEOREM ProtocolTypesHold == Spec => []TypeOK
<1>1. ProtocolInv => TypeOK
  BY DEF ProtocolInv, ServingInv, QueuesInv, NodeInv, ProtocolTypes, TypeOK, Negotiator
<1> QED BY <1>1, ProtocolInvariant, PTL

(* With its clients' real behaviour the node implements the ledger too: a   *)
(* spot never passes from one robot to another without having been free.    *)
THEOREM ProtocolImplementsLedger == Spec => LedgerSpec
<1>1. Init => Ledger!Init
  BY NodeInitially DEF Init
<1>2. ProtocolInv /\ [Next]_vars => [Ledger!Next]_([l \in Locations |-> Owner(l)])
  <2>1. CarefulStep => AnyNodeStep
    BY DEF CarefulStep, AnyNodeStep
  <2> QED BY <2>1, StepKeeps, ProtocolFacts, NodeStepPreserves
<1> QED BY <1>1, <1>2, ProtocolInvariant, PTL DEF Spec, LedgerSpec, Ledger!Spec

(* A ticket loses its spot only for another one that the same step          *)
(* publishes, by a release its own robot sent, or to a newer ticket of the  *)
(* same robot: also with cancellations, and whatever is skipped.            *)
THEOREM NobodyIsEvicted == Spec => KeepsItsSpot
<1>1. ProtocolInv /\ [Next]_vars => [\A t \in Tickets : LosesFairly(t)]_vars
  BY StepKeeps, ProtocolFacts, CarefulStepIsFair
<1> QED BY <1>1, ProtocolInvariant, PTL DEF Spec, KeepsItsSpot, LosesFairly

(* At first nobody waits for a location.                                    *)
LEMMA NothingIsWantedAtFirst == Init => FreeUnwanted
<1>1. DOMAIN << >> = {}
  OBVIOUS
<1> QED BY <1>1 DEF Init, NodeInit, FreeUnwanted, Contains

(* While everybody who waits has a place to wait at, a location that is     *)
(* free has no queue: whoever claims later cannot overtake.  A waiter       *)
(* without a place ends the loop that serves a queue, and does not leave    *)
(* the location to the next one.                                            *)
THEOREM NoOvertaking == Spec /\ []WaitersArePlaced => []NobodyIsOvertaken
<1>1. Init => FreeUnwanted
  BY NothingIsWantedAtFirst
<1>2. ProtocolInv /\ FreeUnwanted /\ WaitersArePlaced /\ [Next]_vars => FreeUnwanted'
  BY StepKeeps, ProtocolFacts, NobodyOvertakes
<1>3. ProtocolInv /\ FreeUnwanted => NobodyIsOvertaken
  <2> SUFFICES ASSUME ProtocolInv, FreeUnwanted, NEW l \in Locations,
                      current_state.holder[l] = NoTicket, freed = Nowhere, queues[l] # << >>
               PROVE  FALSE
    BY DEF NobodyIsOvertaken
  <2>1. queues[l] \in Seq(Tickets) /\ l # freed
    BY ProtocolFacts DEF NodeInv, NodeTypeOK
  <2>2. Head(queues[l]) \in Tickets /\ Head(queues[l]) \in Range(queues[l])
    BY <2>1, TailOfChannel
  <2> QED BY <2>1, <2>2 DEF FreeUnwanted, Contains, Range
<1> QED BY <1>1, <1>2, <1>3, ProtocolInvariant, PTL DEF Spec

-----------------------------------------------------------------------------
(* Without cancellation, and when no robot is sent to the spot it has: who  *)
(* follows a ticket.                                                        *)

FollowsAll(r) == AsksOnce(r) /\ Follows(r) /\ Remembers(r)

(* A robot's part of the invariants after a step: the last needs that no    *)
(* goal of the robot is skipped.                                            *)
FollowsOn(r) ==
  FollowsAll(r)' /\ (Skipped[r] = {} /\ HoldsItsSpot(r) => HoldsItsSpot(r)')

(* What the two parts of the invariant say about a robot, together with     *)
(* that a channel is empty when nothing is in it.                           *)
LEMMA FollowFacts ==
  ASSUME FollowInv, NEW r \in Robots
  PROVE  /\ ProtocolInv /\ ServingInv /\ NodeInv /\ ProtocolTypes /\ FollowsAll(r)
         /\ KnowsItsTickets(r) /\ ClaimsOnce(r) /\ AnswersFit(r)
         /\ NoTicket \notin Own(r) /\ Own(r) \subseteq Tickets
         /\ negotiator[r] \in Negotiator
         /\ Dec(r) \in Seq(AllocationMessage) /\ (Range(Dec(r)) = {} <=> Dec(r) = << >>)
<1>1. ProtocolInv /\ FollowsAll(r)
  BY DEF FollowInv, FollowsAll
<1>2. negotiator[r] \in Negotiator /\ Dec(r) \in Seq(AllocationMessage)
  BY <1>1, ProtocolFacts, RobotTypes
<1>3. Range(Dec(r)) = {} <=> Dec(r) = << >>
  <2>1. Dec(r) = << >> => Range(Dec(r)) = {}
    BY DEF Range
  <2>2. Dec(r) # << >> => Head(Dec(r)) \in Range(Dec(r))
    BY <1>2, TailOfChannel
  <2> QED BY <2>1, <2>2
<1> QED BY <1>1, <1>2, <1>3, ProtocolFacts, OwnTickets

(* Steps that leave a robot's requests and tickets in flight alone.         *)
LEMMA AskingStays ==
  ASSUME NEW r \in Robots, AsksOnce(r), Req(r)' = Req(r), Tkt(r)' = Tkt(r), AdapterFrame(r)
  PROVE  AsksOnce(r)'
<1>1. Keyed(Req(r), RequestId)' /\ Keyed(Tkt(r), TicketId)'
  BY DEF AsksOnce, Keyed, RequestId, TicketId, Request, TicketMessage
<1> QED BY <1>1 DEF AsksOnce, AdapterFrame

(* A request is answered: its id goes from one channel to the other.        *)
LEMMA OnRequestFollows ==
  ASSUME FollowInv, NEW r \in Robots, NodeOnRequest(r)
  PROVE  FollowsOn(r)
<1>0. /\ ProtocolInv /\ NodeInv /\ ProtocolTypes /\ FollowsAll(r) /\ KnowsItsTickets(r)
      /\ NoTicket \notin Own(r) /\ Issued \subseteq Tickets /\ NodeStep
  BY FollowFacts, ProtocolFacts DEF NodeOnRequest
<1>1. /\ Req(r) # << >> /\ Req(r)' = Tail(Req(r)) /\ Clm(r)' = Clm(r) /\ Rel(r)' = Rel(r)
      /\ Req(r) \in Seq(Request) /\ Tkt(r) \in Seq(TicketMessage)
  BY <1>0, ReceiveEffect, RobotTypes DEF NodeOnRequest
<1>2. PICK q \in Range(Req(r)) : q = Head(Req(r))
  BY <1>1, TailOfChannel
<1>3. /\ q \in Request /\ Range(Req(r)) = Range(Req(r)') \cup {q}
      /\ Req(r)' \in Seq(Request)
      /\ OnRequest(r, q.request_id, q.alternatives)
  BY <1>1, <1>2, TailOfChannel DEF NodeOnRequest, Req
<1>4. q.alternatives \in Seq(LocationReq) /\ q.request_id \in RequestIds
  BY <1>3 DEF Request
<1>5. PICK t \in Tickets \ Issued :
        /\ published' = <<TicketMsg(t, [robot |-> r, request_id |-> q.request_id])>>
        /\ Own(r)' = Own(r) \cup {t}
        /\ Untouched(t)'
  BY <1>0, <1>3, <1>4, RequestFrames
<1>6. /\ current_state' = current_state /\ queues' = queues
      /\ \A u : Waits(u)' <=> Waits(u)
  BY <1>3 DEF OnRequest, Waits
<1> DEFINE m == TicketMsg(t, [robot |-> r, request_id |-> q.request_id])
<1>7. /\ m \in TicketMessage /\ m.header.robot = r /\ m.header.request_id = q.request_id
  BY <1>4 DEF TicketMsg, TicketMessage, RequestHeader
<1>8. Tkt(r)' = Append(Tkt(r), m) /\ Dec(r)' = Dec(r)
  BY <1>0, <1>5, DeliverEffect
<1> HIDE DEF m
<1>9. Range(Tkt(r)') = Range(Tkt(r)) \cup {m}
  BY <1>1, <1>7, <1>8, AppendToChannel
<1>10. AdapterFrame(r)
  BY <1>0, NodeStepFrames
<1>11. AsksOnce(r)'
  <2>1. AsksOnce(r)
    BY <1>0 DEF FollowsAll
  <2>2. /\ Keyed(Req(r)', RequestId)
        /\ \A x \in Range(Req(r)') : x.request_id # q.request_id
    <3>1. /\ Keyed(Req(r)', RequestId)
          /\ \A x \in Range(Req(r)') : RequestId[x] # RequestId[q]
      BY <1>1, <1>2, <2>1, TailKeepsKeys DEF AsksOnce
    <3>2. \A x \in Range(Req(r)') : x \in Request
      BY <1>3, RangeTyped
    <3> QED BY <1>3, <3>1, <3>2 DEF RequestId
  <2>3. Keyed(Tkt(r)', TicketId)
    <3>1. \A x \in Range(Tkt(r)) : x \in TicketMessage /\ x.header.request_id # q.request_id
      BY <1>1, <2>1, RangeTyped DEF AsksOnce
    <3>2. \A x \in Range(Tkt(r)) : TicketId[x] # TicketId[m]
      BY <1>7, <3>1 DEF TicketId
    <3>3. Keyed(Append(Tkt(r), m), TicketId)
      BY <1>1, <1>7, <2>1, <3>2, AppendKeepsKeys DEF AsksOnce
    <3> QED BY <1>8, <3>3
  <2>4. Keyed(Req(r), RequestId)' /\ Keyed(Tkt(r), TicketId)'
    BY <2>2, <2>3 DEF Keyed, RequestId, TicketId, Request, TicketMessage
  <2> QED BY <1>3, <1>7, <1>9, <1>10, <2>1, <2>2, <2>4 DEF AsksOnce, AdapterFrame
<1>12. Follows(r)'
  BY <1>0, <1>1, <1>5, <1>6, <1>8, <1>10 DEF FollowsAll, Follows, AdapterFrame, Untouched
<1>13. Remembers(r)'
  BY <1>0, <1>1, <1>5, <1>6, <1>10 DEF FollowsAll, Remembers, AdapterFrame, Untouched
<1>14. HoldsItsSpot(r) => HoldsItsSpot(r)'
  BY <1>6, <1>8, <1>10 DEF HoldsItsSpot, AdapterFrame
<1> QED BY <1>11, <1>12, <1>13, <1>14 DEF FollowsOn, FollowsAll

(* The first decision about a ticket, or the one to proceed after others.   *)
LEMMA DecisionFollows ==
  ASSUME FollowInv, NEW r \in Robots, NodeStep,
         NEW t \in Own(r), t = negotiator[r].ticket, OnlyTicket(t), Req(r)' = Req(r), Rel(r)' = Rel(r),
         Range(Clm(r)') \subseteq Range(Clm(r)),
         negotiator[r].state \in {"Requested", "WaitPoint"},
         Range(Clm(r)') # {} => negotiator[r].state = "Requested",
         NEW d \in AllocationMessage, d.ticket = t,
         published' = <<d>>, Dec(r)' = Append(Dec(r), d), Tkt(r)' = Tkt(r),
         \A x \in Range(Dec(r)) : x.instruction # Proceed,
         d.instruction = Proceed => ~Waits(t)',
         current_state'.placed[t] = d.resource
  PROVE  FollowsOn(r)
<1>0. /\ NodeInv /\ FollowsAll(r) /\ KnowsItsTickets(r) /\ Own(r) \subseteq Tickets
      /\ Dec(r) \in Seq(AllocationMessage)
  BY FollowFacts
<1>1. AdapterFrame(r)
  BY NodeStepFrames
<1>2. AsksOnce(r)'
  BY <1>0, <1>1, AskingStays DEF FollowsAll
<1>3. /\ Own(r)' = Own(r) /\ negotiator'[r] = negotiator[r] /\ allocation'[r] = allocation[r]
      /\ spot'[r] = spot[r]
      /\ \A u \in Own(r) \ {t} :
           /\ Waits(u)' <=> Waits(u)
           /\ \/ current_state'.placed[u] = current_state.placed[u]
              \/ current_state'.placed[u] = Nowhere
  BY <1>0, <1>1, OneTicketFrames DEF AdapterFrame, OnlyTicket
<1>4. /\ EndsWithProceed(Append(Dec(r), d)) /\ Final(Append(Dec(r), d)) = d
      /\ Append(Dec(r), d) # << >> /\ Range(Append(Dec(r), d)) = Range(Dec(r)) \cup {d}
  BY <1>0, AppendDecision, AppendToChannel
<1>5. EndsWithProceed(Dec(r)') /\ Final(Dec(r)') = d /\ Range(Dec(r)') = Range(Dec(r)) \cup {d}
      /\ Dec(r)' # << >>
  BY <1>4
<1>6. Follows(r)'
  <2>1. \A u \in Own(r) : Waits(u)' => u = t /\ d.instruction # Proceed
    BY <1>0, <1>3 DEF FollowsAll, Follows
  <2>2. current_state'.placed[t] = d.resource /\ t = negotiator'[r].ticket
    BY <1>3
  <2>3. Final(Dec(r))' = d /\ EndsWithProceed(Dec(r))'
    BY <1>5 DEF Final, EndsWithProceed
  <2> QED BY <1>0, <1>3, <1>5, <2>1, <2>2, <2>3 DEF FollowsAll, Follows
<1>7. Remembers(r)'
  BY <1>0, <1>3 DEF FollowsAll, Remembers
<1>8. HoldsItsSpot(r)'
  BY <1>5 DEF HoldsItsSpot
<1> QED BY <1>2, <1>6, <1>7, <1>8 DEF FollowsOn, FollowsAll

(* When its negotiator's ticket is new to a robot's channels, they are      *)
(* empty.                                                                   *)
LEMMA NothingElseInFlight ==
  ASSUME FollowInv, NEW r \in Robots, NEW c \in Range(Clm(r))
  PROVE  /\ c.ticket = negotiator[r].ticket /\ negotiator[r].state = "Requested"
         /\ Dec(r) = << >>
<1>1. /\ Follows(r) /\ ClaimsOnce(r) /\ (Range(Dec(r)) = {} <=> Dec(r) = << >>)
  BY FollowFacts DEF FollowsAll
<1> QED BY <1>1 DEF Follows, ClaimsOnce

(* The claim of the negotiator's ticket is decided on, or its ticket waits. *)
LEMMA ClaimRequestFollows ==
  ASSUME FollowInv, NEW r \in Robots, NodeClaimRequest(r)
  PROVE  FollowsOn(r)
<1>0. /\ ProtocolInv /\ ServingInv /\ QueuesInv /\ NodeInv /\ ProtocolTypes /\ FollowsAll(r)
      /\ KnowsItsTickets(r) /\ ClaimsOnce(r) /\ NodeStep /\ Own(r) \subseteq Tickets
      /\ NoTicket \notin Own(r) /\ Dec(r) \in Seq(AllocationMessage)
      /\ (Range(Dec(r)) = {} <=> Dec(r) = << >>)
  BY FollowFacts, ProtocolFacts DEF NodeClaimRequest
<1>1. /\ Clm(r) # << >> /\ Clm(r)' = Tail(Clm(r)) /\ Req(r)' = Req(r) /\ Rel(r)' = Rel(r)
      /\ Clm(r) \in Seq(ClaimMessage)
  BY <1>0, ReceiveEffect, RobotTypes DEF NodeClaimRequest
<1>2. PICK c \in Range(Clm(r)) : c = Head(Clm(r))
  BY <1>1, TailOfChannel
<1>3. PICK t \in Own(r) : t = c.ticket
  BY <1>0 DEF KnowsItsTickets
<1>4. /\ c \in ClaimMessage /\ Range(Clm(r)) = Range(Clm(r)') \cup {c}
      /\ ClaimRequest(t, c.wait_points) /\ c.wait_points \in WaitLists
  <2>1. c \in ClaimMessage /\ Range(Clm(r)) = Range(Clm(r)') \cup {c}
    BY <1>1, <1>2, TailOfChannel
  <2>2. ClaimRequest(t, c.wait_points)
    BY <1>2, <1>3 DEF NodeClaimRequest, Clm
  <2> QED BY <2>1, <2>2 DEF ClaimMessage
<1>5. /\ t = negotiator[r].ticket /\ negotiator[r].state = "Requested"
      /\ Dec(r) = << >> /\ Range(Dec(r)) = {}
  BY <1>0, <1>3, NothingElseInFlight
<1>6. Untouched(t) /\ t \in Issued /\ t \in Tickets
  BY <1>0, <1>3 DEF ClaimsOnce, Own
<1>7. OnlyTicket(t)
  BY <1>0, <1>4, <1>6, ClaimIsOfOneTicket
<1>8. /\ AdapterFrame(r) /\ ticket_store'.header[t] = r /\ UNCHANGED requests
      /\ Own(r)' = Own(r)
  BY <1>0, <1>7, NodeStepFrames, OneTicketFrames DEF OnlyTicket, Own
<1>9. ASSUME NEW l, NEW i \in {Proceed, "WAIT_IDENTIFIED"}, NEW k,
             published' = <<Allocation(t, i, k, l)>>, Decides(t),
             current_state'.placed[t] = l, i = Proceed => ~Waits(t)'
      PROVE  FollowsOn(r)
  <2>1. PICK d \in AllocationMessage :
          published' = <<d>> /\ Dec(r)' = Append(Dec(r), d) /\ Tkt(r)' = Tkt(r)
    BY <1>0, <1>6, <1>8, <1>9, DecisionDelivered
  <2>2. d = Allocation(t, i, k, l)
    BY <1>9, <2>1
  <2>3. d.ticket = t /\ d.resource = l /\ d.instruction = i
    BY <2>2 DEF Allocation
  <2> QED BY <1>0, <1>1, <1>4, <1>5, <1>7, <1>9, <2>1, <2>3, DecisionFollows
<1>10. CASE Proceeds(t)
  <2>1. PICK i \in DOMAIN requests[t] :
          /\ published' = <<Allocation(t, "IMMEDIATELY_PROCEED", i, requests[t][i].location)>>
          /\ MovedTo(t, requests[t][i].location)
          /\ queues' = queues
    BY <1>10 DEF Proceeds
  <2>2. requests[t] \in Seq(LocationReq)
    BY <1>0, <1>6 DEF NodeInv, NodeTypeOK
  <2>3. i \in Nat /\ requests[t][i].location \in Locations
    BY <2>2, ListIndices
  <2>4. Decides(t)
    BY <2>1, <2>3 DEF Decides, Proceed
  <2>5. ~Waits(t)'
    BY <1>6, <2>1, WaitsAfter DEF Untouched
  <2> QED BY <1>9, <2>1, <2>4, <2>5 DEF MovedTo, Proceed
<1>11. ASSUME NEW l \in Locations, WaitsAt(t, l) PROVE FollowsOn(r)
  <2>1. PICK k \in Nat : published' = <<Allocation(t, "WAIT_IDENTIFIED", k, l)>>
    BY <1>11 DEF WaitsAt
  <2>2. Decides(t) /\ "WAIT_IDENTIFIED" # Proceed
    BY <2>1 DEF Decides, Proceed
  <2> QED BY <1>9, <1>11, <2>1, <2>2 DEF WaitsAt, MovedTo
<1>12. CASE WaitsNowhere(t)
  <2>1. /\ Dec(r)' = Dec(r) /\ Tkt(r)' = Tkt(r) /\ current_state' = current_state
        /\ \A u \in Own(r) \ {t} : Waits(u)' <=> Waits(u)
    BY <1>0, <1>7, <1>12, DeliverEffect DEF WaitsNowhere, SameToRobot, OnlyTicket
  <2>2. AsksOnce(r)'
    BY <1>0, <1>1, <1>8, <2>1, AskingStays DEF FollowsAll
  <2>3. \A u \in Own(r) : Waits(u)' => u = t
    BY <1>0, <1>5, <2>1 DEF FollowsAll, Follows
  <2>4. Follows(r)'
    BY <1>0, <1>1, <1>3, <1>4, <1>5, <1>8, <2>1, <2>3
       DEF FollowsAll, Follows, AdapterFrame, EndsWithProceed
  <2>5. Remembers(r)' /\ (HoldsItsSpot(r) => HoldsItsSpot(r)')
    BY <1>0, <1>1, <1>8, <2>1 DEF FollowsAll, Remembers, HoldsItsSpot, AdapterFrame
  <2> QED BY <2>2, <2>4, <2>5 DEF FollowsOn, FollowsAll
<1> QED BY <1>0, <1>4, <1>6, <1>10, <1>11, <1>12, ClaimEffect

(* The waiter that is served or dropped is its negotiator's ticket.         *)
LEMMA ServiceNextFollows ==
  ASSUME FollowInv, NEW r \in Robots, NEW t \in Own(r), NodeServiceNext,
         Waits(t), Leaves(t), Dropped(t) \/ Served(t)
  PROVE  FollowsOn(r)
<1>0. /\ ServingInv /\ NodeInv /\ ProtocolTypes /\ FollowsAll(r)
      /\ KnowsItsTickets(r) /\ NodeStep /\ Own(r) \subseteq Tickets
      /\ NoTicket \notin Own(r) /\ Dec(r) \in Seq(AllocationMessage)
      /\ ServiceNext /\ UNCHANGED to_node
      /\ (Range(Dec(r)) = {} <=> Dec(r) = << >>)
  BY FollowFacts DEF NodeServiceNext
<1>1. Req(r)' = Req(r) /\ Clm(r)' = Clm(r) /\ Rel(r)' = Rel(r)
  BY <1>0 DEF Req, Clm, Rel
<1>2. /\ t = negotiator[r].ticket /\ negotiator[r].state \in {"Requested", "WaitPoint"}
      /\ \A x \in Range(Dec(r)) : x.instruction # Proceed
  BY <1>0 DEF FollowsAll, Follows
<1>3. t \in Issued /\ t \in Tickets
  BY <1>0 DEF Own
<1>4. OnlyTicket(t)
  BY <1>0, <1>3, ServiceIsOfOneTicket
<1>5. /\ AdapterFrame(r) /\ ticket_store'.header[t] = r /\ UNCHANGED requests
      /\ Own(r)' = Own(r) /\ ~Waits(t)'
  BY <1>0, <1>3, <1>4, NodeStepFrames, OneTicketFrames, WaitsAfter DEF OnlyTicket, Own
<1>6. CASE Served(t)
  <2>1. PICK i \in DOMAIN requests[t] :
          /\ published' = <<Allocation(t, "IMMEDIATELY_PROCEED", i, requests[t][i].location)>>
          /\ MovedToFree(t, requests[t][i].location)
    BY <1>6 DEF Served
  <2>2. requests[t] \in Seq(LocationReq)
    BY <1>0, <1>3 DEF NodeInv, NodeTypeOK
  <2>3. i \in Nat /\ requests[t][i].location \in Locations
    BY <2>2, ListIndices
  <2>4. Decides(t)
    BY <2>1, <2>3 DEF Decides, Proceed
  <2>5. PICK d \in AllocationMessage :
          published' = <<d>> /\ Dec(r)' = Append(Dec(r), d) /\ Tkt(r)' = Tkt(r)
    BY <1>0, <1>3, <1>5, <2>1, <2>4, DecisionDelivered
  <2>6. d = Allocation(t, "IMMEDIATELY_PROCEED", i, requests[t][i].location)
    BY <2>1, <2>5
  <2>7. d.ticket = t /\ d.resource = requests[t][i].location
    BY <2>6 DEF Allocation
  <2>8. current_state'.placed[t] = d.resource
    BY <2>1, <2>7 DEF MovedToFree
  <2>9. Range(Clm(r)') # {} => negotiator[r].state = "Requested"
    BY <1>1, NothingElseInFlight
  <2> QED BY <1>0, <1>1, <1>2, <1>4, <1>5, <2>5, <2>7, <2>8, <2>9, DecisionFollows
<1>7. CASE Dropped(t)
  <2>1. /\ Dec(r)' = Dec(r) /\ Tkt(r)' = Tkt(r) /\ current_state' = current_state
        /\ \A u \in Own(r) \ {t} : Waits(u)' <=> Waits(u)
    BY <1>0, <1>4, <1>7, DeliverEffect DEF Dropped, SameToRobot, OnlyTicket
  <2>2. AsksOnce(r)'
    BY <1>0, <1>1, <1>5, <2>1, AskingStays DEF FollowsAll
  <2>3. \A u \in Own(r) : ~Waits(u)'
    BY <1>0, <1>2, <1>5, <2>1 DEF FollowsAll, Follows
  <2>4. Follows(r)'
    BY <1>0, <1>1, <1>5, <2>1, <2>3 DEF FollowsAll, Follows, AdapterFrame, EndsWithProceed, Final
  <2>5. Remembers(r)' /\ (HoldsItsSpot(r) => HoldsItsSpot(r)')
    BY <1>0, <1>1, <1>5, <2>1 DEF FollowsAll, Remembers, HoldsItsSpot, AdapterFrame
  <2> QED BY <2>2, <2>4, <2>5 DEF FollowsOn, FollowsAll
<1> QED BY <1>6, <1>7

(* A released ticket is neither the negotiator's nor the manager's.         *)
LEMMA ReleaseFollows ==
  ASSUME FollowInv, NEW r \in Robots, NodeRelease(r)
  PROVE  FollowsOn(r)
<1>0. /\ ServingInv /\ NodeInv /\ ProtocolTypes /\ FollowsAll(r)
      /\ KnowsItsTickets(r) /\ NodeStep /\ Own(r) \subseteq Tickets
      /\ NoTicket \notin Own(r) /\ (Range(Dec(r)) = {} <=> Dec(r) = << >>)
  BY FollowFacts DEF NodeRelease
<1>1. /\ Rel(r) # << >> /\ Rel(r)' = Tail(Rel(r)) /\ Req(r)' = Req(r) /\ Clm(r)' = Clm(r)
      /\ Rel(r) \in Seq(Tickets)
  BY <1>0, ReceiveEffect, RobotTypes DEF NodeRelease
<1>2. PICK t \in Range(Rel(r)) : t = Head(Rel(r))
  BY <1>1, TailOfChannel
<1>3. /\ t \in Own(r) /\ t \in Issued /\ t \in Tickets /\ Release(t)
      /\ Range(Rel(r)) = Range(Rel(r)') \cup {t}
      /\ t # negotiator[r].ticket /\ t # allocation[r].ticket
  BY <1>0, <1>1, <1>2, TailOfChannel
     DEF KnowsItsTickets, Own, NodeRelease, Rel, FollowsAll, Follows
<1>4. /\ published' = << >> /\ OnlyTicket(t)
      /\ \A u \in Tickets : current_state'.placed[u] = IF u = t THEN Nowhere
                                                       ELSE current_state.placed[u]
      /\ \A u \in Tickets : Waits(u)' <=> Waits(u)
  <2>1. UNCHANGED queues
    BY <1>3 DEF Release
  <2> QED BY <1>0, <1>3, <2>1, ReleaseEffect, ReleaseIsOfOneTicket, WaitsAfter
<1>5. /\ AdapterFrame(r) /\ Own(r)' = Own(r) /\ Dec(r)' = Dec(r) /\ Tkt(r)' = Tkt(r)
  BY <1>0, <1>3, <1>4, NodeStepFrames, OneTicketFrames, DeliverEffect DEF SameToRobot
<1>6. AsksOnce(r)'
  BY <1>0, <1>1, <1>5, AskingStays DEF FollowsAll
<1>7. \A u \in {negotiator[r].ticket, allocation[r].ticket} \ {NoTicket} :
        current_state'.placed[u] = current_state.placed[u]
  BY <1>0, <1>3, <1>4 DEF KnowsItsTickets
<1>8. Follows(r)'
  <2>1. Dec(r) # << >> => negotiator[r].ticket # NoTicket
    BY <1>0 DEF FollowsAll, Follows, KnowsItsTickets
  <2> QED BY <1>0, <1>1, <1>3, <1>4, <1>5, <1>7, <2>1
          DEF FollowsAll, Follows, AdapterFrame, EndsWithProceed, Final
<1>9. Remembers(r)'
  BY <1>0, <1>3, <1>4, <1>5 DEF FollowsAll, Remembers, AdapterFrame
<1>10. HoldsItsSpot(r) => HoldsItsSpot(r)'
  BY <1>5, <1>7 DEF HoldsItsSpot, AdapterFrame
<1> QED BY <1>6, <1>8, <1>9, <1>10 DEF FollowsOn, FollowsAll

(* The adapter's steps leave the node alone.                                *)
LEMMA AdapterLeavesNode ==
  ASSUME AdapterStep, NEW r \in Robots
  PROVE  /\ Own(r)' = Own(r) /\ current_state' = current_state
         /\ \A u : Waits(u)' <=> Waits(u)
BY AdapterFrames DEF AdapterStep, Waits

(* A robot without a negotiator, or whose negotiator has not asked yet, or  *)
(* that was told to proceed, has nothing in flight about its tickets.       *)
LEMMA NothingInFlight ==
  ASSUME FollowInv, NEW r \in Robots,
         \/ negotiator[r].state \notin {"Requested", "WaitPoint"}
         \/ negotiator[r].ticket = NoTicket
  PROVE  /\ Range(Clm(r)) = {} /\ Range(Dec(r)) = {} /\ Dec(r) = << >>
         /\ \A u \in Own(r) : ~Waits(u)
<1>1. /\ Follows(r) /\ KnowsItsTickets(r) /\ NoTicket \notin Own(r)
      /\ (Range(Dec(r)) = {} <=> Dec(r) = << >>)
  BY FollowFacts DEF FollowsAll
<1> QED BY <1>1 DEF Follows, KnowsItsTickets

(* A robot begins a task: its last negotiator left nothing in flight.       *)
LEMMA BeginFollows ==
  ASSUME FollowInv, MayAskAgain = FALSE, NEW r \in Robots, NEW goals \in GoalLists,
         BeginGoToPlace(r, goals)
  PROVE  FollowsOn(r)
<1>0. /\ ProtocolTypes /\ FollowsAll(r) /\ KnowsItsTickets(r) /\ AnswersFit(r)
      /\ NoTicket \notin Own(r) /\ missions[r] \in Nat
      /\ Req(r) \in Seq(Request) /\ Tkt(r) \in Seq(TicketMessage)
  BY FollowFacts, RobotTypes
<1> DEFINE n == [state |-> "Pending", request_id |-> missions[r], goals |-> goals,
                 ticket |-> NoTicket]
<1>1. /\ negotiator[r].state = "None" /\ negotiator' = [negotiator EXCEPT ![r] = n]
      /\ missions' = [missions EXCEPT ![r] = @ + 1]
      /\ allocation[r].resource \notin {goals[i] : i \in DOMAIN goals}
      /\ UNCHANGED <<allocation, spot, to_node, to_robot>> /\ AdapterStep
  BY DEF BeginGoToPlace
<1>2. /\ n.ticket = NoTicket /\ n.request_id = missions[r] /\ n.goals = goals
      /\ n.state = "Pending"
  OBVIOUS
<1> HIDE DEF n
<1>3. /\ negotiator'[r] = n /\ missions'[r] = missions[r] + 1
      /\ allocation'[r] = allocation[r] /\ spot'[r] = spot[r]
      /\ Req(r)' = Req(r) /\ Clm(r)' = Clm(r) /\ Rel(r)' = Rel(r) /\ Tkt(r)' = Tkt(r)
      /\ Dec(r)' = Dec(r)
  BY <1>0, <1>1 DEF ProtocolTypes, Req, Clm, Rel, Tkt, Dec
<1>4. /\ Range(Clm(r)) = {} /\ Range(Dec(r)) = {} /\ Dec(r) = << >>
      /\ \A u \in Own(r) : ~Waits(u)
      /\ negotiator[r].ticket = NoTicket
  BY <1>0, <1>1, NothingInFlight DEF FollowsAll, AsksOnce
<1>5. /\ Own(r)' = Own(r) /\ current_state' = current_state
      /\ \A u : Waits(u)' <=> Waits(u)
  BY <1>1, AdapterLeavesNode
<1>6. AsksOnce(r)'
  <2>1. /\ \A x \in Range(Req(r)) : x.request_id \in Nat /\ x.request_id < missions[r]
        /\ \A x \in Range(Tkt(r)) : x.header.request_id \in Nat /\ x.header.request_id < missions[r]
    <3>1. /\ \A x \in Range(Req(r)) : x \in Request
          /\ \A x \in Range(Tkt(r)) : x \in TicketMessage
      BY <1>0, RangeTyped
    <3> QED BY <1>0, <3>1, ProtocolAssumption DEF Request, TicketMessage, RequestHeader, AnswersFit
  <2>2. /\ \A x \in Range(Req(r)) : x.request_id # n.request_id
        /\ \A x \in Range(Tkt(r)) : x.header.request_id # n.request_id
        /\ n.request_id = missions'[r] - 1
    <3>1. \A k \in Nat : k < missions[r] => k # missions[r]
      BY <1>0
    <3>2. (missions[r] + 1) - 1 = missions[r]
      BY <1>0
    <3> QED BY <1>2, <1>3, <2>1, <3>1, <3>2
  <2>3. Keyed(Req(r), RequestId)' /\ Keyed(Tkt(r), TicketId)'
    BY <1>0, <1>3 DEF FollowsAll, AsksOnce, Keyed, RequestId, TicketId, Request, TicketMessage
  <2> QED BY <1>0, <1>2, <1>3, <2>2, <2>3 DEF FollowsAll, AsksOnce
<1>7. Follows(r)'
  <2>1. allocation[r].resource \notin Range(goals)
    BY <1>1 DEF Range
  <2> QED BY <1>0, <1>2, <1>3, <1>4, <1>5, <2>1
          DEF FollowsAll, Follows, KnowsItsTickets, EndsWithProceed
<1>8. Remembers(r)'
  BY <1>0, <1>3, <1>4, <1>5 DEF FollowsAll, Remembers
<1>9. HoldsItsSpot(r) => HoldsItsSpot(r)'
  BY <1>2, <1>3, <1>4, <1>5 DEF HoldsItsSpot
<1> QED BY <1>6, <1>7, <1>8, <1>9 DEF FollowsOn, FollowsAll

(* A request is made while the negotiator has no ticket.                    *)
LEMMA MakeRequestFollows ==
  ASSUME FollowInv, NEW r \in Robots, NEW cost \in [Locations -> Costs], MakeRequest(r, cost)
  PROVE  FollowsOn(r)
<1> DEFINE n == negotiator[r]
           kept == KeptOf(r, n.goals)[Len(n.goals)]
           list == [i \in DOMAIN kept |-> [location |-> kept[i], cost |-> cost[kept[i]]]]
           m == [request_id |-> n.request_id, alternatives |-> list]
<1>0. /\ ProtocolInv /\ ProtocolTypes /\ FollowsAll(r) /\ KnowsItsTickets(r) /\ AnswersFit(r)
      /\ NoTicket \notin Own(r) /\ n \in Negotiator
      /\ Req(r) \in Seq(Request) /\ Tkt(r) \in Seq(TicketMessage)
  BY FollowFacts, RobotTypes
<1>1. /\ n.state = "Pending" /\ Publish(r, "request", m) /\ AdapterStep
      /\ negotiator' = [negotiator EXCEPT ![r].state = "Requested"]
      /\ UNCHANGED <<missions, allocation, spot, to_robot>>
  BY DEF MakeRequest
<1>2. m.request_id = n.request_id
  OBVIOUS
<1> HIDE DEF m
<1>3. /\ Req(r)' = Append(Req(r), m) /\ Clm(r)' = Clm(r) /\ Rel(r)' = Rel(r)
      /\ Tkt(r)' = Tkt(r) /\ Dec(r)' = Dec(r)
      /\ allocation'[r] = allocation[r] /\ missions'[r] = missions[r] /\ spot'[r] = spot[r]
  BY <1>0, <1>1, PublishEffect DEF Tkt, Dec
<1>4. /\ negotiator'[r].state = "Requested" /\ negotiator'[r].ticket = n.ticket
      /\ negotiator'[r].request_id = n.request_id /\ negotiator'[r].goals = n.goals
  BY <1>0, <1>1 DEF ProtocolTypes, Negotiator
<1>5. /\ Range(Clm(r)) = {} /\ Range(Dec(r)) = {} /\ Dec(r) = << >>
      /\ \A u \in Own(r) : ~Waits(u)
      /\ n.ticket = NoTicket
  BY <1>0, <1>1, NothingInFlight DEF FollowsAll, AsksOnce
<1>6. /\ Own(r)' = Own(r) /\ current_state' = current_state
      /\ \A u : Waits(u)' <=> Waits(u)
  BY <1>1, AdapterLeavesNode
<1>7. AsksOnce(r)'
  <2>1. m \in Request
    BY <1>0, RequestIsTyped DEF m
  <2>2. Range(Req(r)') = Range(Req(r)) \cup {m}
    BY <1>0, <1>3, <2>1, AppendToChannel
  <2>3. /\ \A x \in Range(Req(r)) : x.request_id # n.request_id
        /\ \A x \in Range(Tkt(r)) : x.header.request_id # n.request_id
    BY <1>0, <1>1 DEF FollowsAll, AsksOnce
  <2>4. Keyed(Req(r)', RequestId)
    <3>1. \A x \in Range(Req(r)) : x \in Request
      BY <1>0, RangeTyped
    <3>2. \A x \in Range(Req(r)) : RequestId[x] # RequestId[m]
      BY <1>2, <2>1, <2>3, <3>1 DEF RequestId
    <3>3. Keyed(Append(Req(r), m), RequestId)
      BY <1>0, <2>1, <3>2, AppendKeepsKeys DEF FollowsAll, AsksOnce
    <3> QED BY <1>3, <3>3
  <2>5. Keyed(Req(r), RequestId)' /\ Keyed(Tkt(r), TicketId)'
    BY <1>0, <1>3, <2>4 DEF FollowsAll, AsksOnce, Keyed, RequestId, TicketId, Request, TicketMessage
  <2> QED BY <1>0, <1>1, <1>2, <1>3, <1>4, <1>5, <2>2, <2>3, <2>5, SMTT(30) DEF FollowsAll, AsksOnce
<1>8. Follows(r)'
  BY <1>0, <1>1, <1>3, <1>4, <1>5, <1>6 DEF FollowsAll, Follows, EndsWithProceed
<1>9. Remembers(r)'
  BY <1>0, <1>3, <1>4, <1>6 DEF FollowsAll, Remembers
<1>10. HoldsItsSpot(r) => HoldsItsSpot(r)'
  BY <1>3, <1>4, <1>6 DEF HoldsItsSpot
<1> QED BY <1>7, <1>8, <1>9, <1>10 DEF FollowsOn, FollowsAll

(* The ticket is the answer to the negotiator's only request.               *)
LEMMA OnTicketFollows ==
  ASSUME FollowInv, NEW r \in Robots, NEW w \in WaitLists, OnTicket(r, w)
  PROVE  FollowsOn(r)
<1> DEFINE n == negotiator[r]
<1>0. /\ ProtocolTypes /\ FollowsAll(r) /\ KnowsItsTickets(r) /\ ClaimsOnce(r)
      /\ NoTicket \notin Own(r) /\ n \in Negotiator /\ Own(r) \subseteq Tickets
      /\ Tkt(r) \in Seq(TicketMessage)
  BY FollowFacts, RobotTypes
<1>1. /\ Tkt(r) # << >> /\ Consume(r, "ticket") /\ AdapterStep
      /\ UNCHANGED <<missions, allocation, spot>>
  BY DEF OnTicket, Tkt
<1>2. /\ Tkt(r)' = Tail(Tkt(r)) /\ Dec(r)' = Dec(r)
      /\ allocation'[r] = allocation[r] /\ missions'[r] = missions[r] /\ spot'[r] = spot[r]
  BY <1>0, <1>1, ConsumeEffect
<1>3. /\ Own(r)' = Own(r) /\ current_state' = current_state
      /\ \A u : Waits(u)' <=> Waits(u)
  BY <1>1, AdapterLeavesNode
<1>4. PICK m \in Range(Tkt(r)) : m = Head(Tkt(r))
  BY <1>0, <1>1, TailOfChannel
<1>5. /\ m \in TicketMessage /\ Range(Tkt(r)) = Range(Tkt(r)') \cup {m}
      /\ Keyed(Tkt(r)', TicketId)
      /\ \A x \in Range(Tkt(r)') : x.header.request_id # m.header.request_id
  <2>1. /\ m \in TicketMessage /\ Range(Tkt(r)) = Range(Tkt(r)') \cup {m}
        /\ Tkt(r)' \in Seq(TicketMessage)
    BY <1>0, <1>1, <1>2, <1>4, TailOfChannel
  <2>2. /\ Keyed(Tkt(r)', TicketId)
        /\ \A x \in Range(Tkt(r)') : TicketId[x] # TicketId[m]
    BY <1>0, <1>1, <1>2, <1>4, TailKeepsKeys DEF FollowsAll, AsksOnce
  <2>3. \A x \in Range(Tkt(r)') : x \in TicketMessage
    BY <2>1, RangeTyped
  <2> QED BY <2>1, <2>2, <2>3 DEF TicketId
<1>6. /\ m.ticket \in Own(r) /\ m.ticket # NoTicket /\ m.ticket \notin Range(Rel(r))
  BY <1>0 DEF KnowsItsTickets, ClaimsOnce, NewToRobot
<1>7. CASE UNCHANGED <<negotiator, to_node>>
  <2>1. Req(r)' = Req(r) /\ Clm(r)' = Clm(r) /\ Rel(r)' = Rel(r) /\ negotiator'[r] = n
    BY <1>7 DEF Req, Clm, Rel
  <2>2. AsksOnce(r)'
    <3>1. Keyed(Req(r), RequestId)' /\ Keyed(Tkt(r), TicketId)'
      BY <1>0, <1>5, <2>1 DEF FollowsAll, AsksOnce, Keyed, RequestId, TicketId, Request, TicketMessage
    <3> QED BY <1>0, <1>2, <1>5, <2>1, <3>1 DEF FollowsAll, AsksOnce
  <2>3. Follows(r)'
    BY <1>0, <1>2, <1>3, <2>1 DEF FollowsAll, Follows, EndsWithProceed, Final
  <2>4. Remembers(r)' /\ (HoldsItsSpot(r) => HoldsItsSpot(r)')
    BY <1>0, <1>2, <1>3, <2>1 DEF FollowsAll, Remembers, HoldsItsSpot
  <2> QED BY <2>2, <2>3, <2>4 DEF FollowsOn, FollowsAll
<1>8. CASE /\ n.state # "None" /\ m.header.request_id = n.request_id
           /\ negotiator' = [negotiator EXCEPT ![r].ticket = m.ticket]
           /\ IF w = << >> THEN UNCHANGED to_node
              ELSE Publish(r, "claim", [ticket |-> m.ticket, wait_points |-> w])
  <2> DEFINE c == [ticket |-> m.ticket, wait_points |-> w]
  <2>1. n.state = "Requested" /\ n.ticket = NoTicket
    BY <1>0, <1>8 DEF FollowsAll, AsksOnce, Negotiator
  <2>2. /\ negotiator'[r].state = n.state /\ negotiator'[r].ticket = m.ticket
        /\ negotiator'[r].request_id = n.request_id /\ negotiator'[r].goals = n.goals
    BY <1>0, <1>8 DEF ProtocolTypes, Negotiator
  <2>3. /\ Range(Clm(r)) = {} /\ Range(Dec(r)) = {} /\ Dec(r) = << >>
        /\ \A u \in Own(r) : ~Waits(u)
    BY <2>1, NothingInFlight
  <2>4. c \in ClaimMessage /\ c.ticket = m.ticket
    BY <1>0, <1>6 DEF ClaimMessage
  <2> HIDE DEF c
  <2>5. /\ Req(r)' = Req(r) /\ Rel(r)' = Rel(r)
        /\ \A x \in Range(Clm(r)') : x.ticket = m.ticket
    <3>1. CASE UNCHANGED to_node
      BY <2>3, <3>1 DEF Req, Clm, Rel
    <3>2. CASE Publish(r, "claim", c)
      <4>1. Req(r)' = Req(r) /\ Rel(r)' = Rel(r) /\ Clm(r)' = Append(Clm(r), c)
        BY <1>0, <3>2, PublishEffect
      <4>2. Range(Append(Clm(r), c)) = Range(Clm(r)) \cup {c}
        BY <1>0, <2>4, RobotTypes, AppendToChannel
      <4> QED BY <2>3, <2>4, <4>1, <4>2
    <3> QED BY <1>8, <3>1, <3>2 DEF c
  <2>6. AsksOnce(r)'
    <3>1. Keyed(Req(r), RequestId)' /\ Keyed(Tkt(r), TicketId)'
      BY <1>0, <1>5, <2>5 DEF FollowsAll, AsksOnce, Keyed, RequestId, TicketId, Request, TicketMessage
    <3>2. \A x \in Range(Req(r)) : x.request_id # n.request_id
      BY <1>0, <1>8 DEF FollowsAll, AsksOnce
    <3> QED BY <1>0, <1>2, <1>5, <1>6, <1>8, <2>1, <2>2, <2>5, <3>1, <3>2 DEF FollowsAll, AsksOnce
  <2>7. Follows(r)'
    BY <1>0, <1>2, <1>3, <1>6, <2>1, <2>2, <2>3, <2>5 DEF FollowsAll, Follows, EndsWithProceed
  <2>8. Remembers(r)'
    BY <1>0, <1>2, <1>3, <2>1, <2>2, <2>5 DEF FollowsAll, Remembers
  <2>9. HoldsItsSpot(r) => HoldsItsSpot(r)'
    BY <1>2, <1>3, <2>1, <2>2, <2>3 DEF HoldsItsSpot
  <2> QED BY <2>6, <2>7, <2>8, <2>9 DEF FollowsOn, FollowsAll
<1> QED BY <1>4, <1>7, <1>8 DEF OnTicket, Tkt

(* A decision is always about the negotiator's ticket.  Once it proceeds    *)
(* the reservation manager has that ticket: were it not so, it would have   *)
(* another one for the same resource, which is none of the goals.           *)
LEMMA OnAllocationFollows ==
  ASSUME FollowInv, NEW r \in Robots, OnAllocation(r)
  PROVE  FollowsOn(r)
<1> DEFINE n == negotiator[r]
           a == allocation[r]
           kept == KeptOf(r, n.goals)[Len(n.goals)]
<1>0. /\ ProtocolInv /\ ProtocolTypes /\ FollowsAll(r) /\ KnowsItsTickets(r) /\ ClaimsOnce(r)
      /\ NoTicket \notin Own(r) /\ n \in Negotiator /\ n.goals \in Seq(Locations)
      /\ Dec(r) \in Seq(AllocationMessage)
  BY FollowFacts, RobotTypes DEF Negotiator
<1>1. Dec(r) # << >> /\ Consume(r, "allocation") /\ AdapterStep /\ UNCHANGED missions
  BY DEF OnAllocation, Dec
<1>2. /\ Dec(r)' = Tail(Dec(r)) /\ Tkt(r)' = Tkt(r) /\ missions'[r] = missions[r]
  BY <1>0, <1>1, ConsumeEffect
<1>3. /\ Own(r)' = Own(r) /\ current_state' = current_state
      /\ \A u : Waits(u)' <=> Waits(u)
  BY <1>1, AdapterLeavesNode
<1>4. PICK d \in Range(Dec(r)) : d = Head(Dec(r))
  BY <1>0, <1>1, TailOfChannel
<1>5. /\ d \in AllocationMessage /\ Range(Dec(r)) = Range(Dec(r)') \cup {d}
      /\ d.ticket \in Own(r) /\ d.ticket = n.ticket /\ n.state \in {"Requested", "WaitPoint"}
      /\ n.ticket # NoTicket
  BY <1>0, <1>1, <1>2, <1>4, TailOfChannel DEF KnowsItsTickets, FollowsAll, Follows
<1>6. /\ EndsWithProceed(Dec(r)')
      /\ Dec(r)' # << >> => Final(Dec(r)') = Final(Dec(r))
      /\ Dec(r)' = << >> => d = Final(Dec(r))
      /\ d.instruction = Proceed => Dec(r)' = << >>
  BY <1>0, <1>1, <1>2, <1>4, TailDecision DEF FollowsAll, Follows
<1>7. ReplaceTicket(r, d) /\ IsTold(r, d)
  BY <1>4, <1>5 DEF OnAllocation, IsTold, Proceed, Dec
<1>8. /\ negotiator'[r].ticket = n.ticket /\ negotiator'[r].request_id = n.request_id
      /\ negotiator'[r].goals = n.goals
      /\ negotiator'[r].state = IF d.instruction = Proceed THEN "Immediate" ELSE "WaitPoint"
      /\ d.instruction = Proceed => /\ spot'[r] = n.goals[d.chosen]
                                    /\ d.chosen \in DOMAIN kept /\ kept[d.chosen] = d.resource
      /\ d.instruction # Proceed => spot'[r] = d.resource
  BY <1>0, <1>5, <1>7, ToldEffect
<1>9. /\ Req(r)' = Req(r) /\ Clm(r)' = Clm(r)
      /\ \/ /\ a.ticket \notin {NoTicket, d.ticket} /\ d.resource = a.resource
            /\ allocation'[r] = a /\ Rel(r)' = Rel(r)
         \/ /\ a.ticket \notin {NoTicket, d.ticket}
            /\ allocation'[r].ticket = d.ticket
            /\ Range(Rel(r)') = Range(Rel(r)) \cup {a.ticket}
         \/ /\ a.ticket \in {NoTicket, d.ticket} /\ allocation'[r].ticket = d.ticket
            /\ Rel(r)' = Rel(r)
  BY <1>0, <1>5, <1>7, ReplaceTicketEffect
<1>10. AsksOnce(r)'
  <2>1. Keyed(Req(r), RequestId)' /\ Keyed(Tkt(r), TicketId)'
    BY <1>0, <1>2, <1>9 DEF FollowsAll, AsksOnce, Keyed, RequestId, TicketId, Request, TicketMessage
  <2> QED BY <1>0, <1>2, <1>5, <1>8, <1>9, <2>1 DEF FollowsAll, AsksOnce
<1>11. Range(kept) \subseteq Range(n.goals) /\ (Skipped[r] = {} => kept = n.goals)
  BY <1>0, KeptAreGoals
<1> HIDE DEF kept
<1>12. d.instruction = Proceed => allocation'[r].ticket = n.ticket
  <2>1. d.instruction = Proceed => d.resource \in Range(n.goals)
    BY <1>8, <1>11 DEF Range
  <2>2. a.ticket \notin {NoTicket, d.ticket} => a.resource \notin Range(n.goals)
    BY <1>0, <1>5 DEF FollowsAll, Follows
  <2> QED BY <1>5, <1>9, <2>1, <2>2
<1>13. \A c \in Range(Clm(r)) : FALSE
  BY <1>1, NothingElseInFlight
<1>14. current_state.placed[n.ticket] = Final(Dec(r)).resource
  BY <1>0, <1>1 DEF FollowsAll, Follows
<1>15. Follows(r)'
  <2>1. /\ negotiator'[r].ticket \notin Range(Rel(r)') /\ allocation'[r].ticket \notin Range(Rel(r)')
    BY <1>0, <1>5, <1>8, <1>9 DEF FollowsAll, Follows
  <2>2. \A x \in Range(Dec(r)') : x.ticket = n.ticket /\ negotiator'[r].state = "WaitPoint"
    <3>1. Range(Dec(r)') # {} => Dec(r)' # << >>
      BY DEF Range
    <3> QED BY <1>0, <1>5, <1>6, <1>8, <3>1 DEF FollowsAll, Follows
  <2>3. \A t \in Own(r) : Waits(t) =>
          /\ t = n.ticket /\ negotiator'[r].state = "WaitPoint"
          /\ \A x \in Range(Dec(r)') : x.instruction # Proceed
    BY <1>0, <1>5, <1>8 DEF FollowsAll, Follows
  <2>4. allocation'[r].ticket # n.ticket => allocation'[r].resource \notin Range(n.goals)
    BY <1>0, <1>5, <1>9 DEF FollowsAll, Follows
  <2>5. Dec(r)' # << >> => current_state.placed[n.ticket] = Final(Dec(r)').resource
    BY <1>6, <1>14
  <2>6. EndsWithProceed(Dec(r))' /\ Final(Dec(r))' = Final(Dec(r)')
    BY <1>6 DEF EndsWithProceed, Final
  <2>7. /\ negotiator'[r].state = "Immediate" => allocation'[r].ticket = n.ticket
    BY <1>8, <1>12
  <2> QED BY <1>3, <1>5, <1>8, <1>9, <1>13, <2>1, <2>2, <2>3, <2>4, <2>5, <2>6, <2>7 DEF Follows
<1>16. Remembers(r)'
  BY <1>0, <1>3, <1>5, <1>8, <1>9 DEF FollowsAll, Remembers
<1>17. Skipped[r] = {} => HoldsItsSpot(r)'
  <2> SUFFICES ASSUME Skipped[r] = {}, Dec(r)' = << >> PROVE current_state.placed[n.ticket] = spot'[r]
    BY <1>3, <1>5, <1>8 DEF HoldsItsSpot
  <2>1. spot'[r] = d.resource
    BY <1>8, <1>11
  <2> QED BY <1>6, <1>14, <2>1
<1> QED BY <1>10, <1>15, <1>16, <1>17 DEF FollowsOn, FollowsAll

(* A task ends after its decision to proceed: the manager has its ticket.   *)
LEMMA FinishFollows ==
  ASSUME FollowInv, NEW r \in Robots, Finish(r)
  PROVE  FollowsOn(r)
<1>0. /\ ProtocolTypes /\ FollowsAll(r) /\ KnowsItsTickets(r) /\ NoTicket \notin Own(r)
  BY FollowFacts
<1>1. /\ negotiator[r].state = "Immediate" /\ negotiator' = [negotiator EXCEPT ![r] = NoNegotiator]
      /\ UNCHANGED <<missions, allocation, spot, to_node, to_robot>> /\ AdapterStep
  BY DEF Finish
<1>2. /\ negotiator'[r].state = "None" /\ negotiator'[r].ticket = NoTicket
      /\ allocation'[r] = allocation[r] /\ spot'[r] = spot[r]
      /\ Req(r)' = Req(r) /\ Clm(r)' = Clm(r) /\ Rel(r)' = Rel(r) /\ Tkt(r)' = Tkt(r)
      /\ Dec(r)' = Dec(r)
  BY <1>0, <1>1 DEF ProtocolTypes, NoNegotiator, Req, Clm, Rel, Tkt, Dec
<1>3. /\ Range(Clm(r)) = {} /\ Range(Dec(r)) = {} /\ Dec(r) = << >>
      /\ \A u \in Own(r) : ~Waits(u)
  BY <1>1, NothingInFlight
<1>4. /\ Own(r)' = Own(r) /\ current_state' = current_state
      /\ \A u : Waits(u)' <=> Waits(u)
  BY <1>1, AdapterLeavesNode
<1>5. negotiator[r].ticket = allocation[r].ticket
  BY <1>0, <1>1 DEF FollowsAll, Follows
<1>6. AsksOnce(r)'
  <2>1. Keyed(Req(r), RequestId)' /\ Keyed(Tkt(r), TicketId)'
    BY <1>0, <1>2, ZenonT(40) DEF FollowsAll, AsksOnce, Keyed, RequestId, TicketId, Request, TicketMessage
  <2> QED BY <1>0, <1>2, <2>1 DEF FollowsAll, AsksOnce
<1>7. Follows(r)'
  BY <1>0, <1>2, <1>3, <1>4 DEF FollowsAll, Follows, KnowsItsTickets, EndsWithProceed
<1>8. Remembers(r)'
  BY <1>0, <1>2, <1>4, <1>5 DEF FollowsAll, Remembers
<1>9. HoldsItsSpot(r) => HoldsItsSpot(r)'
  BY <1>2, <1>3, <1>4, <1>5 DEF HoldsItsSpot
<1> QED BY <1>6, <1>7, <1>8, <1>9 DEF FollowsOn, FollowsAll

(* A step on behalf of one robot, and what it leaves to all of them.        *)
LEMMA OthersFollow ==
  ASSUME FollowInv, NEW r \in Robots, Frame(r)
  PROVE  FollowsOn(r)
BY FollowFacts, FrameKeepsFollowing DEF FollowsAll, FollowsOn

(* A step on behalf of one robot, all together.                             *)
LEMMA AllFollow ==
  ASSUME FollowInv, NEW r \in Robots, StepOf(r), FollowsOn(r)
  PROVE  \A s \in Robots : FollowsOn(s)
BY OthersFollow DEF StepOf

(* A step on behalf of nobody.                                              *)
LEMMA NobodyMoves ==
  ASSUME FollowInv, StepOfNobody
  PROVE  \A s \in Robots : FollowsOn(s)
BY OthersFollow DEF StepOfNobody

(* Every step is one of these.                                              *)
LEMMA FollowStep ==
  ASSUME FollowInv, MayCancel = FALSE, MayAskAgain = FALSE, [Next]_vars
  PROVE  \A s \in Robots : FollowsOn(s)
<1>0. ProtocolInv
  BY DEF FollowInv
<1>1. CASE NodeServiceNext
  BY <1>0, <1>1, ServiceNextKeeps, ServiceNextFollows, AllFollow, NobodyMoves
<1>2. CASE NodeReceivedGraph
  BY <1>0, <1>2, ReceivedGraphKeeps, NobodyMoves
<1>3. CASE UNCHANGED vars
  BY <1>0, <1>3, StutterKeeps, NobodyMoves
<1>4. ASSUME NEW r \in Robots, NodeOnRequest(r) \/ NodeClaimRequest(r) \/ NodeRelease(r)
      PROVE  \A s \in Robots : FollowsOn(s)
  BY <1>0, <1>4, OnRequestKeeps, ClaimRequestKeeps, ReleaseKeeps,
     OnRequestFollows, ClaimRequestFollows, ReleaseFollows, AllFollow
<1>5. ASSUME NEW r \in Robots,
             \/ \E goals \in GoalLists : BeginGoToPlace(r, goals)
             \/ Respond(r) \/ Finish(r)
      PROVE  \A s \in Robots : FollowsOn(s)
  <2>1. CASE (\E goals \in GoalLists : BeginGoToPlace(r, goals)) \/ Finish(r)
    BY <1>0, <2>1, BeginKeeps, EndKeeps, BeginFollows, FinishFollows, AllFollow
  <2>2. CASE Respond(r)
    BY <1>0, <2>2, MakeRequestKeeps, OnTicketKeeps, OnAllocationKeeps,
       MakeRequestFollows, OnTicketFollows, OnAllocationFollows, AllFollow DEF Respond
  <2> QED BY <1>5, <2>1, <2>2
<1>6. \A r \in Robots : ~Cancel(r)
  BY DEF Cancel
<1> QED BY <1>1, <1>2, <1>3, <1>4, <1>5, <1>6 DEF Next, NodeActions

(* The initial state satisfies the invariants.                              *)
LEMMA FollowInitially == Init => FollowInv /\ \A r \in Robots : HoldsItsSpot(r)
<1> SUFFICES ASSUME Init PROVE FollowInv /\ \A r \in Robots : HoldsItsSpot(r)
  OBVIOUS
<1>1. ASSUME NEW r \in Robots PROVE AsksOnce(r) /\ Follows(r) /\ Remembers(r) /\ HoldsItsSpot(r)
  <2>1. /\ negotiator[r].state = "None" /\ negotiator[r].ticket = NoTicket
        /\ allocation[r].ticket = NoTicket /\ spot[r] = Nowhere
        /\ \A t \in Tickets : current_state.placed[t] = Nowhere
        /\ \A l \in Locations : queues[l] = << >>
        /\ Req(r) = << >> /\ Tkt(r) = << >> /\ Dec(r) = << >>
    BY DEF Init, NodeInit, NoNegotiator, NoAllocation, Req, Tkt, Dec
  <2>2. DOMAIN << >> = {}
    OBVIOUS
  <2>3. \A t : ~Waits(t)
    BY <2>1, <2>2 DEF Waits, Contains
  <2>4. Own(r) \subseteq Tickets
    BY ProtocolInitially, OwnTickets
  <2>5. AsksOnce(r)
    BY <2>1, <2>2, ChannelsStartEmpty DEF AsksOnce, Keyed
  <2>6. Follows(r)
    BY <2>1, <2>2, <2>3, ChannelsStartEmpty DEF Follows, EndsWithProceed
  <2> QED BY <2>1, <2>4, <2>5, <2>6 DEF Remembers, HoldsItsSpot
<1> QED BY <1>1, ProtocolInitially DEF FollowInv

(* When nobody cancels and no robot is sent to the spot it has, every       *)
(* adapter follows its ticket to the end.                                   *)
THEOREM AdaptersFollow ==
  ASSUME MayCancel = FALSE, MayAskAgain = FALSE
  PROVE  Spec => []FollowInv
<1>1. FollowInv /\ [Next]_vars => FollowInv'
  BY FollowStep, StepKeeps DEF FollowInv, FollowsOn, FollowsAll
<1> QED BY <1>1, FollowInitially, PTL DEF Spec

(* Then no spot is held by a ticket that everybody forgot: its robot's      *)
(* negotiator or reservation manager has it, or its release is on its way.  *)
THEOREM NoTicketIsForgotten ==
  ASSUME MayCancel = FALSE, MayAskAgain = FALSE
  PROVE  Spec => []NoForgottenTicket
<1>1. FollowInv => NoForgottenTicket
  <2> SUFFICES ASSUME FollowInv, NEW t \in Tickets, current_state.placed[t] # Nowhere
               PROVE  LET r == ticket_store.header[t]
                      IN  \/ allocation[r].ticket = t
                          \/ negotiator[r].ticket = t
                          \/ \E i \in DOMAIN to_node[r].release : to_node[r].release[i] = t
    BY DEF NoForgottenTicket
  <2>1. NodeInv /\ Sound(current_state) /\ NoTicket \notin Tickets
    BY ProtocolFacts DEF FollowInv, NodeInv, NodeTypeOK, HolderAndPlacedAgree, Sound
  <2>2. current_state.placed[t] \in Locations /\ current_state.holder[current_state.placed[t]] = t
    BY <2>1 DEF Sound, State, MapsAgree
  <2>3. t \in Issued
    BY <2>1, <2>2 DEF NodeInv, OnlyIssued
  <2>4. PICK r \in Robots : r = ticket_store.header[t]
    BY <2>1, <2>3 DEF NodeInv, OnlyIssued
  <2>5. t \in Own(r)
    BY <2>3, <2>4 DEF Own
  <2>6. t = negotiator[r].ticket \/ t = allocation[r].ticket \/ t \in Range(Rel(r))
    BY <2>5 DEF FollowInv, Remembers
  <2> QED BY <2>4, <2>6 DEF Range, Rel
<1> QED BY <1>1, AdaptersFollow, PTL

(* When moreover no goal is skipped, no two robots are driven to the same   *)
(* spot, unless a decision on its way takes one of them elsewhere.          *)
THEOREM SpotsAreExclusive ==
  ASSUME MayCancel = FALSE, MayAskAgain = FALSE, \A r \in Robots : Skipped[r] = {}
  PROVE  Spec => []ExclusiveSpots
<1>1. SpotInv /\ [Next]_vars => SpotInv'
  BY FollowStep, StepKeeps DEF SpotInv, FollowInv, FollowsOn, FollowsAll
<1>2. SpotInv => ExclusiveSpots
  <2> SUFFICES ASSUME SpotInv, NEW r1 \in Robots, NEW r2 \in Robots,
                      r1 # r2, spot[r1] # Nowhere, spot[r1] = spot[r2]
               PROVE  \E r \in {r1, r2} : InFlightAllocation(r, negotiator[r].ticket)
    BY DEF ExclusiveSpots
  <2>1. ASSUME NEW r \in Robots, Dec(r) # << >> PROVE InFlightAllocation(r, negotiator[r].ticket)
    <3>1. Follows(r) /\ Dec(r) \in Seq(AllocationMessage)
      BY FollowFacts DEF SpotInv, FollowsAll
    <3>2. PICK d \in Range(Dec(r)) : d.ticket = negotiator[r].ticket
      BY <2>1, <3>1, TailOfChannel DEF Follows
    <3> QED BY <3>2 DEF InFlightAllocation, Range, Dec
  <2>2. CASE Dec(r1) # << >> \/ Dec(r2) # << >>
    BY <2>1, <2>2
  <2>3. CASE Dec(r1) = << >> /\ Dec(r2) = << >>
    <3>1. /\ Sound(current_state)
          /\ \A r \in Robots : KnowsItsTickets(r) /\ Own(r) \subseteq Tickets
      BY FollowFacts, ProtocolFacts DEF SpotInv, NodeInv, NodeTypeOK, HolderAndPlacedAgree, Sound
    <3>2. ASSUME NEW r \in Robots, Dec(r) = << >>, spot[r] # Nowhere
          PROVE  \E t \in Own(r) : current_state.placed[t] = spot[r]
      BY <3>1, <3>2 DEF SpotInv, HoldsItsSpot, KnowsItsTickets
    <3>3. PICK t1 \in Own(r1) : current_state.placed[t1] = spot[r1]
      BY <2>3, <3>2
    <3>4. PICK t2 \in Own(r2) : current_state.placed[t2] = spot[r1]
      BY <2>3, <3>2
    <3>5. t1 = t2
      BY <3>1, <3>3, <3>4 DEF Sound, MapsAgree
    <3> QED BY <3>3, <3>4, <3>5 DEF Own
  <2> QED BY <2>2, <2>3
<1>3. Init => SpotInv
  BY FollowInitially DEF SpotInv
<1> QED BY <1>1, <1>2, <1>3, PTL DEF Spec

-----------------------------------------------------------------------------
(* With enough parking, and when every robot can use one of its goals:      *)
(* whoever waits has a place, and a place to wait at is only held by who    *)
(* waits.                                                                   *)

(* A list of alternatives names a goal, and nothing but goals.              *)
NamesGoals(list) == DOMAIN list # {} /\ \A i \in DOMAIN list : list[i].location \in Goals

(* What a robot asks for is something, and always a goal.                   *)
AsksForGoals(r) ==
  /\ negotiator[r].state # "None" => negotiator[r].goals \in GoalLists
  /\ \A m \in Range(Req(r)) : NamesGoals(m.alternatives)

GoalsInv ==
  /\ \A r \in Robots : AsksForGoals(r)
  /\ \A t \in Issued : NamesGoals(requests[t])

(* A ticket is placed where it asked to be, or it waits.                    *)
Parked ==
  \A t \in Issued :
    current_state.placed[t] \in Requested(t) \cup {Nowhere} \/ Waits(t)

ParkingInv == FollowInv /\ GoalsInv /\ Parked /\ WaitersArePlaced

(* A goal that is not skipped is kept.                                      *)
LEMMA SomethingIsKept ==
  ASSUME NEW r \in Robots, NEW goals \in Seq(Locations), NEW g \in DOMAIN goals,
         goals[g] \notin Skipped[r]
  PROVE  DOMAIN KeptOf(r, goals)[Len(goals)] # {}
<1> DEFINE N == Len(goals)
           kept == KeptOf(r, goals)
           Full(m) == kept[m] \in Seq(Locations) /\ (g <= m => DOMAIN kept[m] # {})
           T == {m \in 0..N : Full(m)}
<1>1. N \in Nat /\ DOMAIN goals = 1..N /\ \A n \in 1..N : goals[n] \in Locations
  BY LenProperties, ElementOfSeq
<1>2. /\ kept[0] = << >>
      /\ \A n \in 1..N : kept[n] = IF goals[n] \in Skipped[r] THEN kept[n - 1]
                                   ELSE Append(kept[n - 1], goals[n])
  BY KeptStepwise
<1> HIDE DEF N, kept
<1>3. 0 \in T
  <2>1. kept[0] \in Seq(Locations) /\ ~(g <= 0) /\ 0 \in 0..N
    BY <1>1, <1>2
  <2> QED BY <2>1
<1>4. ASSUME NEW m \in 0..(N - 1), m \in T PROVE m + 1 \in T
  <2>1. m + 1 \in 1..N /\ m + 1 \in 0..N /\ (m + 1) - 1 = m /\ Full(m)
    BY <1>1, <1>4
  <2>2. CASE goals[m + 1] \in Skipped[r]
    <3>1. kept[m + 1] = kept[m] /\ m + 1 # g
      BY <1>2, <2>1, <2>2
    <3> QED BY <1>1, <2>1, <3>1
  <2>3. CASE goals[m + 1] \notin Skipped[r]
    <3> DEFINE s == kept[m]
               e == goals[m + 1]
               u == Append(s, e)
    <3>1. kept[m + 1] = u /\ e \in Locations /\ s \in Seq(Locations)
      BY <1>1, <1>2, <2>1, <2>3
    <3> HIDE DEF s, e
    <3>2. u \in Seq(Locations) /\ Len(u) = Len(s) + 1 /\ Len(s) \in Nat
      BY <3>1, AppendProperties, LenProperties
    <3> HIDE DEF u
    <3>3. DOMAIN u # {}
      <4>1. DOMAIN u = 1..Len(u) /\ 1 \in 1..Len(u)
        BY <3>2, LenProperties
      <4> QED BY <4>1
    <3> QED BY <2>1, <3>1, <3>2, <3>3
  <2> QED BY <2>2, <2>3
<1>5. N \in T
  <2> HIDE DEF T
  <2>1. \A m \in 0..(N - 1) : m \in T => m + 1 \in T
    BY <1>4
  <2>2. 0..N \subseteq T
    BY <1>1, <1>3, <2>1, UpTo
  <2> QED BY <1>1, <2>2
<1> QED BY <1>1, <1>5 DEF N, kept

(* make_request asks for what it kept of the goals.                         *)
LEMMA RequestNamesGoals ==
  ASSUME SomeGoalIsKept, NEW r \in Robots, NEW goals \in GoalLists,
         NEW list, Lists(r, list, goals)
  PROVE  NamesGoals(list)
<1> DEFINE kept == KeptOf(r, goals)[Len(goals)]
<1>1. goals \in Seq(Locations)
  BY ProtocolAssumption
<1>2. DOMAIN kept # {} /\ Range(kept) \subseteq Range(goals)
  BY <1>1, KeptAreGoals, SomethingIsKept DEF SomeGoalIsKept
<1>3. DOMAIN list = DOMAIN kept /\ \A i \in DOMAIN list : list[i].location = kept[i]
  BY DEF Lists
<1> HIDE DEF kept
<1>4. \A g \in Range(goals) : g \in Goals
  BY DEF Goals, Range
<1> QED BY <1>2, <1>3, <1>4 DEF NamesGoals, Range

(* A robot that is left alone asks for what it asked for.                   *)
LEMMA OthersAsk ==
  ASSUME NEW r \in Robots, AsksForGoals(r), AdapterFrame(r), Req(r)' = Req(r)
  PROVE  AsksForGoals(r)'
BY DEF AsksForGoals, AdapterFrame, NamesGoals

(* A step that issues no ticket, and adds no request but goals.             *)
LEMMA AskingOn ==
  ASSUME GoalsInv, UNCHANGED <<ticket_store, requests>>, \A r \in Robots : AsksForGoals(r)'
  PROVE  GoalsInv'
BY DEF GoalsInv, NamesGoals, Issued

(* A request becomes a ticket's.                                            *)
LEMMA OnRequestAsks ==
  ASSUME ProtocolInv, GoalsInv, NEW r \in Robots, NodeOnRequest(r)
  PROVE  GoalsInv'
<1>0. NodeInv /\ ProtocolTypes /\ NodeStep /\ StepOf(r)
  BY ProtocolFacts, OnRequestKeeps DEF NodeOnRequest
<1>1. /\ Req(r) # << >> /\ Req(r)' = Tail(Req(r)) /\ Req(r) \in Seq(Request)
  BY <1>0, ReceiveEffect, RobotTypes DEF NodeOnRequest
<1>2. PICK q \in Range(Req(r)) : q = Head(Req(r))
  BY <1>1, TailOfChannel
<1>3. /\ q.alternatives \in Seq(LocationReq) /\ Range(Req(r)') \subseteq Range(Req(r))
      /\ OnRequest(r, q.request_id, q.alternatives) /\ NamesGoals(q.alternatives)
  <2>1. q \in Request /\ Range(Req(r)') \subseteq Range(Req(r))
    BY <1>1, <1>2, TailOfChannel
  <2> QED BY <1>2, <2>1 DEF Request, NodeOnRequest, Req, GoalsInv, AsksForGoals
<1>4. PICK t \in Tickets \ Issued :
        /\ Issued' = Issued \cup {t}
        /\ \A s \in Issued : /\ ticket_store'.header[s] = ticket_store.header[s]
                             /\ requests'[s] = requests[s]
        /\ ticket_store'.header[t] = r /\ requests'[t] = q.alternatives
        /\ current_state.placed[t] = Nowhere /\ ~Waits(t)
        /\ published' = <<TicketMsg(t, [robot |-> r, request_id |-> q.request_id])>>
  BY <1>0, <1>3, RequestEffect
<1>5. ASSUME NEW s \in Robots PROVE AsksForGoals(s)'
  <2>1. AsksForGoals(s) /\ AdapterFrame(s)
    BY <1>0, NodeStepFrames DEF GoalsInv
  <2>2. CASE s = r
    BY <1>3, <2>1, <2>2 DEF AsksForGoals, AdapterFrame, NamesGoals
  <2>3. CASE s # r
    BY <1>0, <2>1, <2>3, OthersAsk DEF StepOf, Frame, SameToNode
  <2> QED BY <2>2, <2>3
<1>6. ASSUME NEW s \in Issued' PROVE NamesGoals(requests[s])'
  BY <1>3, <1>4, <1>6 DEF GoalsInv, NamesGoals
<1> QED BY <1>5, <1>6 DEF GoalsInv

(* A step of an adapter that sends no request, and that changes the goals   *)
(* only when a task begins.                                                 *)
LEMMA AdapterAsks ==
  ASSUME GoalsInv, NEW r \in Robots, StepOf(r), UNCHANGED <<ticket_store, requests>>,
         Req(r)' = Req(r),
         \/ negotiator'[r].state = "None"
         \/ negotiator'[r].goals \in GoalLists
         \/ negotiator'[r] = negotiator[r]
         \/ /\ negotiator[r].state # "None"
            /\ negotiator'[r].goals = negotiator[r].goals
  PROVE  GoalsInv'
<1>1. AsksForGoals(r)'
  BY DEF GoalsInv, AsksForGoals, NamesGoals
<1>2. \A s \in Robots \ {r} : AsksForGoals(s)'
  BY OthersAsk DEF GoalsInv, StepOf, Frame, SameToNode
<1> QED BY <1>1, <1>2, AskingOn

(* A step of the node that takes no request.                                *)
LEMMA NodeAsks ==
  ASSUME GoalsInv, NodeStep, UNCHANGED <<ticket_store, requests>>,
         \A r \in Robots : Req(r)' = Req(r)
  PROVE  GoalsInv'
BY NodeStepFrames, OthersAsk, AskingOn DEF GoalsInv

(* Every step keeps it so.                                                  *)
LEMMA AskingStep ==
  ASSUME ProtocolInv, GoalsInv, SomeGoalIsKept, [Next]_vars
  PROVE  GoalsInv'
<1>0. ProtocolTypes
  BY ProtocolFacts
<1>1. CASE NodeServiceNext
  BY <1>1, NodeAsks DEF NodeServiceNext, ServiceNext, Req
<1>2. CASE NodeReceivedGraph
  BY <1>2, NodeAsks DEF NodeReceivedGraph, ReceivedGraph, Req
<1>3. CASE UNCHANGED vars
  <2>1. /\ UNCHANGED <<ticket_store, requests>>
        /\ \A r \in Robots : AdapterFrame(r) /\ Req(r)' = Req(r)
    BY <1>3 DEF vars, nodeVars, robotVars, AdapterFrame, Req
  <2> QED BY <2>1, OthersAsk, AskingOn DEF GoalsInv
<1>4. ASSUME NEW r \in Robots, NodeClaimRequest(r) \/ NodeRelease(r) PROVE GoalsInv'
  <2>1. /\ NodeStep /\ UNCHANGED <<ticket_store, requests>>
        /\ Receive(r, "claim") \/ Receive(r, "release")
    BY <1>4 DEF NodeClaimRequest, ClaimRequest, NodeRelease, Release
  <2>2. Req(r)' = Req(r) /\ \A s \in Robots \ {r} : Req(s)' = Req(s)
    BY <1>0, <2>1, ReceiveEffect DEF SameToNode
  <2> QED BY <2>1, <2>2, NodeAsks
<1>5. ASSUME NEW r \in Robots, NEW goals \in GoalLists, BeginGoToPlace(r, goals) PROVE GoalsInv'
  <2>1. /\ StepOf(r) /\ UNCHANGED <<ticket_store, requests>> /\ Req(r)' = Req(r)
        /\ negotiator'[r].goals = goals
    BY <1>0, <1>5, BeginKeeps DEF BeginGoToPlace, AdapterStep, Req, ProtocolTypes
  <2> QED BY <2>1, AdapterAsks
<1>6. ASSUME NEW r \in Robots, Finish(r) \/ Cancel(r) PROVE GoalsInv'
  <2>1. /\ StepOf(r) /\ UNCHANGED <<ticket_store, requests>> /\ Req(r)' = Req(r)
        /\ negotiator'[r].state = "None"
    BY <1>0, <1>6, EndKeeps DEF Finish, Cancel, AdapterStep, Req, ProtocolTypes, NoNegotiator
  <2> QED BY <2>1, AdapterAsks
<1>7. ASSUME NEW r \in Robots, NEW w \in WaitLists, OnTicket(r, w) PROVE GoalsInv'
  <2>1. /\ StepOf(r) /\ UNCHANGED <<ticket_store, requests>>
    BY <1>7, OnTicketKeeps DEF OnTicket, AdapterStep
  <2>2. /\ \/ negotiator'[r] = negotiator[r]
           \/ negotiator[r].state # "None" /\ negotiator'[r].goals = negotiator[r].goals
        /\ UNCHANGED to_node \/ \E m : Publish(r, "claim", m)
    <3>1. negotiator' = negotiator \/
            /\ negotiator[r].state # "None"
            /\ \E t : negotiator' = [negotiator EXCEPT ![r].ticket = t]
      BY <1>7 DEF OnTicket
    <3>2. UNCHANGED to_node \/ \E m : Publish(r, "claim", m)
      BY <1>7 DEF OnTicket
    <3> QED BY <1>0, <3>1, <3>2 DEF ProtocolTypes, Negotiator
  <2>3. Req(r)' = Req(r)
    BY <1>0, <2>2, PublishEffect DEF Req
  <2> QED BY <2>1, <2>2, <2>3, AdapterAsks
<1>8. ASSUME NEW r \in Robots, OnAllocation(r) PROVE GoalsInv'
  <2>1. /\ StepOf(r) /\ UNCHANGED <<ticket_store, requests>>
    BY <1>8, OnAllocationKeeps, Zenon DEF OnAllocation, AdapterStep
  <2>2. /\ \/ negotiator'[r] = negotiator[r]
           \/ negotiator[r].state # "None" /\ negotiator'[r].goals = negotiator[r].goals
        /\ UNCHANGED to_node \/ \E m : Publish(r, "release", m)
    <3>1. negotiator' = negotiator \/
            /\ negotiator[r].state # "None"
            /\ \E state : negotiator' = [negotiator EXCEPT ![r].state = state]
      BY <1>8 DEF OnAllocation
    <3>2. UNCHANGED to_node \/ \E m : Publish(r, "release", m)
      BY <1>8 DEF OnAllocation, ReplaceTicket
    <3> QED BY <1>0, <3>1, <3>2 DEF ProtocolTypes, Negotiator
  <2>3. Req(r)' = Req(r)
    BY <1>0, <2>2, PublishEffect DEF Req
  <2> QED BY <2>1, <2>2, <2>3, AdapterAsks, Zenon
<1>9. ASSUME NEW r \in Robots, NEW cost \in [Locations -> Costs], MakeRequest(r, cost)
      PROVE  GoalsInv'
  <2> DEFINE goals == negotiator[r].goals
             kept == KeptOf(r, goals)[Len(goals)]
             list == [i \in DOMAIN kept |-> [location |-> kept[i], cost |-> cost[kept[i]]]]
             m == [request_id |-> negotiator[r].request_id, alternatives |-> list]
  <2>1. /\ StepOf(r) /\ UNCHANGED <<ticket_store, requests>>
        /\ negotiator[r].state = "Pending" /\ Publish(r, "request", m)
    BY <1>9, MakeRequestKeeps, Zenon DEF MakeRequest, AdapterStep
  <2>2. negotiator'[r].goals = goals
    BY <1>0, <1>9 DEF MakeRequest, ProtocolTypes
  <2>3. goals \in GoalLists /\ Lists(r, list, goals) /\ m \in Request
    BY <1>0, <2>1, RequestIsTyped, Zenon DEF GoalsInv, AsksForGoals
  <2> HIDE DEF goals, kept, list
  <2>4. NamesGoals(m.alternatives)
    BY <2>3, RequestNamesGoals
  <2> HIDE DEF m
  <2>5. Range(Req(r)') = Range(Req(r)) \cup {m}
    <3>1. Req(r)' = Append(Req(r), m) /\ Req(r) \in Seq(Request)
      BY <1>0, <2>1, PublishEffect, RobotTypes
    <3> QED BY <2>3, <3>1, AppendToChannel
  <2>6. AsksForGoals(r)'
    BY <2>2, <2>3, <2>4, <2>5 DEF GoalsInv, AsksForGoals, NamesGoals, goals
  <2>7. \A s \in Robots \ {r} : AsksForGoals(s)'
    BY <2>1, OthersAsk DEF GoalsInv, StepOf, Frame, SameToNode
  <2> QED BY <2>1, <2>6, <2>7, AskingOn, Zenon
<1> QED BY <1>1, <1>2, <1>3, <1>4, <1>5, <1>6, <1>7, <1>8, <1>9, OnRequestAsks
        DEF Next, NodeActions, Respond

(* A claim that is answered with nothing found every wait point held.       *)
LEMMA WaitPointsAreHeld ==
  ASSUME NodeInv, NEW t \in Issued, NEW w \in WaitLists, ClaimRequest(t, w),
         current_state.placed[t] = Nowhere, published' = << >>, NEW i \in DOMAIN w
  PROVE  w[i] \in Locations /\ current_state.holder[w[i]] # NoTicket
<1> DEFINE list == WaitReqs(w)
<1>1. /\ w \in Seq(Locations) /\ list \in Seq(LocationReq) /\ current_state \in State
      /\ Released(current_state, t) = current_state
  BY ConstantsAssumption, WaitReqsIsTyped DEF NodeInv, NodeTypeOK, Released
<1>2. i \in DOMAIN list /\ list[i].location = w[i]
  BY DEF WaitReqs
<1>3. \A l, k, n : published' # <<Allocation(l, k, n, i)>>
  OBVIOUS
<1>4. Choices(current_state, list, t) = {}
  BY <1>1 DEF ClaimRequest, ClaimProceed, ClaimWait
<1>5. CheapestFree(current_state, list) = {}
  BY <1>4 DEF Choices
<1> HIDE DEF list
<1>6. list[i].location \in Locations
  BY <1>1, <1>2, ListIndices
<1> QED BY <1>1, <1>2, <1>5, <1>6, FreeSpotIsFound

(* A step that leaves the queues and the tickets' places and requests alone. *)
LEMMA QuietParks ==
  ASSUME Parked, WaitersArePlaced, UNCHANGED <<ticket_store, requests, queues>>,
         current_state'.placed = current_state.placed
  PROVE  Parked' /\ WaitersArePlaced'
BY DEF Parked, WaitersArePlaced, Waits, Issued, Requested

(* A new ticket is placed nowhere.                                          *)
LEMMA RequestParks ==
  ASSUME NodeInv, Parked, WaitersArePlaced,
         NEW r \in Robots, NEW id, NEW a \in Seq(LocationReq), OnRequest(r, id, a)
  PROVE  Parked' /\ WaitersArePlaced'
<1>1. current_state' = current_state /\ queues' = queues
  BY DEF OnRequest
<1>2. PICK t \in Tickets \ Issued :
        /\ Issued' = Issued \cup {t}
        /\ \A s \in Issued : /\ ticket_store'.header[s] = ticket_store.header[s]
                             /\ requests'[s] = requests[s]
        /\ ticket_store'.header[t] = r /\ requests'[t] = a
        /\ current_state.placed[t] = Nowhere /\ ~Waits(t)
        /\ published' = <<TicketMsg(t, [robot |-> r, request_id |-> id])>>
  BY RequestEffect
<1> QED BY <1>1, <1>2 DEF Parked, WaitersArePlaced, Waits, Requested

(* A claim parks its ticket, unless it is answered with nothing; a ticket   *)
(* of the same robot that it moves must not wait.                           *)
LEMMA ClaimParks ==
  ASSUME ServingInv, Parked, WaitersArePlaced, NEW t \in Issued, NEW w \in WaitLists,
         Untouched(t), ClaimRequest(t, w), DOMAIN requests[t] # {}, published' # << >>,
         \A s \in Tickets \ {t} : Waits(s) => ticket_store.header[s] # ticket_store.header[t]
  PROVE  Parked' /\ WaitersArePlaced'
<1>0. /\ QueuesInv /\ NodeInv /\ t \in Tickets /\ Issued \subseteq Tickets /\ OnlyTicket(t)
      /\ Nowhere \notin Locations /\ requests[t] \in Seq(LocationReq)
  BY IssuedTypes, ClaimIsOfOneTicket, ConstantsAssumption
     DEF ServingInv, QueuesInv, NodeInv, NodeTypeOK
<1>1. Issued' = Issued /\ \A s : Requested(s)' = Requested(s)
  BY <1>0 DEF OnlyTicket, Issued, Requested
<1>2. /\ \A s \in Issued \ {t} : current_state'.placed[s] \in Requested(s) \cup {Nowhere} \/ Waits(s)'
      /\ \A s \in Tickets \ {t} : Waits(s)' => current_state'.placed[s] # Nowhere
  BY <1>0 DEF OnlyTicket, Parked, WaitersArePlaced
<1>3. /\ current_state'.placed[t] \in Requested(t) \cup {Nowhere} \/ Waits(t)'
      /\ Waits(t)' => current_state'.placed[t] # Nowhere
  <2>1. CASE Proceeds(t)
    <3>1. PICK i \in DOMAIN requests[t] :
            MovedTo(t, requests[t][i].location) /\ queues' = queues
      BY <2>1 DEF Proceeds
    <3> QED BY <1>0, <3>1 DEF MovedTo, Requested, Untouched, Waits
  <2>2. ASSUME NEW l \in Locations, WaitsAt(t, l)
        PROVE  Waits(t)' /\ current_state'.placed[t] # Nowhere
    <3>1. PICK i \in DOMAIN requests[t] : requests[t][i].location \in Locations
      BY <1>0, ListIndices
    <3> QED BY <1>0, <2>2, <3>1 DEF WaitsAt, MovedTo, Joins, Waits, Requested
  <2>3. ~WaitsNowhere(t)
    BY DEF WaitsNowhere
  <2> QED BY <1>0, <2>1, <2>2, <2>3, ClaimEffect
<1> QED BY <1>1, <1>2, <1>3 DEF Parked, WaitersArePlaced

(* A release of a ticket that does not wait.                                *)
LEMMA ReleaseParks ==
  ASSUME NodeInv, Parked, WaitersArePlaced, NEW t \in Issued, Release(t), ~Waits(t)
  PROVE  Parked' /\ WaitersArePlaced'
<1>1. /\ UNCHANGED <<ticket_store, requests, queues>> /\ Issued \subseteq Tickets
      /\ \A s \in Tickets : current_state'.placed[s] =
           IF s = t THEN Nowhere ELSE current_state.placed[s]
  BY IssuedTypes, ReleaseEffect DEF Release
<1> QED BY <1>1 DEF Parked, WaitersArePlaced, Waits, Issued, Requested

(* The loop gives a waiter, who has a place, a location it requested.        *)
LEMMA ServiceParks ==
  ASSUME ServingInv, Parked, WaitersArePlaced, ServiceNext
  PROVE  Parked' /\ WaitersArePlaced'
<1>0. /\ NodeInv /\ Issued \subseteq Tickets /\ freed \in Locations
      /\ UNCHANGED <<ticket_store, requests>>
  BY IssuedTypes, ServiceEffect DEF ServingInv, QueuesInv
<1>1. CASE LoopEnds
  BY <1>0, <1>1, QuietParks DEF LoopEnds
<1>2. ASSUME NEW t \in Issued, Contains(queues[freed], t), Leaves(t), Dropped(t) \/ Served(t)
      PROVE  Parked' /\ WaitersArePlaced'
  <2>1. t \in Tickets /\ Waits(t) /\ current_state.placed[t] # Nowhere
    BY <1>0, <1>2 DEF Waits, WaitersArePlaced
  <2>2. PICK i \in DOMAIN requests[t] : MovedToFree(t, requests[t][i].location)
    BY <1>2, <2>1 DEF Dropped, Served
  <2>3. /\ current_state'.placed[t] \in Requested(t)
        /\ \A s \in Tickets \ {t} : current_state'.placed[s] = current_state.placed[s]
    BY <2>2 DEF MovedToFree, Requested
  <2>4. ~Waits(t)' /\ \A s \in Tickets \ {t} : Waits(s)' <=> Waits(s)
    BY <1>2, <2>1, WaitsAfter
  <2> QED BY <1>0, <2>3, <2>4 DEF Parked, WaitersArePlaced, Issued, Requested
<1> QED BY <1>1, <1>2, ServiceEffect

(* Whoever waits is the ticket its robot's negotiator follows.              *)
LEMMA WaitersAreFollowed ==
  ASSUME FollowInv, NEW t, Waits(t)
  PROVE  /\ t \in Issued /\ ticket_store.header[t] \in Robots
         /\ t = negotiator[ticket_store.header[t]].ticket
<1>1. NodeInv
  BY ProtocolFacts DEF FollowInv
<1>2. t \in Issued /\ ticket_store.header[t] \in Robots
  BY <1>1, WaitersAreIssued DEF NodeInv, OnlyIssued
<1>3. t \in Own(ticket_store.header[t]) /\ Follows(ticket_store.header[t])
  BY <1>2 DEF FollowInv, Own
<1> QED BY <1>2, <1>3 DEF Follows

(* The holder of a parking spot that is nobody's goal waits.                *)
LEMMA ParkedHolderWaits ==
  ASSUME ParkingInv, NEW l \in Locations \ Goals, current_state.holder[l] # NoTicket
  PROVE  LET h == current_state.holder[l]
         IN  Waits(h) /\ current_state.placed[h] = l
<1> DEFINE h == current_state.holder[l]
<1>1. NodeInv /\ Nowhere \notin Locations
  BY ProtocolFacts DEF ParkingInv, FollowInv
<1>2. h \in Issued /\ h \in Tickets /\ current_state.placed[h] = l
  BY <1>1, IssuedTypes, HolderIsPlaced DEF NodeInv, OnlyIssued
<1> HIDE DEF h
<1>3. \A g \in Requested(h) : g \in Goals
  BY <1>2 DEF ParkingInv, GoalsInv, NamesGoals, Requested
<1>4. l \notin Requested(h) \cup {Nowhere}
  BY <1>1, <1>3
<1> QED BY <1>2, <1>4 DEF ParkingInv, Parked, h

(* Not all wait points are held while a robot's ticket is placed nowhere:   *)
(* the holders of those that are nobody's goal are tickets that wait, each  *)
(* is the one its robot follows, and there is one robot too few for them.   *)
LEMMA SomeWaitPointIsFree ==
  ASSUME ParkingInv, EnoughParking, NEW w \in WaitLists, NEW r \in Robots,
         current_state.placed[negotiator[r].ticket] = Nowhere,
         \A i \in DOMAIN w : w[i] \in Locations /\ current_state.holder[w[i]] # NoTicket
  PROVE  FALSE
<1> DEFINE S == {w[i] : i \in DOMAIN w} \ Goals
           holder == current_state.holder
           robot == [l \in S |-> ticket_store.header[holder[l]]]
<1>1. FollowInv /\ Nowhere \notin Locations
  BY ProtocolFacts DEF ParkingInv, FollowInv
<1>2. ASSUME NEW l \in S
      PROVE  /\ l \in Locations /\ current_state.placed[holder[l]] = l
             /\ robot[l] \in Robots /\ holder[l] = negotiator[robot[l]].ticket
  <2>1. l \in Locations \ Goals /\ holder[l] # NoTicket
    OBVIOUS
  <2>2. Waits(holder[l]) /\ current_state.placed[holder[l]] = l
    BY <2>1, ParkedHolderWaits
  <2> QED BY <1>1, <2>1, <2>2, WaitersAreFollowed
<1> HIDE DEF S, robot
<1>3. robot \in [S -> Robots \ {r}]
  <2>1. robot = [l \in S |-> robot[l]]
    BY DEF robot
  <2>2. ASSUME NEW l \in S PROVE robot[l] \in Robots \ {r}
    BY <1>1, <1>2
  <2> QED BY <2>1, <2>2
<1>4. \A l, m \in S : robot[l] = robot[m] => l = m
  BY <1>2
<1>5. /\ IsFiniteSet(Robots \ {r}) /\ Cardinality(Robots \ {r}) = Cardinality(Robots) - 1
      /\ Cardinality(Robots) \in Nat
  BY FS_RemoveElement, FS_CardinalityType DEF EnoughParking
<1>6. robot \in Injection(S, Robots \ {r})
  BY <1>3, <1>4 DEF Injection, IsInjective
<1>7. IsFiniteSet(S) /\ Cardinality(S) <= Cardinality(Robots \ {r})
  BY <1>5, <1>6, FS_Injection
<1>8. Cardinality(S) \in Nat
  BY <1>7, FS_CardinalityType
<1>9. Cardinality(S) >= Cardinality(Robots)
  BY DEF EnoughParking, S
<1> QED BY <1>5, <1>7, <1>8, <1>9

(* Every step keeps the waiters placed, and the places for those who wait.  *)
LEMMA ParkingStep ==
  ASSUME ParkingInv, EnoughParking, SomeGoalIsKept, MayCancel = FALSE, MayAskAgain = FALSE,
         [Next]_vars
  PROVE  ParkingInv'
<1>0. /\ FollowInv /\ ProtocolInv /\ ServingInv /\ NodeInv /\ ProtocolTypes
      /\ GoalsInv /\ Parked /\ WaitersArePlaced /\ Issued \subseteq Tickets
  BY ProtocolFacts DEF ParkingInv, FollowInv
<1>1. FollowInv' /\ GoalsInv'
  BY <1>0, FollowStep, StepKeeps, AskingStep DEF FollowInv, FollowsOn, FollowsAll
<1> SUFFICES Parked' /\ WaitersArePlaced'
  BY <1>1 DEF ParkingInv
<1>2. CASE NodeServiceNext
  BY <1>0, <1>2, ServiceParks DEF NodeServiceNext
<1>3. CASE NodeReceivedGraph
  <2>1. /\ UNCHANGED <<ticket_store, requests, queues>>
        /\ current_state'.placed = current_state.placed
    BY <1>0, <1>3, IssuedTypes DEF NodeReceivedGraph, ReceivedGraph, Sound, State
  <2> QED BY <1>0, <2>1, QuietParks
<1>4. CASE UNCHANGED vars
  BY <1>0, <1>4, QuietParks DEF vars, nodeVars
<1>5. CASE AdapterStep
  BY <1>0, <1>5, QuietParks DEF AdapterStep
<1>6. ASSUME NEW r \in Robots, NodeOnRequest(r) PROVE Parked' /\ WaitersArePlaced'
  <2>1. Req(r) # << >> /\ Req(r) \in Seq(Request)
    BY <1>0, <1>6, ReceiveEffect, RobotTypes DEF NodeOnRequest
  <2>2. Head(Req(r)) \in Request
    BY <2>1, TailOfChannel
  <2>3. /\ Head(Req(r)).alternatives \in Seq(LocationReq)
        /\ OnRequest(r, Head(Req(r)).request_id, Head(Req(r)).alternatives)
    BY <1>6, <2>2 DEF NodeOnRequest, Req, Request
  <2> QED BY <1>0, <2>3, RequestParks
<1>7. ASSUME NEW r \in Robots, NodeRelease(r) PROVE Parked' /\ WaitersArePlaced'
  <2>1. Rel(r) # << >> /\ Rel(r) \in Seq(Tickets)
    BY <1>0, <1>7, ReceiveEffect, RobotTypes DEF NodeRelease
  <2>2. PICK t \in Range(Rel(r)) : t = Head(Rel(r))
    BY <2>1, TailOfChannel
  <2>3. Release(t) /\ t \in Own(r) /\ ~Waits(t)
    BY <1>0, <1>7, <2>2, FollowFacts
       DEF NodeRelease, Rel, KnowsItsTickets, FollowsAll, Follows
  <2> QED BY <1>0, <2>3, ReleaseParks DEF Own
<1>8. ASSUME NEW r \in Robots, NodeClaimRequest(r) PROVE Parked' /\ WaitersArePlaced'
  <2>1. Clm(r) # << >> /\ Clm(r) \in Seq(ClaimMessage)
    BY <1>0, <1>8, ReceiveEffect, RobotTypes DEF NodeClaimRequest
  <2>2. PICK c \in Range(Clm(r)) : c = Head(Clm(r))
    BY <2>1, TailOfChannel
  <2>3. c \in ClaimMessage
    BY <2>1, RangeTyped
  <2> DEFINE t == c.ticket
             w == c.wait_points
  <2>4. /\ ClaimRequest(t, w) /\ w \in WaitLists /\ t \in Own(r) /\ Untouched(t)
        /\ t = negotiator[r].ticket
    BY <1>0, <1>8, <2>2, <2>3, FollowFacts, NothingElseInFlight
       DEF NodeClaimRequest, Clm, ClaimMessage, KnowsItsTickets, ClaimsOnce
  <2> HIDE DEF t, w
  <2>5. t \in Issued /\ ticket_store.header[t] = r /\ current_state.placed[t] = Nowhere
    BY <2>4 DEF Own, Untouched
  <2>6. DOMAIN requests[t] # {}
    BY <1>0, <2>5 DEF GoalsInv, NamesGoals
  <2>7. published' # << >>
    <3>1. SUFFICES ASSUME published' = << >> PROVE FALSE
      OBVIOUS
    <3>2. \A i \in DOMAIN w : w[i] \in Locations /\ current_state.holder[w[i]] # NoTicket
      BY <1>0, <2>4, <2>5, <3>1, WaitPointsAreHeld
    <3> QED BY <2>4, <2>5, <3>2, SomeWaitPointIsFree
  <2>8. \A s \in Tickets \ {t} : Waits(s) => ticket_store.header[s] # ticket_store.header[t]
    BY <1>0, <2>4, <2>5, WaitersAreFollowed, Zenon
  <2> QED BY <1>0, <2>4, <2>5, <2>6, <2>7, <2>8, ClaimParks
<1>9. ASSUME NEW r \in Robots,
             \/ \E goals \in GoalLists : BeginGoToPlace(r, goals)
             \/ Respond(r) \/ Finish(r) \/ Cancel(r)
      PROVE  AdapterStep
  BY <1>9, Zenon DEF BeginGoToPlace, Respond, MakeRequest, OnTicket, OnAllocation, Finish, Cancel
<1> QED BY <1>2, <1>3, <1>4, <1>5, <1>6, <1>7, <1>8, <1>9 DEF Next, NodeActions

(* At first there are no requests and nobody waits.                         *)
LEMMA ParkingInitially == Init => ParkingInv
<1> SUFFICES ASSUME Init PROVE ParkingInv
  OBVIOUS
<1>1. FollowInv
  BY FollowInitially
<1>2. GoalsInv
  <2>1. Issued = {}
    BY DEF Init, NodeInit, Issued
  <2>2. ASSUME NEW r \in Robots PROVE AsksForGoals(r)
    <3>1. negotiator[r].state = "None" /\ Range(Req(r)) = {}
      BY ChannelsStartEmpty DEF Init, NoNegotiator
    <3> QED BY <3>1 DEF AsksForGoals
  <2> QED BY <2>1, <2>2 DEF GoalsInv
<1>3. Parked /\ WaitersArePlaced
  <2>1. DOMAIN << >> = {} /\ Issued = {}
    BY DEF Init, NodeInit, Issued
  <2>2. \A t : ~Waits(t)
    BY <2>1 DEF Init, NodeInit, Waits, Contains
  <2> QED BY <2>1, <2>2 DEF Parked, WaitersArePlaced
<1> QED BY <1>1, <1>2, <1>3 DEF ParkingInv

(* With enough parking everybody who waits has a place.                     *)
THEOREM EverybodyWaitsSomewhere ==
  ASSUME EnoughParking, SomeGoalIsKept, MayCancel = FALSE, MayAskAgain = FALSE
  PROVE  Spec => []ParkingInv
<1>1. ParkingInv /\ [Next]_vars => ParkingInv'
  BY ParkingStep
<1> QED BY <1>1, ParkingInitially, PTL DEF Spec

(* With enough parking nobody is overtaken: no assumption about how the     *)
(* queues are used remains.                                                 *)
THEOREM NobodyIsOvertakenWithParking ==
  ASSUME EnoughParking, SomeGoalIsKept, MayCancel = FALSE, MayAskAgain = FALSE
  PROVE  Spec => []NobodyIsOvertaken
<1>1. ParkingInv => WaitersArePlaced
  BY DEF ParkingInv
<1> QED BY <1>1, EverybodyWaitsSomewhere, NoOvertaking, PTL

(* A ticket placed where it did not ask to be is in the queue of every      *)
(* location it asked for, and each of these is held, or its queue is being  *)
(* served: who waits will be found when one of them is freed.               *)
WaitersKeepTheirQueues ==
  \A t \in Issued :
    current_state.placed[t] \notin Requested(t) \cup {Nowhere} =>
      /\ Requested(t) # {}
      /\ \A l \in Requested(t) :
           Contains(queues[l], t) /\ (current_state.holder[l] # NoTicket \/ l = freed)

(* With enough parking no robot waits at a spot forgotten by the queues of   *)
(* its goals, or for a goal that is free.                                   *)
THEOREM NoWaiterIsForgotten ==
  ASSUME EnoughParking, SomeGoalIsKept, MayCancel = FALSE, MayAskAgain = FALSE
  PROVE  Spec => []WaitersKeepTheirQueues
<1>1. ParkingInv /\ FreeUnwanted => WaitersKeepTheirQueues
  <2> SUFFICES ASSUME ParkingInv, FreeUnwanted, NEW t \in Issued,
                      current_state.placed[t] \notin Requested(t) \cup {Nowhere}
               PROVE  /\ Requested(t) # {}
                      /\ \A l \in Requested(t) :
                           /\ Contains(queues[l], t)
                           /\ current_state.holder[l] # NoTicket \/ l = freed
    BY DEF WaitersKeepTheirQueues
  <2>1. /\ QueuesInv /\ t \in Tickets /\ \A s \in Tickets : Requested(s) \subseteq Locations
    BY ProtocolFacts, QueueTypes DEF ParkingInv, FollowInv
  <2>2. PICK l \in Locations : Contains(queues[l], t)
    BY DEF ParkingInv, Parked, Waits
  <2>3. l \in Requested(t) /\ \A m \in Requested(t) : Contains(queues[m], t)
    BY <2>1, <2>2 DEF QueuesInv, QueuesAgree
  <2> QED BY <2>1, <2>3 DEF FreeUnwanted
<1>2. Init => FreeUnwanted
  BY NothingIsWantedAtFirst
<1>3. ParkingInv /\ FreeUnwanted /\ [Next]_vars => FreeUnwanted'
  <2>1. ParkingInv => ProtocolInv /\ WaitersArePlaced
    BY DEF ParkingInv, FollowInv
  <2> QED BY <2>1, StepKeeps, ProtocolFacts, NobodyOvertakes
<1> QED BY <1>1, <1>2, <1>3, EverybodyWaitsSomewhere, PTL DEF Spec
=============================================================================
