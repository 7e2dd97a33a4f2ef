----------------------------- MODULE RecentFlowsProofs -----------------------------
(***********************************************************************************)
(* What is proved of RecentFlows, for every table of packets and every length of the  *)
(* window: the list has an entry for each recent flow, and its bytes are bounded by    *)
(* those of the flow's packets.  And what is proved of WindowValues, for every table    *)
(* that a reader can fill: what the values of the entropies are.                        *)
(***********************************************************************************)
EXTENDS WindowValues, SlidingWindowProofs

USE DEF vars, windowVars, slidingVars, recentVars

-------------------------------------------------------------------------------------
(* The order of a set of numbers.                                                    *)

\* A finite set of numbers can be put in order: its least element first, then the others.
LEMMA OrderExists ==
  ASSUME NEW P \in SUBSET Nat, IsFiniteSet(P)
  PROVE  \E f \in [1 .. Cardinality(P) -> P] :
           \A m, n \in 1 .. Cardinality(P) : m < n => f[m] < f[n]
  <1> DEFINE Ordered(Q, c) == \E f \in [1 .. c -> Q] : \A m, n \in 1 .. c : m < n => f[m] < f[n]
             D == {c \in Nat : \E Q \in SUBSET P : Cardinality(Q) = c /\ ~Ordered(Q, c)}
  <1>1. ASSUME NEW Q \in SUBSET P, Cardinality(Q) = 0
        PROVE  Ordered(Q, 0)
    <2>1. IsFiniteSet(Q)
      BY FS_Subset
    <2>2. Q = {} /\ 1 .. 0 = {}
      BY <1>1, <2>1, FS_EmptySet
    <2>3. [x \in 1 .. 0 |-> x] \in [1 .. 0 -> Q]
      BY <2>2
    <2> QED
      BY <2>2, <2>3
  <1>2. ASSUME NEW c \in Nat, c # 0, NEW Q \in SUBSET P, Cardinality(Q) = c,
               \A R \in SUBSET P : Cardinality(R) = c - 1 => Ordered(R, c - 1)
        PROVE  Ordered(Q, c)
    <2>1. IsFiniteSet(Q) /\ Q # {} /\ Q \in SUBSET Nat
      BY <1>2, FS_Subset, FS_EmptySet
    <2>2. PICK least \in Q : \A m \in Q : least <= m
      BY <2>1, SmallestElement
    <2> DEFINE R == Q \ {least}
    <2>3. R \in SUBSET P /\ Cardinality(R) = c - 1
      BY <1>2, <2>1, <2>2, FS_RemoveElement
    <2> HIDE DEF Ordered
    <2>4. Ordered(R, c - 1)
      BY <1>2, <2>3
    <2>5. PICK g \in [1 .. c - 1 -> R] : \A m, n \in 1 .. c - 1 : m < n => g[m] < g[n]
      BY <2>4 DEF Ordered
    <2> DEFINE f == [m \in 1 .. c |-> IF m = 1 THEN least ELSE g[m - 1]]
    <2>6. \A m \in 1 .. c : m # 1 => m - 1 \in 1 .. c - 1 /\ g[m - 1] \in R
      BY <1>2
    <2>7. f \in [1 .. c -> Q]
      BY <2>2, <2>6
    <2>8. ASSUME NEW m \in 1 .. c, NEW n \in 1 .. c, m < n
          PROVE  f[m] < f[n]
      <3>1. n # 1 /\ g[n - 1] \in R /\ f[n] = g[n - 1]
        BY <2>6, <2>8
      <3>2. CASE m = 1
        <4>1. g[n - 1] # least /\ least <= g[n - 1] /\ least \in Nat /\ g[n - 1] \in Nat
          BY <2>1, <2>2, <3>1
        <4> QED
          BY <3>1, <3>2, <4>1
      <3>3. CASE m # 1
        BY <2>5, <2>6, <2>8, <3>1, <3>3
      <3> QED
        BY <3>2, <3>3
    <2> QED
      BY <2>7, <2>8 DEF Ordered
  <1> HIDE DEF Ordered
  <1>3. D = {}
    <2> SUFFICES ASSUME D # {} PROVE FALSE
      OBVIOUS
    <2>1. PICK c \in D : \A m \in D : c <= m
      <3>1. D \in SUBSET Nat
        OBVIOUS
      <3> HIDE DEF D
      <3> QED
        BY <3>1, SmallestElement
    <2>2. c \in Nat /\ c # 0
      BY <1>1
    <2>3. c - 1 \in Nat /\ c - 1 \notin D
      BY <2>1, <2>2
    <2> QED
      BY <1>2, <2>2, <2>3
  <1>4. Cardinality(P) \in Nat
    BY FS_CardinalityType
  <1> QED
    BY <1>3, <1>4 DEF Ordered

\* The order has every element once.
LEMMA OrderFacts ==
  ASSUME NEW P \in SUBSET Nat, IsFiniteSet(P)
  PROVE  /\ Cardinality(P) \in Nat
         /\ \A m \in 1 .. Cardinality(P) : InOrder(P)[m] \in P
         /\ \A m, n \in 1 .. Cardinality(P) : m # n => InOrder(P)[m] # InOrder(P)[n]
         /\ \A p \in P : \E m \in 1 .. Cardinality(P) : InOrder(P)[m] = p
  <1> DEFINE c == Cardinality(P)  f == InOrder(P)
  <1>1. c \in Nat
    BY FS_CardinalityType
  <1>2. f \in [1 .. c -> P] /\ \A m, n \in 1 .. c : m < n => f[m] < f[n]
    BY OrderExists DEF InOrder
  <1> HIDE DEF f
  <1>3. \A m, n \in 1 .. c : m # n => f[m] # f[n]
    <2> SUFFICES ASSUME NEW m \in 1 .. c, NEW n \in 1 .. c, m # n PROVE f[m] # f[n]
      OBVIOUS
    <2>1. m < n \/ n < m
      BY <1>1
    <2>2. f[m] \in Nat /\ f[n] \in Nat
      BY <1>2
    <2> QED
      BY <1>2, <2>1, <2>2
  <1>4. \A p \in P : \E m \in 1 .. c : f[m] = p
    <2>1. IsFiniteSet(1 .. c) /\ Cardinality(1 .. c) = c
      BY <1>1, FS_Interval
    <2>2. f \in Injection(1 .. c, P)
      <3>1. DOMAIN f = 1 .. c
        BY <1>2
      <3>2. IsInjective(f)
        BY <1>3, <3>1 DEF IsInjective
      <3> QED
        BY <1>2, <3>2 DEF Injection
    <2> HIDE DEF c
    <2>3. f \in Surjection(1 .. c, P)
      BY <2>1, <2>2, FS_Injection DEF c
    <2> QED
      BY <2>3 DEF Surjection
  <1> QED
    BY <1>1, <1>2, <1>3, <1>4 DEF f

-------------------------------------------------------------------------------------
(* The packets of a flow among those treated when K of the packets of sub-interval I    *)
(* are.                                                                              *)

Flows(T) == UNION {{T[n][m].h : m \in 1 .. Len(T[n])} : n \in Slots}
TreatedAt(T, n, h, I, K) ==
  {m \in 1 .. Len(T[n]) : T[n][m].h = h /\ (n < I \/ (n = I /\ m <= K))}
PacketsAt(T, h, S, I, K) == UNION {{n} \X TreatedAt(T, n, h, I, K) : n \in S \cap Slots}
BytesAt(T, h, S, I, K) ==
  Tally(PacketsAt(T, h, S, I, K), [p \in PacketsAt(T, h, S, I, K) |-> T[p[1]][p[2]].size])
SeenAt(T, h, I, K) == {n \in Slots : TreatedAt(T, n, h, I, K) # {}}
SteadyAt(T, h, I, K) ==
  /\ \A n \in Slots : Cardinality(TreatedAt(T, n, h, I, K)) <= 1
  /\ \A n, m \in SeenAt(T, h, I, K) : n < m /\ (\A l \in SeenAt(T, h, I, K) : l <= n \/ l >= m) =>
                               m - n <= NumSubintervals

Sizes == [p \in Slots \X Nat |-> fsd_traces[p[1]][p[2]].size]

\* They are finitely many, and the bytes are counted with one weight.
LEMMA PacketsAre ==
  ASSUME TracesOK, NEW h, NEW S, NEW K \in Nat
  PROVE  /\ IsFiniteSet(PacketsAt(fsd_traces, h, S, i, K))
         /\ PacketsAt(fsd_traces, h, S, i, K) \subseteq Slots \X Nat
         /\ \A p \in PacketsAt(fsd_traces, h, S, i, K) : Sizes[p] \in Nat
         /\ BytesAt(fsd_traces, h, S, i, K) = Tally(PacketsAt(fsd_traces, h, S, i, K), Sizes)
         /\ BytesAt(fsd_traces, h, S, i, K) \in Nat
  <1> DEFINE P == PacketsAt(fsd_traces, h, S, i, K)
             lens == [n \in Slots |-> Len(fsd_traces[n])]
  <1>1. IsFiniteSet(Units(Slots, lens))
    <2>1. IsFiniteSet(Slots)
      BY FS_Interval, WindowAssumption DEF Slots
    <2>2. \A n \in Slots : lens[n] \in Nat
      BY DEF TracesOK
    <2> HIDE DEF lens
    <2> QED
      BY <2>1, <2>2, UnitsFinite
  <1>2. P \subseteq Units(Slots, lens)
    BY DEF PacketsAt, TreatedAt, Positions, Units
  <1>3. P \subseteq Slots \X Nat
    BY DEF PacketsAt, TreatedAt, Positions, TracesOK
  <1>4. ASSUME NEW p \in P
        PROVE  p \in Slots \X Nat /\ Sizes[p] = fsd_traces[p[1]][p[2]].size /\ Sizes[p] \in Nat
    <2>0. PICK n \in Slots : \E m \in 1 .. Len(fsd_traces[n]) : p = <<n, m>>
      BY <1>4 DEF PacketsAt, TreatedAt, Positions
    <2>1. PICK m \in 1 .. Len(fsd_traces[n]) : p = <<n, m>>
      BY <2>0
    <2>2. p \in Slots \X Nat
      BY <2>1 DEF TracesOK
    <2>3. Sizes[p] = fsd_traces[n][m].size /\ fsd_traces[p[1]][p[2]] = fsd_traces[n][m]
      BY <2>1, <2>2 DEF Sizes
    <2> QED
      BY <2>1, <2>2, <2>3 DEF TracesOK
  <1>5. IsFiniteSet(P)
    BY <1>1, <1>2, FS_Subset
  <1>6. BytesAt(fsd_traces, h, S, i, K) = Tally(P, Sizes)
    <2> DEFINE w == [p \in P |-> fsd_traces[p[1]][p[2]].size]
    <2>1. BytesAt(fsd_traces, h, S, i, K) = Tally(P, w)
      BY DEF BytesAt
    <2>2. \A p \in P : w[p] = Sizes[p]
      BY <1>4
    <2> HIDE DEF w, P
    <2> QED
      BY <2>1, <2>2, TallySame
  <1>7. Tally(P, Sizes) \in Nat
    <2> HIDE DEF P
    <2> QED
      BY <1>4, <1>5, TallyType
  <1> QED
    BY <1>3, <1>4, <1>5, <1>6, <1>7

\* The bytes of disjoint sets of sub-intervals add up.
LEMMA BytesAdd ==
  ASSUME TracesOK, NEW h, NEW S, NEW T, S \cap T = {}, NEW K \in Nat
  PROVE  BytesAt(fsd_traces, h, S \cup T, i, K)
           = BytesAt(fsd_traces, h, S, i, K) + BytesAt(fsd_traces, h, T, i, K)
  <1> DEFINE A == PacketsAt(fsd_traces, h, S, i, K)  B == PacketsAt(fsd_traces, h, T, i, K)
             C == PacketsAt(fsd_traces, h, S \cup T, i, K)
  <1>1. C = A \cup B /\ A \cap B = {}
    BY DEF PacketsAt
  <1>2. /\ IsFiniteSet(A) /\ IsFiniteSet(B) /\ \A p \in A \cup B : Sizes[p] \in Nat
        /\ BytesAt(fsd_traces, h, S, i, K) = Tally(A, Sizes)
        /\ BytesAt(fsd_traces, h, T, i, K) = Tally(B, Sizes)
        /\ BytesAt(fsd_traces, h, S \cup T, i, K) = Tally(C, Sizes)
    BY PacketsAre
  <1> HIDE DEF A, B, C
  <1> QED
    BY <1>1, <1>2, TallyUnion

\* More sub-intervals, more bytes; only those count in which the flow was seen.
LEMMA BytesMore ==
  ASSUME TracesOK, NEW h, NEW S, NEW T,
         NEW K \in Nat, S \cap SeenAt(fsd_traces, h, i, K) \subseteq T
  PROVE  BytesAt(fsd_traces, h, S, i, K) <= BytesAt(fsd_traces, h, T, i, K)
  <1> DEFINE A == S \cap SeenAt(fsd_traces, h, i, K)
  <1>1. PacketsAt(fsd_traces, h, A, i, K) = PacketsAt(fsd_traces, h, S, i, K)
    <2>1. \A n \in Slots : n \notin SeenAt(fsd_traces, h, i, K)
            => TreatedAt(fsd_traces, n, h, i, K) = {}
      BY DEF SeenAt
    <2> QED
      BY <2>1 DEF PacketsAt
  <1>2. BytesAt(fsd_traces, h, A, i, K) = BytesAt(fsd_traces, h, S, i, K)
    BY <1>1 DEF BytesAt
  <1>3. T = A \cup (T \ A) /\ A \cap (T \ A) = {}
    OBVIOUS
  <1> DEFINE R == T \ A
  <1> HIDE DEF A, R
  <1>4. BytesAt(fsd_traces, h, T, i, K)
          = BytesAt(fsd_traces, h, A, i, K) + BytesAt(fsd_traces, h, R, i, K)
    BY <1>3, BytesAdd DEF R
  <1>5. BytesAt(fsd_traces, h, A, i, K) \in Nat /\ BytesAt(fsd_traces, h, R, i, K) \in Nat
    BY PacketsAre
  <1> QED
    BY <1>2, <1>4, <1>5

LEMMA BytesSame ==
  ASSUME TracesOK, NEW h, NEW S, NEW T, NEW K \in Nat,
         S \cap SeenAt(fsd_traces, h, i, K) = T \cap SeenAt(fsd_traces, h, i, K)
  PROVE  BytesAt(fsd_traces, h, S, i, K) = BytesAt(fsd_traces, h, T, i, K)
  <1>1. /\ BytesAt(fsd_traces, h, S, i, K) <= BytesAt(fsd_traces, h, T, i, K)
        /\ BytesAt(fsd_traces, h, T, i, K) <= BytesAt(fsd_traces, h, S, i, K)
    BY BytesMore
  <1>2. BytesAt(fsd_traces, h, S, i, K) \in Nat /\ BytesAt(fsd_traces, h, T, i, K) \in Nat
    BY PacketsAre
  <1> QED
    BY <1>1, <1>2

\* Where a flow was not seen it has no bytes.
LEMMA BytesNone ==
  ASSUME TracesOK, NEW h, NEW S, NEW K \in Nat, S \cap SeenAt(fsd_traces, h, i, K) = {}
  PROVE  BytesAt(fsd_traces, h, S, i, K) = 0
  <1>1. BytesAt(fsd_traces, h, S, i, K) = BytesAt(fsd_traces, h, {}, i, K)
    BY BytesSame
  <1>2. PacketsAt(fsd_traces, h, {}, i, K) = {}
    BY DEF PacketsAt
  <1> QED
    BY <1>1, <1>2, PacketsAre, TallyEmpty

\* A flow has only been seen up to now.
LEMMA SeenUpToNow ==
  ASSUME NEW h, NEW K, NEW n \in SeenAt(fsd_traces, h, i, K), i \in Nat
  PROVE  n \in Slots /\ n \in Nat /\ n <= i
  BY DEF SeenAt, TreatedAt, Slots

\* One packet more: what its flow has in sub-interval i grows by it, and nothing else.
LEMMA OneMoreTreated ==
  ASSUME TracesOK, i \in Slots, NEW K \in Nat, K < Len(fsd_traces[i]), NEW h, NEW n
  PROVE  TreatedAt(fsd_traces, n, h, i, K + 1) =
           TreatedAt(fsd_traces, n, h, i, K)
             \cup (IF n = i /\ h = fsd_traces[i][K + 1].h THEN {K + 1} ELSE {})
  <1>1. i \in Int /\ Len(fsd_traces[i]) \in Nat
    BY DEF TracesOK, Slots
  <1>2. K + 1 \in 1 .. Len(fsd_traces[i])
    BY <1>1
  <1>3. CASE n = i
    <2>1. ASSUME NEW m
          PROVE  m \in TreatedAt(fsd_traces, n, h, i, K + 1) <=>
                   \/ m \in TreatedAt(fsd_traces, n, h, i, K)
                   \/ h = fsd_traces[i][K + 1].h /\ m = K + 1
      BY <1>1, <1>2, <1>3 DEF TreatedAt, Positions
    <2> QED
      BY <1>3, <2>1
  <1>4. CASE n # i
    BY <1>4 DEF TreatedAt
  <1> QED
    BY <1>3, <1>4

LEMMA OneMoreSeen ==
  ASSUME TracesOK, i \in Slots, NEW K \in Nat, K < Len(fsd_traces[i]), NEW h
  PROVE  SeenAt(fsd_traces, h, i, K + 1) =
           SeenAt(fsd_traces, h, i, K) \cup (IF h = fsd_traces[i][K + 1].h THEN {i} ELSE {})
  <1>1. ASSUME NEW n \in Slots
        PROVE  TreatedAt(fsd_traces, n, h, i, K + 1) # {} <=>
                 TreatedAt(fsd_traces, n, h, i, K) # {} \/ (n = i /\ h = fsd_traces[i][K + 1].h)
    <2> DEFINE A == TreatedAt(fsd_traces, n, h, i, K)  B == TreatedAt(fsd_traces, n, h, i, K + 1)
               own == n = i /\ h = fsd_traces[i][K + 1].h
    <2>1. B = A \cup (IF own THEN {K + 1} ELSE {})
      BY OneMoreTreated
    <2> HIDE DEF A, B, own
    <2>2. B # {} <=> A # {} \/ own
      BY <2>1
    <2> QED
      BY <2>2 DEF A, B, own
  <1> QED
    BY <1>1 DEF SeenAt

LEMMA OneMoreBytes ==
  ASSUME TracesOK, i \in Slots, NEW K \in Nat, K < Len(fsd_traces[i]), NEW h, NEW S
  PROVE  /\ h = fsd_traces[i][K + 1].h /\ i \in S =>
              BytesAt(fsd_traces, h, S, i, K + 1)
                = BytesAt(fsd_traces, h, S, i, K) + fsd_traces[i][K + 1].size
         /\ h # fsd_traces[i][K + 1].h \/ i \notin S
              => BytesAt(fsd_traces, h, S, i, K + 1) = BytesAt(fsd_traces, h, S, i, K)
  <1> DEFINE A == PacketsAt(fsd_traces, h, S, i, K)
             B == PacketsAt(fsd_traces, h, S, i, K + 1)  p == <<i, K + 1>>
  <1>1. CASE h = fsd_traces[i][K + 1].h /\ i \in S
    <2>1. B = A \cup {p}
      BY <1>1, OneMoreTreated DEF PacketsAt
    <2>2. p \notin A
      <3>1. i \in Int
        BY DEF Slots
      <3> QED
        BY <3>1 DEF PacketsAt, TreatedAt
    <2>3. K + 1 \in Nat /\ p \in Slots \X Nat
      OBVIOUS
    <2>4. /\ IsFiniteSet(A) /\ \A q \in B : Sizes[q] \in Nat
          /\ BytesAt(fsd_traces, h, S, i, K) = Tally(A, Sizes)
          /\ BytesAt(fsd_traces, h, S, i, K + 1) = Tally(B, Sizes)
      BY <2>3, PacketsAre
    <2>5. Sizes[p] = fsd_traces[i][K + 1].size
      BY <2>3 DEF Sizes
    <2> HIDE DEF A, B, p
    <2>6. Tally(A \cup {p}, Sizes) = Tally(A, Sizes) + Sizes[p]
      BY <2>1, <2>2, <2>4, TallyAdd
    <2> QED
      BY <1>1, <2>1, <2>4, <2>5, <2>6
  <1>2. CASE h # fsd_traces[i][K + 1].h \/ i \notin S
    <2>1. B = A
      BY <1>2, OneMoreTreated DEF PacketsAt
    <2> QED
      BY <1>2, <2>1 DEF BytesAt
  <1> QED
    BY <1>1, <1>2

\* A flow that is steady with one packet more was steady without it, and if it had been seen
\* before, that was not more than a window ago.
LEMMA OneMoreSteady ==
  ASSUME TracesOK, i \in Slots, NEW K \in Nat, K < Len(fsd_traces[i]), NEW h,
         SteadyAt(fsd_traces, h, i, K + 1)
  PROVE  /\ SteadyAt(fsd_traces, h, i, K)
         /\ \A last \in SeenAt(fsd_traces, h, i, K) :
              h = fsd_traces[i][K + 1].h /\ (\A n \in SeenAt(fsd_traces, h, i, K) : n <= last) =>
                i - last <= NumSubintervals
  <1>1. i \in Nat
    BY WindowAssumption DEF Slots
  <1>2. ASSUME NEW n \in Slots
        PROVE  Cardinality(TreatedAt(fsd_traces, n, h, i, K)) <= 1
    <2> DEFINE A == TreatedAt(fsd_traces, n, h, i, K)  B == TreatedAt(fsd_traces, n, h, i, K + 1)
    <2>1. A \subseteq B
      BY OneMoreTreated
    <2>2. IsFiniteSet(B)
      <3>1. IsFiniteSet(1 .. Len(fsd_traces[n]))
        BY FS_Interval DEF TracesOK
      <3>2. B \subseteq 1 .. Len(fsd_traces[n])
        BY DEF TreatedAt, Positions
      <3> QED
        BY <3>1, <3>2, FS_Subset
    <2>3. Cardinality(B) <= 1
      BY DEF SteadyAt
    <2> HIDE DEF A, B
    <2>4. IsFiniteSet(A) /\ Cardinality(A) <= Cardinality(B)
      BY <2>1, <2>2, FS_Subset
    <2>5. Cardinality(A) \in Nat /\ Cardinality(B) \in Nat
      BY <2>2, <2>4, FS_CardinalityType
    <2>6. Cardinality(A) <= 1
      BY <2>3, <2>4, <2>5
    <2> QED
      BY <2>6 DEF A
  <1>3. /\ SeenAt(fsd_traces, h, i, K) \subseteq SeenAt(fsd_traces, h, i, K + 1)
        /\ SeenAt(fsd_traces, h, i, K + 1) \subseteq SeenAt(fsd_traces, h, i, K) \cup {i}
    BY OneMoreSeen
  <1>4. ASSUME NEW n \in SeenAt(fsd_traces, h, i, K),
               NEW m \in SeenAt(fsd_traces, h, i, K), n < m,
               \A l \in SeenAt(fsd_traces, h, i, K) : l <= n \/ l >= m
        PROVE  m - n <= NumSubintervals
    <2>1. m <= i
      BY <1>1, SeenUpToNow
    <2>2. \A l \in SeenAt(fsd_traces, h, i, K + 1) : l <= n \/ l >= m
      BY <1>3, <1>4, <2>1
    <2>3. n \in SeenAt(fsd_traces, h, i, K + 1) /\ m \in SeenAt(fsd_traces, h, i, K + 1)
      BY <1>3
    <2> QED
      BY <1>4, <2>2, <2>3 DEF SteadyAt
  <1>5. ASSUME NEW last \in SeenAt(fsd_traces, h, i, K), h = fsd_traces[i][K + 1].h,
               \A n \in SeenAt(fsd_traces, h, i, K) : n <= last
        PROVE  i - last <= NumSubintervals
    <2>1. last \in Nat /\ last <= i
      BY <1>1, SeenUpToNow
    <2>2. CASE last = i
      BY <1>1, <2>2, WindowAssumption
    <2>3. CASE last < i
      <3>1. i \in SeenAt(fsd_traces, h, i, K + 1) /\ last \in SeenAt(fsd_traces, h, i, K + 1)
        BY <1>5, OneMoreSeen
      <3>2. \A l \in SeenAt(fsd_traces, h, i, K + 1) : l <= last \/ l >= i
        BY <1>1, <1>3, <1>5
      <3> QED
        BY <2>3, <3>1, <3>2 DEF SteadyAt
    <2> QED
      BY <1>1, <2>1, <2>2, <2>3
  <1>6. SteadyAt(fsd_traces, h, i, K)
    BY <1>2, <1>4 DEF SteadyAt
  <1> QED
    BY <1>5, <1>6

-------------------------------------------------------------------------------------
(* What is taken away from a flow.                                                   *)

FirstSizes(h) == [n \in Slots |-> FirstSize(n, h)]
First(n, h) == CHOOSE m \in Positions(n, h) : \A l \in Positions(n, h) : m <= l

LEMMA FirstIs ==
  ASSUME TracesOK, NEW h, NEW n \in Slots
  PROVE  /\ Positions(n, h) # {} => /\ First(n, h) \in Positions(n, h)
                                    /\ FirstSize(n, h) = fsd_traces[n][First(n, h)].size
         /\ Positions(n, h) = {} => FirstSize(n, h) = 0
         /\ FirstSizes(h)[n] = FirstSize(n, h) /\ FirstSize(n, h) \in Nat
  <1>1. CASE Positions(n, h) = {}
    BY <1>1 DEF FirstSize, FirstSizes
  <1>2. CASE Positions(n, h) # {}
    <2>1. Positions(n, h) \in SUBSET Nat
      BY DEF Positions, TracesOK
    <2>2. First(n, h) \in Positions(n, h)
      BY <1>2, <2>1, SmallestElement DEF First
    <2>3. FirstSize(n, h) = fsd_traces[n][First(n, h)].size
      BY <1>2 DEF FirstSize, First
    <2>4. First(n, h) \in 1 .. Len(fsd_traces[n])
      BY <2>2 DEF Positions
    <2>5. fsd_traces[n][First(n, h)].size \in Nat
      BY <2>4 DEF TracesOK
    <2> QED
      BY <1>2, <2>2, <2>3, <2>5 DEF FirstSizes
  <1> QED
    BY <1>1, <1>2

\* The first packets of sub-intervals that are finished: no more than all their packets, and
\* as much when no sub-interval has two.  A unit of a first packet is one of the flow.
LEMMA FirstBytes ==
  ASSUME TracesOK, i \in Nat, NEW h, NEW A \in SUBSET Slots, \A n \in A : n < i, NEW K \in Nat
  PROVE  /\ Tally(A, FirstSizes(h)) \in Nat
         /\ Tally(A, FirstSizes(h)) <= BytesAt(fsd_traces, h, A, i, K)
         /\ (\A n \in Slots : Cardinality(TreatedAt(fsd_traces, n, h, i, K)) <= 1) =>
               Tally(A, FirstSizes(h)) = BytesAt(fsd_traces, h, A, i, K)
  <1> DEFINE v == FirstSizes(h)  P == PacketsAt(fsd_traces, h, A, i, K)
             U == Units(A, v)  V == Units(P, Sizes)
             f == [u \in U |-> << <<u[1], First(u[1], h)>>, u[2]>>]
  <1>1. /\ IsFiniteSet(P) /\ \A p \in P : Sizes[p] \in Nat
        /\ BytesAt(fsd_traces, h, A, i, K) = Cardinality(V)
    BY PacketsAre DEF Tally
  <1>2. IsFiniteSet(V)
    <2> HIDE DEF P
    <2> QED
      BY <1>1, UnitsFinite
  <1>3. ASSUME NEW n \in A, Positions(n, h) # {}
        PROVE  <<n, First(n, h)>> \in P /\ Sizes[<<n, First(n, h)>>] = v[n]
    <2>1. First(n, h) \in Positions(n, h) /\ v[n] = fsd_traces[n][First(n, h)].size
      BY <1>3, FirstIs
    <2>2. First(n, h) \in TreatedAt(fsd_traces, n, h, i, K)
      BY <2>1 DEF TreatedAt, Positions
    <2>3. First(n, h) \in Nat
      BY <2>1 DEF Positions, TracesOK
    <2>4. <<n, First(n, h)>> \in P
      BY <2>2 DEF PacketsAt
    <2> QED
      BY <2>1, <2>3, <2>4 DEF Sizes
  <1>4. ASSUME NEW u \in U
        PROVE  /\ u[1] \in A /\ u[2] \in 1 .. v[u[1]] /\ u = <<u[1], u[2]>>
               /\ Positions(u[1], h) # {}
               /\ f[u] = << <<u[1], First(u[1], h)>>, u[2]>> /\ f[u] \in V
    <2>1. PICK n \in A : u \in {n} \X (1 .. v[n])
      BY <1>4 DEF Units
    <2>2. u[1] = n /\ u[2] \in 1 .. v[n] /\ u = <<n, u[2]>>
      BY <2>1
    <2>3. Positions(n, h) # {}
      BY <2>2, FirstIs
    <2>4. f[u] = << <<n, First(n, h)>>, u[2]>>
      BY <1>4, <2>2
    <2>5. f[u] \in {<<n, First(n, h)>>} \X (1 .. Sizes[<<n, First(n, h)>>])
      BY <1>3, <2>2, <2>3, <2>4
    <2>6. f[u] \in V
      BY <1>3, <2>3, <2>5 DEF Units
    <2> QED
      BY <2>2, <2>3, <2>4, <2>6
  <1> HIDE DEF U, V, v, P
  <1>5. f \in Injection(U, V)
    <2>1. f \in [U -> V]
      BY <1>4
    <2>2. ASSUME NEW u \in U, NEW t \in U, f[u] = f[t]
          PROVE  u = t
      BY <1>4, <2>2
    <2> QED
      BY <2>1, <2>2 DEF Injection, IsInjective
  <1>6. /\ IsFiniteSet(U) /\ Cardinality(U) <= Cardinality(V)
        /\ Cardinality(U) = Cardinality(V) <=> f \in Surjection(U, V)
    <2> HIDE DEF f
    <2> QED
      BY <1>2, <1>5, FS_Injection
  <1>7. Tally(A, v) = Cardinality(U) /\ Cardinality(U) \in Nat
    BY <1>6, FS_CardinalityType DEF Tally, U
  <1>8. ASSUME \A n \in Slots : Cardinality(TreatedAt(fsd_traces, n, h, i, K)) <= 1
        PROVE  f \in Surjection(U, V)
    <2>1. ASSUME NEW x \in V
          PROVE  \E u \in U : f[u] = x
      <3>1. PICK p \in P : x \in {p} \X (1 .. Sizes[p])
        BY <2>1 DEF V, Units
      <3>2. PICK n \in A : p \in {n} \X TreatedAt(fsd_traces, n, h, i, K)
        BY <3>1 DEF P, PacketsAt
      <3>3. p = <<n, p[2]>> /\ p[2] \in TreatedAt(fsd_traces, n, h, i, K)
        BY <3>2
      <3>4. Positions(n, h) # {}
        BY <3>3 DEF TreatedAt, Positions
      <3>5. First(n, h) \in TreatedAt(fsd_traces, n, h, i, K)
        BY <3>4, FirstIs DEF TreatedAt, Positions
      <3>6. p[2] = First(n, h)
        <4> DEFINE T == TreatedAt(fsd_traces, n, h, i, K)
        <4>1. IsFiniteSet(T)
          <5>1. IsFiniteSet(1 .. Len(fsd_traces[n]))
            <6>1. n \in Slots
              OBVIOUS
            <6> QED
              BY <6>1, FS_Interval DEF TracesOK
          <5>2. T \subseteq 1 .. Len(fsd_traces[n])
            BY DEF TreatedAt, Positions
          <5> QED
            BY <5>1, <5>2, FS_Subset
        <4>2. Cardinality(T) <= 1
          BY <1>8
        <4> HIDE DEF T
        <4>3. Cardinality(T) = 0 \/ Cardinality(T) = 1
          BY <4>1, <4>2, FS_CardinalityType
        <4>4. T # {}
          BY <3>3 DEF T
        <4>5. Cardinality(T) = 1
          BY <4>1, <4>3, <4>4, FS_EmptySet
        <4>6. PICK m : T = {m}
          BY <4>1, <4>5, FS_Singleton
        <4> QED
          BY <3>3, <3>5, <4>6 DEF T
      <3>7. p = <<n, First(n, h)>> /\ x = <<p, x[2]>> /\ x[2] \in 1 .. v[n]
        BY <1>3, <3>1, <3>3, <3>4, <3>6
      <3> DEFINE u == <<n, x[2]>>
      <3>8. u \in U
        BY <3>7 DEF U, Units
      <3>9. u[1] = n /\ u[2] = x[2]
        OBVIOUS
      <3>10. f[u] = <<p, x[2]>>
        <4> HIDE DEF u, f
        <4>1. f[u] = << <<u[1], First(u[1], h)>>, u[2]>>
          BY <1>4, <3>8
        <4> QED
          BY <3>7, <3>9, <4>1
      <3> HIDE DEF f, u
      <3> QED
        BY <3>7, <3>8, <3>10
    <2> HIDE DEF f
    <2> QED
      BY <1>5, <2>1 DEF Surjection, Injection
  <1> HIDE DEF f
  <1> QED
    BY <1>1, <1>6, <1>7, <1>8 DEF v

-------------------------------------------------------------------------------------
(* The entries of the list.                                                          *)

\* An entry says when its flow was seen last, and its value is as NeverUnderstated and
\* SteadyFlowsExact want it.
LastWindow(r) == r.last_seen - NumSubintervals .. r.last_seen
EntryAt(T, r, I, K) ==
  /\ r.h \in Flows(T) /\ r.value \in Int
  /\ r.last_seen \in SeenAt(T, r.h, I, K) /\ \A n \in SeenAt(T, r.h, I, K) : n <= r.last_seen
  /\ r.value >= BytesAt(T, r.h, LastWindow(r), I, K)
  /\ r.value <= BytesAt(T, r.h, Slots, I, K)
  /\ SteadyAt(T, r.h, I, K) => r.value = BytesAt(T, r.h, LastWindow(r), I, K)

\* The packet that is treated.
LEMMA PacketFacts ==
  ASSUME TracesOK, i \in Slots, NEW K \in Nat, K < Len(fsd_traces[i])
  PROVE  /\ i \in Nat /\ fsd_traces[i][K + 1].size \in Nat
         /\ fsd_traces[i][K + 1].h \in Flows(fsd_traces)
  <1>1. i \in Nat /\ Len(fsd_traces[i]) \in Nat
    BY WindowAssumption DEF TracesOK, Slots
  <1>2. K + 1 \in 1 .. Len(fsd_traces[i])
    BY <1>1
  <1> QED
    BY <1>1, <1>2 DEF TracesOK, Flows

\* The entry of a flow that is seen again: what is taken away are first packets that have
\* left the window, and of a steady flow all of those.
LEMMA RenewedOK ==
  ASSUME TracesOK, i \in Slots, NEW K \in Nat, K < Len(fsd_traces[i]),
         NEW r, EntryAt(fsd_traces, r, i, K), NEW s, s = fsd_traces[i][K + 1], r.h = s.h
  PROVE  /\ EntryAt(fsd_traces, Renewed(r, s), i, K + 1)
         /\ Renewed(r, s).h = s.h /\ Renewed(r, s).last_seen = i
  <1> DEFINE h == s.h  N == NumSubintervals  last == r.last_seen
             taken == Tally(Lapsed(r), FirstSizes(h))
             old == BytesAt(fsd_traces, h, last - N .. last, i, K)
             gone == BytesAt(fsd_traces, h, Lapsed(r), i, K)
             rest == BytesAt(fsd_traces, h, (last - N .. last) \ Lapsed(r), i, K)
             kept == BytesAt(fsd_traces, h, i - N .. i, i, K)
             new == BytesAt(fsd_traces, h, i - N .. i, i, K + 1)
             t == Renewed(r, s)
  <1>1. i \in Nat /\ s.size \in Nat /\ h \in Flows(fsd_traces) /\ N \in Nat /\ N > 0
    BY PacketFacts, WindowAssumption
  <1>2. /\ last \in Nat /\ last <= i
        /\ \A n \in SeenAt(fsd_traces, h, i, K) : n <= last /\ n \in Nat
        /\ last \in SeenAt(fsd_traces, h, i, K)
    BY <1>1, SeenUpToNow DEF EntryAt
  <1>3. /\ Lapsed(r) \in SUBSET Slots /\ \A n \in Lapsed(r) : n < i
        /\ Lapsed(r) \subseteq last - N .. last
    BY <1>1, <1>2 DEF Lapsed, Slots
  <1>4. /\ taken \in Nat /\ taken <= gone
        /\ SteadyAt(fsd_traces, h, i, K) => taken = gone
    <2> HIDE DEF h
    <2> QED
      BY <1>1, <1>3, FirstBytes DEF SteadyAt
  <1>5. old = gone + rest
    <2> DEFINE R == (last - N .. last) \ Lapsed(r)
    <2>1. last - N .. last = Lapsed(r) \cup R /\ Lapsed(r) \cap R = {}
      BY <1>3
    <2> HIDE DEF R, h
    <2>2. BytesAt(fsd_traces, h, Lapsed(r) \cup R, i, K)
            = BytesAt(fsd_traces, h, Lapsed(r), i, K) + BytesAt(fsd_traces, h, R, i, K)
      BY <2>1, BytesAdd
    <2> QED
      BY <2>1, <2>2 DEF R
  <1>6. kept <= rest
    <2>1. (i - N .. i) \cap SeenAt(fsd_traces, h, i, K) \subseteq (last - N .. last) \ Lapsed(r)
      BY <1>1, <1>2 DEF Lapsed
    <2> HIDE DEF h
    <2> QED
      BY <2>1, BytesMore
  <1>7. SteadyAt(fsd_traces, h, i, K + 1) => SteadyAt(fsd_traces, h, i, K) /\ kept = rest
    <2> SUFFICES ASSUME SteadyAt(fsd_traces, h, i, K + 1)
                 PROVE  SteadyAt(fsd_traces, h, i, K) /\ kept = rest
      OBVIOUS
    <2>1. SteadyAt(fsd_traces, h, i, K) /\ i - last <= N
      BY <1>2, OneMoreSteady
    <2>2. ((last - N .. last) \ Lapsed(r)) \cap SeenAt(fsd_traces, h, i, K)
            = (i - N .. i) \cap SeenAt(fsd_traces, h, i, K)
      <3>1. ASSUME NEW n \in SeenAt(fsd_traces, h, i, K)
            PROVE  n \in (last - N .. last) \ Lapsed(r) <=> n \in i - N .. i
        <4>1. n \in Slots /\ n \in Nat /\ n <= last
          BY <1>1, <1>2, SeenUpToNow
        <4> QED
          BY <1>1, <1>2, <2>1, <4>1 DEF Lapsed
      <3> QED
        BY <3>1
    <2> HIDE DEF h
    <2>3. kept = rest
      BY <2>2, BytesSame
    <2> QED
      BY <2>1, <2>3
  <1>8. /\ new = kept + s.size
        /\ BytesAt(fsd_traces, h, Slots, i, K + 1) = BytesAt(fsd_traces, h, Slots, i, K) + s.size
    <2>1. i \in i - N .. i
      BY <1>1
    <2> QED
      BY <2>1, OneMoreBytes
  <1>9. /\ old \in Nat /\ gone \in Nat /\ rest \in Nat /\ kept \in Nat
        /\ BytesAt(fsd_traces, h, Slots, i, K) \in Nat
    <2> HIDE DEF h
    <2> QED
      BY PacketsAre
  <1>10. t.h = h /\ t.last_seen = i /\ t.value = r.value - taken + s.size
    BY DEF Renewed, FirstSizes
  <1>11. /\ r.value \in Int /\ r.value >= old /\ r.value <= BytesAt(fsd_traces, h, Slots, i, K)
         /\ SteadyAt(fsd_traces, h, i, K) => r.value = old
    BY DEF EntryAt, LastWindow
  <1>12. /\ i \in SeenAt(fsd_traces, h, i, K + 1)
         /\ \A n \in SeenAt(fsd_traces, h, i, K + 1) : n <= i
    BY <1>1, SeenUpToNow, OneMoreSeen
  <1>13. LastWindow(t) = i - N .. i
    BY <1>10 DEF LastWindow
  <1> DEFINE all == BytesAt(fsd_traces, h, Slots, i, K)  value == r.value  size == s.size
  <1> HIDE DEF old, gone, rest, kept, new, taken, all, value, size, t, h, N
  <1>14. /\ value - taken + size \in Int
         /\ value - taken + size >= new
         /\ value - taken + size <= all + size
         /\ SteadyAt(fsd_traces, h, i, K + 1) => value - taken + size = new
    <2>1. size \in Nat /\ taken \in Nat /\ value \in Int /\ all \in Nat
      BY <1>1, <1>4, <1>9, <1>11 DEF size, value, all
    <2>2. /\ value >= old /\ value <= all /\ new = kept + size
          /\ SteadyAt(fsd_traces, h, i, K) => value = old
      BY <1>8, <1>11 DEF size, value, all
    <2>3. CASE SteadyAt(fsd_traces, h, i, K + 1)
      <3>1. taken = gone /\ kept = rest /\ value = old
        BY <1>4, <1>7, <2>2, <2>3
      <3> QED
        BY <1>5, <1>9, <2>1, <2>2, <3>1
    <2>4. CASE ~SteadyAt(fsd_traces, h, i, K + 1)
      BY <1>4, <1>5, <1>6, <1>9, <2>1, <2>2, <2>4
    <2> QED
      BY <2>3, <2>4
  <1>15. t.value = value - taken + size /\ BytesAt(fsd_traces, h, Slots, i, K + 1) = all + size
    BY <1>8, <1>10 DEF value, size, all
  <1>16. BytesAt(fsd_traces, h, LastWindow(t), i, K + 1) = new
    BY <1>13 DEF new
  <1>17. EntryAt(fsd_traces, t, i, K + 1)
    BY <1>1, <1>10, <1>12, <1>14, <1>15, <1>16 DEF EntryAt
  <1> QED
    BY <1>10, <1>17 DEF t, h

\* The entry of a flow that has none, and was not seen in the last window.
LEMMA FreshOK ==
  ASSUME TracesOK, i \in Slots, NEW K \in Nat, K < Len(fsd_traces[i]),
         NEW s, s = fsd_traces[i][K + 1],
         \A n \in SeenAt(fsd_traces, s.h, i, K) : n < i - NumSubintervals
  PROVE  EntryAt(fsd_traces, [h |-> s.h, last_seen |-> i, value |-> s.size], i, K + 1)
  <1> DEFINE h == s.h  N == NumSubintervals  r == [h |-> s.h, last_seen |-> i, value |-> s.size]
  <1>1. i \in Nat /\ s.size \in Nat /\ h \in Flows(fsd_traces) /\ N \in Nat
    BY PacketFacts, WindowAssumption
  <1>2. i \in i - N .. i /\ (i - N .. i) \cap SeenAt(fsd_traces, h, i, K) = {}
    BY <1>1, SeenUpToNow
  <1>3. /\ BytesAt(fsd_traces, h, i - N .. i, i, K) = 0
        /\ BytesAt(fsd_traces, h, Slots, i, K) \in Nat
    BY <1>2, BytesNone, PacketsAre
  <1>4. /\ BytesAt(fsd_traces, h, i - N .. i, i, K + 1)
             = BytesAt(fsd_traces, h, i - N .. i, i, K) + s.size
        /\ BytesAt(fsd_traces, h, Slots, i, K + 1) = BytesAt(fsd_traces, h, Slots, i, K) + s.size
    BY <1>2, OneMoreBytes
  <1>5. i \in SeenAt(fsd_traces, h, i, K + 1) /\ \A n \in SeenAt(fsd_traces, h, i, K + 1) : n <= i
    BY <1>1, SeenUpToNow, OneMoreSeen
  <1>6. r.h = h /\ r.last_seen = i /\ r.value = s.size /\ LastWindow(r) = i - N .. i
    BY DEF LastWindow
  <1> HIDE DEF r, h, N
  <1>7. /\ BytesAt(fsd_traces, h, LastWindow(r), i, K + 1) = s.size
        /\ s.size <= BytesAt(fsd_traces, h, Slots, i, K + 1)
    BY <1>1, <1>3, <1>4, <1>6
  <1>8. EntryAt(fsd_traces, r, i, K + 1)
    BY <1>1, <1>5, <1>6, <1>7 DEF EntryAt
  <1> QED
    BY <1>8 DEF r

\* An entry of another flow.
LEMMA OtherOK ==
  ASSUME TracesOK, i \in Slots, NEW K \in Nat, K < Len(fsd_traces[i]),
         NEW r, EntryAt(fsd_traces, r, i, K), r.h # fsd_traces[i][K + 1].h
  PROVE  EntryAt(fsd_traces, r, i, K + 1)
  <1>1. SeenAt(fsd_traces, r.h, i, K + 1) = SeenAt(fsd_traces, r.h, i, K)
    BY OneMoreSeen
  <1>2. /\ BytesAt(fsd_traces, r.h, LastWindow(r), i, K + 1)
             = BytesAt(fsd_traces, r.h, LastWindow(r), i, K)
        /\ BytesAt(fsd_traces, r.h, Slots, i, K + 1) = BytesAt(fsd_traces, r.h, Slots, i, K)
    BY OneMoreBytes
  <1>3. SteadyAt(fsd_traces, r.h, i, K + 1) => SteadyAt(fsd_traces, r.h, i, K)
    BY OneMoreSteady
  <1> QED
    BY <1>1, <1>2, <1>3 DEF EntryAt

-------------------------------------------------------------------------------------
(* The search of the list.                                                           *)

\* The place of a flow is that of its first entry, or behind the last one.
LEMMA PlaceFacts ==
  ASSUME Len(recent_fsd) \in Nat, NEW s
  PROVE  /\ Place(s) \in 1 .. Len(recent_fsd) + 1
         /\ Place(s) <= Len(recent_fsd) => recent_fsd[Place(s)].h = s.h
         /\ Place(s) > Len(recent_fsd) => \A n \in 1 .. Len(recent_fsd) : recent_fsd[n].h # s.h
  <1> DEFINE N == Len(recent_fsd)  Own == {n \in 1 .. N : recent_fsd[n].h = s.h}
  <1>1. \A n \in Nat : Cardinality(1 .. n) = n
    BY FS_Interval
  <1>2. CASE Own = {}
    <2>1. Before(s) = 1 .. N
      BY <1>2 DEF Before
    <2> QED
      BY <1>1, <1>2, <2>1 DEF Place
  <1>3. CASE Own # {}
    <2>1. Own \in SUBSET Nat
      OBVIOUS
    <2>2. PICK n \in Own : \A m \in Own : n <= m
      BY <1>3, <2>1, SmallestElement
    <2>3. Before(s) = 1 .. n - 1
      <3>1. ASSUME NEW m \in 1 .. N
            PROVE  m \in Before(s) <=> m < n
        BY <2>2 DEF Before
      <3>2. n \in 1 .. N
        OBVIOUS
      <3>3. Before(s) \subseteq 1 .. N
        BY DEF Before
      <3>4. N \in Nat
        OBVIOUS
      <3> HIDE DEF N, Own
      <3>5. 1 .. n - 1 \subseteq 1 .. N /\ \A m \in 1 .. N : m < n <=> m \in 1 .. n - 1
        BY <3>2, <3>4
      <3> QED
        BY <3>1, <3>3, <3>5
    <2>4. n - 1 \in Nat /\ Cardinality(1 .. n - 1) = n - 1
      BY <1>1
    <2> QED
      BY <2>3, <2>4 DEF Place
  <1> QED
    BY <1>2, <1>3

\* The list after a packet has the latest entry and all that were kept, each once.
LEMMA AfterFacts ==
  ASSUME Len(recent_fsd) \in Nat, NEW s
  PROVE  /\ Len(After(s)) \in Nat
         /\ \A m \in 1 .. Len(After(s)) : InOrder(Kept(s))[m] \in Kept(s)
                                         /\ After(s)[m] = Moved(s, InOrder(Kept(s))[m])
         /\ \A m, n \in 1 .. Len(After(s)) : m # n => InOrder(Kept(s))[m] # InOrder(Kept(s))[n]
         /\ \A p \in Kept(s) : \E m \in 1 .. Len(After(s)) : After(s)[m] = Moved(s, p)
  <1> DEFINE P == Kept(s)  c == Cardinality(P)  f == InOrder(P)
             V == {Moved(s, p) : p \in P}
  <1>1. P \in SUBSET Nat /\ IsFiniteSet(P)
    <2>1. P \subseteq 1 .. Len(recent_fsd) + 1
      BY PlaceFacts DEF Kept
    <2>2. IsFiniteSet(1 .. Len(recent_fsd) + 1)
      BY FS_Interval
    <2>3. 1 .. Len(recent_fsd) + 1 \subseteq Nat
      OBVIOUS
    <2> HIDE DEF P
    <2>4. IsFiniteSet(P)
      BY <2>1, <2>2, FS_Subset
    <2> QED
      BY <2>1, <2>3, <2>4
  <1> HIDE DEF P
  <1>2. /\ c \in Nat /\ \A m \in 1 .. c : f[m] \in P
        /\ \A m, n \in 1 .. c : m # n => f[m] # f[n]
        /\ \A p \in P : \E m \in 1 .. c : f[m] = p
    BY <1>1, OrderFacts
  <1> HIDE DEF c, f
  <1>3. After(s) = [m \in 1 .. c |-> Moved(s, f[m])]
    BY DEF After, P, c, f
  <1>4. After(s) \in [1 .. c -> V]
    BY <1>2, <1>3
  <1> HIDE DEF V
  <1>5. Len(After(s)) = c
    <2>1. After(s) \in Seq(V)
      BY <1>2, <1>4
    <2> QED
      BY <1>2, <1>4, <2>1
  <1>6. \A m \in 1 .. c : After(s)[m] = Moved(s, f[m])
    BY <1>3
  <1>7. \A p \in P : \E m \in 1 .. c : After(s)[m] = Moved(s, p)
    BY <1>2, <1>6
  <1> QED
    BY <1>2, <1>5, <1>6, <1>7 DEF P, f

-------------------------------------------------------------------------------------
(* The list after a packet.                                                          *)

\* Every entry of the list is as it should be, and RecentFlowsListed holds.
ListOK(T, list, I, K) ==
  /\ Len(list) \in Nat
  /\ \A n \in 1 .. Len(list) : EntryAt(T, list[n], I, K)
  /\ \A n, m \in 1 .. Len(list) : n # m => list[n].h # list[m].h
  /\ \A h \in Flows(T) : \A n \in SeenAt(T, h, I, K) :
       n >= I - NumSubintervals
         => \E m \in 1 .. Len(list) : list[m].h = h /\ list[m].last_seen >= n

LEMMA AfterOK ==
  ASSUME TracesOK, i \in Slots,
         NEW K \in Nat, K < Len(fsd_traces[i]), ListOK(fsd_traces, recent_fsd, i, K),
         NEW s, s = fsd_traces[i][K + 1]
  PROVE  ListOK(fsd_traces, After(s), i, K + 1)
  <1> DEFINE list == After(s)  f == InOrder(Kept(s))  N == Len(recent_fsd)  M == Len(list)
  <1>1. N \in Nat /\ i \in Nat /\ s.h \in Flows(fsd_traces)
    BY PacketFacts DEF ListOK
  <1>2. /\ Place(s) \in 1 .. N + 1
        /\ Place(s) <= N => recent_fsd[Place(s)].h = s.h
        /\ Place(s) > N => \A n \in 1 .. N : recent_fsd[n].h # s.h
    BY <1>1, PlaceFacts
  <1>3. /\ M \in Nat
        /\ \A m \in 1 .. M : f[m] \in Kept(s) /\ list[m] = Moved(s, f[m])
        /\ \A m, n \in 1 .. M : m # n => f[m] # f[n]
        /\ \A p \in Kept(s) : \E m \in 1 .. M : list[m] = Moved(s, p)
    BY <1>1, AfterFacts
  <1> HIDE DEF list, f, M
  <1>4. Kept(s) \subseteq (1 .. N) \cup {Place(s)} /\ Place(s) \in Kept(s)
    BY DEF Kept
  <1>5. EntryAt(fsd_traces, Latest(s), i, K + 1) /\ Latest(s).h = s.h /\ Latest(s).last_seen = i
    <2>1. CASE Place(s) <= N
      <3> DEFINE r == recent_fsd[Place(s)]
      <3>1. EntryAt(fsd_traces, r, i, K) /\ r.h = s.h /\ Latest(s) = Renewed(r, s)
        BY <1>1, <1>2, <2>1 DEF ListOK, Latest
      <3> HIDE DEF r
      <3> QED
        BY <3>1, RenewedOK
    <2>2. CASE Place(s) > N
      <3>1. Latest(s) = [h |-> s.h, last_seen |-> i, value |-> s.size]
        BY <1>1, <1>2, <2>2 DEF Latest
      <3>2. \A n \in SeenAt(fsd_traces, s.h, i, K) : n < i - NumSubintervals
        <4> SUFFICES ASSUME NEW n \in SeenAt(fsd_traces, s.h, i, K),
                             n >= i - NumSubintervals
                      PROVE  FALSE
          BY <1>1, SeenUpToNow, WindowAssumption
        <4>1. \E m \in 1 .. N : recent_fsd[m].h = s.h
          BY <1>1 DEF ListOK
        <4> QED
          BY <1>2, <2>2, <4>1
      <3>3. EntryAt(fsd_traces, [h |-> s.h, last_seen |-> i, value |-> s.size], i, K + 1)
        BY <3>2, FreshOK
      <3> QED
        BY <3>1, <3>3
    <2> QED
      BY <1>1, <1>2, <2>1, <2>2
  <1>6. ASSUME NEW p \in Kept(s), p # Place(s)
        PROVE  /\ p \in 1 .. N /\ Moved(s, p) = recent_fsd[p] /\ recent_fsd[p].h # s.h
    <2>1. p \in 1 .. N
      BY <1>4, <1>6
    <2>2. recent_fsd[p].h # s.h
      BY <1>1, <1>2, <1>6, <2>1 DEF ListOK
    <2> QED
      BY <1>6, <2>1, <2>2 DEF Moved
  <1>7. Moved(s, Place(s)) = Latest(s)
    BY DEF Moved
  <1>8. ASSUME NEW m \in 1 .. M
        PROVE  EntryAt(fsd_traces, list[m], i, K + 1)
    <2>1. CASE f[m] = Place(s)
      BY <1>3, <1>5, <1>7, <2>1
    <2>2. CASE f[m] # Place(s)
      <3> DEFINE p == f[m]
      <3>1. p \in Kept(s) /\ list[m] = Moved(s, p)
        BY <1>3
      <3> HIDE DEF p
      <3>2. p \in 1 .. N /\ list[m] = recent_fsd[p] /\ recent_fsd[p].h # s.h
        BY <1>6, <2>2, <3>1 DEF p
      <3>3. EntryAt(fsd_traces, recent_fsd[p], i, K)
        BY <3>2 DEF ListOK
      <3> QED
        BY <3>2, <3>3, OtherOK
    <2> QED
      BY <2>1, <2>2
  <1>9. ASSUME NEW n \in 1 .. M, NEW m \in 1 .. M, n # m
        PROVE  list[n].h # list[m].h
    <2> DEFINE p == f[n]  q == f[m]
    <2>1. /\ p \in Kept(s) /\ q \in Kept(s) /\ p # q /\ list[n] = Moved(s, p)
          /\ list[m] = Moved(s, q)
      BY <1>3, <1>9
    <2> HIDE DEF p, q
    <2>2. CASE p = Place(s)
      BY <1>5, <1>6, <1>7, <2>1, <2>2
    <2>3. CASE q = Place(s)
      BY <1>5, <1>6, <1>7, <2>1, <2>3
    <2>4. CASE p # Place(s) /\ q # Place(s)
      BY <1>6, <2>1, <2>4 DEF ListOK
    <2> QED
      BY <2>2, <2>3, <2>4
  <1>10. ASSUME NEW h \in Flows(fsd_traces),
                NEW n \in SeenAt(fsd_traces, h, i, K + 1), n >= i - NumSubintervals
         PROVE  \E m \in 1 .. M : list[m].h = h /\ list[m].last_seen >= n
    <2>1. n \in Nat /\ n <= i
      BY <1>1, SeenUpToNow
    <2>2. CASE h = s.h
      <3>1. PICK m \in 1 .. M : list[m] = Moved(s, Place(s))
        BY <1>3, <1>4
      <3> QED
        BY <1>1, <1>5, <1>7, <2>1, <2>2, <3>1
    <2>3. CASE h # s.h
      <3>1. n \in SeenAt(fsd_traces, h, i, K)
        BY <2>3, OneMoreSeen
      <3>2. PICK p \in 1 .. N : recent_fsd[p].h = h /\ recent_fsd[p].last_seen >= n
        BY <1>10, <3>1 DEF ListOK
      <3>3. recent_fsd[p].last_seen \in Nat
        <4>1. EntryAt(fsd_traces, recent_fsd[p], i, K)
          BY DEF ListOK
        <4> QED
          BY <1>1, <4>1, SeenUpToNow DEF EntryAt
      <3>4. ~Stale(recent_fsd[p])
        BY <1>1, <1>10, <2>1, <3>2, <3>3, WindowAssumption DEF Stale
      <3>5. p \in Kept(s)
        BY <3>4 DEF Kept
      <3>6. p # Place(s)
        BY <1>1, <1>2, <2>3, <3>2
      <3>7. PICK m \in 1 .. M : list[m] = Moved(s, p)
        BY <1>3, <3>5
      <3> QED
        BY <1>6, <3>2, <3>5, <3>6, <3>7
    <2> QED
      BY <2>2, <2>3
  <1> QED
    BY <1>3, <1>8, <1>9, <1>10 DEF ListOK, M, list

-------------------------------------------------------------------------------------
(* The inductive invariant.                                                          *)

\* Where the program is: the sub-interval that is treated is in the range, and the window
\* that is evaluated next ends with it.
Where ==
  /\ j \in Nat /\ j <= NumIntervals - NumSubintervals
  /\ i \in Slots
  /\ k \in Nat
  /\ phase \in {"update", "turn", "evaluate"}
  /\ phase = "update" => /\ i < NumIntervals /\ k <= Len(fsd_traces[i])
                         /\ IF i < NumSubintervals THEN j = 0 ELSE i = j + NumSubintervals - 1
  /\ phase = "turn" => k = 0 /\ i = j + NumSubintervals
  /\ phase = "evaluate" => k = 0 /\ j > 0 /\ i = j + NumSubintervals - 1

\* The entropies of the windows that were evaluated are as WindowFlowsCovered wants them.
FlowCovered(T, terms, h, n, I, K) ==
  BytesAt(T, h, n .. n + NumSubintervals - 1, I, K) > 0 =>
    \E m \in 1 .. Len(terms) :
      /\ terms[m].h = h
      /\ terms[m].value >= BytesAt(T, h, n .. n + NumSubintervals - 1, I, K)
SavedOK(T, ent, I, K) ==
  \A n \in Slots : n + NumSubintervals < I \/ (n + NumSubintervals = I /\ phase = "update") =>
    \A h \in Flows(T) : FlowCovered(T, ent[n].terms, h, n, I, K)

RecentInv ==
  /\ TracesOK
  /\ Where
  /\ ListOK(fsd_traces, recent_fsd, i, k)
  /\ DOMAIN ent_fsd = Slots
  /\ SavedOK(fsd_traces, ent_fsd, i, k)

\* The same packets of every flow are treated at two places: nothing changes.
SameAt(T, I, K, M, L) ==
  \A n \in Slots : \A h : TreatedAt(T, n, h, I, K) = TreatedAt(T, n, h, M, L)

LEMMA SameTreated ==
  ASSUME NEW T, NEW I, NEW K, NEW M, NEW L, SameAt(T, I, K, M, L)
  PROVE  /\ \A h : SeenAt(T, h, I, K) = SeenAt(T, h, M, L)
         /\ \A h, S : BytesAt(T, h, S, I, K) = BytesAt(T, h, S, M, L)
         /\ \A h : SteadyAt(T, h, I, K) <=> SteadyAt(T, h, M, L)
         /\ \A r : EntryAt(T, r, I, K) <=> EntryAt(T, r, M, L)
  <1>1. ASSUME NEW h PROVE SeenAt(T, h, I, K) = SeenAt(T, h, M, L)
    BY DEF SameAt, SeenAt
  <1>2. ASSUME NEW h, NEW S PROVE BytesAt(T, h, S, I, K) = BytesAt(T, h, S, M, L)
    <2>1. PacketsAt(T, h, S, I, K) = PacketsAt(T, h, S, M, L)
      BY DEF SameAt, PacketsAt
    <2> QED
      BY <2>1 DEF BytesAt
  <1>3. ASSUME NEW h PROVE SteadyAt(T, h, I, K) <=> SteadyAt(T, h, M, L)
    BY <1>1 DEF SameAt, SteadyAt
  <1>4. ASSUME NEW r PROVE EntryAt(T, r, I, K) <=> EntryAt(T, r, M, L)
    BY <1>1, <1>2, <1>3 DEF EntryAt
  <1> QED
    BY <1>1, <1>2, <1>3, <1>4

\* When a sub-interval is finished and the next one not begun: the list has every flow of
\* the window after it as well, since that is not the longer one.
LEMMA ListMoves ==
  ASSUME TracesOK, i \in Nat, k = Len(fsd_traces[i]), ListOK(fsd_traces, recent_fsd, i, k)
  PROVE  /\ ListOK(fsd_traces, recent_fsd, i + 1, 0)
         /\ \A h, S : BytesAt(fsd_traces, h, S, i + 1, 0) = BytesAt(fsd_traces, h, S, i, k)
  <1>1. ASSUME NEW n \in Slots, NEW h
        PROVE  TreatedAt(fsd_traces, n, h, i + 1, 0) = TreatedAt(fsd_traces, n, h, i, k)
    <2>1. ASSUME NEW m \in 1 .. Len(fsd_traces[n])
          PROVE  n < i + 1 \/ (n = i + 1 /\ m <= 0) <=> n < i \/ (n = i /\ m <= k)
      BY DEF TracesOK, Slots
    <2> QED
      BY <2>1 DEF TreatedAt
  <1>2. /\ \A h : SeenAt(fsd_traces, h, i + 1, 0) = SeenAt(fsd_traces, h, i, k)
        /\ \A h, S : BytesAt(fsd_traces, h, S, i + 1, 0) = BytesAt(fsd_traces, h, S, i, k)
        /\ \A r : EntryAt(fsd_traces, r, i + 1, 0) <=> EntryAt(fsd_traces, r, i, k)
    <2>1. SameAt(fsd_traces, i + 1, 0, i, k)
      BY <1>1 DEF SameAt
    <2> QED
      BY <2>1, SameTreated
  <1>3. ASSUME NEW h, NEW n \in SeenAt(fsd_traces, h, i, k), n >= (i + 1) - NumSubintervals
        PROVE  n >= i - NumSubintervals
    BY <1>3, WindowAssumption DEF SeenAt, Slots
  <1> QED
    BY <1>2, <1>3 DEF ListOK

\* The entropy of the window that ends before i, from the list.
LEMMA ListCovers ==
  ASSUME TracesOK, i \in Nat, k \in Nat, ListOK(fsd_traces, recent_fsd, i, k), NEW n \in Nat,
         n + NumSubintervals = i, NEW h \in Flows(fsd_traces)
  PROVE  FlowCovered(fsd_traces, recent_fsd, h, n, i, k)
  <1> DEFINE W == n .. n + NumSubintervals - 1
  <1>1. SUFFICES ASSUME BytesAt(fsd_traces, h, W, i, k) > 0
                 PROVE  \E m \in 1 .. Len(recent_fsd) :
                          /\ recent_fsd[m].h = h
                          /\ recent_fsd[m].value >= BytesAt(fsd_traces, h, W, i, k)
    BY DEF FlowCovered
  <1>2. PICK l \in W : l \in SeenAt(fsd_traces, h, i, k)
    <2> HIDE DEF W
    <2>1. BytesAt(fsd_traces, h, W, i, k) # 0
      BY <1>1, PacketsAre
    <2> QED
      BY <2>1, BytesNone
  <1>3. l \in Nat /\ l >= i - NumSubintervals
    BY <1>2, SeenUpToNow, WindowAssumption
  <1>4. PICK m \in 1 .. Len(recent_fsd) : recent_fsd[m].h = h /\ recent_fsd[m].last_seen >= l
    BY <1>2, <1>3 DEF ListOK
  <1> DEFINE r == recent_fsd[m]
  <1>5. EntryAt(fsd_traces, r, i, k) /\ r.h = h /\ r.last_seen >= l
    BY <1>4 DEF ListOK
  <1> HIDE DEF r
  <1>6. r.last_seen \in Nat /\ r.last_seen <= i
    BY <1>5, SeenUpToNow DEF EntryAt
  <1>7. W \cap SeenAt(fsd_traces, h, i, k) \subseteq LastWindow(r)
    <2>1. ASSUME NEW q \in W, q \in SeenAt(fsd_traces, h, i, k)
          PROVE  q \in LastWindow(r)
      <3>1. q \in Nat /\ q <= r.last_seen /\ q >= n
        BY <1>5, <2>1, SeenUpToNow DEF EntryAt
      <3> QED
        BY <1>6, <3>1, WindowAssumption DEF LastWindow
    <2> QED
      BY <2>1
  <1> HIDE DEF W
  <1>8. BytesAt(fsd_traces, h, W, i, k) <= BytesAt(fsd_traces, h, LastWindow(r), i, k)
    BY <1>7, BytesMore
  <1>9. r.value \in Int /\ r.value >= BytesAt(fsd_traces, h, LastWindow(r), i, k)
    BY <1>5 DEF EntryAt
  <1>10. /\ BytesAt(fsd_traces, h, W, i, k) \in Nat
         /\ BytesAt(fsd_traces, h, LastWindow(r), i, k) \in Nat
    BY PacketsAre
  <1>11. r.value >= BytesAt(fsd_traces, h, W, i, k)
    BY <1>8, <1>9, <1>10
  <1> QED
    BY <1>5, <1>11 DEF r

-------------------------------------------------------------------------------------
(* The steps.                                                                        *)

\* The steps of the window do not touch the list.
LEMMA WindowStep ==
  ASSUME RecentInv, PrepareTotals \/ SlideTotals \/ PrintRecent
  PROVE  RecentInv'
  <1>1. /\ fsd_traces' = fsd_traces /\ i' = i /\ k' = k /\ recent_fsd' = recent_fsd
        /\ ent_fsd' = ent_fsd /\ (phase' = "update" <=> phase = "update")
    BY DEF PrepareTotals, SlideTotals, PrintRecent, Prepare, Slide, PrintResult
  <1>2. Where'
    <2>1. CASE PrepareTotals
      BY <1>1, <2>1 DEF PrepareTotals, Prepare, RecentInv, Where
    <2>2. CASE PrintRecent
      BY <1>1, <2>2 DEF PrintRecent, PrintResult, RecentInv, Where
    <2>3. CASE SlideTotals
      <3>1. /\ phase = "turn" /\ phase' = "evaluate" /\ j' = j + 1
            /\ j < NumIntervals - NumSubintervals
        BY <2>3 DEF SlideTotals, Slide
      <3> QED
        BY <1>1, <3>1, WindowAssumption DEF RecentInv, Where
    <2> QED
      BY <2>1, <2>2, <2>3
  <1>3. SavedOK(fsd_traces, ent_fsd, i, k)'
    BY <1>1 DEF RecentInv, SavedOK
  <1> QED
    BY <1>1, <1>2, <1>3 DEF RecentInv, TracesOK

LEMMA UpdateStep ==
  ASSUME RecentInv, UpdateRecent
  PROVE  RecentInv'
  <1> DEFINE s == fsd_traces[i][k + 1]
  <1>1. /\ fsd_traces' = fsd_traces /\ i' = i /\ k' = k + 1 /\ recent_fsd' = After(s)
        /\ ent_fsd' = ent_fsd /\ phase' = phase /\ phase = "update" /\ j' = j
        /\ k < Len(fsd_traces[i])
    BY DEF UpdateRecent
  <1>2. TracesOK /\ i \in Slots /\ i \in Nat /\ k \in Nat /\ Len(fsd_traces[i]) \in Nat
    BY WindowAssumption DEF RecentInv, Where, TracesOK, Slots
  <1>3. Where'
    BY <1>1, <1>2 DEF RecentInv, Where
  <1>4. ListOK(fsd_traces, After(s), i, k + 1)
    BY <1>1, <1>2, AfterOK DEF RecentInv
  <1>5. ListOK(fsd_traces, recent_fsd, i, k)'
    BY <1>1, <1>4
  <1>6. SavedOK(fsd_traces, ent_fsd, i, k + 1)
    <2> SUFFICES ASSUME NEW n \in Slots, n + NumSubintervals <= i, NEW h \in Flows(fsd_traces)
                 PROVE  FlowCovered(fsd_traces, ent_fsd[n].terms, h, n, i, k + 1)
      BY <1>1, <1>2, WindowAssumption DEF SavedOK, Slots
    <2>1. FlowCovered(fsd_traces, ent_fsd[n].terms, h, n, i, k)
      BY <1>1, <1>2, WindowAssumption, SMTT(30) DEF RecentInv, SavedOK, Slots
    <2>2. i \notin n .. n + NumSubintervals - 1
      BY <1>2, WindowAssumption DEF Slots
    <2>3. BytesAt(fsd_traces, h, n .. n + NumSubintervals - 1, i, k + 1) =
            BytesAt(fsd_traces, h, n .. n + NumSubintervals - 1, i, k)
      BY <1>1, <1>2, <2>2, OneMoreBytes
    <2> QED
      BY <2>1, <2>3 DEF FlowCovered
  <1>7. SavedOK(fsd_traces, ent_fsd, i, k)'
    BY <1>1, <1>6 DEF SavedOK
  <1> QED
    BY <1>1, <1>3, <1>5, <1>7 DEF RecentInv, TracesOK

LEMMA NextIntervalStep ==
  ASSUME RecentInv, NextInterval
  PROVE  RecentInv'
  <1>1. /\ fsd_traces' = fsd_traces /\ i' = i + 1 /\ k' = 0 /\ recent_fsd' = recent_fsd
        /\ ent_fsd' = ent_fsd /\ phase = "update" /\ j' = j /\ k = Len(fsd_traces[i])
        /\ phase' = IF i + 1 < NumSubintervals THEN "update" ELSE "turn"
    BY DEF NextInterval
  <1>2. TracesOK /\ i \in Slots /\ i \in Nat /\ i < NumIntervals /\ i + 1 \in Slots
    BY <1>1, WindowAssumption DEF RecentInv, Where, TracesOK, Slots
  <1>3. Where'
    <2>1. Len(fsd_traces[i + 1]) \in Nat
      BY <1>2 DEF TracesOK
    <2>2. CASE i + 1 < NumSubintervals
      <3>1. j = 0 /\ i + 1 < NumIntervals
        BY <1>1, <1>2, <2>2, WindowAssumption DEF RecentInv, Where
      <3> QED
        BY <1>1, <1>2, <2>1, <2>2, <3>1 DEF RecentInv, Where
    <2>3. CASE ~(i + 1 < NumSubintervals)
      <3>1. i + 1 = j + NumSubintervals
        BY <1>1, <1>2, <2>3, WindowAssumption DEF RecentInv, Where
      <3> QED
        BY <1>1, <1>2, <2>3, <3>1 DEF RecentInv, Where
    <2> QED
      BY <2>2, <2>3
  <1>4. /\ ListOK(fsd_traces, recent_fsd, i + 1, 0)
        /\ \A h, S : BytesAt(fsd_traces, h, S, i + 1, 0) = BytesAt(fsd_traces, h, S, i, k)
    BY <1>1, <1>2, ListMoves DEF RecentInv
  <1>5. ListOK(fsd_traces, recent_fsd, i, k)'
    BY <1>1, <1>4
  <1>6. ASSUME NEW n \in Slots, n + NumSubintervals <= i, NEW h \in Flows(fsd_traces)
        PROVE  FlowCovered(fsd_traces, ent_fsd[n].terms, h, n, i + 1, 0)
    <2>1. FlowCovered(fsd_traces, ent_fsd[n].terms, h, n, i, k)
      BY <1>1, <1>2, <1>6, WindowAssumption DEF RecentInv, SavedOK, Slots
    <2> QED
      BY <1>4, <2>1 DEF FlowCovered
  <1>7. SavedOK(fsd_traces, ent_fsd, i, k)'
    <2>1. ASSUME NEW n \in Slots,
                 n + NumSubintervals < i + 1 \/ (n + NumSubintervals = i + 1 /\ phase' = "update")
          PROVE  n + NumSubintervals <= i
      BY <1>1, <1>2, <2>1, WindowAssumption DEF Slots
    <2> QED
      BY <1>1, <1>6, <2>1 DEF SavedOK
  <1> QED
    BY <1>1, <1>3, <1>5, <1>7 DEF RecentInv, TracesOK

LEMMA EvaluateStep ==
  ASSUME RecentInv, Evaluate
  PROVE  RecentInv'
  <1>1. /\ fsd_traces' = fsd_traces /\ i' = i /\ k' = k /\ recent_fsd' = recent_fsd
        /\ ent_fsd' = [ent_fsd EXCEPT ![i - NumSubintervals] = ListTerms]
        /\ phase = "evaluate" /\ phase' = "update" /\ j' = j
    BY DEF Evaluate
  <1>2. /\ TracesOK /\ i \in Slots /\ i \in Nat /\ k = 0 /\ j > 0 /\ j \in Nat
        /\ i = j + NumSubintervals - 1 /\ j <= NumIntervals - NumSubintervals
        /\ Len(fsd_traces[i]) \in Nat
    BY <1>1, WindowAssumption DEF RecentInv, Where, TracesOK, Slots
  <1>3. Where'
    BY <1>1, <1>2, WindowAssumption DEF RecentInv, Where
  <1>4. /\ DOMAIN ent_fsd' = Slots
        /\ i - NumSubintervals \in Slots => ent_fsd'[i - NumSubintervals].terms = recent_fsd
        /\ \A n \in Slots : n # i - NumSubintervals => ent_fsd'[n] = ent_fsd[n]
    BY <1>1 DEF RecentInv, ListTerms
  <1>5. ASSUME NEW n \in Slots, n + NumSubintervals <= i, NEW h \in Flows(fsd_traces)
        PROVE  FlowCovered(fsd_traces, ent_fsd'[n].terms, h, n, i, k)
    <2>1. n \in Nat
      BY DEF Slots
    <2>2. CASE n + NumSubintervals = i
      <3>1. FlowCovered(fsd_traces, recent_fsd, h, n, i, k)
        BY <1>2, <2>1, <2>2, ListCovers DEF RecentInv
      <3>2. n = i - NumSubintervals
        BY <1>2, <2>1, <2>2, WindowAssumption
      <3> QED
        BY <1>4, <3>1, <3>2
    <2>3. CASE n + NumSubintervals < i
      <3>1. n # i - NumSubintervals
        BY <1>2, <2>1, <2>3, WindowAssumption
      <3>2. FlowCovered(fsd_traces, ent_fsd[n].terms, h, n, i, k)
        BY <2>3 DEF RecentInv, SavedOK
      <3> QED
        BY <1>4, <3>1, <3>2
    <2> QED
      BY <1>2, <1>5, <2>1, <2>2, <2>3, WindowAssumption
  <1>6. SavedOK(fsd_traces, ent_fsd, i, k)'
    <2>1. ASSUME NEW n \in Slots, n + NumSubintervals < i \/ n + NumSubintervals = i
          PROVE  n + NumSubintervals <= i
      BY <1>2, <2>1, WindowAssumption DEF Slots
    <2> QED
      BY <1>1, <1>5, <2>1 DEF SavedOK
  <1> QED
    BY <1>1, <1>3, <1>4, <1>6 DEF RecentInv, TracesOK

LEMMA RecentInvInit == TracesOK /\ InitRecent => RecentInv
  <1> SUFFICES ASSUME TracesOK, InitRecent PROVE RecentInv
    OBVIOUS
  <1>1. /\ j = 0 /\ phase = "update" /\ i = 0 /\ k = 0 /\ recent_fsd = << >>
        /\ DOMAIN ent_fsd = Slots
    BY DEF InitRecent, InitWindow
  <1>2. NumSubintervals \in Nat /\ NumSubintervals > 0 /\ NumIntervals \in Nat /\ 0 \in Slots
        /\ NumSubintervals <= NumIntervals
    BY WindowAssumption DEF Slots
  <1>3. Len(fsd_traces[0]) \in Nat
    BY <1>2 DEF TracesOK
  <1>4. Where
    BY <1>1, <1>2, <1>3 DEF Where
  <1>5. ASSUME NEW h, NEW n \in SeenAt(fsd_traces, h, 0, 0)
        PROVE  FALSE
    BY DEF SeenAt, TreatedAt, TracesOK, Slots
  <1>6. ListOK(fsd_traces, recent_fsd, i, k)
    <2>1. Len(recent_fsd) = 0 /\ 1 .. 0 = {}
      BY <1>1
    <2> QED
      BY <1>1, <1>5, <2>1 DEF ListOK
  <1>7. SavedOK(fsd_traces, ent_fsd, i, k)
    BY <1>1, <1>2 DEF SavedOK, Slots
  <1> QED
    BY <1>1, <1>4, <1>6, <1>7 DEF RecentInv

LEMMA RecentStutter == RecentInv /\ UNCHANGED vars => RecentInv'
  BY DEF RecentInv, TracesOK, Where, SavedOK

LEMMA RecentInvariant == SpecRecent => []RecentInv
  <1>1. RecentInv /\ [NextRecent]_vars => RecentInv'
    BY WindowStep, UpdateStep, NextIntervalStep, EvaluateStep, RecentStutter DEF NextRecent
  <1> QED
    BY <1>1, RecentInvInit, PTL DEF SpecRecent

-------------------------------------------------------------------------------------
(* What follows from it.                                                             *)

\* The properties speak of the packets treated at the place where the program is.
LEMMA AtThePlace ==
  /\ all_fsd = Flows(fsd_traces)
  /\ \A h : Seen(h) = SeenAt(fsd_traces, h, i, k)
  /\ \A h, S : Bytes(h, S) = BytesAt(fsd_traces, h, S, i, k)
  /\ \A h : Steady(h) <=> SteadyAt(fsd_traces, h, i, k)
  <1>1. ASSUME NEW n, NEW h
        PROVE  Treated(n, h) = TreatedAt(fsd_traces, n, h, i, k)
    BY DEF Treated, TreatedAt, Positions
  <1>2. all_fsd = Flows(fsd_traces)
    BY DEF all_fsd, Flows
  <1>3. ASSUME NEW h PROVE Seen(h) = SeenAt(fsd_traces, h, i, k)
    BY <1>1 DEF Seen, SeenAt
  <1>4. ASSUME NEW h, NEW S PROVE Bytes(h, S) = BytesAt(fsd_traces, h, S, i, k)
    <2> DEFINE P == UNION {{n} \X Treated(n, h) : n \in S \cap Slots}
    <2>1. P = PacketsAt(fsd_traces, h, S, i, k)
      BY <1>1 DEF PacketsAt
    <2>2. Bytes(h, S) = Tally(P, [p \in P |-> fsd_traces[p[1]][p[2]].size])
      BY DEF Bytes
    <2> HIDE DEF P
    <2> QED
      BY <2>1, <2>2 DEF BytesAt
  <1>5. ASSUME NEW h PROVE Steady(h) <=> SteadyAt(fsd_traces, h, i, k)
    BY <1>1, <1>3 DEF Steady, SteadyAt
  <1> QED
    BY <1>2, <1>3, <1>4, <1>5

LEMMA EntriesAre ==
  ASSUME RecentInv, NEW h, NEW r \in Entries(h)
  PROVE  EntryAt(fsd_traces, r, i, k) /\ r.h = h
  BY DEF Entries, RecentInv, ListOK

\* The search for one flow, which erases entries on its way, never erases that of another
\* flow that a later window still needs, and no flow is listed twice.
THEOREM RecentFlowsAreListed == SpecRecent => []RecentFlowsListed
  <1>1. RecentInv => RecentFlowsListed
    <2> SUFFICES ASSUME RecentInv PROVE RecentFlowsListed
      OBVIOUS
    <2>1. \A n, m \in 1 .. Len(recent_fsd) : n # m => recent_fsd[n].h # recent_fsd[m].h
      BY DEF RecentInv, ListOK
    <2>2. ASSUME NEW h \in all_fsd, NEW n \in Seen(h), n >= i - NumSubintervals
          PROVE  \E r \in Entries(h) : r.last_seen >= n
      <3>1. h \in Flows(fsd_traces) /\ n \in SeenAt(fsd_traces, h, i, k)
        BY AtThePlace
      <3>2. PICK m \in 1 .. Len(recent_fsd) : recent_fsd[m].h = h /\ recent_fsd[m].last_seen >= n
        BY <2>2, <3>1 DEF RecentInv, ListOK
      <3> QED
        BY <3>2 DEF Entries
    <2> QED
      BY <2>1, <2>2 DEF RecentFlowsListed
  <1> QED
    BY <1>1, RecentInvariant, PTL

\* Nothing is taken away from a flow twice, and nothing that its window still holds.
THEOREM NotUnderstated == SpecRecent => []NeverUnderstated
  <1>1. RecentInv => NeverUnderstated
    <2> SUFFICES ASSUME RecentInv, NEW h \in all_fsd, NEW r \in Entries(h)
                 PROVE  /\ r.value >= Bytes(h, r.last_seen - NumSubintervals .. r.last_seen)
                        /\ r.value <= Bytes(h, Slots)
      BY DEF NeverUnderstated
    <2>1. EntryAt(fsd_traces, r, i, k) /\ r.h = h
      BY EntriesAre
    <2> QED
      BY <2>1, AtThePlace DEF EntryAt, LastWindow
  <1> QED
    BY <1>1, RecentInvariant, PTL

\* For a flow that keeps sending, one packet to a sub-interval, the bytes are exact.
THEOREM SteadyAreExact == SpecRecent => []SteadyFlowsExact
  <1>1. RecentInv => SteadyFlowsExact
    <2> SUFFICES ASSUME RecentInv, NEW h \in all_fsd, NEW r \in Entries(h), Steady(h)
                 PROVE  r.value = Bytes(h, r.last_seen - NumSubintervals .. r.last_seen)
      BY DEF SteadyFlowsExact
    <2>1. EntryAt(fsd_traces, r, i, k) /\ r.h = h
      BY EntriesAre
    <2> QED
      BY <2>1, AtThePlace DEF EntryAt, LastWindow
  <1> QED
    BY <1>1, RecentInvariant, PTL

\* The entropy of flows that is printed for a window misses no flow of the window.
THEOREM WindowsAreCovered == SpecRecent => []WindowFlowsCovered
  <1>1. RecentInv => WindowFlowsCovered
    <2> SUFFICES ASSUME RecentInv, NEW n \in Slots,
                        n + NumSubintervals < i \/ (n + NumSubintervals = i /\ phase = "update"),
                        NEW h \in all_fsd, Bytes(h, n .. n + NumSubintervals - 1) > 0
                 PROVE  \E m \in 1 .. Len(ent_fsd[n].terms) :
                          /\ ent_fsd[n].terms[m].h = h
                          /\ ent_fsd[n].terms[m].value >= Bytes(h, n .. n + NumSubintervals - 1)
      BY DEF WindowFlowsCovered
    <2>1. h \in Flows(fsd_traces)
      BY AtThePlace
    <2>2. FlowCovered(fsd_traces, ent_fsd[n].terms, h, n, i, k)
      BY <2>1 DEF RecentInv, SavedOK
    <2> QED
      BY <2>2, AtThePlace DEF FlowCovered
  <1> QED
    BY <1>1, RecentInvariant, PTL

-------------------------------------------------------------------------------------
(* The values of the entropies.                                                       *)

\* The terms that are not zero, and m_count for all the terms there are.
Full(e) == {x \in DOMAIN e.terms : e.terms[x] # 0}
Top(e, set) == IF set > 0 THEN set ELSE Cardinality(Full(e))

\* A distribution: numbers that sum up to their denominator, no more of them than are
\* counted; those that are counted themselves are not zero.
Whole(e, set) ==
  /\ IsFiniteSet(DOMAIN e.terms) /\ \A x \in DOMAIN e.terms : e.terms[x] \in Nat
  /\ e.over \in Nat \ {0} /\ Tally(DOMAIN e.terms, e.terms) = e.over
  /\ set \in Nat /\ (set > 0 => Cardinality(DOMAIN e.terms) <= set)
  /\ set = 0 => \A x \in DOMAIN e.terms : e.terms[x] # 0

\* Of a distribution the zero terms do not matter.
LEMMA FullFacts ==
  ASSUME NEW e, NEW set, Whole(e, set)
  PROVE  /\ Full(e) \subseteq DOMAIN e.terms /\ IsFiniteSet(Full(e)) /\ Full(e) # {}
         /\ \A x \in Full(e) : e.terms[x] \in Nat \ {0}
         /\ Tally(Full(e), e.terms) = e.over
         /\ Cardinality(Full(e)) \in Nat \ {0} /\ Cardinality(DOMAIN e.terms) \in Nat \ {0}
         /\ Top(e, set) \in Nat \ {0} /\ Cardinality(Full(e)) <= Top(e, set)
         /\ Cardinality(DOMAIN e.terms) <= Top(e, set)
         /\ (set = 0 => Full(e) = DOMAIN e.terms)
  <1> DEFINE S == DOMAIN e.terms
  <1>1. Full(e) \subseteq S /\ \A x \in S \ Full(e) : e.terms[x] = 0
    BY DEF Full
  <1>2. IsFiniteSet(S) /\ IsFiniteSet(Full(e)) /\ Cardinality(Full(e)) <= Cardinality(S)
        /\ Cardinality(Full(e)) \in Nat /\ Cardinality(S) \in Nat
    BY <1>1, FS_Subset, FS_CardinalityType DEF Whole
  <1>3. \A x \in Full(e) : e.terms[x] \in Nat \ {0}
    BY DEF Full, Whole
  <1>4. Tally(Full(e), e.terms) = e.over
    BY <1>1, TallySupport DEF Whole
  <1>5. Full(e) # {}
    BY <1>4, TallyEmpty DEF Whole
  <1>6. Cardinality(Full(e)) # 0
    BY <1>2, <1>5, FS_EmptySet
  <1>7. set = 0 => Full(e) = S
    BY DEF Full, Whole
  <1>8. set \in Nat /\ (set > 0 => Cardinality(S) <= set)
    BY DEF Whole
  <1> HIDE DEF S
  <1>9. Top(e, set) \in Nat \ {0} /\ Cardinality(Full(e)) <= Top(e, set)
        /\ Cardinality(S) <= Top(e, set)
    BY <1>2, <1>6, <1>7, <1>8 DEF Top
  <1> QED
    BY <1>1, <1>2, <1>3, <1>4, <1>5, <1>6, <1>7, <1>9 DEF S

\* What is added, and how many.
LEMMA AddedIs ==
  ASSUME NEW e, NEW set, Whole(e, set), NEW kind \in Kinds
  PROVE  /\ Added(kind, e) = IF kind \in {"shannon", "ubriaco"} THEN Full(e) ELSE DOMAIN e.terms
         /\ Count(kind, e, set) = Top(e, set)
  <1>1. e.over # 0
    BY DEF Whole
  <1>2. Added(kind, e) = IF kind \in {"shannon", "ubriaco"} THEN Full(e) ELSE DOMAIN e.terms
    BY <1>1 DEF Added, Full
  <1>3. set = 0 => Added(kind, e) = Full(e)
    BY <1>2, FullFacts
  <1>4. set \in Nat
    BY DEF Whole
  <1> QED
    BY <1>2, <1>3, <1>4 DEF Count, Top

\* Only one term is certain.
LEMMA CertainIs ==
  ASSUME NEW e, NEW set, Whole(e, set)
  PROVE  Certain(e, Full(e)) <=> Cardinality(Full(e)) = 1
  <1> DEFINE F == Full(e)  w == e.terms  t == e.over
  <1>1. /\ IsFiniteSet(F) /\ F # {} /\ t \in Nat \ {0} /\ Tally(F, w) = t
        /\ \A x \in F : w[x] \in Nat \ {0}
    BY FullFacts DEF Whole
  <1>2. ASSUME Cardinality(F) = 1 PROVE \A x \in F : w[x] = t
    <2>1. PICK x : F = {x}
      BY <1>1, <1>2, FS_Singleton
    <2>2. Tally({x}, w) = w[x]
      BY <1>1, <2>1, TallyOne
    <2> QED
      BY <1>1, <2>1, <2>2
  <1>3. ASSUME \A x \in F : w[x] = t PROVE Cardinality(F) = 1
    <2>1. PICK x \in F : TRUE
      BY <1>1
    <2>2. /\ IsFiniteSet(F \ {x}) /\ x \notin F \ {x} /\ F = (F \ {x}) \cup {x}
          /\ Cardinality(F \ {x}) = Cardinality(F) - 1
      BY <1>1, <2>1, FS_RemoveElement
    <2> DEFINE R == F \ {x}
    <2>3. \A m \in R \cup {x} : w[m] \in Nat
      BY <1>1, <2>1
    <2>4. Tally(R \cup {x}, w) = Tally(R, w) + w[x]
      <3> HIDE DEF F, w
      <3> QED
        BY <2>2, <2>3, TallyAdd
    <2>5. Tally(R, w) \in Nat
      BY <2>2, <2>3, TallyType
    <2>6. Tally(R, w) = 0
      BY <1>1, <1>3, <2>1, <2>2, <2>4, <2>5
    <2>7. \A m \in R : w[m] = 0
      <3>1. IsFiniteSet(R) /\ \A m \in R : w[m] \in Nat
        BY <2>2, <2>3
      <3> HIDE DEF R, w
      <3> QED
        BY <2>6, <3>1, TallyPositive
    <2>8. R = {}
      BY <1>1, <2>7
    <2>9. F = {x}
      BY <2>2, <2>8
    <2> QED
      BY <2>9, FS_Singleton
  <1> QED
    BY <1>2, <1>3 DEF Certain

\* Equal terms, as many as are counted.
AllEven(e, n) == Cardinality(Full(e)) = n /\ \A x \in Full(e) : e.terms[x] * n = e.over

\* Even terms are as even as the inequality between means has them.
LEMMA EvenIs ==
  ASSUME NEW e, NEW set, Whole(e, set), NEW n \in Nat
  PROVE  AllEven(e, n) <=> Cardinality(Full(e)) = n /\ Even(Full(e), e.terms)
  BY FullFacts DEF AllEven, Even

\* The sum of the squares lies between the whole square, reached by a single term, and its
\* share of it, reached by even terms.
LEMMA SumOfSquares ==
  ASSUME NEW e, NEW set, Whole(e, set)
  PROVE  \E Q \in Nat \ {0} :
           LET T == e.over * e.over  n == Top(e, set)
           IN  /\ PowerSum(e, 2) = <<Q, T>> /\ T \in Nat \ {0}
               /\ Q <= T /\ (Q = T <=> Cardinality(Full(e)) = 1)
               /\ T <= n * Q /\ (T = n * Q <=> AllEven(e, n))
  <1> DEFINE S == DOMAIN e.terms  F == Full(e)  w == e.terms  t == e.over  n == Top(e, set)
             a == [x \in S |-> Power(w[x], 2)]  Q == Tally(F, a)
  <1>1. /\ IsFiniteSet(F) /\ F # {} /\ F \subseteq S /\ t \in Nat \ {0} /\ Tally(F, w) = t
        /\ (\A x \in F : w[x] \in Nat \ {0}) /\ n \in Nat /\ Cardinality(F) <= n
    BY FullFacts DEF Whole
  <1>2. \A x \in S : a[x] = w[x] * w[x] /\ a[x] \in Nat
    <2>1. \A x \in S : w[x] \in Nat
      BY DEF Whole
    <2> QED
      BY <2>1, PowerTwo
  <1>3. PowerSum(e, 2) = <<Tally(S, a), Power(t, 2)>>
    <2>1. S # {}
      BY <1>1
    <2> QED
      BY <2>1 DEF PowerSum
  <1>4. Tally(S, a) = Q
    <2>1. \A x \in S \ F : a[x] = 0
      BY <1>2 DEF Full
    <2> HIDE DEF a, S, F
    <2> QED
      BY <1>1, <2>1, TallySupport
  <1>5. Power(t, 2) = t * t
    BY <1>1, PowerTwo
  <1>6. \A x \in F : a[x] = w[x] * w[x]
    BY <1>1, <1>2
  <1> HIDE DEF S, F, w, t, n, a
  <1>7. /\ t * t <= n * Q /\ (t * t = n * Q <=> Cardinality(F) = n /\ Even(F, w))
        /\ Q <= t * t /\ (Q = t * t <=> Cardinality(F) = 1)
    BY <1>1, <1>6, SquaresAtMost, SquaresAtLeast
  <1>8. AllEven(e, n) <=> Cardinality(F) = n /\ Even(F, w)
    BY <1>1, EvenIs DEF F, w
  <1>9. Q \in Nat /\ Q # 0 /\ t * t \in Nat \ {0}
    <2>1. Q \in Nat
      <3>1. \A x \in F : a[x] \in Nat
        BY <1>1, <1>2
      <3> QED
        BY <1>1, <3>1, TallyType
    <2>2. t * t # 0 /\ t * t \in Nat
      BY <1>1
    <2> QED
      BY <1>1, <1>7, <2>1, <2>2
  <1>10. PowerSum(e, 2) = <<Q, t * t>>
    BY <1>3, <1>4, <1>5
  <1>11. Q \in Nat \ {0}
    BY <1>9
  <1> HIDE DEF Q
  <1>12. /\ PowerSum(e, 2) = <<Q, t * t>> /\ t * t \in Nat \ {0}
         /\ Q <= t * t /\ (Q = t * t <=> Cardinality(F) = 1)
         /\ t * t <= n * Q /\ (t * t = n * Q <=> AllEven(e, n))
    BY <1>7, <1>8, <1>9, <1>10
  <1> QED
    BY <1>11, <1>12 DEF t, n, F

\* The sum of the powers 0 is the number of terms.
LEMMA SumOfOnes ==
  ASSUME NEW e, NEW set, Whole(e, set)
  PROVE  PowerSum(e, 0) = <<Cardinality(DOMAIN e.terms), 1>>
  <1> DEFINE S == DOMAIN e.terms  a == [x \in S |-> Power(e.terms[x], 0)]
  <1>1. S # {} /\ IsFiniteSet(S)
    BY FullFacts DEF Whole
  <1>2. \A x \in S : a[x] = 1
    BY PowerZero
  <1>3. PowerSum(e, 0) = <<Tally(S, a), Power(e.over, 0)>>
    BY <1>1 DEF PowerSum
  <1> HIDE DEF a, S
  <1> QED
    BY <1>1, <1>2, <1>3, TallyOnes, PowerZero DEF S

\* What the formulas make of these sums, for a count n.
LEMMA SquaresValue ==
  ASSUME NEW kind \in {"tsalis", "renyi"}, NEW Q \in Nat \ {0}, NEW T \in Nat \ {0}, Q <= T,
         NEW n \in Nat \ {0}, T <= n * Q
  PROVE  LET v == OfPowers(kind, <<Q, T>>, Pow(n, -1))
         IN  /\ v \in {"zero", "part", "all"}
             /\ n > 1 => (v = "zero" <=> Q = T) /\ (v = "all" <=> T = n * Q)
  <1> DEFINE v == <<Q, T>>  t == <<1, n>>
  <1>0. Pow(n, -1) = t
    BY PowerOne DEF Pow
  <1>1. n * Q \in Nat /\ (n > 1 => Q < n * Q)
    BY Z3
  <1>2. v[1] = Q /\ v[2] = T /\ t[1] = 1 /\ t[2] = n
    OBVIOUS
  <1>3. ~NaN(v) /\ ~NoLogarithm(v) /\ (Equal(t, One) <=> n = 1) /\ t[2] # 0
        /\ v[2] # 0
    BY DEF NaN, NoLogarithm, Equal, One
  <1>4. CASE n = 1
    BY <1>0, <1>3, <1>4 DEF OfPowers
  <1>5. CASE n > 1 /\ Q = T
    <2>1. Equal(v, One) /\ ~Equal(t, One)
      BY <1>3, <1>5 DEF Equal, One
    <2>2. OfPowers(kind, v, t) = "zero"
      BY <1>3, <2>1 DEF OfPowers
    <2> QED
      BY <1>0, <1>1, <1>5, <2>2
  <1>6. CASE n > 1 /\ Q < T
    <2>1. ~Equal(v, One) /\ ~Equal(t, One) /\ Less(v, One) /\ Less(t, One)
      BY <1>3, <1>6 DEF Equal, One, Less
    <2>2. Magnitude(v) = <<T, Q>> /\ Magnitude(t) = <<n, 1>>
          /\ Distance(v) = <<T - Q, T>> /\ Distance(t) = <<n - 1, n>>
      BY <1>6 DEF Magnitude, Distance
    <2>3. OfPowers(kind, v, t) = IF kind = "renyi" THEN Percent(<<T, Q>>, <<n, 1>>)
                                 ELSE Percent(<<T - Q, T>>, <<n - 1, n>>)
      BY <1>3, <2>1, <2>2 DEF OfPowers
    <2>4. Percent(<<T, Q>>, <<n, 1>>) = IF T = n * Q THEN "all" ELSE "part"
      BY <1>1 DEF Percent, Less, Equal
    <2>5. Percent(<<T - Q, T>>, <<n - 1, n>>) = IF T = n * Q THEN "all" ELSE "part"
      <3> DEFINE x == (T - Q) * n  y == (n - 1) * T
      <3>1. x + n * Q = n * T /\ y + T = n * T /\ n * T \in Nat
        BY Z3
      <3>2. x \in Int /\ y \in Int
        OBVIOUS
      <3>3. Percent(<<T - Q, T>>, <<n - 1, n>>) = IF x < y THEN "part" ELSE IF x
              = y THEN "all" ELSE "more"
        BY DEF Percent, Less, Equal
      <3> HIDE DEF x, y
      <3>4. x <= y /\ (x = y <=> T = n * Q)
        BY <1>1, <3>1, <3>2
      <3> QED
        BY <3>2, <3>3, <3>4
    <2> QED
      BY <1>0, <1>6, <2>3, <2>4, <2>5
  <1> QED
    BY <1>4, <1>5, <1>6

\* The same for the number of terms, which is at most n.
LEMMA OnesValue ==
  ASSUME NEW kind \in {"tsalis", "renyi"}, NEW N \in Nat \ {0}, NEW n \in Nat \ {0}, N <= n
  PROVE  OfPowers(kind, <<N, 1>>, Pow(n, 1)) \in {"zero", "part", "all"}
  <1> DEFINE v == <<N, 1>>  t == <<n, 1>>
  <1>0. Pow(n, 1) = t
    BY PowerOne DEF Pow
  <1>1. ~NaN(v) /\ ~NoLogarithm(v) /\ (Equal(t, One) <=> n = 1) /\ t[2] # 0 /\ v[2] # 0
        /\ (Equal(v, One) <=> N = 1) /\ ~Less(v, One) /\ ~Less(t, One)
    BY DEF NaN, NoLogarithm, Equal, One, Less
  <1>2. CASE N = 1 \/ n = 1
    BY <1>0, <1>1, <1>2 DEF OfPowers
  <1>3. CASE N > 1 /\ n > 1
    <2>1. Magnitude(v) = v /\ Magnitude(t) = t
          /\ Distance(v) = <<N - 1, 1>> /\ Distance(t) = <<n - 1, 1>>
      BY <1>3 DEF Magnitude, Distance
    <2>2. OfPowers(kind, v, t) = IF kind = "renyi" THEN Percent(v, t)
                                 ELSE Percent(<<N - 1, 1>>, <<n - 1, 1>>)
      BY <1>1, <1>3, <2>1 DEF OfPowers
    <2>3. Percent(v, t) \in {"part", "all"} /\
            Percent(<<N - 1, 1>>, <<n - 1, 1>>) \in {"part", "all"}
      BY DEF Percent, Less, Equal
    <2> QED
      BY <1>0, <2>2, <2>3
  <1> QED
    BY <1>2, <1>3

\* What the logarithms say, for a count of more than 1.
LEMMA LogarithmsValue ==
  ASSUME NEW e, NEW set, Whole(e, set), Top(e, set) > 1
  PROVE  LET v == OfLogarithms(e, Full(e), Top(e, set))
         IN  /\ v \in {"zero", "part", "all"}
             /\ v = "zero" <=> Cardinality(Full(e)) = 1
             /\ v = "all" <=> AllEven(e, Top(e, set))
  <1> DEFINE F == Full(e)  w == e.terms  t == e.over  n == Top(e, set)
             a == [x \in F |-> Power(w[x], w[x])]
             x == Power(t, t)  y == Power(n, t) * Product(F, a)
             v == OfLogarithms(e, F, n)
  <1>1. /\ IsFiniteSet(F) /\ F # {} /\ (\A b \in F : w[b] \in Nat \ {0})
        /\ Tally(F, w) = t /\ t \in Nat \ {0} /\ n \in Nat /\ n > 1
        /\ Cardinality(F) <= n /\ Cardinality(F) \in Nat
    BY FullFacts DEF Whole
  <1>2. v = IF Certain(e, F) THEN "zero" ELSE Percent(<<x, 1>>, <<y, 1>>)
    BY <1>1 DEF OfLogarithms
  <1>3. \A b \in F : a[b] = Power(w[b], w[b]) /\ a[b] \in Nat
    BY <1>1, PowerType
  <1>4. Certain(e, F) <=> Cardinality(F) = 1
    BY CertainIs
  <1>5. AllEven(e, n) <=> Cardinality(F) = n /\ Even(F, w)
    BY <1>1, EvenIs DEF F, w
  <1> HIDE DEF F, w, t, n, a
  <1>6. x <= y /\ (x = y <=> Cardinality(F) = n /\ Even(F, w))
    BY <1>1, <1>3, SelfPowersOf
  <1>7. x \in Nat /\ y \in Nat
    <2>1. Product(F, a) \in Nat
      BY <1>1, <1>3, ProductType
    <2>2. Power(t, t) \in Nat /\ Power(n, t) \in Nat
      BY <1>1, PowerType
    <2> DEFINE p == Power(n, t)  q == Product(F, a)
    <2>3. p * q \in Nat
      <3> HIDE DEF p, q
      <3>1. p \in Nat /\ q \in Nat
        BY <2>1, <2>2 DEF p, q
      <3> QED
        BY <3>1
    <2> QED
      BY <2>2, <2>3
  <1> HIDE DEF x, y
  <1>8. Percent(<<x, 1>>, <<y, 1>>) = IF x < y THEN "part" ELSE "all"
    BY <1>6, <1>7 DEF Percent, Less, Equal
  <1> HIDE DEF v
  <1>9. /\ v \in {"zero", "part", "all"}
        /\ v = "zero" <=> Cardinality(F) = 1
        /\ v = "all" <=> AllEven(e, n)
    <2>1. CASE Cardinality(F) = 1
      BY <1>1, <1>2, <1>4, <1>5, <2>1
    <2>2. CASE Cardinality(F) # 1
      BY <1>2, <1>4, <1>5, <1>6, <1>7, <1>8, <2>2
    <2> QED
      BY <2>1, <2>2
  <1> QED
    BY <1>9 DEF v, F, n

\* An entropy is 0 % and 100 % where it should be.
Extremes(v, e, n) == (v = "zero" <=> Cardinality(Full(e)) = 1) /\ (v = "all" <=> AllEven(e, n))

\* Tsalis and Renyi: for q = 0 the number of terms, for q = 2 the sum of their squares.
LEMMA PowersInRange ==
  ASSUME NEW e, NEW set, Whole(e, set), NEW kind \in {"tsalis", "renyi"}, NEW q \in {0, 2}
  PROVE  LET v == GetValue(kind, q, e, set)
         IN  /\ v \in {"zero", "part", "all"}
             /\ q = 2 /\ Top(e, set) > 1 => Extremes(v, e, Top(e, set))
  <1> DEFINE n == Top(e, set)
  <1>1. GetValue(kind, q, e, set) = OfPowers(kind, PowerSum(e, q), Pow(n, 1 - q))
    <2>1. Count(kind, e, set) = n
      BY AddedIs DEF Kinds
    <2> HIDE DEF n
    <2> QED
      BY <2>1 DEF GetValue
  <1>2. n \in Nat \ {0}
    BY FullFacts
  <1>3. CASE q = 0
    <2> DEFINE N == Cardinality(DOMAIN e.terms)
    <2>1. N \in Nat \ {0} /\ N <= n
      BY FullFacts
    <2>2. PowerSum(e, 0) = <<N, 1>>
      BY SumOfOnes
    <2> HIDE DEF N, n
    <2>3. OfPowers(kind, <<N, 1>>, Pow(n, 1)) \in {"zero", "part", "all"}
      BY <1>2, <2>1, OnesValue
    <2>4. 1 - q = 1
      BY <1>3
    <2> QED
      BY <1>1, <1>3, <2>2, <2>3, <2>4
  <1>4. CASE q = 2
    <2>1. PICK Q \in Nat \ {0} :
            LET T == e.over * e.over
            IN  /\ PowerSum(e, 2) = <<Q, T>> /\ T \in Nat \ {0}
                /\ Q <= T /\ (Q = T <=> Cardinality(Full(e)) = 1)
                /\ T <= n * Q /\ (T = n * Q <=> AllEven(e, n))
      BY SumOfSquares
    <2> DEFINE T == e.over * e.over  v == OfPowers(kind, <<Q, T>>, Pow(n, -1))
    <2> HIDE DEF n
    <2>2. /\ PowerSum(e, 2) = <<Q, T>> /\ T \in Nat \ {0}
          /\ Q <= T /\ (Q = T <=> Cardinality(Full(e)) = 1)
          /\ T <= n * Q /\ (T = n * Q <=> AllEven(e, n))
      BY <2>1
    <2> HIDE DEF T
    <2>3. v \in {"zero", "part", "all"} /\ (n > 1 => (v = "zero" <=> Q = T) /\ (v = "all"
            <=> T = n * Q))
      BY <1>2, <2>2, SquaresValue
    <2>4. 1 - q = -1
      BY <1>4
    <2>5. GetValue(kind, q, e, set) = v
      BY <1>1, <1>4, <2>2, <2>4
    <2> HIDE DEF v
    <2>6. n > 1 => (v = "zero" <=> Cardinality(Full(e)) = 1) /\ (v = "all" <=> AllEven(e, n))
      BY <2>2, <2>3
    <2>7. n > 1 => Extremes(v, e, n)
      BY <2>6 DEF Extremes
    <2> QED
      BY <1>4, <2>3, <2>5, <2>7 DEF n
  <1> QED
    BY <1>3, <1>4

\* Shannon and Ubriaco (q = 1), the sums of logarithms.
LEMMA LogarithmsInRange ==
  ASSUME NEW e, NEW set, Whole(e, set)
  PROVE  LET v == GetValue("shannon", 0, e, set)
             u == GetValue("ubriaco", 1, e, set)
             n == Top(e, set)
         IN  /\ v \in {"zero", "part", "all"} /\ u \in {"zero", "part", "all", "nan"}
             /\ n > 1 => Extremes(v, e, n) /\ Extremes(u, e, n)
  <1> DEFINE n == Top(e, set)  F == Full(e)
  <1>1. /\ Added("shannon", e) = F /\ Added("ubriaco", e) = F
        /\ Count("shannon", e, set) = n /\ Count("ubriaco", e, set) = n
    BY AddedIs DEF Kinds
  <1>2. e.over # 0 /\ n \in Nat \ {0} /\ Cardinality(F) \in Nat \ {0} /\ Cardinality(F) <= n
    BY FullFacts DEF Whole
  <1>3. Certain(e, F) <=> Cardinality(F) = 1
    BY CertainIs
  <1>4. n > 1 => /\ OfLogarithms(e, F, n) \in {"zero", "part", "all"}
                 /\ Extremes(OfLogarithms(e, F, n), e, n)
    BY LogarithmsValue DEF Extremes
  <1> HIDE DEF n, F
  <1>5. GetValue("shannon", 0, e, set) = Shannon(e, F, n)
    BY <1>1, <1>2 DEF GetValue
  <1>6. GetValue("ubriaco", 1, e, set) = Ubriaco(e, F, n, 1)
    BY <1>1, <1>2 DEF GetValue
  <1>7. CASE n = 1
    <2>1. Shannon(e, F, n) = "zero" /\ Ubriaco(e, F, n, 1) = "nan"
      BY <1>2, <1>3, <1>7 DEF Shannon, Ubriaco
    <2> QED
      BY <1>5, <1>6, <1>7, <2>1 DEF n
  <1>8. CASE n > 1
    <2>1. Shannon(e, F, n) = OfLogarithms(e, F, n) /\ Ubriaco(e, F, n, 1) = OfLogarithms(e, F, n)
      BY <1>8 DEF Shannon, Ubriaco
    <2> QED
      BY <1>4, <1>5, <1>6, <1>8, <2>1 DEF n
  <1> QED
    BY <1>2, <1>7, <1>8

\* What is not a number.  The terms are natural numbers, all zero if their denominator is.
Numbers(e, set) ==
  /\ IsFiniteSet(DOMAIN e.terms) /\ \A x \in DOMAIN e.terms : e.terms[x] \in Nat
  /\ e.over \in Nat /\ set \in Nat
  /\ e.over = 0 => \A x \in DOMAIN e.terms : e.terms[x] = 0
SomeZero(e) == \E x \in DOMAIN e.terms : e.terms[x] = 0

\* The sum of powers has a denominator that is not zero, unless a term is zero.
LEMMA SumDefined ==
  ASSUME NEW e, NEW set, Numbers(e, set), ~SomeZero(e), NEW q \in Int
  PROVE  PowerSum(e, q)[2] # 0
  <1> DEFINE S == DOMAIN e.terms  a == [x \in S |-> Power(e.terms[x], IF q < 0 THEN -q ELSE q)]
             p == Product(S, a)
  <1>1. CASE S = {}
    BY <1>1 DEF PowerSum
  <1>2. CASE S # {} /\ q >= 0
    <2>1. e.over \in Nat \ {0}
      BY <1>2 DEF Numbers, SomeZero
    <2>2. PowerSum(e, q) = <<Tally(S, a), Power(e.over, q)>>
      BY <1>2 DEF PowerSum
    <2>3. Power(e.over, q) # 0
      BY <1>2, <2>1, PowerPositive
    <2> QED
      BY <2>2, <2>3
  <1>3. CASE S # {} /\ q < 0
    <2>1. -q \in Nat
      BY <1>3
    <2>2. \A x \in S : e.terms[x] \in Nat \ {0}
      BY DEF Numbers, SomeZero
    <2>3. \A x \in S : a[x] \in Nat \ {0}
      BY <1>3, <2>1, <2>2, PowerPositive
    <2>4. IsFiniteSet(S)
      BY DEF Numbers
    <2>5. p # 0
      <3> HIDE DEF S, a
      <3> QED
        BY <2>3, <2>4, ProductPositive
    <2>6. PowerSum(e, q) = <<Power(e.over, -q) * Tally(S, [x \in S |-> p \div a[x]]), p>>
      BY <1>3, <2>5 DEF PowerSum
    <2> HIDE DEF p
    <2> QED
      BY <2>5, <2>6
  <1> QED
    BY <1>1, <1>2, <1>3

\* So that a term is zero, or the logarithm of a count of 1 divides.
LEMMA UndefinedIs ==
  ASSUME NEW e, NEW set, Numbers(e, set), NEW kind \in Kinds, NEW q \in Int,
         GetValue(kind, q, e, set) = "nan"
  PROVE  SomeZero(e) \/ (kind \in {"ubriaco", "bhatiasingh"} /\ Count(kind, e, set) = 1)
  <1> SUFFICES ASSUME ~SomeZero(e)
               PROVE  kind \in {"ubriaco", "bhatiasingh"} /\ Count(kind, e, set) = 1
    OBVIOUS
  <1> DEFINE S == Added(kind, e)  n == Count(kind, e, set)
  <1>1. S \subseteq DOMAIN e.terms
    BY DEF Added
  <1>2. ~(e.over = 0 /\ S # {})
    BY <1>1 DEF Numbers, SomeZero
  <1>3. \A x, y : Percent(x, y) # "nan"
    BY DEF Percent
  <1>4. OfLogarithms(e, S, n) # "nan"
    BY <1>3 DEF OfLogarithms
  <1>5. kind \notin {"tsalis", "tsalis2", "renyi"}
    <2> SUFFICES ASSUME kind \in {"tsalis", "tsalis2", "renyi"} PROVE FALSE
      OBVIOUS
    <2> DEFINE v == PowerSum(e, q)  t == Pow(n, 1 - q)
    <2>1. GetValue(kind, q, e, set) = OfPowers(kind, v, t)
      BY DEF GetValue
    <2>2. v[2] # 0
      BY SumDefined
    <2> HIDE DEF v, t
    <2>3. ~NaN(v)
      BY <2>2 DEF NaN
    <2> QED
      BY <1>3, <2>1, <2>2, <2>3 DEF OfPowers
  <1>6. CASE kind = "shannon"
    <2>1. GetValue(kind, q, e, set) = Shannon(e, S, n)
      BY <1>2, <1>6 DEF GetValue
    <2> HIDE DEF S, n
    <2> QED
      BY <1>4, <2>1 DEF Shannon
  <1>7. CASE kind = "ubriaco"
    <2>1. GetValue(kind, q, e, set) = Ubriaco(e, S, n, q)
      BY <1>2, <1>7 DEF GetValue
    <2> HIDE DEF S
    <2>2. n = 1
      <3> HIDE DEF n
      <3> QED
        BY <1>3, <1>4, <2>1 DEF Ubriaco
    <2> QED
      BY <1>7, <2>2
  <1>8. CASE kind = "bhatiasingh"
    <2>1. GetValue(kind, q, e, set) = BhatiaSingh(e, S, n)
      BY <1>2, <1>8 DEF GetValue
    <2>2. ~\E x \in S : e.terms[x] = 0
      BY <1>1 DEF SomeZero
    <2> HIDE DEF S
    <2>3. n = 1
      <3> HIDE DEF n
      <3> QED
        BY <2>1, <2>2 DEF BhatiaSingh
    <2> QED
      BY <1>8, <2>3
  <1> QED
    BY <1>5, <1>6, <1>7, <1>8 DEF Kinds

\* The entropy of nothing: 0 except with Tsalis, if it is defined.
LEMMA EmptyIs ==
  ASSUME NEW e, DOMAIN e.terms = {}, e.over = 0, NEW set \in Nat, NEW kind \in Kinds,
         NEW q \in Int,
         kind # "tsalis"
  PROVE  GetValue(kind, q, e, set) = "zero" \/ set = 1
  <1> DEFINE n == Count(kind, e, set)
  <1>1. Added(kind, e) = {}
    BY DEF Added
  <1>2. n = IF set > 0 THEN set ELSE 0
    BY <1>1, FS_EmptySet DEF Count
  <1>3. Certain(e, {})
    BY DEF Certain
  <1>4. OfLogarithms(e, {}, n) = "zero"
    BY <1>3 DEF OfLogarithms
  <1> HIDE DEF n
  <1>5. CASE kind \in {"tsalis2", "renyi"}
    <2> DEFINE v == PowerSum(e, q)  t == Pow(n, 1 - q)
    <2>1. v = <<0, 1>>
      BY DEF PowerSum
    <2>2. GetValue(kind, q, e, set) = OfPowers(kind, v, t)
      BY <1>5 DEF GetValue, n
    <2> HIDE DEF v, t
    <2>3. v[1] = 0 /\ v[2] = 1 /\ ~NaN(v)
      BY <2>1 DEF NaN
    <2>4. OfPowers(kind, v, t) = "zero"
      BY <1>5, <2>3 DEF OfPowers, NoLogarithm
    <2> QED
      BY <2>2, <2>4
  <1>6. CASE kind = "shannon"
    <2>1. GetValue(kind, q, e, set) = Shannon(e, {}, n)
      BY <1>1, <1>6 DEF GetValue, n
    <2>2. Shannon(e, {}, n) = "zero"
      BY <1>3, <1>4 DEF Shannon
    <2> QED
      BY <2>1, <2>2
  <1>7. CASE kind = "ubriaco"
    <2>1. GetValue(kind, q, e, set) = Ubriaco(e, {}, n, q)
      BY <1>1, <1>7 DEF GetValue, n
    <2>2. n # 1 => Ubriaco(e, {}, n, q) = "zero"
      BY <1>3, <1>4 DEF Ubriaco
    <2> QED
      BY <1>2, <2>1, <2>2
  <1>8. CASE kind = "bhatiasingh"
    <2>1. GetValue(kind, q, e, set) = BhatiaSingh(e, {}, n)
      BY <1>1, <1>8 DEF GetValue, n
    <2>2. n # 1 => BhatiaSingh(e, {}, n) = "zero"
      BY <1>3 DEF BhatiaSingh
    <2> QED
      BY <1>2, <2>1, <2>2
  <1> QED
    BY <1>5, <1>6, <1>7, <1>8 DEF Kinds

\* With Tsalis an empty sum gives 1, over a maximum that is less than 1.
LEMMA EmptyTsalis ==
  ASSUME NEW e, DOMAIN e.terms = {}, NEW set \in Nat
  PROVE  GetValue("tsalis", 2, e, set) = IF set > 1 THEN "more" ELSE "zero"
  <1> DEFINE n == Count("tsalis", e, set)  v == <<0, 1>>  t == <<1, n>>
  <1>1. Added("tsalis", e) = {}
    BY DEF Added
  <1>2. n = set
    BY <1>1, FS_EmptySet DEF Count
  <1>3. PowerSum(e, 2) = v
    BY DEF PowerSum
  <1>4. Pow(n, 1 - 2) = t
    <2>1. Power(n, 1) = n
      BY <1>2, PowerOne
    <2> HIDE DEF n
    <2> QED
      BY <2>1 DEF Pow
  <1>5. GetValue("tsalis", 2, e, set) = OfPowers("tsalis", PowerSum(e, 2), Pow(n, 1 - 2))
    BY DEF GetValue
  <1>6. GetValue("tsalis", 2, e, set) = OfPowers("tsalis", v, t)
    BY <1>3, <1>4, <1>5
  <1> HIDE DEF n
  <1>7. v[1] = 0 /\ v[2] = 1 /\ t[1] = 1 /\ t[2] = n /\ ~NaN(v)
    BY DEF NaN
  <1>8. (Equal(t, One) <=> n = 1) /\ ~Equal(v, One) /\ Less(v, One) /\ (n > 1 => Less(t, One))
    BY <1>2 DEF Equal, Less, One
  <1>9. CASE n <= 1
    BY <1>2, <1>6, <1>7, <1>8, <1>9 DEF OfPowers
  <1>10. CASE n > 1
    <2>1. Distance(v) = <<1, 1>> /\ Distance(t) = <<n - 1, n>>
      BY <1>2, <1>10 DEF Distance
    <2>2. OfPowers("tsalis", v, t) = Percent(<<1, 1>>, <<n - 1, n>>)
      BY <1>7, <1>8, <1>10, <2>1 DEF OfPowers
    <2>3. Percent(<<1, 1>>, <<n - 1, n>>) = "more"
      BY <1>2, <1>10 DEF Percent, Less, Equal
    <2> QED
      BY <1>2, <1>6, <1>10, <2>2, <2>3
  <1> QED
    BY <1>2, <1>9, <1>10
-------------------------------------------------------------------------------------
(* The entropies of a window.                                                        *)

\* What SetCount() is given in a capture with g packets.
CountOf(h, g) ==
  CASE h \in {"num_src_ports", "num_dst_ports"} -> MaxPort
    [] h \in {"num_src_ips", "num_dst_ips"}     -> MaxAddress
    [] h = "num_packet_sizes"                   -> NumSizes
    [] h = "num_df"                             -> g
    [] OTHER                                    -> 0

\* The vectors of which a packet may be missing.
Partial == {"num_packet_sizes", "num_src_ports", "num_dst_ports"}

\* What is known of the entropy h of a window: its terms and their denominator agree, there
\* are no more of them than are counted, and only the DF flag can have a term 0.
Sound(e, h, g) ==
  /\ Numbers(e, CountOf(h, g))
  /\ h # "num_df" => ~SomeZero(e)
  /\ h \notin Partial => Tally(DOMAIN e.terms, e.terms) = e.over
  /\ CountOf(h, g) > 0 => Cardinality(DOMAIN e.terms) <= CountOf(h, g)
  /\ h = "num_df" /\ g = 0 => DOMAIN e.terms = {}

\* And of all that is kept of a window.
SoundWindow(r, g) ==
  /\ DOMAIN r.ent = Vectors \cup {"num_packets", "num_bytes", "num_df"}
  /\ \A h \in DOMAIN r.ent : Sound(r.ent[h], h, g)
  /\ r.tot_pktnum = 0 => \A h \in DOMAIN r.ent : DOMAIN r.ent[h].terms = {} /\ r.ent[h].over = 0

\* What is counted for each of the entropies.
LEMMA CountOfIs ==
  ASSUME NEW g \in Nat
  PROVE  /\ \A h : CountOf(h, g) \in Nat
         /\ CountOf("num_src_ports", g) = MaxPort /\ CountOf("num_dst_ports", g) = MaxPort
         /\ CountOf("num_src_ips", g) = MaxAddress /\ CountOf("num_dst_ips", g) = MaxAddress
         /\ CountOf("num_packet_sizes", g) = NumSizes /\ CountOf("num_df", g) = g
         /\ CountOf("num_packets", g) = 0 /\ CountOf("num_bytes", g) = 0
  BY RangeAssumption, CellAssumption DEF CountOf

\* The cells of a histogram are its elements.
LEMMA CellsOf ==
  ASSUME NEW h \in Vectors
  PROVE  /\ Elements(h) = IF h = "num_packet_sizes" THEN 0 .. NumSizes - 1 ELSE 0 .. NumPorts - 1
         /\ {c \in Cells : c[1] = h} = {h} \X Elements(h)
         /\ IsFiniteSet(Elements(h))
         /\ Cardinality(Elements(h)) = IF h = "num_packet_sizes" THEN NumSizes ELSE NumPorts
  <1> DEFINE B == IF h = "num_packet_sizes" THEN 0 .. NumSizes - 1 ELSE 0 .. NumPorts - 1
  <1>1. {c \in Cells : c[1] = h} = {h} \X B
    <2>1. h \notin Scalars
      BY DEF Vectors, Histograms, Scalars
    <2> QED
      BY <2>1 DEF Vectors, Histograms, Cells
  <1>2. Elements(h) = {c[2] : c \in {h} \X B}
    BY <1>1 DEF Elements
  <1> HIDE DEF B
  <1>3. Elements(h) = B
    <2>1. ASSUME NEW b \in B PROVE b \in Elements(h)
      <3>1. <<h, b>> \in {h} \X B /\ <<h, b>>[2] = b
        BY <2>1
      <3> QED
        BY <1>2, <3>1
    <2>2. ASSUME NEW b \in Elements(h) PROVE b \in B
      <3>1. PICK c \in {h} \X B : b = c[2]
        BY <1>2, <2>2
      <3> QED
        BY <3>1
    <2> QED
      BY <2>1, <2>2
  <1>4. IsFiniteSet(B) /\ Cardinality(B) = IF h = "num_packet_sizes" THEN NumSizes ELSE NumPorts
    <2>1. 0 \in Int /\ NumPorts - 1 \in Int /\ NumSizes - 1 \in Int
      BY CellAssumption
    <2> QED
      BY <2>1, FS_Interval, CellAssumption DEF B
  <1> QED
    BY <1>1, <1>3, <1>4 DEF B

\* The cells of a row, and the fields among them.
LEMMA TableCells == IsFiniteSet(Cells) /\ Fields \subseteq Cells
  <1>1. IsFiniteSet(Scalars) /\ IsFiniteSet(Histograms)
    BY FourFinite DEF Scalars, Histograms
  <1>2. IsFiniteSet(Cells)
    BY <1>1, CellsFinite, CellAssumption DEF Cells
  <1>3. Fields \subseteq Cells
    BY DEF Fields, Cells, Scalars
  <1> QED
    BY <1>2, <1>3

\* The sums over a window, as a row.
RowOf(n) == [c \in Cells |-> WindowSum(n, c)]

\* A window of consistent sub-intervals is consistent.
LEMMA WindowConsistent ==
  ASSUME intervals \in [Slots -> [Cells -> Nat]], NEW ports \in BOOLEAN,
         \A m \in Slots : Consistent(intervals[m], ByteMode, ports),
         NEW n \in Nat, n <= NumIntervals - NumSubintervals
  PROVE  RowOf(n) \in [Cells -> Nat] /\ Consistent(RowOf(n), ByteMode, ports)
  <1> DEFINE S == Window(n)  b == ByteMode  r == intervals
  <1>1. S \subseteq Slots /\ IsFiniteSet(S)
    BY WindowInside
  <1>2. b \in BOOLEAN /\ \A m \in S : r[m] \in [Cells -> Nat] /\ Consistent(r[m], b, ports)
    BY <1>1, WindowAssumption
  <1>3. IsFiniteSet(Cells) /\ Fields \subseteq Cells
    BY TableCells
  <1>4. ASSUME NEW c \in Cells
        PROVE  /\ WindowSum(n, c) = Tally(S, [m \in S |-> r[m][c]])
               /\ WindowSum(n, c) \in Nat
    <2> DEFINE v == [m \in S |-> r[m][c]]  w == Column(c)
    <2>1. \A m \in S : w[m] = v[m] /\ w[m] \in Nat
      BY <1>1 DEF Column
    <2>2. WindowSum(n, c) = Tally(S, w)
      BY DEF WindowSum
    <2> HIDE DEF v, w, S
    <2>3. Tally(S, w) = Tally(S, v)
      BY <2>1, TallySame
    <2>4. Tally(S, w) \in Nat
      BY <1>1, <2>1, TallyType
    <2> QED
      BY <2>2, <2>3, <2>4 DEF v
  <1>5. RowOf(n) \in [Cells -> Nat]
    BY <1>4 DEF RowOf
  <1>6. RowOf(n) = RowTotal(Cells, S, r)
    BY <1>4 DEF RowOf, RowTotal
  <1> HIDE DEF S, b, r
  <1>7. Consistent(RowTotal(Cells, S, r), b, ports)
    BY <1>1, <1>2, <1>3, TotalConsistent
  <1> QED
    BY <1>5, <1>6, <1>7 DEF b

\* The elements of a vector sum up to what the row of the window holds of it.
LEMMA ElementsSum ==
  ASSUME intervals \in [Slots -> [Cells -> Nat]], NEW h \in Vectors,
         NEW n \in Nat, RowOf(n) \in [Cells -> Nat], NEW d \in Nat
  PROVE  LET e == Terms([b \in Elements(h) |-> WindowSum(n, <<h, b>>)], d)
         IN  /\ IsFiniteSet(DOMAIN e.terms) /\ ~SomeZero(e)
             /\ \A b \in DOMAIN e.terms : e.terms[b] \in Nat
             /\ Cardinality(DOMAIN e.terms) <= Cardinality(Elements(h))
             /\ Tally(DOMAIN e.terms, e.terms) = RowSum(RowOf(n), h)
             /\ e.over = d
  <1> DEFINE B == Elements(h)  u == RowOf(n)  v == [b \in B |-> WindowSum(n, <<h, b>>)]
             D == {b \in B : v[b] # 0}  e == Terms(v, d)  w == e.terms
  <1>1. IsFiniteSet(B) /\ {c \in Cells : c[1] = h} = {h} \X B
    BY CellsOf
  <1>2. \A b \in B : v[b] \in Nat /\ v[b] = u[<<h, b>>]
    <2> SUFFICES ASSUME NEW b \in B PROVE v[b] \in Nat /\ v[b] = u[<<h, b>>]
      OBVIOUS
    <2>1. <<h, b>> \in Cells
      BY <1>1
    <2> QED
      BY <2>1 DEF RowOf
  <1>3. e.over = d /\ w = [b \in D |-> v[b]] /\ DOMAIN w = D
    BY DEF Terms
  <1> HIDE DEF e, w
  <1>4. \A b \in D : w[b] = v[b] /\ w[b] \in Nat /\ w[b] # 0
    BY <1>2, <1>3
  <1>5. D \in SUBSET B /\ (\A b \in B \ D : v[b] = 0)
    OBVIOUS
  <1>6. {c \in DOMAIN u : c[1] = h} = {h} \X B
    BY <1>1
  <1> HIDE DEF B, u, v, D
  <1>7. IsFiniteSet(D) /\ Cardinality(D) <= Cardinality(B)
    BY <1>1, <1>5, FS_Subset
  <1>8. RowSum(u, h) = Tally(B, v)
    BY <1>1, <1>2, <1>6, RowSumElements
  <1>9. Tally(D, v) = Tally(B, v)
    BY <1>5, TallySupport
  <1>10. Tally(D, w) = Tally(D, v)
    BY <1>4, TallySame
  <1>11. ~SomeZero(e)
    BY <1>3, <1>4 DEF SomeZero, w
  <1> QED
    BY <1>3, <1>4, <1>7, <1>8, <1>9, <1>10, <1>11 DEF e, w, v, u, B

\* There are as many packets in the capture as the sub-intervals have together.
LEMMA TotalPackets ==
  ASSUME intervals \in [Slots -> [Cells -> Nat]]
  PROVE  g_total_packets \in Nat /\ \A h : SetCount(h) = CountOf(h, g_total_packets)
  <1> DEFINE p == Column(<<"num_packets", 0>>)
  <1>1. \A m \in Slots : p[m] \in Nat
    BY ColumnType DEF Scalars
  <1>2. IsFiniteSet(Slots)
    BY FS_Interval, WindowAssumption DEF Slots
  <1> HIDE DEF p
  <1>3. Tally(Slots, p) \in Nat
    BY <1>1, <1>2, TallyType
  <1> QED
    BY <1>3 DEF g_total_packets, SetCount, CountOf, p

\* The entropies over time: the sub-intervals without packets contribute nothing.
LEMMA SubintervalsSound ==
  ASSUME TotalsInv, stage # "prepare", TableConsistent,
         NEW f \in {"num_packets", "num_bytes", "num_df"}
  PROVE  /\ Sound(SubintervalTerms(f), f, g_total_packets)
         /\ total["num_packets"] = 0 =>
              DOMAIN SubintervalTerms(f).terms = {} /\ SubintervalTerms(f).over = 0
  <1> DEFINE W == Window(j)  p == Column(<<"num_packets", 0>>)  v == Column(<<f, 0>>)
             D == {m \in W : intervals[m][<<"num_packets", 0>>] # 0}
             e == SubintervalTerms(f)  w == e.terms  g == g_total_packets
  <1>1. /\ intervals \in [Slots -> [Cells -> Nat]] /\ j \in Nat
        /\ j <= NumIntervals - NumSubintervals /\ TotalsTrackWindow
    BY DEF TotalsInv
  <1>2. W \subseteq Slots /\ IsFiniteSet(W) /\ IsFiniteSet(Slots)
    <2>1. IsFiniteSet(Slots)
      BY FS_Interval, WindowAssumption DEF Slots
    <2> QED
      BY <1>1, <2>1, WindowInside
  <1>3. /\ \A m \in Slots : p[m] = intervals[m][<<"num_packets", 0>>] /\ p[m] \in Nat
        /\ \A m \in Slots : v[m] = intervals[m][<<f, 0>>] /\ v[m] \in Nat
    BY <1>1, ColumnType DEF Scalars
  <1>4. \A m \in W : /\ p[m] = 0 => v[m] = 0
                     /\ f # "num_df" => p[m] <= v[m]
    <2> SUFFICES ASSUME NEW m \in W
                 PROVE  (p[m] = 0 => v[m] = 0) /\ (f # "num_df" => p[m] <= v[m])
      OBVIOUS
    <2>1. PICK ports \in BOOLEAN : Consistent(intervals[m], ByteMode, ports)
      BY <1>2 DEF TableConsistent
    <2> DEFINE a == intervals[m][<<"num_packets", 0>>]  b == intervals[m][<<"num_bytes", 0>>]
               d == intervals[m][<<"num_df", 0>>]
    <2>2. d <= a /\ a <= b /\ (a = 0 => b = 0)
      BY <2>1 DEF Consistent
    <2>3. p[m] = a /\ a \in Nat /\ v[m] \in Nat
          /\ v[m] = IF f = "num_packets" THEN a ELSE IF f = "num_bytes" THEN b ELSE d
      BY <1>2, <1>3
    <2> HIDE DEF a, b, d, p, v
    <2> QED
      BY <2>2, <2>3
  <1>5. w = [m \in D |-> intervals[m][<<f, 0>>]] /\ DOMAIN w = D /\ e.over = total[f]
    BY DEF SubintervalTerms
  <1>6. /\ total[f] = Tally(W, v) /\ total["num_packets"] = Tally(W, p)
        /\ g = Tally(Slots, p)
    BY <1>1 DEF TotalsTrackWindow, WindowSum, Scalars, g_total_packets
  <1>7. D \subseteq W /\ (\A m \in D : p[m] \in Nat \ {0}) /\ (\A m \in W \ D : p[m] = 0)
    BY <1>2, <1>3
  <1> HIDE DEF e, W, D
  <1>8. \A m \in D : w[m] = v[m] /\ w[m] \in Nat
    BY <1>2, <1>3, <1>5, <1>7
  <1> HIDE DEF w, p, v, g
  <1>9. IsFiniteSet(D) /\ D \in SUBSET W /\ D \in SUBSET Slots
    BY <1>2, <1>7, FS_Subset
  <1>10. Tally(D, v) = Tally(W, v) /\ Tally(D, w) = Tally(D, v)
    <2>1. \A m \in W \ D : v[m] = 0
      BY <1>4, <1>7
    <2> QED
      BY <1>8, <1>9, <2>1, TallySupport, TallySame
  <1>11. Tally(D, w) = total[f] /\ Tally(D, w) \in Nat
    BY <1>6, <1>8, <1>9, <1>10, TallyType
  <1>12. Cardinality(D) <= g /\ g \in Nat /\ Cardinality(D) \in Nat
    <2>1. Cardinality(D) <= Tally(D, p)
      BY <1>7, <1>9, TallyCounts
    <2>2. \A m \in Slots : p[m] \in Nat
      BY <1>3
    <2>3. Tally(D, p) <= Tally(Slots, p)
      BY <1>2, <1>9, <2>2, TallySubset
    <2>4. Tally(D, p) \in Nat /\ Tally(Slots, p) \in Nat /\ Cardinality(D) \in Nat
      BY <1>2, <1>7, <1>9, <2>2, TallyType, FS_CardinalityType
    <2> QED
      BY <1>6, <2>1, <2>3, <2>4
  <1>13. total[f] = 0 => \A m \in D : w[m] = 0
    <2>1. \A m \in D : w[m] \in Nat
      BY <1>8
    <2> QED
      BY <1>9, <1>11, <2>1, TallyPositive
  <1>14. total["num_packets"] = 0 => D = {} /\ total[f] = 0
    <2> SUFFICES ASSUME Tally(W, p) = 0 PROVE D = {} /\ total[f] = 0
      BY <1>6
    <2>1. \A m \in W : p[m] \in Nat
      BY <1>2, <1>3
    <2>2. \A m \in W : p[m] = 0
      BY <1>2, <2>1, TallyPositive
    <2>3. D = {}
      BY <1>7, <2>2
    <2>4. Tally(D, w) = 0
      BY <2>3, TallyEmpty
    <2> QED
      BY <1>11, <2>3, <2>4
  <1>15. f # "num_df" => \A m \in D : w[m] # 0
    BY <1>2, <1>3, <1>4, <1>7, <1>8
  <1>16. g = 0 => D = {}
    <2>1. g = 0 => Cardinality(D) = 0
      BY <1>12
    <2> QED
      BY <1>9, <2>1, FS_EmptySet
  <1>17. CountOf(f, g) \in Nat /\ (f = "num_df" => CountOf(f, g) = g)
         /\ (f # "num_df" => CountOf(f, g) = 0)
    BY <1>12, CountOfIs
  <1>18. Numbers(e, CountOf(f, g))
    BY <1>5, <1>8, <1>9, <1>11, <1>13, <1>17 DEF Numbers, w
  <1>19. f # "num_df" => ~SomeZero(e)
    BY <1>5, <1>15 DEF SomeZero, w
  <1>20. Sound(e, f, g)
    BY <1>5, <1>11, <1>12, <1>16, <1>17, <1>18, <1>19 DEF Sound, w
  <1> QED
    BY <1>5, <1>14, <1>20 DEF e, w, g

\* The entropies over the elements of the vectors.
LEMMA ElementsSound ==
  ASSUME TotalsInv, stage # "prepare", TableConsistent, NEW h \in Vectors
  PROVE  /\ Sound(ElementTerms(h), h, g_total_packets)
         /\ total["num_packets"] = 0 =>
              DOMAIN ElementTerms(h).terms = {} /\ ElementTerms(h).over = 0
  <1> DEFINE g == g_total_packets  P == total["num_packets"]  B == total["num_bytes"]
             u == RowOf(j)  e == ElementTerms(h)
             d == IF h # "num_packet_sizes" /\ ByteMode THEN B ELSE P
  <1>1. /\ intervals \in [Slots -> [Cells -> Nat]] /\ j \in Nat
        /\ j <= NumIntervals - NumSubintervals /\ TotalsTrackWindow
    BY DEF TotalsInv
  <1>2. g \in Nat
    BY <1>1, TotalPackets
  <1>3. PICK ports \in BOOLEAN : \A m \in Slots : Consistent(intervals[m], ByteMode, ports)
    BY DEF TableConsistent
  <1>4. u \in [Cells -> Nat] /\ Consistent(u, ByteMode, ports)
    BY <1>1, <1>3, WindowConsistent
  <1>5. P = u[<<"num_packets", 0>>] /\ B = u[<<"num_bytes", 0>>] /\ P \in Nat /\ B \in Nat
    <2>1. <<"num_packets", 0>> \in Cells /\ <<"num_bytes", 0>> \in Cells
      BY DEF Cells, Scalars
    <2>2. P = WindowSum(j, <<"num_packets", 0>>) /\ B = WindowSum(j, <<"num_bytes", 0>>)
      BY <1>1 DEF TotalsTrackWindow, Scalars
    <2> QED
      BY <1>4, <2>1, <2>2 DEF RowOf
  <1>6. CountOf(h, g) \in Nat
        /\ (CountOf(h, g) > 0 => Cardinality(Elements(h)) <= CountOf(h, g))
        /\ h # "num_df"
    <2>1. Cardinality(Elements(h)) = IF h = "num_packet_sizes" THEN NumSizes ELSE NumPorts
      BY CellsOf
    <2>2. h \in {"num_src_ports", "num_dst_ports", "num_src_ips", "num_dst_ips",
                 "num_packet_sizes"}
      BY DEF Vectors, Histograms
    <2> QED
      BY <1>2, <2>1, <2>2, CountOfIs, RangeAssumption, CellAssumption
  <1>7. CASE P = 0
    <2>1. e.terms = << >> /\ e.over = 0
      BY <1>7 DEF ElementTerms, NoTerms
    <2>2. DOMAIN e.terms = {} /\ IsFiniteSet({}) /\ Cardinality({}) = 0
      BY <2>1, FS_EmptySet
    <2>3. Tally({}, e.terms) = 0
      BY TallyEmpty
    <2> HIDE DEF e, g
    <2>4. Numbers(e, CountOf(h, g)) /\ ~SomeZero(e)
      BY <1>6, <2>1, <2>2 DEF Numbers, SomeZero
    <2>5. Sound(e, h, g)
      BY <1>6, <2>1, <2>2, <2>3, <2>4 DEF Sound
    <2> QED
      BY <2>1, <2>2, <2>5 DEF e, g
  <1>8. CASE P > 0
    <2>1. e = Terms([b \in Elements(h) |-> WindowSum(j, <<h, b>>)], d)
      BY <1>8 DEF ElementTerms
    <2>2. d \in Nat /\ d # 0
      BY <1>4, <1>5, <1>8 DEF Consistent
    <2>3. /\ IsFiniteSet(DOMAIN e.terms) /\ ~SomeZero(e)
          /\ \A b \in DOMAIN e.terms : e.terms[b] \in Nat
          /\ Cardinality(DOMAIN e.terms) <= Cardinality(Elements(h))
          /\ Tally(DOMAIN e.terms, e.terms) = RowSum(u, h)
          /\ e.over = d
      <3> HIDE DEF d, e, u
      <3>1. LET x == Terms([b \in Elements(h) |-> WindowSum(j, <<h, b>>)], d)
            IN  /\ IsFiniteSet(DOMAIN x.terms) /\ ~SomeZero(x)
                /\ \A b \in DOMAIN x.terms : x.terms[b] \in Nat
                /\ Cardinality(DOMAIN x.terms) <= Cardinality(Elements(h))
                /\ Tally(DOMAIN x.terms, x.terms) = RowSum(RowOf(j), h)
                /\ x.over = d
        BY <1>1, <1>4, <2>2, ElementsSum DEF u
      <3> QED
        BY <2>1, <3>1 DEF u
    <2>4. h \notin Partial => RowSum(u, h) = d
      <3>1. h \notin Partial => h \in {"num_src_ips", "num_dst_ips"}
        BY DEF Partial, Vectors, Histograms
      <3> QED
        BY <1>4, <1>5, <3>1 DEF Consistent
    <2>5. Cardinality(DOMAIN e.terms) \in Nat /\ Cardinality(Elements(h)) \in Nat
      BY <2>3, CellsOf, FS_CardinalityType
    <2> HIDE DEF e, g, d, u
    <2>6. Numbers(e, CountOf(h, g))
      BY <1>6, <2>2, <2>3 DEF Numbers
    <2>7. CountOf(h, g) > 0 => Cardinality(DOMAIN e.terms) <= CountOf(h, g)
      BY <1>6, <2>3, <2>5
    <2>8. Sound(e, h, g)
      BY <1>6, <2>3, <2>4, <2>6, <2>7 DEF Sound
    <2> QED
      BY <1>8, <2>8 DEF e, g
  <1> QED
    BY <1>5, <1>7, <1>8

\* What the program keeps of a window when it has evaluated it.
LEMMA EvaluatedSound ==
  ASSUME TotalsInv, stage # "prepare", TableConsistent
  PROVE  SoundWindow(Evaluated, g_total_packets)
  <1> DEFINE r == Evaluated  H == Vectors \cup {"num_packets", "num_bytes", "num_df"}
  <1>1. r.ent = [h \in H |-> IF h \in Vectors THEN ElementTerms(h) ELSE SubintervalTerms(h)]
        /\ r.tot_pktnum = total["num_packets"]
    BY DEF Evaluated
  <1>2. ASSUME NEW h \in H
        PROVE  /\ Sound(r.ent[h], h, g_total_packets)
               /\ r.tot_pktnum = 0 => DOMAIN r.ent[h].terms = {} /\ r.ent[h].over = 0
    <2>1. CASE h \in Vectors
      BY <1>1, <2>1, ElementsSound
    <2>2. CASE h \notin Vectors
      BY <1>1, <2>2, SubintervalsSound
    <2> QED
      BY <2>1, <2>2
  <1>3. DOMAIN r.ent = H
    BY <1>1
  <1> HIDE DEF r, H
  <1>4. SoundWindow(r, g_total_packets)
    BY <1>2, <1>3 DEF SoundWindow, H
  <1> QED
    BY <1>4 DEF r

-------------------------------------------------------------------------------------
(* The values of a window that has just been evaluated.                               *)

\* The inductive invariant: the running totals are right, so that what is kept of each
\* window is, and the table is that of a reader.
ValuesInv ==
  /\ TotalsInv /\ TableConsistent
  /\ DOMAIN result = Slots
  /\ phase = "evaluate" => j \in Nat \ {0} /\ SoundWindow(result[j - 1], g_total_packets)

\* At the beginning nothing has been evaluated.
LEMMA ValuesInit ==
  ASSUME TableConsistent, intervals \in [Slots -> [Cells -> Nat]], InitRecent
  PROVE  ValuesInv
  <1>1. InitWindow /\ phase = "update"
    BY DEF InitRecent
  <1>2. TotalsInv
    BY <1>1, WindowAssumption DEF InitWindow, TotalsInv, TotalsTrackWindow
  <1>3. DOMAIN result = Slots
    BY <1>1 DEF InitWindow
  <1> QED
    BY <1>1, <1>2, <1>3 DEF ValuesInv

\* A turn of the loop evaluates the window, with the totals it has before they move on.
LEMMA ValuesTurn ==
  ASSUME ValuesInv, SlideTotals
  PROVE  ValuesInv'
  <1>1. Slide /\ stage = "sliding" /\ intervals' = intervals /\ j' = j + 1
        /\ result' = [result EXCEPT ![j] = Evaluated]
    BY DEF SlideTotals, Slide
  <1>2. TotalsInv /\ TableConsistent /\ DOMAIN result = Slots
    BY DEF ValuesInv
  <1>3. TotalsInv'
    BY <1>1, <1>2, TotalsStep DEF NextWindow
  <1>4. TableConsistent' /\ g_total_packets' = g_total_packets
    BY <1>1, <1>2 DEF TableConsistent, g_total_packets, Column
  <1>5. j \in Nat /\ j \in Slots /\ j' \in Nat \ {0} /\ j' - 1 = j
    BY <1>1, <1>2, WindowAssumption DEF TotalsInv, Slots
  <1>6. SoundWindow(Evaluated, g_total_packets)
    BY <1>1, <1>2, EvaluatedSound
  <1>7. result'[j' - 1] = Evaluated /\ DOMAIN result' = Slots
    BY <1>1, <1>2, <1>5
  <1>8. (SoundWindow(result[j - 1], g_total_packets))'
    BY <1>4, <1>6, <1>7 DEF SoundWindow, Sound, CountOf, Numbers, SomeZero
  <1> QED
    BY <1>3, <1>4, <1>5, <1>7, <1>8 DEF ValuesInv

\* The other steps leave what was evaluated alone, or end the evaluation.
LEMMA ValuesStep ==
  ASSUME ValuesInv, [NextRecent]_vars
  PROVE  ValuesInv'
  <1>1. CASE SlideTotals
    BY <1>1, ValuesTurn
  <1>2. ASSUME NextWindow \/ UNCHANGED <<intervals, slidingVars>>, intervals' = intervals,
               result' = result, j' = j, phase' = phase \/ phase' # "evaluate"
        PROVE  ValuesInv'
    <2>1. TotalsInv /\ TableConsistent /\ DOMAIN result = Slots
      BY DEF ValuesInv
    <2>2. TotalsInv'
      BY <1>2, <2>1, TotalsStep
    <2>3. TableConsistent' /\ g_total_packets' = g_total_packets
      BY <1>2, <2>1 DEF TableConsistent, g_total_packets, Column
    <2>4. ASSUME phase' = "evaluate"
          PROVE  (j \in Nat \ {0} /\ SoundWindow(result[j - 1], g_total_packets))'
      <3>1. j \in Nat \ {0} /\ SoundWindow(result[j - 1], g_total_packets)
        BY <1>2, <2>4 DEF ValuesInv
      <3>2. (SoundWindow(result[j - 1], g_total_packets))'
        BY <1>2, <2>3, <3>1 DEF SoundWindow, Sound, CountOf, Numbers, SomeZero
      <3> QED
        BY <1>2, <3>1, <3>2
    <2>5. DOMAIN result' = Slots
      BY <1>2, <2>1
    <2> QED
      BY <2>2, <2>3, <2>4, <2>5 DEF ValuesInv
  <1>3. CASE PrepareTotals
    BY <1>2, <1>3 DEF PrepareTotals, Prepare, NextWindow, recentVars
  <1>4. CASE UpdateRecent
    BY <1>2, <1>4 DEF UpdateRecent, windowVars, slidingVars
  <1>5. CASE NextInterval
    BY <1>2, <1>5 DEF NextInterval, windowVars, slidingVars
  <1>6. CASE Evaluate
    BY <1>2, <1>6 DEF Evaluate, slidingVars
  <1>7. CASE PrintRecent
    BY <1>2, <1>7 DEF PrintRecent, PrintResult, NextWindow, recentVars
  <1>8. CASE UNCHANGED vars
    BY <1>2, <1>8 DEF vars, windowVars, slidingVars, recentVars
  <1> QED
    BY <1>1, <1>3, <1>4, <1>5, <1>6, <1>7, <1>8 DEF NextRecent

\* The invariant holds always.
LEMMA ValuesKept == SpecValues => []ValuesInv
  <1>1. TableConsistent /\ (intervals \in [Slots -> [Cells -> Nat]]) /\ InitRecent => ValuesInv
    BY ValuesInit
  <1>2. ValuesInv /\ [NextRecent]_vars => ValuesInv'
    BY ValuesStep
  <1> QED
    BY <1>1, <1>2, PTL DEF SpecValues, SpecRecent

\* What the properties look at.
LEMMA ComputedIs ==
  ASSUME ValuesInv, NEW h \in DOMAIN Computed
  PROVE  /\ phase = "evaluate" /\ Computed = result[j - 1].ent
         /\ Sound(Computed[h], h, g_total_packets)
         /\ h \in Vectors \cup {"num_packets", "num_bytes", "num_df"}
         /\ SetCount(h) = CountOf(h, g_total_packets) /\ g_total_packets \in Nat
         /\ result[j - 1].tot_pktnum = 0 => DOMAIN Computed[h].terms = {} /\ Computed[h].over = 0
  <1>1. phase = "evaluate"
    <2> SUFFICES ASSUME phase # "evaluate" PROVE FALSE
      OBVIOUS
    <2>1. Computed = << >>
      BY DEF Computed
    <2> QED
      BY <2>1
  <1>2. Computed = result[j - 1].ent
    BY <1>1 DEF Computed
  <1>3. SoundWindow(result[j - 1], g_total_packets)
    BY <1>1 DEF ValuesInv
  <1>4. SetCount(h) = CountOf(h, g_total_packets) /\ g_total_packets \in Nat
    BY TotalPackets DEF ValuesInv, TotalsInv
  <1> QED
    BY <1>1, <1>2, <1>3, <1>4 DEF SoundWindow

\* A complete entropy with packets is a distribution.
LEMMA OccupiedWhole ==
  ASSUME ValuesInv, NEW h \in Occupied, Complete(h)
  PROVE  Whole(Computed[h], SetCount(h))
  <1> DEFINE e == Computed[h]  g == g_total_packets  set == SetCount(h)
  <1>1. h \in DOMAIN Computed /\ e.over > 0
    BY DEF Occupied
  <1>2. Sound(e, h, g) /\ set = CountOf(h, g) /\ g \in Nat
        /\ h \in Vectors \cup {"num_packets", "num_bytes", "num_df"}
    BY <1>1, ComputedIs
  <1>3. Tally(DOMAIN e.terms, e.terms) = e.over
    BY DEF Complete
  <1> HIDE DEF e, g, set
  <1>4. Numbers(e, set)
    BY <1>2 DEF Sound
  <1>5. set = 0 => \A x \in DOMAIN e.terms : e.terms[x] # 0
    <2> SUFFICES ASSUME set = 0, NEW x \in DOMAIN e.terms, e.terms[x] = 0 PROVE FALSE
      OBVIOUS
    <2>1. h = "num_df"
      BY <1>2 DEF Sound, SomeZero
    <2>2. g = 0
      BY <1>2, <2>1, CountOfIs
    <2>3. DOMAIN e.terms = {}
      BY <1>2, <2>1, <2>2 DEF Sound
    <2> QED
      BY <2>3
  <1>6. set > 0 => Cardinality(DOMAIN e.terms) <= set
    BY <1>2 DEF Sound
  <1>7. e.over \in Nat \ {0}
    BY <1>1, <1>4 DEF Numbers
  <1>8. Whole(e, set)
    BY <1>3, <1>4, <1>5, <1>6, <1>7 DEF Whole, Numbers
  <1> QED
    BY <1>8 DEF e, set

\* The value of such an entropy.
LEMMA NormalValue ==
  ASSUME NEW e, NEW set, Whole(e, set), NEW f \in Normal
  PROVE  LET v == GetValue(f[1], f[2], e, set)
         IN  /\ v \notin {"negative", "more"}
             /\ Top(e, set) > 1 /\ f # <<"tsalis", 0>> /\ f # <<"renyi", 0>> =>
                  Extremes(v, e, Top(e, set))
  <1>1. CASE f \in {"tsalis", "renyi"} \X {0, 2}
    <2>1. f[1] \in {"tsalis", "renyi"} /\ f[2] \in {0, 2} /\ f = <<f[1], f[2]>>
      BY <1>1
    <2> DEFINE v == GetValue(f[1], f[2], e, set)
    <2>2. /\ v \in {"zero", "part", "all"}
          /\ f[2] = 2 /\ Top(e, set) > 1 => Extremes(v, e, Top(e, set))
      BY <2>1, PowersInRange
    <2>3. f # <<"tsalis", 0>> /\ f # <<"renyi", 0>> => f[2] = 2
      BY <2>1
    <2> HIDE DEF v
    <2>4. v \notin {"negative", "more"}
      BY <2>2
    <2> QED
      BY <2>2, <2>3, <2>4 DEF v
  <1>2. CASE f = <<"shannon", 0>>
    <2>1. f[1] = "shannon" /\ f[2] = 0
      BY <1>2
    <2> QED
      BY <2>1, LogarithmsInRange
  <1>3. CASE f = <<"ubriaco", 1>>
    <2>1. f[1] = "ubriaco" /\ f[2] = 1
      BY <1>3
    <2> QED
      BY <2>1, LogarithmsInRange
  <1> QED
    BY <1>1, <1>2, <1>3 DEF Normal

\* The four properties follow.
LEMMA PercentOfMaximumHolds == ValuesInv => PercentOfMaximum
  <1> SUFFICES ASSUME ValuesInv, NEW h \in Occupied, NEW f \in Normal,
                      Value(f[1], f[2], h) \in {"negative", "more"}
               PROVE  h \in Partial /\ ~Complete(h)
    BY DEF PercentOfMaximum, Partial
  <1>1. ~Complete(h)
    <2> SUFFICES ASSUME Complete(h) PROVE FALSE
      OBVIOUS
    <2>1. Whole(Computed[h], SetCount(h))
      BY OccupiedWhole
    <2>2. GetValue(f[1], f[2], Computed[h], SetCount(h)) \notin {"negative", "more"}
      BY <2>1, NormalValue
    <2> QED
      BY <2>2 DEF Value
  <1>2. h \in DOMAIN Computed
    BY DEF Occupied
  <1>3. Sound(Computed[h], h, g_total_packets)
    BY <1>2, ComputedIs
  <1>4. h \in Partial
    BY <1>1, <1>3 DEF Sound, Complete
  <1> QED
    BY <1>1, <1>4

\* The extremes: a single element, and even ones.
LEMMA ExtremesExactHolds == ValuesInv => ExtremesExact
  <1> SUFFICES ASSUME ValuesInv, NEW h \in {m \in Occupied : Complete(m)}, NEW f \in Normal
               PROVE  LET e == Computed[h]
                          n == Top(e, SetCount(h))
                      IN  n > 1 /\ f # <<"tsalis", 0>> /\ f # <<"renyi", 0>> =>
                            Extremes(Value(f[1], f[2], h), e, n)
    BY DEF ExtremesExact, Top, Full, AllEven, Extremes
  <1>1. h \in Occupied /\ Complete(h)
    OBVIOUS
  <1>2. Whole(Computed[h], SetCount(h))
    BY <1>1, OccupiedWhole
  <1> QED
    BY <1>2, NormalValue DEF Value

\* Only the DF flag can have a count of 1, that of a single packet; the entropies without
\* a count are over time.
LEMMA CountedAlone ==
  ASSUME NEW g \in Nat, NEW h \in Vectors \cup {"num_packets", "num_bytes", "num_df"}
  PROVE  /\ CountOf(h, g) = 1 => h = "num_df" /\ g = 1
         /\ CountOf(h, g) = 0 => h \in Scalars
  <1>1. CASE h \in {"num_packets", "num_bytes", "num_df"}
    <2>1. CountOf("num_packets", g) = 0 /\ CountOf("num_bytes", g) = 0 /\ CountOf("num_df", g) = g
      BY CountOfIs
    <2> QED
      BY <1>1, <2>1 DEF Scalars
  <1>2. CASE h \in Vectors
    <2>1. h \in {"num_src_ports", "num_dst_ports", "num_src_ips", "num_dst_ips",
                 "num_packet_sizes"}
      BY <1>2 DEF Vectors, Histograms
    <2>2. CountOf(h, g) \in {MaxPort, MaxAddress, NumSizes}
      BY <2>1, CountOfIs
    <2>3. 1 < MaxPort /\ 1 < MaxAddress /\ 1 < NumSizes
      BY RangeAssumption, CellAssumption
    <2> QED
      BY <2>2, <2>3
  <1> QED
    BY <1>1, <1>2

\* What is undefined: only the DF flag has terms 0, and only entropies over time a count of 1.
LEMMA UndefinedOnlyHolds == ValuesInv => UndefinedOnly
  <1> SUFFICES ASSUME ValuesInv, NEW h \in DOMAIN Computed, NEW f \in Formulas,
                      Value(f[1], f[2], h) = "nan"
               PROVE  \/ h = "num_df" /\ SomeZero(Computed[h])
                      \/ /\ f[1] \in {"ubriaco", "bhatiasingh"} /\ h \in Scalars
                         /\ Cardinality(DOMAIN Computed[h].terms) = 1 \/ g_total_packets = 1
    BY DEF UndefinedOnly, SomeZero
  <1> DEFINE e == Computed[h]  g == g_total_packets  set == SetCount(h)  kind == f[1]  q == f[2]
  <1>1. Sound(e, h, g) /\ set = CountOf(h, g) /\ g \in Nat
        /\ h \in Vectors \cup {"num_packets", "num_bytes", "num_df"}
    BY ComputedIs
  <1>2. GetValue(kind, q, e, set) = "nan"
    BY DEF Value
  <1>3. kind \in Kinds /\ q \in Int
    BY DEF Formulas, Kinds
  <1> HIDE DEF e, g, set, kind, q
  <1>4. SomeZero(e) \/ (kind \in {"ubriaco", "bhatiasingh"} /\ Count(kind, e, set) = 1)
    BY <1>1, <1>2, <1>3, UndefinedIs DEF Sound
  <1>5. CASE SomeZero(e)
    BY <1>1, <1>5 DEF Sound, e
  <1>6. CASE ~SomeZero(e)
    <2>1. kind \in {"ubriaco", "bhatiasingh"} /\ Count(kind, e, set) = 1
      BY <1>4, <1>6
    <2>2. CASE set > 0
      <3>1. set = 1
        BY <2>1, <2>2 DEF Count
      <3>2. h = "num_df" /\ g = 1
        BY <1>1, <3>1, CountedAlone
      <3> QED
        BY <2>1, <3>2 DEF Scalars, kind, g
    <2>3. CASE ~(set > 0)
      <3>1. Cardinality(Added(kind, e)) = 1
        BY <2>1, <2>3 DEF Count
      <3>2. Added(kind, e) = DOMAIN e.terms
        BY <1>6 DEF Added, SomeZero
      <3>3. h \in Scalars
        <4>1. set = 0
          BY <1>1, <2>3 DEF Sound, Numbers
        <4> QED
          BY <1>1, <4>1, CountedAlone
      <3> QED
        BY <2>1, <3>1, <3>2, <3>3 DEF e, kind
    <2> QED
      BY <2>2, <2>3
  <1> QED
    BY <1>5, <1>6

\* A window without packets: neither terms nor a denominator.
LEMMA EmptyWindowZeroHolds == ValuesInv => EmptyWindowZero
  <1> SUFFICES ASSUME ValuesInv, phase = "evaluate", result[j - 1].tot_pktnum = 0,
                      NEW h \in DOMAIN Computed
               PROVE  /\ \A f \in {g \in Formulas : g[1] # "tsalis"} :
                           Value(f[1], f[2], h) = "zero" \/ (h = "num_df" /\ g_total_packets = 1)
                      /\ Value("tsalis", 2, h) = IF SetCount(h) > 1 THEN "more" ELSE "zero"
    BY DEF EmptyWindowZero
  <1> DEFINE e == Computed[h]  g == g_total_packets  set == SetCount(h)
  <1>1. Sound(e, h, g) /\ set = CountOf(h, g) /\ g \in Nat
        /\ h \in Vectors \cup {"num_packets", "num_bytes", "num_df"}
        /\ DOMAIN e.terms = {} /\ e.over = 0
    BY ComputedIs
  <1> HIDE DEF e, set
  <1>2. set \in Nat
    BY <1>1 DEF Sound, Numbers
  <1>3. set = 1 => h = "num_df" /\ g = 1
    BY <1>1, CountedAlone
  <1>4. ASSUME NEW f \in {m \in Formulas : m[1] # "tsalis"}
        PROVE  Value(f[1], f[2], h) = "zero" \/ (h = "num_df" /\ g = 1)
    <2>1. f[1] \in Kinds /\ f[2] \in Int /\ f[1] # "tsalis"
      BY <1>4 DEF Formulas, Kinds
    <2>2. GetValue(f[1], f[2], e, set) = "zero" \/ set = 1
      BY <1>1, <1>2, <2>1, EmptyIs
    <2> QED
      BY <1>3, <2>2 DEF Value, e, set
  <1>5. GetValue("tsalis", 2, e, set) = IF set > 1 THEN "more" ELSE "zero"
    BY <1>1, <1>2, EmptyTsalis
  <1> QED
    BY <1>4, <1>5 DEF Value, e, set

\* The figures in the files of Tsalis and Renyi (q = 0 and 2), Shannon and Ubriaco (q = 1)
\* are percentages: negative or above 100 only where packets are missing from a histogram.
THEOREM ValuesArePercentages == SpecValues => []PercentOfMaximum
  BY ValuesKept, PercentOfMaximumHolds, PTL

\* With these formulas traffic of one element is 0 %, even traffic is 100 %, and no other is:
\* the count that SetCount() replaces is never less than the number of terms added.
THEOREM ExtremesAreExact == SpecValues => []ExtremesExact
  BY ValuesKept, ExtremesExactHolds, PTL

\* GetValue() writes "nan" for nothing but the DF flag and, if it divides by the logarithm
\* of the count, the entropies over time with a count of 1.
THEOREM UndefinedNowhereElse == SpecValues => []UndefinedOnly
  BY ValuesKept, UndefinedOnlyHolds, PTL

\* A window without packets is 0 in every file, but with Tsalis.
THEOREM EmptyWindowsAreZero == SpecValues => []EmptyWindowZero
  BY ValuesKept, EmptyWindowZeroHolds, PTL

=====================================================================================
