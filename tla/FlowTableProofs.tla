------------------------------ MODULE FlowTableProofs ------------------------------
(*************************************************************************************)
(* What is proved of FlowTable, for every table of traces, every length of the window  *)
(* and every size of the arrays.                                                       *)
(*************************************************************************************)
EXTENDS FlowTable, TallyTheorems, SequenceTheorems

USE DEF tableVars, flowVars

-------------------------------------------------------------------------------------
(* The numbers of the flows.                                                         *)

\* The pairs that are numbered, and the one that a packet goes between.
Pairs == Upper(Marked)
Proper == {r \in AllTraces : r.src # r.dst}
PairOf(r) == IF r.src < r.dst THEN <<r.src, r.dst>> ELSE <<r.dst, r.src>>

LEMMA PairFacts ==
  /\ Pairs \subseteq Addr \X Addr
  /\ IsFiniteSet(Pairs)
  /\ Cardinality(Pairs) \in Nat
  /\ \A p \in Pairs : p \in Marked /\ p[1] \in Int /\ p[2] \in Int /\ p[1] < p[2]
                      /\ p = <<p[1], p[2]>> /\ p[1] \in Addr /\ p[2] \in Addr
  <1>1. IsFiniteSet(Addr)
    BY FlowAssumption, FS_Interval DEF Addr
  <1>2. IsFiniteSet(Addr \X Addr)
    BY <1>1, FS_Product
  <1>3. Pairs \subseteq Addr \X Addr
    BY DEF Pairs, Upper, Marked
  <1>4. IsFiniteSet(Pairs) /\ Cardinality(Pairs) \in Nat
    BY <1>2, <1>3, FS_Subset, FS_CardinalityType
  <1>5. \A p \in Pairs : p \in Marked /\ p[1] < p[2]
    BY DEF Pairs, Upper
  <1> QED
    BY <1>3, <1>4, <1>5, FlowAssumption DEF Addr

\* The packets between different end points and the pairs.
LEMMA ProperFacts ==
  ASSUME TracesOK
  PROVE  /\ \A r \in AllTraces : r.src \in Addr /\ r.dst \in Addr
         /\ \A r \in Proper : PairOf(r) \in Pairs
         /\ \A r \in Proper : {PairOf(r)[1], PairOf(r)[2]} = {r.src, r.dst}
         /\ \A r, s \in Proper : PairOf(r) = PairOf(s) <=> {r.src, r.dst} = {s.src, s.dst}
         /\ \A p \in Pairs : \E r \in Proper : PairOf(r) = p
  <1>1. \A r \in AllTraces : r.src \in Addr /\ r.dst \in Addr
    BY DEF TracesOK, AllTraces, Traces
  <1>2. \A r \in AllTraces : \E i \in Slots : \E k \in 1 .. Len(fsd_traces[i]) :
          r = fsd_traces[i][k]
    BY DEF AllTraces, Traces
  <1>3. \A a, b \in Addr : a \in Int /\ b \in Int
    BY FlowAssumption DEF Addr
  <1>4. ASSUME NEW r \in Proper
        PROVE  /\ PairOf(r) \in Pairs
               /\ {PairOf(r)[1], PairOf(r)[2]} = {r.src, r.dst}
    <2>1. r \in AllTraces /\ r.src # r.dst /\ r.src \in Addr /\ r.dst \in Addr
      BY <1>1, <1>4 DEF Proper
    <2> DEFINE a == r.src  b == r.dst
    <2>2. a \in Addr /\ b \in Addr /\ a # b
      BY <2>1
    <2>3. <<a, b>> \in Marked /\ <<b, a>> \in Marked
      BY <1>2, <2>1 DEF Marked
    <2>4. PairOf(r) = IF a < b THEN <<a, b>> ELSE <<b, a>>
      BY DEF PairOf
    <2>5. {PairOf(r)[1], PairOf(r)[2]} = {a, b}
      BY <2>4
    <2> HIDE DEF a, b
    <2>6. PairOf(r) \in Pairs
      BY <1>3, <2>2, <2>3, <2>4 DEF Pairs, Upper
    <2> QED
      BY <2>5, <2>6 DEF a, b
  <1>5. ASSUME NEW r \in Proper, NEW s \in Proper
        PROVE  PairOf(r) = PairOf(s) <=> {r.src, r.dst} = {s.src, s.dst}
    <2> DEFINE p == PairOf(r)  q == PairOf(s)
    <2>1. /\ {p[1], p[2]} = {r.src, r.dst} /\ {q[1], q[2]} = {s.src, s.dst}
          /\ p[1] < p[2] /\ q[1] < q[2] /\ p = <<p[1], p[2]>> /\ q = <<q[1], q[2]>>
          /\ p[1] \in Int /\ p[2] \in Int /\ q[1] \in Int /\ q[2] \in Int
      BY <1>4, PairFacts
    <2> HIDE DEF p, q
    <2>2. {p[1], p[2]} = {q[1], q[2]} => p = q
      <3> DEFINE a == p[1]  b == p[2]  c == q[1]  d == q[2]
      <3> SUFFICES ASSUME {a, b} = {c, d} PROVE a = c /\ b = d
        BY <2>1
      <3>1. a \in {c, d} /\ b \in {c, d} /\ c \in {a, b} /\ d \in {a, b}
        OBVIOUS
      <3>2. a < b /\ c < d /\ a \in Int /\ b \in Int /\ c \in Int /\ d \in Int
        BY <2>1
      <3> HIDE DEF a, b, c, d
      <3> QED
        BY <3>1, <3>2
    <2> QED
      BY <2>1, <2>2 DEF p, q
  <1>6. ASSUME NEW p \in Pairs
        PROVE  \E r \in Proper : PairOf(r) = p
    <2>1. p \in Marked /\ p[1] < p[2] /\ p = <<p[1], p[2]>> /\ p[1] \in Int /\ p[2] \in Int
      BY PairFacts
    <2>2. PICK i \in Slots : \E k \in 1 .. Len(fsd_traces[i]) :
            {p[1], p[2]} = {fsd_traces[i][k].src, fsd_traces[i][k].dst}
      BY <2>1 DEF Marked
    <2>3. PICK k \in 1 .. Len(fsd_traces[i]) :
            {p[1], p[2]} = {fsd_traces[i][k].src, fsd_traces[i][k].dst}
      BY <2>2
    <2> DEFINE r == fsd_traces[i][k]  a == p[1]  b == p[2]  c == r.src  d == r.dst
    <2>4. r \in AllTraces
      BY DEF AllTraces, Traces
    <2>5. {a, b} = {c, d} /\ a < b /\ a \in Int /\ b \in Int /\ p = <<a, b>>
      BY <2>1, <2>3
    <2>6. PairOf(r) = IF c < d THEN <<c, d>> ELSE <<d, c>>
      BY DEF PairOf
    <2>7. c \in Int /\ d \in Int
      BY <1>1, <1>3, <2>4
    <2>8. r \in Proper <=> c # d
      BY <2>4 DEF Proper
    <2> HIDE DEF a, b, c, d, r
    <2>9. (a = c /\ b = d) \/ (a = d /\ b = c)
      <3>1. a \in {c, d} /\ b \in {c, d} /\ c \in {a, b} /\ d \in {a, b}
        BY <2>5
      <3> QED
        BY <2>5, <2>7, <3>1
    <2>10. PairOf(r) = p /\ c # d
      BY <2>5, <2>6, <2>7, <2>9
    <2> QED
      BY <2>8, <2>10
  <1> QED
    BY <1>1, <1>4, <1>5, <1>6

\* There are as many numbered pairs as there are sets of two end points.
LEMMA PairsCounted ==
  ASSUME TracesOK
  PROVE  Cardinality({{r.src, r.dst} : r \in Proper}) = Cardinality(Pairs)
  <1> DEFINE E == {{r.src, r.dst} : r \in Proper}
             f == [p \in Pairs |-> {p[1], p[2]}]
  <1>1. \A p \in Pairs : f[p] \in E
    <2> SUFFICES ASSUME NEW p \in Pairs PROVE f[p] \in E
      OBVIOUS
    <2>1. PICK r \in Proper : PairOf(r) = p
      BY ProperFacts
    <2>2. {p[1], p[2]} = {r.src, r.dst}
      BY <2>1, ProperFacts
    <2> QED
      BY <2>2
  <1>2. \A p, q \in Pairs : f[p] = f[q] => p = q
    <2> SUFFICES ASSUME NEW p \in Pairs, NEW q \in Pairs, f[p] = f[q]
                 PROVE  p = q
      OBVIOUS
    <2>1. PICK r \in Proper : PairOf(r) = p
      BY ProperFacts
    <2>2. PICK s \in Proper : PairOf(s) = q
      BY ProperFacts
    <2>3. {r.src, r.dst} = {s.src, s.dst}
      BY <2>1, <2>2, ProperFacts
    <2> QED
      BY <2>1, <2>2, <2>3, ProperFacts
  <1>3. \A e \in E : \E p \in Pairs : f[p] = e
    <2> SUFFICES ASSUME NEW r \in Proper PROVE \E p \in Pairs : f[p] = {r.src, r.dst}
      OBVIOUS
    <2>1. PairOf(r) \in Pairs /\ {PairOf(r)[1], PairOf(r)[2]} = {r.src, r.dst}
      BY ProperFacts
    <2> QED
      BY <2>1
  <1>4. f \in [Pairs -> E]
    BY <1>1
  <1> HIDE DEF E, f
  <1>5. f \in Bijection(Pairs, E)
    BY <1>2, <1>3, <1>4 DEF Bijection, Injection, Surjection, IsInjective
  <1>6. Cardinality(E) = Cardinality(Pairs)
    BY <1>5, PairFacts, FS_Bijection DEF ExistsBijection
  <1> QED
    BY <1>6 DEF E

\* The numbers that the loops give to the pairs are 0 .. n - 1, each given once.
LEMMA RankFacts ==
  /\ \A p, q \in Pairs : Rank(p) = Rank(q) => p = q
  /\ \A p \in Pairs : Rank(p) \in 0 .. Cardinality(Pairs) - 1
  /\ \A m \in 0 .. Cardinality(Pairs) - 1 : \E p \in Pairs : Rank(p) = m
  <1> DEFINE Below(p) == {q \in Pairs : Before(q, p)}  n == Cardinality(Pairs)
  <1>1. \A p \in Pairs : /\ Rank(p) = Cardinality(Below(p))
                         /\ Below(p) \subseteq Pairs /\ IsFiniteSet(Below(p)) /\ p \notin Below(p)
    BY PairFacts, FS_Subset DEF Rank, Pairs, Before
  <1>2. ASSUME NEW p \in Pairs, NEW q \in Pairs, Before(p, q)
        PROVE  Cardinality(Below(p)) < Cardinality(Below(q))
    <2>1. \A r \in Pairs : Before(r, p) => Before(r, q)
      BY <1>2, PairFacts DEF Before
    <2>2. Below(p) \subseteq Below(q) /\ p \in Below(q) /\ p \notin Below(p)
      BY <1>1, <1>2, <2>1
    <2>3. IsFiniteSet(Below(q)) /\ IsFiniteSet(Below(p))
      BY <1>1
    <2> HIDE DEF Below
    <2>4. Cardinality(Below(p)) <= Cardinality(Below(q))
          /\ Cardinality(Below(p)) # Cardinality(Below(q))
      BY <2>2, <2>3, FS_Subset
    <2> QED
      BY <2>3, <2>4, FS_CardinalityType
  <1>3. \A p, q \in Pairs : p = q \/ Before(p, q) \/ Before(q, p)
    BY PairFacts DEF Before
  <1>4. ASSUME NEW p \in Pairs
        PROVE  Rank(p) \in 0 .. n - 1
    <2>1. Below(p) \subseteq Pairs /\ IsFiniteSet(Pairs) /\ p \notin Below(p) /\ n \in Nat
          /\ IsFiniteSet(Below(p))
      BY <1>1, PairFacts
    <2>2. Cardinality(Below(p)) <= n /\ Cardinality(Below(p)) # n
      <3> HIDE DEF Below
      <3> QED
        BY <2>1, FS_Subset
    <2>3. Cardinality(Below(p)) \in Nat
      <3> HIDE DEF Below
      <3> QED
        BY <2>1, FS_CardinalityType
    <2>4. Rank(p) = Cardinality(Below(p))
      BY <1>1
    <2> HIDE DEF Below, n
    <2> QED
      BY <2>1, <2>2, <2>3, <2>4
  <1>5. \A p, q \in Pairs : Rank(p) = Rank(q) => p = q
    <2> SUFFICES ASSUME NEW p \in Pairs, NEW q \in Pairs, Rank(p) = Rank(q)
                 PROVE  p = q
      OBVIOUS
    <2>1. Before(p, q) => Rank(p) < Rank(q)
      BY <1>1, <1>2
    <2>2. Before(q, p) => Rank(q) < Rank(p)
      BY <1>1, <1>2
    <2>3. Rank(p) \in Int /\ Rank(q) \in Int
      BY <1>4
    <2> QED
      BY <1>3, <2>1, <2>2, <2>3
  <1>6. \A m \in 0 .. n - 1 : \E p \in Pairs : Rank(p) = m
    <2> DEFINE f == [p \in Pairs |-> Rank(p)]  T == 0 .. n - 1
    <2>1. f \in [Pairs -> T] /\ IsFiniteSet(T) /\ Cardinality(T) = n
      <3>1. n \in Nat
        BY PairFacts
      <3> HIDE DEF n
      <3>2. IsFiniteSet(T) /\ Cardinality(T) = n
        <4>1. IsFiniteSet(T) /\ Cardinality(T) = IF 0 > n - 1 THEN 0 ELSE (n - 1) - 0 + 1
          BY <3>1, FS_Interval
        <4> QED
          BY <3>1, <4>1
      <3>3. f \in [Pairs -> T]
        BY <1>4
      <3> QED
        BY <3>2, <3>3
    <2>2. f \in Injection(Pairs, T)
      <3> HIDE DEF T
      <3> QED
        BY <1>5, <2>1 DEF Injection, IsInjective
    <2>3. f \in Surjection(Pairs, T)
      <3> HIDE DEF f, T
      <3> QED
        BY <2>1, <2>2, FS_Injection
    <2> QED
      BY <2>3 DEF Surjection
  <1> QED
    BY <1>4, <1>5, <1>6

\* The number of the flow of a packet between different end points.
LEMMA FlowOfPair ==
  ASSUME TracesOK, NEW r \in Proper
  PROVE  FlowOf(r.src, r.dst) = Rank(PairOf(r))
  <1> DEFINE a == r.src  b == r.dst
  <1>1. a # b /\ a \in Addr /\ b \in Addr /\ a \in Int /\ b \in Int /\ r \in AllTraces
    BY ProperFacts, FlowAssumption DEF Proper, Addr
  <1>2. PICK i \in Slots : \E k \in 1 .. Len(fsd_traces[i]) : r = fsd_traces[i][k]
    BY <1>1 DEF AllTraces, Traces
  <1>3. <<a, b>> \in Marked
    BY <1>1, <1>2 DEF Marked
  <1>4. PairOf(r) = IF a < b THEN <<a, b>> ELSE <<b, a>>
    BY DEF PairOf
  <1> HIDE DEF a, b
  <1>5. FlowOf(a, b) = Rank(PairOf(r))
    BY <1>1, <1>3, <1>4 DEF FlowOf
  <1> QED
    BY <1>5 DEF a, b

-------------------------------------------------------------------------------------
(* The inductive invariant.                                                          *)

\* The windows that the loop has evaluated have the entropy of their flows, and the others
\* none.
WindowOK(i) ==
  ent_fsd[i] =
    IF phase \in {"sliding", "done"}
       /\ i \in (FirstWindow - num_subintervals) .. (t - num_subintervals) - 1
    THEN Entropy(i)
    ELSE NoTerms

\* The arrays hold what each phase leaves in them.
PhaseOK ==
  /\ phase \in {"assign", "count", "first", "sliding", "done", "overrun"}
  /\ phase # "assign" => /\ num_flows = Cardinality(Pairs)
                         /\ flows = [p \in Addr \X Addr |-> FlowOf(p[1], p[2])]
  /\ phase \in {"count", "first", "sliding", "done"} => num_flows <= NumFlows
  /\ phase \in {"first", "sliding", "done"} =>
       flow_bytes = [i \in Slots |-> [n \in 0 .. NumFlows - 1 |-> Cardinality(Carried(i, n))]]
  /\ phase \in {"sliding", "done"} =>
       /\ t \in FirstWindow .. NumIntervals
       /\ t = FirstWindow \/ t <= NumIntervals - num_subintervals
  /\ phase = "done" => t >= NumIntervals - num_subintervals

FlowInv ==
  /\ TracesOK
  /\ num_subintervals \in Nat \ {0}
  /\ PhaseOK
  /\ FlowSizesExact
  /\ DOMAIN ent_fsd = Slots
  /\ phase # "overrun" => \A i \in Slots : WindowOK(i)
  /\ OverrunOnlyWhenTooLong

\* The traces never change, so neither does what is said of them.
LEMMA SameTraces ==
  ASSUME fsd_traces' = fsd_traces
  PROVE  /\ Marked' = Marked /\ Pairs' = Pairs /\ AllTraces' = AllTraces
         /\ Beyond' = Beyond /\ (TracesOK => TracesOK')
         /\ \A a, b : FlowOf(a, b)' = FlowOf(a, b)
  <1>1. Marked' = Marked /\ AllTraces' = AllTraces /\ Beyond' = Beyond /\ (TracesOK => TracesOK')
    BY DEF Marked, AllTraces, Traces, Beyond, TracesOK
  <1>2. Pairs' = Pairs
    BY <1>1 DEF Pairs, Upper
  <1>3. \A p : Rank(p)' = Rank(p)
    BY <1>1 DEF Rank, Upper
  <1> QED
    BY <1>1, <1>2, <1>3 DEF FlowOf

LEMMA SameFlows ==
  ASSUME fsd_traces' = fsd_traces, flows' = flows
  PROVE  \A i, n : Carried(i, n)' = Carried(i, n)
  BY DEF Carried

\* What is counted of a flow are its packets.
LEMMA CarriedFacts ==
  ASSUME TracesOK
  PROVE  /\ \A i \in Slots : \A n : Cardinality(Carried(i, n)) \in Nat
         /\ \A i \in Slots : \A n : Cardinality(Carried(i, n)) = 0 <=> Carried(i, n) = {}
         /\ \A n : \A i \in Slots : Genuine(n)[i] = Cardinality(Carried(i, n))
                                    /\ Genuine(n)[i] \in Nat
  <1>1. ASSUME NEW i \in Slots, NEW n
        PROVE  /\ Cardinality(Carried(i, n)) \in Nat
               /\ Cardinality(Carried(i, n)) = 0 <=> Carried(i, n) = {}
    <2>1. Len(fsd_traces[i]) \in Nat /\ Carried(i, n) \subseteq 1 .. Len(fsd_traces[i])
      BY DEF TracesOK, Carried
    <2>2. IsFiniteSet(Carried(i, n))
      <3>1. IsFiniteSet(1 .. Len(fsd_traces[i]))
        BY <2>1, FS_Interval
      <3> QED
        BY <2>1, <3>1, FS_Subset
    <2> QED
      BY <2>2, FS_CardinalityType, FS_EmptySet
  <1> QED
    BY <1>1 DEF Genuine

\* The table of the packets of each flow holds them.
LEMMA TableFacts ==
  ASSUME FlowInv, phase \in {"first", "sliding"}, NEW n \in FlowIds
  PROVE  /\ \A i \in Slots : flow_bytes[i][n] = Genuine(n)[i]
         /\ \A S : Packets(S, n) = Tally(S, Genuine(n))
  <1>1. n \in 0 .. NumFlows - 1
    BY PairFacts, FlowAssumption DEF FlowInv, PhaseOK, FlowIds
  <1>2. \A i \in Slots : flow_bytes[i][n] = Genuine(n)[i]
    <2>1. flow_bytes = [i \in Slots |-> [m \in 0 .. NumFlows - 1 |-> Cardinality(Carried(i, m))]]
      BY DEF FlowInv, PhaseOK
    <2> QED
      BY <1>1, <2>1 DEF Genuine
  <1>3. [i \in Slots |-> flow_bytes[i][n]] = Genuine(n)
    BY <1>2 DEF Genuine
  <1> QED
    BY <1>2, <1>3 DEF Packets

\* A flow has a size in the window just when it has a packet there.
LEMMA ActiveHasPacket ==
  ASSUME FlowInv, phase = "sliding", t >= num_subintervals, NEW n \in FlowIds
  PROVE  flow_size_sub[n] # 0 <=> \E k \in Window(t - num_subintervals) : Carried(k, n) # {}
  <1> DEFINE w == Genuine(n)  a == t - num_subintervals
             S == a .. t - 1  T == 0 .. FirstWindow - num_subintervals - 1
  <1>1. flow_size_sub[n] = Tally(S, w) + Tally(T, w)
    BY DEF FlowInv, FlowSizesExact
  <1>2. /\ a \in Int /\ t \in Int /\ FirstWindow - num_subintervals - 1 \in Int
        /\ 0 \in Int /\ t - 1 \in Int
        /\ S \subseteq Slots /\ T \subseteq Slots /\ a + num_subintervals - 1 = t - 1
    BY FlowAssumption DEF FlowInv, PhaseOK, Slots
  <1>3. IsFiniteSet(S) /\ IsFiniteSet(T)
    <2> HIDE DEF a
    <2> QED
      BY <1>2, FS_Interval
  <1>4. Window(a) = S \cup T
    BY <1>2 DEF Window
  <1>5. \A k \in S \cup T : w[k] \in Nat /\ (w[k] = 0 <=> Carried(k, n) = {})
    BY <1>2, CarriedFacts DEF FlowInv
  <1> HIDE DEF w, S, T, a
  <1>6. Tally(S, w) \in Nat /\ Tally(T, w) \in Nat
    BY <1>3, <1>5, TallyType
  <1>7. Tally(S, w) = 0 <=> \A k \in S : w[k] = 0
    BY <1>3, <1>5, TallyPositive, TallyZero
  <1>8. Tally(T, w) = 0 <=> \A k \in T : w[k] = 0
    BY <1>3, <1>5, TallyPositive, TallyZero
  <1>9. flow_size_sub[n] # 0 <=> \E k \in Window(a) : Carried(k, n) # {}
    BY <1>1, <1>4, <1>5, <1>6, <1>7, <1>8
  <1> QED
    BY <1>9 DEF a

\* So what the loop stores is the entropy of the flows of the window.
LEMMA TermsAreExact ==
  ASSUME FlowInv, phase = "sliding", t >= num_subintervals
  PROVE  FlowTerms = Entropy(t - num_subintervals)
  <1> DEFINE a == t - num_subintervals
             active == {n \in FlowIds : flow_size_sub[n] # 0}
             found == {n \in FlowIds : \E k \in Window(a) : Carried(k, n) # {}}
             sizes == [n \in found |-> Tally(0 .. a + num_subintervals - 1, Genuine(n))]
  <1>1. active = found
    BY ActiveHasPacket
  <1>2. a + num_subintervals - 1 = t - 1
    BY FlowAssumption DEF FlowInv, PhaseOK
  <1>3. \A n \in FlowIds : flow_size[n] = Tally(0 .. t - 1, Genuine(n))
    BY DEF FlowInv, FlowSizesExact
  <1>4. \A n \in found : sizes[n] = flow_size[n]
    BY <1>2, <1>3
  <1>5. [n \in active |-> flow_size[n]] = sizes
    BY <1>1, <1>2, <1>3
  <1>6. Tally(active, flow_size) = Tally(found, sizes)
    <2> HIDE DEF active, found, sizes
    <2> QED
      BY <1>1, <1>4, TallySame
  <1>7. /\ FlowTerms = [terms |-> [n \in active |-> flow_size[n]],
                        over |-> Tally(active, flow_size), count |-> num_flows]
        /\ Entropy(a) = [terms |-> sizes, over |-> Tally(found, sizes), count |-> num_flows]
    BY DEF FlowTerms, Entropy
  <1> HIDE DEF active, found, sizes
  <1> QED
    BY <1>5, <1>6, <1>7

-------------------------------------------------------------------------------------
(* The steps.                                                                        *)

\* The entropy of a window is of the traces and of the numbers of the flows alone.
LEMMA SameEntropy ==
  ASSUME UNCHANGED <<num_subintervals, fsd_traces, flows, num_flows>>
  PROVE  \A i : Entropy(i)' = Entropy(i)
  <1>1. \A i, n : Carried(i, n)' = Carried(i, n)
    BY SameFlows
  <1>2. \A n : Genuine(n)' = Genuine(n)
    BY <1>1 DEF Genuine
  <1> QED
    BY <1>1, <1>2 DEF Entropy, Window, FlowIds

\* Nothing is evaluated before the loop.
LEMMA NothingYet ==
  ASSUME FlowInv, phase \in {"assign", "count", "first"}, UNCHANGED ent_fsd,
         phase' \in {"count", "first", "overrun"} \/ t' = FirstWindow,
         num_subintervals' \in Nat
  PROVE  \A i \in Slots : WindowOK(i)'
  <1>1. \A i \in Slots : ent_fsd'[i] = NoTerms
    BY DEF FlowInv, WindowOK
  <1>2. ASSUME t' = FirstWindow, NEW i \in Slots
        PROVE  i \notin (FirstWindow - num_subintervals') .. (t' - num_subintervals') - 1
    BY <1>2, FlowAssumption
  <1> QED
    BY <1>1, <1>2 DEF WindowOK, NoTerms

LEMMA StepAssign ==
  ASSUME FlowInv, AssignFlowIds, UNCHANGED num_subintervals
  PROVE  FlowInv'
  <1>1. /\ num_flows' = Cardinality(Pairs) /\ phase = "assign"
        /\ flows' = [p \in Addr \X Addr |-> FlowOf(p[1], p[2])]
        /\ phase' = IF num_flows' > NumFlows THEN "overrun" ELSE "count"
        /\ UNCHANGED <<num_subintervals, fsd_traces, flow_bytes, t, ent_fsd>>
    BY DEF AssignFlowIds, Pairs
  <1>2. Pairs' = Pairs /\ TracesOK' /\ \A a, b : FlowOf(a, b)' = FlowOf(a, b)
    BY <1>1, SameTraces DEF FlowInv
  <1>3. num_flows' \in Nat /\ NumFlows \in Nat
    BY <1>1, PairFacts, FlowAssumption
  <1>4. PhaseOK'
    BY <1>1, <1>2, <1>3 DEF PhaseOK
  <1>5. OverrunOnlyWhenTooLong'
    <2>1. phase' = "overrun" => Cardinality(Pairs) > NumFlows
      BY <1>1
    <2>2. {{r.src, r.dst} : r \in {s \in AllTraces' : s.src # s.dst}}
            = {{r.src, r.dst} : r \in Proper}
      BY <1>1, SameTraces DEF Proper
    <2>3. Cardinality({{r.src, r.dst} : r \in Proper}) = Cardinality(Pairs)
      BY PairsCounted DEF FlowInv
    <2> QED
      BY <2>1, <2>2, <2>3 DEF OverrunOnlyWhenTooLong
  <1>6. FlowSizesExact'
    BY <1>1 DEF FlowSizesExact
  <1>7. \A i \in Slots : WindowOK(i)'
    BY <1>1, NothingYet DEF FlowInv
  <1> QED
    BY <1>1, <1>2, <1>4, <1>5, <1>6, <1>7 DEF FlowInv

LEMMA StepCount ==
  ASSUME FlowInv, CountFlows, UNCHANGED num_subintervals
  PROVE  FlowInv'
  <1>1. /\ phase = "count" /\ phase' = IF Beyond THEN "overrun" ELSE "first"
        /\ flow_bytes' = [i \in Slots |->
                            [n \in 0 .. NumFlows - 1 |-> Cardinality(Carried(i, n))]]
        /\ UNCHANGED <<num_subintervals, fsd_traces, flows, num_flows, t, ent_fsd>>
    BY DEF CountFlows
  <1>2. /\ Pairs' = Pairs /\ TracesOK' /\ Beyond' = Beyond
        /\ (\A a, b : FlowOf(a, b)' = FlowOf(a, b)) /\ \A i, n : Carried(i, n)' = Carried(i, n)
    BY <1>1, SameTraces, SameFlows DEF FlowInv
  <1>3. PhaseOK'
    <2>1. /\ num_flows' = Cardinality(Pairs') /\ num_flows' <= NumFlows
          /\ flows' = [p \in Addr \X Addr |-> FlowOf(p[1], p[2])']
      BY <1>1, <1>2 DEF FlowInv, PhaseOK
    <2>2. flow_bytes' = [i \in Slots |->
                           [n \in 0 .. NumFlows - 1 |-> Cardinality(Carried(i, n)')]]
      BY <1>1, <1>2
    <2> QED
      BY <1>1, <2>1, <2>2 DEF PhaseOK
  <1>4. OverrunOnlyWhenTooLong'
    <2>1. Beyond => NumSamples < Cardinality(Slots)
      <3> SUFFICES ASSUME NEW i \in Slots, i >= NumSamples
                   PROVE  NumSamples < Cardinality(Slots)
        BY DEF Beyond
      <3>1. Cardinality(Slots) = NumIntervals + 1
        BY FlowAssumption, FS_Interval DEF Slots
      <3> QED
        BY <3>1, FlowAssumption DEF Slots
    <2> QED
      BY <1>1, <1>2, <2>1 DEF OverrunOnlyWhenTooLong
  <1>5. FlowSizesExact'
    BY <1>1 DEF FlowSizesExact
  <1>6. \A i \in Slots : WindowOK(i)'
    BY <1>1, NothingYet DEF FlowInv
  <1> QED
    BY <1>1, <1>2, <1>3, <1>4, <1>5, <1>6 DEF FlowInv

\* What stays true of the arrays when the loop starts or goes on.
LEMMA ArraysKept ==
  ASSUME FlowInv, phase \in {"first", "sliding"}, phase' \in {"sliding", "done"},
         t' \in FirstWindow .. NumIntervals,
         t' = FirstWindow \/ t' <= NumIntervals - num_subintervals,
         phase' = "done" => t' >= NumIntervals - num_subintervals,
         UNCHANGED <<num_subintervals, fsd_traces, flows, num_flows, flow_bytes>>
  PROVE  TracesOK' /\ PhaseOK' /\ OverrunOnlyWhenTooLong' /\ \A n : Genuine(n)' = Genuine(n)
  <1>1. /\ Pairs' = Pairs /\ TracesOK'
        /\ (\A a, b : FlowOf(a, b)' = FlowOf(a, b)) /\ \A i, n : Carried(i, n)' = Carried(i, n)
    BY SameTraces, SameFlows DEF FlowInv
  <1>2. PhaseOK'
    <2>1. /\ num_flows' = Cardinality(Pairs') /\ num_flows' <= NumFlows
          /\ flows' = [p \in Addr \X Addr |-> FlowOf(p[1], p[2])']
      BY <1>1 DEF FlowInv, PhaseOK
    <2>2. flow_bytes' = [i \in Slots |->
                           [n \in 0 .. NumFlows - 1 |-> Cardinality(Carried(i, n)')]]
      BY <1>1 DEF FlowInv, PhaseOK
    <2> QED
      BY <2>1, <2>2 DEF PhaseOK
  <1> QED
    BY <1>1, <1>2 DEF OverrunOnlyWhenTooLong, Genuine

LEMMA StepSize ==
  ASSUME FlowInv, SizeFirstWindow, UNCHANGED num_subintervals
  PROVE  FlowInv'
  <1>1. /\ phase = "first" /\ phase' = "sliding" /\ t' = FirstWindow
        /\ flow_size' = [n \in FlowIds |-> Packets(0 .. FirstWindow - 1, n)]
        /\ flow_size_sub' = [n \in FlowIds |-> Packets(0 .. FirstWindow - 1, n)]
        /\ UNCHANGED <<num_subintervals, fsd_traces, flows, num_flows, flow_bytes, ent_fsd>>
    BY DEF SizeFirstWindow
  <1>2. /\ TracesOK' /\ PhaseOK' /\ OverrunOnlyWhenTooLong'
        /\ \A n : Genuine(n)' = Genuine(n)
    BY <1>1, FlowAssumption, ArraysKept
  <1>3. FlowSizesExact'
    <2> SUFFICES ASSUME FirstWindow >= num_subintervals, NEW n \in FlowIds
                 PROVE  /\ flow_size'[n] = Tally(0 .. FirstWindow - 1, Genuine(n))
                        /\ flow_size_sub'[n] =
                             Tally((FirstWindow - num_subintervals) .. FirstWindow - 1,
                               Genuine(n))
                               + Tally(0 .. FirstWindow - num_subintervals - 1, Genuine(n))
      BY <1>1, <1>2 DEF FlowSizesExact, FlowIds, Genuine
    <2> DEFINE w == Genuine(n)  a == FirstWindow - num_subintervals
    <2>1. /\ flow_size'[n] = Tally(0 .. FirstWindow - 1, w)
          /\ flow_size_sub'[n] = Tally(0 .. FirstWindow - 1, w)
      BY <1>1, TableFacts
    <2>2. /\ a \in Nat /\ FirstWindow \in Nat /\ a <= FirstWindow
          /\ \A i \in 0 .. FirstWindow - 1 : w[i] \in Nat
      BY FlowAssumption, CarriedFacts DEF FlowInv, Slots
    <2> HIDE DEF w, a
    <2>3. Tally(0 .. FirstWindow - 1, w)
            = Tally(a .. FirstWindow - 1, w) + Tally(0 .. a - 1, w)
      BY <2>2, TallySplit
    <2> QED
      BY <2>1, <2>3 DEF w, a
  <1>4. \A i \in Slots : WindowOK(i)'
    BY <1>1, NothingYet DEF FlowInv
  <1> QED
    BY <1>1, <1>2, <1>3, <1>4 DEF FlowInv

LEMMA StepSlide ==
  ASSUME FlowInv, SlideFlows, UNCHANGED num_subintervals
  PROVE  FlowInv'
  <1> DEFINE a == t - num_subintervals
  <1>1. /\ phase = "sliding" /\ phase' = "sliding" /\ t' = t + 1
        /\ t < NumIntervals - num_subintervals /\ t >= num_subintervals
        /\ ent_fsd' = [ent_fsd EXCEPT ![a] = FlowTerms]
        /\ flow_size' = [n \in FlowIds |-> flow_size[n] + flow_bytes[t][n]]
        /\ flow_size_sub' = [n \in FlowIds |-> flow_size_sub[n]
                                                + (flow_bytes[t][n] - flow_bytes[a][n])]
        /\ UNCHANGED <<num_subintervals, fsd_traces, flows, num_flows, flow_bytes>>
    BY DEF SlideFlows, WindowStart, Moved, NextTurn
  <1>2. /\ t \in Nat /\ num_subintervals \in Nat \ {0} /\ FirstWindow <= t /\ a \in Nat
        /\ a < t /\ t <= NumIntervals /\ a \in Slots /\ t \in Slots
        /\ t' \in FirstWindow .. NumIntervals /\ t' <= NumIntervals - num_subintervals
    BY <1>1, FlowAssumption DEF FlowInv, PhaseOK, Slots
  <1>3. /\ TracesOK' /\ PhaseOK' /\ OverrunOnlyWhenTooLong'
        /\ \A n : Genuine(n)' = Genuine(n)
    BY <1>1, <1>2, ArraysKept
  <1>4. FlowSizesExact'
    <2> DEFINE rest(n) == Tally(0 .. FirstWindow - num_subintervals - 1, Genuine(n))
    <2> SUFFICES ASSUME NEW n \in FlowIds
                 PROVE  /\ flow_size'[n] = Tally(0 .. (t + 1) - 1, Genuine(n))
                        /\ flow_size_sub'[n] =
                             Tally(((t + 1) - num_subintervals) .. (t + 1) - 1, Genuine(n))
                               + rest(n)
      BY <1>1, <1>3 DEF FlowSizesExact, FlowIds, Genuine
    <2> DEFINE w == Genuine(n)  d == rest(n)
    <2>1. /\ flow_size[n] = Tally(0 .. t - 1, w)
          /\ flow_size_sub[n] = Tally(a .. t - 1, w) + d
      BY <1>1 DEF FlowInv, FlowSizesExact, Genuine
    <2>2. flow_bytes[t][n] = w[t] /\ flow_bytes[a][n] = w[a]
      BY <1>1, <1>2, TableFacts
    <2>3. \A i \in 0 .. t : w[i] \in Nat
      BY <1>2, CarriedFacts, FlowAssumption DEF FlowInv, Slots
    <2>4. d \in Nat
      <3> DEFINE S == 0 .. FirstWindow - num_subintervals - 1
      <3>1. IsFiniteSet(S) /\ S \subseteq 0 .. t
        <4> DEFINE b == FirstWindow - num_subintervals - 1
        <4>1. b \in Int /\ 0 \in Int /\ b <= t /\ S = 0 .. b
          BY <1>2, FlowAssumption
        <4> HIDE DEF b, S
        <4>2. IsFiniteSet(S)
          BY <4>1, FS_Interval
        <4>3. S \subseteq 0 .. t
          BY <1>2, <4>1
        <4> QED
          BY <4>2, <4>3
      <3> HIDE DEF S, w
      <3>2. Tally(S, w) \in Nat
        BY <2>3, <3>1, TallyType
      <3> QED
        BY <3>2 DEF S, w
    <2>5. flow_size'[n] = flow_size[n] + w[t]
          /\ flow_size_sub'[n] = flow_size_sub[n] + (w[t] - w[a])
      BY <1>1, <2>2
    <2>6. (t + 1) - num_subintervals = a + 1 /\ (t + 1) - 1 = t
      BY <1>2
    <2> HIDE DEF w, a, d
    <2>7. Tally(0 .. (t + 1) - 1, w) = Tally(0 .. t - 1, w) + w[t]
      <3>1. t + 1 \in Nat /\ t \in 0 .. (t + 1) - 1
        BY <1>2
      <3> QED
        BY <1>2, <2>3, <2>6, <3>1, TallyNext
    <2>8. /\ Tally(a .. t - 1, w) \in Nat
          /\ Tally(a + 1 .. t, w) = Tally(a .. t - 1, w) + (w[t] - w[a])
      <3>1. \A i \in a .. t : w[i] \in Nat
        BY <1>2, <2>3
      <3> QED
        BY <1>2, <3>1, TallyMoves
    <2>9. w[t] \in Nat /\ w[a] \in Nat
      BY <1>2, <2>3
    <2>10. flow_size_sub'[n] = Tally(a + 1 .. t, w) + d
      <3> DEFINE x == Tally(a .. t - 1, w)  y == w[t]  z == w[a]
      <3>1. x \in Nat /\ y \in Nat /\ z \in Nat
        BY <2>8, <2>9
      <3>2. flow_size_sub'[n] = (x + d) + (y - z) /\ Tally(a + 1 .. t, w) = x + (y - z)
        BY <2>1, <2>5, <2>8
      <3> HIDE DEF x, y, z
      <3> QED
        BY <2>4, <3>1, <3>2
    <2> QED
      BY <2>1, <2>5, <2>6, <2>7, <2>10 DEF w, d
  <1>5. ASSUME NEW i \in Slots
        PROVE  WindowOK(i)'
    <2>1. Entropy(i)' = Entropy(i)
      BY <1>1, SameEntropy
    <2>2. FlowTerms = Entropy(a)
      BY <1>1, TermsAreExact
    <2>3. ent_fsd'[i] = IF i = a THEN Entropy(a) ELSE ent_fsd[i]
      BY <1>1, <1>2, <2>2 DEF FlowInv
    <2>4. i \in (FirstWindow - num_subintervals) .. (t' - num_subintervals) - 1
            <=> \/ i = a
                \/ i \in (FirstWindow - num_subintervals) .. (t - num_subintervals) - 1
      BY <1>1, <1>2, FlowAssumption DEF Slots
    <2>5. WindowOK(i)
      BY <1>1 DEF FlowInv
    <2> HIDE DEF a
    <2>6. ent_fsd'[i] =
            IF i \in (FirstWindow - num_subintervals) .. (t' - num_subintervals) - 1
            THEN Entropy(i) ELSE NoTerms
      BY <1>1, <2>3, <2>4, <2>5 DEF WindowOK
    <2> QED
      BY <1>1, <2>1, <2>6 DEF WindowOK, NoTerms
  <1> QED
    BY <1>1, <1>3, <1>4, <1>5 DEF FlowInv

LEMMA StepEnd ==
  ASSUME FlowInv, ReadOutside \/ FlowsDone, UNCHANGED num_subintervals
  PROVE  FlowInv'
  <1>1. /\ phase = "sliding"
        /\ UNCHANGED <<num_subintervals, fsd_traces, flows, num_flows, flow_bytes, t, ent_fsd>>
    BY DEF ReadOutside, FlowsDone
  <1>2. /\ t \in FirstWindow .. NumIntervals
        /\ t = FirstWindow \/ t <= NumIntervals - num_subintervals
    BY <1>1 DEF FlowInv, PhaseOK
  <1>3. CASE FlowsDone
    <2>1. phase' = "done" /\ t' >= NumIntervals - num_subintervals
      BY <1>1, <1>3 DEF FlowsDone
    <2>2. TracesOK' /\ PhaseOK' /\ OverrunOnlyWhenTooLong'
      BY <1>1, <1>2, <2>1, ArraysKept
    <2>3. \A i \in Slots : WindowOK(i)'
      <3>1. \A i : Entropy(i)' = Entropy(i)
        BY <1>1, SameEntropy
      <3>2. \A i \in Slots : WindowOK(i)
        BY <1>1 DEF FlowInv
      <3> QED
        BY <1>1, <2>1, <3>1, <3>2 DEF WindowOK, NoTerms
    <2> QED
      BY <1>1, <2>1, <2>2, <2>3 DEF FlowInv, FlowSizesExact
  <1>4. CASE ReadOutside
    <2>1. phase' = "overrun" /\ (t < num_subintervals \/ t >= NumSamples)
          /\ t < NumIntervals - num_subintervals
      BY <1>4 DEF ReadOutside
    <2>2. /\ Pairs' = Pairs /\ TracesOK' /\ Beyond' = Beyond
          /\ \A a, b : FlowOf(a, b)' = FlowOf(a, b)
      BY <1>1, SameTraces DEF FlowInv
    <2>3. PhaseOK'
      BY <1>1, <2>1, <2>2 DEF FlowInv, PhaseOK
    <2>4. OverrunOnlyWhenTooLong'
      <3>1. t < num_subintervals => FirstWindow < num_subintervals
        BY <1>2, FlowAssumption DEF FlowInv
      <3>2. t >= NumSamples => NumSamples < Cardinality(Slots)
        <4>1. Cardinality(Slots) = NumIntervals + 1
          BY FlowAssumption, FS_Interval DEF Slots
        <4> QED
          BY <1>2, <4>1, FlowAssumption
      <3> QED
        BY <1>1, <2>1, <3>1, <3>2 DEF OverrunOnlyWhenTooLong
    <2> QED
      BY <1>1, <2>1, <2>2, <2>3, <2>4 DEF FlowInv, FlowSizesExact
  <1> QED
    BY <1>3, <1>4

LEMMA StepNothing ==
  ASSUME FlowInv, UNCHANGED tableVars
  PROVE  FlowInv'
  <1>1. /\ Pairs' = Pairs /\ TracesOK' /\ Beyond' = Beyond /\ AllTraces' = AllTraces
        /\ (\A a, b : FlowOf(a, b)' = FlowOf(a, b)) /\ \A i, n : Carried(i, n)' = Carried(i, n)
    BY SameTraces, SameFlows DEF FlowInv
  <1>2. PhaseOK'
    BY <1>1 DEF FlowInv, PhaseOK
  <1>3. FlowSizesExact'
    <2>1. \A n : Genuine(n)' = Genuine(n)
      BY <1>1 DEF Genuine
    <2> QED
      BY <2>1 DEF FlowInv, FlowSizesExact, FlowIds
  <1>4. OverrunOnlyWhenTooLong'
    BY <1>1 DEF FlowInv, OverrunOnlyWhenTooLong
  <1>5. \A i \in Slots : WindowOK(i) => WindowOK(i)'
    <2>1. \A i : Entropy(i)' = Entropy(i)
      BY SameEntropy
    <2> QED
      BY <2>1 DEF WindowOK, NoTerms
  <1> QED
    BY <1>1, <1>2, <1>3, <1>4, <1>5 DEF FlowInv

LEMMA FlowInvInit ==
  ASSUME TracesOK, num_subintervals \in Nat \ {0}, InitFlows
  PROVE  FlowInv
  <1>1. PhaseOK
    BY DEF InitFlows, PhaseOK
  <1>2. \A i \in Slots : WindowOK(i)
    BY DEF InitFlows, WindowOK, NoTerms
  <1> QED
    BY <1>1, <1>2 DEF InitFlows, FlowInv, FlowSizesExact, OverrunOnlyWhenTooLong

LEMMA FlowInvStep ==
  ASSUME FlowInv, NextFlows \/ UNCHANGED tableVars, UNCHANGED num_subintervals
  PROVE  FlowInv'
  BY StepAssign, StepCount, StepSize, StepSlide, StepEnd, StepNothing DEF NextFlows

LEMMA FlowInvariant == SpecFlows => []FlowInv
  <1>1. TracesOK /\ num_subintervals \in Nat \ {0} /\ InitFlows => FlowInv
    BY FlowInvInit
  <1>2. FlowInv /\ [NextFlows /\ UNCHANGED num_subintervals]_tableVars => FlowInv'
    BY FlowInvStep
  <1> QED
    BY <1>1, <1>2, PTL DEF SpecFlows

-------------------------------------------------------------------------------------
(* The theorems.                                                                     *)

\* The arrays are left only by more flows, a longer window or more sub-intervals than
\* they are made for.
THEOREM OverrunIsTooLong == SpecFlows => []OverrunOnlyWhenTooLong
  <1>1. FlowInv => OverrunOnlyWhenTooLong
    BY DEF FlowInv
  <1> QED
    BY <1>1, FlowInvariant, PTL

\* The sizes of the flows are those of their packets, so far and in the window.
THEOREM SizesAreExact == SpecFlows => []FlowSizesExact
  <1>1. FlowInv => FlowSizesExact
    BY DEF FlowInv
  <1> QED
    BY <1>1, FlowInvariant, PTL

\* Every window that ends at or after that of the macro and a whole window before the end
\* has the entropy of its flows, those with a packet in it, each with the packets it has had
\* up to the window's end; and no other window has any.
THEOREM WindowsAreEvaluated == SpecFlows => []FlowWindowsEvaluated
  <1>1. ASSUME FlowInv, phase = "done", NEW i \in Slots
        PROVE  ent_fsd[i] = IF i \in (FirstWindow - num_subintervals)
                                        .. (NumIntervals - 2 * num_subintervals) - 1
                            THEN Entropy(i) ELSE NoTerms
    <2>1. /\ t \in FirstWindow .. NumIntervals /\ num_subintervals \in Nat
          /\ t = FirstWindow \/ t <= NumIntervals - num_subintervals
          /\ t >= NumIntervals - num_subintervals
      BY <1>1 DEF FlowInv, PhaseOK
    <2>2. i \in (FirstWindow - num_subintervals) .. (t - num_subintervals) - 1
            <=> i \in (FirstWindow - num_subintervals)
                          .. (NumIntervals - 2 * num_subintervals) - 1
      BY <2>1, FlowAssumption DEF Slots
    <2>3. WindowOK(i)
      BY <1>1 DEF FlowInv
    <2> QED
      BY <1>1, <2>2, <2>3 DEF WindowOK
  <1>2. FlowInv => FlowWindowsEvaluated
    BY <1>1 DEF FlowWindowsEvaluated
  <1> QED
    BY <1>2, FlowInvariant, PTL

\* The numbers of the flows stand for the pairs of end points, one for one, and none is
\* left out.
THEOREM FlowsAreNumbered == SpecFlows => []FlowNumbersExact
  <1>1. FlowInv => FlowNumbersExact
    <2> SUFFICES ASSUME FlowInv, Counting
                 PROVE  /\ \A r, s \in Proper :
                             flows[<<r.src, r.dst>>] = flows[<<s.src, s.dst>>]
                               <=> {r.src, r.dst} = {s.src, s.dst}
                        /\ {flows[<<r.src, r.dst>>] : r \in Proper} = FlowIds
      BY DEF FlowNumbersExact, Proper
    <2>1. /\ num_flows = Cardinality(Pairs)
          /\ flows = [p \in Addr \X Addr |-> FlowOf(p[1], p[2])]
      BY DEF FlowInv, PhaseOK, Counting
    <2>2. \A r \in Proper : flows[<<r.src, r.dst>>] = Rank(PairOf(r)) /\ PairOf(r) \in Pairs
      <3> SUFFICES ASSUME NEW r \in Proper
                   PROVE  flows[<<r.src, r.dst>>] = Rank(PairOf(r)) /\ PairOf(r) \in Pairs
        OBVIOUS
      <3>1. <<r.src, r.dst>> \in Addr \X Addr
        BY ProperFacts DEF FlowInv, Proper
      <3>2. flows[<<r.src, r.dst>>] = FlowOf(r.src, r.dst)
        BY <2>1, <3>1
      <3> QED
        BY <3>2, FlowOfPair, ProperFacts DEF FlowInv
    <2>3. \A r, s \in Proper : flows[<<r.src, r.dst>>] = flows[<<s.src, s.dst>>]
                                 <=> {r.src, r.dst} = {s.src, s.dst}
      <3> SUFFICES ASSUME NEW r \in Proper, NEW s \in Proper
                   PROVE  flows[<<r.src, r.dst>>] = flows[<<s.src, s.dst>>]
                            <=> {r.src, r.dst} = {s.src, s.dst}
        OBVIOUS
      <3>1. PairOf(r) = PairOf(s) <=> {r.src, r.dst} = {s.src, s.dst}
        BY ProperFacts DEF FlowInv
      <3>2. Rank(PairOf(r)) = Rank(PairOf(s)) <=> PairOf(r) = PairOf(s)
        <4>1. PairOf(r) \in Pairs /\ PairOf(s) \in Pairs
          BY <2>2
        <4> QED
          BY <4>1, RankFacts
      <3>3. /\ flows[<<r.src, r.dst>>] = Rank(PairOf(r))
            /\ flows[<<s.src, s.dst>>] = Rank(PairOf(s))
        BY <2>2
      <3> QED
        BY <3>1, <3>2, <3>3
    <2>4. \A r \in Proper : flows[<<r.src, r.dst>>] \in FlowIds
      BY <2>1, <2>2, RankFacts DEF FlowIds
    <2>5. \A m \in FlowIds : \E r \in Proper : flows[<<r.src, r.dst>>] = m
      <3> SUFFICES ASSUME NEW m \in FlowIds
                   PROVE  \E r \in Proper : flows[<<r.src, r.dst>>] = m
        OBVIOUS
      <3>1. PICK p \in Pairs : Rank(p) = m
        BY <2>1, RankFacts DEF FlowIds
      <3>2. PICK r \in Proper : PairOf(r) = p
        BY ProperFacts DEF FlowInv
      <3> QED
        BY <2>2, <3>1, <3>2
    <2> QED
      BY <2>3, <2>4, <2>5
  <1> QED
    BY <1>1, FlowInvariant, PTL

=====================================================================================
