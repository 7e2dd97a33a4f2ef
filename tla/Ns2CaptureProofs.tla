------------------------------ MODULE Ns2CaptureProofs ------------------------------
(***********************************************************************************)
(* What is proved of Ns2Capture, for every trace and every value of the parameters.  *)
(***********************************************************************************)
EXTENDS Ns2Capture, TallyTheorems, SequenceTheorems

USE DEF ns2Vars, counters

-------------------------------------------------------------------------------------
(* The data of a line.                                                               *)

LEMMA LineType ==
  ASSUME trace \in Traces
  PROVE  Len(trace) \in Nat /\ \A k \in 1 .. Len(trace) : trace[k] \in Line
  <1>1. trace \in Seq(Line)
    BY Ns2Assumption
  <1> QED
    BY <1>1, LenProperties, ElementOfSeq

SynCell == <<"num_syn", 0>>

LEMMA SynCellFacts ==
  /\ SynCell \in Cells
  /\ \A c \in Cells : c[1] = "num_syn" <=> c = SynCell
  BY DEF SynCell, Cells, Scalars, Histograms

\* A line adds a natural number to each cell, whatever the variable holds, and but for the
\* SYN flag it is the same number.
LEMMA ShareFacts ==
  ASSUME NEW l \in Line, NEW hdr, NEW c \in Cells
  PROVE  /\ Share(l, hdr, c) \in Nat
         /\ c # SynCell => Share(l, hdr, c) = Share(l, "other", c)
         /\ Share(l, hdr, SynCell) = IF hdr = "syn" THEN 1 ELSE 0
  <1>1. psize(l) \in Nat /\ l.pkt_size \in Nat
    BY DEF psize, Line
  <1>2. Share(l, hdr, c) \in Nat
    BY <1>1 DEF Share
  <1>3. c # SynCell => c[1] # "num_syn"
    BY SynCellFacts
  <1>4. c # SynCell => Share(l, hdr, c) = Share(l, "other", c)
    BY <1>3 DEF Share
  <1>5. Share(l, hdr, SynCell) = IF hdr = "syn" THEN 1 ELSE 0
    BY DEF Share, SynCell
  <1> QED
    BY <1>2, <1>4, <1>5

LEMMA DivBounds ==
  ASSUME NEW a \in Nat, NEW b \in Nat \ {0}
  PROVE  /\ a \div b \in Nat /\ a % b \in 0 .. b - 1
         /\ a = b * (a \div b) + (a % b)
  BY Z3

\* A number is the quotient when the rest is less than the divisor.
LEMMA DivIs ==
  ASSUME NEW a \in Nat, NEW b \in Nat \ {0}, NEW q \in Nat, NEW r \in 0 .. b - 1, a = b * q + r
  PROVE  a \div b = q
  <1> DEFINE p == a \div b  s == a % b
  <1>1. p \in Nat /\ s \in 0 .. b - 1 /\ a = b * p + s
    BY DivBounds
  <1> HIDE DEF p, s
  <1>2. ~(p < q)
    <2> SUFFICES ASSUME p + 1 <= q PROVE FALSE
      BY <1>1
    <2>1. b * (p + 1) <= b * q
      BY <1>1, Z3
    <2>2. b * (p + 1) = b * p + b
      BY <1>1, Z3
    <2>3. b * p \in Nat /\ b * q \in Nat
      BY <1>1
    <2> QED
      BY <1>1, <2>1, <2>2, <2>3
  <1>3. ~(q < p)
    <2> SUFFICES ASSUME q + 1 <= p PROVE FALSE
      BY <1>1
    <2>1. b * (q + 1) <= b * p
      BY <1>1, Z3
    <2>2. b * (q + 1) = b * q + b
      BY <1>1, Z3
    <2>3. b * p \in Nat /\ b * q \in Nat
      BY <1>1
    <2> QED
      BY <1>1, <2>1, <2>2, <2>3
  <1> QED
    BY <1>1, <1>2, <1>3 DEF p

\* The sub-interval of the second and the one within it are those of the whole time.
LEMMA SlotIs ==
  ASSUME NEW t \in Nat
  PROVE  Slot(t) = (t * NumSubintervals) \div TicksPerSecond /\ Slot(t) \in Nat
  <1> DEFINE T == TicksPerSecond  N == NumSubintervals
             q == t \div T  r == t % T  a == r * N  p == a \div T  s == a % T
  <1>1. T \in Nat \ {0} /\ N \in Nat \ {0}
    BY Ns2Assumption
  <1>2. q \in Nat /\ r \in 0 .. T - 1 /\ t = T * q + r
    BY <1>1, DivBounds
  <1>3. a \in Nat
    BY <1>1, <1>2
  <1>4. p \in Nat /\ s \in 0 .. T - 1 /\ a = T * p + s
    <2> HIDE DEF a
    <2> QED
      BY <1>1, <1>3, DivBounds
  <1>5. Slot(t) = q * N + p
    BY DEF Slot
  <1> HIDE DEF T, N, q, r, p, s
  <1>6. t * N = T * (q * N + p) + s
    <2>1. t * N = (T * q) * N + a
      BY <1>1, <1>2, Z3
    <2>2. (T * q) * N = T * (q * N)
      BY <1>1, <1>2, Z3
    <2>3. T * (q * N + p) = T * (q * N) + T * p
      BY <1>1, <1>2, <1>4, Z3
    <2>4. q * N \in Nat
      BY <1>1, <1>2
    <2>5. T * (q * N) \in Nat /\ T * p \in Nat
      BY <1>1, <1>4, <2>4
    <2> QED
      BY <1>4, <2>1, <2>2, <2>3, <2>5
  <1>7. q * N + p \in Nat /\ t * N \in Nat
    BY <1>1, <1>2, <1>4
  <1>8. (t * N) \div T = q * N + p
    <2> DEFINE x == t * N  y == q * N + p
    <2> HIDE DEF x, y
    <2>1. x \in Nat /\ y \in Nat /\ x = T * y + s
      BY <1>6, <1>7 DEF x, y
    <2>2. x \div T = y
      BY <1>1, <1>4, <2>1, DivIs
    <2> QED
      BY <2>2 DEF x, y
  <1> QED
    BY <1>5, <1>7, <1>8 DEF T, N

-------------------------------------------------------------------------------------
(* The inductive invariant.                                                          *)

\* The lines that are counted, and those with a TCP header whose flag was set.
Counted(k) == trace[k].event = "r" /\ trace[k].dst_id = "proxy"
SynSeen(k) == \E m \in 1 .. k : trace[m].event = "r" /\ trace[m].tcp_hdr = "syn"

ReaderOK ==
  /\ trace \in Traces
  /\ pos \in 0 .. Len(trace)
  /\ intervals \in [Slots -> [Cells -> Nat]]

\* The variable holds the flag of a line that was read.
HeaderOK == tcp_hdr = "syn" => SynSeen(pos)

\* The lines of a sub-interval with the flag, and those that may be taken to have it.
Syn(i) == {k \in Lines(i) : trace[k].tcp_hdr = "syn"}
MaybeSyn(i) == Syn(i) \cup {k \in Lines(i) : trace[k].tcp_hdr = "none" /\ SynSeen(k)}

SynOK ==
  pc # "stray" =>
    \A i \in Slots : /\ intervals[i][SynCell] >= Cardinality(Syn(i))
                     /\ intervals[i][SynCell] <= Cardinality(MaybeSyn(i))

Ns2Inv == ReaderOK /\ HeaderOK /\ TalliesExact /\ SynOK

\* The lines of a sub-interval are finitely many.
LEMMA LinesFacts ==
  ASSUME ReaderOK, NEW i
  PROVE  /\ Lines(i) \subseteq 1 .. pos /\ IsFiniteSet(Lines(i))
         /\ IsFiniteSet(Syn(i)) /\ Cardinality(Syn(i)) \in Nat
         /\ IsFiniteSet(MaybeSyn(i)) /\ Cardinality(MaybeSyn(i)) \in Nat
         /\ Syn(i) \subseteq Lines(i) /\ MaybeSyn(i) \subseteq Lines(i)
  <1>1. Lines(i) \subseteq 1 .. pos
    BY DEF Lines
  <1>2. pos \in Int /\ 1 \in Int
    BY DEF ReaderOK
  <1>3. IsFiniteSet(Lines(i))
    BY <1>1, <1>2, FS_Interval, FS_Subset
  <1>4. Syn(i) \subseteq Lines(i) /\ MaybeSyn(i) \subseteq Lines(i)
    BY DEF Syn, MaybeSyn
  <1> QED
    BY <1>1, <1>3, <1>4, FS_Subset, FS_CardinalityType

\* Reading a line adds it to its sub-interval, if it is one that counts.
LEMMA LinesStep ==
  ASSUME ReaderOK, trace' = trace, pos' = pos + 1, pos < Len(trace), NEW i
  PROVE  /\ pos + 1 \notin Lines(i)
         /\ Lines(i)' = IF Counted(pos + 1) /\ Slot(trace[pos + 1].time) = i
                          THEN Lines(i) \cup {pos + 1} ELSE Lines(i)
  <1>1. pos \in Nat /\ pos + 1 \in 1 .. Len(trace)
    BY LineType DEF ReaderOK
  <1>2. trace[pos + 1].time \in Nat
    BY <1>1, LineType DEF ReaderOK, Line
  <1>3. 1 .. pos + 1 = (1 .. pos) \cup {pos + 1} /\ pos + 1 \notin 1 .. pos
    BY <1>1
  <1>4. Slot(trace[pos + 1].time)
          = (trace[pos + 1].time * NumSubintervals) \div TicksPerSecond
    BY <1>2, SlotIs
  <1> DEFINE D(k) == /\ trace[k].event = "r" /\ trace[k].dst_id = "proxy"
                     /\ (trace[k].time * NumSubintervals) \div TicksPerSecond = i
  <1>5. Lines(i) = {k \in 1 .. pos : D(k)} /\ Lines(i)' = {k \in 1 .. pos + 1 : D(k)}
    BY DEF Lines
  <1>6. D(pos + 1) <=> Counted(pos + 1) /\ Slot(trace[pos + 1].time) = i
    BY <1>4 DEF Counted
  <1> HIDE DEF D
  <1>7. CASE D(pos + 1)
    <2>1. {k \in 1 .. pos + 1 : D(k)} = {k \in 1 .. pos : D(k)} \cup {pos + 1}
      BY <1>3, <1>7
    <2> QED
      BY <1>3, <1>5, <1>6, <1>7, <2>1
  <1>8. CASE ~D(pos + 1)
    <2>1. {k \in 1 .. pos + 1 : D(k)} = {k \in 1 .. pos : D(k)}
      BY <1>3, <1>8
    <2> QED
      BY <1>3, <1>5, <1>6, <1>8, <2>1
  <1> QED
    BY <1>7, <1>8

\* A line adds what it shares to the cells of its sub-interval.
LEMMA TalliesStep ==
  ASSUME Ns2Inv, Read, Counted(pos + 1) => CountLine, ~Counted(pos + 1) => UNCHANGED intervals
  PROVE  TalliesExact'
  <1> DEFINE n == pos + 1  l == trace[n]  s == Slot(l.time)
             w(c) == [k \in 1 .. pos |-> Share(trace[k], "other", c)]
             v(c) == [k \in 1 .. n |-> Share(trace[k], "other", c)]
  <1>1. /\ trace' = trace /\ pos' = n /\ pc = "reading" /\ pos \in Nat /\ n \in 1 .. Len(trace)
        /\ pos < Len(trace) /\ ReaderOK /\ TalliesExact
    BY LineType DEF Read, Ns2Inv, ReaderOK
  <1>2. SUFFICES ASSUME NEW i \in Slots, NEW c \in Cells \ {SynCell}
                 PROVE  intervals'[i][c] = Tally(Lines(i)', v(c))
    BY <1>1 DEF TalliesExact, SynCell
  <1>3. intervals[i][c] = Tally(Lines(i), w(c))
    BY <1>1 DEF TalliesExact, SynCell
  <1>4. \A k \in 1 .. Len(trace) : Share(trace[k], "other", c) \in Nat
    BY <1>1, LineType, ShareFacts DEF ReaderOK
  <1>5. /\ Lines(i) \subseteq 1 .. pos /\ IsFiniteSet(Lines(i)) /\ n \notin Lines(i)
        /\ Lines(i)' = IF Counted(n) /\ s = i THEN Lines(i) \cup {n} ELSE Lines(i)
    BY <1>1, LinesFacts, LinesStep
  <1>6. \A k \in 1 .. pos : v(c)[k] = w(c)[k] /\ k \in 1 .. n /\ k \in 1 .. Len(trace)
    BY <1>1
  <1>7. Tally(Lines(i), v(c)) = Tally(Lines(i), w(c))
    <2>1. \A k \in Lines(i) : v(c)[k] = w(c)[k]
      BY <1>5, <1>6
    <2> HIDE DEF v, w
    <2> QED
      BY <2>1, TallySame
  <1>8. CASE Counted(n) /\ s = i
    <2>1. CountLine /\ Lines(i)' = Lines(i) \cup {n}
      BY <1>5, <1>8
    <2>2. intervals' = [intervals EXCEPT ![s] =
                          [d \in Cells |-> intervals[s][d] + Share(l, Header(l), d)]]
      BY <2>1 DEF CountLine, NextLine
    <2>3. intervals'[i][c] = intervals[i][c] + Share(l, Header(l), c)
      BY <1>8, <2>2 DEF Ns2Inv, ReaderOK
    <2>4. Share(l, Header(l), c) = v(c)[n]
      <3>1. l \in Line
        BY <1>1, LineType DEF ReaderOK
      <3>2. Share(l, Header(l), c) = Share(l, "other", c)
        BY <3>1, ShareFacts
      <3> QED
        BY <1>1, <3>2
    <2>5. \A k \in Lines(i) \cup {n} : v(c)[k] \in Nat
      BY <1>1, <1>4, <1>5, <1>6
    <2>6. Tally(Lines(i) \cup {n}, v(c)) = Tally(Lines(i), v(c)) + v(c)[n]
      <3> HIDE DEF v, n
      <3> QED
        BY <1>5, <2>5, TallyAdd
    <2> QED
      BY <1>3, <1>7, <2>1, <2>3, <2>4, <2>6
  <1>9. CASE ~(Counted(n) /\ s = i)
    <2>1. intervals'[i][c] = intervals[i][c]
      <3>1. CASE Counted(n)
        <4>1. CountLine /\ s # i
          BY <1>9, <3>1
        <4>2. intervals' = [intervals EXCEPT ![s] =
                              [d \in Cells |-> intervals[s][d] + Share(l, Header(l), d)]]
          BY <4>1 DEF CountLine, NextLine
        <4> QED
          BY <4>1, <4>2 DEF Ns2Inv, ReaderOK
      <3>2. CASE ~Counted(n)
        BY <3>2
      <3> QED
        BY <3>1, <3>2
    <2>2. Lines(i)' = Lines(i)
      BY <1>5, <1>9
    <2> QED
      BY <1>3, <1>7, <2>1, <2>2
  <1> QED
    BY <1>8, <1>9

\* What is seen before a line does not depend on what was read since.
LEMMA SeenStep ==
  ASSUME ReaderOK, HeaderOK, trace' = trace, pos' = pos + 1, pos < Len(trace),
         tcp_hdr' = tcp_hdr \/ (/\ trace[pos + 1].event = "r"
                                /\ tcp_hdr' = Header(trace[pos + 1]))
  PROVE  /\ \A k : SynSeen(k)' = SynSeen(k)
         /\ HeaderOK'
         /\ tcp_hdr = "syn" => SynSeen(pos + 1)
  <1>1. pos \in Nat /\ pos + 1 \in 1 .. pos + 1
    BY DEF ReaderOK
  <1>2. \A k : SynSeen(k)' = SynSeen(k)
    BY DEF SynSeen
  <1>3. SynSeen(pos) => SynSeen(pos + 1)
    <2>1. \A m \in 1 .. pos : m \in 1 .. pos + 1
      BY <1>1
    <2> QED
      BY <2>1 DEF SynSeen
  <1>4. tcp_hdr = "syn" => SynSeen(pos + 1)
    BY <1>3 DEF HeaderOK
  <1>5. tcp_hdr' = "syn" => SynSeen(pos + 1)
    <2>1. CASE tcp_hdr' = tcp_hdr
      BY <1>4, <2>1
    <2>2. CASE trace[pos + 1].event = "r" /\ tcp_hdr' = Header(trace[pos + 1])
      <3>1. CASE trace[pos + 1].tcp_hdr = "none"
        BY <1>4, <2>2, <3>1 DEF Header
      <3>2. CASE trace[pos + 1].tcp_hdr # "none"
        <4>1. tcp_hdr' = trace[pos + 1].tcp_hdr
          BY <2>2, <3>2 DEF Header
        <4> QED
          BY <1>1, <2>2, <4>1 DEF SynSeen
      <3> QED
        BY <3>1, <3>2
    <2> QED
      BY <2>1, <2>2
  <1>6. HeaderOK'
    BY <1>2, <1>5 DEF HeaderOK
  <1> QED
    BY <1>2, <1>4, <1>6

\* The lines with the flag, and those that may seem to have it, grow with the lines.
LEMMA SynStep ==
  ASSUME ReaderOK, trace' = trace, pos' = pos + 1, pos < Len(trace),
         \A k : SynSeen(k)' = SynSeen(k), NEW i
  PROVE  LET n == pos + 1
             new == Counted(n) /\ Slot(trace[n].time) = i
             flag == trace[n].tcp_hdr = "syn"
             doubt == trace[n].tcp_hdr = "none" /\ SynSeen(n)
         IN  /\ Syn(i)' = IF new /\ flag THEN Syn(i) \cup {n} ELSE Syn(i)
             /\ MaybeSyn(i)' = IF new /\ (flag \/ doubt)
                                 THEN MaybeSyn(i) \cup {n} ELSE MaybeSyn(i)
             /\ n \notin Syn(i) /\ n \notin MaybeSyn(i)
  <1> DEFINE n == pos + 1
             new == Counted(n) /\ Slot(trace[n].time) = i
             flag == trace[n].tcp_hdr = "syn"
             doubt == trace[n].tcp_hdr = "none" /\ SynSeen(n)
             A(k) == trace[k].tcp_hdr = "syn"
             B(k) == trace[k].tcp_hdr = "none" /\ SynSeen(k)
  <1>1. n \notin Lines(i) /\ Lines(i)' = IF new THEN Lines(i) \cup {n} ELSE Lines(i)
    BY LinesStep
  <1>2. Syn(i) = {k \in Lines(i) : A(k)} /\ Syn(i)' = {k \in Lines(i)' : A(k)}
    BY DEF Syn
  <1>3. /\ MaybeSyn(i) = Syn(i) \cup {k \in Lines(i) : B(k)}
        /\ MaybeSyn(i)' = Syn(i)' \cup {k \in Lines(i)' : B(k)}
    <2>1. \A k : (SynSeen(k)' <=> SynSeen(k))
      OBVIOUS
    <2>2. {k \in Lines(i)' : trace'[k].tcp_hdr = "none" /\ SynSeen(k)'}
            = {k \in Lines(i)' : B(k)}
      BY <2>1
    <2> QED
      BY <2>2 DEF MaybeSyn
  <1>4. (flag <=> A(n)) /\ (doubt <=> B(n))
    OBVIOUS
  <1> HIDE DEF A, B, flag, doubt, new, n
  <1>5. Syn(i)' = IF new /\ flag THEN Syn(i) \cup {n} ELSE Syn(i)
    BY <1>1, <1>2, <1>4
  <1>6. MaybeSyn(i)' = IF new /\ (flag \/ doubt) THEN MaybeSyn(i) \cup {n} ELSE MaybeSyn(i)
    BY <1>1, <1>2, <1>3, <1>4
  <1>7. n \notin Syn(i) /\ n \notin MaybeSyn(i)
    BY <1>1, <1>2, <1>3
  <1> QED
    BY <1>5, <1>6, <1>7 DEF n, new, flag, doubt

\* Each line counted moves the number of SYN packets between its two bounds.
LEMMA SynCounted ==
  ASSUME Ns2Inv, CountLine
  PROVE  SynOK'
  <1> DEFINE n == pos + 1  l == trace[n]  s == Slot(l.time)
  <1>1. /\ trace' = trace /\ pos' = n /\ pc = "reading" /\ pos < Len(trace)
        /\ l.event = "r" /\ tcp_hdr' = Header(l) /\ Counted(n) /\ s \in Slots
        /\ intervals' = [intervals EXCEPT ![s] =
                           [d \in Cells |-> intervals[s][d] + Share(l, Header(l), d)]]
    BY DEF CountLine, Read, NextLine, Counted, InBounds
  <1>2. ReaderOK /\ HeaderOK /\ l \in Line
    BY <1>1, LineType DEF Ns2Inv, ReaderOK
  <1>3. (\A k : SynSeen(k)' = SynSeen(k)) /\ (tcp_hdr = "syn" => SynSeen(n))
    BY <1>1, <1>2, SeenStep
  <1>4. SUFFICES ASSUME NEW i \in Slots
                 PROVE  /\ intervals'[i][SynCell] >= Cardinality(Syn(i)')
                        /\ intervals'[i][SynCell] <= Cardinality(MaybeSyn(i)')
    BY DEF SynOK
  <1> DEFINE old == intervals[i][SynCell]
             flag == l.tcp_hdr = "syn"
             doubt == l.tcp_hdr = "none" /\ SynSeen(n)
  <1>5. old \in Nat /\ old >= Cardinality(Syn(i)) /\ old <= Cardinality(MaybeSyn(i))
    BY <1>1, <1>2, SynCellFacts DEF Ns2Inv, SynOK, ReaderOK
  <1>6. /\ Syn(i)' = IF s = i /\ flag THEN Syn(i) \cup {n} ELSE Syn(i)
        /\ MaybeSyn(i)' = IF s = i /\ (flag \/ doubt) THEN MaybeSyn(i) \cup {n} ELSE MaybeSyn(i)
        /\ n \notin Syn(i) /\ n \notin MaybeSyn(i)
    BY <1>1, <1>2, <1>3, SynStep
  <1>7. /\ IsFiniteSet(Syn(i)) /\ Cardinality(Syn(i)) \in Nat
        /\ IsFiniteSet(MaybeSyn(i)) /\ Cardinality(MaybeSyn(i)) \in Nat
    BY <1>2, LinesFacts
  <1>8. /\ Cardinality(Syn(i) \cup {n}) = Cardinality(Syn(i)) + 1
        /\ Cardinality(MaybeSyn(i) \cup {n}) = Cardinality(MaybeSyn(i)) + 1
    BY <1>6, <1>7, FS_AddElement
  <1>9. CASE s # i
    <2>1. intervals'[i][SynCell] = old
      BY <1>1, <1>2, <1>9 DEF ReaderOK
    <2> QED
      BY <1>5, <1>6, <1>9, <2>1
  <1>10. CASE s = i
    <2>1. intervals'[i][SynCell] = old + Share(l, Header(l), SynCell)
      BY <1>1, <1>2, <1>10, SynCellFacts DEF ReaderOK
    <2>2. Share(l, Header(l), SynCell) = IF Header(l) = "syn" THEN 1 ELSE 0
      BY <1>2, SynCellFacts, ShareFacts
    <2>3. (flag => Header(l) = "syn") /\ (Header(l) = "syn" => flag \/ doubt)
      BY <1>3 DEF Header
    <2> HIDE DEF flag, doubt, l
    <2>4. CASE flag
      BY <1>5, <1>6, <1>7, <1>8, <1>10, <2>1, <2>2, <2>3, <2>4
    <2>5. CASE ~flag
      <3>1. Syn(i)' = Syn(i)
        BY <1>6, <2>5
      <3>2. CASE doubt
        <4>1. MaybeSyn(i)' = MaybeSyn(i) \cup {n}
          BY <1>6, <1>10, <3>2
        <4> QED
          BY <1>5, <1>7, <1>8, <2>1, <2>2, <3>1, <4>1
      <3>3. CASE ~doubt
        <4>1. MaybeSyn(i)' = MaybeSyn(i) /\ Header(l) # "syn"
          BY <1>6, <2>3, <2>5, <3>3
        <4> QED
          BY <1>5, <2>1, <2>2, <3>1, <4>1
      <3> QED
        BY <3>2, <3>3
    <2> QED
      BY <2>4, <2>5
  <1> QED
    BY <1>9, <1>10

\* A line that is read and not counted.
LEMMA SynKept ==
  ASSUME Ns2Inv, Read, ~Counted(pos + 1), UNCHANGED intervals,
         \A k : SynSeen(k)' = SynSeen(k)
  PROVE  SynOK'
  <1>1. /\ trace' = trace /\ pos' = pos + 1 /\ pos < Len(trace) /\ pc = "reading"
        /\ ReaderOK /\ SynOK
    BY DEF Read, Ns2Inv
  <1>2. \A i : Syn(i)' = Syn(i) /\ MaybeSyn(i)' = MaybeSyn(i)
    BY <1>1, SynStep
  <1> QED
    BY <1>1, <1>2 DEF SynOK

LEMMA Ns2InvInit == Init => Ns2Inv
  <1> SUFFICES ASSUME Init PROVE Ns2Inv
    OBVIOUS
  <1>1. ReaderOK
    BY LineType DEF Init, ReaderOK
  <1>2. HeaderOK
    BY DEF Init, HeaderOK
  <1>3. \A i : Lines(i) = {} /\ Syn(i) = {} /\ MaybeSyn(i) = {}
    BY DEF Init, Lines, Syn, MaybeSyn
  <1>4. \A i \in Slots : \A c \in Cells : intervals[i][c] = 0
    BY DEF Init
  <1>5. TalliesExact
    BY <1>3, <1>4, TallyEmpty DEF TalliesExact
  <1>6. SynOK
    BY <1>3, <1>4, SynCellFacts, FS_EmptySet DEF SynOK
  <1> QED
    BY <1>1, <1>2, <1>5, <1>6 DEF Ns2Inv

\* Counting a line keeps the types.
LEMMA ReaderCounted ==
  ASSUME ReaderOK, CountLine
  PROVE  ReaderOK'
  <1> DEFINE l == NextLine  s == Slot(l.time)
  <1>1. /\ trace' = trace /\ pos' = pos + 1 /\ pos < Len(trace) /\ s \in Slots
        /\ intervals' = [intervals EXCEPT ![s] =
                           [d \in Cells |-> intervals[s][d] + Share(l, Header(l), d)]]
    BY DEF CountLine, Read, InBounds
  <1>2. pos' \in 0 .. Len(trace) /\ l \in Line
    BY <1>1, LineType DEF ReaderOK, NextLine
  <1>3. [d \in Cells |-> intervals[s][d] + Share(l, Header(l), d)] \in [Cells -> Nat]
    <2>1. \A d \in Cells : Share(l, Header(l), d) \in Nat /\ intervals[s][d] \in Nat
      BY <1>1, <1>2, ShareFacts DEF ReaderOK
    <2> QED
      BY <2>1
  <1>4. intervals' \in [Slots -> [Cells -> Nat]]
    BY <1>1, <1>3 DEF ReaderOK
  <1> QED
    BY <1>1, <1>2, <1>4 DEF ReaderOK

LEMMA Ns2InvNext == Ns2Inv /\ [Next]_ns2Vars => Ns2Inv'
  <1> SUFFICES ASSUME Ns2Inv, [Next]_ns2Vars
               PROVE  Ns2Inv'
    OBVIOUS
  <1>0. ReaderOK /\ HeaderOK /\ TalliesExact /\ SynOK
    BY DEF Ns2Inv
  \* Steps that read no line.
  <1>1. ASSUME trace' = trace, pos' = pos, tcp_hdr' = tcp_hdr, intervals' = intervals,
               pc # "stray" \/ pc' = "stray"
        PROVE  Ns2Inv'
    <2>1. \A k : SynSeen(k)' = SynSeen(k)
      BY <1>1 DEF SynSeen
    <2>2. \A i : Lines(i)' = Lines(i)
      BY <1>1 DEF Lines
    <2>3. \A i : Syn(i)' = Syn(i) /\ MaybeSyn(i)' = MaybeSyn(i)
      BY <1>1, <2>1, <2>2 DEF Syn, MaybeSyn
    <2>4. ReaderOK' /\ HeaderOK'
      BY <1>0, <1>1, <2>1 DEF ReaderOK, HeaderOK
    <2>5. TalliesExact'
      BY <1>0, <1>1, <2>2 DEF TalliesExact
    <2>6. SynOK'
      BY <1>0, <1>1, <2>3 DEF SynOK
    <2> QED
      BY <2>4, <2>5, <2>6 DEF Ns2Inv
  \* Steps that read one.
  <1>2. ASSUME Read, \/ UNCHANGED tcp_hdr
                     \/ NextLine.event = "r" /\ tcp_hdr' = Header(NextLine)
        PROVE  /\ trace' = trace /\ pos' = pos + 1 /\ pos < Len(trace) /\ pc = "reading"
               /\ HeaderOK' /\ \A k : SynSeen(k)' = SynSeen(k)
               /\ pos' \in 0 .. Len(trace)
    <2>1. trace' = trace /\ pos' = pos + 1 /\ pos < Len(trace) /\ pc = "reading"
      BY <1>2 DEF Read
    <2>2. pos' \in 0 .. Len(trace)
      BY <1>0, <2>1, LineType DEF ReaderOK
    <2> QED
      BY <1>0, <1>2, <2>1, <2>2, SeenStep DEF NextLine
  <1>3. ASSUME Read, ~Counted(pos + 1), UNCHANGED intervals,
               \/ UNCHANGED tcp_hdr
               \/ NextLine.event = "r" /\ tcp_hdr' = Header(NextLine)
        PROVE  Ns2Inv'
    <2>1. TalliesExact'
      BY <1>3, TalliesStep
    <2>2. SynOK' /\ HeaderOK'
      BY <1>2, <1>3, SynKept
    <2>3. ReaderOK'
      BY <1>0, <1>2, <1>3 DEF ReaderOK
    <2> QED
      BY <2>1, <2>2, <2>3 DEF Ns2Inv
  <1>4. CASE UNCHANGED ns2Vars
    <2>1. pc' = pc
      BY <1>4
    <2> QED
      BY <1>1, <1>4, <2>1
  <1>5. CASE OpenFails
    BY <1>1, <1>5 DEF OpenFails
  <1>6. CASE OpenSucceeds
    BY <1>1, <1>6 DEF OpenSucceeds
  <1>7. CASE SkipEvent
    BY <1>3, <1>7 DEF SkipEvent, NextLine, Counted
  <1>8. CASE SkipElsewhere
    BY <1>3, <1>8 DEF SkipElsewhere, NextLine, Counted
  <1>9. CASE CountLine
    <2>1. Read /\ Counted(pos + 1) /\ NextLine.event = "r" /\ tcp_hdr' = Header(NextLine)
      BY <1>9 DEF CountLine, Counted, NextLine
    <2>2. TalliesExact'
      BY <1>9, <2>1, TalliesStep
    <2>3. SynOK'
      BY <1>9, SynCounted
    <2>4. HeaderOK' /\ ReaderOK'
      BY <1>0, <1>2, <1>9, <2>1, ReaderCounted
    <2> QED
      BY <2>2, <2>3, <2>4 DEF Ns2Inv
  <1>10. CASE Stray
    <2>1. Read /\ pc' = "stray" /\ UNCHANGED intervals /\ NextLine.event = "r"
          /\ tcp_hdr' = Header(NextLine)
      BY <1>10 DEF Stray
    <2>2. HeaderOK' /\ ReaderOK'
      BY <1>0, <1>2, <2>1 DEF ReaderOK
    <2>3. TalliesExact' /\ SynOK'
      BY <2>1 DEF TalliesExact, SynOK
    <2> QED
      BY <2>2, <2>3 DEF Ns2Inv
  <1>11. CASE EndOfFile
    BY <1>1, <1>11 DEF EndOfFile
  <1> QED
    BY <1>4, <1>5, <1>6, <1>7, <1>8, <1>9, <1>10, <1>11 DEF Next

LEMMA Ns2Invariant == Spec => []Ns2Inv
  BY Ns2InvInit, Ns2InvNext, PTL DEF Spec
-------------------------------------------------------------------------------------
\* The counters of an ns-2 trace, but that of the SYN flag, are the exact totals of the
\* lines read, each in the sub-interval that the reader of captures would choose.
THEOREM LinesAreCounted == Spec => []TalliesExact
  <1>1. Ns2Inv => TalliesExact
    BY DEF Ns2Inv
  <1> QED
    BY <1>1, Ns2Invariant, PTL

\* A stale header makes the SYN counter too high, never too low, and only for lines
\* without a TCP header behind one with the flag.
THEOREM SynIsNeverMissed == Spec => []SynNeverMissed
  <1>1. Ns2Inv => SynNeverMissed
    BY DEF Ns2Inv, SynOK, SynNeverMissed, Syn, MaybeSyn, SynSeen, SynCell
  <1> QED
    BY <1>1, Ns2Invariant, PTL

-------------------------------------------------------------------------------------
(* The counters of a sub-interval.                                                    *)

\* The cells of a row.
LEMMA CellsOfRow ==
  /\ IsFiniteSet(Cells) /\ Fields \subseteq Cells
  /\ \A h \in Histograms : \A b \in 0 .. NumPorts - 1 : <<h, b>> \in Cells
  /\ \A c \in Cells : c = <<c[1], c[2]>>
  <1>1. IsFiniteSet(Scalars) /\ IsFiniteSet(Histograms)
    BY FourFinite DEF Scalars, Histograms
  <1>2. IsFiniteSet(Cells)
    BY <1>1, CellsFinite, CellAssumption DEF Cells
  <1>3. Fields \subseteq Cells
    BY DEF Fields, Cells, Scalars
  <1> QED
    BY <1>2, <1>3 DEF Cells

\* What one line adds is consistent, since its addresses have their elements.
LEMMA ShareConsistent ==
  ASSUME NEW l \in Line, InBounds(l), NEW hdr
  PROVE  LET d == [c \in Cells |-> Share(l, hdr, c)]
         IN  d \in [Cells -> Nat] /\ Consistent(d, ByteMode, FALSE)
  <1> DEFINE d == [c \in Cells |-> Share(l, hdr, c)]
  <1>1. d \in [Cells -> Nat]
    BY ShareFacts
  <1>2. psize(l) \in Nat /\ l.pkt_size \in Nat \ {0}
    BY DEF psize, Line
  <1>3. ASSUME NEW h \in {"num_src_ips", "num_dst_ips"}
        PROVE  RowSum(d, h) = psize(l)
    <2> DEFINE b == IF h = "num_src_ips" THEN l.src_addr ELSE l.dst_addr
               x == <<h, b>>
    <2>1. b \in 0 .. NumPorts - 1 /\ h \in Histograms
      BY CellAssumption DEF InBounds, Line, Histograms
    <2>2. x \in Cells /\ x[1] = h
      BY <2>1, CellsOfRow
    <2>3. \A c \in Cells : c[1] = h => d[c] = IF c[2] = b THEN psize(l) ELSE 0
      BY DEF Share
    <2>4. d[x] = psize(l)
      BY <2>2, <2>3
    <2>5. \A c \in Cells : c[1] = h /\ c # x => d[c] = 0
      BY <2>3, CellsOfRow
    <2>6. DOMAIN d = Cells
      OBVIOUS
    <2> HIDE DEF d, x
    <2> QED
      BY <1>2, <2>2, <2>4, <2>5, <2>6, RowSumOne
  <1>4. ASSUME NEW h \in {"num_src_ports", "num_dst_ports"}
        PROVE  RowSum(d, h) = 0
    <2>1. \A c \in DOMAIN d : c[1] = h => d[c] = 0
      BY DEF Share
    <2> HIDE DEF d
    <2> QED
      BY <2>1, RowSumNone
  <1>5. RowSum(d, "num_packet_sizes") <= 1
    <2> DEFINE h == "num_packet_sizes"  x == <<h, l.pkt_size>>
    <2>1. \A c \in Cells : c[1] = h => d[c] = IF c = x THEN 1 ELSE 0
      BY CellsOfRow DEF Share
    <2>2. DOMAIN d = Cells
      OBVIOUS
    <2>3. CASE x \in Cells
      <3>1. RowSum(d, h) = d[x] /\ d[x] = 1
        <4>1. x[1] = h
          OBVIOUS
        <4> HIDE DEF d, x
        <4> QED
          BY <2>1, <2>2, <2>3, <4>1, RowSumOne
      <3> QED
        BY <3>1
    <2>4. CASE x \notin Cells
      <3>1. RowSum(d, h) = 0
        <4> HIDE DEF d, x
        <4> QED
          BY <2>1, <2>2, <2>4, RowSumNone
      <3> QED
        BY <3>1
    <2> QED
      BY <2>3, <2>4
  <1>6. /\ d[<<"num_packets", 0>>] = 1 /\ d[<<"num_bytes", 0>>] = l.pkt_size
        /\ d[<<"num_df", 0>>] = 1
    BY CellsOfRow DEF Fields, Share
  <1>7. psize(l) = IF ByteMode THEN l.pkt_size ELSE 1
    BY DEF psize
  <1> HIDE DEF d
  <1>8. Consistent(d, ByteMode, FALSE)
    BY <1>2, <1>3, <1>4, <1>5, <1>6, <1>7 DEF Consistent
  <1> QED
    BY <1>1, <1>8 DEF d

\* The counters of a sub-interval agree with each other: they are a sum of what the lines
\* add.
THEOREM Ns2CountersAgree == Spec => []RowsConsistent
  <1>0. IsFiniteSet(Cells) /\ Fields \subseteq Cells
    BY CellsOfRow
  <1>1. Init => RowsConsistent
    <2> SUFFICES ASSUME Init, NEW i \in Slots PROVE Consistent(intervals[i], ByteMode, FALSE)
      BY DEF RowsConsistent
    <2> DEFINE u == intervals[i]
    <2>1. DOMAIN u = Cells /\ \A c \in Cells : u[c] = 0
      BY DEF Init
    <2> HIDE DEF u
    <2>2. Consistent(u, ByteMode, FALSE)
      BY <1>0, <2>1, NoneConsistent
    <2> QED
      BY <2>2 DEF u
  <1>2. Ns2Inv /\ RowsConsistent /\ [Next]_ns2Vars => RowsConsistent'
    <2> SUFFICES ASSUME Ns2Inv, RowsConsistent, [Next]_ns2Vars
                 PROVE  RowsConsistent'
      OBVIOUS
    <2>1. CountLine \/ UNCHANGED intervals
      BY DEF Next, OpenFails, OpenSucceeds, SkipEvent, SkipElsewhere, Stray, EndOfFile
    <2>2. CASE CountLine
      <3> DEFINE l == NextLine  i == Slot(l.time)  u == intervals[i]
                 v == [c \in Cells |-> Share(l, Header(l), c)]
                 w == [c \in Cells |-> u[c] + Share(l, Header(l), c)]
      <3>1. i \in Slots /\ intervals' = [intervals EXCEPT ![i] = w] /\ InBounds(l)
        BY <2>2 DEF CountLine, InBounds
      <3>2. l \in Line
        BY <2>2, LineType DEF CountLine, Read, NextLine, Ns2Inv, ReaderOK
      <3>3. v \in [Cells -> Nat] /\ Consistent(v, ByteMode, FALSE)
        BY <3>1, <3>2, ShareConsistent
      <3>4. u \in [Cells -> Nat] /\ Consistent(u, ByteMode, FALSE)
        BY <3>1 DEF Ns2Inv, ReaderOK, RowsConsistent
      <3>5. DOMAIN w = Cells /\ \A c \in Cells : w[c] = u[c] + v[c]
        OBVIOUS
      <3>6. Consistent(w, ByteMode, FALSE)
        <4> DEFINE ports == FALSE
        <4>1. ports \in BOOLEAN /\ ByteMode \in BOOLEAN
          BY Ns2Assumption
        <4>2. Consistent(u, ByteMode, ports) /\ Consistent(v, ByteMode, ports)
          BY <3>3, <3>4
        <4>3. u \in [Cells -> Nat] /\ v \in [Cells -> Nat]
          BY <3>3, <3>4
        <4> HIDE DEF u, v, w, ports
        <4>4. Consistent(w, ByteMode, ports)
          BY <1>0, <3>5, <4>1, <4>2, <4>3, SumConsistent
        <4> QED
          BY <4>4 DEF ports
      <3>7. \A n \in Slots : intervals'[n] = IF n = i THEN w ELSE intervals[n]
        <4> HIDE DEF w, i
        <4> QED
          BY <3>1 DEF Ns2Inv, ReaderOK
      <3> HIDE DEF w, i
      <3> QED
        BY <3>6, <3>7 DEF RowsConsistent
    <2>3. CASE UNCHANGED intervals
      BY <2>3 DEF RowsConsistent
    <2> QED
      BY <2>1, <2>2, <2>3
  <1> QED
    BY <1>1, <1>2, Ns2Invariant, PTL DEF Spec

=====================================================================================
