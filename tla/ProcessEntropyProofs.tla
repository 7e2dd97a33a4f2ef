---------------------------- MODULE ProcessEntropyProofs ----------------------------
(*************************************************************************************)
(* What is proved of the analyser.  First of the reader: the theorems of Capture, for  *)
(* every capture and every value of the parameters.  Then of ProcessEntropy: they and  *)
(* the theorems of SlidingWindow and FlowTable hold of the program that the parts make *)
(* up, and together they give the reports that EntropyReport promises.                 *)
(*************************************************************************************)
EXTENDS ProcessEntropy, TallyTheorems, SequenceTheorems

WP == INSTANCE SlidingWindowProofs WITH NumIntervals <- num_intervals
FP == INSTANCE FlowTableProofs WITH NumIntervals <- num_intervals,
                                   num_subintervals <- NumSubintervals

USE DEF captureVars, counters

-------------------------------------------------------------------------------------
(* The data of a record.                                                             *)

\* A packet adds a natural number to each cell.
LEMMA ShareType ==
  ASSUME NEW f \in Frame, NEW c \in Cells
  PROVE  Share(f, c) \in Nat
  <1>1. psize(f) \in Nat
    BY DEF psize, Frame
  <1>2. CASE c[1] \in Scalars
    <2>1. f.len \in Nat
      BY DEF Frame
    <2>2. Amounts(f)[c[1]] \in Nat
      BY <1>2, <2>1 DEF Scalars, Amounts
    <2> QED
      BY <1>2, <2>2 DEF Share
  <1>3. CASE c[1] \notin Scalars
    BY <1>1, <1>3 DEF Share
  <1> QED
    BY <1>2, <1>3

LEMMA RecordType ==
  ASSUME capture \in Captures, NEW k \in 1 .. Len(capture)
  PROVE  capture[k].ts \in Nat /\ capture[k].frame \in Frame
  <1>1. capture \in Seq([ts : Nat, frame : Frames])
    BY InputAssumption
  <1>2. capture[k] \in [ts : Nat, frame : Frames]
    BY <1>1, ElementOfSeq
  <1> QED
    BY <1>2, InputAssumption

LEMMA RemType ==
  ASSUME NEW a \in Int, NEW b \in Nat \ {0}
  PROVE  AbsRem(a, b) \in 0 .. b - 1
  BY DEF AbsRem

LEMMA TruncType ==
  ASSUME NEW a \in Int, NEW b \in Nat \ {0}
  PROVE  TruncDiv(a, b) \in Int
  BY DEF TruncDiv

\* The histogram elements that a packet adds to exist.
LEMMA BucketType ==
  ASSUME NEW f \in Frame
  PROVE  /\ Bucket(f).num_src_ports \in 0 .. NumPorts - 1
         /\ Bucket(f).num_dst_ports \in 0 .. NumPorts - 1
         /\ Bucket(f).num_src_ips \in 0 .. NumPorts - 1
         /\ Bucket(f).num_dst_ips \in 0 .. NumPorts - 1
  <1>1. AbsRem(f.saddr, NumPorts) \in 0 .. NumPorts - 1
        /\ AbsRem(f.daddr, NumPorts) \in 0 .. NumPorts - 1
    BY RemType, CellAssumption DEF Frame
  <1>2. f.sport % NumPorts \in 0 .. NumPorts - 1
        /\ f.dport % NumPorts \in 0 .. NumPorts - 1
    BY CellAssumption DEF Frame
  <1> QED
    BY <1>1, <1>2 DEF Bucket

LEMMA TraceType ==
  ASSUME NEW f \in Frame
  PROVE  Trace(f) \in [src : 0 .. NumAddr - 1, dst : 0 .. NumAddr - 1,
                       h : Nat, size : Nat \ {0}]
  <1> DEFINE sip == Bucket(f).num_src_ips  sport == Bucket(f).num_src_ports
             dip == Bucket(f).num_dst_ips  dport == Bucket(f).num_dst_ports
  <1>1. sip \in Nat /\ sport \in Nat /\ dip \in Nat /\ dport \in Nat
    BY BucketType, CellAssumption
  <1> HIDE DEF sip, sport, dip, dport
  <1>2. calc_hash2(sip, sport) \in Nat /\ calc_hash2(dip, dport) \in Nat
        /\ calc_hash(sip, sport, dip, dport) \in Nat
    BY <1>1 DEF calc_hash, calc_hash2
  <1>3. calc_hash2(sip, sport) % NumAddr \in 0 .. NumAddr - 1
        /\ calc_hash2(dip, dport) % NumAddr \in 0 .. NumAddr - 1
    BY <1>2, AddrAssumption
  <1>4. f.len \in Nat \ {0}
    BY DEF Frame
  <1> QED
    BY <1>2, <1>3, <1>4 DEF Trace, Inserted, sip, sport, dip, dport

-------------------------------------------------------------------------------------
(* Type correctness.                                                                 *)

\* The variables keep their types: whatever the capture, a packet is only counted in
\* a sub-interval that exists, and adds to elements that exist.
THEOREM TypeCorrect == Spec => []TypeOK
  <1>1. Init => TypeOK
    BY DEF Init, TypeOK
  <1>2. TypeOK /\ [Next]_captureVars => TypeOK'
    <2> SUFFICES ASSUME TypeOK, [Next]_captureVars
                 PROVE  TypeOK'
      OBVIOUS
    <2> USE DEF TypeOK
    <2>0. Len(capture) \in Nat
      BY InputAssumption
    <2>1. CASE UNCHANGED captureVars
      BY <2>1
    <2>2. CASE OpenFails
      BY <2>2 DEF OpenFails
    <2>3. CASE OpenSucceeds
      BY <2>3 DEF OpenSucceeds
    <2>4. CASE SkipForeign
      <3>1. capture' = capture /\ pos' = pos + 1 /\ pos < Len(capture)
        BY <2>4 DEF SkipForeign, Reading
      <3>2. pos' \in 0 .. Len(capture)'
        BY <3>1, <2>0
      <3> QED
        BY <2>4, <3>1, <3>2 DEF SkipForeign
    <2>5. ReadTcp => /\ link' = link /\ capture' = capture
                     /\ pos' \in 0 .. Len(capture)' /\ pos + 1 \in 1 .. Len(capture)
                     /\ sec_first' \in BOOLEAN /\ sec_offs' \in Int
      <3> SUFFICES ASSUME ReadTcp
                   PROVE  /\ link' = link /\ capture' = capture
                          /\ pos' \in 0 .. Len(capture)' /\ pos + 1 \in 1 .. Len(capture)
                          /\ sec_first' \in BOOLEAN /\ sec_offs' \in Int
        OBVIOUS
      <3>1. pos + 1 \in 1 .. Len(capture)
        BY <2>0 DEF ReadTcp, Reading
      <3>2. Record.ts \in Nat
        BY <3>1, RecordType DEF Record
      <3>3. sec_offs' \in Int
        BY <3>2, TimeAssumption DEF ReadTcp, Offset
      <3>4. capture' = capture /\ pos' = pos + 1
        BY DEF ReadTcp
      <3>5. pos' \in 0 .. Len(capture)'
        BY <3>1, <3>4, <2>0
      <3> QED
        BY <3>1, <3>3, <3>4, <3>5 DEF ReadTcp
    <2>6. CASE SkipEarly
      BY <2>6, <2>5 DEF SkipEarly
    <2>7. CASE StopAtEnd
      BY <2>7, <2>5 DEF StopAtEnd
    <2>8. CASE SkipServer
      BY <2>8, <2>5 DEF SkipServer
    <2>9. CASE CountPacket
      <3> DEFINE i == Slot(Time)  f == Record.frame
      <3>1. f \in Frame /\ i \in Slots
        BY <2>9, <2>5, RecordType DEF CountPacket, Record
      <3>2. [c \in Cells |-> intervals[i][c] + Share(f, c)] \in [Cells -> Nat]
        BY <3>1, ShareType
      <3>3. intervals' \in [Slots -> [Cells -> Nat]]
        BY <2>9, <3>1, <3>2 DEF CountPacket
      <3> DEFINE T == [src : 0 .. NumAddr - 1, dst : 0 .. NumAddr - 1,
                       h : Nat, size : Nat \ {0}]
      <3>4. Trace(f) \in T
        BY <3>1, TraceType
      <3>5. fsd_traces' = [fsd_traces EXCEPT ![i] = Append(fsd_traces[i], Trace(f))]
        BY <2>9 DEF CountPacket
      <3>6. fsd_traces' \in [Slots -> Seq(T)]
        <4> HIDE DEF T
        <4>1. fsd_traces \in [Slots -> Seq(T)]
          BY DEF T
        <4> HIDE DEF TypeOK
        <4>2. Append(fsd_traces[i], Trace(f)) \in Seq(T)
          BY <4>1, <3>1, <3>4
        <4> QED
          BY <4>1, <4>2, <3>5, <3>1
      <3>7. t_total_packets' \in Nat /\ pc' = pc
        BY <2>9 DEF CountPacket
      <3>8. ReadTcp
        BY <2>9 DEF CountPacket
      <3> QED
        BY <2>5, <3>3, <3>6, <3>7, <3>8
    <2>10. CASE Stray
      BY <2>10, <2>5 DEF Stray
    <2>11. CASE EndOfFile
      BY <2>11 DEF EndOfFile
    <2> QED
      BY <2>1, <2>2, <2>3, <2>4, <2>6, <2>7, <2>8, <2>9, <2>10, <2>11 DEF Next
  <1> QED
    BY <1>1, <1>2, PTL DEF Spec

-------------------------------------------------------------------------------------
(* The counters are the tallies of the packets read.                                 *)

\* The link type and the capture never change, so neither does what is said of them.
LEMMA Frozen ==
  ASSUME link' = link, capture' = capture
  PROVE  /\ TcpRecords' = TcpRecords /\ First' = First /\ Wanted' = Wanted
         /\ \A k : TimeOf(k)' = TimeOf(k)
         /\ \A c : Weight(c)' = Weight(c)
  <1>1. TcpRecords' = TcpRecords
    BY DEF TcpRecords, IsTcp
  <1>2. First' = First
    BY <1>1 DEF First
  <1>3. \A k : TimeOf(k)' = TimeOf(k)
    BY <1>2 DEF TimeOf
  <1>4. Wanted' = Wanted
    BY <1>1, <1>3 DEF Wanted, FromServer, InRange
  <1> QED
    BY <1>1, <1>2, <1>3, <1>4 DEF Weight

\* The clock is set by the first TCP packet of the file, and by no other.
ClockOK ==
  /\ sec_first => \A k \in TcpRecords : k > pos
  /\ ~sec_first => /\ First \in TcpRecords
                   /\ First <= pos
                   /\ \A k \in TcpRecords : First <= k
                   /\ sec_offs = capture[First].ts - OffsetTicks

\* The index that First names, when there is one.
LEMMA FirstIs ==
  ASSUME capture \in Captures, NEW n \in TcpRecords, \A k \in TcpRecords : n <= k
  PROVE  First = n
  <1>1. \A k \in TcpRecords : k \in Int
    BY InputAssumption DEF TcpRecords
  <1>2. \A m \in TcpRecords : (\A k \in TcpRecords : m <= k) => m = n
    BY <1>1
  <1> QED
    BY <1>2 DEF First

\* The TCP packet being read sets or keeps the clock, and its time is what the
\* capture says.
LEMMA ReadTcpClock ==
  ASSUME TypeOK, ClockOK, ReadTcp
  PROVE  /\ pos + 1 \in TcpRecords
         /\ Time = TimeOf(pos + 1)
         /\ ClockOK'
  <1>1. Len(capture) \in Nat /\ pos \in 0 .. Len(capture) /\ capture \in Captures
    BY InputAssumption DEF TypeOK
  <1>2. pos + 1 \in 1 .. Len(capture)
    BY <1>1 DEF ReadTcp, Reading
  <1>3. pos + 1 \in TcpRecords
    BY <1>2 DEF ReadTcp, TcpRecords, Record
  <1>4. \A k \in TcpRecords : k \in Int
    BY DEF TcpRecords
  <1>5. First \in TcpRecords /\ First <= pos + 1 /\ \A k \in TcpRecords : First <= k
    <2>1. CASE sec_first
      <3>1. \A k \in TcpRecords : pos + 1 <= k
        BY <2>1, <1>1, <1>4 DEF ClockOK
      <3> QED
        BY <3>1, <1>1, <1>3, FirstIs
    <2>2. CASE ~sec_first
      BY <2>2, <1>1, <1>4 DEF ClockOK
    <2> QED
      BY <2>1, <2>2 DEF TypeOK
  <1>6. Offset = capture[First].ts - OffsetTicks
    <2>1. CASE sec_first
      <3>1. \A k \in TcpRecords : pos + 1 <= k
        BY <2>1, <1>1, <1>4 DEF ClockOK
      <3>2. First = pos + 1
        BY <3>1, <1>1, <1>3, FirstIs
      <3> QED
        BY <2>1, <3>2 DEF Offset, Record
    <2>2. CASE ~sec_first
      BY <2>2 DEF ClockOK, Offset
    <2> QED
      BY <2>1, <2>2 DEF TypeOK
  <1>7. Time = TimeOf(pos + 1)
    <2>1. capture[First].ts \in Nat /\ capture[pos + 1].ts \in Nat
      BY <1>1, <1>2, <1>5, RecordType DEF TcpRecords
    <2> QED
      BY <2>1, <1>6, TimeAssumption DEF Time, TimeOf, Record
  <1>8. ClockOK'
    <2>1. link' = link /\ capture' = capture /\ pos' = pos + 1
          /\ sec_first' = FALSE /\ sec_offs' = Offset
      BY DEF ReadTcp
    <2>2. TcpRecords' = TcpRecords /\ First' = First
      BY <2>1, Frozen
    <2> QED
      BY <2>1, <2>2, <1>5, <1>6 DEF ClockOK
  <1> QED
    BY <1>3, <1>7, <1>8

\* The records of a sub-interval are finitely many positions of the capture, each
\* with a natural weight in every cell.
LEMMA MembersFinite ==
  ASSUME TypeOK, NEW i, NEW c \in Cells
  PROVE  /\ IsFiniteSet(Members(i))
         /\ \A k \in Wanted : Weight(c)[k] = Share(capture[k].frame, c)
                              /\ Weight(c)[k] \in Nat
  <1>1. capture \in Captures /\ Len(capture) \in Nat
    BY InputAssumption DEF TypeOK
  <1>2. Members(i) \subseteq 1 .. Len(capture)
    BY DEF Members, Wanted, TcpRecords
  <1>3. IsFiniteSet(1 .. Len(capture))
    BY <1>1, FS_Interval
  <1>4. IsFiniteSet(Members(i))
    BY <1>2, <1>3, FS_Subset
  <1>5. \A k \in Wanted : k \in 1 .. Len(capture)
    BY DEF Wanted, TcpRecords
  <1>6. \A k \in Wanted : Share(capture[k].frame, c) \in Nat
    BY <1>1, <1>5, RecordType, ShareType
  <1> QED
    BY <1>4, <1>5, <1>6 DEF Weight

\* Reading a record that is not wanted changes no sub-interval's records.
LEMMA MembersSkip ==
  ASSUME TypeOK, link' = link, capture' = capture, pos' = pos + 1, pos + 1 \notin Wanted
  PROVE  \A i : Members(i)' = Members(i)
  <1>1. Wanted' = Wanted /\ \A k : TimeOf(k)' = TimeOf(k)
    BY Frozen
  <1>2. \A k \in Wanted : k <= pos + 1 <=> k <= pos
    BY DEF Wanted, TcpRecords, TypeOK
  <1> QED
    BY <1>1, <1>2 DEF Members, Slot

\* Reading a wanted record adds it to its own sub-interval.
LEMMA MembersAdd ==
  ASSUME TypeOK, link' = link, capture' = capture, pos' = pos + 1, pos + 1 \in Wanted
  PROVE  \A i : /\ pos + 1 \notin Members(i)
                /\ Members(i)' = IF Slot(TimeOf(pos + 1)) = i
                                   THEN Members(i) \cup {pos + 1} ELSE Members(i)
  <1>1. Wanted' = Wanted /\ \A k : TimeOf(k)' = TimeOf(k)
    BY Frozen
  <1>2. \A k \in Wanted : k <= pos + 1 <=> k <= pos \/ k = pos + 1
    BY DEF Wanted, TcpRecords, TypeOK
  <1>3. ~(pos + 1 <= pos)
    BY DEF TypeOK
  <1> QED
    BY <1>1, <1>2, <1>3 DEF Members, Slot

\* A step that counts nothing keeps the counters equal to the tallies.
LEMMA TalliesKept ==
  ASSUME TypeOK, TalliesExact, pc # "stray", link' = link, capture' = capture,
         intervals' = intervals, \A i : Members(i)' = Members(i)
  PROVE  TalliesExact'
  <1>1. \A c : Weight(c)' = Weight(c)
    BY Frozen
  <1> QED
    BY <1>1 DEF TalliesExact, Tally, Units

\* Counting a packet does.
LEMMA TalliesCounted ==
  ASSUME TypeOK, TalliesExact, ClockOK, CountPacket
  PROVE  TalliesExact'
  <1> DEFINE n == pos + 1  f == Record.frame  s == Slot(Time)
  <1>1. ReadTcp /\ pc = "reading"
    BY DEF CountPacket, ReadTcp, Reading
  <1>2. link' = link /\ capture' = capture /\ pos' = n
    BY <1>1 DEF ReadTcp
  <1>3. n \in TcpRecords /\ Time = TimeOf(n)
    BY <1>1, ReadTcpClock
  <1>4. n \in Wanted
    BY <1>3 DEF CountPacket, Wanted, Record
  <1>5. \A i : n \notin Members(i)
               /\ Members(i)' = IF s = i THEN Members(i) \cup {n} ELSE Members(i)
    BY <1>2, <1>3, <1>4, MembersAdd
  <1>6. intervals' = [intervals EXCEPT ![s] =
                         [c \in Cells |-> intervals[s][c] + Share(f, c)]]
    BY DEF CountPacket
  <1>7. SUFFICES ASSUME NEW i \in Slots, NEW c \in Cells
                 PROVE  intervals'[i][c] = Tally(Members(i)', Weight(c)')
    BY DEF TalliesExact
  <1>8. Weight(c)' = Weight(c)
    BY <1>2, Frozen
  <1>9. intervals[i][c] = Tally(Members(i), Weight(c))
    BY <1>1 DEF TalliesExact
  <1>10. CASE s = i
    <2>1. Members(i) \subseteq Wanted
      BY DEF Members
    <2>2. Weight(c)[n] = Share(f, c)
      BY <1>4, MembersFinite DEF Record
    <2>3. Tally(Members(i) \cup {n}, Weight(c)) = Tally(Members(i), Weight(c)) + Weight(c)[n]
      <3> HIDE DEF n
      <3>1. IsFiniteSet(Members(i)) /\ \A k \in Members(i) \cup {n} : Weight(c)[k] \in Nat
        BY <2>1, <1>4, MembersFinite
      <3> QED
        BY <3>1, <1>5, TallyAdd
    <2>4. intervals'[i][c] = intervals[i][c] + Share(f, c)
      BY <1>6, <1>10 DEF TypeOK
    <2> QED
      BY <1>5, <1>8, <1>9, <1>10, <2>2, <2>3, <2>4
  <1>11. CASE s # i
    <2>1. intervals'[i][c] = intervals[i][c]
      BY <1>6, <1>11 DEF TypeOK
    <2> QED
      BY <1>5, <1>8, <1>9, <1>11, <2>1
  <1> QED
    BY <1>10, <1>11

-------------------------------------------------------------------------------------
(* The index of a packet in the analysed range.                                      *)

LEMMA DivBounds ==
  ASSUME NEW a \in Nat, NEW b \in Nat \ {0}
  PROVE  /\ a \div b \in Nat
         /\ b * (a \div b) <= a
         /\ a < b * (a \div b) + b
  BY Z3

\* The quotient that a product of n by at most d has, divided by d, is at most n.
LEMMA ScaledIndex ==
  ASSUME NEW n \in Nat, NEW d \in Nat \ {0}, NEW x \in 0 .. d
  PROVE  (n * x) \div d \in 0 .. n
  <1>1. n * x \in Nat /\ n * d \in Nat
    OBVIOUS
  <1>2. n * x <= n * d
    BY Z3
  <1> DEFINE q == (n * x) \div d
  <1>3. q \in Nat /\ d * q <= n * x
    BY <1>1, DivBounds
  <1> HIDE DEF q
  <1>4. ~(q > n)
    <2> SUFFICES ASSUME q >= n + 1 PROVE FALSE
      BY <1>3
    <2>1. d * q >= d * (n + 1)
      BY <1>3, Z3
    <2>2. d * (n + 1) = n * d + d
      BY Z3
    <2> QED
      BY <1>1, <1>2, <1>3, <2>1, <2>2
  <1> QED
    BY <1>3, <1>4 DEF q

LEMMA NumIntervalsType == num_intervals \in Nat
  <1>1. (MaxTime - StartTime) * NumSubintervals * TicksPerSecond \in Nat
    BY TimeAssumption, SizeAssumption
  <1> QED
    BY <1>1, TimeAssumption, DivBounds DEF num_intervals

\* A time in the range is before its end.
LEMMA BeforeMax ==
  ASSUME NEW tau \in Int, InRange(tau)
  PROVE  tau < MaxTime * TicksPerSecond
  <1>1. CASE tau >= 0
    <2>1. tau \div TicksPerSecond < MaxTime /\ tau \div TicksPerSecond \in Nat
          /\ tau < TicksPerSecond * (tau \div TicksPerSecond) + TicksPerSecond
      <3>1. tau \in Nat /\ TicksPerSecond \in Nat \ {0}
        BY <1>1, TimeAssumption
      <3>2. /\ tau \div TicksPerSecond \in Nat
            /\ tau < TicksPerSecond * (tau \div TicksPerSecond) + TicksPerSecond
        BY <3>1, DivBounds
      <3> QED
        BY <1>1, <3>1, <3>2 DEF InRange, Sec, TruncDiv
    <2> DEFINE q == tau \div TicksPerSecond
    <2> HIDE DEF q
    <2>2. q + 1 <= MaxTime /\ q \in Nat /\ tau < TicksPerSecond * q + TicksPerSecond
      BY <2>1, TimeAssumption DEF q
    <2>3. TicksPerSecond * (q + 1) <= TicksPerSecond * MaxTime
      BY <2>2, TimeAssumption, Z3
    <2> QED
      BY <2>2, <2>3, TimeAssumption
  <1>2. CASE tau < 0
    BY <1>2, TimeAssumption
  <1> QED
    BY <1>1, <1>2

\* No packet in the range has the index of the last slot, when there is another.
LEMMA SlotBeforeLast ==
  ASSUME NEW tau \in Int, InRange(tau), num_intervals # 0
  PROVE  Slot(tau) # num_intervals
  <1> DEFINE n == num_intervals
             d == (MaxTime - StartTime) * TicksPerSecond
             x == tau - StartTime * TicksPerSecond
  <1>1. d \in Nat \ {0} /\ x \in Int /\ x < d /\ n \in Nat \ {0}
    <2>1. StartTime * TicksPerSecond \in Nat /\ MaxTime * TicksPerSecond \in Nat
          /\ d = MaxTime * TicksPerSecond - StartTime * TicksPerSecond
          /\ d \in Nat \ {0}
      BY TimeAssumption
    <2>2. tau < MaxTime * TicksPerSecond
      BY BeforeMax
    <2> QED
      BY <2>1, <2>2, NumIntervalsType
  <1>2. Slot(tau) = TruncDiv(n * x, d)
    BY DEF Slot
  <1> HIDE DEF n, d, x
  <1> DEFINE y == n * x
  <1>3. y \in Int /\ y < n * d
    <2>1. y \in Int
      BY <1>1
    <2>2. n * x < n * d
      BY <1>1, Z3
    <2> QED
      BY <2>1, <2>2
  <1>4. CASE y >= 0
    <2> DEFINE q == y \div d
    <2>1. q \in Nat /\ d * q <= y /\ TruncDiv(y, d) = q
      BY <1>1, <1>3, <1>4, DivBounds DEF TruncDiv
    <2> HIDE DEF q, y
    <2>2. d * q < n * d /\ q \in Nat
      <3>1. d * q \in Int /\ n * d \in Int
        BY <1>1, <2>1
      <3> QED
        BY <1>3, <2>1, <3>1
    <2>3. q # n
      BY <1>1, <2>2, Z3
    <2> QED
      BY <1>2, <2>1, <2>3 DEF n, y
  <1>5. CASE y < 0
    <2>1. (-y) \div d \in Nat
      BY <1>1, <1>3, <1>5, DivBounds
    <2>2. TruncDiv(y, d) = -((-y) \div d)
      BY <1>3, <1>5 DEF TruncDiv
    <2> QED
      BY <1>1, <1>2, <2>1, <2>2 DEF n, y
  <1> QED
    BY <1>3, <1>4, <1>5

\* A packet in range whose index is outside the vector is a packet of a time before
\* time 0, early by a sub-interval or more.
LEMMA StrayTime ==
  ASSUME NEW tau \in Int, InRange(tau), Slot(tau) \notin Slots
  PROVE  StartTime = 0 /\ num_intervals * tau <= -(MaxTime * TicksPerSecond)
  <1> DEFINE n == num_intervals
             d == (MaxTime - StartTime) * TicksPerSecond
             s == StartTime * TicksPerSecond
             x == tau - s
  <1>1. d \in Nat \ {0} /\ s \in Nat /\ x \in Int /\ d = MaxTime * TicksPerSecond - s
    BY TimeAssumption
  <1>2. n \in Nat
    BY NumIntervalsType
  <1>3. tau < MaxTime * TicksPerSecond
    BY BeforeMax
  <1>4. x < d
    BY <1>1, <1>3, TimeAssumption
  <1>5. x < 0
    <2> SUFFICES ASSUME x >= 0 PROVE FALSE
      BY <1>1
    <2>1. x \in 0 .. d
      BY <1>1, <1>4
    <2>2. n * x \in Nat
      BY <1>2, <2>1
    <2>3. Slot(tau) = (n * x) \div d
      BY <2>2 DEF Slot, TruncDiv
    <2>4. (n * x) \div d \in 0 .. n
      <3> HIDE DEF n, d, x
      <3> QED
        BY <1>1, <1>2, <2>1, ScaledIndex
    <2> QED
      BY <2>3, <2>4 DEF Slots
  <1>6. tau < 0
    <2> SUFFICES ASSUME tau >= 0 PROVE FALSE
      OBVIOUS
    <2>1. tau \div TicksPerSecond >= StartTime
      BY DEF InRange, Sec, TruncDiv
    <2>2. tau \div TicksPerSecond \in Nat /\ TicksPerSecond * (tau \div TicksPerSecond) <= tau
      BY TimeAssumption, DivBounds
    <2> DEFINE q == tau \div TicksPerSecond
    <2> HIDE DEF q
    <2>3. q >= StartTime /\ q \in Nat /\ TicksPerSecond * q <= tau
      BY <2>1, <2>2 DEF q
    <2>4. TicksPerSecond * q >= TicksPerSecond * StartTime
      BY <2>3, TimeAssumption, Z3
    <2> QED
      BY <1>5, <2>3, <2>4, TimeAssumption
  <1>7. StartTime = 0
    <2>1. -((-tau) \div TicksPerSecond) >= StartTime
      BY <1>6 DEF InRange, Sec, TruncDiv
    <2>2. (-tau) \div TicksPerSecond \in Nat
      BY <1>6, TimeAssumption, DivBounds
    <2> QED
      BY <2>1, <2>2, TimeAssumption
  <1>8. x = tau /\ d = MaxTime * TicksPerSecond
    BY <1>7, TimeAssumption
  <1>9. n * tau <= -d
    <2> SUFFICES ASSUME n * tau > -d PROVE FALSE
      BY <1>1, <1>2
    <2>1. n * tau <= 0 /\ n * tau \in Int
      BY <1>2, <1>6, Z3
    <2>2. Slot(tau) = TruncDiv(n * tau, d)
      BY <1>8 DEF Slot
    <2> DEFINE y == n * tau
    <2>3. y <= 0 /\ y \in Int /\ y > -d
      BY <2>1
    <2> HIDE DEF y, d
    <2>4. TruncDiv(y, d) = 0
      <3>1. CASE y = 0
        BY <3>1, <1>1, Z3 DEF TruncDiv
      <3>2. CASE y < 0
        <4>1. (-y) \div d \in Nat /\ d * ((-y) \div d) <= -y
          <5>1. -y \in Nat /\ d \in Nat \ {0}
            BY <3>2, <2>3, <1>1
          <5> QED
            BY <5>1, DivBounds
        <4> DEFINE q == (-y) \div d
        <4> HIDE DEF q
        <4>2. q \in Nat /\ d * q < d
          BY <4>1, <2>3, <1>1 DEF q
        <4>3. q = 0
          BY <4>2, <1>1, Z3
        <4> QED
          BY <4>3, <3>2, <2>3 DEF TruncDiv, q
      <3> QED
        BY <3>1, <3>2, <2>3
    <2> QED
      BY <1>2, <2>2, <2>4 DEF Slots, y
  <1> QED
    BY <1>7, <1>8, <1>9

-------------------------------------------------------------------------------------
(* The inductive invariant and the theorems.                                         *)

\* How the reading came to its end, when it did.
EndOK ==
  pc = "parsed" => \/ pos = Len(capture)
                   \/ pos \in TcpRecords /\ Sec(TimeOf(pos)) >= MaxTime

StrayOK ==
  pc = "stray" => /\ pos \in TcpRecords
                  /\ InRange(TimeOf(pos))
                  /\ Slot(TimeOf(pos)) \notin Slots

CaptureInv == TypeOK /\ ClockOK /\ TalliesExact /\ EndOK /\ StrayOK

LEMMA TimeType ==
  ASSUME TypeOK, ClockOK, NEW k \in TcpRecords, ~sec_first
  PROVE  TimeOf(k) \in Int
  <1>1. First \in TcpRecords
    BY DEF ClockOK
  <1>2. capture[First].ts \in Nat /\ capture[k].ts \in Nat
    BY <1>1, RecordType DEF TcpRecords, TypeOK
  <1> QED
    BY <1>2, TimeAssumption DEF TimeOf

LEMMA CaptureInvInit == Init => CaptureInv
  <1> SUFFICES ASSUME Init PROVE CaptureInv
    OBVIOUS
  <1>1. TypeOK
    BY DEF Init, TypeOK
  <1>2. \A k \in TcpRecords : k \in Int /\ k > 0
    BY DEF TcpRecords
  <1>3. ClockOK
    BY <1>2 DEF Init, ClockOK
  <1>4. \A i : Members(i) = {}
    BY <1>2 DEF Init, Members, Wanted
  <1>5. TalliesExact
    BY <1>4, TallyEmpty DEF Init, TalliesExact
  <1> QED
    BY <1>1, <1>3, <1>5 DEF Init, EndOK, StrayOK, CaptureInv

\* A step that reads a TCP packet and does not count it.
LEMMA NotCounted ==
  ASSUME CaptureInv, ReadTcp, ~(InRange(Time) /\ ~FromServer(Record.frame)),
         intervals' = intervals
  PROVE  TalliesExact'
  <1>1. pos + 1 \in TcpRecords /\ Time = TimeOf(pos + 1)
    BY ReadTcpClock DEF CaptureInv
  <1>2. pos + 1 \notin Wanted
    BY <1>1 DEF Wanted, Record
  <1>3. link' = link /\ capture' = capture /\ pos' = pos + 1 /\ pc # "stray"
    BY DEF ReadTcp, Reading
  <1>4. \A i : Members(i)' = Members(i)
    BY <1>2, <1>3, MembersSkip DEF CaptureInv
  <1> QED
    BY <1>3, <1>4, TalliesKept DEF CaptureInv

LEMMA CaptureInvNext ==
  ASSUME CaptureInv, TypeOK', [Next]_captureVars
  PROVE  CaptureInv'
  <1> SUFFICES ClockOK' /\ TalliesExact' /\ EndOK' /\ StrayOK'
    BY DEF CaptureInv
  <1> USE DEF CaptureInv
  \* Steps that read nothing.
  <1>1. ASSUME link' = link, capture' = capture, pos' = pos, sec_first' = sec_first,
               sec_offs' = sec_offs, intervals' = intervals, pc # "stray" \/ pc' = pc
        PROVE  ClockOK' /\ TalliesExact'
    <2>1. TcpRecords' = TcpRecords /\ First' = First /\ Wanted' = Wanted
          /\ (\A k : TimeOf(k)' = TimeOf(k)) /\ (\A c : Weight(c)' = Weight(c))
      BY <1>1, Frozen
    <2>2. ClockOK'
      BY <1>1, <2>1 DEF ClockOK
    <2>3. \A i : Members(i)' = Members(i)
      BY <1>1, <2>1 DEF Members, Slot
    <2>4. TalliesExact'
      BY <1>1, <2>1, <2>3 DEF TalliesExact, Tally, Units
    <2> QED
      BY <2>2, <2>4
  \* Steps that read a TCP packet.
  <1>2. ASSUME ReadTcp
        PROVE  /\ ClockOK' /\ pos + 1 \in TcpRecords /\ pos' \in TcpRecords'
               /\ TimeOf(pos)' = Time /\ Time \in Int
    <2>1. link' = link /\ capture' = capture /\ pos' = pos + 1 /\ ~sec_first'
      BY <1>2 DEF ReadTcp
    <2>2. pos + 1 \in TcpRecords /\ Time = TimeOf(pos + 1) /\ ClockOK'
      BY <1>2, ReadTcpClock
    <2>3. TcpRecords' = TcpRecords /\ \A k : TimeOf(k)' = TimeOf(k)
      BY <2>1, Frozen
    <2>4. First' \in TcpRecords' /\ First' = First
      BY <2>1, <2>2, Frozen DEF ClockOK
    <2>5. capture[First].ts \in Nat /\ capture[pos + 1].ts \in Nat
      BY <2>2, <2>3, <2>4, RecordType DEF TcpRecords, TypeOK
    <2>6. TimeOf(pos + 1) \in Int
      BY <2>5, TimeAssumption DEF TimeOf
    <2> QED
      BY <2>1, <2>2, <2>3, <2>6
  <1>3. CASE UNCHANGED captureVars
    <2>1. ClockOK' /\ TalliesExact'
      BY <1>3, <1>1
    <2>2. TcpRecords' = TcpRecords /\ \A k : TimeOf(k)' = TimeOf(k)
      BY <1>3, Frozen
    <2> QED
      BY <1>3, <2>1, <2>2 DEF EndOK, StrayOK, InRange, Slot
  <1>4. CASE OpenFails
    BY <1>4, <1>1 DEF OpenFails, EndOK, StrayOK
  <1>5. CASE OpenSucceeds
    BY <1>5, <1>1 DEF OpenSucceeds, EndOK, StrayOK
  <1>6. CASE SkipForeign
    <2>1. link' = link /\ capture' = capture /\ pos' = pos + 1 /\ pc # "stray"
          /\ intervals' = intervals /\ sec_first' = sec_first /\ sec_offs' = sec_offs
          /\ pc' = "reading"
      BY <1>6 DEF SkipForeign, Reading
    <2>2. pos + 1 \notin TcpRecords
      BY <1>6 DEF SkipForeign, TcpRecords, Record
    <2>3. TalliesExact'
      <3>1. \A i : Members(i)' = Members(i)
        BY <2>1, <2>2, MembersSkip DEF Wanted
      <3> QED
        BY <2>1, <3>1, TalliesKept
    <2>4. ClockOK'
      <3>1. TcpRecords' = TcpRecords /\ First' = First
        BY <2>1, Frozen
      <3>2. \A k \in TcpRecords : k \in Int /\ k # pos + 1
        BY <2>2 DEF TcpRecords
      <3> QED
        BY <2>1, <3>1, <3>2 DEF ClockOK, TypeOK
    <2> QED
      BY <2>1, <2>3, <2>4 DEF EndOK, StrayOK
  <1>7. CASE SkipEarly
    <2>1. ReadTcp /\ intervals' = intervals /\ pc' = "reading" /\ Sec(Time) < StartTime
      BY <1>7 DEF SkipEarly, ReadTcp, Reading
    <2>2. ~InRange(Time)
      BY <1>2, <2>1, TruncType, TimeAssumption DEF InRange, Sec
    <2> QED
      BY <1>2, <2>1, <2>2, NotCounted DEF EndOK, StrayOK
  <1>8. CASE StopAtEnd
    <2>1. ReadTcp /\ intervals' = intervals /\ pc' = "parsed" /\ Sec(Time) >= MaxTime
      BY <1>8 DEF StopAtEnd
    <2>2. ~InRange(Time)
      BY <1>2, <2>1, TruncType, TimeAssumption DEF InRange, Sec
    <2>3. TalliesExact'
      BY <2>1, <2>2, NotCounted
    <2>4. Sec(TimeOf(pos))' >= MaxTime
      BY <1>2, <2>1 DEF Sec
    <2>5. EndOK'
      BY <1>2, <2>1, <2>4 DEF EndOK
    <2> QED
      BY <1>2, <2>1, <2>3, <2>5 DEF StrayOK
  <1>9. CASE SkipServer
    <2>1. ReadTcp /\ intervals' = intervals /\ pc' = "reading" /\ FromServer(Record.frame)
      BY <1>9 DEF SkipServer, ReadTcp, Reading
    <2> QED
      BY <1>2, <2>1, NotCounted DEF EndOK, StrayOK
  <1>10. CASE CountPacket
    <2>1. ReadTcp /\ pc' = "reading"
      BY <1>10 DEF CountPacket, ReadTcp, Reading
    <2>2. TalliesExact'
      BY <1>10, TalliesCounted
    <2> QED
      BY <1>2, <2>1, <2>2 DEF EndOK, StrayOK
  <1>11. CASE Stray
    <2>1. ReadTcp /\ pc' = "stray" /\ InRange(Time) /\ Slot(Time) \notin Slots
      BY <1>11 DEF Stray
    <2>2. TalliesExact'
      BY <2>1 DEF TalliesExact
    <2>3. StrayOK'
      BY <1>2, <2>1 DEF StrayOK, InRange, Slot, Sec
    <2> QED
      BY <1>2, <2>1, <2>2, <2>3 DEF EndOK
  <1>12. CASE EndOfFile
    BY <1>12, <1>1 DEF EndOfFile, EndOK, StrayOK
  <1> QED
    BY <1>3, <1>4, <1>5, <1>6, <1>7, <1>8, <1>9, <1>10, <1>11, <1>12 DEF Next

LEMMA CaptureInvariant == Spec => []CaptureInv
  <1>1. TypeOK /\ TypeOK' /\ CaptureInv /\ [Next]_captureVars => CaptureInv'
    BY CaptureInvNext
  <1> QED
    BY <1>1, CaptureInvInit, TypeCorrect, PTL DEF Spec

\* Every counter is, at every moment, the total of the packets read that belong in it.
THEOREM CountersExact == Spec => []TalliesExact
  <1>1. CaptureInv => TalliesExact
    BY DEF CaptureInv
  <1> QED
    BY <1>1, CaptureInvariant, PTL

\* A packet in the range is missed only behind one that is later than the range.
THEOREM NothingLost == Spec => []LossOnlyAfterLateRecord
  <1>1. CaptureInv => LossOnlyAfterLateRecord
    <2> SUFFICES ASSUME CaptureInv, pc = "parsed", NEW k \in Wanted, k > pos
                 PROVE  \E m \in TcpRecords : m < k /\ m <= pos /\ Sec(TimeOf(m)) >= MaxTime
      BY DEF LossOnlyAfterLateRecord
    <2>1. k \in 1 .. Len(capture) /\ pos \in 0 .. Len(capture)
      BY DEF Wanted, TcpRecords, CaptureInv, TypeOK
    <2>2. pos # Len(capture)
      BY <2>1
    <2>3. pos \in TcpRecords /\ Sec(TimeOf(pos)) >= MaxTime
      BY <2>2 DEF CaptureInv, EndOK
    <2> QED
      BY <2>1, <2>3
  <1> QED
    BY <1>1, CaptureInvariant, PTL

\* The index leaves the vector only for a packet out of order before time 0.
THEOREM StrayIndex == Spec => []StrayOnlyBeforeTimeZero
  <1>1. CaptureInv => StrayOnlyBeforeTimeZero
    <2> SUFFICES ASSUME CaptureInv, pc = "stray"
                 PROVE  /\ StartTime = 0
                        /\ num_intervals * TimeOf(pos) <= -(MaxTime * TicksPerSecond)
      BY DEF StrayOnlyBeforeTimeZero
    <2>1. pos \in TcpRecords /\ InRange(TimeOf(pos)) /\ Slot(TimeOf(pos)) \notin Slots
      BY DEF CaptureInv, StrayOK
    <2>2. pos \in 0 .. Len(capture)
      BY DEF CaptureInv, TypeOK
    <2>3. ~sec_first
      <3>1. ~(pos > pos)
        BY <2>2
      <3> QED
        BY <2>1, <3>1 DEF CaptureInv, ClockOK
    <2>4. TimeOf(pos) \in Int
      BY <2>1, <2>3, TimeType DEF CaptureInv
    <2> QED
      BY <2>1, <2>4, StrayTime
  <1> QED
    BY <1>1, CaptureInvariant, PTL

-------------------------------------------------------------------------------------
(* The traces for the flow table.                                                    *)

\* A packet counts as one in its sub-interval.
LEMMA ShareOfOne ==
  ASSUME NEW f
  PROVE  <<"num_packets", 0>> \in Cells /\ Share(f, <<"num_packets", 0>>) = 1
  BY DEF Cells, Scalars, Share, Amounts

LEMMA TracesKept ==
  ASSUME TracesMatchCounters, UNCHANGED counters
  PROVE  TracesMatchCounters'
  BY DEF TracesMatchCounters

\* One more trace, one more packet of the sub-interval, one more packet in all.
LEMMA TracesCounted ==
  ASSUME TypeOK, TracesMatchCounters, CountPacket
  PROVE  TracesMatchCounters'
  <1> DEFINE s == Slot(Time)  c == <<"num_packets", 0>>  f == Record.frame
             v == [i \in Slots |-> Len(fsd_traces[i])]
             w == [i \in Slots |-> Len(fsd_traces'[i])]
  <1>1. s \in Slots
    BY DEF CountPacket
  <1>2. /\ intervals' = [intervals EXCEPT ![s] =
                           [d \in Cells |-> intervals[s][d] + Share(f, d)]]
        /\ fsd_traces' = [fsd_traces EXCEPT ![s] = Append(fsd_traces[s], Trace(f))]
        /\ t_total_packets' = t_total_packets + 1
    BY DEF CountPacket
  <1>3. c \in Cells /\ Share(f, c) = 1
    BY ShareOfOne
  <1>4. \A i \in Slots : Len(fsd_traces[i]) \in Nat
    <2>1. \A i \in Slots : fsd_traces[i] \in Seq([src : 0 .. NumAddr - 1, dst : 0 .. NumAddr - 1,
                                                  h : Nat, size : Nat \ {0}])
      BY DEF TypeOK
    <2> QED
      BY <2>1, LenProperties
  <1>5. Len(fsd_traces'[s]) = Len(fsd_traces[s]) + 1
    <2> DEFINE T == [src : 0 .. NumAddr - 1, dst : 0 .. NumAddr - 1,
                     h : Nat, size : Nat \ {0}]
    <2>1. fsd_traces[s] \in Seq(T) /\ Trace(f) \in T
      <3>1. pos + 1 \in 1 .. Len(capture) /\ capture \in Captures
        BY InputAssumption DEF CountPacket, ReadTcp, Reading, TypeOK
      <3>2. f \in Frame
        BY <3>1, RecordType DEF Record
      <3> QED
        BY <1>1, <3>2, TraceType DEF TypeOK
    <2>2. fsd_traces'[s] = Append(fsd_traces[s], Trace(f))
      BY <1>1, <1>2 DEF TypeOK
    <2> HIDE DEF T
    <2> QED
      BY <2>1, <2>2, AppendProperties
  <1>6. \A i \in Slots \ {s} : fsd_traces'[i] = fsd_traces[i] /\ intervals'[i] = intervals[i]
    BY <1>2 DEF TypeOK
  <1>7. intervals'[s][c] = intervals[s][c] + 1
    BY <1>1, <1>2, <1>3 DEF TypeOK
  <1>8. \A i \in Slots : Len(fsd_traces'[i]) = intervals'[i][c]
    BY <1>5, <1>6, <1>7 DEF TracesMatchCounters
  <1>9. Tally(Slots, w) = Tally(Slots, v) + 1
    <2>1. IsFiniteSet(Slots)
      BY NumIntervalsType, FS_Interval DEF Slots
    <2>2. (\A k \in Slots : v[k] \in Nat) /\ w[s] = v[s] + 1 /\ \A k \in Slots \ {s} : w[k] = v[k]
      BY <1>1, <1>4, <1>5, <1>6
    <2> HIDE DEF v, w, s
    <2> QED
      BY <1>1, <2>1, <2>2, TallyGrows
  <1>10. t_total_packets' = Tally(Slots, w)
    BY <1>2, <1>9 DEF TracesMatchCounters
  <1> QED
    BY <1>8, <1>10 DEF TracesMatchCounters

\* The flow table gets a trace for every packet that is counted, in its sub-interval, and
\* the totals agree.
THEOREM TracesAreCounted == Spec => []TracesMatchCounters
  <1>1. Init => TracesMatchCounters
    <2> SUFFICES ASSUME Init PROVE TracesMatchCounters
      OBVIOUS
    <2>1. \A i \in Slots : Len(fsd_traces[i]) = 0
      BY DEF Init
    <2>2. \A i \in Slots : intervals[i][<<"num_packets", 0>>] = 0
      BY ShareOfOne DEF Init
    <2>3. Tally(Slots, [i \in Slots |-> Len(fsd_traces[i])]) = 0
      BY <2>1, TallyZero
    <2> QED
      BY <2>1, <2>2, <2>3 DEF Init, TracesMatchCounters
  <1>2. TypeOK /\ TracesMatchCounters /\ [Next]_captureVars => TracesMatchCounters'
    <2> SUFFICES ASSUME TypeOK, TracesMatchCounters, [Next]_captureVars
                 PROVE  TracesMatchCounters'
      OBVIOUS
    <2>1. CountPacket \/ UNCHANGED counters
      BY DEF Next, OpenFails, OpenSucceeds, SkipForeign, SkipEarly, StopAtEnd, SkipServer,
             Stray, EndOfFile
    <2> QED
      BY <2>1, TracesKept, TracesCounted
  <1> QED
    BY <1>1, <1>2, TypeCorrect, PTL DEF Spec

\* The traces of a sub-interval are those of the records read that belong there.
TracesIn(i) == {fsd_traces[i][k] : k \in 1 .. Len(fsd_traces[i])}
TracesHeld ==
  pc # "stray" => \A i \in Slots : TracesIn(i) = {Trace(capture[m].frame) : m \in Members(i)}

\* A step that counts no packet reads none that belongs in a sub-interval.
LEMMA MembersKept ==
  ASSUME CaptureInv, [Next]_captureVars, ~CountPacket, pc' # "stray"
  PROVE  UNCHANGED <<link, capture, counters>> /\ \A i : Members(i)' = Members(i)
  <1>1. ASSUME UNCHANGED <<link, capture, pos>>
        PROVE  \A i : Members(i)' = Members(i)
    <2>1. Wanted' = Wanted /\ \A k : TimeOf(k)' = TimeOf(k)
      BY <1>1, Frozen
    <2> QED
      BY <1>1, <2>1 DEF Members, Slot
  <1>2. ASSUME ReadTcp
        PROVE  /\ pos + 1 \in TcpRecords /\ Time = TimeOf(pos + 1) /\ Time \in Int
               /\ UNCHANGED <<link, capture>> /\ pos' = pos + 1
    <2>1. /\ pos + 1 \in TcpRecords /\ Time = TimeOf(pos + 1) /\ ClockOK' /\ ~sec_first'
          /\ UNCHANGED <<link, capture>> /\ pos' = pos + 1
      BY <1>2, ReadTcpClock DEF ReadTcp, CaptureInv
    <2>2. First' = First /\ TcpRecords' = TcpRecords
      BY <2>1, Frozen
    <2>3. First \in TcpRecords
      BY <2>1, <2>2 DEF ClockOK
    <2>4. capture[First].ts \in Nat /\ capture[pos + 1].ts \in Nat
      BY <2>1, <2>3, RecordType DEF TcpRecords, CaptureInv, TypeOK
    <2> QED
      BY <2>1, <2>4, TimeAssumption DEF TimeOf
  <1>3. ASSUME ReadTcp, ~(InRange(Time) /\ ~FromServer(Record.frame))
        PROVE  \A i : Members(i)' = Members(i)
    <2>1. pos + 1 \notin Wanted
      BY <1>2, <1>3 DEF Wanted, Record
    <2> QED
      BY <1>2, <1>3, <2>1, MembersSkip DEF CaptureInv
  <1>4. CASE SkipForeign
    <2>1. UNCHANGED <<link, capture>> /\ pos' = pos + 1 /\ pos + 1 \notin Wanted
      BY <1>4 DEF SkipForeign, Wanted, TcpRecords, Record
    <2> QED
      BY <1>4, <2>1, MembersSkip DEF SkipForeign, CaptureInv
  <1>5. CASE SkipEarly \/ StopAtEnd
    <2>1. ReadTcp /\ (Sec(Time) < StartTime \/ Sec(Time) >= MaxTime)
      BY <1>5 DEF SkipEarly, StopAtEnd
    <2>2. ~InRange(Time)
      BY <1>2, <2>1, TruncType, TimeAssumption DEF InRange, Sec
    <2> QED
      BY <1>2, <1>3, <1>5, <2>1, <2>2 DEF SkipEarly, StopAtEnd
  <1>6. CASE SkipServer
    BY <1>2, <1>3, <1>6 DEF SkipServer
  <1>7. CASE OpenFails \/ OpenSucceeds \/ EndOfFile \/ UNCHANGED captureVars
    BY <1>1, <1>7 DEF OpenFails, OpenSucceeds, EndOfFile
  <1> QED
    BY <1>4, <1>5, <1>6, <1>7 DEF Next, Stray

\* One more trace, that of the record read.
LEMMA TraceAdded ==
  ASSUME CaptureInv, TracesHeld, CountPacket
  PROVE  TracesHeld'
  <1> DEFINE n == pos + 1  f == Record.frame  s == Slot(Time)
             T == [src : 0 .. NumAddr - 1, dst : 0 .. NumAddr - 1, h : Nat, size : Nat \ {0}]
  <1>1. /\ ReadTcp /\ pc = "reading" /\ TypeOK /\ s \in Slots
        /\ link' = link /\ capture' = capture /\ pos' = n
        /\ fsd_traces' = [fsd_traces EXCEPT ![s] = Append(fsd_traces[s], Trace(f))]
    BY DEF CountPacket, ReadTcp, Reading, CaptureInv
  <1>2. n \in Wanted /\ Time = TimeOf(n)
    BY <1>1, ReadTcpClock DEF CaptureInv, CountPacket, Wanted, Record
  <1>3. \A i : Members(i)' = IF s = i THEN Members(i) \cup {n} ELSE Members(i)
    BY <1>1, <1>2, MembersAdd
  <1>4. fsd_traces[s] \in Seq(T) /\ Trace(f) \in T
    <2>1. n \in 1 .. Len(capture) /\ capture \in Captures
      BY <1>1, <1>2 DEF Wanted, TcpRecords, TypeOK
    <2>2. f \in Frame
      BY <2>1, RecordType DEF Record
    <2> QED
      BY <1>1, <2>2, TraceType DEF TypeOK
  <1>5. ASSUME NEW i \in Slots
        PROVE  TracesIn(i)' = IF s = i THEN TracesIn(i) \cup {Trace(f)} ELSE TracesIn(i)
    <2>1. CASE s = i
      <3> DEFINE old == fsd_traces[i]  new == fsd_traces'[i]  x == Trace(f)
      <3>1. old \in Seq(T) /\ x \in T /\ new = Append(old, x)
        BY <1>1, <1>4, <2>1 DEF TypeOK
      <3>2. {new[k] : k \in 1 .. Len(new)} = {old[k] : k \in 1 .. Len(old)} \cup {x}
        <4> HIDE DEF old, new, x, T
        <4>1. /\ Len(old) \in Nat /\ Len(new) = Len(old) + 1 /\ new[Len(old) + 1] = x
              /\ \A k \in 1 .. Len(old) : new[k] = old[k]
          BY <3>1, LenProperties, AppendProperties
        <4>2. 1 .. Len(new) = (1 .. Len(old)) \cup {Len(old) + 1}
          BY <4>1
        <4> QED
          BY <4>1, <4>2
      <3> QED
        BY <2>1, <3>2 DEF TracesIn
    <2>2. CASE s # i
      BY <1>1, <2>2 DEF TracesIn, TypeOK
    <2> QED
      BY <2>1, <2>2
  <1>6. ASSUME NEW i \in Slots
        PROVE  TracesIn(i)' = {Trace(capture[m].frame) : m \in Members(i)'}
    <2>1. TracesIn(i) = {Trace(capture[m].frame) : m \in Members(i)}
      BY <1>1 DEF TracesHeld
    <2>2. f = capture[n].frame
      BY DEF Record
    <2> HIDE DEF f, n, s
    <2> QED
      BY <1>3, <1>5, <2>1, <2>2
  <1>7. Slots' = Slots /\ \A m : Trace(capture[m].frame)' = Trace(capture[m].frame)
    BY <1>1
  <1> QED
    BY <1>6, <1>7 DEF TracesHeld

\* The flow table gets the traces of just the packets that belong in each sub-interval.
LEMMA TracesAreHeld == Spec => []TracesHeld
  <1>1. Init => TracesHeld
    <2> SUFFICES ASSUME Init PROVE TracesHeld
      OBVIOUS
    <2>1. \A i : Members(i) = {}
      BY DEF Init, Members, Wanted, TcpRecords
    <2>2. \A i \in Slots : Len(fsd_traces[i]) = 0
      BY DEF Init
    <2> QED
      BY <2>1, <2>2 DEF TracesHeld, TracesIn
  <1>2. CaptureInv /\ TracesHeld /\ [Next]_captureVars => TracesHeld'
    <2> SUFFICES ASSUME CaptureInv, TracesHeld, [Next]_captureVars, pc' # "stray", ~CountPacket
                 PROVE  TracesHeld'
      BY TraceAdded DEF TracesHeld
    <2>1. UNCHANGED <<link, capture, counters>> /\ \A i : Members(i)' = Members(i)
      BY MembersKept
    <2>2. pc # "stray"
      BY DEF Next, OpenFails, OpenSucceeds, SkipForeign, SkipEarly, StopAtEnd, SkipServer,
             Stray, EndOfFile, CountPacket, ReadTcp, Reading
    <2>3. Slots' = Slots /\ \A m : Trace(capture[m].frame)' = Trace(capture[m].frame)
      BY <2>1
    <2>4. \A i : TracesIn(i)' = TracesIn(i)
      BY <2>1 DEF TracesIn
    <2> QED
      BY <2>1, <2>2, <2>3, <2>4 DEF TracesHeld
  <1> QED
    BY <1>1, <1>2, CaptureInvariant, PTL DEF Spec

\* The last slot of the vector stays empty: the index that a packet in the range is given
\* is a rounded one, and is never the number of sub-intervals.
THEOREM SpareSlotIsEmpty == Spec => []SpareSlotEmpty
  <1>1. Init => SpareSlotEmpty
    BY NumIntervalsType DEF Init, SpareSlotEmpty, Slots
  <1>2. CaptureInv /\ SpareSlotEmpty /\ [Next]_captureVars => SpareSlotEmpty'
    <2> SUFFICES ASSUME CaptureInv, SpareSlotEmpty, [Next]_captureVars, num_intervals # 0
                 PROVE  fsd_traces'[num_intervals] = << >>
      BY DEF SpareSlotEmpty
    <2>1. CountPacket \/ UNCHANGED counters
      BY DEF Next, OpenFails, OpenSucceeds, SkipForeign, SkipEarly, StopAtEnd, SkipServer,
             Stray, EndOfFile
    <2>2. CASE CountPacket
      <3>1. pos + 1 \in TcpRecords /\ Time = TimeOf(pos + 1) /\ ClockOK' /\ ~sec_first'
            /\ First' = First /\ TcpRecords' = TcpRecords
        BY <2>2, ReadTcpClock, Frozen DEF CountPacket, ReadTcp, CaptureInv
      <3>2. First \in TcpRecords
        BY <3>1 DEF ClockOK
      <3>3. capture[First].ts \in Nat /\ capture[pos + 1].ts \in Nat
        BY <3>1, <3>2, RecordType DEF TcpRecords, CaptureInv, TypeOK
      <3>4. Time \in Int
        BY <3>1, <3>3, TimeAssumption DEF TimeOf
      <3>5. Slot(Time) # num_intervals
        BY <2>2, <3>4, SlotBeforeLast DEF CountPacket
      <3>6. num_intervals \in Slots
        BY NumIntervalsType DEF Slots
      <3> QED
        BY <2>2, <3>5, <3>6 DEF CountPacket, SpareSlotEmpty, CaptureInv, TypeOK
    <2>3. CASE UNCHANGED counters
      BY <2>3 DEF SpareSlotEmpty
    <2> QED
      BY <2>1, <2>2, <2>3
  <1> QED
    BY <1>1, <1>2, CaptureInvariant, PTL DEF Spec

-------------------------------------------------------------------------------------
(* The counters of a sub-interval.                                                    *)

\* The cells of a row.
LEMMA CellsOfRow ==
  /\ IsFiniteSet(Cells) /\ Fields \subseteq Cells
  /\ \A h \in Histograms : \A b \in 0 .. NumPorts - 1 : <<h, b>> \in Cells
  /\ \A c \in Cells : c[1] \notin Scalars =>
       /\ c = <<c[1], c[2]>> /\ c[1] \in Histograms \cup {"num_packet_sizes"}
  <1>1. IsFiniteSet(Scalars) /\ IsFiniteSet(Histograms)
    BY FourFinite DEF Scalars, Histograms
  <1>2. IsFiniteSet(Cells)
    BY <1>1, CellsFinite, CellAssumption DEF Cells
  <1>3. Fields \subseteq Cells
    BY DEF Fields, Cells, Scalars
  <1> QED
    BY <1>2, <1>3 DEF Cells, Scalars

\* What one packet adds is consistent.
LEMMA ShareConsistent ==
  ASSUME NEW f \in Frame
  PROVE  LET d == [c \in Cells |-> Share(f, c)]
         IN  d \in [Cells -> Nat] /\ Consistent(d, ByteMode, TRUE)
  <1> DEFINE d == [c \in Cells |-> Share(f, c)]
  <1>1. d \in [Cells -> Nat]
    BY ShareType
  <1>2. psize(f) \in Nat /\ f.len \in Nat \ {0}
    BY DEF psize, Frame
  <1>3. \A c \in Cells : c[1] \notin Scalars =>
          d[c] = IF Bucket(f)[c[1]] = c[2]
                   THEN IF c[1] = "num_packet_sizes" THEN 1 ELSE psize(f) ELSE 0
    BY DEF Share
  <1>4. \A h \in Histograms : RowSum(d, h) = psize(f)
    <2> SUFFICES ASSUME NEW h \in Histograms PROVE RowSum(d, h) = psize(f)
      OBVIOUS
    <2> DEFINE b == Bucket(f)[h]  x == <<h, b>>
    <2>1. b \in 0 .. NumPorts - 1 /\ h \notin Scalars /\ h # "num_packet_sizes"
      BY BucketType DEF Histograms, Scalars
    <2>2. x \in Cells /\ x[1] = h /\ x[2] = b
      BY <2>1, CellsOfRow
    <2>3. d[x] = psize(f)
      BY <1>3, <2>1, <2>2
    <2>4. \A c \in Cells : c[1] = h /\ c # x => d[c] = 0
      BY <1>3, <2>1, CellsOfRow
    <2>5. DOMAIN d = Cells
      OBVIOUS
    <2> HIDE DEF d, x
    <2> QED
      BY <1>2, <2>2, <2>3, <2>4, <2>5, RowSumOne
  <1>5. RowSum(d, "num_packet_sizes") <= 1
    <2> DEFINE h == "num_packet_sizes"  x == <<h, f.len>>
    <2>1. Bucket(f)[h] = f.len /\ h \notin Scalars
      BY DEF Bucket, Scalars
    <2>2. \A c \in Cells : c[1] = h => d[c] = IF c = x THEN 1 ELSE 0
      BY <1>3, <2>1, CellsOfRow
    <2>3. DOMAIN d = Cells
      OBVIOUS
    <2>4. CASE x \in Cells
      <3>1. RowSum(d, h) = d[x] /\ d[x] = 1
        <4>1. x[1] = h
          OBVIOUS
        <4> HIDE DEF d, x
        <4> QED
          BY <2>2, <2>3, <2>4, <4>1, RowSumOne
      <3> QED
        BY <3>1
    <2>5. CASE x \notin Cells
      <3>1. RowSum(d, h) = 0
        <4> HIDE DEF d, x
        <4> QED
          BY <2>2, <2>3, <2>5, RowSumNone
      <3> QED
        BY <3>1
    <2> QED
      BY <2>4, <2>5
  <1>6. /\ d[<<"num_packets", 0>>] = 1 /\ d[<<"num_bytes", 0>>] = f.len
        /\ d[<<"num_df", 0>>] = IF f.df THEN 1 ELSE 0
    BY CellsOfRow DEF Fields, Share, Scalars, Amounts
  <1>7. psize(f) = IF ByteMode THEN f.len ELSE 1
    BY DEF psize
  <1>8. \A h \in {"num_src_ips", "num_dst_ips", "num_src_ports",
          "num_dst_ports"} : h \in Histograms
    BY DEF Histograms
  <1> HIDE DEF d
  <1>9. Consistent(d, ByteMode, TRUE)
    BY <1>2, <1>4, <1>5, <1>6, <1>7, <1>8 DEF Consistent
  <1> QED
    BY <1>1, <1>9 DEF d

\* The counters of a sub-interval agree with each other: they are a sum of what the packets
\* add, each of which has its element in every histogram.
THEOREM CountersAgree == Spec => []RowsConsistent
  <1>0. IsFiniteSet(Cells) /\ Fields \subseteq Cells
    BY CellsOfRow
  <1>1. Init => RowsConsistent
    <2> SUFFICES ASSUME Init, NEW i \in Slots PROVE Consistent(intervals[i], ByteMode, TRUE)
      BY DEF RowsConsistent
    <2> DEFINE u == intervals[i]
    <2>1. DOMAIN u = Cells /\ \A c \in Cells : u[c] = 0
      BY DEF Init
    <2> HIDE DEF u
    <2>2. Consistent(u, ByteMode, TRUE)
      BY <1>0, <2>1, NoneConsistent
    <2> QED
      BY <2>2 DEF u
  <1>2. TypeOK /\ RowsConsistent /\ [Next]_captureVars => RowsConsistent'
    <2> SUFFICES ASSUME TypeOK, RowsConsistent, [Next]_captureVars
                 PROVE  RowsConsistent'
      OBVIOUS
    <2>1. CountPacket \/ UNCHANGED intervals
      BY DEF Next, OpenFails, OpenSucceeds, SkipForeign, SkipEarly, StopAtEnd, SkipServer,
             Stray, EndOfFile
    <2>2. CASE CountPacket
      <3> DEFINE i == Slot(Time)  f == Record.frame  u == intervals[i]
                 v == [c \in Cells |-> Share(f, c)]  w == [c \in Cells |-> u[c] + Share(f, c)]
      <3>1. i \in Slots /\ intervals' = [intervals EXCEPT ![i] = w]
        BY <2>2 DEF CountPacket
      <3>2. f \in Frame
        <4>1. pos + 1 \in 1 .. Len(capture) /\ capture \in Captures
          BY <2>2, InputAssumption DEF CountPacket, ReadTcp, Reading, TypeOK
        <4> QED
          BY <4>1, RecordType DEF Record
      <3>3. v \in [Cells -> Nat] /\ Consistent(v, ByteMode, TRUE)
        BY <3>2, ShareConsistent
      <3>4. u \in [Cells -> Nat] /\ Consistent(u, ByteMode, TRUE)
        BY <3>1 DEF TypeOK, RowsConsistent
      <3>5. DOMAIN w = Cells /\ \A c \in Cells : w[c] = u[c] + v[c]
        OBVIOUS
      <3>6. Consistent(w, ByteMode, TRUE)
        <4> HIDE DEF u, v, w
        <4>1. TRUE \in BOOLEAN /\ ByteMode \in BOOLEAN
          BY InputAssumption
        <4> QED
          BY <1>0, <3>3, <3>4, <3>5, <4>1, SumConsistent
      <3>7. \A n \in Slots : intervals'[n] = IF n = i THEN w ELSE intervals[n]
        <4> HIDE DEF w, i
        <4> QED
          BY <3>1 DEF TypeOK
      <3> HIDE DEF w, i
      <3> QED
        BY <3>6, <3>7 DEF RowsConsistent
    <2>3. CASE UNCHANGED intervals
      BY <2>3 DEF RowsConsistent
    <2> QED
      BY <2>1, <2>2, <2>3
  <1> QED
    BY <1>1, <1>2, TypeCorrect, PTL DEF Spec

-------------------------------------------------------------------------------------
(* The program: from here on, all variables belong to it.                              *)

USE DEF vars, slidingVars, flowVars

-------------------------------------------------------------------------------------
(* The parts.                                                                        *)

\* The constants of the parts are as the parts want them.
LEMMA PartsAssumptions ==
  /\ WP!WindowAssumption /\ WP!CellAssumption /\ FP!FlowAssumption
  /\ num_intervals \in Nat \ {0} /\ num_intervals - NumSubintervals \in Nat
  BY ProgramAssumption, NumIntervalsType, SizeAssumption, InputAssumption, AddrAssumption,
     CellAssumption
     DEF WP!WindowAssumption, WP!CellAssumption, FP!FlowAssumption

\* The copies that the instances make of a definition say the same.
LEMMA SameTally ==
  /\ \A S, w : W!Tally(S, w) = Tally(S, w)
  /\ \A S, w : WP!Tally(S, w) = Tally(S, w)
  /\ \A S, w : FP!Tally(S, w) = Tally(S, w)
  /\ \A S, w : Report!Tally(S, w) = Tally(S, w)
  /\ \A S : FP!Cardinality(S) = Cardinality(S)
  /\ \A S : F!Cardinality(S) = FP!Cardinality(S)
  /\ \A S, w : F!Tally(S, w) = FP!Tally(S, w)
  <1>1. \A S : W!Cardinality(S) = Cardinality(S)
    BY DEF W!Cardinality, Cardinality
  <1>2. \A S : WP!Cardinality(S) = Cardinality(S)
    BY DEF WP!Cardinality, Cardinality
  <1>3. \A S : FP!Cardinality(S) = Cardinality(S)
    BY DEF FP!Cardinality, Cardinality
  <1>4. \A S : Report!Cardinality(S) = Cardinality(S)
    BY DEF Report!Cardinality, Cardinality
  <1>5. \A S : F!Cardinality(S) = FP!Cardinality(S)
    BY DEF F!Cardinality, FP!Cardinality
  <1>6. /\ \A S, w : W!Tally(S, w) = Tally(S, w)
        /\ \A S, w : WP!Tally(S, w) = Tally(S, w)
    BY <1>1, <1>2 DEF W!Tally, WP!Tally, Tally, W!Units, WP!Units, Units
  <1>7. /\ \A S, w : FP!Tally(S, w) = Tally(S, w)
        /\ \A S, w : Report!Tally(S, w) = Tally(S, w)
    BY <1>3, <1>4 DEF FP!Tally, Report!Tally, Tally, FP!Units, Report!Units, Units
  <1>8. \A S, w : F!Tally(S, w) = FP!Tally(S, w)
    BY <1>5 DEF F!Tally, FP!Tally, F!Units, FP!Units
  <1> QED
    BY <1>3, <1>5, <1>6, <1>7, <1>8

LEMMA SameFlowTable ==
  /\ F!InitFlows => FP!InitFlows
  /\ F!NextFlows => FP!NextFlows
  <1>1. /\ F!Slots = FP!Slots /\ F!Addr = FP!Addr /\ F!FlowIds = FP!FlowIds
        /\ F!NoTerms = FP!NoTerms /\ F!WindowStart = FP!WindowStart
        /\ F!NextTurn = FP!NextTurn
        /\ \A n : F!Moved(n) = FP!Moved(n)
    BY DEF F!Slots, FP!Slots, F!Addr, FP!Addr, F!FlowIds, FP!FlowIds, F!NoTerms, FP!NoTerms,
           F!WindowStart, FP!WindowStart, F!Moved, FP!Moved, F!NextTurn, FP!NextTurn
  <1>2. F!Marked = FP!Marked /\ F!Beyond = FP!Beyond
    BY <1>1 DEF F!Marked, FP!Marked, F!Beyond, FP!Beyond
  <1>3. \A p : F!Rank(p) = FP!Rank(p)
    BY <1>2, SameTally DEF F!Rank, FP!Rank, F!Before, FP!Before, F!Upper, FP!Upper
  <1>4. \A a, b : F!FlowOf(a, b) = FP!FlowOf(a, b)
    BY <1>2, <1>3 DEF F!FlowOf, FP!FlowOf
  <1>5. /\ F!FlowTerms = FP!FlowTerms
        /\ \A i, n : F!Carried(i, n) = FP!Carried(i, n)
        /\ \A S, n : F!Packets(S, n) = FP!Packets(S, n)
    BY <1>1, SameTally
       DEF F!FlowTerms, FP!FlowTerms, F!Carried, FP!Carried, F!Packets, FP!Packets
  <1>6. F!InitFlows => FP!InitFlows
    BY <1>1 DEF F!InitFlows, FP!InitFlows
  <1>7. F!AssignFlowIds => FP!AssignFlowIds
    BY <1>1, <1>2, <1>4, SameTally DEF F!AssignFlowIds, FP!AssignFlowIds, F!Upper, FP!Upper
  <1>8. F!CountFlows => FP!CountFlows
    BY <1>1, <1>2, <1>5, SameTally DEF F!CountFlows, FP!CountFlows
  <1>9. F!SizeFirstWindow => FP!SizeFirstWindow
    BY <1>1, <1>5 DEF F!SizeFirstWindow, FP!SizeFirstWindow
  <1>10. F!SlideFlows => FP!SlideFlows
    BY <1>1, <1>5 DEF F!SlideFlows, FP!SlideFlows
  <1>11. (F!ReadOutside => FP!ReadOutside) /\ (F!FlowsDone => FP!FlowsDone)
    BY DEF F!ReadOutside, FP!ReadOutside, F!FlowsDone, FP!FlowsDone
  <1> QED
    BY <1>6, <1>7, <1>8, <1>9, <1>10, <1>11 DEF F!NextFlows, FP!NextFlows

LEMMA SameWindow ==
  /\ W!InitWindow => WP!InitWindow
  /\ W!Prepare => WP!NextWindow
  /\ W!Slide => WP!NextWindow
  /\ W!PrintResult => WP!NextWindow
  /\ \A n, c : WP!WindowSum(n, c) = W!WindowSum(n, c)
  <1>1. /\ W!Slots = WP!Slots /\ W!Blank = WP!Blank /\ W!Scalars = WP!Scalars
        /\ W!Histograms = WP!Histograms /\ W!Vectors = WP!Vectors
        /\ W!Entering = WP!Entering
        /\ (\A n : W!Window(n) = WP!Window(n)) /\ (\A c : W!Column(c) = WP!Column(c))
        /\ (\A x : W!Wrap(x) = WP!Wrap(x)) /\ W!Cells = WP!Cells
    BY DEF W!Slots, WP!Slots, W!Blank, WP!Blank, W!Scalars, WP!Scalars, W!Histograms,
           WP!Histograms, W!Vectors, WP!Vectors, W!Entering, WP!Entering, W!Window, WP!Window,
           W!Column, WP!Column, W!Wrap, WP!Wrap, W!Cells, WP!Cells
  <1>2. \A n, c : WP!WindowSum(n, c) = W!WindowSum(n, c)
    BY <1>1, SameTally DEF W!WindowSum, WP!WindowSum
  <1>3. \A h : W!Elements(h) = WP!Elements(h)
    BY <1>1 DEF W!Elements, WP!Elements
  <1>4. /\ \A h : W!ElementTerms(h) = WP!ElementTerms(h)
        /\ \A h : W!SubintervalTerms(h) = WP!SubintervalTerms(h)
    BY <1>1, <1>2, <1>3
       DEF W!ElementTerms, WP!ElementTerms, W!SubintervalTerms, WP!SubintervalTerms,
           W!Terms, WP!Terms, W!NoTerms, WP!NoTerms
  <1>5. W!Evaluated = WP!Evaluated
    BY <1>1, <1>4 DEF W!Evaluated, WP!Evaluated
  <1>6. W!InitWindow => WP!InitWindow
    BY <1>1 DEF W!InitWindow, WP!InitWindow
  <1>7. W!Prepare => WP!Prepare
    BY <1>1, <1>2 DEF W!Prepare, WP!Prepare
  <1>8. W!Slide => WP!Slide
    BY <1>1, <1>5 DEF W!Slide, WP!Slide
  <1>9. W!PrintResult => WP!PrintResult
    BY <1>1 DEF W!PrintResult, WP!PrintResult
  <1> QED
    BY <1>2, <1>6, <1>7, <1>8, <1>9 DEF WP!NextWindow

-------------------------------------------------------------------------------------
(* What is collected, and what the reports make of it.                               *)

\* The records that were counted so far, those of the window at n, and what they add to a
\* cell; the same of one sub-interval.
Collected == {m \in Wanted : m <= pos /\ Slot(TimeOf(m)) \in Slots}
Held(n) == {k \in Collected : Slot(TimeOf(k)) \in n .. n + NumSubintervals - 1}
HeldAmount(n, c) == Tally(Held(n), Weight(c))
AmountAt(i, c) == Tally(Members(i), Weight(c))

\* A report, in these terms.
Busy(n) == {Slot(TimeOf(k)) : k \in Held(n)}
Hit(n, h) == {b \in Elements(h) : HeldAmount(n, <<h, b>>) > 0}
Unit(h) == IF ByteMode /\ h \in Histograms THEN "num_bytes" ELSE "num_packets"
TimeShares(n, f) ==
  [terms |-> [i \in Busy(n) |-> AmountAt(i, <<f, 0>>)], over |-> HeldAmount(n, <<f, 0>>)]
ElementShares(n, h) ==
  [terms |-> [b \in Hit(n, h) |-> HeldAmount(n, <<h, b>>)],
   over |-> HeldAmount(n, <<Unit(h), 0>>)]
Kinds == Histograms \cup {"num_packet_sizes", "num_packets", "num_bytes", "num_df"}
ReportOf(n) ==
  [ ent        |-> [h \in Kinds |-> IF h \in Scalars THEN TimeShares(n, h)
                                                     ELSE ElementShares(n, h)],
    tot_pktnum |-> HeldAmount(n, <<"num_packets", 0>>),
    tot_syn    |-> HeldAmount(n, <<"num_syn", 0>>) ]

\* The positions of a report in the range.
Positions == 0 .. num_intervals - NumSubintervals

LEMMA CellFacts ==
  /\ \A f \in Scalars : <<f, 0>> \in Cells
  /\ \A h : \A b \in Elements(h) : <<h, b>> \in Cells
  /\ \A h \in Histograms : Elements(h) = 0 .. NumPorts - 1
  /\ Elements("num_packet_sizes") = 0 .. NumSizes - 1
  /\ \A h \in Kinds : h \notin Scalars => Unit(h) \in Scalars
  /\ \A h \in Kinds : h \notin Scalars <=> h \in Histograms \cup {"num_packet_sizes"}
  <1>1. \A f \in Scalars : <<f, 0>> \in Cells
    BY DEF Cells
  <1>2. \A c \in Cells : c = <<c[1], c[2]>>
    BY DEF Cells
  <1>3. \A h : \A b \in Elements(h) : <<h, b>> \in Cells
    <2> SUFFICES ASSUME NEW h, NEW b \in Elements(h) PROVE <<h, b>> \in Cells
      OBVIOUS
    <2>1. PICK c \in Cells : c[1] = h /\ b = c[2]
      BY DEF Elements
    <2> QED
      BY <1>2, <2>1
  <1>4. \A h \in Histograms : Elements(h) = 0 .. NumPorts - 1
    <2> SUFFICES ASSUME NEW h \in Histograms PROVE Elements(h) = 0 .. NumPorts - 1
      OBVIOUS
    <2>1. \A b \in Elements(h) : b \in 0 .. NumPorts - 1
      BY <1>3 DEF Cells, Histograms, Scalars
    <2>2. \A b \in 0 .. NumPorts - 1 : b \in Elements(h)
      <3> SUFFICES ASSUME NEW b \in 0 .. NumPorts - 1 PROVE b \in Elements(h)
        OBVIOUS
      <3>1. <<h, b>> \in Cells /\ <<h, b>>[1] = h /\ <<h, b>>[2] = b
        BY DEF Cells
      <3> QED
        BY <3>1 DEF Elements
    <2> QED
      BY <2>1, <2>2
  <1>5. Elements("num_packet_sizes") = 0 .. NumSizes - 1
    <2> DEFINE h == "num_packet_sizes"
    <2>1. \A b \in Elements(h) : b \in 0 .. NumSizes - 1
      <3> SUFFICES ASSUME NEW b \in Elements(h) PROVE b \in 0 .. NumSizes - 1
        OBVIOUS
      <3>1. <<"num_packet_sizes", b>> \in Cells
        BY <1>3
      <3> QED
        BY <3>1 DEF Cells, Histograms, Scalars
    <2>2. \A b \in 0 .. NumSizes - 1 : b \in Elements(h)
      <3> SUFFICES ASSUME NEW b \in 0 .. NumSizes - 1 PROVE b \in Elements(h)
        OBVIOUS
      <3>1. <<h, b>> \in Cells /\ <<h, b>>[1] = h /\ <<h, b>>[2] = b
        BY DEF Cells
      <3> QED
        BY <3>1 DEF Elements
    <2> QED
      BY <2>1, <2>2
  <1>6. \A h \in Kinds : h \notin Scalars => Unit(h) \in Scalars
    BY DEF Unit, Scalars
  <1>7. \A h \in Kinds : h \notin Scalars <=> h \in Histograms \cup {"num_packet_sizes"}
    BY DEF Kinds, Scalars, Histograms
  <1> QED
    BY <1>1, <1>3, <1>4, <1>5, <1>6, <1>7

LEMMA HeldFacts ==
  ASSUME TypeOK
  PROVE  /\ Collected \subseteq 1 .. Len(capture) /\ IsFiniteSet(Collected)
         /\ \A n : Held(n) \subseteq Collected /\ IsFiniteSet(Held(n))
         /\ \A i : Members(i) \subseteq Wanted /\ IsFiniteSet(Members(i))
         /\ \A k \in Wanted : capture[k].frame \in Frame
         /\ \A k \in Wanted : \A c : Weight(c)[k] = Share(capture[k].frame, c)
         /\ \A k \in Wanted : \A c \in Cells : Weight(c)[k] \in Nat
         /\ \A n : \A c \in Cells : HeldAmount(n, c) \in Nat
         /\ \A i : \A c \in Cells : AmountAt(i, c) \in Nat
  <1>1. Wanted \subseteq 1 .. Len(capture) /\ capture \in Captures /\ pos \in Nat
    BY InputAssumption DEF TypeOK, Wanted, TcpRecords
  <1>2. \A k \in Wanted : capture[k].frame \in Frame
    BY <1>1, RecordType
  <1>3. \A k \in Wanted : \A c : Weight(c)[k] = Share(capture[k].frame, c)
    BY <1>1 DEF Weight
  <1>4. \A k \in Wanted : \A c \in Cells : Weight(c)[k] \in Nat
    BY <1>2, <1>3, ShareType
  <1>5. Collected \subseteq Wanted /\ (\A n : Held(n) \subseteq Collected)
        /\ \A i : Members(i) \subseteq Wanted
    BY DEF Collected, Held, Members
  <1>6. IsFiniteSet(Wanted)
    <2>1. Len(capture) \in Nat
      BY <1>1, InputAssumption
    <2>2. IsFiniteSet(1 .. Len(capture))
      BY <2>1, FS_Interval
    <2> QED
      BY <1>1, <2>2, FS_Subset
  <1>7. /\ IsFiniteSet(Collected) /\ (\A n : IsFiniteSet(Held(n)))
        /\ \A i : IsFiniteSet(Members(i))
    <2>1. IsFiniteSet(Collected)
      BY <1>5, <1>6, FS_Subset
    <2> QED
      BY <1>5, <1>6, <2>1, FS_Subset
  <1>8. \A n : \A c \in Cells : HeldAmount(n, c) \in Nat
    <2> SUFFICES ASSUME NEW n, NEW c \in Cells PROVE HeldAmount(n, c) \in Nat
      OBVIOUS
    <2>1. \A k \in Held(n) : Weight(c)[k] \in Nat
      BY <1>4, <1>5
    <2> QED
      BY <1>7, <2>1, TallyType DEF HeldAmount
  <1>9. \A i : \A c \in Cells : AmountAt(i, c) \in Nat
    <2> SUFFICES ASSUME NEW i, NEW c \in Cells PROVE AmountAt(i, c) \in Nat
      OBVIOUS
    <2>1. \A k \in Members(i) : Weight(c)[k] \in Nat
      BY <1>4, <1>5
    <2> QED
      BY <1>7, <2>1, TallyType DEF AmountAt
  <1> QED
    BY <1>1, <1>2, <1>3, <1>4, <1>5, <1>7, <1>8, <1>9

\* The packets of EntropyReport, as the refinement maps them.
PacketOf(k) == [slot |-> Slot(TimeOf(k)),
                adds |-> [c \in Cells |-> Share(capture[k].frame, c)]]

\* The promised report is this one.
LEMMA ReportIs ==
  ASSUME TypeOK, NEW n \in Positions
  PROVE  Report!Report(n) = ReportOf(n)
  <1> DEFINE mapped == [k \in Collected |-> PacketOf(k)]
  <1>1. /\ DOMAIN mapped = Collected
        /\ \A k \in Collected : mapped[k].slot = Slot(TimeOf(k))
        /\ \A k \in Collected : \A c \in Cells : mapped[k].adds[c] = Share(capture[k].frame, c)
    BY DEF PacketOf
  <1>2. Report!InWindow(n) = Held(n)
    <2>1. Report!InWindow(n) = {k \in DOMAIN mapped :
                                  mapped[k].slot \in n .. n + NumSubintervals - 1}
      BY DEF Report!InWindow, Collected, PacketOf
    <2> HIDE DEF mapped
    <2> QED
      BY <1>1, <2>1 DEF Held
  <1>3. \A c \in Cells : Report!Amount(n, c) = HeldAmount(n, c)
    <2> SUFFICES ASSUME NEW c \in Cells PROVE Report!Amount(n, c) = HeldAmount(n, c)
      OBVIOUS
    <2>1. Report!Amount(n, c) = Tally(Held(n), [k \in DOMAIN mapped |-> mapped[k].adds[c]])
      BY <1>2, SameTally DEF Report!Amount, Collected, PacketOf
    <2> HIDE DEF mapped
    <2>2. \A k \in Held(n) :
            [m \in DOMAIN mapped |-> mapped[m].adds[c]][k] = Weight(c)[k]
      BY <1>1, HeldFacts DEF Collected
    <2> QED
      BY <2>1, <2>2, TallySame DEF HeldAmount
  <1>4. \A i \in Slots : \A c \in Cells : Report!AmountIn(i, c) = AmountAt(i, c)
    <2> SUFFICES ASSUME NEW i \in Slots, NEW c \in Cells
                 PROVE  Report!AmountIn(i, c) = AmountAt(i, c)
      OBVIOUS
    <2>1. Report!AmountIn(i, c) = Tally({k \in DOMAIN mapped : mapped[k].slot = i},
                                        [k \in DOMAIN mapped |-> mapped[k].adds[c]])
      BY SameTally DEF Report!AmountIn, Collected, PacketOf
    <2> HIDE DEF mapped
    <2>2. {k \in DOMAIN mapped : mapped[k].slot = i} = Members(i)
      BY <1>1 DEF Members, Collected
    <2>3. \A k \in Members(i) :
            [m \in DOMAIN mapped |-> mapped[m].adds[c]][k] = Weight(c)[k]
      BY <1>1, <2>2, HeldFacts DEF Collected
    <2> QED
      <3> DEFINE v == [m \in DOMAIN mapped |-> mapped[m].adds[c]]
      <3>1. Report!AmountIn(i, c) = Tally(Members(i), v)
        BY <2>1, <2>2
      <3>2. \A k \in Members(i) : v[k] = Weight(c)[k]
        BY <2>3
      <3> HIDE DEF v
      <3> QED
        BY <3>1, <3>2, TallySame DEF AmountAt
  <1>5. {mapped[k].slot : k \in Report!InWindow(n)} = Busy(n)
    BY <1>1, <1>2 DEF Busy, Held
  <1>6. \A i \in Busy(n) : i \in Slots
    BY DEF Busy, Held, Collected
  <1>7. /\ Report!Scalars = Scalars /\ Report!Histograms = Histograms
        /\ \A h : Report!Elements(h) = Elements(h)
    BY DEF Report!Scalars, Scalars, Report!Histograms, Histograms, Report!Elements, Elements,
           Report!Cells, Cells
  <1>8. \A f \in Scalars : Report!OverTime(n, f) = TimeShares(n, f)
    <2> SUFFICES ASSUME NEW f \in Scalars PROVE Report!OverTime(n, f) = TimeShares(n, f)
      OBVIOUS
    <2> DEFINE B == {mapped[k].slot : k \in Report!InWindow(n)}
    <2>1. Report!OverTime(n, f) = [terms |-> [i \in B |-> Report!AmountIn(i, <<f, 0>>)],
                                   over  |-> Report!Amount(n, <<f, 0>>)]
      BY DEF Report!OverTime, Collected, PacketOf
    <2> HIDE DEF mapped
    <2>2. B = Busy(n)
      BY <1>5
    <2> HIDE DEF B
    <2>3. \A i \in B : Report!AmountIn(i, <<f, 0>>) = AmountAt(i, <<f, 0>>)
      BY <1>4, <1>6, <2>2, CellFacts
    <2>4. Report!Amount(n, <<f, 0>>) = HeldAmount(n, <<f, 0>>)
      BY <1>3, CellFacts
    <2> QED
      BY <2>1, <2>2, <2>3, <2>4 DEF TimeShares
  <1>9. \A h \in Kinds : h \notin Scalars => Report!OverElements(n, h) = ElementShares(n, h)
    <2> SUFFICES ASSUME NEW h \in Kinds, h \notin Scalars
                 PROVE  Report!OverElements(n, h) = ElementShares(n, h)
      OBVIOUS
    <2>1. \A b \in Elements(h) : Report!Amount(n, <<h, b>>) = HeldAmount(n, <<h, b>>)
      BY <1>3, CellFacts
    <2>2. {b \in Elements(h) : Report!Amount(n, <<h, b>>) > 0} = Hit(n, h)
      BY <2>1 DEF Hit
    <2>3. Report!Amount(n, <<Unit(h), 0>>) = HeldAmount(n, <<Unit(h), 0>>)
      BY <1>3, CellFacts
    <2> DEFINE H == {b \in Elements(h) : Report!Amount(n, <<h, b>>) > 0}
    <2>4. Report!OverElements(n, h) = [terms |-> [b \in H |-> Report!Amount(n, <<h, b>>)],
                                       over  |-> Report!Amount(n, <<Unit(h), 0>>)]
      BY <1>7 DEF Report!OverElements, Unit
    <2>5. \A b \in H : Report!Amount(n, <<h, b>>) = HeldAmount(n, <<h, b>>)
      BY <2>1
    <2> HIDE DEF H
    <2>6. H = Hit(n, h)
      BY <2>2 DEF H
    <2> QED
      BY <2>3, <2>4, <2>5, <2>6 DEF ElementShares
  <1>10. /\ Report!Amount(n, <<"num_packets", 0>>) = HeldAmount(n, <<"num_packets", 0>>)
         /\ Report!Amount(n, <<"num_syn", 0>>) = HeldAmount(n, <<"num_syn", 0>>)
    <2>1. "num_packets" \in Scalars /\ "num_syn" \in Scalars
      BY DEF Scalars
    <2> QED
      BY <1>3, <2>1, CellFacts
  <1> DEFINE ent == [h \in Kinds |-> IF h \in Scalars THEN Report!OverTime(n, h)
                                                      ELSE Report!OverElements(n, h)]
  <1>11. Report!Report(n) = [ ent        |-> ent,
                              tot_pktnum |-> Report!Amount(n, <<"num_packets", 0>>),
                              tot_syn    |-> Report!Amount(n, <<"num_syn", 0>>) ]
    BY <1>7 DEF Report!Report, Kinds
  <1>12. ent = [h \in Kinds |-> IF h \in Scalars THEN TimeShares(n, h)
                                                 ELSE ElementShares(n, h)]
    BY <1>8, <1>9
  <1> QED
    BY <1>10, <1>11, <1>12 DEF ReportOf

\* The sums that the code makes over the counters of a window are what its packets add.
LEMMA WindowIsHeld ==
  ASSUME CaptureInv, pc # "stray", NEW n \in Positions, NEW c \in Cells
  PROVE  W!WindowSum(n, c) = HeldAmount(n, c)
  <1> DEFINE b == n + NumSubintervals - 1
             w == Weight(c)
             v == [i \in Slots |-> intervals[i][c]]
             g == [k \in Collected |-> Slot(TimeOf(k))]
             P == [i \in n .. b |-> Members(i)]
  <1>1. n \in Int /\ b \in Int /\ n .. b \subseteq Slots
    BY PartsAssumptions, SizeAssumption DEF Positions, Slots
  <1>2. W!WindowSum(n, c) = Tally(n .. b, v)
    BY SameTally DEF W!WindowSum, W!Window, W!Column, W!Slots, Slots
  <1>3. TypeOK /\ IsFiniteSet(Collected) /\ \A k \in Collected : w[k] \in Nat
    BY HeldFacts DEF CaptureInv, Collected
  <1>4. Grouped(Collected, g, n, b, P, Held(n))
    BY <1>1 DEF Grouped, Members, Held, Collected
  <1>5. \A i \in n .. b : v[i] = Tally(P[i], w)
    BY <1>1 DEF CaptureInv, TalliesExact
  <1> HIDE DEF v, w, g, b, P
  <1>6. Tally(n .. b, v) = Tally(Held(n), w)
    <2>1. n \in Int /\ b \in Int
      BY <1>1
    <2>2. IsFiniteSet(Collected) /\ \A k \in Collected : w[k] \in Nat
      BY <1>3
    <2> QED
      BY <1>4, <1>5, <2>1, <2>2, TallyGroups, SMTT(60)
  <1> QED
    BY <1>2, <1>6 DEF HeldAmount, w

\* A sub-interval of the window has packets just when its counter is not zero.
LEMMA BusyIs ==
  ASSUME CaptureInv, pc # "stray", NEW n \in Positions
  PROVE  Busy(n) = {i \in n .. n + NumSubintervals - 1 : intervals[i][<<"num_packets", 0>>] # 0}
  <1> DEFINE c == <<"num_packets", 0>>  V == n .. n + NumSubintervals - 1
  <1>1. V \subseteq Slots
    BY PartsAssumptions, SizeAssumption DEF Positions, Slots
  <1>2. c \in Cells /\ \A f : Share(f, c) = 1
    BY ShareOfOne
  <1>3. TypeOK /\ \A i \in Slots : intervals[i][c] = Tally(Members(i), Weight(c))
    BY <1>2 DEF CaptureInv, TalliesExact
  <1>4. \A k \in Wanted : Weight(c)[k] = 1
    BY <1>2, <1>3, HeldFacts
  <1> HIDE DEF c
  <1>5. ASSUME NEW i \in V, intervals[i][c] # 0
        PROVE  i \in Busy(n)
    <2>1. i \in Slots
      BY <1>1
    <2>2. Members(i) # {}
      BY <1>3, <1>5, <2>1, TallyEmpty
    <2>3. PICK k \in Members(i) : TRUE
      BY <2>2
    <2>4. k \in Held(n) /\ Slot(TimeOf(k)) = i
      BY <2>1, <2>3 DEF Members, Held, Collected
    <2> QED
      BY <2>4 DEF Busy
  <1>6. ASSUME NEW i \in Busy(n)
        PROVE  i \in V /\ intervals[i][c] # 0
    <2>1. PICK k \in Held(n) : i = Slot(TimeOf(k))
      BY DEF Busy
    <2>2. i \in V /\ i \in Slots /\ k \in Members(i) /\ k \in Wanted
      BY <2>1 DEF Held, Collected, Members
    <2>3. ASSUME Tally(Members(i), Weight(c)) = 0
          PROVE  FALSE
      <3>1. IsFiniteSet(Members(i)) /\ \A m \in Members(i) : Weight(c)[m] \in Nat
        BY <1>2, <1>3, HeldFacts
      <3>2. \A m \in Members(i) : Weight(c)[m] = 0
        BY <2>3, <3>1, TallyPositive
      <3> QED
        BY <1>4, <2>2, <3>2
    <2> QED
      BY <1>3, <2>2, <2>3
  <1> HIDE DEF V
  <1>7. Busy(n) = {i \in V : intervals[i][c] # 0}
    BY <1>5, <1>6
  <1> QED
    BY <1>7 DEF V, c

\* A window without packets has no amounts.
LEMMA NothingHeld ==
  ASSUME TypeOK, NEW n, HeldAmount(n, <<"num_packets", 0>>) = 0
  PROVE  Held(n) = {} /\ \A c : HeldAmount(n, c) = 0
  <1> DEFINE c == <<"num_packets", 0>>
  <1>1. c \in Cells /\ \A k \in Held(n) : Weight(c)[k] = 1
    BY ShareOfOne, HeldFacts DEF Held, Collected
  <1>2. IsFiniteSet(Held(n))
    BY HeldFacts
  <1>3. \A k \in Held(n) : Weight(c)[k] = 0
    <2> HIDE DEF c
    <2>1. \A k \in Held(n) : Weight(c)[k] \in Nat
      BY <1>1
    <2>2. Tally(Held(n), Weight(c)) = 0
      BY DEF HeldAmount, c
    <2> QED
      BY <1>2, <2>1, <2>2, TallyPositive
  <1>4. Held(n) = {}
    BY <1>1, <1>3
  <1> QED
    BY <1>4, TallyEmpty DEF HeldAmount

\* What the loop stores for a window is the promised report.
LEMMA EvaluatedIs ==
  ASSUME CaptureInv, pc # "stray", j \in Positions,
         \A f \in Scalars : total[f] = W!WindowSum(j, <<f, 0>>)
  PROVE  W!Evaluated = ReportOf(j)
  <1> DEFINE c == <<"num_packets", 0>>
  <1>1. TypeOK
    BY DEF CaptureInv
  <1>2. \A f \in Scalars : total[f] = HeldAmount(j, <<f, 0>>) /\ total[f] \in Nat
    <2> SUFFICES ASSUME NEW f \in Scalars
                 PROVE  total[f] = HeldAmount(j, <<f, 0>>) /\ total[f] \in Nat
      OBVIOUS
    <2>1. <<f, 0>> \in Cells
      BY CellFacts
    <2>2. W!WindowSum(j, <<f, 0>>) = HeldAmount(j, <<f, 0>>)
      BY <2>1, WindowIsHeld
    <2>3. HeldAmount(j, <<f, 0>>) \in Nat
      BY <1>1, <2>1, HeldFacts
    <2> QED
      BY <2>2, <2>3
  <1>3. /\ W!Scalars = Scalars /\ W!Histograms = Histograms
        /\ \A h : W!Elements(h) = Elements(h)
    BY DEF W!Scalars, Scalars, W!Histograms, Histograms, W!Elements, Elements, W!Cells, Cells
  <1>4. "num_packets" \in Scalars /\ "num_bytes" \in Scalars /\ "num_syn" \in Scalars
    BY DEF Scalars
  <1>5. ASSUME NEW f \in Scalars
        PROVE  W!SubintervalTerms(f) = TimeShares(j, f)
    <2> DEFINE B == {i \in W!Window(j) : intervals[i][<<"num_packets", 0>>] # 0}
    <2>1. W!SubintervalTerms(f) = [terms |-> [i \in B |-> intervals[i][<<f, 0>>]],
                                   over  |-> total[f]]
      BY DEF W!SubintervalTerms
    <2>2. B = Busy(j)
      BY BusyIs DEF W!Window
    <2> HIDE DEF B
    <2>3. \A i \in B : intervals[i][<<f, 0>>] = AmountAt(i, <<f, 0>>)
      <3>1. B \subseteq Slots
        BY <2>2 DEF Busy, Held, Collected
      <3> QED
        BY <3>1, CellFacts DEF CaptureInv, TalliesExact, AmountAt
    <2> QED
      BY <1>2, <2>1, <2>2, <2>3 DEF TimeShares
  <1>6. ASSUME NEW h \in Kinds, h \notin Scalars
        PROVE  W!ElementTerms(h) = ElementShares(j, h)
    <2> DEFINE u == IF h # "num_packet_sizes" /\ ByteMode THEN "num_bytes" ELSE "num_packets"
               num == [b \in Elements(h) |-> W!WindowSum(j, <<h, b>>)]
               N == {k \in DOMAIN num : num[k] # 0}
    <2>1. u = Unit(h) /\ u \in Scalars
      BY <1>6, CellFacts DEF Unit, Histograms, Scalars
    <2>2. \A b \in Elements(h) : /\ W!WindowSum(j, <<h, b>>) = HeldAmount(j, <<h, b>>)
                                 /\ HeldAmount(j, <<h, b>>) \in Nat
      BY <1>1, WindowIsHeld, HeldFacts, CellFacts
    <2>3. CASE total["num_packets"] > 0
      <3>1. W!ElementTerms(h) = [terms |-> [i \in N |-> num[i]], over |-> total[u]]
        BY <1>3, <2>3 DEF W!ElementTerms, W!Terms
      <3>2. N = Hit(j, h)
        BY <2>2 DEF Hit
      <3>3. \A i \in N : num[i] = HeldAmount(j, <<h, i>>)
        BY <2>2
      <3>4. total[u] = HeldAmount(j, <<Unit(h), 0>>)
        BY <1>2, <2>1
      <3> HIDE DEF N, num, u
      <3> QED
        BY <3>1, <3>2, <3>3, <3>4 DEF ElementShares
    <2>4. CASE ~(total["num_packets"] > 0)
      <3>1. HeldAmount(j, <<"num_packets", 0>>) = 0
        BY <1>2, <1>4, <2>4
      <3>2. \A d : HeldAmount(j, d) = 0
        BY <1>1, <3>1, NothingHeld
      <3>3. Hit(j, h) = {}
        BY <3>2 DEF Hit
      <3>4. W!ElementTerms(h) = [terms |-> << >>, over |-> 0]
        BY <2>4 DEF W!ElementTerms, W!NoTerms
      <3>5. [b \in Hit(j, h) |-> HeldAmount(j, <<h, b>>)] = << >>
        <4> DEFINE f == [b \in Hit(j, h) |-> HeldAmount(j, <<h, b>>)]
        <4>1. f \in [{} -> {}]
          BY <3>3
        <4>2. << >> \in [{} -> {}]
          BY SeqDef
        <4> QED
          BY <4>1, <4>2
      <3> QED
        BY <3>2, <3>4, <3>5 DEF ElementShares
    <2> QED
      BY <2>3, <2>4
  <1> DEFINE ent == [h \in W!Vectors \cup {"num_packets", "num_bytes", "num_df"} |->
                       IF h \in W!Vectors THEN W!ElementTerms(h) ELSE W!SubintervalTerms(h)]
  <1>7. W!Evaluated = [ ent        |-> ent,
                        tot_pktnum |-> total["num_packets"],
                        tot_syn    |-> total["num_syn"] ]
    BY DEF W!Evaluated
  <1>8. W!Vectors \cup {"num_packets", "num_bytes", "num_df"} = Kinds
        /\ \A h \in Kinds : h \in W!Vectors <=> h \notin Scalars
    BY <1>3, CellFacts DEF W!Vectors, Kinds
  <1>9. ent = [h \in Kinds |-> IF h \in Scalars THEN TimeShares(j, h) ELSE ElementShares(j, h)]
    BY <1>5, <1>6, <1>8
  <1> HIDE DEF ent
  <1> QED
    BY <1>2, <1>4, <1>7, <1>9 DEF ReportOf

-------------------------------------------------------------------------------------
(* The inductive invariant.                                                          *)

\* What was written for each sub-interval.
WrittenOK ==
  /\ DOMAIN output = Slots \ {num_intervals}
  /\ \A n \in DOMAIN output : output[n].window = result[n] /\ output[n].fsd = ent_fsd[n]

\* One part of the program runs after the other; each keeps its own invariant, and the
\* windows that were evaluated have the promised reports.
ProgramInv ==
  /\ stage \in {"prepare", "sliding", "done"}
  /\ stage = "prepare" => F!InitFlows
  /\ stage # "prepare" => pc = "parsed" /\ FP!FlowInv
  /\ stage # "done" => output = << >>
  /\ stage = "done" => phase = "done" /\ WrittenOK
  /\ WP!TotalsInv /\ WP!BytesInv
  /\ result = [n \in Slots |-> IF n < j THEN ReportOf(n) ELSE W!Blank]

\* The reports only depend on what was read.
LEMMA ReportsFrozen ==
  ASSUME UNCHANGED captureVars
  PROVE  \A n : ReportOf(n)' = ReportOf(n)
  <1>1. Wanted' = Wanted /\ (\A k : TimeOf(k)' = TimeOf(k)) /\ \A c : Weight(c)' = Weight(c)
    BY Frozen
  <1>2. Collected' = Collected
    BY <1>1 DEF Collected
  <1>3. \A n : Held(n)' = Held(n)
    BY <1>1, <1>2 DEF Held
  <1>4. \A n, c : HeldAmount(n, c)' = HeldAmount(n, c)
    BY <1>1, <1>3 DEF HeldAmount
  <1>5. \A i, c : AmountAt(i, c)' = AmountAt(i, c)
    BY <1>1 DEF AmountAt, Members
  <1>6. \A n : Busy(n)' = Busy(n)
    BY <1>1, <1>3 DEF Busy
  <1>7. \A n, h : Hit(n, h)' = Hit(n, h)
    BY <1>4 DEF Hit
  <1>8. /\ \A n, f : TimeShares(n, f)' = TimeShares(n, f)
        /\ \A n, h : ElementShares(n, h)' = ElementShares(n, h)
    BY <1>4, <1>5, <1>6, <1>7 DEF TimeShares, ElementShares
  <1> QED
    BY <1>4, <1>8 DEF ReportOf

\* The window and its totals before the capture was read.
LEMMA TotalsAtStart ==
  ASSUME TypeOK, j = 0, stage = "prepare", DOMAIN total = Scalars
  PROVE  WP!TotalsInv /\ WP!BytesInv
  <1>1. /\ WP!Slots = Slots /\ WP!Cells = Cells /\ WP!Scalars = Scalars
        /\ j \in Nat /\ j <= num_intervals - NumSubintervals
    BY PartsAssumptions DEF WP!Slots, Slots, WP!Cells, Cells, WP!Scalars, Scalars, WP!Histograms,
                            Histograms
  <1> QED
    BY <1>1 DEF TypeOK, WP!TotalsInv, WP!BytesInv, WP!TotalsTrackWindow

LEMMA StepParse ==
  ASSUME ProgramInv, TypeOK', Parse
  PROVE  ProgramInv'
  <1>1. pc \in {"open", "reading"} /\ UNCHANGED <<slidingVars, flowVars>>
    BY DEF Parse, Next, OpenFails, OpenSucceeds, SkipForeign, SkipEarly, StopAtEnd, SkipServer,
           CountPacket, Stray, EndOfFile, ReadTcp, Reading
  <1>2. stage = "prepare" /\ F!InitFlows /\ j = 0 /\ DOMAIN total = WP!Scalars /\ output = << >>
    BY <1>1 DEF ProgramInv, WP!TotalsInv
  <1>3. F!InitFlows'
    BY <1>1, <1>2 DEF F!InitFlows, F!Addr, F!Slots, F!NoTerms
  <1>4. WP!TotalsInv' /\ WP!BytesInv'
    <2>1. /\ WP!Slots = Slots /\ WP!Cells = Cells
          /\ j' = 0 /\ stage' = "prepare" /\ DOMAIN total' = WP!Scalars
          /\ 0 \in Nat /\ 0 <= num_intervals - NumSubintervals
      BY <1>1, <1>2, PartsAssumptions
         DEF WP!Slots, Slots, WP!Cells, Cells, WP!Scalars, Scalars, WP!Histograms, Histograms
    <2> QED
      BY <2>1 DEF TypeOK, WP!TotalsInv, WP!BytesInv, WP!TotalsTrackWindow
  <1>5. result' = [n \in Slots |-> W!Blank] /\ \A n \in Slots : ~(n < j')
    BY <1>1, <1>2, PartsAssumptions DEF ProgramInv, Slots
  <1> QED
    BY <1>1, <1>2, <1>3, <1>4, <1>5 DEF ProgramInv

LEMMA StepPrepareWindow ==
  ASSUME ProgramInv, CaptureInv, PrepareWindow
  PROVE  ProgramInv'
  <1>1. /\ pc = "parsed" /\ stage = "prepare" /\ stage' = "sliding" /\ W!Prepare
        /\ UNCHANGED <<captureVars, flowVars, j, result, output>>
    BY DEF PrepareWindow, W!Prepare
  <1>2. FP!FlowInv
    <2>1. FP!InitFlows
      BY <1>1, SameFlowTable DEF ProgramInv
    <2>2. FP!TracesOK
      <3> DEFINE R == [src : 0 .. NumAddr - 1, dst : 0 .. NumAddr - 1, h : Nat,
                       size : Nat \ {0}]
      <3>1. fsd_traces \in [Slots -> Seq(R)] /\ FP!Slots = Slots /\ FP!Addr = 0 .. NumAddr - 1
        BY DEF CaptureInv, TypeOK, FP!Slots, Slots, FP!Addr
      <3>2. \A r \in R : r.src \in 0 .. NumAddr - 1 /\ r.dst \in 0 .. NumAddr - 1
        OBVIOUS
      <3> HIDE DEF R
      <3>3. \A i \in Slots : /\ Len(fsd_traces[i]) \in Nat
                             /\ \A k \in 1 .. Len(fsd_traces[i]) : fsd_traces[i][k] \in R
        BY <3>1
      <3> QED
        BY <3>1, <3>2, <3>3 DEF FP!TracesOK
    <2> QED
      BY <2>1, <2>2, PartsAssumptions, SizeAssumption, FP!FlowInvInit
  <1>3. FP!FlowInv'
    BY <1>1, <1>2, PartsAssumptions, FP!FlowInvStep DEF FP!tableVars, FP!flowVars
  <1>4. WP!TotalsInv' /\ WP!BytesInv'
    BY <1>1, PartsAssumptions, SameWindow, WP!TotalsStep, WP!BytesInvStep DEF ProgramInv
  <1>5. result' = [n \in Slots |-> IF n < j' THEN ReportOf(n)' ELSE W!Blank]
    BY <1>1, ReportsFrozen DEF ProgramInv
  <1> QED
    BY <1>1, <1>3, <1>4, <1>5 DEF ProgramInv

LEMMA StepPrepareFlows ==
  ASSUME ProgramInv, PrepareFlows
  PROVE  ProgramInv'
  <1>1. stage = "sliding" /\ F!NextFlows /\ UNCHANGED <<captureVars, slidingVars>>
    BY DEF PrepareFlows
  <1>2. FP!FlowInv'
    BY <1>1, PartsAssumptions, SameFlowTable, FP!FlowInvStep DEF ProgramInv
  <1>3. WP!TotalsInv' /\ WP!BytesInv'
    BY <1>1, PartsAssumptions, WP!TotalsStep, WP!BytesInvStep DEF ProgramInv, WP!slidingVars
  <1>4. result' = [n \in Slots |-> IF n < j' THEN ReportOf(n)' ELSE W!Blank]
    BY <1>1, ReportsFrozen DEF ProgramInv
  <1> QED
    BY <1>1, <1>2, <1>3, <1>4 DEF ProgramInv

LEMMA StepSlideWindow ==
  ASSUME ProgramInv, CaptureInv, SlideWindow
  PROVE  ProgramInv'
  <1>1. /\ stage = "sliding" /\ phase = "done" /\ pc = "parsed" /\ FP!FlowInv
        /\ output = << >> /\ UNCHANGED <<captureVars, flowVars>>
    BY DEF SlideWindow, W!Slide, W!PrintResult, ProgramInv
  <1>2. FP!FlowInv'
    BY <1>1, PartsAssumptions, FP!FlowInvStep DEF FP!tableVars, FP!flowVars
  <1>3. WP!TotalsInv' /\ WP!BytesInv'
    <2>1. WP!NextWindow
      BY SameWindow DEF SlideWindow
    <2> QED
      BY <2>1, PartsAssumptions, WP!TotalsStep, WP!BytesInvStep DEF ProgramInv
  <1>4. CASE W!Slide
    <2>1. /\ j < num_intervals - NumSubintervals /\ j' = j + 1 /\ stage' = "sliding"
          /\ result' = [result EXCEPT ![j] = W!Evaluated] /\ output' = << >>
      BY <1>1, <1>4 DEF W!Slide
    <2>2. j \in Nat /\ j \in Positions /\ j \in Slots
      BY <2>1, PartsAssumptions DEF ProgramInv, WP!TotalsInv, Positions, Slots
    <2>3. \A f \in Scalars : total[f] = W!WindowSum(j, <<f, 0>>)
      <3>1. \A f \in WP!Scalars : total[f] = WP!WindowSum(j, <<f, 0>>)
        BY <1>1 DEF ProgramInv, WP!TotalsInv, WP!TotalsTrackWindow
      <3> QED
        BY <3>1, SameWindow DEF WP!Scalars, Scalars
    <2>4. W!Evaluated = ReportOf(j)
      BY <1>1, <2>2, <2>3, EvaluatedIs
    <2>5. result' = [n \in Slots |-> IF n < j' THEN ReportOf(n) ELSE W!Blank]
      <3>1. result = [n \in Slots |-> IF n < j THEN ReportOf(n) ELSE W!Blank]
        BY DEF ProgramInv
      <3>2. \A n \in Slots : n \in Int /\ (n < j + 1 <=> n < j \/ n = j)
        BY <2>2, PartsAssumptions DEF Slots
      <3> DEFINE R(n) == ReportOf(n)
      <3>3. result' = [result EXCEPT ![j] = R(j)]
        BY <2>1, <2>4
      <3>4. result = [n \in Slots |-> IF n < j THEN R(n) ELSE W!Blank]
        BY <3>1
      <3> HIDE DEF R
      <3>5. result' = [n \in Slots |-> IF n < j + 1 THEN R(n) ELSE W!Blank]
        BY <2>2, <3>2, <3>3, <3>4
      <3> QED
        BY <2>1, <3>5 DEF R
    <2>6. result' = [n \in Slots |-> IF n < j' THEN ReportOf(n)' ELSE W!Blank]
      BY <1>1, <2>5, ReportsFrozen
    <2> QED
      BY <1>1, <1>2, <1>3, <2>1, <2>6 DEF ProgramInv
  <1>5. CASE W!PrintResult
    <2>1. /\ stage' = "done" /\ UNCHANGED <<j, result>>
          /\ DOMAIN output' = Slots \ {num_intervals}
          /\ \A n \in Slots \ {num_intervals} : output'[n].window = result[n]
                                                /\ output'[n].fsd = ent_fsd[n]
      BY <1>5 DEF W!PrintResult, W!Slots, Slots
    <2>2. WrittenOK'
      BY <1>1, <2>1 DEF WrittenOK
    <2>3. result' = [n \in Slots |-> IF n < j' THEN ReportOf(n)' ELSE W!Blank]
      BY <1>1, <2>1, ReportsFrozen DEF ProgramInv
    <2> QED
      BY <1>1, <1>2, <1>3, <2>1, <2>2, <2>3 DEF ProgramInv
  <1> QED
    BY <1>4, <1>5 DEF SlideWindow

LEMMA StepNone ==
  ASSUME ProgramInv, UNCHANGED vars
  PROVE  ProgramInv'
  <1>1. FP!FlowInv => FP!FlowInv'
    BY PartsAssumptions, FP!FlowInvStep DEF FP!tableVars, FP!flowVars
  <1>2. WP!TotalsInv' /\ WP!BytesInv'
    BY PartsAssumptions, WP!TotalsStep, WP!BytesInvStep DEF ProgramInv, WP!slidingVars
  <1>3. F!InitFlows => F!InitFlows'
    BY DEF F!InitFlows, F!Addr, F!Slots, F!NoTerms
  <1>4. result' = [n \in Slots |-> IF n < j' THEN ReportOf(n)' ELSE W!Blank]
    BY ReportsFrozen DEF ProgramInv
  <1> QED
    BY <1>1, <1>2, <1>3, <1>4 DEF ProgramInv, WrittenOK

\* Reading the capture is a part of the program.
LEMMA ProgramReads == SpecProgram => Spec
  <1>1. InitProgram => Init
    BY DEF InitProgram
  <1>2. [NextProgram]_vars => [Next]_captureVars
    BY DEF NextProgram, Parse, PrepareWindow, PrepareFlows, SlideWindow
  <1> QED
    BY <1>1, <1>2, PTL DEF SpecProgram, Spec

LEMMA ProgramInvariant == SpecProgram => [](CaptureInv /\ ProgramInv)
  <1>1. InitProgram => ProgramInv
    <2> SUFFICES ASSUME InitProgram PROVE ProgramInv
      OBVIOUS
    <2>1. /\ stage = "prepare" /\ j = 0 /\ output = << >> /\ DOMAIN total = Scalars
          /\ result = [n \in Slots |-> W!Blank] /\ F!InitFlows
      BY DEF InitProgram, W!InitWindow, W!Scalars, Scalars, W!Slots, Slots
    <2>2. WP!TotalsInv /\ WP!BytesInv
      BY <2>1, CaptureInvInit, TotalsAtStart DEF InitProgram, CaptureInv
    <2>3. \A n \in Slots : ~(n < j)
      BY <2>1, PartsAssumptions DEF Slots
    <2> QED
      BY <2>1, <2>2, <2>3 DEF ProgramInv
  <1>2. CaptureInv /\ CaptureInv' /\ ProgramInv /\ [NextProgram]_vars => ProgramInv'
    <2> SUFFICES ASSUME CaptureInv, CaptureInv', ProgramInv, [NextProgram]_vars
                 PROVE  ProgramInv'
      OBVIOUS
    <2>1. TypeOK'
      BY DEF CaptureInv
    <2> QED
      BY <2>1, StepParse, StepPrepareWindow, StepPrepareFlows, StepSlideWindow, StepNone
         DEF NextProgram
  <1> QED
    BY <1>1, <1>2, ProgramReads, CaptureInvariant, PTL DEF SpecProgram

-------------------------------------------------------------------------------------
(* The program implements EntropyReport.                                             *)

\* The variables of EntropyReport, as the refinement maps them.
PacketsRead == [k \in Collected |-> PacketOf(k)]
Reports == [n \in 1 .. j |-> result[n - 1]]
Written == [n \in DOMAIN output |-> output[n].window]

LEMMA MappedIs == Report!abstractVars = <<PacketsRead, Reports, Written>>
  BY DEF Report!abstractVars, PacketsRead, Reports, Written, Collected, PacketOf

\* A function on the empty set is the empty sequence.
LEMMA NothingIsEmpty ==
  ASSUME NEW f, f = [x \in DOMAIN f |-> f[x]], DOMAIN f = {}
  PROVE  f = << >>
  <1>1. f \in [{} -> {}]
    OBVIOUS
  <1>2. << >> \in [{} -> {}]
    BY SeqDef
  <1> QED
    BY <1>1, <1>2

\* A step that reads collects a packet, before the spare sub-interval, or none.
LEMMA Reads ==
  ASSUME CaptureInv, [Next]_captureVars
  PROVE  /\ \A k : PacketOf(k)' = PacketOf(k)
         /\ \/ Collected' = Collected
            \/ \E n : /\ n \notin Collected /\ Collected' = Collected \cup {n}
                     /\ Slot(TimeOf(n)) \in 0 .. num_intervals - 1
  <1>1. link' = link /\ capture' = capture
    BY DEF Next, OpenFails, OpenSucceeds, SkipForeign, SkipEarly, StopAtEnd, SkipServer,
           CountPacket, Stray, EndOfFile, ReadTcp
  <1>2. Wanted' = Wanted /\ (\A k : TimeOf(k)' = TimeOf(k)) /\ TcpRecords' = TcpRecords
        /\ First' = First
    BY <1>1, Frozen
  <1>3. \A k : PacketOf(k)' = PacketOf(k)
    BY <1>1, <1>2 DEF PacketOf
  <1>4. TypeOK /\ pos \in Nat /\ \A k \in Wanted : k \in Nat
    <2>1. TypeOK
      BY DEF CaptureInv
    <2>2. pos \in Nat
      BY <2>1 DEF TypeOK
    <2>3. \A k \in Wanted : k \in Nat
      BY DEF Wanted, TcpRecords
    <2> QED
      BY <2>1, <2>2, <2>3
  <1>5. ASSUME pos' = pos + 1, pos + 1 \notin Wanted \/ Slot(TimeOf(pos + 1)) \notin Slots
        PROVE  Collected' = Collected
    BY <1>2, <1>4, <1>5 DEF Collected
  <1>6. ASSUME ReadTcp
        PROVE  /\ pos + 1 \in TcpRecords /\ Time = TimeOf(pos + 1) /\ Time \in Int
               /\ pos' = pos + 1
    <2>1. pos + 1 \in TcpRecords /\ Time = TimeOf(pos + 1) /\ ClockOK'
      BY <1>6, ReadTcpClock DEF CaptureInv
    <2>2. First \in TcpRecords
      BY <1>2, <1>6, <2>1 DEF ClockOK, ReadTcp
    <2>3. capture[First].ts \in Nat /\ capture[pos + 1].ts \in Nat
      BY <1>4, <2>1, <2>2, RecordType DEF TcpRecords, TypeOK
    <2> QED
      BY <1>6, <2>1, <2>3, TimeAssumption DEF TimeOf, ReadTcp
  <1>7. CASE CountPacket
    <2>1. ReadTcp /\ InRange(Time) /\ ~FromServer(Record.frame) /\ Slot(Time) \in Slots
      BY <1>7 DEF CountPacket
    <2>2. pos + 1 \in Wanted /\ pos' = pos + 1
      BY <1>6, <2>1 DEF Wanted, Record
    <2>3. Slot(TimeOf(pos + 1)) \in 0 .. num_intervals - 1
      <3>1. Slot(Time) # num_intervals
        BY <1>6, <2>1, PartsAssumptions, SlotBeforeLast
      <3> QED
        BY <1>6, <2>1, <3>1, PartsAssumptions DEF Slots
    <2>4. pos + 1 \notin Collected /\ Collected' = Collected \cup {pos + 1}
      BY <1>2, <1>4, <1>6, <2>1, <2>2 DEF Collected
    <2> QED
      BY <1>3, <2>3, <2>4
  <1>8. CASE Stray
    <2>1. pos' = pos + 1 /\ Slot(TimeOf(pos + 1)) \notin Slots
      BY <1>6, <1>8 DEF Stray
    <2> QED
      BY <1>3, <1>5, <2>1
  <1>9. CASE SkipEarly \/ StopAtEnd \/ SkipServer
    <2>1. ReadTcp
      BY <1>9 DEF SkipEarly, StopAtEnd, SkipServer
    <2>2. ~InRange(Time) \/ FromServer(Record.frame)
      <3>1. Sec(Time) \in Int
        BY <1>6, <2>1, TruncType, TimeAssumption DEF Sec
      <3> QED
        BY <1>9, <3>1, TimeAssumption DEF SkipEarly, StopAtEnd, SkipServer, InRange
    <2>3. pos' = pos + 1 /\ pos + 1 \notin Wanted
      BY <1>6, <2>1, <2>2 DEF Wanted, Record
    <2> QED
      BY <1>3, <1>5, <2>3
  <1>10. CASE SkipForeign
    <2>1. pos' = pos + 1 /\ pos + 1 \notin Wanted
      BY <1>10 DEF SkipForeign, Wanted, TcpRecords, Record
    <2> QED
      BY <1>3, <1>5, <2>1
  <1>11. CASE OpenFails \/ OpenSucceeds \/ EndOfFile \/ UNCHANGED captureVars
    <2>1. pos' = pos
      BY <1>11 DEF OpenFails, OpenSucceeds, EndOfFile
    <2> QED
      BY <1>2, <1>3, <2>1 DEF Collected
  <1> QED
    BY <1>7, <1>8, <1>9, <1>10, <1>11 DEF Next

LEMMA ParseRefines ==
  ASSUME CaptureInv, ProgramInv, ProgramInv', Parse
  PROVE  Report!Collect \/ UNCHANGED <<PacketsRead, Reports, Written>>
  <1>1. pc \in {"open", "reading"} /\ UNCHANGED <<slidingVars, flowVars>> /\ Next
    BY DEF Parse, Next, OpenFails, OpenSucceeds, SkipForeign, SkipEarly, StopAtEnd, SkipServer,
           CountPacket, Stray, EndOfFile, ReadTcp, Reading
  <1>2. stage = "prepare" /\ j = 0 /\ output = << >> /\ output' = << >> /\ j' = 0
    BY <1>1 DEF ProgramInv, WP!TotalsInv
  <1>3. Reports = << >> /\ Written = << >>
    <2>1. DOMAIN Reports = {} /\ DOMAIN Written = {}
      BY <1>2 DEF Reports, Written
    <2> QED
      BY <2>1, NothingIsEmpty DEF Reports, Written
  <1>4. UNCHANGED <<Reports, Written>>
    BY <1>1 DEF Reports, Written
  <1>5. /\ \A k : PacketOf(k)' = PacketOf(k)
        /\ \/ Collected' = Collected
           \/ \E n : /\ n \notin Collected /\ Collected' = Collected \cup {n}
                    /\ Slot(TimeOf(n)) \in 0 .. num_intervals - 1
    BY <1>1, Reads
  <1>6. CASE Collected' = Collected
    BY <1>4, <1>5, <1>6 DEF PacketsRead
  <1>7. CASE \E n : /\ n \notin Collected /\ Collected' = Collected \cup {n}
                   /\ Slot(TimeOf(n)) \in 0 .. num_intervals - 1
    <2>1. PICK n : /\ n \notin Collected /\ Collected' = Collected \cup {n}
                   /\ Slot(TimeOf(n)) \in 0 .. num_intervals - 1
      BY <1>7
    <2>2. /\ DOMAIN PacketsRead = Collected /\ (DOMAIN PacketsRead)' = Collected'
          /\ \A m \in Collected : PacketsRead[m] = PacketOf(m)
          /\ \A m \in Collected' : PacketsRead'[m] = PacketOf(m)
      BY <1>5 DEF PacketsRead
    <2>3. PacketOf(n).slot = Slot(TimeOf(n))
      BY DEF PacketOf
    <2>4. /\ n \in (DOMAIN PacketsRead)' \ DOMAIN PacketsRead
          /\ (DOMAIN PacketsRead)' = DOMAIN PacketsRead \cup {n}
          /\ \A m \in DOMAIN PacketsRead : PacketsRead'[m] = PacketsRead[m]
          /\ PacketsRead'[n].slot \in 0 .. num_intervals - 1
      BY <2>1, <2>2, <2>3
    <2>5. Report!Collect <=>
            /\ Reports = << >> /\ Written = << >>
            /\ \E k \in (DOMAIN PacketsRead)' \ DOMAIN PacketsRead :
                 /\ (DOMAIN PacketsRead)' = DOMAIN PacketsRead \cup {k}
                 /\ \A m \in DOMAIN PacketsRead : PacketsRead'[m] = PacketsRead[m]
                 /\ PacketsRead'[k].slot \in 0 .. num_intervals - 1
            /\ UNCHANGED <<Reports, Written>>
      BY DEF Report!Collect, PacketsRead, Reports, Written, Collected, PacketOf
    <2> HIDE DEF PacketsRead, Reports, Written
    <2> QED
      BY <1>3, <1>4, <2>4, <2>5
  <1> QED
    BY <1>5, <1>6, <1>7

\* A turn of the loop publishes the report of its window.
LEMMA SlideRefines ==
  ASSUME CaptureInv, ProgramInv, ProgramInv', SlideWindow, W!Slide
  PROVE  Report!Publish
  <1>1. /\ stage = "sliding" /\ stage' = "sliding" /\ j < num_intervals - NumSubintervals
        /\ j' = j + 1 /\ UNCHANGED captureVars /\ output' = output
    BY DEF SlideWindow, W!Slide
  <1>2. j \in Nat /\ j \in Positions /\ output = << >>
        /\ num_intervals \in Nat /\ \A n \in 0 .. j : n \in Slots
    BY <1>1, PartsAssumptions DEF ProgramInv, WP!TotalsInv, Positions, Slots
  <1>3. /\ result = [n \in Slots |-> IF n < j THEN ReportOf(n) ELSE W!Blank]
        /\ result' = [n \in Slots |-> IF n < j + 1 THEN ReportOf(n) ELSE W!Blank]
    <2>1. result' = [n \in Slots |-> IF n < j' THEN ReportOf(n)' ELSE W!Blank]
      BY DEF ProgramInv
    <2>2. \A n : ReportOf(n)' = ReportOf(n)
      BY <1>1, ReportsFrozen
    <2> QED
      BY <1>1, <2>1, <2>2 DEF ProgramInv
  <1> DEFINE R(n) == ReportOf(n)
  <1>4. /\ Reports = [n \in 1 .. j |-> R(n - 1)]
        /\ Reports' = [n \in 1 .. j + 1 |-> R(n - 1)]
    <2>1. \A n \in 1 .. j : result[n - 1] = R(n - 1)
      <3> HIDE DEF R
      <3>1. \A n \in 1 .. j : n - 1 \in Slots /\ n - 1 < j
        BY <1>2
      <3>2. result = [n \in Slots |-> IF n < j THEN R(n) ELSE W!Blank]
        BY <1>3 DEF R
      <3> QED
        BY <3>1, <3>2
    <2>2. \A n \in 1 .. j + 1 : result'[n - 1] = R(n - 1)
      <3> HIDE DEF R
      <3>1. \A n \in 1 .. j + 1 : n - 1 \in Slots /\ n - 1 < j + 1
        BY <1>2
      <3>2. result' = [n \in Slots |-> IF n < j + 1 THEN R(n) ELSE W!Blank]
        BY <1>3 DEF R
      <3> QED
        BY <3>1, <3>2
    <2> HIDE DEF R
    <2> QED
      BY <1>1, <2>1, <2>2 DEF Reports
  <1>5. Report!Report(j) = R(j)
    BY <1>2, ReportIs DEF CaptureInv
  <1> HIDE DEF R
  <1>6. Len(Reports) = j /\ Reports' = Append(Reports, R(j))
    <2> DEFINE V == {R(n - 1) : n \in 1 .. j} \cup {R(j)}
    <2>1. Reports \in Seq(V) /\ R(j) \in V /\ Len(Reports) = j
      <3>1. Reports \in [1 .. j -> V]
        BY <1>4
      <3> HIDE DEF V
      <3>2. Reports \in Seq(V)
        BY <1>2, <3>1
      <3>3. Len(Reports) = j
        BY <1>2, <3>1, <3>2
      <3> QED
        BY <3>2, <3>3 DEF V
    <2> DEFINE A == Append(Reports, R(j))
    <2> HIDE DEF V
    <2>2. A \in Seq(V) /\ Len(A) = j + 1 /\ A[j + 1] = R(j)
          /\ \A n \in 1 .. j : A[n] = Reports[n]
      BY <1>2, <2>1, AppendProperties
    <2>3. \A n \in 1 .. j + 1 : A[n] = R(n - 1)
      BY <1>2, <1>4, <2>2
    <2>4. A = [n \in 1 .. j + 1 |-> A[n]]
      <3> HIDE DEF A
      <3>1. A \in [1 .. Len(A) -> V]
        BY <2>2, LenProperties
      <3> QED
        BY <2>2, <3>1
    <2> HIDE DEF A
    <2> QED
      BY <1>4, <2>1, <2>3, <2>4 DEF A
  <1>7. Written = << >> /\ Written' = Written /\ PacketsRead' = PacketsRead
    <2>1. DOMAIN Written = {}
      BY <1>2 DEF Written
    <2>2. Written = << >>
      BY <2>1, NothingIsEmpty DEF Written
    <2>3. Collected' = Collected /\ \A k : PacketOf(k)' = PacketOf(k)
      BY <1>1, Frozen DEF Collected, PacketOf
    <2> QED
      BY <1>1, <2>2, <2>3 DEF Written, PacketsRead
  <1>8. Report!Publish <=>
          /\ Written = << >>
          /\ Len(Reports) < num_intervals - NumSubintervals
          /\ Reports' = Append(Reports, Report!Report(Len(Reports)))
          /\ UNCHANGED <<PacketsRead, Written>>
    BY DEF Report!Publish, Report!NumReports, PacketsRead, Reports, Written, Collected, PacketOf
  <1> HIDE DEF PacketsRead, Reports, Written
  <1> QED
    BY <1>1, <1>5, <1>6, <1>7, <1>8

\* print_result() writes them all.
LEMMA PrintRefines ==
  ASSUME CaptureInv, ProgramInv, ProgramInv', SlideWindow, W!PrintResult
  PROVE  Report!Write
  <1>1. /\ stage = "sliding" /\ stage' = "done" /\ j = num_intervals - NumSubintervals
        /\ j' = j /\ UNCHANGED captureVars /\ result' = result
    BY DEF SlideWindow, W!PrintResult
  <1>2. j \in Nat /\ output = << >> /\ num_intervals \in Nat /\ j < num_intervals
    BY <1>1, PartsAssumptions, SizeAssumption DEF ProgramInv
  <1>3. /\ DOMAIN output' = 0 .. num_intervals - 1
        /\ \A n \in 0 .. num_intervals - 1 : output'[n].window = result[n]
    <2>1. WrittenOK'
      BY <1>1 DEF ProgramInv
    <2>2. Slots \ {num_intervals} = 0 .. num_intervals - 1
      BY <1>2 DEF Slots
    <2> QED
      BY <1>1, <2>1, <2>2 DEF WrittenOK
  <1>4. Written = << >> /\ Reports' = Reports /\ PacketsRead' = PacketsRead
    <2>1. DOMAIN Written = {}
      BY <1>2 DEF Written
    <2>2. Written = << >>
      BY <2>1, NothingIsEmpty DEF Written
    <2>3. Collected' = Collected /\ \A k : PacketOf(k)' = PacketOf(k)
      BY <1>1, Frozen DEF Collected, PacketOf
    <2> QED
      BY <1>1, <2>2, <2>3 DEF Reports, PacketsRead
  <1>5. Len(Reports) = j
    <2> DEFINE V == {Reports[n] : n \in 1 .. j}
    <2>1. Reports \in [1 .. j -> V]
      BY DEF Reports
    <2> HIDE DEF V
    <2>2. Reports \in Seq(V)
      BY <1>2, <2>1
    <2> QED
      BY <1>2, <2>1, <2>2
  <1>6. /\ DOMAIN Written' = 0 .. num_intervals - 1
        /\ \A i \in 1 .. j : Written'[i - 1] = Reports[i]
    <2>1. \A i \in 1 .. j : i - 1 \in 0 .. num_intervals - 1
      BY <1>2
    <2>2. \A i \in 1 .. j : Written'[i - 1] = result[i - 1]
      BY <1>3, <2>1 DEF Written
    <2> QED
      BY <1>3, <2>2 DEF Written, Reports
  <1>7. Report!Write <=>
          /\ Written = << >>
          /\ Len(Reports) = num_intervals - NumSubintervals
          /\ \A i \in 1 .. num_intervals - NumSubintervals : Written'[i - 1] = Reports[i]
          /\ DOMAIN Written' = 0 .. num_intervals - 1
          /\ UNCHANGED <<PacketsRead, Reports>>
    BY DEF Report!Write, Report!NumReports, PacketsRead, Reports, Written, Collected, PacketOf
  <1> HIDE DEF PacketsRead, Reports, Written
  <1> QED
    BY <1>1, <1>4, <1>5, <1>6, <1>7

\* The program implements EntropyReport: every packet it counts is collected, the reports
\* it makes, with running totals and one window after the other, are those that the
\* packets of each window give, and what it writes are these reports.
THEOREM ReportsAreKept == SpecProgram => ReportSpec
  <1>1. InitProgram => Report!InitReport
    <2> SUFFICES ASSUME InitProgram PROVE Report!InitReport
      OBVIOUS
    <2>1. pos = 0 /\ j = 0 /\ output = << >>
      BY DEF InitProgram, Init, W!InitWindow
    <2>2. Collected = {}
      BY <2>1 DEF Collected, Wanted, TcpRecords
    <2>3. DOMAIN PacketsRead = {} /\ DOMAIN Reports = {} /\ DOMAIN Written = {}
      BY <2>1, <2>2 DEF PacketsRead, Reports, Written
    <2>4. PacketsRead = << >> /\ Reports = << >> /\ Written = << >>
      <3>1. PacketsRead = << >>
        BY <2>3, NothingIsEmpty DEF PacketsRead
      <3>2. Reports = << >> /\ Written = << >>
        BY <2>3, NothingIsEmpty DEF Reports, Written
      <3> QED
        BY <3>1, <3>2
    <2>5. Report!InitReport <=> PacketsRead = << >> /\ Reports = << >> /\ Written = << >>
      BY DEF Report!InitReport, PacketsRead, Reports, Written, Collected, PacketOf
    <2> QED
      BY <2>4, <2>5
  <1>2. CaptureInv /\ ProgramInv /\ ProgramInv' /\ [NextProgram]_vars
          => [Report!NextReport]_(Report!abstractVars)
    <2> SUFFICES ASSUME CaptureInv, ProgramInv, ProgramInv', [NextProgram]_vars
                 PROVE  Report!NextReport \/ UNCHANGED Report!abstractVars
      OBVIOUS
    <2>1. UNCHANGED <<PacketsRead, Reports, Written>> => UNCHANGED Report!abstractVars
      BY MappedIs DEF Report!abstractVars, PacketsRead, Reports, Written, Collected, PacketOf
    <2>2. CASE Parse
      BY <2>1, <2>2, ParseRefines DEF Report!NextReport
    <2>3. CASE PrepareWindow \/ PrepareFlows \/ UNCHANGED vars
      <3>1. UNCHANGED <<captureVars, j, result, output>>
        BY <2>3 DEF PrepareWindow, PrepareFlows, W!Prepare
      <3>2. Collected' = Collected /\ \A k : PacketOf(k)' = PacketOf(k)
        BY <3>1, Frozen DEF Collected, PacketOf
      <3>3. UNCHANGED <<PacketsRead, Reports, Written>>
        BY <3>1, <3>2 DEF PacketsRead, Reports, Written
      <3> QED
        BY <2>1, <3>3
    <2>4. CASE SlideWindow
      BY <2>4, SlideRefines, PrintRefines DEF SlideWindow, Report!NextReport
    <2> QED
      BY <2>2, <2>3, <2>4 DEF NextProgram
  <1> QED
    BY <1>1, <1>2, ProgramInvariant, PTL DEF SpecProgram, ReportSpec, Report!ReportSpec

-------------------------------------------------------------------------------------
(* The entropies are those of distributions.                                         *)

\* What a packet is worth in the vector h, where it has its element.
Worth(h) == [k \in 1 .. Len(capture) |->
               IF h = "num_packet_sizes" THEN 1 ELSE psize(capture[k].frame)]
Fitting(n, h) == {k \in Held(n) : Bucket(capture[k].frame)[h] \in Elements(h)}

\* A figure of the window, spread over its sub-intervals, adds up.
LEMMA TimeMass ==
  ASSUME TypeOK, NEW n \in Positions, NEW f \in Scalars
  PROVE  Mass(TimeShares(n, f)) = HeldAmount(n, <<f, 0>>)
  <1> DEFINE c == <<f, 0>>  w == Weight(c)
             b == n + NumSubintervals - 1
             g == [k \in Collected |-> Slot(TimeOf(k))]
             P == [i \in n .. b |-> Members(i)]
             v == [i \in n .. b |-> AmountAt(i, c)]
             e == [i \in Busy(n) |-> AmountAt(i, c)]
  <1>1. n \in Int /\ b \in Int /\ n .. b \subseteq Slots /\ c \in Cells
    BY PartsAssumptions, SizeAssumption, CellFacts DEF Positions, Slots
  <1>2. IsFiniteSet(Collected) /\ \A k \in Collected : w[k] \in Nat
    BY <1>1, HeldFacts DEF Collected
  <1>3. Grouped(Collected, g, n, b, P, Held(n))
    BY <1>1 DEF Grouped, Members, Held, Collected
  <1>4. \A i \in n .. b : v[i] = Tally(P[i], w)
    BY DEF AmountAt
  <1>5. Busy(n) \subseteq n .. b
    BY DEF Busy, Held
  <1>6. \A i \in (n .. b) \ Busy(n) : v[i] = 0
    <2> SUFFICES ASSUME NEW i \in n .. b, i \notin Busy(n) PROVE v[i] = 0
      OBVIOUS
    <2>1. Members(i) = {}
      BY <1>1 DEF Members, Busy, Held, Collected
    <2> QED
      BY <2>1, TallyEmpty DEF AmountAt
  <1>7. \A i \in Busy(n) : e[i] = v[i]
    BY <1>5
  <1>8. Mass(TimeShares(n, f)) = Tally(Busy(n), e)
    BY DEF Mass, TimeShares
  <1>9. HeldAmount(n, <<f, 0>>) = Tally(Held(n), w)
    BY DEF HeldAmount
  <1> HIDE DEF c, w, b, g, P, v, e
  <1>10. Tally(n .. b, v) = Tally(Held(n), w)
    <2>1. n \in Int /\ b \in Int
      BY <1>1
    <2> QED
      BY <1>2, <1>3, <1>4, <2>1, TallyGroups, SMTT(60)
  <1>11. Tally(Busy(n), v) = Tally(n .. b, v)
    BY <1>5, <1>6, TallySupport
  <1>12. Tally(Busy(n), e) = Tally(Busy(n), v)
    BY <1>7, TallySame
  <1> QED
    BY <1>8, <1>9, <1>10, <1>11, <1>12

\* Each busy sub-interval has a packet and a byte.
LEMMA BusyNotZero ==
  ASSUME TypeOK, NEW n \in Positions, NEW i \in Busy(n), NEW f \in {"num_packets", "num_bytes"}
  PROVE  AmountAt(i, <<f, 0>>) # 0
  <1> DEFINE w == Weight(<<f, 0>>)
  <1>1. PICK k \in Held(n) : i = Slot(TimeOf(k))
    BY DEF Busy
  <1>2. k \in Members(i) /\ k \in Wanted /\ capture[k].frame \in Frame
    BY <1>1, HeldFacts DEF Members, Held, Collected
  <1>3. w[k] # 0
    <2>1. w[k] = Share(capture[k].frame, <<f, 0>>)
      BY <1>2, HeldFacts
    <2>2. capture[k].frame.len \in Nat \ {0}
      BY <1>2 DEF Frame
    <2> QED
      BY <2>1, <2>2 DEF Share, Amounts, Scalars
  <1>4. IsFiniteSet(Members(i)) /\ \A m \in Members(i) : w[m] \in Nat
    <2>1. <<f, 0>> \in Cells
      BY CellFacts DEF Scalars
    <2> QED
      BY <2>1, HeldFacts DEF Members
  <1> SUFFICES ASSUME Tally(Members(i), w) = 0 PROVE FALSE
    BY DEF AmountAt
  <1> HIDE DEF w
  <1> QED
    BY <1>2, <1>3, <1>4, TallyPositive

\* What is spread over the elements of a vector adds up to the worth of the packets that
\* have an element.
LEMMA ElementMass ==
  ASSUME TypeOK, NEW n \in Positions, NEW h \in Kinds, h \notin Scalars
  PROVE  Mass(ElementShares(n, h)) = Tally(Fitting(n, h), Worth(h))
  <1> DEFINE w == Worth(h)  H == Held(n)
             g == [k \in H |-> Bucket(capture[k].frame)[h]]
             P == [b \in Elements(h) |-> {k \in H : g[k] = b}]
             v == [b \in Elements(h) |-> HeldAmount(n, <<h, b>>)]
             e == [b \in Hit(n, h) |-> HeldAmount(n, <<h, b>>)]
  <1>1. PICK m \in Nat : Elements(h) = 0 .. m - 1
    BY CellFacts, CellAssumption
  <1>2. /\ IsFiniteSet(H) /\ (\A k \in H : k \in Wanted /\ k \in 1 .. Len(capture))
        /\ \A k \in H : capture[k].frame \in Frame
    BY HeldFacts DEF Held, Collected
  <1>3. \A k \in H : w[k] = IF h = "num_packet_sizes" THEN 1 ELSE psize(capture[k].frame)
    BY <1>2 DEF Worth
  <1>4. \A k \in H : w[k] \in Nat
    BY <1>2, <1>3 DEF psize, Frame
  <1>5. Grouped(H, g, 0, m - 1, P, Fitting(n, h))
    BY <1>1 DEF Grouped, Fitting
  <1>6. \A b \in Elements(h) : v[b] = Tally(P[b], w)
    <2> SUFFICES ASSUME NEW b \in Elements(h) PROVE v[b] = Tally(P[b], w)
      OBVIOUS
    <2> DEFINE u == Weight(<<h, b>>)
    <2>1. \A k \in H : u[k] = IF g[k] = b THEN w[k] ELSE 0
      <3> SUFFICES ASSUME NEW k \in H PROVE u[k] = IF g[k] = b THEN w[k] ELSE 0
        OBVIOUS
      <3>1. u[k] = Share(capture[k].frame, <<h, b>>)
        BY <1>2, HeldFacts
      <3> QED
        BY <1>3, <3>1 DEF Share
    <2>2. v[b] = Tally(H, u)
      BY DEF HeldAmount
    <2>3. P[b] \in SUBSET H /\ \A k \in H : k \in P[b] <=> g[k] = b
      OBVIOUS
    <2> HIDE DEF u, H, P, w, g, v
    <2>4. Tally(P[b], u) = Tally(H, u)
      <3>1. \A k \in H \ P[b] : u[k] = 0
        BY <2>1, <2>3
      <3> QED
        BY <2>3, <3>1, TallySupport
    <2>5. Tally(P[b], u) = Tally(P[b], w)
      <3>1. \A k \in P[b] : u[k] = w[k]
        BY <2>1, <2>3
      <3> QED
        BY <3>1, TallySame
    <2> QED
      BY <2>2, <2>4, <2>5
  <1>7. Hit(n, h) \subseteq Elements(h) /\ \A b \in Elements(h) \ Hit(n, h) : v[b] = 0
    <2>1. \A b \in Elements(h) : HeldAmount(n, <<h, b>>) \in Nat
      BY CellFacts, HeldFacts
    <2> QED
      BY <2>1 DEF Hit
  <1>8. \A b \in Hit(n, h) : e[b] = v[b]
    BY <1>7
  <1>9. Mass(ElementShares(n, h)) = Tally(Hit(n, h), e)
    BY DEF Mass, ElementShares
  <1> HIDE DEF w, H, g, P, v, e
  <1>10. Tally(0 .. m - 1, v) = Tally(Fitting(n, h), w)
    <2>1. \A b \in 0 .. m - 1 : v[b] = Tally(P[b], w)
      BY <1>1, <1>6
    <2>2. 0 \in Int /\ m - 1 \in Int
      OBVIOUS
    <2> QED
      BY <1>2, <1>4, <1>5, <2>1, <2>2, TallyGroups, SMTT(60)
  <1>11. Tally(Hit(n, h), v) = Tally(Elements(h), v)
    BY <1>7, TallySupport
  <1>12. Tally(Hit(n, h), e) = Tally(Hit(n, h), v)
    BY <1>8, TallySame
  <1> QED
    BY <1>1, <1>9, <1>10, <1>11, <1>12 DEF w

\* In a histogram of ports or addresses every packet has its element.
LEMMA HistogramMass ==
  ASSUME TypeOK, NEW n \in Positions, NEW h \in Histograms
  PROVE  Mass(ElementShares(n, h)) = HeldAmount(n, <<Unit(h), 0>>)
  <1>1. h \in Kinds /\ h \notin Scalars /\ h # "num_packet_sizes"
    BY DEF Kinds, Scalars, Histograms
  <1>2. \A k \in Held(n) : capture[k].frame \in Frame /\ k \in Wanted /\ k \in 1 .. Len(capture)
    BY HeldFacts DEF Held, Collected
  <1>3. Fitting(n, h) = Held(n)
    <2>1. \A k \in Held(n) : Bucket(capture[k].frame)[h] \in 0 .. NumPorts - 1
      BY <1>2, BucketType DEF Histograms
    <2>2. Elements(h) = 0 .. NumPorts - 1
      BY CellFacts
    <2> QED
      BY <2>1, <2>2 DEF Fitting
  <1>4. \A k \in Held(n) : Worth(h)[k] = Weight(<<Unit(h), 0>>)[k]
    <2> SUFFICES ASSUME NEW k \in Held(n) PROVE Worth(h)[k] = Weight(<<Unit(h), 0>>)[k]
      OBVIOUS
    <2>1. Worth(h)[k] = psize(capture[k].frame)
      BY <1>1, <1>2 DEF Worth
    <2>2. Weight(<<Unit(h), 0>>)[k] = Share(capture[k].frame, <<Unit(h), 0>>)
      BY <1>2, HeldFacts
    <2>3. Share(capture[k].frame, <<Unit(h), 0>>) = psize(capture[k].frame)
      BY DEF Share, Unit, Scalars, Amounts, psize
    <2> QED
      BY <2>1, <2>2, <2>3
  <1>5. Tally(Held(n), Worth(h)) = Tally(Held(n), Weight(<<Unit(h), 0>>))
    BY <1>4, TallySame
  <1> QED
    BY <1>1, <1>3, <1>5, ElementMass DEF HeldAmount

\* In the table of sizes the large packets have none.
LEMMA SizesMass ==
  ASSUME TypeOK, NEW n \in Positions, NEW large,
         large = {k \in Held(n) : capture[k].frame.len >= NumSizes}
  PROVE  Mass(ElementShares(n, "num_packet_sizes")) + Cardinality(large)
           = HeldAmount(n, <<"num_packets", 0>>)
  <1> DEFINE h == "num_packet_sizes"  T == Fitting(n, h)  w == Worth(h)
             c == <<"num_packets", 0>>
  <1>1. h \in Kinds /\ h \notin Scalars
    BY DEF Kinds, Scalars
  <1>2. \A k \in Held(n) : capture[k].frame \in Frame /\ k \in Wanted /\ k \in 1 .. Len(capture)
    BY HeldFacts DEF Held, Collected
  <1>3. \A k \in Held(n) : k \in T <=> ~(capture[k].frame.len >= NumSizes)
    <2>1. Elements(h) = 0 .. NumSizes - 1
      BY CellFacts
    <2>2. \A k \in Held(n) : /\ Bucket(capture[k].frame)[h] = capture[k].frame.len
                             /\ capture[k].frame.len \in Nat
      BY <1>2 DEF Bucket, Frame
    <2> QED
      BY <2>1, <2>2, CellAssumption DEF Fitting
  <1>4. T \cup large = Held(n) /\ T \cap large = {}
    BY <1>3 DEF Fitting
  <1>5. \A k \in Held(n) : w[k] = 1 /\ Weight(c)[k] = 1
    <2>1. \A k \in Held(n) : Weight(c)[k] = Share(capture[k].frame, c)
      BY <1>2, HeldFacts
    <2>2. \A k \in Held(n) : Weight(c)[k] = 1
      BY <2>1, ShareOfOne
    <2>3. \A k \in Held(n) : w[k] = 1
      BY <1>2 DEF Worth
    <2> QED
      BY <2>2, <2>3
  <1>6. Mass(ElementShares(n, h)) = Tally(T, w)
    BY <1>1, ElementMass
  <1>7. IsFiniteSet(T) /\ IsFiniteSet(large)
    <2>1. T \subseteq Held(n) /\ large \subseteq Held(n)
      BY <1>4
    <2> HIDE DEF T
    <2> QED
      BY <2>1, HeldFacts, FS_Subset
  <1> HIDE DEF T, w, c, h
  <1>8. Tally(T \cup large, w) = Tally(T, w) + Tally(large, w)
    <2>1. \A k \in T \cup large : w[k] \in Nat
      BY <1>4, <1>5
    <2> QED
      BY <1>4, <1>7, <2>1, TallyUnion
  <1>9. Tally(large, w) = Cardinality(large)
    BY <1>4, <1>5, <1>7, TallyOnes
  <1>10. Tally(Held(n), w) = Tally(Held(n), Weight(c))
    BY <1>5, TallySame
  <1> QED
    BY <1>4, <1>6, <1>8, <1>9, <1>10 DEF HeldAmount, c, h

\* The windows that were evaluated are those behind j.
LEMMA EvaluatedFacts ==
  ASSUME ProgramInv, NEW n \in Slots, result[n] # W!Blank
  PROVE  n \in Positions /\ n < j /\ result[n] = ReportOf(n)
  <1>1. result[n] = IF n < j THEN ReportOf(n) ELSE W!Blank
    BY DEF ProgramInv
  <1>2. n < j /\ result[n] = ReportOf(n)
    BY <1>1
  <1>3. j \in Nat /\ j <= num_intervals - NumSubintervals
    BY DEF ProgramInv, WP!TotalsInv
  <1> QED
    BY <1>2, <1>3, PartsAssumptions, SizeAssumption DEF Positions, Slots

\* In every window that was evaluated the numerators of each entropy add up to its
\* denominator, up to the packets too large for the table of sizes; and none is zero,
\* except those of the packets without DF.
THEOREM TermsDistribute == SpecProgram => []TermsAreDistributions
  <1>1. ASSUME CaptureInv, ProgramInv
        PROVE  TermsAreDistributions
    <2> DEFINE large(n) == {k \in Wanted : /\ Slot(TimeOf(k)) \in n .. n + NumSubintervals - 1
                                          /\ k <= pos
                                          /\ capture[k].frame.len >= NumSizes}
               ok(n, h, e) ==
                 /\ Mass(e) + (IF h = "num_packet_sizes" THEN Cardinality(large(n)) ELSE 0)
                      = e.over
                 /\ h # "num_df" => \A i \in DOMAIN e.terms : e.terms[i] # 0
    <2>1. SUFFICES ASSUME NEW n \in Evaluated, NEW h \in DOMAIN result[n].ent
                   PROVE  ok(n, h, result[n].ent[h])
      BY DEF TermsAreDistributions
    <2>2. n \in Positions /\ result[n] = ReportOf(n) /\ TypeOK
      BY <1>1, EvaluatedFacts DEF Evaluated, CaptureInv
    <2> DEFINE e == IF h \in Scalars THEN TimeShares(n, h) ELSE ElementShares(n, h)
    <2>3. h \in Kinds /\ result[n].ent[h] = e
      BY <2>2 DEF ReportOf
    <2>4. CASE h \in Scalars
      <3>1. h # "num_packet_sizes" /\ e = TimeShares(n, h)
            /\ (h # "num_df" => h \in {"num_packets", "num_bytes"})
        BY <2>3, <2>4 DEF Scalars, Kinds, Histograms
      <3>2. Mass(e) = HeldAmount(n, <<h, 0>>) /\ e.over = HeldAmount(n, <<h, 0>>)
            /\ DOMAIN e.terms = Busy(n) /\ \A i \in Busy(n) : e.terms[i] = AmountAt(i, <<h, 0>>)
        BY <2>2, <2>4, <3>1, TimeMass DEF TimeShares
      <3>3. HeldAmount(n, <<h, 0>>) \in Nat
        BY <2>2, <2>4, HeldFacts, CellFacts
      <3>4. h # "num_df" => \A i \in Busy(n) : AmountAt(i, <<h, 0>>) # 0
        BY <2>2, <3>1, BusyNotZero
      <3> HIDE DEF e, large
      <3> QED
        BY <2>3, <3>1, <3>2, <3>3, <3>4
    <2>5. CASE h \notin Scalars
      <3>1. e = ElementShares(n, h) /\ h \in Histograms \cup {"num_packet_sizes"}
        BY <2>3, <2>5, CellFacts
      <3>2. /\ e.over = HeldAmount(n, <<Unit(h), 0>>) /\ DOMAIN e.terms = Hit(n, h)
            /\ \A b \in Hit(n, h) : e.terms[b] = HeldAmount(n, <<h, b>>)
        BY <3>1 DEF ElementShares
      <3>3. \A b \in Hit(n, h) : HeldAmount(n, <<h, b>>) # 0
        BY DEF Hit
      <3>4. HeldAmount(n, <<Unit(h), 0>>) \in Nat
        BY <2>2, <2>3, <2>5, HeldFacts, CellFacts
      <3>5. CASE h \in Histograms
        <4>1. Mass(e) = e.over /\ h # "num_packet_sizes"
          BY <2>2, <3>1, <3>2, <3>5, HistogramMass DEF Histograms
        <4> HIDE DEF e, large
        <4>2. Mass(e) + 0 = e.over
          BY <3>2, <3>4, <4>1
        <4>3. \A i \in DOMAIN e.terms : e.terms[i] # 0
          BY <3>2, <3>3
        <4> QED
          BY <2>3, <4>1, <4>2, <4>3
      <3>6. CASE h = "num_packet_sizes"
        <4>1. large(n) = {k \in Held(n) : capture[k].frame.len >= NumSizes}
          <5>1. n .. n + NumSubintervals - 1 \subseteq Slots
            BY <2>2, PartsAssumptions, SizeAssumption DEF Positions, Slots
          <5> QED
            BY <5>1 DEF Held, Collected
        <4>2. Unit(h) = "num_packets"
          BY <3>6 DEF Unit, Histograms
        <4> HIDE DEF large
        <4>3. Mass(ElementShares(n, "num_packet_sizes")) + Cardinality(large(n))
                = HeldAmount(n, <<"num_packets", 0>>)
          BY <2>2, <4>1, SizesMass
        <4> HIDE DEF e
        <4> QED
          BY <2>3, <3>1, <3>2, <3>3, <3>6, <4>2, <4>3
      <3> QED
        BY <3>1, <3>5, <3>6
    <2> QED
      BY <2>4, <2>5
  <1> QED
    BY <1>1, ProgramInvariant, PTL

\* The flows that have a term in the entropy of a window are those of its packets.
LEMMA FlowsOfWindow ==
  ASSUME TypeOK, TracesHeld, pc = "parsed", FP!FlowInv, phase = "done",
         FirstWindow = NumSubintervals, NEW n \in 0 .. num_intervals - 2 * NumSubintervals - 1
  PROVE  DOMAIN ent_fsd[n].terms = {FlowOf(k) : k \in Held(n)} \cap FP!FlowIds
  <1> DEFINE V == n .. n + NumSubintervals - 1
             at(r) == flows[<<r.src, r.dst>>]
  <1>1. V \subseteq Slots /\ n \in Slots
    BY PartsAssumptions, SizeAssumption DEF Slots
  <1>2. ent_fsd[n] = FP!Entropy(n)
    <2>1. t >= num_intervals - NumSubintervals /\ t \in Int
      BY PartsAssumptions DEF FP!FlowInv, FP!PhaseOK
    <2>2. n \in (FirstWindow - NumSubintervals) .. (t - NumSubintervals) - 1
      BY <2>1, PartsAssumptions, SizeAssumption
    <2>3. FP!WindowOK(n)
      BY <1>1 DEF FP!FlowInv, FP!Slots, Slots
    <2> QED
      BY <2>2, <2>3 DEF FP!WindowOK
  <1>3. FP!Window(n) = V
    BY SizeAssumption DEF FP!Window
  <1>4. DOMAIN ent_fsd[n].terms = {m \in FP!FlowIds : \E i \in V : FP!Carried(i, m) # {}}
    BY <1>2, <1>3 DEF FP!Entropy
  <1>5. ASSUME NEW i \in V, NEW m
        PROVE  FP!Carried(i, m) # {} <=> \E k \in Members(i) : FlowOf(k) = m
    <2>1. FP!Carried(i, m) # {} <=> \E r \in TracesIn(i) : at(r) = m
      BY DEF FP!Carried, TracesIn
    <2>2. TracesIn(i) = {Trace(capture[k].frame) : k \in Members(i)}
      BY <1>1 DEF TracesHeld
    <2>3. \A k : FlowOf(k) = at(Trace(capture[k].frame))
      BY DEF FlowOf
    <2> HIDE DEF at
    <2> QED
      BY <2>1, <2>2, <2>3
  <1>6. \A k : k \in Held(n) <=> \E i \in V : k \in Members(i)
    BY <1>1 DEF Held, Collected, Members
  <1> HIDE DEF V
  <1> QED
    BY <1>4, <1>5, <1>6

\* What is written into one row by the flow table and by the loop of the entropies is about
\* the same packets, those of the window.
THEOREM WindowsAreAligned == SpecProgram => []WindowsAligned
  <1>1. ASSUME CaptureInv, TracesHeld, ProgramInv
        PROVE  WindowsAligned
    <2>1. SUFFICES ASSUME stage = "done", FirstWindow = NumSubintervals,
                          NEW n \in 0 .. num_intervals - 2 * NumSubintervals - 1
                   PROVE  /\ output[n].window.tot_pktnum = Cardinality(InWindow(n))
                          /\ DOMAIN output[n].fsd.terms
                               = {FlowOf(k) : k \in InWindow(n)} \cap F!FlowIds
      BY DEF WindowsAligned
    <2>2. TypeOK /\ pc = "parsed" /\ FP!FlowInv /\ phase = "done" /\ WrittenOK
      BY <1>1, <2>1 DEF ProgramInv, CaptureInv
    <2>3. n \in Slots /\ n # num_intervals /\ n \in Positions
      BY PartsAssumptions, SizeAssumption DEF Slots, Positions
    <2>4. output[n].fsd = ent_fsd[n] /\ output[n].window = result[n]
      BY <2>2, <2>3 DEF WrittenOK
    <2>5. result[n] = ReportOf(n)
      <3>1. j = num_intervals - NumSubintervals
        BY <1>1, <2>1 DEF ProgramInv, WP!BytesInv
      <3>2. n < j
        BY <3>1, PartsAssumptions, SizeAssumption
      <3> QED
        BY <1>1, <2>3, <3>2 DEF ProgramInv
    <2>6. InWindow(n) = Held(n)
      <3>1. n .. n + NumSubintervals - 1 \subseteq Slots
        BY <2>3, PartsAssumptions, SizeAssumption DEF Positions, Slots
      <3> QED
        BY <3>1 DEF InWindow, Held, Collected
    <2>7. HeldAmount(n, <<"num_packets", 0>>) = Cardinality(Held(n))
      <3> DEFINE w == Weight(<<"num_packets", 0>>)
      <3>1. \A k \in Held(n) : w[k] = 1
        BY <2>2, HeldFacts, ShareOfOne DEF Held, Collected
      <3>2. IsFiniteSet(Held(n))
        BY <2>2, HeldFacts
      <3> HIDE DEF w
      <3>3. Tally(Held(n), w) = Cardinality(Held(n))
        BY <3>1, <3>2, TallyOnes
      <3> QED
        BY <3>3 DEF HeldAmount, w
    <2>8. DOMAIN ent_fsd[n].terms = {FlowOf(k) : k \in Held(n)} \cap FP!FlowIds
      BY <1>1, <2>1, <2>2, FlowsOfWindow
    <2>9. F!FlowIds = FP!FlowIds
      BY DEF F!FlowIds, FP!FlowIds
    <2> QED
      BY <2>4, <2>5, <2>6, <2>7, <2>8, <2>9 DEF ReportOf
  <1>2. SpecProgram => []TracesHeld
    BY ProgramReads, TracesAreHeld, PTL
  <1> QED
    BY <1>1, <1>2, ProgramInvariant, PTL

=====================================================================================
