-------------------------------- MODULE MergeProofs --------------------------------
(***********************************************************************************)
(* What is proved of Merge, for every set of captures, every delay and every size of   *)
(* the two arrays.                                                                   *)
(***********************************************************************************)
EXTENDS Merge, TallyTheorems, SequenceTheorems

\* A record as it is written, with a time stamp.
Packet(k, ts) ==
  [ts |-> ts, caplen |-> capture[k].caplen, data |-> SubSeq(Data(k), 1, capture[k].caplen)]
Packets == {Packet(k, ts) : k \in Records, ts \in Int}

\* Where the data of the header i begins in buffer, counted from its start, and the record
\* that was put there.
Lens == [i \in DOMAIN hdrs |-> hdrs[i].len]
Start(i) == Tally(0 .. i - 1, Lens)
RecordAt(i) == buffer[Start(i)][1]

\* The records that were put into the queue, and when they are due.
Queued == Handled \cap Held
DueAt(k) == TimeOf(k) + Shift
Late(k) == TimeOf(k) > Delay
-------------------------------------------------------------------------------------
(* The inductive invariant.                                                          *)

MergeTypeOK ==
  /\ capture \in Captures
  /\ pc \in {"open", "reading", "releasing", "done", "failed", "overrun"}
  /\ pos \in 0 .. Len(capture)
  /\ sec_first \in BOOLEAN /\ sec_first2 \in BOOLEAN
  /\ sec_offs \in Int /\ sec_offs2 \in Int
  /\ hdrs \in [0 .. HdrRoom - 1 -> [ts : Int, len : Nat, caplen : Nat]]
  /\ buffer \in [0 .. BufferRoom - 1 -> Nat \X Nat]
  /\ hdrs_tail \in 0 .. HdrRoom /\ hdrs_head \in 0 .. hdrs_tail
  /\ buffer_tail \in 0 .. BufferRoom /\ buffer_head \in Nat
  /\ output \in Seq(Packets)
  /\ num_attack_packets \in Nat /\ num_normal_packets \in Nat

\* The two clocks, and where the program is.
ClockOK ==
  /\ sec_first <=> pos = 0
  /\ pos > 0 => sec_offs = capture[1].ts - OffsetTicks
  /\ sec_first2 <=> \A k \in EarlyHeld : k > pos
  /\ sec_first2 => sec_offs2 = 0
  /\ ~sec_first2 => \E k \in EarlyHeld : /\ sec_offs2 = TimeOf(k)
                                         /\ \A m \in EarlyHeld : k <= m
  /\ pc = "releasing" => pos > 0 /\ Late(pos)
  /\ pc = "overrun" => pos \in Held
  /\ pc = "done" => pos = Len(capture)

\* What the counters and the tails of the arrays count.
CountsOK ==
  /\ hdrs_tail = Cardinality(Queued)
  /\ hdrs_head = num_attack_packets
  /\ num_normal_packets = Cardinality({k \in Handled : ~capture[k].target})
  /\ Len(output) = num_normal_packets + num_attack_packets
  /\ buffer_tail = Tally(Queued, [k \in Records |-> capture[k].len])

\* The headers that were put in lie in order, each with its data in its own place.
ArenaOK ==
  /\ buffer_head = Start(hdrs_head)
  /\ buffer_tail = Start(hdrs_tail)
  /\ \A i \in 0 .. hdrs_tail - 1 :
       LET k == RecordAt(i)
       IN  /\ k \in Queued
           /\ hdrs[i].len = capture[k].len /\ hdrs[i].caplen = capture[k].caplen
           /\ i >= hdrs_head => hdrs[i].ts = capture[k].ts
           /\ Start(i) + capture[k].len <= buffer_tail
           /\ \A b \in 1 .. capture[k].len : buffer[Start(i) + b - 1] = Data(k)[b]
           /\ \A h \in 0 .. i - 1 : RecordAt(h) < k
  /\ \A k \in Queued : \E i \in 0 .. hdrs_tail - 1 : RecordAt(i) = k

\* What was written: the packets that are not for the target, and those taken out of the
\* queue, which are the first ones in it, in their order.
OutputOK ==
  /\ \A k \in Sent : k \in Handled /\ (capture[k].target => k \in Held)
  /\ \A k \in Handled : ~capture[k].target => k \in Sent
  /\ Cardinality(Taken) = hdrs_head
  /\ \A i \in 0 .. hdrs_head - 1 : \E n \in Taken : Cardinality({m \in Taken : m <= n}) = i + 1
  /\ \A n \in Taken : \A i \in Nat :
       Cardinality({m \in Taken : m <= n}) = i + 1 =>
         i < hdrs_head /\ Origin(output[n]) = RecordAt(i)

\* For a capture in time order: the times written, and how they compare with the times at
\* which the packets in the queue are due.
TimesOK ==
  InOrder =>
    /\ AttackKeepsRhythm
    /\ \A m, n \in 1 .. Len(output) : m < n => output[m].ts <= output[n].ts
    /\ \A n \in 1 .. Len(output) :
         /\ output[n].ts <= TimeOf(pos)
         /\ \A i \in hdrs_head .. hdrs_tail - 1 : output[n].ts <= DueAt(RecordAt(i))

\* What is still in the queue was not due yet, what was taken out was.
DueOK ==
  InOrder =>
    /\ \A i \in hdrs_head .. hdrs_tail - 1 : \A m \in Handled :
         m > RecordAt(i) /\ Late(m) => DueAt(RecordAt(i)) >= TimeOf(m)
    /\ \A i \in 0 .. hdrs_head - 1 : \E m \in 1 .. pos :
         m > RecordAt(i) /\ Late(m) /\ DueAt(RecordAt(i)) < TimeOf(m)

-------------------------------------------------------------------------------------
(* The records of a capture.                                                         *)

\* Times and lengths are numbers, and there are finitely many records.
LEMMA RecordFacts ==
  ASSUME capture \in Captures
  PROVE  /\ Len(capture) \in Nat
         /\ IsFiniteSet(Records)
         /\ \A k \in Records : /\ capture[k].ts \in Nat
                               /\ capture[k].len \in Nat \ {0}
                               /\ capture[k].caplen \in Nat \ {0}
                               /\ capture[k].target \in BOOLEAN
                               /\ TimeOf(k) \in Int
                               /\ 1 \in Records
  <1>1. capture \in Seq([ts : Nat, len : Nat \ {0}, caplen : Nat \ {0}, target : BOOLEAN])
    BY MergeAssumption
  <1>2. Len(capture) \in Nat /\ DOMAIN capture = 1 .. Len(capture)
    BY <1>1, LenProperties
  <1>3. \A k \in Records :
          capture[k] \in [ts : Nat, len : Nat \ {0}, caplen : Nat \ {0}, target : BOOLEAN]
    BY <1>1, ElementOfSeq DEF Records
  <1>4. \A k \in Records : 1 \in Records
    BY <1>2 DEF Records
  <1>5. IsFiniteSet(Records)
    BY <1>2, FS_Interval DEF Records
  <1>6. \A k \in Records : capture[k].ts \in Nat
    BY <1>3
  <1> QED
    BY <1>2, <1>3, <1>4, <1>5, <1>6, MergeAssumption, SMTT(30) DEF TimeOf

\* In a capture in time order a later record has no earlier time.
LEMMA TimesGrow ==
  ASSUME capture \in Captures, InOrder,
         NEW k \in Records, NEW m \in Records, k <= m
  PROVE  TimeOf(k) <= TimeOf(m)
  <1> DEFINE a == capture[k].ts  b == capture[m].ts  o == capture[1].ts
  <1>1. OffsetTicks \in Int /\ a \in Int /\ b \in Int /\ o \in Int
    BY RecordFacts, MergeAssumption
  <1>2. a <= b
    BY <1>1 DEF InOrder, Records
  <1>3. TimeOf(k) = a - o + OffsetTicks /\ TimeOf(m) = b - o + OffsetTicks
    BY DEF TimeOf
  <1> HIDE DEF a, b, o
  <1> QED
    BY <1>1, <1>2, <1>3

\* The common delay is never negative, and takes the packets that came early past the end
\* of the delay.
LEMMA ShiftFacts ==
  ASSUME capture \in Captures
  PROVE  /\ Shift \in Nat
         /\ \A k \in EarlyHeld : (\A m \in EarlyHeld : k <= m) => Shift = Delay - TimeOf(k)
         /\ EarlyHeld = {} => Shift = Delay
         /\ \A k \in Held : DueAt(k) \in Int /\ DueAt(k) >= TimeOf(k)
         /\ InOrder => \A k \in Held : DueAt(k) >= Delay
  <1>0. /\ EarlyHeld \subseteq Held /\ Held \subseteq Records /\ Records \subseteq Nat
        /\ \A k \in Records : TimeOf(k) \in Int
        /\ \A k \in EarlyHeld : TimeOf(k) < Delay
        /\ Delay \in Nat
    BY RecordFacts, MergeAssumption DEF EarlyHeld, Held, Records
  <1> DEFINE first == CHOOSE k \in EarlyHeld : \A m \in EarlyHeld : k <= m
  <1>1. CASE EarlyHeld = {}
    <2>1. Shift = Delay
      BY <1>1 DEF Shift
    <2>2. \A k \in Held : TimeOf(k) >= Delay
      BY <1>0, <1>1 DEF EarlyHeld
    <2> QED
      BY <1>0, <1>1, <2>1, <2>2 DEF DueAt
  <1>2. CASE EarlyHeld # {}
    <2>1. \E k \in EarlyHeld : \A m \in EarlyHeld : k <= m
      BY <1>0, <1>2, SmallestElement
    <2>2. first \in EarlyHeld /\ \A m \in EarlyHeld : first <= m
      BY <2>1
    <2>3. Shift = Delay - TimeOf(first)
      BY <1>2 DEF Shift
    <2> HIDE DEF first
    <2>4. \A k \in EarlyHeld : (\A m \in EarlyHeld : k <= m) => k = first
      BY <1>0, <2>2
    <2>5. Shift \in Nat
      BY <1>0, <2>2, <2>3
    <2>6. ASSUME InOrder, NEW k \in Held
          PROVE  TimeOf(k) + Shift >= Delay
      <3>1. CASE TimeOf(k) < Delay
        <4>1. first <= k /\ first \in Records /\ k \in Records /\ 1 \in Records
          BY <1>0, <2>2, <3>1, RecordFacts DEF EarlyHeld
        <4>4. TimeOf(first) <= TimeOf(k)
          BY <2>6, <4>1, TimesGrow
        <4> QED
          BY <1>0, <2>2, <2>3, <4>1, <4>4
      <3>2. CASE TimeOf(k) >= Delay
        BY <1>0, <2>5, <3>2
      <3> QED
        BY <1>0, <3>1, <3>2
    <2>7. \A k \in Held : DueAt(k) \in Int /\ DueAt(k) >= TimeOf(k)
      BY <1>0, <2>5 DEF DueAt
    <2>8. InOrder => \A k \in Held : DueAt(k) >= Delay
      BY <2>6 DEF DueAt
    <2> QED
      BY <1>2, <2>3, <2>4, <2>5, <2>7, <2>8
  <1> QED
    BY <1>1, <1>2

\* A packet written tells the record it came from, and carries its data.
LEMMA PacketFacts ==
  ASSUME capture \in Captures, NEW k \in Records, NEW ts \in Int
  PROVE  /\ Packet(k, ts) \in Packets
         /\ Origin(Packet(k, ts)) = k
         /\ Packet(k, ts).ts = ts
  <1>1. capture[k].len \in Nat \ {0} /\ capture[k].caplen \in Nat \ {0}
    BY RecordFacts
  <1> DEFINE d == Data(k)  c == capture[k].caplen
             S == {d[i] : i \in 1 .. c}
  <1>2. d[1] = <<k, 1>>
    BY <1>1 DEF Data
  <1>3. c \in Nat \ {0} /\ \A i \in 1 .. c : d[i] \in S
    BY <1>1
  <1> HIDE DEF d, c, S
  <1>4. SubSeq(d, 1, c)[1] = d[1]
    <2>1. \A i \in 1 .. c - 1 + 1 : SubSeq(d, 1, c)[i] = d[1 + i - 1]
      BY <1>3, SubSeqProperties
    <2> QED
      BY <1>3, <2>1
  <1>5. Origin(Packet(k, ts)) = k
    <2>1. SubSeq(Data(k), 1, capture[k].caplen)[1] = <<k, 1>>
      BY <1>2, <1>4 DEF d, c
    <2>2. Packet(k, ts).data = SubSeq(Data(k), 1, capture[k].caplen)
      BY DEF Packet
    <2>3. <<k, 1>>[1] = k
      OBVIOUS
    <2> QED
      BY <2>1, <2>2, <2>3, Zenon DEF Origin
  <1>6. Packet(k, ts) \in Packets
    BY DEF Packets
  <1>7. Packet(k, ts).ts = ts
    BY DEF Packet
  <1> QED
    BY <1>5, <1>6, <1>7

\* Every packet in the output is the record it came from, with a time.
LEMMA OutputFacts ==
  ASSUME capture \in Captures, output \in Seq(Packets), NEW n \in 1 .. Len(output)
  PROVE  /\ Origin(output[n]) \in Records
         /\ output[n].ts \in Int
         /\ output[n] = Packet(Origin(output[n]), output[n].ts)
  <1>1. PICK k \in Records, ts \in Int : output[n] = Packet(k, ts)
    BY ElementOfSeq DEF Packets
  <1> QED
    BY <1>1, PacketFacts

\* What only the capture determines does not change with it.
LEMMA SameCapture ==
  ASSUME capture' = capture
  PROVE  /\ Records' = Records /\ Held' = Held /\ EarlyHeld' = EarlyHeld
         /\ Shift' = Shift /\ InOrder' = InOrder /\ Packets' = Packets
         /\ \A k : /\ (TimeOf(k))' = TimeOf(k) /\ (Data(k))' = Data(k)
                   /\ (DueAt(k))' = DueAt(k) /\ (Late(k))' = Late(k)
  <1>1. Records' = Records /\ \A k : (TimeOf(k))' = TimeOf(k) /\ (Data(k))' = Data(k)
    BY DEF Records, TimeOf, Data
  <1>2. Held' = Held /\ EarlyHeld' = EarlyHeld
    BY <1>1 DEF Held, EarlyHeld
  <1>3. Shift' = Shift
    BY <1>1, <1>2 DEF Shift
  <1>4. InOrder' = InOrder
    BY <1>1 DEF InOrder
  <1>5. Packets' = Packets
    BY <1>1 DEF Packets, Packet
  <1> QED
    BY <1>1, <1>2, <1>3, <1>4, <1>5 DEF DueAt, Late

-------------------------------------------------------------------------------------
(* Where the data of the queue lie.                                                  *)

\* The lengths of the headers are numbers.
LEMMA LensType ==
  ASSUME hdrs \in [0 .. HdrRoom - 1 -> [ts : Int, len : Nat, caplen : Nat]]
  PROVE  \A i \in 0 .. HdrRoom - 1 : Lens[i] = hdrs[i].len /\ Lens[i] \in Nat
  BY DEF Lens

\* The data of a header begin where those of the one before it end.
LEMMA StartFacts ==
  ASSUME hdrs \in [0 .. HdrRoom - 1 -> [ts : Int, len : Nat, caplen : Nat]]
  PROVE  /\ Start(0) = 0
         /\ \A i \in 0 .. HdrRoom : Start(i) \in Nat
         /\ \A i \in 0 .. HdrRoom - 1 : Start(i + 1) = Start(i) + hdrs[i].len
  <1>1. Start(0) = 0
    <2>1. 0 .. 0 - 1 = {}
      OBVIOUS
    <2> QED
      BY <2>1, TallyEmpty DEF Start
  <1>2. HdrRoom \in Nat /\ \A i \in 0 .. HdrRoom - 1 : Lens[i] = hdrs[i].len /\ Lens[i] \in Nat
    BY RoomAssumption, LensType
  <1> QED
    BY <1>1, <1>2, TallyNext DEF Start

\* What comes later in the queue does not move what came before.
LEMMA StartSame ==
  ASSUME hdrs \in [0 .. HdrRoom - 1 -> [ts : Int, len : Nat, caplen : Nat]],
         hdrs' \in [0 .. HdrRoom - 1 -> [ts : Int, len : Nat, caplen : Nat]],
         NEW i \in 0 .. HdrRoom, \A h \in 0 .. i - 1 : hdrs'[h].len = hdrs[h].len
  PROVE  (Start(i))' = Start(i)
  <1>1. \A h \in 0 .. i - 1 : h \in 0 .. HdrRoom - 1
    BY RoomAssumption
  <1>2. \A h \in 0 .. i - 1 : Lens'[h] = Lens[h]
    BY <1>1 DEF Lens
  <1> QED
    BY <1>2, TallySame DEF Start

\* The place from which queue_pop() reads a packet is the one queue_push() wrote it to.
LEMMA DataStartIs ==
  ASSUME hdrs \in [0 .. HdrRoom - 1 -> [ts : Int, len : Nat, caplen : Nat]],
         hdrs_tail \in 0 .. HdrRoom, hdrs_head \in 0 .. hdrs_tail,
         buffer_head = Start(hdrs_head), NEW k \in 1 .. hdrs_tail - hdrs_head
  PROVE  DataStart(k) = Start(hdrs_head + k - 1)
  <1> DEFINE S == 0 .. hdrs_head - 1  T == hdrs_head .. hdrs_head + k - 2
  <1>0. HdrRoom \in Nat
    BY RoomAssumption
  <1>1. IsFiniteSet(S) /\ IsFiniteSet(T) /\ S \cap T = {}
    <2>1. hdrs_head - 1 \in Int /\ hdrs_head \in Int /\ hdrs_head + k - 2 \in Int
      BY <1>0
    <2>2. IsFiniteSet(S) /\ IsFiniteSet(T)
      <3>1. \A a, b \in Int : IsFiniteSet(a .. b)
        BY FS_Interval
      <3> QED
        BY <2>1, <3>1
    <2>3. S \cap T = {}
      BY <2>1
    <2> QED
      BY <2>2, <2>3
  <1>2. S \cup T = 0 .. (hdrs_head + k - 1) - 1
    BY <1>0
  <1>3. \A h \in S \cup T : Lens[h] \in Nat
    BY <1>0, LensType
  <1>4. Tally(S \cup T, Lens) = Tally(S, Lens) + Tally(T, Lens)
    BY <1>1, <1>3, TallyUnion
  <1>5. DataStart(k) = Start(hdrs_head) + Tally(T, Lens)
    BY DEF DataStart, Lens
  <1> QED
    BY <1>2, <1>4, <1>5 DEF Start

-------------------------------------------------------------------------------------
(* What a step may do: besides the moves of the program counter, a record is put into   *)
(* the queue, written, or dropped, or a packet is taken out of the queue.              *)

\* The record that has been read last is dealt with; one that is late when nothing in the
\* queue is due before it.
Settles ==
  /\ pos' \in Records /\ pos' \notin Handled
  /\ Handled' = Handled \cup {pos'}
  /\ \A k \in Handled : k < pos'
  /\ Late(pos') => pc = "releasing" /\ pos' = pos /\ ~SomeDue

Moves == Handled' = Handled /\ UNCHANGED <<written, arenaVars>>

Enqueues ==
  /\ Settles
  /\ pos' \in Held
  /\ Push(Hdr(capture[pos']), Data(pos'))
  /\ UNCHANGED written

Drops ==
  /\ Settles
  /\ capture[pos'].target /\ pos' \notin Held
  /\ UNCHANGED <<written, arenaVars>>

Passes ==
  /\ Settles
  /\ ~capture[pos'].target
  /\ num_normal_packets' = num_normal_packets + 1
  /\ output' = Append(output, Packet(pos', Stamp(TimeOf(pos'))))
  /\ UNCHANGED <<num_attack_packets, arenaVars>>

Releases ==
  /\ Release
  /\ Handled' = Handled

StepKind == Moves \/ Enqueues \/ Drops \/ Passes \/ Releases

\* The time of the record that is read, and of the one read last, is the one that the
\* capture gives it.
LEMMA ClockFacts ==
  ASSUME MergeTypeOK, ClockOK
  PROVE  /\ pos < Len(capture) => pos + 1 \in Records /\ NextTime = TimeOf(pos + 1)
         /\ pos < Len(capture) => Offset = capture[1].ts - OffsetTicks
         /\ pos > 0 => pos \in Records /\ Time = TimeOf(pos)
  <1>1. capture \in Captures /\ pos \in 0 .. Len(capture) /\ Len(capture) \in Nat
    BY RecordFacts DEF MergeTypeOK
  <1> DEFINE o == capture[1].ts
  <1>2. OffsetTicks \in Int
    BY MergeAssumption
  <1>3. ASSUME pos < Len(capture)
        PROVE  /\ pos + 1 \in Records /\ NextTime = TimeOf(pos + 1)
               /\ Offset = capture[1].ts - OffsetTicks
    <2>1. pos + 1 \in Records /\ 1 \in Records
      BY <1>1, <1>3 DEF Records
    <2> DEFINE a == capture[pos + 1].ts
    <2>2. a \in Int /\ o \in Int
      BY <1>1, <2>1, RecordFacts
    <2>3. Offset = o - OffsetTicks
      <3>1. CASE pos = 0
        <4>1. sec_first /\ NextRecord = capture[1]
          BY <3>1 DEF ClockOK, NextRecord
        <4> QED
          BY <4>1 DEF Offset
      <3>2. CASE pos > 0
        BY <3>2 DEF ClockOK, Offset
      <3> QED
        BY <1>1, <3>1, <3>2
    <2>4. NextTime = a - Offset /\ TimeOf(pos + 1) = a - o + OffsetTicks
      BY DEF NextTime, NextRecord, TimeOf
    <2>5. Offset = capture[1].ts - OffsetTicks
      BY <2>3
    <2> HIDE DEF a, o
    <2> QED
      BY <1>2, <2>1, <2>2, <2>3, <2>4, <2>5
  <1>4. ASSUME pos > 0
        PROVE  pos \in Records /\ Time = TimeOf(pos)
    <2>1. pos \in Records /\ 1 \in Records
      BY <1>1, <1>4 DEF Records
    <2> DEFINE a == capture[pos].ts
    <2>2. a \in Int /\ o \in Int
      BY <1>1, <2>1, RecordFacts
    <2>3. sec_offs = o - OffsetTicks
      BY <1>4 DEF ClockOK
    <2>4. Time = a - sec_offs /\ TimeOf(pos) = a - o + OffsetTicks
      BY DEF Time, Current, TimeOf
    <2> HIDE DEF a, o
    <2> QED
      BY <1>2, <2>1, <2>2, <2>3, <2>4
  <1> QED
    BY <1>3, <1>4

\* Every step of the merger is of one of these kinds.
LEMMA StepKinds ==
  ASSUME MergeTypeOK, ClockOK, Next
  PROVE  capture' = capture /\ StepKind
  <1>0. capture' = capture
    BY DEF Next, OpenFails, OpenSucceeds, Read, HoldEarly, DropAtDelay, PassEarly, MeetLate,
           Release, HoldLate, PassLate, Finish
  <1>1. /\ pos \in Nat /\ pos <= Len(capture) /\ Len(capture) \in Nat
        /\ Records' = Records /\ Records \subseteq Nat
    BY <1>0, RecordFacts, SameCapture DEF MergeTypeOK, Records
  <1> DEFINE before == {k \in Records : k < pos}
             upto == {k \in Records : k <= pos}
             next == {k \in Records : k <= pos + 1}
  <1> SUFFICES StepKind
    BY <1>0
  <1>2. /\ pc \in {"open", "reading"} => Handled = upto
        /\ pc = "releasing" => Handled = before
    <2>1. ASSUME pc \in {"open", "reading"}
          PROVE  Handled = upto
      BY <2>1 DEF Handled
    <2>2. ASSUME pc = "releasing"
          PROVE  Handled = before
      <3>1. \A k \in Records : (k <= pos /\ ~(k = pos)) <=> k < pos
        BY <1>1
      <3> QED
        BY <2>2, <3>1 DEF Handled
    <2> QED
      BY <2>1, <2>2
  <1>3. /\ pos' = pos /\ pc' \notin {"releasing", "overrun"} => Handled' = upto
        /\ pos' = pos /\ pc' \in {"releasing", "overrun"} => Handled' = before
        /\ pos' = pos + 1 /\ pc' \notin {"releasing", "overrun"} => Handled' = next
        /\ pos' = pos + 1 /\ pc' \in {"releasing", "overrun"} => Handled' = upto
    <2>1. ASSUME pc' \notin {"releasing", "overrun"}
          PROVE  Handled' = {k \in Records : k <= pos'}
      BY <1>1, <2>1 DEF Handled
    <2>2. ASSUME pc' \in {"releasing", "overrun"}
          PROVE  Handled' = {k \in Records : k <= pos' /\ ~(k = pos')}
      BY <1>1, <2>2 DEF Handled
    <2>3. \A k \in Records : /\ (k <= pos /\ ~(k = pos)) <=> k < pos
                             /\ (k <= pos + 1 /\ ~(k = pos + 1)) <=> k <= pos
      BY <1>1
    <2>4. /\ {k \in Records : k <= pos /\ ~(k = pos)} = before
          /\ {k \in Records : k <= pos + 1 /\ ~(k = pos + 1)} = upto
      BY <2>3
    <2> QED
      BY <2>1, <2>2, <2>4
  <1>4. /\ pos + 1 \in Records => next = upto \cup {pos + 1} /\ pos + 1 \notin upto
        /\ pos \in Records => upto = before \cup {pos} /\ pos \notin before
        /\ (\A k \in upto : k < pos + 1) /\ (\A k \in before : k < pos)
    <2>1. \A k \in Records : k <= pos + 1 <=> (k <= pos \/ k = pos + 1)
      BY <1>1
    <2>2. \A k \in Records : k <= pos <=> (k < pos \/ k = pos)
      BY <1>1
    <2>3. pos + 1 \in Records => next = upto \cup {pos + 1}
      BY <2>1
    <2>4. pos \in Records => upto = before \cup {pos}
      BY <2>2
    <2>5. pos + 1 \notin upto /\ pos \notin before
      BY <1>1
    <2>6. (\A k \in upto : k < pos + 1) /\ (\A k \in before : k < pos)
      BY <1>1
    <2> QED
      BY <2>3, <2>4, <2>5, <2>6
  <1> HIDE DEF before, upto, next
  <1>5. /\ pc = "releasing" => pos \in Records /\ Late(pos) /\ Time = TimeOf(pos)
        /\ pc = "releasing" => Current = capture[pos]
    BY ClockFacts, <1>1 DEF ClockOK, Current
  <1>6. ASSUME pc = "reading", pos < Len(capture), pos' = pos + 1, pc' = "reading",
               ~Late(pos')
        PROVE  Settles
    BY <1>1, <1>2, <1>3, <1>4, <1>6, ClockFacts DEF Settles
  <1>7. ASSUME pc = "releasing", pos' = pos, pc' = "reading", ~SomeDue
        PROVE  Settles
    BY <1>1, <1>2, <1>3, <1>4, <1>5, <1>7 DEF Settles
  <1>8. ASSUME Read
        PROVE  /\ pc = "reading" /\ pos < Len(capture) /\ pos' = pos + 1
               /\ NextTime = TimeOf(pos') /\ NextRecord = capture[pos'] /\ pos' \in Records
    BY <1>8, ClockFacts DEF Read, NextRecord
  <1>a. CASE OpenFails
    BY <1>2, <1>3, <1>a DEF OpenFails, StepKind, Moves
  <1>b. CASE OpenSucceeds
    BY <1>2, <1>3, <1>b DEF OpenSucceeds, StepKind, Moves
  <1>c. CASE HoldEarly
    <2>1. Read
      BY <1>c DEF HoldEarly
    <2>2. pos' \in Held /\ ~Late(pos')
      <3>1. TimeOf(pos') < Delay /\ capture[pos'].target /\ pos' \in Records
        BY <1>8, <1>c, <2>1 DEF HoldEarly
      <3>2. TimeOf(pos') \in Int /\ Delay \in Int
        BY <3>1, RecordFacts, MergeAssumption DEF MergeTypeOK
      <3> QED
        BY <3>1, <3>2 DEF Held, Late
    <2>3. CASE Push(Hdr(NextRecord), Data(pos + 1)) /\ UNCHANGED pc
      <3>1. Settles
        BY <1>6, <1>8, <2>1, <2>2, <2>3
      <3>2. Push(Hdr(capture[pos']), Data(pos'))
        BY <1>8, <2>1, <2>3
      <3>3. UNCHANGED written
        BY <1>c DEF HoldEarly
      <3> QED
        BY <2>2, <3>1, <3>2, <3>3 DEF StepKind, Enqueues
    <2>4. CASE Overrun
      BY <1>2, <1>3, <1>8, <1>c, <2>1, <2>4 DEF HoldEarly, Overrun, StepKind, Moves
    <2> QED
      BY <1>c, <2>3, <2>4 DEF HoldEarly
  <1>d. CASE DropAtDelay
    <2>1. Read /\ capture[pos'].target /\ TimeOf(pos') = Delay /\ pc' = "reading"
      BY <1>8, <1>d DEF DropAtDelay
    <2>2. Settles
      <3>1. ~Late(pos')
        BY <2>1, MergeAssumption DEF Late
      <3> QED
        BY <1>6, <1>8, <2>1, <3>1
    <2> QED
      BY <1>d, <2>1, <2>2 DEF DropAtDelay, StepKind, Drops, Held
  <1>e. CASE PassEarly
    <2>1. /\ Read /\ ~capture[pos'].target /\ TimeOf(pos') <= Delay /\ pc' = "reading"
          /\ pos' \in Records /\ pc = "reading"
      BY <1>8, <1>e DEF PassEarly
    <2>2. ~Late(pos')
      <3>1. TimeOf(pos') \in Int /\ Delay \in Int
        BY <2>1, RecordFacts, MergeAssumption DEF MergeTypeOK
      <3> QED
        BY <2>1, <3>1 DEF Late
    <2>3. Settles
      BY <1>6, <1>8, <2>1, <2>2
    <2>4. /\ num_normal_packets' = num_normal_packets + 1
          /\ UNCHANGED <<num_attack_packets, arenaVars>>
          /\ output' = Append(output, Packet(pos', Stamp(TimeOf(pos'))))
      BY <1>8, <1>e, <2>1 DEF PassEarly, Dump, Packet
    <2> QED
      BY <2>1, <2>2, <2>3, <2>4 DEF StepKind, Passes
  <1>f. CASE MeetLate
    <2>1. Read /\ pc' = "releasing" /\ UNCHANGED <<written, arenaVars>>
      BY <1>f DEF MeetLate
    <2> QED
      BY <1>2, <1>3, <1>8, <2>1 DEF StepKind, Moves
  <1>g. CASE Release
    BY <1>2, <1>3, <1>g DEF Release, StepKind, Releases
  <1>h. CASE HoldLate
    <2>1. /\ pc = "releasing" /\ pos' = pos /\ UNCHANGED written /\ capture[pos].target
          /\ ~SomeDue
      BY <1>5, <1>h DEF HoldLate
    <2>2. pos' \in Held
      <3>1. TimeOf(pos) \in Int /\ Delay \in Int
        BY <1>5, <2>1, RecordFacts, MergeAssumption DEF MergeTypeOK
      <3>2. pos \in Records /\ TimeOf(pos) > Delay
        BY <1>5, <2>1 DEF Late
      <3> QED
        BY <2>1, <3>1, <3>2 DEF Held
    <2>3. CASE Push(Hdr(Current), Data(pos)) /\ pc' = "reading"
      <3>1. Settles
        BY <1>7, <2>1, <2>3
      <3>2. Push(Hdr(capture[pos']), Data(pos'))
        BY <1>5, <2>1, <2>3
      <3> QED
        BY <2>1, <2>2, <3>1, <3>2 DEF StepKind, Enqueues
    <2>4. CASE Overrun
      BY <1>2, <1>3, <2>1, <2>4 DEF Overrun, StepKind, Moves
    <2> QED
      BY <1>h, <2>3, <2>4 DEF HoldLate
  <1>i. CASE PassLate
    <2>1. /\ pc = "releasing" /\ pos' = pos /\ pc' = "reading" /\ ~capture[pos'].target
          /\ ~SomeDue
      BY <1>5, <1>i DEF PassLate
    <2>2. Settles
      BY <1>7, <2>1
    <2>3. /\ num_normal_packets' = num_normal_packets + 1
          /\ UNCHANGED <<num_attack_packets, arenaVars>>
          /\ output' = Append(output, Packet(pos', Stamp(TimeOf(pos'))))
      BY <1>5, <1>i, <2>1 DEF PassLate, Dump, Packet
    <2> QED
      BY <2>1, <2>2, <2>3 DEF StepKind, Passes
  <1>j. CASE Finish
    BY <1>2, <1>3, <1>j DEF Finish, StepKind, Moves
  <1> QED
    BY <1>a, <1>b, <1>c, <1>d, <1>e, <1>f, <1>g, <1>h, <1>i, <1>j DEF Next

-------------------------------------------------------------------------------------
(* The values the variables take.                                                    *)

\* The time stamp written for a time that is not negative is that time.
LEMMA StampFacts ==
  ASSUME NEW time \in Int
  PROVE  Stamp(time) \in Int /\ (time >= 0 => Stamp(time) = time)
  <1> DEFINE T == TicksPerSecond
  <1>0. T \in Nat \ {0}
    BY MergeAssumption
  <1>1. time % T \in Int /\ time \div T \in Int /\ (-time) \div T \in Int
    <2> HIDE DEF T
    <2> QED
      BY <1>0, Z3
  <1>2. time >= 0 => (time \div T) * T + (time % T) = time
    <2> HIDE DEF T
    <2> QED
      BY <1>0, Z3
  <1>3. CASE time >= 0
    <2>1. Stamp(time) = (time \div T) * T + (time % T)
      BY <1>3 DEF Stamp
    <2> QED
      BY <1>2, <1>3, <2>1
  <1>4. CASE ~(time >= 0)
    <2>1. Stamp(time) = (-((-time) \div T)) * T + (time % T)
      BY <1>4 DEF Stamp
    <2>2. (-((-time) \div T)) * T \in Int
      BY <1>0, <1>1
    <2> HIDE DEF T
    <2> QED
      BY <1>1, <1>4, <2>1, <2>2
  <1> QED
    BY <1>3, <1>4

\* What is written from the head of the queue is the record put there.
LEMMA HeadPacket ==
  ASSUME MergeTypeOK, ArenaOK, ~Empty, NEW ts
  PROVE  /\ RecordAt(hdrs_head) \in Queued
         /\ hdrs_head \in 0 .. hdrs_tail - 1 /\ hdrs_head \in 0 .. HdrRoom - 1
         /\ Peek.ts = capture[RecordAt(hdrs_head)].ts
         /\ [ts |-> ts, caplen |-> Peek.caplen, data |-> SubSeq(HeadData, 1, Peek.caplen)]
              = Packet(RecordAt(hdrs_head), ts)
  <1> DEFINE k == RecordAt(hdrs_head)
  <1>1. hdrs_head \in 0 .. hdrs_tail - 1 /\ hdrs_head \in 0 .. HdrRoom - 1
    BY RoomAssumption DEF MergeTypeOK, Empty
  <1>2. /\ k \in Queued
        /\ Peek.len = capture[k].len /\ Peek.caplen = capture[k].caplen
        /\ Peek.ts = capture[k].ts
        /\ \A b \in 1 .. capture[k].len : buffer[Start(hdrs_head) + b - 1] = Data(k)[b]
        /\ buffer_head = Start(hdrs_head)
    BY <1>1 DEF ArenaOK, Peek
  <1> HIDE DEF k
  <1>3. HeadData = Data(k)
    <2>1. Data(k) = [b \in 1 .. capture[k].len |-> Data(k)[b]]
      BY DEF Data
    <2> QED
      BY <1>2, <2>1 DEF HeadData
  <1> QED
    BY <1>1, <1>2, <1>3 DEF Packet, k

\* The data of a record are bytes.
LEMMA DataType ==
  ASSUME capture \in Captures, NEW k \in Records
  PROVE  \A b \in 1 .. capture[k].len : Data(k)[b] \in Nat \X Nat
  BY RecordFacts DEF Data, NoByte, Records

\* What a push does to the arrays.
LEMMA PushFacts ==
  ASSUME MergeTypeOK, NEW k \in Records, Push(Hdr(capture[k]), Data(k))
  PROVE  /\ hdrs_tail \in 0 .. HdrRoom - 1 /\ hdrs_tail' = hdrs_tail + 1
         /\ buffer_tail' = buffer_tail + capture[k].len /\ buffer_tail' <= BufferRoom
         /\ hdrs_head' = hdrs_head /\ buffer_head' = buffer_head
         /\ hdrs' \in [0 .. HdrRoom - 1 -> [ts : Int, len : Nat, caplen : Nat]]
         /\ hdrs'[hdrs_tail] = Hdr(capture[k])
         /\ \A i \in 0 .. hdrs_tail - 1 : hdrs'[i] = hdrs[i]
         /\ buffer' \in [0 .. BufferRoom - 1 -> Nat \X Nat]
         /\ \A b \in 1 .. capture[k].len : buffer'[buffer_tail + b - 1] = Data(k)[b]
         /\ \A a \in 0 .. buffer_tail - 1 : buffer'[a] = buffer[a]
  <1> DEFINE n == capture[k].len
  <1>0. HdrRoom \in Nat /\ BufferRoom \in Nat
    BY RoomAssumption
  <1>1. /\ n \in Nat /\ capture[k].ts \in Int /\ capture[k].caplen \in Nat
        /\ \A b \in 1 .. n : Data(k)[b] \in Nat \X Nat
    BY RecordFacts, DataType DEF MergeTypeOK
  <1>2. /\ hdrs_tail < HdrRoom /\ buffer_tail + n <= BufferRoom
        /\ hdrs' = [hdrs EXCEPT ![hdrs_tail] = Hdr(capture[k])]
        /\ hdrs_tail' = hdrs_tail + 1 /\ buffer_tail' = buffer_tail + n
        /\ hdrs_head' = hdrs_head /\ buffer_head' = buffer_head
        /\ buffer' = [i \in DOMAIN buffer |-> IF i \in buffer_tail .. buffer_tail + n - 1
                                              THEN Data(k)[i - buffer_tail + 1]
                                              ELSE buffer[i]]
    BY DEF Push, Fits, Copy, Hdr
  <1>3. Hdr(capture[k]) \in [ts : Int, len : Nat, caplen : Nat]
    BY <1>1 DEF Hdr
  <1>4. /\ hdrs' \in [0 .. HdrRoom - 1 -> [ts : Int, len : Nat, caplen : Nat]]
        /\ hdrs'[hdrs_tail] = Hdr(capture[k])
        /\ \A i \in 0 .. hdrs_tail - 1 : hdrs'[i] = hdrs[i]
    BY <1>0, <1>2, <1>3 DEF MergeTypeOK
  <1> HIDE DEF n
  <1>5. DOMAIN buffer = 0 .. BufferRoom - 1 /\ buffer_tail \in Nat /\ hdrs_tail \in Nat
    BY <1>0 DEF MergeTypeOK
  <1>6. ASSUME NEW i \in 0 .. BufferRoom - 1
        PROVE  buffer'[i] \in Nat \X Nat
    <2>1. CASE i \in buffer_tail .. buffer_tail + n - 1
      <3>1. buffer'[i] = Data(k)[i - buffer_tail + 1] /\ i - buffer_tail + 1 \in 1 .. n
        BY <1>0, <1>1, <1>2, <1>5, <2>1
      <3> QED
        BY <1>1, <3>1
    <2>2. CASE i \notin buffer_tail .. buffer_tail + n - 1
      <3>1. buffer'[i] = buffer[i]
        BY <1>2, <1>5, <2>2
      <3> QED
        BY <3>1 DEF MergeTypeOK
    <2> QED
      BY <2>1, <2>2
  <1>7. buffer' \in [0 .. BufferRoom - 1 -> Nat \X Nat]
    BY <1>2, <1>5, <1>6
  <1>8. ASSUME NEW b \in 1 .. n
        PROVE  buffer'[buffer_tail + b - 1] = Data(k)[b]
    <2>1. /\ buffer_tail + b - 1 \in buffer_tail .. buffer_tail + n - 1
          /\ buffer_tail + b - 1 \in DOMAIN buffer
          /\ (buffer_tail + b - 1) - buffer_tail + 1 = b
      BY <1>0, <1>1, <1>2, <1>5
    <2> QED
      BY <1>2, <2>1
  <1>9. ASSUME NEW a \in 0 .. buffer_tail - 1
        PROVE  buffer'[a] = buffer[a]
    <2>1. a \notin buffer_tail .. buffer_tail + n - 1 /\ a \in DOMAIN buffer
      BY <1>0, <1>1, <1>2, <1>5
    <2> QED
      BY <1>2, <2>1
  <1> QED
    BY <1>0, <1>2, <1>4, <1>5, <1>7, <1>8, <1>9 DEF n

\* What a release does to the arrays and the output.
LEMMA ReleaseFacts ==
  ASSUME MergeTypeOK, ArenaOK, Release
  PROVE  /\ ~Empty /\ Due \in Int
         /\ hdrs_head \in 0 .. hdrs_tail - 1 /\ hdrs_head' = hdrs_head + 1
         /\ RecordAt(hdrs_head) \in Queued
         /\ Due = capture[RecordAt(hdrs_head)].ts - sec_offs + (Delay - sec_offs2)
         /\ output' = Append(output, Packet(RecordAt(hdrs_head), Stamp(Due)))
         /\ buffer_head' = buffer_head + hdrs[hdrs_head].len
         /\ hdrs' \in [0 .. HdrRoom - 1 -> [ts : Int, len : Nat, caplen : Nat]]
         /\ \A i \in 0 .. HdrRoom - 1 : hdrs'[i].len = hdrs[i].len
                                        /\ hdrs'[i].caplen = hdrs[i].caplen
         /\ \A i \in hdrs_head + 1 .. HdrRoom - 1 : hdrs'[i] = hdrs[i]
         /\ num_attack_packets' = num_attack_packets + 1
         /\ UNCHANGED <<hdrs_tail, buffer, buffer_tail, num_normal_packets, pos, pc, clock>>
  <1>1. ~Empty /\ Pop(Stamp(Due)) /\ num_attack_packets' = num_attack_packets + 1
    BY DEF Release, SomeDue
  <1>2. UNCHANGED <<hdrs_tail, buffer, buffer_tail, num_normal_packets, pos, pc, clock>>
    BY DEF Release, Pop
  <1>3. /\ hdrs_head \in 0 .. hdrs_tail - 1 /\ hdrs_head \in 0 .. HdrRoom - 1
        /\ RecordAt(hdrs_head) \in Queued
        /\ Peek.ts = capture[RecordAt(hdrs_head)].ts
        /\ output' = Append(output, Packet(RecordAt(hdrs_head), Stamp(Due)))
    BY <1>1, HeadPacket DEF Release, Dump
  <1>4. Due = capture[RecordAt(hdrs_head)].ts - sec_offs + (Delay - sec_offs2)
    BY <1>3 DEF Due
  <1>5. Peek.ts \in Int /\ Delay \in Int /\ sec_offs \in Int /\ sec_offs2 \in Int
    BY <1>3, MergeAssumption DEF MergeTypeOK, Peek
  <1>6. Due \in Int
    BY <1>5 DEF Due
  <1>7. Stamp(Due) \in Int
    BY <1>6, StampFacts
  <1> DEFINE t == Stamp(Due)
  <1>8. /\ hdrs' = [hdrs EXCEPT ![hdrs_head].ts = t]
        /\ hdrs_head' = hdrs_head + 1 /\ buffer_head' = buffer_head + hdrs[hdrs_head].len
    BY <1>1 DEF Pop, HeadLength, Peek
  <1> HIDE DEF t
  <1>9. t \in Int /\ HdrRoom \in Nat
    BY <1>7, RoomAssumption DEF t
  <1>10. /\ hdrs' \in [0 .. HdrRoom - 1 -> [ts : Int, len : Nat, caplen : Nat]]
         /\ \A i \in 0 .. HdrRoom - 1 : hdrs'[i].len = hdrs[i].len
                                        /\ hdrs'[i].caplen = hdrs[i].caplen
         /\ \A i \in hdrs_head + 1 .. HdrRoom - 1 : hdrs'[i] = hdrs[i]
    <2>1. /\ hdrs \in [0 .. HdrRoom - 1 -> [ts : Int, len : Nat, caplen : Nat]]
          /\ hdrs_head \in 0 .. HdrRoom - 1 /\ hdrs_head \in Nat
      BY <1>3 DEF MergeTypeOK
    <2>2. hdrs' \in [0 .. HdrRoom - 1 -> [ts : Int, len : Nat, caplen : Nat]]
      BY <1>8, <1>9, <2>1
    <2>3. \A i \in 0 .. HdrRoom - 1 : i # hdrs_head => hdrs'[i] = hdrs[i]
      BY <1>8, <2>1
    <2>4. hdrs'[hdrs_head].len = hdrs[hdrs_head].len
          /\ hdrs'[hdrs_head].caplen = hdrs[hdrs_head].caplen
      BY <1>8, <2>1
    <2>5. \A i \in hdrs_head + 1 .. HdrRoom - 1 : i \in 0 .. HdrRoom - 1 /\ i # hdrs_head
      BY <1>9, <2>1
    <2> QED
      BY <2>2, <2>3, <2>4, <2>5
  <1> QED
    BY <1>1, <1>2, <1>3, <1>4, <1>6, <1>8, <1>10

\* The values stay in their types.
LEMMA TypeStep ==
  ASSUME MergeTypeOK, ClockOK, ArenaOK, Next
  PROVE  MergeTypeOK'
  <1>1. capture' = capture /\ StepKind
    BY StepKinds
  <1>2. Packets' = Packets /\ Records' = Records
    BY <1>1, SameCapture
  <1>3. capture \in Captures /\ Len(capture) \in Nat
    BY RecordFacts DEF MergeTypeOK
  <1>4. /\ pc' \in {"open", "reading", "releasing", "done", "failed", "overrun"}
        /\ pos' \in 0 .. Len(capture)
        /\ sec_first' \in BOOLEAN /\ sec_first2' \in BOOLEAN
        /\ sec_offs' \in Int /\ sec_offs2' \in Int
    <2>1. pos < Len(capture) => Offset \in Int /\ NextTime \in Int
      BY <1>3, ClockFacts, RecordFacts, MergeAssumption, SMTT(30) DEF Records
    <2>2. Read => pc = "reading" /\ pos' \in 0 .. Len(capture) /\ sec_offs' \in Int
                  /\ sec_first' = FALSE
      BY <1>3, <2>1 DEF Read, MergeTypeOK
    <2>3. CASE HoldEarly
      <3>1. Read /\ sec_first2' = FALSE /\ sec_offs2' = FirstHeld
            /\ (pc' = pc \/ pc' = "overrun")
        BY <2>3 DEF HoldEarly, Overrun
      <3>2. FirstHeld \in Int
        BY <2>1, <3>1 DEF Read, FirstHeld, MergeTypeOK
      <3> QED
        BY <2>2, <3>1, <3>2
    <2>4. CASE DropAtDelay \/ PassEarly \/ MeetLate
      <3>1. Read /\ sec_first2' = sec_first2 /\ sec_offs2' = sec_offs2
            /\ (pc' = pc \/ pc' = "releasing")
        BY <2>4 DEF DropAtDelay, PassEarly, MeetLate
      <3> QED
        BY <2>2, <3>1 DEF MergeTypeOK
    <2>5. CASE OpenFails \/ OpenSucceeds \/ Release \/ HoldLate \/ PassLate \/ Finish
      <3>1. /\ pos' = pos /\ UNCHANGED clock
            /\ pc' \in {pc, "failed", "reading", "overrun", "done"}
        BY <2>5 DEF OpenFails, OpenSucceeds, Release, HoldLate, PassLate, Finish, Overrun
      <3> QED
        BY <3>1 DEF clock, MergeTypeOK
    <2> QED
      BY <2>3, <2>4, <2>5 DEF Next
  <1>5. /\ hdrs' \in [0 .. HdrRoom - 1 -> [ts : Int, len : Nat, caplen : Nat]]
        /\ buffer' \in [0 .. BufferRoom - 1 -> Nat \X Nat]
        /\ hdrs_tail' \in 0 .. HdrRoom /\ hdrs_head' \in 0 .. hdrs_tail'
        /\ buffer_tail' \in 0 .. BufferRoom /\ buffer_head' \in Nat
        /\ output' \in Seq(Packets)
        /\ num_attack_packets' \in Nat /\ num_normal_packets' \in Nat
    <2>0. HdrRoom \in Nat /\ BufferRoom \in Nat
      BY RoomAssumption
    <2>1. CASE Moves \/ Drops
      BY <2>1 DEF Moves, Drops, written, arenaVars, MergeTypeOK
    <2>2. CASE Enqueues
      <3>1. pos' \in Records /\ Push(Hdr(capture[pos']), Data(pos')) /\ UNCHANGED written
        BY <2>2 DEF Enqueues, Settles
      <3>2. capture[pos'].len \in Nat
        BY <1>3, <3>1, RecordFacts
      <3>3. /\ hdrs_tail \in 0 .. HdrRoom - 1 /\ hdrs_tail' = hdrs_tail + 1
            /\ buffer_tail' = buffer_tail + capture[pos'].len /\ buffer_tail' <= BufferRoom
            /\ hdrs_head' = hdrs_head /\ buffer_head' = buffer_head
            /\ hdrs' \in [0 .. HdrRoom - 1 -> [ts : Int, len : Nat, caplen : Nat]]
            /\ buffer' \in [0 .. BufferRoom - 1 -> Nat \X Nat]
        BY <3>1, PushFacts
      <3>4. UNCHANGED <<output, num_attack_packets, num_normal_packets>>
        BY <3>1 DEF written
      <3>5. /\ hdrs_tail' \in 0 .. HdrRoom /\ hdrs_head' \in 0 .. hdrs_tail'
            /\ buffer_tail' \in 0 .. BufferRoom /\ buffer_head' \in Nat
        <4>1. /\ hdrs_tail \in Nat /\ hdrs_head \in 0 .. hdrs_tail
              /\ buffer_tail \in Nat /\ buffer_head \in Nat
          BY <2>0 DEF MergeTypeOK
        <4> DEFINE n == capture[pos'].len
        <4>2. n \in Nat /\ buffer_tail' = buffer_tail + n
          BY <3>2, <3>3
        <4>3. /\ hdrs_tail' = hdrs_tail + 1 /\ hdrs_head' = hdrs_head
              /\ hdrs_tail \in 0 .. HdrRoom - 1
              /\ buffer_head' = buffer_head /\ buffer_tail' <= BufferRoom
          BY <3>3
        <4> HIDE DEF n
        <4> QED
          BY <2>0, <4>1, <4>2, <4>3
      <3> QED
        BY <3>3, <3>4, <3>5 DEF MergeTypeOK
    <2>3. CASE Passes
      <3>1. Packet(pos', Stamp(TimeOf(pos'))) \in Packets
        BY <1>3, <2>3, RecordFacts, StampFacts, PacketFacts DEF Passes, Settles
      <3>2. output' \in Seq(Packets)
        BY <2>3, <3>1, AppendProperties DEF Passes, MergeTypeOK
      <3> QED
        BY <2>3, <3>2 DEF Passes, arenaVars, MergeTypeOK
    <2>4. CASE Releases
      <3>1. Release
        BY <2>4 DEF Releases
      <3>2. RecordAt(hdrs_head) \in Records /\ Stamp(Due) \in Int
        BY <3>1, ReleaseFacts, StampFacts DEF Queued, Handled
      <3>3. Packet(RecordAt(hdrs_head), Stamp(Due)) \in Packets
        BY <1>3, <3>2, PacketFacts
      <3>4. output' \in Seq(Packets)
        <4>1. output' = Append(output, Packet(RecordAt(hdrs_head), Stamp(Due)))
          BY <3>1, ReleaseFacts
        <4> QED
          BY <3>3, <4>1, AppendProperties DEF MergeTypeOK
      <3>5. /\ hdrs_head \in 0 .. hdrs_tail - 1 /\ hdrs_head' = hdrs_head + 1
            /\ buffer_head' = buffer_head + hdrs[hdrs_head].len
            /\ hdrs' \in [0 .. HdrRoom - 1 -> [ts : Int, len : Nat, caplen : Nat]]
            /\ num_attack_packets' = num_attack_packets + 1
            /\ UNCHANGED <<hdrs_tail, buffer, buffer_tail, num_normal_packets>>
        BY <3>1, ReleaseFacts
      <3>6. hdrs[hdrs_head].len \in Nat
        <4>1. hdrs_head \in 0 .. HdrRoom - 1
          BY <2>0, <3>5 DEF MergeTypeOK
        <4> QED
          BY <4>1 DEF MergeTypeOK
      <3>7. hdrs_head' \in 0 .. hdrs_tail' /\ buffer_head' \in Nat
            /\ num_attack_packets' \in Nat
        BY <2>0, <3>5, <3>6 DEF MergeTypeOK
      <3> QED
        BY <3>4, <3>5, <3>7 DEF MergeTypeOK
    <2> QED
      BY <1>1, <2>1, <2>2, <2>3, <2>4 DEF StepKind
  <1> QED
    BY <1>1, <1>2, <1>3, <1>4, <1>5 DEF MergeTypeOK

-------------------------------------------------------------------------------------
(* The clocks.                                                                       *)

\* A step that reads a record sets the first clock once, and the second one when the record
\* is the first that is held back early.
LEMMA ClockStep ==
  ASSUME MergeTypeOK, ClockOK, Next
  PROVE  ClockOK'
  <1>1. /\ capture' = capture /\ Held' = Held /\ EarlyHeld' = EarlyHeld
        /\ \A k : (TimeOf(k))' = TimeOf(k) /\ (Late(k))' = Late(k)
    BY StepKinds, SameCapture
  <1>2. capture \in Captures /\ pos \in Nat /\ pos <= Len(capture) /\ Len(capture) \in Nat
    BY RecordFacts DEF MergeTypeOK
  <1>3. /\ EarlyHeld \subseteq Records /\ Records \subseteq Nat /\ EarlyHeld \subseteq Held
        /\ \A k \in EarlyHeld : capture[k].target /\ TimeOf(k) < Delay
    BY DEF EarlyHeld, Held, Records
  <1>4. ASSUME Read
        PROVE  /\ pos' = pos + 1 /\ pos' > 0 /\ pc = "reading" /\ pos' \in Records
               /\ NextTime = TimeOf(pos') /\ NextRecord = capture[pos']
               /\ TimeOf(pos') \in Int /\ Delay \in Int
               /\ sec_first' = FALSE
               /\ sec_offs' = capture[1].ts - OffsetTicks
    <2>1. pos < Len(capture)
      BY <1>4 DEF Read
    <2>2. pos + 1 \in Records /\ NextTime = TimeOf(pos + 1)
          /\ Offset = capture[1].ts - OffsetTicks
      BY <2>1, ClockFacts
    <2>3. TimeOf(pos + 1) \in Int /\ Delay \in Int
      BY <1>2, <2>2, RecordFacts, MergeAssumption
    <2> QED
      BY <1>2, <1>4, <2>2, <2>3 DEF Read, NextRecord
  <1>5. CASE HoldEarly
    <2>1. /\ Read /\ capture[pos'].target /\ TimeOf(pos') < Delay
          /\ sec_first2' = FALSE /\ sec_offs2' = FirstHeld
          /\ (pc' = "reading" \/ pc' = "overrun")
      BY <1>4, <1>5 DEF HoldEarly, Overrun
    <2>2. pos' \in EarlyHeld
      BY <1>4, <2>1 DEF EarlyHeld, Held
    <2>3. \E k \in EarlyHeld : sec_offs2' = TimeOf(k) /\ \A m \in EarlyHeld : k <= m
      <3>1. CASE sec_first2
        <4>1. sec_offs2' = TimeOf(pos')
          BY <1>4, <2>1, <3>1 DEF FirstHeld
        <4>2. \A m \in EarlyHeld : pos' <= m
          BY <1>2, <1>3, <1>4, <2>1, <3>1 DEF ClockOK
        <4> QED
          BY <2>2, <4>1, <4>2
      <3>2. CASE ~sec_first2
        BY <2>1, <3>2 DEF FirstHeld, ClockOK
      <3> QED
        BY <3>1, <3>2
    <2>4. ~(\A k \in EarlyHeld : k > pos')
      BY <1>3, <2>2
    <2>5. pos' \in Held /\ pos' # 0
      BY <1>2, <1>3, <1>4, <2>1, <2>2
    <2> QED
      BY <1>1, <1>4, <2>1, <2>3, <2>4, <2>5 DEF ClockOK
  <1>6. CASE DropAtDelay \/ PassEarly \/ MeetLate
    <2>1. /\ Read /\ sec_first2' = sec_first2 /\ sec_offs2' = sec_offs2
          /\ (pc' = "reading" \/ (pc' = "releasing" /\ TimeOf(pos') > Delay))
          /\ (~(TimeOf(pos') < Delay) \/ ~capture[pos'].target)
      <3>1. Read /\ sec_first2' = sec_first2 /\ sec_offs2' = sec_offs2
        BY <1>6 DEF DropAtDelay, PassEarly, MeetLate
      <3>2. TimeOf(pos') \in Int /\ Delay \in Int
        BY <1>4, <3>1
      <3>3. CASE DropAtDelay
        <4>1. pc' = "reading" /\ TimeOf(pos') = Delay
          BY <1>4, <3>1, <3>3 DEF DropAtDelay
        <4> QED
          BY <3>1, <3>2, <4>1
      <3>4. CASE PassEarly
        <4>1. pc' = "reading" /\ ~capture[pos'].target
          BY <1>4, <3>1, <3>4 DEF PassEarly
        <4> QED
          BY <3>1, <4>1
      <3>5. CASE MeetLate
        <4>1. pc' = "releasing" /\ TimeOf(pos') > Delay
          BY <1>4, <3>1, <3>5 DEF MeetLate
        <4> QED
          BY <3>1, <3>2, <4>1
      <3> QED
        BY <1>6, <3>3, <3>4, <3>5
    <2>2. pos' \notin EarlyHeld
      BY <2>1 DEF EarlyHeld, Held
    <2>3. (\A k \in EarlyHeld : k > pos') <=> (\A k \in EarlyHeld : k > pos)
      BY <1>2, <1>3, <1>4, <2>1, <2>2
    <2>4. pc' = "releasing" => Late(pos')
      BY <2>1 DEF Late
    <2>5. pos' # 0
      BY <1>2, <1>4, <2>1
    <2> QED
      BY <1>1, <1>4, <2>1, <2>3, <2>4, <2>5 DEF ClockOK
  <1>7. CASE OpenFails \/ OpenSucceeds \/ Release \/ HoldLate \/ PassLate \/ Finish
    <2>1. pos' = pos /\ UNCHANGED clock
      BY <1>7 DEF OpenFails, OpenSucceeds, Release, HoldLate, PassLate, Finish
    <2>2. /\ pc' = "releasing" => pc = "releasing"
          /\ pc' = "done" => pos = Len(capture)
      BY <1>7 DEF OpenFails, OpenSucceeds, Release, HoldLate, PassLate, Finish, Overrun
    <2>3. pc' = "overrun" => pos \in Held
      <3>1. ASSUME HoldLate
            PROVE  pos \in Held
        <4>1. /\ pos \in Records /\ capture[pos].target /\ TimeOf(pos) > Delay
              /\ TimeOf(pos) \in Int /\ Delay \in Int
          BY <1>2, <3>1, ClockFacts, RecordFacts, MergeAssumption
             DEF HoldLate, ClockOK, Late, Current
        <4> QED
          BY <4>1 DEF Held
      <3>2. pc' = "overrun" => HoldLate
        BY <1>7 DEF OpenFails, OpenSucceeds, Release, PassLate, Finish
      <3> QED
        BY <3>1, <3>2
    <2> QED
      BY <1>1, <2>1, <2>2, <2>3 DEF ClockOK, clock
  <1> QED
    BY <1>5, <1>6, <1>7 DEF Next
-------------------------------------------------------------------------------------
(* What is counted.                                                                  *)

\* The records that are dealt with are finitely many.
LEMMA HandledFacts ==
  ASSUME capture \in Captures
  PROVE  /\ Handled \subseteq Records /\ Queued \subseteq Handled /\ Queued \subseteq Held
         /\ IsFiniteSet(Handled) /\ IsFiniteSet(Queued)
         /\ IsFiniteSet({k \in Handled : ~capture[k].target})
         /\ \A k \in Queued : capture[k].target
  <1>1. Handled \subseteq Records /\ Queued \subseteq Handled /\ Queued \subseteq Held
    BY DEF Handled, Queued
  <1>2. IsFiniteSet(Handled)
    BY <1>1, RecordFacts, FS_Subset
  <1>3. IsFiniteSet(Queued) /\ IsFiniteSet({k \in Handled : ~capture[k].target})
    <2>1. {k \in Handled : ~capture[k].target} \subseteq Handled
      OBVIOUS
    <2> QED
      BY <1>1, <1>2, <2>1, FS_Subset
  <1>4. \A k \in Queued : capture[k].target
    BY <1>1 DEF Held
  <1> QED
    BY <1>1, <1>2, <1>3, <1>4

\* The counters count the records of each kind.
LEMMA CountsStep ==
  ASSUME MergeTypeOK, ClockOK, ArenaOK, CountsOK, Next
  PROVE  CountsOK'
  <1> DEFINE others(H) == {k \in H : ~capture[k].target}
             lens == [k \in Records |-> capture[k].len]
  <1>1. capture' = capture /\ StepKind /\ Held' = Held /\ Records' = Records
    BY StepKinds, SameCapture
  <1>2. capture \in Captures
    BY DEF MergeTypeOK
  <1>3. /\ Queued' = Handled' \cap Held /\ lens' = lens
        /\ {k \in Handled : ~capture[k].target}' = others(Handled')
    BY <1>1 DEF Queued
  <1>4. /\ hdrs_tail = Cardinality(Queued) /\ hdrs_head = num_attack_packets
        /\ num_normal_packets = Cardinality(others(Handled))
        /\ Len(output) = num_normal_packets + num_attack_packets
        /\ buffer_tail = Tally(Queued, lens)
    BY DEF CountsOK
  <1>5. SUFFICES /\ hdrs_tail' = Cardinality(Queued') /\ hdrs_head' = num_attack_packets'
                 /\ num_normal_packets' = Cardinality(others(Handled'))
                 /\ Len(output') = num_normal_packets' + num_attack_packets'
                 /\ buffer_tail' = Tally(Queued', lens)
    BY <1>1, <1>3 DEF CountsOK
  <1>6. CASE Moves
    BY <1>3, <1>4, <1>6 DEF Moves, written, arenaVars, Queued
  <1>7. CASE Enqueues
    <2>1. /\ Settles /\ pos' \in Held /\ Push(Hdr(capture[pos']), Data(pos'))
          /\ UNCHANGED written
      BY <1>7 DEF Enqueues
    <2>2. /\ pos' \in Records /\ pos' \notin Handled /\ Handled' = Handled \cup {pos'}
          /\ capture[pos'].target
      BY <2>1 DEF Settles, Held
    <2>3. Queued' = Queued \cup {pos'} /\ pos' \notin Queued
      BY <1>3, <2>1, <2>2 DEF Queued
    <2>4. others(Handled') = others(Handled)
      BY <2>2
    <2>5. hdrs_tail' = Cardinality(Queued')
      <3>1. Cardinality(Queued') = Cardinality(Queued) + 1
        BY <1>2, <2>3, HandledFacts, FS_AddElement
      <3>2. hdrs_tail' = hdrs_tail + 1
        BY <2>1, <2>2, PushFacts
      <3> QED
        BY <1>4, <3>1, <3>2
    <2>6. buffer_tail' = Tally(Queued', lens)
      <3>1. \A k \in Queued \cup {pos'} : lens[k] \in Nat
        BY <1>2, <2>2, HandledFacts, RecordFacts
      <3>2. Tally(Queued \cup {pos'}, lens) = Tally(Queued, lens) + lens[pos']
        <4> HIDE DEF lens
        <4> QED
          BY <1>2, <2>3, <3>1, HandledFacts, TallyAdd
      <3>3. buffer_tail' = buffer_tail + capture[pos'].len
        BY <2>1, <2>2, PushFacts
      <3>4. lens[pos'] = capture[pos'].len
        BY <2>2
      <3> HIDE DEF lens
      <3> QED
        BY <1>4, <2>3, <3>2, <3>3, <3>4
    <2>7. hdrs_head' = hdrs_head
      BY <2>1, <2>2, PushFacts
    <2> QED
      BY <1>4, <2>1, <2>4, <2>5, <2>6, <2>7 DEF written
  <1>8. CASE Drops
    <2>1. /\ Handled' = Handled \cup {pos'} /\ capture[pos'].target /\ pos' \notin Held
          /\ UNCHANGED <<written, arenaVars>>
      BY <1>8 DEF Drops, Settles
    <2>2. Queued' = Queued /\ others(Handled') = others(Handled)
      BY <1>3, <2>1 DEF Queued
    <2> QED
      BY <1>4, <2>1, <2>2 DEF written, arenaVars
  <1>9. CASE Passes
    <2>1. /\ pos' \in Records /\ pos' \notin Handled /\ Handled' = Handled \cup {pos'}
          /\ ~capture[pos'].target
          /\ num_normal_packets' = num_normal_packets + 1
          /\ output' = Append(output, Packet(pos', Stamp(TimeOf(pos'))))
          /\ UNCHANGED <<num_attack_packets, arenaVars>>
      BY <1>9 DEF Passes, Settles
    <2>2. Queued' = Queued
      BY <1>3, <2>1 DEF Queued, Held
    <2>3. others(Handled') = others(Handled) \cup {pos'} /\ pos' \notin others(Handled)
      BY <2>1
    <2>4. Cardinality(others(Handled')) = Cardinality(others(Handled)) + 1
      BY <1>2, <2>3, HandledFacts, FS_AddElement
    <2>5. Packet(pos', Stamp(TimeOf(pos'))) \in Packets
      BY <1>2, <2>1, RecordFacts, StampFacts, PacketFacts
    <2>6. Len(output') = Len(output) + 1
      BY <2>1, <2>5, AppendProperties DEF MergeTypeOK
    <2>7. Len(output) \in Nat /\ num_normal_packets \in Nat /\ num_attack_packets \in Nat
      BY LenProperties DEF MergeTypeOK
    <2> HIDE DEF others, lens
    <2> QED
      BY <1>4, <2>1, <2>2, <2>4, <2>6, <2>7 DEF arenaVars
  <1>10. CASE Releases
    <2>1. Release /\ Handled' = Handled /\ Queued' = Queued
      BY <1>3, <1>10 DEF Releases, Queued
    <2>2. Packet(RecordAt(hdrs_head), Stamp(Due)) \in Packets
      BY <1>2, <2>1, ReleaseFacts, StampFacts, PacketFacts, HandledFacts
    <2>3. /\ output' = Append(output, Packet(RecordAt(hdrs_head), Stamp(Due)))
          /\ num_attack_packets' = num_attack_packets + 1
          /\ hdrs_head' = hdrs_head + 1
          /\ UNCHANGED <<hdrs_tail, buffer_tail, num_normal_packets>>
      BY <2>1, ReleaseFacts
    <2>4. Len(output') = Len(output) + 1
      BY <2>2, <2>3, AppendProperties DEF MergeTypeOK
    <2>5. Len(output) \in Nat /\ num_normal_packets \in Nat /\ num_attack_packets \in Nat
      BY LenProperties DEF MergeTypeOK
    <2> HIDE DEF others, lens
    <2> QED
      BY <1>4, <2>1, <2>3, <2>4, <2>5
  <1> QED
    BY <1>1, <1>6, <1>7, <1>8, <1>9, <1>10 DEF StepKind

-------------------------------------------------------------------------------------
(* The arrays.                                                                       *)

\* No step disturbs the headers that were put in, or their data.
LEMMA QueueKept ==
  ASSUME MergeTypeOK, ArenaOK, capture' = capture, StepKind
  PROVE  /\ \A i \in 0 .. hdrs_tail : (Start(i))' = Start(i)
         /\ \A i \in 0 .. hdrs_tail - 1 : (RecordAt(i))' = RecordAt(i)
         /\ \A i \in 0 .. hdrs_tail - 1 : \A b \in 1 .. capture[RecordAt(i)].len :
              buffer'[Start(i) + b - 1] = buffer[Start(i) + b - 1]
         /\ \A i \in 0 .. hdrs_tail - 1 : hdrs'[i].len = hdrs[i].len
                                          /\ hdrs'[i].caplen = hdrs[i].caplen
         /\ hdrs_tail' \in {hdrs_tail, hdrs_tail + 1}
  <1>0. HdrRoom \in Nat /\ hdrs_tail \in 0 .. HdrRoom /\ capture \in Captures
    BY RoomAssumption DEF MergeTypeOK
  <1>1. \A i \in 0 .. hdrs_tail : i \in 0 .. HdrRoom
    BY <1>0
  <1>2. ASSUME NEW i \in 0 .. hdrs_tail - 1, NEW b \in 1 .. capture[RecordAt(i)].len
        PROVE  Start(i) + b - 1 \in 0 .. buffer_tail - 1
    <2>1. /\ RecordAt(i) \in Records /\ Start(i) + capture[RecordAt(i)].len <= buffer_tail
          /\ Start(i) \in Nat /\ buffer_tail \in Nat
      <3>1. RecordAt(i) \in Queued /\ Start(i) + capture[RecordAt(i)].len <= buffer_tail
        BY DEF ArenaOK
      <3>2. Start(i) \in Nat
        BY <1>0, <1>1, StartFacts, SMTT(30) DEF MergeTypeOK
      <3> QED
        BY <1>0, <3>1, <3>2, HandledFacts, RoomAssumption DEF MergeTypeOK
    <2> DEFINE n == capture[RecordAt(i)].len
    <2>2. n \in Nat
      BY <1>0, <2>1, RecordFacts
    <2> HIDE DEF n
    <2>3. b \in 1 .. n /\ Start(i) + n <= buffer_tail
      BY <2>1 DEF n
    <2> QED
      BY <2>1, <2>2, <2>3
  <1>3. /\ hdrs' \in [0 .. HdrRoom - 1 -> [ts : Int, len : Nat, caplen : Nat]]
        /\ \A i \in 0 .. hdrs_tail - 1 : hdrs'[i].len = hdrs[i].len
                                         /\ hdrs'[i].caplen = hdrs[i].caplen
        /\ \A a \in 0 .. buffer_tail - 1 : buffer'[a] = buffer[a]
        /\ hdrs_tail' \in {hdrs_tail, hdrs_tail + 1}
    <2>1. CASE Enqueues
      <3>1. pos' \in Records /\ Push(Hdr(capture[pos']), Data(pos'))
        BY <2>1 DEF Enqueues, Settles
      <3>2. /\ hdrs' \in [0 .. HdrRoom - 1 -> [ts : Int, len : Nat, caplen : Nat]]
            /\ \A i \in 0 .. hdrs_tail - 1 : hdrs'[i] = hdrs[i]
            /\ \A a \in 0 .. buffer_tail - 1 : buffer'[a] = buffer[a]
            /\ hdrs_tail' = hdrs_tail + 1
        BY <3>1, PushFacts
      <3> QED
        BY <3>2
    <2>2. CASE Releases
      <3>1. Release
        BY <2>2 DEF Releases
      <3>2. /\ hdrs' \in [0 .. HdrRoom - 1 -> [ts : Int, len : Nat, caplen : Nat]]
            /\ \A i \in 0 .. HdrRoom - 1 : hdrs'[i].len = hdrs[i].len
                                           /\ hdrs'[i].caplen = hdrs[i].caplen
            /\ buffer' = buffer /\ hdrs_tail' = hdrs_tail
        BY <3>1, ReleaseFacts
      <3>3. \A i \in 0 .. hdrs_tail - 1 : i \in 0 .. HdrRoom - 1
        BY <1>0
      <3> QED
        BY <3>2, <3>3
    <2>3. CASE Moves \/ Drops \/ Passes
      <3>1. UNCHANGED arenaVars
        BY <2>3 DEF Moves, Drops, Passes
      <3> QED
        BY <3>1 DEF arenaVars, MergeTypeOK
    <2> QED
      BY <2>1, <2>2, <2>3 DEF StepKind
  <1>4. ASSUME NEW i \in 0 .. hdrs_tail
        PROVE  (Start(i))' = Start(i)
    <2>1. i \in 0 .. HdrRoom /\ \A h \in 0 .. i - 1 : hdrs'[h].len = hdrs[h].len
      BY <1>0, <1>3
    <2>2. hdrs \in [0 .. HdrRoom - 1 -> [ts : Int, len : Nat, caplen : Nat]]
      BY DEF MergeTypeOK
    <2> QED
      BY <1>3, <2>1, <2>2, StartSame
  <1>5. ASSUME NEW i \in 0 .. hdrs_tail - 1
        PROVE  (RecordAt(i))' = RecordAt(i)
    <2>1. (Start(i))' = Start(i) /\ Start(i) \in Nat
      BY <1>0, <1>1, <1>4, StartFacts, SMTT(30) DEF MergeTypeOK
    <2>2. 1 \in 1 .. capture[RecordAt(i)].len
      BY <1>0, RecordFacts, HandledFacts DEF ArenaOK
    <2>3. Start(i) \in 0 .. buffer_tail - 1
      BY <1>2, <2>1, <2>2
    <2>4. buffer'[Start(i)] = buffer[Start(i)]
      BY <1>3, <2>3
    <2> QED
      BY <2>1, <2>4 DEF RecordAt
  <1> QED
    BY <1>2, <1>3, <1>4, <1>5

\* A packet that is put in is the last one of the queue.
LEMMA LastQueued ==
  ASSUME MergeTypeOK, ArenaOK, capture' = capture, Enqueues, NEW t, t = hdrs_tail
  PROVE  /\ (Start(t))' = buffer_tail
         /\ (Start(t + 1))' = buffer_tail'
         /\ (RecordAt(t))' = pos'
  <1>0. pos' \in Records /\ Push(Hdr(capture[pos']), Data(pos'))
    BY DEF Enqueues, Settles
  <1>1. HdrRoom \in Nat /\ hdrs_tail \in 0 .. HdrRoom - 1 /\ hdrs_tail \in 0 .. hdrs_tail
    BY <1>0, PushFacts, RoomAssumption
  <1>2. (Start(t))' = buffer_tail
    <2>1. \A i \in 0 .. hdrs_tail : (Start(i))' = Start(i)
      BY QueueKept DEF StepKind
    <2> QED
      BY <1>1, <2>1 DEF ArenaOK
  <1>3. /\ hdrs' \in [0 .. HdrRoom - 1 -> [ts : Int, len : Nat, caplen : Nat]]
        /\ hdrs'[hdrs_tail].len = capture[pos'].len
        /\ buffer_tail' = buffer_tail + capture[pos'].len
        /\ \A b \in 1 .. capture[pos'].len : buffer'[buffer_tail + b - 1] = Data(pos')[b]
    BY <1>0, PushFacts DEF Hdr
  <1>4. (Start(t + 1))' = buffer_tail'
    <2> DEFINE w == Lens'
    <2>1. \A i \in 0 .. HdrRoom - 1 : w[i] = hdrs'[i].len /\ w[i] \in Nat
      BY <1>3 DEF Lens
    <2>2. (Start(t))' = Tally(0 .. t - 1, w)
          /\ (Start(t + 1))' = Tally(0 .. (t + 1) - 1, w)
      BY DEF Start
    <2> HIDE DEF w
    <2>3. Tally(0 .. (t + 1) - 1, w) = Tally(0 .. t - 1, w) + w[t]
      BY <1>1, <2>1, TallyNext
    <2> QED
      BY <1>1, <1>2, <1>3, <2>1, <2>2, <2>3
  <1>5. (RecordAt(t))' = pos'
    <2>1. capture[pos'].len \in Nat \ {0} /\ buffer_tail \in Nat /\
            capture[pos'].caplen \in Nat \ {0}
      BY <1>0, RecordFacts, RoomAssumption DEF MergeTypeOK
    <2>2. 1 \in 1 .. capture[pos'].len /\ buffer_tail + 1 - 1 = buffer_tail
      BY <2>1
    <2>3. buffer'[buffer_tail] = Data(pos')[1]
      BY <1>3, <2>2
    <2>4. Data(pos')[1] = <<pos', 1>>
      BY <2>1, <2>2 DEF Data
    <2>5. (RecordAt(t))' = buffer'[buffer_tail][1]
      BY <1>2 DEF RecordAt
    <2> QED
      BY <2>3, <2>4, <2>5
  <1> QED
    BY <1>2, <1>4, <1>5

\* The records that were put into the queue stay so, and are joined by the one put in.
LEMMA QueuedStep ==
  ASSUME MergeTypeOK, capture' = capture, StepKind
  PROVE  /\ Handled \subseteq Handled' /\ Queued \subseteq Queued'
         /\ Enqueues => Queued' = Queued \cup {pos'} /\ pos' \notin Queued
                        /\ \A k \in Queued : k < pos'
         /\ ~Enqueues => Queued' = Queued
         /\ hdrs_tail' = IF Enqueues THEN hdrs_tail + 1 ELSE hdrs_tail
         /\ hdrs_head' = IF Releases THEN hdrs_head + 1 ELSE hdrs_head
         /\ Enqueues => ~Releases
  <1>1. Held' = Held /\ Queued' = Handled' \cap Held
    BY SameCapture DEF Queued
  <1>2. \A k \in Handled : k \in Records
    BY DEF Handled
  <1>3. CASE Enqueues
    <2>1. /\ Handled' = Handled \cup {pos'} /\ pos' \in Held /\ pos' \notin Handled
          /\ \A k \in Handled : k < pos'
      BY <1>3 DEF Enqueues, Settles
    <2>2. hdrs_tail' = hdrs_tail + 1 /\ hdrs_head' = hdrs_head /\ hdrs_tail \in Nat
          /\ hdrs_head \in Nat
      BY <1>3, RoomAssumption DEF Enqueues, Push, MergeTypeOK
    <2>3. ~Releases
      BY <2>2 DEF Releases, Release, Pop
    <2> QED
      BY <1>1, <1>3, <2>1, <2>2, <2>3 DEF Queued
  <1>4. CASE Releases
    <2>1. Handled' = Handled /\ hdrs_tail' = hdrs_tail /\ hdrs_head' = hdrs_head + 1
          /\ hdrs_tail \in Nat
      BY <1>4, RoomAssumption DEF Releases, Release, Pop, MergeTypeOK
    <2>2. ~Enqueues
      BY <2>1 DEF Enqueues, Push
    <2> QED
      BY <1>1, <1>4, <2>1, <2>2 DEF Queued
  <1>5. CASE (Moves \/ Drops \/ Passes) /\ ~Enqueues /\ ~Releases
    <2>1. hdrs_tail' = hdrs_tail /\ hdrs_head' = hdrs_head
      BY <1>5 DEF Moves, Drops, Passes, arenaVars
    <2>2. Handled' = Handled \/ (Handled' = Handled \cup {pos'} /\ pos' \notin Held)
      BY <1>5 DEF Moves, Drops, Passes, Settles, Held
    <2> QED
      BY <1>1, <1>5, <2>1, <2>2 DEF Queued
  <1> QED
    BY <1>3, <1>4, <1>5 DEF StepKind

\* Each header that was put in keeps its place and its data.
LEMMA ArenaStep ==
  ASSUME MergeTypeOK, ClockOK, ArenaOK, Next
  PROVE  ArenaOK'
  <1>1. capture' = capture /\ StepKind /\ (\A k : (Data(k))' = Data(k))
    BY StepKinds, SameCapture
  <1>2. /\ hdrs_tail \in Nat /\ hdrs_head \in 0 .. hdrs_tail /\ capture \in Captures
        /\ HdrRoom \in Nat /\ hdrs_tail <= HdrRoom
    BY RoomAssumption DEF MergeTypeOK
  <1>3. /\ \A i \in 0 .. hdrs_tail : (Start(i))' = Start(i)
        /\ \A i \in 0 .. hdrs_tail - 1 : (RecordAt(i))' = RecordAt(i)
        /\ \A i \in 0 .. hdrs_tail - 1 : \A b \in 1 .. capture[RecordAt(i)].len :
             buffer'[Start(i) + b - 1] = buffer[Start(i) + b - 1]
        /\ \A i \in 0 .. hdrs_tail - 1 : hdrs'[i].len = hdrs[i].len
                                         /\ hdrs'[i].caplen = hdrs[i].caplen
    BY <1>1, QueueKept
  <1>4. /\ hdrs_tail' = IF Enqueues THEN hdrs_tail + 1 ELSE hdrs_tail
        /\ hdrs_head' = IF Releases THEN hdrs_head + 1 ELSE hdrs_head
        /\ Enqueues => ~Releases
        /\ Queued \subseteq Queued'
    BY <1>1, QueuedStep
  <1>5. buffer_tail <= buffer_tail' /\ buffer_tail \in Int /\ buffer_tail' \in Int
        /\ (~Enqueues => buffer_tail' = buffer_tail)
    <2>0. buffer_tail \in Int
      BY RoomAssumption DEF MergeTypeOK
    <2>1. CASE Enqueues
      <3> DEFINE n == capture[pos'].len
      <3>1. n \in Nat /\ buffer_tail' = buffer_tail + n
        BY <1>2, <2>1, RecordFacts, PushFacts DEF Enqueues, Settles
      <3> HIDE DEF n
      <3> QED
        BY <2>0, <2>1, <3>1
    <2>2. CASE ~Enqueues
      <3>1. buffer_tail' = buffer_tail
        BY <1>1, <2>2 DEF StepKind, Moves, Drops, Passes, arenaVars, Releases, Release, Pop
      <3> QED
        BY <2>0, <2>2, <3>1
    <2> QED
      BY <2>1, <2>2
  <1>6. (buffer_head = Start(hdrs_head))'
    <2>0. buffer_head = Start(hdrs_head)
      BY DEF ArenaOK
    <2>1. CASE Releases
      <3>1. /\ hdrs_head \in 0 .. hdrs_tail - 1
            /\ buffer_head' = buffer_head + hdrs[hdrs_head].len
        BY <2>1, ReleaseFacts DEF Releases
      <3>2. hdrs_head \in 0 .. HdrRoom - 1 /\ hdrs_head + 1 \in 0 .. hdrs_tail
        BY <1>2, <3>1
      <3>3. Start(hdrs_head + 1) = Start(hdrs_head) + hdrs[hdrs_head].len
        BY <3>2, StartFacts DEF MergeTypeOK
      <3>4. buffer_head' = Start(hdrs_head + 1)
        BY <2>0, <3>1, <3>3
      <3>5. \A i \in 0 .. hdrs_tail : i = hdrs_head' => (Start(hdrs_head))' = Start(i)
        BY <1>3 DEF Start
      <3> QED
        BY <1>4, <2>1, <3>2, <3>4, <3>5
    <2>2. CASE ~Releases
      <3>1. buffer_head' = buffer_head
        BY <1>1, <2>2 DEF StepKind, Moves, Drops, Passes, arenaVars, Enqueues, Push
      <3>2. \A i \in 0 .. hdrs_tail : i = hdrs_head' => (Start(hdrs_head))' = Start(i)
        BY <1>3 DEF Start
      <3> QED
        BY <1>2, <1>4, <2>0, <2>2, <3>1, <3>2
    <2> QED
      BY <2>1, <2>2
  <1>7. (buffer_tail = Start(hdrs_tail))'
    <2>1. CASE Enqueues
      <3>1. \A t : t = hdrs_tail => (Start(t + 1))' = buffer_tail'
        BY <1>1, <2>1, LastQueued
      <3>2. \A t : t + 1 = hdrs_tail' => (Start(t + 1))' = (Start(hdrs_tail))'
        BY DEF Start
      <3> QED
        BY <1>2, <1>4, <2>1, <3>1, <3>2
    <2>2. CASE ~Enqueues
      <3>1. \A i \in 0 .. hdrs_tail : i = hdrs_tail' => (Start(hdrs_tail))' = Start(i)
        BY <1>3 DEF Start
      <3>2. buffer_tail = Start(hdrs_tail)
        BY DEF ArenaOK
      <3> QED
        BY <1>2, <1>4, <1>5, <2>2, <3>1, <3>2
    <2> QED
      BY <2>1, <2>2
  <1>8. ASSUME NEW i \in 0 .. hdrs_tail' - 1, NEW k, k = (RecordAt(i))'
        PROVE  /\ k \in Queued'
               /\ hdrs'[i].len = capture[k].len /\ hdrs'[i].caplen = capture[k].caplen
               /\ i >= hdrs_head' => hdrs'[i].ts = capture[k].ts
               /\ (Start(i))' + capture[k].len <= buffer_tail'
               /\ \A b \in 1 .. capture[k].len : buffer'[(Start(i))' + b - 1] = Data(k)[b]
               /\ \A h \in 0 .. i - 1 : (RecordAt(h))' < k
    <2>1. CASE i \in 0 .. hdrs_tail - 1
      <3>1. k = RecordAt(i) /\ (Start(i))' = Start(i)
        BY <1>2, <1>3, <1>8, <2>1
      <3>2. /\ k \in Queued
            /\ hdrs[i].len = capture[k].len /\ hdrs[i].caplen = capture[k].caplen
            /\ i >= hdrs_head => hdrs[i].ts = capture[k].ts
            /\ Start(i) + capture[k].len <= buffer_tail
            /\ \A b \in 1 .. capture[k].len : buffer[Start(i) + b - 1] = Data(k)[b]
            /\ \A h \in 0 .. i - 1 : RecordAt(h) < k
        BY <2>1, <3>1 DEF ArenaOK
      <3>3. \A h \in 0 .. i - 1 : (RecordAt(h))' < k
        BY <1>2, <1>3, <2>1, <3>2
      <3>4. (Start(i))' + capture[k].len <= buffer_tail'
        <4> DEFINE n == capture[k].len
        <4>1. n \in Int /\ Start(i) \in Int
          <5>1. k \in Records /\ i \in 0 .. HdrRoom
            BY <1>2, <2>1, <3>2, HandledFacts
          <5>2. Start(i) \in Nat
            BY <5>1, StartFacts DEF MergeTypeOK
          <5>3. capture[k].len \in Nat
            BY <1>2, <5>1, RecordFacts
          <5> QED
            BY <5>2, <5>3
        <4>2. Start(i) + n <= buffer_tail
          BY <3>2
        <4> HIDE DEF n
        <4>3. Start(i) + n <= buffer_tail'
          BY <1>5, <4>1, <4>2
        <4> QED
          BY <3>1, <4>3 DEF n
      <3>5. i >= hdrs_head' => hdrs'[i].ts = capture[k].ts
        <4>1. ASSUME i >= hdrs_head'
              PROVE  hdrs'[i].ts = hdrs[i].ts /\ i >= hdrs_head
          <5>1. CASE Enqueues
            BY <1>2, <1>4, <2>1, <4>1, <5>1, PushFacts DEF Enqueues, Settles
          <5>2. CASE Releases
            <6>1. /\ hdrs_head' = hdrs_head + 1
                  /\ \A h \in hdrs_head + 1 .. HdrRoom - 1 : hdrs'[h] = hdrs[h]
              BY <5>2, ReleaseFacts DEF Releases
            <6> QED
              BY <1>2, <2>1, <4>1, <6>1
          <5>3. CASE Moves \/ Drops \/ Passes
            BY <4>1, <5>3 DEF Moves, Drops, Passes, arenaVars
          <5> QED
            BY <1>1, <5>1, <5>2, <5>3 DEF StepKind
        <4> QED
          BY <3>2, <4>1
      <3>6. \A b \in 1 .. capture[k].len : buffer'[(Start(i))' + b - 1] = Data(k)[b]
        BY <1>3, <2>1, <3>1, <3>2
      <3>7. hdrs'[i].len = capture[k].len /\ hdrs'[i].caplen = capture[k].caplen
        BY <1>3, <2>1, <3>2
      <3> QED
        BY <1>4, <3>2, <3>3, <3>4, <3>5, <3>6, <3>7
    <2>2. CASE i \notin 0 .. hdrs_tail - 1
      <3>1. Enqueues /\ i = hdrs_tail
        BY <1>2, <1>4, <2>2
      <3>2. /\ k = pos' /\ (Start(i))' = buffer_tail
        BY <1>1, <1>8, <3>1, LastQueued
      <3>3. pos' \in Records /\ Push(Hdr(capture[pos']), Data(pos'))
        BY <3>1 DEF Enqueues, Settles
      <3>4. /\ hdrs'[i] = Hdr(capture[k]) /\ buffer_tail' = buffer_tail + capture[k].len
            /\ \A b \in 1 .. capture[k].len : buffer'[buffer_tail + b - 1] = Data(k)[b]
        BY <3>1, <3>2, <3>3, PushFacts
      <3>5. k \in Queued' /\ \A m \in Queued : m < k
        BY <1>1, <3>1, <3>2, QueuedStep
      <3>6. \A h \in 0 .. i - 1 : (RecordAt(h))' < k
        BY <1>3, <3>1, <3>5 DEF ArenaOK
      <3>7. (Start(i))' + capture[k].len <= buffer_tail'
        <4> DEFINE n == capture[k].len
        <4>1. n \in Int /\ (Start(i))' + n = buffer_tail'
          BY <1>2, <3>2, <3>3, <3>4, RecordFacts
        <4> HIDE DEF n
        <4>2. (Start(i))' + n <= buffer_tail'
          BY <1>5, <4>1
        <4> QED
          BY <4>2 DEF n
      <3> QED
        BY <3>2, <3>4, <3>5, <3>6, <3>7 DEF Hdr
    <2> QED
      BY <2>1, <2>2
  <1>9. ASSUME NEW k \in Queued'
        PROVE  \E i \in 0 .. hdrs_tail' - 1 : (RecordAt(i))' = k
    <2>1. CASE k \in Queued
      <3>1. PICK i \in 0 .. hdrs_tail - 1 : RecordAt(i) = k
        BY <2>1 DEF ArenaOK
      <3>2. i \in 0 .. hdrs_tail' - 1
        BY <1>2, <1>4
      <3> QED
        BY <1>3, <3>1, <3>2
    <2>2. CASE k \notin Queued
      <3>1. Enqueues /\ k = pos'
        BY <1>1, <1>9, <2>2, QueuedStep
      <3>2. \A t : t = hdrs_tail => (RecordAt(t))' = k
        BY <1>1, <3>1, LastQueued
      <3>3. hdrs_tail \in 0 .. hdrs_tail' - 1
        BY <1>2, <1>4, <3>1
      <3> QED
        BY <3>2, <3>3
    <2> QED
      BY <2>1, <2>2
  <1> QED
    BY <1>1, <1>6, <1>7, <1>8, <1>9 DEF ArenaOK

-------------------------------------------------------------------------------------
(* The output.                                                                       *)

\* What a packet that is written adds to the output.
LEMMA OutputGrows ==
  ASSUME capture \in Captures, output \in Seq(Packets), capture' = capture,
         NEW k \in Records, NEW ts \in Int, output' = Append(output, Packet(k, ts))
  PROVE  /\ Len(output) \in Nat /\ Len(output') = Len(output) + 1
         /\ \A n \in 1 .. Len(output) : output'[n] = output[n]
         /\ output'[Len(output) + 1] = Packet(k, ts)
         /\ Sent' = Sent \cup {k}
         /\ Taken \subseteq 1 .. Len(output)
         /\ Taken' = IF capture[k].target THEN Taken \cup {Len(output) + 1} ELSE Taken
  <1>1. Packet(k, ts) \in Packets /\ Origin(Packet(k, ts)) = k
    BY PacketFacts
  <1>2. /\ Len(output) \in Nat /\ Len(output') = Len(output) + 1
        /\ \A n \in 1 .. Len(output) : output'[n] = output[n]
        /\ output'[Len(output) + 1] = Packet(k, ts)
    BY <1>1, AppendProperties, LenProperties
  <1> DEFINE N == Len(output)  last == N + 1
  <1>3. /\ N \in Nat /\ 1 .. N + 1 = (1 .. N) \cup {last} /\ last \notin 1 .. N
    BY <1>2
  <1>4. /\ \A n \in 1 .. N : Origin(output'[n]) = Origin(output[n])
        /\ Origin(output'[last]) = k
    BY <1>1, <1>2
  <1>5. /\ Sent = {Origin(output[n]) : n \in 1 .. N}
        /\ Sent' = {Origin(output'[n]) : n \in 1 .. N + 1}
        /\ Taken = {n \in 1 .. N : capture[Origin(output[n])].target}
        /\ Taken' = {n \in 1 .. N + 1 : capture[Origin(output'[n])].target}
    BY <1>2 DEF Sent, Taken, Origin
  <1> HIDE DEF N, last
  <1>6. Sent' = Sent \cup {k}
    BY <1>3, <1>4, <1>5, ZenonT(30)
  <1>7. Taken \subseteq 1 .. N
    BY <1>5
  <1>8. Taken' = IF capture[k].target THEN Taken \cup {last} ELSE Taken
    <2>1. \A n : n \in Taken' <=> n \in 1 .. N + 1 /\ capture[Origin(output'[n])].target
      BY <1>5
    <2>2. \A n : n \in Taken <=> n \in 1 .. N /\ capture[Origin(output[n])].target
      BY <1>5
    <2>3. CASE capture[k].target
      <3>1. \A n : n \in Taken' <=> n \in Taken \cup {last}
        BY <1>3, <1>4, <2>1, <2>2, <2>3
      <3> QED
        BY <2>3, <3>1
    <2>4. CASE ~capture[k].target
      <3>1. \A n : n \in Taken' <=> n \in Taken
        BY <1>3, <1>4, <2>1, <2>2, <2>4
      <3> QED
        BY <2>4, <3>1
    <2> QED
      BY <2>3, <2>4
  <1> QED
    BY <1>2, <1>6, <1>7, <1>8 DEF N, last

\* The output is what OutputOK says.
LEMMA OutputStep ==
  ASSUME MergeTypeOK, ClockOK, ArenaOK, OutputOK, Next
  PROVE  OutputOK'
  <1> DEFINE upto(T, n) == {m \in T : m <= n}
  <1>1. /\ capture' = capture /\ StepKind /\ Held' = Held
        /\ Handled \subseteq Handled'
        /\ hdrs_head' = IF Releases THEN hdrs_head + 1 ELSE hdrs_head
    BY StepKinds, SameCapture, QueuedStep
  <1>2. /\ hdrs_tail \in Nat /\ hdrs_head \in 0 .. hdrs_tail /\ hdrs_head \in Nat
        /\ capture \in Captures /\ output \in Seq(Packets)
    BY RoomAssumption DEF MergeTypeOK
  <1>3. \A i \in 0 .. hdrs_tail - 1 : (RecordAt(i))' = RecordAt(i)
    BY <1>1, QueueKept
  <1>4. /\ \A k \in Sent : k \in Handled /\ (capture[k].target => k \in Held)
        /\ \A k \in Handled : ~capture[k].target => k \in Sent
        /\ Cardinality(Taken) = hdrs_head
        /\ \A i \in 0 .. hdrs_head - 1 : \E n \in Taken : Cardinality(upto(Taken, n)) = i + 1
        /\ \A n \in Taken : \A i \in Nat :
             Cardinality(upto(Taken, n)) = i + 1 =>
               i < hdrs_head /\ Origin(output[n]) = RecordAt(i)
    BY DEF OutputOK
  <1>5. SUFFICES
        /\ \A k \in Sent' : k \in Handled' /\ (capture[k].target => k \in Held)
        /\ \A k \in Handled' : ~capture[k].target => k \in Sent'
        /\ Cardinality(Taken') = hdrs_head'
        /\ \A i \in 0 .. hdrs_head' - 1 : \E n \in Taken' : Cardinality(upto(Taken', n)) = i + 1
        /\ \A n \in Taken' : \A i \in Nat :
             Cardinality(upto(Taken', n)) = i + 1 =>
               i < hdrs_head' /\ Origin(output'[n]) = (RecordAt(i))'
    BY <1>1 DEF OutputOK, Origin
  <1>6. CASE ~Releases
    <2>1. /\ Taken' = Taken /\ hdrs_head' = hdrs_head
          /\ \A n \in Taken : Origin(output'[n]) = Origin(output[n])
          /\ \A k \in Sent' : k \in Handled' /\ (capture[k].target => k \in Held)
          /\ \A k \in Handled' : ~capture[k].target => k \in Sent'
      <3>1. CASE Moves \/ Enqueues \/ Drops
        <4>1. output' = output
          BY <3>1 DEF Moves, Enqueues, Drops, written
        <4>2. Sent' = Sent /\ Taken' = Taken
          BY <1>1, <4>1 DEF Sent, Taken, Origin
        <4>3. \A k \in Handled' : ~capture[k].target => k \in Handled
          BY <3>1 DEF Moves, Enqueues, Drops, Settles, Held
        <4> QED
          BY <1>1, <1>4, <1>6, <4>1, <4>2, <4>3
      <3>2. CASE Passes
        <4>1. /\ pos' \in Records /\ ~capture[pos'].target /\ Handled' = Handled \cup {pos'}
              /\ output' = Append(output, Packet(pos', Stamp(TimeOf(pos'))))
          BY <3>2 DEF Passes, Settles
        <4>2. Stamp(TimeOf(pos')) \in Int
          BY <1>2, <4>1, RecordFacts, StampFacts
        <4>3. /\ Sent' = Sent \cup {pos'} /\ Taken' = Taken /\ Taken \subseteq 1 .. Len(output)
              /\ \A n \in 1 .. Len(output) : output'[n] = output[n]
          BY <1>1, <1>2, <4>1, <4>2, OutputGrows
        <4> QED
          BY <1>1, <1>4, <1>6, <4>1, <4>3
      <3> QED
        BY <1>1, <1>6, <3>1, <3>2 DEF StepKind
    <2>2. \A i \in 0 .. hdrs_head - 1 : (RecordAt(i))' = RecordAt(i)
      BY <1>2, <1>3
    <2>3. \A i \in Nat : i < hdrs_head => i \in 0 .. hdrs_head - 1
      BY <1>2
    <2> HIDE DEF upto
    <2> QED
      BY <1>4, <2>1, <2>2, <2>3
  <1>7. CASE Releases
    <2> DEFINE r == RecordAt(hdrs_head)  N == Len(output)
    <2>1. Release /\ Handled' = Handled
      BY <1>7 DEF Releases
    <2>2. /\ r \in Queued /\ hdrs_head \in 0 .. hdrs_tail - 1 /\ Stamp(Due) \in Int
          /\ output' = Append(output, Packet(r, Stamp(Due)))
      BY <2>1, ReleaseFacts, StampFacts
    <2>3. r \in Records /\ r \in Handled /\ r \in Held /\ capture[r].target
      BY <1>2, <2>2, HandledFacts
    <2> HIDE DEF r
    <2>4. /\ N \in Nat /\ Sent' = Sent \cup {r} /\ Taken \subseteq 1 .. N
          /\ Taken' = Taken \cup {N + 1}
          /\ \A n \in 1 .. N : output'[n] = output[n]
          /\ output'[N + 1] = Packet(r, Stamp(Due))
      BY <1>1, <1>2, <2>2, <2>3, OutputGrows
    <2> HIDE DEF N
    <2>5. Cardinality(Taken') = hdrs_head + 1
      <3>1. IsFiniteSet(Taken) /\ N + 1 \notin Taken
        BY <2>4, FS_Interval, FS_Subset
      <3> QED
        BY <1>4, <2>4, <3>1, FS_AddElement
    <2>6. \A n \in Taken : upto(Taken', n) = upto(Taken, n)
      BY <2>4
    <2>7. upto(Taken', N + 1) = Taken'
      <3>1. \A m \in Taken' : m <= N + 1
        BY <2>4
      <3> QED
        BY <3>1
    <2>8. Origin(output'[N + 1]) = r
      BY <1>2, <2>2, <2>3, <2>4, PacketFacts
    <2>9. \A n \in Taken : Origin(output'[n]) = Origin(output[n])
      BY <2>4
    <2>10. /\ \A i \in 0 .. hdrs_head - 1 : (RecordAt(i))' = RecordAt(i)
           /\ \A i \in Nat : i < hdrs_head => i \in 0 .. hdrs_head - 1
           /\ \A i \in Nat : i = hdrs_head => (RecordAt(i))' = r
           /\ hdrs_head' = hdrs_head + 1
      BY <1>1, <1>2, <1>3, <1>7, <2>2 DEF r
    <2> HIDE DEF upto
    <2>11. ASSUME NEW i \in 0 .. hdrs_head' - 1
           PROVE  \E n \in Taken' : Cardinality(upto(Taken', n)) = i + 1
      <3>1. CASE i = hdrs_head
        BY <2>4, <2>5, <2>7, <3>1
      <3>2. CASE i # hdrs_head
        <4>1. i \in 0 .. hdrs_head - 1
          BY <1>2, <2>10, <3>2
        <4> QED
          BY <1>4, <2>4, <2>6, <4>1
      <3> QED
        BY <3>1, <3>2
    <2>12. ASSUME NEW n \in Taken', NEW i \in Nat, Cardinality(upto(Taken', n)) = i + 1
           PROVE  i < hdrs_head' /\ Origin(output'[n]) = (RecordAt(i))'
      <3>1. CASE n \in Taken
        <4>1. i < hdrs_head /\ Origin(output[n]) = RecordAt(i)
          BY <1>4, <2>6, <2>12, <3>1
        <4> QED
          BY <1>2, <2>9, <2>10, <3>1, <4>1
      <3>2. CASE n = N + 1
        <4>1. i = hdrs_head
          BY <1>2, <2>5, <2>7, <2>12, <3>2
        <4> QED
          BY <1>2, <2>8, <2>10, <3>2, <4>1
      <3> QED
        BY <2>4, <3>1, <3>2
    <2> QED
      BY <1>4, <2>1, <2>3, <2>4, <2>5, <2>10, <2>11, <2>12
  <1> QED
    BY <1>6, <1>7

-------------------------------------------------------------------------------------
(* The times, for a capture in time order.                                           *)

\* No time is negative.
LEMMA TimesPositive ==
  ASSUME capture \in Captures, InOrder, NEW k \in Records
  PROVE  TimeOf(k) \in Nat
  <1>1. 1 \in Records /\ 1 <= k /\ TimeOf(k) \in Int /\ TimeOf(1) \in Int
    BY RecordFacts DEF Records
  <1>2. TimeOf(1) <= TimeOf(k)
    BY <1>1, TimesGrow
  <1>3. TimeOf(1) = OffsetTicks
    <2> DEFINE o == capture[1].ts
    <2>1. TimeOf(1) = o - o + OffsetTicks /\ o \in Int /\ OffsetTicks \in Int
      BY <1>1, RecordFacts, MergeAssumption DEF TimeOf
    <2> HIDE DEF o
    <2> QED
      BY <2>1
  <1> QED
    BY <1>1, <1>2, <1>3, MergeAssumption

\* The packets in the queue are due in their order.
LEMMA DueInOrder ==
  ASSUME MergeTypeOK, ArenaOK, InOrder,
         NEW i \in 0 .. hdrs_tail - 1, NEW j \in 0 .. hdrs_tail - 1, i <= j
  PROVE  DueAt(RecordAt(i)) <= DueAt(RecordAt(j))
  <1> DEFINE k == RecordAt(i)  m == RecordAt(j)
  <1>1. capture \in Captures
    BY DEF MergeTypeOK
  <1>2. k \in Queued /\ m \in Queued /\ (i < j => k < m)
    BY DEF ArenaOK
  <1>3. k \in Records /\ m \in Records /\ k \in Nat /\ m \in Nat
    BY <1>1, <1>2, HandledFacts DEF Records
  <1>4. k <= m
    <2>1. i \in Int /\ j \in Int
      BY RoomAssumption DEF MergeTypeOK
    <2>2. i = j => k = m
      OBVIOUS
    <2> HIDE DEF k, m
    <2> QED
      BY <1>2, <1>3, <2>1, <2>2
  <1> HIDE DEF k, m
  <1>5. TimeOf(k) <= TimeOf(m) /\ TimeOf(k) \in Int /\ TimeOf(m) \in Int /\ Shift \in Nat
    BY <1>1, <1>3, <1>4, TimesGrow, RecordFacts, ShiftFacts
  <1>6. DueAt(k) <= DueAt(m)
    BY <1>5 DEF DueAt
  <1> QED
    BY <1>6 DEF k, m

\* While packets are released, the program's time for the one at the head is the one that
\* the common delay gives: all early packets have been seen by then.
LEMMA DueIs ==
  ASSUME MergeTypeOK, ClockOK, ArenaOK, InOrder, pc = "releasing", ~Empty
  PROVE  Due = DueAt(RecordAt(hdrs_head))
  <1> DEFINE r == RecordAt(hdrs_head)  o == capture[1].ts  a == capture[r].ts
  <1>1. capture \in Captures /\ r \in Records /\ 1 \in Records /\ pos \in Records /\ Late(pos)
    BY HeadPacket, HandledFacts, RecordFacts, ClockFacts DEF MergeTypeOK, ClockOK
  <1>2. sec_offs = o - OffsetTicks
    BY <1>1 DEF ClockOK
  <1>3. Due = a - sec_offs + (Delay - sec_offs2)
    BY HeadPacket DEF Due
  <1>4. TimeOf(r) = a - o + OffsetTicks
    BY DEF TimeOf
  <1>5. /\ a \in Int /\ o \in Int /\ OffsetTicks \in Int /\ Delay \in Int
        /\ sec_offs2 \in Int /\ Shift \in Int
    <2>1. capture[r].ts \in Nat /\ capture[1].ts \in Nat
      BY <1>1, RecordFacts
    <2>2. Shift \in Nat
      BY <1>1, ShiftFacts
    <2>3. sec_offs2 \in Int
      BY DEF MergeTypeOK
    <2> QED
      BY <2>1, <2>2, <2>3, MergeAssumption
  <1>6. Shift = Delay - sec_offs2
    <2>1. CASE sec_first2
      <3>1. sec_offs2 = 0 /\ \A k \in EarlyHeld : k > pos
        BY <2>1 DEF ClockOK
      <3>2. ASSUME NEW k \in EarlyHeld
            PROVE  FALSE
        <4>1. k \in Records /\ TimeOf(k) < Delay /\ k > pos
          BY <3>1 DEF EarlyHeld, Held
        <4>2. pos <= k
          BY <1>1, <4>1 DEF Records
        <4>3. TimeOf(pos) <= TimeOf(k)
          BY <1>1, <4>1, <4>2, TimesGrow
        <4> QED
          BY <1>1, <1>5, <4>1, <4>3, RecordFacts DEF Late
      <3> QED
        BY <1>1, <1>5, <3>1, <3>2, ShiftFacts
    <2>2. CASE ~sec_first2
      BY <1>1, <2>2, ShiftFacts DEF ClockOK
    <2> QED
      BY <2>1, <2>2
  <1> HIDE DEF r, o, a
  <1>7. Due = TimeOf(r) + Shift
    BY <1>2, <1>3, <1>4, <1>5, <1>6
  <1> QED
    BY <1>7 DEF DueAt, r

\* A late record that is dealt with is not later than what is still in the queue.
LEMMA NothingDue ==
  ASSUME MergeTypeOK, ClockOK, ArenaOK, InOrder, pc = "releasing", ~SomeDue,
         NEW i \in hdrs_head .. hdrs_tail - 1
  PROVE  DueAt(RecordAt(i)) >= TimeOf(pos)
  <1>1. /\ hdrs_tail \in Nat /\ hdrs_head \in 0 .. hdrs_tail /\ capture \in Captures
    BY RoomAssumption DEF MergeTypeOK
  <1>2. ~Empty /\ hdrs_head \in 0 .. hdrs_tail - 1 /\ i \in 0 .. hdrs_tail - 1 /\ hdrs_head <= i
    BY <1>1 DEF Empty
  <1>3. Due = DueAt(RecordAt(hdrs_head)) /\ ~(Due < Time)
    BY <1>2, DueIs DEF SomeDue
  <1>4. Time = TimeOf(pos) /\ TimeOf(pos) \in Int
    BY <1>1, ClockFacts, RecordFacts DEF ClockOK
  <1>5. DueAt(RecordAt(hdrs_head)) <= DueAt(RecordAt(i))
    BY <1>2, DueInOrder
  <1>6. DueAt(RecordAt(hdrs_head)) \in Int /\ DueAt(RecordAt(i)) \in Int
    BY <1>1, <1>2, HandledFacts, ShiftFacts DEF ArenaOK
  <1> QED
    BY <1>3, <1>4, <1>5, <1>6

\* A packet that is released is due, and was due before the record just read.
LEMMA ReleasedDue ==
  ASSUME MergeTypeOK, ClockOK, ArenaOK, InOrder, Releases, NEW r, r = RecordAt(hdrs_head)
  PROVE  /\ r \in Records /\ capture[r].target /\ pos \in Records /\ Late(pos) /\ r < pos
         /\ Due = DueAt(r) /\ Stamp(Due) = DueAt(r) /\ DueAt(r) \in Int
         /\ DueAt(r) < TimeOf(pos) /\ TimeOf(pos) \in Int
         /\ output' = Append(output, Packet(r, DueAt(r))) /\ pos' = pos
  <1>1. Release /\ pc = "releasing" /\ SomeDue /\ ~Empty
    BY DEF Releases, Release, SomeDue
  <1>2. capture \in Captures
    BY DEF MergeTypeOK
  <1>3. /\ r \in Queued /\ pos' = pos /\ output' = Append(output, Packet(r, Stamp(Due)))
    BY <1>1, ReleaseFacts
  <1>4. r \in Records /\ r \in Held /\ r \in Handled /\ capture[r].target
    BY <1>2, <1>3, HandledFacts
  <1>5. Due = DueAt(r)
    BY <1>1, DueIs
  <1>6. DueAt(r) \in Int /\ DueAt(r) >= TimeOf(r) /\ TimeOf(r) \in Nat
    BY <1>2, <1>4, ShiftFacts, TimesPositive
  <1>7. Stamp(Due) = DueAt(r)
    BY <1>5, <1>6, StampFacts
  <1>8. pos \in Records /\ Late(pos) /\ Time = TimeOf(pos) /\ TimeOf(pos) \in Int
    BY <1>1, <1>2, ClockFacts, RecordFacts DEF ClockOK
  <1>9. r < pos
    <2>1. r <= pos /\ r # pos
      BY <1>1, <1>4 DEF Handled
    <2> QED
      BY <1>4, <1>8, <2>1 DEF Records
  <1>10. DueAt(r) < TimeOf(pos)
    BY <1>1, <1>5, <1>8 DEF SomeDue
  <1> QED
    BY <1>3, <1>4, <1>5, <1>6, <1>7, <1>8, <1>9, <1>10

\* What is in the output came from a record that was read.
LEMMA OutputPast ==
  ASSUME MergeTypeOK, ClockOK, OutputOK, InOrder, TimesOK, Next, NEW n \in 1 .. Len(output)
  PROVE  /\ output[n].ts \in Int /\ TimeOf(pos') \in Int /\ output[n].ts <= TimeOf(pos')
         /\ (TimeOf(pos))' = TimeOf(pos')
  <1>1. capture \in Captures /\ output \in Seq(Packets) /\ capture' = capture
    BY StepKinds DEF MergeTypeOK
  <1>2. Origin(output[n]) \in Handled
    BY DEF OutputOK, Sent
  <1>3. pos \in Records /\ Records \subseteq Nat /\ 1 \in Records
    <2>1. Origin(output[n]) \in Records /\ Origin(output[n]) <= pos
      BY <1>2 DEF Handled
    <2>2. pos \in 0 .. Len(capture) /\ Len(capture) \in Nat
      BY <1>1, RecordFacts DEF MergeTypeOK
    <2> QED
      BY <2>1, <2>2 DEF Records
  <1>4. pos' \in Records /\ pos <= pos'
    <2>1. Read => pos' = pos + 1 /\ pos + 1 \in Records
      BY ClockFacts DEF Read
    <2>2. pos' = pos \/ Read
      BY DEF Next, OpenFails, OpenSucceeds, HoldEarly, DropAtDelay, PassEarly, MeetLate,
             Release, HoldLate, PassLate, Finish
    <2> QED
      BY <1>3, <2>1, <2>2
  <1>5. TimeOf(pos) <= TimeOf(pos') /\ TimeOf(pos) \in Int /\ TimeOf(pos') \in Int
    BY <1>1, <1>3, <1>4, TimesGrow, RecordFacts
  <1>6. output[n].ts \in Int /\ output[n].ts <= TimeOf(pos)
    BY <1>1, OutputFacts DEF TimesOK
  <1>7. (TimeOf(pos))' = TimeOf(pos')
    BY <1>1 DEF TimeOf
  <1> QED
    BY <1>5, <1>6, <1>7

\* When a packet is written with the time it should have, no earlier than any before it, no
\* later than the record read last, and no later than anything in the queue is due, all
\* times stay right.
LEMMA TimesAppend ==
  ASSUME MergeTypeOK, ClockOK, ArenaOK, OutputOK, TimesOK, Next, InOrder,
         hdrs_tail' = hdrs_tail, hdrs_head' \in hdrs_head .. hdrs_tail,
         NEW k \in Records, NEW ts \in Int, output' = Append(output, Packet(k, ts)),
         ts = IF capture[k].target THEN DueAt(k) ELSE TimeOf(k),
         \A n \in 1 .. Len(output) : output[n].ts <= ts,
         ts <= TimeOf(pos'),
         \A i \in hdrs_head' .. hdrs_tail - 1 : ts <= DueAt(RecordAt(i))
  PROVE  TimesOK'
  <1> DEFINE N == Len(output)
             should(r) == IF capture[r].target THEN TimeOf(r) + Shift ELSE TimeOf(r)
  <1>1. /\ capture' = capture /\ Records' = Records /\ InOrder' = InOrder /\ Shift' = Shift
        /\ \A r : (TimeOf(r))' = TimeOf(r) /\ (DueAt(r))' = DueAt(r)
        /\ StepKind /\ capture \in Captures /\ output \in Seq(Packets)
    BY StepKinds, SameCapture DEF MergeTypeOK
  <1>2. /\ N \in Nat /\ Len(output') = N + 1
        /\ \A n \in 1 .. N : output'[n] = output[n]
        /\ output'[N + 1] = Packet(k, ts)
    BY <1>1, OutputGrows
  <1>3. output'[N + 1].ts = ts /\ Origin(output'[N + 1]) = k
    BY <1>1, <1>2, PacketFacts
  <1>4. ts = should(k)
    BY DEF DueAt
  <1>5. \A n \in 1 .. N : output[n].ts = should(Origin(output[n]))
    BY DEF TimesOK, AttackKeepsRhythm
  <1>6. \A n \in 1 .. N + 1 : output'[n].ts = should(Origin(output'[n]))
    <2> HIDE DEF should, N
    <2> QED
      BY <1>2, <1>3, <1>4, <1>5
  <1>7. AttackKeepsRhythm'
    BY <1>1, <1>2, <1>6 DEF AttackKeepsRhythm, Origin
  <1>8. ASSUME NEW m \in 1 .. N + 1, NEW n \in 1 .. N + 1, m < n
        PROVE  output'[m].ts <= output'[n].ts
    <2>1. CASE n = N + 1
      BY <1>2, <1>3, <1>8, <2>1
    <2>2. CASE n # N + 1
      <3>1. m \in 1 .. N /\ n \in 1 .. N
        BY <1>2, <1>8, <2>2
      <3>2. output[m].ts <= output[n].ts
        BY <1>8, <3>1 DEF TimesOK
      <3> QED
        BY <1>2, <3>1, <3>2
    <2> QED
      BY <2>1, <2>2
  <1>9. \A i \in hdrs_head' .. hdrs_tail - 1 :
          (RecordAt(i))' = RecordAt(i) /\ i \in hdrs_head .. hdrs_tail - 1
    <2>1. hdrs_tail \in Nat /\ hdrs_head \in Nat
      BY RoomAssumption DEF MergeTypeOK
    <2>2. \A i \in hdrs_head' .. hdrs_tail - 1 :
            i \in 0 .. hdrs_tail - 1 /\ i \in hdrs_head .. hdrs_tail - 1
      BY <2>1
    <2> QED
      BY <1>1, <2>2, QueueKept
  <1>10. ASSUME NEW n \in 1 .. N + 1
         PROVE  /\ output'[n].ts <= TimeOf(pos')
                /\ \A i \in hdrs_head' .. hdrs_tail - 1 :
                     output'[n].ts <= DueAt(RecordAt(i))
    <2>1. CASE n = N + 1
      BY <1>3, <2>1
    <2>2. CASE n # N + 1
      <3>1. n \in 1 .. N /\ output'[n] = output[n]
        BY <1>2, <2>2
      <3>2. output[n].ts <= TimeOf(pos')
        BY <3>1, OutputPast
      <3>3. \A i \in hdrs_head .. hdrs_tail - 1 : output[n].ts <= DueAt(RecordAt(i))
        BY <3>1 DEF TimesOK
      <3> QED
        BY <1>9, <3>1, <3>2, <3>3
    <2> QED
      BY <2>1, <2>2
  <1>11. \A i \in hdrs_head' .. hdrs_tail' - 1 : (DueAt(RecordAt(i)))' = DueAt(RecordAt(i))
    BY <1>1, <1>9 DEF DueAt, TimeOf
  <1>12. (TimeOf(pos))' = TimeOf(pos')
    BY <1>1 DEF TimeOf
  <1> HIDE DEF N, should
  <1> QED
    BY <1>1, <1>2, <1>7, <1>8, <1>10, <1>11, <1>12 DEF TimesOK

\* The times of the output stay right.
LEMMA TimesStep ==
  ASSUME MergeTypeOK, ClockOK, ArenaOK, OutputOK, TimesOK, Next
  PROVE  TimesOK'
  <1>1. /\ capture' = capture /\ Records' = Records /\ InOrder' = InOrder /\ Shift' = Shift
        /\ \A r : (TimeOf(r))' = TimeOf(r) /\ (DueAt(r))' = DueAt(r)
        /\ StepKind /\ capture \in Captures /\ output \in Seq(Packets)
    BY StepKinds, SameCapture DEF MergeTypeOK
  <1>2. /\ hdrs_tail \in Nat /\ hdrs_head \in 0 .. hdrs_tail
    BY RoomAssumption DEF MergeTypeOK
  <1>3. CASE ~InOrder
    BY <1>1, <1>3 DEF TimesOK
  <1>4. CASE InOrder /\ (Moves \/ Drops \/ Enqueues)
    <2>1. output' = output /\ hdrs_head' = hdrs_head
      BY <1>4 DEF Moves, Drops, Enqueues, written, arenaVars, Push
    <2>2. AttackKeepsRhythm'
      BY <1>1, <1>4, <2>1 DEF TimesOK, AttackKeepsRhythm, Origin
    <2>3. ASSUME NEW n \in 1 .. Len(output), NEW i \in hdrs_head .. hdrs_tail' - 1
          PROVE  output[n].ts <= (DueAt(RecordAt(i)))'
      <3>1. CASE i \in 0 .. hdrs_tail - 1
        <4>1. (RecordAt(i))' = RecordAt(i) /\ i \in hdrs_head .. hdrs_tail - 1
          BY <1>1, <1>2, <3>1, QueueKept
        <4>2. (DueAt(RecordAt(i)))' = DueAt(RecordAt(i))
          BY <1>1, <4>1 DEF DueAt, TimeOf
        <4> QED
          BY <1>4, <4>1, <4>2 DEF TimesOK
      <3>2. CASE i \notin 0 .. hdrs_tail - 1
        <4>1. Enqueues /\ i = hdrs_tail
          BY <1>1, <1>2, <3>2, QueuedStep
        <4>2. (RecordAt(i))' = pos' /\ pos' \in Held
          BY <1>1, <4>1, LastQueued DEF Enqueues
        <4>3. (DueAt(RecordAt(i)))' = DueAt(pos')
          BY <1>1, <4>2 DEF DueAt, TimeOf
        <4>4. DueAt(pos') >= TimeOf(pos') /\ DueAt(pos') \in Int
          BY <1>1, <4>2, ShiftFacts
        <4>5. output[n].ts <= TimeOf(pos') /\ output[n].ts \in Int /\ TimeOf(pos') \in Int
          BY <1>4, OutputPast
        <4> QED
          BY <4>3, <4>4, <4>5
      <3> QED
        BY <3>1, <3>2
    <2>4. \A n \in 1 .. Len(output) : output[n].ts <= (TimeOf(pos))'
      BY <1>4, OutputPast
    <2>5. \A m, n \in 1 .. Len(output) : m < n => output[m].ts <= output[n].ts
      BY <1>4 DEF TimesOK
    <2> QED
      BY <1>1, <2>1, <2>2, <2>3, <2>4, <2>5 DEF TimesOK
  <1>5. CASE InOrder /\ Passes
    <2> DEFINE ts == TimeOf(pos')
    <2>1. /\ pos' \in Records /\ ~capture[pos'].target
          /\ Late(pos') => pc = "releasing" /\ pos' = pos /\ ~SomeDue
          /\ output' = Append(output, Packet(pos', Stamp(ts)))
          /\ hdrs_tail' = hdrs_tail /\ hdrs_head' = hdrs_head
      BY <1>5 DEF Passes, Settles, arenaVars
    <2>2. ts \in Nat /\ Stamp(ts) = ts
      BY <1>1, <1>5, <2>1, TimesPositive, StampFacts
    <2>3. ASSUME NEW i \in hdrs_head .. hdrs_tail - 1
          PROVE  ts <= DueAt(RecordAt(i))
      <3>1. CASE Late(pos')
        BY <1>5, <2>1, <2>2, <3>1, NothingDue
      <3>2. CASE ~Late(pos')
        <4>1. RecordAt(i) \in Held
          BY <1>1, <1>2, HandledFacts DEF ArenaOK
        <4>2. DueAt(RecordAt(i)) >= Delay /\ DueAt(RecordAt(i)) \in Int
          BY <1>1, <1>5, <4>1, ShiftFacts
        <4>3. ts <= Delay /\ Delay \in Int
          BY <2>2, <3>2, MergeAssumption DEF Late
        <4> QED
          BY <2>2, <4>2, <4>3
      <3> QED
        BY <3>1, <3>2
    <2>4. \A n \in 1 .. Len(output) : output[n].ts <= ts
      BY <1>5, OutputPast
    <2>5. /\ ts = IF capture[pos'].target THEN DueAt(pos') ELSE TimeOf(pos')
          /\ ts <= TimeOf(pos') /\ ts \in Int /\ hdrs_head' \in hdrs_head .. hdrs_tail
      BY <1>2, <2>1, <2>2
    <2>6. output' = Append(output, Packet(pos', ts))
      BY <2>1, <2>2
    <2> HIDE DEF ts
    <2> QED
      BY <1>5, <2>1, <2>3, <2>4, <2>5, <2>6, TimesAppend
  <1>6. CASE InOrder /\ Releases
    <2> DEFINE r == RecordAt(hdrs_head)  ts == DueAt(r)
    <2>1. /\ r \in Records /\ capture[r].target /\ ts < TimeOf(pos) /\ TimeOf(pos) \in Int
          /\ ts \in Int /\ output' = Append(output, Packet(r, ts)) /\ pos' = pos
      BY <1>6, ReleasedDue
    <2>2. /\ hdrs_head \in 0 .. hdrs_tail - 1 /\ hdrs_head' = hdrs_head + 1
          /\ hdrs_tail' = hdrs_tail
      BY <1>6, ReleaseFacts DEF Releases
    <2>3. hdrs_head \in hdrs_head .. hdrs_tail - 1
      BY <1>2, <2>2
    <2>4. \A n \in 1 .. Len(output) : output[n].ts <= ts
      BY <1>6, <2>3 DEF TimesOK
    <2>5. ASSUME NEW i \in hdrs_head' .. hdrs_tail - 1
          PROVE  ts <= DueAt(RecordAt(i))
      <3>1. i \in 0 .. hdrs_tail - 1 /\ hdrs_head <= i
        BY <1>2, <2>2
      <3> QED
        BY <1>6, <2>2, <3>1, DueInOrder
    <2>6. /\ ts = IF capture[r].target THEN DueAt(r) ELSE TimeOf(r)
          /\ ts <= TimeOf(pos') /\ hdrs_head' \in hdrs_head .. hdrs_tail
      BY <1>2, <2>1, <2>2
    <2> HIDE DEF ts, r
    <2> QED
      BY <1>6, <2>1, <2>2, <2>4, <2>5, <2>6, TimesAppend DEF ts
  <1> QED
    BY <1>1, <1>3, <1>4, <1>5, <1>6 DEF StepKind

\* What is in the queue was never due before a record dealt with, what was taken out was.
LEMMA DueStep ==
  ASSUME MergeTypeOK, ClockOK, ArenaOK, DueOK, Next
  PROVE  DueOK'
  <1>1. /\ capture' = capture /\ InOrder' = InOrder
        /\ \A r : (TimeOf(r))' = TimeOf(r) /\ (DueAt(r))' = DueAt(r) /\ (Late(r))' = Late(r)
        /\ StepKind /\ capture \in Captures
    BY StepKinds, SameCapture DEF MergeTypeOK
  <1>2. /\ hdrs_tail \in Nat /\ hdrs_head \in 0 .. hdrs_tail /\ hdrs_head \in Nat
        /\ pos \in Nat
    BY <1>1, RoomAssumption, RecordFacts DEF MergeTypeOK
  <1>3. pos' \in Nat /\ pos <= pos'
    <2>1. pos' = pos \/ pos' = pos + 1
      BY DEF Next, OpenFails, OpenSucceeds, Read, HoldEarly, DropAtDelay, PassEarly, MeetLate,
             Release, HoldLate, PassLate, Finish
    <2> QED
      BY <1>2, <2>1
  <1>4. /\ hdrs_tail' = IF Enqueues THEN hdrs_tail + 1 ELSE hdrs_tail
        /\ hdrs_head' = IF Releases THEN hdrs_head + 1 ELSE hdrs_head
        /\ \A i \in 0 .. hdrs_tail - 1 : (RecordAt(i))' = RecordAt(i)
    BY <1>1, QueuedStep, QueueKept
  <1>5. SUFFICES ASSUME InOrder
                 PROVE  /\ \A i \in hdrs_head' .. hdrs_tail' - 1 : \A r : r = (RecordAt(i))' =>
                             \A m \in Handled' : m > r /\ Late(m) => DueAt(r) >= TimeOf(m)
                        /\ \A i \in 0 .. hdrs_head' - 1 : \A r : r = (RecordAt(i))' =>
                             \E m \in 1 .. pos' : m > r /\ Late(m) /\ DueAt(r) < TimeOf(m)
    BY <1>1 DEF DueOK, DueAt, TimeOf, Late
  <1>6. ASSUME NEW i \in hdrs_head' .. hdrs_tail' - 1, NEW r, r = (RecordAt(i))',
               NEW m \in Handled', m > r, Late(m)
        PROVE  DueAt(r) >= TimeOf(m)
    <2>1. Handled' = Handled \/ (Settles /\ (Enqueues \/ Drops \/ Passes))
      BY <1>1 DEF StepKind, Moves, Releases, Enqueues, Drops, Passes
    <2>2. CASE i \in 0 .. hdrs_tail - 1
      <3>1. i \in hdrs_head .. hdrs_tail - 1 /\ r = RecordAt(i)
        BY <1>2, <1>4, <1>6, <2>2
      <3>2. CASE m \in Handled
        BY <1>5, <1>6, <3>1, <3>2 DEF DueOK
      <3>3. CASE m \notin Handled
        <4>1. Settles /\ m = pos'
          BY <1>6, <2>1, <3>3 DEF Settles
        <4>2. pc = "releasing" /\ pos' = pos /\ ~SomeDue
          BY <1>6, <4>1 DEF Settles
        <4> QED
          BY <1>5, <3>1, <4>1, <4>2, NothingDue
      <3> QED
        BY <3>2, <3>3
    <2>3. CASE i \notin 0 .. hdrs_tail - 1
      <3>1. Enqueues /\ i = hdrs_tail
        BY <1>2, <1>4, <2>3
      <3>2. r = pos'
        BY <1>1, <1>6, <3>1, LastQueued
      <3>3. m <= pos'
        <4>1. m \in Records' /\ m <= pos'
          BY <1>6 DEF Handled
        <4> QED
          BY <4>1
      <3>4. m \in Nat
        BY <1>6 DEF Handled, Records
      <3> QED
        BY <1>3, <1>6, <3>2, <3>3, <3>4
    <2> QED
      BY <2>2, <2>3
  <1>7. ASSUME NEW i \in 0 .. hdrs_head' - 1, NEW r, r = (RecordAt(i))'
        PROVE  \E m \in 1 .. pos' : m > r /\ Late(m) /\ DueAt(r) < TimeOf(m)
    <2>1. CASE i \in 0 .. hdrs_head - 1
      <3>1. r = RecordAt(i)
        BY <1>2, <1>4, <1>7, <2>1
      <3>2. PICK m \in 1 .. pos : m > r /\ Late(m) /\ DueAt(r) < TimeOf(m)
        BY <1>5, <2>1, <3>1 DEF DueOK
      <3>3. m \in 1 .. pos'
        BY <1>2, <1>3
      <3> QED
        BY <3>2, <3>3
    <2>2. CASE i \notin 0 .. hdrs_head - 1
      <3>1. Releases /\ i = hdrs_head
        BY <1>2, <1>4, <2>2
      <3>2. i \in 0 .. hdrs_tail - 1
        BY <3>1, ReleaseFacts DEF Releases
      <3>3. r = RecordAt(hdrs_head)
        BY <1>4, <1>7, <3>1, <3>2
      <3>4. /\ pos \in Records /\ Late(pos) /\ r < pos /\ DueAt(r) < TimeOf(pos)
            /\ pos' = pos /\ r \in Records
        BY <1>5, <3>1, <3>3, ReleasedDue
      <3>5. pos \in 1 .. pos' /\ pos > r
        BY <1>2, <3>4 DEF Records
      <3> QED
        BY <3>4, <3>5
    <2> QED
      BY <2>1, <2>2
  <1> QED
    BY <1>6, <1>7

-------------------------------------------------------------------------------------
(* The invariant, and the properties that follow from it.                            *)

MergeInv == MergeTypeOK /\ ClockOK /\ CountsOK /\ ArenaOK /\ OutputOK /\ TimesOK /\ DueOK

LEMMA MergeInit == Init => MergeInv
  <1> SUFFICES ASSUME Init
               PROVE  MergeInv
    OBVIOUS
  <1>1. /\ capture \in Captures /\ pc = "open" /\ pos = 0 /\ output = << >>
        /\ hdrs_head = 0 /\ hdrs_tail = 0 /\ buffer_head = 0 /\ buffer_tail = 0
        /\ num_attack_packets = 0 /\ num_normal_packets = 0
        /\ sec_first = TRUE /\ sec_offs = 0 /\ sec_first2 = TRUE /\ sec_offs2 = 0
        /\ hdrs = [i \in 0 .. HdrRoom - 1 |-> NoHdr]
        /\ buffer = [i \in 0 .. BufferRoom - 1 |-> NoByte]
    BY DEF Init, InitArena
  <1>2. Len(capture) \in Nat /\ HdrRoom \in Nat /\ BufferRoom \in Nat
    BY <1>1, RecordFacts, RoomAssumption
  <1>3. /\ Len(output) = 0 /\ output \in Seq(Packets) /\ 1 .. Len(output) = {}
    BY <1>1, EmptySeq
  <1>4. Handled = {} /\ Queued = {} /\ {k \in Handled : ~capture[k].target} = {}
    BY <1>1, <1>2 DEF Handled, Queued, Records
  <1>5. Sent = {} /\ Taken = {}
    BY <1>3 DEF Sent, Taken
  <1>6. MergeTypeOK
    BY <1>1, <1>2, <1>3 DEF MergeTypeOK, NoHdr, NoByte
  <1>7. ClockOK
    <2>1. \A k \in EarlyHeld : k > 0
      BY <1>2 DEF EarlyHeld, Held, Records
    <2> QED
      BY <1>1, <2>1 DEF ClockOK
  <1>8. CountsOK
    <2>1. Tally({}, [k \in Records |-> capture[k].len]) = 0
      BY TallyEmpty
    <2> QED
      BY <1>1, <1>3, <1>4, <2>1, FS_EmptySet DEF CountsOK
  <1>9. ArenaOK
    <2>1. Start(0) = 0
      BY <1>6, StartFacts DEF MergeTypeOK
    <2>2. 0 .. hdrs_tail - 1 = {}
      BY <1>1
    <2> QED
      BY <1>1, <1>4, <2>1, <2>2 DEF ArenaOK
  <1>10. OutputOK
    <2>1. 0 .. hdrs_head - 1 = {}
      BY <1>1
    <2> QED
      BY <1>1, <1>4, <1>5, <2>1, FS_EmptySet DEF OutputOK
  <1>11. TimesOK
    BY <1>3 DEF TimesOK, AttackKeepsRhythm
  <1>12. DueOK
    <2>1. 0 .. hdrs_head - 1 = {} /\ hdrs_head .. hdrs_tail - 1 = {}
      BY <1>1
    <2> QED
      BY <2>1 DEF DueOK
  <1> QED
    BY <1>6, <1>7, <1>8, <1>9, <1>10, <1>11, <1>12 DEF MergeInv

\* The variables of the merger are those of vars: nothing changes when they do not.
LEMMA MergeStutter == MergeInv /\ UNCHANGED vars => MergeInv'
  <1> SUFFICES ASSUME MergeInv, UNCHANGED vars
               PROVE  MergeInv'
    OBVIOUS
  <1>1. /\ capture' = capture /\ pc' = pc /\ pos' = pos /\ output' = output
        /\ hdrs' = hdrs /\ hdrs_head' = hdrs_head /\ hdrs_tail' = hdrs_tail
        /\ buffer' = buffer /\ buffer_head' = buffer_head /\ buffer_tail' = buffer_tail
        /\ num_attack_packets' = num_attack_packets
        /\ num_normal_packets' = num_normal_packets
        /\ sec_first' = sec_first /\ sec_offs' = sec_offs
        /\ sec_first2' = sec_first2 /\ sec_offs2' = sec_offs2
    BY DEF vars, mergeVars, arenaVars
  <1>2. /\ Records' = Records /\ Held' = Held /\ EarlyHeld' = EarlyHeld
        /\ Shift' = Shift /\ InOrder' = InOrder /\ Packets' = Packets
        /\ \A k : /\ (TimeOf(k))' = TimeOf(k) /\ (Data(k))' = Data(k)
                  /\ (DueAt(k))' = DueAt(k) /\ (Late(k))' = Late(k)
    BY <1>1, SameCapture
  <1>3. Handled' = Handled /\ Queued' = Queued /\ Sent' = Sent /\ Taken' = Taken
    BY <1>1, <1>2 DEF Handled, Queued, Sent, Taken, Origin
  <1>4. \A i : (Start(i))' = Start(i) /\ (RecordAt(i))' = RecordAt(i)
    BY <1>1 DEF RecordAt, Start, Lens
  <1>5. MergeTypeOK' /\ ClockOK' /\ CountsOK'
    BY <1>1, <1>2, <1>3 DEF MergeInv, MergeTypeOK, ClockOK, CountsOK
  <1>6. ArenaOK'
    <2>1. (Start(hdrs_head))' = Start(hdrs_head) /\ (Start(hdrs_tail))' = Start(hdrs_tail)
      BY <1>1 DEF Start, Lens
    <2> QED
      BY <1>1, <1>2, <1>3, <1>4, <2>1 DEF MergeInv, ArenaOK
  <1>7. OutputOK'
    BY <1>1, <1>2, <1>3, <1>4 DEF MergeInv, OutputOK, Origin
  <1>8. TimesOK'
    BY <1>1, <1>2, <1>4 DEF MergeInv, TimesOK, AttackKeepsRhythm, DueAt, TimeOf, Origin
  <1>9. DueOK'
    BY <1>1, <1>2, <1>3, <1>4 DEF MergeInv, DueOK, DueAt, TimeOf, Late
  <1> QED
    BY <1>5, <1>6, <1>7, <1>8, <1>9 DEF MergeInv

\* The invariant holds in every behaviour of the merger.
THEOREM MergeInvariant == Spec => []MergeInv
  <1>1. MergeInv /\ Next => MergeInv'
    BY TypeStep, ClockStep, CountsStep, ArenaStep, OutputStep, TimesStep, DueStep DEF MergeInv
  <1>2. MergeInv /\ [Next]_vars => MergeInv'
    BY <1>1, MergeStutter
  <1> QED
    BY <1>2, MergeInit, PTL DEF Spec

\* Every record dealt with was written, is in the queue, or came exactly at the end of the
\* delay, and the figures printed are those of the output.
THEOREM PacketsAreAccounted == Spec => []EveryPacketAccounted
  <1>1. MergeInv => EveryPacketAccounted
    <2> SUFFICES ASSUME MergeInv
                 PROVE  EveryPacketAccounted
      OBVIOUS
    <2>1. hdrs_tail \in Int /\ hdrs_head \in Int
      BY RoomAssumption DEF MergeInv, MergeTypeOK
    <2> QED
      BY <2>1 DEF MergeInv, CountsOK, EveryPacketAccounted, Queued
  <1> QED
    BY <1>1, MergeInvariant, PTL

\* A capture in time order is written in time order.
THEOREM OutputIsInOrder == Spec => []OutputInOrder
  <1>1. MergeInv => OutputInOrder
    BY DEF MergeInv, TimesOK, OutputInOrder
  <1> QED
    BY <1>1, MergeInvariant, PTL

\* All packets for the target are delayed by the same time, and no other packet is.
THEOREM RhythmIsKept == Spec => []AttackKeepsRhythm
  <1>1. MergeInv => AttackKeepsRhythm
    BY DEF MergeInv, TimesOK, AttackKeepsRhythm
  <1> QED
    BY <1>1, MergeInvariant, PTL

\* A record for the target is in the output just when it was taken out of the queue.
LEMMA SentIs ==
  ASSUME MergeInv
  PROVE  /\ \A i \in 0 .. hdrs_head - 1 : RecordAt(i) \in Sent
         /\ \A k \in Sent : capture[k].target => \E i \in 0 .. hdrs_head - 1 : k = RecordAt(i)
  <1> DEFINE upto(n) == {m \in Taken : m <= n}
  <1>0. /\ hdrs_head \in Nat /\ Len(output) \in Nat
        /\ \A i \in Nat : i < hdrs_head <=> i \in 0 .. hdrs_head - 1
    BY RoomAssumption, LenProperties DEF MergeInv, MergeTypeOK
  <1>1. Taken \subseteq 1 .. Len(output) /\ IsFiniteSet(Taken)
    <2>1. Taken \subseteq 1 .. Len(output)
      BY DEF Taken
    <2>2. IsFiniteSet(1 .. Len(output))
      BY <1>0, FS_Interval
    <2> QED
      BY <2>1, <2>2, FS_Subset
  <1>2. /\ \A i \in 0 .. hdrs_head - 1 : \E n \in Taken : Cardinality(upto(n)) = i + 1
        /\ \A n \in Taken : \A i \in Nat :
             Cardinality(upto(n)) = i + 1 => i < hdrs_head /\ Origin(output[n]) = RecordAt(i)
    BY DEF MergeInv, OutputOK
  <1>3. ASSUME NEW i \in 0 .. hdrs_head - 1
        PROVE  RecordAt(i) \in Sent
    <2>1. PICK n \in Taken : Cardinality(upto(n)) = i + 1
      BY <1>2
    <2>2. Origin(output[n]) = RecordAt(i) /\ n \in 1 .. Len(output)
      BY <1>1, <1>2, <2>1
    <2> QED
      BY <2>2 DEF Sent
  <1>4. ASSUME NEW k \in Sent, capture[k].target
        PROVE  \E i \in 0 .. hdrs_head - 1 : k = RecordAt(i)
    <2>1. PICK n \in 1 .. Len(output) : Origin(output[n]) = k
      BY DEF Sent
    <2>2. n \in Taken
      BY <1>4, <2>1 DEF Taken
    <2>3. IsFiniteSet(upto(n)) /\ n \in upto(n)
      <3>1. upto(n) \subseteq Taken /\ n \in upto(n)
        BY <2>1, <2>2
      <3> QED
        BY <1>1, <3>1, FS_Subset
    <2> HIDE DEF upto
    <2>4. Cardinality(upto(n)) \in Nat /\ Cardinality(upto(n)) # 0
      BY <2>3, FS_CardinalityType, FS_EmptySet
    <2>5. PICK i \in Nat : Cardinality(upto(n)) = i + 1
      <3>1. Cardinality(upto(n)) - 1 \in Nat
            /\ Cardinality(upto(n)) = (Cardinality(upto(n)) - 1) + 1
        BY <2>4
      <3> QED
        BY <3>1
    <2> QED
      BY <1>0, <1>2, <2>1, <2>2, <2>5
  <1> QED
    BY <1>3, <1>4

\* A packet for the target is missing from the output just when it came exactly at the end
\* of the delay, or no later packet was past the time it was due at.
THEOREM LossesAreKnown == Spec => []LostAtTheEnd
  <1>1. MergeInv => LostAtTheEnd
    <2> SUFFICES ASSUME MergeInv, pc = "done", InOrder, NEW k \in Records
                 PROVE  k \notin Sent <=>
                          /\ capture[k].target
                          /\ \/ k \notin Held
                             \/ \A m \in Records :
                                  m > k /\ TimeOf(m) > Delay => TimeOf(k) + Shift >= TimeOf(m)
      BY DEF LostAtTheEnd
    <2>0. /\ capture \in Captures /\ pos = Len(capture) /\ Len(capture) \in Nat
          /\ hdrs_tail \in Nat /\ hdrs_head \in 0 .. hdrs_tail
      BY RecordFacts, RoomAssumption DEF MergeInv, MergeTypeOK, ClockOK
    <2>1. Handled = Records
      BY <2>0 DEF Handled, Records
    <2>2. CASE ~capture[k].target
      BY <2>1, <2>2 DEF MergeInv, OutputOK
    <2>3. CASE capture[k].target /\ k \notin Held
      BY <2>3 DEF MergeInv, OutputOK
    <2>4. CASE capture[k].target /\ k \in Held
      <3>1. k \in Queued
        BY <2>1, <2>4 DEF Queued
      <3>2. PICK i \in 0 .. hdrs_tail - 1 : RecordAt(i) = k
        BY <3>1 DEF MergeInv, ArenaOK
      <3>3. CASE i < hdrs_head
        <4>1. i \in 0 .. hdrs_head - 1
          BY <2>0, <3>3
        <4>2. k \in Sent
          BY <3>2, <4>1, SentIs
        <4>3. PICK m \in 1 .. pos : m > k /\ Late(m) /\ DueAt(k) < TimeOf(m)
          BY <3>2, <4>1 DEF MergeInv, DueOK
        <4>4. m \in Records /\ TimeOf(m) \in Int /\ DueAt(k) \in Int
          BY <2>0, <2>4, <4>3, RecordFacts, ShiftFacts DEF Records
        <4>5. ~(DueAt(k) >= TimeOf(m))
          BY <4>3, <4>4
        <4> QED
          BY <2>4, <4>2, <4>3, <4>4, <4>5 DEF DueAt, Late
      <3>4. CASE ~(i < hdrs_head)
        <4>1. k \notin Sent
          <5>1. ASSUME k \in Sent
                PROVE  FALSE
            <6>1. PICK h \in 0 .. hdrs_head - 1 : k = RecordAt(h)
              BY <2>4, <5>1, SentIs
            <6>2. h \in 0 .. i - 1
              BY <2>0, <3>4, <6>1
            <6>3. RecordAt(h) < RecordAt(i) /\ RecordAt(i) \in Nat
              BY <2>0, <3>2, <6>2, HandledFacts DEF MergeInv, ArenaOK, Records
            <6> QED
              BY <3>2, <6>1, <6>3
          <5> QED
            BY <5>1
        <4>2. i \in hdrs_head .. hdrs_tail - 1
          BY <2>0, <3>4
        <4>3. \A m \in Records : m > k /\ Late(m) => DueAt(k) >= TimeOf(m)
          BY <2>1, <3>2, <4>2 DEF MergeInv, DueOK
        <4> QED
          BY <2>4, <4>1, <4>3 DEF DueAt, Late
      <3> QED
        BY <3>3, <3>4
    <2> QED
      BY <2>2, <2>3, <2>4
  <1> QED
    BY <1>1, MergeInvariant, PTL

\* The queue runs out of memory only when all the packets ever put in are more than it has
\* room for.
THEOREM OverrunIsFull == Spec => []OverrunOnlyWhenFull
  <1>1. Init => OverrunOnlyWhenFull
    BY DEF Init, OverrunOnlyWhenFull
  <1>2. MergeInv /\ OverrunOnlyWhenFull /\ [Next]_vars => OverrunOnlyWhenFull'
    <2> SUFFICES ASSUME MergeInv, OverrunOnlyWhenFull, [Next]_vars, pc' = "overrun"
                 PROVE  OverrunOnlyWhenFull'
      BY DEF OverrunOnlyWhenFull
    <2>1. CASE UNCHANGED vars
      <3>1. capture' = capture /\ pc' = pc /\ pos' = pos
        BY <2>1 DEF vars, mergeVars
      <3> QED
        BY <3>1 DEF OverrunOnlyWhenFull, Held, Records, TimeOf
    <2>2. CASE Next
      <3> DEFINE r == pos'  lens == [k \in Records |-> capture[k].len]
                 put == {k \in Held : k <= r}
      <3>0. /\ capture \in Captures /\ capture' = capture /\ pos \in Nat
            /\ Held' = Held /\ Records' = Records
        BY <2>2, StepKinds, SameCapture, RecordFacts DEF MergeInv, MergeTypeOK
      <3>1. /\ r \in Records /\ r \in Held /\ ~Fits(Hdr(capture[r]))
            /\ Handled = {k \in Records : k < r}
        <4>1. ClockOK' /\ r \in Held
          <5>1. ClockOK'
            BY <2>2, ClockStep DEF MergeInv
          <5> QED
            BY <3>0, <5>1 DEF ClockOK
        <4>2. r \in Records /\ Records \subseteq Nat
          BY <4>1 DEF Held, Records
        <4>3. CASE HoldEarly
          <5>1. pc = "reading" /\ r = pos + 1 /\ ~Fits(Hdr(capture[r]))
            BY <4>3 DEF HoldEarly, Read, NextRecord
          <5>2. \A k \in Records : k <= pos <=> k < r
            BY <3>0, <4>2, <5>1
          <5>3. Handled = {k \in Records : k <= pos}
            BY <5>1 DEF Handled
          <5> QED
            BY <4>1, <4>2, <5>1, <5>2, <5>3
        <4>4. CASE HoldLate
          <5>1. pc = "releasing" /\ r = pos /\ ~Fits(Hdr(capture[r]))
            BY <4>4 DEF HoldLate, Current
          <5>2. \A k \in Records : (k <= pos /\ ~(k = pos)) <=> k < r
            BY <3>0, <4>2, <5>1
          <5>3. Handled = {k \in Records : k <= pos /\ ~(k = pos)}
            BY <5>1 DEF Handled
          <5> QED
            BY <4>1, <4>2, <5>1, <5>2, <5>3
        <4> QED
          BY <2>2, <4>3, <4>4 DEF Next, OpenFails, OpenSucceeds, Read, DropAtDelay, PassEarly,
                                  MeetLate, Release, PassLate, Finish
      <3>2. put = Queued \cup {r} /\ r \notin Queued /\ IsFiniteSet(Queued)
        <4>1. \A k \in Held : k \in Records /\ k \in Nat
          BY DEF Held, Records
        <4>2. \A k \in Held : k <= r <=> (k < r \/ k = r)
          BY <3>1, <4>1
        <4>3. Queued = {k \in Held : k < r}
          BY <3>1, <4>1 DEF Queued
        <4>4. ~(r < r)
          BY <3>1, <4>1
        <4> QED
          BY <3>0, <3>1, <4>2, <4>3, <4>4, HandledFacts
      <3>3. Cardinality(put) = hdrs_tail + 1
        BY <3>2, FS_AddElement DEF MergeInv, CountsOK
      <3>4. Tally(put, lens) = buffer_tail + capture[r].len
        <4>1. \A k \in Queued \cup {r} : lens[k] \in Nat
          BY <3>0, <3>1, HandledFacts, RecordFacts
        <4>2. lens[r] = capture[r].len
          BY <3>1
        <4>3. buffer_tail = Tally(Queued, lens)
          BY DEF MergeInv, CountsOK
        <4> HIDE DEF lens
        <4>4. Tally(Queued \cup {r}, lens) = Tally(Queued, lens) + lens[r]
          BY <3>2, <4>1, TallyAdd
        <4> QED
          BY <3>2, <4>2, <4>3, <4>4
      <3>5. hdrs_tail >= HdrRoom \/ buffer_tail + capture[r].len > BufferRoom
        <4> DEFINE n == capture[r].len
        <4>1. ~(hdrs_tail < HdrRoom /\ buffer_tail + n <= BufferRoom)
          BY <3>1 DEF Fits, Hdr
        <4>2. /\ n \in Nat /\ hdrs_tail \in Nat /\ buffer_tail \in Nat
              /\ HdrRoom \in Nat /\ BufferRoom \in Nat
          BY <3>0, <3>1, RecordFacts, RoomAssumption DEF MergeInv, MergeTypeOK
        <4> HIDE DEF n
        <4>3. hdrs_tail >= HdrRoom \/ buffer_tail + n > BufferRoom
          BY <4>1, <4>2
        <4> QED
          BY <4>3 DEF n
      <3>6. Cardinality(put) > HdrRoom \/ Tally(put, lens) > BufferRoom
        <4>1. hdrs_tail \in Nat /\ HdrRoom \in Nat
          BY RoomAssumption DEF MergeInv, MergeTypeOK
        <4> HIDE DEF put, lens
        <4> QED
          BY <3>3, <3>4, <3>5, <4>1
      <3> QED
        BY <3>0, <3>6 DEF OverrunOnlyWhenFull
    <2> QED
      BY <2>1, <2>2
  <1> QED
    BY <1>1, <1>2, MergeInvariant, PTL DEF Spec

-------------------------------------------------------------------------------------
(* The arrays implement a queue.                                                     *)

\* A record as the queue of the abstract specification holds it.
Short(k) == [caplen |-> capture[k].caplen, data |-> SubSeq(Data(k), 1, capture[k].caplen)]

\* What waits is what lies between the heads and the tails, what is gone what lay before.
QueueView ==
  /\ Waiting \in Seq({Short(k) : k \in Records})
  /\ Len(Waiting) = hdrs_tail - hdrs_head
  /\ \A k \in 1 .. hdrs_tail - hdrs_head : \A i \in Nat :
       i = hdrs_head + k - 1 => Waiting[k] = Short(RecordAt(i))
  /\ Gone \in Seq({Short(k) : k \in Records})
  /\ Len(Gone) = hdrs_head
  /\ \A k \in 1 .. hdrs_head : Gone[k] = Short(RecordAt(k - 1))

\* A function on 1 .. n is a sequence of length n.
LEMMA FunctionIsSeq ==
  ASSUME NEW S, NEW n \in Nat, NEW f \in [1 .. n -> S]
  PROVE  f \in Seq(S) /\ Len(f) = n
  <1>1. f \in Seq(S)
    BY SeqDef
  <1>2. DOMAIN f = 1 .. Len(f) /\ DOMAIN f = 1 .. n /\ Len(f) \in Nat
    BY <1>1, LenProperties
  <1> QED
    BY <1>1, <1>2

\* Cutting a packet to its captured length twice is the same as once.
LEMMA ShortPacket ==
  ASSUME capture \in Captures, NEW k \in Records, NEW ts \in Int
  PROVE  AsWritten(Packet(k, ts)) = Short(k)
  <1> DEFINE d == Data(k)  c == capture[k].caplen  S == {d[i] : i \in 1 .. c}
  <1>1. c \in Nat \ {0}
    BY RecordFacts
  <1>2. \A i \in 1 .. c : d[i] \in S
    OBVIOUS
  <1> DEFINE e == SubSeq(d, 1, c)
  <1>3. e \in Seq(S) /\ Len(e) = c
    <2> HIDE DEF d, c, S
    <2>1. SubSeq(d, 1, c) \in Seq(S) /\ Len(SubSeq(d, 1, c)) = IF 1 <= c THEN c - 1 + 1 ELSE 0
      BY <1>1, <1>2, SubSeqProperties
    <2> QED
      BY <1>1, <2>1
  <1>4. SubSeq(e, 1, c) = e
    <2> HIDE DEF d, c, S, e
    <2>1. SubSeq(e, 1, Len(e)) = e
      BY <1>3, SubSeqFull
    <2> QED
      BY <1>3, <2>1
  <1> QED
    BY <1>4 DEF AsWritten, Packet, Short

\* The two views agree.
LEMMA QueueViewHolds ==
  ASSUME MergeInv
  PROVE  QueueView
  <1> DEFINE S == {Short(k) : k \in Records}
  <1>0. /\ capture \in Captures /\ hdrs_tail \in Nat /\ hdrs_head \in 0 .. hdrs_tail
        /\ output \in Seq(Packets) /\ HdrRoom \in Nat /\ hdrs_tail <= HdrRoom
    BY RoomAssumption DEF MergeInv, MergeTypeOK
  <1>1. \A i \in 0 .. hdrs_tail - 1 : RecordAt(i) \in Records
    BY <1>0, HandledFacts DEF MergeInv, ArenaOK
  <1>2. ASSUME NEW k \in 1 .. hdrs_tail - hdrs_head, NEW i, i = hdrs_head + k - 1
        PROVE  Waiting[k] = Short(RecordAt(i)) /\ i \in 0 .. hdrs_tail - 1
    <2> DEFINE r == RecordAt(i)
    <2>1. i \in 0 .. hdrs_tail - 1 /\ r \in Records
      BY <1>0, <1>1, <1>2
    <2>2. DataStart(k) = Start(i)
      BY <1>0, <1>2, DataStartIs DEF MergeInv, MergeTypeOK, ArenaOK
    <2>3. /\ hdrs[i].len = capture[r].len /\ hdrs[i].caplen = capture[r].caplen
          /\ \A b \in 1 .. capture[r].len : buffer[Start(i) + b - 1] = Data(r)[b]
      BY <2>1 DEF MergeInv, ArenaOK
    <2> HIDE DEF r
    <2>4. [b \in 1 .. hdrs[i].len |-> buffer[DataStart(k) + b - 1]] = Data(r)
      <3>1. Data(r) = [b \in 1 .. capture[r].len |-> Data(r)[b]]
        BY DEF Data
      <3> QED
        BY <2>2, <2>3, <3>1
    <2>5. Contents[k] = [ts |-> hdrs[i].ts, caplen |-> hdrs[i].caplen, data |-> Data(r)]
      BY <1>2, <2>4 DEF Contents
    <2>6. Waiting[k] = AsWritten(Contents[k])
      BY DEF Waiting
    <2>7. AsWritten(Contents[k]) = Short(r)
      BY <2>3, <2>5 DEF AsWritten, Short
    <2> QED
      BY <2>1, <2>6, <2>7 DEF r
  <1>3. Waiting \in Seq(S) /\ Len(Waiting) = hdrs_tail - hdrs_head
    <2>1. hdrs_tail - hdrs_head \in Nat
      BY <1>0
    <2>2. ASSUME NEW k \in 1 .. hdrs_tail - hdrs_head
          PROVE  Waiting[k] \in S
      <3>1. Waiting[k] = Short(RecordAt(hdrs_head + k - 1))
            /\ RecordAt(hdrs_head + k - 1) \in Records
        BY <1>1, <1>2
      <3> QED
        BY <3>1
    <2>3. Waiting \in [1 .. hdrs_tail - hdrs_head -> S]
      BY <2>2 DEF Waiting
    <2> HIDE DEF S
    <2> QED
      BY <2>1, <2>3, FunctionIsSeq
  <1>4. ASSUME NEW k \in 1 .. hdrs_head
        PROVE  Gone[k] = Short(RecordAt(k - 1)) /\ RecordAt(k - 1) \in Records
    <2>1. Cardinality(Taken) = hdrs_head /\ k - 1 \in 0 .. hdrs_head - 1 /\ k - 1 \in Nat
          /\ (k - 1) + 1 = k /\ k - 1 \in 0 .. hdrs_tail - 1
      BY <1>0 DEF MergeInv, OutputOK
    <2>2. \E n \in Taken : Cardinality({m \in Taken : m <= n}) = k
      BY <2>1 DEF MergeInv, OutputOK
    <2> DEFINE n == TakenAt(k)
    <2>3. n \in Taken /\ Cardinality({m \in Taken : m <= n}) = k
      BY <2>2 DEF TakenAt
    <2>4. Origin(output[n]) = RecordAt(k - 1)
      BY <2>1, <2>3 DEF MergeInv, OutputOK
    <2>5. Gone[k] = AsWritten(output[n])
      BY <2>1 DEF Gone
    <2> HIDE DEF n
    <2>6. n \in 1 .. Len(output)
      BY <2>3 DEF Taken
    <2>7. output[n] = Packet(RecordAt(k - 1), output[n].ts) /\ output[n].ts \in Int
      BY <1>0, <2>4, <2>6, OutputFacts
    <2>8. RecordAt(k - 1) \in Records
      BY <1>1, <2>1
    <2> QED
      BY <1>0, <2>5, <2>7, <2>8, ShortPacket
  <1>5. Gone \in Seq(S) /\ Len(Gone) = hdrs_head
    <2>1. hdrs_head \in Nat /\ Cardinality(Taken) = hdrs_head
      BY <1>0 DEF MergeInv, OutputOK
    <2>2. Gone \in [1 .. hdrs_head -> S]
      BY <1>4, <2>1 DEF Gone
    <2> HIDE DEF S
    <2> QED
      BY <2>1, <2>2, FunctionIsSeq
  <1> QED
    BY <1>2, <1>3, <1>4, <1>5 DEF QueueView

\* A step puts a packet in at the end, takes the first one out, or leaves the queue as it
\* is.
LEMMA FifoStep ==
  ASSUME MergeInv, QueueView, QueueView', Next
  PROVE  Fifo!Put \/ Fifo!Take \/ UNCHANGED <<Waiting, Gone>>
  <1> DEFINE S == {Short(k) : k \in Records}  W == Waiting  G == Gone
             n == hdrs_tail - hdrs_head
  <1>1. /\ capture' = capture /\ Records' = Records /\ StepKind /\ capture \in Captures
        /\ \A k : (Short(k))' = Short(k)
    BY StepKinds, SameCapture DEF MergeInv, MergeTypeOK, Short, Data
  <1>2. /\ hdrs_tail \in Nat /\ hdrs_head \in 0 .. hdrs_tail /\ hdrs_head \in Nat
        /\ hdrs_tail' \in Nat /\ hdrs_head' \in Nat
        /\ hdrs_tail' = IF Enqueues THEN hdrs_tail + 1 ELSE hdrs_tail
        /\ hdrs_head' = IF Releases THEN hdrs_head + 1 ELSE hdrs_head
        /\ Enqueues => ~Releases
        /\ n \in Nat
    <2>1. hdrs_tail \in Nat /\ hdrs_head \in 0 .. hdrs_tail
      BY RoomAssumption DEF MergeInv, MergeTypeOK
    <2> QED
      BY <1>1, <2>1, QueuedStep DEF MergeInv
  <1>3. \A i \in 0 .. hdrs_tail - 1 : (RecordAt(i))' = RecordAt(i)
    BY <1>1, QueueKept DEF MergeInv
  <1>4. /\ W \in Seq(S) /\ Len(W) = n
        /\ \A k \in 1 .. n : \A i \in Nat : i = hdrs_head + k - 1 => W[k] = Short(RecordAt(i))
        /\ G \in Seq(S) /\ Len(G) = hdrs_head
        /\ \A k \in 1 .. hdrs_head : G[k] = Short(RecordAt(k - 1))
    BY DEF QueueView
  <1>5. /\ W' \in Seq(S) /\ Len(W') = hdrs_tail' - hdrs_head'
        /\ \A k \in 1 .. hdrs_tail' - hdrs_head' : \A i \in Nat :
             i = hdrs_head' + k - 1 => W'[k] = Short((RecordAt(i))')
        /\ G' \in Seq(S) /\ Len(G') = hdrs_head'
        /\ \A k \in 1 .. hdrs_head' : G'[k] = Short((RecordAt(k - 1))')
    <2>1. S' = S
      BY <1>1
    <2>2. \A i : (Short(RecordAt(i)))' = Short((RecordAt(i))')
      BY <1>1 DEF Short, Data
    <2>3. W' \in Seq(S') /\ Len(W') = hdrs_tail' - hdrs_head'
      BY DEF QueueView
    <2>4. \A k \in 1 .. hdrs_tail' - hdrs_head' : \A i \in Nat :
            i = hdrs_head' + k - 1 => W'[k] = (Short(RecordAt(i)))'
      BY DEF QueueView
    <2>5. G' \in Seq(S') /\ Len(G') = hdrs_head'
      BY DEF QueueView
    <2>6. \A k \in 1 .. hdrs_head' : G'[k] = (Short(RecordAt(k - 1)))'
      BY DEF QueueView
    <2> HIDE DEF S, W, G
    <2>7. \A k \in 1 .. hdrs_tail' - hdrs_head' : \A i \in Nat :
            i = hdrs_head' + k - 1 => W'[k] = Short((RecordAt(i))')
      BY <2>2, <2>4
    <2>8. \A k \in 1 .. hdrs_head' : G'[k] = Short((RecordAt(k - 1))')
      BY <2>2, <2>6
    <2> QED
      BY <2>1, <2>3, <2>5, <2>7, <2>8
  <1> HIDE DEF S, W, G
  <1>6. \A k \in 1 .. hdrs_head : G'[k] = G[k]
    <2>1. \A k \in 1 .. hdrs_head : k \in 1 .. hdrs_head' /\ k - 1 \in 0 .. hdrs_tail - 1
      BY <1>2
    <2> QED
      BY <1>3, <1>4, <1>5, <2>1
  <1>7. ~Releases => G' = G
    <2>1. ~Releases => Len(G') = Len(G)
      BY <1>2, <1>4, <1>5
    <2> QED
      BY <1>4, <1>5, <1>6, <2>1, SeqEqual
  <1>8. ASSUME NEW k \in 1 .. n, ~Releases
        PROVE  W'[k] = W[k]
    <2> DEFINE i == hdrs_head + k - 1
    <2>1. /\ i \in Nat /\ i \in 0 .. hdrs_tail - 1 /\ i = hdrs_head' + k - 1
          /\ k \in 1 .. hdrs_tail' - hdrs_head'
      BY <1>2, <1>8
    <2>2. i = hdrs_head + k - 1
      OBVIOUS
    <2> HIDE DEF i
    <2> QED
      BY <1>3, <1>4, <1>5, <2>1, <2>2
  <1>9. CASE Enqueues
    <2>1. Len(W') = n + 1
      BY <1>2, <1>5, <1>9
    <2>2. SubSeq(W', 1, n) = W
      <3>1. \A k \in 1 .. n : W'[k] \in S
        BY <1>5, <2>1, <1>2, ElementOfSeq
      <3>2. /\ SubSeq(W', 1, n) \in Seq(S)
            /\ Len(SubSeq(W', 1, n)) = IF 1 <= n THEN n - 1 + 1 ELSE 0
            /\ \A k \in 1 .. n - 1 + 1 : SubSeq(W', 1, n)[k] = W'[1 + k - 1]
        <4> HIDE DEF n
        <4> QED
          BY <1>2, <3>1, SubSeqProperties
      <3>3. Len(SubSeq(W', 1, n)) = n /\ \A k \in 1 .. n : SubSeq(W', 1, n)[k] = W'[k]
        <4> HIDE DEF n
        <4>1. n - 1 + 1 = n /\ \A k \in 1 .. n : 1 + k - 1 = k
          BY <1>2
        <4> QED
          BY <1>2, <3>2, <4>1
      <3>4. \A k \in 1 .. n : SubSeq(W', 1, n)[k] = W[k]
        BY <1>2, <1>8, <1>9, <3>3
      <3> HIDE DEF n
      <3> QED
        BY <1>4, <3>2, <3>3, <3>4, SeqEqual
    <2>3. G' = G
      BY <1>2, <1>7, <1>9
    <2>4. Fifo!Put
      BY <1>4, <2>1, <2>2, <2>3 DEF Fifo!Put, W, G
    <2> QED
      BY <2>4
  <1>10. CASE Releases
    <2> DEFINE first == Short(RecordAt(hdrs_head))
    <2>1. hdrs_head \in 0 .. hdrs_tail - 1
      BY <1>10, ReleaseFacts DEF Releases, MergeInv
    <2>2. W # << >> /\ Len(W) >= 1
      BY <1>2, <1>4, <2>1
    <2>3. Head(W) = first /\ first \in S
      <3>1. 1 \in 1 .. n /\ hdrs_head = hdrs_head + 1 - 1
        BY <1>2, <2>1
      <3>2. W[1] = first
        BY <1>2, <1>4, <3>1
      <3>3. Head(W) = W[1] /\ W[1] \in S
        BY <1>4, <2>2, <3>1, ElementOfSeq
      <3> QED
        BY <3>2, <3>3
    <2>4. G' = Append(G, Head(W))
      <3>1. Len(G') = hdrs_head + 1
        BY <1>2, <1>5, <1>10
      <3>2. G'[hdrs_head + 1] = first
        <4>1. hdrs_head + 1 \in 1 .. hdrs_head' /\ (hdrs_head + 1) - 1 = hdrs_head
          BY <1>2, <1>10
        <4>2. \A i : i = hdrs_head => (RecordAt(i))' = RecordAt(hdrs_head)
          BY <1>3, <2>1
        <4>3. \A k \in 1 .. hdrs_head' : k = hdrs_head + 1 => G'[k] = Short(RecordAt(hdrs_head))
          <5>1. \A k \in 1 .. hdrs_head' : k = hdrs_head + 1 => k - 1 = hdrs_head
            BY <1>2
          <5> QED
            BY <1>5, <4>2, <5>1
        <4> QED
          BY <4>1, <4>3
      <3> HIDE DEF first
      <3>3. /\ Append(G, first) \in Seq(S) /\ Len(Append(G, first)) = hdrs_head + 1
            /\ \A k \in 1 .. hdrs_head : Append(G, first)[k] = G[k]
            /\ Append(G, first)[hdrs_head + 1] = first
        BY <1>4, <2>3, AppendProperties
      <3>4. \A k \in 1 .. hdrs_head + 1 : G'[k] = Append(G, first)[k]
        <4>1. \A k \in 1 .. hdrs_head + 1 : k \in 1 .. hdrs_head \/ k = hdrs_head + 1
          BY <1>2
        <4> QED
          BY <1>6, <3>2, <3>3, <4>1
      <3>5. G' = Append(G, first)
        BY <1>5, <3>1, <3>3, <3>4, SeqEqual
      <3> QED
        BY <2>3, <3>5
    <2>5. W' = Tail(W)
      <3>1. /\ Tail(W) \in Seq(S) /\ Len(Tail(W)) = n - 1
            /\ \A k \in 1 .. Len(Tail(W)) : Tail(W)[k] = W[k + 1]
        BY <1>4, <2>2, HeadTailProperties
      <3>2. Len(W') = n - 1
        BY <1>2, <1>5, <1>10
      <3>3. ASSUME NEW k \in 1 .. n - 1
            PROVE  W'[k] = W[k + 1]
        <4> DEFINE i == hdrs_head + k
        <4>1. /\ i \in Nat /\ i \in 0 .. hdrs_tail - 1 /\ i = hdrs_head' + k - 1
              /\ i = hdrs_head + (k + 1) - 1
              /\ k \in 1 .. hdrs_tail' - hdrs_head' /\ k + 1 \in 1 .. n
          BY <1>2, <1>10, <3>3
        <4> HIDE DEF i
        <4> QED
          BY <1>3, <1>4, <1>5, <4>1
      <3> HIDE DEF n
      <3> QED
        BY <1>5, <3>1, <3>2, <3>3, SeqEqual
    <2>6. Fifo!Take
      BY <2>2, <2>4, <2>5 DEF Fifo!Take, W, G
    <2> QED
      BY <2>6
  <1>11. CASE ~Enqueues /\ ~Releases
    <2>1. Len(W') = n
      BY <1>2, <1>5, <1>11
    <2>2. W' = W
      <3> HIDE DEF n
      <3> QED
        BY <1>4, <1>5, <1>8, <1>11, <2>1, SeqEqual
    <2> QED
      BY <1>7, <1>11, <2>2 DEF W, G
  <1> QED
    BY <1>9, <1>10, <1>11

\* The arrays with their heads and tails implement the queue that the merger relies on:
\* every packet comes out once, in the order it went in, with its own header and data.
THEOREM ArenaIsQueue == Spec => FifoSpec
  <1>1. MergeInv => QueueView
    BY QueueViewHolds
  <1>2. Init => Fifo!InitFifo
    <2> SUFFICES ASSUME Init
                 PROVE  Waiting = << >> /\ Gone = << >>
      BY DEF Fifo!InitFifo
    <2>1. QueueView /\ hdrs_head = 0 /\ hdrs_tail = 0
      BY MergeInit, QueueViewHolds DEF Init, InitArena
    <2> QED
      BY <2>1, EmptySeq DEF QueueView
  <1>3. MergeInv /\ QueueView /\ QueueView' /\ [Next]_vars
          => [Fifo!Put \/ Fifo!Take]_(Fifo!fifoVars)
    <2>1. ASSUME MergeInv, QueueView, QueueView', Next
          PROVE  Fifo!Put \/ Fifo!Take \/ UNCHANGED <<Waiting, Gone>>
      BY <2>1, FifoStep
    <2>2. ASSUME UNCHANGED vars
          PROVE  UNCHANGED <<Waiting, Gone>>
      BY <2>2 DEF vars, mergeVars, arenaVars, Waiting, Gone, Contents, DataStart, AsWritten,
                  Taken, TakenAt, Origin
    <2> QED
      BY <2>1, <2>2 DEF Fifo!fifoVars
  <1> QED
    BY <1>1, <1>2, <1>3, MergeInvariant, PTL DEF Spec, FifoSpec, Fifo!FifoSpec

=====================================================================================
