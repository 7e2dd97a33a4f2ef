---------------------------------- MODULE Capture ----------------------------------
(***********************************************************************************)
(* Reading a packet capture: parse_pcap() of process_entropy.cpp.  The records of   *)
(* the file are read once, in file order; each TCP packet inside the analysed time  *)
(* range, and not sent by one of the servers to ignore, is added to the counters of *)
(* the sub-interval it falls into.                                                  *)
(*                                                                                  *)
(* Time is counted in ticks of 1 / TicksPerSecond seconds and is exact, where the   *)
(* code computes with doubles.                                                      *)
(***********************************************************************************)
EXTENDS Intervals, FlowHash, Sequences

CONSTANTS
  TicksPerSecond,   \* the resolution of the time stamps
  OffsetTicks,      \* 0.01 s: how long before the first TCP packet time 0 is
  StartTime,        \* start_time, in seconds
  MaxTime,          \* max_time, in seconds
  NumSubintervals,  \* num_subintervals, per window
  WindowTicks,      \* window_size_seconds, in ticks
  ByteMode,         \* use_byte_entropy
  ServerIps,        \* ips: the sources whose packets are left out
  Links,            \* the link types a capture may have
  Frames,           \* the frames that may occur
  Captures          \* the captures that may be given to the program

Frame == [ l3     : {"ipv4", "other"},   \* the SLL protocol field
           proto  : {"tcp", "udp"},      \* the byte read as the IP protocol
           saddr  : Int, daddr : Int,    \* addresses, as the code's signed ints
           sport  : Nat, dport : Nat,
           len    : Nat \ {0},           \* pcap_hdr.len
           df     : BOOLEAN,
           flags  : {"syn", "other"} ]   \* exactly SYN, or anything else

ASSUME TimeAssumption ==
  /\ TicksPerSecond \in Nat \ {0}
  /\ OffsetTicks \in 1 .. TicksPerSecond
  /\ StartTime \in Nat
  /\ MaxTime \in Nat
  /\ StartTime < MaxTime
  /\ WindowTicks \in Nat \ {0}

ASSUME SizeAssumption == NumSubintervals \in Nat \ {0}

ASSUME InputAssumption ==
  /\ ByteMode \in BOOLEAN
  /\ ServerIps \subseteq Int
  /\ Links \subseteq {"sll", "other"}
  /\ Frames \subseteq Frame
  /\ Captures \subseteq Seq([ts : Nat, frame : Frames])

VARIABLES
  link,             \* pcap_datalink(p), one for the whole file
  capture,          \* the records of the file
  pc,               \* where the program is
  pos,              \* how many records pcap_next() has returned
  sec_first,        \* no TCP packet has been seen yet
  sec_offs,         \* the time stamp of time 0
  intervals,        \* the counters of every sub-interval
  fsd_traces,       \* the packets of every sub-interval, as the flow table sees them
  t_total_packets   \* the packets counted (g_total_packets is always the same)

captureVars == <<link, capture, pc, pos, sec_first, sec_offs, intervals,
                 fsd_traces, t_total_packets>>

-------------------------------------------------------------------------------------
(* The sub-intervals.                                                                *)

\* init_vectors(): the number of sub-intervals; the vector has one more.
num_intervals ==
  ((MaxTime - StartTime) * NumSubintervals * TicksPerSecond) \div WindowTicks

Slots == 0 .. num_intervals

-------------------------------------------------------------------------------------
(* What the code makes of one record.                                               *)

\* Conversion of a quotient to int: towards zero.  b is positive.
TruncDiv(a, b) == IF a >= 0 THEN a \div b ELSE -((-a) \div b)

\* Mistake: the sign of the remainder is kept.
SignedRem(a, b) == IF a >= 0 THEN a % b ELSE -((-a) % b)

\* The remainder of C, which has the sign of a, without its sign.
AbsRem(a, b) == (IF a >= 0 THEN a ELSE -a) % b

\* The link-layer tests: an SLL capture is checked for IPv4, any other is not.
IsTcp(f) == f.proto = "tcp" /\ (link = "sll" => f.l3 = "ipv4")

\* What a counted packet adds to the histograms of ports and addresses.
psize(f) == IF ByteMode THEN f.len ELSE 1

\* Mistake: packets and bytes are swapped.
SwappedAmounts(f) == [ num_packets |-> f.len,
                       num_bytes   |-> 1,
                       num_syn     |-> IF f.flags = "syn" THEN 1 ELSE 0,
                       num_df      |-> IF f.df THEN 1 ELSE 0 ]

\* What a counted packet adds to the plain fields of its sub-interval.
Amounts(f) == [ num_packets |-> 1,
                num_bytes   |-> f.len,
                num_syn     |-> IF f.flags = "syn" THEN 1 ELSE 0,
                num_df      |-> IF f.df THEN 1 ELSE 0 ]

\* The element of each vector that it adds to.
Bucket(f) == [ num_src_ports    |-> f.sport % NumPorts,
               num_dst_ports    |-> f.dport % NumPorts,
               num_src_ips      |-> AbsRem(f.saddr, NumPorts),
               num_dst_ips      |-> AbsRem(f.daddr, NumPorts),
               num_packet_sizes |-> f.len ]

\* What it adds to one cell; the size of a large packet has no element.
Share(f, c) ==
  IF c[1] \in Scalars THEN Amounts(f)[c[1]]
  ELSE IF Bucket(f)[c[1]] = c[2]
         THEN IF c[1] = "num_packet_sizes" THEN 1 ELSE psize(f)
         ELSE 0

\* What fsd_insert() keeps of it: the elements of the vectors are its inputs.
Trace(f) == Inserted(Bucket(f).num_src_ips, Bucket(f).num_src_ports,
                     Bucket(f).num_dst_ips, Bucket(f).num_dst_ports, f.len)

\* The int part of the time, and the index of the sub-interval.
Sec(t) == TruncDiv(t, TicksPerSecond)
UnscaledSlot(t) == TruncDiv(num_intervals * t, MaxTime)   \* mistake: ticks for seconds
Slot(t) == TruncDiv(num_intervals * (t - StartTime * TicksPerSecond),
                    (MaxTime - StartTime) * TicksPerSecond)

FromServer(f) == f.saddr \in ServerIps
-------------------------------------------------------------------------------------
Init ==
  /\ link \in Links
  /\ capture \in Captures
  /\ pc = "open"
  /\ pos = 0
  /\ sec_first = TRUE
  /\ sec_offs = 0
  /\ intervals = [i \in Slots |-> [c \in Cells |-> 0]]
  /\ fsd_traces = [i \in Slots |-> << >>]
  /\ t_total_packets = 0

counters == <<intervals, fsd_traces, t_total_packets>>

\* access() or pcap_open_offline() fails: main() returns without processing.
OpenFails ==
  /\ pc = "open"
  /\ pc' = "failed"
  /\ UNCHANGED <<link, capture, pos, sec_first, sec_offs, counters>>

OpenSucceeds ==
  /\ pc = "open"
  /\ pc' = "reading"
  /\ UNCHANGED <<link, capture, pos, sec_first, sec_offs, counters>>

\* The next record of the file.
Record == capture[pos + 1]

\* pcap_next() returns a record.
Reading == pc = "reading" /\ pos < Len(capture)

\* The record is not a TCP packet.
SkipForeign ==
  /\ Reading
  /\ ~IsTcp(Record.frame)
  /\ pos' = pos + 1
  /\ UNCHANGED <<link, capture, pc, sec_first, sec_offs, counters>>

\* The time of the record, which is a TCP packet, and the clock after it was read:
\* the first TCP packet sets the time stamp of time 0.
LatestOffset == Record.ts - OffsetTicks   \* mistake: every TCP packet sets it
Offset == IF sec_first THEN Record.ts - OffsetTicks ELSE sec_offs
Time == Record.ts - Offset

ReadTcp ==
  /\ Reading
  /\ IsTcp(Record.frame)
  /\ pos' = pos + 1
  /\ sec_first' = FALSE
  /\ sec_offs' = Offset
  /\ UNCHANGED <<link, capture>>

SkipEarly ==
  /\ ReadTcp
  /\ Sec(Time) < StartTime
  /\ UNCHANGED <<pc, counters>>

\* Mistake: an early packet ends the reading too.
StopOutside ==
  /\ ReadTcp
  /\ Sec(Time) < StartTime \/ Sec(Time) >= MaxTime
  /\ pc' = "parsed"
  /\ UNCHANGED counters

\* The first packet after the range ends the reading, whatever follows it.
StopAtEnd ==
  /\ ReadTcp
  /\ Sec(Time) >= StartTime
  /\ Sec(Time) >= MaxTime
  /\ pc' = "parsed"
  /\ UNCHANGED counters

ClosedRange(t) == Sec(t) >= StartTime /\ Sec(t) <= MaxTime   \* mistake: > for >=
InRange(t) == Sec(t) >= StartTime /\ Sec(t) < MaxTime

SkipServer ==
  /\ ReadTcp
  /\ InRange(Time)
  /\ FromServer(Record.frame)
  /\ UNCHANGED <<pc, counters>>

CountPacket ==
  /\ ReadTcp
  /\ InRange(Time)
  /\ ~FromServer(Record.frame)
  /\ Slot(Time) \in Slots
  /\ LET i == Slot(Time)  f == Record.frame
     IN  /\ intervals' = [intervals EXCEPT ![i] =
                            [c \in Cells |-> intervals[i][c] + Share(f, c)]]
         /\ fsd_traces' = [fsd_traces EXCEPT ![i] = Append(@, Trace(f))]
  /\ t_total_packets' = t_total_packets + 1
  /\ UNCHANGED pc

\* The index is outside the vector: what the program does next is undefined, and is
\* not followed any further.
Stray ==
  /\ ReadTcp
  /\ InRange(Time)
  /\ ~FromServer(Record.frame)
  /\ Slot(Time) \notin Slots
  /\ pc' = "stray"
  /\ UNCHANGED counters

EndOfFile ==
  /\ pc = "reading"
  /\ pos = Len(capture)
  /\ pc' = "parsed"
  /\ UNCHANGED <<link, capture, pos, sec_first, sec_offs, counters>>

Next == \/ OpenFails \/ OpenSucceeds
        \/ SkipForeign \/ SkipEarly \/ StopAtEnd \/ SkipServer
        \/ CountPacket \/ Stray \/ EndOfFile

Spec == Init /\ [][Next]_captureVars
-------------------------------------------------------------------------------------
(* What the capture says, whatever the program has done so far.                      *)

TcpRecords == {k \in 1 .. Len(capture) : IsTcp(capture[k].frame)}

\* The first TCP packet of the file, when there is one, and the time of a record
\* relative to it.
First == CHOOSE k \in TcpRecords : \A m \in TcpRecords : k <= m
TimeOf(k) == capture[k].ts - capture[First].ts + OffsetTicks

\* The records that ought to be counted.
Wanted == {k \in TcpRecords : InRange(TimeOf(k)) /\ ~FromServer(capture[k].frame)}

\* The weight of each record in one cell.
Weight(c) == [k \in 1 .. Len(capture) |-> Share(capture[k].frame, c)]

\* The records of sub-interval i read so far.
Members(i) == {k \in Wanted : k <= pos /\ Slot(TimeOf(k)) = i}
-------------------------------------------------------------------------------------
(* Properties.                                                                       *)

TypeOK ==
  /\ link \in Links
  /\ capture \in Captures
  /\ pc \in {"open", "reading", "parsed", "failed", "stray"}
  /\ pos \in 0 .. Len(capture)
  /\ sec_first \in BOOLEAN
  /\ sec_offs \in Int
  /\ intervals \in [Slots -> [Cells -> Nat]]
  /\ fsd_traces \in [Slots -> Seq([src : 0 .. NumAddr - 1, dst : 0 .. NumAddr - 1,
                                   h : Nat, size : Nat \ {0}])]
  /\ t_total_packets \in Nat

\* Every cell of every sub-interval holds exactly the total of the records read so
\* far that belong there: none is lost, counted twice or put in another
\* sub-interval or bucket, whatever was skipped in between (parse_pcap's counters).
TalliesExact ==
  pc # "stray" =>
    \A i \in Slots : \A c \in Cells : intervals[i][c] = Tally(Members(i), Weight(c))

\* The counters of a sub-interval agree with each other, in particular none of its packets
\* is missing from a histogram: their elements exist for every port and address, also
\* for the addresses that are negative as an int.
RowsConsistent == \A i \in Slots : Consistent(intervals[i], ByteMode, TRUE)

\* The flow table is given one trace for each counted packet, and the two totals the
\* program prints and normalises by agree with the counters.
TracesMatchCounters ==
  /\ \A i \in Slots : Len(fsd_traces[i]) = intervals[i][<<"num_packets", 0>>]
  /\ t_total_packets = Tally(Slots, [i \in Slots |-> Len(fsd_traces[i])])

\* Reading ends early at the first packet after the range: a packet that ought to be
\* counted is missing from the result only when an earlier record of the file is
\* later than the whole range.  A capture in time order loses nothing.
LossOnlyAfterLateRecord ==
  pc = "parsed" =>
    \A k \in Wanted : k > pos =>
      \E m \in TcpRecords : m < k /\ m <= pos /\ Sec(TimeOf(m)) >= MaxTime

\* The index leaves the vector only for a packet that the capture holds out of order,
\* by more than a sub-interval before the first TCP packet of the file, and only when
\* the analysis starts at time 0.
StrayOnlyBeforeTimeZero ==
  pc = "stray" =>
    /\ StartTime = 0
    /\ num_intervals * TimeOf(pos) <= -(MaxTime * TicksPerSecond)

\* The last slot of the vector is only there for rounding: no packet is put in it, unless
\* the range is shorter than a sub-interval, when the vector has no other.
SpareSlotEmpty == num_intervals # 0 => fsd_traces[num_intervals] = << >>
=====================================================================================
