--------------------------------- MODULE Ns2Capture ---------------------------------
(***********************************************************************************)
(* Reading a trace of the ns-2 simulator: parse_ns2() of process_entropy.cpp.  Each    *)
(* line that reports a packet received by the proxy node is added to the counters of   *)
(* the sub-interval it falls into.                                                    *)
(***********************************************************************************)
EXTENDS Intervals, FlowHash, Sequences

CONSTANTS
  TicksPerSecond,   \* the resolution of the time stamps
  NumIntervals,     \* num_intervals
  NumSubintervals,  \* num_subintervals, which here are those of a second
  ByteMode,         \* use_byte_entropy
  Traces            \* the traces that may be given to the program

\* A line: its event ("r", or any other), what follows it, and the flags of the TCP
\* header, which only lines about TCP packets end with.
Line == [ event : {"r", "other"},
          time : Nat,
          dst_id : {"proxy", "other"},
          src_addr : Nat, dst_addr : Nat,
          pkt_size : Nat \ {0},
          tcp_hdr : {"syn", "other", "none"} ]

ASSUME Ns2Assumption ==
  /\ TicksPerSecond \in Nat \ {0}
  /\ NumIntervals \in Nat
  /\ NumSubintervals \in Nat \ {0}
  /\ ByteMode \in BOOLEAN
  /\ Traces \subseteq Seq(Line)

VARIABLES
  trace,            \* the lines of the file
  opened,           \* fopen() succeeded
  pc,               \* "open", "reading", "parsed" or "stray"
  pos,              \* the lines read
  tcp_hdr,          \* the variable that sscanf() stores the flags in
  intervals,
  fsd_traces,
  t_total_packets

ns2Vars == <<trace, opened, pc, pos, tcp_hdr, intervals, fsd_traces, t_total_packets>>
counters == <<intervals, fsd_traces, t_total_packets>>

Slots == 0 .. NumIntervals
-------------------------------------------------------------------------------------
\* The sub-interval: of the second, and within it.
RoundedSlot(t) ==   \* mistake: rounded to the nearest sub-interval
  (2 * t * NumSubintervals + TicksPerSecond) \div (2 * TicksPerSecond)
Slot(t) == (t \div TicksPerSecond) * NumSubintervals
             + (((t % TicksPerSecond) * NumSubintervals) \div TicksPerSecond)

\* sscanf() leaves the variable alone when the line ends before the flags.
KeptHeader(l) ==      \* mistake: the first header seen is kept
  IF tcp_hdr # "syn" /\ l.tcp_hdr = "none" THEN "other" ELSE tcp_hdr
Header(l) == IF l.tcp_hdr = "none" THEN tcp_hdr ELSE l.tcp_hdr

psize(l) == IF ByteMode THEN l.pkt_size ELSE 1

\* What a line adds to one cell, when the variable holds hdr.  The DF flag is always
\* counted, the ports never; c ranges over the cells.
Share(l, hdr, c) ==
  CASE c[1] = "num_packets"      -> 1
    [] c[1] = "num_bytes"        -> l.pkt_size
    [] c[1] = "num_syn"          -> IF hdr = "syn" THEN 1 ELSE 0
    [] c[1] = "num_df"           -> 1
    [] c[1] = "num_packet_sizes" -> IF c[2] = l.pkt_size THEN 1 ELSE 0
    [] c[1] = "num_src_ips"      -> IF c[2] = l.src_addr THEN psize(l) ELSE 0
    [] c[1] = "num_dst_ips"      -> IF c[2] = l.dst_addr THEN psize(l) ELSE 0
    [] OTHER                     -> 0

\* The indices of a line are inside the vectors; the code does not look.
InBounds(l) ==
  /\ Slot(l.time) \in Slots
  /\ l.src_addr < NumPorts
  /\ l.dst_addr < NumPorts
-------------------------------------------------------------------------------------
Init ==
  /\ trace \in Traces
  /\ opened = FALSE
  /\ pc = "open"
  /\ pos = 0
  /\ tcp_hdr = "other"
  /\ intervals = [i \in Slots |-> [c \in Cells |-> 0]]
  /\ fsd_traces = [i \in Slots |-> << >>]
  /\ t_total_packets = 0

\* The file cannot be opened: -0 is returned, and main() goes on as if it had been read.
OpenFails ==
  /\ pc = "open"
  /\ pc' = "parsed"
  /\ UNCHANGED <<trace, opened, pos, tcp_hdr, counters>>

OpenSucceeds ==
  /\ pc = "open"
  /\ opened' = TRUE
  /\ pc' = "reading"
  /\ UNCHANGED <<trace, pos, tcp_hdr, counters>>

NextLine == trace[pos + 1]

Read ==
  /\ pc = "reading"
  /\ pos < Len(trace)
  /\ pos' = pos + 1
  /\ UNCHANGED <<trace, opened>>

\* A line about another event is not parsed.
SkipEvent ==
  /\ Read
  /\ NextLine.event # "r"
  /\ UNCHANGED <<pc, tcp_hdr, counters>>

\* A packet received elsewhere is parsed and not counted.
SkipElsewhere ==
  /\ Read
  /\ NextLine.event = "r"
  /\ tcp_hdr' = Header(NextLine)
  /\ NextLine.dst_id # "proxy"
  /\ UNCHANGED <<pc, counters>>

CountLine ==
  /\ Read
  /\ NextLine.event = "r"
  /\ tcp_hdr' = Header(NextLine)
  /\ NextLine.dst_id = "proxy"
  /\ InBounds(NextLine)
  /\ LET l == NextLine  i == Slot(l.time)
     IN  /\ intervals' = [intervals EXCEPT ![i] =
                            [c \in Cells |-> intervals[i][c] + Share(l, Header(l), c)]]
         /\ fsd_traces' = [fsd_traces EXCEPT ![i] =
                             Append(@, Inserted(l.src_addr, 0, l.dst_addr, 0, l.pkt_size))]
  /\ t_total_packets' = t_total_packets + 1
  /\ UNCHANGED pc

\* An index is outside its vector; what follows is undefined.
Stray ==
  /\ Read
  /\ NextLine.event = "r"
  /\ tcp_hdr' = Header(NextLine)
  /\ NextLine.dst_id = "proxy"
  /\ ~InBounds(NextLine)
  /\ pc' = "stray"
  /\ UNCHANGED counters

EndOfFile ==
  /\ pc = "reading"
  /\ pos = Len(trace)
  /\ pc' = "parsed"
  /\ UNCHANGED <<trace, opened, pos, tcp_hdr, counters>>

Next == \/ OpenFails \/ OpenSucceeds
        \/ SkipEvent \/ SkipElsewhere \/ CountLine \/ Stray \/ EndOfFile

Spec == Init /\ [][Next]_ns2Vars
-------------------------------------------------------------------------------------
(* Properties.                                                                       *)

\* The lines read that count in sub-interval i.  The sub-interval is computed as
\* parse_pcap() does it, for an analysis that starts at 0 and a window of one second.
Lines(i) ==
  {k \in 1 .. pos : /\ trace[k].event = "r" /\ trace[k].dst_id = "proxy"
                    /\ (trace[k].time * NumSubintervals) \div TicksPerSecond = i}

\* Every counter but that of the SYN flag is the exact total of the lines read that
\* belong there, in the sub-interval that the reader of captures would choose.
TalliesExact ==
  pc # "stray" =>
    \A i \in Slots : \A c \in Cells \ {<<"num_syn", 0>>} :
      intervals[i][c] = Tally(Lines(i), [k \in 1 .. pos |-> Share(trace[k], "other", c)])

\* The counters of a sub-interval agree with each other, except that the histograms of
\* ports stay empty.
RowsConsistent == \A i \in Slots : Consistent(intervals[i], ByteMode, FALSE)

\* No SYN packet is missed, and one is counted wrongly only for a line without a TCP
\* header that comes after a line, anywhere in the file, with the SYN flag.
SynNeverMissed ==
  pc # "stray" =>
    \A i \in Slots :
      LET syn    == {k \in Lines(i) : trace[k].tcp_hdr = "syn"}
          doubtful == {k \in Lines(i) : /\ trace[k].tcp_hdr = "none"
                                        /\ \E m \in 1 .. k : /\ trace[m].event = "r"
                                                             /\ trace[m].tcp_hdr = "syn"}
      IN  /\ intervals[i][<<"num_syn", 0>>] >= Cardinality(syn)
          /\ intervals[i][<<"num_syn", 0>>] <= Cardinality(syn \cup doubtful)

\* process_entropy.cpp:179 "if(parse_ns2(filename) != 0)", :180 "failed to open file":
\* a file that cannot be opened is reported to main().
FailureReported == pc = "parsed" => opened
=====================================================================================
