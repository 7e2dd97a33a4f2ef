------------------------------- MODULE EntropyReport -------------------------------
(***********************************************************************************)
(* What the program promises, without counters, histograms or running totals: it     *)
(* collects packets, each with its sub-interval and what it adds to the figures of   *)
(* that sub-interval; then it reports on the windows one after the other, each report *)
(* computed from the packets of the window alone; and then it writes them all.        *)
(***********************************************************************************)
EXTENDS Intervals, Sequences

CONSTANTS
  NumIntervals,      \* the sub-intervals of the analysed range
  NumSubintervals,   \* those of a window
  ByteMode           \* ports and addresses are weighted by bytes, not packets

VARIABLES
  packets,   \* the packets collected: [slot, adds], by their place in the capture
  reports,   \* the reports so far, one per window, in order
  written    \* the report that was written for each sub-interval

abstractVars == <<packets, reports, written>>

\* What the packets of the window at n add to the cell c.
InWindow(n) == {k \in DOMAIN packets : packets[k].slot \in n .. n + NumSubintervals - 1}
Amount(n, c) == Tally(InWindow(n), [k \in DOMAIN packets |-> packets[k].adds[c]])

\* The same for one sub-interval of it.
AmountIn(i, c) == Tally({k \in DOMAIN packets : packets[k].slot = i},
                        [k \in DOMAIN packets |-> packets[k].adds[c]])

\* How the figure f is spread over the sub-intervals of the window that have packets.
OverTime(n, f) ==
  LET busy == {packets[k].slot : k \in InWindow(n)}
  IN  [terms |-> [i \in busy |-> AmountIn(i, <<f, 0>>)], over |-> Amount(n, <<f, 0>>)]

\* How the packets or bytes of the window are spread over the elements of a vector.
OverElements(n, h) ==
  LET hit == {b \in Elements(h) : Amount(n, <<h, b>>) > 0}
      unit == IF ByteMode /\ h \in Histograms THEN "num_bytes" ELSE "num_packets"
  IN  [terms |-> [b \in hit |-> Amount(n, <<h, b>>)], over |-> Amount(n, <<unit, 0>>)]

Report(n) ==
  [ ent        |-> [h \in Histograms \cup {"num_packet_sizes", "num_packets", "num_bytes",
                                           "num_df"} |->
                      IF h \in Scalars THEN OverTime(n, h) ELSE OverElements(n, h)],
    tot_pktnum |-> Amount(n, <<"num_packets", 0>>),
    tot_syn    |-> Amount(n, <<"num_syn", 0>>) ]

\* The windows that are reported on: all that end before the last sub-interval.
NumReports == NumIntervals - NumSubintervals
-------------------------------------------------------------------------------------
InitReport == packets = << >> /\ reports = << >> /\ written = << >>

\* Before the first report, a packet may be collected.
Collect ==
  /\ reports = << >> /\ written = << >>
  /\ \E k \in (DOMAIN packets)' \ DOMAIN packets :
       /\ (DOMAIN packets)' = DOMAIN packets \cup {k}
       /\ \A m \in DOMAIN packets : packets'[m] = packets[m]
       /\ packets'[k].slot \in 0 .. NumIntervals - 1
  /\ UNCHANGED <<reports, written>>

Publish ==
  /\ written = << >>
  /\ Len(reports) < NumReports
  /\ reports' = Append(reports, Report(Len(reports)))
  /\ UNCHANGED <<packets, written>>

\* All the reports are written; nothing is said of the sub-intervals after them.
Write ==
  /\ written = << >>
  /\ Len(reports) = NumReports
  /\ \A i \in 1 .. NumReports : written'[i - 1] = reports[i]
  /\ DOMAIN written' = 0 .. NumIntervals - 1
  /\ UNCHANGED <<packets, reports>>

NextReport == Collect \/ Publish \/ Write

ReportSpec == InitReport /\ [][NextReport]_abstractVars
=====================================================================================
