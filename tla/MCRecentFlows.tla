------------------------------- MODULE MCRecentFlows -------------------------------
(* The program with --fsd1, on every table, as either reader fills it, whose sub-intervals *)
(* hold up to two packets of three flows; the last one but the spare one may be the last   *)
(* that has any.  A packet of flow h has the source port and address h, those of flow 2     *)
(* have the DF flag, and those of flow 3 are requests.                                    *)
EXTENDS WindowValues

CONSTANT Filled

Packet(h, n) == [h |-> h, size |-> n]
Contents == { << >>, <<Packet(1, 1)>>, <<Packet(2, 3), Packet(1, 1)>>,
              <<Packet(1, 2), Packet(1, 1)>>, <<Packet(3, 1)>> }

Tables == {[n \in Slots |-> IF n < Filled THEN c[n] ELSE << >>] :
             c \in [0 .. Filled - 1 -> Contents]}

\* What the packet p adds to a cell, when the reader is that of captures or that of ns-2,
\* which counts the DF flag always and the ports never.
Adds(p, c, ns2) ==
  CASE c[1] = "num_bytes"                          -> p.size
    [] c[1] = "num_packets"                        -> 1
    [] c[1] = "num_df"                             -> IF p.h = 2 \/ ns2 THEN 1 ELSE 0
    [] c[1] = "num_syn"                            -> IF p.h = 3 THEN 1 ELSE 0
    [] c[1] = "num_packet_sizes"                   -> IF c[2] = p.size THEN 1 ELSE 0
    [] c[1] \in {"num_src_ports", "num_dst_ports"} /\ ns2 -> 0
    [] c[1] \in {"num_src_ports", "num_src_ips"}   -> IF c[2] = p.h % NumPorts
                                                      THEN IF ByteMode THEN p.size ELSE 1 ELSE 0
    [] c[1] \in {"num_dst_ports", "num_dst_ips"}   -> IF c[2] = 0
                                                      THEN IF ByteMode THEN p.size ELSE 1 ELSE 0

Counters(trace, ns2) ==
  [c \in Cells |-> Tally(DOMAIN trace, [m \in DOMAIN trace |-> Adds(trace[m], c, ns2)])]

Init ==
  /\ fsd_traces \in Tables
  /\ \E ns2 \in BOOLEAN : intervals = [n \in Slots |-> Counters(fsd_traces[n], ns2)]
  /\ TableConsistent
  /\ InitRecent
Spec == Init /\ [][NextRecent]_vars
====================================================================================
