--------------------------------- MODULE WindowValues ---------------------------------
(***********************************************************************************)
(* The values of the entropies of a window, for each formula that the analyser can be    *)
(* told to use: what SetCount() is given for each of them, and what the percentages in    *)
(* the files mean.  A value is looked at when its window has just been evaluated.        *)
(***********************************************************************************)
EXTENDS RecentFlows, Entropy

CONSTANTS
  MaxPort,      \* UINT16_MAX
  MaxAddress    \* UINT32_MAX

\* One size, port or address alone would make logarithms of 1 of the denominators.
ASSUME RangeAssumption ==
  /\ MaxPort \in Nat /\ MaxAddress \in Nat
  /\ 1 < NumSizes /\ 1 < MaxPort /\ NumPorts <= MaxPort /\ MaxPort <= MaxAddress

\* A distribution over time has as many elements as it has terms, except that of the DF
\* flag, which has as many as there are packets in the capture.
g_total_packets == Tally(Slots, Column(<<"num_packets", 0>>))
SetCount(h) ==
  CASE h \in {"num_src_ports", "num_dst_ports"} -> MaxPort
    [] h \in {"num_src_ips", "num_dst_ips"}     -> MaxAddress
    [] h = "num_packet_sizes"                   -> NumSizes
    [] h = "num_df"                             -> g_total_packets
    [] OTHER                                    -> 0

\* The table comes from one of the two readers, of which that of ns-2 counts no ports.
TableConsistent ==
  \E ports \in BOOLEAN : \A n \in Slots : Consistent(intervals[n], ByteMode, ports)
SpecValues == TableConsistent /\ SpecRecent

\* The entropies of the window that was evaluated last, and their values.
Computed == IF phase = "evaluate" THEN result[j - 1].ent ELSE << >>
Value(kind, q, h) == GetValue(kind, q, Computed[h], SetCount(h))
-------------------------------------------------------------------------------------
(* Properties.                                                                       *)

\* The formulas with the parameters they are tried for, to the default q = 2.
Formulas == ({"shannon", "tsalis", "tsalis2", "renyi"} \X (-2 .. 2))
              \cup ({"ubriaco"} \X (0 .. 2)) \cup ({"bhatiasingh"} \X (1 .. 2))

\* Those whose maximum is that of evenly distributed terms.
Normal == ({"tsalis", "renyi"} \X {0, 2}) \cup {<<"shannon", 0>>, <<"ubriaco", 1>>}

\* The terms of h sum up to 1: all the packets are in them.
Complete(h) == Tally(DOMAIN Computed[h].terms, Computed[h].terms) = Computed[h].over
Occupied == {h \in DOMAIN Computed : Computed[h].over > 0}

\* No value is negative or more than 100 %, unless some packets are missing from the
\* distribution: those too large for the table of sizes, and the ports of an ns-2 trace.
PercentOfMaximum ==
  \A h \in Occupied : \A f \in Normal :
    Value(f[1], f[2], h) \in {"negative", "more"} =>
      h \in {"num_packet_sizes", "num_src_ports", "num_dst_ports"} /\ ~Complete(h)

\* Evenly distributed over as many elements as are counted, and nowhere else, the value
\* is 100 %; with a single element, and only then, it is 0 %.
ExtremesExact ==
  \A h \in {m \in Occupied : Complete(m)} : \A f \in Normal :
    LET e == Computed[h]
        full == {x \in DOMAIN e.terms : e.terms[x] # 0}
        n == IF SetCount(h) > 0 THEN SetCount(h) ELSE Cardinality(full)
        even == Cardinality(full) = n /\ \A x \in full : e.terms[x] * n = e.over
    IN  n > 1 /\ f # <<"tsalis", 0>> /\ f # <<"renyi", 0>> =>
          /\ (Value(f[1], f[2], h) = "zero") <=> (Cardinality(full) = 1)
          /\ (Value(f[1], f[2], h) = "all") <=> even

\* What is not a number: with all the formulas, the entropy of the DF flag in a window
\* without the flag (not for q = 0) or, with BhatiaSingh, in one with a sub-interval
\* without it; with Ubriaco and BhatiaSingh, the entropies over time in a window with one
\* busy sub-interval, or when there is one packet in all.
UndefinedOnly ==
  \A h \in DOMAIN Computed : \A f \in Formulas :
    Value(f[1], f[2], h) = "nan" =>
      \/ h = "num_df" /\ \E x \in DOMAIN Computed[h].terms : Computed[h].terms[x] = 0
      \/ /\ f[1] \in {"ubriaco", "bhatiasingh"} /\ h \in Scalars
         /\ Cardinality(DOMAIN Computed[h].terms) = 1 \/ g_total_packets = 1

\* A window without packets has the value 0 in every file, except with Tsalis: for q > 1
\* the entropies that are given a count are more than 100 %.  (With Ubriaco and
\* BhatiaSingh that of the DF flag is undefined if the capture has one packet.)
EmptyWindowZero ==
  phase = "evaluate" /\ result[j - 1].tot_pktnum = 0 =>
    \A h \in DOMAIN Computed :
      /\ \A f \in {g \in Formulas : g[1] # "tsalis"} :
           Value(f[1], f[2], h) = "zero" \/ (h = "num_df" /\ g_total_packets = 1)
      /\ Value("tsalis", 2, h) = IF SetCount(h) > 1 THEN "more" ELSE "zero"
=====================================================================================
