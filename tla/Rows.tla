------------------------------------ MODULE Rows ------------------------------------
(***********************************************************************************)
(* The counters of one sub-interval, a row of the table: a function from the cells,    *)
(* of which <<"num_syn", 0>> stands for the field num_syn, and <<"num_dst_ports", b>>   *)
(* for the element num_dst_ports[b].  The readers add a packet to several of them; what *)
(* the entropies mean depends on their agreement.                                     *)
(***********************************************************************************)
EXTENDS Tally

\* What the elements of a vector sum up to.
RowSum(row, h) == Tally({c \in DOMAIN row : c[1] = h}, row)

\* The counters count the same packets.  Each packet is once in the histograms of
\* addresses, and in those of ports if the reader fills them, as 1 or with its bytes; it
\* is at most once in the table of sizes, has the DF flag at most once, and a byte or more.
Consistent(row, bytes, ports) ==
  LET packets == row[<<"num_packets", 0>>]
      size    == row[<<"num_bytes", 0>>]
      unit    == IF bytes THEN size ELSE packets
  IN  /\ \A h \in {"num_src_ips", "num_dst_ips"} : RowSum(row, h) = unit
      /\ \A h \in {"num_src_ports", "num_dst_ports"} :
           RowSum(row, h) = IF ports THEN unit ELSE 0
      /\ RowSum(row, "num_packet_sizes") <= packets
      /\ row[<<"num_df", 0>>] <= packets
      /\ packets <= size
      /\ packets = 0 => size = 0
=====================================================================================
