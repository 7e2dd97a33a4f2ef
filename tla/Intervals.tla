--------------------------------- MODULE Intervals ---------------------------------
(***********************************************************************************)
(* The fields of struct Interval (process_entropy.h) that count packets, as the      *)
(* cells of a row (see Rows).                                                        *)
(***********************************************************************************)
EXTENDS Rows

CONSTANTS
  NumPorts,   \* num_ports: the elements of a port or address histogram
  NumSizes    \* NUM_ENTROPY_PACKET_SIZES

ASSUME CellAssumption == NumPorts \in Nat \ {0} /\ NumSizes \in Nat \ {0}

Scalars == {"num_packets", "num_syn", "num_df", "num_bytes"}
Histograms == {"num_src_ports", "num_dst_ports", "num_src_ips", "num_dst_ips"}

Cells == (Scalars \X {0})
           \cup (Histograms \X (0 .. NumPorts - 1))
           \cup ({"num_packet_sizes"} \X (0 .. NumSizes - 1))

\* The elements of a vector.
Elements(h) == {c[2] : c \in {d \in Cells : d[1] = h}}

=====================================================================================
