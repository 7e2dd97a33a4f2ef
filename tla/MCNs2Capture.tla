-------------------------------- MODULE MCNs2Capture --------------------------------
(* Small traces for Ns2Capture: every sequence of at most MaxLines of nine lines.       *)
EXTENDS Ns2Capture, SequencesExt

CONSTANT MaxLines

L(e, t, d, a, n, h) == [event |-> e, time |-> t, dst_id |-> d, src_addr |-> a, dst_addr |-> 1,
                        pkt_size |-> n, tcp_hdr |-> h]

\* A connection request and its forwarding; data, with and without a TCP header, at the
\* beginning, on an edge and at the end of the range; another event; a packet that is
\* too late, and one whose address is too large.
MCLines == { L("r", 2, "proxy", 0, 1, "syn"),   L("r", 2, "other", 0, 1, "syn"),
             L("r", 0, "proxy", 2, 3, "other"), L("r", 5, "proxy", 2, 3, "none"),
             L("r", 19, "proxy", 0, 2, "none"), L("other", 5, "proxy", 0, 1, "syn"),
             L("r", 24, "proxy", 2, 1, "none"), L("r", 25, "proxy", 0, 1, "none"),
             L("r", 7, "proxy", 3, 1, "other") }

MCTraces == SeqOf(MCLines, MaxLines)
=====================================================================================
