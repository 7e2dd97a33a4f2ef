--------------------------------- MODULE MCCapture ---------------------------------
(* Small captures for Capture: every sequence of at most MaxRecords records with     *)
(* time stamps in Stamps, in any order.                                              *)
EXTENDS Capture, SequencesExt

CONSTANTS Stamps, MaxRecords

\* A connection request, small and not to be fragmented; the answer of a server, of the
\* largest size that is not tabulated; a segment with a negative address, outside IPv4
\* where the link layer tells; and a UDP packet.
MCFrames ==
  { [l3 |-> "ipv4", proto |-> "tcp", saddr |-> 1, daddr |-> 7, sport |-> 4, dport |-> 2,
     len |-> 1, df |-> TRUE, flags |-> "syn"],
    [l3 |-> "ipv4", proto |-> "tcp", saddr |-> 7, daddr |-> 1, sport |-> 2, dport |-> 4,
     len |-> 3, df |-> FALSE, flags |-> "other"],
    [l3 |-> "other", proto |-> "tcp", saddr |-> -4, daddr |-> 7, sport |-> 0, dport |-> 2,
     len |-> 3, df |-> FALSE, flags |-> "other"],
    [l3 |-> "ipv4", proto |-> "udp", saddr |-> 1, daddr |-> 7, sport |-> 4, dport |-> 2,
     len |-> 2, df |-> TRUE, flags |-> "other"] }

MCCaptures == SeqOf([ts : Stamps, frame : Frames], MaxRecords)
MCServerIps == {7}
====================================================================================
