------------------------------ MODULE MCProcessEntropy ------------------------------
(* Small captures for the whole program: every sequence of at most MaxRecords records   *)
(* with time stamps in Stamps, in any order.                                          *)
EXTENDS ProcessEntropy, SequencesExt

CONSTANTS Stamps, MaxRecords

\* A connection request, small and not to be fragmented; the answer of the server; and
\* a large packet of the server to itself.
MCFrames ==
  { [l3 |-> "ipv4", proto |-> "tcp", saddr |-> 1, daddr |-> 7, sport |-> 4, dport |-> 2,
     len |-> 1, df |-> TRUE, flags |-> "syn"],
    [l3 |-> "ipv4", proto |-> "tcp", saddr |-> 7, daddr |-> 1, sport |-> 2, dport |-> 4,
     len |-> 2, df |-> FALSE, flags |-> "other"],
    [l3 |-> "ipv4", proto |-> "tcp", saddr |-> 7, daddr |-> 7, sport |-> 2, dport |-> 2,
     len |-> 3, df |-> FALSE, flags |-> "other"] }

MCCaptures == SeqOf([ts : Stamps, frame : Frames], MaxRecords)
====================================================================================
