---------------------------------- MODULE MCMerge ----------------------------------
(* Small captures for Merge, with time stamps in Stamps: every sequence of at most       *)
(* MaxRecords records in time order, and of at most MaxUnordered in any order; of the    *)
(* packets for the target some were not captured whole.                                *)
EXTENDS Merge, SequencesExt

CONSTANTS Stamps, MaxRecords, MaxUnordered

MCRecords == {[ts |-> s, len |-> n, caplen |-> 1, target |-> TRUE] : s \in Stamps, n \in {1, 2}}
        \cup {[ts |-> s, len |-> 1, caplen |-> 1, target |-> FALSE] : s \in Stamps}

Ordered(c) == \A k \in 1 .. Len(c) - 1 : c[k].ts <= c[k + 1].ts

MCCaptures == {c \in SeqOf(MCRecords, MaxRecords) : Len(c) <= MaxUnordered \/ Ordered(c)}
====================================================================================
