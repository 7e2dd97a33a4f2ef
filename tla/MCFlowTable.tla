-------------------------------- MODULE MCFlowTable --------------------------------
(* FlowTable alone, with windows of the lengths in Windows: on every table of at most   *)
(* two packets per sub-interval, between end points in Pairs.  The first Filled         *)
(* sub-intervals are filled in every way, the next one has a packet or not.            *)
EXTENDS FlowTable

CONSTANTS Pairs, Filled, Windows

MCPairs == {<<0, 1>>, <<1, 0>>, <<0, 2>>, <<1, 2>>, <<2, 2>>}

\* One sub-interval: no packet, one, or two that answer each other.
Trace(p) == [src |-> p[1], dst |-> p[2]]
Contents == {<< >>, <<Trace(<<0, 1>>), Trace(<<1, 0>>)>>} \cup {<<Trace(p)>> : p \in Pairs}

Tables == {[i \in Slots |-> IF i < Filled THEN c[i] ELSE IF i = Filled THEN d ELSE << >>] :
             c \in [0 .. Filled - 1 -> Contents], d \in {<< >>, <<Trace(<<0, 1>>)>>}}

Init == num_subintervals \in Windows /\ fsd_traces \in Tables /\ TracesOK /\ InitFlows
Next == NextFlows /\ UNCHANGED num_subintervals
Spec == Init /\ [][Next]_tableVars

=====================================================================================
