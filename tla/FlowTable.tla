---------------------------------- MODULE FlowTable ----------------------------------
(*************************************************************************************)
(* Fsd2::fsd_prepare() of fsd.cpp, the default flow-size-distribution strategy: the   *)
(* pairs of end points seen in the capture are numbered, the packets of each flow are *)
(* counted in every sub-interval, and a window slides over these counts.  The         *)
(* handler is one function; its phases, and the turns of its last loop, are actions.  *)
(* (Its array flow_counter is written and never read, and is left out.)               *)
(*************************************************************************************)
EXTENDS Tally, Sequences

CONSTANTS
  NumAddr,             \* NUM_ADDR
  NumFlows,            \* NUM_FLOWS, the length of the arrays of flows
  NumSamples,          \* NUM_SAMPLES, the rows of flow_bytes
  NumIntervals,        \* num_intervals
  FirstWindow          \* the macro NUM_SUBINTERVALS, which the first window uses

ASSUME FlowAssumption ==
  /\ NumAddr \in Nat \ {0}
  /\ NumFlows \in Nat \ {0, 1}
  /\ NumIntervals \in Nat
  /\ FirstWindow \in 1 .. NumIntervals
  /\ NumSamples \in Nat \ {0}
  /\ FirstWindow <= NumSamples

VARIABLES
  num_subintervals,   \* the sub-intervals of a window, an option that nothing changes
  fsd_traces,      \* the packets of each sub-interval: records with src and dst
  phase,           \* where fsd_prepare() is
  flows,           \* the number of the flow between two end points
  num_flows,
  flow_bytes,      \* the packets of each flow in each sub-interval
  t,               \* the variable j of the last loop: the window ends before t
  flow_size,       \* the packets of each flow so far
  flow_size_sub,   \* the packets of each flow in the window
  ent_fsd          \* the terms of the entropy of each window

flowVars == <<phase, flows, num_flows, flow_bytes, t, flow_size, flow_size_sub, ent_fsd>>

Slots == 0 .. NumIntervals
Addr == 0 .. NumAddr - 1
FlowIds == 0 .. num_flows - 1
NoTerms == [terms |-> << >>, over |-> 0, count |-> 0]
-------------------------------------------------------------------------------------
\* The pairs that a packet has gone between, in one direction or the other.
Marked ==
  {p \in Addr \X Addr :
     \E i \in Slots : \E k \in 1 .. Len(fsd_traces[i]) :
        {p[1], p[2]} = {fsd_traces[i][k].src, fsd_traces[i][k].dst}}

\* The pairs that the two nested loops meet, a < b, and their order.
UpperClosed(P) == {p \in P : p[1] <= p[2]}   \* mistake: j starts at i
Upper(P) == {p \in P : p[1] < p[2]}
Before(p, q) == p[1] < q[1] \/ (p[1] = q[1] /\ p[2] < q[2])
RowRank(p) == Cardinality({q \in Upper(Marked) : q[1] < p[1]})   \* mistake: one per row
Rank(p) == Cardinality({q \in Upper(Marked) : Before(q, p)})

\* The number that the loops leave for a pair.  They do not visit the diagonal, which
\* keeps the mark 1 of a packet whose end points have the same number.
FlowOf(a, b) ==
  IF a = b THEN IF <<a, b>> \in Marked THEN 1 ELSE 0
  ELSE IF <<a, b>> \in Marked THEN IF a < b THEN Rank(<<a, b>>) ELSE Rank(<<b, a>>)
  ELSE -1

\* The packets of sub-interval i that are counted in flow n.
Carried(i, n) ==
  {k \in 1 .. Len(fsd_traces[i]) : flows[<<fsd_traces[i][k].src, fsd_traces[i][k].dst>>] = n}

\* The packets of flow n in a set of sub-intervals.
Packets(S, n) == Tally(S, [i \in Slots |-> flow_bytes[i][n]])
-------------------------------------------------------------------------------------
InitFlows ==
  /\ phase = "assign"
  /\ flows = [p \in Addr \X Addr |-> 0]
  /\ num_flows = 0
  /\ flow_bytes = << >>
  /\ t = 0
  /\ flow_size = << >>
  /\ flow_size_sub = << >>
  /\ ent_fsd = [i \in Slots |-> NoTerms]

\* 1. and 2.: mark the pairs, number the flows.
AssignFlowIds ==
  /\ phase = "assign"
  /\ num_flows' = Cardinality(Upper(Marked))
  /\ flows' = [p \in Addr \X Addr |-> FlowOf(p[1], p[2])]
  /\ phase' = IF num_flows' > NumFlows THEN "overrun" ELSE "count"
  /\ UNCHANGED <<fsd_traces, flow_bytes, t, flow_size, flow_size_sub, ent_fsd>>

\* 3.: the packets of each flow in each sub-interval.
Beyond == \E i \in Slots : i >= NumSamples /\ fsd_traces[i] # << >>

CountFlows ==
  /\ phase = "count"
  /\ flow_bytes' = [i \in Slots |->
                      [n \in 0 .. NumFlows - 1 |-> Cardinality(Carried(i, n))]]
  /\ phase' = IF Beyond THEN "overrun" ELSE "first"
  /\ UNCHANGED <<fsd_traces, flows, num_flows, t, flow_size, flow_size_sub, ent_fsd>>

\* 4.: the sizes in the first window.
SizeFirstWindow ==
  /\ phase = "first"
  /\ t' = FirstWindow
  /\ flow_size' = [n \in FlowIds |-> Packets(0 .. FirstWindow - 1, n)]
  /\ flow_size_sub' = [n \in FlowIds |-> Packets(0 .. FirstWindow - 1, n)]
  /\ phase' = "sliding"
  /\ UNCHANGED <<fsd_traces, flows, num_flows, flow_bytes, ent_fsd>>

\* The flows that have packets in the window, the size of each being that of all its
\* packets so far; the entropy is normalised by the number of flows of the capture.
FlowTerms ==
  LET active == {n \in FlowIds : flow_size_sub[n] # 0}
  IN  [terms |-> [n \in active |-> flow_size[n]], over |-> Tally(active, flow_size),
       count |-> num_flows]

\* The first sub-interval of the window that is evaluated, by how much the size of flow n
\* in the window changes when it moves on, and j++.
EndOfWindow == t   \* mistake: the result is stored at the window's end
WindowStart == t - num_subintervals
NeverLeaves(n) == flow_bytes[t][n]                             \* mistake: no removal
Moved(n) == flow_bytes[t][n] - flow_bytes[t - num_subintervals][n]
NextIfActive ==   \* mistake: j++ only when num_bytes > 0, the case that divides
  IF \E n \in FlowIds : flow_size_sub[n] # 0 THEN t + 1 ELSE t
NextTurn == t + 1

\* 5.: evaluate the window that ends before t, then move it on.
SlideFlows ==
  /\ phase = "sliding"
  /\ t < NumIntervals - num_subintervals
  /\ t >= num_subintervals
  /\ t < NumSamples
  /\ ent_fsd' = [ent_fsd EXCEPT ![WindowStart] = FlowTerms]
  /\ flow_size' = [n \in FlowIds |-> flow_size[n] + flow_bytes[t][n]]
  /\ flow_size_sub' = [n \in FlowIds |-> flow_size_sub[n] + Moved(n)]
  /\ t' = NextTurn
  /\ UNCHANGED <<fsd_traces, phase, flows, num_flows, flow_bytes>>

\* The window is longer than the first one, and index t - num_subintervals is negative, or
\* there are more sub-intervals than rows: what the program does next is undefined.
ReadOutside ==
  /\ phase = "sliding"
  /\ t < NumIntervals - num_subintervals
  /\ t < num_subintervals \/ t >= NumSamples
  /\ phase' = "overrun"
  /\ UNCHANGED <<fsd_traces, flows, num_flows, flow_bytes, t, flow_size, flow_size_sub,
                 ent_fsd>>

FlowsDone ==
  /\ phase = "sliding"
  /\ t >= NumIntervals - num_subintervals
  /\ phase' = "done"
  /\ UNCHANGED <<fsd_traces, flows, num_flows, flow_bytes, t, flow_size, flow_size_sub,
                 ent_fsd>>

NextFlows == \/ AssignFlowIds \/ CountFlows \/ SizeFirstWindow
             \/ SlideFlows \/ ReadOutside \/ FlowsDone

\* Any traces may have come out of the capture, and the window may have any length.
TracesOK ==
  /\ DOMAIN fsd_traces = Slots
  /\ \A i \in Slots : Len(fsd_traces[i]) \in Nat
  /\ \A i \in Slots : \A k \in 1 .. Len(fsd_traces[i]) :
       fsd_traces[i][k].src \in Addr /\ fsd_traces[i][k].dst \in Addr

tableVars == <<num_subintervals, fsd_traces, flowVars>>

SpecFlows ==
  /\ TracesOK /\ num_subintervals \in Nat \ {0}
  /\ InitFlows
  /\ [][NextFlows /\ UNCHANGED num_subintervals]_tableVars
-------------------------------------------------------------------------------------
(* Properties.                                                                        *)

Counting == phase \in {"first", "sliding", "done"}

Traces(i) == {fsd_traces[i][k] : k \in 1 .. Len(fsd_traces[i])}
AllTraces == UNION {Traces(i) : i \in Slots}

\* Of the packets between different end points, two are in the same flow just when
\* they go between the same two, in either direction; and every flow number below
\* num_flows is in use (the numbering loops of fsd_prepare).
FlowNumbersExact ==
  Counting =>
    LET proper == {r \in AllTraces : r.src # r.dst}
    IN  /\ \A r, s \in proper :
             flows[<<r.src, r.dst>>] = flows[<<s.src, s.dst>>] <=> {r.src, r.dst} = {s.src, s.dst}
        /\ {flows[<<r.src, r.dst>>] : r \in proper} = FlowIds

\* A flow number stands for one pair of end points, whatever the pair.
EveryFlowNumbered ==
  Counting =>
    \A r, s \in AllTraces :
      flows[<<r.src, r.dst>>] = flows[<<s.src, s.dst>>] <=> {r.src, r.dst} = {s.src, s.dst}

\* The arrays are only left when the capture has more flows than they are long, or the
\* window is set longer than the one that the macro fixes for the first, or, with fewer
\* rows than sub-intervals, the spare one included, a packet or a window is beyond the
\* last row.
OverrunOnlyWhenTooLong ==
  phase = "overrun" =>
    \/ FirstWindow < num_subintervals
    \/ Cardinality({{r.src, r.dst} : r \in {s \in AllTraces : s.src # s.dst}}) > NumFlows
    \/ NumSamples < Cardinality(Slots) /\ (Beyond \/ t >= NumSamples)

\* The packets of flow n in each sub-interval, as the traces say.
Genuine(n) == [i \in Slots |-> Cardinality(Carried(i, n))]

\* A flow's running size is that of all its packets before t, and its size in the
\* window that of the last num_subintervals sub-intervals, together with those of the
\* first window, when that one is longer, which are never taken away.
FlowSizesExact ==
  phase = "sliding" /\ t >= num_subintervals =>
    \A n \in FlowIds :
      /\ flow_size[n] = Tally(0 .. t - 1, Genuine(n))
      /\ flow_size_sub[n] = Tally((t - num_subintervals) .. t - 1, Genuine(n))
                              + Tally(0 .. FirstWindow - num_subintervals - 1, Genuine(n))

\* The entropy that the window at i should have: its flows are those with a packet in one
\* of its sub-intervals, or of those that are never taken away, and the term of each is the
\* number of all its packets up to the end of the window.
Window(i) == (i .. i + num_subintervals - 1) \cup (0 .. FirstWindow - num_subintervals - 1)
Entropy(i) ==
  LET active == {n \in FlowIds : \E k \in Window(i) : Carried(k, n) # {}}
      sizes  == [n \in active |-> Tally(0 .. i + num_subintervals - 1, Genuine(n))]
  IN  [terms |-> sizes, over |-> Tally(active, sizes), count |-> num_flows]

\* The loop over the windows begins at the first window that ends with that of the macro,
\* and stops a whole window before process_entropy() does; each window in between, an empty
\* one too, gets the entropy of its own flows, and no other gets any.
FlowWindowsEvaluated ==
  phase = "done" =>
    LET first == FirstWindow - num_subintervals
        last  == NumIntervals - 2 * num_subintervals - 1
    IN  \A i \in Slots : ent_fsd[i] = IF i \in first .. last THEN Entropy(i) ELSE NoTerms
=====================================================================================
