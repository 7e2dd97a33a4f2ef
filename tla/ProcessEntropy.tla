------------------------------- MODULE ProcessEntropy -------------------------------
(***********************************************************************************)
(* main() of process_entropy.cpp, from parse_pcap() on, with the default flow table:  *)
(* the capture is read, the totals of the first window are made, the flow table is    *)
(* prepared, the window slides to its end and the result is written.  Fsd2 does       *)
(* nothing in the fsd_update() of each turn.                                          *)
(***********************************************************************************)
EXTENDS Capture

CONSTANTS
  IntLimit,      \* the ints of the program are -IntLimit .. IntLimit - 1
  NumFlows,      \* NUM_FLOWS
  NumSamples,    \* NUM_SAMPLES
  FirstWindow    \* the macro NUM_SUBINTERVALS

\* The windows, that of the macro too, fit into the range, or the vectors would be read
\* out of their bounds; the two constants of SlidingWindow and FlowTable that are left.
ASSUME ProgramAssumption ==
  /\ IntLimit \in Nat \ {0}
  /\ NumFlows \in Nat \ {0, 1}
  /\ NumSamples \in Nat
  /\ NumSubintervals <= num_intervals
  /\ FirstWindow \in 1 .. num_intervals
  /\ FirstWindow <= NumSamples

VARIABLES
  stage, j, total, t_total_bytes, result, output,                        \* SlidingWindow
  phase, flows, num_flows, flow_bytes, t, flow_size, flow_size_sub, ent_fsd  \* FlowTable

W == INSTANCE SlidingWindow WITH NumIntervals <- num_intervals
F == INSTANCE FlowTable WITH NumIntervals <- num_intervals,
                            num_subintervals <- NumSubintervals

slidingVars == <<stage, j, total, t_total_bytes, result, output>>
flowVars == <<phase, flows, num_flows, flow_bytes, t, flow_size, flow_size_sub, ent_fsd>>
vars == <<captureVars, slidingVars, flowVars>>
-------------------------------------------------------------------------------------
InitProgram == Init /\ W!InitWindow /\ F!InitFlows

\* parse_pcap(); if it fails, main() returns.
Parse == Next /\ UNCHANGED <<slidingVars, flowVars>>

\* process_entropy() up to fsd_prepare().
PrepareWindow ==
  /\ pc = "parsed"
  /\ W!Prepare
  /\ UNCHANGED <<captureVars, flowVars>>

\* fsd_prepare().
PrepareFlows ==
  /\ stage = "sliding"
  /\ F!NextFlows
  /\ UNCHANGED <<captureVars, slidingVars>>

\* The loop of process_entropy(), and print_result().
SlideWindow ==
  /\ phase = "done"
  /\ W!Slide \/ W!PrintResult
  /\ UNCHANGED <<captureVars, flowVars>>

NextProgram == Parse \/ PrepareWindow \/ PrepareFlows \/ SlideWindow

\* The program is one thread and never waits: it goes on until it ends.
SpecProgram == InitProgram /\ [][NextProgram]_vars /\ WF_vars(NextProgram)
-------------------------------------------------------------------------------------
(* Properties.                                                                       *)

Evaluated == {n \in Slots : result[n] # W!Blank}

\* The sum of the numerators of an entropy.
Mass(e) == Tally(DOMAIN e.terms, e.terms)

\* In every window that was evaluated the numerators of each entropy add up to its
\* denominator, in bytes or in packets as the mode says, and none is zero unless the
\* code lets it be: the packets too large for the table of sizes are missing from that
\* one, and packets without the DF flag have a numerator 0 in that.
TermsAreDistributions ==
  \A n \in Evaluated : \A h \in DOMAIN result[n].ent :
    LET e == result[n].ent[h]
        large == {k \in Wanted : /\ Slot(TimeOf(k)) \in n .. n + NumSubintervals - 1
                                 /\ k <= pos
                                 /\ capture[k].frame.len >= NumSizes}
    IN  /\ Mass(e) + (IF h = "num_packet_sizes" THEN Cardinality(large) ELSE 0) = e.over
        /\ h # "num_df" => \A i \in DOMAIN e.terms : e.terms[i] # 0

\* The records counted in the window at n, and the number of the flow of a record.
InWindow(n) ==
  {k \in Wanted : k <= pos /\ Slot(TimeOf(k)) \in n .. n + NumSubintervals - 1}
FlowOf(k) == flows[<<Trace(capture[k].frame).src, Trace(capture[k].frame).dst>>]

\* What the flow table and what the loop of the entropies write into one row is about the
\* same records, when all windows are equally long: the packets counted are those of the
\* window, and the flows that have a term are the flows of just these packets.  (A packet
\* whose end points have the same number may be in no flow.)
WindowsAligned ==
  stage = "done" /\ FirstWindow = NumSubintervals =>
    \A n \in 0 .. num_intervals - 2 * NumSubintervals - 1 :
      /\ output[n].window.tot_pktnum = Cardinality(InWindow(n))
      /\ DOMAIN output[n].fsd.terms = {FlowOf(k) : k \in InWindow(n)} \cap F!FlowIds

\* process_entropy.cpp:225 "calculate entropy for each window": every window that lies
\* in the analysed range is evaluated.
EachWindowEvaluated ==
  stage = "done" =>
    \A n \in 0 .. num_intervals - NumSubintervals : result[n] # W!Blank

\* The program ends: with its files written, or because the file cannot be opened, or
\* where its behaviour is undefined.
ProgramTerminates ==
  <>(stage = "done" \/ pc \in {"failed", "stray"} \/ phase = "overrun")

\* The program keeps the promise of EntropyReport.
Report == INSTANCE EntropyReport WITH
  NumIntervals <- num_intervals,
  packets <- [k \in {m \in Wanted : m <= pos /\ Slot(TimeOf(m)) \in Slots} |->
                [slot |-> Slot(TimeOf(k)),
                 adds |-> [c \in Cells |-> Share(capture[k].frame, c)]]],
  reports <- [n \in 1 .. j |-> result[n - 1]],
  written <- [n \in DOMAIN output |-> output[n].window]

ReportSpec == Report!ReportSpec
=====================================================================================
