------------------------------- MODULE SlidingWindow -------------------------------
(***********************************************************************************)
(* process_entropy() and print_result() of process_entropy.cpp: a window of          *)
(* NumSubintervals sub-intervals slides over the counters; at each position the      *)
(* probabilities that make up every entropy are computed, then the running totals    *)
(* of the window are moved on by one sub-interval.                                   *)
(*                                                                                  *)
(* An entropy is represented by the terms given to Entropy::Add: the numerators, by  *)
(* sub-interval or by vector element, over their common denominator.                 *)
(***********************************************************************************)
EXTENDS Intervals

CONSTANTS
  NumIntervals,      \* num_intervals
  NumSubintervals,   \* num_subintervals
  ByteMode,          \* use_byte_entropy
  IntLimit           \* the ints of the program are -IntLimit .. IntLimit - 1

\* A window that does not fit in the vector would be read out of its bounds.
ASSUME WindowAssumption ==
  /\ NumIntervals \in Nat
  /\ NumSubintervals \in 1 .. NumIntervals
  /\ ByteMode \in BOOLEAN
  /\ IntLimit \in Nat \ {0}

VARIABLES
  intervals,       \* the counters of the sub-intervals, which stay as they are
  ent_fsd,         \* the entropies of the flow table, which are there before the loop
  stage,           \* "prepare", "sliding" or "done"
  j,               \* the window is j .. j + NumSubintervals - 1
  total,           \* total_packets, total_syn, total_df, total_bytes
  t_total_bytes,   \* the bytes reported at the end
  result,          \* the ent_ and tot_ fields of the sub-intervals
  output           \* what print_result() writes for each sub-interval

slidingVars == <<stage, j, total, t_total_bytes, result, output>>
windowVars == <<intervals, ent_fsd, slidingVars>>

Slots == 0 .. NumIntervals
-------------------------------------------------------------------------------------
\* The sub-intervals of the window at n, and what they hold together in one cell.
Window(n) == n .. n + NumSubintervals - 1
Column(c) == [i \in Slots |-> intervals[i][c]]
WindowSum(n, c) == Tally(Window(n), Column(c))

\* Conversion to a machine int.
Wrap(x) == ((x + IntLimit) % (2 * IntLimit)) - IntLimit

\* The terms of an entropy: the numerators that are not zero, over their denominator.
Terms(num, den) ==
  [terms |-> [i \in {k \in DOMAIN num : num[k] # 0} |-> num[i]], over |-> den]

\* An entropy to which nothing was added.
NoTerms == [terms |-> << >>, over |-> 0]

\* Mistake: empty sub-intervals have terms too.
AllSubintervalTerms(f) ==
  [terms |-> [i \in Window(j) |-> intervals[i][<<f, 0>>]], over |-> total[f]]

\* The terms over the sub-intervals of the window that hold a packet.
SubintervalTerms(f) ==
  LET busy == {i \in Window(j) : intervals[i][<<"num_packets", 0>>] # 0}
  IN  [terms |-> [i \in busy |-> intervals[i][<<f, 0>>]], over |-> total[f]]

\* Mistake: the denominator is chosen the wrong way round.
MisscaledTerms(h) ==
  IF total["num_packets"] > 0
  THEN Terms([b \in Elements(h) |-> WindowSum(j, <<h, b>>)],
             IF ~ByteMode THEN total["num_bytes"] ELSE total["num_packets"])
  ELSE NoTerms

\* The terms over the elements of a vector, in the window.
ElementTerms(h) ==
  IF total["num_packets"] > 0
  THEN Terms([b \in Elements(h) |-> WindowSum(j, <<h, b>>)],
             IF h # "num_packet_sizes" /\ ByteMode THEN total["num_bytes"]
                                                   ELSE total["num_packets"])
  ELSE NoTerms

Vectors == Histograms \cup {"num_packet_sizes"}

\* The fields of a sub-interval before its window was evaluated, and after.
Blank == [ent |-> << >>, tot_pktnum |-> 0, tot_syn |-> 0]

Evaluated ==
  [ ent        |-> [h \in Vectors \cup {"num_packets", "num_bytes", "num_df"} |->
                      IF h \in Vectors THEN ElementTerms(h) ELSE SubintervalTerms(h)],
    tot_pktnum |-> total["num_packets"],
    tot_syn    |-> total["num_syn"] ]
-------------------------------------------------------------------------------------
InitWindow ==
  /\ stage = "prepare"
  /\ j = 0
  /\ total = [f \in Scalars |-> 0]
  /\ t_total_bytes = 0
  /\ result = [i \in Slots |-> Blank]
  /\ output = << >>

\* The totals of the first window.
Prepare ==
  /\ stage = "prepare"
  /\ stage' = "sliding"
  /\ total' = [f \in Scalars |-> WindowSum(0, <<f, 0>>)]
  /\ t_total_bytes' = Wrap(WindowSum(0, <<"num_bytes", 0>>))
  /\ UNCHANGED <<intervals, ent_fsd, j, result, output>>

\* j1: the sub-interval that the window gains when it moves on.
LastInside == j + NumSubintervals - 1   \* mistake: off by one
Entering == j + NumSubintervals

\* One turn of the loop: evaluate the window, then move it on.
Slide ==
  /\ stage = "sliding"
  /\ j < NumIntervals - NumSubintervals
  /\ result' = [result EXCEPT ![j] = Evaluated]
  /\ total' = [f \in Scalars |->
                 total[f] + (intervals[Entering][<<f, 0>>] - intervals[j][<<f, 0>>])]
  /\ t_total_bytes' = Wrap(t_total_bytes + intervals[Entering][<<"num_bytes", 0>>])
  /\ j' = j + 1
  /\ UNCHANGED <<intervals, ent_fsd, stage, output>>

\* print_result(): a value for each sub-interval but the spare one; num_df.txt gets
\* the integer quotient of num_df and num_packets.
PrintResult ==
  /\ stage = "sliding"
  /\ j = NumIntervals - NumSubintervals
  /\ stage' = "done"
  /\ output' =
       [i \in Slots \ {NumIntervals} |->
          [ window |-> result[i],
            fsd    |-> ent_fsd[i],
            num_df |-> LET n == intervals[i][<<"num_packets", 0>>]
                       IN  intervals[i][<<"num_df", 0>>] \div (IF n > 1 THEN n ELSE 1) ]]
  /\ UNCHANGED <<intervals, ent_fsd, j, total, t_total_bytes, result>>

NextWindow == Prepare \/ Slide \/ PrintResult

\* Any table of counters may have come out of the capture.
SpecWindow ==
  /\ intervals \in [Slots -> [Cells -> Nat]]
  /\ InitWindow
  /\ [][NextWindow]_windowVars
-------------------------------------------------------------------------------------
(* Properties.                                                                       *)

\* The running totals are those of the window that is evaluated next, although each
\* step only adds one sub-interval and takes one away ("remove 3, add 6").
TotalsTrackWindow ==
  stage # "prepare" => \A f \in Scalars : total[f] = WindowSum(j, <<f, 0>>)

\* The number of bytes printed is that of all the sub-intervals but the spare one,
\* as far as a machine int can hold it.
GrandTotal ==
  stage = "done" =>
    t_total_bytes = Wrap(Tally(Slots \ {NumIntervals}, Column(<<"num_bytes", 0>>)))

=====================================================================================
