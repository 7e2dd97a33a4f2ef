-------------------------------- MODULE RecentFlows --------------------------------
(***********************************************************************************)
(* process_entropy() with the strategy MyFsd of fsd.cpp (--fsd1): a list of the flows   *)
(* seen lately, each with the bytes that count for it.  When a flow is seen again, what *)
(* has left its window is taken away; a flow not seen for a window's length is erased   *)
(* when the list is searched.  fsd_prepare() treats the first window, and each turn of   *)
(* the loop one sub-interval more.                                                      *)
(*                                                                                  *)
(* fsd_update_recent(i) treats the packets of sub-interval i one after the other: one   *)
(* action each.  A flow is known by its hash.                                          *)
(***********************************************************************************)
EXTENDS SlidingWindow, Sequences

VARIABLES
  fsd_traces,    \* the packets of each sub-interval: [h, size]
  phase,         \* "update", "turn" or "evaluate"
  i,             \* the sub-interval that is treated
  k,             \* how many of its packets have been treated
  recent_fsd     \* the list: [h, last_seen, value]

recentVars == <<fsd_traces, phase, i, k, recent_fsd>>
vars == <<windowVars, recentVars>>

\* The entropy of flows, which has a count, before a window is evaluated.
NoFlows == [terms |-> << >>, over |-> 0, count |-> 0]
-------------------------------------------------------------------------------------
\* The packets of flow h in sub-interval n, and the bytes of the first of them: the
\* search for what to take away ends there.
Positions(n, h) == {m \in 1 .. Len(fsd_traces[n]) : fsd_traces[n][m].h = h}
FirstSize(n, h) ==
  IF Positions(n, h) = {} THEN 0
  ELSE fsd_traces[n][CHOOSE m \in Positions(n, h) : \A l \in Positions(n, h) : m <= l].size

\* The sub-intervals to take away from r when it is seen again in sub-interval i.
LapsedAll(r) ==   \* mistake: up to where it was last seen
  {n \in Slots : r.last_seen - NumSubintervals <= n /\ n < r.last_seen}
LapsedLess(r) ==   \* mistake: one too few
  {n \in Slots : r.last_seen - NumSubintervals <= n /\ n < r.last_seen
                 /\ n < i - NumSubintervals - 1}
Lapsed(r) ==
  {n \in Slots : r.last_seen - NumSubintervals <= n /\ n < r.last_seen
                 /\ n < i - NumSubintervals}

\* The entry r after a packet s of its flow.
Renewed(r, s) ==
  [h |-> r.h, last_seen |-> i,
   value |-> r.value - Tally(Lapsed(r), [n \in Slots |-> FirstSize(n, r.h)]) + s.size]

StaleSoon(r) == r.last_seen + NumSubintervals <= i   \* mistake: <= for <
Stale(r) == r.last_seen + NumSubintervals < i

\* The entries before that of the flow of s, and the place of that, which may be behind the
\* last one.
Before(s) == {n \in 1 .. Len(recent_fsd) : \A m \in 1 .. n : recent_fsd[m].h # s.h}
Place(s) == Cardinality(Before(s)) + 1

\* The places in use after a packet s: the entries before the flow's own are kept unless
\* they are stale, those after it are not looked at.
Kept(s) == {n \in 1 .. Len(recent_fsd) : n \in Before(s) => ~Stale(recent_fsd[n])}
             \cup {Place(s)}

\* The entry of the flow of s after it; a flow without an entry gets one.
Latest(s) ==
  IF Place(s) <= Len(recent_fsd) THEN Renewed(recent_fsd[Place(s)], s)
                                 ELSE [h |-> s.h, last_seen |-> i, value |-> s.size]

\* The elements of a set of numbers in their order, and the list after a packet s.
InOrder(P) ==
  CHOOSE f \in [1 .. Cardinality(P) -> P] : \A m, n \in 1 .. Cardinality(P) : m < n => f[m] < f[n]
Moved(s, n) == IF n = Place(s) THEN Latest(s) ELSE recent_fsd[n]
After(s) == [m \in 1 .. Cardinality(Kept(s)) |-> Moved(s, InOrder(Kept(s))[m])]

\* all_fsd, filled while the capture was read.
all_fsd == UNION {{fsd_traces[n][m].h : m \in 1 .. Len(fsd_traces[n])} : n \in Slots}

\* What MyFsd::fsd_update() makes of the list.
ListTerms ==
  LET value == [n \in 1 .. Len(recent_fsd) |-> recent_fsd[n].value]
  IN  [terms |-> recent_fsd, over |-> Tally(DOMAIN value, value),
       count |-> Cardinality(all_fsd)]
-------------------------------------------------------------------------------------
InitRecent ==
  /\ InitWindow
  /\ phase = "update"
  /\ i = 0
  /\ k = 0
  /\ recent_fsd = << >>
  /\ ent_fsd = [n \in Slots |-> NoFlows]

\* process_entropy() up to fsd_prepare().
PrepareTotals == Prepare /\ UNCHANGED recentVars

\* One packet of fsd_update_recent(i).
UpdateRecent ==
  /\ stage = "sliding" /\ phase = "update"
  /\ k < Len(fsd_traces[i])
  /\ k' = k + 1
  /\ recent_fsd' = After(fsd_traces[i][k + 1])
  /\ UNCHANGED <<fsd_traces, phase, i, windowVars>>

\* The sub-interval is finished: the next one is another of fsd_prepare(), or a turn of
\* the loop of process_entropy() begins.
NextInterval ==
  /\ stage = "sliding" /\ phase = "update"
  /\ k = Len(fsd_traces[i])
  /\ k' = 0
  /\ i' = i + 1
  /\ phase' = IF i + 1 < NumSubintervals THEN "update" ELSE "turn"
  /\ UNCHANGED <<fsd_traces, recent_fsd, windowVars>>

\* A turn of the loop, which ends with fsd_update(i) ...
SlideTotals ==
  /\ phase = "turn"
  /\ Slide
  /\ phase' = "evaluate"
  /\ UNCHANGED <<fsd_traces, i, k, recent_fsd>>

\* ... of MyFsd: first the entropy of the window that ends before i.
Evaluate ==
  /\ phase = "evaluate"
  /\ phase' = "update"
  /\ ent_fsd' = [ent_fsd EXCEPT ![i - NumSubintervals] = ListTerms]
  /\ UNCHANGED <<fsd_traces, i, k, recent_fsd, intervals, slidingVars>>

PrintRecent == phase = "turn" /\ PrintResult /\ UNCHANGED recentVars

NextRecent ==
  PrepareTotals \/ UpdateRecent \/ NextInterval \/ SlideTotals \/ Evaluate \/ PrintRecent

\* Any packets may have come out of the capture.
TracesOK ==
  /\ DOMAIN fsd_traces = Slots
  /\ \A n \in Slots : Len(fsd_traces[n]) \in Nat
  /\ \A n \in Slots : \A m \in 1 .. Len(fsd_traces[n]) : fsd_traces[n][m].size \in Nat

SpecRecent ==
  /\ TracesOK /\ intervals \in [Slots -> [Cells -> Nat]]
  /\ InitRecent
  /\ [][NextRecent]_vars
-------------------------------------------------------------------------------------
(* Properties.                                                                       *)

\* The packets of flow h treated so far, and their bytes in the sub-intervals of S.
Treated(n, h) == {m \in Positions(n, h) : n < i \/ (n = i /\ m <= k)}
Bytes(h, S) ==
  LET packets == UNION {{n} \X Treated(n, h) : n \in S \cap Slots}
  IN  Tally(packets, [p \in packets |-> fsd_traces[p[1]][p[2]].size])

Seen(h) == {n \in Slots : Treated(n, h) # {}}
Entries(h) == {r \in {recent_fsd[n] : n \in 1 .. Len(recent_fsd)} : r.h = h}

\* A flow that so far sent at most one packet in each sub-interval, and was never
\* silent for longer than a window.
Steady(h) ==
  /\ \A n \in Slots : Cardinality(Treated(n, h)) <= 1
  /\ \A n, m \in Seen(h) : n < m /\ (\A l \in Seen(h) : l <= n \/ l >= m) =>
                           m - n <= NumSubintervals

\* A flow has at most one entry, and has one, which says when it was last seen, as long
\* as that was not more than a window ago: the entries erased while the list was
\* searched for another flow were old ones.
RecentFlowsListed ==
  /\ \A n, m \in 1 .. Len(recent_fsd) : n # m => recent_fsd[n].h # recent_fsd[m].h
  /\ \A h \in all_fsd : \A n \in Seen(h) :
       n >= i - NumSubintervals => \E r \in Entries(h) : r.last_seen >= n

\* The value of a flow is never less than its bytes in the window that ends where it was
\* last seen, and never more than all its bytes: nothing is taken away twice.
NeverUnderstated ==
  \A h \in all_fsd : \A r \in Entries(h) :
    /\ r.value >= Bytes(h, r.last_seen - NumSubintervals .. r.last_seen)
    /\ r.value <= Bytes(h, Slots)

\* For a steady flow it is exactly those bytes: one sub-interval more than a window.  (Of
\* other flows more is left: all packets but the first of a sub-interval, and everything
\* from before a silence.)
SteadyFlowsExact ==
  \A h \in all_fsd : \A r \in Entries(h) :
    Steady(h) => r.value = Bytes(h, r.last_seen - NumSubintervals .. r.last_seen)

\* The entropy of a window has a term for each flow that has a packet in it, no smaller
\* than the flow's bytes in the window.
WindowFlowsCovered ==
  \A n \in Slots : n + NumSubintervals < i \/ (n + NumSubintervals = i /\ phase = "update") =>
    \A h \in all_fsd :
      LET bytes == Bytes(h, n .. n + NumSubintervals - 1)
      IN  bytes > 0 => \E m \in 1 .. Len(ent_fsd[n].terms) :
                         /\ ent_fsd[n].terms[m].h = h
                         /\ ent_fsd[n].terms[m].value >= bytes
=====================================================================================
