------------------------------------ MODULE Sweep ------------------------------------
(***********************************************************************************)
(* The evaluation of a detector: for every threshold, the samples of each attack are   *)
(* searched for a detection, and those between it and the next attack for a false      *)
(* alarm; then one of the attacks is followed through all the thresholds.              *)
(*                                                                                  *)
(* There are two scripts.  ddos_cusum2_i3_delay.m ("i3") knows when an attack ends;     *)
(* ddos_cusum2_i5_delay.m ("i5") knows only when it starts, takes nine tenths of the    *)
(* time to the next one for it, and expects a fixed number of them.                    *)
(*                                                                                  *)
(* What detect_cusum.m computes is abstracted to the level of a sample, the number of   *)
(* thresholds that it exceeds: it exceeds entropy_filt2, which is positive, multiplied  *)
(* by each of the thresholds up to some point.                                         *)
(***********************************************************************************)
EXTENDS Integers, Sequences, FiniteSets, FiniteSetsExt

CONSTANTS
  TicksPerSecond,   \* the resolution of the attack times
  Subintervals,     \* subintervals: samples in a second
  Samples,          \* n
  Thresholds,       \* the number of thresholds, which are 0, 1, ...
  FixedAttacks,     \* the number of attacks that i5 expects
  AttackTimes       \* the files that may be given: sequences of [start, end]

ASSUME SweepAssumption ==
  /\ {TicksPerSecond, Subintervals, Samples, Thresholds, FixedAttacks} \subseteq Nat \ {0}
  /\ AttackTimes \subseteq Seq([start : Nat, end : Nat])
  /\ \A ts \in AttackTimes :
       /\ ts # << >>
       /\ \A i \in 1 .. Len(ts) : ts[i].start < ts[i].end
       /\ \A i \in 1 .. Len(ts) - 1 : ts[i].end <= ts[i + 1].start

VARIABLES
  script,           \* "i3" or "i5"
  level,            \* the thresholds each sample exceeds
  attacks,          \* attack_start_times and attack_end_times
  phase,            \* "sweep", "sample", "done" or "error"
  th,               \* th1
  i,                \* the attack, in the sweep
  entropy_tp_count,
  entropy_fp_count,
  tot_delay,        \* in samples: multiplied by Subintervals
  sampleAttack,
  tpplot, fpplot,   \* the results for each threshold,
  delays,           \*   the totals that mdelay has the means of
  sdelay            \*   sample_delay, multiplied by TicksPerSecond and Subintervals

inputs == <<script, level, attacks>>
results == <<tpplot, fpplot, delays>>
sweepVars == <<inputs, phase, th, i, entropy_tp_count, entropy_fp_count, tot_delay,
               sampleAttack, results, sdelay>>

numAttacks == IF script = "i3" THEN Len(attacks) ELSE FixedAttacks
-------------------------------------------------------------------------------------
\* floor(t*subintervals), t in seconds.
Sample(t) == (t * Subintervals) \div TicksPerSecond
\* floor(t)*subintervals
SecondsAfter(t) ==   \* mistake: rounded up
  ((t + TicksPerSecond - 1) \div TicksPerSecond) * Subintervals
WholeSeconds(t) == (t \div TicksPerSecond) * Subintervals

Detected(j) == level[j] > th

\* The first sample of a range that is a detection: none (0), or an index that is too
\* large when the search comes to the end of the samples before (n + 1).
FirstHit(range) ==
  LET hits == {j \in range : j > Samples \/ Detected(j)}
  IN  IF hits = {} THEN 0 ELSE Min(hits)

\* The bounds of the attack that is looked at: a, b and b1.
a(k) == Sample(attacks[k].start)
NextStart(k) == IF k < numAttacks THEN Sample(attacks[k + 1].start) ELSE Samples
b(k) == IF script = "i3" THEN Min({Samples, NextStart(k)}) ELSE NextStart(k)

\* n1, where i5 takes an attack to end.
NineTenths(k) == a(k) + (9 * (b(k) - a(k))) \div 10
b1(k) == IF script = "i3" THEN Sample(attacks[k].end) ELSE NineTenths(k)

AttackRange(k) == a(k) + 1 .. b1(k)
QuietToNext(k) == b1(k) + 1 .. b(k)   \* mistake: the next attack's beginning included
QuietRange(k) == b1(k) + 1 .. b(k) - 1

\* The range in which sampleAttack is followed; that of i3 ends at a whole second.
SampleRange ==
  a(sampleAttack) + 1 .. IF script = "i3" THEN WholeSeconds(attacks[sampleAttack].end)
                                          ELSE b1(sampleAttack)

\* i5 adds a second to each delay.
Delay(k, j) == (IF script = "i3" THEN 0 ELSE Subintervals) + j - a(k)

\* An attack, or the next one, that is not in the file; a sample that there is not.  (The
\* quiet range of i3 ends before n.)
NoAttack(k) == k > Len(attacks) \/ (k < numAttacks /\ k + 1 > Len(attacks))
OutOfRange(k) ==
  IF NoAttack(k) THEN TRUE
  ELSE FirstHit(AttackRange(k)) > Samples \/ FirstHit(QuietRange(k)) > Samples
-------------------------------------------------------------------------------------
InitSweep ==
  /\ script \in {"i3", "i5"}
  /\ level \in [1 .. Samples -> 0 .. Thresholds]
  /\ attacks \in AttackTimes
  /\ phase = "sweep"
  /\ th = 0
  /\ i = 1
  /\ entropy_tp_count = 0
  /\ entropy_fp_count = 0
  /\ tot_delay = 0
  /\ sampleAttack = 1
  /\ tpplot = << >>
  /\ fpplot = << >>
  /\ delays = << >>
  /\ sdelay = << >>

\* One attack: a detection during it, and a false alarm after it.
FirstSample == IF sampleAttack = 1 THEN i ELSE sampleAttack   \* mistake: kept
NewSample == i

CheckAttack ==
  /\ phase = "sweep"
  /\ i <= numAttacks
  /\ ~OutOfRange(i)
  /\ LET hit == FirstHit(AttackRange(i))  alarm == FirstHit(QuietRange(i))
     IN  /\ IF hit > 0
            THEN /\ entropy_tp_count' = entropy_tp_count + 1
                 /\ tot_delay' = tot_delay + Delay(i, hit)
                 /\ sampleAttack' = NewSample
            ELSE UNCHANGED <<entropy_tp_count, tot_delay, sampleAttack>>
         /\ entropy_fp_count' = entropy_fp_count + (IF alarm > 0 THEN 1 ELSE 0)
  /\ i' = i + 1
  /\ UNCHANGED <<inputs, phase, th, results, sdelay>>

\* The results of a threshold; the counters start from 0 for the next one.
EndThreshold ==
  /\ phase = "sweep"
  /\ i > numAttacks
  /\ tpplot' = Append(tpplot, entropy_tp_count)
  /\ fpplot' = Append(fpplot, entropy_fp_count)
  /\ delays' = Append(delays, tot_delay)
  /\ entropy_tp_count' = 0
  /\ entropy_fp_count' = 0
  /\ tot_delay' = 0
  /\ i' = 1
  /\ IF th + 1 < Thresholds THEN th' = th + 1 /\ UNCHANGED phase
                            ELSE th' = 0 /\ phase' = "sample"
  /\ UNCHANGED <<inputs, sampleAttack, sdelay>>

\* An index out of bounds is an error of Octave.
IndexError ==
  /\ \/ phase = "sweep" /\ i <= numAttacks /\ OutOfRange(i)
     \/ phase = "sample" /\ FirstHit(SampleRange) > Samples
  /\ phase' = "error"
  /\ UNCHANGED <<inputs, th, i, entropy_tp_count, entropy_fp_count, tot_delay,
                 sampleAttack, results, sdelay>>

\* 1 + j/subintervals - attack_started, where attack_started is in samples with i3.
SampleDelay(j) ==
  TicksPerSecond * Subintervals + j * TicksPerSecond
    - attacks[sampleAttack].start * Subintervals * (IF script = "i3" THEN Subintervals ELSE 1)

FollowSample ==
  /\ phase = "sample"
  /\ LET hit == FirstHit(SampleRange)
     IN  /\ hit <= Samples
         /\ sdelay' = Append(sdelay, IF hit > 0 THEN SampleDelay(hit) ELSE 0)
  /\ th' = th + 1
  /\ phase' = IF th + 1 < Thresholds THEN "sample" ELSE "done"
  /\ UNCHANGED <<inputs, i, entropy_tp_count, entropy_fp_count, tot_delay,
                 sampleAttack, results>>

NextSweep == CheckAttack \/ EndThreshold \/ FollowSample \/ IndexError

SpecSweep == InitSweep /\ [][NextSweep]_sweepVars
-------------------------------------------------------------------------------------
(* Properties.                                                                       *)

\* The attack m is over when the sample j is.
Over(j, m) ==
  IF script = "i3" THEN j * TicksPerSecond > attacks[m].end * Subintervals
                   ELSE 10 * (j - a(m)) > 9 * (NextStart(m) - a(m))

\* The k-th threshold's detections, in terms of time: during an attack; after it, in a
\* sample that is over when the next attack starts (the last one is not looked at, except
\* by i5 when another attack starts behind it).
During(k, m) ==
  {j \in 1 .. Samples : /\ level[j] >= k
                        /\ attacks[m].start * Subintervals < j * TicksPerSecond
                        /\ ~Over(j, m)}
After(k, m) ==
  {j \in 1 .. Samples :
     /\ level[j] >= k
     /\ Over(j, m)
     /\ j < Samples \/ (script = "i5" /\ m < numAttacks)
     /\ m < numAttacks =>
          (j + 1) * TicksPerSecond <= attacks[m + 1].start * Subintervals}

\* The true positives of a threshold are the attacks that a detection falls into, its
\* false positives those that one falls behind, before the next.  The total delay is at
\* least a sample for each true positive.
CountsExact ==
  \A k \in 1 .. Len(tpplot) :
    /\ tpplot[k] = Cardinality({m \in 1 .. numAttacks : During(k, m) # {}})
    /\ fpplot[k] = Cardinality({m \in 1 .. numAttacks : After(k, m) # {}})
    /\ delays[k] >= tpplot[k]

\* The attack that is followed is the one that is detected up to the highest threshold,
\* the last of them when there are several.
Peak(m) == Max({0} \cup {level[j] : j \in During(0, m)})

SampleMostPersistent ==
  phase \in {"sample", "done"} =>
    \A m \in 1 .. numAttacks :
      /\ Peak(m) <= Peak(sampleAttack)
      /\ Peak(m) = Peak(sampleAttack) /\ Peak(m) > 0 => m <= sampleAttack

\* The detections that the second search can find: those during the attack that is
\* followed, with i3 only the ones in a second that is over when the attack is.
Followed(k) ==
  {j \in During(k, sampleAttack) :
     script = "i3" =>
       \E s \in 0 .. attacks[sampleAttack].end :
         j <= s * Subintervals /\ s * TicksPerSecond <= attacks[sampleAttack].end}

\* The delay of the attack that is followed is that of the first such detection, and 0 when
\* there is none: so it is found only at thresholds at which the sweep has counted it, but
\* missed at those where it was only detected in its last, broken second.
SampleDelaysExact ==
  \A k \in 1 .. Len(sdelay) :
    sdelay[k] = IF Followed(k) = {} THEN 0 ELSE SampleDelay(Min(Followed(k)))

=====================================================================================
