# TLA+ models of network-entropy-analysis

This directory is a verification project for the programs of this repository:
TLA+ modules translated from the source, TLC configurations that check them on small
instances, and theorems checked by TLAPS. `PROJECT.json` lists, for every definition,
the lines of code it stands for, and every run, finding, hazard and theorem.

To check a run: `tlc -config MCCapture.cfg MCCapture.tla`. To check a proof:
`tlapm ProcessEntropyProofs.tla`.

## 1. The system

The repository detects denial-of-service attacks in packet captures by the entropy of
what the packets carry. It is a chain of programs that hand files to each other.

| Component | Source | State | Operations |
|---|---|---|---|
| Analyser: settings | `src/process_entropy.cpp` `main`, `init_vectors` | global settings; the vector `intervals` | parse options; size the vectors |
| Analyser: capture reader | `parse_pcap` | clock (`sec_first`, `sec_offs`), `intervals`, `fsd_traces`, the totals | one step per record: skip, stop, count |
| Analyser: ns-2 reader | `parse_ns2` | the same counters | one step per line |
| Analyser: sliding window | `process_entropy`, `print_result` | window position, running totals, results | first window; evaluate and move; print |
| Analyser: flow table | `src/fsd.cpp` `Fsd2` | `flows`, `flow_bytes`, `flow_size`, `flow_size_sub` | insert; number, count, slide |
| Analyser: recent flows | `src/fsd.cpp` `Fsd`, `MyFsd` (`--fsd1`) | `recent_fsd`, `all_fsd` | insert; prepare; update |
| Entropy formulas | `src/Entropy.cpp` | `m_value`, `m_count`, `m_q` | `Add`, `SetCount`, `GetValue` |
| Merger | `src/merge.c` | packet queue (an arena), clock, output file | one step per record; release; dump |
| Test driver | `work.py` | the directory `output` and what is in it | start the programs, move files |
| Detectors | `scripts/*.m` | CUSUM statistics, counts of hits | detect; sweep thresholds |
| SYN flood generator | `ns3_synflood/TcpSynFloodSocket.cc` | end point, time of the last packet, stream into the attack-times file | `Connect`, `Send`, `Close` |
| ns-3 scenarios, plots | `ns3_synflood/synflood*.cc`, `plot_*.m` | which attackers share a peer | straight-line scripts |

How they interact. The scenario programs write a capture and the attack times; the merger
may rewrite the capture so that the packets for the target come after a quiet period; the
driver runs the analyser on it once per entropy and parameter; the analyser writes one
file per entropy, a value per sub-interval; the plots and the detectors read them.
Inside the analyser everything is one thread: reader, flow table, window and output run
one after the other, on the shared global `intervals`, which the reader fills, the flow
table and the window read by index, and `print_result` prints by index.

What is hard:

* **Order of the records.** The reader trusts the capture to be in time order: the first
  TCP packet sets the clock, the first packet past the range ends the reading, and a time
  before the clock's zero becomes a negative index.
* **Incremental state.** The totals of a window and the sizes in the flow table are never
  recomputed: each step adds what enters and subtracts what leaves.
* **Alignment.** The window loop, the flow table and the output have their own loops with
  their own bounds over the same vector, one with a macro and one with an option of
  nearly the same name.
* **Numeric edges.** Signed remainders, truncation, division by zero, `int` overflow,
  fixed array lengths; counts of 0 and 1 whose logarithm is a divisor.
* **A shared file.** All attackers of a scenario record into one file, each through a
  stream of its own.
* **Partial failure and processes.** The driver starts processes it does not wait for and
  ignores exit codes; the reader of ns-2 traces reports failure as success.

What makes each component correct:

* *capture reader*: each counter is the exact total of the packets read that belong to its
  sub-interval and bucket; nothing is lost from a capture in order; no index leaves its
  vector; it ends.
* *sliding window*: the totals are those of the window at every turn; every entropy is
  made of the terms of a distribution; every window is evaluated.
* *flow table*: flow numbers and pairs of end points correspond one to one; the size of a
  flow in the window is that of its packets in the window; each window is given the
  entropy of just the flows in it.
* *analyser*: each row reports on one window, and what it reports depends on the packets
  of that window alone, but for `ent_fsd`: which flows have a term there is decided by the
  window, the size of each is that of its packets since the beginning.
* *merger*: every packet is written once, in order of time, with the target's packets
  delayed by one common shift; the queue is a FIFO and is not overrun.
* *recent flows*: a flow's value is never less than its bytes in the window, and exact for
  steady flows.
* *ns-2 reader*: the same totals in the same sub-intervals as the capture reader's; a
  flag of one line is not counted for another; failure is reported.
* *entropy formulas*: a percentage lies between 0 and 100, reaches them exactly at the two
  extremes of a distribution, and is 0 for an empty window; it is a number.
* *SYN flood generator*: the file holds the times at which the bursts begin.
* *driver*: no test is lost or archived under another's name; all files are moved in the
  end; what the detectors read of one test is one consistent set.
* *detectors*: true and false positives are those of the attack times; hits and false
  alarms of different attacks are not mixed up.

## 2. Modules

| Module | Models | Uses |
|---|---|---|
| `Tally` | weighted counts of a set of packets, defined as a cardinality (no recursion) | |
| `Products` | products and powers of natural numbers, as folds | |
| `Rows` | the counters of one sub-interval, and when they count the same packets (`Consistent`) | `Tally` |
| `TallyTheorems` | lemmas: a tally is a number, grows by the weight of the packet added, and so on; products and powers, and the inequalities of the entropies | `Rows`, `Products` |
| `Intervals` | the fields of `struct Interval` as *cells* of a row | `Rows` |
| `FlowHash` | `fsd_insert()`: what the flow table is given of a packet | |
| `Capture` | `parse_pcap` | `Intervals`, `FlowHash` |
| `Ns2Capture` | `parse_ns2` | `Intervals`, `FlowHash` |
| `Ns2CaptureProofs` | theorems about `Ns2Capture` | `Ns2Capture`, `TallyTheorems` |
| `SlidingWindow` | `process_entropy`, `print_result` | `Intervals` |
| `SlidingWindowProofs` | theorems about `SlidingWindow` | `SlidingWindow`, `TallyTheorems` |
| `FlowTable` | `Fsd2::fsd_prepare` | `Tally` |
| `FlowTableProofs` | theorems about `FlowTable` | `FlowTable`, `TallyTheorems` |
| `ProcessEntropy` | `main`: the composition of the three | `Capture`; instances of `SlidingWindow`, `FlowTable`, `EntropyReport` |
| `EntropyReport` | the abstract specification of the analyser | `Intervals` |
| `ProcessEntropyProofs` | theorems about `Capture` and about the whole program, the refinement among them | `ProcessEntropy`, `TallyTheorems`; instances of `SlidingWindowProofs`, `FlowTableProofs` |
| `RecentFlows` | `process_entropy` with `MyFsd`, the other strategy for flows | `SlidingWindow` |
| `Entropy` | the formulas of `Entropy.cpp` as pure operators | `Tally`, `Products` |
| `WindowValues` | `SetCount` and the values of the entropies of a window | `RecentFlows`, `Entropy` |
| `RecentFlowsProofs` | theorems about `RecentFlows` and `WindowValues` | `WindowValues`, `SlidingWindowProofs` |
| `PacketFifo` | the abstract specification of the merger's queue | |
| `PacketArena` | `struct pkt_queue` and its operations | `Tally` |
| `Merge` | `parse_pcap` of `merge.c` | `PacketArena`; an instance of `PacketFifo` |
| `MergeProofs` | theorems about `Merge` and the arena | `Merge`, `TallyTheorems` |
| `Pipeline` | `work.py` and the shells it starts | |
| `Sweep` | `ddos_cusum2_i3_delay.m`, `ddos_cusum2_i5_delay.m` | |
| `SynFlood` | `TcpSynFloodSocket`, for the attackers of a scenario | |
| `ExperimentProofs` | theorems about `Pipeline`, `Sweep` and `SynFlood`, the programs around the analyser | these three, `TallyTheorems` |
| `MC*` | finite inputs for TLC | the module of that name |

**How state corresponds.** Variables have the names of the code where it has one. The
numeric fields of a `struct Interval` are one function from cells to numbers:
`<<"num_syn", 0>>` is `num_syn`, `<<"num_dst_ports", 80>>` is `num_dst_ports[80]`.
`intervals[i]` and `fsd_traces[i]` are the two parts of `intervals[i]` in the code. `pc`,
`stage` and `phase` say where the one thread of a program is.

**How actions correspond.**

* `Capture`, `Ns2Capture`: one action per way that a turn of the reading loop can end
  (`SkipForeign`, `SkipEarly`, `StopAtEnd`, `SkipServer`, `CountPacket`; `SkipEvent`,
  `SkipElsewhere`, `CountLine`), and `Stray`, in which the index is out of bounds and the
  model stops because the program is undefined from there on.
* `SlidingWindow`: `Prepare`, `Slide` and `PrintResult` are the head of `process_entropy`,
  one turn of its loop and `print_result`.
* `FlowTable`: the five phases that the comments of `fsd_prepare` number are actions
  (1 and 2 together), the turns of its last loop one action each. `ReadOutside` is the turn
  that reads outside its array. The option `--subintervals` is a variable that no action
  changes, so that one run covers windows below, at and above the macro
  `NUM_SUBINTERVALS`; in `ProcessEntropy` it is the constant of the other modules.
* `RecentFlows`: the actions of `SlidingWindow`, each at its place between those of the
  list: `PrepareTotals` and `SlideTotals` are `Prepare` and `Slide`; then one action per
  packet of `fsd_update_recent`, one for the end of a sub-interval, one for the entropy of
  `MyFsd::fsd_update`.
* `Entropy` has no state: `GetValue` is a function of the terms that were added, the
  kind, the parameter and the argument of `SetCount`. `WindowValues` adds no action; it
  applies `GetValue` to the window that was evaluated last, with every formula and the
  parameters that `work.py` tries it with and the default (`Formulas`).
* `SynFlood`: `Connect` (which includes `SetupEndpoint`), `Send` and `Close` of each socket,
  in any order that the on-off application may call them in, and `Tick`, the simulated
  clock. The sockets of one peer share its file.
* `Merge`: one action per branch of the reading loop; a late packet takes several,
  `MeetLate`, any number of `Release` (the inner loop), and `HoldLate` or `PassLate`.
  `DropAtDelay` is the branch that the code lacks: a packet for the target whose time
  is exactly the delay meets neither `<` nor `>`. `HoldEarly` and `HoldLate` end in
  `overrun` when the arena is full, which the code does not test.
* `Pipeline`: one action per call of the driver that touches a directory, and, as a second
  kind of process, the shell `mkdir entropy; mv *.png entropy; mv *.txt entropy` with one
  action per file. Directories are identified by the test that made them and not by
  their names, because the shell stays in its directory when that is renamed.
* `Sweep`: one action per attack of the first loop, one for the end of a threshold, one
  per threshold of the second loop, and the error of an index beyond the samples. Which
  of the two scripts is run is a variable that no action changes.

**Abstractions.**

* Time is counted in ticks and is exact; the code computes with doubles. A packet closer
  to the edge of a sub-interval than the rounding error may go to the neighbour. The
  0.01 s that the code puts before the first packet is `OffsetTicks`.
* A frame is a record of the header fields that the code reads; a line of an ns-2 trace
  likewise, in the format that is compiled (`USE_NAM_TRACE` is not defined) and no longer
  than the line buffer. An address is an integer that may be negative, as in the code's
  `int`.
* `calc_hash` and `calc_hash2` are computed without overflow (the inputs of the runs are
  small); a theorem that needs only their range holds with overflow too.
* An entropy is the collection of terms handed to `Entropy::Add`, as numerators over their
  common denominator. Its value is a real number; what `Entropy` computes is where it lies:
  negative, 0, between 0 and 100 (per cent), 100, more, or not a number. That is decided
  in integers: a sum of logarithms is compared with a logarithm by comparing the
  products of powers below them. The parameter q is an integer; `BhatiaSingh`, which is
  not scaled to 100, is only given its sign; rounding errors of doubles are left out.
* The counters of a sub-interval and the totals of a window are taken to fit an `int`.
  `t_total_bytes`, which accumulates the whole capture, is not: it wraps at `IntLimit`.
  (Signed overflow is undefined in C++; wrapping is what the build produces.)
* `flow_counter`, which is written and never read, and verbose output are left out.
* `Merge`: a byte of a packet is the pair of its record and its position. Bytes beyond the
  captured length, which `queue_push` copies too, are `NoByte`: what lies there is not
  known, and never written. A dump file that cannot be opened is folded into `OpenFails`.
* `Pipeline`: one run of the driver; the analyser writes all its files or none; a
  plotting script may stop at any file; a detector is only asked whether its file was
  there. Two tests with the same name of the archived directory (they have the date and
  time in them) are left out.
* `SynFlood`: a character of the file is the time it belongs to and its position in that
  number; a time of whole seconds is shorter than another. A stream is buffered until it
  is closed (a record is much shorter than the buffer of a stream). Packets are sent at
  times counted in ticks; the route is a property of the node.
* `Sweep`: the filters of `detect_cusum.m`, which are floating point, are abstracted to the
  number of thresholds that a sample exceeds (line 44; `i5` calls the filter again for each
  threshold, to the same effect). That loses nothing of the control: a sample
  exceeds a filtered value times a threshold for all thresholds up to some point.

**Names of mistakes.** Operators marked "mistake" in a comment are not part of a model.
Each is a plausible slip in the code it stands beside; `PROJECT.json` ("mutants") pairs it
with the property that notices it.

### The abstract specifications

`EntropyReport` knows no counters: packets are collected, and the report on a window is
computed from the packets of that window alone. `ProcessEntropy!ReportSpec` says that the
program implements it, under the mapping: *packets* are the records read that are in the
range and not from a server, *reports* are `result[0 .. j-1]`, *written* is `output`. It
covers the reader, the incremental totals and the output in one formula.

`PacketFifo` is a queue: packets are put in at the end and taken out at the front.
`Merge!FifoSpec` says that the two arrays of the merger implement it, under the mapping:
*waiting* are the headers between head and tail, each with the bytes that begin where those
of the headers before it end; *gone* are the packets for the target in the output. That a
packet comes out with its own bytes needs both heads and both tails to keep step.

## 3. Runs

| Run | Question | Bounds |
|---|---|---|
| `capture_any_order` | are counters exact, and what is lost, for captures in any order? | 3 records, 4 stamps, 4 kinds of frame, both link types, one server, 4 sub-intervals |
| `flow_table` | numbering, sizes, windows, overrun, for each relation of the option and the macro | 6 sub-intervals, the first 4 filled with 7 kinds of content, rows for 4, 3 end points, room for 2 flows where 3 pairs exist, windows of 1, 2 and 3 beside a macro of 2 |
| `flow_table_same_end_points` | *violated*: packets whose two end points have the same number | 5 sub-intervals |
| `program` | the composition with `--byte-entropy`, its refinement of `EntropyReport`, and that it ends | 3 records, 4 stamps, 3 kinds of frame; 6 sub-intervals, 4 windows |
| `program_last_window` | *violated*: the last window of the range is not evaluated | as `program` |
| `merge` | is the output merged, complete and in order, and is the arena a queue? | 3 records in any order, 4 in time order; 6 stamps around the delay, one of them equal to it; room for 3 headers and 5 bytes |
| `process_recent` | do the running totals follow the window; is a flow of the window always listed, and with which value; what are the values of the formulas at their extremes? | 5 sub-intervals and the spare one, with up to 2 packets of 3 flows and 3 sizes, of which one is too large for the table of sizes; each table as either reader fills it; ints too short for the total; whole parameters from -2 to 2, of those that `work.py` tries and the default |
| `ns2_any_trace` | are counters exact, and what does a stale header do? | 4 lines of 9 kinds |
| `ns2_missing_file` | *violated*: a trace that cannot be opened is reported | as `ns2_any_trace` |
| `pipeline` | what the driver leaves behind beside shells that it does not wait for | 2 tests of one capture, 4 detectors, 5 files |
| `sweep` | are the rates those of the attack times, and which attack is followed, with either script? | every level of 5 samples, 8 files of one to three attacks; `i5` expects two (15 in the code) |
| `synflood` | are the beginnings of bursts recorded, and what remains in a file that several attackers write? | 2 sockets, 2 peers, 6 ticks, up to 3 packets each |

Why the bounds are enough.

* *Readers.* A counter is disturbed by at most two records (one that is counted and one
  that should not move the clock, or end the reading), so three records in any order reach
  every pair of such events and a third that shows the effect. The stamps were chosen so
  that the first packet may come second in time (negative times, a negative index), and
  that times fall exactly on the edge of a sub-interval and of the range, and past it. The
  runs start at time 0; the theorems cover every `--start-time`.
* *Windows.* A window of two sub-intervals in a range of at least five has turns in which
  a packet enters, stays and leaves. Three end points have three pairs, one more than the
  room for flows, so that the overrun happens; four rows for six sub-intervals make the
  other one happen. The recent flows need a flow that is seen, is silent for more than a
  window while others are searched for, and comes back: five sub-intervals with a window
  of two.
* *Formulas.* Two packets in each of two sub-intervals make distributions of one to three
  elements, even and uneven ones, some with all the elements that are counted and some
  with fewer; windows with no packet, with one busy sub-interval and with no DF flag are
  among them.
* *Attackers.* Three packets can begin one burst and go on with it, or begin two; ten
  characters or fewer are enough for a longer record to be written over by a shorter one
  and the other way round.
* *Merger.* Two packets that are held back and two that pass are needed for a release
  between others; with room for three headers and five bytes either array can be the one
  that overruns, and packets go out before it does.
* *Driver.* Two tests are enough for the shell of one to work beside the next test, and
  share the directories that are made once; the four detectors are the code's.
* *Detectors.* Attacks begin and end within a sample and on its edge; of two attacks either
  may be the more persistent one, and quiet samples lie between and after them.

`CHECK_DEADLOCK FALSE` is set everywhere: the programs end, in a state of `pc`, `stage` or
`phase` that says so, or in one in which the code's behaviour is undefined.

**Fairness.** `ProgramTerminates` is checked under weak fairness of the whole next-state
relation: the analyser is one thread that neither waits nor blocks. `AllMoved` is checked
under weak fairness of the driver and of each shell, because the operating system runs
every process that was started; a shell outlives the driver. Nothing else states
liveness.

### What the runs found

* `flow_table_same_end_points` (`fsd.cpp:149`): pairs are numbered for `i < j` only, so a
  packet between two end points with the same number modulo `NUM_ADDR` stays marked 1 and
  is counted in flow 1.
* `program_last_window` (`process_entropy.cpp:226`): "calculate entropy for each window"
  leaves out the last window inside the range.
* `ns2_missing_file` (`process_entropy.cpp:596`): `parse_ns2` returns `-0` for a file that
  it cannot open, which `main` takes for success.

Other behaviours that a reader may not expect are part of properties that hold:

* The flow table stops a whole window before the other entropies (`FlowWindowsEvaluated`),
  so the last `num_subintervals` rows of `ent_fsd.txt` that have other entropies have none
  of this kind; and `flow_size_sub` keeps the first sub-intervals for ever when the
  option is below the macro (`FlowSizesExact`).
* A recent flow keeps more than the bytes of its window unless it is steady
  (`NeverUnderstated`, `SteadyFlowsExact`): only its first packet in a sub-interval is
  ever taken away, and nothing from before a silence.
* The merger loses a packet for the target that comes exactly at the end of the delay, and
  whatever is queued when the input ends (`LostAtTheEnd`).
* A detector may run before its file is there. The shell moves the first detector's file
  after those of the other three, so when the first one finds its file, all do
  (`LaterDetectorsFollow`).
* A packet of 1500 bytes or more is in no bucket of the sizes (`process_entropy.cpp:518`),
  but in the total by which the buckets are divided. In a window with such packets
  the entropy of the sizes can exceed 100 %, with Renyi and with Tsalis for q > 1
  (`PercentOfMaximum` excepts just this case).
* An empty window has the value 0, except with Tsalis: `1 - m_value` is 1 there, divided by a
  denominator that is smaller, so that the entropies that are given a count are above
  100 % for q > 1 (`EmptyWindowZero`). For q < 1 they are negative, and those of the numbers
  of packets and bytes, with a count of 0, are 100 %.
* The DF flag makes an entropy over time whose maximum is taken for as many elements as
  there are packets in the capture, so that 100 % are out of its reach unless the window
  has as many busy sub-intervals as the capture has packets (`ExtremesExact`). In a window
  without the flag it is not a number (`UndefinedOnly`).
* The attribute `SaveAttackTimes` of the socket is never read: the file is always
  written. The times in it have nothing between them, and it holds the record of the
  attacker that was closed last, possibly followed by the end of a longer one
  (`FileOfLastCloser`). The attackers of the scenarios are started together with constant
  on and off times, so that their records are the same. The beginning at time 0, or
  within the first 0.1 s, is not recorded (`OnsetsExact`).
* `synflood.cc` sets an attribute `DstPort` that the socket does not register.
* `sample_delay` of `ddos_cusum2_i3_delay.m` (lines 184 and 190) subtracts a start in
  samples from a time in seconds. `Sweep!SampleDelay` is that value; no document says what
  it should be, so no property speaks of it.

## 4. Proofs

TLAPS checks the following for all values of the constants that satisfy the named
assumptions of the modules: any number of records, sub-intervals, end points, tests,
detectors and sockets, any window, any `--start-time`. Each says that every behaviour of
the specification has the property; two of the properties are abstract specifications.

| Module | Theorem | States |
|---|---|---|
| `ProcessEntropyProofs` | `TypeCorrect` | `TypeOK` of the reader |
| | `CountersExact` | `TalliesExact` |
| | `NothingLost` | `LossOnlyAfterLateRecord` |
| | `StrayIndex` | `StrayOnlyBeforeTimeZero` |
| | `TracesAreCounted` | `TracesMatchCounters` |
| | `CountersAgree` | `RowsConsistent` |
| | `SpareSlotIsEmpty` | `SpareSlotEmpty` |
| | `ReportsAreKept` | `ReportSpec`: `ProcessEntropy` implements `EntropyReport` |
| | `TermsDistribute` | `TermsAreDistributions` |
| | `WindowsAreAligned` | `WindowsAligned` |
| `Ns2CaptureProofs` | `LinesAreCounted` | `TalliesExact` of the ns-2 reader |
| | `SynIsNeverMissed` | `SynNeverMissed` |
| | `Ns2CountersAgree` | `RowsConsistent` of the ns-2 reader |
| `SlidingWindowProofs` | `RunningTotals` | `TotalsTrackWindow` |
| | `BytesReported` | `GrandTotal` |
| `FlowTableProofs` | `FlowsAreNumbered` | `FlowNumbersExact` |
| | `SizesAreExact` | `FlowSizesExact` |
| | `WindowsAreEvaluated` | `FlowWindowsEvaluated` |
| | `OverrunIsTooLong` | `OverrunOnlyWhenTooLong` |
| `RecentFlowsProofs` | `RecentFlowsAreListed` | `RecentFlowsListed` |
| | `NotUnderstated` | `NeverUnderstated` |
| | `SteadyAreExact` | `SteadyFlowsExact` |
| | `WindowsAreCovered` | `WindowFlowsCovered` |
| | `ValuesArePercentages` | `PercentOfMaximum` of `WindowValues` |
| | `ExtremesAreExact` | `ExtremesExact` of `WindowValues` |
| | `UndefinedNowhereElse` | `UndefinedOnly` of `WindowValues` |
| | `EmptyWindowsAreZero` | `EmptyWindowZero` of `WindowValues` |
| `MergeProofs` | `PacketsAreAccounted` | `EveryPacketAccounted` |
| | `OutputIsInOrder` | `OutputInOrder` |
| | `RhythmIsKept` | `AttackKeepsRhythm` |
| | `LossesAreKnown` | `LostAtTheEnd` |
| | `OverrunIsFull` | `OverrunOnlyWhenFull` |
| | `ArenaIsQueue` | `FifoSpec`: the two arrays implement `PacketFifo` |
| `ExperimentProofs` | `TestsAreArchived` | `EarlierArchived` of `Pipeline` |
| | `DetectorsFollow` | `LaterDetectorsFollow` of `Pipeline` |
| | `CountsAreExact` | `CountsExact` of `Sweep` |
| | `FollowedIsMostPersistent` | `SampleMostPersistent` of `Sweep` |
| | `FollowedIsCounted` | `SampleDelaysExact` of `Sweep` |
| | `OnsetsAreRecorded` | `OnsetsExact` of `SynFlood` |
| | `FileIsLastCloser` | `FileOfLastCloser` of `SynFlood` |

**Why `Tally` is a cardinality.** A sum over a set is usually a recursive definition, about
which the prover cannot reason by induction. Here it is the number of *units*, of which a
packet of weight `w` has `w`; the lemmas of `TallyTheorems` follow from the library's facts
on cardinality: a tally grows by the weight of what is added, moves with its window, splits
with its set, and is the sum of the tallies of the groups (`TallyGroups`).
`RowTotal` and `TotalConsistent` say of the rows of a table that their sum is consistent
when each of them is.

### The inductive invariants

Hardly any of the properties is inductive. Each component has an invariant that is, a
conjunction of named parts, with a lemma for each action and in it a step for each part.

* **Reader of captures, `CaptureInv`.** `TalliesExact` speaks of times relative to the first
  TCP record, the code of times relative to `sec_offs`. `ClockOK` ties the two together:
  `sec_first` says whether a TCP record was read, and `sec_offs` is then the stamp of the
  first one less the offset. `EndOK` says that once `parsed`, either the file was read or
  the last record read was past the range. A step adds at most one record to one
  sub-interval, and `TallyAdd` says that the tally grows by what `CountPacket` adds to the
  cell. `SpareSlotIsEmpty` needs the arithmetic of the truncated length of the vector
  (`num_intervals`): a packet that passes the test of the range is before its last element.
* **ns-2 reader, `Ns2Inv`.** The sub-interval is computed from the second and from the
  place within it (`SlotIs`), which is shown to be that of the whole time. `HeaderOK` says
  what the header that `sscanf` may leave unchanged can hold, `SynOK` puts the counter
  between the lines that have the flag and those that may have been taken for such.
* **Window, `TotalsInv` and `BytesInv`.** A window and its successor differ by one
  sub-interval at each end, so the totals are inductive by `TallyAdd`, used twice. The total
  of all bytes equals the wrapped sum of the first `j + NumSubintervals` sub-intervals;
  `RemainderOfSum` and `WrapAdd` say that wrapping at every addition is wrapping once.
* **Flow table, `FlowInv`.** `PhaseOK` says what each phase has left for the next: the marks,
  the numbers in the order of the pairs, the packets counted. `FlowSizesExact` is then
  inductive with `TallyMoves`; `WindowOK` says that each element of the result behind the
  loop is exactly the `Entropy` of its window, whose definition looks at the traces only,
  and that the others are blank (`TermsAreExact`, `ActiveHasPacket`).
* **Program, `ProgramInv`.** One part runs after the other and keeps its own invariant,
  because the others change none of its variables; `CaptureInv` of the reader makes the
  table that the others take as their input well-formed. The results so far are `ReportOf`,
  which is computed from the packets; `HeldAmount` says that the tally of a window over
  sub-intervals is that over packets. `TracesHeld` says that the traces of a sub-interval,
  which are all that the flow table knows of it, are those of the packets counted there, so
  that the flows with a term in a row are those of its packets (`FlowsOfWindow`). The
  refinement maps a packet counted to `Collect` of `EntropyReport`, a turn of the window to
  its report, and every other step to a stutter.
* **Recent flows, `RecentInv`.** `ListOK` says of every entry what `EntryAt` says: when its
  flow was seen last, and between which bounds its value lies. The operators named `...At`
  take the table and the place in it as parameters, so that they can be used before and
  after a step. The key lemma is `FirstBytes`: what is ever taken away from a value are
  first packets of sub-intervals that the window has left, so that an injection of units
  shows it to be no more than what was added there.
* **Values of a window, `ValuesInv`.** That the terms of an entropy sum up to its divisor
  needs the vectors of a row to count the same packets. This is a property of both readers
  (`RowsConsistent`, proved of each from what a record adds to a row; no run lists it), and
  the one assumption that `SpecValues` makes of its table (`TableConsistent`). The running totals
  of `TotalsInv` are the sum over the window of such rows, so that they are consistent
  too, and the window that was evaluated last is a `SoundWindow`. What remains is
  arithmetic, in the last part of `TallyTheorems`: with `k` terms `a` of the sum `n`,
  the sum of their squares is at most `n * n`, which just a single term reaches, and
  `k` times that sum is at least `n * n`, which just even terms reach (`SquaresAtLeast`,
  `SquaresAtMost`). The product of all `a^a`, times `k^n`, is at least `n^n`, which again
  just even terms reach (`SelfPowers`): the entropy of Shannon is at most `log(k)`, stated
  without logarithms. A power lies above its tangent (`Tangent`), hence the inequality
  of the means for one number and `m` equal ones (`MeanOfOneMore`), for `p` equal and
  `q` equal ones (`MeanOfTwo`), and with that one more term of the product. The
  inductions are over finite sets and over numbers, in a form that takes the *set* of sets,
  or of numbers, for which a statement holds (`SetInduction`, `CountInduction`).
  `UndefinedIs` and `EmptyIs` look at which terms there are, for every formula.
* **Merger, `MergeInv`.** `ArenaOK` says that the data of the k-th header begins at
  `DataStart(k)`, where its predecessors' end, and that `queue_pop` reads the place that
  `queue_push` wrote. `OutputOK` says that the output consists of the packets that pass and
  of a prefix of those put in. `TimesOK` and `DueOK` are about captures in time order: what
  is in the output is not later than what is due, and what was taken out was due. With
  them, a step of the merger is a `Put`, a `Take` or a stutter of `PacketFifo`.
* **Driver, `PipelineInv`.** `DriverOK` says which test's directory has the name `output` at
  each step, `FreshOK` that nothing is in those of later tests, `FilesOK` that what a shell
  has moved is a prefix of the listing, `ReadOK` that what was read was moved, in the
  directory of the same test.
* **Detectors, `SweepInv`.** `CountOK`: the counters are the numbers of attacks found among
  those looked at. `FollowOK`: `Reached` is how far each attack was detected at the
  thresholds at which it was looked at so far, and the attack to follow is the last of
  those that reached the highest one (`Foremost`). What the second search finds is the least of
  the detections that it can (`FollowedIs`, `LeastIs`). The samples that are searched are shown
  to be those that the properties describe by their times, through the rounding of
  both scripts (`RangeFacts`).
* **Attackers, `FloodInv`.** `LastOK`: the time of the last packet is the latest one;
  `OnsetsGrow` says that a later packet adds at most itself to the beginnings of bursts and
  leaves the others. `ClosersOK`: a socket whose record is in a file is closed, so that
  the record stays. `FileIs` says what is in a file, without a maximum.

Two details recur. An instance has its own copies of the definitions of the module it is
an instance of; where the proofs of a component are used for the program, lemmas such as
`SameTally`, `SameFlowTable` and `PartsAssumptions` say that the copies are the same and
that the assumptions hold. And the induction theorems of the library, which take an
operator that cannot be instantiated here, are not needed: a least or a greatest element
comes from `SmallestElement`, a smallest set for which something fails from
`SmallestSubset`.

### What the proofs changed

Properties that held in the runs and were not true for all constants were corrected:

* `SpareSlotEmpty` excepts a range without sub-intervals (`num_intervals # 0`).
* `OverrunOnlyWhenTooLong` names the case of a table that has no row for the spare
  sub-interval (`NumSamples < Cardinality(Slots)`).
* `WindowsAligned` is about the case in which the macro and the option agree
  (`FirstWindow = NumSubintervals`); in others the two loops do not begin with the same
  window.
* `ProgramAssumption` names what the parts need of each other: a window no longer than the
  range, a macro no larger than it and than the rows of the table.
* `SynFlood!Text`, what is printed, was a concatenation and is now given by the place at
  which each number begins; `OnsetsExact` says "in increasing order, and exactly these"
  instead of naming the sorted sequence. Both say what they said.
* `Entropy` had `RECURSIVE` operators and `CASE`s whose guards overlap. TLC takes the first
  one that is true, as the code does, but TLA+ leaves the value open; they are conditionals
  in the order of the code now. `Ubriaco` with q = 2 was "part" where the code divides by
  the logarithm of 1.
* `UndefinedOnly` and `EmptyWindowZero` speak of the formulas with the parameters that
  `work.py` tries (`Formulas`); with q = 0, which it does not try, `BhatiaSingh` divides
  0 by 0 always.
* `RangeAssumption` says that there is more than one size and more than one port, and that
  the ranges of the histograms are within those of the fields: with one element, the
  logarithm that an entropy is divided by is 0.
* `PercentOfMaximum` held in the runs because their tables were those of captures. The
  reader of ns-2 traces counts no ports, so that the terms of the entropies of ports
  are all 0 and, with q = 2, Tsalis is above 100 %; the property excepts distributions
  that lack packets, of sizes and of ports. The tables of the run come from both readers
  now, and `SpecValues` is what a table must fulfil for the theorems.

### Only model-checked

Every invariant of a passing run is a theorem. What is left to TLC:

* Liveness, `ProgramTerminates` and `AllMoved`: the prover has no `ENABLED`.
* The three violations of section 3 are counterexamples, found on an instance.

## 5. Not modelled

* Option parsing in `main` (settings are constants), verbose output and sleeping.
* The filters of `detect_cusum.m`, in floating point; `find_attacks.m`, which nothing calls
  and no document describes.
* The topology, the clients and the servers of the ns-3 scenarios, and `ipv4-end-point.h`
  (vendored): they are calls of a simulator that is not in the repository. Of
  `TcpSynFloodSocket`, the methods that return a constant.
* `plot_*.m`, `test_pcap.c`: output only. The files `*.orig` and `*.old` are earlier copies.

## 6. Plan

Done: every module of section 2, the runs of section 3, the theorems of section 4: all the
invariants of the passing runs and both refinements.

What could follow:

1. An abstract specification of the flow table as a whole (a map from pairs of end points
   to bytes in the window), of which `Fsd2` and, for steady flows, `MyFsd` are
   implementations.
2. The formulas for parameters that are not whole numbers, which need real numbers.
3. Shorter proofs: the lemmas on windows of `FlowTableProofs` and `RecentFlowsProofs` have
   common parts.
