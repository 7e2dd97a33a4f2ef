----------------------------------- MODULE Merge -----------------------------------
(***********************************************************************************)
(* parse_pcap() of merge.c: the packets for the target are held back in a queue until  *)
(* no_attack_delay seconds have passed, and are then written among the other packets,   *)
(* all delayed by the same time.                                                       *)
(*                                                                                  *)
(* Time is counted in ticks of 1 / TicksPerSecond seconds and is exact.               *)
(***********************************************************************************)
EXTENDS PacketArena

CONSTANTS
  TicksPerSecond,
  OffsetTicks,     \* 0.01 s: the time of the first packet
  Delay,           \* no_attack_delay, in ticks
  Captures         \* the captures that may be given to the program

ASSUME MergeAssumption ==
  /\ TicksPerSecond \in Nat \ {0}
  /\ OffsetTicks \in Nat \ {0}
  /\ Delay \in Nat
  /\ OffsetTicks < Delay
  /\ Captures \subseteq Seq([ts : Nat, len : Nat \ {0}, caplen : Nat \ {0}, target : BOOLEAN])

VARIABLES
  capture,
  pc,              \* "open", "reading", "releasing", "done", "failed" or "overrun"
  pos,             \* the records read
  sec_first, sec_offs,      \* the clock: the stamp of time 0
  sec_first2, sec_offs2,    \* the time of the first packet held back
  output,          \* the packets written, as [ts, caplen, data]
  num_attack_packets, num_normal_packets

mergeVars == <<capture, pc, pos, sec_first, sec_offs, sec_first2, sec_offs2, output,
               num_attack_packets, num_normal_packets>>
vars == <<mergeVars, arenaVars>>
clock == <<sec_first, sec_offs, sec_first2, sec_offs2>>
written == <<output, num_attack_packets, num_normal_packets>>
-------------------------------------------------------------------------------------
\* The header and the data of a record.  Of the data of a record the first caplen bytes
\* were captured; queue_push() copies len bytes, whatever lies there.
Hdr(r) == [ts |-> r.ts, len |-> r.len, caplen |-> r.caplen]
Data(k) == [b \in 1 .. capture[k].len |-> IF b <= capture[k].caplen THEN <<k, b>> ELSE NoByte]

\* The time stamp written for a time: its int part, rounded towards zero, and its
\* fraction, from the next lower integer.
Stamp(time) ==
  LET sec == IF time >= 0 THEN time \div TicksPerSecond ELSE -((-time) \div TicksPerSecond)
  IN  (sec * TicksPerSecond) + (time % TicksPerSecond)

\* pcap_dump(): the captured bytes of a packet, with its new time.
Dump(ts, caplen, data) ==
  Append(output, [ts |-> ts, caplen |-> caplen, data |-> SubSeq(data, 1, caplen)])

\* The record just read, and its time.
Current == capture[pos]
Time == Current.ts - sec_offs

\* The time at which the packet at the head of the queue is due.
ShiftLost == Peek.ts - sec_offs + Delay   \* mistake: not relative to the first
Due == Peek.ts - sec_offs + (Delay - sec_offs2)
-------------------------------------------------------------------------------------
Init ==
  /\ InitArena
  /\ capture \in Captures
  /\ pc = "open"
  /\ pos = 0
  /\ sec_first = TRUE /\ sec_offs = 0
  /\ sec_first2 = TRUE /\ sec_offs2 = 0
  /\ output = << >>
  /\ num_attack_packets = 0 /\ num_normal_packets = 0

\* The input cannot be opened; or the output, and the program crashes at its first use.
OpenFails ==
  /\ pc = "open"
  /\ pc' = "failed"
  /\ UNCHANGED <<capture, pos, clock, written, arenaVars>>

OpenSucceeds ==
  /\ pc = "open"
  /\ pc' = "reading"
  /\ UNCHANGED <<capture, pos, clock, written, arenaVars>>

\* The next record is read; the first one sets the clock.
NextRecord == capture[pos + 1]
Offset == IF sec_first THEN NextRecord.ts - OffsetTicks ELSE sec_offs
NextTime == NextRecord.ts - Offset

Read ==
  /\ pc = "reading"
  /\ pos < Len(capture)
  /\ pos' = pos + 1
  /\ sec_first' = FALSE
  /\ sec_offs' = Offset
  /\ UNCHANGED capture

\* The queue runs out of one of its arrays, which is undefined.
Overrun ==
  /\ pc' = "overrun"
  /\ UNCHANGED arenaVars

\* What the first packet held back sets: where the delay starts.
EveryHeld == NextTime   \* mistake: set by every packet held back
FirstHeld == IF sec_first2 THEN NextTime ELSE sec_offs2

\* A packet for the target, before the delay is over.
HoldEarly ==
  /\ Read
  /\ NextRecord.target
  /\ NextTime < Delay
  /\ sec_first2' = FALSE
  /\ sec_offs2' = FirstHeld
  /\ \/ Push(Hdr(NextRecord), Data(pos + 1)) /\ UNCHANGED pc
     \/ ~Fits(Hdr(NextRecord)) /\ Overrun
  /\ UNCHANGED written

\* Mistake: such a packet is held back too, <= for <.
HoldAtDelay ==
  /\ Read
  /\ NextRecord.target
  /\ NextTime = Delay
  /\ \/ Push(Hdr(NextRecord), Data(pos + 1)) /\ UNCHANGED pc
     \/ ~Fits(Hdr(NextRecord)) /\ Overrun
  /\ UNCHANGED <<sec_first2, sec_offs2, written>>

\* One that comes exactly then meets neither condition, and is dropped.
DropAtDelay ==
  /\ Read
  /\ NextRecord.target
  /\ NextTime = Delay
  /\ UNCHANGED <<pc, sec_first2, sec_offs2, written, arenaVars>>

\* Another packet, up to the delay: it is written at once.
PassEarly ==
  /\ Read
  /\ ~NextRecord.target
  /\ NextTime <= Delay
  /\ num_normal_packets' = num_normal_packets + 1
  /\ output' = Dump(Stamp(NextTime), NextRecord.caplen, Data(pos + 1))
  /\ UNCHANGED <<pc, sec_first2, sec_offs2, num_attack_packets, arenaVars>>

\* Any packet after the delay first releases the ones that are due before it.
MeetLate ==
  /\ Read
  /\ NextTime > Delay
  /\ pc' = "releasing"
  /\ UNCHANGED <<sec_first2, sec_offs2, written, arenaVars>>

LateDue == ~Empty /\ Due <= Time + Delay   \* mistake: released too soon
SomeDue == ~Empty /\ Due < Time

\* One turn of the inner loop.
Release ==
  /\ pc = "releasing"
  /\ SomeDue
  /\ output' = Dump(Stamp(Due), Peek.caplen, HeadData)
  /\ Pop(Stamp(Due))
  /\ num_attack_packets' = num_attack_packets + 1
  /\ UNCHANGED <<capture, pc, pos, clock, num_normal_packets>>

\* Mistake: a late packet for the target is not held back.
DropLate ==
  /\ pc = "releasing"
  /\ ~SomeDue
  /\ Current.target
  /\ pc' = "reading"
  /\ UNCHANGED <<capture, pos, clock, written, arenaVars>>

\* Then a packet for the target is held back as well.
HoldLate ==
  /\ pc = "releasing"
  /\ ~SomeDue
  /\ Current.target
  /\ \/ Push(Hdr(Current), Data(pos)) /\ pc' = "reading"
     \/ ~Fits(Hdr(Current)) /\ Overrun
  /\ UNCHANGED <<capture, pos, clock, written>>

\* Another one is written.
PassLate ==
  /\ pc = "releasing"
  /\ ~SomeDue
  /\ ~Current.target
  /\ num_normal_packets' = num_normal_packets + 1
  /\ output' = Dump(Stamp(Time), Current.caplen, Data(pos))
  /\ pc' = "reading"
  /\ UNCHANGED <<capture, pos, clock, num_attack_packets, arenaVars>>

\* The input is exhausted: queue_free(), pcap_dump_close().
Finish ==
  /\ pc = "reading"
  /\ pos = Len(capture)
  /\ pc' = "done"
  /\ UNCHANGED <<capture, pos, clock, written, arenaVars>>

Next == \/ OpenFails \/ OpenSucceeds
        \/ HoldEarly \/ DropAtDelay \/ PassEarly \/ MeetLate
        \/ Release \/ HoldLate \/ PassLate \/ Finish

Spec == Init /\ [][Next]_vars
-------------------------------------------------------------------------------------
(* What the capture says.                                                            *)

Records == 1 .. Len(capture)
TimeOf(k) == capture[k].ts - capture[1].ts + OffsetTicks
InOrder == \A k, m \in Records : k < m => capture[k].ts <= capture[m].ts

\* The records that go through the queue, and how long each is delayed when the capture
\* is in time order: the first that came before the delay was over is due just then.
Held == {k \in Records : capture[k].target /\ TimeOf(k) # Delay}
EarlyHeld == {k \in Held : TimeOf(k) < Delay}
Shift == IF EarlyHeld = {} THEN Delay
         ELSE Delay - TimeOf(CHOOSE k \in EarlyHeld : \A m \in EarlyHeld : k <= m)

\* The records that have been dealt with.
Handled == {k \in Records : k <= pos /\ ~(k = pos /\ pc \in {"releasing", "overrun"})}

\* The record that a written packet came from.
Origin(o) == o.data[1][1]
Sent == {Origin(output[n]) : n \in 1 .. Len(output)}
-------------------------------------------------------------------------------------
(* Properties.                                                                       *)

\* Every record dealt with was written, is in the queue, or came exactly at the end of
\* the delay; the figures that the program prints at the end are those of its output.
EveryPacketAccounted ==
  /\ num_normal_packets = Cardinality({k \in Handled : ~capture[k].target})
  /\ num_attack_packets + (hdrs_tail - hdrs_head) = Cardinality(Handled \cap Held)
  /\ Len(output) = num_normal_packets + num_attack_packets

\* A capture in time order is written in time order, although packets come from two
\* places and the time of half of them is changed (the "merge").
OutputInOrder ==
  InOrder => \A m, n \in 1 .. Len(output) : m < n => output[m].ts <= output[n].ts

\* All packets for the target are delayed by the same time, so that the attack keeps its
\* rhythm, and no other packet is delayed at all.
AttackKeepsRhythm ==
  InOrder => \A n \in 1 .. Len(output) :
    LET k == Origin(output[n])
    IN  output[n].ts = IF capture[k].target THEN TimeOf(k) + Shift ELSE TimeOf(k)

\* A packet for the target is missing from the output just when it came exactly at the
\* end of the delay, or no later packet was past the time it was due at: what is in the
\* queue when the input ends is freed and not written.
LostAtTheEnd ==
  pc = "done" /\ InOrder =>
    \A k \in Records :
      k \notin Sent <=>
        /\ capture[k].target
        /\ \/ k \notin Held
           \/ \A m \in Records : m > k /\ TimeOf(m) > Delay => TimeOf(k) + Shift >= TimeOf(m)

\* The queue runs out of memory only when all the packets ever put in are more than it
\* has room for; what was taken out makes no room.
OverrunOnlyWhenFull ==
  pc = "overrun" =>
    LET put == {k \in Held : k <= pos}
    IN  \/ Cardinality(put) > HdrRoom
        \/ Tally(put, [k \in Records |-> capture[k].len]) > BufferRoom

\* The packets in the queue, and those that were taken out of it, as they are written: the
\* k-th one taken is the k-th packet for the target in the output.
AsWritten(p) == [caplen |-> p.caplen, data |-> SubSeq(p.data, 1, p.caplen)]
Waiting == [k \in 1 .. hdrs_tail - hdrs_head |-> AsWritten(Contents[k])]

Taken == {n \in 1 .. Len(output) : capture[Origin(output[n])].target}
TakenAt(k) == CHOOSE n \in Taken : Cardinality({m \in Taken : m <= n}) = k
Gone == [k \in 1 .. Cardinality(Taken) |-> AsWritten(output[TakenAt(k)])]

\* The arrays are a queue: packets come out in the order they went in, each with its own
\* header and data.
Fifo == INSTANCE PacketFifo WITH waiting <- Waiting, gone <- Gone

FifoSpec == Fifo!FifoSpec
=====================================================================================
