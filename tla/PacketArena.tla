-------------------------------- MODULE PacketArena --------------------------------
(***********************************************************************************)
(* struct pkt_queue of merge.c: the headers of the queued packets in one array and    *)
(* their data end to end in another, each with a head and a tail that only move        *)
(* forward.  Nothing is ever reused, and nothing checks the lengths of the arrays.     *)
(***********************************************************************************)
EXTENDS Tally, Sequences

CONSTANTS
  HdrRoom,      \* the headers that fit in hdrs
  BufferRoom    \* the bytes that fit in buffer

ASSUME RoomAssumption == HdrRoom \in Nat /\ BufferRoom \in Nat

VARIABLES
  hdrs, hdrs_head, hdrs_tail,
  buffer, buffer_head, buffer_tail

arenaVars == <<hdrs, hdrs_head, hdrs_tail, buffer, buffer_head, buffer_tail>>

NoHdr == [ts |-> 0, len |-> 0, caplen |-> 0]   \* memory not written yet
NoByte == <<0, 0>>

\* queue_alloc().
InitArena ==
  /\ hdrs = [i \in 0 .. HdrRoom - 1 |-> NoHdr]
  /\ buffer = [i \in 0 .. BufferRoom - 1 |-> NoByte]
  /\ hdrs_head = 0 /\ hdrs_tail = 0
  /\ buffer_head = 0 /\ buffer_tail = 0

\* queue_peek_header().
Empty == hdrs_head >= hdrs_tail
Peek == hdrs[hdrs_head]

\* Whether a packet still fits; the code does not ask.
Fits(hdr) == hdrs_tail < HdrRoom /\ buffer_tail + hdr.len <= BufferRoom

\* queue_push(): the header, and hdr.len bytes of data.
Copy(hdr, data) ==
  [i \in DOMAIN buffer |->
     IF i \in buffer_tail .. buffer_tail + hdr.len - 1
     THEN data[i - buffer_tail + 1] ELSE buffer[i]]

Push(hdr, data) ==
  /\ Fits(hdr)
  /\ hdrs' = [hdrs EXCEPT ![hdrs_tail] = hdr]
  /\ hdrs_tail' = hdrs_tail + 1
  /\ buffer' = Copy(hdr, data)
  /\ buffer_tail' = buffer_tail + hdr.len
  /\ UNCHANGED <<hdrs_head, buffer_head>>

\* The data of the packet at the head.
HeadData == [b \in 1 .. Peek.len |-> buffer[buffer_head + b - 1]]

\* By how much the data's head moves.
CapturedLength == Peek.caplen   \* mistake: the captured length
HeadLength == Peek.len

\* queue_pop(), and then the caller's change of the time stamp in the header popped.
Pop(ts) ==
  /\ ~Empty
  /\ buffer_head' = buffer_head + HeadLength
  /\ hdrs_head' = hdrs_head + 1
  /\ hdrs' = [hdrs EXCEPT ![hdrs_head].ts = ts]
  /\ UNCHANGED <<hdrs_tail, buffer, buffer_tail>>
-------------------------------------------------------------------------------------
(* The queue that the arrays represent.                                              *)

\* Where the data of the k-th packet of the queue begins: after all those before it.
DataStart(k) ==
  buffer_head + Tally(hdrs_head .. hdrs_head + k - 2, [i \in DOMAIN hdrs |-> hdrs[i].len])

Contents ==
  [k \in 1 .. hdrs_tail - hdrs_head |->
     LET h == hdrs[hdrs_head + k - 1]
     IN  [ts |-> h.ts, caplen |-> h.caplen,
          data |-> [b \in 1 .. h.len |-> buffer[DataStart(k) + b - 1]]]]
=====================================================================================
