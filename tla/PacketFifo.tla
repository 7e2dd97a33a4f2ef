--------------------------------- MODULE PacketFifo ---------------------------------
(* What the merger expects of its packet queue: what is taken out of it is what was   *)
(* put in, in the same order, each packet once and with its own data.                 *)
EXTENDS Naturals, Sequences

VARIABLES
  waiting,   \* the packets in the queue
  gone       \* the packets taken out, in order

fifoVars == <<waiting, gone>>

InitFifo == waiting = << >> /\ gone = << >>

\* Some packet is put in at the end.
Put ==
  /\ Len(waiting') = Len(waiting) + 1
  /\ SubSeq(waiting', 1, Len(waiting)) = waiting
  /\ UNCHANGED gone

\* The packet that has waited longest is taken out.
Take ==
  /\ waiting # << >>
  /\ gone' = Append(gone, Head(waiting))
  /\ waiting' = Tail(waiting)

FifoSpec == InitFifo /\ [][Put \/ Take]_fifoVars
=====================================================================================
