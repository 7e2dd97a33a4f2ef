----------------------------------- MODULE MCSweep -----------------------------------
(* Samples for Sweep: every level of every sample, and one to three attacks that begin and  *)
(* end anywhere, within a sample as well as on its edge, the last one perhaps too late.  *)
EXTENDS Sweep

Attack(s, e) == [start |-> s, end |-> e]

MCAttackTimes ==
  { <<Attack(1, 4)>>, <<Attack(4, 9)>>, <<Attack(2, 12)>>,
    <<Attack(0, 3), Attack(6, 8)>>, <<Attack(1, 5), Attack(5, 9)>>,
    <<Attack(0, 2), Attack(7, 10)>>, <<Attack(2, 4), Attack(9, 13)>>,
    <<Attack(0, 1), Attack(3, 4), Attack(8, 9)>> }
=======================================================================================
