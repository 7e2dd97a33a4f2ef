---------------------------------- MODULE Tally ----------------------------------
(*********************************************************************************)
(* Weighted counts.  Every figure the program keeps about a set of packets (how  *)
(* many there are, how many carry the SYN or the DF flag, how many bytes they    *)
(* have) is the total of a natural-number weight over that set.  The total is    *)
(* defined as the number of "units" in the set, a packet of weight w             *)
(* contributing the units 1 .. w: a definition without recursion, so that the    *)
(* running counters of the program can be proved equal to it.                    *)
(*********************************************************************************)
EXTENDS Integers, FiniteSets

\* The units that the packets of S contribute under the weights w.
Units(S, w) == UNION { {k} \X (1 .. w[k]) : k \in S }

\* The total weight of the packets of S.
Tally(S, w) == Cardinality(Units(S, w))

==================================================================================
