---------------------------------- MODULE Products ----------------------------------
(***********************************************************************************)
(* Products and powers of natural numbers, as folds.  Entropy needs them: pow() of     *)
(* the C library for whole arguments, and a sum of logarithms, which is compared with  *)
(* another through the product it is the logarithm of.                                *)
(***********************************************************************************)
EXTENDS Integers, FiniteSets, Folds

\* The product of the numbers w[k] for the elements k of S, and a to the n-th power.
Product(S, w) ==
  MapThenFoldSet(LAMBDA a, b : a * b, 1, LAMBDA k : w[k], LAMBDA T : CHOOSE k \in T : TRUE, S)
Power(a, n) == Product(1 .. n, [k \in 1 .. n |-> a])
=====================================================================================
