------------------------------------ MODULE Entropy ------------------------------------
(***********************************************************************************)
(* The formulas of Entropy.cpp.  An entropy e is given the probabilities a / e.over, for *)
(* the numerators a in e.terms.  GetValue() returns a real number; what can be decided   *)
(* of it in integers is how it compares with 0 and with 100 (per cent): "negative",      *)
(* "zero", "part" (less than 100), "all" (100), "more", or "nan".  For the parameter q    *)
(* only integers are considered, of the ranges for which work.py tries the formulas.     *)
(*                                                                                  *)
(* Non-negative doubles are pairs <<n, d>>, for the quotient n / d: with d = 0, it is     *)
(* infinite, or, with n = 0 too, not a number.                                         *)
(***********************************************************************************)
EXTENDS Tally, Products

Kinds == {"shannon", "tsalis", "tsalis2", "renyi", "ubriaco", "bhatiasingh"}

NaN(x) == x = <<0, 0>>
Less(x, y) == x[1] * y[2] < y[1] * x[2]
Equal(x, y) == x[1] * y[2] = y[1] * x[2]
One == <<1, 1>>

\* |1 - x|, and the greater one of x and 1 / x, of which |log(x)| is the logarithm.
Distance(x) == <<IF x[1] > x[2] THEN x[1] - x[2] ELSE x[2] - x[1], x[2]>>
Magnitude(x) == IF x[1] > x[2] THEN x ELSE <<x[2], x[1]>>

\* A positive value that is x / y of the whole.
Percent(x, y) == IF Less(x, y) THEN "part" ELSE IF Equal(x, y) THEN "all" ELSE "more"
-------------------------------------------------------------------------------------
\* The terms that Add() counts: a probability 0 is left out by two of the kinds.
Added(kind, e) ==
  {x \in DOMAIN e.terms : kind \in {"shannon", "ubriaco"} => e.terms[x] # 0 \/ e.over = 0}

\* m_count: what SetCount() was given, or, if it was not called (0), the number of terms.
Counted(kind, e, set) == Cardinality(Added(kind, e))   \* mistake: SetCount() has no effect
Count(kind, e, set) == IF set > 0 THEN set ELSE Cardinality(Added(kind, e))

\* pow(n, q), and the sum of pow(p, q) over the terms.
Pow(n, q) == IF q < 0 THEN <<1, Power(n, -q)>> ELSE <<Power(n, q), 1>>
PowerSum(e, q) ==
  LET S == DOMAIN e.terms
      a == [x \in S |-> Power(e.terms[x], IF q < 0 THEN -q ELSE q)]
      p == Product(S, a)
  IN  IF S = {} THEN <<0, 1>>
      ELSE IF q >= 0 THEN <<Tally(S, a), Power(e.over, q)>>
      ELSE IF p = 0 THEN <<e.over, 0>>
      ELSE <<Power(e.over, -q) * Tally(S, [x \in S |-> p \div a[x]]), p>>

\* m_value == 0, of which RenyiEntropy takes no logarithm.
AnyLogarithm(v) == FALSE   \* mistake: log(0)
NoLogarithm(v) == v[1] = 0

\* The kinds made of a sum of powers, v; t is pow(m_count, 1 - m_q).
OfPowers(kind, v, t) ==
  IF NaN(v) THEN "nan"
  ELSE IF kind = "renyi" /\ NoLogarithm(v) THEN "zero"
  ELSE IF Equal(t, One) \/ t[2] = 0 THEN IF v[2] = 0 THEN "nan" ELSE "zero"
  ELSE IF kind = "tsalis2" THEN IF v[1] = 0 THEN "zero" ELSE Percent(v, Distance(t))
  ELSE IF Equal(v, One) THEN "zero"
  ELSE IF kind = "renyi" THEN Percent(Magnitude(v), Magnitude(t))
  ELSE IF Less(v, One) <=> Less(t, One) THEN Percent(Distance(v), Distance(t))
  ELSE "negative"

\* The sum of - p log(p) over the terms S, compared with log(n), n > 1.
Certain(e, S) == \A x \in S : e.terms[x] = e.over
OfLogarithms(e, S, n) ==
  LET w == [x \in S |-> Power(e.terms[x], e.terms[x])]
  IN  IF Certain(e, S) THEN "zero"
      ELSE Percent(<<Power(e.over, Tally(S, e.terms)), 1>>,
                   <<Power(n, e.over) * Product(S, w), 1>>)

Shannon(e, S, n) ==
  IF n > 1 THEN OfLogarithms(e, S, n) ELSE IF Certain(e, S) THEN "zero" ELSE "part"

\* For q >= 0: with q = 0 the sum of the probabilities, with q = 1 the logarithms over
\* log(n); with a greater q it is "part" when it is positive, for n > 1.
Ubriaco(e, S, n, q) ==
  IF q = 0 THEN IF S = {} THEN "zero" ELSE Percent(<<Tally(S, e.terms), 1>>, <<e.over, 1>>)
  ELSE IF n = 1 THEN IF Certain(e, S) THEN "nan" ELSE "more"
  ELSE IF q = 1 \/ Certain(e, S) THEN OfLogarithms(e, S, n)
  ELSE "part"

\* For q > 0; it is not scaled to 100, and "part" when it is positive.
BhatiaSingh(e, S, n) ==
  IF \E x \in S : e.terms[x] = 0 THEN "nan"
  ELSE IF Certain(e, S) THEN IF n = 1 THEN "nan" ELSE "zero"
  ELSE IF n = 1 THEN "more" ELSE "part"

\* GetValue() of an entropy of one of the kinds; `set' is the argument of SetCount(), or 0.
GetValue(kind, q, e, set) ==
  LET S == Added(kind, e)  n == Count(kind, e, set)
  IN  IF kind \in {"tsalis", "tsalis2", "renyi"}
      THEN OfPowers(kind, PowerSum(e, q), Pow(n, 1 - q))
      ELSE IF e.over = 0 /\ S # {} THEN "nan"
      ELSE CASE kind = "shannon" -> Shannon(e, S, n)
             [] kind = "ubriaco" -> Ubriaco(e, S, n, q)
             [] kind = "bhatiasingh" -> BhatiaSingh(e, S, n)
=====================================================================================
