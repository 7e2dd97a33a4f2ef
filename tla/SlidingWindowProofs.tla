---------------------------- MODULE SlidingWindowProofs ----------------------------
(***********************************************************************************)
(* What is proved of SlidingWindow, for every table of counters and every size of    *)
(* the window.                                                                       *)
(***********************************************************************************)
EXTENDS SlidingWindow, TallyTheorems

USE DEF windowVars, slidingVars

\* The weights of a column are natural numbers.
LEMMA ColumnType ==
  ASSUME intervals \in [Slots -> [Cells -> Nat]], NEW f \in Scalars
  PROVE  \A i \in Slots : /\ Column(<<f, 0>>)[i] = intervals[i][<<f, 0>>]
                          /\ Column(<<f, 0>>)[i] \in Nat
  <1>1. <<f, 0>> \in Cells
    BY DEF Cells
  <1> QED
    BY <1>1 DEF Column

\* A window inside the vector is a finite set of its indices.
LEMMA WindowInside ==
  ASSUME NEW n \in Nat, n <= NumIntervals - NumSubintervals
  PROVE  Window(n) \subseteq Slots /\ IsFiniteSet(Window(n))
  <1>1. Window(n) \subseteq Slots
    BY WindowAssumption DEF Window, Slots
  <1>2. IsFiniteSet(Window(n))
    BY FS_Interval, WindowAssumption DEF Window
  <1> QED
    BY <1>1, <1>2

\* A window that moves on by one loses its first sub-interval and gains the next.
LEMMA WindowMoves ==
  ASSUME intervals \in [Slots -> [Cells -> Nat]], NEW f \in Scalars,
         NEW n \in Nat, n < NumIntervals - NumSubintervals
  PROVE  /\ WindowSum(n, <<f, 0>>) \in Nat
         /\ WindowSum(n + 1, <<f, 0>>) =
              WindowSum(n, <<f, 0>>)
                + (intervals[n + NumSubintervals][<<f, 0>>] - intervals[n][<<f, 0>>])
  <1> DEFINE w == Column(<<f, 0>>)  m == n + NumSubintervals
  <1>1. /\ Window(n) = n .. m - 1 /\ Window(n + 1) = n + 1 .. m
        /\ m \in Nat /\ n < m /\ n .. m \subseteq Slots
    BY WindowAssumption DEF Window, Slots
  <1>2. \A i \in Slots : w[i] = intervals[i][<<f, 0>>] /\ w[i] \in Nat
    BY ColumnType
  <1> HIDE DEF w, m
  <1>3. \A i \in n .. m : w[i] \in Nat
    BY <1>1, <1>2
  <1>4. /\ Tally(n .. m - 1, w) \in Nat
        /\ Tally(n + 1 .. m, w) = Tally(n .. m - 1, w) + (w[m] - w[n])
    BY <1>1, <1>3, TallyMoves
  <1>5. w[m] = intervals[m][<<f, 0>>] /\ w[n] = intervals[n][<<f, 0>>]
    <2>1. m \in n .. m /\ n \in n .. m
      BY <1>1
    <2> QED
      BY <1>1, <1>2, <2>1
  <1> QED
    BY <1>1, <1>4, <1>5 DEF WindowSum, w, m

-------------------------------------------------------------------------------------
(* The running totals.                                                               *)

\* The inductive invariant: the table is as it was, and the totals are those of the
\* window.
TotalsInv ==
  /\ intervals \in [Slots -> [Cells -> Nat]]
  /\ j \in Nat /\ j <= NumIntervals - NumSubintervals
  /\ stage = "prepare" => j = 0
  /\ DOMAIN total = Scalars
  /\ TotalsTrackWindow

\* A step keeps it, whether it is one of the window or changes nothing it reads.
LEMMA TotalsStep ==
  ASSUME TotalsInv, NextWindow \/ UNCHANGED <<intervals, slidingVars>>
  PROVE  TotalsInv'
  <1>0. intervals' = intervals
    BY DEF NextWindow, Prepare, Slide, PrintResult
  <1>1. CASE UNCHANGED <<intervals, slidingVars>>
    BY <1>1 DEF TotalsInv, TotalsTrackWindow, WindowSum, Column, Window
  <1>2. CASE Prepare
    <2>1. j' = 0 /\ stage' = "sliding"
          /\ total' = [f \in Scalars |-> WindowSum(0, <<f, 0>>)]
      BY <1>2 DEF Prepare, TotalsInv
    <2>2. \A f \in Scalars : total'[f] = WindowSum(0, <<f, 0>>)
      BY <2>1
    <2>3. \A f \in Scalars : (WindowSum(j, <<f, 0>>))' = WindowSum(0, <<f, 0>>)
      BY <1>0, <2>1 DEF WindowSum, Column, Window
    <2>4. TotalsTrackWindow'
      BY <2>2, <2>3 DEF TotalsTrackWindow
    <2> QED
      BY <1>0, <2>1, <2>4, WindowAssumption DEF TotalsInv
  <1>3. CASE Slide
    <2>1. j' = j + 1 /\ stage' = "sliding" /\ stage = "sliding"
          /\ j < NumIntervals - NumSubintervals
      BY <1>3 DEF Slide
    <2>2. total' = [f \in Scalars |-> total[f] +
                     (intervals[j + NumSubintervals][<<f, 0>>] - intervals[j][<<f, 0>>])]
      BY <1>3 DEF Slide, Entering
    <2>3. \A f \in Scalars : total'[f] = WindowSum(j + 1, <<f, 0>>)
      <3> SUFFICES ASSUME NEW f \in Scalars
                   PROVE  total'[f] = WindowSum(j + 1, <<f, 0>>)
        OBVIOUS
      <3>1. total[f] = WindowSum(j, <<f, 0>>)
        BY <2>1 DEF TotalsInv, TotalsTrackWindow
      <3> QED
        BY <2>1, <2>2, <3>1, WindowMoves DEF TotalsInv
    <2>4. \A f \in Scalars : (WindowSum(j, <<f, 0>>))' = WindowSum(j + 1, <<f, 0>>)
      BY <1>0, <2>1 DEF WindowSum, Column, Window
    <2>5. TotalsTrackWindow'
      BY <2>3, <2>4 DEF TotalsTrackWindow
    <2> QED
      BY <1>0, <2>1, <2>2, <2>5, WindowAssumption DEF TotalsInv
  <1>4. CASE PrintResult
    BY <1>0, <1>4 DEF PrintResult, TotalsInv, TotalsTrackWindow, WindowSum, Column, Window
  <1> QED
    BY <1>1, <1>2, <1>3, <1>4 DEF NextWindow

\* The running totals are always those of the window that is evaluated next.
THEOREM RunningTotals == SpecWindow => []TotalsTrackWindow
  <1>1. (intervals \in [Slots -> [Cells -> Nat]]) /\ InitWindow => TotalsInv
    BY WindowAssumption DEF InitWindow, TotalsInv, TotalsTrackWindow
  <1>2. TotalsInv /\ [NextWindow]_windowVars => TotalsInv'
    BY TotalsStep
  <1>3. TotalsInv => TotalsTrackWindow
    BY DEF TotalsInv
  <1> QED
    BY <1>1, <1>2, <1>3, PTL DEF SpecWindow

-------------------------------------------------------------------------------------
(* The bytes reported at the end.                                                    *)

LEMMA Division ==
  ASSUME NEW a \in Nat, NEW m \in Nat \ {0}
  PROVE  /\ a \div m \in Nat
         /\ a % m \in 0 .. m - 1
         /\ a = m * (a \div m) + (a % m)
  BY Z3

\* Quotient and remainder are unique.
LEMMA DivisionUnique ==
  ASSUME NEW m \in Nat \ {0}, NEW p \in Nat, NEW q \in Nat,
         NEW r \in 0 .. m - 1, NEW s \in 0 .. m - 1, m * p + r = m * q + s
  PROVE  r = s
  <1>1. m * p \in Nat /\ m * q \in Nat
    OBVIOUS
  <1>2. CASE p = q
    BY <1>1, <1>2
  <1>3. CASE p >= q + 1
    <2>1. m * p >= m * (q + 1)
      BY <1>3, Z3
    <2>2. m * (q + 1) = m * q + m
      BY Z3
    <2> QED
      BY <1>1, <2>1, <2>2
  <1>4. CASE q >= p + 1
    <2>1. m * q >= m * (p + 1)
      BY <1>4, Z3
    <2>2. m * (p + 1) = m * p + m
      BY Z3
    <2> QED
      BY <1>1, <2>1, <2>2
  <1> QED
    BY <1>2, <1>3, <1>4

\* The remainder of a sum is that of the sum with the remainder.
LEMMA RemainderOfSum ==
  ASSUME NEW m \in Nat \ {0}, NEW a \in Nat, NEW b \in Nat
  PROVE  ((a % m) + b) % m = (a + b) % m
  <1> DEFINE r == a % m  q == a \div m
             y == r + b  s == y % m  p == y \div m
             z == a + b  v == z % m  u == z \div m
  <1>1. r \in 0 .. m - 1 /\ q \in Nat /\ a = m * q + r
    BY Division
  <1>2. y \in Nat
    BY <1>1
  <1>3. s \in 0 .. m - 1 /\ p \in Nat /\ y = m * p + s
    BY <1>2, Division
  <1>4. v \in 0 .. m - 1 /\ u \in Nat /\ z = m * u + v
    <2>1. z \in Nat
      OBVIOUS
    <2> HIDE DEF z
    <2> QED
      BY <2>1, Division
  <1>5. y = r + b /\ z = a + b
    OBVIOUS
  <1> HIDE DEF r, q, y, s, p, z, v, u
  <1>6. m * (q + p) = m * q + m * p
    BY <1>1, <1>3, Z3
  <1>7. m * (q + p) + s = m * u + v
    <2>1. m * q \in Nat /\ m * p \in Nat /\ m * u \in Nat
      BY <1>1, <1>3, <1>4
    <2> QED
      BY <1>1, <1>2, <1>3, <1>4, <1>5, <1>6, <2>1
  <1>8. s = v
    BY <1>1, <1>3, <1>4, <1>7, DivisionUnique
  <1> QED
    BY <1>8 DEF s, v, y, z, r

\* Adding to a wrapped number wraps to the same as adding before.
LEMMA WrapAdd ==
  ASSUME NEW x \in Nat, NEW b \in Nat
  PROVE  Wrap(Wrap(x) + b) = Wrap(x + b)
  <1> DEFINE m == 2 * IntLimit  a == x + IntLimit
  <1>1. m \in Nat \ {0} /\ a \in Nat
    BY WindowAssumption
  <1>2. ((a % m) + b) % m = (a + b) % m
    <2> HIDE DEF m, a
    <2> QED
      BY <1>1, RemainderOfSum
  <1>3. a % m \in Nat
    <2> HIDE DEF m, a
    <2> QED
      BY <1>1, Division
  <1>4. ((a % m) - IntLimit) + b + IntLimit = (a % m) + b
    <2> DEFINE r == a % m
    <2> HIDE DEF r
    <2>1. r \in Nat
      BY <1>3 DEF r
    <2>2. (r - IntLimit) + b + IntLimit = r + b
      BY <2>1, WindowAssumption
    <2> QED
      BY <2>2 DEF r
  <1>5. (x + b) + IntLimit = a + b
    BY WindowAssumption
  <1> QED
    BY <1>2, <1>4, <1>5 DEF Wrap

\* The bytes of the sub-intervals before n.
BytesBefore(n) == Tally(0 .. n - 1, Column(<<"num_bytes", 0>>))

\* One more sub-interval adds its bytes.
LEMMA BytesStep ==
  ASSUME intervals \in [Slots -> [Cells -> Nat]], NEW n \in Nat, n < NumIntervals
  PROVE  /\ BytesBefore(n) \in Nat
         /\ intervals[n][<<"num_bytes", 0>>] \in Nat
         /\ BytesBefore(n + 1) = BytesBefore(n) + intervals[n][<<"num_bytes", 0>>]
  <1> DEFINE w == Column(<<"num_bytes", 0>>)  before == 0 .. n - 1
  <1>1. \A i \in Slots : w[i] = intervals[i][<<"num_bytes", 0>>] /\ w[i] \in Nat
    BY ColumnType DEF Scalars
  <1>2. 0 .. (n + 1) - 1 = before \cup {n} /\ n \notin before
        /\ before \cup {n} \subseteq Slots
    BY WindowAssumption DEF Slots
  <1>3. IsFiniteSet(before)
    BY FS_Interval
  <1> HIDE DEF w, before
  <1>4. \A i \in before \cup {n} : w[i] \in Nat
    BY <1>1, <1>2
  <1>5. Tally(before, w) \in Nat
    BY <1>3, <1>4, TallyType
  <1>6. Tally(before \cup {n}, w) = Tally(before, w) + w[n]
    BY <1>2, <1>3, <1>4, TallyAdd
  <1>7. w[n] = intervals[n][<<"num_bytes", 0>>] /\ w[n] \in Nat
    BY <1>1, <1>2
  <1>8. BytesBefore(n) = Tally(before, w)
        /\ BytesBefore(n + 1) = Tally(before \cup {n}, w)
    BY <1>2 DEF BytesBefore, before, w
  <1> QED
    BY <1>5, <1>6, <1>7, <1>8

\* The inductive invariant: the bytes so far are those up to the end of the window.
BytesInv ==
  /\ intervals \in [Slots -> [Cells -> Nat]]
  /\ j \in Nat /\ j <= NumIntervals - NumSubintervals
  /\ stage = "prepare" => j = 0
  /\ stage # "prepare" => t_total_bytes = Wrap(BytesBefore(j + NumSubintervals))
  /\ stage = "done" => j = NumIntervals - NumSubintervals

\* A step keeps it.
LEMMA BytesInvStep ==
  ASSUME BytesInv, NextWindow \/ UNCHANGED <<intervals, slidingVars>>
  PROVE  BytesInv'
  <1>0. intervals' = intervals /\ Column(<<"num_bytes", 0>>)' = Column(<<"num_bytes", 0>>)
    BY DEF NextWindow, Prepare, Slide, PrintResult, Column
  <1>1. CASE UNCHANGED <<intervals, slidingVars>>
    BY <1>1, <1>0 DEF BytesInv, BytesBefore
  <1>2. CASE Prepare
    <2>1. j = 0 /\ j' = 0 /\ stage' = "sliding"
          /\ t_total_bytes' = Wrap(WindowSum(0, <<"num_bytes", 0>>))
      BY <1>2 DEF Prepare, BytesInv
    <2>2. Window(0) = 0 .. (0 + NumSubintervals) - 1
      BY WindowAssumption DEF Window
    <2>3. (BytesBefore(j + NumSubintervals))' = WindowSum(0, <<"num_bytes", 0>>)
      BY <1>0, <2>1, <2>2 DEF BytesBefore, WindowSum
    <2> QED
      BY <1>0, <2>1, <2>3, WindowAssumption DEF BytesInv, Wrap
  <1>3. CASE Slide
    <2> DEFINE n == j + NumSubintervals
    <2>1. j' = j + 1 /\ stage' = "sliding" /\ stage = "sliding" /\ n < NumIntervals
          /\ n \in Nat /\ n + 1 = j' + NumSubintervals
          /\ j + 1 \in Nat /\ j + 1 <= NumIntervals - NumSubintervals
      BY <1>3, WindowAssumption DEF Slide, BytesInv
    <2>2. t_total_bytes' = Wrap(t_total_bytes + intervals[n][<<"num_bytes", 0>>])
      BY <1>3 DEF Slide, Entering
    <2>3. t_total_bytes = Wrap(BytesBefore(n))
      BY <2>1 DEF BytesInv
    <2> HIDE DEF n
    <2>4. t_total_bytes' = Wrap(BytesBefore(n + 1))
      <3>1. /\ BytesBefore(n) \in Nat
            /\ intervals[n][<<"num_bytes", 0>>] \in Nat
            /\ BytesBefore(n + 1) = BytesBefore(n) + intervals[n][<<"num_bytes", 0>>]
        BY <2>1, BytesStep DEF BytesInv
      <3>2. Wrap(Wrap(BytesBefore(n)) + intervals[n][<<"num_bytes", 0>>])
              = Wrap(BytesBefore(n) + intervals[n][<<"num_bytes", 0>>])
        BY <3>1, WrapAdd
      <3> QED
        BY <2>2, <2>3, <3>1, <3>2
    <2>5. (BytesBefore(j + NumSubintervals))' = BytesBefore(n + 1)
      BY <1>0, <2>1 DEF BytesBefore
    <2> QED
      BY <1>0, <2>1, <2>4, <2>5 DEF BytesInv, Wrap
  <1>4. CASE PrintResult
    BY <1>0, <1>4 DEF PrintResult, BytesInv, BytesBefore
  <1> QED
    BY <1>1, <1>2, <1>3, <1>4 DEF NextWindow

\* At the end the window has covered all the sub-intervals but the spare one.
LEMMA BytesGrandTotal == BytesInv => GrandTotal
  <1> SUFFICES ASSUME BytesInv, stage = "done"
               PROVE  t_total_bytes = Wrap(Tally(Slots \ {NumIntervals},
                                                 Column(<<"num_bytes", 0>>)))
    BY DEF GrandTotal
  <1>1. 0 .. (j + NumSubintervals) - 1 = Slots \ {NumIntervals}
    BY WindowAssumption DEF BytesInv, Slots
  <1> QED
    BY <1>1 DEF BytesInv, BytesBefore

\* The bytes printed are those of all the sub-intervals but the spare one, wrapped to
\* the width of an int.
THEOREM BytesReported == SpecWindow => []GrandTotal
  <1>1. (intervals \in [Slots -> [Cells -> Nat]]) /\ InitWindow => BytesInv
    BY WindowAssumption DEF InitWindow, BytesInv
  <1>2. BytesInv /\ [NextWindow]_windowVars => BytesInv'
    BY BytesInvStep
  <1> QED
    BY <1>1, <1>2, BytesGrandTotal, PTL DEF SpecWindow

=====================================================================================
