------------------------------ MODULE TallyTheorems ------------------------------
(*********************************************************************************)
(* How a weighted count changes when packets join or leave the set counted; and what *)
(* is needed of sums of squares, of products and of powers: which terms of a given    *)
(* sum make them greatest.                                                         *)
(*********************************************************************************)
EXTENDS Rows, Products, FiniteSetTheorems, WellFoundedInduction, TLAPS

\* The units of one packet: as many as its weight.
LEMMA UnitsOfOne ==
  ASSUME NEW k, NEW n \in Nat
  PROVE  /\ IsFiniteSet({k} \X (1 .. n))
         /\ Cardinality({k} \X (1 .. n)) = n
  <1>1. IsFiniteSet(1 .. n) /\ Cardinality(1 .. n) = n
    BY FS_Interval
  <1>2. IsFiniteSet({k}) /\ Cardinality({k}) = 1
    BY FS_Singleton
  <1>3. Cardinality({k}) * Cardinality(1 .. n) = n
    BY <1>1, <1>2
  <1> QED
    BY <1>1, <1>2, <1>3, FS_Product

\* A finite set of packets has finitely many units.
LEMMA UnitsFinite ==
  ASSUME NEW S, IsFiniteSet(S), NEW w, \A k \in S : w[k] \in Nat
  PROVE  IsFiniteSet(Units(S, w))
  <1> DEFINE parts == { {k} \X (1 .. w[k]) : k \in S }
  <1>1. IsFiniteSet(parts)
    <2> DEFINE part == [k \in S |-> {k} \X (1 .. w[k])]
    <2>1. part \in Surjection(S, parts)
      BY DEF Surjection
    <2> QED
      BY <2>1, FS_Surjection
  <1>2. \A T \in parts : IsFiniteSet(T)
    <2> SUFFICES ASSUME NEW k \in S
                 PROVE  IsFiniteSet({k} \X (1 .. w[k]))
      OBVIOUS
    <2> QED
      BY UnitsOfOne
  <1>3. IsFiniteSet(UNION parts)
    BY <1>1, <1>2, FS_UNION
  <1> QED
    BY <1>3 DEF Units

\* So its tally is a natural number.
LEMMA TallyType ==
  ASSUME NEW S, IsFiniteSet(S), NEW w, \A k \in S : w[k] \in Nat
  PROVE  Tally(S, w) \in Nat
  BY UnitsFinite, FS_CardinalityType DEF Tally

\* Nothing has no weight.
LEMMA TallyEmpty ==
  ASSUME NEW w
  PROVE  Tally({}, w) = 0
  <1>1. Units({}, w) = {}
    BY DEF Units
  <1> QED
    BY <1>1, FS_EmptySet DEF Tally

\* The tally of two sets of packets that share none is the sum of their tallies.
LEMMA TallyUnion ==
  ASSUME NEW S, IsFiniteSet(S), NEW T, IsFiniteSet(T), S \cap T = {},
         NEW w, \A k \in S \cup T : w[k] \in Nat
  PROVE  Tally(S \cup T, w) = Tally(S, w) + Tally(T, w)
  <1>1. IsFiniteSet(Units(S, w)) /\ IsFiniteSet(Units(T, w))
    BY UnitsFinite
  <1>2. Units(S \cup T, w) = Units(S, w) \cup Units(T, w)
    BY DEF Units
  <1>3. Units(S, w) \cap Units(T, w) = {}
    BY DEF Units
  <1>4. Cardinality(Units(S, w) \cap Units(T, w)) = 0
    BY <1>3, FS_EmptySet
  <1>5. Cardinality(Units(S, w)) \in Nat /\ Cardinality(Units(T, w)) \in Nat
    BY <1>1, FS_CardinalityType
  <1> DEFINE u == Units(S, w)
             v == Units(T, w)
  <1>6. Cardinality(u \cup v) = Cardinality(u) + Cardinality(v) - Cardinality(u \cap v)
    <2> HIDE DEF u, v
    <2> QED
      BY <1>1, FS_Union DEF u, v
  <1>7. Cardinality(u \cup v) = Cardinality(u) + Cardinality(v)
    <2> HIDE DEF u, v
    <2>1. Cardinality(u \cap v) = 0
      BY <1>4 DEF u, v
    <2>2. Cardinality(u) \in Nat /\ Cardinality(v) \in Nat
      BY <1>5 DEF u, v
    <2> QED
      BY <2>1, <2>2, <1>6
  <1> QED
    BY <1>2, <1>7 DEF Tally

\* The tally of one packet is its weight.
LEMMA TallyOne ==
  ASSUME NEW k, NEW w, w[k] \in Nat
  PROVE  Tally({k}, w) = w[k]
  <1>1. Units({k}, w) = {k} \X (1 .. w[k])
    BY DEF Units
  <1> QED
    BY <1>1, UnitsOfOne DEF Tally

\* A packet that joins the set adds its weight.
LEMMA TallyAdd ==
  ASSUME NEW S, IsFiniteSet(S), NEW k, k \notin S,
         NEW w, \A m \in S \cup {k} : w[m] \in Nat
  PROVE  Tally(S \cup {k}, w) = Tally(S, w) + w[k]
  <1>1. IsFiniteSet({k})
    BY FS_Singleton
  <1>2. S \cap {k} = {}
    OBVIOUS
  <1>3. Tally({k}, w) = w[k]
    BY TallyOne
  <1> QED
    BY <1>1, <1>2, <1>3, TallyUnion

\* Packets of no weight do not count.
LEMMA TallyZero ==
  ASSUME NEW S, NEW w, \A k \in S : w[k] = 0
  PROVE  Tally(S, w) = 0
  <1>1. Units(S, w) = {}
    BY DEF Units
  <1> QED
    BY <1>1, FS_EmptySet DEF Tally

\* Weights that are the same for the packets of the set give the same tally.
LEMMA TallySame ==
  ASSUME NEW S, NEW v, NEW w, \A k \in S : v[k] = w[k]
  PROVE  Tally(S, v) = Tally(S, w)
  <1>1. Units(S, v) = Units(S, w)
    BY DEF Units
  <1> QED
    BY <1>1 DEF Tally

\* When the weight of one packet of the set grows, the tally grows by as much.
LEMMA TallyGrows ==
  ASSUME NEW S, IsFiniteSet(S), NEW n \in S, NEW v, NEW w, NEW d \in Nat,
         \A k \in S : v[k] \in Nat, w[n] = v[n] + d, \A k \in S \ {n} : w[k] = v[k]
  PROVE  Tally(S, w) = Tally(S, v) + d
  <1> DEFINE T == S \ {n}
  <1>1. IsFiniteSet(T) /\ n \notin T /\ S = T \cup {n}
    BY FS_RemoveElement
  <1>2. \A k \in T \cup {n} : v[k] \in Nat /\ w[k] \in Nat
    <2>1. v[n] \in Nat /\ w[n] \in Nat
      OBVIOUS
    <2> QED
      BY <2>1
  <1> HIDE DEF T
  <1>3. Tally(S, v) = Tally(T, v) + v[n] /\ Tally(S, w) = Tally(T, w) + w[n]
    BY <1>1, <1>2, TallyAdd
  <1>4. Tally(T, w) = Tally(T, v)
    <2>1. \A k \in T : w[k] = v[k]
      BY DEF T
    <2> QED
      BY <2>1, TallySame
  <1>5. Tally(T, v) \in Nat /\ v[n] \in Nat
    BY <1>1, <1>2, TallyType
  <1> QED
    BY <1>3, <1>4, <1>5

\* Of weights that are numbered, the tally of the first ones grows by the next one.
LEMMA TallyNext ==
  ASSUME NEW w, NEW n \in Nat, \A i \in 0 .. n - 1 : w[i] \in Nat
  PROVE  /\ \A i \in 0 .. n : Tally(0 .. i - 1, w) \in Nat
         /\ \A i \in 0 .. n - 1 : Tally(0 .. (i + 1) - 1, w) = Tally(0 .. i - 1, w) + w[i]
  <1>1. ASSUME NEW i \in 0 .. n
        PROVE  Tally(0 .. i - 1, w) \in Nat
    <2>1. IsFiniteSet(0 .. i - 1)
      BY FS_Interval
    <2>2. \A h \in 0 .. i - 1 : w[h] \in Nat
      OBVIOUS
    <2> QED
      BY <2>1, <2>2, TallyType
  <1>2. ASSUME NEW i \in 0 .. n - 1
        PROVE  Tally(0 .. (i + 1) - 1, w) = Tally(0 .. i - 1, w) + w[i]
    <2>1. IsFiniteSet(0 .. i - 1) /\ i \notin 0 .. i - 1
      BY FS_Interval
    <2>2. (0 .. (i + 1) - 1) = (0 .. i - 1) \cup {i}
      OBVIOUS
    <2>3. \A h \in (0 .. i - 1) \cup {i} : w[h] \in Nat
      OBVIOUS
    <2> QED
      BY <2>1, <2>2, <2>3, TallyAdd, ZenonT(30)
  <1> QED
    BY <1>1, <1>2

\* The tally of an interval that moves on by one loses the first weight and gains the next.
LEMMA TallyMoves ==
  ASSUME NEW w, NEW a \in Nat, NEW b \in Nat, a < b, \A i \in a .. b : w[i] \in Nat
  PROVE  /\ Tally(a .. b - 1, w) \in Nat
         /\ Tally(a + 1 .. b, w) = Tally(a .. b - 1, w) + (w[b] - w[a])
  <1> DEFINE kept == a + 1 .. b - 1
  <1>1. a .. b - 1 = kept \cup {a} /\ a + 1 .. b = kept \cup {b} /\ a \notin kept /\ b \notin kept
    OBVIOUS
  <1>2. IsFiniteSet(kept) /\ \A i \in kept \cup {a, b} : w[i] \in Nat
    BY FS_Interval
  <1> HIDE DEF kept
  <1>3. /\ Tally(kept \cup {a}, w) = Tally(kept, w) + w[a]
        /\ Tally(kept \cup {b}, w) = Tally(kept, w) + w[b]
        /\ Tally(kept, w) \in Nat /\ w[a] \in Nat /\ w[b] \in Nat
    BY <1>1, <1>2, TallyAdd, TallyType
  <1>4. /\ Tally(a .. b - 1, w) = Tally(kept, w) + w[a]
        /\ Tally(a + 1 .. b, w) = Tally(kept, w) + w[b]
    BY <1>1, <1>3
  <1> DEFINE x == Tally(kept, w)  y == w[a]  z == w[b]
  <1>5. x \in Nat /\ y \in Nat /\ z \in Nat
    BY <1>3
  <1> HIDE DEF x, y, z
  <1>6. x + y \in Nat /\ x + z = (x + y) + (z - y)
    BY <1>5
  <1> QED
    BY <1>4, <1>6 DEF x, y, z

\* The tally of an interval is that of its two parts.
LEMMA TallySplit ==
  ASSUME NEW w, NEW a \in Nat, NEW b \in Nat, a <= b, \A i \in 0 .. b - 1 : w[i] \in Nat
  PROVE  Tally(0 .. b - 1, w) = Tally(a .. b - 1, w) + Tally(0 .. a - 1, w)
  <1> DEFINE S == a .. b - 1  T == 0 .. a - 1
  <1>1. S \cup T = 0 .. b - 1 /\ S \cap T = {} /\ \A i \in S \cup T : w[i] \in Nat
    OBVIOUS
  <1>2. IsFiniteSet(S) /\ IsFiniteSet(T)
    BY FS_Interval
  <1> HIDE DEF S, T
  <1>3. Tally(S \cup T, w) = Tally(S, w) + Tally(T, w)
    BY <1>1, <1>2, TallyUnion
  <1> QED
    BY <1>1, <1>3 DEF S, T

\* A set of natural numbers that is not empty has a smallest element.
LEMMA SmallestElement ==
  ASSUME NEW S \in SUBSET Nat, S # {}
  PROVE  \E k \in S : \A m \in S : k <= m
  <1>1. PICK k \in S : \A m \in S : ~(<<m, k>> \in OpToRel(<, Nat))
    BY NatLessThanWellFounded, WFMin
  <1>2. \A m \in S : ~(m < k)
    BY <1>1 DEF OpToRel
  <1> QED
    BY <1>2

\* Packets of no weight can be left out.
LEMMA TallySupport ==
  ASSUME NEW S, NEW T \in SUBSET S, NEW w, \A k \in S \ T : w[k] = 0
  PROVE  Tally(T, w) = Tally(S, w)
  <1>1. \A k \in S \ T : 1 .. w[k] = {}
    OBVIOUS
  <1>2. Units(T, w) = Units(S, w)
    BY <1>1 DEF Units
  <1> QED
    BY <1>2 DEF Tally

\* A tally is zero only if every weight is.
LEMMA TallyPositive ==
  ASSUME NEW S, IsFiniteSet(S), NEW w, \A k \in S : w[k] \in Nat, Tally(S, w) = 0
  PROVE  \A k \in S : w[k] = 0
  <1>1. IsFiniteSet(Units(S, w))
    BY UnitsFinite
  <1>2. Units(S, w) = {}
    BY <1>1, FS_EmptySet DEF Tally
  <1>3. ASSUME NEW k \in S, w[k] # 0
        PROVE  FALSE
    <2>1. 1 \in 1 .. w[k]
      BY <1>3
    <2>2. <<k, 1>> \in Units(S, w)
      BY <2>1 DEF Units
    <2> QED
      BY <1>2, <2>2
  <1> QED
    BY <1>3

\* When every packet has weight 1, the tally is the number of packets.
LEMMA TallyOnes ==
  ASSUME NEW S, IsFiniteSet(S), NEW w, \A k \in S : w[k] = 1
  PROVE  Tally(S, w) = Cardinality(S)
  <1>1. Units(S, w) = S \X {1}
    <2>1. 1 .. 1 = {1}
      OBVIOUS
    <2> QED
      BY <2>1 DEF Units
  <1>2. IsFiniteSet({1}) /\ Cardinality({1}) = 1 /\ Cardinality(S) \in Nat
    BY FS_Singleton, FS_CardinalityType
  <1>3. Cardinality(S \X {1}) = Cardinality(S) * 1
    BY <1>2, FS_Product
  <1> QED
    BY <1>1, <1>2, <1>3 DEF Tally

\* The packets of S are in the groups P[a] .. P[b], each in the one that g gives it; U
\* are those of them that are in one.
Grouped(S, g, a, b, P, U) ==
  /\ U \in SUBSET S
  /\ \A k \in S : k \in U <=> g[k] \in a .. b
  /\ \A i \in a .. b : P[i] \in SUBSET S
  /\ \A i \in a .. b : \A k \in S : k \in P[i] <=> g[k] = i

\* The tally of the tallies of the groups is that of all their packets.
LEMMA TallyGroups ==
  ASSUME NEW S, IsFiniteSet(S), NEW w, \A k \in S : w[k] \in Nat, NEW g,
         NEW a \in Int, NEW b \in Int, NEW P, NEW U, Grouped(S, g, a, b, P, U), NEW v,
         \A i \in a .. b : v[i] = Tally(P[i], w)
  PROVE  Tally(a .. b, v) = Tally(U, w)
  <1>0. \A i \in a .. b : v[i] = Tally({k \in S : g[k] = i}, w)
    <2> SUFFICES ASSUME NEW i \in a .. b PROVE v[i] = Tally({k \in S : g[k] = i}, w)
      OBVIOUS
    <2>1. P[i] = {k \in S : g[k] = i}
      BY DEF Grouped
    <2> QED
      BY <2>1
  <1> DEFINE In(n) == {k \in S : g[k] \in a .. (a + n) - 1}
             Same(n) == Tally(a .. (a + n) - 1, v) = Tally(In(n), w)
             D == {n \in Nat : (a + n) - 1 <= b /\ ~Same(n)}
  <1>1. Same(0)
    <2>1. a .. (a + 0) - 1 = {} /\ In(0) = {}
      OBVIOUS
    <2> QED
      BY <2>1, TallyEmpty
  <1>2. ASSUME NEW n \in Nat, (a + n) <= b, Same(n)
        PROVE  Same(n + 1)
    <2> DEFINE i == a + n  T == {k \in S : g[k] = i}  I == a .. i - 1
    <2>1. i \in a .. b /\ a .. (a + (n + 1)) - 1 = I \cup {i} /\ i \notin I
          /\ I \subseteq a .. b /\ I = a .. (a + n) - 1
      BY <1>2
    <2>2. In(n + 1) = In(n) \cup T /\ In(n) \cap T = {}
          /\ In(n) \subseteq S /\ T \subseteq S
      BY <2>1
    <2>3. IsFiniteSet(In(n)) /\ IsFiniteSet(T) /\ IsFiniteSet(I)
      <3>1. IsFiniteSet(In(n)) /\ IsFiniteSet(T)
        BY <2>2, FS_Subset
      <3>2. IsFiniteSet(I)
        BY FS_Interval
      <3> QED
        BY <3>1, <3>2
    <2>4. \A m \in I \cup {i} : v[m] \in Nat
      <3> SUFFICES ASSUME NEW m \in a .. b PROVE v[m] \in Nat
        BY <2>1
      <3> DEFINE M == {k \in S : g[k] = m}
      <3>1. M \subseteq S /\ IsFiniteSet(M)
        BY FS_Subset
      <3>2. v[m] = Tally(M, w)
        BY <1>0
      <3> HIDE DEF M
      <3>3. \A k \in M : w[k] \in Nat
        BY <3>1
      <3> QED
        BY <3>1, <3>2, <3>3, TallyType
    <2>5. v[i] = Tally(T, w)
      BY <1>0, <2>1
    <2>6. Tally(I, v) = Tally(In(n), w)
      BY <1>2, <2>1
    <2> DEFINE A == In(n)  B == In(n + 1)  V == a .. (a + (n + 1)) - 1
    <2>7. A \subseteq S /\ T \subseteq S /\ B = A \cup T /\ A \cap T = {}
          /\ IsFiniteSet(A) /\ V = I \cup {i} /\ Tally(I, v) = Tally(A, w)
      BY <2>1, <2>2, <2>3, <2>6
    <2>8. SUFFICES Tally(V, v) = Tally(B, w)
      OBVIOUS
    <2> HIDE DEF A, B, V, T, I, i, In, Same
    <2>9. Tally(B, w) = Tally(A, w) + Tally(T, w)
      <3>1. \A k \in A \cup T : w[k] \in Nat
        BY <2>7
      <3> QED
        BY <2>3, <2>7, <3>1, TallyUnion
    <2>10. Tally(V, v) = Tally(I, v) + v[i]
      <3>1. i \notin I /\ IsFiniteSet(I) /\ V = I \cup {i}
        BY <2>1, <2>3, <2>7
      <3> QED
        BY <2>4, <3>1, TallyAdd
    <2> QED
      BY <2>5, <2>7, <2>9, <2>10
  <1>3. \A n \in Nat : (a + n) - 1 <= b => Same(n)
    <2> SUFFICES ASSUME D # {} PROVE FALSE
      OBVIOUS
    <2>1. PICK n \in D : \A m \in D : n <= m
      <3>1. D \in SUBSET Nat
        OBVIOUS
      <3> HIDE DEF D
      <3> QED
        BY <3>1, SmallestElement
    <2>2. n \in Nat /\ (a + n) - 1 <= b /\ ~Same(n)
      OBVIOUS
    <2> HIDE DEF Same
    <2>3. n # 0
      BY <1>1, <2>2
    <2>4. n - 1 \in Nat /\ (a + (n - 1)) <= b /\ (n - 1) + 1 = n /\ n - 1 \notin D
      BY <2>1, <2>2, <2>3
    <2>5. Same(n - 1)
      BY <2>4
    <2> QED
      BY <1>2, <2>2, <2>4, <2>5
  <1>4. CASE b < a
    <2>1. a .. b = {} /\ U = {}
      BY <1>4 DEF Grouped
    <2> QED
      BY <2>1, TallyEmpty
  <1>5. CASE a <= b
    <2>1. (b - a) + 1 \in Nat /\ (a + ((b - a) + 1)) - 1 = b
      BY <1>5
    <2>2. Same((b - a) + 1)
      <3> HIDE DEF Same
      <3> QED
        BY <1>3, <2>1
    <2>3. In((b - a) + 1) = U
      BY <2>1 DEF Grouped
    <2> QED
      BY <2>1, <2>2, <2>3
  <1> QED
    BY <1>4, <1>5

---------------------------------------------------------------------------------
(* Induction, as a set of what is shown; sums, products and powers.               *)

\* Of a collection of subsets of a finite set, one has no other below it.
LEMMA SmallestSubset ==
  ASSUME NEW S, IsFiniteSet(S), NEW D \in SUBSET (SUBSET S), D # {}
  PROVE  \E T \in D : \A U \in SUBSET T : U # T => U \notin D
  <1> DEFINE sizes == {Cardinality(T) : T \in D}
  <1>1. \A T \in D : IsFiniteSet(T) /\ Cardinality(T) \in Nat
    BY FS_Subset, FS_CardinalityType
  <1>2. sizes \in SUBSET Nat /\ sizes # {}
    BY <1>1
  <1>3. PICK c \in sizes : \A m \in sizes : c <= m
    <2> HIDE DEF sizes
    <2> QED
      BY <1>2, SmallestElement
  <1>4. PICK T \in D : Cardinality(T) = c
    BY <1>3
  <1>5. ASSUME NEW U \in SUBSET T, U # T, U \in D
        PROVE  FALSE
    <2>1. Cardinality(U) <= Cardinality(T) /\ Cardinality(U) # Cardinality(T)
      BY <1>1, <1>4, <1>5, FS_Subset
    <2>2. c <= Cardinality(U)
      BY <1>3, <1>5
    <2> QED
      BY <1>1, <1>4, <1>5, <2>1, <2>2
  <1> QED
    BY <1>4, <1>5

\* What holds of the empty set, and of a set with one more element, holds of all of S.
LEMMA SetInduction ==
  ASSUME NEW S, IsFiniteSet(S), NEW F, {} \in F,
         \A T \in SUBSET S : \A x \in S \ T : T \in F => T \cup {x} \in F
  PROVE  S \in F
  <1> SUFFICES ASSUME S \notin F PROVE FALSE
    OBVIOUS
  <1> DEFINE D == {T \in SUBSET S : T \notin F}
  <1>1. D \in SUBSET (SUBSET S) /\ D # {}
    OBVIOUS
  <1>2. PICK T \in D : \A U \in SUBSET T : U # T => U \notin D
    <2> HIDE DEF D
    <2> QED
      BY <1>1, SmallestSubset
  <1>3. PICK x \in T : TRUE
    BY <1>2
  <1>4. T \ {x} \in F /\ T \ {x} \in SUBSET S /\ x \in S \ (T \ {x}) /\ (T \ {x}) \cup {x} = T
    BY <1>2, <1>3
  <1> QED
    BY <1>2, <1>4

\* The same for the natural numbers.
LEMMA CountInduction ==
  ASSUME NEW F, 0 \in F, \A n \in Nat : n \in F => n + 1 \in F
  PROVE  \A n \in Nat : n \in F
  <1> SUFFICES ASSUME NEW m \in Nat, m \notin F PROVE FALSE
    OBVIOUS
  <1> DEFINE D == {n \in Nat : n \notin F}
  <1>1. PICK n \in D : \A l \in D : n <= l
    <2>1. D \in SUBSET Nat /\ D # {}
      OBVIOUS
    <2> HIDE DEF D
    <2> QED
      BY <2>1, SmallestElement
  <1>2. n # 0 /\ n - 1 \in Nat /\ n - 1 \notin D
    BY <1>1
  <1> QED
    BY <1>1, <1>2

---------------------------------------------------------------------------------
(* Products.                                                                     *)

\* The function by which a product is defined.
Multiplies(S, w, f) ==
  f = [s \in SUBSET S |-> IF s = {} THEN 1
                          ELSE LET x == CHOOSE k \in s : TRUE IN w[x] * f[s \ {x}]]

\* There is one for a finite set: it is found for ever larger subsets.
LEMMA MultipliesExists ==
  ASSUME NEW S, IsFiniteSet(S), NEW w
  PROVE  \E f : Multiplies(S, w, f)
  <1> DEFINE Small(c) == {s \in SUBSET S : Cardinality(s) <= c}
             Step(f, s) == IF s = {} THEN 1
                           ELSE LET x == CHOOSE k \in s : TRUE IN w[x] * f[s \ {x}]
             F == {c \in Nat : \E f : f = [s \in Small(c) |-> Step(f, s)]}
  <1>0. \A s \in SUBSET S : IsFiniteSet(s) /\ Cardinality(s) \in Nat
                            /\ Cardinality(s) <= Cardinality(S)
    BY FS_Subset, FS_CardinalityType
  <1>1. 0 \in F
    <2> DEFINE f == [s \in Small(0) |-> 1]
    <2>1. \A s \in Small(0) : s = {}
      BY <1>0, FS_EmptySet
    <2>2. f = [s \in Small(0) |-> Step(f, s)]
      BY <2>1
    <2> QED
      BY <2>2
  <1>2. ASSUME NEW c \in Nat, c \in F
        PROVE  c + 1 \in F
    <2>1. PICK f : f = [s \in Small(c) |-> Step(f, s)]
      BY <1>2
    <2> DEFINE g == [s \in Small(c + 1) |-> Step(f, s)]
    <2>2. ASSUME NEW s \in Small(c + 1)
          PROVE  Step(f, s) = Step(g, s)
      <3>1. CASE s = {}
        BY <3>1
      <3>2. CASE s # {}
        <4> DEFINE x == CHOOSE k \in s : TRUE
                   r == s \ {x}
        <4>1. x \in s
          BY <3>2
        <4>2. r \in SUBSET S /\ Cardinality(r) = Cardinality(s) - 1
          BY <1>0, <4>1, FS_RemoveElement
        <4>3. r \in Small(c) /\ r \in Small(c + 1)
          BY <1>0, <4>2
        <4>4. f[r] = g[r]
          BY <2>1, <4>3
        <4> QED
          BY <4>4, <3>2
      <3> QED
        BY <3>1, <3>2
    <2>3. g = [s \in Small(c + 1) |-> Step(g, s)]
      BY <2>2
    <2> HIDE DEF g, Small, Step
    <2> QED
      BY <2>3
  <1>3. \A c \in Nat : c \in F
    <2> HIDE DEF F
    <2> QED
      BY <1>1, <1>2, CountInduction
  <1>4. Cardinality(S) \in Nat /\ Small(Cardinality(S)) = SUBSET S
    BY <1>0
  <1>5. PICK f : f = [s \in Small(Cardinality(S)) |-> Step(f, s)]
    BY <1>3, <1>4
  <1>6. Multiplies(S, w, f)
    BY <1>4, <1>5 DEF Multiplies
  <1> QED
    BY <1>6

\* The product of a finite set is the value of such a function at the set.
LEMMA ProductIs ==
  ASSUME NEW S, IsFiniteSet(S), NEW w
  PROVE  \E f : Multiplies(S, w, f) /\ Product(S, w) = f[S]
  <1>1. \E f : Multiplies(S, w, f)
    BY MultipliesExists
  <1> DEFINE f == CHOOSE f : Multiplies(S, w, f)
  <1>2. Multiplies(S, w, f)
    BY <1>1
  <1>3. Product(S, w) = f[S]
    BY DEF Product, MapThenFoldSet, Multiplies
  <1> QED
    BY <1>2, <1>3

\* The product of any subset, and what is chosen from it.
LEMMA MultipliesStep ==
  ASSUME NEW S, NEW w, NEW f, Multiplies(S, w, f)
  PROVE  /\ f[{}] = 1
         /\ \A s \in SUBSET S : s # {} => \E x \in s : f[s] = w[x] * f[s \ {x}]
  <1>1. f[{}] = 1
    BY DEF Multiplies
  <1>2. ASSUME NEW s \in SUBSET S, s # {}
        PROVE  \E x \in s : f[s] = w[x] * f[s \ {x}]
    <2> DEFINE x == CHOOSE k \in s : TRUE
    <2>1. x \in s
      BY <1>2
    <2>2. f[s] = w[x] * f[s \ {x}]
      BY <1>2 DEF Multiplies
    <2> HIDE DEF x
    <2> QED
      BY <2>1, <2>2
  <1> QED
    BY <1>1, <1>2

\* Its values are natural numbers.
LEMMA MultipliesType ==
  ASSUME NEW S, IsFiniteSet(S), NEW w, \A k \in S : w[k] \in Nat, NEW f, Multiplies(S, w, f)
  PROVE  \A s \in SUBSET S : f[s] \in Nat
  <1> SUFFICES ASSUME NEW s \in SUBSET S, f[s] \notin Nat PROVE FALSE
    OBVIOUS
  <1> DEFINE D == {r \in SUBSET S : f[r] \notin Nat}
  <1>1. PICK r \in D : \A u \in SUBSET r : u # r => u \notin D
    <2>1. D \in SUBSET (SUBSET S) /\ D # {}
      OBVIOUS
    <2> HIDE DEF D
    <2> QED
      BY <2>1, SmallestSubset
  <1>2. f[{}] = 1 /\ r \in SUBSET S /\ f[r] \notin Nat
    BY <1>1, MultipliesStep
  <1>3. r # {}
    BY <1>2
  <1>4. PICK x \in r : f[r] = w[x] * f[r \ {x}]
    BY <1>2, <1>3, MultipliesStep
  <1>5. f[r \ {x}] \in Nat /\ w[x] \in Nat
    BY <1>1, <1>2
  <1> DEFINE a == w[x]  b == f[r \ {x}]
  <1>6. a * b \in Nat
    <2> HIDE DEF a, b
    <2> QED
      BY <1>5 DEF a, b
  <1> QED
    BY <1>2, <1>4, <1>6

\* The element that is taken out does not matter.
LEMMA MultipliesAny ==
  ASSUME NEW S, IsFiniteSet(S), NEW w, \A k \in S : w[k] \in Nat, NEW f, Multiplies(S, w, f)
  PROVE  \A s \in SUBSET S : \A x \in s : f[s] = w[x] * f[s \ {x}]
  <1> SUFFICES ASSUME NEW q \in SUBSET S, ~ \A x \in q : f[q] = w[x] * f[q \ {x}] PROVE FALSE
    OBVIOUS
  <1> DEFINE D == {s \in SUBSET S : ~ \A x \in s : f[s] = w[x] * f[s \ {x}]}
  <1>1. PICK s \in D : \A u \in SUBSET s : u # s => u \notin D
    <2>1. D \in SUBSET (SUBSET S) /\ D # {}
      OBVIOUS
    <2> HIDE DEF D
    <2> QED
      BY <2>1, SmallestSubset
  <1>2. s \in SUBSET S /\ \E x \in s : f[s] # w[x] * f[s \ {x}]
    BY <1>1
  <1>3. PICK x \in s : f[s] # w[x] * f[s \ {x}]
    BY <1>2
  <1>4. PICK y \in s : f[s] = w[y] * f[s \ {y}]
    BY <1>2, MultipliesStep
  <1>5. x # y
    BY <1>3, <1>4
  <1>6. f[s \ {y}] = w[x] * f[(s \ {y}) \ {x}]
    <2>1. s \ {y} \in SUBSET s /\ s \ {y} # s /\ s \ {y} \in SUBSET S /\ x \in s \ {y}
      BY <1>2, <1>5
    <2> QED
      BY <1>1, <2>1
  <1>7. f[s \ {x}] = w[y] * f[(s \ {x}) \ {y}]
    <2>1. s \ {x} \in SUBSET s /\ s \ {x} # s /\ s \ {x} \in SUBSET S /\ y \in s \ {x}
      BY <1>2, <1>5
    <2> QED
      BY <1>1, <2>1
  <1>8. (s \ {x}) \ {y} = (s \ {y}) \ {x}
    OBVIOUS
  <1> DEFINE a == w[x]  b == w[y]  c == f[(s \ {x}) \ {y}]
  <1>9. a \in Nat /\ b \in Nat /\ c \in Nat
    <2>1. (s \ {x}) \ {y} \in SUBSET S
      BY <1>2
    <2> QED
      BY <1>2, <2>1, MultipliesType
  <1>10. f[s] = b * (a * c) /\ f[s] # a * (b * c)
    BY <1>3, <1>4, <1>6, <1>7, <1>8
  <1> HIDE DEF a, b, c
  <1>11. b * (a * c) = a * (b * c)
    BY <1>9, Z3
  <1> QED
    BY <1>10, <1>11

\* The product of a subset is the same, whatever set it is a subset of.
LEMMA MultipliesSame ==
  ASSUME NEW S, IsFiniteSet(S), NEW w, NEW f, Multiplies(S, w, f),
         \A k \in S : w[k] \in Nat,
         NEW T \in SUBSET S, NEW v, \A k \in T : v[k] = w[k], NEW g, Multiplies(T, v, g)
  PROVE  \A s \in SUBSET T : f[s] = g[s]
  <1> SUFFICES ASSUME NEW s \in SUBSET T, f[s] # g[s] PROVE FALSE
    OBVIOUS
  <1> DEFINE D == {r \in SUBSET T : f[r] # g[r]}
  <1>0. IsFiniteSet(T)
    BY FS_Subset
  <1>1. PICK r \in D : \A u \in SUBSET r : u # r => u \notin D
    <2>1. D \in SUBSET (SUBSET T) /\ D # {}
      OBVIOUS
    <2> HIDE DEF D
    <2> QED
      BY <1>0, <2>1, SmallestSubset
  <1>2. f[{}] = 1 /\ g[{}] = 1 /\ r \in SUBSET T /\ f[r] # g[r]
    BY <1>1, MultipliesStep
  <1>3. r # {}
    BY <1>2
  <1>4. PICK x \in r : g[r] = v[x] * g[r \ {x}]
    BY <1>2, <1>3, MultipliesStep
  <1>5. f[r] = w[x] * f[r \ {x}]
    <2>1. r \in SUBSET S /\ x \in r
      BY <1>2
    <2> QED
      BY <2>1, MultipliesAny
  <1>6. f[r \ {x}] = g[r \ {x}] /\ v[x] = w[x]
    BY <1>1, <1>2
  <1> QED
    BY <1>2, <1>4, <1>5, <1>6

\* The product of no numbers is 1.
LEMMA ProductEmpty ==
  ASSUME NEW w
  PROVE  Product({}, w) = 1
  <1>1. PICK f : Multiplies({}, w, f) /\ Product({}, w) = f[{}]
    BY FS_EmptySet, ProductIs
  <1> QED
    BY <1>1, MultipliesStep

\* Products of natural numbers are natural numbers.
LEMMA ProductType ==
  ASSUME NEW S, IsFiniteSet(S), NEW w, \A k \in S : w[k] \in Nat
  PROVE  Product(S, w) \in Nat
  <1>1. PICK f : Multiplies(S, w, f) /\ Product(S, w) = f[S]
    BY ProductIs
  <1> QED
    BY <1>1, MultipliesType

\* Numbers that are the same for the elements of the set give the same product.
LEMMA ProductSame ==
  ASSUME NEW S, IsFiniteSet(S), NEW v, NEW w, \A k \in S : w[k] \in Nat,
         \A k \in S : v[k] = w[k]
  PROVE  Product(S, v) = Product(S, w)
  <1>1. PICK f : Multiplies(S, w, f) /\ Product(S, w) = f[S]
    BY ProductIs
  <1>2. PICK g : Multiplies(S, v, g) /\ Product(S, v) = g[S]
    BY ProductIs
  <1>3. \A s \in SUBSET S : f[s] = g[s]
    BY <1>1, <1>2, MultipliesSame
  <1> QED
    BY <1>1, <1>2, <1>3

\* Any of the numbers can be taken out of a product.
LEMMA ProductRemove ==
  ASSUME NEW T, IsFiniteSet(T), NEW x \in T, NEW w, \A k \in T : w[k] \in Nat
  PROVE  Product(T, w) = w[x] * Product(T \ {x}, w)
  <1>1. PICK f : Multiplies(T, w, f) /\ Product(T, w) = f[T]
    BY ProductIs
  <1>2. PICK g : Multiplies(T \ {x}, w, g) /\ Product(T \ {x}, w) = g[T \ {x}]
    <2>1. IsFiniteSet(T \ {x})
      BY FS_RemoveElement
    <2> QED
      BY <2>1, ProductIs
  <1>3. f[T] = w[x] * f[T \ {x}]
    <2>1. T \in SUBSET T
      OBVIOUS
    <2> QED
      BY <1>1, <2>1, MultipliesAny
  <1>4. f[T \ {x}] = g[T \ {x}]
    <2> DEFINE U == T \ {x}
    <2>1. U \in SUBSET T /\ \A k \in U : w[k] = w[k]
      OBVIOUS
    <2>2. Multiplies(U, w, g)
      BY <1>2
    <2> HIDE DEF U
    <2>3. \A s \in SUBSET U : f[s] = g[s]
      BY <1>1, <2>1, <2>2, MultipliesSame
    <2> QED
      BY <2>3 DEF U
  <1> QED
    BY <1>1, <1>2, <1>3, <1>4

\* A number that joins multiplies the product.
LEMMA ProductAdd ==
  ASSUME NEW S, IsFiniteSet(S), NEW x, x \notin S,
         NEW w, \A k \in S \cup {x} : w[k] \in Nat
  PROVE  Product(S \cup {x}, w) = w[x] * Product(S, w)
  <1> DEFINE T == S \cup {x}
  <1>1. IsFiniteSet(T) /\ x \in T /\ T \ {x} = S /\ \A k \in T : w[k] \in Nat
    BY FS_AddElement
  <1> HIDE DEF T
  <1>2. Product(T, w) = w[x] * Product(T \ {x}, w)
    BY <1>1, ProductRemove
  <1> QED
    BY <1>1, <1>2 DEF T

\* A product is zero only if one of the numbers is.
LEMMA ProductPositive ==
  ASSUME NEW S, IsFiniteSet(S), NEW w, \A k \in S : w[k] \in Nat \ {0}
  PROVE  Product(S, w) \in Nat \ {0}
  <1> DEFINE F == {T \in SUBSET S : Product(T, w) \in Nat \ {0}}
  <1>1. {} \in F
    BY ProductEmpty
  <1>2. ASSUME NEW T \in SUBSET S, NEW x \in S \ T, T \in F
        PROVE  T \cup {x} \in F
    <2>1. IsFiniteSet(T)
      BY FS_Subset
    <2>2. Product(T \cup {x}, w) = w[x] * Product(T, w)
      BY <2>1, ProductAdd
    <2> DEFINE a == w[x]  b == Product(T, w)
    <2>3. a \in Nat \ {0} /\ b \in Nat \ {0}
      BY <1>2
    <2>4. a * b \in Nat \ {0}
      <3> HIDE DEF a, b
      <3> QED
        BY <2>3, Z3
    <2> QED
      BY <2>2, <2>4
  <1>3. S \in F
    <2> HIDE DEF F
    <2> QED
      BY <1>1, <1>2, SetInduction
  <1> QED
    BY <1>3

---------------------------------------------------------------------------------
(* Powers.                                                                       *)

\* The powers of a natural number are natural numbers.
LEMMA PowerType ==
  ASSUME NEW a \in Nat, NEW n \in Nat
  PROVE  Power(a, n) \in Nat
  <1> DEFINE w == [k \in 1 .. n |-> a]
  <1>1. IsFiniteSet(1 .. n) /\ \A k \in 1 .. n : w[k] \in Nat
    BY FS_Interval
  <1> HIDE DEF w
  <1>2. Product(1 .. n, w) \in Nat
    BY <1>1, ProductType
  <1> QED
    BY <1>2 DEF Power, w

\* The power 0 is 1, also that of 0.
LEMMA PowerZero ==
  ASSUME NEW a
  PROVE  Power(a, 0) = 1
  <1>1. 1 .. 0 = {}
    OBVIOUS
  <1> QED
    BY <1>1, ProductEmpty DEF Power

\* Each power is the one before, multiplied once more.
LEMMA PowerNext ==
  ASSUME NEW a \in Nat, NEW n \in Nat
  PROVE  Power(a, n + 1) = a * Power(a, n)
  <1> DEFINE w == [k \in 1 .. n + 1 |-> a]
             v == [k \in 1 .. n |-> a]
             x == n + 1
             S == 1 .. n
  <1>1. IsFiniteSet(S) /\ x \notin S /\ 1 .. n + 1 = S \cup {x}
    BY FS_Interval
  <1>2. (\A k \in S \cup {x} : w[k] \in Nat) /\ w[x] = a /\ \A k \in S : v[k] = w[k]
    BY <1>1
  <1> HIDE DEF w, v, x, S
  <1>3. Product(S \cup {x}, w) = w[x] * Product(S, w)
    BY <1>1, <1>2, ProductAdd
  <1>4. Product(S, v) = Product(S, w)
    <2>1. \A k \in S : w[k] \in Nat
      BY <1>2
    <2> QED
      BY <1>1, <1>2, <2>1, ProductSame
  <1>5. Product(1 .. n + 1, w) = a * Product(S, v)
    BY <1>1, <1>2, <1>3, <1>4
  <1> QED
    BY <1>5 DEF Power, S, v, w

\* The first power is the number itself.
LEMMA PowerOne ==
  ASSUME NEW a \in Nat
  PROVE  Power(a, 1) = a
  <1>1. Power(a, 0 + 1) = a * Power(a, 0)
    BY PowerNext
  <1> QED
    BY <1>1, PowerZero

\* The second power is the square.
LEMMA PowerTwo ==
  ASSUME NEW a \in Nat
  PROVE  Power(a, 2) = a * a
  <1>1. Power(a, 1 + 1) = a * Power(a, 1)
    BY PowerNext
  <1> QED
    BY <1>1, PowerOne

\* No power of a positive number is zero.
LEMMA PowerPositive ==
  ASSUME NEW a \in Nat \ {0}, NEW n \in Nat
  PROVE  Power(a, n) \in Nat \ {0}
  <1> DEFINE F == {m \in Nat : Power(a, m) \in Nat \ {0}}
  <1>1. 0 \in F
    BY PowerZero
  <1>2. ASSUME NEW m \in Nat, m \in F
        PROVE  m + 1 \in F
    <2>1. Power(a, m + 1) = a * Power(a, m) /\ Power(a, m) \in Nat \ {0}
      BY <1>2, PowerNext
    <2> DEFINE b == Power(a, m)
    <2>2. b \in Nat \ {0} => a * b \in Nat \ {0}
      <3> HIDE DEF b
      <3> QED
        BY Z3
    <2> QED
      BY <2>1, <2>2
  <1>3. n \in F
    <2> HIDE DEF F
    <2> QED
      BY <1>1, <1>2, CountInduction
  <1> QED
    BY <1>3

\* Powers of the same number: the exponents are added.
LEMMA PowerAdd ==
  ASSUME NEW a \in Nat, NEW m \in Nat, NEW n \in Nat
  PROVE  Power(a, m + n) = Power(a, m) * Power(a, n)
  <1> DEFINE F == {k \in Nat : Power(a, m + k) = Power(a, m) * Power(a, k)}
  <1>1. 0 \in F
    <2>1. Power(a, m) \in Nat /\ m + 0 = m
      BY PowerType
    <2> QED
      BY <2>1, PowerZero
  <1>2. ASSUME NEW k \in Nat, k \in F
        PROVE  k + 1 \in F
    <2> DEFINE b == Power(a, m)  c == Power(a, k)
    <2>1. b \in Nat /\ c \in Nat
      BY PowerType
    <2>2. Power(a, k + 1) = a * c
      BY PowerNext
    <2>3. Power(a, (m + k) + 1) = a * Power(a, m + k) /\ Power(a, m + k) = b * c
      BY <1>2, PowerNext
    <2>4. m + (k + 1) = (m + k) + 1
      OBVIOUS
    <2>5. a * (b * c) = b * (a * c)
      <3> HIDE DEF b, c
      <3> QED
        BY <2>1, Z3
    <2> QED
      BY <2>2, <2>3, <2>4, <2>5
  <1>3. n \in F
    <2> HIDE DEF F
    <2> QED
      BY <1>1, <1>2, CountInduction
  <1> QED
    BY <1>3

\* The power of a product is that of its factors.
LEMMA PowerTimes ==
  ASSUME NEW a \in Nat, NEW b \in Nat, NEW n \in Nat
  PROVE  Power(a * b, n) = Power(a, n) * Power(b, n)
  <1> DEFINE F == {k \in Nat : Power(a * b, k) = Power(a, k) * Power(b, k)}
  <1>0. a * b \in Nat
    OBVIOUS
  <1>1. 0 \in F
    BY PowerZero
  <1>2. ASSUME NEW k \in Nat, k \in F
        PROVE  k + 1 \in F
    <2> DEFINE c == Power(a, k)  d == Power(b, k)
    <2>1. c \in Nat /\ d \in Nat
      BY PowerType
    <2>2. Power(a, k + 1) = a * c /\ Power(b, k + 1) = b * d
      BY PowerNext
    <2>3. Power(a * b, k + 1) = (a * b) * (c * d)
      BY <1>0, <1>2, PowerNext
    <2>4. (a * b) * (c * d) = (a * c) * (b * d)
      <3> HIDE DEF c, d
      <3> QED
        BY <2>1, Z3
    <2> QED
      BY <2>2, <2>3, <2>4
  <1>3. n \in F
    <2> HIDE DEF F
    <2> QED
      BY <1>1, <1>2, CountInduction
  <1> QED
    BY <1>3

\* A greater number has greater powers.
LEMMA PowerGrows ==
  ASSUME NEW a \in Nat, NEW b \in Nat, a < b, NEW n \in Nat
  PROVE  Power(a, n) <= Power(b, n) /\ (n # 0 => Power(a, n) < Power(b, n))
  <1> DEFINE F == {k \in Nat : /\ Power(a, k) <= Power(b, k)
                               /\ k # 0 => Power(a, k) < Power(b, k)}
  <1>1. 0 \in F
    BY PowerZero
  <1>2. ASSUME NEW k \in Nat, k \in F
        PROVE  k + 1 \in F
    <2> DEFINE c == Power(a, k)  d == Power(b, k)
    <2>1. c \in Nat /\ d \in Nat \ {0} /\ c <= d
      <3>1. b \in Nat \ {0}
        OBVIOUS
      <3> QED
        BY <1>2, <3>1, PowerType, PowerPositive
    <2>2. Power(a, k + 1) = a * c /\ Power(b, k + 1) = b * d
      BY PowerNext
    <2>3. a * c < b * d
      <3> HIDE DEF c, d
      <3>1. a * c <= a * d
        BY <2>1, Z3
      <3>2. a * d < b * d
        BY <2>1, Z3
      <3>3. a * c \in Nat /\ a * d \in Nat /\ b * d \in Nat
        BY <2>1
      <3> QED
        BY <3>1, <3>2, <3>3
    <2>4. a * c \in Nat /\ b * d \in Nat
      BY <2>1
    <2> HIDE DEF c, d
    <2> QED
      BY <2>2, <2>3, <2>4
  <1>3. n \in F
    <2> HIDE DEF F
    <2> QED
      BY <1>1, <1>2, CountInduction
  <1> QED
    BY <1>3

\* A power lies above its tangent.
LEMMA Tangent ==
  ASSUME NEW u \in Nat, NEW w \in Nat, NEW n \in Nat
  PROVE  /\ u * Power(u, n) + n * (w * Power(w, n)) >= (n + 1) * (Power(w, n) * u)
         /\ n # 0 /\ w # 0 /\ u # w =>
              u * Power(u, n) + n * (w * Power(w, n)) > (n + 1) * (Power(w, n) * u)
  <1> DEFINE Above(k) == u * Power(u, k) + k * (w * Power(w, k)) >= (k + 1) * (Power(w, k) * u)
             F == {k \in Nat : Above(k)}
  <1>1. 0 \in F
    <2>1. Power(u, 0) = 1 /\ Power(w, 0) = 1
      BY PowerZero
    <2> QED
      BY <2>1
  <1>2. ASSUME NEW k \in Nat, Above(k)
        PROVE  /\ Above(k + 1)
               /\ w # 0 /\ u # w => u * Power(u, k + 1) + (k + 1) * (w * Power(w, k + 1))
                                      > ((k + 1) + 1) * (Power(w, k + 1) * u)
    <2> DEFINE c == Power(u, k)  d == Power(w, k)
    <2>1. c \in Nat /\ d \in Nat /\ (w # 0 => d # 0)
      BY PowerType, PowerPositive
    <2>2. Power(u, k + 1) = u * c /\ Power(w, k + 1) = w * d
      BY PowerNext
    <2>3. u * c + k * (w * d) >= (k + 1) * (d * u)
      BY <1>2
    <2> DEFINE e == (k + 1) * (d * ((u - w) * (u - w)))
    <2> HIDE DEF c, d, Above
    <2>4. e >= 0 /\ (w # 0 /\ u # w => e > 0)
      <3>1. (u - w) * (u - w) >= 0 /\ (u # w => (u - w) * (u - w) > 0)
        BY Z3
      <3> DEFINE f == (u - w) * (u - w)
      <3>2. f \in Nat /\ (u # w => f > 0)
        BY <3>1
      <3> HIDE DEF f
      <3>3. d * f >= 0 /\ (d # 0 /\ f > 0 => d * f > 0)
        BY <2>1, <3>2, Z3
      <3>4. d * f \in Nat
        BY <2>1, <3>2
      <3> DEFINE g == d * f
      <3> HIDE DEF g
      <3>5. g \in Nat => (k + 1) * g >= 0 /\ (g > 0 => (k + 1) * g > 0)
        BY Z3
      <3> QED
        BY <2>1, <3>2, <3>3, <3>4, <3>5 DEF f, g
    <2>5. u * (u * c + k * (w * d)) >= u * ((k + 1) * (d * u))
      <3> DEFINE f == u * c + k * (w * d)  g == (k + 1) * (d * u)
      <3>1. f \in Nat /\ g \in Nat /\ f >= g
        BY <2>1, <2>3
      <3> HIDE DEF f, g
      <3>2. u * f >= u * g
        BY <3>1, Z3
      <3> QED
        BY <3>2 DEF f, g
    <2>6. (u * (u * c) + (k + 1) * (w * (w * d))) - ((k + 1) + 1) * ((w * d) * u)
            = (u * (u * c + k * (w * d)) - u * ((k + 1) * (d * u))) + e
      BY <2>1, Z3 DEF e
    <2> DEFINE L == u * (u * c) + (k + 1) * (w * (w * d))
               R == ((k + 1) + 1) * ((w * d) * u)
               f == u * (u * c + k * (w * d))
               g == u * ((k + 1) * (d * u))
    <2>7. L \in Int /\ R \in Int /\ f \in Int /\ g \in Int /\ e \in Int
      BY <2>1 DEF e
    <2>8. L - R = (f - g) + e
      BY <2>6, Zenon
    <2>9. f >= g
      BY <2>5, Zenon
    <2> HIDE DEF L, R, f, g, e
    <2>10. L >= R /\ (w # 0 /\ u # w => L > R)
      BY <2>4, <2>7, <2>8, <2>9
    <2> QED
      BY <2>2, <2>10 DEF L, R, Above
  <1>3. \A k \in Nat : k \in F
    <2>1. \A k \in Nat : k \in F => k + 1 \in F
      <3> HIDE DEF Above
      <3> QED
        BY <1>2
    <2> HIDE DEF F
    <2> QED
      BY <1>1, <2>1, CountInduction
  <1>4. Above(n)
    <2> HIDE DEF Above
    <2> QED
      BY <1>3
  <1>5. CASE n = 0
    BY <1>4, <1>5
  <1>6. CASE n # 0
    <2>1. n - 1 \in Nat /\ (n - 1) + 1 = n
      BY <1>6
    <2>2. Above(n - 1)
      <3> HIDE DEF Above
      <3> QED
        BY <1>3, <2>1
    <2> DEFINE m == n - 1
    <2>3. m \in Nat /\ m + 1 = n /\ Above(m)
      BY <2>1, <2>2
    <2> HIDE DEF m
    <2>4. w # 0 /\ u # w => u * Power(u, m + 1) + (m + 1) * (w * Power(w, m + 1))
                              > ((m + 1) + 1) * (Power(w, m + 1) * u)
      <3> HIDE DEF Above
      <3> QED
        BY <1>2, <2>3
    <2> QED
      BY <1>4, <2>3, <2>4
  <1> QED
    BY <1>5, <1>6

---------------------------------------------------------------------------------
(* Means.  The terms whose product is greatest, for a given sum, are equal terms.  *)

\* Factors that are positive can be cancelled.
LEMMA Cancel ==
  ASSUME NEW c \in Nat \ {0}, NEW x \in Nat, NEW y \in Nat
  PROVE  (c * x <= c * y <=> x <= y) /\ (c * x < c * y <=> x < y) /\ (c * x = c * y <=> x = y)
  <1>1. x < y => c * x < c * y
    BY Z3
  <1>2. y < x => c * y < c * x
    BY Z3
  <1> DEFINE a == c * x  b == c * y
  <1>3. a \in Nat /\ b \in Nat /\ (x = y => a = b)
    OBVIOUS
  <1>4. (x < y => a < b) /\ (y < x => b < a)
    BY <1>1, <1>2
  <1> HIDE DEF a, b
  <1>5. (a <= b <=> x <= y) /\ (a < b <=> x < y) /\ (a = b <=> x = y)
    <2>1. x < y \/ x = y \/ y < x
      OBVIOUS
    <2> QED
      BY <1>3, <1>4, <2>1
  <1> QED
    BY <1>5 DEF a, b

\* The mean of m numbers with the sum A, and of these and y.
LEMMA MeanOfOneMore ==
  ASSUME NEW A \in Nat, NEW y \in Nat, NEW m \in Nat \ {0}
  PROVE  LET l == Power(m + 1, m + 1) * (y * Power(A, m))
             r == Power(A + y, m + 1) * Power(m, m)
         IN  l <= r /\ (A # 0 /\ m * y # A => l < r)
  <1> DEFINE u == m * (A + y)  w == (m + 1) * A
             M == Power(m, m)  B == Power(A + y, m)  N == Power(m + 1, m)  C == Power(A, m)
             x == (m + 1) * (N * (y * C))  z == ((A + y) * B) * M
  <1>1. u \in Nat /\ w \in Nat /\ A + y \in Nat /\ m + 1 \in Nat
    OBVIOUS
  <1>2. M \in Nat /\ B \in Nat /\ N \in Nat /\ C \in Nat
    BY <1>1, PowerType
  <1>3. Power(u, m) = M * B /\ Power(w, m) = N * C
    BY <1>1, PowerTimes
  <1>4. Power(m + 1, m + 1) = (m + 1) * N /\ Power(A + y, m + 1) = (A + y) * B
    BY <1>1, PowerNext
  <1>5. /\ u * (M * B) + m * (w * (N * C)) >= (m + 1) * ((N * C) * u)
        /\ w # 0 /\ u # w => u * (M * B) + m * (w * (N * C)) > (m + 1) * ((N * C) * u)
    <2> HIDE DEF u, w, M, B, N, C
    <2>1. m \in Nat
      OBVIOUS
    <2>2. /\ u * Power(u, m) + m * (w * Power(w, m)) >= (m + 1) * (Power(w, m) * u)
          /\ m # 0 /\ w # 0 /\ u # w =>
               u * Power(u, m) + m * (w * Power(w, m)) > (m + 1) * (Power(w, m) * u)
      BY <1>1, <2>1, Tangent
    <2> QED
      BY <1>3, <2>2
  <1>6. (A # 0 => w # 0) /\ (m * y # A => u # w)
    <2>1. A # 0 => w > 0
      BY Z3
    <2>2. u - w = m * y - A
      BY Z3
    <2> QED
      BY <1>1, <2>1, <2>2
  <1>7. (u * (M * B) + m * (w * (N * C))) - (m + 1) * ((N * C) * u) = m * z - m * x
    <2> HIDE DEF M, B, N, C
    <2> QED
      BY <1>2, Z3
  <1> DEFINE L == u * (M * B) + m * (w * (N * C))
             R == (m + 1) * ((N * C) * u)
  <1>8. L \in Nat /\ R \in Nat /\ x \in Nat /\ z \in Nat
    <2> HIDE DEF M, B, N, C
    <2> QED
      BY <1>1, <1>2
  <1>9. L >= R /\ (A # 0 /\ m * y # A => L > R) /\ L - R = m * z - m * x
    BY <1>5, <1>6, <1>7
  <1> HIDE DEF L, R, x, z
  <1>10. m * x \in Nat /\ m * z \in Nat
    BY <1>8
  <1>11. m * x <= m * z /\ (A # 0 /\ m * y # A => m * x < m * z)
    BY <1>8, <1>9, <1>10
  <1>12. x <= z /\ (A # 0 /\ m * y # A => x < z)
    BY <1>8, <1>11, Cancel
  <1>13. Power(m + 1, m + 1) * (y * Power(A, m)) = x
    <2>1. ((m + 1) * N) * (y * C) = x
      <3> HIDE DEF N, C
      <3> QED
        BY <1>2, Z3 DEF x
    <2> QED
      BY <1>4, <2>1
  <1>14. Power(A + y, m + 1) * Power(m, m) = z
    BY <1>4 DEF z
  <1> QED
    BY <1>12, <1>13, <1>14

\* The mean of p numbers x and q numbers y: their product is greatest when they are equal.
LEMMA MeanOfTwo ==
  ASSUME NEW p \in Nat \ {0}, NEW q \in Nat, NEW x \in Nat, NEW y \in Nat
  PROVE  LET l == (Power(x, p) * Power(y, q)) * Power(p + q, p + q)
             r == Power(p * x + q * y, p + q)
         IN  l <= r /\ (q # 0 /\ x # 0 /\ x # y => l < r)
  <1> DEFINE l(k) == (Power(x, p) * Power(y, k)) * Power(p + k, p + k)
             r(k) == Power(p * x + k * y, p + k)
             F == {k \in Nat : l(k) <= r(k)}
  <1>0. \A k \in Nat : p + k \in Nat \ {0} /\ p * x + k * y \in Nat
    OBVIOUS
  <1>1. 0 \in F
    <2>1. Power(y, 0) = 1 /\ p + 0 = p /\ p * x + 0 * y = p * x
      BY PowerZero
    <2>2. Power(p * x, p) = Power(p, p) * Power(x, p)
      BY PowerTimes
    <2> DEFINE a == Power(x, p)  b == Power(p, p)
    <2>3. a \in Nat /\ b \in Nat
      BY PowerType
    <2>4. (a * 1) * b <= b * a
      <3> HIDE DEF a, b
      <3> QED
        BY <2>3, Z3
    <2> QED
      BY <2>1, <2>2, <2>4
  <1>2. ASSUME NEW k \in Nat, k \in F
        PROVE  k + 1 \in F /\ (x # 0 /\ x # y => l(k + 1) < r(k + 1))
    <2> DEFINE m == p + k
               A == p * x + k * y
               X == Power(x, p)  Y == Power(y, k)  M == Power(m, m)  C == Power(A, m)
               N == Power(m + 1, m + 1)  Z == Power(A + y, m + 1)
    <2>1. m \in Nat \ {0} /\ A \in Nat
      BY <1>0
    <2>2. X \in Nat /\ Y \in Nat /\ M \in Nat \ {0} /\ C \in Nat /\ N \in Nat /\ Z \in Nat
      <3>1. m + 1 \in Nat /\ A + y \in Nat /\ m \in Nat
        BY <2>1
      <3> HIDE DEF m, A
      <3> QED
        BY <2>1, <3>1, PowerType, PowerPositive
    <2>3. (X * Y) * M <= C
      BY <1>2
    <2>4. N * (y * C) <= Z * M /\ (A # 0 /\ m * y # A => N * (y * C) < Z * M)
      <3> HIDE DEF m, A
      <3> QED
        BY <2>1, MeanOfOneMore
    <2>5. Power(y, k + 1) = y * Y
      BY PowerNext
    <2>6. p + (k + 1) = m + 1 /\ p * x + (k + 1) * y = A + y
      <3>1. p * x + (k + 1) * y = (p * x + k * y) + y
        BY Z3
      <3> QED
        BY <3>1
    <2>7. l(k + 1) = (X * (y * Y)) * N /\ r(k + 1) = Z
      BY <2>5, <2>6
    <2>8. x # 0 /\ x # y => A # 0 /\ m * y # A
      <3>1. m * y - A = p * (y - x)
        BY Z3
      <3>2. x # y => p * (y - x) # 0
        BY Z3
      <3>3. x # 0 => p * x > 0
        BY Z3
      <3>4. k * y \in Nat /\ p * x \in Nat /\ m * y \in Nat
        OBVIOUS
      <3>5. x # 0 => A # 0
        BY <3>3, <3>4
      <3>6. x # y => m * y # A
        BY <2>1, <3>1, <3>2, <3>4
      <3> QED
        BY <3>5, <3>6
    <2> HIDE DEF m, A, X, Y, M, C, N, Z
    <2>9. M * ((X * (y * Y)) * N) <= M * Z
          /\ (x # 0 /\ x # y => M * ((X * (y * Y)) * N) < M * Z)
      <3> DEFINE e == (X * Y) * M  f == N * y
      <3>1. e \in Nat /\ f \in Nat /\ e <= C
        BY <2>2, <2>3
      <3>2. M * ((X * (y * Y)) * N) = f * e
        BY <2>2, Z3
      <3>3. f * C = N * (y * C)
        BY <2>2, Z3
      <3>4. M * Z = Z * M
        BY <2>2, Z3
      <3> HIDE DEF e, f
      <3>5. f * e <= f * C
        BY <2>2, <3>1, Z3
      <3>6. f * e \in Nat /\ f * C \in Nat /\ Z * M \in Nat
        BY <2>2, <3>1
      <3>7. f * C <= Z * M /\ (x # 0 /\ x # y => f * C < Z * M)
        BY <2>4, <2>8, <3>3
      <3> DEFINE g == f * e  h == f * C  i == Z * M
      <3>8. g <= h /\ h <= i /\ (x # 0 /\ x # y => h < i) /\ g \in Nat /\ h \in Nat /\ i \in Nat
        BY <3>5, <3>6, <3>7
      <3> HIDE DEF g, h, i
      <3>9. g <= i /\ (x # 0 /\ x # y => g < i)
        BY <3>8
      <3> QED
        BY <3>2, <3>4, <3>9 DEF g, i
    <2>10. (X * (y * Y)) * N <= Z /\ (x # 0 /\ x # y => (X * (y * Y)) * N < Z)
      <3> DEFINE a == (X * (y * Y)) * N
      <3>1. a \in Nat
        BY <2>2
      <3>2. M * a <= M * Z /\ (x # 0 /\ x # y => M * a < M * Z)
        BY <2>9
      <3> HIDE DEF a
      <3>3. a <= Z /\ (x # 0 /\ x # y => a < Z)
        BY <2>2, <3>1, <3>2, Cancel
      <3> QED
        BY <3>3 DEF a
    <2> HIDE DEF l, r
    <2>11. l(k + 1) <= r(k + 1) /\ (x # 0 /\ x # y => l(k + 1) < r(k + 1))
      BY <2>7, <2>10
    <2> QED
      BY <2>11
  <1>3. \A k \in Nat : k \in F
    <2>1. \A k \in Nat : k \in F => k + 1 \in F
      BY <1>2
    <2> HIDE DEF F
    <2> QED
      BY <1>1, <2>1, CountInduction
  <1>4. q # 0 /\ x # 0 /\ x # y => l(q) < r(q)
    <2> SUFFICES ASSUME q # 0, x # 0, x # y PROVE l(q) < r(q)
      OBVIOUS
    <2>1. q - 1 \in Nat /\ (q - 1) + 1 = q
      OBVIOUS
    <2> DEFINE k == q - 1
    <2>2. k \in Nat /\ k + 1 = q
      BY <2>1
    <2> HIDE DEF k
    <2>3. l(k + 1) < r(k + 1)
      <3>1. k \in F
        BY <1>3, <2>2
      <3> HIDE DEF F, l, r
      <3> QED
        BY <1>2, <2>2, <3>1
    <2> QED
      BY <2>2, <2>3
  <1>5. l(q) <= r(q)
    BY <1>3
  <1> QED
    BY <1>4, <1>5

\* Terms that are multiples of each other's number.
Even(S, w) == \A k \in S : w[k] * Cardinality(S) = Tally(S, w)

\* One more term leaves them even if it is as large as the others.
LEMMA EvenWithOneMore ==
  ASSUME NEW S, IsFiniteSet(S), S # {}, NEW x, x \notin S,
         NEW w, \A k \in S \cup {x} : w[k] \in Nat
  PROVE  Even(S \cup {x}, w) <=> Even(S, w) /\ Cardinality(S) * w[x] = Tally(S, w)
  <1> DEFINE a == w[x]  n == Cardinality(S)  t == Tally(S, w)
  <1>1. a \in Nat /\ n \in Nat \ {0} /\ t \in Nat
    <2>1. n \in Nat /\ n # 0
      BY FS_CardinalityType, FS_EmptySet
    <2> QED
      BY <2>1, TallyType
  <1>2. Cardinality(S \cup {x}) = n + 1
    BY FS_AddElement
  <1>3. Tally(S \cup {x}, w) = t + a
    BY TallyAdd
  <1> HIDE DEF n, t
  <1>4. ASSUME Even(S \cup {x}, w)
        PROVE  Even(S, w) /\ n * a = t
    <2>1. \A k \in S \cup {x} : w[k] * (n + 1) = t + a
      BY <1>2, <1>3, <1>4 DEF Even
    <2>2. a * (n + 1) = t + a
      BY <2>1
    <2> HIDE DEF a
    <2>3. n * a = t
      <3>1. a * (n + 1) = n * a + a
        BY <1>1, Z3
      <3>2. n * a \in Nat
        BY <1>1
      <3> QED
        BY <1>1, <2>2, <3>1, <3>2
    <2>4. ASSUME NEW k \in S
          PROVE  w[k] * n = t
      <3> DEFINE b == w[k]
      <3>1. b \in Nat /\ (n + 1) * b = (n + 1) * a
        <4>1. b \in Nat /\ b * (n + 1) = a * (n + 1)
          BY <2>1, <2>2
        <4> HIDE DEF b
        <4> QED
          BY <1>1, <4>1, Z3
      <3> HIDE DEF b
      <3>2. b = a
        BY <1>1, <3>1, Cancel
      <3>3. b * n = n * a
        BY <1>1, <3>2, Z3
      <3> QED
        BY <2>3, <3>3 DEF b
    <2> QED
      BY <2>3, <2>4 DEF Even, n, t
  <1>5. ASSUME Even(S, w), n * a = t
        PROVE  Even(S \cup {x}, w)
    <2> SUFFICES ASSUME NEW k \in S \cup {x} PROVE w[k] * (n + 1) = t + a
      BY <1>2, <1>3 DEF Even
    <2> DEFINE b == w[k]
    <2>1. b \in Nat /\ n * b = n * a
      <3>1. CASE k = x
        BY <1>1, <3>1
      <3>2. CASE k \in S
        <4>1. b \in Nat /\ b * n = t
          BY <1>5, <3>2 DEF Even, n, t
        <4> HIDE DEF b
        <4>2. n * b = b * n
          BY <1>1, <4>1, Z3
        <4> QED
          BY <1>5, <4>1, <4>2
      <3> QED
        BY <3>1, <3>2
    <2> HIDE DEF a, b
    <2>2. b = a
      BY <1>1, <2>1, Cancel
    <2>3. b * (n + 1) = n * a + a
      BY <1>1, <2>2, Z3
    <2> QED
      BY <1>5, <2>3 DEF b
  <1> QED
    BY <1>4, <1>5 DEF n, t

\* The step of the next lemma, for numbers: t and n are the sum and the number of terms so
\* far, p is their product, and a is one more.
LEMMA MeanStep ==
  ASSUME NEW t \in Nat \ {0}, NEW n \in Nat \ {0}, NEW a \in Nat \ {0}, NEW p \in Nat,
         Power(t, t) <= Power(n, t) * p
  PROVE  LET l == Power(t + a, t + a)
             r == Power(n + 1, t + a) * (Power(a, a) * p)
         IN  l <= r /\ (l = r <=> n * a = t /\ Power(t, t) = Power(n, t) * p)
  <1> DEFINE T == Power(t, t)  N == Power(n, t)  A == Power(a, a)  Z == Power(t + a, t + a)
             M == Power(n + 1, t + a)  B == Power(a, t)  C == Power(t, a)
  <1>1. /\ T \in Nat \ {0} /\ N \in Nat \ {0} /\ A \in Nat \ {0} /\ Z \in Nat \ {0}
        /\ M \in Nat \ {0} /\ B \in Nat \ {0} /\ C \in Nat \ {0}
    <2>1. t + a \in Nat \ {0} /\ n + 1 \in Nat \ {0} /\ t \in Nat /\ a \in Nat /\ t + a \in Nat
      OBVIOUS
    <2> QED
      BY <2>1, PowerPositive
  <1>2. /\ ((N * B) * C) * Z <= (T * C) * ((B * A) * M)
        /\ n * a # t => ((N * B) * C) * Z < (T * C) * ((B * A) * M)
    <2>1. n * a \in Nat /\ n * a # 0
      <3>1. n * a > 0
        BY Z3
      <3> QED
        BY <3>1
    <2>2. Power(n * a, t) = N * B
      BY PowerTimes
    <2>3. t * (n * a) + a * t = (t * a) * (n + 1)
      BY Z3
    <2>4. Power((t * a) * (n + 1), t + a) = ((T * C) * (B * A)) * M
      <3>1. Power((t * a) * (n + 1), t + a) = Power(t * a, t + a) * M
        <4>1. t * a \in Nat /\ n + 1 \in Nat /\ t + a \in Nat
          OBVIOUS
        <4> QED
          BY <4>1, PowerTimes
      <3>2. Power(t * a, t + a) = Power(t, t + a) * Power(a, t + a)
        BY PowerTimes
      <3>3. Power(t, t + a) = T * C /\ Power(a, t + a) = B * A
        BY PowerAdd
      <3> QED
        BY <3>1, <3>2, <3>3
    <2>5. /\ (Power(n * a, t) * Power(t, a)) * Power(t + a, t + a)
               <= Power(t * (n * a) + a * t, t + a)
          /\ n * a # t => (Power(n * a, t) * Power(t, a)) * Power(t + a, t + a)
                            < Power(t * (n * a) + a * t, t + a)
      <3> DEFINE x == n * a
      <3>1. x \in Nat /\ x # 0 /\ a # 0
        BY <2>1
      <3> HIDE DEF x
      <3>2. /\ (Power(x, t) * Power(t, a)) * Power(t + a, t + a) <= Power(t * x + a * t, t + a)
            /\ x # t => (Power(x, t) * Power(t, a)) * Power(t + a, t + a)
                          < Power(t * x + a * t, t + a)
        BY <3>1, MeanOfTwo
      <3> QED
        BY <3>2 DEF x
    <2>6. ((T * C) * (B * A)) * M = (T * C) * ((B * A) * M)
      <3> HIDE DEF T, N, A, Z, M, B, C
      <3> QED
        BY <1>1, Z3
    <2> QED
      BY <2>2, <2>3, <2>4, <2>5, <2>6
  <1>3. n * a = t => ((N * B) * C) * Z = (T * C) * ((B * A) * M)
    <2> SUFFICES ASSUME n * a = t PROVE ((N * B) * C) * Z = (T * C) * ((B * A) * M)
      OBVIOUS
    <2>1. T = N * B
      <3>1. Power(n * a, t) = N * B
        BY PowerTimes
      <3> QED
        BY <3>1
    <2>2. t + a = (n + 1) * a
      BY Z3
    <2>3. Z = M * (B * A)
      <3>1. Power((n + 1) * a, t + a) = M * Power(a, t + a)
        <4>1. n + 1 \in Nat /\ a \in Nat /\ t + a \in Nat
          OBVIOUS
        <4> QED
          BY <4>1, PowerTimes
      <3>2. Power(a, t + a) = B * A
        BY PowerAdd
      <3> QED
        BY <2>2, <3>1, <3>2
    <2> HIDE DEF T, N, A, Z, M, B, C
    <2> QED
      BY <1>1, <2>1, <2>3, Z3
  <1> HIDE DEF T, N, A, Z, M, B, C
  <1>4. T <= N * p /\ p \in Nat
    BY DEF T, N
  <1> DEFINE d == B * C  e == T * (A * M)  f == (N * p) * (A * M)  g == N * Z
             r == M * (A * p)
  <1>5. d \in Nat \ {0} /\ e \in Nat /\ f \in Nat /\ g \in Nat /\ r \in Nat
        /\ A * M \in Nat \ {0}
    <2>1. d \in Nat /\ d > 0 /\ A * M \in Nat /\ A * M > 0
      BY <1>1, Z3
    <2>2. e \in Nat /\ f \in Nat /\ g \in Nat /\ r \in Nat
      BY <1>1
    <2> QED
      BY <2>1, <2>2
  <1>6. ((N * B) * C) * Z = d * g /\ (T * C) * ((B * A) * M) = d * e
    BY <1>1, Z3
  <1>7. f = N * r
    BY <1>1, Z3
  <1>8. d * g <= d * e /\ (d * g = d * e <=> n * a = t)
    <2>1. d * g \in Nat /\ d * e \in Nat
      BY <1>5
    <2> HIDE DEF d, g, e
    <2>2. d * g <= d * e /\ (n * a # t => d * g < d * e) /\ (n * a = t => d * g = d * e)
      BY <1>2, <1>3, <1>6
    <2> QED
      BY <2>1, <2>2
  <1>9. g <= e /\ (g = e <=> n * a = t)
    <2> HIDE DEF d, g, e
    <2>1. (d * g <= d * e <=> g <= e) /\ (d * g = d * e <=> g = e)
      BY <1>5, Cancel
    <2> QED
      BY <1>8, <2>1
  <1>10. e <= f /\ (e = f <=> T = N * p)
    <2> DEFINE c == A * M  q == N * p
    <2>1. c \in Nat \ {0} /\ q \in Nat /\ e = c * T /\ f = c * q
      <3>1. e = c * T /\ f = c * q
        BY <1>1, Z3
      <3> QED
        BY <1>1, <1>5, <3>1
    <2> HIDE DEF c, q, e, f
    <2>2. (c * T <= c * q <=> T <= q) /\ (c * T = c * q <=> T = q)
      BY <1>1, <2>1, Cancel
    <2>3. T <= q
      BY <1>4 DEF q
    <2> QED
      BY <2>1, <2>2, <2>3 DEF q
  <1>11. g <= N * r /\ (g = N * r <=> n * a = t /\ T = N * p)
    <2> HIDE DEF d, e, f, g, r
    <2> QED
      BY <1>5, <1>7, <1>9, <1>10
  <1>12. Z <= r /\ (Z = r <=> n * a = t /\ T = N * p)
    <2>1. r \in Nat
      BY <1>5
    <2>2. N * Z <= N * r /\ (N * Z = N * r <=> n * a = t /\ T = N * p)
      BY <1>11
    <2> HIDE DEF r
    <2>3. (N * Z <= N * r <=> Z <= r) /\ (N * Z = N * r <=> Z = r)
      BY <1>1, <2>1, Cancel
    <2> QED
      BY <2>2, <2>3
  <1> QED
    BY <1>12 DEF T, N, A, Z, M

\* The t-th power of a sum t of n terms is at most the n^t-fold of the product of each
\* term to its own power, which is reached if the terms are even.
LEMMA SelfPowers ==
  ASSUME NEW S, IsFiniteSet(S), S # {}, NEW w, \A k \in S : w[k] \in Nat \ {0},
         NEW v, \A k \in S : v[k] = Power(w[k], w[k])
  PROVE  LET t == Tally(S, w)
             r == Power(Cardinality(S), t) * Product(S, v)
         IN  Power(t, t) <= r /\ (Power(t, t) = r <=> Even(S, w))
  <1> DEFINE l(U) == Power(Tally(U, w), Tally(U, w))
             r(U) == Power(Cardinality(U), Tally(U, w)) * Product(U, v)
             Mean(U) == l(U) <= r(U) /\ (l(U) = r(U) <=> Even(U, w))
             F == {U \in SUBSET S : U # {} => Mean(U)}
  <1>0. \A k \in S : v[k] \in Nat
    BY PowerType
  <1>1. {} \in F
    OBVIOUS
  <1>2. ASSUME NEW U \in SUBSET S, NEW x \in S \ U, U \in F
        PROVE  Mean(U \cup {x})
    <2> DEFINE a == w[x]  V == U \cup {x}
    <2>0. IsFiniteSet(U) /\ a \in Nat \ {0} /\ (\A k \in U \cup {x} : w[k] \in Nat)
          /\ (\A k \in U \cup {x} : v[k] \in Nat) /\ v[x] = Power(a, a)
      BY <1>0, FS_Subset
    <2>1. /\ Tally(V, w) = Tally(U, w) + a
          /\ Cardinality(V) = Cardinality(U) + 1
          /\ Product(V, v) = v[x] * Product(U, v)
      <3>1. Tally(V, w) = Tally(U, w) + a
        BY <2>0, TallyAdd
      <3>2. Cardinality(V) = Cardinality(U) + 1
        BY <2>0, FS_AddElement
      <3>3. Product(V, v) = v[x] * Product(U, v)
        BY <2>0, ProductAdd
      <3> QED
        BY <3>1, <3>2, <3>3
    <2>2. CASE U = {}
      <3>1. Tally(V, w) = a /\ Cardinality(V) = 1 /\ Product(V, v) = Power(a, a) /\ V = {x}
        <4>1. Tally(U, w) = 0 /\ Cardinality(U) = 0 /\ Product(U, v) = 1
          BY <2>2, TallyEmpty, FS_EmptySet, ProductEmpty
        <4>2. Power(a, a) \in Nat
          BY <2>0, PowerType
        <4> QED
          BY <2>0, <2>1, <2>2, <4>1, <4>2
      <3>2. Power(1, a) = 1
        <4> DEFINE G == {k \in Nat : Power(1, k) = 1}
        <4>1. 0 \in G
          BY PowerZero
        <4>2. \A k \in Nat : k \in G => k + 1 \in G
          BY PowerNext
        <4>3. \A k \in Nat : k \in G
          <5> HIDE DEF G
          <5> QED
            BY <4>1, <4>2, CountInduction
        <4> QED
          BY <2>0, <4>3
      <3>3. Even(V, w)
        BY <2>0, <3>1 DEF Even
      <3>4. Power(a, a) \in Nat
        BY <2>0, PowerType
      <3> HIDE DEF V
      <3>5. l(V) = Power(a, a) /\ r(V) = Power(a, a)
        BY <3>1, <3>2, <3>4
      <3> HIDE DEF l, r
      <3>6. l(V) <= r(V) /\ (l(V) = r(V) <=> Even(V, w))
        BY <3>3, <3>4, <3>5
      <3> QED
        BY <3>6 DEF V
    <2>3. CASE U # {}
      <3> DEFINE t == Tally(U, w)  n == Cardinality(U)  p == Product(U, v)
      <3>1. n \in Nat \ {0} /\ t \in Nat \ {0} /\ p \in Nat
        <4>1. n \in Nat /\ n # 0
          BY <2>0, <2>3, FS_CardinalityType, FS_EmptySet
        <4>2. t \in Nat
          BY <2>0, TallyType
        <4>3. t # 0
          <5>1. PICK k \in U : w[k] # 0
            BY <2>3
          <5> QED
            BY <2>0, <5>1, TallyPositive
        <4>4. p \in Nat
          BY <2>0, ProductType
        <4> QED
          BY <4>1, <4>2, <4>3, <4>4
      <3>2. Power(t, t) <= Power(n, t) * p /\ (Power(t, t) = Power(n, t) * p <=> Even(U, w))
        BY <1>2, <2>3
      <3>3. Even(V, w) <=> Even(U, w) /\ n * a = t
        BY <2>0, <2>3, EvenWithOneMore
      <3>4. l(V) = Power(t + a, t + a) /\ r(V) = Power(n + 1, t + a) * (Power(a, a) * p)
        BY <2>0, <2>1
      <3> HIDE DEF t, n, p, a, V, l, r
      <3>5. Power(t, t) <= Power(n, t) * p
        BY <3>2
      <3>6. /\ Power(t + a, t + a) <= Power(n + 1, t + a) * (Power(a, a) * p)
            /\ Power(t + a, t + a) = Power(n + 1, t + a) * (Power(a, a) * p)
                 <=> n * a = t /\ Power(t, t) = Power(n, t) * p
        <4>1. a \in Nat \ {0}
          BY <2>0
        <4> QED
          BY <3>1, <3>5, <4>1, MeanStep
      <3>7. l(V) <= r(V) /\ (l(V) = r(V) <=> Even(V, w))
        BY <3>2, <3>3, <3>4, <3>6
      <3> QED
        BY <3>7 DEF V
    <2> QED
      BY <2>2, <2>3
  <1>3. S \in F
    <2>1. \A U \in SUBSET S : \A x \in S \ U : U \in F => U \cup {x} \in F
      <3> HIDE DEF Mean
      <3> QED
        BY <1>2
    <2> HIDE DEF F
    <2> QED
      BY <1>1, <2>1, SetInduction
  <1> QED
    BY <1>3

\* With a larger number in the place of that of the terms, it is not reached.
LEMMA SelfPowersOf ==
  ASSUME NEW S, IsFiniteSet(S), S # {}, NEW w, \A k \in S : w[k] \in Nat \ {0},
         NEW v, \A k \in S : v[k] = Power(w[k], w[k]),
         NEW n \in Nat, Cardinality(S) <= n
  PROVE  LET t == Tally(S, w)
             r == Power(n, t) * Product(S, v)
         IN  Power(t, t) <= r /\ (Power(t, t) = r <=> Cardinality(S) = n /\ Even(S, w))
  <1> DEFINE t == Tally(S, w)  c == Cardinality(S)  p == Product(S, v)
  <1>1. c \in Nat \ {0} /\ t \in Nat \ {0} /\ p \in Nat \ {0}
    <2>1. c \in Nat /\ c # 0
      BY FS_CardinalityType, FS_EmptySet
    <2>2. t \in Nat
      BY TallyType
    <2>3. t # 0
      BY TallyPositive
    <2>4. \A k \in S : v[k] \in Nat \ {0}
      BY PowerPositive
    <2>5. p \in Nat \ {0}
      BY <2>4, ProductPositive
    <2> QED
      BY <2>1, <2>2, <2>3, <2>5
  <1>2. Power(t, t) <= Power(c, t) * p /\ (Power(t, t) = Power(c, t) * p <=> Even(S, w))
    BY SelfPowers
  <1> HIDE DEF t, c, p
  <1>3. CASE c = n
    BY <1>2, <1>3 DEF t, c, p
  <1>4. CASE c < n
    <2> DEFINE x == Power(c, t)  y == Power(n, t)  z == Power(t, t)
    <2>1. x \in Nat /\ y \in Nat /\ z \in Nat /\ x < y
      BY <1>1, <1>4, PowerType, PowerGrows
    <2> HIDE DEF x, y, z
    <2>2. x * p < y * p
      BY <1>1, <2>1, Z3
    <2>3. z <= x * p /\ x * p \in Nat /\ y * p \in Nat
      BY <1>1, <1>2, <2>1 DEF x, z
    <2>4. z < y * p
      BY <2>1, <2>2, <2>3
    <2> QED
      BY <1>1, <1>4, <2>1, <2>3, <2>4 DEF y, z, t, c, p
  <1> QED
    BY <1>1, <1>3, <1>4 DEF c

\* The squares of the distances of the terms, multiplied by n, from c.
LEMMA SquaresOfDistances ==
  ASSUME NEW S, IsFiniteSet(S), NEW w, \A k \in S : w[k] \in Nat, NEW n \in Nat, NEW c \in Nat,
         NEW q, \A k \in S : q[k] = w[k] * w[k],
         NEW v, \A k \in S : v[k] = (n * w[k] - c) * (n * w[k] - c)
  PROVE  /\ \A k \in S : v[k] \in Nat
         /\ Tally(S, v) + (2 * (n * c)) * Tally(S, w)
              = (n * n) * Tally(S, q) + Cardinality(S) * (c * c)
  <1>0. \A k \in S : v[k] \in Nat /\ q[k] \in Nat
    <2> SUFFICES ASSUME NEW k \in S PROVE v[k] \in Nat /\ q[k] \in Nat
      OBVIOUS
    <2> DEFINE d == n * w[k] - c
    <2>1. d \in Int /\ v[k] = d * d /\ w[k] \in Nat
      OBVIOUS
    <2> HIDE DEF d
    <2>2. d * d \in Nat
      <3>1. d * d >= 0
        BY <2>1, Z3
      <3> QED
        BY <2>1, <3>1
    <2> QED
      BY <2>1, <2>2
  <1> DEFINE Same(U) == Tally(U, v) + (2 * (n * c)) * Tally(U, w)
                          = (n * n) * Tally(U, q) + Cardinality(U) * (c * c)
             F == {U \in SUBSET S : Same(U)}
  <1>1. {} \in F
    <2>1. /\ Tally({}, v) = 0 /\ Tally({}, w) = 0 /\ Tally({}, q) = 0
          /\ Cardinality({}) = 0
      BY TallyEmpty, FS_EmptySet
    <2> QED
      BY <2>1
  <1>2. ASSUME NEW U \in SUBSET S, NEW x \in S \ U, Same(U)
        PROVE  Same(U \cup {x})
    <2>1. IsFiniteSet(U)
      BY FS_Subset
    <2>2. /\ Tally(U \cup {x}, v) = Tally(U, v) + v[x]
          /\ Tally(U \cup {x}, w) = Tally(U, w) + w[x]
          /\ Tally(U \cup {x}, q) = Tally(U, q) + q[x]
          /\ Cardinality(U \cup {x}) = Cardinality(U) + 1
      <3>1. Tally(U \cup {x}, v) = Tally(U, v) + v[x]
        BY <1>0, <2>1, TallyAdd
      <3>2. Tally(U \cup {x}, w) = Tally(U, w) + w[x]
        BY <2>1, TallyAdd
      <3>3. Tally(U \cup {x}, q) = Tally(U, q) + q[x]
        BY <1>0, <2>1, TallyAdd
      <3>4. Cardinality(U \cup {x}) = Cardinality(U) + 1
        BY <2>1, FS_AddElement
      <3> QED
        BY <3>1, <3>2, <3>3, <3>4
    <2> DEFINE a == w[x]  V == Tally(U, v)  W == Tally(U, w)  Q == Tally(U, q)
               m == Cardinality(U)
    <2>3. a \in Nat /\ V \in Nat /\ W \in Nat /\ Q \in Nat /\ m \in Nat
      BY <1>0, <2>1, TallyType, FS_CardinalityType
    <2>4. v[x] = (n * a - c) * (n * a - c) /\ q[x] = a * a
      OBVIOUS
    <2>5. V + (2 * (n * c)) * W = (n * n) * Q + m * (c * c)
      BY <1>2
    <2> HIDE DEF a, V, W, Q, m
    <2>6. (V + (n * a - c) * (n * a - c)) + (2 * (n * c)) * (W + a)
            = (n * n) * (Q + a * a) + (m + 1) * (c * c)
      BY <2>3, <2>5, Z3
    <2> QED
      BY <2>2, <2>4, <2>6 DEF a, V, W, Q, m
  <1>3. S \in F
    <2>1. \A U \in SUBSET S : \A x \in S \ U : U \in F => U \cup {x} \in F
      <3> HIDE DEF Same
      <3> QED
        BY <1>2
    <2> HIDE DEF F
    <2> QED
      BY <1>1, <2>1, SetInduction
  <1> QED
    BY <1>0, <1>3

\* The square of a sum is at most n times the sum of the squares, for n terms or fewer,
\* which is reached by n even terms.
LEMMA SquaresAtMost ==
  ASSUME NEW S, IsFiniteSet(S), S # {}, NEW w, \A k \in S : w[k] \in Nat \ {0},
         NEW q, \A k \in S : q[k] = w[k] * w[k],
         NEW n \in Nat, Cardinality(S) <= n
  PROVE  LET t == Tally(S, w)
             r == n * Tally(S, q)
         IN  t * t <= r /\ (t * t = r <=> Cardinality(S) = n /\ Even(S, w))
  <1> DEFINE t == Tally(S, w)  c == Cardinality(S)  Q == Tally(S, q)
             v == [k \in S |-> (n * w[k] - t) * (n * w[k] - t)]
             D == Tally(S, v)
  <1>1. c \in Nat \ {0} /\ t \in Nat \ {0} /\ Q \in Nat
    <2>1. c \in Nat /\ c # 0
      BY FS_CardinalityType, FS_EmptySet
    <2>2. t \in Nat
      BY TallyType
    <2>3. t # 0
      BY TallyPositive
    <2>4. Q \in Nat
      BY TallyType
    <2> QED
      BY <2>1, <2>2, <2>3, <2>4
  <1>2. /\ \A k \in S : v[k] \in Nat
        /\ D + (2 * (n * t)) * t = (n * n) * Q + c * (t * t)
    <2>1. \A k \in S : v[k] = (n * w[k] - t) * (n * w[k] - t) /\ w[k] \in Nat
      OBVIOUS
    <2> HIDE DEF v
    <2> QED
      BY <1>1, <2>1, SquaresOfDistances
  <1>3. D \in Nat
    <2> HIDE DEF v
    <2> QED
      BY <1>2, TallyType
  <1>4. D = 0 <=> \A k \in S : n * w[k] = t
    <2>1. ASSUME D = 0, NEW k \in S
          PROVE  n * w[k] = t
      <3>1. v[k] = 0
        <4> HIDE DEF v
        <4> QED
          BY <1>2, <2>1, TallyPositive
      <3> DEFINE d == n * w[k] - t
      <3>2. d \in Int /\ d * d = 0
        BY <1>1, <3>1
      <3> HIDE DEF d
      <3>3. d = 0
        BY <3>2, Z3
      <3>4. n * w[k] \in Nat
        OBVIOUS
      <3> QED
        BY <1>1, <3>3, <3>4 DEF d
    <2>2. ASSUME \A k \in S : n * w[k] = t
          PROVE  D = 0
      <3>1. \A k \in S : v[k] = 0
        BY <1>1, <2>2
      <3> HIDE DEF v
      <3> QED
        BY <3>1, TallyZero
    <2> QED
      BY <2>1, <2>2
  <1> HIDE DEF D, v
  <1>5. n \in Nat \ {0} /\ c <= n
    BY <1>1
  <1>6. (n * n) * Q = n * (n * Q)
    <2> HIDE DEF t, c, Q
    <2> QED
      BY <1>1, Z3
  <1>7. n * (n * Q) - n * (t * t) = D + (n - c) * (t * t)
    <2> HIDE DEF t, c, Q
    <2> QED
      BY <1>1, <1>2, <1>3, <1>6, Z3
  <1>8. (n - c) * (t * t) \in Nat /\ ((n - c) * (t * t) = 0 <=> n = c)
    <2> DEFINE d == n - c
    <2>1. d \in Nat /\ (d = 0 <=> n = c)
      BY <1>1, <1>5
    <2> HIDE DEF t, c, Q, d
    <2>2. t * t > 0
      BY <1>1, Z3
    <2>3. d # 0 => d * (t * t) > 0
      <3> DEFINE s == t * t
      <3>1. s \in Nat /\ s > 0
        BY <1>1, <2>2
      <3> HIDE DEF s
      <3>2. d # 0 => d * s > 0
        BY <2>1, <3>1, Z3
      <3> QED
        BY <3>2 DEF s
    <2>4. d * (t * t) \in Nat /\ 0 * (t * t) = 0
      BY <1>1, <2>1
    <2> QED
      BY <2>1, <2>3, <2>4 DEF d
  <1>9. t * t \in Nat /\ n * Q \in Nat
    BY <1>1
  <1> DEFINE a == t * t  b == n * Q  e == (n - c) * (t * t)
  <1>10. n * a <= n * b /\ (n * a = n * b <=> D = 0 /\ n = c)
    <2>1. a \in Nat /\ b \in Nat /\ e \in Nat /\ n * b - n * a = D + e /\ (e = 0 <=> n = c)
      BY <1>7, <1>8, <1>9
    <2> HIDE DEF a, b, e
    <2>2. n * a \in Nat /\ n * b \in Nat
      BY <2>1
    <2>3. n * a <= n * b /\ (n * a = n * b <=> D + e = 0)
      BY <1>3, <2>1, <2>2
    <2> QED
      BY <1>3, <2>1, <2>3
  <1>11. a <= b /\ (a = b <=> D = 0 /\ n = c)
    <2> HIDE DEF a, b
    <2>1. a \in Nat /\ b \in Nat
      BY <1>9 DEF a, b
    <2>2. (n * a <= n * b <=> a <= b) /\ (n * a = n * b <=> a = b)
      BY <1>5, <2>1, Cancel
    <2> QED
      BY <1>10, <2>2
  <1>12. D = 0 /\ n = c <=> c = n /\ Even(S, w)
    <2> SUFFICES ASSUME n = c PROVE (\A k \in S : n * w[k] = t) <=> Even(S, w)
      BY <1>4
    <2>1. \A k \in S : n * w[k] = w[k] * c
      <3> SUFFICES ASSUME NEW k \in S PROVE n * w[k] = w[k] * c
        OBVIOUS
      <3> DEFINE b1 == w[k]
      <3>1. b1 \in Nat
        OBVIOUS
      <3> HIDE DEF b1, c
      <3>2. n * b1 = b1 * c
        BY <3>1, Z3
      <3> QED
        BY <3>2 DEF b1
    <2> QED
      BY <2>1 DEF Even
  <1> QED
    BY <1>11, <1>12

\* The sum of the squares is at most the square of the sum, which is reached by one term.
LEMMA SquaresAtLeast ==
  ASSUME NEW S, IsFiniteSet(S), S # {}, NEW w, \A k \in S : w[k] \in Nat \ {0},
         NEW q, \A k \in S : q[k] = w[k] * w[k]
  PROVE  LET t == Tally(S, w)
         IN  Tally(S, q) <= t * t /\ (Tally(S, q) = t * t <=> Cardinality(S) = 1)
  <1> DEFINE Below(U) == /\ Tally(U, q) <= Tally(U, w) * Tally(U, w)
                         /\ Cardinality(U) > 1 => Tally(U, q) < Tally(U, w) * Tally(U, w)
             F == {U \in SUBSET S : Below(U)}
  <1>0. \A k \in S : q[k] \in Nat
    OBVIOUS
  <1>1. {} \in F
    <2>1. Tally({}, w) = 0 /\ Tally({}, q) = 0 /\ Cardinality({}) = 0
      BY TallyEmpty, FS_EmptySet
    <2> QED
      BY <2>1
  <1>2. ASSUME NEW U \in SUBSET S, NEW x \in S \ U, Below(U)
        PROVE  Below(U \cup {x})
    <2>1. IsFiniteSet(U)
      BY FS_Subset
    <2> DEFINE a == w[x]  t == Tally(U, w)  r == Tally(U, q)  n == Cardinality(U)
    <2>2. /\ Tally(U \cup {x}, w) = t + a
          /\ Tally(U \cup {x}, q) = r + a * a
          /\ Cardinality(U \cup {x}) = n + 1
      <3>1. Tally(U \cup {x}, w) = t + a
        BY <2>1, TallyAdd
      <3>2. Tally(U \cup {x}, q) = r + q[x] /\ q[x] = a * a
        BY <1>0, <2>1, TallyAdd
      <3>3. Cardinality(U \cup {x}) = n + 1
        BY <2>1, FS_AddElement
      <3> QED
        BY <3>1, <3>2, <3>3
    <2>3. a \in Nat \ {0} /\ t \in Nat /\ r \in Nat /\ n \in Nat
      BY <1>0, <2>1, TallyType, FS_CardinalityType
    <2>4. n # 0 => t # 0
      <3> SUFFICES ASSUME n # 0, t = 0 PROVE FALSE
        OBVIOUS
      <3>1. PICK k \in U : TRUE
        BY <2>1, FS_EmptySet
      <3>2. w[k] = 0
        BY <2>1, TallyPositive
      <3> QED
        BY <3>2
    <2>5. r <= t * t
      BY <1>2
    <2> HIDE DEF a, t, r, n
    <2>6. (t + a) * (t + a) = (t * t + a * a) + 2 * (t * a)
      BY <2>3, Z3
    <2>7. t * a \in Nat /\ (t # 0 => t * a > 0) /\ t * t \in Nat /\ a * a \in Nat
      <3>1. t # 0 => t * a > 0
        BY <2>3, Z3
      <3> QED
        BY <2>3, <3>1
    <2> DEFINE b == t * a  c == t * t  d == a * a  e == (t + a) * (t + a)
    <2>8. b \in Nat /\ c \in Nat /\ d \in Nat /\ e = (c + d) + 2 * b /\ r <= c /\ (t # 0 => b > 0)
      BY <2>5, <2>6, <2>7
    <2> HIDE DEF b, c, d, e
    <2>9. r + d <= e /\ (t # 0 => r + d < e)
      BY <2>3, <2>8
    <2>10. n + 1 > 1 => t # 0
      BY <2>3, <2>4
    <2> QED
      BY <2>2, <2>9, <2>10 DEF b, c, d, e
  <1>3. S \in F
    <2>1. \A U \in SUBSET S : \A x \in S \ U : U \in F => U \cup {x} \in F
      <3> HIDE DEF Below
      <3> QED
        BY <1>2
    <2> HIDE DEF F
    <2> QED
      BY <1>1, <2>1, SetInduction
  <1>4. ASSUME Cardinality(S) = 1
        PROVE  Tally(S, q) = Tally(S, w) * Tally(S, w)
    <2>1. PICK x : S = {x}
      BY <1>4, FS_Singleton
    <2>2. Tally(S, q) = q[x] /\ Tally(S, w) = w[x]
      BY <1>0, <2>1, TallyOne
    <2> QED
      BY <2>1, <2>2
  <1>5. Cardinality(S) \in Nat /\ Cardinality(S) # 0
    BY FS_CardinalityType, FS_EmptySet
  <1>6. Tally(S, q) \in Nat /\ Tally(S, w) * Tally(S, w) \in Nat
    <2>1. Tally(S, w) \in Nat /\ Tally(S, q) \in Nat
      BY <1>0, TallyType
    <2> DEFINE t == Tally(S, w)
    <2>2. t * t \in Nat
      <3> HIDE DEF t
      <3> QED
        BY <2>1 DEF t
    <2> QED
      BY <2>1, <2>2
  <1> QED
    BY <1>3, <1>4, <1>5, <1>6

---------------------------------------------------------------------------------
(* Sums of tallies.                                                               *)

\* The tally of weights that are sums is the sum of the tallies.
LEMMA TallySums ==
  ASSUME NEW S, IsFiniteSet(S), NEW u, NEW v, NEW w,
         \A k \in S : u[k] \in Nat /\ v[k] \in Nat /\ w[k] = u[k] + v[k]
  PROVE  Tally(S, w) = Tally(S, u) + Tally(S, v)
  <1> DEFINE F == {T \in SUBSET S : Tally(T, w) = Tally(T, u) + Tally(T, v)}
  <1>1. {} \in F
    BY TallyEmpty
  <1>2. ASSUME NEW T \in SUBSET S, NEW x \in S \ T, T \in F
        PROVE  T \cup {x} \in F
    <2>1. IsFiniteSet(T) /\ x \notin T
      BY FS_Subset
    <2>2. \A k \in T \cup {x} : u[k] \in Nat /\ v[k] \in Nat /\ w[k] \in Nat
      OBVIOUS
    <2>3. /\ Tally(T \cup {x}, u) = Tally(T, u) + u[x]
          /\ Tally(T \cup {x}, v) = Tally(T, v) + v[x]
          /\ Tally(T \cup {x}, w) = Tally(T, w) + w[x]
      BY <2>1, <2>2, TallyAdd
    <2>4. Tally(T, u) \in Nat /\ Tally(T, v) \in Nat
      BY <2>1, <2>2, TallyType
    <2>5. Tally(T, w) = Tally(T, u) + Tally(T, v) /\ w[x] = u[x] + v[x]
      BY <1>2
    <2>6. Tally(T \cup {x}, w) = Tally(T \cup {x}, u) + Tally(T \cup {x}, v)
      BY <2>2, <2>3, <2>4, <2>5
    <2> QED
      BY <2>6
  <1> HIDE DEF F
  <1>3. S \in F
    BY <1>1, <1>2, SetInduction
  <1> QED
    BY <1>3 DEF F

\* Of greater weights, and of more packets, the tally is not smaller.
LEMMA TallyAtMost ==
  ASSUME NEW S, IsFiniteSet(S), NEW u,
         NEW w, \A k \in S : u[k] \in Nat /\ w[k] \in Nat /\ u[k] <= w[k]
  PROVE  Tally(S, u) <= Tally(S, w)
  <1> DEFINE v == [k \in S |-> w[k] - u[k]]
  <1>1. \A k \in S : u[k] \in Nat /\ v[k] \in Nat /\ w[k] = u[k] + v[k]
    OBVIOUS
  <1> HIDE DEF v
  <1>2. Tally(S, w) = Tally(S, u) + Tally(S, v)
    BY <1>1, TallySums
  <1>3. Tally(S, u) \in Nat /\ Tally(S, v) \in Nat
    BY <1>1, TallyType
  <1> QED
    BY <1>2, <1>3

LEMMA TallySubset ==
  ASSUME NEW S, IsFiniteSet(S), NEW T \in SUBSET S, NEW w, \A k \in S : w[k] \in Nat
  PROVE  Tally(T, w) <= Tally(S, w)
  <1>1. IsFiniteSet(T) /\ IsFiniteSet(S \ T)
    BY FS_Subset
  <1>2. Tally(T \cup (S \ T), w) = Tally(T, w) + Tally(S \ T, w)
    BY <1>1, TallyUnion
  <1>3. Tally(T, w) \in Nat /\ Tally(S \ T, w) \in Nat
    BY <1>1, TallyType
  <1>4. T \cup (S \ T) = S
    OBVIOUS
  <1>5. Tally(S, w) = Tally(T, w) + Tally(S \ T, w)
    BY <1>2, <1>4
  <1> QED
    BY <1>3, <1>5

\* There are no more packets than their weights sum up to, if each has one.
LEMMA TallyCounts ==
  ASSUME NEW S, IsFiniteSet(S), NEW w, \A k \in S : w[k] \in Nat \ {0}
  PROVE  Cardinality(S) <= Tally(S, w)
  <1> DEFINE u == [k \in S |-> 1]
  <1>1. \A k \in S : u[k] \in Nat /\ w[k] \in Nat /\ u[k] <= w[k] /\ u[k] = 1
    OBVIOUS
  <1> HIDE DEF u
  <1>2. Tally(S, u) <= Tally(S, w)
    BY <1>1, TallyAtMost
  <1>3. Tally(S, u) = Cardinality(S)
    BY <1>1, TallyOnes
  <1> QED
    BY <1>2, <1>3

---------------------------------------------------------------------------------
(* Rows of counters.                                                              *)

\* The fields that the others agree with.
Fields == {<<"num_packets", 0>>, <<"num_bytes", 0>>, <<"num_df", 0>>}

\* The sum of the elements of a vector is a number.
LEMMA RowSumType ==
  ASSUME NEW C, IsFiniteSet(C), NEW u \in [C -> Nat], NEW h
  PROVE  RowSum(u, h) \in Nat
  <1> DEFINE S == {c \in C : c[1] = h}
  <1>1. IsFiniteSet(S) /\ \A c \in S : u[c] \in Nat
    BY FS_Subset
  <1> HIDE DEF S
  <1>2. Tally(S, u) \in Nat
    BY <1>1, TallyType
  <1> QED
    BY <1>2 DEF RowSum, S

\* It is the only element that is not zero, or zero.
LEMMA RowSumOne ==
  ASSUME NEW u, NEW h, NEW x, x \in DOMAIN u, x[1] = h, u[x] \in Nat,
         \A c \in DOMAIN u : c[1] = h /\ c # x => u[c] = 0
  PROVE  RowSum(u, h) = u[x]
  <1> DEFINE S == {c \in DOMAIN u : c[1] = h}
  <1>1. {x} \in SUBSET S /\ \A c \in S \ {x} : u[c] = 0
    OBVIOUS
  <1> HIDE DEF S
  <1>2. Tally({x}, u) = Tally(S, u)
    BY <1>1, TallySupport
  <1>3. Tally({x}, u) = u[x]
    BY TallyOne
  <1> QED
    BY <1>2, <1>3 DEF RowSum, S

LEMMA RowSumNone ==
  ASSUME NEW u, NEW h, \A c \in DOMAIN u : c[1] = h => u[c] = 0
  PROVE  RowSum(u, h) = 0
  <1>1. \A c \in {d \in DOMAIN u : d[1] = h} : u[c] = 0
    OBVIOUS
  <1> QED
    BY <1>1, TallyZero DEF RowSum

\* It is the tally of the elements by their numbers.
LEMMA RowSumElements ==
  ASSUME NEW S, IsFiniteSet(S), NEW h, NEW w, {c \in DOMAIN w : c[1] = h} = {h} \X S,
         NEW v, \A k \in S : v[k] \in Nat /\ v[k] = w[<<h, k>>]
  PROVE  RowSum(w, h) = Tally(S, v)
  <1> DEFINE F == {T \in SUBSET S : Tally({h} \X T, w) = Tally(T, v)}
  <1>1. {} \in F
    <2>1. {h} \X {} = {}
      OBVIOUS
    <2> QED
      BY <2>1, TallyEmpty
  <1>2. ASSUME NEW T \in SUBSET S, NEW x \in S \ T, T \in F
        PROVE  T \cup {x} \in F
    <2> DEFINE P == {h} \X T  y == <<h, x>>
    <2>1. IsFiniteSet(T) /\ x \notin T /\ T \subseteq S
      BY FS_Subset
    <2>2. {h} \X (T \cup {x}) = P \cup {y} /\ y \notin P
      OBVIOUS
    <2>3. IsFiniteSet(P)
      BY <2>1, FS_Singleton, FS_Product
    <2>4. \A p \in P \cup {y} : w[p] \in Nat
      OBVIOUS
    <2>5. Tally(P, w) = Tally(T, v) /\ w[y] = v[x]
      BY <1>2
    <2> HIDE DEF P, y
    <2>6. Tally(P \cup {y}, w) = Tally(P, w) + w[y]
      BY <2>2, <2>3, <2>4, TallyAdd
    <2>7. Tally(T \cup {x}, v) = Tally(T, v) + v[x]
      <3>1. \A k \in T \cup {x} : v[k] \in Nat
        BY <2>1
      <3> QED
        BY <2>1, <3>1, TallyAdd
    <2> QED
      BY <2>2, <2>5, <2>6, <2>7
  <1> HIDE DEF F
  <1>3. S \in F
    BY <1>1, <1>2, SetInduction
  <1> QED
    BY <1>3 DEF F, RowSum

\* There are finitely many cells.
LEMMA FourFinite ==
  ASSUME NEW a, NEW b, NEW c, NEW d
  PROVE  IsFiniteSet({a, b, c, d})
  <1>1. IsFiniteSet({a} \cup {b})
    BY FS_Singleton, FS_AddElement
  <1>2. IsFiniteSet(({a} \cup {b}) \cup {c})
    BY <1>1, FS_AddElement
  <1>3. IsFiniteSet((({a} \cup {b}) \cup {c}) \cup {d})
    BY <1>2, FS_AddElement
  <1>4. (({a} \cup {b}) \cup {c}) \cup {d} = {a, b, c, d}
    OBVIOUS
  <1> QED
    BY <1>3, <1>4

LEMMA CellsFinite ==
  ASSUME NEW S, IsFiniteSet(S), NEW H, IsFiniteSet(H), NEW z, NEW a \in Nat, NEW b \in Nat
  PROVE  IsFiniteSet((S \X {0}) \cup (H \X (0 .. a - 1)) \cup ({z} \X (0 .. b - 1)))
  <1>1. IsFiniteSet({0}) /\ IsFiniteSet({z}) /\ IsFiniteSet(0 .. a - 1) /\ IsFiniteSet(0 .. b - 1)
    <2>1. a - 1 \in Int /\ b - 1 \in Int /\ 0 \in Int
      OBVIOUS
    <2>2. IsFiniteSet(0 .. a - 1) /\ IsFiniteSet(0 .. b - 1)
      BY <2>1, FS_Interval
    <2>3. IsFiniteSet({0}) /\ IsFiniteSet({z})
      BY FS_Singleton
    <2> QED
      BY <2>2, <2>3
  <1>2. IsFiniteSet(S \X {0}) /\ IsFiniteSet(H \X (0 .. a - 1)) /\
          IsFiniteSet({z} \X (0 .. b - 1))
    BY <1>1, FS_Product
  <1> DEFINE A == S \X {0}  B == H \X (0 .. a - 1)  Z == {z} \X (0 .. b - 1)
  <1> HIDE DEF A, B, Z
  <1>3. IsFiniteSet(A \cup B)
    BY <1>2, FS_Union DEF A, B, Z
  <1>4. IsFiniteSet((A \cup B) \cup Z)
    BY <1>2, <1>3, FS_Union DEF Z
  <1> QED
    BY <1>4 DEF A, B, Z

\* A row of zeros is consistent.
LEMMA NoneConsistent ==
  ASSUME NEW C, Fields \subseteq C, NEW u, DOMAIN u = C, \A c \in C : u[c] = 0,
         NEW bytes, NEW ports
  PROVE  Consistent(u, bytes, ports)
  <1>1. \A h : RowSum(u, h) = 0
    <2> SUFFICES ASSUME NEW h PROVE RowSum(u, h) = 0
      OBVIOUS
    <2>1. \A c \in {d \in DOMAIN u : d[1] = h} : u[c] = 0
      OBVIOUS
    <2> QED
      BY <2>1, TallyZero DEF RowSum
  <1>2. u[<<"num_packets", 0>>] = 0 /\ u[<<"num_bytes", 0>>] = 0 /\ u[<<"num_df", 0>>] = 0
    BY DEF Fields
  <1> QED
    BY <1>1, <1>2 DEF Consistent

\* The sum of two consistent rows is consistent.
LEMMA SumConsistent ==
  ASSUME NEW C, IsFiniteSet(C), Fields \subseteq C, NEW bytes \in BOOLEAN, NEW ports \in BOOLEAN,
         NEW u \in [C -> Nat], Consistent(u, bytes, ports),
         NEW v \in [C -> Nat], Consistent(v, bytes, ports),
         NEW w, DOMAIN w = C, \A c \in C : w[c] = u[c] + v[c]
  PROVE  Consistent(w, bytes, ports)
  <1>1. \A h : /\ RowSum(u, h) \in Nat /\ RowSum(v, h) \in Nat
               /\ RowSum(w, h) = RowSum(u, h) + RowSum(v, h)
    <2> SUFFICES ASSUME NEW h
                 PROVE  /\ RowSum(u, h) \in Nat /\ RowSum(v, h) \in Nat
                        /\ RowSum(w, h) = RowSum(u, h) + RowSum(v, h)
      OBVIOUS
    <2> DEFINE S == {c \in C : c[1] = h}
    <2>1. IsFiniteSet(S)
      BY FS_Subset
    <2>2. \A c \in S : u[c] \in Nat /\ v[c] \in Nat /\ w[c] = u[c] + v[c]
      OBVIOUS
    <2>3. RowSum(u, h) = Tally(S, u) /\ RowSum(v, h) = Tally(S, v) /\ RowSum(w, h) = Tally(S, w)
      BY DEF RowSum
    <2> HIDE DEF S
    <2>4. Tally(S, w) = Tally(S, u) + Tally(S, v)
      BY <2>1, <2>2, TallySums
    <2> QED
      BY <2>3, <2>4, RowSumType
  <1>2. \A c \in Fields : u[c] \in Nat /\ v[c] \in Nat /\ w[c] = u[c] + v[c]
    OBVIOUS
  <1> DEFINE p == <<"num_packets", 0>>  b == <<"num_bytes", 0>>  d == <<"num_df", 0>>
  <1>3. /\ u[p] \in Nat /\ v[p] \in Nat /\ w[p] = u[p] + v[p]
        /\ u[b] \in Nat /\ v[b] \in Nat /\ w[b] = u[b] + v[b]
        /\ u[d] \in Nat /\ v[d] \in Nat /\ w[d] = u[d] + v[d]
    BY <1>2 DEF Fields
  <1>4. \A h \in {"num_src_ips", "num_dst_ips"} : RowSum(w, h) = IF bytes THEN w[b] ELSE w[p]
    BY <1>1, <1>3 DEF Consistent
  <1>5. \A h \in {"num_src_ports", "num_dst_ports"} :
          RowSum(w, h) = IF ports THEN IF bytes THEN w[b] ELSE w[p] ELSE 0
    BY <1>1, <1>3 DEF Consistent
  <1>6. RowSum(w, "num_packet_sizes") <= w[p]
    <2>1. RowSum(u, "num_packet_sizes") <= u[p] /\ RowSum(v, "num_packet_sizes") <= v[p]
      BY DEF Consistent
    <2> QED
      BY <1>1, <1>3, <2>1
  <1>7. w[d] <= w[p] /\ w[p] <= w[b] /\ (w[p] = 0 => w[b] = 0)
    BY <1>3 DEF Consistent
  <1> QED
    BY <1>4, <1>5, <1>6, <1>7 DEF Consistent

\* So is the sum of any number of rows.
RowTotal(C, S, r) == [c \in C |-> Tally(S, [n \in S |-> r[n][c]])]

LEMMA TotalConsistent ==
  ASSUME NEW C, IsFiniteSet(C), Fields \subseteq C, NEW bytes \in BOOLEAN, NEW ports \in BOOLEAN,
         NEW S, IsFiniteSet(S), NEW r,
         \A n \in S : r[n] \in [C -> Nat] /\ Consistent(r[n], bytes, ports)
  PROVE  Consistent(RowTotal(C, S, r), bytes, ports)
  <1> DEFINE col == [c \in C |-> [n \in S |-> r[n][c]]]
             row(T) == [c \in C |-> Tally(T, col[c])]
             F == {T \in SUBSET S : Consistent(row(T), bytes, ports)}
  <1>1. {} \in F
    <2>1. DOMAIN row({}) = C /\ \A c \in C : row({})[c] = 0
      BY TallyEmpty
    <2> HIDE DEF row
    <2>2. Consistent(row({}), bytes, ports)
      BY <2>1, NoneConsistent
    <2> QED
      BY <2>2
  <1>2. ASSUME NEW T \in SUBSET S, NEW x \in S \ T, T \in F
        PROVE  T \cup {x} \in F
    <2>1. IsFiniteSet(T) /\ x \notin T /\ x \in S /\ T \cup {x} \in SUBSET S
      BY FS_Subset
    <2>2. \A c \in C : \A n \in T \cup {x} : col[c][n] \in Nat
      OBVIOUS
    <2>3. \A c \in C : Tally(T \cup {x}, col[c]) = Tally(T, col[c]) + col[c][x]
      BY <2>1, <2>2, TallyAdd
    <2>4. row(T) \in [C -> Nat]
      BY <2>1, <2>2, TallyType
    <2>5. \A c \in C : row(T \cup {x})[c] = row(T)[c] + r[x][c]
      BY <2>1, <2>3
    <2>6. Consistent(row(T), bytes, ports) /\ Consistent(r[x], bytes, ports) /\
            r[x] \in [C -> Nat]
      BY <1>2, <2>1
    <2> DEFINE u == row(T)  v == r[x]  w == row(T \cup {x})
    <2>7. /\ u \in [C -> Nat] /\ v \in [C -> Nat] /\ DOMAIN w = C
          /\ \A c \in C : w[c] = u[c] + v[c]
      BY <2>4, <2>5, <2>6
    <2>8. Consistent(u, bytes, ports) /\ Consistent(v, bytes, ports)
      BY <2>6
    <2>9. Consistent(w, bytes, ports)
      <3> HIDE DEF u, v, w
      <3> QED
        BY <2>7, <2>8, SumConsistent
    <2> QED
      BY <2>1, <2>9
  <1> HIDE DEF F
  <1>3. S \in F
    BY <1>1, <1>2, SetInduction
  <1> QED
    BY <1>3 DEF F, RowTotal

==================================================================================
