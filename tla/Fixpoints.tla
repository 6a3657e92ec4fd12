------------------------------- MODULE Fixpoints -------------------------------
(***************************************************************************)
(* A function applied over and over to a set: the sets that Ir, LiveSets   *)
(* and DestroySet define by recursion over the number of steps (lines that *)
(* are reached, paths to a read, functions a call leads to) are such       *)
(* iterations, cut off after as many steps as there are elements.          *)
(* Induction is by the smallest counterexample, for a set of numbers.      *)
(***************************************************************************)
EXTENDS Integers, FiniteSetTheorems, WellFoundedInduction, TLAPS

IsIteration(g, base, F, n) ==
    g = [k \in 0..n |-> IF k = 0 THEN base ELSE F[g[k - 1]]]

\* F takes larger subsets of U to larger ones
Monotone(F, U) ==
    /\ F \in [SUBSET U -> SUBSET U]
    /\ \A X, Y \in SUBSET U : X \subseteq Y => F[X] \subseteq F[Y]

\* n steps are as many as a chain from base can grow in U
Enough(n, base, U) == Cardinality(U) <= n + Cardinality(base)

-------------------------------------------------------------------------------
\* A set that holds zero and, with a number, the next one, holds all of them.
LEMMA InductionOverNat ==
    ASSUME NEW S, 0 \in S, \A n \in Nat : n \in S => n + 1 \in S
    PROVE  Nat \subseteq S
<1> SUFFICES ASSUME Nat \ S # {} PROVE FALSE
  OBVIOUS
<1>1. PICK m \in Nat \ S : \A y \in Nat \ S : ~ (<<y, m>> \in OpToRel(<, Nat))
  BY NatLessThanWellFounded, WFMin
<1>2. \A y \in Nat \ S : ~ (y < m)
  BY <1>1 DEF OpToRel
<1>3. m # 0 /\ m - 1 \in Nat /\ m - 1 < m /\ (m - 1) + 1 = m
  OBVIOUS
<1> QED
  BY <1>2, <1>3

\* The same up to a bound.
LEMMA InductionUpTo ==
    ASSUME NEW n \in Nat, NEW S, 0 \in S,
           \A k \in 0..(n - 1) : k \in S => k + 1 \in S
    PROVE  0..n \subseteq S
<1> DEFINE T == {k \in Nat : k \in S \/ k > n}
<1>1. 0 \in T
  OBVIOUS
<1>2. \A k \in Nat : k \in T => k + 1 \in T
  OBVIOUS
<1> HIDE DEF T
<1>3. Nat \subseteq T
  BY <1>1, <1>2, InductionOverNat
<1> QED
  BY <1>3 DEF T

\* A set of numbers that is not empty has a least one,
LEMMA LeastExists ==
    ASSUME NEW S \in SUBSET Nat, S # {}
    PROVE  \E m \in S : \A y \in S : m <= y
<1>1. PICK m \in S : \A y \in S : ~ (<<y, m>> \in OpToRel(<, Nat))
  BY NatLessThanWellFounded, WFMin
<1>2. \A y \in S : ~ (y < m)
  BY <1>1 DEF OpToRel
<1> QED
  BY <1>2

\* and a greatest one if there is a bound.
LEMMA GreatestExists ==
    ASSUME NEW n \in Nat, NEW S \in SUBSET (0..n), S # {}
    PROVE  \E m \in S : \A y \in S : y <= m
<1> DEFINE R == {n - x : x \in S}
<1>1. R \in SUBSET Nat /\ R # {}
  <2>1. \A x \in S : n - x \in Nat
    OBVIOUS
  <2> QED
    BY <2>1
<1> HIDE DEF R
<1>2. PICK k \in R : \A y \in R : k <= y
  BY <1>1, LeastExists
<1> USE DEF R
<1>3. PICK m \in S : k = n - m
  OBVIOUS
<1>4. \A y \in S : n - m <= n - y
  BY <1>2, <1>3
<1> QED
  BY <1>4

-------------------------------------------------------------------------------
\* The recursion defines something: an iteration of any length exists.
LEMMA IterationExists ==
    ASSUME NEW T, NEW base \in T, NEW F \in [T -> T], NEW n \in Nat
    PROVE  \E g \in [0..n -> T] : IsIteration(g, base, F, n)
<1> DEFINE Upto(m) == {g \in [0..m -> T] : IsIteration(g, base, F, m)}
           S == {m \in Nat : Upto(m) # {}}
<1>1. 0 \in S
  <2> DEFINE g == [k \in 0..0 |-> base]
  <2>1. g \in [0..0 -> T] /\ IsIteration(g, base, F, 0)
    BY DEF IsIteration
  <2> QED
    BY <2>1
<1>2. ASSUME NEW m \in Nat, m \in S PROVE m + 1 \in S
  <2>1. PICK g \in [0..m -> T] : IsIteration(g, base, F, m)
    BY <1>2
  <2> DEFINE h == [k \in 0..(m + 1) |-> IF k <= m THEN g[k] ELSE F[g[m]]]
  <2>2. g[m] \in T /\ m \in 0..m
    OBVIOUS
  <2>3. h \in [0..(m + 1) -> T]
    BY <2>2
  <2>4. \A k \in 0..m : g[k] = IF k = 0 THEN base ELSE F[g[k - 1]]
    BY <2>1 DEF IsIteration
  <2>5. \A k \in 0..(m + 1) : h[k] = IF k = 0 THEN base ELSE F[h[k - 1]]
    BY <2>4
  <2> HIDE DEF h
  <2>6. IsIteration(h, base, F, m + 1)
    BY <2>3, <2>5 DEF IsIteration
  <2> QED
    BY <2>3, <2>6
<1> HIDE DEF S
<1>3. n \in S
  BY <1>1, <1>2, InductionOverNat
<1> QED
  BY <1>3 DEF S

\* A set that holds the start and that F does not lead out of holds every step.
LEMMA IterationInside ==
    ASSUME NEW T, NEW base \in T, NEW F \in [T -> T], NEW n \in Nat,
           NEW g, IsIteration(g, base, F, n),
           NEW P \in SUBSET T, base \in P, \A X \in P : F[X] \in P
    PROVE  \A k \in 0..n : g[k] \in P
<1> DEFINE S == {k \in 0..n : g[k] \in P}
<1>1. \A k \in 0..n : g[k] = IF k = 0 THEN base ELSE F[g[k - 1]]
  BY DEF IsIteration
<1>2. 0 \in S
  BY <1>1
<1>3. \A k \in 0..(n - 1) : k \in S => k + 1 \in S
  <2> SUFFICES ASSUME NEW k \in 0..(n - 1), g[k] \in P PROVE g[k + 1] \in P
    OBVIOUS
  <2>1. k + 1 \in 0..n /\ k + 1 # 0 /\ (k + 1) - 1 = k
    OBVIOUS
  <2>2. g[k + 1] = F[g[k]]
    BY <1>1, <2>1
  <2> QED
    BY <2>2
<1> HIDE DEF S
<1>4. 0..n \subseteq S
  BY <1>2, <1>3, InductionUpTo
<1> QED
  BY <1>4 DEF S

\* Iterating an operator that only ever adds, from a set it does not shrink,
\* as often as there are elements, ends in a set it leaves alone.
LEMMA IterationEnds ==
    ASSUME NEW U, IsFiniteSet(U), NEW base \in SUBSET U,
           NEW F, Monotone(F, U), base \subseteq F[base],
           NEW n \in Nat, Enough(n, base, U),
           NEW g, IsIteration(g, base, F, n)
    PROVE  F[g[n]] = g[n]
<1> DEFINE P == {X \in SUBSET U : X \subseteq F[X]}
<1>0. /\ F \in [SUBSET U -> SUBSET U]
      /\ \A X, Y \in SUBSET U : X \subseteq Y => F[X] \subseteq F[Y]
  BY DEF Monotone
<1>1. \A k \in 0..n : g[k] = IF k = 0 THEN base ELSE F[g[k - 1]]
  BY DEF IsIteration
<1>2. base \in P /\ P \in SUBSET SUBSET U
  OBVIOUS
<1>3. \A X \in P : F[X] \in P
  BY <1>0
<1>4. \A k \in 0..n : g[k] \in P
  <2> DEFINE T == SUBSET U
  <2>1. base \in T /\ F \in [T -> T] /\ P \in SUBSET T
    BY <1>0
  <2> HIDE DEF P, T
  <2> QED
    BY <1>2, <1>3, <2>1, IterationInside
<1>5. \A k \in 0..n : g[k] \in SUBSET U /\ g[k] \subseteq F[g[k]]
  BY <1>4
<1>6. \A X \in SUBSET U : IsFiniteSet(X) /\ Cardinality(X) \in Nat
                          /\ Cardinality(X) <= Cardinality(U)
  BY FS_Subset, FS_CardinalityType
<1>7. Cardinality(U) \in Nat /\ Cardinality(base) \in Nat
  BY <1>6
\* either the iteration has come to rest, or it has grown with every step
<1> DEFINE S == {k \in 0..n : F[g[k]] = g[k] \/ Cardinality(g[k]) >= k + Cardinality(base)}
<1>8. 0 \in S
  BY <1>1, <1>7
<1>9. ASSUME NEW k \in 0..(n - 1), k \in S PROVE k + 1 \in S
  <2>1. k \in 0..n /\ k + 1 \in 0..n /\ g[k + 1] = F[g[k]]
    <3>1. k + 1 \in 0..n /\ k + 1 # 0 /\ (k + 1) - 1 = k
      OBVIOUS
    <3> QED
      BY <1>1, <3>1
  <2>2. CASE F[g[k]] = g[k]
    BY <2>1, <2>2
  <2>3. CASE F[g[k]] # g[k]
    <3>1. Cardinality(g[k]) >= k + Cardinality(base)
      BY <1>9, <2>3
    <3>2. g[k] \subseteq g[k + 1] /\ g[k + 1] \in SUBSET U /\ g[k] # g[k + 1]
      BY <1>5, <2>1, <2>3
    <3>3. Cardinality(g[k]) <= Cardinality(g[k + 1]) /\ Cardinality(g[k]) # Cardinality(g[k + 1])
      BY <1>6, <3>2, FS_Subset
    <3>4. Cardinality(g[k]) \in Nat /\ Cardinality(g[k + 1]) \in Nat
      BY <1>5, <1>6, <2>1
    <3>5. Cardinality(g[k + 1]) >= (k + 1) + Cardinality(base)
      <4> HIDE DEF P, S
      <4> QED
        BY <1>7, <3>1, <3>3, <3>4
    <3> QED
      BY <2>1, <3>5
  <2> QED
    BY <2>2, <2>3
<1>10. n \in S
  <2> HIDE DEF S, P
  <2>1. 0..n \subseteq S
    BY <1>8, <1>9, InductionUpTo
  <2> QED
    BY <2>1
<1>11. CASE F[g[n]] = g[n]
  BY <1>11
<1>12. CASE Cardinality(g[n]) >= n + Cardinality(base)
  <2>1. g[n] \in SUBSET U /\ g[n] \subseteq F[g[n]] /\ F[g[n]] \in SUBSET U
    BY <1>0, <1>5
  <2>2. Cardinality(g[n]) = Cardinality(U)
    <3>1. Cardinality(g[n]) \in Nat /\ Cardinality(g[n]) <= Cardinality(U)
      BY <1>6, <2>1
    <3> HIDE DEF P, S
    <3> QED
      BY <1>7, <1>12, <3>1 DEF Enough
  <2>3. g[n] = U
    BY <2>1, <2>2, FS_Subset
  <2> QED
    BY <2>1, <2>3
<1> QED
  BY <1>10, <1>11, <1>12

-------------------------------------------------------------------------------
\* The same where each step has its number to look at: loops over a sequence.
IsLoop(g, base, F, n) ==
    g = [k \in 0..n |-> IF k = 0 THEN base ELSE F[k][g[k - 1]]]

\* The recursion defines something.
LEMMA LoopExists ==
    ASSUME NEW T, NEW base \in T, NEW n \in Nat, NEW F \in [1..n -> [T -> T]]
    PROVE  \E g \in [0..n -> T] : IsLoop(g, base, F, n)
<1> DEFINE Upto(m) == {g \in [0..m -> T] : IsLoop(g, base, F, m)}
           S == {m \in 0..n : Upto(m) # {}}
<1>1. 0 \in S
  <2> DEFINE g == [k \in 0..0 |-> base]
  <2>1. g \in [0..0 -> T] /\ IsLoop(g, base, F, 0)
    BY DEF IsLoop
  <2> QED
    BY <2>1
<1>2. ASSUME NEW m \in 0..(n - 1), m \in S PROVE m + 1 \in S
  <2>1. PICK g \in [0..m -> T] : IsLoop(g, base, F, m)
    BY <1>2
  <2> DEFINE h == [k \in 0..(m + 1) |-> IF k <= m THEN g[k] ELSE F[m + 1][g[m]]]
  <2>2. g[m] \in T /\ m \in 0..m /\ m + 1 \in 1..n /\ m \in Nat
    OBVIOUS
  <2>3. h \in [0..(m + 1) -> T]
    BY <2>2
  <2>4. \A k \in 0..m : g[k] = IF k = 0 THEN base ELSE F[k][g[k - 1]]
    BY <2>1 DEF IsLoop
  <2>5. \A k \in 0..(m + 1) : h[k] = IF k = 0 THEN base ELSE F[k][h[k - 1]]
    BY <2>2, <2>4
  <2> HIDE DEF h
  <2>6. IsLoop(h, base, F, m + 1)
    BY <2>3, <2>5 DEF IsLoop
  <2> QED
    BY <2>3, <2>6
<1> HIDE DEF S
<1>3. 0..n \subseteq S
  BY <1>1, <1>2, InductionUpTo
<1> QED
  BY <1>3 DEF S
===============================================================================
