---------------------------- MODULE Constness_proof ---------------------------
(***************************************************************************)
(* For every set of lines and every length of program: names stand for     *)
(* their innermost definitions and jumps for their innermost loops; what   *)
(* tree completion leaves effectively constant is written by nothing but   *)
(* its declaration, and has the value get_const finds, if the arrays that  *)
(* are passed to the library are parameters.                               *)
(***************************************************************************)
EXTENDS Constness, Fixpoints, SequenceTheorems, TLAPS

\* a sequence, of whatever its elements are
IsSeq(s) == s \in Seq({s[k] : k \in DOMAIN s})
-------------------------------------------------------------------------------
(* Blocks.  Depth and Encloses look at the text up to a line only.         *)

\* Depth and Encloses, of a text s
D(s, k) == Cardinality({j \in 1..k : s[j].st \in Opening})
           - Cardinality({j \in 1..k : s[j].st = "close"})

Enc(s, j, k) == j < k /\ \A m \in j..(k - 1) : D(s, m) >= D(s, j)

\* Depth and Encloses are those of the text.
LEMMA DepthOf ==
    /\ \A k : Depth(k) = D(text, k)
    /\ \A j, k : Encloses(j, k) <=> Enc(text, j, k)
BY DEF Depth, D, Encloses, Enc

\* One more line is one more block, one less, or neither.
LEMMA DepthSteps ==
    ASSUME NEW s
    PROVE  /\ D(s, 0) = 0
           /\ \A k \in Nat : D(s, k) \in Int
           /\ \A k \in Nat : D(s, k + 1) = D(s, k)
                + (IF s[k + 1].st \in Opening THEN 1
                   ELSE IF s[k + 1].st = "close" THEN -1 ELSE 0)
<1> DEFINE O(k) == {j \in 1..k : s[j].st \in Opening}
           C(k) == {j \in 1..k : s[j].st = "close"}
<1>1. \A k \in Nat : /\ IsFiniteSet(O(k)) /\ IsFiniteSet(C(k))
                     /\ Cardinality(O(k)) \in Nat /\ Cardinality(C(k)) \in Nat
  <2> SUFFICES ASSUME NEW k \in Nat
               PROVE  /\ IsFiniteSet(O(k)) /\ IsFiniteSet(C(k))
                      /\ Cardinality(O(k)) \in Nat /\ Cardinality(C(k)) \in Nat
    OBVIOUS
  <2>1. IsFiniteSet(1..k)
    BY FS_Interval
  <2>2. O(k) \in SUBSET (1..k) /\ C(k) \in SUBSET (1..k)
    OBVIOUS
  <2> HIDE DEF O, C
  <2>3. IsFiniteSet(O(k)) /\ IsFiniteSet(C(k))
    BY <2>1, <2>2, FS_Subset
  <2> QED
    BY <2>3, FS_CardinalityType
<1>2. \A k \in Nat : D(s, k) = Cardinality(O(k)) - Cardinality(C(k))
  BY DEF D
<1>3. O(0) = {} /\ C(0) = {}
  OBVIOUS
<1>4. ASSUME NEW k \in Nat
      PROVE  /\ O(k + 1) = IF s[k + 1].st \in Opening THEN O(k) \cup {k + 1} ELSE O(k)
             /\ C(k + 1) = IF s[k + 1].st = "close" THEN C(k) \cup {k + 1} ELSE C(k)
             /\ k + 1 \notin O(k) /\ k + 1 \notin C(k)
  <2>1. 1..(k + 1) = (1..k) \cup {k + 1} /\ k + 1 \notin 1..k
    OBVIOUS
  <2> QED
    BY <2>1
<1>5. "close" \notin Opening
  BY DEF Opening
<1> HIDE DEF O, C
<1>6. D(s, 0) = 0
  BY <1>2, <1>3, FS_EmptySet
<1>7. ASSUME NEW k \in Nat
      PROVE  D(s, k + 1) = D(s, k) + (IF s[k + 1].st \in Opening THEN 1
                                      ELSE IF s[k + 1].st = "close" THEN -1 ELSE 0)
  <2> DEFINE o == Cardinality(O(k))
             c == Cardinality(C(k))
  <2>1. o \in Nat /\ c \in Nat /\ D(s, k) = o - c /\ k + 1 \in Nat
        /\ D(s, k + 1) = Cardinality(O(k + 1)) - Cardinality(C(k + 1))
    BY <1>1, <1>2
  <2>2. Cardinality(O(k + 1)) = IF s[k + 1].st \in Opening THEN o + 1 ELSE o
    <3>1. IsFiniteSet(O(k)) /\ k + 1 \notin O(k)
      BY <1>1, <1>4
    <3>2. Cardinality(O(k) \cup {k + 1}) = o + 1
      BY <3>1, FS_AddElement
    <3>3. O(k + 1) = IF s[k + 1].st \in Opening THEN O(k) \cup {k + 1} ELSE O(k)
      BY <1>4
    <3> QED
      BY <3>2, <3>3
  <2>3. Cardinality(C(k + 1)) = IF s[k + 1].st = "close" THEN c + 1 ELSE c
    <3>1. IsFiniteSet(C(k)) /\ k + 1 \notin C(k)
      BY <1>1, <1>4
    <3>2. Cardinality(C(k) \cup {k + 1}) = c + 1
      BY <3>1, FS_AddElement
    <3>3. C(k + 1) = IF s[k + 1].st = "close" THEN C(k) \cup {k + 1} ELSE C(k)
      BY <1>4
    <3> QED
      BY <3>2, <3>3
  <2> HIDE DEF o, c
  <2>4. CASE s[k + 1].st \in Opening
    BY <1>5, <2>1, <2>2, <2>3, <2>4
  <2>5. CASE s[k + 1].st \notin Opening
    BY <2>1, <2>2, <2>3, <2>5
  <2> QED
    BY <2>4, <2>5
<1> QED
  BY <1>1, <1>2, <1>6, <1>7

\* Lines that follow do not change how deep a line is.
LEMMA DepthSame ==
    ASSUME NEW s, NEW r, NEW n \in Nat, \A k \in 1..n : r[k] = s[k]
    PROVE  /\ \A k \in 0..n : D(r, k) = D(s, k)
           /\ \A j \in 1..n, k \in 1..(n + 1) : Enc(r, j, k) <=> Enc(s, j, k)
<1>1. ASSUME NEW k \in 0..n PROVE D(r, k) = D(s, k)
  <2>1. \A j \in 1..k : r[j] = s[j]
    OBVIOUS
  <2>2. {j \in 1..k : r[j].st \in Opening} = {j \in 1..k : s[j].st \in Opening}
    BY <2>1
  <2>3. {j \in 1..k : r[j].st = "close"} = {j \in 1..k : s[j].st = "close"}
    BY <2>1
  <2> QED
    BY <2>2, <2>3 DEF D
<1>2. ASSUME NEW j \in 1..n, NEW k \in 1..(n + 1) PROVE Enc(r, j, k) <=> Enc(s, j, k)
  <2>1. j \in 0..n /\ \A m \in j..(k - 1) : m \in 0..n
    OBVIOUS
  <2>2. D(r, j) = D(s, j) /\ \A m \in j..(k - 1) : D(r, m) = D(s, m)
    BY <1>1, <2>1
  <2> QED
    BY <2>2 DEF Enc
<1> QED
  BY <1>1, <1>2

\* A line encloses the next but one if it encloses the next, and that does
\* not close it.
LEMMA EncMore ==
    ASSUME NEW s, NEW n \in Nat
    PROVE  /\ \A j \in 1..n : Enc(s, j, n + 2) <=> Enc(s, j, n + 1) /\ D(s, n + 1) >= D(s, j)
           /\ \A j \in 1..n : Enc(s, j, n + 1) => D(s, n) >= D(s, j)
           /\ \A j \in 1..n : \A m \in j..n : Enc(s, j, n + 1) => D(s, m) >= D(s, j)
           /\ Enc(s, n + 1, n + 2)
<1>1. ASSUME NEW j \in 1..n
      PROVE Enc(s, j, n + 2) <=> Enc(s, j, n + 1) /\ D(s, n + 1) >= D(s, j)
  <2>1. j..((n + 2) - 1) = (j..((n + 1) - 1)) \cup {n + 1} /\ j < n + 1 /\ j < n + 2
    OBVIOUS
  <2> QED
    BY <2>1 DEF Enc
<1>2. ASSUME NEW j \in 1..n, NEW m \in j..n, Enc(s, j, n + 1) PROVE D(s, m) >= D(s, j)
  <2>1. m \in j..((n + 1) - 1)
    OBVIOUS
  <2> QED
    BY <1>2, <2>1 DEF Enc
<1>3. \A j \in 1..n : n \in j..n
  OBVIOUS
<1>4. Enc(s, n + 1, n + 2)
  <2>1. \A m \in (n + 1)..((n + 2) - 1) : m = n + 1
    OBVIOUS
  <2>2. D(s, n + 1) \in Int /\ n + 1 < n + 2
    <3>1. n + 1 \in Nat /\ n + 1 < n + 2
      OBVIOUS
    <3> QED
      BY <3>1, DepthSteps
  <2>3. \A m \in (n + 1)..((n + 2) - 1) : D(s, m) >= D(s, n + 1)
    BY <2>1, <2>2
  <2> QED
    BY <2>2, <2>3 DEF Enc
<1> QED
  BY <1>1, <1>2, <1>3, <1>4

\* After n lines the tables are those of the blocks the next line is in, from
\* the outermost, the text itself, to the innermost.
Blocks(s, n, t) ==
    /\ Len(t) \in Nat \ {0}
    /\ t[1].at = 0
    /\ \A i \in 1..Len(t) : t[i].at \in 0..n
    /\ \A i, h \in 1..Len(t) : i <= h => t[i].at <= t[h].at
    /\ \A i \in 2..Len(t) : /\ t[i].at # 0
                            /\ s[t[i].at].st \in Opening /\ Enc(s, t[i].at, n + 1)
    /\ \A i \in 1..(Len(t) - 1) : \/ t[i + 1].at = t[i].at
                                  \/ D(s, t[i + 1].at) = D(s, t[i].at) + 1
    /\ D(s, n) = D(s, t[Len(t)].at)
    /\ \A j \in 1..n : s[j].st \in Opening /\ Enc(s, j, n + 1) =>
          \E i \in 1..Len(t) : t[i].at = j
    /\ \A k \in 0..n : D(s, k) \in Nat

\* Blocks further inside are deeper.
LEMMA Levels ==
    ASSUME NEW s, NEW n \in Nat, NEW t, Blocks(s, n, t)
    PROVE  /\ \A i, h \in 1..Len(t) : t[i].at < t[h].at => D(s, t[i].at) < D(s, t[h].at)
           /\ \A i \in 1..Len(t) : \A k \in (t[i].at)..n : D(s, k) >= D(s, t[i].at)
<1>1. ASSUME NEW i \in 1..Len(t), NEW k \in (t[i].at)..n
      PROVE  D(s, k) >= D(s, t[i].at)
  <2> DEFINE a == t[i].at
  <2>1. a \in 0..n /\ k \in 0..n
    BY DEF Blocks
  <2>2. CASE i = 1
    <3>1. a = 0 /\ D(s, 0) = 0 /\ D(s, k) \in Nat
      BY <2>1, <2>2, DepthSteps DEF Blocks
    <3> HIDE DEF a
    <3> QED
      BY <3>1 DEF a
  <2>3. CASE i # 1
    <3>1. i \in 2..Len(t)
      BY <2>3
    <3>2. a \in 1..n /\ Enc(s, a, n + 1)
      BY <2>1, <3>1 DEF Blocks
    <3> HIDE DEF a
    <3>3. k \in a..n
      BY DEF a
    <3> QED
      BY <3>2, <3>3, EncMore DEF a
  <2> QED
    BY <2>2, <2>3
<1>2. ASSUME NEW i \in 1..Len(t), NEW h \in 1..Len(t), t[i].at < t[h].at
      PROVE  D(s, t[i].at) < D(s, t[h].at)
  <2> DEFINE a == t[i].at
             b == t[h].at
  <2>1. a \in 0..n /\ b \in 0..n /\ a < b
    BY <1>2 DEF Blocks
  <2>2. h \in 2..Len(t)
    <3>1. h = 1 => b = 0
      BY DEF Blocks
    <3> QED
      BY <2>1, <3>1
  <2>3. s[b].st \in Opening
    BY <2>2 DEF Blocks
  <2> HIDE DEF a, b
  <2>4. b - 1 \in Nat /\ (b - 1) + 1 = b /\ b - 1 \in a..n /\ b - 1 \in 0..n
    BY <2>1
  <2>5. D(s, b) = D(s, b - 1) + 1
    BY <2>3, <2>4, DepthSteps
  <2>6. D(s, b - 1) >= D(s, a)
    BY <1>1, <2>4 DEF a
  <2>7. D(s, b - 1) \in Nat /\ D(s, a) \in Nat
    BY <2>1, <2>4 DEF Blocks
  <2> QED
    BY <2>5, <2>6, <2>7 DEF a, b
<1> QED
  BY <1>1, <1>2

\* A line that opens a block pushes one or two tables.
LEMMA BlocksPush ==
    ASSUME NEW s, NEW n \in Nat, NEW t, Blocks(s, n, t), s[n + 1].st \in Opening,
           NEW e \in {1, 2}, NEW u, Len(u) = Len(t) + e,
           \A i \in 1..Len(t) : u[i].at = t[i].at,
           \A i \in (Len(t) + 1)..(Len(t) + e) : u[i].at = n + 1
    PROVE  Blocks(s, n + 1, u)
<1> DEFINE m == Len(t)
<1>0. /\ m \in Nat /\ m >= 1 /\ Len(u) = m + e /\ Len(u) \in Nat \ {0}
      /\ \A i \in 1..m : u[i].at = t[i].at /\ t[i].at \in 0..n
      /\ \A i \in (m + 1)..(m + e) : u[i].at = n + 1
  BY DEF Blocks
<1>1. D(s, n + 1) = D(s, n) + 1 /\ D(s, n) \in Nat /\ D(s, n + 1) \in Nat
  <2>1. D(s, n) \in Nat
    BY DEF Blocks
  <2>2. D(s, n + 1) = D(s, n) + 1
    BY DepthSteps
  <2> QED
    BY <2>1, <2>2
<1>2. \A i \in 1..(m + e) : i \in 1..m \/ i \in (m + 1)..(m + e)
  BY <1>0
<1>3. \A i \in 1..Len(u) : u[i].at \in 0..(n + 1)
  BY <1>0, <1>2
<1>4. u[1].at = 0
  BY <1>0 DEF Blocks
<1>5. \A i, h \in 1..Len(u) : i <= h => u[i].at <= u[h].at
  <2> SUFFICES ASSUME NEW i \in 1..(m + e), NEW h \in 1..(m + e), i <= h
               PROVE  u[i].at <= u[h].at
    BY <1>0
  <2>1. CASE h \in 1..m
    <3>1. i \in 1..m
      BY <1>0, <2>1
    <3>2. t[i].at <= t[h].at
      BY <2>1, <3>1 DEF Blocks
    <3> QED
      BY <1>0, <2>1, <3>1, <3>2
  <2>2. CASE h \notin 1..m
    <3>1. u[h].at = n + 1 /\ u[i].at \in 0..(n + 1)
      BY <1>0, <1>2, <1>3, <2>2
    <3> QED
      BY <3>1
  <2> QED
    BY <2>1, <2>2
<1>6. ASSUME NEW j \in 1..n, Enc(s, j, n + 1)
      PROVE  Enc(s, j, n + 2)
  <2>1. D(s, n) >= D(s, j)
    BY <1>6, EncMore
  <2>2. j \in Nat
    OBVIOUS
  <2>3. D(s, j) \in Int
    BY <2>2, DepthSteps
  <2>4. D(s, n + 1) >= D(s, j)
    BY <1>1, <2>1, <2>3
  <2> QED
    BY <1>6, <2>4, EncMore
<1>7. \A i \in 2..Len(u) : /\ u[i].at # 0
                           /\ s[u[i].at].st \in Opening /\ Enc(s, u[i].at, (n + 1) + 1)
  <2> SUFFICES ASSUME NEW i \in 2..(m + e)
               PROVE  u[i].at # 0 /\ s[u[i].at].st \in Opening /\ Enc(s, u[i].at, (n + 1) + 1)
    BY <1>0
  <2>0. (n + 1) + 1 = n + 2
    OBVIOUS
  <2>1. CASE i \in 1..m
    <3>1. i \in 2..m
      BY <2>1
    <3>2. t[i].at \in 1..n /\ s[t[i].at].st \in Opening /\ Enc(s, t[i].at, n + 1)
      BY <1>0, <3>1 DEF Blocks
    <3> QED
      BY <1>0, <1>6, <2>0, <2>1, <3>2
  <2>2. CASE i \notin 1..m
    <3>1. u[i].at = n + 1
      BY <1>0, <1>2, <2>2
    <3>2. Enc(s, n + 1, n + 2)
      BY EncMore
    <3> QED
      BY <2>0, <3>1, <3>2
  <2> QED
    BY <2>1, <2>2
<1>8. \A i \in 1..(Len(u) - 1) : \/ u[i + 1].at = u[i].at
                                 \/ D(s, u[i + 1].at) = D(s, u[i].at) + 1
  <2> SUFFICES ASSUME NEW i \in 1..((m + e) - 1)
               PROVE  u[i + 1].at = u[i].at \/ D(s, u[i + 1].at) = D(s, u[i].at) + 1
    BY <1>0
  <2>1. CASE i \in 1..(m - 1)
    <3>1. i \in 1..m /\ i + 1 \in 1..m
      BY <1>0, <2>1
    <3>2. t[i + 1].at = t[i].at \/ D(s, t[i + 1].at) = D(s, t[i].at) + 1
      BY <2>1 DEF Blocks
    <3> QED
      BY <1>0, <3>1, <3>2
  <2>2. CASE i = m
    <3>1. u[m].at = t[m].at /\ u[m + 1].at = n + 1
      <4>1. m \in 1..m /\ m + 1 \in (m + 1)..(m + e)
        BY <1>0
      <4> QED
        BY <1>0, <4>1
    <3>2. D(s, t[m].at) = D(s, n)
      BY DEF Blocks
    <3> QED
      BY <1>1, <2>2, <3>1, <3>2
  <2>3. CASE i > m
    <3>1. i \in (m + 1)..(m + e) /\ i + 1 \in (m + 1)..(m + e)
      BY <1>0, <2>3
    <3> QED
      BY <1>0, <3>1
  <2> QED
    BY <1>0, <2>1, <2>2, <2>3
<1>9. D(s, n + 1) = D(s, u[Len(u)].at)
  <2>1. m + e \in (m + 1)..(m + e)
    BY <1>0
  <2> QED
    BY <1>0, <2>1
<1>10. \A j \in 1..(n + 1) : s[j].st \in Opening /\ Enc(s, j, (n + 1) + 1) =>
          \E i \in 1..Len(u) : u[i].at = j
  <2> SUFFICES ASSUME NEW j \in 1..(n + 1), s[j].st \in Opening, Enc(s, j, (n + 1) + 1)
               PROVE  \E i \in 1..(m + e) : u[i].at = j
    BY <1>0
  <2>0. (n + 1) + 1 = n + 2
    OBVIOUS
  <2>1. CASE j = n + 1
    <3>1. m + e \in (m + 1)..(m + e) /\ m + e \in 1..(m + e)
      BY <1>0
    <3> QED
      BY <1>0, <2>1, <3>1
  <2>2. CASE j # n + 1
    <3>1. j \in 1..n
      BY <2>2
    <3>2. Enc(s, j, n + 1)
      BY <2>0, <3>1, EncMore
    <3>3. PICK i \in 1..m : t[i].at = j
      BY <3>1, <3>2 DEF Blocks
    <3>4. i \in 1..(m + e) /\ u[i].at = j
      BY <1>0, <3>3
    <3> QED
      BY <3>4
  <2> QED
    BY <2>1, <2>2
<1>11. \A k \in 0..(n + 1) : D(s, k) \in Nat
  <2>1. \A k \in 0..(n + 1) : k \in 0..n \/ k = n + 1
    OBVIOUS
  <2> QED
    BY <1>1, <2>1 DEF Blocks
<1> QED
  BY <1>0, <1>3, <1>4, <1>5, <1>7, <1>8, <1>9, <1>10, <1>11 DEF Blocks

\* A line that neither opens nor closes a block leaves them as they are.
LEMMA BlocksStay ==
    ASSUME NEW s, NEW n \in Nat, NEW t, Blocks(s, n, t),
           s[n + 1].st \notin Opening, s[n + 1].st # "close",
           NEW u, Len(u) = Len(t), \A i \in 1..Len(t) : u[i].at = t[i].at
    PROVE  Blocks(s, n + 1, u)
<1> DEFINE m == Len(t)
<1>0. m \in Nat /\ m >= 1 /\ Len(u) = m /\ \A i \in 1..m : u[i].at = t[i].at /\ t[i].at \in 0..n
  BY DEF Blocks
<1>1. D(s, n + 1) = D(s, n) /\ D(s, n) \in Nat
  <2>1. D(s, n) \in Nat
    BY DEF Blocks
  <2>2. D(s, n + 1) = D(s, n) + 0
    BY DepthSteps
  <2> QED
    BY <2>1, <2>2
<1>2. (n + 1) + 1 = n + 2
  OBVIOUS
<1>3. ASSUME NEW j \in 1..n
      PROVE  Enc(s, j, n + 2) <=> Enc(s, j, n + 1)
  <2>1. Enc(s, j, n + 1) => D(s, n) >= D(s, j)
    BY EncMore
  <2> QED
    BY <1>1, <2>1, EncMore
<1>4. \A i \in 1..Len(u) : u[i].at \in 0..(n + 1)
  BY <1>0
<1>5. \A i, h \in 1..Len(u) : i <= h => u[i].at <= u[h].at
  BY <1>0 DEF Blocks
<1>6. \A i \in 2..Len(u) : /\ u[i].at # 0
                           /\ s[u[i].at].st \in Opening /\ Enc(s, u[i].at, (n + 1) + 1)
  <2> SUFFICES ASSUME NEW i \in 2..m
               PROVE  u[i].at # 0 /\ s[u[i].at].st \in Opening /\ Enc(s, u[i].at, (n + 1) + 1)
    BY <1>0
  <2>1. t[i].at \in 1..n /\ s[t[i].at].st \in Opening /\ Enc(s, t[i].at, n + 1) /\ i \in 1..m
    BY <1>0 DEF Blocks
  <2> QED
    BY <1>0, <1>2, <1>3, <2>1
<1>7. \A i \in 1..(Len(u) - 1) : \/ u[i + 1].at = u[i].at
                                 \/ D(s, u[i + 1].at) = D(s, u[i].at) + 1
  <2> SUFFICES ASSUME NEW i \in 1..(m - 1)
               PROVE  u[i + 1].at = u[i].at \/ D(s, u[i + 1].at) = D(s, u[i].at) + 1
    BY <1>0
  <2>1. i \in 1..m /\ i + 1 \in 1..m
    BY <1>0
  <2>2. t[i + 1].at = t[i].at \/ D(s, t[i + 1].at) = D(s, t[i].at) + 1
    BY DEF Blocks
  <2> QED
    BY <1>0, <2>1, <2>2
<1>8. D(s, n + 1) = D(s, u[Len(u)].at) /\ u[1].at = 0
  <2>1. m \in 1..m /\ 1 \in 1..m
    BY <1>0
  <2> QED
    BY <1>0, <1>1, <2>1 DEF Blocks
<1>9. \A j \in 1..(n + 1) : s[j].st \in Opening /\ Enc(s, j, (n + 1) + 1) =>
          \E i \in 1..Len(u) : u[i].at = j
  <2> SUFFICES ASSUME NEW j \in 1..(n + 1), s[j].st \in Opening, Enc(s, j, (n + 1) + 1)
               PROVE  \E i \in 1..m : u[i].at = j
    BY <1>0
  <2>1. j \in 1..n
    <3>1. j # n + 1
      OBVIOUS
    <3> QED
      BY <3>1
  <2>2. PICK i \in 1..m : t[i].at = j
    BY <1>2, <1>3, <2>1 DEF Blocks
  <2> QED
    BY <1>0, <2>2
<1>10. \A k \in 0..(n + 1) : D(s, k) \in Nat
  <2>1. \A k \in 0..(n + 1) : k \in 0..n \/ k = n + 1
    OBVIOUS
  <2> QED
    BY <1>1, <2>1 DEF Blocks
<1> QED
  BY <1>0, <1>4, <1>5, <1>6, <1>7, <1>8, <1>9, <1>10 DEF Blocks

\* What closing a block leaves: all tables but those of the innermost block.
Popped(t, u) ==
    /\ Len(u) \in 1..(Len(t) - 1)
    /\ \A i \in 1..Len(u) : u[i] = t[i]
    /\ \A i \in (Len(u) + 1)..Len(t) : t[i].at = t[Len(t)].at
    /\ t[Len(u)].at # t[Len(t)].at

\* The tables that are left are those of the blocks further out, and the block
\* that is closed was one level deeper.
LEMMA PopDepth ==
    ASSUME NEW s, NEW n \in Nat, NEW t, Blocks(s, n, t), s[n + 1].st = "close",
           NEW u, Popped(t, u)
    PROVE  /\ D(s, n + 1) = D(s, t[Len(u)].at) /\ D(s, n + 1) + 1 = D(s, n)
           /\ D(s, n + 1) \in Nat
           /\ \A i \in 1..Len(u) : D(s, t[i].at) <= D(s, n + 1)
           /\ \A i \in (Len(u) + 1)..Len(t) : D(s, t[i].at) > D(s, n + 1)
<1> DEFINE m == Len(t)
           c == Len(u)
           a(i) == t[i].at
<1>0. /\ m \in Nat /\ c \in 1..(m - 1) /\ a(c) # a(m) /\ a(c + 1) = a(m)
      /\ \A i \in (c + 1)..m : a(i) = a(m)
      /\ \A i \in 1..m : a(i) \in 0..n
      /\ \A i, h \in 1..m : i <= h => a(i) <= a(h)
  <2>1. m \in Nat /\ c \in 1..(m - 1)
    BY DEF Popped, Blocks
  <2>2. c + 1 \in (c + 1)..m
    BY <2>1
  <2> QED
    BY <2>1, <2>2 DEF Popped, Blocks
<1>1. D(s, n) = D(s, a(m)) /\ D(s, n) \in Nat
  BY DEF Blocks
<1>2. D(s, n + 1) = D(s, n) - 1
  <2>1. "close" \notin Opening
    BY DEF Opening
  <2>2. D(s, n + 1) = D(s, n) + (-1)
    BY <2>1, DepthSteps
  <2> QED
    BY <1>1, <2>2
<1>3. \A i \in 1..m : D(s, a(i)) \in Nat
  BY <1>0 DEF Blocks
<1>4. D(s, a(c + 1)) = D(s, a(c)) + 1
  <2>1. a(c + 1) # a(c)
    BY <1>0
  <2> QED
    BY <1>0, <2>1 DEF Blocks
<1>5. D(s, n + 1) = D(s, a(c)) /\ D(s, n + 1) \in Nat
  <2>1. c \in 1..m
    BY <1>0
  <2>2. D(s, a(c)) \in Nat
    BY <1>3, <2>1
  <2> QED
    BY <1>0, <1>1, <1>2, <1>4, <2>2
<1>6. ASSUME NEW i \in 1..c PROVE D(s, a(i)) <= D(s, n + 1)
  <2>1. i \in 1..m /\ c \in 1..m
    BY <1>0
  <2>2. a(i) <= a(c)
    BY <1>0, <2>1
  <2>3. a(i) < a(c) => D(s, a(i)) < D(s, a(c))
    BY <2>1, Levels
  <2>4. D(s, a(i)) \in Nat /\ a(i) \in Nat /\ a(c) \in Nat
    BY <1>0, <1>3, <2>1
  <2> HIDE DEF a
  <2>5. CASE a(i) = a(c)
    BY <1>5, <2>4, <2>5
  <2>6. CASE a(i) < a(c)
    BY <1>5, <2>3, <2>4, <2>6
  <2> QED
    BY <2>2, <2>4, <2>5, <2>6
<1>7. ASSUME NEW i \in (c + 1)..m PROVE D(s, a(i)) > D(s, n + 1)
  BY <1>0, <1>1, <1>2
<1> QED
  BY <1>1, <1>2, <1>5, <1>6, <1>7

\* A line that closes a block pops its tables.
LEMMA BlocksPop ==
    ASSUME NEW s, NEW n \in Nat, NEW t, Blocks(s, n, t), s[n + 1].st = "close",
           NEW u, Popped(t, u)
    PROVE  Blocks(s, n + 1, u)
<1> DEFINE m == Len(t)
           c == Len(u)
<1>0. /\ m \in Nat /\ c \in 1..(m - 1) /\ Len(u) \in Nat \ {0} /\ \A i \in 1..c : u[i] = t[i] /\ i \in 1..m
      /\ \A i \in 1..m : t[i].at \in 0..n
  BY DEF Blocks, Popped
<1>1. /\ D(s, n + 1) = D(s, t[c].at) /\ D(s, n + 1) + 1 = D(s, n)
      /\ D(s, n + 1) \in Nat
      /\ \A i \in 1..c : D(s, t[i].at) <= D(s, n + 1)
      /\ \A i \in (c + 1)..m : D(s, t[i].at) > D(s, n + 1)
  BY PopDepth
<1>2. (n + 1) + 1 = n + 2
  OBVIOUS
<1>3. \A i \in 1..c : u[i].at \in 0..(n + 1)
  BY <1>0
<1>4. \A i, h \in 1..c : i <= h => u[i].at <= u[h].at
  BY <1>0 DEF Blocks
<1>5. ASSUME NEW i \in 2..c
      PROVE  u[i].at # 0 /\ s[u[i].at].st \in Opening /\ Enc(s, u[i].at, (n + 1) + 1)
  <2>1. i \in 1..c /\ i \in 2..m /\ u[i] = t[i]
    BY <1>0
  <2>2. t[i].at \in 1..n /\ s[t[i].at].st \in Opening /\ Enc(s, t[i].at, n + 1)
    BY <1>0, <2>1 DEF Blocks
  <2>3. D(s, t[i].at) \in Nat /\ D(s, t[i].at) <= D(s, n + 1)
    BY <1>1, <2>1, <2>2 DEF Blocks
  <2>4. Enc(s, t[i].at, n + 2)
    BY <1>1, <2>2, <2>3, EncMore
  <2> QED
    BY <1>2, <2>1, <2>2, <2>4
<1>6. ASSUME NEW i \in 1..(c - 1)
      PROVE  u[i + 1].at = u[i].at \/ D(s, u[i + 1].at) = D(s, u[i].at) + 1
  <2>1. i \in 1..c /\ i + 1 \in 1..c /\ i \in 1..(m - 1)
    BY <1>0
  <2>2. t[i + 1].at = t[i].at \/ D(s, t[i + 1].at) = D(s, t[i].at) + 1
    BY <2>1 DEF Blocks
  <2> QED
    BY <1>0, <2>1, <2>2
<1>7. D(s, n + 1) = D(s, u[c].at) /\ u[1].at = 0
  <2>1. c \in 1..c /\ 1 \in 1..c
    BY <1>0
  <2> QED
    BY <1>0, <1>1, <2>1 DEF Blocks
<1>8. ASSUME NEW j \in 1..(n + 1), s[j].st \in Opening, Enc(s, j, (n + 1) + 1)
      PROVE  \E i \in 1..c : u[i].at = j
  <2>1. j \in 1..n
    <3>1. "close" \notin Opening
      BY DEF Opening
    <3>2. j # n + 1
      BY <1>8, <3>1
    <3> QED
      BY <3>2
  <2>2. Enc(s, j, n + 1) /\ D(s, n + 1) >= D(s, j)
    BY <1>2, <1>8, <2>1, EncMore
  <2>3. PICK i \in 1..m : t[i].at = j
    BY <1>8, <2>1, <2>2 DEF Blocks
  <2>4. D(s, j) \in Nat
    BY <2>1 DEF Blocks
  <2>5. i \in 1..c
    <3>1. i \notin (c + 1)..m
      BY <1>1, <2>2, <2>3, <2>4
    <3> QED
      BY <1>0, <3>1
  <2> QED
    BY <1>0, <2>3, <2>5
<1>9. \A k \in 0..(n + 1) : D(s, k) \in Nat
  <2>1. \A k \in 0..(n + 1) : k \in 0..n \/ k = n + 1
    OBVIOUS
  <2> QED
    BY <1>1, <2>1 DEF Blocks
<1> QED
  BY <1>0, <1>3, <1>4, <1>5, <1>6, <1>7, <1>8, <1>9 DEF Blocks

-------------------------------------------------------------------------------
(* Names.                                                                  *)

\* line j defines something in the block of table i; parameters have the second
\* table, the other definitions of a block the last one of the block
In(s, n, t, j, i) ==
    /\ Enc(s, j, n + 1)
    /\ t[i].at < j /\ D(s, j) = D(s, t[i].at)
    /\ s[j].st = "param" <=> i = 2
    /\ i = 2 \/ \A h \in (i + 1)..Len(t) : t[h].at > t[i].at

\* what a table has is a definition in its block; every definition in a block
\* around is in a table; and no two in the same block have one name
Found(s, n, t) ==
    \A i \in 1..Len(t) : \A x \in DOMAIN t[i].var :
        \E j \in 1..n : /\ s[j].st \in Defining /\ s[j].name = x
                        /\ s[j].def = t[i].var[x]
                        /\ In(s, n, t, j, i)

Entered(s, n, t) ==
    \A j \in 1..n : s[j].st \in Defining /\ Enc(s, j, n + 1) =>
        \E i \in 1..Len(t) : /\ s[j].name \in DOMAIN t[i].var
                             /\ t[i].var[s[j].name] = s[j].def
                             /\ In(s, n, t, j, i)

NotTwice(s, n) ==
    \A j, k \in 1..n : /\ j # k
                       /\ s[j].st \in Defining /\ s[k].st = s[j].st /\ s[k].name = s[j].name
                       /\ Enc(s, j, n + 1) /\ Enc(s, k, n + 1)
                       => D(s, j) # D(s, k)

Names(s, n, t) == Found(s, n, t) /\ Entered(s, n, t) /\ NotTwice(s, n)

\* Opening and closing blocks, and lines that define nothing: c tables stay.
LEMMA NamesKept ==
    ASSUME NEW s, NEW n \in Nat, NEW t, Blocks(s, n, t), Names(s, n, t),
           s[n + 1].st \notin Defining, D(s, n + 1) \in Nat,
           NEW u, Len(u) \in Nat, NEW c \in 1..Len(t), c <= Len(u),
           \A i \in 1..c : u[i] = t[i],
           \A i \in (c + 1)..Len(u) : u[i].at = n + 1 /\ DOMAIN u[i].var = {},
           \A i \in 1..c : D(s, t[i].at) <= D(s, n + 1),
           \A i \in (c + 1)..Len(t) : D(s, t[i].at) > D(s, n + 1)
    PROVE  Names(s, n + 1, u)
<1> DEFINE m == Len(t)
<1>0. m \in Nat /\ c \in 1..m /\ c <= Len(u) /\ \A i \in 1..m : t[i].at \in 0..n /\ t[i].at \in Nat
      /\ D(s, t[i].at) \in Nat
  BY DEF Blocks
<1>1. (n + 1) + 1 = n + 2
  OBVIOUS
<1>2. ASSUME NEW j \in 1..n, NEW i \in 1..c, In(s, n, t, j, i)
      PROVE  In(s, n + 1, u, j, i)
  <2>1. /\ Enc(s, j, n + 1) /\ t[i].at < j /\ D(s, j) = D(s, t[i].at)
        /\ s[j].st = "param" <=> i = 2
        /\ i = 2 \/ \A h \in (i + 1)..m : t[h].at > t[i].at
    BY <1>2 DEF In
  <2>2. Enc(s, j, n + 2)
    <3>1. i \in 1..m /\ D(s, j) \in Nat /\ D(s, j) <= D(s, n + 1)
      BY <1>0, <2>1
    <3>2. D(s, n + 1) >= D(s, j)
      BY <3>1
    <3> QED
      BY <2>1, <3>2, EncMore
  <2>3. u[i].at = t[i].at
    OBVIOUS
  <2>4. ASSUME NEW h \in (i + 1)..Len(u), i # 2 PROVE u[h].at > u[i].at
    <3>1. CASE h \in 1..c
      <4>1. h \in (i + 1)..m /\ u[h] = t[h]
        BY <1>0, <3>1
      <4> QED
        BY <2>1, <2>3, <2>4, <4>1
    <3>2. CASE h \notin 1..c
      <4>1. h \in (c + 1)..Len(u)
        BY <1>0, <3>2
      <4>2. u[h].at = n + 1 /\ t[i].at \in 0..n
        BY <1>0, <4>1
      <4> QED
        BY <2>3, <4>2
    <3> QED
      BY <3>1, <3>2
  <2> QED
    BY <1>1, <2>1, <2>2, <2>3, <2>4 DEF In
<1>3. Found(s, n + 1, u)
  <2> SUFFICES ASSUME NEW i \in 1..Len(u), NEW x \in DOMAIN u[i].var
               PROVE  \E j \in 1..(n + 1) : /\ s[j].st \in Defining /\ s[j].name = x
                                            /\ s[j].def = u[i].var[x]
                                            /\ In(s, n + 1, u, j, i)
    BY DEF Found
  <2>1. i \in 1..c
    <3>1. i \notin (c + 1)..Len(u)
      OBVIOUS
    <3> QED
      BY <1>0, <3>1
  <2>2. u[i] = t[i] /\ i \in 1..m
    BY <1>0, <2>1
  <2>3. PICK j \in 1..n : /\ s[j].st \in Defining /\ s[j].name = x
                          /\ s[j].def = t[i].var[x]
                          /\ In(s, n, t, j, i)
    BY <2>2 DEF Names, Found
  <2>4. j \in 1..(n + 1) /\ In(s, n + 1, u, j, i)
    BY <1>2, <2>1, <2>3
  <2> QED
    BY <2>2, <2>3, <2>4
<1>4. ASSUME NEW j \in 1..(n + 1), s[j].st \in Defining, Enc(s, j, (n + 1) + 1)
      PROVE  j \in 1..n /\ Enc(s, j, n + 1) /\ D(s, n + 1) >= D(s, j)
  <2>1. j # n + 1
    BY <1>4
  <2>2. j \in 1..n
    BY <2>1
  <2> QED
    BY <1>1, <1>4, <2>2, EncMore
<1>5. Entered(s, n + 1, u)
  <2> SUFFICES ASSUME NEW j \in 1..(n + 1), s[j].st \in Defining, Enc(s, j, (n + 1) + 1)
               PROVE  \E i \in 1..Len(u) : /\ s[j].name \in DOMAIN u[i].var
                                           /\ u[i].var[s[j].name] = s[j].def
                                           /\ In(s, n + 1, u, j, i)
    BY DEF Entered
  <2>1. j \in 1..n /\ Enc(s, j, n + 1) /\ D(s, n + 1) >= D(s, j)
    BY <1>4
  <2>2. PICK i \in 1..m : /\ s[j].name \in DOMAIN t[i].var
                          /\ t[i].var[s[j].name] = s[j].def
                          /\ In(s, n, t, j, i)
    BY <2>1 DEF Names, Entered
  <2>3. i \in 1..c
    <3>1. D(s, j) = D(s, t[i].at) /\ D(s, t[i].at) \in Nat
      BY <1>0, <2>2 DEF In
    <3>2. i \notin (c + 1)..m
      BY <2>1, <3>1
    <3> QED
      BY <1>0, <3>2
  <2>4. i \in 1..Len(u) /\ u[i] = t[i] /\ In(s, n + 1, u, j, i)
    BY <1>0, <1>2, <2>1, <2>2, <2>3
  <2> QED
    BY <2>2, <2>4
<1>6. NotTwice(s, n + 1)
  BY <1>4 DEF Names, NotTwice
<1> QED
  BY <1>3, <1>5, <1>6 DEF Names

\* A definition is put into table p, which has none of that name.
LEMMA NamesPut ==
    ASSUME NEW s, NEW n \in Nat, NEW t, Blocks(s, n, t), Names(s, n, t),
           s[n + 1].st \in Defining,
           NEW p \in 1..Len(t), t[p].at = t[Len(t)].at, p = 2 \/ p = Len(t),
           s[n + 1].st = "param" <=> p = 2,
           s[n + 1].name \notin DOMAIN t[p].var,
           NEW u, Len(u) = Len(t), \A i \in 1..Len(t) : u[i].at = t[i].at,
           \A i \in 1..Len(t) : i # p => u[i].var = t[i].var,
           DOMAIN u[p].var = DOMAIN t[p].var \cup {s[n + 1].name},
           u[p].var[s[n + 1].name] = s[n + 1].def,
           \A x \in DOMAIN t[p].var : u[p].var[x] = t[p].var[x]
    PROVE  Names(s, n + 1, u)
<1> DEFINE m == Len(t)
           new == s[n + 1].name
<1>0. /\ m \in Nat /\ p \in 1..m
      /\ \A i \in 1..m : t[i].at \in 0..n /\ D(s, t[i].at) \in Nat
      /\ \A i, h \in 1..m : i <= h => t[i].at <= t[h].at
  BY DEF Blocks
<1>1. (n + 1) + 1 = n + 2
  OBVIOUS
<1>2. D(s, n) \in Nat /\ D(s, n + 1) = D(s, n) /\ D(s, n) = D(s, t[p].at)
  <2>1. s[n + 1].st \notin Opening /\ s[n + 1].st # "close"
    BY DEF Defining, Opening
  <2>2. D(s, n + 1) = D(s, n) + 0
    BY <2>1, DepthSteps
  <2>3. D(s, n) \in Nat /\ D(s, n) = D(s, t[m].at)
    BY DEF Blocks
  <2> QED
    BY <2>2, <2>3
<1>3. ASSUME NEW j \in 1..n PROVE Enc(s, j, n + 2) <=> Enc(s, j, n + 1)
  <2>1. Enc(s, j, n + 1) => D(s, n) >= D(s, j)
    BY EncMore
  <2> QED
    BY <1>2, <2>1, EncMore
<1>4. ASSUME NEW j \in 1..n, NEW i \in 1..m, In(s, n, t, j, i)
      PROVE  In(s, n + 1, u, j, i)
  <2>1. u[i].at = t[i].at /\ Enc(s, j, n + 2)
    BY <1>3, <1>4 DEF In
  <2>2. \A h \in (i + 1)..m : u[h].at = t[h].at
    BY <1>0
  <2> QED
    BY <1>1, <1>4, <2>1, <2>2 DEF In
<1>5. In(s, n + 1, u, n + 1, p)
  <2>1. Enc(s, n + 1, n + 2)
    BY EncMore
  <2>2. u[p].at < n + 1
    BY <1>0
  <2>3. p = 2 \/ \A h \in (p + 1)..Len(u) : u[h].at > u[p].at
    <3>1. p = m => (p + 1)..Len(u) = {}
      BY <1>0
    <3> QED
      BY <3>1
  <2> QED
    BY <1>1, <1>2, <2>1, <2>2, <2>3 DEF In
<1>6. Found(s, n + 1, u)
  <2> SUFFICES ASSUME NEW i \in 1..m, NEW x \in DOMAIN u[i].var
               PROVE  \E j \in 1..(n + 1) : /\ s[j].st \in Defining /\ s[j].name = x
                                            /\ s[j].def = u[i].var[x]
                                            /\ In(s, n + 1, u, j, i)
    BY DEF Found
  <2>1. CASE i = p /\ x = new
    <3>1. n + 1 \in 1..(n + 1)
      OBVIOUS
    <3> QED
      BY <1>5, <2>1, <3>1
  <2>2. CASE ~ (i = p /\ x = new)
    <3>1. x \in DOMAIN t[i].var /\ u[i].var[x] = t[i].var[x]
      BY <2>2
    <3>2. PICK j \in 1..n : /\ s[j].st \in Defining /\ s[j].name = x
                            /\ s[j].def = t[i].var[x]
                            /\ In(s, n, t, j, i)
      BY <3>1 DEF Names, Found
    <3>3. j \in 1..(n + 1) /\ In(s, n + 1, u, j, i)
      BY <1>4, <3>2
    <3> QED
      BY <3>1, <3>2, <3>3
  <2> QED
    BY <2>1, <2>2
<1>7. Entered(s, n + 1, u)
  <2> SUFFICES ASSUME NEW j \in 1..(n + 1), s[j].st \in Defining, Enc(s, j, (n + 1) + 1)
               PROVE  \E i \in 1..m : /\ s[j].name \in DOMAIN u[i].var
                                      /\ u[i].var[s[j].name] = s[j].def
                                      /\ In(s, n + 1, u, j, i)
    BY DEF Entered
  <2>1. CASE j = n + 1
    BY <1>5, <2>1
  <2>2. CASE j # n + 1
    <3>1. j \in 1..n
      BY <2>2
    <3>2. Enc(s, j, n + 1)
      BY <1>1, <1>3, <3>1
    <3>3. PICK i \in 1..m : /\ s[j].name \in DOMAIN t[i].var
                            /\ t[i].var[s[j].name] = s[j].def
                            /\ In(s, n, t, j, i)
      BY <3>1, <3>2 DEF Names, Entered
    <3>4. In(s, n + 1, u, j, i)
      BY <1>4, <3>1, <3>3
    <3>5. s[j].name \in DOMAIN u[i].var /\ u[i].var[s[j].name] = t[i].var[s[j].name]
      BY <3>3
    <3> QED
      BY <3>3, <3>4, <3>5
  <2> QED
    BY <2>1, <2>2
\* what is defined already in the block and has the name is in that table
<1>8. ASSUME NEW j \in 1..n, s[j].st = s[n + 1].st, s[j].name = new, Enc(s, j, n + 1)
      PROVE  D(s, j) # D(s, n + 1)
  <2> SUFFICES ASSUME D(s, j) = D(s, n + 1) PROVE FALSE
    OBVIOUS
  <2>1. PICK i \in 1..m : s[j].name \in DOMAIN t[i].var /\ In(s, n, t, j, i)
    BY <1>8 DEF Names, Entered
  <2>2. /\ D(s, t[i].at) = D(s, t[p].at) /\ (p = 2 <=> i = 2)
        /\ i = 2 \/ \A h \in (i + 1)..m : t[h].at > t[i].at
    BY <1>2, <1>8, <2>1 DEF In
  <2>3. i = p
    <3>1. CASE p = 2
      BY <2>2, <3>1
    <3>2. CASE p # 2
      <4>1. p = m /\ i # 2
        BY <2>2, <3>2
      <4>2. ASSUME i # m PROVE FALSE
        <5>1. m \in (i + 1)..m
          BY <1>0, <4>2
        <5>2. t[m].at > t[i].at /\ m \in 1..m
          BY <1>0, <2>2, <4>1, <5>1
        <5>3. D(s, t[i].at) < D(s, t[m].at)
          BY <5>2, Levels
        <5> QED
          BY <1>0, <2>2, <4>1, <5>3
      <4> QED
        BY <4>1, <4>2
    <3> QED
      BY <3>1, <3>2
  <2> QED
    BY <1>8, <2>1, <2>3
<1>9. NotTwice(s, n + 1)
  <2> SUFFICES ASSUME NEW j \in 1..(n + 1), NEW k \in 1..(n + 1), j # k,
                      s[j].st \in Defining, s[k].st = s[j].st, s[k].name = s[j].name,
                      Enc(s, j, (n + 1) + 1), Enc(s, k, (n + 1) + 1)
               PROVE  D(s, j) # D(s, k)
    BY DEF NotTwice
  <2>1. CASE j = n + 1
    <3>1. k \in 1..n
      BY <2>1
    <3>2. Enc(s, k, n + 1)
      BY <1>1, <1>3, <3>1
    <3> QED
      BY <1>8, <2>1, <3>1, <3>2
  <2>2. CASE k = n + 1
    <3>1. j \in 1..n
      BY <2>2
    <3>2. Enc(s, j, n + 1)
      BY <1>1, <1>3, <3>1
    <3> QED
      BY <1>8, <2>2, <3>1, <3>2
  <2>3. CASE j # n + 1 /\ k # n + 1
    <3>1. j \in 1..n /\ k \in 1..n
      BY <2>3
    <3>2. Enc(s, j, n + 1) /\ Enc(s, k, n + 1)
      BY <1>1, <1>3, <3>1
    <3> QED
      BY <3>1, <3>2 DEF Names, NotTwice
  <2> QED
    BY <2>1, <2>2, <2>3
<1> QED
  BY <1>6, <1>7, <1>9 DEF Names

-------------------------------------------------------------------------------
(* Loops, and the tables of the function.                                  *)

\* the first table of a while's block has the loop
Loops(s, t) ==
    \A i \in 1..Len(t) :
        t[i].loop = IF i > 1 /\ s[t[i].at].st = "while" /\ t[i - 1].at # t[i].at
                    THEN t[i].at ELSE 0

\* A line that pushes no table, or pops some, leaves the loops of the others.
LEMMA LoopsKept ==
    ASSUME NEW s, NEW t, Len(t) \in Nat, Loops(s, t), NEW u, Len(u) <= Len(t), Len(u) \in Nat,
           \A i \in 1..Len(u) : u[i].at = t[i].at /\ u[i].loop = t[i].loop
    PROVE  Loops(s, u)
<1> SUFFICES ASSUME NEW i \in 1..Len(u)
             PROVE  u[i].loop = IF i > 1 /\ s[u[i].at].st = "while" /\ u[i - 1].at # u[i].at
                                THEN u[i].at ELSE 0
  BY DEF Loops
<1>1. i \in 1..Len(t) /\ (i > 1 => i - 1 \in 1..Len(u))
  OBVIOUS
<1> QED
  BY <1>1 DEF Loops

\* A line that opens a block pushes a table of a loop if it is a while, and else
\* tables of none.
LEMMA LoopsPush ==
    ASSUME NEW s, NEW n \in Nat, NEW t, Blocks(s, n, t), Loops(s, t),
           NEW e \in {1, 2}, NEW u, Len(u) = Len(t) + e,
           \A i \in 1..Len(t) : u[i] = t[i],
           \A i \in (Len(t) + 1)..(Len(t) + e) : u[i].at = n + 1,
           u[Len(t) + 1].loop = (IF s[n + 1].st = "while" THEN n + 1 ELSE 0),
           e = 2 => u[Len(t) + 2].loop = 0
    PROVE  Loops(s, u)
<1> DEFINE m == Len(t)
<1>0. m \in Nat /\ m >= 1 /\ \A i \in 1..m : t[i].at \in 0..n
  BY DEF Blocks
<1> SUFFICES ASSUME NEW i \in 1..(m + e)
             PROVE  u[i].loop = IF i > 1 /\ s[u[i].at].st = "while" /\ u[i - 1].at # u[i].at
                                THEN u[i].at ELSE 0
  BY DEF Loops
<1>1. CASE i \in 1..m
  <2>1. i > 1 => i - 1 \in 1..m
    BY <1>0, <1>1
  <2> QED
    BY <1>1, <2>1 DEF Loops
<1>2. CASE i = m + 1
  <2>1. i > 1 /\ i - 1 \in 1..m /\ i \in (m + 1)..(m + e)
    BY <1>0, <1>2
  <2>2. u[i - 1].at \in 0..n /\ u[i].at = n + 1
    BY <1>0, <2>1
  <2>3. u[i - 1].at # u[i].at
    BY <2>2
  <2> QED
    BY <1>2, <2>1, <2>2, <2>3
<1>3. CASE i = m + 2
  <2>1. e = 2 /\ i - 1 \in (m + 1)..(m + e) /\ i \in (m + 1)..(m + e)
    BY <1>0, <1>3
  <2>2. u[i - 1].at = u[i].at
    BY <2>1
  <2> QED
    BY <1>3, <2>1, <2>2
<1> QED
  BY <1>0, <1>1, <1>2, <1>3

\* the lines a function starts with
Opener == {"func", "param"}

\* There is one function, with its parameters first.
Function(s, n, t) ==
    /\ Len(t) = 1 \/ (Len(t) >= 3 /\ t[2].at = t[3].at)
    /\ n > 0 /\ s[n].st \in Opener =>
          Len(t) = 3 /\ \A k \in 1..n : s[k].st \in Opener \/ D(s, k) = 0
    /\ (\A k \in 1..n : s[k].st = "def") => \A k \in 0..n : D(s, k) = 0
    /\ \A j \in 1..n : s[j].st = "param" =>
          \A k \in 1..(j - 1) : s[k].st \in Opener \/ D(s, k) = 0

\* Placeable lets one function in, and parameters at its start only.
LEMMA FunctionStep ==
    ASSUME NEW s, NEW n \in Nat, NEW t, Blocks(s, n, t), Function(s, n, t),
           Len(t) = 1 => /\ s[n + 1].st \in {"def", "func"}
                         /\ \A k \in 1..n : s[k].st = "def",
           Len(t) # 1 => /\ s[n + 1].st # "func"
                         /\ s[n + 1].st = "param" => n > 0 /\ s[n].st \in Opener,
           NEW u, Len(u) = 1 \/ (Len(u) >= 3 /\ u[2].at = u[3].at),
           s[n + 1].st = "func" => Len(u) = Len(t) + 2,
           s[n + 1].st = "param" => Len(u) = Len(t)
    PROVE  Function(s, n + 1, u)
<1>1. (n + 1) - 1 = n /\ n + 1 > 0 /\ \A k \in 1..(n + 1) : k \in 1..n \/ k = n + 1
  OBVIOUS
<1>2. s[n + 1].st \in Opener =>
          Len(u) = 3 /\ \A k \in 1..(n + 1) : s[k].st \in Opener \/ D(s, k) = 0
  <2> SUFFICES ASSUME s[n + 1].st \in Opener
               PROVE  Len(u) = 3 /\ \A k \in 1..(n + 1) : s[k].st \in Opener \/ D(s, k) = 0
    OBVIOUS
  <2>1. CASE s[n + 1].st = "func"
    <3>1. Len(t) = 1 /\ \A k \in 1..n : s[k].st = "def"
      BY <2>1
    <3>2. \A k \in 1..n : D(s, k) = 0
      BY <3>1 DEF Function
    <3> QED
      BY <1>1, <2>1, <3>1, <3>2
  <2>2. CASE s[n + 1].st = "param"
    <3>1. Len(t) # 1 /\ n > 0 /\ s[n].st \in Opener
      BY <2>2
    <3> QED
      BY <1>1, <2>2, <3>1 DEF Function
  <2> QED
    BY <2>1, <2>2 DEF Opener
<1>3. (\A k \in 1..(n + 1) : s[k].st = "def") => \A k \in 0..(n + 1) : D(s, k) = 0
  <2> SUFFICES ASSUME \A k \in 1..(n + 1) : s[k].st = "def"
               PROVE  \A k \in 0..(n + 1) : D(s, k) = 0
    OBVIOUS
  <2>1. \A k \in 1..n : s[k].st = "def"
    OBVIOUS
  <2>2. \A k \in 0..n : D(s, k) = 0
    BY <2>1 DEF Function
  <2>3. s[n + 1].st = "def"
    OBVIOUS
  <2>4. s[n + 1].st \notin Opening /\ s[n + 1].st # "close"
    BY <2>3 DEF Opening
  <2>5. D(s, n + 1) = D(s, n) + 0
    BY <2>4, DepthSteps
  <2>6. D(s, n + 1) = 0
    BY <2>2, <2>5
  <2>7. \A k \in 0..(n + 1) : k \in 0..n \/ k = n + 1
    OBVIOUS
  <2> QED
    BY <2>2, <2>6, <2>7
<1>4. ASSUME NEW j \in 1..(n + 1), s[j].st = "param"
      PROVE  \A k \in 1..(j - 1) : s[k].st \in Opener \/ D(s, k) = 0
  <2>1. CASE j \in 1..n
    BY <1>4, <2>1 DEF Function
  <2>2. CASE j = n + 1
    <3>1. \A k \in 1..n : s[k].st \in Opener \/ D(s, k) = 0
      BY <1>2, <1>4, <2>2 DEF Opener
    <3> QED
      BY <1>1, <2>2, <3>1
  <2> QED
    BY <1>1, <2>1, <2>2
<1> QED
  BY <1>1, <1>2, <1>3, <1>4 DEF Function

-------------------------------------------------------------------------------
(* The tables of a state.                                                   *)

\* what tables are, after n lines
Good(s, n, t) == Blocks(s, n, t) /\ Names(s, n, t) /\ Loops(s, t) /\ Function(s, n, t)

\* The lines that follow do not matter.
LEMMA GoodSame ==
    ASSUME NEW s, NEW r, NEW n \in Nat, \A k \in 1..n : r[k] = s[k],
           NEW t, Good(s, n, t)
    PROVE  Good(r, n, t)
<1> DEFINE m == Len(t)
<1>0. /\ m \in Nat /\ m >= 1
      /\ \A i \in 1..m : t[i].at \in 0..n
      /\ \A i \in 2..m : t[i].at \in 1..n
      /\ Blocks(s, n, t) /\ Names(s, n, t) /\ Loops(s, t) /\ Function(s, n, t)
  BY DEF Good, Blocks
<1>1. /\ \A k \in 0..n : D(r, k) = D(s, k)
      /\ \A j \in 1..n : Enc(r, j, n + 1) <=> Enc(s, j, n + 1)
  <2>1. n + 1 \in 1..(n + 1)
    OBVIOUS
  <2> QED
    BY <2>1, DepthSame
<1>2. Blocks(r, n, t)
  <2>1. \A i \in 2..m : r[t[i].at].st \in Opening /\ Enc(r, t[i].at, n + 1)
    BY <1>0, <1>1 DEF Blocks
  <2>2. \A i \in 1..(m - 1) : \/ t[i + 1].at = t[i].at
                              \/ D(r, t[i + 1].at) = D(r, t[i].at) + 1
    <3>1. \A i \in 1..(m - 1) : i \in 1..m /\ i + 1 \in 1..m
      BY <1>0
    <3> QED
      BY <1>0, <1>1, <3>1 DEF Blocks
  <2>3. D(r, n) = D(r, t[m].at) /\ \A k \in 0..n : D(r, k) \in Nat
    <3>1. n \in 0..n /\ m \in 1..m
      BY <1>0
    <3> QED
      BY <1>0, <1>1, <3>1 DEF Blocks
  <2>4. \A j \in 1..n : r[j].st \in Opening /\ Enc(r, j, n + 1) =>
          \E i \in 1..m : t[i].at = j
    BY <1>0, <1>1 DEF Blocks
  <2> QED
    BY <1>0, <2>1, <2>2, <2>3, <2>4 DEF Blocks
<1>3. Names(r, n, t)
  <2>1. \A j \in 1..n, i \in 1..m : In(r, n, t, j, i) <=> In(s, n, t, j, i)
    <3> SUFFICES ASSUME NEW j \in 1..n, NEW i \in 1..m
                 PROVE  In(r, n, t, j, i) <=> In(s, n, t, j, i)
      OBVIOUS
    <3>1. j \in 0..n /\ t[i].at \in 0..n
      BY <1>0
    <3>2. D(r, j) = D(s, j) /\ D(r, t[i].at) = D(s, t[i].at) /\ r[j] = s[j]
      BY <1>1, <3>1
    <3> QED
      BY <1>1, <3>2 DEF In
  <2>2. Found(r, n, t)
    BY <1>0, <2>1 DEF Names, Found
  <2>3. Entered(r, n, t)
    BY <1>0, <1>1, <2>1 DEF Names, Entered
  <2>4. NotTwice(r, n)
    <3>1. \A j \in 1..n : j \in 0..n
      OBVIOUS
    <3>2. NotTwice(s, n)
      BY <1>0 DEF Names
    <3> QED
      BY <1>1, <3>1, <3>2 DEF NotTwice
  <2> QED
    BY <2>2, <2>3, <2>4 DEF Names
<1>4. Loops(r, t)
  <2> SUFFICES ASSUME NEW i \in 1..m
               PROVE  t[i].loop = IF i > 1 /\ r[t[i].at].st = "while" /\ t[i - 1].at # t[i].at
                                  THEN t[i].at ELSE 0
    BY DEF Loops
  <2>1. i > 1 => t[i].at \in 1..n
    BY <1>0
  <2>2. i > 1 => r[t[i].at] = s[t[i].at]
    BY <2>1
  <2> QED
    BY <1>0, <2>2 DEF Loops
<1>5. Function(r, n, t)
  <2>1. \A k \in 1..n : k \in 0..n /\ r[k].st = s[k].st
    OBVIOUS
  <2>2. \A j \in 1..n : \A k \in 1..(j - 1) : k \in 1..n
    OBVIOUS
  <2>3. n > 0 => n \in 1..n
    OBVIOUS
  <2>4. /\ Len(t) = 1 \/ (Len(t) >= 3 /\ t[2].at = t[3].at)
        /\ n > 0 /\ r[n].st \in Opener =>
              Len(t) = 3 /\ \A k \in 1..n : r[k].st \in Opener \/ D(r, k) = 0
    BY <1>0, <1>1, <2>1, <2>3 DEF Function
  <2>5. (\A k \in 1..n : r[k].st = "def") => \A k \in 0..n : D(r, k) = 0
    BY <1>0, <1>1, <2>1 DEF Function
  <2>6. \A j \in 1..n : r[j].st = "param" =>
          \A k \in 1..(j - 1) : r[k].st \in Opener \/ D(r, k) = 0
    BY <1>0, <1>1, <2>1, <2>2 DEF Function
  <2> QED
    BY <2>4, <2>5, <2>6 DEF Function
<1> QED
  BY <1>2, <1>3, <1>4, <1>5 DEF Good

\* a stack of symbol tables
Tabular(t) ==
    /\ IsSeq(t)
    /\ \A i \in DOMAIN t : t[i] = [var |-> t[i].var, loop |-> t[i].loop, at |-> t[i].at]

\* Its elements are tables.
LEMMA TabularIs ==
    ASSUME NEW t, Tabular(t)
    PROVE  /\ Len(t) \in Nat /\ DOMAIN t = 1..Len(t)
           /\ t \in Seq({t[i] : i \in DOMAIN t})
  BY DEF Tabular, IsSeq

\* What the cases of TablesAfter are.
LEMMA TablesAfterIs ==
    ASSUME NEW line
    PROVE  LET here == Len(text) + 1 IN
           /\ line.st \in {"open", "if"} => TablesAfter(line) = Append(tables, Table(0, here))
           /\ line.st = "while" =>
                TablesAfter(line) = tables \o <<Table(here, here), Table(0, here)>>
           /\ line.st = "func" =>
                TablesAfter(line) = tables \o <<Table(0, here), Table(0, here)>>
           /\ line.st = "close" =>
                TablesAfter(line) =
                    SubSeq(tables, 1, Min({i \in DOMAIN tables : tables[i].at = Top.at}) - 1)
           /\ line.st \in Defining => TablesAfter(line) = Put(line)
           /\ line.st \notin Opening \cup Defining \cup {"close"} => TablesAfter(line) = tables
<1> DEFINE l  == line.st
           x1 == Append(tables, Table(0, Len(text) + 1))
           x2 == tables \o <<Table(Len(text) + 1, Len(text) + 1), Table(0, Len(text) + 1)>>
           x3 == tables \o <<Table(0, Len(text) + 1), Table(0, Len(text) + 1)>>
           x4 == SubSeq(tables, 1, Min({i \in DOMAIN tables : tables[i].at = Top.at}) - 1)
           x5 == Put(line)
<1>1. TablesAfter(line) = CASE l \in {"open", "if"} -> x1
                            [] l = "while" -> x2
                            [] l = "func"  -> x3
                            [] l = "close" -> x4
                            [] l \in Defining -> x5
                            [] OTHER -> tables
  BY DEF TablesAfter
<1> SUFFICES /\ l \in {"open", "if"} => TablesAfter(line) = x1
             /\ l = "while" => TablesAfter(line) = x2
             /\ l = "func" => TablesAfter(line) = x3
             /\ l = "close" => TablesAfter(line) = x4
             /\ l \in Defining => TablesAfter(line) = x5
             /\ l \notin Opening \cup Defining \cup {"close"} => TablesAfter(line) = tables
  OBVIOUS
<1> HIDE DEF l, x1, x2, x3, x4, x5
<1> QED
  BY <1>1 DEF Defining, Opening

\* A block that is opened.
LEMMA AfterOpening ==
    ASSUME Tabular(tables), Len(text) \in Nat, NEW line, line.st \in Opening,
           NEW u, u = TablesAfter(line), NEW e, e = (IF line.st \in {"open", "if"} THEN 1 ELSE 2)
    PROVE  /\ Tabular(u) /\ Len(u) = Len(tables) + e
           /\ \A i \in 1..Len(tables) : u[i] = tables[i]
           /\ u[Len(tables) + 1] = Table(IF line.st = "while" THEN Len(text) + 1 ELSE 0, Len(text) + 1)
           /\ e = 2 => u[Len(tables) + 2] = Table(0, Len(text) + 1)
<1> DEFINE m == Len(tables)
           here == Len(text) + 1
           T == {tables[i] : i \in DOMAIN tables} \cup {Table(0, here), Table(here, here)}
<1>0. m \in Nat /\ tables \in Seq(T) /\ DOMAIN tables = 1..m
  <2>1. m \in Nat /\ DOMAIN tables = 1..m /\ tables \in Seq({tables[i] : i \in DOMAIN tables})
    BY TabularIs
  <2>2. \A i \in 1..m : tables[i] \in T
    BY <2>1
  <2> HIDE DEF T
  <2> QED
    BY <2>1, <2>2
<1>1. Table(0, here) \in T /\ Table(here, here) \in T
  OBVIOUS
<1>2. ASSUME NEW a \in T, NEW v, v = Append(tables, a)
      PROVE  /\ v \in Seq(T) /\ Len(v) = m + 1 /\ DOMAIN v = 1..(m + 1)
             /\ \A i \in 1..m : v[i] = tables[i]
             /\ v[m + 1] = a
  <2> HIDE DEF T
  <2> QED
    BY <1>0, <1>2
<1> DEFINE Two(v, a, b) == /\ v \in Seq(T) /\ Len(v) = m + 2 /\ DOMAIN v = 1..(m + 2)
                           /\ \A i \in 1..m : v[i] = tables[i]
                           /\ v[m + 1] = a /\ v[m + 2] = b
<1>3. ASSUME NEW a \in T, NEW b \in T
      PROVE  Two(tables \o <<a, b>>, a, b)
  <2> DEFINE v == tables \o <<a, b>>
  <2> HIDE DEF T
  <2>1. <<a, b>> \in Seq(T) /\ Len(<<a, b>>) = 2 /\ <<a, b>>[1] = a /\ <<a, b>>[2] = b
    BY <1>3
  <2>2. v \in Seq(T) /\ Len(v) = m + 2
    BY <1>0, <2>1, ConcatProperties
  <2>3. \A i \in 1..(m + 2) : v[i] = IF i <= m THEN tables[i] ELSE <<a, b>>[i - m]
    BY <1>0, <2>1, ConcatProperties
  <2>4. m + 1 \in 1..(m + 2) /\ m + 2 \in 1..(m + 2) /\ (m + 1) - m = 1 /\ (m + 2) - m = 2
        /\ ~ (m + 1 <= m) /\ ~ (m + 2 <= m)
        /\ \A i \in 1..m : i \in 1..(m + 2) /\ i <= m
    BY <1>0
  <2>5. v[m + 1] = a /\ v[m + 2] = b
    BY <2>1, <2>3, <2>4
  <2>6. DOMAIN v = 1..(m + 2)
    BY <2>2
  <2> QED
    BY <2>2, <2>3, <2>4, <2>5, <2>6
<1>4. ASSUME NEW v \in Seq(T), \A i \in DOMAIN v : v[i] \in T
      PROVE  Tabular(v)
  <2>1. \A a \in T : a = [var |-> a.var, loop |-> a.loop, at |-> a.at]
    <3>1. \A i \in DOMAIN tables : tables[i] = [var |-> tables[i].var, loop |-> tables[i].loop, at |-> tables[i].at]
      BY DEF Tabular
    <3> QED
      BY <3>1 DEF Table
  <2> HIDE DEF T
  <2>2. IsSeq(v)
    BY <1>4 DEF IsSeq
  <2> QED
    BY <1>4, <2>1, <2>2 DEF Tabular
<1>5. CASE line.st \in {"open", "if"}
  <2>1. u = Append(tables, Table(0, here)) /\ e = 1
    BY <1>5, TablesAfterIs
  <2>2. line.st # "while"
    BY <1>5
  <2> HIDE DEF T
  <2>3. /\ u \in Seq(T) /\ Len(u) = m + 1 /\ DOMAIN u = 1..(m + 1)
        /\ \A i \in 1..m : u[i] = tables[i]
        /\ u[m + 1] = Table(0, here)
    BY <1>1, <1>2, <2>1
  <2>4. \A i \in DOMAIN u : u[i] \in T
    BY <2>3
  <2> QED
    BY <1>4, <2>1, <2>2, <2>3, <2>4
<1>6. CASE line.st = "while"
  <2>1. u = tables \o <<Table(here, here), Table(0, here)>> /\ e = 2
    BY <1>6, TablesAfterIs
  <2> HIDE DEF T, Two
  <2>5. Two(u, Table(here, here), Table(0, here))
    BY <1>1, <1>3, <2>1
  <2>3. /\ u \in Seq(T) /\ Len(u) = m + 2 /\ DOMAIN u = 1..(m + 2)
        /\ \A i \in 1..m : u[i] = tables[i]
        /\ u[m + 1] = Table(here, here) /\ u[m + 2] = Table(0, here)
    BY <2>5 DEF Two
  <2>4. \A i \in DOMAIN u : u[i] \in T
    BY <2>3
  <2> QED
    BY <1>4, <1>6, <2>1, <2>3, <2>4
<1>7. CASE line.st = "func"
  <2>1. u = tables \o <<Table(0, here), Table(0, here)>> /\ e = 2
    BY <1>7, TablesAfterIs
  <2>2. line.st # "while"
    BY <1>7
  <2> HIDE DEF T, Two
  <2>5. Two(u, Table(0, here), Table(0, here))
    BY <1>1, <1>3, <2>1
  <2>3. /\ u \in Seq(T) /\ Len(u) = m + 2 /\ DOMAIN u = 1..(m + 2)
        /\ \A i \in 1..m : u[i] = tables[i]
        /\ u[m + 1] = Table(0, here) /\ u[m + 2] = Table(0, here)
    BY <2>5 DEF Two
  <2>4. \A i \in DOMAIN u : u[i] \in T
    BY <2>3
  <2> QED
    BY <1>4, <2>1, <2>2, <2>3, <2>4
<1> QED
  BY <1>5, <1>6, <1>7 DEF Opening

\* What the greatest number of a set is.
LEMMA MaxIs ==
    ASSUME NEW n \in Nat, NEW S \in SUBSET (0..n), S # {}
    PROVE  Max(S) \in S /\ \A y \in S : y <= Max(S)
<1>1. \E m \in S : \A y \in S : m >= y
  BY GreatestExists
<1>2. Max(S) \in S /\ \A y \in S : Max(S) >= y
  BY <1>1 DEF Max
<1> QED
  BY <1>2

\* And what the least number is.
LEMMA MinIs ==
    ASSUME NEW S \in SUBSET Nat, S # {}
    PROVE  Min(S) \in S /\ \A y \in S : Min(S) <= y
<1>1. \E m \in S : \A y \in S : m <= y
  BY LeastExists
<1> QED
  BY <1>1 DEF Min

\* A block that is closed.
LEMMA AfterClosing ==
    ASSUME Tabular(tables), NEW s, NEW n \in Nat, Blocks(s, n, tables), Len(tables) # 1,
           NEW line, line.st = "close", NEW u, u = TablesAfter(line)
    PROVE  Tabular(u) /\ Popped(tables, u)
<1> DEFINE t == tables
           m == Len(tables)
           F == {i \in DOMAIN tables : tables[i].at = Top.at}
           f == Min(F)
<1>0. /\ m \in Nat /\ m >= 2 /\ DOMAIN t = 1..m /\ Top = t[m]
      /\ t \in Seq({t[i] : i \in DOMAIN t})
      /\ \A i \in 1..m : t[i].at \in 0..n
      /\ \A i, h \in 1..m : i <= h => t[i].at <= t[h].at
      /\ t[1].at = 0 /\ t[m].at # 0
  <2>1. m \in Nat /\ m >= 2 /\ DOMAIN t = 1..m /\ t \in Seq({t[i] : i \in DOMAIN t})
    <3>1. m \in Nat /\ DOMAIN t = 1..m /\ t \in Seq({t[i] : i \in DOMAIN t})
      BY TabularIs
    <3>2. m # 0
      BY DEF Blocks
    <3> QED
      BY <3>1, <3>2
  <2>2. m \in 2..m
    BY <2>1
  <2> QED
    BY <2>1, <2>2 DEF Blocks, Top
<1>1. F \in SUBSET Nat /\ m \in F /\ F # {} /\ F \subseteq 1..m /\ 1 \notin F
  BY <1>0
<1>2. f \in F /\ \A y \in F : f <= y
  <2> HIDE DEF F
  <2> QED
    BY <1>1, MinIs
<1>3. f \in 2..m /\ t[f].at = t[m].at
  BY <1>0, <1>1, <1>2
<1>4. u = SubSeq(t, 1, f - 1)
  BY TablesAfterIs
<1> DEFINE c == f - 1
<1>5. c \in 1..(m - 1) /\ c + 1 = f
  BY <1>3
<1>6. t[c].at # t[m].at
  <2>1. c \in DOMAIN t /\ ~ (f <= c)
    BY <1>0, <1>5, <1>3
  <2> QED
    BY <1>0, <1>2, <2>1
<1>7. \A i \in (c + 1)..m : t[i].at = t[m].at
  <2> SUFFICES ASSUME NEW i \in (c + 1)..m PROVE t[i].at = t[m].at
    OBVIOUS
  <2> HIDE DEF f, F, m
  <2>0. m \in Nat /\ f \in 2..m /\ c = f - 1
    BY <1>0, <1>3 DEF f
  <2> HIDE DEF c
  <2>1. i \in 1..m /\ f \in 1..m /\ f <= i /\ i <= m /\ m \in 1..m
    BY <2>0
  <2>2. t[f].at <= t[i].at /\ t[i].at <= t[m].at /\ t[i].at \in Int /\ t[m].at \in Int
    BY <1>0, <2>1
  <2> QED
    BY <1>3, <2>2
<1> HIDE DEF f, F, c
<1>8. /\ Len(u) = c /\ \A i \in 1..c : u[i] = t[i]
      /\ u \in Seq({t[i] : i \in DOMAIN t}) /\ DOMAIN u = 1..c
  <2> DEFINE T == {t[i] : i \in DOMAIN t}
  <2>0. u = SubSeq(t, 1, c) /\ c \in Nat /\ c >= 1 /\ c <= m /\ \A i \in 1..c : i \in 1..m
    BY <1>0, <1>4, <1>5 DEF c
  <2>1. \A i \in 1..m : t[i] \in T
    BY <1>0
  <2>2. t \in Seq(T)
    BY <1>0
  <2> HIDE DEF T
  <2>3. \A i \in 1..c : t[i] \in T
    BY <2>0, <2>1
  <2>4. /\ SubSeq(t, 1, c) \in Seq(T)
        /\ Len(SubSeq(t, 1, c)) = (IF 1 <= c THEN c - 1 + 1 ELSE 0)
        /\ \A i \in 1..(c - 1 + 1) : SubSeq(t, 1, c)[i] = t[1 + i - 1]
    BY <2>0, <2>3, SubSeqProperties
  <2>5. u \in Seq(T) /\ Len(u) = c
    BY <2>0, <2>4
  <2>6. \A i \in 1..c : i \in 1..(c - 1 + 1) /\ 1 + i - 1 = i
    BY <2>0
  <2>7. \A i \in 1..c : u[i] = t[i]
    BY <2>0, <2>4, <2>6
  <2>8. DOMAIN u = 1..c
    BY <2>5
  <2> QED
    BY <2>5, <2>7, <2>8 DEF T
<1>9. Tabular(u)
  <2>1. IsSeq(u)
    BY <1>8 DEF IsSeq
  <2>2. \A i \in DOMAIN u : u[i] = t[i] /\ i \in DOMAIN t
    BY <1>0, <1>5, <1>8
  <2> QED
    BY <2>1, <2>2 DEF Tabular
<1> QED
  BY <1>5, <1>6, <1>7, <1>8, <1>9 DEF Popped

\* A sequence with one more element.
LEMMA Appended ==
    ASSUME NEW s, IsSeq(s), NEW e
    PROVE  /\ IsSeq(Append(s, e))
           /\ Len(Append(s, e)) = Len(s) + 1
           /\ Len(s) \in Nat
           /\ DOMAIN s = 1..Len(s)
           /\ DOMAIN Append(s, e) = 1..(Len(s) + 1)
           /\ \A k \in 1..Len(s) : Append(s, e)[k] = s[k]
           /\ Append(s, e)[Len(s) + 1] = e
<1> DEFINE T == {s[k] : k \in DOMAIN s} \cup {e}
           t == Append(s, e)
<1>1. s \in Seq(T) /\ e \in T
  BY SMT DEF IsSeq
<1> HIDE DEF T
<1>2. /\ t \in Seq(T) /\ Len(t) = Len(s) + 1 /\ Len(s) \in Nat
      /\ DOMAIN s = 1..Len(s) /\ DOMAIN t = 1..(Len(s) + 1)
      /\ \A k \in 1..Len(s) : t[k] = s[k]
      /\ t[Len(s) + 1] = e
  BY <1>1, SMT
<1>3. t \in Seq({t[k] : k \in DOMAIN t})
  BY <1>2, SMT
<1> QED
  BY <1>2, <1>3 DEF IsSeq

\* A definition is put into the last table, a parameter into that below it.
LEMMA AfterDefining ==
    ASSUME Tabular(tables), NEW line, line.st \in Defining,
           NEW p, p = PutIn(line), p \in 1..Len(tables), NEW u, u = TablesAfter(line)
    PROVE  /\ Tabular(u) /\ Len(u) = Len(tables)
           /\ \A i \in 1..Len(tables) : u[i].at = tables[i].at /\ u[i].loop = tables[i].loop
           /\ \A i \in 1..Len(tables) : i # p => u[i].var = tables[i].var
           /\ DOMAIN u[p].var = DOMAIN tables[p].var \cup {line.name}
           /\ u[p].var[line.name] = Len(defs) + 1
           /\ \A x \in DOMAIN tables[p].var :
                 x # line.name => u[p].var[x] = tables[p].var[x]
<1> DEFINE m == Len(tables)
           f == [x \in DOMAIN tables[p].var \cup {line.name} |->
                    IF x = line.name THEN Len(defs) + 1 ELSE tables[p].var[x]]
           e == [var |-> f, loop |-> tables[p].loop, at |-> tables[p].at]
           T == {tables[i] : i \in DOMAIN tables} \cup {e}
<1>0. /\ m \in Nat /\ DOMAIN tables = 1..m
      /\ tables \in Seq({tables[i] : i \in DOMAIN tables})
      /\ \A i \in 1..m : tables[i] = [var |-> tables[i].var, loop |-> tables[i].loop, at |-> tables[i].at]
  <2>1. \A i \in DOMAIN tables : tables[i] = [var |-> tables[i].var, loop |-> tables[i].loop, at |-> tables[i].at]
    BY DEF Tabular
  <2> QED
    BY <2>1, TabularIs
<1>1. u = [tables EXCEPT ![p].var = f]
  <2>1. u = Put(line)
    BY TablesAfterIs
  <2>2. Put(line) = [tables EXCEPT ![p].var = f]
    BY DEF Put
  <2> QED
    BY <2>1, <2>2
<1>2. u = [tables EXCEPT ![p] = [tables[p] EXCEPT !.var = f]]
  BY <1>1
<1>3. tables[p] = [var |-> tables[p].var, loop |-> tables[p].loop, at |-> tables[p].at]
  BY <1>0
<1> HIDE DEF f
<1>4. [tables[p] EXCEPT !.var = f] = e
  BY <1>3
<1>5. u = [tables EXCEPT ![p] = e]
  BY <1>2, <1>4
<1>6. \A i \in 1..m : tables[i] \in T
  BY <1>0
<1>7. tables \in Seq(T) /\ e \in T
  <2> HIDE DEF T
  <2>1. tables \in Seq(T)
    BY <1>0, <1>6
  <2> QED
    BY <2>1 DEF T
<1>8. \A a \in T : a = [var |-> a.var, loop |-> a.loop, at |-> a.at]
  <2>1. \A a \in {tables[i] : i \in DOMAIN tables} : a = [var |-> a.var, loop |-> a.loop, at |-> a.at]
    BY <1>0
  <2>2. e = [var |-> e.var, loop |-> e.loop, at |-> e.at]
    OBVIOUS
  <2> HIDE DEF e
  <2> QED
    BY <2>1, <2>2
<1>9. u \in Seq(T) /\ Len(u) = m /\ DOMAIN u = 1..m /\ u[p] = e
      /\ \A i \in 1..m : i # p => u[i] = tables[i]
  <2> HIDE DEF T, e
  <2>1. u \in [1..m -> T]
    <3>1. tables \in [1..m -> T]
      BY <1>0, <1>6, <1>7
    <3> QED
      BY <1>5, <1>7, <3>1
  <2>2. u \in Seq(T) /\ Len(u) = m
    BY <1>0, <2>1
  <2> QED
    BY <1>0, <1>5, <2>1, <2>2
<1>10. Tabular(u)
  <2> HIDE DEF T, e
  <2>1. \A i \in DOMAIN u : u[i] \in T
    BY <1>9
  <2>2. IsSeq(u)
    BY <1>9, <2>1 DEF IsSeq
  <2> QED
    BY <1>8, <2>1, <2>2 DEF Tabular
<1>11. e.var = f /\ e.loop = tables[p].loop /\ e.at = tables[p].at
  OBVIOUS
<1>12. /\ DOMAIN f = DOMAIN tables[p].var \cup {line.name} /\ f[line.name] = Len(defs) + 1
       /\ \A x \in DOMAIN tables[p].var : x # line.name => f[x] = tables[p].var[x]
  BY DEF f
<1> HIDE DEF e, T
<1> QED
  BY <1>9, <1>10, <1>11, <1>12

\* What visiting a line makes of it.
LEMMA ResolvedHas ==
    ASSUME NEW line \in Lines
    PROVE  LET r == Resolved(line)
           IN  /\ r.st = line.st /\ r.name = line.name /\ r.size = line.size
               /\ r.lhs = ResolveAll(line.lhs) /\ r.exps = ResolveAll(line.exps)
               /\ r.def = (IF line.st \in Defining THEN Len(defs) + 1 ELSE 0)
               /\ r.loop = (IF line.st \in {"break", "continue"} THEN EnclosingLoop ELSE 0)
<1>1. line = Line(line.st, line.name, line.size, line.lhs, line.exps)
  BY LinesAssumption
<1> QED
  BY <1>1, SMT DEF Resolved, Line

\* the tables of a state match its text
TablesMatch ==
    /\ IsSeq(text)
    /\ Tabular(tables)
    /\ Good(text, Len(text), tables)

\* Depths of the tables.
LEMMA TopIsDeepest ==
    ASSUME NEW s, NEW n \in Nat, NEW t, Blocks(s, n, t)
    PROVE  \A i \in 1..Len(t) : D(s, t[i].at) <= D(s, n) /\ D(s, n) \in Nat /\ D(s, t[i].at) \in Nat
<1> SUFFICES ASSUME NEW i \in 1..Len(t)
             PROVE  D(s, t[i].at) <= D(s, n) /\ D(s, n) \in Nat /\ D(s, t[i].at) \in Nat
  OBVIOUS
<1>1. t[i].at \in 0..n /\ n \in 0..n /\ n \in (t[i].at)..n
  BY DEF Blocks
<1>2. D(s, t[i].at) \in Nat /\ D(s, n) \in Nat
  BY <1>1 DEF Blocks
<1>3. D(s, n) >= D(s, t[i].at)
  BY <1>1, Levels
<1> QED
  BY <1>2, <1>3

\* However a line is visited, the tables are those of the blocks around.
LEMMA VisitTables ==
    ASSUME TablesMatch, NEW line \in Lines, Visit(line)
    PROVE  TablesMatch'
<1> DEFINE r == Resolved(line)
           s == text'
           n == Len(text)
           t == tables
           u == tables'
           m == Len(tables)
<1>1. /\ r.st = line.st /\ r.name = line.name
      /\ line.st \in Defining => r.def = Len(defs) + 1
  BY ResolvedHas
<1>2. /\ Accepted(line, r) /\ Placeable(line)
      /\ s = Append(text, r) /\ u = TablesAfter(line)
  BY DEF Visit
<1> HIDE DEF r
<1>3. /\ IsSeq(s) /\ Len(s) = n + 1 /\ n \in Nat
      /\ \A k \in 1..n : s[k] = text[k]
      /\ s[n + 1] = r
  BY <1>2, Appended DEF TablesMatch
<1>4. Tabular(t) /\ m \in Nat /\ Good(text, n, t)
  BY TabularIs DEF TablesMatch
<1> HIDE DEF s, n, t, u
<1>5. Good(s, n, t)
  BY <1>3, <1>4, GoodSame
<1>6. Blocks(s, n, t) /\ Names(s, n, t) /\ Loops(s, t) /\ Function(s, n, t)
  BY <1>5 DEF Good
<1>7. /\ m # 0 /\ m >= 1 /\ t[1].at = 0
      /\ m # 1 => n > 0
      /\ m = 1 \/ (m >= 3 /\ t[2].at = t[3].at)
  <2>1. m # 0 /\ t[1].at = 0
    BY <1>6 DEF Blocks, t
  <2>2. ASSUME m # 1 PROVE n > 0
    <3>1. 2 \in 2..m /\ 2 \in 1..m
      <4>1. m \in Nat /\ m # 0 /\ m # 1
        BY <1>4, <2>1, <2>2
      <4> HIDE DEF m
      <4>2. m >= 2
        BY <4>1
      <4> QED
        BY <4>1, <4>2
    <3>2. t[2].at \in 0..n /\ t[2].at # 0
      BY <1>6, <3>1 DEF Blocks, t
    <3> QED
      BY <1>3, <3>2
  <2>3. m = 1 \/ (m >= 3 /\ t[2].at = t[3].at)
    BY <1>6 DEF Function, t
  <2> QED
    BY <1>4, <2>1, <2>2, <2>3
<1>8. /\ m = 1 => /\ s[n + 1].st \in {"def", "func"}
                  /\ \A k \in 1..n : s[k].st = "def"
      /\ m # 1 => /\ s[n + 1].st # "func"
                  /\ s[n + 1].st = "param" => n > 0 /\ s[n].st \in Opener
  <2>1. DOMAIN text = 1..n
    BY Appended DEF TablesMatch, n
  <2>2. n > 0 => n \in 1..n
    BY <1>3
  <2> QED
    BY <1>1, <1>2, <1>3, <1>7, <2>1, <2>2 DEF Placeable, Opener, n
<1>9. \A i \in 1..m : D(s, t[i].at) <= D(s, n) /\ D(s, n) \in Nat /\ D(s, t[i].at) \in Nat
  BY <1>3, <1>6, TopIsDeepest DEF t
<1>10. CASE line.st \in Opening
  <2> DEFINE e == IF line.st \in {"open", "if"} THEN 1 ELSE 2
             l == IF line.st = "while" THEN n + 1 ELSE 0
  <2>1. /\ Tabular(u) /\ Len(u) = m + e
        /\ \A i \in 1..m : u[i] = t[i]
        /\ u[m + 1] = Table(l, n + 1)
        /\ e = 2 => u[m + 2] = Table(0, n + 1)
    BY <1>2, <1>3, <1>4, <1>10, AfterOpening DEF t, n
  <2>2. e \in {1, 2} /\ (s[n + 1].st = "func" => e = 2) /\ (s[n + 1].st = "while" => e = 2)
    BY <1>1, <1>3
  <2>3. s[n + 1].st \in Opening /\ l = (IF s[n + 1].st = "while" THEN n + 1 ELSE 0)
    BY <1>1, <1>3, <1>10
  <2> HIDE DEF e, l
  <2>4. \A i \in (m + 1)..(m + e) : u[i] = Table(l, n + 1) \/ u[i] = Table(0, n + 1)
    <3>1. \A i \in (m + 1)..(m + e) : i = m + 1 \/ (e = 2 /\ i = m + 2)
      BY <1>4, <2>2
    <3> QED
      BY <2>1, <3>1
  <2>5. \A i \in (m + 1)..(m + e) : u[i].at = n + 1 /\ DOMAIN u[i].var = {}
    BY <2>4 DEF Table
  <2>6. Len(u) = Len(t) + e /\ \A i \in 1..Len(t) : u[i] = t[i] /\ u[i].at = t[i].at
    BY <2>1 DEF t
  <2>7. \A i \in (Len(t) + 1)..(Len(t) + e) : u[i].at = n + 1
    BY <2>5 DEF t
  <2>8. Blocks(s, n + 1, u)
    BY <1>3, <1>6, <2>2, <2>3, <2>6, <2>7, BlocksPush
  <2>9. Loops(s, u)
    <3>1. u[Len(t) + 1].loop = (IF s[n + 1].st = "while" THEN n + 1 ELSE 0)
      BY <2>1, <2>3 DEF t, Table
    <3>2. e = 2 => u[Len(t) + 2].loop = 0
      BY <2>1 DEF t, Table
    <3> QED
      BY <1>3, <1>6, <2>2, <2>6, <2>7, <3>1, <3>2, LoopsPush
  <2>10. Names(s, n + 1, u)
    <3>1. s[n + 1].st \notin Defining /\ D(s, n + 1) = D(s, n) + 1
      <4>1. s[n + 1].st \notin Defining
        BY <2>3 DEF Opening, Defining
      <4> QED
        BY <1>3, <2>3, <4>1, DepthSteps
    <3>2. m \in 1..m
      BY <1>4, <1>7
    <3>3. D(s, n) \in Nat /\ D(s, n + 1) \in Nat /\ \A i \in 1..m : D(s, t[i].at) <= D(s, n + 1)
      BY <1>9, <3>1, <3>2
    <3>4. Len(u) \in Nat /\ m <= Len(u) /\ Len(u) = m + e
      BY <1>4, <2>1, <2>2
    <3>5. \A i \in (m + 1)..Len(t) : D(s, t[i].at) > D(s, n + 1)
      BY <1>4 DEF t
    <3>6. Len(t) = m
      BY DEF t
    <3> QED
      BY <1>3, <1>6, <2>1, <2>5, <3>1, <3>2, <3>3, <3>4, <3>5, <3>6, NamesKept
  <2>11. Function(s, n + 1, u)
    <3>1. Len(u) = 1 \/ (Len(u) >= 3 /\ u[2].at = u[3].at)
      <4>1. CASE m = 1
        <5>1. e = 2
          BY <1>8, <2>2, <2>3, <4>1 DEF Opening
        <5>2. 2 \in (m + 1)..(m + e) /\ 3 \in (m + 1)..(m + e) /\ m + e = 3
          BY <4>1, <5>1
        <5> QED
          BY <2>1, <2>5, <5>2
      <4>2. CASE m # 1
        <5>1. 2 \in 1..m /\ 3 \in 1..m /\ m + e >= 3
          BY <1>4, <1>7, <2>2, <4>2
        <5> QED
          BY <1>7, <2>1, <4>2, <5>1
      <4> QED
        BY <4>1, <4>2
    <3>2. s[n + 1].st = "func" => Len(u) = Len(t) + 2
      BY <2>2, <2>6
    <3>3. s[n + 1].st # "param"
      BY <2>3 DEF Opening
    <3> QED
      BY <1>3, <1>6, <1>8, <3>1, <3>2, <3>3, FunctionStep DEF t
  <2> QED
    BY <1>3, <2>1, <2>8, <2>9, <2>10, <2>11 DEF TablesMatch, Good, s, u, n
<1>11. CASE line.st = "close"
  <2>1. m # 1 /\ m >= 3
    <3>1. m # 1
      BY <1>1, <1>3, <1>8, <1>11
    <3> QED
      BY <1>7, <3>1
  <2>2. Tabular(u) /\ Popped(t, u)
    BY <1>2, <1>3, <1>4, <1>6, <1>11, <2>1, AfterClosing DEF t
  <2>3. s[n + 1].st = "close"
    BY <1>1, <1>3, <1>11
  <2>4. Blocks(s, n + 1, u)
    BY <1>3, <1>6, <2>2, <2>3, BlocksPop
  <2>5. /\ Len(u) \in 1..(m - 1) /\ \A i \in 1..Len(u) : u[i] = t[i]
        /\ \A i \in (Len(u) + 1)..m : t[i].at = t[m].at
        /\ t[Len(u)].at # t[m].at
    BY <2>2 DEF Popped, t
  <2>6. Loops(s, u)
    <3>1. Len(u) \in Nat /\ Len(u) <= Len(t) /\ Len(t) \in Nat
      BY <1>4, <2>5 DEF t
    <3> QED
      BY <1>6, <2>5, <3>1, LoopsKept
  <2>7. Names(s, n + 1, u)
    <3>1. s[n + 1].st \notin Defining
      BY <2>3 DEF Defining
    <3>2. /\ D(s, n + 1) \in Nat
          /\ \A i \in 1..Len(u) : D(s, t[i].at) <= D(s, n + 1)
          /\ \A i \in (Len(u) + 1)..Len(t) : D(s, t[i].at) > D(s, n + 1)
      BY <1>3, <1>6, <2>2, <2>3, PopDepth
    <3>3. Len(u) \in Nat /\ Len(u) \in 1..Len(t) /\ Len(u) <= Len(u)
      BY <1>4, <2>5 DEF t
    <3>4. \A i \in (Len(u) + 1)..Len(u) : u[i].at = n + 1 /\ DOMAIN u[i].var = {}
      BY <3>3
    <3> QED
      BY <1>3, <1>6, <2>5, <3>1, <3>2, <3>3, <3>4, NamesKept
  <2>8. Function(s, n + 1, u)
    <3>1. Len(u) = 1 \/ (Len(u) >= 3 /\ u[2].at = u[3].at)
      <4>1. Len(u) # 2
        <5> SUFFICES ASSUME Len(u) = 2 PROVE FALSE
          OBVIOUS
        <5>1. 3 \in (Len(u) + 1)..m
          BY <1>4, <2>1
        <5> QED
          BY <1>7, <2>1, <2>5, <5>1
      <4>2. Len(u) >= 3 => 2 \in 1..Len(u) /\ 3 \in 1..Len(u)
        BY <2>5
      <4>3. Len(u) \in Nat /\ Len(u) >= 1
        BY <1>4, <2>5
      <4>4. Len(u) = 1 \/ Len(u) >= 3
        <5> DEFINE c == Len(u)
        <5>1. c \in Nat /\ c >= 1 /\ c # 2
          BY <4>1, <4>3
        <5> HIDE DEF c
        <5>2. c = 1 \/ c >= 3
          BY <5>1
        <5> QED
          BY <5>2 DEF c
      <4>5. ASSUME Len(u) >= 3 PROVE u[2].at = u[3].at
        BY <1>7, <2>1, <2>5, <4>2, <4>5
      <4> QED
        BY <4>4, <4>5
    <3> QED
      BY <1>3, <1>6, <1>8, <2>3, <3>1, FunctionStep DEF t
  <2> QED
    BY <1>3, <2>2, <2>4, <2>6, <2>7, <2>8 DEF TablesMatch, Good, s, u, n
<1>12. CASE line.st \in Defining
  <2> DEFINE p == PutIn(line)
  <2>1. /\ p \in 1..m /\ t[p].at = t[m].at /\ (p = 2 \/ p = m)
        /\ line.st = "param" <=> p = 2
    <3>1. CASE line.st = "param"
      <4>1. m # 1 /\ n > 0 /\ s[n].st \in Opener
        BY <1>1, <1>3, <1>8, <3>1
      <4>2. m = 3
        BY <1>6, <4>1 DEF Function, t
      <4>3. p = 2
        BY <3>1, <4>2 DEF PutIn
      <4> QED
        BY <1>7, <3>1, <4>2, <4>3
    <3>2. CASE line.st # "param"
      <4>0. p = m
        BY <3>2 DEF PutIn
      <4>1. p = m /\ m \in 1..m /\ m # 2
        <5> HIDE DEF p, m
        <5> QED
          BY <1>4, <1>7, <4>0
      <4> QED
        BY <3>2, <4>1
    <3> QED
      BY <3>1, <3>2
  <2>2. line.name \notin DOMAIN t[p].var
    BY <1>1, <1>2, <1>12 DEF Accepted, PutIn, t
  <2> HIDE DEF p
  <2>3. /\ Tabular(u) /\ Len(u) = m
        /\ \A i \in 1..m : u[i].at = t[i].at /\ u[i].loop = t[i].loop
        /\ \A i \in 1..m : i # p => u[i].var = t[i].var
        /\ DOMAIN u[p].var = DOMAIN t[p].var \cup {line.name}
        /\ u[p].var[line.name] = Len(defs) + 1
        /\ \A x \in DOMAIN t[p].var : x # line.name => u[p].var[x] = t[p].var[x]
    BY <1>2, <1>4, <1>12, <2>1, AfterDefining DEF t, p
  <2>4. s[n + 1].st \in Defining /\ s[n + 1].st \notin Opening /\ s[n + 1].st # "close"
    BY <1>1, <1>3, <1>12 DEF Defining, Opening
  <2>5. Len(t) = m /\ Len(u) = Len(t) /\ \A i \in 1..Len(t) : u[i].at = t[i].at
    BY <2>3 DEF t
  <2>6. Blocks(s, n + 1, u)
    BY <1>3, <1>6, <2>4, <2>5, BlocksStay
  <2>7. Loops(s, u)
    BY <1>4, <1>6, <2>3, <2>5, LoopsKept
  <2>8. Names(s, n + 1, u)
    <3>1. s[n + 1].name = line.name /\ s[n + 1].def = Len(defs) + 1 /\ s[n + 1].st = line.st
      BY <1>1, <1>3, <1>12
    <3>2. \A x \in DOMAIN t[p].var : u[p].var[x] = t[p].var[x]
      BY <2>2, <2>3
    <3>3. /\ p \in 1..Len(t) /\ t[p].at = t[Len(t)].at /\ (p = 2 \/ p = Len(t))
          /\ s[n + 1].st = "param" <=> p = 2
          /\ s[n + 1].name \notin DOMAIN t[p].var
      BY <2>1, <2>2, <2>5, <3>1
    <3>4. \A i \in 1..Len(t) : i # p => u[i].var = t[i].var
      BY <2>3, <2>5
    <3>5. /\ DOMAIN u[p].var = DOMAIN t[p].var \cup {s[n + 1].name}
          /\ u[p].var[s[n + 1].name] = s[n + 1].def
      BY <2>3, <3>1
    <3>6. Blocks(s, n, t) /\ Names(s, n, t) /\ s[n + 1].st \in Defining /\ n \in Nat
      BY <1>3, <1>6, <2>4
    <3> QED
      BY <2>5, <3>2, <3>3, <3>4, <3>5, <3>6, NamesPut
  <2>9. Function(s, n + 1, u)
    <3>1. Len(u) = 1 \/ (Len(u) >= 3 /\ u[2].at = u[3].at)
      <4>1. m >= 3 => 2 \in 1..m /\ 3 \in 1..m
        BY <1>4
      <4> QED
        BY <1>7, <2>3, <4>1
    <3>2. s[n + 1].st # "func"
      BY <2>4 DEF Defining
    <3> QED
      BY <1>3, <1>6, <1>8, <2>3, <3>1, <3>2, FunctionStep DEF t
  <2> QED
    BY <1>3, <2>3, <2>6, <2>7, <2>8, <2>9 DEF TablesMatch, Good, s, u, n
<1>13. CASE line.st \notin Opening \cup Defining \cup {"close"}
  <2>1. u = t
    BY <1>2, <1>13, TablesAfterIs DEF t
  <2>2. s[n + 1].st \notin Opening /\ s[n + 1].st # "close" /\ s[n + 1].st \notin Defining
    BY <1>1, <1>3, <1>13
  <2>3. Blocks(s, n + 1, t)
    BY <1>3, <1>6, <2>2, BlocksStay
  <2>4. Names(s, n + 1, t)
    <3>1. D(s, n + 1) = D(s, n) + 0
      BY <1>3, <2>2, DepthSteps
    <3>2. m \in 1..m /\ Len(t) = m
      BY <1>4, <1>7 DEF t
    <3>3. D(s, n + 1) \in Nat /\ \A i \in 1..m : D(s, t[i].at) <= D(s, n + 1)
      BY <1>9, <3>1, <3>2
    <3>4. /\ \A i \in (m + 1)..Len(t) : D(s, t[i].at) > D(s, n + 1)
          /\ \A i \in (m + 1)..Len(t) : t[i].at = n + 1 /\ DOMAIN t[i].var = {}
      BY <1>4, <3>2
    <3>5. /\ m \in 1..Len(t) /\ Len(t) \in Nat /\ m <= Len(t)
          /\ D(s, n + 1) \in Nat /\ s[n + 1].st \notin Defining /\ n \in Nat
          /\ Blocks(s, n, t) /\ Names(s, n, t)
          /\ \A i \in (m + 1)..Len(t) : t[i].at = n + 1 /\ DOMAIN t[i].var = {}
      <4>1. m <= m
        BY <1>4
      <4> QED
        BY <1>3, <1>4, <1>6, <2>2, <3>2, <3>3, <3>4, <4>1
    <3> HIDE DEF m
    <3> QED
      BY <3>3, <3>4, <3>5, NamesKept
  <2>5. Function(s, n + 1, t)
    <3>1. Len(t) = 1 \/ (Len(t) >= 3 /\ t[2].at = t[3].at)
      BY <1>7 DEF t
    <3>2. s[n + 1].st # "func" /\ s[n + 1].st # "param"
      BY <2>2 DEF Defining, Opening
    <3> QED
      BY <1>3, <1>6, <1>8, <3>1, <3>2, FunctionStep DEF t
  <2> QED
    BY <1>3, <1>4, <1>6, <2>1, <2>3, <2>4, <2>5 DEF TablesMatch, Good, s, u, n
<1> QED
  BY <1>10, <1>11, <1>12, <1>13

-------------------------------------------------------------------------------
(* Looking up.                                                              *)

\* what a name may stand for in line k, and the loops that line is in
Visible(s, k, x) ==
    {j \in 1..(k - 1) : s[j].st \in Defining /\ s[j].name = x /\ Enc(s, j, k)}

Around(s, k) == {j \in 1..(k - 1) : s[j].st = "while" /\ Enc(s, j, k)}

\* The innermost table that has a name has its last definition around.
LEMMA LookupIs ==
    ASSUME NEW s, NEW n \in Nat, Tabular(tables), Good(s, n, tables),
           NEW x, Lookup(x) # 0
    PROVE  /\ Visible(s, n + 1, x) # {}
           /\ Lookup(x) = s[Max(Visible(s, n + 1, x))].def
           /\ \A i, j \in Visible(s, n + 1, x) :
                 i # j /\ s[i].st = s[j].st => D(s, i) # D(s, j)
<1> DEFINE t == tables
           m == Len(tables)
           having == {i \in DOMAIN tables : x \in DOMAIN tables[i].var}
           h == Max(having)
           V == Visible(s, n + 1, x)
           M == Max(V)
<1>0. /\ Blocks(s, n, t) /\ Names(s, n, t) /\ Function(s, n, t)
      /\ m \in Nat /\ DOMAIN t = 1..m /\ (n + 1) - 1 = n
  BY TabularIs DEF Good
<1>1. V = {j \in 1..n : s[j].st \in Defining /\ s[j].name = x /\ Enc(s, j, n + 1)}
  BY <1>0 DEF Visible
<1>2. having # {} /\ Lookup(x) = t[h].var[x]
  BY DEF Lookup
<1>3. h \in having /\ \A i \in having : i <= h
  <2>1. having \in SUBSET (0..m)
    BY <1>0
  <2> HIDE DEF having
  <2> QED
    BY <1>0, <1>2, <2>1, MaxIs
<1>4. h \in 1..m /\ x \in DOMAIN t[h].var
  BY <1>0, <1>3
<1> HIDE DEF h, t, m
<1>5. PICK j \in 1..n : /\ s[j].st \in Defining /\ s[j].name = x
                        /\ s[j].def = t[h].var[x]
                        /\ In(s, n, t, j, h)
  BY <1>0, <1>4 DEF Names, Found, t, m
<1>6. j \in V
  BY <1>1, <1>5 DEF In
<1>7. V \in SUBSET (0..n) /\ V # {}
  BY <1>1, <1>6
<1>8. M \in V /\ \A k \in V : k <= M
  <2> HIDE DEF V
  <2> QED
    BY <1>7, MaxIs
<1> HIDE DEF M
<1>9. M \in 1..n /\ s[M].st \in Defining /\ s[M].name = x /\ Enc(s, M, n + 1) /\ j <= M
  BY <1>1, <1>6, <1>8
<1>10. PICK i \in 1..m : /\ x \in DOMAIN t[i].var
                         /\ t[i].var[x] = s[M].def
                         /\ In(s, n, t, M, i)
  BY <1>0, <1>9 DEF Names, Entered, t, m
<1>11. i <= h
  BY <1>0, <1>3, <1>10 DEF t
<1>12. /\ Enc(s, j, n + 1) /\ t[h].at < j /\ D(s, j) = D(s, t[h].at)
       /\ s[j].st = "param" <=> h = 2
  BY <1>5 DEF In
<1>13. /\ D(s, M) = D(s, t[i].at)
       /\ s[M].st = "param" <=> i = 2
       /\ i = 2 \/ \A k \in (i + 1)..m : t[k].at > t[i].at
  BY <1>10 DEF In, t, m
<1>14. /\ t[i].at \in 0..n /\ t[h].at \in 0..n /\ t[i].at <= t[h].at
       /\ D(s, t[i].at) \in Nat /\ D(s, t[h].at) \in Nat
  BY <1>0, <1>4, <1>10, <1>11 DEF Blocks, t, m
<1>15. ASSUME t[i].at < t[h].at PROVE FALSE
  <2>1. D(s, t[i].at) < D(s, t[h].at)
    BY <1>0, <1>4, <1>10, <1>15, Levels DEF t, m
  <2>2. M \in (t[h].at)..n
    BY <1>9, <1>12, <1>14
  <2>3. D(s, M) >= D(s, t[h].at)
    BY <1>0, <1>4, <2>2, Levels DEF t, m
  <2> QED
    BY <1>13, <1>14, <2>1, <2>3
<1>16. ASSUME i # h PROVE FALSE
  <2>1. t[i].at = t[h].at /\ h \in (i + 1)..m
    BY <1>4, <1>10, <1>11, <1>14, <1>15, <1>16
  <2>2. i = 2 /\ ~ (t[h].at > t[i].at)
    BY <1>13, <1>14, <2>1
  <2>3. s[M].st = "param" /\ s[j].st # "param" /\ j # M
    BY <1>12, <1>13, <1>16, <2>2
  <2>4. j \in 1..(M - 1)
    BY <1>9, <2>3
  <2>5. s[j].st \notin Opener
    BY <1>5, <2>3 DEF Opener, Defining
  <2>6. D(s, j) = 0
    BY <1>0, <1>9, <2>3, <2>4, <2>5 DEF Function
  <2>7. 2 \in 2..m /\ 1 \in 1..m /\ 2 \in 1..m
    BY <1>0, <1>10, <2>2 DEF m
  <2>8. t[1].at = 0 /\ t[2].at # 0 /\ t[2].at \in 0..n
    BY <1>0, <2>7 DEF Blocks, t, m
  <2>9. D(s, t[1].at) < D(s, t[2].at)
    <3>1. t[1].at < t[2].at
      BY <1>0, <2>8
    <3>2. \A a, b \in 1..m : t[a].at < t[b].at => D(s, t[a].at) < D(s, t[b].at)
      BY <1>0, Levels DEF t, m
    <3> HIDE DEF t
    <3> QED
      BY <2>7, <3>1, <3>2
  <2>10. D(s, t[1].at) \in Nat /\ D(s, t[2].at) \in Nat
    BY <1>0, <2>8 DEF Blocks
  <2>11. D(s, t[2].at) = 0
    BY <1>12, <2>1, <2>2, <2>6
  <2> QED
    BY <2>9, <2>10, <2>11
<1>17. Lookup(x) = s[M].def
  BY <1>2, <1>10, <1>16
<1>18. \A a, b \in V : a # b /\ s[a].st = s[b].st => D(s, a) # D(s, b)
  <2> SUFFICES ASSUME NEW a \in V, NEW b \in V, a # b, s[a].st = s[b].st
               PROVE  D(s, a) # D(s, b)
    OBVIOUS
  <2>1. /\ a \in 1..n /\ s[a].st \in Defining /\ s[a].name = x /\ Enc(s, a, n + 1)
        /\ b \in 1..n /\ s[b].st \in Defining /\ s[b].name = x /\ Enc(s, b, n + 1)
    BY <1>1
  <2> HIDE DEF V
  <2> QED
    BY <1>0, <2>1 DEF Names, NotTwice
<1> QED
  BY <1>7, <1>17, <1>18 DEF M

\* The last loop among the tables is the last one around.
LEMMA LoopIs ==
    ASSUME NEW s, NEW n \in Nat, Tabular(tables), Good(s, n, tables),
           EnclosingLoop # 0
    PROVE  Around(s, n + 1) # {} /\ EnclosingLoop = Max(Around(s, n + 1))
<1> DEFINE t == tables
           m == Len(tables)
           L == {tables[i].loop : i \in DOMAIN tables}
           A == Around(s, n + 1)
<1>0. /\ Blocks(s, n, t) /\ Loops(s, t)
      /\ m \in Nat /\ DOMAIN t = 1..m /\ (n + 1) - 1 = n /\ m # 0
  <2>1. /\ Blocks(s, n, t) /\ Loops(s, t) /\ m \in Nat /\ DOMAIN t = 1..m
    BY TabularIs DEF Good
  <2>2. (n + 1) - 1 = n
    OBVIOUS
  <2> QED
    BY <2>1, <2>2 DEF Blocks
<1>1. A = {j \in 1..n : s[j].st = "while" /\ Enc(s, j, n + 1)}
  BY <1>0 DEF Around
<1> HIDE DEF m, A
<1>2. \A i \in 1..m : t[i].loop \in A \cup {0}
  <2> SUFFICES ASSUME NEW i \in 1..m, t[i].loop # 0 PROVE t[i].loop \in A
    OBVIOUS
  <2>1. i > 1 /\ s[t[i].at].st = "while" /\ t[i].loop = t[i].at
    BY <1>0 DEF Loops, m
  <2>2. i \in 2..m
    BY <1>0, <2>1
  <2>3. t[i].at \in 0..n /\ t[i].at # 0 /\ Enc(s, t[i].at, n + 1)
    BY <1>0, <2>2 DEF Blocks, m
  <2> QED
    BY <1>1, <2>1, <2>3
<1>3. \A j \in A : \E i \in 1..m : t[i].loop = j
  <2> SUFFICES ASSUME NEW j \in A PROVE \E i \in 1..m : t[i].loop = j
    OBVIOUS
  <2>1. j \in 1..n /\ s[j].st = "while" /\ Enc(s, j, n + 1)
    BY <1>1
  <2> DEFINE I == {i \in 1..m : t[i].at = j}
  <2>2. I # {}
    <3>1. s[j].st \in Opening
      BY <2>1 DEF Opening
    <3> QED
      BY <1>0, <2>1, <3>1 DEF Blocks, m
  <2>3. I \in SUBSET Nat
    OBVIOUS
  <2> HIDE DEF I
  <2>4. PICK i \in I : \A k \in I : i <= k
    BY <2>2, <2>3, LeastExists
  <2>5. i \in 1..m /\ t[i].at = j
    BY DEF I
  <2>6. i # 1
    <3>1. t[1].at = 0
      BY <1>0 DEF Blocks
    <3> QED
      BY <2>1, <2>5, <3>1
  <2>7. t[i - 1].at # t[i].at
    <3>1. i - 1 \in 1..m /\ ~ (i <= i - 1)
      BY <1>0, <2>5, <2>6
    <3>2. i - 1 \notin I
      BY <2>4, <3>1
    <3> QED
      BY <2>5, <3>1, <3>2 DEF I
  <2>8. i > 1
    BY <2>5, <2>6
  <2>9. t[i].loop = j
    BY <1>0, <2>1, <2>5, <2>7, <2>8 DEF Loops, m
  <2> QED
    BY <2>5, <2>9
<1>4. L = {t[i].loop : i \in 1..m}
  BY <1>0 DEF m
<1>5. L \in SUBSET (0..n) /\ L # {}
  <2>1. A \in SUBSET (0..n)
    BY <1>1
  <2>2. 1 \in 1..m
    BY <1>0
  <2> QED
    <3>1. \A i \in 1..m : t[i].loop \in 0..n
      <4>1. 0 \in 0..n
        OBVIOUS
      <4>2. \A a \in A \cup {0} : a \in 0..n
        BY <2>1, <4>1
      <4> QED
        BY <1>2, <4>2
    <3> QED
      BY <1>4, <2>2, <3>1
<1>6. EnclosingLoop = Max(L)
  BY DEF EnclosingLoop
<1>7. A \subseteq L /\ L \subseteq A \cup {0}
  BY <1>2, <1>3, <1>4
<1> HIDE DEF L
<1>8. Max(L) \in L /\ \A y \in L : y <= Max(L)
  BY <1>5, MaxIs
<1>9. Max(L) \in A /\ \A y \in A : y <= Max(L)
  BY <1>6, <1>7, <1>8
<1>10. A \in SUBSET (0..n) /\ A # {}
  BY <1>1, <1>9
<1>11. Max(A) \in A /\ \A y \in A : y <= Max(A)
  BY <1>10, MaxIs
<1>12. Max(A) <= Max(L) /\ Max(L) <= Max(A) /\ Max(A) \in 0..n /\ Max(L) \in 0..n
  BY <1>9, <1>10, <1>11
<1> QED
  BY <1>6, <1>10, <1>12 DEF A

\* What looking up makes of an expression: each of its variables has got its
\* definition, and its shape stays.
LEMMA ResolveIs ==
    ASSUME NEW e, IsExp(e)
    PROVE  /\ Resolve(e).op = e.op
           /\ e.op # "lval" => Resolve(e) = e
           /\ e.op = "lval" =>
                /\ Resolve(e).name = e.name /\ Resolve(e).def = Lookup(e.name)
                /\ DOMAIN Resolve(e).idx = DOMAIN e.idx
                /\ e.idx = <<>> => Resolve(e).idx = <<>>
                /\ e.idx # <<>> => Resolve(e).idx = <<Resolve(e).idx[1]>>
                /\ \A i \in DOMAIN e.idx :
                     LET a == Resolve(e).idx[i]
                     IN  /\ i = 1
                         /\ \/ a.op = "lit" /\ a.n \in Val
                            \/ a.op = "lval" /\ a.idx = <<>> /\ a.def = Lookup(a.name)
<1>1. CASE e.op # "lval"
  BY <1>1 DEF Resolve
<1>2. CASE e.op = "lval"
  <2>1. /\ e = [op |-> "lval", name |-> e.name, idx |-> e.idx, def |-> 0]
        /\ e.idx # <<>> => e.idx = <<e.idx[1]>> /\ IsIndex(e.idx[1])
    <3>1. e # GetInt
      BY <1>2 DEF GetInt
    <3> QED
      BY <1>2, <3>1 DEF IsExp, LVal
  <2> DEFINE f == [op |-> "lval", name |-> e.name, idx |-> e.idx, def |-> Lookup(e.name)]
             ix == [i \in DOMAIN e.idx |-> ResolveName(e.idx[i])]
             g == [op |-> "lval", name |-> e.name, idx |-> ix, def |-> Lookup(e.name)]
  <2>2. ResolveName(e) = f
    BY <1>2, <2>1 DEF ResolveName
  <2>3. Resolve(e) = [f EXCEPT !.idx = ix]
    BY <1>2, <2>2 DEF Resolve
  <2> HIDE DEF ix
  <2>4. Resolve(e) = g
    BY <2>3
  <2>5. /\ Resolve(e).op = "lval" /\ Resolve(e).name = e.name
        /\ Resolve(e).idx = ix /\ Resolve(e).def = Lookup(e.name)
    BY <2>4
  <2>6. DOMAIN ix = DOMAIN e.idx /\ \A i \in DOMAIN e.idx : ix[i] = ResolveName(e.idx[i])
    BY DEF ix
  <2>7. ASSUME e.idx # <<>>
        PROVE  DOMAIN e.idx = {1} /\ IsIndex(e.idx[1])
    <3> DEFINE a == e.idx[1]
    <3>1. e.idx = <<a>> /\ IsIndex(a)
      BY <2>1, <2>7
    <3> HIDE DEF a
    <3>2. DOMAIN e.idx = {1}
      BY <3>1
    <3> QED
      BY <3>1, <3>2 DEF a
  <2>8. ASSUME e.idx = <<>> PROVE ix = <<>> /\ DOMAIN e.idx = {}
    <3>1. DOMAIN e.idx = {}
      BY <2>8
    <3> QED
      BY <3>1 DEF ix
  <2>9. ASSUME e.idx # <<>> PROVE ix = <<ix[1]>>
    <3>1. DOMAIN ix = 1..1 /\ ix = [i \in DOMAIN ix |-> ix[i]]
      <4>1. DOMAIN ix = 1..1
        BY <2>6, <2>7, <2>9
      <4> QED
        BY <4>1 DEF ix
    <3> DEFINE b == ix[1]
    <3>2. ix \in Seq({b}) /\ Len(ix) = 1
      BY <3>1
    <3> HIDE DEF b
    <3>3. ix = <<b>>
      BY <3>1, <3>2 DEF b
    <3> QED
      BY <3>3 DEF b
  <2>10. ASSUME NEW a, IsIndex(a)
         PROVE  LET b == ResolveName(a) IN
                \/ b.op = "lit" /\ b.n \in Val
                \/ b.op = "lval" /\ b.idx = <<>> /\ b.def = Lookup(b.name)
    <3>1. CASE a.op = "lit" /\ a.n \in Val
      BY <3>1 DEF ResolveName
    <3>2. CASE a.op = "lval" /\ a = Scalar(a.name)
      <4>1. a = [op |-> "lval", name |-> a.name, idx |-> <<>>, def |-> 0]
        BY <3>2 DEF Scalar, LVal
      <4>2. ResolveName(a) = [op |-> "lval", name |-> a.name, idx |-> <<>>, def |-> Lookup(a.name)]
        BY <3>2, <4>1 DEF ResolveName
      <4> QED
        BY <4>2
    <3> QED
      BY <2>10, <3>1, <3>2 DEF IsIndex
  <2>11. \A i \in DOMAIN e.idx :
           LET a == ix[i]
           IN  /\ i = 1
               /\ \/ a.op = "lit" /\ a.n \in Val
                  \/ a.op = "lval" /\ a.idx = <<>> /\ a.def = Lookup(a.name)
    <3> SUFFICES ASSUME NEW i \in DOMAIN e.idx
                 PROVE  /\ i = 1
                        /\ \/ ix[i].op = "lit" /\ ix[i].n \in Val
                           \/ /\ ix[i].op = "lval" /\ ix[i].idx = <<>>
                              /\ ix[i].def = Lookup(ix[i].name)
      OBVIOUS
    <3>1. e.idx # <<>>
      BY <2>8
    <3>2. i = 1 /\ ix[i] = ResolveName(e.idx[1]) /\ IsIndex(e.idx[1])
      BY <2>6, <2>7, <3>1
    <3> QED
      BY <2>10, <3>2
  <2> QED
    BY <1>2, <2>5, <2>6, <2>8, <2>9, <2>11
<1> QED
  BY <1>1, <1>2

\* What has been found out about line k.
Bound(s, k) ==
    /\ \A l \in LValsOf(s[k].lhs) \cup LValsOf(s[k].exps) :
          /\ Visible(s, k, l.name) # {}
          /\ l.def = s[Max(Visible(s, k, l.name))].def
          /\ \A i, j \in Visible(s, k, l.name) :
                i # j /\ s[i].st = s[j].st => D(s, i) # D(s, j)
    /\ s[k].st \in {"break", "continue"} =>
          Around(s, k) # {} /\ s[k].loop = Max(Around(s, k))

\* What has been found out about a line stays, as the text grows.
LEMMA BoundSame ==
    ASSUME NEW s, NEW r, NEW n \in Nat, \A k \in 1..n : r[k] = s[k],
           NEW k \in 1..n, Bound(s, k)
    PROVE  Bound(r, k)
<1>1. /\ \A j \in 0..n : D(r, j) = D(s, j)
      /\ \A j \in 1..n : Enc(r, j, k) <=> Enc(s, j, k)
  <2>1. k \in 1..(n + 1)
    OBVIOUS
  <2> QED
    BY <2>1, DepthSame
<1>2. \A j \in 1..(k - 1) : j \in 1..n /\ j \in 0..n /\ r[j] = s[j]
  OBVIOUS
<1>3. \A x : Visible(r, k, x) = Visible(s, k, x)
  BY <1>1, <1>2 DEF Visible
<1>4. Around(r, k) = Around(s, k)
  BY <1>1, <1>2 DEF Around
<1>5. r[k] = s[k]
  OBVIOUS
<1>6. \A x : \A j \in Visible(s, k, x) : r[j] = s[j] /\ D(r, j) = D(s, j)
  BY <1>1, <1>2 DEF Visible
<1>7. ASSUME NEW l \in LValsOf(s[k].lhs) \cup LValsOf(s[k].exps)
      PROVE  /\ Visible(r, k, l.name) # {}
             /\ l.def = r[Max(Visible(r, k, l.name))].def
             /\ \A i, j \in Visible(r, k, l.name) :
                   i # j /\ r[i].st = r[j].st => D(r, i) # D(r, j)
  <2> DEFINE V == Visible(s, k, l.name)
  <2>1. /\ V # {} /\ l.def = s[Max(V)].def
        /\ \A i, j \in V : i # j /\ s[i].st = s[j].st => D(s, i) # D(s, j)
    BY DEF Bound
  <2>2. V \in SUBSET (0..n)
    BY <1>2 DEF Visible
  <2>3. Visible(r, k, l.name) = V /\ \A j \in V : r[j] = s[j] /\ D(r, j) = D(s, j)
    BY <1>3, <1>6
  <2> HIDE DEF V
  <2>4. Max(V) \in V
    BY <2>1, <2>2, MaxIs
  <2> QED
    BY <2>1, <2>3, <2>4
<1> QED
  BY <1>4, <1>5, <1>7 DEF Bound

\* Visiting a line binds what it mentions.
LEMMA VisitBinds ==
    ASSUME TablesMatch, IsSeq(defs), NEW line \in Lines, Visit(line)
    PROVE  Bound(text', Len(text) + 1)
<1> DEFINE r == Resolved(line)
           s == text'
           n == Len(text)
<1>1. /\ r.st = line.st
      /\ r.lhs = ResolveAll(line.lhs) /\ r.exps = ResolveAll(line.exps)
      /\ r.loop = (IF line.st \in {"break", "continue"} THEN EnclosingLoop ELSE 0)
  BY ResolvedHas
<1>2. Accepted(line, r) /\ s = Append(text, r)
  BY DEF Visit
<1> HIDE DEF r
<1>3. /\ n \in Nat /\ (\A k \in 1..n : s[k] = text[k]) /\ s[n + 1] = r
      /\ DOMAIN defs = 1..Len(defs)
  BY <1>2, Appended DEF TablesMatch
<1> HIDE DEF s, n
<1>4. Tabular(tables) /\ Good(s, n, tables)
  BY <1>3, GoodSame DEF TablesMatch, n
<1>5. ASSUME NEW e, IsExp(e), NEW d, Fits(Resolve(e), d), NEW l \in LVals(Resolve(e))
      PROVE  l.def = Lookup(l.name) /\ l.def # 0
  <2> DEFINE f == Resolve(e)
  <2>1. e.op = "lval" /\ f.op = "lval"
    BY <1>5, ResolveIs DEF LVals
  <2>2. /\ f.name = e.name /\ f.def = Lookup(e.name) /\ DOMAIN f.idx = DOMAIN e.idx
        /\ \A i \in DOMAIN e.idx : f.idx[i].op = "lval" => f.idx[i].def = Lookup(f.idx[i].name)
    BY <1>5, <2>1, ResolveIs
  <2>3. f.def \in DOMAIN defs
        /\ \A i \in DOMAIN f.idx : f.idx[i].op = "lval" => f.idx[i].def \in DOMAIN defs
    BY <1>5, <2>1 DEF Fits
  <2>4. l = f \/ \E i \in DOMAIN f.idx : f.idx[i].op = "lval" /\ l = f.idx[i]
    BY <1>5, <2>1 DEF LVals
  <2> HIDE DEF f
  <2>5. l.def = Lookup(l.name) /\ l.def \in DOMAIN defs
    BY <2>2, <2>3, <2>4
  <2> QED
    BY <1>3, <2>5
<1>6. ASSUME NEW l \in LValsOf(r.lhs) \cup LValsOf(r.exps)
      PROVE  l.def = Lookup(l.name) /\ l.def # 0
  <2>1. CASE l \in LValsOf(r.lhs)
    <3>1. PICK i \in DOMAIN r.lhs : l \in LVals(r.lhs[i])
      BY <2>1 DEF LValsOf
    <3>2. i \in DOMAIN line.lhs /\ r.lhs[i] = Resolve(line.lhs[i])
      BY <1>1 DEF ResolveAll
    <3>3. IsExp(line.lhs[i])
      <4>1. line.lhs # <<>>
        BY <3>2
      <4> QED
        BY <3>2, <4>1, LinesAssumption
    <3>4. Fits(r.lhs[i], 0)
      BY <1>2 DEF Accepted
    <3> QED
      BY <1>5, <3>1, <3>2, <3>3, <3>4
  <2>2. CASE l \in LValsOf(r.exps)
    <3>1. PICK i \in DOMAIN r.exps : l \in LVals(r.exps[i])
      BY <2>2 DEF LValsOf
    <3>2. i \in DOMAIN line.exps /\ r.exps[i] = Resolve(line.exps[i])
      BY <1>1 DEF ResolveAll
    <3>3. IsExp(line.exps[i])
      BY <3>2, LinesAssumption
    <3>4. PICK d : Fits(r.exps[i], d)
      BY <1>2 DEF Accepted
    <3> QED
      BY <1>5, <3>1, <3>2, <3>3, <3>4
  <2> QED
    BY <2>1, <2>2
<1>7. ASSUME r.st \in {"break", "continue"}
      PROVE  Around(s, n + 1) # {} /\ r.loop = Max(Around(s, n + 1))
  <2>1. r.loop = EnclosingLoop /\ r.loop # 0
    BY <1>1, <1>2, <1>7 DEF Accepted
  <2> QED
    BY <1>3, <1>4, <2>1, LoopIs
<1>8. ASSUME NEW l \in LValsOf(r.lhs) \cup LValsOf(r.exps)
      PROVE  /\ Visible(s, n + 1, l.name) # {}
             /\ l.def = s[Max(Visible(s, n + 1, l.name))].def
             /\ \A i, j \in Visible(s, n + 1, l.name) :
                   i # j /\ s[i].st = s[j].st => D(s, i) # D(s, j)
  <2>1. l.def = Lookup(l.name) /\ Lookup(l.name) # 0
    BY <1>6
  <2> QED
    BY <1>3, <1>4, <2>1, LookupIs
<1>9. Bound(s, n + 1)
  BY <1>3, <1>7, <1>8 DEF Bound
<1> QED
  BY <1>9 DEF s, n

-------------------------------------------------------------------------------
(* Every line is bound.                                                     *)

\* every line of the text has been bound
AllBound ==
    /\ TablesMatch
    /\ IsSeq(defs)
    /\ \A k \in DOMAIN text : Bound(text, k)

\* Nothing is bound in the empty text.
LEMMA InitBound == Init => AllBound
<1> SUFFICES ASSUME Init PROVE AllBound
  OBVIOUS
<1> DEFINE g == Table(0, 0)
           t == <<g>>
<1>1. tables = t /\ text = <<>> /\ defs = <<>>
  BY DEF Init
<1>2. g = [var |-> <<>>, loop |-> 0, at |-> 0]
  BY DEF Table
<1>3. g = [var |-> g.var, loop |-> g.loop, at |-> g.at] /\ g.at = 0 /\ g.loop = 0 /\ DOMAIN g.var = {}
  BY <1>2
<1> HIDE DEF g
<1>4. Len(t) = 1 /\ DOMAIN t = {1} /\ t[1] = g /\ t \in Seq({g}) /\ {t[i] : i \in DOMAIN t} = {g}
  OBVIOUS
<1>5. Tabular(t)
  BY <1>3, <1>4 DEF Tabular, IsSeq
<1> HIDE DEF t
<1>6. D(text, 0) = 0
  BY DepthSteps
<1>7. \A i \in 1..Len(t) : i = 1 /\ t[i].at = 0
  BY <1>3, <1>4
<1>8. Blocks(text, 0, t)
  <2>1. \A k \in 0..0 : k = 0
    OBVIOUS
  <2>2. \A i \in 2..Len(t) : FALSE
    BY <1>4
  <2>3. \A i \in 1..(Len(t) - 1) : FALSE
    BY <1>4
  <2>4. \A j \in 1..0 : FALSE
    OBVIOUS
  <2>5. Len(t) \in Nat \ {0} /\ t[1].at = 0 /\ t[Len(t)].at = 0
    BY <1>3, <1>4
  <2>6. /\ \A i \in 1..Len(t) : t[i].at \in 0..0
        /\ \A i, h \in 1..Len(t) : i <= h => t[i].at <= t[h].at
    BY <1>7
  <2>7. \A k \in 0..0 : D(text, k) \in Nat
    BY <1>6, <2>1
  <2> QED
    BY <1>6, <2>2, <2>3, <2>4, <2>5, <2>6, <2>7 DEF Blocks
<1>9. Names(text, 0, t)
  <2>1. \A i \in 1..Len(t) : DOMAIN t[i].var = {}
    BY <1>3, <1>4, <1>7
  <2>2. \A j \in 1..0 : FALSE
    OBVIOUS
  <2> QED
    BY <2>1, <2>2 DEF Names, Found, Entered, NotTwice
<1>10. Loops(text, t)
  BY <1>3, <1>4, <1>7 DEF Loops
<1>11. Function(text, 0, t)
  <2>1. \A k \in 0..0 : k = 0
    OBVIOUS
  <2>2. \A j \in 1..0 : FALSE
    OBVIOUS
  <2> QED
    BY <1>4, <1>6, <2>1, <2>2 DEF Function
<1>12. Good(text, 0, t)
  BY <1>8, <1>9, <1>10, <1>11 DEF Good
<1>13. Len(text) = 0 /\ DOMAIN text = {} /\ IsSeq(text) /\ IsSeq(defs)
  BY <1>1 DEF IsSeq
<1> QED
  BY <1>1, <1>5, <1>12, <1>13 DEF AllBound, TablesMatch

\* Every line that is visited is, and the run changes no line.
LEMMA NextBound == AllBound /\ [Next]_vars => AllBound'
<1> SUFFICES ASSUME AllBound, [Next]_vars PROVE AllBound'
  OBVIOUS
<1>1. CASE UNCHANGED <<text, tables, defs>>
  BY <1>1 DEF AllBound, TablesMatch, Tabular, IsSeq
<1>2. ASSUME NEW line \in Lines, Visit(line)
      PROVE  AllBound'
  <2>1. TablesMatch'
    BY <1>2, VisitTables DEF AllBound
  <2>2. IsSeq(defs')
    <3>1. IsSeq(defs) /\ (defs' = defs \/ \E d : defs' = Append(defs, d))
      BY <1>2 DEF AllBound, Visit
    <3>2. CASE defs' = defs
      BY <3>1, <3>2
    <3>3. CASE \E d : defs' = Append(defs, d)
      BY <3>1, <3>3, Appended
    <3> QED
      BY <3>1, <3>2, <3>3
  <2>3. PICK r : text' = Append(text, r)
    BY <1>2 DEF Visit
  <2>4. /\ Len(text) \in Nat /\ DOMAIN text = 1..Len(text) /\ DOMAIN text' = 1..(Len(text) + 1)
        /\ \A k \in 1..Len(text) : text'[k] = text[k]
    BY <2>3, Appended DEF AllBound, TablesMatch
  <2>5. ASSUME NEW k \in 1..Len(text) PROVE Bound(text', k)
    <3>1. Bound(text, k)
      BY <2>4 DEF AllBound
    <3> QED
      BY <2>4, <3>1, BoundSame
  <2>6. Bound(text', Len(text) + 1)
    BY <1>2, VisitBinds DEF AllBound
  <2>7. \A k \in DOMAIN text' : k \in 1..Len(text) \/ k = Len(text) + 1
    BY <2>4
  <2>8. \A k \in DOMAIN text' : Bound(text', k)
    BY <2>5, <2>6, <2>7
  <2> QED
    BY <2>1, <2>2, <2>8 DEF AllBound
<1>3. CASE VisitNext
  BY <1>1, <1>2, <1>3 DEF VisitNext, Refuse, Complete, visitvars
<1>4. CASE RunNext
  <2>1. UNCHANGED visitvars
    BY <1>4 DEF RunNext, Stop, Step, RunDef, RunParam, RunAssign, RunGetArray,
                RunTest, RunJump, RunOn, GoTo
  <2> QED
    BY <1>1, <2>1 DEF visitvars
<1>5. CASE Over \/ UNCHANGED vars
  BY <1>1, <1>5 DEF Over, vars, visitvars
<1> QED
  BY <1>3, <1>4, <1>5 DEF Next

\* A name stands for its last definition in the blocks around, for every
\* program that is accepted, however deeply it is nested: StackedTable's maps,
\* pushed and popped, are the blocks of the text.
THEOREM NamesResolve == Spec => []ResolvesToInnermost
<1>1. AllBound => ResolvesToInnermost
  <2> SUFFICES ASSUME AllBound, NEW k \in DOMAIN text,
                      NEW l \in LValsOf(text[k].lhs) \cup LValsOf(text[k].exps)
               PROVE  LET visible == {j \in 1..(k - 1) : /\ text[j].st \in Defining
                                                         /\ text[j].name = l.name
                                                         /\ Encloses(j, k)}
                      IN  /\ visible # {} /\ l.def = text[Max(visible)].def
                          /\ \A i, j \in visible : i # j /\ text[i].st = text[j].st =>
                                Depth(i) # Depth(j)
    BY DEF ResolvesToInnermost
  <2>1. Bound(text, k)
    BY DEF AllBound
  <2>2. {j \in 1..(k - 1) : /\ text[j].st \in Defining
                            /\ text[j].name = l.name
                            /\ Encloses(j, k)} = Visible(text, k, l.name)
    BY DepthOf DEF Visible
  <2> QED
    BY <2>1, <2>2, DepthOf DEF Bound
<1> QED
  BY <1>1, InitBound, NextBound, PTL DEF Spec

\* A break or continue is bound to the innermost loop, for every program that
\* is accepted.
THEOREM JumpsResolve == Spec => []LeavesInnermostLoop
<1>1. AllBound => LeavesInnermostLoop
  <2> SUFFICES ASSUME AllBound, NEW k \in DOMAIN text, text[k].st \in {"break", "continue"}
               PROVE  LET around == {j \in 1..(k - 1) : text[j].st = "while" /\ Encloses(j, k)}
                      IN  around # {} /\ text[k].loop = Max(around)
    BY DEF LeavesInnermostLoop
  <2>1. Bound(text, k)
    BY DEF AllBound
  <2>2. {j \in 1..(k - 1) : text[j].st = "while" /\ Encloses(j, k)} = Around(text, k)
    BY DepthOf DEF Around
  <2> QED
    BY <2>1, <2>2 DEF Bound
<1> QED
  BY <1>1, InitBound, NextBound, PTL DEF Spec

-------------------------------------------------------------------------------
(* What accepted lines are like.                                            *)

\* What Fits has found out of an expression, once b definitions were made, and
\* what definitions and lines are like.
IndexFits(a, ds, b) ==
    \/ a.op = "lit" /\ a.n \in Val
    \/ a.op = "lval" /\ a.idx = <<>> /\ a.def \in 1..b /\ ds[a.def].size = 0

ExpFits(e, ds, b, dims) ==
    \/ e.op = "lit" /\ e.n \in Val
    \/ e.op = "getint"
    \/ /\ e.op = "lval" /\ e.def \in 1..b
       /\ \/ e.idx = <<>> /\ (dims = 1 <=> ds[e.def].size > 0)
          \/ /\ e.idx # <<>> /\ DOMAIN e.idx = {1}
             /\ ds[e.def].size > 0 /\ IndexFits(e.idx[1], ds, b)

DefFits(def) == def.size \in Nat /\ (def.size > 0 => Val \subseteq 0..(def.size - 1))

LineFits(l, ds) ==
    LET b    == IF l.st \in Defining THEN l.def - 1 ELSE Len(ds)
        dims == IF l.st = "getarray" THEN 1 ELSE 0
    IN  /\ IsSeq(l.exps)
        /\ \A i \in DOMAIN l.exps : ExpFits(l.exps[i], ds, b, dims)
        /\ \A i \in DOMAIN l.lhs : l.lhs[i].op = "lval" /\ ExpFits(l.lhs[i], ds, Len(ds), 0)
        /\ l.st = "assign" <=> DOMAIN l.lhs = {1}
        /\ l.st # "assign" => DOMAIN l.lhs = {}
        /\ l.st \in {"assign", "if", "while", "getarray"} => DOMAIN l.exps = {1}
        /\ l.st = "getarray" => l.exps[1].op = "lval"
        /\ l.st \in Defining => l.def \in 1..Len(ds) /\ ds[l.def].init = l.exps

\* What has been found out fits when there are more definitions.
LEMMA MoreFits ==
    ASSUME NEW ds, IsSeq(ds), NEW def, NEW es, es = Append(ds, def),
           NEW l, LineFits(l, ds)
    PROVE  LineFits(l, es)
<1> DEFINE b == IF l.st \in Defining THEN l.def - 1 ELSE Len(ds)
           c == IF l.st \in Defining THEN l.def - 1 ELSE Len(es)
           dims == IF l.st = "getarray" THEN 1 ELSE 0
<1>1. /\ Len(ds) \in Nat /\ Len(es) = Len(ds) + 1
      /\ \A d \in 1..Len(ds) : es[d] = ds[d]
  BY Appended
<1>2. /\ l.st \in Defining => l.def \in 1..Len(ds)
      /\ \A i \in DOMAIN l.exps : ExpFits(l.exps[i], ds, b, dims)
      /\ \A i \in DOMAIN l.lhs : l.lhs[i].op = "lval" /\ ExpFits(l.lhs[i], ds, Len(ds), 0)
  BY DEF LineFits
<1>3. b \in Nat /\ b <= Len(ds) /\ c \in Nat /\ b <= c
  BY <1>1, <1>2
<1> HIDE DEF b, c
<1>4. ASSUME NEW e, NEW m, NEW lo \in Nat, NEW hi \in Nat, lo <= hi, lo <= Len(ds),
             ExpFits(e, ds, lo, m)
      PROVE  ExpFits(e, es, hi, m)
  <2>1. \A d \in 1..lo : d \in 1..hi /\ es[d] = ds[d]
    BY <1>1, <1>4
  <2>2. \A a : IndexFits(a, ds, lo) => IndexFits(a, es, hi)
    BY <2>1 DEF IndexFits
  <2> QED
    BY <1>4, <2>1, <2>2 DEF ExpFits
<1>5. \A i \in DOMAIN l.exps : ExpFits(l.exps[i], es, c, dims)
  <2> HIDE DEF dims
  <2> QED
    BY <1>2, <1>3, <1>4
<1>6. \A i \in DOMAIN l.lhs : l.lhs[i].op = "lval" /\ ExpFits(l.lhs[i], es, Len(es), 0)
  <2>1. Len(ds) <= Len(es) /\ Len(es) \in Nat /\ Len(ds) <= Len(ds)
    BY <1>1
  <2> QED
    BY <1>1, <1>2, <1>4, <2>1
<1>7. l.st \in Defining => l.def \in 1..Len(es) /\ es[l.def].init = ds[l.def].init
  BY <1>1, <1>2
<1> QED
  BY <1>5, <1>6, <1>7 DEF LineFits, c

\* An expression that was accepted.
LEMMA AcceptedFits ==
    ASSUME IsSeq(defs), NEW e, IsExp(e), NEW dims \in {0, 1}, Fits(Resolve(e), dims),
           \A d \in DOMAIN defs : DefFits(defs[d])
    PROVE  ExpFits(Resolve(e), defs, Len(defs), dims)
<1> DEFINE f == Resolve(e)
<1>1. /\ f.op = e.op
      /\ e.op # "lval" => f = e
      /\ e.op = "lval" =>
           /\ DOMAIN f.idx = DOMAIN e.idx
           /\ e.idx = <<>> => f.idx = <<>>
           /\ e.idx # <<>> => f.idx = <<f.idx[1]>>
           /\ \A i \in DOMAIN e.idx :
                /\ i = 1
                /\ \/ f.idx[i].op = "lit" /\ f.idx[i].n \in Val
                   \/ f.idx[i].op = "lval" /\ f.idx[i].idx = <<>>
  BY ResolveIs
<1>2. Len(defs) \in Nat /\ DOMAIN defs = 1..Len(defs)
  BY Appended
<1>3. CASE e.op # "lval"
  BY <1>1, <1>3 DEF IsExp, ExpFits, GetInt
<1>4. CASE e.op = "lval"
  <2>1. /\ f.op = "lval" /\ f.def \in 1..Len(defs)
        /\ Len(f.idx) + dims = IF defs[f.def].size > 0 THEN 1 ELSE 0
        /\ \A i \in DOMAIN f.idx : f.idx[i].op = "lval" =>
              f.idx[i].def \in 1..Len(defs) /\ defs[f.idx[i].def].size = 0
    BY <1>1, <1>2, <1>4 DEF Fits
  <2> HIDE DEF f
  <2>2. CASE e.idx = <<>>
    <3>1. f.idx = <<>> /\ Len(f.idx) = 0
      BY <1>1, <1>4, <2>2
    <3>2. dims = 1 <=> defs[f.def].size > 0
      BY <2>1, <3>1
    <3> QED
      BY <2>1, <3>1, <3>2 DEF ExpFits, f
  <2>3. CASE e.idx # <<>>
    <3> DEFINE a == f.idx[1]
    <3>1. f.idx = <<a>>
      BY <1>1, <1>4, <2>3
    <3> HIDE DEF a
    <3>2. f.idx # <<>> /\ DOMAIN f.idx = {1} /\ Len(f.idx) = 1
      BY <3>1
    <3>3. 1 \in DOMAIN e.idx
      BY <1>1, <1>4, <3>2
    <3>4. IndexFits(a, defs, Len(defs))
      BY <1>1, <1>4, <2>1, <3>2, <3>3 DEF IndexFits, a
    <3>5. defs[f.def].size > 0
      BY <2>1, <3>2
    <3> QED
      BY <2>1, <3>2, <3>4, <3>5 DEF ExpFits, a, f
  <2> QED
    BY <2>2, <2>3
<1> QED
  BY <1>3, <1>4

\* The line a line of the text was made of.
From(l, line) ==
    /\ l.st = line.st /\ l.name = line.name
    /\ l.st = "getarray" => l.exps[1].name = line.exps[1].name

\* Whatever an assignment in the text modifies has been marked, and so has
\* every parameter.
MarkedBy(line, const) ==
    /\ line.st = "assign" =>
         /\ line.lhs[1].def \in DOMAIN const
         /\ const[line.lhs[1].def] = FALSE
    /\ line.st = "param" =>
         /\ line.def \in DOMAIN const
         /\ const[line.def] = FALSE

\* the text, its definitions and their marks
Typed ==
    /\ IsSeq(text) /\ IsSeq(defs)
    /\ isconst \in Seq(BOOLEAN) /\ Len(isconst) = Len(defs)
    /\ \A d \in DOMAIN defs : DefFits(defs[d])
    /\ \A k \in DOMAIN text : /\ LineFits(text[k], defs)
                              /\ MarkedBy(text[k], isconst)
                              /\ \E line \in Lines : From(text[k], line)

\* A line that is visited fits, with the definition it makes.
LEMMA VisitLineFits ==
    ASSUME Typed, NEW line \in Lines, Visit(line)
    PROVE  /\ IsSeq(defs')
           /\ \A d \in DOMAIN defs' : DefFits(defs'[d])
           /\ LineFits(Resolved(line), defs')
           /\ From(Resolved(line), line)
           /\ Len(defs') = (IF line.st \in Defining THEN Len(defs) + 1 ELSE Len(defs))
           /\ \A l : LineFits(l, defs) => LineFits(l, defs')
<1> DEFINE r == Resolved(line)
           n == Len(defs)
           def == [name |-> r.name, size |-> r.size, init |-> r.exps, global |-> Len(tables) = 1]
<1>1. /\ r.st = line.st /\ r.name = line.name /\ r.size = line.size
      /\ r.lhs = ResolveAll(line.lhs) /\ r.exps = ResolveAll(line.exps)
      /\ r.def = (IF line.st \in Defining THEN n + 1 ELSE 0)
  BY ResolvedHas
<1>2. /\ Accepted(line, r)
      /\ defs' = IF r.st \notin Defining THEN defs ELSE Append(defs, def)
  BY DEF Visit
<1> HIDE DEF r
<1>3. IsSeq(defs) /\ n \in Nat /\ DOMAIN defs = 1..n /\ \A d \in DOMAIN defs : DefFits(defs[d])
  BY Appended DEF Typed
<1>4. /\ line.size \in Nat /\ (line.size > 0 => Val \subseteq 0..(line.size - 1))
      /\ line.exps \in Seq({line.exps[i] : i \in DOMAIN line.exps})
      /\ \A i \in DOMAIN line.exps : IsExp(line.exps[i])
      /\ line.lhs # <<>> <=> line.st = "assign"
      /\ line.st = "assign" => /\ DOMAIN line.lhs = {1}
                               /\ line.lhs[1].op = "lval" /\ IsExp(line.lhs[1])
      /\ line.st \in {"assign", "if", "while", "getarray"} => DOMAIN line.exps = {1}
      /\ line.st = "getarray" => line.exps[1].op = "lval"
      /\ line.st = "param" => line.exps = <<>>
  BY LinesAssumption
<1> DEFINE dims == IF r.st = "getarray" THEN 1 ELSE 0
<1>5. \A i \in DOMAIN r.exps : ExpFits(r.exps[i], defs, n, dims)
  <2> SUFFICES ASSUME NEW i \in DOMAIN r.exps PROVE ExpFits(r.exps[i], defs, n, dims)
    OBVIOUS
  <2>1. i \in DOMAIN line.exps /\ r.exps[i] = Resolve(line.exps[i])
    BY <1>1 DEF ResolveAll
  <2>2. Fits(r.exps[i], dims) /\ dims \in {0, 1}
    BY <1>2 DEF Accepted
  <2> HIDE DEF dims
  <2> QED
    BY <1>3, <1>4, <2>1, <2>2, AcceptedFits
<1>6. /\ \A i \in DOMAIN r.lhs : r.lhs[i].op = "lval" /\ ExpFits(r.lhs[i], defs, n, 0)
      /\ DOMAIN r.lhs = (IF r.st = "assign" THEN {1} ELSE {})
  <2>1. DOMAIN r.lhs = DOMAIN line.lhs
    BY <1>1 DEF ResolveAll
  <2>2. CASE line.st = "assign"
    <3>1. r.lhs[1] = Resolve(line.lhs[1])
      BY <1>1, <1>4, <2>2 DEF ResolveAll
    <3>2. Fits(r.lhs[1], 0)
      BY <1>2, <1>4, <2>1, <2>2 DEF Accepted
    <3>3. ExpFits(r.lhs[1], defs, n, 0)
      BY <1>3, <1>4, <2>2, <3>1, <3>2, AcceptedFits
    <3>4. r.lhs[1].op = "lval"
      BY <1>4, <2>2, <3>1, ResolveIs
    <3> QED
      BY <1>1, <1>4, <2>1, <2>2, <3>3, <3>4
  <2>3. CASE line.st # "assign"
    <3>1. line.lhs = <<>>
      BY <1>4, <2>3
    <3>2. DOMAIN line.lhs = {}
      BY <3>1
    <3> QED
      BY <1>1, <2>1, <2>3, <3>2
  <2> QED
    BY <2>2, <2>3
<1>7. /\ IsSeq(r.exps) /\ DOMAIN r.exps = DOMAIN line.exps
      /\ \A i \in DOMAIN line.exps : r.exps[i] = Resolve(line.exps[i])
  <2>1. /\ DOMAIN r.exps = DOMAIN line.exps
        /\ r.exps = [i \in DOMAIN line.exps |-> Resolve(line.exps[i])]
    BY <1>1 DEF ResolveAll
  <2> DEFINE T == {r.exps[i] : i \in DOMAIN r.exps}
  <2>2. Len(line.exps) \in Nat /\ DOMAIN line.exps = 1..Len(line.exps)
    BY <1>4
  <2>3. \A i \in DOMAIN r.exps : r.exps[i] \in T
    OBVIOUS
  <2> HIDE DEF T
  <2>4. r.exps \in [1..Len(line.exps) -> T]
    BY <2>1, <2>2, <2>3
  <2>5. r.exps \in Seq(T)
    BY <2>2, <2>4
  <2> QED
    BY <2>1, <2>5 DEF IsSeq, T
<1>8. From(r, line)
  <2>1. ASSUME line.st = "getarray" PROVE r.exps[1].name = line.exps[1].name
    <3>1. 1 \in DOMAIN line.exps /\ line.exps[1].op = "lval" /\ IsExp(line.exps[1])
      BY <1>4, <2>1
    <3>2. r.exps[1] = Resolve(line.exps[1])
      BY <1>7, <3>1
    <3> QED
      BY <3>1, <3>2, ResolveIs
  <2> QED
    BY <1>1, <2>1 DEF From
<1>9. ASSUME r.st \notin Defining PROVE LineFits(r, defs)
  <2>1. r.st = "getarray" => r.exps[1].op = "lval"
    <3>1. ASSUME r.st = "getarray" PROVE r.exps[1].op = "lval"
      <4>1. line.st = "getarray" /\ 1 \in DOMAIN line.exps
        BY <1>1, <1>4, <3>1
      <4>2. r.exps[1] = Resolve(line.exps[1]) /\ line.exps[1].op = "lval" /\ IsExp(line.exps[1])
        BY <1>4, <1>7, <4>1
      <4> QED
        BY <4>2, ResolveIs
    <3> QED
      BY <3>1
  <2>2. r.st \in {"assign", "if", "while", "getarray"} => DOMAIN r.exps = {1}
    BY <1>1, <1>4, <1>7
  <2>3. r.st = "assign" <=> DOMAIN r.lhs = {1}
    BY <1>6
  <2> QED
    BY <1>5, <1>6, <1>7, <1>9, <2>1, <2>2, <2>3 DEF LineFits
<1>10. CASE r.st \notin Defining
  BY <1>1, <1>2, <1>3, <1>8, <1>9, <1>10 DEF r
<1>11. CASE r.st \in Defining
  <2>1. defs' = Append(defs, def)
    BY <1>2, <1>11
  <2>2. /\ IsSeq(defs') /\ Len(defs') = n + 1 /\ DOMAIN defs' = 1..(n + 1)
        /\ (\A d \in 1..n : defs'[d] = defs[d]) /\ defs'[n + 1] = def
    BY <1>3, <2>1, Appended
  <2>3. DefFits(def) /\ def.init = r.exps
    BY <1>1, <1>4 DEF DefFits
  <2> HIDE DEF def
  <2>4. \A d \in DOMAIN defs' : DefFits(defs'[d])
    <3>1. \A d \in DOMAIN defs' : d \in 1..n \/ d = n + 1
      BY <1>3, <2>2
    <3> QED
      BY <1>3, <2>2, <2>3, <3>1
  <2>5. \A l : LineFits(l, defs) => LineFits(l, defs')
    BY <1>3, <2>1, MoreFits
  <2>6. LineFits(r, defs')
    <3>1. r.st # "getarray" /\ r.st # "assign" /\ r.def = n + 1 /\ r.def - 1 = n
          /\ r.st \notin {"assign", "if", "while", "getarray"}
      BY <1>1, <1>3, <1>11 DEF Defining
    <3>2. \A d \in 1..n : defs'[d] = defs[d]
      BY <2>2
    <3>3. \A e : ExpFits(e, defs, n, 0) => ExpFits(e, defs', n, 0)
      <4>1. \A a : IndexFits(a, defs, n) => IndexFits(a, defs', n)
        BY <3>2 DEF IndexFits
      <4> QED
        BY <3>2, <4>1 DEF ExpFits
    <3>4. \A i \in DOMAIN r.exps : ExpFits(r.exps[i], defs', n, 0)
      BY <1>5, <3>1, <3>3
    <3>5. r.def \in 1..Len(defs') /\ defs'[r.def].init = r.exps
      BY <1>3, <2>2, <2>3, <3>1
    <3>6. DOMAIN r.lhs = {} /\ DOMAIN r.lhs # {1}
      BY <1>6, <3>1
    <3> QED
      BY <1>7, <1>11, <3>1, <3>4, <3>5, <3>6 DEF LineFits
  <2> QED
    BY <1>1, <1>8, <1>11, <2>2, <2>4, <2>5, <2>6 DEF r
<1> QED
  BY <1>10, <1>11

\* Marks are never taken back, and a line is visited with its marks made.
LEMMA VisitTyped ==
    ASSUME Typed, NEW line \in Lines, Visit(line)
    PROVE  Typed'
<1> DEFINE r == Resolved(line)
           marked == [d \in DOMAIN isconst |-> isconst[d] /\ d \notin Modified(r)]
<1>1. /\ r.st = line.st
      /\ r.def = (IF line.st \in Defining THEN Len(defs) + 1 ELSE 0)
  BY ResolvedHas
<1>2. /\ Accepted(line, r)
      /\ text' = Append(text, r)
      /\ isconst' = IF r.st \in Defining
                    THEN Append(marked, r.st = "def") ELSE marked
  BY DEF Visit
<1>3. /\ IsSeq(defs') /\ \A d \in DOMAIN defs' : DefFits(defs'[d])
      /\ LineFits(r, defs') /\ From(r, line)
      /\ Len(defs') = (IF line.st \in Defining THEN Len(defs) + 1 ELSE Len(defs))
      /\ \A l : LineFits(l, defs) => LineFits(l, defs')
  BY VisitLineFits
<1> HIDE DEF r
<1>4. /\ isconst \in Seq(BOOLEAN) /\ Len(isconst) = Len(defs)
      /\ IsSeq(text) /\ IsSeq(defs)
      /\ Len(defs) \in Nat /\ DOMAIN defs = 1..Len(defs)
      /\ DOMAIN isconst = 1..Len(defs)
      /\ \A d \in DOMAIN isconst : isconst[d] \in BOOLEAN
  <2>1. /\ isconst \in Seq(BOOLEAN) /\ Len(isconst) = Len(defs)
        /\ IsSeq(text) /\ IsSeq(defs)
    BY DEF Typed
  <2> QED
    BY <2>1, Appended, SMT
<1>5. /\ marked \in Seq(BOOLEAN) /\ Len(marked) = Len(defs)
      /\ DOMAIN marked = DOMAIN isconst
      /\ \A d \in DOMAIN isconst : isconst[d] = FALSE => marked[d] = FALSE
      /\ \A d \in DOMAIN isconst : d \in Modified(r) => marked[d] = FALSE
  <2>1. marked \in [1..Len(defs) -> BOOLEAN]
    BY <1>4
  <2>2. marked \in Seq(BOOLEAN) /\ Len(marked) = Len(defs)
    BY <1>4, <2>1, SMT
  <2> QED
    BY <1>4, <2>1, <2>2
<1> HIDE DEF marked
<1>6. /\ isconst' \in Seq(BOOLEAN) /\ Len(isconst') = Len(defs')
      /\ DOMAIN marked \subseteq DOMAIN isconst'
      /\ \A d \in DOMAIN marked : isconst'[d] = marked[d]
  <2>1. CASE r.st \notin Defining
    BY <1>1, <1>2, <1>3, <1>5, <2>1
  <2>2. CASE r.st \in Defining
    <3>1. Len(defs') = Len(defs) + 1
      BY <1>1, <1>3, <2>2
    <3>3. (r.st = "def") \in BOOLEAN
      OBVIOUS
    <3>4. isconst' = Append(marked, r.st = "def")
      BY <1>2, <2>2
    <3> DEFINE b == r.st = "def"
    <3> HIDE DEF b
    <3>5. b \in BOOLEAN /\ isconst' = Append(marked, b)
      BY <3>3, <3>4 DEF b
    <3>6. /\ isconst' \in Seq(BOOLEAN) /\ Len(isconst') = Len(marked) + 1
          /\ DOMAIN marked \subseteq DOMAIN isconst'
          /\ \A d \in DOMAIN marked : isconst'[d] = marked[d]
      BY <1>5, <3>5, SMT
    <3> QED
      BY <1>5, <3>1, <3>6
  <2> QED
    BY <2>1, <2>2
<1>7. \A k \in DOMAIN text : /\ LineFits(text[k], defs')
                             /\ MarkedBy(text[k], isconst')
                             /\ \E from \in Lines : From(text[k], from)
  <2> SUFFICES ASSUME NEW k \in DOMAIN text
               PROVE  LineFits(text[k], defs') /\ MarkedBy(text[k], isconst')
    BY DEF Typed
  <2>1. MarkedBy(text[k], isconst) /\ LineFits(text[k], defs)
    BY DEF Typed
  <2>2. /\ DOMAIN isconst \subseteq DOMAIN isconst'
        /\ \A d \in DOMAIN isconst : isconst[d] = FALSE => isconst'[d] = FALSE
    BY <1>5, <1>6
  <2>3. MarkedBy(text[k], isconst')
    BY <2>1, <2>2 DEF MarkedBy
  <2> QED
    BY <1>3, <2>1, <2>3
<1>8. MarkedBy(r, isconst')
  <2>1. ASSUME r.st = "assign"
        PROVE  r.lhs[1].def \in DOMAIN isconst' /\ isconst'[r.lhs[1].def] = FALSE
    <3>1. DOMAIN r.lhs = {1} /\ r.lhs[1].op = "lval"
      BY <1>3, <2>1 DEF LineFits
    <3>2. r.lhs[1].def \in DOMAIN defs
      BY <1>2, <3>1 DEF Accepted, Fits
    <3>3. r.lhs[1].def \in Modified(r)
      BY <3>1 DEF Modified, LValsOf, LVals
    <3> QED
      BY <1>4, <1>5, <1>6, <3>2, <3>3
  <2>2. ASSUME r.st = "param"
        PROVE  r.def \in DOMAIN isconst' /\ isconst'[r.def] = FALSE
    <3>1. r.def = Len(marked) + 1
      BY <1>1, <1>5, <2>2 DEF Defining
    <3>2. isconst' = Append(marked, FALSE)
      <4>1. (r.st = "def") = FALSE
        BY <2>2
      <4> QED
        BY <1>2, <2>2, <4>1 DEF Defining
    <3> QED
      BY <1>5, <3>1, <3>2, SMT
  <2> QED
    BY <2>1, <2>2 DEF MarkedBy
<1>9. IsSeq(text') /\ \A k \in DOMAIN text' : /\ LineFits(text'[k], defs')
                                              /\ MarkedBy(text'[k], isconst')
                                              /\ \E from \in Lines : From(text'[k], from)
  <2>1. /\ IsSeq(text') /\ Len(text) \in Nat
        /\ DOMAIN text = 1..Len(text)
        /\ DOMAIN text' = 1..(Len(text) + 1)
        /\ \A k \in 1..Len(text) : text'[k] = text[k]
        /\ text'[Len(text) + 1] = r
    BY <1>2, <1>4, Appended
  <2>2. \A k \in DOMAIN text' : k \in DOMAIN text \/ k = Len(text) + 1
    BY <2>1, SMT
  <2>3. LineFits(r, defs') /\ MarkedBy(r, isconst') /\ \E from \in Lines : From(r, from)
    BY <1>3, <1>8
  <2> QED
    BY <1>7, <2>1, <2>2, <2>3
<1> QED
  BY <1>3, <1>6, <1>9 DEF Typed

\* What the tables say exists.
LEMMA NamesExist ==
    ASSUME AllBound, Typed
    PROVE  /\ Len(text) \in Nat /\ Len(defs) \in Nat /\ DOMAIN defs = 1..Len(defs)
           /\ DOMAIN text = 1..Len(text) /\ DOMAIN isconst = DOMAIN defs
           /\ \A d \in DOMAIN isconst : isconst[d] \in BOOLEAN
           /\ \A i \in DOMAIN tables :
                /\ \A x \in DOMAIN tables[i].var : tables[i].var[x] \in DOMAIN defs
                /\ tables[i].loop \in 0..Len(text)
                /\ tables[i].at \in 0..Len(text)
<1> DEFINE n == Len(text)
<1>1. /\ n \in Nat /\ Len(defs) \in Nat /\ DOMAIN defs = 1..Len(defs)
      /\ DOMAIN text = 1..n
  BY Appended DEF Typed
<1>2. isconst \in Seq(BOOLEAN) /\ Len(isconst) = Len(defs)
  BY DEF Typed
<1>3. DOMAIN isconst = DOMAIN defs /\ \A d \in DOMAIN isconst : isconst[d] \in BOOLEAN
  BY <1>1, <1>2
<1>4. /\ Tabular(tables) /\ DOMAIN tables = 1..Len(tables)
      /\ Blocks(text, n, tables) /\ Names(text, n, tables) /\ Loops(text, tables)
  BY TabularIs DEF AllBound, TablesMatch, Good
<1>5. ASSUME NEW i \in DOMAIN tables
      PROVE  /\ \A x \in DOMAIN tables[i].var : tables[i].var[x] \in DOMAIN defs
             /\ tables[i].loop \in 0..n /\ tables[i].at \in 0..n
  <2>1. tables[i].at \in 0..n
    BY <1>4 DEF Blocks
  <2>2. tables[i].loop = tables[i].at \/ tables[i].loop = 0
    BY <1>4 DEF Loops
  <2>3. ASSUME NEW x \in DOMAIN tables[i].var PROVE tables[i].var[x] \in DOMAIN defs
    <3>1. PICK j \in 1..n : text[j].st \in Defining /\ text[j].def = tables[i].var[x]
      BY <1>4 DEF Names, Found
    <3>2. LineFits(text[j], defs)
      BY <1>1 DEF Typed
    <3> QED
      BY <1>1, <3>1, <3>2 DEF LineFits
  <2>4. 0 \in 0..n
    BY <1>1
  <2> QED
    BY <2>1, <2>2, <2>3, <2>4
<1> QED
  BY <1>1, <1>3, <1>5

-------------------------------------------------------------------------------
(* What FoldAll computes.                                                  *)

\* Each definition is folded by the elements of those before it.
LEMMA FoldAllIs ==
    ASSUME IsSeq(defs)
    PROVE  /\ IsSeq(FoldAll) /\ Len(FoldAll) = Len(defs)
           /\ \A d \in 1..Len(defs) : \E consts :
                /\ FoldAll[d] = FoldDef(consts, defs[d])
                /\ \A c \in 1..(d - 1) : consts[c] = FoldAll[c]
<1> DEFINE n == Len(defs)
           Is(g, m) == g = [d \in 0..m |-> IF d = 0 THEN <<>>
                                           ELSE Append(g[d - 1], FoldDef(g[d - 1], defs[d]))]
<1>0. n \in Nat
  BY Appended
<1> HIDE DEF n
<1>1. \E g : Is(g, n)
  <2> DEFINE S == {m \in 0..n : \E g : Is(g, m)}
  <2>1. 0 \in S
    <3> DEFINE g == [d \in 0..0 |-> <<>>]
    <3>1. Is(g, 0)
      OBVIOUS
    <3>2. 0 \in 0..n
      BY <1>0
    <3> HIDE DEF Is, g
    <3> QED
      BY <3>1, <3>2
  <2>2. \A m \in 0..(n - 1) : m \in S => m + 1 \in S
    <3> SUFFICES ASSUME NEW m \in 0..(n - 1), m \in S PROVE m + 1 \in S
      OBVIOUS
    <3>7. m \in 0..n /\ m + 1 \in 0..n
      BY <1>0
    <3>8. PICK g : Is(g, m)
      OBVIOUS
    <3> DEFINE h == [d \in 0..(m + 1) |-> IF d <= m THEN g[d]
                                          ELSE Append(g[m], FoldDef(g[m], defs[m + 1]))]
    <3>1. \A d \in 0..m : h[d] = g[d]
      OBVIOUS
    <3>2. \A d \in 0..m : g[d] = IF d = 0 THEN <<>>
                                 ELSE Append(g[d - 1], FoldDef(g[d - 1], defs[d]))
      BY <3>8
    <3>3. h[m + 1] = Append(h[m], FoldDef(h[m], defs[m + 1]))
      OBVIOUS
    <3>4. h = [d \in 0..(m + 1) |-> h[d]]
      OBVIOUS
    <3> HIDE DEF h
    <3>5. ASSUME NEW d \in 0..(m + 1)
          PROVE  h[d] = IF d = 0 THEN <<>> ELSE Append(h[d - 1], FoldDef(h[d - 1], defs[d]))
      <4>1. CASE d \in 0..m
        <5>1. d # 0 => d - 1 \in 0..m
          BY <4>1
        <5> QED
          BY <3>1, <3>2, <4>1, <5>1
      <4>2. CASE d = m + 1
        <5>1. d # 0 /\ d - 1 = m
          BY <4>2
        <5> QED
          BY <3>3, <4>2, <5>1
      <4> QED
        BY <4>1, <4>2
    <3>6. Is(h, m + 1)
      BY <3>4, <3>5, Zenon
    <3> HIDE DEF Is
    <3> QED
      BY <3>6, <3>7
  <2> HIDE DEF S
  <2>3. 0..n \subseteq S
    BY <1>0, <2>1, <2>2, InductionUpTo
  <2>4. n \in S
    BY <1>0, <2>3
  <2> QED
    BY <2>4 DEF S
<1> DEFINE upto == CHOOSE g : Is(g, n)
<1>2. Is(upto, n)
  BY <1>1
<1>3. FoldAll = upto[n]
  BY DEF FoldAll, n
<1> HIDE DEF upto
<1>4. \A d \in 0..n : upto[d] = IF d = 0 THEN <<>>
                                ELSE Append(upto[d - 1], FoldDef(upto[d - 1], defs[d]))
  BY <1>2
<1> DEFINE f(d) == upto[d]
           P(d) == /\ IsSeq(upto[d]) /\ Len(upto[d]) = d
                   /\ \A c \in 1..d : /\ upto[d][c] = FoldDef(upto[c - 1], defs[c])
                                      /\ \A b \in 1..(c - 1) : upto[c - 1][b] = upto[d][b]
           R == {d \in 0..n : P(d)}
<1>5. 0 \in R
  <2>1. upto[0] = <<>>
    BY <1>0, <1>4
  <2>2. \A c \in 1..0 : FALSE
    OBVIOUS
  <2>3. IsSeq(<<>>) /\ Len(<<>>) = 0
    BY DEF IsSeq
  <2> QED
    BY <1>0, <2>1, <2>2, <2>3
<1>6. \A d \in 0..(n - 1) : d \in R => d + 1 \in R
  <2> SUFFICES ASSUME NEW d \in 0..(n - 1), d \in R PROVE d + 1 \in R
    OBVIOUS
  <2>0. d + 1 \in 0..n /\ P(d)
    BY <1>0
  <2> DEFINE a == upto[d]
             e == FoldDef(a, defs[d + 1])
             z == upto[d + 1]
  <2>1. z = Append(a, e)
    <3>1. d + 1 \in 0..n /\ d + 1 # 0 /\ (d + 1) - 1 = d
      BY <1>0
    <3> QED
      BY <1>4, <3>1
  <2>2. IsSeq(a) /\ Len(a) = d
    BY <2>0
  <2> HIDE DEF e
  <2>3. /\ IsSeq(z) /\ Len(z) = d + 1 /\ \A c \in 1..d : z[c] = a[c]
        /\ z[d + 1] = e
    BY <2>1, <2>2, Appended
  <2>4. ASSUME NEW c \in 1..(d + 1)
        PROVE  /\ z[c] = FoldDef(upto[c - 1], defs[c])
               /\ \A b \in 1..(c - 1) : upto[c - 1][b] = z[b]
    <3>1. CASE c \in 1..d
      <4>1. /\ a[c] = FoldDef(upto[c - 1], defs[c])
            /\ \A b \in 1..(c - 1) : upto[c - 1][b] = a[b]
        BY <2>0, <3>1
      <4>2. \A b \in 1..(c - 1) : b \in 1..d
        BY <3>1
      <4> HIDE DEF a, z
      <4> QED
        BY <2>3, <3>1, <4>1, <4>2
    <3>2. CASE c = d + 1
      <4>1. c - 1 = d
        BY <3>2
      <4>2. upto[c - 1] = a
        BY <4>1
      <4> HIDE DEF a, z
      <4> QED
        BY <2>3, <3>2, <4>1, <4>2 DEF e
    <3> QED
      BY <3>1, <3>2
  <2>5. P(d + 1)
    BY <2>3, <2>4
  <2> HIDE DEF P
  <2> QED
    BY <2>0, <2>5
<1> HIDE DEF R
<1>7. 0..n \subseteq R
  BY <1>0, <1>5, <1>6, InductionUpTo
<1> USE DEF R
<1>8. P(n)
  <2>1. n \in R
    BY <1>0, <1>7
  <2> QED
    BY <2>1
<1>9. ASSUME NEW d \in 1..n
      PROVE  \E consts : /\ FoldAll[d] = FoldDef(consts, defs[d])
                         /\ \A c \in 1..(d - 1) : consts[c] = FoldAll[c]
  BY <1>3, <1>8
<1> QED
  BY <1>3, <1>8, <1>9 DEF n

-------------------------------------------------------------------------------
(* Running.                                                                *)

\* the elements of a definition, one for a scalar
Elems(d) == 0..(IF defs[d].size = 0 THEN 0 ELSE defs[d].size - 1)

\* what a run has: constants folded, and contents for every definition
Running ==
    /\ phase \in {"visit", "run", "over"}
    /\ phase = "visit" => pc = 1
    /\ pc \in 1..(Len(text) + 1)
    /\ phase = "run" =>
         /\ D(text, Len(text)) = 0
         /\ folded = FoldAll
         /\ DOMAIN store = DOMAIN defs
         /\ \A d \in DOMAIN defs : store[d] \in [Elems(d) -> Val \cup {Undef}]

\* A block that is opened is closed further down.
LEMMA ClosedIs ==
    ASSUME Len(text) \in Nat, \A k \in 0..Len(text) : D(text, k) \in Nat,
           D(text, Len(text)) = 0,
           NEW k \in 1..Len(text), text[k].st \in Opening
    PROVE  ClosedAt(k) \in (k + 1)..Len(text)
<1> DEFINE n == Len(text)
           S == {m \in (k + 1)..n : Depth(m) < Depth(k)}
<1>1. k - 1 \in Nat /\ (k - 1) + 1 = k /\ k - 1 \in 0..n /\ k \in 0..n
  OBVIOUS
<1>2. D(text, k) = D(text, k - 1) + 1
  BY <1>1, DepthSteps
<1>3. D(text, k) > D(text, n)
  BY <1>1, <1>2
<1>4. n \in (k + 1)..n
  <2>1. k # n
    BY <1>3
  <2> HIDE DEF n
  <2>2. k \in 1..n /\ n \in Nat
    BY DEF n
  <2> QED
    BY <2>1, <2>2
<1>5. n \in S
  BY <1>3, <1>4, DepthOf
<1>6. S \in SUBSET Nat /\ S # {} /\ S \subseteq (k + 1)..n
  BY <1>5
<1> HIDE DEF S
<1>7. Min(S) \in S
  BY <1>6, MinIs
<1>8. ClosedAt(k) = Min(S)
  BY DEF ClosedAt, S
<1> QED
  BY <1>6, <1>7, <1>8

\* A block that is closed was opened further up.
LEMMA OpenedIs ==
    ASSUME Len(text) \in Nat, \A k \in 0..Len(text) : D(text, k) \in Nat,
           NEW k \in 1..Len(text), text[k].st = "close"
    PROVE  OpenedAt(k) \in 1..(k - 1)
<1> DEFINE n == Len(text)
           p == k - 1
           S == {j \in 0..p : D(text, j) < D(text, p)}
<1>1. p \in Nat /\ p + 1 = k /\ p \in 0..n /\ k \in 0..n
  OBVIOUS
<1>2. D(text, k) = D(text, p) + (-1)
  <2>1. text[p + 1].st = "close" /\ "close" \notin Opening
    BY <1>1 DEF Opening
  <2> HIDE DEF p
  <2>2. D(text, p + 1) = D(text, p) + (-1)
    BY <1>1, <2>1, DepthSteps
  <2> QED
    BY <1>1, <2>2
<1>3. D(text, 0) = 0 /\ D(text, p) > 0 /\ \A j \in 0..p : D(text, j) \in Nat
  <2>1. \A j \in 0..p : j \in 0..n
    BY <1>1
  <2>2. D(text, p) \in Nat /\ D(text, k) \in Nat
    BY <1>1
  <2>3. D(text, p) > 0
    <3> HIDE DEF p
    <3> QED
      BY <1>2, <2>2
  <2>4. D(text, 0) = 0
    BY DepthSteps
  <2>5. \A j \in 0..p : D(text, j) \in Nat
    BY <2>1
  <2> QED
    BY <2>3, <2>4, <2>5
<1> HIDE DEF p
<1>4. S \in SUBSET (0..p) /\ 0 \in S
  BY <1>1, <1>3
<1> HIDE DEF S
<1>5. PICK g \in S : \A j \in S : j <= g
  BY <1>1, <1>4, GreatestExists
<1>6. g \in 0..p /\ D(text, g) < D(text, p)
  BY DEF S
<1>7. g # p
  BY <1>3, <1>6
<1> DEFINE j == g + 1
<1>8. j \in 1..p /\ j \in 0..p /\ g \in Nat /\ \A m \in j..p : m \in 0..p /\ ~ (m <= g)
  BY <1>1, <1>6, <1>7
<1>9. \A m \in j..p : D(text, m) >= D(text, p)
  <2> SUFFICES ASSUME NEW m \in j..p PROVE D(text, m) >= D(text, p)
    OBVIOUS
  <2>1. m \in 0..p /\ ~ (m <= g)
    BY <1>8
  <2>2. m \notin S
    BY <1>5, <2>1
  <2>3. ~ (D(text, m) < D(text, p))
    BY <2>1, <2>2 DEF S
  <2>4. D(text, m) \in Nat /\ D(text, p) \in Nat
    <3>1. p \in 0..p
      BY <1>1
    <3> QED
      BY <1>3, <2>1, <3>1
  <2> QED
    BY <2>3, <2>4
<1>10. text[j].st \in Opening /\ D(text, j) <= D(text, p)
  <2>1. D(text, j) = D(text, g)
                + (IF text[j].st \in Opening THEN 1
                   ELSE IF text[j].st = "close" THEN -1 ELSE 0)
    BY <1>8, DepthSteps
  <2>2. j \in j..p
    BY <1>8
  <2>3. D(text, j) >= D(text, p)
    BY <1>9, <2>2
  <2>4. D(text, j) \in Nat /\ D(text, g) \in Nat /\ D(text, p) \in Nat
    <3>1. p \in 0..p
      BY <1>1
    <3> QED
      BY <1>3, <1>6, <1>8, <3>1
  <2> HIDE DEF j
  <2>5. CASE text[j].st \in Opening
    <3>1. D(text, j) = D(text, g) + 1
      BY <2>1, <2>5
    <3> QED
      BY <1>6, <2>4, <2>5, <3>1
  <2>6. CASE text[j].st \notin Opening
    BY <1>6, <2>1, <2>3, <2>4, <2>6
  <2> QED
    BY <2>5, <2>6
<1>11. Enc(text, j, k)
  <2>1. j < k /\ k - 1 = p
    BY <1>1, <1>8
  <2>2. \A m \in j..(k - 1) : D(text, m) >= D(text, j)
    <3> SUFFICES ASSUME NEW m \in j..p PROVE D(text, m) >= D(text, j)
      BY <2>1
    <3>1. D(text, m) >= D(text, p) /\ m \in 0..p /\ p \in 0..p
      BY <1>1, <1>8, <1>9
    <3>2. D(text, m) \in Nat /\ D(text, p) \in Nat /\ D(text, j) \in Nat
      BY <1>3, <1>8, <3>1
    <3> HIDE DEF j
    <3> QED
      BY <1>10, <3>1, <3>2
  <2> QED
    BY <2>1, <2>2 DEF Enc
<1> DEFINE O == {i \in 1..(k - 1) : text[i].st \in Opening /\ Encloses(i, k)}
<1>12. j \in 1..(k - 1)
  BY <1>1, <1>8
<1> HIDE DEF j
<1>13. j \in O
  BY <1>10, <1>11, <1>12, DepthOf
<1>14. O \in SUBSET (0..n) /\ O # {} /\ O \subseteq 1..(k - 1) /\ n \in Nat
  BY <1>13
<1> HIDE DEF O
<1>15. Max(O) \in O
  BY <1>14, MaxIs
<1>16. OpenedAt(k) = Max(O)
  BY DEF OpenedAt, O
<1> QED
  BY <1>14, <1>15, <1>16

\* Where a line sends the run.
LEMMA JumpsInside ==
    ASSUME AllBound, Typed, Running, phase = "run", pc \in DOMAIN text,
           RunTest \/ RunJump \/ RunOn
    PROVE  pc' \in 1..(Len(text) + 1)
<1> DEFINE n == Len(text)
<1>1. n \in Nat /\ DOMAIN text = 1..n /\ pc \in 1..n
  BY Appended DEF Typed
<1>2. (\A k \in 0..n : D(text, k) \in Nat) /\ D(text, n) = 0
  BY DEF AllBound, TablesMatch, Good, Blocks, Running
<1>3. \A k \in 1..n : text[k].st \in Opening => ClosedAt(k) \in (k + 1)..n
  BY <1>1, <1>2, ClosedIs
<1> HIDE DEF n
<1>4. pc + 1 \in 1..(n + 1)
  BY <1>1
<1>5. CASE RunTest
  <2>1. text[pc].st \in Opening
    BY <1>5 DEF RunTest, Here, Opening
  <2>2. ClosedAt(pc) \in (pc + 1)..n
    BY <1>1, <1>3, <2>1
  <2>3. ClosedAt(pc) + 1 \in 1..(n + 1)
    BY <1>1, <2>2
  <2>4. pc' = pc + 1 \/ pc' = ClosedAt(pc) + 1
    BY <1>5 DEF RunTest, GoTo
  <2> QED
    BY <1>4, <2>3, <2>4 DEF n
<1>6. CASE RunJump
  <2>1. text[pc].st \in {"break", "continue"}
    BY <1>6 DEF RunJump, Here
  <2>2. Bound(text, pc)
    BY DEF AllBound
  <2> DEFINE A == Around(text, pc)
             l == text[pc].loop
  <2>3. A # {} /\ l = Max(A)
    BY <2>1, <2>2 DEF Bound
  <2>4. A \in SUBSET (0..n) /\ \A j \in A : j \in 1..n /\ text[j].st \in Opening
    BY <1>1 DEF Around, Opening
  <2> HIDE DEF A
  <2>5. l \in A
    BY <1>1, <2>3, <2>4, MaxIs
  <2> HIDE DEF l
  <2>6. l \in 1..n /\ ClosedAt(l) \in (l + 1)..n
    BY <1>3, <2>4, <2>5
  <2>7. l \in 1..(n + 1) /\ ClosedAt(l) + 1 \in 1..(n + 1)
    BY <1>1, <2>6
  <2>8. pc' = ClosedAt(l) + 1 \/ pc' = l
    BY <1>6 DEF RunJump, GoTo, Here, l
  <2> QED
    BY <2>7, <2>8 DEF n
<1>7. CASE RunOn
  <2>1. pc' = pc + 1 \/ (text[pc].st = "close" /\ pc' = OpenedAt(pc))
    BY <1>7 DEF RunOn, GoTo, Here
  <2>2. ASSUME text[pc].st = "close" PROVE OpenedAt(pc) \in 1..(n + 1)
    <3>1. OpenedAt(pc) \in 1..(pc - 1)
      BY <1>1, <1>2, <2>2, OpenedIs DEF n
    <3> QED
      BY <1>1, <3>1
  <2> QED
    BY <1>4, <2>1, <2>2 DEF n
<1> QED
  BY <1>5, <1>6, <1>7

\* What an expression can be is a value, or was never set.
LEMMA ValuesTyped ==
    ASSUME Typed, Running, phase = "run", NEW b \in Nat, b <= Len(defs),
           NEW e, ExpFits(e, defs, b, 0)
    PROVE  /\ Values(e) \subseteq Val \cup {Undef}
           /\ \A i \in DOMAIN e.idx : e.op = "lval" => ScalarValues(e.idx[i]) \subseteq Val \cup {Undef}
<1>1. /\ DOMAIN defs = 1..Len(defs) /\ Len(defs) \in Nat
      /\ \A d \in DOMAIN defs : DefFits(defs[d]) /\ store[d] \in [Elems(d) -> Val \cup {Undef}]
  BY Appended DEF Typed, Running
<1>2. \A d \in 1..b : /\ d \in DOMAIN defs
                      /\ 0 \in Elems(d)
                      /\ defs[d].size > 0 => Val \subseteq Elems(d)
                      /\ \A i \in Elems(d) : store[d][i] \in Val \cup {Undef}
                      /\ defs[d].size \in Nat
  <2> SUFFICES ASSUME NEW d \in 1..b
               PROVE  /\ d \in DOMAIN defs
                      /\ 0 \in Elems(d)
                      /\ defs[d].size > 0 => Val \subseteq Elems(d)
                      /\ \A i \in Elems(d) : store[d][i] \in Val \cup {Undef}
                      /\ defs[d].size \in Nat
    OBVIOUS
  <2>1. d \in DOMAIN defs
    BY <1>1
  <2>2. DefFits(defs[d]) /\ store[d] \in [Elems(d) -> Val \cup {Undef}]
    BY <1>1, <2>1
  <2>3. 0 \in Elems(d) /\ (defs[d].size > 0 => Val \subseteq Elems(d)) /\ defs[d].size \in Nat
    BY <2>2 DEF DefFits, Elems
  <2> QED
    BY <2>1, <2>2, <2>3
<1>3. \A a : IndexFits(a, defs, b) => ScalarValues(a) \subseteq Val \cup {Undef}
  <2> SUFFICES ASSUME NEW a, IndexFits(a, defs, b)
               PROVE  ScalarValues(a) \subseteq Val \cup {Undef}
    OBVIOUS
  <2>1. CASE a.op = "lit" /\ a.n \in Val
    BY <2>1 DEF ScalarValues
  <2>2. CASE a.op = "lval" /\ a.def \in 1..b
    <3>1. ScalarValues(a) = {store[a.def][0]}
      BY <2>2 DEF ScalarValues
    <3> QED
      BY <1>2, <2>2, <3>1
  <2> QED
    BY <2>1, <2>2 DEF IndexFits
<1>4. CASE e.op = "lit" /\ e.n \in Val
  BY <1>4 DEF Values, ScalarValues
<1>5. CASE e.op = "getint"
  BY <1>5 DEF Values, ScalarValues
<1>6. CASE e.op = "lval" /\ e.def \in 1..b /\ e.idx = <<>>
  <2>1. Values(e) = {store[e.def][0]}
    BY <1>6 DEF Values, ScalarValues
  <2>2. DOMAIN e.idx = {}
    BY <1>6
  <2> QED
    BY <1>2, <1>6, <2>1, <2>2
<1>7. CASE /\ e.op = "lval" /\ e.def \in 1..b /\ e.idx # <<>> /\ DOMAIN e.idx = {1}
           /\ defs[e.def].size > 0 /\ IndexFits(e.idx[1], defs, b)
  <2>1. ScalarValues(e.idx[1]) \subseteq Val \cup {Undef}
    BY <1>3, <1>7
  <2>2. Values(e) = {IF i = Undef THEN Undef ELSE store[e.def][i] : i \in ScalarValues(e.idx[1])}
    BY <1>7 DEF Values
  <2>3. \A i \in Val : store[e.def][i] \in Val \cup {Undef}
    BY <1>2, <1>7
  <2> QED
    BY <1>7, <2>1, <2>2, <2>3
<1> QED
  BY <1>4, <1>5, <1>6, <1>7 DEF ExpFits

\* Constants do not change while definitions and marks do not.
LEMMA FoldStays == UNCHANGED <<defs, isconst>> => FoldAll' = FoldAll
<1> SUFFICES ASSUME UNCHANGED <<defs, isconst>> PROVE FoldAll' = FoldAll
  OBVIOUS
<1>1. \A c, e : FoldDef(c, e)' = FoldDef(c, e)
  BY DEF FoldDef, Fold, FoldScalar
<1> QED
  BY <1>1, Zenon DEF FoldAll

\* What running a line writes.
LEMMA RunTyped ==
    ASSUME AllBound, Typed, Running, phase = "run", pc \in DOMAIN text, Step
    PROVE  Running'
<1> DEFINE n == Len(text)
           b == Len(defs)
<1>1. /\ n \in Nat /\ DOMAIN text = 1..n /\ pc \in 1..n
      /\ b \in Nat /\ DOMAIN defs = 1..b
  BY Appended DEF Typed
<1>2. LineFits(Here, defs)
  BY DEF Typed, Here
<1>3. UNCHANGED <<phase, text, tables, defs, isconst, folded>>
  BY DEF Step, RunDef, RunParam, RunAssign, RunGetArray, RunTest, RunJump, RunOn,
         GoTo, visitvars
<1>4. pc' \in 1..(n + 1)
  <2>1. CASE RunTest \/ RunJump \/ RunOn
    BY <2>1, JumpsInside
  <2>2. CASE RunDef \/ RunParam \/ RunAssign \/ RunGetArray
    <3>1. pc' = pc + 1
      BY <2>2 DEF RunDef, RunParam, RunAssign, RunGetArray, GoTo
    <3> QED
      BY <1>1, <3>1
  <2> QED
    BY <2>1, <2>2 DEF Step
<1> DEFINE V == Val \cup {Undef}
           St(s) == DOMAIN s = DOMAIN defs /\ \A d \in DOMAIN defs : s[d] \in [Elems(d) -> V]
<1>5. St(store)
  BY DEF Running
<1> HIDE DEF V
<1>6. ASSUME NEW d, NEW f, d \in DOMAIN defs => f \in [Elems(d) -> V],
             store' = [store EXCEPT ![d] = f]
      PROVE  St(store')
  <2>1. DOMAIN store' = DOMAIN defs
    BY <1>5, <1>6
  <2>2. \A c \in DOMAIN defs : store'[c] = IF c = d THEN f ELSE store[c]
    BY <1>5, <1>6
  <2> QED
    BY <1>5, <1>6, <2>1, <2>2
<1>7. ASSUME St(store') PROVE Running'
  <2>1. \A d : Elems(d)' = Elems(d)
    BY <1>3 DEF Elems
  <2>2. FoldAll' = FoldAll
    BY <1>3, FoldStays
  <2>3. folded = FoldAll /\ D(text, Len(text)) = 0 /\ phase = "run"
    BY DEF Running
  <2>4. /\ DOMAIN store' = DOMAIN defs
        /\ \A d \in DOMAIN defs : store'[d] \in [Elems(d) -> Val \cup {Undef}]
    BY <1>7 DEF V
  <2>5. /\ phase' = "run" /\ pc' \in 1..(Len(text') + 1) /\ D(text', Len(text')) = 0
        /\ folded' = FoldAll'
    BY <1>3, <1>4, <2>2, <2>3
  <2>6. /\ DOMAIN store' = DOMAIN defs'
        /\ \A d \in DOMAIN defs' : store'[d] \in [Elems(d)' -> Val \cup {Undef}]
    BY <1>3, <2>1, <2>4
  <2> QED
    BY <2>5, <2>6 DEF Running
<1> HIDE DEF St
<1>8. CASE RunDef
  <2> DEFINE d == Here.def
             rest == IF defs[d].global \/ (defs[d].size > 0 /\ Here.exps # <<>>)
                     THEN 0 ELSE Undef
  <2>1. PICK init \in [DOMAIN Here.exps -> Val] :
          store' = [store EXCEPT ![d] = [i \in DOMAIN @ |-> IF i < Len(init) THEN init[i + 1] ELSE rest]]
    BY <1>8 DEF RunDef
  <2> HIDE DEF d, rest
  <2>2. rest \in V
    BY LinesAssumption DEF V, rest
  <2> DEFINE f == [i \in DOMAIN store[d] |-> IF i < Len(init) THEN init[i + 1] ELSE rest]
  <2>3. ASSUME d \in DOMAIN defs PROVE f \in [Elems(d) -> V]
    <3>1. DOMAIN store[d] = Elems(d) /\ \A i \in Elems(d) : i \in Nat
      <4>1. DOMAIN store[d] = Elems(d) /\ DefFits(defs[d])
        BY <1>5, <2>3 DEF Typed, St
      <4> QED
        BY <4>1 DEF Elems, DefFits
    <3>2. /\ DOMAIN Here.exps = 1..Len(Here.exps) /\ Len(Here.exps) \in Nat
      BY <1>2, Appended DEF LineFits
    <3>3. init \in Seq(Val) /\ Len(init) = Len(Here.exps)
      BY <2>1, <3>2
    <3>4. \A i \in Nat : i < Len(init) => init[i + 1] \in V
      BY <3>3 DEF V
    <3> QED
      BY <2>2, <3>1, <3>4
  <2>4. store' = [store EXCEPT ![d] = f]
    BY <2>1
  <2> HIDE DEF f
  <2> QED
    BY <1>6, <1>7, <2>3, <2>4
<1>9. ASSUME NEW d, NEW v \in [DOMAIN store[d] -> Val], store' = [store EXCEPT ![d] = v]
      PROVE  St(store')
  <2>1. d \in DOMAIN defs => v \in [Elems(d) -> V]
    BY <1>5, <1>9 DEF V, St
  <2> QED
    BY <1>6, <1>9, <2>1
<1>10. CASE RunParam
  <2>1. \E v \in [DOMAIN store[Here.def] -> Val] : store' = [store EXCEPT ![Here.def] = v]
    BY <1>10 DEF RunParam
  <2> QED
    BY <1>7, <1>9, <2>1
<1>11. CASE RunGetArray
  <2>1. \E v \in [DOMAIN store[Here.exps[1].def] -> Val] :
          store' = [store EXCEPT ![Here.exps[1].def] = v]
    BY <1>11 DEF RunGetArray
  <2> QED
    BY <1>7, <1>9, <2>1
<1>12. CASE RunAssign
  <2> DEFINE l == Here.lhs[1]
             d == l.def
             e == Here.exps[1]
  <2>1. PICK v \in Values(e) : \E i : store' = [store EXCEPT ![d][i] = v]
    BY <1>12 DEF RunAssign
  <2>2. PICK i : store' = [store EXCEPT ![d][i] = v]
    BY <2>1
  <2>3. ExpFits(e, defs, b, 0)
    <3>1. Here.st = "assign"
      BY <1>12 DEF RunAssign
    <3>2. 1 \in DOMAIN Here.exps /\ Here.st \notin Defining /\ Here.st # "getarray"
      BY <1>2, <3>1 DEF LineFits, Defining
    <3> QED
      BY <1>2, <3>2 DEF LineFits
  <2> HIDE DEF e, d
  <2>4. v \in V
    <3>1. Values(e) \subseteq Val \cup {Undef}
      BY <1>1, <2>3, ValuesTyped
    <3> QED
      BY <3>1 DEF V
  <2> DEFINE f == [store[d] EXCEPT ![i] = v]
  <2>5. store' = [store EXCEPT ![d] = f]
    BY <2>2
  <2>6. d \in DOMAIN defs => f \in [Elems(d) -> V]
    BY <1>5, <2>4 DEF St
  <2> HIDE DEF f
  <2> QED
    BY <1>6, <1>7, <2>5, <2>6
<1>13. CASE RunTest \/ RunJump \/ RunOn
  <2>1. store' = store
    BY <1>13 DEF RunTest, RunJump, RunOn
  <2> QED
    BY <1>5, <1>7, <2>1
<1> QED
  BY <1>8, <1>10, <1>11, <1>12, <1>13 DEF Step

-------------------------------------------------------------------------------
(* The invariant.                                                           *)

\* all that is invariant of the text, its tables and a run
Meaning == AllBound /\ Typed /\ Running

\* It holds of the empty text.
LEMMA InitMeaning == Init => Meaning
<1> SUFFICES ASSUME Init PROVE Meaning
  OBVIOUS
<1>1. phase = "visit" /\ text = <<>> /\ defs = <<>> /\ isconst = <<>> /\ pc = 1
  BY DEF Init
<1>2. Typed
  <2>1. DOMAIN text = {} /\ DOMAIN defs = {} /\ IsSeq(text) /\ IsSeq(defs)
    BY <1>1 DEF IsSeq
  <2>2. isconst \in Seq(BOOLEAN) /\ Len(isconst) = Len(defs)
    BY <1>1
  <2> QED
    BY <2>1, <2>2 DEF Typed
<1>3. Running
  BY <1>1 DEF Running
<1> QED
  BY <1>2, <1>3, InitBound DEF Meaning

\* A run begins with constants folded and nothing set.
LEMMA CompleteRunning ==
    ASSUME Meaning, phase = "visit", Complete
    PROVE  Running'
<1>1. /\ Len(tables) = 1 /\ folded' = FoldAll
      /\ store' = [d \in DOMAIN defs |-> [i \in DOMAIN folded'[d] |-> Undef]]
      /\ UNCHANGED <<text, tables, defs, isconst, pc>>
      /\ phase' \in {"run", "over"}
  BY DEF Complete, visitvars
<1>2. Len(text) \in Nat /\ DOMAIN defs = 1..Len(defs) /\ IsSeq(defs) /\ pc = 1
  BY Appended DEF Meaning, Typed, Running
<1>3. D(text, Len(text)) = 0
  <2>1. Blocks(text, Len(text), tables)
    BY DEF Meaning, AllBound, TablesMatch, Good
  <2>2. D(text, Len(text)) = D(text, tables[1].at) /\ tables[1].at = 0
    BY <1>1, <2>1 DEF Blocks
  <2> QED
    BY <2>2, DepthSteps
<1>4. FoldAll' = FoldAll
  BY <1>1, FoldStays
<1>5. \A d \in DOMAIN defs : DOMAIN FoldAll[d] = Elems(d)
  <2> SUFFICES ASSUME NEW d \in DOMAIN defs PROVE DOMAIN FoldAll[d] = Elems(d)
    OBVIOUS
  <2>1. PICK consts : FoldAll[d] = FoldDef(consts, defs[d])
    BY <1>2, FoldAllIs
  <2> QED
    BY <2>1 DEF FoldDef, Elems
<1>6. \A d : Elems(d)' = Elems(d)
  BY <1>1 DEF Elems
<1>7. /\ DOMAIN store' = DOMAIN defs
      /\ \A d \in DOMAIN defs : store'[d] \in [Elems(d) -> Val \cup {Undef}]
  BY <1>1, <1>5
<1>8. /\ DOMAIN store' = DOMAIN defs'
      /\ \A d \in DOMAIN defs' : store'[d] \in [Elems(d)' -> Val \cup {Undef}]
  BY <1>1, <1>6, <1>7
<1>9. /\ phase' \in {"run", "over"} /\ pc' \in 1..(Len(text') + 1)
      /\ D(text', Len(text')) = 0 /\ folded' = FoldAll'
  BY <1>1, <1>2, <1>3, <1>4
<1> QED
  BY <1>8, <1>9 DEF Running

\* Every step keeps it.
LEMMA NextMeaning == Meaning /\ [Next]_vars => Meaning'
<1> SUFFICES ASSUME Meaning, [Next]_vars PROVE Meaning'
  OBVIOUS
<1>1. AllBound'
  BY NextBound DEF Meaning
<1>2. ASSUME UNCHANGED visitvars PROVE Typed'
  BY <1>2 DEF Meaning, Typed, visitvars, IsSeq
<1>3. ASSUME UNCHANGED visitvars, phase' = "over", pc' = pc PROVE Running'
  BY <1>3 DEF Meaning, Running, visitvars
<1>4. CASE VisitNext
  <2>1. ASSUME NEW line \in Lines, Visit(line) PROVE Typed' /\ Running'
    <3>1. Typed'
      BY <2>1, VisitTyped DEF Meaning
    <3>2. Len(text') \in Nat
      BY <3>1, Appended DEF Typed
    <3>3. phase = "visit" /\ phase' = phase /\ pc = 1 /\ pc' = pc
      BY <1>4, <2>1 DEF VisitNext, Visit, runvars, Meaning, Running
    <3>4. pc' \in 1..(Len(text') + 1)
      BY <3>2, <3>3
    <3> QED
      BY <3>1, <3>3, <3>4 DEF Running
  <2>2. ASSUME NEW line \in Lines, Refuse(line) PROVE Typed' /\ Running'
    BY <1>2, <1>3, <2>2 DEF Refuse, runvars
  <2>3. ASSUME Complete PROVE Typed' /\ Running'
    <3>1. UNCHANGED visitvars /\ phase = "visit"
      BY <1>4, <2>3 DEF Complete, VisitNext
    <3> QED
      BY <1>2, <2>3, <3>1, CompleteRunning
  <2>4. (\E line \in Lines : Visit(line) \/ Refuse(line)) \/ Complete
    BY <1>4 DEF VisitNext
  <2>5. Typed' /\ Running'
    BY <2>1, <2>2, <2>3, <2>4
  <2> QED
    BY <1>1, <2>5 DEF Meaning
<1>5. CASE RunNext
  <2>1. CASE Stop
    <3>1. UNCHANGED visitvars /\ phase' = "over" /\ pc' = pc
      BY <2>1 DEF Stop, runvars
    <3> QED
      BY <1>1, <1>2, <1>3, <3>1 DEF Meaning
  <2>2. CASE pc \in DOMAIN text /\ Step
    <3>1. UNCHANGED visitvars
      BY <2>2 DEF Step, RunDef, RunParam, RunAssign, RunGetArray,
                  RunTest, RunJump, RunOn, GoTo
    <3>2. phase = "run"
      BY <1>5 DEF RunNext
    <3> QED
      BY <1>1, <1>2, <2>2, <3>1, <3>2, RunTyped DEF Meaning
  <2> QED
    BY <1>5, <2>1, <2>2 DEF RunNext
<1>6. CASE Over \/ UNCHANGED vars
  <2>1. UNCHANGED <<phase, text, tables, defs, isconst, folded, pc, store>>
    BY <1>6 DEF Over, vars, visitvars, runvars
  <2>2. Typed'
    BY <1>2, <2>1 DEF visitvars
  <2>3. FoldAll' = FoldAll /\ \A d : Elems(d)' = Elems(d)
    BY <2>1, FoldStays DEF Elems
  <2>4. Running'
    <3>1. Running
      BY DEF Meaning
    <3>2. /\ phase' \in {"visit", "run", "over"} /\ (phase' = "visit" => pc' = 1)
          /\ pc' \in 1..(Len(text') + 1)
      BY <2>1, <3>1 DEF Running
    <3>3. phase' = "run" =>
            /\ D(text', Len(text')) = 0
            /\ folded' = FoldAll'
            /\ DOMAIN store' = DOMAIN defs'
            /\ \A d \in DOMAIN defs' : store'[d] \in [Elems(d)' -> Val \cup {Undef}]
      BY <2>1, <2>3, <3>1 DEF Running
    <3> QED
      BY <3>2, <3>3 DEF Running
  <2> QED
    BY <1>1, <2>2, <2>4 DEF Meaning
<1> QED
  BY <1>4, <1>5, <1>6 DEF Next

\* Every name a table has is that of a definition, blocks are where lines are,
\* a run stays within the text, and variables have values they can have.
THEOREM TypeCorrect == Spec => []TypeOK
<1>1. Meaning => TypeOK
  <2> SUFFICES ASSUME Meaning PROVE TypeOK
    OBVIOUS
  <2>1. /\ DOMAIN isconst = DOMAIN defs
        /\ \A d \in DOMAIN isconst : isconst[d] \in BOOLEAN
        /\ \A i \in DOMAIN tables :
             /\ \A x \in DOMAIN tables[i].var : tables[i].var[x] \in DOMAIN defs
             /\ tables[i].loop \in 0..Len(text)
             /\ tables[i].at \in 0..Len(text)
    BY NamesExist DEF Meaning
  <2>2. Running
    BY DEF Meaning
  <2>3. phase = "run" =>
         /\ DOMAIN store = DOMAIN defs
         /\ \A d \in DOMAIN store : \A i \in DOMAIN store[d] :
               store[d][i] \in Val \cup {Undef}
    BY <2>2 DEF Running
  <2>4. phase \in {"visit", "run", "over"} /\ pc \in 1..(Len(text) + 1)
    BY <2>2 DEF Running
  <2> QED
    BY <2>1, <2>3, <2>4 DEF TypeOK
<1> QED
  BY <1>1, InitMeaning, NextMeaning, PTL DEF Spec

-------------------------------------------------------------------------------
(* Constants.                                                               *)

\* What is passed to the library is a parameter, and marked.
LEMMA PassedMarked ==
    ASSUME ParamsPassed(Lines), AllBound, Typed, NEW k \in DOMAIN text, text[k].st = "getarray"
    PROVE  /\ text[k].exps[1].def \in DOMAIN isconst
           /\ isconst[text[k].exps[1].def] = FALSE
<1> DEFINE l == text[k].exps[1]
           V == Visible(text, k, l.name)
           M == Max(V)
<1>1. /\ Len(text) \in Nat /\ DOMAIN text = 1..Len(text)
      /\ LineFits(text[k], defs) /\ \E line \in Lines : From(text[k], line)
  BY Appended DEF Typed
<1>2. DOMAIN text[k].exps = {1} /\ l.op = "lval"
  BY <1>1 DEF LineFits
<1>3. l \in LValsOf(text[k].exps)
  BY <1>2 DEF LValsOf, LVals
<1> HIDE DEF l
<1>4. V # {} /\ l.def = text[M].def
  BY <1>3 DEF AllBound, Bound
<1>5. V \in SUBSET (0..Len(text))
  BY <1>1 DEF Visible
<1> HIDE DEF V
<1>6. M \in V
  BY <1>1, <1>4, <1>5, MaxIs
<1> HIDE DEF M
<1>7. M \in DOMAIN text /\ text[M].st \in Defining /\ text[M].name = l.name
  BY <1>1, <1>6 DEF Visible, V
<1>8. PICK p \in Lines : From(text[M], p)
  BY <1>7 DEF Typed
<1>9. PICK q \in Lines : From(text[k], q)
  BY <1>1
<1>10. q.st = "getarray" /\ q.exps[1].name = l.name /\ p.st = text[M].st /\ p.name = l.name
  BY <1>7, <1>8, <1>9 DEF From, l
<1>11. p.st # "def"
  BY <1>10 DEF ParamsPassed
<1>12. text[M].st = "param"
  BY <1>7, <1>10, <1>11 DEF Defining
<1>13. MarkedBy(text[M], isconst)
  BY <1>7 DEF Typed
<1> QED
  BY <1>4, <1>12, <1>13 DEF MarkedBy, l

\* A run writes an effectively constant definition in its declaration only.
LEMMA RunRespects ==
    ASSUME ParamsPassed(Lines), AllBound, Typed, pc \in DOMAIN text, Step,
           NEW d \in DOMAIN defs, isconst[d], store'[d] # store[d]
    PROVE  Here.st = "def" /\ Here.def = d /\ RunDef
<1>1. MarkedBy(Here, isconst)
  BY DEF Typed, Here
<1>2. CASE RunDef
  <2>1. PICK v : store' = [store EXCEPT ![Here.def] = v]
    BY <1>2 DEF RunDef
  <2>2. Here.def = d
    BY <2>1
  <2> QED
    BY <1>2, <2>2 DEF RunDef
<1>3. CASE RunParam
  BY <1>1, <1>3 DEF RunParam, MarkedBy
<1>4. CASE RunAssign
  BY <1>1, <1>4 DEF RunAssign, MarkedBy
<1>5. CASE RunGetArray
  <2>1. Here.st = "getarray"
    BY <1>5 DEF RunGetArray
  <2>2. isconst[Here.exps[1].def] = FALSE
    BY <2>1, PassedMarked DEF Here
  <2> QED
    BY <1>5, <2>2 DEF RunGetArray
<1>6. CASE RunTest \/ RunJump \/ RunOn
  BY <1>6 DEF RunTest, RunJump, RunOn
<1> QED
  BY <1>2, <1>3, <1>4, <1>5, <1>6 DEF Step

\* Half of the compiler's promise that effectively_const is sound: what is left
\* marked constant is written by its declaration only, whatever the program, if
\* the arrays it passes to the library are its parameters.
THEOREM ConstNeverWritten ==
    ASSUME ParamsPassed(Lines)
    PROVE  Spec => ConstUntouched
<1>1. Meaning /\ [Next]_vars =>
        [phase = "run" =>
            \A d \in DOMAIN defs : isconst[d] /\ store'[d] # store[d] =>
                Here.st = "def" /\ Here.def = d]_vars
  <2> SUFFICES ASSUME Meaning, Next, phase = "run", NEW d \in DOMAIN defs,
                      isconst[d], store'[d] # store[d]
               PROVE  Here.st = "def" /\ Here.def = d
    OBVIOUS
  <2>1. RunNext
    BY DEF Next, VisitNext, Over
  <2>2. pc \in DOMAIN text /\ Step
    BY <2>1 DEF RunNext, Stop, runvars
  <2> QED
    BY <2>2, RunRespects DEF Meaning
<1> QED
  BY <1>1, InitMeaning, NextMeaning, PTL DEF Spec, ConstUntouched

\* What is stored in a constant is what get_const found, or nothing yet.
Faithful ==
    phase = "run" =>
        \A d \in DOMAIN defs : isconst[d] =>
            \A i \in Elems(d) :
                folded[d][i] # NotConst => store[d][i] \in {folded[d][i], Undef}

\* An expression has the value it is folded to, by the elements of the first b
\* definitions.
LEMMA FoldsRight ==
    ASSUME Typed, Running, Faithful, phase = "run", NEW b \in Nat, b <= Len(defs),
           NEW consts, \A c \in 1..b : consts[c] = folded[c],
           NEW e, ExpFits(e, defs, b, 0)
    PROVE  /\ Fold(consts, e) # NotConst => Values(e) \subseteq {Fold(consts, e), Undef}
           /\ \A i \in DOMAIN e.idx : e.op = "lval" =>
                LET c == FoldScalar(consts, e.idx[i])
                IN  c # NotConst => ScalarValues(e.idx[i]) \subseteq {c, Undef}
<1>1. /\ DOMAIN defs = 1..Len(defs) /\ Len(defs) \in Nat
      /\ \A d \in DOMAIN defs : DefFits(defs[d])
  BY Appended DEF Typed
<1>2. ASSUME NEW d \in 1..b, isconst[d], NEW i \in Elems(d), consts[d][i] # NotConst
      PROVE  store[d][i] \in {consts[d][i], Undef}
  <2>1. d \in DOMAIN defs /\ consts[d] = folded[d]
    BY <1>1
  <2> QED
    BY <1>2, <2>1 DEF Faithful
<1>3. \A d \in 1..b : /\ 0 \in Elems(d)
                      /\ defs[d].size > 0 => Val \subseteq Elems(d)
  <2> SUFFICES ASSUME NEW d \in 1..b
               PROVE  /\ 0 \in Elems(d)
                      /\ defs[d].size > 0 => Val \subseteq Elems(d)
    OBVIOUS
  <2>1. DefFits(defs[d])
    BY <1>1
  <2> QED
    BY <2>1 DEF DefFits, Elems
<1>4. ASSUME NEW a, \/ a.op = "lit"
                    \/ a.op = "lval" /\ a.def \in 1..b,
             FoldScalar(consts, a) # NotConst
      PROVE  ScalarValues(a) \subseteq {FoldScalar(consts, a), Undef}
  <2>1. CASE a.op = "lit"
    BY <2>1 DEF ScalarValues, FoldScalar
  <2>2. CASE a.op = "lval" /\ a.def \in 1..b
    <3>1. isconst[a.def] /\ FoldScalar(consts, a) = consts[a.def][0]
      <4>1. FoldScalar(consts, a) = IF isconst[a.def] THEN consts[a.def][0] ELSE NotConst
        BY <2>2 DEF FoldScalar
      <4> QED
        BY <1>4, <4>1
    <3>2. store[a.def][0] \in {consts[a.def][0], Undef}
      BY <1>2, <1>3, <1>4, <2>2, <3>1
    <3>3. ScalarValues(a) = {store[a.def][0]}
      BY <2>2 DEF ScalarValues
    <3> QED
      BY <3>1, <3>2, <3>3
  <2> QED
    BY <1>4, <2>1, <2>2
<1>5. CASE e.op = "lit"
  <2>1. Values(e) = ScalarValues(e) /\ Fold(consts, e) = FoldScalar(consts, e)
    BY <1>5 DEF Values, Fold
  <2> QED
    BY <1>4, <1>5, <2>1
<1>6. CASE e.op = "getint"
  <2>1. Fold(consts, e) = NotConst
    BY <1>6 DEF Fold, FoldScalar
  <2> QED
    BY <1>6, <2>1
<1>7. CASE e.op = "lval" /\ e.def \in 1..b /\ e.idx = <<>>
  <2>1. Values(e) = ScalarValues(e) /\ Fold(consts, e) = FoldScalar(consts, e)
    BY <1>7 DEF Values, Fold
  <2>2. DOMAIN e.idx = {}
    BY <1>7
  <2> QED
    BY <1>4, <1>7, <2>1, <2>2
<1>8. CASE /\ e.op = "lval" /\ e.def \in 1..b /\ e.idx # <<>> /\ DOMAIN e.idx = {1}
           /\ defs[e.def].size > 0 /\ IndexFits(e.idx[1], defs, b)
  <2> DEFINE a == e.idx[1]
             x == FoldScalar(consts, a)
             d == e.def
  <2>1. x # NotConst => ScalarValues(a) \subseteq {x, Undef}
    BY <1>4, <1>8 DEF IndexFits
  <2>2. ASSUME Fold(consts, e) # NotConst
        PROVE  Values(e) \subseteq {Fold(consts, e), Undef}
    <3>1. Fold(consts, e) = IF isconst[d] /\ x # NotConst THEN consts[d][x] ELSE NotConst
      BY <1>8 DEF Fold
    <3>2. isconst[d] /\ x # NotConst /\ Fold(consts, e) = consts[d][x]
      BY <2>2, <3>1
    <3>3. Values(e) = {IF i = Undef THEN Undef ELSE store[d][i] : i \in ScalarValues(a)}
      BY <1>8 DEF Values
    <3>4. ScalarValues(a) \subseteq Val \cup {Undef}
      BY <1>8, ValuesTyped
    <3> HIDE DEF x, a, d
    <3>5. ASSUME NEW i \in ScalarValues(a), i # Undef
          PROVE  store[d][i] \in {consts[d][x], Undef}
      <4>1. i = x /\ i \in Val
        BY <2>1, <3>2, <3>4, <3>5
      <4>2. i \in Elems(d) /\ d \in 1..b
        BY <1>3, <1>8, <4>1 DEF d
      <4>3. consts[d][i] # NotConst
        BY <2>2, <3>2, <4>1
      <4> QED
        BY <1>2, <3>2, <4>1, <4>2, <4>3
    <3> QED
      BY <3>2, <3>3, <3>5
  <2> HIDE DEF x
  <2> QED
    BY <1>8, <2>1, <2>2 DEF x
<1> QED
  BY <1>5, <1>6, <1>7, <1>8 DEF ExpFits

\* A declaration stores what its initialisers are folded to.
LEMMA RunFaithful ==
    ASSUME ParamsPassed(Lines), Meaning, Faithful, phase = "run", pc \in DOMAIN text, Step
    PROVE  Faithful'
<1>1. UNCHANGED <<phase, text, tables, defs, isconst, folded>>
  BY DEF Step, RunDef, RunParam, RunAssign, RunGetArray, RunTest, RunJump, RunOn,
         GoTo, visitvars
<1>2. /\ AllBound /\ Typed /\ Running
      /\ DOMAIN defs = 1..Len(defs) /\ Len(defs) \in Nat /\ IsSeq(defs)
      /\ DOMAIN store = DOMAIN defs
      /\ \A d \in DOMAIN defs : DOMAIN store[d] = Elems(d) /\ DefFits(defs[d])
  BY Appended DEF Meaning, Typed, Running
<1>3. ASSUME NEW d \in DOMAIN defs, isconst[d], NEW i \in Elems(d), folded[d][i] # NotConst
      PROVE  store'[d][i] \in {folded[d][i], Undef}
  <2>1. CASE store'[d] = store[d]
    BY <1>3, <2>1 DEF Faithful
  <2>2. CASE store'[d] # store[d]
    <3>1. Here.st = "def" /\ Here.def = d /\ RunDef
      BY <1>2, <1>3, <2>2, RunRespects
    <3>2. LineFits(Here, defs)
      BY <1>2 DEF Typed, Here
    <3> DEFINE exps == Here.exps
               b == d - 1
               rest == IF defs[d].global \/ (defs[d].size > 0 /\ exps # <<>>)
                       THEN 0 ELSE Undef
    <3>3. PICK init \in [DOMAIN exps -> Val] :
            /\ \A j \in DOMAIN init : init[j] \in Values(exps[j])
            /\ store' = [store EXCEPT ![d] =
                  [j \in DOMAIN @ |-> IF j < Len(init) THEN init[j + 1] ELSE rest]]
      <4>1. PICK init \in [DOMAIN Here.exps -> Val] :
              LET e    == Here.def
                  left == IF defs[e].global \/ (defs[e].size > 0 /\ Here.exps # <<>>)
                          THEN 0 ELSE Undef
              IN  /\ \A j \in DOMAIN init : init[j] \in Values(Here.exps[j])
                  /\ store' = [store EXCEPT ![e] =
                        [j \in DOMAIN @ |-> IF j < Len(init) THEN init[j + 1] ELSE left]]
        BY <3>1, Zenon DEF RunDef
      <4> QED
        BY <3>1, <4>1, Zenon
    <3>4. /\ IsSeq(exps) /\ defs[d].init = exps
          /\ \A j \in DOMAIN exps : ExpFits(exps[j], defs, b, 0)
      BY <3>1, <3>2 DEF LineFits, Defining
    <3> HIDE DEF exps, rest
    <3>5. /\ DOMAIN exps = 1..Len(exps) /\ Len(exps) \in Nat
          /\ init \in Seq(Val) /\ Len(init) = Len(exps)
      <4>1. DOMAIN exps = 1..Len(exps) /\ Len(exps) \in Nat
        BY <3>4, Appended
      <4> QED
        BY <3>3, <4>1
    <3>6. store'[d][i] = IF i < Len(init) THEN init[i + 1] ELSE rest
      BY <1>2, <1>3, <3>3
    <3>7. b \in Nat /\ b <= Len(defs) /\ d \in 1..Len(defs) /\ i \in Nat
      <4>1. i \in Nat
        BY <1>2 DEF Elems, DefFits
      <4> QED
        BY <1>2, <4>1
    <3>8. PICK consts : /\ FoldAll[d] = FoldDef(consts, defs[d])
                        /\ \A c \in 1..(d - 1) : consts[c] = FoldAll[c]
      BY <1>2, <3>7, FoldAllIs
    <3>9. folded = FoldAll
      BY <1>2 DEF Running
    <3>10. folded[d][i] = IF i < Len(exps) THEN Fold(consts, exps[i + 1]) ELSE 0
      <4>1. folded[d] = [j \in Elems(d) |-> IF j < Len(exps) THEN Fold(consts, exps[j + 1]) ELSE 0]
        BY <3>4, <3>8, <3>9 DEF FoldDef, Elems
      <4> QED
        BY <1>3, <4>1
    <3>11. \A c \in 1..b : consts[c] = folded[c]
      BY <3>8, <3>9
    <3>12. CASE i < Len(exps)
      <4>1. i + 1 \in DOMAIN exps /\ i + 1 \in DOMAIN init
        BY <3>5, <3>7, <3>12
      <4> DEFINE e == exps[i + 1]
      <4>2. ExpFits(e, defs, b, 0) /\ init[i + 1] \in Values(e)
        BY <3>3, <3>4, <4>1
      <4>3. folded[d][i] = Fold(consts, e) /\ store'[d][i] = init[i + 1]
        BY <3>5, <3>6, <3>10, <3>12
      <4> HIDE DEF e, b
      <4>4. Values(e) \subseteq {Fold(consts, e), Undef}
        BY <1>2, <1>3, <3>7, <3>11, <4>2, <4>3, FoldsRight
      <4> QED
        BY <4>2, <4>3, <4>4
    <3>13. CASE ~ (i < Len(exps))
      <4>1. folded[d][i] = 0 /\ store'[d][i] = rest
        BY <3>5, <3>6, <3>10, <3>13
      <4> QED
        BY <4>1 DEF rest
    <3> QED
      BY <3>12, <3>13
  <2> QED
    BY <2>1, <2>2
<1>4. \A d : Elems(d)' = Elems(d)
  BY <1>1 DEF Elems
<1>5. \A d \in DOMAIN defs' : isconst'[d] =>
            \A i \in Elems(d)' :
                folded'[d][i] # NotConst => store'[d][i] \in {folded'[d][i], Undef}
  BY <1>1, <1>3, <1>4
<1> QED
  BY <1>5 DEF Faithful

\* The compiler's promise that effectively_const is sound: what get_const
\* replaces the expressions of a line by is what they are when it is run, if
\* the arrays passed to the library are parameters.
THEOREM ConstantsAreRight ==
    ASSUME ParamsPassed(Lines)
    PROVE  Spec => []FoldSound
<1>1. Init => Faithful
  BY DEF Init, Faithful
<1>2. Meaning /\ Faithful /\ [Next]_vars => Faithful'
  <2> SUFFICES ASSUME Meaning, Faithful, [Next]_vars PROVE Faithful'
    OBVIOUS
  <2>1. CASE VisitNext
    <3>1. CASE phase' # "run"
      BY <3>1 DEF Faithful
    <3>2. CASE Complete
      <4>1. Running'
        BY <2>1, <3>2, CompleteRunning DEF VisitNext
      <4>2. /\ store' = [d \in DOMAIN defs |-> [i \in DOMAIN folded'[d] |-> Undef]]
            /\ defs' = defs
        BY <3>2 DEF Complete, visitvars
      <4>3. \A d : Elems(d)' = Elems(d)
        BY <4>2 DEF Elems
      <4>4. ASSUME phase' = "run", NEW d \in DOMAIN defs, NEW i \in Elems(d)
            PROVE  store'[d][i] = Undef
        <5>1. DOMAIN store'[d] = Elems(d)
          BY <4>1, <4>2, <4>3, <4>4 DEF Running
        <5> QED
          BY <4>2, <4>4, <5>1
      <4> QED
        BY <4>2, <4>3, <4>4 DEF Faithful
    <3> QED
      BY <2>1, <3>1, <3>2 DEF VisitNext, Visit, Refuse
  <2>2. CASE RunNext
    <3>1. CASE Stop
      BY <3>1 DEF Stop, Faithful
    <3>2. CASE pc \in DOMAIN text /\ Step
      BY <2>2, <3>2, RunFaithful DEF RunNext
    <3> QED
      BY <2>2, <3>1, <3>2 DEF RunNext
  <2>3. CASE Over \/ UNCHANGED vars
    BY <2>3 DEF Over, vars, visitvars, runvars, Faithful, Elems
  <2> QED
    BY <2>1, <2>2, <2>3 DEF Next
<1>3. Meaning /\ Faithful => FoldSound
  <2> SUFFICES ASSUME Meaning, Faithful, phase = "run", pc <= Len(text),
                      Here.st # "getarray"
               PROVE  /\ \A i \in DOMAIN Here.exps :
                           LET c == Fold(folded, Here.exps[i])
                           IN  c # NotConst => Values(Here.exps[i]) \subseteq {c, Undef}
                      /\ \A l \in LValsOf(Here.lhs) : \A i \in DOMAIN l.idx :
                           LET c == FoldScalar(folded, l.idx[i])
                           IN  c # NotConst => ScalarValues(l.idx[i]) \subseteq {c, Undef}
    BY DEF FoldSound
  <2>1. /\ Typed /\ Running /\ Len(defs) \in Nat
        /\ DOMAIN text = 1..Len(text) /\ pc \in DOMAIN text
    <3>1. /\ Typed /\ Running /\ Len(defs) \in Nat
          /\ DOMAIN text = 1..Len(text) /\ Len(text) \in Nat
      BY Appended DEF Meaning, Typed
    <3>2. pc \in 1..(Len(text) + 1)
      BY <3>1 DEF Running
    <3> QED
      BY <3>1, <3>2
  <2>2. LineFits(Here, defs)
    BY <2>1 DEF Typed, Here
  <2> DEFINE b == IF Here.st \in Defining THEN Here.def - 1 ELSE Len(defs)
  <2>3. /\ b \in Nat /\ b <= Len(defs)
        /\ \A i \in DOMAIN Here.exps : ExpFits(Here.exps[i], defs, b, 0)
    BY <2>1, <2>2 DEF LineFits
  <2>4. ASSUME NEW i \in DOMAIN Here.exps, Fold(folded, Here.exps[i]) # NotConst
        PROVE  Values(Here.exps[i]) \subseteq {Fold(folded, Here.exps[i]), Undef}
    <3> HIDE DEF b
    <3> QED
      BY <2>1, <2>3, <2>4, FoldsRight
  <2>5. ASSUME NEW l \in LValsOf(Here.lhs), NEW i \in DOMAIN l.idx,
               FoldScalar(folded, l.idx[i]) # NotConst
        PROVE  ScalarValues(l.idx[i]) \subseteq {FoldScalar(folded, l.idx[i]), Undef}
    <3>1. PICK j \in DOMAIN Here.lhs : l \in LVals(Here.lhs[j])
      BY DEF LValsOf
    <3> DEFINE e == Here.lhs[j]
    <3>2. e.op = "lval" /\ ExpFits(e, defs, Len(defs), 0)
      BY <2>2 DEF LineFits
    <3>3. l = e \/ \E m \in DOMAIN e.idx : e.idx[m].op = "lval" /\ l = e.idx[m]
      BY <3>1, <3>2 DEF LVals
    <3> HIDE DEF e
    <3>4. CASE l = e
      <4>1. /\ ExpFits(l, defs, Len(defs), 0) /\ l.op = "lval"
            /\ \A c \in 1..Len(defs) : folded[c] = folded[c]
            /\ Len(defs) <= Len(defs)
        BY <2>1, <3>2, <3>4
      <4>2. \A m \in DOMAIN l.idx : l.op = "lval" =>
              LET c == FoldScalar(folded, l.idx[m])
              IN  c # NotConst => ScalarValues(l.idx[m]) \subseteq {c, Undef}
        BY <2>1, <4>1, FoldsRight
      <4> QED
        BY <2>5, <4>1, <4>2
    <3>5. CASE \E m \in DOMAIN e.idx : e.idx[m].op = "lval" /\ l = e.idx[m]
      <4>1. PICK m \in DOMAIN e.idx : e.idx[m].op = "lval" /\ l = e.idx[m]
        BY <3>5
      <4>2. m = 1 /\ IndexFits(l, defs, Len(defs))
        BY <3>2, <4>1 DEF ExpFits
      <4>3. l.idx = <<>>
        BY <4>1, <4>2 DEF IndexFits
      <4> QED
        BY <4>3
    <3> QED
      BY <3>3, <3>4, <3>5
  <2> QED
    BY <2>4, <2>5
<1> QED
  BY <1>1, <1>2, <1>3, InitMeaning, NextMeaning, PTL DEF Spec
===============================================================================
