--------------------------- MODULE GenInst_proof ----------------------------
(***************************************************************************)
(* What the instructions of each statement do to a machine: operands are   *)
(* loaded and results stored, whatever their places; the global array is   *)
(* initialised; registers are saved around a call, parameters are passed,  *)
(* and the result is fetched before the rest is restored.                  *)
(***************************************************************************)
EXTENDS GenInst, Fixpoints, SequenceTheorems, TLAPS

-------------------------------------------------------------------------------
(* Sequences, and instructions one after the other.                        *)

\* a sequence, of whatever it has for elements
IsList(s) == s \in Seq({s[i] : i \in DOMAIN s})

\* Lists are what sequence theorems speak of.
LEMMA ListIs ==
    /\ \A S : \A s \in Seq(S) : IsList(s)
    /\ \A s : IsList(s) => Len(s) \in Nat /\ DOMAIN s = 1..Len(s)
<1>1. ASSUME NEW S, NEW s \in Seq(S) PROVE IsList(s)
  <2> DEFINE T == {s[i] : i \in DOMAIN s}
             n == Len(s)
  <2>1. n \in Nat /\ DOMAIN s = 1..n /\ s = [i \in 1..n |-> s[i]]
    BY LenProperties
  <2>2. s \in [1..n -> T]
    BY <2>1
  <2>3. s \in Seq(T)
    BY <2>1, <2>2, SeqDef
  <2> QED
    BY <2>3 DEF IsList
<1>2. ASSUME NEW s, IsList(s) PROVE Len(s) \in Nat /\ DOMAIN s = 1..Len(s)
  BY <1>2, LenProperties DEF IsList
<1> QED
  BY <1>1, <1>2

\* A function on the first numbers is a list.
LEMMA FunctionList ==
    ASSUME NEW n \in Nat, NEW s, s = [i \in 1..n |-> s[i]]
    PROVE  IsList(s) /\ Len(s) = n /\ DOMAIN s = 1..n
<1> DEFINE T == {s[i] : i \in DOMAIN s}
<1>1. DOMAIN s = 1..n
  OBVIOUS
<1>2. s \in [1..n -> T]
  BY <1>1
<1>3. s \in Seq(T)
  BY <1>2, SeqDef
<1>4. IsList(s) /\ Len(s) \in Nat /\ DOMAIN s = 1..Len(s)
  BY <1>3, ListIs
<1>5. Len(s) = n
  <2>1. 1..Len(s) = 1..n /\ Len(s) \in Nat
    BY <1>1, <1>4
  <2> DEFINE l == Len(s)
  <2> HIDE DEF l
  <2>2. l \in Nat /\ 1..l = 1..n => l = n
    <3> SUFFICES ASSUME l \in Nat, 1..l = 1..n, l # n PROVE FALSE
      OBVIOUS
    <3>1. CASE l < n
      <4>1. n \in 1..n /\ n \notin 1..l
        BY <3>1
      <4> QED
        BY <4>1
    <3>2. CASE n < l
      <4>1. l \in 1..l /\ l \notin 1..n
        BY <3>2
      <4> QED
        BY <4>1
    <3> QED
      BY <3>1, <3>2
  <2> QED
    BY <2>1, <2>2 DEF l
<1> QED
  BY <1>1, <1>4, <1>5

\* Two lists have their elements in one set.
LEMMA ListsTogether ==
    ASSUME NEW s, NEW t, IsList(s), IsList(t)
    PROVE  \E S : s \in Seq(S) /\ t \in Seq(S)
<1> DEFINE A == {s[i] : i \in DOMAIN s}
           B == {t[i] : i \in DOMAIN t}
<1>1. s \in Seq(A) /\ t \in Seq(B)
  BY DEF IsList
<1> HIDE DEF A, B
<1>2. s \in Seq(A \cup B) /\ t \in Seq(A \cup B)
  BY <1>1, SeqMonotonic
<1> QED
  BY <1>2

\* Lists are put together.
LEMMA ListConcat ==
    ASSUME NEW s, NEW t, IsList(s), IsList(t)
    PROVE  /\ IsList(s \o t)
           /\ Len(s \o t) = Len(s) + Len(t)
           /\ DOMAIN (s \o t) = 1..(Len(s) + Len(t))
           /\ \A i \in 1..(Len(s) + Len(t)) :
                 (s \o t)[i] = IF i <= Len(s) THEN s[i] ELSE t[i - Len(s)]
           /\ s \o <<>> = s /\ <<>> \o s = s
<1>1. PICK S : s \in Seq(S) /\ t \in Seq(S)
  BY ListsTogether
<1>2. /\ s \o t \in Seq(S) /\ Len(s \o t) = Len(s) + Len(t)
      /\ \A i \in 1..(Len(s) + Len(t)) :
                 (s \o t)[i] = IF i <= Len(s) THEN s[i] ELSE t[i - Len(s)]
  BY <1>1, ConcatProperties
<1>3. s \o <<>> = s /\ <<>> \o s = s
  BY <1>1, ConcatEmptySeq
<1>4. IsList(s \o t)
  BY <1>2, ListIs
<1> QED
  BY <1>2, <1>3, <1>4, ListIs

\* An element is added.
LEMMA ListAppend ==
    ASSUME NEW s, NEW e, IsList(s)
    PROVE  /\ IsList(Append(s, e))
           /\ Len(Append(s, e)) = Len(s) + 1
           /\ DOMAIN Append(s, e) = 1..(Len(s) + 1)
           /\ \A i \in 1..Len(s) : Append(s, e)[i] = s[i]
           /\ Append(s, e)[Len(s) + 1] = e
           /\ Append(s, e) = s \o <<e>>
<1> DEFINE A == {s[i] : i \in DOMAIN s}
<1>1. s \in Seq(A)
  BY DEF IsList
<1> HIDE DEF A
<1>2. s \in Seq(A \cup {e}) /\ e \in A \cup {e}
  BY <1>1, SeqMonotonic
<1> DEFINE B == A \cup {e}
<1>3. s \in Seq(B) /\ e \in B
  BY <1>2
<1> HIDE DEF B
<1>4. /\ Append(s, e) \in Seq(B) /\ Len(Append(s, e)) = Len(s) + 1
      /\ \A i \in 1..Len(s) : Append(s, e)[i] = s[i]
      /\ Append(s, e)[Len(s) + 1] = e
  BY <1>3, AppendProperties
<1>5. Append(s, e) = s \o <<e>>
  BY <1>3, AppendIsConcat
<1>6. IsList(Append(s, e))
  BY <1>4, ListIs
<1> QED
  BY <1>4, <1>5, <1>6, ListIs

\* The last element is left out.
LEMMA ListFront ==
    ASSUME NEW s, IsList(s), Len(s) > 0
    PROVE  /\ IsList(Front(s))
           /\ Len(Front(s)) = Len(s) - 1
           /\ DOMAIN Front(s) = 1..(Len(s) - 1)
           /\ \A i \in 1..(Len(s) - 1) : Front(s)[i] = s[i]
<1> DEFINE S == {s[i] : i \in DOMAIN s}
           n == Len(s)
<1>1. n \in Nat /\ DOMAIN s = 1..n /\ n > 0
  BY ListIs
<1>2. \A i \in 1..(n - 1) : s[i] \in S
  BY <1>1
<1>3. Front(s) = SubSeq(s, 1, n - 1)
  BY DEF Front
<1> HIDE DEF S, n
<1>4. /\ Front(s) \in Seq(S) /\ Len(Front(s)) = n - 1
      /\ \A i \in 1..(n - 1) : Front(s)[i] = s[i]
  <2> DEFINE k == n - 1
  <2>1. k \in Nat /\ k \in Int /\ (IF 1 <= k THEN k - 1 + 1 ELSE 0) = k
        /\ k - 1 + 1 = k /\ \A i \in 1..k : 1 + i - 1 = i
    BY <1>1
  <2>2. \A i \in 1..k : s[i] \in S
    BY <1>2
  <2>3. Front(s) = SubSeq(s, 1, k)
    BY <1>3
  <2> HIDE DEF k
  <2>4. /\ SubSeq(s, 1, k) \in Seq(S)
        /\ Len(SubSeq(s, 1, k)) = IF 1 <= k THEN k - 1 + 1 ELSE 0
        /\ \A i \in 1..(k - 1 + 1) : SubSeq(s, 1, k)[i] = s[1 + i - 1]
    BY <2>1, <2>2, SubSeqProperties
  <2>5. /\ Front(s) \in Seq(S) /\ Len(Front(s)) = k
        /\ \A i \in 1..k : Front(s)[i] = s[i]
    BY <2>1, <2>3, <2>4
  <2> QED
    BY <2>5 DEF k
<1>5. IsList(Front(s))
  BY <1>4, ListIs
<1>6. DOMAIN Front(s) = 1..(n - 1)
  BY <1>4, <1>5, ListIs
<1> QED
  BY <1>4, <1>5, <1>6 DEF n

\* Lists with the same elements are the same.
LEMMA ListEqual ==
    ASSUME NEW s, NEW t, IsList(s), IsList(t), Len(s) = Len(t),
           \A i \in 1..Len(s) : s[i] = t[i]
    PROVE  s = t
<1>1. PICK S : s \in Seq(S) /\ t \in Seq(S)
  BY ListsTogether
<1> QED
  BY <1>1, SeqEqual

\* lists with the same elements
SameList(s, t) ==
    /\ IsList(s) /\ IsList(t) /\ Len(s) = Len(t)
    /\ \A i \in 1..Len(s) : s[i] = t[i]

\* Lists of one length that agree in every place are equal.
LEMMA SameListEqual ==
    ASSUME NEW s, NEW t, SameList(s, t)
    PROVE  s = t
BY ListEqual DEF SameList

\* What was added is left out.
LEMMA FrontAppend ==
    ASSUME NEW s, NEW e, IsList(s)
    PROVE  Front(Append(s, e)) = s
<1>0. Len(s) \in Nat
  BY ListIs
<1>1. /\ IsList(Append(s, e)) /\ Len(Append(s, e)) = Len(s) + 1 /\ Len(s) \in Nat
      /\ \A i \in 1..Len(s) : Append(s, e)[i] = s[i]
  BY <1>0, ListAppend
<1> DEFINE t == Append(s, e)
           n == Len(s)
<1>2. Len(t) > 0 /\ Len(t) - 1 = n
  BY <1>1
<1> HIDE DEF t
<1>3. IsList(Front(t)) /\ Len(Front(t)) = n /\ \A i \in 1..n : Front(t)[i] = t[i]
  BY <1>1, <1>2, ListFront DEF t
<1>5. SameList(Front(t), s)
  BY <1>1, <1>3 DEF t, SameList
<1>4. Front(t) = s
  BY <1>5, SameListEqual
<1> QED
  BY <1>4 DEF t

\* Short lists.
LEMMA ShortLists ==
    /\ IsList(<<>>)
    /\ \A a : IsList(<<a>>) /\ <<a>> = Append(<<>>, a)
    /\ \A a, b : IsList(<<a, b>>) /\ <<a, b>> = Append(<<a>>, b)
    /\ \A a, b, c : IsList(<<a, b, c>>) /\ <<a, b, c>> = Append(<<a, b>>, c)
<1>1. IsList(<<>>)
  <2>1. <<>> \in Seq({})
    OBVIOUS
  <2> QED
    BY <2>1, ListIs
<1>2. \A a : IsList(<<a>>) /\ <<a>> = Append(<<>>, a)
  <2> TAKE a
  <2>1. <<a>> \in Seq({a}) /\ <<a>> = Append(<<>>, a)
    OBVIOUS
  <2> QED
    BY <2>1, ListIs
<1>3. \A a, b : IsList(<<a, b>>) /\ <<a, b>> = Append(<<a>>, b)
  <2> TAKE a, b
  <2>1. <<a, b>> \in Seq({a, b}) /\ <<a, b>> = Append(<<a>>, b)
    OBVIOUS
  <2> QED
    BY <2>1, ListIs
<1>4. \A a, b, c : IsList(<<a, b, c>>) /\ <<a, b, c>> = Append(<<a, b>>, c)
  <2> TAKE a, b, c
  <2>1. <<a, b, c>> \in Seq({a, b, c}) /\ <<a, b, c>> = Append(<<a, b>>, c)
    OBVIOUS
  <2> QED
    BY <2>1, ListIs
<1> QED
  BY <1>1, <1>2, <1>3, <1>4

-------------------------------------------------------------------------------
\* the operator FoldLeft is defined by, for one operation and one list
Greatest(S) == CHOOSE n \in S : \A k \in S : n >= k

\* A finite set of numbers has the greatest element that Max chooses.
LEMMA GreatestIs ==
    ASSUME NEW k \in Nat, NEW S \in SUBSET (1..(k + 1)), k + 1 \in S
    PROVE  Greatest(S) = k + 1
<1>1. \A x \in S : k + 1 >= x
  OBVIOUS
<1>2. \A n \in S : (\A x \in S : n >= x) => n = k + 1
  OBVIOUS
<1> QED
  BY <1>1, <1>2 DEF Greatest

\* A list of instructions is executed one after the other.
LEMMA ExecuteAllIs ==
    ASSUME NEW m, NEW s, NEW n \in Nat, DOMAIN s = 1..n
    PROVE  \E g : /\ g[0] = m
                  /\ \A k \in 1..n : g[k] = Execute(g[k - 1], s[k])
                  /\ ExecuteAll(m, s) = g[n]
<1> DEFINE Then(g, S) == IF S = {} THEN m
                         ELSE Execute(g[S \ {Greatest(S)}], s[Greatest(S)])
           Is(g, k) == g = [S \in SUBSET (1..k) |-> Then(g, S)]
           K == {k \in 0..n : \E g : Is(g, k)}
<1>1. 0 \in K
  <2> DEFINE g == [S \in SUBSET (1..0) |-> m]
  <2>1. \A S \in SUBSET (1..0) : S = {}
    OBVIOUS
  <2>2. Is(g, 0)
    BY <2>1
  <2> QED
    BY <2>2
<1>2. ASSUME NEW k \in 0..(n - 1), k \in K PROVE k + 1 \in K
  <2>1. PICK g : Is(g, k)
    BY <1>2
  <2> DEFINE h == [S \in SUBSET (1..(k + 1)) |->
                      IF k + 1 \in S THEN Execute(g[S \ {k + 1}], s[k + 1]) ELSE g[S]]
  <2>2. \A S \in SUBSET (1..k) : g[S] = Then(g, S) /\ k + 1 \notin S
                                 /\ S \in SUBSET (1..(k + 1))
    <3> HIDE DEF Then
    <3> QED
      BY <2>1
  <2>3. \A S \in SUBSET (1..k) : h[S] = g[S]
    BY <2>2
  <2>4. ASSUME NEW S \in SUBSET (1..(k + 1)) PROVE h[S] = Then(h, S)
    <3>1. CASE k + 1 \in S
      <4>1. S \ {k + 1} \in SUBSET (1..k)
        OBVIOUS
      <4>2. h[S] = Execute(h[S \ {k + 1}], s[k + 1])
        BY <2>3, <3>1, <4>1
      <4>3. Greatest(S) = k + 1 /\ S # {}
        BY <3>1, GreatestIs
      <4> HIDE DEF h
      <4> QED
        BY <4>2, <4>3
    <3>2. CASE k + 1 \notin S
      <4>1. S \in SUBSET (1..k)
        BY <3>2
      <4>2. h[S] = g[S] /\ g[S] = Then(g, S)
        BY <2>2, <2>3, <4>1
      <4>3. S # {} => S \ {Greatest(S)} \in SUBSET (1..k)
        BY <4>1
      <4>4. S # {} => h[S \ {Greatest(S)}] = g[S \ {Greatest(S)}]
        BY <2>3, <4>3
      <4> HIDE DEF h
      <4> QED
        BY <4>2, <4>4
    <3> QED
      BY <3>1, <3>2
  <2>5. h = [S \in SUBSET (1..(k + 1)) |-> h[S]]
    OBVIOUS
  <2> HIDE DEF h, Then
  <2>6. Is(h, k + 1)
    BY <2>4, <2>5
  <2> QED
    BY <2>6
<1> HIDE DEF K, Then
<1>3. n \in K
  <2>1. 0..n \subseteq K
    BY <1>1, <1>2, InductionUpTo
  <2> QED
    BY <2>1
<1> DEFINE f == CHOOSE g : Is(g, n)
<1>4. Is(f, n)
  BY <1>3 DEF K
<1>5. ExecuteAll(m, s) = f[1..n]
  BY DEF ExecuteAll, FoldLeft, MapThenFoldSet, Max, Then, Greatest
<1> HIDE DEF f
<1> DEFINE h == [k \in 0..n |-> f[1..k]]
<1>6. f[{}] = m
  BY <1>4 DEF Then
<1>7. ASSUME NEW k \in 1..n PROVE f[1..k] = Execute(f[1..(k - 1)], s[k])
  <2>1. 1..k \in SUBSET (1..n) /\ 1..k # {} /\ (1..k) \ {k} = 1..(k - 1)
    OBVIOUS
  <2>2. Greatest(1..k) = k
    <3> DEFINE j == k - 1
    <3>1. j \in Nat /\ k = j + 1
      OBVIOUS
    <3> HIDE DEF j
    <3> QED
      BY <3>1, GreatestIs
  <2>3. f[1..k] = Then(f, 1..k)
    BY <1>4, <2>1
  <2> QED
    BY <2>1, <2>2, <2>3 DEF Then
<1>8. 1..0 = {} /\ 0 \in 0..n /\ n \in 0..n /\ \A k \in 1..n : k \in 0..n /\ k - 1 \in 0..n
  OBVIOUS
<1>9. h[0] = m /\ h[n] = f[1..n] /\ \A k \in 1..n : h[k] = Execute(h[k - 1], s[k])
  BY <1>6, <1>7, <1>8
<1> HIDE DEF h
<1> QED
  BY <1>5, <1>9

\* what the n instructions s lead the machine m to, one after the other
Passes(m, s, g, n) ==
    /\ n \in Nat
    /\ DOMAIN s = 1..n
    /\ g[0] = m
    /\ \A k \in 1..n : g[k] = Execute(g[k - 1], s[k])

\* What is executed is given by what its beginnings lead to.
LEMMA ExecuteAllOnly ==
    ASSUME NEW m, NEW s, NEW g, NEW n, Passes(m, s, g, n)
    PROVE  ExecuteAll(m, s) = g[n]
<1>0. /\ n \in Nat /\ DOMAIN s = 1..n /\ g[0] = m
      /\ \A k \in 1..n : g[k] = Execute(g[k - 1], s[k])
  BY DEF Passes
<1>1. PICK h : /\ h[0] = m
               /\ \A k \in 1..n : h[k] = Execute(h[k - 1], s[k])
               /\ ExecuteAll(m, s) = h[n]
  BY <1>0, ExecuteAllIs
<1> DEFINE K == {k \in 0..n : g[k] = h[k]}
<1>2. 0 \in K
  BY <1>0, <1>1
<1>3. ASSUME NEW k \in 0..(n - 1), k \in K PROVE k + 1 \in K
  <2>1. k + 1 \in 1..n /\ (k + 1) - 1 = k
    BY <1>0
  <2>2. g[k + 1] = Execute(g[k], s[k + 1]) /\ h[k + 1] = Execute(h[k], s[k + 1])
    BY <1>0, <1>1, <2>1
  <2> QED
    BY <1>3, <2>1, <2>2
<1> HIDE DEF K
<1>4. n \in K
  <2>1. 0..n \subseteq K
    BY <1>0, <1>2, <1>3, InductionUpTo
  <2> QED
    BY <1>0, <2>1
<1> QED
  BY <1>1, <1>4 DEF K

\* No instructions do nothing.
LEMMA RunEmpty == \A m : ExecuteAll(m, <<>>) = m
<1>1. DOMAIN <<>> = 1..0
  OBVIOUS
<1>2. ASSUME NEW m PROVE ExecuteAll(m, <<>>) = m
  <2>1. PICK g : g[0] = m /\ ExecuteAll(m, <<>>) = g[0]
    BY <1>1, ExecuteAllIs
  <2> QED
    BY <2>1
<1> QED
  BY <1>2

\* One instruction more is executed after the others.
LEMMA RunAppend ==
    ASSUME NEW m, NEW s, NEW e, IsList(s)
    PROVE  ExecuteAll(m, Append(s, e)) = Execute(ExecuteAll(m, s), e)
<1> DEFINE n == Len(s)
           t == Append(s, e)
<1>1. n \in Nat /\ DOMAIN s = 1..n /\ DOMAIN t = 1..(n + 1)
      /\ (\A i \in 1..n : t[i] = s[i]) /\ t[n + 1] = e
  BY ListIs, ListAppend
<1> HIDE DEF n, t
<1>2. PICK g : /\ g[0] = m
               /\ \A k \in 1..(n + 1) : g[k] = Execute(g[k - 1], t[k])
               /\ ExecuteAll(m, t) = g[n + 1]
  BY <1>1, ExecuteAllIs
<1>3. \A k \in 1..n : g[k] = Execute(g[k - 1], s[k])
  BY <1>1, <1>2
<1>7. Passes(m, s, g, n)
  BY <1>1, <1>2, <1>3 DEF Passes
<1>4. ExecuteAll(m, s) = g[n]
  BY <1>7, ExecuteAllOnly
<1>5. n + 1 \in 1..(n + 1) /\ (n + 1) - 1 = n
  BY <1>1
<1>6. g[n + 1] = Execute(g[n], e)
  BY <1>1, <1>2, <1>5
<1> QED
  BY <1>2, <1>4, <1>6 DEF t

\* A list after another is executed after it.
LEMMA RunConcat ==
    ASSUME NEW m, NEW s, NEW t, IsList(s), IsList(t)
    PROVE  ExecuteAll(m, s \o t) = ExecuteAll(ExecuteAll(m, s), t)
<1> DEFINE n == Len(s)
           l == Len(t)
           u == s \o t
<1>1. /\ n \in Nat /\ DOMAIN s = 1..n /\ l \in Nat /\ DOMAIN t = 1..l
      /\ DOMAIN u = 1..(n + l)
      /\ \A i \in 1..(n + l) : u[i] = IF i <= n THEN s[i] ELSE t[i - n]
  BY ListIs, ListConcat
<1> HIDE DEF n, l, u
<1> DEFINE z == n + l
<1>z. z \in Nat /\ DOMAIN u = 1..z
  BY <1>1
<1> HIDE DEF z
<1>2. PICK g : /\ g[0] = m
               /\ \A k \in 1..z : g[k] = Execute(g[k - 1], u[k])
               /\ ExecuteAll(m, u) = g[z]
  BY <1>z, ExecuteAllIs
<1> USE DEF z
<1>3. ExecuteAll(m, s) = g[n]
  <2>1. \A k \in 1..n : k \in 1..(n + l) /\ u[k] = s[k]
    BY <1>1
  <2>2. \A k \in 1..n : g[k] = Execute(g[k - 1], s[k])
    BY <1>2, <2>1
  <2>3. Passes(m, s, g, n)
    BY <1>1, <1>2, <2>2 DEF Passes
  <2> QED
    BY <2>3, ExecuteAllOnly
<1> DEFINE h == [k \in 0..l |-> g[n + k]]
<1>4. h[0] = g[n] /\ h[l] = g[n + l]
  BY <1>1
<1>5. ASSUME NEW k \in 1..l PROVE h[k] = Execute(h[k - 1], t[k])
  <2>1. /\ k \in 0..l /\ k - 1 \in 0..l /\ n + k \in 1..(n + l)
        /\ (n + k) - 1 = n + (k - 1) /\ ~ (n + k <= n) /\ (n + k) - n = k
    BY <1>1
  <2>2. u[n + k] = t[k]
    BY <1>1, <2>1
  <2>3. g[n + k] = Execute(g[n + (k - 1)], u[n + k])
    BY <1>2, <2>1
  <2> QED
    BY <2>1, <2>2, <2>3
<1> HIDE DEF h
<1>7. Passes(g[n], t, h, l)
  BY <1>1, <1>4, <1>5 DEF Passes
<1>6. ExecuteAll(g[n], t) = h[l]
  BY <1>7, ExecuteAllOnly
<1> QED
  BY <1>2, <1>3, <1>4, <1>6 DEF u

\* What lists of up to three instructions do.
LEMMA RunShort ==
    /\ \A m : ExecuteAll(m, <<>>) = m
    /\ \A m, a : ExecuteAll(m, <<a>>) = Execute(m, a)
    /\ \A m, a, b : ExecuteAll(m, <<a, b>>) = Execute(Execute(m, a), b)
    /\ \A m, a, b, c : ExecuteAll(m, <<a, b, c>>) = Execute(Execute(Execute(m, a), b), c)
<1>1. \A m, s, e : IsList(s) => ExecuteAll(m, Append(s, e)) = Execute(ExecuteAll(m, s), e)
  BY RunAppend
<1>2. \A m : ExecuteAll(m, <<>>) = m
  BY RunEmpty
<1>3. \A m, a : ExecuteAll(m, <<a>>) = Execute(m, a)
  <2> TAKE m, a
  <2> DEFINE s == <<>>
             t == <<a>>
  <2>1. IsList(s) /\ t = Append(s, a)
    BY ShortLists
  <2>2. ExecuteAll(m, s) = m
    BY <1>2
  <2> HIDE DEF s, t
  <2>3. ExecuteAll(m, t) = Execute(m, a)
    BY <1>1, <2>1, <2>2
  <2> QED
    BY <2>3 DEF t
<1>4. \A m, a, b : ExecuteAll(m, <<a, b>>) = Execute(Execute(m, a), b)
  <2> TAKE m, a, b
  <2> DEFINE s == <<a>>
             t == <<a, b>>
  <2>1. IsList(s) /\ t = Append(s, b)
    BY ShortLists
  <2>2. ExecuteAll(m, s) = Execute(m, a)
    BY <1>3
  <2> HIDE DEF s, t
  <2>3. ExecuteAll(m, t) = Execute(Execute(m, a), b)
    BY <1>1, <2>1, <2>2
  <2> QED
    BY <2>3 DEF t
<1>5. \A m, a, b, c : ExecuteAll(m, <<a, b, c>>) = Execute(Execute(Execute(m, a), b), c)
  <2> TAKE m, a, b, c
  <2> DEFINE s == <<a, b>>
             t == <<a, b, c>>
  <2>1. IsList(s) /\ t = Append(s, c)
    BY ShortLists
  <2>2. ExecuteAll(m, s) = Execute(Execute(m, a), b)
    BY <1>4
  <2> HIDE DEF s, t
  <2>3. ExecuteAll(m, t) = Execute(Execute(Execute(m, a), b), c)
    BY <1>1, <2>1, <2>2
  <2> QED
    BY <2>3 DEF t
<1> QED
  BY <1>2, <1>3, <1>4, <1>5

\* the lists of seqs, executed one after the other, lead from m to m2
Leads(m, seqs, n, m2) ==
    \E g : /\ g[0] = m
           /\ \A k \in 1..n : g[k] = ExecuteAll(g[k - 1], seqs[k])
           /\ m2 = g[n]

\* Lists one after the other are executed one after the other.
LEMMA FlattenRun ==
    ASSUME NEW m, NEW seqs, NEW n \in Nat,
           IsList(seqs), Len(seqs) = n, \A k \in 1..n : IsList(seqs[k])
    PROVE  /\ IsList(FlattenSeq(seqs))
           /\ Leads(m, seqs, n, ExecuteAll(m, FlattenSeq(seqs)))
<1> USE DEF Leads
<1>1. IsList(seqs) /\ Len(seqs) = n /\ DOMAIN seqs = 1..n
  BY ListIs
<1>2. CASE n = 0
  <2>1. FlattenSeq(seqs) = seqs
    BY <1>1, <1>2 DEF FlattenSeq
  <2>2. PICK g : g[0] = m /\ ExecuteAll(m, seqs) = g[0]
    BY <1>2, ExecuteAllIs
  <2>3. \A k \in 1..n : FALSE
    BY <1>2
  <2> QED
    BY <1>1, <1>2, <2>1, <2>2, <2>3
<1>3. CASE n # 0
  <2> DEFINE Is(h, k) == h = [i \in 1..k |-> IF i = 1 THEN seqs[i] ELSE h[i - 1] \o seqs[i]]
             K == {k \in 0..n : \E h : Is(h, k)}
  <2>1. 0 \in K
    <3>1. Is([i \in 1..0 |-> m], 0)
      OBVIOUS
    <3> HIDE DEF Is
    <3> QED
      BY <3>1
  <2>2. ASSUME NEW k \in 0..(n - 1), k \in K PROVE k + 1 \in K
    <3>1. PICK h : Is(h, k)
      BY <2>2
    <3> DEFINE h2 == [i \in 1..(k + 1) |->
                         IF i = 1 THEN seqs[i]
                         ELSE (IF i = k + 1 THEN h[k] ELSE h[i - 1]) \o seqs[i]]
    <3>2. \A i \in 1..k : h[i] = IF i = 1 THEN seqs[i] ELSE h[i - 1] \o seqs[i]
      BY <3>1
    <3>3. \A i \in 1..k : h2[i] = h[i]
      <4> TAKE i \in 1..k
      <4>1. i # k + 1 /\ i \in 1..(k + 1)
        OBVIOUS
      <4>2. h2[i] = IF i = 1 THEN seqs[i] ELSE h[i - 1] \o seqs[i]
        BY <4>1
      <4> HIDE DEF h2
      <4> QED
        BY <3>2, <4>2
    <3>4. ASSUME NEW i \in 1..(k + 1)
          PROVE  h2[i] = IF i = 1 THEN seqs[i] ELSE h2[i - 1] \o seqs[i]
      <4>1. CASE i = 1
        BY <4>1
      <4>2. CASE i # 1
        <5>1. i - 1 \in 1..k /\ (i = k + 1 => i - 1 = k)
          BY <4>2
        <5>2. h2[i - 1] = h[i - 1]
          BY <3>3, <5>1
        <5>3. h2[i] = h[i - 1] \o seqs[i]
          BY <4>2, <5>1
        <5> HIDE DEF h2
        <5> QED
          BY <4>2, <5>2, <5>3
      <4> QED
        BY <4>1, <4>2
    <3>5. h2 = [i \in 1..(k + 1) |-> h2[i]]
      OBVIOUS
    <3> HIDE DEF h2
    <3>6. Is(h2, k + 1)
      BY <3>4, <3>5
    <3> HIDE DEF Is
    <3> QED
      BY <3>6
  <2> HIDE DEF K
  <2>3. n \in K
    <3>1. 0..n \subseteq K
      BY <2>1, <2>2, InductionUpTo
    <3> QED
      BY <3>1
  <2> DEFINE f == CHOOSE h : Is(h, n)
  <2>4. Is(f, n)
    BY <2>3, Zenon DEF K
  <2>5. FlattenSeq(seqs) = f[n]
    BY <1>1, <1>3 DEF FlattenSeq
  <2> HIDE DEF f
  <2>6. \A i \in 1..n : f[i] = IF i = 1 THEN seqs[i] ELSE f[i - 1] \o seqs[i]
    BY <2>4
  <2> DEFINE g == [k \in 0..n |-> IF k = 0 THEN m ELSE ExecuteAll(m, f[k])]
             J == {k \in 0..n : k # 0 => IsList(f[k]) /\ g[k] = ExecuteAll(g[k - 1], seqs[k])}
  <2>7. 0 \in J
    OBVIOUS
  <2>8. ASSUME NEW k \in 0..(n - 1), k \in J PROVE k + 1 \in J
    <3>1. /\ k + 1 \in 1..n /\ k + 1 \in 0..n /\ (k + 1) - 1 = k /\ k \in 0..n
          /\ IsList(seqs[k + 1]) /\ k + 1 # 0
      OBVIOUS
    <3>2. g[k + 1] = ExecuteAll(m, f[k + 1])
      BY <3>1
    <3>3. CASE k = 0
      <4>1. f[1] = seqs[1]
        BY <2>6, <3>1, <3>3
      <4>2. g[0] = m
        OBVIOUS
      <4> HIDE DEF g
      <4>3. g[k + 1] = ExecuteAll(g[k], seqs[k + 1]) /\ IsList(f[k + 1])
        BY <3>1, <3>2, <3>3, <4>1, <4>2
      <4> QED
        BY <3>1, <4>3
    <3>4. CASE k # 0
      <4>1. k + 1 # 1 /\ f[k + 1] = f[k] \o seqs[k + 1]
        <5>1. k + 1 # 1
          BY <3>4
        <5> QED
          BY <2>6, <3>1, <5>1
      <4>2. IsList(f[k])
        BY <2>8, <3>4
      <4>3. g[k] = ExecuteAll(m, f[k])
        BY <3>1, <3>4
      <4> HIDE DEF g
      <4>4. g[k + 1] = ExecuteAll(g[k], seqs[k + 1])
        BY <3>1, <3>2, <4>1, <4>2, <4>3, RunConcat
      <4>5. IsList(f[k + 1])
        BY <3>1, <4>1, <4>2, ListConcat
      <4> QED
        BY <3>1, <4>4, <4>5
    <3> QED
      BY <3>3, <3>4
  <2> HIDE DEF J
  <2>9. 0..n \subseteq J
    BY <2>7, <2>8, InductionUpTo
  <2>10. \A k \in 1..n : k \in 0..n /\ k # 0
    OBVIOUS
  <2>11. g[0] = m /\ g[n] = ExecuteAll(m, f[n])
    BY <1>3
  <2> HIDE DEF g
  <2>12. \A k \in 1..n : IsList(f[k]) /\ g[k] = ExecuteAll(g[k - 1], seqs[k])
    BY <2>9, <2>10 DEF J
  <2>13. n \in 1..n
    BY <1>3
  <2> QED
    BY <2>5, <2>11, <2>12, <2>13
<1> QED
  BY <1>2, <1>3

-------------------------------------------------------------------------------
(* The machine of the calls in progress, and single instructions.          *)

\* Pointers are told apart, from each other and from what is no pointer.
LEMMA Pointers ==
    ASSUME NEW k \in Nat, NEW i \in Nat, i < ArraySpan
    PROVE  /\ Ptr(k, i) \in Nat /\ IsPtr(Ptr(k, i)) /\ Ptr(k, i) # Address
           /\ PtrArray(Ptr(k, i)) = k /\ PtrOffset(Ptr(k, i)) = i
<1> DEFINE p == k * ArraySpan + i
<1>1. ArraySpan \in Nat \ {0} /\ Modulus \in Nat
  BY ValuesAssumption
<1>2. k * ArraySpan \in Nat
  BY <1>1
<1> DEFINE q == k * ArraySpan
<1>3. Ptr(k, i) = Modulus + 2 + q + i /\ Ptr(0, 0) = Modulus + 2
  BY <1>1 DEF Ptr, Junk
<1>4. (q + i) \div ArraySpan = k /\ (q + i) % ArraySpan = i
  BY <1>1
<1> HIDE DEF q, p
<1>5. q \in Nat
  BY <1>2 DEF q
<1>6. Ptr(k, i) - Ptr(0, 0) = q + i
  BY <1>1, <1>3, <1>5
<1> QED
  BY <1>1, <1>3, <1>4, <1>5, <1>6 DEF IsPtr, PtrArray, PtrOffset, Address

\* Pointers count words.
LEMMA PtrPlus ==
    ASSUME NEW k \in Nat, NEW i \in Nat, NEW j \in Nat
    PROVE  Ptr(k, i) + j = Ptr(k, i + j) /\ Ptr(k, i) \in Nat
<1> DEFINE q == k * ArraySpan
<1>1. q \in Nat /\ Modulus \in Nat
  BY ValuesAssumption
<1>2. \A x \in Nat : Ptr(k, x) = Modulus + 2 + q + x
  BY <1>1 DEF Ptr, Junk
<1> HIDE DEF q
<1> QED
  BY <1>1, <1>2

\* Operators make numbers of numbers.
LEMMA OperatorType ==
    /\ \A v, w \in Nat : BinaryOp(v, w) \in Nat /\ UnaryOp(v) \in Nat
    /\ Literal \in Nat /\ Literal \in Val /\ Junk \in Nat /\ Address \in Nat
    /\ \A v \in Val : v \in Nat
    /\ 0 \in Val
    /\ \A v, w \in Nat : IsPtr(v) => BinaryOp(v, w) = v + w /\ BinaryOp(w, v) = w + v
<1>1. Modulus \in Nat \ {0}
  BY ValuesAssumption
<1>2. ASSUME NEW v \in Nat, NEW w \in Nat
      PROVE  BinaryOp(v, w) \in Nat /\ UnaryOp(v) \in Nat
  <2>1. 2 * v + w + 1 \in Nat /\ v + Modulus - 1 \in Nat
    BY <1>1
  <2>2. \A x \in Nat : x % Modulus \in Nat
    BY <1>1
  <2> QED
    BY <2>1, <2>2 DEF BinaryOp, UnaryOp
<1> QED
  BY <1>1, <1>2, ValuesAssumption DEF BinaryOp, Val, Junk, Address

-------------------------------------------------------------------------------
Scratch == {tmpreg0, tmpreg1}

\* a machine with calls in progress
IsMachine(m) ==
    /\ m = [regs |-> m.regs, frames |-> m.frames, glob |-> m.glob, garr |-> m.garr]
    /\ m.regs \in [Regs -> Nat]
    /\ m.regs[NoReg] = 0
    /\ IsList(m.frames)
    /\ Len(m.frames) > 0
    /\ \A k \in DOMAIN m.frames : m.frames[k] \in [DOMAIN m.frames[k] -> Nat]
    /\ m.glob \in Nat
    /\ m.garr \in [DOMAIN GlobInit -> Nat]

\* its last frame
TopOf(m) == Len(m.frames)

SetReg(m, r, v) ==
    [regs |-> [m.regs EXCEPT ![r] = v], frames |-> m.frames, glob |-> m.glob, garr |-> m.garr]

SetWord(m, k, n, v) ==
    [regs |-> m.regs, frames |-> [m.frames EXCEPT ![k] = [m.frames[k] EXCEPT ![n] = v]],
     glob |-> m.glob, garr |-> m.garr]

SetGlob(m, v) == [regs |-> m.regs, frames |-> m.frames, glob |-> v, garr |-> m.garr]

SetGarr(m, n, v) ==
    [regs |-> m.regs, frames |-> m.frames, glob |-> m.glob, garr |-> [m.garr EXCEPT ![n] = v]]

\* frames of the same sizes
SameShape(m, m2) ==
    /\ DOMAIN m2.frames = DOMAIN m.frames
    /\ Len(m2.frames) = Len(m.frames)
    /\ \A k \in DOMAIN m.frames : DOMAIN m2.frames[k] = DOMAIN m.frames[k]

\* nothing but registers in W differs
OnlyRegs(m, m2, W) ==
    /\ IsMachine(m2)
    /\ \A r \in Regs \ W : m2.regs[r] = m.regs[r]
    /\ m2.frames = m.frames
    /\ m2.glob = m.glob
    /\ m2.garr = m.garr

\* The registers there are.
LEMMA RegsAre ==
    /\ tmpreg0 \in Regs \ (AvailRegs \cup {NoReg}) /\ tmpreg1 \in Regs \ (AvailRegs \cup {NoReg})
    /\ tmpreg0 # tmpreg1
    /\ NoReg \in Regs \ AvailRegs /\ AvailRegs \subseteq Regs /\ BuiltinDestroys \subseteq Regs
    /\ \A r \in AvailRegs : r \notin Scratch /\ r # NoReg
    /\ Scratch \subseteq Regs /\ NoReg \notin Scratch
BY RegsAssumption, RegistersAssumption DEF Regs, tmpreg0, tmpreg1, Scratch

\* Parts of a machine are replaced.
LEMMA Replaced ==
    ASSUME NEW m, IsMachine(m)
    PROVE  /\ \A r, v : [m EXCEPT !.regs[r] = v] = SetReg(m, r, v)
           /\ \A k, n, v : [m EXCEPT !.frames[k][n] = v] = SetWord(m, k, n, v)
           /\ \A v : [m EXCEPT !.glob = v] = SetGlob(m, v)
           /\ \A n, v : [m EXCEPT !.garr[n] = v] = SetGarr(m, n, v)
<1> SUFFICES ASSUME NEW r, NEW k, NEW n, NEW v
    PROVE  /\ [m EXCEPT !.regs[r] = v] = SetReg(m, r, v)
           /\ [m EXCEPT !.frames[k][n] = v] = SetWord(m, k, n, v)
           /\ [m EXCEPT !.glob = v] = SetGlob(m, v)
           /\ [m EXCEPT !.garr[n] = v] = SetGarr(m, n, v)
  OBVIOUS
<1>1. PICK a, b, c, d : m = [regs |-> a, frames |-> b, glob |-> c, garr |-> d]
  BY DEF IsMachine
<1>2. m.regs = a /\ m.frames = b /\ m.glob = c /\ m.garr = d
  BY <1>1
<1>3. [m EXCEPT !.regs[r] = v]
         = [regs |-> [a EXCEPT ![r] = v], frames |-> b, glob |-> c, garr |-> d]
  BY <1>1
<1>4. [m EXCEPT !.frames[k][n] = v]
         = [regs |-> a, frames |-> [b EXCEPT ![k] = [b[k] EXCEPT ![n] = v]],
            glob |-> c, garr |-> d]
  BY <1>1
<1>5. [m EXCEPT !.glob = v] = [regs |-> a, frames |-> b, glob |-> v, garr |-> d]
  BY <1>1
<1>6. [m EXCEPT !.garr[n] = v]
         = [regs |-> a, frames |-> b, glob |-> c, garr |-> [d EXCEPT ![n] = v]]
  BY <1>1
<1> QED
  BY <1>2, <1>3, <1>4, <1>5, <1>6 DEF SetReg, SetWord, SetGlob, SetGarr

\* What the elementary changes of a machine change.
LEMMA SetRegIs ==
    ASSUME NEW m, NEW r \in Regs \ {NoReg}, NEW v \in Nat,
           IsMachine(m)
    PROVE  /\ OnlyRegs(m, SetReg(m, r, v), {r})
           /\ SetReg(m, r, v).regs[r] = v
<1> DEFINE rs == [m.regs EXCEPT ![r] = v]
<1>1. SetReg(m, r, v) = [regs |-> rs, frames |-> m.frames, glob |-> m.glob, garr |-> m.garr]
  BY DEF SetReg
<1>2. rs \in [Regs -> Nat] /\ rs[NoReg] = 0 /\ rs[r] = v /\ \A q \in Regs \ {r} : rs[q] = m.regs[q]
  BY RegsAre DEF IsMachine
<1> HIDE DEF rs
<1> QED
  BY <1>1, <1>2 DEF OnlyRegs, IsMachine

\* A word of a frame is set, the others stay.
LEMMA SetWordIs ==
    ASSUME NEW m, NEW k \in DOMAIN m.frames, NEW n \in DOMAIN m.frames[k], NEW v \in Nat,
           IsMachine(m)
    PROVE  LET m2 == SetWord(m, k, n, v)
           IN  /\ IsMachine(m2) /\ SameShape(m, m2)
               /\ m2.regs = m.regs /\ m2.glob = m.glob /\ m2.garr = m.garr
               /\ \A j \in DOMAIN m.frames : \A w \in DOMAIN m.frames[j] :
                    m2.frames[j][w] = IF j = k /\ w = n THEN v ELSE m.frames[j][w]
<1> DEFINE ws == [m.frames[k] EXCEPT ![n] = v]
           fs == [m.frames EXCEPT ![k] = ws]
<1>1. SetWord(m, k, n, v) = [regs |-> m.regs, frames |-> fs, glob |-> m.glob, garr |-> m.garr]
  BY DEF SetWord
<1>2. Len(m.frames) \in Nat /\ DOMAIN m.frames = 1..Len(m.frames)
  BY ListIs DEF IsMachine
<1>3. ws \in [DOMAIN m.frames[k] -> Nat] /\ ws[n] = v
      /\ \A w \in DOMAIN m.frames[k] : w # n => ws[w] = m.frames[k][w]
  BY DEF IsMachine
<1>4. fs = [j \in 1..Len(m.frames) |-> IF j = k THEN ws ELSE m.frames[j]]
  BY <1>2
<1> HIDE DEF fs, ws
<1>5. IsList(fs) /\ Len(fs) = Len(m.frames) /\ DOMAIN fs = DOMAIN m.frames
  BY <1>2, <1>4, FunctionList
<1> QED
  BY <1>1, <1>2, <1>3, <1>4, <1>5 DEF SameShape, IsMachine

\* The global scalar is set, the rest stays.
LEMMA SetGlobIs ==
    ASSUME NEW m, NEW v \in Nat,
           IsMachine(m)
    PROVE  LET m2 == SetGlob(m, v)
           IN  /\ IsMachine(m2) /\ m2.frames = m.frames
               /\ m2.regs = m.regs /\ m2.glob = v /\ m2.garr = m.garr
<1>1. SetGlob(m, v) = [regs |-> m.regs, frames |-> m.frames, glob |-> v, garr |-> m.garr]
  BY DEF SetGlob
<1> QED
  BY <1>1 DEF IsMachine

\* A word of the global array is set, the others stay.
LEMMA SetGarrIs ==
    ASSUME NEW m, NEW n \in DOMAIN GlobInit, NEW v \in Nat,
           IsMachine(m)
    PROVE  LET m2 == SetGarr(m, n, v)
           IN  /\ IsMachine(m2) /\ m2.frames = m.frames
               /\ m2.regs = m.regs /\ m2.glob = m.glob
               /\ m2.garr = [m.garr EXCEPT ![n] = v]
<1>1. SetGarr(m, n, v) = [regs |-> m.regs, frames |-> m.frames, glob |-> m.glob,
                          garr |-> [m.garr EXCEPT ![n] = v]]
  BY DEF SetGarr
<1>2. [m.garr EXCEPT ![n] = v] \in [DOMAIN GlobInit -> Nat]
  BY DEF IsMachine
<1> QED
  BY <1>1, <1>2 DEF IsMachine

-------------------------------------------------------------------------------
\* Single instructions in these terms.
LEMMA ExecuteIs ==
    ASSUME NEW m, IsMachine(m)
    PROVE  /\ \A d, r, q : Execute(m, InstOpBinary(d, r, q))
                              = SetReg(m, d, BinaryOp(m.regs[r], m.regs[q]))
           /\ \A d, r, n : Execute(m, InstAddI(d, r, n)) = SetReg(m, d, m.regs[r] + n)
           /\ \A d, r : Execute(m, InstOpUnary(d, r)) = SetReg(m, d, UnaryOp(m.regs[r]))
           /\ \A d, r : Execute(m, InstMov(d, r)) = SetReg(m, d, m.regs[r])
           /\ \A d, n : Execute(m, InstLoadImm(d, n)) = SetReg(m, d, n)
           /\ \A d, n : Execute(m, InstLoadStack(d, n)) = SetReg(m, d, m.frames[TopOf(m)][n])
           /\ \A d : Execute(m, InstLoadGlobal(d)) = SetReg(m, d, m.glob)
           /\ \A d, n : Execute(m, InstLoadAddrGlobal(d, n)) =
                 SetReg(m, d, IF n = GlobArrIdx THEN Ptr(0, 0) ELSE Address)
           /\ \A d, n : Execute(m, InstLoadAddrStack(d, n)) = SetReg(m, d, Ptr(TopOf(m), n))
           /\ \A r, n, q : Execute(m, InstArraySet(r, n, q))
                              = StoreAt(m, m.regs[r] + n, m.regs[q])
<1>0. \A x, v : [m EXCEPT !.regs[x] = v] = SetReg(m, x, v)
  BY Replaced
<1> USE DEF Execute, Inst, TopOf
<1>1. /\ \A d, r, q : Execute(m, InstOpBinary(d, r, q))
                              = SetReg(m, d, BinaryOp(m.regs[r], m.regs[q]))
      /\ \A d, r, n : Execute(m, InstAddI(d, r, n)) = SetReg(m, d, m.regs[r] + n)
  BY <1>0 DEF InstOpBinary, InstAddI
<1>2. /\ \A d, r : Execute(m, InstOpUnary(d, r)) = SetReg(m, d, UnaryOp(m.regs[r]))
      /\ \A d, r : Execute(m, InstMov(d, r)) = SetReg(m, d, m.regs[r])
      /\ \A d, n : Execute(m, InstLoadImm(d, n)) = SetReg(m, d, n)
  BY <1>0 DEF InstOpUnary, InstMov, InstLoadImm
<1>3. /\ \A d, n : Execute(m, InstLoadStack(d, n)) = SetReg(m, d, m.frames[TopOf(m)][n])
      /\ \A d : Execute(m, InstLoadGlobal(d)) = SetReg(m, d, m.glob)
  BY <1>0 DEF InstLoadStack, InstLoadGlobal
<1>4. /\ \A d, n : Execute(m, InstLoadAddrGlobal(d, n)) =
                 SetReg(m, d, IF n = GlobArrIdx THEN Ptr(0, 0) ELSE Address)
      /\ \A d, n : Execute(m, InstLoadAddrStack(d, n)) = SetReg(m, d, Ptr(TopOf(m), n))
  BY <1>0 DEF InstLoadAddrGlobal, InstLoadAddrStack
<1>5. \A r, n, q : Execute(m, InstArraySet(r, n, q)) = StoreAt(m, m.regs[r] + n, m.regs[q])
  BY DEF InstArraySet
<1> QED
  BY <1>1, <1>2, <1>3, <1>4, <1>5, Zenon

\* Storing to the frame may use one of the scratch registers.
LEMMA StoreStackIs ==
    ASSUME NEW m, NEW r \in Regs, NEW n \in DOMAIN m.frames[TopOf(m)],
           IsMachine(m)
    PROVE  LET m2 == Execute(m, InstStoreStack(n, r))
               m3 == SetReg(m, IF r = tmpreg0 THEN tmpreg1 ELSE tmpreg0, Junk)
           IN  /\ m2 = SetWord(m3, TopOf(m), n, m.regs[r])
               /\ IsMachine(m3) /\ m3.frames = m.frames /\ m3.glob = m.glob /\ m3.garr = m.garr
               /\ m3.regs[r] = m.regs[r]
               /\ \A q \in Regs \ Scratch : m3.regs[q] = m.regs[q]
<1> DEFINE s == IF r = tmpreg0 THEN tmpreg1 ELSE tmpreg0
<1>1. s \in Regs \ {NoReg} /\ s # r /\ s \in Scratch
  BY RegsAre DEF Scratch
<1> DEFINE m3 == SetReg(m, s, Junk)
<1>2. OnlyRegs(m, m3, {s})
  BY <1>1, OperatorType, SetRegIs
<1>3. [m EXCEPT !.regs[s] = Junk] = m3
  BY Replaced
<1>4. [m3 EXCEPT !.frames[TopOf(m)][n] = m.regs[r]] = SetWord(m3, TopOf(m), n, m.regs[r])
  <2> HIDE DEF m3
  <2> QED
    BY <1>2, Replaced DEF OnlyRegs
<1>5. Execute(m, InstStoreStack(n, r))
         = [[m EXCEPT !.regs[s] = Junk] EXCEPT !.frames[TopOf(m)][n] = m.regs[r]]
  BY DEF Execute, InstStoreStack, Inst, TopOf
<1>6. Execute(m, InstStoreStack(n, r)) = SetWord(m3, TopOf(m), n, m.regs[r])
  <2> HIDE DEF m3, s
  <2> QED
    BY <1>3, <1>4, <1>5
<1>7. /\ IsMachine(m3) /\ m3.frames = m.frames /\ m3.glob = m.glob /\ m3.garr = m.garr
      /\ m3.regs[r] = m.regs[r]
      /\ \A q \in Regs \ Scratch : m3.regs[q] = m.regs[q]
  <2> HIDE DEF m3, s
  <2> QED
    BY <1>1, <1>2 DEF OnlyRegs
<1> QED
  BY <1>6, <1>7

\* Loading through a pointer as well.
LEMMA ArrayGetIs ==
    ASSUME NEW m, IsMachine(m)
    PROVE  \A d, r, n : Execute(m, InstArrayGet(d, r, n))
              = SetReg(SetReg(m, tmpreg0, Junk), d, LoadFrom(m, m.regs[r] + n))
<1> SUFFICES ASSUME NEW d, NEW r, NEW n
             PROVE  Execute(m, InstArrayGet(d, r, n))
              = SetReg(SetReg(m, tmpreg0, Junk), d, LoadFrom(m, m.regs[r] + n))
  OBVIOUS
<1> DEFINE m2 == SetReg(m, tmpreg0, Junk)
<1>1. m2 = [m EXCEPT !.regs[tmpreg0] = Junk]
  BY Replaced
<1>2. IsMachine(m2)
  BY RegsAre, OperatorType, SetRegIs DEF OnlyRegs
<1>3. Execute(m, InstArrayGet(d, r, n))
         = [[m EXCEPT !.regs[tmpreg0] = Junk] EXCEPT !.regs[d] = LoadFrom(m, m.regs[r] + n)]
  BY DEF Execute, InstArrayGet, Inst
<1> HIDE DEF m2
<1>4. [m2 EXCEPT !.regs[d] = LoadFrom(m, m.regs[r] + n)] = SetReg(m2, d, LoadFrom(m, m.regs[r] + n))
  BY <1>2, Replaced
<1> QED
  BY <1>1, <1>3, <1>4 DEF m2

\* What pointers lead to.
LEMMA ThroughPointer ==
    ASSUME NEW m, NEW v, NEW i \in Nat,
           IsMachine(m),
           i < ArraySpan
    PROVE  /\ LoadFrom(m, Ptr(0, i)) = m.garr[i]
           /\ StoreAt(m, Ptr(0, i), v) = SetGarr(m, i, v)
           /\ \A k \in Nat \ {0} : /\ LoadFrom(m, Ptr(k, i)) = m.frames[k][i]
                                   /\ StoreAt(m, Ptr(k, i), v) = SetWord(m, k, i, v)
           /\ StoreAt(m, Address, v) = SetGlob(m, v)
<1>1. /\ IsPtr(Ptr(0, i)) /\ PtrArray(Ptr(0, i)) = 0 /\ PtrOffset(Ptr(0, i)) = i
      /\ Ptr(0, i) # Address
  BY Pointers
<1>2. LoadFrom(m, Ptr(0, i)) = m.garr[i] /\ StoreAt(m, Ptr(0, i), v) = SetGarr(m, i, v)
  BY <1>1, Replaced DEF LoadFrom, StoreAt
<1>3. ASSUME NEW k \in Nat \ {0}
      PROVE  /\ LoadFrom(m, Ptr(k, i)) = m.frames[k][i]
             /\ StoreAt(m, Ptr(k, i), v) = SetWord(m, k, i, v)
  <2>1. /\ IsPtr(Ptr(k, i)) /\ PtrArray(Ptr(k, i)) = k /\ PtrOffset(Ptr(k, i)) = i
        /\ Ptr(k, i) # Address /\ k # 0
    BY Pointers
  <2> QED
    BY <2>1, Replaced DEF LoadFrom, StoreAt
<1>4. StoreAt(m, Address, v) = SetGlob(m, v)
  <2>1. ~ IsPtr(Address)
    BY ValuesAssumption DEF IsPtr, Ptr, Junk, Address
  <2> QED
    BY <2>1, Replaced DEF StoreAt
<1> QED
  BY <1>2, <1>3, <1>4

-------------------------------------------------------------------------------
(* Operands are loaded, results are stored.                                *)

\* the scalar x has a register, or a word of the last frame
IsKept(f, m, x) ==
    /\ x \notin Unpooled
    /\ \/ \E r \in AvailRegs : f.vreg[x] = InReg(r)
       \/ \E i \in DOMAIN m.frames[TopOf(m)] : f.vreg[x] = OnStack(i)

\* the value of the operand v of a statement of f
ValueIn(f, m, v) ==
    CASE v = NoVar -> Literal
      [] v = Glob  -> m.glob
      [] v \notin Unpooled /\ f.vreg[v].pos = "stack" -> m.frames[TopOf(m)][f.vreg[v].slot]
      [] v \notin Unpooled /\ f.vreg[v].pos # "stack" -> m.regs[f.vreg[v].reg]

IsOperand(f, m, v) == v = NoVar \/ v = Glob \/ IsKept(f, m, v)

\* Kinds of operands are told apart.
LEMMA Kinds ==
    /\ NoVar # Glob /\ NoVar \notin Arrays /\ Glob \notin Arrays /\ LocArr # GlobArr
    /\ NoVar \in Unpooled /\ Glob \in Unpooled /\ Arrays \subseteq Unpooled
    /\ \A r : InReg(r).pos = "reg" /\ InReg(r).reg = r /\ InReg(r).pos # "stack"
    /\ \A i : OnStack(i).pos = "stack" /\ OnStack(i).slot = i /\ OnStack(i).pos # "reg"
BY KindsAssumption DEF Unpooled, Arrays, InReg, OnStack

\* What needs no place.
LEMMA PlainValues ==
    ASSUME NEW f, NEW m
    PROVE  ValueIn(f, m, NoVar) = Literal /\ ValueIn(f, m, Glob) = m.glob
<1>1. ValueIn(f, m, NoVar) = Literal
  BY Kinds DEF ValueIn
<1>2. ValueIn(f, m, Glob) = m.glob
  BY Kinds DEF ValueIn
<1> QED
  BY <1>1, <1>2

\* What a scalar's value is.
LEMMA KeptIs ==
    ASSUME NEW f, NEW m, NEW x,
           IsMachine(m),
           IsKept(f, m, x)
    PROVE  /\ ValueIn(f, m, x) \in Nat
           /\ x # NoVar /\ x # Glob /\ x \notin Unpooled
           /\ f.vreg[x].pos = "stack" =>
                /\ f.vreg[x] = OnStack(f.vreg[x].slot)
                /\ f.vreg[x].slot \in DOMAIN m.frames[TopOf(m)]
                /\ ValueIn(f, m, x) = m.frames[TopOf(m)][f.vreg[x].slot]
           /\ f.vreg[x].pos # "stack" =>
                /\ f.vreg[x].pos = "reg"
                /\ f.vreg[x] = InReg(f.vreg[x].reg)
                /\ f.vreg[x].reg \in AvailRegs
                /\ ValueIn(f, m, x) = m.regs[f.vreg[x].reg]
<1>1. x # NoVar /\ x # Glob /\ x \notin Unpooled
  BY Kinds DEF IsKept
<1>2. CASE \E r \in AvailRegs : f.vreg[x] = InReg(r)
  <2>1. PICK r \in AvailRegs : f.vreg[x] = InReg(r)
    BY <1>2
  <2>2. f.vreg[x].pos = "reg" /\ f.vreg[x].pos # "stack" /\ f.vreg[x].reg = r
    BY <2>1, Kinds
  <2>3. ValueIn(f, m, x) = m.regs[r]
    BY <1>1, <2>2 DEF ValueIn
  <2>4. m.regs[r] \in Nat
    BY RegsAre DEF IsMachine
  <2> QED
    BY <1>1, <2>1, <2>2, <2>3, <2>4
<1>3. CASE \E i \in DOMAIN m.frames[TopOf(m)] : f.vreg[x] = OnStack(i)
  <2>1. PICK i \in DOMAIN m.frames[TopOf(m)] : f.vreg[x] = OnStack(i)
    BY <1>3
  <2>2. f.vreg[x].pos = "stack" /\ f.vreg[x].slot = i
    BY <2>1, Kinds
  <2>3. ValueIn(f, m, x) = m.frames[TopOf(m)][i]
    BY <1>1, <2>2 DEF ValueIn
  <2>4. TopOf(m) \in DOMAIN m.frames
    BY ListIs DEF IsMachine, TopOf
  <2>5. m.frames[TopOf(m)][i] \in Nat
    BY <2>4 DEF IsMachine
  <2> QED
    BY <1>1, <2>1, <2>2, <2>3, <2>5
<1> QED
  BY <1>2, <1>3 DEF IsKept

\* The value of an operand is a number.
LEMMA OperandType ==
    ASSUME NEW f, NEW m, NEW v,
           IsMachine(m),
           IsOperand(f, m, v)
    PROVE  ValueIn(f, m, v) \in Nat
<1>1. CASE v = NoVar
  BY <1>1, Kinds, OperatorType DEF ValueIn
<1>2. CASE v = Glob
  BY <1>2, Kinds DEF ValueIn, IsMachine
<1>3. CASE IsKept(f, m, v)
  BY <1>3, KeptIs
<1> QED
  BY <1>1, <1>2, <1>3 DEF IsOperand

\* Scratch registers hold no scalars.
LEMMA OperandStays ==
    ASSUME NEW f, NEW m, NEW m2, NEW W, NEW v,
           IsMachine(m),
           OnlyRegs(m, m2, W),
           W \cap AvailRegs = {},
           IsOperand(f, m, v)
    PROVE  IsOperand(f, m2, v) /\ ValueIn(f, m2, v) = ValueIn(f, m, v)
<1>1. /\ IsMachine(m2) /\ TopOf(m2) = TopOf(m) /\ m2.frames = m.frames /\ m2.glob = m.glob
      /\ \A r \in AvailRegs : m2.regs[r] = m.regs[r]
  BY RegsAre DEF OnlyRegs, TopOf
<1>2. CASE v = NoVar
  BY <1>2, PlainValues DEF IsOperand
<1>3. CASE v = Glob
  BY <1>1, <1>3, PlainValues DEF IsOperand
<1>4. CASE IsKept(f, m, v)
  <2>1. IsKept(f, m2, v)
    BY <1>1, <1>4 DEF IsKept
  <2>2. ValueIn(f, m2, v) = ValueIn(f, m, v)
    <3>1. CASE f.vreg[v].pos = "stack"
      BY <1>1, <1>4, <2>1, <3>1, KeptIs
    <3>2. CASE f.vreg[v].pos # "stack"
      BY <1>1, <1>4, <2>1, <3>2, KeptIs
    <3> QED
      BY <3>1, <3>2
  <2> QED
    BY <2>1, <2>2 DEF IsOperand
<1> QED
  BY <1>2, <1>3, <1>4 DEF IsOperand

\* Changes of registers add up.
LEMMA OnlyRegsChain ==
    /\ \A m, W : IsMachine(m) => OnlyRegs(m, m, W)
    /\ \A m, m2, m3, V, W : OnlyRegs(m, m2, V) /\ OnlyRegs(m2, m3, W) => OnlyRegs(m, m3, V \cup W)
    /\ \A m, m2, V, W : OnlyRegs(m, m2, V) /\ V \subseteq W => OnlyRegs(m, m2, W)
BY DEF OnlyRegs

-------------------------------------------------------------------------------
\* Loading an operand makes its value available in a register, and what
\* other registers hold stays.
LEMMA RLoadDoes ==
    ASSUME NEW f, NEW m, NEW v, NEW tmp \in Scratch,
           IsMachine(m),
           IsOperand(f, m, v)
    PROVE  LET l  == RLoad(f, v, tmp)
               m2 == ExecuteAll(m, l.insts)
           IN  /\ IsList(l.insts)
               /\ OnlyRegs(m, m2, {tmp})
               /\ l.reg \in AvailRegs \cup {tmp, NoReg}
               /\ m2.regs[l.reg] = ValueIn(f, m, v)
               /\ l.reg # tmp => l.insts = <<>>
<1> DEFINE l  == RLoad(f, v, tmp)
           m2 == ExecuteAll(m, l.insts)
           Goal == /\ IsList(l.insts)
                   /\ OnlyRegs(m, m2, {tmp})
                   /\ l.reg \in AvailRegs \cup {tmp, NoReg}
                   /\ m2.regs[l.reg] = ValueIn(f, m, v)
                   /\ l.reg # tmp => l.insts = <<>>
<1> SUFFICES Goal
  OBVIOUS
<1>0. /\ tmp \in Regs \ {NoReg} /\ IsList(<<>>) /\ ExecuteAll(m, <<>>) = m
      /\ \A i : IsList(<<i>>) /\ ExecuteAll(m, <<i>>) = Execute(m, i)
      /\ OnlyRegs(m, m, {tmp})
  BY RegsAre, ShortLists, RunShort, OnlyRegsChain DEF Scratch
<1>1. ASSUME NEW i, NEW x \in Nat, Execute(m, i) = SetReg(m, tmp, x),
             l.insts = <<i>>, l.reg = tmp, x = ValueIn(f, m, v)
      PROVE  Goal
  <2>1. m2 = SetReg(m, tmp, x)
    BY <1>0, <1>1
  <2>2. OnlyRegs(m, m2, {tmp}) /\ m2.regs[tmp] = x
    BY <1>0, <2>1, SetRegIs
  <2> QED
    BY <1>0, <1>1, <2>2
<1>2. ASSUME l.insts = <<>>, l.reg \in AvailRegs \cup {NoReg}, m.regs[l.reg] = ValueIn(f, m, v)
      PROVE  Goal
  BY <1>0, <1>2
<1>3. CASE v = NoVar /\ Literal = 0
  <2>1. l.insts = <<>> /\ l.reg = NoReg
    BY <1>3, Kinds DEF RLoad
  <2>2. m.regs[NoReg] = ValueIn(f, m, v)
    BY <1>3, Kinds DEF ValueIn, IsMachine
  <2> QED
    BY <1>2, <2>1, <2>2
<1>4. CASE v = NoVar /\ Literal # 0
  <2>1. l.insts = <<InstLoadImm(tmp, Literal)>> /\ l.reg = tmp
    BY <1>4, Kinds DEF RLoad
  <2>2. Execute(m, InstLoadImm(tmp, Literal)) = SetReg(m, tmp, Literal)
    BY ExecuteIs
  <2>3. Literal \in Nat /\ Literal = ValueIn(f, m, v)
    BY <1>4, Kinds, OperatorType DEF ValueIn
  <2> HIDE DEF l, Goal
  <2> QED
    BY <1>1, <2>1, <2>2, <2>3
<1>5. CASE v = Glob
  <2>1. l.insts = <<InstLoadGlobal(tmp)>> /\ l.reg = tmp
    BY <1>5, Kinds DEF RLoad
  <2>2. Execute(m, InstLoadGlobal(tmp)) = SetReg(m, tmp, m.glob)
    BY ExecuteIs
  <2>3. m.glob \in Nat /\ m.glob = ValueIn(f, m, v)
    BY <1>5, Kinds DEF ValueIn, IsMachine
  <2> HIDE DEF l, Goal
  <2> QED
    BY <1>1, <2>1, <2>2, <2>3
<1>6. CASE IsKept(f, m, v) /\ f.vreg[v].pos = "stack"
  <2> DEFINE i == InstLoadStack(tmp, f.vreg[v].slot)
  <2>1. l.insts = <<i>> /\ l.reg = tmp
    BY <1>6, KeptIs, Kinds DEF RLoad
  <2>2. Execute(m, i) = SetReg(m, tmp, m.frames[TopOf(m)][f.vreg[v].slot])
    BY ExecuteIs
  <2>3. ValueIn(f, m, v) \in Nat /\ ValueIn(f, m, v) = m.frames[TopOf(m)][f.vreg[v].slot]
    BY <1>6, KeptIs
  <2> HIDE DEF l, Goal, i
  <2> QED
    BY <1>1, <2>1, <2>2, <2>3
<1>7. CASE IsKept(f, m, v) /\ f.vreg[v].pos # "stack"
  <2>1. l.insts = <<>> /\ l.reg = f.vreg[v].reg
    BY <1>7, KeptIs, Kinds DEF RLoad
  <2>2. f.vreg[v].reg \in AvailRegs /\ m.regs[f.vreg[v].reg] = ValueIn(f, m, v)
    BY <1>7, KeptIs
  <2> HIDE DEF l, Goal
  <2> QED
    BY <1>2, <2>1, <2>2
<1> QED
  BY <1>3, <1>4, <1>5, <1>6, <1>7 DEF IsOperand

-------------------------------------------------------------------------------
\* v was given to d: to its register, its word or the global scalar, and
\* nothing else but scratch registers differs
Wrote(f, m, m2, d, v) ==
    /\ IsMachine(m2) /\ SameShape(m, m2)
    /\ \A r \in Regs \ Scratch :
         m2.regs[r] = IF d \notin Unpooled /\ f.vreg[d] = InReg(r) THEN v ELSE m.regs[r]
    /\ \A k \in DOMAIN m.frames : \A n \in DOMAIN m.frames[k] :
         m2.frames[k][n] = IF d \notin Unpooled /\ k = TopOf(m) /\ f.vreg[d] = OnStack(n)
                           THEN v ELSE m.frames[k][n]
    /\ m2.glob = IF d = Glob THEN v ELSE m.glob
    /\ m2.garr = m.garr

\* where results are put
IsTarget(f, m, d) == d = Glob \/ IsKept(f, m, d)

\* A result has a register to be computed in.
LEMMA RStoreIs ==
    ASSUME NEW f, NEW m, NEW d,
           IsMachine(m),
           IsTarget(f, m, d)
    PROVE  /\ RStore(f, d) \in Regs \ {NoReg, tmpreg1}
           /\ d = Glob => RStore(f, d) = tmpreg0
           /\ d # Glob /\ f.vreg[d].pos = "stack" => RStore(f, d) = tmpreg0
           /\ d # Glob /\ f.vreg[d].pos # "stack" =>
                 RStore(f, d) = f.vreg[d].reg /\ RStore(f, d) \in AvailRegs
<1>1. CASE d = Glob
  BY <1>1, RegsAre DEF RStore
<1>2. CASE IsKept(f, m, d) /\ f.vreg[d].pos = "stack"
  BY <1>2, RegsAre, KeptIs DEF RStore
<1>3. CASE IsKept(f, m, d) /\ f.vreg[d].pos # "stack"
  <2>1. RStore(f, d) = f.vreg[d].reg /\ f.vreg[d].reg \in AvailRegs /\ d # Glob
    BY <1>3, KeptIs DEF RStore
  <2> QED
    BY <1>3, <2>1, RegsAre DEF Scratch
<1> QED
  BY <1>1, <1>2, <1>3 DEF IsTarget

\* Instructions, and after them those that put the result where it belongs.
LEMMA DoStoreDoes ==
    ASSUME NEW f, NEW m, NEW d, NEW pre, NEW last,
           IsMachine(m),
           IsTarget(f, m, d),
           IsList(pre),
           OnlyRegs(m, ExecuteAll(m, pre), Scratch),
           OnlyRegs(ExecuteAll(m, pre), Execute(ExecuteAll(m, pre), last),
                    Scratch \cup {RStore(f, d)}),
           last.inst = "mov" => \E r \in Regs : last = InstMov(RStore(f, d), r)
    PROVE  /\ IsList(DoStore(f, d, Append(pre, last)))
           /\ Wrote(f, m, ExecuteAll(m, DoStore(f, d, Append(pre, last))), d,
                 Execute(ExecuteAll(m, pre), last).regs[RStore(f, d)])
<1> DEFINE insts == Append(pre, last)
           m3 == ExecuteAll(m, pre)
           m4 == Execute(m3, last)
           v  == m4.regs[RStore(f, d)]
           all == DoStore(f, d, insts)
           addr == InstLoadAddrGlobal(tmpreg1, GlobIdx)
           Goal == IsList(all) /\ Wrote(f, m, ExecuteAll(m, all), d, v)
<1> SUFFICES Goal
  OBVIOUS
<1>1. /\ IsList(insts) /\ insts[Len(insts)] = last /\ Front(insts) = pre
      /\ ExecuteAll(m, insts) = m4
  <2>1. IsList(insts) /\ Len(insts) = Len(pre) + 1 /\ insts[Len(pre) + 1] = last
    BY ListAppend
  <2>2. ExecuteAll(m, insts) = m4
    BY RunAppend
  <2> QED
    BY <2>1, <2>2, FrontAppend
<1>2. OnlyRegs(m, m3, Scratch) /\ OnlyRegs(m3, m4, Scratch \cup {RStore(f, d)})
  OBVIOUS
<1>3. OnlyRegs(m, m4, Scratch \cup {RStore(f, d)})
  <2> HIDE DEF m3, m4
  <2>1. Scratch \cup (Scratch \cup {RStore(f, d)}) = Scratch \cup {RStore(f, d)}
    OBVIOUS
  <2> QED
    BY <1>2, <2>1, OnlyRegsChain
<1>4. v \in Nat
  BY <1>2, RStoreIs DEF OnlyRegs, IsMachine
<1> HIDE DEF insts, m3, m4, Goal
\* storing to the global scalar, from a register that is not the address's
<1>5. ASSUME d = Glob, NEW l, IsList(l), NEW q \in Regs \ {tmpreg1},
             OnlyRegs(m, ExecuteAll(m, l), Scratch), ExecuteAll(m, l).regs[q] = v,
             all = l \o <<addr, InstArraySet(tmpreg1, 0, q)>>
      PROVE  Goal
  <2> DEFINE ml == ExecuteAll(m, l)
             ma == SetReg(ml, tmpreg1, Address)
             me == SetGlob(ma, v)
  <2>1. IsMachine(ml) /\ OnlyRegs(m, ml, Scratch)
    BY <1>5 DEF OnlyRegs
  <2> HIDE DEF ml
  <2>2. OnlyRegs(ml, ma, {tmpreg1}) /\ ma.regs[tmpreg1] = Address
    <3>1. tmpreg1 \in Regs \ {NoReg}
      BY RegsAre
    <3>2. Address \in Nat
      BY OperatorType
    <3> QED
      BY <2>1, <3>1, <3>2, SetRegIs
  <2>3. Execute(ml, addr) = ma
    BY <2>1, ExecuteIs DEF GlobIdx, GlobArrIdx
  <2>4. ma.regs[q] = v
    BY <1>5, <2>2 DEF OnlyRegs, ml
  <2> HIDE DEF ma
  <2>5. Execute(ma, InstArraySet(tmpreg1, 0, q)) = me
    <3>1. IsMachine(ma)
      BY <2>2 DEF OnlyRegs
    <3>2. Execute(ma, InstArraySet(tmpreg1, 0, q)) = StoreAt(ma, Address + 0, v)
      BY <2>2, <2>4, <3>1, ExecuteIs
    <3>3. Address + 0 = Address
      BY OperatorType
    <3>4. 0 \in Nat /\ 0 < ArraySpan
      BY ValuesAssumption
    <3> QED
      BY <3>1, <3>2, <3>3, <3>4, ThroughPointer
  <2>6. /\ IsMachine(me) /\ me.frames = ma.frames /\ me.regs = ma.regs /\ me.glob = v
        /\ me.garr = ma.garr
    BY <1>4, <2>2, SetGlobIs DEF OnlyRegs
  <2>7. ExecuteAll(m, all) = me /\ IsList(all)
    <3>1. IsList(<<addr, InstArraySet(tmpreg1, 0, q)>>)
      BY ShortLists
    <3>2. ExecuteAll(m, all) = ExecuteAll(ml, <<addr, InstArraySet(tmpreg1, 0, q)>>)
      BY <1>5, <3>1, RunConcat DEF ml
    <3>3. ExecuteAll(ml, <<addr, InstArraySet(tmpreg1, 0, q)>>)
             = Execute(Execute(ml, addr), InstArraySet(tmpreg1, 0, q))
      BY RunShort
    <3> QED
      BY <1>5, <2>3, <2>5, <3>1, <3>2, <3>3, ListConcat
  <2> HIDE DEF me
  <2>8. \A r \in Regs \ Scratch : me.regs[r] = m.regs[r]
    BY <2>1, <2>2, <2>6 DEF OnlyRegs, Scratch
  <2>9. me.frames = m.frames /\ me.garr = m.garr
    BY <2>1, <2>2, <2>6 DEF OnlyRegs
  <2>10. Wrote(f, m, me, d, v)
    BY <1>5, <2>6, <2>8, <2>9, Kinds DEF Wrote, SameShape
  <2> QED
    BY <2>7, <2>10 DEF Goal
<1>6. CASE d = Glob
  <2>1. RStore(f, d) = tmpreg0 /\ tmpreg0 # tmpreg1 /\ tmpreg0 \in Regs \ {tmpreg1}
    BY <1>6, RegsAre DEF RStore
  <2>2. CASE last.inst = "mov" /\ last.srcs[1] # tmpreg1
    <3>1. PICK r \in Regs : last = InstMov(tmpreg0, r)
      BY <2>1, <2>2
    <3>2. last.dest = tmpreg0 /\ last.srcs[1] = r
      BY <3>1 DEF InstMov, Inst
    <3>3. all = pre \o <<addr, InstArraySet(tmpreg1, 0, r)>>
      BY <1>1, <1>6, <2>2, <3>2 DEF DoStore
    <3>4. m4 = SetReg(m3, tmpreg0, m3.regs[r])
      BY <1>2, <3>1, ExecuteIs DEF m4, OnlyRegs
    <3>5. m3.regs[r] \in Nat /\ IsMachine(m3)
      BY <1>2 DEF OnlyRegs, IsMachine
    <3>6. v = m3.regs[r]
      <4>1. tmpreg0 \in Regs \ {NoReg}
        BY RegsAre
      <4>2. SetReg(m3, tmpreg0, m3.regs[r]).regs[tmpreg0] = m3.regs[r]
        BY <3>5, <4>1, SetRegIs
      <4> QED
        BY <2>1, <3>4, <4>2
    <3> HIDE DEF all, v
    <3> QED
      BY <1>2, <1>5, <1>6, <2>2, <3>2, <3>3, <3>6 DEF m3
  <2>3. CASE ~ (last.inst = "mov" /\ last.srcs[1] # tmpreg1)
    <3>1. all = insts \o <<addr, InstArraySet(tmpreg1, 0, tmpreg0)>>
      BY <1>1, <1>6, <2>3 DEF DoStore
    <3>2. OnlyRegs(m, ExecuteAll(m, insts), Scratch)
      <4>1. Scratch \cup {RStore(f, d)} = Scratch
        BY <2>1 DEF Scratch
      <4> QED
        BY <1>1, <1>3, <4>1
    <3>3. ExecuteAll(m, insts).regs[tmpreg0] = v
      BY <1>1, <2>1
    <3> HIDE DEF all, v
    <3> QED
      BY <1>1, <1>5, <1>6, <2>1, <3>1, <3>2, <3>3
  <2> QED
    BY <2>2, <2>3
<1>7. CASE d # Glob /\ f.vreg[d].pos = "stack"
  <2> DEFINE n == f.vreg[d].slot
             top == TopOf(m)
             m5 == SetReg(m4, tmpreg1, Junk)
             m6 == SetWord(m5, top, n, v)
  <2>1. /\ IsKept(f, m, d) /\ RStore(f, d) = tmpreg0 /\ f.vreg[d] = OnStack(n)
        /\ n \in DOMAIN m.frames[top] /\ d \notin Unpooled
    <3> HIDE DEF v, all
    <3>1. IsKept(f, m, d)
      BY <1>7 DEF IsTarget
    <3> QED
      BY <1>7, <3>1, KeptIs, RStoreIs
  <2>2. all = Append(insts, InstStoreStack(n, tmpreg0))
    BY <1>7 DEF DoStore
  <2>3. /\ IsMachine(m4) /\ TopOf(m4) = top /\ m4.frames = m.frames /\ m4.glob = m.glob
        /\ m4.garr = m.garr /\ \A r \in Regs \ Scratch : m4.regs[r] = m.regs[r]
    BY <1>3, <2>1 DEF OnlyRegs, TopOf, Scratch
  <2>4. ExecuteAll(m, all) = Execute(m4, InstStoreStack(n, tmpreg0)) /\ IsList(all)
    <3> DEFINE i == InstStoreStack(n, tmpreg0)
    <3> HIDE DEF all, i
    <3>1. ExecuteAll(m, all) = Execute(ExecuteAll(m, insts), i)
      BY <1>1, <2>2, RunAppend DEF i
    <3>2. IsList(all)
      BY <1>1, <2>2, ListAppend
    <3> QED
      BY <1>1, <3>1, <3>2 DEF i
  <2>5. /\ Execute(m4, InstStoreStack(n, tmpreg0)) = m6
        /\ IsMachine(m5) /\ m5.frames = m4.frames /\ m5.glob = m4.glob /\ m5.garr = m4.garr
        /\ \A q \in Regs \ Scratch : m5.regs[q] = m4.regs[q]
    <3>1. n \in DOMAIN m4.frames[TopOf(m4)] /\ tmpreg0 \in Regs /\ v = m4.regs[tmpreg0]
      BY <2>1, <2>3, RegsAre
    <3> HIDE DEF n, v, top
    <3> QED
      BY <2>3, <3>1, StoreStackIs
  <2>6. top \in DOMAIN m5.frames /\ n \in DOMAIN m5.frames[top]
    BY <2>1, <2>3, <2>5, ListIs DEF IsMachine, TopOf
  <2> HIDE DEF m5, top, n, v, all
  <2>7. /\ IsMachine(m6) /\ SameShape(m5, m6)
        /\ m6.regs = m5.regs /\ m6.glob = m5.glob /\ m6.garr = m5.garr
        /\ \A j \in DOMAIN m5.frames : \A w \in DOMAIN m5.frames[j] :
             m6.frames[j][w] = IF j = top /\ w = n THEN v ELSE m5.frames[j][w]
    BY <1>4, <2>5, <2>6, SetWordIs
  <2> HIDE DEF m6
  <2>8. \A w : f.vreg[d] = OnStack(w) <=> w = n
    BY <2>1, Kinds
  <2>9. \A r : f.vreg[d] # InReg(r)
    BY <1>7, Kinds
  <2>10. Wrote(f, m, m6, d, v)
    <3>1. IsMachine(m6) /\ SameShape(m, m6)
      BY <2>3, <2>5, <2>7 DEF SameShape
    <3>2. \A r \in Regs \ Scratch : m6.regs[r] = m.regs[r]
      BY <2>3, <2>5, <2>7
    <3>3. \A j \in DOMAIN m.frames : \A w \in DOMAIN m.frames[j] :
             m6.frames[j][w] = IF j = top /\ w = n THEN v ELSE m.frames[j][w]
      BY <2>3, <2>5, <2>7
    <3>4. m6.glob = m.glob /\ m6.garr = m.garr
      BY <2>3, <2>5, <2>7
    <3> QED
      BY <1>7, <2>1, <2>8, <2>9, <3>1, <3>2, <3>3, <3>4 DEF Wrote, top
  <2> QED
    BY <2>4, <2>5, <2>10 DEF Goal
<1>8. CASE d # Glob /\ f.vreg[d].pos # "stack"
  <2> DEFINE r == f.vreg[d].reg
  <2>1. /\ IsKept(f, m, d) /\ RStore(f, d) = r /\ f.vreg[d] = InReg(r)
        /\ r \in AvailRegs /\ d \notin Unpooled
    <3> HIDE DEF v, all
    <3>1. IsKept(f, m, d)
      BY <1>8 DEF IsTarget
    <3> QED
      BY <1>8, <3>1, KeptIs, RStoreIs
  <2>2. all = insts
    BY <1>8 DEF DoStore
  <2> HIDE DEF r, v, all
  <2>3. \A q : f.vreg[d] = InReg(q) <=> q = r
    BY <2>1, Kinds
  <2>4. \A n : f.vreg[d] # OnStack(n)
    BY <1>8, Kinds
  <2>5. /\ IsMachine(m4) /\ m4.frames = m.frames /\ m4.glob = m.glob
        /\ m4.garr = m.garr /\ \A q \in Regs \ (Scratch \cup {r}) : m4.regs[q] = m.regs[q]
    BY <1>3, <2>1 DEF OnlyRegs
  <2>6. m4.regs[r] = v
    BY <2>1 DEF v
  <2>7. Wrote(f, m, m4, d, v)
    BY <1>8, <2>1, <2>3, <2>4, <2>5, <2>6 DEF Wrote, SameShape
  <2> QED
    BY <1>1, <2>2, <2>7 DEF Goal
<1> QED
  BY <1>6, <1>7, <1>8

-------------------------------------------------------------------------------
(* The instructions of a statement, class by class.                        *)

\* A word of an array is found from its first word.
LEMMA PtrAt ==
    ASSUME NEW k \in Nat, NEW n \in Nat
    PROVE  Ptr(k, 0) + n = Ptr(k, n) /\ Ptr(k, n) + 0 = Ptr(k, n) /\ Ptr(k, n) \in Nat
<1> DEFINE q == k * ArraySpan
<1>1. q \in Nat /\ Modulus \in Nat
  BY ValuesAssumption
<1>2. \A x \in Nat : Ptr(k, x) = Modulus + 2 + q + x
  BY <1>1 DEF Ptr, Junk
<1> HIDE DEF q
<1>3. Ptr(k, 0) = Modulus + 2 + q + 0 /\ Ptr(k, n) = Modulus + 2 + q + n
  BY <1>2
<1> QED
  BY <1>1, <1>3

\* the instructions of l leave x in l's register, by way of tmp if need be
Loads(m, l, tmp, x) ==
    /\ IsList(l.insts)
    /\ OnlyRegs(m, ExecuteAll(m, l.insts), {tmp})
    /\ l.reg \in AvailRegs \cup {tmp, NoReg}
    /\ ExecuteAll(m, l.insts).regs[l.reg] = x

\* Operands are loaded.
LEMMA RLoadLoads ==
    ASSUME NEW f, NEW m, NEW v, NEW tmp \in Scratch,
           IsMachine(m),
           IsOperand(f, m, v)
    PROVE  Loads(m, RLoad(f, v, tmp), tmp, ValueIn(f, m, v))
BY RLoadDoes DEF Loads

\* the value of an operand that may be an array: a pointer to its first word
ArgValue(f, m, v) ==
    CASE v = LocArr  -> Ptr(TopOf(m), 0)
      [] v = GlobArr -> Ptr(0, 0)
      [] OTHER       -> ValueIn(f, m, v)

\* what an operand of a statement may be
IsArgument(f, m, v) == v \in Arrays \/ IsOperand(f, m, v)

\* The value of an argument, a pointer if it is an array, is a number.
LEMMA ArgValueIs ==
    ASSUME NEW f, NEW m, NEW v,
           IsMachine(m),
           IsArgument(f, m, v)
    PROVE  /\ ArgValue(f, m, v) \in Nat
           /\ IsOperand(f, m, v) => ArgValue(f, m, v) = ValueIn(f, m, v)
<1>1. TopOf(m) \in Nat /\ 0 \in Nat
  BY ListIs DEF IsMachine, TopOf
<1>2. Ptr(TopOf(m), 0) \in Nat /\ Ptr(0, 0) \in Nat
  BY <1>1, PtrPlus
<1>3. IsOperand(f, m, v) => v \notin Arrays
  BY Kinds DEF IsOperand, IsKept
<1>4. CASE IsOperand(f, m, v)
  <2>1. ArgValue(f, m, v) = ValueIn(f, m, v)
    BY <1>3, <1>4 DEF ArgValue, Arrays
  <2> QED
    BY <1>4, <2>1, OperandType
<1>5. CASE v \in Arrays
  BY <1>2, <1>3, <1>5, Kinds DEF ArgValue, Arrays
<1> QED
  BY <1>4, <1>5 DEF IsArgument

\* One instruction that leaves x in tmp.
LEMMA LoadsOne ==
    ASSUME NEW m, NEW i, NEW tmp \in Scratch, NEW x \in Nat,
           IsMachine(m),
           Execute(m, i) = SetReg(m, tmp, x)
    PROVE  Loads(m, [insts |-> <<i>>, reg |-> tmp], tmp, x)
<1>1. IsList(<<i>>) /\ ExecuteAll(m, <<i>>) = Execute(m, i)
  BY ShortLists, RunShort
<1>2. tmp \in Regs \ {NoReg}
  BY RegsAre
<1>3. OnlyRegs(m, SetReg(m, tmp, x), {tmp}) /\ SetReg(m, tmp, x).regs[tmp] = x
  BY <1>2, SetRegIs
<1> QED
  BY <1>1, <1>3 DEF Loads

\* Arrays are loaded: a pointer to word n of a local one, to the first word of
\* the others.
LEMMA BaseLoads ==
    ASSUME NEW f, NEW m, NEW a, NEW tmp \in Scratch, NEW n \in Nat,
           IsMachine(m),
           a \in Arrays \/ (IsKept(f, m, a) /\ f.vreg[a].pos # "stack")
    PROVE  Loads(m, Base(f, a, n, tmp), tmp,
                 IF a = LocArr THEN Ptr(TopOf(m), n) ELSE ArgValue(f, m, a))
<1>1. TopOf(m) \in Nat /\ 0 \in Nat
  BY ListIs DEF IsMachine, TopOf
<1>2. CASE a = GlobArr
  <2> DEFINE i == InstLoadAddrGlobal(tmp, GlobArrIdx)
  <2>1. Execute(m, i) = SetReg(m, tmp, Ptr(0, 0))
    BY ExecuteIs
  <2>2. Ptr(0, 0) \in Nat
    BY <1>1, PtrPlus
  <2>3. Base(f, a, n, tmp) = [insts |-> <<i>>, reg |-> tmp] /\ ArgValue(f, m, a) = Ptr(0, 0) /\ a # LocArr
    BY <1>2, Kinds DEF Base, ArgValue
  <2> HIDE DEF i
  <2> QED
    BY <2>1, <2>2, <2>3, LoadsOne
<1>3. CASE a = LocArr
  <2> DEFINE i == InstLoadAddrStack(tmp, n)
  <2>1. Execute(m, i) = SetReg(m, tmp, Ptr(TopOf(m), n))
    BY ExecuteIs
  <2>2. Ptr(TopOf(m), n) \in Nat
    BY <1>1, PtrPlus
  <2>3. Base(f, a, n, tmp) = [insts |-> <<i>>, reg |-> tmp]
    BY <1>3, Kinds DEF Base
  <2> HIDE DEF i
  <2> QED
    BY <1>3, <2>1, <2>2, <2>3, LoadsOne
<1>4. CASE IsKept(f, m, a) /\ f.vreg[a].pos # "stack"
  <2>1. a \notin Arrays /\ f.vreg[a].reg \in AvailRegs /\ ValueIn(f, m, a) = m.regs[f.vreg[a].reg]
    BY <1>4, KeptIs, Kinds
  <2>2. Base(f, a, n, tmp) = [insts |-> <<>>, reg |-> f.vreg[a].reg]
    BY <2>1 DEF Base, Arrays
  <2>3. a # LocArr /\ ArgValue(f, m, a) = ValueIn(f, m, a)
    BY <2>1 DEF ArgValue, Arrays
  <2>4. OnlyRegs(m, m, {tmp})
    BY OnlyRegsChain
  <2> QED
    BY <2>1, <2>2, <2>3, <2>4, ShortLists, RunEmpty DEF Loads
<1> QED
  BY <1>2, <1>3, <1>4 DEF Arrays

\* Two operands are loaded by way of different registers.
LEMMA TwoLoads ==
    ASSUME NEW m, NEW l1, NEW l2, NEW x1, NEW x2, NEW t1 \in Scratch, NEW t2 \in Scratch,
           t1 # t2,
           Loads(m, l1, t1, x1),
           Loads(ExecuteAll(m, l1.insts), l2, t2, x2)
    PROVE  /\ IsList(l1.insts \o l2.insts)
           /\ OnlyRegs(m, ExecuteAll(m, l1.insts \o l2.insts), Scratch)
           /\ ExecuteAll(m, l1.insts \o l2.insts).regs[l1.reg] = x1
           /\ ExecuteAll(m, l1.insts \o l2.insts).regs[l2.reg] = x2
           /\ l1.reg \in Regs /\ l2.reg \in Regs
<1> DEFINE m1 == ExecuteAll(m, l1.insts)
           m2 == ExecuteAll(m1, l2.insts)
<1>1. IsList(l1.insts \o l2.insts) /\ ExecuteAll(m, l1.insts \o l2.insts) = m2
  BY ListConcat, RunConcat DEF Loads
<1>2. /\ OnlyRegs(m, m1, {t1}) /\ OnlyRegs(m1, m2, {t2}) /\ m1.regs[l1.reg] = x1 /\ m2.regs[l2.reg] = x2
      /\ l1.reg \in AvailRegs \cup {t1, NoReg} /\ l2.reg \in AvailRegs \cup {t2, NoReg}
  BY DEF Loads
<1> HIDE DEF m1, m2
<1>3. OnlyRegs(m, m2, Scratch)
  <2>1. {t1} \cup {t2} \subseteq Scratch
    OBVIOUS
  <2> QED
    BY <1>2, <2>1, OnlyRegsChain
<1>4. l1.reg \in Regs \ {t2} /\ l2.reg \in Regs
  BY <1>2, RegsAre
<1>5. m2.regs[l1.reg] = x1
  BY <1>2, <1>4 DEF OnlyRegs
<1> QED
  BY <1>1, <1>2, <1>3, <1>4, <1>5

\* Operands stay what they are when a scratch register is loaded.
LEMMA ArgumentStays ==
    ASSUME NEW f, NEW m, NEW l, NEW tmp \in Scratch, NEW x, NEW v,
           IsMachine(m),
           Loads(m, l, tmp, x),
           IsOperand(f, m, v)
    PROVE  /\ IsOperand(f, ExecuteAll(m, l.insts), v)
           /\ ValueIn(f, ExecuteAll(m, l.insts), v) = ValueIn(f, m, v)
           /\ IsMachine(ExecuteAll(m, l.insts))
<1>1. OnlyRegs(m, ExecuteAll(m, l.insts), {tmp}) /\ {tmp} \cap AvailRegs = {}
  BY RegsAre DEF Loads
<1>2. IsMachine(ExecuteAll(m, l.insts))
  BY <1>1 DEF OnlyRegs
<1> QED
  BY <1>1, <1>2, OperandStays
-------------------------------------------------------------------------------
\* The last instruction computes v in the register a result is computed in.
LEMMA ComputesIn ==
    ASSUME NEW f, NEW m, NEW d, NEW pre, NEW last, NEW v \in Nat,
           IsMachine(m),
           IsTarget(f, m, d),
           IsList(pre),
           OnlyRegs(m, ExecuteAll(m, pre), Scratch),
           Execute(ExecuteAll(m, pre), last) = SetReg(ExecuteAll(m, pre), RStore(f, d), v),
           last.inst = "mov" => \E r \in Regs : last = InstMov(RStore(f, d), r)
    PROVE  /\ IsList(DoStore(f, d, Append(pre, last)))
           /\ Wrote(f, m, ExecuteAll(m, DoStore(f, d, Append(pre, last))), d, v)
<1> DEFINE m1 == ExecuteAll(m, pre)
           m2 == Execute(m1, last)
           t  == RStore(f, d)
<1>1. t \in Regs \ {NoReg}
  BY RStoreIs
<1>2. IsMachine(m1)
  BY DEF OnlyRegs
<1>3. OnlyRegs(m1, m2, {t}) /\ m2.regs[t] = v
  <2> HIDE DEF m1, t
  <2> QED
    BY <1>1, <1>2, SetRegIs DEF m1, t
<1>4. OnlyRegs(m1, m2, Scratch \cup {t})
  BY <1>3, OnlyRegsChain
<1> QED
  BY <1>3, <1>4, DoStoreDoes

\* An operator of two operands, the first of which may be an array.
LEMMA OpBinaryDoes ==
    ASSUME NEW f, NEW m, NEW stmt,
           IsMachine(m),
           IsTarget(f, m, stmt.dest),
           IsArgument(f, m, stmt.args[1]),
           IsOperand(f, m, stmt.args[2])
    PROVE  /\ IsList(GenOpBinary(f, stmt))
           /\ Wrote(f, m, ExecuteAll(m, GenOpBinary(f, stmt)), stmt.dest,
                    BinaryOp(ArgValue(f, m, stmt.args[1]), ArgValue(f, m, stmt.args[2])))
<1> DEFINE a1 == stmt.args[1]
           a2 == stmt.args[2]
           l1 == IF a1 \in Arrays THEN Base(f, a1, 0, tmpreg0) ELSE RLoad(f, a1, tmpreg0)
           l2 == RLoad(f, a2, tmpreg1)
           x1 == ArgValue(f, m, a1)
           x2 == ArgValue(f, m, a2)
           pre == l1.insts \o l2.insts
           op  == InstOpBinary(RStore(f, stmt.dest), l1.reg, l2.reg)
           m2  == ExecuteAll(m, pre)
           v   == BinaryOp(x1, x2)
<1>1. GenOpBinary(f, stmt) = DoStore(f, stmt.dest, l1.insts \o l2.insts \o <<op>>)
  BY DEF GenOpBinary
<1>2. tmpreg0 \in Scratch /\ tmpreg1 \in Scratch /\ tmpreg0 # tmpreg1 /\ 0 \in Nat
  BY RegsAre DEF Scratch
<1>3. Loads(m, l1, tmpreg0, x1)
  <2>1. CASE a1 \in Arrays
    <3>1. Loads(m, Base(f, a1, 0, tmpreg0), tmpreg0,
                IF a1 = LocArr THEN Ptr(TopOf(m), 0) ELSE ArgValue(f, m, a1))
      BY <1>2, <2>1, BaseLoads
    <3>2. a1 = LocArr => ArgValue(f, m, a1) = Ptr(TopOf(m), 0)
      BY Kinds DEF ArgValue
    <3>3. l1 = Base(f, a1, 0, tmpreg0)
      BY <2>1
    <3> HIDE DEF l1, a1
    <3> QED
      BY <3>1, <3>2, <3>3
  <2>2. CASE a1 \notin Arrays
    <3>1. IsOperand(f, m, a1) /\ x1 = ValueIn(f, m, a1)
      BY <2>2, ArgValueIs DEF IsArgument
    <3> QED
      BY <1>2, <2>2, <3>1, RLoadLoads
  <2> QED
    BY <2>1, <2>2
<1>4. Loads(ExecuteAll(m, l1.insts), l2, tmpreg1, x2)
  <2> HIDE DEF l1, x1
  <2>1. /\ IsOperand(f, ExecuteAll(m, l1.insts), a2)
        /\ ValueIn(f, ExecuteAll(m, l1.insts), a2) = ValueIn(f, m, a2)
        /\ IsMachine(ExecuteAll(m, l1.insts))
    BY <1>2, <1>3, ArgumentStays
  <2>2. x2 = ValueIn(f, m, a2)
    BY ArgValueIs DEF IsArgument
  <2> QED
    BY <1>2, <2>1, <2>2, RLoadLoads
<1>5. x1 \in Nat /\ x2 \in Nat
  BY ArgValueIs DEF IsArgument
<1>6. v \in Nat
  <2> HIDE DEF x1, x2
  <2> QED
    BY <1>5, OperatorType
<1> HIDE DEF l1, l2, x1, x2
<1>7. /\ IsList(pre) /\ OnlyRegs(m, m2, Scratch)
      /\ m2.regs[l1.reg] = x1 /\ m2.regs[l2.reg] = x2
  BY <1>2, <1>3, <1>4, TwoLoads
<1>8. Execute(m2, op) = SetReg(m2, RStore(f, stmt.dest), v)
  <2>1. IsMachine(m2)
    BY <1>7 DEF OnlyRegs
  <2> HIDE DEF m2
  <2> QED
    BY <1>7, <2>1, ExecuteIs
<1>9. op.inst # "mov"
  BY DEF InstOpBinary, Inst
<1>10. pre \o <<op>> = Append(pre, op)
  BY <1>7, ListAppend
<1> HIDE DEF pre, op, v
<1> QED
  BY <1>1, <1>6, <1>7, <1>8, <1>9, <1>10, ComputesIn DEF pre, v, x1, x2

\* An operator of one operand.
LEMMA OpUnaryDoes ==
    ASSUME NEW f, NEW m, NEW stmt,
           IsMachine(m),
           IsTarget(f, m, stmt.dest),
           IsOperand(f, m, stmt.args[1])
    PROVE  /\ IsList(GenOpUnary(f, stmt))
           /\ Wrote(f, m, ExecuteAll(m, GenOpUnary(f, stmt)), stmt.dest,
                    UnaryOp(ArgValue(f, m, stmt.args[1])))
<1> DEFINE x  == ValueIn(f, m, stmt.args[1])
           l  == RLoad(f, stmt.args[1], tmpreg1)
           op == InstOpUnary(RStore(f, stmt.dest), l.reg)
           m2 == ExecuteAll(m, l.insts)
           v  == UnaryOp(x)
<1>1. GenOpUnary(f, stmt) = DoStore(f, stmt.dest, Append(l.insts, op))
  BY DEF GenOpUnary
<1>2. ArgValue(f, m, stmt.args[1]) = x /\ x \in Nat
  BY ArgValueIs DEF IsArgument
<1>3. v \in Nat
  <2> HIDE DEF x
  <2> QED
    BY <1>2, OperatorType
<1>4. tmpreg1 \in Scratch
  BY DEF Scratch
<1>5. Loads(m, l, tmpreg1, x)
  BY <1>4, RLoadLoads
<1> HIDE DEF l, x
<1>6. OnlyRegs(m, m2, Scratch) /\ m2.regs[l.reg] = x /\ IsList(l.insts)
  <2>1. {tmpreg1} \subseteq Scratch
    BY <1>4
  <2> QED
    BY <1>5, <2>1, OnlyRegsChain DEF Loads
<1>7. Execute(m2, op) = SetReg(m2, RStore(f, stmt.dest), v)
  <2>1. IsMachine(m2)
    BY <1>6 DEF OnlyRegs
  <2> HIDE DEF m2
  <2> QED
    BY <1>6, <2>1, ExecuteIs
<1>8. op.inst # "mov"
  BY DEF InstOpUnary, Inst
<1> HIDE DEF op, v
<1> QED
  BY <1>1, <1>2, <1>3, <1>6, <1>7, <1>8, ComputesIn DEF v

\* A value is moved to the register r: by one instruction, after a load.
LEMMA MovToIs ==
    ASSUME NEW f, NEW m, NEW v, NEW r \in Regs \ {NoReg},
           IsMachine(m),
           IsOperand(f, m, v)
    PROVE  \E pre, last :
              /\ GenMovTo(f, v, r) = Append(pre, last)
              /\ IsList(pre)
              /\ OnlyRegs(m, ExecuteAll(m, pre), Scratch)
              /\ Execute(ExecuteAll(m, pre), last) = SetReg(ExecuteAll(m, pre), r, ValueIn(f, m, v))
              /\ last.inst = "mov" => \E q \in Regs : last = InstMov(r, q)
<1>1. CASE v = NoVar
  <2>1. GenMovTo(f, v, r) = <<InstLoadImm(r, Literal)>>
    BY <1>1 DEF GenMovTo
  <2> DEFINE i == InstLoadImm(r, Literal)
  <2>2. <<i>> = Append(<<>>, i) /\ IsList(<<>>) /\ ExecuteAll(m, <<>>) = m /\ OnlyRegs(m, m, Scratch)
    BY ShortLists, RunEmpty, OnlyRegsChain
  <2>3. Execute(m, i) = SetReg(m, r, ValueIn(f, m, v))
    BY <1>1, ExecuteIs, Kinds DEF ValueIn
  <2>4. i.inst # "mov"
    BY DEF InstLoadImm, Inst
  <2> HIDE DEF i
  <2> QED
    BY <2>1, <2>2, <2>3, <2>4 DEF i
<1>2. CASE v # NoVar
  <2> DEFINE l == RLoad(f, v, tmpreg1)
             i == InstMov(r, l.reg)
             m2 == ExecuteAll(m, l.insts)
  <2>1. GenMovTo(f, v, r) = Append(l.insts, i)
    BY <1>2 DEF GenMovTo
  <2>2. tmpreg1 \in Scratch
    BY DEF Scratch
  <2>3. Loads(m, l, tmpreg1, ValueIn(f, m, v))
    BY <2>2, RLoadLoads
  <2> HIDE DEF l
  <2>4. OnlyRegs(m, m2, Scratch) /\ m2.regs[l.reg] = ValueIn(f, m, v) /\ IsList(l.insts) /\ l.reg \in Regs
    <3>1. {tmpreg1} \subseteq Scratch
      BY <2>2
    <3> QED
      BY <2>3, <3>1, OnlyRegsChain, RegsAre DEF Loads
  <2>5. Execute(m2, i) = SetReg(m2, r, ValueIn(f, m, v))
    <3>1. IsMachine(m2)
      BY <2>4 DEF OnlyRegs
    <3> HIDE DEF m2
    <3> QED
      BY <2>4, <3>1, ExecuteIs
  <2>6. i = InstMov(r, l.reg)
    OBVIOUS
  <2> HIDE DEF i
  <2> QED
    BY <2>1, <2>4, <2>5, <2>6
<1> QED
  BY <1>1, <1>2

\* An assignment.
LEMMA MovDoes ==
    ASSUME NEW f, NEW m, NEW stmt,
           IsMachine(m),
           IsTarget(f, m, stmt.dest),
           IsOperand(f, m, stmt.args[1])
    PROVE  /\ IsList(GenMov(f, stmt))
           /\ Wrote(f, m, ExecuteAll(m, GenMov(f, stmt)), stmt.dest,
                    ArgValue(f, m, stmt.args[1]))
<1> DEFINE d == stmt.dest
           v == stmt.args[1]
           x == ValueIn(f, m, v)
<1>1. RStore(f, d) \in Regs \ {NoReg}
  BY RStoreIs
<1>2. PICK pre, last :
              /\ GenMovTo(f, v, RStore(f, d)) = Append(pre, last)
              /\ IsList(pre)
              /\ OnlyRegs(m, ExecuteAll(m, pre), Scratch)
              /\ Execute(ExecuteAll(m, pre), last) = SetReg(ExecuteAll(m, pre), RStore(f, d), x)
              /\ last.inst = "mov" => \E q \in Regs : last = InstMov(RStore(f, d), q)
  BY <1>1, MovToIs
<1>3. ArgValue(f, m, v) = x /\ x \in Nat
  BY ArgValueIs DEF IsArgument
<1>4. GenMov(f, stmt) = DoStore(f, d, Append(pre, last))
  BY <1>2 DEF GenMov
<1> HIDE DEF x
<1> QED
  BY <1>2, <1>3, <1>4, ComputesIn

\* A value is moved to a register that holds no scalar wanted later: a return.
LEMMA MovToDoes ==
    ASSUME NEW f, NEW m, NEW v, NEW r \in Regs \ {NoReg},
           IsMachine(m),
           IsOperand(f, m, v)
    PROVE  /\ IsList(GenMovTo(f, v, r))
           /\ OnlyRegs(m, ExecuteAll(m, GenMovTo(f, v, r)), Scratch \cup {r})
           /\ ExecuteAll(m, GenMovTo(f, v, r)).regs[r] = ValueIn(f, m, v)
<1> DEFINE x == ValueIn(f, m, v)
<1>1. PICK pre, last :
              /\ GenMovTo(f, v, r) = Append(pre, last)
              /\ IsList(pre)
              /\ OnlyRegs(m, ExecuteAll(m, pre), Scratch)
              /\ Execute(ExecuteAll(m, pre), last) = SetReg(ExecuteAll(m, pre), r, x)
  BY MovToIs
<1>2. x \in Nat
  BY OperandType
<1> DEFINE m2 == ExecuteAll(m, pre)
<1>3. IsMachine(m2)
  BY <1>1 DEF OnlyRegs
<1>4. IsList(Append(pre, last)) /\ ExecuteAll(m, Append(pre, last)) = Execute(m2, last)
  BY <1>1, ListAppend, RunAppend
<1> HIDE DEF m2, x
<1>5. OnlyRegs(m2, SetReg(m2, r, x), {r}) /\ SetReg(m2, r, x).regs[r] = x
  BY <1>2, <1>3, SetRegIs
<1>6. OnlyRegs(m, SetReg(m2, r, x), Scratch \cup {r})
  BY <1>1, <1>5, OnlyRegsChain DEF m2
<1> QED
  BY <1>1, <1>4, <1>5, <1>6 DEF m2, x

\* what p points to is a word of an array there is
IsWord(m, p) ==
    \/ \E i \in DOMAIN GlobInit : i \in Nat /\ i < ArraySpan /\ p = Ptr(0, i)
    \/ \E k \in DOMAIN m.frames : \E i \in DOMAIN m.frames[k] :
          i \in Nat /\ i < ArraySpan /\ p = Ptr(k, i)

\* Reading an element of an array.
LEMMA ArrayGetDoes ==
    ASSUME NEW f, NEW m, NEW stmt,
           IsMachine(m),
           IsTarget(f, m, stmt.dest),
           stmt.label \in Nat,
           stmt.args[1] \in Arrays \/ IsKept(f, m, stmt.args[1]),
           IsArg(stmt.args[1]) /\ stmt.args[1] \notin Unpooled => f.vreg[stmt.args[1]].pos # "stack",
           IsWord(m, ArgValue(f, m, stmt.args[1]) + stmt.label)
    PROVE  /\ IsList(GenArrayGet(f, stmt))
           /\ Wrote(f, m, ExecuteAll(m, GenArrayGet(f, stmt)), stmt.dest,
                    LoadFrom(m, ArgValue(f, m, stmt.args[1]) + stmt.label))
<1> DEFINE a    == stmt.args[1]
           off  == IF a = LocArr THEN 0 ELSE stmt.label
           base == IF a \in Arrays \/ IsArg(a)
                   THEN Base(f, a, stmt.label, tmpreg1) ELSE RLoad(f, a, tmpreg1)
           t    == RStore(f, stmt.dest)
           i    == InstArrayGet(t, base.reg, off)
           x    == IF a = LocArr THEN Ptr(TopOf(m), stmt.label) ELSE ArgValue(f, m, a)
           p    == ArgValue(f, m, a) + stmt.label
           v    == LoadFrom(m, p)
           m2   == ExecuteAll(m, base.insts)
           m3   == SetReg(m2, tmpreg0, Junk)
           m4   == SetReg(m3, t, v)
<1>1. GenArrayGet(f, stmt) = DoStore(f, stmt.dest, Append(base.insts, i))
  BY DEF GenArrayGet
<1>2. tmpreg1 \in Scratch /\ {tmpreg1} \subseteq Scratch /\ {tmpreg0} \subseteq Scratch
  BY DEF Scratch
<1>3. Loads(m, base, tmpreg1, x)
  <2>1. CASE a \in Arrays \/ IsArg(a)
    <3>1. a \in Arrays \/ (IsKept(f, m, a) /\ f.vreg[a].pos # "stack")
      BY <2>1 DEF IsKept
    <3> QED
      BY <1>2, <2>1, <3>1, BaseLoads
  <2>2. CASE ~ (a \in Arrays \/ IsArg(a))
    <3>1. IsOperand(f, m, a) /\ a # LocArr
      BY <2>2 DEF IsOperand, Arrays
    <3>2. x = ValueIn(f, m, a)
      BY <3>1, ArgValueIs DEF IsArgument
    <3> QED
      BY <1>2, <2>2, <3>1, <3>2, RLoadLoads
  <2> QED
    BY <2>1, <2>2
<1>4. x + off = p
  <2>1. CASE a = LocArr
    <3>1. TopOf(m) \in Nat /\ 0 \in Nat
      BY ListIs DEF IsMachine, TopOf
    <3>2. ArgValue(f, m, a) = Ptr(TopOf(m), 0)
      BY <2>1, Kinds DEF ArgValue
    <3>3. Ptr(TopOf(m), 0) + stmt.label = Ptr(TopOf(m), stmt.label)
          /\ Ptr(TopOf(m), stmt.label) + 0 = Ptr(TopOf(m), stmt.label)
      BY <3>1, PtrAt
    <3> QED
      BY <2>1, <3>2, <3>3
  <2>2. CASE a # LocArr
    BY <2>2
  <2> QED
    BY <2>1, <2>2
<1> HIDE DEF base
<1>5. OnlyRegs(m, m2, Scratch) /\ m2.regs[base.reg] = x /\ IsList(base.insts)
  BY <1>2, <1>3, OnlyRegsChain DEF Loads
<1>6. LoadFrom(m2, p) = v /\ v \in Nat
  <2>1. m2.frames = m.frames /\ m2.garr = m.garr
    BY <1>5 DEF OnlyRegs
  <2> HIDE DEF m2, p
  <2>2. LoadFrom(m2, p) = LoadFrom(m, p)
    BY <2>1 DEF LoadFrom
  <2>3. LoadFrom(m, p) \in Nat
    <3>1. CASE \E j \in DOMAIN GlobInit : j \in Nat /\ j < ArraySpan /\ p = Ptr(0, j)
      <4>1. PICK j \in DOMAIN GlobInit : j \in Nat /\ j < ArraySpan /\ p = Ptr(0, j)
        BY <3>1
      <4>2. LoadFrom(m, p) = m.garr[j]
        BY <4>1, ThroughPointer
      <4> QED
        BY <4>1, <4>2 DEF IsMachine
    <3>2. CASE \E k \in DOMAIN m.frames : \E j \in DOMAIN m.frames[k] :
                   j \in Nat /\ j < ArraySpan /\ p = Ptr(k, j)
      <4>0. PICK k \in DOMAIN m.frames : \E j \in DOMAIN m.frames[k] :
                   j \in Nat /\ j < ArraySpan /\ p = Ptr(k, j)
        BY <3>2
      <4>1. PICK j \in DOMAIN m.frames[k] : j \in Nat /\ j < ArraySpan /\ p = Ptr(k, j)
        BY <4>0
      <4>2. k \in Nat \ {0}
        BY ListIs DEF IsMachine
      <4>3. LoadFrom(m, p) = m.frames[k][j]
        BY <4>1, <4>2, ThroughPointer
      <4> QED
        BY <4>1, <4>3 DEF IsMachine
    <3> QED
      BY <3>1, <3>2 DEF IsWord, p
  <2> QED
    BY <2>2, <2>3
<1>7. Execute(m2, i) = m4
  <2>1. IsMachine(m2)
    BY <1>5 DEF OnlyRegs
  <2>2. LoadFrom(m2, x + off) = v
    BY <1>4, <1>6
  <2> HIDE DEF m2, off, x, v, t
  <2> QED
    BY <1>5, <2>1, <2>2, ArrayGetIs
<1>8. t \in Regs \ {NoReg}
  BY RStoreIs
<1>9. OnlyRegs(m2, m4, Scratch \cup {t}) /\ m4.regs[t] = v
  <2>1. IsMachine(m2) /\ tmpreg0 \in Regs \ {NoReg} /\ Junk \in Nat
    BY <1>5, RegsAre, OperatorType DEF OnlyRegs
  <2> HIDE DEF m2
  <2>2. OnlyRegs(m2, m3, {tmpreg0})
    BY <2>1, SetRegIs
  <2>3. IsMachine(m3)
    BY <2>2 DEF OnlyRegs
  <2> HIDE DEF m3, v, t
  <2>4. OnlyRegs(m3, m4, {t}) /\ m4.regs[t] = v
    BY <1>6, <1>8, <2>3, SetRegIs
  <2>5. {tmpreg0} \cup {t} \subseteq Scratch \cup {t}
    BY <1>2
  <2> QED
    BY <2>2, <2>4, <2>5, OnlyRegsChain
<1>10. i.inst # "mov"
  BY DEF InstArrayGet, Inst
<1> HIDE DEF i, m4, v
<1> QED
  BY <1>1, <1>5, <1>7, <1>9, <1>10, DoStoreDoes DEF v

-------------------------------------------------------------------------------
(* Arrays and comparisons.                                                 *)

\* y was stored where p points to, and nothing else but scratch registers
\* differs
Stored(m, m2, p, y) ==
    /\ IsMachine(m2) /\ SameShape(m, m2)
    /\ \A r \in Regs \ Scratch : m2.regs[r] = m.regs[r]
    /\ \A k \in DOMAIN m.frames : \A n \in DOMAIN m.frames[k] :
         m2.frames[k][n] = IF k = PtrArray(p) /\ n = PtrOffset(p) THEN y ELSE m.frames[k][n]
    /\ m2.glob = m.glob
    /\ m2.garr = IF PtrArray(p) = 0 THEN [m.garr EXCEPT ![PtrOffset(p)] = y] ELSE m.garr

\* A store through a pointer into an array.
LEMMA StoreAtDoes ==
    ASSUME NEW m, NEW m1, NEW p, NEW y \in Nat,
           OnlyRegs(m, m1, Scratch),
           IsWord(m, p)
    PROVE  Stored(m, StoreAt(m1, p, y), p, y)
<1>1. /\ IsMachine(m1) /\ m1.frames = m.frames /\ m1.glob = m.glob /\ m1.garr = m.garr
      /\ \A r \in Regs \ Scratch : m1.regs[r] = m.regs[r]
  BY DEF OnlyRegs
<1>2. DOMAIN m.frames = 1..Len(m.frames) /\ Len(m.frames) \in Nat
  BY <1>1, ListIs DEF IsMachine
<1>3. CASE \E i \in DOMAIN GlobInit : i \in Nat /\ i < ArraySpan /\ p = Ptr(0, i)
  <2>1. PICK i \in DOMAIN GlobInit : i \in Nat /\ i < ArraySpan /\ p = Ptr(0, i)
    BY <1>3
  <2> DEFINE m2 == SetGarr(m1, i, y)
  <2>2. StoreAt(m1, p, y) = m2 /\ PtrArray(p) = 0 /\ PtrOffset(p) = i
    <3>1. 0 \in Nat
      OBVIOUS
    <3> QED
      BY <1>1, <2>1, <3>1, ThroughPointer, Pointers
  <2>3. /\ IsMachine(m2) /\ m2.frames = m1.frames
        /\ m2.regs = m1.regs /\ m2.glob = m1.glob
        /\ m2.garr = [m1.garr EXCEPT ![i] = y]
    BY <1>1, <2>1, SetGarrIs
  <2> HIDE DEF m2
  <2>4. \A k \in DOMAIN m.frames : k # PtrArray(p)
    BY <1>2, <2>2
  <2> QED
    BY <1>1, <2>2, <2>3, <2>4 DEF Stored, SameShape
<1>4. CASE \E k \in DOMAIN m.frames : \E i \in DOMAIN m.frames[k] :
                i \in Nat /\ i < ArraySpan /\ p = Ptr(k, i)
  <2>1. PICK k \in DOMAIN m.frames : \E i \in DOMAIN m.frames[k] :
                i \in Nat /\ i < ArraySpan /\ p = Ptr(k, i)
    BY <1>4
  <2>2. PICK i \in DOMAIN m.frames[k] : i \in Nat /\ i < ArraySpan /\ p = Ptr(k, i)
    BY <2>1
  <2> DEFINE m2 == SetWord(m1, k, i, y)
  <2>3. k \in Nat \ {0}
    BY <1>2
  <2>4. StoreAt(m1, p, y) = m2 /\ PtrArray(p) = k /\ PtrOffset(p) = i
    BY <1>1, <2>2, <2>3, ThroughPointer, Pointers
  <2>5. k \in DOMAIN m1.frames /\ i \in DOMAIN m1.frames[k]
    BY <1>1
  <2>6. /\ IsMachine(m2) /\ SameShape(m1, m2)
        /\ m2.regs = m1.regs /\ m2.glob = m1.glob /\ m2.garr = m1.garr
        /\ \A j \in DOMAIN m1.frames : \A w \in DOMAIN m1.frames[j] :
             m2.frames[j][w] = IF j = k /\ w = i THEN y ELSE m1.frames[j][w]
    BY <1>1, <2>5, SetWordIs
  <2> HIDE DEF m2
  <2> QED
    BY <1>1, <2>3, <2>4, <2>6 DEF Stored, SameShape
<1> QED
  BY <1>3, <1>4 DEF IsWord

\* Setting an element of an array.
LEMMA ArraySetDoes ==
    ASSUME NEW f, NEW m, NEW stmt,
           IsMachine(m),
           stmt.label \in Nat,
           stmt.args[1] \in Arrays \/ IsKept(f, m, stmt.args[1]),
           IsArg(stmt.args[1]) /\ stmt.args[1] \notin Unpooled => f.vreg[stmt.args[1]].pos # "stack",
           IsOperand(f, m, stmt.args[2]),
           IsWord(m, ArgValue(f, m, stmt.args[1]) + stmt.label)
    PROVE  /\ IsList(GenArraySet(f, stmt))
           /\ Stored(m, ExecuteAll(m, GenArraySet(f, stmt)),
                     ArgValue(f, m, stmt.args[1]) + stmt.label, ArgValue(f, m, stmt.args[2]))
<1> DEFINE a    == stmt.args[1]
           b    == stmt.args[2]
           off  == IF a = LocArr THEN 0 ELSE stmt.label
           base == CASE a \in Arrays -> Base(f, a, stmt.label, tmpreg1)
                     [] a \notin Arrays /\ IsArg(a) -> Base(f, a, 0, tmpreg1)
                     [] OTHER          -> RLoad(f, a, tmpreg0)
           src  == RLoad(f, b, IF a \in Arrays THEN tmpreg0 ELSE tmpreg1)
           x    == IF a = LocArr THEN Ptr(TopOf(m), stmt.label) ELSE ArgValue(f, m, a)
           y    == ArgValue(f, m, b)
           p    == ArgValue(f, m, a) + stmt.label
           t1   == IF a \in Arrays THEN tmpreg1 ELSE tmpreg0
           t2   == IF a \in Arrays THEN tmpreg0 ELSE tmpreg1
           pre  == base.insts \o src.insts
           i    == InstArraySet(base.reg, off, src.reg)
           m1   == ExecuteAll(m, base.insts)
           m2   == ExecuteAll(m, pre)
<1>1. GenArraySet(f, stmt) = pre \o <<i>>
  BY DEF GenArraySet
<1>2. t1 \in Scratch /\ t2 \in Scratch /\ t1 # t2 /\ 0 \in Nat
  BY RegsAre DEF Scratch
<1>3. Loads(m, base, t1, x)
  <2>1. CASE a \in Arrays
    <3>1. base = Base(f, a, stmt.label, tmpreg1) /\ t1 = tmpreg1
      BY <2>1
    <3> HIDE DEF base, t1
    <3> QED
      BY <1>2, <2>1, <3>1, BaseLoads
  <2>2. CASE a \notin Arrays /\ IsArg(a)
    <3>1. base = Base(f, a, 0, tmpreg1)
      BY <2>2
    <3>2. IsKept(f, m, a) /\ f.vreg[a].pos # "stack"
      BY <2>2 DEF IsKept
    <3>3. a # LocArr /\ x = (IF a = LocArr THEN Ptr(TopOf(m), 0) ELSE ArgValue(f, m, a))
      BY <2>2 DEF Arrays
    <3>4. Base(f, a, 0, tmpreg1) = Base(f, a, 0, t1)
      BY <2>2 DEF Base, Arrays
    <3> HIDE DEF base, t1, x
    <3> QED
      BY <1>2, <3>1, <3>2, <3>3, <3>4, BaseLoads
  <2>3. CASE a \notin Arrays /\ ~ IsArg(a)
    <3>1. base = RLoad(f, a, tmpreg0) /\ t1 = tmpreg0
      BY <2>3
    <3>2. IsOperand(f, m, a) /\ a # LocArr
      BY <2>3 DEF IsOperand, Arrays
    <3>3. x = ValueIn(f, m, a)
      BY <3>2, ArgValueIs DEF IsArgument
    <3> HIDE DEF base, t1, x
    <3> QED
      BY <1>2, <3>1, <3>2, <3>3, RLoadLoads
  <2> QED
    BY <2>1, <2>2, <2>3
<1>4. x + off = p
  <2>1. CASE a = LocArr
    <3>1. TopOf(m) \in Nat
      BY ListIs DEF IsMachine, TopOf
    <3>2. ArgValue(f, m, a) = Ptr(TopOf(m), 0)
      BY <2>1, Kinds DEF ArgValue
    <3>3. Ptr(TopOf(m), 0) + stmt.label = Ptr(TopOf(m), stmt.label)
          /\ Ptr(TopOf(m), stmt.label) + 0 = Ptr(TopOf(m), stmt.label)
      BY <3>1, PtrAt
    <3> QED
      BY <2>1, <3>2, <3>3
  <2>2. CASE a # LocArr
    BY <2>2
  <2> QED
    BY <2>1, <2>2
<1>5. y = ValueIn(f, m, b) /\ y \in Nat
  BY ArgValueIs DEF IsArgument
<1>6. Loads(m1, src, t2, y)
  <2>1. src = RLoad(f, b, t2)
    OBVIOUS
  <2> HIDE DEF base, x, src, t1, t2
  <2>2. IsOperand(f, m1, b) /\ ValueIn(f, m1, b) = ValueIn(f, m, b) /\ IsMachine(m1)
    BY <1>2, <1>3, ArgumentStays
  <2> HIDE DEF m1, y
  <2> QED
    BY <1>2, <1>5, <2>1, <2>2, RLoadLoads
<1> HIDE DEF base, src, t1, t2, x, y, off
<1>7. IsList(pre) /\ OnlyRegs(m, m2, Scratch) /\ m2.regs[base.reg] = x /\ m2.regs[src.reg] = y
  BY <1>2, <1>3, <1>6, TwoLoads
<1>8. Execute(m2, i) = StoreAt(m2, p, y)
  <2>1. IsMachine(m2)
    BY <1>7 DEF OnlyRegs
  <2> HIDE DEF m2, p
  <2> QED
    BY <1>4, <1>7, <2>1, ExecuteIs
<1>9. pre \o <<i>> = Append(pre, i) /\ IsList(Append(pre, i))
      /\ ExecuteAll(m, Append(pre, i)) = Execute(m2, i)
  <2> HIDE DEF pre, i
  <2>1. IsList(pre)
    BY <1>7
  <2>2. pre \o <<i>> = Append(pre, i) /\ IsList(Append(pre, i))
    BY <2>1, ListAppend
  <2>3. ExecuteAll(m, Append(pre, i)) = Execute(ExecuteAll(m, pre), i)
    BY <2>1, RunAppend
  <2> QED
    BY <2>2, <2>3
<1>10. Stored(m, StoreAt(m2, p, y), p, y)
  BY <1>5, <1>7, StoreAtDoes
<1> QED
  BY <1>1, <1>8, <1>9, <1>10 DEF y

\* The operands of a comparison are loaded.
LEMMA CondGotoDoes ==
    ASSUME NEW f, NEW m, NEW stmt,
           IsMachine(m),
           IsOperand(f, m, stmt.args[1]),
           IsOperand(f, m, stmt.args[2])
    PROVE  LET c  == GenCondGoto(f, stmt)
               m2 == ExecuteAll(m, c.insts)
           IN  /\ OnlyRegs(m, m2, Scratch)
               /\ m2.regs[c.regs[1]] = ArgValue(f, m, stmt.args[1])
               /\ m2.regs[c.regs[2]] = ArgValue(f, m, stmt.args[2])
<1> DEFINE a  == stmt.args[1]
           b  == stmt.args[2]
           l1 == RLoad(f, a, tmpreg0)
           l2 == RLoad(f, b, tmpreg1)
           m1 == ExecuteAll(m, l1.insts)
           x  == ValueIn(f, m, a)
           y  == ValueIn(f, m, b)
<1>1. GenCondGoto(f, stmt) = [insts |-> l1.insts \o l2.insts, regs |-> <<l1.reg, l2.reg>>]
  BY DEF GenCondGoto
<1>2. tmpreg0 \in Scratch /\ tmpreg1 \in Scratch /\ tmpreg0 # tmpreg1
  BY RegsAre DEF Scratch
<1>3. Loads(m, l1, tmpreg0, x)
  BY <1>2, RLoadLoads
<1>4. Loads(m1, l2, tmpreg1, y)
  <2> HIDE DEF l1
  <2>1. IsOperand(f, m1, b) /\ ValueIn(f, m1, b) = ValueIn(f, m, b) /\ IsMachine(m1)
    BY <1>2, <1>3, ArgumentStays
  <2> HIDE DEF m1
  <2> QED
    BY <1>2, <2>1, RLoadLoads
<1>5. ArgValue(f, m, a) = ValueIn(f, m, a) /\ ArgValue(f, m, b) = ValueIn(f, m, b)
  BY ArgValueIs DEF IsArgument
<1> DEFINE m2 == ExecuteAll(m, l1.insts \o l2.insts)
<1> HIDE DEF l1, l2, x, y
<1>6. OnlyRegs(m, m2, Scratch) /\ m2.regs[l1.reg] = x /\ m2.regs[l2.reg] = y
  BY <1>2, <1>3, <1>4, TwoLoads
<1> QED
  BY <1>1, <1>5, <1>6 DEF x, y

-------------------------------------------------------------------------------
\* the first n words of the last frame are zero, nothing else but scratch
\* registers differs
Filled(m, m2, n) ==
    /\ IsMachine(m2) /\ SameShape(m, m2)
    /\ \A r \in Regs \ Scratch : m2.regs[r] = m.regs[r]
    /\ \A k \in DOMAIN m.frames : \A w \in DOMAIN m.frames[k] :
         m2.frames[k][w] = IF k = TopOf(m) /\ w \in 0..(n - 1) THEN 0 ELSE m.frames[k][w]
    /\ m2.glob = m.glob
    /\ m2.garr = m.garr

\* The loop that clears a local array.
LEMMA FillZeroDoes ==
    ASSUME NEW f, NEW m, f.arraysize \in Nat,
           IsMachine(m),
           f.arraysize < ArraySpan,
           0..(f.arraysize - 1) \subseteq DOMAIN m.frames[TopOf(m)]
    PROVE  /\ IsList(GenFillZero(f))
           /\ Filled(m, ExecuteAll(m, GenFillZero(f)), f.arraysize)
<1> DEFINE n   == f.arraysize
           top == TopOf(m)
           a1  == InstLoadAddrStack(tmpreg0, 0)
           a2  == InstLoadImm(tmpreg1, n)
           a3  == InstOpBinary(tmpreg1, tmpreg1, tmpreg0)
           s1  == InstArraySet(tmpreg0, 0, NoReg)
           s2  == InstAddI(tmpreg0, tmpreg0, 1)
           pre == <<a1, a2, a3>>
           seqs == [i \in 1..n |-> <<s1, s2>>]
           m0  == ExecuteAll(m, pre)
<1>1. GenFillZero(f) = pre \o FlattenSeq(seqs)
  BY DEF GenFillZero
<1>2. /\ top \in Nat \ {0} /\ top \in DOMAIN m.frames /\ 0 \in Nat /\ n \in Nat
      /\ n < ArraySpan /\ 0..(n - 1) \subseteq DOMAIN m.frames[top]
  BY ListIs DEF IsMachine, TopOf
<1>3. OnlyRegs(m, m0, Scratch) /\ m0.regs[tmpreg0] = Ptr(top, 0) /\ IsList(pre)
  <2> DEFINE b1 == SetReg(m, tmpreg0, Ptr(top, 0))
             b2 == SetReg(b1, tmpreg1, n)
             b3 == SetReg(b2, tmpreg1, BinaryOp(b2.regs[tmpreg1], b2.regs[tmpreg0]))
  <2>1. tmpreg0 \in Regs \ {NoReg} /\ tmpreg1 \in Regs \ {NoReg} /\ tmpreg0 # tmpreg1
    BY RegsAre
  <2>2. Ptr(top, 0) \in Nat
    BY <1>2, PtrAt
  <2>3. Execute(m, a1) = b1 /\ OnlyRegs(m, b1, {tmpreg0}) /\ b1.regs[tmpreg0] = Ptr(top, 0)
    BY <2>1, <2>2, ExecuteIs, SetRegIs
  <2> HIDE DEF b1, n, top
  <2>4. IsMachine(b1)
    BY <2>3 DEF OnlyRegs
  <2>5. Execute(b1, a2) = b2 /\ OnlyRegs(b1, b2, {tmpreg1})
    BY <1>2, <2>1, <2>4, ExecuteIs, SetRegIs
  <2> HIDE DEF b2
  <2>6. IsMachine(b2)
    BY <2>5 DEF OnlyRegs
  <2>7. BinaryOp(b2.regs[tmpreg1], b2.regs[tmpreg0]) \in Nat
    BY <2>1, <2>6, OperatorType DEF IsMachine
  <2>8. Execute(b2, a3) = b3
    BY <2>6, ExecuteIs
  <2>9. OnlyRegs(b2, b3, {tmpreg1})
    BY <2>1, <2>6, <2>7, SetRegIs
  <2>10. m0 = b3
    <3> HIDE DEF a1, a2, a3, b3
    <3> QED
      BY <2>3, <2>5, <2>8, RunShort
  <2> HIDE DEF b3
  <2>11. OnlyRegs(m, b3, Scratch)
    <3>1. ({tmpreg0} \cup {tmpreg1}) \cup {tmpreg1} \subseteq Scratch
      BY DEF Scratch
    <3> QED
      BY <2>3, <2>5, <2>9, <3>1, OnlyRegsChain
  <2>12. b3.regs[tmpreg0] = Ptr(top, 0)
    BY <2>1, <2>3, <2>5, <2>9 DEF OnlyRegs
  <2>13. IsList(pre)
    BY ShortLists
  <2> QED
    BY <2>10, <2>11, <2>12, <2>13
<1>4. \A k \in 1..n : seqs[k] = <<s1, s2>> /\ IsList(seqs[k])
  BY ShortLists
<1>5. IsList(seqs) /\ Len(seqs) = n
  <2>1. seqs = [i \in 1..n |-> seqs[i]]
    OBVIOUS
  <2> HIDE DEF seqs, n
  <2> QED
    BY <1>2, <2>1, FunctionList
<1> HIDE DEF seqs, m0, s1, s2
<1> DEFINE me == ExecuteAll(m0, FlattenSeq(seqs))
<1> HIDE DEF n
<1>6. IsList(FlattenSeq(seqs)) /\ Leads(m0, seqs, n, me)
  <2>1. \A k \in 1..n : IsList(seqs[k])
    BY <1>4
  <2> QED
    BY <1>2, <1>5, <2>1, FlattenRun
<1>7. PICK g : /\ g[0] = m0
               /\ \A k \in 1..n : g[k] = ExecuteAll(g[k - 1], seqs[k])
               /\ me = g[n]
  <2> HIDE DEF me
  <2> QED
    BY <1>6 DEF Leads
<1> DEFINE After(k) == /\ Filled(m, g[k], k)
                       /\ g[k].regs[tmpreg0] = Ptr(top, k)
           S == {k \in 0..n : After(k)}
<1>8. 0 \in S
  <2>1. 0 \in 0..n
    BY <1>2
  <2>2. \A w : w \notin 0..(0 - 1)
    OBVIOUS
  <2>3. Filled(m, m0, 0)
    BY <1>3, <2>2 DEF Filled, OnlyRegs, SameShape
  <2> QED
    BY <1>3, <1>7, <2>1, <2>3
<1>9. ASSUME NEW k \in 0..(n - 1), k \in S PROVE k + 1 \in S
  <2>1. k \in Nat /\ k + 1 \in 1..n /\ (k + 1) - 1 = k /\ k + 1 \in 0..n
    BY <1>2
  <2> DEFINE mk == g[k]
             p  == Ptr(top, k)
             mp == StoreAt(mk, p, 0)
             mq == SetReg(mp, tmpreg0, mp.regs[tmpreg0] + 1)
  <2>2. Filled(m, mk, k) /\ mk.regs[tmpreg0] = p /\ IsMachine(mk)
    BY <1>9 DEF Filled
  <2>3. g[k + 1] = Execute(Execute(mk, s1), s2)
    <3>1. g[k + 1] = ExecuteAll(g[k], seqs[k + 1]) /\ seqs[k + 1] = <<s1, s2>>
      BY <1>4, <1>7, <2>1
    <3>2. ExecuteAll(mk, <<s1, s2>>) = Execute(Execute(mk, s1), s2)
      BY RunShort
    <3> QED
      BY <3>1, <3>2
  <2> HIDE DEF mk
  <2>4. Execute(mk, s1) = mp
    <3>1. mk.regs[NoReg] = 0
      BY <2>2 DEF IsMachine
    <3>2. p + 0 = p
      BY <1>2, <2>1, PtrAt
    <3> HIDE DEF p
    <3> QED
      BY <2>2, <3>1, <3>2, ExecuteIs DEF s1
  <2>5. Stored(mk, mp, p, 0) /\ PtrArray(p) = top /\ PtrOffset(p) = k
    <3>1. k < ArraySpan
      BY <1>2, <2>1, ValuesAssumption
    <3>2. PtrArray(p) = top /\ PtrOffset(p) = k
      BY <1>2, <2>1, <3>1, Pointers
    <3>3. top \in DOMAIN mk.frames /\ k \in DOMAIN mk.frames[top]
      BY <1>2, <2>2 DEF Filled, SameShape
    <3>4. OnlyRegs(mk, mk, Scratch)
      BY <2>2, OnlyRegsChain
    <3>5. IsWord(mk, p)
      BY <2>1, <3>1, <3>3 DEF IsWord
    <3> HIDE DEF p
    <3> QED
      BY <3>2, <3>4, <3>5, StoreAtDoes
  <2>6. mp.regs[tmpreg0] = p
    <3>1. mp = SetWord(mk, top, k, 0)
      <4>1. k < ArraySpan
        BY <1>2, <2>1, ValuesAssumption
      <4> QED
        BY <1>2, <2>1, <2>2, <4>1, ThroughPointer
    <3> HIDE DEF mp
    <3> QED
      BY <2>2, <3>1 DEF SetWord
  <2>7. p + 1 = Ptr(top, k + 1) /\ Ptr(top, k + 1) \in Nat
    <3>1. 1 \in Nat /\ k + 1 \in Nat
      BY <2>1
    <3>2. p + 1 = Ptr(top, k + 1)
      BY <1>2, <2>1, <3>1, PtrPlus
    <3> QED
      BY <1>2, <3>1, <3>2, PtrAt
  <2> HIDE DEF mp, p
  <2>8. IsMachine(mp)
    BY <2>5 DEF Stored
  <2>9. Execute(mp, s2) = mq /\ OnlyRegs(mp, mq, {tmpreg0}) /\ mq.regs[tmpreg0] = Ptr(top, k + 1)
    <3>1. tmpreg0 \in Regs \ {NoReg}
      BY RegsAre
    <3>2. mp.regs[tmpreg0] + 1 = Ptr(top, k + 1)
      BY <2>6, <2>7
    <3>3. Execute(mp, s2) = mq
      BY <2>8, ExecuteIs DEF s2
    <3> QED
      BY <2>7, <2>8, <3>1, <3>2, <3>3, SetRegIs
  <2>10. g[k + 1] = mq
    BY <2>3, <2>4, <2>9
  <2> HIDE DEF mq
  <2>11. Filled(m, mq, k + 1)
    <3>1. IsMachine(mq) /\ SameShape(m, mq)
      BY <2>2, <2>5, <2>9 DEF OnlyRegs, Filled, Stored, SameShape
    <3>2. \A r \in Regs \ Scratch : mq.regs[r] = m.regs[r]
      BY <2>2, <2>5, <2>9 DEF OnlyRegs, Filled, Stored, Scratch
    <3>3. mq.glob = m.glob /\ mq.garr = m.garr
      BY <1>2, <2>2, <2>5, <2>9 DEF OnlyRegs, Filled, Stored
    <3>4. ASSUME NEW j \in DOMAIN m.frames, NEW w \in DOMAIN m.frames[j]
          PROVE  mq.frames[j][w]
                    = IF j = TopOf(m) /\ w \in 0..((k + 1) - 1) THEN 0 ELSE m.frames[j][w]
      <4>1. mq.frames = mp.frames
        BY <2>9 DEF OnlyRegs
      <4>2. j \in DOMAIN mk.frames /\ w \in DOMAIN mk.frames[j]
            /\ mk.frames[j][w]
                  = IF j = TopOf(m) /\ w \in 0..(k - 1) THEN 0 ELSE m.frames[j][w]
        BY <2>2 DEF Filled, SameShape
      <4>3. mp.frames[j][w] = IF j = top /\ w = k THEN 0 ELSE mk.frames[j][w]
        BY <2>5, <4>2 DEF Stored
      <4>4. w \in 0..((k + 1) - 1) <=> w \in 0..(k - 1) \/ w = k
        BY <2>1
      <4> QED
        BY <4>1, <4>2, <4>3, <4>4
    <3> QED
      BY <3>1, <3>2, <3>3, <3>4 DEF Filled
  <2> QED
    BY <2>1, <2>9, <2>10, <2>11
<1>10. n \in S
  <2> HIDE DEF S
  <2>1. 0..n \subseteq S
    BY <1>2, <1>8, <1>9, InductionUpTo
  <2> QED
    BY <1>2, <2>1
<1>11. Filled(m, me, n)
  BY <1>7, <1>10
<1>12. IsList(pre \o FlattenSeq(seqs))
       /\ ExecuteAll(m, pre \o FlattenSeq(seqs)) = me
  <2> HIDE DEF pre
  <2> QED
    BY <1>3, <1>6, ListConcat, RunConcat DEF m0
<1> QED
  BY <1>1, <1>11, <1>12 DEF n

-------------------------------------------------------------------------------
(* The global array is initialised.                                        *)

\* Parameters and results have registers.
LEMMA ArgRegIs ==
    /\ 0 \in DOMAIN ArgReg /\ DOMAIN ArgReg = 0..(MaxArgs - 1) /\ MaxArgs \in Nat \ {0}
    /\ \A i \in DOMAIN ArgReg : ArgReg[i] \in AvailRegs /\ ArgReg[i] \in Regs \ {NoReg}
                                /\ ArgReg[i] \notin Scratch
<1>1. MaxArgs \in Nat \ {0} /\ DOMAIN ArgReg = 0..(MaxArgs - 1)
      /\ \A i \in DOMAIN ArgReg : ArgReg[i] \in AvailRegs
  BY RegsAssumption, ProgramsAssumption
<1>2. 0 \in DOMAIN ArgReg
  BY <1>1
<1> QED
  BY <1>1, <1>2, RegsAre

\* the instructions that initialise element i of the global array
InitElement(i) ==
    <<InstLoadImm(ArgReg[0], GlobInit[i])>> \o
    IF i < OffsetLimit
    THEN <<InstArraySet(tmpreg0, i, ArgReg[0])>>
    ELSE <<InstLoadImm(tmpreg1, i),
           InstOpBinary(tmpreg1, tmpreg0, tmpreg1),
           InstArraySet(tmpreg1, 0, ArgReg[0])>>

\* nothing but registers and the global array differs
OnlyGarr(m, m2) ==
    /\ IsMachine(m2)
    /\ m2.frames = m.frames
    /\ m2.glob = m.glob
    /\ m2.regs[tmpreg0] = m.regs[tmpreg0]

\* Element i is given its value.
LEMMA InitOne ==
    ASSUME NEW m, NEW i \in DOMAIN GlobInit,
           IsMachine(m),
           m.regs[tmpreg0] = Ptr(0, 0)
    PROVE  LET m2 == ExecuteAll(m, InitElement(i))
           IN  /\ IsList(InitElement(i))
               /\ OnlyGarr(m, m2)
               /\ m2.garr = [m.garr EXCEPT ![i] = GlobInit[i]]
<1> DEFINE a0 == ArgReg[0]
           y  == GlobInit[i]
           p  == Ptr(0, i)
           i1 == InstLoadImm(a0, y)
           m1 == SetReg(m, a0, y)
           mi == SetGarr(m1, i, y)
           rest == IF i < OffsetLimit
                   THEN <<InstArraySet(tmpreg0, i, a0)>>
                   ELSE <<InstLoadImm(tmpreg1, i),
                          InstOpBinary(tmpreg1, tmpreg0, tmpreg1),
                          InstArraySet(tmpreg1, 0, a0)>>
           m2 == ExecuteAll(m1, rest)
           Goal == OnlyGarr(m, m2) /\ m2.garr = [m.garr EXCEPT ![i] = y]
<1>1. /\ i \in Nat /\ i < ArraySpan /\ y \in Nat /\ 0 \in Nat
  <2>1. PICK n \in 0..(ArraySpan - 1) : GlobInit \in [0..n -> Val]
    BY GlobalsAssumption
  <2>2. i \in 0..n /\ y \in Val /\ ArraySpan \in Nat
    BY <2>1, ValuesAssumption
  <2>3. y \in Nat
    BY <2>2, OperatorType
  <2> HIDE DEF y
  <2>4. i \in Nat /\ i < ArraySpan
    BY <2>1, <2>2
  <2> QED
    BY <2>3, <2>4
<1>2. /\ a0 \in Regs \ {NoReg} /\ a0 \notin Scratch /\ tmpreg0 \in Regs \ {NoReg}
      /\ tmpreg1 \in Regs \ {NoReg} /\ tmpreg0 # tmpreg1 /\ a0 # tmpreg0 /\ a0 # tmpreg1
  BY ArgRegIs, RegsAre DEF Scratch
<1>3. Execute(m, i1) = m1 /\ OnlyRegs(m, m1, {a0}) /\ m1.regs[a0] = y
  <2> HIDE DEF a0, y
  <2> QED
    BY <1>1, <1>2, ExecuteIs, SetRegIs
<1>4. Ptr(0, 0) + i = p /\ p + 0 = p /\ p \in Nat
  BY <1>1, PtrAt
<1> HIDE DEF m1, a0, y, p
<1>5. /\ IsMachine(m1) /\ m1.frames = m.frames /\ m1.glob = m.glob /\ m1.garr = m.garr
      /\ m1.regs[tmpreg0] = Ptr(0, 0) /\ m1.regs[a0] = y
  BY <1>2, <1>3 DEF OnlyRegs
<1>6. ASSUME NEW mm, OnlyRegs(m1, mm, {tmpreg1}), m2 = StoreAt(mm, p, y)
      PROVE  Goal
  <2>1. IsMachine(mm)
    BY <1>6 DEF OnlyRegs
  <2>2. m2 = SetGarr(mm, i, y)
    BY <1>1, <1>6, <2>1, ThroughPointer DEF p
  <2> HIDE DEF m2
  <2>3. /\ IsMachine(m2) /\ m2.frames = mm.frames
        /\ m2.regs = mm.regs /\ m2.glob = mm.glob
        /\ m2.garr = [mm.garr EXCEPT ![i] = y]
    BY <1>1, <2>1, <2>2, SetGarrIs
  <2>4. /\ mm.frames = m.frames /\ mm.glob = m.glob /\ mm.garr = m.garr
        /\ mm.regs[tmpreg0] = m.regs[tmpreg0]
    BY <1>2, <1>5, <1>6 DEF OnlyRegs
  <2> QED
    BY <2>3, <2>4 DEF OnlyGarr
<1>7. CASE i < OffsetLimit
  <2> DEFINE s == InstArraySet(tmpreg0, i, a0)
  <2>1. rest = <<s>>
    BY <1>7
  <2>2. Execute(m1, s) = StoreAt(m1, p, y)
    BY <1>4, <1>5, ExecuteIs
  <2> HIDE DEF s
  <2>3. m2 = StoreAt(m1, p, y)
    <3>1. ExecuteAll(m1, <<s>>) = Execute(m1, s)
      BY RunShort
    <3> QED
      BY <2>1, <2>2, <3>1
  <2>4. OnlyRegs(m1, m1, {tmpreg1})
    BY <1>5, OnlyRegsChain
  <2>5. IsList(rest)
    BY <2>1, ShortLists
  <2> HIDE DEF rest, m2, Goal
  <2>6. Goal
    BY <1>6, <2>3, <2>4
  <2> QED
    <3>1. InitElement(i) = <<i1>> \o rest
      BY DEF InitElement, rest, a0, y
    <3>2. IsList(<<i1>>) /\ ExecuteAll(m, <<i1>>) = m1
      BY <1>3, ShortLists, RunShort
    <3> HIDE DEF i1
    <3>3. IsList(InitElement(i)) /\ ExecuteAll(m, InitElement(i)) = m2
      BY <2>5, <3>1, <3>2, ListConcat, RunConcat DEF m2
    <3> QED
      BY <2>6, <3>3 DEF Goal, y
<1>8. CASE ~ (i < OffsetLimit)
  <2> DEFINE s1 == InstLoadImm(tmpreg1, i)
             s2 == InstOpBinary(tmpreg1, tmpreg0, tmpreg1)
             s3 == InstArraySet(tmpreg1, 0, a0)
             n1 == SetReg(m1, tmpreg1, i)
             n2 == SetReg(n1, tmpreg1, p)
  <2>1. rest = <<s1, s2, s3>>
    BY <1>8
  <2>2. Execute(m1, s1) = n1 /\ OnlyRegs(m1, n1, {tmpreg1}) /\ n1.regs[tmpreg1] = i
    BY <1>1, <1>2, <1>5, ExecuteIs, SetRegIs
  <2> HIDE DEF n1
  <2>3. IsMachine(n1) /\ n1.regs[tmpreg0] = Ptr(0, 0) /\ n1.regs[tmpreg1] = i /\ n1.regs[a0] = y
    BY <1>2, <1>5, <2>2 DEF OnlyRegs
  <2>4. BinaryOp(Ptr(0, 0), i) = p
    <3>1. IsPtr(Ptr(0, 0)) /\ Ptr(0, 0) \in Nat
      BY <1>1, Pointers, ValuesAssumption
    <3> QED
      BY <1>1, <1>4, <3>1, OperatorType
  <2>5. Execute(n1, s2) = n2 /\ OnlyRegs(n1, n2, {tmpreg1}) /\ n2.regs[tmpreg1] = p
    BY <1>2, <1>4, <2>3, <2>4, ExecuteIs, SetRegIs
  <2> HIDE DEF n2
  <2>6. IsMachine(n2) /\ n2.regs[a0] = y /\ n2.regs[tmpreg1] = p
    BY <1>2, <2>3, <2>5 DEF OnlyRegs
  <2>7. Execute(n2, s3) = StoreAt(n2, p, y)
    BY <1>4, <2>6, ExecuteIs
  <2>8. OnlyRegs(m1, n2, {tmpreg1})
    <3>1. {tmpreg1} \cup {tmpreg1} = {tmpreg1}
      OBVIOUS
    <3> QED
      BY <2>2, <2>5, <3>1, OnlyRegsChain
  <2> HIDE DEF s1, s2, s3
  <2>9. m2 = StoreAt(n2, p, y) /\ IsList(rest)
    <3>1. ExecuteAll(m1, <<s1, s2, s3>>) = Execute(Execute(Execute(m1, s1), s2), s3)
      BY RunShort
    <3>2. IsList(<<s1, s2, s3>>)
      BY ShortLists
    <3> QED
      BY <2>1, <2>2, <2>5, <2>7, <3>1, <3>2
  <2> HIDE DEF rest, m2, Goal
  <2>10. Goal
    BY <1>6, <2>8, <2>9
  <2> QED
    <3>1. InitElement(i) = <<i1>> \o rest
      BY DEF InitElement, rest, a0, y
    <3>2. IsList(<<i1>>) /\ ExecuteAll(m, <<i1>>) = m1
      BY <1>3, ShortLists, RunShort
    <3> HIDE DEF i1
    <3>3. IsList(InitElement(i)) /\ ExecuteAll(m, InitElement(i)) = m2
      BY <2>9, <3>1, <3>2, ListConcat, RunConcat DEF m2
    <3> QED
      BY <2>10, <3>3 DEF Goal, y
<1> QED
  BY <1>7, <1>8

\* What main starts with gives the global array its values.
LEMMA GlobalInitDoes ==
    ASSUME NEW m, IsMachine(m)
    PROVE  LET m2 == ExecuteAll(m, GenGlobalInit)
           IN  /\ IsMachine(m2) /\ m2.frames = m.frames /\ m2.glob = m.glob
               /\ m2.garr = GlobInit
<1>1. PICK n \in 0..(ArraySpan - 1) : GlobInit \in [0..n -> Val]
  BY GlobalsAssumption
<1>2. n \in Nat /\ DOMAIN GlobInit = 0..n /\ n \in DOMAIN GlobInit /\ 0 \in Nat
  BY <1>1, ValuesAssumption
<1>3. Max(DOMAIN GlobInit) = n
  <2> DEFINE P(x) == \A y \in DOMAIN GlobInit : x >= y
  <2>1. P(n)
    BY <1>2
  <2>2. \A x \in DOMAIN GlobInit : P(x) => x = n
    <3> SUFFICES ASSUME NEW x \in DOMAIN GlobInit, P(x) PROVE x = n
      OBVIOUS
    <3>1. x >= n
      BY <1>2
    <3> QED
      BY <1>2, <3>1
  <2> HIDE DEF P
  <2>3. (CHOOSE x \in DOMAIN GlobInit : P(x)) = n
    BY <1>2, <2>1, <2>2
  <2> QED
    BY <2>3 DEF Max, P
<1> DEFINE i0 == InstLoadAddrGlobal(tmpreg0, GlobArrIdx)
           m0 == SetReg(m, tmpreg0, Ptr(0, 0))
           seqs == [k \in 1..(n + 1) |-> InitElement(n + 1 - k)]
           me == ExecuteAll(m0, FlattenSeq(seqs))
<1>4. GenGlobalInit = <<i0>> \o FlattenSeq(seqs)
  BY <1>3 DEF GenGlobalInit, InitElement
<1>5. Execute(m, i0) = m0 /\ OnlyRegs(m, m0, {tmpreg0}) /\ m0.regs[tmpreg0] = Ptr(0, 0)
  <2>1. Execute(m, i0) = m0
    BY ExecuteIs
  <2>2. Ptr(0, 0) \in Nat
    BY PtrAt
  <2> QED
    BY <2>1, <2>2, RegsAre, SetRegIs
<1> HIDE DEF m0
<1>6. IsMachine(m0)
  BY <1>5 DEF OnlyRegs
<1>7. ASSUME NEW k \in 1..(n + 1) PROVE IsList(seqs[k]) /\ seqs[k] = InitElement(n + 1 - k)
  <2>1. n + 1 - k \in DOMAIN GlobInit
    BY <1>2
  <2>2. IsList(InitElement(n + 1 - k))
    BY <1>5, <1>6, <2>1, InitOne
  <2> QED
    BY <2>2
<1>8. n + 1 \in Nat /\ IsList(seqs) /\ Len(seqs) = n + 1
  <2>1. seqs = [i \in 1..(n + 1) |-> seqs[i]] /\ n + 1 \in Nat
    BY <1>2
  <2> HIDE DEF seqs
  <2> QED
    BY <2>1, FunctionList
<1> HIDE DEF seqs
<1>9. IsList(FlattenSeq(seqs)) /\ Leads(m0, seqs, n + 1, me)
  <2>1. \A k \in 1..(n + 1) : IsList(seqs[k])
    BY <1>7
  <2> DEFINE l == n + 1
  <2> HIDE DEF l
  <2>2. IsList(FlattenSeq(seqs)) /\ Leads(m0, seqs, l, me)
    BY <1>8, <2>1, FlattenRun DEF l
  <2> QED
    BY <2>2 DEF l
<1> HIDE DEF me
<1>10. PICK g : /\ g[0] = m0
                /\ \A k \in 1..(n + 1) : g[k] = ExecuteAll(g[k - 1], seqs[k])
                /\ me = g[n + 1]
  BY <1>9 DEF Leads
<1> DEFINE After(k) == /\ OnlyGarr(m0, g[k])
                       /\ \A i \in (n + 1 - k)..n : g[k].garr[i] = GlobInit[i]
           S == {k \in 0..(n + 1) : After(k)}
<1>11. 0 \in S
  <2>1. 0 \in 0..(n + 1) /\ \A i \in (n + 1 - 0)..n : FALSE
    BY <1>2
  <2>2. OnlyGarr(m0, m0)
    BY <1>6 DEF OnlyGarr
  <2> QED
    BY <1>10, <2>1, <2>2
<1>12. ASSUME NEW k \in 0..((n + 1) - 1), k \in S PROVE k + 1 \in S
  <2> DEFINE i == n - k
             mk == g[k]
             ml == g[k + 1]
  <2>1. /\ k + 1 \in 1..(n + 1) /\ k + 1 \in 0..(n + 1) /\ (k + 1) - 1 = k
        /\ n + 1 - (k + 1) = i /\ i \in 0..n
    BY <1>2
  <2>2. After(k)
    BY <1>12
  <2>3. IsMachine(mk) /\ mk.regs[tmpreg0] = Ptr(0, 0)
    BY <1>5, <2>2 DEF OnlyGarr
  <2>4. ml = ExecuteAll(mk, InitElement(i))
    <3>1. ml = ExecuteAll(g[(k + 1) - 1], seqs[k + 1])
      BY <1>10, <2>1
    <3>2. seqs[k + 1] = InitElement(i)
      BY <1>7, <2>1
    <3> QED
      BY <2>1, <3>1, <3>2
  <2>5. OnlyGarr(mk, ml) /\ ml.garr = [mk.garr EXCEPT ![i] = GlobInit[i]]
    <3> HIDE DEF mk, ml, i
    <3> QED
      BY <1>2, <2>1, <2>3, <2>4, InitOne
  <2>6. OnlyGarr(m0, ml)
    BY <2>2, <2>5 DEF OnlyGarr
  <2>7. ASSUME NEW j \in (n + 1 - (k + 1))..n PROVE ml.garr[j] = GlobInit[j]
    <3>1. DOMAIN mk.garr = 0..n
      BY <1>2, <2>3 DEF IsMachine
    <3>2. CASE j = i
      BY <2>1, <2>5, <3>1, <3>2
    <3>3. CASE j # i
      <4>1. j \in (n + 1 - k)..n /\ j \in 0..n
        BY <1>2, <2>1, <3>3
      <4>2. mk.garr[j] = GlobInit[j]
        BY <2>2, <4>1
      <4> HIDE DEF mk, ml, i
      <4> QED
        BY <2>5, <3>1, <3>3, <4>1, <4>2
    <3> QED
      BY <3>2, <3>3
  <2> QED
    BY <2>1, <2>6, <2>7
<1>13. n + 1 \in S
  <2> HIDE DEF S
  <2> DEFINE l == n + 1
  <2>1. l \in Nat /\ \A k \in 0..(l - 1) : k \in S => k + 1 \in S
    BY <1>2, <1>12
  <2> HIDE DEF l
  <2>2. 0..l \subseteq S
    BY <1>11, <2>1, InductionUpTo
  <2> QED
    BY <2>1, <2>2 DEF l
<1>14. OnlyGarr(m0, me) /\ \A i \in 0..n : me.garr[i] = GlobInit[i]
  <2>1. n + 1 - (n + 1) = 0
    BY <1>2
  <2> QED
    BY <1>10, <1>13, <2>1
<1>15. me.garr = GlobInit
  <2>1. me.garr \in [DOMAIN GlobInit -> Nat]
    BY <1>14 DEF OnlyGarr, IsMachine
  <2> QED
    BY <1>1, <1>2, <1>14, <2>1
<1>16. ExecuteAll(m, <<i0>> \o FlattenSeq(seqs)) = me
  <2>1. IsList(<<i0>>) /\ ExecuteAll(m, <<i0>>) = m0
    BY <1>5, ShortLists, RunShort
  <2> HIDE DEF i0
  <2> QED
    BY <1>9, <2>1, RunConcat DEF me
<1>17. IsMachine(me) /\ me.frames = m.frames /\ me.glob = m.glob
  BY <1>5, <1>14 DEF OnlyGarr, OnlyRegs
<1> QED
  BY <1>4, <1>15, <1>16, <1>17

-------------------------------------------------------------------------------
(* Registers are saved around a call, and parameters passed.               *)

\* the first l elements of s are those of t
Begins(s, t) == Len(t) <= Len(s) /\ \A i \in 1..Len(t) : s[i] = t[i]

\* no register is saved twice
Distinct(s) == \A i, j \in 1..Len(s) : s[i] = s[j] => i = j

\* An order of a set names each of its elements once.
LEMMA OrderIs ==
    ASSUME NEW M, NEW s \in SetToSeqs(M), IsFiniteSet(M)
    PROVE  /\ s \in Seq(M) /\ IsList(s) /\ Distinct(s)
           /\ Len(s) = Cardinality(M) /\ Len(s) \in Nat /\ DOMAIN s = 1..Len(s)
           /\ \A r \in M : \E i \in 1..Len(s) : s[i] = r
<1> DEFINE n == Cardinality(M)
<1>1. n \in Nat
  BY FS_CardinalityType
<1>2. s \in [1..n -> M] /\ \A i, j \in 1..n : i # j => s[i] # s[j]
  BY DEF SetToSeqs
<1> HIDE DEF n
<1>3. s \in Seq(M)
  BY <1>1, <1>2, SeqDef
<1>4. s = [i \in 1..n |-> s[i]]
  BY <1>2
<1>5. IsList(s) /\ Len(s) = n /\ DOMAIN s = 1..n
  BY <1>1, <1>4, FunctionList
<1>6. s \in Injection(1..n, M)
  BY <1>2 DEF Injection, IsInjective
<1>7. IsFiniteSet(1..n) /\ Cardinality(1..n) = Cardinality(M)
  <2>1. 1 \in Int /\ n \in Int
    BY <1>1
  <2>2. IsFiniteSet(1..n) /\ Cardinality(1..n) = IF 1 > n THEN 0 ELSE n - 1 + 1
    BY <2>1, FS_Interval
  <2>3. Cardinality(1..n) = n
    BY <1>1, <2>2
  <2> QED
    BY <2>2, <2>3 DEF n
<1>8. s \in Surjection(1..n, M)
  BY <1>6, <1>7, FS_Injection
<1>9. \A r \in M : \E i \in 1..n : s[i] = r
  BY <1>8 DEF Surjection
<1>10. Distinct(s)
  BY <1>2, <1>5 DEF Distinct
<1> QED
  BY <1>1, <1>3, <1>5, <1>9, <1>10 DEF n

\* sv is what is saved around the call s: the registers M, in the order meet,
\* and those of colliding parameters, each of them once
AreSaved(f, s, M, meet, sv) ==
    LET args == f.func.stmts[s].args
    IN  /\ sv \in Seq(AvailRegs) /\ Distinct(sv) /\ Begins(sv, meet)
        /\ \A p \in 1..Len(args) : Collides(f, s, p) => Contains(sv, f.vreg[args[p]].reg)
        /\ \A i \in 1..Len(sv) : \/ sv[i] \in M
                                 \/ \E p \in 1..Len(args) : /\ Collides(f, s, p)
                                                            /\ sv[i] = f.vreg[args[p]].reg

\* What is saved: first what is wanted after the call, then the registers of
\* colliding parameters, and each of them once.
LEMMA SavedSeqIs ==
    ASSUME NEW f, NEW s, NEW M \in SUBSET AvailRegs, NEW meet \in SetToSeqs(M),
           Len(f.func.stmts[s].args) \in 0..MaxArgs
    PROVE  AreSaved(f, s, M, meet, SavedSeq(f, s, meet))
<1> DEFINE args == f.func.stmts[s].args
           n == Len(args)
           T == Seq(AvailRegs)
           R(p) == f.vreg[args[p]].reg
           step(p, X) == IF Collides(f, s, p) /\ ~ Contains(X, R(p)) THEN Append(X, R(p)) ELSE X
           F == [p \in 1..n |-> [X \in T |-> step(p, X)]]
           Eq(g) == g = [p \in 0..n |-> IF p = 0 THEN meet ELSE step(p, g[p - 1])]
<1>1. n \in Nat /\ n <= MaxArgs /\ MaxArgs \in Nat
  BY ArgRegIs
<1>2. meet \in T /\ Distinct(meet) /\ Len(meet) \in Nat /\ \A i \in 1..Len(meet) : meet[i] \in M
  <2>1. IsFiniteSet(M)
    BY RegsAssumption, FS_Subset
  <2>2. meet \in Seq(M) /\ Distinct(meet) /\ Len(meet) \in Nat
    BY <2>1, OrderIs
  <2>3. meet \in Seq(AvailRegs)
    BY <2>2, SeqMonotonic
  <2>4. \A i \in 1..Len(meet) : meet[i] \in M
    BY <2>2, LenProperties
  <2> QED
    BY <2>2, <2>3, <2>4
<1>3. ASSUME NEW p \in 1..n, Collides(f, s, p) PROVE R(p) \in AvailRegs
  <2>1. PICK q \in 0..(p - 2) : f.vreg[args[p]] = InReg(ArgReg[q])
    BY <1>3 DEF Collides
  <2>2. q \in DOMAIN ArgReg
    BY <1>1, ArgRegIs
  <2> QED
    BY <2>1, <2>2, ArgRegIs, Kinds
<1>4. \A p \in 1..n, X \in T : step(p, X) \in T
  <2> SUFFICES ASSUME NEW p \in 1..n, NEW X \in T PROVE step(p, X) \in T
    OBVIOUS
  <2>1. CASE Collides(f, s, p)
    BY <1>3, <2>1, AppendProperties
  <2> QED
    BY <2>1
<1>5. SavedSeq(f, s, meet) = (CHOOSE g : Eq(g))[n]
  BY DEF SavedSeq
<1> HIDE DEF n, step
<1>6. F \in [1..n -> [T -> T]] /\ \A p \in 1..n, X \in T : F[p][X] = step(p, X)
  BY <1>4
<1> HIDE DEF F, T
<1>7. \E g : Eq(g)
  <2>1. PICK g \in [0..n -> T] : IsLoop(g, meet, F, n)
    BY <1>1, <1>2, <1>6, LoopExists
  <2>2. \A p \in 0..n : p # 0 => p \in 1..n /\ g[p - 1] \in T
    BY <1>1
  <2>3. Eq(g)
    BY <2>1, <2>2, <1>6 DEF IsLoop
  <2> QED
    BY <2>3
<1> DEFINE h == CHOOSE g : Eq(g)
<1>8. Eq(h)
  BY <1>7
<1> HIDE DEF h
<1>9. h[0] = meet /\ \A p \in 1..n : h[p] = step(p, h[p - 1])
  <2>1. \A p \in 0..n : h[p] = IF p = 0 THEN meet ELSE step(p, h[p - 1])
    BY <1>8
  <2> QED
    BY <1>1, <2>1
<1> DEFINE Good(k, X) ==
               /\ X \in T /\ Distinct(X) /\ Begins(X, meet)
               /\ \A p \in 1..k : Collides(f, s, p) => Contains(X, R(p))
               /\ \A i \in 1..Len(X) : \/ X[i] \in M
                                       \/ \E p \in 1..n : Collides(f, s, p) /\ X[i] = R(p)
           S == {k \in 0..n : Good(k, h[k])}
<1> HIDE DEF R
<1>10. 0 \in S
  <2>1. Good(0, meet)
    BY <1>2 DEF Begins
  <2> QED
    BY <1>1, <1>9, <2>1
<1>11. ASSUME NEW k \in 0..(n - 1), k \in S PROVE k + 1 \in S
  <2> DEFINE X == h[k]
             Y == h[k + 1]
             r == R(k + 1)
  <2>1. k + 1 \in 1..n /\ k + 1 \in 0..n /\ (k + 1) - 1 = k /\ k \in Nat
    BY <1>1
  <2>2. Good(k, X) /\ Y = step(k + 1, X)
    BY <1>9, <1>11, <2>1
  <2>3. X \in Seq(AvailRegs) /\ Len(X) \in Nat
    BY <2>2 DEF T
  <2> HIDE DEF X, Y, r
  <2>4. CASE Collides(f, s, k + 1) /\ ~ Contains(X, r)
    <3>1. r \in AvailRegs
      BY <1>3, <2>1, <2>4 DEF r
    <3>2. Y = Append(X, r)
      BY <2>2, <2>4 DEF step, r
    <3>3. /\ Y \in Seq(AvailRegs) /\ Len(Y) = Len(X) + 1 /\ Y[Len(X) + 1] = r
          /\ \A i \in 1..Len(X) : Y[i] = X[i]
      BY <2>3, <3>1, <3>2, AppendProperties
    <3>4. \A i \in 1..Len(Y) : i \in 1..Len(X) \/ i = Len(X) + 1
      BY <2>3, <3>3
    <3>5. \A i \in 1..Len(X) : X[i] # r /\ i \in 1..Len(Y)
      BY <2>3, <2>4, <3>3 DEF Contains
    <3>6. Distinct(Y)
      BY <2>2, <3>3, <3>4, <3>5 DEF Distinct
    <3>7. Begins(Y, meet)
      BY <1>2, <2>2, <2>3, <3>3 DEF Begins
    <3>8. ASSUME NEW p \in 1..(k + 1), Collides(f, s, p) PROVE Contains(Y, R(p))
      <4>1. CASE p = k + 1
        <5>1. Len(X) + 1 \in 1..Len(Y)
          BY <2>3, <3>3
        <5> QED
          BY <3>3, <4>1, <5>1 DEF Contains, r
      <4>2. CASE p # k + 1
        <5>1. Contains(X, R(p))
          BY <2>1, <2>2, <3>8, <4>2
        <5> QED
          BY <3>3, <3>5, <5>1 DEF Contains
      <4> QED
        BY <4>1, <4>2
    <3>9. ASSUME NEW i \in 1..Len(Y)
          PROVE  \/ Y[i] \in M
                 \/ \E p \in 1..n : Collides(f, s, p) /\ Y[i] = R(p)
      <4>1. CASE i \in 1..Len(X)
        BY <2>2, <3>3, <4>1
      <4>2. CASE i = Len(X) + 1
        BY <2>1, <2>4, <3>3, <4>2 DEF r
      <4> QED
        BY <3>4, <4>1, <4>2
    <3>10. Good(k + 1, Y)
      BY <3>3, <3>6, <3>7, <3>8, <3>9 DEF T
    <3> QED
      BY <2>1, <3>10 DEF Y
  <2>5. CASE ~ (Collides(f, s, k + 1) /\ ~ Contains(X, r))
    <3>1. Y = X
      BY <2>2, <2>5 DEF step, r
    <3>2. ASSUME NEW p \in 1..(k + 1), Collides(f, s, p) PROVE Contains(X, R(p))
      <4>1. CASE p = k + 1
        BY <2>5, <3>2, <4>1 DEF r
      <4>2. CASE p # k + 1
        BY <2>1, <2>2, <3>2, <4>2
      <4> QED
        BY <4>1, <4>2
    <3>3. Good(k + 1, Y)
      BY <2>2, <3>1, <3>2
    <3> QED
      BY <2>1, <3>3 DEF Y
  <2> QED
    BY <2>4, <2>5
<1>12. n \in S
  <2> HIDE DEF S
  <2>1. 0..n \subseteq S
    BY <1>1, <1>10, <1>11, InductionUpTo
  <2> QED
    BY <1>1, <2>1
<1>13. Good(n, SavedSeq(f, s, meet))
  BY <1>5, <1>12 DEF h
<1> QED
  BY <1>13 DEF n, T, R, AreSaved

\* No more registers are saved than the frame has room for.
LEMMA SavedSeqFits ==
    ASSUME NEW f, NEW s, NEW M \in SUBSET AvailRegs, NEW meet \in SetToSeqs(M),
           Len(f.func.stmts[s].args) \in 0..MaxArgs,
           DOMAIN f.func.stmts[s].args = 1..Len(f.func.stmts[s].args)
    PROVE  /\ Len(SavedSeq(f, s, meet)) \in Nat
           /\ Len(SavedSeq(f, s, meet)) <= Cardinality(M \cup CollidingRegs(f, s))
<1> DEFINE sv == SavedSeq(f, s, meet)
           args == f.func.stmts[s].args
           n == Len(sv)
           U == M \cup CollidingRegs(f, s)
<1>0. AreSaved(f, s, M, meet, sv)
  BY SavedSeqIs
<1>1. /\ sv \in Seq(AvailRegs) /\ Distinct(sv)
      /\ \A i \in 1..Len(sv) : \/ sv[i] \in M
                               \/ \E p \in 1..Len(args) : /\ Collides(f, s, p)
                                                          /\ sv[i] = f.vreg[args[p]].reg
  <2> HIDE DEF sv
  <2> QED
    BY <1>0 DEF AreSaved
<1>2. n \in Nat /\ sv \in [1..n -> AvailRegs]
  BY <1>1, LenProperties
<1>3. \A i \in 1..n : sv[i] \in U
  <2> TAKE i \in 1..n
  <2>1. CASE sv[i] \in M
    BY <2>1
  <2>2. CASE \E p \in 1..Len(args) : Collides(f, s, p) /\ sv[i] = f.vreg[args[p]].reg
    BY <2>2, Zenon DEF CollidingRegs
  <2> QED
    BY <1>1, <2>1, <2>2
<1>4. sv \in Injection(1..n, U)
  <2> HIDE DEF sv, U
  <2>1. sv \in [1..n -> U]
    BY <1>2, <1>3
  <2> QED
    BY <1>1, <2>1 DEF Injection, IsInjective, Distinct
<1>5. CollidingRegs(f, s) \subseteq AvailRegs
  <2> SUFFICES ASSUME NEW p \in 1..Len(args), Collides(f, s, p)
               PROVE  f.vreg[args[p]].reg \in AvailRegs
    BY DEF CollidingRegs
  <2>1. PICK q \in 0..(p - 2) : f.vreg[args[p]] = InReg(ArgReg[q])
    BY DEF Collides
  <2>2. q \in DOMAIN ArgReg
    BY ArgRegIs
  <2> QED
    BY <2>1, <2>2, ArgRegIs, Kinds
<1>6. IsFiniteSet(U)
  <2>1. U \subseteq AvailRegs
    BY <1>5
  <2> QED
    BY <2>1, RegsAssumption, FS_Subset
<1>7. Cardinality(1..n) <= Cardinality(U)
  <2> HIDE DEF sv, U, n
  <2> QED
    BY <1>4, <1>6, FS_Injection
<1>8. Cardinality(1..n) = n
  <2> HIDE DEF n
  <2>1. 1 \in Int /\ n \in Int
    BY <1>2
  <2>2. Cardinality(1..n) = IF 1 > n THEN 0 ELSE n - 1 + 1
    BY <2>1, FS_Interval
  <2> QED
    BY <1>2, <2>2
<1> QED
  BY <1>2, <1>7, <1>8

-------------------------------------------------------------------------------
\* the first l registers of sv are saved from word b of the last frame on,
\* nothing else but scratch registers differs
SavedAt(m, m2, sv, b, l) ==
    /\ IsMachine(m2) /\ SameShape(m, m2)
    /\ \A r \in Regs \ Scratch : m2.regs[r] = m.regs[r]
    /\ \A k \in DOMAIN m.frames : \A w \in DOMAIN m.frames[k] :
         ~ (k = TopOf(m) /\ w \in b..(b + l - 1)) => m2.frames[k][w] = m.frames[k][w]
    /\ \A i \in 1..l : m2.frames[TopOf(m)][b + i - 1] = m.regs[sv[i]]
    /\ m2.glob = m.glob
    /\ m2.garr = m.garr

\* Registers are saved.
LEMMA SaveDoes ==
    ASSUME NEW m, NEW sv \in Seq(AvailRegs), NEW b \in Nat,
           IsMachine(m),
           b..(b + Len(sv) - 1) \subseteq DOMAIN m.frames[TopOf(m)]
    PROVE  LET save == [i \in DOMAIN sv |-> InstStoreStack(b + i - 1, sv[i])]
           IN  IsList(save) /\ SavedAt(m, ExecuteAll(m, save), sv, b, Len(sv))
<1> DEFINE n == Len(sv)
           save == [i \in DOMAIN sv |-> InstStoreStack(b + i - 1, sv[i])]
           top == TopOf(m)
<1>1. n \in Nat /\ DOMAIN sv = 1..n /\ \A i \in 1..n : sv[i] \in AvailRegs
  BY LenProperties
<1>2. top \in Nat \ {0} /\ top \in DOMAIN m.frames
  BY ListIs DEF IsMachine, TopOf
<1> HIDE DEF n
<1>3. DOMAIN save = 1..n /\ \A i \in 1..n : save[i] = InstStoreStack(b + i - 1, sv[i])
  BY <1>1
<1>4. IsList(save)
  <2>1. save = [i \in 1..n |-> save[i]]
    BY <1>1
  <2> HIDE DEF save
  <2> QED
    BY <1>1, <2>1, FunctionList
<1> HIDE DEF save
<1> DEFINE me == ExecuteAll(m, save)
<1>5. PICK g : /\ g[0] = m
               /\ \A k \in 1..n : g[k] = Execute(g[k - 1], save[k])
               /\ me = g[n]
  <2>1. n \in Nat /\ DOMAIN save = 1..n
    BY <1>1, <1>3
  <2> QED
    BY <2>1, ExecuteAllIs
<1> HIDE DEF me
<1> DEFINE S == {k \in 0..n : SavedAt(m, g[k], sv, b, k)}
<1>6. 0 \in S
  <2>1. 0 \in 0..n /\ \A i \in 1..0 : FALSE
    BY <1>1
  <2> QED
    BY <1>5, <2>1 DEF SavedAt, SameShape
<1>7. ASSUME NEW k \in 0..(n - 1), k \in S PROVE k + 1 \in S
  <2> DEFINE mk == g[k]
             ml == g[k + 1]
             w0 == b + k
             r  == sv[k + 1]
             m3 == SetReg(mk, IF r = tmpreg0 THEN tmpreg1 ELSE tmpreg0, Junk)
  <2>1. k \in Nat /\ k + 1 \in 1..n /\ (k + 1) - 1 = k /\ k + 1 \in 0..n /\ b + (k + 1) - 1 = w0
        /\ w0 \in Nat
    BY <1>1
  <2>2. SavedAt(m, mk, sv, b, k)
    BY <1>7
  <2>3. ml = Execute(mk, InstStoreStack(w0, r))
    BY <1>3, <1>5, <2>1
  <2>4. r \in Regs /\ r \in Regs \ Scratch
    BY <1>1, <2>1, RegsAre
  <2>5. IsMachine(mk) /\ TopOf(mk) = top /\ w0 \in DOMAIN mk.frames[top] /\ top \in DOMAIN mk.frames
    <3>1. IsMachine(mk) /\ SameShape(m, mk)
      BY <2>2 DEF SavedAt
    <3>2. w0 \in b..(b + Len(sv) - 1)
      BY <1>1, <2>1 DEF n
    <3>3. w0 \in DOMAIN m.frames[top]
      BY <3>2
    <3> HIDE DEF w0, mk
    <3> QED
      BY <1>2, <3>1, <3>3 DEF SameShape, TopOf
  <2> HIDE DEF mk, ml, r, w0
  <2>6. /\ ml = SetWord(m3, TopOf(mk), w0, mk.regs[r])
        /\ IsMachine(m3) /\ m3.frames = mk.frames /\ m3.glob = mk.glob /\ m3.garr = mk.garr
        /\ \A q \in Regs \ Scratch : m3.regs[q] = mk.regs[q]
    BY <2>3, <2>4, <2>5, StoreStackIs
  <2> HIDE DEF m3
  <2>7. mk.regs[r] \in Nat /\ top \in DOMAIN m3.frames /\ w0 \in DOMAIN m3.frames[top]
    BY <2>4, <2>5, <2>6 DEF IsMachine
  <2>8. /\ IsMachine(ml) /\ SameShape(m3, ml)
        /\ ml.regs = m3.regs /\ ml.glob = m3.glob /\ ml.garr = m3.garr
        /\ \A j \in DOMAIN m3.frames : \A w \in DOMAIN m3.frames[j] :
             ml.frames[j][w] = IF j = top /\ w = w0 THEN mk.regs[r] ELSE m3.frames[j][w]
    BY <2>5, <2>6, <2>7, SetWordIs
  <2>9. /\ IsMachine(ml) /\ SameShape(m, ml) /\ ml.glob = m.glob /\ ml.garr = m.garr
        /\ \A q \in Regs \ Scratch : ml.regs[q] = m.regs[q]
    BY <2>2, <2>6, <2>8 DEF SavedAt, SameShape
  <2>10. ASSUME NEW j \in DOMAIN m.frames, NEW w \in DOMAIN m.frames[j],
                ~ (j = TopOf(m) /\ w \in b..(b + (k + 1) - 1))
         PROVE  ml.frames[j][w] = m.frames[j][w]
    <3>1. w0 \in b..(b + (k + 1) - 1) /\ b..(b + k - 1) \subseteq b..(b + (k + 1) - 1)
      BY <2>1 DEF w0
    <3>2. ~ (j = TopOf(m) /\ w \in b..(b + k - 1)) /\ ~ (j = top /\ w = w0)
      BY <2>10, <3>1
    <3>3. mk.frames[j][w] = m.frames[j][w] /\ j \in DOMAIN m3.frames /\ w \in DOMAIN m3.frames[j]
      BY <2>2, <2>6, <3>2 DEF SavedAt, SameShape
    <3> QED
      BY <2>6, <2>8, <3>2, <3>3
  <2>11. ASSUME NEW i \in 1..(k + 1)
         PROVE  ml.frames[TopOf(m)][b + i - 1] = m.regs[sv[i]]
    <3>1. CASE i = k + 1
      <4>1. b + i - 1 = w0 /\ sv[i] = r
        BY <2>1, <3>1 DEF r
      <4>2. mk.regs[r] = m.regs[r]
        BY <2>2, <2>4 DEF SavedAt
      <4>3. ml.frames[top][w0] = mk.regs[r]
        BY <2>7, <2>8
      <4> QED
        BY <4>1, <4>2, <4>3
    <3>2. CASE i # k + 1
      <4> DEFINE wi == b + i - 1
      <4>1. i \in 1..k /\ wi # w0 /\ wi \in b..(b + Len(sv) - 1)
        BY <1>1, <2>1, <3>2 DEF w0, n
      <4>2. mk.frames[top][wi] = m.regs[sv[i]]
        BY <2>2, <4>1 DEF SavedAt
      <4>3. wi \in DOMAIN m.frames[top]
        BY <4>1
      <4>4. wi \in DOMAIN m3.frames[top]
        BY <1>2, <2>2, <2>6, <4>3 DEF SavedAt, SameShape
      <4> HIDE DEF wi
      <4>5. ml.frames[top][wi] = m3.frames[top][wi]
        BY <2>7, <2>8, <4>1, <4>4
      <4> QED
        BY <2>6, <4>2, <4>5 DEF wi
    <3> QED
      BY <3>1, <3>2
  <2>12. SavedAt(m, ml, sv, b, k + 1)
    BY <2>9, <2>10, <2>11 DEF SavedAt
  <2> QED
    BY <2>1, <2>12 DEF ml
<1>8. n \in S
  <2> HIDE DEF S
  <2>1. 0..n \subseteq S
    BY <1>1, <1>6, <1>7, InductionUpTo
  <2> QED
    BY <1>1, <2>1
<1> QED
  BY <1>4, <1>5, <1>8 DEF save, me, n

\* An operand is loaded and moved to a register.
LEMMA LoadMoveDoes ==
    ASSUME NEW f, NEW m, NEW v, NEW r \in Regs \ {NoReg},
           IsMachine(m),
           IsOperand(f, m, v)
    PROVE  LET l == RLoad(f, v, tmpreg1)
               insts == Append(l.insts, InstMov(r, l.reg))
           IN  /\ IsList(insts)
               /\ OnlyRegs(m, ExecuteAll(m, insts), Scratch \cup {r})
               /\ ExecuteAll(m, insts).regs[r] = ValueIn(f, m, v)
<1> DEFINE l == RLoad(f, v, tmpreg1)
           i == InstMov(r, l.reg)
           x == ValueIn(f, m, v)
           m2 == ExecuteAll(m, l.insts)
<1>1. tmpreg1 \in Scratch /\ {tmpreg1} \subseteq Scratch
  BY DEF Scratch
<1>2. Loads(m, l, tmpreg1, x) /\ x \in Nat
  BY <1>1, RLoadLoads, OperandType
<1> HIDE DEF l, x
<1>3. OnlyRegs(m, m2, Scratch) /\ m2.regs[l.reg] = x /\ IsList(l.insts) /\ l.reg \in Regs /\ IsMachine(m2)
  <2>1. OnlyRegs(m, m2, Scratch) /\ m2.regs[l.reg] = x /\ IsList(l.insts)
    BY <1>1, <1>2, OnlyRegsChain DEF Loads
  <2>2. l.reg \in Regs
    BY <1>2, RegsAre DEF Loads
  <2> QED
    BY <2>1, <2>2 DEF OnlyRegs
<1>4. IsList(Append(l.insts, i)) /\ ExecuteAll(m, Append(l.insts, i)) = Execute(m2, i)
  <2> DEFINE pre == l.insts
  <2>1. IsList(pre)
    BY <1>3
  <2> HIDE DEF i, pre
  <2>2. IsList(Append(pre, i)) /\ ExecuteAll(m, Append(pre, i)) = Execute(ExecuteAll(m, pre), i)
    BY <2>1, ListAppend, RunAppend
  <2> QED
    BY <2>2 DEF pre
<1> HIDE DEF m2
<1>5. Execute(m2, i) = SetReg(m2, r, x)
  BY <1>3, ExecuteIs
<1> HIDE DEF i
<1>6. OnlyRegs(m2, SetReg(m2, r, x), {r}) /\ SetReg(m2, r, x).regs[r] = x
  BY <1>2, <1>3, SetRegIs
<1>7. OnlyRegs(m, SetReg(m2, r, x), Scratch \cup {r})
  BY <1>3, <1>6, OnlyRegsChain
<1> QED
  BY <1>4, <1>5, <1>6, <1>7 DEF l, i, x

-------------------------------------------------------------------------------
\* the operands of the call s of f can be passed
Passable(f, s, m) ==
    LET args == f.func.stmts[s].args
    IN  /\ Len(args) \in 0..MaxArgs
        /\ DOMAIN args = 1..Len(args)
        /\ f.spillsize \in Nat
        /\ \A p \in 1..Len(args) :
             /\ IsOperand(f, m, args[p])
             /\ args[p] \notin Unpooled /\ f.vreg[args[p]].pos = "stack" =>
                  f.vreg[args[p]].slot \in 0..(f.spillsize - 1)

\* the registers of the first p parameters
ArgRegs(p) == {ArgReg[q] : q \in 0..(p - 1)}

\* what passes parameter p
PassOne(f, s, saved, p) ==
    LET args == f.func.stmts[s].args
    IN  IF Collides(f, s, p)
        THEN <<InstLoadStack(ArgReg[p - 1],
                   f.spillsize + IndexOf(saved, f.vreg[args[p]].reg) - 1)>>
        ELSE LET l == RLoad(f, args[p], tmpreg1)
             IN  Append(l.insts, InstMov(ArgReg[p - 1], l.reg))

\* the first p parameters have been passed
PassedTo(f, s, m, m1, mk, p) ==
    /\ OnlyRegs(m1, mk, Scratch \cup ArgRegs(p))
    /\ \A q \in 1..p : mk.regs[ArgReg[q - 1]] = ValueIn(f, m, f.func.stmts[s].args[q])

\* What is saved is found where it was saved.
LEMMA IndexOfIs ==
    ASSUME NEW sv, NEW r, NEW n, DOMAIN sv = 1..n, \E i \in 1..n : sv[i] = r
    PROVE  IndexOf(sv, r) \in 1..n /\ sv[IndexOf(sv, r)] = r
BY DEF IndexOf

\* One parameter more is passed.
LEMMA PassOneDoes ==
    ASSUME NEW f, NEW s, NEW M \in SUBSET AvailRegs, NEW sv, NEW meet, NEW m, NEW m1, NEW mk,
           NEW p \in 1..Len(f.func.stmts[s].args),
           IsMachine(m),
           Passable(f, s, m),
           AreSaved(f, s, M, meet, sv),
           SavedAt(m, m1, sv, f.spillsize, Len(sv)),
           f.spillsize..(f.spillsize + Len(sv) - 1) \subseteq DOMAIN m.frames[TopOf(m)],
           PassedTo(f, s, m, m1, mk, p - 1)
    PROVE  /\ IsList(PassOne(f, s, sv, p))
           /\ PassedTo(f, s, m, m1, ExecuteAll(mk, PassOne(f, s, sv, p)), p)
<1> DEFINE args == f.func.stmts[s].args
           v == args[p]
           r == ArgReg[p - 1]
           x == ValueIn(f, m, v)
           insts == PassOne(f, s, sv, p)
           ml == ExecuteAll(mk, insts)
           top == TopOf(m)
<1>1. p \in Nat \ {0} /\ p - 1 \in DOMAIN ArgReg /\ p - 1 \in Nat /\ \A q \in 1..p : q - 1 \in DOMAIN ArgReg
  BY ArgRegIs DEF Passable
<1>2. r \in Regs \ {NoReg} /\ r \in AvailRegs /\ r \notin Scratch
  BY <1>1, ArgRegIs
<1>3. /\ IsMachine(m1) /\ SameShape(m, m1) /\ IsMachine(mk) /\ mk.frames = m1.frames /\ mk.glob = m.glob
      /\ TopOf(m1) = top /\ TopOf(mk) = top /\ top \in DOMAIN m.frames
  <2>1. IsMachine(m1) /\ SameShape(m, m1) /\ m1.glob = m.glob
    BY DEF SavedAt
  <2>2. OnlyRegs(m1, mk, Scratch \cup ArgRegs(p - 1))
    BY DEF PassedTo
  <2>3. IsMachine(mk) /\ mk.frames = m1.frames /\ mk.glob = m.glob
    BY <2>1, <2>2 DEF OnlyRegs
  <2>4. top \in DOMAIN m.frames
    BY ListIs DEF IsMachine, TopOf
  <2> QED
    BY <2>1, <2>3, <2>4 DEF SameShape, TopOf
<1>4. /\ IsOperand(f, m, v) /\ x \in Nat
      /\ v \notin Unpooled /\ f.vreg[v].pos = "stack" => f.vreg[v].slot \in 0..(f.spillsize - 1)
      /\ f.spillsize \in Nat
  <2>1. /\ IsOperand(f, m, v) /\ f.spillsize \in Nat
        /\ v \notin Unpooled /\ f.vreg[v].pos = "stack" => f.vreg[v].slot \in 0..(f.spillsize - 1)
    BY DEF Passable
  <2> QED
    BY <2>1, OperandType
<1>5. ASSUME IsList(insts), OnlyRegs(mk, ml, Scratch \cup {r}), ml.regs[r] = x
      PROVE  IsList(insts) /\ PassedTo(f, s, m, m1, ml, p)
  <2> HIDE DEF insts, ml
  <2>1. OnlyRegs(m1, mk, Scratch \cup ArgRegs(p - 1))
        /\ \A q \in 1..(p - 1) : mk.regs[ArgReg[q - 1]] = ValueIn(f, m, args[q])
    BY DEF PassedTo
  <2>2. OnlyRegs(m1, ml, (Scratch \cup ArgRegs(p - 1)) \cup (Scratch \cup {r}))
    BY <1>5, <2>1, OnlyRegsChain
  <2>3. (Scratch \cup ArgRegs(p - 1)) \cup (Scratch \cup {r}) \subseteq Scratch \cup ArgRegs(p)
    <3>1. ArgRegs(p - 1) \subseteq ArgRegs(p)
      BY <1>1 DEF ArgRegs
    <3>2. r \in ArgRegs(p)
      BY <1>1 DEF ArgRegs
    <3> HIDE DEF r
    <3> QED
      BY <3>1, <3>2
  <2>4. OnlyRegs(m1, ml, Scratch \cup ArgRegs(p))
    BY <2>2, <2>3, OnlyRegsChain
  <2>5. ASSUME NEW q \in 1..p PROVE ml.regs[ArgReg[q - 1]] = ValueIn(f, m, args[q])
    <3>1. CASE q = p
      BY <1>5, <3>1
    <3>2. CASE q # p
      <4>1. q \in 1..(p - 1) /\ q - 1 # p - 1 /\ q - 1 \in DOMAIN ArgReg
        BY <1>1, <3>2
      <4>2. ArgReg[q - 1] # r
        BY <1>1, <4>1, RegsAssumption
      <4>3. ArgReg[q - 1] \in Regs \ (Scratch \cup {r})
        BY <4>1, <4>2, ArgRegIs
      <4>4. ml.regs[ArgReg[q - 1]] = mk.regs[ArgReg[q - 1]]
        BY <1>5, <4>3 DEF OnlyRegs
      <4> QED
        BY <2>1, <4>1, <4>4
    <3> QED
      BY <3>1, <3>2
  <2> QED
    BY <1>5, <2>4, <2>5 DEF PassedTo
<1>6. CASE Collides(f, s, p)
  <2> DEFINE y == f.vreg[v].reg
             i == IndexOf(sv, y)
             w == f.spillsize + i - 1
             inst == InstLoadStack(r, w)
  <2>1. v \notin Unpooled /\ f.vreg[v] = InReg(y) /\ y \in AvailRegs
    <3>1. PICK q \in 0..(p - 2) : v \notin Unpooled /\ f.vreg[v] = InReg(ArgReg[q])
      BY <1>6 DEF Collides
    <3>2. q \in DOMAIN ArgReg
      BY <1>1, ArgRegIs
    <3> QED
      BY <3>1, <3>2, ArgRegIs, Kinds
  <2>2. sv \in Seq(AvailRegs) /\ Contains(sv, y)
    BY <1>6 DEF AreSaved
  <2>3. Len(sv) \in Nat /\ DOMAIN sv = 1..Len(sv)
    BY <2>2, LenProperties
  <2>4. i \in 1..Len(sv) /\ sv[i] = y
    BY <2>2, <2>3, IndexOfIs, Zenon DEF Contains
  <2> HIDE DEF i
  <2>5. x = m.regs[y]
    BY <2>1, Kinds, Zenon DEF ValueIn, IsKept
  <2>6. w \in DOMAIN m.frames[top]
    <3>1. w \in f.spillsize..(f.spillsize + Len(sv) - 1)
      BY <1>4, <2>3, <2>4
    <3> HIDE DEF w
    <3> QED
      BY <3>1
  <2>7. mk.frames[top][w] = x
    BY <1>3, <2>4, <2>5, Zenon DEF SavedAt
  <2>8. insts = <<inst>>
    BY <1>6 DEF PassOne, i
  <2>9. IsList(insts) /\ ml = Execute(mk, inst)
    BY <2>8, ShortLists, RunShort
  <2> HIDE DEF ml, insts
  <2>10. ml = SetReg(mk, r, x)
    <3> HIDE DEF w, r, x
    <3> QED
      BY <1>3, <2>7, <2>9, ExecuteIs
  <2>11. OnlyRegs(mk, ml, {r}) /\ ml.regs[r] = x
    BY <1>2, <1>3, <1>4, <2>10, SetRegIs
  <2>12. OnlyRegs(mk, ml, Scratch \cup {r})
    BY <2>11, OnlyRegsChain
  <2> QED
    BY <1>5, <2>9, <2>11, <2>12 DEF insts, ml
<1>7. CASE ~ Collides(f, s, p)
  <2>1. IsOperand(f, mk, v) /\ ValueIn(f, mk, v) = x
    <3>1. CASE v = NoVar
      BY <3>1, PlainValues DEF IsOperand
    <3>2. CASE v = Glob
      BY <1>3, <3>2, PlainValues DEF IsOperand
    <3>3. CASE IsKept(f, m, v)
      <4>1. v \notin Unpooled /\ x = ValueIn(f, m, v)
        BY <3>3 DEF IsKept
      <4>2. DOMAIN mk.frames[top] = DOMAIN m.frames[top]
        BY <1>3 DEF SameShape
      <4>3. IsKept(f, mk, v)
        BY <1>3, <3>3, <4>2 DEF IsKept
      <4>4. CASE f.vreg[v].pos = "stack"
        <5> DEFINE w == f.vreg[v].slot
        <5>1. x = m.frames[top][w] /\ w \in DOMAIN m.frames[top]
          BY <3>3, <4>4, KeptIs, Zenon
        <5>2. ValueIn(f, mk, v) = mk.frames[top][w]
          <6>1. ValueIn(f, mk, v) = mk.frames[TopOf(mk)][f.vreg[v].slot]
            <7> HIDE DEF v
            <7> QED
              BY <1>3, <4>3, <4>4, KeptIs
          <6> QED
            BY <1>3, <6>1
        <5>3. w \in 0..(f.spillsize - 1)
          BY <1>4, <4>1, <4>4
        <5> HIDE DEF w
        <5>4. w \notin f.spillsize..(f.spillsize + Len(sv) - 1)
          BY <1>4, <5>3
        <5>5. m1.frames[top][w] = m.frames[top][w]
          BY <1>3, <5>1, <5>4 DEF SavedAt
        <5> QED
          BY <1>3, <4>3, <5>1, <5>2, <5>5 DEF IsOperand
      <4>5. CASE f.vreg[v].pos # "stack"
        <5> DEFINE y == f.vreg[v].reg
        <5>1. x = m.regs[y] /\ y \in AvailRegs /\ f.vreg[v] = InReg(y)
          BY <3>3, <4>5, KeptIs
        <5>2. ValueIn(f, mk, v) = mk.regs[y]
          BY <1>3, <4>3, <4>5, KeptIs
        <5>3. \A q \in 0..(p - 2) : y # ArgReg[q]
          BY <1>7, <4>1, <5>1, Zenon DEF Collides
        <5> HIDE DEF y
        <5>4. y \notin ArgRegs(p - 1)
          <6>1. (p - 1) - 1 = p - 2
            BY <1>1
          <6> QED
            BY <5>3, <6>1 DEF ArgRegs
        <5>5. y \in Regs \ Scratch /\ y \in Regs \ (Scratch \cup ArgRegs(p - 1))
          BY <5>1, <5>4, RegsAre
        <5>6. mk.regs[y] = m1.regs[y]
          BY <5>5 DEF PassedTo, OnlyRegs
        <5>7. m1.regs[y] = m.regs[y]
          BY <5>5 DEF SavedAt
        <5> QED
          BY <4>3, <5>1, <5>2, <5>6, <5>7 DEF IsOperand
      <4> QED
        BY <4>4, <4>5
    <3> QED
      BY <1>4, <3>1, <3>2, <3>3 DEF IsOperand
  <2> DEFINE l == RLoad(f, v, tmpreg1)
             ap == Append(l.insts, InstMov(r, l.reg))
  <2>2. insts = ap
    BY <1>7 DEF PassOne
  <2>3. IsList(ap) /\ OnlyRegs(mk, ExecuteAll(mk, ap), Scratch \cup {r})
        /\ ExecuteAll(mk, ap).regs[r] = x
    <3> HIDE DEF x, r, v
    <3> QED
      BY <1>2, <1>3, <2>1, LoadMoveDoes
  <2> HIDE DEF insts, ap
  <2> QED
    BY <1>5, <2>2, <2>3 DEF insts
<1> QED
  BY <1>6, <1>7

\* the parameters of the call s have been passed, and the registers meet saved
Passed(f, s, m, m2, meet) ==
    LET args == f.func.stmts[s].args
    IN  /\ IsMachine(m2) /\ SameShape(m, m2)
        /\ \A r \in Regs \ (Scratch \cup ArgRegs(Len(args))) : m2.regs[r] = m.regs[r]
        /\ \A p \in 1..Len(args) : m2.regs[ArgReg[p - 1]] = ValueIn(f, m, args[p])
        /\ \A k \in DOMAIN m.frames : \A w \in DOMAIN m.frames[k] :
             ~ (k = TopOf(m) /\ w >= f.spillsize) => m2.frames[k][w] = m.frames[k][w]
        /\ \A i \in 1..Len(meet) : m2.frames[TopOf(m)][f.spillsize + i - 1] = m.regs[meet[i]]
        /\ m2.glob = m.glob
        /\ m2.garr = m.garr

\* Up to the call: registers are saved, parameters passed.
LEMMA BeforeCallDoes ==
    ASSUME NEW f, NEW s, NEW M \in SUBSET AvailRegs, NEW meet \in SetToSeqs(M), NEW m,
           IsMachine(m),
           Passable(f, s, m),
           f.spillsize..(f.spillsize + Len(SavedSeq(f, s, meet)) - 1) \subseteq DOMAIN m.frames[TopOf(m)]
    PROVE  Passed(f, s, m, ExecuteAll(m, GenBeforeCall(f, s, meet)), meet)
<1> DEFINE args == f.func.stmts[s].args
           n == Len(args)
           sv == SavedSeq(f, s, meet)
           b == f.spillsize
           save == [i \in DOMAIN sv |-> InstStoreStack(b + i - 1, sv[i])]
           seqs == [p \in 1..n |-> PassOne(f, s, sv, p)]
           m1 == ExecuteAll(m, save)
           m2 == ExecuteAll(m1, FlattenSeq(seqs))
<1>1. Len(args) \in 0..MaxArgs /\ DOMAIN args = 1..n /\ n \in Nat /\ b \in Nat
  BY ArgRegIs DEF Passable
<1>2. AreSaved(f, s, M, meet, sv)
  BY <1>1, SavedSeqIs
<1>3. GenBeforeCall(f, s, meet) = save \o FlattenSeq(seqs)
  BY <1>1 DEF GenBeforeCall, PassOne
<1> HIDE DEF sv, b
<1>4. IsList(save) /\ SavedAt(m, m1, sv, b, Len(sv))
  <2>1. sv \in Seq(AvailRegs)
    BY <1>2 DEF AreSaved
  <2> QED
    BY <1>1, <2>1, SaveDoes DEF sv, b
<1> HIDE DEF n, save, m1
<1>5. IsList(seqs) /\ Len(seqs) = n
  <2>1. seqs = [p \in 1..n |-> seqs[p]]
    OBVIOUS
  <2> HIDE DEF seqs
  <2> QED
    BY <1>1, <2>1, FunctionList
<1>6. \A p \in 1..n : seqs[p] = PassOne(f, s, sv, p)
  OBVIOUS
<1>7. ASSUME NEW p \in 1..n, NEW mk, PassedTo(f, s, m, m1, mk, p - 1)
      PROVE  IsList(seqs[p]) /\ PassedTo(f, s, m, m1, ExecuteAll(mk, seqs[p]), p)
  <2>1. /\ IsList(PassOne(f, s, sv, p))
        /\ PassedTo(f, s, m, m1, ExecuteAll(mk, PassOne(f, s, sv, p)), p)
    BY <1>2, <1>4, <1>7, PassOneDoes DEF b, n, sv
  <2> QED
    BY <1>6, <2>1
<1> HIDE DEF seqs
<1>8. PassedTo(f, s, m, m1, m1, 0)
  <2>1. IsMachine(m1)
    BY <1>4 DEF SavedAt
  <2>2. \A q \in 1..0 : FALSE
    OBVIOUS
  <2> QED
    BY <2>1, <2>2, OnlyRegsChain DEF PassedTo
<1>9. \A p \in 1..n : IsList(seqs[p])
  <2> TAKE p \in 1..n
  <2>1. IsList(PassOne(f, s, sv, p))
    <3>1. CASE Collides(f, s, p)
      BY <3>1, ShortLists DEF PassOne
    <3>2. CASE ~ Collides(f, s, p)
      <4> DEFINE v == args[p]
                 l == RLoad(f, v, tmpreg1)
      <4>1. IsOperand(f, m, v) /\ tmpreg1 \in Scratch
        BY DEF Passable, Scratch, n
      <4> HIDE DEF v
      <4>2. IsList(l.insts)
        BY <4>1, RLoadLoads DEF Loads
      <4> DEFINE e == InstMov(ArgReg[p - 1], l.reg)
      <4>3. PassOne(f, s, sv, p) = Append(l.insts, e)
        BY <3>2 DEF PassOne, v
      <4> DEFINE pre == l.insts
      <4>4. IsList(pre)
        BY <4>2
      <4> HIDE DEF pre, e
      <4>5. IsList(Append(pre, e))
        BY <4>4, ListAppend
      <4> QED
        BY <4>3, <4>5 DEF pre
    <3> QED
      BY <3>1, <3>2
  <2> QED
    BY <1>6, <2>1
<1>10. IsList(FlattenSeq(seqs)) /\ Leads(m1, seqs, n, m2)
  BY <1>1, <1>5, <1>9, FlattenRun
<1>11. PassedTo(f, s, m, m1, m2, n)
  <2>1. PICK g : g[0] = m1 /\ (\A k \in 1..n : g[k] = ExecuteAll(g[k - 1], seqs[k])) /\ m2 = g[n]
    BY <1>10 DEF Leads
  <2> DEFINE S == {k \in 0..n : PassedTo(f, s, m, m1, g[k], k)}
  <2>2. 0 \in S
    BY <1>1, <1>8, <2>1
  <2>3. ASSUME NEW k \in 0..(n - 1), k \in S PROVE k + 1 \in S
    <3>1. k + 1 \in 1..n /\ k + 1 \in 0..n /\ (k + 1) - 1 = k
      BY <1>1
    <3>2. PassedTo(f, s, m, m1, g[k], k)
      BY <2>3
    <3>3. g[k + 1] = ExecuteAll(g[k], seqs[k + 1])
      BY <2>1, <3>1
    <3>4. PassedTo(f, s, m, m1, ExecuteAll(g[k], seqs[k + 1]), k + 1)
      BY <1>7, <3>1, <3>2
    <3> QED
      BY <3>1, <3>3, <3>4
  <2> HIDE DEF S
  <2>4. 0..n \subseteq S
    BY <1>1, <2>2, <2>3, InductionUpTo
  <2> QED
    BY <1>1, <2>1, <2>4 DEF S
<1>12. ExecuteAll(m, GenBeforeCall(f, s, meet)) = m2
  BY <1>3, <1>4, <1>10, RunConcat DEF m1
<1> HIDE DEF m2
<1>13. Passed(f, s, m, m2, meet)
  <2>1. /\ OnlyRegs(m1, m2, Scratch \cup ArgRegs(n))
        /\ \A q \in 1..n : m2.regs[ArgReg[q - 1]] = ValueIn(f, m, args[q])
    BY <1>11 DEF PassedTo
  <2>2. IsMachine(m2) /\ SameShape(m, m2) /\ m2.frames = m1.frames /\ m2.glob = m.glob /\ m2.garr = m.garr
    BY <1>4, <2>1 DEF OnlyRegs, SavedAt, SameShape
  <2>3. \A r \in Regs \ (Scratch \cup ArgRegs(n)) : m2.regs[r] = m.regs[r]
    BY <1>4, <2>1 DEF OnlyRegs, SavedAt
  <2>4. ASSUME NEW k \in DOMAIN m.frames, NEW w \in DOMAIN m.frames[k], ~ (k = TopOf(m) /\ w >= b)
        PROVE  m2.frames[k][w] = m.frames[k][w]
    <3>1. ~ (k = TopOf(m) /\ w \in b..(b + Len(sv) - 1))
      BY <1>1, <2>4
    <3> QED
      BY <1>4, <2>2, <3>1 DEF SavedAt
  <2>5. ASSUME NEW i \in 1..Len(meet)
        PROVE  m2.frames[TopOf(m)][b + i - 1] = m.regs[meet[i]]
    <3>1. sv \in Seq(AvailRegs) /\ Len(meet) <= Len(sv) /\ sv[i] = meet[i]
      BY <1>2 DEF AreSaved, Begins
    <3>2. Len(meet) \in Nat /\ Len(sv) \in Nat
      <4>1. IsFiniteSet(M)
        BY RegsAssumption, FS_Subset
      <4> QED
        BY <3>1, <4>1, OrderIs, LenProperties
    <3>3. i \in 1..Len(sv)
      BY <3>1, <3>2
    <3>4. m1.frames[TopOf(m)][b + i - 1] = m.regs[sv[i]]
      BY <1>4, <3>3 DEF SavedAt
    <3> QED
      BY <2>2, <3>1, <3>4
  <2> QED
    BY <2>1, <2>2, <2>3, <2>4, <2>5 DEF Passed, n, b
<1> QED
  BY <1>12, <1>13

-------------------------------------------------------------------------------
(* After the call: results are fetched and registers restored.             *)

\* the first l registers of meet have been restored
RestoredTo(m, m2, M, meet, b, l) ==
    /\ OnlyRegs(m, m2, M)
    /\ \A i \in 1..l : m2.regs[meet[i]] = m.frames[TopOf(m)][b + i - 1]

\* Registers are restored.
LEMMA RestoreDoes ==
    ASSUME NEW m, NEW M \in SUBSET AvailRegs, NEW meet \in SetToSeqs(M), NEW b \in Nat,
           IsMachine(m),
           b..(b + Len(meet) - 1) \subseteq DOMAIN m.frames[TopOf(m)]
    PROVE  LET back == [i \in DOMAIN meet |-> InstLoadStack(meet[i], b + i - 1)]
           IN  IsList(back) /\ RestoredTo(m, ExecuteAll(m, back), M, meet, b, Len(meet))
<1> DEFINE n == Len(meet)
           back == [i \in DOMAIN meet |-> InstLoadStack(meet[i], b + i - 1)]
           top == TopOf(m)
<1>1. n \in Nat /\ DOMAIN meet = 1..n /\ (\A i \in 1..n : meet[i] \in M) /\ Distinct(meet)
  <2>1. IsFiniteSet(M)
    BY RegsAssumption, FS_Subset
  <2>2. meet \in Seq(M) /\ Distinct(meet)
    BY <2>1, OrderIs
  <2> QED
    BY <2>2, LenProperties
<1>2. top \in DOMAIN m.frames
  BY ListIs DEF IsMachine, TopOf
<1> HIDE DEF n
<1>3. DOMAIN back = 1..n /\ \A i \in 1..n : back[i] = InstLoadStack(meet[i], b + i - 1)
  BY <1>1
<1>4. IsList(back)
  <2>1. back = [i \in 1..n |-> back[i]]
    BY <1>1
  <2> HIDE DEF back
  <2> QED
    BY <1>1, <2>1, FunctionList
<1> HIDE DEF back
<1> DEFINE me == ExecuteAll(m, back)
<1>5. PICK g : /\ g[0] = m
               /\ \A k \in 1..n : g[k] = Execute(g[k - 1], back[k])
               /\ me = g[n]
  BY <1>1, <1>3, ExecuteAllIs
<1> HIDE DEF me
<1> DEFINE S == {k \in 0..n : RestoredTo(m, g[k], M, meet, b, k)}
<1>6. 0 \in S
  <2>1. 0 \in 0..n /\ \A i \in 1..0 : FALSE
    BY <1>1
  <2> QED
    BY <1>5, <2>1, OnlyRegsChain DEF RestoredTo
<1>7. ASSUME NEW k \in 0..(n - 1), k \in S PROVE k + 1 \in S
  <2> DEFINE mk == g[k]
             ml == g[k + 1]
             w0 == b + k
             r  == meet[k + 1]
             x  == m.frames[top][w0]
  <2>1. k \in Nat /\ k + 1 \in 1..n /\ (k + 1) - 1 = k /\ k + 1 \in 0..n /\ b + (k + 1) - 1 = w0
        /\ w0 \in Nat
    BY <1>1
  <2>2. RestoredTo(m, mk, M, meet, b, k)
    BY <1>7
  <2>3. ml = Execute(mk, InstLoadStack(r, w0))
    BY <1>3, <1>5, <2>1
  <2>4. r \in Regs \ {NoReg} /\ r \in M
    BY <1>1, <2>1, RegsAre
  <2>5. w0 \in DOMAIN m.frames[top]
    <3>1. w0 \in b..(b + Len(meet) - 1)
      BY <1>1, <2>1 DEF n
    <3> QED
      BY <3>1
  <2> HIDE DEF w0
  <2>6. x \in Nat
    BY <1>2, <2>5 DEF IsMachine
  <2>7. IsMachine(mk) /\ mk.frames[TopOf(mk)][w0] = x
    BY <2>2 DEF RestoredTo, OnlyRegs, TopOf
  <2> HIDE DEF mk, ml, r, x
  <2>8. ml = SetReg(mk, r, x)
    BY <2>3, <2>7, ExecuteIs
  <2>9. OnlyRegs(mk, ml, {r}) /\ ml.regs[r] = x
    BY <2>4, <2>6, <2>7, <2>8, SetRegIs
  <2>10. OnlyRegs(m, ml, M)
    <3>1. OnlyRegs(m, ml, M \cup {r}) /\ M \cup {r} = M
      BY <2>2, <2>4, <2>9, OnlyRegsChain DEF RestoredTo
    <3> QED
      BY <3>1
  <2>11. ASSUME NEW i \in 1..(k + 1)
         PROVE  ml.regs[meet[i]] = m.frames[TopOf(m)][b + i - 1]
    <3>1. CASE i = k + 1
      <4>1. b + i - 1 = w0 /\ meet[i] = r
        BY <2>1, <3>1 DEF r
      <4> QED
        BY <2>9, <4>1 DEF x
    <3>2. CASE i # k + 1
      <4>1. i \in 1..k /\ i \in 1..n
        BY <1>1, <2>1, <3>2
      <4>2. meet[i] # r
        BY <1>1, <2>1, <3>2, <4>1 DEF Distinct, r, n
      <4>3. meet[i] \in Regs \ {r}
        BY <1>1, <4>1, <4>2, RegsAre
      <4>4. ml.regs[meet[i]] = mk.regs[meet[i]]
        BY <2>9, <4>3 DEF OnlyRegs
      <4> QED
        BY <2>2, <4>1, <4>4 DEF RestoredTo
    <3> QED
      BY <3>1, <3>2
  <2>12. RestoredTo(m, ml, M, meet, b, k + 1)
    BY <2>10, <2>11 DEF RestoredTo
  <2> QED
    BY <2>1, <2>12 DEF ml
<1>8. n \in S
  <2> HIDE DEF S
  <2>1. 0..n \subseteq S
    BY <1>1, <1>6, <1>7, InductionUpTo
  <2> QED
    BY <1>1, <2>1
<1> QED
  BY <1>4, <1>5, <1>8 DEF back, me, n

-------------------------------------------------------------------------------
\* the call s has a result that is wanted
Wanted(f, s) ==
    LET stmt == f.func.stmts[s]
    IN  stmt.op = "call" /\ stmt.dest # NoVar /\ ~ Unused(f, s)

\* where it goes, NoVar if nowhere
Taken(f, s) == IF Wanted(f, s) THEN f.func.stmts[s].dest ELSE NoVar

\* the call s of f is over: x is in d, and the registers M are back
CameBack(f, m, m2, d, x, M, meet) ==
    /\ IsMachine(m2) /\ SameShape(m, m2)
    /\ \A r \in Regs \ (Scratch \cup M) :
         m2.regs[r] = IF d \notin Unpooled /\ f.vreg[d] = InReg(r) THEN x ELSE m.regs[r]
    /\ \A i \in 1..Len(meet) : m2.regs[meet[i]] = m.frames[TopOf(m)][f.spillsize + i - 1]
    /\ \A k \in DOMAIN m.frames : \A n \in DOMAIN m.frames[k] :
         m2.frames[k][n] = IF d \notin Unpooled /\ k = TopOf(m) /\ f.vreg[d] = OnStack(n)
                           THEN x ELSE m.frames[k][n]
    /\ m2.glob = IF d = Glob THEN x ELSE m.glob
    /\ m2.garr = m.garr

\* After the call: the result is fetched before registers are restored.
LEMMA AfterCallDoes ==
    ASSUME NEW f, NEW s, NEW M \in SUBSET AvailRegs, NEW meet \in SetToSeqs(M), NEW m,
           IsMachine(m),
           f.spillsize \in Nat,
           f.spillsize..(f.spillsize + Len(meet) - 1) \subseteq DOMAIN m.frames[TopOf(m)],
           Wanted(f, s) =>
              LET d == f.func.stmts[s].dest
              IN  /\ IsTarget(f, m, d)
                  /\ d # Glob /\ f.vreg[d].pos = "stack" => f.vreg[d].slot \in 0..(f.spillsize - 1)
    PROVE  CameBack(f, m, ExecuteAll(m, GenAfterCall(f, s, meet)),
                    Taken(f, s), m.regs[ArgReg[0]], M, meet)
<1> DEFINE d == Taken(f, s)
           t == RStore(f, f.func.stmts[s].dest)
           x == m.regs[ArgReg[0]]
           b == f.spillsize
           i == InstMov(t, ArgReg[0])
           result == IF Wanted(f, s) THEN DoStore(f, f.func.stmts[s].dest, <<i>>) ELSE <<>>
           back == [j \in DOMAIN meet |-> InstLoadStack(meet[j], b + j - 1)]
           mr == ExecuteAll(m, result)
           m2 == ExecuteAll(mr, back)
           top == TopOf(m)
<1>1. GenAfterCall(f, s, meet) = result \o back
  BY DEF GenAfterCall, Wanted
<1>2. ArgReg[0] \in Regs /\ x \in Nat /\ top \in DOMAIN m.frames
  BY ArgRegIs, ListIs DEF IsMachine, TopOf
<1>3. /\ IsList(result)
      /\ Wrote(f, m, mr, d, x)
      /\ d \notin Unpooled => \A n \in DOMAIN m.frames[top] : n >= b => f.vreg[d] # OnStack(n)
  <2>1. CASE Wanted(f, s)
    <3> DEFINE dd == f.func.stmts[s].dest
    <3>1. IsTarget(f, m, dd) /\ (dd # Glob /\ f.vreg[dd].pos = "stack" => f.vreg[dd].slot \in 0..(b - 1))
          /\ d = dd /\ result = DoStore(f, dd, <<i>>)
      BY <2>1 DEF Taken
    <3>2. t \in Regs \ {NoReg}
      BY <3>1, RStoreIs
    <3> HIDE DEF dd, x, d
    <3>3. Execute(m, i) = SetReg(m, t, x)
      BY ExecuteIs DEF x
    <3>4. /\ <<i>> = Append(<<>>, i) /\ IsList(<<>>) /\ ExecuteAll(m, <<>>) = m
          /\ OnlyRegs(m, m, Scratch)
      BY ShortLists, RunEmpty, OnlyRegsChain
    <3>5. i.inst = "mov" => \E q \in Regs : i = InstMov(t, q)
      BY <1>2
    <3>6. t = RStore(f, dd)
      BY DEF dd
    <3> HIDE DEF t, i, result
    <3>7. IsList(DoStore(f, dd, Append(<<>>, i)))
          /\ Wrote(f, m, ExecuteAll(m, DoStore(f, dd, Append(<<>>, i))), dd, x)
      BY <1>2, <3>1, <3>3, <3>4, <3>5, <3>6, ComputesIn DEF x
    <3>8. ASSUME d \notin Unpooled, NEW n \in DOMAIN m.frames[top], n >= b, f.vreg[d] = OnStack(n)
          PROVE  FALSE
      <4>1. d # Glob /\ f.vreg[d].pos = "stack" /\ f.vreg[d].slot = n
        BY <3>8, Kinds
      <4>2. n \in 0..(b - 1)
        BY <3>1, <4>1
      <4> QED
        BY <3>8, <4>2
    <3> QED
      BY <3>1, <3>4, <3>7, <3>8
  <2>2. CASE ~ Wanted(f, s)
    <3>1. d = NoVar /\ result = <<>> /\ mr = m /\ IsList(<<>>)
      BY <2>2, RunEmpty, ShortLists DEF Taken
    <3> HIDE DEF d, mr
    <3>2. Wrote(f, m, m, NoVar, x)
      BY Kinds DEF Wrote, SameShape
    <3> QED
      BY <3>1, <3>2, Kinds
  <2> QED
    BY <2>1, <2>2
<1> HIDE DEF result, x, d
<1>4. IsMachine(mr) /\ SameShape(m, mr) /\ TopOf(mr) = top
  BY <1>3 DEF Wrote, SameShape, TopOf
<1>5. IsList(back) /\ RestoredTo(mr, m2, M, meet, b, Len(meet))
  <2>1. b..(b + Len(meet) - 1) \subseteq DOMAIN mr.frames[TopOf(mr)]
    BY <1>2, <1>4 DEF SameShape
  <2> HIDE DEF mr
  <2> QED
    BY <1>4, <2>1, RestoreDoes
<1>6. ExecuteAll(m, GenAfterCall(f, s, meet)) = m2
  <2> HIDE DEF back
  <2> QED
    BY <1>1, <1>3, <1>5, RunConcat
<1> HIDE DEF m2, mr
<1>7. OnlyRegs(mr, m2, M) /\ \A j \in 1..Len(meet) : m2.regs[meet[j]] = mr.frames[top][b + j - 1]
  BY <1>4, <1>5 DEF RestoredTo
<1>8. IsMachine(m2) /\ m2.frames = mr.frames /\ SameShape(m, m2) /\ m2.glob = mr.glob /\ m2.garr = mr.garr
  BY <1>4, <1>7 DEF OnlyRegs, SameShape
<1>9. ASSUME NEW r \in Regs \ (Scratch \cup M)
      PROVE  m2.regs[r] = IF d \notin Unpooled /\ f.vreg[d] = InReg(r) THEN x ELSE m.regs[r]
  BY <1>3, <1>7 DEF OnlyRegs, Wrote
<1>10. ASSUME NEW j \in 1..Len(meet)
       PROVE  m2.regs[meet[j]] = m.frames[top][b + j - 1]
  <2> DEFINE w == b + j - 1
  <2>1. Len(meet) \in Nat
    <3>1. IsFiniteSet(M)
      BY RegsAssumption, FS_Subset
    <3> QED
      BY <3>1, OrderIs
  <2>2. w \in b..(b + Len(meet) - 1) /\ w >= b
    BY <2>1
  <2>3. w \in DOMAIN m.frames[top]
    BY <2>2
  <2> HIDE DEF w
  <2>4. mr.frames[top][w] = m.frames[top][w]
    BY <1>2, <1>3, <2>2, <2>3 DEF Wrote
  <2> QED
    BY <1>7, <2>4 DEF w
<1>11. CameBack(f, m, m2, d, x, M, meet)
  <2>1. /\ \A k \in DOMAIN m.frames : \A n \in DOMAIN m.frames[k] :
            m2.frames[k][n] = IF d \notin Unpooled /\ k = TopOf(m) /\ f.vreg[d] = OnStack(n)
                              THEN x ELSE m.frames[k][n]
        /\ m2.glob = IF d = Glob THEN x ELSE m.glob
        /\ m2.garr = m.garr
    BY <1>3, <1>8 DEF Wrote
  <2> QED
    BY <1>8, <1>9, <1>10, <2>1 DEF CameBack
<1> QED
  BY <1>6, <1>11 DEF d, x
=============================================================================
