---------------------------- MODULE InitLayout_proof --------------------------
(***************************************************************************)
(* For every shape, and initialisers of any length and nesting: no element *)
(* is given a value twice, nor one before an element that has a value; the *)
(* step is the size of a row; an element of a sub-array that is passed is  *)
(* the caller's; and the table that is filled holds, for the indices of an *)
(* element, what the initialiser gives to these indices.                   *)
(*                                                                         *)
(* Positions and indices are related by induction over the dimensions, in  *)
(* both directions, with the sets of Fixpoints.                            *)
(***************************************************************************)
EXTENDS InitLayout, SequenceTheorems, Fixpoints, TLAPS

-------------------------------------------------------------------------------
(* Products of dimensions.                                                 *)

\* the numbers dimensions, positions and sizes are
Pos == Nat \ {0}

\* Facts about products that the layout needs.
LEMMA Arithmetic ==
    /\ \A a \in Pos, b \in Nat : (a * b) \div a = b
    /\ \A a, b \in Pos : a * b \in Pos
    /\ \A a, b, c \in Nat : (a * b) * c = a * (b * c)
BY DEF Pos

\* Division of naturals, and a step of a polynomial in them.
LEMMA DivType == \A a \in Nat, b \in Pos : a \div b \in Nat
BY DEF Pos

LEMMA StepType == \A a, b, c \in Nat : a * b + c \in Nat /\ c + a * b \in Nat
OBVIOUS

\* Product multiplies from the left.
LEMMA ProductLoop ==
    ASSUME NEW s \in Seq(Pos)
    PROVE  \E p \in [0..Len(s) -> Pos] :
             /\ p[0] = 1
             /\ \A k \in 1..Len(s) : p[k] = p[k - 1] * s[k]
             /\ Product(s) = p[Len(s)]
<1> DEFINE n == Len(s)
           F == [k \in 1..n |-> [x \in Pos |-> x * s[k]]]
           Eq(p) == p = [k \in 0..n |-> IF k = 0 THEN 1 ELSE p[k - 1] * s[k]]
<1>1. n \in Nat /\ 1 \in Pos /\ \A k \in 1..n : s[k] \in Pos
  BY DEF Pos
<1>2. F \in [1..n -> [Pos -> Pos]]
  BY <1>1, Arithmetic
<1>3. \A k \in 1..n, x \in Pos : F[k][x] = x * s[k]
  OBVIOUS
<1>4. Product(s) = (CHOOSE p : Eq(p))[n]
  BY DEF Product
<1> HIDE DEF F, n
<1>5. \E p : Eq(p)
  <2>1. PICK p \in [0..n -> Pos] : IsLoop(p, 1, F, n)
    BY <1>1, <1>2, LoopExists
  <2>2. \A k \in 0..n : k # 0 => k \in 1..n /\ p[k - 1] \in Pos
    BY <1>1
  <2>3. Eq(p)
    BY <2>1, <2>2, <1>3 DEF IsLoop
  <2> QED
    BY <2>3
<1> DEFINE h == CHOOSE p : Eq(p)
<1>6. Eq(h)
  BY <1>5
<1> HIDE DEF h
<1>7. \A k \in 0..n : h[k] = IF k = 0 THEN 1 ELSE h[k - 1] * s[k]
  BY <1>6
<1> DEFINE S == {k \in 0..n : h[k] \in Pos}
<1>8. 0 \in S
  BY <1>1, <1>7
<1>9. \A k \in 0..(n - 1) : k \in S => k + 1 \in S
  <2> SUFFICES ASSUME NEW k \in 0..(n - 1), h[k] \in Pos PROVE h[k + 1] \in Pos
    BY <1>1
  <2>1. k + 1 \in 0..n /\ k + 1 \in 1..n /\ k + 1 # 0 /\ (k + 1) - 1 = k
    BY <1>1
  <2>2. h[k + 1] = h[k] * s[k + 1]
    BY <1>7, <2>1
  <2> QED
    BY <1>1, <2>1, <2>2, Arithmetic
<1> HIDE DEF S
<1>10. 0..n \subseteq S
  BY <1>1, <1>8, <1>9, InductionUpTo
<1>11. h \in [0..n -> Pos]
  <2>1. \A k \in 0..n : h[k] \in Pos
    BY <1>10 DEF S
  <2>2. h = [k \in 0..n |-> h[k]]
    BY <1>6
  <2> QED
    BY <2>1, <2>2
<1>12. h[0] = 1 /\ \A k \in 1..n : h[k] = h[k - 1] * s[k]
  BY <1>1, <1>7
<1> QED
  BY <1>4, <1>11, <1>12 DEF h, n

\* The number of elements is positive.
LEMMA ProductType ==
    ASSUME NEW s \in Seq(Pos)
    PROVE  Product(s) \in Pos
<1>1. PICK p \in [0..Len(s) -> Pos] : Product(s) = p[Len(s)]
  BY ProductLoop
<1>2. Len(s) \in 0..Len(s)
  OBVIOUS
<1> QED
  BY <1>1, <1>2

\* The first factor can be taken out.
LEMMA ProductTail ==
    ASSUME NEW s \in Seq(Pos), NEW t \in Seq(Pos), Len(s) = Len(t) + 1,
           \A k \in 1..Len(t) : t[k] = s[k + 1]
    PROVE  Product(s) = s[1] * Product(t)
<1> DEFINE n == Len(t)
<1>1. PICK p \in [0..Len(s) -> Pos] : /\ p[0] = 1
                                      /\ \A k \in 1..Len(s) : p[k] = p[k - 1] * s[k]
                                      /\ Product(s) = p[Len(s)]
  BY ProductLoop
<1>2. PICK q \in [0..Len(t) -> Pos] : /\ q[0] = 1
                                      /\ \A k \in 1..Len(t) : q[k] = q[k - 1] * t[k]
                                      /\ Product(t) = q[Len(t)]
  BY ProductLoop
<1>3. n \in Nat /\ Len(s) = n + 1 /\ \A k \in 1..Len(s) : s[k] \in Pos
  OBVIOUS
<1> DEFINE S == {k \in 0..n : p[k + 1] = s[1] * q[k]}
<1>4. 0 \in S
  <2>1. p[1] = p[0] * s[1] /\ s[1] \in Nat
    BY <1>1, <1>3 DEF Pos
  <2> QED
    BY <1>1, <1>2, <1>3, <2>1
<1>5. \A k \in 0..(n - 1) : k \in S => k + 1 \in S
  <2> SUFFICES ASSUME NEW k \in 0..(n - 1), p[k + 1] = s[1] * q[k]
               PROVE  p[k + 2] = s[1] * q[k + 1]
    BY <1>3
  <2>1. k + 1 \in 1..Len(t) /\ k + 2 \in 1..Len(s) /\ (k + 1) - 1 = k
        /\ (k + 2) - 1 = k + 1 /\ (k + 1) + 1 = k + 2
    BY <1>3
  <2>2. p[k + 2] = p[k + 1] * s[k + 2] /\ q[k + 1] = q[k] * t[k + 1] /\ t[k + 1] = s[k + 2]
    BY <1>1, <1>2, <2>1
  <2>3. k \in 0..Len(t) /\ 1 \in 1..Len(s)
    BY <1>3
  <2>4. q[k] \in Nat /\ s[1] \in Nat /\ s[k + 2] \in Nat
    BY <1>3, <2>1, <2>3 DEF Pos
  <2>5. p[k + 2] = (s[1] * q[k]) * s[k + 2] /\ q[k + 1] = q[k] * s[k + 2]
    BY <2>2
  <2> HIDE DEF n
  <2>6. (s[1] * q[k]) * s[k + 2] = s[1] * (q[k] * s[k + 2])
    BY <2>4, Arithmetic
  <2> QED
    BY <2>5, <2>6
<1> HIDE DEF S
<1>6. 0..n \subseteq S
  BY <1>3, <1>4, <1>5, InductionUpTo
<1> QED
  BY <1>1, <1>2, <1>3, <1>6 DEF S

\* An element of a dimension is as large as a row of the next, times its length.
LEMMA RowSizes ==
    ASSUME shape \in Seq(Pos)
    PROVE  /\ \A d \in 0..Len(shape) : RowSize(d) \in Pos
           /\ \A d \in 0..(Len(shape) - 1) : RowSize(d) = shape[d + 1] * RowSize(d + 1)
           /\ RowSize(0) = Product(shape)
           /\ RowSize(Len(shape)) = 1
<1> DEFINE n == Len(shape)
           rest(d) == SubSeq(shape, d + 1, n)
<1>1. n \in Nat /\ \A k \in 1..n : shape[k] \in Pos
  OBVIOUS
<1>2. \A d \in 0..n : /\ rest(d) \in Seq(Pos) /\ Len(rest(d)) = n - d
                      /\ \A k \in 1..(n - d) : rest(d)[k] = shape[k + d]
  OBVIOUS
<1>3. \A d \in 0..n : RowSize(d) = Product(rest(d))
  BY DEF RowSize
<1>4. rest(0) = shape /\ rest(n) = <<>>
  OBVIOUS
<1> HIDE DEF n, rest
<1>5. \A d \in 0..n : RowSize(d) \in Pos
  BY <1>2, <1>3, ProductType
<1>6. ASSUME NEW d \in 0..(n - 1)
      PROVE  RowSize(d) = shape[d + 1] * RowSize(d + 1)
  <2> DEFINE s == rest(d)
             t == rest(d + 1)
  <2>1. /\ d \in 0..n /\ d + 1 \in 0..n /\ 1 \in 1..(n - d) /\ 1 + d = d + 1
        /\ n - d = (n - (d + 1)) + 1
    BY <1>1
  <2>2. s \in Seq(Pos) /\ t \in Seq(Pos) /\ Len(s) = Len(t) + 1 /\ s[1] = shape[d + 1]
    BY <1>2, <2>1
  <2>3. \A k \in 1..Len(t) : t[k] = s[k + 1]
    <3>1. Len(t) = n - (d + 1)
      BY <1>2, <2>1
    <3>2. \A k \in 1..(n - (d + 1)) : k + 1 \in 1..(n - d) /\ k + (d + 1) = (k + 1) + d
      BY <1>1
    <3> QED
      BY <1>2, <2>1, <3>1, <3>2
  <2> HIDE DEF s, t
  <2>4. Product(s) = s[1] * Product(t)
    BY <2>2, <2>3, ProductTail
  <2> QED
    BY <1>3, <2>1, <2>2, <2>4 DEF s, t
<1>7. RowSize(0) = Product(shape)
  BY <1>1, <1>3, <1>4
<1>8. RowSize(n) = 1
  <2>1. <<>> \in Seq(Pos) /\ Len(<<>>) = 0
    OBVIOUS
  <2>2. PICK p \in [0..0 -> Pos] : p[0] = 1 /\ Product(<<>>) = p[0]
    BY <2>1, ProductLoop
  <2> QED
    BY <1>1, <1>3, <1>4, <2>2
<1> QED
  BY <1>5, <1>6, <1>7, <1>8 DEF n

Calls == [posbegin : Nat, dimsize : Nat \ {0}]

\* What calc has in hand are numbers, one call for each dimension it is in.
CallsTyped ==
    /\ shape \in Seq(Nat \ {0})
    /\ calls \in Seq(Calls)
    /\ calcdim = Len(calls) /\ calcdim <= Len(shape)
    /\ calcstep \in Nat

\* Nothing from calcpos on has been given a value.
RestFree ==
    /\ totelems \in Nat
    /\ items \in Nat
    /\ calcpos \in Nat
    /\ value \in [0..(totelems - 1) -> Nat]
    /\ \A q \in 0..(totelems - 1) : q >= calcpos => value[q] = 0

IInv == CallsTyped /\ RestFree

-------------------------------------------------------------------------------
\* Nothing is filled at the start.
LEMMA FreeInit == Init => IInv
<1> SUFFICES ASSUME Init PROVE IInv
  OBVIOUS
<1>1. shape \in Seq(Nat \ {0}) /\ totelems \in Nat
  BY ShapesAssumption DEF Init
<1>2. CallsTyped
  BY <1>1 DEF Init, CallsTyped
<1>3. value = [p \in 0..(totelems - 1) |-> 0]
  BY DEF Init
<1>4. value \in [0..(totelems - 1) -> Nat] /\ \A q \in 0..(totelems - 1) : value[q] = 0
  BY <1>1, <1>3
<1>5. RestFree
  BY <1>1, <1>4 DEF Init, RestFree
<1> QED
  BY <1>2, <1>5 DEF IInv

\* A value takes the element at calcpos, the first of those that are free.
LEMMA SingleFree ==
    ASSUME IInv, Single
    PROVE  /\ IInv'
           /\ \A p \in DOMAIN value : value'[p] # value[p] =>
                  \A q \in p..(totelems - 1) : value[q] = 0
<1>1. CASE calcpos >= totelems
  <2>1. items' \in Nat /\ UNCHANGED <<statevars, calcvars, begun>>
    BY <1>1 DEF Single, Refuse, IInv, RestFree
  <2>2. UNCHANGED <<shape, totelems, value, calcpos, calcdim, calcstep, calls>>
    BY <2>1 DEF statevars, calcvars
  <2> QED
    BY <2>1, <2>2 DEF IInv, CallsTyped, RestFree
<1>2. CASE ~ (calcpos >= totelems)
  <2>1. /\ items' = items + 1
        /\ value' = [value EXCEPT ![calcpos] = items']
        /\ calcpos' = calcpos + 1
        /\ UNCHANGED <<shape, totelems, calcdim, calcstep, calls>>
    BY <1>2 DEF Single, statevars
  <2>2. CallsTyped'
    BY <2>1 DEF IInv, CallsTyped
  <2>3. /\ totelems \in Nat /\ items \in Nat /\ calcpos \in Nat
        /\ value \in [0..(totelems - 1) -> Nat]
        /\ calcpos \in 0..(totelems - 1)
        /\ \A q \in 0..(totelems - 1) : q >= calcpos => value[q] = 0
    BY <1>2 DEF IInv, RestFree
  <2>4. RestFree'
    BY <2>1, <2>3 DEF RestFree
  <2>5. ASSUME NEW p \in DOMAIN value, value'[p] # value[p],
               NEW q \in p..(totelems - 1)
        PROVE  value[q] = 0
    <3>1. p = calcpos
      BY <2>1, <2>3, <2>5
    <3> QED
      BY <2>3, <2>5, <3>1
  <2> QED
    BY <2>2, <2>4, <2>5 DEF IInv
<1> QED
  BY <1>1, <1>2

\* A list that begins fills nothing.
LEMMA OpenListFree ==
    ASSUME IInv, OpenList
    PROVE  IInv' /\ value' = value
<1>1. /\ items' = items + 1
      /\ UNCHANGED <<shape, totelems, value, calcpos>>
  BY DEF OpenList, Refuse, statevars, calcvars
<1>2. RestFree'
  BY <1>1 DEF IInv, RestFree
<1>3. CASE UNCHANGED <<calcdim, calcstep, calls>>
  BY <1>1, <1>2, <1>3 DEF IInv, CallsTyped
<1>4. CASE ~ UNCHANGED <<calcdim, calcstep, calls>>
  <2> DEFINE dimsize == shape[calcdim + 1]
             call    == [posbegin |-> calcpos, dimsize |-> dimsize]
  <2>1. /\ calcdim # Len(shape)
        /\ calcdim' = calcdim + 1
        /\ calcstep' = calcstep \div dimsize
        /\ calls' = Append(calls, call)
    BY <1>4 DEF OpenList, Refuse, calcvars
  <2>2. /\ calcdim \in Nat /\ calcdim + 1 \in 1..Len(shape)
        /\ shape \in Seq(Nat \ {0})
        /\ calls \in Seq(Calls) /\ calcdim = Len(calls)
        /\ calcstep \in Nat /\ calcpos \in Nat
    BY <2>1 DEF IInv, CallsTyped, RestFree
  <2>3. dimsize \in Nat \ {0}
    BY <2>2
  <2> HIDE DEF dimsize
  <2>4. calcstep' \in Nat
    BY <2>1, <2>2, <2>3, DivType DEF Pos
  <2>5. call \in Calls
    BY <2>2, <2>3 DEF Calls
  <2> HIDE DEF call
  <2>6. calls' \in Seq(Calls) /\ Len(calls') = Len(calls) + 1
    BY <2>1, <2>2, <2>5
  <2>7. CallsTyped'
    BY <1>1, <2>1, <2>2, <2>4, <2>6 DEF CallsTyped
  <2> QED
    BY <1>1, <1>2, <2>7 DEF IInv
<1> QED
  BY <1>3, <1>4

\* The end of a list is not before calcpos, or the list is refused.
LEMMA CloseListFree ==
    ASSUME IInv, CloseList
    PROVE  IInv' /\ value' = value
<1>1. UNCHANGED <<shape, totelems, value, items>>
  BY DEF CloseList, Refuse, statevars, calcvars
<1>2. CASE UNCHANGED <<calcpos, calcdim, calcstep, calls>>
  BY <1>1, <1>2 DEF IInv, CallsTyped, RestFree
<1>3. CASE ~ UNCHANGED <<calcpos, calcdim, calcstep, calls>>
  <2> DEFINE call == Last(calls)
             span == calcstep * call.dimsize
  <2>1. /\ calls # <<>>
        /\ ~ (calcpos > call.posbegin + span)
        /\ calcpos' = call.posbegin + span
        /\ calcstep' = span
        /\ calcdim' = calcdim - 1
        /\ calls' = Front(calls)
    BY <1>3 DEF CloseList, Refuse, calcvars
  <2>2. /\ calls \in Seq(Calls) /\ calcdim = Len(calls) /\ calcdim <= Len(shape)
        /\ shape \in Seq(Nat \ {0})
        /\ calcstep \in Nat /\ calcpos \in Nat /\ totelems \in Nat
        /\ \A q \in 0..(totelems - 1) : q >= calcpos => value[q] = 0
    BY DEF IInv, CallsTyped, RestFree
  <2>3. Len(calls) \in Nat \ {0} /\ call \in Calls
    BY <2>1, <2>2 DEF Last
  <2>4. call.posbegin \in Nat /\ call.dimsize \in Nat
    BY <2>3 DEF Calls
  <2> HIDE DEF call
  <2>5. span \in Nat
    BY <2>2, <2>4
  <2> HIDE DEF span
  <2>6. calls' \in Seq(Calls) /\ Len(calls') = Len(calls) - 1
    BY <2>1, <2>2, <2>3 DEF Front
  <2>7. CallsTyped'
    BY <1>1, <2>1, <2>2, <2>3, <2>5, <2>6 DEF CallsTyped
  <2>8. calcpos' \in Nat /\ calcpos' >= calcpos
    BY <2>1, <2>2, <2>4, <2>5
  <2>9. RestFree'
    BY <1>1, <2>2, <2>8 DEF RestFree, IInv
  <2> QED
    BY <1>1, <2>7, <2>9 DEF IInv
<1> QED
  BY <1>2, <1>3

-------------------------------------------------------------------------------
\* Each element is given at most one value, and in the order of the elements:
\* whatever lists are open, calc never goes back (InitVal::calc).
THEOREM NeverGoesBack == Spec => NeverBack
<1> DEFINE Forward == value' # value =>
        \A p \in DOMAIN value : value'[p] # value[p] =>
            \A q \in p..(totelems - 1) : value[q] = 0
<1>1. ASSUME IInv, [Next]_vars
      PROVE  IInv' /\ Forward
  <2>1. CASE Single
    BY <1>1, <2>1, SingleFree
  <2>2. CASE OpenList
    BY <1>1, <2>2, OpenListFree
  <2>3. CASE CloseList
    BY <1>1, <2>3, CloseListFree
  <2>4. CASE UNCHANGED vars
    BY <1>1, <2>4 DEF vars, statevars, calcvars, IInv, CallsTyped, RestFree
  <2> QED
    BY <1>1, <2>1, <2>2, <2>3, <2>4 DEF Next, Over
<1>2. Spec => []IInv
  BY FreeInit, <1>1, PTL DEF Spec
<1>3. IInv /\ [Next]_vars => [Forward]_vars
  BY <1>1
<1> QED
  BY <1>2, <1>3, PTL DEF Spec, NeverBack

-------------------------------------------------------------------------------
(* The step is the size of a row.                                          *)

\* Each call in progress has the length of its own dimension.
Sizes ==
    /\ totelems = Product(shape)
    /\ \A i \in 1..Len(calls) : calls[i].dimsize = shape[i]

\* Sizes and types: at the start, and after each step.
LEMMA TypeInit == Init => TypeOK /\ Sizes
<1> SUFFICES ASSUME Init PROVE TypeOK /\ Sizes
  OBVIOUS
<1>1. /\ shape \in Seq(Pos) /\ calls = <<>> /\ Len(calls) = 0
      /\ totelems = Product(shape) /\ calcstep = totelems
      /\ calcpos = 0 /\ calcdim = 0 /\ status = "reading" /\ items = 0
      /\ value = [p \in 0..(totelems - 1) |-> 0]
  BY ShapesAssumption DEF Init, Pos
<1>2. calcstep = RowSize(0) /\ 0 \in 0..Len(shape)
  BY <1>1, RowSizes
<1>3. DOMAIN value = 0..(totelems - 1) /\ \A p \in DOMAIN value : value[p] \in 0..items
  BY <1>1
<1> QED
  BY <1>1, <1>2, <1>3 DEF TypeOK, Sizes

\* A value is put inside of the array, if there is room for it.
LEMMA SingleTyped == IInv /\ TypeOK /\ Sizes /\ Single => (TypeOK /\ Sizes)'
<1> SUFFICES ASSUME IInv, TypeOK, Sizes, Single PROVE (TypeOK /\ Sizes)'
  OBVIOUS
<1>1. /\ UNCHANGED <<shape, totelems, calcdim, calcstep, calls>>
      /\ items' = items + 1
      /\ \/ value' = value /\ calcpos' = calcpos
         \/ value' = [value EXCEPT ![calcpos] = items'] /\ calcpos' = calcpos + 1
      /\ status' \in {"refused", "done", status}
  BY DEF Single, Refuse, statevars, calcvars
<1>2. items \in Nat /\ calcpos \in Nat /\ DOMAIN value = 0..(totelems - 1)
      /\ \A p \in DOMAIN value : value[p] \in 0..items
  BY DEF IInv, RestFree, TypeOK
<1>3. items' \in 0..items' /\ \A x \in 0..items : x \in 0..items'
  BY <1>1, <1>2
<1>4. DOMAIN value' = 0..(totelems - 1) /\ \A p \in DOMAIN value : value'[p] \in 0..items'
  <2> DEFINE w == [value EXCEPT ![calcpos] = items']
  <2>1. DOMAIN w = DOMAIN value /\ \A p \in DOMAIN value : w[p] \in {value[p], items'}
    OBVIOUS
  <2> HIDE DEF w
  <2> QED
    BY <1>1, <1>2, <1>3, <2>1 DEF w
<1>5. calcpos' \in Nat /\ status' \in {"reading", "done", "refused"}
  BY <1>1, <1>2 DEF TypeOK
<1>6. calcstep' = RowSize(calcdim)' /\ calcdim' = Len(calls)' /\ calcdim' \in 0..Len(shape)'
  BY <1>1 DEF TypeOK, RowSize
<1> QED
  BY <1>1, <1>2, <1>4, <1>5, <1>6 DEF TypeOK, Sizes

\* A list is no larger than the sub-array it begins in.
LEMMA OpenListTyped == IInv /\ TypeOK /\ Sizes /\ OpenList => (TypeOK /\ Sizes)'
<1> SUFFICES ASSUME IInv, TypeOK, Sizes, OpenList PROVE (TypeOK /\ Sizes)'
  OBVIOUS
<1>1. /\ items' = items + 1
      /\ UNCHANGED <<shape, totelems, value, calcpos>>
      /\ status' \in {"refused", status}
  BY DEF OpenList, Refuse, statevars, calcvars
<1>2. items \in Nat /\ DOMAIN value = 0..(totelems - 1)
      /\ \A p \in DOMAIN value : value[p] \in 0..items
  BY DEF IInv, RestFree, TypeOK
<1>3. \A p \in DOMAIN value : value[p] \in 0..items'
  BY <1>1, <1>2
<1>4. calcpos' \in Nat /\ status' \in {"reading", "done", "refused"}
  BY <1>1 DEF TypeOK
<1>5. CASE UNCHANGED <<calcdim, calcstep, calls>>
  <2>1. calcstep' = RowSize(calcdim)' /\ calcdim' = Len(calls)' /\ calcdim' \in 0..Len(shape)'
    BY <1>1, <1>5 DEF TypeOK, RowSize
  <2> QED
    BY <1>1, <1>2, <1>3, <1>4, <1>5, <2>1 DEF TypeOK, Sizes
<1>6. CASE ~ UNCHANGED <<calcdim, calcstep, calls>>
  <2> DEFINE dimsize == shape[calcdim + 1]
             call    == [posbegin |-> calcpos, dimsize |-> dimsize]
  <2>1. /\ calcdim # Len(shape)
        /\ calcdim' = calcdim + 1
        /\ calcstep' = calcstep \div dimsize
        /\ calls' = Append(calls, call)
    BY <1>6 DEF OpenList, Refuse, calcvars
  <2>2. /\ calcdim \in 0..(Len(shape) - 1) /\ calcdim + 1 \in 0..Len(shape)
        /\ shape \in Seq(Pos) /\ Len(shape) \in Nat
        /\ calcdim + 1 \in 1..Len(shape)
        /\ calls \in Seq(Calls) /\ calcdim = Len(calls)
    BY <2>1 DEF IInv, CallsTyped, TypeOK, Pos
  <2>3. dimsize \in Pos
    BY <2>2
  <2>4. calcstep = dimsize * RowSize(calcdim + 1) /\ RowSize(calcdim + 1) \in Nat
    BY <2>2, RowSizes DEF TypeOK, Pos
  <2> HIDE DEF dimsize
  <2>5. calcstep' = RowSize(calcdim + 1)
    BY <2>1, <2>3, <2>4, Arithmetic
  <2>6. call.dimsize = dimsize
    OBVIOUS
  <2> HIDE DEF call
  <2>7. Len(calls') = Len(calls) + 1 /\ calls'[Len(calls) + 1] = call
        /\ \A i \in 1..Len(calls) : calls'[i] = calls[i]
    BY <2>1, <2>2
  <2>8. \A i \in 1..(Len(calls) + 1) : calls'[i].dimsize = shape[i]
    BY <2>2, <2>6, <2>7 DEF Sizes, dimsize
  <2>9. calcstep' = RowSize(calcdim)'
    BY <1>1, <2>1, <2>5 DEF RowSize
  <2>10. calcdim' = Len(calls') /\ calcdim' \in 0..Len(shape)
    BY <2>1, <2>2, <2>7
  <2>11. Sizes'
    BY <1>1, <2>7, <2>8 DEF Sizes
  <2> QED
    BY <1>1, <1>2, <1>3, <1>4, <2>9, <2>10, <2>11 DEF TypeOK
<1> QED
  BY <1>5, <1>6

\* The position after a list is that after its sub-array.
LEMMA CloseListTyped == IInv /\ TypeOK /\ Sizes /\ CloseList => (TypeOK /\ Sizes)'
<1> SUFFICES ASSUME IInv, TypeOK, Sizes, CloseList PROVE (TypeOK /\ Sizes)'
  OBVIOUS
<1>1. UNCHANGED <<shape, totelems, value, items>> /\ status' \in {"refused", "done", status}
  BY DEF CloseList, Refuse, statevars, calcvars
<1>2. status' \in {"reading", "done", "refused"}
  BY <1>1 DEF TypeOK
<1>3. CASE UNCHANGED <<calcpos, calcdim, calcstep, calls>>
  <2>1. calcstep' = RowSize(calcdim)' /\ calcdim' = Len(calls)' /\ calcdim' \in 0..Len(shape)'
    BY <1>1, <1>3 DEF TypeOK, RowSize
  <2> QED
    BY <1>1, <1>2, <1>3, <2>1 DEF TypeOK, Sizes
<1>4. CASE ~ UNCHANGED <<calcpos, calcdim, calcstep, calls>>
  <2> DEFINE call == Last(calls)
  <2>1. /\ calls # <<>>
        /\ calcpos' = call.posbegin + calcstep * call.dimsize
        /\ calcstep' = calcstep * call.dimsize
        /\ calcdim' = calcdim - 1
        /\ calls' = Front(calls)
    BY <1>4 DEF CloseList, Refuse, calcvars
  <2>2. /\ calls \in Seq(Calls) /\ shape \in Seq(Pos) /\ Len(shape) \in Nat
        /\ Len(calls) \in Nat \ {0} /\ calcdim = Len(calls) /\ calcdim \in 0..Len(shape)
    BY <2>1 DEF IInv, CallsTyped, TypeOK, Pos
  <2>3. call = calls[Len(calls)] /\ call \in Calls /\ call.dimsize = shape[Len(calls)]
    BY <2>2 DEF Last, Sizes
  <2>4. /\ calcdim - 1 \in 0..(Len(shape) - 1) /\ calcdim - 1 \in 0..Len(shape)
        /\ (calcdim - 1) + 1 = calcdim
    BY <2>2
  <2>5. RowSize(calcdim - 1) = shape[calcdim] * RowSize(calcdim) /\ RowSize(calcdim) \in Nat
    BY <2>2, <2>4, RowSizes DEF Pos
  <2>6. call.dimsize \in Nat /\ call.posbegin \in Nat
    BY <2>3 DEF Calls
  <2> HIDE DEF call
  <2>7. calcstep' = RowSize(calcdim - 1) /\ calcpos' \in Nat
    BY <2>1, <2>2, <2>3, <2>5, <2>6 DEF TypeOK
  <2>8. calcstep' = RowSize(calcdim)'
    BY <1>1, <2>1, <2>7 DEF RowSize
  <2>9. Len(calls') = Len(calls) - 1 /\ \A i \in 1..(Len(calls) - 1) : calls'[i] = calls[i]
    BY <2>1, <2>2 DEF Front
  <2>10. Sizes'
    BY <1>1, <2>2, <2>9 DEF Sizes
  <2>11. calcdim' = Len(calls') /\ calcdim' \in 0..Len(shape)
    BY <2>1, <2>2, <2>4, <2>9
  <2> QED
    BY <1>1, <1>2, <2>7, <2>8, <2>10, <2>11 DEF TypeOK
<1> QED
  BY <1>3, <1>4

\* However lists are opened and closed, calcstep stays the size of a row of the
\* dimension calc is in, and the position stays a number (InitVal::calc).
THEOREM TypeCorrect == Spec => []TypeOK
<1> DEFINE Inv == IInv /\ TypeOK /\ Sizes
<1>1. Init => Inv
  BY FreeInit, TypeInit
<1>2. Inv /\ [Next]_vars => Inv'
  <2> SUFFICES ASSUME Inv, [Next]_vars PROVE Inv'
    OBVIOUS
  <2>1. CASE Single
    BY <2>1, SingleFree, SingleTyped
  <2>2. CASE OpenList
    BY <2>2, OpenListFree, OpenListTyped
  <2>3. CASE CloseList
    BY <2>3, CloseListFree, CloseListTyped
  <2>4. CASE UNCHANGED vars
    <3>1. UNCHANGED <<shape, totelems, value, calcpos, calcdim, calcstep, calls, status, items>>
      BY <2>4 DEF vars, statevars, calcvars
    <3> QED
      BY <3>1 DEF IInv, CallsTyped, RestFree, TypeOK, Sizes, RowSize
  <2> QED
    BY <2>1, <2>2, <2>3, <2>4 DEF Next, Over
<1> QED
  BY <1>1, <1>2, PTL DEF Spec

-------------------------------------------------------------------------------
(* Positions of elements.                                                  *)

Partial == [step : Nat, pos : Nat]

\* The loop of _get_scalar_index: what has been added up after d indices.
LEMMA ScalarIndexLoop ==
    ASSUME NEW dims \in Seq(Pos), NEW idx \in Seq(Nat), Len(idx) <= Len(dims)
    PROVE  \E at \in [0..Len(idx) -> Partial] :
             /\ at[0] = [step |-> Product(dims), pos |-> 0]
             /\ \A d \in 1..Len(idx) :
                  /\ at[d].step = at[d - 1].step \div dims[d]
                  /\ at[d].pos = at[d - 1].pos + at[d].step * idx[d]
             /\ ScalarIndex(dims, idx) = at[Len(idx)].pos
<1> DEFINE n == Len(idx)
           base == [step |-> Product(dims), pos |-> 0]
           next(d, x) == [step |-> x.step \div dims[d],
                          pos  |-> x.pos + (x.step \div dims[d]) * idx[d]]
           F == [d \in 1..n |-> [x \in Partial |-> next(d, x)]]
           Eq(at) == at = [d \in 0..n |-> IF d = 0 THEN base ELSE next(d, at[d - 1])]
<1>1. n \in Nat /\ \A d \in 1..n : dims[d] \in Pos /\ idx[d] \in Nat
  OBVIOUS
<1>2. base \in Partial
  BY ProductType DEF Pos, Partial
<1>3. \A d \in 1..n, x \in Partial : next(d, x) \in Partial
  <2> SUFFICES ASSUME NEW d \in 1..n, NEW x \in Partial PROVE next(d, x) \in Partial
    OBVIOUS
  <2>1. x.step \in Nat /\ x.pos \in Nat /\ dims[d] \in Pos /\ idx[d] \in Nat
    BY <1>1 DEF Partial
  <2> DEFINE q == x.step \div dims[d]
  <2>2. q \in Nat
    BY <2>1, DivType
  <2> HIDE DEF q
  <2>3. x.pos + q * idx[d] \in Nat
    BY <2>1, <2>2, StepType
  <2>4. next(d, x) = [step |-> q, pos |-> x.pos + q * idx[d]]
    BY DEF q
  <2> QED
    BY <2>2, <2>3, <2>4 DEF Partial
<1>4. ScalarIndex(dims, idx) = (CHOOSE at : Eq(at))[n].pos
  BY DEF ScalarIndex
<1> HIDE DEF base, next
<1>5. F \in [1..n -> [Partial -> Partial]] /\ \A d \in 1..n, x \in Partial : F[d][x] = next(d, x)
  BY <1>3
<1> HIDE DEF F, n
<1>6. \E at : Eq(at)
  <2>1. PICK at \in [0..n -> Partial] : IsLoop(at, base, F, n)
    BY <1>1, <1>2, <1>5, LoopExists
  <2>2. \A d \in 0..n : d # 0 => d \in 1..n /\ at[d - 1] \in Partial
    BY <1>1
  <2>3. Eq(at)
    BY <2>1, <2>2, <1>5 DEF IsLoop
  <2> QED
    BY <2>3
<1> DEFINE h == CHOOSE at : Eq(at)
<1>7. Eq(h)
  BY <1>6
<1> HIDE DEF h
<1>8. \A d \in 0..n : h[d] = IF d = 0 THEN base ELSE next(d, h[d - 1])
  BY <1>7
<1> DEFINE S == {d \in 0..n : h[d] \in Partial}
<1>9. 0 \in S
  BY <1>1, <1>2, <1>8
<1>10. \A d \in 0..(n - 1) : d \in S => d + 1 \in S
  <2> SUFFICES ASSUME NEW d \in 0..(n - 1), h[d] \in Partial PROVE h[d + 1] \in Partial
    BY <1>1
  <2>1. d + 1 \in 0..n /\ d + 1 \in 1..n /\ d + 1 # 0 /\ (d + 1) - 1 = d
    BY <1>1
  <2>2. h[d + 1] = next(d + 1, h[d])
    BY <1>8, <2>1
  <2> QED
    BY <1>3, <2>1, <2>2
<1> HIDE DEF S
<1>11. 0..n \subseteq S
  BY <1>1, <1>9, <1>10, InductionUpTo
<1>12. h \in [0..n -> Partial]
  <2>1. \A d \in 0..n : h[d] \in Partial
    BY <1>11 DEF S
  <2>2. h = [d \in 0..n |-> h[d]]
    BY <1>7
  <2> QED
    BY <2>1, <2>2
<1>13. h[0] = base
  BY <1>1, <1>8
<1>14. ASSUME NEW d \in 1..n
       PROVE  /\ h[d].step = h[d - 1].step \div dims[d]
              /\ h[d].pos = h[d - 1].pos + h[d].step * idx[d]
  <2>1. h[d] = next(d, h[d - 1])
    BY <1>1, <1>8
  <2> QED
    BY <2>1 DEF next
<1> QED
  BY <1>4, <1>12, <1>13, <1>14 DEF h, n, base

\* On the way through the indices the step is the size of a row.
LEMMA Offsets ==
    ASSUME shape \in Seq(Pos), NEW v \in Seq(Nat), Len(v) <= Len(shape)
    PROVE  \E o \in [0..Len(v) -> Nat] :
             /\ o[0] = 0
             /\ \A d \in 1..Len(v) : o[d] = o[d - 1] + RowSize(d) * v[d]
             /\ ScalarIndex(shape, v) = o[Len(v)]
<1> DEFINE n == Len(v)
<1>1. n \in Nat /\ Len(shape) \in Nat /\ n <= Len(shape)
      /\ \A d \in 1..n : shape[d] \in Pos /\ v[d] \in Nat
  OBVIOUS
<1>2. PICK at \in [0..Len(v) -> Partial] :
             /\ at[0] = [step |-> Product(shape), pos |-> 0]
             /\ \A d \in 1..Len(v) :
                  /\ at[d].step = at[d - 1].step \div shape[d]
                  /\ at[d].pos = at[d - 1].pos + at[d].step * v[d]
             /\ ScalarIndex(shape, v) = at[Len(v)].pos
  BY ScalarIndexLoop
<1> DEFINE S == {d \in 0..n : at[d].step = RowSize(d)}
<1>3. 0 \in S
  <2>1. at[0].step = Product(shape)
    BY <1>2
  <2> QED
    BY <1>1, <2>1, RowSizes
<1>4. \A d \in 0..(n - 1) : d \in S => d + 1 \in S
  <2> SUFFICES ASSUME NEW d \in 0..(n - 1), at[d].step = RowSize(d)
               PROVE  at[d + 1].step = RowSize(d + 1)
    BY <1>1
  <2>1. /\ d + 1 \in 1..Len(v) /\ (d + 1) - 1 = d
        /\ d \in 0..(Len(shape) - 1) /\ d + 1 \in 0..Len(shape)
    BY <1>1
  <2>2. RowSize(d) = shape[d + 1] * RowSize(d + 1) /\ RowSize(d + 1) \in Nat
    BY <2>1, RowSizes DEF Pos
  <2>3. at[d + 1].step = RowSize(d) \div shape[d + 1]
    BY <1>2, <2>1
  <2> QED
    BY <1>1, <2>1, <2>2, <2>3, Arithmetic
<1> HIDE DEF S
<1>5. 0..n \subseteq S
  BY <1>1, <1>3, <1>4, InductionUpTo
<1> DEFINE o == [d \in 0..n |-> at[d].pos]
<1>6. o \in [0..n -> Nat]
  BY <1>2 DEF Partial
<1>7. o[0] = 0 /\ ScalarIndex(shape, v) = o[n]
  BY <1>1, <1>2
<1>8. ASSUME NEW d \in 1..n PROVE o[d] = o[d - 1] + RowSize(d) * v[d]
  <2>1. d \in 0..n /\ d - 1 \in 0..n
    BY <1>1
  <2>2. at[d].step = RowSize(d)
    BY <1>5, <2>1 DEF S
  <2> QED
    BY <1>2, <2>1, <2>2
<1> QED
  BY <1>6, <1>7, <1>8

\* There is a largest dimension.
LEMMA LargestExists ==
    ASSUME shape \in Seq(Pos)
    PROVE  LET m == Max({shape[d] : d \in DOMAIN shape} \cup {0})
           IN  m \in Nat /\ \A d \in DOMAIN shape : m >= shape[d]
<1> DEFINE n == Len(shape)
           upto(k) == {shape[d] : d \in 1..k} \cup {0}
           S == {k \in 0..n : \E m \in upto(k) : \A y \in upto(k) : m >= y}
<1>1. n \in Nat /\ DOMAIN shape = 1..n /\ \A d \in 1..n : shape[d] \in Nat
  BY DEF Pos
<1>2. \A k \in 0..n : \A y \in upto(k) : y \in Nat
  BY <1>1
<1>3. 0 \in S
  <2>1. upto(0) = {0} /\ 0 \in 0..n
    BY <1>1
  <2>2. \A y \in upto(0) : 0 >= y
    BY <2>1
  <2> QED
    BY <2>1, <2>2
<1>4. ASSUME NEW k \in 0..(n - 1), k \in S PROVE k + 1 \in S
  <2>0. PICK m \in upto(k) : \A y \in upto(k) : m >= y
    BY <1>4
  <2>1. k \in 0..n /\ k + 1 \in 1..n /\ k + 1 \in 0..n
    BY <1>1
  <2>2. upto(k + 1) = upto(k) \cup {shape[k + 1]}
    <3>1. 1..(k + 1) = (1..k) \cup {k + 1}
      BY <2>1
    <3> QED
      BY <3>1
  <2>3. m \in Nat /\ shape[k + 1] \in Nat /\ \A y \in upto(k) : y \in Nat
    BY <1>1, <1>2, <2>1
  <2> HIDE DEF upto, S
  <2> DEFINE new == shape[k + 1]
  <2> HIDE DEF new
  <2>4. \E l \in upto(k + 1) : \A y \in upto(k + 1) : l >= y
    <3>1. CASE m >= new
      <4>1. \A y \in upto(k + 1) : m >= y
        BY <2>0, <2>2, <3>1 DEF new
      <4> QED
        BY <2>0, <2>2, <4>1
    <3>2. CASE ~ (m >= new)
      <4>1. new \in Nat
        BY <2>3 DEF new
      <4>2. \A y \in upto(k) : new >= y
        BY <2>0, <2>3, <3>2, <4>1
      <4>3. \A y \in upto(k + 1) : new >= y
        BY <2>2, <4>1, <4>2 DEF new
      <4>4. new \in upto(k + 1)
        BY <2>2 DEF new
      <4> QED
        BY <4>3, <4>4
    <3> QED
      BY <3>1, <3>2
  <2> QED
    BY <2>1, <2>4 DEF S
<1> HIDE DEF S
<1>5. 0..n \subseteq S
  BY <1>1, <1>3, <1>4, InductionUpTo
<1>6. n \in 0..n
  BY <1>1
<1>7. upto(n) = {shape[d] : d \in DOMAIN shape} \cup {0}
  BY <1>1
<1>8. PICK m \in upto(n) : \A y \in upto(n) : m >= y
  BY <1>5, <1>6 DEF S
<1> HIDE DEF upto
<1>9. Max(upto(n)) \in upto(n) /\ \A y \in upto(n) : Max(upto(n)) >= y
  BY <1>8 DEF Max
<1>10. \A d \in DOMAIN shape : shape[d] \in upto(n)
  BY <1>7
<1> QED
  BY <1>2, <1>6, <1>7, <1>9, <1>10

\* Index vectors are sequences below the shape.
LEMMA IndexVectorsType ==
    ASSUME shape \in Seq(Pos)
    PROVE  IndexVectors = {v \in Seq(Nat) : /\ Len(v) = Len(shape)
                                           /\ \A d \in 1..Len(shape) : v[d] < shape[d]}
<1> DEFINE n == Len(shape)
           m == Max({shape[d] : d \in DOMAIN shape} \cup {0})
<1>1. n \in Nat /\ DOMAIN shape = 1..n /\ \A d \in 1..n : shape[d] \in Nat
  BY DEF Pos
<1>2. m \in Nat /\ \A d \in 1..n : m >= shape[d]
  BY <1>1, LargestExists
<1> HIDE DEF m
<1>3. IndexVectors = {v \in [1..n -> 0..m] : \A d \in 1..n : v[d] < shape[d]}
  BY <1>1 DEF IndexVectors, m
<1> HIDE DEF n
<1>4. ASSUME NEW v \in [1..n -> 0..m] PROVE v \in Seq(Nat) /\ Len(v) = n
  <2>1. v \in [1..n -> Nat]
    BY <1>2
  <2> QED
    BY <1>1, <2>1
<1>5. ASSUME NEW v \in Seq(Nat), Len(v) = n, \A d \in 1..n : v[d] < shape[d]
      PROVE  v \in [1..n -> 0..m]
  <2>1. v \in [1..n -> Nat]
    BY <1>1, <1>5
  <2>2. \A d \in 1..n : v[d] \in 0..m
    BY <1>1, <1>2, <1>5, <2>1
  <2> QED
    BY <2>1, <2>2
<1> QED
  BY <1>3, <1>4, <1>5 DEF n

\* A sub-array and the place of an element in it add up to the element's place.
LEMMA PassedOffset ==
    ASSUME shape \in Seq(Pos), NEW v \in Seq(Nat), Len(v) = Len(shape),
           NEW k \in 1..Len(shape)
    PROVE  ScalarIndex(shape, v) =
               ScalarIndex(shape, SubSeq(v, 1, k - 1))
               + ScalarIndex(ParamShape(SubSeq(shape, k + 1, Len(shape))), SubSeq(v, k, Len(v)))
<1> DEFINE n == Len(shape)
           m == n - k
           passed == SubSeq(v, 1, k - 1)
           inside == SubSeq(v, k, n)
           rest == SubSeq(shape, k + 1, n)
           param == ParamShape(rest)
<1>1. n \in Nat /\ k \in Nat /\ m \in Nat /\ \A d \in 1..n : shape[d] \in Pos /\ v[d] \in Nat
  OBVIOUS
<1>2. passed \in Seq(Nat) /\ Len(passed) = k - 1 /\ \A d \in 1..(k - 1) : passed[d] = v[d]
  OBVIOUS
<1>3. inside \in Seq(Nat) /\ Len(inside) = m + 1
      /\ \A j \in 0..m : inside[j + 1] = v[k + j]
  OBVIOUS
<1>4. /\ rest \in Seq(Pos) /\ Len(rest) = m
      /\ \A j \in 1..m : rest[j] = shape[k + j]
  BY SMTT(30)
<1> HIDE DEF passed, inside, rest
<1>5. /\ param \in Seq(Pos) /\ Len(param) = m + 1 /\ param[1] = 1
      /\ \A j \in 1..m : param[j + 1] = rest[j]
  <2>1. <<1>> \in Seq(Pos) /\ Len(<<1>>) = 1
    BY DEF Pos
  <2>2. param = <<1>> \o rest
    BY DEF ParamShape
  <2> HIDE DEF param, m
  <2> QED
    BY <1>1, <1>4, <2>1, <2>2
<1>6. Product(rest) = RowSize(k)
  BY DEF RowSize, rest
<1> HIDE DEF param
<1>7. Product(param) = RowSize(k)
  <2>1. RowSize(k) \in Nat
    BY <1>1, RowSizes DEF Pos
  <2>2. Product(param) = param[1] * Product(rest)
    BY <1>1, <1>4, <1>5, ProductTail
  <2> QED
    BY <1>5, <1>6, <2>1, <2>2
<1>8. PICK o \in [0..n -> Nat] :
         /\ o[0] = 0
         /\ \A d \in 1..n : o[d] = o[d - 1] + RowSize(d) * v[d]
         /\ ScalarIndex(shape, v) = o[n]
  <2>1. Len(v) <= Len(shape)
    BY <1>1
  <2>2. \E o \in [0..Len(v) -> Nat] :
         /\ o[0] = 0
         /\ \A d \in 1..Len(v) : o[d] = o[d - 1] + RowSize(d) * v[d]
         /\ ScalarIndex(shape, v) = o[Len(v)]
    BY <2>1, Offsets
  <2> QED
    BY <2>2
<1>9. ScalarIndex(shape, passed) = o[k - 1]
  <2>1. PICK q \in [0..(k - 1) -> Nat] :
         /\ q[0] = 0
         /\ \A d \in 1..(k - 1) : q[d] = q[d - 1] + RowSize(d) * passed[d]
         /\ ScalarIndex(shape, passed) = q[k - 1]
    <3>1. passed \in Seq(Nat) /\ Len(passed) <= Len(shape)
      BY <1>1, <1>2
    <3>2. \E q \in [0..Len(passed) -> Nat] :
         /\ q[0] = 0
         /\ \A d \in 1..Len(passed) : q[d] = q[d - 1] + RowSize(d) * passed[d]
         /\ ScalarIndex(shape, passed) = q[Len(passed)]
      BY <3>1, Offsets
    <3> QED
      BY <1>2, <3>2
  <2> DEFINE S == {d \in 0..(k - 1) : q[d] = o[d]}
  <2>2. 0 \in S /\ k - 1 \in Nat
    BY <1>1, <1>8, <2>1
  <2>3. \A d \in 0..((k - 1) - 1) : d \in S => d + 1 \in S
    <3> SUFFICES ASSUME NEW d \in 0..((k - 1) - 1), q[d] = o[d]
                 PROVE  d + 1 \in 0..(k - 1) /\ q[d + 1] = o[d + 1]
      OBVIOUS
    <3>1. d + 1 \in 1..(k - 1) /\ d + 1 \in 1..n /\ (d + 1) - 1 = d /\ d + 1 \in 0..(k - 1)
      BY <1>1
    <3> QED
      BY <1>2, <1>8, <2>1, <3>1
  <2> HIDE DEF S
  <2>4. 0..(k - 1) \subseteq S
    BY <2>2, <2>3, InductionUpTo
  <2> QED
    BY <2>1, <2>2, <2>4 DEF S
<1>10. PICK b \in [0..(m + 1) -> Partial] :
             /\ b[0] = [step |-> Product(param), pos |-> 0]
             /\ \A d \in 1..(m + 1) :
                  /\ b[d].step = b[d - 1].step \div param[d]
                  /\ b[d].pos = b[d - 1].pos + b[d].step * inside[d]
             /\ ScalarIndex(param, inside) = b[m + 1].pos
  <2> HIDE DEF m
  <2>1. Len(inside) <= Len(param)
    BY <1>1, <1>3, <1>5
  <2>2. \E b \in [0..Len(inside) -> Partial] :
             /\ b[0] = [step |-> Product(param), pos |-> 0]
             /\ \A d \in 1..Len(inside) :
                  /\ b[d].step = b[d - 1].step \div param[d]
                  /\ b[d].pos = b[d - 1].pos + b[d].step * inside[d]
             /\ ScalarIndex(param, inside) = b[Len(inside)].pos
    BY <1>3, <1>5, <2>1, ScalarIndexLoop
  <2>3. Len(inside) = m + 1
    BY <1>3
  <2> QED
    BY <2>2, <2>3
<1> DEFINE S == {j \in 0..m : /\ b[j + 1].step = RowSize(k + j)
                             /\ o[k + j] = o[k - 1] + b[j + 1].pos}
<1> HIDE DEF n, m
<1>11. 0 \in S
  <2>1. 1 \in 1..(m + 1) /\ 1 - 1 = 0 /\ 0 \in 0..m /\ k \in 1..n /\ k - 1 \in 0..n
    BY <1>1 DEF n
  <2>2. RowSize(k) \in Nat /\ v[k] \in Nat /\ o[k - 1] \in Nat
    <3>1. k \in 0..Len(shape)
      BY <1>1 DEF n
    <3>2. RowSize(k) \in Nat
      BY <3>1, RowSizes DEF Pos
    <3> QED
      BY <1>1, <1>8, <2>1, <3>2
  <2>3. b[0].step = RowSize(k) /\ b[0].pos = 0
    BY <1>7, <1>10
  <2>4. b[1].step = b[0].step \div 1 /\ b[1].pos = b[0].pos + b[1].step * inside[1]
    BY <1>5, <1>10, <2>1
  <2>5. inside[1] = v[k]
    <3>1. inside[0 + 1] = v[k + 0]
      BY <1>3, <2>1
    <3> QED
      BY <1>1, <3>1
  <2>6. b[1].step = RowSize(k)
    BY <2>2, <2>3, <2>4
  <2>7. b[1].pos = RowSize(k) * v[k]
    BY <2>2, <2>3, <2>4, <2>5, <2>6
  <2>8. o[k] = o[k - 1] + RowSize(k) * v[k]
    BY <1>8, <2>1
  <2> QED
    BY <1>1, <2>1, <2>6, <2>7, <2>8
<1>12. ASSUME NEW j \in 0..(m - 1), j \in S PROVE j + 1 \in S
  <2>0. b[j + 1].step = RowSize(k + j) /\ o[k + j] = o[k - 1] + b[j + 1].pos
    BY <1>12
  <2> DEFINE d == k + j
  <2>1. /\ d \in 0..(n - 1) /\ d + 1 \in 1..n /\ d + 1 \in 0..n /\ k + (j + 1) = d + 1
        /\ j + 2 \in 1..(m + 1) /\ (j + 2) - 1 = j + 1 /\ (j + 1) + 1 = j + 2
        /\ j + 1 \in 1..m /\ j + 1 \in 0..m /\ j + 1 \in 0..(m + 1) /\ j + 2 \in 0..(m + 1)
        /\ (d + 1) - 1 = d /\ k - 1 \in 0..n
    BY <1>1 DEF n, m
  <2>2. /\ RowSize(d) = shape[d + 1] * RowSize(d + 1)
        /\ RowSize(d + 1) \in Nat /\ shape[d + 1] \in Pos /\ v[d + 1] \in Nat
    BY <1>1, <2>1, RowSizes DEF Pos, n
  <2>3. param[j + 2] = shape[d + 1] /\ inside[j + 2] = v[d + 1]
    <3>1. param[(j + 1) + 1] = rest[j + 1] /\ inside[(j + 1) + 1] = v[k + (j + 1)]
          /\ rest[j + 1] = shape[k + (j + 1)]
      BY <1>3, <1>4, <1>5, <2>1
    <3> QED
      BY <2>1, <3>1
  <2>4. /\ b[j + 2].step = b[j + 1].step \div param[j + 2]
        /\ b[j + 2].pos = b[j + 1].pos + b[j + 2].step * inside[j + 2]
    BY <1>10, <2>1
  <2>5. b[j + 2].step = RowSize(d + 1)
    BY <2>0, <2>2, <2>3, <2>4, Arithmetic
  <2>6. b[j + 1].pos \in Nat /\ o[k - 1] \in Nat
    BY <2>1 DEF Partial
  <2>7. o[d + 1] = o[d] + RowSize(d + 1) * v[d + 1]
    BY <1>8, <2>1
  <2>8. b[j + 2].pos = b[j + 1].pos + RowSize(d + 1) * v[d + 1]
    BY <2>3, <2>4, <2>5
  <2> DEFINE part == RowSize(d + 1) * v[d + 1]
  <2>9. part \in Nat
    BY <2>2
  <2> HIDE DEF part, S
  <2>10. o[d + 1] = o[d] + part /\ b[j + 2].pos = b[j + 1].pos + part
    BY <2>7, <2>8 DEF part
  <2>11. o[d + 1] = o[k - 1] + b[j + 2].pos
    BY <2>0, <2>6, <2>9, <2>10
  <2>12. b[(j + 1) + 1].step = RowSize(k + (j + 1)) /\ o[k + (j + 1)] = o[k - 1] + b[(j + 1) + 1].pos
    BY <2>1, <2>5, <2>11
  <2> QED
    BY <2>1, <2>12 DEF S
<1> HIDE DEF S
<1>13. 0..m \subseteq S
  BY <1>1, <1>11, <1>12, InductionUpTo
<1>14. m \in 0..m /\ k + m = n
  BY <1>1 DEF m, n
<1>15. o[n] = o[k - 1] + b[m + 1].pos
  BY <1>13, <1>14 DEF S
<1> QED
  BY <1>8, <1>9, <1>10, <1>15 DEF passed, inside, rest, param, n

\* For every shape: a sub-array that a call is given is, element by element, the
\* caller's, though the two address it with dimensions of their own
\* (_get_scalar_index, FuncDefParam).
THEOREM AlwaysPassedInPlace == Spec => []PassedInPlace
<1>1. IInv => PassedInPlace
  <2> SUFFICES ASSUME IInv, NEW v \in IndexVectors, NEW k \in DOMAIN shape
               PROVE  ScalarIndex(shape, v) =
                         ScalarIndex(shape, SubSeq(v, 1, k - 1))
                         + ScalarIndex(ParamShape(SubSeq(shape, k + 1, Len(shape))),
                                       SubSeq(v, k, Len(v)))
    BY DEF PassedInPlace
  <2>1. shape \in Seq(Pos)
    BY DEF IInv, CallsTyped, Pos
  <2>2. v \in Seq(Nat) /\ Len(v) = Len(shape) /\ k \in 1..Len(shape)
    BY <2>1, IndexVectorsType
  <2> QED
    BY <2>1, <2>2, PassedOffset
<1>2. IInv /\ [Next]_vars => IInv'
  <2>1. UNCHANGED vars /\ IInv => IInv'
    BY DEF vars, statevars, calcvars, IInv, CallsTyped, RestFree
  <2> QED
    BY <2>1, SingleFree, OpenListFree, CloseListFree DEF Next, Over
<1> QED
  BY <1>1, <1>2, FreeInit, PTL DEF Spec

-------------------------------------------------------------------------------
(* Indices are the digits of a position, dimensions their bases.           *)

\* What quotients and remainders are: they exist, are unique, and quotients
\* can be taken one after the other.
LEMMA DivMod ==
    ASSUME NEW a \in Pos, NEW x \in Nat
    PROVE  /\ x \div a \in Nat
           /\ x % a \in 0..(a - 1)
           /\ x = (x \div a) * a + (x % a)
BY DEF Pos

\* A quotient and a remainder are the only ones.
LEMMA DivUnique ==
    ASSUME NEW a \in Pos, NEW x \in Nat, NEW q \in Nat, NEW r \in Nat, r < a, x = q * a + r
    PROVE  x \div a = q /\ x % a = r
BY DEF Pos

\* Dividing by a product is dividing twice.
LEMMA DivDiv ==
    ASSUME NEW a \in Pos, NEW b \in Pos, NEW x \in Nat
    PROVE  x \div (a * b) = (x \div b) \div a
<1> DEFINE y == x \div b
           z == y \div a
           r == x % b
           s == y % a
<1>1. y \in Nat /\ r \in 0..(b - 1) /\ x = y * b + r
  BY DivMod
<1>2. z \in Nat /\ s \in 0..(a - 1) /\ y = z * a + s
  BY <1>1, DivMod
<1> HIDE DEF y, z, r, s
<1>3. x = z * (a * b) + (s * b + r)
  <2>1. y * b = (z * a) * b + s * b
    BY <1>1, <1>2 DEF Pos
  <2>2. (z * a) * b = z * (a * b)
    BY <1>1, <1>2 DEF Pos
  <2> QED
    BY <1>1, <1>2, <2>1, <2>2 DEF Pos
<1>4. s * b + r \in Nat /\ s * b + r < a * b
  <2>1. s * b <= (a - 1) * b
    BY <1>2 DEF Pos
  <2>2. (a - 1) * b = a * b - b
    BY DEF Pos
  <2> QED
    BY <1>1, <1>2, <2>1, <2>2 DEF Pos
<1>5. a * b \in Pos
  BY DEF Pos
<1> QED
  BY <1>2, <1>3, <1>4, <1>5, DivUnique DEF y, z

\* the sub-array of d indices that a position is in, counted through
Which(p, d) == p \div RowSize(d)

\* The indices of a position are its digits, in the bases of the shape.
LEMMA Digits ==
    ASSUME shape \in Seq(Pos), totelems = Product(shape), NEW p \in Nat
    PROVE  /\ IndicesAt(p) \in [0..Len(shape) -> Nat]
           /\ \A d \in 0..Len(shape) : Which(p, d) \in Nat
           /\ IndicesAt(p)[0] = Which(p, 0)
           /\ Which(p, Len(shape)) = p
           /\ \A d \in 1..Len(shape) :
                /\ IndicesAt(p)[d] \in 0..(shape[d] - 1)
                /\ Which(p, d) = Which(p, d - 1) * shape[d] + IndicesAt(p)[d]
                /\ Which(p, d - 1) = Which(p, d) \div shape[d]
<1> DEFINE n == Len(shape)
<1>1. n \in Nat /\ \A d \in 1..n : shape[d] \in Pos
  OBVIOUS
<1>2. \A d \in 0..n : RowSize(d) \in Pos
  BY RowSizes
<1>3. \A d \in 0..n : Which(p, d) \in Nat
  BY <1>2, DivMod DEF Which
<1>4. /\ \A d \in 1..n : IndicesAt(p)[d] = Which(p, d) % shape[d]
      /\ IndicesAt(p)[0] = p \div totelems
  BY <1>1 DEF IndicesAt, Which
<1>5. IndicesAt(p)[0] = Which(p, 0)
  BY <1>4, RowSizes DEF Which
<1>6. Which(p, n) = p
  BY <1>1, RowSizes DEF Which
<1>7. ASSUME NEW d \in 1..n
      PROVE  /\ IndicesAt(p)[d] \in 0..(shape[d] - 1)
             /\ IndicesAt(p)[d] \in Nat
             /\ Which(p, d) = Which(p, d - 1) * shape[d] + IndicesAt(p)[d]
             /\ Which(p, d - 1) = Which(p, d) \div shape[d]
  <2>1. d \in 0..n /\ d - 1 \in 0..(n - 1) /\ (d - 1) + 1 = d
    BY <1>1
  <2>2. RowSize(d - 1) = shape[d] * RowSize(d)
    BY <2>1, RowSizes
  <2>3. Which(p, d - 1) = Which(p, d) \div shape[d]
    BY <1>1, <1>2, <2>1, <2>2, DivDiv DEF Which
  <2> DEFINE x == Which(p, d)
             a == shape[d]
  <2>4. x \in Nat /\ a \in Pos /\ IndicesAt(p)[d] = x % a /\ Which(p, d - 1) = x \div a
    BY <1>1, <1>3, <1>4, <2>1, <2>3
  <2> HIDE DEF x, a
  <2>5. /\ x % a \in 0..(a - 1) /\ x = (x \div a) * a + (x % a)
        /\ x % a \in Nat
    BY <2>4, DivMod
  <2> QED
    BY <2>4, <2>5 DEF x, a
<1>8. IndicesAt(p) \in [0..n -> Nat]
  <2> DEFINE ix == IndicesAt(p)
  <2>1. ix = [d \in 0..n |-> ix[d]]
    BY DEF IndicesAt
  <2>2. \A d \in 0..n : ix[d] \in Nat
    <3>1. \A d \in 0..n : d = 0 \/ d \in 1..n
      BY <1>1
    <3> QED
      BY <1>1, <1>3, <1>5, <1>7, <3>1
  <2> HIDE DEF ix
  <2>3. ix \in [0..n -> Nat]
    BY <2>1, <2>2
  <2> QED
    BY <2>3 DEF ix
<1> QED
  BY <1>3, <1>5, <1>6, <1>7, <1>8

\* Two positions have the first indices in common when they are in the same
\* sub-array.
LEMMA CommonIndices ==
    ASSUME shape \in Seq(Pos), totelems = Product(shape), NEW p \in Nat, NEW q \in Nat,
           NEW d \in 0..Len(shape)
    PROVE  (\A k \in 0..d : IndicesAt(p)[k] = IndicesAt(q)[k]) <=> Which(p, d) = Which(q, d)
<1> DEFINE n == Len(shape)
           A == IndicesAt(p)
           B == IndicesAt(q)
<1>1. n \in Nat /\ d \in Nat /\ \A k \in 1..n : shape[k] \in Pos
  OBVIOUS
<1>2. /\ A[0] = Which(p, 0) /\ B[0] = Which(q, 0)
      /\ \A k \in 0..n : Which(p, k) \in Nat /\ Which(q, k) \in Nat
      /\ \A k \in 1..n : /\ A[k] \in 0..(shape[k] - 1) /\ B[k] \in 0..(shape[k] - 1)
                         /\ Which(p, k) = Which(p, k - 1) * shape[k] + A[k]
                         /\ Which(q, k) = Which(q, k - 1) * shape[k] + B[k]
                         /\ Which(p, k - 1) = Which(p, k) \div shape[k]
                         /\ Which(q, k - 1) = Which(q, k) \div shape[k]
  BY Digits
<1> HIDE DEF A, B
<1>3. ASSUME \A k \in 0..d : A[k] = B[k]
      PROVE  Which(p, d) = Which(q, d)
  <2> DEFINE S == {k \in 0..d : Which(p, k) = Which(q, k)}
  <2>1. 0 \in S
    BY <1>1, <1>2, <1>3
  <2>2. \A k \in 0..(d - 1) : k \in S => k + 1 \in S
    <3> SUFFICES ASSUME NEW k \in 0..(d - 1), Which(p, k) = Which(q, k)
                 PROVE  k + 1 \in 0..d /\ Which(p, k + 1) = Which(q, k + 1)
      OBVIOUS
    <3>1. k + 1 \in 0..d /\ k + 1 \in 1..n /\ (k + 1) - 1 = k
      BY <1>1
    <3> QED
      BY <1>2, <1>3, <3>1
  <2> HIDE DEF S
  <2>3. 0..d \subseteq S
    BY <1>1, <2>1, <2>2, InductionUpTo
  <2> QED
    BY <1>1, <2>3 DEF S
<1>4. ASSUME Which(p, d) = Which(q, d)
      PROVE  \A k \in 0..d : A[k] = B[k]
  <2> DEFINE S == {j \in 0..d : Which(p, d - j) = Which(q, d - j)}
  <2>1. 0 \in S
    BY <1>1, <1>4
  <2>2. \A j \in 0..(d - 1) : j \in S => j + 1 \in S
    <3> SUFFICES ASSUME NEW j \in 0..(d - 1), Which(p, d - j) = Which(q, d - j)
                 PROVE  j + 1 \in 0..d /\ Which(p, d - (j + 1)) = Which(q, d - (j + 1))
      OBVIOUS
    <3>1. j + 1 \in 0..d /\ d - j \in 1..n /\ d - (j + 1) = (d - j) - 1
      BY <1>1
    <3> QED
      BY <1>2, <3>1
  <2> HIDE DEF S
  <2>3. 0..d \subseteq S
    BY <1>1, <2>1, <2>2, InductionUpTo
  <2>4. \A k \in 0..d : Which(p, k) = Which(q, k)
    <3> SUFFICES ASSUME NEW k \in 0..d PROVE Which(p, k) = Which(q, k)
      OBVIOUS
    <3>1. d - k \in 0..d /\ d - (d - k) = k
      BY <1>1
    <3> QED
      BY <2>3, <3>1 DEF S
  <2> SUFFICES ASSUME NEW k \in 0..d PROVE A[k] = B[k]
    OBVIOUS
  <2>5. CASE k = 0
    BY <1>1, <1>2, <2>4, <2>5
  <2>6. CASE k # 0
    <3>1. k \in 1..n /\ k - 1 \in 0..n /\ k \in 0..d /\ k - 1 \in 0..d
      BY <1>1, <2>6
    <3> DEFINE w == Which(p, k - 1) * shape[k]
    <3>2. w \in Nat /\ shape[k] \in Nat
      <4>1. Which(p, k - 1) \in Nat
        BY <1>2, <3>1
      <4>2. shape[k] \in Nat
        BY <1>1, <3>1 DEF Pos
      <4> QED
        BY <4>1, <4>2
    <3>3. /\ A[k] \in Int /\ B[k] \in Int
          /\ Which(p, k) = w + A[k] /\ Which(p, k) = w + B[k]
      <4>1. Which(p, k) = Which(q, k) /\ Which(p, k - 1) = Which(q, k - 1)
        BY <2>4, <3>1
      <4>2. Which(p, k) = Which(p, k - 1) * shape[k] + A[k]
        BY <1>2, <3>1
      <4>3. Which(q, k) = Which(q, k - 1) * shape[k] + B[k]
        BY <1>2, <3>1
      <4>4. A[k] \in 0..(shape[k] - 1) /\ B[k] \in 0..(shape[k] - 1)
        BY <1>2, <3>1
      <4>5. A[k] \in Int /\ B[k] \in Int
        BY <3>2, <4>4
      <4> QED
        BY <4>1, <4>2, <4>3, <4>5
    <3> HIDE DEF w
    <3> QED
      BY <3>2, <3>3
  <2> QED
    BY <2>5, <2>6
<1> QED
  BY <1>3, <1>4 DEF A, B

\* The indices tell positions apart.
LEMMA IndicesDiffer ==
    ASSUME shape \in Seq(Pos), totelems = Product(shape), NEW p \in Nat, NEW q \in Nat,
           IndicesAt(p) = IndicesAt(q)
    PROVE  p = q
<1>1. Len(shape) \in 0..Len(shape)
  OBVIOUS
<1>2. Which(p, Len(shape)) = p /\ Which(q, Len(shape)) = q
  BY Digits
<1> QED
  BY <1>1, <1>2, CommonIndices

\* Where the sub-array of d indices starts that a position is in.
StartOf(p, d) == Which(p, d) * RowSize(d)

\* Each index moves on from the start of a sub-array to that of a smaller one.
LEMMA StartSteps ==
    ASSUME shape \in Seq(Pos), totelems = Product(shape), NEW p \in Nat
    PROVE  /\ \A d \in 0..Len(shape) : /\ StartOf(p, d) \in Nat
                                       /\ p % RowSize(d) \in Nat
                                       /\ p = StartOf(p, d) + (p % RowSize(d))
           /\ StartOf(p, Len(shape)) = p
           /\ \A d \in 1..Len(shape) :
                /\ IndicesAt(p)[d] * RowSize(d) \in Nat
                /\ StartOf(p, d) = StartOf(p, d - 1) + IndicesAt(p)[d] * RowSize(d)
<1> DEFINE n == Len(shape)
<1>1. n \in Nat /\ n \in 0..n /\ \A d \in 1..n : shape[d] \in Pos
  OBVIOUS
<1>2. \A d \in 0..n : RowSize(d) \in Pos /\ Which(p, d) \in Nat
  BY RowSizes, Digits
<1>3. ASSUME NEW d \in 0..n
      PROVE  /\ StartOf(p, d) \in Nat
             /\ p % RowSize(d) \in Nat
             /\ p = StartOf(p, d) + (p % RowSize(d))
  <2> DEFINE a == RowSize(d)
  <2>1. a \in Pos
    BY <1>2
  <2>2. StartOf(p, d) = (p \div a) * a
    BY DEF StartOf, Which
  <2> HIDE DEF a
  <2>3. p \div a \in Nat /\ p % a \in 0..(a - 1) /\ p = (p \div a) * a + (p % a)
    BY <2>1, DivMod
  <2>4. (p \div a) * a \in Nat /\ p % a \in Nat
    BY <2>1, <2>3 DEF Pos
  <2> QED
    BY <2>2, <2>3, <2>4 DEF a
<1>4. StartOf(p, n) = p
  BY <1>1, RowSizes, Digits DEF StartOf
<1>5. ASSUME NEW d \in 1..n
      PROVE  /\ IndicesAt(p)[d] * RowSize(d) \in Nat
             /\ StartOf(p, d) = StartOf(p, d - 1) + IndicesAt(p)[d] * RowSize(d)
  <2> DEFINE w == Which(p, d - 1)
             s == shape[d]
             i == IndicesAt(p)[d]
             a == RowSize(d)
  <2>1. d \in 0..n /\ d - 1 \in 0..(n - 1) /\ d - 1 \in 0..n /\ (d - 1) + 1 = d
    BY <1>1
  <2>2. w \in Nat /\ s \in Nat /\ a \in Nat
    BY <1>1, <1>2, <2>1 DEF Pos
  <2>3. i \in Nat
    BY <2>1, Digits
  <2>4. Which(p, d) = w * s + i
    BY Digits
  <2>5. RowSize(d - 1) = s * a
    BY <2>1, RowSizes
  <2>6. StartOf(p, d) = (w * s + i) * a /\ StartOf(p, d - 1) = w * (s * a)
    BY <2>4, <2>5 DEF StartOf
  <2> HIDE DEF w, s, i, a
  <2>7. (w * s + i) * a = (w * s) * a + i * a /\ (w * s) * a = w * (s * a) /\ i * a \in Nat
    BY <2>2, <2>3
  <2> QED
    BY <2>6, <2>7 DEF i, a
<1> QED
  BY <1>3, <1>4, <1>5

\* At the start of a sub-array the further indices are zero, and only there.
LEMMA StartsWhere ==
    ASSUME shape \in Seq(Pos), totelems = Product(shape), NEW p \in Nat,
           NEW d \in 0..Len(shape)
    PROVE  (p % RowSize(d) = 0) <=> \A k \in (d + 1)..Len(shape) : IndicesAt(p)[k] = 0
<1> DEFINE n == Len(shape)
           m == n - d
           Part(k) == IndicesAt(p)[k] * RowSize(k)
<1>1. n \in Nat /\ d \in Nat /\ m \in Nat /\ d + m = n
  OBVIOUS
<1>2. /\ \A k \in 0..n : StartOf(p, k) \in Nat /\ p % RowSize(k) \in Nat
                         /\ p = StartOf(p, k) + (p % RowSize(k))
      /\ StartOf(p, n) = p
      /\ \A k \in 1..n : Part(k) \in Nat /\ StartOf(p, k) = StartOf(p, k - 1) + Part(k)
  BY StartSteps
<1>3. \A k \in 1..n : Part(k) = 0 <=> IndicesAt(p)[k] = 0
  <2> SUFFICES ASSUME NEW k \in 1..n PROVE Part(k) = 0 <=> IndicesAt(p)[k] = 0
    OBVIOUS
  <2> DEFINE i == IndicesAt(p)[k]
             a == RowSize(k)
  <2>1. k \in 0..n
    BY <1>1
  <2>2. i \in Nat /\ a \in Pos
    BY <2>1, Digits, RowSizes
  <2> HIDE DEF i, a
  <2>3. i * a = 0 <=> i = 0
    BY <2>2 DEF Pos
  <2> QED
    BY <2>3 DEF i, a
<1> HIDE DEF Part, n
<1>4. ASSUME \A k \in (d + 1)..n : IndicesAt(p)[k] = 0
      PROVE  p % RowSize(d) = 0
  <2> DEFINE S == {j \in 0..m : StartOf(p, d + j) = StartOf(p, d)}
  <2>1. 0 \in S
    BY <1>1
  <2>2. \A j \in 0..(m - 1) : j \in S => j + 1 \in S
    <3> SUFFICES ASSUME NEW j \in 0..(m - 1), StartOf(p, d + j) = StartOf(p, d)
                 PROVE  j + 1 \in 0..m /\ StartOf(p, d + (j + 1)) = StartOf(p, d)
      OBVIOUS
    <3>1. /\ j + 1 \in 0..m /\ d + (j + 1) \in (d + 1)..n /\ d + (j + 1) \in 1..n
          /\ (d + (j + 1)) - 1 = d + j /\ d + j \in 0..n
      BY <1>1 DEF n
    <3>2. Part(d + (j + 1)) = 0
      BY <1>3, <1>4, <3>1
    <3> QED
      BY <1>2, <3>1, <3>2
  <2> HIDE DEF S, m
  <2>3. 0..m \subseteq S
    BY <1>1, <2>1, <2>2, InductionUpTo
  <2>4. StartOf(p, d) = p
    <3>1. m \in S
      BY <1>1, <2>3
    <3>2. StartOf(p, n) = StartOf(p, d)
      BY <1>1, <3>1 DEF S
    <3> QED
      BY <1>2, <3>2
  <2>5. d \in 0..n
    BY DEF n
  <2> QED
    BY <1>2, <2>4, <2>5
<1>5. ASSUME p % RowSize(d) = 0
      PROVE  \A k \in (d + 1)..n : IndicesAt(p)[k] = 0
  <2> DEFINE S == {j \in 0..m : StartOf(p, d + j) = p}
  <2>0. d \in 0..n
    BY DEF n
  <2>1. 0 \in S
    BY <1>1, <1>2, <1>5, <2>0
  <2>2. \A j \in 0..(m - 1) : j \in S => j + 1 \in S
    <3> SUFFICES ASSUME NEW j \in 0..(m - 1), StartOf(p, d + j) = p
                 PROVE  j + 1 \in 0..m /\ StartOf(p, d + (j + 1)) = p
      OBVIOUS
    <3>1. /\ j + 1 \in 0..m /\ d + (j + 1) \in 1..n /\ d + (j + 1) \in 0..n
          /\ (d + (j + 1)) - 1 = d + j
      BY <1>1 DEF n
    <3>2. StartOf(p, d + (j + 1)) = p + Part(d + (j + 1)) /\ Part(d + (j + 1)) \in Nat
      BY <1>2, <3>1
    <3>3. StartOf(p, d + (j + 1)) \in Nat /\ p % RowSize(d + (j + 1)) \in Nat
          /\ p = StartOf(p, d + (j + 1)) + (p % RowSize(d + (j + 1)))
      BY <1>2, <3>1
    <3> QED
      BY <3>1, <3>2, <3>3
  <2> HIDE DEF S, m
  <2>3. 0..m \subseteq S
    BY <1>1, <2>1, <2>2, InductionUpTo
  <2> SUFFICES ASSUME NEW k \in (d + 1)..n PROVE IndicesAt(p)[k] = 0
    OBVIOUS
  <2>4. /\ k \in 1..n /\ k \in 0..n /\ k - 1 \in 0..n
        /\ k - d \in 0..m /\ (k - 1) - d \in 0..m
        /\ d + (k - d) = k /\ d + ((k - 1) - d) = k - 1
    BY <1>1 DEF n, m
  <2>5. StartOf(p, k) = p /\ StartOf(p, k - 1) = p
    BY <2>3, <2>4 DEF S
  <2>6. p = p + Part(k) /\ Part(k) \in Nat
    BY <1>2, <2>4, <2>5
  <2>7. Part(k) = 0
    BY <2>6
  <2> QED
    BY <1>3, <2>4, <2>7
<1> QED
  BY <1>4, <1>5 DEF n

\* The largest of some numbers up to a bound.
LEMMA MaxUpTo ==
    ASSUME NEW d \in Nat, NEW M \in SUBSET (0..d), 0 \in M
    PROVE  Max(M) \in M /\ \A y \in M : y <= Max(M)
<1> DEFINE Has(k) == \E m \in M : m <= k /\ \A y \in M : y <= k => y <= m
           S == {k \in 0..d : Has(k)}
<1>1. 0 \in S
  OBVIOUS
<1>2. ASSUME NEW k \in 0..(d - 1), k \in S PROVE k + 1 \in S
  <2>1. PICK m \in M : m <= k /\ \A y \in M : y <= k => y <= m
    BY <1>2
  <2>2. Has(k + 1)
    <3>1. CASE k + 1 \in M
      <4>1. k + 1 <= k + 1 /\ \A y \in M : y <= k + 1 => y <= k + 1
        OBVIOUS
      <4> QED
        BY <3>1, <4>1
    <3>2. CASE k + 1 \notin M
      <4>1. m <= k + 1 /\ \A y \in M : y <= k + 1 => y <= m
        BY <2>1, <3>2
      <4> QED
        BY <4>1
    <3> QED
      BY <3>1, <3>2
  <2> QED
    BY <2>2
<1> HIDE DEF S
<1>3. 0..d \subseteq S
  BY <1>1, <1>2, InductionUpTo
<1>4. PICK m \in M : \A y \in M : y <= m
  <2>1. d \in S
    BY <1>3
  <2> QED
    BY <2>1 DEF S
<1>5. \E x \in M : \A y \in M : x >= y
  BY <1>4
<1>6. Max(M) \in M /\ \A y \in M : Max(M) >= y
  BY <1>5 DEF Max
<1> QED
  BY <1>6

\* The start of the next sub-array of d indices has the indices that the
\* description of initialisers says follow.
LEMMA NextSubarray ==
    ASSUME shape \in Seq(Pos), totelems = Product(shape), NEW p \in Nat,
           NEW d \in 0..Len(shape)
    PROVE  Meaning!Following(IndicesAt(p), d) = IndicesAt((Which(p, d) + 1) * RowSize(d))
<1> DEFINE n == Len(shape)
           x == Which(p, d) + 1
           q == x * RowSize(d)
           A == IndicesAt(p)
           B == IndicesAt(q)
           M == {k \in 1..d : A[k] + 1 < shape[k]} \cup {0}
           m == Max(M)
           C == [k \in DOMAIN A |-> IF k < m THEN A[k] ELSE IF k = m THEN A[k] + 1 ELSE 0]
<1>1. n \in Nat /\ d \in Nat /\ d <= n /\ \A k \in 1..n : shape[k] \in Pos /\ shape[k] \in Nat
  BY DEF Pos
<1>2. Meaning!Following(A, d) = C
  BY DEF Meaning!Following, Meaning!Max, Max
<1>3. RowSize(d) \in Pos /\ x \in Nat
  BY RowSizes, Digits
<1> HIDE DEF x
<1>4. q \in Nat /\ Which(q, d) = x /\ q % RowSize(d) = 0
  <2> DEFINE a == RowSize(d)
  <2>1. a \in Pos
    BY <1>3
  <2> HIDE DEF a
  <2>2. x * a \in Nat /\ x * a = x * a + 0 /\ 0 < a /\ 0 \in Nat
    BY <1>3, <2>1 DEF Pos
  <2>3. (x * a) \div a = x /\ (x * a) % a = 0
    BY <1>3, <2>1, <2>2, DivUnique
  <2> QED
    BY <2>2, <2>3 DEF a, Which
<1> HIDE DEF q, n
<1>5. /\ A \in [0..n -> Nat] /\ A[0] = Which(p, 0)
      /\ \A k \in 0..n : Which(p, k) \in Nat
      /\ \A k \in 1..n : /\ A[k] \in 0..(shape[k] - 1)
                         /\ Which(p, k) = Which(p, k - 1) * shape[k] + A[k]
                         /\ Which(p, k - 1) = Which(p, k) \div shape[k]
  BY Digits DEF n
<1>6. /\ B \in [0..n -> Nat] /\ B[0] = Which(q, 0)
      /\ \A k \in 0..n : Which(q, k) \in Nat
      /\ \A k \in 1..n : /\ B[k] \in 0..(shape[k] - 1)
                         /\ Which(q, k) = Which(q, k - 1) * shape[k] + B[k]
                         /\ Which(q, k - 1) = Which(q, k) \div shape[k]
  BY <1>4, Digits DEF n
<1> HIDE DEF A, B
<1>7. m \in M /\ m \in 0..d /\ \A y \in M : y <= m
  <2>1. M \in SUBSET (0..d) /\ 0 \in M
    BY <1>1
  <2> HIDE DEF M
  <2> QED
    BY <1>1, <2>1, MaxUpTo
\* indices after m are at their last value
<1>8. \A k \in (m + 1)..d : A[k] + 1 = shape[k]
  <2> SUFFICES ASSUME NEW k \in (m + 1)..d PROVE A[k] + 1 = shape[k]
    OBVIOUS
  <2>1. k \in 1..d /\ k \in 1..n /\ ~ (k <= m)
    BY <1>1, <1>7
  <2>2. ~ (A[k] + 1 < shape[k])
    BY <1>7, <2>1
  <2>3. A[k] \in 0..(shape[k] - 1) /\ shape[k] \in Nat
    BY <1>1, <1>5, <2>1
  <2> QED
    BY <2>2, <2>3
<1>9. m \in 0..n /\ (m # 0 => m \in 1..d /\ m \in 1..n /\ A[m] + 1 < shape[m])
  BY <1>1, <1>7
<1> HIDE DEF m, M
\* so that all of them are carried over
<1>10. ASSUME NEW k \in (m + 1)..d, Which(q, k) = Which(p, k) + 1
       PROVE  Which(q, k - 1) = Which(p, k - 1) + 1 /\ B[k] = 0
  <2> DEFINE s == shape[k]
             w == Which(p, k - 1)
  <2>1. k \in 1..n /\ k - 1 \in 0..n /\ k \in 0..n
    BY <1>1, <1>9
  <2>2. s \in Pos /\ w \in Nat /\ A[k] + 1 = s /\ A[k] \in Nat
    <3>1. k \in 0..n
      BY <2>1
    <3> QED
      BY <1>1, <1>5, <1>8, <2>1
  <2>3. Which(p, k) = w * s + A[k] /\ Which(q, k) \in Nat
        /\ Which(q, k - 1) = Which(q, k) \div s
    BY <1>5, <1>6, <2>1
  <2>4. Which(q, k - 1) \in Nat /\ B[k] \in Nat /\ Which(q, k) = Which(q, k - 1) * s + B[k]
        /\ B[k] < s
    <3>1. B[k] \in 0..(s - 1) /\ Which(q, k - 1) \in Nat
          /\ Which(q, k) = Which(q, k - 1) * s + B[k]
      BY <1>6, <2>1
    <3> HIDE DEF s
    <3> QED
      BY <2>2, <3>1 DEF Pos
  <2> HIDE DEF s, w
  <2>5. Which(q, k) = (w + 1) * s + 0
    <3>1. Which(q, k) = w * s + s
      <4> DEFINE b == A[k]
                 y == Which(p, k)
                 z == Which(q, k)
                 t == w * s
      <4>1. t \in Nat
        BY <2>2 DEF Pos
      <4>2. b \in Nat /\ b + 1 = s /\ y = t + b /\ z = y + 1 /\ s \in Nat
        BY <1>10, <2>2, <2>3 DEF Pos
      <4> HIDE DEF b, y, z, t
      <4>3. z = t + s
        BY <4>1, <4>2
      <4> QED
        BY <4>3 DEF z, t
    <3>2. w * s + s = (w + 1) * s + 0
      BY <2>2 DEF Pos
    <3> QED
      BY <3>1, <3>2
  <2>6. Which(q, k) \div s = w + 1 /\ Which(q, k) % s = 0
    <3>1. w + 1 \in Nat /\ 0 \in Nat /\ 0 < s
      BY <2>2 DEF Pos
    <3> QED
      BY <2>2, <2>3, <2>5, <3>1, DivUnique
  <2>7. Which(q, k) % s = B[k]
    <3> DEFINE y == Which(q, k)
               z == Which(q, k - 1)
               b == B[k]
    <3>1. y \in Nat /\ z \in Nat /\ b \in Nat /\ y = z * s + b /\ b < s /\ s \in Pos
      BY <2>2, <2>3, <2>4
    <3> HIDE DEF y, z, b
    <3>2. y % s = b
      BY <3>1, DivUnique
    <3> QED
      BY <3>2 DEF y, b
  <2> QED
    BY <2>3, <2>6, <2>7 DEF w
<1>11. \A k \in m..d : Which(q, k) = Which(p, k) + 1
  <2> DEFINE l == d - m
             S == {j \in 0..l : Which(q, d - j) = Which(p, d - j) + 1}
  <2>0. l \in Nat
    BY <1>1, <1>7 DEF m
  <2>1. 0 \in S
    BY <1>1, <1>4, <2>0 DEF x
  <2>2. \A j \in 0..(l - 1) : j \in S => j + 1 \in S
    <3> SUFFICES ASSUME NEW j \in 0..(l - 1), Which(q, d - j) = Which(p, d - j) + 1
                 PROVE  j + 1 \in 0..l /\ Which(q, d - (j + 1)) = Which(p, d - (j + 1)) + 1
      OBVIOUS
    <3>1. j + 1 \in 0..l /\ d - j \in (m + 1)..d /\ (d - j) - 1 = d - (j + 1)
      BY <1>1, <1>7
    <3> QED
      BY <1>10, <3>1
  <2> HIDE DEF S
  <2>3. 0..l \subseteq S
    BY <2>0, <2>1, <2>2, InductionUpTo
  <2> SUFFICES ASSUME NEW k \in m..d PROVE Which(q, k) = Which(p, k) + 1
    OBVIOUS
  <2>4. d - k \in 0..l /\ d - (d - k) = k
    BY <1>1, <1>7
  <2> QED
    BY <2>3, <2>4 DEF S
<1>12. \A k \in (m + 1)..d : B[k] = 0
  <2>1. \A k \in (m + 1)..d : k \in m..d
    BY <1>1, <1>7
  <2> QED
    BY <1>10, <1>11, <2>1
<1>13. \A k \in (d + 1)..n : B[k] = 0
  BY <1>4, StartsWhere DEF B, n
<1>14. Which(q, m) = Which(p, m) + 1
  BY <1>1, <1>7, <1>11
<1>15. B[m] = A[m] + 1 /\ (m # 0 => Which(q, m - 1) = Which(p, m - 1))
  <2>1. CASE m = 0
    BY <1>5, <1>6, <1>14, <2>1
  <2>2. CASE m # 0
    <3> DEFINE s == shape[m]
               w == Which(p, m - 1)
    <3>1. m \in 1..n /\ m - 1 \in 0..n /\ m \in 0..n /\ A[m] + 1 < s
      BY <1>1, <1>9, <2>2
    <3>2. s \in Pos /\ w \in Nat /\ A[m] \in Nat
      BY <1>1, <1>5, <3>1
    <3>3. Which(p, m) = w * s + A[m] /\ Which(q, m) \in Nat
          /\ Which(q, m - 1) = Which(q, m) \div s
      BY <1>5, <1>6, <3>1
    <3>4. Which(q, m - 1) \in Nat /\ B[m] \in Nat /\ Which(q, m) = Which(q, m - 1) * s + B[m]
          /\ B[m] < s
      <4>1. B[m] \in 0..(s - 1) /\ Which(q, m - 1) \in Nat
            /\ Which(q, m) = Which(q, m - 1) * s + B[m]
        BY <1>6, <3>1
      <4> HIDE DEF s
      <4> QED
        BY <3>2, <4>1 DEF Pos
    <3> HIDE DEF s, w
    <3>5. Which(q, m) = w * s + (A[m] + 1)
      <4>1. w * s \in Nat
        BY <3>2 DEF Pos
      <4> QED
        BY <1>14, <3>2, <3>3, <4>1
    <3>6. Which(q, m) \div s = w /\ Which(q, m) % s = A[m] + 1
      <4>1. A[m] + 1 \in Nat
        BY <3>2
      <4> QED
        BY <3>1, <3>2, <3>3, <3>5, <4>1, DivUnique
    <3>7. Which(q, m) % s = B[m]
      <4> DEFINE y == Which(q, m)
                 z == Which(q, m - 1)
                 b == B[m]
      <4>1. y \in Nat /\ z \in Nat /\ b \in Nat /\ y = z * s + b /\ b < s /\ s \in Pos
        BY <3>2, <3>3, <3>4
      <4> HIDE DEF y, z, b
      <4>2. y % s = b
        BY <4>1, DivUnique
      <4> QED
        BY <4>2 DEF y, b
    <3> QED
      BY <3>3, <3>6, <3>7 DEF w
  <2> QED
    BY <2>1, <2>2
\* and those before it stay
<1>16. \A k \in 0..(m - 1) : B[k] = A[k]
  <2>1. CASE m = 0
    BY <2>1
  <2>2. CASE m # 0
    <3>1. m - 1 \in 0..Len(shape)
      BY <1>1, <1>9, <2>2 DEF n
    <3>2. \A k \in 0..(m - 1) : IndicesAt(p)[k] = IndicesAt(q)[k]
      BY <1>4, <1>15, <2>2, <3>1, CommonIndices
    <3> QED
      BY <3>2 DEF A, B
  <2> QED
    BY <2>1, <2>2
<1>17. C = B
  <2>1. ASSUME NEW k \in 0..n
        PROVE  B[k] = IF k < m THEN A[k] ELSE IF k = m THEN A[k] + 1 ELSE 0
    <3>1. CASE k < m
      <4>1. k \in 0..(m - 1)
        BY <1>9, <3>1
      <4> QED
        BY <1>16, <3>1, <4>1
    <3>2. CASE k = m
      BY <1>9, <1>15, <3>2
    <3>3. CASE k > m
      <4>1. k \in (m + 1)..d \/ k \in (d + 1)..n
        BY <1>1, <1>9, <3>3
      <4>2. B[k] = 0
        BY <1>12, <1>13, <4>1
      <4> QED
        BY <1>9, <3>3, <4>2
    <3> QED
      BY <1>9, <3>1, <3>2, <3>3
  <2>2. DOMAIN A = 0..n /\ B = [k \in 0..n |-> B[k]]
    BY <1>5, <1>6
  <2> QED
    BY <2>1, <2>2
<1> QED
  BY <1>2, <1>17 DEF A, B, q, x

-------------------------------------------------------------------------------
(* Elements have one position each.                                        *)

\* the indices of a position in the array
Element(p) == [d \in DOMAIN shape |-> IndicesAt(p)[d]]

\* A position of the array is that of its indices.
LEMMA PositionHasElement ==
    ASSUME shape \in Seq(Pos), totelems = Product(shape), NEW p \in Nat, Which(p, 0) = 0
    PROVE  Element(p) \in IndexVectors /\ ScalarIndex(shape, Element(p)) = p
<1> DEFINE n == Len(shape)
           v == Element(p)
<1>1. n \in Nat /\ n \in 0..n /\ DOMAIN shape = 1..n /\ \A d \in 1..n : shape[d] \in Nat
  BY DEF Pos
<1>2. \A d \in 1..n : IndicesAt(p)[d] \in 0..(shape[d] - 1)
  BY Digits
<1>3. v = [d \in 1..n |-> IndicesAt(p)[d]]
  BY <1>1 DEF Element
<1> HIDE DEF v
<1>4. \A d \in 1..n : v[d] = IndicesAt(p)[d] /\ v[d] \in Nat /\ v[d] < shape[d]
  BY <1>1, <1>2, <1>3
<1>5. v \in [1..n -> Nat]
  <2> DEFINE f == IndicesAt(p)
  <2>1. \A d \in 1..n : f[d] \in Nat
    BY <1>3, <1>4
  <2> HIDE DEF f
  <2> QED
    BY <1>3, <2>1 DEF f
<1>6. v \in Seq(Nat) /\ Len(v) = n
  BY <1>1, <1>5
<1>7. v \in IndexVectors
  BY <1>4, <1>6, IndexVectorsType
<1>8. Len(v) <= Len(shape)
  BY <1>1, <1>6
<1>9. PICK o \in [0..Len(v) -> Nat] :
             /\ o[0] = 0
             /\ \A d \in 1..Len(v) : o[d] = o[d - 1] + RowSize(d) * v[d]
             /\ ScalarIndex(shape, v) = o[Len(v)]
  BY <1>6, <1>8, Offsets
<1>10. /\ o \in [0..n -> Nat] /\ o[0] = 0 /\ ScalarIndex(shape, v) = o[n]
       /\ \A d \in 1..n : o[d] = o[d - 1] + RowSize(d) * v[d]
  BY <1>6, <1>9
<1>11. /\ StartOf(p, n) = p
       /\ \A d \in 1..n : StartOf(p, d) = StartOf(p, d - 1) + v[d] * RowSize(d)
  BY <1>4, StartSteps
<1>12. \A d \in 1..n : RowSize(d) * v[d] = v[d] * RowSize(d)
  <2> SUFFICES ASSUME NEW d \in 1..n PROVE RowSize(d) * v[d] = v[d] * RowSize(d)
    OBVIOUS
  <2>1. d \in 0..n
    BY <1>1
  <2>2. RowSize(d) \in Nat /\ v[d] \in Nat
    BY <1>4, <2>1, RowSizes DEF Pos
  <2> QED
    BY <2>2
<1> DEFINE S == {d \in 0..n : o[d] = StartOf(p, d)}
<1>13. 0 \in S
  <2>1. 0 \in 0..n
    BY <1>1
  <2>2. RowSize(0) \in Nat
    BY <2>1, RowSizes DEF Pos
  <2>3. StartOf(p, 0) = 0
    BY <2>2 DEF StartOf
  <2> QED
    BY <1>10, <2>1, <2>3
<1>14. \A d \in 0..(n - 1) : d \in S => d + 1 \in S
  <2> SUFFICES ASSUME NEW d \in 0..(n - 1), o[d] = StartOf(p, d)
               PROVE  d + 1 \in 0..n /\ o[d + 1] = StartOf(p, d + 1)
    OBVIOUS
  <2>1. d + 1 \in 1..n /\ (d + 1) - 1 = d /\ d + 1 \in 0..n
    BY <1>1
  <2> QED
    BY <1>10, <1>11, <1>12, <2>1
<1> HIDE DEF S
<1>15. 0..n \subseteq S
  BY <1>1, <1>13, <1>14, InductionUpTo
<1>16. n \in S
  BY <1>1, <1>15
<1>17. ScalarIndex(shape, v) = p
  BY <1>10, <1>11, <1>16 DEF S
<1> QED
  BY <1>7, <1>17 DEF v

\* Indices lead to a position in the array that has these indices.
LEMMA ElementHasPosition ==
    ASSUME shape \in Seq(Pos), totelems = Product(shape), NEW v \in IndexVectors
    PROVE  LET o == ScalarIndex(shape, v)
           IN  o \in Nat /\ Which(o, 0) = 0 /\ Element(o) = v
<1> DEFINE n == Len(shape)
           p == ScalarIndex(shape, v)
<1>1. n \in Nat /\ n \in 0..n /\ DOMAIN shape = 1..n /\ \A d \in 1..n : shape[d] \in Pos
  OBVIOUS
<1>2. v \in Seq(Nat) /\ Len(v) = n /\ \A d \in 1..n : v[d] < shape[d]
  BY IndexVectorsType
<1>3. Len(v) <= Len(shape)
  BY <1>1, <1>2
<1>4. PICK o \in [0..Len(v) -> Nat] :
             /\ o[0] = 0
             /\ \A d \in 1..Len(v) : o[d] = o[d - 1] + RowSize(d) * v[d]
             /\ ScalarIndex(shape, v) = o[Len(v)]
  BY <1>2, <1>3, Offsets
<1>5. /\ o \in [0..n -> Nat] /\ o[0] = 0 /\ p = o[n] /\ p \in Nat
      /\ \A d \in 1..n : o[d] = o[d - 1] + RowSize(d) * v[d]
  BY <1>1, <1>2, <1>4
<1>6. \A d \in 1..n : v[d] \in Nat
  BY <1>2
<1>7. /\ \A d \in 0..n : RowSize(d) \in Pos
      /\ \A d \in 0..(n - 1) : RowSize(d) = shape[d + 1] * RowSize(d + 1)
      /\ RowSize(n) = 1
  BY RowSizes
<1> HIDE DEF n, p
\* each offset is a multiple of the size of a row
<1>8. ASSUME NEW d \in 0..(n - 1), NEW w \in Nat, o[d] = w * RowSize(d)
      PROVE  d + 1 \in 1..n /\ o[d + 1] = (w * shape[d + 1] + v[d + 1]) * RowSize(d + 1)
  <2>1. d + 1 \in 1..n /\ d + 1 \in 0..n /\ (d + 1) - 1 = d
    BY <1>1
  <2> DEFINE s == shape[d + 1]
             a == RowSize(d + 1)
             i == v[d + 1]
  <2>2. s \in Nat /\ a \in Nat /\ i \in Nat
    BY <1>1, <1>6, <1>7, <2>1 DEF Pos
  <2>3. o[d + 1] = w * (s * a) + a * i
    BY <1>5, <1>7, <1>8, <2>1
  <2> HIDE DEF s, a, i
  <2>4. w * (s * a) + a * i = (w * s + i) * a
    <3>1. w * (s * a) = (w * s) * a /\ w * s \in Nat
      BY <2>2
    <3>2. (w * s + i) * a = (w * s) * a + i * a
      BY <2>2, <3>1
    <3>3. a * i = i * a
      BY <2>2
    <3> QED
      BY <3>1, <3>2, <3>3
  <2> QED
    BY <2>1, <2>3, <2>4 DEF s, a, i
<1> DEFINE w == [d \in 0..n |-> o[d] \div RowSize(d)]
           S == {d \in 0..n : o[d] = w[d] * RowSize(d)}
<1>9. ASSUME NEW d \in 0..n, NEW x \in Nat, o[d] = x * RowSize(d)
      PROVE  w[d] = x
  <2> DEFINE a == RowSize(d)
  <2>1. a \in Pos /\ o[d] \in Nat /\ w[d] = o[d] \div a
    BY <1>5, <1>7
  <2>2. o[d] = x * a
    BY <1>9
  <2> HIDE DEF a, w
  <2>3. o[d] = x * a + 0 /\ 0 \in Nat /\ 0 < a
    BY <2>1, <2>2 DEF Pos
  <2>4. o[d] \div a = x
    BY <2>1, <2>3, DivUnique
  <2> QED
    BY <2>1, <2>4
<1> HIDE DEF w
<1>10. 0 \in S /\ w[0] = 0
  <2>1. 0 \in 0..n /\ RowSize(0) \in Nat
    BY <1>1, <1>7 DEF Pos
  <2>2. o[0] = 0 * RowSize(0)
    BY <1>5, <2>1
  <2>3. w[0] = 0
    BY <1>9, <2>1, <2>2
  <2> QED
    BY <2>1, <2>2, <2>3
<1>11. \A d \in 0..n : w[d] \in Nat
  <2> SUFFICES ASSUME NEW d \in 0..n PROVE w[d] \in Nat
    OBVIOUS
  <2>1. o[d] \in Nat /\ RowSize(d) \in Pos
    BY <1>5, <1>7
  <2> QED
    BY <2>1, DivType DEF w
<1>12. ASSUME NEW d \in 0..(n - 1), d \in S
       PROVE  d + 1 \in S /\ w[d + 1] = w[d] * shape[d + 1] + v[d + 1]
  <2>1. d + 1 \in 1..n /\ d + 1 \in 0..n /\ d \in 0..n
    BY <1>1
  <2> DEFINE x == w[d]
             y == x * shape[d + 1] + v[d + 1]
  <2>2. x \in Nat /\ o[d] = x * RowSize(d)
    BY <1>11, <1>12, <2>1
  <2>3. shape[d + 1] \in Nat /\ v[d + 1] \in Nat
    BY <1>1, <1>6, <2>1 DEF Pos
  <2>4. y \in Nat
    BY <2>2, <2>3, StepType
  <2> HIDE DEF x
  <2>5. o[d + 1] = y * RowSize(d + 1)
    BY <1>8, <2>2
  <2> HIDE DEF y
  <2>6. w[d + 1] = y
    BY <1>9, <2>1, <2>4, <2>5
  <2> QED
    BY <2>1, <2>5, <2>6 DEF x, y
<1> HIDE DEF S
<1>13. 0..n \subseteq S
  BY <1>1, <1>10, <1>12, InductionUpTo
<1>14. \A d \in 1..n : d - 1 \in 0..(n - 1) /\ w[d] = w[d - 1] * shape[d] + v[d]
  <2> SUFFICES ASSUME NEW d \in 1..n
               PROVE  d - 1 \in 0..(n - 1) /\ w[d] = w[d - 1] * shape[d] + v[d]
    OBVIOUS
  <2>1. d - 1 \in 0..(n - 1) /\ d - 1 \in 0..n /\ (d - 1) + 1 = d
    BY <1>1
  <2> QED
    BY <1>12, <1>13, <2>1
<1>15. w[n] = p
  <2>1. p = p * RowSize(n)
    BY <1>5, <1>7
  <2> QED
    BY <1>1, <1>5, <1>9, <2>1
\* so that it counts the sub-arrays before the position
<1>16. /\ IndicesAt(p) \in [0..n -> Nat]
       /\ \A d \in 0..n : Which(p, d) \in Nat
       /\ Which(p, n) = p
       /\ \A d \in 1..n : /\ IndicesAt(p)[d] \in 0..(shape[d] - 1)
                          /\ Which(p, d) = Which(p, d - 1) * shape[d] + IndicesAt(p)[d]
                          /\ Which(p, d - 1) = Which(p, d) \div shape[d]
  BY <1>5, Digits DEF n
<1>17. ASSUME NEW d \in 1..n, Which(p, d) = w[d]
       PROVE  Which(p, d - 1) = w[d - 1] /\ IndicesAt(p)[d] = v[d]
  <2> DEFINE s == shape[d]
             y == w[d]
             z == w[d - 1]
             i == v[d]
             f == IndicesAt(p)[d]
             t == Which(p, d - 1)
  <2>1. d \in 0..n /\ d - 1 \in 0..n
    BY <1>1
  <2>2. y \in Nat /\ z \in Nat /\ i \in Nat /\ s \in Pos /\ i < s /\ y = z * s + i
    BY <1>1, <1>2, <1>6, <1>11, <1>14, <2>1
  <2>3. t = y \div s /\ y = t * s + f /\ f \in 0..(s - 1) /\ t \in Nat
    BY <1>16, <1>17, <2>1
  <2> HIDE DEF s, y, z, i, f, t
  <2>4. y \div s = z /\ y % s = i
    BY <2>2, DivUnique
  <2>5. f \in Nat /\ f < s
    BY <2>2, <2>3 DEF Pos
  <2>6. y % s = f
    BY <2>2, <2>3, <2>5, DivUnique
  <2> QED
    BY <2>3, <2>4, <2>6 DEF t, z, f, i
<1> DEFINE D == {j \in 0..n : Which(p, n - j) = w[n - j]}
<1>18. 0 \in D
  BY <1>1, <1>15, <1>16
<1>19. \A j \in 0..(n - 1) : j \in D => j + 1 \in D
  <2> SUFFICES ASSUME NEW j \in 0..(n - 1), Which(p, n - j) = w[n - j]
               PROVE  j + 1 \in 0..n /\ Which(p, n - (j + 1)) = w[n - (j + 1)]
    OBVIOUS
  <2>1. j + 1 \in 0..n /\ n - j \in 1..n /\ (n - j) - 1 = n - (j + 1)
    BY <1>1
  <2> QED
    BY <1>17, <2>1
<1> HIDE DEF D
<1>20. 0..n \subseteq D
  BY <1>1, <1>18, <1>19, InductionUpTo
<1>21. \A d \in 0..n : Which(p, d) = w[d]
  <2> SUFFICES ASSUME NEW d \in 0..n PROVE Which(p, d) = w[d]
    OBVIOUS
  <2>1. n - d \in 0..n /\ n - (n - d) = d
    BY <1>1
  <2> QED
    BY <1>20, <2>1 DEF D
<1>22. Which(p, 0) = 0
  <2>1. 0 \in 0..n
    BY <1>1
  <2> QED
    BY <1>10, <1>21, <2>1
<1>23. \A d \in 1..n : d \in 0..n
  BY <1>1
<1>24. \A d \in 1..n : IndicesAt(p)[d] = v[d]
  BY <1>17, <1>21, <1>23
<1>25. Element(p) = v
  <2>1. Element(p) = [d \in 1..n |-> IndicesAt(p)[d]]
    BY <1>1 DEF Element
  <2>2. v = [d \in 1..n |-> v[d]]
    BY <1>2
  <2> QED
    BY <1>24, <2>1, <2>2
<1> QED
  BY <1>5, <1>22, <1>25 DEF p

-------------------------------------------------------------------------------
(* The refinement.                                                         *)

\* what the description of initialisers sees
Cursor   == IndicesAt(calcpos)
Lists    == [i \in DOMAIN calls |-> IndicesAt(calls[i].posbegin)]
Elements == [v \in IndexVectors |-> value[ScalarIndex(shape, v)]]
AllAligned == \A list \in begun : Aligned(list)
Status   == IF \E list \in begun : ~ Aligned(list) THEN "no meaning" ELSE status

\* Lists that are open have begun, none of them after calcpos.
ListsBegun ==
    \A i \in 1..Len(calls) : /\ [dim |-> i - 1, pos |-> calls[i].posbegin] \in begun
                             /\ calls[i].posbegin <= calcpos

LayoutInv == IInv /\ TypeOK /\ Sizes /\ ListsBegun

\* What a step is seen as only depends on what it changes.
LEMMA SameShape ==
    ASSUME UNCHANGED <<shape, totelems>>
    PROVE  /\ Cursor' = IndicesAt(calcpos')
           /\ Lists' = [i \in DOMAIN calls' |-> IndicesAt(calls'[i].posbegin)]
           /\ Elements' = [v \in IndexVectors |-> value'[ScalarIndex(shape, v)]]
           /\ Status' = IF \E list \in begun' : ~ Aligned(list) THEN "no meaning" ELSE status'
<1>1. Cursor' = IndicesAt(calcpos')
  BY DEF Cursor, IndicesAt, RowSize
<1>2. Lists' = [i \in DOMAIN calls' |-> IndicesAt(calls'[i].posbegin)]
  BY DEF Lists, IndicesAt, RowSize
<1>3. Elements' = [v \in IndexVectors |-> value'[ScalarIndex(shape, v)]]
  <2>1. IndexVectors' = IndexVectors
    BY DEF IndexVectors
  <2> QED
    BY <2>1 DEF Elements
<1>4. Status' = IF \E list \in begun' : ~ Aligned(list) THEN "no meaning" ELSE status'
  BY DEF Status, Aligned, RowSize
<1> QED
  BY <1>1, <1>2, <1>3, <1>4

\* When a position has gone past a size.
LEMMA QuotientZero ==
    ASSUME NEW p \in Nat, NEW t \in Pos
    PROVE  (p \div t > 0 <=> p >= t) /\ (p \div t = 0 <=> p < t)
<1> DEFINE q == p \div t
           r == p % t
<1>1. q \in Nat /\ r \in 0..(t - 1) /\ p = q * t + r
  BY DivMod
<1> HIDE DEF q, r
<1>2. t \in Nat /\ t > 0
  BY DEF Pos
<1>3. ASSUME q = 0 PROVE p < t
  <2>1. q * t = 0
    BY <1>2, <1>3
  <2> QED
    BY <1>1, <1>2, <2>1
<1>4. ASSUME q > 0 PROVE p >= t
  <2> DEFINE u == (q - 1) * t
             w == q * t
  <2>1. u \in Nat /\ w = u + t
    BY <1>1, <1>2, <1>4
  <2>2. p = w + r
    BY <1>1
  <2> HIDE DEF u, w
  <2> QED
    BY <1>1, <1>2, <2>1, <2>2
<1>5. q = 0 \/ q > 0
  BY <1>1
<1>6. ~ (p < t /\ p >= t) /\ ~ (q = 0 /\ q > 0)
  BY <1>2
<1> QED
  BY <1>3, <1>4, <1>5, <1>6 DEF q

\* Past the last element the first index counts whole arrays.
LEMMA PastTheEnd ==
    ASSUME shape \in Seq(Pos), totelems = Product(shape), NEW p \in Nat
    PROVE  /\ Which(p, 0) > 0 <=> p >= totelems
           /\ Which(p, 0) = 0 <=> p < totelems
<1>1. totelems \in Pos /\ Which(p, 0) = p \div totelems
  BY RowSizes DEF Which
<1> QED
  BY <1>1, QuotientZero

\* Lists that are open correspond to calls of calc in progress.
LEMMA InvFacts ==
    ASSUME LayoutInv
    PROVE  /\ shape \in Seq(Pos) /\ totelems = Product(shape)
           /\ calls \in Seq(Calls) /\ calcdim = Len(calls) /\ calcdim \in 0..Len(shape)
           /\ calcpos \in Nat /\ items \in Nat
           /\ value \in [0..(totelems - 1) -> Nat]
           /\ Lists = <<>> <=> calls = <<>>
           /\ Lists \in Seq([0..Len(shape) -> Nat]) /\ Len(Lists) = Len(calls)
           /\ \A i \in 1..Len(calls) : Lists[i] = IndicesAt(calls[i].posbegin)
<1>1. /\ shape \in Seq(Pos) /\ totelems = Product(shape)
      /\ calls \in Seq(Calls) /\ calcdim = Len(calls) /\ calcdim \in 0..Len(shape)
      /\ calcpos \in Nat /\ items \in Nat
      /\ value \in [0..(totelems - 1) -> Nat]
  BY DEF LayoutInv, IInv, CallsTyped, RestFree, TypeOK, Sizes, Pos
<1>2. DOMAIN Lists = DOMAIN calls /\ DOMAIN calls = 1..Len(calls) /\ Len(calls) \in Nat
  BY <1>1 DEF Lists
<1>3. Lists = <<>> => calls = <<>>
  <2>1. Lists = <<>> => DOMAIN Lists = {}
    OBVIOUS
  <2>2. DOMAIN calls = {} => Len(calls) = 0
    BY <1>2
  <2>3. Len(calls) = 0 => calls = <<>>
    BY <1>1, EmptySeq
  <2> QED
    BY <1>2, <2>1, <2>2, <2>3
<1>4. calls = <<>> => Lists = <<>>
  <2> SUFFICES ASSUME calls = <<>> PROVE Lists = <<>>
    OBVIOUS
  <2>1. Lists = [i \in 1..0 |-> IndicesAt(calls[i].posbegin)]
    BY DEF Lists
  <2> QED
    BY <2>1
<1>5. /\ Lists \in Seq([0..Len(shape) -> Nat]) /\ Len(Lists) = Len(calls)
      /\ \A i \in 1..Len(calls) : Lists[i] = IndicesAt(calls[i].posbegin)
  <2>1. Lists = [i \in 1..Len(calls) |-> IndicesAt(calls[i].posbegin)]
    BY <1>2 DEF Lists
  <2> DEFINE T == [0..Len(shape) -> Nat]
             m == Len(calls)
  <2>2. ASSUME NEW i \in 1..m PROVE IndicesAt(calls[i].posbegin) \in T
    <3> DEFINE b == calls[i].posbegin
    <3>1. b \in Nat
      <4>1. calls[i] \in Calls
        BY <1>1, <2>2
      <4> QED
        BY <4>1 DEF Calls
    <3> HIDE DEF b
    <3>2. IndicesAt(b) \in T
      BY <1>1, <3>1, Digits
    <3> QED
      BY <3>2 DEF b
  <2>3. m \in Nat
    BY <1>1
  <2>4. Lists = [i \in 1..m |-> Lists[i]] /\ \A i \in 1..m : Lists[i] = IndicesAt(calls[i].posbegin)
    BY <2>1
  <2> HIDE DEF T, m
  <2>5. Lists \in [1..m -> T]
    BY <2>2, <2>4
  <2>6. Lists \in Seq(T) /\ Len(Lists) = m
    BY <2>3, <2>5
  <2> QED
    BY <2>4, <2>6 DEF T, m
<1> QED
  BY <1>1, <1>2, <1>3, <1>4, <1>5

\* A value put in place is a value given to the next indices.
LEMMA SingleMeans ==
    ASSUME LayoutInv, AllAligned, Single
    PROVE  Meaning!Single
<1>0. /\ shape \in Seq(Pos) /\ totelems = Product(shape)
      /\ calls \in Seq(Calls) /\ calcpos \in Nat /\ items \in Nat
      /\ value \in [0..(totelems - 1) -> Nat]
      /\ Lists = <<>> <=> calls = <<>>
  BY InvFacts
<1>1. /\ status = "reading" /\ items < MaxItems /\ (items > 0 => calls # <<>>)
      /\ items' = items + 1
      /\ UNCHANGED <<shape, totelems, calls, begun>>
  BY DEF Single, More, Refuse, statevars, calcvars
<1>2. /\ Cursor' = IndicesAt(calcpos')
      /\ Lists' = [i \in DOMAIN calls' |-> IndicesAt(calls'[i].posbegin)]
      /\ Elements' = [v \in IndexVectors |-> value'[ScalarIndex(shape, v)]]
      /\ Status' = IF \E list \in begun' : ~ Aligned(list) THEN "no meaning" ELSE status'
  BY <1>1, SameShape
<1>3. Status = status /\ Status' = status'
  BY <1>1, <1>2 DEF Status, AllAligned
<1>4. Lists' = Lists
  BY <1>1, <1>2 DEF Lists
<1>5. Status = "reading" /\ items < MaxItems /\ (items > 0 => Lists # <<>>)
  BY <1>0, <1>1, <1>3
<1>6. Cursor[0] > 0 <=> calcpos >= totelems
  BY <1>0, PastTheEnd, Digits DEF Cursor
<1>7. CASE calcpos >= totelems
  <2>1. status' = "refused" /\ calcpos' = calcpos /\ value' = value
    BY <1>7 DEF Single, Refuse, calcvars
  <2>2. Cursor' = Cursor /\ Elements' = Elements /\ Status' = "refused"
    BY <1>2, <1>3, <2>1 DEF Cursor, Elements
  <2> QED
    BY <1>1, <1>4, <1>5, <1>6, <1>7, <2>2
    DEF Meaning!Single, Meaning!More, Meaning!Reading, Meaning!Started,
        Cursor, Lists, Elements, Status
<1>8. CASE ~ (calcpos >= totelems)
  <2>1. /\ value' = [value EXCEPT ![calcpos] = items']
        /\ calcpos' = calcpos + 1
        /\ status' = IF calls = <<>> THEN "done" ELSE status
    BY <1>8 DEF Single
  <2>2. Status' = IF Lists = <<>> THEN "done" ELSE Status
    BY <1>0, <1>3, <2>1
  <2>3. Cursor' = Meaning!Following(Cursor, Len(shape))
    <3> DEFINE n == Len(shape)
    <3>1. n \in 0..n /\ RowSize(n) = 1 /\ Which(calcpos, n) = calcpos
      BY <1>0, RowSizes, Digits
    <3>2. Meaning!Following(IndicesAt(calcpos), n)
            = IndicesAt((Which(calcpos, n) + 1) * RowSize(n))
      BY <1>0, <3>1, NextSubarray
    <3> HIDE DEF n
    <3>3. (Which(calcpos, n) + 1) * RowSize(n) = calcpos + 1
      BY <1>0, <3>1
    <3> QED
      BY <1>2, <2>1, <3>2, <3>3 DEF Cursor, n
  <2>4. Elements' = [Elements EXCEPT ![[d \in DOMAIN shape |-> Cursor[d]]] = items']
    <3> DEFINE e == [d \in DOMAIN shape |-> Cursor[d]]
    <3>1. e = Element(calcpos)
      BY DEF Element, Cursor
    <3>2. Which(calcpos, 0) = 0 /\ calcpos \in 0..(totelems - 1)
      <4>1. totelems \in Nat
        BY <1>0, RowSizes DEF Pos
      <4> QED
        BY <1>0, <1>8, <4>1, PastTheEnd
    <3>3. e \in IndexVectors /\ ScalarIndex(shape, e) = calcpos
      BY <1>0, <3>1, <3>2, PositionHasElement
    <3>4. ASSUME NEW v \in IndexVectors, v # e
          PROVE  ScalarIndex(shape, v) # calcpos
      BY <1>0, <3>1, <3>4, ElementHasPosition
    <3> HIDE DEF e
    <3>5. \A v \in IndexVectors : value'[ScalarIndex(shape, v)]
             = IF v = e THEN items' ELSE value[ScalarIndex(shape, v)]
      <4> SUFFICES ASSUME NEW v \in IndexVectors
                   PROVE  value'[ScalarIndex(shape, v)]
                            = IF v = e THEN items' ELSE value[ScalarIndex(shape, v)]
        OBVIOUS
      <4> DEFINE o == ScalarIndex(shape, v)
      <4>1. o \in 0..(totelems - 1)
        <5>1. o \in Nat /\ Which(o, 0) = 0
          BY <1>0, ElementHasPosition
        <5>2. totelems \in Nat
          BY <1>0, RowSizes DEF Pos
        <5> HIDE DEF o
        <5> QED
          BY <1>0, <5>1, <5>2, PastTheEnd
      <4>2. o = calcpos <=> v = e
        BY <3>3, <3>4
      <4> HIDE DEF o
      <4> QED
        BY <1>0, <2>1, <3>2, <4>1, <4>2 DEF o
    <3>6. Elements' = [v \in IndexVectors |-> IF v = e THEN items' ELSE value[ScalarIndex(shape, v)]]
      BY <1>2, <3>5
    <3>7. [Elements EXCEPT ![e] = items']
            = [v \in IndexVectors |-> IF v = e THEN items' ELSE value[ScalarIndex(shape, v)]]
      BY <3>3 DEF Elements
    <3> QED
      BY <3>6, <3>7 DEF e
  <2> QED
    BY <1>1, <1>4, <1>5, <1>6, <1>8, <2>2, <2>3, <2>4
    DEF Meaning!Single, Meaning!More, Meaning!Reading, Meaning!Started,
        Cursor, Lists, Elements, Status
<1> QED
  BY <1>7, <1>8

\* A list begins where a sub-array does, or means nothing.
LEMMA OpenListMeans ==
    ASSUME LayoutInv, AllAligned, OpenList
    PROVE  Meaning!OpenList \/ Meaning!NoMeaning
<1> DEFINE n == Len(shape)
           d == Len(calls)
           dimsize == shape[calcdim + 1]
           call == [posbegin |-> calcpos, dimsize |-> dimsize]
           here == [dim |-> calcdim, pos |-> calcpos]
<1>0. /\ shape \in Seq(Pos) /\ totelems = Product(shape)
      /\ calls \in Seq(Calls) /\ calcdim = d /\ d \in 0..n
      /\ calcpos \in Nat /\ items \in Nat
      /\ Lists = <<>> <=> calls = <<>>
      /\ Lists \in Seq([0..n -> Nat]) /\ Len(Lists) = d
      /\ \A i \in 1..d : Lists[i] = IndicesAt(calls[i].posbegin)
  BY InvFacts
<1>1. /\ status = "reading" /\ items < MaxItems /\ (items > 0 => calls # <<>>)
      /\ items' = items + 1
      /\ UNCHANGED <<shape, totelems, value, calcpos>>
  BY DEF OpenList, More, Refuse, statevars, calcvars
<1>2. /\ Cursor' = IndicesAt(calcpos')
      /\ Lists' = [i \in DOMAIN calls' |-> IndicesAt(calls'[i].posbegin)]
      /\ Elements' = [v \in IndexVectors |-> value'[ScalarIndex(shape, v)]]
      /\ Status' = IF \E list \in begun' : ~ Aligned(list) THEN "no meaning" ELSE status'
  BY <1>1, SameShape
<1>3. Status = "reading" /\ Cursor' = Cursor /\ Elements' = Elements
  BY <1>1, <1>2 DEF Status, AllAligned, Cursor, Elements
<1>4. items > 0 => Lists # <<>>
  BY <1>0, <1>1
<1>5. Meaning!StartsSubarray(Cursor, d) <=> calcpos % RowSize(d) = 0
  <2>1. DOMAIN Cursor = 0..n
    BY DEF Cursor, IndicesAt
  <2>2. \A k \in 0..n : k > d <=> k \in (d + 1)..n
    BY <1>0
  <2>3. \A k \in (d + 1)..n : k \in 0..n
    BY <1>0
  <2>4. Meaning!StartsSubarray(Cursor, d) <=> \A k \in (d + 1)..n : Cursor[k] = 0
    BY <2>1, <2>2, <2>3 DEF Meaning!StartsSubarray
  <2>5. calcpos % RowSize(d) = 0 <=> \A k \in (d + 1)..n : IndicesAt(calcpos)[k] = 0
    BY <1>0, StartsWhere
  <2> QED
    BY <2>4, <2>5 DEF Cursor
<1>6. CASE status' = "refused" /\ UNCHANGED <<calls, begun>>
  <2>1. Status' = "refused" /\ Lists' = Lists
    BY <1>1, <1>2, <1>6 DEF AllAligned, Lists
  <2>2. CASE d = n
    <3>1. Len(Lists) = Len(shape)
      BY <1>0, <2>2
    <3>2. Meaning!OpenList
      BY <1>1, <1>3, <1>4, <2>1, <3>1
      DEF Meaning!OpenList, Meaning!More, Meaning!Reading, Meaning!Started,
          Cursor, Lists, Elements, Status
    <3> QED
      BY <3>2
  <2>3. CASE d # n
    <3>1. calcdim # n
      BY <1>0, <2>3
    <3>2. calcpos % (calcstep \div dimsize) # 0
      <4>1. \/ calcpos % (calcstep \div dimsize) # 0
            \/ status' = status
        BY <3>1 DEF OpenList
      <4> QED
        BY <1>1, <1>6, <4>1
    <3>3. d \in 0..(n - 1) /\ d + 1 \in 0..n /\ d + 1 \in 1..n
      BY <1>0, <2>3
    <3>4. calcstep \div dimsize = RowSize(d + 1)
      <4>1. calcstep = RowSize(d)
        BY <1>0 DEF LayoutInv, TypeOK
      <4>2. RowSize(d) = shape[d + 1] * RowSize(d + 1) /\ RowSize(d + 1) \in Nat
        BY <1>0, <3>3, RowSizes DEF Pos
      <4>3. dimsize \in Pos /\ dimsize = shape[d + 1]
        BY <1>0, <3>3
      <4> HIDE DEF dimsize
      <4> QED
        BY <4>1, <4>2, <4>3, Arithmetic
    <3>5. ~ Meaning!StartsSubarray(Cursor, d)
      <4>1. \E k \in ((d + 1) + 1)..n : IndicesAt(calcpos)[k] # 0
        BY <1>0, <3>2, <3>3, <3>4, StartsWhere
      <4>2. \A k \in ((d + 1) + 1)..n : k \in (d + 1)..n
        BY <1>0
      <4>3. \E k \in (d + 1)..n : IndicesAt(calcpos)[k] # 0
        BY <4>1, <4>2
      <4> QED
        BY <1>0, <1>5, <4>3, StartsWhere
    <3>6. ~ Meaning!StartsSubarray(Cursor, Len(Lists)) /\ Len(Lists) < Len(shape)
      BY <1>0, <3>3, <3>5
    <3>7. Meaning!NoMeaning
      BY <1>1, <1>3, <1>4, <2>1, <3>6
      DEF Meaning!NoMeaning, Meaning!More, Meaning!Reading, Meaning!Started,
          Cursor, Lists, Elements, Status
    <3> QED
      BY <3>7
  <2> QED
    BY <2>2, <2>3
<1>7. CASE ~ (status' = "refused" /\ UNCHANGED <<calls, begun>>)
  <2>1. /\ calcdim # n
        /\ calls' = Append(calls, call)
        /\ begun' = begun \cup {here}
        /\ status' = status
    BY <1>7 DEF OpenList, Refuse, calcvars
  <2>2. Len(Lists) # Len(shape) /\ Len(Lists) < Len(shape)
    BY <1>0, <2>1
  <2>3. Aligned(here) <=> calcpos % RowSize(d) = 0
    BY <1>0 DEF Aligned
  <2>4. CASE calcpos % RowSize(d) = 0
    <3>1. Status' = Status
      BY <1>1, <1>2, <1>3, <2>1, <2>3, <2>4 DEF AllAligned
    <3>2. Meaning!StartsSubarray(Cursor, Len(Lists))
      BY <1>0, <1>5, <2>4
    <3>3. Lists' = Append(Lists, Cursor)
      <4>1. call.posbegin = calcpos
        OBVIOUS
      <4> HIDE DEF call, n, d
      <4>2. d \in Nat /\ d = Len(calls)
        BY <1>0 DEF d
      <4>3. DOMAIN calls' = 1..(d + 1) /\ calls'[d + 1] = call
            /\ \A i \in 1..d : calls'[i] = calls[i]
        BY <1>0, <2>1, <4>2
      <4>4. Cursor \in [0..n -> Nat]
        BY <1>0, Digits DEF Cursor, n
      <4>5. Lists' = [i \in 1..(d + 1) |-> IndicesAt(calls'[i].posbegin)]
        BY <1>2, <4>3
      <4>6. \A i \in 1..(d + 1) : IndicesAt(calls'[i].posbegin)
                                     = IF i \in 1..d THEN Lists[i] ELSE Cursor
        <5> SUFFICES ASSUME NEW i \in 1..(d + 1)
                     PROVE  IndicesAt(calls'[i].posbegin)
                               = IF i \in 1..d THEN Lists[i] ELSE Cursor
          OBVIOUS
        <5>1. CASE i \in 1..d
          BY <1>0, <4>3, <5>1
        <5>2. CASE i \notin 1..d
          <6>1. i = d + 1
            BY <4>2, <5>2
          <6> QED
            BY <4>1, <4>3, <5>2, <6>1 DEF Cursor
        <5> QED
          BY <5>1, <5>2
      <4>7. Lists' = [i \in 1..(d + 1) |-> IF i \in 1..d THEN Lists[i] ELSE Cursor]
        BY <4>5, <4>6
      <4>8. Append(Lists, Cursor)
              = [i \in 1..(d + 1) |-> IF i \in 1..d THEN Lists[i] ELSE Cursor]
        <5> DEFINE T == [0..n -> Nat]
                   s == Append(Lists, Cursor)
        <5>1. Lists \in Seq(T) /\ Len(Lists) = d /\ Cursor \in T
          BY <1>0, <4>4
        <5> HIDE DEF T
        <5>2. /\ s \in Seq(T) /\ Len(s) = Len(Lists) + 1 /\ s[Len(Lists) + 1] = Cursor
              /\ \A i \in 1..Len(Lists) : s[i] = Lists[i]
          BY <5>1, AppendProperties
        <5> HIDE DEF s
        <5>3. s = [i \in 1..(d + 1) |-> s[i]]
          BY <5>1, <5>2
        <5>4. \A i \in 1..(d + 1) : i \in 1..d \/ (i = d + 1 /\ i \notin 1..d)
          BY <4>2
        <5>5. \A i \in 1..(d + 1) : s[i] = IF i \in 1..d THEN Lists[i] ELSE Cursor
          BY <5>1, <5>2, <5>4
        <5> QED
          BY <5>3, <5>5 DEF s
      <4> QED
        BY <4>7, <4>8
    <3>4. Meaning!OpenList
      BY <1>1, <1>3, <1>4, <2>2, <3>1, <3>2, <3>3
      DEF Meaning!OpenList, Meaning!More, Meaning!Reading, Meaning!Started,
          Cursor, Lists, Elements, Status
    <3> QED
      BY <3>4
  <2>5. CASE calcpos % RowSize(d) # 0
    <3>1. Status' = "no meaning"
      BY <1>2, <2>1, <2>3, <2>5
    <3>2. ~ Meaning!StartsSubarray(Cursor, Len(Lists))
      BY <1>0, <1>5, <2>5
    <3>3. Meaning!NoMeaning
      BY <1>1, <1>3, <1>4, <2>2, <3>1, <3>2
      DEF Meaning!NoMeaning, Meaning!More, Meaning!Reading, Meaning!Started,
          Cursor, Lists, Elements, Status
    <3> QED
      BY <3>3
  <2> QED
    BY <2>4, <2>5
<1> QED
  BY <1>6, <1>7

\* A list that began where a sub-array starts is complete, or in the sub-array,
\* as long as its end is not passed.
LEMMA WithinList ==
    ASSUME shape \in Seq(Pos), totelems = Product(shape), NEW d \in 0..Len(shape),
           NEW b \in Nat, b % RowSize(d) = 0, calcpos \in Nat, b <= calcpos
    PROVE  /\ b + RowSize(d) \in Nat
           /\ Meaning!Following(IndicesAt(b), d) = IndicesAt(b + RowSize(d))
           /\ Meaning!Within(d, IndicesAt(b)) <=> calcpos <= b + RowSize(d)
<1> DEFINE a == RowSize(d)
           w == Which(b, d)
           u == w * a
           p == calcpos
           e == b + a
<1>1. a \in Pos /\ a \in Nat /\ w \in Nat
  BY RowSizes, Digits DEF Pos
<1>2. b = u
  <2>1. b = (b \div a) * a + (b % a)
    BY <1>1, DivMod
  <2> QED
    BY <1>1, <2>1 DEF Which, Pos
<1>3. Which(p, d) = p \div a
  BY DEF Which
<1>4. Meaning!Following(IndicesAt(b), d) = IndicesAt((w + 1) * a)
  BY NextSubarray
<1>5. (Which(p, d) = w) <=> (\A k \in 0..d : IndicesAt(p)[k] = IndicesAt(b)[k])
  BY CommonIndices
<1> HIDE DEF a, w
<1>6. (w + 1) * a = u + a /\ u \in Nat
  BY <1>1
<1>7. e \in Nat /\ e = (w + 1) * a
  BY <1>1, <1>2, <1>6
<1> DEFINE z == p \div a
           t == z * a
           r == p % a
<1>8. z \in Nat /\ r \in 0..(a - 1) /\ p = t + r /\ t \in Nat
  <2>1. z \in Nat /\ r \in 0..(a - 1) /\ p = z * a + r
    BY <1>1, DivMod
  <2> HIDE DEF z, r
  <2> QED
    BY <1>1, <2>1
<1>9. ASSUME z = w PROVE p <= e
  <2>1. t = u
    BY <1>9
  <2> HIDE DEF z, t, r, u, p
  <2> QED
    BY <1>1, <1>2, <1>8, <2>1
<1>10. ASSUME p < e PROVE z = w
  <2> DEFINE y == p - b
  <2>1. y \in Nat /\ y < a /\ p = b + y
    BY <1>1, <1>10
  <2> HIDE DEF y, p
  <2>2. p = w * a + y /\ p \in Nat
    BY <1>2, <2>1 DEF p
  <2> QED
    BY <1>1, <2>1, <2>2, DivUnique
<1>11. IndicesAt(p) = IndicesAt(e) <=> p = e
  BY <1>7, IndicesDiffer
<1> HIDE DEF z, e
<1>12. p <= e <=> (p = e \/ z = w)
  BY <1>7, <1>9, <1>10
<1>13. Meaning!Within(d, IndicesAt(b))
         <=> (IndicesAt(p) = IndicesAt(e) \/ \A k \in 0..d : IndicesAt(p)[k] = IndicesAt(b)[k])
  BY <1>4, <1>7 DEF Meaning!Within
<1>14. Meaning!Within(d, IndicesAt(b)) <=> p <= e
  BY <1>3, <1>5, <1>11, <1>12, <1>13 DEF z
<1> QED
  BY <1>4, <1>7, <1>14 DEF e, a

\* A sequence without its last element.
LEMMA FrontOf ==
    ASSUME NEW T, NEW s \in Seq(T), s # <<>>
    PROVE  /\ Front(s) \in Seq(T) /\ Len(Front(s)) = Len(s) - 1
           /\ \A i \in 1..(Len(s) - 1) : Front(s)[i] = s[i]
<1> DEFINE n == Len(s)
           m == n - 1
<1>1. n \in Nat \ {0}
  BY EmptySeq
<1>2. 1 \in 1..(n + 1) /\ m \in 0..n /\ m \in Nat
  BY <1>1
<1>3. Front(s) = SubSeq(s, 1, m)
  BY DEF Front
<1> HIDE DEF m
<1>4. SubSeq(s, 1, m) \in Seq(T)
  BY <1>1, <1>2
<1>5. Len(SubSeq(s, 1, m)) = m
  BY <1>1, <1>2
<1>6. \A i \in 1..m : SubSeq(s, 1, m)[i] = s[i]
  BY <1>1, <1>2
<1> QED
  BY <1>3, <1>4, <1>5, <1>6 DEF m

\* Where a list ends, the cursor goes past its sub-array.
LEMMA CloseListMeans ==
    ASSUME LayoutInv, AllAligned, CloseList
    PROVE  Meaning!CloseList
<1> DEFINE n == Len(shape)
           m == Len(calls)
           d == m - 1
           b == calls[m].posbegin
           e == b + RowSize(d)
           T == [0..n -> Nat]
<1>0. /\ shape \in Seq(Pos) /\ totelems = Product(shape)
      /\ calls \in Seq(Calls) /\ calcdim = m /\ m \in 0..n
      /\ calcpos \in Nat /\ items \in Nat
      /\ Lists = <<>> <=> calls = <<>>
      /\ Lists \in Seq(T) /\ Len(Lists) = m
      /\ \A i \in 1..m : Lists[i] = IndicesAt(calls[i].posbegin)
  BY InvFacts
<1>1. /\ status = "reading" /\ calls # <<>>
      /\ UNCHANGED <<shape, totelems, value, items, begun>>
  BY DEF CloseList, Refuse, statevars, calcvars
<1>2. /\ Cursor' = IndicesAt(calcpos')
      /\ Lists' = [i \in DOMAIN calls' |-> IndicesAt(calls'[i].posbegin)]
      /\ Elements' = [v \in IndexVectors |-> value'[ScalarIndex(shape, v)]]
      /\ Status' = IF \E list \in begun' : ~ Aligned(list) THEN "no meaning" ELSE status'
  BY <1>1, SameShape
<1>3. Status = "reading" /\ Status' = status' /\ Elements' = Elements
  BY <1>1, <1>2 DEF Status, AllAligned, Elements
<1>4. /\ m \in 1..n /\ n \in Nat /\ d \in 0..(n - 1) /\ d \in 0..n /\ d + 1 = m
      /\ Last(calls) = calls[m] /\ calls[m] \in Calls
  <2>1. m \in Nat \ {0}
    BY <1>0, <1>1, EmptySeq
  <2>2. calls[m] \in Calls /\ Last(calls) = calls[m]
    BY <1>0, <2>1 DEF Last
  <2> QED
    BY <1>0, <2>1, <2>2
<1>5. b \in Nat /\ calls[m].dimsize \in Nat
  BY <1>4 DEF Calls
<1>6. b <= calcpos /\ [dim |-> d, pos |-> b] \in begun
  BY <1>4 DEF LayoutInv, ListsBegun
<1>7. b % RowSize(d) = 0
  <2>1. Aligned([dim |-> d, pos |-> b])
    BY <1>6 DEF AllAligned
  <2> QED
    BY <2>1 DEF Aligned
<1>8. calcstep * calls[m].dimsize = RowSize(d)
  <2>1. calcstep = RowSize(m) /\ calls[m].dimsize = shape[m]
    BY <1>0, <1>4 DEF LayoutInv, TypeOK, Sizes
  <2>2. RowSize(d) = shape[m] * RowSize(m) /\ RowSize(m) \in Nat /\ shape[m] \in Nat
    BY <1>0, <1>4, RowSizes DEF Pos
  <2> QED
    BY <2>1, <2>2
<1>9. /\ e \in Nat
      /\ Meaning!Following(IndicesAt(b), d) = IndicesAt(e)
      /\ Meaning!Within(d, IndicesAt(b)) <=> calcpos <= e
  BY <1>0, <1>4, <1>5, <1>6, <1>7, WithinList
<1>10. Lists # <<>> /\ Last(Lists) = IndicesAt(b) /\ d = Len(Lists) - 1
  <2>1. Last(Lists) = Lists[m]
    BY <1>0 DEF Last
  <2>2. Lists[m] = IndicesAt(b)
    BY <1>0, <1>4
  <2> QED
    BY <1>0, <1>1, <2>1, <2>2
<1>11. Meaning!Last(Lists) = Last(Lists) /\ Meaning!Front(Lists) = Front(Lists)
  BY DEF Meaning!Last, Meaning!Front, Last, Front
<1>12. CASE calcpos > e
  <2>1. status' = "refused" /\ UNCHANGED <<calcpos, calls>>
    BY <1>4, <1>8, <1>12 DEF CloseList, Refuse, calcvars
  <2>2. Cursor' = Cursor /\ Lists' = Lists /\ Status' = "refused"
    BY <1>2, <1>3, <2>1 DEF Cursor, Lists
  <2>3. ~ Meaning!Within(Len(Lists) - 1, Meaning!Last(Lists))
    BY <1>0, <1>9, <1>10, <1>11, <1>12
  <2> QED
    BY <1>1, <1>3, <1>10, <2>2, <2>3
    DEF Meaning!CloseList, Meaning!Reading, Cursor, Lists, Elements, Status
<1>13. CASE ~ (calcpos > e)
  <2>1. /\ calcpos' = e
        /\ calls' = Front(calls)
        /\ status' = IF calls' = <<>> THEN "done" ELSE status
    BY <1>4, <1>8, <1>13 DEF CloseList
  <2>2. Meaning!Within(Len(Lists) - 1, Meaning!Last(Lists))
    BY <1>0, <1>9, <1>10, <1>11, <1>13
  <2>3. Cursor' = Meaning!Following(Meaning!Last(Lists), Len(Lists) - 1)
    BY <1>2, <1>9, <1>10, <1>11, <2>1
  <2> HIDE DEF T, e, b, n
  <2>4. calls' \in Seq(Calls) /\ Len(calls') = d /\ \A i \in 1..d : calls'[i] = calls[i]
    BY <1>0, <1>1, <2>1, FrontOf
  <2>5. Front(Lists) \in Seq(T) /\ Len(Front(Lists)) = d /\ \A i \in 1..d : Front(Lists)[i] = Lists[i]
    BY <1>0, <1>10, FrontOf
  <2> HIDE DEF m
  <2>6. Lists' = Meaning!Front(Lists)
    <3> DEFINE s == Front(Lists)
    <3>1. DOMAIN calls' = 1..d
      BY <2>4
    <3>2. Lists' = [i \in 1..d |-> IndicesAt(calls'[i].posbegin)]
      BY <1>2, <3>1
    <3>3. \A i \in 1..d : i \in 1..m
      BY <1>4
    <3>4. \A i \in 1..d : IndicesAt(calls'[i].posbegin) = s[i]
      BY <1>0, <2>4, <2>5, <3>3
    <3>5. s = [i \in 1..d |-> s[i]]
      <4> HIDE DEF d
      <4> QED
        BY <2>5
    <3> HIDE DEF s
    <3> QED
      BY <1>11, <3>2, <3>4, <3>5 DEF s
  <2>7. Status' = IF Len(Lists) - 1 = 0 THEN "done" ELSE Status
    <3>1. calls' = <<>> <=> Len(calls') = 0
      BY <2>4, EmptySeq
    <3> QED
      BY <1>1, <1>3, <1>10, <2>1, <2>4, <3>1
  <2> QED
    BY <1>1, <1>3, <1>10, <2>2, <2>3, <2>6, <2>7
    DEF Meaning!CloseList, Meaning!Reading, Cursor, Lists, Elements, Status
<1> QED
  BY <1>12, <1>13

\* Where lists have begun is remembered.
LEMMA ListsBegunKept ==
    ASSUME LayoutInv, Next
    PROVE  ListsBegun' /\ begun \subseteq begun' /\ UNCHANGED <<shape, totelems>>
<1>0. /\ shape \in Seq(Pos) /\ calls \in Seq(Calls) /\ calcdim = Len(calls)
      /\ calcpos \in Nat /\ calcstep \in Nat /\ Len(calls) \in Nat
      /\ \A i \in 1..Len(calls) : /\ [dim |-> i - 1, pos |-> calls[i].posbegin] \in begun
                                  /\ calls[i].posbegin <= calcpos
                                  /\ calls[i] \in Calls
  BY InvFacts DEF LayoutInv, IInv, CallsTyped, ListsBegun
<1>1. CASE calls' = calls /\ begun' = begun /\ calcpos' = calcpos /\ UNCHANGED <<shape, totelems>>
  BY <1>0, <1>1 DEF ListsBegun
<1>2. CASE Single
  <2>1. calls' = calls /\ begun' = begun /\ calcpos' \in {calcpos, calcpos + 1}
        /\ UNCHANGED <<shape, totelems>>
    BY <1>2 DEF Single, Refuse, statevars, calcvars
  <2>2. \A i \in 1..Len(calls) : calls[i].posbegin \in Nat
    BY <1>0 DEF Calls
  <2>3. \A i \in 1..Len(calls) : calls[i].posbegin <= calcpos'
    <3> SUFFICES ASSUME NEW i \in 1..Len(calls) PROVE calls[i].posbegin <= calcpos'
      OBVIOUS
    <3> DEFINE b == calls[i].posbegin
    <3>1. b \in Nat /\ b <= calcpos
      BY <1>0, <2>2
    <3> HIDE DEF b
    <3>2. b <= calcpos /\ b <= calcpos + 1
      BY <1>0, <3>1
    <3> QED
      BY <2>1, <3>2 DEF b
  <2> QED
    BY <1>0, <2>1, <2>3 DEF ListsBegun
<1>3. CASE OpenList
  <2> DEFINE call == [posbegin |-> calcpos, dimsize |-> shape[calcdim + 1]]
             here == [dim |-> calcdim, pos |-> calcpos]
             m == Len(calls)
  <2>1. /\ UNCHANGED <<shape, totelems, calcpos>>
        /\ \/ calls' = calls /\ begun' = begun
           \/ calls' = Append(calls, call) /\ begun' = begun \cup {here}
              /\ calcdim # Len(shape)
    BY <1>3 DEF OpenList, Refuse, statevars, calcvars
  <2>2. CASE calls' = calls /\ begun' = begun
    BY <1>1, <2>1, <2>2
  <2>3. CASE /\ calls' = Append(calls, call) /\ begun' = begun \cup {here}
             /\ calcdim # Len(shape)
    <3>1. call.posbegin = calcpos /\ here = [dim |-> (m + 1) - 1, pos |-> calcpos]
      BY <1>0
    <3> HIDE DEF call, here, m
    <3>2. m \in Nat /\ m = Len(calls)
      BY <1>0 DEF m
    <3>3. Len(calls') = m + 1 /\ calls'[m + 1] = call /\ \A i \in 1..m : calls'[i] = calls[i]
      BY <1>0, <2>3, <3>2
    <3>4. \A i \in 1..(m + 1) : i = m + 1 \/ i \in 1..m
      BY <3>2
    <3>5. \A i \in 1..(m + 1) : /\ [dim |-> i - 1, pos |-> calls'[i].posbegin] \in begun'
                                /\ calls'[i].posbegin <= calcpos
      <4> SUFFICES ASSUME NEW i \in 1..(m + 1)
                   PROVE  /\ [dim |-> i - 1, pos |-> calls'[i].posbegin] \in begun'
                          /\ calls'[i].posbegin <= calcpos
        OBVIOUS
      <4>1. CASE i = m + 1
        BY <1>0, <2>3, <3>1, <3>3, <4>1
      <4>2. CASE i \in 1..m
        BY <1>0, <2>3, <3>2, <3>3, <4>2
      <4> QED
        BY <3>4, <4>1, <4>2
    <3> QED
      BY <2>1, <2>3, <3>3, <3>5 DEF ListsBegun
  <2> QED
    BY <2>1, <2>2, <2>3
<1>4. CASE CloseList
  <2> DEFINE m == Len(calls)
             e == Last(calls).posbegin + calcstep * Last(calls).dimsize
  <2>1. /\ UNCHANGED <<shape, totelems, begun>> /\ calls # <<>>
        /\ \/ calls' = calls /\ calcpos' = calcpos
           \/ calls' = Front(calls) /\ calcpos' = e /\ ~ (calcpos > e)
    BY <1>4 DEF CloseList, Refuse, statevars, calcvars
  <2>2. CASE calls' = calls /\ calcpos' = calcpos
    BY <1>1, <2>1, <2>2
  <2>3. CASE calls' = Front(calls) /\ calcpos' = e /\ ~ (calcpos > e)
    <3>1. e \in Nat
      <4>1. m \in Nat \ {0} /\ Last(calls) = calls[m] /\ calls[m] \in Calls
        BY <1>0, <2>1, EmptySeq DEF Last
      <4>2. Last(calls).posbegin \in Nat /\ Last(calls).dimsize \in Nat
        BY <4>1 DEF Calls
      <4> QED
        BY <1>0, <4>2
    <3> HIDE DEF e
    <3>2. Len(calls') = m - 1 /\ \A i \in 1..(m - 1) : calls'[i] = calls[i]
      BY <1>0, <2>1, <2>3, FrontOf
    <3>3. \A i \in 1..(m - 1) : i \in 1..m /\ calls[i].posbegin \in Nat
      <4>1. \A i \in 1..(m - 1) : i \in 1..m
        BY <1>0
      <4>2. \A i \in 1..m : calls[i].posbegin \in Nat
        BY <1>0 DEF Calls
      <4> QED
        BY <4>1, <4>2
    <3> HIDE DEF m
    <3>4. \A i \in 1..(m - 1) : calls'[i].posbegin <= calcpos'
      <4> SUFFICES ASSUME NEW i \in 1..(m - 1) PROVE calls'[i].posbegin <= calcpos'
        OBVIOUS
      <4>1. calls[i].posbegin <= calcpos /\ calls[i].posbegin \in Nat
        BY <1>0, <3>3 DEF m
      <4>2. calcpos <= calcpos' /\ calcpos' \in Nat
        BY <1>0, <2>3, <3>1
      <4> QED
        BY <1>0, <3>2, <4>1, <4>2
    <3>5. \A i \in 1..(m - 1) : [dim |-> i - 1, pos |-> calls'[i].posbegin] \in begun'
      BY <1>0, <2>1, <3>2, <3>3 DEF m
    <3> QED
      BY <2>1, <3>2, <3>4, <3>5 DEF ListsBegun
  <2> QED
    BY <2>1, <2>2, <2>3
<1>5. CASE Over
  <2>1. calls' = calls /\ begun' = begun /\ calcpos' = calcpos /\ UNCHANGED <<shape, totelems>>
    BY <1>5 DEF Over, vars, statevars, calcvars
  <2> QED
    BY <1>1, <2>1
<1> QED
  BY <1>2, <1>3, <1>4, <1>5 DEF Next

\* Before anything is read no element has a value, and the first is next.
LEMMA InitMeans == Init => Meaning!Init /\ ListsBegun
<1> SUFFICES ASSUME Init PROVE Meaning!Init /\ ListsBegun
  OBVIOUS
<1> DEFINE n == Len(shape)
<1>1. /\ shape \in Shapes /\ shape \in Seq(Pos) /\ totelems = Product(shape) /\ n \in Nat
      /\ value = [p \in 0..(totelems - 1) |-> 0]
      /\ calcpos = 0 /\ calls = <<>> /\ status = "reading" /\ items = 0 /\ begun = {}
  BY ShapesAssumption DEF Init, Pos
<1>2. ListsBegun
  BY <1>1 DEF ListsBegun
<1>3. Status = "reading"
  BY <1>1 DEF Status
<1>4. Lists = <<>>
  BY <1>1 DEF Lists
<1>5. Cursor = [d \in 0..n |-> 0]
  <2>1. totelems \in Pos /\ 0 \in 0..n /\ RowSize(0) = totelems /\ 0 \in Nat
    BY <1>1, RowSizes
  <2>2. Which(0, 0) = 0
    <3>1. 0 < totelems
      BY <2>1 DEF Pos
    <3> QED
      BY <1>1, <2>1, <3>1, PastTheEnd
  <2>3. IndicesAt(0)[0] = 0
    BY <1>1, <2>1, <2>2, Digits
  <2>4. 0 % RowSize(0) = 0
    BY <2>1 DEF Pos
  <2>5. \A k \in 1..n : IndicesAt(0)[k] = 0
    <3>1. \A k \in (0 + 1)..n : IndicesAt(0)[k] = 0
      BY <1>1, <2>1, <2>4, StartsWhere
    <3> QED
      BY <1>1, <3>1
  <2>6. \A k \in 0..n : k = 0 \/ k \in 1..n
    BY <1>1
  <2> DEFINE f == IndicesAt(0)
  <2>7. f = [d \in 0..n |-> f[d]]
    BY DEF IndicesAt
  <2>8. \A k \in 0..n : f[k] = 0
    BY <2>3, <2>5, <2>6
  <2>9. Cursor = f
    BY <1>1 DEF Cursor
  <2> HIDE DEF f
  <2> QED
    BY <2>7, <2>8, <2>9
<1>6. Elements = [v \in IndexVectors |-> 0]
  <2>1. ASSUME NEW v \in IndexVectors PROVE value[ScalarIndex(shape, v)] = 0
    <3> DEFINE o == ScalarIndex(shape, v)
    <3>1. o \in Nat /\ Which(o, 0) = 0
      BY <1>1, ElementHasPosition
    <3>2. totelems \in Nat
      BY <1>1, RowSizes DEF Pos
    <3> HIDE DEF o
    <3>3. o \in 0..(totelems - 1)
      BY <1>1, <3>1, <3>2, PastTheEnd
    <3>4. value[o] = 0
      BY <1>1, <3>3
    <3> QED
      BY <3>4 DEF o
  <2> QED
    BY <2>1 DEF Elements
<1>7. Meaning!IndexVectors = IndexVectors
  BY DEF Meaning!IndexVectors, IndexVectors, Meaning!Max, Max
<1>8. Meaning!Init
  BY <1>1, <1>3, <1>4, <1>5, <1>6, <1>7
  DEF Meaning!Init, Cursor, Lists, Elements, Status
<1> QED
  BY <1>2, <1>8

\* Every step keeps the invariant.
LEMMA LayoutStep == LayoutInv /\ [Next]_vars => LayoutInv'
<1> SUFFICES ASSUME LayoutInv, [Next]_vars PROVE LayoutInv'
  OBVIOUS
<1>1. IInv /\ TypeOK /\ Sizes
  BY DEF LayoutInv
<1>2. CASE Single
  BY <1>1, <1>2, SingleFree, SingleTyped, ListsBegunKept DEF LayoutInv, Next
<1>3. CASE OpenList
  BY <1>1, <1>3, OpenListFree, OpenListTyped, ListsBegunKept DEF LayoutInv, Next
<1>4. CASE CloseList
  BY <1>1, <1>4, CloseListFree, CloseListTyped, ListsBegunKept DEF LayoutInv, Next
<1>5. CASE UNCHANGED vars
  <2>1. UNCHANGED <<shape, totelems, value, calcpos, calcdim, calcstep, calls, status, items, begun>>
    BY <1>5 DEF vars, statevars, calcvars
  <2> QED
    BY <2>1 DEF LayoutInv, IInv, CallsTyped, RestFree, TypeOK, Sizes, RowSize, ListsBegun
<1> QED
  BY <1>2, <1>3, <1>4, <1>5 DEF Next, Over

\* Every step is one of the description, or is not seen there.
LEMMA StepMeans == LayoutInv /\ [Next]_vars => [Meaning!Next]_(Meaning!vars)
<1> SUFFICES ASSUME LayoutInv, [Next]_vars PROVE [Meaning!Next]_(Meaning!vars)
  OBVIOUS
<1>1. CASE UNCHANGED vars
  <2>1. UNCHANGED <<shape, totelems, value, calcpos, calcdim, calcstep, calls, status, items, begun>>
    BY <1>1 DEF vars, statevars, calcvars
  <2>2. Cursor' = Cursor /\ Lists' = Lists /\ Elements' = Elements /\ Status' = Status
    BY <2>1, SameShape DEF Cursor, Lists, Elements, Status
  <2>3. UNCHANGED Meaning!vars
    BY <2>1, <2>2 DEF Meaning!vars, Cursor, Lists, Elements, Status
  <2> QED
    BY <2>3
<1>2. CASE Next
  <2>1. begun \subseteq begun' /\ UNCHANGED <<shape, totelems>>
    BY <1>2, ListsBegunKept
  <2>2. CASE AllAligned
    <3>1. CASE Single
      BY <2>2, <3>1, SingleMeans DEF Meaning!Next
    <3>2. CASE OpenList
      BY <2>2, <3>2, OpenListMeans DEF Meaning!Next
    <3>3. CASE CloseList
      BY <2>2, <3>3, CloseListMeans DEF Meaning!Next
    <3>4. CASE Over
      BY <1>1, <3>4 DEF Over
    <3> QED
      BY <1>2, <3>1, <3>2, <3>3, <3>4 DEF Next
  <2>3. CASE ~ AllAligned
    <3>1. Status = "no meaning"
      BY <2>3 DEF AllAligned, Status
    <3>2. Status' = "no meaning"
      BY <2>1, <2>3, SameShape DEF AllAligned
    <3>3. Meaning!NoMeaning
      BY <3>1, <3>2 DEF Meaning!NoMeaning, Status
    <3> QED
      BY <3>3 DEF Meaning!Next
  <2> QED
    BY <2>2, <2>3
<1> QED
  BY <1>1, <1>2

\* For every shape, however values are nested in lists and however many there
\* are: reading an element by its indices finds what the initialiser gives to
\* these indices, and what does not fit is refused, as long as lists start where
\* sub-arrays do (InitVal::calc, _get_scalar_index).
THEOREM InitialisersMeanWhatTheySay == Spec => ImplementsInitializer
<1>1. Init => LayoutInv /\ Meaning!Init
  BY FreeInit, TypeInit, InitMeans DEF LayoutInv
<1>2. Spec => []LayoutInv
  BY <1>1, LayoutStep, PTL DEF Spec
<1> QED
  BY <1>1, <1>2, StepMeans, PTL DEF Spec, ImplementsInitializer, Meaning!Spec
===============================================================================
