---------------------------- MODULE Peephole_proof ----------------------------
(***************************************************************************)
(* For every list of statements and any number of rewrites: what is left   *)
(* is a function, whose jumps have their labels and whose last statement   *)
(* does not fall off the end, and it can be run; and what is merged is the *)
(* result of the statement above.                                          *)
(***************************************************************************)
EXTENDS Peephole, SequenceTheorems, TLAPS

IsStmt(s) == s = Stmt(s.op, s.dest, s.args, s.label, s.fn)

\* A list that WellFormed would accept as the statements of a function, written
\* out: Falls is what reaches the statement behind it.
Falls(s) == s.op \notin {"goto", "return", "returnvoid"}

ListOK(list) ==
    /\ \E S : list \in Seq(S)
    /\ \A i \in 1..Len(list) : IsStmt(list[i])
    /\ Len(list) # 0
    /\ \A i \in 1..Len(list) : Falls(list[i]) => i + 1 \in 1..Len(list)
    /\ \A i \in 1..Len(list) : list[i].op \in {"goto", "condgoto"} =>
          \E k \in 1..Len(list) : list[k].op = "label" /\ list[k].label = list[i].label

IsRun(run) == run = [pc |-> run.pc, env |-> run.env, arr |-> run.arr]

\* The two runs have not begun while statements are being rewritten.
Control ==
    /\ it \in 1..(Len(stmts) + 1)
    /\ last \in {0, it - 1}
    /\ round \in 0..3
    /\ Optimising => after = NotBegun
    /\ after = NotBegun \/ IsRun(after)
    /\ after.pc \in 0..Len(stmts)

IInv ==
    /\ func \in Funcs
    /\ ListOK(stmts)
    /\ OffsetsFit(stmts)
    /\ Control

OffsetsOfFuncs == \A f \in Funcs : OffsetsFit(f.stmts)

-------------------------------------------------------------------------------
(* Lists of statements.                                                    *)

\* What is left of a list without its k-th element.
LEMMA RemoveAtProperties ==
    ASSUME NEW S, NEW s \in Seq(S), NEW k \in 1..Len(s)
    PROVE  /\ RemoveAt(s, k) \in Seq(S)
           /\ Len(RemoveAt(s, k)) = Len(s) - 1
           /\ \A i \in 1..(Len(s) - 1) :
                 RemoveAt(s, k)[i] = IF i < k THEN s[i] ELSE s[i + 1]
<1> DEFINE front == SubSeq(s, 1, k - 1)
           back  == SubSeq(s, k + 1, Len(s))
<1>1. Len(s) \in Nat /\ k \in Nat /\ k >= 1 /\ k <= Len(s)
  OBVIOUS
<1>2. \A i \in 1..Len(s) : s[i] \in S
  OBVIOUS
<1>3. /\ front \in Seq(S)
      /\ Len(front) = IF 1 <= k - 1 THEN (k - 1) - 1 + 1 ELSE 0
      /\ \A i \in 1..((k - 1) - 1 + 1) : front[i] = s[1 + i - 1]
  BY <1>1, <1>2, SubSeqProperties
<1>4. /\ back \in Seq(S)
      /\ Len(back) = IF k + 1 <= Len(s) THEN Len(s) - (k + 1) + 1 ELSE 0
      /\ \A i \in 1..(Len(s) - (k + 1) + 1) : back[i] = s[k + 1 + i - 1]
  BY <1>1, <1>2, SubSeqProperties
<1> HIDE DEF front, back
<1>5. Len(front) = k - 1 /\ Len(back) = Len(s) - k
  BY <1>1, <1>3, <1>4
<1>6. /\ front \o back \in Seq(S)
      /\ Len(front \o back) = Len(front) + Len(back)
      /\ \A i \in 1..(Len(front) + Len(back)) : (front \o back)[i] =
            IF i <= Len(front) THEN front[i] ELSE back[i - Len(front)]
  BY <1>3, <1>4, ConcatProperties
<1>7. ASSUME NEW i \in 1..(Len(s) - 1)
      PROVE  (front \o back)[i] = IF i < k THEN s[i] ELSE s[i + 1]
  <2>1. CASE i < k
    <3>1. i <= k - 1 /\ 1 + i - 1 = i /\ i \in 1..((k - 1) - 1 + 1)
      BY <1>1, <2>1
    <3> QED
      BY <1>1, <1>3, <1>5, <1>6, <2>1, <3>1
  <2>2. CASE ~ (i < k)
    <3>1. /\ ~ (i <= k - 1)
          /\ i - (k - 1) \in 1..(Len(s) - (k + 1) + 1)
          /\ k + 1 + (i - (k - 1)) - 1 = i + 1
      BY <1>1, <2>2
    <3> QED
      BY <1>1, <1>4, <1>5, <1>6, <2>2, <3>1
  <2> QED
    BY <2>1, <2>2
<1>8. RemoveAt(s, k) = front \o back
  BY DEF RemoveAt, front, back
<1>9. /\ front \o back \in Seq(S)
      /\ Len(front \o back) = Len(s) - 1
      /\ \A i \in 1..(Len(s) - 1) :
            (front \o back)[i] = IF i < k THEN s[i] ELSE s[i + 1]
  BY <1>1, <1>5, <1>6, <1>7
<1> QED
  BY <1>8, <1>9

\* Erasing a statement that falls through and is no label, from a list in which
\* one statement's operands, destination or relation may have changed.
LEMMA ErasureOK ==
    ASSUME NEW list, ListOK(list), OffsetsFit(list),
           NEW new, NEW k \in 1..Len(list),
           Falls(list[k]), list[k].op # "label",
           \E S : new \in Seq(S),
           Len(new) = Len(list),
           \A i \in 1..Len(list) : /\ IsStmt(new[i])
                                   /\ new[i].op = list[i].op
                                   /\ new[i].label = list[i].label
    PROVE  /\ ListOK(RemoveAt(new, k))
           /\ OffsetsFit(RemoveAt(new, k))
           /\ Len(RemoveAt(new, k)) = Len(list) - 1
<1> DEFINE rest == RemoveAt(new, k)
           was(i) == IF i < k THEN i ELSE i + 1
<1>1. PICK S : new \in Seq(S)
  OBVIOUS
<1>2. /\ rest \in Seq(S)
      /\ Len(rest) = Len(list) - 1
      /\ \A i \in 1..(Len(list) - 1) : rest[i] = new[was(i)]
  BY <1>1, RemoveAtProperties
<1>3. Len(list) \in Nat /\ k \in Nat /\ 1 <= k /\ k + 1 <= Len(list)
  <2>1. Len(list) \in Nat
    BY <1>1
  <2> QED
    BY <2>1 DEF ListOK
<1> HIDE DEF rest
<1>4. \A i \in 1..Len(rest) : /\ was(i) \in 1..Len(list) /\ was(i) # k
                              /\ IsStmt(rest[i])
                              /\ rest[i].op = list[was(i)].op
                              /\ rest[i].label = list[was(i)].label
  BY <1>2, <1>3
<1>5. \A j \in 1..Len(list) : j # k => \E i \in 1..Len(rest) : was(i) = j
  <2> SUFFICES ASSUME NEW j \in 1..Len(list), j # k
               PROVE  \E i \in 1..Len(rest) : was(i) = j
    OBVIOUS
  <2>1. CASE j < k
    <3>1. j \in 1..Len(rest) /\ was(j) = j
      BY <1>2, <1>3, <2>1
    <3> QED
      BY <3>1
  <2>2. CASE ~ (j < k)
    <3>1. j - 1 \in 1..Len(rest) /\ was(j - 1) = j
      BY <1>2, <1>3, <2>2
    <3> QED
      BY <3>1
  <2> QED
    BY <2>1, <2>2
<1>6. ASSUME NEW i \in 1..Len(rest), Falls(rest[i])
      PROVE  i + 1 \in 1..Len(rest)
  <2>1. Falls(list[was(i)]) /\ was(i) \in 1..Len(list)
    BY <1>4, <1>6 DEF Falls
  <2>2. was(i) + 1 \in 1..Len(list)
    BY <2>1 DEF ListOK
  <2> QED
    BY <1>2, <1>3, <2>2
<1>7. ASSUME NEW i \in 1..Len(rest), rest[i].op \in {"goto", "condgoto"}
      PROVE  \E n \in 1..Len(rest) : rest[n].op = "label" /\ rest[n].label = rest[i].label
  <2>1. PICK j \in 1..Len(list) : list[j].op = "label" /\ list[j].label = list[was(i)].label
    BY <1>4, <1>7 DEF ListOK
  <2>2. PICK n \in 1..Len(rest) : was(n) = j
    BY <1>5, <2>1
  <2> HIDE DEF was
  <2> QED
    BY <1>4, <2>1, <2>2
<1>8. OffsetsFit(rest)
  <2>1. DOMAIN rest = 1..Len(rest)
    BY <1>2
  <2>2. \A j \in 1..Len(list) : list[j].op = "arrayset" => list[j].label < FarOffset
    BY DEF OffsetsFit, ListOK
  <2> HIDE DEF was
  <2> QED
    BY <1>4, <2>1, <2>2 DEF OffsetsFit
<1>9. ListOK(rest)
  BY <1>2, <1>3, <1>4, <1>6, <1>7 DEF ListOK
<1> QED
  BY <1>2, <1>8, <1>9 DEF rest
-------------------------------------------------------------------------------
(* Steps.                                                                  *)

\* What instructions are generated from has the invariant.
LEMMA InitEstablishes ==
    ASSUME OffsetsOfFuncs, Init
    PROVE  IInv
<1>1. func \in Funcs /\ stmts = func.stmts
  BY DEF Init
<1>2. /\ stmts \in Seq({stmts[i] : i \in DOMAIN stmts})
      /\ \A i \in DOMAIN stmts : IsStmt(stmts[i])
      /\ WellFormed(func)
  <2>1. \A i \in DOMAIN func.stmts : IsStmt(func.stmts[i])
    BY <1>1, FuncsAssumption DEF IsStmt
  <2>2. /\ func.stmts \in Seq({func.stmts[i] : i \in DOMAIN func.stmts})
        /\ WellFormed(func)
    BY <1>1, FuncsAssumption
  <2> QED
    BY <1>1, <2>1, <2>2
<1>3. ListOK(stmts)
  <2>1. Len(stmts) \in Nat \ {0} /\ DOMAIN stmts = 1..Len(stmts)
    BY <1>1, <1>2 DEF WellFormed, Lines
  <2>2. ASSUME NEW i \in 1..Len(stmts), Falls(stmts[i])
        PROVE  i + 1 \in 1..Len(stmts)
    BY <1>1, <1>2, <2>1, <2>2 DEF WellFormed, Lines, CfgNext, Falls
  <2>3. ASSUME NEW i \in 1..Len(stmts), stmts[i].op \in {"goto", "condgoto"}
        PROVE  \E k \in 1..Len(stmts) : stmts[k].op = "label" /\ stmts[k].label = stmts[i].label
    <3>1. LabelLines(func, stmts[i].label) # {}
      BY <1>1, <1>2, <2>1, <2>3 DEF WellFormed, Lines
    <3> QED
      BY <1>1, <2>1, <3>1 DEF LabelLines, Lines
  <2> QED
    BY <1>2, <2>1, <2>2, <2>3 DEF ListOK
<1>4. OffsetsFit(stmts)
  BY <1>1 DEF OffsetsOfFuncs
<1>5. Control
  <2>1. Len(stmts) \in Nat
    BY <1>3 DEF ListOK
  <2>2. after = NotBegun /\ after.pc = 0
    BY DEF Init, NotBegun
  <2> QED
    BY <2>1, <2>2 DEF Init, Control, Optimising
<1> QED
  BY <1>1, <1>3, <1>4, <1>5 DEF IInv

\* Merging a move: its destination is given to the statement above.
LEMMA MergeMovPreserves ==
    ASSUME IInv, MergeMov
    PROVE  IInv'
<1> DEFINE new == [stmts EXCEPT ![last].dest = stmts[it].dest]
<1>1. /\ ListOK(stmts) /\ OffsetsFit(stmts)
      /\ it \in 1..Len(stmts) /\ last \in 1..Len(stmts) /\ last = it - 1
      /\ Len(stmts) \in Nat
      /\ stmts[it].op = "mov"
      /\ stmts' = RemoveAt(new, it)
      /\ UNCHANGED <<func, it, last, round, runvars>>
  BY DEF IInv, Control, MergeMov, CanMergeMov, ListOK
<1>2. /\ \E S : new \in Seq(S)
      /\ Len(new) = Len(stmts)
      /\ \A i \in 1..Len(stmts) :
            new[i] = IF i = last THEN [stmts[i] EXCEPT !.dest = stmts[it].dest] ELSE stmts[i]
  <2> DEFINE given == [stmts[last] EXCEPT !.dest = stmts[it].dest]
  <2>1. PICK S : stmts \in Seq(S)
    BY <1>1 DEF ListOK
  <2>2. new = [stmts EXCEPT ![last] = given]
    OBVIOUS
  <2> HIDE DEF new, given
  <2>3. stmts \in Seq(S \cup {given})
    BY <2>1
  <2>4. /\ new \in Seq(S \cup {given})
        /\ Len(new) = Len(stmts)
        /\ \A i \in 1..Len(stmts) : new[i] = IF i = last THEN given ELSE stmts[i]
    BY <1>1, <2>2, <2>3, ExceptSeq
  <2> QED
    BY <2>4 DEF given
<1>3. \A i \in 1..Len(stmts) : /\ IsStmt(new[i])
                                /\ new[i].op = stmts[i].op
                                /\ new[i].label = stmts[i].label
  <2> SUFFICES ASSUME NEW i \in 1..Len(stmts)
               PROVE  /\ IsStmt(new[i])
                      /\ new[i].op = stmts[i].op
                      /\ new[i].label = stmts[i].label
    OBVIOUS
  <2>1. IsStmt(stmts[i])
    BY <1>1 DEF ListOK
  <2> HIDE DEF new
  <2> QED
    BY <1>2, <2>1 DEF IsStmt, Stmt
<1> HIDE DEF new
<1>4. /\ ListOK(stmts') /\ OffsetsFit(stmts')
      /\ Len(stmts') = Len(stmts) - 1
  BY <1>1, <1>2, <1>3, ErasureOK DEF Falls
<1>5. Control'
  BY <1>1, <1>4 DEF IInv, Control, Optimising, NotBegun, runvars, MergeMov, CanMergeMov
<1> QED
  BY <1>1, <1>4, <1>5 DEF IInv

\* Merging a comparison into the jump that tests it.
LEMMA MergeCondPreserves ==
    ASSUME IInv, MergeCond
    PROVE  IInv'
<1> DEFINE rel  == stmts[last].fn
           test == [stmts[it] EXCEPT !.args = stmts[last].args,
                        !.fn = IF @ = "==" THEN RelInvert(rel) ELSE rel]
           new  == [stmts EXCEPT ![it] = test]
<1>1. /\ ListOK(stmts) /\ OffsetsFit(stmts)
      /\ it \in 1..Len(stmts) /\ last \in 1..Len(stmts) /\ last = it - 1
      /\ Len(stmts) \in Nat
      /\ stmts[last].op = "opbinary"
      /\ stmts' = RemoveAt(new, last) /\ last' = it - 1
      /\ UNCHANGED <<func, it, round, runvars>>
  BY DEF IInv, Control, MergeCond, CanMergeCond, ListOK
<1>2. IsStmt(test) /\ test.op = stmts[it].op /\ test.label = stmts[it].label
  <2> DEFINE s == stmts[it]
             g == IF s.fn = "==" THEN RelInvert(rel) ELSE rel
             given == [s EXCEPT !.args = stmts[last].args]
  <2>1. IsStmt(s)
    BY <1>1 DEF ListOK
  <2>2. test = [given EXCEPT !.fn = g]
    BY Zenon
  <2> HIDE DEF test, g, s
  <2>3. given = Stmt(s.op, s.dest, stmts[last].args, s.label, s.fn)
    BY <2>1 DEF IsStmt, Stmt
  <2> HIDE DEF given
  <2>4. [given EXCEPT !.fn = g] = Stmt(s.op, s.dest, stmts[last].args, s.label, g)
    BY <2>3 DEF Stmt
  <2> QED
    BY <2>2, <2>4 DEF IsStmt, Stmt, s
<1> HIDE DEF test
<1>3. /\ \E S : new \in Seq(S)
      /\ Len(new) = Len(stmts)
      /\ \A i \in 1..Len(stmts) : new[i] = IF i = it THEN test ELSE stmts[i]
  <2>1. PICK S : stmts \in Seq(S)
    BY <1>1 DEF ListOK
  <2>2. stmts \in Seq(S \cup {test})
    BY <2>1
  <2>3. /\ new \in Seq(S \cup {test})
        /\ Len(new) = Len(stmts)
        /\ \A i \in 1..Len(stmts) : new[i] = IF i = it THEN test ELSE stmts[i]
    BY <1>1, <2>2, ExceptSeq
  <2> HIDE DEF new
  <2> QED
    BY <2>3
<1> HIDE DEF new
<1>4. \A i \in 1..Len(stmts) : /\ IsStmt(new[i])
                                /\ new[i].op = stmts[i].op
                                /\ new[i].label = stmts[i].label
  BY <1>1, <1>2, <1>3 DEF ListOK
<1>5. /\ ListOK(stmts') /\ OffsetsFit(stmts')
      /\ Len(stmts') = Len(stmts) - 1
  BY <1>1, <1>3, <1>4, ErasureOK DEF Falls
<1>6. Control'
  BY <1>1, <1>5 DEF IInv, Control, Optimising, NotBegun, runvars, MergeCond, CanMergeCond
<1> QED
  BY <1>1, <1>5, <1>6 DEF IInv
\* Going on to the next statement, and the end of a round.
LEMMA KeepPreserves ==
    ASSUME IInv, Keep \/ EndRound
    PROVE  IInv'
<1>1. /\ Len(stmts) \in Nat
      /\ UNCHANGED <<func, stmts, runvars>>
  BY DEF IInv, ListOK, Keep, EndRound
<1>2. ListOK(stmts') /\ OffsetsFit(stmts')
  BY <1>1 DEF IInv
<1>3. CASE Keep
  BY <1>1, <1>2, <1>3 DEF IInv, Control, Optimising, NotBegun, runvars, Keep
<1>4. CASE EndRound
  BY <1>1, <1>2, <1>4 DEF IInv, Control, Optimising, NotBegun, runvars, EndRound
<1> QED
  BY <1>3, <1>4

\* Where a run goes from a statement that is no event: on to the next one, or
\* to a label, and in either case it stays inside the list.
LEMMA AfterStaysInside ==
    ASSUME NEW list, ListOK(list),
           NEW run, IsRun(run), run.pc \in 1..Len(list),
           ~ AtEventOf(list, run)
    PROVE  IsRun(After(list, run)) /\ After(list, run).pc \in 1..Len(list)
<1> DEFINE stmt   == list[run.pc]
           arg    == Args(run, stmt)
           word   == arg[1] - Base + stmt.label
           set(v) == [run EXCEPT !.pc = @ + 1, !.env[stmt.dest] = v]
           goto(k) == [run EXCEPT !.pc = k]
           words  == [run EXCEPT !.pc = @ + 1, !.arr[word] = arg[2]]
           zero   == [run EXCEPT !.pc = @ + 1, !.arr = [i \in DOMAIN @ |-> 0]]
<1>1. ASSUME NEW v PROVE IsRun(set(v)) /\ set(v).pc = run.pc + 1
  <2> DEFINE env == [run.env EXCEPT ![stmt.dest] = v]
             next == [run EXCEPT !.pc = run.pc + 1]
  <2>1. set(v) = [next EXCEPT !.env = env]
    <3>1. next.env = run.env
      BY DEF IsRun
    <3> QED
      BY <3>1
  <2> HIDE DEF env, set
  <2>2. next = [pc |-> run.pc + 1, env |-> run.env, arr |-> run.arr]
    BY DEF IsRun
  <2> HIDE DEF next
  <2>3. [next EXCEPT !.env = env] = [pc |-> run.pc + 1, env |-> env, arr |-> run.arr]
    BY <2>2
  <2> QED
    BY <2>1, <2>3 DEF IsRun
<1>2. ASSUME NEW k PROVE IsRun(goto(k)) /\ goto(k).pc = k
  <2>1. goto(k) = [pc |-> k, env |-> run.env, arr |-> run.arr]
    BY DEF IsRun
  <2> HIDE DEF goto
  <2> QED
    BY <2>1 DEF IsRun
<1>3. /\ IsRun(words) /\ words.pc = run.pc + 1
      /\ IsRun(zero) /\ zero.pc = run.pc + 1
  <2> DEFINE next == [run EXCEPT !.pc = run.pc + 1]
             arr1 == [run.arr EXCEPT ![word] = arg[2]]
             arr2 == [i \in DOMAIN run.arr |-> 0]
  <2>1. /\ words = [next EXCEPT !.arr = arr1]
        /\ zero = [next EXCEPT !.arr = arr2]
    <3>1. next.arr = run.arr
      BY DEF IsRun
    <3>2. words = [next EXCEPT !.arr = arr1]
      <4> HIDE DEF word, arg
      <4> QED
        BY <3>1
    <3>3. zero = [next EXCEPT !.arr = arr2]
      BY <3>1
    <3> QED
      BY <3>2, <3>3
  <2> HIDE DEF words, zero, arr1, arr2
  <2>2. next = [pc |-> run.pc + 1, env |-> run.env, arr |-> run.arr]
    BY DEF IsRun
  <2> HIDE DEF next
  <2>3. \A arr : [next EXCEPT !.arr = arr] = [pc |-> run.pc + 1, env |-> run.env, arr |-> arr]
    BY <2>2
  <2> QED
    BY <2>1, <2>3 DEF IsRun
<1>4. Falls(stmt) => run.pc + 1 \in 1..Len(list)
  BY DEF ListOK
<1>5. stmt.op \notin {"return", "returnvoid"}
  BY DEF AtEventOf
<1>6. stmt.op # "goto" => Falls(stmt)
  BY <1>5 DEF Falls
<1>7. stmt.op \in {"goto", "condgoto"} => LineOf(list, stmt.label) \in 1..Len(list)
  <2> SUFFICES ASSUME stmt.op \in {"goto", "condgoto"}
               PROVE  LineOf(list, stmt.label) \in 1..Len(list)
    OBVIOUS
  <2>1. DOMAIN list = 1..Len(list)
    BY DEF ListOK
  <2>2. \E i \in DOMAIN list : list[i].op = "label" /\ list[i].label = stmt.label
    BY <2>1 DEF ListOK
  <2> HIDE DEF stmt
  <2> QED
    BY <2>1, <2>2 DEF LineOf
<1>8. CASE stmt.op \in {"goto", "condgoto"}
  <2>1. \/ After(list, run) = goto(run.pc + 1) /\ stmt.op = "condgoto"
        \/ After(list, run) = goto(LineOf(list, stmt.label))
    <3> HIDE DEF word
    <3> QED
      BY <1>8 DEF After
  <2> HIDE DEF goto
  <2> QED
    BY <1>2, <1>4, <1>6, <1>7, <1>8, <2>1
<1>9. CASE stmt.op \notin {"goto", "condgoto"}
  <2>1. \/ \E v : After(list, run) = set(v)
        \/ After(list, run) = words
        \/ After(list, run) = zero
        \/ After(list, run) = goto(run.pc + 1)
    <3>1. CASE stmt.op \in {"opbinary", "opunary", "mov", "arrayget"}
      <4> HIDE DEF set, words, zero, goto
      <4> QED
        BY <1>9, <3>1 DEF After, set
    <3>2. CASE stmt.op = "arrayset"
      BY <1>9, <3>2, Zenon DEF After
    <3>3. CASE stmt.op = "fillzero"
      BY <1>9, <3>3, Zenon DEF After
    <3>4. CASE stmt.op \notin {"opbinary", "opunary", "mov", "arrayget", "arrayset", "fillzero"}
      BY <1>9, <3>4 DEF After
    <3> QED
      BY <3>1, <3>2, <3>3, <3>4
  <2> HIDE DEF set, words, zero, goto
  <2> QED
    BY <1>1, <1>2, <1>3, <1>4, <1>6, <1>9, <2>1
<1> QED
  BY <1>8, <1>9

\* The runs begin at the first statement.
LEMMA StartPreserves ==
    ASSUME IInv, Start
    PROVE  IInv'
<1>1. /\ UNCHANGED <<func, optvars>>
      /\ \E e : after' = [pc |-> 1, env |-> e, arr |-> NoWords]
      /\ ~ Optimising
  BY Zenon DEF Start
<1>2. IsRun(after') /\ after'.pc = 1
  BY <1>1 DEF IsRun
<1>3. 1 \in 0..Len(stmts)
  <2>1. Len(stmts) \in Nat /\ Len(stmts) # 0
    BY DEF IInv, ListOK
  <2> QED
    BY <2>1
<1> QED
  BY <1>1, <1>2, <1>3 DEF IInv, Control, Optimising, optvars, IsRun

\* A statement of the run, and what a call returns.
LEMMA RunPreserves ==
    ASSUME IInv, StepBefore \/ StepAfter \/ CallOfBoth
    PROVE  IInv'
<1>1. /\ UNCHANGED <<func, optvars>>
      /\ after.pc # 0
  BY DEF StepBefore, StepAfter, CallOfBoth, BothAtEvent, Running
<1>2. /\ ListOK(stmts) /\ IsRun(after) /\ ~ Optimising
      /\ after.pc \in 1..Len(stmts) /\ Len(stmts) \in Nat
  BY <1>1 DEF IInv, Control, ListOK, NotBegun
<1>3. \/ after' = after
      \/ IsRun(after') /\ after'.pc \in 1..Len(stmts)
  <2>1. CASE StepBefore
    BY <2>1 DEF StepBefore
  <2>2. CASE StepAfter
    BY <2>2, <1>2, AfterStaysInside DEF StepAfter
  <2>3. CASE CallOfBoth
    <3>1. PICK v, w, arr : after' = ReturnedOf(stmts, after, v, w, arr)
      BY <2>3, Zenon DEF CallOfBoth
    <3>2. IsRun(after') /\ after'.pc = after.pc + 1
      BY <3>1 DEF ReturnedOf, IsRun
    <3>3. Falls(stmts[after.pc])
      BY <2>3 DEF CallOfBoth, IsCall, Falls
    <3> QED
      BY <1>2, <3>2, <3>3 DEF ListOK
  <2> QED
    BY <2>1, <2>2, <2>3
<1>4. after' # NotBegun => IsRun(after')
  BY <1>2, <1>3 DEF IsRun
<1>5. after'.pc \in 0..Len(stmts)
  BY <1>2, <1>3
<1> QED
  BY <1>1, <1>2, <1>4, <1>5 DEF IInv, Control, Optimising, optvars

\* Every step, and every stuttering one.
LEMMA NextPreserves ==
    ASSUME IInv, [Next]_vars
    PROVE  IInv'
<1>1. CASE Optimise
  BY <1>1, MergeMovPreserves, MergeCondPreserves, KeepPreserves DEF Optimise
<1>2. CASE Start
  BY <1>2, StartPreserves
<1>3. CASE StepBefore \/ StepAfter \/ CallOfBoth
  BY <1>3, RunPreserves
<1>4. CASE UNCHANGED vars
  BY <1>4 DEF IInv, Control, Optimising, vars, optvars, runvars, IsRun
<1> QED
  BY <1>1, <1>2, <1>3, <1>4 DEF Next, Returning

\* A list that is well-formed is the body of a well-formed function.
LEMMA InvariantImplies ==
    ASSUME IInv
    PROVE  TypeOK
<1> DEFINE f == [func EXCEPT !.stmts = stmts]
<1>1. f.stmts = stmts
  <2>1. func = [params |-> func.params, body |-> func.body, stmts |-> func.stmts]
    BY FuncsAssumption DEF IInv
  <2> QED
    BY <2>1
<1> HIDE DEF f
<1>2. /\ Len(stmts) \in Nat \ {0} /\ DOMAIN stmts = 1..Len(stmts)
  BY DEF IInv, ListOK
<1>3. Lines(f) = 1..Len(stmts)
  BY <1>1, <1>2 DEF Lines
<1>4. ASSUME NEW i \in 1..Len(stmts) PROVE CfgNext(f, i) \subseteq 1..Len(stmts)
  <2>1. \A l : LabelLines(f, l) \subseteq 1..Len(stmts)
    BY <1>3 DEF LabelLines
  <2>2. stmts[i].op \notin {"goto", "return", "returnvoid"} => i + 1 \in 1..Len(stmts)
    BY DEF IInv, ListOK, Falls
  <2> QED
    BY <1>1, <2>1, <2>2 DEF CfgNext
<1>5. ASSUME NEW i \in 1..Len(stmts), stmts[i].op \in {"goto", "condgoto"}
      PROVE  LabelLines(f, stmts[i].label) # {}
  <2>1. PICK k \in 1..Len(stmts) : stmts[k].op = "label" /\ stmts[k].label = stmts[i].label
    BY <1>5 DEF IInv, ListOK
  <2> QED
    BY <1>1, <1>3, <2>1 DEF LabelLines
<1>6. WellFormed(f)
  BY <1>1, <1>2, <1>3, <1>4, <1>5 DEF WellFormed
<1> QED
  BY <1>6 DEF IInv, Control, TypeOK, f

\* For every list of statements and any number of rewrites: every jump keeps
\* its label, no statement falls off the end, offsets stay within what the
\* assertion of IrArraySet allows, and the iterators stay in the list; and a run
\* of what is left never leaves it.
THEOREM TypeCorrect ==
    ASSUME OffsetsOfFuncs
    PROVE  Spec => []TypeOK
<1>1. Init => IInv
  BY InitEstablishes
<1>2. IInv /\ [Next]_vars => IInv'
  BY NextPreserves
<1>3. IInv => TypeOK
  BY InvariantImplies
<1> QED
  BY <1>1, <1>2, <1>3, PTL DEF Spec

-------------------------------------------------------------------------------
(* What is merged.                                                         *)

\* Erasing the k-th statement: temporaries stay as they should be if each of the
\* others reads what one statement has read, a different one each, and if what
\* stands above a statement then is its result.
LEMMA ErasureTidy ==
    ASSUME NEW list, ListOK(list), NEW new, NEW k \in 1..Len(list),
           \E S : new \in Seq(S), Len(new) = Len(list),
           NEW from, \A i \in 1..Len(list) : i # k => from[i] \in 1..Len(list)
                          /\ Uses(new[i]) = Uses(list[from[i]]),
           \A i, j \in 1..Len(list) : i # k /\ j # k /\ from[i] = from[j] => i = j,
           Temporaries(list),
           \A i \in 1..Len(list) : new[i].op \in {"mov", "condgoto", "opbinary"} =>
              1 \in DOMAIN new[i].args,
           \A i \in 2..Len(list) : i # k /\ i - 1 # k => Joined(new[i - 1], new[i]),
           k > 1 /\ k < Len(list) => Joined(new[k - 1], new[k + 1])
    PROVE  Temporaries(RemoveAt(new, k))
<1> DEFINE rest == RemoveAt(new, k)
           was(i) == IF i < k THEN i ELSE i + 1
           m == Len(list)
<1>1. PICK S : new \in Seq(S)
  OBVIOUS
<1>2. /\ rest \in Seq(S)
      /\ Len(rest) = m - 1
      /\ \A i \in 1..(m - 1) : rest[i] = new[was(i)]
  BY <1>1, RemoveAtProperties
<1>3. m \in Nat /\ k \in 1..m
  BY DEF ListOK
<1> HIDE DEF rest, m
<1>4. DOMAIN rest = 1..(m - 1)
  BY <1>2, <1>3
<1>5. \A i \in 1..(m - 1) : was(i) \in 1..m /\ was(i) # k
  BY <1>3
<1>6. \A i, j \in 1..(m - 1) : was(i) = was(j) => i = j
  BY <1>3
<1>7. ASSUME NEW i \in DOMAIN rest, NEW j \in DOMAIN rest,
             NEW v \in Uses(rest[i]) \cap Uses(rest[j]), IsTempVar(v)
      PROVE  i = j
  <2> DEFINE a == was(i)
             b == was(j)
  <2>1. a \in 1..m /\ b \in 1..m /\ a # k /\ b # k /\ rest[i] = new[a] /\ rest[j] = new[b]
    BY <1>2, <1>4, <1>5
  <2> HIDE DEF a, b
  <2>2. /\ from[a] \in 1..m /\ from[b] \in 1..m
        /\ v \in Uses(list[from[a]]) \cap Uses(list[from[b]])
    BY <1>7, <2>1 DEF m
  <2>3. DOMAIN list = 1..m
    BY DEF ListOK, m
  <2>4. from[a] = from[b]
    BY <1>7, <2>2, <2>3 DEF Temporaries
  <2>5. a = b
    BY <2>1, <2>4 DEF m
  <2> QED
    BY <1>4, <1>6, <2>5 DEF a, b
<1>8. ASSUME NEW i \in DOMAIN rest \ {1}
      PROVE  Joined(rest[i - 1], rest[i])
  <2>1. i \in 2..(m - 1) /\ i - 1 \in 1..(m - 1)
    BY <1>3, <1>4
  <2>2. CASE i < k
    <3>1. rest[i] = new[i] /\ rest[i - 1] = new[i - 1] /\ i \in 2..m /\ i # k /\ i - 1 # k
      BY <1>2, <1>3, <2>1, <2>2
    <3> QED
      BY <3>1 DEF m
  <2>3. CASE i = k
    <3>1. rest[i] = new[k + 1] /\ rest[i - 1] = new[k - 1] /\ k > 1 /\ k < m
      BY <1>2, <1>3, <2>1, <2>3
    <3> QED
      BY <3>1 DEF m
  <2>4. CASE i > k
    <3> DEFINE j == i + 1
    <3>1. j \in 2..m /\ j # k /\ j - 1 # k /\ j - 1 = i
      BY <1>3, <2>1, <2>4
    <3>2. was(i) = j /\ was(i - 1) = j - 1
      BY <1>3, <2>1, <2>4
    <3>3. rest[i] = new[j] /\ rest[i - 1] = new[j - 1]
      BY <1>2, <2>1, <3>2
    <3> HIDE DEF j
    <3> QED
      BY <3>1, <3>3 DEF m
  <2> QED
    BY <1>3, <2>1, <2>2, <2>3, <2>4
<1>9. \A i \in DOMAIN rest : rest[i].op \in {"mov", "condgoto", "opbinary"} =>
         1 \in DOMAIN rest[i].args
  BY <1>2, <1>4, <1>5 DEF m
<1> QED
  BY <1>7, <1>8, <1>9 DEF Temporaries, rest

\* Merging a move: the statement above has the result that the next one begins
\* with.
LEMMA MergeMovTidy ==
    ASSUME IInv, Temporaries(stmts), MergeMov
    PROVE  Temporaries(stmts')
<1> DEFINE given == [stmts[last] EXCEPT !.dest = stmts[it].dest]
           new == [stmts EXCEPT ![last] = given]
           m == Len(stmts)
<1>1. /\ ListOK(stmts) /\ DOMAIN stmts = 1..m /\ m \in Nat
      /\ it \in 1..m /\ last \in 1..m /\ last = it - 1
      /\ stmts[it].op = "mov"
  BY DEF IInv, Control, MergeMov, CanMergeMov, ListOK
<1>2. stmts' = RemoveAt(new, it)
  <2>1. stmts' = RemoveAt([stmts EXCEPT ![last].dest = stmts[it].dest], it)
    BY DEF MergeMov
  <2> QED
    BY <2>1
<1>3. /\ given.op = stmts[last].op /\ given.args = stmts[last].args
      /\ given.dest = stmts[it].dest
  <2>1. stmts[last] = Stmt(stmts[last].op, stmts[last].dest, stmts[last].args,
                           stmts[last].label, stmts[last].fn)
    BY <1>1 DEF ListOK, IsStmt
  <2> QED
    BY <2>1 DEF Stmt
<1> HIDE DEF given
<1>4. /\ \E S : new \in Seq(S)
      /\ Len(new) = m
      /\ \A i \in 1..m : new[i] = IF i = last THEN given ELSE stmts[i]
  <2>1. PICK S : stmts \in Seq(S)
    BY <1>1 DEF ListOK
  <2>2. stmts \in Seq(S \cup {given})
    BY <2>1
  <2>3. /\ new \in Seq(S \cup {given})
        /\ Len(new) = Len(stmts)
        /\ \A i \in 1..Len(stmts) : new[i] = IF i = last THEN given ELSE stmts[i]
    BY <1>1, <2>2, ExceptSeq
  <2> HIDE DEF new
  <2> QED
    BY <2>3
<1> HIDE DEF new
<1>5. \A i \in 1..m : new[i].op = stmts[i].op /\ new[i].args = stmts[i].args
  BY <1>3, <1>4
<1>6. \A i \in 1..m : Uses(new[i]) = Uses(stmts[i])
  <2> SUFFICES ASSUME NEW i \in 1..m PROVE Uses(new[i]) = Uses(stmts[i])
    OBVIOUS
  <2>1. new[i].op = stmts[i].op /\ new[i].args = stmts[i].args
    BY <1>5
  <2> QED
    BY <2>1 DEF Uses
<1>7. \A i \in 2..m : Joined(stmts[i - 1], stmts[i])
  <2>1. \A i \in 2..m : i \in DOMAIN stmts \ {1}
    BY <1>1
  <2> QED
    BY <2>1 DEF Temporaries
<1>8. ASSUME NEW i \in 2..m, i # it, i - 1 # it
      PROVE  Joined(new[i - 1], new[i])
  <2>1. i \in 1..m /\ i - 1 \in 1..m /\ i - 1 # last
    BY <1>1, <1>8
  <2>2. new[i - 1] = stmts[i - 1] /\ new[i].op = stmts[i].op /\ new[i].args = stmts[i].args
    BY <1>4, <1>5, <2>1
  <2>3. Joined(stmts[i - 1], stmts[i])
    BY <1>7
  <2> QED
    BY <2>2, <2>3 DEF Joined, Reading
<1>9. ASSUME it > 1, it < m
      PROVE  Joined(new[it - 1], new[it + 1])
  <2>1. it + 1 \in 2..m /\ it + 1 \in 1..m /\ it + 1 # last /\ (it + 1) - 1 = it
    BY <1>1, <1>9
  <2>2. new[it - 1] = given /\ new[it + 1] = stmts[it + 1]
    BY <1>1, <1>4, <2>1
  <2>3. Joined(stmts[it], stmts[it + 1])
    BY <1>7, <2>1
  <2> QED
    BY <1>1, <1>3, <2>2, <2>3 DEF Joined, Reading
<1> DEFINE from == [i \in 1..m |-> i]
<1>10. /\ \A i \in 1..m : i # it => from[i] \in 1..m /\ Uses(new[i]) = Uses(stmts[from[i]])
       /\ \A i, j \in 1..m : i # it /\ j # it /\ from[i] = from[j] => i = j
  BY <1>6
<1>11. \A i \in 1..m : new[i].op \in {"mov", "condgoto", "opbinary"} =>
          1 \in DOMAIN new[i].args
  BY <1>1, <1>5 DEF Temporaries
<1> HIDE DEF from, m
<1>12. Temporaries(RemoveAt(new, it))
  BY <1>1, <1>4, <1>8, <1>9, <1>10, <1>11, ErasureTidy DEF m
<1> QED
  BY <1>2, <1>12 DEF new

\* Merging a comparison: the jump reads what the comparison has read.
LEMMA MergeCondTidy ==
    ASSUME IInv, Temporaries(stmts), MergeCond
    PROVE  Temporaries(stmts')
<1> DEFINE rel  == stmts[last].fn
           test == [stmts[it] EXCEPT !.args = stmts[last].args,
                        !.fn = IF @ = "==" THEN RelInvert(rel) ELSE rel]
           new  == [stmts EXCEPT ![it] = test]
           m == Len(stmts)
<1>1. /\ ListOK(stmts) /\ DOMAIN stmts = 1..m /\ m \in Nat
      /\ it \in 1..m /\ last \in 1..m /\ last = it - 1
      /\ stmts[last].op = "opbinary" /\ stmts[it].op = "condgoto"
  BY DEF IInv, Control, MergeCond, CanMergeCond, ListOK
<1>2. stmts' = RemoveAt(new, last)
  BY DEF MergeCond
<1>3. test.op = "condgoto" /\ test.args = stmts[last].args
  <2> DEFINE s == stmts[it]
             g == IF s.fn = "==" THEN RelInvert(rel) ELSE rel
             given == [s EXCEPT !.args = stmts[last].args]
  <2>1. IsStmt(s) /\ s.op = "condgoto"
    BY <1>1 DEF ListOK
  <2>2. test = [given EXCEPT !.fn = g]
    BY Zenon
  <2> HIDE DEF test, g, s
  <2>3. given = Stmt(s.op, s.dest, stmts[last].args, s.label, s.fn)
    BY <2>1 DEF IsStmt, Stmt
  <2> HIDE DEF given
  <2>4. [given EXCEPT !.fn = g] = Stmt(s.op, s.dest, stmts[last].args, s.label, g)
    BY <2>3 DEF Stmt
  <2> QED
    BY <2>1, <2>2, <2>4 DEF Stmt
<1> HIDE DEF test
<1>4. /\ \E S : new \in Seq(S)
      /\ Len(new) = m
      /\ \A i \in 1..m : new[i] = IF i = it THEN test ELSE stmts[i]
  <2>1. PICK S : stmts \in Seq(S)
    BY <1>1 DEF ListOK
  <2>2. stmts \in Seq(S \cup {test})
    BY <2>1
  <2>3. /\ new \in Seq(S \cup {test})
        /\ Len(new) = Len(stmts)
        /\ \A i \in 1..Len(stmts) : new[i] = IF i = it THEN test ELSE stmts[i]
    BY <1>1, <2>2, ExceptSeq
  <2> HIDE DEF new
  <2> QED
    BY <2>3
<1> HIDE DEF new
<1>5. \A i \in 2..m : Joined(stmts[i - 1], stmts[i])
  <2>1. \A i \in 2..m : i \in DOMAIN stmts \ {1}
    BY <1>1
  <2> QED
    BY <2>1 DEF Temporaries
<1>6. ASSUME NEW i \in 2..m, i # last, i - 1 # last
      PROVE  Joined(new[i - 1], new[i])
  <2>1. i \in 1..m /\ i - 1 \in 1..m /\ i # it
    BY <1>1, <1>6
  <2>2. new[i] = stmts[i] /\ Joined(stmts[i - 1], stmts[i])
    BY <1>4, <1>5, <2>1
  <2>3. CASE i - 1 = it
    <3>1. new[i - 1].op = "condgoto"
      BY <1>3, <1>4, <2>1, <2>3
    <3> QED
      BY <3>1 DEF Joined, Reading
  <2>4. CASE i - 1 # it
    BY <1>4, <2>1, <2>2, <2>4
  <2> QED
    BY <2>3, <2>4
<1>7. ASSUME last > 1, last < m
      PROVE  Joined(new[last - 1], new[last + 1])
  <2>1. last + 1 = it /\ last \in 2..m /\ last - 1 \in 1..m /\ last - 1 # it
    BY <1>1, <1>7
  <2>2. new[last - 1] = stmts[last - 1] /\ new[last + 1] = test
    BY <1>1, <1>4, <2>1
  <2>3. Joined(stmts[last - 1], stmts[last])
    BY <1>5, <2>1
  <2> QED
    BY <1>1, <1>3, <2>2, <2>3 DEF Joined, Reading
<1> DEFINE from == [i \in 1..m |-> IF i = it THEN last ELSE i]
<1>8. \A i \in 1..m : i # last => from[i] \in 1..m /\ Uses(new[i]) = Uses(stmts[from[i]])
  <2> SUFFICES ASSUME NEW i \in 1..m, i # last
               PROVE  from[i] \in 1..m /\ Uses(new[i]) = Uses(stmts[from[i]])
    OBVIOUS
  <2>1. CASE i = it
    <3>1. new[i] = test /\ from[i] = last
      BY <1>4, <2>1
    <3>2. Uses(test) = Uses(stmts[last])
      BY <1>1, <1>3 DEF Uses
    <3> QED
      BY <1>1, <3>1, <3>2
  <2>2. CASE i # it
    BY <1>4, <2>2
  <2> QED
    BY <2>1, <2>2
<1>9. \A i, j \in 1..m : i # last /\ j # last /\ from[i] = from[j] => i = j
  OBVIOUS
<1>10. \A i \in 1..m : new[i].op \in {"mov", "condgoto", "opbinary"} =>
          1 \in DOMAIN new[i].args
  <2>1. \A i \in 1..m : stmts[i].op \in {"mov", "condgoto", "opbinary"} =>
          1 \in DOMAIN stmts[i].args
    BY <1>1 DEF Temporaries
  <2> QED
    BY <1>1, <1>3, <1>4, <2>1
<1> HIDE DEF from, m
<1>11. ListOK(stmts) /\ last \in 1..m
  BY <1>1
<1>12. Temporaries(RemoveAt(new, last))
  BY <1>4, <1>6, <1>7, <1>8, <1>9, <1>10, <1>11, ErasureTidy DEF m
<1> QED
  BY <1>2, <1>12 DEF new

\* What the code takes for granted when it merges: the statement above computes
\* the temporary, on every path, and nobody else reads it, after any number of
\* rewrites, if gen_ir uses its temporaries as Temporaries says.
THEOREM OnlyResultsAreMerged ==
    ASSUME OffsetsOfFuncs, \A f \in Funcs : Temporaries(f.stmts)
    PROVE  Spec => []MergesOnlyResults
<1> DEFINE Inv == IInv /\ Temporaries(stmts)
<1>1. Init => Inv
  BY InitEstablishes DEF Init
<1>2. IInv /\ Temporaries(stmts) /\ [Next]_vars => Temporaries(stmts')
  <2> SUFFICES ASSUME IInv, Temporaries(stmts), [Next]_vars
               PROVE  Temporaries(stmts')
    OBVIOUS
  <2>1. CASE MergeMov
    BY <2>1, MergeMovTidy
  <2>2. CASE MergeCond
    BY <2>2, MergeCondTidy
  <2>3. CASE UNCHANGED stmts
    BY <2>3
  <2> QED
    BY <2>1, <2>2, <2>3
    DEF Next, Optimise, Keep, EndRound, Start, StepBefore, StepAfter, CallOfBoth,
        Returning, vars, optvars
<1>3. Inv /\ [Next]_vars => Inv'
  BY <1>2, NextPreserves
<1>4. Inv => MergesOnlyResults
  <2> SUFFICES ASSUME IInv, Temporaries(stmts), CanMergeMov \/ CanMergeCond
               PROVE  /\ stmts[last].dest = stmts[it].args[1]
                      /\ CfgPrev([func EXCEPT !.stmts = stmts], it) = {last}
                      /\ \A k \in DOMAIN stmts : k # it =>
                            stmts[it].args[1] \notin Uses(stmts[k])
    BY DEF MergesOnlyResults
  <2> DEFINE f == [func EXCEPT !.stmts = stmts]
             t == stmts[it].args[1]
  <2>1. /\ DOMAIN stmts = 1..Len(stmts) /\ Len(stmts) \in Nat
        /\ it \in 1..Len(stmts) /\ last \in 1..Len(stmts) /\ last = it - 1
        /\ stmts[it].op \in {"mov", "condgoto"} /\ IsTempVar(t)
        /\ stmts[last].op \in {"opbinary", "opunary", "call", "mov"}
        /\ stmts[it].op = "condgoto" => stmts[last].dest = t
    BY DEF IInv, Control, CanMergeMov, CanMergeCond, ListOK
  <2>2. stmts[last].dest = t
    <3>1. it \in DOMAIN stmts \ {1}
      BY <2>1
    <3>2. Joined(stmts[it - 1], stmts[it])
      BY <3>1 DEF Temporaries
    <3>3. CASE stmts[it].op = "mov"
      <4>1. stmts[it - 1] = stmts[last]
        BY <2>1
      <4>2. Joined(stmts[last], stmts[it])
        BY <3>2, <4>1
      <4> HIDE DEF t
      <4>3. IsTempVar(stmts[it].args[1])
        BY <2>1 DEF t
      <4>4. stmts[last].dest = stmts[it].args[1]
        BY <2>1, <3>3, <4>2, <4>3 DEF Joined, Reading
      <4> QED
        BY <4>4 DEF t
    <3> QED
      BY <2>1, <3>3
  <2>3. f.stmts = stmts
    <3>1. func = [params |-> func.params, body |-> func.body, stmts |-> func.stmts]
      BY FuncsAssumption DEF IInv
    <3> QED
      BY <3>1
  <2> HIDE DEF f
  <2>4. CfgPrev(f, it) = {last}
    <3>1. \A j \in 1..Len(stmts) : it \in CfgNext(f, j) =>  j = last
      <4> SUFFICES ASSUME NEW j \in 1..Len(stmts), it \in CfgNext(f, j) PROVE j = last
        OBVIOUS
      <4>1. it \notin LabelLines(f, stmts[j].label)
        BY <2>1, <2>3 DEF LabelLines
      <4>2. it = j + 1
        BY <2>3, <4>1 DEF CfgNext
      <4> QED
        BY <2>1, <4>2
    <3>2. it \in CfgNext(f, last)
      <4>1. it = last + 1
        BY <2>1
      <4> QED
        BY <2>1, <2>3, <4>1 DEF CfgNext
    <3> QED
      BY <2>1, <2>3, <3>1, <3>2 DEF CfgPrev, Lines
  <2>5. ASSUME NEW k \in DOMAIN stmts, k # it, t \in Uses(stmts[k])
        PROVE  FALSE
    <3>1. t \in Uses(stmts[it])
      <4>1. 1 \in DOMAIN stmts[it].args
        BY <2>1 DEF Temporaries
      <4>2. t \notin Unpooled
        BY <2>1 DEF IsTempVar
      <4> QED
        BY <2>1, <4>1, <4>2 DEF Uses
    <3> QED
      BY <2>1, <2>5, <3>1 DEF Temporaries
  <2> QED
    BY <2>2, <2>4, <2>5 DEF f
<1> QED
  BY <1>1, <1>3, <1>4, PTL DEF Spec
===============================================================================
