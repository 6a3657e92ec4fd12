------------------------------ MODULE Frames_proof ----------------------------
(***************************************************************************)
(* Frames: for every set of functions, frames of any size and any limit of *)
(* immediates, nothing is out of reach, and the machine is the one that    *)
(* code generation reckons with.                                           *)
(***************************************************************************)
EXTENDS Frames, Fixpoints, SequenceTheorems

(* Words.                                                                  *)

\* A power of two is the number of subsets of a set.
LEMMA PowersOfTwo ==
    ASSUME NEW k \in Nat
    PROVE  2^k \in Nat \ {0}
<1> DEFINE S == 1..k
<1>1. IsFiniteSet(S) /\ Cardinality(S) = k
  <2>1. Cardinality(S) = IF 1 > k THEN 0 ELSE k - 1 + 1
    BY FS_Interval
  <2> QED
    BY <2>1, FS_Interval
<1> HIDE DEF S
<1>2. IsFiniteSet(SUBSET S) /\ Cardinality(SUBSET S) = 2^k
  BY <1>1, FS_SUBSET
<1>3. Cardinality(SUBSET S) \in Nat
  BY <1>2, FS_CardinalityType
<1>4. Cardinality(SUBSET S) # 0
  <2>1. SUBSET S # {}
    OBVIOUS
  <2> QED
    BY <1>2, <2>1, FS_EmptySet
<1> QED
  BY <1>2, <1>3, <1>4

\* Half the range of a word.
LEMMA HalfType == Half \in Nat \ {0}
<1>1. WordBits - 1 \in Nat
  BY WordBitsAssumption
<1> QED
  BY <1>1, PowersOfTwo DEF Half

\* A word wraps to itself, and everything wraps to a word.
LEMMA WrapIs ==
    /\ \A x \in Int : Wrap(x) \in Word
    /\ \A x \in Word : Wrap(x) = x
<1> DEFINE h == Half
<1>1. h \in Nat /\ h > 0
  BY HalfType
<1> HIDE DEF h
<1>2. ASSUME NEW x \in Int
      PROVE  (x + h) % (2 * h) \in 0..(2 * h - 1)
  <2> DEFINE n == 2 * h
             y == x + h
  <2>1. n \in Nat /\ n > 0 /\ y \in Int
    BY <1>1
  <2> HIDE DEF n, y
  <2>2. y % n \in 0..(n - 1)
    BY <2>1
  <2> QED
    BY <2>2 DEF n, y
<1>3. ASSUME NEW x \in Int, -h <= x, x < h
      PROVE  (x + h) % (2 * h) = x + h
  <2> DEFINE n == 2 * h
             y == x + h
  <2>1. n \in Nat /\ n > 0 /\ y \in Nat /\ y < n
    BY <1>1, <1>3
  <2> HIDE DEF n, y
  <2>2. y % n = y
    BY <2>1
  <2> QED
    BY <2>2 DEF n, y
<1> QED
  BY <1>1, <1>2, <1>3 DEF Wrap, Word, h

-------------------------------------------------------------------------------
(* The machine.                                                            *)

Lines1(asm, a)       == DOMAIN asm = {1} /\ asm[1] = a
Lines2(asm, a, b)    == DOMAIN asm = {1, 2} /\ asm[1] = a /\ asm[2] = b
Lines3(asm, a, b, c) == DOMAIN asm = {1, 2, 3} /\ asm[1] = a /\ asm[2] = b /\ asm[3] = c

\* The ways in which one to three lines are put together.
LEMMA SomeLines ==
    ASSUME NEW a, NEW b, NEW c
    PROVE  /\ Lines1(<<a>>, a) /\ Lines2(<<a, b>>, a, b)
           /\ Lines3(Append(<<a, b>>, c), a, b, c)
           /\ Lines3(<<a, b>> \o <<c>>, a, b, c)
           /\ Lines3(<<a>> \o <<b, c>>, a, b, c)
           /\ Lines2(<<a>> \o <<b>>, a, b)
           /\ \A s \in {<<>>, <<a>>, <<a, b>>} : s \o <<>> = s /\ <<>> \o s = s
<1> DEFINE S == {a, b, c}
           s1(x) == <<x>>
           s2(x, y) == <<x, y>>
<1>1. \A x \in S : s1(x) \in Seq(S) /\ Len(s1(x)) = 1 /\ s1(x)[1] = x
  OBVIOUS
<1>2. \A x, y \in S : /\ s2(x, y) \in Seq(S) /\ Len(s2(x, y)) = 2
                      /\ s2(x, y)[1] = x /\ s2(x, y)[2] = y
  OBVIOUS
<1>3. a \in S /\ b \in S /\ c \in S /\ <<>> \in Seq(S)
  OBVIOUS
<1>4. 1..1 = {1} /\ 1..2 = {1, 2} /\ 1..3 = {1, 2, 3}
  OBVIOUS
<1> HIDE DEF S, s1, s2
<1>5. \A s \in Seq(S) : DOMAIN s = 1..Len(s)
  OBVIOUS
<1>6. Lines1(s1(a), a) /\ Lines2(s2(a, b), a, b)
  BY <1>1, <1>2, <1>3, <1>4, <1>5 DEF Lines1, Lines2
<1>7. Lines3(Append(s2(a, b), c), a, b, c)
  <2> DEFINE u == s2(a, b)
             t == Append(u, c)
  <2>1. u \in Seq(S) /\ Len(u) = 2 /\ u[1] = a /\ u[2] = b
    BY <1>2, <1>3
  <2> HIDE DEF u
  <2>2. t \in Seq(S) /\ Len(t) = 3 /\ t[1] = a /\ t[2] = b /\ t[3] = c
    <3>1. u \in Seq(S) /\ c \in S
      BY <1>3, <2>1
    <3>2. t \in Seq(S) /\ Len(t) = Len(u) + 1 /\ t[Len(u) + 1] = c
          /\ \A i \in 1..Len(u) : t[i] = u[i]
      BY <3>1, AppendProperties
    <3> HIDE DEF t
    <3> QED
      BY <2>1, <3>2
  <2> HIDE DEF t
  <2>3. DOMAIN t = {1, 2, 3}
    BY <1>4, <1>5, <2>2
  <2> QED
    BY <2>2, <2>3 DEF t, u, Lines3
<1>8. Lines3(s2(a, b) \o s1(c), a, b, c)
  <2> DEFINE u == s2(a, b)
             v == s1(c)
             t == u \o v
  <2>1. /\ u \in Seq(S) /\ Len(u) = 2 /\ u[1] = a /\ u[2] = b
        /\ v \in Seq(S) /\ Len(v) = 1 /\ v[1] = c
    BY <1>1, <1>2, <1>3
  <2> HIDE DEF u, v
  <2>2. t \in Seq(S) /\ Len(t) = 3 /\ t[1] = a /\ t[2] = b /\ t[3] = c
    <3>1. u \in Seq(S) /\ v \in Seq(S)
      BY <2>1
    <3>2. /\ t \in Seq(S) /\ Len(t) = Len(u) + Len(v)
          /\ \A i \in 1..(Len(u) + Len(v)) :
                t[i] = IF i <= Len(u) THEN u[i] ELSE v[i - Len(u)]
      BY <3>1, ConcatProperties
    <3> HIDE DEF t
    <3> QED
      BY <2>1, <3>2
  <2> HIDE DEF t
  <2>3. DOMAIN t = {1, 2, 3}
    BY <1>4, <1>5, <2>2
  <2> QED
    BY <2>2, <2>3 DEF t, u, v, Lines3
<1>9. Lines3(s1(a) \o s2(b, c), a, b, c)
  <2> DEFINE u == s1(a)
             v == s2(b, c)
             t == u \o v
  <2>1. /\ u \in Seq(S) /\ Len(u) = 1 /\ u[1] = a
        /\ v \in Seq(S) /\ Len(v) = 2 /\ v[1] = b /\ v[2] = c
    BY <1>1, <1>2, <1>3
  <2> HIDE DEF u, v
  <2>2. t \in Seq(S) /\ Len(t) = 3 /\ t[1] = a /\ t[2] = b /\ t[3] = c
    <3>1. u \in Seq(S) /\ v \in Seq(S)
      BY <2>1
    <3>2. /\ t \in Seq(S) /\ Len(t) = Len(u) + Len(v)
          /\ \A i \in 1..(Len(u) + Len(v)) :
                t[i] = IF i <= Len(u) THEN u[i] ELSE v[i - Len(u)]
      BY <3>1, ConcatProperties
    <3> HIDE DEF t
    <3> QED
      BY <2>1, <3>2
  <2> HIDE DEF t
  <2>3. DOMAIN t = {1, 2, 3}
    BY <1>4, <1>5, <2>2
  <2> QED
    BY <2>2, <2>3 DEF t, u, v, Lines3
<1>10. Lines2(s1(a) \o s1(b), a, b)
  <2> DEFINE u == s1(a)
             v == s1(b)
             t == u \o v
  <2>1. /\ u \in Seq(S) /\ Len(u) = 1 /\ u[1] = a
        /\ v \in Seq(S) /\ Len(v) = 1 /\ v[1] = b
    BY <1>1, <1>3
  <2> HIDE DEF u, v
  <2>2. t \in Seq(S) /\ Len(t) = 2 /\ t[1] = a /\ t[2] = b
    BY <2>1, ConcatProperties
  <2> HIDE DEF t
  <2>3. DOMAIN t = {1, 2}
    BY <1>4, <1>5, <2>2
  <2> QED
    BY <2>2, <2>3 DEF t, u, v, Lines2
<1>11. \A s \in {<<>>, s1(a), s2(a, b)} : s \o <<>> = s /\ <<>> \o s = s
  BY <1>1, <1>2, <1>3, ConcatEmptySeq
<1> QED
  BY <1>6, <1>7, <1>8, <1>9, <1>10, <1>11 DEF s1, s2

\* One instruction after the other; no more than three are needed.
LEMMA ExecAsmAllIs ==
    ASSUME NEW x, NEW asm
    PROVE  /\ ExecAsmAll(x, <<>>) = x
           /\ \A a : Lines1(asm, a) => ExecAsmAll(x, asm) = ExecAsm(x, a)
           /\ \A a, b : Lines2(asm, a, b) =>
                 ExecAsmAll(x, asm) = ExecAsm(ExecAsm(x, a), b)
           /\ \A a, b, c : Lines3(asm, a, b, c) =>
                 ExecAsmAll(x, asm) = ExecAsm(ExecAsm(ExecAsm(x, a), b), c)
<1> DEFINE Greatest(S) == CHOOSE n \in S : \A k \in S : n >= k
           Then(g, S, q) == IF S = {} THEN x
                             ELSE ExecAsm(g[S \ {Greatest(S)}], q[Greatest(S)])
           Is(g, q) == g = [S \in SUBSET DOMAIN q |-> Then(g, S, q)]
           Step(S, n, y, q) == IF n \in S THEN ExecAsm(y, q[n]) ELSE y
           Fold(S, q) == Step(S, 3, Step(S, 2, Step(S, 1, x, q), q), q)
<1>1. ASSUME NEW S \in SUBSET {1, 2, 3}
      PROVE  /\ 3 \in S => Greatest(S) = 3
             /\ 3 \notin S /\ 2 \in S => Greatest(S) = 2
             /\ 3 \notin S /\ 2 \notin S /\ 1 \in S => Greatest(S) = 1
             /\ 3 \notin S /\ 2 \notin S /\ 1 \notin S => S = {}
  <2>0. \A k \in S : k = 1 \/ k = 2 \/ k = 3
    OBVIOUS
  <2>1. ASSUME 3 \in S PROVE Greatest(S) = 3
    <3>1. \A k \in S : 3 >= k
      BY <2>0
    <3>2. \A n \in S : n >= 3 => n = 3
      BY <2>0
    <3> QED
      BY <2>1, <3>1, <3>2
  <2>2. ASSUME 3 \notin S, 2 \in S PROVE Greatest(S) = 2
    <3>1. \A k \in S : 2 >= k
      BY <2>0, <2>2
    <3>2. \A n \in S : n >= 2 => n = 2
      BY <2>0, <2>2
    <3> QED
      BY <2>2, <3>1, <3>2
  <2>3. ASSUME 3 \notin S, 2 \notin S, 1 \in S PROVE Greatest(S) = 1
    <3>1. \A k \in S : 1 >= k
      BY <2>0, <2>3
    <3>2. \A n \in S : n >= 1 => n = 1
      BY <2>0, <2>3
    <3> QED
      BY <2>3, <3>1, <3>2
  <2>4. ASSUME 3 \notin S, 2 \notin S, 1 \notin S PROVE S = {}
    BY <2>0, <2>4
  <2> HIDE DEF Greatest
  <2> QED
    BY <2>1, <2>2, <2>3, <2>4
<1> HIDE DEF Greatest
<1>2. ASSUME NEW q, DOMAIN q \subseteq {1, 2, 3}
      PROVE  \E g : /\ Is(g, q)
                    /\ ExecAsmAll(x, q) = g[DOMAIN q]
  <2> DEFINE D == DOMAIN q
             h == [S \in SUBSET D |-> Fold(S, q)]
  <2>1. ASSUME NEW S \in SUBSET D
        PROVE  Fold(S, q) = Then(h, S, q)
    <3>1. S \in SUBSET {1, 2, 3}
      BY <1>2
    <3>2. \A n : h[S \ {n}] = Fold(S \ {n}, q)
      OBVIOUS
    <3> HIDE DEF h
    <3>3. CASE 3 \in S
      <4>1. Fold(S, q) = ExecAsm(Fold(S \ {3}, q), q[3])
        BY <3>3
      <4>2. S # {} /\ Greatest(S) = 3
        BY <1>1, <3>1, <3>3
      <4> HIDE DEF Fold
      <4> QED
        BY <3>2, <4>1, <4>2
    <3>4. CASE 3 \notin S /\ 2 \in S
      <4>1. Fold(S, q) = ExecAsm(Fold(S \ {2}, q), q[2])
        BY <3>4
      <4>2. S # {} /\ Greatest(S) = 2
        BY <1>1, <3>1, <3>4
      <4> HIDE DEF Fold
      <4> QED
        BY <3>2, <4>1, <4>2
    <3>5. CASE 3 \notin S /\ 2 \notin S /\ 1 \in S
      <4>1. Fold(S, q) = ExecAsm(Fold(S \ {1}, q), q[1])
        BY <3>5
      <4>2. S # {} /\ Greatest(S) = 1
        BY <1>1, <3>1, <3>5
      <4> HIDE DEF Fold
      <4> QED
        BY <3>2, <4>1, <4>2
    <3>6. CASE 3 \notin S /\ 2 \notin S /\ 1 \notin S
      BY <1>1, <3>1, <3>6
    <3> QED
      BY <3>3, <3>4, <3>5, <3>6
  <2> HIDE DEF Fold, Then
  <2>2. h = [S \in SUBSET D |-> Then(h, S, q)]
    <3>1. h = [S \in SUBSET D |-> h[S]] /\ \A S \in SUBSET D : h[S] = Fold(S, q)
      OBVIOUS
    <3> HIDE DEF h
    <3> QED
      BY <2>1, <3>1
  <2>3. Is(h, q)
    BY <2>2
  <2> DEFINE f == CHOOSE g : Is(g, q)
  <2>4. Is(f, q)
    BY <2>3
  <2>5. ExecAsmAll(x, q) = f[D]
    BY DEF ExecAsmAll, FoldLeft, MapThenFoldSet, Max, Then, Greatest
  <2> HIDE DEF f
  <2> QED
    BY <2>4, <2>5
<1>3. ASSUME NEW q, DOMAIN q \subseteq {1, 2, 3}, NEW g, Is(g, q)
      PROVE  /\ g[{}] = x
             /\ 1 \in DOMAIN q => g[{1}] = ExecAsm(g[{}], q[1])
             /\ {1, 2} \subseteq DOMAIN q => g[{1, 2}] = ExecAsm(g[{1}], q[2])
             /\ {1, 2, 3} \subseteq DOMAIN q => g[{1, 2, 3}] = ExecAsm(g[{1, 2}], q[3])
  <2>1. \A S \in SUBSET DOMAIN q : g[S] = Then(g, S, q)
    BY <1>3
  <2>2. Greatest({1}) = 1 /\ Greatest({1, 2}) = 2 /\ Greatest({1, 2, 3}) = 3
    BY <1>1
  <2>3. {1} \ {1} = {} /\ {1, 2} \ {2} = {1} /\ {1, 2, 3} \ {3} = {1, 2}
    OBVIOUS
  <2>4. g[{}] = x
    BY <2>1
  <2>5. ASSUME 1 \in DOMAIN q PROVE g[{1}] = ExecAsm(g[{}], q[1])
    <3>1. g[{1}] = Then(g, {1}, q)
      BY <2>1, <2>5
    <3>2. {1} # {} /\ {1} \ {1} = {} /\ Greatest({1}) = 1
      BY <2>2, <2>3
    <3> HIDE DEF Greatest
    <3> QED
      BY <3>1, <3>2
  <2>6. ASSUME {1, 2} \subseteq DOMAIN q PROVE g[{1, 2}] = ExecAsm(g[{1}], q[2])
    <3>1. g[{1, 2}] = Then(g, {1, 2}, q)
      BY <2>1, <2>6
    <3>2. {1, 2} # {} /\ {1, 2} \ {2} = {1} /\ Greatest({1, 2}) = 2
      BY <2>2, <2>3
    <3> HIDE DEF Greatest
    <3> QED
      BY <3>1, <3>2
  <2>7. ASSUME {1, 2, 3} \subseteq DOMAIN q PROVE g[{1, 2, 3}] = ExecAsm(g[{1, 2}], q[3])
    <3>1. g[{1, 2, 3}] = Then(g, {1, 2, 3}, q)
      BY <2>1, <2>7
    <3>2. {1, 2, 3} # {} /\ {1, 2, 3} \ {3} = {1, 2} /\ Greatest({1, 2, 3}) = 3
      BY <2>2, <2>3
    <3> HIDE DEF Greatest
    <3> QED
      BY <3>1, <3>2
  <2> QED
    BY <2>4, <2>5, <2>6, <2>7
<1> HIDE DEF Is
<1>4. ExecAsmAll(x, <<>>) = x
  <2>1. DOMAIN <<>> = {}
    OBVIOUS
  <2> QED
    BY <1>2, <1>3, <2>1
<1>5. ASSUME NEW a, Lines1(asm, a)
      PROVE  ExecAsmAll(x, asm) = ExecAsm(x, a)
  BY <1>2, <1>3, <1>5 DEF Lines1
<1>6. ASSUME NEW a, NEW b, Lines2(asm, a, b)
      PROVE  ExecAsmAll(x, asm) = ExecAsm(ExecAsm(x, a), b)
  BY <1>2, <1>3, <1>6 DEF Lines2
<1>7. ASSUME NEW a, NEW b, NEW c, Lines3(asm, a, b, c)
      PROVE  ExecAsmAll(x, asm) = ExecAsm(ExecAsm(ExecAsm(x, a), b), c)
  BY <1>2, <1>3, <1>7 DEF Lines3
<1> QED
  BY <1>4, <1>5, <1>6, <1>7

-------------------------------------------------------------------------------

\* a machine that has not been stopped
IsMachine(x) ==
    /\ DOMAIN x = {"regs", "mem", "ok"} /\ x.ok
    /\ x.regs \in [Regs -> Word]
    /\ x.regs["x0"] = 0
    /\ x.mem \in [Memory -> Word]

\* a number that an instruction has room for
Fits(imm) == -ImmLimit <= imm /\ imm < ImmLimit

\* The words of memory are at multiples of four, below StackTop.
LEMMA MemoryIs ==
    /\ StackTop \in Nat /\ StackTop % 16 = 0
    /\ Memory = {a \in 0..(StackTop - 4) : a % 4 = 0}
    /\ 0..StackTop \subseteq Word
    /\ \A n \in 0..StackTop : -n \in Word
<1>1. StackTop \in Word /\ StackTop % 16 = 0 /\ 0 < StackTop
  <2>1. PICK f \in DOMAIN Funcs : f = "main"
    BY FramesAssumption DEF FramesAssumption
  <2>2. /\ MaxDepth \in Nat \ {0} /\ Funcs[f].stacksize \in Nat
        /\ MaxDepth * STK(Funcs[f].stacksize) < StackTop
    BY FramesAssumption DEF FramesAssumption
  <2> DEFINE y == STK(Funcs[f].stacksize)
  <2>3. y \in Nat
    BY <2>2 DEF STK
  <2> HIDE DEF y
  <2>4. MaxDepth * y \in Nat
    BY <2>2, <2>3
  <2>5. StackTop \in Int
    BY FramesAssumption DEF FramesAssumption, Word
  <2> QED
    BY <2>2, <2>4, <2>5, FramesAssumption DEF FramesAssumption, y
<1>2. Half \in Nat /\ StackTop \in Int /\ StackTop < Half
  BY <1>1, HalfType DEF Word
<1>3. Memory = {a \in 0..(StackTop - 4) : a % 4 = 0}
  <2>1. ASSUME NEW k \in 0..(StackTop \div 4 - 1)
        PROVE  4 * k \in 0..(StackTop - 4) /\ (4 * k) % 4 = 0
    BY <1>1, <1>2
  <2>2. ASSUME NEW a \in 0..(StackTop - 4), a % 4 = 0
        PROVE  \E k \in 0..(StackTop \div 4 - 1) : a = 4 * k
    <3>1. a \div 4 \in 0..(StackTop \div 4 - 1) /\ a = 4 * (a \div 4)
      BY <1>1, <1>2, <2>2
    <3> QED
      BY <3>1
  <2> QED
    BY <2>1, <2>2 DEF Memory
<1> QED
  BY <1>1, <1>2, <1>3 DEF Word

\* A register that is not x0 takes a value.
LEMMA SetRegDoes ==
    ASSUME NEW x, IsMachine(x), NEW rd \in Regs \ {"x0"}, NEW v \in Word
    PROVE  /\ IsMachine(SetReg(x, rd, v))
           /\ SetReg(x, rd, v).regs = [x.regs EXCEPT ![rd] = v]
           /\ SetReg(x, rd, v).mem = x.mem
<1> DEFINE y == SetReg(x, rd, v)
<1>1. y = [x EXCEPT !.regs = [x.regs EXCEPT ![rd] = v]]
  BY DEF SetReg
<1>2. /\ y.regs = [x.regs EXCEPT ![rd] = v] /\ y.mem = x.mem /\ y.ok = x.ok
      /\ DOMAIN y = DOMAIN x
  <2>1. DOMAIN x = {"regs", "mem", "ok"}
    BY DEF IsMachine
  <2> QED
    BY <1>1, <2>1
<1> HIDE DEF y
<1>3. /\ [x.regs EXCEPT ![rd] = v] \in [Regs -> Word]
      /\ [x.regs EXCEPT ![rd] = v]["x0"] = 0
  BY DEF IsMachine, Regs
<1>4. IsMachine(y)
  BY <1>2, <1>3 DEF IsMachine
<1> QED
  BY <1>2, <1>4 DEF y

\* A word of memory takes a value.
LEMMA StoreDoes ==
    ASSUME NEW x, IsMachine(x), NEW a \in Memory, NEW v \in Word
    PROVE  LET y == [x EXCEPT !.mem[a] = v]
           IN  /\ IsMachine(y)
               /\ y.regs = x.regs
               /\ y.mem = [x.mem EXCEPT ![a] = v]
<1> DEFINE y == [x EXCEPT !.mem[a] = v]
<1>1. y = [x EXCEPT !.mem = [x.mem EXCEPT ![a] = v]]
  OBVIOUS
<1>2. /\ y.regs = x.regs /\ y.mem = [x.mem EXCEPT ![a] = v] /\ y.ok = x.ok
      /\ DOMAIN y = DOMAIN x
  <2>1. DOMAIN x = {"regs", "mem", "ok"}
    BY DEF IsMachine
  <2> QED
    BY <1>1, <2>1
<1> HIDE DEF y
<1>3. [x.mem EXCEPT ![a] = v] \in [Memory -> Word]
  BY DEF IsMachine
<1>4. IsMachine(y)
  BY <1>2, <1>3 DEF IsMachine
<1> QED
  BY <1>2, <1>4 DEF y

\* The instructions that accesses to the stack are made of.
LEMMA LiDoes ==
    ASSUME NEW x, IsMachine(x), NEW rd \in Regs \ {"x0"}, NEW imm \in Word
    PROVE  LET y == ExecAsm(x, Li(rd, imm))
           IN  /\ IsMachine(y) /\ y.mem = x.mem
               /\ y.regs = [x.regs EXCEPT ![rd] = imm]
<1>1. x.ok /\ Wrap(imm) = imm
  BY WrapIs DEF IsMachine
<1>2. ExecAsm(x, Li(rd, imm)) = SetReg(x, rd, imm)
  BY <1>1 DEF ExecAsm, Li, AsmI, Encodable
<1> QED
  BY <1>2, SetRegDoes

\* The sum of two registers, where it is a word.
LEMMA AddDoes ==
    ASSUME NEW x, IsMachine(x), NEW rd \in Regs \ {"x0"}, NEW r1, NEW r2,
           NEW v \in Word, v = x.regs[r1] + x.regs[r2]
    PROVE  LET y == ExecAsm(x, Arith("add", rd, r1, r2))
           IN  /\ IsMachine(y) /\ y.mem = x.mem
               /\ y.regs = [x.regs EXCEPT ![rd] = v]
<1>1. x.ok /\ Wrap(x.regs[r1] + x.regs[r2]) = v
  BY WrapIs DEF IsMachine
<1>2. ExecAsm(x, Arith("add", rd, r1, r2)) = SetReg(x, rd, v)
  BY <1>1 DEF ExecAsm, Arith, AsmI, Encodable, Alu
<1> QED
  BY <1>2, SetRegDoes

\* The sum of a register and an immediate.
LEMMA AddiDoes ==
    ASSUME NEW x, IsMachine(x), NEW rd \in Regs \ {"x0"}, NEW r1,
           NEW imm, Fits(imm), NEW v \in Word, v = x.regs[r1] + imm
    PROVE  LET y == ExecAsm(x, Addi(rd, r1, imm))
           IN  /\ IsMachine(y) /\ y.mem = x.mem
               /\ y.regs = [x.regs EXCEPT ![rd] = v]
<1>1. x.ok /\ Wrap(x.regs[r1] + imm) = v
  BY WrapIs DEF IsMachine
<1>2. ExecAsm(x, Addi(rd, r1, imm)) = SetReg(x, rd, v)
  BY <1>1 DEF ExecAsm, Addi, AsmI, Encodable, Fits
<1> QED
  BY <1>2, SetRegDoes

\* A word is loaded, if the immediate fits and there is memory.
LEMMA LwDoes ==
    ASSUME NEW x, IsMachine(x), NEW rd \in Regs \ {"x0"}, NEW r1,
           NEW imm, Fits(imm), NEW a \in Memory, a = x.regs[r1] + imm
    PROVE  LET y == ExecAsm(x, Lw(rd, imm, r1))
           IN  /\ IsMachine(y) /\ y.mem = x.mem
               /\ y.regs = [x.regs EXCEPT ![rd] = x.mem[a]]
<1>1. x.ok /\ Wrap(x.regs[r1] + imm) = a /\ a \in DOMAIN x.mem /\ x.mem[a] \in Word
  BY WrapIs, MemoryIs DEF IsMachine
<1>2. ExecAsm(x, Lw(rd, imm, r1)) = SetReg(x, rd, x.mem[a])
  BY <1>1 DEF ExecAsm, Lw, AsmI, Encodable, Fits
<1> QED
  BY <1>1, <1>2, SetRegDoes

\* A word is stored, if the immediate fits and there is memory.
LEMMA SwDoes ==
    ASSUME NEW x, IsMachine(x), NEW r2 \in Regs, NEW r1,
           NEW imm, Fits(imm), NEW a \in Memory, a = x.regs[r1] + imm
    PROVE  LET y == ExecAsm(x, Sw(r2, imm, r1))
           IN  /\ IsMachine(y) /\ y.regs = x.regs
               /\ y.mem = [x.mem EXCEPT ![a] = x.regs[r2]]
<1>1. x.ok /\ Wrap(x.regs[r1] + imm) = a /\ a \in DOMAIN x.mem /\ x.regs[r2] \in Word
  BY WrapIs, MemoryIs DEF IsMachine
<1>2. ExecAsm(x, Sw(r2, imm, r1)) = [x EXCEPT !.mem[a] = x.regs[r2]]
  BY <1>1 DEF ExecAsm, Sw, AsmI, Encodable, Fits
<1> QED
  BY <1>1, <1>2, StoreDoes

\* no register but those of S differs
Only(x, y, S) == \A r \in Regs \ S : y.regs[r] = x.regs[r]

\* What the code tests before it uses an immediate is enough for the processor.
LEMMA NoOverflowFits ==
    ASSUME NEW imm \in Int, ~ imm_overflows(imm)
    PROVE  Fits(imm)
<1>1. ImmLimit \in Nat
  BY ImmLimitAssumption
<1> QED
  BY <1>1 DEF imm_overflows, Fits

\* A register gets the address of a word of the frame, step by step.
LEMMA StackAddrDoes ==
    ASSUME NEW x, IsMachine(x), NEW i \in Nat, NEW rd \in Regs \ {"x0", "sp"},
           x.regs["sp"] \in Nat, x.regs["sp"] + 4 * i \in Memory
    PROVE  LET y == ExecAsm(ExecAsm(x, Li(rd, 4 * i)), Arith("add", rd, rd, "sp"))
           IN  /\ IsMachine(y) /\ y.mem = x.mem
               /\ y.regs = [x.regs EXCEPT ![rd] = x.regs["sp"] + 4 * i]
<1> DEFINE sp == x.regs["sp"]
           a == ExecAsm(x, Li(rd, 4 * i))
           y == ExecAsm(a, Arith("add", rd, rd, "sp"))
<1>1. 4 * i \in Word /\ sp + 4 * i \in Word /\ 4 * i + sp = sp + 4 * i
  BY MemoryIs
<1>2. "sp" \in Regs /\ rd \in Regs \ {"x0"} /\ rd # "sp" /\ DOMAIN x.regs = Regs
  BY DEF Regs, IsMachine
<1>3. IsMachine(a) /\ a.regs = [x.regs EXCEPT ![rd] = 4 * i] /\ a.mem = x.mem
  BY <1>1, <1>2, LiDoes
<1> HIDE DEF a
<1>4. sp + 4 * i = a.regs[rd] + a.regs["sp"]
  BY <1>1, <1>2, <1>3
<1> HIDE DEF sp
<1>5. IsMachine(y) /\ y.regs = [a.regs EXCEPT ![rd] = sp + 4 * i] /\ y.mem = a.mem
  BY <1>1, <1>2, <1>3, <1>4, AddDoes
<1>6. y.regs = [x.regs EXCEPT ![rd] = sp + 4 * i]
  BY <1>2, <1>3, <1>5
<1> QED
  BY <1>3, <1>5, <1>6 DEF y, a, sp

\* What each access to the stack does to the machine.
LEMMA StoreStackDoes ==
    ASSUME NEW x, IsMachine(x), NEW i \in Nat, NEW r \in Regs,
           x.regs["sp"] \in Nat, x.regs["sp"] + 4 * i \in Memory
    PROVE  LET y == ExecAsmAll(x, StoreStackAsm(i, r))
           IN  /\ IsMachine(y) /\ Only(x, y, {"t0", "t1"} \ {r})
               /\ y.mem = [x.mem EXCEPT ![x.regs["sp"] + 4 * i] = x.regs[r]]
<1> DEFINE a == x.regs["sp"] + 4 * i
           asm == StoreStackAsm(i, r)
           y == ExecAsmAll(x, asm)
<1>1. DOMAIN x.regs = Regs /\ "sp" \in Regs
  BY DEF IsMachine, Regs
<1>2. CASE imm_overflows(4 * i)
  <2> DEFINE t == IF r = "t0" THEN "t1" ELSE "t0"
             c1 == Li(t, 4 * i)
             c2 == Arith("add", t, t, "sp")
             c3 == Sw(r, 0, t)
             b == ExecAsm(ExecAsm(x, c1), c2)
  <2>1. t \in Regs \ {"x0", "sp"} /\ t # r /\ t \in {"t0", "t1"}
    BY DEF Regs
  <2>2. asm = Append(<<c1, c2>>, c3)
    BY <1>2 DEF StoreStackAsm, StackAddr
  <2> HIDE DEF t
  <2>3. IsMachine(b) /\ b.mem = x.mem /\ b.regs = [x.regs EXCEPT ![t] = a]
    BY <2>1, StackAddrDoes
  <2> HIDE DEF c1, c2
  <2>4. y = ExecAsm(b, c3)
    <3> HIDE DEF asm, c3
    <3>1. Lines3(asm, c1, c2, c3)
      BY <2>2, SomeLines
    <3> QED
      BY <3>1, ExecAsmAllIs
  <2> HIDE DEF y, b, a
  <2>5. b.regs[t] = a /\ b.regs[r] = x.regs[r]
    BY <1>1, <2>1, <2>3
  <2>6. a \in Memory /\ a = b.regs[t] + 0 /\ Fits(0)
    BY <2>5, ImmLimitAssumption, MemoryIs DEF a, Fits
  <2>7. IsMachine(y) /\ y.regs = b.regs /\ y.mem = [b.mem EXCEPT ![a] = b.regs[r]]
    <3>1. IsMachine(b) /\ r \in Regs
      BY <2>3
    <3>2. LET z == ExecAsm(b, Sw(r, 0, t))
          IN  IsMachine(z) /\ z.regs = b.regs /\ z.mem = [b.mem EXCEPT ![a] = b.regs[r]]
      BY <2>6, <3>1, SwDoes
    <3> QED
      BY <2>4, <3>2
  <2>8. Only(x, y, {"t0", "t1"} \ {r})
    BY <1>1, <2>1, <2>3, <2>7 DEF Only
  <2> QED
    BY <2>3, <2>5, <2>7, <2>8 DEF y, a
<1>3. CASE ~ imm_overflows(4 * i)
  <2> DEFINE c == Sw(r, 4 * i, "sp")
  <2>1. y = ExecAsm(x, c)
    <3>1. asm = <<c>>
      BY <1>3 DEF StoreStackAsm
    <3> HIDE DEF asm, c
    <3>2. Lines1(asm, c)
      BY <3>1, SomeLines
    <3> QED
      BY <3>2, ExecAsmAllIs
  <2>2. Fits(4 * i) /\ a \in Memory /\ a = x.regs["sp"] + 4 * i
    BY <1>3, NoOverflowFits
  <2> HIDE DEF y, a
  <2>3. IsMachine(y) /\ y.regs = x.regs /\ y.mem = [x.mem EXCEPT ![a] = x.regs[r]]
    BY <2>1, <2>2, SwDoes
  <2> QED
    BY <2>3 DEF Only, y, a
<1> QED
  BY <1>2, <1>3

\* LoadStack reads the word and changes its destination only, whether or not the
\* offset is an immediate.
LEMMA LoadStackDoes ==
    ASSUME NEW x, IsMachine(x), NEW i \in Nat, NEW r \in Regs \ {"x0", "sp"},
           x.regs["sp"] \in Nat, x.regs["sp"] + 4 * i \in Memory
    PROVE  LET y == ExecAsmAll(x, LoadStackAsm(r, i))
           IN  /\ IsMachine(y) /\ y.mem = x.mem
               /\ y.regs = [x.regs EXCEPT ![r] = x.mem[x.regs["sp"] + 4 * i]]
<1> DEFINE a == x.regs["sp"] + 4 * i
           asm == LoadStackAsm(r, i)
           y == ExecAsmAll(x, asm)
<1>1. DOMAIN x.regs = Regs /\ "sp" \in Regs
  BY DEF IsMachine, Regs
<1>2. CASE imm_overflows(4 * i)
  <2> DEFINE c1 == Li(r, 4 * i)
             c2 == Arith("add", r, r, "sp")
             c3 == Lw(r, 0, r)
             b == ExecAsm(ExecAsm(x, c1), c2)
  <2>1. asm = Append(<<c1, c2>>, c3)
    BY <1>2 DEF LoadStackAsm, StackAddr
  <2>2. IsMachine(b) /\ b.mem = x.mem /\ b.regs = [x.regs EXCEPT ![r] = a]
    BY StackAddrDoes
  <2> HIDE DEF c1, c2
  <2>3. y = ExecAsm(b, c3)
    <3> HIDE DEF asm, c3
    <3>1. Lines3(asm, c1, c2, c3)
      BY <2>1, SomeLines
    <3> QED
      BY <3>1, ExecAsmAllIs
  <2> HIDE DEF y, b, a
  <2>4. b.regs[r] = a
    BY <1>1, <2>2
  <2>5. a \in Memory /\ a = b.regs[r] + 0 /\ Fits(0)
    BY <2>4, ImmLimitAssumption, MemoryIs DEF a, Fits
  <2>6. IsMachine(y) /\ y.mem = b.mem /\ y.regs = [b.regs EXCEPT ![r] = b.mem[a]]
    <3>1. IsMachine(b) /\ r \in Regs \ {"x0"}
      BY <2>2
    <3>2. LET z == ExecAsm(b, Lw(r, 0, r))
          IN  IsMachine(z) /\ z.mem = b.mem /\ z.regs = [b.regs EXCEPT ![r] = b.mem[a]]
      BY <2>5, <3>1, LwDoes
    <3> QED
      BY <2>3, <3>2
  <2>7. y.regs = [x.regs EXCEPT ![r] = x.mem[a]]
    BY <1>1, <2>2, <2>6
  <2> QED
    BY <2>2, <2>6, <2>7 DEF y, a
<1>3. CASE ~ imm_overflows(4 * i)
  <2> DEFINE c == Lw(r, 4 * i, "sp")
  <2>1. y = ExecAsm(x, c)
    <3>1. asm = <<c>>
      BY <1>3 DEF LoadStackAsm
    <3> HIDE DEF asm, c
    <3>2. Lines1(asm, c)
      BY <3>1, SomeLines
    <3> QED
      BY <3>2, ExecAsmAllIs
  <2>2. Fits(4 * i) /\ a \in Memory /\ a = x.regs["sp"] + 4 * i
    BY <1>3, NoOverflowFits
  <2> HIDE DEF y, a
  <2>3. IsMachine(y) /\ y.mem = x.mem /\ y.regs = [x.regs EXCEPT ![r] = x.mem[a]]
    BY <2>1, <2>2, LwDoes
  <2> QED
    BY <2>3 DEF y, a
<1> QED
  BY <1>2, <1>3

\* LoadAddrStack computes the address in its destination.
LEMMA LoadAddrStackDoes ==
    ASSUME NEW x, IsMachine(x), NEW i \in Nat, NEW r \in Regs \ {"x0", "sp"},
           x.regs["sp"] \in Nat, x.regs["sp"] + 4 * i \in Memory
    PROVE  LET y == ExecAsmAll(x, LoadAddrStackAsm(r, i))
           IN  /\ IsMachine(y) /\ y.mem = x.mem
               /\ y.regs = [x.regs EXCEPT ![r] = x.regs["sp"] + 4 * i]
<1> DEFINE a == x.regs["sp"] + 4 * i
           asm == LoadAddrStackAsm(r, i)
           y == ExecAsmAll(x, asm)
<1>1. CASE imm_overflows(4 * i)
  <2> DEFINE c1 == Li(r, 4 * i)
             c2 == Arith("add", r, r, "sp")
             b == ExecAsm(ExecAsm(x, c1), c2)
  <2>1. asm = <<c1, c2>>
    BY <1>1 DEF LoadAddrStackAsm, StackAddr
  <2>2. IsMachine(b) /\ b.mem = x.mem /\ b.regs = [x.regs EXCEPT ![r] = a]
    BY StackAddrDoes
  <2> HIDE DEF c1, c2
  <2>3. y = b
    <3> HIDE DEF asm
    <3>1. Lines2(asm, c1, c2)
      BY <2>1, SomeLines
    <3> QED
      BY <3>1, ExecAsmAllIs
  <2> QED
    BY <2>2, <2>3
<1>2. CASE ~ imm_overflows(4 * i)
  <2> DEFINE c == Addi(r, "sp", 4 * i)
  <2>1. y = ExecAsm(x, c)
    <3>1. asm = <<c>>
      BY <1>2 DEF LoadAddrStackAsm
    <3> HIDE DEF asm, c
    <3>2. Lines1(asm, c)
      BY <3>1, SomeLines
    <3> QED
      BY <3>2, ExecAsmAllIs
  <2>2. Fits(4 * i) /\ a \in Word /\ a = x.regs["sp"] + 4 * i
    BY <1>2, NoOverflowFits, MemoryIs
  <2> HIDE DEF y, a
  <2>3. IsMachine(y) /\ y.mem = x.mem /\ y.regs = [x.regs EXCEPT ![r] = a]
    BY <2>1, <2>2, AddiDoes
  <2> QED
    BY <2>3 DEF y, a
<1> QED
  BY <1>1, <1>2

\* ArraySet stores at a constant distance from a pointer.
LEMMA ArraySetDoes ==
    ASSUME NEW x, IsMachine(x), NEW p, NEW r \in Regs, NEW imm \in Int,
           ArraySetOK(imm), NEW a \in Memory, a = x.regs[p] + imm
    PROVE  LET y == ExecAsmAll(x, ArraySetAsm(p, imm, r))
           IN  /\ IsMachine(y) /\ y.regs = x.regs
               /\ y.mem = [x.mem EXCEPT ![a] = x.regs[r]]
<1> DEFINE c == Sw(r, imm, p)
           asm == ArraySetAsm(p, imm, r)
           y == ExecAsmAll(x, asm)
<1>1. y = ExecAsm(x, c)
  <2>1. asm = <<c>>
    BY DEF ArraySetAsm
  <2> HIDE DEF asm, c
  <2>2. Lines1(asm, c)
    BY <2>1, SomeLines
  <2> QED
    BY <2>2, ExecAsmAllIs
<1>2. Fits(imm)
  BY NoOverflowFits DEF ArraySetOK
<1> HIDE DEF y
<1>3. IsMachine(y) /\ y.regs = x.regs /\ y.mem = [x.mem EXCEPT ![a] = x.regs[r]]
  BY <1>1, <1>2, SwDoes
<1> QED
  BY <1>3 DEF y

\* ArrayGet loads from any distance, on the way through t0 if need be.
LEMMA ArrayGetDoes ==
    ASSUME NEW x, IsMachine(x), NEW p \in Regs, p # "t0", NEW rd \in Regs \ {"x0"},
           NEW imm \in Word, NEW a \in Memory, a = x.regs[p] + imm
    PROVE  LET y == ExecAsmAll(x, ArrayGetAsm(rd, p, imm))
           IN  /\ IsMachine(y) /\ y.mem = x.mem
               /\ y.regs[rd] = x.mem[a] /\ Only(x, y, {rd, "t0"})
<1> DEFINE asm == ArrayGetAsm(rd, p, imm)
           y == ExecAsmAll(x, asm)
<1>1. DOMAIN x.regs = Regs /\ "t0" \in Regs \ {"x0"} /\ a \in Word /\ imm \in Int
      /\ x.regs[p] \in Int
  BY MemoryIs DEF IsMachine, Regs, Word
<1>2. CASE imm_overflows(imm)
  <2> DEFINE c1 == Li("t0", imm)
             c2 == Arith("add", "t0", "t0", p)
             c3 == Lw(rd, 0, "t0")
             z == ExecAsm(x, c1)
             b == ExecAsm(z, c2)
  <2>1. asm = <<c1, c2, c3>>
    BY <1>2 DEF ArrayGetAsm
  <2>2. IsMachine(z) /\ z.mem = x.mem /\ z.regs = [x.regs EXCEPT !["t0"] = imm]
    BY <1>1, LiDoes
  <2>3. IsMachine(b) /\ b.mem = x.mem /\ b.regs = [x.regs EXCEPT !["t0"] = a]
    <3> HIDE DEF z
    <3>1. a = z.regs["t0"] + z.regs[p]
      BY <1>1, <2>2
    <3>2. IsMachine(b) /\ b.mem = z.mem /\ b.regs = [z.regs EXCEPT !["t0"] = a]
      BY <1>1, <2>2, <3>1, AddDoes
    <3> HIDE DEF b
    <3> QED
      BY <1>1, <2>2, <3>2
  <2> HIDE DEF c1, c2
  <2>4. y = ExecAsm(b, c3)
    <3> HIDE DEF asm, c3
    <3>1. Lines3(asm, c1, c2, c3)
      BY <2>1 DEF Lines3
    <3> QED
      BY <3>1, ExecAsmAllIs
  <2> HIDE DEF y, b
  <2>5. b.regs["t0"] = a
    BY <1>1, <2>3
  <2>6. a = b.regs["t0"] + 0 /\ Fits(0)
    BY <1>1, <2>5, ImmLimitAssumption DEF Fits, Word
  <2>7. IsMachine(y) /\ y.mem = b.mem /\ y.regs = [b.regs EXCEPT ![rd] = b.mem[a]]
    <3>1. IsMachine(b)
      BY <2>3
    <3>2. LET u == ExecAsm(b, Lw(rd, 0, "t0"))
          IN  IsMachine(u) /\ u.mem = b.mem /\ u.regs = [b.regs EXCEPT ![rd] = b.mem[a]]
      BY <2>6, <3>1, LwDoes
    <3> QED
      BY <2>4, <3>2
  <2>8. y.regs[rd] = x.mem[a] /\ Only(x, y, {rd, "t0"})
    BY <1>1, <2>3, <2>7 DEF Only
  <2> QED
    BY <2>3, <2>7, <2>8 DEF y
<1>3. CASE ~ imm_overflows(imm)
  <2> DEFINE c == Lw(rd, imm, p)
  <2>1. y = ExecAsm(x, c)
    <3>1. asm = <<c>>
      BY <1>3 DEF ArrayGetAsm
    <3> HIDE DEF asm, c
    <3>2. Lines1(asm, c)
      BY <3>1, SomeLines
    <3> QED
      BY <3>2, ExecAsmAllIs
  <2>2. Fits(imm)
    BY <1>1, <1>3, NoOverflowFits
  <2> HIDE DEF y
  <2>3. IsMachine(y) /\ y.mem = x.mem /\ y.regs = [x.regs EXCEPT ![rd] = x.mem[a]]
    BY <2>1, <2>2, LwDoes
  <2> QED
    BY <1>1, <2>3 DEF Only, y
<1> QED
  BY <1>2, <1>3

\* How far sp moves for a function.
Size(f) == IF HasFrame(Funcs[f]) THEN STK(Funcs[f].stacksize) ELSE 0

\* Frames are aligned, and have room for ra besides their words unless the
\* function is a leaf without words.
LEMMA SizeType ==
    ASSUME NEW f \in DOMAIN Funcs
    PROVE  /\ Size(f) \in Nat /\ Size(f) % 16 = 0
           /\ Size(f) > 4 * Funcs[f].stacksize \/ Funcs[f].stacksize = 0
           /\ ~ Funcs[f].isleaf => Size(f) > 4 * Funcs[f].stacksize
           /\ MaxDepth * Size(f) < StackTop
<1> DEFINE n == Funcs[f].stacksize
<1>1. n \in Nat /\ MaxDepth * STK(n) < StackTop /\ MaxDepth \in Nat /\ 0 < StackTop
  <2>1. StackTop \in Nat
    BY MemoryIs
  <2>2. n \in Nat /\ MaxDepth * STK(n) < StackTop /\ MaxDepth \in Nat
    BY FramesAssumption DEF FramesAssumption
  <2>3. STK(n) \in Nat
    BY <2>2 DEF STK
  <2> DEFINE y == STK(n)
  <2> HIDE DEF y
  <2>4. MaxDepth * y \in Nat
    BY <2>2, <2>3 DEF y
  <2> QED
    BY <2>1, <2>2, <2>4 DEF y
<1>2. STK(n) \in Nat /\ STK(n) % 16 = 0 /\ STK(n) > 4 * n
  <2> HIDE DEF n
  <2> DEFINE q == n \div 4
  <2>1. q \in Nat /\ n < 4 * q + 4
    BY <1>1
  <2>2. STK(n) = (q + 1) * 16
    BY DEF STK
  <2> HIDE DEF q
  <2> QED
    BY <1>1, <2>1, <2>2
<1>3. n > 0 \/ ~ Funcs[f].isleaf => Size(f) = STK(n)
  BY DEF Size, HasFrame
<1>4. MaxDepth * 0 = 0 /\ 0 % 16 = 0
  BY <1>1
<1> QED
  BY <1>1, <1>2, <1>3, <1>4 DEF Size

\* sp moved, as an expression
Moved(x, imm) ==
    IF imm_overflows(imm)
    THEN ExecAsm(ExecAsm(x, Li("t0", imm)), Arith("add", "sp", "sp", "t0"))
    ELSE ExecAsm(x, Addi("sp", "sp", imm))

\* sp moves, whether or not by an immediate.
LEMMA MovedDoes ==
    ASSUME NEW x, IsMachine(x), NEW imm \in Word, NEW v \in Word, v = x.regs["sp"] + imm
    PROVE  /\ IsMachine(Moved(x, imm)) /\ Moved(x, imm).mem = x.mem
           /\ Moved(x, imm).regs["sp"] = v /\ Only(x, Moved(x, imm), {"sp", "t0"})
<1> DEFINE y == Moved(x, imm)
<1>1. /\ DOMAIN x.regs = Regs /\ "t0" \in Regs \ {"x0"} /\ "sp" \in Regs \ {"x0"}
      /\ imm \in Int
  BY DEF IsMachine, Regs, Word
<1>2. CASE imm_overflows(imm)
  <2> DEFINE z == ExecAsm(x, Li("t0", imm))
  <2>1. y = ExecAsm(z, Arith("add", "sp", "sp", "t0"))
    BY <1>2 DEF Moved
  <2>2. IsMachine(z) /\ z.mem = x.mem /\ z.regs = [x.regs EXCEPT !["t0"] = imm]
    BY <1>1, LiDoes
  <2> HIDE DEF z, y
  <2>3. v = z.regs["sp"] + z.regs["t0"]
    BY <1>1, <2>2
  <2>4. IsMachine(y) /\ y.mem = z.mem /\ y.regs = [z.regs EXCEPT !["sp"] = v]
    BY <1>1, <2>1, <2>2, <2>3, AddDoes
  <2> QED
    BY <1>1, <2>2, <2>4 DEF Only, y
<1>3. CASE ~ imm_overflows(imm)
  <2>1. y = ExecAsm(x, Addi("sp", "sp", imm))
    BY <1>3 DEF Moved
  <2> HIDE DEF y
  <2>2. Fits(imm)
    BY <1>1, <1>3, NoOverflowFits
  <2>3. IsMachine(y) /\ y.mem = x.mem /\ y.regs = [x.regs EXCEPT !["sp"] = v]
    BY <1>1, <2>1, <2>2, AddiDoes
  <2> QED
    BY <1>1, <2>3 DEF Only, y
<1> QED
  BY <1>2, <1>3

\* sp is moved alone, after an instruction, or before one.
LEMMA MoveSpAlone ==
    ASSUME NEW x, NEW imm
    PROVE  /\ ExecAsmAll(x, <<>> \o <<>>) = x
           /\ ExecAsmAll(x, <<>> \o MoveSp(imm)) = Moved(x, imm)
           /\ ExecAsmAll(x, MoveSp(imm) \o <<>>) = Moved(x, imm)
<1> DEFINE c1 == Li("t0", imm)
           c2 == Arith("add", "sp", "sp", "t0")
           d == Addi("sp", "sp", imm)
           asm == MoveSp(imm)
<1>1. Moved(x, imm) = IF imm_overflows(imm) THEN ExecAsm(ExecAsm(x, c1), c2)
                      ELSE ExecAsm(x, d)
  BY DEF Moved
<1>2. asm = IF imm_overflows(imm) THEN <<c1, c2>> ELSE <<d>>
  BY DEF MoveSp
<1> HIDE DEF c1, c2, d, asm
<1>3. ExecAsmAll(x, <<>> \o <<>>) = x
  <2>1. <<>> \o <<>> = <<>>
    BY SomeLines
  <2> QED
    BY <2>1, ExecAsmAllIs
<1>4. ExecAsmAll(x, asm) = Moved(x, imm)
  <2>1. CASE imm_overflows(imm)
    <3>1. Lines2(asm, c1, c2)
      BY <1>2, <2>1, SomeLines
    <3> QED
      BY <1>1, <2>1, <3>1, ExecAsmAllIs
  <2>2. CASE ~ imm_overflows(imm)
    <3>1. Lines1(asm, d)
      BY <1>2, <2>2, SomeLines
    <3> QED
      BY <1>1, <2>2, <3>1, ExecAsmAllIs
  <2> QED
    BY <2>1, <2>2
<1>5. asm \o <<>> = asm /\ <<>> \o asm = asm
  BY <1>2, SomeLines
<1> QED
  BY <1>3, <1>4, <1>5 DEF asm

\* After an instruction: what an entry is.
LEMMA MoveSpAfter ==
    ASSUME NEW x, NEW c, NEW imm
    PROVE  ExecAsmAll(x, <<c>> \o MoveSp(imm)) = Moved(ExecAsm(x, c), imm)
<1> DEFINE c1 == Li("t0", imm)
           c2 == Arith("add", "sp", "sp", "t0")
           d == Addi("sp", "sp", imm)
           asm == MoveSp(imm)
           z == ExecAsm(x, c)
<1>1. Moved(z, imm) = IF imm_overflows(imm) THEN ExecAsm(ExecAsm(z, c1), c2)
                      ELSE ExecAsm(z, d)
  BY DEF Moved
<1>2. asm = IF imm_overflows(imm) THEN <<c1, c2>> ELSE <<d>>
  BY DEF MoveSp
<1> HIDE DEF c1, c2, d
<1>3. CASE imm_overflows(imm)
  <2>1. Lines3(<<c>> \o asm, c, c1, c2)
    BY <1>2, <1>3, SomeLines
  <2> QED
    BY <1>1, <1>3, <2>1, ExecAsmAllIs
<1>4. CASE ~ imm_overflows(imm)
  <2>1. Lines2(<<c>> \o asm, c, d)
    BY <1>2, <1>4, SomeLines
  <2> QED
    BY <1>1, <1>4, <2>1, ExecAsmAllIs
<1> QED
  BY <1>3, <1>4

\* Before an instruction: what a return is.
LEMMA MoveSpBefore ==
    ASSUME NEW x, NEW c, NEW imm
    PROVE  ExecAsmAll(x, MoveSp(imm) \o <<c>>) = ExecAsm(Moved(x, imm), c)
<1> DEFINE c1 == Li("t0", imm)
           c2 == Arith("add", "sp", "sp", "t0")
           d == Addi("sp", "sp", imm)
           asm == MoveSp(imm)
<1>1. Moved(x, imm) = IF imm_overflows(imm) THEN ExecAsm(ExecAsm(x, c1), c2)
                      ELSE ExecAsm(x, d)
  BY DEF Moved
<1>2. asm = IF imm_overflows(imm) THEN <<c1, c2>> ELSE <<d>>
  BY DEF MoveSp
<1> HIDE DEF c1, c2, d
<1>3. CASE imm_overflows(imm)
  <2>1. Lines3(asm \o <<c>>, c1, c2, c)
    BY <1>2, <1>3, SomeLines
  <2> QED
    BY <1>1, <1>3, <2>1, ExecAsmAllIs
<1>4. CASE ~ imm_overflows(imm)
  <2>1. Lines2(asm \o <<c>>, d, c)
    BY <1>2, <1>4, SomeLines
  <2> QED
    BY <1>1, <1>4, <2>1, ExecAsmAllIs
<1> QED
  BY <1>3, <1>4

\* Where ra is saved.
LEMMA SaveSlot ==
    ASSUME NEW a \in 1..StackTop, a % 16 = 0
    PROVE  a - 4 \in Memory /\ Fits(-4) /\ -4 \in Int
<1>1. StackTop \in Nat /\ Memory = {b \in 0..(StackTop - 4) : b % 4 = 0}
  BY MemoryIs
<1>2. a - 4 \in 0..(StackTop - 4) /\ (a - 4) % 4 = 0
  BY <1>1
<1>3. ImmLimit \in Nat /\ ImmLimit >= 4
  BY FramesAssumption, ImmLimitAssumption DEF FramesAssumption
<1> QED
  BY <1>1, <1>2, <1>3 DEF Fits

\* Entry: the frame is below, and ra where it ends.
LEMMA EntryDoes ==
    ASSUME NEW x, IsMachine(x), NEW f \in DOMAIN Funcs,
           x.regs["sp"] \in 1..StackTop, x.regs["sp"] % 16 = 0, Size(f) < x.regs["sp"]
    PROVE  LET y == ExecAsmAll(x, FuncDefAsm(Funcs[f]))
           IN  /\ IsMachine(y) /\ Only(x, y, {"sp", "t0"})
               /\ y.regs["sp"] = x.regs["sp"] - Size(f)
               /\ y.mem = IF Funcs[f].isleaf THEN x.mem
                          ELSE [x.mem EXCEPT ![x.regs["sp"] - 4] = x.regs["ra"]]
<1> DEFINE sp == x.regs["sp"]
           func == Funcs[f]
           c == Sw("ra", -4, "sp")
           size == STK(func.stacksize)
           y == ExecAsmAll(x, FuncDefAsm(func))
<1>1. Size(f) \in Nat /\ sp - Size(f) \in Word /\ Size(f) \in 0..StackTop /\ -Size(f) \in Word
  <2>1. Size(f) \in Nat
    BY SizeType
  <2>2. StackTop \in Nat /\ 0..StackTop \subseteq Word
    BY MemoryIs
  <2>3. sp - Size(f) \in 0..StackTop /\ Size(f) \in 0..StackTop
    BY <2>1, <2>2
  <2> QED
    BY <2>1, <2>2, <2>3, MemoryIs
<1>2. "ra" \in Regs
  BY DEF Regs
<1>3. CASE func.isleaf /\ ~ HasFrame(func)
  <2>1. FuncDefAsm(func) = <<>> \o <<>> /\ Size(f) = 0
    BY <1>3 DEF FuncDefAsm, Size
  <2> HIDE DEF func
  <2>2. y = x
    BY <2>1, MoveSpAlone
  <2> HIDE DEF y
  <2>3. sp = sp - Size(f)
    BY <2>1
  <2> QED
    BY <1>3, <2>2, <2>3 DEF y, func, Only
<1>4. CASE func.isleaf /\ HasFrame(func)
  <2>1. FuncDefAsm(func) = <<>> \o MoveSp(-size) /\ Size(f) = size
    BY <1>4 DEF FuncDefAsm, Size
  <2> HIDE DEF func, size
  <2>2. y = Moved(x, -size)
    <3>1. ExecAsmAll(x, <<>> \o MoveSp(-size)) = Moved(x, -size)
      BY MoveSpAlone
    <3> QED
      BY <2>1, <3>1
  <2> HIDE DEF y
  <2>3. -size \in Word /\ sp - size \in Word /\ sp - size = sp + (-size)
    BY <1>1, <2>1
  <2>4. IsMachine(y) /\ y.mem = x.mem /\ y.regs["sp"] = sp - size /\ Only(x, y, {"sp", "t0"})
    BY <2>2, <2>3, MovedDoes
  <2> QED
    BY <1>4, <2>1, <2>4 DEF y, func
<1>5. CASE ~ func.isleaf
  <2>1. FuncDefAsm(func) = <<c>> \o MoveSp(-size) /\ Size(f) = size
    BY <1>5 DEF FuncDefAsm, Size, HasFrame
  <2> HIDE DEF func, size
  <2> DEFINE z == ExecAsm(x, c)
  <2>2. y = Moved(z, -size)
    <3> HIDE DEF c
    <3> QED
      BY <2>1, MoveSpAfter
  <2>3. -size \in Word /\ sp - size \in Word /\ sp - size = sp + (-size)
    BY <1>1, <2>1
  <2>4. IsMachine(z) /\ z.regs = x.regs /\ z.mem = [x.mem EXCEPT ![sp - 4] = x.regs["ra"]]
    <3>1. sp - 4 \in Memory /\ Fits(-4) /\ sp - 4 = sp + (-4)
      BY SaveSlot
    <3> QED
      BY <1>2, <3>1, SwDoes
  <2> HIDE DEF y, z
  <2>5. IsMachine(y) /\ y.mem = z.mem /\ y.regs["sp"] = sp - size /\ Only(z, y, {"sp", "t0"})
    BY <2>2, <2>3, <2>4, MovedDoes
  <2> QED
    BY <1>5, <2>1, <2>4, <2>5 DEF y, func, Only
<1> QED
  BY <1>3, <1>4, <1>5

\* Up to the ret: the frame is gone, and ra is back.
LEMMA ExitDoes ==
    ASSUME NEW x, IsMachine(x), NEW f \in DOMAIN Funcs,
           x.regs["sp"] \in Nat, x.regs["sp"] % 16 = 0,
           x.regs["sp"] + Size(f) \in 1..StackTop
    PROVE  LET y == ExecAsmAll(x, RetAsm(Funcs[f]))
           IN  /\ IsMachine(y) /\ Only(x, y, {"sp", "t0", "ra"}) /\ y.mem = x.mem
               /\ y.regs["sp"] = x.regs["sp"] + Size(f)
               /\ y.regs["ra"] = IF Funcs[f].isleaf THEN x.regs["ra"]
                                 ELSE x.mem[x.regs["sp"] + Size(f) - 4]
<1> DEFINE sp == x.regs["sp"]
           func == Funcs[f]
           c == Lw("ra", -4, "sp")
           size == STK(func.stacksize)
           y == ExecAsmAll(x, RetAsm(func))
<1>1. /\ Size(f) \in Nat /\ Size(f) % 16 = 0 /\ sp + Size(f) \in Word
      /\ Size(f) \in 0..StackTop /\ Size(f) \in Word
  <2>1. Size(f) \in Nat /\ Size(f) % 16 = 0
    BY SizeType
  <2>2. StackTop \in Nat /\ 0..StackTop \subseteq Word
    BY MemoryIs
  <2>3. sp + Size(f) \in 0..StackTop /\ Size(f) \in 0..StackTop
    BY <2>1, <2>2
  <2> QED
    BY <2>1, <2>2, <2>3
<1>2. "ra" \in Regs \ {"x0"} /\ "sp" \in Regs /\ DOMAIN x.regs = Regs
  BY DEF Regs, IsMachine
<1>3. CASE func.isleaf /\ ~ HasFrame(func)
  <2>1. RetAsm(func) = <<>> \o <<>> /\ Size(f) = 0
    BY <1>3 DEF RetAsm, Size
  <2> HIDE DEF func
  <2>2. y = x
    BY <2>1, MoveSpAlone
  <2> HIDE DEF y
  <2>3. sp = sp + Size(f)
    BY <2>1
  <2> QED
    BY <1>3, <2>2, <2>3 DEF y, func, Only
<1>4. CASE func.isleaf /\ HasFrame(func)
  <2>1. RetAsm(func) = MoveSp(size) \o <<>> /\ Size(f) = size
    BY <1>4 DEF RetAsm, Size
  <2> HIDE DEF func, size
  <2>2. y = Moved(x, size)
    <3>1. ExecAsmAll(x, MoveSp(size) \o <<>>) = Moved(x, size)
      BY MoveSpAlone
    <3> QED
      BY <2>1, <3>1
  <2> HIDE DEF y
  <2>3. size \in Word /\ sp + size \in Word
    BY <1>1, <2>1
  <2>4. IsMachine(y) /\ y.mem = x.mem /\ y.regs["sp"] = sp + size /\ Only(x, y, {"sp", "t0"})
    BY <2>2, <2>3, MovedDoes
  <2> QED
    BY <1>2, <1>4, <2>1, <2>4 DEF y, func, Only
<1>5. CASE ~ func.isleaf
  <2>1. RetAsm(func) = MoveSp(size) \o <<c>> /\ Size(f) = size
    BY <1>5 DEF RetAsm, Size, HasFrame
  <2> HIDE DEF func, size
  <2> DEFINE z == Moved(x, size)
             a == sp + size - 4
  <2>2. y = ExecAsm(z, c)
    <3> HIDE DEF c
    <3> QED
      BY <2>1, MoveSpBefore
  <2>3. size \in Word /\ sp + size \in Word
    BY <1>1, <2>1
  <2>4. IsMachine(z) /\ z.mem = x.mem /\ z.regs["sp"] = sp + size /\ Only(x, z, {"sp", "t0"})
    BY <2>3, MovedDoes
  <2>5. a \in Memory /\ Fits(-4)
    <3>1. size \in Nat /\ size % 16 = 0 /\ sp \in Nat /\ sp % 16 = 0
          /\ sp + size \in 1..StackTop
      BY <1>1, <2>1
    <3> HIDE DEF sp
    <3>2. (sp + size) % 16 = 0
      BY <3>1
    <3> QED
      BY <3>1, <3>2, SaveSlot
  <2>6. a = z.regs["sp"] + (-4)
    BY <1>1, <2>1, <2>4
  <2> HIDE DEF y, z, a
  <2>7. IsMachine(y) /\ y.mem = z.mem /\ y.regs = [z.regs EXCEPT !["ra"] = z.mem[a]]
    BY <1>2, <2>2, <2>4, <2>5, <2>6, LwDoes
  <2>8. DOMAIN z.regs = Regs
    BY <2>4 DEF IsMachine
  <2> QED
    BY <1>2, <1>5, <2>1, <2>4, <2>7, <2>8 DEF y, a, func, Only
<1> QED
  BY <1>3, <1>4, <1>5

-------------------------------------------------------------------------------
(* What holds of all states.                                               *)

\* where the k-th frame ends, and sp
Base(k) == IF k = 1 THEN StackTop ELSE calls[k - 1].sp
SP      == IF calls = <<>> THEN StackTop ELSE Top.sp

\* bytes that each of MaxDepth calls can have
Share == (StackTop - 1) \div MaxDepth

\* what is known of a call in progress
CallRecord == [fn : DOMAIN Funcs, sp : Int, ret : {CallSite[c] : c \in DOMAIN CallSite}]

\* Frames are below each other and there is memory for all of them.
Layout ==
    /\ calls \in Seq(CallRecord)
    /\ Len(calls) <= MaxDepth
    /\ \A k \in DOMAIN calls :
         /\ calls[k].sp = Base(k) - Size(calls[k].fn)
         /\ calls[k].sp % 16 = 0
         /\ calls[k].sp >= StackTop - k * Share
         /\ Base(k) <= StackTop
         /\ \A j \in 1..(k - 1) : Base(k) <= calls[j].sp
         /\ k < Len(calls) => ~ Funcs[calls[k].fn].isleaf

\* Words hold data, and will when they belong to a frame; return addresses are
\* where the end of each function looks for them.
Contents ==
    /\ \A k \in DOMAIN calls : \A i \in Words(k) : m.mem[AddrOf(k, i)] \in Data
    /\ \A a \in Memory : a < SP => m.mem[a] \in Data
    /\ \A k \in DOMAIN calls :
         calls[k].ret = IF Funcs[calls[k].fn].isleaf THEN m.regs["ra"]
                        ELSE m.mem[Base(k) - 4]

\* A pointer points into a frame that is there.
Pointers ==
    /\ \A r \in DataRegs \ {"t0", "t1"} : m.regs[r] \in Data
    /\ m.regs[PtrReg] \in Data \cup UNION {{AddrOf(k, i) : i \in Words(k)} : k \in DOMAIN calls}

\* The inductive invariant.
IInv ==
    /\ IsMachine(m)
    /\ m.regs["sp"] = SP
    /\ Layout
    /\ Contents
    /\ Pointers

\* There is memory for MaxDepth frames.
LEMMA ShareIs ==
    /\ Share \in Nat /\ MaxDepth \in Nat /\ StackTop \in Nat /\ 0 < StackTop
    /\ \A f \in DOMAIN Funcs : Size(f) \in Nat /\ Size(f) <= Share
    /\ \A k \in 0..MaxDepth : /\ k * Share \in Nat /\ k * Share < StackTop
                              /\ (k + 1) * Share = k * Share + Share
<1> DEFINE n == MaxDepth
           t == StackTop - 1
           q == Share
<1>1. n \in Nat /\ n > 0
  BY FramesAssumption DEF FramesAssumption
<1>2. "main" \in DOMAIN Funcs
  BY FramesAssumption DEF FramesAssumption
<1>3. \A f \in DOMAIN Funcs : Size(f) \in Nat /\ n * Size(f) < StackTop
  BY SizeType
<1>4. t \in Nat
  <2>1. Size("main") \in Nat /\ n * Size("main") < StackTop /\ StackTop \in Nat
    BY <1>2, <1>3, MemoryIs
  <2> HIDE DEF n
  <2>2. n * Size("main") \in Nat
    BY <1>1, <2>1
  <2> QED
    BY <2>1, <2>2
<1>5. q = t \div n
  BY DEF Share
<1> HIDE DEF n, t, q
<1>6. q \in Nat /\ q * n <= t /\ t < q * n + n
  <2> DEFINE r == t % n
  <2>1. q \in Nat /\ r \in 0..(n - 1) /\ t = q * n + r
    BY <1>1, <1>4, <1>5
  <2> HIDE DEF r
  <2>2. q * n \in Nat
    BY <1>1, <2>1
  <2> QED
    BY <1>1, <2>1, <2>2
<1>7. ASSUME NEW z \in Nat, n * z < t + 1 PROVE z <= q
  <2> SUFFICES ASSUME z >= q + 1 PROVE FALSE
    BY <1>6
  <2>1. z * n >= (q + 1) * n /\ (q + 1) * n = q * n + n /\ n * z = z * n
    BY <1>1, <1>6
  <2>2. z * n \in Nat /\ q * n \in Nat
    BY <1>1, <1>6
  <2> HIDE DEF t
  <2> QED
    BY <1>1, <1>4, <1>6, <1>7, <2>1, <2>2
<1>8. ASSUME NEW k \in 0..n
      PROVE  k * q \in Nat /\ k * q < t + 1 /\ (k + 1) * q = k * q + q
  <2>1. k * q \in Nat /\ k * q <= n * q /\ n * q = q * n /\ (k + 1) * q = k * q + q
    BY <1>1, <1>6
  <2>2. q * n \in Nat
    BY <1>1, <1>6
  <2> QED
    BY <1>4, <1>6, <2>1, <2>2
<1>9. StackTop = t + 1 /\ StackTop \in Nat
  BY MemoryIs DEF t
<1> QED
  BY <1>1, <1>3, <1>4, <1>6, <1>7, <1>8, <1>9 DEF n, q

\* A frame and the call it belongs to.
LEMMA FrameIs ==
    ASSUME Layout, NEW k \in DOMAIN calls
    PROVE  /\ DOMAIN calls = 1..Len(calls) /\ Len(calls) \in Nat /\ k \in Nat
           /\ calls[k].fn \in DOMAIN Funcs /\ Size(calls[k].fn) \in Nat
           /\ Funcs[calls[k].fn].stacksize \in Nat
           /\ calls[k].ret \in {CallSite[c] : c \in DOMAIN CallSite}
           /\ calls[k].sp \in 16..StackTop /\ calls[k].sp % 16 = 0
           /\ Base(k) \in 16..StackTop /\ Base(k) % 16 = 0
           /\ Base(k) = calls[k].sp + Size(calls[k].fn)
<1>1. /\ DOMAIN calls = 1..Len(calls) /\ Len(calls) \in Nat /\ k \in 1..Len(calls)
      /\ \A j \in 1..Len(calls) : calls[j] \in CallRecord
  BY DEF Layout
<1>2. ASSUME NEW j \in 1..Len(calls)
      PROVE  /\ calls[j].sp \in 16..StackTop /\ calls[j].sp % 16 = 0
             /\ Size(calls[j].fn) \in Nat /\ calls[j].sp = Base(j) - Size(calls[j].fn)
             /\ Base(j) <= StackTop
  <2>1. /\ calls[j].sp \in Int /\ calls[j].sp % 16 = 0 /\ calls[j].sp >= StackTop - j * Share
        /\ calls[j].sp = Base(j) - Size(calls[j].fn) /\ Base(j) <= StackTop
        /\ calls[j].fn \in DOMAIN Funcs
    BY <1>1, <1>2 DEF Layout, CallRecord
  <2>2. j \in 0..MaxDepth /\ Size(calls[j].fn) \in Nat
    BY <1>1, <2>1, ShareIs DEF Layout
  <2>3. j * Share \in Nat /\ j * Share < StackTop /\ StackTop \in Nat
    BY <2>2, ShareIs
  <2> DEFINE y == j * Share
             sp == calls[j].sp
  <2> HIDE DEF y, sp
  <2>4. sp \in Int /\ sp % 16 = 0 /\ sp >= StackTop - y /\ y \in Nat /\ y < StackTop
    BY <2>1, <2>3 DEF y, sp
  <2>5. sp \in Nat /\ sp >= 16
    BY <2>3, <2>4
  <2>6. Base(j) \in Int
    BY <1>1, MemoryIs DEF Base, CallRecord
  <2>7. sp = Base(j) - Size(calls[j].fn)
    BY <2>1 DEF sp
  <2>8. sp <= StackTop
    <3> HIDE DEF Base
    <3> QED
      BY <2>1, <2>2, <2>3, <2>5, <2>6, <2>7
  <2> QED
    BY <2>1, <2>2, <2>5, <2>8 DEF sp
<1>3. Base(k) \in 16..StackTop /\ Base(k) % 16 = 0
  <2>1. CASE k = 1
    <3>1. StackTop \in Nat /\ StackTop % 16 = 0 /\ 0 < StackTop
      BY MemoryIs, ShareIs
    <3> QED
      BY <2>1, <3>1 DEF Base
  <2>2. CASE k # 1
    <3>1. k - 1 \in 1..Len(calls) /\ Base(k) = calls[k - 1].sp
      BY <1>1, <2>2 DEF Base
    <3> QED
      BY <1>2, <3>1
  <2> QED
    BY <2>1, <2>2
<1>4. Base(k) = calls[k].sp + Size(calls[k].fn)
  <2> HIDE DEF Base
  <2> QED
    BY <1>1, <1>2, <1>3
<1>5. calls[k].fn \in DOMAIN Funcs /\ calls[k].ret \in {CallSite[c] : c \in DOMAIN CallSite}
  BY <1>1 DEF CallRecord
<1>6. Funcs[calls[k].fn].stacksize \in Nat
  BY <1>5, FramesAssumption DEF FramesAssumption
<1> QED
  BY <1>1, <1>2, <1>3, <1>4, <1>5, <1>6

\* The words of a frame are in memory, below the place where ra is saved.
LEMMA WordIs ==
    ASSUME Layout, NEW k \in DOMAIN calls, NEW i \in Words(k)
    PROVE  /\ i \in Nat /\ AddrOf(k, i) \in Memory /\ AddrOf(k, i) \notin Data
           /\ AddrOf(k, i) = calls[k].sp + 4 * i
           /\ calls[k].sp <= AddrOf(k, i) /\ AddrOf(k, i) + 8 <= Base(k)
<1> DEFINE sp == calls[k].sp
           n == Funcs[calls[k].fn].stacksize
           size == Size(calls[k].fn)
           base == Base(k)
<1>1. /\ sp \in 16..StackTop /\ sp % 16 = 0 /\ base \in 16..StackTop /\ base = sp + size
      /\ n \in Nat /\ size \in Nat /\ base % 16 = 0
  BY FrameIs
<1>2. i \in 0..(n - 1)
  BY DEF Words
<1>3. size > 4 * n
  BY <1>1, <1>2, FrameIs, SizeType
<1>4. StackTop \in Nat /\ Memory = {a \in 0..(StackTop - 4) : a % 4 = 0}
  BY MemoryIs
<1> DEFINE a == sp + 4 * i
<1>5. AddrOf(k, i) = a
  BY DEF AddrOf
<1> HIDE DEF sp, n, size, base
<1>6. a + 4 < base /\ a % 4 = 0 /\ a \in Nat /\ base % 4 = 0
  BY <1>1, <1>2, <1>3
<1>7. a + 8 <= base
  <2> HIDE DEF a
  <2> QED
    BY <1>1, <1>6
<1>8. sp <= a
  BY <1>1, <1>2
<1> HIDE DEF a
<1>9. a \in Memory /\ a \notin Data
  BY <1>1, <1>4, <1>6, <1>7, <1>8 DEF Data
<1> QED
  BY <1>2, <1>5, <1>7, <1>8, <1>9 DEF a, sp, base

\* No two frames have a word in common, and none has the place of another's ra.
LEMMA WordsDiffer ==
    ASSUME Layout, NEW k \in DOMAIN calls, NEW i \in Words(k), NEW j \in DOMAIN calls
    PROVE  /\ \A l \in Words(j) : AddrOf(k, i) = AddrOf(j, l) => k = j /\ i = l
           /\ ~ Funcs[calls[j].fn].isleaf => AddrOf(k, i) # Base(j) - 4
<1> DEFINE size == Size(calls[j].fn)
<1>1. /\ k \in 1..Len(calls) /\ j \in 1..Len(calls) /\ k \in Nat /\ j \in Nat
      /\ calls[k].sp \in Nat /\ calls[j].sp \in Nat /\ Base(k) \in Nat /\ Base(j) \in Nat
      /\ Base(k) = calls[k].sp + Size(calls[k].fn) /\ Base(j) = calls[j].sp + size
      /\ size \in Nat
  <2>1. ASSUME NEW l \in DOMAIN calls
        PROVE  /\ l \in 1..Len(calls) /\ l \in Nat
               /\ calls[l].sp \in Nat /\ Base(l) \in Nat
               /\ Base(l) = calls[l].sp + Size(calls[l].fn) /\ Size(calls[l].fn) \in Nat
    <3>1. calls[l].sp \in 16..StackTop /\ Base(l) \in 16..StackTop
      BY FrameIs
    <3> HIDE DEF Base
    <3>2. calls[l].sp \in Nat /\ Base(l) \in Nat
      BY <3>1, MemoryIs
    <3> QED
      BY <3>2, FrameIs
  <2> QED
    BY <2>1
<1>2. /\ AddrOf(k, i) \in Nat /\ i \in Nat /\ AddrOf(k, i) = calls[k].sp + 4 * i
      /\ calls[k].sp <= AddrOf(k, i) /\ AddrOf(k, i) + 8 <= Base(k)
  BY WordIs, MemoryIs
<1>3. /\ k < j => Base(j) <= calls[k].sp
      /\ j < k => Base(k) <= calls[j].sp
  <2>1. /\ k < j => k \in 1..(j - 1)
        /\ j < k => j \in 1..(k - 1)
    BY <1>1
  <2> QED
    BY <2>1 DEF Layout
<1>4. ASSUME NEW l \in Words(j), AddrOf(k, i) = AddrOf(j, l)
      PROVE  k = j /\ i = l
  <2>1. /\ AddrOf(j, l) \in Nat /\ l \in Nat /\ AddrOf(j, l) = calls[j].sp + 4 * l
        /\ calls[j].sp <= AddrOf(j, l) /\ AddrOf(j, l) + 8 <= Base(j)
    BY WordIs, MemoryIs
  <2>2. k = j
    <3> DEFINE a == AddrOf(k, i)
    <3>1. a \in Nat /\ calls[k].sp <= a /\ a + 8 <= Base(k)
      BY <1>2
    <3>2. calls[j].sp <= a /\ a + 8 <= Base(j)
      BY <1>4, <2>1
    <3> HIDE DEF a, size
    <3>3. ~ (k < j)
      BY <1>1, <1>3, <3>1, <3>2
    <3>4. ~ (j < k)
      BY <1>1, <1>3, <3>1, <3>2
    <3> QED
      BY <1>1, <3>3, <3>4
  <2> QED
    BY <1>1, <1>2, <1>4, <2>1, <2>2
<1>5. ASSUME ~ Funcs[calls[j].fn].isleaf PROVE AddrOf(k, i) # Base(j) - 4
  <2>1. size > 0 /\ size % 16 = 0
    <3>1. calls[j].fn \in DOMAIN Funcs /\ Funcs[calls[j].fn].stacksize \in Nat
      BY FrameIs
    <3> QED
      BY <1>5, <3>1, SizeType
  <2>2. size >= 16
    <3> HIDE DEF size
    <3> QED
      BY <1>1, <2>1
  <2> DEFINE a == AddrOf(k, i)
             b == Base(j)
             sk == calls[k].sp
             sj == calls[j].sp
  <2>3. /\ a \in Nat /\ b \in Nat /\ sk \in Nat /\ sj \in Nat /\ b = sj + size
        /\ sk <= a /\ a + 8 <= Base(k) /\ Base(k) \in Nat /\ size \in Nat
        /\ (k < j => b <= sk) /\ (j < k => Base(k) <= sj)
    BY <1>1, <1>2, <1>3
  <2>4. k = j => a + 8 <= b
    BY <1>2
  <2> HIDE DEF size, a, b, sk, sj, Base
  <2>5. ASSUME k < j PROVE a # b - 4
    BY <2>3, <2>5
  <2>6. ASSUME k = j PROVE a # b - 4
    BY <2>3, <2>4, <2>6
  <2>7. ASSUME j < k PROVE a # b - 4
    BY <2>2, <2>3, <2>7
  <2>8. a # b - 4
    BY <1>1, <2>5, <2>6, <2>7
  <2> QED
    BY <2>8 DEF a, b
<1> QED
  BY <1>4, <1>5

\* sp is aligned and not above any frame.
LEMMA SPIs ==
    ASSUME Layout
    PROVE  /\ SP \in 16..StackTop /\ SP % 16 = 0 /\ SP = Base(Len(calls) + 1)
           /\ \A k \in DOMAIN calls : SP <= calls[k].sp /\ calls[k].sp <= Base(k)
           /\ calls # <<>> => /\ Len(calls) \in DOMAIN calls
                              /\ SP = calls[Len(calls)].sp
<1>1. /\ DOMAIN calls = 1..Len(calls) /\ Len(calls) \in Nat
      /\ calls = <<>> <=> Len(calls) = 0
  BY DEF Layout
<1>2. CASE calls = <<>>
  <2>1. StackTop \in Nat /\ StackTop % 16 = 0 /\ 0 < StackTop
    BY MemoryIs, ShareIs
  <2> QED
    BY <1>1, <1>2, <2>1 DEF SP, Base
<1>3. CASE calls # <<>>
  <2> DEFINE n == Len(calls)
  <2>1. n \in DOMAIN calls /\ SP = calls[n].sp /\ n + 1 # 1 /\ n \in Nat
    BY <1>1, <1>3 DEF SP, Top
  <2>2. SP \in 16..StackTop /\ SP % 16 = 0
    BY <2>1, FrameIs
  <2>3. SP = Base(n + 1)
    <3>1. (n + 1) - 1 = n
      BY <2>1
    <3> QED
      BY <2>1, <3>1 DEF Base
  <2>4. ASSUME NEW k \in DOMAIN calls
        PROVE  SP <= calls[k].sp /\ calls[k].sp <= Base(k)
    <3>1. calls[k].sp \in Nat /\ calls[k].sp <= Base(k)
      <4>1. /\ calls[k].sp \in 16..StackTop /\ Base(k) \in 16..StackTop
            /\ Base(k) = calls[k].sp + Size(calls[k].fn) /\ Size(calls[k].fn) \in Nat
        BY FrameIs
      <4> HIDE DEF n
      <4> QED
        BY <4>1
    <3>2. CASE k = n
      BY <2>1, <3>1, <3>2
    <3>3. CASE k # n
      <4>1. k \in 1..(n - 1)
        BY <1>1, <3>3
      <4>2. Base(n) <= calls[k].sp
        BY <2>1, <4>1 DEF Layout
      <4>3. calls[n].sp <= Base(n) /\ calls[n].sp \in Nat /\ Base(n) \in Nat
        <5>1. /\ calls[n].sp \in 16..StackTop /\ Base(n) \in 16..StackTop
              /\ Base(n) = calls[n].sp + Size(calls[n].fn) /\ Size(calls[n].fn) \in Nat
          BY <2>1, FrameIs
        <5> HIDE DEF n
        <5> QED
          BY <5>1
      <4> HIDE DEF n
      <4> QED
        BY <2>1, <3>1, <4>2, <4>3
    <3> QED
      BY <3>2, <3>3
  <2> QED
    BY <1>3, <2>1, <2>2, <2>3, <2>4
<1> QED
  BY <1>2, <1>3

\* The invariant is preserved by what leaves the calls as they are, if it writes
\* data into words of frames only.
LEMMA AccessKeeps ==
    ASSUME IInv, UNCHANGED calls, IsMachine(m)',
           m'.regs["sp"] = m.regs["sp"], m'.regs["ra"] = m.regs["ra"],
           Pointers',
           NEW k \in DOMAIN calls, NEW i \in Words(k), NEW v \in Data,
           m'.mem = m.mem \/ m'.mem = [m.mem EXCEPT ![AddrOf(k, i)] = v]
    PROVE  IInv'
<1> DEFINE a == AddrOf(k, i)
<1>1. Layout /\ Layout' /\ SP' = SP /\ DOMAIN m.mem = Memory
  <2>1. Layout' = Layout
    BY DEF Layout, Base
  <2> QED
    BY <2>1 DEF IInv, SP, Top, IsMachine
<1>2. /\ \A j : Words(j)' = Words(j) /\ Base(j)' = Base(j)
      /\ \A j, l : AddrOf(j, l)' = AddrOf(j, l)
  BY DEF Words, Base, AddrOf
<1>3. a \in Memory /\ a \in Nat /\ SP <= a /\ SP \in Nat
  <2>1. /\ a \in Memory /\ calls[k].sp <= a /\ calls[k].sp \in Nat /\ SP <= calls[k].sp
        /\ SP \in Nat
    <3>1. a \in Memory /\ calls[k].sp <= a
      BY <1>1, WordIs
    <3>2. calls[k].sp \in 16..StackTop /\ SP \in 16..StackTop /\ SP <= calls[k].sp
      BY <1>1, FrameIs, SPIs
    <3> HIDE DEF SP, a
    <3> QED
      BY <3>1, <3>2, MemoryIs
  <2>2. a \in Nat
    BY <2>1, MemoryIs
  <2> QED
    BY <2>1, <2>2
<1>4. \A b \in Memory : m'.mem[b] = m.mem[b] \/ (b = a /\ m'.mem[b] = v)
  BY <1>1
<1>5. \A j \in DOMAIN calls : \A l \in Words(j) : m'.mem[AddrOf(j, l)] \in Data
  <2> SUFFICES ASSUME NEW j \in DOMAIN calls, NEW l \in Words(j)
               PROVE  m'.mem[AddrOf(j, l)] \in Data
    OBVIOUS
  <2>1. AddrOf(j, l) \in Memory /\ m.mem[AddrOf(j, l)] \in Data
    BY <1>1, WordIs DEF IInv, Contents
  <2> QED
    BY <1>4, <2>1
<1>6. \A b \in Memory : b < SP => m'.mem[b] \in Data
  <2> SUFFICES ASSUME NEW b \in Memory, b < SP PROVE m'.mem[b] \in Data
    OBVIOUS
  <2>1. m.mem[b] \in Data
    BY DEF IInv, Contents
  <2> QED
    BY <1>4, <2>1
<1>7. \A j \in DOMAIN calls :
         calls[j].ret = IF Funcs[calls[j].fn].isleaf THEN m'.regs["ra"]
                        ELSE m'.mem[Base(j) - 4]
  <2> SUFFICES ASSUME NEW j \in DOMAIN calls, ~ Funcs[calls[j].fn].isleaf
               PROVE  m'.mem[Base(j) - 4] = m.mem[Base(j) - 4]
    BY DEF IInv, Contents
  <2>1. a # Base(j) - 4
    BY <1>1, WordsDiffer
  <2>2. Base(j) - 4 \in Memory
    <3>1. Base(j) \in 16..StackTop /\ Base(j) % 16 = 0
      BY <1>1, FrameIs
    <3> HIDE DEF Base
    <3>2. Base(j) \in 1..StackTop
      BY <3>1
    <3> QED
      BY <3>1, <3>2, SaveSlot
  <2> QED
    BY <1>4, <2>1, <2>2
<1>8. Contents'
  BY <1>1, <1>2, <1>5, <1>6, <1>7 DEF Contents
<1> QED
  BY <1>1, <1>8 DEF IInv

\* The frame that instructions see is the last one, and the registers that
\* programs use are none of those that the machine works with.
LEMMA TopIs ==
    ASSUME IInv, calls # <<>>
    PROVE  /\ Layout /\ Len(calls) \in DOMAIN calls /\ Len(calls) \in Nat
           /\ m.regs["sp"] = SP /\ SP = calls[Len(calls)].sp
           /\ SP \in Nat /\ SP % 16 = 0 /\ SP \in 16..StackTop
           /\ Func = Funcs[calls[Len(calls)].fn]
<1>1. Layout /\ m.regs["sp"] = SP
  BY DEF IInv
<1>2. Len(calls) \in Nat
  BY <1>1 DEF Layout
<1>3. SP \in 16..StackTop /\ SP % 16 = 0
  BY <1>1, SPIs
<1>4. SP \in Nat
  BY <1>3, MemoryIs
<1> QED
  BY <1>1, <1>2, <1>3, <1>4, SPIs DEF Func, Top

\* The registers of programs are none of those that the machine works with.
LEMMA RegistersAre ==
    /\ DataRegs \subseteq Regs \ {"x0", "sp", "ra"}
    /\ PtrReg \in Regs \ {"x0", "sp", "ra", "t0", "t1"}
    /\ PtrReg \notin DataRegs
    /\ {"x0", "sp", "ra", "t0", "t1"} \subseteq Regs
BY FramesAssumption DEF FramesAssumption, Regs

\* StoreStack writes the word of the last frame and at most scratch registers.
LEMMA StoreStackIs ==
    ASSUME IInv, calls # <<>>, NEW i \in Words(Len(calls)), NEW r \in DataRegs,
           m' = ExecAsmAll(m, StoreStackAsm(i, r))
    PROVE  /\ IsMachine(m') /\ Only(m, m', {"t0", "t1"} \ {r})
           /\ m'.mem = [m.mem EXCEPT ![AddrOf(Len(calls), i)] = m.regs[r]]
<1>1. IsMachine(m) /\ r \in Regs
  BY RegistersAre DEF IInv
<1>2. /\ i \in Nat /\ m.regs["sp"] \in Nat /\ m.regs["sp"] + 4 * i \in Memory
      /\ AddrOf(Len(calls), i) = m.regs["sp"] + 4 * i
  BY TopIs, WordIs
<1>3. i \in Nat /\ m.regs["sp"] \in Nat /\ m.regs["sp"] + 4 * i \in Memory
  BY <1>2
<1>4. LET y == ExecAsmAll(m, StoreStackAsm(i, r))
      IN  /\ IsMachine(y) /\ Only(m, y, {"t0", "t1"} \ {r})
          /\ y.mem = [m.mem EXCEPT ![m.regs["sp"] + 4 * i] = m.regs[r]]
  BY <1>1, <1>3, StoreStackDoes, ZenonT(20)
<1> QED
  BY <1>2, <1>4

\* LoadStack reads the word of the last frame.
LEMMA LoadStackIs ==
    ASSUME IInv, calls # <<>>, NEW i \in Words(Len(calls)),
           NEW r \in DataRegs \cup {PtrReg}, m' = ExecAsmAll(m, LoadStackAsm(r, i))
    PROVE  /\ IsMachine(m') /\ m'.mem = m.mem
           /\ m'.regs = [m.regs EXCEPT ![r] = m.mem[AddrOf(Len(calls), i)]]
<1>1. IsMachine(m) /\ r \in Regs \ {"x0", "sp"}
  BY RegistersAre DEF IInv
<1>2. /\ i \in Nat /\ m.regs["sp"] \in Nat /\ m.regs["sp"] + 4 * i \in Memory
      /\ AddrOf(Len(calls), i) = m.regs["sp"] + 4 * i
  BY TopIs, WordIs
<1>3. i \in Nat /\ m.regs["sp"] \in Nat /\ m.regs["sp"] + 4 * i \in Memory
  BY <1>2
<1>4. LET y == ExecAsmAll(m, LoadStackAsm(r, i))
      IN  /\ IsMachine(y) /\ y.mem = m.mem
          /\ y.regs = [m.regs EXCEPT ![r] = m.mem[m.regs["sp"] + 4 * i]]
  BY <1>1, <1>3, LoadStackDoes, ZenonT(20)
<1> QED
  BY <1>2, <1>4

\* LoadAddrStack yields a pointer into the last frame.
LEMMA LoadAddrStackIs ==
    ASSUME IInv, calls # <<>>, NEW i \in Words(Len(calls)),
           m' = ExecAsmAll(m, LoadAddrStackAsm(PtrReg, i))
    PROVE  /\ IsMachine(m') /\ m'.mem = m.mem
           /\ m'.regs = [m.regs EXCEPT ![PtrReg] = AddrOf(Len(calls), i)]
<1>1. IsMachine(m) /\ PtrReg \in Regs \ {"x0", "sp"}
  BY RegistersAre DEF IInv
<1>2. /\ i \in Nat /\ m.regs["sp"] \in Nat /\ m.regs["sp"] + 4 * i \in Memory
      /\ AddrOf(Len(calls), i) = m.regs["sp"] + 4 * i
  BY TopIs, WordIs
<1>3. i \in Nat /\ m.regs["sp"] \in Nat /\ m.regs["sp"] + 4 * i \in Memory
  BY <1>2
<1>4. LET y == ExecAsmAll(m, LoadAddrStackAsm(PtrReg, i))
      IN  /\ IsMachine(y) /\ y.mem = m.mem
          /\ y.regs = [m.regs EXCEPT ![PtrReg] = m.regs["sp"] + 4 * i]
  BY <1>1, <1>3, LoadAddrStackDoes, ZenonT(20)
<1> QED
  BY <1>2, <1>4

\* Four bytes a word.
LEMMA PointedAt ==
    ASSUME IInv, NEW k \in DOMAIN calls, NEW i \in Words(k), NEW off \in Int,
           i + off \in Words(k), m.regs[PtrReg] = AddrOf(k, i)
    PROVE  /\ AddrOf(k, i + off) \in Memory
           /\ AddrOf(k, i + off) = m.regs[PtrReg] + 4 * off
<1>1. Layout
  BY DEF IInv
<1>2. /\ AddrOf(k, i + off) \in Memory /\ AddrOf(k, i + off) = calls[k].sp + 4 * (i + off)
      /\ AddrOf(k, i) = calls[k].sp + 4 * i /\ i \in Nat
  BY <1>1, WordIs
<1>3. calls[k].sp \in Int
  BY <1>1, FrameIs
<1> QED
  BY <1>2, <1>3

\* Offsets within a frame are words when counted in bytes.
LEMMA OffsetIs ==
    ASSUME Layout, NEW off \in Indices
    PROVE  off \in Nat /\ 4 * off \in Word /\ 4 * off \in Int
<1>1. PICK k \in DOMAIN calls : off \in Words(k)
  BY DEF Indices
<1>2. off \in Nat /\ AddrOf(k, off) \in Memory /\ AddrOf(k, off) = calls[k].sp + 4 * off
      /\ calls[k].sp \in Nat /\ StackTop \in Nat
  <2>1. calls[k].sp \in 16..StackTop
    BY FrameIs
  <2>2. calls[k].sp \in Nat
    BY <2>1, MemoryIs
  <2> QED
    BY <1>1, <2>2, WordIs, MemoryIs
<1>3. 4 * off \in 0..StackTop
  <2>1. AddrOf(k, off) \in 0..StackTop
    BY <1>2, MemoryIs
  <2> QED
    BY <1>2, <2>1
<1> QED
  BY <1>2, <1>3, MemoryIs

\* ArraySet writes the word that is off further in the frame pointed into.
LEMMA ArraySetIs ==
    ASSUME IInv, NEW k \in DOMAIN calls, NEW i \in Words(k), NEW off \in Indices,
           i + off \in Words(k), m.regs[PtrReg] = AddrOf(k, i), NEW r \in DataRegs,
           ArraySetOK(4 * off), m' = ExecAsmAll(m, ArraySetAsm(PtrReg, 4 * off, r))
    PROVE  /\ IsMachine(m') /\ m'.regs = m.regs
           /\ m'.mem = [m.mem EXCEPT ![AddrOf(k, i + off)] = m.regs[r]]
<1>1. IsMachine(m) /\ r \in Regs /\ off \in Int /\ 4 * off \in Int
  BY RegistersAre, OffsetIs DEF IInv
<1> DEFINE a == AddrOf(k, i + off)
<1>2. a \in Memory /\ a = m.regs[PtrReg] + 4 * off
  BY <1>1, PointedAt
<1> HIDE DEF a
<1>3. LET y == ExecAsmAll(m, ArraySetAsm(PtrReg, 4 * off, r))
      IN  /\ IsMachine(y) /\ y.regs = m.regs
          /\ y.mem = [m.mem EXCEPT ![a] = m.regs[r]]
  BY <1>1, <1>2, ArraySetDoes
<1> QED
  BY <1>3 DEF a

\* ArrayGet reads it.
LEMMA ArrayGetIs ==
    ASSUME IInv, NEW k \in DOMAIN calls, NEW i \in Words(k), NEW off \in Indices,
           i + off \in Words(k), m.regs[PtrReg] = AddrOf(k, i), NEW r \in DataRegs,
           m' = ExecAsmAll(m, ArrayGetAsm(r, PtrReg, 4 * off))
    PROVE  /\ IsMachine(m') /\ m'.mem = m.mem /\ Only(m, m', {r, "t0"})
           /\ m'.regs[r] = m.mem[AddrOf(k, i + off)]
<1>1. /\ IsMachine(m) /\ r \in Regs \ {"x0"} /\ off \in Int /\ 4 * off \in Word
      /\ PtrReg \in Regs /\ PtrReg # "t0"
  BY RegistersAre, OffsetIs DEF IInv
<1> DEFINE a == AddrOf(k, i + off)
           imm == 4 * off
<1>2. a \in Memory /\ a = m.regs[PtrReg] + imm /\ imm \in Word
  BY <1>1, PointedAt
<1> HIDE DEF a, imm
<1>3. LET y == ExecAsmAll(m, ArrayGetAsm(r, PtrReg, imm))
      IN  /\ IsMachine(y) /\ y.mem = m.mem
          /\ y.regs[r] = m.mem[a] /\ Only(m, y, {r, "t0"})
  BY <1>1, <1>2, ArrayGetDoes
<1> QED
  BY <1>3 DEF a, imm

-------------------------------------------------------------------------------
(* The accesses preserve the invariant.                                    *)

\* StoreStack writes data.
LEMMA StoreStackKeeps ==
    ASSUME IInv, calls # <<>>, StoreStack
    PROVE  IInv'
<1> DEFINE k == Len(calls)
<1>1. PICK i \in Ends(k), r \in DataRegs :
         m.regs[r] \in Data /\ m' = ExecAsmAll(m, StoreStackAsm(i, r))
  BY DEF StoreStack, Run
<1>2. k \in DOMAIN calls /\ i \in Words(k) /\ calls' = calls
  BY TopIs DEF Ends, StoreStack
<1>3. /\ IsMachine(m') /\ Only(m, m', {"t0", "t1"} \ {r})
      /\ m'.mem = [m.mem EXCEPT ![AddrOf(k, i)] = m.regs[r]]
  BY <1>1, <1>2, StoreStackIs
<1>4. \A q \in Regs \ {"t0", "t1"} : m'.regs[q] = m.regs[q]
  BY <1>3 DEF Only
<1>5. Pointers'
  <2>1. \A q \in DataRegs \ {"t0", "t1"} : m'.regs[q] \in Data
    BY <1>4, RegistersAre DEF IInv, Pointers
  <2>2. m'.regs[PtrReg] = m.regs[PtrReg]
    BY <1>4, RegistersAre
  <2> QED
    BY <1>2, <2>1, <2>2 DEF IInv, Pointers, AddrOf, Words
<1>6. m'.regs["sp"] = m.regs["sp"] /\ m'.regs["ra"] = m.regs["ra"]
  BY <1>4, RegistersAre
<1>7. IsMachine(m)'
  BY <1>3 DEF IsMachine
<1> HIDE DEF k
<1> QED
  BY <1>1, <1>2, <1>3, <1>5, <1>6, <1>7, AccessKeeps

\* LoadStack brings data.
LEMMA LoadStackKeeps ==
    ASSUME IInv, calls # <<>>, LoadStack
    PROVE  IInv'
<1> DEFINE k == Len(calls)
<1>1. PICK i \in Ends(k), r \in DataRegs \cup {PtrReg} :
         m' = ExecAsmAll(m, LoadStackAsm(r, i))
  BY DEF LoadStack, Run
<1>2. k \in DOMAIN calls /\ i \in Words(k) /\ calls' = calls
  BY TopIs DEF Ends, LoadStack
<1> DEFINE v == m.mem[AddrOf(k, i)]
<1>3. IsMachine(m') /\ m'.mem = m.mem /\ m'.regs = [m.regs EXCEPT ![r] = v]
  BY <1>1, <1>2, LoadStackIs
<1>4. v \in Data
  BY <1>2 DEF IInv, Contents
<1> HIDE DEF v
<1>5. \A q \in Regs : m'.regs[q] = IF q = r THEN v ELSE m.regs[q]
  BY <1>3 DEF IInv, IsMachine
<1>6. Pointers'
  BY <1>2, <1>4, <1>5, RegistersAre DEF IInv, Pointers, AddrOf, Words
<1>7. m'.regs["sp"] = m.regs["sp"] /\ m'.regs["ra"] = m.regs["ra"]
  BY <1>5, RegistersAre
<1>8. IsMachine(m)'
  BY <1>3 DEF IsMachine
<1> HIDE DEF k
<1> QED
  BY <1>2, <1>3, <1>4, <1>6, <1>7, <1>8, AccessKeeps

\* LoadAddrStack makes a pointer into a frame that is there.
LEMMA LoadAddrStackKeeps ==
    ASSUME IInv, calls # <<>>, LoadAddrStack
    PROVE  IInv'
<1> DEFINE k == Len(calls)
<1>1. PICK i \in Ends(k) : m' = ExecAsmAll(m, LoadAddrStackAsm(PtrReg, i))
  BY DEF LoadAddrStack, Run
<1>2. k \in DOMAIN calls /\ i \in Words(k) /\ calls' = calls
  BY TopIs DEF Ends, LoadAddrStack
<1>3. /\ IsMachine(m') /\ m'.mem = m.mem
      /\ m'.regs = [m.regs EXCEPT ![PtrReg] = AddrOf(k, i)]
  BY <1>1, <1>2, LoadAddrStackIs
<1>4. \A q \in Regs : m'.regs[q] = IF q = PtrReg THEN AddrOf(k, i) ELSE m.regs[q]
  BY <1>3 DEF IInv, IsMachine
<1>5. Pointers'
  <2>1. \A r \in DataRegs \ {"t0", "t1"} : m'.regs[r] \in Data
    BY <1>4, RegistersAre DEF IInv, Pointers
  <2>2. m'.regs[PtrReg] = AddrOf(k, i)
    BY <1>4, RegistersAre
  <2>3. \A j, l : AddrOf(j, l)' = AddrOf(j, l) /\ Words(j)' = Words(j)
    BY <1>2 DEF AddrOf, Words
  <2> QED
    BY <1>2, <2>1, <2>2, <2>3 DEF Pointers
<1>6. m'.regs["sp"] = m.regs["sp"] /\ m'.regs["ra"] = m.regs["ra"]
  BY <1>4, RegistersAre
<1>7. IsMachine(m)' /\ 0 \in Data
  BY <1>3 DEF IsMachine, Data
<1> HIDE DEF k
<1> QED
  BY <1>2, <1>3, <1>5, <1>6, <1>7, AccessKeeps

\* ArraySet writes data to a word of a frame, never over a return address.
LEMMA ArraySetKeeps ==
    ASSUME IInv, calls # <<>>, ArraySet
    PROVE  IInv'
<1>1. PICK off \in Indices, r \in DataRegs :
         /\ PointsAt(off) /\ m.regs[r] \in Data /\ ArraySetOK(4 * off)
         /\ m' = ExecAsmAll(m, ArraySetAsm(PtrReg, 4 * off, r))
  BY DEF ArraySet, Run
<1>2. PICK k \in DOMAIN calls : \E i \in Ends(k) :
         i + off \in Ends(k) /\ m.regs[PtrReg] = AddrOf(k, i)
  BY <1>1 DEF PointsAt
<1>3. PICK i \in Words(k) : i + off \in Words(k) /\ m.regs[PtrReg] = AddrOf(k, i)
  BY <1>2 DEF Ends
<1>4. calls' = calls
  BY DEF ArraySet
<1>5. /\ IsMachine(m') /\ m'.regs = m.regs
      /\ m'.mem = [m.mem EXCEPT ![AddrOf(k, i + off)] = m.regs[r]]
  BY <1>1, <1>3, ArraySetIs
<1>6. Pointers'
  BY <1>4, <1>5 DEF IInv, Pointers, AddrOf, Words
<1>7. IsMachine(m)'
  BY <1>5 DEF IsMachine
<1> QED
  BY <1>1, <1>3, <1>4, <1>5, <1>6, <1>7, AccessKeeps

\* ArrayGet brings data.
LEMMA ArrayGetKeeps ==
    ASSUME IInv, calls # <<>>, ArrayGet
    PROVE  IInv'
<1>1. PICK off \in Indices, r \in DataRegs :
         /\ PointsAt(off)
         /\ m' = ExecAsmAll(m, ArrayGetAsm(r, PtrReg, 4 * off))
  BY DEF ArrayGet, Run
<1>2. PICK k \in DOMAIN calls : \E i \in Ends(k) :
         i + off \in Ends(k) /\ m.regs[PtrReg] = AddrOf(k, i)
  BY <1>1 DEF PointsAt
<1>3. PICK i \in Words(k) : i + off \in Words(k) /\ m.regs[PtrReg] = AddrOf(k, i)
  BY <1>2 DEF Ends
<1>4. calls' = calls
  BY DEF ArrayGet
<1> DEFINE v == m.mem[AddrOf(k, i + off)]
<1>5. IsMachine(m') /\ m'.mem = m.mem /\ Only(m, m', {r, "t0"}) /\ m'.regs[r] = v
  BY <1>1, <1>3, ArrayGetIs
<1>6. v \in Data
  BY <1>3 DEF IInv, Contents
<1> HIDE DEF v
<1>7. \A q \in Regs \ {r, "t0"} : m'.regs[q] = m.regs[q]
  BY <1>5 DEF Only
<1>8. Pointers'
  BY <1>4, <1>5, <1>6, <1>7, RegistersAre DEF IInv, Pointers, AddrOf, Words
<1>9. m'.regs["sp"] = m.regs["sp"] /\ m'.regs["ra"] = m.regs["ra"]
  BY <1>7, RegistersAre
<1>10. IsMachine(m)'
  BY <1>5 DEF IsMachine
<1> QED
  BY <1>3, <1>4, <1>5, <1>6, <1>8, <1>9, <1>10, AccessKeeps

-------------------------------------------------------------------------------
(* Calls and returns.                                                      *)

\* ra is saved above the words of the frame, those of outer frames are above it.
LEMMA SavedRaIs ==
    ASSUME Layout, NEW k \in DOMAIN calls, ~ Funcs[calls[k].fn].isleaf
    PROVE  Base(k) - 4 \in Memory /\ calls[k].sp <= Base(k) - 4
<1> DEFINE size == Size(calls[k].fn)
<1>1. /\ Base(k) \in 16..StackTop /\ Base(k) % 16 = 0 /\ calls[k].sp \in 16..StackTop
      /\ Base(k) = calls[k].sp + size /\ size \in Nat
      /\ calls[k].fn \in DOMAIN Funcs /\ Funcs[calls[k].fn].stacksize \in Nat
  BY FrameIs
<1>2. size > 0 /\ size % 16 = 0
  BY <1>1, SizeType
<1> HIDE DEF size
<1>3. size >= 16
  BY <1>1, <1>2
<1>4. Base(k) \in 1..StackTop
  BY <1>1
<1> QED
  BY <1>1, <1>3, <1>4, SaveSlot

\* No one reads what the frames do not have.
LEMMA ForgetKeeps ==
    ASSUME Layout, NEW mem, mem \in [Memory -> Word], NEW sp
    PROVE  /\ Forget(mem, sp) \in [Memory -> Word]
           /\ \A a \in Memory : Forget(mem, sp)[a] = IF a < sp THEN 0 ELSE mem[a]
<1>1. 0 \in Word
  BY MemoryIs
<1> QED
  BY <1>1 DEF Forget

\* A library function leaves what it has to save and what is not below sp.
LEMMA CallLibraryIs ==
    ASSUME IInv, calls # <<>>, CallLibrary
    PROVE  /\ IsMachine(m') /\ calls' = calls
           /\ \A r \in Regs : m'.regs[r] = IF r \in CalleeSaved \cup {"x0", "sp"}
                                           THEN m.regs[r] ELSE 0
           /\ \A a \in Memory : m'.mem[a] = IF a < SP THEN 0 ELSE m.mem[a]
<1>1. IsMachine(m) /\ Layout /\ m.regs["sp"] = SP
  BY DEF IInv
<1> DEFINE rs == [r \in Regs |-> IF r \in CalleeSaved \cup {"x0", "sp"}
                                 THEN m.regs[r] ELSE 0]
           ms == Forget(m.mem, SP)
<1>2. m' = [m EXCEPT !.regs = rs, !.mem = ms]
  BY <1>1 DEF CallLibrary
<1>3. ms \in [Memory -> Word] /\ \A a \in Memory : ms[a] = IF a < SP THEN 0 ELSE m.mem[a]
  BY <1>1, ForgetKeeps DEF IsMachine
<1>4. 0 \in Word /\ "x0" \in Regs
  BY MemoryIs, RegistersAre
<1>5. rs \in [Regs -> Word] /\ rs["x0"] = 0
  BY <1>1, <1>4 DEF IsMachine
<1>6. /\ \A r \in Regs : rs[r] = IF r \in CalleeSaved \cup {"x0", "sp"}
                                 THEN m.regs[r] ELSE 0
  OBVIOUS
<1> HIDE DEF rs, ms
<1>7. DOMAIN m' = {"regs", "mem", "ok"} /\ m'.ok /\ m'.regs = rs /\ m'.mem = ms
  BY <1>1, <1>2 DEF IsMachine
<1>8. IsMachine(m')
  BY <1>3, <1>5, <1>7 DEF IsMachine
<1> QED
  BY <1>3, <1>6, <1>7, <1>8 DEF CallLibrary

\* ra is lost, but every function that is running has saved it.
LEMMA CallLibraryKeeps ==
    ASSUME IInv, calls # <<>>, CallLibrary
    PROVE  IInv'
<1>1. /\ IsMachine(m') /\ calls' = calls
      /\ \A r \in Regs : m'.regs[r] = IF r \in CalleeSaved \cup {"x0", "sp"}
                                      THEN m.regs[r] ELSE 0
      /\ \A a \in Memory : m'.mem[a] = IF a < SP THEN 0 ELSE m.mem[a]
  BY CallLibraryIs
<1>2. /\ Layout /\ Layout' /\ SP' = SP
      /\ \A j : Words(j)' = Words(j) /\ Base(j)' = Base(j)
      /\ \A j, l : AddrOf(j, l)' = AddrOf(j, l)
  <2>1. Layout' = Layout
    BY <1>1 DEF Layout, Base
  <2> QED
    BY <1>1, <2>1 DEF IInv, SP, Top, Words, Base, AddrOf
<1>3. m'.regs["sp"] = m.regs["sp"] /\ m.regs["sp"] = SP
  BY <1>1, RegistersAre DEF IInv
<1>4. \A j \in DOMAIN calls : \A l \in Words(j) : m'.mem[AddrOf(j, l)] \in Data
  <2> SUFFICES ASSUME NEW j \in DOMAIN calls, NEW l \in Words(j)
               PROVE  m'.mem[AddrOf(j, l)] \in Data
    OBVIOUS
  <2>1. AddrOf(j, l) \in Memory /\ m.mem[AddrOf(j, l)] \in Data
    BY <1>2, WordIs DEF IInv, Contents
  <2> QED
    BY <1>1, <2>1 DEF Data
<1>5. \A b \in Memory : b < SP => m'.mem[b] \in Data
  BY <1>1 DEF Data
<1>6. \A j \in DOMAIN calls : ~ Funcs[calls[j].fn].isleaf
  <2> SUFFICES ASSUME NEW j \in DOMAIN calls PROVE ~ Funcs[calls[j].fn].isleaf
    OBVIOUS
  <2>1. j \in 1..Len(calls) /\ Len(calls) \in Nat
    BY <1>2 DEF Layout
  <2>2. CASE j = Len(calls)
    BY <2>2 DEF CallLibrary, Func, Top
  <2>3. CASE j # Len(calls)
    BY <1>2, <2>1, <2>3 DEF Layout
  <2> QED
    BY <2>2, <2>3
<1>7. \A j \in DOMAIN calls : calls[j].ret = m'.mem[Base(j) - 4]
  <2> SUFFICES ASSUME NEW j \in DOMAIN calls PROVE calls[j].ret = m'.mem[Base(j) - 4]
    OBVIOUS
  <2>1. calls[j].ret = m.mem[Base(j) - 4]
    BY <1>6 DEF IInv, Contents
  <2>2. Base(j) - 4 \in Memory /\ calls[j].sp <= Base(j) - 4
    BY <1>2, <1>6, SavedRaIs
  <2>3. SP <= calls[j].sp /\ SP \in Nat /\ calls[j].sp \in Nat
    BY <1>2, SPIs, FrameIs, MemoryIs
  <2>4. Base(j) - 4 \in Nat
    BY <2>2, MemoryIs
  <2> DEFINE b == Base(j) - 4
  <2>5. b \in Memory /\ ~ (b < SP)
    <3> HIDE DEF Base
    <3> QED
      BY <2>2, <2>3, <2>4
  <2> HIDE DEF b
  <2>6. m'.mem[b] = m.mem[b]
    BY <1>1, <2>5
  <2> QED
    BY <2>1, <2>6 DEF b
<1>8. Contents'
  BY <1>1, <1>2, <1>4, <1>5, <1>6, <1>7 DEF Contents
<1>9. Pointers'
  <2>1. \A q \in DataRegs \ {"t0", "t1"} : m'.regs[q] \in Data
    BY <1>1, RegistersAre DEF IInv, Pointers, Data
  <2>2. m'.regs[PtrReg] = m.regs[PtrReg] \/ m'.regs[PtrReg] \in Data
    BY <1>1, RegistersAre DEF Data
  <2> QED
    BY <1>1, <1>2, <2>1, <2>2 DEF IInv, Pointers
<1>10. IsMachine(m)'
  BY <1>1 DEF IsMachine
<1> QED
  BY <1>2, <1>3, <1>8, <1>9, <1>10 DEF IInv

\* One more frame fits.
LEMMA RoomIs ==
    ASSUME Layout, Len(calls) < MaxDepth, NEW f \in DOMAIN Funcs
    PROVE  /\ Size(f) \in Nat /\ Size(f) < SP
           /\ SP - Size(f) >= StackTop - (Len(calls) + 1) * Share
           /\ (SP - Size(f)) % 16 = 0
<1> DEFINE n == Len(calls)
           size == Size(f)
<1>1. n \in Nat /\ n \in 0..MaxDepth /\ n + 1 \in 0..MaxDepth /\ n < MaxDepth
  BY ShareIs DEF Layout
<1>2. /\ size \in Nat /\ size <= Share /\ Share \in Nat /\ StackTop \in Nat
      /\ n * Share \in Nat /\ (n + 1) * Share = n * Share + Share
      /\ (n + 1) * Share < StackTop
  BY <1>1, ShareIs
<1>3. SP \in 16..StackTop /\ SP % 16 = 0 /\ size % 16 = 0
  BY SPIs, SizeType
<1>4. SP >= StackTop - n * Share
  <2>1. CASE calls = <<>>
    BY <1>2, <2>1 DEF SP
  <2>2. CASE calls # <<>>
    BY <2>2, SPIs DEF Layout
  <2> QED
    BY <2>1, <2>2
<1> HIDE DEF size
<1> DEFINE y == n * Share
<1>5. y \in Nat /\ SP >= StackTop - y /\ y + Share < StackTop /\ (n + 1) * Share = y + Share
  BY <1>2, <1>4
<1> HIDE DEF y
<1>6. size < SP /\ SP - size >= StackTop - (y + Share)
  BY <1>2, <1>3, <1>5
<1>7. (SP - size) % 16 = 0
  <2> DEFINE s == SP
  <2>1. s \in Int /\ s % 16 = 0 /\ size \in Int /\ size % 16 = 0
    BY <1>2, <1>3
  <2> HIDE DEF s
  <2>2. (s - size) % 16 = 0
    BY <2>1
  <2> QED
    BY <2>2 DEF s
<1> QED
  BY <1>2, <1>5, <1>6, <1>7 DEF size

\* A call puts a frame below sp and keeps where to return to, in ra or above the
\* frame's words.
LEMMA CallIs ==
    ASSUME IInv, Call
    PROVE  \E f \in DOMAIN Funcs : \E ret \in {CallSite[c] : c \in DOMAIN CallSite} :
             /\ calls' = Append(calls, [fn |-> f, sp |-> SP - Size(f), ret |-> ret])
             /\ IsMachine(m') /\ m'.regs["sp"] = SP - Size(f) /\ ret \in Word
             /\ \A q \in Regs \ {"sp", "ra", "t0"} : m'.regs[q] = m.regs[q]
             /\ Funcs[f].isleaf => m'.mem = m.mem /\ m'.regs["ra"] = ret
             /\ ~ Funcs[f].isleaf => m'.mem = [m.mem EXCEPT ![SP - 4] = ret]
<1> DEFINE ret == CallSite[IF calls = <<>> THEN "runtime" ELSE Top.fn]
           x == SetReg(m, "ra", ret)
<1>1. PICK f \in DOMAIN Funcs :
        /\ m' = ExecAsmAll(x, FuncDefAsm(Funcs[f]))
        /\ calls' = Append(calls, [fn |-> f, sp |-> m'.regs["sp"], ret |-> ret])
  BY DEF Call
<1>2. IsMachine(m) /\ Layout /\ m.regs["sp"] = SP /\ DOMAIN m.regs = Regs
      /\ Len(calls) < MaxDepth
  BY DEF IInv, Call, IsMachine
<1>3. /\ CallSite \in [DOMAIN Funcs \cup {"runtime"} -> Word]
  BY FramesAssumption DEF FramesAssumption
<1>4. calls # <<>> => Top.fn \in DOMAIN Funcs
  BY <1>2, SPIs, FrameIs DEF Top
<1>5. ret \in Word /\ ret \in {CallSite[c] : c \in DOMAIN CallSite}
  BY <1>3, <1>4
<1> HIDE DEF ret
<1>6. "ra" \in Regs \ {"x0"} /\ {"sp", "ra", "t0", "x0"} \subseteq Regs
  BY RegistersAre
<1>7. IsMachine(x) /\ x.regs = [m.regs EXCEPT !["ra"] = ret] /\ x.mem = m.mem
  BY <1>2, <1>5, <1>6, SetRegDoes
<1>8. /\ x.regs["sp"] = SP /\ x.regs["ra"] = ret
      /\ \A q \in Regs \ {"ra"} : x.regs[q] = m.regs[q]
  BY <1>2, <1>6, <1>7
<1> HIDE DEF x
<1>9. SP \in 1..StackTop /\ SP % 16 = 0 /\ Size(f) < SP
  <2>1. SP \in 16..StackTop /\ SP % 16 = 0 /\ Size(f) < SP
    BY <1>2, SPIs, RoomIs
  <2> HIDE DEF SP
  <2> QED
    BY <2>1
<1>10. LET y == ExecAsmAll(x, FuncDefAsm(Funcs[f]))
       IN  /\ IsMachine(y) /\ Only(x, y, {"sp", "t0"})
           /\ y.regs["sp"] = x.regs["sp"] - Size(f)
           /\ y.mem = IF Funcs[f].isleaf THEN x.mem
                      ELSE [x.mem EXCEPT ![x.regs["sp"] - 4] = x.regs["ra"]]
  BY <1>7, <1>8, <1>9, EntryDoes
<1>11. /\ IsMachine(m') /\ Only(x, m', {"sp", "t0"}) /\ m'.regs["sp"] = SP - Size(f)
       /\ m'.mem = IF Funcs[f].isleaf THEN m.mem ELSE [m.mem EXCEPT ![SP - 4] = ret]
  BY <1>1, <1>7, <1>8, <1>10
<1>12. /\ \A q \in Regs \ {"sp", "ra", "t0"} : m'.regs[q] = m.regs[q]
       /\ m'.regs["ra"] = ret
  BY <1>6, <1>8, <1>11 DEF Only
<1>13. calls' = Append(calls, [fn |-> f, sp |-> SP - Size(f), ret |-> ret])
  BY <1>1, <1>11
<1> QED
  BY <1>5, <1>11, <1>12, <1>13

\* The words of a new frame are below sp, and below the place of ra.
LEMMA NewWordIs ==
    ASSUME Layout, Len(calls) < MaxDepth, NEW f \in DOMAIN Funcs,
           NEW i \in 0..(Funcs[f].stacksize - 1)
    PROVE  /\ (SP - Size(f)) + 4 * i \in Memory
           /\ (SP - Size(f)) + 4 * i < SP
           /\ (SP - Size(f)) + 4 * i # SP - 4
<1> DEFINE s == SP
           n == Funcs[f].stacksize
           size == Size(f)
           a == (s - size) + 4 * i
<1>1. /\ s \in 16..StackTop /\ s % 16 = 0 /\ size \in Nat /\ size < s /\ size % 16 = 0
      /\ n \in Nat /\ (size > 4 * n \/ n = 0) /\ StackTop \in Nat
  BY SPIs, RoomIs, SizeType, MemoryIs, FramesAssumption DEF FramesAssumption
<1>2. i \in 0..(n - 1)
  OBVIOUS
<1> HIDE DEF s, n, size
<1>3. a + 4 < s /\ a % 4 = 0 /\ a \in Nat /\ s % 4 = 0 /\ s <= StackTop /\ s \in Nat
  BY <1>1, <1>2
<1>4. a \in 0..(StackTop - 4)
  BY <1>1, <1>3
<1>5. a \in Memory
  BY <1>3, <1>4, MemoryIs
<1> HIDE DEF a
<1>6. a < s /\ a # s - 4
  BY <1>3
<1> QED
  BY <1>5, <1>6 DEF a, s, size

\* The new frame is below all others.
LEMMA CallKeepsLayout ==
    ASSUME Layout, NEW n \in Nat, n = Len(calls), n < MaxDepth, NEW f \in DOMAIN Funcs,
           calls # <<>> => ~ Func.isleaf,
           NEW ret \in {CallSite[c] : c \in DOMAIN CallSite},
           calls' = Append(calls, [fn |-> f, sp |-> SP - Size(f), ret |-> ret])
    PROVE  /\ Layout' /\ DOMAIN calls = 1..n /\ DOMAIN calls' = 1..(n + 1)
           /\ \A k \in DOMAIN calls : calls'[k] = calls[k] /\ Base(k)' = Base(k)
           /\ calls'[n + 1] = [fn |-> f, sp |-> SP - Size(f), ret |-> ret]
           /\ Base(n + 1)' = SP
           /\ SP' = SP - Size(f)
           /\ \A k \in DOMAIN calls : ~ Funcs[calls[k].fn].isleaf
<1> DEFINE s == SP - Size(f)
           c == [fn |-> f, sp |-> s, ret |-> ret]
<1>1. n \in Nat /\ DOMAIN calls = 1..n /\ calls \in Seq(CallRecord)
  BY DEF Layout
<1>2. /\ Size(f) \in Nat /\ Size(f) < SP /\ SP \in 16..StackTop
      /\ s >= StackTop - (n + 1) * Share /\ s % 16 = 0
  BY RoomIs, SPIs
<1>3. c \in CallRecord /\ s \in Int
  <2>1. s \in Int
    <3> HIDE DEF SP
    <3> QED
      BY <1>2
  <2> QED
    BY <2>1 DEF CallRecord
<1>4. c.fn = f /\ c.sp = s /\ c.ret = ret
  OBVIOUS
<1> DEFINE d == calls'
<1>5. d \in Seq(CallRecord) /\ Len(d) = n + 1 /\ DOMAIN d = 1..(n + 1)
      /\ (\A k \in 1..n : d[k] = calls[k]) /\ d[n + 1] = c
  <2> HIDE DEF c
  <2>1. d = Append(calls, c) /\ Len(calls) = n
    BY DEF c
  <2> HIDE DEF d
  <2> QED
    BY <1>1, <1>3, <2>1
<1> HIDE DEF c
<1>6. \A k \in 1..n : Base(k)' = Base(k)
  <2> SUFFICES ASSUME NEW k \in 1..n PROVE Base(k)' = Base(k)
    OBVIOUS
  <2>1. Base(k)' = IF k = 1 THEN StackTop ELSE d[k - 1].sp
    BY DEF Base
  <2>2. k # 1 => k - 1 \in 1..n
    BY <1>1
  <2> QED
    BY <1>5, <2>1, <2>2 DEF Base
<1>7. Base(n + 1)' = SP
  <2>1. Base(n + 1)' = IF n + 1 = 1 THEN StackTop ELSE d[(n + 1) - 1].sp
    BY DEF Base
  <2>2. n # 0 => n \in 1..n /\ d[(n + 1) - 1].sp = calls[n].sp
    BY <1>1, <1>5
  <2>3. SP = Base(n + 1)
    BY SPIs
  <2>4. Base(n + 1) = IF n + 1 = 1 THEN StackTop ELSE calls[(n + 1) - 1].sp
    BY DEF Base
  <2>5. n # 0 => (n + 1) - 1 = n /\ n + 1 # 1
    BY <1>1
  <2>6. n = 0 => n + 1 = 1
    OBVIOUS
  <2> HIDE DEF d
  <2> QED
    BY <2>1, <2>2, <2>3, <2>4, <2>5, <2>6
<1>8. SP' = s
  <2>1. d # <<>> /\ Len(d) = n + 1
    BY <1>1, <1>5
  <2> QED
    BY <1>4, <1>5, <2>1 DEF SP, Top
<1>9. \A k \in 1..n : ~ Funcs[calls[k].fn].isleaf
  <2> SUFFICES ASSUME NEW k \in 1..n PROVE ~ Funcs[calls[k].fn].isleaf
    OBVIOUS
  <2>1. CASE k = n
    <3>1. calls # <<>>
      BY <1>1
    <3> QED
      BY <2>1, <3>1 DEF Func, Top
  <2>2. CASE k # n
    BY <1>1, <2>2 DEF Layout
  <2> QED
    BY <2>1, <2>2
<1>10. \A k \in 1..(n + 1) :
         /\ d[k].sp = Base(k)' - Size(d[k].fn)
         /\ d[k].sp % 16 = 0
         /\ d[k].sp >= StackTop - k * Share
         /\ Base(k)' <= StackTop
         /\ \A j \in 1..(k - 1) : Base(k)' <= d[j].sp
         /\ k < Len(d) => ~ Funcs[d[k].fn].isleaf
  <2> SUFFICES ASSUME NEW k \in 1..(n + 1)
               PROVE  /\ d[k].sp = Base(k)' - Size(d[k].fn)
                      /\ d[k].sp % 16 = 0
                      /\ d[k].sp >= StackTop - k * Share
                      /\ Base(k)' <= StackTop
                      /\ \A j \in 1..(k - 1) : Base(k)' <= d[j].sp
                      /\ k < Len(d) => ~ Funcs[d[k].fn].isleaf
    OBVIOUS
  <2>1. CASE k = n + 1
    <3>1. d[k] = c /\ Base(k)' = SP /\ SP <= StackTop
      BY <1>2, <1>5, <1>7, <2>1
    <3>2. \A j \in 1..n : SP <= d[j].sp
      BY <1>1, <1>5, SPIs
    <3>3. (k - 1) = n /\ ~ (k < Len(d))
      BY <1>1, <1>5, <2>1
    <3> HIDE DEF SP
    <3> QED
      BY <1>2, <1>4, <2>1, <3>1, <3>2, <3>3
  <2>2. CASE k # n + 1
    <3>1. k \in DOMAIN calls /\ d[k] = calls[k] /\ Base(k)' = Base(k) /\ k \in 1..n
      BY <1>1, <1>5, <1>6, <2>2
    <3>2. /\ calls[k].sp = Base(k) - Size(calls[k].fn)
          /\ calls[k].sp % 16 = 0
          /\ calls[k].sp >= StackTop - k * Share
          /\ Base(k) <= StackTop
          /\ \A j \in 1..(k - 1) : Base(k) <= calls[j].sp
      BY <3>1 DEF Layout
    <3>3. \A j \in 1..(k - 1) : d[j] = calls[j]
      BY <1>1, <1>5, <3>1
    <3>4. ~ Funcs[calls[k].fn].isleaf
      BY <1>9, <3>1
    <3> HIDE DEF d
    <3> QED
      BY <3>1, <3>2, <3>3, <3>4
  <2> QED
    BY <2>1, <2>2
<1>11. Layout'
  <2>1. Len(d) <= MaxDepth
    BY <1>1, <1>5, ShareIs
  <2>2. DOMAIN d = 1..(n + 1)
    BY <1>5
  <2> QED
    BY <1>5, <1>10, <2>1, <2>2 DEF Layout
<1> QED
  BY <1>1, <1>5, <1>6, <1>7, <1>8, <1>9, <1>11 DEF c

\* The words of the frames from an address on stay if the memory from there on does.
LEMMA KeptWords ==
    ASSUME Layout, NEW j \in Nat, NEW lo \in Nat,
           \A k \in 1..j : /\ k \in DOMAIN calls /\ calls'[k] = calls[k]
                           /\ lo <= calls[k].sp,
           \A b \in Memory : ~ (b < lo) => m'.mem[b] = m.mem[b]
    PROVE  \A k \in 1..j :
             /\ Words(k)' = Words(k) /\ \A i : AddrOf(k, i)' = AddrOf(k, i)
             /\ \A i \in Words(k) : /\ AddrOf(k, i) \in Memory
                                    /\ m'.mem[AddrOf(k, i)] = m.mem[AddrOf(k, i)]
<1> SUFFICES ASSUME NEW k \in 1..j
             PROVE  /\ Words(k)' = Words(k) /\ \A i : AddrOf(k, i)' = AddrOf(k, i)
                    /\ \A i \in Words(k) :
                         /\ AddrOf(k, i) \in Memory
                         /\ m'.mem[AddrOf(k, i)] = m.mem[AddrOf(k, i)]
  OBVIOUS
<1>1. k \in DOMAIN calls /\ calls'[k] = calls[k] /\ lo <= calls[k].sp
  OBVIOUS
<1>2. Words(k)' = Words(k) /\ \A i : AddrOf(k, i)' = AddrOf(k, i)
  BY <1>1 DEF Words, AddrOf
<1>3. ASSUME NEW i \in Words(k)
      PROVE  /\ AddrOf(k, i) \in Memory
             /\ m'.mem[AddrOf(k, i)] = m.mem[AddrOf(k, i)]
  <2> DEFINE a == AddrOf(k, i)
  <2>1. a \in Memory /\ calls[k].sp <= a /\ calls[k].sp \in Nat
    <3>1. calls[k].sp \in 16..StackTop
      BY <1>1, FrameIs
    <3>2. calls[k].sp \in Nat
      BY <3>1, MemoryIs
    <3> QED
      BY <1>1, <3>2, WordIs
  <2> HIDE DEF a
  <2>2. a \in Nat /\ ~ (a < lo)
    BY <1>1, <2>1, MemoryIs
  <2> QED
    BY <2>1, <2>2 DEF a
<1> QED
  BY <1>2, <1>3

\* A call preserves the invariant: ra is saved over no word of another frame.
LEMMA CallKeeps ==
    ASSUME IInv, Call
    PROVE  IInv'
<1>1. PICK n \in Nat : n = Len(calls)
  BY DEF IInv, Layout
<1>2. Layout /\ n < MaxDepth /\ (calls # <<>> => ~ Func.isleaf) /\ DOMAIN m.mem = Memory
  BY <1>1 DEF IInv, Call, IsMachine
<1>3. PICK f \in DOMAIN Funcs, ret \in {CallSite[c] : c \in DOMAIN CallSite} :
        /\ calls' = Append(calls, [fn |-> f, sp |-> SP - Size(f), ret |-> ret])
        /\ IsMachine(m') /\ m'.regs["sp"] = SP - Size(f) /\ ret \in Word
        /\ \A q \in Regs \ {"sp", "ra", "t0"} : m'.regs[q] = m.regs[q]
        /\ Funcs[f].isleaf => m'.mem = m.mem /\ m'.regs["ra"] = ret
        /\ ~ Funcs[f].isleaf => m'.mem = [m.mem EXCEPT ![SP - 4] = ret]
  BY CallIs
<1>4. /\ Layout' /\ DOMAIN calls = 1..n /\ DOMAIN calls' = 1..(n + 1)
      /\ \A k \in DOMAIN calls : calls'[k] = calls[k] /\ Base(k)' = Base(k)
      /\ calls'[n + 1] = [fn |-> f, sp |-> SP - Size(f), ret |-> ret]
      /\ Base(n + 1)' = SP /\ SP' = SP - Size(f)
      /\ \A k \in DOMAIN calls : ~ Funcs[calls[k].fn].isleaf
  BY <1>1, <1>2, <1>3, CallKeepsLayout
<1>5. /\ SP \in 16..StackTop /\ SP \in Nat /\ SP % 16 = 0
      /\ Size(f) \in Nat /\ StackTop \in Nat
      /\ \A k \in DOMAIN calls : SP <= calls[k].sp /\ calls[k].sp \in Nat
  <2>1. \A k \in DOMAIN calls : calls[k].sp \in Nat
    BY <1>2, FrameIs, MemoryIs
  <2>2. SP \in Nat
    BY <1>2, SPIs, MemoryIs
  <2> QED
    BY <1>1, <1>2, <2>1, <2>2, SPIs, RoomIs, MemoryIs
<1>6. SP - 4 \in Memory
  <2>1. SP \in 1..StackTop
    <3> HIDE DEF SP
    <3> QED
      BY <1>5
  <2> QED
    BY <1>5, <2>1, SaveSlot
<1>7. /\ \A b \in Memory : b # SP - 4 => m'.mem[b] = m.mem[b]
      /\ ~ Funcs[f].isleaf => m'.mem[SP - 4] = ret
  BY <1>2, <1>3, <1>6
<1> DEFINE d == calls'
\* the words of all frames
<1>8. \A k \in 1..n :
         /\ Words(k)' = Words(k) /\ \A i : AddrOf(k, i)' = AddrOf(k, i)
         /\ \A i \in Words(k) : /\ AddrOf(k, i) \in Memory
                                /\ m'.mem[AddrOf(k, i)] = m.mem[AddrOf(k, i)]
  <2> DEFINE lo == SP
  <2>1. /\ lo \in Nat
        /\ \A k \in 1..n : k \in DOMAIN calls /\ calls'[k] = calls[k] /\ lo <= calls[k].sp
    BY <1>4, <1>5
  <2>2. \A b \in Memory : ~ (b < lo) => m'.mem[b] = m.mem[b]
    <3> HIDE DEF lo
    <3>1. \A b \in Memory : ~ (b < lo) => b # lo - 4
      BY <2>1, MemoryIs
    <3> QED
      BY <1>7, <3>1 DEF lo
  <2> HIDE DEF lo
  <2> QED
    BY <1>2, <2>1, <2>2, KeptWords
<1>9. \A i \in 0..(Funcs[f].stacksize - 1) : m'.mem[(SP - Size(f)) + 4 * i] \in Data
  <2> SUFFICES ASSUME NEW i \in 0..(Funcs[f].stacksize - 1)
               PROVE  m'.mem[(SP - Size(f)) + 4 * i] \in Data
    OBVIOUS
  <2> DEFINE a == (SP - Size(f)) + 4 * i
  <2>1. a \in Memory /\ a < SP /\ a # SP - 4
    BY <1>1, <1>2, NewWordIs
  <2> HIDE DEF a
  <2>2. m'.mem[a] = m.mem[a] /\ m.mem[a] \in Data
    BY <1>7, <2>1 DEF IInv, Contents
  <2> QED
    BY <2>2 DEF a
<1>10. /\ Words(n + 1)' = 0..(Funcs[f].stacksize - 1)
       /\ \A i : AddrOf(n + 1, i)' = (SP - Size(f)) + 4 * i
  <2>1. d[n + 1].fn = f /\ d[n + 1].sp = SP - Size(f)
    BY <1>4
  <2>2. /\ Words(n + 1)' = 0..(Funcs[d[n + 1].fn].stacksize - 1)
        /\ \A i : AddrOf(n + 1, i)' = d[n + 1].sp + 4 * i
    BY DEF Words, AddrOf
  <2> HIDE DEF d
  <2> QED
    BY <2>1, <2>2
<1>11. \A k \in 1..(n + 1) : \A i \in Words(k)' : m'.mem[AddrOf(k, i)'] \in Data
  <2> SUFFICES ASSUME NEW k \in 1..(n + 1), NEW i, i \in Words(k)'
               PROVE  m'.mem[AddrOf(k, i)'] \in Data
    OBVIOUS
  <2>1. CASE k = n + 1
    <3>1. i \in 0..(Funcs[f].stacksize - 1) /\ AddrOf(k, i)' = (SP - Size(f)) + 4 * i
      BY <1>10, <2>1
    <3> QED
      BY <1>9, <3>1
  <2>2. CASE k # n + 1
    <3>1. k \in 1..n
      BY <1>1, <2>2
    <3>2. i \in Words(k) /\ AddrOf(k, i)' = AddrOf(k, i) /\ k \in DOMAIN calls
      BY <1>4, <1>8, <3>1
    <3> QED
      BY <1>8, <3>1, <3>2 DEF IInv, Contents
  <2> QED
    BY <2>1, <2>2
\* what is below
<1>12. \A b \in Memory : b < SP' => m'.mem[b] \in Data
  <2> SUFFICES ASSUME NEW b \in Memory, b < SP' PROVE m'.mem[b] \in Data
    OBVIOUS
  <2> DEFINE s == SP
             size == Size(f)
             y == SP'
  <2>1. /\ b \in Nat /\ b < y /\ y = s - size /\ s \in Nat /\ size \in Nat
        /\ size > 0 \/ (Funcs[f].isleaf /\ m'.mem = m.mem)
    <3>1. size \in Nat /\ (~ Funcs[f].isleaf => size > 4 * Funcs[f].stacksize)
      BY SizeType
    <3>2. Funcs[f].stacksize \in Nat /\ Funcs[f].isleaf \in BOOLEAN
      BY FramesAssumption DEF FramesAssumption
    <3>3. ~ Funcs[f].isleaf => size > 0
      <4> HIDE DEF size
      <4> QED
        BY <3>1, <3>2
    <3>4. b \in Nat
      BY MemoryIs
    <3> QED
      BY <1>3, <1>4, <1>5, <3>2, <3>3, <3>4
  <2>2. size = 0 \/ size >= 16
    <3>1. size % 16 = 0
      BY SizeType
    <3> HIDE DEF size
    <3> QED
      BY <2>1, <3>1
  <2> HIDE DEF s, size, y
  <2>3. b < s /\ (b # s - 4 \/ m'.mem = m.mem)
    BY <2>1, <2>2
  <2>4. m.mem[b] \in Data
    BY <2>3 DEF s, IInv, Contents
  <2>5. m'.mem[b] = m.mem[b]
    BY <1>7, <2>3 DEF s
  <2> QED
    BY <2>4, <2>5
\* the return addresses
<1>13. \A k \in 1..(n + 1) :
          d[k].ret = IF Funcs[d[k].fn].isleaf THEN m'.regs["ra"] ELSE m'.mem[Base(k)' - 4]
  <2> SUFFICES ASSUME NEW k \in 1..(n + 1)
               PROVE  d[k].ret = IF Funcs[d[k].fn].isleaf THEN m'.regs["ra"]
                                 ELSE m'.mem[Base(k)' - 4]
    OBVIOUS
  <2>1. CASE k = n + 1
    <3>1. d[k].ret = ret /\ d[k].fn = f /\ Base(k)' = SP
      BY <1>4, <2>1
    <3> HIDE DEF d
    <3>2. Funcs[f].isleaf \in BOOLEAN
      BY FramesAssumption DEF FramesAssumption
    <3> QED
      BY <1>3, <1>7, <3>1, <3>2
  <2>2. CASE k # n + 1
    <3>1. /\ k \in 1..n /\ k \in DOMAIN calls /\ d[k] = calls[k] /\ Base(k)' = Base(k)
          /\ ~ Funcs[calls[k].fn].isleaf
      BY <1>1, <1>4, <2>2
    <3> HIDE DEF d
    <3>2. Base(k) - 4 \in Memory /\ calls[k].sp <= Base(k) - 4 /\ SP <= calls[k].sp
          /\ calls[k].sp \in Nat
      BY <1>2, <1>5, <3>1, SavedRaIs
    <3>3. Base(k) - 4 \in Nat
      BY <3>2, MemoryIs
    <3>4. Base(k) - 4 # SP - 4
      <4> DEFINE b == Base(k) - 4
                 s == SP
      <4>1. b \in Nat /\ s \in Nat /\ s <= calls[k].sp /\ calls[k].sp <= b
        BY <1>5, <3>2, <3>3
      <4> HIDE DEF b, s
      <4>2. b # s - 4
        BY <3>2, <4>1
      <4> QED
        BY <4>2 DEF b, s
    <3>5. m'.mem[Base(k) - 4] = m.mem[Base(k) - 4]
      BY <1>7, <3>2, <3>4
    <3>6. calls[k].ret = m.mem[Base(k) - 4]
      BY <3>1 DEF IInv, Contents
    <3> QED
      BY <3>1, <3>5, <3>6
  <2> QED
    BY <2>1, <2>2
<1>14. Contents'
  <2>1. DOMAIN calls' = 1..(n + 1)
    BY <1>4
  <2> QED
    BY <1>11, <1>12, <1>13, <2>1 DEF Contents
<1>15. Pointers'
  <2>1. \A q \in DataRegs \ {"t0", "t1"} : m'.regs[q] \in Data
    BY <1>3, RegistersAre DEF IInv, Pointers
  <2>2. m'.regs[PtrReg] = m.regs[PtrReg]
    BY <1>3, RegistersAre
  <2>3. ASSUME NEW k \in DOMAIN calls, NEW i \in Words(k), m.regs[PtrReg] = AddrOf(k, i)
        PROVE  m'.regs[PtrReg]
                 \in (UNION {{AddrOf(j, l) : l \in Words(j)} : j \in DOMAIN calls})'
    <3>1. k \in 1..n /\ k \in 1..(n + 1)
      BY <1>4
    <3>2. i \in Words(k)' /\ AddrOf(k, i)' = AddrOf(k, i) /\ k \in DOMAIN calls'
      BY <1>4, <1>8, <3>1
    <3> QED
      BY <2>2, <2>3, <3>2
  <2>4. \/ m.regs[PtrReg] \in Data
        \/ \E k \in DOMAIN calls : \E i \in Words(k) : m.regs[PtrReg] = AddrOf(k, i)
    BY DEF IInv, Pointers
  <2> QED
    BY <2>1, <2>2, <2>3, <2>4 DEF Pointers
<1>16. IsMachine(m)' /\ m'.regs["sp"] = SP'
  BY <1>3, <1>4 DEF IsMachine
<1> QED
  BY <1>4, <1>14, <1>15, <1>16 DEF IInv

\* A return goes where the call came from and puts sp where the frame ended.
LEMMA ReturnIs ==
    ASSUME IInv, NEW n \in Nat, n = Len(calls), n # 0, Return
    PROVE  /\ calls' = Front(calls) /\ IsMachine(m')
           /\ m'.regs["sp"] = Base(n)
           /\ \A q \in Regs \ {"sp", "ra", "t0"} : m'.regs[q] = m.regs[q]
           /\ \A a \in Memory : m'.mem[a] = IF a < Base(n) THEN 0 ELSE m.mem[a]
           /\ m'.regs["ra"] = calls[n].ret /\ at' = calls[n].ret
<1> DEFINE f == calls[n].fn
           y == ExecAsmAll(m, RetAsm(Func))
<1>1. /\ calls # <<>> /\ Layout /\ n \in DOMAIN calls /\ m.regs["sp"] = SP
      /\ SP = calls[n].sp /\ SP \in Nat /\ SP % 16 = 0 /\ Func = Funcs[f]
  <2>1. calls # <<>>
    BY DEF IInv, Layout
  <2> QED
    BY <2>1, TopIs
<1>2. /\ f \in DOMAIN Funcs /\ Base(n) \in 16..StackTop
      /\ Base(n) = calls[n].sp + Size(f)
  BY <1>1, FrameIs
<1> HIDE DEF f
<1>3. SP + Size(f) = Base(n) /\ SP + Size(f) \in 1..StackTop
  <2>1. SP + Size(f) = Base(n)
    BY <1>1, <1>2
  <2>2. Base(n) \in 1..StackTop
    <3> HIDE DEF Base
    <3> QED
      BY <1>2
  <2> QED
    BY <2>1, <2>2
<1>4. IsMachine(m) /\ m.regs["sp"] \in Nat /\ m.regs["sp"] % 16 = 0
      /\ m.regs["sp"] + Size(f) \in 1..StackTop
  BY <1>1, <1>3 DEF IInv
<1>5. LET z == ExecAsmAll(m, RetAsm(Funcs[f]))
      IN  /\ IsMachine(z) /\ Only(m, z, {"sp", "t0", "ra"}) /\ z.mem = m.mem
          /\ z.regs["sp"] = m.regs["sp"] + Size(f)
          /\ z.regs["ra"] = IF Funcs[f].isleaf THEN m.regs["ra"]
                            ELSE m.mem[m.regs["sp"] + Size(f) - 4]
  BY <1>2, <1>4, ExitDoes
<1>6. /\ m' = [y EXCEPT !.mem = Forget(y.mem, y.regs["sp"])]
      /\ at' = y.regs["ra"] /\ calls' = Front(calls)
  BY DEF Return
<1>7. /\ IsMachine(y) /\ Only(m, y, {"sp", "t0", "ra"}) /\ y.mem = m.mem
      /\ y.regs["sp"] = Base(n)
      /\ y.regs["ra"] = IF Funcs[f].isleaf THEN m.regs["ra"] ELSE m.mem[Base(n) - 4]
  <2>1. y = ExecAsmAll(m, RetAsm(Funcs[f])) /\ m.regs["sp"] + Size(f) = Base(n)
    BY <1>1, <1>3
  <2> HIDE DEF y
  <2>2. /\ IsMachine(y) /\ Only(m, y, {"sp", "t0", "ra"}) /\ y.mem = m.mem
        /\ y.regs["sp"] = m.regs["sp"] + Size(f)
        /\ y.regs["ra"] = IF Funcs[f].isleaf THEN m.regs["ra"]
                          ELSE m.mem[m.regs["sp"] + Size(f) - 4]
    BY <1>5, <2>1
  <2>3. m.regs["sp"] + Size(f) - 4 = Base(n) - 4
    BY <1>2, <1>4, <2>1, SizeType
  <2> HIDE DEF Base
  <2> QED
    BY <2>1, <2>2, <2>3, Zenon
<1> HIDE DEF y
<1>8. y.regs["ra"] = calls[n].ret
  BY <1>1, <1>7 DEF IInv, Contents, f
<1> DEFINE ms == Forget(y.mem, y.regs["sp"])
<1>9. /\ ms \in [Memory -> Word]
      /\ \A a \in Memory : ms[a] = IF a < Base(n) THEN 0 ELSE m.mem[a]
  BY <1>1, <1>7, ForgetKeeps DEF IsMachine
<1> HIDE DEF ms
<1>10. DOMAIN m' = {"regs", "mem", "ok"} /\ m'.ok /\ m'.regs = y.regs /\ m'.mem = ms
  BY <1>6, <1>7 DEF ms, IsMachine
<1>11. IsMachine(m')
  BY <1>7, <1>9, <1>10 DEF IsMachine
<1> QED
  BY <1>6, <1>7, <1>8, <1>9, <1>10, <1>11 DEF Only

\* Without the last call.
LEMMA ReturnKeepsLayout ==
    ASSUME Layout, NEW n \in Nat, n = Len(calls), n # 0, calls' = Front(calls)
    PROVE  /\ Layout' /\ DOMAIN calls = 1..n /\ DOMAIN calls' = 1..(n - 1)
           /\ \A k \in 1..(n - 1) : calls'[k] = calls[k] /\ Base(k)' = Base(k)
           /\ SP' = Base(n)
           /\ \A k \in 1..(n - 1) : /\ ~ Funcs[calls[k].fn].isleaf
                                    /\ Base(n) <= calls[k].sp
<1> DEFINE d == calls'
<1>1. calls \in Seq(CallRecord) /\ DOMAIN calls = 1..n /\ n <= MaxDepth
  BY DEF Layout
<1>2. d = SubSeq(calls, 1, n - 1)
  BY DEF Front
<1>3. d \in Seq(CallRecord) /\ Len(d) = n - 1 /\ \A k \in 1..(n - 1) : d[k] = calls[k]
  <2> HIDE DEF d
  <2> QED
    BY <1>1, <1>2
<1>4. DOMAIN d = 1..(n - 1)
  <2> HIDE DEF d
  <2> QED
    BY <1>3
<1>5. ASSUME NEW k \in 1..(n - 1) PROVE Base(k)' = Base(k)
  <2>1. Base(k)' = IF k = 1 THEN StackTop ELSE d[k - 1].sp
    BY DEF Base
  <2>2. k # 1 => k - 1 \in 1..(n - 1)
    OBVIOUS
  <2> HIDE DEF d
  <2> QED
    BY <1>3, <2>1, <2>2 DEF Base
<1>6. SP' = Base(n)
  <2>1. SP' = IF d = <<>> THEN StackTop ELSE d[Len(d)].sp
    BY DEF SP, Top
  <2> HIDE DEF d
  <2>2. CASE n = 1
    <3>1. d = <<>>
      BY <1>3, <2>2
    <3> QED
      BY <2>1, <2>2, <3>1 DEF Base
  <2>3. CASE n # 1
    <3>1. d # <<>> /\ n - 1 \in 1..(n - 1) /\ d[n - 1] = calls[n - 1]
      BY <1>3, <2>3
    <3> QED
      BY <1>3, <2>1, <2>3, <3>1 DEF Base
  <2> QED
    BY <2>2, <2>3
<1>7. ASSUME NEW k \in 1..(n - 1)
      PROVE  ~ Funcs[calls[k].fn].isleaf /\ Base(n) <= calls[k].sp
  <2>1. k \in DOMAIN calls /\ n \in DOMAIN calls /\ k < Len(calls)
    BY <1>1
  <2> QED
    BY <2>1 DEF Layout
<1>8. \A k \in 1..(n - 1) :
         /\ d[k].sp = Base(k)' - Size(d[k].fn)
         /\ d[k].sp % 16 = 0
         /\ d[k].sp >= StackTop - k * Share
         /\ Base(k)' <= StackTop
         /\ \A j \in 1..(k - 1) : Base(k)' <= d[j].sp
         /\ k < Len(d) => ~ Funcs[d[k].fn].isleaf
  <2> SUFFICES ASSUME NEW k \in 1..(n - 1)
               PROVE  /\ d[k].sp = Base(k)' - Size(d[k].fn)
                      /\ d[k].sp % 16 = 0
                      /\ d[k].sp >= StackTop - k * Share
                      /\ Base(k)' <= StackTop
                      /\ \A j \in 1..(k - 1) : Base(k)' <= d[j].sp
                      /\ k < Len(d) => ~ Funcs[d[k].fn].isleaf
    OBVIOUS
  <2>1. k \in DOMAIN calls /\ d[k] = calls[k] /\ Base(k)' = Base(k)
    BY <1>1, <1>3, <1>5
  <2>2. /\ calls[k].sp = Base(k) - Size(calls[k].fn)
        /\ calls[k].sp % 16 = 0
        /\ calls[k].sp >= StackTop - k * Share
        /\ Base(k) <= StackTop
        /\ \A j \in 1..(k - 1) : Base(k) <= calls[j].sp
    BY <2>1 DEF Layout
  <2>3. \A j \in 1..(k - 1) : d[j] = calls[j]
    BY <1>3
  <2>4. ~ Funcs[calls[k].fn].isleaf
    BY <1>7
  <2> HIDE DEF d
  <2> QED
    BY <2>1, <2>2, <2>3, <2>4
<1>9. Layout'
  <2>1. Len(d) <= MaxDepth
    BY <1>1, <1>3, ShareIs
  <2> QED
    BY <1>3, <1>4, <1>8, <2>1 DEF Layout
<1> QED
  BY <1>1, <1>3, <1>4, <1>5, <1>6, <1>7, <1>9

\* A return preserves the invariant: what is forgotten belonged to the last frame.
LEMMA ReturnKeeps ==
    ASSUME IInv, calls # <<>>, Return
    PROVE  IInv'
<1>1. PICK n \in Nat : n = Len(calls)
  BY DEF IInv, Layout
<1>2. Layout /\ n # 0 /\ DOMAIN m.mem = Memory
  BY <1>1 DEF IInv, IsMachine, Layout
<1>3. /\ calls' = Front(calls) /\ IsMachine(m')
      /\ m'.regs["sp"] = Base(n)
      /\ \A q \in Regs \ {"sp", "ra", "t0"} : m'.regs[q] = m.regs[q]
      /\ \A a \in Memory : m'.mem[a] = IF a < Base(n) THEN 0 ELSE m.mem[a]
  BY <1>1, <1>2, ReturnIs
<1>4. /\ Layout' /\ DOMAIN calls = 1..n /\ DOMAIN calls' = 1..(n - 1)
      /\ \A k \in 1..(n - 1) : calls'[k] = calls[k] /\ Base(k)' = Base(k)
      /\ SP' = Base(n)
      /\ \A k \in 1..(n - 1) : /\ ~ Funcs[calls[k].fn].isleaf
                               /\ Base(n) <= calls[k].sp
  BY <1>1, <1>2, <1>3, ReturnKeepsLayout
<1> DEFINE d == calls'
           base == Base(n)
<1>5. base \in Nat /\ \A k \in 1..(n - 1) : calls[k].sp \in Nat /\ base <= calls[k].sp
  <2>1. n \in DOMAIN calls /\ \A k \in 1..(n - 1) : k \in DOMAIN calls
    BY <1>2, <1>4
  <2>2. base \in 16..StackTop /\ \A k \in 1..(n - 1) : calls[k].sp \in 16..StackTop
    BY <1>2, <2>1, FrameIs
  <2> HIDE DEF base
  <2>3. base \in Nat /\ \A k \in 1..(n - 1) : calls[k].sp \in Nat
    BY <2>2, MemoryIs
  <2> QED
    BY <1>4, <2>3 DEF base
<1>6. \A a \in Memory : a \in Nat /\ ~ (a < base) => m'.mem[a] = m.mem[a]
  BY <1>3
<1> HIDE DEF base
<1>7. \A k \in 1..(n - 1) :
         /\ Words(k)' = Words(k) /\ \A i : AddrOf(k, i)' = AddrOf(k, i)
         /\ \A i \in Words(k) : /\ AddrOf(k, i) \in Memory
                                /\ m'.mem[AddrOf(k, i)] = m.mem[AddrOf(k, i)]
  <2>1. \A k \in 1..(n - 1) : k \in DOMAIN calls /\ calls'[k] = calls[k]
                              /\ base <= calls[k].sp
    BY <1>4, <1>5
  <2>2. n - 1 \in Nat /\ base \in Nat
        /\ \A b \in Memory : ~ (b < base) => m'.mem[b] = m.mem[b]
    BY <1>2, <1>5, <1>6, MemoryIs
  <2> QED
    BY <1>2, <2>1, <2>2, KeptWords
<1>8. \A k \in 1..(n - 1) : \A i \in Words(k)' : m'.mem[AddrOf(k, i)'] \in Data
  <2> SUFFICES ASSUME NEW k \in 1..(n - 1), NEW i, i \in Words(k)'
               PROVE  m'.mem[AddrOf(k, i)'] \in Data
    OBVIOUS
  <2>1. i \in Words(k) /\ AddrOf(k, i)' = AddrOf(k, i) /\ k \in DOMAIN calls
    BY <1>4, <1>7
  <2> QED
    BY <1>7, <2>1 DEF IInv, Contents
<1>9. \A b \in Memory : b < SP' => m'.mem[b] \in Data
  BY <1>3, <1>4 DEF Data
<1>10. \A k \in 1..(n - 1) : d[k].ret = m'.mem[Base(k)' - 4]
  <2> SUFFICES ASSUME NEW k \in 1..(n - 1) PROVE d[k].ret = m'.mem[Base(k)' - 4]
    OBVIOUS
  <2>1. /\ k \in DOMAIN calls /\ d[k] = calls[k] /\ Base(k)' = Base(k)
        /\ ~ Funcs[calls[k].fn].isleaf
    BY <1>4
  <2> HIDE DEF d
  <2> DEFINE a == Base(k) - 4
  <2>2. a \in Memory /\ calls[k].sp <= a
    BY <1>2, <2>1, SavedRaIs
  <2>3. calls[k].ret = m.mem[a]
    BY <2>1 DEF IInv, Contents
  <2> HIDE DEF a
  <2>4. a \in Nat /\ ~ (a < base)
    BY <1>5, <2>2, MemoryIs
  <2>5. m'.mem[a] = m.mem[a]
    BY <1>6, <2>2, <2>4
  <2> QED
    BY <2>1, <2>3, <2>5 DEF a
<1>11. Contents'
  <2>1. \A k \in 1..(n - 1) : ~ Funcs[d[k].fn].isleaf
    BY <1>4
  <2> QED
    BY <1>4, <1>8, <1>9, <1>10, <2>1 DEF Contents
<1>12. Pointers'
  <2>1. \A q \in DataRegs \ {"t0", "t1"} : m'.regs[q] \in Data
    BY <1>3, RegistersAre DEF IInv, Pointers
  <2>2. m'.regs[PtrReg] = m.regs[PtrReg]
    BY <1>3, RegistersAre
  <2>3. ASSUME NEW k \in DOMAIN calls, NEW i \in Words(k), m.regs[PtrReg] = AddrOf(k, i)
        PROVE  m'.regs[PtrReg]
                 \in (UNION {{AddrOf(j, l) : l \in Words(j)} : j \in DOMAIN calls})'
    <3>1. k # n
      BY <1>1, <2>3 DEF Return
    <3>2. k \in 1..(n - 1)
      BY <1>4, <3>1
    <3>3. i \in Words(k)' /\ AddrOf(k, i)' = AddrOf(k, i) /\ k \in DOMAIN calls'
      BY <1>4, <1>7, <3>2
    <3> QED
      BY <2>2, <2>3, <3>3
  <2>4. \/ m.regs[PtrReg] \in Data
        \/ \E k \in DOMAIN calls : \E i \in Words(k) : m.regs[PtrReg] = AddrOf(k, i)
    BY DEF IInv, Pointers
  <2> QED
    BY <2>1, <2>2, <2>3, <2>4 DEF Pointers
<1>13. IsMachine(m)' /\ m'.regs["sp"] = SP'
  BY <1>3, <1>4 DEF IsMachine
<1> QED
  BY <1>4, <1>11, <1>12, <1>13 DEF IInv

-------------------------------------------------------------------------------
(* All states.                                                             *)

\* The invariant holds at first,
LEMMA InitHolds == Init => IInv
<1> SUFFICES ASSUME Init PROVE IInv
  OBVIOUS
<1>1. PICK r \in DataRegs :
        m = [regs |-> [[q \in Regs |-> 0] EXCEPT !["sp"] = StackTop, ![r] = 1],
             mem  |-> [a \in Memory |-> 0],
             ok   |-> TRUE]
  BY DEF Init
<1>2. calls = <<>>
  BY DEF Init
<1>3. {0, 1, StackTop} \subseteq Word /\ {0, 1} \subseteq Data
  <2>1. StackTop \in Nat /\ 0 < StackTop
    BY ShareIs
  <2> QED
    BY <2>1, MemoryIs DEF Data
<1> DEFINE rs == [[q \in Regs |-> 0] EXCEPT !["sp"] = StackTop, ![r] = 1]
           ms == [a \in Memory |-> 0]
<1>4. /\ rs \in [Regs -> Word] /\ rs["x0"] = 0 /\ rs["sp"] = StackTop
      /\ \A q \in Regs \ {"sp"} : rs[q] \in {0, 1}
      /\ rs[PtrReg] = 0
  BY <1>3, RegistersAre
<1>5. ms \in [Memory -> Word] /\ \A a \in Memory : ms[a] \in Data
  BY <1>3
<1>6. DOMAIN m = {"regs", "mem", "ok"} /\ m.regs = rs /\ m.mem = ms /\ m.ok
  BY <1>1
<1> HIDE DEF rs, ms
<1>7. IsMachine(m)
  BY <1>4, <1>5, <1>6 DEF IsMachine
<1>8. m.regs["sp"] = SP
  BY <1>2, <1>4, <1>6 DEF SP
<1>9. DOMAIN calls = {} /\ Len(calls) = 0
  BY <1>2
<1>10. Layout
  <2>1. calls \in Seq(CallRecord)
    BY <1>2
  <2>2. Len(calls) <= MaxDepth
    BY <1>9, ShareIs
  <2> QED
    BY <1>9, <2>1, <2>2 DEF Layout
<1>11. Contents
  BY <1>5, <1>6, <1>9 DEF Contents
<1>12. Pointers
  BY <1>3, <1>4, <1>6, RegistersAre DEF Pointers
<1> QED
  BY <1>7, <1>8, <1>10, <1>11, <1>12 DEF IInv

\* is preserved by every step,
LEMMA StepHolds == IInv /\ [Next]_vars => IInv'
<1> SUFFICES ASSUME IInv, [Next]_vars PROVE IInv'
  OBVIOUS
<1>1. CASE Call
  BY <1>1, CallKeeps
<1>2. CASE calls # <<>> /\ StoreStack
  BY <1>2, StoreStackKeeps
<1>3. CASE calls # <<>> /\ LoadStack
  BY <1>3, LoadStackKeeps
<1>4. CASE calls # <<>> /\ LoadAddrStack
  BY <1>4, LoadAddrStackKeeps
<1>5. CASE calls # <<>> /\ ArraySet
  BY <1>5, ArraySetKeeps
<1>6. CASE calls # <<>> /\ ArrayGet
  BY <1>6, ArrayGetKeeps
<1>7. CASE calls # <<>> /\ CallLibrary
  BY <1>7, CallLibraryKeeps
<1>8. CASE calls # <<>> /\ Return
  BY <1>8, ReturnKeeps
<1>9. CASE UNCHANGED vars
  BY <1>9 DEF vars, IInv, IsMachine, SP, Top, Layout, Base, Contents, Pointers,
              Words, AddrOf
<1> QED
  BY <1>1, <1>2, <1>3, <1>4, <1>5, <1>6, <1>7, <1>8, <1>9 DEF Next

\* and so holds of all states.
THEOREM Invariant == Spec => []IInv
BY InitHolds, StepHolds, PTL DEF Spec

\* Spec => []TypeOK: no immediate is ever too large, no access outside memory, and
\* sp is aligned and where the running function's entry put it.
THEOREM TypeCorrect == Spec => []TypeOK
<1>1. IInv => TypeOK
  <2> SUFFICES ASSUME IInv PROVE TypeOK
    OBVIOUS
  <2>1. SP % 16 = 0
    BY SPIs DEF IInv
  <2> QED
    BY <2>1 DEF IInv, IsMachine, TypeOK, SP
<1> QED
  BY <1>1, Invariant, PTL

-------------------------------------------------------------------------------
(* The machine that code generation reckons with.                          *)

\* Data is what it is, and addresses are pointers to the words they belong to.
DenotesWell ==
    /\ \A x \in Data : Denote(x) = x
    /\ \A k \in DOMAIN calls : \A i \in Words(k) :
         Denote(AddrOf(k, i)) = 1000 + 100 * k + i

\* Since no two frames have a word in common.
LEMMA DenoteIs == Layout => DenotesWell
<1> SUFFICES ASSUME Layout PROVE DenotesWell
  OBVIOUS
<1>1. DOMAIN calls = 1..Len(calls)
  BY DEF Layout
<1>2. ASSUME NEW x \in Data PROVE Denote(x) = x
  BY DEF Denote
<1>3. ASSUME NEW k \in DOMAIN calls, NEW i \in Words(k)
      PROVE  Denote(AddrOf(k, i)) = 1000 + 100 * k + i
  <2> DEFINE x == AddrOf(k, i)
             slots == {s \in (1..Len(calls)) \X Indices :
                         s[2] \in Words(s[1]) /\ AddrOf(s[1], s[2]) = x}
             s0 == CHOOSE s \in slots : TRUE
  <2>1. x \notin Data
    BY WordIs
  <2>2. <<k, i>> \in slots
    BY <1>1 DEF Indices
  <2>3. \A s \in slots : s[1] = k /\ s[2] = i
    <3> SUFFICES ASSUME NEW s \in slots PROVE s[1] = k /\ s[2] = i
      OBVIOUS
    <3>1. s[1] \in DOMAIN calls /\ s[2] \in Words(s[1]) /\ AddrOf(s[1], s[2]) = AddrOf(k, i)
      BY <1>1
    <3> QED
      BY <3>1, WordsDiffer
  <2>4. Denote(x) = IF x \in Data \/ slots = {} THEN x ELSE 1000 + 100 * s0[1] + s0[2]
    BY DEF Denote
  <2> HIDE DEF slots, x
  <2>5. s0 \in slots
    BY <2>2
  <2> HIDE DEF s0
  <2>6. s0[1] = k /\ s0[2] = i /\ slots # {}
    BY <2>2, <2>3, <2>5
  <2> QED
    BY <2>1, <2>4, <2>6 DEF x
<1> QED
  BY <1>2, <1>3 DEF DenotesWell

\* The same, after a step.
LEMMA DenoteNext == Layout' => DenotesWell'
BY DenoteIs, PTL

\* Denotations stay as long as the calls in progress do.
LEMMA DenoteStays ==
    ASSUME UNCHANGED calls, NEW x
    PROVE  Denote(x)' = Denote(x)
BY DEF Denote, Words, AddrOf, Indices

\* There is a largest frame.
LEMMA LargestFrameIs ==
    /\ LargestFrame \in Nat
    /\ \A f \in DOMAIN Funcs : /\ Funcs[f].stacksize \in Nat
                               /\ Funcs[f].stacksize <= LargestFrame
<1> DEFINE S == {Funcs[f].stacksize : f \in DOMAIN Funcs}
<1>1. ASSUME NEW f \in DOMAIN Funcs
      PROVE  Funcs[f].stacksize \in 0..StackTop
  <2> DEFINE n == Funcs[f].stacksize
             d == MaxDepth
  <2>1. n \in Nat /\ d \in Nat /\ d > 0 /\ d * STK(n) < StackTop /\ StackTop \in Nat
    BY ShareIs, FramesAssumption DEF FramesAssumption
  <2> HIDE DEF n, d
  <2> DEFINE q == STK(n)
  <2>2. q \in Nat /\ n <= q
    BY <2>1 DEF STK
  <2> HIDE DEF q
  <2>3. q <= d * q /\ d * q \in Nat
    BY <2>1, <2>2
  <2>4. d * q < StackTop
    BY <2>1 DEF q
  <2>5. n \in 0..StackTop
    BY <2>1, <2>2, <2>3, <2>4
  <2> QED
    BY <2>5 DEF n
<1>2. S \in SUBSET (0..StackTop) /\ S # {} /\ StackTop \in Nat
  BY <1>1, ShareIs, FramesAssumption DEF FramesAssumption
<1>3. LargestFrame = CHOOSE n \in S : \A f \in DOMAIN Funcs : Funcs[f].stacksize <= n
  BY DEF LargestFrame
<1>4. \A f \in DOMAIN Funcs : Funcs[f].stacksize \in S
  OBVIOUS
<1> HIDE DEF S
<1>5. \E n \in S : \A y \in S : y <= n
  BY <1>2, GreatestExists
<1>6. \E n \in S : \A f \in DOMAIN Funcs : Funcs[f].stacksize <= n
  BY <1>4, <1>5
<1>7. LargestFrame \in S /\ \A f \in DOMAIN Funcs : Funcs[f].stacksize <= LargestFrame
  BY <1>3, <1>6
<1> QED
  BY <1>1, <1>2, <1>7

\* The stack has one frame for each call, with the words that the call has.
LEMMA StackIs ==
    ASSUME Layout
    PROVE  /\ Len(Stack) = Len(calls) /\ DOMAIN Stack = DOMAIN calls
           /\ Stack # <<>> <=> calls # <<>>
           /\ \A k \in DOMAIN calls :
                /\ Stack[k].ret = calls[k].ret
                /\ DOMAIN Stack[k].words = Words(k)
                /\ \A i \in Words(k) : /\ Stack[k].words[i] = Denote(m.mem[AddrOf(k, i)])
                                       /\ i \in 0..LargestFrame
<1>1. Len(calls) \in Nat /\ DOMAIN calls = 1..Len(calls) /\ (calls = <<>> <=> Len(calls) = 0)
  BY DEF Layout
<1>2. DOMAIN Stack = 1..Len(calls)
  BY DEF Stack
<1>3. Len(Stack) = Len(calls)
  BY <1>1, <1>2
<1>4. Stack # <<>> <=> calls # <<>>
  <2>1. DOMAIN <<>> = {}
    OBVIOUS
  <2>2. ASSUME calls = <<>> PROVE Stack = <<>>
    <3>1. 1..Len(calls) = {}
      BY <2>2, <1>1
    <3>2. Stack = [k \in {} |-> 0]
      BY <3>1 DEF Stack
    <3>3. Stack \in Seq({}) /\ Len(Stack) = 0
      BY <3>1, <3>2, <1>2, <1>3, <1>1
    <3> QED
      BY <3>3
  <2>3. ASSUME calls # <<>> PROVE Stack # <<>>
    BY <1>1, <1>3, <2>3
  <2> QED
    BY <2>2, <2>3
<1>5. ASSUME NEW k \in DOMAIN calls, NEW i \in Words(k) PROVE i \in 0..LargestFrame
  <2>1. calls[k].fn \in DOMAIN Funcs
    BY FrameIs
  <2> QED
    BY <2>1, LargestFrameIs DEF Words
<1> QED
  BY <1>1, <1>2, <1>3, <1>4, <1>5 DEF Stack

\* Registers whose denotation stays.
LEMMA KeepIs ==
    ASSUME NEW S,
           \A r \in (DataRegs \cup {PtrReg, "t0", "t1"}) \ S :
               Denote(m.regs[r])' = Denote(m.regs[r])
    PROVE  Frame!KeepAllBut(S)
BY DEF Frame!KeepAllBut, Registers

\* A register and what it denotes.
LEMMA RegisterIs ==
    ASSUME NEW r \in DataRegs \cup {PtrReg, "t0", "t1"}
    PROVE  /\ r \in DOMAIN Registers /\ r \in Regs /\ Registers[r] = Denote(m.regs[r])
           /\ Registers'[r] = Denote(m.regs[r])'
BY DEF Registers, Regs

\* One word of one frame is written.
LEMMA WriteIs ==
    ASSUME Layout, UNCHANGED calls, DOMAIN m.mem = Memory,
           NEW k \in DOMAIN calls, NEW i \in Words(k), NEW v \in Data,
           m'.mem = [m.mem EXCEPT ![AddrOf(k, i)] = v]
    PROVE  Frame!Write(k, i, v)
<1> DEFINE W(j) == [l \in Words(j) |-> Denote(m.mem[AddrOf(j, l)])]
           V(j) == [l \in Words(j) |-> Denote(m'.mem[AddrOf(j, l)])]
<1>1. DOMAIN calls = 1..Len(calls) /\ DenotesWell
  BY DenoteIs DEF Layout
<1>2. Stack = [j \in 1..Len(calls) |-> [ret |-> calls[j].ret, words |-> W(j)]]
  BY DEF Stack
<1>3. Stack' = [j \in 1..Len(calls) |-> [ret |-> calls[j].ret, words |-> V(j)]]
  <2>1. \A x : Denote(x)' = Denote(x)
    BY DenoteStays
  <2>2. \A j : Words(j)' = Words(j) /\ \A l : AddrOf(j, l)' = AddrOf(j, l)
    BY DEF Words, AddrOf
  <2> QED
    BY <2>1, <2>2 DEF Stack
<1>4. ASSUME NEW j \in 1..Len(calls), j # k PROVE V(j) = W(j)
  <2>1. \A l \in Words(j) : m'.mem[AddrOf(j, l)] = m.mem[AddrOf(j, l)]
    <3> SUFFICES ASSUME NEW l \in Words(j)
                 PROVE  m'.mem[AddrOf(j, l)] = m.mem[AddrOf(j, l)]
      OBVIOUS
    <3>1. AddrOf(j, l) \in Memory /\ AddrOf(j, l) # AddrOf(k, i)
      BY <1>1, <1>4, WordIs, WordsDiffer
    <3> QED
      BY <3>1
  <2> QED
    BY <2>1
<1>5. V(k) = [W(k) EXCEPT ![i] = v]
  <2>1. AddrOf(k, i) \in Memory
    BY WordIs
  <2>2. \A l \in Words(k) : m'.mem[AddrOf(k, l)] = IF l = i THEN v ELSE m.mem[AddrOf(k, l)]
    <3> SUFFICES ASSUME NEW l \in Words(k)
                 PROVE  m'.mem[AddrOf(k, l)] = IF l = i THEN v ELSE m.mem[AddrOf(k, l)]
      OBVIOUS
    <3>1. AddrOf(k, l) \in Memory /\ (l # i => AddrOf(k, l) # AddrOf(k, i))
      BY WordIs, WordsDiffer
    <3> QED
      BY <2>1, <3>1
  <2>3. Denote(v) = v
    BY <1>1 DEF DenotesWell
  <2> QED
    BY <2>2, <2>3
<1> HIDE DEF W, V
<1> DEFINE T == [Stack EXCEPT ![k] = [Stack[k] EXCEPT !.words = [Stack[k].words EXCEPT ![i] = v]]]
<1>6. T = Stack'
  <2>1. DOMAIN T = 1..Len(calls) /\ k \in 1..Len(calls)
    BY <1>1, <1>2
  <2>2. ASSUME NEW j \in 1..Len(calls)
        PROVE  T[j] = [ret |-> calls[j].ret, words |-> V(j)]
    <3>1. CASE j = k
      <4>1. Stack[k] = [ret |-> calls[k].ret, words |-> W(k)]
        BY <1>2, <2>1
      <4>2. T[j] = [Stack[k] EXCEPT !.words = [W(k) EXCEPT ![i] = v]]
        BY <1>2, <2>1, <3>1, <4>1
      <4> QED
        BY <1>5, <3>1, <4>1, <4>2
    <3>2. CASE j # k
      <4>1. T[j] = Stack[j]
        BY <1>2, <2>1, <3>2
      <4> QED
        BY <1>2, <1>4, <3>2, <4>1
    <3> QED
      BY <3>1, <3>2
  <2>3. T = [j \in 1..Len(calls) |-> T[j]]
    BY <2>1
  <2> HIDE DEF T
  <2> QED
    BY <1>3, <2>2, <2>3
<1>7. T = [Stack EXCEPT ![k] = [@ EXCEPT !.words[i] = v]]
  OBVIOUS
<1> HIDE DEF T
<1> QED
  BY <1>6, <1>7 DEF Frame!Write

\* Nothing is written.
LEMMA StackStays ==
    ASSUME Layout, UNCHANGED calls,
           \A k \in DOMAIN calls : \A i \in Words(k) :
               m'.mem[AddrOf(k, i)] = m.mem[AddrOf(k, i)]
    PROVE  Stack' = Stack
<1>1. \A x : Denote(x)' = Denote(x)
  BY DenoteStays
<1>2. \A j : Words(j)' = Words(j) /\ \A l : AddrOf(j, l)' = AddrOf(j, l)
  BY DEF Words, AddrOf
<1>3. DOMAIN calls = 1..Len(calls)
  BY DEF Layout
<1> DEFINE W(j) == [l \in Words(j) |-> Denote(m.mem[AddrOf(j, l)])]
           V(j) == [l \in Words(j) |-> Denote(m'.mem[AddrOf(j, l)])]
<1>4. Stack = [j \in 1..Len(calls) |-> [ret |-> calls[j].ret, words |-> W(j)]]
  BY DEF Stack
<1>5. Stack' = [j \in 1..Len(calls) |-> [ret |-> calls[j].ret, words |-> V(j)]]
  BY <1>1, <1>2 DEF Stack
<1>6. \A j \in 1..Len(calls) : V(j) = W(j)
  BY <1>3
<1> HIDE DEF V, W
<1> QED
  BY <1>4, <1>5, <1>6

\* StoreStack writes one word of the last frame.
LEMMA StoreStackSimulates ==
    ASSUME IInv, calls # <<>>, StoreStack
    PROVE  Frame!Next
<1> DEFINE k == Len(calls)
<1>1. PICK i \in Ends(k), r \in DataRegs :
         m.regs[r] \in Data /\ m' = ExecAsmAll(m, StoreStackAsm(i, r))
  BY DEF StoreStack, Run
<1>2. /\ k \in DOMAIN calls /\ i \in Words(k) /\ calls' = calls /\ at' = at
      /\ Layout /\ DOMAIN m.mem = Memory
  BY TopIs DEF Ends, StoreStack, IInv, IsMachine
<1>3. /\ Only(m, m', {"t0", "t1"} \ {r})
      /\ m'.mem = [m.mem EXCEPT ![AddrOf(k, i)] = m.regs[r]]
  BY <1>1, <1>2, StoreStackIs
<1>4. /\ Len(Stack) = k /\ Stack # <<>> /\ DOMAIN Stack[k].words = Words(k)
      /\ i \in 0..LargestFrame
  BY <1>2, StackIs
<1>5. \A x : Denote(x)' = Denote(x)
  BY <1>2, DenoteStays
<1>6. Frame!KeepAllBut({"t0", "t1"} \ {r})
  <2>1. \A q \in (DataRegs \cup {PtrReg, "t0", "t1"}) \ ({"t0", "t1"} \ {r}) :
           Denote(m.regs[q])' = Denote(m.regs[q])
    BY <1>3, <1>5 DEF Only, Regs
  <2> QED
    BY <2>1, KeepIs
<1>7. Frame!Write(k, i, m.regs[r])
  <2> DEFINE v == m.regs[r]
  <2>1. v \in Data /\ m'.mem = [m.mem EXCEPT ![AddrOf(k, i)] = v]
    BY <1>1, <1>3
  <2> HIDE DEF v, k
  <2>2. Frame!Write(k, i, v)
    BY <1>2, <2>1, WriteIs
  <2> QED
    BY <2>2 DEF v
<1>8. r \in DOMAIN Registers /\ Registers[r] = m.regs[r]
  <2>1. Denote(m.regs[r]) = m.regs[r]
    BY <1>1, <1>2, DenoteIs DEF DenotesWell
  <2> QED
    BY <2>1, RegisterIs
<1>9. Frame!StoreStack(i, r)
  BY <1>2, <1>4, <1>6, <1>7, <1>8 DEF Frame!StoreStack, Frame!Top, Frame!Depth
<1> QED
  BY <1>4, <1>8, <1>9 DEF Frame!Next

\* LoadStack reads one.
LEMMA LoadStackSimulates ==
    ASSUME IInv, calls # <<>>, LoadStack
    PROVE  Frame!Next
<1> DEFINE k == Len(calls)
<1>1. PICK i \in Ends(k), r \in DataRegs \cup {PtrReg} :
         m' = ExecAsmAll(m, LoadStackAsm(r, i))
  BY DEF LoadStack, Run
<1>2. /\ k \in DOMAIN calls /\ i \in Words(k) /\ calls' = calls /\ at' = at
      /\ Layout /\ DOMAIN m.regs = Regs /\ r \in Regs
  BY TopIs DEF Ends, LoadStack, IInv, IsMachine, Regs
<1>3. /\ m'.mem = m.mem
      /\ m'.regs = [m.regs EXCEPT ![r] = m.mem[AddrOf(k, i)]]
  BY <1>1, <1>2, LoadStackIs
<1>4. /\ Len(Stack) = k /\ Stack # <<>> /\ DOMAIN Stack[k].words = Words(k)
      /\ i \in 0..LargestFrame /\ Stack[k].words[i] = Denote(m.mem[AddrOf(k, i)])
  BY <1>2, StackIs
<1>5. \A x : Denote(x)' = Denote(x)
  BY <1>2, DenoteStays
<1>6. Frame!KeepAllBut({r} \cup {})
  <2>1. \A q \in (DataRegs \cup {PtrReg, "t0", "t1"}) \ ({r} \cup {}) :
           Denote(m.regs[q])' = Denote(m.regs[q])
    BY <1>2, <1>3, <1>5 DEF Regs
  <2> QED
    BY <2>1, KeepIs
<1>7. Stack' = Stack
  BY <1>2, <1>3, StackStays
<1>8. r \in DOMAIN Registers /\ Registers'[r] = Stack[k].words[i]
  <2>1. Denote(m.regs[r])' = Denote(m.mem[AddrOf(k, i)])
    BY <1>2, <1>3, <1>5
  <2> QED
    BY <1>4, <2>1, RegisterIs
<1>9. Frame!LoadStack(r, i)
  BY <1>2, <1>4, <1>6, <1>7, <1>8 DEF Frame!LoadStack, Frame!Top, Frame!Assign
<1> QED
  BY <1>4, <1>8, <1>9 DEF Frame!Next

\* LoadAddrStack makes a pointer to one.
LEMMA LoadAddrStackSimulates ==
    ASSUME IInv, calls # <<>>, LoadAddrStack
    PROVE  Frame!Next
<1> DEFINE k == Len(calls)
           r == PtrReg
<1>1. PICK i \in Ends(k) : m' = ExecAsmAll(m, LoadAddrStackAsm(PtrReg, i))
  BY DEF LoadAddrStack, Run
<1>2. /\ k \in DOMAIN calls /\ i \in Words(k) /\ calls' = calls /\ at' = at
      /\ Layout /\ DOMAIN m.regs = Regs /\ r \in Regs
  BY TopIs DEF Ends, LoadAddrStack, IInv, IsMachine, Regs
<1>3. /\ m'.mem = m.mem
      /\ m'.regs = [m.regs EXCEPT ![r] = AddrOf(k, i)]
  BY <1>1, <1>2, LoadAddrStackIs
<1>4. /\ Len(Stack) = k /\ Stack # <<>> /\ DOMAIN Stack[k].words = Words(k)
      /\ i \in 0..LargestFrame
  BY <1>2, StackIs
<1>5. \A x : Denote(x)' = Denote(x)
  BY <1>2, DenoteStays
<1>6. Frame!KeepAllBut({r} \cup {})
  <2>1. \A q \in (DataRegs \cup {PtrReg, "t0", "t1"}) \ ({r} \cup {}) :
           Denote(m.regs[q])' = Denote(m.regs[q])
    BY <1>2, <1>3, <1>5 DEF Regs
  <2> QED
    BY <2>1, KeepIs
<1>7. Stack' = Stack
  BY <1>2, <1>3, StackStays
<1>8. r \in DOMAIN Registers /\ Registers'[r] = Frame!Slot(k, i)
  <2>1. Denote(m.regs[r])' = Denote(AddrOf(k, i))
    BY <1>2, <1>3, <1>5
  <2>2. Denote(AddrOf(k, i)) = 1000 + 100 * k + i
    BY <1>2, DenoteIs DEF DenotesWell
  <2> QED
    BY <2>1, <2>2, RegisterIs DEF Frame!Slot, Frame!PointerBase
<1>9. Frame!LoadAddrStack(r, i)
  BY <1>2, <1>4, <1>6, <1>7, <1>8
     DEF Frame!LoadAddrStack, Frame!Top, Frame!Depth, Frame!Assign
<1> QED
  BY <1>4, <1>8, <1>9 DEF Frame!Next

\* ArraySet writes where the pointer and the offset say.
LEMMA ArraySetSimulates ==
    ASSUME IInv, calls # <<>>, ArraySet
    PROVE  Frame!Next
<1>1. PICK off \in Indices, r \in DataRegs :
         /\ PointsAt(off) /\ m.regs[r] \in Data /\ ArraySetOK(4 * off)
         /\ m' = ExecAsmAll(m, ArraySetAsm(PtrReg, 4 * off, r))
  BY DEF ArraySet, Run
<1>2. PICK k \in DOMAIN calls : \E i \in Ends(k) :
         i + off \in Ends(k) /\ m.regs[PtrReg] = AddrOf(k, i)
  BY <1>1 DEF PointsAt
<1>3. PICK i \in Words(k) : i + off \in Words(k) /\ m.regs[PtrReg] = AddrOf(k, i)
  BY <1>2 DEF Ends
<1>4. calls' = calls /\ at' = at /\ Layout /\ DOMAIN m.mem = Memory
  BY DEF ArraySet, IInv, IsMachine
<1>5. /\ m'.regs = m.regs
      /\ m'.mem = [m.mem EXCEPT ![AddrOf(k, i + off)] = m.regs[r]]
  BY <1>1, <1>3, ArraySetIs
<1>6. \A x : Denote(x)' = Denote(x)
  BY <1>4, DenoteStays
<1>7. /\ Stack # <<>> /\ k \in DOMAIN Stack
      /\ i \in DOMAIN Stack[k].words /\ i + off \in DOMAIN Stack[k].words
  BY <1>3, <1>4, StackIs
<1>8. off \in 0..LargestFrame
  <2>1. PICK j \in DOMAIN calls : off \in Words(j)
    BY DEF Indices
  <2> QED
    BY <1>4, <2>1, StackIs
<1>9. Registers' = Registers
  BY <1>5, <1>6 DEF Registers
<1>10. /\ r \in DOMAIN Registers /\ Registers[r] = m.regs[r]
       /\ PtrReg \in DOMAIN Registers /\ Registers[PtrReg] = Frame!Slot(k, i)
  <2>1. DenotesWell
    BY <1>4, DenoteIs
  <2>2. Denote(m.regs[r]) = m.regs[r]
    BY <1>1, <2>1 DEF DenotesWell
  <2>3. Denote(m.regs[PtrReg]) = 1000 + 100 * k + i
    BY <1>3, <2>1 DEF DenotesWell
  <2> QED
    BY <2>2, <2>3, RegisterIs DEF Frame!Slot, Frame!PointerBase
<1>11. Frame!Write(k, i + off, Registers[r])
  <2> DEFINE v == m.regs[r]
             l == i + off
  <2>1. v \in Data /\ l \in Words(k) /\ m'.mem = [m.mem EXCEPT ![AddrOf(k, l)] = v]
    BY <1>1, <1>3, <1>5
  <2> HIDE DEF v, l
  <2>2. Frame!Write(k, l, v)
    BY <1>4, <2>1, WriteIs
  <2> QED
    BY <1>10, <2>2 DEF v, l
<1>12. Frame!ArraySet(PtrReg, off, r)
  BY <1>4, <1>7, <1>9, <1>10, <1>11 DEF Frame!ArraySet
<1> QED
  BY <1>7, <1>8, <1>10, <1>12 DEF Frame!Next

\* ArrayGet reads there.
LEMMA ArrayGetSimulates ==
    ASSUME IInv, calls # <<>>, ArrayGet
    PROVE  Frame!Next
<1>1. PICK off \in Indices, r \in DataRegs :
         /\ PointsAt(off)
         /\ m' = ExecAsmAll(m, ArrayGetAsm(r, PtrReg, 4 * off))
  BY DEF ArrayGet, Run
<1>2. PICK k \in DOMAIN calls : \E i \in Ends(k) :
         i + off \in Ends(k) /\ m.regs[PtrReg] = AddrOf(k, i)
  BY <1>1 DEF PointsAt
<1>3. PICK i \in Words(k) : i + off \in Words(k) /\ m.regs[PtrReg] = AddrOf(k, i)
  BY <1>2 DEF Ends
<1>4. calls' = calls /\ at' = at /\ Layout
  BY DEF ArrayGet, IInv
<1>5. /\ m'.mem = m.mem /\ Only(m, m', {r, "t0"})
      /\ m'.regs[r] = m.mem[AddrOf(k, i + off)]
  BY <1>1, <1>3, ArrayGetIs
<1>6. \A x : Denote(x)' = Denote(x)
  BY <1>4, DenoteStays
<1>7. /\ Stack # <<>> /\ k \in DOMAIN Stack
      /\ i \in DOMAIN Stack[k].words /\ i + off \in DOMAIN Stack[k].words
      /\ Stack[k].words[i + off] = Denote(m.mem[AddrOf(k, i + off)])
  BY <1>3, <1>4, StackIs
<1>8. off \in 0..LargestFrame
  <2>1. PICK j \in DOMAIN calls : off \in Words(j)
    BY DEF Indices
  <2> QED
    BY <1>4, <2>1, StackIs
<1>9. Frame!KeepAllBut({r} \cup {"t0", "t1"})
  <2>1. \A q \in (DataRegs \cup {PtrReg, "t0", "t1"}) \ ({r} \cup {"t0", "t1"}) :
           Denote(m.regs[q])' = Denote(m.regs[q])
    BY <1>5, <1>6 DEF Only, Regs
  <2> QED
    BY <2>1, KeepIs
<1>10. /\ r \in DOMAIN Registers /\ Registers'[r] = Stack[k].words[i + off]
       /\ PtrReg \in DOMAIN Registers /\ Registers[PtrReg] = Frame!Slot(k, i)
  <2>1. Denote(m.regs[r])' = Denote(m.mem[AddrOf(k, i + off)])
    BY <1>5, <1>6
  <2>2. Denote(m.regs[PtrReg]) = 1000 + 100 * k + i
    BY <1>3, <1>4, DenoteIs DEF DenotesWell
  <2> QED
    BY <1>7, <2>1, <2>2, RegisterIs DEF Frame!Slot, Frame!PointerBase
<1>11. Stack' = Stack
  BY <1>4, <1>5, StackStays
<1>12. Frame!ArrayGet(r, PtrReg, off)
  BY <1>4, <1>7, <1>9, <1>10, <1>11 DEF Frame!ArrayGet, Frame!Assign
<1> QED
  BY <1>7, <1>8, <1>10, <1>12 DEF Frame!Next

\* A library function leaves the frames alone.
LEMMA CallLibrarySimulates ==
    ASSUME IInv, calls # <<>>, CallLibrary
    PROVE  Frame!Next
<1>1. /\ calls' = calls /\ at' = at /\ Layout
      /\ \A r \in Regs : m'.regs[r] = IF r \in CalleeSaved \cup {"x0", "sp"}
                                      THEN m.regs[r] ELSE 0
      /\ \A a \in Memory : m'.mem[a] = IF a < SP THEN 0 ELSE m.mem[a]
  BY CallLibraryIs DEF CallLibrary, IInv
<1>2. \A x : Denote(x)' = Denote(x)
  BY <1>1, DenoteStays
<1>3. \A k \in DOMAIN calls : \A i \in Words(k) :
         m'.mem[AddrOf(k, i)] = m.mem[AddrOf(k, i)]
  <2> SUFFICES ASSUME NEW k \in DOMAIN calls, NEW i \in Words(k)
               PROVE  m'.mem[AddrOf(k, i)] = m.mem[AddrOf(k, i)]
    OBVIOUS
  <2> DEFINE a == AddrOf(k, i)
             s == SP
  <2>1. a \in Memory /\ calls[k].sp <= a /\ s <= calls[k].sp
    BY <1>1, WordIs, SPIs
  <2>2. calls[k].sp \in Nat /\ s \in Nat /\ a \in Nat
    <3>1. calls[k].sp \in 16..StackTop /\ s \in 16..StackTop
      BY <1>1, FrameIs, SPIs
    <3> HIDE DEF a, s
    <3> QED
      BY <2>1, <3>1, MemoryIs
  <2> HIDE DEF a, s
  <2>3. ~ (a < s)
    BY <2>1, <2>2
  <2> QED
    BY <1>1, <2>1, <2>3 DEF a, s
<1>4. Stack' = Stack
  BY <1>1, <1>3, StackStays
<1>5. DOMAIN Registers = DataRegs \cup {PtrReg, "t0", "t1"}
  BY DEF Registers
<1>6. Frame!KeepAllBut(DOMAIN Registers \ CalleeSaved)
  <2>1. \A q \in (DataRegs \cup {PtrReg, "t0", "t1"}) \ (DOMAIN Registers \ CalleeSaved) :
           Denote(m.regs[q])' = Denote(m.regs[q])
    BY <1>1, <1>2, <1>5, RegisterIs
  <2> QED
    BY <2>1, KeepIs
<1>7. Stack # <<>>
  BY <1>1, StackIs
<1>8. Frame!CallLibrary
  BY <1>1, <1>4, <1>6 DEF Frame!CallLibrary
<1> QED
  BY <1>7, <1>8 DEF Frame!Next

\* One frame for each call.
StackWell ==
    /\ Len(Stack) = Len(calls) /\ DOMAIN Stack = DOMAIN calls
    /\ \A k \in DOMAIN calls :
         Stack[k] = [ret   |-> calls[k].ret,
                     words |-> [i \in Words(k) |-> Denote(m.mem[AddrOf(k, i)])]]

\* What StackIs says, as one formula,
LEMMA StackShape == Layout => StackWell
<1> SUFFICES ASSUME Layout PROVE StackWell
  OBVIOUS
<1>1. DOMAIN calls = 1..Len(calls) /\ Len(Stack) = Len(calls) /\ DOMAIN Stack = DOMAIN calls
  BY StackIs DEF Layout
<1> QED
  BY <1>1 DEF StackWell, Stack

\* and after a step.
LEMMA StackNext == Layout' => StackWell'
BY StackShape, PTL

\* The frames of calls that go on have the words they had, and pointers into
\* them stay pointers into them.
LEMMA KeptFrames ==
    ASSUME IInv, Layout', NEW j \in Nat, NEW lo \in Nat,
           \A k \in 1..j : /\ k \in DOMAIN calls /\ calls'[k] = calls[k]
                           /\ k \in DOMAIN calls' /\ lo <= calls[k].sp,
           \A b \in Memory : ~ (b < lo) => m'.mem[b] = m.mem[b]
    PROVE  /\ \A k \in 1..j : Stack'[k] = Stack[k]
           /\ \A k \in 1..j : \A i \in Words(k) :
                \A x : x = AddrOf(k, i) => Denote(x)' = Denote(x)
           /\ \A x \in Data : Denote(x)' = x /\ Denote(x) = x
<1>1. Layout /\ DenotesWell /\ DenotesWell' /\ StackWell /\ StackWell'
  BY DenoteIs, DenoteNext, StackShape, StackNext DEF IInv
<1>2. \A x \in Data : Denote(x)' = x /\ Denote(x) = x
  BY <1>1 DEF DenotesWell
<1>3. ASSUME NEW k \in 1..j
      PROVE  /\ Words(k)' = Words(k) /\ \A i : AddrOf(k, i)' = AddrOf(k, i)
             /\ \A i \in Words(k) : m'.mem[AddrOf(k, i)] = m.mem[AddrOf(k, i)]
  <2>1. \A l \in 1..j : l \in DOMAIN calls /\ calls'[l] = calls[l] /\ lo <= calls[l].sp
    OBVIOUS
  <2> QED
    BY <1>1, <2>1, KeptWords
<1>4. ASSUME NEW k \in 1..j PROVE Stack'[k] = Stack[k]
  <2> DEFINE W == [i \in Words(k) |-> Denote(m.mem[AddrOf(k, i)])]
             V == [i \in Words(k)' |-> Denote(m.mem[AddrOf(k, i)])']
  <2>1. k \in DOMAIN calls /\ k \in DOMAIN calls' /\ calls'[k] = calls[k]
    OBVIOUS
  <2>2. Stack[k] = [ret |-> calls[k].ret, words |-> W]
    BY <1>1, <2>1 DEF StackWell
  <2>3. Stack'[k] = [ret |-> calls[k].ret, words |-> V]
    BY <1>1, <2>1 DEF StackWell
  <2>4. V = W
    <3>1. \A i \in Words(k) : Denote(m.mem[AddrOf(k, i)])' = Denote(m.mem[AddrOf(k, i)])
      <4> SUFFICES ASSUME NEW i \in Words(k)
                   PROVE  Denote(m.mem[AddrOf(k, i)])' = Denote(m.mem[AddrOf(k, i)])
        OBVIOUS
      <4>1. m.mem[AddrOf(k, i)] \in Data
        BY <2>1 DEF IInv, Contents
      <4>2. m'.mem[AddrOf(k, i)'] = m.mem[AddrOf(k, i)]
        BY <1>3
      <4> QED
        BY <1>2, <4>1, <4>2
    <3>2. Words(k)' = Words(k)
      BY <1>3
    <3> QED
      BY <3>1, <3>2
  <2> HIDE DEF V, W
  <2> QED
    BY <2>2, <2>3, <2>4
<1>5. ASSUME NEW k \in 1..j, NEW i \in Words(k), NEW x, x = AddrOf(k, i)
      PROVE  Denote(x)' = Denote(x)
  <2>1. k \in DOMAIN calls /\ k \in DOMAIN calls' /\ i \in Words(k)' /\ x = AddrOf(k, i)'
    BY <1>3, <1>5
  <2>2. Denote(x) = 1000 + 100 * k + i
    <3>1. k \in DOMAIN calls
      OBVIOUS
    <3>2. Denote(AddrOf(k, i)) = 1000 + 100 * k + i
      BY <1>1, <3>1 DEF DenotesWell
    <3> QED
      BY <1>5, <3>2
  <2>3. Denote(x)' = 1000 + 100 * k + i
    BY <1>1, <2>1 DEF DenotesWell
  <2> QED
    BY <2>2, <2>3
<1> QED
  BY <1>2, <1>4, <1>5

\* What the registers that are not scratch hold, then.
LEMMA KeptRegisters ==
    ASSUME IInv, NEW j \in Nat,
           \A k \in 1..j : \A i \in Words(k) :
                \A x : x = AddrOf(k, i) => Denote(x)' = Denote(x),
           \A x \in Data : Denote(x)' = x /\ Denote(x) = x,
           \A q \in Regs \ {"sp", "ra", "t0"} : m'.regs[q] = m.regs[q],
           \/ m.regs[PtrReg] \in Data
           \/ \E k \in 1..j : \E i \in Words(k) : m.regs[PtrReg] = AddrOf(k, i)
    PROVE  Frame!KeepAllBut({"t0", "t1"})
<1>1. \A q \in DataRegs \ {"t0", "t1"} : Denote(m.regs[q])' = Denote(m.regs[q])
  <2>1. \A q \in DataRegs \ {"t0", "t1"} : m'.regs[q] = m.regs[q] /\ m.regs[q] \in Data
    BY RegistersAre DEF IInv, Pointers
  <2> QED
    BY <2>1
<1>2. Denote(m.regs[PtrReg])' = Denote(m.regs[PtrReg])
  <2>1. m'.regs[PtrReg] = m.regs[PtrReg]
    BY RegistersAre
  <2> QED
    BY <2>1
<1>3. \A q \in (DataRegs \cup {PtrReg, "t0", "t1"}) \ {"t0", "t1"} :
         Denote(m.regs[q])' = Denote(m.regs[q])
  BY <1>1, <1>2
<1> QED
  BY <1>3, KeepIs

\* A call adds a frame and leaves those there are.
LEMMA CallSimulates ==
    ASSUME IInv, Call
    PROVE  Frame!Next
<1>1. PICK n \in Nat : n = Len(calls)
  BY DEF IInv, Layout
<1>2. Layout /\ n < MaxDepth /\ (calls # <<>> => ~ Func.isleaf) /\ DOMAIN m.mem = Memory
  BY <1>1 DEF IInv, Call, IsMachine
<1>3. PICK f \in DOMAIN Funcs, ret \in {CallSite[c] : c \in DOMAIN CallSite} :
        /\ calls' = Append(calls, [fn |-> f, sp |-> SP - Size(f), ret |-> ret])
        /\ IsMachine(m') /\ m'.regs["sp"] = SP - Size(f) /\ ret \in Word
        /\ \A q \in Regs \ {"sp", "ra", "t0"} : m'.regs[q] = m.regs[q]
        /\ Funcs[f].isleaf => m'.mem = m.mem /\ m'.regs["ra"] = ret
        /\ ~ Funcs[f].isleaf => m'.mem = [m.mem EXCEPT ![SP - 4] = ret]
  BY CallIs
<1>4. /\ Layout' /\ DOMAIN calls = 1..n /\ DOMAIN calls' = 1..(n + 1)
      /\ \A k \in DOMAIN calls : calls'[k] = calls[k]
      /\ calls'[n + 1] = [fn |-> f, sp |-> SP - Size(f), ret |-> ret]
  BY <1>1, <1>2, <1>3, CallKeepsLayout
<1>5. PICK lo \in Nat : lo = SP
  BY <1>2, SPIs, MemoryIs
<1>6. \A k \in 1..n : /\ k \in DOMAIN calls /\ calls'[k] = calls[k]
                      /\ k \in DOMAIN calls' /\ lo <= calls[k].sp
  BY <1>2, <1>4, <1>5, SPIs
<1>7. \A b \in Memory : ~ (b < lo) => m'.mem[b] = m.mem[b]
  <2>1. \A b \in Memory : ~ (b < lo) => b # lo - 4
    BY MemoryIs
  <2>2. \A b \in Memory : b # SP - 4 => m'.mem[b] = m.mem[b]
    BY <1>2, <1>3, FramesAssumption DEF FramesAssumption
  <2> QED
    BY <1>5, <2>1, <2>2
<1>8. /\ \A k \in 1..n : Stack'[k] = Stack[k]
      /\ \A k \in 1..n : \A i \in Words(k) :
                \A x : x = AddrOf(k, i) => Denote(x)' = Denote(x)
      /\ \A x \in Data : Denote(x)' = x /\ Denote(x) = x
  BY <1>4, <1>6, <1>7, KeptFrames
<1>9. Frame!KeepAllBut({"t0", "t1"})
  <2>1. \/ m.regs[PtrReg] \in Data
        \/ \E k \in 1..n : \E i \in Words(k) : m.regs[PtrReg] = AddrOf(k, i)
    BY <1>4 DEF IInv, Pointers
  <2>2. \A q \in Regs \ {"sp", "ra", "t0"} : m'.regs[q] = m.regs[q]
    BY <1>3
  <2> QED
    BY <1>8, <2>1, <2>2, KeptRegisters
<1> DEFINE d == calls'
<1>10. /\ Len(Stack) = n /\ DOMAIN Stack = 1..n
       /\ Len(Stack') = n + 1
       /\ Stack'[n + 1].ret = ret
       /\ DOMAIN Stack'[n + 1].words = 0..(Funcs[f].stacksize - 1)
  <2>1. Len(Stack) = n /\ DOMAIN Stack = 1..n
    BY <1>1, <1>2, <1>4, StackIs
  <2>2. StackWell'
    BY <1>4, StackNext
  <2>3. n + 1 \in DOMAIN calls' /\ Len(calls') = n + 1
    BY <1>1, <1>2, <1>3, <1>4 DEF Layout
  <2>4. Len(Stack') = n + 1
    BY <2>2, <2>3 DEF StackWell
  <2>5. Stack'[n + 1].ret = d[n + 1].ret /\ DOMAIN Stack'[n + 1].words = Words(n + 1)'
    BY <2>2, <2>3 DEF StackWell
  <2>6. d[n + 1].ret = ret /\ Words(n + 1)' = 0..(Funcs[f].stacksize - 1)
    BY <1>4 DEF Words
  <2> QED
    BY <2>1, <2>4, <2>5, <2>6
<1>11. at' = 0
  BY DEF Call
<1>12. Frame!Call(ret, Funcs[f].stacksize)
  BY <1>8, <1>9, <1>10, <1>11 DEF Frame!Call, Frame!Depth
<1>13. Funcs[f].stacksize \in 0..LargestFrame
  BY LargestFrameIs
<1> QED
  BY <1>12, <1>13 DEF Frame!Next

\* A return removes the last frame and goes where its call came from.
LEMMA ReturnSimulates ==
    ASSUME IInv, calls # <<>>, Return
    PROVE  Frame!Next
<1>1. PICK n \in Nat : n = Len(calls)
  BY DEF IInv, Layout
<1>2. Layout /\ n # 0
  BY <1>1 DEF IInv, Layout
<1>3. /\ calls' = Front(calls)
      /\ \A q \in Regs \ {"sp", "ra", "t0"} : m'.regs[q] = m.regs[q]
      /\ \A a \in Memory : m'.mem[a] = IF a < Base(n) THEN 0 ELSE m.mem[a]
      /\ at' = calls[n].ret
  BY <1>1, <1>2, ReturnIs
<1>4. /\ Layout' /\ DOMAIN calls = 1..n /\ DOMAIN calls' = 1..(n - 1)
      /\ \A k \in 1..(n - 1) : calls'[k] = calls[k] /\ Base(n) <= calls[k].sp
  BY <1>1, <1>2, <1>3, ReturnKeepsLayout
<1>5. PICK lo \in Nat : lo = Base(n)
  <2>1. n \in DOMAIN calls
    BY <1>2, <1>4
  <2>2. Base(n) \in 16..StackTop
    BY <1>2, <2>1, FrameIs
  <2> HIDE DEF Base
  <2> QED
    BY <2>2, MemoryIs
<1>6. PICK j \in Nat : j = n - 1
  BY <1>2
<1>7. \A k \in 1..j : /\ k \in DOMAIN calls /\ calls'[k] = calls[k]
                      /\ k \in DOMAIN calls' /\ lo <= calls[k].sp
  BY <1>4, <1>5, <1>6
<1>8. \A b \in Memory : ~ (b < lo) => m'.mem[b] = m.mem[b]
  BY <1>3, <1>5
<1>9. /\ \A k \in 1..j : Stack'[k] = Stack[k]
      /\ \A k \in 1..j : \A i \in Words(k) :
                \A x : x = AddrOf(k, i) => Denote(x)' = Denote(x)
      /\ \A x \in Data : Denote(x)' = x /\ Denote(x) = x
  BY <1>4, <1>7, <1>8, KeptFrames
<1>10. Frame!KeepAllBut({"t0", "t1"})
  <2>1. \/ m.regs[PtrReg] \in Data
        \/ \E k \in 1..j : \E i \in Words(k) : m.regs[PtrReg] = AddrOf(k, i)
    <3>1. m.regs[PtrReg] \notin {AddrOf(n, i) : i \in Words(n)}
      BY <1>1 DEF Return
    <3>2. \/ m.regs[PtrReg] \in Data
          \/ \E k \in 1..n : \E i \in Words(k) : m.regs[PtrReg] = AddrOf(k, i)
      BY <1>4 DEF IInv, Pointers
    <3>3. \A k \in 1..n : k = n \/ k \in 1..j
      BY <1>6
    <3> QED
      BY <3>1, <3>2, <3>3
  <2> QED
    BY <1>3, <1>9, <2>1, KeptRegisters
<1>11. /\ Len(Stack) = n /\ DOMAIN Stack = 1..n /\ Stack # <<>>
       /\ Stack[n].ret = calls[n].ret /\ DOMAIN Stack' = 1..j
  <2>1. n \in DOMAIN calls
    BY <1>2, <1>4
  <2>2. DOMAIN Stack' = 1..j
    BY <1>4, <1>6, StackNext DEF StackWell
  <2> QED
    BY <1>1, <1>2, <1>4, <2>1, <2>2, StackIs
<1>12. Stack' = SubSeq(Stack, 1, n - 1)
  <2>1. SubSeq(Stack, 1, n - 1) = [i \in 1..j |-> Stack[i]]
    <3> DEFINE t == SubSeq(Stack, 1, n - 1)
    <3>1. DOMAIN t = 1..j /\ \A i \in 1..j : t[i] = Stack[i]
      BY <1>6, <1>11
    <3>2. t = [i \in DOMAIN t |-> t[i]]
      OBVIOUS
    <3> HIDE DEF t
    <3> QED
      BY <3>1, <3>2 DEF t
  <2>2. Stack' = [i \in 1..j |-> Stack'[i]]
    BY <1>4, <1>6, <1>11 DEF Stack
  <2> QED
    BY <1>9, <2>1, <2>2
<1>13. Frame!Return
  BY <1>3, <1>10, <1>11, <1>12 DEF Frame!Return, Frame!Top, Frame!Depth
<1> QED
  BY <1>11, <1>13 DEF Frame!Next

\* No frames at first.
LEMMA InitSimulates == Init => Frame!Init
<1> SUFFICES ASSUME Init PROVE Frame!Init
  OBVIOUS
<1>1. IInv /\ calls = <<>> /\ at = 0
  BY InitHolds DEF Init
<1>2. Stack = <<>>
  BY <1>1, StackIs DEF IInv
<1> QED
  BY <1>1, <1>2 DEF Frame!Init

\* Every step of the machine is one of FrameMachine, or none.
LEMMA StepSimulates == IInv /\ [Next]_vars => [Frame!Next]_(Frame!fvars)
<1> SUFFICES ASSUME IInv, [Next]_vars PROVE Frame!Next \/ UNCHANGED Frame!fvars
  OBVIOUS
<1>1. CASE Call
  BY <1>1, CallSimulates
<1>2. CASE calls # <<>> /\ StoreStack
  BY <1>2, StoreStackSimulates
<1>3. CASE calls # <<>> /\ LoadStack
  BY <1>3, LoadStackSimulates
<1>4. CASE calls # <<>> /\ LoadAddrStack
  BY <1>4, LoadAddrStackSimulates
<1>5. CASE calls # <<>> /\ ArraySet
  BY <1>5, ArraySetSimulates
<1>6. CASE calls # <<>> /\ ArrayGet
  BY <1>6, ArrayGetSimulates
<1>7. CASE calls # <<>> /\ CallLibrary
  BY <1>7, CallLibrarySimulates
<1>8. CASE calls # <<>> /\ Return
  BY <1>8, ReturnSimulates
<1>9. CASE UNCHANGED vars
  BY <1>9 DEF vars, Frame!fvars, Registers, Stack, Denote, Words, AddrOf, Indices
<1> QED
  BY <1>1, <1>2, <1>3, <1>4, <1>5, <1>6, <1>7, <1>8, <1>9 DEF Next

\* Spec => ImplementsFrames: for every set of functions and any sizes of frames and
\* limits of immediates, every call has words of its own that only its own
\* instructions and pointers to them change, and returns to where it came from.
THEOREM FramesAreTheirOwn == Spec => ImplementsFrames
BY InitSimulates, StepSimulates, Invariant, PTL DEF Spec, ImplementsFrames, Frame!Spec
===============================================================================
