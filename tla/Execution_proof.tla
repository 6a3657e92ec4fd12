-------------------------- MODULE Execution_proof ---------------------------
(***************************************************************************)
(* Compiled programs do what they mean.  First the report of DestroySet:   *)
(* the frame has room for the registers saved around every call, and the   *)
(* sets are exact.  Then the stack: a function that waits finds again what *)
(* it needs, in its frame or in registers that nothing it has called       *)
(* overwrites.  Last the refinement: every step of Execution is one of     *)
(* IrExec.                                                                 *)
(***************************************************************************)
EXTENDS Execution, GenInst_proof

-------------------------------------------------------------------------------
(* The report: what a call may overwrite, and the room to save it.         *)

\* What a call of a function in the program refers to.
Callee(i, s) == prog[i].func.stmts[s].fn

\* A function's own registers are in its set from the moment it is begun.
OwnReported ==
    /\ \A i \in DOMAIN prog :
         i < fi \/ (i = fi /\ si > 0) =>
            Direct(prog[i]) \subseteq destroyed[prog[i].name]
    /\ fi <= Len(prog) /\ si > 0 => Direct(prog[fi]) \subseteq own
    /\ \A n \in Builtins : destroyed[n] = BuiltinDestroys

\* The room counted for a call suffices for what is known of its callee, and
\* goes on to do so when more becomes known.
Counted ==
    \A i \in DOMAIN prog : \A s \in Calls(prog[i]) :
        i < fi \/ (i = fi /\ s < si) =>
            Cardinality(Working(prog[i], s, destroyed[Callee(i, s)]))
                <= callersave[i]

IndInv == prog \in Programs /\ TypeOK /\ OwnReported /\ Counted

-------------------------------------------------------------------------------

\* A place in a register is that register.
LEMMA InRegFields ==
    /\ \A r1, r2 : InReg(r1) = InReg(r2) => r1 = r2
    /\ \A r : InReg(r).pos = "reg" /\ InReg(r).reg = r
BY DEF InReg

\* The working set is a set of alive scalars, hence finite.
LEMMA WorkingFinite ==
    ASSUME NEW pr \in Programs, NEW i \in DOMAIN pr, NEW s \in Calls(pr[i]), NEW D
    PROVE  /\ IsFiniteSet(Working(pr[i], s, D))
           /\ Cardinality(Working(pr[i], s, D)) \in Nat
<1>1. IsFiniteSet(pr[i].alive[s])
  BY ProgramsAssumption DEF ProgramOK
<1>2. Working(pr[i], s, D) \in SUBSET pr[i].alive[s]
  BY DEF Working
<1> QED  BY <1>1, <1>2, FS_Subset, FS_CardinalityType

\* Scalars are only in registers the function gives out: what else a callee
\* overwrites does not matter for the working set.
LEMMA WorkingOwn ==
    ASSUME NEW pr \in Programs, NEW i \in DOMAIN pr, NEW s \in Calls(pr[i]),
           NEW D1, NEW D2, Direct(pr[i]) \subseteq D1, Direct(pr[i]) \subseteq D2
    PROVE  Working(pr[i], s, D1) = Working(pr[i], s, D2)
<1>1. ASSUME NEW x \in pr[i].alive[s], NEW r, pr[i].vreg[x] = InReg(r)
      PROVE  r \in Direct(pr[i])
  <2>1. s \in Reached(pr[i].func)
    BY ProgramsAssumption DEF ProgramOK, Calls
  <2>2. x \in Pooled(pr[i]) /\ x \in DOMAIN pr[i].vreg
    BY <2>1, ProgramsAssumption DEF ProgramOK, Pooled
  <2>3. pr[i].vreg[x] \in {InReg(q) : q \in AvailRegs}
    BY <2>2, <1>1, InRegFields, ProgramsAssumption DEF ProgramOK
  <2>4. r \in AvailRegs
    BY <2>3, <1>1, InRegFields
  <2> QED  BY <2>2, <2>4, <1>1 DEF Direct
<1> QED  BY <1>1 DEF Working

\* What is saved around a call stands, before it, in registers of scalars
\* that are alive and that the call may overwrite.
LEMMA SavedWithinWorking ==
    ASSUME NEW pr \in Programs, NEW i \in DOMAIN pr, NEW s \in Calls(pr[i]), NEW D,
           \A q \in 0..(Len(pr[i].func.stmts[s].args) - 1) : ArgReg[q] \in D
    PROVE  /\ Cardinality(SavedRegs(pr[i], s, D)) \in Nat
           /\ Cardinality(SavedRegs(pr[i], s, D)) <= Cardinality(Working(pr[i], s, D))
<1> DEFINE f == pr[i]
           stmt == f.func.stmts[s]
           W == Working(f, s, D)
           R == SavedRegs(f, s, D)
           Of == [x \in W |-> f.vreg[x].reg]
           Img == {Of[x] : x \in W}
<1>1. f.alive[s] = AliveOf(f.func, f.alive, s) /\ stmt.op \in {"call", "callvoid"}
  BY ProgramsAssumption DEF ProgramOK, Calls, IsCall
<1>2. DOMAIN stmt.args = 1..Len(stmt.args) /\ Len(stmt.args) \in Nat
  <2>1. Len(stmt.args) \in 0..MaxArgs /\ DOMAIN stmt.args = 1..Len(stmt.args)
    BY ProgramsAssumption DEF ProgramOK
  <2> QED  BY <2>1, RegsAssumption
<1>3. ASSUME NEW r \in MeetRegs(f, s, D)
      PROVE  \E x \in W : r = f.vreg[x].reg
  <2>1. PICK x \in MeetOf(f.func, f.alive, s) : f.vreg[x] = InReg(r)
    BY DEF MeetRegs
  <2>2. r \in D /\ r # RetReg(f, s)
    BY DEF MeetRegs
  <2>3. x \notin Defs(stmt)
    <3> SUFFICES ASSUME x = stmt.dest, x \notin Unpooled PROVE FALSE
      BY DEF Defs
    <3>1. f.vreg[x].pos = "reg" /\ f.vreg[x].reg = r
      BY <2>1, InRegFields
    <3> QED  BY <3>1, <2>2, <2>1 DEF RetReg
  <2>4. x \in f.alive[s]
    BY <1>1, <2>1, <2>3 DEF AliveOf
  <2> QED  BY <2>1, <2>2, <2>4, InRegFields DEF Working
<1>4. ASSUME NEW r \in CollidingRegs(f, s)
      PROVE  \E x \in W : r = f.vreg[x].reg
  <2>1. PICK p \in DOMAIN stmt.args : Collides(f, s, p) /\ r = f.vreg[stmt.args[p]].reg
    BY DEF CollidingRegs
  <2>2. PICK q \in 0..(p - 2) : f.vreg[stmt.args[p]] = InReg(ArgReg[q])
    BY <2>1 DEF Collides
  <2>3. stmt.args[p] \in Uses(stmt)
    BY <2>1, <1>1 DEF Collides, Uses
  <2>4. stmt.args[p] \in f.alive[s]
    BY <1>1, <2>3 DEF AliveOf
  <2>5. q \in 0..(Len(stmt.args) - 1)
    BY <1>2
  <2> QED  BY <2>1, <2>2, <2>4, <2>5 DEF Working
<1>5. R \in SUBSET Img
  BY <1>3, <1>4 DEF SavedRegs
<1>6. IsFiniteSet(W)
  BY WorkingFinite
<1>7. Of \in Surjection(W, Img)
  BY DEF Surjection
<1>8. IsFiniteSet(Img) /\ Cardinality(Img) <= Cardinality(W)
  BY <1>6, <1>7, FS_Surjection
<1>9. IsFiniteSet(R) /\ Cardinality(R) <= Cardinality(Img)
  BY <1>5, <1>8, FS_Subset
<1>10. Cardinality(R) \in Nat /\ Cardinality(Img) \in Nat /\ Cardinality(W) \in Nat
  BY <1>6, <1>8, <1>9, FS_CardinalityType
<1> HIDE DEF R, Img, W
<1>11. Cardinality(R) \in Nat /\ Cardinality(R) <= Cardinality(W)
  BY <1>8, <1>9, <1>10
<1> QED  BY <1>11 DEF R, W

\* The callee of a call is the library, the function itself or an earlier one.
LEMMA CalleeKinds ==
    ASSUME NEW pr \in Programs, NEW i \in DOMAIN pr, NEW s \in Calls(pr[i])
    PROVE  LET fn == pr[i].func.stmts[s].fn
           IN  /\ fn \in Names(pr)
               /\ \/ fn \in Builtins
                  \/ \E j \in 1..i : /\ j \in DOMAIN pr /\ fn = pr[j].name
                                     /\ Len(pr[i].func.stmts[s].args) = pr[j].func.params
BY ProgramsAssumption DEF ProgramOK, Names

\* What ProgramsAssumption says of the functions of a program.
LEMMA ProgramType ==
    ASSUME NEW pr \in Programs
    PROVE  /\ Len(pr) \in Nat /\ DOMAIN pr = 1..Len(pr)
           /\ \A i \in DOMAIN pr : /\ pr[i].name \in Names(pr) \ Builtins
                                   /\ Len(pr[i].func.stmts) \in Nat \ {0}
                                   /\ Calls(pr[i]) \subseteq 1..Len(pr[i].func.stmts)
                                   /\ pr[i].func.params \in 0..MaxArgs
           /\ \A i, j \in DOMAIN pr : pr[i].name = pr[j].name => i = j
BY ProgramsAssumption DEF ProgramOK, Names, WellFormed, Lines

\* A function writes registers that there are.
LEMMA DirectType ==
    ASSUME NEW pr \in Programs, NEW i \in DOMAIN pr
    PROVE  Direct(pr[i]) \subseteq AvailRegs
<1>1. MaxArgs \in Nat /\ 0 \in 0..(MaxArgs - 1) /\ ArgReg \in [0..(MaxArgs - 1) -> AvailRegs]
  BY RegsAssumption, ProgramsAssumption
<1>2. \A k \in 0..(pr[i].func.params - 1) : k \in 0..(MaxArgs - 1)
  BY <1>1, ProgramType
<1> QED  BY <1>1, <1>2 DEF Direct

-------------------------------------------------------------------------------

\* The invariant holds at the start, and each step keeps it.
LEMMA InitInv == Init => IndInv
<1> SUFFICES ASSUME Init PROVE IndInv
  OBVIOUS
<1>1. prog \in Programs /\ fi = 1 /\ si = 0 /\ own = {}
  BY DEF Init
<1>2. TypeOK
  BY <1>1, ProgramType DEF TypeOK, Init
<1>3. OwnReported
  BY <1>1, ProgramType DEF OwnReported, Init, Names
<1>4. Counted
  BY <1>1, ProgramType DEF Counted
<1> QED  BY <1>1, <1>2, <1>3, <1>4 DEF IndInv

\* What is known of the callee of a function reported so far does not change
\* while the next one is.
LEMMA EarlierCallee ==
    ASSUME prog \in Programs, fi \in DOMAIN prog,
           NEW i \in DOMAIN prog, i < fi, NEW s \in Calls(prog[i])
    PROVE  Callee(i, s) \in Names(prog) \ {prog[fi].name}
<1>1. fi \in Nat /\ i \in Nat
  BY ProgramType
<1> QED  BY <1>1, CalleeKinds, ProgramType DEF Callee

\* A function is reported with what it overwrites itself first.
LEMMA BeginInv == IndInv /\ Begin => IndInv'
<1> SUFFICES ASSUME IndInv, Begin PROVE IndInv'
  OBVIOUS
<1> USE DEF IndInv
<1>1. /\ fi \in DOMAIN prog /\ fi \in Nat /\ si = 0 /\ si' = 1 /\ fi' = fi
      /\ prog' = prog /\ callersave' = callersave
      /\ own' = Direct(prog[fi])
      /\ destroyed' = [destroyed EXCEPT ![prog[fi].name] = Direct(prog[fi])]
  BY ProgramType DEF Begin, TypeOK
<1>2. prog[fi].name \in Names(prog) \ Builtins /\ Len(prog[fi].func.stmts) \in Nat \ {0}
  BY <1>1, ProgramType
<1>3. destroyed \in [Names(prog) -> SUBSET (AvailRegs \cup BuiltinDestroys)]
  BY DEF TypeOK
<1>4. TypeOK'
  BY <1>1, <1>2, <1>3, DirectType DEF TypeOK
<1>5. /\ destroyed'[prog[fi].name] = Direct(prog[fi])
      /\ \A n \in Names(prog) \ {prog[fi].name} : destroyed'[n] = destroyed[n]
  BY <1>1, <1>2, <1>3
<1>6. OwnReported'
  <2>1. ASSUME NEW i \in DOMAIN prog, i < fi \/ i = fi
        PROVE  Direct(prog[i]) \subseteq destroyed'[prog[i].name]
    BY <2>1, <1>1, <1>5, ProgramType DEF OwnReported
  <2>2. \A n \in Builtins : destroyed'[n] = BuiltinDestroys
    BY <1>2, <1>5 DEF OwnReported, Names
  <2> QED  BY <1>1, <2>1, <2>2 DEF OwnReported
<1>7. Counted'
  <2> SUFFICES ASSUME NEW i \in DOMAIN prog, NEW s \in Calls(prog[i]),
                      i < fi \/ (i = fi /\ s < 1)
               PROVE  Cardinality(Working(prog[i], s, destroyed'[Callee(i, s)]))
                          <= callersave[i]
    BY <1>1 DEF Counted, Callee
  <2>1. i < fi
    BY ProgramType
  <2>2. destroyed'[Callee(i, s)] = destroyed[Callee(i, s)]
    BY <2>1, <1>1, <1>5, EarlierCallee
  <2> QED  BY <2>1, <2>2 DEF Counted
<1> QED  BY <1>1, <1>4, <1>6, <1>7

\* A call adds what its function is reported to overwrite, and may want more room.
LEMMA LookInv == IndInv /\ Look => IndInv'
<1> SUFFICES ASSUME IndInv, Look PROVE IndInv'
  OBVIOUS
<1> USE DEF IndInv
<1>1. /\ fi \in DOMAIN prog /\ fi \in Nat /\ si \in Nat \ {0} /\ si' = si + 1 /\ fi' = fi
      /\ si <= Len(prog[fi].func.stmts) /\ fi <= Len(prog)
      /\ prog' = prog /\ destroyed' = destroyed
  BY ProgramType DEF Look, TypeOK
<1> DEFINE sub == destroyed[Callee(fi, si)]
           n == Cardinality(Working(prog[fi], si, sub))
<1>2. CASE si \notin Calls(prog[fi])
  <2>1. own' = own /\ callersave' = callersave
    BY <1>2 DEF Look
  <2>2. TypeOK'
    BY <1>1, <2>1, ProgramType DEF TypeOK
  <2>3. OwnReported'
    BY <1>1, <2>1 DEF OwnReported
  <2>4. ASSUME NEW s \in Calls(prog[fi]), s < si + 1
        PROVE  s < si
    BY <2>4, <1>1, <1>2, ProgramType
  <2>5. Counted'
    BY <1>1, <2>1, <2>4 DEF Counted, Callee
  <2> QED  BY <1>1, <2>2, <2>3, <2>5
<1>3. CASE si \in Calls(prog[fi])
  <2>1. /\ own' = own \cup sub
        /\ callersave' = [callersave EXCEPT ![fi] = IF n > @ THEN n ELSE @]
    BY <1>3 DEF Look, Callee
  <2>2. n \in Nat
    BY <1>1, <1>3, WorkingFinite
  <2>3. callersave \in [DOMAIN prog -> Nat]
    BY DEF TypeOK
  <2>4. sub \subseteq AvailRegs \cup BuiltinDestroys
    BY <1>1, <1>3, CalleeKinds DEF TypeOK, Callee
  <2> HIDE DEF n, sub
  <2>5. callersave' \in [DOMAIN prog -> Nat]
    BY <2>1, <2>2, <2>3
  <2>6. /\ \A i \in DOMAIN prog : callersave[i] <= callersave'[i]
        /\ n <= callersave'[fi]
    BY <1>1, <2>1, <2>2, <2>3
  <2>7. TypeOK'
    BY <1>1, <2>1, <2>4, <2>5, ProgramType DEF TypeOK
  <2>8. OwnReported'
    BY <1>1, <2>1 DEF OwnReported
  <2>9. Counted'
    <3> SUFFICES ASSUME NEW i \in DOMAIN prog, NEW s \in Calls(prog[i]),
                        i < fi \/ (i = fi /\ s < si + 1)
                 PROVE  Cardinality(Working(prog[i], s, destroyed[Callee(i, s)]))
                            <= callersave'[i]
      BY <1>1 DEF Counted, Callee
    <3>1. CASE i < fi \/ (i = fi /\ s < si)
      <4>1. Cardinality(Working(prog[i], s, destroyed[Callee(i, s)])) <= callersave[i]
        BY <3>1 DEF Counted
      <4>2. Cardinality(Working(prog[i], s, destroyed[Callee(i, s)])) \in Nat
        BY WorkingFinite
      <4> QED  BY <4>1, <4>2, <2>3, <2>5, <2>6
    <3>2. CASE i = fi /\ s = si
      BY <3>2, <2>6 DEF n, sub
    <3>3. s \in Nat
      BY ProgramType
    <3> QED  BY <3>1, <3>2, <3>3, <1>1
  <2> QED  BY <1>1, <2>7, <2>8, <2>9
<1> QED  BY <1>2, <1>3

\* When the whole set is published, nothing the function counted for calls of
\* itself becomes too little: its own registers were in the set all along.
LEMMA EndInv == IndInv /\ End => IndInv'
<1> SUFFICES ASSUME IndInv, End PROVE IndInv'
  OBVIOUS
<1> USE DEF IndInv
<1>1. /\ fi \in DOMAIN prog /\ fi \in Nat /\ si \in Nat /\ si' = 0 /\ fi' = fi + 1
      /\ fi <= Len(prog) /\ si > Len(prog[fi].func.stmts)
      /\ prog' = prog /\ callersave' = callersave /\ own' = {}
      /\ destroyed' = [destroyed EXCEPT ![prog[fi].name] = own]
  BY ProgramType DEF End, TypeOK
<1>2. prog[fi].name \in Names(prog) \ Builtins /\ si > 0
  BY <1>1, ProgramType
<1>3. /\ destroyed \in [Names(prog) -> SUBSET (AvailRegs \cup BuiltinDestroys)]
      /\ own \subseteq AvailRegs \cup BuiltinDestroys
  BY DEF TypeOK
<1>4. TypeOK'
  BY <1>1, <1>2, <1>3, ProgramType DEF TypeOK
<1>5. /\ destroyed'[prog[fi].name] = own
      /\ \A n \in Names(prog) \ {prog[fi].name} : destroyed'[n] = destroyed[n]
  BY <1>1, <1>2, <1>3
<1>6. Direct(prog[fi]) \subseteq own /\ Direct(prog[fi]) \subseteq destroyed[prog[fi].name]
  BY <1>1, <1>2 DEF OwnReported
<1>7. OwnReported'
  <2>1. ASSUME NEW i \in DOMAIN prog, i < fi + 1
        PROVE  Direct(prog[i]) \subseteq destroyed'[prog[i].name]
    <3>1. i = fi \/ i < fi
      BY <2>1, <1>1, ProgramType
    <3>2. CASE i = fi
      BY <3>2, <1>5, <1>6
    <3>3. CASE i < fi
      BY <3>3, <1>1, <1>5, ProgramType DEF OwnReported
    <3> QED  BY <3>1, <3>2, <3>3
  <2>2. \A n \in Builtins : destroyed'[n] = BuiltinDestroys
    BY <1>2, <1>5 DEF OwnReported, Names
  <2> QED  BY <1>1, <2>1, <2>2 DEF OwnReported
<1>8. Counted'
  <2> SUFFICES ASSUME NEW i \in DOMAIN prog, NEW s \in Calls(prog[i]), i < fi + 1
               PROVE  Cardinality(Working(prog[i], s, destroyed'[Callee(i, s)]))
                          <= callersave[i]
    <3>1. \A i \in DOMAIN prog : \A s \in Calls(prog[i]) : ~ (s < 0)
      BY ProgramType
    <3> QED  BY <1>1, <3>1 DEF Counted, Callee
  <2>1. CASE i < fi
    <3>1. destroyed'[Callee(i, s)] = destroyed[Callee(i, s)]
      BY <2>1, <1>1, <1>5, EarlierCallee
    <3> QED  BY <2>1, <3>1 DEF Counted
  <2>2. CASE i = fi
    <3>1. s < si
      BY <2>2, <1>1, ProgramType
    <3>2. Callee(i, s) \in Names(prog)
      BY CalleeKinds DEF Callee
    <3>3. Working(prog[i], s, destroyed'[Callee(i, s)])
            = Working(prog[i], s, destroyed[Callee(i, s)])
      <4>1. CASE Callee(i, s) = prog[fi].name
        BY <4>1, <2>2, <1>5, <1>6, WorkingOwn
      <4>2. CASE Callee(i, s) # prog[fi].name
        BY <4>2, <3>2, <1>5
      <4> QED  BY <4>1, <4>2
    <3> QED  BY <2>2, <3>1, <3>3 DEF Counted
  <2> QED  BY <2>1, <2>2, <1>1, ProgramType
<1> QED  BY <1>1, <1>4, <1>7, <1>8

\* It is about variables only.
LEMMA StutterInv == IndInv /\ UNCHANGED vars => IndInv'
BY DEF IndInv, TypeOK, OwnReported, Counted, Callee, vars

\* The inductive invariant holds throughout.
THEOREM Invariance == Spec => []IndInv
<1>1. IndInv /\ [Next]_vars => IndInv'
  BY BeginInv, LookInv, EndInv, StutterInv DEF Next, Terminated
<1> QED  BY <1>1, InitInv, PTL DEF Spec

\* Type correctness of the report.
THEOREM TypeCorrect == Spec => []TypeOK
BY Invariance, PTL DEF IndInv

\* The assertion of gen_inst_common never fails: however the program calls,
\* recursion included, callersavesize covers what is saved around each call.
THEOREM SaveAreaAlwaysSuffices == Spec => []SaveAreaSuffices
<1>1. IndInv => SaveAreaSuffices
  <2> SUFFICES ASSUME IndInv, Done, NEW i \in DOMAIN prog, NEW s \in Calls(prog[i])
               PROVE  Cardinality(SavedRegs(prog[i], s, destroyed[Callee(i, s)]))
                          <= callersave[i]
    BY DEF SaveAreaSuffices, Callee
  <2> DEFINE sub == destroyed[Callee(i, s)]
             args == prog[i].func.stmts[s].args
  <2>1. prog \in Programs /\ fi \in Nat /\ Len(prog) \in Nat /\ i \in Nat
        /\ i <= Len(prog) /\ (\A k \in DOMAIN prog : k < fi)
    BY ProgramType DEF IndInv, TypeOK, Done
  <2>2. \A q \in 0..(Len(args) - 1) : ArgReg[q] \in sub
    <3>1. CASE Callee(i, s) \in Builtins
      <4>1. sub = BuiltinDestroys
        BY <3>1 DEF IndInv, OwnReported
      <4>2. Len(args) \in 0..MaxArgs
        BY <2>1, ProgramsAssumption DEF ProgramOK
      <4>3. \A q \in 0..(Len(args) - 1) : q \in DOMAIN ArgReg
        BY <4>2, RegsAssumption
      <4> QED  BY <4>1, <4>3, ProgramsAssumption
    <3>2. CASE Callee(i, s) \notin Builtins
      <4>1. PICK j \in DOMAIN prog : Callee(i, s) = prog[j].name
                                     /\ Len(args) = prog[j].func.params
        BY <2>1, <3>2, CalleeKinds DEF Callee
      <4>2. Direct(prog[j]) \subseteq sub
        BY <2>1, <4>1 DEF IndInv, OwnReported
      <4> QED  BY <4>1, <4>2 DEF Direct
    <3> QED  BY <3>1, <3>2
  <2>3. Cardinality(Working(prog[i], s, sub)) <= callersave[i]
    BY <2>1 DEF IndInv, Counted
  <2>4. /\ Cardinality(SavedRegs(prog[i], s, sub)) \in Nat
        /\ Cardinality(SavedRegs(prog[i], s, sub)) <= Cardinality(Working(prog[i], s, sub))
    BY <2>1, <2>2, SavedWithinWorking
  <2>5. Cardinality(Working(prog[i], s, sub)) \in Nat /\ callersave[i] \in Nat
    BY <2>1, WorkingFinite DEF IndInv, TypeOK
  <2> HIDE DEF sub
  <2> QED  BY <2>3, <2>4, <2>5 DEF sub
<1> QED  BY <1>1, Invariance, PTL

-------------------------------------------------------------------------------
(* What is collected is exactly what the calls lead to.                    *)

Callees(i) == {Callee(i, s) : s \in Calls(prog[i])}

\* the functions of the program, without those of the library
Users == {prog[i].name : i \in DOMAIN prog}

\* one call further
Further == [X \in SUBSET Names(prog) |->
                X \cup UNION {Callees(i) : i \in {j \in DOMAIN prog : prog[j].name \in X}}]

\* A function that is reported has what it overwrites itself and what is
\* known of its callees, of one in the middle only those it has got to.
Collected ==
    /\ fi <= Len(prog) /\ si > 0 =>
         /\ destroyed[prog[fi].name] = Direct(prog[fi])
         /\ own = Direct(prog[fi])
                  \cup UNION {destroyed[Callee(fi, s)] : s \in {t \in Calls(prog[fi]) : t < si}}
    /\ \A i \in DOMAIN prog : i < fi =>
         destroyed[prog[i].name] = Direct(prog[i])
                  \cup UNION {destroyed[n] : n \in Callees(i) \ {prog[i].name}}

\* Nothing is collected before the first function.
LEMMA CollectedInit == Init => Collected
BY ProgramType DEF Init, Collected

\* Before its first call, a function has collected its own registers.
LEMMA CollectedBegin == IndInv /\ Collected /\ Begin => Collected'
<1> SUFFICES ASSUME IndInv, Collected, Begin PROVE Collected'
  OBVIOUS
<1>1. /\ fi \in DOMAIN prog /\ fi \in Nat /\ si = 0 /\ si' = 1 /\ fi' = fi
      /\ prog' = prog /\ prog \in Programs
      /\ own' = Direct(prog[fi])
      /\ destroyed' = [destroyed EXCEPT ![prog[fi].name] = Direct(prog[fi])]
  BY ProgramType DEF Begin, TypeOK, IndInv
<1>2. /\ destroyed'[prog[fi].name] = Direct(prog[fi])
      /\ \A n \in Names(prog) \ {prog[fi].name} : destroyed'[n] = destroyed[n]
  <2>1. /\ destroyed \in [Names(prog) -> SUBSET (AvailRegs \cup BuiltinDestroys)]
        /\ prog[fi].name \in Names(prog)
    BY <1>1, ProgramType DEF IndInv, TypeOK
  <2> QED  BY <1>1, <2>1
<1>3. {t \in Calls(prog[fi]) : t < 1} = {}
  BY <1>1, ProgramType
<1>4. ASSUME NEW i \in DOMAIN prog, i < fi
      PROVE  destroyed'[prog[i].name] = Direct(prog[i])
                  \cup UNION {destroyed'[n] : n \in Callees(i) \ {prog[i].name}}
  <2>1. prog[i].name \in Names(prog) \ {prog[fi].name}
    BY <1>1, <1>4, ProgramType
  <2>2. Callees(i) \subseteq Names(prog) \ {prog[fi].name}
    BY <1>1, <1>4, EarlierCallee DEF Callees
  <2>3. \A n \in Callees(i) : destroyed'[n] = destroyed[n]
    BY <1>2, <2>2
  <2>4. destroyed[prog[i].name] = Direct(prog[i])
                  \cup UNION {destroyed[n] : n \in Callees(i) \ {prog[i].name}}
    BY <1>4 DEF Collected
  <2> QED  BY <1>2, <2>1, <2>3, <2>4
<1> QED  BY <1>1, <1>2, <1>3, <1>4 DEF Collected, Callee, Callees

\* After one more call, the set of that call is collected too.
LEMMA CollectedLook == IndInv /\ Collected /\ Look => Collected'
<1> SUFFICES ASSUME IndInv, Collected, Look PROVE Collected'
  OBVIOUS
<1>1. /\ fi \in DOMAIN prog /\ fi \in Nat /\ si \in Nat \ {0} /\ si' = si + 1 /\ fi' = fi
      /\ prog' = prog /\ destroyed' = destroyed /\ prog \in Programs
      /\ fi <= Len(prog)
  BY ProgramType DEF Look, TypeOK, IndInv
<1> DEFINE Before(k) == {t \in Calls(prog[fi]) : t < k}
<1>2. own = Direct(prog[fi]) \cup UNION {destroyed[Callee(fi, s)] : s \in Before(si)}
  BY <1>1 DEF Collected
<1>3. own' = Direct(prog[fi]) \cup UNION {destroyed[Callee(fi, s)] : s \in Before(si + 1)}
  <2>1. CASE si \in Calls(prog[fi])
    <3>1. own' = own \cup destroyed[Callee(fi, si)]
      BY <2>1 DEF Look, Callee
    <3>2. Before(si + 1) = Before(si) \cup {si}
      BY <1>1, <2>1, ProgramType
    <3> HIDE DEF Before
    <3> QED  BY <1>2, <3>1, <3>2
  <2>2. CASE si \notin Calls(prog[fi])
    <3>1. own' = own
      BY <2>2 DEF Look
    <3>2. Before(si + 1) = Before(si)
      BY <1>1, <2>2, ProgramType
    <3> HIDE DEF Before
    <3> QED  BY <1>2, <3>1, <3>2
  <2> QED  BY <2>1, <2>2
<1>4. destroyed[prog[fi].name] = Direct(prog[fi])
  BY <1>1 DEF Collected
<1>5. \A i \in DOMAIN prog : i < fi =>
         destroyed[prog[i].name] = Direct(prog[i])
                  \cup UNION {destroyed[n] : n \in Callees(i) \ {prog[i].name}}
  BY DEF Collected
<1> QED  BY <1>1, <1>3, <1>4, <1>5 DEF Collected, Callee, Callees

\* After the last one, what is reported is what all calls brought.
LEMMA CollectedEnd == IndInv /\ Collected /\ End => Collected'
<1> SUFFICES ASSUME IndInv, Collected, End PROVE Collected'
  OBVIOUS
<1>1. /\ fi \in DOMAIN prog /\ fi \in Nat /\ si \in Nat /\ si' = 0 /\ fi' = fi + 1
      /\ fi <= Len(prog) /\ si > Len(prog[fi].func.stmts) /\ prog \in Programs
      /\ prog' = prog /\ destroyed' = [destroyed EXCEPT ![prog[fi].name] = own]
  BY ProgramType DEF End, TypeOK, IndInv
<1>2. /\ destroyed'[prog[fi].name] = own
      /\ \A n \in Names(prog) \ {prog[fi].name} : destroyed'[n] = destroyed[n]
  <2>1. /\ destroyed \in [Names(prog) -> SUBSET (AvailRegs \cup BuiltinDestroys)]
        /\ prog[fi].name \in Names(prog)
    BY <1>1, ProgramType DEF IndInv, TypeOK
  <2> QED  BY <1>1, <2>1
<1>3. si > 0 /\ \A t \in Calls(prog[fi]) : t < si
  BY <1>1, ProgramType
<1>4. /\ destroyed[prog[fi].name] = Direct(prog[fi])
      /\ own = Direct(prog[fi]) \cup UNION {destroyed[Callee(fi, s)] : s \in Calls(prog[fi])}
  <2>1. {t \in Calls(prog[fi]) : t < si} = Calls(prog[fi])
    BY <1>3
  <2> QED  BY <1>1, <1>3, <2>1 DEF Collected
<1>5. ASSUME NEW i \in DOMAIN prog, i < fi + 1
      PROVE  destroyed'[prog[i].name] = Direct(prog[i])
                  \cup UNION {destroyed'[n] : n \in Callees(i) \ {prog[i].name}}
  <2>1. CASE i < fi
    <3>1. prog[i].name \in Names(prog) \ {prog[fi].name}
      BY <1>1, <2>1, ProgramType
    <3>2. Callees(i) \subseteq Names(prog) \ {prog[fi].name}
      BY <1>1, <2>1, EarlierCallee DEF Callees
    <3>3. \A n \in Callees(i) : destroyed'[n] = destroyed[n]
      BY <1>2, <3>2
    <3>4. destroyed[prog[i].name] = Direct(prog[i])
                  \cup UNION {destroyed[n] : n \in Callees(i) \ {prog[i].name}}
      BY <2>1 DEF Collected
    <3> QED  BY <1>2, <3>1, <3>3, <3>4
  <2>2. CASE i = fi
    <3>1. Callees(fi) \subseteq Names(prog)
      BY <1>1, CalleeKinds DEF Callees, Callee
    <3>2. \A n \in Callees(fi) \ {prog[fi].name} : destroyed'[n] = destroyed[n]
      BY <1>2, <3>1
    <3>3. own = Direct(prog[fi]) \cup UNION {destroyed[n] : n \in Callees(fi)}
      BY <1>4 DEF Callees
    <3>4. own = Direct(prog[fi])
                \cup UNION {destroyed[n] : n \in Callees(fi) \ {prog[fi].name}}
      BY <1>4, <3>3
    <3> QED  BY <1>2, <2>2, <3>2, <3>4
  <2> QED  BY <1>1, <1>5, <2>1, <2>2, ProgramType
<1> QED  BY <1>1, <1>5 DEF Collected, Callee, Callees

\* What the report is made of, all the time.
THEOREM Collection == Spec => [](IndInv /\ Collected)
<1>1. Collected /\ UNCHANGED vars => Collected'
  <2> SUFFICES ASSUME Collected, UNCHANGED vars PROVE Collected'
    OBVIOUS
  <2>1. /\ prog' = prog /\ fi' = fi /\ si' = si /\ own' = own /\ destroyed' = destroyed
    BY DEF vars
  <2>2. Collected' <=> Collected
    BY <2>1 DEF Collected, Callee, Callees
  <2> QED  BY <2>2
<1>2. IndInv /\ Collected /\ [Next]_vars => (IndInv /\ Collected)'
  BY <1>1, BeginInv, LookInv, EndInv, StutterInv, CollectedBegin, CollectedLook, CollectedEnd
     DEF Next, Terminated
<1> QED  BY <1>2, InitInv, CollectedInit, PTL DEF Spec

\* Called iterates Further.
LEMMA CalledIterates ==
    ASSUME prog \in Programs, NEW name \in Names(prog)
    PROVE  \E g : /\ IsIteration(g, {name}, Further, Len(prog))
                  /\ Called(name) = g[Len(prog)]
<1> DEFINE n == Len(prog)
           T == SUBSET Names(prog)
           step(X) == X \cup UNION {Callees(i) : i \in {j \in DOMAIN prog : prog[j].name \in X}}
           Eq(g) == g = [k \in 0..n |-> IF k = 0 THEN {name} ELSE step(g[k - 1])]
<1>1. n \in Nat /\ {name} \in T
  BY ProgramType
<1>2. \A i \in DOMAIN prog : Callees(i) \subseteq Names(prog)
  BY CalleeKinds DEF Callees, Callee
<1>3. Further \in [T -> T] /\ \A X \in T : Further[X] = step(X)
  BY <1>2 DEF Further
<1>4. Called(name) = (CHOOSE g : Eq(g))[n]
  BY DEF Called, Callees, Callee
<1> HIDE DEF T, step
<1>5. \E g : Eq(g)
  <2>1. PICK g \in [0..n -> T] : IsIteration(g, {name}, Further, n)
    BY <1>1, <1>3, IterationExists
  <2>2. \A k \in 0..n : k # 0 => g[k - 1] \in T
    BY <1>1
  <2>3. Eq(g)
    BY <2>1, <2>2, <1>3 DEF IsIteration
  <2> QED  BY <2>3
<1> DEFINE h == CHOOSE g : Eq(g)
<1>6. Eq(h)
  BY <1>5
<1> HIDE DEF h
<1>7. \A k \in 0..n : h[k] \in T
  <2> DEFINE S == {k \in 0..n : h[k] \in T}
  <2>1. \A k \in 0..n : h[k] = IF k = 0 THEN {name} ELSE step(h[k - 1])
    BY <1>6
  <2>2. 0 \in S
    BY <1>1, <2>1
  <2>3. \A k \in 0..(n - 1) : k \in S => k + 1 \in S
    <3> SUFFICES ASSUME NEW k \in 0..(n - 1), h[k] \in T PROVE h[k + 1] \in T
      BY <1>1
    <3>1. k + 1 \in 0..n /\ k + 1 # 0 /\ (k + 1) - 1 = k
      BY <1>1
    <3>2. h[k + 1] = step(h[k])
      BY <2>1, <3>1
    <3> QED  BY <1>3, <3>2
  <2> HIDE DEF S
  <2>4. 0..n \subseteq S
    BY <1>1, <2>2, <2>3, InductionUpTo
  <2> QED  BY <2>4 DEF S
<1>8. IsIteration(h, {name}, Further, n)
  <2>1. \A k \in 0..n : k # 0 => h[k - 1] \in T
    BY <1>1, <1>7
  <2> QED  BY <1>3, <1>6, <2>1 DEF IsIteration
<1> QED  BY <1>4, <1>8 DEF h

\* Of the names a call leads to, those of the program are all found in one
\* step less than there are functions; the library's, which call nothing, in
\* the next.
LEMMA CalledClosed ==
    ASSUME prog \in Programs, NEW k \in DOMAIN prog,
           NEW i \in DOMAIN prog, prog[i].name \in Called(prog[k].name)
    PROVE  Callees(i) \subseteq Called(prog[k].name)
<1> DEFINE n == Len(prog)
           m == Len(prog) - 1
           N == Names(prog)
           T == SUBSET Names(prog)
           base == {prog[k].name}
           UserStep == [X \in SUBSET Users |-> Further[X] \cap Users]
<1>1. n \in Nat /\ m \in Nat /\ n = m + 1 /\ DOMAIN prog = 1..n
  BY ProgramType
<1>2. base \in T /\ Users \in T /\ base \in SUBSET Users
  BY DEF Names, Users
<1>3. /\ Further \in [T -> T]
      /\ \A X \in T : Further[X] = X \cup
             UNION {Callees(j) : j \in {l \in DOMAIN prog : prog[l].name \in X}}
  <2>1. \A j \in DOMAIN prog : Callees(j) \subseteq Names(prog)
    BY CalleeKinds DEF Callees, Callee
  <2> QED  BY <2>1 DEF Further
<1>4. \A X \in T : X \cap Users \in SUBSET Users
                   /\ Further[X] = X \cup Further[X \cap Users]
                   /\ Further[X] \cap Users = UserStep[X \cap Users]
  <2>1. \A X \in T : Further[X] = X \cup Further[X \cap Users]
    <3>1. \A j \in DOMAIN prog : prog[j].name \in Users
      BY DEF Users
    <3>2. \A X \in T : X \cap Users \in T
      OBVIOUS
    <3>3. ASSUME NEW X \in T
          PROVE  {l \in DOMAIN prog : prog[l].name \in X}
                   = {l \in DOMAIN prog : prog[l].name \in X \cap Users}
      BY <3>1
    <3> QED  BY <1>3, <3>2, <3>3
  <2>2. \A X \in T : X \cap Users \in SUBSET Users /\ X \cap Users \subseteq Further[X \cap Users]
    BY <1>3, <1>2
  <2> QED  BY <2>1, <2>2
<1>5. PICK g : IsIteration(g, base, Further, n) /\ Called(prog[k].name) = g[n]
  BY CalledIterates DEF Names
<1>6. \A l \in 0..n : g[l] = IF l = 0 THEN base ELSE Further[g[l - 1]]
  BY <1>5 DEF IsIteration
<1>7. \A l \in 0..n : g[l] \in T
  <2>1. \A X \in T : Further[X] \in T
    BY <1>3
  <2>2. T \in SUBSET T
    OBVIOUS
  <2> HIDE DEF T, base, n, m
  <2> QED  BY <1>1, <1>2, <1>3, <1>5, <2>1, <2>2, IterationInside
<1> DEFINE h == [l \in 0..m |-> g[l] \cap Users]
<1>8. IsIteration(h, base, UserStep, m)
  <2>1. \A l \in 0..m : l \in 0..n /\ (l # 0 => l - 1 \in 0..m /\ l - 1 \in 0..n)
    BY <1>1
  <2>2. \A l \in 0..m : h[l] = IF l = 0 THEN base ELSE UserStep[h[l - 1]]
    <3> SUFFICES ASSUME NEW l \in 0..m
                 PROVE  h[l] = IF l = 0 THEN base ELSE UserStep[h[l - 1]]
      OBVIOUS
    <3>1. CASE l = 0
      BY <1>2, <1>6, <2>1, <3>1
    <3>2. CASE l # 0
      <4>1. g[l] = Further[g[l - 1]] /\ g[l - 1] \in T /\ h[l - 1] = g[l - 1] \cap Users
        BY <1>6, <1>7, <2>1, <3>2
      <4> HIDE DEF UserStep, T
      <4> QED  BY <1>4, <3>2, <4>1
    <3> QED  BY <3>1, <3>2
  <2> HIDE DEF UserStep, base, m, n
  <2> QED  BY <2>2 DEF IsIteration
<1>9. IsFiniteSet(Users) /\ Cardinality(Users) <= n
  <2> DEFINE name == [j \in DOMAIN prog |-> prog[j].name]
  <2>1. name \in Surjection(1..n, Users)
    BY <1>1 DEF Surjection, Users
  <2>2. IsFiniteSet(1..n) /\ Cardinality(1..n) = n
    BY <1>1, FS_Interval
  <2> HIDE DEF n, name
  <2> QED  BY <2>1, <2>2, FS_Surjection
<1>10. Monotone(UserStep, Users) /\ base \subseteq UserStep[base]
  <2>1. \A X \in SUBSET Users : X \in T
    BY <1>2
  <2>2. \A X, Y \in T : X \subseteq Y => Further[X] \subseteq Further[Y]
    BY <1>3
  <2>3. \A X \in T : X \subseteq Further[X]
    BY <1>3
  <2> HIDE DEF T, base
  <2> QED  BY <1>2, <2>1, <2>2, <2>3 DEF Monotone
<1>11. Enough(m, base, Users)
  <2>1. Cardinality(base) = 1 /\ Cardinality(Users) \in Nat
    BY <1>9, FS_Singleton, FS_CardinalityType
  <2> HIDE DEF base, n, m
  <2> QED  BY <1>1, <1>9, <2>1 DEF Enough
<1>12. UserStep[h[m]] = h[m]
  <2> HIDE DEF base, UserStep, h, m, n
  <2> QED  BY <1>1, <1>2, <1>8, <1>9, <1>10, <1>11, IterationEnds
<1>13. g[n] = Further[g[m]] /\ g[m] \in T /\ g[n] \in T
  <2>1. n \in 0..n /\ m \in 0..n /\ n # 0 /\ n - 1 = m
    BY <1>1
  <2> HIDE DEF n, m, T, base
  <2> QED  BY <1>6, <1>7, <2>1
<1>14. h[m] = g[m] \cap Users
  BY <1>1
<1> HIDE DEF UserStep, h, base, n, m, T
<1>15. g[n] \cap Users = g[m] \cap Users
  BY <1>4, <1>12, <1>13, <1>14
<1>16. Further[g[n]] = g[n] \cup Further[g[m] \cap Users] /\ Further[g[m] \cap Users] \subseteq g[n]
  BY <1>4, <1>13, <1>15
<1>17. Callees(i) \subseteq Further[g[n]]
  BY <1>3, <1>5, <1>13
<1> QED  BY <1>5, <1>16, <1>17

\* Called is the least such set.
LEMMA CalledLeast ==
    ASSUME prog \in Programs, NEW k \in DOMAIN prog, NEW Q,
           prog[k].name \in Q,
           \A i \in DOMAIN prog : prog[i].name \in Q => Callees(i) \subseteq Q
    PROVE  Called(prog[k].name) \subseteq Q \cap Names(prog)
<1> DEFINE n == Len(prog)
           T == SUBSET Names(prog)
           base == {prog[k].name}
           P == {X \in T : X \subseteq Q}
<1>1. n \in Nat /\ base \in T /\ n \in 0..n
  BY ProgramType DEF Names
<1>2. /\ Further \in [T -> T]
      /\ \A X \in T : Further[X] = X \cup
             UNION {Callees(j) : j \in {l \in DOMAIN prog : prog[l].name \in X}}
  <2>1. \A j \in DOMAIN prog : Callees(j) \subseteq Names(prog)
    BY CalleeKinds DEF Callees, Callee
  <2> QED  BY <2>1 DEF Further
<1>3. PICK g : IsIteration(g, base, Further, n) /\ Called(prog[k].name) = g[n]
  BY CalledIterates DEF Names
<1>4. P \in SUBSET T /\ base \in P
  BY <1>1
<1>5. ASSUME NEW X \in P PROVE Further[X] \in P
  <2>1. X \in T /\ X \subseteq Q /\ Further[X] \in T
    BY <1>2
  <2>2. Further[X] \subseteq Q
    BY <1>2, <2>1
  <2> QED  BY <2>1, <2>2
<1>6. \A l \in 0..n : g[l] \in P
  <2> HIDE DEF n, T, base, P
  <2> QED  BY <1>1, <1>2, <1>3, <1>4, <1>5, IterationInside
<1> QED  BY <1>1, <1>3, <1>6

\* What the functions named in a set overwrite themselves.
OfUsers(called) == UNION {Direct(prog[j]) : j \in {k \in DOMAIN prog : prog[k].name \in called}}
OfLibrary(called) == IF called \cap Builtins # {} THEN BuiltinDestroys ELSE {}
Overwritten(called) == OfUsers(called) \cup OfLibrary(called)

\* It has what each of them overwrites.
LEMMA OverwrittenBounds ==
    ASSUME NEW C
    PROVE  /\ \A j \in DOMAIN prog : prog[j].name \in C => Direct(prog[j]) \subseteq Overwritten(C)
           /\ C \cap Builtins # {} => BuiltinDestroys \subseteq Overwritten(C)
<1>1. \A x : x \in OfUsers(C) <=>
           \E j \in DOMAIN prog : prog[j].name \in C /\ x \in Direct(prog[j])
  BY DEF OfUsers
<1>2. \A x : x \in OfLibrary(C) <=> C \cap Builtins # {} /\ x \in BuiltinDestroys
  BY DEF OfLibrary
<1> QED  BY <1>1, <1>2 DEF Overwritten

\* And it has nothing else.
LEMMA OverwrittenLeast ==
    ASSUME NEW C, NEW D,
           \A j \in DOMAIN prog : prog[j].name \in C => Direct(prog[j]) \subseteq D,
           C \cap Builtins # {} => BuiltinDestroys \subseteq D
    PROVE  Overwritten(C) \subseteq D
<1>1. \A x : x \in OfUsers(C) <=>
           \E j \in DOMAIN prog : prog[j].name \in C /\ x \in Direct(prog[j])
  BY DEF OfUsers
<1>2. \A x : x \in OfLibrary(C) <=> C \cap Builtins # {} /\ x \in BuiltinDestroys
  BY DEF OfLibrary
<1> QED  BY <1>1, <1>2 DEF Overwritten

\* For every program: what is reported of a function in the end is what it and
\* all it may call overwrite, recursion included, and no register more
\* (report_destroyed_set).
THEOREM ReportIsExact == Spec => []DestroyedExact
<1>1. IndInv /\ Collected => DestroyedExact
  <2> SUFFICES ASSUME IndInv, Collected, Done
               PROVE  \A i \in DOMAIN prog :
                        destroyed[prog[i].name] = Overwritten(Called(prog[i].name))
    BY DEF DestroyedExact, Overwritten, OfUsers, OfLibrary
  <2>1. /\ prog \in Programs /\ fi \in Nat /\ Len(prog) \in Nat
        /\ DOMAIN prog = 1..Len(prog) /\ (\A k \in DOMAIN prog : k < fi)
    BY ProgramType DEF IndInv, TypeOK, Done
  <2>2. \A i \in DOMAIN prog :
          /\ destroyed[prog[i].name] = Direct(prog[i])
                \cup UNION {destroyed[n] : n \in Callees(i) \ {prog[i].name}}
          /\ \A n \in Callees(i) : destroyed[n] \subseteq destroyed[prog[i].name]
    <3>1. \A i \in DOMAIN prog : destroyed[prog[i].name] = Direct(prog[i])
                \cup UNION {destroyed[n] : n \in Callees(i) \ {prog[i].name}}
      BY <2>1 DEF Collected
    <3> QED  BY <3>1
  <2>3. \A n \in Builtins : destroyed[n] = BuiltinDestroys
    BY DEF IndInv, OwnReported
  <2>4. \A i \in DOMAIN prog : prog[i].name \in Called(prog[i].name)
    <3> SUFFICES ASSUME NEW i \in DOMAIN prog PROVE prog[i].name \in Called(prog[i].name)
      OBVIOUS
    <3> DEFINE n == Len(prog)
               T == SUBSET Names(prog)
               P == {X \in T : prog[i].name \in X}
               base == {prog[i].name}
    <3>1. PICK g : IsIteration(g, base, Further, n) /\ Called(prog[i].name) = g[n]
      BY <2>1, CalledIterates DEF Names
    <3>2. /\ Further \in [T -> T]
          /\ \A X \in T : X \subseteq Further[X]
      <4>1. \A j \in DOMAIN prog : Callees(j) \subseteq Names(prog)
        BY <2>1, CalleeKinds DEF Callees, Callee
      <4> QED  BY <4>1 DEF Further
    <3>3. base \in T /\ base \in P /\ P \in SUBSET T /\ \A X \in P : Further[X] \in P
      BY <3>2 DEF Names
    <3>4. \A l \in 0..n : g[l] \in P
      <4> HIDE DEF n, T, base, P
      <4> QED  BY <2>1, <3>1, <3>2, <3>3, IterationInside DEF n
    <3> QED  BY <2>1, <3>1, <3>4
  <2>5. ASSUME NEW i \in DOMAIN prog
        PROVE  Overwritten(Called(prog[i].name)) \subseteq destroyed[prog[i].name]
    <3> DEFINE Q == {n \in Names(prog) : destroyed[n] \subseteq destroyed[prog[i].name]}
    <3>1. prog[i].name \in Q
      BY DEF Names
    <3>2. ASSUME NEW j \in DOMAIN prog, prog[j].name \in Q PROVE Callees(j) \subseteq Q
      <4>1. Callees(j) \subseteq Names(prog)
        BY <2>1, CalleeKinds DEF Callees, Callee
      <4> QED  BY <2>2, <3>2, <4>1
    <3> HIDE DEF Q
    <3>3. Called(prog[i].name) \subseteq Q
      BY <2>1, <3>1, <3>2, CalledLeast
    <3>4. \A n \in Called(prog[i].name) : destroyed[n] \subseteq destroyed[prog[i].name]
      BY <3>3 DEF Q
    <3>5. \A j \in DOMAIN prog : Direct(prog[j]) \subseteq destroyed[prog[j].name]
      BY <2>2
    <3> DEFINE called == Called(prog[i].name)
    <3>6. \A j \in DOMAIN prog : prog[j].name \in called =>
             Direct(prog[j]) \subseteq destroyed[prog[i].name]
      BY <3>4, <3>5
    <3>7. called \cap Builtins # {} => BuiltinDestroys \subseteq destroyed[prog[i].name]
      BY <2>3, <3>4
    <3> HIDE DEF called
    <3>8. Overwritten(called) \subseteq destroyed[prog[i].name]
      BY <3>6, <3>7, OverwrittenLeast
    <3> QED  BY <3>8 DEF called
  <2>6. \A i \in DOMAIN prog : destroyed[prog[i].name] \subseteq Overwritten(Called(prog[i].name))
    <3> DEFINE IsBounded(i) == destroyed[prog[i].name] \subseteq Overwritten(Called(prog[i].name))
               S == {m \in Nat : \A i \in DOMAIN prog : i <= m => IsBounded(i)}
    <3>1. 0 \in S
      BY <2>1
    <3>2. ASSUME NEW m \in Nat, m \in S PROVE m + 1 \in S
      <4> SUFFICES ASSUME m + 1 \in DOMAIN prog PROVE IsBounded(m + 1)
        BY <2>1, <3>2
      <4> DEFINE i == m + 1
                 C == Called(prog[i].name)
      <4>1. i \in DOMAIN prog
        OBVIOUS
      <4>2. Direct(prog[i]) \subseteq Overwritten(C)
        BY <2>4, <4>1, OverwrittenBounds
      <4>3. Callees(i) \subseteq C
        BY <2>1, <2>4, <4>1, CalledClosed
      <4>4. ASSUME NEW n \in Callees(i) \ {prog[i].name}
            PROVE  destroyed[n] \subseteq Overwritten(C)
        <5>1. n \in C
          BY <4>3
        <5>2. CASE n \in Builtins
          <6>1. destroyed[n] = BuiltinDestroys /\ C \cap Builtins # {}
            BY <2>3, <5>1, <5>2
          <6> HIDE DEF C
          <6> QED  BY <6>1, OverwrittenBounds
        <5>3. CASE n \notin Builtins
          <6>1. PICK j \in DOMAIN prog : n = prog[j].name /\ j <= m
            <7>1. PICK j \in 1..i : j \in DOMAIN prog /\ n = prog[j].name
              BY <2>1, <4>1, <5>3, CalleeKinds DEF Callees, Callee
            <7>2. j # i
              BY <4>4, <7>1
            <7> QED  BY <7>1, <7>2
          <6>2. IsBounded(j)
            BY <3>2, <6>1
          <6>3. Called(prog[j].name) \subseteq C
            <7> HIDE DEF C
            <7>1. prog[j].name \in C
              BY <5>1, <6>1
            <7>2. \A l \in DOMAIN prog : prog[l].name \in C => Callees(l) \subseteq C
              BY <2>1, <4>1, CalledClosed DEF C
            <7> QED  BY <2>1, <7>1, <7>2, CalledLeast
          <6>4. Overwritten(Called(prog[j].name)) \subseteq Overwritten(C)
            <7> DEFINE D == Called(prog[j].name)
            <7> HIDE DEF C, D
            <7>1. D \subseteq C
              BY <6>3 DEF D
            <7>2. /\ \A l \in DOMAIN prog : prog[l].name \in C =>
                                Direct(prog[l]) \subseteq Overwritten(C)
                  /\ C \cap Builtins # {} => BuiltinDestroys \subseteq Overwritten(C)
              BY OverwrittenBounds
            <7>3. Overwritten(D) \subseteq Overwritten(C)
              BY <7>1, <7>2, OverwrittenLeast
            <7> QED  BY <7>3 DEF D
          <6> QED  BY <6>1, <6>2, <6>4
        <5> QED  BY <5>2, <5>3
      <4> HIDE DEF i, C
      <4>5. destroyed[prog[i].name] \subseteq Overwritten(C)
        BY <2>2, <4>1, <4>2, <4>4
      <4> QED  BY <4>5 DEF i, C
    <3> HIDE DEF S
    <3>3. Nat \subseteq S
      BY <3>1, <3>2, InductionOverNat
    <3> QED  BY <2>1, <3>3 DEF S
  <2> QED  BY <2>5, <2>6
<1> QED  BY <1>1, Collection, PTL

-------------------------------------------------------------------------------
(* What compilation says of each function.                                 *)

\* What is reached is closed under the steps of the program.
LEMMA ReachedIs ==
    ASSUME NEW f, WellFormed(f)
    PROVE  /\ 1 \in Reached(f) /\ Reached(f) \subseteq Lines(f)
           /\ \A s \in Reached(f) : CfgNext(f, s) \subseteq Reached(f)
<1> DEFINE n == Len(f.stmts)
           U == Lines(f)
           T == SUBSET U
           step(X) == X \cup UNION {CfgNext(f, s) : s \in X}
           F == [X \in T |-> step(X)]
           Eq(g) == g = [k \in 0..n |-> IF k = 0 THEN {1} ELSE step(g[k - 1])]
<1>1. n \in Nat \ {0} /\ {1} \in T /\ (\A s \in U : CfgNext(f, s) \subseteq U) /\ U = 1..n
  <2>1. /\ n \in Nat \ {0} /\ U = 1..n
        /\ \A s \in U : CfgNext(f, s) \subseteq U
    BY DEF WellFormed
  <2> HIDE DEF n, U
  <2>2. 1 \in U
    BY <2>1
  <2> QED
    BY <2>1, <2>2 DEF T
<1>2. F \in [T -> T] /\ \A X \in T : F[X] = step(X)
  BY <1>1
<1>3. Reached(f) = (CHOOSE g : Eq(g))[n]
  BY DEF Reached
<1> HIDE DEF step, F, n, U
<1>4. PICK g0 \in [0..n -> T] : IsIteration(g0, {1}, F, n)
  <2> HIDE DEF T
  <2> QED
    BY <1>1, <1>2, IterationExists
<1>5. Eq(g0)
  <2>1. \A k \in 0..n : k # 0 => g0[k - 1] \in T
    BY <1>1
  <2> QED
    BY <1>2, <1>4, <2>1 DEF IsIteration
<1> DEFINE h == CHOOSE g : Eq(g)
<1>6. Eq(h)
  BY <1>5
<1> HIDE DEF h
<1>7. IsIteration(h, {1}, F, n) /\ h[n] \in T
  <2> HIDE DEF T
  <2> DEFINE S == {k \in 0..n : h[k] = g0[k]}
  <2>1. 0 \in S
    BY <1>1, <1>5, <1>6
  <2>2. \A k \in 0..(n - 1) : k \in S => k + 1 \in S
    <3> SUFFICES ASSUME NEW k \in 0..(n - 1), h[k] = g0[k] PROVE h[k + 1] = g0[k + 1]
      BY <1>1
    <3>1. k + 1 \in 0..n /\ k + 1 # 0 /\ (k + 1) - 1 = k
      BY <1>1
    <3>2. h[k + 1] = step(h[k])
      BY <1>6, <3>1
    <3>3. g0[k + 1] = step(g0[k])
      BY <1>5, <3>1
    <3> QED
      BY <3>2, <3>3
  <2> HIDE DEF S
  <2>3. 0..n \subseteq S
    BY <1>1, <2>1, <2>2, InductionUpTo
  <2>4. \A k \in 0..n : h[k] = g0[k]
    BY <2>3 DEF S
  <2>5. h = g0
    <3>1. DOMAIN h = 0..n /\ h = [k \in 0..n |-> h[k]]
      BY <1>6
    <3> QED
      BY <2>4, <3>1
  <2> QED
    BY <1>1, <1>4, <2>5
<1>8. Monotone(F, U) /\ {1} \subseteq F[{1}]
  <2>1. \A X, Y \in SUBSET U : X \subseteq Y => F[X] \subseteq F[Y]
    BY <1>2 DEF step
  <2> QED
    BY <1>1, <1>2, <2>1 DEF Monotone, step
<1>9. IsFiniteSet(U) /\ Enough(n, {1}, U)
  <2>1. 1 \in Int /\ n \in Int
    BY <1>1
  <2>2. IsFiniteSet(1..n) /\ Cardinality(1..n) = IF 1 > n THEN 0 ELSE n - 1 + 1
    BY <2>1, FS_Interval
  <2>3. Cardinality({1}) = 1
    BY FS_Singleton
  <2> QED
    BY <1>1, <2>2, <2>3 DEF Enough
<1>10. F[h[n]] = h[n]
  BY <1>1, <1>7, <1>8, <1>9, IterationEnds
<1>11. 1 \in h[n]
  <2> DEFINE P == {X \in T : 1 \in X}
  <2>1. P \in SUBSET T /\ {1} \in P
    BY <1>1
  <2>2. \A X \in P : F[X] \in P
    BY <1>2 DEF step
  <2> HIDE DEF P, T
  <2>3. \A k \in 0..n : h[k] \in P
    BY <1>1, <1>2, <1>7, <2>1, <2>2, IterationInside
  <2> QED
    BY <1>1, <2>3 DEF P
<1>12. step(h[n]) = h[n]
  BY <1>2, <1>7, <1>10
<1>13. Reached(f) = h[n]
  BY <1>3 DEF h
<1> QED
  BY <1>7, <1>11, <1>12, <1>13 DEF step, U

-------------------------------------------------------------------------------
\* where an alive scalar of f is kept
PlaceOK(f, x) ==
    \/ \E r \in AvailRegs : r \in Direct(f) /\ f.vreg[x] = InReg(r)
    \/ ~ IsArg(x) /\ \E n \in f.arraysize..(f.spillsize - 1) : f.vreg[x] = OnStack(n)

\* what a function is after allocation
FunctionOK(f) ==
    /\ 1 \in Reached(f.func) /\ Reached(f.func) \subseteq Lines(f.func)
    /\ \A s \in Reached(f.func) : CfgNext(f.func, s) \subseteq Reached(f.func)
    /\ f.arraysize \in Nat /\ f.arraysize < ArraySpan
    /\ f.spillsize \in Nat /\ f.arraysize <= f.spillsize
    /\ f.func.params \in 0..MaxArgs
    /\ \A s \in Reached(f.func) :
         /\ f.alive[s] = AliveOf(f.func, f.alive, s)
         /\ StatementOK(f.func.stmts[s])
         /\ \A x \in f.alive[s] : x \notin Unpooled /\ PlaceOK(f, x)
         /\ \A x, y \in f.alive[s] : x # y => f.vreg[x] # f.vreg[y]
    /\ f.alive[1] \subseteq {Arg(k) : k \in 0..(f.func.params - 1)}
    /\ \A k \in 0..(f.func.params - 1) :
         Arg(k) \in f.alive[1] => f.vreg[Arg(k)] = InReg(ArgReg[k])
    /\ Calls(f) = {s \in Reached(f.func) : IsCall(f.func.stmts[s])}
    /\ \A s \in Calls(f) : /\ Len(f.func.stmts[s].args) \in 0..MaxArgs
                           /\ DOMAIN f.func.stmts[s].args = 1..Len(f.func.stmts[s].args)
    /\ \A k \in 0..(f.func.params - 1) : ArgReg[k] \in Direct(f)
    /\ ~ f.isvoid => ArgReg[0] \in Direct(f)
    /\ Direct(f) \subseteq AvailRegs
    /\ \A s \in Reached(f.func) : /\ f.func.stmts[s].op = "return" => ~ f.isvoid
                                  /\ f.func.stmts[s].op = "returnvoid" => f.isvoid

\* The assumptions on programs, for each of their functions.
LEMMA FunctionIs ==
    ASSUME NEW pr \in Programs, NEW i \in DOMAIN pr
    PROVE  FunctionOK(pr[i])
<1> DEFINE f == pr[i]
<1>1. WellFormed(f.func)
  BY ProgramsAssumption DEF ProgramOK
<1>2. /\ 1 \in Reached(f.func) /\ Reached(f.func) \subseteq Lines(f.func)
      /\ \A s \in Reached(f.func) : CfgNext(f.func, s) \subseteq Reached(f.func)
  BY <1>1, ReachedIs
<1>3. /\ Placed(f, f.vreg, f.spillsize)
      /\ f.alive[1] \subseteq {Arg(k) : k \in 0..(f.func.params - 1)}
      /\ f.arraysize \in 0..(ArraySpan - 1)
      /\ f.spillsize \in Nat
  BY PlacesAssumption
<1>4. \A s \in Lines(f.func) : /\ StatementOK(f.func.stmts[s])
                               /\ f.func.stmts[s].op = "return" => ~ f.isvoid
                               /\ f.func.stmts[s].op = "returnvoid" => f.isvoid
                               /\ f.alive[s] \subseteq Vars(f.func)
  BY StatementsAssumption
<1>5. /\ f.func.params \in 0..MaxArgs
      /\ f.calls = {s \in Reached(f.func) : IsCall(f.func.stmts[s])}
      /\ Pooled(f) \subseteq DOMAIN f.vreg
      /\ \A s \in Lines(f.func) : f.alive[s] = AliveOf(f.func, f.alive, s)
      /\ \A s \in Calls(f) : /\ Len(f.func.stmts[s].args) \in 0..MaxArgs
                             /\ DOMAIN f.func.stmts[s].args = 1..Len(f.func.stmts[s].args)
  BY ProgramsAssumption DEF ProgramOK
<1> HIDE DEF f
<1>6. f.arraysize \in Nat /\ f.arraysize < ArraySpan /\ f.arraysize <= f.spillsize
  BY <1>3, ValuesAssumption DEF Placed
<1>7. ASSUME NEW s \in Reached(f.func), NEW x \in f.alive[s]
      PROVE  x \notin Unpooled /\ PlaceOK(f, x)
  <2>1. x \in Vars(f.func)
    BY <1>2, <1>4
  <2>2. x \notin Unpooled
    BY <2>1 DEF Vars, Defs, Uses
  <2>3. x \in Pooled(f)
    BY DEF Pooled
  <2>4. \/ \E r \in AvailRegs : f.vreg[x] = InReg(r)
        \/ ~ IsArg(x) /\ \E n \in f.arraysize..(f.spillsize - 1) : f.vreg[x] = OnStack(n)
    BY <1>3, <2>3 DEF Placed
  <2>5. ASSUME NEW r \in AvailRegs, f.vreg[x] = InReg(r) PROVE r \in Direct(f)
    BY <1>5, <2>3, <2>5 DEF Direct
  <2> QED
    BY <2>2, <2>4, <2>5 DEF PlaceOK
<1>8. ASSUME NEW s \in Reached(f.func), NEW x \in f.alive[s], NEW y \in f.alive[s], x # y
      PROVE  f.vreg[x] # f.vreg[y]
  BY <1>3, <1>8 DEF Placed, Apart
<1>9. \A k \in 0..(f.func.params - 1) : Arg(k) \in f.alive[1] => f.vreg[Arg(k)] = InReg(ArgReg[k])
  BY <1>3 DEF Placed
<1>10. /\ \A k \in 0..(f.func.params - 1) : ArgReg[k] \in Direct(f)
       /\ ~ f.isvoid => ArgReg[0] \in Direct(f)
       /\ Direct(f) \subseteq AvailRegs
  <2>1. \A k \in 0..(f.func.params - 1) : ArgReg[k] \in AvailRegs
    BY <1>5, ArgRegIs
  <2> QED
    BY <2>1, ArgRegIs DEF Direct
<1>11. Calls(f) = {s \in Reached(f.func) : IsCall(f.func.stmts[s])}
  BY <1>5 DEF Calls
<1>12. \A s \in Reached(f.func) : f.alive[s] = AliveOf(f.func, f.alive, s)
  BY <1>2, <1>5
<1>13. FunctionOK(f)
  BY <1>2, <1>3, <1>4, <1>5, <1>6, <1>7, <1>8, <1>9, <1>10, <1>11, <1>12 DEF FunctionOK
<1> QED
  BY <1>13 DEF f

-------------------------------------------------------------------------------
(* The stack of calls in progress, each waiting for the next.              *)

\* what compilation leaves behind: ds is destroyed, cs is callersave
Reported(pr, ds, cs) ==
    /\ pr \in Programs
    /\ Len(pr) \in Nat \ {0} /\ DOMAIN pr = 1..Len(pr)
    /\ ds \in [Names(pr) -> SUBSET (AvailRegs \cup BuiltinDestroys)]
    /\ cs \in [DOMAIN pr -> Nat]
    /\ \A n \in Builtins : ds[n] = BuiltinDestroys
    /\ \A i \in DOMAIN pr :
         /\ pr[i].name \in Names(pr)
         /\ Direct(pr[i]) \subseteq ds[pr[i].name]
         /\ \A s \in Calls(pr[i]) :
              LET fn == pr[i].func.stmts[s].fn
              IN  /\ fn \in Names(pr)
                  /\ ds[fn] \subseteq ds[pr[i].name]
                  /\ Cardinality(SavedRegs(pr[i], s, ds[fn])) <= cs[i]

\* a frame of the function that fr is of
FrameOf(pr, cs, fr) ==
    /\ fr = [fi |-> fr.fi, pc |-> fr.pc, meet |-> fr.meet, words |-> fr.words]
    /\ fr.fi \in DOMAIN pr
    /\ fr.pc \in Reached(pr[fr.fi].func)
    /\ fr.words \in [0..(pr[fr.fi].spillsize + cs[fr.fi] - 1) -> Nat]

\* the function that is called where the frame fr is
Awaited(pr, fr) == pr[fr.fi].func.stmts[fr.pc].fn

\* the function of the frame fr waits for one it has called
Waits(pr, ds, fr) ==
    /\ fr.pc \in Calls(pr[fr.fi])
    /\ fr.meet \in SetToSeqs(MeetRegs(pr[fr.fi], fr.pc, ds[Awaited(pr, fr)]))

\* the calls in progress, each of which but the last waits for the next
StackOK(pr, ds, cs, st) ==
    /\ IsList(st)
    /\ \A k \in 1..Len(st) : FrameOf(pr, cs, st[k])
    /\ \A k \in 1..(Len(st) - 1) :
         Waits(pr, ds, st[k]) /\ Awaited(pr, st[k]) = pr[st[k + 1].fi].name
    /\ Len(st) > 0 => st[1].fi = Len(pr)
    /\ \A j, k \in 1..Len(st) : k <= j =>
         ds[pr[st[j].fi].name] \subseteq ds[pr[st[k].fi].name]

\* the registers and globals
StoreOK(rg, gl, ga) ==
    /\ rg \in [Regs -> Nat]
    /\ rg[NoReg] = 0
    /\ gl \in Nat
    /\ ga \in [DOMAIN GlobInit -> Nat]

-------------------------------------------------------------------------------
\* where the value of x is, fr being a frame of f
HeldBy(f, fr, rg, x) ==
    LET place == f.vreg[x]
    IN  CASE place.pos = "stack" -> fr.words[place.slot]
          [] place.pos = "reg" /\ Contains(fr.meet, place.reg) ->
               fr.words[f.spillsize + IndexOf(fr.meet, place.reg) - 1]
          [] OTHER -> rg[place.reg]

\* what has a value then
AliveIn(f, s, top) ==
    IF top THEN f.alive[s] ELSE MeetOf(f.func, f.alive, s) \ Defs(f.func.stmts[s])

\* the frame as the source sees it
AsSource(f, fr, rg, top) ==
    [fi |-> fr.fi, pc |-> fr.pc,
     env |-> [x \in AliveIn(f, fr.pc, top) |-> HeldBy(f, fr, rg, x)],
     arr |-> [i \in 0..(f.arraysize - 1) |-> fr.words[i]]]

AllAsSource(pr, st, rg) ==
    [k \in 1..Len(st) |-> AsSource(pr[st[k].fi], st[k], rg, k = Len(st))]

MachineOf(st, rg, gl, ga) ==
    [regs |-> rg, frames |-> <<>> \o [k \in DOMAIN st |-> st[k].words], glob |-> gl, garr |-> ga]

\* The state of calls in progress is a machine.
LEMMA MachineIs ==
    ASSUME NEW st, NEW rg, NEW gl, NEW ga,
           IsList(st), Len(st) > 0,
           \A k \in 1..Len(st) : st[k].words \in [DOMAIN st[k].words -> Nat],
           StoreOK(rg, gl, ga)
    PROVE  LET m == MachineOf(st, rg, gl, ga)
           IN  /\ IsMachine(m)
               /\ TopOf(m) = Len(st) /\ DOMAIN m.frames = 1..Len(st)
               /\ \A k \in 1..Len(st) : m.frames[k] = st[k].words
               /\ m.regs = rg /\ m.glob = gl /\ m.garr = ga
<1> DEFINE n == Len(st)
           ws == [k \in DOMAIN st |-> st[k].words]
           fs == <<>> \o ws
           m == MachineOf(st, rg, gl, ga)
<1>1. n \in Nat /\ DOMAIN st = 1..n /\ n > 0
  BY ListIs
<1> HIDE DEF n
<1>2. ws = [k \in 1..n |-> ws[k]] /\ \A k \in 1..n : ws[k] = st[k].words
  BY <1>1
<1> HIDE DEF ws
<1>3. IsList(ws) /\ Len(ws) = n /\ DOMAIN ws = 1..n
  BY <1>1, <1>2, FunctionList
<1>4. fs = ws
  BY <1>3, ListConcat
<1>5. m = [regs |-> rg, frames |-> fs, glob |-> gl, garr |-> ga]
  BY DEF MachineOf, ws
<1> HIDE DEF fs, m
<1>6. m.regs = rg /\ m.frames = ws /\ m.glob = gl /\ m.garr = ga
      /\ m = [regs |-> m.regs, frames |-> m.frames, glob |-> m.glob, garr |-> m.garr]
  BY <1>4, <1>5
<1>7. IsMachine(m)
  <2>1. \A k \in 1..n : ws[k] \in [DOMAIN ws[k] -> Nat]
    BY <1>2 DEF n
  <2> QED
    BY <1>1, <1>3, <1>6, <2>1 DEF IsMachine, StoreOK
<1> QED
  BY <1>2, <1>3, <1>6, <1>7 DEF TopOf, m, n

\* What is alive is kept, an argument in a register.
LEMMA AliveKept ==
    ASSUME NEW f, NEW s \in Reached(f.func), NEW x \in f.alive[s], NEW m, NEW c \in Nat,
           FunctionOK(f),
           IsMachine(m),
           DOMAIN m.frames[TopOf(m)] = 0..(f.spillsize + c - 1)
    PROVE  /\ IsKept(f, m, x) /\ x \notin Unpooled
           /\ f.vreg[x].pos = "stack" =>
                f.vreg[x].slot \in 0..(f.spillsize - 1) /\ f.vreg[x].slot >= f.arraysize
           /\ IsArg(x) => f.vreg[x].pos # "stack"
<1>1. /\ x \notin Unpooled
      /\ PlaceOK(f, x) /\ f.spillsize \in Nat /\ f.arraysize \in Nat
  BY DEF FunctionOK
<1>2. CASE \E r \in AvailRegs : r \in Direct(f) /\ f.vreg[x] = InReg(r)
  <2>1. PICK r \in AvailRegs : f.vreg[x] = InReg(r)
    BY <1>2
  <2> QED
    BY <1>1, <2>1, Kinds DEF IsKept
<1>3. CASE ~ IsArg(x) /\ \E n \in f.arraysize..(f.spillsize - 1) : f.vreg[x] = OnStack(n)
  <2>1. PICK n \in f.arraysize..(f.spillsize - 1) : f.vreg[x] = OnStack(n)
    BY <1>3
  <2>2. n \in 0..(f.spillsize + c - 1) /\ n \in 0..(f.spillsize - 1) /\ n >= f.arraysize
    BY <1>1
  <2> QED
    BY <1>1, <1>3, <2>1, <2>2, Kinds DEF IsKept
<1> QED
  BY <1>1, <1>2, <1>3 DEF PlaceOK

\* In the last frame a scalar is in its place.
LEMMA TopHeld ==
    ASSUME NEW f, NEW fr, NEW rg, NEW m, NEW x,
           fr.meet = <<>>,
           m.frames[TopOf(m)] = fr.words,
           m.regs = rg,
           IsMachine(m),
           IsKept(f, m, x)
    PROVE  HeldBy(f, fr, rg, x) = ValueIn(f, m, x)
<1>1. ~ \E i \in 1..Len(<<>>) : TRUE
  OBVIOUS
<1>2. \A r : ~ Contains(fr.meet, r)
  BY <1>1 DEF Contains
<1>3. CASE f.vreg[x].pos = "stack"
  BY <1>3, KeptIs DEF HeldBy
<1>4. CASE f.vreg[x].pos # "stack"
  BY <1>2, <1>4, KeptIs DEF HeldBy
<1> QED
  BY <1>3, <1>4

\* The registers saved are available ones, and there is room for them.
LEMMA MeetWithin ==
    ASSUME NEW pr, NEW ds, NEW cs, NEW i \in DOMAIN pr, NEW s \in Calls(pr[i]),
           Reported(pr, ds, cs)
    PROVE  LET f == pr[i]
               D == ds[f.func.stmts[s].fn]
               M == MeetRegs(f, s, D)
           IN  /\ M \subseteq AvailRegs /\ IsFiniteSet(M)
               /\ Cardinality(M) \in Nat /\ Cardinality(M) <= cs[i]
               /\ SavedRegs(f, s, D) = M \cup CollidingRegs(f, s)
               /\ Cardinality(SavedRegs(f, s, D)) \in Nat
               /\ Cardinality(SavedRegs(f, s, D)) <= cs[i]
<1> DEFINE f == pr[i]
           D == ds[f.func.stmts[s].fn]
           M == MeetRegs(f, s, D)
           K == SavedRegs(f, s, D)
           args == f.func.stmts[s].args
<1>1. FunctionOK(f) /\ s \in Reached(f.func)
  <2>1. FunctionOK(f)
    BY FunctionIs DEF Reported
  <2> QED
    BY <2>1 DEF FunctionOK
<1>2. Cardinality(K) <= cs[i] /\ cs[i] \in Nat
  BY DEF Reported
<1> HIDE DEF f
<1>3. M \subseteq AvailRegs
  <2> SUFFICES ASSUME NEW x \in MeetOf(f.func, f.alive, s), NEW q, f.vreg[x] = InReg(q)
               PROVE  q \in AvailRegs
    BY DEF MeetRegs
  <2>1. PICK n \in CfgNext(f.func, s) : x \in f.alive[n]
    BY DEF MeetOf
  <2>2. PlaceOK(f, x)
    BY <1>1, <2>1 DEF FunctionOK
  <2> QED
    BY <2>2, Kinds DEF PlaceOK
<1>4. CollidingRegs(f, s) \subseteq AvailRegs
  <2> SUFFICES ASSUME NEW p \in DOMAIN args, Collides(f, s, p)
               PROVE  f.vreg[args[p]].reg \in AvailRegs
    BY DEF CollidingRegs
  <2>1. PICK q \in 0..(p - 2) : f.vreg[args[p]] = InReg(ArgReg[q])
    BY DEF Collides
  <2>2. Len(args) \in 0..MaxArgs /\ DOMAIN args = 1..Len(args)
    BY <1>1 DEF FunctionOK, f
  <2>3. q \in DOMAIN ArgReg
    BY <2>2, ArgRegIs
  <2> QED
    BY <2>1, <2>3, ArgRegIs, Kinds
<1>5. IsFiniteSet(M) /\ IsFiniteSet(K) /\ M \subseteq K /\ K = M \cup CollidingRegs(f, s)
  BY <1>3, <1>4, RegsAssumption, FS_Subset DEF SavedRegs
<1>6. Cardinality(M) <= Cardinality(K) /\ Cardinality(M) \in Nat /\ Cardinality(K) \in Nat
  BY <1>5, FS_Subset, FS_CardinalityType
<1>7. Cardinality(M) <= cs[i]
  <2> HIDE DEF M, K
  <2> QED
    BY <1>2, <1>6
<1> QED
  BY <1>2, <1>3, <1>5, <1>6, <1>7 DEF f

\* A register that is not saved is not overwritten, or it is the result's.
LEMMA NotSaved ==
    ASSUME NEW f, NEW s \in Calls(f), NEW D, NEW r \in AvailRegs, NEW x,
           FunctionOK(f),
           x \in f.alive[s + 1], x \notin Defs(f.func.stmts[s]),
           f.vreg[x] = InReg(r),
           r \notin MeetRegs(f, s, D)
    PROVE  r \notin D
<1> DEFINE stmt == f.func.stmts[s]
           ret == stmt.dest
<1>1. IsCall(stmt) /\ CfgNext(f.func, s) = {s + 1} /\ s + 1 \in Reached(f.func) /\ s \in Reached(f.func)
  <2>1. IsCall(stmt) /\ s \in Reached(f.func)
    BY DEF FunctionOK
  <2>2. CfgNext(f.func, s) = {s + 1}
    BY <2>1 DEF CfgNext, IsCall
  <2> QED
    BY <2>1, <2>2 DEF FunctionOK
<1>2. MeetOf(f.func, f.alive, s) = f.alive[s + 1]
  BY <1>1 DEF MeetOf
<1> SUFFICES ASSUME r \in D PROVE FALSE
  OBVIOUS
<1>3. r = RetReg(f, s)
  BY <1>2 DEF MeetRegs
<1>4. ret \in f.alive[s + 1] \ Unpooled /\ f.vreg[ret].pos = "reg" /\ f.vreg[ret].reg = r
  <2>1. r # NoReg
    BY RegsAssumption
  <2> QED
    BY <1>2, <1>3, <2>1 DEF RetReg
<1>5. PlaceOK(f, ret)
  BY <1>1, <1>4 DEF FunctionOK
<1>6. f.vreg[ret] = InReg(r)
  BY <1>4, <1>5, Kinds DEF PlaceOK
<1>7. ret = x
  BY <1>1, <1>4, <1>6 DEF FunctionOK
<1> QED
  BY <1>4, <1>7 DEF Defs

\* The line after a call.
LEMMA AfterCallIs ==
    ASSUME NEW f, NEW s \in Calls(f),
           FunctionOK(f)
    PROVE  /\ IsCall(f.func.stmts[s]) /\ s \in Reached(f.func)
           /\ CfgNext(f.func, s) = {s + 1} /\ s + 1 \in Reached(f.func)
           /\ MeetOf(f.func, f.alive, s) = f.alive[s + 1]
<1>1. IsCall(f.func.stmts[s]) /\ s \in Reached(f.func)
  BY DEF FunctionOK
<1>2. CfgNext(f.func, s) = {s + 1}
  BY <1>1 DEF CfgNext, IsCall
<1>3. s + 1 \in Reached(f.func)
  BY <1>1, <1>2 DEF FunctionOK
<1>4. MeetOf(f.func, f.alive, s) = f.alive[s + 1]
  BY <1>2 DEF MeetOf
<1> QED
  BY <1>1, <1>2, <1>3, <1>4

\* what is in the frame fr above the first n words is in fr2
KeepsAbove(fr, fr2, n) ==
    \A w \in DOMAIN fr.words : w >= n => fr2.words[w] = fr.words[w]

\* what is in registers other than D and the scratch ones stays there
KeepsRegs(rg, rg2, D) == \A r \in Regs \ (Scratch \cup D) : rg2[r] = rg[r]

\* what the function of the waiting frame fr needs afterwards
Needed(pr, fr) ==
    MeetOf(pr[fr.fi].func, pr[fr.fi].alive, fr.pc) \ Defs(pr[fr.fi].func.stmts[fr.pc])

\* While a function waits, what it still needs stays: in words of its frame
\* above its array, or in registers that nothing called overwrites.
LEMMA WaitingHeld ==
    ASSUME NEW pr, NEW ds, NEW cs, NEW fr, NEW fr2, NEW rg, NEW rg2, NEW x,
           Reported(pr, ds, cs),
           FrameOf(pr, cs, fr),
           Waits(pr, ds, fr),
           fr2.meet = fr.meet,
           KeepsAbove(fr, fr2, pr[fr.fi].arraysize),
           KeepsRegs(rg, rg2, ds[Awaited(pr, fr)]),
           x \in Needed(pr, fr)
    PROVE  HeldBy(pr[fr.fi], fr2, rg2, x) = HeldBy(pr[fr.fi], fr, rg, x)
<1> DEFINE f == pr[fr.fi]
           s == fr.pc
           D == ds[f.func.stmts[s].fn]
           M == MeetRegs(f, s, D)
           c == cs[fr.fi]
<1>1. FunctionOK(f) /\ c \in Nat /\ s \in Calls(f) /\ fr.meet \in SetToSeqs(M)
      /\ Awaited(pr, fr) = f.func.stmts[s].fn
  BY FunctionIs DEF Reported, FrameOf, Waits, Awaited
<1>2. fr.words \in [0..(f.spillsize + c - 1) -> Nat] /\ f.spillsize \in Nat /\ f.arraysize \in Nat
      /\ f.arraysize <= f.spillsize
  BY <1>1 DEF FrameOf, FunctionOK
<1>3. IsFiniteSet(M) /\ Cardinality(M) \in Nat /\ Cardinality(M) <= c
  BY <1>1, MeetWithin, Zenon DEF FrameOf
<1>4. x \in f.alive[s + 1] /\ x \notin Defs(f.func.stmts[s]) /\ s + 1 \in Reached(f.func)
  <2>1. x \in MeetOf(f.func, f.alive, s) \ Defs(f.func.stmts[s])
    BY DEF Needed
  <2> QED
    BY <1>1, <2>1, AfterCallIs
<1>5. PlaceOK(f, x)
  BY <1>1, <1>4, Zenon DEF FunctionOK
<1>8. /\ \A w \in DOMAIN fr.words : w >= f.arraysize => fr2.words[w] = fr.words[w]
      /\ \A r \in Regs \ (Scratch \cup ds[Awaited(pr, fr)]) : rg2[r] = rg[r]
  BY DEF KeepsAbove, KeepsRegs
<1> HIDE DEF f, s, c, D
<1>6. CASE \E r \in AvailRegs : r \in Direct(f) /\ f.vreg[x] = InReg(r)
  <2>1. PICK r \in AvailRegs : f.vreg[x] = InReg(r)
    BY <1>6
  <2>2. f.vreg[x].pos = "reg" /\ f.vreg[x].reg = r /\ f.vreg[x].pos # "stack"
    BY <2>1, Kinds
  <2>3. CASE Contains(fr.meet, r)
    <3> DEFINE i == IndexOf(fr.meet, r)
               w == f.spillsize + i - 1
    <3>1. Len(fr.meet) = Cardinality(M) /\ DOMAIN fr.meet = 1..Len(fr.meet)
      BY <1>1, <1>3, OrderIs
    <3>2. i \in 1..Len(fr.meet)
      BY <2>3, <3>1, IndexOfIs DEF Contains
    <3> HIDE DEF i
    <3>3. w \in DOMAIN fr.words /\ w >= f.arraysize
      BY <1>1, <1>2, <1>3, <3>1, <3>2
    <3>4. HeldBy(f, fr, rg, x) = fr.words[w] /\ HeldBy(f, fr2, rg2, x) = fr2.words[w]
      BY <2>2, <2>3 DEF HeldBy, i
    <3> HIDE DEF w
    <3> QED
      BY <1>8, <3>3, <3>4 DEF f
  <2>4. CASE ~ Contains(fr.meet, r)
    <3>1. r \notin M
      BY <1>1, <1>3, <2>4, OrderIs DEF Contains
    <3>2. r \notin D
      BY <1>1, <1>4, <2>1, <3>1, NotSaved
    <3>3. r \in Regs \ (Scratch \cup ds[Awaited(pr, fr)])
      BY <1>1, <3>2, RegsAre DEF D
    <3>4. HeldBy(f, fr, rg, x) = rg[r] /\ HeldBy(f, fr2, rg2, x) = rg2[r]
      BY <2>2, <2>4 DEF HeldBy
    <3> QED
      BY <1>8, <3>3, <3>4 DEF f
  <2> QED
    BY <2>3, <2>4
<1>7. CASE ~ IsArg(x) /\ \E n \in f.arraysize..(f.spillsize - 1) : f.vreg[x] = OnStack(n)
  <2>1. PICK n \in f.arraysize..(f.spillsize - 1) : f.vreg[x] = OnStack(n)
    BY <1>7
  <2>2. f.vreg[x].pos = "stack" /\ f.vreg[x].slot = n
    BY <2>1, Kinds
  <2>3. n \in DOMAIN fr.words /\ n >= f.arraysize
    BY <1>1, <1>2
  <2>4. HeldBy(f, fr, rg, x) = fr.words[n] /\ HeldBy(f, fr2, rg2, x) = fr2.words[n]
    BY <2>2 DEF HeldBy
  <2> QED
    BY <1>8, <2>3, <2>4 DEF f
<1> QED
  BY <1>5, <1>6, <1>7 DEF PlaceOK, f

-------------------------------------------------------------------------------
(* Scalars keep their values across statements and calls.                  *)

\* What an alive scalar is while neither its register nor the words above the
\* array change.
LEMMA ValueStays ==
    ASSUME NEW f, NEW s \in Reached(f.func), NEW x \in f.alive[s], NEW m, NEW m2, NEW c \in Nat,
           FunctionOK(f),
           IsMachine(m), IsMachine(m2),
           TopOf(m2) = TopOf(m),
           DOMAIN m.frames[TopOf(m)] = 0..(f.spillsize + c - 1),
           DOMAIN m2.frames[TopOf(m)] = 0..(f.spillsize + c - 1),
           \A r \in AvailRegs : f.vreg[x] = InReg(r) => m2.regs[r] = m.regs[r],
           \A w \in DOMAIN m.frames[TopOf(m)] :
              w >= f.arraysize /\ f.vreg[x] = OnStack(w)
                 => m2.frames[TopOf(m)][w] = m.frames[TopOf(m)][w]
    PROVE  ValueIn(f, m2, x) = ValueIn(f, m, x) /\ IsKept(f, m2, x)
<1>1. /\ IsKept(f, m, x) /\ IsKept(f, m2, x)
      /\ f.vreg[x].pos = "stack" => f.vreg[x].slot >= f.arraysize
  BY AliveKept
<1>2. CASE f.vreg[x].pos = "stack"
  <2> DEFINE w == f.vreg[x].slot
  <2>1. /\ f.vreg[x] = OnStack(w) /\ w \in DOMAIN m.frames[TopOf(m)]
        /\ ValueIn(f, m, x) = m.frames[TopOf(m)][w]
    BY <1>1, <1>2, KeptIs
  <2>2. ValueIn(f, m2, x) = m2.frames[TopOf(m2)][w]
    BY <1>1, <1>2, KeptIs
  <2>3. w >= f.arraysize
    BY <1>1, <1>2
  <2> HIDE DEF w
  <2> QED
    BY <1>1, <2>1, <2>2, <2>3
<1>3. CASE f.vreg[x].pos # "stack"
  <2> DEFINE r == f.vreg[x].reg
  <2>1. f.vreg[x] = InReg(r) /\ r \in AvailRegs /\ ValueIn(f, m, x) = m.regs[r]
    BY <1>1, <1>3, KeptIs
  <2>2. ValueIn(f, m2, x) = m2.regs[r]
    BY <1>1, <1>3, KeptIs
  <2> QED
    BY <1>1, <2>1, <2>2
<1> QED
  BY <1>1, <1>2, <1>3

\* A result changes its scalar and no other that is alive.
LEMMA WroteBinds ==
    ASSUME NEW f, NEW s \in Reached(f.func), NEW n \in CfgNext(f.func, s), NEW x \in f.alive[n],
           NEW m, NEW m2, NEW c \in Nat, NEW e, NEW v,
           FunctionOK(f),
           IsMachine(m),
           DOMAIN m.frames[TopOf(m)] = 0..(f.spillsize + c - 1),
           Wrote(f, m, m2, e, v),
           e \in {NoVar, Glob} \/ e \in f.alive[n],
           f.func.stmts[s].dest \in {e} \cup Unpooled \/ f.func.stmts[s].dest \notin f.alive[n]
    PROVE  /\ ValueIn(f, m2, x) = IF x = e THEN v ELSE ValueIn(f, m, x)
           /\ IsKept(f, m2, x)
           /\ x # e => x \in f.alive[s]
<1>1. n \in Reached(f.func) /\ f.alive[s] = AliveOf(f.func, f.alive, s)
      /\ x \notin Unpooled
      /\ \A y \in f.alive[n] : y # x => f.vreg[y] # f.vreg[x]
  BY DEF FunctionOK
<1>2. IsMachine(m2) /\ SameShape(m, m2) /\ TopOf(m2) = TopOf(m) /\ TopOf(m) \in DOMAIN m.frames
      /\ DOMAIN m2.frames[TopOf(m)] = 0..(f.spillsize + c - 1)
  BY ListIs DEF Wrote, SameShape, TopOf, IsMachine
<1>3. x # e => x \in f.alive[s]
  <2> SUFFICES ASSUME x # e PROVE x \in f.alive[s]
    OBVIOUS
  <2>1. x # f.func.stmts[s].dest
    BY <1>1
  <2>2. x \in MeetOf(f.func, f.alive, s) \ Defs(f.func.stmts[s])
    BY <2>1 DEF MeetOf, Defs
  <2> QED
    BY <1>1, <2>2 DEF AliveOf
<1>4. CASE x = e
  <2>1. IsKept(f, m2, x) /\ IsKept(f, m, x)
    BY <1>1, <1>2, AliveKept
  <2>2. CASE f.vreg[x].pos = "stack"
    <3> DEFINE w == f.vreg[x].slot
    <3>1. f.vreg[x] = OnStack(w) /\ w \in DOMAIN m.frames[TopOf(m)]
          /\ ValueIn(f, m2, x) = m2.frames[TopOf(m)][w]
      BY <1>2, <2>1, <2>2, KeptIs
    <3> HIDE DEF w
    <3>2. m2.frames[TopOf(m)][w] = v
      BY <1>1, <1>2, <1>4, <3>1 DEF Wrote
    <3> QED
      BY <1>4, <2>1, <3>1, <3>2
  <2>3. CASE f.vreg[x].pos # "stack"
    <3> DEFINE r == f.vreg[x].reg
    <3>1. f.vreg[x] = InReg(r) /\ r \in AvailRegs /\ ValueIn(f, m2, x) = m2.regs[r]
      BY <1>2, <2>1, <2>3, KeptIs
    <3> HIDE DEF r
    <3>2. r \in Regs \ Scratch
      BY <3>1, RegsAre
    <3>3. m2.regs[r] = v
      BY <1>1, <1>4, <3>1, <3>2 DEF Wrote
    <3> QED
      BY <1>4, <2>1, <3>1, <3>3
  <2> QED
    BY <2>2, <2>3
<1>5. CASE x # e
  <2>1. x \in f.alive[s]
    BY <1>3, <1>5
  <2>2. \A y : ~ (e \notin Unpooled /\ f.vreg[e] = f.vreg[x])
    BY <1>1, <1>5, Kinds
  <2>3. ASSUME NEW r \in AvailRegs, f.vreg[x] = InReg(r) PROVE m2.regs[r] = m.regs[r]
    <3>1. r \in Regs \ Scratch
      BY RegsAre
    <3> QED
      BY <2>2, <2>3, <3>1 DEF Wrote
  <2>4. ASSUME NEW w \in DOMAIN m.frames[TopOf(m)], f.vreg[x] = OnStack(w)
        PROVE  m2.frames[TopOf(m)][w] = m.frames[TopOf(m)][w]
    BY <1>2, <2>2, <2>4 DEF Wrote
  <2>5. ValueIn(f, m2, x) = ValueIn(f, m, x) /\ IsKept(f, m2, x)
    BY <1>2, <2>1, <2>3, <2>4, ValueStays
  <2> QED
    BY <1>5, <2>1, <2>5
<1> QED
  BY <1>4, <1>5

-------------------------------------------------------------------------------
\* When a function calls another, what it needs afterwards is in its frame or
\* in registers.
LEMMA SuspendedHeld ==
    ASSUME NEW pr, NEW ds, NEW cs, NEW fr, NEW fr2, NEW m, NEW m2, NEW x,
           Reported(pr, ds, cs),
           FrameOf(pr, cs, fr),
           Waits(pr, ds, fr2),
           fr2.fi = fr.fi, fr2.pc = fr.pc,
           fr2.words = m2.frames[TopOf(m)],
           IsMachine(m),
           m.frames[TopOf(m)] = fr.words,
           Passed(pr[fr.fi], fr.pc, m, m2, fr2.meet),
           ArgRegs(Len(pr[fr.fi].func.stmts[fr.pc].args)) \subseteq ds[Awaited(pr, fr)],
           x \in MeetOf(pr[fr.fi].func, pr[fr.fi].alive, fr.pc) \ Defs(pr[fr.fi].func.stmts[fr.pc])
    PROVE  /\ HeldBy(pr[fr.fi], fr2, m2.regs, x) = ValueIn(pr[fr.fi], m, x)
           /\ x \in pr[fr.fi].alive[fr.pc]
<1> DEFINE f == pr[fr.fi]
           s == fr.pc
           D == ds[f.func.stmts[s].fn]
           M == MeetRegs(f, s, D)
           c == cs[fr.fi]
           meet == fr2.meet
           top == TopOf(m)
           args == f.func.stmts[s].args
<1>1. FunctionOK(f) /\ c \in Nat /\ s \in Calls(f) /\ meet \in SetToSeqs(M)
      /\ Awaited(pr, fr) = f.func.stmts[s].fn /\ s \in Reached(f.func)
  <2>1. FunctionOK(f) /\ c \in Nat /\ s \in Calls(f) /\ meet \in SetToSeqs(M)
        /\ Awaited(pr, fr) = f.func.stmts[s].fn
    BY FunctionIs, Zenon DEF Reported, FrameOf, Waits, Awaited
  <2> QED
    BY <2>1, Zenon DEF FunctionOK
<1>2. fr.words \in [0..(f.spillsize + c - 1) -> Nat] /\ f.spillsize \in Nat /\ f.arraysize \in Nat
      /\ f.arraysize <= f.spillsize
  BY <1>1 DEF FrameOf, FunctionOK
<1>3. IsFiniteSet(M)
  BY <1>1, MeetWithin DEF FrameOf
<1>4. x \in f.alive[s + 1] /\ x \notin Defs(f.func.stmts[s]) /\ s + 1 \in Reached(f.func)
  BY <1>1, AfterCallIs
<1>5. x \in f.alive[s]
  BY <1>1, Zenon DEF FunctionOK, AliveOf
<1>6. top \in DOMAIN m.frames /\ DOMAIN m.frames[top] = 0..(f.spillsize + c - 1)
  BY <1>2, ListIs DEF IsMachine, TopOf
<1>7. /\ \A r \in Regs \ (Scratch \cup ArgRegs(Len(args))) : m2.regs[r] = m.regs[r]
      /\ \A w \in DOMAIN m.frames[top] :
             ~ (w >= f.spillsize) => m2.frames[top][w] = m.frames[top][w]
      /\ \A i \in 1..Len(meet) : m2.frames[top][f.spillsize + i - 1] = m.regs[meet[i]]
      /\ fr2.words = m2.frames[top]
  BY <1>6, Zenon DEF Passed
<1>8. ArgRegs(Len(args)) \subseteq D
  BY <1>1, Zenon
<1>9. IsKept(f, m, x) /\ (f.vreg[x].pos = "stack" => f.vreg[x].slot \in 0..(f.spillsize - 1))
  <2> HIDE DEF f, s, c
  <2> QED
    BY <1>1, <1>5, <1>6, AliveKept
<1> HIDE DEF f, s, c, D, meet, top, args
<1>10. CASE f.vreg[x].pos = "stack"
  <2> DEFINE w == f.vreg[x].slot
  <2>1. ValueIn(f, m, x) = m.frames[top][w] /\ w \in DOMAIN m.frames[top]
    BY <1>9, <1>10, KeptIs DEF top
  <2>2. ~ (w >= f.spillsize)
    BY <1>2, <1>9, <1>10
  <2>3. HeldBy(f, fr2, m2.regs, x) = fr2.words[w]
    BY <1>10 DEF HeldBy
  <2> HIDE DEF w
  <2>4. HeldBy(f, fr2, m2.regs, x) = ValueIn(f, m, x)
    BY <1>7, <2>1, <2>2, <2>3
  <2> QED
    BY <1>5, <2>4 DEF f, s
<1>11. CASE f.vreg[x].pos # "stack"
  <2> DEFINE r == f.vreg[x].reg
  <2>1. f.vreg[x] = InReg(r) /\ f.vreg[x].pos = "reg" /\ r \in AvailRegs /\ ValueIn(f, m, x) = m.regs[r]
    BY <1>9, <1>11, KeptIs
  <2>2. CASE Contains(meet, r)
    <3> DEFINE i == IndexOf(meet, r)
               w == f.spillsize + i - 1
    <3>1. DOMAIN meet = 1..Len(meet)
      BY <1>1, <1>3, OrderIs
    <3>2. i \in 1..Len(meet) /\ meet[i] = r
      BY <2>2, <3>1, IndexOfIs DEF Contains
    <3>3. HeldBy(f, fr2, m2.regs, x) = fr2.words[w]
      BY <2>1, <2>2, <1>11 DEF HeldBy, meet
    <3> HIDE DEF i, r
    <3>4. HeldBy(f, fr2, m2.regs, x) = ValueIn(f, m, x)
      BY <1>7, <2>1, <3>2, <3>3
    <3> QED
      BY <1>5, <3>4 DEF f, s
  <2>3. CASE ~ Contains(meet, r)
    <3>1. r \notin M
      BY <1>1, <1>3, <2>3, OrderIs DEF Contains
    <3>2. r \notin D
      BY <1>1, <1>4, <2>1, <3>1, NotSaved
    <3>3. r \in Regs \ (Scratch \cup ArgRegs(Len(args)))
      BY <1>8, <2>1, <3>2, RegsAre
    <3>4. HeldBy(f, fr2, m2.regs, x) = m2.regs[r]
      BY <2>3, <1>11 DEF HeldBy, meet
    <3>5. HeldBy(f, fr2, m2.regs, x) = ValueIn(f, m, x)
      BY <1>7, <2>1, <3>3, <3>4
    <3> QED
      BY <1>5, <3>5 DEF f, s
  <2> QED
    BY <2>2, <2>3
<1> QED
  BY <1>10, <1>11

\* When the call is over, what was needed is back in its place, and the result
\* is in its own.
LEMMA BackHeld ==
    ASSUME NEW pr, NEW ds, NEW cs, NEW fr, NEW m, NEW m2, NEW v, NEW x,
           Reported(pr, ds, cs),
           FrameOf(pr, cs, fr),
           Waits(pr, ds, fr),
           IsMachine(m),
           m.frames[TopOf(m)] = fr.words,
           CameBack(pr[fr.fi], m, m2, Taken(pr[fr.fi], fr.pc), v,
                    MeetRegs(pr[fr.fi], fr.pc, ds[Awaited(pr, fr)]), fr.meet),
           x \in pr[fr.fi].alive[fr.pc + 1]
    PROVE  /\ ValueIn(pr[fr.fi], m2, x) =
                 IF x = pr[fr.fi].func.stmts[fr.pc].dest THEN v
                 ELSE HeldBy(pr[fr.fi], fr, m.regs, x)
           /\ x # pr[fr.fi].func.stmts[fr.pc].dest =>
                 x \in MeetOf(pr[fr.fi].func, pr[fr.fi].alive, fr.pc) \ Defs(pr[fr.fi].func.stmts[fr.pc])
<1> DEFINE f == pr[fr.fi]
           s == fr.pc
           stmt == f.func.stmts[s]
           D == ds[f.func.stmts[s].fn]
           M == MeetRegs(f, s, D)
           c == cs[fr.fi]
           meet == fr.meet
           top == TopOf(m)
           d == Taken(f, s)
<1>1. FunctionOK(f) /\ c \in Nat /\ s \in Calls(f) /\ meet \in SetToSeqs(M)
      /\ Awaited(pr, fr) = f.func.stmts[s].fn /\ s \in Reached(f.func)
  <2>1. FunctionOK(f) /\ c \in Nat /\ s \in Calls(f) /\ meet \in SetToSeqs(M)
        /\ Awaited(pr, fr) = f.func.stmts[s].fn
    BY FunctionIs DEF Reported, FrameOf, Waits, Awaited
  <2> QED
    BY <2>1, Zenon DEF FunctionOK
<1>2. fr.words \in [0..(f.spillsize + c - 1) -> Nat] /\ f.spillsize \in Nat /\ f.arraysize \in Nat
      /\ f.arraysize <= f.spillsize
  BY <1>1 DEF FrameOf, FunctionOK
<1>3. IsFiniteSet(M) /\ M \subseteq AvailRegs
  BY <1>1, MeetWithin, Zenon DEF FrameOf
<1>4. s + 1 \in Reached(f.func) /\ IsCall(stmt) /\ MeetOf(f.func, f.alive, s) = f.alive[s + 1]
      /\ x \in f.alive[s + 1]
  BY <1>1, AfterCallIs
<1>5. x \notin Unpooled /\ StatementOK(stmt)
      /\ \A y \in f.alive[s + 1] : y # x => f.vreg[y] # f.vreg[x]
  BY <1>1, <1>4, Zenon DEF FunctionOK
<1>6. top \in DOMAIN m.frames /\ DOMAIN m.frames[top] = 0..(f.spillsize + c - 1)
  BY <1>2, ListIs DEF IsMachine, TopOf
<1>7. /\ IsMachine(m2) /\ SameShape(m, m2) /\ TopOf(m2) = top
      /\ DOMAIN m2.frames[top] = 0..(f.spillsize + c - 1)
      /\ \A r \in Regs \ (Scratch \cup M) :
            m2.regs[r] = IF d \notin Unpooled /\ f.vreg[d] = InReg(r) THEN v ELSE m.regs[r]
      /\ \A i \in 1..Len(meet) : m2.regs[meet[i]] = m.frames[top][f.spillsize + i - 1]
      /\ \A w \in DOMAIN m.frames[top] :
            m2.frames[top][w] = IF d \notin Unpooled /\ f.vreg[d] = OnStack(w)
                                THEN v ELSE m.frames[top][w]
  BY <1>1, <1>6, Zenon DEF CameBack, SameShape, TopOf
<1>8. x = stmt.dest <=> x = d
  <2>1. ASSUME x = stmt.dest PROVE x = d
    <3>1. stmt.dest # NoVar /\ stmt.dest \in MeetOf(f.func, f.alive, s)
      BY <1>4, <1>5, <2>1, Kinds, Zenon
    <3>2. stmt.op = "call"
      BY <1>4, <1>5, <3>1, Zenon DEF StatementOK, IsCall
    <3>3. Wanted(f, s)
      BY <3>1, <3>2 DEF Wanted, Unused
    <3> QED
      BY <2>1, <3>3 DEF Taken
  <2>2. ASSUME x = d PROVE x = stmt.dest
    BY <1>5, <2>2, Kinds, Zenon DEF Taken
  <2> QED
    BY <2>1, <2>2
<1>9. d \notin Unpooled => d \in f.alive[s + 1] /\ d = stmt.dest /\ stmt.op = "call"
  BY <1>4, Kinds, Zenon DEF Taken, Wanted, Unused
<1>10. x # d => x \in MeetOf(f.func, f.alive, s) \ Defs(stmt)
  BY <1>4, <1>8 DEF Defs
<1>11. IsKept(f, m2, x) /\ (f.vreg[x].pos = "stack" => f.vreg[x].slot \in DOMAIN m.frames[top])
  <2> HIDE DEF f, s, c
  <2>1. IsKept(f, m2, x)
    BY <1>1, <1>4, <1>7, AliveKept
  <2> QED
    BY <1>6, <1>7, <2>1, KeptIs
<1>12. ASSUME x = d, NEW r, f.vreg[x] = InReg(r) PROVE r \notin M
  <2>1. d \notin Unpooled /\ d \in f.alive[s + 1] /\ d = stmt.dest
    BY <1>5, <1>9, <1>12
  <2>2. RetReg(f, s) = r
    BY <1>4, <1>12, <2>1, Kinds, Zenon DEF RetReg
  <2> QED
    BY <2>2 DEF MeetRegs
<1>13. x # d /\ d \notin Unpooled => f.vreg[d] # f.vreg[x]
  BY <1>5, <1>9
<1> HIDE DEF f, s, c, D, meet, top, d, stmt, M
<1> SUFFICES ValueIn(f, m2, x) = IF x = d THEN v ELSE HeldBy(f, fr, m.regs, x)
  BY <1>8, <1>10 DEF f, s, stmt
<1>14. CASE f.vreg[x].pos = "stack"
  <2> DEFINE w == f.vreg[x].slot
  <2>1. ValueIn(f, m2, x) = m2.frames[top][w] /\ w \in DOMAIN m.frames[top] /\ f.vreg[x] = OnStack(w)
    BY <1>7, <1>11, <1>14, KeptIs
  <2>2. HeldBy(f, fr, m.regs, x) = m.frames[top][w]
    BY <1>14 DEF HeldBy, top
  <2> HIDE DEF w
  <2>3. CASE x = d
    BY <1>5, <1>7, <2>1, <2>3
  <2>4. CASE x # d
    BY <1>7, <1>13, <2>1, <2>2, <2>4
  <2> QED
    BY <2>3, <2>4
<1>15. CASE f.vreg[x].pos # "stack"
  <2> DEFINE r == f.vreg[x].reg
  <2>1. f.vreg[x] = InReg(r) /\ f.vreg[x].pos = "reg" /\ r \in AvailRegs /\ ValueIn(f, m2, x) = m2.regs[r]
    BY <1>7, <1>11, <1>15, KeptIs
  <2>2. \A j \in 1..Len(meet) : meet[j] \in M
    BY <1>1, <1>3, OrderIs, LenProperties
  <2>3. CASE Contains(meet, r)
    <3> DEFINE i == IndexOf(meet, r)
               w == f.spillsize + i - 1
    <3>1. DOMAIN meet = 1..Len(meet)
      BY <1>1, <1>3, OrderIs
    <3>2. i \in 1..Len(meet) /\ meet[i] = r
      BY <2>3, <3>1, IndexOfIs DEF Contains
    <3>3. HeldBy(f, fr, m.regs, x) = fr.words[w]
      BY <2>1, <2>3, <1>15 DEF HeldBy, meet
    <3> HIDE DEF i, r
    <3>4. x # d
      BY <1>12, <2>1, <2>2, <3>2
    <3> QED
      BY <1>7, <2>1, <3>2, <3>3, <3>4 DEF top
  <2>4. CASE ~ Contains(meet, r)
    <3>1. r \notin M
      BY <1>1, <1>3, <2>4, OrderIs DEF Contains
    <3>2. r \in Regs \ (Scratch \cup M)
      BY <2>1, <3>1, RegsAre
    <3>3. HeldBy(f, fr, m.regs, x) = m.regs[r]
      BY <2>4, <1>15 DEF HeldBy, meet
    <3> HIDE DEF r
    <3>4. CASE x = d
      BY <1>5, <1>7, <2>1, <3>2, <3>4
    <3>5. CASE x # d
      BY <1>7, <1>13, <2>1, <3>2, <3>3, <3>5
    <3> QED
      BY <3>4, <3>5
  <2> QED
    BY <2>3, <2>4
<1> QED
  BY <1>14, <1>15

-------------------------------------------------------------------------------
(* A step of the last call as the source sees it.                          *)

\* the calls st, the last being in line n and the words those of m
MovedOn(st, n, m) ==
    [k \in 1..Len(st) |->
        [fi |-> st[k].fi, pc |-> IF k = Len(st) THEN n ELSE st[k].pc,
         meet |-> IF k = Len(st) THEN <<>> ELSE st[k].meet, words |-> m.frames[k]]]

\* t is that
IsMovedOn(st, n, m, t) ==
    /\ Len(t) = Len(st)
    /\ \A k \in 1..Len(st) :
         t[k] = [fi |-> st[k].fi, pc |-> IF k = Len(st) THEN n ELSE st[k].pc,
                 meet |-> IF k = Len(st) THEN <<>> ELSE st[k].meet, words |-> m.frames[k]]

\* the machine m has the frames of the calls st
Carries(m, st) ==
    /\ IsMachine(m)
    /\ TopOf(m) = Len(st)
    /\ \A k \in 1..Len(st) : DOMAIN m.frames[k] = DOMAIN st[k].words

\* The last of the calls having gone on, the calls are a stack again.
LEMMA MovedOnOK ==
    ASSUME NEW pr, NEW ds, NEW cs, NEW st, NEW n, NEW m,
           Reported(pr, ds, cs),
           StackOK(pr, ds, cs, st),
           Len(st) > 0,
           Carries(m, st),
           n \in Reached(pr[st[Len(st)].fi].func)
    PROVE  /\ StackOK(pr, ds, cs, MovedOn(st, n, m))
           /\ IsMovedOn(st, n, m, MovedOn(st, n, m))
           /\ MovedOn(st, n, m)[Len(st)].meet = <<>>
           /\ StoreOK(m.regs, m.glob, m.garr)
<1> DEFINE l == Len(st)
           t == MovedOn(st, n, m)
<1>1. l \in Nat /\ l > 0 /\ DOMAIN st = 1..l
  BY ListIs DEF StackOK
<1> HIDE DEF l
<1>2. t = [k \in 1..l |-> t[k]]
      /\ \A k \in 1..l : t[k] = [fi |-> st[k].fi, pc |-> IF k = l THEN n ELSE st[k].pc,
                                 meet |-> IF k = l THEN <<>> ELSE st[k].meet,
                                 words |-> m.frames[k]]
  BY DEF MovedOn, l
<1> HIDE DEF t
<1>3. IsList(t) /\ Len(t) = l
  BY <1>1, <1>2, FunctionList
<1>4. \A k \in 1..l : /\ t[k].fi = st[k].fi /\ t[k].pc = (IF k = l THEN n ELSE st[k].pc)
                      /\ t[k].meet = (IF k = l THEN <<>> ELSE st[k].meet) /\ t[k].words = m.frames[k]
                      /\ t[k] = [fi |-> t[k].fi, pc |-> t[k].pc, meet |-> t[k].meet, words |-> t[k].words]
  BY <1>2
<1>5. IsMachine(m) /\ DOMAIN m.frames = 1..l
  BY ListIs DEF Carries, IsMachine, TopOf, l
<1>6. ASSUME NEW k \in 1..l PROVE FrameOf(pr, cs, t[k])
  <2>1. FrameOf(pr, cs, st[k])
    BY <1>6 DEF StackOK, l
  <2>2. m.frames[k] \in [DOMAIN st[k].words -> Nat]
    BY <1>5 DEF Carries, IsMachine, l
  <2>3. t[k].pc \in Reached(pr[st[k].fi].func)
    BY <1>4, <2>1 DEF FrameOf, l
  <2>4. m.frames[k] \in [0..(pr[st[k].fi].spillsize + cs[st[k].fi] - 1) -> Nat]
    BY <2>1, <2>2 DEF FrameOf
  <2> QED
    BY <1>4, <2>1, <2>3, <2>4 DEF FrameOf
<1>7. ASSUME NEW k \in 1..(l - 1)
      PROVE  Waits(pr, ds, t[k]) /\ Awaited(pr, t[k]) = pr[t[k + 1].fi].name
  <2>1. k \in 1..l /\ k # l /\ k + 1 \in 1..l
    BY <1>1
  <2>2. Waits(pr, ds, st[k]) /\ Awaited(pr, st[k]) = pr[st[k + 1].fi].name
    BY DEF StackOK, l
  <2>3. t[k].fi = st[k].fi /\ t[k].pc = st[k].pc /\ t[k].meet = st[k].meet /\ t[k + 1].fi = st[k + 1].fi
    BY <1>4, <2>1
  <2> QED
    BY <2>2, <2>3 DEF Waits, Awaited
<1>8. t[1].fi = Len(pr)
  <2>1. st[1].fi = Len(pr)
    BY DEF StackOK
  <2>2. 1 \in 1..l
    BY <1>1
  <2> QED
    BY <1>4, <2>1, <2>2
<1>9. ASSUME NEW j \in 1..l, NEW k \in 1..l, k <= j
      PROVE  ds[pr[t[j].fi].name] \subseteq ds[pr[t[k].fi].name]
  BY <1>4, <1>9 DEF StackOK, l
<1>10. StackOK(pr, ds, cs, t)
  BY <1>3, <1>6, <1>7, <1>8, <1>9 DEF StackOK
<1>11. StoreOK(m.regs, m.glob, m.garr)
  BY <1>5 DEF IsMachine, StoreOK
<1>12. t[l].meet = <<>>
  <2>1. l \in 1..l
    BY <1>1
  <2> QED
    BY <1>4, <2>1
<1> QED
  BY <1>2, <1>3, <1>10, <1>11, <1>12 DEF t, l, IsMovedOn

\* the calls of st that wait for another
Waiting(st) == 1..(Len(st) - 1)

\* only what the last of the calls st may overwrite, and words of arrays
\* of the others, differ
KeepsBelow(pr, ds, st, rg, m) ==
    /\ \A r \in Regs \ (Scratch \cup ds[pr[st[Len(st)].fi].name]) : m.regs[r] = rg[r]
    /\ \A k \in 1..(Len(st) - 1) : \A w \in DOMAIN st[k].words :
         w >= pr[st[k].fi].arraysize => m.frames[k][w] = st[k].words[w]

\* what the source sees of call k of st, with the scalars env and the arrays of m
Seen(pr, st, m, k, n, env) ==
    [fi |-> st[k].fi, pc |-> n, env |-> env,
     arr |-> [i \in 0..(pr[st[k].fi].arraysize - 1) |-> m.frames[k][i]]]

\* the source sees the same of the frame fr as of call k of st, but for arrays
Unnoticed(pr, st, rg, m, k, fr) ==
    AsSource(pr[st[k].fi], fr, m.regs, FALSE) =
       Seen(pr, st, m, k, st[k].pc, AsSource(pr[st[k].fi], st[k], rg, FALSE).env)

\* The calls below the last do not notice.
LEMMA BelowSame ==
    ASSUME NEW pr, NEW ds, NEW cs, NEW st, NEW rg, NEW m, NEW fr, NEW k,
           k \in Waiting(st),
           Reported(pr, ds, cs),
           StackOK(pr, ds, cs, st),
           KeepsBelow(pr, ds, st, rg, m),
           fr.fi = st[k].fi, fr.pc = st[k].pc, fr.meet = st[k].meet, fr.words = m.frames[k]
    PROVE  Unnoticed(pr, st, rg, m, k, fr)
<1> DEFINE f == pr[st[k].fi]
           l == Len(st)
           A == AliveIn(f, st[k].pc, FALSE)
<1>1. l \in Nat /\ k \in 1..l /\ k + 1 \in 1..l /\ l \in 1..l /\ k + 1 <= l
  BY ListIs DEF StackOK, Waiting
<1>2. /\ FrameOf(pr, cs, st[k]) /\ Waits(pr, ds, st[k])
      /\ Awaited(pr, st[k]) = pr[st[k + 1].fi].name
      /\ ds[pr[st[l].fi].name] \subseteq ds[pr[st[k + 1].fi].name]
  BY <1>1 DEF StackOK, Waiting
<1>3. \A r \in Regs \ (Scratch \cup ds[Awaited(pr, st[k])]) : m.regs[r] = rg[r]
  BY <1>2 DEF KeepsBelow
<1>4. \A w \in DOMAIN st[k].words : w >= f.arraysize => fr.words[w] = st[k].words[w]
  BY DEF KeepsBelow, Waiting
<1>5. \A x \in A : HeldBy(f, fr, m.regs, x) = HeldBy(f, st[k], rg, x)
  <2> TAKE x \in A
  <2>1. x \in MeetOf(f.func, f.alive, st[k].pc) \ Defs(f.func.stmts[st[k].pc])
    BY DEF AliveIn
  <2> DEFINE s0 == st[k]
             rg2 == m.regs
  <2>2. /\ FrameOf(pr, cs, s0) /\ Waits(pr, ds, s0) /\ fr.meet = s0.meet
        /\ KeepsAbove(s0, fr, pr[s0.fi].arraysize)
        /\ KeepsRegs(rg, rg2, ds[Awaited(pr, s0)])
        /\ x \in Needed(pr, s0)
    BY <1>2, <1>3, <1>4, <2>1 DEF KeepsAbove, KeepsRegs, Needed
  <2> HIDE DEF s0, rg2, A, f
  <2>4. HeldBy(pr[s0.fi], fr, rg2, x) = HeldBy(pr[s0.fi], s0, rg, x)
    BY <2>2, WaitingHeld
  <2> QED
    BY <2>4 DEF s0, rg2, f
<1>6. AsSource(f, st[k], rg, FALSE).env = [x \in A |-> HeldBy(f, st[k], rg, x)]
  BY DEF AsSource
<1>7. AsSource(f, fr, m.regs, FALSE) =
         [fi |-> st[k].fi, pc |-> st[k].pc, env |-> [x \in A |-> HeldBy(f, fr, m.regs, x)],
          arr |-> [i \in 0..(f.arraysize - 1) |-> m.frames[k][i]]]
  BY DEF AsSource
<1>8. [x \in A |-> HeldBy(f, fr, m.regs, x)] = [x \in A |-> HeldBy(f, st[k], rg, x)]
  BY <1>5
<1> QED
  BY <1>6, <1>7, <1>8 DEF Seen, Unnoticed

\* what the source sees of the calls st, the last of which is in line n with
\* the scalars env, the arrays being those of m
SourceOf(pr, st, rg, n, env, m) ==
    [k \in 1..Len(st) |->
        IF k = Len(st) THEN Seen(pr, st, m, k, n, env)
        ELSE Seen(pr, st, m, k, st[k].pc, AsSource(pr[st[k].fi], st[k], rg, FALSE).env)]

\* the scalars that f has alive in line n have the values env
Agrees(f, m, n, env) ==
    /\ env = [x \in f.alive[n] |-> env[x]]
    /\ \A x \in f.alive[n] : IsKept(f, m, x) /\ ValueIn(f, m, x) = env[x]

\* How a step of the last call looks to the source.
LEMMA MovedSource ==
    ASSUME NEW pr, NEW ds, NEW cs, NEW st, NEW rg, NEW n, NEW m, NEW env,
           Reported(pr, ds, cs),
           StackOK(pr, ds, cs, st),
           Len(st) > 0,
           Carries(m, st),
           n \in Reached(pr[st[Len(st)].fi].func),
           KeepsBelow(pr, ds, st, rg, m),
           Agrees(pr[st[Len(st)].fi], m, n, env)
    PROVE  AllAsSource(pr, MovedOn(st, n, m), m.regs) = SourceOf(pr, st, rg, n, env, m)
<1> DEFINE l == Len(st)
           t == MovedOn(st, n, m)
           f == pr[st[Len(st)].fi]
<1>1. l \in Nat /\ l > 0
  BY ListIs DEF StackOK
<1>2. IsMovedOn(st, n, m, MovedOn(st, n, m))
  <2> HIDE DEF l, t, f
  <2> QED
    BY MovedOnOK
<1> HIDE DEF t
<1>3. ASSUME NEW k \in 1..l
      PROVE  /\ t[k].fi = st[k].fi /\ t[k].pc = (IF k = l THEN n ELSE st[k].pc)
             /\ t[k].meet = (IF k = l THEN <<>> ELSE st[k].meet) /\ t[k].words = m.frames[k]
  <2>1. t[k] = [fi |-> st[k].fi, pc |-> IF k = l THEN n ELSE st[k].pc,
                meet |-> IF k = l THEN <<>> ELSE st[k].meet, words |-> m.frames[k]]
    BY <1>2 DEF t, IsMovedOn
  <2> HIDE DEF l
  <2> QED
    BY <2>1
<1>4. ASSUME NEW k \in 1..l
      PROVE  AsSource(pr[t[k].fi], t[k], m.regs, k = l) =
                IF k = l THEN Seen(pr, st, m, k, n, env)
                ELSE Seen(pr, st, m, k, st[k].pc, AsSource(pr[st[k].fi], st[k], rg, FALSE).env)
  <2>1. CASE k = l
    <3>1. t[k].fi = st[k].fi /\ t[k].pc = n /\ t[k].meet = <<>> /\ t[k].words = m.frames[k]
          /\ st[k].fi = st[Len(st)].fi
      BY <1>3, <2>1
    <3>2. IsMachine(m) /\ m.frames[TopOf(m)] = t[k].words
      BY <2>1, <3>1 DEF Carries
    <3>3. \A x \in f.alive[n] : HeldBy(f, t[k], m.regs, x) = env[x]
      <4> TAKE x \in f.alive[n]
      <4>1. IsKept(f, m, x) /\ ValueIn(f, m, x) = env[x]
        BY DEF Agrees
      <4> HIDE DEF f
      <4> QED
        BY <3>1, <3>2, <4>1, TopHeld
    <3>4. AliveIn(f, n, TRUE) = f.alive[n]
      BY DEF AliveIn
    <3>5. [x \in AliveIn(f, n, TRUE) |-> HeldBy(f, t[k], m.regs, x)] = env
      BY <3>3, <3>4 DEF Agrees
    <3>6. AsSource(f, t[k], m.regs, TRUE) =
            [fi |-> st[k].fi, pc |-> n, env |-> [x \in AliveIn(f, n, TRUE) |-> HeldBy(f, t[k], m.regs, x)],
             arr |-> [i \in 0..(f.arraysize - 1) |-> m.frames[k][i]]]
      BY <3>1 DEF AsSource
    <3>7. (k = l) = TRUE /\ pr[t[k].fi] = f /\ pr[st[k].fi] = f
      BY <2>1, <3>1
    <3> HIDE DEF f
    <3>8. AsSource(pr[t[k].fi], t[k], m.regs, TRUE) = Seen(pr, st, m, k, n, env)
      BY <3>5, <3>6, <3>7 DEF Seen
    <3> QED
      BY <2>1, <3>7, <3>8
  <2>2. CASE k # l
    <3>1. k \in Waiting(st) /\ (k = l) = FALSE
      BY <1>1, <2>2 DEF Waiting
    <3>2. t[k].fi = st[k].fi /\ t[k].pc = st[k].pc /\ t[k].meet = st[k].meet /\ t[k].words = m.frames[k]
      BY <1>3, <2>2
    <3>3. AsSource(pr[st[k].fi], t[k], m.regs, FALSE) =
              Seen(pr, st, m, k, st[k].pc, AsSource(pr[st[k].fi], st[k], rg, FALSE).env)
      <4> DEFINE fr == t[k]
      <4>1. fr.fi = st[k].fi /\ fr.pc = st[k].pc /\ fr.meet = st[k].meet /\ fr.words = m.frames[k]
        BY <3>2
      <4> HIDE DEF fr, l, f
      <4>3. k \in Waiting(st)
        BY <3>1
      <4>2. Unnoticed(pr, st, rg, m, k, fr)
        BY <4>1, <4>3, BelowSame
      <4> QED
        BY <4>2 DEF fr, Unnoticed
    <3> QED
      BY <2>2, <3>1, <3>2, <3>3
  <2> QED
    BY <2>1, <2>2
<1>5. AllAsSource(pr, t, m.regs) = [k \in 1..l |-> AsSource(pr[t[k].fi], t[k], m.regs, k = l)]
  <2>1. Len(t) = l
    BY <1>2 DEF t, IsMovedOn
  <2> QED
    BY <2>1 DEF AllAsSource
<1>6. SourceOf(pr, st, rg, n, env, m) =
         [k \in 1..l |->
             IF k = l THEN Seen(pr, st, m, k, n, env)
             ELSE Seen(pr, st, m, k, st[k].pc, AsSource(pr[st[k].fi], st[k], rg, FALSE).env)]
  BY DEF SourceOf
<1> QED
  BY <1>4, <1>5, <1>6 DEF t

\* the calls fs as the source sees them, the last in line n with the scalars env
Continued(fs, n, env) ==
    [fs EXCEPT ![Len(fs)] = [fi |-> fs[Len(fs)].fi, pc |-> n, env |-> env,
                             arr |-> fs[Len(fs)].arr]]

\* what the source sees of the calls st when the arrays are those of m
WithArrays(pr, st, rg, m) ==
    [k \in 1..Len(st) |->
        Seen(pr, st, m, k, st[k].pc, AsSource(pr[st[k].fi], st[k], rg, k = Len(st)).env)]

\* Only the last of the calls goes on.
LEMMA ContinuedIs ==
    ASSUME NEW pr, NEW st, NEW rg, NEW n, NEW m, NEW env,
           IsList(st),
           Len(st) > 0
    PROVE  SourceOf(pr, st, rg, n, env, m) = Continued(WithArrays(pr, st, rg, m), n, env)
<1> DEFINE l == Len(st)
           fs == WithArrays(pr, st, rg, m)
           e(k) == AsSource(pr[st[k].fi], st[k], rg, k = l).env
<1>1. l \in Nat /\ l > 0 /\ l \in 1..l
  BY ListIs
<1>2. fs = [k \in 1..l |-> fs[k]] /\ \A k \in 1..l : fs[k] = Seen(pr, st, m, k, st[k].pc, e(k))
  BY DEF WithArrays
<1>3. SourceOf(pr, st, rg, n, env, m) =
        [k \in 1..l |-> IF k = l THEN Seen(pr, st, m, k, n, env)
                        ELSE Seen(pr, st, m, k, st[k].pc, AsSource(pr[st[k].fi], st[k], rg, FALSE).env)]
  BY DEF SourceOf
<1> HIDE DEF l, fs
<1>4. Len(fs) = l /\ DOMAIN fs = 1..l
  BY <1>1, <1>2, FunctionList
<1>5. Continued(fs, n, env) =
        [k \in 1..l |-> IF k = l THEN [fi |-> fs[l].fi, pc |-> n, env |-> env, arr |-> fs[l].arr]
                        ELSE fs[k]]
  BY <1>1, <1>2, <1>4 DEF Continued
<1>6. Seen(pr, st, m, l, n, env) = [fi |-> fs[l].fi, pc |-> n, env |-> env, arr |-> fs[l].arr]
  <2> DEFINE a == [i \in 0..(pr[st[l].fi].arraysize - 1) |-> m.frames[l][i]]
  <2>1. fs[l] = [fi |-> st[l].fi, pc |-> st[l].pc, env |-> e(l), arr |-> a]
    BY <1>1, <1>2 DEF Seen
  <2>2. Seen(pr, st, m, l, n, env) = [fi |-> st[l].fi, pc |-> n, env |-> env, arr |-> a]
    BY DEF Seen
  <2> HIDE DEF a
  <2> QED
    BY <2>1, <2>2
<1>7. ASSUME NEW k \in 1..l, k # l
      PROVE  fs[k] = Seen(pr, st, m, k, st[k].pc, AsSource(pr[st[k].fi], st[k], rg, FALSE).env)
  <2>1. (k = l) = FALSE
    BY <1>7
  <2> QED
    BY <1>2, <2>1
<1> QED
  BY <1>3, <1>5, <1>6, <1>7 DEF fs

\* the array of call k of st in m, and in its own frame
ArrayNow(pr, st, m, k) == [i \in 0..(pr[st[k].fi].arraysize - 1) |-> m.frames[k][i]]
ArrayThen(pr, st, k)   == [i \in 0..(pr[st[k].fi].arraysize - 1) |-> st[k].words[i]]

\* only the array is that of m
SeenAt(pr, st, rg, m, k) ==
    LET fr == AllAsSource(pr, st, rg)[k]
    IN  /\ fr = [fi |-> st[k].fi, pc |-> st[k].pc, env |-> fr.env, arr |-> ArrayThen(pr, st, k)]
        /\ fr.env = AsSource(pr[st[k].fi], st[k], rg, k = Len(st)).env
        /\ WithArrays(pr, st, rg, m)[k] = [fr EXCEPT !.arr = ArrayNow(pr, st, m, k)]
        /\ WithArrays(pr, st, rg, m)[k] =
              [fi |-> st[k].fi, pc |-> st[k].pc, env |-> fr.env, arr |-> ArrayNow(pr, st, m, k)]

\* The source sees the arrays of m.
LEMMA WithArraysIs ==
    ASSUME NEW pr, NEW st, NEW rg, NEW m
    PROVE  /\ DOMAIN AllAsSource(pr, st, rg) = 1..Len(st)
           /\ AllAsSource(pr, st, rg) = [k \in 1..Len(st) |-> AllAsSource(pr, st, rg)[k]]
           /\ WithArrays(pr, st, rg, m) = [k \in 1..Len(st) |-> WithArrays(pr, st, rg, m)[k]]
           /\ \A k \in 1..Len(st) : SeenAt(pr, st, rg, m, k)
<1> DEFINE fs == AllAsSource(pr, st, rg)
           gs == WithArrays(pr, st, rg, m)
<1>1. /\ DOMAIN fs = 1..Len(st) /\ fs = [k \in 1..Len(st) |-> fs[k]]
      /\ \A k \in 1..Len(st) : fs[k] = AsSource(pr[st[k].fi], st[k], rg, k = Len(st))
  BY DEF AllAsSource
<1>2. /\ gs = [k \in 1..Len(st) |-> gs[k]]
      /\ \A k \in 1..Len(st) :
            gs[k] = Seen(pr, st, m, k, st[k].pc, AsSource(pr[st[k].fi], st[k], rg, k = Len(st)).env)
  BY DEF WithArrays
<1> HIDE DEF fs, gs
<1>3. ASSUME NEW k \in 1..Len(st)
      PROVE  SeenAt(pr, st, rg, m, k)
  <2> DEFINE fr == fs[k]
             a  == [i \in 0..(pr[st[k].fi].arraysize - 1) |-> m.frames[k][i]]
             b  == [i \in 0..(pr[st[k].fi].arraysize - 1) |-> st[k].words[i]]
             A  == AsSource(pr[st[k].fi], st[k], rg, k = Len(st))
  <2>1. A = [fi |-> st[k].fi, pc |-> st[k].pc, env |-> A.env, arr |-> b]
    BY DEF AsSource
  <2>2. gs[k] = [fi |-> st[k].fi, pc |-> st[k].pc, env |-> A.env, arr |-> a]
    BY <1>2 DEF Seen
  <2>3. fr = A
    BY <1>1
  <2> HIDE DEF A, a, b, fr
  <2>4. fr.env = A.env /\ fr = [fi |-> st[k].fi, pc |-> st[k].pc, env |-> fr.env, arr |-> b]
        /\ gs[k] = [fi |-> st[k].fi, pc |-> st[k].pc, env |-> fr.env, arr |-> a]
        /\ gs[k] = [fr EXCEPT !.arr = a]
    BY <2>1, <2>2, <2>3
  <2> QED
    BY <2>4 DEF A, a, b, fr, SeenAt, ArrayNow, ArrayThen, fs, gs
<1> QED
  BY <1>1, <1>2, <1>3 DEF fs, gs

\* no word of an array differs
SameArrays(pr, st, m) ==
    \A k \in 1..Len(st) : \A i \in 0..(pr[st[k].fi].arraysize - 1) :
        m.frames[k][i] = st[k].words[i]

\* Where no word of an array differs, the source sees the arrays it saw.
LEMMA ArraysSame ==
    ASSUME NEW pr, NEW st, NEW rg, NEW m,
           SameArrays(pr, st, m)
    PROVE  WithArrays(pr, st, rg, m) = AllAsSource(pr, st, rg)
<1> DEFINE fs == AllAsSource(pr, st, rg)
           gs == WithArrays(pr, st, rg, m)
<1>1. ASSUME NEW k \in 1..Len(st) PROVE gs[k] = fs[k]
  <2> DEFINE a == [i \in 0..(pr[st[k].fi].arraysize - 1) |-> m.frames[k][i]]
             b == [i \in 0..(pr[st[k].fi].arraysize - 1) |-> st[k].words[i]]
  <2>0. SeenAt(pr, st, rg, m, k)
    BY WithArraysIs
  <2>1. /\ fs[k] = [fi |-> st[k].fi, pc |-> st[k].pc, env |-> fs[k].env, arr |-> b]
        /\ gs[k] = [fi |-> st[k].fi, pc |-> st[k].pc, env |-> fs[k].env, arr |-> a]
    BY <2>0 DEF SeenAt, ArrayNow, ArrayThen
  <2>2. a = b
    BY DEF SameArrays
  <2> QED
    BY <2>1, <2>2
<1>2. fs = [k \in 1..Len(st) |-> fs[k]] /\ gs = [k \in 1..Len(st) |-> gs[k]]
  BY WithArraysIs
<1> HIDE DEF fs, gs
<1>3. fs = gs
  BY <1>1, <1>2
<1> QED
  BY <1>3 DEF fs, gs

\* word o of the array of call k0 has become v, and no other differs
OneSet(pr, st, m, k0, o, v) ==
    /\ k0 \in 1..Len(st)
    /\ o \in 0..(pr[st[k0].fi].arraysize - 1)
    /\ \A k \in 1..Len(st) : \A i \in 0..(pr[st[k].fi].arraysize - 1) :
          m.frames[k][i] = IF k = k0 /\ i = o THEN v ELSE st[k].words[i]

\* what the source sees of the arrays of m: word o of array k0 is v
ArraysBecome(pr, st, rg, m, k0, o, v) ==
    WithArrays(pr, st, rg, m) = [AllAsSource(pr, st, rg) EXCEPT ![k0].arr[o] = v]

\* An element of an array is set.
LEMMA ArraysSet ==
    ASSUME NEW pr, NEW st, NEW rg, NEW m, NEW k0, NEW o, NEW v,
           OneSet(pr, st, m, k0, o, v)
    PROVE  ArraysBecome(pr, st, rg, m, k0, o, v)
<1> DEFINE fs == AllAsSource(pr, st, rg)
           gs == WithArrays(pr, st, rg, m)
           hs == [fs EXCEPT ![k0].arr[o] = v]
           l  == Len(st)
<1>1. fs = [k \in 1..l |-> fs[k]] /\ gs = [k \in 1..l |-> gs[k]] /\ DOMAIN fs = 1..l
  BY WithArraysIs
<1>5. /\ k0 \in 1..Len(st)
      /\ o \in 0..(pr[st[k0].fi].arraysize - 1)
      /\ \A k \in 1..Len(st) : \A i \in 0..(pr[st[k].fi].arraysize - 1) :
            m.frames[k][i] = IF k = k0 /\ i = o THEN v ELSE st[k].words[i]
  BY DEF OneSet
<1>2. ASSUME NEW k \in 1..l PROVE gs[k] = hs[k]
  <2> DEFINE a == [i \in 0..(pr[st[k].fi].arraysize - 1) |-> m.frames[k][i]]
             b == [i \in 0..(pr[st[k].fi].arraysize - 1) |-> st[k].words[i]]
             fr == fs[k]
  <2>0. SeenAt(pr, st, rg, m, k)
    BY WithArraysIs
  <2>1. /\ fr = [fi |-> st[k].fi, pc |-> st[k].pc, env |-> fr.env, arr |-> b]
        /\ gs[k] = [fi |-> st[k].fi, pc |-> st[k].pc, env |-> fr.env, arr |-> a]
        /\ gs[k] = [fr EXCEPT !.arr = a]
    BY <2>0 DEF SeenAt, ArrayNow, ArrayThen
  <2>2. CASE k = k0
    <3>1. a = [b EXCEPT ![o] = v]
      BY <1>5, <2>2
    <3>2. hs[k] = [fr EXCEPT !.arr[o] = v]
      BY <1>1, <1>5, <2>2
    <3> HIDE DEF a, b, fr, gs, hs, l
    <3>3. fr.arr = b
      BY <2>1
    <3>4. [fr EXCEPT !.arr[o] = v] = [fr EXCEPT !.arr = [b EXCEPT ![o] = v]]
      BY <3>3
    <3> QED
      BY <2>1, <3>1, <3>2, <3>4
  <2>3. CASE k # k0
    <3>1. a = b
      BY <1>5, <2>3
    <3>2. hs[k] = fr
      BY <1>1, <2>3
    <3> HIDE DEF a, b, fr, gs, hs, l
    <3> QED
      BY <2>1, <3>1, <3>2
  <2> QED
    BY <2>2, <2>3
<1>3. hs = [k \in 1..l |-> hs[k]]
  BY <1>1
<1> HIDE DEF fs, gs, hs
<1>4. gs = hs
  BY <1>1, <1>2, <1>3
<1> QED
  BY <1>4 DEF fs, gs, hs, ArraysBecome

\* The last call's array is cleared.
LEMMA ArraysFilled ==
    ASSUME NEW pr, NEW st, NEW rg, NEW m,
           Len(st) \in 1..Len(st),
           \A k \in 1..Len(st) : \A i \in 0..(pr[st[k].fi].arraysize - 1) :
              m.frames[k][i] = IF k = Len(st) THEN 0 ELSE st[k].words[i]
    PROVE  WithArrays(pr, st, rg, m) =
              [AllAsSource(pr, st, rg) EXCEPT ![Len(st)].arr =
                  [i \in DOMAIN AllAsSource(pr, st, rg)[Len(st)].arr |-> 0]]
<1> DEFINE fs == AllAsSource(pr, st, rg)
           gs == WithArrays(pr, st, rg, m)
           l  == Len(st)
           z  == [i \in DOMAIN fs[l].arr |-> 0]
           hs == [fs EXCEPT ![l].arr = z]
<1>1. fs = [k \in 1..l |-> fs[k]] /\ gs = [k \in 1..l |-> gs[k]] /\ DOMAIN fs = 1..l
  BY WithArraysIs
<1>2. ASSUME NEW k \in 1..l PROVE gs[k] = hs[k]
  <2> DEFINE a == [i \in 0..(pr[st[k].fi].arraysize - 1) |-> m.frames[k][i]]
             b == [i \in 0..(pr[st[k].fi].arraysize - 1) |-> st[k].words[i]]
             fr == fs[k]
  <2>0. SeenAt(pr, st, rg, m, k)
    BY WithArraysIs
  <2>1. /\ fr = [fi |-> st[k].fi, pc |-> st[k].pc, env |-> fr.env, arr |-> b]
        /\ gs[k] = [fi |-> st[k].fi, pc |-> st[k].pc, env |-> fr.env, arr |-> a]
        /\ gs[k] = [fr EXCEPT !.arr = a]
    BY <2>0 DEF SeenAt, ArrayNow, ArrayThen
  <2>2. CASE k = l
    <3>1. fs[l].arr = b
      <4> HIDE DEF a, b, fs
      <4> QED
        BY <2>1, <2>2 DEF fr
    <3>2. a = z
      <4>1. z = [i \in DOMAIN b |-> 0]
        BY <3>1
      <4> HIDE DEF z
      <4> QED
        BY <2>2, <4>1
    <3>3. hs[k] = [fr EXCEPT !.arr = z]
      BY <1>1, <2>2
    <3> HIDE DEF a, b, fr, gs, hs, l, z
    <3> QED
      BY <2>1, <3>2, <3>3
  <2>3. CASE k # l
    <3>1. a = b
      BY <2>3
    <3>2. hs[k] = fr
      BY <1>1, <2>3
    <3> HIDE DEF a, b, fr, gs, hs, l
    <3> QED
      BY <2>1, <3>1, <3>2
  <2> QED
    BY <2>2, <2>3
<1>3. hs = [k \in 1..l |-> hs[k]]
  BY <1>1
<1> HIDE DEF fs, gs, hs, z
<1>4. gs = hs
  BY <1>1, <1>2, <1>3
<1> QED
  BY <1>4 DEF fs, gs, hs, z

-------------------------------------------------------------------------------
(* The steps of the running function.                                      *)

\* the function that runs, its line, and its scalars as the source sees them
TopF(pr, st)       == pr[st[Len(st)].fi]
TopS(st)           == st[Len(st)].pc
TopStmt(pr, st)    == TopF(pr, st).func.stmts[TopS(st)]
TopEnv(pr, st, rg) == AllAsSource(pr, st, rg)[Len(st)].env

\* the program runs
Going(pr, ds, cs, st, rg, gl, ga) ==
    /\ Reported(pr, ds, cs)
    /\ StackOK(pr, ds, cs, st)
    /\ Len(st) > 0
    /\ st[Len(st)].meet = <<>>
    /\ StoreOK(rg, gl, ga)

\* m is the machine of the calls st
TopIs(pr, cs, st, m) ==
    /\ IsMachine(m) /\ TopOf(m) = Len(st) /\ DOMAIN m.frames = 1..Len(st)
    /\ Len(st) \in Nat /\ Len(st) \in 1..Len(st)
    /\ \A k \in 1..Len(st) : m.frames[k] = st[k].words
    /\ FunctionOK(TopF(pr, st)) /\ TopS(st) \in Reached(TopF(pr, st).func)
    /\ cs[st[Len(st)].fi] \in Nat
    /\ DOMAIN m.frames[TopOf(m)] = 0..(TopF(pr, st).spillsize + cs[st[Len(st)].fi] - 1)
    /\ FrameOf(pr, cs, st[Len(st)])

\* A program that runs has a machine, and a last call that is in a line it reaches.
LEMMA GoingIs ==
    ASSUME NEW pr, NEW ds, NEW cs, NEW st, NEW rg, NEW gl, NEW ga,
           Going(pr, ds, cs, st, rg, gl, ga)
    PROVE  LET m == MachineOf(st, rg, gl, ga)
           IN  TopIs(pr, cs, st, m) /\ m.regs = rg /\ m.glob = gl /\ m.garr = ga
<1> DEFINE l == Len(st)
           m == MachineOf(st, rg, gl, ga)
<1>1. l \in Nat /\ l \in 1..l /\ IsList(st)
  BY ListIs DEF Going, StackOK
<1>2. \A k \in 1..l : FrameOf(pr, cs, st[k])
  BY DEF Going, StackOK
<1>3. \A k \in 1..l : st[k].words \in [DOMAIN st[k].words -> Nat]
  BY <1>2 DEF FrameOf
<1>4. /\ IsMachine(m) /\ TopOf(m) = l /\ DOMAIN m.frames = 1..l
      /\ \A k \in 1..l : m.frames[k] = st[k].words
      /\ m.regs = rg /\ m.glob = gl /\ m.garr = ga
  <2>1. StoreOK(rg, gl, ga) /\ Len(st) > 0
    BY DEF Going
  <2> QED
    BY <1>1, <1>3, <2>1, MachineIs
<1>5. FrameOf(pr, cs, st[l])
  BY <1>1, <1>2
<1>6. FunctionOK(TopF(pr, st))
  <2>1. pr \in Programs /\ st[l].fi \in DOMAIN pr
    BY <1>5 DEF Going, Reported, FrameOf
  <2> QED
    BY <2>1, FunctionIs DEF TopF
<1>7. TopS(st) \in Reached(TopF(pr, st).func) /\ cs[st[l].fi] \in Nat
      /\ DOMAIN st[l].words = 0..(TopF(pr, st).spillsize + cs[st[l].fi] - 1)
  BY <1>5 DEF TopF, TopS, FrameOf, Going, Reported
<1> HIDE DEF m
<1>8. m.frames[TopOf(m)] = st[l].words
  BY <1>1, <1>4
<1> QED
  BY <1>1, <1>4, <1>5, <1>6, <1>7, <1>8 DEF TopIs, m

\* What is alive is what the source says.
LEMMA AliveNow ==
    ASSUME NEW pr, NEW ds, NEW cs, NEW st, NEW rg, NEW gl, NEW ga,
           Going(pr, ds, cs, st, rg, gl, ga)
    PROVE  \A x \in TopF(pr, st).alive[TopS(st)] :
              /\ IsKept(TopF(pr, st), MachineOf(st, rg, gl, ga), x)
              /\ TopEnv(pr, st, rg)[x] = ValueIn(TopF(pr, st), MachineOf(st, rg, gl, ga), x)
<1> DEFINE l == Len(st)
           m == MachineOf(st, rg, gl, ga)
           f == TopF(pr, st)
           s == TopS(st)
           fr == st[l]
<1>1. TopIs(pr, cs, st, m) /\ m.regs = rg
  BY GoingIs
<1>2. /\ FunctionOK(f) /\ s \in Reached(f.func) /\ cs[fr.fi] \in Nat
      /\ IsMachine(m) /\ m.frames[TopOf(m)] = fr.words /\ l \in 1..l
      /\ DOMAIN m.frames[TopOf(m)] = 0..(f.spillsize + cs[fr.fi] - 1)
      /\ fr.meet = <<>>
  BY <1>1 DEF TopIs, Going
<1>3. TopEnv(pr, st, rg) = [x \in f.alive[s] |-> HeldBy(f, fr, rg, x)]
  <2>1. AllAsSource(pr, st, rg)[l] = AsSource(pr[st[l].fi], st[l], rg, TRUE)
    BY <1>2 DEF AllAsSource
  <2> QED
    BY <2>1 DEF AsSource, AliveIn, TopF, TopS, TopEnv
<1> HIDE DEF m, f, s, fr
<1>4. ASSUME NEW x \in f.alive[s] PROVE IsKept(f, m, x) /\ HeldBy(f, fr, rg, x) = ValueIn(f, m, x)
  <2>1. IsKept(f, m, x)
    BY <1>2, AliveKept
  <2> QED
    BY <1>1, <1>2, <2>1, TopHeld
<1> QED
  BY <1>3, <1>4 DEF m, f, s, fr

-------------------------------------------------------------------------------
\* the scalars alive at line n, x being given the value v
BoundTo(f, env, n, x, v) == [y \in f.alive[n] |-> IF y = x THEN v ELSE env[y]]

\* the last of the calls st goes on in line n, where the machine is m: x has
\* been given the value v
StepOK(pr, ds, cs, st, rg, gl, n, m, x, v) ==
    /\ IsMachine(m)
    /\ StackOK(pr, ds, cs, MovedOn(st, n, m))
    /\ StoreOK(m.regs, m.glob, m.garr)
    /\ Len(MovedOn(st, n, m)) = Len(st)
    /\ MovedOn(st, n, m)[Len(st)].meet = <<>>
    /\ AllAsSource(pr, MovedOn(st, n, m), m.regs) =
         Continued(WithArrays(pr, st, rg, m), n, BoundTo(TopF(pr, st), TopEnv(pr, st, rg), n, x, v))
    /\ m.glob = IF x = Glob THEN v ELSE gl

\* A step goes on as the source does if every scalar that is alive in the next
\* line has the value it should have.
LEMMA StepIs ==
    ASSUME NEW pr, NEW ds, NEW cs, NEW st, NEW rg, NEW gl, NEW ga, NEW n, NEW m, NEW x, NEW v,
           Going(pr, ds, cs, st, rg, gl, ga),
           Carries(m, st),
           n \in Reached(TopF(pr, st).func),
           KeepsBelow(pr, ds, st, rg, m),
           \A y \in TopF(pr, st).alive[n] :
              /\ IsKept(TopF(pr, st), m, y)
              /\ ValueIn(TopF(pr, st), m, y) = IF y = x THEN v ELSE TopEnv(pr, st, rg)[y],
           m.glob = IF x = Glob THEN v ELSE gl
    PROVE  StepOK(pr, ds, cs, st, rg, gl, n, m, x, v)
<1> DEFINE f == TopF(pr, st)
           env == BoundTo(f, TopEnv(pr, st, rg), n, x, v)
           l == Len(st)
           t == MovedOn(st, n, m)
<1>1. Reported(pr, ds, cs) /\ StackOK(pr, ds, cs, st) /\ Len(st) > 0 /\ IsList(st)
  BY DEF Going, StackOK
<1>2. env = [y \in f.alive[n] |-> env[y]]
      /\ \A y \in f.alive[n] : IsKept(f, m, y) /\ ValueIn(f, m, y) = env[y]
  BY DEF BoundTo
<1> HIDE DEF env
<1>3. n \in Reached(pr[st[Len(st)].fi].func)
  BY DEF TopF
<1>4. StackOK(pr, ds, cs, t) /\ IsMovedOn(st, n, m, t) /\ t[Len(st)].meet = <<>>
      /\ StoreOK(m.regs, m.glob, m.garr)
  BY <1>1, <1>3, MovedOnOK
<1>5. AllAsSource(pr, t, m.regs) = SourceOf(pr, st, rg, n, env, m)
  <2>1. Agrees(pr[st[Len(st)].fi], m, n, env)
    BY <1>2 DEF TopF, Agrees
  <2> QED
    BY <1>1, <1>3, <2>1, MovedSource
<1>6. SourceOf(pr, st, rg, n, env, m) = Continued(WithArrays(pr, st, rg, m), n, env)
  BY <1>1, ContinuedIs
<1>7. IsMachine(m) /\ Len(t) = l
  BY <1>4 DEF Carries, IsMovedOn
<1> QED
  BY <1>4, <1>5, <1>6, <1>7 DEF StepOK, env

-------------------------------------------------------------------------------
\* A statement that gives a value to e, or to nothing.
LEMMA WroteStep ==
    ASSUME NEW pr, NEW ds, NEW cs, NEW st, NEW rg, NEW gl, NEW ga, NEW n, NEW m, NEW e, NEW v,
           Going(pr, ds, cs, st, rg, gl, ga),
           n \in CfgNext(TopF(pr, st).func, TopS(st)),
           Wrote(TopF(pr, st), MachineOf(st, rg, gl, ga), m, e, v),
           \/ TopStmt(pr, st).dest = e /\ (e \in {NoVar, Glob} \/ e \in TopF(pr, st).alive[n])
           \/ e = NoVar /\ TopStmt(pr, st).dest \notin {Glob} \cup TopF(pr, st).alive[n]
    PROVE  /\ StepOK(pr, ds, cs, st, rg, gl, n, m, TopStmt(pr, st).dest, v)
           /\ SameArrays(pr, st, m)
           /\ m.garr = ga
<1> DEFINE f == TopF(pr, st)
           s == TopS(st)
           l == Len(st)
           x == TopStmt(pr, st).dest
           m0 == MachineOf(st, rg, gl, ga)
           c == cs[st[l].fi]
           env == TopEnv(pr, st, rg)
<1>1. TopIs(pr, cs, st, m0) /\ m0.regs = rg /\ m0.glob = gl /\ m0.garr = ga
  BY GoingIs
<1>2. \A y \in f.alive[s] : IsKept(f, m0, y) /\ env[y] = ValueIn(f, m0, y)
  BY AliveNow
<1>3. Reported(pr, ds, cs) /\ StackOK(pr, ds, cs, st)
  BY DEF Going
<1>4. /\ FunctionOK(f) /\ s \in Reached(f.func) /\ c \in Nat
      /\ IsMachine(m0) /\ TopOf(m0) = l /\ DOMAIN m0.frames = 1..l
      /\ DOMAIN m0.frames[TopOf(m0)] = 0..(f.spillsize + c - 1)
      /\ \A k \in 1..l : m0.frames[k] = st[k].words
      /\ l \in 1..l /\ l \in Nat
      /\ x = f.func.stmts[s].dest
  BY <1>1 DEF TopIs, TopStmt
<1>5. n \in Reached(f.func)
  BY <1>4 DEF FunctionOK
<1>6. IsMachine(m) /\ SameShape(m0, m)
  BY DEF Wrote
<1> HIDE DEF m0, f, s, c, env, x
<1>7. Carries(m, st)
  BY <1>4, <1>6 DEF Carries, SameShape, TopOf
<1>8. (e \in {NoVar, Glob} \/ e \in f.alive[n])
      /\ (f.func.stmts[s].dest \in {e} \cup Unpooled \/ f.func.stmts[s].dest \notin f.alive[n])
  BY <1>4 DEF f, x
<1>9. ASSUME NEW y \in f.alive[n]
      PROVE  IsKept(f, m, y) /\ ValueIn(f, m, y) = IF y = x THEN v ELSE env[y]
  <2>1. /\ ValueIn(f, m, y) = IF y = e THEN v ELSE ValueIn(f, m0, y)
        /\ IsKept(f, m, y)
        /\ y # e => y \in f.alive[s]
    BY <1>4, <1>8, WroteBinds DEF f, m0, s
  <2>2. y \notin Unpooled
    BY <1>4, <1>5 DEF FunctionOK
  <2>3. y = e <=> y = x
    BY <2>2, Kinds DEF f, x
  <2> QED
    BY <1>2, <2>1, <2>3
<1>10. e \notin Unpooled => PlaceOK(f, e)
  <2>1. e \notin Unpooled => e \in f.alive[n]
    BY <1>8, Kinds
  <2> QED
    BY <1>4, <1>5, <2>1 DEF FunctionOK
<1>11. f.arraysize \in Nat
  BY <1>4 DEF FunctionOK
<1>12. /\ \A r \in Regs \ Scratch :
             m.regs[r] = IF e \notin Unpooled /\ f.vreg[e] = InReg(r) THEN v ELSE rg[r]
       /\ \A k \in 1..l : \A w \in DOMAIN st[k].words :
             m.frames[k][w] = IF e \notin Unpooled /\ k = l /\ f.vreg[e] = OnStack(w)
                              THEN v ELSE st[k].words[w]
       /\ m.glob = IF e = Glob THEN v ELSE gl
       /\ m.garr = ga
  <2>1. /\ \A r \in Regs \ Scratch :
             m.regs[r] = IF e \notin Unpooled /\ f.vreg[e] = InReg(r) THEN v ELSE m0.regs[r]
        /\ \A k \in DOMAIN m0.frames : \A w \in DOMAIN m0.frames[k] :
             m.frames[k][w] = IF e \notin Unpooled /\ k = TopOf(m0) /\ f.vreg[e] = OnStack(w)
                              THEN v ELSE m0.frames[k][w]
        /\ m.glob = IF e = Glob THEN v ELSE m0.glob
        /\ m.garr = m0.garr
    BY DEF Wrote, f, m0
  <2> QED
    BY <1>1, <1>4, <2>1
<1>13. Direct(f) \subseteq ds[pr[st[l].fi].name] /\ f = pr[st[l].fi]
  <2>1. FrameOf(pr, cs, st[l])
    BY <1>1 DEF TopIs
  <2> QED
    BY <1>3, <2>1 DEF Reported, FrameOf, f, TopF
<1>14. KeepsBelow(pr, ds, st, rg, m)
  <2>1. ASSUME NEW r \in Regs \ (Scratch \cup ds[pr[st[l].fi].name]) PROVE m.regs[r] = rg[r]
    <3>1. ~ (e \notin Unpooled /\ f.vreg[e] = InReg(r))
      BY <1>10, <1>13, Kinds DEF PlaceOK
    <3> QED
      BY <1>12, <3>1
  <2>2. ASSUME NEW k \in 1..(l - 1), NEW w \in DOMAIN st[k].words
        PROVE  m.frames[k][w] = st[k].words[w]
    <3>1. k \in 1..l /\ k # l
      BY <1>4
    <3> QED
      BY <1>12, <3>1
  <2> QED
    BY <2>1, <2>2 DEF KeepsBelow
<1>15. SameArrays(pr, st, m)
  <2> SUFFICES ASSUME NEW k \in 1..l, NEW i \in 0..(pr[st[k].fi].arraysize - 1)
               PROVE  m.frames[k][i] = st[k].words[i]
    BY DEF SameArrays
  <2>1. FrameOf(pr, cs, st[k]) /\ FunctionOK(pr[st[k].fi]) /\ cs[st[k].fi] \in Nat
    BY <1>3, FunctionIs DEF StackOK, FrameOf, Reported
  <2>2. i \in DOMAIN st[k].words
    BY <2>1 DEF FrameOf, FunctionOK
  <2>3. k = l => ~ (e \notin Unpooled /\ f.vreg[e] = OnStack(i))
    <3>1. ASSUME e \notin Unpooled, f.vreg[e] = OnStack(i), k = l PROVE FALSE
      <4>1. PICK j \in f.arraysize..(f.spillsize - 1) : f.vreg[e] = OnStack(j)
        BY <1>10, <3>1, Kinds DEF PlaceOK
      <4>4. OnStack(i) = OnStack(j)
        BY <3>1, <4>1
      <4>2. i = j
        BY <4>4 DEF OnStack
      <4>3. i \in 0..(f.arraysize - 1)
        BY <1>13, <3>1
      <4> QED
        BY <1>11, <4>1, <4>2, <4>3
    <3> QED
      BY <3>1
  <2> QED
    BY <1>12, <2>2, <2>3
<1>16. m.glob = IF x = Glob THEN v ELSE gl
  <2>1. x = Glob <=> e = Glob
    BY Kinds DEF x
  <2> QED
    BY <1>12, <2>1
<1>17. StepOK(pr, ds, cs, st, rg, gl, n, m, x, v)
  <2>1. /\ n \in Reached(TopF(pr, st).func)
        /\ \A y \in TopF(pr, st).alive[n] :
              /\ IsKept(TopF(pr, st), m, y)
              /\ ValueIn(TopF(pr, st), m, y) = IF y = x THEN v ELSE TopEnv(pr, st, rg)[y]
    BY <1>5, <1>9 DEF f, env
  <2> QED
    BY <1>7, <1>14, <1>16, <2>1, StepIs
<1> QED
  BY <1>12, <1>15, <1>17 DEF x

\* only scratch registers, words of arrays and the global array differ
ArraysOnly(pr, st, rg, gl, m) ==
    /\ Carries(m, st)
    /\ \A r \in Regs \ Scratch : m.regs[r] = rg[r]
    /\ \A k \in 1..Len(st) : \A w \in DOMAIN st[k].words :
         w >= pr[st[k].fi].arraysize => m.frames[k][w] = st[k].words[w]
    /\ m.glob = gl

\* A statement that gives no scalar a value.
LEMMA ArrayStep ==
    ASSUME NEW pr, NEW ds, NEW cs, NEW st, NEW rg, NEW gl, NEW ga, NEW n, NEW m, NEW v,
           Going(pr, ds, cs, st, rg, gl, ga),
           n \in CfgNext(TopF(pr, st).func, TopS(st)),
           TopStmt(pr, st).dest = NoVar,
           ArraysOnly(pr, st, rg, gl, m)
    PROVE  StepOK(pr, ds, cs, st, rg, gl, n, m, NoVar, v)
<1> DEFINE f == TopF(pr, st)
           s == TopS(st)
           l == Len(st)
           m0 == MachineOf(st, rg, gl, ga)
           c == cs[st[l].fi]
           env == TopEnv(pr, st, rg)
<1>1. TopIs(pr, cs, st, m0) /\ m0.regs = rg /\ m0.glob = gl /\ m0.garr = ga
  BY GoingIs
<1>2. \A y \in f.alive[s] : IsKept(f, m0, y) /\ env[y] = ValueIn(f, m0, y)
  BY AliveNow
<1>3. /\ FunctionOK(f) /\ s \in Reached(f.func) /\ c \in Nat
      /\ IsMachine(m0) /\ TopOf(m0) = l
      /\ DOMAIN m0.frames[TopOf(m0)] = 0..(f.spillsize + c - 1)
      /\ \A k \in 1..l : m0.frames[k] = st[k].words
      /\ l \in 1..l /\ l \in Nat
      /\ f.func.stmts[s].dest = NoVar
  BY <1>1 DEF TopIs, TopStmt
<1>4. n \in Reached(f.func) /\ f = pr[st[l].fi]
  BY <1>3 DEF FunctionOK, TopF
<1>5. IsMachine(m) /\ TopOf(m) = l /\ DOMAIN m.frames[l] = DOMAIN st[l].words
  BY <1>3 DEF ArraysOnly, Carries
<1> HIDE DEF m0, f, s, c, env
<1>6. ASSUME NEW y \in f.alive[n]
      PROVE  IsKept(f, m, y) /\ ValueIn(f, m, y) = IF y = NoVar THEN v ELSE env[y]
  <2>1. y \notin Unpooled
    BY <1>3, <1>4 DEF FunctionOK
  <2>2. y \in MeetOf(f.func, f.alive, s) \ Defs(f.func.stmts[s])
    BY <1>3, <2>1, Kinds DEF MeetOf, Defs, f, s
  <2>3. y \in f.alive[s]
    BY <1>3, <2>2 DEF FunctionOK, AliveOf
  <2>4. \A r \in AvailRegs : m.regs[r] = m0.regs[r]
    BY <1>1, RegsAre DEF ArraysOnly, m0
  <2>5. \A w \in DOMAIN m0.frames[l] : w >= f.arraysize => m.frames[l][w] = m0.frames[l][w]
    BY <1>3, <1>4 DEF ArraysOnly
  <2>6. DOMAIN m.frames[l] = 0..(f.spillsize + c - 1)
    BY <1>3, <1>5
  <2>7. ValueIn(f, m, y) = ValueIn(f, m0, y) /\ IsKept(f, m, y)
    BY <1>3, <1>5, <2>3, <2>4, <2>5, <2>6, ValueStays
  <2>8. y # NoVar
    BY <2>1, Kinds
  <2> QED
    BY <1>2, <2>3, <2>7, <2>8
<1>7. KeepsBelow(pr, ds, st, rg, m)
  <2>1. \A k \in 1..(l - 1) : k \in 1..l
    BY <1>3
  <2> QED
    BY <2>1 DEF ArraysOnly, KeepsBelow
<1>8. Carries(m, st) /\ m.glob = IF NoVar = Glob THEN v ELSE gl
  BY Kinds DEF ArraysOnly
<1>9. /\ n \in Reached(TopF(pr, st).func)
      /\ \A y \in TopF(pr, st).alive[n] :
            /\ IsKept(TopF(pr, st), m, y)
            /\ ValueIn(TopF(pr, st), m, y) = IF y = NoVar THEN v ELSE TopEnv(pr, st, rg)[y]
  BY <1>4, <1>6 DEF f, env
<1> QED
  BY <1>7, <1>8, <1>9, StepIs

\* Also one that changes nothing but scratch registers.
LEMMA NothingStep ==
    ASSUME NEW pr, NEW ds, NEW cs, NEW st, NEW rg, NEW gl, NEW ga, NEW n, NEW m, NEW v,
           Going(pr, ds, cs, st, rg, gl, ga),
           n \in CfgNext(TopF(pr, st).func, TopS(st)),
           TopStmt(pr, st).dest = NoVar,
           OnlyRegs(MachineOf(st, rg, gl, ga), m, Scratch)
    PROVE  /\ StepOK(pr, ds, cs, st, rg, gl, n, m, NoVar, v)
           /\ SameArrays(pr, st, m) /\ m.garr = ga
<1> DEFINE m0 == MachineOf(st, rg, gl, ga)
           l == Len(st)
<1>1. TopIs(pr, cs, st, m0) /\ m0.regs = rg /\ m0.glob = gl /\ m0.garr = ga
  BY GoingIs
<1> HIDE DEF m0
<1>2. /\ IsMachine(m) /\ m.frames = m0.frames /\ m.glob = gl /\ m.garr = ga
      /\ \A r \in Regs \ Scratch : m.regs[r] = rg[r]
      /\ \A k \in 1..l : m0.frames[k] = st[k].words
      /\ TopOf(m0) = l
  BY <1>1 DEF OnlyRegs, TopIs, m0
<1>3. ArraysOnly(pr, st, rg, gl, m)
  BY <1>2 DEF ArraysOnly, Carries, TopOf
<1>4. SameArrays(pr, st, m)
  BY <1>2 DEF SameArrays
<1>5. StepOK(pr, ds, cs, st, rg, gl, n, m, NoVar, v)
  BY <1>3, ArrayStep
<1> QED
  BY <1>2, <1>4, <1>5

-------------------------------------------------------------------------------
\* the value of an operand as the source sees it
SourceValue(pr, st, rg, gl, v) ==
    CASE v = NoVar   -> Literal
      [] v = Glob    -> gl
      [] v = LocArr  -> Ptr(Len(st), 0)
      [] v = GlobArr -> Ptr(0, 0)
      [] OTHER       -> TopEnv(pr, st, rg)[v]

SourceArg(pr, st, rg, gl, i) == SourceValue(pr, st, rg, gl, TopStmt(pr, st).args[i])

\* v is an operand of the statement that comes next
Operand(pr, cs, st, rg, gl, m, v) ==
    /\ IsArgument(TopF(pr, st), m, v)
    /\ ArgValue(TopF(pr, st), m, v) = SourceValue(pr, st, rg, gl, v)
    /\ v \notin Arrays => IsOperand(TopF(pr, st), m, v)
    /\ v \notin Unpooled => IsKept(TopF(pr, st), m, v) /\ v \in TopF(pr, st).alive[TopS(st)]

\* Operands have the values that the source says.
LEMMA OperandIs ==
    ASSUME NEW pr, NEW ds, NEW cs, NEW st, NEW rg, NEW gl, NEW ga, NEW i,
           Going(pr, ds, cs, st, rg, gl, ga),
           TopStmt(pr, st).op # "param",
           i \in DOMAIN TopStmt(pr, st).args
    PROVE  Operand(pr, cs, st, rg, gl, MachineOf(st, rg, gl, ga), TopStmt(pr, st).args[i])
<1> DEFINE f == TopF(pr, st)
           s == TopS(st)
           v == TopStmt(pr, st).args[i]
           m == MachineOf(st, rg, gl, ga)
           env == TopEnv(pr, st, rg)
<1>1. TopIs(pr, cs, st, m) /\ m.glob = gl
  BY GoingIs
<1>2. FunctionOK(f) /\ s \in Reached(f.func) /\ TopOf(m) = Len(st)
  BY <1>1 DEF TopIs
<1>3. \A x \in f.alive[s] : IsKept(f, m, x) /\ env[x] = ValueIn(f, m, x)
  BY AliveNow
<1> HIDE DEF m, env
<1>4. v \notin Unpooled => v \in f.alive[s]
  <2>1. v \notin Unpooled => v \in Uses(f.func.stmts[s])
    BY DEF Uses, TopStmt
  <2> QED
    BY <1>2, <2>1 DEF FunctionOK, AliveOf
<1> HIDE DEF v, f, s
<1>5. CASE v \in Unpooled
  <2>1. v \in Arrays \/ IsOperand(f, m, v)
    BY <1>5 DEF Unpooled, IsOperand
  <2>2. ArgValue(f, m, v) = SourceValue(pr, st, rg, gl, v)
    <3>0. /\ NoVar # Glob /\ NoVar # LocArr /\ NoVar # GlobArr
          /\ Glob # LocArr /\ Glob # GlobArr /\ LocArr # GlobArr
      BY Kinds DEF Arrays
    <3>1. CASE v = NoVar
      <4>1. ArgValue(f, m, v) = ValueIn(f, m, v)
        BY <3>0, <3>1 DEF ArgValue
      <4>2. SourceValue(pr, st, rg, gl, v) = Literal
        BY <3>0, <3>1 DEF SourceValue
      <4> QED
        BY <3>1, <4>1, <4>2, PlainValues
    <3>2. CASE v = Glob
      <4>1. ArgValue(f, m, v) = ValueIn(f, m, v)
        BY <3>0, <3>2 DEF ArgValue
      <4>2. SourceValue(pr, st, rg, gl, v) = gl
        BY <3>0, <3>2 DEF SourceValue
      <4> QED
        BY <1>1, <3>2, <4>1, <4>2, PlainValues
    <3>3. CASE v = LocArr
      <4>1. ArgValue(f, m, v) = Ptr(Len(st), 0)
        BY <1>2, <3>0, <3>3 DEF ArgValue
      <4>2. SourceValue(pr, st, rg, gl, v) = Ptr(Len(st), 0)
        BY <3>0, <3>3 DEF SourceValue
      <4> QED
        BY <4>1, <4>2
    <3>4. CASE v = GlobArr
      <4>1. ArgValue(f, m, v) = Ptr(0, 0)
        BY <3>0, <3>4 DEF ArgValue
      <4>2. SourceValue(pr, st, rg, gl, v) = Ptr(0, 0)
        BY <3>0, <3>4 DEF SourceValue
      <4> QED
        BY <4>1, <4>2
    <3> QED
      BY <1>5, <3>1, <3>2, <3>3, <3>4 DEF Unpooled, Arrays
  <2> QED
    BY <1>5, <2>1, <2>2 DEF Operand, IsArgument, v, f, s, m
<1>6. CASE v \notin Unpooled
  <2>1. v # NoVar /\ v # Glob /\ v # LocArr /\ v # GlobArr
    BY <1>6 DEF Unpooled, Arrays
  <2>2. IsKept(f, m, v) /\ env[v] = ValueIn(f, m, v) /\ v \in f.alive[s]
    BY <1>3, <1>4, <1>6
  <2>3. ArgValue(f, m, v) = ValueIn(f, m, v) /\ SourceValue(pr, st, rg, gl, v) = env[v]
    BY <2>1 DEF ArgValue, SourceValue, env
  <2> QED
    BY <2>2, <2>3 DEF Operand, IsArgument, IsOperand, v, f, s, m
<1> QED
  BY <1>5, <1>6

\* the words of the arrays that there are
WordsOf(pr, st) ==
    {Ptr(0, i) : i \in DOMAIN GlobInit}
    \cup UNION {{Ptr(k, i) : i \in 0..(pr[st[k].fi].arraysize - 1)} : k \in 1..Len(st)}

\* p leads to word i of array k
LeadsTo(pr, st, p, k, i) ==
    /\ p = Ptr(k, i) /\ PtrArray(p) = k /\ PtrOffset(p) = i
    /\ k \in Nat /\ i \in Nat /\ i < ArraySpan
    /\ \/ k = 0 /\ i \in DOMAIN GlobInit
       \/ k \in 1..Len(st) /\ i \in 0..(pr[st[k].fi].arraysize - 1)

\* The words of the arrays are told apart.
LEMMA WordIs ==
    ASSUME NEW pr, NEW ds, NEW cs, NEW st, NEW rg, NEW gl, NEW ga, NEW p,
           Going(pr, ds, cs, st, rg, gl, ga),
           p \in WordsOf(pr, st)
    PROVE  /\ \E k, i : LeadsTo(pr, st, p, k, i)
           /\ IsWord(MachineOf(st, rg, gl, ga), p)
<1> DEFINE m == MachineOf(st, rg, gl, ga)
<1>1. TopIs(pr, cs, st, m) /\ m.garr = ga
  BY GoingIs
<1> HIDE DEF m
<1>2. DOMAIN m.frames = 1..Len(st) /\ (\A k \in 1..Len(st) : m.frames[k] = st[k].words)
  BY <1>1 DEF TopIs
<1>3. CASE \E i \in DOMAIN GlobInit : p = Ptr(0, i)
  <2>1. PICK i \in DOMAIN GlobInit : p = Ptr(0, i)
    BY <1>3
  <2>2. i \in Nat /\ i < ArraySpan
    BY GlobalsAssumption, ValuesAssumption
  <2>3. LeadsTo(pr, st, p, 0, i)
    <3>1. PtrArray(Ptr(0, i)) = 0 /\ PtrOffset(Ptr(0, i)) = i
      BY <2>2, Pointers
    <3> QED
      BY <2>1, <2>2, <3>1 DEF LeadsTo
  <2>4. IsWord(m, p)
    BY <2>1, <2>2 DEF IsWord
  <2> QED
    BY <2>3, <2>4 DEF m
<1>4. CASE \E k \in 1..Len(st) : \E i \in 0..(pr[st[k].fi].arraysize - 1) : p = Ptr(k, i)
  <2>1. PICK k \in 1..Len(st) : \E i \in 0..(pr[st[k].fi].arraysize - 1) : p = Ptr(k, i)
    BY <1>4
  <2>2. PICK i \in 0..(pr[st[k].fi].arraysize - 1) : p = Ptr(k, i)
    BY <2>1
  <2>3. FrameOf(pr, cs, st[k])
    BY DEF Going, StackOK
  <2>4. FunctionOK(pr[st[k].fi]) /\ cs[st[k].fi] \in Nat
    BY <2>3, FunctionIs DEF FrameOf, Going, Reported
  <2>5. i \in Nat /\ i < ArraySpan /\ k \in Nat
    BY <2>4, ValuesAssumption DEF FunctionOK
  <2>6. i \in DOMAIN st[k].words
    BY <2>3, <2>4 DEF FrameOf, FunctionOK
  <2>7. LeadsTo(pr, st, p, k, i)
    <3>1. PtrArray(Ptr(k, i)) = k /\ PtrOffset(Ptr(k, i)) = i
      BY <2>5, Pointers
    <3> QED
      BY <2>2, <2>5, <3>1 DEF LeadsTo
  <2>8. IsWord(m, p)
    BY <1>2, <2>2, <2>5, <2>6 DEF IsWord
  <2> QED
    BY <2>7, <2>8 DEF m
<1> QED
  BY <1>3, <1>4 DEF WordsOf

\* the word that p leads to, as the source sees it
SourceDeref(pr, st, rg, ga, p) ==
    IF PtrArray(p) = 0 THEN ga[PtrOffset(p)]
    ELSE AllAsSource(pr, st, rg)[PtrArray(p)].arr[PtrOffset(p)]

\* What is loaded through a pointer is the word that the source finds there.
LEMMA DerefIs ==
    ASSUME NEW pr, NEW ds, NEW cs, NEW st, NEW rg, NEW gl, NEW ga, NEW p,
           Going(pr, ds, cs, st, rg, gl, ga),
           p \in WordsOf(pr, st)
    PROVE  LoadFrom(MachineOf(st, rg, gl, ga), p) = SourceDeref(pr, st, rg, ga, p)
<1> DEFINE m == MachineOf(st, rg, gl, ga)
<1>1. TopIs(pr, cs, st, m) /\ m.garr = ga
  BY GoingIs
<1>2. PICK k, i : LeadsTo(pr, st, p, k, i)
  BY WordIs
<1> HIDE DEF m
<1>3. IsMachine(m) /\ (\A j \in 1..Len(st) : m.frames[j] = st[j].words)
  BY <1>1 DEF TopIs
<1>4. CASE k = 0
  <2>1. p = Ptr(0, i) /\ i \in Nat /\ i < ArraySpan /\ PtrArray(p) = 0 /\ PtrOffset(p) = i
    BY <1>2, <1>4 DEF LeadsTo
  <2>2. LoadFrom(m, Ptr(0, i)) = m.garr[i]
    BY <1>3, <2>1, ThroughPointer
  <2> QED
    BY <1>1, <2>1, <2>2 DEF SourceDeref, m
<1>5. CASE k # 0
  <2>1. /\ p = Ptr(k, i) /\ i \in Nat /\ i < ArraySpan /\ PtrArray(p) = k /\ PtrOffset(p) = i
        /\ k \in Nat \ {0} /\ k \in 1..Len(st) /\ i \in 0..(pr[st[k].fi].arraysize - 1)
    BY <1>2, <1>5 DEF LeadsTo
  <2>2. LoadFrom(m, Ptr(k, i)) = m.frames[k][i]
    BY <1>3, <2>1, ThroughPointer
  <2>3. AllAsSource(pr, st, rg)[k].arr[i] = st[k].words[i]
    <3>1. SeenAt(pr, st, rg, m, k)
      BY <2>1, WithArraysIs
    <3>2. AllAsSource(pr, st, rg)[k].arr = ArrayThen(pr, st, k)
      BY <3>1 DEF SeenAt
    <3> QED
      BY <2>1, <3>2 DEF ArrayThen
  <2> QED
    BY <1>3, <2>1, <2>2, <2>3 DEF SourceDeref, m
<1> QED
  BY <1>4, <1>5

\* what a statement computes, as the source says
SourceResult(pr, st, rg, gl, ga) ==
    LET arg(i) == SourceArg(pr, st, rg, gl, i)
        op == TopStmt(pr, st).op
    IN  CASE op = "opbinary" -> BinaryOp(arg(1), arg(2))
          [] op = "opunary"  -> UnaryOp(arg(1))
          [] op \in {"mov", "return"} -> arg(1)
          [] op = "arrayget" -> SourceDeref(pr, st, rg, ga, arg(1) + TopStmt(pr, st).label)
          [] OTHER           -> 0

\* the machine after the instructions of a statement
After(pr, st, rg, gl, ga) ==
    ExecuteAll(MachineOf(st, rg, gl, ga), GenStmtInst(TopF(pr, st), TopS(st)))

\* Values that are computed and wanted.
LEMMA UsedWrote ==
    ASSUME NEW pr, NEW ds, NEW cs, NEW st, NEW rg, NEW gl, NEW ga,
           Going(pr, ds, cs, st, rg, gl, ga),
           TopStmt(pr, st).op \in {"opbinary", "opunary", "mov", "arrayget"},
           TopStmt(pr, st).op = "arrayget" =>
              SourceArg(pr, st, rg, gl, 1) + TopStmt(pr, st).label \in WordsOf(pr, st),
           ~ Unused(TopF(pr, st), TopS(st)),
           IsTarget(TopF(pr, st), MachineOf(st, rg, gl, ga), TopStmt(pr, st).dest)
    PROVE  Wrote(TopF(pr, st), MachineOf(st, rg, gl, ga), After(pr, st, rg, gl, ga),
                 TopStmt(pr, st).dest, SourceResult(pr, st, rg, gl, ga))
<1> DEFINE f == TopF(pr, st)
           s == TopS(st)
           m == MachineOf(st, rg, gl, ga)
           stmt == TopStmt(pr, st)
           d == stmt.dest
           m2 == After(pr, st, rg, gl, ga)
           v == SourceResult(pr, st, rg, gl, ga)
           arg(i) == SourceArg(pr, st, rg, gl, i)
<1>1. TopIs(pr, cs, st, m)
  BY GoingIs
<1>2. /\ FunctionOK(f) /\ s \in Reached(f.func) /\ IsMachine(m)
      /\ cs[st[Len(st)].fi] \in Nat
      /\ DOMAIN m.frames[TopOf(m)] = 0..(f.spillsize + cs[st[Len(st)].fi] - 1)
      /\ stmt = f.func.stmts[s]
  BY <1>1 DEF TopIs, TopStmt
<1>3. StatementOK(stmt)
  BY <1>2 DEF FunctionOK
<1>4. stmt.op # "param" /\ ~ IsCall(stmt)
  BY DEF IsCall
<1>5. ASSUME NEW i \in DOMAIN stmt.args PROVE Operand(pr, cs, st, rg, gl, m, stmt.args[i])
  BY <1>4, OperandIs
<1>6. m2 = ExecuteAll(m, GenStmtInst(f, s))
  BY DEF After
<1>7. ~ Unused(f, s) /\ IsTarget(f, m, d) /\ stmt.op \in {"opbinary", "opunary", "mov", "arrayget"}
  OBVIOUS
<1>8. stmt.op = "arrayget" => arg(1) + stmt.label \in WordsOf(pr, st)
  OBVIOUS
<1>9. ASSUME NEW i \in DOMAIN stmt.args, stmt.args[i] \in Int \cup {NoVar, Glob}
      PROVE  stmt.args[i] \notin Arrays
  BY <1>9, KindsAssumption DEF Unpooled
<1>10. stmt.op \in DOMAIN Arity /\ DOMAIN stmt.args = 1..Arity[stmt.op]
  BY <1>3, <1>4 DEF StatementOK
<1>11. \A i \in DOMAIN stmt.args : arg(i) = SourceValue(pr, st, rg, gl, stmt.args[i])
  BY DEF SourceArg
<1> HIDE DEF f, s, m, stmt, m2, v, d, arg
<1>12. CASE stmt.op = "opbinary"
  <2>1. 1 \in DOMAIN stmt.args /\ 2 \in DOMAIN stmt.args
    BY <1>10, <1>12 DEF Arity
  <2>2. stmt.args[2] \in Int \cup {NoVar, Glob}
    BY <1>3, <1>12, <2>1 DEF StatementOK
  <2>3. Operand(pr, cs, st, rg, gl, m, stmt.args[1]) /\ Operand(pr, cs, st, rg, gl, m, stmt.args[2])
        /\ stmt.args[2] \notin Arrays
    BY <1>5, <1>9, <2>1, <2>2
  <2>4. /\ IsArgument(f, m, stmt.args[1]) /\ IsOperand(f, m, stmt.args[2])
        /\ ArgValue(f, m, stmt.args[1]) = arg(1) /\ ArgValue(f, m, stmt.args[2]) = arg(2)
    BY <1>11, <2>1, <2>3 DEF Operand, f
  <2>5. v = BinaryOp(arg(1), arg(2)) /\ m2 = ExecuteAll(m, GenOpBinary(f, stmt))
    BY <1>2, <1>6, <1>7, <1>12 DEF SourceResult, GenStmtInst, v, stmt, arg
  <2>6. Wrote(f, m, m2, d, v)
    BY <1>2, <1>7, <2>4, <2>5, OpBinaryDoes DEF d
  <2> QED
    BY <2>6 DEF f, m, m2, d, v, stmt
<1>13. CASE stmt.op = "opunary"
  <2>1. 1 \in DOMAIN stmt.args
    BY <1>10, <1>13 DEF Arity
  <2>2. stmt.args[1] \in Int \cup {NoVar, Glob}
    BY <1>3, <1>13, <2>1 DEF StatementOK
  <2>3. Operand(pr, cs, st, rg, gl, m, stmt.args[1]) /\ stmt.args[1] \notin Arrays
    BY <1>5, <1>9, <2>1, <2>2
  <2>4. IsOperand(f, m, stmt.args[1]) /\ ArgValue(f, m, stmt.args[1]) = arg(1)
    BY <1>11, <2>1, <2>3 DEF Operand, f
  <2>5. v = UnaryOp(arg(1)) /\ m2 = ExecuteAll(m, GenOpUnary(f, stmt))
    BY <1>2, <1>6, <1>7, <1>13 DEF SourceResult, GenStmtInst, v, stmt, arg
  <2>6. Wrote(f, m, m2, d, v)
    BY <1>2, <1>7, <2>4, <2>5, OpUnaryDoes DEF d
  <2> QED
    BY <2>6 DEF f, m, m2, d, v, stmt
<1>14. CASE stmt.op = "mov"
  <2>1. 1 \in DOMAIN stmt.args
    BY <1>10, <1>14 DEF Arity
  <2>2. stmt.args[1] \in Int \cup {NoVar, Glob}
    BY <1>3, <1>14, <2>1 DEF StatementOK
  <2>3. Operand(pr, cs, st, rg, gl, m, stmt.args[1]) /\ stmt.args[1] \notin Arrays
    BY <1>5, <1>9, <2>1, <2>2
  <2>4. IsOperand(f, m, stmt.args[1]) /\ ArgValue(f, m, stmt.args[1]) = arg(1)
    BY <1>11, <2>1, <2>3 DEF Operand, f
  <2>5. v = arg(1) /\ m2 = ExecuteAll(m, GenMov(f, stmt))
    BY <1>2, <1>6, <1>7, <1>14 DEF SourceResult, GenStmtInst, v, stmt, arg
  <2>6. Wrote(f, m, m2, d, v)
    BY <1>2, <1>7, <2>4, <2>5, MovDoes DEF d
  <2> QED
    BY <2>6 DEF f, m, m2, d, v, stmt
<1>15. CASE stmt.op = "arrayget"
  <2> DEFINE p == arg(1) + stmt.label
             a == stmt.args[1]
  <2>1. 1 \in DOMAIN stmt.args
    BY <1>10, <1>15 DEF Arity
  <2>2. a \in Int \cup Arrays /\ stmt.label \in Nat
    BY <1>3, <1>15, <2>1 DEF StatementOK
  <2>3. Operand(pr, cs, st, rg, gl, m, a) /\ ArgValue(f, m, a) = arg(1)
    BY <1>5, <1>11, <2>1 DEF Operand, f
  <2>4. a \in Arrays \/ a \notin Unpooled
    BY <2>2, KindsAssumption
  <2>5. a \notin Unpooled => IsKept(f, m, a) /\ a \in f.alive[s]
    BY <2>3 DEF Operand, f, s
  <2>6. IsArg(a) /\ a \notin Unpooled => f.vreg[a].pos # "stack"
    BY <1>2, <2>5, AliveKept
  <2>7. p \in WordsOf(pr, st) /\ IsWord(m, p)
    BY <1>8, <1>15, WordIs DEF m
  <2>8. LoadFrom(m, p) = SourceDeref(pr, st, rg, ga, p)
    BY <2>7, DerefIs DEF m
  <2>9. v = SourceDeref(pr, st, rg, ga, p) /\ m2 = ExecuteAll(m, GenArrayGet(f, stmt))
    BY <1>2, <1>6, <1>7, <1>15 DEF SourceResult, GenStmtInst, v, stmt, arg
  <2>10. /\ a \in Arrays \/ IsKept(f, m, a)
         /\ IsWord(m, ArgValue(f, m, a) + stmt.label)
         /\ v = LoadFrom(m, ArgValue(f, m, a) + stmt.label)
    BY <2>3, <2>4, <2>5, <2>7, <2>8, <2>9
  <2>11. Wrote(f, m, m2, d, v)
    BY <1>2, <1>7, <2>2, <2>6, <2>9, <2>10, ArrayGetDoes DEF d
  <2> QED
    BY <2>11 DEF f, m, m2, d, v, stmt
<1> QED
  BY <1>7, <1>12, <1>13, <1>14, <1>15

\* A statement computes what the source says.
LEMMA ComputeStep ==
    ASSUME NEW pr, NEW ds, NEW cs, NEW st, NEW rg, NEW gl, NEW ga,
           Going(pr, ds, cs, st, rg, gl, ga),
           TopStmt(pr, st).op \in {"opbinary", "opunary", "mov", "arrayget", "param", "label"},
           TopStmt(pr, st).op = "arrayget" =>
              SourceArg(pr, st, rg, gl, 1) + TopStmt(pr, st).label \in WordsOf(pr, st)
    PROVE  LET m == After(pr, st, rg, gl, ga)
           IN  /\ StepOK(pr, ds, cs, st, rg, gl, TopS(st) + 1, m, TopStmt(pr, st).dest,
                         SourceResult(pr, st, rg, gl, ga))
               /\ SameArrays(pr, st, m) /\ m.garr = ga
<1> DEFINE f == TopF(pr, st)
           s == TopS(st)
           m == MachineOf(st, rg, gl, ga)
           stmt == TopStmt(pr, st)
           d == stmt.dest
           m2 == After(pr, st, rg, gl, ga)
           v == SourceResult(pr, st, rg, gl, ga)
           n == s + 1
<1>1. TopIs(pr, cs, st, m)
  BY GoingIs
<1>2. /\ FunctionOK(f) /\ s \in Reached(f.func) /\ IsMachine(m)
      /\ cs[st[Len(st)].fi] \in Nat
      /\ DOMAIN m.frames[TopOf(m)] = 0..(f.spillsize + cs[st[Len(st)].fi] - 1)
      /\ stmt = f.func.stmts[s]
  BY <1>1 DEF TopIs, TopStmt
<1>3. StatementOK(stmt) /\ ~ IsCall(stmt)
  BY <1>2 DEF FunctionOK, IsCall
<1>4. CfgNext(f.func, s) = {n} /\ n \in Reached(f.func) /\ MeetOf(f.func, f.alive, s) = f.alive[n]
  <2>1. CfgNext(f.func, s) = {n}
    BY <1>2 DEF CfgNext
  <2>2. n \in Reached(f.func)
    BY <1>2, <2>1 DEF FunctionOK
  <2>3. MeetOf(f.func, f.alive, s) = f.alive[n]
    BY <2>1 DEF MeetOf
  <2> QED
    BY <2>1, <2>2, <2>3
<1>5. n \in CfgNext(TopF(pr, st).func, TopS(st))
  BY <1>4
<1>6. ASSUME stmt.op \in {"param", "label"} \/ Unused(f, s)
      PROVE  Wrote(f, m, m2, NoVar, v) /\ stmt.dest \notin {Glob} \cup f.alive[n]
  <2>1. GenStmtInst(f, s) = <<>>
    BY <1>2, <1>6 DEF GenStmtInst
  <2>2. m2 = m
    BY <2>1, RunEmpty DEF After
  <2>3. Wrote(f, m, m, NoVar, v)
    <3> HIDE DEF m, f
    <3> QED
      BY <1>2, Kinds DEF Wrote, SameShape
  <2>4. CASE stmt.op \in {"param", "label"}
    <3>1. stmt.dest = NoVar
      BY <1>3, <2>4 DEF StatementOK
    <3>2. NoVar \notin f.alive[n] /\ NoVar # Glob
      BY <1>2, <1>4, Kinds DEF FunctionOK
    <3> QED
      BY <2>2, <2>3, <3>1, <3>2
  <2>5. CASE Unused(f, s)
    <3>1. stmt.dest \notin Unpooled /\ stmt.dest \notin f.alive[n]
      BY <1>2, <1>4, <2>5 DEF Unused
    <3> QED
      BY <2>2, <2>3, <3>1, Kinds
  <2> QED
    BY <1>6, <2>4, <2>5
<1>7. ASSUME stmt.op \notin {"param", "label"}, ~ Unused(f, s)
      PROVE  Wrote(f, m, m2, d, v) /\ (d = Glob \/ d \in f.alive[n])
  <2>1. stmt.op \in {"opbinary", "opunary", "mov", "arrayget"}
    BY <1>7
  <2>2. d \in Int \cup {Glob}
    BY <1>3, <2>1 DEF StatementOK
  <2>3. d = Glob \/ d \notin Unpooled
    BY <2>2, KindsAssumption
  <2>4. d = Glob \/ d \in f.alive[n]
    BY <1>2, <1>4, <1>7, <2>3 DEF Unused
  <2>5. IsTarget(f, m, d)
    <3> HIDE DEF m, f, n, d
    <3> QED
      BY <1>2, <1>4, <2>4, AliveKept DEF IsTarget
  <2>6. Wrote(f, m, m2, d, v)
    BY <1>7, <2>1, <2>5, UsedWrote
  <2> QED
    BY <2>4, <2>6
<1>8. CASE stmt.op \in {"param", "label"} \/ Unused(f, s)
  BY <1>5, <1>6, <1>8, WroteStep
<1>9. CASE stmt.op \notin {"param", "label"} /\ ~ Unused(f, s)
  BY <1>5, <1>7, <1>9, WroteStep
<1> QED
  BY <1>8, <1>9

\* An element of an array is set.
LEMMA ArraySetStep ==
    ASSUME NEW pr, NEW ds, NEW cs, NEW st, NEW rg, NEW gl, NEW ga,
           Going(pr, ds, cs, st, rg, gl, ga),
           TopStmt(pr, st).op = "arrayset",
           SourceArg(pr, st, rg, gl, 1) + TopStmt(pr, st).label \in WordsOf(pr, st)
    PROVE  LET m == After(pr, st, rg, gl, ga)
               p == SourceArg(pr, st, rg, gl, 1) + TopStmt(pr, st).label
               v == SourceArg(pr, st, rg, gl, 2)
           IN  /\ StepOK(pr, ds, cs, st, rg, gl, TopS(st) + 1, m, NoVar, 0)
               /\ PtrArray(p) = 0 => /\ SameArrays(pr, st, m)
                                     /\ m.garr = [ga EXCEPT ![PtrOffset(p)] = v]
               /\ PtrArray(p) # 0 =>
                    /\ WithArrays(pr, st, rg, m) =
                         [AllAsSource(pr, st, rg) EXCEPT ![PtrArray(p)].arr[PtrOffset(p)] = v]
                    /\ m.garr = ga
<1> DEFINE f == TopF(pr, st)
           s == TopS(st)
           l == Len(st)
           m == MachineOf(st, rg, gl, ga)
           stmt == TopStmt(pr, st)
           m2 == After(pr, st, rg, gl, ga)
           n == s + 1
           arg(i) == SourceArg(pr, st, rg, gl, i)
           p == arg(1) + stmt.label
           v == arg(2)
           a == stmt.args[1]
<1>1. TopIs(pr, cs, st, m) /\ m.regs = rg /\ m.glob = gl /\ m.garr = ga
  BY GoingIs
<1>2. /\ FunctionOK(f) /\ s \in Reached(f.func) /\ IsMachine(m)
      /\ cs[st[l].fi] \in Nat
      /\ DOMAIN m.frames[TopOf(m)] = 0..(f.spillsize + cs[st[l].fi] - 1)
      /\ DOMAIN m.frames = 1..l /\ (\A k \in 1..l : m.frames[k] = st[k].words)
      /\ TopOf(m) = l /\ l \in Nat
      /\ stmt = f.func.stmts[s]
  BY <1>1 DEF TopIs, TopStmt
<1>3. StatementOK(stmt) /\ ~ IsCall(stmt) /\ stmt.op = "arrayset"
  BY <1>2 DEF FunctionOK, IsCall
<1>4. n \in CfgNext(TopF(pr, st).func, TopS(st))
  BY <1>2, <1>3 DEF CfgNext
<1>5. stmt.dest = NoVar /\ 1 \in DOMAIN stmt.args /\ 2 \in DOMAIN stmt.args /\ stmt.label \in Nat
      /\ a \in Int \cup Arrays /\ stmt.args[2] \in Int \cup {NoVar, Glob}
  <2>1. DOMAIN stmt.args = 1..2 /\ stmt.dest = NoVar /\ stmt.label \in Nat
    BY <1>3 DEF StatementOK, Arity
  <2>2. 1 \in DOMAIN stmt.args /\ 2 \in DOMAIN stmt.args
    BY <2>1
  <2> QED
    BY <1>3, <2>1, <2>2 DEF StatementOK
<1>6. Operand(pr, cs, st, rg, gl, m, a) /\ Operand(pr, cs, st, rg, gl, m, stmt.args[2])
  <2>1. stmt.op # "param"
    BY <1>3
  <2> QED
    BY <1>5, <2>1, OperandIs
<1>7. arg(1) = ArgValue(f, m, a) /\ arg(2) = ArgValue(f, m, stmt.args[2])
  BY <1>6 DEF SourceArg, Operand
<1>8. p \in WordsOf(pr, st) /\ IsWord(m, p)
  BY WordIs
<1>9. PICK k, o : LeadsTo(pr, st, p, k, o)
  BY <1>8, WordIs
<1>10. m2 = ExecuteAll(m, GenArraySet(f, stmt))
  BY <1>2, <1>3 DEF After, GenStmtInst
<1>11. /\ (a \in Arrays \/ IsKept(f, m, a))
       /\ (IsArg(a) /\ a \notin Unpooled => f.vreg[a].pos # "stack")
       /\ IsOperand(f, m, stmt.args[2])
  <2>1. a \in Arrays \/ a \notin Unpooled
    BY <1>5, KindsAssumption
  <2>2. a \notin Unpooled => IsKept(f, m, a) /\ a \in f.alive[s]
    BY <1>6 DEF Operand
  <2>3. stmt.args[2] \notin Arrays
    BY <1>5, KindsAssumption DEF Unpooled
  <2>4. IsOperand(f, m, stmt.args[2])
    BY <1>6, <2>3 DEF Operand
  <2> HIDE DEF m, f, s, stmt
  <2>5. IsArg(a) /\ a \notin Unpooled => f.vreg[a].pos # "stack"
    BY <1>2, <2>2, AliveKept
  <2> QED
    BY <2>1, <2>2, <2>4, <2>5
<1>12. Stored(m, m2, p, v)
  <2>1. IsWord(m, ArgValue(f, m, a) + stmt.label) /\ p = ArgValue(f, m, a) + stmt.label
        /\ v = ArgValue(f, m, stmt.args[2])
    BY <1>7, <1>8
  <2> HIDE DEF m, f, stmt, m2, p, v
  <2> QED
    BY <1>2, <1>5, <1>10, <1>11, <2>1, ArraySetDoes
<1> HIDE DEF m, f, s, stmt, m2, p, v, n, l, a, arg
<1>13. /\ PtrArray(p) = k /\ PtrOffset(p) = o
       /\ \/ k = 0
          \/ k \in 1..l /\ o \in 0..(pr[st[k].fi].arraysize - 1) /\ k # 0
  BY <1>2, <1>9 DEF LeadsTo, l
<1>14. /\ IsMachine(m2) /\ SameShape(m, m2)
       /\ \A r \in Regs \ Scratch : m2.regs[r] = rg[r]
       /\ \A j \in 1..l : \A w \in DOMAIN st[j].words :
            m2.frames[j][w] = IF j = k /\ w = o THEN v ELSE st[j].words[w]
       /\ m2.glob = gl
       /\ m2.garr = IF k = 0 THEN [ga EXCEPT ![o] = v] ELSE ga
  BY <1>1, <1>2, <1>12, <1>13 DEF Stored
<1>15. ArraysOnly(pr, st, rg, gl, m2)
  <2>1. Carries(m2, st)
    BY <1>2, <1>14 DEF Carries, SameShape, TopOf, l
  <2>2. ASSUME NEW j \in 1..l, NEW w \in DOMAIN st[j].words, w >= pr[st[j].fi].arraysize
        PROVE  m2.frames[j][w] = st[j].words[w]
    <3>1. ~ (j = k /\ w = o)
      <4> SUFFICES ASSUME j = k, w = o PROVE FALSE
        OBVIOUS
      <4>1. k \in 1..l
        OBVIOUS
      <4>2. o \in 0..(pr[st[j].fi].arraysize - 1)
        BY <1>2, <1>13
      <4>3. FrameOf(pr, cs, st[j])
        BY DEF Going, StackOK, l
      <4>4. pr[st[j].fi].arraysize \in Nat
        BY <4>3, FunctionIs DEF FrameOf, Going, Reported, FunctionOK
      <4>5. o >= pr[st[j].fi].arraysize
        BY <2>2
      <4> QED
        BY <4>2, <4>4, <4>5
    <3> QED
      BY <1>14, <3>1
  <2> QED
    BY <1>14, <2>1, <2>2 DEF ArraysOnly, l
<1>16. StepOK(pr, ds, cs, st, rg, gl, n, m2, NoVar, 0)
  BY <1>4, <1>5, <1>15, ArrayStep DEF stmt
<1>17. ASSUME NEW j \in 1..l, NEW i \in 0..(pr[st[j].fi].arraysize - 1)
       PROVE  m2.frames[j][i] = IF j = k /\ i = o THEN v ELSE st[j].words[i]
  <2>1. FrameOf(pr, cs, st[j])
    BY DEF Going, StackOK, l
  <2>2. FunctionOK(pr[st[j].fi]) /\ cs[st[j].fi] \in Nat
    BY <2>1, FunctionIs DEF FrameOf, Going, Reported
  <2>3. i \in DOMAIN st[j].words
    BY <2>1, <2>2 DEF FrameOf, FunctionOK
  <2> QED
    BY <1>14, <2>3
<1>18. CASE k = 0
  <2>1. SameArrays(pr, st, m2)
    <3>1. \A j \in 1..l : j # k
      BY <1>18
    <3> QED
      BY <1>17, <3>1 DEF SameArrays, l
  <2>2. m2.garr = [ga EXCEPT ![o] = v]
    BY <1>14, <1>18
  <2> QED
    BY <1>13, <1>16, <1>18, <2>1, <2>2 DEF m2, p, v, n, s, stmt, arg
<1>19. CASE k # 0
  <2>1. WithArrays(pr, st, rg, m2) = [AllAsSource(pr, st, rg) EXCEPT ![k].arr[o] = v]
    <3>1. OneSet(pr, st, m2, k, o, v)
      BY <1>13, <1>17, <1>19 DEF OneSet, l
    <3>2. ArraysBecome(pr, st, rg, m2, k, o, v)
      BY <3>1, ArraysSet
    <3> QED
      BY <3>2 DEF ArraysBecome
  <2>2. m2.garr = ga
    BY <1>14, <1>19
  <2> QED
    BY <1>13, <1>16, <1>19, <2>1, <2>2 DEF m2, p, v, n, s, stmt, arg
<1> QED
  BY <1>18, <1>19

\* The local array is cleared.
LEMMA FillZeroStep ==
    ASSUME NEW pr, NEW ds, NEW cs, NEW st, NEW rg, NEW gl, NEW ga,
           Going(pr, ds, cs, st, rg, gl, ga),
           TopStmt(pr, st).op = "fillzero"
    PROVE  LET m == After(pr, st, rg, gl, ga)
           IN  /\ StepOK(pr, ds, cs, st, rg, gl, TopS(st) + 1, m, NoVar, 0)
               /\ WithArrays(pr, st, rg, m) =
                    [AllAsSource(pr, st, rg) EXCEPT ![Len(st)].arr =
                        [i \in DOMAIN AllAsSource(pr, st, rg)[Len(st)].arr |-> 0]]
               /\ m.garr = ga
<1> DEFINE f == TopF(pr, st)
           s == TopS(st)
           l == Len(st)
           m == MachineOf(st, rg, gl, ga)
           stmt == TopStmt(pr, st)
           m2 == After(pr, st, rg, gl, ga)
           n == s + 1
<1>1. TopIs(pr, cs, st, m) /\ m.regs = rg /\ m.glob = gl /\ m.garr = ga
  BY GoingIs
<1>2. /\ FunctionOK(f) /\ s \in Reached(f.func) /\ IsMachine(m)
      /\ cs[st[l].fi] \in Nat
      /\ DOMAIN m.frames[TopOf(m)] = 0..(f.spillsize + cs[st[l].fi] - 1)
      /\ DOMAIN m.frames = 1..l /\ (\A k \in 1..l : m.frames[k] = st[k].words)
      /\ TopOf(m) = l /\ l \in Nat /\ l \in 1..l
      /\ stmt = f.func.stmts[s] /\ f = pr[st[l].fi]
  BY <1>1 DEF TopIs, TopStmt, TopF
<1>3. StatementOK(stmt) /\ stmt.op = "fillzero"
  BY <1>2 DEF FunctionOK
<1>4. n \in CfgNext(TopF(pr, st).func, TopS(st))
  BY <1>2, <1>3 DEF CfgNext
<1>5. stmt.dest = NoVar
  BY <1>3 DEF StatementOK, IsCall
<1>6. m2 = ExecuteAll(m, GenFillZero(f))
  BY <1>2, <1>3 DEF After, GenStmtInst
<1>7. /\ f.arraysize \in Nat /\ f.arraysize < ArraySpan
      /\ 0..(f.arraysize - 1) \subseteq DOMAIN m.frames[TopOf(m)]
  <2>1. /\ f.arraysize \in Nat /\ f.arraysize < ArraySpan
        /\ f.spillsize \in Nat /\ f.arraysize <= f.spillsize
    BY <1>2 DEF FunctionOK
  <2> HIDE DEF m, f, l
  <2> QED
    BY <1>2, <2>1
<1> HIDE DEF m, f, s, stmt, m2, n, l
<1>8. Filled(m, m2, f.arraysize)
  BY <1>2, <1>6, <1>7, FillZeroDoes
<1>9. /\ IsMachine(m2) /\ SameShape(m, m2)
      /\ \A r \in Regs \ Scratch : m2.regs[r] = rg[r]
      /\ \A j \in 1..l : \A w \in DOMAIN st[j].words :
           m2.frames[j][w] = IF j = l /\ w \in 0..(f.arraysize - 1) THEN 0 ELSE st[j].words[w]
      /\ m2.glob = gl
      /\ m2.garr = ga
  BY <1>1, <1>2, <1>8 DEF Filled
<1>10. ArraysOnly(pr, st, rg, gl, m2)
  <2>1. Carries(m2, st)
    BY <1>2, <1>9 DEF Carries, SameShape, TopOf, l
  <2>2. ASSUME NEW j \in 1..l, NEW w \in DOMAIN st[j].words, w >= pr[st[j].fi].arraysize
        PROVE  m2.frames[j][w] = st[j].words[w]
    <3>1. ~ (j = l /\ w \in 0..(f.arraysize - 1))
      BY <1>2, <1>7, <2>2
    <3> QED
      BY <1>9, <3>1
  <2> QED
    BY <1>9, <2>1, <2>2 DEF ArraysOnly, l
<1>11. StepOK(pr, ds, cs, st, rg, gl, n, m2, NoVar, 0)
  BY <1>4, <1>5, <1>10, ArrayStep DEF stmt
<1>12. ASSUME NEW j \in 1..l, NEW i \in 0..(pr[st[j].fi].arraysize - 1)
       PROVE  m2.frames[j][i] = IF j = l THEN 0 ELSE st[j].words[i]
  <2>1. FrameOf(pr, cs, st[j])
    BY DEF Going, StackOK, l
  <2>2. FunctionOK(pr[st[j].fi]) /\ cs[st[j].fi] \in Nat
    BY <2>1, FunctionIs DEF FrameOf, Going, Reported
  <2>3. i \in DOMAIN st[j].words
    BY <2>1, <2>2 DEF FrameOf, FunctionOK
  <2>4. j = l => i \in 0..(f.arraysize - 1)
    BY <1>2
  <2> HIDE DEF l, f
  <2> QED
    BY <1>9, <2>3, <2>4
<1>13. WithArrays(pr, st, rg, m2) =
         [AllAsSource(pr, st, rg) EXCEPT ![l].arr =
             [i \in DOMAIN AllAsSource(pr, st, rg)[l].arr |-> 0]]
  BY <1>2, <1>12, ArraysFilled DEF l
<1> QED
  BY <1>9, <1>11, <1>13 DEF m2, n, s, l

\* A jump goes where the source says.
LEMMA JumpStep ==
    ASSUME NEW pr, NEW ds, NEW cs, NEW st, NEW rg, NEW gl, NEW ga, NEW n,
           Going(pr, ds, cs, st, rg, gl, ga),
           TopStmt(pr, st).op \in {"goto", "condgoto"},
           n \in CfgNext(TopF(pr, st).func, TopS(st))
    PROVE  LET c == GenCondGoto(TopF(pr, st), TopStmt(pr, st))
               m == ExecuteAll(MachineOf(st, rg, gl, ga), c.insts)
           IN  /\ TopStmt(pr, st).op = "condgoto" =>
                    /\ StepOK(pr, ds, cs, st, rg, gl, n, m, NoVar, 0)
                    /\ SameArrays(pr, st, m) /\ m.garr = ga
                    /\ m.regs[c.regs[1]] = SourceArg(pr, st, rg, gl, 1)
                    /\ m.regs[c.regs[2]] = SourceArg(pr, st, rg, gl, 2)
               /\ StepOK(pr, ds, cs, st, rg, gl, n, MachineOf(st, rg, gl, ga), NoVar, 0)
               /\ SameArrays(pr, st, MachineOf(st, rg, gl, ga))
               /\ MachineOf(st, rg, gl, ga).garr = ga
<1> DEFINE f == TopF(pr, st)
           s == TopS(st)
           m0 == MachineOf(st, rg, gl, ga)
           stmt == TopStmt(pr, st)
           c == GenCondGoto(f, stmt)
           m == ExecuteAll(m0, c.insts)
<1>1. TopIs(pr, cs, st, m0)
  BY GoingIs
<1>2. IsMachine(m0) /\ FunctionOK(f) /\ s \in Reached(f.func) /\ stmt = f.func.stmts[s]
  BY <1>1 DEF TopIs, TopStmt
<1>3. StatementOK(stmt) /\ stmt.op \in {"goto", "condgoto"} /\ ~ IsCall(stmt)
  BY <1>2 DEF FunctionOK, IsCall
<1>4. stmt.dest = NoVar
  BY <1>3 DEF StatementOK
<1>5. StepOK(pr, ds, cs, st, rg, gl, n, m0, NoVar, 0) /\ SameArrays(pr, st, m0) /\ m0.garr = ga
  <2>1. OnlyRegs(m0, m0, Scratch)
    BY <1>2, OnlyRegsChain
  <2> QED
    BY <1>4, <2>1, NothingStep
<1>6. ASSUME stmt.op = "condgoto"
      PROVE  /\ StepOK(pr, ds, cs, st, rg, gl, n, m, NoVar, 0)
             /\ SameArrays(pr, st, m) /\ m.garr = ga
             /\ m.regs[c.regs[1]] = SourceArg(pr, st, rg, gl, 1)
             /\ m.regs[c.regs[2]] = SourceArg(pr, st, rg, gl, 2)
  <2>1. DOMAIN stmt.args = 1..2
    BY <1>3, <1>6 DEF StatementOK, Arity
  <2>2. 1 \in DOMAIN stmt.args /\ 2 \in DOMAIN stmt.args
    BY <2>1
  <2>3. stmt.args[1] \in Int \cup {NoVar, Glob} /\ stmt.args[2] \in Int \cup {NoVar, Glob}
    BY <1>3, <1>6, <2>2 DEF StatementOK
  <2>4. stmt.args[1] \notin Arrays /\ stmt.args[2] \notin Arrays
    BY <2>3, KindsAssumption DEF Unpooled
  <2>5. Operand(pr, cs, st, rg, gl, m0, stmt.args[1]) /\ Operand(pr, cs, st, rg, gl, m0, stmt.args[2])
    BY <1>6, <2>2, OperandIs
  <2>6. /\ IsOperand(f, m0, stmt.args[1]) /\ IsOperand(f, m0, stmt.args[2])
        /\ ArgValue(f, m0, stmt.args[1]) = SourceArg(pr, st, rg, gl, 1)
        /\ ArgValue(f, m0, stmt.args[2]) = SourceArg(pr, st, rg, gl, 2)
    BY <2>4, <2>5 DEF Operand, SourceArg
  <2> HIDE DEF m0, f
  <2>7. /\ OnlyRegs(m0, m, Scratch)
        /\ m.regs[c.regs[1]] = ArgValue(f, m0, stmt.args[1])
        /\ m.regs[c.regs[2]] = ArgValue(f, m0, stmt.args[2])
    BY <1>2, <2>6, CondGotoDoes
  <2> HIDE DEF m, c
  <2>8. /\ StepOK(pr, ds, cs, st, rg, gl, n, m, NoVar, 0)
        /\ SameArrays(pr, st, m) /\ m.garr = ga
    BY <1>4, <2>7, NothingStep DEF m0
  <2> QED
    BY <2>6, <2>7, <2>8
<1> QED
  BY <1>5, <1>6

-------------------------------------------------------------------------------
(* A call of a function.                                                   *)

\* the machine where the function that is called is entered
Before(pr, st, rg, gl, ga, meet) ==
    ExecuteAll(MachineOf(st, rg, gl, ga), GenBeforeCall(TopF(pr, st), TopS(st), meet))

\* the last of the calls st waits for the function it calls, the registers
\* saved being meet
Calling(pr, ds, st, meet) ==
    /\ TopS(st) \in Calls(TopF(pr, st))
    /\ meet \in SetToSeqs(MeetRegs(TopF(pr, st), TopS(st), ds[TopStmt(pr, st).fn]))

\* what a call leaves in the machine m before it: parameters in their registers,
\* and nothing else but what the function called may overwrite
Handed(pr, ds, st, rg, gl, ga, m, meet) ==
    /\ Passed(TopF(pr, st), TopS(st), MachineOf(st, rg, gl, ga), m, meet)
    /\ Carries(m, st)
    /\ m.glob = gl /\ m.garr = ga
    /\ \A p \in DOMAIN TopStmt(pr, st).args : m.regs[ArgReg[p - 1]] = SourceArg(pr, st, rg, gl, p)
    /\ ArgRegs(Len(TopStmt(pr, st).args)) \subseteq ds[TopStmt(pr, st).fn]
    /\ KeepsRegs(rg, m.regs, ds[TopStmt(pr, st).fn])
    /\ KeepsBelow(pr, ds, st, rg, m)
    /\ SameArrays(pr, st, m)

\* the function that is called overwrites its parameters, and its caller
\* whatever it does
LEMMA CalledWithin ==
    ASSUME NEW pr, NEW ds, NEW cs, NEW i \in DOMAIN pr, NEW s \in Calls(pr[i]),
           Reported(pr, ds, cs)
    PROVE  LET stmt == pr[i].func.stmts[s]
           IN  /\ ArgRegs(Len(stmt.args)) \subseteq ds[stmt.fn]
               /\ ds[stmt.fn] \subseteq ds[pr[i].name]
               /\ \A j \in DOMAIN pr : pr[j].name = stmt.fn => Len(stmt.args) = pr[j].func.params
<1> DEFINE stmt == pr[i].func.stmts[s]
           fn == stmt.fn
<1>1. pr \in Programs /\ ds[fn] \subseteq ds[pr[i].name]
  BY DEF Reported
<1>2. fn \in Builtins \/ \E j \in DOMAIN pr : fn = pr[j].name /\ Len(stmt.args) = pr[j].func.params
  BY <1>1, CalleeKinds
<1>3. \A j \in DOMAIN pr : pr[j].name \notin Builtins
  BY <1>1, ProgramType
<1>4. \A j, k \in DOMAIN pr : pr[j].name = pr[k].name => j = k
  BY <1>1, ProgramType
<1>5. FunctionOK(pr[i])
  BY <1>1, FunctionIs
<1>6. Len(stmt.args) \in 0..MaxArgs
  BY <1>5 DEF FunctionOK
<1>7. CASE fn \in Builtins
  <2>1. ds[fn] = BuiltinDestroys
    BY <1>7 DEF Reported
  <2>2. \A q \in 0..(Len(stmt.args) - 1) : ArgReg[q] \in BuiltinDestroys
    BY <1>6, ArgRegIs, ProgramsAssumption
  <2> QED
    BY <1>1, <1>3, <1>7, <2>1, <2>2 DEF ArgRegs
<1>8. CASE fn \notin Builtins
  <2>1. PICK j \in DOMAIN pr : fn = pr[j].name /\ Len(stmt.args) = pr[j].func.params
    BY <1>2, <1>8
  <2>2. FunctionOK(pr[j]) /\ Direct(pr[j]) \subseteq ds[fn]
    BY <1>1, <2>1, FunctionIs DEF Reported
  <2>3. \A q \in 0..(Len(stmt.args) - 1) : ArgReg[q] \in ds[fn]
    BY <2>1, <2>2 DEF FunctionOK
  <2> HIDE DEF fn, stmt
  <2>4. \A k \in DOMAIN pr : pr[k].name = fn => Len(stmt.args) = pr[k].func.params
    BY <1>4, <2>1
  <2> QED
    BY <1>1, <2>3, <2>4 DEF ArgRegs, fn, stmt
<1> QED
  BY <1>7, <1>8

\* What is done before a call.
LEMMA BeforeIs ==
    ASSUME NEW pr, NEW ds, NEW cs, NEW st, NEW rg, NEW gl, NEW ga, NEW meet,
           Going(pr, ds, cs, st, rg, gl, ga),
           Calling(pr, ds, st, meet)
    PROVE  Handed(pr, ds, st, rg, gl, ga, Before(pr, st, rg, gl, ga, meet), meet)
<1> DEFINE f == TopF(pr, st)
           s == TopS(st)
           l == Len(st)
           i == st[l].fi
           m == MachineOf(st, rg, gl, ga)
           stmt == TopStmt(pr, st)
           args == stmt.args
           D == ds[stmt.fn]
           M == MeetRegs(f, s, D)
           m2 == Before(pr, st, rg, gl, ga, meet)
           sv == SavedSeq(f, s, meet)
<1>1. TopIs(pr, cs, st, m) /\ m.regs = rg /\ m.glob = gl /\ m.garr = ga
  BY GoingIs
<1>2. /\ FunctionOK(f) /\ s \in Reached(f.func) /\ IsMachine(m)
      /\ cs[i] \in Nat
      /\ DOMAIN m.frames[TopOf(m)] = 0..(f.spillsize + cs[i] - 1)
      /\ DOMAIN m.frames = 1..l /\ (\A k \in 1..l : m.frames[k] = st[k].words)
      /\ TopOf(m) = l /\ l \in Nat /\ l \in 1..l
      /\ stmt = f.func.stmts[s] /\ f = pr[i] /\ i \in DOMAIN pr
  BY <1>1 DEF TopIs, TopStmt, TopF, FrameOf
<1>3. Reported(pr, ds, cs) /\ s \in Calls(f) /\ meet \in SetToSeqs(M) /\ StackOK(pr, ds, cs, st)
  BY DEF Going, Calling
<1>4. /\ IsCall(stmt) /\ StatementOK(stmt) /\ Len(args) \in 0..MaxArgs /\ DOMAIN args = 1..Len(args)
      /\ f.spillsize \in Nat /\ f.arraysize \in Nat /\ f.arraysize <= f.spillsize
  BY <1>2, <1>3, Zenon DEF FunctionOK
<1>5. ASSUME NEW p \in 1..Len(args)
      PROVE  /\ IsOperand(f, m, args[p])
             /\ args[p] \notin Unpooled /\ f.vreg[args[p]].pos = "stack" =>
                  f.vreg[args[p]].slot \in 0..(f.spillsize - 1)
             /\ ValueIn(f, m, args[p]) = SourceArg(pr, st, rg, gl, p)
  <2>1. stmt.op \in {"call", "callvoid"} /\ p \in DOMAIN args
    BY <1>4 DEF IsCall
  <2>2. args[p] \in Int \cup {NoVar, Glob}
    BY <1>4, <2>1 DEF StatementOK
  <2>3. args[p] \notin Arrays
    BY <2>2, KindsAssumption DEF Unpooled
  <2>4. Operand(pr, cs, st, rg, gl, m, args[p])
    BY <2>1, OperandIs
  <2>5. /\ IsOperand(f, m, args[p]) /\ ArgValue(f, m, args[p]) = SourceArg(pr, st, rg, gl, p)
        /\ args[p] \notin Unpooled => args[p] \in f.alive[s]
    BY <2>3, <2>4 DEF Operand, SourceArg
  <2>6. ArgValue(f, m, args[p]) = ValueIn(f, m, args[p])
    BY <2>3 DEF ArgValue, Arrays
  <2> HIDE DEF f, s, m, stmt, args, i
  <2>7. args[p] \notin Unpooled /\ f.vreg[args[p]].pos = "stack" =>
          f.vreg[args[p]].slot \in 0..(f.spillsize - 1)
    BY <1>2, <2>5, AliveKept
  <2> QED
    BY <2>5, <2>6, <2>7
<1>6. /\ M \subseteq AvailRegs /\ IsFiniteSet(M)
      /\ Cardinality(M \cup CollidingRegs(f, s)) \in Nat
      /\ Cardinality(M \cup CollidingRegs(f, s)) <= cs[i]
  <2>1. M = MeetRegs(pr[i], s, ds[pr[i].func.stmts[s].fn]) /\ s \in Calls(pr[i])
        /\ CollidingRegs(pr[i], s) = CollidingRegs(f, s)
    BY <1>2, <1>3
  <2> HIDE DEF f, s, l, i, stmt, D, M
  <2>2. i \in DOMAIN pr /\ Reported(pr, ds, cs) /\ s \in Calls(pr[i])
    BY <1>2, <1>3, <2>1
  <2>3. LET g == pr[i]
            R == ds[g.func.stmts[s].fn]
            Q == MeetRegs(g, s, R)
        IN  /\ Q \subseteq AvailRegs /\ IsFiniteSet(Q)
            /\ Cardinality(Q) \in Nat /\ Cardinality(Q) <= cs[i]
            /\ SavedRegs(g, s, R) = Q \cup CollidingRegs(g, s)
            /\ Cardinality(SavedRegs(g, s, R)) \in Nat
            /\ Cardinality(SavedRegs(g, s, R)) <= cs[i]
    BY <2>2, MeetWithin, ZenonT(20)
  <2> QED
    BY <2>1, <2>3, Zenon
<1> HIDE DEF f, s, l, i, m, stmt, D, M, m2, args, sv
<1>7. Len(sv) \in Nat /\ Len(sv) <= cs[i]
  <2>1. /\ Len(SavedSeq(f, s, meet)) \in Nat
        /\ Len(SavedSeq(f, s, meet)) <= Cardinality(M \cup CollidingRegs(f, s))
    BY <1>2, <1>3, <1>4, <1>6, SavedSeqFits DEF args
  <2> QED
    BY <1>2, <1>6, <2>1 DEF sv
<1>8. f.spillsize..(f.spillsize + Len(SavedSeq(f, s, meet)) - 1) \subseteq DOMAIN m.frames[TopOf(m)]
  BY <1>2, <1>4, <1>7 DEF sv
<1>9. Passable(f, s, m)
  BY <1>2, <1>4, <1>5, Zenon DEF Passable, args
<1>10. Passed(f, s, m, m2, meet)
  <2>1. Passed(f, s, m, ExecuteAll(m, GenBeforeCall(f, s, meet)), meet)
    BY <1>2, <1>3, <1>6, <1>8, <1>9, BeforeCallDoes
  <2> QED
    BY <2>1 DEF m2, Before, m, f, s
<1>11. /\ IsMachine(m2) /\ SameShape(m, m2)
       /\ \A r \in Regs \ (Scratch \cup ArgRegs(Len(args))) : m2.regs[r] = m.regs[r]
       /\ \A p \in 1..Len(args) : m2.regs[ArgReg[p - 1]] = ValueIn(f, m, args[p])
       /\ \A k \in 1..l : \A w \in DOMAIN st[k].words :
             ~ (k = l /\ w >= f.spillsize) => m2.frames[k][w] = st[k].words[w]
       /\ m2.glob = m.glob
       /\ m2.garr = m.garr
  BY <1>2, <1>10 DEF Passed, args
<1>12. Carries(m2, st)
  BY <1>2, <1>11 DEF Carries, SameShape, TopOf, l
<1>13. ArgRegs(Len(args)) \subseteq D /\ D \subseteq ds[f.name]
  BY <1>2, <1>3, CalledWithin DEF D, args
<1>14. KeepsRegs(rg, m2.regs, D)
  BY <1>1, <1>11, <1>13 DEF KeepsRegs
<1>15. KeepsBelow(pr, ds, st, rg, m2)
  <2>1. \A r \in Regs \ (Scratch \cup ds[pr[st[Len(st)].fi].name]) : m2.regs[r] = rg[r]
    BY <1>1, <1>2, <1>11, <1>13 DEF i, l
  <2>2. ASSUME NEW k \in 1..(Len(st) - 1), NEW w \in DOMAIN st[k].words
        PROVE  m2.frames[k][w] = st[k].words[w]
    <3>1. k \in 1..l /\ k # l
      BY <1>2 DEF l
    <3> QED
      BY <1>11, <3>1
  <2> QED
    BY <2>1, <2>2 DEF KeepsBelow
<1>16. SameArrays(pr, st, m2)
  <2> SUFFICES ASSUME NEW k \in 1..Len(st), NEW w \in 0..(pr[st[k].fi].arraysize - 1)
               PROVE  m2.frames[k][w] = st[k].words[w]
    BY DEF SameArrays
  <2>1. FrameOf(pr, cs, st[k]) /\ FunctionOK(pr[st[k].fi]) /\ cs[st[k].fi] \in Nat
    BY <1>3, FunctionIs DEF StackOK, FrameOf, Reported
  <2>2. w \in DOMAIN st[k].words
    BY <2>1 DEF FrameOf, FunctionOK
  <2>3. k = l => ~ (w >= f.spillsize)
    <3>1. k = l => w \in 0..(f.arraysize - 1)
      BY <1>2 DEF i, l
    <3> QED
      BY <1>4, <3>1
  <2>4. k \in 1..l
    BY DEF l
  <2> QED
    BY <1>11, <2>2, <2>3, <2>4
<1>17. \A p \in DOMAIN args : m2.regs[ArgReg[p - 1]] = SourceArg(pr, st, rg, gl, p)
  BY <1>4, <1>5, <1>11
<1> QED
  BY <1>1, <1>10, <1>11, <1>12, <1>13, <1>14, <1>15, <1>16, <1>17
  DEF Handed, f, s, m, m2, stmt, args, D

\* a frame of function j that has just been entered
Entered(pr, cs, j) ==
    [fi |-> j, pc |-> 1, meet |-> <<>>,
     words |-> [n \in 0..(pr[j].spillsize + cs[j] - 1) |-> Junk]]

\* the frame fr with the registers saved and the words
FrameWith(fr, meet, words) == [fi |-> fr.fi, pc |-> fr.pc, meet |-> meet, words |-> words]

\* The parts of such frames.
LEMMA FrameParts ==
    /\ \A fr, meet, words :
         LET new == FrameWith(fr, meet, words)
         IN  /\ new.fi = fr.fi /\ new.pc = fr.pc /\ new.meet = meet /\ new.words = words
             /\ new = [fi |-> new.fi, pc |-> new.pc, meet |-> new.meet, words |-> new.words]
    /\ \A pr, cs, j :
         LET new == Entered(pr, cs, j)
         IN  /\ new.fi = j /\ new.pc = 1 /\ new.meet = <<>>
             /\ new.words = [n \in 0..(pr[j].spillsize + cs[j] - 1) |-> Junk]
             /\ new = [fi |-> new.fi, pc |-> new.pc, meet |-> new.meet, words |-> new.words]
  BY DEF FrameWith, Entered

\* the registers that call k of st has saved, the last having saved meet
MeetAt(st, k, meet) == IF k = Len(st) THEN meet ELSE st[k].meet

\* the calls st, the last of which waits for j and has saved the registers meet
CalledOn(pr, cs, st, j, meet, m) ==
    [k \in 1..(Len(st) + 1) |->
        IF k = Len(st) + 1 THEN Entered(pr, cs, j)
        ELSE FrameWith(st[k], MeetAt(st, k, meet), m.frames[k])]

\* t is that
IsCalledOn(pr, cs, st, j, meet, m, t) ==
    /\ IsList(t) /\ Len(t) = Len(st) + 1
    /\ t[Len(st) + 1] = Entered(pr, cs, j)
    /\ \A k \in 1..Len(st) : t[k] = FrameWith(st[k], MeetAt(st, k, meet), m.frames[k])

\* CalledOn adds the frame of j on top of a caller that waits, and nothing else.
LEMMA CalledOnIs ==
    ASSUME NEW pr, NEW cs, NEW st, NEW j, NEW meet, NEW m,
           IsList(st)
    PROVE  IsCalledOn(pr, cs, st, j, meet, m, CalledOn(pr, cs, st, j, meet, m))
<1> DEFINE t == CalledOn(pr, cs, st, j, meet, m)
           l == Len(st)
<1>1. l \in Nat /\ l + 1 \in Nat
  BY ListIs
<1>2. t = [k \in 1..(l + 1) |-> t[k]]
  BY DEF CalledOn
<1>3. \A k \in 1..(l + 1) : t[k] = IF k = l + 1 THEN Entered(pr, cs, j)
                                    ELSE FrameWith(st[k], MeetAt(st, k, meet), m.frames[k])
  BY DEF CalledOn
<1> HIDE DEF t, l
<1>4. IsList(t) /\ Len(t) = l + 1
  BY <1>1, <1>2, FunctionList
<1>5. t[l + 1] = Entered(pr, cs, j)
  BY <1>1, <1>3
<1>6. ASSUME NEW k \in 1..l
      PROVE  t[k] = FrameWith(st[k], MeetAt(st, k, meet), m.frames[k])
  <2>1. k \in 1..(l + 1) /\ k # l + 1
    BY <1>1
  <2> QED
    BY <1>3, <2>1
<1> QED
  BY <1>4, <1>5, <1>6 DEF IsCalledOn, t, l

\* A call leaves a stack.
LEMMA CalledOK ==
    ASSUME NEW pr, NEW ds, NEW cs, NEW st, NEW rg, NEW gl, NEW ga, NEW j, NEW meet, NEW m,
           Going(pr, ds, cs, st, rg, gl, ga),
           Calling(pr, ds, st, meet),
           j \in DOMAIN pr,
           pr[j].name = TopStmt(pr, st).fn,
           Handed(pr, ds, st, rg, gl, ga, m, meet)
    PROVE  Going(pr, ds, cs, CalledOn(pr, cs, st, j, meet, m), m.regs, m.glob, m.garr)
<1> DEFINE t == CalledOn(pr, cs, st, j, meet, m)
           l == Len(st)
<1>1. Reported(pr, ds, cs) /\ StackOK(pr, ds, cs, st) /\ IsList(st) /\ l > 0
  BY DEF Going, StackOK
<1>2. IsCalledOn(pr, cs, st, j, meet, m, t)
  BY <1>1, CalledOnIs
<1>3. l \in Nat /\ l \in 1..l /\ l + 1 \in 1..(l + 1)
  BY <1>1, ListIs
<1> HIDE DEF t, l
<1>4. /\ IsList(t) /\ Len(t) = l + 1
      /\ t[l + 1] = Entered(pr, cs, j)
      /\ \A k \in 1..l : t[k] = FrameWith(st[k], MeetAt(st, k, meet), m.frames[k])
  BY <1>2 DEF IsCalledOn, l
<1>5. \A k \in 1..l : /\ t[k] = [fi |-> t[k].fi, pc |-> t[k].pc, meet |-> t[k].meet, words |-> t[k].words]
                      /\ t[k].fi = st[k].fi /\ t[k].pc = st[k].pc /\ t[k].words = m.frames[k]
                      /\ t[k].meet = MeetAt(st, k, meet)
  BY <1>4, FrameParts
<1>6. IsMachine(m) /\ TopOf(m) = l /\ DOMAIN m.frames = 1..l
      /\ \A k \in 1..l : DOMAIN m.frames[k] = DOMAIN st[k].words
  BY ListIs DEF Handed, Carries, l, IsMachine, TopOf
<1>7. FunctionOK(pr[j]) /\ cs[j] \in Nat /\ Junk \in Nat
  BY <1>1, FunctionIs, OperatorType DEF Reported
<1>8. ASSUME NEW k \in 1..(l + 1) PROVE FrameOf(pr, cs, t[k])
  <2>1. CASE k = l + 1
    <3> DEFINE e == Entered(pr, cs, j)
               w == [n \in 0..(pr[j].spillsize + cs[j] - 1) |-> Junk]
    <3>1. w \in [0..(pr[j].spillsize + cs[j] - 1) -> Nat]
      BY <1>7
    <3> HIDE DEF w
    <3>3. e.fi = j /\ e.pc = 1 /\ e.meet = <<>> /\ e.words = w
          /\ e = [fi |-> e.fi, pc |-> e.pc, meet |-> e.meet, words |-> e.words]
      BY FrameParts DEF w
    <3>4. 1 \in Reached(pr[j].func)
      BY <1>7 DEF FunctionOK
    <3> HIDE DEF e
    <3>5. FrameOf(pr, cs, e)
      BY <3>1, <3>3, <3>4 DEF FrameOf
    <3> QED
      BY <1>4, <2>1, <3>5 DEF e
  <2>2. CASE k # l + 1
    <3>1. k \in 1..l
      BY <1>3, <2>2
    <3>2. FrameOf(pr, cs, st[k])
      BY <1>1, <3>1 DEF StackOK, l
    <3>3. m.frames[k] \in [DOMAIN st[k].words -> Nat]
      BY <1>6, <3>1 DEF IsMachine
    <3>4. m.frames[k] \in [0..(pr[st[k].fi].spillsize + cs[st[k].fi] - 1) -> Nat]
      BY <3>2, <3>3 DEF FrameOf
    <3> QED
      BY <1>5, <3>1, <3>2, <3>4 DEF FrameOf
  <2> QED
    BY <2>1, <2>2
<1>9. ASSUME NEW k \in 1..l
      PROVE  Waits(pr, ds, t[k]) /\ Awaited(pr, t[k]) = pr[t[k + 1].fi].name
  <2>1. CASE k = l
    <3>1. t[l].fi = st[l].fi /\ t[l].pc = st[l].pc /\ t[l].meet = meet /\ t[l + 1].fi = j
      BY <1>3, <1>4, <1>5, FrameParts DEF MeetAt, l
    <3>2. /\ st[l].pc \in Calls(pr[st[l].fi])
          /\ meet \in SetToSeqs(MeetRegs(pr[st[l].fi], st[l].pc, ds[pr[st[l].fi].func.stmts[st[l].pc].fn]))
      BY DEF Calling, TopF, TopS, TopStmt, l
    <3>3. pr[j].name = pr[st[l].fi].func.stmts[st[l].pc].fn
      BY DEF TopF, TopS, TopStmt, l
    <3> QED
      BY <2>1, <3>1, <3>2, <3>3 DEF Waits, Awaited
  <2>2. CASE k # l
    <3>1. k \in 1..(l - 1) /\ k + 1 \in 1..l
      BY <1>3, <2>2
    <3>2. Waits(pr, ds, st[k]) /\ Awaited(pr, st[k]) = pr[st[k + 1].fi].name
      BY <1>1, <3>1 DEF StackOK, l
    <3>3. t[k].fi = st[k].fi /\ t[k].pc = st[k].pc /\ t[k].meet = st[k].meet /\ t[k + 1].fi = st[k + 1].fi
      BY <1>4, <1>5, <2>2, <3>1 DEF MeetAt, l
    <3> QED
      BY <3>2, <3>3 DEF Waits, Awaited
  <2> QED
    BY <2>1, <2>2
<1>10. t[1].fi = Len(pr)
  <2>1. 1 \in 1..l
    BY <1>3
  <2>2. st[1].fi = Len(pr)
    BY <1>1 DEF StackOK, l
  <2> QED
    BY <1>5, <2>1, <2>2
<1>11. ds[pr[j].name] \subseteq ds[pr[st[l].fi].name]
  <2>1. FrameOf(pr, cs, st[l])
    BY <1>1, <1>3 DEF StackOK, l
  <2>2. st[l].fi \in DOMAIN pr /\ TopS(st) \in Calls(pr[st[l].fi])
    BY <2>1 DEF FrameOf, Calling, TopF, l
  <2>3. ds[pr[st[l].fi].func.stmts[TopS(st)].fn] \subseteq ds[pr[st[l].fi].name]
    BY <1>1, <2>2, CalledWithin
  <2> QED
    BY <2>3 DEF TopStmt, TopF, l
<1>12. ASSUME NEW i \in 1..(l + 1), NEW k \in 1..(l + 1), k <= i
       PROVE  ds[pr[t[i].fi].name] \subseteq ds[pr[t[k].fi].name]
  <2>1. \A a, b \in 1..l : b <= a => ds[pr[t[a].fi].name] \subseteq ds[pr[t[b].fi].name]
    BY <1>1, <1>5 DEF StackOK, l
  <2>2. ASSUME NEW b \in 1..l PROVE ds[pr[j].name] \subseteq ds[pr[t[b].fi].name]
    <3>1. ds[pr[t[l].fi].name] \subseteq ds[pr[t[b].fi].name]
      BY <1>3, <2>1
    <3>2. t[l].fi = st[l].fi
      BY <1>3, <1>5
    <3> QED
      BY <1>11, <3>1, <3>2
  <2>3. t[l + 1].fi = j
    BY <1>4, FrameParts
  <2>4. CASE i \in 1..l /\ k \in 1..l
    BY <1>12, <2>1, <2>4
  <2>5. CASE i = l + 1 /\ k \in 1..l
    BY <2>2, <2>3, <2>5
  <2>6. CASE i = l + 1 /\ k = l + 1
    BY <2>6
  <2> QED
    BY <1>3, <1>12, <2>4, <2>5, <2>6
<1>13. StackOK(pr, ds, cs, t)
  <2>1. \A k \in 1..(Len(t) - 1) : k \in 1..l
    BY <1>3, <1>4
  <2>2. Len(t) > 0
    BY <1>3, <1>4
  <2> QED
    BY <1>4, <1>8, <1>9, <1>10, <1>12, <2>1, <2>2 DEF StackOK
<1>14. StoreOK(m.regs, m.glob, m.garr)
  BY <1>6 DEF IsMachine, StoreOK
<1>15. t[Len(t)].meet = <<>> /\ Len(t) > 0
  BY <1>3, <1>4, FrameParts
<1> QED
  BY <1>1, <1>13, <1>14, <1>15 DEF Going, t

-------------------------------------------------------------------------------
\* what the source sees of the caller, and of the function called
SourceCaller(pr, st, rg) ==
    [AllAsSource(pr, st, rg)[Len(st)] EXCEPT !.env =
        [y \in MeetOf(TopF(pr, st).func, TopF(pr, st).alive, TopS(st)) \ Defs(TopStmt(pr, st)) |-> @[y]]]

SourceParams(pr, st, rg, gl) ==
    [i \in DOMAIN TopStmt(pr, st).args |-> SourceArg(pr, st, rg, gl, i)]

SourceCallee(pr, st, rg, gl, j) ==
    [fi |-> j, pc |-> 1,
     env |-> [y \in pr[j].alive[1] |-> SourceParams(pr, st, rg, gl)[y - REGUID_ARG_OFFSET + 1]],
     arr |-> [i \in 0..(pr[j].arraysize - 1) |-> Junk]]

\* j looks as the source says where it is entered
Enters(pr, cs, st, rg, gl, j, m) ==
    AsSource(pr[j], Entered(pr, cs, j), m.regs, TRUE) = SourceCallee(pr, st, rg, gl, j)

\* Parameters arrive where the function called has its arguments.
LEMMA CalleeHeld ==
    ASSUME NEW pr, NEW ds, NEW cs, NEW st, NEW rg, NEW gl, NEW ga, NEW j, NEW meet, NEW m,
           Going(pr, ds, cs, st, rg, gl, ga),
           Calling(pr, ds, st, meet),
           j \in DOMAIN pr,
           pr[j].name = TopStmt(pr, st).fn,
           Handed(pr, ds, st, rg, gl, ga, m, meet)
    PROVE  Enters(pr, cs, st, rg, gl, j, m)
<1> DEFINE f == pr[j]
           e == Entered(pr, cs, j)
           args == TopStmt(pr, st).args
           l == Len(st)
<1>1. Reported(pr, ds, cs) /\ FunctionOK(f) /\ cs[j] \in Nat
  BY FunctionIs DEF Going, Reported
<1>2. Len(args) = f.func.params /\ DOMAIN args = 1..Len(args) /\ Len(args) \in 0..MaxArgs
  <2>1. TopIs(pr, cs, st, MachineOf(st, rg, gl, ga))
    BY GoingIs
  <2>2. FrameOf(pr, cs, st[l]) /\ FunctionOK(pr[st[l].fi])
    BY <2>1 DEF TopIs, TopF
  <2>3. st[l].fi \in DOMAIN pr /\ TopS(st) \in Calls(pr[st[l].fi])
    BY <2>2 DEF FrameOf, Calling, TopF
  <2>4. \A k \in DOMAIN pr : pr[k].name = pr[st[l].fi].func.stmts[TopS(st)].fn
          => Len(pr[st[l].fi].func.stmts[TopS(st)].args) = pr[k].func.params
    BY <1>1, <2>3, CalledWithin, Zenon
  <2>5. args = pr[st[l].fi].func.stmts[TopS(st)].args
        /\ TopStmt(pr, st).fn = pr[st[l].fi].func.stmts[TopS(st)].fn
    BY DEF TopStmt, TopF
  <2>6. Len(args) \in 0..MaxArgs /\ DOMAIN args = 1..Len(args)
    BY <2>2, <2>3, <2>5, Zenon DEF FunctionOK
  <2> QED
    BY <2>4, <2>5, <2>6, Zenon
<1>3. \A p \in DOMAIN args : m.regs[ArgReg[p - 1]] = SourceArg(pr, st, rg, gl, p)
  BY DEF Handed
<1>4. e.fi = j /\ e.pc = 1 /\ e.meet = <<>>
      /\ e.words = [n \in 0..(f.spillsize + cs[j] - 1) |-> Junk]
  BY FrameParts
<1> HIDE DEF e, f, args
<1>5. ASSUME NEW y \in f.alive[1]
      PROVE  HeldBy(f, e, m.regs, y) = SourceParams(pr, st, rg, gl)[y - REGUID_ARG_OFFSET + 1]
  <2>1. PICK k \in 0..(f.func.params - 1) : y = Arg(k)
    BY <1>1 DEF FunctionOK
  <2>2. f.func.params \in Nat /\ k \in Nat
    BY <1>1 DEF FunctionOK
  <2>3. f.vreg[y] = InReg(ArgReg[k])
    BY <1>1, <2>1 DEF FunctionOK
  <2>4. y - REGUID_ARG_OFFSET + 1 = k + 1 /\ k + 1 \in DOMAIN args /\ (k + 1) - 1 = k
    BY <1>2, <2>1, <2>2 DEF Arg, REGUID_ARG_OFFSET
  <2>5. SourceParams(pr, st, rg, gl)[k + 1] = SourceArg(pr, st, rg, gl, k + 1)
    BY <2>4 DEF SourceParams, args
  <2>6. m.regs[ArgReg[k]] = SourceArg(pr, st, rg, gl, k + 1)
    BY <1>3, <2>4
  <2>7. HeldBy(f, e, m.regs, y) = m.regs[ArgReg[k]]
    <3>1. ~ \E i \in 1..Len(<<>>) : TRUE
      OBVIOUS
    <3>2. \A r : ~ Contains(e.meet, r)
      BY <1>4, <3>1 DEF Contains
    <3>3. f.vreg[y].pos = "reg" /\ f.vreg[y].reg = ArgReg[k] /\ f.vreg[y].pos # "stack"
      BY <2>3, Kinds
    <3> QED
      BY <3>2, <3>3 DEF HeldBy
  <2> QED
    BY <2>4, <2>5, <2>6, <2>7
<1>6. ASSUME NEW i \in 0..(f.arraysize - 1) PROVE e.words[i] = Junk
  <2>1. i \in 0..(f.spillsize + cs[j] - 1)
    BY <1>1 DEF FunctionOK
  <2> QED
    BY <1>4, <2>1
<1>7. AsSource(f, e, m.regs, TRUE) =
        [fi |-> j, pc |-> 1,
         env |-> [x \in f.alive[1] |-> HeldBy(f, e, m.regs, x)],
         arr |-> [i \in 0..(f.arraysize - 1) |-> e.words[i]]]
  BY <1>4 DEF AsSource, AliveIn
<1>8. SourceCallee(pr, st, rg, gl, j) =
        [fi |-> j, pc |-> 1,
         env |-> [y \in f.alive[1] |-> SourceParams(pr, st, rg, gl)[y - REGUID_ARG_OFFSET + 1]],
         arr |-> [i \in 0..(f.arraysize - 1) |-> Junk]]
  BY DEF SourceCallee, f
<1>9. [x \in f.alive[1] |-> HeldBy(f, e, m.regs, x)] =
        [y \in f.alive[1] |-> SourceParams(pr, st, rg, gl)[y - REGUID_ARG_OFFSET + 1]]
  BY <1>5
<1>10. [i \in 0..(f.arraysize - 1) |-> e.words[i]] = [i \in 0..(f.arraysize - 1) |-> Junk]
  BY <1>6
<1> QED
  BY <1>7, <1>8, <1>9, <1>10 DEF Enters, f, e

\* the list fs, a and b being in the place of its last
EndsIn(fs, a, b) ==
    Front(fs) \o <<a, b>> =
        [k \in 1..(Len(fs) + 1) |->
            IF k = Len(fs) + 1 THEN b ELSE IF k = Len(fs) THEN a ELSE fs[k]]

\* The last of a list becomes two.
LEMMA LastBecomes ==
    ASSUME NEW fs, NEW a, NEW b, IsList(fs), Len(fs) > 0
    PROVE  EndsIn(fs, a, b)
<1> DEFINE l == Len(fs)
           t == [k \in 1..(l + 1) |-> IF k = l + 1 THEN b ELSE IF k = l THEN a ELSE fs[k]]
           p == Front(fs)
           q == <<a, b>>
           g == p \o q
<1>1. l \in Nat /\ l > 0 /\ IsList(p) /\ Len(p) = l - 1 /\ \A i \in 1..(l - 1) : p[i] = fs[i]
  BY ListIs, ListFront
<1>2. IsList(q) /\ Len(q) = 2 /\ q[1] = a /\ q[2] = b
  BY ShortLists
<1>3. t = [k \in 1..(l + 1) |-> t[k]]
      /\ \A k \in 1..(l + 1) : t[k] = IF k = l + 1 THEN b ELSE IF k = l THEN a ELSE fs[k]
  OBVIOUS
<1> HIDE DEF l, t, p, q
<1>4. IsList(t) /\ Len(t) = l + 1
  BY <1>1, <1>3, FunctionList
<1>5. /\ IsList(g) /\ Len(g) = Len(p) + Len(q)
      /\ \A i \in 1..(Len(p) + Len(q)) : g[i] = IF i <= Len(p) THEN p[i] ELSE q[i - Len(p)]
  BY <1>1, <1>2, ListConcat
<1> HIDE DEF g
<1>6. Len(g) = l + 1
  BY <1>1, <1>2, <1>5
<1>7. ASSUME NEW i \in 1..Len(g) PROVE g[i] = t[i]
  <2>1. g[i] = IF i <= l - 1 THEN p[i] ELSE q[i - (l - 1)]
    BY <1>1, <1>2, <1>5, <1>6
  <2>2. CASE i <= l - 1
    BY <1>1, <1>3, <1>6, <2>1, <2>2
  <2>3. CASE i = l
    <3>1. i - (l - 1) = 1 /\ ~ (i <= l - 1) /\ i # l + 1 /\ i \in 1..(l + 1)
      BY <1>1, <2>3
    <3> QED
      BY <1>2, <1>3, <2>1, <2>3, <3>1
  <2>4. CASE i = l + 1
    <3>1. i - (l - 1) = 2 /\ ~ (i <= l - 1) /\ i \in 1..(l + 1)
      BY <1>1, <2>4
    <3> QED
      BY <1>2, <1>3, <2>1, <2>4, <3>1
  <2> QED
    BY <1>1, <1>6, <2>2, <2>3, <2>4
<1>8. g = t
  BY <1>4, <1>5, <1>6, <1>7, ListEqual
<1> QED
  BY <1>8 DEF EndsIn, g, t, p, q, l

\* fr looks as call k of st did
AsWas(pr, st, rg, m, k, fr) ==
    AsSource(pr[st[k].fi], fr, m.regs, FALSE) = AllAsSource(pr, st, rg)[k]

\* The calls below go on to look the same when the arrays are the same.
LEMMA BelowAsWas ==
    ASSUME NEW pr, NEW ds, NEW cs, NEW st, NEW rg, NEW m, NEW fr, NEW k,
           k \in Waiting(st),
           Reported(pr, ds, cs),
           StackOK(pr, ds, cs, st),
           KeepsBelow(pr, ds, st, rg, m),
           SameArrays(pr, st, m),
           fr.fi = st[k].fi, fr.pc = st[k].pc, fr.meet = st[k].meet, fr.words = m.frames[k]
    PROVE  AsWas(pr, st, rg, m, k, fr)
<1>1. Unnoticed(pr, st, rg, m, k, fr)
  BY BelowSame
<1>2. k \in 1..Len(st) /\ (k = Len(st)) = FALSE
  BY ListIs DEF Waiting, StackOK
<1>3. WithArrays(pr, st, rg, m) = AllAsSource(pr, st, rg)
  BY ArraysSame
<1>4. WithArrays(pr, st, rg, m)[k] =
        Seen(pr, st, m, k, st[k].pc, AsSource(pr[st[k].fi], st[k], rg, k = Len(st)).env)
  BY <1>2 DEF WithArrays
<1>5. AsSource(pr[st[k].fi], st[k], rg, k = Len(st)) = AsSource(pr[st[k].fi], st[k], rg, FALSE)
  BY <1>2
<1> QED
  BY <1>1, <1>3, <1>4, <1>5 DEF Unnoticed, AsWas

\* fr2 is the frame fr of a function that has begun to wait, m having become m2
BeginsToWait(pr, ds, cs, fr, fr2, m, m2) ==
    /\ Reported(pr, ds, cs)
    /\ FrameOf(pr, cs, fr)
    /\ Waits(pr, ds, fr2)
    /\ fr2.fi = fr.fi /\ fr2.pc = fr.pc
    /\ fr2.words = m2.frames[TopOf(m)]
    /\ IsMachine(m)
    /\ m.frames[TopOf(m)] = fr.words
    /\ Passed(pr[fr.fi], fr.pc, m, m2, fr2.meet)
    /\ ArgRegs(Len(pr[fr.fi].func.stmts[fr.pc].args)) \subseteq ds[Awaited(pr, fr)]

\* x is held in fr2 as it was in m
HeldAs(pr, fr, fr2, m, m2, x) ==
    /\ HeldBy(pr[fr.fi], fr2, m2.regs, x) = ValueIn(pr[fr.fi], m, x)
    /\ x \in pr[fr.fi].alive[fr.pc]

\* What is alive afterwards is held.
LEMMA EachHeld ==
    ASSUME NEW pr, NEW ds, NEW cs, NEW fr, NEW fr2, NEW m, NEW m2, NEW x,
           BeginsToWait(pr, ds, cs, fr, fr2, m, m2),
           x \in Needed(pr, fr)
    PROVE  HeldAs(pr, fr, fr2, m, m2, x)
<1>1. x \in MeetOf(pr[fr.fi].func, pr[fr.fi].alive, fr.pc) \ Defs(pr[fr.fi].func.stmts[fr.pc])
  BY DEF Needed
<1>2. /\ HeldBy(pr[fr.fi], fr2, m2.regs, x) = ValueIn(pr[fr.fi], m, x)
      /\ x \in pr[fr.fi].alive[fr.pc]
  BY <1>1, SuspendedHeld DEF BeginsToWait
<1> QED
  BY <1>2 DEF HeldAs

\* the frame fr of a function that has begun to wait looks as the source says
Suspends(pr, st, rg, fr, m) ==
    AsSource(TopF(pr, st), fr, m.regs, FALSE) = SourceCaller(pr, st, rg)

\* What a caller needs afterwards is kept.
LEMMA CallerHeld ==
    ASSUME NEW pr, NEW ds, NEW cs, NEW st, NEW rg, NEW gl, NEW ga, NEW meet, NEW m, NEW fr,
           Going(pr, ds, cs, st, rg, gl, ga),
           Calling(pr, ds, st, meet),
           Handed(pr, ds, st, rg, gl, ga, m, meet),
           fr = FrameWith(st[Len(st)], meet, m.frames[Len(st)])
    PROVE  Suspends(pr, st, rg, fr, m)
<1> DEFINE f == TopF(pr, st)
           s == TopS(st)
           l == Len(st)
           m0 == MachineOf(st, rg, gl, ga)
           A == MeetOf(f.func, f.alive, s) \ Defs(f.func.stmts[s])
           fr0 == st[l]
           rg2 == m.regs
<1>1. TopIs(pr, cs, st, m0) /\ Reported(pr, ds, cs)
  BY GoingIs DEF Going
<1>2. /\ IsMachine(m0) /\ TopOf(m0) = l /\ m0.frames[TopOf(m0)] = fr0.words
      /\ FrameOf(pr, cs, fr0) /\ l \in 1..l
      /\ f = pr[fr0.fi] /\ s = fr0.pc
  BY <1>1 DEF TopIs, TopF, TopS
<1>3. \A x \in f.alive[s] : TopEnv(pr, st, rg)[x] = ValueIn(f, m0, x)
  BY AliveNow
<1>4. /\ fr.fi = fr0.fi /\ fr.pc = fr0.pc /\ fr.meet = meet /\ fr.words = m.frames[TopOf(m0)]
      /\ fr.words = m.frames[l]
  BY <1>2, FrameParts
<1>5. Waits(pr, ds, fr)
  <2>1. /\ fr0.pc \in Calls(pr[fr0.fi])
        /\ meet \in SetToSeqs(MeetRegs(pr[fr0.fi], fr0.pc, ds[pr[fr0.fi].func.stmts[fr0.pc].fn]))
    BY DEF Calling, TopF, TopS, TopStmt
  <2> HIDE DEF fr0
  <2> QED
    BY <1>4, <2>1 DEF Waits, Awaited
<1>6. /\ Passed(pr[fr0.fi], fr0.pc, m0, m, fr.meet)
      /\ ArgRegs(Len(pr[fr0.fi].func.stmts[fr0.pc].args)) \subseteq ds[Awaited(pr, fr0)]
  BY <1>4, Zenon DEF Handed, TopF, TopS, TopStmt, Awaited
<1>7. SameArrays(pr, st, m)
  BY DEF Handed
<1>8. AllAsSource(pr, st, rg)[l] =
        [fi |-> fr0.fi, pc |-> fr0.pc, env |-> TopEnv(pr, st, rg),
         arr |-> [i \in 0..(f.arraysize - 1) |-> fr0.words[i]]]
  <2>1. AllAsSource(pr, st, rg)[l] = AsSource(pr[st[l].fi], st[l], rg, l = Len(st))
    BY <1>2 DEF AllAsSource
  <2> QED
    BY <2>1 DEF AsSource, TopEnv, TopF
<1> HIDE DEF f, s, l, m0, fr0, rg2
<1>9. ASSUME NEW x \in A
      PROVE  HeldBy(f, fr, rg2, x) = TopEnv(pr, st, rg)[x]
  <2>1. x \in MeetOf(pr[fr0.fi].func, pr[fr0.fi].alive, fr0.pc) \ Defs(pr[fr0.fi].func.stmts[fr0.pc])
    BY <1>2
  <2> HIDE DEF A
  <2>2. /\ HeldBy(pr[fr0.fi], fr, m.regs, x) = ValueIn(pr[fr0.fi], m0, x)
        /\ x \in pr[fr0.fi].alive[fr0.pc]
    <3>1. BeginsToWait(pr, ds, cs, fr0, fr, m0, m)
      BY <1>1, <1>2, <1>4, <1>5, <1>6 DEF BeginsToWait
    <3>2. x \in Needed(pr, fr0)
      BY <2>1 DEF Needed
    <3>3. HeldAs(pr, fr0, fr, m0, m, x)
      BY <3>1, <3>2, EachHeld
    <3> QED
      BY <3>3 DEF HeldAs
  <2> QED
    BY <1>2, <1>3, <2>2 DEF rg2
<1>10. AsSource(f, fr, rg2, FALSE) =
         [fi |-> fr0.fi, pc |-> fr0.pc, env |-> [x \in A |-> HeldBy(f, fr, rg2, x)],
          arr |-> [i \in 0..(f.arraysize - 1) |-> fr.words[i]]]
  BY <1>2, <1>4 DEF AsSource, AliveIn
<1>11. \A i \in 0..(f.arraysize - 1) : fr.words[i] = fr0.words[i]
  BY <1>2, <1>4, <1>7 DEF SameArrays, fr0, l
<1>12. SourceCaller(pr, st, rg) =
         [fi |-> fr0.fi, pc |-> fr0.pc, env |-> [x \in A |-> TopEnv(pr, st, rg)[x]],
          arr |-> [i \in 0..(f.arraysize - 1) |-> fr0.words[i]]]
  <2>1. SourceCaller(pr, st, rg) =
           [AllAsSource(pr, st, rg)[l] EXCEPT !.env = [y \in A |-> TopEnv(pr, st, rg)[y]]]
    <3>1. AllAsSource(pr, st, rg)[l].env = TopEnv(pr, st, rg)
      BY DEF TopEnv, l
    <3>2. A = MeetOf(TopF(pr, st).func, TopF(pr, st).alive, TopS(st)) \ Defs(TopStmt(pr, st))
      BY DEF f, s, TopStmt
    <3> HIDE DEF A
    <3> QED
      BY <3>1, <3>2 DEF SourceCaller, l
  <2> DEFINE e == [y \in A |-> TopEnv(pr, st, rg)[y]]
             r == AllAsSource(pr, st, rg)[l]
             w == [i \in 0..(f.arraysize - 1) |-> fr0.words[i]]
  <2>2. r = [fi |-> fr0.fi, pc |-> fr0.pc, env |-> TopEnv(pr, st, rg), arr |-> w]
    BY <1>8
  <2>3. SourceCaller(pr, st, rg) = [r EXCEPT !.env = e]
    BY <2>1
  <2> HIDE DEF e, r, w
  <2>4. SourceCaller(pr, st, rg) = [fi |-> fr0.fi, pc |-> fr0.pc, env |-> e, arr |-> w]
    BY <2>2, <2>3
  <2> QED
    BY <2>4 DEF e, w
<1>13. [x \in A |-> HeldBy(f, fr, rg2, x)] = [x \in A |-> TopEnv(pr, st, rg)[x]]
  BY <1>9
<1>14. [i \in 0..(f.arraysize - 1) |-> fr.words[i]] = [i \in 0..(f.arraysize - 1) |-> fr0.words[i]]
  BY <1>11
<1> QED
  BY <1>10, <1>12, <1>13, <1>14 DEF Suspends, f, rg2

\* What the source sees of a call.
LEMMA CallSource ==
    ASSUME NEW pr, NEW ds, NEW cs, NEW st, NEW rg, NEW gl, NEW ga, NEW j, NEW meet, NEW m,
           Going(pr, ds, cs, st, rg, gl, ga),
           Calling(pr, ds, st, meet),
           j \in DOMAIN pr,
           pr[j].name = TopStmt(pr, st).fn,
           Handed(pr, ds, st, rg, gl, ga, m, meet)
    PROVE  AllAsSource(pr, CalledOn(pr, cs, st, j, meet, m), m.regs) =
             Front(AllAsSource(pr, st, rg))
                \o <<SourceCaller(pr, st, rg), SourceCallee(pr, st, rg, gl, j)>>
<1> DEFINE t == CalledOn(pr, cs, st, j, meet, m)
           l == Len(st)
           fs == AllAsSource(pr, st, rg)
           gs == AllAsSource(pr, t, m.regs)
           a == SourceCaller(pr, st, rg)
           b == SourceCallee(pr, st, rg, gl, j)
<1>1. Reported(pr, ds, cs) /\ StackOK(pr, ds, cs, st) /\ IsList(st) /\ l > 0
  BY DEF Going, StackOK
<1>2. IsCalledOn(pr, cs, st, j, meet, m, t)
  BY <1>1, CalledOnIs
<1>3. l \in Nat /\ l \in 1..l /\ l + 1 \in 1..(l + 1)
  BY <1>1, ListIs
<1>4. IsList(fs) /\ Len(fs) = l
  <2>1. fs = [k \in 1..l |-> fs[k]]
    BY WithArraysIs
  <2> HIDE DEF fs, l
  <2> QED
    BY <1>3, <2>1, FunctionList
<1>5. AsSource(pr[j], Entered(pr, cs, j), m.regs, TRUE) = b
  <2>1. Enters(pr, cs, st, rg, gl, j, m)
    BY CalleeHeld
  <2> QED
    BY <2>1 DEF Enters
<1>6. KeepsBelow(pr, ds, st, rg, m) /\ SameArrays(pr, st, m)
  BY DEF Handed
<1> HIDE DEF t, l
<1>7. /\ Len(t) = l + 1
      /\ t[l + 1] = Entered(pr, cs, j)
      /\ \A k \in 1..l : t[k] = FrameWith(st[k], MeetAt(st, k, meet), m.frames[k])
  BY <1>2 DEF IsCalledOn, l
<1>8. gs = [k \in 1..(l + 1) |-> AsSource(pr[t[k].fi], t[k], m.regs, k = l + 1)]
  BY <1>7 DEF AllAsSource
<1>9. ASSUME NEW k \in 1..(l + 1)
      PROVE  AsSource(pr[t[k].fi], t[k], m.regs, k = l + 1) =
                IF k = l + 1 THEN b ELSE IF k = l THEN a ELSE fs[k]
  <2>1. CASE k = l + 1
    <3>1. t[k].fi = j /\ (k = l + 1) = TRUE
      BY <1>7, <2>1, FrameParts
    <3> HIDE DEF b
    <3>2. AsSource(pr[t[k].fi], t[k], m.regs, TRUE) = b
      BY <1>5, <1>7, <2>1, <3>1
    <3> QED
      BY <2>1, <3>1, <3>2
  <2>2. CASE k = l
    <3> DEFINE fr == t[l]
    <3>1. fr = FrameWith(st[Len(st)], meet, m.frames[Len(st)]) /\ fr.fi = st[Len(st)].fi
      BY <1>3, <1>7, FrameParts DEF MeetAt, l
    <3> HIDE DEF fr
    <3>2. Suspends(pr, st, rg, fr, m)
      BY <3>1, CallerHeld
    <3>3. pr[fr.fi] = TopF(pr, st)
      BY <3>1 DEF TopF
    <3>4. AsSource(pr[fr.fi], fr, m.regs, FALSE) = a
      BY <3>2, <3>3 DEF Suspends
    <3>5. (k = l + 1) = FALSE /\ k # l + 1
      BY <1>3, <2>2
    <3> HIDE DEF a
    <3> QED
      BY <2>2, <3>4, <3>5 DEF fr
  <2>3. CASE k # l + 1 /\ k # l
    <3>1. k \in Waiting(st) /\ k \in 1..l
      BY <1>3, <2>3 DEF Waiting, l
    <3> DEFINE fr == t[k]
    <3>2. fr.fi = st[k].fi /\ fr.pc = st[k].pc /\ fr.meet = st[k].meet /\ fr.words = m.frames[k]
      BY <1>7, <2>3, <3>1, FrameParts DEF MeetAt, l
    <3> HIDE DEF fr, fs
    <3>5. AsWas(pr, st, rg, m, k, fr)
      BY <1>1, <1>6, <3>1, <3>2, BelowAsWas
    <3>3. AsSource(pr[st[k].fi], fr, m.regs, FALSE) = AllAsSource(pr, st, rg)[k]
      BY <3>5 DEF AsWas
    <3>4. (k = l + 1) = FALSE
      BY <2>3
    <3> QED
      BY <2>3, <3>2, <3>3, <3>4 DEF fr, fs
  <2> QED
    BY <2>1, <2>2, <2>3
<1> HIDE DEF a, b, fs
<1>10. gs = [k \in 1..(l + 1) |-> IF k = l + 1 THEN b ELSE IF k = l THEN a ELSE fs[k]]
  BY <1>8, <1>9
<1>11. EndsIn(fs, a, b)
  BY <1>1, <1>3, <1>4, LastBecomes DEF l
<1> HIDE DEF gs
<1>12. gs = Front(fs) \o <<a, b>>
  BY <1>4, <1>10, <1>11 DEF EndsIn
<1> QED
  BY <1>12 DEF gs, fs, a, b, t

-------------------------------------------------------------------------------
(* A return to the caller.                                                 *)

\* what the source sees of the calls wt, all of which wait
WaitSource(pr, wt, rg) == [k \in 1..Len(wt) |-> AsSource(pr[wt[k].fi], wt[k], rg, FALSE)]

\* the function that the last of the calls wt has called is over
Resumable(pr, ds, cs, wt, rg, gl, ga) ==
    /\ Reported(pr, ds, cs)
    /\ StackOK(pr, ds, cs, wt)
    /\ Len(wt) > 0
    /\ Waits(pr, ds, wt[Len(wt)])
    /\ StoreOK(rg, gl, ga)

\* the waiting frame fr has become fr2, the registers rg have become rg2
KeptFor(pr, ds, cs, fr, fr2, rg, rg2) ==
    /\ Reported(pr, ds, cs)
    /\ FrameOf(pr, cs, fr)
    /\ Waits(pr, ds, fr)
    /\ fr2.meet = fr.meet
    /\ KeepsAbove(fr, fr2, pr[fr.fi].arraysize)
    /\ KeepsRegs(rg, rg2, ds[Awaited(pr, fr)])

\* x is held in fr2 as it was in fr
StaysHeld(pr, fr, fr2, rg, rg2, x) ==
    HeldBy(pr[fr.fi], fr2, rg2, x) = HeldBy(pr[fr.fi], fr, rg, x)

\* What a waiting function needs stays.
LEMMA EachStays ==
    ASSUME NEW pr, NEW ds, NEW cs, NEW fr, NEW fr2, NEW rg, NEW rg2, NEW x,
           KeptFor(pr, ds, cs, fr, fr2, rg, rg2),
           x \in Needed(pr, fr)
    PROVE  StaysHeld(pr, fr, fr2, rg, rg2, x)
<1>1. HeldBy(pr[fr.fi], fr2, rg2, x) = HeldBy(pr[fr.fi], fr, rg, x)
  BY WaitingHeld DEF KeptFor
<1> QED
  BY <1>1 DEF StaysHeld

\* call k of wt looks the same with the registers rg2
SameWait(pr, wt, rg, rg2, k) ==
    AsSource(pr[wt[k].fi], wt[k], rg2, FALSE) = AsSource(pr[wt[k].fi], wt[k], rg, FALSE)

\* A call that waits does not notice what the function called does to registers.
LEMMA WaitOneSame ==
    ASSUME NEW pr, NEW ds, NEW cs, NEW wt, NEW rg, NEW rg2, NEW k,
           k \in 1..Len(wt),
           Reported(pr, ds, cs),
           FrameOf(pr, cs, wt[k]),
           Waits(pr, ds, wt[k]),
           KeepsRegs(rg, rg2, ds[Awaited(pr, wt[k])])
    PROVE  SameWait(pr, wt, rg, rg2, k)
<1> DEFINE fr == wt[k]
           f == pr[wt[k].fi]
<1> HIDE DEF fr, f
<1>1. KeepsAbove(fr, fr, pr[fr.fi].arraysize)
  BY DEF KeepsAbove
<1>2. ASSUME NEW x \in Needed(pr, fr)
      PROVE  HeldBy(f, fr, rg2, x) = HeldBy(f, fr, rg, x)
  <2>1. KeptFor(pr, ds, cs, fr, fr, rg, rg2) /\ f = pr[fr.fi]
    BY <1>1 DEF KeptFor, f, fr
  <2>2. StaysHeld(pr, fr, fr, rg, rg2, x)
    BY <2>1, EachStays
  <2> QED
    BY <2>1, <2>2 DEF StaysHeld
<1>3. Needed(pr, fr) = AliveIn(f, fr.pc, FALSE)
  BY DEF Needed, AliveIn, f, fr
<1>4. [x \in AliveIn(f, fr.pc, FALSE) |-> HeldBy(f, fr, rg2, x)]
        = [x \in AliveIn(f, fr.pc, FALSE) |-> HeldBy(f, fr, rg, x)]
  BY <1>2, <1>3
<1>5. AsSource(f, fr, rg2, FALSE) = AsSource(f, fr, rg, FALSE)
  BY <1>4 DEF AsSource
<1> QED
  BY <1>5 DEF SameWait, f, fr

\* The calls that wait for a function do not notice what it does to registers.
LEMMA WaitSame ==
    ASSUME NEW pr, NEW ds, NEW cs, NEW wt, NEW rg, NEW rg2,
           Reported(pr, ds, cs),
           StackOK(pr, ds, cs, wt),
           Len(wt) > 0,
           Waits(pr, ds, wt[Len(wt)]),
           KeepsRegs(rg, rg2, ds[Awaited(pr, wt[Len(wt)])])
    PROVE  WaitSource(pr, wt, rg2) = WaitSource(pr, wt, rg)
<1> DEFINE l == Len(wt)
           D == ds[Awaited(pr, wt[l])]
<1>1. l \in Nat /\ l \in 1..l
  BY ListIs DEF StackOK
<1>2. D \subseteq ds[pr[wt[l].fi].name]
  <2>1. FrameOf(pr, cs, wt[l]) /\ wt[l].pc \in Calls(pr[wt[l].fi])
    BY <1>1 DEF StackOK, Waits
  <2>2. wt[l].fi \in DOMAIN pr
    BY <2>1 DEF FrameOf
  <2> QED
    BY <2>1, <2>2, Zenon DEF Reported, Awaited
<1> HIDE DEF D, l
<1>3. ASSUME NEW k \in 1..l PROVE SameWait(pr, wt, rg, rg2, k)
  <2>1. FrameOf(pr, cs, wt[k]) /\ k \in 1..Len(wt)
    BY <1>3 DEF StackOK, l
  <2>2. Waits(pr, ds, wt[k]) /\ D \subseteq ds[Awaited(pr, wt[k])]
    <3>1. CASE k = l
      BY <3>1 DEF l, D
    <3>2. CASE k # l
      <4>1. k \in 1..(Len(wt) - 1) /\ k + 1 \in 1..Len(wt) /\ k + 1 <= l
        BY <1>1, <3>2 DEF l
      <4>2. Waits(pr, ds, wt[k]) /\ Awaited(pr, wt[k]) = pr[wt[k + 1].fi].name
        BY <4>1 DEF StackOK
      <4>3. ds[pr[wt[l].fi].name] \subseteq ds[pr[wt[k + 1].fi].name]
        BY <1>1, <4>1 DEF StackOK, l
      <4> QED
        BY <1>2, <4>2, <4>3
    <3> QED
      BY <3>1, <3>2
  <2>3. KeepsRegs(rg, rg2, ds[Awaited(pr, wt[k])])
    BY <2>2 DEF KeepsRegs, D, l
  <2> QED
    BY <2>1, <2>2, <2>3, WaitOneSame
<1>4. \A k \in 1..l : AsSource(pr[wt[k].fi], wt[k], rg2, FALSE) = AsSource(pr[wt[k].fi], wt[k], rg, FALSE)
  BY <1>3, Zenon DEF SameWait
<1> QED
  BY <1>4, Zenon DEF WaitSource, l

-------------------------------------------------------------------------------
\* the machine after what follows the call
Back(pr, wt, rg, gl, ga) ==
    ExecuteAll(MachineOf(wt, rg, gl, ga),
               GenAfterCall(TopF(pr, wt), TopS(wt), wt[Len(wt)].meet))

\* the machine m of the calls wt, and what they wait for
WaitIs(pr, ds, cs, wt, m) ==
    LET f == TopF(pr, wt)
        fr == wt[Len(wt)]
    IN  /\ IsMachine(m) /\ TopOf(m) = Len(wt) /\ DOMAIN m.frames = 1..Len(wt)
        /\ Len(wt) \in Nat /\ Len(wt) \in 1..Len(wt)
        /\ \A k \in 1..Len(wt) : m.frames[k] = wt[k].words
        /\ FrameOf(pr, cs, fr) /\ FunctionOK(f) /\ cs[fr.fi] \in Nat
        /\ DOMAIN m.frames[TopOf(m)] = 0..(f.spillsize + cs[fr.fi] - 1)
        /\ TopS(wt) \in Calls(f)
        /\ fr.meet \in SetToSeqs(MeetRegs(f, TopS(wt), ds[Awaited(pr, fr)]))
        /\ MeetRegs(f, TopS(wt), ds[Awaited(pr, fr)]) \subseteq AvailRegs
        /\ f.spillsize..(f.spillsize + Len(fr.meet) - 1) \subseteq DOMAIN m.frames[TopOf(m)]
        /\ Awaited(pr, fr) = TopStmt(pr, wt).fn

\* Calls that wait for one that is over have a machine, and their last call is in
\* a line that calls.
LEMMA ResumableIs ==
    ASSUME NEW pr, NEW ds, NEW cs, NEW wt, NEW rg, NEW gl, NEW ga,
           Resumable(pr, ds, cs, wt, rg, gl, ga)
    PROVE  LET m == MachineOf(wt, rg, gl, ga)
           IN  WaitIs(pr, ds, cs, wt, m) /\ m.regs = rg /\ m.glob = gl /\ m.garr = ga
<1> DEFINE m == MachineOf(wt, rg, gl, ga)
           f == TopF(pr, wt)
           l == Len(wt)
           fr == wt[l]
           s == TopS(wt)
           M == MeetRegs(f, s, ds[Awaited(pr, fr)])
<1>1. Reported(pr, ds, cs) /\ StackOK(pr, ds, cs, wt) /\ l > 0 /\ Waits(pr, ds, fr) /\ StoreOK(rg, gl, ga)
      /\ IsList(wt)
  BY DEF Resumable, StackOK
<1>2. l \in Nat /\ l \in 1..l
  BY <1>1, ListIs
<1>3. \A k \in 1..l : FrameOf(pr, cs, wt[k])
  BY <1>1 DEF StackOK
<1>4. \A k \in 1..l : wt[k].words \in [DOMAIN wt[k].words -> Nat]
  BY <1>3 DEF FrameOf
<1>5. /\ IsMachine(m) /\ TopOf(m) = l /\ DOMAIN m.frames = 1..l
      /\ \A k \in 1..l : m.frames[k] = wt[k].words
      /\ m.regs = rg /\ m.glob = gl /\ m.garr = ga
  BY <1>1, <1>4, MachineIs
<1>6. /\ FrameOf(pr, cs, fr) /\ f = pr[fr.fi] /\ s = fr.pc /\ fr.fi \in DOMAIN pr
      /\ cs[fr.fi] \in Nat /\ fr.words \in [0..(f.spillsize + cs[fr.fi] - 1) -> Nat]
  BY <1>1, <1>2, <1>3 DEF FrameOf, TopF, TopS, Reported
<1>7. FunctionOK(f) /\ f.spillsize \in Nat
  <2>1. pr \in Programs
    BY <1>1 DEF Reported
  <2> HIDE DEF fr
  <2>2. FunctionOK(f)
    BY <1>6, <2>1, FunctionIs
  <2> QED
    BY <2>2 DEF FunctionOK
<1>8. s \in Calls(f) /\ fr.meet \in SetToSeqs(M) /\ Awaited(pr, fr) = f.func.stmts[s].fn
  BY <1>1, <1>6 DEF Waits, Awaited
<1>9. M \subseteq AvailRegs /\ IsFiniteSet(M) /\ Cardinality(M) \in Nat /\ Cardinality(M) <= cs[fr.fi]
  <2>1. M = MeetRegs(pr[fr.fi], s, ds[pr[fr.fi].func.stmts[s].fn]) /\ s \in Calls(pr[fr.fi])
    BY <1>6, <1>8
  <2> HIDE DEF f, s, fr, M
  <2> QED
    BY <1>1, <1>6, <2>1, MeetWithin, Zenon
<1>10. Len(fr.meet) \in Nat /\ Len(fr.meet) <= cs[fr.fi]
  BY <1>8, <1>9, OrderIs
<1> HIDE DEF m, M
<1>11. DOMAIN m.frames[TopOf(m)] = 0..(f.spillsize + cs[fr.fi] - 1)
  BY <1>2, <1>5, <1>6
<1> HIDE DEF fr
<1>12. f.spillsize..(f.spillsize + Len(fr.meet) - 1) \subseteq DOMAIN m.frames[TopOf(m)]
  <2> DEFINE b == f.spillsize
             n == Len(fr.meet)
             c == cs[fr.fi]
  <2> HIDE DEF b, n, c
  <2>1. b \in Nat /\ n \in Nat /\ c \in Nat /\ n <= c
    BY <1>6, <1>7, <1>10 DEF b, n, c
  <2>2. b..(b + n - 1) \subseteq 0..(b + c - 1)
    BY <2>1
  <2> QED
    BY <1>11, <2>2 DEF b, n, c
<1> QED
  BY <1>2, <1>5, <1>6, <1>7, <1>8, <1>9, <1>11, <1>12, Zenon DEF WaitIs, M, m, fr, TopStmt

\* what follows the call leaves m2: the result is v
IsBack(pr, ds, wt, m, m2, v) ==
    LET fr == wt[Len(wt)]
    IN  CameBack(pr[fr.fi], m, m2, Taken(pr[fr.fi], fr.pc), v,
                 MeetRegs(pr[fr.fi], fr.pc, ds[Awaited(pr, fr)]), fr.meet)

\* A wanted result has a place.
LEMMA ResultPlace ==
    ASSUME NEW f, NEW s, NEW m, NEW c,
           FunctionOK(f), s \in Calls(f), c \in Nat, IsMachine(m),
           DOMAIN m.frames[TopOf(m)] = 0..(f.spillsize + c - 1),
           Wanted(f, s)
    PROVE  LET d == f.func.stmts[s].dest
           IN  /\ IsTarget(f, m, d)
               /\ d # Glob /\ f.vreg[d].pos = "stack" => f.vreg[d].slot \in 0..(f.spillsize - 1)
<1> DEFINE d == f.func.stmts[s].dest
<1>1. /\ IsCall(f.func.stmts[s]) /\ s \in Reached(f.func) /\ s + 1 \in Reached(f.func)
      /\ MeetOf(f.func, f.alive, s) = f.alive[s + 1]
  BY AfterCallIs
<1>2. StatementOK(f.func.stmts[s])
  BY <1>1 DEF FunctionOK
<1>3. d \in Int \cup {Glob}
  BY <1>2 DEF Wanted, StatementOK
<1>4. d = Glob \/ d \notin Unpooled
  BY <1>3, KindsAssumption
<1>5. d = Glob \/ d \in f.alive[s + 1]
  BY <1>1, <1>4 DEF Wanted, Unused
<1> HIDE DEF d
<1>6. d # Glob => IsKept(f, m, d) /\ (f.vreg[d].pos = "stack" => f.vreg[d].slot \in 0..(f.spillsize - 1))
  BY <1>1, <1>5, AliveKept
<1> QED
  BY <1>6 DEF IsTarget, d

\* The result is fetched and registers are restored.
LEMMA BackIs ==
    ASSUME NEW pr, NEW ds, NEW cs, NEW wt, NEW rg, NEW gl, NEW ga,
           Resumable(pr, ds, cs, wt, rg, gl, ga)
    PROVE  IsBack(pr, ds, wt, MachineOf(wt, rg, gl, ga), Back(pr, wt, rg, gl, ga), rg[ArgReg[0]])
<1> DEFINE m == MachineOf(wt, rg, gl, ga)
           f == TopF(pr, wt)
           fr == wt[Len(wt)]
           s == TopS(wt)
           M == MeetRegs(f, s, ds[Awaited(pr, fr)])
           c == cs[fr.fi]
           meet == fr.meet
           insts == GenAfterCall(f, s, meet)
<1>1. WaitIs(pr, ds, cs, wt, m) /\ m.regs = rg
  BY ResumableIs
<1> HIDE DEF m
<1>2. /\ IsMachine(m) /\ FunctionOK(f) /\ c \in Nat
      /\ DOMAIN m.frames[TopOf(m)] = 0..(f.spillsize + c - 1)
      /\ s \in Calls(f)
      /\ meet \in SetToSeqs(M) /\ M \subseteq AvailRegs
      /\ f.spillsize..(f.spillsize + Len(meet) - 1) \subseteq DOMAIN m.frames[TopOf(m)]
  BY <1>1 DEF WaitIs
<1>3. f.spillsize \in Nat
  BY <1>2 DEF FunctionOK
<1>4. f = pr[fr.fi] /\ s = fr.pc
  BY DEF TopF, TopS
<1> HIDE DEF f, s, M, c, meet, fr
<1>5. Wanted(f, s) =>
        LET d == f.func.stmts[s].dest
        IN  /\ IsTarget(f, m, d)
            /\ d # Glob /\ f.vreg[d].pos = "stack" => f.vreg[d].slot \in 0..(f.spillsize - 1)
  BY <1>2, ResultPlace
<1>6. CameBack(f, m, ExecuteAll(m, GenAfterCall(f, s, meet)), Taken(f, s), m.regs[ArgReg[0]], M, meet)
  BY <1>2, <1>3, <1>5, AfterCallDoes
<1>7. ExecuteAll(m, GenAfterCall(f, s, meet)) = Back(pr, wt, rg, gl, ga)
  BY DEF Back, m, f, s, meet, fr
<1>8. M = MeetRegs(f, s, ds[Awaited(pr, fr)])
  BY DEF M
<1> QED
  BY <1>1, <1>4, <1>6, <1>7, <1>8 DEF IsBack, meet, fr, m

\* Only what the function may overwrite differs then.
LEMMA BackKeeps ==
    ASSUME NEW pr, NEW ds, NEW cs, NEW wt, NEW rg, NEW gl, NEW ga, NEW m2, NEW v,
           Resumable(pr, ds, cs, wt, rg, gl, ga),
           IsBack(pr, ds, wt, MachineOf(wt, rg, gl, ga), m2, v)
    PROVE  /\ Carries(m2, wt)
           /\ KeepsBelow(pr, ds, wt, rg, m2)
           /\ SameArrays(pr, wt, m2)
           /\ m2.glob = IF TopStmt(pr, wt).dest = Glob THEN v ELSE gl
           /\ m2.garr = ga
<1> DEFINE m == MachineOf(wt, rg, gl, ga)
           l == Len(wt)
           fr == wt[l]
           f == TopF(pr, wt)
           s == TopS(wt)
           M == MeetRegs(f, s, ds[Awaited(pr, fr)])
           d == Taken(f, s)
           dest == f.func.stmts[s].dest
<1>1. WaitIs(pr, ds, cs, wt, m) /\ m.regs = rg /\ m.glob = gl /\ m.garr = ga
  BY ResumableIs
<1> HIDE DEF m
<1>2. /\ IsMachine(m) /\ TopOf(m) = l /\ DOMAIN m.frames = 1..l /\ l \in Nat /\ l \in 1..l
      /\ \A k \in 1..l : m.frames[k] = wt[k].words
      /\ FrameOf(pr, cs, fr) /\ FunctionOK(f) /\ s \in Calls(f)
      /\ Awaited(pr, fr) = f.func.stmts[s].fn
  BY <1>1 DEF WaitIs, TopStmt
<1>3. CameBack(f, m, m2, d, v, M, fr.meet)
  BY DEF IsBack, m, TopF, TopS
<1>4. /\ IsMachine(m2) /\ SameShape(m, m2)
      /\ \A r \in Regs \ (Scratch \cup M) :
           m2.regs[r] = IF d \notin Unpooled /\ f.vreg[d] = InReg(r) THEN v ELSE m.regs[r]
      /\ \A k \in DOMAIN m.frames : \A n \in DOMAIN m.frames[k] :
           m2.frames[k][n] = IF d \notin Unpooled /\ k = TopOf(m) /\ f.vreg[d] = OnStack(n)
                             THEN v ELSE m.frames[k][n]
      /\ m2.glob = IF d = Glob THEN v ELSE m.glob
      /\ m2.garr = m.garr
  BY <1>3 DEF CameBack
<1>5. /\ IsCall(f.func.stmts[s]) /\ s \in Reached(f.func) /\ s + 1 \in Reached(f.func)
      /\ MeetOf(f.func, f.alive, s) = f.alive[s + 1]
  BY <1>2, AfterCallIs
<1>6. StatementOK(f.func.stmts[s])
  BY <1>2, <1>5 DEF FunctionOK
<1>7. d \notin Unpooled => d \in f.alive[s + 1]
  BY <1>5, Kinds DEF Taken, Wanted, Unused
<1>8. d \notin Unpooled => PlaceOK(f, d)
  BY <1>2, <1>5, <1>7 DEF FunctionOK
<1>9. (d = Glob) <=> (dest = Glob)
  <2>1. ASSUME dest = Glob PROVE d = Glob
    <3>1. f.func.stmts[s].op = "call"
      BY <1>5, <1>6, <2>1, Kinds DEF StatementOK, IsCall
    <3>2. Wanted(f, s)
      BY <2>1, <3>1, Kinds DEF Wanted, Unused
    <3> QED
      BY <2>1, <3>2 DEF Taken
  <2>2. ASSUME d = Glob PROVE dest = Glob
    BY <2>2, Kinds DEF Taken
  <2> QED
    BY <2>1, <2>2
<1>10. f = pr[fr.fi] /\ Reported(pr, ds, cs) /\ fr.fi \in DOMAIN pr
  BY <1>2 DEF Resumable, TopF, FrameOf
<1>11. M \subseteq ds[f.name] /\ Direct(f) \subseteq ds[f.name]
  <2>1. M \subseteq ds[f.func.stmts[s].fn]
    BY <1>2 DEF MeetRegs
  <2>2. s \in Calls(pr[fr.fi])
    BY <1>2, <1>10
  <2>3. ds[pr[fr.fi].func.stmts[s].fn] \subseteq ds[pr[fr.fi].name] /\ Direct(pr[fr.fi]) \subseteq ds[pr[fr.fi].name]
    <3> HIDE DEF fr, f, s
    <3> QED
      BY <1>10, <2>2 DEF Reported
  <2> QED
    BY <1>10, <2>1, <2>3
<1>12. \A k \in 1..l : FrameOf(pr, cs, wt[k])
  BY DEF Resumable, StackOK
<1>13. Carries(m2, wt)
  BY <1>2, <1>4 DEF Carries, SameShape, TopOf
<1> HIDE DEF fr, f, s, M, d, dest, l
<1>14. ASSUME NEW r \in Regs \ (Scratch \cup ds[f.name])
       PROVE  m2.regs[r] = rg[r]
  <2>1. r \in Regs \ (Scratch \cup M) /\ r \notin Direct(f)
    BY <1>11
  <2>2. ~ (d \notin Unpooled /\ f.vreg[d] = InReg(r))
    BY <1>8, <2>1, Kinds DEF PlaceOK
  <2> QED
    BY <1>1, <1>4, <2>1, <2>2
<1>15. ASSUME NEW k \in 1..l, NEW w \in DOMAIN wt[k].words, k # l
       PROVE  m2.frames[k][w] = wt[k].words[w]
  BY <1>2, <1>4, <1>15
<1>16. KeepsBelow(pr, ds, wt, rg, m2)
  <2>1. \A k \in 1..(Len(wt) - 1) : k \in 1..l /\ k # l
    BY <1>2 DEF l
  <2>2. pr[wt[Len(wt)].fi].name = f.name
    BY <1>10 DEF fr, l
  <2> QED
    BY <1>14, <1>15, <2>1, <2>2 DEF KeepsBelow
<1>17. ASSUME NEW k \in 1..l, NEW i \in 0..(pr[wt[k].fi].arraysize - 1)
       PROVE  m2.frames[k][i] = wt[k].words[i]
  <2> DEFINE g == pr[wt[k].fi]
  <2>1. FunctionOK(g) /\ wt[k].words \in [0..(g.spillsize + cs[wt[k].fi] - 1) -> Nat]
        /\ cs[wt[k].fi] \in Nat
    <3>1. FrameOf(pr, cs, wt[k])
      BY <1>12
    <3>2. wt[k].fi \in DOMAIN pr /\ pr \in Programs /\ cs[wt[k].fi] \in Nat
      BY <1>10, <3>1 DEF FrameOf, Reported
    <3>3. FunctionOK(g)
      BY <3>2, FunctionIs
    <3> HIDE DEF g
    <3>4. wt[k].words \in [0..(pr[wt[k].fi].spillsize + cs[wt[k].fi] - 1) -> Nat]
      BY <3>1 DEF FrameOf
    <3> QED
      BY <3>2, <3>3, <3>4 DEF g
  <2>2. g.arraysize \in Nat /\ g.spillsize \in Nat /\ g.arraysize <= g.spillsize
    BY <2>1 DEF FunctionOK
  <2>6. i \in 0..(g.arraysize - 1)
    OBVIOUS
  <2>3. i \in DOMAIN wt[k].words
    <3> DEFINE a == g.arraysize
               b == g.spillsize
               c == cs[wt[k].fi]
    <3>1. wt[k].words \in [0..(b + c - 1) -> Nat] /\ c \in Nat /\ a \in Nat /\ b \in Nat /\ a <= b
          /\ i \in 0..(a - 1)
      BY <2>1, <2>2, <2>6
    <3> HIDE DEF a, b, c
    <3>2. DOMAIN wt[k].words = 0..(b + c - 1)
      BY <3>1
    <3>3. i \in 0..(b + c - 1)
      BY <3>1
    <3> QED
      BY <3>2, <3>3
  <2>4. m2.frames[k][i] = IF d \notin Unpooled /\ k = TopOf(m) /\ f.vreg[d] = OnStack(i)
                           THEN v ELSE m.frames[k][i]
    BY <1>2, <1>4, <2>3
  <2>5. ~ (d \notin Unpooled /\ k = TopOf(m) /\ f.vreg[d] = OnStack(i))
    <3>1. SUFFICES ASSUME d \notin Unpooled, k = l, f.vreg[d] = OnStack(i) PROVE FALSE
      BY <1>2
    <3>2. g = f
      BY <1>10, <3>1 DEF fr, l
    <3>3. \E n \in f.arraysize..(f.spillsize - 1) : f.vreg[d] = OnStack(n)
      BY <1>8, <3>1, Kinds DEF PlaceOK
    <3>4. PICK n \in f.arraysize..(f.spillsize - 1) : f.vreg[d] = OnStack(n)
      BY <3>3
    <3>5. n = i
      BY <3>1, <3>4 DEF OnStack
    <3> HIDE DEF g
    <3> QED
      BY <2>2, <2>6, <3>2, <3>4, <3>5
  <2> QED
    BY <1>2, <2>4, <2>5
<1>18. SameArrays(pr, wt, m2)
  BY <1>17 DEF SameArrays, l
<1>19. m2.glob = IF TopStmt(pr, wt).dest = Glob THEN v ELSE gl
  BY <1>1, <1>4, <1>9 DEF TopStmt, dest, f, s
<1> QED
  BY <1>1, <1>4, <1>13, <1>16, <1>18, <1>19

\* fs and gs are the same but for what the last of their calls has alive
SameButLast(fs, gs, l) ==
    /\ IsList(fs) /\ IsList(gs) /\ Len(fs) = l /\ Len(gs) = l
    /\ \A k \in 1..l : k # l => fs[k] = gs[k]
    /\ fs[l].fi = gs[l].fi /\ fs[l].arr = gs[l].arr

\* Then they go on alike.
LEMMA ContinuedSame ==
    ASSUME NEW fs, NEW gs, NEW l, NEW n, NEW env,
           l \in Nat, l > 0,
           SameButLast(fs, gs, l)
    PROVE  Continued(fs, n, env) = Continued(gs, n, env)
<1> DEFINE r == [fi |-> fs[l].fi, pc |-> n, env |-> env, arr |-> fs[l].arr]
<1>1. /\ fs = [k \in 1..l |-> fs[k]] /\ gs = [k \in 1..l |-> gs[k]]
      /\ Len(fs) = l /\ Len(gs) = l
      /\ \A k \in 1..l : k # l => fs[k] = gs[k]
  BY ListIs, LenProperties DEF SameButLast, IsList
<1>2. r = [fi |-> gs[l].fi, pc |-> n, env |-> env, arr |-> gs[l].arr]
  BY DEF SameButLast
<1>3. Continued(fs, n, env) = [fs EXCEPT ![l] = r]
  BY <1>1 DEF Continued
<1>4. Continued(gs, n, env) = [gs EXCEPT ![l] = r]
  BY <1>1, <1>2 DEF Continued
<1> HIDE DEF r
<1>5. [fs EXCEPT ![l] = r] = [k \in 1..l |-> IF k = l THEN r ELSE fs[k]]
  BY <1>1
<1>6. [gs EXCEPT ![l] = r] = [k \in 1..l |-> IF k = l THEN r ELSE gs[k]]
  BY <1>1
<1> QED
  BY <1>1, <1>3, <1>4, <1>5, <1>6

\* The parts of what the source sees of calls that wait.
LEMMA WaitSourceIs ==
    ASSUME NEW pr, NEW wt, NEW rg, NEW l,
           l = Len(wt), l \in Nat, l > 0
    PROVE  /\ IsList(WaitSource(pr, wt, rg)) /\ Len(WaitSource(pr, wt, rg)) = l
           /\ WaitSource(pr, wt, rg)[l] = AsSource(pr[wt[l].fi], wt[l], rg, FALSE)
           /\ SameButLast(AllAsSource(pr, wt, rg), WaitSource(pr, wt, rg), l)
<1> DEFINE W == WaitSource(pr, wt, rg)
           A == AllAsSource(pr, wt, rg)
<1>1. W = [k \in 1..l |-> W[k]] /\ A = [k \in 1..l |-> A[k]]
  BY DEF WaitSource, AllAsSource
<1>2. /\ \A k \in 1..l : W[k] = AsSource(pr[wt[k].fi], wt[k], rg, FALSE)
      /\ \A k \in 1..l : A[k] = AsSource(pr[wt[k].fi], wt[k], rg, k = l)
  BY DEF WaitSource, AllAsSource
<1> HIDE DEF W, A
<1>3. IsList(W) /\ Len(W) = l /\ IsList(A) /\ Len(A) = l
  BY <1>1, FunctionList
<1>4. l \in 1..l
  OBVIOUS
<1>5. ASSUME NEW k \in 1..l, k # l PROVE A[k] = W[k]
  <2>1. (k = l) = FALSE
    BY <1>5
  <2> QED
    BY <1>2, <2>1
<1>6. A[l].fi = W[l].fi /\ A[l].arr = W[l].arr
  <2> DEFINE w == [i \in 0..(pr[wt[l].fi].arraysize - 1) |-> wt[l].words[i]]
             e(b) == [x \in AliveIn(pr[wt[l].fi], wt[l].pc, b) |-> HeldBy(pr[wt[l].fi], wt[l], rg, x)]
  <2>1. W[l] = AsSource(pr[wt[l].fi], wt[l], rg, FALSE)
    BY <1>2, <1>4
  <2>2. A[l] = AsSource(pr[wt[l].fi], wt[l], rg, l = l)
    BY <1>2, <1>4
  <2>3. W[l] = [fi |-> wt[l].fi, pc |-> wt[l].pc, env |-> e(FALSE), arr |-> w]
    BY <2>1 DEF AsSource
  <2>4. A[l] = [fi |-> wt[l].fi, pc |-> wt[l].pc, env |-> e(l = l), arr |-> w]
    BY <2>2 DEF AsSource
  <2> HIDE DEF w, e
  <2> QED
    BY <2>3, <2>4
<1>7. W[l] = AsSource(pr[wt[l].fi], wt[l], rg, FALSE)
  BY <1>2, <1>4
<1> QED
  BY <1>3, <1>5, <1>6, <1>7 DEF SameButLast, W, A

\* x is back, being v if it is the result
HeldBack(pr, fr, m, m2, v, x) ==
    /\ ValueIn(pr[fr.fi], m2, x) =
         IF x = pr[fr.fi].func.stmts[fr.pc].dest THEN v ELSE HeldBy(pr[fr.fi], fr, m.regs, x)
    /\ x # pr[fr.fi].func.stmts[fr.pc].dest => x \in Needed(pr, fr)

\* All that is wanted is back.
LEMMA EachBack ==
    ASSUME NEW pr, NEW ds, NEW cs, NEW wt, NEW m, NEW m2, NEW v, NEW x,
           Reported(pr, ds, cs),
           WaitIs(pr, ds, cs, wt, m),
           Waits(pr, ds, wt[Len(wt)]),
           IsBack(pr, ds, wt, m, m2, v),
           x \in TopF(pr, wt).alive[TopS(wt) + 1]
    PROVE  HeldBack(pr, wt[Len(wt)], m, m2, v, x)
<1> DEFINE fr == wt[Len(wt)]
<1>1. /\ FrameOf(pr, cs, fr) /\ Waits(pr, ds, fr) /\ IsMachine(m) /\ m.frames[TopOf(m)] = fr.words
      /\ CameBack(pr[fr.fi], m, m2, Taken(pr[fr.fi], fr.pc), v,
                  MeetRegs(pr[fr.fi], fr.pc, ds[Awaited(pr, fr)]), fr.meet)
      /\ x \in pr[fr.fi].alive[fr.pc + 1]
  BY DEF WaitIs, IsBack, TopF, TopS
<1> HIDE DEF fr
<1>2. /\ ValueIn(pr[fr.fi], m2, x) =
                 IF x = pr[fr.fi].func.stmts[fr.pc].dest THEN v
                 ELSE HeldBy(pr[fr.fi], fr, m.regs, x)
      /\ x # pr[fr.fi].func.stmts[fr.pc].dest =>
            x \in MeetOf(pr[fr.fi].func, pr[fr.fi].alive, fr.pc) \ Defs(pr[fr.fi].func.stmts[fr.pc])
  BY <1>1, BackHeld
<1> QED
  BY <1>2 DEF HeldBack, Needed, fr

\* the last of the calls wt goes on behind its call, where the machine is m:
\* the result was v
Resumed(pr, ds, cs, wt, rg, m, v) ==
    LET n == TopS(wt) + 1
        W == WaitSource(pr, wt, rg)
    IN  /\ Going(pr, ds, cs, MovedOn(wt, n, m), m.regs, m.glob, m.garr)
        /\ AllAsSource(pr, MovedOn(wt, n, m), m.regs) =
             Continued(W, n, BoundTo(TopF(pr, wt), W[Len(wt)].env, n, TopStmt(pr, wt).dest, v))

\* What follows a call lets the caller go on behind it, with the result v.
LEMMA BackStep ==
    ASSUME NEW pr, NEW ds, NEW cs, NEW wt, NEW rg, NEW gl, NEW ga,
           Resumable(pr, ds, cs, wt, rg, gl, ga)
    PROVE  LET m == Back(pr, wt, rg, gl, ga)
               v == rg[ArgReg[0]]
           IN  /\ Resumed(pr, ds, cs, wt, rg, m, v)
               /\ m.glob = IF TopStmt(pr, wt).dest = Glob THEN v ELSE gl
               /\ m.garr = ga
<1> DEFINE m == MachineOf(wt, rg, gl, ga)
           m2 == Back(pr, wt, rg, gl, ga)
           v == rg[ArgReg[0]]
           l == Len(wt)
           fr == wt[l]
           f == TopF(pr, wt)
           s == TopS(wt)
           n == s + 1
           W == WaitSource(pr, wt, rg)
           dest == TopStmt(pr, wt).dest
           e == W[l].env
           env == BoundTo(f, e, n, dest, v)
<1>1. WaitIs(pr, ds, cs, wt, m) /\ m.regs = rg
  BY ResumableIs
<1>2. IsBack(pr, ds, wt, m, m2, v)
  BY BackIs
<1>3. /\ Reported(pr, ds, cs) /\ StackOK(pr, ds, cs, wt) /\ Len(wt) > 0 /\ Waits(pr, ds, wt[Len(wt)])
      /\ IsList(wt)
  BY DEF Resumable, StackOK
<1> HIDE DEF m2, v
<1>4. /\ Carries(m2, wt) /\ KeepsBelow(pr, ds, wt, rg, m2) /\ SameArrays(pr, wt, m2)
      /\ m2.glob = IF TopStmt(pr, wt).dest = Glob THEN v ELSE gl
      /\ m2.garr = ga
  BY <1>2, BackKeeps
<1> HIDE DEF m
<1>5. /\ l \in Nat /\ l \in 1..l /\ FrameOf(pr, cs, fr) /\ FunctionOK(f) /\ cs[fr.fi] \in Nat
      /\ DOMAIN m.frames[TopOf(m)] = 0..(f.spillsize + cs[fr.fi] - 1)
      /\ s \in Calls(f) /\ m.frames[TopOf(m)] = fr.words /\ TopOf(m) = l
  BY <1>1 DEF WaitIs
<1>6. n \in Reached(f.func)
  BY <1>5, AfterCallIs
<1>7. IsMachine(m2) /\ DOMAIN m2.frames[TopOf(m2)] = 0..(f.spillsize + cs[fr.fi] - 1)
  BY <1>4, <1>5 DEF Carries
<1>8. W[l] = AsSource(pr[wt[l].fi], wt[l], rg, FALSE)
  BY <1>3, <1>5, WaitSourceIs
<1>9. e = [x \in Needed(pr, fr) |-> HeldBy(pr[fr.fi], fr, rg, x)]
  BY <1>8 DEF AsSource, AliveIn, Needed
<1>10. f = pr[fr.fi] /\ dest = pr[fr.fi].func.stmts[fr.pc].dest
  BY DEF TopF, TopStmt, TopS
<1> HIDE DEF e, fr, s, f, dest, W
<1>11. ASSUME NEW x \in f.alive[n]
       PROVE  IsKept(f, m2, x) /\ ValueIn(f, m2, x) = env[x]
  <2>1. IsKept(f, m2, x)
    BY <1>5, <1>6, <1>7, AliveKept
  <2>2. HeldBack(pr, fr, m, m2, v, x)
    <3>1. x \in TopF(pr, wt).alive[TopS(wt) + 1]
      BY DEF f, s
    <3> HIDE DEF n
    <3>2. HeldBack(pr, wt[Len(wt)], m, m2, v, x)
      BY <1>1, <1>2, <1>3, <3>1, EachBack
    <3> QED
      BY <3>2 DEF fr
  <2>3. ValueIn(f, m2, x) = IF x = dest THEN v ELSE e[x]
    BY <1>1, <1>9, <1>10, <2>2 DEF HeldBack
  <2>4. env[x] = IF x = dest THEN v ELSE e[x]
    BY DEF BoundTo
  <2> QED
    BY <2>1, <2>3, <2>4
<1>12. Agrees(f, m2, n, env)
  <2>1. env = [x \in f.alive[n] |-> env[x]]
    BY DEF BoundTo
  <2> HIDE DEF env
  <2> QED
    BY <1>11, <2>1 DEF Agrees
<1>13. f = pr[wt[Len(wt)].fi]
  BY DEF f, TopF
<1> HIDE DEF n, env
<1>14. /\ StackOK(pr, ds, cs, MovedOn(wt, n, m2))
       /\ IsMovedOn(wt, n, m2, MovedOn(wt, n, m2))
       /\ MovedOn(wt, n, m2)[Len(wt)].meet = <<>>
       /\ StoreOK(m2.regs, m2.glob, m2.garr)
  BY <1>3, <1>4, <1>6, <1>13, MovedOnOK
<1>15. Going(pr, ds, cs, MovedOn(wt, n, m2), m2.regs, m2.glob, m2.garr)
  BY <1>3, <1>14 DEF Going, IsMovedOn
<1>16. AllAsSource(pr, MovedOn(wt, n, m2), m2.regs) = SourceOf(pr, wt, rg, n, env, m2)
  <2>1. Agrees(pr[wt[Len(wt)].fi], m2, n, env) /\ n \in Reached(pr[wt[Len(wt)].fi].func)
    BY <1>6, <1>12, <1>13
  <2> QED
    BY <1>3, <1>4, <2>1, MovedSource
<1>17. SourceOf(pr, wt, rg, n, env, m2) = Continued(WithArrays(pr, wt, rg, m2), n, env)
  BY <1>3, ContinuedIs
<1>18. WithArrays(pr, wt, rg, m2) = AllAsSource(pr, wt, rg)
  BY <1>4, ArraysSame
<1>19. Continued(AllAsSource(pr, wt, rg), n, env) = Continued(W, n, env)
  <2>1. SameButLast(AllAsSource(pr, wt, rg), W, l)
    BY <1>3, <1>5, WaitSourceIs DEF W
  <2> QED
    BY <1>3, <1>5, <2>1, ContinuedSame
<1>20. AllAsSource(pr, MovedOn(wt, n, m2), m2.regs) = Continued(W, n, env)
  BY <1>16, <1>17, <1>18, <1>19
<1>21. Resumed(pr, ds, cs, wt, rg, m2, v)
  BY <1>15, <1>20 DEF Resumed, n, env, W, e, f, dest, s
<1> QED
  BY <1>4, <1>21 DEF m2, v

\* the last of the calls st has left its result in m, m being otherwise the same
Leaves(pr, ds, st, rg, gl, ga, m) ==
    LET m0 == MachineOf(st, rg, gl, ga)
    IN  /\ OnlyRegs(m0, m, Scratch \cup ds[TopF(pr, st).name])
        /\ TopStmt(pr, st).op = "return" =>
             m.regs[ArgReg[0]] = SourceResult(pr, st, rg, gl, ga)

\* A return leaves its result where the caller fetches it, and all that is not the
\* function's to overwrite.
LEMMA ReturnLeaves ==
    ASSUME NEW pr, NEW ds, NEW cs, NEW st, NEW rg, NEW gl, NEW ga,
           Going(pr, ds, cs, st, rg, gl, ga),
           TopStmt(pr, st).op \in {"return", "returnvoid"}
    PROVE  Leaves(pr, ds, st, rg, gl, ga, After(pr, st, rg, gl, ga))
<1> DEFINE f == TopF(pr, st)
           s == TopS(st)
           m == MachineOf(st, rg, gl, ga)
           stmt == TopStmt(pr, st)
           m2 == After(pr, st, rg, gl, ga)
           D == ds[f.name]
           a == stmt.args[1]
           r == ArgReg[0]
<1>1. TopIs(pr, cs, st, m)
  BY GoingIs
<1>2. /\ FunctionOK(f) /\ s \in Reached(f.func) /\ IsMachine(m)
      /\ stmt = f.func.stmts[s] /\ FrameOf(pr, cs, st[Len(st)])
  BY <1>1 DEF TopIs, TopStmt
<1>3. StatementOK(stmt) /\ (stmt.op = "return" => ~ f.isvoid)
  BY <1>2 DEF FunctionOK
<1>4. Direct(f) \subseteq D
  <2>1. st[Len(st)].fi \in DOMAIN pr /\ Reported(pr, ds, cs)
    BY <1>2 DEF FrameOf, Going
  <2> QED
    BY <2>1 DEF Reported, TopF
<1>5. m2 = ExecuteAll(m, GenStmtInst(f, s))
  BY DEF After
<1>6. CASE stmt.op = "returnvoid"
  <2>1. GenStmtInst(f, s) = <<>>
    <3>1. stmt.dest = NoVar
      BY <1>3, <1>6 DEF StatementOK
    <3> QED
      BY <1>2, <1>6, <3>1, Kinds DEF GenStmtInst, Unused
  <2>2. m2 = m
    BY <1>5, <2>1, RunEmpty
  <2> HIDE DEF m, m2
  <2>3. OnlyRegs(m, m2, Scratch \cup D)
    BY <1>2, <2>2 DEF OnlyRegs
  <2> QED
    BY <1>6, <2>3 DEF Leaves, m, m2
<1>7. CASE stmt.op = "return"
  <2>1. GenStmtInst(f, s) = GenMovTo(f, a, r)
    <3>1. stmt.dest = NoVar
      BY <1>3, <1>7 DEF StatementOK
    <3> QED
      BY <1>2, <1>7, <3>1, Kinds DEF GenStmtInst, Unused
  <2>2. r \in Direct(f) /\ r \in AvailRegs
    BY <1>2, <1>3, <1>7 DEF FunctionOK
  <2>3. r \in Regs \ {NoReg}
    BY <2>2, RegsAre
  <2>4. 1 \in DOMAIN stmt.args
    BY <1>3, <1>7 DEF StatementOK, IsCall, Arity
  <2>5. a \in Int \cup {NoVar, Glob}
    BY <1>3, <1>7, <2>4 DEF StatementOK
  <2>6. a \notin Arrays
    BY <2>5, KindsAssumption DEF Unpooled, Arrays
  <2>7. Operand(pr, cs, st, rg, gl, m, a)
    <3> HIDE DEF m
    <3> QED
      BY <1>7, <2>4, OperandIs DEF m
  <2>8. IsOperand(f, m, a) /\ ArgValue(f, m, a) = SourceArg(pr, st, rg, gl, 1)
    BY <2>6, <2>7 DEF Operand, SourceArg
  <2> HIDE DEF m, f, a, r
  <2>9. ArgValue(f, m, a) = ValueIn(f, m, a)
    BY <1>2, <2>8, ArgValueIs DEF IsArgument
  <2>10. /\ OnlyRegs(m, m2, Scratch \cup {r})
         /\ m2.regs[r] = ValueIn(f, m, a)
    BY <1>2, <1>5, <2>1, <2>3, <2>8, MovToDoes
  <2>11. SourceResult(pr, st, rg, gl, ga) = SourceArg(pr, st, rg, gl, 1)
    BY <1>7 DEF SourceResult
  <2> HIDE DEF m2
  <2>12. OnlyRegs(m, m2, Scratch \cup D)
    <3>1. r \in D
      BY <1>4, <2>2
    <3> HIDE DEF D
    <3> QED
      BY <2>10, <3>1 DEF OnlyRegs
  <2> QED
    BY <2>8, <2>9, <2>10, <2>11, <2>12 DEF Leaves, m, m2, f, r
<1> QED
  BY <1>6, <1>7

-------------------------------------------------------------------------------
\* The calls that are left can go on.
LEMMA RestResumable ==
    ASSUME NEW pr, NEW ds, NEW cs, NEW st, NEW rg, NEW gl, NEW ga, NEW rg2,
           Going(pr, ds, cs, st, rg, gl, ga),
           Len(st) > 1,
           StoreOK(rg2, gl, ga)
    PROVE  /\ Resumable(pr, ds, cs, Front(st), rg2, gl, ga)
           /\ Len(Front(st)) = Len(st) - 1 /\ Len(Front(st)) \in Nat
           /\ \A k \in 1..(Len(st) - 1) : Front(st)[k] = st[k]
           /\ Awaited(pr, Front(st)[Len(Front(st))]) = TopF(pr, st).name
<1> DEFINE wt == Front(st)
           l == Len(st) - 1
<1>1. Reported(pr, ds, cs) /\ StackOK(pr, ds, cs, st) /\ IsList(st)
  BY DEF Going, StackOK
<1>2. /\ IsList(wt) /\ Len(wt) = l /\ \A k \in 1..l : wt[k] = st[k]
  BY <1>1, ListFront
<1>3. l \in Nat /\ l > 0 /\ Len(st) = l + 1
  BY <1>1, ListIs
<1> HIDE DEF wt, l
<1>4. l \in 1..l /\ 1 \in 1..l /\ l + 1 \in 1..(l + 1) /\ Len(st) - 1 = l
      /\ \A k \in 1..l : k \in 1..Len(st)
  BY <1>3
<1>5. \A k \in 1..l : FrameOf(pr, cs, wt[k])
  BY <1>1, <1>2, <1>4 DEF StackOK
<1>6. \A k \in 1..l : Waits(pr, ds, wt[k]) /\ Awaited(pr, wt[k]) = pr[st[k + 1].fi].name
  BY <1>1, <1>2, <1>4 DEF StackOK
<1>7. ASSUME NEW k \in 1..(l - 1)
      PROVE  Waits(pr, ds, wt[k]) /\ Awaited(pr, wt[k]) = pr[wt[k + 1].fi].name
  <2>1. k \in 1..l /\ k + 1 \in 1..l
    BY <1>3
  <2> QED
    BY <1>2, <1>6, <2>1
<1>8. StackOK(pr, ds, cs, wt)
  <2>1. wt[1].fi = Len(pr)
    BY <1>1, <1>2, <1>3, <1>4 DEF StackOK
  <2>2. \A j, k \in 1..l : k <= j => ds[pr[wt[j].fi].name] \subseteq ds[pr[wt[k].fi].name]
    BY <1>1, <1>2, <1>4 DEF StackOK
  <2> QED
    BY <1>2, <1>5, <1>7, <2>1, <2>2 DEF StackOK
<1>9. Resumable(pr, ds, cs, wt, rg2, gl, ga)
  BY <1>1, <1>2, <1>3, <1>4, <1>6, <1>8 DEF Resumable
<1>10. Awaited(pr, wt[Len(wt)]) = TopF(pr, st).name
  BY <1>2, <1>3, <1>4, <1>6 DEF TopF
<1> QED
  BY <1>2, <1>3, <1>4, <1>9, <1>10 DEF wt

\* the calls that are left, as the source sees them
RestSame(pr, st, rg, rg2) ==
    /\ WaitSource(pr, Front(st), rg2) = Front(AllAsSource(pr, st, rg))
    /\ Len(Front(AllAsSource(pr, st, rg))) = Len(st) - 1

\* The calls that are left when the last returns look as they did before.
LEMMA RestIs ==
    ASSUME NEW pr, NEW ds, NEW cs, NEW st, NEW rg, NEW gl, NEW ga, NEW rg2,
           Going(pr, ds, cs, st, rg, gl, ga),
           Len(st) > 1,
           StoreOK(rg2, gl, ga),
           KeepsRegs(rg, rg2, ds[TopF(pr, st).name])
    PROVE  RestSame(pr, st, rg, rg2)
<1> DEFINE wt == Front(st)
           l == Len(st) - 1
           A == AllAsSource(pr, st, rg)
           W == WaitSource(pr, wt, rg)
           B == Front(A)
<1>1. /\ Resumable(pr, ds, cs, wt, rg2, gl, ga)
      /\ Len(wt) = l /\ Len(wt) \in Nat
      /\ \A k \in 1..l : wt[k] = st[k]
      /\ Awaited(pr, wt[Len(wt)]) = TopF(pr, st).name
  BY RestResumable
<1>2. WaitSource(pr, wt, rg2) = W
  <2>1. KeepsRegs(rg, rg2, ds[Awaited(pr, wt[Len(wt)])])
    BY <1>1
  <2> HIDE DEF wt
  <2>2. /\ Reported(pr, ds, cs) /\ StackOK(pr, ds, cs, wt) /\ Len(wt) > 0
        /\ Waits(pr, ds, wt[Len(wt)])
    BY <1>1 DEF Resumable
  <2> QED
    BY <2>1, <2>2, WaitSame
<1>3. Len(st) \in Nat /\ l \in Nat /\ l + 1 = Len(st)
  BY ListIs DEF Going, StackOK
<1>4. A = [k \in 1..Len(st) |-> A[k]] /\ W = [k \in 1..Len(wt) |-> W[k]]
  BY DEF AllAsSource, WaitSource
<1>5. /\ \A k \in 1..Len(wt) : W[k] = AsSource(pr[wt[k].fi], wt[k], rg, FALSE)
      /\ \A k \in 1..Len(st) : A[k] = AsSource(pr[st[k].fi], st[k], rg, k = Len(st))
  BY DEF AllAsSource, WaitSource
<1> HIDE DEF wt, l, A, W
<1>6. IsList(A) /\ Len(A) = l + 1 /\ IsList(W) /\ Len(W) = l
  BY <1>1, <1>3, <1>4, FunctionList
<1>7. IsList(B) /\ Len(B) = l /\ \A k \in 1..l : B[k] = A[k]
  <2>1. Len(A) > 0 /\ Len(A) - 1 = l
    BY <1>3, <1>6
  <2> QED
    BY <1>6, <2>1, ListFront
<1> HIDE DEF B
<1>8. ASSUME NEW k \in 1..Len(W) PROVE W[k] = B[k]
  <2>1. k \in 1..l /\ k \in 1..Len(wt) /\ k \in 1..Len(st) /\ (k = Len(st)) = FALSE
    BY <1>1, <1>3, <1>6
  <2>2. W[k] = AsSource(pr[wt[k].fi], wt[k], rg, FALSE)
    BY <1>5, <2>1
  <2>3. A[k] = AsSource(pr[st[k].fi], st[k], rg, k = Len(st))
    BY <1>5, <2>1
  <2>4. wt[k] = st[k] /\ B[k] = A[k]
    BY <1>1, <1>7, <2>1
  <2> QED
    BY <2>1, <2>2, <2>3, <2>4, Zenon
<1>9. W = B
  BY <1>6, <1>7, <1>8, ListEqual
<1> QED
  BY <1>2, <1>3, <1>7, <1>9 DEF RestSame, wt, A, B, l

\* m1 without its last frame is the machine of the calls rest
LeavesMachine(m1, rest) ==
    [m1 EXCEPT !.frames = Front(@)] = MachineOf(rest, m1.regs, m1.glob, m1.garr)

\* The frame of a call that is over goes.
LEMMA LeftIs ==
    ASSUME NEW st, NEW rg, NEW gl, NEW ga, NEW m1, NEW W,
           IsList(st), Len(st) > 0,
           OnlyRegs(MachineOf(st, rg, gl, ga), m1, W)
    PROVE  LeavesMachine(m1, Front(st))
<1> DEFINE l == Len(st)
           rest == Front(st)
           a == [k \in DOMAIN st |-> st[k].words]
           b == [k \in DOMAIN rest |-> rest[k].words]
           F == <<>> \o a
           G == <<>> \o b
           m0 == MachineOf(st, rg, gl, ga)
<1>1. l \in Nat /\ l > 0 /\ DOMAIN st = 1..l /\ IsList(rest) /\ Len(rest) = l - 1
      /\ DOMAIN rest = 1..(l - 1) /\ \A k \in 1..(l - 1) : rest[k] = st[k]
  BY ListIs, ListFront
<1>2. a = [k \in 1..l |-> a[k]] /\ \A k \in 1..l : a[k] = st[k].words
  BY <1>1
<1>3. b = [k \in 1..(l - 1) |-> b[k]] /\ \A k \in 1..(l - 1) : b[k] = rest[k].words
  BY <1>1
<1>4. m0.frames = F /\ m1.frames = m0.frames /\ IsMachine(m1)
  BY DEF MachineOf, OnlyRegs
<1> HIDE DEF a, b, l, rest, m0
<1>5. IsList(a) /\ Len(a) = l /\ IsList(b) /\ Len(b) = l - 1
  <2>1. l - 1 \in Nat
    BY <1>1
  <2> QED
    BY <1>1, <1>2, <1>3, <2>1, FunctionList
<1>6. IsList(F) /\ F = a
  BY <1>5, ListConcat
<1>7. IsList(G) /\ G = b
  BY <1>5, ListConcat
<1> HIDE DEF F, G
<1>8. Front(F) = G
  <2>1. IsList(Front(F)) /\ Len(Front(F)) = l - 1 /\ \A i \in 1..(l - 1) : Front(F)[i] = F[i]
    BY <1>1, <1>5, <1>6, ListFront
  <2> DEFINE H == Front(F)
  <2> HIDE DEF H
  <2>2. ASSUME NEW i \in 1..Len(H) PROVE H[i] = G[i]
    <3>1. i \in 1..(l - 1) /\ i \in 1..l
      BY <1>1, <2>1 DEF H
    <3> QED
      BY <1>1, <1>2, <1>3, <1>6, <1>7, <2>1, <3>1 DEF H
  <2>3. H = G
    BY <1>5, <1>7, <2>1, <2>2, ListEqual DEF H
  <2> QED
    BY <2>3 DEF H
<1>9. [m1 EXCEPT !.frames = Front(@)] =
        [regs |-> m1.regs, frames |-> Front(m1.frames), glob |-> m1.glob, garr |-> m1.garr]
  <2>1. m1 = [regs |-> m1.regs, frames |-> m1.frames, glob |-> m1.glob, garr |-> m1.garr]
    BY <1>4 DEF IsMachine
  <2> QED
    BY <2>1
<1>10. Front(m1.frames) = G
  BY <1>4, <1>8
<1>11. MachineOf(rest, m1.regs, m1.glob, m1.garr) =
         [regs |-> m1.regs, frames |-> G, glob |-> m1.glob, garr |-> m1.garr]
  BY DEF MachineOf, G, b
<1> QED
  BY <1>9, <1>10, <1>11 DEF LeavesMachine, rest

-------------------------------------------------------------------------------
\* the caller goes on, the function having returned v
Returned(pr, ds, cs, st, rg, m, v) ==
    LET rest == Front(st)
        last == rest[Len(rest)]
        n == last.pc + 1
        W == Front(AllAsSource(pr, st, rg))
    IN  /\ Going(pr, ds, cs, MovedOn(rest, n, m), m.regs, m.glob, m.garr)
        /\ AllAsSource(pr, MovedOn(rest, n, m), m.regs) =
             Continued(W, n, BoundTo(pr[last.fi], W[Len(W)].env, n,
                                     pr[last.fi].func.stmts[last.pc].dest, v))

\* the machine that the caller of a function that returns goes on with
ReturnMachine(pr, st, rg, gl, ga) ==
    LET m1 == After(pr, st, rg, gl, ga)
    IN  Back(pr, Front(st), m1.regs, m1.glob, m1.garr)

\* It returns the value v to its caller.
ReturnsTo(pr, ds, cs, st, rg, gl, ga, m, v) ==
    LET rest == Front(st)
        last == rest[Len(rest)]
    IN  /\ LeavesMachine(After(pr, st, rg, gl, ga), rest)
        /\ Len(rest) > 0
        /\ Returned(pr, ds, cs, st, rg, m, v)
        /\ m.glob = IF pr[last.fi].func.stmts[last.pc].dest = Glob THEN v ELSE gl
        /\ m.garr = ga

\* The caller of a function goes on.
LEMMA ReturnStep ==
    ASSUME NEW pr, NEW ds, NEW cs, NEW st, NEW rg, NEW gl, NEW ga,
           Going(pr, ds, cs, st, rg, gl, ga),
           TopStmt(pr, st).op \in {"return", "returnvoid"},
           Len(st) > 1
    PROVE  ReturnsTo(pr, ds, cs, st, rg, gl, ga, ReturnMachine(pr, st, rg, gl, ga),
                     SourceResult(pr, st, rg, gl, ga))
<1> DEFINE m0 == MachineOf(st, rg, gl, ga)
           m1 == After(pr, st, rg, gl, ga)
           rest == Front(st)
           last == rest[Len(rest)]
           rg2 == m1.regs
           m == Back(pr, rest, rg2, gl, ga)
           v == SourceResult(pr, st, rg, gl, ga)
           v2 == rg2[ArgReg[0]]
           dest == TopStmt(pr, rest).dest
           D == ds[TopF(pr, st).name]
           n == TopS(rest) + 1
           f == TopF(pr, rest)
<1>1. Leaves(pr, ds, st, rg, gl, ga, m1)
  BY ReturnLeaves
<1>2. TopIs(pr, cs, st, m0) /\ m0.regs = rg /\ m0.glob = gl /\ m0.garr = ga
  BY GoingIs
<1> HIDE DEF m0, m1
<1>3. /\ OnlyRegs(m0, m1, Scratch \cup D)
      /\ TopStmt(pr, st).op = "return" => v2 = v
  BY <1>1 DEF Leaves, m0
<1>4. /\ IsMachine(m1) /\ m1.glob = gl /\ m1.garr = ga /\ StoreOK(rg2, gl, ga)
      /\ KeepsRegs(rg, rg2, D)
  BY <1>2, <1>3 DEF OnlyRegs, IsMachine, StoreOK, KeepsRegs
<1>5. IsList(st) /\ Len(st) > 0 /\ Len(st) \in Nat
  BY ListIs DEF Going, StackOK
<1>6. LeavesMachine(m1, rest)
  BY <1>3, <1>5, LeftIs DEF m0
<1> HIDE DEF rg2
<1>7. /\ Resumable(pr, ds, cs, rest, rg2, gl, ga)
      /\ Len(rest) = Len(st) - 1 /\ Len(rest) \in Nat
      /\ \A k \in 1..(Len(st) - 1) : rest[k] = st[k]
      /\ Awaited(pr, last) = TopF(pr, st).name
  BY <1>4, RestResumable
<1>8. RestSame(pr, st, rg, rg2)
  BY <1>4, RestIs
<1> HIDE DEF rest, m, v, D
<1>9. /\ Resumed(pr, ds, cs, rest, rg2, m, v2)
      /\ m.glob = IF dest = Glob THEN v2 ELSE gl
      /\ m.garr = ga
  BY <1>7, BackStep DEF m
<1>10. /\ f = pr[last.fi] /\ TopS(rest) = last.pc
       /\ dest = pr[last.fi].func.stmts[last.pc].dest
  BY DEF TopF, TopS, TopStmt
<1> DEFINE W == Front(AllAsSource(pr, st, rg))
           e == W[Len(W)].env
<1>11. /\ Going(pr, ds, cs, MovedOn(rest, n, m), m.regs, m.glob, m.garr)
       /\ AllAsSource(pr, MovedOn(rest, n, m), m.regs) = Continued(W, n, BoundTo(f, e, n, dest, v2))
  <2>1. W = WaitSource(pr, rest, rg2) /\ Len(W) = Len(rest)
    BY <1>7, <1>8 DEF RestSame, rest
  <2> HIDE DEF W
  <2> QED
    BY <1>9, <2>1 DEF Resumed
<1> HIDE DEF last, dest, f, n, e, v2
<1>12. ASSUME TopStmt(pr, st).op = "returnvoid" PROVE dest = NoVar
  <2>1. /\ FunctionOK(TopF(pr, st)) /\ TopS(st) \in Reached(TopF(pr, st).func)
        /\ FrameOf(pr, cs, st[Len(st)])
    BY <1>2 DEF TopIs
  <2>2. TopF(pr, st).isvoid
    BY <1>12, <2>1 DEF FunctionOK, TopStmt
  <2>3. st[Len(st)].fi \in DOMAIN pr /\ TopF(pr, st) = pr[st[Len(st)].fi]
    BY <2>1 DEF FrameOf, TopF
  <2>4. pr \in Programs
    BY DEF Going, Reported
  <2>5. last.fi \in DOMAIN pr /\ last.pc \in Calls(pr[last.fi])
    <3>1. Len(rest) \in 1..Len(rest)
      BY <1>5, <1>7
    <3>2. FrameOf(pr, cs, last) /\ Waits(pr, ds, last)
      BY <1>7, <3>1 DEF Resumable, StackOK, last
    <3> QED
      BY <3>2 DEF FrameOf, Waits
  <2>6. Awaited(pr, last) = pr[last.fi].func.stmts[last.pc].fn
    BY DEF Awaited
  <2>7. SUFFICES ASSUME dest # NoVar PROVE FALSE
    OBVIOUS
  <2> DEFINE j == st[Len(st)].fi
             i == last.fi
             s == last.pc
  <2>8. /\ pr[i].func.stmts[s].dest # NoVar /\ pr[i].func.stmts[s].fn = pr[j].name
        /\ pr[j].isvoid /\ i \in DOMAIN pr /\ j \in DOMAIN pr /\ s \in Calls(pr[i])
    BY <1>7, <1>10, <2>2, <2>3, <2>5, <2>6, <2>7
  <2> HIDE DEF i, j, s
  <2>9. \A t \in Calls(pr[i]) : pr[i].func.stmts[t].dest # NoVar =>
          \A k \in DOMAIN pr : pr[i].func.stmts[t].fn = pr[k].name => ~ pr[k].isvoid
    BY <2>4, <2>8, StatementsAssumption
  <2> QED
    BY <2>8, <2>9
<1>13. FunctionOK(f) /\ n \in Reached(f.func)
  <2>1. WaitIs(pr, ds, cs, rest, MachineOf(rest, rg2, gl, ga))
    BY <1>7, ResumableIs
  <2>2. FunctionOK(f) /\ TopS(rest) \in Calls(f)
    BY <2>1 DEF WaitIs, f
  <2> QED
    BY <2>2, AfterCallIs DEF n
<1>14. NoVar \notin f.alive[n]
  BY <1>13, Kinds DEF FunctionOK
<1>15. BoundTo(f, e, n, dest, v2) = BoundTo(f, e, n, dest, v)
       /\ (dest = Glob => v2 = v)
  <2>1. CASE TopStmt(pr, st).op = "return"
    BY <1>3, <2>1 DEF v2
  <2>2. CASE TopStmt(pr, st).op = "returnvoid"
    <3>1. dest = NoVar /\ dest # Glob
      BY <1>12, <2>2, Kinds
    <3>2. \A y \in f.alive[n] : y # dest
      BY <1>14, <3>1
    <3> QED
      BY <3>1, <3>2 DEF BoundTo
  <2> QED
    BY <2>1, <2>2
<1>16. Returned(pr, ds, cs, st, rg, m, v)
  BY <1>10, <1>11, <1>15 DEF Returned, n, e, last, rest, f
<1>17. m.glob = IF pr[last.fi].func.stmts[last.pc].dest = Glob THEN v ELSE gl
  BY <1>9, <1>10, <1>15
<1>18. Len(rest) > 0
  BY <1>5, <1>7
<1>19. m = ReturnMachine(pr, st, rg, gl, ga)
  BY <1>4 DEF m, rg2, ReturnMachine, m1, rest
<1>20. ReturnsTo(pr, ds, cs, st, rg, gl, ga, m, v)
  BY <1>6, <1>9, <1>16, <1>17, <1>18 DEF m1, rest, last, ReturnsTo
<1> QED
  BY <1>19, <1>20 DEF v

-------------------------------------------------------------------------------
(* The start and the end of the program.                                   *)

\* the program ends with the value v
Ends(st, m1, gl, ga, v) ==
    /\ Front(st) = <<>>
    /\ m1.regs[ArgReg[0]] = v
    /\ StoreOK(m1.regs, gl, ga)
    /\ m1.glob = gl /\ m1.garr = ga

\* Where main returns, the program ends with the value the source returns.
LEMMA MainStep ==
    ASSUME NEW pr, NEW ds, NEW cs, NEW st, NEW rg, NEW gl, NEW ga,
           Going(pr, ds, cs, st, rg, gl, ga),
           TopStmt(pr, st).op \in {"return", "returnvoid"},
           Len(st) = 1
    PROVE  Ends(st, After(pr, st, rg, gl, ga), gl, ga, SourceResult(pr, st, rg, gl, ga))
<1> DEFINE m0 == MachineOf(st, rg, gl, ga)
           m1 == After(pr, st, rg, gl, ga)
           v == SourceResult(pr, st, rg, gl, ga)
<1>1. Leaves(pr, ds, st, rg, gl, ga, m1)
  BY ReturnLeaves
<1>2. TopIs(pr, cs, st, m0) /\ m0.regs = rg /\ m0.glob = gl /\ m0.garr = ga
  BY GoingIs
<1> HIDE DEF m0, m1
<1>3. /\ OnlyRegs(m0, m1, Scratch \cup ds[TopF(pr, st).name])
      /\ TopStmt(pr, st).op = "return" => m1.regs[ArgReg[0]] = v
  BY <1>1 DEF Leaves, m0
<1> HIDE DEF v
<1>4. m1.glob = gl /\ m1.garr = ga /\ StoreOK(m1.regs, gl, ga)
  BY <1>2, <1>3 DEF OnlyRegs, IsMachine, StoreOK
<1>5. IsList(st) /\ Len(st) = 1 /\ st[1].fi = Len(pr) /\ pr \in Programs
  <2>1. Reported(pr, ds, cs) /\ StackOK(pr, ds, cs, st)
    BY DEF Going
  <2>2. IsList(st) /\ st[1].fi = Len(pr)
    BY <2>1 DEF StackOK
  <2> QED
    BY <2>1, <2>2 DEF Reported
<1>6. TopStmt(pr, st).op = "return"
  <2>1. FunctionOK(TopF(pr, st)) /\ TopS(st) \in Reached(TopF(pr, st).func)
    BY <1>2 DEF TopIs
  <2>2. TopF(pr, st) = pr[Len(pr)]
    BY <1>5 DEF TopF
  <2>3. ~ pr[Len(pr)].isvoid
    BY <1>5, MainAssumption
  <2> QED
    BY <2>1, <2>2, <2>3 DEF FunctionOK, TopStmt
<1>7. Front(st) = <<>>
  <2>1. IsList(Front(st)) /\ Len(Front(st)) = 0
    <3>1. Len(st) > 0 /\ Len(st) - 1 = 0
      BY <1>5
    <3>2. IsList(Front(st)) /\ Len(Front(st)) = Len(st) - 1
      BY <1>5, <3>1, ListFront
    <3> QED
      BY <3>1, <3>2
  <2>2. IsList(<<>>) /\ Len(<<>>) = 0
    BY ShortLists
  <2> DEFINE a == Front(st)
             b == <<>>
  <2> HIDE DEF a, b
  <2>3. IsList(a) /\ IsList(b) /\ Len(a) = Len(b) /\ \A i \in 1..Len(a) : a[i] = b[i]
    BY <2>1, <2>2 DEF a, b
  <2>4. a = b
    BY <2>3, ListEqual
  <2> QED
    BY <2>4 DEF a, b
<1> QED
  BY <1>3, <1>4, <1>6, <1>7 DEF Ends, m1, v

-------------------------------------------------------------------------------
\* main's frame, alone
MainStack(pr, cs) == <<Entered(pr, cs, Len(pr))>>

\* main as the source enters it
SourceMain(pr) ==
    <<[fi |-> Len(pr), pc |-> 1, env |-> <<>>,
       arr |-> [i \in 0..(pr[Len(pr)].arraysize - 1) |-> Junk]]>>

\* The stack that main is entered with is one, and the source sees main in it.
LEMMA MainIs ==
    ASSUME NEW pr, NEW ds, NEW cs,
           Reported(pr, ds, cs)
    PROVE  /\ StackOK(pr, ds, cs, MainStack(pr, cs))
           /\ Len(MainStack(pr, cs)) = 1
           /\ MainStack(pr, cs)[1] = Entered(pr, cs, Len(pr))
           /\ IsList(MainStack(pr, cs))
           /\ \A rg : AllAsSource(pr, MainStack(pr, cs), rg) = SourceMain(pr)
<1> DEFINE l == Len(pr)
           e == Entered(pr, cs, l)
           st == MainStack(pr, cs)
           f == pr[l]
           w == [n \in 0..(f.spillsize + cs[l] - 1) |-> Junk]
<1>1. pr \in Programs /\ l \in DOMAIN pr /\ l \in Nat
  BY DEF Reported
<1>2. FunctionOK(f) /\ cs[l] \in Nat /\ Junk \in Nat
  BY <1>1, FunctionIs, OperatorType DEF Reported
<1>3. IsList(st) /\ Len(st) = 1 /\ st[1] = e
  BY ShortLists DEF MainStack
<1>4. w \in [0..(f.spillsize + cs[l] - 1) -> Nat]
  BY <1>2
<1>5. e.fi = l /\ e.pc = 1 /\ e.meet = <<>> /\ e.words = w
      /\ e = [fi |-> e.fi, pc |-> e.pc, meet |-> e.meet, words |-> e.words]
  BY FrameParts
<1> HIDE DEF w, e, st
<1>6. 1 \in Reached(f.func)
  BY <1>2 DEF FunctionOK
<1>7. FrameOf(pr, cs, e)
  BY <1>1, <1>4, <1>5, <1>6 DEF FrameOf
<1>8. StackOK(pr, ds, cs, st)
  <2>1. \A k \in 1..1 : k = 1
    OBVIOUS
  <2>2. \A k \in 1..(1 - 1) : FALSE
    OBVIOUS
  <2> QED
    BY <1>3, <1>5, <1>7, <2>1, <2>2 DEF StackOK
<1>9. f.alive[1] = {}
  <2>1. f.func.params = 0
    BY <1>1, MainAssumption
  <2>2. f.alive[1] \subseteq {Arg(k) : k \in 0..(0 - 1)}
    BY <1>2, <2>1 DEF FunctionOK
  <2> QED
    BY <2>2
<1>10. ASSUME NEW rg PROVE AllAsSource(pr, st, rg) = SourceMain(pr)
  <2> DEFINE A == AllAsSource(pr, st, rg)
             a == [i \in 0..(f.arraysize - 1) |-> e.words[i]]
             b == [i \in 0..(f.arraysize - 1) |-> Junk]
             x == [fi |-> l, pc |-> 1, env |-> <<>>, arr |-> b]
             S == SourceMain(pr)
  <2>1. A = [k \in 1..1 |-> A[k]] /\ \A k \in 1..1 : A[k] = AsSource(pr[st[k].fi], st[k], rg, k = 1)
    BY <1>3 DEF AllAsSource
  <2>2. S = <<x>>
    BY DEF SourceMain
  <2>3. a = b
    <3>1. f.arraysize \in Nat /\ f.spillsize \in Nat /\ f.arraysize <= f.spillsize
      BY <1>2 DEF FunctionOK
    <3>2. \A i \in 0..(f.arraysize - 1) : i \in 0..(f.spillsize + cs[l] - 1)
      BY <1>2, <3>1
    <3>3. \A i \in 0..(f.arraysize - 1) : e.words[i] = Junk
      BY <1>5, <3>2 DEF w
    <3> QED
      BY <3>3
  <2>4. A[1] = AsSource(f, e, rg, 1 = 1)
    BY <1>3, <1>5, <2>1
  <2>5. [y \in {} |-> HeldBy(f, e, rg, y)] = <<>>
    OBVIOUS
  <2>6. A[1] = x
    <3> DEFINE env == [y \in AliveIn(f, e.pc, 1 = 1) |-> HeldBy(f, e, rg, y)]
    <3>1. A[1] = [fi |-> e.fi, pc |-> e.pc, env |-> env, arr |-> a]
      BY <2>4 DEF AsSource
    <3>2. env = <<>>
      <4>1. AliveIn(f, e.pc, 1 = 1) = {}
        BY <1>5, <1>9 DEF AliveIn
      <4> QED
        BY <2>5, <4>1
    <3> HIDE DEF env, a, b
    <3> QED
      BY <1>5, <2>3, <3>1, <3>2
  <2> HIDE DEF A, S, x
  <2>7. IsList(A) /\ Len(A) = 1 /\ IsList(S) /\ Len(S) = 1 /\ S[1] = x
    BY <2>1, <2>2, FunctionList, ShortLists
  <2>8. \A i \in 1..Len(A) : A[i] = S[i]
    BY <2>6, <2>7
  <2>9. A = S
    BY <2>7, <2>8, ListEqual
  <2> QED
    BY <2>9 DEF A, S
<1> QED
  BY <1>3, <1>8, <1>10 DEF st, e

\* The program starts.
LEMMA StartStep ==
    ASSUME NEW pr, NEW ds, NEW cs, NEW rg, NEW gl, NEW ga,
           Reported(pr, ds, cs),
           StoreOK(rg, gl, ga)
    PROVE  LET st == MainStack(pr, cs)
               m == ExecuteAll(MachineOf(st, rg, gl, ga), GenGlobalInit)
           IN  /\ Going(pr, ds, cs, st, m.regs, m.glob, m.garr)
               /\ AllAsSource(pr, st, m.regs) = SourceMain(pr)
               /\ m.frames[1] = st[1].words
               /\ m.glob = gl /\ m.garr = GlobInit
<1> DEFINE st == MainStack(pr, cs)
           m0 == MachineOf(st, rg, gl, ga)
           m == ExecuteAll(m0, GenGlobalInit)
<1>1. /\ StackOK(pr, ds, cs, st) /\ Len(st) = 1 /\ st[1] = Entered(pr, cs, Len(pr)) /\ IsList(st)
      /\ \A r : AllAsSource(pr, st, r) = SourceMain(pr)
  BY MainIs
<1>2. st[1].meet = <<>>
  BY <1>1, FrameParts
<1> HIDE DEF st
<1>3. Going(pr, ds, cs, st, rg, gl, ga)
  BY <1>1, <1>2 DEF Going
<1>4. TopIs(pr, cs, st, m0) /\ m0.regs = rg /\ m0.glob = gl /\ m0.garr = ga
  BY <1>3, GoingIs
<1> HIDE DEF m0
<1>5. IsMachine(m0) /\ m0.frames[1] = st[1].words
  BY <1>1, <1>4 DEF TopIs
<1>6. IsMachine(m) /\ m.frames = m0.frames /\ m.glob = m0.glob /\ m.garr = GlobInit
  BY <1>5, GlobalInitDoes
<1> HIDE DEF m
<1>7. StoreOK(m.regs, m.glob, m.garr)
  BY <1>6 DEF IsMachine, StoreOK
<1>8. Going(pr, ds, cs, st, m.regs, m.glob, m.garr)
  BY <1>3, <1>7 DEF Going
<1> QED
  BY <1>1, <1>4, <1>5, <1>6, <1>8 DEF st, m, m0

-------------------------------------------------------------------------------
(* A call of the library.                                                  *)

\* the calls st, the last of which waits for a library function, having saved
\* the registers meet
Suspension(st, meet, m) == [k \in 1..Len(st) |-> FrameWith(st[k], MeetAt(st, k, meet), m.frames[k])]

\* t is that
IsSuspension(st, meet, m, t) ==
    /\ IsList(t) /\ Len(t) = Len(st)
    /\ \A k \in 1..Len(st) :
         /\ t[k] = FrameWith(st[k], MeetAt(st, k, meet), m.frames[k])
         /\ t[k] = [fi |-> t[k].fi, pc |-> t[k].pc, meet |-> t[k].meet, words |-> t[k].words]
         /\ t[k].fi = st[k].fi /\ t[k].pc = st[k].pc /\ t[k].words = m.frames[k]
         /\ t[k].meet = IF k = Len(st) THEN meet ELSE st[k].meet

\* Suspension leaves the calls, the last of which has saved the registers meet.
LEMMA SuspensionIs ==
    ASSUME NEW st, NEW meet, NEW m,
           IsList(st)
    PROVE  IsSuspension(st, meet, m, Suspension(st, meet, m))
<1> DEFINE t == Suspension(st, meet, m)
           l == Len(st)
<1>1. l \in Nat
  BY ListIs
<1>2. t = [k \in 1..l |-> t[k]]
      /\ \A k \in 1..l : t[k] = FrameWith(st[k], MeetAt(st, k, meet), m.frames[k])
  BY DEF Suspension
<1> HIDE DEF t, l
<1>3. IsList(t) /\ Len(t) = l
  BY <1>1, <1>2, FunctionList
<1>4. ASSUME NEW k \in 1..l
      PROVE  /\ t[k] = [fi |-> t[k].fi, pc |-> t[k].pc, meet |-> t[k].meet, words |-> t[k].words]
             /\ t[k].fi = st[k].fi /\ t[k].pc = st[k].pc /\ t[k].words = m.frames[k]
             /\ t[k].meet = IF k = Len(st) THEN meet ELSE st[k].meet
  <2>1. t[k] = FrameWith(st[k], MeetAt(st, k, meet), m.frames[k])
    BY <1>2
  <2> QED
    BY <2>1, FrameParts DEF MeetAt
<1> QED
  BY <1>2, <1>3, <1>4 DEF IsSuspension, t, l

\* When the library function is over, its caller can go on.
LEMMA SuspensionOK ==
    ASSUME NEW pr, NEW ds, NEW cs, NEW st, NEW rg, NEW gl, NEW ga, NEW meet, NEW m, NEW rg2,
           Going(pr, ds, cs, st, rg, gl, ga),
           Calling(pr, ds, st, meet),
           Handed(pr, ds, st, rg, gl, ga, m, meet),
           StoreOK(rg2, gl, ga)
    PROVE  Resumable(pr, ds, cs, Suspension(st, meet, m), rg2, gl, ga)
<1> DEFINE t == Suspension(st, meet, m)
           l == Len(st)
<1>1. Reported(pr, ds, cs) /\ StackOK(pr, ds, cs, st) /\ IsList(st) /\ l > 0
  BY DEF Going, StackOK
<1>2. IsSuspension(st, meet, m, t)
  BY <1>1, SuspensionIs
<1>3. l \in Nat /\ l \in 1..l
  BY <1>1, ListIs
<1> HIDE DEF t, l
<1>4. /\ IsList(t) /\ Len(t) = l
      /\ \A k \in 1..l :
         /\ t[k] = [fi |-> t[k].fi, pc |-> t[k].pc, meet |-> t[k].meet, words |-> t[k].words]
         /\ t[k].fi = st[k].fi /\ t[k].pc = st[k].pc /\ t[k].words = m.frames[k]
         /\ t[k].meet = IF k = l THEN meet ELSE st[k].meet
  BY <1>2 DEF IsSuspension, l
<1>5. IsMachine(m) /\ TopOf(m) = l /\ DOMAIN m.frames = 1..l
      /\ \A k \in 1..l : DOMAIN m.frames[k] = DOMAIN st[k].words
  BY ListIs DEF Handed, Carries, l, IsMachine, TopOf
<1>6. ASSUME NEW k \in 1..l PROVE FrameOf(pr, cs, t[k])
  <2>1. FrameOf(pr, cs, st[k])
    BY <1>1 DEF StackOK, l
  <2>2. m.frames[k] \in [DOMAIN st[k].words -> Nat]
    BY <1>5 DEF IsMachine
  <2>3. m.frames[k] \in [0..(pr[st[k].fi].spillsize + cs[st[k].fi] - 1) -> Nat]
    BY <2>1, <2>2 DEF FrameOf
  <2> QED
    BY <1>4, <2>1, <2>3 DEF FrameOf
<1>7. Waits(pr, ds, t[l])
  <2>1. t[l].fi = st[l].fi /\ t[l].pc = st[l].pc /\ t[l].meet = meet
    BY <1>3, <1>4
  <2>2. /\ st[l].pc \in Calls(pr[st[l].fi])
        /\ meet \in SetToSeqs(MeetRegs(pr[st[l].fi], st[l].pc, ds[pr[st[l].fi].func.stmts[st[l].pc].fn]))
    BY DEF Calling, TopF, TopS, TopStmt, l
  <2> QED
    BY <2>1, <2>2 DEF Waits, Awaited
<1>8. ASSUME NEW k \in 1..(l - 1)
      PROVE  Waits(pr, ds, t[k]) /\ Awaited(pr, t[k]) = pr[t[k + 1].fi].name
  <2>1. k \in 1..l /\ k + 1 \in 1..l /\ k # l
    BY <1>3
  <2>2. Waits(pr, ds, st[k]) /\ Awaited(pr, st[k]) = pr[st[k + 1].fi].name
    BY <1>1 DEF StackOK, l
  <2>3. t[k].fi = st[k].fi /\ t[k].pc = st[k].pc /\ t[k].meet = st[k].meet /\ t[k + 1].fi = st[k + 1].fi
    BY <1>4, <2>1
  <2> QED
    BY <2>2, <2>3 DEF Waits, Awaited
<1>9. t[1].fi = Len(pr)
  <2>1. 1 \in 1..l
    BY <1>3
  <2>2. st[1].fi = Len(pr)
    BY <1>1 DEF StackOK, l
  <2> QED
    BY <1>4, <2>1, <2>2
<1>10. \A i, k \in 1..l : k <= i => ds[pr[t[i].fi].name] \subseteq ds[pr[t[k].fi].name]
  BY <1>1, <1>4 DEF StackOK, l
<1>11. StackOK(pr, ds, cs, t)
  BY <1>4, <1>6, <1>8, <1>9, <1>10 DEF StackOK
<1>12. Len(t) > 0 /\ Waits(pr, ds, t[Len(t)])
  BY <1>1, <1>4, <1>7
<1> QED
  BY <1>1, <1>11, <1>12 DEF Resumable, t

\* what the source sees of them: the caller keeps what it wants afterwards
SeenWaiting(pr, st, rg, W) ==
    /\ SameButLast(AllAsSource(pr, st, rg), W, Len(st))
    /\ \A x \in MeetOf(TopF(pr, st).func, TopF(pr, st).alive, TopS(st)) \ Defs(TopStmt(pr, st)) :
         W[Len(st)].env[x] = TopEnv(pr, st, rg)[x]

\* While a library function runs, its caller looks to the source as it did, with
\* the scalars alive after the call.
LEMMA SuspensionSource ==
    ASSUME NEW pr, NEW ds, NEW cs, NEW st, NEW rg, NEW gl, NEW ga, NEW meet, NEW m,
           Going(pr, ds, cs, st, rg, gl, ga),
           Calling(pr, ds, st, meet),
           Handed(pr, ds, st, rg, gl, ga, m, meet)
    PROVE  SeenWaiting(pr, st, rg, WaitSource(pr, Suspension(st, meet, m), m.regs))
<1> DEFINE t == Suspension(st, meet, m)
           l == Len(st)
           fs == AllAsSource(pr, st, rg)
           W == WaitSource(pr, t, m.regs)
           a == SourceCaller(pr, st, rg)
<1>1. Reported(pr, ds, cs) /\ StackOK(pr, ds, cs, st) /\ IsList(st) /\ l > 0
  BY DEF Going, StackOK
<1>2. IsSuspension(st, meet, m, t)
  BY <1>1, SuspensionIs
<1>3. l \in Nat /\ l \in 1..l
  BY <1>1, ListIs
<1>4. IsList(fs) /\ Len(fs) = l
  <2>1. fs = [k \in 1..l |-> fs[k]]
    BY WithArraysIs
  <2> HIDE DEF fs, l
  <2> QED
    BY <1>3, <2>1, FunctionList
<1>5. KeepsBelow(pr, ds, st, rg, m) /\ SameArrays(pr, st, m)
  BY DEF Handed
<1>6. fs[l].env = TopEnv(pr, st, rg)
  BY DEF TopEnv
<1>7. fs[l] = [fi |-> st[l].fi, pc |-> st[l].pc, env |-> fs[l].env, arr |-> fs[l].arr]
  <2>1. fs[l] = AsSource(pr[st[l].fi], st[l], rg, l = l)
    BY <1>3 DEF AllAsSource
  <2> HIDE DEF fs
  <2> QED
    BY <2>1 DEF AsSource
<1> HIDE DEF t, l
<1>8. /\ Len(t) = l
      /\ \A k \in 1..l : t[k] = FrameWith(st[k], MeetAt(st, k, meet), m.frames[k])
      /\ \A k \in 1..l : t[k].fi = st[k].fi /\ t[k].pc = st[k].pc /\ t[k].words = m.frames[k]
      /\ \A k \in 1..l : t[k].meet = IF k = l THEN meet ELSE st[k].meet
  BY <1>2 DEF IsSuspension, l
<1>9. W = [k \in 1..l |-> W[k]] /\ \A k \in 1..l : W[k] = AsSource(pr[t[k].fi], t[k], m.regs, FALSE)
  BY <1>8 DEF WaitSource
<1>10. W[l] = a
  <2> DEFINE fr == t[l]
  <2>1. fr = FrameWith(st[Len(st)], meet, m.frames[Len(st)]) /\ fr.fi = st[Len(st)].fi
    BY <1>3, <1>8, FrameParts DEF MeetAt, l
  <2> HIDE DEF fr
  <2>2. Suspends(pr, st, rg, fr, m)
    BY <2>1, CallerHeld
  <2>3. pr[fr.fi] = TopF(pr, st)
    BY <2>1 DEF TopF
  <2>4. AsSource(pr[fr.fi], fr, m.regs, FALSE) = a
    BY <2>2, <2>3 DEF Suspends
  <2> HIDE DEF W, a
  <2> QED
    BY <1>3, <1>9, <2>4 DEF fr
<1> HIDE DEF W, fs
<1>11. ASSUME NEW k \in 1..l, k # l PROVE fs[k] = W[k]
  <2>1. k \in Waiting(st)
    BY <1>3, <1>11 DEF Waiting, l
  <2> DEFINE fr == t[k]
  <2>2. fr.fi = st[k].fi /\ fr.pc = st[k].pc /\ fr.meet = st[k].meet /\ fr.words = m.frames[k]
    BY <1>8, <1>11
  <2> HIDE DEF fr
  <2>3. AsWas(pr, st, rg, m, k, fr)
    BY <1>1, <1>5, <2>1, <2>2, BelowAsWas
  <2>4. AsSource(pr[st[k].fi], fr, m.regs, FALSE) = AllAsSource(pr, st, rg)[k]
    BY <2>3 DEF AsWas
  <2> QED
    BY <1>9, <2>2, <2>4 DEF fr, fs
<1>12. IsList(W) /\ Len(W) = l
  BY <1>3, <1>9, FunctionList
<1> DEFINE A == MeetOf(TopF(pr, st).func, TopF(pr, st).alive, TopS(st)) \ Defs(TopStmt(pr, st))
           e == [y \in A |-> TopEnv(pr, st, rg)[y]]
<1>13. a = [fi |-> st[l].fi, pc |-> st[l].pc, env |-> e, arr |-> fs[l].arr]
  <2> DEFINE r == fs[l]
  <2>1. a = [r EXCEPT !.env = [y \in A |-> r.env[y]]]
    BY DEF SourceCaller, fs, l
  <2>2. r.env = TopEnv(pr, st, rg)
    BY <1>6
  <2> HIDE DEF r, a
  <2>3. a = [r EXCEPT !.env = e]
    BY <2>1, <2>2
  <2>4. r = [fi |-> st[l].fi, pc |-> st[l].pc, env |-> r.env, arr |-> r.arr]
    BY <1>7 DEF r
  <2> HIDE DEF e
  <2> QED
    BY <2>3, <2>4 DEF r
<1> HIDE DEF a, e
<1>14. fs[l].fi = W[l].fi /\ fs[l].arr = W[l].arr /\ W[l].env = e
  BY <1>7, <1>10, <1>13
<1>15. SameButLast(fs, W, l)
  BY <1>4, <1>11, <1>12, <1>14 DEF SameButLast
<1>16. \A x \in A : e[x] = TopEnv(pr, st, rg)[x]
  BY DEF e
<1> QED
  BY <1>14, <1>15, <1>16 DEF SeenWaiting, fs, W, t, l

\* a library function has left v in the registers rg2, and who knows what in
\* those it may overwrite
LibraryLeaves(rg, rg2, v) ==
    /\ rg2 \in [Regs -> Nat]
    /\ rg2[NoReg] = 0
    /\ rg2[ArgReg[0]] = v
    /\ KeepsRegs(rg, rg2, BuiltinDestroys)

\* m with the registers rg2 is the machine of the calls wt
SuspendsMachine(m, rg2, wt) ==
    [m EXCEPT !.regs = rg2] = MachineOf(wt, rg2, m.glob, m.garr)

\* The machine with other registers is that of the calls while they wait.
LEMMA SuspendedMachine ==
    ASSUME NEW st, NEW meet, NEW m, NEW rg2,
           IsList(st), Len(st) > 0,
           Carries(m, st)
    PROVE  SuspendsMachine(m, rg2, Suspension(st, meet, m))
<1> DEFINE t == Suspension(st, meet, m)
           l == Len(st)
           a == [k \in DOMAIN t |-> t[k].words]
           F == <<>> \o a
           M == m.frames
<1>1. IsSuspension(st, meet, m, t)
  BY SuspensionIs
<1>2. l \in Nat /\ l > 0
  BY ListIs
<1> HIDE DEF t, l
<1>3. IsList(t) /\ Len(t) = l /\ DOMAIN t = 1..l /\ \A k \in 1..l : t[k].words = m.frames[k]
  BY <1>1, ListIs DEF IsSuspension, l
<1>4. a = [k \in 1..l |-> a[k]] /\ \A k \in 1..l : a[k] = t[k].words
  BY <1>3
<1> HIDE DEF a
<1>5. IsList(a) /\ Len(a) = l
  BY <1>2, <1>4, FunctionList
<1>6. F = a
  BY <1>5, ListConcat
<1>7. IsMachine(m) /\ IsList(M) /\ Len(M) = l
  BY DEF Carries, IsMachine, TopOf, l
<1> HIDE DEF F
<1>8. a = M
  <2> HIDE DEF M
  <2>1. \A i \in 1..Len(a) : a[i] = M[i]
    BY <1>3, <1>4, <1>5 DEF M
  <2> QED
    BY <1>5, <1>7, <2>1, ListEqual
<1>9. m = [regs |-> m.regs, frames |-> M, glob |-> m.glob, garr |-> m.garr]
  BY <1>7 DEF IsMachine
<1>10. MachineOf(t, rg2, m.glob, m.garr) = [regs |-> rg2, frames |-> F, glob |-> m.glob, garr |-> m.garr]
  BY DEF MachineOf, F, a
<1>11. [m EXCEPT !.regs = rg2] = [regs |-> rg2, frames |-> M, glob |-> m.glob, garr |-> m.garr]
  BY <1>9
<1> QED
  BY <1>6, <1>8, <1>10, <1>11 DEF SuspendsMachine, t

\* a library function that returned v is over
LibraryReturned(pr, ds, cs, st, rg, gl, ga, m, v) ==
    LET n == TopS(st) + 1
    IN  /\ m.glob = IF TopStmt(pr, st).dest = Glob THEN v ELSE gl
        /\ m.garr = ga
        /\ Going(pr, ds, cs, MovedOn(st, n, m), m.regs, m.glob, m.garr)
        /\ AllAsSource(pr, MovedOn(st, n, m), m.regs) =
             Continued(AllAsSource(pr, st, rg), n,
                       BoundTo(TopF(pr, st), TopEnv(pr, st, rg), n, TopStmt(pr, st).dest, v))

\* the machine when rg2 are the registers that the library function leaves
LibraryAfter(pr, st, rg, gl, ga, meet, rg2) ==
    ExecuteAll([Before(pr, st, rg, gl, ga, meet) EXCEPT !.regs = rg2],
               GenAfterCall(TopF(pr, st), TopS(st), meet))

\* The caller of a library function goes on.
LEMMA LibraryStep ==
    ASSUME NEW pr, NEW ds, NEW cs, NEW st, NEW rg, NEW gl, NEW ga, NEW meet, NEW rg2, NEW v,
           Going(pr, ds, cs, st, rg, gl, ga),
           Calling(pr, ds, st, meet),
           TopStmt(pr, st).fn \in Builtins,
           LibraryLeaves(Before(pr, st, rg, gl, ga, meet).regs, rg2, v)
    PROVE  LibraryReturned(pr, ds, cs, st, rg, gl, ga,
                           LibraryAfter(pr, st, rg, gl, ga, meet, rg2), v)
<1> DEFINE m1 == Before(pr, st, rg, gl, ga, meet)
           m2 == [m1 EXCEPT !.regs = rg2]
           f == TopF(pr, st)
           s == TopS(st)
           n == s + 1
           m == ExecuteAll(m2, GenAfterCall(f, s, meet))
           wt == Suspension(st, meet, m1)
           l == Len(st)
           dest == TopStmt(pr, st).dest
           fs == AllAsSource(pr, st, rg)
           W == WaitSource(pr, wt, rg2)
           e == TopEnv(pr, st, rg)
<1>1. Handed(pr, ds, st, rg, gl, ga, m1, meet)
  BY BeforeIs
<1>2. IsList(st) /\ l > 0 /\ Reported(pr, ds, cs) /\ StoreOK(rg, gl, ga)
  BY DEF Going, StackOK
<1>3. l \in Nat /\ l \in 1..l
  BY <1>2, ListIs
<1> HIDE DEF m1
<1>4. Carries(m1, st) /\ m1.glob = gl /\ m1.garr = ga
  BY <1>1 DEF Handed
<1>5. StoreOK(rg2, gl, ga)
  BY <1>2 DEF LibraryLeaves, StoreOK
<1>6. Resumable(pr, ds, cs, wt, rg2, gl, ga)
  BY <1>1, <1>5, SuspensionOK
<1>7. m2 = MachineOf(wt, rg2, gl, ga)
  <2>1. SuspendsMachine(m1, rg2, wt)
    BY <1>2, <1>4, SuspendedMachine
  <2> HIDE DEF wt
  <2> QED
    BY <1>4, <2>1 DEF SuspendsMachine
<1>8. IsSuspension(st, meet, m1, wt)
  BY <1>2, SuspensionIs
<1> HIDE DEF wt, l
<1>9. /\ Len(wt) = l
      /\ \A k \in 1..l : wt[k].fi = st[k].fi /\ wt[k].pc = st[k].pc
      /\ \A k \in 1..l : wt[k].meet = IF k = l THEN meet ELSE st[k].meet
  BY <1>8 DEF IsSuspension, l
<1>10. TopF(pr, wt) = f /\ TopS(wt) = s /\ TopStmt(pr, wt) = TopStmt(pr, st) /\ wt[Len(wt)].meet = meet
  BY <1>3, <1>9 DEF TopF, TopS, TopStmt, l
<1>11. m = Back(pr, wt, rg2, gl, ga)
  BY <1>7, <1>10 DEF Back
<1> HIDE DEF m, m2
<1>12. /\ Resumed(pr, ds, cs, wt, rg2, m, v)
       /\ m.glob = IF TopStmt(pr, wt).dest = Glob THEN v ELSE gl
       /\ m.garr = ga
  <2>1. rg2[ArgReg[0]] = v
    BY DEF LibraryLeaves
  <2> QED
    BY <1>6, <1>11, <2>1, BackStep
<1>13. MovedOn(wt, n, m) = MovedOn(st, n, m)
  BY <1>9 DEF MovedOn, l
<1>14. W = WaitSource(pr, wt, m1.regs)
  <2>1. Awaited(pr, wt[Len(wt)]) = TopStmt(pr, st).fn
    BY <1>10 DEF Awaited, TopStmt, TopF, TopS
  <2>2. ds[Awaited(pr, wt[Len(wt)])] = BuiltinDestroys
    BY <1>2, <2>1 DEF Reported
  <2>3. KeepsRegs(m1.regs, rg2, ds[Awaited(pr, wt[Len(wt)])])
    BY <2>2 DEF LibraryLeaves, m1
  <2>4. StackOK(pr, ds, cs, wt) /\ Len(wt) > 0 /\ Waits(pr, ds, wt[Len(wt)])
    BY <1>6 DEF Resumable
  <2> QED
    BY <1>2, <2>3, <2>4, WaitSame
<1>15. SeenWaiting(pr, st, rg, W)
  <2>1. SeenWaiting(pr, st, rg, WaitSource(pr, Suspension(st, meet, m1), m1.regs))
    BY <1>1, SuspensionSource
  <2> QED
    BY <1>14, <2>1 DEF wt
<1> HIDE DEF W, fs, e
<1>16. SameButLast(fs, W, l)
       /\ \A x \in MeetOf(f.func, f.alive, s) \ Defs(TopStmt(pr, st)) : W[l].env[x] = e[x]
  BY <1>15 DEF SeenWaiting, fs, e, l
<1>17. /\ Going(pr, ds, cs, MovedOn(wt, n, m), m.regs, m.glob, m.garr)
       /\ AllAsSource(pr, MovedOn(wt, n, m), m.regs) = Continued(W, n, BoundTo(f, W[l].env, n, dest, v))
  BY <1>9, <1>10, <1>12 DEF Resumed, W
<1>18. MeetOf(f.func, f.alive, s) = f.alive[n]
  <2>1. TopIs(pr, cs, st, MachineOf(st, rg, gl, ga))
    BY GoingIs
  <2>2. FunctionOK(f) /\ s \in Calls(f)
    BY <2>1 DEF TopIs, Calling
  <2> QED
    BY <2>2, AfterCallIs
<1> HIDE DEF f, s, dest
<1>19. BoundTo(f, W[l].env, n, dest, v) = BoundTo(f, e, n, dest, v)
  <2>1. ASSUME NEW x \in f.alive[n], x # dest PROVE W[l].env[x] = e[x]
    <3>1. x \notin Defs(TopStmt(pr, st))
      BY <2>1 DEF Defs, dest
    <3> QED
      BY <1>16, <1>18, <3>1
  <2> HIDE DEF n
  <2> QED
    BY <2>1 DEF BoundTo
<1>20. Continued(W, n, BoundTo(f, e, n, dest, v)) = Continued(fs, n, BoundTo(f, e, n, dest, v))
  <2> DEFINE env == BoundTo(f, e, n, dest, v)
  <2> HIDE DEF env, n
  <2> QED
    BY <1>2, <1>3, <1>16, ContinuedSame DEF l
<1>21. LibraryReturned(pr, ds, cs, st, rg, gl, ga, m, v)
  BY <1>10, <1>12, <1>13, <1>17, <1>19, <1>20 DEF LibraryReturned, f, s, dest, fs, e
<1>22. m = LibraryAfter(pr, st, rg, gl, ga, meet, rg2)
  BY DEF LibraryAfter, m, m2, f, s, m1
<1> QED
  BY <1>21, <1>22

-------------------------------------------------------------------------------
(* The refinement: the steps of Execution are those of IrExec.             *)

\* The statements and values are the same ones for the source.
LEMMA SameOperators ==
    /\ \A v, w : Meaning!BinaryOp(v, w) = BinaryOp(v, w)
    /\ \A v : Meaning!UnaryOp(v) = UnaryOp(v)
    /\ \A k, i : Meaning!Ptr(k, i) = Ptr(k, i)
    /\ \A p : Meaning!PtrArray(p) = PtrArray(p) /\ Meaning!PtrOffset(p) = PtrOffset(p)
    /\ Meaning!Junk = Junk /\ Meaning!Val = Val
    /\ \A s : Meaning!Front(s) = Front(s)
    /\ Meaning!REGUID_ARG_OFFSET = REGUID_ARG_OFFSET
<1>1. Meaning!Junk = Junk /\ Meaning!Val = Val /\ Meaning!REGUID_ARG_OFFSET = REGUID_ARG_OFFSET
  BY DEF Meaning!Junk, Junk, Meaning!Val, Val, Meaning!REGUID_ARG_OFFSET, REGUID_ARG_OFFSET
<1>2. \A k, i : Meaning!Ptr(k, i) = Ptr(k, i)
  BY <1>1 DEF Meaning!Ptr, Ptr
<1>3. \A p : Meaning!PtrArray(p) = PtrArray(p) /\ Meaning!PtrOffset(p) = PtrOffset(p)
  BY <1>2 DEF Meaning!PtrArray, PtrArray, Meaning!PtrOffset, PtrOffset
<1>4. \A v : Meaning!IsPtr(v) <=> IsPtr(v)
  BY <1>2 DEF Meaning!IsPtr, IsPtr
<1>5. \A v, w : Meaning!BinaryOp(v, w) = BinaryOp(v, w)
  BY <1>4 DEF Meaning!BinaryOp, BinaryOp
<1>6. \A v : Meaning!UnaryOp(v) = UnaryOp(v)
  BY DEF Meaning!UnaryOp, UnaryOp
<1>7. \A s : Meaning!Front(s) = Front(s)
  BY DEF Meaning!Front, Front
<1> QED
  BY <1>1, <1>2, <1>3, <1>5, <1>6, <1>7

\* So are the statements of a function.
LEMMA SameStatements ==
    /\ \A f, s : Meaning!MeetOf(f.func, f.alive, s) = MeetOf(f.func, f.alive, s)
    /\ \A stmt : Meaning!Defs(stmt) = Defs(stmt)
    /\ \A stmt : Meaning!IsCall(stmt) <=> IsCall(stmt)
    /\ \A func : Meaning!Lines(func) = Lines(func)
    /\ \A func, l : Meaning!LabelLines(func, l) = LabelLines(func, l)
<1>1. \A func : Meaning!Lines(func) = Lines(func)
  BY DEF Meaning!Lines, Lines
<1>2. \A func, l : Meaning!LabelLines(func, l) = LabelLines(func, l)
  BY <1>1 DEF Meaning!LabelLines, LabelLines
<1>3. \A func, s : Meaning!CfgNext(func, s) = CfgNext(func, s)
  BY <1>2 DEF Meaning!CfgNext, CfgNext
<1>4. \A f, s : Meaning!MeetOf(f.func, f.alive, s) = MeetOf(f.func, f.alive, s)
  BY <1>3 DEF Meaning!MeetOf, MeetOf
<1>5. \A stmt : Meaning!Defs(stmt) = Defs(stmt)
  BY DEF Meaning!Defs, Defs, Meaning!Unpooled, Unpooled, Meaning!Arrays, Arrays
<1>6. \A stmt : Meaning!IsCall(stmt) <=> IsCall(stmt)
  BY DEF Meaning!IsCall, IsCall
<1> QED
  BY <1>1, <1>2, <1>4, <1>5, <1>6

\* What the source sees is a function of the state.
LEMMA SourceIs ==
    /\ SourceFrames = AllAsSource(prog, stack, regs)
    /\ SourceFrames' = AllAsSource(prog', stack', regs')
<1>1. ASSUME NEW k, NEW x PROVE Holds(k, x) = HeldBy(prog[stack[k].fi], stack[k], regs, x)
  BY DEF Holds, HeldBy
<1>2. SourceFrames = AllAsSource(prog, stack, regs)
  BY <1>1 DEF SourceFrames, AllAsSource, AsSource, Env, AliveIn
<1>3. (SourceFrames = AllAsSource(prog, stack, regs))'
  BY <1>2, PTL
<1> HIDE DEF SourceFrames
<1>4. SourceFrames' = AllAsSource(prog', stack', regs')
  BY <1>3
<1> QED
  BY <1>2, <1>4

\* The machine of the calls fs is that of their words, the registers and globals.
LEMMA MachineOfState ==
    ASSUME NEW fs
    PROVE  Machine(fs) = MachineOf(fs, regs, glob, garr)
BY DEF Machine, MachineOf

\* The source sees as many calls as there are, each by its frame.
LEMMA SourceLength ==
    ASSUME NEW pr, NEW st, NEW rg, IsList(st)
    PROVE  /\ IsList(AllAsSource(pr, st, rg))
           /\ Len(AllAsSource(pr, st, rg)) = Len(st)
           /\ \A k \in 1..Len(st) :
                AllAsSource(pr, st, rg)[k] = AsSource(pr[st[k].fi], st[k], rg, k = Len(st))
<1> DEFINE fs == AllAsSource(pr, st, rg)
           l == Len(st)
<1>1. l \in Nat
  BY ListIs
<1>2. fs = [k \in 1..l |-> AsSource(pr[st[k].fi], st[k], rg, k = l)]
  BY DEF AllAsSource
<1> HIDE DEF fs, l
<1>3. fs = [k \in 1..l |-> fs[k]]
  BY <1>2
<1>4. IsList(fs) /\ Len(fs) = l
  BY <1>1, <1>3, FunctionList
<1>5. \A k \in 1..l : fs[k] = AsSource(pr[st[k].fi], st[k], rg, k = l)
  BY <1>2
<1> QED
  BY <1>4, <1>5 DEF fs, l

-------------------------------------------------------------------------------
\* where the source is
LEMMA SourceTop ==
    ASSUME IsList(stack), Len(stack) > 0
    PROVE  /\ Len(SourceFrames) = Len(stack)
           /\ Meaning!Top.fi = stack[Len(stack)].fi
           /\ Meaning!Top.pc = stack[Len(stack)].pc
           /\ Meaning!Top.env = TopEnv(prog, stack, regs)
           /\ Meaning!Here = TopF(prog, stack) /\ Here = TopF(prog, stack)
           /\ Meaning!Stmt_ = TopStmt(prog, stack) /\ Stmt_ = TopStmt(prog, stack)
           /\ Meaning!Top.pc = TopS(stack) /\ Top.pc = TopS(stack)
<1> DEFINE l == Len(stack)
           a == AllAsSource(prog, stack, regs)
<1>1. l \in Nat /\ l \in 1..l
  BY ListIs
<1>2. Len(a) = l /\ a[l] = AsSource(prog[stack[l].fi], stack[l], regs, l = l)
  BY <1>1, SourceLength
<1>3. a[l].fi = stack[l].fi /\ a[l].pc = stack[l].pc
  BY <1>2 DEF AsSource
<1>4. SourceFrames = a
  BY SourceIs
<1>5. Meaning!Top = a[l] /\ Len(SourceFrames) = l
  BY <1>2, <1>4 DEF Meaning!Top
<1>6. Top = stack[l]
  BY DEF Top
<1>7. a[l].env = TopEnv(prog, stack, regs)
  BY DEF TopEnv
<1> HIDE DEF l, a
<1>8. Meaning!Here = prog[stack[l].fi] /\ Here = prog[stack[l].fi]
  BY <1>3, <1>5, <1>6 DEF Meaning!Here, Here
<1>9. /\ Meaning!Stmt_ = prog[stack[l].fi].func.stmts[stack[l].pc]
      /\ Stmt_ = prog[stack[l].fi].func.stmts[stack[l].pc]
  BY <1>3, <1>5, <1>6, <1>8 DEF Meaning!Stmt_, Stmt_
<1>10. /\ TopF(prog, stack) = prog[stack[l].fi] /\ TopS(stack) = stack[l].pc
       /\ TopStmt(prog, stack) = prog[stack[l].fi].func.stmts[stack[l].pc]
  BY DEF TopF, TopS, TopStmt, l
<1>11. Meaning!Top.fi = stack[l].fi /\ Meaning!Top.pc = stack[l].pc
  BY <1>3, <1>5
<1>12. Meaning!Top.env = TopEnv(prog, stack, regs)
  BY <1>5, <1>7
<1> QED
  BY <1>5, <1>6, <1>8, <1>9, <1>10, <1>11, <1>12 DEF l

\* An operand has the value the source gives it.
LEMMA ValueIs ==
    ASSUME NEW v, IsList(stack), Len(stack) > 0
    PROVE  Meaning!Value(v) = SourceValue(prog, stack, regs, glob, v)
<1>1. Meaning!Top.env = TopEnv(prog, stack, regs) /\ Len(SourceFrames) = Len(stack)
  BY SourceTop
<1>2. \A k, i : Meaning!Ptr(k, i) = Ptr(k, i)
  BY SameOperators
<1>3. /\ NoVar # Glob /\ NoVar # LocArr /\ NoVar # GlobArr
      /\ Glob # LocArr /\ Glob # GlobArr /\ LocArr # GlobArr
  BY KindsAssumption DEF Arrays
<1> DEFINE r == SourceValue(prog, stack, regs, glob, v)
           e == TopEnv(prog, stack, regs)
           me == Meaning!Value(v)
<1>4. CASE v = NoVar
  <2>1. me = Literal
    BY <1>3, <1>4 DEF Meaning!Value
  <2>2. r = Literal
    BY <1>3, <1>4 DEF SourceValue
  <2> HIDE DEF r, me
  <2>3. me = r
    BY <2>1, <2>2
  <2> QED
    BY <2>3 DEF r, me
<1>5. CASE v = Glob
  <2>1. me = glob
    BY <1>3, <1>5 DEF Meaning!Value
  <2>2. r = glob
    BY <1>3, <1>5 DEF SourceValue
  <2> HIDE DEF r, me
  <2>3. me = r
    BY <2>1, <2>2
  <2> QED
    BY <2>3 DEF r, me
<1>6. CASE v = LocArr
  <2>1. me = Ptr(Len(stack), 0)
    BY <1>1, <1>2, <1>3, <1>6 DEF Meaning!Value
  <2>2. r = Ptr(Len(stack), 0)
    BY <1>3, <1>6 DEF SourceValue
  <2> HIDE DEF r, me
  <2>3. me = r
    BY <2>1, <2>2
  <2> QED
    BY <2>3 DEF r, me
<1>7. CASE v = GlobArr
  <2>1. me = Ptr(0, 0)
    BY <1>2, <1>3, <1>7 DEF Meaning!Value
  <2>2. r = Ptr(0, 0)
    BY <1>3, <1>7 DEF SourceValue
  <2> HIDE DEF r, me
  <2>3. me = r
    BY <2>1, <2>2
  <2> QED
    BY <2>3 DEF r, me
<1>8. CASE v # NoVar /\ v # Glob /\ v # LocArr /\ v # GlobArr
  <2> HIDE DEF e
  <2>1. Meaning!Top.env = e
    BY <1>1 DEF e
  <2>2. me = e[v]
    BY <1>8, <2>1 DEF Meaning!Value
  <2>3. r = e[v]
    BY <1>8 DEF SourceValue, e
  <2> HIDE DEF r, me
  <2>4. me = r
    BY <2>2, <2>3
  <2> QED
    BY <2>4 DEF r, me
<1> QED
  BY <1>4, <1>5, <1>6, <1>7, <1>8

\* So have the operands of the statement that comes next.
LEMMA ArgIs ==
    ASSUME NEW i, IsList(stack), Len(stack) > 0
    PROVE  Meaning!Value(Meaning!Stmt_.args[i]) = SourceArg(prog, stack, regs, glob, i)
<1>1. Meaning!Stmt_ = TopStmt(prog, stack)
  BY SourceTop
<1>2. Meaning!Value(TopStmt(prog, stack).args[i]) = SourceValue(prog, stack, regs, glob, TopStmt(prog, stack).args[i])
  BY ValueIs
<1> QED
  BY <1>1, <1>2 DEF SourceArg

\* A pointer leads to the same word.
LEMMA DerefSame ==
    ASSUME NEW p, status # "ready"
    PROVE  Meaning!Deref(p) = SourceDeref(prog, stack, regs, garr, p)
<1>1. SourceFrames = AllAsSource(prog, stack, regs)
  BY SourceIs
<1>2. SourceArray = garr
  BY DEF SourceArray
<1>3. Meaning!PtrArray(p) = PtrArray(p) /\ Meaning!PtrOffset(p) = PtrOffset(p)
  BY SameOperators
<1> HIDE DEF SourceFrames, SourceArray
<1> QED
  BY <1>1, <1>2, <1>3 DEF Meaning!Deref, SourceDeref

\* A statement computes what the source says.
LEMMA ResultIs ==
    ASSUME IsList(stack), Len(stack) > 0, status # "ready"
    PROVE  Meaning!Result = SourceResult(prog, stack, regs, glob, garr)
<1> DEFINE op == TopStmt(prog, stack).op
           a(i) == SourceArg(prog, stack, regs, glob, i)
           r == SourceResult(prog, stack, regs, glob, garr)
           me == Meaning!Result
<1>1. Meaning!Stmt_ = TopStmt(prog, stack) /\ Meaning!Stmt_.op = op
  BY SourceTop
<1>2. /\ Meaning!Value(Meaning!Stmt_.args[1]) = a(1)
      /\ Meaning!Value(Meaning!Stmt_.args[2]) = a(2)
  BY ArgIs
<1>3. CASE op = "opbinary"
  <2>1. me = BinaryOp(a(1), a(2))
    BY <1>1, <1>2, <1>3, SameOperators DEF Meaning!Result
  <2>2. r = BinaryOp(a(1), a(2))
    BY <1>3 DEF SourceResult
  <2> HIDE DEF r, me
  <2>3. me = r
    BY <2>1, <2>2
  <2> QED
    BY <2>3 DEF r, me
<1>4. CASE op = "opunary"
  <2>1. me = UnaryOp(a(1))
    BY <1>1, <1>2, <1>4, SameOperators DEF Meaning!Result
  <2>2. r = UnaryOp(a(1))
    BY <1>4 DEF SourceResult
  <2> HIDE DEF r, me
  <2>3. me = r
    BY <2>1, <2>2
  <2> QED
    BY <2>3 DEF r, me
<1>5. CASE op \in {"mov", "return"}
  <2>1. me = a(1)
    BY <1>1, <1>2, <1>5 DEF Meaning!Result
  <2>2. r = a(1)
    BY <1>5 DEF SourceResult
  <2> HIDE DEF r, me
  <2>3. me = r
    BY <2>1, <2>2
  <2> QED
    BY <2>3 DEF r, me
<1>6. CASE op = "arrayget"
  <2> DEFINE p == a(1) + TopStmt(prog, stack).label
  <2>1. me = Meaning!Deref(p)
    BY <1>1, <1>2, <1>6 DEF Meaning!Result
  <2>2. r = SourceDeref(prog, stack, regs, garr, p)
    BY <1>6 DEF SourceResult
  <2>3. Meaning!Deref(p) = SourceDeref(prog, stack, regs, garr, p)
    BY DerefSame
  <2> HIDE DEF r, me, p
  <2>4. me = r
    BY <2>1, <2>2, <2>3
  <2> QED
    BY <2>4 DEF r, me
<1>7. CASE op \notin {"opbinary", "opunary", "mov", "return", "arrayget"}
  <2>1. me = 0
    BY <1>1, <1>7 DEF Meaning!Result
  <2>2. r = 0
    BY <1>7 DEF SourceResult
  <2> HIDE DEF r, me
  <2>3. me = r
    BY <2>1, <2>2
  <2> QED
    BY <2>3 DEF r, me
<1> QED
  BY <1>3, <1>4, <1>5, <1>6, <1>7

\* a call of the source that goes on
IsCallOf(last, a, q, e, w) == last = [fi |-> a, pc |-> q, env |-> e, arr |-> w]
CallMoved(last, a, w, n, b) ==
    [last EXCEPT !.pc = n, !.env = b] = [fi |-> a, pc |-> n, env |-> b, arr |-> w]

\* Going on replaces the line and the scalars of the call, the rest stays.
LEMMA CallMoves ==
    ASSUME NEW last, NEW a, NEW q, NEW e, NEW w, NEW n, NEW b,
           IsCallOf(last, a, q, e, w)
    PROVE  CallMoved(last, a, w, n, b)
<1> DEFINE r == [last EXCEPT !.pc = n]
<1>0. last = [fi |-> a, pc |-> q, env |-> e, arr |-> w]
  BY DEF IsCallOf
<1>1. r = [fi |-> a, pc |-> n, env |-> e, arr |-> w]
  BY <1>0
<1>2. [last EXCEPT !.pc = n, !.env = b] = [r EXCEPT !.env = b]
  BY <1>0
<1> HIDE DEF r
<1>3. [r EXCEPT !.env = b] = [fi |-> a, pc |-> n, env |-> b, arr |-> w]
  BY <1>1
<1>4. [last EXCEPT !.pc = n, !.env = b] = [fi |-> a, pc |-> n, env |-> b, arr |-> w]
  BY <1>2, <1>3
<1> QED
  BY <1>4 DEF CallMoved

\* a call of the machine that goes on
IsFrame(last, a, q, e, w) == last = [fi |-> a, pc |-> q, meet |-> e, words |-> w]
FrameMoved(last, a, w, n, b) ==
    [last EXCEPT !.pc = n, !.meet = b] = [fi |-> a, pc |-> n, meet |-> b, words |-> w]

\* Going on replaces the line and the registers saved, the words stay.
LEMMA FrameMoves ==
    ASSUME NEW last, NEW a, NEW q, NEW e, NEW w, NEW n, NEW b,
           IsFrame(last, a, q, e, w)
    PROVE  FrameMoved(last, a, w, n, b)
<1> DEFINE r == [last EXCEPT !.pc = n]
<1>0. last = [fi |-> a, pc |-> q, meet |-> e, words |-> w]
  BY DEF IsFrame
<1>1. r = [fi |-> a, pc |-> n, meet |-> e, words |-> w]
  BY <1>0
<1>2. [last EXCEPT !.pc = n, !.meet = b] = [r EXCEPT !.meet = b]
  BY <1>0
<1> HIDE DEF r
<1>3. [r EXCEPT !.meet = b] = [fi |-> a, pc |-> n, meet |-> b, words |-> w]
  BY <1>1
<1>4. [last EXCEPT !.pc = n, !.meet = b] = [fi |-> a, pc |-> n, meet |-> b, words |-> w]
  BY <1>2, <1>3
<1> QED
  BY <1>4 DEF FrameMoved

\* The last of the calls goes on as in the source.
LEMMA ContinueIs ==
    ASSUME NEW fs, NEW n, NEW x, NEW v,
           fs[Len(fs)] = [fi |-> fs[Len(fs)].fi, pc |-> fs[Len(fs)].pc,
                          env |-> fs[Len(fs)].env, arr |-> fs[Len(fs)].arr],
           SourceFrames' = Continued(fs, n, BoundTo(prog[fs[Len(fs)].fi], fs[Len(fs)].env, n, x, v)),
           glob' = IF x = Glob THEN v ELSE glob
    PROVE  Meaning!Continue(fs, n, x, v)
<1> DEFINE last == fs[Len(fs)]
           b == BoundTo(prog[last.fi], last.env, n, x, v)
<1>1. Meaning!Bound(prog[last.fi], last.env, n, x, v) = b
  BY DEF Meaning!Bound, BoundTo
<1>2. Continued(fs, n, b) = [fs EXCEPT ![Len(fs)] = [fi |-> last.fi, pc |-> n, env |-> b, arr |-> last.arr]]
  BY DEF Continued
<1> HIDE DEF b
<1>3. [last EXCEPT !.pc = n, !.env = b] = [fi |-> last.fi, pc |-> n, env |-> b, arr |-> last.arr]
  <2> DEFINE a == last.fi
             q == last.pc
             e == last.env
             w == last.arr
  <2>1. last = [fi |-> a, pc |-> q, env |-> e, arr |-> w]
    OBVIOUS
  <2> HIDE DEF a, q, e, w
  <2>2. last.fi = a /\ last.arr = w
    BY DEF a, w
  <2>4. IsCallOf(last, a, q, e, w)
    BY <2>1 DEF IsCallOf
  <2> HIDE DEF last
  <2>5. CallMoved(last, a, w, n, b)
    BY <2>4, CallMoves
  <2>3. [last EXCEPT !.pc = n, !.env = b] = [fi |-> a, pc |-> n, env |-> b, arr |-> w]
    BY <2>5 DEF CallMoved
  <2> QED
    BY <2>2, <2>3
<1>4. SourceFrames' = [fs EXCEPT ![Len(fs)] = [last EXCEPT !.pc = n, !.env = b]]
  BY <1>2, <1>3 DEF b
<1> HIDE DEF SourceFrames
<1> QED
  BY <1>1, <1>4 DEF Meaning!Continue

\* fr is a frame of a call
IsCallFrame(fr) == fr = [fi |-> fr.fi, pc |-> fr.pc, meet |-> fr.meet, words |-> fr.words]

\* the frame fr with the words ws
Reworded(fr, ws) ==
    [fr EXCEPT !.words = ws] = [fi |-> fr.fi, pc |-> fr.pc, meet |-> fr.meet, words |-> ws]

\* Only the words are replaced.
LEMMA RewordedIs ==
    ASSUME NEW fr, NEW ws, IsCallFrame(fr)
    PROVE  Reworded(fr, ws)
<1> DEFINE a == fr.fi
           q == fr.pc
           e == fr.meet
           w == fr.words
<1>1. fr = [fi |-> a, pc |-> q, meet |-> e, words |-> w]
  BY DEF IsCallFrame
<1> HIDE DEF a, q, e, w
<1>2. [fr EXCEPT !.words = ws] = [fi |-> a, pc |-> q, meet |-> e, words |-> ws]
  BY <1>1
<1> QED
  BY <1>2 DEF a, q, e, w, Reworded

\* what Settle leaves of the calls fs
Settled(fs, m) == [k \in DOMAIN fs |-> [fs[k] EXCEPT !.words = m.frames[k]]]

\* the calls gs are those of fs, the last in line n and saving nothing
OnlyLast(fs, gs, n) ==
    /\ IsList(fs) /\ Len(fs) > 0
    /\ DOMAIN gs = 1..Len(fs)
    /\ \A k \in 1..Len(fs) :
         /\ IsCallFrame(gs[k]) /\ gs[k].fi = fs[k].fi
         /\ gs[k].pc = IF k = Len(fs) THEN n ELSE fs[k].pc
         /\ gs[k].meet = IF k = Len(fs) THEN <<>> ELSE fs[k].meet

\* They go on as the last of them does.
LEMMA OnlyLastMoves ==
    ASSUME NEW fs, NEW gs, NEW n, NEW m, OnlyLast(fs, gs, n)
    PROVE  Settled(gs, m) = MovedOn(fs, n, m)
<1> DEFINE l == Len(fs)
           a == Settled(gs, m)
           b == MovedOn(fs, n, m)
<1>1. DOMAIN gs = 1..l
  BY DEF OnlyLast
<1>2. a = [k \in 1..l |-> [gs[k] EXCEPT !.words = m.frames[k]]]
  BY <1>1 DEF Settled
<1>3. b = [k \in 1..l |->
             [fi |-> fs[k].fi, pc |-> IF k = l THEN n ELSE fs[k].pc,
              meet |-> IF k = l THEN <<>> ELSE fs[k].meet, words |-> m.frames[k]]]
  BY DEF MovedOn
<1>4. ASSUME NEW k \in 1..l PROVE a[k] = b[k]
  <2> DEFINE q == IF k = l THEN n ELSE fs[k].pc
             e == IF k = l THEN <<>> ELSE fs[k].meet
             ws == m.frames[k]
  <2>1. IsCallFrame(gs[k]) /\ gs[k].fi = fs[k].fi /\ gs[k].pc = q /\ gs[k].meet = e
    BY DEF OnlyLast
  <2>2. Reworded(gs[k], ws)
    BY <2>1, RewordedIs
  <2>3. a[k] = [gs[k] EXCEPT !.words = ws]
    BY <1>2
  <2>4. b[k] = [fi |-> fs[k].fi, pc |-> q, meet |-> e, words |-> ws]
    BY <1>3
  <2> HIDE DEF a, b, q, e, ws
  <2>5. [gs[k] EXCEPT !.words = ws] = [fi |-> fs[k].fi, pc |-> q, meet |-> e, words |-> ws]
    BY <2>1, <2>2 DEF Reworded
  <2> QED
    BY <2>3, <2>4, <2>5
<1>5. a = [k \in 1..l |-> a[k]] /\ b = [k \in 1..l |-> b[k]]
  BY <1>2, <1>3
<1> HIDE DEF a, b, l
<1> QED
  BY <1>4, <1>5 DEF a, b

\* the calls fs, each with its frame
CallFrames(fs) == IsList(fs) /\ Len(fs) > 0 /\ \A k \in 1..Len(fs) : IsCallFrame(fs[k])

\* The calls that go on are the same but for the last.
LEMMA LastMoved ==
    ASSUME NEW fs, NEW n, CallFrames(fs)
    PROVE  LET last == fs[Len(fs)]
           IN  OnlyLast(fs, [fs EXCEPT ![Len(fs)] = [last EXCEPT !.pc = n, !.meet = <<>>]], n)
<1> DEFINE l == Len(fs)
           last == fs[l]
           new == [last EXCEPT !.pc = n, !.meet = <<>>]
           gs == [fs EXCEPT ![l] = new]
<1>1. l \in Nat /\ l \in 1..l /\ DOMAIN fs = 1..l
  BY ListIs DEF CallFrames
<1>2. IsCallFrame(last)
  BY <1>1 DEF CallFrames
<1>3. IsFrame(last, last.fi, last.pc, last.meet, last.words)
  BY <1>2 DEF IsCallFrame, IsFrame
<1> HIDE DEF last
<1>4. FrameMoved(last, last.fi, last.words, n, <<>>)
  BY <1>3, FrameMoves
<1>5. new = [fi |-> last.fi, pc |-> n, meet |-> <<>>, words |-> last.words]
  BY <1>4 DEF FrameMoved
<1> HIDE DEF new
<1>6. IsCallFrame(new) /\ new.fi = last.fi /\ new.pc = n /\ new.meet = <<>>
  BY <1>5 DEF IsCallFrame
<1>7. DOMAIN gs = 1..l /\ gs[l] = new /\ \A k \in 1..l : k # l => gs[k] = fs[k]
  BY <1>1
<1>8. \A k \in 1..l : IsCallFrame(fs[k])
  BY DEF CallFrames
<1> HIDE DEF gs, l
<1>9. ASSUME NEW k \in 1..l
      PROVE  /\ IsCallFrame(gs[k]) /\ gs[k].fi = fs[k].fi
             /\ gs[k].pc = IF k = l THEN n ELSE fs[k].pc
             /\ gs[k].meet = IF k = l THEN <<>> ELSE fs[k].meet
  <2>1. CASE k = l
    BY <1>6, <1>7, <2>1 DEF last
  <2>2. CASE k # l
    BY <1>7, <1>8, <2>2
  <2> QED
    BY <2>1, <2>2
<1>10. OnlyLast(fs, gs, n)
  BY <1>7, <1>9 DEF OnlyLast, CallFrames, l
<1> QED
  BY <1>10 DEF gs, new, last, l

\* what the machine is in the next state
NextIs(st, m) == stack' = st /\ regs' = m.regs /\ glob' = m.glob /\ garr' = m.garr

\* What going on does.
LEMMA GoOnIs ==
    ASSUME NEW fs, NEW n, NEW m, CallFrames(fs), GoOn(fs, n, m)
    PROVE  NextIs(MovedOn(fs, n, m), m)
<1> DEFINE last == fs[Len(fs)]
           gs == [fs EXCEPT ![Len(fs)] = [last EXCEPT !.pc = n, !.meet = <<>>]]
<1>1. OnlyLast(fs, gs, n)
  BY LastMoved
<1>2. stack' = Settled(gs, m) /\ regs' = m.regs /\ glob' = m.glob /\ garr' = m.garr
  BY DEF GoOn, Settle, Settled
<1> HIDE DEF gs
<1> QED
  BY <1>1, <1>2, OnlyLastMoves DEF NextIs

\* the program runs, in the state and in the next
GoingNow  == Going(prog, destroyed, callersave, stack, regs, glob, garr)
GoingNext == Going(prog', destroyed', callersave', stack', regs', glob', garr')

\* what was compiled stays as it is
SameProgram == prog' = prog /\ destroyed' = destroyed /\ callersave' = callersave

\* The calls in progress have frames.
LEMMA GoingFrames ==
    ASSUME NEW pr, NEW ds, NEW cs, NEW st, NEW rg, NEW gl, NEW ga,
           Going(pr, ds, cs, st, rg, gl, ga)
    PROVE  CallFrames(st) /\ IsList(st) /\ Len(st) > 0
<1>1. IsList(st) /\ Len(st) > 0 /\ \A k \in 1..Len(st) : FrameOf(pr, cs, st[k])
  BY DEF Going, StackOK
<1>2. ASSUME NEW k \in 1..Len(st) PROVE IsCallFrame(st[k])
  <2> DEFINE fr == st[k]
  <2>1. FrameOf(pr, cs, fr)
    BY <1>1
  <2> HIDE DEF fr
  <2>2. IsCallFrame(fr)
    BY <2>1 DEF FrameOf, IsCallFrame
  <2> QED
    BY <2>2 DEF fr
<1> QED
  BY <1>1, <1>2 DEF CallFrames

\* the last of the calls fs of the source
LastIs(pr, st, rg, fs) ==
    /\ fs[Len(fs)] = [fi |-> fs[Len(fs)].fi, pc |-> fs[Len(fs)].pc,
                      env |-> fs[Len(fs)].env, arr |-> fs[Len(fs)].arr]
    /\ pr[fs[Len(fs)].fi] = TopF(pr, st)
    /\ fs[Len(fs)].env = TopEnv(pr, st, rg)

\* The last call of the source is in the function and line that the machine runs.
LEMMA LastSeen ==
    ASSUME NEW pr, NEW st, NEW rg, NEW m, CallFrames(st)
    PROVE  LastIs(pr, st, rg, WithArrays(pr, st, rg, m))
<1> DEFINE l == Len(st)
           fs == WithArrays(pr, st, rg, m)
           env == AllAsSource(pr, st, rg)[l].env
           w == ArrayNow(pr, st, m, l)
<1>1. l \in Nat /\ l \in 1..l
  BY ListIs DEF CallFrames
<1>2. SeenAt(pr, st, rg, m, l) /\ fs = [k \in 1..l |-> fs[k]]
  BY <1>1, WithArraysIs
<1>3. fs[l] = [fi |-> st[l].fi, pc |-> st[l].pc, env |-> env, arr |-> w]
  BY <1>2 DEF SeenAt
<1>4. TopF(pr, st) = pr[st[l].fi] /\ TopEnv(pr, st, rg) = env
  BY DEF TopF, TopEnv
<1> HIDE DEF env, w, fs, l
<1>5. Len(fs) = l
  BY <1>1, <1>2, FunctionList
<1>6. /\ fs[l].fi = st[l].fi /\ fs[l].pc = st[l].pc /\ fs[l].env = env /\ fs[l].arr = w
  BY <1>3
<1> QED
  BY <1>3, <1>4, <1>5, <1>6 DEF LastIs, fs

\* A step of the machine is one of the source.
LEMMA Lands ==
    ASSUME NEW n, NEW m, NEW x, NEW v,
           GoingNow, SameProgram, GoOn(stack, n, m),
           StepOK(prog, destroyed, callersave, stack, regs, glob, n, m, x, v)
    PROVE  /\ GoingNext
           /\ Meaning!Continue(WithArrays(prog, stack, regs, m), n, x, v)
           /\ garr' = m.garr
<1> DEFINE fs == WithArrays(prog, stack, regs, m)
           t == MovedOn(stack, n, m)
<1>1. CallFrames(stack) /\ IsList(stack) /\ Len(stack) > 0
  BY GoingFrames DEF GoingNow
<1>2. NextIs(t, m)
  BY <1>1, GoOnIs
<1>3. stack' = t /\ regs' = m.regs /\ glob' = m.glob /\ garr' = m.garr
  BY <1>2 DEF NextIs
<1>4. /\ StackOK(prog, destroyed, callersave, t)
      /\ StoreOK(m.regs, m.glob, m.garr)
      /\ Len(t) = Len(stack)
      /\ t[Len(stack)].meet = <<>>
      /\ AllAsSource(prog, t, m.regs) =
           Continued(fs, n, BoundTo(TopF(prog, stack), TopEnv(prog, stack, regs), n, x, v))
      /\ m.glob = IF x = Glob THEN v ELSE glob
  BY DEF StepOK
<1> HIDE DEF t, fs
<1>5. Going(prog, destroyed, callersave, t, m.regs, m.glob, m.garr)
  BY <1>1, <1>4 DEF Going, GoingNow
<1>6. GoingNext
  BY <1>3, <1>5 DEF GoingNext, SameProgram
<1>7. SourceFrames' = AllAsSource(prog', stack', regs')
  BY SourceIs
<1>8. LastIs(prog, stack, regs, fs)
  BY <1>1, LastSeen DEF fs
<1>9. SourceFrames' = Continued(fs, n, BoundTo(prog[fs[Len(fs)].fi], fs[Len(fs)].env, n, x, v))
  BY <1>3, <1>4, <1>7, <1>8 DEF LastIs, SameProgram
<1>10. glob' = IF x = Glob THEN v ELSE glob
  BY <1>3, <1>4
<1>11. fs[Len(fs)] = [fi |-> fs[Len(fs)].fi, pc |-> fs[Len(fs)].pc,
                      env |-> fs[Len(fs)].env, arr |-> fs[Len(fs)].arr]
  BY <1>8 DEF LastIs
<1>12. Meaning!Continue(fs, n, x, v)
  BY <1>9, <1>10, <1>11, ContinueIs
<1> QED
  BY <1>3, <1>6, <1>12 DEF fs

\* what the steps of the running program leave alone
Quiet == status = "running" /\ status' = status /\ out' = out /\ SameProgram

\* A statement that computes.
LEMMA ComputeSim ==
    ASSUME GoingNow, Quiet, Compute,
           TopStmt(prog, stack).op \in {"opbinary", "opunary", "mov", "arrayget", "param", "label"},
           TopStmt(prog, stack).op = "arrayget" =>
              SourceArg(prog, stack, regs, glob, 1) + TopStmt(prog, stack).label \in WordsOf(prog, stack)
    PROVE  GoingNext /\ Meaning!Compute
<1> DEFINE m == After(prog, stack, regs, glob, garr)
           n == TopS(stack) + 1
           x == TopStmt(prog, stack).dest
           v == SourceResult(prog, stack, regs, glob, garr)
<1>1. IsList(stack) /\ Len(stack) > 0 /\ status # "ready" /\ status' # "ready"
  BY GoingFrames DEF GoingNow, Quiet
<1>2. StepOK(prog, destroyed, callersave, stack, regs, glob, n, m, x, v)
      /\ SameArrays(prog, stack, m) /\ m.garr = garr
  BY ComputeStep DEF GoingNow
<1>3. Here = TopF(prog, stack) /\ Top.pc = TopS(stack)
  BY <1>1, SourceTop
<1>4. ExecuteAll(Machine(stack), GenStmtInst(Here, Top.pc)) = m
  <2>1. Machine(stack) = MachineOf(stack, regs, glob, garr)
    BY MachineOfState
  <2> QED
    BY <1>3, <2>1 DEF After
<1>5. GoOn(stack, Top.pc + 1, ExecuteAll(Machine(stack), GenStmtInst(Here, Top.pc)))
  BY DEF Compute
<1> HIDE DEF m, n, x, v
<1>6. GoOn(stack, n, m)
  BY <1>3, <1>4, <1>5 DEF n
<1>7. GoingNext /\ Meaning!Continue(WithArrays(prog, stack, regs, m), n, x, v) /\ garr' = m.garr
  BY <1>2, <1>6, Lands DEF Quiet
<1>8. WithArrays(prog, stack, regs, m) = SourceFrames
  BY <1>2, ArraysSame, SourceIs
<1>9. Meaning!Result = v
  BY <1>1, ResultIs DEF v
<1>10. /\ Meaning!Stmt_ = TopStmt(prog, stack)
       /\ Meaning!Top.pc = TopS(stack)
  BY <1>1, SourceTop
<1>11. Meaning!Top.pc + 1 = n /\ Meaning!Stmt_.dest = x
  BY <1>10 DEF n, x
<1>12. Meaning!Continue(SourceFrames, Meaning!Top.pc + 1, Meaning!Stmt_.dest, Meaning!Result)
  BY <1>7, <1>8, <1>9, <1>11
<1>13. SourceArray' = SourceArray
  BY <1>1, <1>2, <1>7 DEF SourceArray
<1>14. Meaning!Stmt_.op \in {"opbinary", "opunary", "mov", "arrayget", "param", "label"}
  BY <1>10
<1> HIDE DEF SourceFrames, SourceArray
<1>15. Meaning!Compute
  BY <1>12, <1>13, <1>14 DEF Meaning!Compute, Quiet, SameProgram
<1> QED
  BY <1>7, <1>15

\* The machine of a statement that is neither a jump, a call nor a return.
LEMMA ComputeGoes ==
    ASSUME GoingNow, Compute
    PROVE  GoOn(stack, TopS(stack) + 1, After(prog, stack, regs, glob, garr))
<1>1. IsList(stack) /\ Len(stack) > 0
  BY GoingFrames DEF GoingNow
<1>2. Here = TopF(prog, stack) /\ Top.pc = TopS(stack)
  BY <1>1, SourceTop
<1>3. Machine(stack) = MachineOf(stack, regs, glob, garr)
  BY MachineOfState
<1>4. ExecuteAll(Machine(stack), GenStmtInst(Here, Top.pc)) = After(prog, stack, regs, glob, garr)
  BY <1>2, <1>3 DEF After
<1>5. GoOn(stack, Top.pc + 1, ExecuteAll(Machine(stack), GenStmtInst(Here, Top.pc)))
  BY DEF Compute
<1> QED
  BY <1>2, <1>4, <1>5

\* A store into an array.
LEMMA ArraySetSim ==
    ASSUME GoingNow, Quiet, Compute,
           TopStmt(prog, stack).op = "arrayset",
           SourceArg(prog, stack, regs, glob, 1) + TopStmt(prog, stack).label \in WordsOf(prog, stack)
    PROVE  GoingNext /\ Meaning!ArraySet
<1> DEFINE m == After(prog, stack, regs, glob, garr)
           n == TopS(stack) + 1
           p == SourceArg(prog, stack, regs, glob, 1) + TopStmt(prog, stack).label
           v == SourceArg(prog, stack, regs, glob, 2)
           k == PtrArray(p)
           o == PtrOffset(p)
           fs == WithArrays(prog, stack, regs, m)
           a == AllAsSource(prog, stack, regs)
<1>1. IsList(stack) /\ Len(stack) > 0 /\ status # "ready" /\ status' # "ready"
  BY GoingFrames DEF GoingNow, Quiet
<1>2. /\ StepOK(prog, destroyed, callersave, stack, regs, glob, n, m, NoVar, 0)
      /\ k = 0 => SameArrays(prog, stack, m) /\ m.garr = [garr EXCEPT ![o] = v]
      /\ k # 0 => fs = [a EXCEPT ![k].arr[o] = v] /\ m.garr = garr
  BY ArraySetStep DEF GoingNow
<1>3. GoOn(stack, n, m)
  BY ComputeGoes
<1>4. Meaning!Value(Meaning!Stmt_.args[1]) = SourceArg(prog, stack, regs, glob, 1)
      /\ Meaning!Value(Meaning!Stmt_.args[2]) = v
  BY <1>1, ArgIs
<1>5. Meaning!Stmt_ = TopStmt(prog, stack) /\ Meaning!Top.pc = TopS(stack)
  BY <1>1, SourceTop
<1>6. Meaning!Value(Meaning!Stmt_.args[1]) + Meaning!Stmt_.label = p /\ Meaning!Top.pc + 1 = n
  BY <1>4, <1>5
<1>7. Meaning!PtrArray(p) = k /\ Meaning!PtrOffset(p) = o
  BY SameOperators
<1>8. a = SourceFrames
  BY SourceIs
<1> HIDE DEF m, n, v, k, o, a
<1>9. GoingNext /\ Meaning!Continue(fs, n, NoVar, 0) /\ garr' = m.garr
  BY <1>2, <1>3, Lands DEF Quiet
<1>10. k = 0 => fs = SourceFrames
  BY <1>2, <1>8, ArraysSame DEF a
<1> HIDE DEF fs, p
<1>11. SourceArray = garr /\ SourceArray' = garr'
  BY <1>1 DEF SourceArray
<1>12. prog' = prog /\ status' = status /\ out' = out
  BY DEF Quiet, SameProgram
<1> HIDE DEF SourceFrames, SourceArray
<1>13. CASE k = 0
  <2>1. SourceArray' = [SourceArray EXCEPT ![o] = v]
    BY <1>2, <1>9, <1>11, <1>13
  <2>2. Meaning!Continue(SourceFrames, n, NoVar, 0)
    BY <1>9, <1>10, <1>13
  <2>3. Meaning!ArraySet
    BY <1>4, <1>5, <1>6, <1>7, <1>12, <1>13, <2>1, <2>2 DEF Meaning!ArraySet
  <2> QED
    BY <1>9, <2>3
<1>14. CASE k # 0
  <2>1. SourceArray' = SourceArray
    BY <1>2, <1>9, <1>11, <1>14
  <2>2. fs = [SourceFrames EXCEPT ![k].arr[o] = v]
    BY <1>2, <1>8, <1>14
  <2>3. Meaning!Continue([SourceFrames EXCEPT ![k].arr[o] = v], n, NoVar, 0)
    BY <1>9, <2>2
  <2>4. Meaning!ArraySet
    BY <1>4, <1>5, <1>6, <1>7, <1>12, <1>14, <2>1, <2>3 DEF Meaning!ArraySet
  <2> QED
    BY <1>9, <2>4
<1> QED
  BY <1>13, <1>14

\* A local array that is filled.
LEMMA FillZeroSim ==
    ASSUME GoingNow, Quiet, Compute,
           TopStmt(prog, stack).op = "fillzero"
    PROVE  GoingNext /\ Meaning!FillZero
<1> DEFINE m == After(prog, stack, regs, glob, garr)
           n == TopS(stack) + 1
           fs == WithArrays(prog, stack, regs, m)
           a == AllAsSource(prog, stack, regs)
           l == Len(stack)
<1>1. IsList(stack) /\ Len(stack) > 0 /\ status # "ready" /\ status' # "ready"
  BY GoingFrames DEF GoingNow, Quiet
<1>2. /\ StepOK(prog, destroyed, callersave, stack, regs, glob, n, m, NoVar, 0)
      /\ fs = [a EXCEPT ![l].arr = [i \in DOMAIN a[l].arr |-> 0]]
      /\ m.garr = garr
  BY FillZeroStep DEF GoingNow
<1>3. GoOn(stack, n, m)
  BY ComputeGoes
<1>4. Meaning!Stmt_ = TopStmt(prog, stack) /\ Meaning!Top.pc = TopS(stack) /\ Len(SourceFrames) = l
  BY <1>1, SourceTop
<1>5. Meaning!Top.pc + 1 = n /\ Meaning!Stmt_.op = "fillzero"
  BY <1>4
<1>6. a = SourceFrames
  BY SourceIs
<1> HIDE DEF m, n, a, l
<1>7. GoingNext /\ Meaning!Continue(fs, n, NoVar, 0) /\ garr' = m.garr
  BY <1>2, <1>3, Lands DEF Quiet
<1> HIDE DEF fs
<1>8. SourceArray = garr /\ SourceArray' = garr'
  BY <1>1 DEF SourceArray
<1>9. prog' = prog /\ status' = status /\ out' = out
  BY DEF Quiet, SameProgram
<1> HIDE DEF SourceFrames, SourceArray
<1>10. fs = [SourceFrames EXCEPT ![Len(SourceFrames)].arr = [i \in DOMAIN SourceFrames[Len(SourceFrames)].arr |-> 0]]
  BY <1>2, <1>4, <1>6
<1>11. Meaning!Continue([SourceFrames EXCEPT ![Len(SourceFrames)].arr =
                            [i \in DOMAIN SourceFrames[Len(SourceFrames)].arr |-> 0]], n, NoVar, 0)
  BY <1>7, <1>10
<1>12. Meaning!FillZero
  BY <1>2, <1>5, <1>7, <1>8, <1>9, <1>11 DEF Meaning!FillZero
<1> QED
  BY <1>7, <1>12

\* A jump goes to its label, or falls through.
LEMMA JumpTargets ==
    ASSUME NEW func, NEW s, NEW n,
           func.stmts[s].op \in {"goto", "condgoto"},
           n \in LabelLines(func, func.stmts[s].label)
              \/ (func.stmts[s].op # "goto" /\ n = s + 1)
    PROVE  n \in CfgNext(func, s)
BY DEF CfgNext

\* A jump to n with the machine m, the source seeing what it saw.
LEMMA JumpLands ==
    ASSUME NEW n, NEW m,
           GoingNow, Quiet, GoOn(stack, n, m),
           StepOK(prog, destroyed, callersave, stack, regs, glob, n, m, NoVar, 0),
           SameArrays(prog, stack, m), m.garr = garr
    PROVE  GoingNext /\ Meaning!Continue(SourceFrames, n, NoVar, 0) /\ SourceArray' = SourceArray
<1>1. GoingNext /\ Meaning!Continue(WithArrays(prog, stack, regs, m), n, NoVar, 0) /\ garr' = m.garr
  BY Lands DEF Quiet
<1>2. WithArrays(prog, stack, regs, m) = SourceFrames
  BY ArraysSame, SourceIs
<1>3. SourceArray' = SourceArray
  BY <1>1 DEF SourceArray, Quiet
<1> QED
  BY <1>1, <1>2, <1>3

\* A jump.
LEMMA JumpSim ==
    ASSUME GoingNow, Quiet, Jump
    PROVE  GoingNext /\ Meaning!Jump
<1> DEFINE f == TopF(prog, stack)
           s == TopS(stack)
           stmt == TopStmt(prog, stack)
           m0 == MachineOf(stack, regs, glob, garr)
           c == GenCondGoto(f, stmt)
           m1 == ExecuteAll(m0, c.insts)
           a1 == SourceArg(prog, stack, regs, glob, 1)
           a2 == SourceArg(prog, stack, regs, glob, 2)
<1>1. IsList(stack) /\ Len(stack) > 0
  BY GoingFrames DEF GoingNow
<1>2. /\ Here = f /\ Top.pc = s /\ Stmt_ = stmt
      /\ Meaning!Here = f /\ Meaning!Top.pc = s /\ Meaning!Stmt_ = stmt
  BY <1>1, SourceTop
<1>3. Machine(stack) = m0
  BY MachineOfState
<1>4. stmt = f.func.stmts[s]
  BY DEF TopStmt
<1>5. /\ Meaning!Value(stmt.args[1]) = a1 /\ Meaning!Value(stmt.args[2]) = a2
  BY <1>1, <1>2, ArgIs
<1> HIDE DEF f, s, m0, c, a1, a2, stmt
<1>6. /\ stmt.op \in {"goto", "condgoto"}
      /\ LET m     == IF stmt.op = "goto" THEN m0 ELSE m1
             jumps == stmt.op = "goto" \/ m.regs[c.regs[1]] = m.regs[c.regs[2]]
         IN  \E n \in Lines(f.func) :
               /\ IF jumps THEN n \in LabelLines(f.func, stmt.label) ELSE n = s + 1
               /\ GoOn(stack, n, m)
  BY <1>2, <1>3 DEF Jump, c
<1>7. \A func : Meaning!Lines(func) = Lines(func)
  BY SameStatements
<1>8. \A func, l : Meaning!LabelLines(func, l) = LabelLines(func, l)
  BY SameStatements
<1>9. prog' = prog /\ status' = status /\ out' = out
  BY DEF Quiet, SameProgram
<1>10. ASSUME NEW n \in Lines(f.func),
              n \in LabelLines(f.func, stmt.label) \/ (stmt.op # "goto" /\ n = s + 1)
       PROVE  /\ stmt.op = "condgoto" =>
                   /\ StepOK(prog, destroyed, callersave, stack, regs, glob, n, m1, NoVar, 0)
                   /\ SameArrays(prog, stack, m1) /\ m1.garr = garr
                   /\ m1.regs[c.regs[1]] = a1 /\ m1.regs[c.regs[2]] = a2
              /\ StepOK(prog, destroyed, callersave, stack, regs, glob, n, m0, NoVar, 0)
              /\ SameArrays(prog, stack, m0) /\ m0.garr = garr
  <2>1. n \in CfgNext(f.func, s)
    BY <1>4, <1>6, <1>10, JumpTargets
  <2>2. n \in CfgNext(TopF(prog, stack).func, TopS(stack)) /\ TopStmt(prog, stack).op \in {"goto", "condgoto"}
    BY <1>6, <2>1 DEF f, s, stmt
  <2> QED
    BY <2>2, JumpStep DEF GoingNow, f, s, m0, c, a1, a2, stmt
<1>11. CASE stmt.op = "goto"
  <2>1. PICK n \in Lines(f.func) : n \in LabelLines(f.func, stmt.label) /\ GoOn(stack, n, m0)
    BY <1>6, <1>11
  <2>2. /\ StepOK(prog, destroyed, callersave, stack, regs, glob, n, m0, NoVar, 0)
        /\ SameArrays(prog, stack, m0) /\ m0.garr = garr
    BY <1>10, <2>1
  <2>3. GoingNext /\ Meaning!Continue(SourceFrames, n, NoVar, 0) /\ SourceArray' = SourceArray
    BY <2>1, <2>2, JumpLands
  <2> HIDE DEF SourceFrames, SourceArray
  <2>4. Meaning!Jump
    BY <1>2, <1>6, <1>7, <1>8, <1>9, <1>11, <2>1, <2>3 DEF Meaning!Jump
  <2> QED
    BY <2>3, <2>4
<1>12. CASE stmt.op = "condgoto"
  <2> DEFINE jumps == m1.regs[c.regs[1]] = m1.regs[c.regs[2]]
             go(n) == IF jumps THEN n \in LabelLines(f.func, stmt.label) ELSE n = s + 1
  <2>1. PICK n \in Lines(f.func) : go(n) /\ GoOn(stack, n, m1)
    BY <1>6, <1>12
  <2>2. /\ StepOK(prog, destroyed, callersave, stack, regs, glob, n, m1, NoVar, 0)
        /\ SameArrays(prog, stack, m1) /\ m1.garr = garr
        /\ m1.regs[c.regs[1]] = a1 /\ m1.regs[c.regs[2]] = a2
    BY <1>10, <1>12, <2>1
  <2>3. GoingNext /\ Meaning!Continue(SourceFrames, n, NoVar, 0) /\ SourceArray' = SourceArray
    BY <2>1, <2>2, JumpLands
  <2>4. IF a1 = a2 THEN n \in LabelLines(f.func, stmt.label) ELSE n = s + 1
    BY <2>1, <2>2
  <2> HIDE DEF SourceFrames, SourceArray
  <2>5. Meaning!Jump
    BY <1>2, <1>5, <1>6, <1>7, <1>8, <1>9, <1>12, <2>1, <2>3, <2>4 DEF Meaning!Jump
  <2> QED
    BY <2>3, <2>5
<1> QED
  BY <1>6, <1>11, <1>12

\* the calls st, the last saving the registers meet, and the frame fr on top
Pushed(st, meet, fr) == Append([st EXCEPT ![Len(st)].meet = meet], fr)

\* the machine m with the words ws on top
MachinePushed(m, ws) == [m EXCEPT !.frames = Append(@, ws)]

\* the frame fr saving meet
Saving(fr, meet) ==
    [fr EXCEPT !.meet = meet] = [fi |-> fr.fi, pc |-> fr.pc, meet |-> meet, words |-> fr.words]

\* Only the registers saved are replaced, the rest of the frame stays.
LEMMA SavingIs ==
    ASSUME NEW fr, NEW meet, IsCallFrame(fr)
    PROVE  Saving(fr, meet)
<1> DEFINE a == fr.fi
           q == fr.pc
           e == fr.meet
           w == fr.words
<1>1. fr = [fi |-> a, pc |-> q, meet |-> e, words |-> w]
  BY DEF IsCallFrame
<1> HIDE DEF a, q, e, w
<1>2. [fr EXCEPT !.meet = meet] = [fi |-> a, pc |-> q, meet |-> meet, words |-> w]
  BY <1>1
<1> QED
  BY <1>2 DEF a, q, e, w, Saving

\* the machine m2 is m with the words ws on top
WordsOnTop(m, ws, m2) ==
    /\ m2.regs = m.regs /\ m2.glob = m.glob /\ m2.garr = m.garr
    /\ m2.frames[Len(m.frames) + 1] = ws
    /\ \A k \in 1..Len(m.frames) : m2.frames[k] = m.frames[k]

\* MachinePushed adds the words ws on top of the machine, and nothing else.
LEMMA MachinePushedIs ==
    ASSUME NEW m, NEW ws, IsMachine(m)
    PROVE  WordsOnTop(m, ws, MachinePushed(m, ws))
<1> DEFINE a == m.regs
           b == m.frames
           c == m.glob
           d == m.garr
           t == Append(b, ws)
           l == Len(b)
           m2 == MachinePushed(m, ws)
<1>1. m = [regs |-> a, frames |-> b, glob |-> c, garr |-> d] /\ IsList(b)
  BY DEF IsMachine
<1>2. l \in Nat /\ t[l + 1] = ws /\ \A k \in 1..l : t[k] = b[k]
  BY <1>1, ListIs, ListAppend
<1>3. m2 = [m EXCEPT !.frames = Append(@, ws)]
  BY DEF MachinePushed
<1> HIDE DEF a, b, c, d, l, m2
<1>4. m2 = [regs |-> a, frames |-> t, glob |-> c, garr |-> d]
  BY <1>1, <1>3
<1> HIDE DEF t
<1>5. m2.regs = a /\ m2.frames = t /\ m2.glob = c /\ m2.garr = d
  BY <1>4
<1> QED
  BY <1>2, <1>5 DEF a, b, c, d, l, m2, WordsOnTop

\* the calls in progress after a call
PushedOn(pr, cs, st, j, meet, m) ==
    Settled(Pushed(st, meet, Entered(pr, cs, j)), MachinePushed(m, Entered(pr, cs, j).words))
        = CalledOn(pr, cs, st, j, meet, m)

\* One is added.
LEMMA PushedIs ==
    ASSUME NEW pr, NEW cs, NEW st, NEW j, NEW meet, NEW m,
           CallFrames(st), Carries(m, st)
    PROVE  PushedOn(pr, cs, st, j, meet, m)
<1> DEFINE l == Len(st)
           fr == Entered(pr, cs, j)
           st2 == [st EXCEPT ![l].meet = meet]
           gs == Pushed(st, meet, fr)
           m2 == MachinePushed(m, fr.words)
           a == Settled(gs, m2)
           b == CalledOn(pr, cs, st, j, meet, m)
<1>1. l \in Nat /\ l \in 1..l /\ DOMAIN st = 1..l /\ IsList(st) /\ Len(m.frames) = l
      /\ \A k \in 1..l : IsCallFrame(st[k])
  BY ListIs DEF CallFrames, Carries, TopOf
<1>2. IsMachine(m) /\ WordsOnTop(m, fr.words, m2)
  BY MachinePushedIs DEF Carries
<1>3. st2 = [k \in 1..l |-> st2[k]] /\ st2[l] = [st[l] EXCEPT !.meet = meet]
      /\ \A k \in 1..l : k # l => st2[k] = st[k]
  BY <1>1
<1>4. /\ fr.words = fr.words /\ IsCallFrame(fr)
  BY FrameParts DEF IsCallFrame
<1> HIDE DEF fr
<1>5. Reworded(fr, fr.words)
  BY <1>4, RewordedIs
<1>6. [fr EXCEPT !.words = fr.words] = fr
  BY <1>4, <1>5 DEF Reworded, IsCallFrame
<1>7. /\ IsList(b) /\ Len(b) = l + 1 /\ b[l + 1] = fr
      /\ \A k \in 1..l : b[k] = FrameWith(st[k], MeetAt(st, k, meet), m.frames[k])
  BY <1>1, CalledOnIs DEF IsCalledOn, fr
<1> HIDE DEF b
<1>8. gs = Append(st2, fr)
  BY DEF Pushed
<1> HIDE DEF st2, m2
<1>9. IsList(st2) /\ Len(st2) = l
  BY <1>1, <1>3, FunctionList
<1> HIDE DEF gs
<1>10. DOMAIN gs = 1..(l + 1) /\ gs[l + 1] = fr /\ \A k \in 1..l : gs[k] = st2[k]
  BY <1>8, <1>9, ListAppend
<1>11. a = [k \in 1..(l + 1) |-> [gs[k] EXCEPT !.words = m2.frames[k]]]
  BY <1>10 DEF Settled
<1> HIDE DEF a, l
<1>12. a[l + 1] = b[l + 1]
  <2>1. l + 1 \in 1..(l + 1)
    BY <1>1
  <2>2. m2.frames[l + 1] = fr.words
    BY <1>1, <1>2 DEF WordsOnTop
  <2>3. a[l + 1] = [gs[l + 1] EXCEPT !.words = m2.frames[l + 1]]
    BY <1>11, <2>1
  <2> QED
    BY <1>6, <1>7, <1>10, <2>2, <2>3
<1>13. ASSUME NEW k \in 1..l PROVE a[k] = b[k]
  <2> DEFINE ws == m2.frames[k]
             fk == st2[k]
             e == MeetAt(st, k, meet)
             g == st[k]
  <2>0. k \in 1..(l + 1) /\ IsCallFrame(g)
    BY <1>1
  <2>1. ws = m.frames[k]
    BY <1>1, <1>2 DEF WordsOnTop
  <2>2. a[k] = [fk EXCEPT !.words = ws]
    BY <1>10, <1>11, <2>0
  <2>3. b[k] = FrameWith(g, e, ws)
    BY <1>7, <2>1
  <2>4. FrameWith(g, e, ws) = [fi |-> g.fi, pc |-> g.pc, meet |-> e, words |-> ws]
    BY DEF FrameWith
  <2>5. IsCallFrame(fk) /\ fk.fi = g.fi /\ fk.pc = g.pc /\ fk.meet = e
    <3>1. CASE k = l
      <4>1. fk = [g EXCEPT !.meet = meet] /\ e = meet
        BY <1>3, <3>1 DEF MeetAt, l
      <4>2. Saving(g, meet)
        BY <2>0, SavingIs
      <4> HIDE DEF fk, g, e
      <4>3. fk = [fi |-> g.fi, pc |-> g.pc, meet |-> e, words |-> g.words]
        BY <4>1, <4>2 DEF Saving
      <4>4. IsCallFrame(fk) /\ fk.fi = g.fi /\ fk.pc = g.pc /\ fk.meet = e
        BY <4>3 DEF IsCallFrame
      <4> QED
        BY <4>4 DEF fk, g, e
    <3>2. CASE k # l
      <4>1. fk = g /\ e = g.meet
        BY <1>3, <3>2 DEF MeetAt, l
      <4> HIDE DEF fk, g, e
      <4>2. IsCallFrame(fk) /\ fk.fi = g.fi /\ fk.pc = g.pc /\ fk.meet = e
        BY <2>0, <4>1
      <4> QED
        BY <4>2 DEF fk, g, e
    <3> QED
      BY <3>1, <3>2
  <2> HIDE DEF fk, g, e, ws
  <2>6. Reworded(fk, ws)
    BY <2>5, RewordedIs
  <2>7. [fk EXCEPT !.words = ws] = [fi |-> fk.fi, pc |-> fk.pc, meet |-> fk.meet, words |-> ws]
    BY <2>6 DEF Reworded
  <2> QED
    BY <2>2, <2>3, <2>4, <2>5, <2>7
<1>14. a = b
  <2> DEFINE n == l + 1
  <2>1. n \in Nat /\ \A k \in 1..n : k = n \/ k \in 1..l
    BY <1>1
  <2>2. \A k \in 1..n : a[k] = b[k]
    BY <1>12, <1>13, <2>1
  <2>3. a = [k \in 1..n |-> a[k]] /\ Len(b) = n
    BY <1>7, <1>11
  <2> HIDE DEF n
  <2>4. IsList(a) /\ Len(a) = n
    BY <2>1, <2>3, FunctionList
  <2>5. SameList(a, b)
    BY <1>7, <2>2, <2>3, <2>4 DEF SameList
  <2> QED
    BY <2>5, SameListEqual
<1> QED
  BY <1>14 DEF a, b, gs, m2, fr, PushedOn

\* A call of the running function is one, its registers being saved in some order.
LEMMA CallingIs ==
    ASSUME NEW pr, NEW ds, NEW cs, NEW st, NEW rg, NEW gl, NEW ga, NEW meet,
           Going(pr, ds, cs, st, rg, gl, ga),
           IsCall(TopStmt(pr, st)),
           meet \in SetToSeqs(MeetRegs(TopF(pr, st), TopS(st), ds[TopStmt(pr, st).fn]))
    PROVE  Calling(pr, ds, st, meet)
<1> DEFINE fr == st[Len(st)]
           f == pr[fr.fi]
<1>1. pr \in Programs
  BY DEF Going, Reported
<1>2. FrameOf(pr, cs, fr)
  <2>1. IsList(st) /\ Len(st) > 0 /\ \A k \in 1..Len(st) : FrameOf(pr, cs, st[k])
    BY DEF Going, StackOK
  <2>2. Len(st) \in 1..Len(st)
    BY <2>1, ListIs
  <2> QED
    BY <2>1, <2>2
<1> HIDE DEF fr
<1>3. fr.fi \in DOMAIN pr /\ fr.pc \in Reached(f.func)
  BY <1>2 DEF FrameOf
<1>4. FunctionOK(f)
  BY <1>1, <1>3, FunctionIs
<1>5. TopF(pr, st) = f /\ TopS(st) = fr.pc /\ TopStmt(pr, st) = f.func.stmts[fr.pc]
  BY DEF TopF, TopS, TopStmt, fr
<1> HIDE DEF f
<1>6. Calls(f) = {s \in Reached(f.func) : IsCall(f.func.stmts[s])}
  BY <1>4 DEF FunctionOK
<1>7. TopS(st) \in Calls(TopF(pr, st))
  BY <1>3, <1>5, <1>6
<1> QED
  BY <1>7 DEF Calling

\* what a call of the source does
Suspending(fs, caller, callee) == SourceFrames' = Front(fs) \o <<caller, callee>>

\* The caller of a call of the source is the one the machine suspends.
LEMMA SuspendedIs ==
    ASSUME IsList(stack), Len(stack) > 0
    PROVE  Meaning!Suspended = SourceCaller(prog, stack, regs)
<1> DEFINE f == TopF(prog, stack)
           s == TopS(stack)
           stmt == TopStmt(prog, stack)
           need == MeetOf(f.func, f.alive, s) \ Defs(stmt)
           top == AllAsSource(prog, stack, regs)[Len(stack)]
           e1 == [y \in need |-> top.env[y]]
<1>1. Meaning!Here = f /\ Meaning!Stmt_ = stmt /\ Meaning!Top.pc = s
  BY SourceTop
<1>2. Meaning!Top = top
  <2>1. SourceFrames = AllAsSource(prog, stack, regs) /\ Len(SourceFrames) = Len(stack)
    BY SourceIs, SourceTop
  <2> QED
    BY <2>1 DEF Meaning!Top
<1>3. /\ Meaning!MeetOf(f.func, f.alive, s) = MeetOf(f.func, f.alive, s)
      /\ Meaning!Defs(stmt) = Defs(stmt)
  BY SameStatements
<1>4. SourceCaller(prog, stack, regs) = [top EXCEPT !.env = [y \in need |-> @[y]]]
  BY DEF SourceCaller
<1>5. \E a, q, e, w : top = [fi |-> a, pc |-> q, env |-> e, arr |-> w]
  <2>1. Len(stack) \in 1..Len(stack)
    BY ListIs
  <2>2. top = AsSource(prog[stack[Len(stack)].fi], stack[Len(stack)], regs, Len(stack) = Len(stack))
    BY <2>1, SourceLength
  <2> QED
    BY <2>2 DEF AsSource
<1> HIDE DEF top, f, s, stmt
<1>6. Meaning!Suspended = [top EXCEPT !.env = e1]
  BY <1>1, <1>2, <1>3 DEF Meaning!Suspended
<1>7. [top EXCEPT !.env = [y \in need |-> @[y]]] = [top EXCEPT !.env = e1]
  BY <1>5
<1> QED
  BY <1>4, <1>6, <1>7

\* The parameters are the source's.
LEMMA ParamsAre ==
    ASSUME IsList(stack), Len(stack) > 0
    PROVE  Meaning!Params = SourceParams(prog, stack, regs, glob)
<1> DEFINE stmt == TopStmt(prog, stack)
<1>1. Meaning!Stmt_ = stmt
  BY SourceTop
<1>2. \A i : Meaning!Value(Meaning!Stmt_.args[i]) = SourceArg(prog, stack, regs, glob, i)
  BY ArgIs
<1> HIDE DEF stmt
<1>3. Meaning!Params = [i \in DOMAIN stmt.args |-> Meaning!Value(Meaning!Stmt_.args[i])]
  BY <1>1 DEF Meaning!Params
<1>4. Meaning!Params = [i \in DOMAIN stmt.args |-> SourceArg(prog, stack, regs, glob, i)]
  BY <1>2, <1>3
<1> QED
  BY <1>4 DEF SourceParams, stmt

\* A function starts with its parameters, and an array without values.
CalleeOf(j) ==
    [fi |-> j, pc |-> 1,
     env |-> [y \in prog[j].alive[1] |-> Meaning!Params[y - Meaning!REGUID_ARG_OFFSET + 1]],
     arr |-> Meaning!NoValues(prog[j])]

\* The function called starts as the machine enters it.
LEMMA CalleeIs ==
    ASSUME NEW j, IsList(stack), Len(stack) > 0
    PROVE  CalleeOf(j) = SourceCallee(prog, stack, regs, glob, j)
<1>1. Meaning!Params = SourceParams(prog, stack, regs, glob)
  BY ParamsAre
<1>2. Meaning!REGUID_ARG_OFFSET = REGUID_ARG_OFFSET /\ Meaning!Junk = Junk
  BY SameOperators
<1>3. Meaning!NoValues(prog[j]) = [i \in 0..(prog[j].arraysize - 1) |-> Junk]
  BY <1>2 DEF Meaning!NoValues
<1> QED
  BY <1>1, <1>2, <1>3 DEF CalleeOf, SourceCallee

\* The machine of a call.
LEMMA CallGoes ==
    ASSUME NEW j, NEW meet, GoingNow,
           Settle(Append([stack EXCEPT ![Len(stack)].meet = meet], Frame(j)),
                  [ExecuteAll(Machine(stack), GenBeforeCall(Here, Top.pc, meet))
                      EXCEPT !.frames = Append(@, Frame(j).words)]),
           Carries(Before(prog, stack, regs, glob, garr, meet), stack)
    PROVE  NextIs(CalledOn(prog, callersave, stack, j, meet, Before(prog, stack, regs, glob, garr, meet)),
                  Before(prog, stack, regs, glob, garr, meet))
<1> DEFINE m == Before(prog, stack, regs, glob, garr, meet)
           fr == Entered(prog, callersave, j)
           gs == Pushed(stack, meet, fr)
           m2 == MachinePushed(m, fr.words)
<1>1. CallFrames(stack) /\ IsList(stack) /\ Len(stack) > 0
  BY GoingFrames DEF GoingNow
<1>2. Here = TopF(prog, stack) /\ Top.pc = TopS(stack)
  BY <1>1, SourceTop
<1>3. Machine(stack) = MachineOf(stack, regs, glob, garr)
  BY MachineOfState
<1>4. ExecuteAll(Machine(stack), GenBeforeCall(Here, Top.pc, meet)) = m
  BY <1>2, <1>3 DEF Before
<1>5. Frame(j) = fr
  BY DEF Frame, Entered
<1> HIDE DEF m, fr
<1>6. Settle(gs, m2)
  BY <1>4, <1>5 DEF Pushed, MachinePushed
<1>7. Settled(gs, m2) = CalledOn(prog, callersave, stack, j, meet, m)
  BY <1>1, PushedIs DEF PushedOn, m, fr
<1>8. WordsOnTop(m, fr.words, m2)
  BY MachinePushedIs DEF Carries, m
<1> HIDE DEF gs, m2
<1>9. stack' = Settled(gs, m2) /\ regs' = m2.regs /\ glob' = m2.glob /\ garr' = m2.garr
  BY <1>6 DEF Settle, Settled
<1> QED
  BY <1>7, <1>8, <1>9 DEF NextIs, WordsOnTop, m

\* A call of a function of the program.
LEMMA CallSim ==
    ASSUME GoingNow, Quiet, Call
    PROVE  GoingNext /\ Meaning!Call
<1>1. IsList(stack) /\ Len(stack) > 0 /\ status # "ready" /\ status' # "ready"
  BY GoingFrames DEF GoingNow, Quiet
<1>2. /\ Here = TopF(prog, stack) /\ Top.pc = TopS(stack) /\ Stmt_ = TopStmt(prog, stack)
      /\ Meaning!Stmt_ = TopStmt(prog, stack)
  BY <1>1, SourceTop
<1>3. IsCall(TopStmt(prog, stack))
  BY <1>2 DEF Call
<1>4. PICK j \in DOMAIN prog : \E meet \in MeetOrders :
         /\ prog[j].name = Stmt_.fn
         /\ Settle(Append([stack EXCEPT ![Len(stack)].meet = meet], Frame(j)),
                   [ExecuteAll(Machine(stack), GenBeforeCall(Here, Top.pc, meet))
                       EXCEPT !.frames = Append(@, Frame(j).words)])
  BY DEF Call
<1>5. PICK meet \in MeetOrders :
         /\ prog[j].name = Stmt_.fn
         /\ Settle(Append([stack EXCEPT ![Len(stack)].meet = meet], Frame(j)),
                   [ExecuteAll(Machine(stack), GenBeforeCall(Here, Top.pc, meet))
                       EXCEPT !.frames = Append(@, Frame(j).words)])
  BY <1>4
<1> DEFINE m == Before(prog, stack, regs, glob, garr, meet)
           t == CalledOn(prog, callersave, stack, j, meet, m)
           caller == SourceCaller(prog, stack, regs)
           callee == SourceCallee(prog, stack, regs, glob, j)
<1>6. meet \in SetToSeqs(MeetRegs(TopF(prog, stack), TopS(stack), destroyed[TopStmt(prog, stack).fn]))
  BY <1>2, <1>5 DEF MeetOrders
<1>7. Calling(prog, destroyed, stack, meet)
  BY <1>3, <1>6, CallingIs DEF GoingNow
<1>8. Handed(prog, destroyed, stack, regs, glob, garr, m, meet)
  BY <1>7, BeforeIs DEF GoingNow
<1>9. NextIs(t, m)
  BY <1>5, <1>8, CallGoes DEF Handed
<1>10. prog[j].name = TopStmt(prog, stack).fn
  BY <1>2, <1>5
<1> HIDE DEF m
<1>11. Going(prog, destroyed, callersave, t, m.regs, m.glob, m.garr)
  BY <1>7, <1>8, <1>10, CalledOK DEF GoingNow
<1>12. AllAsSource(prog, t, m.regs) = Front(AllAsSource(prog, stack, regs)) \o <<caller, callee>>
  BY <1>7, <1>8, <1>10, CallSource DEF GoingNow
<1> HIDE DEF t, caller, callee
<1>13. stack' = t /\ regs' = m.regs /\ glob' = m.glob /\ garr' = m.garr
  BY <1>9 DEF NextIs
<1>14. m.glob = glob /\ m.garr = garr
  BY <1>8 DEF Handed
<1>15. GoingNext
  BY <1>11, <1>13 DEF GoingNext, Quiet, SameProgram
<1>16. SourceFrames' = Front(SourceFrames) \o <<caller, callee>>
  <2>1. SourceFrames' = AllAsSource(prog, t, m.regs)
    BY <1>13, SourceIs DEF Quiet, SameProgram
  <2>2. SourceFrames = AllAsSource(prog, stack, regs)
    BY SourceIs
  <2> HIDE DEF SourceFrames
  <2> QED
    BY <1>12, <2>1, <2>2
<1>17. SourceArray' = SourceArray
  BY <1>1, <1>13, <1>14 DEF SourceArray
<1>18. Meaning!Suspended = caller
  BY <1>1, SuspendedIs DEF caller
<1>19. CalleeOf(j) = callee
  BY <1>1, CalleeIs DEF callee
<1>20. Meaning!Front(SourceFrames) = Front(SourceFrames)
  BY SameOperators
<1> HIDE DEF SourceFrames, SourceArray
<1>21. SourceFrames' = Meaning!Front(SourceFrames) \o
          <<Meaning!Suspended,
            [fi |-> j, pc |-> 1,
             env |-> [y \in prog[j].alive[1] |-> Meaning!Params[y - Meaning!REGUID_ARG_OFFSET + 1]],
             arr |-> Meaning!NoValues(prog[j])]>>
  BY <1>16, <1>18, <1>19, <1>20 DEF CalleeOf
<1>22. Meaning!IsCall(Meaning!Stmt_)
  BY <1>2, <1>3, SameStatements
<1>23. prog[j].name = Meaning!Stmt_.fn
  BY <1>2, <1>10
<1>24. \E i \in DOMAIN prog :
         /\ prog[i].name = Meaning!Stmt_.fn
         /\ SourceFrames' = Meaning!Front(SourceFrames) \o
              <<Meaning!Suspended,
                [fi |-> i, pc |-> 1,
                 env |-> [y \in prog[i].alive[1] |->
                             Meaning!Params[y - Meaning!REGUID_ARG_OFFSET + 1]],
                 arr |-> Meaning!NoValues(prog[i])]>>
  BY <1>21, <1>23
<1>25. prog' = prog /\ status' = status /\ out' = out /\ glob' = glob
  BY <1>13, <1>14 DEF Quiet, SameProgram
<1>26. Meaning!Call
  BY <1>17, <1>22, <1>24, <1>25 DEF Meaning!Call
<1> QED
  BY <1>15, <1>26

\* the registers that a library function leaves of rg
LibraryRegs(rg, v) ==
    [r \in Regs |-> CASE r = ArgReg[0] -> v
                      [] r \in BuiltinDestroys \ {ArgReg[0]} -> Junk
                      [] OTHER -> rg[r]]

\* A library function leaves its result, and every register that is not its to
\* overwrite.
LEMMA LibraryRegsAre ==
    ASSUME NEW rg, NEW v \in Val, rg \in [Regs -> Nat], rg[NoReg] = 0
    PROVE  LibraryLeaves(rg, LibraryRegs(rg, v), v)
<1> DEFINE a == ArgReg[0]
           rg2 == LibraryRegs(rg, v)
<1>1. a \in BuiltinDestroys /\ a \in Regs /\ NoReg \notin BuiltinDestroys /\ NoReg \in Regs
  <2>1. 0 \in DOMAIN ArgReg
    BY ProgramsAssumption, RegsAssumption
  <2> QED
    BY <2>1, ProgramsAssumption, RegistersAssumption, RegsAre
<1>2. v \in Nat /\ Junk \in Nat
  BY ValuesAssumption DEF Val, Junk
<1> HIDE DEF a
<1>3. rg2 = [r \in Regs |-> rg2[r]]
  BY DEF LibraryRegs
<1>4. ASSUME NEW r \in Regs
      PROVE  /\ r = a => rg2[r] = v
             /\ r \in BuiltinDestroys \ {a} => rg2[r] = Junk
             /\ r \notin BuiltinDestroys => rg2[r] = rg[r]
  <2>1. CASE r = a
    <3>1. rg2[r] = v
      BY <2>1 DEF LibraryRegs, a
    <3> QED
      BY <1>1, <2>1, <3>1
  <2>2. CASE r \in BuiltinDestroys \ {a}
    <3>1. rg2[r] = Junk
      BY <2>2 DEF LibraryRegs, a
    <3> QED
      BY <2>2, <3>1
  <2>3. CASE r \notin BuiltinDestroys
    <3>1. r # a
      BY <1>1, <2>3
    <3>2. rg2[r] = rg[r]
      BY <2>3, <3>1 DEF LibraryRegs, a
    <3> QED
      BY <2>3, <3>1, <3>2
  <2> QED
    BY <2>1, <2>2, <2>3
<1> HIDE DEF rg2
<1>5. \A r \in Regs : rg2[r] \in Nat
  BY <1>2, <1>4
<1>6. rg2 \in [Regs -> Nat]
  BY <1>3, <1>5
<1>7. rg2[NoReg] = 0 /\ rg2[a] = v
  BY <1>1, <1>4
<1>8. KeepsRegs(rg, rg2, BuiltinDestroys)
  BY <1>4 DEF KeepsRegs
<1> QED
  BY <1>6, <1>7, <1>8 DEF LibraryLeaves, rg2, a

\* the machine of a library function's caller, after it and before the caller goes on
LibraryMachine(m1, v) ==
    [m1 EXCEPT !.regs = [r \in Regs |-> CASE r = ArgReg[0] -> v
                                         [] r \in BuiltinDestroys \ {ArgReg[0]} -> Junk
                                         [] OTHER -> @[r]]]

\* The machine after a library function is the one before it with other registers.
LEMMA LibraryMachineIs ==
    ASSUME NEW m1, NEW v, IsMachine(m1)
    PROVE  LibraryMachine(m1, v) = [m1 EXCEPT !.regs = LibraryRegs(m1.regs, v)]
<1> DEFINE a == m1.regs
           b == m1.frames
           c == m1.glob
           d == m1.garr
<1>1. m1 = [regs |-> a, frames |-> b, glob |-> c, garr |-> d]
  BY DEF IsMachine
<1> HIDE DEF a, b, c, d
<1>2. m1.regs = a
  BY <1>1
<1>3. LibraryMachine(m1, v) =
        [m1 EXCEPT !.regs = [r \in Regs |-> CASE r = ArgReg[0] -> v
                                         [] r \in BuiltinDestroys \ {ArgReg[0]} -> Junk
                                         [] OTHER -> m1.regs[r]]]
  BY <1>1 DEF LibraryMachine
<1> QED
  BY <1>2, <1>3 DEF LibraryRegs

\* A call of the library.
LEMMA LibrarySim ==
    ASSUME GoingNow, status = "running", status' = status, SameProgram, CallLibrary
    PROVE  GoingNext /\ Meaning!CallLibrary
<1> DEFINE f == TopF(prog, stack)
           s == TopS(stack)
           stmt == TopStmt(prog, stack)
           a == AllAsSource(prog, stack, regs)
<1>1. CallFrames(stack) /\ IsList(stack) /\ Len(stack) > 0 /\ status # "ready" /\ status' # "ready"
  BY GoingFrames DEF GoingNow
<1>2. /\ Here = f /\ Top.pc = s /\ Stmt_ = stmt
      /\ Meaning!Stmt_ = stmt /\ Meaning!Top.pc = s
  BY <1>1, SourceTop
<1>3. IsCall(stmt) /\ stmt.fn \in Builtins
  BY <1>2 DEF CallLibrary
<1>4. Machine(stack) = MachineOf(stack, regs, glob, garr)
  BY MachineOfState
<1>5. PICK v \in Val : \E meet \in MeetOrders :
         LET m1 == ExecuteAll(Machine(stack), GenBeforeCall(Here, Top.pc, meet))
             m3 == ExecuteAll(LibraryMachine(m1, v), GenAfterCall(Here, Top.pc, meet))
         IN  /\ out' = <<Stmt_.fn, [p \in DOMAIN Stmt_.args |-> m1.regs[ArgReg[p - 1]]]>>
             /\ GoOn(stack, Top.pc + 1, m3)
  BY DEF CallLibrary, LibraryMachine
<1>6. PICK meet \in MeetOrders :
         LET m1 == ExecuteAll(Machine(stack), GenBeforeCall(Here, Top.pc, meet))
             m3 == ExecuteAll(LibraryMachine(m1, v), GenAfterCall(Here, Top.pc, meet))
         IN  /\ out' = <<Stmt_.fn, [p \in DOMAIN Stmt_.args |-> m1.regs[ArgReg[p - 1]]]>>
             /\ GoOn(stack, Top.pc + 1, m3)
  BY <1>5
<1> DEFINE m1 == Before(prog, stack, regs, glob, garr, meet)
           rg2 == LibraryRegs(m1.regs, v)
           m == ExecuteAll(LibraryMachine(m1, v), GenAfterCall(f, s, meet))
           n == s + 1
           x == stmt.dest
<1>7. ExecuteAll(Machine(stack), GenBeforeCall(Here, Top.pc, meet)) = m1
  BY <1>2, <1>4 DEF Before
<1>8. meet \in SetToSeqs(MeetRegs(f, s, destroyed[stmt.fn]))
  BY <1>2, <1>6 DEF MeetOrders
<1>9. Calling(prog, destroyed, stack, meet)
  BY <1>3, <1>8, CallingIs DEF GoingNow
<1>10. Handed(prog, destroyed, stack, regs, glob, garr, m1, meet)
  BY <1>9, BeforeIs DEF GoingNow
<1> HIDE DEF m1
<1>11. /\ out' = <<stmt.fn, [p \in DOMAIN stmt.args |-> m1.regs[ArgReg[p - 1]]]>>
       /\ GoOn(stack, n, m)
  BY <1>2, <1>6, <1>7
<1>12. IsMachine(m1) /\ m1.regs \in [Regs -> Nat] /\ m1.regs[NoReg] = 0
  BY <1>10 DEF Handed, Carries, IsMachine
<1>13. LibraryMachine(m1, v) = [m1 EXCEPT !.regs = rg2]
  BY <1>12, LibraryMachineIs
<1>14. LibraryLeaves(m1.regs, rg2, v)
  BY <1>12, LibraryRegsAre
<1> HIDE DEF rg2
<1>15. m = LibraryAfter(prog, stack, regs, glob, garr, meet, rg2)
  BY <1>13 DEF LibraryAfter, m1
<1>16. LibraryReturned(prog, destroyed, callersave, stack, regs, glob, garr, m, v)
  <2>1. LibraryLeaves(Before(prog, stack, regs, glob, garr, meet).regs, rg2, v)
    BY <1>14 DEF m1
  <2> HIDE DEF m
  <2> QED
    BY <1>3, <1>9, <1>15, <2>1, LibraryStep DEF GoingNow
<1>17. out' = <<Meaning!Stmt_.fn, Meaning!Params>>
  <2>1. \A p \in DOMAIN stmt.args : m1.regs[ArgReg[p - 1]] = SourceArg(prog, stack, regs, glob, p)
    BY <1>10 DEF Handed
  <2>2. Meaning!Params = SourceParams(prog, stack, regs, glob)
    BY <1>1, ParamsAre
  <2>3. SourceParams(prog, stack, regs, glob) =
          [p \in DOMAIN stmt.args |-> SourceArg(prog, stack, regs, glob, p)]
    BY DEF SourceParams
  <2> HIDE DEF stmt
  <2>4. [p \in DOMAIN stmt.args |-> m1.regs[ArgReg[p - 1]]] = Meaning!Params
    BY <2>1, <2>2, <2>3
  <2> QED
    BY <1>2, <1>11, <2>4
<1> HIDE DEF m
<1>18. NextIs(MovedOn(stack, n, m), m)
  BY <1>1, <1>11, GoOnIs
<1>19. /\ m.glob = IF x = Glob THEN v ELSE glob
       /\ m.garr = garr
       /\ Going(prog, destroyed, callersave, MovedOn(stack, n, m), m.regs, m.glob, m.garr)
       /\ AllAsSource(prog, MovedOn(stack, n, m), m.regs) =
             Continued(a, n, BoundTo(f, TopEnv(prog, stack, regs), n, x, v))
  BY <1>16 DEF LibraryReturned
<1> DEFINE t == MovedOn(stack, n, m)
<1> HIDE DEF t
<1>20. stack' = t /\ regs' = m.regs /\ glob' = m.glob /\ garr' = m.garr
  BY <1>18 DEF NextIs, t
<1>21. GoingNext
  BY <1>19, <1>20 DEF GoingNext, SameProgram, t
<1>22. SourceFrames' = AllAsSource(prog, t, m.regs)
  BY <1>20, SourceIs DEF SameProgram
<1>23. SourceFrames = a /\ LastIs(prog, stack, regs, a)
  <2>1. SourceFrames = a
    BY SourceIs
  <2> DEFINE l == Len(stack)
  <2>0. l \in 1..l
    BY <1>1, ListIs
  <2>2. a[l] = AsSource(prog[stack[l].fi], stack[l], regs, l = l) /\ Len(a) = l
    BY <1>1, <2>0, SourceLength
  <2>3. a[Len(a)].fi = stack[Len(stack)].fi
        /\ a[Len(a)] = [fi |-> a[Len(a)].fi, pc |-> a[Len(a)].pc,
                      env |-> a[Len(a)].env, arr |-> a[Len(a)].arr]
    BY <2>2 DEF AsSource
  <2>4. a[Len(a)].env = TopEnv(prog, stack, regs)
    BY <2>2 DEF TopEnv
  <2>5. prog[a[Len(a)].fi] = TopF(prog, stack)
    BY <2>3 DEF TopF
  <2> QED
    BY <2>1, <2>3, <2>4, <2>5 DEF LastIs
<1> HIDE DEF a, n, x
<1>24. SourceFrames' = Continued(a, n, BoundTo(prog[a[Len(a)].fi], a[Len(a)].env, n, x, v))
  BY <1>19, <1>22, <1>23 DEF LastIs, t
<1>25. a[Len(a)] = [fi |-> a[Len(a)].fi, pc |-> a[Len(a)].pc,
                    env |-> a[Len(a)].env, arr |-> a[Len(a)].arr]
  BY <1>23 DEF LastIs
<1>26. glob' = IF x = Glob THEN v ELSE glob
  BY <1>19, <1>20
<1>27. Meaning!Continue(a, n, x, v)
  BY <1>24, <1>25, <1>26, ContinueIs
<1>28. SourceArray' = SourceArray
  BY <1>1, <1>19, <1>20 DEF SourceArray
<1> HIDE DEF SourceFrames, SourceArray
<1>29. Meaning!Continue(SourceFrames, Meaning!Top.pc + 1, Meaning!Stmt_.dest, v)
  BY <1>2, <1>23, <1>27 DEF n, x
<1>30. v \in Meaning!Val
  BY SameOperators
<1>31. Meaning!IsCall(Meaning!Stmt_) /\ Meaning!Stmt_.fn \in Builtins
  BY <1>2, <1>3, SameStatements
<1>32. \E w \in Meaning!Val : Meaning!Continue(SourceFrames, Meaning!Top.pc + 1, Meaning!Stmt_.dest, w)
  BY <1>29, <1>30
<1>33. prog' = prog
  BY DEF SameProgram
<1>34. Meaning!CallLibrary
  BY <1>17, <1>28, <1>31, <1>32, <1>33 DEF Meaning!CallLibrary
<1> QED
  BY <1>21, <1>34

\* the step of a machine that returns, and what is left of its calls
ReturnStarts ==
    /\ Here = TopF(prog, stack) /\ Top.pc = TopS(stack) /\ Stmt_ = TopStmt(prog, stack)
    /\ ExecuteAll(Machine(stack), GenStmtInst(Here, Top.pc)) = After(prog, stack, regs, glob, garr)

\* The machine that returns is the one after the instructions of the statement.
LEMMA ReturnStartsSo ==
    ASSUME IsList(stack), Len(stack) > 0
    PROVE  ReturnStarts
<1>1. Here = TopF(prog, stack) /\ Top.pc = TopS(stack) /\ Stmt_ = TopStmt(prog, stack)
  BY SourceTop
<1>2. Machine(stack) = MachineOf(stack, regs, glob, garr)
  BY MachineOfState
<1>3. ExecuteAll(Machine(stack), GenStmtInst(Here, Top.pc)) = After(prog, stack, regs, glob, garr)
  BY <1>1, <1>2 DEF After
<1> QED
  BY <1>1, <1>3 DEF ReturnStarts

\* A function returns to its caller.
ReturnOn ==
    LET rest == Front(stack)
        last == rest[Len(rest)]
    IN  /\ TopStmt(prog, stack).op \in {"return", "returnvoid"}
        /\ rest # <<>>
        /\ GoOn(rest, last.pc + 1,
                ExecuteAll([After(prog, stack, regs, glob, garr) EXCEPT !.frames = Front(@)],
                           GenAfterCall(prog[last.fi], last.pc, last.meet)))

\* The caller goes on with the machine that was left when its callee returned.
LEMMA ReturnGoes ==
    ASSUME GoingNow, ReturnOn, Len(stack) > 1
    PROVE  GoOn(Front(stack), Front(stack)[Len(Front(stack))].pc + 1,
                ReturnMachine(prog, stack, regs, glob, garr))
<1> DEFINE rest == Front(stack)
           last == rest[Len(rest)]
           m1 == After(prog, stack, regs, glob, garr)
           left == [m1 EXCEPT !.frames = Front(@)]
<1>1. TopStmt(prog, stack).op \in {"return", "returnvoid"}
      /\ GoOn(rest, last.pc + 1, ExecuteAll(left, GenAfterCall(prog[last.fi], last.pc, last.meet)))
  BY DEF ReturnOn
<1>2. ReturnsTo(prog, destroyed, callersave, stack, regs, glob, garr,
                ReturnMachine(prog, stack, regs, glob, garr),
                SourceResult(prog, stack, regs, glob, garr))
  BY <1>1, ReturnStep DEF GoingNow
<1>3. LeavesMachine(m1, rest)
  BY <1>2 DEF ReturnsTo
<1> HIDE DEF m1
<1>4. left = MachineOf(rest, m1.regs, m1.glob, m1.garr)
  BY <1>3 DEF LeavesMachine
<1> HIDE DEF rest, left
<1>5. ExecuteAll(left, GenAfterCall(prog[last.fi], last.pc, last.meet))
        = Back(prog, rest, m1.regs, m1.glob, m1.garr)
  BY <1>4 DEF Back, TopF, TopS
<1>6. Back(prog, rest, m1.regs, m1.glob, m1.garr) = ReturnMachine(prog, stack, regs, glob, garr)
  BY DEF ReturnMachine, rest, m1
<1> QED
  BY <1>1, <1>5, <1>6 DEF rest

\* The calls of the source that wait when the last of them returns.
WaitingCalls(fs, last) ==
    /\ fs[Len(fs)].fi = last.fi
    /\ fs[Len(fs)].pc = last.pc
    /\ fs[Len(fs)] = [fi |-> fs[Len(fs)].fi, pc |-> fs[Len(fs)].pc,
                      env |-> fs[Len(fs)].env, arr |-> fs[Len(fs)].arr]
    /\ Len(fs) > 0

\* The calls of the source that wait are those of the machine without its last.
LEMMA WaitingCallsAre ==
    ASSUME NEW pr, NEW st, NEW rg, IsList(st), Len(st) > 1
    PROVE  WaitingCalls(Front(AllAsSource(pr, st, rg)), Front(st)[Len(Front(st))])
<1> DEFINE a == AllAsSource(pr, st, rg)
           W == Front(a)
           l == Len(st) - 1
           last == st[l]
<1>1. Len(st) \in Nat /\ l \in Nat /\ l > 0 /\ l \in 1..(Len(st) - 1) /\ l \in 1..Len(st)
  BY ListIs
<1>2. IsList(a) /\ Len(a) = Len(st) /\ a[l] = AsSource(pr[st[l].fi], st[l], rg, l = Len(st))
  BY <1>1, SourceLength
<1>3. Len(Front(st)) = l /\ Front(st)[l] = last
  <2>1. Len(st) > 0
    BY <1>1
  <2> QED
    BY <1>1, <2>1, ListFront
<1> HIDE DEF a
<1>4. Len(W) = l /\ W[l] = a[l]
  <2>1. Len(a) > 0
    BY <1>1, <1>2
  <2> QED
    BY <1>1, <1>2, <2>1, ListFront
<1>5. a[l].fi = last.fi /\ a[l].pc = last.pc
      /\ a[l] = [fi |-> a[l].fi, pc |-> a[l].pc, env |-> a[l].env, arr |-> a[l].arr]
  BY <1>2 DEF AsSource
<1> HIDE DEF W, l, last
<1> QED
  BY <1>1, <1>3, <1>4, <1>5 DEF WaitingCalls, W, a

\* A function that returns to its caller.
LEMMA ReturnOnSim ==
    ASSUME GoingNow, Quiet, ReturnOn, Len(stack) > 1
    PROVE  GoingNext /\ Meaning!Return
<1> DEFINE rest == Front(stack)
           last == rest[Len(rest)]
           n == last.pc + 1
           m == ReturnMachine(prog, stack, regs, glob, garr)
           v == SourceResult(prog, stack, regs, glob, garr)
           a == AllAsSource(prog, stack, regs)
           W == Front(a)
           t == MovedOn(rest, n, m)
           x == prog[last.fi].func.stmts[last.pc].dest
<1>1. CallFrames(stack) /\ IsList(stack) /\ Len(stack) > 0 /\ status # "ready" /\ status' # "ready"
  BY GoingFrames DEF GoingNow, Quiet
<1>2. TopStmt(prog, stack).op \in {"return", "returnvoid"}
  BY DEF ReturnOn
<1>3. ReturnsTo(prog, destroyed, callersave, stack, regs, glob, garr, m, v)
  BY <1>2, ReturnStep DEF GoingNow
<1>4. CallFrames(rest)
  <2>1. IsList(rest) /\ Len(rest) = Len(stack) - 1 /\ \A k \in 1..(Len(stack) - 1) : rest[k] = stack[k]
    BY <1>1, ListFront
  <2>2. Len(stack) \in Nat
    BY <1>1, ListIs
  <2> HIDE DEF rest
  <2> QED
    BY <1>1, <2>1, <2>2 DEF CallFrames
<1>5. GoOn(rest, n, m)
  BY ReturnGoes
<1>6. NextIs(t, m)
  BY <1>4, <1>5, GoOnIs
<1>7. Returned(prog, destroyed, callersave, stack, regs, m, v)
      /\ m.glob = (IF x = Glob THEN v ELSE glob) /\ m.garr = garr
  BY <1>3 DEF ReturnsTo
<1>8. /\ Going(prog, destroyed, callersave, t, m.regs, m.glob, m.garr)
      /\ AllAsSource(prog, t, m.regs) = Continued(W, n, BoundTo(prog[last.fi], W[Len(W)].env, n, x, v))
  BY <1>7, Zenon DEF Returned
<1>9. WaitingCalls(W, last)
  BY <1>1, WaitingCallsAre
<1>10. SourceFrames = a
  BY SourceIs
<1> HIDE DEF m, v, t, a
<1>11. stack' = t /\ regs' = m.regs /\ glob' = m.glob /\ garr' = m.garr
  BY <1>6 DEF NextIs
<1>12. GoingNext
  BY <1>8, <1>11 DEF GoingNext, Quiet, SameProgram
<1>13. SourceFrames' = AllAsSource(prog, t, m.regs)
  BY <1>11, SourceIs DEF Quiet, SameProgram
<1> HIDE DEF W, rest
<1>14. /\ W[Len(W)].fi = last.fi /\ W[Len(W)].pc = last.pc
       /\ W[Len(W)] = [fi |-> W[Len(W)].fi, pc |-> W[Len(W)].pc,
                       env |-> W[Len(W)].env, arr |-> W[Len(W)].arr]
       /\ Len(W) > 0
  BY <1>9 DEF WaitingCalls
<1> HIDE DEF last
<1>15. SourceFrames' = Continued(W, n, BoundTo(prog[W[Len(W)].fi], W[Len(W)].env, n, x, v))
  BY <1>8, <1>13, <1>14
<1>16. glob' = IF x = Glob THEN v ELSE glob
  BY <1>7, <1>11
<1> HIDE DEF n, x
<1>17. Meaning!Continue(W, n, x, v)
  BY <1>14, <1>15, <1>16, ContinueIs
<1>18. SourceArray' = SourceArray
  BY <1>1, <1>7, <1>11 DEF SourceArray
<1>19. Meaning!Result = v
  BY <1>1, ResultIs DEF v
<1>20. Meaning!Stmt_ = TopStmt(prog, stack)
  BY <1>1, SourceTop
<1>21. Meaning!Front(SourceFrames) = W
  BY <1>10, SameOperators DEF W
<1>22. W # <<>>
  <2>1. Len(<<>>) = 0
    BY ShortLists
  <2> QED
    BY <1>14, <2>1
<1>23. W[Len(W)].pc + 1 = n /\ prog[W[Len(W)].fi].func.stmts[W[Len(W)].pc].dest = x
  BY <1>14 DEF n, x
<1>24. prog' = prog /\ status' = status /\ out' = out
  BY DEF Quiet, SameProgram
<1> HIDE DEF SourceFrames, SourceArray
<1>25. Meaning!Return
  BY <1>2, <1>17, <1>18, <1>19, <1>20, <1>21, <1>22, <1>23, <1>24 DEF Meaning!Return
<1> QED
  BY <1>12, <1>25

\* main returns, and the program ends.
ReturnEnds ==
    LET m1 == After(prog, stack, regs, glob, garr)
    IN  /\ TopStmt(prog, stack).op \in {"return", "returnvoid"}
        /\ Front(stack) = <<>>
        /\ Settle(Front(stack), [m1 EXCEPT !.frames = Front(@)])
        /\ status' = "exited"
        /\ out' = <<"exit", <<m1.regs[ArgReg[0]]>>>>

\* the program has ended in the next state
OverNext == stack' = <<>> /\ StoreOK(regs', glob', garr')

\* The end of the program.
LEMMA ReturnEndsSim ==
    ASSUME GoingNow, status = "running", SameProgram, ReturnEnds, Len(stack) = 1
    PROVE  OverNext /\ Meaning!Return
<1> DEFINE m1 == After(prog, stack, regs, glob, garr)
           left == [m1 EXCEPT !.frames = Front(@)]
           v == SourceResult(prog, stack, regs, glob, garr)
<1>1. IsList(stack) /\ Len(stack) > 0 /\ status # "ready"
  BY GoingFrames DEF GoingNow
<1>2. /\ TopStmt(prog, stack).op \in {"return", "returnvoid"}
      /\ Front(stack) = <<>> /\ status' = "exited"
      /\ Settle(<<>>, left)
      /\ out' = <<"exit", <<m1.regs[ArgReg[0]]>>>>
  BY DEF ReturnEnds
<1>3. Ends(stack, m1, glob, garr, v)
  BY <1>2, MainStep DEF GoingNow
<1>4. m1.regs[ArgReg[0]] = v /\ StoreOK(m1.regs, glob, garr) /\ m1.glob = glob /\ m1.garr = garr
  BY <1>3 DEF Ends
<1>5. LeavesMachine(m1, Front(stack))
  <2>1. \E W : OnlyRegs(MachineOf(stack, regs, glob, garr), m1, W)
    <3>1. Leaves(prog, destroyed, stack, regs, glob, garr, m1)
      BY <1>2, ReturnLeaves DEF GoingNow
    <3> QED
      BY <3>1 DEF Leaves
  <2>2. PICK W : OnlyRegs(MachineOf(stack, regs, glob, garr), m1, W)
    BY <2>1
  <2> HIDE DEF m1
  <2> QED
    BY <1>1, <2>2, LeftIs
<1> HIDE DEF m1, v
<1>6. left.regs = m1.regs /\ left.glob = m1.glob /\ left.garr = m1.garr
  <2>1. left = MachineOf(Front(stack), m1.regs, m1.glob, m1.garr)
    BY <1>5 DEF LeavesMachine
  <2> HIDE DEF left
  <2> QED
    BY <2>1 DEF MachineOf
<1> HIDE DEF left
<1>7. regs' = m1.regs /\ glob' = glob /\ garr' = garr
      /\ stack' = [k \in DOMAIN <<>> |-> [<<>>[k] EXCEPT !.words = left.frames[k]]]
  BY <1>2, <1>4, <1>6 DEF Settle
<1>8. IsList(<<>>) /\ Len(<<>>) = 0 /\ DOMAIN <<>> = 1..0
  BY ShortLists, ListIs
<1>9. stack' = <<>>
  BY <1>7, <1>8
<1>10. OverNext
  BY <1>4, <1>7, <1>9 DEF OverNext
<1>11. SourceFrames' = <<>>
  <2>1. SourceFrames' = AllAsSource(prog', stack', regs')
    BY SourceIs
  <2> HIDE DEF SourceFrames
  <2>2. SourceFrames' = AllAsSource(prog', <<>>, regs')
    BY <1>9, <2>1
  <2> DEFINE a == AllAsSource(prog', <<>>, regs')
  <2>3. IsList(a) /\ Len(a) = 0
    BY <1>8, SourceLength
  <2> HIDE DEF a
  <2>4. a = <<>>
    BY <1>8, <2>3, SameListEqual DEF SameList
  <2> QED
    BY <2>2, <2>4 DEF a
<1>12. SourceArray' = SourceArray
  BY <1>1, <1>2, <1>7 DEF SourceArray
<1>13. Meaning!Result = v
  BY <1>1, ResultIs DEF v
<1>14. Meaning!Stmt_ = TopStmt(prog, stack)
  BY <1>1, SourceTop
<1>15. Meaning!Front(SourceFrames) = <<>>
  <2>1. Meaning!Front(SourceFrames) = Front(SourceFrames)
    BY SameOperators
  <2>2. IsList(SourceFrames) /\ Len(SourceFrames) = 1
    BY <1>1, SourceIs, SourceLength
  <2> DEFINE a == Front(SourceFrames)
  <2> HIDE DEF SourceFrames
  <2>3. IsList(a) /\ Len(a) = 0
    <3>1. Len(SourceFrames) > 0 /\ Len(SourceFrames) - 1 = 0
      BY <2>2
    <3>2. IsList(a) /\ Len(a) = Len(SourceFrames) - 1
      BY <2>2, <3>1, ListFront
    <3> QED
      BY <3>1, <3>2
  <2> HIDE DEF a
  <2>4. a = <<>>
    BY <1>8, <2>3, SameListEqual DEF SameList
  <2> QED
    BY <2>1, <2>4 DEF a
<1>16. out' = <<"exit", <<v>>>>
  BY <1>2, <1>4
<1> HIDE DEF SourceFrames, SourceArray
<1>17. prog' = prog
  BY DEF SameProgram
<1>18. Meaning!Return
  BY <1>2, <1>7, <1>11, <1>12, <1>13, <1>14, <1>15, <1>16, <1>17 DEF Meaning!Return
<1> QED
  BY <1>10, <1>18

\* A return, to the caller or out of the program.
LEMMA ReturnSim ==
    ASSUME GoingNow, status = "running", SameProgram, Return
    PROVE  /\ Meaning!Return
           /\ \/ status' = "running" /\ GoingNext
              \/ status' = "exited" /\ OverNext
<1> DEFINE rest == Front(stack)
           last == rest[Len(rest)]
           m1 == After(prog, stack, regs, glob, garr)
<1>1. IsList(stack) /\ Len(stack) > 0 /\ Len(stack) \in Nat
  BY GoingFrames, ListIs DEF GoingNow
<1>2. ReturnStarts
  BY <1>1, ReturnStartsSo
<1> HIDE DEF m1
<1>3. /\ TopStmt(prog, stack).op \in {"return", "returnvoid"}
      /\ IF rest = <<>>
         THEN /\ Settle(rest, [m1 EXCEPT !.frames = Front(@)])
              /\ status' = "exited"
              /\ out' = <<"exit", <<m1.regs[ArgReg[0]]>>>>
         ELSE /\ GoOn(rest, last.pc + 1,
                      ExecuteAll([m1 EXCEPT !.frames = Front(@)],
                                 GenAfterCall(prog[last.fi], last.pc, last.meet)))
              /\ UNCHANGED <<status, out>>
  BY <1>2 DEF Return, ReturnStarts, m1
<1>4. CASE Len(stack) > 1
  <2>1. rest # <<>>
    <3>1. Len(rest) = Len(stack) - 1
      BY <1>1, ListFront
    <3>2. Len(<<>>) = 0
      BY ShortLists
    <3> HIDE DEF rest
    <3> QED
      BY <1>1, <1>4, <3>1, <3>2
  <2>2. ReturnOn /\ status' = status /\ out' = out
    BY <1>3, <2>1 DEF ReturnOn, m1
  <2>3. Quiet
    BY <2>2 DEF Quiet
  <2>4. GoingNext /\ Meaning!Return
    BY <1>4, <2>2, <2>3, ReturnOnSim
  <2>5. status' = "running"
    BY <2>2
  <2> HIDE DEF SourceFrames, SourceArray
  <2> QED
    BY <2>4, <2>5
<1>5. CASE Len(stack) = 1
  <2>1. rest = <<>>
    <3>1. Ends(stack, m1, glob, garr, SourceResult(prog, stack, regs, glob, garr))
      BY <1>3, <1>5, MainStep DEF GoingNow, m1
    <3> QED
      BY <3>1 DEF Ends
  <2>2. ReturnEnds /\ status' = "exited"
    BY <1>3, <2>1 DEF ReturnEnds, m1
  <2>3. OverNext /\ Meaning!Return
    BY <1>5, <2>2, ReturnEndsSim
  <2> QED
    BY <2>2, <2>3
<1>6. Len(stack) > 1 \/ Len(stack) = 1
  <2> DEFINE l == Len(stack)
  <2>1. l \in Nat /\ l > 0
    BY <1>1
  <2> HIDE DEF l, rest, last
  <2>2. l > 1 \/ l = 1
    BY <2>1
  <2> QED
    BY <2>2 DEF l
<1> HIDE DEF SourceFrames, SourceArray
<1> QED
  BY <1>4, <1>5, <1>6

\* The runtime enters main.
LEMMA StartSim ==
    ASSUME Reported(prog, destroyed, callersave), StoreOK(regs, glob, garr), SameProgram, Start, out' = out
    PROVE  GoingNext /\ Meaning!Start
<1> DEFINE st == MainStack(prog, callersave)
           m == ExecuteAll(MachineOf(st, regs, glob, garr), GenGlobalInit)
           main == <<Frame(Len(prog))>>
           fr == Entered(prog, callersave, Len(prog))
<1>1. /\ Going(prog, destroyed, callersave, st, m.regs, m.glob, m.garr)
      /\ AllAsSource(prog, st, m.regs) = SourceMain(prog)
      /\ m.frames[1] = st[1].words
      /\ m.glob = glob /\ m.garr = GlobInit
  BY StartStep
<1>2. Len(st) = 1 /\ st[1] = fr /\ IsList(st)
  BY MainIs
<1>3. main = st
  <2>1. Frame(Len(prog)) = fr
    BY DEF Frame, Entered
  <2> HIDE DEF fr
  <2> QED
    BY <2>1 DEF MainStack, fr
<1> HIDE DEF st
<1>4. Machine(main) = MachineOf(st, regs, glob, garr)
  BY <1>3, MachineOfState
<1> HIDE DEF main
<1>5. Settle(st, m)
  BY <1>3, <1>4 DEF Start, main
<1> HIDE DEF m
<1>6. status = "ready" /\ status' = "running"
  BY DEF Start
<1>7. /\ stack' = Settled(st, m)
      /\ regs' = m.regs /\ glob' = m.glob /\ garr' = m.garr
  BY <1>5 DEF Settle, Settled
<1>8. Settled(st, m) = st
  <2>1. IsCallFrame(fr)
    BY FrameParts DEF IsCallFrame
  <2> HIDE DEF fr
  <2>2. Reworded(fr, fr.words)
    BY <2>1, RewordedIs
  <2>3. [fr EXCEPT !.words = fr.words] = fr
    BY <2>1, <2>2 DEF Reworded, IsCallFrame
  <2>4. DOMAIN st = 1..1
    BY <1>2, ListIs
  <2> DEFINE b == Settled(st, m)
  <2>5. b = [k \in 1..1 |-> [st[k] EXCEPT !.words = m.frames[k]]]
    BY <2>4 DEF Settled
  <2> HIDE DEF b
  <2>6. b[1] = [fr EXCEPT !.words = fr.words]
    BY <1>1, <1>2, <2>5
  <2>7. b = [k \in 1..1 |-> b[k]]
    BY <2>5
  <2>8. IsList(b) /\ Len(b) = 1
    BY <2>7, FunctionList
  <2>9. SameList(b, st)
    BY <1>2, <2>3, <2>6, <2>8 DEF SameList
  <2>10. b = st
    BY <2>9, SameListEqual
  <2> QED
    BY <2>10 DEF b
<1>9. GoingNext
  BY <1>1, <1>7, <1>8 DEF GoingNext, SameProgram
<1>10. SourceFrames' = SourceMain(prog)
  BY <1>1, <1>7, <1>8, SourceIs DEF SameProgram
<1>11. SourceArray' = SourceArray
  BY <1>1, <1>6, <1>7 DEF SourceArray
<1>12. glob' = glob /\ prog' = prog
  BY <1>1, <1>7 DEF SameProgram
<1>13. Meaning!NoValues(prog[Len(prog)]) = [i \in 0..(prog[Len(prog)].arraysize - 1) |-> Junk]
  BY SameOperators DEF Meaning!NoValues
<1> HIDE DEF SourceFrames, SourceArray
<1>14. Meaning!Start
  BY <1>6, <1>10, <1>11, <1>12, <1>13 DEF Meaning!Start, SourceMain
<1> QED
  BY <1>9, <1>14

-------------------------------------------------------------------------------
(* The invariants of an execution, and its theorems.                       *)

\* The set of a reported function contains those of the functions it calls.
LEMMA CalleeCollected ==
    ASSUME IndInv, Collected, Done, NEW i \in DOMAIN prog, NEW s \in Calls(prog[i])
    PROVE  destroyed[prog[i].func.stmts[s].fn] \subseteq destroyed[prog[i].name]
<1>1. prog \in Programs /\ fi \in Nat /\ Len(prog) \in Nat /\ DOMAIN prog = 1..Len(prog)
  BY ProgramType DEF IndInv, TypeOK
<1>2. i < fi
  BY <1>1 DEF Done
<1>3. destroyed[prog[i].name] = Direct(prog[i])
                  \cup UNION {destroyed[n] : n \in Callees(i) \ {prog[i].name}}
  BY <1>2 DEF Collected
<1>4. prog[i].func.stmts[s].fn \in Callees(i)
  BY DEF Callees, Callee
<1>5. CASE prog[i].func.stmts[s].fn = prog[i].name
  BY <1>5
<1>6. CASE prog[i].func.stmts[s].fn # prog[i].name
  <2> DEFINE fn == prog[i].func.stmts[s].fn
             ns == Callees(i) \ {prog[i].name}
  <2>1. fn \in ns
    BY <1>4, <1>6
  <2> HIDE DEF fn, ns
  <2>2. destroyed[fn] \subseteq UNION {destroyed[n] : n \in ns}
    BY <2>1
  <2> QED
    BY <1>3, <2>2 DEF fn, ns
<1> QED
  BY <1>5, <1>6

\* What the report leaves behind is what generated code relies on.
LEMMA ReportedIs ==
    ASSUME IndInv, Collected, SaveAreaSuffices, Done
    PROVE  Reported(prog, destroyed, callersave)
<1>1. prog \in Programs /\ fi \in Nat /\ Len(prog) \in Nat /\ DOMAIN prog = 1..Len(prog)
  BY ProgramType DEF IndInv, TypeOK
<1>2. Len(prog) \in Nat \ {0}
  BY <1>1, MainAssumption
<1>3. /\ destroyed \in [Names(prog) -> SUBSET (AvailRegs \cup BuiltinDestroys)]
      /\ callersave \in [DOMAIN prog -> Nat]
  BY DEF IndInv, TypeOK
<1>4. \A n \in Builtins : destroyed[n] = BuiltinDestroys
  BY DEF IndInv, OwnReported
<1>5. ASSUME NEW i \in DOMAIN prog
      PROVE  /\ prog[i].name \in Names(prog)
             /\ Direct(prog[i]) \subseteq destroyed[prog[i].name]
  <2>1. i < fi
    BY <1>1 DEF Done
  <2> QED
    BY <2>1 DEF IndInv, OwnReported, Names
<1>6. ASSUME NEW i \in DOMAIN prog, NEW s \in Calls(prog[i])
      PROVE  LET fn == prog[i].func.stmts[s].fn
             IN  /\ fn \in Names(prog)
                 /\ destroyed[fn] \subseteq destroyed[prog[i].name]
                 /\ Cardinality(SavedRegs(prog[i], s, destroyed[fn])) <= callersave[i]
  <2>1. prog[i].func.stmts[s].fn \in Names(prog)
    BY <1>1, CalleeKinds
  <2>2. destroyed[prog[i].func.stmts[s].fn] \subseteq destroyed[prog[i].name]
    BY CalleeCollected
  <2>3. Cardinality(SavedRegs(prog[i], s, destroyed[prog[i].func.stmts[s].fn])) <= callersave[i]
    BY DEF SaveAreaSuffices
  <2> QED
    BY <2>1, <2>2, <2>3
<1> QED
  BY <1>1, <1>2, <1>3, <1>4, <1>5, <1>6 DEF Reported

\* Execution starts when everything is reported, goes on with a stack as the
\* program's calls have left it, and ends with an empty one.
Executing ==
    /\ status \in {"ready", "running", "exited"}
    /\ status # "ready" => Done
    /\ StoreOK(regs, glob, garr)
    /\ IF status = "running" THEN GoingNow ELSE stack = <<>>

\* The machine starts with no call in progress.
LEMMA ExecutingInit == ASSUME ExecInit PROVE Executing
<1>1. garr \in [DOMAIN GlobInit -> Nat]
  BY DEF ExecInit
<1>2. regs \in [Regs -> Nat] /\ regs[NoReg] = 0
  <2>1. NoReg \in Regs
    BY DEF Regs
  <2>2. Junk \in Nat
    BY ValuesAssumption DEF Junk
  <2> QED
    BY <2>1, <2>2 DEF ExecInit
<1>3. glob \in Nat /\ status = "ready" /\ stack = <<>>
  BY DEF ExecInit
<1> QED
  BY <1>1, <1>2, <1>3 DEF Executing, StoreOK

\* What the report is known to be.
Report == IndInv /\ Collected /\ SaveAreaSuffices

\* Compiling is invisible in the source.
LEMMA CompileStep ==
    ASSUME Report, Report', Executing, Compile
    PROVE  Executing' /\ UNCHANGED Meaning!ivars
<1>1. UNCHANGED <<status, regs, stack, glob, garr, out>> /\ prog' = prog
  BY DEF Compile, Begin, Look, End, xvars
<1>2. fi <= Len(prog)
  BY DEF Compile, Begin, Look, End
<1>3. fi \in Nat /\ Len(prog) \in Nat
  BY ProgramType DEF Report, IndInv, TypeOK
<1>4. ~ Done
  BY <1>2, <1>3 DEF Done
<1>5. status = "ready"
  BY <1>4 DEF Executing
<1>6. stack = <<>>
  BY <1>5 DEF Executing
<1>7. Executing'
  BY <1>1, <1>5, <1>6 DEF Executing, StoreOK
<1>8. Len(<<>>) = 0
  BY ShortLists
<1>9. SourceFrames = <<>> /\ SourceFrames' = <<>>
  BY <1>1, <1>6, <1>8 DEF SourceFrames
<1>10. SourceArray' = SourceArray
  BY <1>1 DEF SourceArray
<1> HIDE DEF SourceFrames, SourceArray
<1> QED
  BY <1>1, <1>7, <1>9, <1>10 DEF Meaning!ivars

\* An exited program stays as it is.
LEMMA ExitedStep ==
    ASSUME Executing, UNCHANGED <<vars, xvars>>
    PROVE  Executing' /\ UNCHANGED Meaning!ivars
<1>1. /\ UNCHANGED <<status, regs, stack, glob, garr, out>>
      /\ UNCHANGED <<prog, fi, destroyed, callersave>>
  BY DEF vars, xvars
<1>2. Executing'
  BY <1>1 DEF Executing, StoreOK, GoingNow, Done
<1>3. SourceFrames' = SourceFrames
  BY <1>1, SourceIs
<1>4. SourceArray' = SourceArray
  BY <1>1 DEF SourceArray
<1> HIDE DEF SourceFrames, SourceArray
<1> QED
  BY <1>1, <1>2, <1>3, <1>4 DEF Meaning!ivars

\* An access to an array within its bounds, by the values of the source, is
\* one by the words of the machine.
LEMMA DefinedAccess ==
    ASSUME Executing, Defined, status = "running",
           TopStmt(prog, stack).op \in {"arrayget", "arrayset"}
    PROVE  SourceArg(prog, stack, regs, glob, 1) + TopStmt(prog, stack).label \in WordsOf(prog, stack)
<1>1. IsList(stack) /\ Len(stack) > 0
  BY GoingFrames DEF Executing, GoingNow
<1>2. /\ Meaning!Stmt_ = TopStmt(prog, stack) /\ Stmt_ = TopStmt(prog, stack)
  BY <1>1, SourceTop
<1>3. Meaning!Value(Meaning!Stmt_.args[1]) = SourceArg(prog, stack, regs, glob, 1)
  BY <1>1, ArgIs
<1>4. DOMAIN stack = 1..Len(stack)
  BY <1>1, ListIs
<1>5. ArrayWords = WordsOf(prog, stack)
  BY <1>4 DEF ArrayWords, WordsOf
<1>6. Stmt_.op \in {"arrayget", "arrayset"} => Meaning!Value(Stmt_.args[1]) + Stmt_.label \in ArrayWords
  BY DEF Defined
<1> HIDE DEF SourceFrames, SourceArray
<1>7. Meaning!Value(Stmt_.args[1]) + Stmt_.label \in ArrayWords
  BY <1>2, <1>6
<1>8. Meaning!Value(Stmt_.args[1]) = SourceArg(prog, stack, regs, glob, 1)
  BY <1>2, <1>3
<1> QED
  BY <1>2, <1>5, <1>7, <1>8

\* The statements of a machine that goes on.
SourceGoes == Meaning!Compute \/ Meaning!ArraySet \/ Meaning!FillZero \/ Meaning!Jump
              \/ Meaning!Call \/ Meaning!CallLibrary

\* A statement that computes is the source's.
LEMMA ComputingStep ==
    ASSUME Executing, Defined, Quiet, Compute
    PROVE  GoingNext /\ SourceGoes
<1>1. GoingNow /\ status = "running"
  BY DEF Executing, Quiet
<1>2. IsList(stack) /\ Len(stack) > 0
  BY <1>1, GoingFrames DEF GoingNow
<1>3. Stmt_ = TopStmt(prog, stack)
  BY <1>2, SourceTop
<1>4. Stmt_.op \in {"opbinary", "opunary", "mov", "arrayget", "arrayset",
                     "fillzero", "param", "label"}
  BY DEF Compute
<1> DEFINE op == TopStmt(prog, stack).op
<1>5. op \in {"opbinary", "opunary", "mov", "arrayget", "arrayset",
                     "fillzero", "param", "label"}
  BY <1>3, <1>4
<1>6. CASE op = "arrayset"
  <2>1. GoingNext /\ Meaning!ArraySet
    BY <1>1, <1>6, DefinedAccess, ArraySetSim
  <2> HIDE DEF SourceFrames, SourceArray
  <2> QED
    BY <2>1 DEF SourceGoes
<1>7. CASE op = "fillzero"
  <2>1. GoingNext /\ Meaning!FillZero
    BY <1>1, <1>7, FillZeroSim
  <2> HIDE DEF SourceFrames, SourceArray
  <2> QED
    BY <2>1 DEF SourceGoes
<1>8. CASE op \in {"opbinary", "opunary", "mov", "arrayget", "param", "label"}
  <2>1. op = "arrayget" =>
              SourceArg(prog, stack, regs, glob, 1) + TopStmt(prog, stack).label \in WordsOf(prog, stack)
    BY <1>1, DefinedAccess
  <2>2. GoingNext /\ Meaning!Compute
    BY <1>1, <1>8, <2>1, ComputeSim
  <2> HIDE DEF SourceFrames, SourceArray
  <2> QED
    BY <2>2 DEF SourceGoes
<1> HIDE DEF op
<1> HIDE DEF SourceFrames, SourceArray
<1> QED
  BY <1>5, <1>6, <1>7, <1>8

\* A step of the running machine is one of the source.
LEMMA RunStep ==
    ASSUME Executing, Defined, status = "running", SameProgram, Run
    PROVE  /\ \/ SourceGoes /\ status' = "running" /\ GoingNext
              \/ Meaning!Return /\ status' = "running" /\ GoingNext
              \/ Meaning!Return /\ status' = "exited" /\ OverNext
<1>1. GoingNow
  BY DEF Executing
<1>2. CASE Compute
  <2>1. Quiet
    BY <1>2 DEF Compute, Quiet
  <2>2. GoingNext /\ SourceGoes
    BY <1>2, <2>1, ComputingStep
  <2>3. status' = "running"
    BY <2>1 DEF Quiet
  <2> HIDE DEF SourceFrames, SourceArray
  <2> QED
    BY <2>2, <2>3
<1>3. CASE Jump
  <2>1. Quiet
    BY <1>3 DEF Jump, Quiet
  <2>2. GoingNext /\ Meaning!Jump
    BY <1>1, <1>3, <2>1, JumpSim
  <2>3. status' = "running"
    BY <2>1 DEF Quiet
  <2> HIDE DEF SourceFrames, SourceArray
  <2> QED
    BY <2>2, <2>3 DEF SourceGoes
<1>4. CASE Call
  <2>1. Quiet
    BY <1>4 DEF Call, Quiet
  <2>2. GoingNext /\ Meaning!Call
    BY <1>1, <1>4, <2>1, CallSim
  <2>3. status' = "running"
    BY <2>1 DEF Quiet
  <2> HIDE DEF SourceFrames, SourceArray
  <2> QED
    BY <2>2, <2>3 DEF SourceGoes
<1>5. CASE CallLibrary
  <2>1. status' = status
    BY <1>5 DEF CallLibrary
  <2>2. GoingNext /\ Meaning!CallLibrary
    BY <1>1, <1>5, <2>1, LibrarySim
  <2> HIDE DEF SourceFrames, SourceArray
  <2> QED
    BY <2>1, <2>2 DEF SourceGoes
<1>6. CASE Return
  <2>1. /\ Meaning!Return
        /\ \/ status' = "running" /\ GoingNext
           \/ status' = "exited" /\ OverNext
    BY <1>1, <1>6, ReturnSim
  <2> HIDE DEF SourceFrames, SourceArray
  <2> QED
    BY <2>1
<1> HIDE DEF SourceFrames, SourceArray
<1> QED
  BY <1>2, <1>3, <1>4, <1>5, <1>6 DEF Run

\* Every step is one of the source, or is invisible in it.
LEMMA ExecStep ==
    ASSUME Report, Report', Executing, Defined, [ExecNext]_<<vars, xvars>>
    PROVE  Executing' /\ [Meaning!Next]_(Meaning!ivars)
<1>1. CASE Compile
  <2>1. Executing' /\ UNCHANGED Meaning!ivars
    BY <1>1, CompileStep
  <2> HIDE DEF SourceFrames, SourceArray
  <2> QED
    BY <2>1
<1>2. CASE UNCHANGED <<vars, xvars>>
  <2>1. Executing' /\ UNCHANGED Meaning!ivars
    BY <1>2, ExitedStep
  <2> HIDE DEF SourceFrames, SourceArray
  <2> QED
    BY <2>1
<1>3. CASE Start /\ UNCHANGED compilevars
  <2>1. SameProgram /\ Done /\ Done' /\ out' = out /\ status = "ready" /\ status' = "running"
    BY <1>3 DEF Start, Done, SameProgram, compilevars, vars
  <2>2. Reported(prog, destroyed, callersave)
    BY <2>1, ReportedIs DEF Report
  <2>3. StoreOK(regs, glob, garr)
    BY DEF Executing
  <2>4. GoingNext /\ Meaning!Start
    BY <1>3, <2>1, <2>2, <2>3, StartSim
  <2>5. (GoingNow)' /\ (StoreOK(regs, glob, garr))'
    <3>1. (GoingNow)'
      BY <2>4 DEF GoingNow, GoingNext
    <3>2. (StoreOK(regs, glob, garr))'
      BY <2>4 DEF GoingNext, Going
    <3> QED
      BY <3>1, <3>2
  <2>6. Executing'
    BY <2>1, <2>5 DEF Executing
  <2> HIDE DEF SourceFrames, SourceArray
  <2> QED
    BY <2>4, <2>6 DEF Meaning!Next
<1>4. CASE status = "running" /\ Run /\ UNCHANGED compilevars
  <2>1. SameProgram /\ Done /\ Done'
    BY <1>4 DEF Done, SameProgram, compilevars, vars, Executing
  <2>2. /\ \/ SourceGoes /\ status' = "running" /\ GoingNext
           \/ Meaning!Return /\ status' = "running" /\ GoingNext
           \/ Meaning!Return /\ status' = "exited" /\ OverNext
    BY <1>4, <2>1, RunStep
  <2> DEFINE ms == SourceGoes \/ Meaning!Return
  <2>3. \/ ms /\ status' = "running" /\ GoingNext
        \/ ms /\ status' = "exited" /\ OverNext
    <3> HIDE DEF SourceFrames, SourceArray
    <3> QED
      BY <2>2
  <2>4. ms
    BY <2>3
  <2>5. Executing'
    <3> HIDE DEF ms
    <3>1. ASSUME GoingNext PROVE (GoingNow)' /\ (StoreOK(regs, glob, garr))'
      BY <3>1 DEF GoingNow, GoingNext, Going
    <3>2. ASSUME OverNext PROVE (stack = <<>>)' /\ (StoreOK(regs, glob, garr))'
      BY <3>2 DEF OverNext
    <3>3. CASE status' = "running" /\ GoingNext
      BY <2>1, <3>1, <3>3 DEF Executing
    <3>4. CASE status' = "exited" /\ OverNext
      BY <2>1, <3>2, <3>4 DEF Executing
    <3> QED
      BY <2>3, <3>3, <3>4
  <2> HIDE DEF SourceFrames, SourceArray
  <2>6. Meaning!Next
    BY <1>4, <2>4 DEF Meaning!Next, Meaning!Running, SourceGoes
  <2> QED
    BY <2>5, <2>6
<1> HIDE DEF SourceFrames, SourceArray
<1>5. \/ Compile
      \/ UNCHANGED <<vars, xvars>>
      \/ Start /\ UNCHANGED compilevars
      \/ status = "running" /\ Run /\ UNCHANGED compilevars
  BY DEF ExecNext, Exited
<1> QED
  BY <1>1, <1>2, <1>3, <1>4, <1>5

\* The source starts where the machine does.
LEMMA MeaningInit == ASSUME ExecInit PROVE Meaning!Init
<1>1. /\ prog \in Programs /\ status = "ready" /\ stack = <<>> /\ glob = 0 /\ out = <<>>
  BY DEF ExecInit, Init
<1>2. SourceArray = GlobInit
  BY <1>1 DEF SourceArray
<1>3. Len(<<>>) = 0
  BY ShortLists
<1>4. SourceFrames = <<>>
  BY <1>1, <1>3 DEF SourceFrames
<1> HIDE DEF SourceFrames, SourceArray
<1> QED
  BY <1>1, <1>2, <1>4 DEF Meaning!Init

\* A step of the execution is one of the report, or leaves it alone.
LEMMA ReportStep == ASSUME [ExecNext]_<<vars, xvars>> PROVE [Next]_vars
BY DEF ExecNext, Compile, Next, Exited, compilevars, vars, xvars

\* What is executed has been compiled.
LEMMA ExecReports == ExecSpec => []Report
<1>1. ExecInit => Init
  BY DEF ExecInit
<1>2. [ExecNext]_<<vars, xvars>> => [Next]_vars
  BY ReportStep
<1>3. ExecSpec => Spec
  BY <1>1, <1>2, PTL DEF ExecSpec, Spec
<1>4. Report <=> (IndInv /\ Collected) /\ SaveAreaSuffices
  BY DEF Report
<1> QED
  BY <1>3, <1>4, Collection, SaveAreaAlwaysSuffices, PTL

\* Registers, frames and save areas are invisible: where the language defines
\* what a program does, its machine code does it.
THEOREM CodeImplementsMeaning == ExecSpec /\ []Defined => ImplementsMeaning
<1>1. ExecInit => Executing /\ Meaning!Init
  BY ExecutingInit, MeaningInit
<1>2. Report /\ Report' /\ Executing /\ Defined /\ [ExecNext]_<<vars, xvars>>
          => Executing' /\ [Meaning!Next]_(Meaning!ivars)
  BY ExecStep
<1> QED
  BY <1>1, <1>2, ExecReports, PTL DEF ExecSpec, ImplementsMeaning, Meaning!Spec

\* Globals hold values of the program, never an address or what was left
\* behind.
GlobalsHold ==
    /\ glob \in Val
    /\ garr \in [DOMAIN GlobInit -> Val]
    /\ SourceArray \in [DOMAIN GlobInit -> Val]

\* Zero is a value.
LEMMA ZeroVal == 0 \in Val
BY ValuesAssumption DEF Val

\* Globals start with values.
LEMMA GlobalsInit == ASSUME ExecInit PROVE GlobalsHold
<1>1. garr \in [DOMAIN GlobInit -> Val] /\ glob \in Val
  BY ZeroVal DEF ExecInit
<1>2. GlobInit \in [DOMAIN GlobInit -> Val]
  BY GlobalsAssumption
<1>3. SourceArray = GlobInit
  BY DEF ExecInit, SourceArray
<1> QED
  BY <1>1, <1>2, <1>3 DEF GlobalsHold

\* What a statement stores in the global scalar is a value.
LEMMA StoredVal ==
    ASSUME Executing, Defined, status = "running"
    PROVE  /\ Meaning!Stmt_ = Stmt_
           /\ Stmt_.dest = Glob => Meaning!Result \in Val
           /\ Stmt_.op \in {"return", "returnvoid"} => Meaning!Result \in Val
           /\ Stmt_.op = "arrayset" => Meaning!Value(Stmt_.args[2]) \in Val
<1>1. IsList(stack) /\ Len(stack) > 0
  BY GoingFrames DEF Executing, GoingNow
<1>2. Meaning!Stmt_ = TopStmt(prog, stack) /\ Stmt_ = TopStmt(prog, stack)
  BY <1>1, SourceTop
<1>3. /\ Stmt_.dest = Glob \/ Stmt_.op = "return" => Meaning!Result \in Val
      /\ Stmt_.op = "arrayset" => Meaning!Value(Stmt_.args[2]) \in Val
  BY DEF Defined
<1> HIDE DEF SourceFrames, SourceArray
<1>4. Meaning!Stmt_ = Stmt_
  BY <1>2
<1>5. Meaning!Stmt_.op = "returnvoid" => Meaning!Result = 0
  BY DEF Meaning!Result
<1> QED
  BY <1>3, <1>4, <1>5, ZeroVal

\* A call goes on with a value in the global scalar if it is given one.
LEMMA ContinuedVal ==
    ASSUME NEW fs, NEW n, NEW x, NEW v,
           Meaning!Continue(fs, n, x, v), glob \in Val, x = Glob => v \in Val
    PROVE  glob' \in Val
<1> HIDE DEF SourceFrames, SourceArray
<1>1. glob' = IF x = Glob THEN v ELSE glob
  BY DEF Meaning!Continue
<1> QED
  BY <1>1

\* The steps of the source keep values in the globals.
LEMMA MeaningKeeps ==
    ASSUME Executing, Defined, GlobalsHold, status = "running",
           SourceGoes \/ Meaning!Return
    PROVE  glob' \in Val /\ SourceArray' \in [DOMAIN GlobInit -> Val]
<1>1. /\ Meaning!Stmt_ = Stmt_
      /\ Stmt_.dest = Glob => Meaning!Result \in Val
      /\ Stmt_.op \in {"return", "returnvoid"} => Meaning!Result \in Val
      /\ Stmt_.op = "arrayset" => Meaning!Value(Stmt_.args[2]) \in Val
  BY StoredVal
<1>2. glob \in Val /\ SourceArray \in [DOMAIN GlobInit -> Val]
  BY DEF GlobalsHold
<1> DEFINE ga == SourceArray
<1>3. NoVar # Glob
  BY KindsAssumption
<1> HIDE DEF SourceFrames, SourceArray
<1>4. CASE Meaning!Compute
  <2>1. Meaning!Continue(SourceFrames, Meaning!Top.pc + 1, Meaning!Stmt_.dest, Meaning!Result)
        /\ SourceArray' = SourceArray
    BY <1>4 DEF Meaning!Compute
  <2> QED
    BY <1>1, <1>2, <2>1, ContinuedVal
<1>5. CASE Meaning!ArraySet
  <2> DEFINE p == Meaning!Value(Meaning!Stmt_.args[1]) + Meaning!Stmt_.label
             k == PtrArray(p)
             v == Meaning!Value(Meaning!Stmt_.args[2])
             fs == [SourceFrames EXCEPT ![k].arr[PtrOffset(p)] = v]
  <2>1. /\ Meaning!Stmt_.op = "arrayset"
        /\ \/ /\ SourceArray' = [SourceArray EXCEPT ![Meaning!PtrOffset(p)] = v]
              /\ Meaning!Continue(SourceFrames, Meaning!Top.pc + 1, NoVar, 0)
           \/ /\ \E gs : Meaning!Continue(gs, Meaning!Top.pc + 1, NoVar, 0)
              /\ SourceArray' = SourceArray
    BY <1>5 DEF Meaning!ArraySet
  <2>2. v \in Val
    BY <1>1, <2>1
  <2> HIDE DEF v, p
  <2>3. SourceArray' \in [DOMAIN GlobInit -> Val]
    BY <1>2, <2>1, <2>2
  <2>4. glob' \in Val
    BY <1>2, <1>3, <2>1, ContinuedVal
  <2> QED
    BY <2>3, <2>4
<1>6. CASE Meaning!FillZero
  <2>1. PICK gs : Meaning!Continue(gs, Meaning!Top.pc + 1, NoVar, 0)
    BY <1>6 DEF Meaning!FillZero
  <2>2. SourceArray' = SourceArray
    BY <1>6 DEF Meaning!FillZero
  <2> QED
    BY <1>2, <1>3, <2>1, <2>2, ContinuedVal
<1>7. CASE Meaning!Jump
  <2>1. PICK n : Meaning!Continue(SourceFrames, n, NoVar, 0)
    BY <1>7 DEF Meaning!Jump
  <2>2. SourceArray' = SourceArray
    BY <1>7 DEF Meaning!Jump
  <2> QED
    BY <1>2, <1>3, <2>1, <2>2, ContinuedVal
<1>8. CASE Meaning!Call
  <2>1. glob' = glob /\ SourceArray' = SourceArray
    BY <1>8 DEF Meaning!Call
  <2> QED
    BY <1>2, <2>1
<1>9. CASE Meaning!CallLibrary
  <2>1. PICK v \in Meaning!Val : Meaning!Continue(SourceFrames, Meaning!Top.pc + 1, Meaning!Stmt_.dest, v)
    BY <1>9 DEF Meaning!CallLibrary
  <2>2. SourceArray' = SourceArray
    BY <1>9 DEF Meaning!CallLibrary
  <2>3. v \in Val
    BY DEF Val, Meaning!Val
  <2> QED
    BY <1>2, <2>1, <2>2, <2>3, ContinuedVal
<1>10. CASE Meaning!Return
  <2>1. Meaning!Stmt_.op \in {"return", "returnvoid"} /\ SourceArray' = SourceArray
    BY <1>10 DEF Meaning!Return
  <2>2. Meaning!Result \in Val
    BY <1>1, <2>1
  <2>3. glob' = glob \/ \E fs, n, x : Meaning!Continue(fs, n, x, Meaning!Result)
    BY <1>10 DEF Meaning!Return
  <2>4. glob' \in Val
    BY <1>2, <2>2, <2>3, ContinuedVal
  <2> QED
    BY <1>2, <2>1, <2>4
<1> QED
  BY <1>4, <1>5, <1>6, <1>7, <1>8, <1>9, <1>10 DEF SourceGoes

\* Every step keeps values in the globals.
LEMMA GlobalsStep ==
    ASSUME Report, Report', Executing, Defined, GlobalsHold, [ExecNext]_<<vars, xvars>>
    PROVE  GlobalsHold'
<1>1. CASE Compile \/ UNCHANGED <<vars, xvars>>
  <2>1. UNCHANGED <<status, glob, garr>>
    BY <1>1 DEF Compile, xvars
  <2> QED
    BY <2>1 DEF GlobalsHold, SourceArray
<1>2. CASE Start /\ UNCHANGED compilevars
  <2>1. SameProgram /\ Done /\ out' = out /\ status = "ready" /\ status' = "running"
    BY <1>2 DEF Start, SameProgram, compilevars, vars
  <2>2. Reported(prog, destroyed, callersave)
    BY <2>1, ReportedIs DEF Report
  <2>3. StoreOK(regs, glob, garr)
    BY DEF Executing
  <2>4. Meaning!Start
    BY <1>2, <2>1, <2>2, <2>3, StartSim
  <2>5. glob' = glob /\ SourceArray' = SourceArray
    <3> HIDE DEF SourceFrames, SourceArray
    <3> QED
      BY <2>4 DEF Meaning!Start
  <2>6. glob' \in Val /\ SourceArray' \in [DOMAIN GlobInit -> Val]
    <3> HIDE DEF SourceArray
    <3> QED
      BY <2>5 DEF GlobalsHold
  <2>7. SourceArray' = garr'
    BY <2>1 DEF SourceArray
  <2> HIDE DEF SourceArray
  <2> QED
    BY <2>6, <2>7 DEF GlobalsHold
<1>3. CASE status = "running" /\ Run /\ UNCHANGED compilevars
  <2>1. SameProgram
    BY <1>3 DEF SameProgram, compilevars, vars
  <2>2. /\ \/ SourceGoes /\ status' = "running" /\ GoingNext
           \/ Meaning!Return /\ status' = "running" /\ GoingNext
           \/ Meaning!Return /\ status' = "exited" /\ OverNext
    BY <1>3, <2>1, RunStep
  <2>3. /\ SourceGoes \/ Meaning!Return
        /\ status' # "ready"
    <3> HIDE DEF SourceFrames, SourceArray
    <3> QED
      BY <2>2
  <2>4. glob' \in Val /\ SourceArray' \in [DOMAIN GlobInit -> Val]
    BY <1>3, <2>3, MeaningKeeps
  <2>5. SourceArray' = garr'
    BY <2>3 DEF SourceArray
  <2> HIDE DEF SourceArray
  <2> QED
    BY <2>4, <2>5 DEF GlobalsHold
<1> HIDE DEF SourceFrames, SourceArray
<1> QED
  BY <1>1, <1>2, <1>3 DEF ExecNext, Exited

\* A call in progress has the frame its function was compiled with.
LEMMA FramesTyped ==
    ASSUME NEW k \in DOMAIN stack, GoingNow
    PROVE  LET f == prog[stack[k].fi]
           IN  /\ stack[k].fi \in DOMAIN prog
               /\ stack[k].pc \in Lines(f.func)
               /\ DOMAIN stack[k].words
                      = 0..(f.spillsize + callersave[stack[k].fi] - 1)
               /\ Len(stack[k].meet) <= callersave[stack[k].fi]
<1> DEFINE i == stack[k].fi
           f == prog[i]
<1>1. Reported(prog, destroyed, callersave) /\ StackOK(prog, destroyed, callersave, stack)
      /\ Len(stack) > 0 /\ stack[Len(stack)].meet = <<>>
  BY DEF GoingNow, Going
<1>2. Len(stack) \in Nat /\ k \in 1..Len(stack)
  BY <1>1, ListIs DEF StackOK
<1>3. FrameOf(prog, callersave, stack[k])
  BY <1>1, <1>2 DEF StackOK
<1>4. i \in DOMAIN prog /\ stack[k].pc \in Reached(f.func)
      /\ stack[k].words \in [0..(f.spillsize + callersave[i] - 1) -> Nat]
  BY <1>3 DEF FrameOf
<1>5. prog \in Programs /\ callersave \in [DOMAIN prog -> Nat]
  BY <1>1 DEF Reported
<1>6. WellFormed(f.func)
  BY <1>4, <1>5, ProgramsAssumption DEF ProgramOK
<1>7. Reached(f.func) \subseteq Lines(f.func)
  BY <1>6, ReachedIs
<1>8. Len(stack[k].meet) <= callersave[i]
  <2>1. CASE k = Len(stack)
    <3>1. Len(stack[k].meet) = 0
      BY <1>1, <2>1, ShortLists
    <3>2. callersave[i] \in Nat
      BY <1>4, <1>5
    <3> HIDE DEF i
    <3> QED
      BY <3>1, <3>2
  <2>2. CASE k # Len(stack)
    <3>1. k \in 1..(Len(stack) - 1)
      BY <1>2, <2>2
    <3>2. Waits(prog, destroyed, stack[k])
      BY <1>1, <3>1 DEF StackOK
    <3> DEFINE s == stack[k].pc
               M == MeetRegs(f, s, destroyed[f.func.stmts[s].fn])
    <3>3. s \in Calls(f) /\ stack[k].meet \in SetToSeqs(M)
      BY <3>2 DEF Waits, Awaited
    <3>4. IsFiniteSet(M) /\ Cardinality(M) <= callersave[i]
      BY <1>1, <1>4, <3>3, MeetWithin
    <3> HIDE DEF M
    <3>5. Len(stack[k].meet) = Cardinality(M)
      BY <3>3, <3>4, OrderIs
    <3> QED
      BY <3>4, <3>5
  <2> QED
    BY <2>1, <2>2
<1> QED
  BY <1>4, <1>7, <1>8

\* The invariants together say that the machine is one.
LEMMA MachineTyped ==
    ASSUME Report, Executing, GlobalsHold
    PROVE  ExecTypeOK
<1>1. TypeOK
  BY DEF Report, IndInv
<1>2. status \in {"ready", "running", "exited"} /\ regs \in [Regs -> Nat] /\ regs[NoReg] = 0
  BY DEF Executing, StoreOK
<1>3. glob \in Val /\ garr \in [DOMAIN GlobInit -> Val]
  BY DEF GlobalsHold
<1>4. ASSUME NEW k \in DOMAIN stack
      PROVE  LET f == prog[stack[k].fi]
             IN  /\ stack[k].fi \in DOMAIN prog
                 /\ stack[k].pc \in Lines(f.func)
                 /\ DOMAIN stack[k].words
                        = 0..(f.spillsize + callersave[stack[k].fi] - 1)
                 /\ Len(stack[k].meet) <= callersave[stack[k].fi]
  <2>1. CASE status = "running"
    <3>1. GoingNow
      BY <2>1 DEF Executing
    <3> QED
      BY <3>1, FramesTyped
  <2>2. CASE status # "running"
    <3>1. stack = <<>>
      BY <2>2 DEF Executing
    <3>2. k \in DOMAIN <<>>
      BY <3>1
    <3> QED
      BY <3>2
  <2> QED
    BY <2>1, <2>2
<1> QED
  BY <1>1, <1>2, <1>3, <1>4 DEF ExecTypeOK

\* Executing, the machine stays a machine, however deep calls nest.
THEOREM ExecutionTyped == ExecSpec /\ []Defined => []ExecTypeOK
<1>1. ExecInit => Executing /\ GlobalsHold
  BY ExecutingInit, GlobalsInit
<1>2. Report /\ Report' /\ Executing /\ Defined /\ [ExecNext]_<<vars, xvars>> => Executing'
  BY ExecStep
<1>3. Report /\ Report' /\ Executing /\ Defined /\ GlobalsHold /\ [ExecNext]_<<vars, xvars>>
          => GlobalsHold'
  BY GlobalsStep
<1>4. Report /\ Executing /\ GlobalsHold => ExecTypeOK
  BY MachineTyped
<1> QED
  BY <1>1, <1>2, <1>3, <1>4, ExecReports, PTL DEF ExecSpec

=============================================================================
