------------------------------ MODULE BuiltinFuncs -----------------------------
(***************************************************************************)
(* Functions of a program that the compiler recognises and replaces with   *)
(* instructions of its own (front/builtin_detection.hpp): memmove,         *)
(* multiply and set.  The instructions are printed as assembly and run,    *)
(* one instruction at a time; the functions are leaves without a frame.    *)
(* The texts they are recognised by are known by their hashes only, so     *)
(* what follows is about what the instructions do.                         *)
(***************************************************************************)
EXTENDS CodegenAsm

CONSTANTS
    MulMod,         \* 998244353
    SetBits,        \* 30, the bits of a word that are used
    SetBound,       \* 10000, the words of the set
    MaxAddr,        \* bound: memory has the words up to this address
    Calls           \* the calls looked at, [fn, args, memory]

ASSUME BuiltinsAssumption ==
    /\ MulMod \in 1..(Half \div 2)
    /\ SetBits \in 1..(WordBits - 2)
    /\ SetBound \in Nat /\ SetBound < Half
    /\ MaxAddr \in Word

-------------------------------------------------------------------------------
(* The three bodies.  A line is the assembly of an instruction, or moves   *)
(* control.                                                                *)

Code(asm)            == [kind |-> "code", asm |-> asm, rel |-> "", r1 |-> "x0",
                         r2 |-> "x0", label |-> ""]
Label(l)             == [Code(<<>>) EXCEPT !.kind = "label", !.label = l]
CondGoto(r1, rel, r2, l) ==
    [Label(l) EXCEPT !.kind = "goto", !.rel = rel, !.r1 = r1, !.r2 = r2]
Goto(l)              == CondGoto("x0", "==", "x0", l)
Ret                  == [Code(<<>>) EXCEPT !.kind = "ret"]

Op(d, r1, op, r2)    == Code(OpBinaryAsm(d, r1, op, r2))
ShiftI(d, r, n)      == Code(LeftShiftIAsm(d, r, n))
Load(d, imm)         == Code(LoadImmAsm(d, imm))
Mov(d, r)            == Code(MovAsm(d, r))
Get(d, ptr)          == Code(ArrayGetAsm(d, ptr, 0))
Put(ptr, r)          == Code(ArraySetAsm(ptr, 0, r))
Step(r)              == Code(AddIAsm(r, r, 4))

\* memmove, of the words at a2 to those at a0 from the a1-th on; a3 are copied
\* defect: the end is that of the destination
MemmoveStart_EndOfDst ==
    <<ShiftI("t0", "a1", 2), Op("a0", "a0", "+", "t0"),
      ShiftI("a1", "a3", 2), Op("a1", "a0", "+", "a1")>>

\* defect: the position is taken for bytes
MemmoveStart_PosInBytes ==
    <<Op("a0", "a0", "+", "a1"),
      ShiftI("a1", "a3", 2), Op("a1", "a2", "+", "a1")>>

MemmoveStart ==
    <<ShiftI("t0", "a1", 2), Op("a0", "a0", "+", "t0"),
      ShiftI("a1", "a3", 2), Op("a1", "a2", "+", "a1")>>

MemmoveLoop ==
    <<Label("loop"),
      Get("t0", "a2"), Put("a0", "t0"), Step("a2"), Step("a0"),
      CondGoto("a2", "<", "a1", "loop"),
      Mov("a0", "a3"), Ret>>

\* multiply, a0 by a1
MulStart ==
    <<Mov("t0", "a0"), Load("a0", 0),
      CondGoto("a1", "==", "x0", "ret"),
      Load("a2", MulMod),
      Label("loop")>>

MulAdd ==
    <<ShiftI("t1", "a1", WordBits - 1),
      CondGoto("t1", "==", "x0", "skip"),
      Op("a0", "a0", "+", "t0"), Op("a0", "a0", "%", "a2"),
      Label("skip")>>

\* defect: the factor is not halved
MulHalve_Never ==
    <<CondGoto("a1", "==", "x0", "ret"),
      ShiftI("t0", "t0", 1), Op("t0", "t0", "%", "a2"),
      Goto("loop"),
      Label("ret"), Ret>>

MulHalve ==
    <<ShiftI("a1", "a1", -1),
      CondGoto("a1", "==", "x0", "ret"),
      ShiftI("t0", "t0", 1), Op("t0", "t0", "%", "a2"),
      Goto("loop"),
      Label("ret"), Ret>>

\* set, of bit a1 of the words at a0 to a2; first, the word and the bit's value
SetFind ==
    <<Load("a3", SetBits), Op("t0", "a1", "/", "a3"),
      Load("a3", SetBound), Op("t1", "t0", "-", "a3"),
      CondGoto("t1", ">=", "x0", "ret"),
      Load("a3", SetBits), Op("t1", "a1", "%", "a3"),
      Load("a4", 1), Code(LeftShiftAsm("t1", "a4", "t1"))>>

\* the bit as it is, and what the word lacks if it is not as wanted
SetCompare ==
    <<ShiftI("a1", "t0", 2), Op("a1", "a0", "+", "a1"), Get("a1", "a1"),
      Op("a1", "a1", "/", "t1"), Load("a3", 2), Op("a1", "a1", "%", "a3"),
      Load("a3", 0),
      CondGoto("a1", "==", "a2", "skip1"),
      CondGoto("a1", "!=", "x0", "skip2"),
      CondGoto("a2", "!=", "a4", "skip2"),
      Mov("a3", "t1"),
      Label("skip2"),
      CondGoto("a1", "!=", "a4", "skip1"),
      CondGoto("a2", "!=", "x0", "skip1"),
      Op("a3", "a3", "-", "t1")>>

SetStore ==
    <<Label("skip1"),
      ShiftI("a1", "t0", 2), Op("a1", "a0", "+", "a1"), Get("a0", "a1"),
      Op("a0", "a0", "+", "a3"), Put("a1", "a0"),
      Label("ret"), Load("a0", 0), Ret>>

\* defect: set is taken to need as many registers as memmove
Reported_NoA4 == [memmove  |-> {"a0", "a1", "a2", "a3"},
                  multiply |-> {"a0", "a1", "a2"},
                  set      |-> {"a0", "a1", "a2", "a3"}]

\* report_destroyed_set, of each
Reported == [memmove  |-> {"a0", "a1", "a2", "a3"},
             multiply |-> {"a0", "a1", "a2"},
             set      |-> {"a0", "a1", "a2", "a3", "a4"}]

-------------------------------------------------------------------------------
Body == [memmove  |-> MemmoveStart \o MemmoveLoop,
         multiply |-> MulStart \o MulAdd \o MulHalve,
         set      |-> SetFind \o SetCompare \o SetStore]

\* registers with something in them that the functions have no use for
ArgRegs == <<"a0", "a1", "a2", "a3">>
Regs == {"x0", "sp", "ra", "t0", "t1", "t2", "s0", "a4"} \cup {"a0", "a1", "a2", "a3"}

VARIABLES call,     \* the call, one of Calls
          m,        \* the machine
          pc        \* the line to run, 0 when the call has returned

vars == <<call, m, pc>>

Before == [regs |-> [r \in Regs |->
                        CASE \E i \in DOMAIN call.args : ArgRegs[i] = r ->
                               call.args[CHOOSE i \in DOMAIN call.args : ArgRegs[i] = r]
                          [] r = "x0" -> 0
                          [] OTHER    -> 5],
           mem  |-> call.memory,
           ok   |-> TRUE]

Init == /\ call \in Calls
        /\ m = Before
        /\ pc = 1

Line == Body[call.fn][pc]

LineOf(l) == CHOOSE i \in DOMAIN Body[call.fn] :
                 Body[call.fn][i].kind = "label" /\ Body[call.fn][i].label = l

Next ==
    /\ pc # 0
    /\ m' = ExecAsmAll(m, Line.asm)
    /\ pc' = CASE Line.kind = "ret" -> 0
               [] Line.kind = "goto"
                  /\ Branches(BranchOf(Line.rel), m.regs[Line.r1], m.regs[Line.r2]) ->
                    LineOf(Line.label)
               [] OTHER -> pc + 1
    /\ UNCHANGED call

\* a processor goes on
Spec == Init /\ [][Next]_vars /\ WF_vars(Next)

-------------------------------------------------------------------------------
(* Properties.                                                             *)

Returned(fn) == pc = 0 /\ call.fn = fn
Result       == m.regs["a0"]
Memory       == DOMAIN call.memory

\* the call multiplies by a negative number
NegativeFactor == call.fn = "multiply" /\ call.args[2] < 0

TypeOK ==
    /\ m.ok
    /\ m.regs \in [Regs -> Word]
    /\ m.mem \in [Memory -> Word]
    /\ pc \in 0..Len(Body[call.fn])

\* A recognised function overwrites no registers but those its callers are told
\* of and the two that code generation uses between statements, wherever it is.
OnlyReported ==
    \A r \in Regs \ (Reported[call.fn] \cup {"t0", "t1"}) :
        m.regs[r] = Before.regs[r]

\* memmove, if it is asked for a word or more, has stored as many words from the
\* source on, in order, from the position on, and nothing else: a word it has
\* stored before it reads it is repeated.  Of a memmove of no words nothing is
\* said: its loop tests at the end, so it stores one.
MemmoveCopies ==
    Returned("memmove") /\ call.args[4] > 0 =>
        LET to   == call.args[1] + 4 * call.args[2]
            from == call.args[3]
            len  == call.args[4]
            gap  == to - from
            word(i) == IF gap > 0 THEN (4 * i) % gap ELSE 4 * i
        IN  /\ Result = len
            /\ \A addr \in Memory :
                 m.mem[addr] =
                     IF to <= addr /\ addr < to + 4 * len
                     THEN call.memory[from + word((addr - to) \div 4)]
                     ELSE call.memory[addr]

\* multiply has the product of a residue and a number that is not negative.
MultiplyIsProduct ==
    Returned("multiply") /\ 0 <= call.args[1] /\ call.args[1] < MulMod =>
        Result = (call.args[1] * call.args[2]) % MulMod

\* set has given the bit the value wanted, if that is one of a bit and the bit
\* is one of the set, has left alone all other bits, and answers 0.
SetSetsOneBit ==
    Returned("set") =>
        LET word == call.args[2] \div SetBits
            bit  == call.args[2] % SetBits
            bitOf(w, k) == (w \div 2^k) % 2
            want(addr, k) ==
                IF /\ addr = call.args[1] + 4 * word /\ k = bit
                   /\ word < SetBound /\ call.args[3] \in {0, 1}
                THEN call.args[3]
                ELSE bitOf(call.memory[addr], k)
        IN  /\ Result = 0
            /\ \A addr \in Memory : \A k \in 0..(WordBits - 1) :
                 bitOf(m.mem[addr], k) = want(addr, k)

\* The hand-written instructions copy words, multiply residues and set a bit, as
\* the names of the functions they are given to say, whatever else is in memory,
\* wherever the arrays overlap and at the ends of the set; memmove for at least
\* one word, multiply for a residue and a factor that is not negative.
ComputesWhatItIsNamed == MemmoveCopies /\ MultiplyIsProduct /\ SetSetsOneBit

\* A recognised function returns, except exactly when it multiplies by a negative
\* number: that is halved by an arithmetic shift, which ends at -1 and never at
\* zero, and so the loop of multiply goes on for ever.
Terminates ==
    /\ NegativeFactor \/ <>(pc = 0)
    /\ NegativeFactor => [](pc # 0)
===============================================================================
