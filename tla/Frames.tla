--------------------------------- MODULE Frames --------------------------------
(***************************************************************************)
(* Calls, returns and the words of the frames, on the machine the assembly *)
(* runs on (back/codegen_asm.cpp).  Functions execute the instructions     *)
(* that concern the stack in any order; which of them a program executes   *)
(* is not this module's concern.  The machine is shown to be the one that  *)
(* the rest of the back end reckons with, FrameMachine.                    *)
(***************************************************************************)
EXTENDS CodegenAsm

CONSTANTS
    Funcs,          \* name -> [stacksize, isleaf]
    MaxDepth,       \* bound on the calls in progress
    StackTop,       \* sp when the program starts
    DataRegs,       \* registers that data is moved through
    PtrReg,         \* the register that addresses are computed in
    CalleeSaved,    \* registers that a library function leaves as they were
    CallSite        \* caller -> the address its calls return to; one for each

Regs == DataRegs \cup {PtrReg, "x0", "sp", "ra", "t0", "t1"}

\* the values that programs move about; an address that an instruction left in
\* a scratch register is not one
Data == {0, 1}

FramesAssumption ==
    /\ StackTop \in Word /\ StackTop % 16 = 0
    /\ MaxDepth \in Nat \ {0}
    /\ \A f \in DOMAIN Funcs :
         /\ Funcs[f].stacksize \in Nat
         /\ Funcs[f].isleaf \in BOOLEAN
         /\ MaxDepth * STK(Funcs[f].stacksize) < StackTop    \* the stack suffices
    /\ "main" \in DOMAIN Funcs
    /\ CallSite \in [DOMAIN Funcs \cup {"runtime"} -> Word]
    /\ (DataRegs \cup {PtrReg}) \cap {"x0", "sp", "ra"} = {}
    /\ PtrReg \notin DataRegs \cup {"t0", "t1"}
    /\ ImmLimit >= 4                           \* enough to save ra

ASSUME FramesAssumption

VARIABLES m,        \* the machine [regs, mem, ok]
          calls,    \* calls in progress, [fn, sp, ret]
          at        \* where control arrived last; 0 is the entry of a function

vars == <<m, calls, at>>

Memory == {4 * k : k \in 0..(StackTop \div 4 - 1)}

\* one of the data registers holds something that can be told from the rest
Init ==
    /\ \E r \in DataRegs :
         m = [regs |-> [[q \in Regs |-> 0] EXCEPT !["sp"] = StackTop, ![r] = 1],
              mem  |-> [a \in Memory |-> 0],
              ok   |-> TRUE]
    /\ calls = <<>>
    /\ at = 0

-------------------------------------------------------------------------------
Top  == calls[Len(calls)]
Func == Funcs[Top.fn]

Words(k) == 0..(Funcs[calls[k].fn].stacksize - 1)

\* bound: the words that are accessed, the first and the last of a frame
Ends(k) == {0, Funcs[calls[k].fn].stacksize - 1} \cap Words(k)

\* the address of word i of the k-th frame
AddrOf(k, i) == calls[k].sp + 4 * i

Run(asm) == m' = ExecAsmAll(m, asm)

Indices == UNION {Words(k) : k \in DOMAIN calls}

StoreStack ==
    /\ \E i \in Ends(Len(calls)), r \in DataRegs :
         m.regs[r] \in Data /\ Run(StoreStackAsm(i, r))
    /\ UNCHANGED <<calls, at>>

LoadStack ==
    /\ \E i \in Ends(Len(calls)), r \in DataRegs \cup {PtrReg} :
         Run(LoadStackAsm(r, i))
    /\ UNCHANGED <<calls, at>>

LoadAddrStack ==
    /\ \E i \in Ends(Len(calls)) : Run(LoadAddrStackAsm(PtrReg, i))
    /\ UNCHANGED <<calls, at>>

\* a pointer and an offset, in words, within one frame
PointsAt(off) ==
    \E k \in DOMAIN calls : \E i \in Ends(k) :
        i + off \in Ends(k) /\ m.regs[PtrReg] = AddrOf(k, i)

ArraySet ==
    /\ \E off \in Indices, r \in DataRegs :
         /\ PointsAt(off) /\ m.regs[r] \in Data
         /\ ArraySetOK(4 * off)
         /\ Run(ArraySetAsm(PtrReg, 4 * off, r))
    /\ UNCHANGED <<calls, at>>

ArrayGet ==
    /\ \E off \in Indices, r \in DataRegs :
         /\ PointsAt(off)
         /\ ArrayGetOK(PtrReg)
         /\ Run(ArrayGetAsm(r, PtrReg, 4 * off))
    /\ UNCHANGED <<calls, at>>

\* the runtime calls main, functions that are not leaves call any function
Call ==
    /\ Len(calls) < MaxDepth
    /\ calls # <<>> => ~ Func.isleaf
    /\ \E f \in DOMAIN Funcs :
         LET ret  == CallSite[IF calls = <<>> THEN "runtime" ELSE Top.fn]
             jump == SetReg(m, "ra", ret)
             m1   == ExecAsmAll(jump, FuncDefAsm(Funcs[f]))
         IN  /\ (calls = <<>>) = (f = "main")
             /\ m' = m1
             /\ calls' = Append(calls, [fn |-> f, sp |-> m1.regs["sp"], ret |-> ret])
    /\ at' = 0

\* what is below sp belongs to nobody and may be overwritten, here with 0
Forget(mem, sp) == [a \in Memory |-> IF a < sp THEN 0 ELSE mem[a]]

CallLibrary ==
    /\ ~ Func.isleaf
    /\ m' = [m EXCEPT
         !.regs = [r \in Regs |->
                      IF r \in CalleeSaved \cup {"x0", "sp"} THEN @[r] ELSE 0],
         !.mem = Forget(@, m.regs["sp"])]
    /\ UNCHANGED <<calls, at>>

\* no pointer outlives what it points to
Return ==
    /\ m.regs[PtrReg] \notin {AddrOf(Len(calls), i) : i \in Words(Len(calls))}
    /\ LET m1 == ExecAsmAll(m, RetAsm(Func))
       IN  /\ m' = [m1 EXCEPT !.mem = Forget(@, m1.regs["sp"])]
           /\ at' = m1.regs["ra"]
    /\ calls' = Front(calls)

Next ==
    \/ Call
    \/ /\ calls # <<>>
       /\ \/ StoreStack \/ LoadStack \/ LoadAddrStack \/ ArraySet \/ ArrayGet
          \/ CallLibrary
          \/ Return

Spec == Init /\ [][Next]_vars

-------------------------------------------------------------------------------
(* Properties.                                                             *)

\* The machine has never been stopped: every immediate could be encoded and
\* every access was to a word of memory.  sp is a multiple of sixteen, as the
\* calling convention wants it, and where the running function's entry put it.
TypeOK ==
    /\ m.ok
    /\ m.regs \in [Regs -> Word]
    /\ m.regs["x0"] = 0
    /\ m.mem \in [Memory -> Word]
    /\ m.regs["sp"] % 16 = 0
    /\ m.regs["sp"] = IF calls = <<>> THEN StackTop ELSE Top.sp

\* the value of a word: a pointer, if it is the address of a word of a frame
Denote(x) ==
    LET slots == {s \in (1..Len(calls)) \X Indices :
                     s[2] \in Words(s[1]) /\ AddrOf(s[1], s[2]) = x}
    IN  IF x \in Data \/ slots = {} THEN x
        ELSE LET s == CHOOSE s \in slots : TRUE
             IN  1000 + 100 * s[1] + s[2]

Registers == [r \in DataRegs \cup {PtrReg, "t0", "t1"} |-> Denote(m.regs[r])]

Stack ==
    [k \in 1..Len(calls) |->
        [ret   |-> calls[k].ret,
         words |-> [i \in Words(k) |-> Denote(m.mem[AddrOf(k, i)])]]]

LargestFrame ==
    CHOOSE n \in {Funcs[f].stacksize : f \in DOMAIN Funcs} :
        \A f \in DOMAIN Funcs : Funcs[f].stacksize <= n

\* The stack pointer, the layout of frames, the scratch registers and the
\* limits of immediates are invisible: the machine has the frames, each its
\* own, that code generation reckons with, and calls return where they came
\* from.
Frame == INSTANCE FrameMachine WITH
    Scratch <- {"t0", "t1"},
    CodeAddrs <- {CallSite[f] : f \in DOMAIN CallSite},
    MaxFrame <- LargestFrame,
    regs <- Registers,
    frames <- Stack

ImplementsFrames == Frame!Spec
===============================================================================
