------------------------------- MODULE Execution ------------------------------
(***************************************************************************)
(* A program is compiled - its destroy sets are reported, DestroySet - and *)
(* then the instructions generated for it (GenInst) are run.  Registers    *)
(* are shared by all calls in progress, each of which has a frame of       *)
(* words: its local array, then what is spilled and saved.  The            *)
(* instructions of a statement are one step: the machine has one thread.   *)
(***************************************************************************)
EXTENDS DestroySet, GenInst

\* What allocation promises, and that nothing but arguments is alive where a
\* function starts: the program reads no variable it has not set.
ASSUME PlacesAssumption ==
    \A pr \in Programs : \A i \in DOMAIN pr :
        /\ Placed(pr[i], pr[i].vreg, pr[i].spillsize)
        /\ pr[i].alive[1] \subseteq {Arg(k) : k \in 0..(pr[i].func.params - 1)}
        /\ pr[i].arraysize \in 0..(ArraySpan - 1)
        /\ pr[i].spillsize \in Nat

\* main is there, and nothing calls it, which would initialise the global array
\* again
ASSUME MainAssumption ==
    \A pr \in Programs :
        /\ Len(pr) > 0
        /\ pr[Len(pr)].func.params = 0
        /\ ~ pr[Len(pr)].isvoid
        /\ \A i \in DOMAIN pr : \A s \in Calls(pr[i]) :
             pr[i].func.stmts[s].fn # pr[Len(pr)].name

\* Statements have the operands of their classes, functions return what their
\* callers expect, and only what occurs in a function is alive there.
ASSUME StatementsAssumption ==
    \A pr \in Programs : \A i \in DOMAIN pr :
         LET f == pr[i]
         IN  /\ f.isvoid \in BOOLEAN
             /\ \A s \in Lines(f.func) :
                  /\ StatementOK(f.func.stmts[s])
                  /\ f.func.stmts[s].op = "return" => ~ f.isvoid
                  /\ f.func.stmts[s].op = "returnvoid" => f.isvoid
                  /\ f.alive[s] \subseteq Vars(f.func)
             /\ \A s \in Calls(f) : f.func.stmts[s].dest # NoVar =>
                  \A j \in DOMAIN pr : f.func.stmts[s].fn = pr[j].name => ~ pr[j].isvoid

VARIABLES status,       \* "ready", "running" or "exited"
          regs,         \* registers
          stack,        \* frames of the calls in progress, [fi, pc, words, meet]
          glob,         \* the global scalar
          garr,         \* the global array
          out           \* the last call of a library function

xvars == <<status, regs, stack, glob, garr, out>>

compilevars == vars

ExecInit ==
    /\ Init
    /\ status = "ready"
    /\ regs = [r \in Regs |-> IF r = NoReg THEN 0 ELSE Junk]
    /\ stack = <<>>
    /\ glob = 0
    /\ garr = [i \in DOMAIN GlobInit |-> 0]
    /\ out = <<>>

Compile == (Begin \/ Look \/ End) /\ UNCHANGED xvars

-------------------------------------------------------------------------------
Top   == stack[Len(stack)]
Here  == prog[Top.fi]
Stmt_ == Here.func.stmts[Top.pc]

\* the machine with the calls fs in progress
Machine(fs) == [regs |-> regs, frames |-> <<>> \o [k \in DOMAIN fs |-> fs[k].words],
                glob |-> glob, garr |-> garr]

\* InstFuncDef's stacksize, spillsize + callersavesize
Frame(i) ==
    [fi |-> i, pc |-> 1, meet |-> <<>>,
     words |-> [n \in 0..(prog[i].spillsize + callersave[i] - 1) |-> Junk]]

\* the calls fs are in progress and the machine is m
Settle(fs, m) ==
    /\ stack' = [k \in DOMAIN fs |-> [fs[k] EXCEPT !.words = m.frames[k]]]
    /\ regs' = m.regs
    /\ glob' = m.glob
    /\ garr' = m.garr

\* go on in line n of the last of the calls fs, the machine being m
GoOn(fs, n, m) ==
    LET last == fs[Len(fs)]
    IN  Settle([fs EXCEPT ![Len(fs)] = [last EXCEPT !.pc = n, !.meet = <<>>]], m)

\* the runtime enters main
Start ==
    /\ Done
    /\ status = "ready"
    /\ status' = "running"
    /\ LET main == <<Frame(Len(prog))>>
       IN  Settle(main, ExecuteAll(Machine(main), GenGlobalInit))
    /\ UNCHANGED out

Compute ==
    /\ Stmt_.op \in {"opbinary", "opunary", "mov", "arrayget", "arrayset",
                     "fillzero", "param", "label"}
    /\ GoOn(stack, Top.pc + 1,
            ExecuteAll(Machine(stack), GenStmtInst(Here, Top.pc)))
    /\ UNCHANGED <<status, out>>

Jump ==
    /\ Stmt_.op \in {"goto", "condgoto"}
    /\ LET cond  == GenCondGoto(Here, Stmt_)
           m     == IF Stmt_.op = "goto" THEN Machine(stack)
                    ELSE ExecuteAll(Machine(stack), cond.insts)
           jumps == Stmt_.op = "goto"
                    \/ m.regs[cond.regs[1]] = m.regs[cond.regs[2]]
       IN  \E n \in Lines(Here.func) :
             /\ IF jumps THEN n \in LabelLines(Here.func, Stmt_.label)
                         ELSE n = Top.pc + 1
             /\ GoOn(stack, n, m)
    /\ UNCHANGED <<status, out>>

\* meet_regs, walked in any order: they were in an unordered_set
MeetOrders == SetToSeqs(MeetRegs(Here, Top.pc, destroyed[Stmt_.fn]))

Call ==
    /\ IsCall(Stmt_)
    /\ \E j \in DOMAIN prog : \E meet \in MeetOrders :
         /\ prog[j].name = Stmt_.fn
         /\ LET m == ExecuteAll(Machine(stack),
                                GenBeforeCall(Here, Top.pc, meet))
                caller == [stack EXCEPT ![Len(stack)].meet = meet]
            IN  Settle(Append(caller, Frame(j)),
                       [m EXCEPT !.frames = Append(@, Frame(j).words)])
    /\ UNCHANGED <<status, out>>

\* a library function leaves nothing in the registers it may overwrite but
\* its result
CallLibrary ==
    /\ IsCall(Stmt_)
    /\ Stmt_.fn \in Builtins
    /\ \E v \in Val : \E meet \in MeetOrders :
         LET m1 == ExecuteAll(Machine(stack),
                              GenBeforeCall(Here, Top.pc, meet))
             m2 == [m1 EXCEPT !.regs =
                       [r \in Regs |-> CASE r = ArgReg[0] -> v
                                         [] r \in BuiltinDestroys \ {ArgReg[0]} -> Junk
                                         [] OTHER -> @[r]]]
             m3 == ExecuteAll(m2, GenAfterCall(Here, Top.pc, meet))
         IN  /\ out' = <<Stmt_.fn, [p \in DOMAIN Stmt_.args |->
                                       m1.regs[ArgReg[p - 1]]]>>
             /\ GoOn(stack, Top.pc + 1, m3)
    /\ UNCHANGED status

Return ==
    /\ Stmt_.op \in {"return", "returnvoid"}
    /\ LET m1   == ExecuteAll(Machine(stack), GenStmtInst(Here, Top.pc))
           left == [m1 EXCEPT !.frames = Front(@)]
           rest == Front(stack)
           last == rest[Len(rest)]
       IN  IF rest = <<>>
           THEN /\ Settle(rest, left)
                /\ status' = "exited"
                /\ out' = <<"exit", <<m1.regs[ArgReg[0]]>>>>
           ELSE /\ GoOn(rest, last.pc + 1,
                        ExecuteAll(left,
                            GenAfterCall(prog[last.fi], last.pc, last.meet)))
                /\ UNCHANGED <<status, out>>

Run == Compute \/ Jump \/ Call \/ CallLibrary \/ Return

Exited == status = "exited" /\ UNCHANGED <<vars, xvars>>

ExecNext == \/ Compile
            \/ Start /\ UNCHANGED compilevars
            \/ status = "running" /\ Run /\ UNCHANGED compilevars
            \/ Exited

ExecSpec == ExecInit /\ [][ExecNext]_<<vars, xvars>>

-------------------------------------------------------------------------------
(* Properties.                                                             *)

\* The machine stays a machine: x0 is zero, the global holds values only,
\* and every call in progress has the frame its function was compiled with.
ExecTypeOK ==
    /\ TypeOK
    /\ status \in {"ready", "running", "exited"}
    /\ regs \in [Regs -> Nat]
    /\ regs[NoReg] = 0
    /\ glob \in Val
    /\ garr \in [DOMAIN GlobInit -> Val]
    /\ \A k \in DOMAIN stack :
         LET f == prog[stack[k].fi]
         IN  /\ stack[k].fi \in DOMAIN prog
             /\ stack[k].pc \in Lines(f.func)
             /\ DOMAIN stack[k].words
                    = 0..(f.spillsize + callersave[stack[k].fi] - 1)
             /\ Len(stack[k].meet) <= callersave[stack[k].fi]

\* Where the value of a scalar is while its call is the k-th in progress: in
\* its slot, in a register that nothing called since overwrites, or saved.
Holds(k, x) ==
    LET f     == prog[stack[k].fi]
        place == f.vreg[x]
    IN  CASE place.pos = "stack" -> stack[k].words[place.slot]
          [] place.pos = "reg" /\ Contains(stack[k].meet, place.reg) ->
               stack[k].words[f.spillsize + IndexOf(stack[k].meet, place.reg) - 1]
          [] OTHER -> regs[place.reg]

Env(k) ==
    LET f == prog[stack[k].fi]
        s == stack[k].pc
    IN  [x \in IF k = Len(stack) THEN f.alive[s]
               ELSE MeetOf(f.func, f.alive, s) \ Defs(f.func.stmts[s])
            |-> Holds(k, x)]

SourceFrames ==
    [k \in 1..Len(stack) |->
        [fi |-> stack[k].fi, pc |-> stack[k].pc, env |-> Env(k),
         arr |-> [i \in 0..(prog[stack[k].fi].arraysize - 1) |->
                     stack[k].words[i]]]]

SourceArray == IF status = "ready" THEN GlobInit ELSE garr

\* Registers, frames, save areas and parameter passing are invisible: the
\* machine does what the program means, whatever places were given, in
\* whatever order registers are saved, and through recursion.
Meaning == INSTANCE IrExec WITH
    frames <- SourceFrames,
    garr   <- SourceArray

ImplementsMeaning == Meaning!Spec

\* the words of the arrays that there are at the moment
ArrayWords ==
    {Ptr(0, i) : i \in DOMAIN GlobInit}
    \cup UNION {{Ptr(k, i) : i \in 0..(prog[stack[k].fi].arraysize - 1)} : k \in DOMAIN stack}

\* What the language leaves undefined does not happen: arrays are accessed
\* within their bounds, and what is stored or returned was computed from what
\* had been set.
Defined ==
    status = "running" =>
        /\ Stmt_.op \in {"arrayget", "arrayset"} =>
             Meaning!Value(Stmt_.args[1]) + Stmt_.label \in ArrayWords
        /\ Stmt_.op = "arrayset" => Meaning!Value(Stmt_.args[2]) \in Val
        /\ Stmt_.dest = Glob \/ Stmt_.op = "return" => Meaning!Result \in Val
===============================================================================
