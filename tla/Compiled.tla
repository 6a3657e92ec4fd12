------------------------------- MODULE Compiled -------------------------------
(***************************************************************************)
(* Programs whose functions have been allocated, one after the other, and  *)
(* the registers a call concerns: those a function overwrites itself       *)
(* (report_destroyed_set, back/ir_misc.cpp) and those its caller saves     *)
(* (IrCallVoid::gen_inst_common, back/gen_inst.cpp).                       *)
(***************************************************************************)
EXTENDS Places

CONSTANTS
    Programs,           \* sequences of allocated functions
    Builtins,           \* names of the functions of the runtime library
    BuiltinDestroys     \* what install_builtin_destroy_sets says of each

\* the calls that regalloc left in a function
Calls(f) == f.calls

Names(prog) == Builtins \cup {prog[i].name : i \in DOMAIN prog}

\* A function calls itself, the library and what was declared above it, each
\* with the arguments it takes; the sets of alive scalars solve the equations,
\* and registers were given out of those available.
ProgramOK(prog) ==
    /\ Len(prog) \in Nat
    /\ DOMAIN prog = 1..Len(prog)
    /\ \A i, j \in DOMAIN prog : prog[i].name = prog[j].name => i = j
    /\ \A i \in DOMAIN prog :
         /\ prog[i].name \notin Builtins
         /\ WellFormed(prog[i].func)
         /\ prog[i].func.params \in 0..MaxArgs
         /\ prog[i].calls = {s \in Reached(prog[i].func) : IsCall(prog[i].func.stmts[s])}
         /\ Pooled(prog[i]) \subseteq DOMAIN prog[i].vreg
         /\ \A x \in Pooled(prog[i]) : prog[i].vreg[x].pos = "reg" =>
                prog[i].vreg[x] \in {InReg(r) : r \in AvailRegs}
         /\ \A s \in Lines(prog[i].func) :
              /\ IsFiniteSet(prog[i].alive[s])
              /\ prog[i].alive[s] = AliveOf(prog[i].func, prog[i].alive, s)
         /\ \A s \in Calls(prog[i]) :
              LET stmt == prog[i].func.stmts[s]
              IN  /\ s \in Lines(prog[i].func)
                  /\ Len(stmt.args) \in 0..MaxArgs
                  /\ DOMAIN stmt.args = 1..Len(stmt.args)
                  /\ \/ stmt.fn \in Builtins
                     \/ \E j \in 1..i : /\ stmt.fn = prog[j].name
                                        /\ Len(stmt.args) = prog[j].func.params

ASSUME ProgramsAssumption ==
    /\ MaxArgs > 0
    /\ \A i \in DOMAIN ArgReg : ArgReg[i] \in BuiltinDestroys
    /\ \A prog \in Programs : ProgramOK(prog)

-------------------------------------------------------------------------------
(* The code generator's view of a call, IrCallVoid::gen_inst_common.       *)

\* scalars in a register that a call may overwrite, of those before it
Working(f, s, destroyed) ==
    {x \in f.alive[s] : \E r \in destroyed : f.vreg[x] = InReg(r)}

\* the register the result goes to, which needs no saving
RetReg(f, s) ==
    LET ret == f.func.stmts[s].dest
    IN  IF ret \in MeetOf(f.func, f.alive, s) \ Unpooled /\ f.vreg[ret].pos = "reg"
        THEN f.vreg[ret].reg ELSE NoReg

\* meet_regs: overwritten by the call and wanted after it
MeetRegs(f, s, destroyed) ==
    {r \in destroyed \ {RetReg(f, s)} :
        \E x \in MeetOf(f.func, f.alive, s) : f.vreg[x] = InReg(r)}

\* parameter p stands in a register that an earlier parameter overwrites
Collides(f, s, p) ==
    LET x == f.func.stmts[s].args[p]
    IN  x \notin Unpooled /\ \E q \in 0..(p - 2) : f.vreg[x] = InReg(ArgReg[q])

CollidingRegs(f, s) ==
    LET args == f.func.stmts[s].args
    IN  {f.vreg[args[p]].reg : p \in {q \in DOMAIN args : Collides(f, s, q)}}

SavedRegs(f, s, destroyed) == MeetRegs(f, s, destroyed) \cup CollidingRegs(f, s)

\* registers the function gives out, receives parameters and returns in
Direct(f) ==
    {r \in AvailRegs : \E x \in DOMAIN f.vreg : f.vreg[x] = InReg(r)}
    \cup {ArgReg[i] : i \in 0..(f.func.params - 1)}
    \cup (IF f.isvoid THEN {} ELSE {ArgReg[0]})
===============================================================================
