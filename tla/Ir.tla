---------------------------------- MODULE Ir ----------------------------------
(***************************************************************************)
(* The intermediate representation the back end works on: one function is  *)
(* a sequence of statements (back/ir.hpp).  Of a statement the model keeps *)
(* its class, the scalar it writes, the operands it reads, the label it    *)
(* names (or the offset into an array), and the function it calls (or the  *)
(* operator where it matters).                                             *)
(*                                                                         *)
(* A scalar that the register allocator handles (RVal::regpooled: a        *)
(* temporary, an argument or a local scalar) is its integer reguid.  Of    *)
(* the operands it does not handle, Glob is a global scalar, LocArr a      *)
(* local and GlobArr a global array, and NoVar a literal.  Offsets are     *)
(* counted in words.                                                       *)
(***************************************************************************)
EXTENDS Integers, Sequences

CONSTANTS NoVar, Glob, LocArr, GlobArr  \* operands that are not register pooled

Arrays   == {LocArr, GlobArr}
Unpooled == {NoVar, Glob} \cup Arrays

REGUID_ARG_OFFSET == 10000

\* reguid(): temporaries are negative, arguments start at the offset, and a
\* local is its index.
Tempvar(t) == -t - 1
Arg(i)     == REGUID_ARG_OFFSET + i
IsArg(v)   == v >= REGUID_ARG_OFFSET

-------------------------------------------------------------------------------
(* Statements, one constructor per class.                                  *)

Stmt(op, dest, args, label, fn) ==
    [op |-> op, dest |-> dest, args |-> args, label |-> label, fn |-> fn]

IrOpBinary(dest, a, b)  == Stmt("opbinary", dest,  <<a, b>>,      0, "")
IrOpUnary(dest, a)      == Stmt("opunary",  dest,  <<a>>,         0, "")
IrMov(dest, src)        == Stmt("mov",      dest,  <<src>>,       0, "")
\* the array is an operand: storing through a pointer does not redefine it
IrArraySet(arr, off, src)  == Stmt("arrayset", NoVar, <<arr, src>>, off, "")
IrArrayGet(dest, arr, off) == Stmt("arrayget", dest,  <<arr>>,      off, "")
IrCondGoto(a, b, label) == Stmt("condgoto", NoVar, <<a, b>>,  label, "")
IrGoto(label)           == Stmt("goto",     NoVar, <<>>,      label, "")
IrLabel(label)          == Stmt("label",    NoVar, <<>>,      label, "")
IrParam(pidx, v)        == Stmt("param",    NoVar, <<v>>,      pidx, "")
IrCallVoid(fn, params)  == Stmt("callvoid", NoVar, params,        0, fn)
IrCall(ret, fn, params) == Stmt("call",     ret,   params,        0, fn)
IrReturnVoid            == Stmt("returnvoid", NoVar, <<>>,        0, "")
IrReturn(v)             == Stmt("return",   NoVar, <<v>>,         0, "")
IrLocalArrayFillZero(a) == Stmt("fillzero", NoVar, <<a>>,         0, "")

\* with the operator or relation, where it matters
Using(o, stmt) == [stmt EXCEPT !.fn = o]

\* the number of operands of each class, calls have any
Arity ==
    [opbinary |-> 2, opunary |-> 1, mov |-> 1, arrayset |-> 2, arrayget |-> 1,
     fillzero |-> 1, param |-> 1, label |-> 0, goto |-> 0, condgoto |-> 2,
     return |-> 1, returnvoid |-> 0]

IsCall(stmt) == stmt.op \in {"call", "callvoid"}

\* defs(): what a statement writes
Defs(stmt) == {stmt.dest} \ Unpooled

\* uses(): what it reads; a parameter is read by its call, not where it stands
Uses(stmt) ==
    IF stmt.op = "param"
    THEN {}
    ELSE {stmt.args[i] : i \in DOMAIN stmt.args} \ Unpooled

\* LVal and RVal as the constructors take them
StatementOK(stmt) ==
    LET operand == Int \cup {NoVar, Glob}
    IN  /\ IsCall(stmt) \/ /\ stmt.op \in DOMAIN Arity
                           /\ DOMAIN stmt.args = 1..Arity[stmt.op]
        /\ stmt.dest \in CASE stmt.op \in {"opbinary", "opunary", "mov", "arrayget"} ->
                                Int \cup {Glob}
                           [] stmt.op = "call" -> Int \cup {Glob, NoVar}
                           [] OTHER -> {NoVar}
        /\ \A i \in DOMAIN stmt.args :
             stmt.args[i] \in
                CASE stmt.op = "opbinary" /\ i = 1 -> operand \cup Arrays
                  [] stmt.op \in {"arrayset", "arrayget"} /\ i = 1 -> Int \cup Arrays
                  [] stmt.op = "fillzero" -> {LocArr}
                  [] OTHER -> operand
        /\ stmt.op \in {"arrayset", "arrayget"} => stmt.label \in Nat

-------------------------------------------------------------------------------
(* The control-flow graph of a function [params, stmts].                   *)

Lines(func) == DOMAIN func.stmts

\* func->labels: the statement a label stands for
LabelLines(func, label) ==
    {i \in Lines(func) : /\ func.stmts[i].op = "label"
                         /\ func.stmts[i].label = label}

\* cfg_calc_next of each class, with the textually next line as nextline
CfgNext(func, i) ==
    LET stmt == func.stmts[i]
        jump == IF stmt.op \in {"goto", "condgoto"}
                THEN LabelLines(func, stmt.label) ELSE {}
        fall == IF stmt.op \in {"goto", "return", "returnvoid"}
                THEN {} ELSE {i + 1}
    IN  jump \cup fall

\* defect: jumps leave no edge behind
CfgPrev_FallOnly(func, i) ==
    {j \in Lines(func) : j + 1 = i /\ i \in CfgNext(func, j)}

\* prev, filled by connect_all_cfg from every statement's next
CfgPrev(func, i) == {j \in Lines(func) : i \in CfgNext(func, j)}

Vars(func) ==
    UNION {Defs(func.stmts[i]) \cup Uses(func.stmts[i]) : i \in Lines(func)}

\* What AstFuncDef::gen_ir hands over: at least the closing return, so that no
\* statement falls off the end, and every label that is jumped to in place.
WellFormed(func) ==
    /\ Len(func.stmts) \in Nat \ {0}
    /\ Lines(func) = 1..Len(func.stmts)
    /\ \A i \in Lines(func) : CfgNext(func, i) \subseteq Lines(func)
    /\ \A i \in Lines(func) : func.stmts[i].op \in {"goto", "condgoto"} =>
          LabelLines(func, func.stmts[i].label) # {}
===============================================================================
