-------------------------------- MODULE OpSelect -------------------------------
(***************************************************************************)
(* The choice of instructions for an operator (IrOpBinary::gen_inst and    *)
(* IrOpUnary::gen_inst, back/gen_inst.cpp), some of whose operands are     *)
(* literals, and the evaluation of an operator by the compiler, when all   *)
(* of them are (front/ast_calc_const.cpp).  Where scalars are kept is the  *)
(* business of GenInst: here they are in registers.                        *)
(***************************************************************************)
EXTENDS CodegenAsm

CONSTANTS DestRegs      \* registers the result may have, those of operands too

\* && and || are operators for the compiler only: in code they are branches
LogicalOps == {"&&", "||"}
BinaryOps == {"+", "-", "*", "/", "%", "<", ">", "<=", ">=", "==", "!="} \cup LogicalOps
UnaryOps  == {"neg", "not", "pos"}

Lit(v) == [lit |-> TRUE,  val |-> v, reg |-> "x0"]
InReg(r, v) == [lit |-> FALSE, val |-> v, reg |-> r]

-------------------------------------------------------------------------------
(* In the compiler.                                                        *)

\* do_binary_op on ints of the compiler, which are as wide; a quotient that
\* overflows traps, the other overflows wrap
do_binary_op(op, x, y) ==
    CASE op = "+"  -> Wrap(x + y)
      [] op = "-"  -> Wrap(x - y)
      [] op = "*"  -> Wrap(x * y)
      [] op = "/"  -> Wrap(Quot(x, y))
      [] op = "%"  -> Remainder(x, y)
      [] op = "<"  -> Truth(x < y)
      [] op = ">"  -> Truth(x > y)
      [] op = "<=" -> Truth(x <= y)
      [] op = ">=" -> Truth(x >= y)
      [] op = "==" -> Truth(x = y)
      [] op = "!=" -> Truth(x # y)
      [] op = "&&" -> Truth(x # 0 /\ y # 0)
      [] op = "||" -> Truth(x # 0 \/ y # 0)

\* "divide by zero", "mod by zero"
IsError(op, y) == op \in {"/", "%"} /\ y = 0

Traps(op, x, y) == op \in {"/", "%"} /\ x = -Half /\ y = -1

do_unary_op(op, x) ==
    CASE op = "pos" -> x
      [] op = "neg" -> Wrap(-x)
      [] op = "not" -> Truth(x = 0)

-------------------------------------------------------------------------------
(* Code generation.                                                        *)

\* fn_rload
Load(v, tmp) ==
    IF v.lit
    THEN IF v.val = 0 THEN [asm |-> <<>>, reg |-> "x0"]
         ELSE [asm |-> LoadImmAsm(tmp, v.val), reg |-> tmp]
    ELSE [asm |-> <<>>, reg |-> v.reg]

\* defect: counted from one
SmallExponents_OffByOne(v) == {i \in 1..(WordBits - 1) : v = 2^(i - 1)}

\* exponents for which is_small_pow2 answers yes; the sign bit is left out
SmallExponents(v) == {i \in 0..(WordBits - 2) : v = 2^i}

\* defect: a literal dividend is moved behind the operator as well
GenOpBinary_SwapAll(dest, op, a, b) ==
    LET x  == IF a.lit THEN b ELSE a
        y  == IF a.lit THEN a ELSE b
        l1 == Load(x, "t0")
        l2 == Load(y, "t1")
    IN  l1.asm \o l2.asm \o OpBinaryAsm(dest, l1.reg, op, l2.reg)

GenOpBinary(dest, op, a, b) ==
    LET swapped == op \in {"+", "*"} /\ a.lit
        op1     == IF swapped THEN b ELSE a
        by      == IF swapped THEN a ELSE b
        minus   == op = "-" /\ by.lit
        op_     == IF minus THEN "+" ELSE op
        op2     == IF minus THEN Lit(Wrap(-by.val)) ELSE by
        l1      == Load(op1, "t0")
        l2      == Load(op2, "t1")
        small   == op2.lit /\ ~ imm_overflows(op2.val)
        shifts  == IF small THEN SmallExponents(op2.val) ELSE {}
    IN  l1.asm \o
        CASE op_ = "+" /\ small        -> AddIAsm(dest, l1.reg, op2.val)
          [] op_ = "*" /\ shifts # {}  ->
               LeftShiftIAsm(dest, l1.reg, CHOOSE i \in shifts : TRUE)
          [] op_ = "/" /\ shifts # {}  ->
               LeftShiftIAsm(dest, l1.reg, -(CHOOSE i \in shifts : TRUE))
          [] OTHER -> l2.asm \o OpBinaryAsm(dest, l1.reg, op_, l2.reg)

GenOpUnary(dest, op, a) ==
    LET l == Load(a, "t1")
    IN  l.asm \o CASE op = "pos" -> MovAsm(dest, l.reg)
                   [] op = "neg" -> OpUnaryAsm(dest, "-", l.reg)
                   [] op = "not" -> OpUnaryAsm(dest, "!", l.reg)

-------------------------------------------------------------------------------
(* An expression with one operator on its way to a value.                  *)

VARIABLES
    phase,      \* "source", "folded", "emitted", "run" or "trap"
    op,
    a, b,       \* operands
    dest,       \* register of the result
    asm,        \* the instructions
    result

vars == <<phase, op, a, b, dest, asm, result>>

Init ==
    /\ phase = "source"
    /\ op \in BinaryOps \cup UnaryOps
    /\ \E x \in Word : a \in {Lit(x)} \cup IF op \in LogicalOps THEN {} ELSE {InReg("s0", x)}
    /\ \E y \in Word :
         b \in CASE op \in UnaryOps   -> {a}
                [] op \in LogicalOps -> {Lit(y)}
                [] OTHER             -> {Lit(y), InReg("s1", y)}
    /\ dest \in DestRegs
    /\ asm = <<>>
    /\ result = 0

\* AstExpOpBinary::calc_const and AstExpOpUnary::calc_const
Foldable == a.lit /\ b.lit /\ (op \in BinaryOps => ~ IsError(op, b.val))

Fold ==
    /\ phase = "source"
    /\ Foldable
    /\ IF op \in BinaryOps /\ Traps(op, a.val, b.val)
       THEN phase' = "trap" /\ UNCHANGED result
       ELSE /\ phase' = "folded"
            /\ result' = IF op \in BinaryOps
                         THEN do_binary_op(op, a.val, b.val)
                         ELSE do_unary_op(op, a.val)
    /\ UNCHANGED <<op, a, b, dest, asm>>

Emit ==
    /\ phase = "source"
    /\ ~ Foldable
    /\ phase' = "emitted"
    /\ asm' = IF op \in BinaryOps THEN GenOpBinary(dest, op, a, b)
              ELSE GenOpUnary(dest, op, a)
    /\ UNCHANGED <<op, a, b, dest, result>>

\* the machine, its scalars where the program has them
Before == [regs |-> [r \in DestRegs \cup {"x0", "t0", "t1", "s0", "s1"} |->
                        CASE r = a.reg /\ ~ a.lit -> a.val
                          [] r = b.reg /\ ~ b.lit -> b.val
                          [] OTHER -> 0],
           mem  |-> <<>>,
           ok   |-> TRUE]

Run ==
    /\ phase = "emitted"
    /\ LET after == ExecAsmAll(Before, asm)
       IN  /\ phase' = IF after.ok THEN "run" ELSE "trap"
           /\ result' = after.regs[dest]
    /\ UNCHANGED <<op, a, b, dest, asm>>

Next == Fold \/ Emit \/ Run

Spec == Init /\ [][Next]_vars

-------------------------------------------------------------------------------
(* Properties.                                                             *)

Done == phase \in {"folded", "run"}

\* what C says of the operator, as a set of values; overflows wrap, as they do
\* on the machine, and a quotient by zero is any word.  Quotient q and remainder
\* r are the numbers with q * y + r = x of which r is smaller than y and has the
\* sign of x.
Meaning ==
    LET x == a.val
        y == b.val
        Magnitude(z)   == IF z < 0 THEN -z ELSE z
        IsQuotient(q)  == LET r == x - q * y
                          IN  Magnitude(r) < Magnitude(y) /\ r * x >= 0
        quotients      == {q \in -Half..Half : IsQuotient(q)}
        yes(holds)     == IF holds THEN {1} ELSE {0}
    IN  CASE op = "+" -> {Wrap(x + y)}
          [] op = "-" -> {Wrap(x - y)}
          [] op = "*" -> {Wrap(x * y)}
          [] op \in {"/", "%"} /\ y = 0 -> Word
          [] op = "/" /\ y # 0 -> {Wrap(q) : q \in quotients}
          [] op = "%" /\ y # 0 -> {x - q * y : q \in quotients}
          [] op = "<"   -> yes(x < y)
          [] op = ">"   -> yes(x > y)
          [] op = "<="  -> yes(x <= y)
          [] op = ">="  -> yes(x >= y)
          [] op = "=="  -> yes(x = y)
          [] op = "!="  -> yes(x # y)
          [] op = "&&"  -> yes(0 \notin {x, y})
          [] op = "||"  -> yes({x, y} # {0})
          [] op = "neg" -> {Wrap(-x)}
          [] op = "not" -> yes(x = 0)
          [] op = "pos" -> {x}

\* a division that the shift does
Shifted == op = "/" /\ b.lit /\ ~ a.lit /\ ~ imm_overflows(b.val)
           /\ SmallExponents(b.val) # {}

\* Whatever was rewritten, swapped, negated, shifted or evaluated in the
\* compiler, and whichever register the result has, an operator computes what C
\* says, overflows included; but for the quotient of a negative number by a shift.
\* No immediate fails to be encoded: only the compiler's own division traps.
ComputesOperator ==
    /\ Done /\ ~ (Shifted /\ a.val < 0) => result \in Meaning
    /\ phase = "trap" => op \in {"/", "%"} /\ a.lit /\ b.lit

\* That quotient is rounded down where C rounds toward zero: it is one less
\* exactly when there is a remainder.
DivisionRoundsDown ==
    Done /\ Shifted /\ a.val < 0 =>
        result = Quot(a.val, b.val) - Truth(Remainder(a.val, b.val) # 0)
===============================================================================
