--------------------------------- MODULE Values --------------------------------
(***************************************************************************)
(* The values a program moves about, as the statements (IrExec) and the    *)
(* instructions (GenInst) see them: small integers, pointers into arrays,  *)
(* and what is neither.                                                    *)
(*                                                                         *)
(* One binary and one unary operator and one comparison stand for all; the *)
(* operator is asymmetric, so that operands that are swapped, stale or     *)
(* lost give another value.  On a pointer it is the addition.              *)
(***************************************************************************)
EXTENDS Integers

CONSTANTS
    Modulus,        \* values are the integers below it
    Literal,        \* the value of every literal
    ArraySpan       \* more words than an array has

ASSUME ValuesAssumption ==
    /\ Modulus \in Nat \ {0}
    /\ Literal \in 0..(Modulus - 1)
    /\ ArraySpan \in Nat \ {0}

Val == 0..(Modulus - 1)

\* what is not a value of the program: an address, something left behind
Address == Modulus
Junk    == Modulus + 1

\* word i of the local array of the k-th call in progress, or of the global
\* array if k is 0
Ptr(k, i)    == Junk + 1 + k * ArraySpan + i
IsPtr(v)     == v >= Ptr(0, 0)
PtrArray(p)  == (p - Ptr(0, 0)) \div ArraySpan
PtrOffset(p) == (p - Ptr(0, 0)) % ArraySpan

BinaryOp(v, w) == IF IsPtr(v) \/ IsPtr(w) THEN v + w ELSE (2 * v + w + 1) % Modulus
UnaryOp(v)     == (v + Modulus - 1) % Modulus
===============================================================================
