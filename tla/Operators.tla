-------------------------------- MODULE Operators -----------------------------
(***************************************************************************)
(* What operators and relations (front/enum_defs.hpp) compute, on the      *)
(* integers below Modulus; literals; and pointers into the one array of a  *)
(* function, which has Modulus words so that every value is an index.      *)
(***************************************************************************)
EXTENDS Ir

CONSTANTS
    Modulus,        \* values are the integers below it
    Zero, One,      \* the literals 0 and 1
    Far,            \* the literal FarOffset
    FarOffset       \* the first offset, in words, that is no immediate

ASSUME OperatorsAssumption == Modulus > 1 /\ FarOffset \in 1..(Modulus - 1)

Val      == 0..(Modulus - 1)
Literals == {Zero, One, Far}

Rels == {"<", ">", "<=", ">=", "==", "!="}

\* defect: the other end of the order
RelInvert_Mirrored(rel) ==
    CASE rel = "<"  -> ">"
      [] rel = ">"  -> "<"
      [] rel = "<=" -> ">="
      [] rel = ">=" -> "<="
      [] rel = "==" -> "!="
      [] rel = "!=" -> "=="

RelInvert(rel) ==
    CASE rel = "<"  -> ">="
      [] rel = ">"  -> "<="
      [] rel = "<=" -> ">"
      [] rel = ">=" -> "<"
      [] rel = "==" -> "!="
      [] rel = "!=" -> "=="

Holds(rel, v, w) ==
    CASE rel = "<"  -> v < w
      [] rel = ">"  -> v > w
      [] rel = "<=" -> v <= w
      [] rel = ">=" -> v >= w
      [] rel = "==" -> v = w
      [] rel = "!=" -> v # w

Bool(b) == IF b THEN 1 ELSE 0

BinaryOp(o, v, w) == IF o \in Rels THEN Bool(Holds(o, v, w)) ELSE (v + w) % Modulus
UnaryOp(o, v)     == CASE o = "!" -> Bool(v = 0)
                       [] o = "-" -> (Modulus - v) % Modulus
                       [] o = "+" -> v

-------------------------------------------------------------------------------
\* where the array begins, and what its words hold before they are given values
Base == Modulus
NoWords == [i \in Val |-> -1]

\* the value of a scalar or a literal, given that of the scalars
Value(env, v) == CASE v = Zero   -> 0
                   [] v = One    -> 1
                   [] v = Far    -> FarOffset
                   [] v = LocArr -> Base
                   [] OTHER      -> env[v]
===============================================================================
