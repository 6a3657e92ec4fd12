---------------------------------- MODULE Word ---------------------------------
(***************************************************************************)
(* Machine words: the integers of WordBits bits in two's complement, and   *)
(* the arithmetic of a RISC-V processor on them.  The program's words have *)
(* 32 bits.                                                                *)
(***************************************************************************)
EXTENDS Integers

CONSTANT WordBits

ASSUME WordBitsAssumption == WordBits \in Nat \ {0}

Half == 2^(WordBits - 1)
Word == (-Half)..(Half - 1)

Wrap(x) == ((x + Half) % (2 * Half)) - Half

\* C's quotient and remainder, where they are defined
Quot(x, y) ==
    LET abs(z) == IF z < 0 THEN -z ELSE z
        q      == abs(x) \div abs(y)
    IN  IF (x < 0) = (y < 0) THEN q ELSE -q

Remainder(x, y) == x - y * Quot(x, y)

Truth(b) == IF b THEN 1 ELSE 0

\* whether x and y differ is all that their exclusive or is used for, but it
\* is a word like any other
Xor(x, y) ==
    LET bit(z, k) == (z \div 2^k) % 2
        from[k \in 0..WordBits] ==
            IF k = WordBits THEN 0
            ELSE Truth(bit(x, k) # bit(y, k)) * 2^k + from[k + 1]
    IN  Wrap(from[0])

\* div and rem do not trap: the manual names their results for a divisor of
\* zero, and the one quotient that overflows wraps
Div(x, y) == IF y = 0 THEN -1 ELSE Wrap(Quot(x, y))
Rem(x, y) == IF y = 0 THEN x ELSE Remainder(x, y)

Sll(x, k) == Wrap(x * 2^(k % WordBits))
Sra(x, k) == x \div 2^(k % WordBits)

\* the operators of instructions with two operands
Alu(op, x, y) ==
    CASE op = "add" -> Wrap(x + y)
      [] op = "sub" -> Wrap(x - y)
      [] op = "mul" -> Wrap(x * y)
      [] op = "div" -> Div(x, y)
      [] op = "rem" -> Rem(x, y)
      [] op = "xor" -> Xor(x, y)
      [] op = "slt" -> Truth(x < y)
      [] op = "sgt" -> Truth(x > y)
      [] op = "sll" -> Sll(x, y)
      [] op = "sra" -> Sra(x, y)

\* the relations of conditional branches
Branches(rel, x, y) ==
    CASE rel = "blt" -> x < y
      [] rel = "bgt" -> x > y
      [] rel = "ble" -> x <= y
      [] rel = "bge" -> x >= y
      [] rel = "beq" -> x = y
      [] rel = "bne" -> x # y
===============================================================================
