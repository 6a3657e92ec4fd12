----------------------------- MODULE MCBuiltinFuncs ----------------------------
(***************************************************************************)
(* Words of eight bits, of which the set uses six; residues of the largest *)
(* prime that a word can hold twice.                                       *)
(***************************************************************************)
EXTENDS BuiltinFuncs

Words == {4 * k : k \in 0..(MaxAddr \div 4)}

\* source and destination anywhere in memory, overlapping or not
MemmoveCalls ==
    {c \in [fn : {"memmove"},
            args : {<<dst, pos, src, len>> :
                       dst \in Words, pos \in 0..2, src \in Words, len \in -1..4},
            memory : {[a \in Words |-> 10 + a]}] :
       LET n == IF c.args[4] > 1 THEN c.args[4] ELSE 1
       IN  {c.args[1] + 4 * (c.args[2] + n - 1), c.args[3] + 4 * (n - 1)} \subseteq Words}

MultiplyCalls ==
    [fn : {"multiply"},
     args : {<<x, y>> : x \in {0, 1, 2, 30, MulMod - 1}, y \in Word},
     memory : {<<>>}]

\* the words of the set from 4 on
SetCalls ==
    [fn : {"set"},
     args : {<<4, pos, d>> : pos \in 0..((SetBound + 1) * SetBits), d \in {0, 1, 2}},
     memory : {[a \in {4 * k : k \in 0..(SetBound + 1)} |-> w] :
                  w \in {0, 2^SetBits - 1, 37}}]

MCCalls == MemmoveCalls \cup MultiplyCalls \cup SetCalls
===============================================================================
