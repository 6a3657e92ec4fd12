-------------------------------- MODULE Places --------------------------------
(***************************************************************************)
(* Where the scalars of a function are kept: the registers (Preg), the     *)
(* place of a scalar (Vreg, back/reg.hpp), and what the allocator promises *)
(* about the places it gives.                                              *)
(***************************************************************************)
EXTENDS LiveSets, FiniteSets

CONSTANTS
    AvailRegs,      \* registers that can be given out
    NoReg,          \* Preg('x', 0)
    MaxArgs,        \* argument registers, 8 on this machine
    ArgReg          \* parameter index -> the register the caller passes it in

ASSUME RegsAssumption ==
    /\ IsFiniteSet(AvailRegs)
    /\ NoReg \notin AvailRegs
    /\ MaxArgs \in Nat
    /\ MaxArgs <= Cardinality(AvailRegs)
    /\ ArgReg \in [0..(MaxArgs - 1) -> AvailRegs]
    /\ \A i, j \in DOMAIN ArgReg : ArgReg[i] = ArgReg[j] => i = j

\* a scalar's place: none yet, a register or a stack slot
Unmapped   == [pos |-> "none",  reg |-> NoReg, slot |-> 0]
InReg(r)   == [pos |-> "reg",   reg |-> r,     slot |-> 0]
OnStack(n) == [pos |-> "stack", reg |-> NoReg, slot |-> n]

-------------------------------------------------------------------------------
\* The breadth-first search of collect_correlation; it removes what it does
\* not reach.
Reached(func) ==
    LET within[k \in 0..Len(func.stmts)] ==
            IF k = 0
            THEN {1}
            ELSE LET closer == within[k-1]
                 IN  closer \cup UNION {CfgNext(func, s) : s \in closer}
    IN  within[Len(func.stmts)]

\* the scalars that get a place, of a function with its alive sets
Pooled(input) == UNION {input.alive[s] : s \in Reached(input.func)}

Apart(input, vreg) ==
    \A s \in Reached(input.func) : \A x, y \in input.alive[s] :
        x # y => vreg[x] # vreg[y]

\* what code generation relies on
Placed(input, vreg, spillsize) ==
    /\ input.arraysize <= spillsize
    /\ \A x \in Pooled(input) :
         \/ \E r \in AvailRegs : vreg[x] = InReg(r)
         \/ ~ IsArg(x) /\ \E n \in input.arraysize..(spillsize - 1) :
                vreg[x] = OnStack(n)
    /\ Apart(input, vreg)
    /\ \A i \in 0..(input.func.params - 1) :
         Arg(i) \in input.alive[1] => vreg[Arg(i)] = InReg(ArgReg[i])
===============================================================================
