SPECIFICATION Spec

CONSTANTS
    WordBits = 5
    ImmLimit = 8
    DestRegs = {"s0", "s1", "t0"}

CHECK_DEADLOCK FALSE

INVARIANTS
    ComputesOperator
    DivisionRoundsDown
