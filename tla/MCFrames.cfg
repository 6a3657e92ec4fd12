SPECIFICATION Spec

CONSTANTS
    WordBits = 8
    ImmLimit = 18
    Funcs <- MCFuncs
    MaxDepth = 3
    StackTop = 112
    DataRegs = {"s0", "t0"}
    PtrReg = "a0"
    CalleeSaved = {"s0"}
    CallSite <- MCCallSite

INVARIANT TypeOK

PROPERTY ImplementsFrames
