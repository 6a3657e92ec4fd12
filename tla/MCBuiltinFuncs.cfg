SPECIFICATION Spec

CONSTANTS
    WordBits = 8
    ImmLimit = 18
    MulMod = 61
    SetBits = 6
    SetBound = 3
    MaxAddr = 20
    Calls <- MCCalls

CHECK_DEADLOCK FALSE

INVARIANTS
    TypeOK
    OnlyReported
    ComputesWhatItIsNamed

PROPERTY Terminates
