CONSTANTS
    NoVar = NoVar
    Glob = Glob
    LocArr = LocArr
    GlobArr = GlobArr
    pa = 10000
    pb = 10001
    vx = 0
    vy = 1
    vz = 2
    AvailRegs = {"s0", "a0", "a1"}
    NoReg = "x0"
    MaxArgs = 2
    ArgReg <- MCArgReg
    Inputs <- MCInputs

SPECIFICATION FairSpec

INVARIANTS
    TypeOK
    GraphConsistent
    RegisterLeft
    SacrificeExists
    NoConflict
    SlotsApart
    ArgsInPlaceIfMeet

PROPERTY Terminates
