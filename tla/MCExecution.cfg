CONSTANTS
    NoVar = NoVar
    Glob = Glob
    LocArr = LocArr
    GlobArr = GlobArr
    pa = 10000
    pb = 10001
    vx = 0
    vy = 1
    AvailRegs = {"s0", "t2", "a0", "a1"}
    NoReg = "x0"
    MaxArgs = 2
    ArgReg <- MCArgReg
    Builtins = {"getint", "putint"}
    BuiltinDestroys = {"t0", "t1", "t2", "a0", "a1"}
    Programs <- MCPrograms
    Modulus = 3
    Literal = 1
    ArraySpan = 5
    GlobInit <- MCGlobInit
    OffsetLimit = 3

SPECIFICATION ExecSpec

INVARIANTS
    ExecTypeOK
    SaveAreaSuffices
    DestroyedExact
    Defined

PROPERTY ImplementsMeaning
