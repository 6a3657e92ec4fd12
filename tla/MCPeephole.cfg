CONSTANTS
    NoVar = NoVar
    Glob = Glob
    LocArr = LocArr
    GlobArr = GlobArr
    Zero = Zero
    One = One
    Far = Far
    FarOffset = 2
    pa = 10000
    pb = 10001
    vx = 0
    Modulus = 3
    Funcs <- MCFuncs

SPECIFICATION FairSpec

INVARIANTS
    TypeOK
    MergesOnlyResults
    SameEvents

PROPERTY Follows
