CONSTANTS
    NoVar = NoVar
    Glob = Glob
    LocArr = LocArr
    GlobArr = GlobArr
    pa = 10000
    pb = 10001
    vx = 0
    vy = 1
    Funcs <- MCFuncs

SPECIFICATION FairLiveSpec

INVARIANTS
    LiveTypeOK
    WorklistConsistent
    SettledUnlessQueued
    FinishedExact

PROPERTIES
    ImplementsChaotic
    LiveTerminates
