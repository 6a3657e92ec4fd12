SPECIFICATION Spec

CONSTANTS
    Lines <- MCLines
    MaxLines = 5
    Val = {0, 1}

INVARIANTS
    TypeOK
    ResolvesToInnermost
    LeavesInnermostLoop
    FoldSound

PROPERTIES
    ConstUntouched
