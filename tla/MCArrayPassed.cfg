SPECIFICATION Spec

CONSTANTS
    Lines <- MCPassingLines
    MaxLines = 3
    Val = {0, 1}

INVARIANTS
    FoldSound
