SPECIFICATION Spec

CONSTANTS
    Shapes <- MCShapes
    MaxItems = 9

INVARIANTS
    ListsAligned
