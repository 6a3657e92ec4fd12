SPECIFICATION Spec

CONSTANTS
    Shapes <- MCShapes
    MaxItems = 9

INVARIANTS
    TypeOK
    PassedInPlace

PROPERTIES
    NeverBack
    ImplementsInitializer
