SPECIFICATION Spec
CONSTANTS
    Size = 4
    Char = {0, 1, 2}
INVARIANT
    TypeOK
PROPERTY
    IsFifo
