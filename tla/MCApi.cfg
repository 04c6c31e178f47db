SPECIFICATION Spec

CONSTANTS
    Request <- MCRequest
    BadPrice <- MCBadPrice
    Number = Number
    NoRow = NoRow
    Id = {i1, i2}

SYMMETRY IdsAlike

INVARIANTS
    TypeOK
    Truthful

PROPERTIES
    MissingMeans
    Confined
    Survives

CHECK_DEADLOCK FALSE
