SPECIFICATION Spec

CONSTANTS
    Request <- MCRequest
    BadPrice <- MCBadPrice
    Number = Number
    NoRow = NoRow
    Id = {i1, i2}

INVARIANTS
    DocumentedIsRouted

CHECK_DEADLOCK FALSE
