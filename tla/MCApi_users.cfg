SPECIFICATION Spec

CONSTANTS
    Request <- MCRequest
    BadPrice <- MCBadPrice
    Number = Number
    NoRow = NoRow
    Id = {i1, i2}

INVARIANTS
    UsersManaged

CHECK_DEADLOCK FALSE
