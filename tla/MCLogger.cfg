SPECIFICATION LiveSpec

CONSTANTS
    Thread = {t1, t2}
    Handler = Handler
    Nobody = Nobody
    Capacity = 1
    LastSecond = 1
    Lines = 4
    Misses = 1

INVARIANTS
    TypeOK
    NoneLost
    InNameOrder
    FilesBounded

PROPERTIES
    LogReturns

CHECK_DEADLOCK FALSE
