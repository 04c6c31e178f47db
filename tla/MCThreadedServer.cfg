SPECIFICATION LiveSpec
CONSTANTS
    p1 = p1
    p2 = p2
    p3 = p3
    Peer <- ThreePeers
    MaxConnections = 2
    Faults = TRUE
INVARIANTS
    TypeOK
    LimitKept
    StopIsClean
PROPERTIES
    KeepsContract
    Answered
    StopReturns
CHECK_DEADLOCK FALSE
