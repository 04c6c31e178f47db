SPECIFICATION Spec
CONSTANTS
    p1 = p1
    p2 = p2
    p3 = p3
    f1 = f1
    f2 = f2
    f3 = f3
    NoPeer = NoPeer
    NoFd = NoFd
    Peer <- ThreePeers
    Fd <- ThreeFds
    MaxConnections = 2
    ConnectionTimeout = 0
    CleanupPeriod = 0
    ReqLen = 1
    RespLen = 1
    SndBuf = 1
    Faults = FALSE
CHECK_DEADLOCK FALSE
SYMMETRY Interchangeable
INVARIANTS
    TypeOK
    ConnectionLimit
    TableAgrees
    NoStaleEvent
PROPERTIES
    KeepsContract
