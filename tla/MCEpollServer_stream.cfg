SPECIFICATION Spec
CONSTANTS
    p1 = p1
    p2 = p2
    p3 = p3
    f1 = f1
    f2 = f2
    f3 = f3
    NoPeer = NoPeer
    NoFd = NoFd
    Peer <- TwoPeers
    Fd <- TwoFds
    MaxConnections = 2
    ConnectionTimeout = 1
    CleanupPeriod = 1
    ReqLen = 2
    RespLen = 2
    SndBuf = 1
    Faults = TRUE
CHECK_DEADLOCK FALSE
SYMMETRY Interchangeable
INVARIANTS
    TableAgrees
    EdgeNotLost
    RequestIntact
    FramedAsCounted
    MalformedEnds
    BodyIntact
PROPERTIES
    KeepsContract
