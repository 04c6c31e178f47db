SPECIFICATION IdleSpec
CONSTANTS
    p1 = p1
    p2 = p2
    p3 = p3
    f1 = f1
    f2 = f2
    f3 = f3
    NoPeer = NoPeer
    NoFd = NoFd
    Peer <- TwoPeers
    Fd <- OneFd
    MaxConnections = 2
    ConnectionTimeout = 1
    CleanupPeriod = 2
    ReqLen = 1
    RespLen = 2
    SndBuf = 1
    Faults = FALSE
CHECK_DEADLOCK FALSE
PROPERTIES
    IdleClosed
    Admitted
