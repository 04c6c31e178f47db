SPECIFICATION DispSpec
CONSTANTS
    r1 = r1
    r2 = r2
    r3 = r3
    Request = {r1, r2, r3}
    NoRequest = NoRequest
    Workers = 2
    Backlog = 2
INVARIANTS TypeOK InOrder
PROPERTIES KeepsStore Replied Drained
CHECK_DEADLOCK FALSE
