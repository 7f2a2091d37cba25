SPECIFICATION Spec
CONSTANTS
    Clients = {c1}
    Threads = 1
    MaxXid = 3
    MaxConn = 2
    Rounds = 2
    MaxNonce = 1
INVARIANTS AtMostOnce
CHECK_DEADLOCK FALSE
