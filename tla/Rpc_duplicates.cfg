SPECIFICATION Spec
CONSTANTS
    Clients = {c1}
    Threads = 2
    MaxXid = 2
    MaxConn = 2
    Rounds = 1
    MaxNonce = 2
INVARIANTS TypeOK AtMostOnceUntilAcked OutstandingRunsOnce ResultFromBoundInstance OnlyBoundInstanceRuns FreedReplyUnwanted
CHECK_DEADLOCK FALSE
