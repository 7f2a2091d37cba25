SPECIFICATION FairSpec
CONSTANTS
    Clients = {c1}
    Threads = 2
    MaxXid = 3
    MaxConn = 1
    Rounds = 1
    MaxNonce = 1
INVARIANTS AcksOnlySettled
 
CHECK_DEADLOCK FALSE
