SPECIFICATION FairSpec
CONSTANTS
    MaxConns = 3
    Fds = {1, 2, 3}
    Clients = {k1}
    NoNonce = k0
    MaxJobs = 2
    MaxLeaks = 1
INVARIANTS RefsAccounted NoEntryReplaced QuietAfterListener
PROPERTIES ShutdownReturns
CHECK_DEADLOCK FALSE
