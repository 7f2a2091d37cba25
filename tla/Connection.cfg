SPECIFICATION FairSpec
CONSTANTS
    Fd = fd
    Fds = {fd}
    Senders = {s1, s2}
    Owner = owner
    Threads = {s1, s2, owner}
    None = None
    PipeCap = 2
    PduSize = 2
INVARIANTS WholePdus DeletedOnlyWhenUnused
PROPERTIES SendReturns
CHECK_DEADLOCK FALSE
