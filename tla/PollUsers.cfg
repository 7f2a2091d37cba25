SPECIFICATION FairSpec
CONSTANTS
    Fds = {f1, f2}
    Threads = {t1, t2}
    None = None
    PipeCap = 2
INVARIANTS NoCallbackAfterRemove
PROPERTIES RemoveReturns
