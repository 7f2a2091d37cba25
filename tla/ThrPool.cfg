SPECIFICATION FairSpec
CONSTANTS
    Workers = {w1, w2}
    Producers = {p1, p2}
    Main = main
    Capacity = 2
    MaxJobs = 4
INVARIANTS NoLostSignal JobInOnePlace
PROPERTIES DestructorReturns AcceptedRuns
CHECK_DEADLOCK FALSE
