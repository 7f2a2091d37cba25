SPECIFICATION FairSpec
CONSTANTS
    Clients = {c1, c2, c3}
    Locks = {l1, l2}
    NThreads = 3
INVARIANTS RaceFreeMutualExclusion NoLostWakeup
 
