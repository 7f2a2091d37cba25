SPECIFICATION Spec
CONSTANTS
    Clients = {c1, c2}
    Locks = {l1}
    NThreads = 2
INVARIANT MutualExclusion
