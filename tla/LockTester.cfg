SPECIFICATION TesterSpec
CONSTANTS
    thread0 = t0
    thread1 = t1
    Clients = {t0, t1, t2}
    a = a
    b = b
    Locks = {a, b}
    NThreads = 3
    Rounds = 2
INVARIANTS TesterNeverFails
PROPERTIES ImplementsLockSpec TesterFinishes
CHECK_DEADLOCK FALSE
