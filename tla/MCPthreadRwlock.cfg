CONSTANTS
    t1 = t1
    t2 = t2
    t3 = t3
    Threads = {t1, t2, t3}
    NoThread = NoThread
    MaxDepth = 2
SPECIFICATION RwFairSpec
INVARIANTS
    RwInv
PROPERTIES
    RwTerminationUnblocks
CHECK_DEADLOCK FALSE
