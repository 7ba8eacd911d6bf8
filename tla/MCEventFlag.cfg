CONSTANTS
    t1 = t1
    t2 = t2
    b1 = b1
    b2 = b2
    Threads = {t1, t2}
    NoThread = NoThread
    Bits = {b1, b2}
    Modes <- OneMode
SPECIFICATION FlagFairSpec
INVARIANTS
    FlagInv
PROPERTIES
    SetReachesWaiter
    FlagWaitEnds
CHECK_DEADLOCK FALSE
