CONSTANTS
    t1 = t1
    t2 = t2
    s1 = s1
    Threads = {t1, t2}
    NoThread = NoThread
    Sems = {s1}
    MaxCount = 2
SPECIFICATION NotifyFairSpec
INVARIANTS
    SemInv
PROPERTIES
    WokenByNotify
    SemWaitEnds
CHECK_DEADLOCK FALSE
