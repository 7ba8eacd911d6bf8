CONSTANTS
    t1 = t1
    t2 = t2
    Threads = {t1, t2}
    MaxRaises = 2
    MaxObjects = 2
    MaxValue = 1
SPECIFICATION PosixSpec
INVARIANTS
    PosixInv
    NewestRaiseKept
    DeliveriesExclusive
CHECK_DEADLOCK FALSE
