CONSTANTS
    t1 = t1
    t2 = t2
    t3 = t3
    Threads = {t1, t2, t3}
    NoThread = NoThread
    Types = {"errorcheck", "recursive", "normal", "adaptive"}
    MaxRecursion = 2
SPECIFICATION HostFairSpec
INVARIANTS
    MutexInv
    HandoffExact
PROPERTIES
    HandoffIsFifo
    ImplementsReentrantLock
    EveryLockReturns
    HostUnblocks
CHECK_DEADLOCK FALSE
