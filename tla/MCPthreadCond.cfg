CONSTANTS
    t1 = t1
    t2 = t2
    Threads = {t1, t2}
    NoThread = NoThread
    Types = {"errorcheck", "normal"}
    MaxRecursion = 1
SPECIFICATION CondHostFairSpec
INVARIANTS
    CondInv
PROPERTIES
    WaitReturnsHolding
    SignalBeatsTimeout
    MutexUnderCond
    SignalledReturns
    TerminationEndsWaits
CHECK_DEADLOCK FALSE
