CONSTANTS
    t1 = t1
    t2 = t2
    Threads = {t1, t2}
    Values = {0, 1}
    Counts = {1, 2}
    Kinds = {"selfheal", "deadline"}
SPECIFICATION FairSpec
INVARIANTS
    SyncInv
PROPERTIES
    WakesSpentWell
    EveryWaitEnds
CHECK_DEADLOCK FALSE
