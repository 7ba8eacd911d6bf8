CONSTANTS
    t1 = t1
    t2 = t2
    w1 = w1
    w2 = w2
    Threads = {t1, t2}
    Workers = {w1, w2}
    MaxSubmits = 1
    MaxBatch = 2
SPECIFICATION AioFairSpec
INVARIANT AioInv
PROPERTIES
    ResultsBeforeReport
    AioWaitReturns
