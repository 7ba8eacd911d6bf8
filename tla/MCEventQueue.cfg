CONSTANTS
    t1 = t1
    t2 = t2
    gpu = gpu
    e1 = e1
    e2 = e2
    Threads = {t1, t2, gpu}
    NoThread = NoThread
    Events = {e1, e2}
    Worker = gpu
    Timeouts = {"none", "future"}
    Batch = 1
    MaxTriggers = 2
SPECIFICATION QueueSpec
SYMMETRY Symmetry
INVARIANTS
    QueueInv
PROPERTIES
    NeverEmptyHanded
CHECK_DEADLOCK FALSE
