CONSTANTS
    a = a
    b = b
    t1 = t1
    t2 = t2
    Host = Host
    Nobody = Nobody
    Threads = {t1, t2}
    Makes <- MCMakes
    Labels = {a, b}
    GuestLabels = {a}
    Programs <- MCPrograms
    Depth = 1
    FramesInFlight = 1
    MaxPasses = 4
    DeadRounds = 3
    MaxFlips = 2
    MaxIdles = 1
    MaxStores = 1
    MaxFaults = 1
SPECIFICATION GpuFairSpec
INVARIANTS
    GpuInv
    RingOrder
PROPERTIES
    ResumedGenuinely
    IdleIsIdle
    GpuCallsReturn
CHECK_DEADLOCK FALSE
