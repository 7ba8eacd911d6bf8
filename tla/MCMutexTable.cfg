CONSTANTS
    t1 = t1
    t2 = t2
    t3 = t3
    Threads = {t1, t2, t3}
    NoThread = NoThread
    h1 = h1
    h2 = h2
    h3 = h3
    Handles = {h1, h2, h3}
    Slot = Slot
    MaxObjects = 3
SPECIFICATION TableSpec
SYMMETRY Symmetry
INVARIANTS
    TableInv
