CONSTANTS
    MaxHandle = 3
    s1 = s1
    s2 = s2
    Slots = {s1, s2}
    NoSlot = NoSlot
    Codes = {2}
SPECIFICATION LifeFairSpec
INVARIANTS
    LifeInv
    TeardownReaps
PROPERTIES
    TeardownEnds
CHECK_DEADLOCK FALSE
