SPECIFICATION Spec
CONSTANTS
    v1 = v1
    v2 = v2
    None = None
    Empty = Empty
    Deleted = Deleted
    Hash = {0, 15, 30}
    Key = {0, 15, 30}
    Value = {v1, v2}
    Style = {"linear", "double", "exponential"}
    Last = 3
    Sizes <- MCSizes
    Capacities <- MCCapacities
    Probe <- MCProbe
    Shrink = 1
    SlowShrink = 2
    ScanFloor = 5
    ScanShare = 2
    DeletedMod = 3
    CountMax <- MCCountMax
INVARIANTS
    TypeOK
    EveryEntryIsFound
    CountersAreExact
    RehashHasRoom
PROPERTY
    ImplementsKeyedBag
SYMMETRY Symmetry
