SPECIFICATION Spec
CONSTANTS
    Item = {1, 2, 3}
    Gated = {3}
    Unsettled = {}
    Global = 2
    CycleLimit = 3
    MaxSerial = 2
    OrphansPossible = TRUE
    ReadsMayFail = TRUE
INVARIANTS
    PoolBounded
PROPERTIES
    TasksAreConsumed

CHECK_DEADLOCK FALSE
