SPECIFICATION FairSpec
CONSTANTS
    Item = {1, 2, 3}
    Gated = {3}
    Unsettled = {3}
    Global = 2
    CycleLimit = 4
    MaxSerial = 2
    OrphansPossible = FALSE
    ReadsMayFail = FALSE
INVARIANTS
    NothingLeftBehind
PROPERTIES
    PumpAnswers
CHECK_DEADLOCK FALSE
