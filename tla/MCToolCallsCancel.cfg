SPECIFICATION Spec
CONSTANTS
    External = {e1}
    File = {}
    Recipe = {r1}
    Session = {s1, s2}
    StoreFails = TRUE
INVARIANTS
    CancelDrainsCalls
CHECK_DEADLOCK FALSE
