SPECIFICATION Spec
CONSTANTS
    InWorkspace <- AllInWorkspace
    StopsProven = TRUE
    MaxAttempts = 1
    MaxDispatches = 1
    MaxSessions = 1
    MaxCrashes = 0
PROPERTIES
    CancelledStays
CHECK_DEADLOCK FALSE
