SPECIFICATION FairSpec
CONSTANTS
    InWorkspace <- AllButLast
    StopsProven = TRUE
    MaxAttempts = 2
    MaxDispatches = 3
    MaxSessions = 3
    MaxCrashes = 1
PROPERTIES
    PausedBecomesResumable
    LeaseComesBack
CHECK_DEADLOCK FALSE
