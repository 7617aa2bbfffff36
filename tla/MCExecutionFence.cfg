SPECIFICATION Spec
CONSTANTS
    InWorkspace <- AllButSecond
    StopsProven = FALSE
    MaxAttempts = 3
    MaxDispatches = 3
    MaxSessions = 3
    MaxCrashes = 2
INVARIANTS
    TypeOK
    OneTurn
    LeaseFollowsTurn
    ClaimIsWorked
    ChildIsFenced
PROPERTIES
    TurnsFollowDispatches
CHECK_DEADLOCK FALSE
