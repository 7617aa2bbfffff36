SPECIFICATION Spec
CONSTANTS
    Template <- ShortTemplate
    Tree = {t1, t2}
    NoTree = NoTree
    Usage = {"BELOW"}
    MaxRuns = 1
    MaxAttempts = 8
    MaxDispatches = 8
    MaxRequests = 2
    MaxStale = 1
SYMMETRY TreeSymmetry
INVARIANTS
    TypeOK
    ReviewRoundsBounded
    AcceptedTreeIsVerified
CHECK_DEADLOCK FALSE
