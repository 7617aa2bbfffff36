SPECIFICATION Spec
CONSTANTS
    Template <- ShortTemplate
    Tree = {t1}
    NoTree = NoTree
    Usage = {"BELOW", "AGENT_CAP", "PIPELINE_CAP"}
    MaxRuns = 2
    MaxAttempts = 5
    MaxDispatches = 6
    MaxRequests = 2
    MaxStale = 2
INVARIANTS
    Lifecycle
    OpenQuestionIsCurrent
    OwnerHasAWay
    ExhaustedBudgetStopsWork
PROPERTIES
    HistoryIsKept
CHECK_DEADLOCK FALSE
