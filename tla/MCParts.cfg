SPECIFICATION MCSpec
CONSTANTS
    p1 = p1
    p2 = p2
    codex = codex
    claude = claude
    w1 = w1
    t1 = t1
    t2 = t2
    DispatchId = {1, 2, 3}
    Candidate <- MCCandidate
    ActiveRun <- MCActiveRun
    Limits <- MCLimits
    Project = {p1, p2}
    Provider = {codex, claude}
    Workspace = {w1}
    Checkpoint = {t1, t2}
    NoWorkspace = NoWorkspace
    NoCheckpoint = NoCheckpoint
    A = {a1, a2}
    B = {b1, b2}
    C = {c1, c2}
SYMMETRY Symmetric
INVARIANTS
    TypesOK
    PlanIsGreedy
    SessionsHandOver
    EvidenceIsInForce
    WorkIsOrdered
    OwnerSeesOrIsTold
PROPERTIES
    DispatchedAtMostOnce
    CalledAtMostOnce
    PublishedIsWhole
CHECK_DEADLOCK FALSE
