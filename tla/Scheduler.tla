----------------------------- MODULE Scheduler -----------------------------
\* planDispatchBatch (packages/scheduler/src/index.ts): one pass over the
\* pending dispatches, most urgent first, that selects those which may try
\* to claim an AgentRun now.  A step is one turn of the loop; the variables
\* are its input and its locals.
\*
\* A dispatch is a number: the numbers' order is (createdAt, dispatchId).
\* The attempts of the candidates are distinct (assertUnique), so a
\* dispatch's number stands for its attempt too.
EXTENDS Integers, FiniteSets

CONSTANTS
    DispatchId,     \* the pending dispatches
    Candidate,      \* what a candidate may look like
    ActiveRun,      \* the AgentRuns that may be active
    Project, Provider, Workspace, Checkpoint,
    NoWorkspace,    \* a stage that claims no workspace
    NoCheckpoint,   \* a workspace without a stable checkpoint
    Limits          \* the owner's limits, resolved by validateSchedulerLimits

Access == {"READ_ONLY", "READ_WRITE"}
Claim  == [workspace : Workspace \cup {NoWorkspace}, access : Access,
           checkpoint : Checkpoint \cup {NoCheckpoint}]

ASSUME DispatchAssumption == DispatchId \subseteq Int /\ IsFiniteSet(DispatchId)
ASSUME CandidateAssumption ==
    Candidate \subseteq [project : Project, provider : Provider, priority : Int, ready : BOOLEAN,
                         budgetAllowed : BOOLEAN, requiresStableCheckpoint : BOOLEAN,
                         workspace : Claim]
ASSUME ActiveRunAssumption ==
    /\ IsFiniteSet(ActiveRun)
    /\ ActiveRun \subseteq [attempt : Int, project : Project, provider : Provider, workspace : Claim]
ASSUME LimitsAssumption ==
    Limits \subseteq [global : Nat, project : [Project -> Nat], provider : [Provider -> Nat]]

VARIABLES
    candidate, active, limits,                  \* the input
    waiting,                                    \* the candidates the loop has not reached
    selected, deferred,                         \* the plan
    activeCount, projectCounts, providerCounts, \* what is taken
    activeAttempts, workspaceClaims

input == <<candidate, active, limits>>
vars  == <<input, waiting, selected, deferred, activeCount, projectCounts, providerCounts,
           activeAttempts, workspaceClaims>>

\* The reasons to defer a candidate, in the order in which the loop looks for them.
Reason == <<"NOT_READY", "BUDGET_BLOCKED", "CHECKPOINT_NOT_STABLE", "ATTEMPT_ACTIVE",
            "GLOBAL_LIMIT", "PROJECT_LIMIT", "PROVIDER_LIMIT", "WORKSPACE_CONFLICT">>

InScope(runs, field, scope) == {run \in runs : run[field] = scope}

\* The loop's locals have their types, and a candidate is waiting, selected or deferred.
TypeOK ==
    /\ candidate \in [DispatchId -> Candidate] /\ active \subseteq ActiveRun /\ limits \in Limits
    /\ waiting \subseteq DispatchId /\ selected \subseteq DispatchId \ waiting
    /\ deferred \in [DispatchId \ (waiting \cup selected) -> DOMAIN Reason]
    /\ activeCount \in Nat
    /\ projectCounts \in [Project -> Nat] /\ providerCounts \in [Provider -> Nat]
    /\ activeAttempts \subseteq Int /\ workspaceClaims \subseteq Claim

----
\* compareCandidates: urgent first, then old first.
\* Mutant: the age alone decides.
Before_Age(d, e) == d < e
Before(d, e) ==
    \/ candidate[d].priority < candidate[e].priority
    \/ candidate[d].priority = candidate[e].priority /\ d < e

\* workspaceClaimsConflict: a writer excludes everybody, readers share one stable checkpoint.
Conflict(left, right) ==
    /\ left.workspace = right.workspace /\ left.workspace # NoWorkspace
    /\ \/ "READ_WRITE" \in {left.access, right.access}
       \/ left.checkpoint = NoCheckpoint \/ right.checkpoint = NoCheckpoint
       \/ left.checkpoint # right.checkpoint

Full(count, limit) == count >= limit

Blocks(d, reason) ==
    LET c == candidate[d] IN
    \/ reason = "NOT_READY"             /\ ~c.ready
    \/ reason = "BUDGET_BLOCKED"        /\ ~c.budgetAllowed
    \/ reason = "CHECKPOINT_NOT_STABLE" /\ c.requiresStableCheckpoint
         /\ (c.workspace.workspace = NoWorkspace \/ c.workspace.checkpoint = NoCheckpoint)
    \/ reason = "ATTEMPT_ACTIVE"        /\ d \in activeAttempts
    \/ reason = "GLOBAL_LIMIT"          /\ Full(activeCount, limits.global)
    \/ reason = "PROJECT_LIMIT"         /\ Full(projectCounts[c.project], limits.project[c.project])
    \/ reason = "PROVIDER_LIMIT"        /\ Full(providerCounts[c.provider], limits.provider[c.provider])
    \/ reason = "WORKSPACE_CONFLICT"    /\ \E claim \in workspaceClaims : Conflict(c.workspace, claim)

\* The head of the sorted candidates.
First(d) == d \in waiting /\ \A e \in waiting \ {d} : Before(d, e)

\* Mutant: a candidate is passed over and no reason is given.
Explained_Not(d, i) == deferred
Explained(d, i) == [e \in DOMAIN deferred \cup {d} |-> IF e = d THEN i ELSE deferred[e]]

Defer(d) ==
    /\ First(d)
    /\ \E i \in DOMAIN Reason :
          /\ Blocks(d, Reason[i]) /\ \A j \in 1 .. i - 1 : ~Blocks(d, Reason[j])
          /\ deferred' = Explained(d, i)
    /\ waiting' = waiting \ {d}
    /\ UNCHANGED <<input, selected, activeCount, projectCounts, providerCounts, activeAttempts,
                   workspaceClaims>>

Select(d) ==
    LET c == candidate[d] IN
    /\ First(d)
    /\ \A i \in DOMAIN Reason : ~Blocks(d, Reason[i])
    /\ selected' = selected \cup {d}
    /\ activeAttempts' = activeAttempts \cup {d}
    /\ activeCount' = activeCount + 1
    /\ projectCounts' = [projectCounts EXCEPT ![c.project] = @ + 1]
    /\ providerCounts' = [providerCounts EXCEPT ![c.provider] = @ + 1]
    /\ workspaceClaims' = workspaceClaims \cup {c.workspace}
    /\ waiting' = waiting \ {d}
    /\ UNCHANGED <<input, deferred>>

Init ==
    /\ candidate \in [DispatchId -> Candidate]
    /\ active \in {runs \in SUBSET ActiveRun :
                      \A run, other \in runs : run.attempt = other.attempt => run = other}
    /\ limits \in Limits
    /\ waiting = DispatchId /\ selected = {} /\ deferred = [d \in {} |-> 1]
    /\ activeCount = Cardinality(active)
    /\ projectCounts  = [p \in Project |-> Cardinality(InScope(active, "project", p))]
    /\ providerCounts = [p \in Provider |-> Cardinality(InScope(active, "provider", p))]
    /\ activeAttempts  = {run.attempt : run \in active}
    /\ workspaceClaims = {run.workspace : run \in active}

Next == \E d \in DispatchId : Defer(d) \/ Select(d)

Spec == Init /\ [][Next]_vars

----
(* Properties *)

Larger(m, n) == IF m >= n THEN m ELSE n

SelectedIn(ds, field, scope) == {d \in ds : candidate[d][field] = scope}

InUse(field, scope, ds) ==
    Cardinality(InScope(active, field, scope)) + Cardinality(SelectedIn(ds, field, scope))

\* The batch exceeds no limit: a limit is passed only by what was already running when the owner
\* lowered it, and then nothing is added.
WithinLimits ==
    /\ Cardinality(active) + Cardinality(selected) <= Larger(limits.global, Cardinality(active))
    /\ \A p \in Project :
          InUse("project", p, selected)
            <= Larger(limits.project[p], Cardinality(InScope(active, "project", p)))
    /\ \A p \in Provider :
          InUse("provider", p, selected)
            <= Larger(limits.provider[p], Cardinality(InScope(active, "provider", p)))

\* Two stages may run beside each other: not in one workspace, or both reading one known tree.
Compatible(left, right) ==
    left.workspace = right.workspace /\ left.workspace # NoWorkspace =>
        /\ left.access = "READ_ONLY" /\ right.access = "READ_ONLY"
        /\ left.checkpoint = right.checkpoint /\ left.checkpoint # NoCheckpoint

\* No selected stage shares a workspace with a writer, or with a reader of another tree, whether
\* that one runs already or is in the batch too.
NoWorkspaceConflict ==
    \A d \in selected :
        /\ \A run \in active : Compatible(candidate[d].workspace, run.workspace)
        /\ \A e \in selected \ {d} : Compatible(candidate[d].workspace, candidate[e].workspace)

\* Room for d beside the active runs and the dispatches ds, by counting them.
Room(d, ds) ==
    LET c == candidate[d] IN
    /\ \A run \in active : run.attempt # d
    /\ Cardinality(active) + Cardinality(ds) < limits.global
    /\ InUse("project", c.project, ds) < limits.project[c.project]
    /\ InUse("provider", c.provider, ds) < limits.provider[c.provider]
    /\ \A run \in active : Compatible(c.workspace, run.workspace)
    /\ \A e \in ds : Compatible(c.workspace, candidate[e].workspace)

Eligible(d) ==
    LET c == candidate[d] IN
    /\ c.ready /\ c.budgetAllowed
    /\ c.requiresStableCheckpoint =>
          c.workspace.workspace # NoWorkspace /\ c.workspace.checkpoint # NoCheckpoint

\* The plan is the greedy one: what runs already and what is more urgent, and nothing else, keeps
\* an eligible dispatch out of it; a less urgent one never takes its place.
PlanIsGreedy ==
    \A d \in DispatchId \ waiting :
        d \in selected <=>
            /\ Eligible(d)
            /\ Room(d, {e \in selected : \/ candidate[e].priority < candidate[d].priority
                                         \/ candidate[e].priority = candidate[d].priority /\ e < d})

=============================================================================
