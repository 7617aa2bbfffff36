------------------------------ MODULE Workflow ------------------------------
\* The delivery workflow of one WorkItem, as the pure decisions of
\* packages/domain/src/workflow.ts apply it: PipelineRuns, StageAttempts,
\* dispatches, the owner's HumanRequests and the AcceptancePackage.
\*
\* Every action is one command.  A command reads the rows, decides and
\* writes them back in one SQLite transaction, so a command is one step.
\* Who may send a command when (which daemon execution owns a dispatch,
\* which child process is alive) is the subject of module Execution; here
\* the provider may return any outcome the decisions accept, and a session
\* loop that a pause or a cancel overtook may still pause its attempt.
EXTENDS Naturals, Sequences, FiniteSets

CONSTANTS
    Template,       \* the stages of the WorkflowTemplate, in order
    Tree,           \* labels of the working tree a stage may end on
    NoTree,         \* the resultTree of a stage that has not run
    Usage,          \* what a usage report reaches, a subset of UsageReport
    MaxRuns,        \* bounds on the rows a behaviour may insert
    MaxAttempts,
    MaxDispatches,
    MaxRequests,
    MaxStale        \* the dispatches whose overtaken loop is followed further: the first ones

Stage == {"DISCOVERY", "PLAN", "IMPLEMENT", "REVIEW", "QA", "ACCEPTANCE"}

\* validateWorkflowTemplate: no stage twice.  deliveryTemplate, the only template the daemon
\* starts, reviews what it just implemented and ends with the owner's acceptance.
ASSUME TemplateAssumption ==
    /\ Template \in Seq(Stage)
    /\ Len(Template) > 1
    /\ \A i, j \in 1 .. Len(Template) : Template[i] = Template[j] => i = j
    /\ \E i \in 2 .. Len(Template) : Template[i - 1] = "IMPLEMENT" /\ Template[i] = "REVIEW"
    /\ Template[Len(Template)] = "ACCEPTANCE"

ASSUME TreeAssumption == NoTree \notin Tree

\* A report below every cap, one that reaches the AgentRun's own cap, or the pipeline's.
UsageReport == {"BELOW", "AGENT_CAP", "PIPELINE_CAP"}
ASSUME UsageAssumption == Usage \subseteq UsageReport

ASSUME BoundAssumption ==
    /\ MaxRuns \in Nat /\ MaxAttempts \in Nat
    /\ MaxDispatches \in Nat /\ MaxRequests \in Nat /\ MaxStale \in Nat

RunId      == 1 .. MaxRuns
AttemptId  == 1 .. MaxAttempts
DispatchId == 1 .. MaxDispatches
RequestId  == 1 .. MaxRequests

WorkItemState == {"BACKLOG", "READY", "IN_PROGRESS", "BLOCKED", "DONE", "CANCELLED"}

ActiveRunStatus == {"RUNNING", "WAITING_HUMAN", "SOFT_PAUSED", "HARD_PAUSED", "INTERRUPTED"}
RunStatus       == ActiveRunStatus \cup {"NONE", "SUCCEEDED", "FAILED", "CANCELLED"}

AttemptStatus == {"NONE", "QUEUED", "RUNNING", "WAITING_HUMAN", "SOFT_PAUSED", "HARD_PAUSED",
                  "INTERRUPTED", "SUCCEEDED", "FAILED", "CANCELLED"}

\* What a failureCode lets the decisions tell apart.  "SESSION" stands for the six
\* sessionPauseFailureCodes, "PROVIDER" for the reasons of a NEEDS_HUMAN outcome.
FailureCode == {"NONE", "SESSION", "PROVIDER", "REVIEW_LOOP_EXHAUSTED", "DAEMON_RESTART", "ACCEPTANCE"}

MaxAutomaticReviewRounds == 2
MaxTotalReviewRounds     == 3

VARIABLES
    workItem,   \* WorkItem.state
    run,        \* PipelineRun rows with their BudgetPolicy and AcceptancePackage
    attempt,    \* StageAttempt rows; agentRun says that an AgentRun of the attempt is RUNNING
    dispatch,   \* WorkflowDispatch rows
    request,    \* HumanRequest rows
    artifacts,  \* passed evidence artifacts (REVIEW_REPORT, QA_REPORT)
    stale,      \* dispatches whose loop a command overtook before it opened a session
    overruled   \* history, which no guard reads: runs such a loop paused against the rows

vars == <<workItem, run, attempt, dispatch, request, artifacts, stale, overruled>>

\* The absent row of each table; ids are allocated in order.
NoRun      == [status |-> "NONE", current |-> 0, exhausted |-> FALSE, reports |-> 0,
               package |-> "NONE", packageRequest |-> 0, packageTree |-> NoTree]
NoAttempt  == [run |-> 0, stage |-> "IMPLEMENT", number |-> 0, status |-> "NONE",
               code |-> "NONE", started |-> FALSE, agentRun |-> FALSE, round |-> 0,
               tree |-> NoTree]
NoDispatch == [attempt |-> 0, status |-> "NONE"]
NoRequest  == [attempt |-> 0, status |-> "NONE"]

RunRow == [status : RunStatus, current : AttemptId \cup {0}, exhausted : BOOLEAN,
           reports : Nat, package : {"NONE", "PENDING", "ACCEPTED", "RETURNED", "REJECTED"},
           packageRequest : RequestId \cup {0}, packageTree : Tree \cup {NoTree}]
AttemptRow == [run : RunId \cup {0}, stage : Stage, number : Nat, status : AttemptStatus,
               code : FailureCode, started : BOOLEAN, agentRun : BOOLEAN, round : Nat,
               tree : Tree \cup {NoTree}]
DispatchRow == [attempt : AttemptId \cup {0}, status : {"NONE", "PENDING", "COMPLETED", "FAILED"}]
RequestRow  == [attempt : AttemptId \cup {0}, status : {"NONE", "OPEN", "RESOLVED", "CANCELLED"}]
Artifact    == [run : RunId, kind : {"REVIEW_REPORT", "QA_REPORT"}, tree : Tree]

\* Every field has the type its contract schema gives it.
RowsOK ==
    /\ workItem \in WorkItemState
    /\ run \in [RunId -> RunRow]
    /\ attempt \in [AttemptId -> AttemptRow]
    /\ dispatch \in [DispatchId -> DispatchRow]
    /\ request \in [RequestId -> RequestRow]
    /\ artifacts \subseteq Artifact

TypeOK == RowsOK /\ stale \subseteq DispatchId /\ overruled \subseteq RunId

----
(* Reading the rows *)

\* createId: the one id the next inserted row takes, none once the bound is reached.
NextId(table) == {id \in DOMAIN table :
                     /\ table[id].status = "NONE"
                     /\ \A other \in DOMAIN table : other < id => table[other].status # "NONE"}

Active(r) == run[r].status \in ActiveRunStatus

NoActiveRun == \A r \in RunId : ~Active(r)

IsCurrent(r, a) == a \in AttemptId /\ run[r].current = a /\ attempt[a].run = r

Current(r) == {a \in AttemptId : IsCurrent(r, a)}

DispatchesOf(a) == {d \in DispatchId : dispatch[d].attempt = a}

Pending(a) == {d \in DispatchId : dispatch[d].status = "PENDING" /\ dispatch[d].attempt = a}

AfterStage(s) == {i \in 2 .. Len(Template) : Template[i - 1] = s}

\* The tree of the latest succeeded IMPLEMENT attempt of the run, if there is one.
ImplementedBy(r, a) ==
    /\ attempt[a].run = r /\ attempt[a].stage = "IMPLEMENT" /\ attempt[a].status = "SUCCEEDED"
    /\ \A b \in AttemptId : b > a => ~( /\ attempt[b].run = r /\ attempt[b].stage = "IMPLEMENT"
                                        /\ attempt[b].status = "SUCCEEDED")
\* Mutant: any implementation of the run will do.
CurrentTree_AnyRound(r, t) ==
    \E a \in AttemptId : /\ attempt[a].run = r /\ attempt[a].stage = "IMPLEMENT"
                         /\ attempt[a].status = "SUCCEEDED" /\ attempt[a].tree = t
CurrentTree(r, t) == \E a \in AttemptId : ImplementedBy(r, a) /\ attempt[a].tree = t

----
(* Writing the rows *)

QueuedAttempt(r, s, n) ==
    [NoAttempt EXCEPT !.run = r, !.stage = s, !.number = n, !.status = "QUEUED"]

\* The number of the attempt that repeats the stage of attempt a, or fixes what it reviewed.
\* Mutant: the number is kept.
NextNumber(a) == attempt[a].number + 1

CreateDispatch(table, d, a) == [table EXCEPT ![d] = [attempt |-> a, status |-> "PENDING"]]

\* pendingDispatchFailed: a dispatch that will never be answered is withdrawn.
\* Mutants: none is withdrawn; every dispatch of the attempt is rewritten.
WithdrawDispatches_None(a) == dispatch
WithdrawDispatches_All(a) ==
    [d \in DispatchId |-> IF d \in DispatchesOf(a) THEN [dispatch[d] EXCEPT !.status = "FAILED"]
                                                   ELSE dispatch[d]]
WithdrawDispatches(a) ==
    [d \in DispatchId |-> IF d \in Pending(a) THEN [dispatch[d] EXCEPT !.status = "FAILED"]
                                              ELSE dispatch[d]]

\* The attempt leaves execution; finishActiveAgentRun in the same transaction.
Leaves(a, s, c) == [attempt EXCEPT ![a] =
          [@ EXCEPT !.status = s, !.code = c, !.agentRun = FALSE]]

Answered(d) == [dispatch EXCEPT ![d].status = "COMPLETED"]

OpenRequest(q, a) == [request EXCEPT ![q] = [attempt |-> a, status |-> "OPEN"]]

Resolved(q) == [request EXCEPT ![q].status = "RESOLVED"]

\* Mutant: the questions of a cancelled pipeline stay open.
WithdrawRequests_None == request
WithdrawRequests ==
    [q \in RequestId |-> IF request[q].status = "OPEN" THEN [request[q] EXCEPT !.status = "CANCELLED"]
                                                       ELSE request[q]]

----
(* Owner commands that start a run *)

\* MOVE_WORK_ITEM: refused while a run is active, and DONE is never a target.
AllowedMove(from) ==
    CASE from = "BACKLOG"     -> {"READY", "CANCELLED"}
      [] from = "READY"       -> {"BACKLOG", "IN_PROGRESS", "BLOCKED", "CANCELLED"}
      [] from = "IN_PROGRESS" -> {"READY", "BLOCKED", "CANCELLED"}
      [] from = "BLOCKED"     -> {"READY", "IN_PROGRESS", "CANCELLED"}
      [] OTHER                -> {}

MoveWorkItem(target) ==
    /\ NoActiveRun
    /\ target \in AllowedMove(workItem)
    /\ workItem' = target
    /\ UNCHANGED <<run, attempt, dispatch, request, artifacts>>

StartPipeline(r, a, d) ==
    /\ workItem = "READY"
    /\ NoActiveRun
    /\ workItem' = "IN_PROGRESS"
    /\ run' = [run EXCEPT ![r] = [@ EXCEPT !.status = "RUNNING", !.current = a]]
    /\ attempt' = [attempt EXCEPT ![a] = QueuedAttempt(r, Template[1], 1)]
    /\ dispatch' = CreateDispatch(dispatch, d, a)
    /\ UNCHANGED <<request, artifacts>>

----
(* Daemon commands that begin a stage *)

\* Mutant: the start does not look at the budget.
BudgetLeft_Ignored(r) == TRUE
BudgetLeft(r) == ~run[r].exhausted

Startable(r, a, d) ==
    /\ \A b \in AttemptId : ~attempt[b].agentRun
    /\ IsCurrent(r, a)
    /\ dispatch[d] = [attempt |-> a, status |-> "PENDING"]
    /\ attempt[a].status = "QUEUED"

\* START_AGENT_RUN with budget left: the queued stage starts.
StartAgentRun(r, a, d) ==
    /\ Startable(r, a, d)
    /\ BudgetLeft(r)
    /\ attempt' = [attempt EXCEPT ![a] =
          [@ EXCEPT !.status = "RUNNING", !.started = TRUE, !.agentRun = TRUE]]
    /\ UNCHANGED <<workItem, run, dispatch, request, artifacts>>

\* START_AGENT_RUN with the pipeline cap already spent: the stage is parked for an override.
ParkQueuedStageAttemptForBudget(r, a, d) ==
    /\ Startable(r, a, d)
    /\ run[r].status = "RUNNING"
    /\ ~BudgetLeft(r)
    /\ attempt' = [attempt EXCEPT ![a] =
          [@ EXCEPT !.status = "HARD_PAUSED", !.code = "NONE"]]
    /\ run' = [run EXCEPT ![r].status = "HARD_PAUSED"]
    /\ workItem' = "BLOCKED"
    /\ dispatch' = [dispatch EXCEPT ![d].status = "FAILED"]
    /\ UNCHANGED <<request, artifacts>>

----
(* What a running stage may report *)

Executing(r, a, d) ==
    /\ IsCurrent(r, a)
    /\ attempt[a].status = "RUNNING"
    /\ dispatch[d] = [attempt |-> a, status |-> "PENDING"]

Spend(r, usage) == run[r].exhausted \/ usage = "PIPELINE_CAP"

\* RECORD_PROVIDER_USAGE of a session that reaches a cap (below the caps no row here changes).
\* After a Soft Pause the dispatch is already FAILED and stays so.  The session loop ends the
\* session in the same turn, unless its process could not be proven stopped: then the AgentRun
\* stays RUNNING and fences the WorkItem.
RecordProviderUsage(r, a, d, usage, stopped) ==
    /\ usage # "BELOW"
    /\ IsCurrent(r, a) /\ attempt[a].agentRun
    /\ dispatch[d].attempt = a
    /\ \/ /\ attempt[a].status = "RUNNING" /\ run[r].status = "RUNNING"
          /\ dispatch[d].status = "PENDING"
       \/ /\ attempt[a].status = "SOFT_PAUSED" /\ run[r].status = "SOFT_PAUSED"
          /\ dispatch[d].status = "FAILED"
    /\ attempt' = [attempt EXCEPT ![a] =
          [@ EXCEPT !.status = "HARD_PAUSED", !.code = "NONE", !.agentRun = ~stopped]]
    /\ run' = [run EXCEPT ![r] =
          [@ EXCEPT !.status = "HARD_PAUSED", !.exhausted = Spend(r, usage)]]
    /\ workItem' = "BLOCKED"
    /\ dispatch' = [dispatch EXCEPT ![d].status =
                       IF @ = "FAILED" THEN "FAILED" ELSE "COMPLETED"]
    /\ UNCHANGED <<request, artifacts>>

\* END_PROVIDER_SESSION of an attempt that left RUNNING while its provider turn was in flight.
EndProviderSession(a) ==
    /\ attempt[a].agentRun
    /\ attempt[a].status \notin {"QUEUED", "RUNNING"}
    /\ attempt' = [attempt EXCEPT ![a].agentRun = FALSE]
    /\ UNCHANGED <<workItem, run, dispatch, request, artifacts>>

\* BUDGET_LIMIT_REACHED, the outcome of a provider that enforces the cap itself.
BudgetOutcome(r, a, d) ==
    /\ Executing(r, a, d)
    /\ attempt[a].stage = "IMPLEMENT"
    /\ attempt' = Leaves(a, "HARD_PAUSED", attempt[a].code)
    /\ run' = [run EXCEPT ![r] = [@ EXCEPT !.status = "HARD_PAUSED", !.exhausted = TRUE]]
    /\ workItem' = "BLOCKED"
    /\ dispatch' = Answered(d)
    /\ UNCHANGED <<request, artifacts>>

\* NEEDS_HUMAN: the stage waits for an answer.  A cap crossed by the same report parks nothing.
NeedsHuman(r, a, d, q, code, usage) ==
    /\ Executing(r, a, d)
    /\ attempt' = Leaves(a, "WAITING_HUMAN", code)
    /\ run' = [run EXCEPT ![r] =
          [@ EXCEPT !.status = "WAITING_HUMAN", !.exhausted = Spend(r, usage)]]
    /\ workItem' = "BLOCKED"
    /\ dispatch' = Answered(d)
    /\ request' = OpenRequest(q, a)
    /\ UNCHANGED artifacts

\* decideStageAttemptHardPause, reached from HARD_PAUSE_STAGE_ATTEMPT, from the second unproductive
\* END_PROVIDER_SESSION in a row, and from an outcome the workflow rejects.  It writes whatever
\* attempt it is given, and that attempt's run: neither the command nor the decision has a guard.
StageAttemptHardPause(r, a, q) ==
    /\ attempt' = Leaves(a, "HARD_PAUSED", "SESSION")
    /\ run' = [run EXCEPT ![r].status = "HARD_PAUSED"]
    /\ workItem' = "BLOCKED"
    /\ dispatch' = WithdrawDispatches(a)
    /\ request' = OpenRequest(q, a)
    /\ UNCHANGED artifacts

\* A session loop pauses the attempt it runs ...
SessionHardPause(r, a, d, q) ==
    /\ Executing(r, a, d)
    /\ StageAttemptHardPause(r, a, q)

\* The loops that a step overtakes: while a loop awaits git or its context pack no provider session
\* is in flight, so that pause and cancel finish its AgentRun themselves.
Overtaken ==
    {d \in DispatchId : d <= MaxStale /\ \E a \in AttemptId :
        /\ d \in Pending(a) /\ attempt[a].status = "RUNNING" /\ attempt[a].agentRun
        /\ attempt'[a].status \in {"SOFT_PAUSED", "CANCELLED"} /\ ~attempt'[a].agentRun}

\* The rows have room for a hard pause: the attempt is what an active run is at, and the owner is
\* asked nothing.
Standing(r, a) ==
    /\ Active(r) /\ IsCurrent(r, a) /\ run[r].status # "WAITING_HUMAN"
    /\ \A q \in RequestId : request[q].status # "OPEN"

\* ... and one that was overtaken pauses what it no longer runs: the floor of the context pack is
\* looked at before the revocation is.  The attempt may be paused, resumed under a later loop (which
\* is overtaken in turn), superseded or over by then, and its run too.
StaleHardPause(r, a, d, q) ==
    /\ d \in stale /\ dispatch[d].attempt = a /\ attempt[a].run = r
    /\ StageAttemptHardPause(r, a, q)
    /\ \E later \in {{}, {e \in Pending(a) : e <= MaxStale /\ attempt[a].status = "RUNNING" /\ attempt[a].agentRun}} :
          stale' = (stale \ {d}) \cup later
    /\ overruled' = IF Standing(r, a) THEN overruled ELSE overruled \cup {r}

Succeeded(a, tree) ==
    [attempt EXCEPT ![a] = [@ EXCEPT !.status = "SUCCEEDED", !.tree = tree, !.agentRun = FALSE]]

\* The rows of the attempt that follows, queued to start -- or, when the report that ended this
\* stage reached a cap, parked HARD_PAUSED with its dispatch withdrawn.
ContinueWith(r, a, d, b, e, row, tree, usage) ==
    LET parked  == usage # "BELOW"
        reports == IF attempt[a].stage = "REVIEW" THEN run[r].reports + 1 ELSE run[r].reports
        status  == IF parked THEN "HARD_PAUSED" ELSE "RUNNING"
    IN  /\ attempt' = [Succeeded(a, tree) EXCEPT ![b] =
               IF parked THEN [row EXCEPT !.status = "HARD_PAUSED"] ELSE row]
        /\ run' = [run EXCEPT ![r] = [@ EXCEPT !.status = status, !.current = b,
                                      !.exhausted = Spend(r, usage), !.reports = reports]]
        /\ workItem' = IF parked THEN "BLOCKED" ELSE "IN_PROGRESS"
        /\ dispatch' = [Answered(d) EXCEPT ![e] =
               [attempt |-> b, status |-> IF parked THEN "FAILED" ELSE "PENDING"]]
        /\ UNCHANGED request

\* The PASSED report a review or a QA stage leaves behind.
\* Mutant: it names the tree the attempt began with.
Evidence_BeforeStage(r, a, tree) ==
    IF attempt[a].stage = "QA"
    THEN {[run |-> r, kind |-> "QA_REPORT", tree |-> attempt[a].tree]} ELSE {}
Evidence(r, a, tree) ==
    CASE attempt[a].stage = "REVIEW" -> {[run |-> r, kind |-> "REVIEW_REPORT", tree |-> tree]}
      [] attempt[a].stage = "QA"     -> {[run |-> r, kind |-> "QA_REPORT", tree |-> tree]}
      [] OTHER                       -> {}

\* COMPLETED of a stage, a passing review included.  Acceptance is never completed this way, so
\* there is always a next stage.
StageCompleted(r, a, d, b, e, tree, usage) ==
    /\ Executing(r, a, d)
    /\ attempt[a].stage # "ACCEPTANCE"
    /\ attempt[a].stage \in {"REVIEW", "QA"} => CurrentTree(r, tree)
    /\ attempt[a].stage = "REVIEW" => run[r].reports < MaxTotalReviewRounds
    /\ \E i \in AfterStage(attempt[a].stage) :
          LET next == Template[i]
              number == IF attempt[a].stage = "IMPLEMENT" /\ next = "REVIEW"
                        THEN attempt[a].number ELSE 1
          IN  ContinueWith(r, a, d, b, e, QueuedAttempt(r, next, number), tree, usage)
    /\ artifacts' = artifacts \cup Evidence(r, a, tree)

\* A review that asks for changes before the automatic rounds are used up queues a fix.
ReviewQueuesFix(r, a, d, b, e, tree, usage) ==
    /\ Executing(r, a, d)
    /\ attempt[a].stage = "REVIEW" /\ CurrentTree(r, tree)
    /\ run[r].reports + 1 < MaxAutomaticReviewRounds
    /\ ContinueWith(r, a, d, b, e, QueuedAttempt(r, "IMPLEMENT", NextNumber(a)), tree, usage)
    /\ UNCHANGED artifacts

\* Otherwise the loop is exhausted and the owner decides.
ReviewWaitsForOwner(r, a, d, q, tree, usage) ==
    /\ Executing(r, a, d)
    /\ attempt[a].stage = "REVIEW" /\ CurrentTree(r, tree)
    /\ run[r].reports + 1 >= MaxAutomaticReviewRounds
    /\ run[r].reports < MaxTotalReviewRounds
    /\ attempt' = [attempt EXCEPT ![a] =
          [@ EXCEPT !.status = "WAITING_HUMAN", !.code = "REVIEW_LOOP_EXHAUSTED",
                    !.round = run[r].reports + 1, !.tree = tree, !.agentRun = FALSE]]
    /\ run' = [run EXCEPT ![r] =
          [@ EXCEPT !.status = "WAITING_HUMAN", !.reports = run[r].reports + 1,
                    !.exhausted = Spend(r, usage)]]
    /\ workItem' = "BLOCKED"
    /\ dispatch' = Answered(d)
    /\ request' = OpenRequest(q, a)
    /\ UNCHANGED artifacts

\* READY_FOR_ACCEPTANCE: the package binds a QA report of the current tree to a review of it.
\* A run has one package (acceptance_packages.pipeline_run_id is UNIQUE).
ReadyForAcceptance(r, a, d, q, tree, usage) ==
    /\ Executing(r, a, d)
    /\ attempt[a].stage = "ACCEPTANCE" /\ run[r].package = "NONE"
    /\ [run |-> r, kind |-> "QA_REPORT", tree |-> tree] \in artifacts
    /\ [run |-> r, kind |-> "REVIEW_REPORT", tree |-> tree] \in artifacts
    /\ attempt' = Leaves(a, "WAITING_HUMAN", attempt[a].code)
    /\ run' = [run EXCEPT ![r] =
          [@ EXCEPT !.status = "WAITING_HUMAN", !.exhausted = Spend(r, usage),
                    !.package = "PENDING", !.packageRequest = q, !.packageTree = tree]]
    /\ workItem' = "BLOCKED"
    /\ dispatch' = Answered(d)
    /\ request' = OpenRequest(q, a)
    /\ UNCHANGED artifacts

----
(* Owner commands on an active run *)

\* The guards of ANSWER_HUMAN_REQUEST common to every answer.
Answerable(r, a, q) ==
    /\ IsCurrent(r, a)
    /\ request[q] = [attempt |-> a, status |-> "OPEN"]
    /\ \/ run[r].status = "WAITING_HUMAN" /\ attempt[a].status = "WAITING_HUMAN"
       \/ /\ run[r].status = "HARD_PAUSED" /\ attempt[a].status = "HARD_PAUSED"
          /\ attempt[a].code = "SESSION"
    /\ ~(attempt[a].stage = "ACCEPTANCE" /\ run[r].packageRequest = q)

ReviewLoopExhausted(a) ==
    attempt[a].stage = "REVIEW" /\ attempt[a].code = "REVIEW_LOOP_EXHAUSTED"

\* Mutants: the failureCode is kept; the WorkItem stays BLOCKED.
Requeue_KeepsCode(r, a, d) ==
    /\ attempt' = [attempt EXCEPT ![a].status = "QUEUED"]
    /\ run' = [run EXCEPT ![r].status = "RUNNING"]
    /\ workItem' = "IN_PROGRESS"
    /\ dispatch' = CreateDispatch(dispatch, d, a)
Requeue(r, a, d) ==
    /\ attempt' = [attempt EXCEPT ![a] = [@ EXCEPT !.status = "QUEUED", !.code = "NONE"]]
    /\ run' = [run EXCEPT ![r].status = "RUNNING"]
    /\ workItem' = "IN_PROGRESS"
    /\ dispatch' = CreateDispatch(dispatch, d, a)

AnswerHumanRequest(r, a, q, d) ==
    /\ Answerable(r, a, q) /\ ~ReviewLoopExhausted(a)
    /\ Requeue(r, a, d)
    /\ request' = Resolved(q)
    /\ UNCHANGED artifacts

\* Mutant: one authorization too many.
FinalRoundLeft_Inclusive(a) == attempt[a].round <= MaxTotalReviewRounds
FinalRoundLeft(a) == attempt[a].round < MaxTotalReviewRounds

\* The owner authorizes the single extra fix round ...
AuthorizeFinalFixRound(r, a, q, b, d) ==
    /\ Answerable(r, a, q) /\ ReviewLoopExhausted(a)
    /\ FinalRoundLeft(a)
    /\ attempt' = [attempt EXCEPT ![a] = [@ EXCEPT !.status = "SUCCEEDED", !.code = "NONE"],
                     ![b] = QueuedAttempt(r, "IMPLEMENT", NextNumber(a))]
    /\ run' = [run EXCEPT ![r] = [@ EXCEPT !.status = "RUNNING", !.current = b]]
    /\ workItem' = "IN_PROGRESS"
    /\ dispatch' = CreateDispatch(dispatch, d, b)
    /\ request' = Resolved(q)
    /\ UNCHANGED artifacts

\* ... or cancels the work.
CancelReviewLoop(r, a, q) ==
    /\ Answerable(r, a, q) /\ ReviewLoopExhausted(a)
    /\ attempt' = [attempt EXCEPT ![a].status = "CANCELLED"]
    /\ run' = [run EXCEPT ![r].status = "CANCELLED"]
    /\ workItem' = "CANCELLED"
    /\ request' = Resolved(q)
    /\ UNCHANGED <<dispatch, artifacts>>

\* Pause and cancel leave the AgentRun to END_PROVIDER_SESSION while a provider session of the
\* attempt is RUNNING (`inFlight`), and finish it themselves otherwise.
Stops(a, s, inFlight) ==
    /\ inFlight => attempt[a].agentRun
    /\ attempt' = [attempt EXCEPT ![a] = [@ EXCEPT !.status = s, !.agentRun = inFlight]]
    /\ workItem' = IF s = "CANCELLED" THEN "CANCELLED" ELSE "BLOCKED"
    /\ dispatch' = WithdrawDispatches(a)

PausePipeline(r, a, inFlight) ==
    /\ IsCurrent(r, a)
    /\ run[r].status = "RUNNING"
    /\ attempt[a].status \in {"QUEUED", "RUNNING"}
    /\ Stops(a, "SOFT_PAUSED", inFlight)
    /\ run' = [run EXCEPT ![r].status = "SOFT_PAUSED"]
    /\ UNCHANGED <<request, artifacts>>

ResumePipeline(r, a, d) ==
    /\ IsCurrent(r, a)
    /\ run[r].status \in {"SOFT_PAUSED", "INTERRUPTED"}
    /\ attempt[a].status \in {"SOFT_PAUSED", "INTERRUPTED"}
    /\ ~attempt[a].agentRun
    /\ Requeue(r, a, d)
    /\ UNCHANGED <<request, artifacts>>

\* CANCEL_PIPELINE also cancels every open request of the WorkItem.
CancelPipeline(r, a, inFlight) ==
    /\ IsCurrent(r, a)
    /\ run[r].package # "PENDING"
    /\ Active(r)
    /\ Stops(a, "CANCELLED", inFlight)
    /\ run' = [run EXCEPT ![r].status = "CANCELLED"]
    /\ request' = WithdrawRequests
    /\ UNCHANGED artifacts

\* APPROVE_BUDGET_OVERRIDE: an attempt no provider saw keeps its row, every other one is
\* superseded by a new attempt of the same stage.  `preserved` is the QA attempt whose
\* browser measurement is already recorded.
ApproveBudgetOverride(r, a, b, d, preserved) ==
    /\ IsCurrent(r, a)
    /\ run[r].status = "HARD_PAUSED" /\ attempt[a].status = "HARD_PAUSED"
    /\ attempt[a].code # "SESSION"
    /\ preserved => attempt[a].stage = "QA"
    /\ IF ~attempt[a].started \/ preserved
       THEN /\ b = a
            /\ attempt' = [attempt EXCEPT ![a] = [@ EXCEPT !.status = "QUEUED", !.code = "NONE"]]
       ELSE /\ b \in NextId(attempt)
            /\ attempt' = [attempt EXCEPT ![b] =
                  QueuedAttempt(r, attempt[a].stage, NextNumber(a))]
    /\ run' = [run EXCEPT ![r] =
          [@ EXCEPT !.status = "RUNNING", !.current = b, !.exhausted = FALSE]]
    /\ workItem' = "IN_PROGRESS"
    /\ dispatch' = CreateDispatch(dispatch, d, b)
    /\ UNCHANGED <<request, artifacts>>

ResolveAcceptance(r, a, q, action) ==
    /\ IsCurrent(r, a)
    /\ run[r].package = "PENDING" /\ run[r].packageRequest = q
    /\ request[q].status = "OPEN"
    /\ run[r].status = "WAITING_HUMAN" /\ attempt[a].status = "WAITING_HUMAN"
    /\ attempt[a].stage = "ACCEPTANCE"
    /\ request' = Resolved(q)
    /\ LET ended(status, code) == [attempt EXCEPT ![a] = [@ EXCEPT !.status = status, !.code = code]]
           ends(status) == [run EXCEPT ![r] = [@ EXCEPT !.status = status, !.package = action]]
       IN  IF action = "ACCEPTED"
           THEN /\ attempt' = ended("SUCCEEDED", "NONE")
                /\ run' = ends("SUCCEEDED")
                /\ workItem' = "DONE"
           ELSE /\ attempt' = ended("FAILED", "ACCEPTANCE")
                /\ run' = ends("FAILED")
                /\ workItem' = "BLOCKED"
    /\ UNCHANGED <<dispatch, artifacts>>

\* RECONCILE_WORKFLOWS after a restart.  No AgentRun survives it, and a dispatch whose stage was
\* running is failed, never replayed: the run is INTERRUPTED until the owner resumes it.
Orphaned(r, a) ==
    /\ IsCurrent(r, a) /\ Pending(a) # {}
    /\ run[r].status = "RUNNING" /\ attempt[a].status = "RUNNING"

ReconcileWorkflows ==
    LET orphans == {a \in AttemptId : \E r \in RunId : Orphaned(r, a)} IN
    /\ stale # {} \/ \E a \in AttemptId : attempt[a].agentRun
    /\ attempt' = [a \in AttemptId |->
          IF a \in orphans
          THEN [attempt[a] EXCEPT !.status = "INTERRUPTED", !.code = "DAEMON_RESTART",
                                  !.agentRun = FALSE]
          ELSE [attempt[a] EXCEPT !.agentRun = FALSE]]
    /\ run' = [r \in RunId |-> IF \E a \in orphans : Orphaned(r, a)
                               THEN [run[r] EXCEPT !.status = "INTERRUPTED"] ELSE run[r]]
    /\ workItem' = IF orphans = {} THEN workItem ELSE "BLOCKED"
    /\ dispatch' = [d \in DispatchId |-> IF \E a \in orphans : d \in Pending(a)
                                         THEN [dispatch[d] EXCEPT !.status = "FAILED"]
                                         ELSE dispatch[d]]
    /\ UNCHANGED <<request, artifacts>>

----
Init ==
    /\ workItem = "BACKLOG"
    /\ run = [r \in RunId |-> NoRun]
    /\ attempt = [a \in AttemptId |-> NoAttempt]
    /\ dispatch = [d \in DispatchId |-> NoDispatch]
    /\ request = [q \in RequestId |-> NoRequest]
    /\ artifacts = {}
    /\ stale = {}
    /\ overruled = {}

ProviderOutcome(r, a, d) ==
    \/ BudgetOutcome(r, a, d)
    \/ \E q \in NextId(request) :
          \/ SessionHardPause(r, a, d, q)
          \/ \E code \in {"NONE", "PROVIDER"}, usage \in Usage :
                NeedsHuman(r, a, d, q, code, usage)
          \/ \E tree \in Tree, usage \in Usage :
                \/ ReviewWaitsForOwner(r, a, d, q, tree, usage)
                \/ ReadyForAcceptance(r, a, d, q, tree, usage)
    \/ \E b \in NextId(attempt), e \in NextId(dispatch), tree \in Tree, usage \in Usage :
          \/ StageCompleted(r, a, d, b, e, tree, usage)
          \/ ReviewQueuesFix(r, a, d, b, e, tree, usage)

DaemonCommand(r, a) ==
    \/ EndProviderSession(a)
    \/ \E d \in DispatchesOf(a) :
          \/ StartAgentRun(r, a, d)
          \/ ParkQueuedStageAttemptForBudget(r, a, d)
          \/ \E usage \in Usage, stopped \in BOOLEAN : RecordProviderUsage(r, a, d, usage, stopped)
          \/ ProviderOutcome(r, a, d)

OwnerCommand(r, a) ==
    \/ \E inFlight \in BOOLEAN : PausePipeline(r, a, inFlight) \/ CancelPipeline(r, a, inFlight)
    \/ \E d \in NextId(dispatch) :
          \/ ResumePipeline(r, a, d)
          \/ \E b \in {a} \cup NextId(attempt), preserved \in BOOLEAN :
                ApproveBudgetOverride(r, a, b, d, preserved)
    \/ \E q \in RequestId :
          \/ \E d \in NextId(dispatch) :
                \/ AnswerHumanRequest(r, a, q, d)
                \/ \E b \in NextId(attempt) : AuthorizeFinalFixRound(r, a, q, b, d)
          \/ CancelReviewLoop(r, a, q)
          \/ \E action \in {"ACCEPTED", "RETURNED", "REJECTED"} : ResolveAcceptance(r, a, q, action)

\* A command writes the rows.  The loops do not see it, and a restart ends them.
Command ==
    \/ \E target \in WorkItemState : MoveWorkItem(target)
    \/ \E r \in NextId(run), a \in NextId(attempt), d \in NextId(dispatch) : StartPipeline(r, a, d)
    \/ \E r \in RunId : \E a \in Current(r) : DaemonCommand(r, a) \/ OwnerCommand(r, a)
    \/ \E a \in AttemptId : (\A r \in RunId : a \notin Current(r)) /\ EndProviderSession(a)

Next ==
    \/ Command /\ stale' = stale \cup Overtaken /\ UNCHANGED overruled
    \/ ReconcileWorkflows /\ stale' = {} /\ UNCHANGED overruled
    \/ \E r \in RunId, a \in AttemptId, d \in stale, q \in NextId(request) : StaleHardPause(r, a, d, q)

Spec == Init /\ [][Next]_vars

----
(* Safety.  What a stale loop overruled is excused by name: the pause that only follows the rows is *)
(* not, whatever command it overtook. *)

\* A PENDING dispatch is a standing instruction to the daemon: a running pipeline has exactly one,
\* for its current stage, and a pipeline that is stopped, waiting or finished has none.  (A lost
\* one strands the run, a leftover one fails every drain: the comment on pendingDispatchFailed.)
StandingInstruction ==
    /\ \A d \in DispatchId : dispatch[d].status = "PENDING" =>
          \E r \in RunId : /\ run[r].status = "RUNNING"
                           /\ IsCurrent(r, dispatch[d].attempt)
    /\ \A r \in RunId : run[r].status = "RUNNING" =>
          \E d \in DispatchId : Pending(run[r].current) = {d}

\* The WorkItem, its run and the run's current attempt always tell the same story, although every
\* command writes the three rows separately.
StatusesAgree ==
    \A r \in RunId : LET s == attempt[run[r].current].status IN Active(r) =>
        /\ IsCurrent(r, run[r].current)
        /\ run[r].status = "RUNNING" => workItem = "IN_PROGRESS" /\ s \in {"QUEUED", "RUNNING"}
        /\ run[r].status # "RUNNING" => workItem = "BLOCKED" /\ s = run[r].status

\* At most one run of the WorkItem is active.
OneActiveRun == \A r, other \in RunId : Active(r) /\ Active(other) => r = other

\* The three are inductive only together: which attempt may be written next is decided by the
\* dispatch, which run it belongs to by the run's current attempt, what the WorkItem says by the run.
RowsAgree == OneActiveRun /\ StandingInstruction /\ StatusesAgree

\* The rows agree until a stale loop overrules them: from then on the run it paused may stand beside
\* the active one, or stopped with an attempt at work.
Lifecycle == overruled = {} => RowsAgree

\* An open question belongs to the current attempt of an active run that waits for it.  The
\* Attention Inbox refuses to project any other (requireConsistentSource), for the whole inbox.
OpenQuestionIsCurrent ==
    overruled = {} => \A q \in RequestId : request[q].status = "OPEN" =>
        \E r \in RunId :
            /\ IsCurrent(r, request[q].attempt)
            /\ run[r].status \in {"WAITING_HUMAN", "HARD_PAUSED"}

\* Two automatic review rounds and one the owner authorizes, across pauses, overrides and
\* restarts; the review that runs next always has a legal round (decideReviewLoop throws on
\* another and the command aborts; a stale loop may requeue a review that is out of rounds).
ReviewRoundsBounded ==
    \A r \in RunId :
        /\ run[r].reports <= MaxTotalReviewRounds
        /\ overruled = {} /\ Active(r) /\ attempt[run[r].current].stage = "REVIEW"
             /\ attempt[run[r].current].status \in {"QUEUED", "RUNNING"}
           => run[r].reports < MaxTotalReviewRounds

Implementations(r) ==
    {a \in AttemptId : /\ attempt[a].run = r /\ attempt[a].stage = "IMPLEMENT"
                       /\ attempt[a].status = "SUCCEEDED"}

\* What the owner is asked to accept, and what is Done, was reviewed and tested on the tree the
\* last implementation produced -- unless a stale loop took that implementation back.
AcceptedTreeIsVerified ==
    /\ \A r \in RunId : run[r].package \in {"PENDING", "ACCEPTED"} =>
          /\ overruled = {} => \E a \in Implementations(r) :
                /\ attempt[a].tree = run[r].packageTree
                /\ \A b \in Implementations(r) : attempt[b].number <= attempt[a].number
          /\ \A kind \in {"REVIEW_REPORT", "QA_REPORT"} :
                [run |-> r, kind |-> kind, tree |-> run[r].packageTree] \in artifacts
    /\ workItem = "DONE" => \E r \in RunId : run[r].package = "ACCEPTED"

\* No stage executes on a budget that is already spent, whichever report spent it: one whose
\* outcome asked a question or ended a stage parks the work at the next start instead, also after a
\* stale loop overruled the rows.
ExhaustedBudgetStopsWork ==
    \A r \in RunId : run[r].exhausted => attempt[run[r].current].status # "RUNNING"

----
(* What a step may never do *)

\* What is over keeps what it recorded: an attempt whose status "nothing in Loomrail ever moves out
\* of" (workflow.ts:304, without INTERRUPTED) or that its run has moved past, a run that ended, a
\* resolved question, a completed dispatch.  Only the rows of a run that a stale loop overruled change
\* afterwards; a resolved question and a completed dispatch do not even then.
HistoryIsKept ==
    [][/\ \A a \in AttemptId :
            /\ attempt[a].run \notin overruled'
            /\ \/ attempt[a].status \in {"SUCCEEDED", "FAILED", "CANCELLED"}
               \/ attempt[a].status # "NONE" /\ \A r \in RunId : run[r].current # a
            => attempt'[a] \in {attempt[a], [attempt[a] EXCEPT !.agentRun = FALSE]}
       /\ \A r \in RunId \ overruled' : run[r].status # "NONE" /\ ~Active(r) => run'[r] = run[r]
       /\ \A q \in RequestId : request[q].status \in {"RESOLVED", "CANCELLED"}
                               => request'[q] = request[q]
       /\ \A d \in DispatchId : dispatch[d].status \in {"COMPLETED", "FAILED"}
                                => dispatch'[d] = dispatch[d]]_vars

=============================================================================
