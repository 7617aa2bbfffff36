--------------------------- MODULE WorkflowProofs ---------------------------
\* Theorems about module Workflow, for every template, every set of trees
\* and every bound on the rows.
EXTENDS Workflow, TLAPS

(* The rows *)

\* Every absent row has its type.
LEMMA AbsentRowsType ==
    /\ NoRun \in RunRow
    /\ NoAttempt \in AttemptRow
    /\ NoDispatch \in DispatchRow
    /\ NoRequest \in RequestRow
BY DEF NoRun, NoAttempt, NoDispatch, NoRequest, RunRow, AttemptRow, DispatchRow, RequestRow,
       RunStatus, AttemptStatus, Stage, FailureCode

\* A queued attempt is a row, whatever run, stage and number it is given.
LEMMA QueuedAttemptType ==
    ASSUME NEW r \in RunId, NEW s \in Stage, NEW n \in Nat
    PROVE  QueuedAttempt(r, s, n) \in AttemptRow
BY AbsentRowsType DEF QueuedAttempt, AttemptRow, AttemptStatus

\* The ids NextId offers are ids of the table, and their rows are absent.
LEMMA NextIdIsAbsent ==
    ASSUME RowsOK
    PROVE  /\ \A r \in NextId(run) : r \in RunId /\ run[r].status = "NONE"
           /\ \A a \in NextId(attempt) : a \in AttemptId /\ attempt[a].status = "NONE"
           /\ \A d \in NextId(dispatch) : d \in DispatchId /\ dispatch[d].status = "NONE"
           /\ \A q \in NextId(request) : q \in RequestId /\ request[q].status = "NONE"
BY DEF RowsOK, NextId

\* The template names stages.
LEMMA TemplateStages ==
    /\ Template[1] \in Stage
    /\ \A s \in Stage : \A i \in AfterStage(s) : Template[i] \in Stage
BY TemplateAssumption DEF AfterStage

\* Withdrawing dispatches keeps the type of the table.
LEMMA WithdrawDispatchesType ==
    ASSUME RowsOK, NEW a \in AttemptId
    PROVE  WithdrawDispatches(a) \in [DispatchId -> DispatchRow]
BY DEF RowsOK, WithdrawDispatches, Pending, DispatchRow

\* Answering a dispatch, opening and resolving a question keep the type of the table.
LEMMA AnsweredType ==
    ASSUME RowsOK, NEW d \in DispatchId
    PROVE  Answered(d) \in [DispatchId -> DispatchRow]
BY DEF RowsOK, Answered, DispatchRow

LEMMA OpenRequestType ==
    ASSUME RowsOK, NEW q \in RequestId, NEW a \in AttemptId
    PROVE  /\ OpenRequest(q, a) \in [RequestId -> RequestRow]
           /\ Resolved(q) \in [RequestId -> RequestRow]
BY DEF RowsOK, OpenRequest, Resolved, RequestRow

\* A new dispatch keeps the type of the table.
LEMMA CreateDispatchType ==
    ASSUME NEW table \in [DispatchId -> DispatchRow], NEW d \in DispatchId, NEW a \in AttemptId
    PROVE  CreateDispatch(table, d, a) \in [DispatchId -> DispatchRow]
BY DEF CreateDispatch, DispatchRow

\* An attempt that leaves execution, or succeeds, is a row.
LEMMA LeavesType ==
    ASSUME RowsOK, NEW a \in AttemptId, NEW s \in AttemptStatus, NEW c \in FailureCode
    PROVE  Leaves(a, s, c) \in [AttemptId -> AttemptRow]
<1>1. [attempt[a] EXCEPT !.status = s, !.code = c, !.agentRun = FALSE] \in AttemptRow
  BY DEF RowsOK, AttemptRow
<1> QED BY <1>1 DEF RowsOK, Leaves

LEMMA SucceededType ==
    ASSUME RowsOK, NEW a \in AttemptId, NEW tree \in Tree
    PROVE  Succeeded(a, tree) \in [AttemptId -> AttemptRow]
<1>1. [attempt[a] EXCEPT !.status = "SUCCEEDED", !.tree = tree, !.agentRun = FALSE] \in AttemptRow
  BY DEF RowsOK, AttemptRow, AttemptStatus
<1> QED BY <1>1 DEF RowsOK, Succeeded

LEMMA SpendType ==
    ASSUME RowsOK, NEW r \in RunId, NEW usage \in Usage
    PROVE  Spend(r, usage) \in BOOLEAN
BY DEF RowsOK, Spend, RunRow

\* A run that changes its status, or its status and its budget, is a row.
LEMMA RunStatusType ==
    ASSUME RowsOK, NEW r \in RunId, NEW s \in RunStatus, NEW x \in BOOLEAN
    PROVE  /\ [run[r] EXCEPT !.status = s] \in RunRow
           /\ [run EXCEPT ![r].status = s] \in [RunId -> RunRow]
           /\ [run EXCEPT ![r] = [@ EXCEPT !.status = s, !.exhausted = x]] \in [RunId -> RunRow]
<1>1. [run[r] EXCEPT !.status = s] \in RunRow
  BY DEF RowsOK, RunRow
<1>2. [run[r] EXCEPT !.status = s, !.exhausted = x] \in RunRow
  BY DEF RowsOK, RunRow
<1> QED BY <1>1, <1>2 DEF RowsOK

\* The statuses the commands write.
LEMMA Statuses ==
    /\ ActiveRunStatus \cup {"SUCCEEDED", "FAILED", "CANCELLED"} \subseteq RunStatus
    /\ {"RUNNING", "WAITING_HUMAN", "SOFT_PAUSED", "HARD_PAUSED", "INTERRUPTED"} = ActiveRunStatus
    /\ ActiveRunStatus \cup {"QUEUED", "SUCCEEDED", "FAILED", "CANCELLED"} \subseteq AttemptStatus
BY DEF ActiveRunStatus, RunStatus, AttemptStatus

\* Attempts are numbered with naturals.
LEMMA NextNumberType ==
    ASSUME RowsOK, NEW a \in AttemptId
    PROVE  NextNumber(a) \in Nat
BY DEF RowsOK, NextNumber, AttemptRow

\* Going on to the next stage writes rows of their types.
LEMMA ContinueWithType ==
    ASSUME RowsOK, NEW r \in RunId, NEW a \in AttemptId, NEW d \in DispatchId, NEW b \in AttemptId,
           NEW e \in DispatchId, NEW row \in AttemptRow, NEW tree \in Tree, NEW usage \in Usage,
           ContinueWith(r, a, d, b, e, row, tree, usage)
    PROVE  /\ workItem' \in WorkItemState
           /\ run' \in [RunId -> RunRow]
           /\ attempt' \in [AttemptId -> AttemptRow]
           /\ dispatch' \in [DispatchId -> DispatchRow]
           /\ request' \in [RequestId -> RequestRow]
<1>1. Succeeded(a, tree) \in [AttemptId -> AttemptRow]
  BY SucceededType
<1>2. [row EXCEPT !.status = "HARD_PAUSED"] \in AttemptRow
  BY DEF AttemptRow, AttemptStatus
<1>3. attempt' \in [AttemptId -> AttemptRow]
  BY <1>1, <1>2 DEF ContinueWith
<1>4. run' \in [RunId -> RunRow]
  <2>1. \A status \in {"HARD_PAUSED", "RUNNING"}, x \in BOOLEAN, n \in Nat :
           [run[r] EXCEPT !.status = status, !.current = b, !.exhausted = x, !.reports = n] \in RunRow
    BY DEF RowsOK, RunRow, RunStatus, ActiveRunStatus
  <2>2. Spend(r, usage) \in BOOLEAN
    BY SpendType
  <2>3. run[r].reports \in Nat /\ run[r].reports + 1 \in Nat
    BY DEF RowsOK, RunRow
  <2> QED BY <2>1, <2>2, <2>3 DEF RowsOK, ContinueWith
<1>5. dispatch' \in [DispatchId -> DispatchRow]
  BY AnsweredType DEF ContinueWith, DispatchRow
<1> QED BY <1>3, <1>4, <1>5 DEF RowsOK, ContinueWith, WorkItemState

----
(* Type correctness *)

\* A hard pause keeps the types, whatever it writes.
LEMMA HardPauseType ==
    ASSUME RowsOK, NEW r \in RunId, NEW a \in AttemptId, NEW q \in RequestId, StageAttemptHardPause(r, a, q)
    PROVE  RowsOK'
<1>1. "SESSION" \in FailureCode /\ "BLOCKED" \in WorkItemState /\ "HARD_PAUSED" \in RunStatus
         /\ "HARD_PAUSED" \in AttemptStatus
  BY Statuses DEF FailureCode, WorkItemState, ActiveRunStatus
<1> QED
  BY <1>1, LeavesType, RunStatusType, WithdrawDispatchesType, OpenRequestType
     DEF StageAttemptHardPause, RowsOK

\* The steps of the daemon's commands keep the types.
LEMMA DaemonCommandType ==
    ASSUME RowsOK, NEW r \in RunId, NEW a \in AttemptId, DaemonCommand(r, a)
    PROVE  RowsOK'
<1> USE DEF RowsOK
<1>1. CASE EndProviderSession(a)
    BY <1>1 DEF EndProviderSession, AttemptRow
<1>2. ASSUME NEW d \in DispatchId, StartAgentRun(r, a, d)
      PROVE  RowsOK'
  <2>1. [attempt[a] EXCEPT !.status = "RUNNING", !.started = TRUE, !.agentRun = TRUE] \in AttemptRow
    BY DEF AttemptRow, AttemptStatus
  <2> QED BY <1>2, <2>1 DEF StartAgentRun
<1>3. ASSUME NEW d \in DispatchId, ParkQueuedStageAttemptForBudget(r, a, d)
      PROVE  RowsOK'
  <2>1. [attempt[a] EXCEPT !.status = "HARD_PAUSED", !.code = "NONE"] \in AttemptRow
    BY DEF AttemptRow, AttemptStatus, FailureCode
  <2>2. [dispatch[d] EXCEPT !.status = "FAILED"] \in DispatchRow
    BY DEF DispatchRow
  <2> QED BY <1>3, <2>1, <2>2, RunStatusType, Statuses DEF ParkQueuedStageAttemptForBudget, WorkItemState
<1>4. ASSUME NEW d \in DispatchId, NEW usage \in Usage, NEW stopped \in BOOLEAN,
             RecordProviderUsage(r, a, d, usage, stopped)
      PROVE  RowsOK'
  <2>1. [attempt[a] EXCEPT !.status = "HARD_PAUSED", !.code = "NONE", !.agentRun = ~stopped]
           \in AttemptRow
    BY DEF AttemptRow, AttemptStatus, FailureCode
  <2>2. \A s \in {"FAILED", "COMPLETED"} : [dispatch[d] EXCEPT !.status = s] \in DispatchRow
    BY DEF DispatchRow
  <2>3. dispatch' \in [DispatchId -> DispatchRow]
    BY <1>4, <2>2 DEF RecordProviderUsage
  <2>4. run' \in [RunId -> RunRow]
    BY <1>4, SpendType, RunStatusType, Statuses DEF RecordProviderUsage
  <2> QED BY <1>4, <2>1, <2>3, <2>4 DEF RecordProviderUsage, WorkItemState
<1>5. ASSUME NEW d \in DispatchId, BudgetOutcome(r, a, d)
      PROVE  RowsOK'
  <2>1. attempt[a].code \in FailureCode
    BY DEF AttemptRow
  <2> QED BY <1>5, <2>1, LeavesType, RunStatusType, AnsweredType, Statuses DEF BudgetOutcome, WorkItemState
<1>6. ASSUME NEW d \in DispatchId, NEW q \in RequestId, SessionHardPause(r, a, d, q)
      PROVE  RowsOK'
  BY <1>6, HardPauseType DEF SessionHardPause
<1>7. ASSUME NEW d \in DispatchId, NEW q \in RequestId, NEW code \in {"NONE", "PROVIDER"},
             NEW usage \in Usage, NeedsHuman(r, a, d, q, code, usage)
      PROVE  RowsOK'
  <2>1. code \in FailureCode
    BY DEF FailureCode
  <2>2. QED
    BY <1>7, <2>1, LeavesType, SpendType, RunStatusType, AnsweredType, OpenRequestType, Statuses
       DEF NeedsHuman, WorkItemState
<1>8. ASSUME NEW d \in DispatchId, NEW q \in RequestId, NEW tree \in Tree, NEW usage \in Usage,
             ReviewWaitsForOwner(r, a, d, q, tree, usage)
      PROVE  RowsOK'
  <2>1. run[r].reports \in Nat /\ run[r].reports + 1 \in Nat
    BY DEF RunRow
  <2>2. [attempt[a] EXCEPT !.status = "WAITING_HUMAN", !.code = "REVIEW_LOOP_EXHAUSTED",
                           !.round = run[r].reports + 1, !.tree = tree, !.agentRun = FALSE]
           \in AttemptRow
    BY <2>1 DEF AttemptRow, AttemptStatus, FailureCode
  <2>3. \A n \in Nat, x \in BOOLEAN :
           [run[r] EXCEPT !.status = "WAITING_HUMAN", !.reports = n, !.exhausted = x] \in RunRow
    BY DEF RunRow, RunStatus, ActiveRunStatus
  <2>4. attempt' \in [AttemptId -> AttemptRow]
    BY <1>8, <2>2 DEF ReviewWaitsForOwner
  <2>5. run' \in [RunId -> RunRow]
    BY <1>8, <2>1, <2>3, SpendType DEF ReviewWaitsForOwner
  <2> QED BY <1>8, <2>4, <2>5, AnsweredType, OpenRequestType DEF ReviewWaitsForOwner, WorkItemState
<1>9. ASSUME NEW d \in DispatchId, NEW q \in RequestId, NEW tree \in Tree, NEW usage \in Usage,
             ReadyForAcceptance(r, a, d, q, tree, usage)
      PROVE  RowsOK'
  <2>1. attempt[a].code \in FailureCode
    BY DEF AttemptRow
  <2>2. [run[r] EXCEPT !.status = "WAITING_HUMAN", !.exhausted = Spend(r, usage),
                       !.package = "PENDING", !.packageRequest = q, !.packageTree = tree] \in RunRow
    BY SpendType DEF RunRow, RunStatus, ActiveRunStatus
  <2>3. QED
    BY <1>9, <2>1, <2>2, LeavesType, AnsweredType, OpenRequestType, Statuses
       DEF ReadyForAcceptance, WorkItemState
<1>10. ASSUME NEW d \in DispatchId, NEW b \in AttemptId, NEW e \in DispatchId, NEW tree \in Tree,
              NEW usage \in Usage, StageCompleted(r, a, d, b, e, tree, usage)
       PROVE  RowsOK'
  <2>1. PICK i \in AfterStage(attempt[a].stage), number \in Nat :
           ContinueWith(r, a, d, b, e, QueuedAttempt(r, Template[i], number), tree, usage)
    BY <1>10 DEF StageCompleted, AttemptRow
  <2>2. Template[i] \in Stage
    BY TemplateStages DEF AttemptRow
  <2>3. artifacts' \subseteq Artifact
    BY <1>10 DEF StageCompleted, Evidence, Artifact
  <2> QED BY <2>1, <2>2, <2>3, QueuedAttemptType, ContinueWithType
<1>11. ASSUME NEW d \in DispatchId, NEW b \in AttemptId, NEW e \in DispatchId, NEW tree \in Tree,
              NEW usage \in Usage, ReviewQueuesFix(r, a, d, b, e, tree, usage)
       PROVE  RowsOK'
  <2>1. "IMPLEMENT" \in Stage
    BY DEF Stage
  <2> QED BY <1>11, <2>1, QueuedAttemptType, ContinueWithType, NextNumberType DEF ReviewQueuesFix
<1> HIDE DEF RowsOK
<1>12. QED
    BY <1>1, <1>2, <1>3, <1>4, <1>5, <1>6, <1>7, <1>8, <1>9, <1>10, <1>11, NextIdIsAbsent
       DEF DaemonCommand, ProviderOutcome, DispatchesOf

\* Requeueing the current attempt keeps the types.
LEMMA RequeueType ==
    ASSUME RowsOK, NEW r \in RunId, NEW a \in AttemptId, NEW d \in DispatchId, Requeue(r, a, d)
    PROVE  /\ workItem' \in WorkItemState
           /\ run' \in [RunId -> RunRow]
           /\ attempt' \in [AttemptId -> AttemptRow]
           /\ dispatch' \in [DispatchId -> DispatchRow]
<1>1. [attempt[a] EXCEPT !.status = "QUEUED", !.code = "NONE"] \in AttemptRow
  BY DEF RowsOK, AttemptRow, AttemptStatus, FailureCode
<1>2. attempt' \in [AttemptId -> AttemptRow]
  BY <1>1 DEF RowsOK, Requeue
<1> QED BY <1>2, RunStatusType, Statuses, CreateDispatchType DEF RowsOK, Requeue, WorkItemState

\* Stopping an attempt keeps the types.
LEMMA StopsType ==
    ASSUME RowsOK, NEW a \in AttemptId, NEW s \in {"SOFT_PAUSED", "CANCELLED"},
           NEW inFlight \in BOOLEAN, Stops(a, s, inFlight)
    PROVE  /\ workItem' \in WorkItemState
           /\ attempt' \in [AttemptId -> AttemptRow]
           /\ dispatch' \in [DispatchId -> DispatchRow]
<1>1. [attempt[a] EXCEPT !.status = s, !.agentRun = inFlight] \in AttemptRow
  BY DEF RowsOK, AttemptRow, AttemptStatus
<1>2. attempt' \in [AttemptId -> AttemptRow]
  BY <1>1 DEF RowsOK, Stops
<1> QED BY <1>2, WithdrawDispatchesType DEF Stops, WorkItemState

\* The owner's commands on a run keep the types.
LEMMA OwnerCommandType ==
    ASSUME RowsOK, NEW r \in RunId, NEW a \in AttemptId, OwnerCommand(r, a)
    PROVE  RowsOK'
<1> USE DEF RowsOK
<1>1. ASSUME NEW inFlight \in BOOLEAN, PausePipeline(r, a, inFlight)
      PROVE  RowsOK'
    BY <1>1, StopsType, RunStatusType, Statuses DEF PausePipeline
<1>2. ASSUME NEW inFlight \in BOOLEAN, CancelPipeline(r, a, inFlight)
      PROVE  RowsOK'
  <2>1. WithdrawRequests \in [RequestId -> RequestRow]
    BY DEF WithdrawRequests, RequestRow
  <2> QED BY <1>2, <2>1, StopsType, RunStatusType, Statuses DEF CancelPipeline
<1>3. ASSUME NEW d \in DispatchId, ResumePipeline(r, a, d)
      PROVE  RowsOK'
    BY <1>3, RequeueType DEF ResumePipeline
<1>4. ASSUME NEW q \in RequestId, NEW d \in DispatchId, AnswerHumanRequest(r, a, q, d)
      PROVE  RowsOK'
    BY <1>4, RequeueType, OpenRequestType DEF AnswerHumanRequest
<1>5. ASSUME NEW b \in AttemptId, NEW d \in DispatchId, NEW preserved \in BOOLEAN,
             ApproveBudgetOverride(r, a, b, d, preserved)
      PROVE  RowsOK'
  <2>1. [attempt[a] EXCEPT !.status = "QUEUED", !.code = "NONE"] \in AttemptRow
    BY DEF AttemptRow, AttemptStatus, FailureCode
  <2>2. QueuedAttempt(r, attempt[a].stage, NextNumber(a)) \in AttemptRow
    BY QueuedAttemptType, NextNumberType DEF AttemptRow
  <2>3. attempt' \in [AttemptId -> AttemptRow]
    BY <1>5, <2>1, <2>2 DEF ApproveBudgetOverride
  <2>4. [run[r] EXCEPT !.status = "RUNNING", !.current = b, !.exhausted = FALSE] \in RunRow
    BY DEF RunRow, RunStatus, ActiveRunStatus
  <2>5. run' \in [RunId -> RunRow]
    BY <1>5, <2>4 DEF ApproveBudgetOverride
  <2> QED BY <1>5, <2>3, <2>5, CreateDispatchType DEF ApproveBudgetOverride, WorkItemState
<1>6. ASSUME NEW q \in RequestId, NEW b \in AttemptId, NEW d \in DispatchId,
             AuthorizeFinalFixRound(r, a, q, b, d)
      PROVE  RowsOK'
  <2>1. [attempt[a] EXCEPT !.status = "SUCCEEDED", !.code = "NONE"] \in AttemptRow
    BY DEF AttemptRow, AttemptStatus, FailureCode
  <2>2. QueuedAttempt(r, "IMPLEMENT", NextNumber(a)) \in AttemptRow
    BY QueuedAttemptType, NextNumberType DEF Stage
  <2>3. attempt' \in [AttemptId -> AttemptRow]
    BY <1>6, <2>1, <2>2 DEF AuthorizeFinalFixRound
  <2>4. [run[r] EXCEPT !.status = "RUNNING", !.current = b] \in RunRow
    BY DEF RunRow, RunStatus, ActiveRunStatus
  <2>5. run' \in [RunId -> RunRow]
    BY <1>6, <2>4 DEF AuthorizeFinalFixRound
  <2> QED BY <1>6, <2>3, <2>5, CreateDispatchType, OpenRequestType DEF AuthorizeFinalFixRound, WorkItemState
<1>7. ASSUME NEW q \in RequestId, CancelReviewLoop(r, a, q)
      PROVE  RowsOK'
  <2>1. [attempt[a] EXCEPT !.status = "CANCELLED"] \in AttemptRow
    BY DEF AttemptRow, AttemptStatus
  <2> QED BY <1>7, <2>1, RunStatusType, Statuses, OpenRequestType DEF CancelReviewLoop, WorkItemState
<1>8. ASSUME NEW q \in RequestId, NEW action \in {"ACCEPTED", "RETURNED", "REJECTED"},
             ResolveAcceptance(r, a, q, action)
      PROVE  RowsOK'
  <2>1. \A status \in {"SUCCEEDED", "FAILED"}, code \in {"NONE", "ACCEPTANCE"} :
           [attempt[a] EXCEPT !.status = status, !.code = code] \in AttemptRow
    <3>1. attempt[a] \in AttemptRow
      OBVIOUS
    <3>2. TAKE status \in {"SUCCEEDED", "FAILED"}, code \in {"NONE", "ACCEPTANCE"}
    <3>3. status \in AttemptStatus /\ code \in FailureCode
      BY DEF AttemptStatus, FailureCode
    <3> QED BY <3>1, <3>3 DEF AttemptRow
  <2>2. \A status \in {"SUCCEEDED", "FAILED"} :
           [run[r] EXCEPT !.status = status, !.package = action] \in RunRow
    BY DEF RunRow, RunStatus
  <2>3. attempt' \in [AttemptId -> AttemptRow]
    BY <1>8, <2>1 DEF ResolveAcceptance
  <2>4. run' \in [RunId -> RunRow]
    BY <1>8, <2>2 DEF ResolveAcceptance
  <2> QED BY <1>8, <2>3, <2>4, OpenRequestType DEF ResolveAcceptance, WorkItemState
<1> HIDE DEF RowsOK
<1> QED BY <1>1, <1>2, <1>3, <1>4, <1>5, <1>6, <1>7, <1>8, NextIdIsAbsent DEF OwnerCommand

\* A restart keeps the types.
LEMMA ReconcileWorkflowsType ==
    ASSUME RowsOK, ReconcileWorkflows
    PROVE  RowsOK'
<1> USE DEF RowsOK
<1>1. \A a \in AttemptId :
         /\ [attempt[a] EXCEPT !.agentRun = FALSE] \in AttemptRow
         /\ [attempt[a] EXCEPT !.status = "INTERRUPTED", !.code = "DAEMON_RESTART", !.agentRun = FALSE]
               \in AttemptRow
  BY DEF AttemptRow, AttemptStatus, FailureCode
<1>2. attempt' \in [AttemptId -> AttemptRow]
  BY <1>1 DEF ReconcileWorkflows
<1>3. run' \in [RunId -> RunRow]
  BY RunStatusType, Statuses DEF ReconcileWorkflows
<1>4. \A d \in DispatchId : [dispatch[d] EXCEPT !.status = "FAILED"] \in DispatchRow
  BY DEF DispatchRow
<1>5. dispatch' \in [DispatchId -> DispatchRow]
  BY <1>4 DEF ReconcileWorkflows
<1> QED BY <1>2, <1>3, <1>5 DEF ReconcileWorkflows, WorkItemState

\* A command leaves the rows typed.
LEMMA CommandType ==
    ASSUME RowsOK, Command
    PROVE  RowsOK'
<1>1. ASSUME NEW target \in WorkItemState, MoveWorkItem(target)
      PROVE  RowsOK'
  BY <1>1 DEF RowsOK, MoveWorkItem
<1>2. ASSUME NEW r \in RunId, NEW a \in AttemptId, NEW d \in DispatchId, StartPipeline(r, a, d)
      PROVE  RowsOK'
  <2>1. [run[r] EXCEPT !.status = "RUNNING", !.current = a] \in RunRow
    BY DEF RowsOK, RunRow, RunStatus, ActiveRunStatus
  <2>2. QueuedAttempt(r, Template[1], 1) \in AttemptRow
    BY QueuedAttemptType, TemplateStages
  <2> QED
    BY <1>2, <2>1, <2>2, CreateDispatchType DEF RowsOK, StartPipeline, WorkItemState
<1>3. ASSUME NEW a \in AttemptId, EndProviderSession(a)
      PROVE  RowsOK'
  BY <1>3 DEF RowsOK, EndProviderSession, AttemptRow
<1> QED
  BY <1>1, <1>2, <1>3, DaemonCommandType, OwnerCommandType, NextIdIsAbsent DEF Command, Current

\* Every variable keeps its type.
THEOREM TypeCorrect == Spec => []TypeOK
<1>1. Init => TypeOK
  BY AbsentRowsType DEF Init, TypeOK, RowsOK, WorkItemState
<1>2. TypeOK /\ [Next]_vars => TypeOK'
  <2> SUFFICES ASSUME TypeOK, [Next]_vars
               PROVE  TypeOK'
    OBVIOUS
  <2>1. RowsOK
    BY DEF TypeOK
  <2>2. CASE Command /\ stale' = stale \cup Overtaken /\ UNCHANGED overruled
    BY <2>1, <2>2, CommandType DEF TypeOK, Overtaken
  <2>3. CASE ReconcileWorkflows /\ stale' = {} /\ UNCHANGED overruled
    BY <2>1, <2>3, ReconcileWorkflowsType DEF TypeOK
  <2>4. ASSUME NEW r \in RunId, NEW a \in AttemptId, NEW d \in stale, NEW q \in NextId(request),
               StaleHardPause(r, a, d, q)
        PROVE  TypeOK'
    <3>1. RowsOK'
      BY <2>1, <2>4, NextIdIsAbsent, HardPauseType DEF StaleHardPause
    <3> QED
      BY <2>4, <3>1 DEF TypeOK, StaleHardPause, Pending
  <2>5. CASE UNCHANGED vars
    BY <2>5 DEF TypeOK, RowsOK, vars
  <2> QED
    BY <2>2, <2>3, <2>4, <2>5 DEF Next
<1> QED
  BY <1>1, <1>2, PTL DEF Spec

\* What was overruled stays so.
LEMMA OverruledStays ==
    ASSUME [Next]_vars
    PROVE  overruled \subseteq overruled'
BY DEF Next, StaleHardPause, vars

----
(* One active run, one standing instruction *)

\* While a run is active every PENDING dispatch is for its current attempt, and there is at most
\* one; none when the run is not RUNNING.
LEMMA PendingIsForCurrent ==
    ASSUME RowsOK, RowsAgree, NEW r \in RunId, NEW a, IsCurrent(r, a), Active(r)
    PROVE  /\ \A d \in DispatchId : dispatch[d].status = "PENDING" =>
                 dispatch[d].attempt = a /\ run[r].status = "RUNNING"
           /\ \A d, e \in DispatchId :
                 dispatch[d].status = "PENDING" /\ dispatch[e].status = "PENDING" => d = e
<1>1. ASSUME NEW d \in DispatchId, dispatch[d].status = "PENDING"
      PROVE  dispatch[d].attempt = a /\ run[r].status = "RUNNING"
  <2>1. PICK o \in RunId : run[o].status = "RUNNING" /\ IsCurrent(o, dispatch[d].attempt)
    BY <1>1 DEF RowsAgree, StandingInstruction
  <2>2. o = r
    BY <2>1 DEF RowsAgree, OneActiveRun, Active, ActiveRunStatus
  <2> QED BY <2>1, <2>2 DEF IsCurrent
<1> QED BY <1>1 DEF RowsAgree, StandingInstruction, IsCurrent, Pending

\* A step writes run r and no other, and no other is active.
OnlyRunWritten(r) == \A o \in RunId \ {r} : ~Active(o) /\ run'[o] = run[o]

\* A step that leaves run r stopped on attempt c, or ended, with no instruction standing.
LEMMA StoppedLifecycle ==
    ASSUME NEW r \in RunId, NEW c \in AttemptId,
           OnlyRunWritten(r),
           run'[r].current = c, attempt'[c].run = r,
           run'[r].status # "RUNNING",
           run'[r].status \in ActiveRunStatus =>
              workItem' = "BLOCKED" /\ attempt'[c].status = run'[r].status,
           \A d \in DispatchId : dispatch'[d].status # "PENDING"
    PROVE  RowsAgree'
<1>1. \A o \in RunId : o # r => ~Active(o)' /\ run'[o].status # "RUNNING"
  BY DEF OnlyRunWritten, Active, ActiveRunStatus
<1>2. OneActiveRun'
  BY <1>1 DEF OneActiveRun
<1>3. StandingInstruction'
  BY <1>1 DEF StandingInstruction
<1>4. StatusesAgree'
  BY <1>1 DEF StatusesAgree, IsCurrent, Active
<1> QED BY <1>2, <1>3, <1>4 DEF RowsAgree

\* A step that leaves run r RUNNING on attempt c, with dispatch d the one instruction.
LEMMA RunningLifecycle ==
    ASSUME NEW r \in RunId, NEW c \in AttemptId, NEW d \in DispatchId,
           OnlyRunWritten(r),
           run'[r].current = c, attempt'[c].run = r,
           run'[r].status = "RUNNING", workItem' = "IN_PROGRESS",
           attempt'[c].status \in {"QUEUED", "RUNNING"},
           dispatch'[d].status = "PENDING", dispatch'[d].attempt = c,
           \A e \in DispatchId \ {d} : dispatch'[e].status # "PENDING"
    PROVE  RowsAgree'
<1>1. \A o \in RunId : o # r => ~Active(o)' /\ run'[o].status # "RUNNING"
  BY DEF OnlyRunWritten, Active, ActiveRunStatus
<1>2. OneActiveRun'
  BY <1>1 DEF OneActiveRun
<1>3. StandingInstruction'
  BY <1>1 DEF StandingInstruction, IsCurrent, Pending
<1>4. StatusesAgree'
  BY <1>1 DEF StatusesAgree, IsCurrent, Active
<1> QED BY <1>2, <1>3, <1>4 DEF RowsAgree

\* What the table operators do to the standing instructions of the active run.
LEMMA DispatchEffects ==
    ASSUME RowsOK, RowsAgree, NEW r \in RunId, NEW a \in AttemptId, IsCurrent(r, a), Active(r)
    PROVE  /\ \A d, e \in DispatchId :
                 dispatch[d].status = "PENDING" => Answered(d)[e].status # "PENDING"
           /\ \A e \in DispatchId : WithdrawDispatches(a)[e].status # "PENDING"
           /\ run[r].status # "RUNNING" => \A e \in DispatchId : dispatch[e].status # "PENDING"
<1>1. \A d, e \in DispatchId : dispatch[d].status = "PENDING" => Answered(d)[e].status # "PENDING"
  BY PendingIsForCurrent DEF RowsOK, Answered, DispatchRow
<1>2. \A e \in DispatchId : WithdrawDispatches(a)[e].status # "PENDING"
  BY PendingIsForCurrent DEF RowsOK, WithdrawDispatches, Pending, DispatchRow
<1> QED BY <1>1, <1>2, PendingIsForCurrent

LEMMA CreateDispatchEffect ==
    ASSUME NEW table \in [DispatchId -> DispatchRow], NEW d \in DispatchId, NEW a \in AttemptId,
           \A e \in DispatchId : table[e].status # "PENDING"
    PROVE  /\ CreateDispatch(table, d, a)[d].status = "PENDING"
           /\ CreateDispatch(table, d, a)[d].attempt = a
           /\ \A e \in DispatchId \ {d} : CreateDispatch(table, d, a)[e].status # "PENDING"
BY DEF CreateDispatch

LEMMA OtherRuns ==
    ASSUME RowsOK, RowsAgree, NEW r \in RunId, Active(r), NEW row, run' = [run EXCEPT ![r] = row]
    PROVE  OnlyRunWritten(r)
BY DEF RowsOK, RowsAgree, OneActiveRun, OnlyRunWritten

\* An executing stage belongs to a RUNNING run.
LEMMA ExecutingIsRunning ==
    ASSUME RowsOK, RowsAgree, NEW r \in RunId, NEW a \in AttemptId, NEW d \in DispatchId,
           IsCurrent(r, a), dispatch[d] = [attempt |-> a, status |-> "PENDING"]
    PROVE  run[r].status = "RUNNING" /\ Active(r)
<1>1. dispatch[d].status = "PENDING" /\ dispatch[d].attempt = a
  OBVIOUS
<1>2. PICK o \in RunId : run[o].status = "RUNNING" /\ IsCurrent(o, a)
  BY <1>1 DEF RowsAgree, StandingInstruction
<1> QED BY <1>2 DEF IsCurrent, Active, ActiveRunStatus

\* A step that only touches fields the lifecycle does not read.
LEMMA LifecycleFrame ==
    ASSUME RowsAgree, UNCHANGED <<workItem, run, dispatch>>,
           \A a \in AttemptId : /\ attempt'[a].run = attempt[a].run
                                /\ attempt'[a].status = attempt[a].status
    PROVE  RowsAgree'
<1>1. OneActiveRun'
  BY DEF RowsAgree, OneActiveRun, Active
<1>2. \A r \in RunId : \A a : IsCurrent(r, a) <=> IsCurrent(r, a)'
  BY DEF IsCurrent
<1>3. StandingInstruction'
  BY <1>2 DEF RowsAgree, StandingInstruction, Pending
<1>4. StatusesAgree'
  BY <1>2 DEF RowsAgree, StatusesAgree, Active, IsCurrent
<1> QED BY <1>1, <1>3, <1>4 DEF RowsAgree

LEMMA EndProviderSessionLifecycle ==
    ASSUME RowsOK, RowsAgree, NEW a \in AttemptId, EndProviderSession(a)
    PROVE  RowsAgree'
<1>1. \A b \in AttemptId : attempt'[b].run = attempt[b].run /\ attempt'[b].status = attempt[b].status
  BY DEF RowsOK, EndProviderSession, AttemptRow
<1> QED BY <1>1, LifecycleFrame DEF EndProviderSession

\* A stage whose outcome was accepted is followed by the next attempt, standing or parked.
LEMMA ContinueWithLifecycle ==
    ASSUME RowsOK, RowsAgree, NEW r \in RunId, NEW a \in AttemptId, NEW d \in DispatchId,
           NEW b \in AttemptId, NEW e \in DispatchId, NEW s \in Stage, NEW n \in Nat,
           NEW tree \in Tree, NEW usage \in Usage,
           IsCurrent(r, a), Executing(r, a, d),
           ContinueWith(r, a, d, b, e, QueuedAttempt(r, s, n), tree, usage)
    PROVE  RowsAgree'
<1> DEFINE row == QueuedAttempt(r, s, n)
<1>1. Active(r) /\ dispatch[d].status = "PENDING"
  BY ExecutingIsRunning DEF Executing
<1>2. OnlyRunWritten(r) /\ run'[r].current = b
         /\ run'[r].status = IF usage # "BELOW" THEN "HARD_PAUSED" ELSE "RUNNING"
  <2>1. OnlyRunWritten(r)
    BY <1>1, OtherRuns DEF ContinueWith
  <2> QED BY <2>1 DEF ContinueWith, RowsOK, RunRow
<1>3. row \in AttemptRow /\ row.run = r /\ row.status = "QUEUED"
  BY QueuedAttemptType DEF QueuedAttempt, NoAttempt
<1>4. Succeeded(a, tree) \in [AttemptId -> AttemptRow]
  BY SucceededType
<1>5. attempt'[b] = IF usage # "BELOW" THEN [row EXCEPT !.status = "HARD_PAUSED"] ELSE row
  BY <1>4 DEF ContinueWith
<1>6. Answered(d) \in [DispatchId -> DispatchRow]
  BY AnsweredType
<1>7. /\ dispatch'[e] = [attempt |-> b, status |-> IF usage # "BELOW" THEN "FAILED" ELSE "PENDING"]
      /\ \A o \in DispatchId \ {e} : dispatch'[o].status # "PENDING"
  BY <1>1, <1>6, DispatchEffects DEF ContinueWith
<1>8. CASE usage = "BELOW"
  <2>1. run'[r].status = "RUNNING" /\ workItem' = "IN_PROGRESS" /\ attempt'[b] = row
    BY <1>2, <1>5, <1>8 DEF ContinueWith
  <2>2. dispatch'[e].status = "PENDING" /\ dispatch'[e].attempt = b
    BY <1>7, <1>8
  <2> QED BY <1>2, <1>3, <1>7, <2>1, <2>2, RunningLifecycle
<1>9. CASE usage # "BELOW"
  <2>1. run'[r].status = "HARD_PAUSED" /\ workItem' = "BLOCKED"
    BY <1>2, <1>9 DEF ContinueWith
  <2>2. attempt'[b].run = r /\ attempt'[b].status = "HARD_PAUSED"
    BY <1>3, <1>5, <1>9 DEF AttemptRow
  <2>3. dispatch'[e].status = "FAILED"
    BY <1>7, <1>9
  <2> QED BY <1>2, <1>7, <2>1, <2>2, <2>3, StoppedLifecycle
<1> QED BY <1>8, <1>9

\* A hard pause of what the active run is at preserves the lifecycle.
LEMMA HardPauseLifecycle ==
    ASSUME RowsOK, RowsAgree, NEW r \in RunId, NEW a \in AttemptId, NEW q \in RequestId,
           IsCurrent(r, a), Active(r), StageAttemptHardPause(r, a, q)
    PROVE  RowsAgree'
<1>1. OnlyRunWritten(r)
  BY OtherRuns DEF StageAttemptHardPause
<1>2. run'[r].current = a /\ run'[r].status = "HARD_PAUSED"
  BY DEF StageAttemptHardPause, RowsOK, RunRow, IsCurrent
<1>3. attempt'[a].run = r /\ attempt'[a].status = "HARD_PAUSED"
  BY DEF StageAttemptHardPause, Leaves, RowsOK, AttemptRow, IsCurrent
<1>4. \A e \in DispatchId : dispatch'[e].status # "PENDING"
  BY DispatchEffects DEF StageAttemptHardPause
<1> QED
  BY <1>1, <1>2, <1>3, <1>4, StoppedLifecycle DEF StageAttemptHardPause

\* The daemon's commands preserve the lifecycle.
LEMMA DaemonCommandLifecycle ==
    ASSUME RowsOK, RowsAgree, NEW r \in RunId, NEW a \in AttemptId, IsCurrent(r, a),
           DaemonCommand(r, a)
    PROVE  RowsAgree'
<1>1. CASE EndProviderSession(a)
    BY <1>1, EndProviderSessionLifecycle
<1>2. ASSUME NEW d \in DispatchId, StartAgentRun(r, a, d)
      PROVE  RowsAgree'
  <2>1. run[r].status = "RUNNING" /\ Active(r) /\ dispatch[d].status = "PENDING"
    BY <1>2, ExecutingIsRunning DEF StartAgentRun, Startable
  <2>2. OnlyRunWritten(r) /\ run'[r] = run[r] /\ dispatch' = dispatch /\ workItem' = workItem
    BY <1>2, <2>1 DEF StartAgentRun, OnlyRunWritten, RowsAgree, OneActiveRun
  <2>3. attempt'[a].run = r /\ attempt'[a].status = "RUNNING"
    BY <1>2 DEF StartAgentRun, RowsOK, AttemptRow, IsCurrent
  <2>4. dispatch[d].attempt = a /\ \A e \in DispatchId \ {d} : dispatch[e].status # "PENDING"
    BY <2>1, PendingIsForCurrent
  <2>5. run[r].current = a /\ workItem = "IN_PROGRESS"
    BY <2>1 DEF RowsAgree, StatusesAgree, IsCurrent
  <2> QED BY <2>1, <2>2, <2>3, <2>4, <2>5, RunningLifecycle
<1>3. ASSUME NEW d \in DispatchId, ParkQueuedStageAttemptForBudget(r, a, d)
      PROVE  RowsAgree'
  <2>1. Active(r) /\ dispatch[d].status = "PENDING"
    BY <1>3, ExecutingIsRunning DEF ParkQueuedStageAttemptForBudget, Startable
  <2>2. OnlyRunWritten(r)
    BY <1>3, <2>1, OtherRuns DEF ParkQueuedStageAttemptForBudget, Startable
  <2>3. run'[r].current = a /\ run'[r].status = "HARD_PAUSED"
    BY <1>3 DEF ParkQueuedStageAttemptForBudget, Startable, RowsOK, RunRow, IsCurrent
  <2>4. attempt'[a].run = r /\ attempt'[a].status = "HARD_PAUSED"
    BY <1>3 DEF ParkQueuedStageAttemptForBudget, Startable, RowsOK, AttemptRow, IsCurrent
  <2>5. \A e \in DispatchId : dispatch'[e].status # "PENDING"
    BY <1>3, <2>1, PendingIsForCurrent DEF ParkQueuedStageAttemptForBudget, RowsOK, DispatchRow
  <2>6. workItem' = "BLOCKED"
    BY <1>3 DEF ParkQueuedStageAttemptForBudget, Startable
  <2> QED BY <2>2, <2>3, <2>4, <2>5, <2>6, StoppedLifecycle
<1>4. ASSUME NEW d \in DispatchId, NEW usage \in Usage, NEW stopped \in BOOLEAN,
             RecordProviderUsage(r, a, d, usage, stopped)
      PROVE  RowsAgree'
  <2>1. Active(r)
    BY <1>4 DEF RecordProviderUsage, Active, ActiveRunStatus
  <2>2. OnlyRunWritten(r)
    BY <1>4, <2>1, OtherRuns DEF RecordProviderUsage
  <2>3. run'[r].current = a /\ run'[r].status = "HARD_PAUSED"
    BY <1>4 DEF RecordProviderUsage, RowsOK, RunRow, IsCurrent
  <2>4. attempt'[a].run = r /\ attempt'[a].status = "HARD_PAUSED"
    BY <1>4 DEF RecordProviderUsage, RowsOK, AttemptRow, IsCurrent
  <2>5. \A e \in DispatchId : dispatch'[e].status # "PENDING"
    BY <1>4, <2>1, PendingIsForCurrent DEF RecordProviderUsage, RowsOK, DispatchRow
  <2>6. workItem' = "BLOCKED"
    BY <1>4 DEF RecordProviderUsage
  <2> QED BY <2>2, <2>3, <2>4, <2>5, <2>6, StoppedLifecycle
<1>5. ASSUME NEW d \in DispatchId, BudgetOutcome(r, a, d)
      PROVE  RowsAgree'
  <2>1. Active(r) /\ dispatch[d].status = "PENDING"
    BY <1>5, ExecutingIsRunning DEF BudgetOutcome, Executing
  <2>2. OnlyRunWritten(r)
    BY <1>5, <2>1, OtherRuns DEF BudgetOutcome
  <2>3. run'[r].current = a /\ run'[r].status = "HARD_PAUSED"
    BY <1>5 DEF BudgetOutcome, RowsOK, RunRow, IsCurrent
  <2>4. attempt'[a].run = r /\ attempt'[a].status = "HARD_PAUSED"
    BY <1>5 DEF BudgetOutcome, Leaves, RowsOK, AttemptRow, IsCurrent
  <2>5. \A e \in DispatchId : dispatch'[e].status # "PENDING"
    BY <1>5, <2>1, DispatchEffects DEF BudgetOutcome
  <2>6. workItem' = "BLOCKED"
    BY <1>5 DEF BudgetOutcome
  <2> QED BY <2>2, <2>3, <2>4, <2>5, <2>6, StoppedLifecycle
<1>6. ASSUME NEW d \in DispatchId, NEW q \in RequestId, SessionHardPause(r, a, d, q)
      PROVE  RowsAgree'
  BY <1>6, ExecutingIsRunning, HardPauseLifecycle DEF SessionHardPause, Executing
<1>7. ASSUME NEW d \in DispatchId, NEW q \in RequestId, NEW code \in {"NONE", "PROVIDER"},
             NEW usage \in Usage, NeedsHuman(r, a, d, q, code, usage)
      PROVE  RowsAgree'
  <2>1. Active(r) /\ dispatch[d].status = "PENDING"
    BY <1>7, ExecutingIsRunning DEF NeedsHuman, Executing
  <2>2. OnlyRunWritten(r)
    BY <1>7, <2>1, OtherRuns DEF NeedsHuman
  <2>3. run'[r].current = a /\ run'[r].status = "WAITING_HUMAN"
    BY <1>7 DEF NeedsHuman, RowsOK, RunRow, IsCurrent
  <2>4. attempt'[a].run = r /\ attempt'[a].status = "WAITING_HUMAN"
    BY <1>7 DEF NeedsHuman, Leaves, RowsOK, AttemptRow, IsCurrent
  <2>5. \A e \in DispatchId : dispatch'[e].status # "PENDING"
    BY <1>7, <2>1, DispatchEffects DEF NeedsHuman
  <2>6. workItem' = "BLOCKED"
    BY <1>7 DEF NeedsHuman
  <2> QED BY <2>2, <2>3, <2>4, <2>5, <2>6, StoppedLifecycle
<1>8. ASSUME NEW d \in DispatchId, NEW q \in RequestId, NEW tree \in Tree, NEW usage \in Usage,
             ReviewWaitsForOwner(r, a, d, q, tree, usage)
      PROVE  RowsAgree'
  <2>1. Active(r) /\ dispatch[d].status = "PENDING"
    BY <1>8, ExecutingIsRunning DEF ReviewWaitsForOwner, Executing
  <2>2. OnlyRunWritten(r)
    BY <1>8, <2>1, OtherRuns DEF ReviewWaitsForOwner
  <2>3. run'[r].current = a /\ run'[r].status = "WAITING_HUMAN"
    BY <1>8 DEF ReviewWaitsForOwner, RowsOK, RunRow, IsCurrent
  <2>4. attempt'[a].run = r /\ attempt'[a].status = "WAITING_HUMAN"
    BY <1>8 DEF ReviewWaitsForOwner, RowsOK, AttemptRow, IsCurrent
  <2>5. \A e \in DispatchId : dispatch'[e].status # "PENDING"
    BY <1>8, <2>1, DispatchEffects DEF ReviewWaitsForOwner
  <2>6. workItem' = "BLOCKED"
    BY <1>8 DEF ReviewWaitsForOwner
  <2> QED BY <2>2, <2>3, <2>4, <2>5, <2>6, StoppedLifecycle
<1>9. ASSUME NEW d \in DispatchId, NEW q \in RequestId, NEW tree \in Tree, NEW usage \in Usage,
             ReadyForAcceptance(r, a, d, q, tree, usage)
      PROVE  RowsAgree'
  <2>1. Active(r) /\ dispatch[d].status = "PENDING"
    BY <1>9, ExecutingIsRunning DEF ReadyForAcceptance, Executing
  <2>2. OnlyRunWritten(r)
    BY <1>9, <2>1, OtherRuns DEF ReadyForAcceptance
  <2>3. run'[r].current = a /\ run'[r].status = "WAITING_HUMAN"
    BY <1>9 DEF ReadyForAcceptance, RowsOK, RunRow, IsCurrent
  <2>4. attempt'[a].run = r /\ attempt'[a].status = "WAITING_HUMAN"
    BY <1>9 DEF ReadyForAcceptance, Leaves, RowsOK, AttemptRow, IsCurrent
  <2>5. \A e \in DispatchId : dispatch'[e].status # "PENDING"
    BY <1>9, <2>1, DispatchEffects DEF ReadyForAcceptance
  <2>6. workItem' = "BLOCKED"
    BY <1>9 DEF ReadyForAcceptance
  <2> QED BY <2>2, <2>3, <2>4, <2>5, <2>6, StoppedLifecycle
<1>10. ASSUME NEW d \in DispatchId, NEW b \in AttemptId, NEW e \in DispatchId, NEW tree \in Tree,
              NEW usage \in Usage, StageCompleted(r, a, d, b, e, tree, usage)
       PROVE  RowsAgree'
  <2>1. attempt[a].stage \in Stage
    BY DEF RowsOK, AttemptRow
  <2>2. PICK i \in AfterStage(attempt[a].stage), number \in Nat :
           ContinueWith(r, a, d, b, e, QueuedAttempt(r, Template[i], number), tree, usage)
    BY <1>10 DEF StageCompleted, RowsOK, AttemptRow
  <2> QED BY <1>10, <2>1, <2>2, TemplateStages, ContinueWithLifecycle DEF StageCompleted
<1>11. ASSUME NEW d \in DispatchId, NEW b \in AttemptId, NEW e \in DispatchId, NEW tree \in Tree,
              NEW usage \in Usage, ReviewQueuesFix(r, a, d, b, e, tree, usage)
       PROVE  RowsAgree'
  <2>1. "IMPLEMENT" \in Stage
    BY DEF Stage
  <2> QED BY <1>11, <2>1, NextNumberType, ContinueWithLifecycle DEF ReviewQueuesFix
<1>12. QED
    BY <1>1, <1>2, <1>3, <1>4, <1>5, <1>6, <1>7, <1>8, <1>9, <1>10, <1>11, NextIdIsAbsent
       DEF DaemonCommand, ProviderOutcome, DispatchesOf

\* Requeueing the current attempt of a stopped run gives it the one standing instruction.
LEMMA RequeueLifecycle ==
    ASSUME RowsOK, RowsAgree, NEW r \in RunId, NEW a \in AttemptId, NEW d \in DispatchId,
           IsCurrent(r, a), Active(r), run[r].status # "RUNNING", Requeue(r, a, d)
    PROVE  RowsAgree'
<1>1. OnlyRunWritten(r)
  BY OtherRuns DEF Requeue
<1>2. run'[r].current = a /\ run'[r].status = "RUNNING"
  BY DEF Requeue, RowsOK, RunRow, IsCurrent
<1>3. attempt'[a].run = r /\ attempt'[a].status = "QUEUED"
  BY DEF Requeue, RowsOK, AttemptRow, IsCurrent
<1>4. /\ dispatch'[d].status = "PENDING" /\ dispatch'[d].attempt = a
      /\ \A e \in DispatchId \ {d} : dispatch'[e].status # "PENDING"
  BY DispatchEffects, CreateDispatchEffect DEF Requeue, RowsOK
<1>5. workItem' = "IN_PROGRESS"
  BY DEF Requeue
<1> QED BY <1>1, <1>2, <1>3, <1>4, <1>5, RunningLifecycle

\* The owner's commands on a run preserve the lifecycle.
LEMMA OwnerCommandLifecycle ==
    ASSUME RowsOK, RowsAgree, NEW r \in RunId, NEW a \in AttemptId, IsCurrent(r, a),
           OwnerCommand(r, a)
    PROVE  RowsAgree'
<1>1. ASSUME NEW inFlight \in BOOLEAN, PausePipeline(r, a, inFlight)
      PROVE  RowsAgree'
  <2>1. Active(r)
    BY <1>1 DEF PausePipeline, Active, ActiveRunStatus
  <2>2. OnlyRunWritten(r)
    BY <1>1, <2>1, OtherRuns DEF PausePipeline
  <2>3. run'[r].current = a /\ run'[r].status = "SOFT_PAUSED"
    BY <1>1 DEF PausePipeline, RowsOK, RunRow, IsCurrent
  <2>4. attempt'[a].run = r /\ attempt'[a].status = "SOFT_PAUSED"
    BY <1>1 DEF PausePipeline, Stops, RowsOK, AttemptRow, IsCurrent
  <2>5. \A e \in DispatchId : dispatch'[e].status # "PENDING"
    BY <1>1, <2>1, DispatchEffects DEF PausePipeline, Stops
  <2>6. workItem' = "BLOCKED"
    BY <1>1 DEF PausePipeline, Stops
  <2> QED BY <2>2, <2>3, <2>4, <2>5, <2>6, StoppedLifecycle
<1>2. ASSUME NEW inFlight \in BOOLEAN, CancelPipeline(r, a, inFlight)
      PROVE  RowsAgree'
  <2>1. Active(r)
    BY <1>2 DEF CancelPipeline
  <2>2. OnlyRunWritten(r)
    BY <1>2, <2>1, OtherRuns DEF CancelPipeline
  <2>3. run'[r].current = a /\ run'[r].status = "CANCELLED"
    BY <1>2 DEF CancelPipeline, RowsOK, RunRow, IsCurrent
  <2>4. attempt'[a].run = r
    BY <1>2 DEF CancelPipeline, Stops, RowsOK, AttemptRow, IsCurrent
  <2>5. \A e \in DispatchId : dispatch'[e].status # "PENDING"
    BY <1>2, <2>1, DispatchEffects DEF CancelPipeline, Stops
  <2> QED BY <2>2, <2>3, <2>4, <2>5, StoppedLifecycle DEF ActiveRunStatus
<1>3. ASSUME NEW d \in DispatchId, ResumePipeline(r, a, d)
      PROVE  RowsAgree'
    BY <1>3, RequeueLifecycle DEF ResumePipeline, Active, ActiveRunStatus
<1>4. ASSUME NEW q \in RequestId, NEW d \in DispatchId, AnswerHumanRequest(r, a, q, d)
      PROVE  RowsAgree'
    BY <1>4, RequeueLifecycle DEF AnswerHumanRequest, Answerable, Active, ActiveRunStatus
<1>5. ASSUME NEW b \in AttemptId, NEW d \in DispatchId, NEW preserved \in BOOLEAN,
             ApproveBudgetOverride(r, a, b, d, preserved)
      PROVE  RowsAgree'
  <2>1. Active(r) /\ run[r].status # "RUNNING"
    BY <1>5 DEF ApproveBudgetOverride, Active, ActiveRunStatus
  <2>2. OnlyRunWritten(r)
    BY <1>5, <2>1, OtherRuns DEF ApproveBudgetOverride
  <2>3. run'[r].current = b /\ run'[r].status = "RUNNING"
    BY <1>5 DEF ApproveBudgetOverride, RowsOK, RunRow
  <2>4. attempt'[b].run = r /\ attempt'[b].status = "QUEUED"
    <3>1. /\ QueuedAttempt(r, attempt[a].stage, NextNumber(a)).run = r
          /\ QueuedAttempt(r, attempt[a].stage, NextNumber(a)).status = "QUEUED"
      BY DEF QueuedAttempt, NoAttempt
    <3>2. /\ [attempt[a] EXCEPT !.status = "QUEUED", !.code = "NONE"].run = r
          /\ [attempt[a] EXCEPT !.status = "QUEUED", !.code = "NONE"].status = "QUEUED"
      BY DEF RowsOK, AttemptRow, IsCurrent
    <3> QED BY <1>5, <3>1, <3>2 DEF ApproveBudgetOverride, RowsOK
  <2>5. /\ dispatch'[d].status = "PENDING" /\ dispatch'[d].attempt = b
        /\ \A e \in DispatchId \ {d} : dispatch'[e].status # "PENDING"
    BY <1>5, <2>1, DispatchEffects, CreateDispatchEffect DEF ApproveBudgetOverride, RowsOK
  <2>6. workItem' = "IN_PROGRESS"
    BY <1>5 DEF ApproveBudgetOverride
  <2> QED BY <2>2, <2>3, <2>4, <2>5, <2>6, RunningLifecycle
<1>6. ASSUME NEW q \in RequestId, NEW b \in AttemptId, NEW d \in DispatchId,
             AuthorizeFinalFixRound(r, a, q, b, d)
      PROVE  RowsAgree'
  <2>1. Active(r) /\ run[r].status # "RUNNING"
    BY <1>6 DEF AuthorizeFinalFixRound, Answerable, Active, ActiveRunStatus
  <2>2. OnlyRunWritten(r)
    BY <1>6, <2>1, OtherRuns DEF AuthorizeFinalFixRound
  <2>3. run'[r].current = b /\ run'[r].status = "RUNNING"
    BY <1>6 DEF AuthorizeFinalFixRound, RowsOK, RunRow
  <2>4. attempt'[b].run = r /\ attempt'[b].status = "QUEUED"
    <3>1. /\ QueuedAttempt(r, "IMPLEMENT", NextNumber(a)).run = r
          /\ QueuedAttempt(r, "IMPLEMENT", NextNumber(a)).status = "QUEUED"
      BY DEF QueuedAttempt, NoAttempt
    <3> QED BY <1>6, <3>1 DEF AuthorizeFinalFixRound, RowsOK
  <2>5. /\ dispatch'[d].status = "PENDING" /\ dispatch'[d].attempt = b
        /\ \A e \in DispatchId \ {d} : dispatch'[e].status # "PENDING"
    BY <1>6, <2>1, DispatchEffects, CreateDispatchEffect DEF AuthorizeFinalFixRound, RowsOK
  <2>6. workItem' = "IN_PROGRESS"
    BY <1>6 DEF AuthorizeFinalFixRound
  <2> QED BY <2>2, <2>3, <2>4, <2>5, <2>6, RunningLifecycle
<1>7. ASSUME NEW q \in RequestId, CancelReviewLoop(r, a, q)
      PROVE  RowsAgree'
  <2>1. Active(r) /\ run[r].status # "RUNNING"
    BY <1>7 DEF CancelReviewLoop, Answerable, Active, ActiveRunStatus
  <2>2. OnlyRunWritten(r)
    BY <1>7, <2>1, OtherRuns DEF CancelReviewLoop
  <2>3. run'[r].current = a /\ run'[r].status = "CANCELLED"
    BY <1>7 DEF CancelReviewLoop, RowsOK, RunRow, IsCurrent
  <2>4. attempt'[a].run = r
    BY <1>7 DEF CancelReviewLoop, RowsOK, AttemptRow, IsCurrent
  <2>5. \A e \in DispatchId : dispatch'[e].status # "PENDING"
    BY <1>7, <2>1, DispatchEffects DEF CancelReviewLoop
  <2> QED BY <2>2, <2>3, <2>4, <2>5, StoppedLifecycle DEF ActiveRunStatus
<1>8. ASSUME NEW q \in RequestId, NEW action \in {"ACCEPTED", "RETURNED", "REJECTED"},
             ResolveAcceptance(r, a, q, action)
      PROVE  RowsAgree'
  <2>1. Active(r) /\ run[r].status # "RUNNING"
    BY <1>8 DEF ResolveAcceptance, Active, ActiveRunStatus
  <2>2. OnlyRunWritten(r)
    BY <1>8, <2>1, OtherRuns DEF ResolveAcceptance
  <2>3. run'[r].current = a /\ run'[r].status \in {"SUCCEEDED", "FAILED"}
    <3>1. PICK status \in {"SUCCEEDED", "FAILED"} :
             run' = [run EXCEPT ![r] = [@ EXCEPT !.status = status, !.package = action]]
      BY <1>8 DEF ResolveAcceptance
    <3>2. run[r] \in RunRow /\ run[r].current = a
      BY <1>8 DEF ResolveAcceptance, RowsOK, IsCurrent
    <3>3. run'[r] = [run[r] EXCEPT !.status = status, !.package = action]
      BY <3>1 DEF RowsOK
    <3> QED BY <3>2, <3>3 DEF RunRow
  <2>4. attempt'[a].run = r
    <3>1. PICK status \in {"SUCCEEDED", "FAILED"}, code \in {"NONE", "ACCEPTANCE"} :
             attempt' = [attempt EXCEPT ![a] = [@ EXCEPT !.status = status, !.code = code]]
      BY <1>8 DEF ResolveAcceptance
    <3> QED BY <3>1 DEF RowsOK, AttemptRow, IsCurrent
  <2>5. \A e \in DispatchId : dispatch'[e].status # "PENDING"
    BY <1>8, <2>1, DispatchEffects DEF ResolveAcceptance
  <2> QED BY <2>2, <2>3, <2>4, <2>5, StoppedLifecycle DEF ActiveRunStatus
<1> QED BY <1>1, <1>2, <1>3, <1>4, <1>5, <1>6, <1>7, <1>8, NextIdIsAbsent DEF OwnerCommand

\* A restart preserves the lifecycle: at most one run can be orphaned, and it is the active one.
LEMMA ReconcileWorkflowsLifecycle ==
    ASSUME RowsOK, RowsAgree, ReconcileWorkflows
    PROVE  RowsAgree'
<1> DEFINE orphans == {a \in AttemptId : \E r \in RunId : Orphaned(r, a)}
<1>1. \A a \in AttemptId : attempt'[a].run = attempt[a].run
  BY DEF ReconcileWorkflows, RowsOK, AttemptRow
<1>2. CASE orphans = {}
  <2>1. \A a \in AttemptId : attempt'[a].status = attempt[a].status
    BY <1>2 DEF ReconcileWorkflows, RowsOK, AttemptRow
  <2>2. run' = run /\ dispatch' = dispatch /\ workItem' = workItem
    BY <1>2 DEF ReconcileWorkflows, RowsOK
  <2> QED BY <1>1, <2>1, <2>2, LifecycleFrame
<1>3. ASSUME NEW a \in AttemptId, NEW r \in RunId, Orphaned(r, a)
      PROVE  RowsAgree'
  <2>1. IsCurrent(r, a) /\ Active(r) /\ run[r].status = "RUNNING"
    BY <1>3 DEF Orphaned, Active, ActiveRunStatus
  <2>2. \A o \in RunId, b \in AttemptId : Orphaned(o, b) => o = r /\ b = a
    BY <2>1 DEF Orphaned, RowsAgree, OneActiveRun, IsCurrent, Active, ActiveRunStatus
  <2>3. orphans = {a}
    BY <1>3, <2>2
  <2>4. OnlyRunWritten(r)
    BY <2>1, <2>2 DEF ReconcileWorkflows, OnlyRunWritten, RowsAgree, OneActiveRun
  <2>5. run'[r].current = a /\ run'[r].status = "INTERRUPTED"
    BY <1>3, <2>1 DEF ReconcileWorkflows, RowsOK, RunRow, IsCurrent
  <2>6. attempt'[a].run = r /\ attempt'[a].status = "INTERRUPTED"
    <3>1. attempt'[a] = [attempt[a] EXCEPT !.status = "INTERRUPTED", !.code = "DAEMON_RESTART",
                                           !.agentRun = FALSE]
      BY <2>3 DEF ReconcileWorkflows
    <3> QED BY <2>1, <3>1 DEF RowsOK, AttemptRow, IsCurrent
  <2>7. \A d \in DispatchId : dispatch'[d].status # "PENDING"
    <3>1. \A d \in DispatchId : dispatch[d].status = "PENDING" => d \in Pending(a)
      BY <2>1, PendingIsForCurrent DEF Pending
    <3>2. \A d \in DispatchId : d \in Pending(a) => dispatch'[d].status = "FAILED"
      BY <2>3 DEF ReconcileWorkflows, RowsOK, DispatchRow
    <3>3. \A d \in DispatchId : d \notin Pending(a) => dispatch'[d] = dispatch[d]
      BY <2>3 DEF ReconcileWorkflows
    <3> QED BY <3>1, <3>2, <3>3
  <2>8. workItem' = "BLOCKED"
    BY <2>3 DEF ReconcileWorkflows
  <2> QED BY <2>4, <2>5, <2>6, <2>7, <2>8, StoppedLifecycle
<1> QED BY <1>2, <1>3

\* At most one run of the WorkItem is ever active; the WorkItem, the run and its current attempt
\* agree; a running pipeline has exactly one standing instruction and no other has any -- until a
\* stale loop overrules a run.
THEOREM LifecycleCorrect == Spec => []Lifecycle
<1>1. Init => Lifecycle
  BY DEF Init, Lifecycle, RowsAgree, OneActiveRun, StandingInstruction, StatusesAgree, Active, NoRun,
         NoDispatch, ActiveRunStatus
<1>2. TypeOK /\ Lifecycle /\ [Next]_vars => Lifecycle'
  <2> SUFFICES ASSUME RowsOK, RowsAgree, [Next]_vars, overruled' = {}
               PROVE  RowsAgree'
    BY OverruledStays DEF Lifecycle, TypeOK
  <2>1. ASSUME NEW target \in WorkItemState, MoveWorkItem(target)
        PROVE  RowsAgree'
    <3>1. \A r \in RunId : ~Active(r) /\ ~Active(r)'
      BY <2>1 DEF MoveWorkItem, NoActiveRun, Active
    <3>2. \A d \in DispatchId : dispatch'[d].status # "PENDING"
      BY <2>1, <3>1 DEF MoveWorkItem, RowsAgree, StandingInstruction, Active, ActiveRunStatus
    <3>3. QED
      BY <3>1, <3>2 DEF RowsAgree, OneActiveRun, StandingInstruction, StatusesAgree, Active,
                        ActiveRunStatus
  <2>2. ASSUME NEW r \in NextId(run), NEW a \in NextId(attempt), NEW d \in NextId(dispatch),
               StartPipeline(r, a, d)
        PROVE  RowsAgree'
    <3>1. r \in RunId /\ a \in AttemptId /\ d \in DispatchId
      BY NextIdIsAbsent
    <3>2. OnlyRunWritten(r)
      BY <2>2, <3>1 DEF StartPipeline, NoActiveRun, OnlyRunWritten, RowsOK
    <3>3. run'[r].current = a /\ run'[r].status = "RUNNING" /\ workItem' = "IN_PROGRESS"
      BY <2>2, <3>1 DEF StartPipeline, RowsOK, RunRow
    <3>4. attempt'[a].run = r /\ attempt'[a].status = "QUEUED"
      BY <2>2, <3>1 DEF StartPipeline, QueuedAttempt, NoAttempt, RowsOK
    <3>5. \A e \in DispatchId : dispatch[e].status # "PENDING"
      BY <2>2 DEF StartPipeline, NoActiveRun, RowsAgree, StandingInstruction, Active, ActiveRunStatus
    <3>6. /\ dispatch'[d].status = "PENDING" /\ dispatch'[d].attempt = a
          /\ \A e \in DispatchId \ {d} : dispatch'[e].status # "PENDING"
      BY <2>2, <3>1, <3>5, CreateDispatchEffect DEF StartPipeline, RowsOK
    <3> QED BY <3>1, <3>2, <3>3, <3>4, <3>6, RunningLifecycle
  <2>3. ASSUME NEW r \in RunId, NEW a \in Current(r), DaemonCommand(r, a) \/ OwnerCommand(r, a)
        PROVE  RowsAgree'
    BY <2>3, DaemonCommandLifecycle, OwnerCommandLifecycle DEF Current
  <2>4. ASSUME NEW a \in AttemptId, EndProviderSession(a)
        PROVE  RowsAgree'
    BY <2>4, EndProviderSessionLifecycle
  <2>5. CASE UNCHANGED vars
    BY <2>5, LifecycleFrame DEF vars
  <2>6. ASSUME NEW r \in RunId, NEW a \in AttemptId, NEW d \in stale, NEW q \in NextId(request),
               StaleHardPause(r, a, d, q)
        PROVE  RowsAgree'
    BY <2>6, HardPauseLifecycle, NextIdIsAbsent DEF StaleHardPause, Standing
  <2> QED
    BY <2>1, <2>2, <2>3, <2>4, <2>5, <2>6, ReconcileWorkflowsLifecycle DEF Next, Command
<1> QED BY <1>1, <1>2, TypeCorrect, PTL DEF Spec

----
(* What every run keeps *)

\* Stages from which the template still leads to the review, and stages before the implementation.
ToReview(s) == \E i, j \in 1 .. Len(Template) : i <= j /\ Template[i] = s /\ Template[j] = "REVIEW"
Early(s)    == \E i, j \in 1 .. Len(Template) : i < j /\ Template[i] = s /\ Template[j] = "IMPLEMENT"

LEMMA StageOrder ==
    /\ ToReview("REVIEW") /\ ToReview("IMPLEMENT") /\ ~ToReview("ACCEPTANCE")
    /\ ~Early("IMPLEMENT") /\ ~Early("REVIEW")
    /\ \A s \in Stage : ToReview(s) => Early(s) \/ s \in {"IMPLEMENT", "REVIEW"}
    /\ \A s \in Stage : \A i \in AfterStage(s) :
         /\ ToReview(Template[i]) => ToReview(s) /\ s # "REVIEW"
         /\ Early(Template[i]) => Early(s)
         /\ Template[i] = "IMPLEMENT" => Early(s)
         /\ Template[i] = "REVIEW" <=> s = "IMPLEMENT"
<1>1. /\ Template \in Seq(Stage) /\ Len(Template) \in Nat /\ Len(Template) > 1
      /\ \A i, j \in 1 .. Len(Template) : Template[i] = Template[j] => i = j
      /\ Template[Len(Template)] = "ACCEPTANCE"
  BY TemplateAssumption
<1>2. PICK k \in 2 .. Len(Template) : Template[k - 1] = "IMPLEMENT" /\ Template[k] = "REVIEW"
  BY TemplateAssumption
<1>3. k - 1 \in 1 .. Len(Template) /\ k \in 1 .. Len(Template) /\ k - 1 < k /\ Len(Template) \in 1 .. Len(Template)
  BY <1>1, <1>2
<1>4. \A s : ToReview(s) <=> \E i \in 1 .. Len(Template) : i <= k /\ Template[i] = s
  BY <1>1, <1>2, <1>3 DEF ToReview
<1>5. \A s : Early(s) <=> \E i \in 1 .. Len(Template) : i < k - 1 /\ Template[i] = s
  BY <1>1, <1>2, <1>3 DEF Early
<1>6. ToReview("REVIEW") /\ ToReview("IMPLEMENT")
  BY <1>2, <1>3, <1>4
<1>7. ~ToReview("ACCEPTANCE")
  <2>1. ASSUME NEW i \in 1 .. Len(Template), i <= k, Template[i] = "ACCEPTANCE"
        PROVE  FALSE
    <3>1. i = Len(Template)
      BY <1>1, <1>3, <2>1
    <3> QED BY <1>1, <1>2, <2>1, <3>1
  <2> QED BY <1>4, <2>1
<1>8. ~Early("IMPLEMENT") /\ ~Early("REVIEW")
  <2>1. \A i \in 1 .. Len(Template) : i < k - 1 => Template[i] # "IMPLEMENT" /\ Template[i] # "REVIEW"
    BY <1>1, <1>2, <1>3
  <2> QED BY <1>5, <2>1
<1>9. \A s : ToReview(s) => Early(s) \/ s \in {"IMPLEMENT", "REVIEW"}
  <2>1. ASSUME NEW i \in 1 .. Len(Template), i <= k
        PROVE  Early(Template[i]) \/ Template[i] \in {"IMPLEMENT", "REVIEW"}
    <3>1. i < k - 1 \/ i = k - 1 \/ i = k
      BY <1>2, <2>1
    <3> QED BY <1>2, <1>5, <3>1
  <2> QED BY <1>4, <2>1
<1>10. ASSUME NEW s \in Stage, NEW i \in AfterStage(s)
       PROVE  /\ ToReview(Template[i]) => ToReview(s) /\ s # "REVIEW"
              /\ Early(Template[i]) => Early(s)
              /\ Template[i] = "IMPLEMENT" => Early(s)
              /\ Template[i] = "REVIEW" <=> s = "IMPLEMENT"
  <2>1. i \in 2 .. Len(Template) /\ Template[i - 1] = s /\ i - 1 \in 1 .. Len(Template) /\ i \in 1 .. Len(Template)
    BY <1>1 DEF AfterStage
  <2>2. ToReview(Template[i]) => i <= k
    BY <1>1, <1>4, <2>1
  <2>3. Early(Template[i]) => i < k - 1
    BY <1>1, <1>5, <2>1
  <2>4. i <= k => ToReview(s) /\ s # "REVIEW"
    BY <1>1, <1>2, <1>3, <1>4, <2>1
  <2>5. i - 1 < k - 1 => Early(s)
    BY <1>5, <2>1
  <2>6. i < k - 1 => i - 1 < k - 1
    BY <1>2, <2>1
  <2>7. Template[i] = "IMPLEMENT" => i - 1 < k - 1
    BY <1>1, <1>2, <1>3, <2>1
  <2>8. Template[i] = "REVIEW" <=> s = "IMPLEMENT"
    BY <1>1, <1>2, <1>3, <2>1
  <2> QED BY <2>2, <2>3, <2>4, <2>5, <2>6, <2>7, <2>8
<1> QED BY <1>6, <1>7, <1>8, <1>9, <1>10

\* A run that exists has a current attempt, its latest; one that does not has none.
CurrentFits(r) ==
    /\ run[r].status = "NONE" => run[r] = NoRun
    /\ run[r].status # "NONE" => IsCurrent(r, run[r].current) /\ attempt[run[r].current].status # "NONE"
    /\ \A c \in AttemptId : attempt[c].run = r => c <= run[r].current

\* Attempts are inserted in the order of their ids.
AttemptsDense ==
    /\ \A c \in AttemptId : attempt[c].status = "NONE" => attempt[c] = NoAttempt
    /\ \A b, c \in AttemptId : b < c /\ attempt[c].status # "NONE" => attempt[b].status # "NONE"

BudgetFits(r) == run[r].exhausted => attempt[run[r].current].status # "RUNNING"

\* A run that may still be reviewed has a round left, or waits for the owner to grant the last.
RoundsFit(r) ==
    /\ run[r].reports <= MaxTotalReviewRounds
    /\ Active(r) => LET c == attempt[run[r].current]
                    IN  IF c.code = "REVIEW_LOOP_EXHAUSTED"
                        THEN c.stage = "REVIEW" /\ c.status = "WAITING_HUMAN" /\ c.round = run[r].reports
                        ELSE ToReview(c.stage) => run[r].reports < MaxTotalReviewRounds

\* Implementations succeed in the order of their numbers, and none precedes the first.
ImplementationsFit(r) ==
    /\ \A a, b \in Implementations(r) : a < b => attempt[a].number <= attempt[b].number
    /\ Active(r) => LET c == attempt[run[r].current]
                    IN  /\ Early(c.stage) => Implementations(r) = {}
                        /\ c.stage \in {"IMPLEMENT", "REVIEW"} =>
                              \A b \in Implementations(r) : attempt[b].number <= c.number

Report(r, k, t) == [run |-> r, kind |-> k, tree |-> t]

\* Once QA reported on a tree no implementation follows, and a package rests on two reports.
ReportsFit(r) ==
    /\ \A t \in Tree : Report(r, "QA_REPORT", t) \in artifacts =>
          CurrentTree(r, t) /\ (Active(r) => ~ToReview(attempt[run[r].current].stage))
    /\ run[r].package \in {"PENDING", "ACCEPTED"} =>
          /\ run[r].packageTree \in Tree
          /\ Report(r, "QA_REPORT", run[r].packageTree) \in artifacts
          /\ Report(r, "REVIEW_REPORT", run[r].packageTree) \in artifacts

RunInv(r) == CurrentFits(r) /\ BudgetFits(r) /\ RoundsFit(r) /\ ImplementationsFit(r) /\ ReportsFit(r)

\* The question that is open is the one the active run waits on.
Waits(r) == run[r].status = "WAITING_HUMAN" \/ (run[r].status = "HARD_PAUSED" /\ attempt[run[r].current].code = "SESSION")
QuestionsFit ==
    \A q \in RequestId : request[q].status = "OPEN" =>
       /\ \E r \in RunId : IsCurrent(r, request[q].attempt) /\ Waits(r)
       /\ \A other \in RequestId : request[other].status = "OPEN" => other = q

DoneIsAccepted == workItem = "DONE" => \E r \in RunId : run[r].package = "ACCEPTED"

----
(* Rows a step does not write *)

SameRow(c) == attempt'[c] \in {attempt[c], [attempt[c] EXCEPT !.agentRun = FALSE]}

KeepsRow(c) ==
    /\ attempt'[c].run = attempt[c].run /\ attempt'[c].stage = attempt[c].stage
    /\ attempt'[c].number = attempt[c].number /\ attempt'[c].status = attempt[c].status
    /\ attempt'[c].code = attempt[c].code /\ attempt'[c].round = attempt[c].round
    /\ attempt'[c].tree = attempt[c].tree

LEMMA SameRowKeeps ==
    ASSUME RowsOK, NEW c \in AttemptId, SameRow(c)
    PROVE  KeepsRow(c)
BY DEF RowsOK, SameRow, KeepsRow, AttemptRow

\* The current tree of a run follows from its implementations.
LEMMA CurrentTreeStays ==
    ASSUME NEW r \in RunId, Implementations(r)' = Implementations(r),
           \A c \in Implementations(r) : attempt'[c].tree = attempt[c].tree
    PROVE  \A t : CurrentTree(r, t)' <=> CurrentTree(r, t)
<1>1. \A c \in AttemptId : ImplementedBy(r, c) <=>
         c \in Implementations(r) /\ \A b \in AttemptId : b > c => b \notin Implementations(r)
  BY DEF ImplementedBy, Implementations
<1>2. \A c \in AttemptId : ImplementedBy(r, c)' <=>
         c \in Implementations(r)' /\ \A b \in AttemptId : b > c => b \notin Implementations(r)'
  BY DEF ImplementedBy, Implementations
<1>3. \A c \in AttemptId : ImplementedBy(r, c)' <=> ImplementedBy(r, c)
  BY <1>1, <1>2
<1>4. \A c \in AttemptId : ImplementedBy(r, c) => c \in Implementations(r)
  BY <1>1
<1> QED BY <1>3, <1>4 DEF CurrentTree

\* A run no row of which is written keeps all of it.
LEMMA OtherRunKeeps ==
    ASSUME RowsOK, NEW o \in RunId, RunInv(o), run'[o] = run[o],
           \A c \in AttemptId : attempt[c].run = o \/ attempt'[c].run = o => KeepsRow(c),
           \A k, t : Report(o, k, t) \in artifacts' <=> Report(o, k, t) \in artifacts
    PROVE  RunInv(o)'
<1>1. Implementations(o)' = Implementations(o)
  BY DEF Implementations, KeepsRow
<1>2. \A c \in Implementations(o) : attempt'[c].tree = attempt[c].tree /\ attempt'[c].number = attempt[c].number
  BY DEF Implementations, KeepsRow
<1>3. \A t : CurrentTree(o, t)' <=> CurrentTree(o, t)
  BY <1>1, <1>2, CurrentTreeStays
<1>4. run[o].status # "NONE" => KeepsRow(run[o].current) /\ run[o].current \in AttemptId
  BY DEF RunInv, CurrentFits, IsCurrent
<1>5. Active(o) => run[o].status # "NONE"
  BY DEF Active, ActiveRunStatus
<1>6. Active(o)' <=> Active(o)
  BY DEF Active
<1>7. CurrentFits(o)'
  BY <1>4 DEF RunInv, CurrentFits, IsCurrent, KeepsRow
<1>8. BudgetFits(o)'
  <2>1. run[o].status = "NONE" => ~run[o].exhausted
    BY DEF RunInv, CurrentFits, NoRun
  <2> QED BY <1>4, <2>1 DEF RunInv, BudgetFits, KeepsRow
<1>9. RoundsFit(o)'
  BY <1>4, <1>5, <1>6 DEF RunInv, RoundsFit, KeepsRow
<1>10. ImplementationsFit(o)'
  <2>1. \A a, b \in Implementations(o)' : a < b => attempt'[a].number <= attempt'[b].number
    BY <1>1, <1>2 DEF RunInv, ImplementationsFit
  <2>2. Active(o) => LET c == attempt'[run'[o].current]
                     IN  /\ Early(c.stage) => Implementations(o)' = {}
                         /\ c.stage \in {"IMPLEMENT", "REVIEW"} =>
                               \A b \in Implementations(o)' : attempt'[b].number <= c.number
    BY <1>1, <1>2, <1>4, <1>5 DEF RunInv, ImplementationsFit, KeepsRow
  <2> QED BY <1>6, <2>1, <2>2 DEF ImplementationsFit
<1>11. ReportsFit(o)'
  <2>1. \A t \in Tree : Report(o, "QA_REPORT", t) \in artifacts' =>
          CurrentTree(o, t)' /\ (Active(o) => ~ToReview(attempt'[run'[o].current].stage))
    BY <1>3, <1>4, <1>5 DEF RunInv, ReportsFit, KeepsRow
  <2>2. run'[o].package \in {"PENDING", "ACCEPTED"} =>
          /\ run'[o].packageTree \in Tree
          /\ Report(o, "QA_REPORT", run'[o].packageTree) \in artifacts'
          /\ Report(o, "REVIEW_REPORT", run'[o].packageTree) \in artifacts'
    BY DEF RunInv, ReportsFit
  <2> QED BY <1>6, <2>1, <2>2 DEF ReportsFit, Report
<1> QED BY <1>7, <1>8, <1>9, <1>10, <1>11 DEF RunInv

----
(* The two ways a command writes the active run *)

\* The run stays on attempt a: at most its statuses, its report count and its package change.
StayAttempt(r, a) ==
    /\ run'[r].current = a /\ run'[r].status # "NONE"
    /\ \A c \in AttemptId \ {a} : SameRow(c)
    /\ attempt'[a].run = attempt[a].run /\ attempt'[a].stage = attempt[a].stage
    /\ attempt'[a].number = attempt[a].number /\ attempt'[a].status # "NONE"
    /\ attempt'[a].status = "SUCCEEDED" => attempt[a].stage # "IMPLEMENT"
    /\ attempt'[a].status = "RUNNING" => ~run'[r].exhausted

StayRounds(r, a) ==
    \/ /\ run'[r].reports = run[r].reports
       /\ Active(r)' => attempt[a].code # "REVIEW_LOOP_EXHAUSTED" /\ attempt'[a].code # "REVIEW_LOOP_EXHAUSTED"
    \/ /\ run'[r].reports = run[r].reports + 1 /\ run[r].reports < MaxTotalReviewRounds
       /\ attempt[a].stage = "REVIEW" /\ attempt'[a].status = "WAITING_HUMAN"
       /\ attempt'[a].code = "REVIEW_LOOP_EXHAUSTED" /\ attempt'[a].round = run'[r].reports

StayPackage(r) ==
    run'[r].package \in {"PENDING", "ACCEPTED"} =>
       \/ run[r].package \in {"PENDING", "ACCEPTED"} /\ run'[r].packageTree = run[r].packageTree
       \/ /\ run'[r].packageTree \in Tree
          /\ Report(r, "QA_REPORT", run'[r].packageTree) \in artifacts
          /\ Report(r, "REVIEW_REPORT", run'[r].packageTree) \in artifacts

Stay(r, a) ==
    OnlyRunWritten(r) /\ StayAttempt(r, a) /\ StayRounds(r, a) /\ StayPackage(r) /\ artifacts' = artifacts

\* The run goes on to attempt b, a new row, after a stage that may have succeeded.
GoRow(r, a, b) ==
    /\ attempt'[b].run = r /\ attempt'[b].status \in {"QUEUED", "HARD_PAUSED"}
    /\ attempt'[b].code # "REVIEW_LOOP_EXHAUSTED"
    /\ LET s == attempt[a].stage
           t == attempt'[b].stage
       IN  /\ attempt'[a].status = "SUCCEEDED" /\ s = "IMPLEMENT" =>
                 t = "REVIEW" /\ attempt'[b].number = attempt[a].number
           /\ ToReview(t) => ToReview(s)
           /\ Early(t) => Early(s)
           /\ t \in {"IMPLEMENT", "REVIEW"} =>
                 Early(s) \/ (s \in {"IMPLEMENT", "REVIEW"} /\ attempt'[b].number >= attempt[a].number)

GoRounds(r, b) ==
    run'[r].reports <= MaxTotalReviewRounds
    /\ (ToReview(attempt'[b].stage) => run'[r].reports < MaxTotalReviewRounds)

\* Only a stage that reports leaves a report, a QA stage one on the current tree.
GoReports(r, a, b) ==
    /\ \A o \in RunId : \A k, t : Report(o, k, t) \in artifacts' =>
          \/ Report(o, k, t) \in artifacts
          \/ o = r /\ k = "REVIEW_REPORT"
          \/ /\ o = r /\ attempt[a].stage = "QA" /\ CurrentTree(r, t)
             /\ ~ToReview(attempt'[b].stage)
    /\ artifacts \subseteq artifacts'
    /\ run'[r].package = run[r].package /\ run'[r].packageTree = run[r].packageTree

Go(r, a, b) ==
    /\ OnlyRunWritten(r)
    /\ b \in NextId(attempt)
    /\ run'[r].current = b /\ run'[r].status # "NONE"
    /\ \A c \in AttemptId \ {a, b} : SameRow(c)
    /\ attempt'[a].run = attempt[a].run /\ attempt'[a].stage = attempt[a].stage
    /\ attempt'[a].number = attempt[a].number /\ attempt'[a].status # "NONE"
    /\ GoRow(r, a, b) /\ GoRounds(r, b) /\ GoReports(r, a, b)

\* The current attempt of an active run has not ended.
LEMMA CurrentHasNotEnded ==
    ASSUME RowsAgree, NEW r \in RunId, NEW a \in AttemptId, IsCurrent(r, a), Active(r)
    PROVE  attempt[a].status \notin {"NONE", "SUCCEEDED", "FAILED", "CANCELLED"} /\ a \notin Implementations(r)
BY DEF RowsAgree, StatusesAgree, IsCurrent, Active, ActiveRunStatus, Implementations

LEMMA StayKeeps ==
    ASSUME RowsOK, RowsOK', RowsAgree, NEW r \in RunId, NEW a \in AttemptId,
           IsCurrent(r, a), Active(r), RunInv(r), Stay(r, a)
    PROVE  RunInv(r)'
<1>1. \A c \in AttemptId \ {a} : KeepsRow(c)
  BY SameRowKeeps DEF Stay, StayAttempt
<1>2. Implementations(r)' = Implementations(r)
  <2>1. \A c \in AttemptId \ {a} : c \in Implementations(r)' <=> c \in Implementations(r)
    BY <1>1 DEF Implementations, KeepsRow
  <2>2. a \notin Implementations(r)'
    BY DEF Stay, StayAttempt, Implementations
  <2> QED BY <2>1, <2>2, CurrentHasNotEnded DEF Implementations
<1>3. \A c \in Implementations(r) : attempt'[c].tree = attempt[c].tree /\ attempt'[c].number = attempt[c].number
  BY <1>1, CurrentHasNotEnded DEF Implementations, KeepsRow
<1>4. \A t : CurrentTree(r, t)' <=> CurrentTree(r, t)
  BY <1>2, <1>3, CurrentTreeStays
<1>5. run'[r].current = a /\ attempt'[a].stage = attempt[a].stage /\ attempt'[a].number = attempt[a].number
  BY DEF Stay, StayAttempt
<1>6. CurrentFits(r)'
  <2>1. run[r].current = a /\ attempt[a].run = r /\ run[r].status # "NONE"
    BY DEF IsCurrent, Active, ActiveRunStatus
  <2>2. \A c \in AttemptId : attempt'[c].run = r => c <= a
    BY <1>1, <2>1 DEF RunInv, CurrentFits, KeepsRow, Stay, StayAttempt
  <2>3. attempt'[a].run = r /\ attempt'[a].status # "NONE" /\ run'[r].status # "NONE"
    BY <2>1 DEF Stay, StayAttempt
  <2> QED BY <1>5, <2>2, <2>3 DEF CurrentFits, IsCurrent
<1>7. BudgetFits(r)'
  BY <1>5 DEF Stay, StayAttempt, BudgetFits
<1>8. RoundsFit(r)'
  <2>1. /\ run[r].current = a /\ run[r].reports \in Nat /\ run[r].reports <= MaxTotalReviewRounds
        /\ attempt[a].code # "REVIEW_LOOP_EXHAUSTED" =>
              (ToReview(attempt[a].stage) => run[r].reports < MaxTotalReviewRounds)
    BY DEF IsCurrent, RunInv, RoundsFit, RowsOK, RunRow
  <2>2. CASE /\ run'[r].reports = run[r].reports
             /\ Active(r)' => attempt[a].code # "REVIEW_LOOP_EXHAUSTED" /\ attempt'[a].code # "REVIEW_LOOP_EXHAUSTED"
    BY <1>5, <2>1, <2>2 DEF RoundsFit
  <2>3. CASE /\ run'[r].reports = run[r].reports + 1 /\ run[r].reports < MaxTotalReviewRounds
             /\ attempt[a].stage = "REVIEW" /\ attempt'[a].status = "WAITING_HUMAN"
             /\ attempt'[a].code = "REVIEW_LOOP_EXHAUSTED" /\ attempt'[a].round = run'[r].reports
    BY <1>5, <2>1, <2>3 DEF RoundsFit, MaxTotalReviewRounds
  <2> QED BY <2>2, <2>3 DEF Stay, StayRounds
<1>9. ImplementationsFit(r)'
  <2>1. \A c, d \in Implementations(r)' : c < d => attempt'[c].number <= attempt'[d].number
    BY <1>2, <1>3 DEF RunInv, ImplementationsFit
  <2>2. /\ Early(attempt[a].stage) => Implementations(r) = {}
        /\ attempt[a].stage \in {"IMPLEMENT", "REVIEW"} =>
              \A c \in Implementations(r) : attempt[c].number <= attempt[a].number
    BY DEF RunInv, ImplementationsFit, IsCurrent
  <2> QED BY <1>2, <1>3, <1>5, <2>1, <2>2 DEF ImplementationsFit
<1>10. ReportsFit(r)'
  <2>1. artifacts' = artifacts /\ run[r].current = a
    BY DEF Stay, IsCurrent
  <2>2. \A t \in Tree : Report(r, "QA_REPORT", t) \in artifacts =>
           CurrentTree(r, t) /\ ~ToReview(attempt[a].stage)
    BY <2>1 DEF RunInv, ReportsFit
  <2>3. \A t \in Tree : Report(r, "QA_REPORT", t) \in artifacts' =>
           CurrentTree(r, t)' /\ (Active(r)' => ~ToReview(attempt'[run'[r].current].stage))
    BY <1>4, <1>5, <2>1, <2>2
  <2>4. run'[r].package \in {"PENDING", "ACCEPTED"} =>
          /\ run'[r].packageTree \in Tree
          /\ Report(r, "QA_REPORT", run'[r].packageTree) \in artifacts'
          /\ Report(r, "REVIEW_REPORT", run'[r].packageTree) \in artifacts'
    BY <2>1 DEF RunInv, ReportsFit, Stay, StayPackage
  <2> QED BY <2>3, <2>4 DEF ReportsFit, Report
<1> QED BY <1>6, <1>7, <1>8, <1>9, <1>10 DEF RunInv

\* Rows are inserted in order: the next id is above every row there is.
LEMMA NextIsLast ==
    ASSUME RowsOK, AttemptsDense, NEW b \in NextId(attempt)
    PROVE  /\ b \in AttemptId /\ attempt[b].status = "NONE"
           /\ \A c \in AttemptId : attempt[c].status # "NONE" => c < b
           /\ \A c \in AttemptId : attempt[c].run \in RunId => attempt[c].status # "NONE"
<1>1. b \in AttemptId /\ attempt[b].status = "NONE" /\ b \in Nat
  BY NextIdIsAbsent, BoundAssumption DEF AttemptId
<1>2. ASSUME NEW c \in AttemptId, attempt[c].status # "NONE"
      PROVE  c < b
  <2>1. c # b /\ ~(b < c)
    BY <1>1, <1>2 DEF AttemptsDense
  <2> QED BY <1>1, <2>1 DEF AttemptId
<1>3. ASSUME NEW c \in AttemptId, attempt[c].status = "NONE"
      PROVE  attempt[c].run \notin RunId
  <2>1. attempt[c].run = 0
    BY <1>3 DEF AttemptsDense, NoAttempt
  <2> QED BY <2>1, BoundAssumption DEF RunId
<1> QED BY <1>1, <1>2, <1>3

LEMMA GoKeeps ==
    ASSUME RowsOK, RowsOK', RowsAgree, AttemptsDense, NEW r \in RunId, NEW a \in AttemptId,
           NEW b \in AttemptId, IsCurrent(r, a), Active(r), RunInv(r), Go(r, a, b)
    PROVE  RunInv(r)'
<1> DEFINE s == attempt[a].stage
           t == attempt'[b].stage
           old == Implementations(r)
           new == Implementations(r)'
           adds == attempt'[a].status = "SUCCEEDED" /\ s = "IMPLEMENT"
<1>1. /\ b \in NextId(attempt) /\ run'[r].current = b /\ run'[r].status # "NONE"
      /\ attempt'[a].run = attempt[a].run /\ attempt'[a].stage = attempt[a].stage
      /\ attempt'[a].number = attempt[a].number
      /\ GoRow(r, a, b) /\ GoRounds(r, b) /\ GoReports(r, a, b)
  BY DEF Go
<1>2. run[r].current = a /\ attempt[a].run = r /\ a \notin old /\ attempt[a].status # "NONE" /\ a # b
  BY <1>1, CurrentHasNotEnded, NextIsLast DEF IsCurrent
<1>3. \A c \in AttemptId \ {a, b} : KeepsRow(c)
  BY SameRowKeeps DEF Go
<1>4. b \notin new /\ b \notin old
  BY <1>1, NextIsLast DEF GoRow, Implementations
<1>5. \A c \in AttemptId : c \in new <=> c \in old \/ (c = a /\ adds)
  <2>1. \A c \in AttemptId \ {a, b} : c \in new <=> c \in old
    BY <1>3 DEF Implementations, KeepsRow
  <2>2. a \in new <=> adds
    BY <1>1, <1>2 DEF Implementations
  <2> QED BY <1>2, <1>4, <2>1, <2>2
<1>6. \A c \in old : c \in AttemptId /\ c # a /\ c <= a /\ attempt'[c].number = attempt[c].number
                     /\ attempt'[c].tree = attempt[c].tree
  <2>1. \A c \in old : c \in AttemptId /\ attempt[c].run = r
    BY DEF Implementations
  <2> QED BY <1>2, <1>3, <1>4, <2>1 DEF KeepsRow, RunInv, CurrentFits
<1>7. adds => t = "REVIEW" /\ attempt'[b].number = attempt[a].number
  BY <1>1 DEF GoRow
<1>8. /\ Early(t) => Early(s)
      /\ ToReview(t) => ToReview(s)
      /\ t \in {"IMPLEMENT", "REVIEW"} =>
            Early(s) \/ (s \in {"IMPLEMENT", "REVIEW"} /\ attempt'[b].number >= attempt[a].number)
  BY <1>1 DEF GoRow
<1>9. /\ Early(s) => old = {}
      /\ s \in {"IMPLEMENT", "REVIEW"} => \A c \in old : attempt[c].number <= attempt[a].number
      /\ \A c, d \in old : c < d => attempt[c].number <= attempt[d].number
  BY <1>2 DEF RunInv, ImplementationsFit
<1>10. Early(s) => ~adds
  BY StageOrder
<1>11. CurrentFits(r)'
  <2>1. \A c \in AttemptId : attempt[c].run = r => c < b
    BY <1>1, NextIsLast
  <2>2. \A c \in AttemptId \ {b} : attempt'[c].run = r => attempt[c].run = r
    BY <1>2, <1>3 DEF KeepsRow
  <2>3. attempt'[b].run = r /\ attempt'[b].status # "NONE" /\ b <= b
    BY <1>1, BoundAssumption DEF GoRow, AttemptId
  <2>4. \A c \in AttemptId : attempt'[c].run = r => c <= b
    BY <2>1, <2>2, <2>3 DEF AttemptId
  <2> QED BY <1>1, <2>3, <2>4 DEF CurrentFits, IsCurrent
<1>12. BudgetFits(r)'
  BY <1>1 DEF GoRow, BudgetFits
<1>13. RoundsFit(r)'
  BY <1>1 DEF GoRow, GoRounds, RoundsFit
<1>14. ImplementationsFit(r)'
  <2>1. ASSUME NEW c \in new, NEW d \in new, c < d
        PROVE  attempt'[c].number <= attempt'[d].number
    <3>1. CASE c \in old /\ d \in old
      BY <1>6, <1>9, <2>1, <3>1
    <3>2. CASE c \in old /\ d = a /\ adds
      BY <1>1, <1>6, <1>9, <3>2
    <3>3. CASE c = a
      <4>1. d \in old => d <= a
        BY <1>6
      <4>2. c \in AttemptId /\ d \in AttemptId
        BY DEF Implementations
      <4>3. d = a
        BY <1>5, <2>1, <3>3, <4>1, <4>2 DEF AttemptId
      <4> QED BY <2>1, <3>3, <4>2, <4>3 DEF AttemptId
    <3>4. c \in AttemptId /\ d \in AttemptId
      BY DEF Implementations
    <3> QED BY <1>5, <3>1, <3>2, <3>3, <3>4
  <2>2. Early(t) => new = {}
    <3>1. Early(t) => \A c \in AttemptId : c \notin new
      BY <1>5, <1>8, <1>9, <1>10
    <3> QED BY <3>1 DEF Implementations
  <2>3. ASSUME t \in {"IMPLEMENT", "REVIEW"}, NEW c \in new
        PROVE  attempt'[c].number <= attempt'[b].number
    <3>1. c \in AttemptId /\ attempt[a].number \in Nat /\ attempt'[b].number \in Nat /\ attempt'[c].number \in Nat
      BY DEF Implementations, RowsOK, AttemptRow
    <3>2. Early(s) => FALSE
      BY <1>5, <1>9, <1>10, <2>3, <3>1
    <3>3. s \in {"IMPLEMENT", "REVIEW"} /\ attempt'[b].number >= attempt[a].number
      BY <1>8, <2>3, <3>2
    <3>4. attempt'[c].number <= attempt[a].number
      BY <1>1, <1>5, <1>6, <1>9, <3>1, <3>3
    <3> QED BY <3>1, <3>3, <3>4
  <2> QED BY <1>1, <2>1, <2>2, <2>3 DEF ImplementationsFit
<1>15. ReportsFit(r)'
  <2>1. \A x \in Tree : Report(r, "QA_REPORT", x) \in artifacts => CurrentTree(r, x) /\ ~ToReview(s)
    BY <1>2 DEF RunInv, ReportsFit
  <2>2. ASSUME NEW x \in Tree, Report(r, "QA_REPORT", x) \in artifacts'
        PROVE  CurrentTree(r, x) /\ ~ToReview(t) /\ s # "IMPLEMENT"
    <3>1. CASE Report(r, "QA_REPORT", x) \in artifacts
      BY <1>8, <2>1, <3>1, StageOrder
    <3>2. CASE Report(r, "QA_REPORT", x) \notin artifacts
      BY <1>1, <2>2, <3>2 DEF GoReports
    <3> QED BY <3>1, <3>2
  <2>3. s # "IMPLEMENT" => \A x : CurrentTree(r, x)' <=> CurrentTree(r, x)
    <3>1. s # "IMPLEMENT" => new = old
      BY <1>5 DEF Implementations
    <3> QED BY <1>6, <3>1, CurrentTreeStays
  <2>4. \A x \in Tree : Report(r, "QA_REPORT", x) \in artifacts' =>
           CurrentTree(r, x)' /\ (Active(r)' => ~ToReview(attempt'[run'[r].current].stage))
    BY <1>1, <2>2, <2>3
  <2>5. run'[r].package \in {"PENDING", "ACCEPTED"} =>
          /\ run'[r].packageTree \in Tree
          /\ Report(r, "QA_REPORT", run'[r].packageTree) \in artifacts'
          /\ Report(r, "REVIEW_REPORT", run'[r].packageTree) \in artifacts'
    BY <1>1 DEF RunInv, ReportsFit, GoReports
  <2> QED BY <2>4, <2>5 DEF ReportsFit, Report
<1> QED BY <1>11, <1>12, <1>13, <1>14, <1>15 DEF RunInv

----
(* What a step does to the other tables *)

DispatchesKept == \A d \in DispatchId : dispatch[d].status \in {"COMPLETED", "FAILED"} => dispatch'[d] = dispatch[d]
RequestsKept   == \A q \in RequestId : request[q].status \in {"RESOLVED", "CANCELLED"} => request'[q] = request[q]

\* After the step no question is open, or one that run r waits on.
Questions(r) ==
    \/ \A q \in RequestId : request'[q].status # "OPEN"
    \/ \E q \in RequestId : /\ IsCurrent(r, request[q].attempt)' /\ Waits(r)'
                            /\ \A other \in RequestId : request'[other].status = "OPEN" => other = q

Written(r, a) == Questions(r) /\ (Stay(r, a) \/ \E b \in AttemptId : Go(r, a, b))

RowsInv == AttemptsDense /\ QuestionsFit /\ \A r \in RunId : RunInv(r)

LEMMA DenseKept ==
    ASSUME RowsOK, AttemptsDense,
           \A c \in AttemptId : \/ SameRow(c)
                                \/ attempt[c].status # "NONE" /\ attempt'[c].status # "NONE"
                                \/ c \in NextId(attempt) /\ attempt'[c].status # "NONE"
    PROVE  AttemptsDense'
<1>1. \A c \in AttemptId : attempt'[c].status = "NONE" => attempt'[c] = NoAttempt
  <2>1. \A c \in AttemptId : attempt'[c].status = "NONE" => SameRow(c) /\ attempt[c].status = "NONE"
    BY SameRowKeeps DEF KeepsRow
  <2>2. [NoAttempt EXCEPT !.agentRun = FALSE] = NoAttempt
    <3>1. NoAttempt \in AttemptRow /\ NoAttempt.agentRun = FALSE
      BY AbsentRowsType DEF NoAttempt
    <3> QED BY <3>1 DEF AttemptRow
  <2> QED BY <2>1, <2>2 DEF SameRow, AttemptsDense
<1>2. ASSUME NEW b \in AttemptId, NEW c \in AttemptId, b < c, attempt'[c].status # "NONE"
      PROVE  attempt'[b].status # "NONE"
  <2>1. \A d \in AttemptId : attempt[d].status # "NONE" => attempt'[d].status # "NONE"
    BY SameRowKeeps DEF KeepsRow
  <2>2. CASE attempt[c].status # "NONE"
    BY <1>2, <2>1, <2>2 DEF AttemptsDense
  <2>3. CASE attempt[c].status = "NONE"
    <3>1. c \in NextId(attempt)
      BY <1>2, <2>3, SameRowKeeps DEF KeepsRow
    <3>2. attempt[b].status # "NONE"
      BY <1>2, <3>1 DEF NextId, RowsOK
    <3> QED BY <2>1, <3>2
  <2> QED BY <2>2, <2>3
<1> QED BY <1>1, <1>2 DEF AttemptsDense

LEMMA QuestionsKept ==
    ASSUME NEW r \in RunId, Questions(r)
    PROVE  QuestionsFit'
<1>1. CASE \A q \in RequestId : request'[q].status # "OPEN"
  BY <1>1 DEF QuestionsFit
<1>2. ASSUME NEW q \in RequestId, IsCurrent(r, request[q].attempt)', Waits(r)',
             \A other \in RequestId : request'[other].status = "OPEN" => other = q
      PROVE  QuestionsFit'
  <2>1. \A p \in RequestId : request'[p].status = "OPEN" => IsCurrent(r, request[p].attempt)'
    BY <1>2
  <2>2. \A p \in RequestId : request'[p].status = "OPEN" =>
           \A other \in RequestId : request'[other].status = "OPEN" => other = p
    BY <1>2
  <2> QED BY <1>2, <2>1, <2>2 DEF QuestionsFit
<1> QED BY <1>1, <1>2 DEF Questions

LEMMA WrittenKeeps ==
    ASSUME RowsOK, RowsOK', RowsAgree, RowsInv, NEW r \in RunId, NEW a \in AttemptId,
           IsCurrent(r, a), Active(r), Written(r, a)
    PROVE  RowsInv'
<1>1. AttemptsDense /\ \A o \in RunId : RunInv(o)
  BY DEF RowsInv
<1>2. OnlyRunWritten(r) /\ run[r].current = a /\ attempt[a].run = r
  BY DEF Written, Stay, Go, IsCurrent
<1>3. RunInv(r)'
  BY <1>1, StayKeeps, GoKeeps DEF Written
<1>4. PICK b : /\ b = a \/ b \in NextId(attempt)
               /\ \A c \in AttemptId \ {a, b} : SameRow(c)
               /\ attempt'[a].run = r /\ attempt'[a].status # "NONE"
               /\ b # a => attempt'[b].run = r /\ attempt'[b].status # "NONE"
  <2>1. CASE Stay(r, a)
    BY <1>2, <2>1 DEF Stay, StayAttempt
  <2>2. ASSUME NEW b \in AttemptId, Go(r, a, b)
        PROVE  /\ b \in NextId(attempt)
               /\ \A c \in AttemptId \ {a, b} : SameRow(c)
               /\ attempt'[a].run = r /\ attempt'[a].status # "NONE"
               /\ attempt'[b].run = r /\ attempt'[b].status # "NONE"
    BY <1>2, <2>2 DEF Go, GoRow
  <2> QED BY <2>1, <2>2 DEF Written
<1>5. attempt[a].status \notin {"NONE", "SUCCEEDED", "FAILED", "CANCELLED"}
  BY CurrentHasNotEnded
<1>6. b # a => b \in AttemptId /\ attempt[b].status = "NONE" /\ attempt[b].run \notin RunId
  BY <1>1, <1>4, NextIsLast
<1>7. AttemptsDense'
  BY <1>1, <1>4, <1>5, DenseKept
<1>8. ASSUME NEW o \in RunId, o # r
      PROVE  RunInv(o)'
  <2>1. run'[o] = run[o]
    BY <1>2, <1>8 DEF OnlyRunWritten
  <2>2. \A c \in AttemptId : attempt[c].run = o \/ attempt'[c].run = o => KeepsRow(c)
    BY <1>2, <1>4, <1>6, <1>8, SameRowKeeps
  <2>3. \A k, t : Report(o, k, t) \in artifacts' <=> Report(o, k, t) \in artifacts
    BY <1>8 DEF Written, Stay, Go, GoReports
  <2> QED BY <1>1, <2>1, <2>2, <2>3, OtherRunKeeps
<1>9. QuestionsFit'
  BY QuestionsKept DEF Written
<1> QED
  BY <1>3, <1>7, <1>8, <1>9 DEF RowsInv

\* A step that writes no row but agentRun flags and, of an idle WorkItem, its state.
LEMMA IdleKeeps ==
    ASSUME RowsOK, RowsInv, UNCHANGED <<run, dispatch, request, artifacts>>, \A c \in AttemptId : SameRow(c)
    PROVE  RowsInv'
<1>1. AttemptsDense'
  BY DenseKept DEF RowsInv
<1>2. \A c \in AttemptId : KeepsRow(c)
  BY SameRowKeeps
<1>3. ASSUME NEW o \in RunId
      PROVE  RunInv(o)'
  BY <1>2, OtherRunKeeps DEF RowsInv
<1>4. \A r \in RunId : Waits(r)' <=> Waits(r)
  <2>1. ASSUME NEW r \in RunId
        PROVE  Waits(r)' <=> Waits(r)
    <3>1. run[r].status = "HARD_PAUSED" => run[r].current \in AttemptId
      BY DEF RowsInv, RunInv, CurrentFits, IsCurrent
    <3> QED BY <1>2, <3>1 DEF Waits, KeepsRow
  <2> QED BY <2>1
<1>5. \A r \in RunId : \A c : IsCurrent(r, c)' <=> IsCurrent(r, c)
  BY <1>2 DEF IsCurrent, KeepsRow
<1>6. QuestionsFit'
  BY <1>4, <1>5 DEF RowsInv, QuestionsFit
<1> QED
  BY <1>1, <1>3, <1>6 DEF RowsInv

\* While the active run waits for nobody, no question is open.
LEMMA NoQuestionOpen ==
    ASSUME RowsAgree, QuestionsFit, NEW r \in RunId, Active(r), ~Waits(r), NEW q \in RequestId
    PROVE  request[q].status # "OPEN"
<1>1. SUFFICES ASSUME request[q].status = "OPEN" PROVE FALSE
  OBVIOUS
<1>2. PICK o \in RunId : Waits(o)
  BY <1>1 DEF QuestionsFit
<1>3. o = r
  BY <1>2 DEF Waits, RowsAgree, OneActiveRun, Active, ActiveRunStatus
<1> QED BY <1>2, <1>3

LEMMA QuestionsAre ==
    ASSUME RowsOK, NEW r \in RunId, NEW q \in RequestId, NEW a \in AttemptId
    PROVE  /\ request' = request /\ (\A p \in RequestId : request[p].status # "OPEN") => Questions(r)
           /\ /\ request' = OpenRequest(q, a) /\ (\A p \in RequestId : request[p].status # "OPEN")
              /\ IsCurrent(r, a)' /\ Waits(r)'
              => Questions(r)
           /\ request' = Resolved(q) /\ QuestionsFit /\ request[q].status = "OPEN" => Questions(r)
           /\ request' = WithdrawRequests => Questions(r)
<1>1. request' = request /\ (\A p \in RequestId : request[p].status # "OPEN") => Questions(r)
  BY DEF Questions
<1>2. ASSUME request' = OpenRequest(q, a), \A p \in RequestId : request[p].status # "OPEN",
             IsCurrent(r, a)', Waits(r)'
      PROVE  Questions(r)
  <2>1. request'[q].attempt = a /\ \A other \in RequestId : request'[other].status = "OPEN" => other = q
    BY <1>2 DEF OpenRequest, RowsOK
  <2> QED BY <1>2, <2>1 DEF Questions
<1>3. ASSUME request' = Resolved(q), QuestionsFit, request[q].status = "OPEN"
      PROVE  Questions(r)
  <2>1. \A other \in RequestId : request[other].status = "OPEN" => other = q
    BY <1>3 DEF QuestionsFit
  <2>2. \A other \in RequestId : request'[other].status # "OPEN"
    BY <1>3, <2>1 DEF Resolved, RowsOK, RequestRow
  <2> QED BY <2>2 DEF Questions
<1>4. request' = WithdrawRequests => Questions(r)
  BY DEF WithdrawRequests, Questions, RowsOK, RequestRow
<1> QED BY <1>1, <1>2, <1>3, <1>4

----
(* Every command on the active run is one of the two *)

\* What the invariants say of the current attempt of the active run.
LEMMA CurrentRow ==
    ASSUME RowsOK, RowsAgree, RowsInv, NEW r \in RunId, NEW a \in AttemptId, IsCurrent(r, a), Active(r)
    PROVE  /\ run[r].current = a /\ attempt[a].run = r
           /\ run[r].status = "RUNNING" => attempt[a].status \in {"QUEUED", "RUNNING"} /\ workItem = "IN_PROGRESS"
           /\ run[r].status # "RUNNING" => attempt[a].status = run[r].status /\ workItem = "BLOCKED"
           /\ run[r].exhausted => attempt[a].status # "RUNNING"
           /\ run[r].reports \in Nat /\ run[r].reports <= MaxTotalReviewRounds
           /\ attempt[a].code = "REVIEW_LOOP_EXHAUSTED" =>
                 attempt[a].stage = "REVIEW" /\ attempt[a].status = "WAITING_HUMAN" /\ attempt[a].round = run[r].reports
           /\ attempt[a].code # "REVIEW_LOOP_EXHAUSTED" /\ ToReview(attempt[a].stage) =>
                 run[r].reports < MaxTotalReviewRounds
<1>1. run[r].current = a /\ attempt[a].run = r /\ run[r] \in RunRow
  BY DEF IsCurrent, RowsOK
<1>2. /\ run[r].status = "RUNNING" => attempt[a].status \in {"QUEUED", "RUNNING"} /\ workItem = "IN_PROGRESS"
      /\ run[r].status # "RUNNING" => attempt[a].status = run[r].status /\ workItem = "BLOCKED"
  BY <1>1 DEF RowsAgree, StatusesAgree
<1>3. RunInv(r)
  BY DEF RowsInv
<1> QED BY <1>1, <1>2, <1>3 DEF RunInv, BudgetFits, RoundsFit, RunRow

\* A step writes attempt a, and keeps what it is an attempt of; or run r, and keeps its current one.
RowWritten(a) ==
    /\ \A c \in AttemptId \ {a} : attempt'[c] = attempt[c]
    /\ attempt'[a].run = attempt[a].run /\ attempt'[a].stage = attempt[a].stage
    /\ attempt'[a].number = attempt[a].number
RunWritten(r) == (\A o \in RunId \ {r} : run'[o] = run[o]) /\ run'[r].current = run[r].current

LEMMA StayRows ==
    ASSUME RowsOK, RowsAgree, NEW r \in RunId, NEW a \in AttemptId, IsCurrent(r, a), Active(r),
           RowWritten(a), RunWritten(r), run'[r].status # "NONE", attempt'[a].status # "NONE",
           attempt'[a].status = "SUCCEEDED" => attempt[a].stage # "IMPLEMENT",
           attempt'[a].status = "RUNNING" => ~run'[r].exhausted
    PROVE  OnlyRunWritten(r) /\ StayAttempt(r, a)
BY DEF RowWritten, RunWritten, OnlyRunWritten, StayAttempt, SameRow, IsCurrent, RowsAgree, OneActiveRun

LEMMA StartWrites ==
    ASSUME RowsOK, RowsAgree, RowsInv, NEW r \in RunId, NEW a \in AttemptId, NEW d \in DispatchId,
           StartAgentRun(r, a, d)
    PROVE  Active(r) /\ Written(r, a)
<1>1. IsCurrent(r, a) /\ dispatch[d] = [attempt |-> a, status |-> "PENDING"] /\ ~run[r].exhausted
  BY DEF StartAgentRun, Startable, BudgetLeft
<1>2. run[r].status = "RUNNING" /\ Active(r)
  BY <1>1, ExecutingIsRunning
<1>3. attempt[a].code # "REVIEW_LOOP_EXHAUSTED" /\ workItem = "IN_PROGRESS"
  BY <1>1, <1>2, CurrentRow
<1>4. RowWritten(a) /\ attempt'[a].code = attempt[a].code /\ attempt'[a].status = "RUNNING"
  BY DEF StartAgentRun, RowsOK, AttemptRow, RowWritten
<1>5. RunWritten(r) /\ run' = run
  BY DEF StartAgentRun, RunWritten
<1>6. Stay(r, a)
  BY <1>1, <1>2, <1>3, <1>4, <1>5, StayRows DEF Stay, StayRounds, StayPackage, StartAgentRun
<1>7. Questions(r)
  <2>1. ~Waits(r)
    BY <1>2 DEF Waits
  <2>2. request' = request /\ \A q \in RequestId : request[q].status # "OPEN"
    BY <1>2, <2>1, NoQuestionOpen DEF RowsInv, StartAgentRun
  <2> QED BY <2>2 DEF Questions
<1> QED BY <1>2, <1>6, <1>3, <1>7 DEF Written

LEMMA ParkWrites ==
    ASSUME RowsOK, RowsAgree, RowsInv, NEW r \in RunId, NEW a \in AttemptId, NEW d \in DispatchId,
           ParkQueuedStageAttemptForBudget(r, a, d)
    PROVE  Active(r) /\ Written(r, a)
<1>1. IsCurrent(r, a) /\ dispatch[d] = [attempt |-> a, status |-> "PENDING"]
  BY DEF ParkQueuedStageAttemptForBudget, Startable
<1>2. run[r].status = "RUNNING" /\ Active(r) /\ dispatch[d].status = "PENDING"
  BY <1>1, ExecutingIsRunning
<1>3. attempt[a].code # "REVIEW_LOOP_EXHAUSTED" /\ workItem = "IN_PROGRESS"
  BY <1>1, <1>2, CurrentRow
<1>4. RowWritten(a) /\ attempt'[a].code = "NONE" /\ attempt'[a].status = "HARD_PAUSED"
  BY DEF ParkQueuedStageAttemptForBudget, RowsOK, AttemptRow, RowWritten
<1>5. /\ RunWritten(r) /\ run'[r].status = "HARD_PAUSED" /\ run'[r].reports = run[r].reports
      /\ run'[r].package = run[r].package /\ run'[r].packageTree = run[r].packageTree
  BY DEF ParkQueuedStageAttemptForBudget, RowsOK, RunRow, RunWritten
<1>6. Stay(r, a)
  BY <1>1, <1>2, <1>3, <1>4, <1>5, StayRows
     DEF Stay, StayRounds, StayPackage, ParkQueuedStageAttemptForBudget
<1>7. Questions(r)
  <2>1. ~Waits(r)
    BY <1>2 DEF Waits
  <2>2. request' = request /\ \A q \in RequestId : request[q].status # "OPEN"
    BY <1>2, <2>1, NoQuestionOpen DEF RowsInv, ParkQueuedStageAttemptForBudget
  <2> QED BY <2>2 DEF Questions
<1> QED BY <1>2, <1>6, <1>7 DEF Written

LEMMA UsageWrites ==
    ASSUME RowsOK, RowsAgree, RowsInv, NEW r \in RunId, NEW a \in AttemptId, NEW d \in DispatchId,
           NEW usage \in Usage, NEW stopped \in BOOLEAN, RecordProviderUsage(r, a, d, usage, stopped)
    PROVE  Active(r) /\ Written(r, a)
<1>1. /\ IsCurrent(r, a) /\ run[r].status \in {"RUNNING", "SOFT_PAUSED"} /\ Active(r)
      /\ attempt[a].status \in {"RUNNING", "SOFT_PAUSED"} /\ dispatch[d].status \in {"PENDING", "FAILED"}
  BY DEF RecordProviderUsage, Active, ActiveRunStatus
<1>2. attempt[a].code # "REVIEW_LOOP_EXHAUSTED"
  BY <1>1, CurrentRow
<1>3. RowWritten(a) /\ attempt'[a].code = "NONE" /\ attempt'[a].status = "HARD_PAUSED"
  BY DEF RecordProviderUsage, RowsOK, AttemptRow, RowWritten
<1>4. /\ RunWritten(r) /\ run'[r].status = "HARD_PAUSED" /\ run'[r].reports = run[r].reports
      /\ run'[r].package = run[r].package /\ run'[r].packageTree = run[r].packageTree
  BY DEF RecordProviderUsage, RowsOK, RunRow, RunWritten
<1>5. Stay(r, a)
  BY <1>1, <1>2, <1>3, <1>4, StayRows DEF Stay, StayRounds, StayPackage, RecordProviderUsage
<1>6. Questions(r)
  <2>1. ~Waits(r)
    BY <1>1 DEF Waits
  <2>2. request' = request /\ \A q \in RequestId : request[q].status # "OPEN"
    BY <1>1, <2>1, NoQuestionOpen DEF RowsInv, RecordProviderUsage
  <2> QED BY <2>2 DEF Questions
<1> QED BY <1>1, <1>5, <1>6 DEF Written

\* What an executing stage is, to the outcomes below.
LEMMA ExecutingRow ==
    ASSUME RowsOK, RowsAgree, RowsInv, NEW r \in RunId, NEW a \in AttemptId, NEW d \in DispatchId,
           Executing(r, a, d)
    PROVE  /\ IsCurrent(r, a) /\ Active(r) /\ run[r].status = "RUNNING" /\ attempt[a].status = "RUNNING"
           /\ attempt[a].code # "REVIEW_LOOP_EXHAUSTED" /\ dispatch[d].status = "PENDING"
           /\ run[r].current = a /\ attempt[a].run = r
           /\ run[r].reports \in Nat /\ run[r].reports <= MaxTotalReviewRounds
           /\ ToReview(attempt[a].stage) => run[r].reports < MaxTotalReviewRounds
           /\ \A q \in RequestId : request[q].status # "OPEN"
<1>1. IsCurrent(r, a) /\ attempt[a].status = "RUNNING" /\ dispatch[d].status = "PENDING"
  BY DEF Executing
<1>2. run[r].status = "RUNNING" /\ Active(r)
  BY <1>1, ExecutingIsRunning DEF Executing
<1>3. ~Waits(r)
  BY <1>2 DEF Waits
<1>4. \A q \in RequestId : request[q].status # "OPEN"
  BY <1>2, <1>3, NoQuestionOpen DEF RowsInv
<1> QED BY <1>1, <1>2, <1>4, CurrentRow

LEMMA LeavesWrites ==
    ASSUME RowsOK, NEW a \in AttemptId, NEW s \in AttemptStatus, NEW c \in FailureCode,
           attempt' = Leaves(a, s, c)
    PROVE  RowWritten(a) /\ attempt'[a].status = s /\ attempt'[a].code = c
BY DEF Leaves, RowsOK, AttemptRow, RowWritten

LEMMA BudgetOutcomeWrites ==
    ASSUME RowsOK, RowsAgree, RowsInv, NEW r \in RunId, NEW a \in AttemptId, NEW d \in DispatchId,
           BudgetOutcome(r, a, d)
    PROVE  Active(r) /\ Written(r, a)
<1>1. Executing(r, a, d)
  BY DEF BudgetOutcome
<1>2. attempt[a].code \in FailureCode /\ "HARD_PAUSED" \in AttemptStatus
  BY Statuses DEF RowsOK, AttemptRow, ActiveRunStatus
<1>3. RowWritten(a) /\ attempt'[a].code = attempt[a].code /\ attempt'[a].status = "HARD_PAUSED"
  BY <1>2, LeavesWrites DEF BudgetOutcome
<1>4. /\ RunWritten(r) /\ run'[r].status = "HARD_PAUSED" /\ run'[r].reports = run[r].reports
      /\ run'[r].package = run[r].package /\ run'[r].packageTree = run[r].packageTree
  BY DEF BudgetOutcome, RowsOK, RunRow, RunWritten
<1>5. Stay(r, a)
  BY <1>1, <1>3, <1>4, ExecutingRow, StayRows DEF Stay, StayRounds, StayPackage, BudgetOutcome
<1>6. Questions(r)
  BY <1>1, ExecutingRow DEF Questions, BudgetOutcome
<1> QED BY <1>1, <1>5, <1>6, ExecutingRow DEF Written

\* A command that stops the run on a question about the attempt.
LEMMA AsksWrites ==
    ASSUME RowsOK, RowsAgree, RowsInv, NEW r \in RunId, NEW a \in AttemptId, NEW q \in NextId(request),
           IsCurrent(r, a), Active(r), \A p \in RequestId : request[p].status # "OPEN",
           RowWritten(a), RunWritten(r),
           \/ run'[r].status = "WAITING_HUMAN" /\ attempt'[a].status = "WAITING_HUMAN"
           \/ /\ run'[r].status = "HARD_PAUSED" /\ attempt'[a].status = "HARD_PAUSED"
              /\ attempt'[a].code = "SESSION",
           StayRounds(r, a), StayPackage(r), request' = OpenRequest(q, a),
           workItem' = "BLOCKED", artifacts' = artifacts
    PROVE  Written(r, a)
<1>1. q \in RequestId /\ request[q].status = "NONE"
  BY NextIdIsAbsent
<1>2. Stay(r, a)
  BY StayRows DEF Stay
<1>3. run'[r].current = a /\ IsCurrent(r, a)'
  BY DEF RunWritten, RowWritten, IsCurrent
<1>4. Waits(r)'
  BY <1>3 DEF Waits
<1>5. Questions(r)
  BY <1>1, <1>3, <1>4, QuestionsAre
<1> QED BY <1>2, <1>5 DEF Written

\* A hard pause where nothing is asked stops the run on its question.
LEMMA HardPauseWrites ==
    ASSUME RowsOK, RowsAgree, RowsInv, NEW r \in RunId, NEW a \in AttemptId, NEW q \in NextId(request),
           IsCurrent(r, a), Active(r), \A p \in RequestId : request[p].status # "OPEN",
           attempt[a].code # "REVIEW_LOOP_EXHAUSTED", StageAttemptHardPause(r, a, q)
    PROVE  Written(r, a)
<1>1. RowWritten(a) /\ attempt'[a].code = "SESSION" /\ attempt'[a].status = "HARD_PAUSED"
  BY LeavesWrites DEF StageAttemptHardPause, AttemptStatus, FailureCode
<1>2. /\ RunWritten(r) /\ run'[r].status = "HARD_PAUSED" /\ run'[r].reports = run[r].reports
      /\ run'[r].package = run[r].package /\ run'[r].packageTree = run[r].packageTree
  BY DEF StageAttemptHardPause, RowsOK, RunRow, RunWritten
<1>3. StayRounds(r, a) /\ StayPackage(r)
  BY <1>1, <1>2 DEF StayRounds, StayPackage
<1> QED
  BY <1>1, <1>2, <1>3, AsksWrites DEF StageAttemptHardPause

\* A run that waits for nothing is not at the end of its review loop.
LEMMA StandingIs ==
    ASSUME RowsOK, RowsAgree, RowsInv, NEW r \in RunId, NEW a \in AttemptId, Standing(r, a)
    PROVE  attempt[a].code # "REVIEW_LOOP_EXHAUSTED"
BY CurrentRow DEF Standing

LEMMA OutcomesAsk ==
    ASSUME RowsOK, RowsAgree, RowsInv, NEW r \in RunId, NEW a \in AttemptId, NEW d \in DispatchId,
           NEW q \in NextId(request),
           \/ SessionHardPause(r, a, d, q)
           \/ \E code \in {"NONE", "PROVIDER"}, usage \in Usage : NeedsHuman(r, a, d, q, code, usage)
           \/ \E tree \in Tree, usage \in Usage :
                 ReviewWaitsForOwner(r, a, d, q, tree, usage) \/ ReadyForAcceptance(r, a, d, q, tree, usage)
    PROVE  Active(r) /\ Written(r, a)
<1>2. {"HARD_PAUSED", "WAITING_HUMAN"} \subseteq AttemptStatus /\ {"SESSION", "NONE", "PROVIDER"} \subseteq FailureCode
  BY DEF AttemptStatus, FailureCode
<1>3. attempt[a].code \in FailureCode
  BY DEF RowsOK, AttemptRow
<1>4. CASE SessionHardPause(r, a, d, q)
  BY <1>4, ExecutingRow, HardPauseWrites DEF SessionHardPause
<1>5. ASSUME NEW code \in {"NONE", "PROVIDER"}, NEW usage \in Usage, NeedsHuman(r, a, d, q, code, usage)
      PROVE  Active(r) /\ Written(r, a)
  <2>1. Executing(r, a, d)
    BY <1>5 DEF NeedsHuman
  <2>2. RowWritten(a) /\ attempt'[a].code = code /\ attempt'[a].status = "WAITING_HUMAN"
    BY <1>2, <1>5, LeavesWrites DEF NeedsHuman
  <2>3. /\ RunWritten(r) /\ run'[r].status = "WAITING_HUMAN" /\ run'[r].reports = run[r].reports
        /\ run'[r].package = run[r].package /\ run'[r].packageTree = run[r].packageTree
    BY <1>5 DEF NeedsHuman, RowsOK, RunRow, RunWritten
  <2>4. StayRounds(r, a) /\ StayPackage(r)
    BY <2>1, <2>2, <2>3, ExecutingRow DEF StayRounds, StayPackage
  <2> QED BY <1>5, <2>1, <2>2, <2>3, <2>4, ExecutingRow, AsksWrites DEF NeedsHuman
<1>6. ASSUME NEW tree \in Tree, NEW usage \in Usage, ReviewWaitsForOwner(r, a, d, q, tree, usage)
      PROVE  Active(r) /\ Written(r, a)
  <2>1. Executing(r, a, d) /\ attempt[a].stage = "REVIEW"
    BY <1>6 DEF ReviewWaitsForOwner
  <2>2. RowWritten(a) /\ attempt'[a].code = "REVIEW_LOOP_EXHAUSTED" /\ attempt'[a].status = "WAITING_HUMAN"
        /\ attempt'[a].round = run[r].reports + 1
    BY <1>6 DEF ReviewWaitsForOwner, RowsOK, AttemptRow, RowWritten
  <2>3. /\ RunWritten(r) /\ run'[r].status = "WAITING_HUMAN" /\ run'[r].reports = run[r].reports + 1
        /\ run'[r].package = run[r].package /\ run'[r].packageTree = run[r].packageTree
    BY <1>6 DEF ReviewWaitsForOwner, RowsOK, RunRow, RunWritten
  <2>4. StayRounds(r, a) /\ StayPackage(r)
    BY <1>6, <2>1, <2>2, <2>3 DEF StayRounds, StayPackage, ReviewWaitsForOwner
  <2> QED BY <1>6, <2>1, <2>2, <2>3, <2>4, ExecutingRow, AsksWrites DEF ReviewWaitsForOwner
<1>7. ASSUME NEW tree \in Tree, NEW usage \in Usage, ReadyForAcceptance(r, a, d, q, tree, usage)
      PROVE  Active(r) /\ Written(r, a)
  <2>1. Executing(r, a, d)
    BY <1>7 DEF ReadyForAcceptance
  <2>2. RowWritten(a) /\ attempt'[a].code = attempt[a].code /\ attempt'[a].status = "WAITING_HUMAN"
    <3>1. attempt' = Leaves(a, "WAITING_HUMAN", attempt[a].code)
      BY <1>7 DEF ReadyForAcceptance
    <3> QED
      BY <1>2, <1>3, <3>1, LeavesWrites
  <2>3. /\ RunWritten(r) /\ run'[r].status = "WAITING_HUMAN" /\ run'[r].reports = run[r].reports
        /\ run'[r].packageTree = tree
    <3>1. run' = [run EXCEPT ![r] = [run[r] EXCEPT !.status = "WAITING_HUMAN", !.exhausted = Spend(r, usage),
                               !.package = "PENDING", !.packageRequest = q, !.packageTree = tree]]
      BY <1>7 DEF ReadyForAcceptance, RowsOK
    <3>2. run'[r] = [run[r] EXCEPT !.status = "WAITING_HUMAN", !.exhausted = Spend(r, usage),
                               !.package = "PENDING", !.packageRequest = q, !.packageTree = tree]
      BY <3>1 DEF RowsOK
    <3>3. run[r] \in RunRow
      BY DEF RowsOK
    <3> QED BY <3>1, <3>2, <3>3 DEF RunRow, RunWritten, RowsOK
  <2>4. StayRounds(r, a)
    BY <2>1, <2>2, <2>3, ExecutingRow DEF StayRounds
  <2>5. StayPackage(r)
    BY <1>7, <2>3 DEF StayPackage, ReadyForAcceptance, Report
  <2> QED BY <1>7, <2>1, <2>2, <2>3, <2>4, <2>5, ExecutingRow, AsksWrites DEF ReadyForAcceptance
<1> QED BY <1>4, <1>5, <1>6, <1>7

\* A stage that ended goes on to the next row, which does not lead back to a review it cannot have.
LEMMA ContinueWrites ==
    ASSUME RowsOK, RowsAgree, RowsInv, NEW r \in RunId, NEW a \in AttemptId, NEW d \in DispatchId,
           NEW b \in NextId(attempt), NEW e \in NextId(dispatch), NEW s \in Stage, NEW n \in Nat,
           NEW tree \in Tree, NEW usage \in Usage, Executing(r, a, d),
           ContinueWith(r, a, d, b, e, QueuedAttempt(r, s, n), tree, usage),
           attempt[a].stage = "IMPLEMENT" => s = "REVIEW" /\ n = attempt[a].number,
           ToReview(s) => ToReview(attempt[a].stage),
           Early(s) => Early(attempt[a].stage),
           s \in {"IMPLEMENT", "REVIEW"} =>
              Early(attempt[a].stage)
              \/ (attempt[a].stage \in {"IMPLEMENT", "REVIEW"} /\ n >= attempt[a].number),
           attempt[a].stage = "REVIEW" =>
              run[r].reports < MaxTotalReviewRounds
              /\ (ToReview(s) => run[r].reports + 1 < MaxTotalReviewRounds),
           artifacts \subseteq artifacts',
           \A o \in RunId : \A k, t : Report(o, k, t) \in artifacts' =>
              \/ Report(o, k, t) \in artifacts
              \/ o = r /\ k = "REVIEW_REPORT"
              \/ o = r /\ attempt[a].stage = "QA" /\ CurrentTree(r, t) /\ ~ToReview(s)
    PROVE  Active(r) /\ Written(r, a)
<1> DEFINE row == QueuedAttempt(r, s, n)
<1>1. /\ row \in AttemptRow /\ row.run = r /\ row.stage = s /\ row.number = n /\ row.status = "QUEUED"
      /\ row.code = "NONE"
  BY QueuedAttemptType DEF QueuedAttempt, NoAttempt
<1>2. b \in AttemptId /\ attempt[b].status = "NONE" /\ e \in DispatchId /\ dispatch[e].status = "NONE"
  BY NextIdIsAbsent
<1>3. /\ IsCurrent(r, a) /\ Active(r) /\ run[r].status = "RUNNING" /\ attempt[a].status = "RUNNING"
      /\ run[r].current = a /\ attempt[a].run = r /\ run[r].reports \in Nat
      /\ run[r].reports <= MaxTotalReviewRounds
      /\ ToReview(attempt[a].stage) => run[r].reports < MaxTotalReviewRounds
  BY ExecutingRow
<1>4. a # b
  BY <1>2, <1>3
<1>5. Succeeded(a, tree) \in [AttemptId -> AttemptRow]
  BY SucceededType
<1>6. /\ \A c \in AttemptId \ {a, b} : attempt'[c] = attempt[c]
      /\ attempt'[a] = [attempt[a] EXCEPT !.status = "SUCCEEDED", !.tree = tree, !.agentRun = FALSE]
  BY <1>4, <1>5 DEF ContinueWith, Succeeded, RowsOK
<1>7. /\ attempt'[a].run = attempt[a].run /\ attempt'[a].stage = attempt[a].stage
      /\ attempt'[a].number = attempt[a].number /\ attempt'[a].status = "SUCCEEDED"
  BY <1>6 DEF RowsOK, AttemptRow
<1>8. attempt'[b] = IF usage # "BELOW" THEN [row EXCEPT !.status = "HARD_PAUSED"] ELSE row
  BY <1>2, <1>5 DEF ContinueWith
<1>9. /\ attempt'[b].run = r /\ attempt'[b].stage = s /\ attempt'[b].number = n
      /\ attempt'[b].code = "NONE" /\ attempt'[b].status \in {"QUEUED", "HARD_PAUSED"}
  <2>1. CASE usage = "BELOW"
    BY <1>1, <1>8, <2>1
  <2>2. CASE usage # "BELOW"
    <3>1. attempt'[b] = [row EXCEPT !.status = "HARD_PAUSED"]
      BY <1>8, <2>2
    <3> HIDE DEF row
    <3> QED BY <1>1, <3>1 DEF AttemptRow
  <2> QED BY <2>1, <2>2
<1> DEFINE counted == IF attempt[a].stage = "REVIEW" THEN run[r].reports + 1 ELSE run[r].reports
<1>10. /\ OnlyRunWritten(r) /\ run'[r].current = b /\ run'[r].status # "NONE" /\ run'[r].reports = counted
       /\ run'[r].package = run[r].package /\ run'[r].packageTree = run[r].packageTree
  <2> DEFINE status == IF usage # "BELOW" THEN "HARD_PAUSED" ELSE "RUNNING"
  <2>1. run' = [run EXCEPT ![r] = [run[r] EXCEPT !.status = status, !.current = b,
                                                 !.exhausted = Spend(r, usage), !.reports = counted]]
    BY DEF ContinueWith
  <2>2. run[r] \in RunRow
    BY DEF RowsOK
  <2>3. run'[r] = [run[r] EXCEPT !.status = status, !.current = b, !.exhausted = Spend(r, usage),
                                 !.reports = counted]
    BY <2>1 DEF RowsOK
  <2>6. status # "NONE"
    OBVIOUS
  <2> HIDE DEF status
  <2>4. OnlyRunWritten(r)
    BY <1>3, <2>1, OtherRuns
  <2> HIDE DEF counted
  <2> QED BY <2>2, <2>3, <2>4, <2>6 DEF RunRow
<1>11. GoRounds(r, b)
  <2>1. counted <= MaxTotalReviewRounds /\ (ToReview(s) => counted < MaxTotalReviewRounds)
    BY <1>3 DEF MaxTotalReviewRounds
  <2> QED BY <1>9, <1>10, <2>1 DEF GoRounds
<1>12. GoRow(r, a, b)
  BY <1>9 DEF GoRow
<1>13. GoReports(r, a, b)
  BY <1>9, <1>10 DEF GoReports
<1>14. Go(r, a, b)
  BY <1>6, <1>7, <1>10, <1>11, <1>12, <1>13 DEF Go, SameRow
<1>16. request' = request
  BY DEF ContinueWith
<1>17. Questions(r)
  BY <1>16, ExecutingRow DEF Questions
<1> QED BY <1>2, <1>3, <1>14, <1>16, <1>17 DEF Written

LEMMA CompletedWrites ==
    ASSUME RowsOK, RowsAgree, RowsInv, NEW r \in RunId, NEW a \in AttemptId, NEW d \in DispatchId,
           NEW b \in NextId(attempt), NEW e \in NextId(dispatch), NEW tree \in Tree, NEW usage \in Usage,
           StageCompleted(r, a, d, b, e, tree, usage)
    PROVE  Active(r) /\ Written(r, a)
<1>1. /\ Executing(r, a, d) /\ attempt[a].stage \in Stage /\ attempt[a].number \in Nat
      /\ attempt[a].stage \in {"REVIEW", "QA"} => CurrentTree(r, tree)
      /\ attempt[a].stage = "REVIEW" => run[r].reports < MaxTotalReviewRounds
      /\ artifacts' = artifacts \cup Evidence(r, a, tree)
  BY DEF StageCompleted, RowsOK, AttemptRow
<1>2. PICK i \in AfterStage(attempt[a].stage), number \in Nat :
         /\ ContinueWith(r, a, d, b, e, QueuedAttempt(r, Template[i], number), tree, usage)
         /\ number = IF attempt[a].stage = "IMPLEMENT" /\ Template[i] = "REVIEW"
                     THEN attempt[a].number ELSE 1
  BY <1>1 DEF StageCompleted
<1> DEFINE s == Template[i]
           st == attempt[a].stage
<1>3. /\ s \in Stage
      /\ ToReview(s) => ToReview(st) /\ st # "REVIEW"
      /\ Early(s) => Early(st)
      /\ s = "IMPLEMENT" => Early(st)
      /\ s = "REVIEW" <=> st = "IMPLEMENT"
  BY <1>1, TemplateStages, StageOrder
<1>4. st = "QA" => ~ToReview(s)
  <2>1. st = "QA" => Implementations(r) # {}
    BY <1>1 DEF CurrentTree, ImplementedBy, Implementations
  <2>2. RunInv(r) /\ Active(r) /\ run[r].current = a
    BY <1>1, ExecutingRow DEF RowsInv
  <2>3. st = "QA" => ~Early(st)
    BY <2>1, <2>2 DEF RunInv, ImplementationsFit
  <2>4. st = "QA" => ~ToReview(st)
    BY <1>1, <2>3, StageOrder
  <2> QED BY <1>3, <2>4
<1>5. \A o \in RunId : \A k, t : Report(o, k, t) \in artifacts' =>
         \/ Report(o, k, t) \in artifacts
         \/ o = r /\ k = "REVIEW_REPORT"
         \/ o = r /\ st = "QA" /\ CurrentTree(r, t)
  <2>1. ASSUME NEW o \in RunId, NEW k, NEW t, Report(o, k, t) \in Evidence(r, a, tree)
        PROVE  \/ o = r /\ k = "REVIEW_REPORT"
               \/ o = r /\ st = "QA" /\ CurrentTree(r, t)
    <3>1. CASE st = "REVIEW"
      BY <2>1, <3>1 DEF Evidence, Report
    <3>2. CASE st = "QA"
      <4>1. Report(o, k, t) = [run |-> r, kind |-> "QA_REPORT", tree |-> tree]
        BY <2>1, <3>2 DEF Evidence
      <4>2. o = r /\ t = tree
        BY <4>1 DEF Report
      <4> QED BY <1>1, <3>2, <4>2
    <3>3. CASE st \notin {"REVIEW", "QA"}
      BY <2>1, <3>3 DEF Evidence
    <3> QED BY <3>1, <3>2, <3>3
  <2> QED BY <1>1, <2>1
<1>6. /\ st = "IMPLEMENT" => s = "REVIEW" /\ number = attempt[a].number
      /\ s \in {"IMPLEMENT", "REVIEW"} => Early(st) \/ (st \in {"IMPLEMENT", "REVIEW"} /\ number >= attempt[a].number)
      /\ st = "REVIEW" => run[r].reports < MaxTotalReviewRounds
                         /\ (ToReview(s) => run[r].reports + 1 < MaxTotalReviewRounds)
  BY <1>1, <1>2, <1>3
<1>7. \A o \in RunId : \A k, t : Report(o, k, t) \in artifacts' =>
         \/ Report(o, k, t) \in artifacts
         \/ o = r /\ k = "REVIEW_REPORT"
         \/ o = r /\ st = "QA" /\ CurrentTree(r, t) /\ ~ToReview(s)
  BY <1>4, <1>5
<1>8. artifacts \subseteq artifacts'
  BY <1>1
<1>9. ContinueWith(r, a, d, b, e, QueuedAttempt(r, s, number), tree, usage)
  BY <1>2
<1> HIDE DEF s, st
<1> QED BY <1>1, <1>3, <1>6, <1>7, <1>8, <1>9, ContinueWrites DEF st

LEMMA FixWrites ==
    ASSUME RowsOK, RowsAgree, RowsInv, NEW r \in RunId, NEW a \in AttemptId, NEW d \in DispatchId,
           NEW b \in NextId(attempt), NEW e \in NextId(dispatch), NEW tree \in Tree, NEW usage \in Usage,
           ReviewQueuesFix(r, a, d, b, e, tree, usage)
    PROVE  Active(r) /\ Written(r, a)
<1>1. /\ Executing(r, a, d) /\ attempt[a].stage = "REVIEW" /\ attempt[a].number \in Nat
      /\ run[r].reports + 1 < MaxTotalReviewRounds /\ run[r].reports < MaxTotalReviewRounds
      /\ artifacts' = artifacts
  BY DEF ReviewQueuesFix, RowsOK, AttemptRow, RunRow, MaxAutomaticReviewRounds, MaxTotalReviewRounds
<1> DEFINE n == NextNumber(a)
<1>2. n \in Nat /\ n >= attempt[a].number
  BY <1>1 DEF NextNumber
<1>3. ContinueWith(r, a, d, b, e, QueuedAttempt(r, "IMPLEMENT", n), tree, usage)
  BY DEF ReviewQueuesFix
<1> HIDE DEF n
<1>4. "IMPLEMENT" \in Stage /\ ToReview("REVIEW") /\ ~Early("IMPLEMENT")
  BY StageOrder DEF Stage
<1> QED BY <1>1, <1>2, <1>3, <1>4, ContinueWrites

\* The current attempt is queued again, with a new dispatch.
LEMMA RequeueWrites ==
    ASSUME RowsOK, RowsAgree, RowsInv, NEW r \in RunId, NEW a \in AttemptId, NEW d \in NextId(dispatch),
           IsCurrent(r, a), Active(r), attempt[a].code # "REVIEW_LOOP_EXHAUSTED", Requeue(r, a, d),
           artifacts' = artifacts
    PROVE  Stay(r, a)
<1>1. RowWritten(a) /\ attempt'[a].code = "NONE" /\ attempt'[a].status = "QUEUED"
  BY DEF Requeue, RowsOK, AttemptRow, RowWritten
<1>2. /\ RunWritten(r) /\ run'[r].status = "RUNNING" /\ run'[r].reports = run[r].reports
      /\ run'[r].package = run[r].package /\ run'[r].packageTree = run[r].packageTree
  BY DEF Requeue, RowsOK, RunRow, RunWritten
<1> QED BY <1>1, <1>2, StayRows DEF Stay, StayRounds, StayPackage

\* Pause and cancel stop the current attempt.
LEMMA StopsWrites ==
    ASSUME RowsOK, RowsAgree, RowsInv, NEW r \in RunId, NEW a \in AttemptId,
           NEW s \in {"SOFT_PAUSED", "CANCELLED"}, NEW inFlight \in BOOLEAN,
           IsCurrent(r, a), Active(r), Stops(a, s, inFlight), run' = [run EXCEPT ![r].status = s],
           s = "SOFT_PAUSED" => attempt[a].code # "REVIEW_LOOP_EXHAUSTED", artifacts' = artifacts
    PROVE  Stay(r, a)
<1>1. RowWritten(a) /\ attempt'[a].code = attempt[a].code /\ attempt'[a].status = s
  BY DEF Stops, RowsOK, AttemptRow, RowWritten
<1>2. /\ RunWritten(r) /\ run'[r].status = s /\ run'[r].reports = run[r].reports
      /\ run'[r].package = run[r].package /\ run'[r].packageTree = run[r].packageTree
  BY DEF RowsOK, RunRow, RunWritten
<1>3. StayRounds(r, a)
  BY <1>1, <1>2 DEF StayRounds, Active, ActiveRunStatus
<1> QED BY <1>1, <1>2, <1>3, StayRows DEF Stay, StayPackage

LEMMA OverrideWrites ==
    ASSUME RowsOK, RowsAgree, RowsInv, NEW r \in RunId, NEW a \in AttemptId, NEW b \in AttemptId,
           NEW d \in NextId(dispatch), NEW preserved \in BOOLEAN,
           ApproveBudgetOverride(r, a, b, d, preserved)
    PROVE  Active(r) /\ Written(r, a)
<1>1. /\ IsCurrent(r, a) /\ Active(r) /\ run[r].status = "HARD_PAUSED" /\ attempt[a].status = "HARD_PAUSED"
      /\ attempt[a].code # "SESSION"
  BY DEF ApproveBudgetOverride, Active, ActiveRunStatus
<1>2. /\ run[r].current = a /\ attempt[a].run = r /\ attempt[a].code # "REVIEW_LOOP_EXHAUSTED"
      /\ run[r].reports \in Nat /\ run[r].reports <= MaxTotalReviewRounds
      /\ ToReview(attempt[a].stage) => run[r].reports < MaxTotalReviewRounds
  BY <1>1, CurrentRow
<1>3. d \in DispatchId /\ dispatch[d].status = "NONE"
  BY NextIdIsAbsent
<1>5. Questions(r)
  <2>1. ~Waits(r)
    BY <1>1, <1>2 DEF Waits
  <2>2. request' = request /\ \A q \in RequestId : request[q].status # "OPEN"
    BY <1>1, <2>1, NoQuestionOpen DEF RowsInv, ApproveBudgetOverride
  <2> QED BY <2>2 DEF Questions
<1>7. /\ \A o \in RunId \ {r} : run'[o] = run[o]
      /\ run'[r].current = b /\ run'[r].status = "RUNNING" /\ run'[r].exhausted = FALSE
      /\ run'[r].reports = run[r].reports
      /\ run'[r].package = run[r].package /\ run'[r].packageTree = run[r].packageTree
  BY DEF ApproveBudgetOverride, RowsOK, RunRow
<1>8. CASE ~attempt[a].started \/ preserved
  <2>1. b = a /\ attempt' = [attempt EXCEPT ![a] = [attempt[a] EXCEPT !.status = "QUEUED", !.code = "NONE"]]
    BY <1>8 DEF ApproveBudgetOverride
  <2>2. RowWritten(a) /\ attempt'[a].code = "NONE" /\ attempt'[a].status = "QUEUED"
    BY <2>1 DEF RowsOK, AttemptRow, RowWritten
  <2>3. RunWritten(r)
    BY <1>2, <1>7, <2>1 DEF RunWritten
  <2>4. Stay(r, a)
    BY <1>1, <1>2, <1>7, <2>2, <2>3, StayRows DEF Stay, StayRounds, StayPackage, ApproveBudgetOverride
  <2> QED BY <1>1, <1>5, <2>4 DEF Written
<1>9. CASE ~(~attempt[a].started \/ preserved)
  <2>1. b \in NextId(attempt)
        /\ attempt' = [attempt EXCEPT ![b] = QueuedAttempt(r, attempt[a].stage, NextNumber(a))]
    BY <1>9 DEF ApproveBudgetOverride
  <2>2. attempt[b].status = "NONE" /\ a # b
    BY <1>1, <2>1, NextIdIsAbsent
  <2>3. \A c \in AttemptId \ {b} : attempt'[c] = attempt[c]
    BY <2>1 DEF RowsOK
  <2>4. /\ attempt'[b].run = r /\ attempt'[b].stage = attempt[a].stage
        /\ attempt'[b].number = attempt[a].number + 1
        /\ attempt'[b].status = "QUEUED" /\ attempt'[b].code = "NONE"
    <3>1. attempt'[b] = QueuedAttempt(r, attempt[a].stage, NextNumber(a))
      BY <2>1 DEF RowsOK
    <3> QED BY <3>1 DEF QueuedAttempt, NoAttempt, NextNumber
  <2>5. attempt[a].number + 1 >= attempt[a].number
    BY DEF RowsOK, AttemptRow
  <2>6. attempt[a].stage \in Stage
    BY DEF RowsOK, AttemptRow
  <2>7. GoRow(r, a, b)
    BY <1>1, <2>2, <2>3, <2>4, <2>5 DEF GoRow
  <2>8. GoRounds(r, b)
    BY <1>2, <1>7, <2>4 DEF GoRounds
  <2>9. GoReports(r, a, b)
    BY <1>7 DEF GoReports, ApproveBudgetOverride
  <2>10. OnlyRunWritten(r)
    BY <1>1, <1>7 DEF OnlyRunWritten, RowsAgree, OneActiveRun
  <2>11. Go(r, a, b)
    BY <1>1, <1>7, <2>1, <2>2, <2>3, <2>7, <2>8, <2>9, <2>10 DEF Go, SameRow
  <2> QED BY <1>1, <1>5, <2>11 DEF Written
<1> QED BY <1>8, <1>9

LEMMA FinalFixWrites ==
    ASSUME RowsOK, RowsAgree, RowsInv, NEW r \in RunId, NEW a \in AttemptId, NEW q \in RequestId,
           NEW b \in NextId(attempt), NEW d \in NextId(dispatch), AuthorizeFinalFixRound(r, a, q, b, d)
    PROVE  Active(r) /\ Written(r, a)
<1>1. /\ IsCurrent(r, a) /\ Active(r) /\ request[q].status = "OPEN"
      /\ attempt[a].stage = "REVIEW" /\ attempt[a].code = "REVIEW_LOOP_EXHAUSTED"
      /\ attempt[a].round < MaxTotalReviewRounds
  BY DEF AuthorizeFinalFixRound, Answerable, ReviewLoopExhausted, FinalRoundLeft, Active, ActiveRunStatus
<1>2. /\ run[r].current = a /\ attempt[a].run = r /\ attempt[a].status = "WAITING_HUMAN"
      /\ run[r].reports < MaxTotalReviewRounds
  BY <1>1, CurrentRow
<1>3. /\ d \in DispatchId /\ dispatch[d].status = "NONE"
      /\ b \in AttemptId /\ attempt[b].status = "NONE" /\ a # b
  BY <1>2, NextIdIsAbsent
<1>5. Questions(r)
  <2>1. request' = Resolved(q)
    BY DEF AuthorizeFinalFixRound
  <2>2. Questions(r)
    BY <1>1, <2>1, QuestionsAre DEF RowsInv
  <2> QED BY <2>2
<1>7. /\ \A o \in RunId \ {r} : run'[o] = run[o]
      /\ run'[r].current = b /\ run'[r].status = "RUNNING" /\ run'[r].reports = run[r].reports
      /\ run'[r].package = run[r].package /\ run'[r].packageTree = run[r].packageTree
  BY DEF AuthorizeFinalFixRound, RowsOK, RunRow
<1>8. /\ \A c \in AttemptId \ {a, b} : attempt'[c] = attempt[c]
      /\ attempt'[a] = [attempt[a] EXCEPT !.status = "SUCCEEDED", !.code = "NONE"]
      /\ attempt'[b] = QueuedAttempt(r, "IMPLEMENT", NextNumber(a))
  BY <1>3 DEF AuthorizeFinalFixRound, RowsOK
<1>9. /\ attempt'[a].run = attempt[a].run /\ attempt'[a].stage = attempt[a].stage
      /\ attempt'[a].number = attempt[a].number /\ attempt'[a].status = "SUCCEEDED"
  BY <1>8 DEF RowsOK, AttemptRow
<1>10. /\ attempt'[b].run = r /\ attempt'[b].stage = "IMPLEMENT" /\ attempt'[b].number = attempt[a].number + 1
       /\ attempt'[b].status = "QUEUED" /\ attempt'[b].code = "NONE"
  BY <1>8 DEF QueuedAttempt, NoAttempt, NextNumber
<1>11. attempt[a].number + 1 >= attempt[a].number
  BY DEF RowsOK, AttemptRow
<1>12. GoRow(r, a, b)
  BY <1>1, <1>9, <1>10, <1>11, StageOrder DEF GoRow
<1>13. GoRounds(r, b)
  BY <1>2, <1>7 DEF GoRounds, RowsOK, RunRow, MaxTotalReviewRounds
<1>14. GoReports(r, a, b)
  BY <1>7 DEF GoReports, AuthorizeFinalFixRound
<1>15. OnlyRunWritten(r)
  BY <1>1, <1>7 DEF OnlyRunWritten, RowsAgree, OneActiveRun
<1>16. Go(r, a, b)
  BY <1>7, <1>8, <1>9, <1>12, <1>13, <1>14, <1>15 DEF Go, SameRow
<1> QED BY <1>1, <1>3, <1>5, <1>16 DEF Written

\* The commands that answer a question and leave the run on its attempt, or end it.
LEMMA AnswersWrite ==
    ASSUME RowsOK, RowsAgree, RowsInv, NEW r \in RunId, NEW a \in AttemptId, NEW q \in RequestId,
           \/ \E d \in NextId(dispatch) : AnswerHumanRequest(r, a, q, d)
           \/ CancelReviewLoop(r, a, q)
           \/ \E action \in {"ACCEPTED", "RETURNED", "REJECTED"} : ResolveAcceptance(r, a, q, action)
    PROVE  Active(r) /\ Written(r, a)
<1>1. request[q].status = "OPEN" /\ request' = Resolved(q) /\ IsCurrent(r, a) /\ Active(r)
  BY DEF AnswerHumanRequest, CancelReviewLoop, ResolveAcceptance, Answerable, Active, ActiveRunStatus
<1>2. Questions(r)
  BY <1>1, QuestionsAre DEF RowsInv
<1>4. ASSUME NEW d \in NextId(dispatch), AnswerHumanRequest(r, a, q, d)
      PROVE  Written(r, a)
  <2>1. attempt[a].code # "REVIEW_LOOP_EXHAUSTED"
    BY <1>1, <1>4, CurrentRow DEF AnswerHumanRequest, ReviewLoopExhausted
  <2>2. Requeue(r, a, d) /\ artifacts' = artifacts
    BY <1>4 DEF AnswerHumanRequest
  <2>3. Stay(r, a)
    BY <1>1, <2>1, <2>2, RequeueWrites
  <2> QED BY <1>2, <2>3 DEF Written
<1>5. CASE CancelReviewLoop(r, a, q)
  <2>1. RowWritten(a) /\ attempt'[a].status = "CANCELLED"
    BY <1>5 DEF CancelReviewLoop, RowsOK, AttemptRow, RowWritten
  <2>2. /\ RunWritten(r) /\ run'[r].status = "CANCELLED" /\ run'[r].reports = run[r].reports
        /\ run'[r].package = run[r].package /\ run'[r].packageTree = run[r].packageTree
    BY <1>5 DEF CancelReviewLoop, RowsOK, RunRow, RunWritten
  <2>3. StayRounds(r, a)
    BY <2>2 DEF StayRounds, Active, ActiveRunStatus
  <2>4. Stay(r, a)
    BY <1>1, <1>5, <2>1, <2>2, <2>3, StayRows DEF Stay, StayPackage, CancelReviewLoop
  <2> QED BY <1>1, <1>2, <2>4 DEF Written
<1>6. ASSUME NEW action \in {"ACCEPTED", "RETURNED", "REJECTED"}, ResolveAcceptance(r, a, q, action)
      PROVE  Written(r, a)
  <2>1. attempt[a].stage = "ACCEPTANCE" /\ run[r].package = "PENDING" /\ artifacts' = artifacts /\ dispatch' = dispatch
    BY <1>6 DEF ResolveAcceptance
  <2>2. PICK s \in {"SUCCEEDED", "FAILED"}, code \in {"NONE", "ACCEPTANCE"} :
           /\ attempt' = [attempt EXCEPT ![a] = [attempt[a] EXCEPT !.status = s, !.code = code]]
           /\ run' = [run EXCEPT ![r] = [run[r] EXCEPT !.status = s, !.package = action]]
    BY <1>6 DEF ResolveAcceptance
  <2>3. RowWritten(a) /\ attempt'[a].status = s
    <3>1. attempt'[a] = [attempt[a] EXCEPT !.status = s, !.code = code]
          /\ \A c \in AttemptId \ {a} : attempt'[c] = attempt[c]
      BY <2>2 DEF RowsOK
    <3>2. attempt[a] \in AttemptRow
      BY DEF RowsOK
    <3> QED BY <3>1, <3>2 DEF AttemptRow, RowWritten
  <2>4. /\ RunWritten(r) /\ run'[r].status = s /\ run'[r].reports = run[r].reports
        /\ run'[r].package = action /\ run'[r].packageTree = run[r].packageTree
    BY <2>2 DEF RowsOK, RunRow, RunWritten
  <2>5. StayRounds(r, a)
    BY <2>4 DEF StayRounds, Active, ActiveRunStatus
  <2>6. StayPackage(r)
    BY <2>1, <2>4 DEF StayPackage
  <2>7. Stay(r, a)
    BY <1>1, <2>1, <2>3, <2>4, <2>5, <2>6, StayRows DEF Stay
  <2> QED BY <1>2, <2>1, <2>2, <2>4, <2>7 DEF Written
<1> QED BY <1>1, <1>4, <1>5, <1>6

\* A restart that finds a stage running interrupts its run and nothing else.
LEMMA OrphanWrites ==
    ASSUME RowsOK, RowsAgree, RowsInv, ReconcileWorkflows, NEW r \in RunId, NEW a \in AttemptId, Orphaned(r, a)
    PROVE  Active(r) /\ Written(r, a)
<1> DEFINE orphans == {c \in AttemptId : \E o \in RunId : Orphaned(o, c)}
<1>1. IsCurrent(r, a) /\ Active(r) /\ run[r].status = "RUNNING" /\ attempt[a].status = "RUNNING"
  BY DEF Orphaned, Active, ActiveRunStatus
<1>2. \A o \in RunId, b \in AttemptId : Orphaned(o, b) => o = r /\ b = a
  BY <1>1 DEF Orphaned, RowsAgree, OneActiveRun, IsCurrent, Active, ActiveRunStatus
<1>3. orphans = {a}
  BY <1>2
<1>4. attempt[a].code # "REVIEW_LOOP_EXHAUSTED" /\ run[r].current = a
  BY <1>1, CurrentRow
<1>5. /\ attempt'[a] = [attempt[a] EXCEPT !.status = "INTERRUPTED", !.code = "DAEMON_RESTART", !.agentRun = FALSE]
      /\ \A c \in AttemptId \ {a} : attempt'[c] = [attempt[c] EXCEPT !.agentRun = FALSE]
  BY <1>3 DEF ReconcileWorkflows
<1>6. /\ attempt'[a].run = attempt[a].run /\ attempt'[a].stage = attempt[a].stage
      /\ attempt'[a].number = attempt[a].number /\ attempt'[a].status = "INTERRUPTED"
      /\ attempt'[a].code = "DAEMON_RESTART"
  BY <1>5 DEF RowsOK, AttemptRow
<1>7. OnlyRunWritten(r) /\ run'[r] = [run[r] EXCEPT !.status = "INTERRUPTED"]
  BY <1>1, <1>2 DEF ReconcileWorkflows, OnlyRunWritten, RowsAgree, OneActiveRun
<1>8. /\ run'[r].current = a /\ run'[r].status = "INTERRUPTED" /\ run'[r].reports = run[r].reports
      /\ run'[r].package = run[r].package /\ run'[r].packageTree = run[r].packageTree
  BY <1>4, <1>7 DEF RowsOK, RunRow
<1>9. StayAttempt(r, a)
  BY <1>5, <1>6, <1>8 DEF StayAttempt, SameRow
<1>10. Stay(r, a)
  BY <1>4, <1>6, <1>7, <1>8, <1>9 DEF Stay, StayRounds, StayPackage, ReconcileWorkflows
<1>11. Questions(r)
  <2>1. ~Waits(r)
    BY <1>1 DEF Waits
  <2>2. request' = request /\ \A q \in RequestId : request[q].status # "OPEN"
    BY <1>1, <2>1, NoQuestionOpen DEF RowsInv, ReconcileWorkflows
  <2> QED BY <2>2 DEF Questions
<1>13. workItem' = "BLOCKED" /\ request' = request
  BY <1>3 DEF ReconcileWorkflows
<1> QED BY <1>1, <1>10, <1>11, <1>13 DEF Written

\* Every command on the active run writes it in one of the two ways, or ends a session.
LEMMA CommandsWrite ==
    ASSUME RowsOK, RowsAgree, RowsInv, NEW r \in RunId, NEW a \in AttemptId, IsCurrent(r, a),
           DaemonCommand(r, a) \/ OwnerCommand(r, a)
    PROVE  EndProviderSession(a) \/ (Active(r) /\ Written(r, a))
<1>1. ASSUME NEW d \in DispatchId,
             \/ StartAgentRun(r, a, d)
             \/ ParkQueuedStageAttemptForBudget(r, a, d)
             \/ \E usage \in Usage, stopped \in BOOLEAN : RecordProviderUsage(r, a, d, usage, stopped)
      PROVE  Active(r) /\ Written(r, a)
  BY <1>1, StartWrites, ParkWrites, UsageWrites
<1>2. ASSUME NEW d \in DispatchId, ProviderOutcome(r, a, d)
      PROVE  Active(r) /\ Written(r, a)
  <2>1. CASE BudgetOutcome(r, a, d)
    BY <2>1, BudgetOutcomeWrites
  <2>2. ASSUME NEW q \in NextId(request),
               \/ SessionHardPause(r, a, d, q)
               \/ \E code \in {"NONE", "PROVIDER"}, usage \in Usage : NeedsHuman(r, a, d, q, code, usage)
               \/ \E tree \in Tree, usage \in Usage :
                     ReviewWaitsForOwner(r, a, d, q, tree, usage) \/ ReadyForAcceptance(r, a, d, q, tree, usage)
        PROVE  Active(r) /\ Written(r, a)
    BY <2>2, OutcomesAsk
  <2>3. ASSUME NEW b \in NextId(attempt), NEW e \in NextId(dispatch), NEW tree \in Tree, NEW usage \in Usage,
               StageCompleted(r, a, d, b, e, tree, usage) \/ ReviewQueuesFix(r, a, d, b, e, tree, usage)
        PROVE  Active(r) /\ Written(r, a)
    BY <2>3, CompletedWrites, FixWrites
  <2> QED BY <1>2, <2>1, <2>2, <2>3 DEF ProviderOutcome
<1>3. ASSUME NEW inFlight \in BOOLEAN, PausePipeline(r, a, inFlight) \/ CancelPipeline(r, a, inFlight)
      PROVE  Active(r) /\ Written(r, a)
  <2>1. CASE PausePipeline(r, a, inFlight)
    <3>1. run[r].status = "RUNNING" /\ Active(r) /\ request' = request /\ artifacts' = artifacts
      BY <2>1 DEF PausePipeline, Active, ActiveRunStatus
    <3>2. attempt[a].code # "REVIEW_LOOP_EXHAUSTED"
      BY <3>1, CurrentRow
    <3>3. Stay(r, a)
      BY <2>1, <3>1, <3>2, StopsWrites DEF PausePipeline
    <3>4. ~Waits(r)
      BY <3>1 DEF Waits
    <3>5. Questions(r)
      BY <3>1, <3>4, NoQuestionOpen DEF RowsInv, Questions
    <3> QED BY <3>1, <3>3, <3>5 DEF Written
  <2>2. CASE CancelPipeline(r, a, inFlight)
    <3>1. Active(r) /\ request' = WithdrawRequests /\ artifacts' = artifacts
      BY <2>2 DEF CancelPipeline
    <3>2. Stay(r, a)
      BY <2>2, <3>1, StopsWrites DEF CancelPipeline
    <3>3. Questions(r)
      BY <3>1 DEF WithdrawRequests, Questions, RowsOK, RequestRow
    <3> QED BY <3>1, <3>2, <3>3 DEF Written
  <2> QED BY <1>3, <2>1, <2>2
<1>4. ASSUME NEW d \in NextId(dispatch), ResumePipeline(r, a, d)
      PROVE  Active(r) /\ Written(r, a)
  <2>1. run[r].status \in {"SOFT_PAUSED", "INTERRUPTED"} /\ Active(r) /\ request' = request /\ artifacts' = artifacts
    BY <1>4 DEF ResumePipeline, Active, ActiveRunStatus
  <2>2. attempt[a].code # "REVIEW_LOOP_EXHAUSTED"
    BY <1>4, <2>1, CurrentRow DEF ResumePipeline
  <2>3. Stay(r, a)
    BY <1>4, <2>1, <2>2, RequeueWrites DEF ResumePipeline
  <2>4. ~Waits(r)
    BY <2>1 DEF Waits
  <2>5. Questions(r)
    BY <2>1, <2>4, NoQuestionOpen DEF RowsInv, Questions
  <2> QED BY <2>1, <2>3, <2>5 DEF Written
<1>5. ASSUME NEW d \in NextId(dispatch), NEW b \in {a} \cup NextId(attempt), NEW preserved \in BOOLEAN,
             ApproveBudgetOverride(r, a, b, d, preserved)
      PROVE  Active(r) /\ Written(r, a)
  <2>1. b \in AttemptId
    BY NextIdIsAbsent
  <2> QED BY <1>5, <2>1, OverrideWrites
<1>6. ASSUME NEW q \in RequestId,
             \/ \E d \in NextId(dispatch) :
                   \/ AnswerHumanRequest(r, a, q, d)
                   \/ \E b \in NextId(attempt) : AuthorizeFinalFixRound(r, a, q, b, d)
             \/ CancelReviewLoop(r, a, q)
             \/ \E action \in {"ACCEPTED", "RETURNED", "REJECTED"} : ResolveAcceptance(r, a, q, action)
      PROVE  Active(r) /\ Written(r, a)
  BY <1>6, AnswersWrite, FinalFixWrites
<1>7. CASE DaemonCommand(r, a)
  BY <1>1, <1>2, <1>7 DEF DaemonCommand, DispatchesOf
<1>8. CASE OwnerCommand(r, a)
  BY <1>3, <1>4, <1>5, <1>6, <1>8 DEF OwnerCommand
<1> QED BY <1>7, <1>8

\* A new run starts with nothing recorded.
LEMMA StartKeeps ==
    ASSUME RowsOK, RowsOK', RowsAgree, RowsInv, NEW r \in NextId(run), NEW a \in NextId(attempt),
           NEW d \in NextId(dispatch), StartPipeline(r, a, d)
    PROVE  RowsInv'
<1>1. /\ r \in RunId /\ run[r].status = "NONE" /\ a \in AttemptId /\ attempt[a].status = "NONE"
      /\ d \in DispatchId /\ dispatch[d].status = "NONE"
  BY NextIdIsAbsent
<1>2. /\ AttemptsDense /\ QuestionsFit /\ \A o \in RunId : RunInv(o)
      /\ \A o \in RunId : ~Active(o)
  BY DEF RowsInv, StartPipeline, NoActiveRun
<1>3. run[r] = NoRun /\ attempt[a] = NoAttempt /\ \A c \in AttemptId : attempt[c].run # r
  <2>1. CurrentFits(r)
    BY <1>1, <1>2 DEF RunInv
  <2>2. run[r] = NoRun /\ \A c \in AttemptId : attempt[c].run = r => c <= run[r].current
    BY <1>1, <2>1 DEF CurrentFits
  <2>3. run[r].current = 0
    BY <2>2 DEF NoRun
  <2>4. attempt[a] = NoAttempt
    BY <1>1, <1>2 DEF AttemptsDense
  <2> QED BY <2>2, <2>3, <2>4, BoundAssumption DEF AttemptId
<1>4. /\ run'[r] = [NoRun EXCEPT !.status = "RUNNING", !.current = a]
      /\ \A o \in RunId \ {r} : run'[o] = run[o]
  BY <1>1, <1>3 DEF StartPipeline, RowsOK
<1>5. /\ run'[r].status = "RUNNING" /\ run'[r].current = a /\ run'[r].exhausted = FALSE
      /\ run'[r].reports = 0 /\ run'[r].package = "NONE"
  BY <1>4 DEF NoRun
<1>6. \A c \in AttemptId \ {a} : attempt'[c] = attempt[c]
  BY DEF StartPipeline, RowsOK
<1>7. attempt'[a].run = r /\ attempt'[a].status = "QUEUED" /\ attempt'[a].code = "NONE"
  BY <1>1 DEF StartPipeline, QueuedAttempt, NoAttempt, RowsOK
<1>8. AttemptsDense'
  BY <1>2, <1>6, <1>7, DenseKept DEF SameRow
<1>9. ASSUME NEW o \in RunId, o # r
      PROVE  RunInv(o)'
  <2>1. \A c \in AttemptId : attempt[c].run = o \/ attempt'[c].run = o => KeepsRow(c)
    <3>1. attempt[a].run # o
      BY <1>3, BoundAssumption DEF NoAttempt, RunId
    <3> QED BY <1>6, <1>7, <1>9, <3>1 DEF KeepsRow
  <2>2. artifacts' = artifacts
    BY DEF StartPipeline
  <2> QED BY <1>2, <1>4, <1>9, <2>1, <2>2, OtherRunKeeps
<1>10. Implementations(r)' = {} /\ Implementations(r) = {}
  <2>1. \A c \in AttemptId : c \notin Implementations(r)' /\ c \notin Implementations(r)
    BY <1>3, <1>6, <1>7 DEF Implementations
  <2> QED BY <2>1 DEF Implementations
<1>11. RunInv(r)'
  <2>1. CurrentFits(r)'
    <3>1. \A c \in AttemptId : attempt'[c].run = r => c = a
      BY <1>3, <1>6
    <3>2. a <= a
      BY <1>1, BoundAssumption DEF AttemptId
    <3> QED BY <1>1, <1>5, <1>7, <3>1, <3>2 DEF CurrentFits, IsCurrent
  <2>2. BudgetFits(r)'
    BY <1>5 DEF BudgetFits
  <2>3. RoundsFit(r)'
    BY <1>5, <1>7 DEF RoundsFit, MaxTotalReviewRounds
  <2>4. ImplementationsFit(r)'
    BY <1>10 DEF ImplementationsFit
  <2>5. ReportsFit(r)'
    <3>1. \A t \in Tree : Report(r, "QA_REPORT", t) \notin artifacts
      <4>1. \A t \in Tree : ~CurrentTree(r, t)
        BY <1>10 DEF CurrentTree, ImplementedBy, Implementations
      <4> QED BY <1>1, <1>2, <4>1 DEF RunInv, ReportsFit
    <3>2. artifacts' = artifacts
      BY DEF StartPipeline
    <3>3. \A t \in Tree : Report(r, "QA_REPORT", t)' = Report(r, "QA_REPORT", t)
      BY DEF Report
    <3> QED BY <1>5, <3>1, <3>2, <3>3 DEF ReportsFit
  <2> QED BY <2>1, <2>2, <2>3, <2>4, <2>5 DEF RunInv
<1>12. QuestionsFit'
  <2>1. \A q \in RequestId : request[q].status # "OPEN"
    BY <1>2 DEF QuestionsFit, Waits, Active, ActiveRunStatus
  <2> QED BY <2>1 DEF QuestionsFit, StartPipeline
<1> QED
  BY <1>8, <1>9, <1>11, <1>12 DEF RowsInv

\* Every step keeps the invariant of the rows, but one that overrules a run.
LEMMA StepKeeps ==
    ASSUME RowsOK, RowsOK', RowsAgree, RowsInv, [Next]_vars, overruled' = {}
    PROVE  RowsInv'
<1>1. ASSUME NEW target \in WorkItemState, MoveWorkItem(target)
      PROVE  RowsInv'
  <2>1. UNCHANGED <<run, dispatch, request, artifacts>> /\ \A c \in AttemptId : SameRow(c)
    BY <1>1 DEF MoveWorkItem, SameRow
  <2> QED BY <2>1, IdleKeeps
<1>2. ASSUME NEW r \in RunId, NEW a \in AttemptId, IsCurrent(r, a), Active(r), Written(r, a)
      PROVE  RowsInv'
  BY <1>2, WrittenKeeps
<1>3. ASSUME NEW a \in AttemptId, EndProviderSession(a)
      PROVE  RowsInv'
  <2>1. UNCHANGED <<workItem, run, dispatch, request, artifacts>> /\ \A c \in AttemptId : SameRow(c)
    BY <1>3 DEF EndProviderSession, SameRow, RowsOK
  <2> QED BY <2>1, IdleKeeps
<1>4. CASE ReconcileWorkflows
  <2>1. CASE \E r \in RunId, a \in AttemptId : Orphaned(r, a)
    <3>1. PICK r \in RunId, a \in AttemptId : Orphaned(r, a)
      BY <2>1
    <3>2. IsCurrent(r, a)
      BY <3>1 DEF Orphaned
    <3> QED BY <1>2, <1>4, <3>1, <3>2, OrphanWrites
  <2>2. CASE \A r \in RunId, a \in AttemptId : ~Orphaned(r, a)
    <3>1. {a \in AttemptId : \E r \in RunId : Orphaned(r, a)} = {}
      BY <2>2
    <3>2. run' = run /\ dispatch' = dispatch /\ workItem' = workItem /\ request' = request /\ artifacts' = artifacts
      BY <1>4, <3>1 DEF ReconcileWorkflows, RowsOK
    <3>3. \A c \in AttemptId : attempt'[c] = [attempt[c] EXCEPT !.agentRun = FALSE]
      BY <1>4, <3>1 DEF ReconcileWorkflows
    <3>4. \A c \in AttemptId : SameRow(c)
      BY <3>3 DEF SameRow
    <3> QED BY <3>2, <3>4, IdleKeeps
  <2> QED BY <2>1, <2>2
<1>5. CASE UNCHANGED vars
  <2>1. UNCHANGED <<workItem, run, dispatch, request, artifacts>> /\ \A c \in AttemptId : SameRow(c)
    BY <1>5 DEF vars, SameRow
  <2> QED BY <2>1, IdleKeeps
<1>6. ASSUME NEW r \in RunId, NEW a \in Current(r), DaemonCommand(r, a) \/ OwnerCommand(r, a)
      PROVE  RowsInv'
  <2>1. a \in AttemptId /\ IsCurrent(r, a)
    BY DEF Current
  <2> QED BY <1>2, <1>3, <1>6, <2>1, CommandsWrite
<1>7. ASSUME NEW r \in RunId, NEW a \in AttemptId, NEW d \in stale, NEW q \in NextId(request),
             StaleHardPause(r, a, d, q)
      PROVE  RowsInv'
  BY <1>2, <1>7, StandingIs, HardPauseWrites DEF StaleHardPause, Standing
<1> QED
  BY <1>1, <1>3, <1>4, <1>5, <1>6, <1>7, StartKeeps DEF Next, Command

----
(* The theorems *)

\* The strengthening the next five rest on: what the rows of every run keep beyond their types and
\* the lifecycle.
THEOREM RowsCorrect == Spec => [](overruled = {} => RowsInv)
<1>1. Init => RowsInv
  <2>1. ASSUME Init
        PROVE  RowsInv
    <3>1. /\ \A r \in RunId : run[r] = NoRun
          /\ \A c \in AttemptId : attempt[c] = NoAttempt /\ attempt[c].status = "NONE" /\ attempt[c].run = 0
          /\ \A q \in RequestId : request[q].status = "NONE"
          /\ artifacts = {} /\ workItem = "BACKLOG"
      BY <2>1 DEF Init, NoAttempt, NoRequest
    <3>2. 0 \notin RunId
      BY BoundAssumption DEF RunId
    <3>3. ASSUME NEW r \in RunId
          PROVE  RunInv(r)
      <4>1. /\ run[r].status = "NONE" /\ run[r].exhausted = FALSE /\ run[r].reports = 0 /\ run[r].package = "NONE"
            /\ ~Active(r)
        BY <3>1 DEF NoRun, Active, ActiveRunStatus
      <4>2. CurrentFits(r)
        BY <3>1, <3>2, <4>1 DEF CurrentFits
      <4>3. BudgetFits(r) /\ RoundsFit(r)
        BY <4>1 DEF BudgetFits, RoundsFit, MaxTotalReviewRounds
      <4>4. ImplementationsFit(r)
        BY <3>1, <4>1 DEF ImplementationsFit, Implementations
      <4>5. ReportsFit(r)
        BY <3>1, <4>1 DEF ReportsFit
      <4> QED BY <4>2, <4>3, <4>4, <4>5 DEF RunInv
    <3>4. AttemptsDense /\ QuestionsFit
      BY <3>1 DEF AttemptsDense, QuestionsFit
    <3> QED BY <3>3, <3>4 DEF RowsInv
  <2> QED BY <2>1
<1>2. TypeOK /\ TypeOK' /\ Lifecycle /\ (overruled = {} => RowsInv) /\ [Next]_vars => (overruled = {} => RowsInv)'
  BY StepKeeps, OverruledStays DEF TypeOK, Lifecycle
<1> QED
  BY <1>1, <1>2, TypeCorrect, LifecycleCorrect, PTL DEF Spec

\* An open question always belongs to the current attempt of an active run that waits for it.
THEOREM QuestionsAreCurrent == Spec => []OpenQuestionIsCurrent
<1>1. (overruled = {} => RowsInv) => OpenQuestionIsCurrent
  BY DEF RowsInv, QuestionsFit, OpenQuestionIsCurrent, Waits
<1> QED BY <1>1, RowsCorrect, PTL

----
(* What no stale loop breaks *)

Over(c) == attempt[c].status \in {"SUCCEEDED", "FAILED", "CANCELLED"}

\* A run has a current attempt of its own, which is over when the run is -- unless a stale loop
\* overruled it -- and does not execute on a spent budget; its rounds are bounded, and its package
\* rests on two reports.
KeptRun(r) ==
    /\ run[r].status = "NONE" => run[r] = NoRun
    /\ run[r].status # "NONE" => IsCurrent(r, run[r].current) /\ attempt[run[r].current].status # "NONE"
    /\ run[r].status # "NONE" /\ r \notin overruled => (Active(r) <=> ~Over(run[r].current))
    /\ BudgetFits(r)
    /\ run[r].reports <= MaxTotalReviewRounds
    /\ run[r].package \in {"PENDING", "ACCEPTED"} =>
          \A kind \in {"REVIEW_REPORT", "QA_REPORT"} : Report(r, kind, run[r].packageTree) \in artifacts

KeptAttempt(a) ==
    /\ attempt[a].status = "NONE" => attempt[a].run \notin RunId
    /\ \A r \in RunId : attempt[a].run = r => run[r].status # "NONE"

KeptInv == DoneIsAccepted /\ (\A r \in RunId : KeptRun(r)) /\ \A a \in AttemptId : KeptAttempt(a)

\* The step of HistoryIsKept.
History ==
    /\ \A a \in AttemptId :
         /\ attempt[a].run \notin overruled'
         /\ Over(a) \/ (attempt[a].status # "NONE" /\ \A r \in RunId : run[r].current # a)
         => SameRow(a)
    /\ \A r \in RunId \ overruled' : run[r].status # "NONE" /\ ~Active(r) => run'[r] = run[r]
    /\ RequestsKept /\ DispatchesKept

\* A step that writes run r and its attempts a and b, of which b is current from now on.  What was
\* over before is only written in a run that is overruled.
WritesRows(r, a, b) ==
    /\ \A o \in RunId \ {r} : run'[o] = run[o]
    /\ \A c \in AttemptId \ {a, b} : attempt'[c] = attempt[c]
    /\ run'[r].current = b
    /\ b = a \/ b = run[r].current \/ attempt[b].status = "NONE"
    /\ \A c \in {a, b} : attempt'[c].run = r /\ attempt'[c].status # "NONE"
    /\ \/ /\ attempt[a].run = r
          /\ r \notin overruled' => IsCurrent(r, a) /\ (Active(r) \/ ~Over(a))
       \/ attempt[a].status = "NONE" /\ run[r].status = "NONE"

WritesRun(r, b) ==
    /\ run'[r].status # "NONE"
    /\ r \notin overruled' => (Active(r)' <=> ~Over(b)')
    /\ run'[r].exhausted => attempt'[b].status # "RUNNING"
    /\ run'[r].reports <= MaxTotalReviewRounds
    /\ run'[r].package \in {"PENDING", "ACCEPTED"} =>
          \A kind \in {"REVIEW_REPORT", "QA_REPORT"} : Report(r, kind, run'[r].packageTree) \in artifacts'
    /\ run[r].package = "ACCEPTED" => run'[r].package = "ACCEPTED"
    /\ workItem' = "DONE" => workItem = "DONE" \/ run'[r].package = "ACCEPTED"

TablesGrow == artifacts \subseteq artifacts' /\ RequestsKept /\ DispatchesKept

Keeps(r) == \E a, b \in AttemptId : WritesRows(r, a, b) /\ WritesRun(r, b) /\ TablesGrow

LEMMA KeepsKept ==
    ASSUME RowsOK, RowsOK', KeptInv, NEW r \in RunId, Keeps(r), overruled \subseteq overruled',
           overruled' \subseteq overruled \cup {r}
    PROVE  KeptInv' /\ History
<1>1. PICK a \in AttemptId, b \in AttemptId : WritesRows(r, a, b) /\ WritesRun(r, b) /\ TablesGrow
  BY DEF Keeps
<1>2. IsCurrent(r, b)'
  BY <1>1 DEF WritesRows, IsCurrent
<1>3. KeptRun(r)'
  <2>1. run'[r].current = b /\ attempt'[b].status # "NONE"
    BY <1>1 DEF WritesRows
  <2> QED
    BY <1>1, <1>2, <2>1 DEF WritesRun, KeptRun, BudgetFits
<1>4. ASSUME NEW o \in RunId, o # r, run[o].status # "NONE"
      PROVE  run[o].current \in AttemptId /\ run[o].current # a /\ run[o].current # b
               /\ attempt'[run[o].current] = attempt[run[o].current]
  <2>1. /\ run[o].current \in AttemptId /\ attempt[run[o].current].run = o
        /\ attempt[run[o].current].status # "NONE"
    BY <1>4 DEF KeptInv, KeptRun, IsCurrent
  <2>2. run[o].current # a
    BY <1>1, <1>4, <2>1 DEF WritesRows
  <2>3. run[o].current # b
    <3>1. CASE b = run[r].current
      <4>1. run[r].status # "NONE"
        BY <2>1, <3>1 DEF KeptInv, KeptRun, NoRun, AttemptId
      <4> QED
        BY <1>4, <2>1, <3>1, <4>1 DEF KeptInv, KeptRun, IsCurrent
    <3> QED
      BY <1>1, <2>1, <2>2, <3>1 DEF WritesRows
  <2> QED
    BY <1>1, <2>1, <2>2, <2>3 DEF WritesRows
<1>5. ASSUME NEW o \in RunId, o # r
      PROVE  KeptRun(o)'
  <2>1. run'[o] = run[o] /\ KeptRun(o) /\ artifacts \subseteq artifacts' /\ (o \notin overruled' => o \notin overruled)
    BY <1>1, <1>5 DEF WritesRows, TablesGrow, KeptInv
  <2>2. CASE run[o].status = "NONE"
    <3>1. ~run[o].exhausted
      BY <2>1, <2>2 DEF KeptRun, NoRun
    <3> QED
      BY <2>1, <2>2, <3>1 DEF KeptRun, BudgetFits, Report
  <2>3. CASE run[o].status # "NONE"
    BY <1>4, <1>5, <2>1, <2>3 DEF KeptRun, BudgetFits, IsCurrent, Active, Over, Report
  <2> QED
    BY <2>2, <2>3
<1>6. \A c \in AttemptId : KeptAttempt(c)'
  BY <1>1 DEF KeptInv, KeptAttempt, WritesRows, WritesRun
<1>7. DoneIsAccepted'
  BY <1>1 DEF WritesRows, WritesRun, DoneIsAccepted, KeptInv
<1>8. KeptInv'
  BY <1>3, <1>5, <1>6, <1>7 DEF KeptInv
<1>9. ASSUME NEW c \in AttemptId, attempt[c].run \notin overruled',
             Over(c) \/ (attempt[c].status # "NONE" /\ \A o \in RunId : run[o].current # c)
      PROVE  SameRow(c)
  <2>1. attempt[c].status # "NONE"
    BY <1>9 DEF Over
  <2>2. CASE attempt[a].run = r /\ r \notin overruled'
    <3>1. run[r].current = a /\ ~Over(a)
      BY <1>1, <2>2 DEF WritesRows, IsCurrent, KeptInv, KeptRun, RowsOK, Over, Active, KeptAttempt
    <3> QED
      BY <1>1, <1>9, <2>1, <3>1 DEF WritesRows, SameRow
  <2>3. CASE attempt[a].run = r /\ r \in overruled'
    <3>1. run[r].status # "NONE"
      BY <2>3 DEF KeptInv, KeptAttempt
    <3>2. attempt[run[r].current].run = r
      BY <3>1 DEF KeptInv, KeptRun, IsCurrent
    <3> QED
      BY <1>1, <1>9, <2>1, <2>3, <3>2 DEF WritesRows, SameRow
  <2>4. CASE attempt[a].status = "NONE" /\ run[r].status = "NONE"
    <3>1. run[r].current \notin AttemptId
      BY <2>4, BoundAssumption DEF KeptInv, KeptRun, NoRun, AttemptId
    <3> QED
      BY <1>1, <1>9, <2>1, <2>4, <3>1 DEF WritesRows, SameRow
  <2> QED
    BY <1>1, <2>2, <2>3, <2>4 DEF WritesRows
<1>10. ASSUME NEW o \in RunId \ overruled', run[o].status # "NONE", ~Active(o)
       PROVE  run'[o] = run[o]
  BY <1>1, <1>10 DEF WritesRows, IsCurrent, KeptInv, KeptRun
<1> QED
  BY <1>1, <1>8, <1>9, <1>10 DEF History, TablesGrow

\* A command that writes the current attempt and its run, and leaves the rest of the run's books.
SameBooks(r) ==
    /\ run'[r].reports = run[r].reports /\ run'[r].package = run[r].package
    /\ run'[r].packageTree = run[r].packageTree
    /\ workItem' = "DONE" => workItem = "DONE"

Stays(r, a) ==
    /\ RowWritten(a) /\ RunWritten(r)
    /\ attempt'[a].status # "NONE" /\ run'[r].status # "NONE"
    /\ r \notin overruled => Active(r) \/ ~Over(a)
    /\ r \notin overruled' => (Active(r)' <=> ~Over(a)')
    /\ attempt'[a].status = "RUNNING" => ~run'[r].exhausted

LEMMA StaysKeep ==
    ASSUME RowsOK, KeptInv, NEW r \in RunId, NEW a \in AttemptId, IsCurrent(r, a), UNCHANGED overruled,
           Stays(r, a), TablesGrow, SameBooks(r) \/ WritesRun(r, a)
    PROVE  Keeps(r)
<1>1. WritesRows(r, a, a)
  BY DEF Stays, RowWritten, RunWritten, WritesRows, IsCurrent
<1>2. KeptRun(r)
  BY DEF KeptInv
<1>3. WritesRun(r, a)
  BY <1>2 DEF WritesRun, Stays, SameBooks, KeptRun, TablesGrow, Report
<1> QED
  BY <1>1, <1>3 DEF Keeps

\* What every current attempt and its run are.
LEMMA CurrentKept ==
    ASSUME RowsOK, KeptInv, NEW r \in RunId, NEW a \in AttemptId, IsCurrent(r, a)
    PROVE  /\ run[r].status # "NONE" /\ attempt[a].status # "NONE"
           /\ r \notin overruled => (Active(r) <=> ~Over(a))
BY DEF IsCurrent, KeptInv, KeptAttempt, KeptRun

LEMMA StartKept ==
    ASSUME RowsOK, KeptInv, NEW r \in RunId, NEW a \in AttemptId, NEW d \in DispatchId, UNCHANGED overruled,
           StartAgentRun(r, a, d)
    PROVE  Keeps(r)
<1>1. IsCurrent(r, a) /\ ~Over(a) /\ ~run[r].exhausted /\ run' = run /\ UNCHANGED <<workItem, dispatch, request, artifacts>>
  BY DEF StartAgentRun, Startable, BudgetLeft, Over
<1>2. RowWritten(a) /\ attempt'[a].status = "RUNNING"
  BY DEF StartAgentRun, RowWritten, RowsOK, AttemptRow
<1>3. Stays(r, a)
  BY <1>1, <1>2, CurrentKept DEF Stays, Over, Active, RunWritten
<1> QED
  BY <1>1, <1>3, StaysKeep DEF SameBooks, TablesGrow, DispatchesKept, RequestsKept

LEMMA ParkKept ==
    ASSUME RowsOK, KeptInv, NEW r \in RunId, NEW a \in AttemptId, NEW d \in DispatchId, UNCHANGED overruled,
           ParkQueuedStageAttemptForBudget(r, a, d)
    PROVE  Keeps(r)
<1>1. IsCurrent(r, a) /\ ~Over(a) /\ workItem' = "BLOCKED" /\ UNCHANGED <<request, artifacts>>
  BY DEF Startable, ParkQueuedStageAttemptForBudget, Over
<1>2. RowWritten(a) /\ attempt'[a].status = "HARD_PAUSED"
  BY DEF ParkQueuedStageAttemptForBudget, RowsOK, AttemptRow, RowWritten
<1>3. RunWritten(r) /\ SameBooks(r) /\ run'[r].status = "HARD_PAUSED"
  BY <1>1 DEF ParkQueuedStageAttemptForBudget, RunWritten, SameBooks, RowsOK, RunRow
<1>4. DispatchesKept
  BY DEF ParkQueuedStageAttemptForBudget, Startable, DispatchesKept, RowsOK
<1>5. Stays(r, a)
  BY <1>1, <1>2, <1>3 DEF Stays, Over, Active, ActiveRunStatus
<1> QED
  BY <1>1, <1>3, <1>4, <1>5, StaysKeep DEF TablesGrow, RequestsKept

LEMMA UsageKept ==
    ASSUME RowsOK, KeptInv, NEW r \in RunId, NEW a \in AttemptId, NEW d \in DispatchId, UNCHANGED overruled,
           NEW usage \in Usage, NEW stopped \in BOOLEAN, RecordProviderUsage(r, a, d, usage, stopped)
    PROVE  Keeps(r)
<1>1. IsCurrent(r, a) /\ ~Over(a) /\ workItem' = "BLOCKED" /\ UNCHANGED <<request, artifacts>>
  BY DEF RecordProviderUsage, Over
<1>2. RowWritten(a) /\ attempt'[a].status = "HARD_PAUSED"
  BY DEF RecordProviderUsage, RowsOK, AttemptRow, RowWritten
<1>3. RunWritten(r) /\ SameBooks(r) /\ run'[r].status = "HARD_PAUSED"
  BY <1>1 DEF RecordProviderUsage, RunWritten, SameBooks, RowsOK, RunRow
<1>4. DispatchesKept
  <2>1. dispatch[d].status \in {"PENDING", "FAILED"} /\ dispatch[d] \in DispatchRow
    BY DEF RecordProviderUsage, RowsOK
  <2>2. dispatch' = [dispatch EXCEPT ![d].status = IF @ = "FAILED" THEN "FAILED" ELSE "COMPLETED"]
    BY DEF RecordProviderUsage
  <2> QED
    BY <2>1, <2>2 DEF DispatchesKept, RowsOK, DispatchRow
<1>5. Stays(r, a)
  BY <1>1, <1>2, <1>3 DEF Stays, Over, Active, ActiveRunStatus
<1> QED
  BY <1>1, <1>3, <1>4, <1>5, StaysKeep DEF TablesGrow, RequestsKept

\* What an executing stage reports keeps the tables: the answered dispatch was pending, the new
\* question had no row.
LEMMA ReportTables ==
    ASSUME RowsOK, NEW r \in RunId, NEW a \in AttemptId, NEW d \in DispatchId, Executing(r, a, d),
           dispatch' = Answered(d), artifacts \subseteq artifacts',
           request' = request \/ \E q \in NextId(request) : request' = OpenRequest(q, a)
    PROVE  TablesGrow /\ IsCurrent(r, a) /\ ~Over(a)
BY NextIdIsAbsent DEF Executing, Over, TablesGrow, DispatchesKept, RequestsKept, Answered, OpenRequest, RowsOK

LEMMA ReportsKept ==
    ASSUME RowsOK, KeptInv, NEW r \in RunId, NEW a \in AttemptId, NEW d \in DispatchId, UNCHANGED overruled,
           Executing(r, a, d), TablesGrow, RowWritten(a), RunWritten(r), run'[r].status = attempt'[a].status,
           run'[r].status \in {"HARD_PAUSED", "WAITING_HUMAN"}, SameBooks(r) \/ WritesRun(r, a)
    PROVE  Keeps(r)
<1>1. IsCurrent(r, a) /\ Stays(r, a)
  BY DEF Stays, Over, Active, ActiveRunStatus, Executing
<1> QED
  BY <1>1, StaysKeep

LEMMA OutcomesKept ==
    ASSUME RowsOK, KeptInv, NEW r \in RunId, NEW a \in AttemptId, NEW d \in DispatchId, UNCHANGED overruled,
           \/ BudgetOutcome(r, a, d)
           \/ \E q \in NextId(request) :
                 \/ SessionHardPause(r, a, d, q)
                 \/ \E code \in {"NONE", "PROVIDER"}, usage \in Usage : NeedsHuman(r, a, d, q, code, usage)
                 \/ \E tree \in Tree, usage \in Usage :
                       ReviewWaitsForOwner(r, a, d, q, tree, usage) \/ ReadyForAcceptance(r, a, d, q, tree, usage)
    PROVE  Keeps(r)
<1>1. attempt[a].code \in FailureCode /\ {"NONE", "PROVIDER", "SESSION"} \subseteq FailureCode
        /\ {"WAITING_HUMAN", "HARD_PAUSED"} \subseteq AttemptStatus
  BY DEF RowsOK, AttemptRow, FailureCode, AttemptStatus
<1>2. CASE BudgetOutcome(r, a, d)
  <2>1. attempt' = Leaves(a, "HARD_PAUSED", attempt[a].code) /\ Executing(r, a, d) /\ TablesGrow
    BY <1>2, ReportTables DEF BudgetOutcome
  <2>2. RunWritten(r) /\ SameBooks(r) /\ run'[r].status = "HARD_PAUSED"
    BY <1>2 DEF BudgetOutcome, RunWritten, SameBooks, RowsOK, RunRow
  <2> QED
    BY <1>1, <2>1, <2>2, LeavesWrites, ReportsKept
<1>3. ASSUME NEW q \in NextId(request), SessionHardPause(r, a, d, q)
      PROVE  Keeps(r)
  <2>1. attempt' = Leaves(a, "HARD_PAUSED", "SESSION") /\ Executing(r, a, d) /\ TablesGrow
    BY <1>3, NextIdIsAbsent DEF SessionHardPause, StageAttemptHardPause, TablesGrow, DispatchesKept, RequestsKept,
       WithdrawDispatches, Pending, OpenRequest, RowsOK
  <2>2. RunWritten(r) /\ SameBooks(r) /\ run'[r].status = "HARD_PAUSED"
    BY <1>3 DEF SessionHardPause, StageAttemptHardPause, RunWritten, SameBooks, RowsOK, RunRow
  <2> QED
    BY <1>1, <2>1, <2>2, LeavesWrites, ReportsKept
<1>4. ASSUME NEW q \in NextId(request), NEW code \in {"NONE", "PROVIDER"}, NEW usage \in Usage,
             NeedsHuman(r, a, d, q, code, usage)
      PROVE  Keeps(r)
  <2>1. attempt' = Leaves(a, "WAITING_HUMAN", code) /\ Executing(r, a, d) /\ TablesGrow
    BY <1>4, ReportTables DEF NeedsHuman
  <2>2. RunWritten(r) /\ SameBooks(r) /\ run'[r].status = "WAITING_HUMAN"
    BY <1>4 DEF NeedsHuman, RunWritten, SameBooks, RowsOK, RunRow
  <2> QED
    BY <1>1, <2>1, <2>2, LeavesWrites, ReportsKept
<1>5. ASSUME NEW q \in NextId(request), NEW tree \in Tree, NEW usage \in Usage,
             ReviewWaitsForOwner(r, a, d, q, tree, usage)
      PROVE  Keeps(r)
  <2>1. Executing(r, a, d) /\ TablesGrow /\ run[r].reports \in Nat /\ run[r].reports < MaxTotalReviewRounds
    BY <1>5, ReportTables DEF ReviewWaitsForOwner, RowsOK, RunRow
  <2>2. RowWritten(a) /\ attempt'[a].status = "WAITING_HUMAN"
    BY <1>5 DEF ReviewWaitsForOwner, RowsOK, AttemptRow, RowWritten
  <2>3. /\ RunWritten(r) /\ run'[r].status = "WAITING_HUMAN" /\ run'[r].reports = run[r].reports + 1
        /\ run'[r].package = run[r].package /\ run'[r].packageTree = run[r].packageTree
    BY <1>5 DEF ReviewWaitsForOwner, RunWritten, RowsOK, RunRow
  <2>4. WritesRun(r, a)
    <3>1. KeptRun(r) /\ artifacts' = artifacts /\ workItem' = "BLOCKED"
      BY <1>5 DEF KeptInv, ReviewWaitsForOwner
    <3>2. run'[r].reports <= MaxTotalReviewRounds
      BY <2>1, <2>3 DEF MaxTotalReviewRounds
    <3> QED
      BY <2>2, <2>3, <3>1, <3>2 DEF WritesRun, KeptRun, Report, Active, ActiveRunStatus, Over
  <2> QED
    BY <2>1, <2>2, <2>3, <2>4, ReportsKept
<1>6. ASSUME NEW q \in NextId(request), NEW tree \in Tree, NEW usage \in Usage,
             ReadyForAcceptance(r, a, d, q, tree, usage)
      PROVE  Keeps(r)
  <2>1. attempt' = Leaves(a, "WAITING_HUMAN", attempt[a].code) /\ Executing(r, a, d) /\ TablesGrow
    BY <1>6, ReportTables DEF ReadyForAcceptance
  <2>2. run'[r] = [run[r] EXCEPT !.status = "WAITING_HUMAN", !.exhausted = Spend(r, usage),
                                 !.package = "PENDING", !.packageRequest = q, !.packageTree = tree]
    BY <1>6 DEF ReadyForAcceptance, RowsOK
  <2>3. /\ run'[r].status = "WAITING_HUMAN" /\ run'[r].reports = run[r].reports /\ run'[r].package = "PENDING"
        /\ run'[r].packageTree = tree /\ run'[r].current = run[r].current
    BY <2>2 DEF RowsOK, RunRow
  <2>4. RunWritten(r)
    BY <1>6, <2>3 DEF ReadyForAcceptance, RunWritten, RowsOK
  <2>5. RowWritten(a) /\ attempt'[a].status = "WAITING_HUMAN"
    BY <1>1, <2>1, LeavesWrites
  <2>6. WritesRun(r, a)
    <3>1. KeptRun(r) /\ artifacts' = artifacts /\ workItem' = "BLOCKED" /\ run[r].package = "NONE"
      BY <1>6 DEF KeptInv, ReadyForAcceptance
    <3>2. \A kind \in {"REVIEW_REPORT", "QA_REPORT"} : Report(r, kind, tree) \in artifacts
      BY <1>6 DEF ReadyForAcceptance, Report
    <3> QED
      BY <2>3, <2>5, <3>1, <3>2 DEF WritesRun, KeptRun, Report, Active, ActiveRunStatus, Over
  <2> QED
    BY <2>1, <2>3, <2>4, <2>5, <2>6, ReportsKept
<1> QED
  BY <1>2, <1>3, <1>4, <1>5, <1>6

\* A queued attempt, and the same one parked.
LEMMA QueuedRow ==
    ASSUME NEW r \in RunId, NEW s \in Stage, NEW n \in Nat
    PROVE  LET row == QueuedAttempt(r, s, n) IN
           /\ row.run = r /\ row.status = "QUEUED"
           /\ [row EXCEPT !.status = "HARD_PAUSED"].run = r
           /\ [row EXCEPT !.status = "HARD_PAUSED"].status = "HARD_PAUSED"
<1> DEFINE row == QueuedAttempt(r, s, n)
<1>1. row.run = r /\ row.status = "QUEUED"
  BY DEF QueuedAttempt, NoAttempt
<1>2. row \in AttemptRow
  BY QueuedAttemptType
<1> HIDE DEF row
<1>3. [row EXCEPT !.status = "HARD_PAUSED"].run = row.run /\ [row EXCEPT !.status = "HARD_PAUSED"].status = "HARD_PAUSED"
  BY <1>2 DEF AttemptRow
<1> QED
  BY <1>1, <1>3 DEF row

LEMMA ContinueKept ==
    ASSUME RowsOK, KeptInv, NEW r \in RunId, NEW a \in AttemptId, NEW d \in DispatchId, UNCHANGED overruled,
           Executing(r, a, d), NEW b \in NextId(attempt), NEW e \in NextId(dispatch), NEW s \in Stage, NEW n \in Nat,
           NEW tree \in Tree, NEW usage \in Usage, artifacts \subseteq artifacts',
           ContinueWith(r, a, d, b, e, QueuedAttempt(r, s, n), tree, usage),
           attempt[a].stage = "REVIEW" => run[r].reports < MaxTotalReviewRounds
    PROVE  Keeps(r)
<1>1. /\ b \in AttemptId /\ attempt[b].status = "NONE" /\ e \in DispatchId /\ dispatch[e].status = "NONE"
      /\ IsCurrent(r, a) /\ attempt[a].status = "RUNNING" /\ a # b
  BY NextIdIsAbsent DEF Executing
<1>2. /\ \A c \in AttemptId \ {a, b} : attempt'[c] = attempt[c]
      /\ attempt'[a] = [attempt[a] EXCEPT !.status = "SUCCEEDED", !.tree = tree, !.agentRun = FALSE]
      /\ attempt'[b].run = r /\ attempt'[b].status = IF usage # "BELOW" THEN "HARD_PAUSED" ELSE "QUEUED"
  BY <1>1, QueuedRow DEF ContinueWith, Succeeded, RowsOK
<1>3. attempt'[a].run = r /\ attempt'[a].status = "SUCCEEDED"
  BY <1>1, <1>2 DEF IsCurrent, RowsOK, AttemptRow
<1>4. \A o \in RunId \ {r} : run'[o] = run[o]
  BY DEF ContinueWith, RowsOK
<1>5. /\ run'[r].current = b /\ run'[r].status = IF usage # "BELOW" THEN "HARD_PAUSED" ELSE "RUNNING"
      /\ run'[r].package = run[r].package /\ run'[r].packageTree = run[r].packageTree
      /\ run'[r].reports = IF attempt[a].stage = "REVIEW" THEN run[r].reports + 1 ELSE run[r].reports
  BY DEF ContinueWith, RowsOK, RunRow
<1>6. WritesRows(r, a, b)
  BY <1>1, <1>2, <1>3, <1>4, <1>5 DEF WritesRows, IsCurrent, Over
<1>7. WritesRun(r, b)
  <2>1. KeptRun(r) /\ run[r].reports \in Nat /\ workItem' # "DONE"
    BY DEF KeptInv, RowsOK, RunRow, ContinueWith
  <2>2. run'[r].reports <= MaxTotalReviewRounds
    BY <1>5, <2>1 DEF KeptRun, MaxTotalReviewRounds
  <2> QED
    BY <1>2, <1>5, <2>1, <2>2 DEF WritesRun, KeptRun, Report, Active, ActiveRunStatus, Over
<1>8. TablesGrow
  BY <1>1 DEF TablesGrow, DispatchesKept, RequestsKept, ContinueWith, Answered, Executing, RowsOK
<1> QED
  BY <1>1, <1>6, <1>7, <1>8 DEF Keeps

LEMMA StageKept ==
    ASSUME RowsOK, KeptInv, NEW r \in RunId, NEW a \in AttemptId, NEW d \in DispatchId, UNCHANGED overruled,
           NEW b \in NextId(attempt), NEW e \in NextId(dispatch), NEW tree \in Tree, NEW usage \in Usage,
           StageCompleted(r, a, d, b, e, tree, usage) \/ ReviewQueuesFix(r, a, d, b, e, tree, usage)
    PROVE  Keeps(r)
<1>1. CASE StageCompleted(r, a, d, b, e, tree, usage)
  <2>1. PICK i \in AfterStage(attempt[a].stage), n \in Nat :
           ContinueWith(r, a, d, b, e, QueuedAttempt(r, Template[i], n), tree, usage)
    BY <1>1 DEF StageCompleted, RowsOK, AttemptRow
  <2>2. Template[i] \in Stage
    BY TemplateStages DEF RowsOK, AttemptRow
  <2> QED
    BY <1>1, <2>1, <2>2, ContinueKept DEF StageCompleted
<1>2. CASE ReviewQueuesFix(r, a, d, b, e, tree, usage)
  <2>1. "IMPLEMENT" \in Stage /\ NextNumber(a) \in Nat /\ run[r].reports \in Nat
    BY NextNumberType DEF Stage, RowsOK, RunRow
  <2>2. run[r].reports < MaxTotalReviewRounds
    BY <1>2, <2>1 DEF ReviewQueuesFix, MaxAutomaticReviewRounds, MaxTotalReviewRounds
  <2> QED
    BY <1>2, <2>1, <2>2, ContinueKept DEF ReviewQueuesFix
<1> QED
  BY <1>1, <1>2

\* The daemon's commands.
LEMMA DaemonKept ==
    ASSUME RowsOK, KeptInv, NEW r \in RunId, NEW a \in AttemptId, UNCHANGED overruled, DaemonCommand(r, a)
    PROVE  EndProviderSession(a) \/ Keeps(r)
BY StartKept, ParkKept, UsageKept, OutcomesKept, StageKept DEF DaemonCommand, ProviderOutcome, DispatchesOf

\* Requeueing the current attempt.
LEMMA RequeueKept ==
    ASSUME RowsOK, KeptInv, NEW r \in RunId, NEW a \in AttemptId, NEW d \in NextId(dispatch), UNCHANGED overruled,
           IsCurrent(r, a), ~Over(a), Requeue(r, a, d), UNCHANGED artifacts,
           request' = request \/ \E q \in RequestId : request[q].status = "OPEN" /\ request' = Resolved(q)
    PROVE  Keeps(r)
<1>1. RowWritten(a) /\ attempt'[a].status = "QUEUED"
  BY DEF Requeue, RowsOK, AttemptRow, RowWritten
<1>2. RunWritten(r) /\ SameBooks(r) /\ run'[r].status = "RUNNING"
  BY DEF Requeue, RunWritten, SameBooks, RowsOK, RunRow
<1>3. TablesGrow
  BY NextIdIsAbsent DEF Requeue, TablesGrow, DispatchesKept, RequestsKept, CreateDispatch, Resolved, RowsOK
<1> QED
  BY <1>1, <1>2, <1>3, StaysKeep DEF Stays, Over, Active, ActiveRunStatus

\* Stopping it.
LEMMA StopsKept ==
    ASSUME RowsOK, KeptInv, NEW r \in RunId, NEW a \in AttemptId, UNCHANGED overruled, NEW inFlight \in BOOLEAN,
           PausePipeline(r, a, inFlight) \/ CancelPipeline(r, a, inFlight)
    PROVE  Keeps(r)
<1>1. PICK s \in {"SOFT_PAUSED", "CANCELLED"} : /\ Stops(a, s, inFlight) /\ run' = [run EXCEPT ![r].status = s]
                                                /\ IsCurrent(r, a) /\ (Active(r) \/ ~Over(a)) /\ UNCHANGED artifacts
                                                /\ request' = request \/ request' = WithdrawRequests
  BY DEF PausePipeline, CancelPipeline, Over
<1>2. RowWritten(a) /\ attempt'[a].status = s
  BY <1>1 DEF Stops, RowsOK, AttemptRow, RowWritten
<1>3. RunWritten(r) /\ SameBooks(r) /\ run'[r].status = s
  BY <1>1 DEF Stops, RunWritten, SameBooks, RowsOK, RunRow
<1>4. TablesGrow
  BY <1>1 DEF Stops, TablesGrow, DispatchesKept, RequestsKept, WithdrawDispatches, Pending, WithdrawRequests, RowsOK
<1> QED
  BY <1>1, <1>2, <1>3, <1>4, StaysKeep DEF Stays, Over, Active, ActiveRunStatus


\* The owner's answers.
LEMMA AnswersKept ==
    ASSUME RowsOK, KeptInv, NEW r \in RunId, NEW a \in AttemptId, NEW q \in RequestId, UNCHANGED overruled,
           Answerable(r, a, q),
           \/ \E d \in NextId(dispatch) :
                 \/ AnswerHumanRequest(r, a, q, d)
                 \/ \E b \in NextId(attempt) : AuthorizeFinalFixRound(r, a, q, b, d)
           \/ CancelReviewLoop(r, a, q)
    PROVE  Keeps(r)
<1>1. IsCurrent(r, a) /\ ~Over(a) /\ request[q].status = "OPEN"
  BY DEF Answerable, Over
<1>2. ASSUME NEW d \in NextId(dispatch), AnswerHumanRequest(r, a, q, d)
      PROVE  Keeps(r)
  BY <1>1, <1>2, RequeueKept DEF AnswerHumanRequest
<1>3. CASE CancelReviewLoop(r, a, q)
  <2>1. RowWritten(a) /\ attempt'[a].status = "CANCELLED"
    BY <1>3 DEF CancelReviewLoop, RowsOK, AttemptRow, RowWritten
  <2>2. RunWritten(r) /\ SameBooks(r) /\ run'[r].status = "CANCELLED"
    BY <1>3 DEF CancelReviewLoop, RunWritten, SameBooks, RowsOK, RunRow
  <2>3. TablesGrow
    BY <1>1, <1>3 DEF CancelReviewLoop, TablesGrow, DispatchesKept, RequestsKept, Resolved, RowsOK
  <2> QED
    BY <1>1, <2>1, <2>2, <2>3, StaysKeep DEF Stays, Over, Active, ActiveRunStatus
<1>4. ASSUME NEW d \in NextId(dispatch), NEW b \in NextId(attempt), AuthorizeFinalFixRound(r, a, q, b, d)
      PROVE  Keeps(r)
  <2>1. /\ b \in AttemptId /\ attempt[b].status = "NONE" /\ d \in DispatchId /\ dispatch[d].status = "NONE" /\ a # b
        /\ "IMPLEMENT" \in Stage /\ NextNumber(a) \in Nat
    BY <1>1, NextIdIsAbsent, CurrentKept, NextNumberType DEF Stage
  <2>2. /\ \A c \in AttemptId \ {a, b} : attempt'[c] = attempt[c]
        /\ attempt'[a] = [attempt[a] EXCEPT !.status = "SUCCEEDED", !.code = "NONE"]
        /\ attempt'[b].run = r /\ attempt'[b].status = "QUEUED"
    <3>1. QueuedAttempt(r, "IMPLEMENT", NextNumber(a)).run = r /\ QueuedAttempt(r, "IMPLEMENT", NextNumber(a)).status = "QUEUED"
      BY <2>1, QueuedRow
    <3> QED
      BY <1>4, <2>1, <3>1 DEF AuthorizeFinalFixRound, RowsOK
  <2>3. attempt'[a].run = r /\ attempt'[a].status = "SUCCEEDED"
    BY <1>1, <2>2 DEF IsCurrent, RowsOK, AttemptRow
  <2>4. /\ \A o \in RunId \ {r} : run'[o] = run[o]
        /\ run'[r].current = b /\ run'[r].status = "RUNNING" /\ SameBooks(r)
    BY <1>4 DEF AuthorizeFinalFixRound, SameBooks, RowsOK, RunRow
  <2>5. WritesRows(r, a, b)
    BY <1>1, <2>1, <2>2, <2>3, <2>4 DEF WritesRows, IsCurrent
  <2>6. KeptRun(r) /\ artifacts' = artifacts
    BY <1>4 DEF KeptInv, AuthorizeFinalFixRound
  <2>7. WritesRun(r, b)
    BY <2>2, <2>4, <2>6 DEF WritesRun, KeptRun, SameBooks, Report, Active, ActiveRunStatus, Over
  <2>8. TablesGrow
    BY <1>1, <1>4, <2>1 DEF AuthorizeFinalFixRound, TablesGrow, DispatchesKept, RequestsKept, CreateDispatch, Resolved, RowsOK
  <2> QED
    BY <1>1, <2>1, <2>5, <2>7, <2>8 DEF Keeps, IsCurrent
<1> QED
  BY <1>2, <1>3, <1>4

\* The owner's decision on the package.
LEMMA ResolveKept ==
    ASSUME RowsOK, KeptInv, NEW r \in RunId, NEW a \in AttemptId, NEW q \in RequestId, UNCHANGED overruled,
           NEW action \in {"ACCEPTED", "RETURNED", "REJECTED"}, ResolveAcceptance(r, a, q, action)
    PROVE  Keeps(r)
<1>1. /\ IsCurrent(r, a) /\ ~Over(a) /\ request[q].status = "OPEN" /\ run[r].package = "PENDING"
      /\ request' = Resolved(q) /\ UNCHANGED <<dispatch, artifacts>>
  BY DEF ResolveAcceptance, Over
<1>2. PICK s \in {"SUCCEEDED", "FAILED"}, c \in FailureCode :
         /\ attempt' = [attempt EXCEPT ![a] = [@ EXCEPT !.status = s, !.code = c]]
         /\ run' = [run EXCEPT ![r] = [@ EXCEPT !.status = s, !.package = action]]
         /\ workItem' = "DONE" => action = "ACCEPTED"
  BY DEF ResolveAcceptance, FailureCode
<1>3. RowWritten(a) /\ attempt'[a].status = s
  BY <1>2 DEF RowsOK, AttemptRow, RowWritten
<1>4. /\ RunWritten(r) /\ run'[r].status = s /\ run'[r].package = action /\ run'[r].reports = run[r].reports
      /\ run'[r].packageTree = run[r].packageTree
  BY <1>2 DEF RunWritten, RowsOK, RunRow
<1>5. TablesGrow
  BY <1>1 DEF TablesGrow, DispatchesKept, RequestsKept, Resolved, RowsOK
<1>6. KeptRun(r)
  BY DEF KeptInv
<1>7. WritesRun(r, a)
  BY <1>1, <1>2, <1>3, <1>4, <1>6 DEF WritesRun, KeptRun, Report, Active, ActiveRunStatus, Over
<1> QED
  BY <1>1, <1>3, <1>4, <1>5, <1>7, StaysKeep DEF Stays, Over, Active, ActiveRunStatus

\* An override that repeats the stage, on the same row or on a new one.
LEMMA OverrideKept ==
    ASSUME RowsOK, KeptInv, NEW r \in RunId, NEW a \in AttemptId, NEW b \in {a} \cup NextId(attempt),
           NEW d \in NextId(dispatch), NEW preserved \in BOOLEAN, UNCHANGED overruled,
           ApproveBudgetOverride(r, a, b, d, preserved)
    PROVE  Keeps(r)
<1>1. /\ b \in AttemptId /\ d \in DispatchId /\ dispatch[d].status = "NONE" /\ KeptRun(r)
      /\ IsCurrent(r, a) /\ ~Over(a) /\ attempt[a].status # "NONE" /\ UNCHANGED <<request, artifacts>>
  BY NextIdIsAbsent DEF ApproveBudgetOverride, Over, KeptInv
<1>2. /\ run'[r].current = b /\ run'[r].status = "RUNNING" /\ SameBooks(r) /\ \A o \in RunId \ {r} : run'[o] = run[o]
  BY DEF ApproveBudgetOverride, SameBooks, RowsOK, RunRow
<1>3. TablesGrow
  BY <1>1 DEF ApproveBudgetOverride, TablesGrow, DispatchesKept, RequestsKept, CreateDispatch, RowsOK
<1>4. /\ \A c \in AttemptId \ {a, b} : attempt'[c] = attempt[c]
      /\ \A c \in {a, b} : attempt'[c].run = r /\ attempt'[c].status # "NONE"
      /\ attempt'[b].status = "QUEUED" /\ (b = a \/ attempt[b].status = "NONE")
  <2>1. CASE b = a /\ attempt' = [attempt EXCEPT ![a] = [@ EXCEPT !.status = "QUEUED", !.code = "NONE"]]
    BY <1>1, <2>1 DEF RowsOK, AttemptRow, IsCurrent
  <2>2. CASE b \in NextId(attempt) /\ attempt' = [attempt EXCEPT ![b] =
                  QueuedAttempt(r, attempt[a].stage, NextNumber(a))]
    <3>1. attempt[a].stage \in Stage /\ NextNumber(a) \in Nat /\ attempt[b].status = "NONE"
      BY <2>2, NextNumberType, NextIdIsAbsent DEF RowsOK, AttemptRow
    <3> QED
      BY <1>1, <2>2, <3>1, QueuedRow DEF RowsOK, IsCurrent
  <2> QED
    BY <2>1, <2>2 DEF ApproveBudgetOverride
<1>5. WritesRows(r, a, b)
  BY <1>1, <1>2, <1>4 DEF WritesRows, IsCurrent
<1>6. WritesRun(r, b)
  BY <1>1, <1>2, <1>4 DEF WritesRun, KeptRun, SameBooks, Report, Active, ActiveRunStatus, Over
<1> QED
  BY <1>1, <1>3, <1>5, <1>6 DEF Keeps, IsCurrent

\* The owner's commands.
LEMMA OwnerKept ==
    ASSUME RowsOK, KeptInv, NEW r \in RunId, NEW a \in AttemptId, UNCHANGED overruled, OwnerCommand(r, a)
    PROVE  Keeps(r)
<1>1. ASSUME NEW d \in NextId(dispatch), ResumePipeline(r, a, d)
      PROVE  Keeps(r)
  BY <1>1, RequeueKept DEF ResumePipeline, Over
<1> QED
  BY <1>1, StopsKept, AnswersKept, ResolveKept, OverrideKept
     DEF OwnerCommand, AnswerHumanRequest, AuthorizeFinalFixRound, CancelReviewLoop


LEMMA PipelineKept ==
    ASSUME RowsOK, KeptInv, NEW r \in NextId(run), NEW a \in NextId(attempt), NEW d \in NextId(dispatch),
           UNCHANGED overruled, StartPipeline(r, a, d)
    PROVE  Keeps(r)
<1>1. /\ r \in RunId /\ run[r].status = "NONE" /\ a \in AttemptId /\ attempt[a].status = "NONE"
      /\ d \in DispatchId /\ dispatch[d].status = "NONE" /\ KeptRun(r) /\ Template[1] \in Stage
  BY NextIdIsAbsent, TemplateStages DEF KeptInv
<1>2. /\ \A o \in RunId \ {r} : run'[o] = run[o]
      /\ run'[r].current = a /\ run'[r].status = "RUNNING" /\ SameBooks(r)
  BY <1>1 DEF StartPipeline, SameBooks, RowsOK, RunRow
<1>3. /\ \A c \in AttemptId \ {a} : attempt'[c] = attempt[c]
      /\ attempt'[a].run = r /\ attempt'[a].status = "QUEUED"
  BY <1>1, QueuedRow DEF StartPipeline, RowsOK
<1>4. WritesRows(r, a, a)
  BY <1>1, <1>2, <1>3 DEF WritesRows
<1>5. WritesRun(r, a)
  BY <1>1, <1>2, <1>3 DEF WritesRun, KeptRun, SameBooks, StartPipeline, Report, Active, ActiveRunStatus, Over
<1>6. TablesGrow
  BY <1>1 DEF StartPipeline, TablesGrow, DispatchesKept, RequestsKept, CreateDispatch, RowsOK
<1> QED
  BY <1>1, <1>4, <1>5, <1>6 DEF Keeps

\* A stale loop writes an attempt of a run that stands, or overrules the run.
LEMMA StaleKept ==
    ASSUME RowsOK, KeptInv, NEW r \in RunId, NEW a \in AttemptId, NEW d \in stale, NEW q \in NextId(request),
           StaleHardPause(r, a, d, q)
    PROVE  Keeps(r)
<1>1. /\ attempt[a].run = r /\ StageAttemptHardPause(r, a, q) /\ KeptRun(r) /\ KeptAttempt(a)
      /\ r \notin overruled' => Standing(r, a)
  BY DEF StaleHardPause, KeptInv
<1>2. attempt[a].status # "NONE" /\ run[r].status # "NONE"
  BY <1>1 DEF KeptAttempt
<1>3. RowWritten(a) /\ attempt'[a].status = "HARD_PAUSED"
  BY <1>1, LeavesWrites DEF StageAttemptHardPause, AttemptStatus, FailureCode
<1>4. RunWritten(r) /\ SameBooks(r) /\ run'[r].status = "HARD_PAUSED" /\ run'[r].exhausted = run[r].exhausted
  BY <1>1 DEF StageAttemptHardPause, RunWritten, SameBooks, RowsOK, RunRow
<1>5. TablesGrow
  BY <1>1, NextIdIsAbsent DEF StageAttemptHardPause, TablesGrow, DispatchesKept, RequestsKept, WithdrawDispatches,
     Pending, OpenRequest, RowsOK
<1>6. PICK b \in AttemptId : b = run[r].current /\ attempt[b].run = r /\ attempt[b].status # "NONE"
  BY <1>1, <1>2 DEF KeptRun, IsCurrent
<1>7. WritesRows(r, a, b)
  BY <1>1, <1>3, <1>4, <1>6 DEF RowWritten, RunWritten, WritesRows, Standing
<1>8. WritesRun(r, b)
  <2>1. attempt'[b].status \in {attempt[b].status, "HARD_PAUSED"}
    BY <1>3, <1>6 DEF RowWritten
  <2>2. r \notin overruled' => b = a
    BY <1>1, <1>6 DEF Standing, IsCurrent
  <2>3. r \notin overruled' => (Active(r)' <=> ~Over(b)')
    BY <1>3, <1>4, <2>2 DEF Active, ActiveRunStatus, Over
  <2>4. run[r].exhausted => attempt'[b].status # "RUNNING"
    BY <1>1, <1>6, <2>1 DEF KeptRun, BudgetFits
  <2>5. artifacts' = artifacts /\ workItem' = "BLOCKED"
    BY <1>1 DEF StageAttemptHardPause
  <2> QED
    BY <1>1, <1>4, <1>6, <2>3, <2>4, <2>5 DEF WritesRun, KeptRun, SameBooks, Report
<1> QED
  BY <1>5, <1>6, <1>7, <1>8 DEF Keeps

\* A step that writes no run, and of an attempt at most its AgentRun.
LEMMA IdleKept ==
    ASSUME RowsOK, KeptInv, UNCHANGED <<run, dispatch, request, artifacts, overruled>>,
           workItem' = "DONE" => workItem = "DONE", \A c \in AttemptId : SameRow(c)
    PROVE  KeptInv' /\ History
<1>1. \A c \in AttemptId : attempt'[c].run = attempt[c].run /\ attempt'[c].status = attempt[c].status
  BY DEF SameRow, RowsOK, AttemptRow
<1>2. ASSUME NEW r \in RunId PROVE KeptRun(r)'
  <2>1. KeptRun(r) /\ (run[r].exhausted => run[r].status # "NONE")
    <3>1. KeptRun(r)
      BY DEF KeptInv
    <3> QED
      BY <3>1 DEF KeptRun, NoRun
  <2> QED
    BY <1>1, <2>1 DEF KeptRun, BudgetFits, IsCurrent, Active, Over, Report
<1>3. (\A c \in AttemptId : KeptAttempt(c)') /\ DoneIsAccepted'
  BY <1>1 DEF KeptInv, KeptAttempt, DoneIsAccepted
<1> QED
  BY <1>2, <1>3 DEF KeptInv, History, RequestsKept, DispatchesKept

\* A restart interrupts the stages that execute, and ends every AgentRun.
LEMMA ReconcileKept ==
    ASSUME RowsOK, KeptInv, ReconcileWorkflows, UNCHANGED overruled
    PROVE  KeptInv' /\ History
<1> DEFINE hit(r) == \E a \in AttemptId : Orphaned(r, a)
           struck(a) == \E r \in RunId : Orphaned(r, a)
<1>1. \A a \in AttemptId : attempt'[a] = IF struck(a)
         THEN [attempt[a] EXCEPT !.status = "INTERRUPTED", !.code = "DAEMON_RESTART", !.agentRun = FALSE]
         ELSE [attempt[a] EXCEPT !.agentRun = FALSE]
  BY DEF ReconcileWorkflows
<1>2. \A r \in RunId : run'[r] = IF hit(r) THEN [run[r] EXCEPT !.status = "INTERRUPTED"] ELSE run[r]
  BY DEF ReconcileWorkflows, Orphaned
<1>3. \A a \in AttemptId : /\ attempt'[a].run = attempt[a].run
                           /\ attempt'[a].status = IF struck(a) THEN "INTERRUPTED" ELSE attempt[a].status
  BY <1>1 DEF RowsOK, AttemptRow
<1>4. \A r \in RunId : /\ run'[r].current = run[r].current /\ run'[r].exhausted = run[r].exhausted
                       /\ run'[r].reports = run[r].reports /\ run'[r].package = run[r].package
                       /\ run'[r].packageTree = run[r].packageTree
                       /\ run'[r].status = IF hit(r) THEN "INTERRUPTED" ELSE run[r].status
  BY <1>2 DEF RowsOK, RunRow
<1>5. \A a \in AttemptId, r \in RunId : Orphaned(r, a) =>
         run[r].current = a /\ attempt[a].run = r /\ run[r].status = "RUNNING" /\ attempt[a].status = "RUNNING"
  BY DEF Orphaned, IsCurrent
<1>6. /\ artifacts' = artifacts /\ request' = request
      /\ workItem' = "DONE" => workItem = "DONE"
      /\ DispatchesKept
  BY DEF ReconcileWorkflows, DispatchesKept, Pending
<1>7. ASSUME NEW r \in RunId PROVE KeptRun(r)'
  <2>1. KeptRun(r) /\ (run[r].exhausted => run[r].status # "NONE")
    <3>1. KeptRun(r)
      BY DEF KeptInv
    <3> QED
      BY <3>1 DEF KeptRun, NoRun
  <2>2. CASE run[r].status = "NONE"
    BY <1>2, <1>4, <1>5, <1>6, <2>1, <2>2 DEF KeptRun, BudgetFits, Report
  <2>3. CASE run[r].status # "NONE"
    <3>1. run[r].current \in AttemptId /\ (struck(run[r].current) <=> hit(r))
      BY <1>5, <2>1, <2>3 DEF KeptRun, IsCurrent
    <3> QED
      BY <1>3, <1>4, <1>5, <1>6, <2>1, <2>3, <3>1 DEF KeptRun, BudgetFits, IsCurrent, Active, ActiveRunStatus, Over, Report
  <2> QED
    BY <2>2, <2>3
<1>8. (\A c \in AttemptId : KeptAttempt(c)') /\ DoneIsAccepted'
  BY <1>3, <1>4, <1>5, <1>6 DEF KeptInv, KeptAttempt, DoneIsAccepted
<1>9. \A a \in AttemptId : ~struck(a) => SameRow(a)
  BY <1>1 DEF SameRow
<1>10. \A a \in AttemptId : struck(a) => ~Over(a) /\ \E r \in RunId : run[r].current = a
  BY <1>5 DEF Over
<1>11. \A r \in RunId : ~Active(r) => run'[r] = run[r]
  BY <1>2, <1>5 DEF Active, ActiveRunStatus
<1> QED
  BY <1>6, <1>7, <1>8, <1>9, <1>10, <1>11 DEF KeptInv, History, RequestsKept

\* Every step keeps what no stale loop breaks.
LEMMA StepKept ==
    ASSUME TypeOK, TypeOK', KeptInv, [Next]_vars
    PROVE  KeptInv' /\ History
<1> USE DEF TypeOK
<1>1. \A r \in RunId : Keeps(r) /\ overruled \subseteq overruled' /\ overruled' \subseteq overruled \cup {r}
                       => KeptInv' /\ History
  BY KeepsKept
<1>2. ASSUME NEW a \in AttemptId, EndProviderSession(a), UNCHANGED overruled
      PROVE  KeptInv' /\ History
  <2>1. UNCHANGED <<workItem, run, dispatch, request, artifacts>> /\ \A c \in AttemptId : SameRow(c)
    BY <1>2 DEF EndProviderSession, SameRow, RowsOK
  <2> QED
    BY <1>2, <2>1, IdleKept
<1>3. ASSUME NEW target \in WorkItemState, MoveWorkItem(target), UNCHANGED overruled
      PROVE  KeptInv' /\ History
  <2>1. workItem' # "DONE" /\ UNCHANGED <<run, dispatch, request, artifacts>> /\ \A c \in AttemptId : SameRow(c)
    BY <1>3 DEF MoveWorkItem, AllowedMove, SameRow
  <2> QED
    BY <1>3, <2>1, IdleKept
<1>4. CASE Command /\ UNCHANGED overruled
  <2>1. ASSUME NEW r \in RunId, NEW a \in Current(r), DaemonCommand(r, a) \/ OwnerCommand(r, a)
        PROVE  KeptInv' /\ History
    <3>1. a \in AttemptId
      BY DEF Current
    <3> QED
      BY <1>1, <1>2, <1>4, <2>1, <3>1, DaemonKept, OwnerKept
  <2>2. ASSUME NEW r \in NextId(run), NEW a \in NextId(attempt), NEW d \in NextId(dispatch), StartPipeline(r, a, d)
        PROVE  KeptInv' /\ History
    BY <1>1, <1>4, <2>2, PipelineKept, NextIdIsAbsent
  <2> QED
    BY <1>2, <1>3, <1>4, <2>1, <2>2 DEF Command
<1>5. ASSUME NEW r \in RunId, NEW a \in AttemptId, NEW d \in stale, NEW q \in NextId(request), StaleHardPause(r, a, d, q)
      PROVE  KeptInv' /\ History
  <2>1. overruled \subseteq overruled' /\ overruled' \subseteq overruled \cup {r}
    BY <1>5 DEF StaleHardPause
  <2> QED
    BY <1>1, <1>5, <2>1, StaleKept
<1>6. CASE UNCHANGED vars
  <2>1. UNCHANGED <<workItem, run, dispatch, request, artifacts, overruled>> /\ \A c \in AttemptId : SameRow(c)
    BY <1>6 DEF vars, SameRow
  <2> QED
    BY <2>1, IdleKept
<1> QED
  BY <1>4, <1>5, <1>6, ReconcileKept DEF Next

\* What stays true of every run and attempt, whatever a stale loop overrules.
THEOREM KeptCorrect == Spec => []KeptInv
<1>1. Init => KeptInv
  BY BoundAssumption DEF Init, KeptInv, DoneIsAccepted, KeptRun, KeptAttempt, BudgetFits, NoRun, NoAttempt, RunId,
     MaxTotalReviewRounds
<1>2. TypeOK /\ TypeOK' /\ KeptInv /\ [Next]_vars => KeptInv'
  BY StepKept
<1> QED
  BY <1>1, <1>2, TypeCorrect, PTL DEF Spec


\* No stage executes on a budget that is spent, also after a stale loop overruled its run.
THEOREM BudgetStopsWork == Spec => []ExhaustedBudgetStopsWork
<1>1. KeptInv => ExhaustedBudgetStopsWork
  BY DEF KeptInv, KeptRun, BudgetFits, ExhaustedBudgetStopsWork
<1> QED
  BY <1>1, KeptCorrect, PTL

\* Three review rounds at most, whatever pauses, overrides, restarts and stale loops come between;
\* until a stale loop overrules a run, the review that executes has one left.
THEOREM RoundsAreBounded == Spec => []ReviewRoundsBounded
<1>1. ASSUME RowsOK, RowsInv, NEW r \in RunId, Active(r), attempt[run[r].current].stage = "REVIEW",
             attempt[run[r].current].status \in {"QUEUED", "RUNNING"}
      PROVE  run[r].reports < MaxTotalReviewRounds
  <2>1. RoundsFit(r)
    BY <1>1 DEF RowsInv, RunInv
  <2> QED
    BY <1>1, <2>1, StageOrder DEF RoundsFit
<1>2. TypeOK /\ KeptInv /\ (overruled = {} => RowsInv) => ReviewRoundsBounded
  BY <1>1 DEF TypeOK, KeptInv, KeptRun, ReviewRoundsBounded
<1> QED
  BY <1>2, TypeCorrect, KeptCorrect, RowsCorrect, PTL

\* What the owner is asked to accept, and what is Done, rests on a review and a QA report of the
\* tree it names, which is the tree of the latest implementation unless a stale loop took it back.
THEOREM AcceptedIsVerified == Spec => []AcceptedTreeIsVerified
<1>1. ASSUME RowsOK, RowsInv, NEW r \in RunId, run[r].package \in {"PENDING", "ACCEPTED"}
      PROVE  \E a \in Implementations(r) :
                /\ attempt[a].tree = run[r].packageTree
                /\ \A b \in Implementations(r) : attempt[b].number <= attempt[a].number
  <2>1. /\ run[r].packageTree \in Tree
        /\ Report(r, "QA_REPORT", run[r].packageTree) \in artifacts
    BY <1>1 DEF RowsInv, RunInv, ReportsFit
  <2>2. CurrentTree(r, run[r].packageTree)
    BY <1>1, <2>1 DEF RowsInv, RunInv, ReportsFit
  <2>3. PICK a \in AttemptId : ImplementedBy(r, a) /\ attempt[a].tree = run[r].packageTree
    BY <2>2 DEF CurrentTree
  <2>4. a \in Implementations(r) /\ \A b \in Implementations(r) : ~(b > a) /\ b \in AttemptId
    BY <2>3 DEF ImplementedBy, Implementations
  <2>5. \A b, c \in Implementations(r) : b < c => attempt[b].number <= attempt[c].number
    BY <1>1 DEF RowsInv, RunInv, ImplementationsFit
  <2>6. ASSUME NEW b \in Implementations(r)
        PROVE  attempt[b].number <= attempt[a].number
    <3>1. b \in Nat /\ a \in Nat /\ attempt[a].number \in Nat /\ ~(b > a)
      BY <1>1, <2>3, <2>4, BoundAssumption DEF RowsOK, AttemptRow, AttemptId
    <3>2. b = a \/ b < a
      BY <3>1
    <3> QED
      BY <2>4, <2>5, <3>1, <3>2
  <2> QED
    BY <2>3, <2>4, <2>6
<1>2. TypeOK /\ KeptInv /\ (overruled = {} => RowsInv) => AcceptedTreeIsVerified
  BY <1>1 DEF TypeOK, KeptInv, KeptRun, DoneIsAccepted, Report, AcceptedTreeIsVerified
<1> QED
  BY <1>2, TypeCorrect, KeptCorrect, RowsCorrect, PTL

\* What is over keeps what it recorded: ended and superseded attempts and ended runs, but those of
\* a run a stale loop overruled; and every answered question and every dispatch used or withdrawn.
THEOREM HistoryStays == Spec => HistoryIsKept
<1>1. TypeOK /\ TypeOK' /\ KeptInv /\ [Next]_vars => [History]_vars
  BY StepKept
<1>2. History <=> /\ \A a \in AttemptId :
                        /\ attempt[a].run \notin overruled'
                        /\ \/ attempt[a].status \in {"SUCCEEDED", "FAILED", "CANCELLED"}
                           \/ attempt[a].status # "NONE" /\ \A r \in RunId : run[r].current # a
                        => attempt'[a] \in {attempt[a], [attempt[a] EXCEPT !.agentRun = FALSE]}
                  /\ \A r \in RunId \ overruled' : run[r].status # "NONE" /\ ~Active(r) => run'[r] = run[r]
                  /\ \A q \in RequestId : request[q].status \in {"RESOLVED", "CANCELLED"}
                                          => request'[q] = request[q]
                  /\ \A d \in DispatchId : dispatch[d].status \in {"COMPLETED", "FAILED"}
                                           => dispatch'[d] = dispatch[d]
  BY DEF History, Over, SameRow, RequestsKept, DispatchesKept
<1> QED
  BY <1>1, <1>2, TypeCorrect, KeptCorrect, PTL DEF Spec, HistoryIsKept
=============================================================================
