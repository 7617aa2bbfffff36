# Loomrail: a verification development

Loomrail is a local control plane for AI-assisted software work: a daemon that drives a task through a pipeline of
agent stages, keeps every fact in SQLite, and leaves each decision that matters to an owner. This directory holds
TLA+ modules translated from its code, TLC configurations that check them on small instances, and proofs that TLAPS
checks for every instance. The actions, and the helpers they read, name their lines in
`PROJECT.json` (`map`); row types, empty rows and the unions of actions have no lines of their own. In this file
`P` is `packages/persistence-sqlite/src/index.ts`, and other paths are under `packages/` or `apps/` of the repository.

Contents: 1 inventory, 2 modules, 3 runs, 4 proofs, 5 what the code does not keep, 6 not modelled, 7 plan.

## 1. Inventory

### Parts, their state and how they meet

| Component | State | Operations | Meets |
| --- | --- | --- | --- |
| Workflow state machine (`domain/src/workflow.ts`, `review.ts`, `session.ts`, applied by `persistence-sqlite`) | WorkItem, PipelineRun, StageAttempt, WorkflowDispatch, HumanRequest, BudgetPolicy, AcceptancePackage, evidence | start, run a stage, apply its outcome, ask, answer, pause, resume, cancel, override a budget, accept or return, recover | every command is one SQLite transaction; the worker reads its pending dispatches |
| Agent execution (`daemon/src/session-worker.ts`, `session-loop.ts`, the control routes of `server.ts`) | loops in memory, AgentRun, ProviderSession, workspace lease, child processes | claim, prepare the workspace, assemble the context, open a session, spawn, end, revoke, reconcile | awaits git, the adapter and the owner's requests; the durable claims are what survives a crash |
| Scheduler (`scheduler`) | none: a pure plan over a snapshot | plan a batch | called by the pump; START_AGENT_RUN checks again |
| Worker pump (`session-worker.ts`) | pending wake, active tasks, blocked dispatches, cycle count | wake, pass, settle, retry, stop | woken by owner commands |
| Session loop, provider process | session ordinals, checkpoints, handoff, unproductive count; a child, its pipe and deadlines | hand off, carry over, back off; spawn, read, abort, settle | inside an execution |
| Agents and squads | squad, preference, grants, the policy an AgentRun pins | schedule, start, open, re-probe | from the scheduler to each session |
| Workspace and leases | worktrees, rows, lease, shared directory | cut, record, lease, release, orphan | stages and verification compete for the writer |
| Corrections (`qa-correction.ts`, `verification-correction.ts`) | correction runs of two evaluators, one shared ceiling | start, supersede, suspend, pass, exhaust, authorize | inside the pipeline's IMPLEMENT, REVIEW and QA stages |
| Project verification (`verification*.ts`, `process-supervision`) | runs, checks, launch intents, process records | start, check, cancel, time out, recover | holds the directory's lease, gates QA |
| Browser QA | runs, artifact directories, markers | write, move, record, confirm, recover, expire | evidence of a QA stage |
| Acceptance | evidence, context pack, claims, package, answer | show, claim, bind, edit, answer, export | the last stage and the owner |
| Guided deployment | deployments, remote runs, an UNKNOWN outcome | adopt, approve, dispatch, observe, recover | an irreversible remote call |
| Launch release and measurement, readiness | plans, runs, services, releases, checks | measure, cancel, scan, attest, package, request, promote | gates of a deployment |
| MCP gateway and workspace tools | calls, leases, grants, servers and their records, profiles | open, call, drain, close, probe, consent, revoke, recover | used by the child of a session |
| Publication, scaffold | decisions with a file in the repository | drain, retry, recover | file system and SQLite |
| Demo project | a repository, its Project, one task, receipts | build, adopt, repair, create once | file system and SQLite |
| Activity, live view, logs, data directory | bounded queues, cursors, signals, segments, the writer lock, migrations | record, drain, page, refresh, rotate, reclaim, migrate | what the owner gets to see |
| Owner session, Workbench, board | cookie and token; what the page offers | exchange, use, start, answer, move | the browser |
| Provider allowance | rows with a reset time | read, share, expire | one child for several projects |
| Contracts, CLI parsing, layout | - | data and display | not modelled |

### What is hard

* **Interleaving.** JavaScript runs to completion between awaits, but a loop awaits git, context assembly, a
  provider turn of up to hours and its stop, while the owner pauses, resumes, cancels and starts again. What a loop
  read before an await may be wrong after it.
* **Fences.** AgentRun, ProviderSession and lease are three durable claims, taken and given back by different
  commands, that together must let exactly one turn run for a WorkItem.
* **Crashes.** Children, supervisors, `gh` and the owner's MCP servers outlive the daemon; recovery must neither kill
  what it cannot identify nor free what it cannot prove stopped, and never replays work. Files are moved before rows
  are written, or after.
* **Long protocols.** Reviews, fix rounds, two kinds of correction, questions, budgets, pauses and restarts combine; a
  forgotten row or counter leaves a state no command accepts.
* **Limits.** Concurrency limits, review rounds, correction ceilings, the pump's cycle limit, bounded queues, windows
  and log segments.
* **Stale answers.** Several tabs, shared reads with deadlines, probes and scans that finish after what they were
  asked about has changed.

The list, line by line, is `hazards` in `PROJECT.json`, each with the properties that would catch it going wrong.

### What makes each part correct

Workflow: one active run; rows agree; a running pipeline has exactly one standing instruction; a stopped one has a
way on; rounds are bounded; what is accepted was verified on the last tree; history is kept. Execution: one turn; no
driven child without its fence; no lease without somebody to give it back; a paused pipeline becomes resumable.
Scheduler: no limit and no workspace conflict is ever violated, and nobody who fits is left out for somebody behind.
Pump: no double execution, bounded pool, no wake lost. Corrections: a shared ceiling nobody buys past, and nothing
delivered unverified. Verification: the directory is free only after the processes are gone, and has one owner.
Deployment and tool calls: at most once, and a verdict that is true. The rest: what the owner is shown is complete or
says what it lost, evidence is evidence of what it names, and nobody else's files are touched.

## 2. Modules

A part that shares state with others is composed with them (Workflow with Workbench, VerificationRun with
Supervision); parts that share none are instances of MCParts. A proof module extends the module it is about.

| Module | What it models, and at which grain |
| --- | --- |
| Workflow | the rows of **one WorkItem** under every command: an action is the decision function in `domain` with everything the command handler in `P` writes; a row table is a function from ids to records. Trees are model values; a usage report says only which cap it reaches; the correction branches are Corrections'. `stale` are the loops a pause or a cancel overtook before their turn: such a loop may still hard-pause its attempt, whatever became of it (`StaleHardPause`, `session-loop.ts:1470`), and `overruled` is the history of the runs where it did so against the rows |
| Workbench (MCWorkflow) | what the page and the Attention Inbox offer of those rows, and the commands behind their controls |
| Execution (MCExecution) | **who may act**: loops at their awaits, AgentRun, session, lease, children, the cancel request, crash and `RECONCILE_WORKFLOWS`. A step is the code from one await to the next. `pipeline` is the run of an attempt; `unfenced` is the history of the pipelines whose fence broke, see section 4 |
| Scheduler | `planDispatchBatch`, one step per turn of its loop; `PlanIsGreedy` is the specification of the whole function, independent of the loop |
| WorkerPump | the pump of `createSessionWorker`: `pc` says before which piece of code it stands; a task is a promise of `activeTasks`. `handed`, `passed` and `cut` are history variables |
| Corrections (MCCorrections) | the correction runs of both evaluators in one pipeline run, the gates, the owner's decisions, manual runs, republished plans, startup |
| Supervision, VerificationRun | daemon, supervisor, target and recovery of one supervised process; over it one VerificationRun from reservation to end against the stages that want the directory |
| Authority | abstract: a directory has at most one owner. VerificationRun implements it |
| AtMostOnce | abstract: an effect is claimed before it is tried, happens at most once, and its verdict is true. Deployment and ToolCalls implement it |
| Deployment, ToolCalls | the dispatch of a deployment through `gh`; tool calls of two sessions with grants, leases, cancel, recovery |
| SessionLoop, ProviderProcess | the sessions of one attempt; the child, pipe and deadlines of one session |
| AgentPolicy | what is scheduled, pinned at START_AGENT_RUN and used by each session |
| Workspace | the directory of a stage: cut or shared, recorded, leased, with the owner's hands on the repository |
| BrowserQA, Acceptance, LaunchMeasurement, LaunchRelease, Readiness | evidence: files, packages, measurements, releases, attestations |
| McpServers, McpProfiles | processes of MCP servers and their records; consent, probe and grants |
| Publication, Scaffold, DemoProject | decisions that are also files in a repository |
| ActivityRecorder, ActivityFeed, LiveView | what is recorded of a session, read page by page, and kept fresh in a tab |
| DataDirectory, LogFiles, OwnerSession, Allowance, WorkItems | writer lock and migrations; log segments; cookie and token; rate limits; the board |
| MCParts | the nine rows above and Scheduler, side by side: `part` says which of them a behaviour is one of |
| WorkflowProofs, ExecutionProofs, PartsProofs, WorkerPumpProofs, VerificationProofs, CorrectionsProofs, ProjectProofs, SessionProofs | theorems, section 4 |

Correspondence that a reader needs in more than one module:

* A command is one step, since `P` runs each in one transaction. A command that is refused changes nothing and is no
  step, unless the refusal itself leads somewhere.
* Between two awaits nothing else moves. Where the code awaits and then uses what it read before, the model keeps
  what was read in a local (`exec`, `task`, `drain`, `asks`...), and other actions come in between.
* A crash loses what is in memory and keeps rows, files and other processes. A graceful stop is a crash that comes
  at a good moment, unless stopping has steps of its own (LaunchMeasurement, VerificationRun).
* Execution's constant `StopsProven` (stops and recovery's probes are conclusive), WorkerPump's `Gated`, `Unsettled`, `OrphansPossible`,
  `ReadsMayFail` and VerificationRun's `Resists`, `WriteFails`, `SupervisorMayDie`, `RecipeThrows`, `Masks`,
  `LiveRootNeeded` describe the environment; each is the presence of a fault the code has to handle.

## 3. Runs

| Run | Question | Instance |
| --- | --- | --- |
| MCWorkflowReview | Do rounds stay bounded, is what is accepted verified? | 1 run, 2 trees (symmetric), 8 attempts and dispatches, 2 requests, 1 stale loop: three full review rounds with answers and a return |
| MCWorkflowRuns | Do the rows agree, do questions belong to who waits, does each stop have a way on, does a spent budget stop work, is history kept? | 2 runs, the three usage reports, 5 attempts, 6 dispatches, 2 stale loops |
| MCExecutionFence | Can two turns run, can a child be driven without its lease, can a stale loop run on a new claim? | 3 attempts (the second outside the workspace) of up to 3 pipelines, 3 dispatches, 3 sessions, 2 crashes, stops may fail |
| MCExecutionLiveness | Does a pause become resumable, does every lease come back? | 2 attempts (the last outside the workspace), 3 dispatches, 3 sessions, 1 crash |
| MCWorkerPump | When the pump rests, was everything tried that could start? Does every wake get a pass? | 3 items, limit 2, 2 dispatches per item, cycle limit 4, a gate, a provider that comes and goes |
| MCWorkerPumpFaults | Are pool and store within the limit, is each task consumed once? | the same, cycle limit 3, passes that throw, orphaned AgentRuns |
| VerificationRun | Has the directory one owner, is it given back after the processes are gone, does a run end once and every cancel settle? | 2 checks, 2 WorkItems in one directory, 2 crashes, every fault |
| MCCorrections | Is the ceiling shared, is no correction left, is only what is verified delivered? | 2 trees, 2 plans, 4 verification runs |
| MCParts | The parts that share no state: at most once, evidence in force, owner sees or is told... | two instances of everything, see below |
| MCExecutionCancelled, MCCorrectionsStartup, MCToolCallsCancel | (violated) what a comment, a plan and an ADR say | 1 attempt; as MCCorrections; 1 call of each kind, 2 sessions |

**Bounds.** The bounds are the table sizes. Two attempts are a pipeline and its successor (or a stage and the next),
three dispatches are a start and two resumes, so that a loop of each can be alive at once; MCExecutionFence has a third
attempt, so that a pipeline follows one whose turn outside the workspace was left behind. Two stale loops are one of a
run that ended and one of the run after it, or two of one attempt that was paused twice. More rows repeat these cases. The pump needs three items and a limit of two: one item more than slots, so that one is deferred while another
frees its slot; `CycleLimit` is 3 or 4 so that some passes reach it and some do not. Three dispatches are enough for
Scheduler because a turn looks at what ran, at what was selected before it and at its own candidate only. Four
verification runs are a failure, a correction of it, a nested one and a manual run. The theorems of section 4 lift
the bounds of these modules.

In MCParts `A`, `B` and `C` have two symmetric elements each, which the parts take as attempts, runs, tabs, trees,
files or sessions: two are what it takes for one to be stale when the other acts. The bounds are named in the INSTANCE
statements: MaxRuns 2 and MaxVersion 5 (Deployment: each deployment's life and one observation late by it),
MaxRevision 2 (Publication, LaunchMeasurement), MaxVersion 1 (Publication, Scaffold: one retry), PageSize 1, MaxId 3 and
MaxTime 1 (ActivityFeed: a page that ends inside a millisecond), QueueLimit 2 and TableLimit 1 (ActivityRecorder: both
overflow), MaxVersion 5 and MaxEvidence 4 (LaunchRelease: preview, production, and one change of each evidence),
MaxTree 2 (BrowserQA), MaxSequence 2 and MaxStreams 1 (LiveView: one reconnect), MaxSessions 2 and MaxStops 1
(SessionLoop), MaxFaults 1 to 4 (faults of the environment), MaxStarts 2 and Life 4 (OwnerSession: a restart; a life
long enough to slide), SegmentLimit 2, TotalLimit 4 and Retention 2 (LogFiles), MaxReads 2 and Ttl 1 (Allowance).

`CHECK_DEADLOCK FALSE` stands in every configuration because a system whose row bound is used up, or whose WorkItem is
done, has no step left. Every property has a mutant in `PROJECT.json`, a plausible bug, that breaks it.

**Refinements.** `ExclusiveDirectory` (VerificationRun implements Authority, `holders` being who has the lease or the
verification's reservation), `DispatchedAtMostOnce` (a deployment) and `CalledAtMostOnce` (a tool call) are checked as
PROPERTY of their runs; all three are proved as well. For MCParts the abstract specification is stated as its initial condition and its step, as a
behaviour of another part is no behaviour of it.

### Fairness

* Execution: weak fairness of each loop (git, context assembly and processes have deadlines, and a stop resolves when
  the child exits) and of the cancel request. Nothing is asked of the owner, of dispatches being started or of a
  restart: the liveness properties excuse a daemon that is down.
* WorkerPump: weak fairness of the pump's own turns, which the JavaScript event loop runs whenever they are due, and
  of every task: `executeDispatch` awaits git, the gate's checks and a provider session, and each of them is ended by
  a deadline (`LOCAL_PROVIDER_SESSION_DEADLINE_MS` for a session). Nothing is asked of the owner.
* VerificationRun: weak fairness of the loop, of the cancel that waits or recovers, of the supervisor, of recovery
  and of the ends of stop and start: timers and awaited exits. Nothing is asked of the owner, of crashes or faults.

## 4. Proofs

TLC checks small instances; the theorems below hold for every value of the constants. Each run property they state
is named in `PROJECT.json` under `theorems`; TLC checks it on a small instance.

**Assumptions.** The named assumptions of the constants ask for what the code validates or the model's bounds need:
bounds are natural numbers, sets of items are finite, a template is a sequence of distinct stages with a REVIEW right
after IMPLEMENT that ends with ACCEPTANCE, limits are natural numbers and a pass hands over at least one dispatch.
TLC evaluates them in the runs. Some theorems have a hypothesis besides:

* `IdleCorrect`: `~ReadsMayFail`, no pass throws. Otherwise it is false (section 5).
* `NothingIsLeftBehind`: `~OrphansPossible`, no loop leaves its AgentRun behind. Otherwise it is false (section 5).
* The theorems about ToolCalls: `KindsDiffer`, the three kinds of call have no call in common. The code keeps them
  apart by the table of their row and the name of their tool.
* The theorems about the other modules of SessionProofs and ProjectProofs have the assumptions on their constants as
  a hypothesis, named after the module (`SpaceConstants`, `LoopBounds`, `ReleaseBounds`...). These modules have no
  ASSUME, as they are used through INSTANCE and TLC would not evaluate it there. Nearly all say that a bound is a natural number
  and that a set of tabs, items, actions or checks is finite. Those that say more:
  * `DataConstants`: at most two processes reclaim a lock at a time. With three it is false (section 5).
  * `RecorderBounds`: `CrashAfterFinish = FALSE`, the daemon does not die between the end of an AgentRun and its last
    drain. Otherwise what was reported is lost without a sign (section 5).
  * `LogBounds`: there are more names than owned segments, and a segment fits the total: `limits` of the code.
  * `PolicyBounds`: both caps are at least 1 and a session's first budget is between 1 and the largest, as the contracts
    require.
* The theorems about MCParts have the hypotheses of the parts they join: `A` and `B` finite, `"nobody"` is no process
  or attempt, and of `A` at most two elements where it is the processes of DataDirectory.

**Exceptions by name.** The theorems about Workflow and Execution need no hypothesis on the code: what breaks their
properties is a step of the model, recorded in a history variable that no guard reads.

* `overruled` (Workflow): the runs that a stale loop's hard pause strikes when the rows have no room for it, because the
  attempt is no longer what an active run is at, or the owner is asked something already. Only what is said of the
  pipeline as a whole (`Lifecycle`, `OpenQuestionIsCurrent`, `OwnerHasAWay`, that the verified tree is the last
  implementation's, that the next review has a round left) ends there. `HistoryIsKept` exempts the attempts and the
  run of that pipeline and nothing else: questions and dispatches are kept even then. That reports are bounded, that
  what is accepted has evidence of its tree and that a spent budget stops work holds without exception.
* `unfenced` (Execution): the pipelines of attempts that a revoked loop's hard pause strikes while a later claim stands,
  or after the attempt is over (MCExecutionCancelled); and of turns outside the workspace (ACCEPTANCE) whose process
  recovery cannot prove gone, so that their session stays without a lease to fence what follows. A pause of a revoked
  loop that finds its attempt queued or paused, with no claim, breaks nothing and is not counted. The checked properties exempt
  these pipelines only; `DrivenChildIsFenced`, `LeaseIsOwned` and `ClaimHasCause` exempt none. The theorems say less:
  they speak of a WorkItem none of whose pipelines was unfenced so far. A turn of an unfenced pipeline whose loop died
  keeps the lease until a restart or a cancel.

| Module | Theorems | The inductive invariant and why it is needed |
| --- | --- | --- |
| WorkflowProofs | TypeCorrect, LifecycleCorrect, RowsCorrect, QuestionsAreCurrent, KeptCorrect, BudgetStopsWork, RoundsAreBounded, AcceptedIsVerified, HistoryStays | `Lifecycle` is inductive only with the current attempt of each run belonging to that run: a pending dispatch can be trusted because statuses agree, and statuses agree because no second run writes the same WorkItem. `RowsInv` adds for each run that attempts are numbered without gaps, an open question belongs to its current attempt, the budget is spent only where it stands still, rounds are counted by its review reports, and its evidence is of the tree of the last implementation. Both hold until a run is overruled. `KeptInv` is what stands whatever a stale loop does: DONE was accepted, a run has a current attempt of its own, its budget and rounds fit, its package has its reports. The lemmas say what a step that stops, continues or ends a run has to establish, and each action is shown to be of one of these kinds |
| ExecutionProofs | ExecutionType, ExecutionInvariant, OneTurnAtATime, LeaseIsWithTheTurn, ClaimsAreWorked, ChildrenAreFenced, NoTurnWithoutDispatch | `EInv`: a pending dispatch is its attempt's, an AgentRun is of the attempt that runs, the lease is with whoever has an AgentRun or a session, a loop at an await knows what the claims still say or has been revoked, each driven child has its session, and a cancel request covers what it will end; `Waits`: whoever follows a turn or a lease in the workspace needs the lease too. Each protects another: the AgentRun is safe to free because the session is fenced, the session because the lease is, the lease because the loop that holds it was revoked |
| PartsProofs: Scheduler | TypeCorrect, LimitsKept, ConflictFree, PlanCorrect | the counters count what is active or selected (`Counted`) and the loop's order is kept (`InOrder`); then the eight tests of the loop decide eligibility and room (`BlocksDecides`), which is where the greedy plan comes from |
| PartsProofs | DispatchedOnce, CalledOnce, SessionsHand, EvidenceInForce, WorkOrdered, PublishedWhole, OwnerSees | the properties of MCParts, for all `A`, `B`, `C`. `part` stays, so a behaviour of MCParts is a behaviour of the one module its part names (`...Runs`); that module is the instance the theorems are about (`...Same`); what is proved of the module holds of the part (`...Holds`), and what holds of each part holds of all |
| WorkerPumpProofs | TypeCorrect, PoolCorrect, PassCorrect, IdleCorrect, TasksFollowed, NothingIsLeftBehind | `IInv`: `cycle` counts at least what was handed over, and a pump at rest has no tasks; `SelectedAtMost` bounds a selection by an injection of it into the free places. `RestInv` for the last one: every claim has its task, a pass that was cut short is marked, and whatever could start has been tried since the last task that moved |
| VerificationProofs | VerificationInvariant, VerificationType, TreeGone, StartsReserved, RunEndsOnce, DirectoryIsExclusive | `VInv`: which of daemon, call, cancel and recovery is in charge of the one supervisor (`Roles`), and what each of their steps may know of the process tree (`Gone`). The last theorem is the refinement of Authority, step by step |
| CorrectionsProofs | CorrectionsInvariant, CorrectionsType, BudgetIsShared, NoCorrectionIsLeft, OnlyVerifiedIsDelivered, EndedStaysEnded | `CInv`: runs and the correction they are for agree, a correction with a passing run is closed, QA runs or was passed over as its stage says, and each stage has the corrections open that it works for; and a daemon goes down only over runs it has |
| ProjectProofs: Deployment | DeploymentInvariant, DispatchIsOnce, SucceededRan, Concluded | `DInv`: a deployment that was not started is untried, the runner works only on a row that nobody else writes meanwhile, a live CLI process has no remote run yet and there is never a second run, an answer that waits is about the run of its row. `DispatchIsOnce` is the refinement of AtMostOnce: each step either moves the claim of one deployment forward (`Moves`) or is GitHub accepting a dispatch that is claimed or given up on |
| WorkItems | BoardCorrect, NothingWaits, DeliveredStays, OffersHold | `BoardInv`: an item whose run is active is open. `HasCycle` is a recursive search; that it finds every circle is proved by taking the least counterexample |
| DemoProject | DemoInvariant, FoundWhole, TaskIsOne, WorkStays | `DemoInv`: builds have staging directories of their own, the only task there ever was is the receipt's |
| LaunchMeasurement, LaunchRelease | MeasurementInvariant, LiveIsHeld, CancelledIsNot; ReleaseInvariant, DeployableIsEvidenced | `MeasInv`: one run is active, and its row, task, service and record agree. `ReleaseInv`: what a release copied of its evidence is older or what that evidence still is |
| BrowserQA, Acceptance, Readiness | QAInvariant, EvidenceKept; AcceptInvariant, AcceptanceHolds, AnswersAreKept; ReadyInvariant, ReadyAnswered, AnswersAreSeen | `QAInv`: where the files of a run may be at each step of its runner. `AcceptInv`: the stages before left evidence of the cycle the run is in, a session was shown what a search finds now. `ReadyInv`: what a tab saw of a version is what the run has while it has that version |
| Publication, Scaffold | PublicationInvariant, PublicationHolds; ScaffoldInvariant, CompletedStaysWhole, OthersStayKept | `PublicationInv`: the texts on disk are the history's, and of the serialised drains one works. `ScaffoldInv`: a publisher that works has its pending operation, and has so far made it whole |
| Allowance, OwnerSession | AllowanceInvariant, ReadStaysShared, AllowanceSteps; OwnerInvariant, OwnerIsKept | `AllowanceInv`: a read that somebody waits for was begun, one whose child is gone has its result. `OwnerInv`: the session is no older than its last use and half a life |
| SessionProofs: ToolCalls | ToolCallsInvariant, CallIsOnce, CallsStay, TreesAreOnRecord, StartsAreGranted | `TInv`, per call: a call that is handled is STARTED, its handler is right about the effect, its answer agrees with the effect, a tree is there only for a started recipe and gone before a start releases it, and a handler lives in a daemon that is up and a lease that is not drained. `Records` says what a step may do to rows and effects, and each of its cases is a step of AtMostOnce |
| Workspace | SpaceInvariant, WriterIsAlone, LeasesAreWorked, WorkIsKept | `SpaceInv`: whoever works on an attempt found it started, at most one loop cuts an item's directory, and row, lease and disk agree on what it has cut |
| SessionLoop, ProviderProcess | SessionLoopInvariant, SessionsAnswer; ProcessInvariant, ProcessCorrect | `LoopInv`: the sessions that published nothing are on the attempt's counter or its handoff. `ProcInv`: each line is in the pipe or heard, once, and an abort that resolved left no child |
| McpServers, McpProfiles, AgentPolicy | ServersInvariant, LiveIsRecorded, StrangersLive; ProfileInvariant, CapabilityIsHeld, ProfileSteps; PolicyInvariant, PolicyIsKept | `ServersInv`: a live tree is on record or excused. `ProfileInv`: what a tab shows was the latest at the version it shows. `PolicyInv`: run and session use no more than their attempt pinned |
| DataDirectory, LogFiles | DataInvariant, DirectoryIsSafe; LogInvariant, LogIsBounded | `DataInv`: who reads, reclaims or holds the lock, with the names it has seen in it, of two processes. `LogInv`: segments that are held fit in what a segment yet to be filled spares, at each step of the clean-up |
| ActivityRecorder, ActivityFeed, LiveView | RecorderInvariant, LostReportsAreSaid; FeedInvariant, FeedIsReadWhole; ViewInvariant, StaleGetsRefreshed | `RecorderInv`: the actions that miss a report are at most the rows counted as omitted. `FeedInv`: up to its cursor the client has what it began with and what is left. `ViewInv`: an old answer under way has a timer, a signal or a catch-up behind it |

Definitions of invariants and lemmas stand before the theorems in each module; the shape is the same everywhere: a
small relation says what a kind of step keeps, one lemma per relation shows that it keeps the invariant, and one lemma
per action shows which relation it satisfies.

**Only model-checked**, and why:

* Liveness is out of the prover's reach: `PausedBecomesResumable`, `LeaseComesBack`, `PumpAnswers`, `CancelSettles`.
* `OwnerHasAWay` says that what the page offers is accepted, with ENABLED.
* `TypesOK` of MCParts joins the types of its parts. The types of each module are a part of its invariant, where they
  are proved; in the joint form, and with the bounds of the model, they are checked only.

## 5. What the code does not keep

### Refuted by a run

1. **A stale loop hard-pauses a cancelled pipeline** (MCExecutionCancelled): a loop that assembles its context pack
   when the owner cancels finds the floor exceeded and executes HARD_PAUSE_STAGE_ATTEMPT before it looks at its
   revocation (`session-loop.ts:1470`), against the comment at `workflow.ts:310`. What that does to the rows of other
   attempts and runs is `StaleHardPause` in Workflow; what it does to claims is counted in `unfenced`.
2. **A daemon that goes down during a verification run cannot always start** (MCCorrectionsStartup):
   RECONCILE_WORKFLOWS throws on a fix that left the tree as it was, was replanned or paused, on every start.
3. **A cancel ends the provider session while a call of it has not returned** (MCToolCallsCancel), against ADR 0025.

### Stated in a module, violated in the code, with no run of their own

* `RetainedIsDeleted` (BrowserQA): files of a directory that recovery moved to `.quarantine/orphaned` are recorded as
  deleted and stay (`browser-qa` answers ALREADY_ABSENT; plan 47:87).
* `MeasuredUnderVerification` (LaunchRelease): a release may rest on a measurement whose service was started by the
  recipes of an older verification plan (`launch-release.ts:259-284`; ADR 0027:60). Freshness of a deployment's release
  is checked at the preview only.
* `CancelInterrupts` (LaunchMeasurement): a cancel that races the service's exit or a health check is recorded as ERROR.
* `ChangedIsTrue` (Publication): drains of verification plans are not serialised (`server.ts:1244`, against the comment
  at 1150), look at the target twice, and report TARGET_CHANGED of a file that is right.
* `DeliveryCanBeCancelled` (Corrections): the cancel of a nested correction is refused (`P`:12384-12439, against
  `domain/test/verification-correction.test.ts:1573`). `CorrectionIsReverified`: a manual run lets QA run for a
  correction that no run has passed (`project-verification-gate.ts:175`, plan 79:183). The properties that are checked
  and proved name this exception.
* `ShownIsBound` (Acceptance) excepts a delivery whose criteria are none or repeated, which the API accepts and
  READY_FOR_ACCEPTANCE then refuses for ever; and one with an earlier Review of the same tree under the same QA
  correction: `decideApplyProviderOutcome` (`workflow.ts:1196-1204`) takes the first REVIEW artifact where
  `acceptanceEvidenceArtifacts` (`P`:5514) compares the correction, and the stage is hard-paused again and again.
* `IdleMeansNoTasks` (WorkerPump): a pass that throws settles `whenIdle()` with its tasks running
  (`session-worker.ts:393`; plan 09:152). `NothingLeftBehind` with orphans: a cancel that frees an AgentRun its loop left
  behind wakes nobody (`server.ts:4766`), and a dispatch that was deferred for it stays.

### Execution, pump and session

* A cancel after an inconclusive recovery leaves the lease with the cancelled attempt (`P`:7378; OVERVIEW.md:219). A
  session no loop holds is ended without a confirmed exit (`server.ts:4736`), although `session-worker.ts:431` says
  otherwise. `P`:12748 says that a session without a recorded pid never had a process; the child is spawned before the
  pid is recorded (`session-loop.ts:1960`).
* A dispatch queued while a session runs waits for a task to settle although a slot is free (`session-worker.ts:349`;
  README.md:135, plan 43:198). DISPATCH_CYCLE_LIMIT may be exceeded by the global limit less one.
* The RUNNING branch of `executeDispatch` (`session-worker.ts`, about 205) is unreachable: a re-dispatch is deferred as
  ATTEMPT_ACTIVE, and an attempt whose loop threw waits for the next start.
* `workflow.ts:310` lists INTERRUPTED among the final statuses; Resume queues it again (`workflow.ts:2450`).
* A HARD_PAUSE for an exceeded floor moves SOFT_PAUSED, superseded and finished attempts too, and an ended run
  (`StaleHardPause`, `AssembleContext`). A result that crosses only its own AgentRun's cap
  hard-pauses the next stage although the pipeline has budget left.
* Checkpoints and drafts after the handoff deadline are dropped while the session ends CONTEXT_EXHAUSTED; a checkpoint
  whose write fails in a session that returned a result is lost (`session-loop.ts:2274` says nothing is). The wording of
  NO_PROGRESS (`session.ts`, about 180) can be false.
* `runProcess` rejects as ProcessSpawnError with the child alive when a kill fails; a grandchild that holds the pipe is
  waited for two seconds.

### Verification and corrections

* The tree may outlive the release of the directory where a stop is recorded under another name
  (`project-readiness/src/runner.ts:404`, `verification-runner.ts:184`; plan 80:110), where a runner's `stop()` interrupts
  leftovers with `processStopped: true`, or where recovery trusts a supervisor's exit on a READY snapshot:
  `TreeGoneUnlessMasked` names both masks.
* A passing rerun that arrives in some states is refused; a failing revalidation of a PASSED correction throws; a
  materialization after a QA correction is refused as stale; a failure recorded while paused leaves the gate BLOCKED;
  a gate whose manual run is cancelled cannot be resolved.

### Workspace, tools and profiles

* A start while a verification run holds the workspaces fails: marking an orphan changes no row, which is rethrown
  (`P` about 12979-13013), against "FAIL SAFE ALL THE WAY OUT" (about 12940). An ORPHANED workspace makes START_AGENT_RUN
  throw WORKSPACE_NOT_READY (`P`:10925), which is logged only: the stage stays QUEUED. START_AGENT_RUN takes the lease for
  every stage in a recorded shared workspace (`P`:10920, against `session-loop.ts:873`). A crash between
  `git worktree add` and the row leaves a branch and a path that later attempts are refused for.
* The executor's compare and swap does not exclude a second writer between look and rename (`workspace-executor`, about
  585, 688, 744; ADR 0014:83). AUDIT_UNAVAILABLE after the effect is recorded as FAILED (`runtime.ts:247`).
* The MCP supervisor removes its record even when the tree outlived both stops (`supervisor.ts:99-113`), recovery when
  only the leader is gone (`process-registry` 156-164); a `listTools` that fails after `connect` leaves the client.
* A lost answer to a confirm leads to MCP_PROPOSAL_CONSUMED; a running session's grant of an older revision cannot be
  revoked from the page; several null proposals make several profiles; more than 64 granted profiles make every start
  refused; opening a gateway deletes the revoked mark (`runtime.ts:513`).

### Files, logs, activity

* Publication and Scaffold: a crash at the wrong moment leaves MARKER_MISMATCH or FILE_CONFLICT for ever (ADR 0007).
* Three processes that reclaim a stale lock together can both get it (plan 59:37; two cannot); a reused pid or a crash
  between the lock's creation and its content lock everybody out; a partial last line makes the log's export fail.
* What was reported after a session's finish and before a crash is lost without a sign (`P`:12660). A page whose
  cursor's millisecond has three rows of one source may skip one. No signal invalidates the Insights query.

### Owner's pages, demo, acceptance, allowance

* The event stream renews a session whose cookie is never sent again (`server.ts:5173`): it expires after 12 h, against
  ADR 0003:45. Sessions are in memory and do not survive a restart (ADR 0003:51). A lost exchange leaves no session.
* Demo: a directory without `.git` cannot be repaired (`server.ts:2403`); a deleted demo with workspaces is rebuilt
  before it is refused; after its task is cancelled the page replays the old receipt; a retry of initialization gets
  PROJECT_ALREADY_REGISTERED. Other commands of the page use a new id at each attempt, so receipts do not protect them.
* Acceptance: criteria may be edited after acceptance and the package can then never be exported (plan 51, Q3-D4); a
  delivery with more than 1000 events never exports; the export's retry can never differ.
* Allowance: a refresh that times out writes UNAVAILABLE over a LIVE row (plan 77:88), a joined read may be dropped as
  STALE, a grandchild that holds the pipe keeps the promise open. Readiness: the git commands of a scan are not one
  reading; more than 128 findings throw; of two scans the older may be recorded last.
* Board: a child can be added under a parent whose pipeline is blocked (`domain/src/index.ts`, about 134; ADR 0019); a
  move by hand ignores blockers; the dependency panel sends an old selection with the current version
  (`WorkbenchPage.tsx:2732-2850`); a WorkItem that ever ran is not offered a start again (`WorkbenchPage.tsx:2996`;
  USER-GUIDE.md:163); Resume is offered while the provider's turn is still ending, and refused.

## 6. Not modelled

Contracts and the plugin SDK (schemas without transitions); parsing of CLI output, model names and prompts; how a
context pack is assembled and trimmed; Playwright's measurements; git itself; argument parsing; layout, settings and
the landing page; events and audit rows as such (a property about them is stated on what they record); the wire format
of signals; migrations' SQL. Queries that only read are left out, except where their answer is used after an await.
The failure of the constitution's store at COMPLETE, an unreadable artifact marker, path containment and redaction of
tool output are left out too. Components and reasons are in `PROJECT.json`.

## 7. Plan

1. **WorkerPump with Execution**, so that a task's gate, claim and orphan come from the loops themselves.
2. **The two excused cases**: what DataDirectory promises to more than two processes, and
   ActivityRecorder to a daemon that dies after a finish, need a change of the code first.
