----------------------------- MODULE Execution -----------------------------
\* Who may act for a StageAttempt of one WorkItem: the daemon's executions
\* (apps/daemon/src/session-worker.ts and session-loop.ts), the durable
\* claims that fence them (AgentRun, ProviderSession, workspace lease) and
\* the child processes they drive, under pause, cancel, crash and restart.
\*
\* JavaScript runs to completion between two awaits, so a step here is the
\* code from one await to the next; every command is one SQLite transaction
\* inside such a step.  What the decisions do to the rows of the workflow
\* is module Workflow; here an attempt keeps the status the claims look at.
EXTENDS Naturals, FiniteSets

CONSTANTS
    InWorkspace,    \* the attempts whose stage runs in the workspace (all but ACCEPTANCE)
    StopsProven,    \* every abortSession resolves, no tool process is left uncertain, and recovery
                    \* can tell whether a recorded process is gone
    MaxAttempts,    \* bounds on the rows a behaviour may insert and on its crashes
    MaxDispatches,
    MaxSessions,
    MaxCrashes

AttemptId  == 1 .. MaxAttempts
DispatchId == 1 .. MaxDispatches
SessionId  == 1 .. MaxSessions

ASSUME BoundAssumption ==
    /\ MaxAttempts \in Nat /\ MaxDispatches \in Nat /\ MaxSessions \in Nat /\ MaxCrashes \in Nat
ASSUME StageAssumption == InWorkspace \subseteq AttemptId /\ StopsProven \in BOOLEAN

\* HARD_PAUSED stands for WAITING_HUMAN too: both wait for the owner to queue the attempt again.
Active        == {"QUEUED", "RUNNING", "SOFT_PAUSED", "HARD_PAUSED", "INTERRUPTED"}
AttemptStatus == Active \cup {"NONE", "SUCCEEDED", "CANCELLED"}
Terminal      == {"SUCCEEDED", "CANCELLED", "INTERRUPTED"}

VARIABLES
    attempt,    \* StageAttempt.status
    pipeline,   \* StageAttempt.pipelineRunId: the first attempt of the run it belongs to
    dispatch,   \* WorkflowDispatch rows
    agentRun,   \* the attempts with a RUNNING AgentRun
    session,    \* ProviderSession rows; pid says that a process id is recorded
    workspace,  \* the WorkItem's workspace and its lease holder
    exec,       \* activeExecutions: the loop that runs each dispatch, if one does
    cancel,     \* the cancel request that is waiting for children to stop
    child,      \* sessions whose child process (or a tool process of it) is alive
    daemon,     \* whether the daemon is up
    crashes,    \* how often it died
    unfenced    \* history, which no guard reads: pipelines a revoked loop paused against the rows, or
                \* with a turn outside the workspace that recovery could not prove gone

vars == <<attempt, pipeline, dispatch, agentRun, session, workspace, exec, cancel, child, daemon,
          crashes, unfenced>>
rows == <<attempt, dispatch, agentRun, session, workspace>>
lineage == <<pipeline, unfenced>>

NoExec   == [pc |-> "IDLE", revoked |-> FALSE, sid |-> 0, leased |-> FALSE]
NoCancel == [attempt |-> 0, sessions |-> {}, stops |-> {}, waiting |-> {}]

\* Where a loop awaits: git creating or checking the worktree, the context pack, the adapter before
\* it spawns, the provider's turn, the stop of a turn past its deadline, git reading the result.
Await == {"CREATING", "CHECKING", "CONTEXT", "STARTING", "LIVE", "STOPPING", "MEASURING"}

DispatchRow  == [attempt : AttemptId \cup {0}, status : {"NONE", "PENDING", "COMPLETED", "FAILED"}]
SessionRow   == [attempt : AttemptId \cup {0}, status : {"NONE", "RUNNING", "ENDED"}, pid : BOOLEAN]
WorkspaceRow == [status : {"ABSENT", "READY", "ORPHANED"}, holder : AttemptId \cup {0}]
ExecRow      == [pc : Await \cup {"IDLE"}, revoked : BOOLEAN, sid : SessionId \cup {0}, leased : BOOLEAN]
CancelRow    == [attempt : AttemptId \cup {0}, sessions : SUBSET SessionId,
                 stops : SUBSET SessionId, waiting : SUBSET SessionId]

\* Every row and every record of the worker has its declared shape.
TypeOK ==
    /\ attempt \in [AttemptId -> AttemptStatus]
    /\ pipeline \in [AttemptId -> AttemptId \cup {0}]
    /\ dispatch \in [DispatchId -> DispatchRow]
    /\ agentRun \subseteq AttemptId
    /\ session \in [SessionId -> SessionRow]
    /\ workspace \in WorkspaceRow
    /\ exec \in [DispatchId -> ExecRow]
    /\ cancel \in CancelRow
    /\ child \subseteq SessionId
    /\ daemon \in {"UP", "DOWN"}
    /\ crashes \in 0 .. MaxCrashes
    /\ unfenced \subseteq AttemptId \cup {0}

----
(* Reading *)

Next1(unused) == {i \in unused : \A j \in unused : i <= j}
NextAttempt   == Next1({a \in AttemptId : attempt[a] = "NONE"})
NextDispatch  == Next1({d \in DispatchId : dispatch[d].status = "NONE"})
NextSession   == Next1({s \in SessionId : session[s].status = "NONE"})

\* The stage a pipeline is at, and the attempts of one pipeline.
Current(a)  == attempt[a] # "NONE" /\ \A b \in AttemptId : b > a => pipeline[b] # pipeline[a]
Siblings(a) == {b \in AttemptId : pipeline[b] = pipeline[a]}

AttemptOf(d) == dispatch[d].attempt
Pending(a)   == {d \in DispatchId : dispatch[d] = [attempt |-> a, status |-> "PENDING"]}
Turns(a)     == {s \in SessionId : session[s].attempt = a /\ session[s].status = "RUNNING"}
Executing    == {d \in DispatchId : exec[d].pc # "IDLE"}
LiveSessions == {exec[d].sid : d \in Executing} \ {0}

----
(* Writing *)

Queue(a, d)  == [dispatch EXCEPT ![d] = [attempt |-> a, status |-> "PENDING"]]
\* Mutant: a withdrawn dispatch takes the status of its attempt.
Withdrawn_Cancelled(a) ==
    [d \in DispatchId |->
        IF d \in Pending(a) THEN [dispatch[d] EXCEPT !.status = "CANCELLED"] ELSE dispatch[d]]
Withdrawn(a) == [d \in DispatchId |->
                    IF d \in Pending(a) THEN [dispatch[d] EXCEPT !.status = "FAILED"] ELSE dispatch[d]]
Ended(ss)    == [s \in SessionId |->
                    IF s \in ss THEN [session[s] EXCEPT !.status = "ENDED"] ELSE session[s]]

Released(ws, a) == IF ws.holder = a THEN [ws EXCEPT !.holder = 0] ELSE ws

\* Mutant: the AgentRun ends and keeps its lease.
FinishAgentRun_KeepsLease(a, ws) == ws
\* finishActiveAgentRun: ends the AgentRun and gives back the lease it holds.
FinishAgentRun(a, ws) == IF a \in agentRun THEN Released(ws, a) ELSE ws

\* runStageAttempt's finally: a loop that was not revoked gives the lease back.
Leave(d, ws) ==
    /\ exec' = [exec EXCEPT ![d] = NoExec]
    /\ workspace' = IF exec[d].leased /\ ~exec[d].revoked THEN Released(ws, AttemptOf(d)) ELSE ws

RevokedExecs(ds) ==
    [d \in DispatchId |-> IF d \in ds THEN [exec[d] EXCEPT !.revoked = TRUE] ELSE exec[d]]

----
(* The execution of a dispatch *)

FirstAwait(a) == IF a \notin InWorkspace THEN "CONTEXT"
                 ELSE IF workspace.status = "READY" THEN "CHECKING" ELSE "CREATING"

\* executeDispatch up to its first await.  The planner defers an attempt that has an AgentRun, so
\* the attempt is QUEUED and START_AGENT_RUN claims it: one AgentRun per WorkItem, and with it the
\* lease of the workspace when there is one.  A session of the attempt that is still RUNNING
\* belongs to another caller, and the loop stops at once.
Execute(d) ==
    LET a == AttemptOf(d) IN
    /\ daemon = "UP" /\ exec[d].pc = "IDLE"
    /\ dispatch[d].status = "PENDING" /\ attempt[a] = "QUEUED" /\ agentRun = {}
    /\ a \in InWorkspace /\ workspace.status # "ABSENT" =>
          workspace.status = "READY" /\ workspace.holder = 0
    /\ attempt' = [attempt EXCEPT ![a] = "RUNNING"]
    /\ agentRun' = agentRun \cup {a}
    /\ workspace' = IF a \in InWorkspace /\ workspace.status = "READY"
                    THEN [workspace EXCEPT !.holder = a] ELSE workspace
    /\ exec' = IF Turns(a) # {} THEN exec
               ELSE [exec EXCEPT ![d] = [NoExec EXCEPT !.pc = FirstAwait(a)]]
    /\ UNCHANGED <<dispatch, session, cancel, child, daemon, crashes, lineage>>

\* refuseDispatch: the loop asks the owner instead of opening a session.  APPLY_PROVIDER_OUTCOME
\* refuses a dispatch that is no longer pending, and the loop dies of the refusal.
RefuseDispatch(d) ==
    LET a == AttemptOf(d) IN
    IF attempt[a] = "RUNNING" /\ dispatch[d].status = "PENDING"
    THEN /\ attempt' = [attempt EXCEPT ![a] = "HARD_PAUSED"]
         /\ dispatch' = [dispatch EXCEPT ![d] = [@ EXCEPT !.status = "COMPLETED"]]
         /\ agentRun' = agentRun \ {a}
         /\ Leave(d, FinishAgentRun(a, workspace))
         /\ UNCHANGED session
    ELSE Leave(d, workspace) /\ UNCHANGED <<attempt, dispatch, agentRun, session>>

\* The loop holds the workspace row it leaves prepareWorkspace with; a turn that already runs on
\* the attempt belongs to another caller.
Prepared(d, ws) ==
    IF Turns(AttemptOf(d)) = {}
    THEN /\ exec' = [exec EXCEPT ![d] = [@ EXCEPT !.leased = TRUE, !.pc = "CONTEXT"]]
         /\ workspace' = ws
    ELSE /\ exec' = [exec EXCEPT ![d] = NoExec]
         /\ workspace' = IF exec[d].revoked THEN ws ELSE Released(ws, AttemptOf(d))

\* The worktree of a recorded workspace is checked.  START_AGENT_RUN took the lease, and the row
\* read before the await says so, whoever holds it now.
CheckWorkspace(d) ==
    /\ exec[d].pc = "CHECKING"
    /\ UNCHANGED <<cancel, child, daemon, crashes, lineage>>
    /\ \/ RefuseDispatch(d)
       \/ Prepared(d, workspace) /\ UNCHANGED <<attempt, dispatch, agentRun, session>>

\* Mutant: the lease is taken without a look at the revocation or the attempt.
MayLease_Always(d) == TRUE
\* acquireWorkspaceLease and ACQUIRE_WORKSPACE_LEASE on a workspace nobody holds.
MayLease(d) == ~exec[d].revoked /\ attempt[AttemptOf(d)] \in {"QUEUED", "RUNNING"}

\* The worktree is created and recorded, which refuses a second one, and then leased.  A loop that
\* may not take the lease postpones its dispatch.
CreateWorkspace(d) ==
    LET created == [workspace EXCEPT !.status = "READY"] IN
    /\ exec[d].pc = "CREATING"
    /\ UNCHANGED <<cancel, child, daemon, crashes, lineage>>
    /\ \/ RefuseDispatch(d)
       \/ /\ workspace.status = "ABSENT"
          /\ IF MayLease(d) THEN Prepared(d, [created EXCEPT !.holder = AttemptOf(d)])
             ELSE Leave(d, created)
          /\ UNCHANGED <<attempt, dispatch, agentRun, session>>

\* HARD_PAUSE_STAGE_ATTEMPT: withdraws the dispatch and ends the AgentRun, whatever the attempt's
\* status is.
HardPause(d) ==
    LET a == AttemptOf(d) IN
    /\ attempt' = [attempt EXCEPT ![a] = "HARD_PAUSED"]
    /\ dispatch' = Withdrawn(a)
    /\ agentRun' = agentRun \ {a}
    /\ Leave(d, FinishAgentRun(a, workspace))

\* START_PROVIDER_SESSION refuses an attempt that is not running under an AgentRun, or that
\* already has a turn.
MayStartSession(a) == attempt[a] = "RUNNING" /\ a \in agentRun /\ Turns(a) = {}

OpenSession(d) ==
    LET a == AttemptOf(d) IN
    IF exec[d].revoked \/ ~MayStartSession(a)
    THEN Leave(d, workspace) /\ UNCHANGED session
    ELSE \E s \in NextSession :
            /\ session' = [session EXCEPT ![s] = [attempt |-> a, status |-> "RUNNING", pid |-> FALSE]]
            /\ exec' = [exec EXCEPT ![d] = [@ EXCEPT !.pc = "STARTING", !.sid = s]]
            /\ UNCHANGED workspace

\* A hard pause of a revoked loop that only follows the rows: the stage its pipeline is at waits,
\* and nobody works for it.
Standing(a) == Current(a) /\ attempt[a] \in {"QUEUED", "SOFT_PAUSED", "HARD_PAUSED"} /\ a \notin agentRun

\* The context pack is assembled: it cannot be built, its required sections do not fit, or the
\* session opens.  Only the last looks at the revocation; the hard pause of a loop that a pause or
\* a cancel overtook strikes the attempt as it is by then.
AssembleContext(d) ==
    /\ exec[d].pc = "CONTEXT"
    /\ UNCHANGED <<pipeline, cancel, child, daemon, crashes>>
    /\ \/ RefuseDispatch(d) /\ UNCHANGED unfenced
       \/ /\ HardPause(d) /\ UNCHANGED session
          /\ unfenced' = IF exec[d].revoked /\ ~Standing(AttemptOf(d))
                         THEN unfenced \cup {pipeline[AttemptOf(d)]} ELSE unfenced
       \/ OpenSession(d) /\ UNCHANGED <<attempt, dispatch, agentRun, unfenced>>

\* adapter.start: the signal is checked right before the spawn.  Recording the process id may
\* fail, and the turn goes on without it.
Spawn(d) ==
    LET s == exec[d].sid IN
    /\ exec[d].pc = "STARTING" /\ ~exec[d].revoked
    /\ child' = child \cup {s}
    /\ exec' = [exec EXCEPT ![d] = [@ EXCEPT !.pc = "LIVE"]]
    /\ \E recorded \in BOOLEAN : session' = [session EXCEPT ![s] = [@ EXCEPT !.pid = recorded]]
    /\ UNCHANGED <<attempt, dispatch, agentRun, workspace, cancel, daemon, crashes, lineage>>

\* A turn that ends without a stage result (a failed start, a handoff, a full context): its usage
\* is recorded and END_PROVIDER_SESSION ends it.  A running attempt takes another turn or is
\* hard-paused (no progress, no turns left, over budget); any other attempt loses its AgentRun.
\* Usage of an attempt that no dispatch backs is refused, and the loop dies with the turn RUNNING.
\* Mutant: ending the session of a paused attempt leaves its AgentRun.
EndTurn_KeepsClaim(d, s) ==
    /\ session' = Ended({s})
    /\ Leave(d, workspace)
    /\ UNCHANGED <<attempt, dispatch, agentRun>>
EndTurn(d, s) ==
    LET a == AttemptOf(d) IN
    \/ /\ attempt[a] = "RUNNING" /\ NextSession # {}
       /\ session' = Ended({s})
       /\ exec' = [exec EXCEPT ![d] = [@ EXCEPT !.pc = "CONTEXT", !.sid = 0]]
       /\ UNCHANGED <<attempt, dispatch, agentRun, workspace>>
    \/ /\ attempt[a] \in {"RUNNING", "SOFT_PAUSED"}
       /\ session' = Ended({s})
       /\ HardPause(d)
    \/ /\ attempt[a] # "RUNNING"
       /\ session' = Ended({s})
       /\ agentRun' = agentRun \ {a}
       /\ Leave(d, FinishAgentRun(a, workspace))
       /\ UNCHANGED <<attempt, dispatch>>
    \/ /\ attempt[a] \notin {"RUNNING", "SOFT_PAUSED"} /\ Pending(a) = {}
       /\ Leave(d, workspace)
       /\ UNCHANGED <<attempt, dispatch, agentRun, session>>

TurnEnds(d) ==
    /\ exec[d].pc \in {"STARTING", "LIVE"} /\ ~exec[d].revoked
    /\ child' = child \ {exec[d].sid}
    /\ EndTurn(d, exec[d].sid)
    /\ UNCHANGED <<cancel, daemon, crashes, lineage>>

\* The turn ends and nothing proves that a process of its tools did (PROCESS_AUTHORITY_UNCERTAIN):
\* the session stays RUNNING and keeps the lease.  Its usage may still stop the attempt.
TurnUncertain(d) ==
    LET a == AttemptOf(d) IN
    /\ ~StopsProven /\ exec[d].pc = "LIVE" /\ ~exec[d].revoked
    /\ exec' = [exec EXCEPT ![d] = NoExec]
    /\ \/ UNCHANGED <<attempt, dispatch>>
       \/ /\ attempt[a] \in {"RUNNING", "SOFT_PAUSED"}
          /\ attempt' = [attempt EXCEPT ![a] = "HARD_PAUSED"]
          /\ dispatch' = Withdrawn(a)
    /\ UNCHANGED <<agentRun, session, workspace, cancel, child, daemon, crashes, lineage>>

\* The turn outlives its handoff deadline, and the loop asks the adapter to stop it.
DeadlineReached(d) ==
    /\ exec[d].pc = "LIVE" /\ ~exec[d].revoked
    /\ exec' = [exec EXCEPT ![d] = [@ EXCEPT !.pc = "STOPPING"]]
    /\ UNCHANGED <<rows, cancel, child, daemon, crashes, lineage>>

\* The stop settles.  A stop that failed leaves the session RUNNING and the lease held.
DeadlineStop(d) ==
    LET s == exec[d].sid IN
    /\ exec[d].pc = "STOPPING"
    /\ UNCHANGED <<cancel, daemon, crashes, lineage>>
    /\ \/ /\ ~StopsProven
          /\ exec' = [exec EXCEPT ![d] = NoExec]
          /\ UNCHANGED <<rows, child>>
       \/ /\ child' = child \ {s}
          /\ IF exec[d].revoked
             THEN Leave(d, workspace) /\ UNCHANGED <<attempt, dispatch, agentRun, session>>
             ELSE EndTurn(d, s)

\* A turn that was revoked settles: the cancel request owns its end.
RevokedTurnSettles(d) ==
    /\ exec[d].pc \in {"STARTING", "LIVE"} /\ exec[d].revoked
    /\ child' = child \ {exec[d].sid}
    /\ Leave(d, workspace)
    /\ UNCHANGED <<attempt, dispatch, agentRun, session, cancel, daemon, crashes, lineage>>

\* The turn returns a stage result, and git measures the tree it left.
ResultReturned(d) ==
    /\ exec[d].pc = "LIVE" /\ ~exec[d].revoked
    /\ child' = child \ {exec[d].sid}
    /\ exec' = [exec EXCEPT ![d] = [@ EXCEPT !.pc = "MEASURING"]]
    /\ UNCHANGED <<rows, cancel, daemon, crashes, lineage>>

\* APPLY_PROVIDER_OUTCOME with sessionCompletion: the outcome and the end of the session are one
\* transaction.  The stage passes (and queues the next one), or it waits for the owner.
ApplyOutcome(d, a) ==
    /\ session' = Ended({exec[d].sid})
    /\ agentRun' = agentRun \ {a}
    /\ Leave(d, FinishAgentRun(a, workspace))
    /\ LET done == [dispatch EXCEPT ![d] = [@ EXCEPT !.status = "COMPLETED"]] IN
       \/ /\ \E status \in {"HARD_PAUSED", "SUCCEEDED"} : attempt' = [attempt EXCEPT ![a] = status]
          /\ dispatch' = done /\ UNCHANGED pipeline
       \/ \E n \in NextAttempt, e \in NextDispatch :
             /\ attempt' = [attempt EXCEPT ![a] = "SUCCEEDED", ![n] = "QUEUED"]
             /\ pipeline' = [pipeline EXCEPT ![n] = pipeline[a]]
             /\ dispatch' = [done EXCEPT ![e] = [attempt |-> n, status |-> "PENDING"]]

\* The tree is measured.  A revoked loop writes nothing; an attempt the owner paused meanwhile
\* closes its turn and drops the result; a dispatch that was withdrawn refuses it.
ResultMeasured(d) ==
    LET a == AttemptOf(d) IN
    /\ exec[d].pc = "MEASURING"
    /\ UNCHANGED <<cancel, child, daemon, crashes, unfenced>>
    /\ \/ /\ exec[d].revoked \/ (attempt[a] = "RUNNING" /\ dispatch[d].status # "PENDING")
          /\ Leave(d, workspace)
          /\ UNCHANGED <<attempt, pipeline, dispatch, agentRun, session>>
       \/ /\ ~exec[d].revoked /\ attempt[a] # "RUNNING"
          /\ EndTurn(d, exec[d].sid) /\ UNCHANGED pipeline
       \/ /\ ~exec[d].revoked /\ attempt[a] = "RUNNING" /\ dispatch[d].status = "PENDING"
          /\ ApplyOutcome(d, a)

----
(* The owner *)

\* Commands arrive while the daemon is up, for the stage a pipeline is at.
Commandable(a) == daemon = "UP" /\ Current(a)

\* A new pipeline, once no other is active; its first stage runs in the workspace.
StartPipeline ==
    /\ daemon = "UP"
    /\ \A a \in AttemptId : Current(a) => attempt[a] \notin Active
    /\ \E a \in NextAttempt \cap InWorkspace, d \in NextDispatch :
          /\ attempt' = [attempt EXCEPT ![a] = "QUEUED"]
          /\ pipeline' = [pipeline EXCEPT ![a] = a]
          /\ dispatch' = Queue(a, d)
    /\ UNCHANGED <<agentRun, session, workspace, exec, cancel, child, daemon, crashes, unfenced>>

\* Mutant: the AgentRun ends under its turn.
StopAgentRun_Always(a) == agentRun' = agentRun \ {a} /\ workspace' = FinishAgentRun(a, workspace)
\* PAUSE_PIPELINE and CANCEL_PIPELINE end the AgentRun, unless a turn still runs under it.
StopAgentRun(a) ==
    IF Turns(a) = {}
    THEN agentRun' = agentRun \ {a} /\ workspace' = FinishAgentRun(a, workspace)
    ELSE UNCHANGED <<agentRun, workspace>>

\* The loops of the attempt's pipeline.
Loops(a) == {d \in Executing : AttemptOf(d) \in Siblings(a)}

\* Mutant: pausePipeline forgets the loops that have not opened a session.
PreClaim_None(a) == {}
\* Those that have no session.
PreClaim(a) == {d \in Loops(a) : exec[d].sid = 0}

\* PAUSE_PIPELINE, then worker.pausePipeline: a turn may finish, a loop before its turn may not
\* start one.
PausePipeline(a) ==
    /\ Commandable(a) /\ attempt[a] \in {"QUEUED", "RUNNING"}
    /\ attempt' = [attempt EXCEPT ![a] = "SOFT_PAUSED"]
    /\ dispatch' = Withdrawn(a)
    /\ StopAgentRun(a)
    /\ exec' = RevokedExecs(PreClaim(a))
    /\ UNCHANGED <<session, cancel, child, daemon, crashes, lineage>>

\* RESUME_PIPELINE waits until the turn the pause left running has ended.
Resumable(a) ==
    /\ attempt[a] \in {"SOFT_PAUSED", "INTERRUPTED"}
    /\ a \notin agentRun /\ Turns(a) = {}

\* RESUME_PIPELINE; and the answer or the budget override that queues a waiting attempt again.
Requeue(a) ==
    /\ Commandable(a)
    /\ Resumable(a) \/ attempt[a] = "HARD_PAUSED"
    /\ \E d \in NextDispatch : dispatch' = Queue(a, d)
    /\ attempt' = [attempt EXCEPT ![a] = "QUEUED"]
    /\ UNCHANGED <<agentRun, session, workspace, exec, cancel, child, daemon, crashes, lineage>>

\* Up to the await of the cancel request: the RUNNING sessions of the attempt are read, every loop
\* of the pipeline is revoked and every turn among them is asked to stop.
Revoke(a) ==
    LET live == {exec[d].sid : d \in Loops(a)} \ {0} IN
    /\ exec' = RevokedExecs(Loops(a))
    /\ cancel' = [attempt |-> a, sessions |-> Turns(a), stops |-> live, waiting |-> live]

\* CANCEL_PIPELINE commits before any child is asked to stop.
CancelPipeline(a) ==
    /\ Commandable(a) /\ cancel = NoCancel /\ attempt[a] \in Active
    /\ attempt' = [attempt EXCEPT ![a] = "CANCELLED"]
    /\ dispatch' = Withdrawn(a)
    /\ StopAgentRun(a)
    /\ Revoke(a)
    /\ UNCHANGED <<session, child, daemon, crashes, lineage>>

\* The request is sent again with its command id: the commit is replayed, the rest is done anew.
RetryCancel(a) ==
    /\ Commandable(a) /\ cancel = NoCancel /\ attempt[a] = "CANCELLED"
    /\ Revoke(a)
    /\ UNCHANGED <<rows, child, daemon, crashes, lineage>>

\* An adapter reports that a child has exited; or it cannot stop it and the request fails.
StopConfirmed(s) ==
    /\ s \in cancel.waiting
    /\ child' = child \ {s}
    /\ cancel' = [cancel EXCEPT !.waiting = @ \ {s}]
    /\ UNCHANGED <<rows, exec, daemon, crashes, lineage>>

StopRejected ==
    /\ ~StopsProven /\ cancel.waiting # {}
    /\ cancel' = NoCancel
    /\ UNCHANGED <<rows, exec, child, daemon, crashes, lineage>>

Stopped == cancel.attempt # 0 /\ cancel.waiting = {}

\* After the await: refused when a session some loop still holds was not among the stops; else the
\* sessions that were read end as CANCELLED, and with them the AgentRun and its lease.
FinishCancel ==
    LET a == cancel.attempt IN
    /\ Stopped
    /\ cancel' = NoCancel
    /\ IF cancel.sessions \cap (LiveSessions \ cancel.stops) # {} \/ cancel.sessions = {}
       THEN UNCHANGED rows
       ELSE /\ session' = Ended(cancel.sessions)
            /\ agentRun' = agentRun \ {a}
            /\ workspace' = FinishAgentRun(a, workspace)
            /\ UNCHANGED <<attempt, dispatch>>
    /\ UNCHANGED <<exec, child, daemon, crashes, lineage>>

----
(* Processes *)

\* A child no loop drives any more exits on its own.
OrphanExits(s) ==
    /\ s \in child \ LiveSessions
    /\ child' = child \ {s}
    /\ UNCHANGED <<rows, exec, cancel, daemon, crashes, lineage>>

\* The daemon dies: its loops and requests are gone, its children may live on.
Crash ==
    /\ daemon = "UP" /\ crashes < MaxCrashes
    /\ daemon' = "DOWN" /\ crashes' = crashes + 1
    /\ exec' = [d \in DispatchId |-> NoExec] /\ cancel' = NoCancel
    /\ UNCHANGED <<rows, child, lineage>>

Orphaned  == {s \in SessionId : session[s].status = "RUNNING"}
Recorded  == {s \in Orphaned : session[s].pid}

\* Mutant: recovery ends a session although its process may be alive.
Kept_None(unproven) == {}
\* killOrphanedSessionProcess: a session whose process it could neither kill nor find gone stays.
Kept(unproven) == unproven

Interrupted == {a \in AttemptId : attempt[a] = "RUNNING" /\ Pending(a) # {}}

\* RECONCILE_WORKFLOWS at startup, one transaction: every AgentRun ends, every orphaned session
\* ends unless its process may be alive, running attempts are interrupted, and the lease is
\* given back once its holder has no session left and is not coming back for it; a worktree that
\* is gone from the disk orphans the workspace.
Restart ==
    /\ daemon = "DOWN" /\ daemon' = "UP"
    /\ \E unproven \in IF StopsProven THEN {{}} ELSE SUBSET Recorded, gone \in BOOLEAN :
          LET kept  == Kept(unproven)
              ended == Orphaned \ kept
              h     == workspace.holder
              free  == /\ h # 0 /\ \A s \in kept : session[s].attempt # h
                       /\ \/ \E s \in ended : session[s].attempt = h
                          \/ h \in agentRun \cup Interrupted
                          \/ attempt[h] \in Terminal
          IN  /\ session' = Ended(ended)
              /\ child' = child \ (Recorded \ unproven)
              /\ workspace' = IF gone /\ workspace.status = "READY"
                              THEN [status |-> "ORPHANED", holder |-> 0]
                              ELSE IF free THEN [workspace EXCEPT !.holder = 0] ELSE workspace
              /\ unfenced' = unfenced \cup {pipeline[session[s].attempt] :
                                s \in {t \in kept : session[t].attempt \notin InWorkspace}}
    /\ agentRun' = {}
    /\ attempt' = [a \in AttemptId |-> IF a \in Interrupted THEN "INTERRUPTED" ELSE attempt[a]]
    /\ dispatch' = [d \in DispatchId |->
                       IF \E a \in Interrupted : d \in Pending(a)
                       THEN [dispatch[d] EXCEPT !.status = "FAILED"] ELSE dispatch[d]]
    /\ UNCHANGED <<pipeline, exec, cancel, crashes>>

----
Init ==
    /\ attempt = [a \in AttemptId |-> "NONE"]
    /\ pipeline = [a \in AttemptId |-> 0]
    /\ dispatch = [d \in DispatchId |-> [attempt |-> 0, status |-> "NONE"]]
    /\ agentRun = {}
    /\ session = [s \in SessionId |-> [attempt |-> 0, status |-> "NONE", pid |-> FALSE]]
    /\ workspace = [status |-> "ABSENT", holder |-> 0]
    /\ exec = [d \in DispatchId |-> NoExec]
    /\ cancel = NoCancel
    /\ child = {}
    /\ daemon = "UP"
    /\ crashes = 0
    /\ unfenced = {}

\* The loop of one dispatch, from await to await.
Loop(d) ==
    \/ CheckWorkspace(d) \/ CreateWorkspace(d) \/ AssembleContext(d) \/ Spawn(d)
    \/ TurnEnds(d) \/ TurnUncertain(d) \/ DeadlineReached(d) \/ DeadlineStop(d)
    \/ RevokedTurnSettles(d) \/ ResultReturned(d) \/ ResultMeasured(d)

CancelRequest == StopRejected \/ FinishCancel \/ \E s \in SessionId : StopConfirmed(s)

Owner(a) == PausePipeline(a) \/ Requeue(a) \/ CancelPipeline(a) \/ RetryCancel(a)

Next ==
    \/ \E d \in DispatchId : Execute(d) \/ Loop(d)
    \/ CancelRequest
    \/ StartPipeline
    \/ \E a \in AttemptId : Owner(a)
    \/ \E s \in SessionId : OrphanExits(s)
    \/ Crash
    \/ Restart

Spec == Init /\ [][Next]_vars

\* What the daemon owes whoever waits for it: a loop's awaits settle (git and runProcess have
\* deadlines), and so do the stops a cancel request waits for.  Nothing is owed by the owner.
FairSpec ==
    /\ Spec
    /\ \A d \in DispatchId : WF_vars(Loop(d))
    /\ WF_vars(CancelRequest)

----
(* Safety.  An unfenced pipeline is excused by name: the pause of a revoked loop ends the AgentRun *)
(* and gives back the lease under a later turn of its attempt, and no lease keeps others from *)
(* starting beside a turn outside the workspace. *)

Unfenced(a) == pipeline[a] \in unfenced

\* One turn at a time runs for the WorkItem, across pause, resume, cancel, a new pipeline and
\* restarts: what the AgentRun claim of START_AGENT_RUN and START_PROVIDER_SESSION are for.  Two run
\* only when one is of an unfenced pipeline.
OneTurn == \A s, t \in SessionId :
              session[s].status = "RUNNING" /\ session[t].status = "RUNNING"
                  => s = t \/ Unfenced(session[s].attempt) \/ Unfenced(session[t].attempt)

\* A loop drives a child only under a session that is RUNNING: nothing ends the turn, and frees
\* what fences it, while its loop can still be heard.
DrivenChildIsFenced ==
    \A s \in child \cap LiveSessions : session[s].status = "RUNNING"

\* A loop whose child is alive in the workspace holds the workspace's lease, revoked or not.
DriverHoldsLease ==
    \A d \in Executing :
        exec[d].sid \in child /\ AttemptOf(d) \in InWorkspace /\ ~Unfenced(AttemptOf(d)) =>
            workspace.holder = AttemptOf(d)

\* No attempt holds the lease while the fenced turn of another one runs.
LeaseIsNeverForeign ==
    \A s \in SessionId :
        session[s].status = "RUNNING" /\ ~Unfenced(session[s].attempt) =>
            workspace.holder \in {0, session[s].attempt}

\* A held lease has somebody left who gives it back: an AgentRun or a turn of its holder.  The
\* exception, a cancelled attempt that survived a crash, is CancelReturnsLease below.
LeaseIsOwned ==
    daemon = "UP" /\ workspace.holder # 0 =>
        \/ workspace.holder \in agentRun \/ Turns(workspace.holder) # {}
        \/ crashes > 0 /\ attempt[workspace.holder] = "CANCELLED"

\* The AgentRun of an attempt that stopped running outlives it only as long as its turn does: an
\* AgentRun that nobody will end keeps the WorkItem from ever running again.
ClaimHasCause ==
    daemon = "UP" => \A a \in agentRun : attempt[a] = "RUNNING" \/ Turns(a) # {}

\* The workspace's lease is where the turn is: with the attempt whose child runs, and with nobody
\* who will not give it back.
LeaseFollowsTurn == DriverHoldsLease /\ LeaseIsNeverForeign /\ LeaseIsOwned

\* A running attempt has its claim, and is driven by a loop that may still act or by a turn.
RunningIsDriven ==
    daemon = "UP" => \A a \in AttemptId : attempt[a] = "RUNNING" /\ ~Unfenced(a) =>
        /\ a \in agentRun
        /\ Turns(a) # {} \/ \E d \in Pending(a) \cap Executing : ~exec[d].revoked

\* A claim is worked for as long as it is held, and a running attempt holds one.
ClaimIsWorked == RunningIsDriven /\ ClaimHasCause

\* A child whose process id is known loses its fence only by the owner's cancellation: neither a
\* pause nor recovery ends the session of a process nobody proved gone.  (Recovery does end one whose
\* pid was never recorded, and a cancel one that no loop holds.)
OnlyCancelUnfences ==
    \A s \in child : session[s].pid /\ session[s].status # "RUNNING" =>
        attempt[session[s].attempt] = "CANCELLED" \/ Unfenced(session[s].attempt)

\* No process is about in the workspace without a session that says so.
ChildIsFenced == DrivenChildIsFenced /\ OnlyCancelUnfences

\* A session opens only for a loop whose dispatch is still pending: a loop that outlived a pause
\* does not run on the claim that Resume made.
TurnFollowsDispatch(d) == exec[d].sid = 0 /\ exec'[d].sid # 0 => dispatch[d].status = "PENDING"
\* ... unless the loop is of an unfenced pipeline.
TurnsFollowDispatches ==
    [][\A d \in DispatchId : TurnFollowsDispatch(d) \/ Unfenced(AttemptOf(d))]_vars

----
(* Liveness *)

\* A paused pipeline can be resumed in the end: the turn the pause let finish does end, and takes
\* the AgentRun with it.
PausedBecomesResumable ==
    \A a \in AttemptId :
        attempt[a] = "SOFT_PAUSED" ~>
            attempt[a] # "SOFT_PAUSED" \/ Resumable(a) \/ daemon = "DOWN" \/ Unfenced(a)

\* Whoever holds the workspace gives it back, however the attempt ends: in an unfenced pipeline a
\* turn whose loop died keeps it until a restart or a cancel.
LeaseComesBack ==
    \A a \in AttemptId :
        workspace.holder = a ~> workspace.holder # a \/ daemon = "DOWN" \/ Unfenced(a)

----
(* What the code's comments say, and the code does not do *)

\* domain/workflow.ts: "no command moves a SUCCEEDED, FAILED, CANCELLED, INTERRUPTED or STALE
\* attempt anywhere" (here of CANCELLED).
CancelledStays == [][\A a \in AttemptId : attempt[a] = "CANCELLED" => attempt'[a] = "CANCELLED"]_vars

\* session-loop.ts: "Successful cancellation releases this lease when END_PROVIDER_SESSION
\* commits".
CancelReturnsLease ==
    daemon = "UP" /\ cancel = NoCancel /\ workspace.holder # 0
        /\ attempt[workspace.holder] = "CANCELLED" => Turns(workspace.holder) # {}

=============================================================================
