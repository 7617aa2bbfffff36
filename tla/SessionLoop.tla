----------------------------- MODULE SessionLoop -----------------------------
\* How one StageAttempt is carried by a sequence of provider sessions: each
\* is given a pack assembled from what the store holds, publishes
\* checkpoints while it runs, and ends with a result of the stage, a
\* hand-off to the next session, or a failure.  Sessions that publish
\* nothing are counted on the attempt, and the second in a row stops it with
\* a question to the owner.
\*
\* Execution has the parts this leaves out: two turns of one WorkItem, its
\* workspace, cancellation, and a restart that cannot prove a child gone.
EXTENDS Naturals

CONSTANTS
    MaxSessions,    \* maxProviderSessions of an AgentRun
    MaxStops        \* how often the owner lets the attempt go on without progress

VARIABLES
    attempt,    \* the StageAttempt: its status and its two counters
    run,        \* its newest AgentRun, and how many sessions it has had
    session,    \* its newest ProviderSession
    child,      \* whether the provider's process runs
    tools,      \* whether the session's lease of workspace tools is open
    behind,     \* whether the newest checkpoint this agent published is not stored
    loop,       \* the loop, with what it holds of the session in memory
    tally       \* since the last session that published: those that did not, and the stops

vars == <<attempt, run, session, child, tools, behind, loop, tally>>

Stopped == {"SOFT_PAUSED", "HARD_PAUSED", "WAITING_HUMAN", "INTERRUPTED"}
Continues == {"HANDOFF", "CONTEXT_EXHAUSTED"}
Outcome == Continues \cup {"RESULT", "FAILED", "TOO_LARGE", "UNCERTAIN"}

Loop == [pc : {"idle", "context", "racing", "aborting", "joining", "settled", "measuring"},
         handoff : BOOLEAN,                     \* live.handoffRequested
         failed : BOOLEAN,                      \* live.checkpointWriteFailed
         usage : {"none", "within", "over"},    \* live.terminalUsage, against the budget
         task : Outcome \cup {"none"}]          \* what sessionTask settles with

At(pc) == [pc |-> pc, handoff |-> FALSE, failed |-> FALSE, usage |-> "none", task |-> "none"]

TypeOK ==
    /\ attempt \in [status : Stopped \cup {"QUEUED", "RUNNING", "SUCCEEDED"},
                    unproductive : 0..2, backoffs : 0..1]
    /\ run \in [active : BOOLEAN, sessions : 0..MaxSessions]
    /\ session \in [status : {"none", "RUNNING", "ENDED"}, published : BOOLEAN,
                    end : Continues \cup {"none", "COMPLETED", "INTERRUPTED"}]
    /\ child \in BOOLEAN /\ tools \in BOOLEAN /\ behind \in BOOLEAN
    /\ loop \in Loop
    /\ tally \in [wasted : 0..MaxStops + 3, stops : 0..MaxStops + 1]

Init ==
    /\ attempt = [status |-> "QUEUED", unproductive |-> 0, backoffs |-> 0]
    /\ run = [active |-> FALSE, sessions |-> 0]
    /\ session = [status |-> "none", published |-> FALSE, end |-> "none"]
    /\ child = FALSE /\ tools = FALSE /\ behind = FALSE
    /\ loop = At("idle")
    /\ tally = [wasted |-> 0, stops |-> 0]

----
(* Transitions of the store *)

HardPaused(a) == [a EXCEPT !.status = "HARD_PAUSED"]

\* RECORD_PROVIDER_USAGE: usage that crosses the budget stops the attempt while its session still runs.
Spent == IF loop.usage = "over" THEN HardPaused(attempt) ELSE attempt

\* decideSessionEnded for a session that ends without a result of the stage; 2 stands for what is more.
Counted(a, published) ==
    LET unproductive == IF published THEN 0 ELSE IF a.unproductive = 0 THEN 1 ELSE 2
        counted == [a EXCEPT !.unproductive = unproductive]
    IN  IF a.status # "RUNNING" THEN a
        ELSE IF unproductive >= 2 THEN HardPaused(counted) ELSE counted

\* REDUCE_CONTEXT_PACK_SHARE
Reduced(a) == [a EXCEPT !.backoffs = @ + 1]

Stop(a) == IF attempt.status = "RUNNING" /\ a.status \in Stopped THEN 1 ELSE 0

\* The tally after a session that ends, and after a stop without one.
Tallied(a, published) ==
    IF published THEN [wasted |-> 0, stops |-> Stop(a)]
    ELSE [wasted |-> tally.wasted + 1, stops |-> tally.stops + Stop(a)]

\* END_PROVIDER_SESSION, with what it makes of the attempt: the AgentRun goes on only while that runs.
EndProviderSession(a, published, reason) ==
    /\ attempt' = a
    /\ session' = [status |-> "ENDED", published |-> published, end |-> reason]
    /\ run' = [run EXCEPT !.active = a.status = "RUNNING"]
    /\ tally' = IF reason = "COMPLETED" THEN [tally EXCEPT !.stops = @ + Stop(a)] ELSE Tallied(a, published)

\* A stop between sessions; finishActiveAgentRun.
StopAttempt(a) ==
    /\ attempt' = a
    /\ run' = [run EXCEPT !.active = FALSE]
    /\ tally' = [tally EXCEPT !.stops = @ + Stop(a)]

----
(* Between sessions *)

\* The dispatch is claimed and its loop begins.
Claim ==
    /\ loop.pc = "idle" /\ attempt.status = "QUEUED" /\ ~run.active /\ session.status # "RUNNING"
    /\ attempt' = [attempt EXCEPT !.status = "RUNNING"]
    /\ run' = [active |-> TRUE, sessions |-> 0]
    /\ loop' = At("context")
    /\ UNCHANGED <<session, child, tools, behind, tally>>

\* The attempt is no longer RUNNING: found at the top of the loop, or by START_PROVIDER_SESSION.
LeaveLoop ==
    /\ loop.pc = "context" /\ attempt.status # "RUNNING"
    /\ loop' = At("idle")
    /\ UNCHANGED <<attempt, run, session, child, tools, behind, tally>>

SessionLimitReached ==
    /\ loop.pc = "context" /\ run.sessions = MaxSessions
    /\ StopAttempt(HardPaused(attempt))
    /\ loop' = At("idle")
    /\ UNCHANGED <<session, child, tools, behind>>

\* The context does not fit, which nothing checks the attempt for, or its sources are refused.
ContextRefused ==
    /\ loop.pc = "context" /\ run.sessions < MaxSessions
    /\ \/ StopAttempt(HardPaused(attempt))
       \/ attempt.status = "RUNNING" /\ StopAttempt([attempt EXCEPT !.status = "WAITING_HUMAN"])
    /\ loop' = At("idle")
    /\ UNCHANGED <<session, child, tools, behind>>

\* START_PROVIDER_SESSION
NewSession == [status |-> "RUNNING", published |-> FALSE, end |-> "none"]

\* The pack is assembled from what the store holds, and the new agent knows no more.
StartSession ==
    /\ loop.pc = "context" /\ run.sessions < MaxSessions
    /\ attempt.status = "RUNNING" /\ run.active /\ session.status # "RUNNING"
    /\ session' = NewSession
    /\ run' = [run EXCEPT !.sessions = @ + 1]
    /\ behind' = FALSE
    /\ loop' = At("racing")
    /\ UNCHANGED <<attempt, child, tools, tally>>

----
(* While the session runs *)

\* startSession: the tools are opened, then the adapter spawns the provider.
Spawn ==
    /\ loop.pc = "racing" /\ loop.task = "none" /\ ~child
    /\ child' = TRUE /\ tools' = TRUE
    /\ UNCHANGED <<attempt, run, session, behind, loop, tally>>

\* publishCheckpoint, and what the session has published after it.
Publish(written) ==
    /\ behind' = ~written
    /\ loop' = [loop EXCEPT !.failed = @ \/ ~written]
    /\ session' = [session EXCEPT !.published = @ \/ written]

OnCheckpoint ==
    /\ loop.pc = "racing" /\ child
    /\ \E written \in BOOLEAN : Publish(written)
    /\ UNCHANGED <<attempt, run, child, tools, tally>>

\* A checkpoint after live.closed is dropped.
LateCheckpoint ==
    /\ loop.pc = "aborting" /\ child
    /\ behind' = TRUE
    /\ UNCHANGED <<attempt, run, session, child, tools, loop, tally>>

\* decideContextWindowReported: the first report past the threshold, of a session that still runs.
FirstRequest == session.status = "RUNNING" /\ ~loop.handoff

\* REQUEST_CONTEXT_HANDOFF, and the deadline that is set with it.
Requested(l) == [l EXCEPT !.handoff = TRUE]

OnContextWindow ==
    /\ loop.pc = "racing" /\ child /\ FirstRequest
    /\ loop' = Requested(loop)
    /\ UNCHANGED <<attempt, run, session, child, tools, behind, tally>>

OnUsage ==
    /\ loop.pc = "racing" /\ child /\ loop.usage = "none"
    /\ \E usage \in {"within", "over"} : loop' = [loop EXCEPT !.usage = usage]
    /\ UNCHANGED <<attempt, run, session, child, tools, behind, tally>>

\* adapter.start settles once its process is gone, or fails before there is one.
ProviderReturns ==
    /\ loop.pc \in {"racing", "joining"} /\ loop.task = "none"
    /\ \E outcome \in (IF child THEN Outcome ELSE {"FAILED"}) : loop' = [loop EXCEPT !.task = outcome]
    /\ child' = FALSE
    /\ UNCHANGED <<attempt, run, session, tools, behind, tally>>

\* The finally of startSession closes the lease of the tools.
CloseTools ==
    /\ tools /\ loop.task # "none" /\ ~child
    /\ tools' = FALSE
    /\ UNCHANGED <<attempt, run, session, child, behind, loop, tally>>

TaskWins ==
    /\ loop.pc = "racing" /\ loop.task # "none" /\ ~tools
    /\ loop' = [loop EXCEPT !.pc = "settled"]
    /\ UNCHANGED <<attempt, run, session, child, tools, behind, tally>>

DeadlineWins ==
    /\ loop.pc = "racing" /\ loop.handoff
    /\ loop' = [loop EXCEPT !.pc = "aborting"]
    /\ UNCHANGED <<attempt, run, session, child, tools, behind, tally>>

\* abortSession stops the child, and the loop then awaits the task; or it fails, and the session stays RUNNING.
AbortSession ==
    /\ loop.pc = "aborting"
    /\ \/ child' = FALSE /\ loop' = [loop EXCEPT !.pc = "joining"]
       \/ child /\ UNCHANGED child /\ loop' = At("idle")
    /\ UNCHANGED <<attempt, run, session, tools, behind, tally>>

----
(* The end of a session *)

\* The end of a session that hands over, which counts on the attempt.
EndTurn(reason, failed, published) ==
    LET a == Counted(Spent, published)
    IN  /\ EndProviderSession(a, published, IF failed THEN "INTERRUPTED" ELSE reason)
        /\ loop' = At(IF a.status = "RUNNING" THEN "context" ELSE "idle")

DeadlineEnds ==
    /\ loop.pc = "joining" /\ loop.task # "none" /\ ~tools
    /\ EndTurn("CONTEXT_EXHAUSTED", loop.failed, session.published)
    /\ UNCHANGED <<child, tools, behind>>

\* The outcome may carry a checkpoint, which is published unless it is the last one that was.
HandoffEnds ==
    /\ loop.pc = "settled" /\ loop.task \in Continues
    /\ \/ EndTurn(loop.task, loop.failed, session.published) /\ UNCHANGED behind
       \/ \E written \in BOOLEAN :
            /\ behind' = ~written
            /\ EndTurn(loop.task, loop.failed \/ ~written, session.published \/ written)
    /\ UNCHANGED <<child, tools>>

\* A session the provider failed does not count; a pack that was too large is retried once, smaller.
FailedEnds ==
    /\ loop.pc = "settled" /\ loop.task \in {"FAILED", "TOO_LARGE"}
    /\ LET retry == loop.task = "TOO_LARGE" /\ attempt.backoffs = 0
           a == IF Spent.status # "RUNNING" THEN Spent
                ELSE IF retry THEN Reduced(attempt) ELSE HardPaused(attempt)
       IN  /\ EndProviderSession(a, session.published, "INTERRUPTED")
           /\ loop' = At(IF a.status = "RUNNING" THEN "context" ELSE "idle")
    /\ UNCHANGED <<child, tools, behind>>

\* A workspace command may still run: the session stays RUNNING.
UncertainEnds ==
    /\ loop.pc = "settled" /\ loop.task = "UNCERTAIN"
    /\ attempt' = Spent
    /\ tally' = [tally EXCEPT !.stops = @ + Stop(Spent)]
    /\ loop' = At("idle")
    /\ UNCHANGED <<run, session, child, tools, behind>>

MeasureResult ==
    /\ loop.pc = "settled" /\ loop.task = "RESULT"
    /\ loop' = [loop EXCEPT !.pc = "measuring"]
    /\ UNCHANGED <<attempt, run, session, child, tools, behind, tally>>

\* APPLY_PROVIDER_OUTCOME; a result that comes after the attempt was paused only ends its session.
ResultEnds ==
    /\ loop.pc = "measuring"
    /\ \E status \in {"SUCCEEDED", "WAITING_HUMAN", "HARD_PAUSED"} :
         EndProviderSession(IF attempt.status = "RUNNING" THEN [attempt EXCEPT !.status = status] ELSE Spent,
                            session.published, "COMPLETED")
    /\ loop' = At("idle")
    /\ UNCHANGED <<child, tools, behind>>

\* A command of the end fails in the store: the loop is left and the session stays RUNNING.
StoreFails ==
    /\ \/ loop.pc \in {"settled", "measuring"}
       \/ loop.pc = "joining" /\ loop.task # "none" /\ ~tools
    /\ loop' = At("idle")
    /\ UNCHANGED <<attempt, run, session, child, tools, behind, tally>>

----
(* The owner, and the daemon's restart *)

PausePipeline ==
    /\ attempt.status = "RUNNING"
    /\ attempt' = [attempt EXCEPT !.status = "SOFT_PAUSED"]
    /\ run' = [run EXCEPT !.active = @ /\ session.status = "RUNNING"]
    /\ tally' = [tally EXCEPT !.stops = @ + 1]
    /\ UNCHANGED <<session, child, tools, behind, loop>>

\* An answer or a resume queues the attempt again, with its counters, and so does a budget override
\* for a QA attempt that has its measurement; another override starts a fresh attempt.
Queued_Afresh(a) == [a EXCEPT !.status = "QUEUED", !.unproductive = 0]
Queued(a) == [a EXCEPT !.status = "QUEUED"]

Requeue ==
    /\ attempt.status \in Stopped /\ tally.stops <= MaxStops
    /\ attempt.status \in {"SOFT_PAUSED", "INTERRUPTED"} => ~run.active /\ session.status # "RUNNING"
    /\ attempt' = Queued(attempt)
    /\ UNCHANGED <<run, session, child, tools, behind, loop, tally>>

\* The daemon dies, and RECONCILE_WORKFLOWS ends what ran, whose child is proven gone.
Restart ==
    /\ loop.pc # "idle" \/ session.status = "RUNNING"
    /\ LET a == IF attempt.status = "RUNNING" THEN [attempt EXCEPT !.status = "INTERRUPTED"] ELSE attempt
       IN  \/ session.status = "RUNNING" /\ EndProviderSession(a, session.published, "INTERRUPTED")
           \/ session.status # "RUNNING" /\ StopAttempt(a) /\ UNCHANGED session
    /\ child' = FALSE /\ tools' = FALSE
    /\ loop' = At("idle")
    /\ UNCHANGED behind

----

Next ==
    \/ Claim \/ LeaveLoop \/ SessionLimitReached \/ ContextRefused \/ StartSession
    \/ Spawn \/ OnCheckpoint \/ LateCheckpoint \/ OnContextWindow \/ OnUsage
    \/ ProviderReturns \/ CloseTools \/ TaskWins \/ DeadlineWins \/ AbortSession
    \/ DeadlineEnds \/ HandoffEnds \/ FailedEnds \/ UncertainEnds \/ MeasureResult \/ ResultEnds \/ StoreFails
    \/ PausePipeline \/ Requeue \/ Restart

Spec == Init /\ [][Next]_vars

----

\* Of the sessions that published nothing since the last one that did, every one but the first was
\* let through by a stop of the attempt, or by its one retry with a smaller pack.
WasteIsAnswered == tally.wasted <= 1 + tally.stops + attempt.backoffs

\* What an agent that hands off has published is stored, so that the next pack is made with it.
HandoffIsComplete == session.status = "ENDED" /\ session.end = "HANDOFF" => ~behind

\* A session has ended only after its process and its tools.
SessionOutlivesItsWork == child \/ tools => session.status = "RUNNING"

\* A loop that ends leaves the attempt with a result or stopped for its owner, unless its session
\* stays RUNNING for a restart.
LoopLeavesAnAnswer == loop.pc = "idle" /\ attempt.status = "RUNNING" => session.status = "RUNNING"
=============================================================================
