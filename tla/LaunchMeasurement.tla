-------------------------- MODULE LaunchMeasurement --------------------------
\* The measurement of a Project before a release: the daemon starts the
\* Project's own service, waits until it answers, measures it with a browser,
\* stops it and records what was measured
\* (apps/daemon/src/launch-measurement-runner.ts).  One project.
\*
\* How the service's processes are supervised is module Supervision; here a
\* stop is proved or not, and it is only proved of a service that is gone.
EXTENDS Integers

CONSTANTS
    Run,
    Tree,         \* the contents the repository can have
    MaxRevision,  \* bound: decisions about the measurement plan
    MaxBlocked    \* bound: cancels of a run that is BLOCKED

VARIABLES
    plan,     \* the newest launch measurement plan
    run,      \* the launch_measurement_runs table
    task,     \* the runner's pending executeRun of a run
    asking,   \* the runs whose cancel is in recoverVerificationRunProcesses
    service,  \* the process tree of a run's service
    record,   \* there is a process record of the run
    tree,     \* of the repository
    ended,    \* history: the owner cancelled the run
    blocked,  \* bound: how often a blocked run was cancelled
    phase

vars == <<plan, run, task, asking, service, record, tree, ended, blocked, phase>>

Plan == [revision : 0 .. MaxRevision, status : {"NONE", "ACTIVE", "DISABLED"}]
Status == {"NONE", "RUNNING", "CANCELLING", "BLOCKED", "PASSED", "FAILED", "INTERRUPTED", "ERROR"}
Active == {"RUNNING", "CANCELLING", "BLOCKED"}
Row == [status : Status, plan : 0 .. MaxRevision, tree : Tree \cup {"NONE"}]
\* STOPPING: the service was told to stop, or ended; why is what executeRun will say of the run.
At == {"NONE", "BEGIN", "STARTING", "HEALTH", "MEASURE", "STOPPING", "LEAVING"}
Why == {"MEASURED", "OWNER_CANCELLED", "OTHER"}
Task == [at : At, why : Why, aborted : BOOLEAN]

NoRow  == [status |-> "NONE", plan |-> 0, tree |-> "NONE"]
NoTask == [at |-> "NONE", why |-> "OTHER", aborted |-> FALSE]

TypeOK ==
    /\ plan \in Plan /\ run \in [Run -> Row] /\ task \in [Run -> Task] /\ asking \subseteq Run
    /\ service \in [Run -> {"NONE", "ALIVE", "GONE"}] /\ record \subseteq Run
    /\ tree \in Tree /\ ended \subseteq Run /\ blocked \in 0 .. MaxBlocked
    /\ phase \in {"UP", "STOPPING", "DOWN", "BOOTING"}

Init ==
    /\ plan = [revision |-> 0, status |-> "NONE"]
    /\ run = [r \in Run |-> NoRow] /\ task = [r \in Run |-> NoTask] /\ asking = {}
    /\ service = [r \in Run |-> "NONE"] /\ record = {} /\ tree \in Tree
    /\ ended = {} /\ blocked = 0 /\ phase = "UP"

----
(* The owner *)

\* The configuration names recipes of the verification plan, which stays as it is here.
AdoptPlan ==
    /\ phase = "UP" /\ plan.revision < MaxRevision
    /\ plan' = [revision |-> plan.revision + 1, status |-> "ACTIVE"]
    /\ UNCHANGED <<run, task, asking, service, record, tree, ended, blocked, phase>>

DisablePlan ==
    /\ phase = "UP" /\ plan.status = "ACTIVE" /\ plan.revision < MaxRevision
    /\ plan' = [revision |-> plan.revision + 1, status |-> "DISABLED"]
    /\ UNCHANGED <<run, task, asking, service, record, tree, ended, blocked, phase>>

\* decideLaunchMeasurementRunReservation; the tree was read before, and the wake follows at once.
Reservable == \A r \in Run : run[r].status \notin Active
Reserve(r, read) ==
    /\ phase = "UP" /\ run[r].status = "NONE" /\ plan.status = "ACTIVE" /\ Reservable
    /\ run' = [run EXCEPT ![r] = [status |-> "RUNNING", plan |-> plan.revision, tree |-> read]]
    /\ task' = [task EXCEPT ![r].at = "BEGIN"]
    /\ UNCHANGED <<plan, asking, service, record, tree, ended, blocked, phase>>

----
(* The row at the end of a run *)

\* interrupt with decideLaunchMeasurementRunInterruption: a stop that was not proved keeps the run.
Interrupted_AsStopped(r, owner, proved) ==
    IF run[r].status \notin Active THEN run
    ELSE [run EXCEPT ![r].status = IF owner THEN "INTERRUPTED" ELSE "ERROR"]
Interrupted(r, owner, proved) ==
    IF run[r].status \notin Active THEN run
    ELSE [run EXCEPT ![r].status = IF ~proved THEN "BLOCKED" ELSE IF owner THEN "INTERRUPTED" ELSE "ERROR"]

\* What executeRun finds when the service has stopped: it reads the run again.
StillRunning(r) == run[r].status = "RUNNING"
Concluded(r, outcome) ==
    IF StillRunning(r) THEN [run EXCEPT ![r].status = outcome] ELSE Interrupted(r, TRUE, TRUE)

----
(* The runner *)

\* A run that was cancelled before it began has nothing to stop.
Begin(r) ==
    /\ task[r].at = "BEGIN"
    /\ IF run[r].status = "RUNNING"
       THEN /\ task' = [task EXCEPT ![r].at = "STARTING"] /\ record' = record \cup {r} /\ UNCHANGED run
       ELSE /\ task' = [task EXCEPT ![r] = NoTask] /\ run' = Interrupted(r, TRUE, TRUE) /\ UNCHANGED record
    /\ UNCHANGED <<plan, asking, service, tree, ended, blocked, phase>>

\* startVerificationService; a refusal removes the record, as nothing was spawned.
StartService(r) ==
    /\ task[r].at = "STARTING"
    /\ \/ /\ tree = run[r].tree
          /\ service' = [service EXCEPT ![r] = "ALIVE"] /\ task' = [task EXCEPT ![r].at = "HEALTH"]
          /\ UNCHANGED <<run, record>>
       \/ /\ record' = record \ {r} /\ run' = Interrupted(r, FALSE, TRUE)
          /\ task' = [task EXCEPT ![r] = NoTask] /\ UNCHANGED service
    /\ UNCHANGED <<plan, asking, tree, ended, blocked, phase>>

Stop(r, why) == task' = [task EXCEPT ![r].at = "STOPPING", ![r].why = why]

\* The race with the service's own end is decided in favour of that when both are there; an abort
\* makes the probe answer that the target is not available.
Health(r) ==
    /\ task[r].at = "HEALTH"
    /\ \/ ~task[r].aborted /\ task' = [task EXCEPT ![r].at = "MEASURE"]
       \/ Stop(r, IF task[r].aborted THEN "OWNER_CANCELLED" ELSE "OTHER")
       \/ Stop(r, "OTHER")   \* the service ended: SERVICE_EXITED also when it was told to
    /\ UNCHANGED <<plan, run, asking, service, record, tree, ended, blocked, phase>>

Measure(r) ==
    /\ task[r].at = "MEASURE"
    /\ \/ Stop(r, "MEASURED")
       \/ Stop(r, IF task[r].aborted THEN "OWNER_CANCELLED" ELSE "OTHER")   \* the driver threw
       \/ Stop(r, "OTHER")                                                 \* the service ended
    /\ UNCHANGED <<plan, run, asking, service, record, tree, ended, blocked, phase>>

\* The completion of the service, proved or not, with the tree after it; executeRun runs on at once.
Stopped(r) ==
    /\ task[r].at = "STOPPING"
    /\ \E proved \in {service[r] = "GONE", FALSE} :
          /\ IF task[r].why = "MEASURED" /\ proved /\ tree = run[r].tree
             THEN \E outcome \in {"PASSED", "FAILED"} : run' = Concluded(r, outcome)
             ELSE run' = Interrupted(r, task[r].why = "OWNER_CANCELLED", proved)
          /\ task' = [task EXCEPT ![r] = IF proved THEN [@ EXCEPT !.at = "LEAVING"] ELSE NoTask]
    /\ UNCHANGED <<plan, asking, service, record, tree, ended, blocked, phase>>

\* The record is removed last.
Leave(r) ==
    /\ task[r].at = "LEAVING"
    /\ record' = record \ {r} /\ task' = [task EXCEPT ![r] = NoTask]
    /\ UNCHANGED <<plan, run, asking, service, tree, ended, blocked, phase>>

----
(* cancel, recover and stop of the runner *)

\* With a pending executeRun the cancel aborts it and waits; without one it looks at the record.
Cancel(r) ==
    /\ phase = "UP" /\ run[r].status \in {"RUNNING", "BLOCKED"}
    /\ run[r].status = "BLOCKED" => blocked < MaxBlocked
    /\ blocked' = IF run[r].status = "BLOCKED" THEN blocked + 1 ELSE blocked
    /\ run' = [run EXCEPT ![r].status = "CANCELLING"] /\ ended' = ended \cup {r}
    /\ IF task[r].at = "NONE" THEN asking' = asking \cup {r} /\ UNCHANGED task
       ELSE task' = [task EXCEPT ![r].aborted = TRUE] /\ UNCHANGED asking
    /\ UNCHANGED <<plan, service, record, tree, phase>>

\* recoverVerificationRunProcesses: it says that a stop is proved only of a service that is gone.
\* NO_RECORD proves it for a run that was not BLOCKED, which is all a run without a task can be.
Proved(r) == {(r \in record) /\ service[r] # "ALIVE", FALSE}
CancelRecovered(r) ==
    /\ r \in asking /\ asking' = asking \ {r}
    /\ \E proved \in Proved(r) : run' = Interrupted(r, TRUE, proved)
    /\ UNCHANGED <<plan, task, service, record, tree, ended, blocked, phase>>

\* recover, before the server listens; a run that is BLOCKED and has no record stays BLOCKED.
RecoverRun(r) ==
    /\ phase = "BOOTING" /\ run[r].status \in {"RUNNING", "CANCELLING"}
    /\ \E proved \in IF r \in record THEN Proved(r) ELSE {TRUE} :
          /\ run' = Interrupted(r, run[r].status = "CANCELLING", proved)
          /\ record' = IF proved THEN record \ {r} ELSE record
    /\ UNCHANGED <<plan, task, asking, service, tree, ended, blocked, phase>>

RecoverBlocked(r) ==
    /\ phase = "BOOTING" /\ run[r].status = "BLOCKED" /\ r \in record /\ service[r] # "ALIVE"
    /\ run' = Interrupted(r, FALSE, TRUE) /\ record' = record \ {r}
    /\ UNCHANGED <<plan, task, asking, service, tree, ended, blocked, phase>>

Listen ==
    /\ phase = "BOOTING" /\ \A r \in Run : run[r].status \notin {"RUNNING", "CANCELLING"}
    /\ phase' = "UP"
    /\ UNCHANGED <<plan, run, task, asking, service, record, tree, ended, blocked>>

\* stop aborts every task and waits for them; a run that its task left RUNNING would be interrupted.
Shutdown ==
    /\ phase = "UP" /\ phase' = "STOPPING"
    /\ task' = [r \in Run |-> IF task[r].at = "NONE" THEN NoTask ELSE [task[r] EXCEPT !.aborted = TRUE]]
    /\ UNCHANGED <<plan, run, asking, service, record, tree, ended, blocked>>

Die ==
    /\ phase \in {"UP", "BOOTING"} \/ (phase = "STOPPING" /\ \A r \in Run : task[r].at = "NONE")
    /\ phase' = "DOWN" /\ task' = [r \in Run |-> NoTask] /\ asking' = {}
    \* the daemon may die after the spawn and before startService returns
    /\ service' \in {[r \in Run |-> IF r \in S THEN "ALIVE" ELSE service[r]] :
                        S \in SUBSET {r \in Run : task[r].at = "STARTING"}}
    /\ UNCHANGED <<plan, run, record, tree, ended, blocked>>

Start ==
    /\ phase = "DOWN" /\ phase' = "BOOTING"
    /\ UNCHANGED <<plan, run, task, asking, service, record, tree, ended, blocked>>

----
(* The service and the repository *)

\* By itself, or because it was told to: a service that resists only stays ALIVE.
ServiceEnds(r) ==
    /\ service[r] = "ALIVE" /\ service' = [service EXCEPT ![r] = "GONE"]
    /\ UNCHANGED <<plan, run, task, asking, record, tree, ended, blocked, phase>>

Edit ==
    /\ \E t \in Tree \ {tree} : tree' = t
    /\ UNCHANGED <<plan, run, task, asking, service, record, ended, blocked, phase>>

----

Next ==
    \/ AdoptPlan \/ DisablePlan \/ Listen \/ Shutdown \/ Die \/ Start \/ Edit
    \/ \E r \in Run :
          \/ \E t \in Tree : Reserve(r, t)
          \/ Begin(r) \/ StartService(r) \/ Health(r) \/ Measure(r) \/ Stopped(r) \/ Leave(r)
          \/ Cancel(r) \/ CancelRecovered(r) \/ RecoverRun(r) \/ RecoverBlocked(r) \/ ServiceEnds(r)

Spec == Init /\ [][Next]_vars

----
(* Properties *)

\* A service that lives belongs to a run that is not over, and one run is not over at a time: no
\* crash, cancel or failed stop lets a second service start beside the first.
LiveServiceIsHeld ==
    /\ \A r \in Run : service[r] = "ALIVE" => run[r].status \in Active
    /\ \A r, s \in Run : run[r].status \in Active /\ run[s].status \in Active => r = s

\* What the owner cancelled is never recorded as measured, however late in the run the cancel came.
CancelledIsNotMeasured == \A r \in ended : run[r].status \notin {"PASSED", "FAILED"}

\* What the owner cancelled ends as INTERRUPTED.  It may end as ERROR: README.md, "What the code
\* does not keep".
CancelInterrupts == \A r \in ended : run[r].status # "ERROR"
=============================================================================
