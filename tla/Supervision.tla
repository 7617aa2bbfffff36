---------------------------- MODULE Supervision ----------------------------
\* How one process of a project verification is run and stopped
\* (packages/process-supervision): the daemon spawns a trusted supervisor,
\* the supervisor spawns the target in a process group of its own, and a
\* record file tells a later daemon what may still be alive.
\*
\* Three programs move here: the daemon that waits in runSupervisedProcess
\* (variable call), the supervisor, and the recovery of another daemon or
\* of a cancel request, which reads the record and then kills what it names.
EXTENDS Integers

CONSTANTS
    Resists,          \* a process tree may outlive SIGKILL for as long as anyone waits
    WriteFails,       \* a write of the record file may fail
    SupervisorMayDie, \* the supervisor may be killed at any point
    LiveRootNeeded    \* orphanRecoveryRequiresLiveRootIdentity: Windows, where only the root is seen

VARIABLES
    record,     \* the record file
    supervisor, \* the supervisor process
    target,     \* the process tree of the target
    parent,     \* the daemon that spawned the supervisor is alive
    call,       \* the pending runSupervisedProcess
    recovery,   \* the pending recoverVerificationRunProcesses
    trusted     \* history: a recovery took a supervisor's exit for its STOPPED record

processes == <<record, supervisor, target, parent, trusted>>
svars     == <<processes, call, recovery>>

\* ACTIVE without a target is READY, ACTIVE with a target is RUNNING.
RecordState     == {"NONE", "INTENT", "READY", "RUNNING", "STOPPED"}
\* IDLE waits for the start frame, FRAMED has it, SPAWNED has a target the record does not name.
SupervisorState == {"NONE", "BOOTING", "IDLE", "FRAMED", "SPAWNED", "WATCHING", "STOPPING", "REAPING", "GONE"}
\* LEFT: the root exited and descendants live on.
TargetState     == {"NONE", "ALIVE", "LEFT", "GONE"}
Termination     == {"EXITED", "LIMIT", "CANCELLED", "SPAWN_FAILED", "TERMINATION_FAILED"}
Call            == [phase : {"IDLE", "WAITING", "STOPPING", "DONE"}, why : Termination, exited : BOOLEAN]
Recovery        == [phase : {"NONE", "TARGET", "SUPERVISOR", "GRACE", "FINAL", "DONE"}, seen : RecordState,
                    action : {"NONE", "NO_RECORD", "CONFIRMED", "KILLED", "BLOCKED"}]

NoCall     == [phase |-> "IDLE", why |-> "EXITED", exited |-> FALSE]
NoRecovery == [phase |-> "NONE", seen |-> "NONE", action |-> "NONE"]

SupervisionTypeOK ==
    /\ record \in RecordState /\ supervisor \in SupervisorState /\ target \in TargetState
    /\ parent \in BOOLEAN /\ trusted \in BOOLEAN /\ call \in Call /\ recovery \in Recovery

SupervisionInit ==
    /\ record = "NONE" /\ supervisor = "NONE" /\ target = "NONE" /\ parent = FALSE
    /\ call = NoCall /\ recovery = NoRecovery /\ trusted = FALSE

TargetLives     == target \in {"ALIVE", "LEFT"}
SupervisorLives == supervisor \notin {"NONE", "GONE"}
\* treeExists: on Windows it sees the root alone.
TreeExists      == IF LiveRootNeeded THEN target = "ALIVE" ELSE TargetLives

----
(* The supervisor *)

\* The supervisor leaves with the record it could write.
Leave(r) == supervisor' = "GONE" /\ (record' = r \/ (WriteFails /\ UNCHANGED record))

\* The supervisor finds its intent and publishes itself; READY reaches a daemon that lives.
Boot ==
    /\ supervisor = "BOOTING"
    /\ \/ record = "INTENT" /\ record' = "READY"
          /\ supervisor' = IF parent THEN "IDLE" ELSE "STOPPING"
       \/ (record # "INTENT" \/ WriteFails) /\ supervisor' = "GONE" /\ UNCHANGED record
    /\ UNCHANGED <<target, parent, trusted, call, recovery>>

\* startTarget up to the spawn: a supervisor whose daemon is gone starts nothing.
StartTarget ==
    /\ supervisor = "FRAMED"
    /\ \/ parent /\ target' = "ALIVE" /\ supervisor' = "SPAWNED"
       \/ supervisor' = "STOPPING" /\ UNCHANGED target       \* no parent, or the spawn failed
    /\ UNCHANGED <<record, parent, trusted, call, recovery>>

\* startTarget from the spawn on: the record names the target, or the supervisor stops it.
RecordTarget ==
    /\ supervisor = "SPAWNED"
    /\ \/ record' = "RUNNING" /\ supervisor' = "WATCHING"
       \/ WriteFails /\ supervisor' = "STOPPING" /\ UNCHANGED record
    /\ UNCHANGED <<target, parent, trusted, call, recovery>>

\* The target exits by itself; what it forked may live on.
TargetExits ==
    /\ target \in {"ALIVE", "LEFT"}
    /\ \/ target' = "GONE"
       \/ target = "ALIVE" /\ target' = "LEFT"
    /\ UNCHANGED <<record, supervisor, parent, trusted, call, recovery>>

\* The target closed: EXIT goes to the daemon, and without a daemon the supervisor just ends.
ReportExit ==
    /\ supervisor = "WATCHING" /\ target \in {"LEFT", "GONE"}
    /\ IF parent
       THEN /\ supervisor' = "REAPING"
            /\ call' = IF call.phase \in {"WAITING", "STOPPING"} THEN [call EXCEPT !.exited = TRUE] ELSE call
       ELSE supervisor' = "GONE" /\ UNCHANGED call
    /\ UNCHANGED <<record, target, parent, trusted, recovery>>

\* reapDescendants: nothing of the tree is left.
Reaped == target' = IF target = "NONE" THEN "NONE" ELSE "GONE"
\* stopAndReapProcessTree with markStopped: only a tree that went is recorded.
TreeStopped ==
    \/ Reaped /\ Leave("STOPPED")
    \/ Resists /\ TargetLives /\ supervisor' = "GONE" /\ UNCHANGED <<record, target>>
StopTree ==
    /\ supervisor \in {"STOPPING", "REAPING"}
    /\ TreeStopped
    /\ UNCHANGED <<parent, trusted, call, recovery>>

\* The control pipe ends, the parent is gone or SIGTERM came.
HearStop ==
    /\ \/ supervisor \in {"IDLE", "WATCHING"}
          /\ (call.phase = "STOPPING" \/ ~parent \/ recovery.phase = "GRACE")
       \/ supervisor = "FRAMED" /\ (~parent \/ recovery.phase = "GRACE")
    /\ supervisor' = "STOPPING"
    /\ UNCHANGED <<record, target, parent, trusted, call, recovery>>

SupervisorDies ==
    /\ SupervisorMayDie /\ SupervisorLives
    /\ supervisor' = "GONE"
    /\ UNCHANGED <<record, target, parent, trusted, call, recovery>>

----
(* runSupervisedProcess in the daemon *)

SpawnSupervisor ==
    /\ call.phase = "IDLE"
    /\ \/ supervisor' = "BOOTING" /\ parent' = TRUE /\ call' = [NoCall EXCEPT !.phase = "WAITING"]
       \/ call' = [NoCall EXCEPT !.phase = "DONE", !.why = "SPAWN_FAILED"] /\ UNCHANGED <<supervisor, parent>>
    /\ UNCHANGED <<record, target, trusted, recovery>>

\* READY came; the start frame goes down the control pipe.
SendFrame ==
    /\ supervisor = "IDLE" /\ parent /\ call.phase = "WAITING"
    /\ supervisor' = "FRAMED"
    /\ UNCHANGED <<record, target, parent, trusted, call, recovery>>

\* stop(reason): an EXIT that came first takes the deadline and the abort away.
Stop(reason) ==
    /\ call.phase = "WAITING"
    /\ reason = "CANCELLED" => ~call.exited
    /\ call' = [call EXCEPT !.phase = "STOPPING", !.why = reason]
    /\ UNCHANGED <<processes, recovery>>

\* The wait of stop is over: the supervisor is killed, and its target is not.
ForceStop ==
    /\ call.phase = "STOPPING" /\ SupervisorLives
    /\ supervisor' = "GONE"
    /\ UNCHANGED <<record, target, parent, trusted, call, recovery>>

\* Without a STOPPED record nothing is settled; a close before EXIT is a failed start.
Settled ==
    IF record # "STOPPED" THEN "TERMINATION_FAILED"
    ELSE IF ~call.exited /\ call.why = "EXITED" THEN "SPAWN_FAILED" ELSE call.why
\* Mutant: a stop that waited long enough settles the call too.
Closed_Late == supervisor = "GONE" \/ call.phase = "STOPPING"
Closed == supervisor = "GONE"
Close ==
    /\ call.phase \in {"WAITING", "STOPPING"} /\ Closed
    /\ call' = [call EXCEPT !.phase = "DONE", !.why = Settled]
    /\ UNCHANGED <<processes, recovery>>

----
(* recoverVerificationRunProcesses: it acts on the record it read first *)

Report(action) == [recovery EXCEPT !.phase = "DONE", !.action = action]
Blocked        == recovery' = Report("BLOCKED")
GoOn(phase)    == recovery' = [recovery EXCEPT !.phase = phase]

\* What the record alone decides.
BeginRecovery ==
    LET read(phase, action) == [phase |-> phase, seen |-> record, action |-> action]
    IN  recovery' = CASE record = "NONE" -> read("DONE", "NO_RECORD")
                      [] record \in {"INTENT", "STOPPED"} -> read("DONE", "CONFIRMED")
                      [] record = "READY" -> read("SUPERVISOR", "NONE")
                      [] record = "RUNNING" -> read("TARGET", "NONE")

\* The recorded target is killed by identity, or was gone with its whole group.
TargetProved ==
    \/ target = "ALIVE" /\ target' = "GONE"
    \/ ~TreeExists /\ ~LiveRootNeeded /\ UNCHANGED target
RecoverTarget ==
    /\ recovery.phase = "TARGET"
    /\ \/ TargetProved /\ GoOn("SUPERVISOR")
       \/ (IF TreeExists THEN Resists \/ target = "LEFT" ELSE LiveRootNeeded)
          /\ Blocked /\ UNCHANGED target
    /\ UNCHANGED <<record, supervisor, parent, trusted, call>>

RecoverSupervisor ==
    /\ recovery.phase = "SUPERVISOR"
    /\ \/ SupervisorLives /\ recovery.seen = "READY" /\ GoOn("GRACE") /\ UNCHANGED supervisor
       \/ SupervisorLives /\ recovery.seen = "RUNNING" /\ supervisor' = "GONE" /\ GoOn("FINAL")
       \/ ~SupervisorLives /\ recovery.seen = "READY" /\ Blocked /\ UNCHANGED supervisor
       \/ ~SupervisorLives /\ recovery.seen = "RUNNING" /\ GoOn("FINAL") /\ UNCHANGED supervisor
    /\ UNCHANGED <<record, target, parent, trusted, call>>

\* The supervisor was asked to leave: it went, or the wait is over.
RecoverGrace ==
    /\ recovery.phase = "GRACE"
    /\ \/ ~SupervisorLives /\ GoOn("FINAL")
       \/ SupervisorLives /\ Blocked
    /\ UNCHANGED <<processes, call>>

\* The last look, and the proof for the next reader.
RecoverFinal ==
    /\ recovery.phase = "FINAL"
    /\ \/ (recovery.seen = "RUNNING" => ~TreeExists) /\ ~SupervisorLives
          /\ record' = "STOPPED" /\ recovery' = Report("KILLED")
          /\ trusted' = (trusted \/ (recovery.seen = "READY" /\ record # "STOPPED"))
       \/ ((recovery.seen = "RUNNING" /\ TreeExists) \/ SupervisorLives \/ WriteFails)
          /\ Blocked /\ UNCHANGED <<record, trusted>>
    /\ UNCHANGED <<supervisor, target, parent, call>>

----

SupervisorMoves == Boot \/ StartTarget \/ RecordTarget \/ ReportExit \/ StopTree \/ HearStop
CallMoves       == SendFrame \/ ForceStop \/ Close
RecoveryMoves   == RecoverTarget \/ RecoverSupervisor \/ RecoverGrace \/ RecoverFinal
SupervisionMoves ==
    \/ SupervisorMoves \/ TargetExits \/ SupervisorDies \/ RecoveryMoves \/ CallMoves
    \/ \E reason \in {"LIMIT", "TERMINATION_FAILED"} : Stop(reason)
=============================================================================
