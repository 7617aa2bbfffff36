-------------------------- MODULE VerificationRun --------------------------
\* One VerificationRun from its reservation to its end: the commands on its
\* row (packages/domain/src/verification.ts and the handlers of
\* persistence-sqlite), the loop that runs its checks
\* (apps/daemon/src/verification-runner.ts), the owner's cancel, a crash
\* and the next start, over the processes of module Supervision, against
\* the stages that want the same working directory.
EXTENDS Supervision

CONSTANTS
    Item,         \* the WorkItems of the project that have a workspace
    Own,          \* the WorkItem whose run this is
    Shared,       \* the strategy is SHARED_CURRENT_DIRECTORY: one directory for all of them
    Checks,       \* how many checks the plan has
    Optional,     \* those of them, by their place in the plan, whose recipe is not required
    MaxCrashes,   \* bound on crashes and failed starts
    RecipeThrows, \* executeVerificationRecipe may throw
    Masks         \* the working tree may change during a check, or its output be unwritable

ASSUME ItemAssumption == Own \in Item
ASSUME CheckAssumption == Checks \in Nat /\ MaxCrashes \in Nat

VARIABLES
    run,       \* durable: the run with its checks
    lease,     \* durable: lease_holder of a workspace is set
    holder,    \* durable: verification_holder of the workspace of Own is set
    daemon,    \* the daemon that runs now
    crashes,
    runner,    \* its entry in the map of active runs
    cancel,    \* the owner's cancel request
    masked     \* history: an unconfirmed stop was recorded as something else

rows   == <<run, lease, holder>>
flags  == <<daemon, crashes, masked>>
locals == <<runner, cancel>>
vars   == <<svars, rows, flags, locals>>

Check       == 1 .. Checks
CheckStatus == {"QUEUED", "RUNNING", "PASSED", "FAILED", "ERROR", "INTERRUPTED"}
Terminal    == {"PASSED", "FAILED", "ERROR", "INTERRUPTED"}
Active      == {"QUEUED", "RUNNING", "CANCELLING"}
Run    == [status : {"NONE"} \cup Active \cup Terminal, checks : [Check -> CheckStatus],
           current : {0} \cup Check, reason : {"NONE", "CHECKS", "OWNER_CANCELLED", "DAEMON_RESTART"}]
Runner == [phase : {"IDLE", "LOOP", "INTENT", "EXEC", "CLEAN", "END"},
           stopRequested : BOOLEAN, stopConfirmed : BOOLEAN]

NoRunner == [phase |-> "IDLE", stopRequested |-> FALSE, stopConfirmed |-> TRUE]

\* Every row, flag and local has its type, and the holder is that of an active run.
TypeOK ==
    /\ SupervisionTypeOK
    /\ run \in Run /\ lease \in [Item -> BOOLEAN] /\ holder \in BOOLEAN
    /\ daemon \in {"UP", "STOPPING", "DOWN", "STARTING"} /\ crashes \in 0 .. MaxCrashes
    /\ runner \in Runner /\ cancel \in {"NONE", "WAIT", "RECOVER", "REFUSED"} /\ masked \in BOOLEAN
    /\ holder <=> run.status \in Active

Init ==
    /\ SupervisionInit
    /\ run = [status |-> "NONE", checks |-> [c \in Check |-> "QUEUED"], current |-> 0, reason |-> "NONE"]
    /\ lease = [i \in Item |-> FALSE] /\ holder = FALSE
    /\ daemon = "UP" /\ crashes = 0 /\ runner = NoRunner /\ cancel = "NONE" /\ masked = FALSE

----
(* The working directory *)

\* Mutant: a stage looks at the leases and not at the verification holder.
Free_OfLeases(i) == ~lease[i] /\ (Shared => \A j \in Item : ~lease[j])
\* The WHERE clause of both claims: nobody holds this workspace, nor a shared one of the project.
Free(i) ==
    /\ ~lease[i] /\ ~(i = Own /\ holder)
    /\ Shared => \A j \in Item : ~lease[j] /\ ~(j = Own /\ holder)

AcquireLease(i) ==
    /\ daemon = "UP" /\ Free(i)
    /\ lease' = [lease EXCEPT ![i] = TRUE]
    /\ UNCHANGED <<svars, run, holder, flags, locals>>

ReleaseLease(i) ==
    /\ daemon = "UP" /\ lease[i]
    /\ lease' = [lease EXCEPT ![i] = FALSE]
    /\ UNCHANGED <<svars, run, holder, flags, locals>>

----
(* The rows of the run *)

\* The first check that is queued, if one is.
NextCheck == {c \in Check : run.checks[c] = "QUEUED" /\ \A b \in 1 .. c - 1 : run.checks[b] # "QUEUED"}
HasQueued(checks) == \E c \in Check : checks[c] = "QUEUED"

\* The decisions, as the rows they ask for.
NewRun == [status |-> "QUEUED", checks |-> [c \in Check |-> "QUEUED"], current |-> 0, reason |-> "NONE"]

CheckStarted(c) == [run EXCEPT !.status = "RUNNING", !.current = c, !.checks[c] = "RUNNING"]

\* Only a required check that fails ends the run early.
Verdict(c, status, checks) ==
    IF c \notin Optional /\ status \in {"FAILED", "ERROR"} THEN status
    ELSE IF HasQueued(checks) THEN "RUNNING" ELSE "PASSED"
CheckCompleted(status) ==
    LET checks  == [run.checks EXCEPT ![run.current] = status]
        verdict == Verdict(run.current, status, checks)
    IN  [status |-> verdict, checks |-> checks, current |-> 0,
         reason |-> IF verdict = "RUNNING" THEN "NONE" ELSE "CHECKS"]

Cancelling == [run EXCEPT !.status = "CANCELLING"]

Interrupted(reason) ==
    [run EXCEPT !.status = "INTERRUPTED", !.current = 0, !.reason = reason,
                !.checks = [c \in Check |-> IF c = run.current THEN "INTERRUPTED" ELSE @[c]]]

\* START_VERIFICATION_RUN and RETRY_VERIFICATION_RUN.
Reserve == run.status = "NONE" /\ Free(Own) /\ run' = NewRun /\ holder' = TRUE

\* Mutant: a run that ended keeps the directory.
Complete_Holding(status) == run' = CheckCompleted(status) /\ UNCHANGED holder
\* COMPLETE_VERIFICATION_CHECK: a terminal run gives its directory back.
Complete(status) == run' = CheckCompleted(status) /\ holder' = (CheckCompleted(status).status = "RUNNING")

\* FINALIZE_VERIFICATION_RUN_CANCELLATION and INTERRUPT_VERIFICATION_RUN.
Interrupt ==
    /\ run' = Interrupted(IF run.status = "CANCELLING" THEN "OWNER_CANCELLED" ELSE "DAEMON_RESTART")
    /\ holder' = FALSE

\* removeVerificationProcessRecord: a failed unlink is ignored.
RemoveRecord == record' = "NONE" \/ (WriteFails /\ UNCHANGED record)

----
(* The loop of one active run *)

\* wake: an entry of its own for the run.
Wake == runner' = [NoRunner EXCEPT !.phase = "LOOP"]

\* The owner's request, or the verification gate of the QA stage.
StartVerification ==
    /\ daemon = "UP" /\ Reserve /\ Wake
    /\ UNCHANGED <<svars, lease, flags, cancel>>

Running == daemon \in {"UP", "STOPPING"}
At(phase) == Running /\ runner.phase = phase
To(phase) == runner' = [runner EXCEPT !.phase = phase]

\* The head of the loop, up to prepareVerificationProcessIntent, which never overwrites a record.
LoopHead ==
    /\ At("LOOP")
    /\ LET goesOn == ~runner.stopRequested /\ run.status \in {"QUEUED", "RUNNING"} /\ HasQueued(run.checks)
       IN  \/ goesOn /\ record = "NONE" /\ record' = "INTENT" /\ To("INTENT")
              /\ supervisor' = "NONE" /\ target' = IF TargetLives THEN target ELSE "NONE"
           \/ (goesOn => (record # "NONE" \/ WriteFails)) /\ To("END") /\ UNCHANGED <<record, supervisor, target>>
    /\ UNCHANGED <<parent, trusted, call, recovery, rows, flags, cancel>>

\* START_VERIFICATION_CHECK, refused when a cancel came while the intent was written.
StartCheck ==
    /\ At("INTENT")
    /\ IF run.status \in {"QUEUED", "RUNNING"}
       THEN /\ \E c \in NextCheck : run' = CheckStarted(c)
            /\ runner' = [runner EXCEPT !.phase = "EXEC", !.stopConfirmed = FALSE]
            /\ call' = NoCall
            /\ UNCHANGED record
       ELSE RemoveRecord /\ To("END") /\ UNCHANGED <<run, call>>
    /\ UNCHANGED <<supervisor, target, parent, trusted, recovery, lease, holder, flags, cancel>>

ExecuteRecipe == At("EXEC") /\ SpawnSupervisor /\ UNCHANGED <<rows, flags, locals>>

\* Mutant: the signal of the cancel is not handed to the recipe.
Abort_Never == FALSE
Abort ==
    /\ At("EXEC") /\ runner.stopRequested /\ Stop("CANCELLED")
    /\ UNCHANGED <<rows, flags, locals>>

\* What executeVerificationRecipe may return: no process was needed, or the supervised call is over.
\* A changed tree, an unreadable tree or an unwritable output is named before the termination.
Observations ==
    IF call.phase = "IDLE" THEN {[status |-> "ERROR", stopped |-> TRUE]}
    ELSE [status : CASE call.why = "EXITED" -> {"PASSED", "FAILED", "ERROR"}
                     [] call.why = "CANCELLED" -> {"INTERRUPTED"}
                     [] OTHER -> {"ERROR"},
          stopped : {call.why # "TERMINATION_FAILED"}]
         \cup {o \in {[status |-> "ERROR", stopped |-> TRUE]} : Masks}

\* Mutant: the runner completes the check whatever it knows about the process.
Confirmed_Always(o) == TRUE
Confirmed(o) == o.stopped

\* What follows executeRecipe in the loop, up to the completed check.
RecipeReturns ==
    /\ At("EXEC") /\ call.phase \in {"IDLE", "DONE"}
    /\ \E o \in Observations :
        /\ masked' = (masked \/ (o.stopped /\ call.phase = "DONE" /\ call.why = "TERMINATION_FAILED"))
        /\ IF Confirmed(o) /\ ~runner.stopRequested /\ run.status = "RUNNING"
           THEN /\ Complete(o.status)
                /\ runner' = [runner EXCEPT !.phase = "CLEAN", !.stopConfirmed = TRUE]
           ELSE /\ runner' = [runner EXCEPT !.phase = "END", !.stopConfirmed = Confirmed(o)]
                /\ UNCHANGED <<run, holder>>
    /\ call' = NoCall
    /\ UNCHANGED <<processes, recovery, lease, daemon, crashes, cancel>>

\* executeRecipe throws outside its typed boundary.
RecipeFails ==
    /\ At("EXEC") /\ RecipeThrows /\ call.phase \in {"IDLE", "DONE"}
    /\ runner' = [runner EXCEPT !.phase = "END", !.stopConfirmed = FALSE] /\ call' = NoCall
    /\ UNCHANGED <<processes, recovery, rows, flags, cancel>>

\* The record of the finished check goes, then the loop turns or ends.
CleanUp ==
    /\ At("CLEAN")
    /\ RemoveRecord
    /\ To(IF run.status = "RUNNING" THEN "LOOP" ELSE "END")
    /\ UNCHANGED <<supervisor, target, parent, trusted, call, recovery, rows, flags, cancel>>

\* The finally of wake: an entry that nobody stopped is forgotten.
LoopEnds ==
    /\ At("END") /\ ~runner.stopRequested
    /\ runner' = NoRunner
    /\ UNCHANGED <<svars, rows, flags, cancel>>

----
(* The owner's cancel *)

\* CANCEL_VERIFICATION_RUN; the loop is asked to stop, or the record says what to kill.
CancelRequest ==
    /\ daemon = "UP" /\ run.status \in {"QUEUED", "RUNNING"}
    /\ run' = Cancelling
    /\ IF runner.phase = "IDLE"
       THEN cancel' = "RECOVER" /\ BeginRecovery /\ UNCHANGED runner
       ELSE cancel' = "WAIT" /\ runner' = [runner EXCEPT !.stopRequested = TRUE] /\ UNCHANGED recovery
    /\ UNCHANGED <<processes, call, lease, holder, flags>>

\* The loop ended: the run is finalized when its stop was confirmed, and stays reserved otherwise.
CancelWaited ==
    /\ At("END") /\ cancel = "WAIT"
    /\ IF runner.stopConfirmed
       THEN /\ cancel' = "NONE" /\ runner' = NoRunner /\ RemoveRecord
            /\ IF run.status = "CANCELLING" THEN Interrupt ELSE UNCHANGED <<run, holder>>
       ELSE cancel' = "REFUSED" /\ UNCHANGED <<runner, record, run, holder>>
    /\ UNCHANGED <<supervisor, target, parent, trusted, call, recovery, lease, flags>>

\* A run whose check was started and left no record may have a process.
Unsafe == recovery.action = "BLOCKED" \/ (recovery.action = "NO_RECORD" /\ run.current # 0)

CancelRecovered ==
    /\ Running /\ cancel = "RECOVER" /\ recovery.phase = "DONE"
    /\ recovery' = NoRecovery
    /\ IF Unsafe
       THEN cancel' = "REFUSED" /\ UNCHANGED <<record, run, holder>>
       ELSE cancel' = "NONE" /\ Interrupt /\ RemoveRecord
    /\ UNCHANGED <<supervisor, target, parent, trusted, call, lease, flags, runner>>

----
(* Stop, crash and start of the daemon *)

\* verificationRunner.stop asks every active loop to stop.
StopDaemon ==
    /\ daemon = "UP" /\ crashes < MaxCrashes
    /\ daemon' = "STOPPING" /\ crashes' = crashes + 1
    /\ runner' = IF runner.phase = "IDLE" THEN runner ELSE [runner EXCEPT !.stopRequested = TRUE]
    /\ UNCHANGED <<svars, rows, masked, cancel>>

Exit ==
    /\ daemon' = "DOWN" /\ parent' = FALSE /\ call' = NoCall /\ recovery' = NoRecovery
    /\ runner' = NoRunner /\ cancel' = "NONE"
    /\ UNCHANGED <<supervisor, target, trusted, lease, masked, crashes>>

\* Mutant: stop interrupts whatever run the loop had.
StopOwes_Always == run.status # "NONE"
\* A check may have completed the run while stop waited for the loop.
StopOwes == run.status \in Active
\* Its rest: a loop whose stop is confirmed leaves a finished run behind.
StopEnds ==
    /\ daemon = "STOPPING" /\ runner.phase \in {"IDLE", "END"}
    /\ IF runner.phase = "END" /\ runner.stopRequested /\ runner.stopConfirmed
       THEN RemoveRecord /\ IF StopOwes THEN Interrupt ELSE UNCHANGED <<run, holder>>
       ELSE UNCHANGED <<record, run, holder>>
    /\ Exit

Crash ==
    /\ daemon # "DOWN" /\ crashes < MaxCrashes
    /\ daemon' = "DOWN" /\ crashes' = crashes + 1
    /\ parent' = FALSE /\ call' = NoCall /\ recovery' = NoRecovery
    /\ runner' = NoRunner /\ cancel' = "NONE"
    /\ UNCHANGED <<record, supervisor, target, trusted, rows, masked>>

\* What RECONCILE_WORKFLOWS does with an active run whose processes are accounted for.
Reconcile == IF run.status \in Active THEN Interrupt /\ RemoveRecord ELSE UNCHANGED <<record, run, holder>>

\* The first reconciliation ends what the stages left, then the records of active runs are read.
StartDaemon ==
    /\ daemon = "DOWN"
    /\ daemon' = "STARTING" /\ lease' = [i \in Item |-> FALSE]
    /\ IF run.status \in Active THEN BeginRecovery ELSE UNCHANGED recovery
    /\ UNCHANGED <<processes, call, run, holder, crashes, masked, locals>>

\* An unsafe recovery fails the start; a safe one interrupts the run.
StartEnds ==
    /\ daemon = "STARTING" /\ recovery.phase \in {"NONE", "DONE"}
    /\ recovery' = NoRecovery
    /\ IF recovery.phase = "DONE" /\ Unsafe
       THEN daemon' = "DOWN" /\ UNCHANGED <<record, run, holder>>
       ELSE daemon' = "UP" /\ Reconcile
    /\ UNCHANGED <<supervisor, target, parent, trusted, call, lease, crashes, masked, locals>>

----

LoopMoves   == LoopHead \/ StartCheck \/ ExecuteRecipe \/ RecipeReturns \/ CleanUp \/ LoopEnds
DaemonMoves == StopDaemon \/ StopEnds \/ Crash \/ StartDaemon \/ StartEnds
Next ==
    \/ LoopMoves \/ RecipeFails \/ Abort
    \/ CancelRequest \/ CancelWaited \/ CancelRecovered
    \/ DaemonMoves \/ StartVerification
    \/ \E i \in Item : AcquireLease(i) \/ ReleaseLease(i)
    \/ (SupervisionMoves /\ UNCHANGED <<rows, flags, locals>>)

Spec == Init /\ [][Next]_vars

----
(* Properties *)

\* The directory is given back only after the process tree of the last check is gone:
\* CANCELLING, a crash and a failed stop keep it.
TreeGoneOnRelease == TargetLives => holder

\* The same but for the stops that observationFor records under another name, and for a
\* supervisor that left recovery without its STOPPED record.
TreeGoneUnlessMasked == TargetLives => holder \/ masked \/ trusted

\* A target starts only for the run's own check, under the run's reservation, whatever
\* supervisor of an earlier daemon is still about.
NothingStartsUnreserved == [][target # "ALIVE" /\ target' = "ALIVE" => holder /\ run.current # 0]_vars

\* A run that ended stays as it ended, and with it the directory: no late result, cancel or
\* restart ends it twice.
EndsOnce == [][run.status \in Terminal => UNCHANGED <<run, holder>>]_vars

\* The working directory as module Authority sees it.
Directory == IF Shared THEN {Own} ELSE Item
Owner     == Item \X {"STAGE", "CHECKS"}
HoldersOf(i) == (IF lease[i] THEN {<<i, "STAGE">>} ELSE {}) \cup (IF i = Own /\ holder THEN {<<i, "CHECKS">>} ELSE {})
Holders == [d \in Directory |-> IF Shared THEN UNION {HoldersOf(i) : i \in Item} ELSE HoldersOf(d)]

A == INSTANCE Authority WITH holders <- Holders

\* Stages, checks, cancels and restarts together never give one directory two owners.
ExclusiveDirectory == A!Spec

\* What the daemon and the supervisor owe as long as they live.
Fairness ==
    /\ WF_vars(LoopMoves \/ RecipeFails \/ Abort) /\ WF_vars(CancelWaited \/ CancelRecovered)
    /\ WF_vars(SupervisorMoves /\ UNCHANGED <<rows, flags, locals>>)
    /\ WF_vars((RecoveryMoves \/ CallMoves) /\ UNCHANGED <<rows, flags, locals>>)
    /\ WF_vars(StopEnds) /\ WF_vars(StartEnds)
FairSpec == Spec /\ Fairness

\* A cancel comes to an end: the run is interrupted, the request is refused, or the daemon went.
CancelSettles == run.status = "CANCELLING" ~> (run.status = "INTERRUPTED" \/ cancel = "REFUSED" \/ daemon = "DOWN")
=============================================================================
