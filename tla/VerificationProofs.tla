------------------------- MODULE VerificationProofs -------------------------
\* Theorems about module VerificationRun, for every plan of checks, every
\* set of WorkItems and every fault its constants allow: a project
\* verification never lets go of the working directory while a process of
\* it may be alive, and shares it with nobody.
EXTENDS VerificationRun, TLAPS

USE ItemAssumption, CheckAssumption

----
(* The rows *)

\* Every decision about the run yields a row.
LEMMA NewRunType == NewRun \in Run
BY DEF NewRun, Run, Check, CheckStatus, Active

LEMMA CheckStartedType ==
    ASSUME run \in Run, NEW c \in Check
    PROVE  CheckStarted(c) \in Run
BY DEF CheckStarted, Run, CheckStatus, Active

\* A run that ends a check ends with a verdict, and has no check any more.
LEMMA CheckCompletedType ==
    ASSUME run \in Run, run.current \in Check, NEW s \in {"PASSED", "FAILED", "ERROR", "INTERRUPTED"}
    PROVE  /\ CheckCompleted(s) \in Run
           /\ CheckCompleted(s).status \in {"RUNNING", "PASSED", "FAILED", "ERROR"}
           /\ CheckCompleted(s).current = 0
<1> DEFINE checks == [run.checks EXCEPT ![run.current] = s]
           verdict == Verdict(run.current, s, checks)
<1>1. checks \in [Check -> CheckStatus]
  BY DEF Run, CheckStatus
<1>2. verdict \in {"RUNNING", "PASSED", "FAILED", "ERROR"}
  BY DEF Verdict
<1>3. CheckCompleted(s) = [status |-> verdict, checks |-> checks, current |-> 0,
                           reason |-> IF verdict = "RUNNING" THEN "NONE" ELSE "CHECKS"]
  BY DEF CheckCompleted
<1> HIDE DEF checks, verdict
<1> QED BY <1>1, <1>2, <1>3 DEF Run, Active, Terminal

LEMMA CancellingType ==
    ASSUME run \in Run
    PROVE  Cancelling \in Run /\ Cancelling.status = "CANCELLING" /\ Cancelling.current = run.current
BY DEF Cancelling, Run, Active

LEMMA InterruptedType ==
    ASSUME run \in Run, NEW reason \in {"OWNER_CANCELLED", "DAEMON_RESTART"}
    PROVE  /\ Interrupted(reason) \in Run
           /\ Interrupted(reason).status = "INTERRUPTED" /\ Interrupted(reason).current = 0
BY DEF Interrupted, Run, CheckStatus, Active, Terminal

----
(* The inductive invariant *)

\* No process of the project lives, or the runner and the recovery recorded it under another name.
Safe == ~TargetLives \/ masked \/ trusted

\* A daemon that is down or starting runs no loop and serves no cancel.
DownIsIdle == daemon \in {"DOWN", "STARTING"} => runner.phase = "IDLE" /\ cancel = "NONE"

\* A run nobody started has no loop; a cancel that recovers has none either, and owns its run.
UnbegunIsIdle == run.status = "NONE" => runner.phase = "IDLE"
RecoverIsIdle == cancel = "RECOVER" => runner.phase = "IDLE" /\ run.status = "CANCELLING"

\* Records are read for a cancel or at a start, and a start reads them when a run is active.
RecoveryHasCause == recovery.phase # "NONE" => cancel = "RECOVER" \/ daemon = "STARTING"
StartReads == daemon = "STARTING" /\ recovery.phase = "NONE" => run.status \notin Active
RecoverySaw ==
    /\ recovery.phase \in {"TARGET", "SUPERVISOR", "GRACE", "FINAL"} => recovery.seen \in {"READY", "RUNNING"}
    /\ recovery.phase = "DONE" => recovery.action # "NONE"

\* A recipe executes for the check of a run that is not over; a call belongs to a recipe, and a
\* supervisor with a living daemon to a call.
ExecHasCheck == runner.phase = "EXEC" => run.status \in {"RUNNING", "CANCELLING"} /\ run.current # 0
CallIsExec == call.phase # "IDLE" => runner.phase = "EXEC"
SupervisorIsCalled == parent /\ SupervisorLives => call.phase \in {"WAITING", "STOPPING"}
FrameIsReady == parent /\ supervisor \in {"IDLE", "FRAMED"} => record = "READY"

\* A run that is not active works on no check.
EndedHasNoCheck == run.status \notin Active => run.current = 0

\* Where nothing of the tree lives: without a check, behind the records that say so, after a
\* confirmed stop, before and after a call, and behind a recovery that found the target.
NoCheckIsSafe == run.current = 0 => Safe
RecordIsSafe == record \in {"INTENT", "STOPPED"} => Safe
ConfirmedIsSafe ==
    /\ runner.phase \in {"LOOP", "INTENT", "CLEAN"} => runner.stopConfirmed
    /\ runner.phase \in {"LOOP", "INTENT", "CLEAN", "END"} /\ runner.stopConfirmed => Safe
CallIsSafe ==
    runner.phase = "EXEC" =>
        /\ call.phase = "IDLE" => Safe
        /\ call.phase = "DONE" /\ call.why # "TERMINATION_FAILED" => Safe
RecoveryIsSafe ==
    /\ recovery.seen = "RUNNING" /\ recovery.phase \in {"SUPERVISOR", "GRACE", "FINAL"} => ~TargetLives
    /\ recovery.phase = "DONE" /\ recovery.action \in {"CONFIRMED", "KILLED"} => Safe

\* Who may act.
Roles ==
    /\ DownIsIdle /\ UnbegunIsIdle /\ RecoverIsIdle
    /\ RecoveryHasCause /\ StartReads /\ RecoverySaw
    /\ ExecHasCheck /\ CallIsExec /\ SupervisorIsCalled /\ FrameIsReady /\ EndedHasNoCheck
\* When the tree is gone.
Gone == NoCheckIsSafe /\ RecordIsSafe /\ ConfirmedIsSafe /\ CallIsSafe /\ RecoveryIsSafe

VInv == TypeOK /\ Roles /\ Gone

----
(* Types *)

\* What a step of a recovery, a call and a supervisor's exit leave behind has its type.
LEMMA RecoveryStepType ==
    ASSUME recovery \in Recovery
    PROVE  /\ \A a \in {"NONE", "NO_RECORD", "CONFIRMED", "KILLED", "BLOCKED"} :
                /\ Report(a) \in Recovery /\ Report(a).phase = "DONE" /\ Report(a).action = a
                /\ Report(a).seen = recovery.seen
           /\ \A p \in {"TARGET", "SUPERVISOR", "GRACE", "FINAL"} :
                /\ [recovery EXCEPT !.phase = p] \in Recovery
                /\ [recovery EXCEPT !.phase = p].phase = p
                /\ [recovery EXCEPT !.phase = p].seen = recovery.seen
BY DEF Report, Recovery

LEMMA CallStepType ==
    ASSUME call \in Call
    PROVE  /\ [call EXCEPT !.exited = TRUE] \in Call
           /\ \A w \in Termination : [call EXCEPT !.phase = "STOPPING", !.why = w] \in Call
           /\ Settled \in Termination
           /\ [call EXCEPT !.phase = "DONE", !.why = Settled] \in Call
<1>1. Settled \in Termination
  BY DEF Settled, Termination, Call
<1> HIDE DEF Settled
<1> QED BY <1>1 DEF Call

\* The moves of the processes keep the types of what they share.
LEMMA SupervisionMovesType ==
    ASSUME SupervisionTypeOK, SupervisionMoves
    PROVE  SupervisionTypeOK'
<1> USE DEF SupervisionTypeOK, RecordState, SupervisorState, TargetState
<1>1. CASE SupervisorMoves
  <2>1. CASE Boot
    BY <2>1 DEF Boot
  <2>2. CASE StartTarget
    BY <2>2 DEF StartTarget
  <2>3. CASE RecordTarget
    BY <2>3 DEF RecordTarget
  <2>4. CASE ReportExit
    BY <2>4, CallStepType DEF ReportExit
  <2>5. CASE StopTree
    BY <2>5 DEF StopTree, TreeStopped, Reaped, Leave
  <2>6. CASE HearStop
    BY <2>6 DEF HearStop
  <2> QED BY <1>1, <2>1, <2>2, <2>3, <2>4, <2>5, <2>6 DEF SupervisorMoves
<1>2. CASE TargetExits \/ SupervisorDies
  BY <1>2 DEF TargetExits, SupervisorDies
<1>3. CASE RecoveryMoves
  <2>1. CASE RecoverTarget
    BY <2>1, RecoveryStepType DEF RecoverTarget, TargetProved, GoOn, Blocked
  <2>2. CASE RecoverSupervisor
    BY <2>2, RecoveryStepType DEF RecoverSupervisor, GoOn, Blocked
  <2>3. CASE RecoverGrace
    BY <2>3, RecoveryStepType DEF RecoverGrace, GoOn, Blocked, processes
  <2>4. CASE RecoverFinal
    BY <2>4, RecoveryStepType DEF RecoverFinal, Blocked
  <2> QED BY <1>3, <2>1, <2>2, <2>3, <2>4 DEF RecoveryMoves
<1>4. CASE CallMoves
  <2>1. CASE SendFrame \/ ForceStop
    BY <2>1 DEF SendFrame, ForceStop
  <2>2. CASE Close
    BY <2>2, CallStepType DEF Close, processes
  <2> QED BY <1>4, <2>1, <2>2 DEF CallMoves
<1>5. ASSUME NEW reason \in {"LIMIT", "TERMINATION_FAILED"}, Stop(reason)
      PROVE  SupervisionTypeOK'
  BY <1>5, CallStepType DEF Stop, Termination, processes
<1> QED BY <1>1, <1>2, <1>3, <1>4, <1>5 DEF SupervisionMoves

\* The absent call and recovery have their types, and a recovery begins with one.
LEMMA AbsentType == NoCall \in Call /\ NoRecovery \in Recovery /\ NoRunner \in Runner
BY DEF NoCall, NoRecovery, NoRunner, Call, Recovery, Runner, Termination, RecordState

LEMMA BeginRecoveryType ==
    ASSUME record \in RecordState, BeginRecovery
    PROVE  /\ recovery' \in Recovery /\ recovery'.phase # "NONE"
           /\ RecoverySaw'
           /\ recovery'.phase \notin {"SUPERVISOR", "GRACE", "FINAL"} \/ recovery'.seen = "READY"
           /\ recovery'.phase = "DONE" /\ recovery'.action = "CONFIRMED" => record \in {"INTENT", "STOPPED"}
           /\ recovery'.phase = "DONE" => recovery'.action # "KILLED"
BY DEF BeginRecovery, Recovery, RecordState, RecoverySaw

\* What a step changes of the loop's entry keeps its type.
LEMMA RunnerStepType ==
    ASSUME runner \in Runner
    PROVE  /\ \A p \in {"IDLE", "LOOP", "INTENT", "EXEC", "CLEAN", "END"} : \A b \in BOOLEAN :
                /\ [runner EXCEPT !.phase = p] \in Runner
                /\ [runner EXCEPT !.phase = p, !.stopConfirmed = b] \in Runner
                /\ [NoRunner EXCEPT !.phase = p] \in Runner
           /\ [runner EXCEPT !.stopRequested = TRUE] \in Runner
BY DEF Runner, NoRunner

\* The observations name what the domain accepts.
LEMMA ObservationType ==
    ASSUME call \in Call, NEW o \in Observations
    PROVE  o.status \in {"PASSED", "FAILED", "ERROR", "INTERRUPTED"} /\ o.stopped \in BOOLEAN
<1>1. CASE call.phase = "IDLE"
  <2>1. Observations = {[status |-> "ERROR", stopped |-> TRUE]}
    BY <1>1, Zenon DEF Observations
  <2>2. o = [status |-> "ERROR", stopped |-> TRUE]
    BY <2>1, Zenon
  <2> QED BY <2>2
<1>2. CASE call.phase # "IDLE"
  <2> DEFINE statuses == CASE call.why = "EXITED" -> {"PASSED", "FAILED", "ERROR"}
                           [] call.why = "CANCELLED" -> {"INTERRUPTED"}
                           [] OTHER -> {"ERROR"}
  <2>1. statuses \subseteq {"PASSED", "FAILED", "ERROR", "INTERRUPTED"}
    OBVIOUS
  <2>2. \/ o \in [status : statuses, stopped : {call.why # "TERMINATION_FAILED"}]
        \/ o = [status |-> "ERROR", stopped |-> TRUE]
    BY <1>2 DEF Observations
  <2> HIDE DEF statuses
  <2>3. CASE o \in [status : statuses, stopped : {call.why # "TERMINATION_FAILED"}]
    <3>1. o.status \in statuses /\ o.stopped = (call.why # "TERMINATION_FAILED")
      BY <2>3
    <3> QED BY <2>1, <3>1
  <2>4. CASE o = [status |-> "ERROR", stopped |-> TRUE]
    BY <2>4
  <2> QED BY <2>2, <2>3, <2>4
<1> QED BY <1>1, <1>2

LEMMA InterruptType ==
    ASSUME run \in Run, Interrupt
    PROVE  run' \in Run /\ run'.status = "INTERRUPTED" /\ run'.current = 0 /\ holder' = FALSE
BY InterruptedType DEF Interrupt

LEMMA CompleteType ==
    ASSUME run \in Run, run.current \in Check, NEW s \in {"PASSED", "FAILED", "ERROR", "INTERRUPTED"}, Complete(s)
    PROVE  /\ run' \in Run /\ run'.current = 0
           /\ run'.status \in {"RUNNING", "PASSED", "FAILED", "ERROR"}
           /\ holder' = (run'.status = "RUNNING")
BY CheckCompletedType DEF Complete

LEMMA TypeStep ==
    ASSUME TypeOK, ExecHasCheck, [Next]_vars
    PROVE  TypeOK'
<1> USE DEF TypeOK
<1> USE DEF svars, processes, rows, flags, locals
<1>0. RemoveRecord => record' \in RecordState
  BY DEF RemoveRecord, SupervisionTypeOK, RecordState
<1>1. CASE LoopHead
  <2>1. runner' \in Runner
    BY <1>1, RunnerStepType DEF LoopHead, To
  <2>2. /\ record' \in {record, "INTENT"} /\ supervisor' \in {supervisor, "NONE"}
        /\ target' \in {target, "NONE"}
    BY <1>1 DEF LoopHead
  <2>3. SupervisionTypeOK'
    BY <1>1, <2>2 DEF LoopHead, SupervisionTypeOK, RecordState, SupervisorState, TargetState
  <2> QED BY <1>1, <2>1, <2>3 DEF LoopHead
<1>2. CASE StartCheck
  <2>1. CASE run.status \in {"QUEUED", "RUNNING"}
    <3>1. PICK c \in NextCheck : run' = CheckStarted(c)
      BY <1>2, <2>1 DEF StartCheck
    <3>2. c \in Check
      BY DEF NextCheck
    <3>3. run' \in Run /\ run'.status = "RUNNING"
      BY <3>1, <3>2, CheckStartedType DEF CheckStarted, Run
    <3> QED BY <1>2, <2>1, <3>3, RunnerStepType, AbsentType DEF StartCheck, SupervisionTypeOK, Active
  <2>2. CASE run.status \notin {"QUEUED", "RUNNING"}
    BY <1>0, <1>2, <2>2, RunnerStepType DEF StartCheck, To, SupervisionTypeOK
  <2> QED BY <2>1, <2>2
<1>3. CASE ExecuteRecipe
  <2>1. /\ call' \in Call /\ supervisor' \in SupervisorState /\ parent' \in BOOLEAN
    <3>1. /\ [NoCall EXCEPT !.phase = "WAITING"] \in Call
          /\ [NoCall EXCEPT !.phase = "DONE", !.why = "SPAWN_FAILED"] \in Call
      BY DEF NoCall, Call, Termination
    <3> QED BY <1>3, <3>1 DEF ExecuteRecipe, SpawnSupervisor, SupervisionTypeOK, SupervisorState
  <2> QED BY <1>3, <2>1 DEF ExecuteRecipe, SpawnSupervisor, SupervisionTypeOK
<1>4. CASE RecipeReturns
  <2>1. PICK o \in Observations :
          /\ masked' = (masked \/ (o.stopped /\ call.phase = "DONE" /\ call.why = "TERMINATION_FAILED"))
          /\ IF Confirmed(o) /\ ~runner.stopRequested /\ run.status = "RUNNING"
             THEN /\ Complete(o.status)
                  /\ runner' = [runner EXCEPT !.phase = "CLEAN", !.stopConfirmed = TRUE]
             ELSE /\ runner' = [runner EXCEPT !.phase = "END", !.stopConfirmed = Confirmed(o)]
                  /\ UNCHANGED <<run, holder>>
    BY <1>4 DEF RecipeReturns
  <2>2. o.status \in {"PASSED", "FAILED", "ERROR", "INTERRUPTED"} /\ o.stopped \in BOOLEAN
    BY ObservationType DEF SupervisionTypeOK
  <2>3. run.current \in Check
    BY <1>4 DEF RecipeReturns, At, ExecHasCheck, Run
  <2>4. run' \in Run /\ holder' \in BOOLEAN /\ (holder' <=> run'.status \in Active)
    BY <2>1, <2>2, <2>3, CompleteType DEF Active
  <2>5. runner' \in Runner
    BY <2>1, <2>2, RunnerStepType DEF Confirmed
  <2>6. masked' \in BOOLEAN
    BY <2>1
  <2>7. SupervisionTypeOK'
    BY <1>4, AbsentType DEF RecipeReturns, SupervisionTypeOK
  <2> QED BY <1>4, <2>4, <2>5, <2>6, <2>7 DEF RecipeReturns
<1>5. CASE CleanUp
  BY <1>0, <1>5, RunnerStepType DEF CleanUp, To, SupervisionTypeOK
<1>6. CASE LoopEnds
  BY <1>6, AbsentType DEF LoopEnds, SupervisionTypeOK
<1>7. CASE RecipeFails
  BY <1>7, RunnerStepType, AbsentType DEF RecipeFails, SupervisionTypeOK
<1>8. CASE Abort
  BY <1>8, CallStepType DEF Abort, Stop, SupervisionTypeOK, Termination
<1>9. CASE CancelRequest
  BY <1>9, CancellingType, BeginRecoveryType, RunnerStepType DEF CancelRequest, SupervisionTypeOK, Active
<1>10. CASE CancelWaited
  <2>1. run' \in Run /\ holder' \in BOOLEAN /\ (holder' <=> run'.status \in Active)
    BY <1>10, InterruptType DEF CancelWaited, Active
  <2>2. record' \in RecordState
    BY <1>0, <1>10 DEF CancelWaited, SupervisionTypeOK
  <2> QED BY <1>10, <2>1, <2>2, AbsentType DEF CancelWaited, SupervisionTypeOK
<1>11. CASE CancelRecovered
  <2>1. run' \in Run /\ holder' \in BOOLEAN /\ (holder' <=> run'.status \in Active)
    BY <1>11, InterruptType DEF CancelRecovered, Active
  <2>2. record' \in RecordState
    BY <1>0, <1>11 DEF CancelRecovered, SupervisionTypeOK
  <2> QED BY <1>11, <2>1, <2>2, AbsentType DEF CancelRecovered, SupervisionTypeOK
<1>12. CASE StopDaemon
  <2>1. crashes' \in 0 .. MaxCrashes
    BY <1>12 DEF StopDaemon, CheckAssumption
  <2>2. runner' \in Runner
    BY <1>12, RunnerStepType DEF StopDaemon
  <2>3. SupervisionTypeOK'
    BY <1>12 DEF StopDaemon, SupervisionTypeOK
  <2> QED BY <1>12, <2>1, <2>2, <2>3 DEF StopDaemon
<1>13. CASE StopEnds
  <2>1. run' \in Run /\ holder' \in BOOLEAN /\ (holder' <=> run'.status \in Active)
    BY <1>13, InterruptType DEF StopEnds, Active
  <2>2. record' \in RecordState
    BY <1>0, <1>13 DEF StopEnds, SupervisionTypeOK
  <2> QED BY <1>13, <2>1, <2>2, AbsentType DEF StopEnds, Exit, SupervisionTypeOK
<1>14. CASE Crash
  <2>1. crashes' \in 0 .. MaxCrashes
    BY <1>14 DEF Crash, CheckAssumption
  <2>2. SupervisionTypeOK'
    BY <1>14, AbsentType DEF Crash, SupervisionTypeOK
  <2> QED BY <1>14, <2>1, <2>2, AbsentType DEF Crash
<1>15. CASE StartDaemon
  BY <1>15, BeginRecoveryType DEF StartDaemon, SupervisionTypeOK
<1>16. CASE StartEnds
  <2>1. run' \in Run /\ holder' \in BOOLEAN /\ (holder' <=> run'.status \in Active)
    BY <1>16, InterruptType DEF StartEnds, Reconcile, Active
  <2>2. record' \in RecordState
    BY <1>0, <1>16 DEF StartEnds, Reconcile, SupervisionTypeOK
  <2> QED BY <1>16, <2>1, <2>2, AbsentType DEF StartEnds, SupervisionTypeOK
<1>17. CASE StartVerification
  BY <1>17, NewRunType, RunnerStepType DEF StartVerification, Reserve, Wake, NewRun, SupervisionTypeOK, Active
<1>18. ASSUME NEW i \in Item, AcquireLease(i) \/ ReleaseLease(i)
       PROVE  TypeOK'
  <2>1. lease' \in [Item -> BOOLEAN]
    BY <1>18 DEF AcquireLease, ReleaseLease
  <2>2. UNCHANGED <<svars, run, holder, flags, locals>>
    BY <1>18 DEF AcquireLease, ReleaseLease
  <2> QED BY <2>1, <2>2 DEF SupervisionTypeOK
<1>19. CASE SupervisionMoves /\ UNCHANGED <<rows, flags, locals>>
  BY <1>19, SupervisionMovesType
<1>20. CASE UNCHANGED vars
  BY <1>20 DEF vars, SupervisionTypeOK
<1>21. QED
  BY <1>1, <1>2, <1>3, <1>4, <1>5, <1>6, <1>7, <1>8, <1>9, <1>10, <1>11, <1>12, <1>13, <1>14,
     <1>15, <1>16, <1>17, <1>18, <1>19, <1>20 DEF Next, LoopMoves, DaemonMoves

----
(* Who may act *)

\* The moves of the processes start and end nothing of the runner's.
LEMMA SupervisionMovesRoles ==
    ASSUME TypeOK, Roles, SupervisionMoves, UNCHANGED <<rows, flags, locals>>
    PROVE  Roles'
<1> USE DEF rows, flags, locals
<1>1. UNCHANGED <<run, daemon, runner, cancel>>
  OBVIOUS
<1>2. DownIsIdle' /\ UnbegunIsIdle' /\ RecoverIsIdle' /\ ExecHasCheck' /\ EndedHasNoCheck'
  BY <1>1 DEF Roles, DownIsIdle, UnbegunIsIdle, RecoverIsIdle, ExecHasCheck, EndedHasNoCheck
<1>3. recovery'.phase = recovery.phase \/ (recovery.phase # "NONE" /\ recovery'.phase # "NONE")
  BY RecoveryStepType
  DEF TypeOK, SupervisionTypeOK, SupervisionMoves, SupervisorMoves, Boot, StartTarget, RecordTarget, ReportExit,
      StopTree, HearStop, TargetExits, SupervisorDies, CallMoves, SendFrame, ForceStop, Close, Stop,
      RecoveryMoves, RecoverTarget, RecoverSupervisor, RecoverGrace, RecoverFinal, GoOn, Blocked
<1>4. RecoveryHasCause' /\ StartReads'
  BY <1>1, <1>3 DEF Roles, RecoveryHasCause, StartReads
<1>5. RecoverySaw'
  BY RecoveryStepType
  DEF TypeOK, SupervisionTypeOK, SupervisionMoves, SupervisorMoves, Boot, StartTarget, RecordTarget, ReportExit,
      StopTree, HearStop, TargetExits, SupervisorDies, CallMoves, SendFrame, ForceStop, Close, Stop,
      RecoveryMoves, RecoverTarget, RecoverSupervisor, RecoverGrace, RecoverFinal, GoOn, Blocked,
      Roles, RecoverySaw
<1>6. CallIsExec' /\ SupervisorIsCalled' /\ FrameIsReady'
  <2> USE DEF Roles, CallIsExec, SupervisorIsCalled, FrameIsReady, SupervisorLives
  <2>1. CASE Boot \/ StartTarget \/ RecordTarget \/ TargetExits \/ SupervisorDies \/ HearStop
    BY <1>1, <2>1 DEF Boot, StartTarget, RecordTarget, TargetExits, SupervisorDies, HearStop
  <2>2. CASE ReportExit
    BY <1>1, <2>2, CallStepType DEF ReportExit, TypeOK, SupervisionTypeOK, Call
  <2>3. CASE StopTree
    BY <1>1, <2>3 DEF StopTree, TreeStopped, Leave
  <2>4. CASE RecoveryMoves
    BY <1>1, <2>4
    DEF RecoveryMoves, RecoverTarget, RecoverSupervisor, RecoverGrace, RecoverFinal, processes
  <2>5. CASE SendFrame \/ ForceStop
    BY <1>1, <2>5 DEF SendFrame, ForceStop
  <2>6. CASE Close
    BY <1>1, <2>6 DEF Close, Closed, processes
  <2>7. ASSUME NEW reason \in {"LIMIT", "TERMINATION_FAILED"}, Stop(reason)
        PROVE  CallIsExec' /\ SupervisorIsCalled' /\ FrameIsReady'
    BY <1>1, <2>7 DEF Stop, processes, TypeOK, SupervisionTypeOK, Call
  <2> QED BY <2>1, <2>2, <2>3, <2>4, <2>5, <2>6, <2>7 DEF SupervisionMoves, SupervisorMoves, CallMoves
<1> QED BY <1>2, <1>4, <1>5, <1>6 DEF Roles

LEMMA RolesStep ==
    ASSUME TypeOK, Roles, [Next]_vars
    PROVE  Roles'
<1> USE DEF Roles, DownIsIdle, UnbegunIsIdle, RecoverIsIdle, RecoveryHasCause, StartReads, RecoverySaw,
            ExecHasCheck, CallIsExec, SupervisorIsCalled, FrameIsReady, EndedHasNoCheck, SupervisorLives
<1> USE DEF TypeOK, SupervisionTypeOK, svars, processes, rows, flags, locals
<1>0. /\ NoRunner.phase = "IDLE" /\ NoCall.phase = "IDLE" /\ NoRecovery.phase = "NONE"
      /\ \A p \in {"IDLE", "LOOP", "INTENT", "EXEC", "CLEAN", "END"} : \A b \in BOOLEAN :
           /\ [runner EXCEPT !.phase = p].phase = p
           /\ [runner EXCEPT !.phase = p, !.stopConfirmed = b].phase = p
           /\ [NoRunner EXCEPT !.phase = p].phase = p
      /\ [runner EXCEPT !.stopRequested = TRUE].phase = runner.phase
  BY DEF NoRunner, NoCall, NoRecovery, Runner
<1>1. CASE LoopHead
  BY <1>0, <1>1 DEF LoopHead, At, Running, To
<1>2. CASE StartCheck
  <2>1. CASE run.status \in {"QUEUED", "RUNNING"}
    <3>1. PICK c \in NextCheck : run' = CheckStarted(c)
      BY <1>2, <2>1 DEF StartCheck
    <3>2. c \in Check /\ c # 0
      BY DEF NextCheck, Check
    <3>3. run'.status = "RUNNING" /\ run'.current = c
      BY <3>1 DEF CheckStarted, Run
    <3> QED BY <1>0, <1>2, <2>1, <3>2, <3>3 DEF StartCheck, At, Running, Active
  <2>2. CASE run.status \notin {"QUEUED", "RUNNING"}
    BY <1>0, <1>2, <2>2 DEF StartCheck, At, Running, To, RemoveRecord
  <2> QED BY <2>1, <2>2
<1>3. CASE ExecuteRecipe
  <2>1. /\ [NoCall EXCEPT !.phase = "WAITING"].phase = "WAITING"
        /\ [NoCall EXCEPT !.phase = "DONE", !.why = "SPAWN_FAILED"].phase = "DONE"
    BY DEF NoCall
  <2>2. QED
    <3>1. /\ call'.phase \in {"WAITING", "DONE"}
          /\ \/ supervisor' = "BOOTING" /\ call'.phase = "WAITING"
             \/ UNCHANGED <<supervisor, parent>> /\ call.phase = "IDLE"
      BY <1>3, <2>1 DEF ExecuteRecipe, SpawnSupervisor
    <3>2. runner.phase = "EXEC" /\ UNCHANGED <<record, recovery, run, daemon, runner, cancel>>
      BY <1>3 DEF ExecuteRecipe, SpawnSupervisor, At
    <3> QED BY <3>1, <3>2
<1>4. CASE RecipeReturns
  <2>1. \/ run' = run
        \/ run'.status \in {"RUNNING", "PASSED", "FAILED", "ERROR"} /\ run'.current = 0
    <3>1. PICK o \in Observations :
            (Confirmed(o) /\ ~runner.stopRequested /\ run.status = "RUNNING" /\ Complete(o.status)) \/ UNCHANGED run
      BY <1>4 DEF RecipeReturns
    <3>2. o.status \in {"PASSED", "FAILED", "ERROR", "INTERRUPTED"} /\ run.current \in Check
      BY <1>4, ObservationType DEF RecipeReturns, At, Run
    <3> QED BY <3>1, <3>2, CompleteType
  <2>2. runner'.phase \in {"CLEAN", "END"}
    <3>1. PICK o \in Observations :
            \/ runner' = [runner EXCEPT !.phase = "CLEAN", !.stopConfirmed = TRUE]
            \/ runner' = [runner EXCEPT !.phase = "END", !.stopConfirmed = Confirmed(o)]
      BY <1>4 DEF RecipeReturns
    <3>2. o.stopped \in BOOLEAN
      BY ObservationType
    <3>3. QED
      <4>1. CASE runner' = [runner EXCEPT !.phase = "CLEAN", !.stopConfirmed = TRUE]
        BY <1>0, <4>1
      <4>2. CASE runner' = [runner EXCEPT !.phase = "END", !.stopConfirmed = Confirmed(o)]
        BY <1>0, <3>2, <4>2 DEF Confirmed
      <4> QED BY <3>1, <4>1, <4>2
  <2> QED BY <1>0, <1>4, <2>1, <2>2 DEF RecipeReturns, At, Running, Active
<1>5. CASE CleanUp
  BY <1>0, <1>5 DEF CleanUp, At, Running, To, RemoveRecord
<1>6. CASE LoopEnds
  BY <1>0, <1>6 DEF LoopEnds, At, Running
<1>7. CASE RecipeFails
  BY <1>0, <1>7 DEF RecipeFails, At, Running
<1>8. CASE Abort
  BY <1>0, <1>8 DEF Abort, Stop, At, Running, Call
<1>9. CASE CancelRequest
  <2>1. run'.status = "CANCELLING" /\ run'.current = run.current
    BY <1>9, CancellingType DEF CancelRequest
  <2>2. CASE runner.phase = "IDLE"
    <3>1. cancel' = "RECOVER" /\ recovery'.phase # "NONE" /\ RecoverySaw'
      BY <1>9, <2>2, BeginRecoveryType DEF CancelRequest
    <3> QED BY <1>9, <2>1, <2>2, <3>1 DEF CancelRequest, Active
  <2>3. CASE runner.phase # "IDLE"
    <3>1. cancel' = "WAIT" /\ runner'.phase = runner.phase /\ UNCHANGED <<recovery, daemon, svars>>
      BY <1>0, <1>9, <2>3 DEF CancelRequest
    <3>2. daemon = "UP" /\ run.status \in {"QUEUED", "RUNNING"}
      BY <1>9 DEF CancelRequest
    <3> QED BY <2>1, <2>3, <3>1, <3>2 DEF Active
  <2> QED BY <2>2, <2>3
<1>10. CASE CancelWaited
  BY <1>0, <1>10, InterruptType DEF CancelWaited, At, Running, RemoveRecord, Active
<1>11. CASE CancelRecovered
  BY <1>0, <1>11, InterruptType DEF CancelRecovered, At, Running, RemoveRecord, Active
<1>12. CASE StopDaemon
  BY <1>0, <1>12 DEF StopDaemon
<1>13. CASE StopEnds
  BY <1>0, <1>13, InterruptType DEF StopEnds, Exit
<1>14. CASE Crash
  BY <1>0, <1>14 DEF Crash
<1>15. CASE StartDaemon
  BY <1>0, <1>15, BeginRecoveryType DEF StartDaemon
<1>16. CASE StartEnds
  BY <1>0, <1>16, InterruptType DEF StartEnds, Reconcile, RemoveRecord
<1>17. CASE StartVerification
  BY <1>0, <1>17 DEF StartVerification, Reserve, Wake, NewRun, Active
<1>18. ASSUME NEW i \in Item, AcquireLease(i) \/ ReleaseLease(i)
       PROVE  Roles'
  BY <1>18 DEF AcquireLease, ReleaseLease
<1>19. CASE SupervisionMoves /\ UNCHANGED <<rows, flags, locals>>
  BY <1>19, SupervisionMovesRoles
<1>20. CASE UNCHANGED vars
  BY <1>20 DEF vars
<1>21. QED
  BY <1>1, <1>2, <1>3, <1>4, <1>5, <1>6, <1>7, <1>8, <1>9, <1>10, <1>11, <1>12, <1>13, <1>14,
     <1>15, <1>16, <1>17, <1>18, <1>19, <1>20 DEF Next, LoopMoves, DaemonMoves

----
(* When the tree is gone *)

\* What was gone stays gone unless a supervisor starts a target, and the history only grows.
LEMMA SafeStays ==
    ASSUME Safe, ~TargetLives => ~TargetLives', masked => masked', trusted => trusted'
    PROVE  Safe'
BY DEF Safe

\* A supervisor that starts a target does it for the call of a check that executes, and
\* nobody recovers at that time.
LEMMA StartIsCalled ==
    ASSUME TypeOK, Roles, supervisor = "FRAMED", parent
    PROVE  /\ runner.phase = "EXEC" /\ run.status \in {"RUNNING", "CANCELLING"} /\ run.current # 0
           /\ call.phase \in {"WAITING", "STOPPING"} /\ record = "READY" /\ recovery.phase = "NONE"
BY DEF Roles, SupervisorIsCalled, SupervisorLives, CallIsExec, ExecHasCheck, FrameIsReady,
       RecoveryHasCause, RecoverIsIdle, DownIsIdle

LEMMA SupervisionMovesGone ==
    ASSUME TypeOK, Roles, Gone, SupervisionMoves, UNCHANGED <<rows, flags, locals>>
    PROVE  Gone'
<1> USE DEF rows, flags, locals
<1>1. UNCHANGED <<run, daemon, runner, cancel, masked>>
  OBVIOUS
<1> USE DEF Gone, NoCheckIsSafe, RecordIsSafe, ConfirmedIsSafe, CallIsSafe, RecoveryIsSafe
<1>2. CASE StartTarget /\ parent /\ target' = "ALIVE"
  BY <1>1, <1>2, StartIsCalled DEF StartTarget
<1>3. CASE StartTarget /\ UNCHANGED target
  <2>1. Safe => Safe'
    BY <1>1, <1>3, SafeStays DEF StartTarget, TargetLives
  <2> QED BY <1>1, <1>3, <2>1 DEF StartTarget, TargetLives
<1>4. CASE Boot
  <2>1. (Safe => Safe') /\ UNCHANGED target /\ (record' = record \/ record' = "READY")
    BY <1>1, <1>4, SafeStays DEF Boot, TargetLives
  <2> QED BY <1>1, <1>4, <2>1 DEF Boot, TargetLives
<1>5. CASE RecordTarget
  <2>1. (Safe => Safe') /\ UNCHANGED target /\ (record' = record \/ record' = "RUNNING")
    BY <1>1, <1>5, SafeStays DEF RecordTarget, TargetLives
  <2> QED BY <1>1, <1>5, <2>1 DEF RecordTarget, TargetLives
<1>6. CASE TargetExits
  <2>1. (Safe => Safe') /\ (~TargetLives => ~TargetLives')
    BY <1>1, <1>6, SafeStays DEF TargetExits, TargetLives
  <2> QED BY <1>1, <1>6, <2>1 DEF TargetExits
<1>7. CASE ReportExit
  <2>1. (Safe => Safe') /\ UNCHANGED target
    BY <1>1, <1>7, SafeStays DEF ReportExit, TargetLives
  <2>2. call'.phase = call.phase /\ call'.why = call.why
    BY <1>7 DEF ReportExit, TypeOK, SupervisionTypeOK, Call
  <2> QED BY <1>1, <1>7, <2>1, <2>2 DEF ReportExit, TargetLives
<1>8. CASE StopTree
  <2>1. (Safe => Safe') /\ (~TargetLives => ~TargetLives') /\ (record' = record \/ Safe')
    BY <1>1, <1>8, SafeStays DEF StopTree, TreeStopped, Reaped, Leave, TargetLives, Safe
  <2> QED BY <1>1, <1>8, <2>1 DEF StopTree
<1>9. CASE HearStop \/ SupervisorDies \/ SendFrame \/ ForceStop
  <2>1. (Safe => Safe') /\ UNCHANGED <<record, target, call, recovery>>
    BY <1>1, <1>9, SafeStays DEF HearStop, SupervisorDies, SendFrame, ForceStop, TargetLives
  <2> QED BY <1>1, <2>1 DEF TargetLives
<1>10. CASE Close
  <2>1. (Safe => Safe') /\ UNCHANGED <<record, target, recovery>>
    BY <1>1, <1>10, SafeStays DEF Close, processes, TargetLives
  <2>2. call'.phase = "DONE" /\ call'.why = Settled
    BY <1>10 DEF Close, TypeOK, SupervisionTypeOK, Call
  <2>3. Settled # "TERMINATION_FAILED" => record = "STOPPED"
    BY DEF Settled
  <2> QED BY <1>1, <2>1, <2>2, <2>3 DEF TargetLives
<1>11. ASSUME NEW reason \in {"LIMIT", "TERMINATION_FAILED"}, Stop(reason)
       PROVE  Gone'
  <2>1. (Safe => Safe') /\ UNCHANGED <<record, target, recovery>> /\ call'.phase = "STOPPING"
    BY <1>1, <1>11, SafeStays DEF Stop, processes, TargetLives, TypeOK, SupervisionTypeOK, Call
  <2> QED BY <1>1, <2>1 DEF TargetLives
<1>12. CASE RecoverTarget
  <2>1. (Safe => Safe') /\ (~TargetLives => ~TargetLives') /\ UNCHANGED <<record, call>>
    BY <1>1, <1>12, SafeStays DEF RecoverTarget, TargetProved, TargetLives
  <2>2. \/ recovery'.phase = "DONE" /\ recovery'.action = "BLOCKED"
        \/ recovery'.phase = "SUPERVISOR" /\ ~TargetLives'
    BY <1>12, RecoveryStepType
    DEF RecoverTarget, TargetProved, TargetLives, TreeExists, Blocked, GoOn, TypeOK, SupervisionTypeOK
  <2> QED BY <1>1, <2>1, <2>2
<1>13. CASE RecoverSupervisor \/ RecoverGrace
  <2>1. (Safe => Safe') /\ UNCHANGED <<record, call, target>>
    BY <1>1, <1>13, SafeStays DEF RecoverSupervisor, RecoverGrace, processes, TargetLives
  <2>2. \/ recovery'.phase = "DONE" /\ recovery'.action = "BLOCKED"
        \/ recovery.phase \in {"SUPERVISOR", "GRACE"} /\ recovery'.phase \in {"GRACE", "FINAL"} /\ recovery'.seen = recovery.seen
    BY <1>13, RecoveryStepType DEF RecoverSupervisor, RecoverGrace, Blocked, GoOn, TypeOK, SupervisionTypeOK
  <2> QED BY <1>1, <2>1, <2>2 DEF TargetLives
<1>14. CASE RecoverFinal
  <2>1. (Safe => Safe') /\ UNCHANGED <<call, target>>
    BY <1>1, <1>14, SafeStays DEF RecoverFinal, TargetLives, TypeOK, SupervisionTypeOK
  <2>2. \/ recovery'.phase = "DONE" /\ recovery'.action = "BLOCKED" /\ UNCHANGED record
        \/ recovery'.phase = "DONE" /\ recovery'.action = "KILLED" /\ Safe'
    <3>1. recovery.phase = "FINAL" /\ recovery.seen \in {"READY", "RUNNING"}
      BY <1>14 DEF RecoverFinal, Roles, RecoverySaw
    <3>2. CASE recovery' = Report("BLOCKED") /\ UNCHANGED record
      BY <3>2, RecoveryStepType DEF TypeOK, SupervisionTypeOK
    <3>3. CASE /\ recovery' = Report("KILLED")
               /\ trusted' = (trusted \/ (recovery.seen = "READY" /\ record # "STOPPED"))
      <4>1. recovery'.phase = "DONE" /\ recovery'.action = "KILLED"
        BY <3>3, RecoveryStepType DEF TypeOK, SupervisionTypeOK
      <4>2. CASE recovery.seen = "RUNNING"
        <5>1. ~TargetLives'
          BY <2>1, <3>1, <4>2 DEF TargetLives
        <5> QED BY <4>1, <5>1 DEF Safe
      <4>3. CASE recovery.seen = "READY"
        <5>1. CASE record = "STOPPED"
          BY <2>1, <4>1, <5>1
        <5>2. CASE record # "STOPPED"
          BY <3>3, <4>1, <4>3, <5>2 DEF Safe
        <5> QED BY <5>1, <5>2
      <4> QED BY <3>1, <4>2, <4>3
    <3> QED BY <1>14, <3>2, <3>3 DEF RecoverFinal, Blocked
  <2> QED BY <1>1, <2>1, <2>2
<1>15. QED
  BY <1>2, <1>3, <1>4, <1>5, <1>6, <1>7, <1>8, <1>9, <1>10, <1>11, <1>12, <1>13, <1>14
  DEF SupervisionMoves, SupervisorMoves, CallMoves, RecoveryMoves, StartTarget

\* Where nothing of a call and of a recovery is left, the other parts of Gone are about the run,
\* the record and the loop alone.
LEMMA GoneStep ==
    ASSUME TypeOK, Roles, Gone, [Next]_vars
    PROVE  Gone'
<1> USE DEF Gone, NoCheckIsSafe, RecordIsSafe, ConfirmedIsSafe, CallIsSafe, RecoveryIsSafe
<1> USE DEF svars, processes, rows, flags, locals
<1>0. /\ NoRunner.phase = "IDLE" /\ NoCall.phase = "IDLE" /\ NoRecovery.phase = "NONE"
      /\ \A p \in {"IDLE", "LOOP", "INTENT", "EXEC", "CLEAN", "END"} : \A b \in BOOLEAN :
           /\ [runner EXCEPT !.phase = p].phase = p
           /\ [runner EXCEPT !.phase = p].stopConfirmed = runner.stopConfirmed
           /\ [runner EXCEPT !.phase = p, !.stopConfirmed = b].phase = p
           /\ [runner EXCEPT !.phase = p, !.stopConfirmed = b].stopConfirmed = b
           /\ [NoRunner EXCEPT !.phase = p].phase = p
           /\ [NoRunner EXCEPT !.phase = p].stopConfirmed
      /\ [runner EXCEPT !.stopRequested = TRUE].phase = runner.phase
      /\ [runner EXCEPT !.stopRequested = TRUE].stopConfirmed = runner.stopConfirmed
  BY DEF NoRunner, NoCall, NoRecovery, Runner, TypeOK
<1>01. RemoveRecord => record' \in {"NONE", record}
  BY DEF RemoveRecord
<1>02. UNCHANGED <<target, trusted, masked>> => (Safe => Safe') /\ (~TargetLives => ~TargetLives')
  BY DEF Safe, TargetLives
<1>1. CASE LoopHead
  <2>1. ~TargetLives => ~TargetLives'
    BY <1>1 DEF LoopHead, TargetLives
  <2>2. Safe /\ Safe'
    BY <1>1, <2>1, SafeStays DEF LoopHead, At
  <2>3. QED
    <3>1. runner'.phase \in {"INTENT", "END"} /\ runner'.stopConfirmed
      <4>1. /\ runner' = [runner EXCEPT !.phase = "INTENT"] \/ runner' = [runner EXCEPT !.phase = "END"]
            /\ runner.stopConfirmed
        BY <1>1 DEF LoopHead, At, To
      <4> QED BY <4>1 DEF TypeOK, Runner
    <3> QED BY <1>1, <2>1, <2>2, <3>1 DEF LoopHead
<1>2. CASE StartCheck
  <2>1. Safe /\ Safe'
    BY <1>02, <1>2 DEF StartCheck, At
  <2>2. runner.phase = "INTENT" /\ UNCHANGED <<recovery, target>>
    BY <1>2 DEF StartCheck, At
  <2>3. runner'.phase \in {"EXEC", "END"}
    BY <1>0, <1>2 DEF StartCheck, To
  <2> QED BY <2>1, <2>2, <2>3 DEF TargetLives
<1>3. CASE ExecuteRecipe
  <2>1. Safe /\ Safe'
    BY <1>02, <1>3 DEF ExecuteRecipe, SpawnSupervisor, At
  <2> QED BY <1>3, <2>1 DEF ExecuteRecipe, SpawnSupervisor, TargetLives
<1>4. CASE RecipeReturns
  <2>1. PICK o \in Observations :
          /\ masked' = (masked \/ (o.stopped /\ call.phase = "DONE" /\ call.why = "TERMINATION_FAILED"))
          /\ IF Confirmed(o) /\ ~runner.stopRequested /\ run.status = "RUNNING"
             THEN /\ Complete(o.status)
                  /\ runner' = [runner EXCEPT !.phase = "CLEAN", !.stopConfirmed = TRUE]
             ELSE /\ runner' = [runner EXCEPT !.phase = "END", !.stopConfirmed = Confirmed(o)]
                  /\ UNCHANGED <<run, holder>>
    BY <1>4 DEF RecipeReturns
  <2>2. o.stopped \in BOOLEAN
    BY ObservationType DEF TypeOK, SupervisionTypeOK
  <2>3. UNCHANGED <<record, target, trusted, recovery>> /\ call' = NoCall
    BY <1>4 DEF RecipeReturns
  <2>4. (~TargetLives => ~TargetLives') /\ (Safe => Safe')
    BY <2>1, <2>3 DEF TargetLives, Safe
  <2>5. o.stopped => Safe'
    <3>1. CASE call.phase = "DONE" /\ call.why = "TERMINATION_FAILED"
      BY <2>1, <3>1 DEF Safe
    <3>2. CASE ~(call.phase = "DONE" /\ call.why = "TERMINATION_FAILED")
      BY <1>4, <2>4, <3>2 DEF RecipeReturns, At
    <3> QED BY <3>1, <3>2
  <2>6. CASE Confirmed(o) /\ ~runner.stopRequested /\ run.status = "RUNNING"
    <3>1. Safe' /\ runner'.phase = "CLEAN" /\ runner'.stopConfirmed
      BY <1>0, <2>1, <2>5, <2>6 DEF Confirmed
    <3> QED BY <2>3, <2>4, <3>1 DEF TargetLives
  <2>7. CASE ~(Confirmed(o) /\ ~runner.stopRequested /\ run.status = "RUNNING")
    <3>1. runner' = [runner EXCEPT !.phase = "END", !.stopConfirmed = o.stopped] /\ run' = run
      BY <2>1, <2>7 DEF Confirmed
    <3>2. runner'.phase = "END" /\ (runner'.stopConfirmed => Safe')
      BY <1>0, <2>2, <2>5, <3>1
    <3> QED BY <2>3, <2>4, <3>1, <3>2 DEF TargetLives
  <2> QED BY <2>6, <2>7
<1>5. CASE CleanUp
  <2>1. Safe /\ Safe'
    BY <1>02, <1>5 DEF CleanUp, At
  <2> QED BY <1>0, <1>01, <1>5, <2>1 DEF CleanUp, At, To, TargetLives
<1>6. CASE LoopEnds
  BY <1>0, <1>02, <1>6 DEF LoopEnds
<1>7. CASE RecipeFails
  BY <1>0, <1>02, <1>7 DEF RecipeFails
<1>8. CASE Abort
  <2>1. call'.phase = "STOPPING"
    BY <1>8 DEF Abort, Stop, TypeOK, SupervisionTypeOK, Call
  <2> QED BY <1>02, <1>8, <2>1 DEF Abort, Stop
<1>9. CASE CancelRequest
  <2>1. run'.current = run.current /\ UNCHANGED <<record, target, trusted, masked, call>>
    BY <1>9, CancellingType DEF CancelRequest, TypeOK
  <2>2. CASE runner.phase = "IDLE"
    <3>1. /\ recovery'.phase \notin {"SUPERVISOR", "GRACE", "FINAL"} \/ recovery'.seen = "READY"
          /\ recovery'.phase = "DONE" /\ recovery'.action = "CONFIRMED" => record \in {"INTENT", "STOPPED"}
          /\ recovery'.phase = "DONE" => recovery'.action # "KILLED"
          /\ UNCHANGED runner
      BY <1>9, <2>2, BeginRecoveryType DEF CancelRequest, TypeOK, SupervisionTypeOK
    <3> QED BY <1>02, <2>1, <2>2, <3>1
  <2>3. CASE runner.phase # "IDLE"
    <3>1. /\ runner'.phase = runner.phase /\ runner'.stopConfirmed = runner.stopConfirmed
          /\ UNCHANGED recovery
      BY <1>0, <1>9, <2>3 DEF CancelRequest
    <3> QED BY <1>02, <2>1, <3>1
  <2> QED BY <2>2, <2>3
<1>10. CASE CancelWaited
  <2>1. UNCHANGED <<target, trusted, masked, recovery, call>> /\ record' \in {"NONE", record}
    BY <1>01, <1>10 DEF CancelWaited
  <2>2. CASE runner.stopConfirmed
    <3>1. Safe' /\ runner' = NoRunner
      BY <1>02, <1>10, <2>1, <2>2 DEF CancelWaited, At
    <3> QED BY <1>0, <1>02, <2>1, <3>1
  <2>3. CASE ~runner.stopConfirmed
    BY <1>02, <1>10, <2>1, <2>3 DEF CancelWaited
  <2> QED BY <2>2, <2>3
<1>11. CASE CancelRecovered
  <2>1. UNCHANGED <<target, trusted, masked, call, runner>> /\ record' \in {"NONE", record} /\ recovery' = NoRecovery
    BY <1>01, <1>11 DEF CancelRecovered
  <2>2. CASE Unsafe
    BY <1>0, <1>02, <1>11, <2>1, <2>2 DEF CancelRecovered
  <2>3. CASE ~Unsafe
    <3>1. Safe
      BY <1>11, <2>3 DEF CancelRecovered, Unsafe, Roles, RecoverySaw, TypeOK, SupervisionTypeOK, Recovery
    <3> QED BY <1>0, <1>02, <2>1, <3>1
  <2> QED BY <2>2, <2>3
<1>12. CASE StopDaemon
  BY <1>0, <1>02, <1>12 DEF StopDaemon
<1>13. CASE StopEnds
  <2>1. /\ UNCHANGED <<target, trusted, masked>> /\ record' \in {"NONE", record}
        /\ runner' = NoRunner /\ call' = NoCall /\ recovery' = NoRecovery
    BY <1>01, <1>13 DEF StopEnds, Exit
  <2>2. run' = run \/ Safe
    BY <1>13 DEF StopEnds
  <2> QED BY <1>0, <1>02, <2>1, <2>2
<1>14. CASE Crash
  BY <1>0, <1>02, <1>14 DEF Crash
<1>15. CASE StartDaemon
  <2>1. UNCHANGED <<record, target, trusted, masked, run, call, runner>>
    BY <1>15 DEF StartDaemon
  <2>2. \/ UNCHANGED recovery
        \/ /\ recovery'.phase \notin {"SUPERVISOR", "GRACE", "FINAL"} \/ recovery'.seen = "READY"
           /\ recovery'.phase = "DONE" /\ recovery'.action = "CONFIRMED" => record \in {"INTENT", "STOPPED"}
           /\ recovery'.phase = "DONE" => recovery'.action # "KILLED"
    BY <1>15, BeginRecoveryType DEF StartDaemon, TypeOK, SupervisionTypeOK
  <2> QED BY <1>02, <2>1, <2>2
<1>16. CASE StartEnds
  <2>1. UNCHANGED <<target, trusted, masked, call, runner>> /\ record' \in {"NONE", record} /\ recovery' = NoRecovery
    BY <1>01, <1>16 DEF StartEnds, Reconcile
  <2>2. run' = run \/ Safe
    <3>1. run' = run \/ (run.status \in Active /\ ~(recovery.phase = "DONE" /\ Unsafe))
      BY <1>16 DEF StartEnds, Reconcile
    <3>2. run.status \in Active => recovery.phase = "DONE"
      BY <1>16 DEF StartEnds, Roles, StartReads
    <3>3. recovery.phase = "DONE" /\ ~Unsafe => Safe
      BY DEF Unsafe, Roles, RecoverySaw, TypeOK, SupervisionTypeOK, Recovery
    <3> QED BY <3>1, <3>2, <3>3
  <2> QED BY <1>0, <1>02, <2>1, <2>2
<1>17. CASE StartVerification
  <2>1. Safe
    BY <1>17 DEF StartVerification, Reserve, Roles, EndedHasNoCheck, Active
  <2>2. runner.phase = "IDLE"
    BY <1>17 DEF StartVerification, Reserve, Roles, UnbegunIsIdle
  <2> QED BY <1>0, <1>02, <1>17, <2>1, <2>2 DEF StartVerification, Wake
<1>18. ASSUME NEW i \in Item, AcquireLease(i) \/ ReleaseLease(i)
       PROVE  Gone'
  BY <1>02, <1>18 DEF AcquireLease, ReleaseLease
<1>19. CASE SupervisionMoves /\ UNCHANGED <<rows, flags, locals>>
  BY <1>19, SupervisionMovesGone
<1>20. CASE UNCHANGED vars
  BY <1>02, <1>20 DEF vars
<1>21. QED
  BY <1>1, <1>2, <1>3, <1>4, <1>5, <1>6, <1>7, <1>8, <1>9, <1>10, <1>11, <1>12, <1>13, <1>14,
     <1>15, <1>16, <1>17, <1>18, <1>19, <1>20 DEF Next, LoopMoves, DaemonMoves

----
(* The theorems *)

LEMMA VInvInit == Init => VInv
<1> SUFFICES ASSUME Init PROVE VInv
  OBVIOUS
<1>1. TypeOK
  <2>1. SupervisionTypeOK
    BY AbsentType DEF Init, SupervisionInit, SupervisionTypeOK, RecordState, SupervisorState, TargetState
  <2>2. run \in Run /\ run.status \notin Active
    BY DEF Init, Run, Check, CheckStatus, Active
  <2>3. crashes \in 0 .. MaxCrashes
    BY DEF Init, CheckAssumption
  <2>4. lease \in [Item -> BOOLEAN]
    BY DEF Init
  <2> QED BY <2>1, <2>2, <2>3, <2>4, AbsentType DEF Init, TypeOK
<1>2. Roles
  BY DEF Init, SupervisionInit, Roles, DownIsIdle, UnbegunIsIdle, RecoverIsIdle, RecoveryHasCause, StartReads,
         RecoverySaw, ExecHasCheck, CallIsExec, SupervisorIsCalled, SupervisorLives, FrameIsReady,
         EndedHasNoCheck, NoRunner, NoCall, NoRecovery
<1>3. Gone
  BY DEF Init, SupervisionInit, Gone, NoCheckIsSafe, RecordIsSafe, ConfirmedIsSafe, CallIsSafe, RecoveryIsSafe,
         Safe, TargetLives, NoRunner, NoRecovery
<1> QED BY <1>1, <1>2, <1>3 DEF VInv

LEMMA VInvStep == VInv /\ [Next]_vars => VInv'
<1>1. VInv => ExecHasCheck
  BY DEF VInv, Roles
<1> QED BY <1>1, TypeStep, RolesStep, GoneStep DEF VInv

\* The invariant the other theorems rest on: who may act, and where the process tree is known
\* to be gone (runSupervisedProcess, the loop of verification-runner.ts, its cancel, stop and
\* recovery).
THEOREM VerificationInvariant == Spec => []VInv
BY VInvInit, VInvStep, PTL DEF Spec

\* Every row of the run, the record file and the memory of daemon and supervisor keep their
\* types, and the directory is reserved exactly as long as the run is active.
THEOREM VerificationType == Spec => []TypeOK
<1>1. VInv => TypeOK
  BY DEF VInv
<1> QED BY <1>1, VerificationInvariant, PTL

\* For every plan and every fault: a process tree that lives has its working directory reserved,
\* but for a stop that was recorded under another name and a supervisor trusted in recovery.
THEOREM TreeGone == Spec => []TreeGoneUnlessMasked
<1>1. VInv => TreeGoneUnlessMasked
  BY DEF VInv, TypeOK, Roles, EndedHasNoCheck, Gone, NoCheckIsSafe, Safe, TreeGoneUnlessMasked
<1> QED BY <1>1, VerificationInvariant, PTL

\* Whatever supervisor of an earlier daemon is still about: a target starts only under the
\* reservation of the run, for a check of the run.
THEOREM StartsReserved == Spec => NothingStartsUnreserved
<1>1. ASSUME VInv, [Next]_vars, target # "ALIVE", target' = "ALIVE"
      PROVE  holder /\ run.current # 0
  <2> USE <1>1 DEF svars, processes, rows, flags, locals
  <2>1. CASE StartTarget
    BY <2>1, StartIsCalled DEF StartTarget, VInv, TypeOK, Active
  <2>2. CASE SupervisionMoves /\ ~StartTarget
    BY <2>2 DEF SupervisionMoves, SupervisorMoves, Boot, RecordTarget, ReportExit, StopTree, TreeStopped, Reaped,
                HearStop, TargetExits, SupervisorDies, CallMoves, SendFrame, ForceStop, Close, Stop,
                RecoveryMoves, RecoverTarget, TargetProved, RecoverSupervisor, RecoverGrace, RecoverFinal
  <2>3. CASE LoopHead
    BY <2>3 DEF LoopHead
  <2>4. CASE StartCheck \/ ExecuteRecipe \/ RecipeReturns \/ CleanUp \/ LoopEnds \/ RecipeFails \/ Abort
    BY <2>4 DEF StartCheck, ExecuteRecipe, SpawnSupervisor, RecipeReturns, CleanUp, LoopEnds, RecipeFails, Abort, Stop
  <2>5. CASE CancelRequest \/ CancelWaited \/ CancelRecovered \/ DaemonMoves
    BY <2>5 DEF CancelRequest, CancelWaited, CancelRecovered, DaemonMoves, StopDaemon, StopEnds, Exit, Crash,
                StartDaemon, StartEnds
  <2>6. CASE StartVerification \/ \E i \in Item : AcquireLease(i) \/ ReleaseLease(i)
    BY <2>6 DEF StartVerification, AcquireLease, ReleaseLease
  <2>7. CASE UNCHANGED vars
    BY <2>7 DEF vars
  <2> QED BY <2>1, <2>2, <2>3, <2>4, <2>5, <2>6, <2>7 DEF Next, LoopMoves
<1>2. VInv /\ [Next]_vars => [target # "ALIVE" /\ target' = "ALIVE" => holder /\ run.current # 0]_vars
  BY <1>1
<1> QED BY <1>2, VerificationInvariant, PTL DEF Spec, NothingStartsUnreserved

\* A late result, a second cancel, a stop and a restart leave a run that ended as it is.
THEOREM RunEndsOnce == Spec => EndsOnce
<1>1. ASSUME VInv, [Next]_vars, run.status \in Terminal
      PROVE  UNCHANGED <<run, holder>>
  <2> USE <1>1 DEF svars, processes, rows, flags, locals
  <2>1. run.status \notin Active /\ run.status \notin {"NONE"}
    BY DEF Terminal, Active
  <2>2. CASE LoopHead \/ StartCheck \/ ExecuteRecipe \/ CleanUp \/ LoopEnds \/ RecipeFails \/ Abort
    BY <2>1, <2>2 DEF LoopHead, StartCheck, ExecuteRecipe, CleanUp, LoopEnds, RecipeFails, Abort, Active
  <2>3. CASE RecipeReturns
    BY <2>1, <2>3 DEF RecipeReturns, Active
  <2>4. CASE CancelRequest \/ CancelWaited
    BY <2>1, <2>4 DEF CancelRequest, CancelWaited, Active
  <2>5. CASE CancelRecovered
    BY <2>1, <2>5 DEF CancelRecovered, VInv, Roles, RecoverIsIdle, Active
  <2>6. CASE DaemonMoves
    BY <2>1, <2>6 DEF DaemonMoves, StopDaemon, StopEnds, StopOwes, Crash, StartDaemon, StartEnds, Reconcile
  <2>7. CASE StartVerification \/ \E i \in Item : AcquireLease(i) \/ ReleaseLease(i)
    BY <2>1, <2>7 DEF StartVerification, Reserve, AcquireLease, ReleaseLease
  <2>8. CASE SupervisionMoves /\ UNCHANGED <<rows, flags, locals>>
    BY <2>8
  <2>9. CASE UNCHANGED vars
    BY <2>9 DEF vars
  <2> QED BY <2>2, <2>3, <2>4, <2>5, <2>6, <2>7, <2>8, <2>9 DEF Next, LoopMoves
<1>2. VInv /\ [Next]_vars => [run.status \in Terminal => UNCHANGED <<run, holder>>]_vars
  BY <1>1
<1> QED BY <1>2, VerificationInvariant, PTL DEF Spec, EndsOnce

----
(* One owner of a directory at a time *)

\* The owners of the workspace of one item, when the leases and the holder only let go.
LEMMA HoldersShrink ==
    ASSUME lease \in [Item -> BOOLEAN], lease' \in [Item -> BOOLEAN], holder \in BOOLEAN, holder' \in BOOLEAN,
           \A i \in Item : lease'[i] => lease[i],
           holder' => holder
    PROVE  A!Release
<1> DEFINE stages == {<<j, "STAGE">> : j \in {k \in Item : ~lease'[k]}}
           checks == IF holder' THEN {} ELSE {<<Own, "CHECKS">>}
           gone == stages \cup checks
<1>1. ASSUME NEW i \in Item
      PROVE  HoldersOf(i)' = HoldersOf(i) \ gone
  <2>1. <<i, "STAGE">> \in gone <=> ~lease'[i]
    <3>1. <<i, "STAGE">> \in stages <=> ~lease'[i]
      OBVIOUS
    <3>2. <<i, "STAGE">> \notin checks
      OBVIOUS
    <3> QED BY <3>1, <3>2
  <2>2. <<i, "CHECKS">> \in gone <=> i = Own /\ ~holder'
    <3>1. <<i, "CHECKS">> \notin stages
      OBVIOUS
    <3>2. <<i, "CHECKS">> \in checks <=> i = Own /\ ~holder'
      OBVIOUS
    <3> QED BY <3>1, <3>2
  <2> HIDE DEF gone
  <2>3. HoldersOf(i)' = {o \in {<<i, "STAGE">>, <<i, "CHECKS">>} :
                           \/ lease'[i] /\ o = <<i, "STAGE">>
                           \/ i = Own /\ holder' /\ o = <<i, "CHECKS">>}
    BY DEF HoldersOf
  <2>4. HoldersOf(i) = {o \in {<<i, "STAGE">>, <<i, "CHECKS">>} :
                          \/ lease[i] /\ o = <<i, "STAGE">>
                          \/ i = Own /\ holder /\ o = <<i, "CHECKS">>}
    BY DEF HoldersOf
  <2> QED BY <2>1, <2>2, <2>3, <2>4, Zenon
<1>2. gone \in SUBSET Owner
  BY ItemAssumption DEF Owner, ItemAssumption
<1> HIDE DEF gone
<1>3. Holders' = [d \in Directory |-> Holders[d] \ gone]
  <2>1. CASE Shared
    <3>1. UNION {HoldersOf(i)' : i \in Item} = (UNION {HoldersOf(i) : i \in Item}) \ gone
      BY <1>1
    <3>2. Holders = [d \in Directory |-> UNION {HoldersOf(i) : i \in Item}]
      BY <2>1, Zenon DEF Holders
    <3>3. Holders' = [d \in Directory |-> UNION {HoldersOf(i)' : i \in Item}]
      BY <2>1, Zenon DEF Holders
    <3> QED BY <3>1, <3>2, <3>3
  <2>2. CASE ~Shared
    BY <1>1, <2>2 DEF Holders, Directory
  <2> QED BY <2>1, <2>2
<1> QED BY <1>2, <1>3 DEF A!Release

\* A claim of an item's workspace takes its directory when it takes one owner in.
LEMMA ClaimTakes ==
    ASSUME NEW i \in Item, NEW o \in Owner, Free(i),
           HoldersOf(i)' = {o},
           \A j \in Item \ {i} : HoldersOf(j)' = HoldersOf(j)
    PROVE  \E d \in Directory : A!Take(d, o)
<1>1. HoldersOf(i) = {}
  BY DEF Free, HoldersOf
<1>2. CASE Shared
  <2>1. \A j \in Item : HoldersOf(j) = {}
    BY <1>2 DEF Free, HoldersOf
  <2>2. Holders = [d \in Directory |-> {}]
    BY <1>2, <2>1 DEF Holders
  <2>3. (UNION {HoldersOf(j) : j \in Item})' = {o}
    BY <2>1
  <2>4. Holders' = [d \in Directory |-> {o}]
    BY <1>2, <2>3 DEF Holders
  <2>5. Own \in Directory /\ A!Take(Own, o)
    BY <1>2, <2>2, <2>4 DEF Directory, A!Take
  <2> QED BY <2>5
<1>3. CASE ~Shared
  <2>1. Holders = [d \in Item |-> HoldersOf(d)] /\ Holders' = [d \in Item |-> HoldersOf(d)']
    BY <1>3 DEF Holders, Directory
  <2>2. Holders[i] = {} /\ Holders' = [Holders EXCEPT ![i] = {o}]
    BY <1>1, <2>1
  <2> QED BY <1>3, <2>2 DEF Directory, A!Take
<1> QED BY <1>2, <1>3

\* Besides its reservation nothing sets the holder of a run.
LEMMA HolderOnlyReserved ==
    ASSUME TypeOK, ExecHasCheck, Next, ~StartVerification, \A i \in Item : ~AcquireLease(i)
    PROVE  /\ holder' => holder
           /\ \A i \in Item : lease'[i] => lease[i]
<1> USE DEF svars, processes, rows, flags, locals
<1>1. CASE RecipeReturns
  <2>1. holder' => holder
    BY <1>1 DEF RecipeReturns, TypeOK, Active
  <2> QED BY <1>1, <2>1 DEF RecipeReturns
<1>2. CASE LoopHead \/ StartCheck \/ ExecuteRecipe \/ CleanUp \/ LoopEnds \/ RecipeFails \/ Abort
  BY <1>2 DEF LoopHead, StartCheck, ExecuteRecipe, CleanUp, LoopEnds, RecipeFails, Abort
<1>3. CASE CancelRequest \/ CancelWaited \/ CancelRecovered
  BY <1>3 DEF CancelRequest, CancelWaited, CancelRecovered, Interrupt
<1>4. CASE StopDaemon \/ StopEnds \/ Crash
  BY <1>4 DEF StopDaemon, StopEnds, Exit, Interrupt, Crash
<1>5. CASE StartDaemon \/ StartEnds
  BY <1>5 DEF StartDaemon, StartEnds, Reconcile, Interrupt
<1>6. CASE \E i \in Item : ReleaseLease(i)
  BY <1>6 DEF ReleaseLease, TypeOK
<1>7. CASE SupervisionMoves /\ UNCHANGED <<rows, flags, locals>>
  BY <1>7
<1> QED BY <1>1, <1>2, <1>3, <1>4, <1>5, <1>6, <1>7 DEF Next, LoopMoves, DaemonMoves

\* The stages and the checks of all WorkItems share working directories as module Authority
\* prescribes: a directory is taken only when nobody has it (the WHERE clauses of both claims).
THEOREM DirectoryIsExclusive == Spec => ExclusiveDirectory
<1>1. Init => A!Init
  <2> SUFFICES ASSUME Init PROVE A!Init
    OBVIOUS
  <2>1. \A i \in Item : HoldersOf(i) = {}
    BY DEF Init, HoldersOf
  <2> QED BY <2>1 DEF A!Init, Holders, Directory
<1>2. ASSUME VInv, [Next]_vars
      PROVE  [A!Next]_Holders
  <2> USE <1>2 DEF VInv
  <2>1. CASE StartVerification
    <3>1. Free(Own) /\ holder' = TRUE /\ UNCHANGED lease
      BY <2>1 DEF StartVerification, Reserve
    <3>2. ~lease[Own]
      BY <3>1 DEF Free
    <3>3. HoldersOf(Own)' = {<<Own, "CHECKS">>}
      BY <3>1, <3>2 DEF HoldersOf
    <3>4. \A j \in Item \ {Own} : HoldersOf(j)' = HoldersOf(j)
      BY <3>1 DEF HoldersOf
    <3>5. <<Own, "CHECKS">> \in Owner
      BY DEF Owner
    <3>6. \E d \in Directory : A!Take(d, <<Own, "CHECKS">>)
      BY <3>1, <3>3, <3>4, <3>5, ClaimTakes
    <3> QED BY <3>5, <3>6 DEF A!Next
  <2>2. ASSUME NEW i \in Item, AcquireLease(i)
        PROVE  A!Next
    <3>1. Free(i) /\ lease' = [lease EXCEPT ![i] = TRUE] /\ UNCHANGED holder
      BY <2>2 DEF AcquireLease
    <3>2. /\ lease'[i] /\ ~(i = Own /\ holder')
          /\ \A j \in Item \ {i} : lease'[j] = lease[j]
      BY <3>1 DEF Free, TypeOK
    <3>3. HoldersOf(i)' = {<<i, "STAGE">>}
      BY <3>2 DEF HoldersOf
    <3>4. \A j \in Item \ {i} : HoldersOf(j)' = HoldersOf(j)
      BY <3>1, <3>2 DEF HoldersOf
    <3>5. <<i, "STAGE">> \in Owner
      BY DEF Owner
    <3>6. \E d \in Directory : A!Take(d, <<i, "STAGE">>)
      BY <3>1, <3>3, <3>4, <3>5, ClaimTakes
    <3> QED BY <3>5, <3>6 DEF A!Next
  <2>3. CASE Next /\ ~StartVerification /\ \A i \in Item : ~AcquireLease(i)
    <3>1. TypeOK'
      BY TypeStep DEF Roles
    <3>2. A!Release
      BY <2>3, <3>1, HolderOnlyReserved, HoldersShrink DEF Roles, TypeOK
    <3> QED BY <3>2 DEF A!Next
  <2>4. CASE UNCHANGED vars
    <3>1. UNCHANGED <<lease, holder>>
      BY <2>4 DEF vars, rows
    <3>2. UNCHANGED Holders
      BY <3>1 DEF Holders, HoldersOf
    <3> QED BY <3>2
  <2> QED BY <2>1, <2>2, <2>3, <2>4
<1> QED BY <1>1, <1>2, VerificationInvariant, PTL DEF Spec, ExclusiveDirectory, A!Spec
=============================================================================
