-------------------------- MODULE ExecutionProofs --------------------------
\* Theorems about module Execution, for every number of attempts, loops,
\* sessions and crashes: the claims in the database (AgentRun,
\* ProviderSession, lease) fence the processes the daemon drives, across
\* pause, resume, cancel, crash and restart.
EXTENDS Execution, TLAPS

USE BoundAssumption, StageAssumption

----
(* The inductive invariant *)

\* Where a loop has a session, and where it holds no dispatch any more without being told.
InTurn == {"STARTING", "LIVE", "STOPPING", "MEASURING"}

\* The rows name each other: a dispatch and a session their attempt, a loop its dispatch and, in a
\* turn, its session.
DispatchesNamed == \A d \in DispatchId : dispatch[d].status # "NONE" => dispatch[d].attempt \in AttemptId
SessionsNamed   == \A s \in SessionId : session[s].status # "NONE" => session[s].attempt \in AttemptId
LoopsNamed ==
    \A d \in DispatchId :
        /\ exec[d].pc # "IDLE" => dispatch[d].status # "NONE"
        /\ exec[d].pc \in InTurn <=> exec[d].sid # 0
        /\ exec[d].sid # 0 => session[exec[d].sid].status # "NONE"
CancelNamed == \A s \in cancel.sessions : session[s].status # "NONE"

\* An attempt is of a pipeline from its first row on, and a dispatch of an attempt that has one.
LinesNamed ==
    /\ pipeline \in [AttemptId -> AttemptId \cup {0}] /\ unfenced \subseteq AttemptId \cup {0}
    /\ \A a \in AttemptId : attempt[a] = "NONE" <=> pipeline[a] = 0
    /\ \A d \in DispatchId : dispatch[d].status # "NONE" => attempt[dispatch[d].attempt] # "NONE"

Typed == TypeOK /\ DispatchesNamed /\ SessionsNamed /\ LoopsNamed /\ CancelNamed /\ LinesNamed

\* Attempts are numbered without gaps, and only the latest is not over.
AttemptsFit ==
    /\ \A a, b \in AttemptId : attempt[a] = "NONE" /\ b > a => attempt[b] = "NONE"
    /\ \A a, b \in AttemptId : attempt[a] \in Active /\ b > a => attempt[b] = "NONE"

\* One dispatch is pending at most, for an attempt that waits or runs; one that runs has it still.
PendingFits ==
    /\ \A d \in DispatchId : dispatch[d].status = "PENDING" =>
          attempt[AttemptOf(d)] \in {"QUEUED", "RUNNING"}
    /\ \A d, e \in DispatchId : dispatch[d].status = "PENDING" /\ dispatch[e].status = "PENDING" => d = e
    /\ \A a \in AttemptId : attempt[a] = "RUNNING" =>
          /\ a \in agentRun
          /\ \E d \in DispatchId : dispatch[d].status = "PENDING" /\ AttemptOf(d) = a

\* Some turn of the attempt runs.
HasTurn(a) == \E s \in SessionId : session[s].status = "RUNNING" /\ session[s].attempt = a

\* A turn runs under the AgentRun of its attempt; one that a crash left behind in the workspace, and
\* that recovery could not prove gone, has only the lease.
SurvivesCrash == ~StopsProven /\ crashes > 0
ClaimsFit ==
    /\ \A a, b \in agentRun : a = b
    /\ \A a \in agentRun : attempt[a] = "RUNNING" \/ HasTurn(a)
    /\ \A s \in SessionId : session[s].status = "RUNNING" =>
          session[s].attempt \in agentRun \/ (SurvivesCrash /\ session[s].attempt \in InWorkspace)
    /\ daemon = "DOWN" => crashes > 0

\* The lease is held by who has a claim, a turn, or was cancelled after a crash; and a turn in the
\* workspace holds it, or the workspace is gone.
LeaseFits ==
    /\ workspace.status # "READY" => workspace.holder = 0
    /\ workspace.holder # 0 =>
          /\ workspace.holder \in InWorkspace
          /\ \/ workspace.holder \in agentRun \/ HasTurn(workspace.holder)
             \/ SurvivesCrash /\ attempt[workspace.holder] = "CANCELLED"
    /\ \A s \in SessionId : session[s].status = "RUNNING" /\ session[s].attempt \in InWorkspace =>
          workspace.holder = session[s].attempt \/ workspace.status = "ORPHANED"

\* A loop lives with its daemon, over a workspace that is not gone; its turn is its attempt's; it is
\* revoked only after its dispatch was withdrawn.
LoopFits(d) ==
    exec[d].pc # "IDLE" =>
        /\ daemon = "UP"
        /\ AttemptOf(d) \in InWorkspace => workspace.status # "ORPHANED"
        /\ exec[d].sid # 0 => session[exec[d].sid].attempt = AttemptOf(d)
        /\ exec[d].revoked => dispatch[d].status # "PENDING"

\* A loop that may still act holds the AgentRun and, once it has a workspace, the lease.  Before its
\* turn its attempt is running and nobody has a turn; in it, the attempt may have been paused.
Acting(d) == exec[d].pc # "IDLE" /\ ~exec[d].revoked
ActingFits(d) ==
    Acting(d) =>
        /\ AttemptOf(d) \in agentRun
        /\ exec[d].pc \notin InTurn =>
              attempt[AttemptOf(d)] = "RUNNING" /\ \A s \in SessionId : session[s].status # "RUNNING"
        /\ exec[d].pc \in InTurn =>
              attempt[AttemptOf(d)] \in {"RUNNING", "SOFT_PAUSED"} /\ session[exec[d].sid].status = "RUNNING"
        /\ attempt[AttemptOf(d)] = "RUNNING" => dispatch[d].status = "PENDING"
        /\ exec[d].pc = "MEASURING" => exec[d].sid \notin child
        /\ exec[d].pc = "CREATING" => AttemptOf(d) \in InWorkspace
        /\ AttemptOf(d) \in InWorkspace /\ exec[d].pc # "CREATING" =>
              workspace.holder = AttemptOf(d) /\ workspace.status = "READY"
LoopsFit ==
    /\ \A d \in DispatchId : LoopFits(d) /\ ActingFits(d)
    /\ \A d, e \in DispatchId : Acting(d) /\ Acting(e) => d = e

\* While the daemon is up a running attempt has a turn or a loop that may still act.
Driven ==
    daemon = "UP" => \A a \in AttemptId : attempt[a] = "RUNNING" =>
        HasTurn(a) \/ \E d \in DispatchId : Acting(d) /\ AttemptOf(d) = a

\* A cancel request ends the turns of a cancelled attempt, and asked every loop it found to stop.
CancelFits ==
    /\ cancel.attempt # 0 => daemon = "UP" /\ attempt[cancel.attempt] = "CANCELLED"
    /\ \A s \in cancel.sessions : session[s].status = "RUNNING" /\ session[s].attempt = cancel.attempt
    /\ \A s \in cancel.stops :
          /\ session[s].status # "NONE"
          /\ s \in cancel.waiting \/ s \notin child
          /\ \A d \in DispatchId : exec[d].pc # "IDLE" /\ exec[d].sid = s => exec[d].revoked

\* No child that a loop drives, and none whose process id is known, is without its session, unless
\* the owner cancelled.
ChildFits ==
    \A s \in child : session[s].status # "RUNNING" =>
        /\ \A d \in DispatchId : exec[d].pc # "IDLE" => exec[d].sid # s
        /\ session[s].pid =>
              session[s].attempt \in AttemptId /\ attempt[session[s].attempt] = "CANCELLED"

OnlyTurn == \A s, t \in SessionId :
               session[s].status = "RUNNING" /\ session[t].status = "RUNNING" => s = t

\* What fits until a pipeline is unfenced.
EInv == /\ AttemptsFit /\ PendingFits /\ ClaimsFit /\ LeaseFits /\ LoopsFit
        /\ Driven /\ CancelFits /\ ChildFits /\ OnlyTurn

\* While a turn or the lease is in the workspace, the attempt that is not over works there too, so
\* that the lease stops it; and so does every turn, while the lease is held.
Waits ==
    /\ workspace.holder # 0 \/ (\E s \in SessionId : session[s].status = "RUNNING" /\ session[s].attempt \in InWorkspace)
          => \A a \in AttemptId : attempt[a] \in Active => a \in InWorkspace
    /\ workspace.holder # 0 =>
          \A s \in SessionId : session[s].status = "RUNNING" => session[s].attempt \in InWorkspace

----
(* Types *)

\* What the operators write has the type of its table.
LEMMA WritesType ==
    ASSUME TypeOK
    PROVE  /\ \A a \in AttemptId \cup {0} : Withdrawn(a) \in [DispatchId -> DispatchRow]
           /\ \A ss \in SUBSET SessionId : Ended(ss) \in [SessionId -> SessionRow]
           /\ \A ds \in SUBSET DispatchId : RevokedExecs(ds) \in [DispatchId -> ExecRow]
           /\ \A ws \in WorkspaceRow, a \in AttemptId \cup {0} :
                Released(ws, a) \in WorkspaceRow /\ FinishAgentRun(a, ws) \in WorkspaceRow
<1> USE DEF TypeOK
<1>1. ASSUME NEW d \in DispatchId
      PROVE  [dispatch[d] EXCEPT !.status = "FAILED"] \in DispatchRow
  BY DEF DispatchRow
<1>2. ASSUME NEW s \in SessionId
      PROVE  [session[s] EXCEPT !.status = "ENDED"] \in SessionRow
  BY DEF SessionRow
<1>3. ASSUME NEW d \in DispatchId
      PROVE  [exec[d] EXCEPT !.revoked = TRUE] \in ExecRow
  BY DEF ExecRow
<1>4. ASSUME NEW ws \in WorkspaceRow, NEW a \in AttemptId \cup {0}
      PROVE  Released(ws, a) \in WorkspaceRow /\ FinishAgentRun(a, ws) \in WorkspaceRow
  <2>1. [ws EXCEPT !.holder = 0] \in WorkspaceRow
    BY DEF WorkspaceRow
  <2> QED BY <2>1 DEF Released, FinishAgentRun
<1>5. \A a \in AttemptId \cup {0} : Withdrawn(a) \in [DispatchId -> DispatchRow]
  BY <1>1 DEF Withdrawn
<1>6. \A ss \in SUBSET SessionId : Ended(ss) \in [SessionId -> SessionRow]
  BY <1>2 DEF Ended
<1>7. \A ds \in SUBSET DispatchId : RevokedExecs(ds) \in [DispatchId -> ExecRow]
  BY <1>3 DEF RevokedExecs
<1> QED BY <1>4, <1>5, <1>6, <1>7

\* They change a status, a revocation or a holder and nothing else.
LEMMA WritesFrame ==
    ASSUME TypeOK
    PROVE  /\ \A a \in AttemptId \cup {0}, d \in DispatchId :
                /\ Withdrawn(a)[d].attempt = dispatch[d].attempt
                /\ Withdrawn(a)[d].status =
                     IF dispatch[d].attempt = a /\ dispatch[d].status = "PENDING"
                     THEN "FAILED" ELSE dispatch[d].status
           /\ \A ss \in SUBSET SessionId, s \in SessionId :
                /\ Ended(ss)[s].attempt = session[s].attempt
                /\ Ended(ss)[s].pid = session[s].pid
                /\ Ended(ss)[s].status = IF s \in ss THEN "ENDED" ELSE session[s].status
           /\ \A ds \in SUBSET DispatchId, d \in DispatchId :
                /\ RevokedExecs(ds)[d].pc = exec[d].pc
                /\ RevokedExecs(ds)[d].sid = exec[d].sid
                /\ RevokedExecs(ds)[d].revoked = (d \in ds \/ exec[d].revoked)
<1> USE DEF TypeOK
<1>1. ASSUME NEW a \in AttemptId \cup {0}, NEW d \in DispatchId
      PROVE  /\ Withdrawn(a)[d].attempt = dispatch[d].attempt
             /\ Withdrawn(a)[d].status =
                  IF dispatch[d].attempt = a /\ dispatch[d].status = "PENDING"
                  THEN "FAILED" ELSE dispatch[d].status
  <2>1. dispatch[d] \in DispatchRow
    OBVIOUS
  <2>2. d \in Pending(a) <=> dispatch[d].attempt = a /\ dispatch[d].status = "PENDING"
    BY <2>1 DEF Pending, DispatchRow
  <2> QED BY <2>1, <2>2 DEF Withdrawn, DispatchRow
<1>2. ASSUME NEW ss \in SUBSET SessionId, NEW s \in SessionId
      PROVE  /\ Ended(ss)[s].attempt = session[s].attempt
             /\ Ended(ss)[s].pid = session[s].pid
             /\ Ended(ss)[s].status = IF s \in ss THEN "ENDED" ELSE session[s].status
  BY DEF Ended, SessionRow
<1>3. ASSUME NEW ds \in SUBSET DispatchId, NEW d \in DispatchId
      PROVE  /\ RevokedExecs(ds)[d].pc = exec[d].pc
             /\ RevokedExecs(ds)[d].sid = exec[d].sid
             /\ RevokedExecs(ds)[d].revoked = (d \in ds \/ exec[d].revoked)
  <2>1. exec[d] \in ExecRow
    OBVIOUS
  <2>2. CASE d \in ds
    BY <2>1, <2>2 DEF RevokedExecs, ExecRow
  <2>3. CASE d \notin ds
    BY <2>1, <2>3 DEF RevokedExecs, ExecRow
  <2> QED BY <2>2, <2>3
<1> QED BY <1>1, <1>2, <1>3

\* A row is inserted for an attempt, and keeps it; a loop enters a dispatch that is there.
DispatchesKept ==
    /\ dispatch' \in [DispatchId -> DispatchRow]
    /\ \A d \in DispatchId :
        /\ dispatch[d].status # "NONE" =>
             dispatch'[d].status # "NONE" /\ dispatch'[d].attempt = dispatch[d].attempt
        /\ dispatch[d].status = "NONE" /\ dispatch'[d].status # "NONE" =>
             dispatch'[d].attempt \in AttemptId
SessionsKept ==
    /\ session' \in [SessionId -> SessionRow]
    /\ \A s \in SessionId :
        /\ session[s].status # "NONE" =>
             session'[s].status # "NONE" /\ session'[s].attempt = session[s].attempt
        /\ session[s].status = "NONE" /\ session'[s].status # "NONE" =>
             session'[s].attempt \in AttemptId
LoopsKept ==
    /\ exec' \in [DispatchId -> ExecRow]
    /\ \A d \in DispatchId :
        /\ exec'[d].pc # "IDLE" => exec[d].pc # "IDLE" \/ dispatch[d].status # "NONE"
        /\ exec'[d].pc \in InTurn <=> exec'[d].sid # 0
        /\ exec'[d].sid # 0 =>
             exec'[d].sid = exec[d].sid \/ session'[exec'[d].sid].status # "NONE"
RowsKept ==
    /\ DispatchesKept /\ SessionsKept /\ LoopsKept
    /\ attempt' \in [AttemptId -> AttemptStatus]
    /\ agentRun' \subseteq AttemptId
    /\ workspace' \in WorkspaceRow
RestTyped ==
    /\ cancel' \in CancelRow
    /\ \A s \in cancel'.sessions : s \in cancel.sessions \/ session[s].status # "NONE"
    /\ child' \subseteq SessionId
    /\ daemon' \in {"UP", "DOWN"}
    /\ crashes' \in 0 .. MaxCrashes

StepTyped == RowsKept /\ RestTyped

LEMMA KeptTyped ==
    ASSUME Typed, StepTyped, LinesNamed'
    PROVE  Typed'
<1>1. TypeOK'
  BY DEF StepTyped, RowsKept, DispatchesKept, SessionsKept, LoopsKept, RestTyped, TypeOK, LinesNamed
<1>2. DispatchesNamed'
  BY DEF Typed, StepTyped, RowsKept, DispatchesKept, DispatchesNamed
<1>3. SessionsNamed'
  BY DEF Typed, StepTyped, RowsKept, SessionsKept, SessionsNamed
<1>4. LoopsNamed'
  <2>1. ASSUME NEW d \in DispatchId, exec'[d].sid # 0
        PROVE  session'[exec'[d].sid].status # "NONE"
    <3>1. exec'[d].sid \in SessionId
      BY <1>1, <2>1 DEF TypeOK, ExecRow
    <3> QED BY <2>1, <3>1 DEF Typed, StepTyped, RowsKept, SessionsKept, LoopsKept, LoopsNamed
  <2> QED BY <2>1 DEF Typed, StepTyped, RowsKept, DispatchesKept, LoopsKept, LoopsNamed
<1>5. CancelNamed'
  <2>1. \A s \in cancel'.sessions : s \in SessionId
    BY <1>1 DEF TypeOK, CancelRow
  <2> QED BY <2>1 DEF Typed, StepTyped, RowsKept, SessionsKept, RestTyped, CancelNamed
<1> QED BY <1>1, <1>2, <1>3, <1>4, <1>5 DEF Typed

LEMMA DispatchesStay ==
    ASSUME Typed, UNCHANGED dispatch
    PROVE  DispatchesKept
BY DEF Typed, TypeOK, DispatchesKept

LEMMA SessionsStay ==
    ASSUME Typed, UNCHANGED session
    PROVE  SessionsKept
BY DEF Typed, TypeOK, SessionsKept

LEMMA LoopsStay ==
    ASSUME Typed, UNCHANGED exec
    PROVE  LoopsKept
BY DEF Typed, TypeOK, LoopsKept, LoopsNamed

LEMMA WithdrawnKept ==
    ASSUME Typed, NEW a \in AttemptId \cup {0}, dispatch' = Withdrawn(a)
    PROVE  DispatchesKept
<1>1. TypeOK
  BY DEF Typed
<1>2. Withdrawn(a) \in [DispatchId -> DispatchRow]
  BY <1>1, WritesType
<1>3. \A d \in DispatchId :
        /\ Withdrawn(a)[d].attempt = dispatch[d].attempt
        /\ Withdrawn(a)[d].status # "NONE" <=> dispatch[d].status # "NONE"
  BY <1>1, WritesFrame
<1> QED BY <1>2, <1>3 DEF DispatchesKept

LEMMA QueueKept ==
    ASSUME Typed, NEW a \in AttemptId, NEW d \in NextDispatch, dispatch' = Queue(a, d)
    PROVE  DispatchesKept
<1>1. d \in DispatchId /\ dispatch[d].status = "NONE"
  BY DEF NextDispatch, Next1
<1>2. [attempt |-> a, status |-> "PENDING"] \in DispatchRow
  BY DEF DispatchRow
<1> QED BY <1>1, <1>2 DEF Queue, DispatchesKept, Typed, TypeOK

LEMMA CompletedKept ==
    ASSUME Typed, NEW d \in DispatchId, dispatch[d].status # "NONE",
           dispatch' = [dispatch EXCEPT ![d] = [@ EXCEPT !.status = "COMPLETED"]]
    PROVE  DispatchesKept
<1>1. dispatch[d] \in DispatchRow
  BY DEF Typed, TypeOK
<1>2. [dispatch[d] EXCEPT !.status = "COMPLETED"] \in DispatchRow
  BY <1>1 DEF DispatchRow
<1>3. [dispatch[d] EXCEPT !.status = "COMPLETED"].attempt = dispatch[d].attempt
  BY <1>1 DEF DispatchRow
<1>4. [dispatch[d] EXCEPT !.status = "COMPLETED"].status = "COMPLETED"
  BY <1>1 DEF DispatchRow
<1> QED BY <1>2, <1>3, <1>4 DEF DispatchesKept, Typed, TypeOK

LEMMA EndedKept ==
    ASSUME Typed, NEW ss \in SUBSET SessionId, session' = Ended(ss),
           \A s \in ss : session[s].status # "NONE"
    PROVE  SessionsKept
<1>1. TypeOK
  BY DEF Typed
<1>2. Ended(ss) \in [SessionId -> SessionRow]
  BY <1>1, WritesType
<1>3. \A s \in SessionId :
        /\ Ended(ss)[s].attempt = session[s].attempt
        /\ Ended(ss)[s].status # "NONE" <=> session[s].status # "NONE"
  BY <1>1, WritesFrame
<1> QED BY <1>2, <1>3 DEF SessionsKept

LEMMA RevokedKept ==
    ASSUME Typed, NEW ds \in SUBSET DispatchId, exec' = RevokedExecs(ds)
    PROVE  LoopsKept
<1>1. TypeOK
  BY DEF Typed
<1>2. RevokedExecs(ds) \in [DispatchId -> ExecRow]
  BY <1>1, WritesType
<1>3. \A d \in DispatchId : RevokedExecs(ds)[d].pc = exec[d].pc /\ RevokedExecs(ds)[d].sid = exec[d].sid
  BY <1>1, WritesFrame
<1> QED BY <1>2, <1>3 DEF LoopsKept, Typed, LoopsNamed

\* One loop moves on: it leaves, or it comes to another await with the session that belongs there.
LEMMA LoopMovesKept ==
    ASSUME Typed, NEW d \in DispatchId, NEW x \in ExecRow, exec' = [exec EXCEPT ![d] = x],
           x.pc # "IDLE" => dispatch[d].status # "NONE",
           x.pc \in InTurn <=> x.sid # 0,
           x.sid # 0 => x.sid = exec[d].sid \/ session'[x.sid].status # "NONE"
    PROVE  LoopsKept
BY DEF LoopsKept, Typed, TypeOK, LoopsNamed

LEMMA LeaveKept ==
    ASSUME Typed, NEW d \in DispatchId, NEW ws \in WorkspaceRow, Leave(d, ws)
    PROVE  LoopsKept /\ workspace' \in WorkspaceRow
<1>1. NoExec \in ExecRow /\ NoExec.pc = "IDLE" /\ NoExec.sid = 0
  BY DEF NoExec, ExecRow
<1>2. LoopsKept
  BY <1>1, LoopMovesKept DEF Leave, InTurn
<1>3. AttemptOf(d) \in AttemptId \cup {0}
  BY DEF Typed, TypeOK, AttemptOf, DispatchRow
<1>4. Released(ws, AttemptOf(d)) \in WorkspaceRow
  BY <1>3, WritesType DEF Typed
<1> QED BY <1>2, <1>4 DEF Leave

----
(* Types: the loops *)

LEMMA NoExecType == NoExec \in ExecRow /\ NoExec.pc = "IDLE" /\ NoExec.sid = 0 /\ ~NoExec.revoked
BY DEF NoExec, ExecRow

\* The attempt of a loop that runs, and the AgentRuns without it.
LEMMA LoopNamed ==
    ASSUME Typed, NEW d \in DispatchId
    PROVE  /\ AttemptOf(d) \in AttemptId \cup {0}
           /\ exec[d].pc # "IDLE" => AttemptOf(d) \in AttemptId /\ dispatch[d].status # "NONE"
           /\ exec[d].sid \in SessionId \cup {0}
           /\ exec[d].pc \in InTurn => exec[d].sid \in SessionId /\ session[exec[d].sid].status # "NONE"
BY DEF Typed, TypeOK, AttemptOf, DispatchRow, ExecRow, DispatchesNamed, LoopsNamed

\* A loop that leaves, whatever it wrote before.
LEMMA LeftKept ==
    ASSUME Typed, NEW d \in DispatchId, NEW ws \in WorkspaceRow, Leave(d, ws),
           DispatchesKept, SessionsKept,
           attempt' \in [AttemptId -> AttemptStatus], agentRun' \subseteq AttemptId
    PROVE  RowsKept
BY LeaveKept DEF RowsKept

LEMMA ParkedType ==
    ASSUME Typed, NEW a \in AttemptId \cup {0}
    PROVE  /\ [attempt EXCEPT ![a] = "HARD_PAUSED"] \in [AttemptId -> AttemptStatus]
           /\ [attempt EXCEPT ![a] = "SUCCEEDED"] \in [AttemptId -> AttemptStatus]
           /\ agentRun \ {a} \subseteq AttemptId
           /\ workspace \in WorkspaceRow
           /\ FinishAgentRun(a, workspace) \in WorkspaceRow
<1>1. FinishAgentRun(a, workspace) \in WorkspaceRow
  BY WritesType DEF Typed, TypeOK
<1> QED BY <1>1 DEF Typed, TypeOK, AttemptStatus, Active

LEMMA RefuseKept ==
    ASSUME Typed, NEW d \in DispatchId, exec[d].pc # "IDLE", RefuseDispatch(d)
    PROVE  RowsKept
<1> DEFINE a == AttemptOf(d)
<1>1. a \in AttemptId /\ dispatch[d].status # "NONE"
  BY LoopNamed
<1>2. CASE attempt[a] = "RUNNING" /\ dispatch[d].status = "PENDING"
  <2>1. DispatchesKept
    BY <1>1, <1>2, CompletedKept DEF RefuseDispatch
  <2>2. SessionsKept
    BY <1>2, SessionsStay DEF RefuseDispatch
  <2> QED BY <1>1, <1>2, <2>1, <2>2, ParkedType, LeftKept DEF RefuseDispatch
<1>3. CASE ~(attempt[a] = "RUNNING" /\ dispatch[d].status = "PENDING")
  <2>1. Leave(d, workspace) /\ UNCHANGED <<attempt, dispatch, agentRun, session>>
    BY <1>3 DEF RefuseDispatch
  <2> QED BY <2>1, <1>1, ParkedType, DispatchesStay, SessionsStay, LeftKept DEF Typed, TypeOK
<1> QED BY <1>2, <1>3

LEMMA PreparedKept ==
    ASSUME Typed, NEW d \in DispatchId, exec[d].pc # "IDLE", NEW ws \in WorkspaceRow,
           Prepared(d, ws), UNCHANGED <<attempt, dispatch, agentRun, session>>, exec[d].pc \notin InTurn
    PROVE  RowsKept
<1> DEFINE x == [exec[d] EXCEPT !.leased = TRUE, !.pc = "CONTEXT"]
<1>1. x \in ExecRow /\ x.pc = "CONTEXT" /\ x.sid = exec[d].sid
  BY DEF Typed, TypeOK, ExecRow, Await
<1>2. dispatch[d].status # "NONE" /\ AttemptOf(d) \in AttemptId /\ exec[d].sid = 0
  BY LoopNamed DEF Typed, LoopsNamed
<1>3. exec \in [DispatchId -> ExecRow] /\ TypeOK
  BY DEF Typed, TypeOK
<1>4. LoopsKept
  <2>1. CASE exec' = [exec EXCEPT ![d] = x]
    <3> HIDE DEF x
    <3> QED BY <1>1, <1>2, <2>1, LoopMovesKept DEF InTurn
  <2>2. CASE exec' = [exec EXCEPT ![d] = NoExec]
    BY <2>2, NoExecType, LoopMovesKept DEF InTurn
  <2> QED BY <2>1, <2>2 DEF Prepared
<1>5. workspace' \in WorkspaceRow
  BY <1>2, <1>3, WritesType DEF Prepared
<1> QED BY <1>4, <1>5, DispatchesStay, SessionsStay DEF RowsKept, Typed, TypeOK

LEMMA CheckWorkspaceKept ==
    ASSUME Typed, NEW d \in DispatchId, CheckWorkspace(d)
    PROVE  StepTyped
<1>1. exec[d].pc = "CHECKING" /\ RestTyped /\ workspace \in WorkspaceRow
  BY DEF CheckWorkspace, RestTyped, Typed, TypeOK
<1>2. CASE RefuseDispatch(d)
  BY <1>1, <1>2, RefuseKept DEF StepTyped
<1>3. CASE Prepared(d, workspace) /\ UNCHANGED <<attempt, dispatch, agentRun, session>>
  BY <1>1, <1>3, PreparedKept DEF StepTyped, InTurn
<1> QED BY <1>2, <1>3 DEF CheckWorkspace

LEMMA CreateWorkspaceKept ==
    ASSUME Typed, NEW d \in DispatchId, CreateWorkspace(d)
    PROVE  StepTyped
<1> DEFINE created == [workspace EXCEPT !.status = "READY"]
           leased  == [created EXCEPT !.holder = AttemptOf(d)]
<1>1. exec[d].pc = "CREATING" /\ RestTyped /\ workspace \in WorkspaceRow
  BY DEF CreateWorkspace, RestTyped, Typed, TypeOK
<1>2. created \in WorkspaceRow /\ leased \in WorkspaceRow
  BY <1>1, LoopNamed DEF WorkspaceRow
<1>3. CASE RefuseDispatch(d)
  BY <1>1, <1>3, RefuseKept DEF StepTyped
<1>4. CASE Prepared(d, leased) /\ UNCHANGED <<attempt, dispatch, agentRun, session>>
  <2> HIDE DEF leased
  <2> QED BY <1>1, <1>2, <1>4, PreparedKept DEF StepTyped, InTurn
<1>5. CASE Leave(d, created) /\ UNCHANGED <<attempt, dispatch, agentRun, session>>
  <2> HIDE DEF created
  <2> QED BY <1>1, <1>2, <1>5, DispatchesStay, SessionsStay, LeftKept DEF StepTyped, Typed, TypeOK
<1> QED BY <1>3, <1>4, <1>5 DEF CreateWorkspace

LEMMA HardPauseKept ==
    ASSUME Typed, NEW d \in DispatchId, exec[d].pc # "IDLE", HardPause(d), SessionsKept
    PROVE  RowsKept
<1> DEFINE a == AttemptOf(d)
<1>1. a \in AttemptId /\ dispatch[d].status # "NONE"
  BY LoopNamed
<1>2. DispatchesKept
  BY <1>1, WithdrawnKept DEF HardPause
<1> QED BY <1>1, <1>2, ParkedType, LeftKept DEF HardPause

LEMMA AssembleContextKept ==
    ASSUME Typed, NEW d \in DispatchId, AssembleContext(d)
    PROVE  StepTyped
<1> DEFINE a == AttemptOf(d)
<1>1. exec[d].pc = "CONTEXT" /\ RestTyped
  BY DEF AssembleContext, RestTyped, Typed, TypeOK
<1>2. a \in AttemptId /\ dispatch[d].status # "NONE"
  BY <1>1, LoopNamed
<1>3. CASE RefuseDispatch(d)
  BY <1>1, <1>3, RefuseKept DEF StepTyped
<1>4. CASE HardPause(d) /\ UNCHANGED session
  BY <1>1, <1>4, SessionsStay, HardPauseKept DEF StepTyped
<1>5. CASE OpenSession(d) /\ UNCHANGED <<attempt, dispatch, agentRun>>
  <2>1. CASE Leave(d, workspace) /\ UNCHANGED session
    BY <1>1, <1>5, <2>1, DispatchesStay, SessionsStay, LeftKept DEF StepTyped, Typed, TypeOK
  <2>2. ASSUME NEW s \in NextSession,
               session' = [session EXCEPT ![s] = [attempt |-> a, status |-> "RUNNING", pid |-> FALSE]],
               exec' = [exec EXCEPT ![d] = [@ EXCEPT !.pc = "STARTING", !.sid = s]],
               UNCHANGED workspace
        PROVE  RowsKept
    <3> DEFINE x == [exec[d] EXCEPT !.pc = "STARTING", !.sid = s]
               y == [attempt |-> a, status |-> "RUNNING", pid |-> FALSE]
    <3>1. s \in SessionId /\ session[s].status = "NONE" /\ s # 0
      BY DEF NextSession, Next1, SessionId
    <3>2. x \in ExecRow /\ x.pc = "STARTING" /\ x.sid = s
      BY <3>1 DEF Typed, TypeOK, ExecRow, Await
    <3>3. y \in SessionRow /\ y.attempt = a /\ y.status = "RUNNING"
      BY <1>2 DEF SessionRow
    <3> HIDE DEF x, y
    <3>4. session' = [session EXCEPT ![s] = y] /\ exec' = [exec EXCEPT ![d] = x]
      BY <2>2 DEF x, y
    <3>5. SessionsKept
      BY <1>2, <3>1, <3>3, <3>4 DEF SessionsKept, Typed, TypeOK
    <3>6. session'[s].status # "NONE"
      BY <3>1, <3>3, <3>4 DEF Typed, TypeOK
    <3>7. LoopsKept
      BY <1>2, <3>1, <3>2, <3>4, <3>6, LoopMovesKept DEF InTurn
    <3> QED BY <1>5, <2>2, <3>5, <3>7, DispatchesStay DEF RowsKept, Typed, TypeOK
  <2> QED BY <1>1, <1>5, <2>1, <2>2 DEF OpenSession, StepTyped
<1> QED BY <1>3, <1>4, <1>5 DEF AssembleContext

\* A loop in a turn comes to another await of the turn.
LEMMA TurnMovesKept ==
    ASSUME Typed, NEW d \in DispatchId, exec[d].pc \in InTurn, NEW pc \in InTurn,
           exec' = [exec EXCEPT ![d] = [@ EXCEPT !.pc = pc]]
    PROVE  LoopsKept
<1> DEFINE x == [exec[d] EXCEPT !.pc = pc]
<1>1. x \in ExecRow /\ x.pc = pc /\ x.sid = exec[d].sid
  BY DEF Typed, TypeOK, ExecRow, Await, InTurn
<1>2. dispatch[d].status # "NONE" /\ exec[d].sid # 0
  BY DEF Typed, LoopsNamed, InTurn
<1> HIDE DEF x
<1>3. exec' = [exec EXCEPT ![d] = x]
  BY DEF x
<1> QED BY <1>1, <1>2, <1>3, LoopMovesKept

LEMMA SpawnKept ==
    ASSUME Typed, NEW d \in DispatchId, Spawn(d)
    PROVE  StepTyped
<1> DEFINE s == exec[d].sid
<1>1. exec[d].pc = "STARTING" /\ "LIVE" \in InTurn /\ "STARTING" \in InTurn
  BY DEF Spawn, InTurn
<1>2. s \in SessionId
  BY <1>1, LoopNamed
<1>3. LoopsKept
  BY <1>1, TurnMovesKept DEF Spawn
<1>4. SessionsKept
  <2>1. PICK recorded \in BOOLEAN : session' = [session EXCEPT ![s] = [@ EXCEPT !.pid = recorded]]
    BY DEF Spawn
  <2> DEFINE y == [session[s] EXCEPT !.pid = recorded]
  <2>2. y \in SessionRow /\ y.attempt = session[s].attempt /\ y.status = session[s].status
    BY <1>2 DEF Typed, TypeOK, SessionRow
  <2> HIDE DEF y
  <2>3. session' = [session EXCEPT ![s] = y]
    BY <2>1 DEF y
  <2> QED BY <1>2, <2>2, <2>3 DEF SessionsKept, Typed, TypeOK
<1>5. RowsKept
  BY <1>3, <1>4, DispatchesStay DEF Spawn, RowsKept, Typed, TypeOK
<1>6. RestTyped
  BY <1>2 DEF Spawn, RestTyped, Typed, TypeOK
<1> QED BY <1>5, <1>6 DEF StepTyped

LEMMA EndTurnKept ==
    ASSUME Typed, NEW d \in DispatchId, exec[d].pc \in InTurn, EndTurn(d, exec[d].sid)
    PROVE  RowsKept
<1> DEFINE a == AttemptOf(d)
           s == exec[d].sid
<1>1. a \in AttemptId /\ dispatch[d].status # "NONE" /\ s \in SessionId /\ session[s].status # "NONE"
  BY LoopNamed DEF InTurn
<1>2. exec[d].pc # "IDLE"
  BY DEF InTurn
<1>3. session' = Ended({s}) => SessionsKept
  BY <1>1, EndedKept
<1>4. CASE /\ session' = Ended({s})
           /\ exec' = [exec EXCEPT ![d] = [@ EXCEPT !.pc = "CONTEXT", !.sid = 0]]
           /\ UNCHANGED <<attempt, dispatch, agentRun, workspace>>
  <2> DEFINE x == [exec[d] EXCEPT !.pc = "CONTEXT", !.sid = 0]
  <2>1. x \in ExecRow /\ x.pc = "CONTEXT" /\ x.sid = 0
    BY DEF Typed, TypeOK, ExecRow, Await
  <2> HIDE DEF x
  <2>2. exec' = [exec EXCEPT ![d] = x]
    BY <1>4 DEF x
  <2>3. LoopsKept
    BY <1>1, <2>1, <2>2, LoopMovesKept DEF InTurn
  <2> QED BY <1>3, <1>4, <2>3, DispatchesStay DEF RowsKept, Typed, TypeOK
<1>5. CASE session' = Ended({s}) /\ HardPause(d)
  BY <1>2, <1>3, <1>5, HardPauseKept
<1>6. CASE /\ session' = Ended({s})
           /\ agentRun' = agentRun \ {a}
           /\ Leave(d, FinishAgentRun(a, workspace))
           /\ UNCHANGED <<attempt, dispatch>>
  BY <1>1, <1>3, <1>6, ParkedType, DispatchesStay, LeftKept DEF Typed, TypeOK
<1>7. CASE Leave(d, workspace) /\ UNCHANGED <<attempt, dispatch, agentRun, session>>
  BY <1>1, <1>7, ParkedType, DispatchesStay, SessionsStay, LeftKept DEF Typed, TypeOK
<1> QED BY <1>4, <1>5, <1>6, <1>7 DEF EndTurn

LEMMA TurnEndsKept ==
    ASSUME Typed, NEW d \in DispatchId, TurnEnds(d) \/ RevokedTurnSettles(d) \/ DeadlineReached(d) \/ ResultReturned(d)
    PROVE  StepTyped
<1>1. RestTyped
  BY DEF TurnEnds, RevokedTurnSettles, DeadlineReached, ResultReturned, RestTyped, Typed, TypeOK
<1>2. exec[d].pc \in InTurn /\ "STOPPING" \in InTurn /\ "MEASURING" \in InTurn
  BY DEF TurnEnds, RevokedTurnSettles, DeadlineReached, ResultReturned, InTurn
<1>3. CASE TurnEnds(d)
  BY <1>1, <1>2, <1>3, EndTurnKept DEF TurnEnds, StepTyped
<1>4. CASE RevokedTurnSettles(d)
  BY <1>1, <1>4, DispatchesStay, SessionsStay, LeftKept DEF RevokedTurnSettles, StepTyped, Typed, TypeOK
<1>5. CASE DeadlineReached(d) \/ ResultReturned(d)
  <2>1. LoopsKept
    BY <1>2, <1>5, TurnMovesKept DEF DeadlineReached, ResultReturned
  <2>2. UNCHANGED rows
    BY <1>5 DEF DeadlineReached, ResultReturned
  <2> QED BY <1>1, <2>1, <2>2, DispatchesStay, SessionsStay DEF rows, StepTyped, RowsKept, Typed, TypeOK
<1> QED BY <1>3, <1>4, <1>5

LEMMA TurnUncertainKept ==
    ASSUME Typed, NEW d \in DispatchId, TurnUncertain(d)
    PROVE  StepTyped
<1> DEFINE a == AttemptOf(d)
<1>1. a \in AttemptId /\ exec[d].pc = "LIVE"
  BY LoopNamed DEF TurnUncertain
<1>2. LoopsKept
  BY NoExecType, LoopMovesKept DEF TurnUncertain, InTurn
<1>3. DispatchesKept
  BY <1>1, DispatchesStay, WithdrawnKept DEF TurnUncertain
<1>4. attempt' \in [AttemptId -> AttemptStatus]
  BY <1>1, ParkedType DEF TurnUncertain, Typed, TypeOK
<1> QED BY <1>2, <1>3, <1>4, SessionsStay DEF TurnUncertain, StepTyped, RowsKept, RestTyped, Typed, TypeOK

LEMMA DeadlineStopKept ==
    ASSUME Typed, NEW d \in DispatchId, DeadlineStop(d)
    PROVE  StepTyped
<1>1. RestTyped
  BY DEF DeadlineStop, RestTyped, Typed, TypeOK, rows
<1>2. exec[d].pc \in InTurn
  BY DEF DeadlineStop, InTurn
<1>3. CASE exec' = [exec EXCEPT ![d] = NoExec] /\ UNCHANGED <<rows, child>>
  <2>1. LoopsKept
    BY <1>3, NoExecType, LoopMovesKept DEF InTurn
  <2> QED BY <1>1, <1>3, <2>1, DispatchesStay, SessionsStay DEF rows, StepTyped, RowsKept, Typed, TypeOK
<1>4. CASE Leave(d, workspace) /\ UNCHANGED <<attempt, dispatch, agentRun, session>>
  BY <1>1, <1>4, DispatchesStay, SessionsStay, LeftKept DEF StepTyped, Typed, TypeOK
<1>5. CASE EndTurn(d, exec[d].sid)
  BY <1>1, <1>2, <1>5, EndTurnKept DEF StepTyped
<1> QED BY <1>3, <1>4, <1>5 DEF DeadlineStop

LEMMA ApplyOutcomeKept ==
    ASSUME Typed, NEW d \in DispatchId, exec[d].pc \in InTurn, ApplyOutcome(d, AttemptOf(d))
    PROVE  RowsKept
<1> DEFINE a == AttemptOf(d)
           s == exec[d].sid
           done == [dispatch EXCEPT ![d] = [@ EXCEPT !.status = "COMPLETED"]]
<1>1. a \in AttemptId /\ dispatch[d].status # "NONE" /\ s \in SessionId /\ session[s].status # "NONE"
  BY LoopNamed DEF InTurn
<1>2. SessionsKept
  BY <1>1, EndedKept DEF ApplyOutcome
<1>3. agentRun' \subseteq AttemptId /\ Leave(d, FinishAgentRun(a, workspace))
      /\ FinishAgentRun(a, workspace) \in WorkspaceRow
  BY <1>1, ParkedType DEF ApplyOutcome
<1>4. DispatchesKept /\ attempt' \in [AttemptId -> AttemptStatus]
  <2>1. CASE /\ dispatch' = done
             /\ \/ attempt' = [attempt EXCEPT ![a] = "HARD_PAUSED"]
                \/ attempt' = [attempt EXCEPT ![a] = "SUCCEEDED"]
    <3>1. dispatch' = [dispatch EXCEPT ![d] = [@ EXCEPT !.status = "COMPLETED"]]
      BY <2>1
    <3>2. DispatchesKept
      BY <1>1, <3>1, CompletedKept
    <3>3. attempt' \in [AttemptId -> AttemptStatus]
      BY <1>1, <2>1, ParkedType
    <3> QED BY <3>2, <3>3
  <2>2. ASSUME NEW n \in NextAttempt, NEW e \in NextDispatch,
               attempt' = [attempt EXCEPT ![a] = "SUCCEEDED", ![n] = "QUEUED"],
               dispatch' = [done EXCEPT ![e] = [attempt |-> n, status |-> "PENDING"]]
        PROVE  DispatchesKept /\ attempt' \in [AttemptId -> AttemptStatus]
    <3>1. n \in AttemptId /\ e \in DispatchId /\ dispatch[e].status = "NONE"
      BY DEF NextAttempt, NextDispatch, Next1
    <3>2. attempt' \in [AttemptId -> AttemptStatus]
      BY <1>1, <2>2, <3>1 DEF Typed, TypeOK, AttemptStatus, Active
    <3>3. [dispatch[d] EXCEPT !.status = "COMPLETED"] \in DispatchRow
      BY DEF Typed, TypeOK, DispatchRow
    <3>4. /\ [dispatch[d] EXCEPT !.status = "COMPLETED"].attempt = dispatch[d].attempt
          /\ [dispatch[d] EXCEPT !.status = "COMPLETED"].status = "COMPLETED"
      BY DEF Typed, TypeOK, DispatchRow
    <3> DEFINE w == [dispatch[d] EXCEPT !.status = "COMPLETED"]
               new == [attempt |-> n, status |-> "PENDING"]
    <3>5. new \in DispatchRow /\ new.attempt = n /\ new.status = "PENDING"
      BY <3>1 DEF DispatchRow
    <3> HIDE DEF w, new
    <3>6. dispatch' = [[dispatch EXCEPT ![d] = w] EXCEPT ![e] = new]
      BY <2>2 DEF w, new
    <3>7. w \in DispatchRow /\ w.attempt = dispatch[d].attempt /\ w.status = "COMPLETED"
      BY <3>3, <3>4 DEF w
    <3>8. d # e
      BY <1>1, <3>1
    <3>9. dispatch' \in [DispatchId -> DispatchRow]
      BY <3>1, <3>5, <3>6, <3>7 DEF Typed, TypeOK
    <3>10. \A i \in DispatchId : dispatch'[i] = IF i = e THEN new ELSE IF i = d THEN w ELSE dispatch[i]
      BY <3>1, <3>6, <3>8 DEF Typed, TypeOK
    <3> QED BY <1>1, <3>1, <3>2, <3>5, <3>7, <3>8, <3>9, <3>10 DEF DispatchesKept
  <2> QED BY <2>1, <2>2 DEF ApplyOutcome
<1> QED BY <1>2, <1>3, <1>4, LeftKept

LEMMA ResultMeasuredKept ==
    ASSUME Typed, NEW d \in DispatchId, ResultMeasured(d)
    PROVE  StepTyped
<1>1. RestTyped
  BY DEF ResultMeasured, RestTyped, Typed, TypeOK
<1>2. exec[d].pc \in InTurn
  BY DEF ResultMeasured, InTurn
<1>3. CASE Leave(d, workspace) /\ UNCHANGED <<attempt, dispatch, agentRun, session>>
  BY <1>1, <1>3, DispatchesStay, SessionsStay, LeftKept DEF StepTyped, Typed, TypeOK
<1>4. CASE EndTurn(d, exec[d].sid)
  BY <1>1, <1>2, <1>4, EndTurnKept DEF StepTyped
<1>5. CASE ApplyOutcome(d, AttemptOf(d))
  BY <1>1, <1>2, <1>5, ApplyOutcomeKept DEF StepTyped
<1> QED BY <1>3, <1>4, <1>5 DEF ResultMeasured

LEMMA ExecuteKept ==
    ASSUME Typed, NEW d \in DispatchId, Execute(d)
    PROVE  StepTyped
<1> DEFINE a == AttemptOf(d)
           x == [NoExec EXCEPT !.pc = FirstAwait(a)]
<1>1. dispatch[d].status = "PENDING" /\ dispatch[d].status # "NONE"
  BY DEF Execute
<1>2. a \in AttemptId
  BY <1>1 DEF Typed, DispatchesNamed, AttemptOf
<1>3. x \in ExecRow /\ x.pc \notin InTurn /\ x.sid = 0
  BY DEF NoExec, ExecRow, FirstAwait, Await, InTurn
<1> HIDE DEF x
<1>4. exec' = exec \/ exec' = [exec EXCEPT ![d] = x]
  BY DEF Execute, x
<1>5. LoopsKept
  BY <1>1, <1>3, <1>4, LoopsStay, LoopMovesKept
<1>6. attempt' \in [AttemptId -> AttemptStatus] /\ agentRun' \subseteq AttemptId
  BY <1>2 DEF Execute, Typed, TypeOK, AttemptStatus, Active
<1>7. workspace' \in WorkspaceRow
  BY <1>2 DEF Execute, Typed, TypeOK, WorkspaceRow
<1> QED BY <1>5, <1>6, <1>7, DispatchesStay, SessionsStay DEF Execute, StepTyped, RowsKept, RestTyped, Typed, TypeOK

----
(* Types: the owner and the processes *)

LEMMA StartPipelineKept ==
    ASSUME Typed, StartPipeline
    PROVE  StepTyped
<1>1. PICK a \in NextAttempt, d \in NextDispatch :
         attempt' = [attempt EXCEPT ![a] = "QUEUED"] /\ dispatch' = Queue(a, d)
  BY DEF StartPipeline
<1>2. a \in AttemptId
  BY DEF NextAttempt, Next1
<1>3. DispatchesKept
  BY <1>1, <1>2, QueueKept
<1>4. attempt' \in [AttemptId -> AttemptStatus]
  BY <1>1, <1>2 DEF Typed, TypeOK, AttemptStatus, Active
<1> QED BY <1>3, <1>4, SessionsStay, LoopsStay DEF StartPipeline, StepTyped, RowsKept, RestTyped, Typed, TypeOK

LEMMA StopAgentRunType ==
    ASSUME Typed, NEW a \in AttemptId, StopAgentRun(a)
    PROVE  agentRun' \subseteq AttemptId /\ workspace' \in WorkspaceRow
BY ParkedType DEF StopAgentRun, Typed, TypeOK

LEMMA RevokeKept ==
    ASSUME Typed, NEW a \in AttemptId, Revoke(a)
    PROVE  /\ LoopsKept
           /\ cancel' \in CancelRow
           /\ \A s \in cancel'.sessions : session[s].status # "NONE"
<1>1. LoopsKept
  BY RevokedKept DEF Revoke, Loops, Executing
<1> DEFINE live == {exec[d].sid : d \in Loops(a)} \ {0}
<1>2. live \in SUBSET SessionId
  BY LoopNamed DEF Loops, Executing
<1>3. Turns(a) \in SUBSET SessionId /\ \A s \in Turns(a) : session[s].status # "NONE"
  BY DEF Turns
<1>4. cancel' = [attempt |-> a, sessions |-> Turns(a), stops |-> live, waiting |-> live]
  BY DEF Revoke
<1> HIDE DEF live
<1> QED BY <1>1, <1>2, <1>3, <1>4 DEF CancelRow

LEMMA OwnerKept ==
    ASSUME Typed, NEW a \in AttemptId, Owner(a)
    PROVE  StepTyped
<1>1. CASE PausePipeline(a)
  <2>1. DispatchesKept
    BY <1>1, WithdrawnKept DEF PausePipeline
  <2>2. LoopsKept
    BY <1>1, RevokedKept DEF PausePipeline, PreClaim, Loops, Executing
  <2>3. attempt' \in [AttemptId -> AttemptStatus]
    BY <1>1 DEF PausePipeline, Typed, TypeOK, AttemptStatus, Active
  <2>4. agentRun' \subseteq AttemptId /\ workspace' \in WorkspaceRow
    BY <1>1, StopAgentRunType DEF PausePipeline
  <2>5. QED
    BY <1>1, <2>1, <2>2, <2>3, <2>4, SessionsStay DEF PausePipeline, StepTyped, RowsKept, RestTyped, Typed, TypeOK
<1>2. CASE Requeue(a)
  <2>1. DispatchesKept
    BY <1>2, QueueKept DEF Requeue
  <2>2. attempt' \in [AttemptId -> AttemptStatus]
    BY <1>2 DEF Requeue, Typed, TypeOK, AttemptStatus, Active
  <2> QED BY <1>2, <2>1, <2>2, SessionsStay, LoopsStay DEF Requeue, StepTyped, RowsKept, RestTyped, Typed, TypeOK
<1>3. CASE CancelPipeline(a)
  <2>1. DispatchesKept
    BY <1>3, WithdrawnKept DEF CancelPipeline
  <2>2. attempt' \in [AttemptId -> AttemptStatus]
    BY <1>3 DEF CancelPipeline, Typed, TypeOK, AttemptStatus, Active
  <2>3. agentRun' \subseteq AttemptId /\ workspace' \in WorkspaceRow
    BY <1>3, StopAgentRunType DEF CancelPipeline
  <2>4. /\ LoopsKept /\ cancel' \in CancelRow
        /\ \A s \in cancel'.sessions : session[s].status # "NONE"
    BY <1>3, RevokeKept DEF CancelPipeline
  <2>5. QED
    BY <1>3, <2>1, <2>2, <2>3, <2>4, SessionsStay
    DEF CancelPipeline, StepTyped, RowsKept, RestTyped, Typed, TypeOK
<1>4. CASE RetryCancel(a)
  <2>1. /\ LoopsKept /\ cancel' \in CancelRow
        /\ \A s \in cancel'.sessions : session[s].status # "NONE"
    BY <1>4, RevokeKept DEF RetryCancel
  <2>2. UNCHANGED <<attempt, dispatch, agentRun, session, workspace, child, daemon, crashes>>
    BY <1>4 DEF RetryCancel, rows
  <2> QED BY <2>1, <2>2, DispatchesStay, SessionsStay DEF StepTyped, RowsKept, RestTyped, Typed, TypeOK
<1> QED BY <1>1, <1>2, <1>3, <1>4 DEF Owner

LEMMA NoCancelType == NoCancel \in CancelRow /\ NoCancel.sessions = {}
BY DEF NoCancel, CancelRow

LEMMA CancelRequestKept ==
    ASSUME Typed, CancelRequest
    PROVE  StepTyped
<1>1. ASSUME NEW s \in SessionId, StopConfirmed(s)
      PROVE  StepTyped
  <2> DEFINE c == [cancel EXCEPT !.waiting = @ \ {s}]
  <2>1. c \in CancelRow /\ c.sessions = cancel.sessions
    BY DEF Typed, TypeOK, CancelRow
  <2> HIDE DEF c
  <2>2. cancel' = c /\ child' \subseteq SessionId /\ UNCHANGED <<rows, exec, daemon, crashes>>
    BY <1>1 DEF StopConfirmed, c, Typed, TypeOK
  <2>3. QED
    BY <2>1, <2>2, DispatchesStay, SessionsStay, LoopsStay DEF rows, StepTyped, RowsKept, RestTyped, Typed, TypeOK
<1>2. CASE StopRejected
  BY <1>2, NoCancelType, DispatchesStay, SessionsStay, LoopsStay
  DEF StopRejected, rows, StepTyped, RowsKept, RestTyped, Typed, TypeOK
<1>3. CASE FinishCancel
  <2> DEFINE a == cancel.attempt
  <2>1. a \in AttemptId \cup {0} /\ cancel.sessions \in SUBSET SessionId
    BY DEF Typed, TypeOK, CancelRow
  <2>2. RestTyped /\ UNCHANGED <<exec, dispatch, attempt>>
    BY <1>3, NoCancelType DEF FinishCancel, RestTyped, rows, Typed, TypeOK
  <2>3. CASE UNCHANGED rows
    BY <2>2, <2>3, DispatchesStay, SessionsStay, LoopsStay DEF rows, StepTyped, RowsKept, Typed, TypeOK
  <2>4. CASE /\ session' = Ended(cancel.sessions)
             /\ agentRun' = agentRun \ {a}
             /\ workspace' = FinishAgentRun(a, workspace)
    <3>1. SessionsKept
      BY <2>1, <2>4, EndedKept DEF Typed, CancelNamed
    <3>2. agentRun' \subseteq AttemptId /\ workspace' \in WorkspaceRow
      BY <2>1, <2>4, ParkedType
    <3> QED BY <2>2, <3>1, <3>2, DispatchesStay, LoopsStay DEF StepTyped, RowsKept, Typed, TypeOK
  <2> QED BY <1>3, <2>3, <2>4 DEF FinishCancel
<1> QED BY <1>1, <1>2, <1>3 DEF CancelRequest

LEMMA ProcessKept ==
    ASSUME Typed, Crash \/ \E s \in SessionId : OrphanExits(s)
    PROVE  StepTyped
<1>1. CASE Crash
  <2>1. LoopsKept
    BY <1>1, NoExecType DEF Crash, LoopsKept, InTurn
  <2>2. crashes' \in 0 .. MaxCrashes
    BY <1>1 DEF Crash, Typed, TypeOK
  <2>3. UNCHANGED rows /\ RestTyped
    BY <1>1, <2>2, NoCancelType DEF Crash, RestTyped, Typed, TypeOK
  <2> QED BY <2>1, <2>3, DispatchesStay, SessionsStay DEF rows, StepTyped, RowsKept, Typed, TypeOK
<1>2. CASE \E s \in SessionId : OrphanExits(s)
  <2>1. UNCHANGED <<rows, exec>> /\ RestTyped
    BY <1>2 DEF OrphanExits, RestTyped, Typed, TypeOK
  <2> QED BY <2>1, DispatchesStay, SessionsStay, LoopsStay DEF rows, StepTyped, RowsKept, Typed, TypeOK
<1> QED BY <1>1, <1>2

LEMMA RestartKept ==
    ASSUME Typed, Restart
    PROVE  StepTyped
<1>1. PICK ended \in SUBSET Orphaned : session' = Ended(ended)
  BY DEF Restart, Kept
<1>2. SessionsKept
  BY <1>1, EndedKept DEF Orphaned
<1>3. DispatchesKept
  <2> DEFINE lost(d) == \E a \in Interrupted : d \in Pending(a)
  <2>1. dispatch' = [d \in DispatchId |-> IF lost(d) THEN [dispatch[d] EXCEPT !.status = "FAILED"]
                                           ELSE dispatch[d]]
    BY DEF Restart
  <2>2. ASSUME NEW d \in DispatchId
        PROVE  /\ [dispatch[d] EXCEPT !.status = "FAILED"] \in DispatchRow
               /\ [dispatch[d] EXCEPT !.status = "FAILED"].status = "FAILED"
               /\ [dispatch[d] EXCEPT !.status = "FAILED"].attempt = dispatch[d].attempt
    BY DEF Typed, TypeOK, DispatchRow
  <2>3. ASSUME NEW d \in DispatchId, lost(d)
        PROVE  dispatch[d].status # "NONE"
    BY <2>3 DEF Pending
  <2> HIDE DEF lost
  <2> QED BY <2>1, <2>2, <2>3 DEF DispatchesKept, Typed, TypeOK
<1>4. attempt' \in [AttemptId -> AttemptStatus] /\ agentRun' \subseteq AttemptId
  BY DEF Restart, Typed, TypeOK, AttemptStatus, Active
<1>5. workspace' \in WorkspaceRow
  <2>1. /\ workspace \in WorkspaceRow
        /\ [workspace EXCEPT !.holder = 0] \in WorkspaceRow
        /\ [status |-> "ORPHANED", holder |-> 0] \in WorkspaceRow
    BY DEF Typed, TypeOK, WorkspaceRow
  <2> QED BY <2>1 DEF Restart
<1>6. RestTyped
  BY DEF Restart, RestTyped, Typed, TypeOK
<1> QED BY <1>2, <1>3, <1>4, <1>5, <1>6, LoopsStay DEF Restart, StepTyped, RowsKept

LEMMA StutterKept ==
    ASSUME Typed, UNCHANGED vars
    PROVE  StepTyped
BY DispatchesStay, SessionsStay, LoopsStay DEF vars, StepTyped, RowsKept, RestTyped, Typed, TypeOK

\* Every step keeps the rows typed and named.
LEMMA NextKept ==
    ASSUME Typed, [Next]_vars
    PROVE  StepTyped
<1>1. ASSUME NEW d \in DispatchId, Loop(d)
      PROVE  StepTyped
  BY <1>1, CheckWorkspaceKept, CreateWorkspaceKept, AssembleContextKept, SpawnKept, TurnEndsKept,
     TurnUncertainKept, DeadlineStopKept, ResultMeasuredKept DEF Loop
<1>2. QED
  BY <1>1, ExecuteKept, CancelRequestKept, StartPipelineKept, OwnerKept, ProcessKept, RestartKept,
     StutterKept DEF Next

\* What a loop writes of the attempts and the dispatches, unless its stage passes.
Writes(d) ==
    /\ UNCHANGED attempt \/ \E st \in AttemptStatus \ {"NONE"} : attempt' = [attempt EXCEPT ![AttemptOf(d)] = st]
    /\ \/ UNCHANGED dispatch \/ dispatch' = Withdrawn(AttemptOf(d))
       \/ dispatch' = [dispatch EXCEPT ![d] = [@ EXCEPT !.status = "COMPLETED"]]

LEMMA LoopWrites ==
    ASSUME NEW d \in DispatchId, Loop(d)
    PROVE  (Writes(d) /\ UNCHANGED pipeline) \/ (ResultMeasured(d) /\ ApplyOutcome(d, AttemptOf(d)))
<1> USE DEF Writes, AttemptStatus, Active
<1>1. RefuseDispatch(d) => Writes(d)
  BY DEF RefuseDispatch
<1>2. HardPause(d) => Writes(d)
  BY DEF HardPause
<1>3. EndTurn(d, exec[d].sid) => Writes(d)
  BY <1>2 DEF EndTurn
<1>4. CASE CheckWorkspace(d)
  BY <1>1, <1>4 DEF CheckWorkspace, lineage
<1>5. CASE CreateWorkspace(d)
  BY <1>1, <1>5 DEF CreateWorkspace, lineage
<1>6. CASE AssembleContext(d)
  BY <1>1, <1>2, <1>6 DEF AssembleContext
<1>7. CASE Spawn(d) \/ DeadlineReached(d) \/ RevokedTurnSettles(d) \/ ResultReturned(d)
  BY <1>7 DEF Spawn, DeadlineReached, RevokedTurnSettles, ResultReturned, rows, lineage
<1>8. CASE TurnEnds(d)
  BY <1>3, <1>8 DEF TurnEnds, lineage
<1>9. CASE TurnUncertain(d)
  BY <1>9 DEF TurnUncertain, lineage
<1>10. CASE DeadlineStop(d)
  BY <1>3, <1>10 DEF DeadlineStop, rows, lineage
<1>11. CASE ResultMeasured(d)
  BY <1>3, <1>11 DEF ResultMeasured
<1> QED BY <1>4, <1>5, <1>6, <1>7, <1>8, <1>9, <1>10, <1>11 DEF Loop

\* An attempt whose row is there keeps one, and so does a dispatch; no row is new.
Same ==
    /\ \A a \in AttemptId : attempt'[a] = "NONE" <=> attempt[a] = "NONE"
    /\ \A d \in DispatchId : dispatch'[d].status # "NONE" => dispatch[d].status # "NONE"
    /\ UNCHANGED pipeline

LEMMA WritesSame ==
    ASSUME Typed, NEW d \in DispatchId, exec[d].pc # "IDLE", Writes(d), UNCHANGED pipeline
    PROVE  Same
<1> DEFINE a == AttemptOf(d)
<1>1. a \in AttemptId /\ dispatch[d].status # "NONE" /\ attempt[a] # "NONE" /\ TypeOK
  BY LoopNamed DEF Typed, LinesNamed, AttemptOf
<1>2. \A b \in AttemptId : attempt'[b] = "NONE" <=> attempt[b] = "NONE"
  BY <1>1 DEF Writes, TypeOK
<1>3. \A e \in DispatchId : Withdrawn(a)[e].status # "NONE" => dispatch[e].status # "NONE"
  BY <1>1, WritesFrame
<1> QED BY <1>1, <1>2, <1>3 DEF Writes, Same, TypeOK

LEMMA RestartSame ==
    ASSUME Typed, Restart
    PROVE  Same
<1>1. ASSUME NEW d \in DispatchId, dispatch[d].status = "NONE"
      PROVE  dispatch'[d].status = "NONE"
  <2>1. \A a : d \notin Pending(a)
    BY <1>1 DEF Pending
  <2> QED BY <1>1, <2>1 DEF Restart
<1> QED BY <1>1 DEF Restart, Interrupted, Same, Typed, TypeOK

LEMMA LinesKept ==
    ASSUME Typed, [Next]_vars
    PROVE  LinesNamed'
<1>1. LinesNamed /\ StepTyped
  BY NextKept DEF Typed
<1>2. ASSUME Same, unfenced' \subseteq AttemptId \cup {0}
      PROVE  LinesNamed'
  <2>1. ASSUME NEW d \in DispatchId, dispatch'[d].status # "NONE"
        PROVE  attempt'[dispatch'[d].attempt] # "NONE"
    <3>1. dispatch[d].status # "NONE" /\ dispatch[d].attempt \in AttemptId /\ dispatch'[d].attempt = dispatch[d].attempt
      BY <1>1, <1>2, <2>1 DEF Same, Typed, DispatchesNamed, StepTyped, RowsKept, DispatchesKept
    <3> QED BY <1>1, <1>2, <3>1 DEF Same, LinesNamed
  <2> QED BY <1>1, <1>2, <2>1 DEF Same, LinesNamed
<1>3. CASE UNCHANGED <<attempt, dispatch, lineage>>
  BY <1>1, <1>2, <1>3 DEF Same, lineage, LinesNamed
\* A row is new: the first stage of a pipeline, or the next one.
<1>4. ASSUME NEW n \in NextAttempt, NEW i \in AttemptId, i # 0,
             attempt'[n] = "QUEUED" /\ \A a \in AttemptId : a # n => (attempt'[a] = "NONE" <=> attempt[a] = "NONE"),
             \A d \in DispatchId : dispatch'[d].status # "NONE" =>
                dispatch[d].status # "NONE" \/ dispatch'[d].attempt = n,
             pipeline' = [pipeline EXCEPT ![n] = i], UNCHANGED unfenced
      PROVE  LinesNamed'
  <2>1. n \in AttemptId
    BY DEF NextAttempt, Next1
  <2>2. ASSUME NEW d \in DispatchId, dispatch'[d].status # "NONE"
        PROVE  attempt'[dispatch'[d].attempt] # "NONE"
    <3>1. CASE dispatch[d].status # "NONE"
      <4>1. dispatch[d].attempt \in AttemptId /\ dispatch'[d].attempt = dispatch[d].attempt
        BY <1>1, <3>1 DEF Typed, DispatchesNamed, StepTyped, RowsKept, DispatchesKept
      <4> QED BY <1>1, <1>4, <3>1, <4>1 DEF LinesNamed
    <3> QED BY <1>4, <2>2, <3>1
  <2> QED BY <1>1, <1>4, <2>1, <2>2 DEF LinesNamed
<1>5. CASE StartPipeline
  <2>1. PICK a \in NextAttempt, d \in NextDispatch :
          /\ attempt' = [attempt EXCEPT ![a] = "QUEUED"] /\ dispatch' = Queue(a, d)
          /\ pipeline' = [pipeline EXCEPT ![a] = a]
    BY <1>5 DEF StartPipeline
  <2>2. a \in AttemptId /\ a # 0 /\ UNCHANGED unfenced
    BY <1>5 DEF StartPipeline, NextAttempt, Next1, AttemptId
  <2> QED BY <1>4, <2>1, <2>2 DEF Queue, Typed, TypeOK
<1>6. ASSUME NEW d \in DispatchId, Loop(d)
      PROVE  LinesNamed'
  <2>1. exec[d].pc # "IDLE"
    BY <1>6 DEF Loop, CheckWorkspace, CreateWorkspace, AssembleContext, Spawn, TurnEnds, TurnUncertain,
       DeadlineReached, DeadlineStop, RevokedTurnSettles, ResultReturned, ResultMeasured
  <2>2. AttemptOf(d) \in AttemptId /\ dispatch[d].status # "NONE"
    BY <2>1, LoopNamed
  <2>3. unfenced' \subseteq AttemptId \cup {0}
    BY <1>1, <1>6, <2>2 DEF LinesNamed, Loop, CheckWorkspace, CreateWorkspace, AssembleContext, Spawn, TurnEnds,
       TurnUncertain, DeadlineReached, DeadlineStop, RevokedTurnSettles, ResultReturned, ResultMeasured, lineage
  <2>4. CASE Writes(d) /\ UNCHANGED pipeline
    BY <1>2, <2>1, <2>3, <2>4, WritesSame
  <2>5. CASE ResultMeasured(d) /\ ApplyOutcome(d, AttemptOf(d))
    <3> DEFINE a == AttemptOf(d)
    <3>1. CASE /\ UNCHANGED pipeline /\ \E st \in {"HARD_PAUSED", "SUCCEEDED"} : attempt' = [attempt EXCEPT ![a] = st]
               /\ dispatch' = [dispatch EXCEPT ![d] = [@ EXCEPT !.status = "COMPLETED"]]
      <4>1. Writes(d)
        BY <3>1 DEF Writes, AttemptStatus, Active
      <4> QED BY <1>2, <2>1, <2>3, <3>1, <4>1, WritesSame
    <3>2. ASSUME NEW n \in NextAttempt, NEW e \in NextDispatch,
                 attempt' = [attempt EXCEPT ![a] = "SUCCEEDED", ![n] = "QUEUED"],
                 pipeline' = [pipeline EXCEPT ![n] = pipeline[a]],
                 dispatch' = [[dispatch EXCEPT ![d] = [@ EXCEPT !.status = "COMPLETED"]]
                                EXCEPT ![e] = [attempt |-> n, status |-> "PENDING"]]
          PROVE  LinesNamed'
      <4>1. n \in AttemptId /\ e \in DispatchId
        BY DEF NextAttempt, NextDispatch, Next1
      <4>2. attempt[a] # "NONE" /\ pipeline[a] \in AttemptId /\ pipeline[a] # 0
        BY <1>1, <2>2 DEF LinesNamed, AttemptOf
      <4>3. attempt'[n] = "QUEUED" /\ \A b \in AttemptId : b # n => (attempt'[b] = "NONE" <=> attempt[b] = "NONE")
        BY <2>2, <3>2, <4>1, <4>2 DEF Typed, TypeOK
      <4>4. \A f \in DispatchId : dispatch'[f].status # "NONE" => dispatch[f].status # "NONE" \/ dispatch'[f].attempt = n
        <5> DEFINE w == [dispatch[d] EXCEPT !.status = "COMPLETED"]
                   new == [attempt |-> n, status |-> "PENDING"]
        <5>1. new.attempt = n
          OBVIOUS
        <5>2. dispatch' = [[dispatch EXCEPT ![d] = w] EXCEPT ![e] = new]
          BY <3>2
        <5> HIDE DEF w, new
        <5> QED BY <2>2, <4>1, <5>1, <5>2 DEF Typed, TypeOK
      <4>5. UNCHANGED unfenced
        BY <2>5 DEF ResultMeasured
      <4> QED BY <1>4, <3>2, <4>2, <4>3, <4>4, <4>5
    <3> QED BY <2>5, <3>1, <3>2 DEF ApplyOutcome
  <2> QED BY <1>6, <2>4, <2>5, LoopWrites
<1>7. CASE Restart
  <2>1. PICK kept \in SUBSET Recorded :
          unfenced' = unfenced \cup {pipeline[session[s].attempt] :
                        s \in {t \in kept : session[t].attempt \notin InWorkspace}}
    BY <1>7 DEF Restart, Kept
  <2>2. \A s \in kept : session[s].attempt \in AttemptId
    BY DEF Recorded, Orphaned, Typed, SessionsNamed
  <2>3. Same
    BY <1>7, RestartSame
  <2> QED BY <1>1, <1>2, <2>1, <2>2, <2>3 DEF LinesNamed
<1>8. ASSUME NEW a \in AttemptId, Owner(a)
      PROVE  LinesNamed'
  <2>1. TypeOK /\ a \in AttemptId \cup {0} /\ UNCHANGED lineage
    BY <1>8 DEF Typed, Owner, PausePipeline, Requeue, CancelPipeline, RetryCancel
  <2>2. \A d \in DispatchId : Withdrawn(a)[d].status # "NONE" => dispatch[d].status # "NONE"
    BY <2>1, WritesFrame
  <2>3. CASE PausePipeline(a)
    BY <1>1, <1>2, <2>1, <2>2, <2>3 DEF PausePipeline, Same, TypeOK, lineage, LinesNamed
  <2>4. CASE CancelPipeline(a)
    BY <1>1, <1>2, <2>1, <2>2, <2>4 DEF CancelPipeline, Active, Same, TypeOK, lineage, LinesNamed
  <2>5. CASE RetryCancel(a)
    BY <1>3, <2>1, <2>5 DEF RetryCancel, rows
  <2>6. CASE Requeue(a)
    <3>1. PICK d \in NextDispatch : dispatch' = Queue(a, d)
      BY <2>6 DEF Requeue
    <3>2. attempt[a] # "NONE" /\ attempt' = [attempt EXCEPT ![a] = "QUEUED"]
      BY <2>6 DEF Requeue, Resumable
    <3>3. \A b \in AttemptId : attempt'[b] = "NONE" <=> attempt[b] = "NONE"
      BY <2>1, <3>2 DEF TypeOK
    <3>4. ASSUME NEW e \in DispatchId, dispatch'[e].status # "NONE"
          PROVE  attempt'[dispatch'[e].attempt] # "NONE"
      <4>1. CASE dispatch[e].status # "NONE"
        BY <1>1, <3>3, <4>1 DEF Typed, DispatchesNamed, LinesNamed, StepTyped, RowsKept, DispatchesKept
      <4>2. CASE dispatch[e].status = "NONE"
        BY <2>1, <3>1, <3>2, <3>4, <4>2 DEF Queue, TypeOK
      <4> QED BY <4>1, <4>2
    <3> QED BY <1>1, <2>1, <3>3, <3>4 DEF LinesNamed, lineage
  <2> QED BY <1>8, <2>3, <2>4, <2>5, <2>6 DEF Owner
<1>9. ASSUME NEW d \in DispatchId, Execute(d)
      PROVE  LinesNamed'
  <2>1. UNCHANGED <<dispatch, lineage>> /\ attempt[AttemptOf(d)] = "QUEUED"
        /\ attempt' = [attempt EXCEPT ![AttemptOf(d)] = "RUNNING"]
    BY <1>9 DEF Execute
  <2>2. Same
    BY <2>1 DEF Same, lineage, Typed, TypeOK
  <2> QED BY <1>1, <1>2, <2>1, <2>2 DEF lineage, LinesNamed
<1>10. CASE CancelRequest
  BY <1>3, <1>10 DEF CancelRequest, StopRejected, FinishCancel, StopConfirmed, rows
<1>11. CASE Crash \/ (\E s \in SessionId : OrphanExits(s)) \/ UNCHANGED vars
  BY <1>3, <1>11 DEF Crash, OrphanExits, vars, rows, lineage
<1> QED BY <1>5, <1>6, <1>7, <1>8, <1>9, <1>10, <1>11 DEF Next

LEMMA InitTyped ==
    ASSUME Init
    PROVE  Typed
<1>1. /\ attempt \in [AttemptId -> AttemptStatus] /\ agentRun \subseteq AttemptId
      /\ child \subseteq SessionId /\ daemon \in {"UP", "DOWN"} /\ crashes \in 0 .. MaxCrashes
  BY DEF Init, AttemptStatus
<1>2. dispatch \in [DispatchId -> DispatchRow] /\ session \in [SessionId -> SessionRow]
  BY DEF Init, DispatchRow, SessionRow
<1>3. workspace \in WorkspaceRow /\ cancel \in CancelRow /\ exec \in [DispatchId -> ExecRow]
  BY NoExecType, NoCancelType DEF Init, WorkspaceRow
<1>4. LoopsNamed
  BY NoExecType DEF Init, LoopsNamed, InTurn
<1>5. DispatchesNamed /\ SessionsNamed /\ CancelNamed
  BY NoCancelType DEF Init, DispatchesNamed, SessionsNamed, CancelNamed
<1>6. LinesNamed
  BY DEF Init, LinesNamed
<1> QED BY <1>1, <1>2, <1>3, <1>4, <1>5, <1>6 DEF Typed, TypeOK, LinesNamed

\* Every row and every record of the worker has its declared shape, whatever the daemon does
\* between two awaits and however often it dies.
THEOREM ExecutionType == Spec => []TypeOK
<1>1. Init => Typed
  BY InitTyped
<1>2. Typed /\ [Next]_vars => Typed'
  BY NextKept, LinesKept, KeptTyped
<1>3. Typed => TypeOK
  BY DEF Typed
<1> QED BY <1>1, <1>2, <1>3, PTL DEF Spec

----
(* What the invariant says of a loop that acts *)

\* One attempt is not over at most.
LEMMA LatestIsActive ==
    ASSUME Typed, EInv, NEW a \in AttemptId, NEW b \in AttemptId, attempt[a] \in Active, attempt[b] \in Active
    PROVE  a = b
<1>1. a \in Nat /\ b \in Nat /\ attempt[a] # "NONE" /\ attempt[b] # "NONE"
  BY DEF AttemptId, Active
<1> QED BY <1>1 DEF EInv, AttemptsFit

\* What is pending is for it.
LEMMA PendingIsActive ==
    ASSUME Typed, EInv, NEW a \in AttemptId, attempt[a] \in Active, NEW d \in DispatchId, dispatch[d].status = "PENDING"
    PROVE  AttemptOf(d) = a
<1>1. AttemptOf(d) \in AttemptId /\ attempt[AttemptOf(d)] \in Active
  BY DEF Typed, DispatchesNamed, AttemptOf, EInv, PendingFits, Active
<1> QED BY <1>1, LatestIsActive

\* The attempt of a loop that acts is not over, and has the one AgentRun; its turn is the one turn.
LEMMA ActingFacts ==
    ASSUME Typed, EInv, NEW d \in DispatchId, Acting(d)
    PROVE  /\ AttemptOf(d) \in AttemptId
           /\ agentRun = {AttemptOf(d)}
           /\ attempt[AttemptOf(d)] \in {"RUNNING", "SOFT_PAUSED"}
           /\ attempt[AttemptOf(d)] \in Active
           /\ daemon = "UP"
           /\ \A e \in DispatchId : Acting(e) => e = d
           /\ \A s \in SessionId : session[s].status = "RUNNING" =>
                s = exec[d].sid /\ session[s].attempt = AttemptOf(d) /\ exec[d].pc \in InTurn
           /\ \A b \in AttemptId : attempt[b] \in Active => b = AttemptOf(d)
           /\ \A e \in DispatchId : dispatch[e].status = "PENDING" => AttemptOf(e) = AttemptOf(d)
<1> DEFINE a == AttemptOf(d)
<1>1. exec[d].pc # "IDLE" /\ LoopFits(d) /\ ActingFits(d)
  BY DEF EInv, LoopsFit, Acting
<1>2. a \in AttemptId
  BY <1>1, LoopNamed
<1>3. a \in agentRun /\ attempt[a] \in {"RUNNING", "SOFT_PAUSED"} /\ daemon = "UP"
  BY <1>1 DEF ActingFits, LoopFits
<1>4. agentRun = {a}
  BY <1>3 DEF EInv, ClaimsFit
<1>5. ASSUME NEW s \in SessionId, session[s].status = "RUNNING"
      PROVE  s = exec[d].sid /\ session[s].attempt = a /\ exec[d].pc \in InTurn
  <2>1. exec[d].pc \in InTurn /\ session[exec[d].sid].status = "RUNNING"
    BY <1>1, <1>5 DEF ActingFits
  <2>2. exec[d].sid \in SessionId /\ exec[d].sid # 0
    BY <2>1, LoopNamed DEF Typed, LoopsNamed
  <2> QED BY <1>1, <1>5, <2>1, <2>2 DEF EInv, OnlyTurn, LoopFits
<1>6. attempt[a] \in Active
  BY <1>3 DEF Active
<1>7. \A b \in AttemptId : attempt[b] \in Active => b = a
  BY <1>2, <1>6, LatestIsActive
<1>8. \A e \in DispatchId : dispatch[e].status = "PENDING" => AttemptOf(e) = a
  BY <1>2, <1>6, PendingIsActive
<1>9. \A e \in DispatchId : Acting(e) => e = d
  BY DEF EInv, LoopsFit
<1> QED BY <1>2, <1>3, <1>4, <1>5, <1>6, <1>7, <1>8, <1>9

----
(* Steps of a loop *)

\* The other loops, and the requests of the owner, take no part in it.
Alone(d) ==
    /\ \A e \in DispatchId : e # d => exec'[e] = exec[e]
    /\ UNCHANGED <<cancel, daemon, crashes>>

\* A loop that was revoked goes on to its end; all it may leave behind is a workspace nobody holds.
Fades(d) ==
    /\ Alone(d) /\ exec[d].pc # "IDLE" /\ exec[d].revoked
    /\ exec'[d].pc = "IDLE" \/ (exec'[d].revoked /\ exec'[d].sid = exec[d].sid)
    /\ \/ UNCHANGED workspace
       \/ workspace.status = "ABSENT" /\ workspace'.status = "READY" /\ workspace'.holder = workspace.holder
    /\ child' \subseteq child
    /\ UNCHANGED <<attempt, dispatch, agentRun, session>>

LEMMA FadesKeeps ==
    ASSUME Typed, EInv, Typed', NEW d \in DispatchId, Fades(d)
    PROVE  EInv'
<1> USE DEF Fades, Alone
<1>1. \A e \in DispatchId : AttemptOf(e)' = AttemptOf(e)
  BY DEF AttemptOf
<1>2. \A a \in AttemptId : HasTurn(a)' <=> HasTurn(a)
  BY DEF HasTurn
<1>3. \A e \in DispatchId : Acting(e)' <=> Acting(e)
  BY DEF Acting
<1>4. \A e \in DispatchId : exec'[e].pc # "IDLE" => exec[e].pc # "IDLE" /\ exec'[e].sid = exec[e].sid
  OBVIOUS
<1>5. \A e \in DispatchId : Acting(e) => e # d
  BY DEF Acting
<1>6. (AttemptsFit /\ PendingFits)'
  BY DEF EInv, AttemptsFit, PendingFits, AttemptOf
<1>7. ClaimsFit' /\ OnlyTurn'
  BY DEF EInv, ClaimsFit, OnlyTurn, HasTurn, SurvivesCrash
<1>8. LeaseFits'
  <2>1. CASE UNCHANGED workspace
    BY <2>1 DEF EInv, LeaseFits, HasTurn, SurvivesCrash
  <2>2. CASE workspace.status = "ABSENT" /\ workspace'.status = "READY" /\ workspace'.holder = workspace.holder
    BY <2>2 DEF EInv, LeaseFits, HasTurn, SurvivesCrash
  <2> QED BY <2>1, <2>2
<1>9. LoopsFit'
  <2>1. ASSUME NEW e \in DispatchId
        PROVE  LoopFits(e)'
    BY <1>4 DEF EInv, LoopsFit, LoopFits, AttemptOf
  <2>2. ASSUME NEW e \in DispatchId
        PROVE  ActingFits(e)'
    <3>1. SUFFICES ASSUME Acting(e)'
                   PROVE  ActingFits(e)'
      BY DEF ActingFits
    <3>2. Acting(e) /\ exec'[e] = exec[e]
      BY <3>1, <1>3, <1>5
    <3>3. AttemptOf(e) \in AttemptId /\ AttemptOf(e) # 0
      BY <3>2, ActingFacts DEF AttemptId
    <3>4. AttemptOf(e) \in InWorkspace /\ exec[e].pc # "CREATING" => UNCHANGED workspace
      BY <3>2 DEF EInv, LoopsFit, ActingFits
    <3> QED BY <3>2, <3>4 DEF EInv, LoopsFit, ActingFits, AttemptOf
  <2>3. \A e, f \in DispatchId : Acting(e)' /\ Acting(f)' => e = f
    BY <1>3 DEF EInv, LoopsFit
  <2> QED BY <2>1, <2>2, <2>3 DEF LoopsFit
<1>10. Driven'
  BY <1>1, <1>2, <1>3 DEF EInv, Driven
<1>11. CancelFits'
  BY <1>4 DEF EInv, CancelFits
<1>12. ChildFits'
  BY <1>4 DEF EInv, ChildFits
<1> QED BY <1>6, <1>7, <1>8, <1>9, <1>10, <1>11, <1>12 DEF EInv

\* A loop that acts goes on to its next await, perhaps with the lease of a workspace it created.
Moves(d) ==
    /\ Alone(d) /\ Acting(d) /\ Acting(d)'
    /\ exec'[d].sid = exec[d].sid /\ exec'[d].pc # "CREATING"
    /\ \/ UNCHANGED workspace /\ exec[d].pc # "CREATING"
       \/ /\ exec[d].pc = "CREATING" /\ workspace.status = "ABSENT"
          /\ workspace'.status = "READY" /\ workspace'.holder = AttemptOf(d)
    /\ child' \subseteq child /\ (exec'[d].pc = "MEASURING" => exec[d].sid \notin child')
    /\ UNCHANGED <<attempt, dispatch, agentRun, session>>

LEMMA MovesKeeps ==
    ASSUME Typed, EInv, Typed', NEW d \in DispatchId, Moves(d)
    PROVE  EInv'
<1> USE DEF Moves, Alone
<1> DEFINE a == AttemptOf(d)
<1>1. /\ a \in AttemptId /\ agentRun = {a} /\ daemon = "UP"
      /\ \A e \in DispatchId : Acting(e) => e = d
      /\ LoopFits(d) /\ ActingFits(d) /\ exec[d].pc # "IDLE"
  BY ActingFacts DEF EInv, LoopsFit, Acting
<1>2. \A e \in DispatchId : AttemptOf(e)' = AttemptOf(e)
  BY DEF AttemptOf
<1>3. \A e \in DispatchId : Acting(e)' <=> Acting(e)
  BY DEF Acting
<1>4. \A e \in DispatchId : exec'[e].sid = exec[e].sid /\ (exec'[e].pc = "IDLE" <=> exec[e].pc = "IDLE")
                            /\ exec'[e].revoked = exec[e].revoked
  BY DEF Acting, Typed, TypeOK, ExecRow
<1>5. (AttemptsFit /\ PendingFits)'
  BY DEF EInv, AttemptsFit, PendingFits, AttemptOf
<1>6. ClaimsFit' /\ OnlyTurn'
  BY DEF EInv, ClaimsFit, OnlyTurn, HasTurn, SurvivesCrash
<1>7. LeaseFits'
  <2>1. CASE UNCHANGED workspace
    BY <2>1 DEF EInv, LeaseFits, HasTurn, SurvivesCrash
  <2>2. CASE /\ exec[d].pc = "CREATING" /\ workspace.status = "ABSENT"
             /\ workspace'.status = "READY" /\ workspace'.holder = a
    <3>1. \A s \in SessionId : session[s].status # "RUNNING"
      BY <1>1, <2>2 DEF ActingFits, InTurn
    <3>2. a \in InWorkspace
      BY <1>1, <2>2 DEF ActingFits
    <3> QED BY <1>1, <2>2, <3>1, <3>2 DEF LeaseFits
  <2> QED BY <2>1, <2>2
<1>8. LoopsFit'
  <2>1. ASSUME NEW e \in DispatchId
        PROVE  LoopFits(e)'
    BY <1>4 DEF EInv, LoopsFit, LoopFits, AttemptOf
  <2>2. ActingFits(d)'
    <3>1. a \in InWorkspace => workspace'.holder = a /\ workspace'.status = "READY"
      BY <1>1 DEF ActingFits
    <3>2. exec'[d].pc \in InTurn <=> exec[d].pc \in InTurn
      BY <1>4 DEF Typed, LoopsNamed
    <3> QED BY <1>1, <1>2, <3>1, <3>2 DEF ActingFits
  <2>3. \A e \in DispatchId : e # d => ~Acting(e)'
    BY <1>1, <1>3
  <2> QED BY <2>1, <2>2, <2>3 DEF LoopsFit, ActingFits
<1>9. Driven'
  BY <1>2, <1>3 DEF EInv, Driven, HasTurn
<1>10. CancelFits'
  BY <1>4 DEF EInv, CancelFits
<1>11. ChildFits'
  BY <1>4 DEF EInv, ChildFits
<1> QED BY <1>5, <1>6, <1>7, <1>8, <1>9, <1>10, <1>11 DEF EInv

\* It opens a session.
Opens(d, s) ==
    /\ Alone(d) /\ Acting(d) /\ Acting(d)' /\ exec[d].pc = "CONTEXT" /\ exec'[d].pc = "STARTING"
    /\ exec'[d].sid = s
    /\ session[s].status = "NONE"
    /\ session'[s].status = "RUNNING" /\ session'[s].attempt = AttemptOf(d) /\ ~session'[s].pid
    /\ \A t \in SessionId : t # s => session'[t] = session[t]
    /\ UNCHANGED <<attempt, dispatch, agentRun, workspace, child>>

LEMMA OpensKeeps ==
    ASSUME Typed, EInv, Typed', NEW d \in DispatchId, NEW s \in SessionId, Opens(d, s)
    PROVE  EInv'
<1> USE DEF Opens, Alone
<1> DEFINE a == AttemptOf(d)
<1>1. /\ a \in AttemptId /\ agentRun = {a} /\ daemon = "UP" /\ s # 0
      /\ \A e \in DispatchId : Acting(e) => e = d
      /\ LoopFits(d) /\ ActingFits(d) /\ exec[d].pc # "IDLE" /\ exec[d].pc \notin InTurn
  BY ActingFacts DEF EInv, LoopsFit, Acting, SessionId, InTurn
<1>2. \A e \in DispatchId : AttemptOf(e)' = AttemptOf(e)
  BY DEF AttemptOf
<1>3. \A e \in DispatchId : Acting(e)' <=> Acting(e)
  BY DEF Acting
<1>4. \A t \in SessionId : session[t].status # "RUNNING"
  BY <1>1 DEF ActingFits
<1>5. \A t \in SessionId : session'[t].status = "RUNNING" <=> t = s
  BY <1>4
<1>6. (AttemptsFit /\ PendingFits)'
  BY DEF EInv, AttemptsFit, PendingFits, AttemptOf
<1>7. attempt[a] = "RUNNING"
  BY <1>1 DEF ActingFits
<1>8. ClaimsFit' /\ OnlyTurn'
  BY <1>1, <1>5, <1>7 DEF EInv, ClaimsFit, OnlyTurn
<1>9. LeaseFits'
  <2>1. a \in InWorkspace => workspace.holder = a
    BY <1>1 DEF ActingFits
  <2>2. workspace.holder # 0 => workspace.holder \in agentRun \/ (SurvivesCrash /\ attempt[workspace.holder] = "CANCELLED")
    BY <1>4 DEF EInv, LeaseFits, HasTurn
  <2> QED BY <1>5, <2>1, <2>2 DEF EInv, LeaseFits, SurvivesCrash
<1>10. \A e \in DispatchId : exec[e].pc # "IDLE" /\ exec[e].sid # 0 => exec[e].sid \in SessionId /\ exec[e].sid # s
  BY LoopNamed DEF Typed, LoopsNamed
<1>11. LoopsFit'
  <2>1. ASSUME NEW e \in DispatchId, e # d
        PROVE  LoopFits(e)'
    BY <2>1, <1>10 DEF EInv, LoopsFit, LoopFits, AttemptOf
  <2>2. LoopFits(d)'
    BY <1>1, <1>2 DEF LoopFits, Acting
  <2>3. ActingFits(d)'
    BY <1>1, <1>2 DEF ActingFits, InTurn
  <2>4. \A e \in DispatchId : e # d => ~Acting(e)'
    BY <1>1, <1>3
  <2> QED BY <2>1, <2>2, <2>3, <2>4 DEF LoopsFit, ActingFits
<1>12. Driven'
  <2>1. \A b \in AttemptId : attempt[b] = "RUNNING" => b = a
    BY <1>1, ActingFacts DEF Active
  <2> QED BY <2>1, <1>1, <1>5 DEF Driven, HasTurn
<1>13. CancelFits'
  <2>1. \A t \in cancel.sessions : t \in SessionId
    BY DEF Typed, TypeOK, CancelRow
  <2>2. \A t \in cancel.stops : t \in SessionId /\ t # s
    BY DEF EInv, CancelFits, Typed, TypeOK, CancelRow
  <2> QED BY <2>1, <2>2, <1>4 DEF EInv, CancelFits
<1>14. ChildFits'
  <2>1. \A t \in child : t \in SessionId
    BY DEF Typed, TypeOK
  <2> QED BY <2>1, <1>5 DEF EInv, ChildFits
<1> QED BY <1>6, <1>8, <1>9, <1>11, <1>12, <1>13, <1>14 DEF EInv

\* Its turn gets a process.
Spawns(d) ==
    /\ Alone(d) /\ Acting(d) /\ Acting(d)' /\ exec[d].pc = "STARTING" /\ exec'[d].pc = "LIVE"
    /\ exec'[d].sid = exec[d].sid
    /\ \A t \in SessionId :
        /\ session'[t].status = session[t].status /\ session'[t].attempt = session[t].attempt
        /\ t # exec[d].sid => session'[t].pid = session[t].pid
    /\ child' = child \cup {exec[d].sid}
    /\ UNCHANGED <<attempt, dispatch, agentRun, workspace>>

LEMMA SpawnsKeeps ==
    ASSUME Typed, EInv, Typed', NEW d \in DispatchId, Spawns(d)
    PROVE  EInv'
<1> USE DEF Spawns, Alone
<1> DEFINE a == AttemptOf(d)
           s == exec[d].sid
<1>1. /\ a \in AttemptId /\ agentRun = {a} /\ daemon = "UP" /\ s \in SessionId
      /\ \A e \in DispatchId : Acting(e) => e = d
      /\ LoopFits(d) /\ ActingFits(d) /\ exec[d].pc # "IDLE" /\ exec[d].pc \in InTurn
      /\ session[s].status = "RUNNING"
  BY ActingFacts, LoopNamed DEF EInv, LoopsFit, Acting, InTurn, ActingFits
<1>2. \A e \in DispatchId : AttemptOf(e)' = AttemptOf(e)
  BY DEF AttemptOf
<1>3. \A e \in DispatchId : Acting(e)' <=> Acting(e)
  BY DEF Acting
<1>4. \A e \in DispatchId : exec'[e].sid = exec[e].sid /\ (exec'[e].pc = "IDLE" <=> exec[e].pc = "IDLE")
                            /\ exec'[e].revoked = exec[e].revoked
  BY DEF Acting, Typed, TypeOK, ExecRow
<1>5. \A b \in AttemptId : HasTurn(b)' <=> HasTurn(b)
  BY DEF HasTurn
<1>6. (AttemptsFit /\ PendingFits)'
  BY DEF EInv, AttemptsFit, PendingFits, AttemptOf
<1>7. ClaimsFit' /\ OnlyTurn'
  BY DEF EInv, ClaimsFit, OnlyTurn, HasTurn, SurvivesCrash
<1>8. LeaseFits'
  BY DEF EInv, LeaseFits, HasTurn, SurvivesCrash
<1>9. LoopsFit'
  <2>1. ASSUME NEW e \in DispatchId
        PROVE  LoopFits(e)'
    <3>1. exec[e].sid \in SessionId \cup {0}
      BY LoopNamed
    <3> QED BY <1>4, <3>1 DEF EInv, LoopsFit, LoopFits, AttemptOf
  <2>2. ActingFits(d)'
    BY <1>1, <1>2 DEF ActingFits, InTurn
  <2>3. \A e \in DispatchId : e # d => ~Acting(e)'
    BY <1>1, <1>3
  <2> QED BY <2>1, <2>2, <2>3 DEF LoopsFit, ActingFits
<1>10. Driven'
  BY <1>2, <1>3, <1>5 DEF EInv, Driven
<1>11. CancelFits'
  <2>1. \A t \in cancel.stops \cup cancel.sessions : t \in SessionId
    BY DEF Typed, TypeOK, CancelRow
  <2>2. s \notin cancel.stops
    BY <1>1 DEF EInv, CancelFits, Acting
  <2> QED BY <2>1, <2>2, <1>4 DEF EInv, CancelFits
<1>12. ChildFits'
  <2>1. \A t \in child : t \in SessionId
    BY DEF Typed, TypeOK
  <2> QED BY <2>1, <1>1, <1>4 DEF EInv, ChildFits
<1> QED BY <1>6, <1>7, <1>8, <1>9, <1>10, <1>11, <1>12 DEF EInv

\* Its turn ends, and it takes another one.
TakesAnother(d) ==
    /\ Alone(d) /\ Acting(d) /\ Acting(d)' /\ exec[d].pc \in InTurn /\ exec'[d].pc = "CONTEXT"
    /\ attempt[AttemptOf(d)] = "RUNNING"
    /\ \A t \in SessionId :
        /\ session'[t].status = IF t = exec[d].sid THEN "ENDED" ELSE session[t].status
        /\ session'[t].attempt = session[t].attempt /\ session'[t].pid = session[t].pid
    /\ child' \subseteq child \ {exec[d].sid}
    /\ UNCHANGED <<attempt, dispatch, agentRun, workspace>>

LEMMA TakesAnotherKeeps ==
    ASSUME Typed, EInv, Typed', NEW d \in DispatchId, TakesAnother(d)
    PROVE  EInv'
<1> USE DEF TakesAnother, Alone
<1> DEFINE a == AttemptOf(d)
           s == exec[d].sid
<1>1. /\ a \in AttemptId /\ agentRun = {a} /\ daemon = "UP" /\ s \in SessionId
      /\ \A e \in DispatchId : Acting(e) => e = d
      /\ LoopFits(d) /\ ActingFits(d) /\ exec[d].pc # "IDLE"
  BY ActingFacts, LoopNamed DEF EInv, LoopsFit, Acting
<1>2. \A e \in DispatchId : AttemptOf(e)' = AttemptOf(e)
  BY DEF AttemptOf
<1>3. \A e \in DispatchId : Acting(e)' <=> Acting(e)
  BY DEF Acting
<1>4. \A t \in SessionId : session'[t].status # "RUNNING"
  BY ActingFacts
<1>5. (AttemptsFit /\ PendingFits)'
  BY DEF EInv, AttemptsFit, PendingFits, AttemptOf
<1>6. ClaimsFit' /\ OnlyTurn'
  BY <1>1, <1>4 DEF EInv, ClaimsFit, OnlyTurn
<1>7. LeaseFits'
  <2>1. \A b \in AttemptId : HasTurn(b) => b = a
    BY ActingFacts DEF HasTurn
  <2>2. workspace.holder \in AttemptId \cup {0}
    BY DEF Typed, TypeOK, WorkspaceRow
  <2> QED BY <1>1, <1>4, <2>1, <2>2 DEF EInv, LeaseFits, SurvivesCrash
<1>8. exec'[d].sid = 0
  BY DEF Typed, LoopsNamed, InTurn
<1>9. LoopsFit'
  <2>1. ASSUME NEW e \in DispatchId, e # d
        PROVE  LoopFits(e)'
    <3>1. exec[e].sid \in SessionId \cup {0}
      BY LoopNamed
    <3> QED BY <2>1, <3>1 DEF EInv, LoopsFit, LoopFits, AttemptOf
  <2>2. LoopFits(d)'
    BY <1>1, <1>2, <1>8 DEF LoopFits, Acting
  <2>3. ActingFits(d)'
    BY <1>1, <1>2, <1>4 DEF ActingFits, InTurn
  <2>4. \A e \in DispatchId : e # d => ~Acting(e)'
    BY <1>1, <1>3
  <2> QED BY <2>1, <2>2, <2>3, <2>4 DEF LoopsFit, ActingFits
<1>10. Driven'
  <2>1. \A b \in AttemptId : attempt[b] = "RUNNING" => b = a
    BY ActingFacts DEF Active
  <2> QED BY <2>1, <1>2 DEF Driven
<1>11. CancelFits'
  <2>1. \A t \in cancel.stops \cup cancel.sessions : t \in SessionId
    BY DEF Typed, TypeOK, CancelRow
  <2>2. cancel.attempt # a
    BY <1>1 DEF EInv, CancelFits, AttemptId
  <2>3. \A t \in cancel.sessions : t # s
    BY <1>1, <2>2 DEF EInv, CancelFits, LoopFits, AttemptId, SessionId
  <2>4. \A e \in DispatchId, t \in cancel.stops : exec'[e].pc # "IDLE" /\ exec'[e].sid = t => e # d
    BY <1>8, <2>1 DEF SessionId
  <2> QED BY <2>1, <2>3, <2>4 DEF EInv, CancelFits
<1>12. ChildFits'
  <2>1. \A t \in child' : t \in SessionId /\ t # s /\ t \in child /\ t # 0
    BY DEF Typed, TypeOK, SessionId
  <2> QED BY <2>1, <1>8 DEF EInv, ChildFits
<1> QED BY <1>5, <1>6, <1>7, <1>9, <1>10, <1>11, <1>12 DEF EInv

\* It leaves, its turn ends, its claim with it and the lease with the claim; the attempt waits for
\* the owner, or it passed and perhaps the next one is queued.
Parks(d) ==
    /\ Alone(d) /\ Acting(d) /\ exec'[d].pc = "IDLE"
    /\ agentRun' = agentRun \ {AttemptOf(d)}
    /\ workspace'.status = workspace.status
    /\ workspace'.holder = IF workspace.holder = AttemptOf(d) THEN 0 ELSE workspace.holder
    /\ \A t \in SessionId :
        /\ session'[t].status = IF t = exec[d].sid THEN "ENDED" ELSE session[t].status
        /\ session'[t].attempt = session[t].attempt /\ session'[t].pid = session[t].pid
    /\ child' = child \ {exec[d].sid}

\* No dispatch is pending, and the attempt does not run.
Rests(a) ==
    /\ attempt'[a] \in {"SOFT_PAUSED", "HARD_PAUSED", "SUCCEEDED"}
    /\ \A b \in AttemptId : b # a => attempt'[b] = attempt[b]
    /\ \A e \in DispatchId : dispatch'[e].status # "PENDING"
\* The attempt passed, and the next one waits.
Passes(a) ==
    \E n \in NextAttempt, e \in NextDispatch :
        /\ attempt'[a] = "SUCCEEDED" /\ attempt'[n] = "QUEUED"
        /\ \A b \in AttemptId : b \notin {a, n} => attempt'[b] = attempt[b]
        /\ dispatch'[e].attempt = n
        /\ \A f \in DispatchId : dispatch'[f].status = "PENDING" <=> f = e

\* What either leaves of the attempts and of their dispatches.
LEMMA RestsOrPasses ==
    ASSUME Typed, EInv, NEW a \in AttemptId, attempt[a] \in Active, Rests(a) \/ Passes(a)
    PROVE  /\ AttemptsFit'
           /\ \A d \in DispatchId : dispatch'[d].status = "PENDING" =>
                dispatch'[d].attempt \in AttemptId /\ attempt'[dispatch'[d].attempt] \in {"QUEUED", "RUNNING"}
           /\ \A d, e \in DispatchId :
                dispatch'[d].status = "PENDING" /\ dispatch'[e].status = "PENDING" => d = e
           /\ \A b \in AttemptId : attempt'[b] # "RUNNING"
           /\ \A b \in AttemptId : attempt[b] = "CANCELLED" => attempt'[b] = "CANCELLED"
<1>1. \A b \in AttemptId : attempt[b] \in Active => b = a
  BY LatestIsActive
<1>2. attempt[a] # "NONE" /\ a \in Nat /\ \A b \in AttemptId : b \in Nat
  BY DEF Active, AttemptId
<1>3. CASE Rests(a)
  <2>1. attempt'[a] # "NONE" /\ \A b \in AttemptId : b # a => attempt'[b] \notin Active
    BY <1>1, <1>3 DEF Rests
  <2>2. \A b \in AttemptId : b > a => attempt'[b] = "NONE"
    BY <1>2, <1>3 DEF Rests, EInv, AttemptsFit
  <2>3. \A b, c \in AttemptId : attempt'[b] = "NONE" /\ c > b => attempt'[c] = "NONE"
    <3>1. SUFFICES ASSUME NEW b \in AttemptId, NEW c \in AttemptId, attempt'[b] = "NONE", c > b
                   PROVE  attempt'[c] = "NONE"
      OBVIOUS
    <3>2. b # a /\ attempt[b] = "NONE"
      BY <2>1, <3>1, <1>3 DEF Rests
    <3>3. attempt[c] = "NONE"
      BY <3>1, <3>2 DEF EInv, AttemptsFit
    <3>4. c # a
      BY <1>2, <3>3
    <3> QED BY <1>3, <3>3, <3>4 DEF Rests
  <2>4. AttemptsFit'
    BY <2>1, <2>2, <2>3 DEF AttemptsFit, Active
  <2>5. \A b \in AttemptId : attempt'[b] # "RUNNING"
    BY <1>3, <2>1 DEF Rests, Active
  <2>6. \A b \in AttemptId : attempt[b] = "CANCELLED" => attempt'[b] = "CANCELLED"
    BY <1>3 DEF Rests, Active
  <2> QED BY <1>3, <2>4, <2>5, <2>6 DEF Rests
<1>4. CASE Passes(a)
  <2>1. PICK n \in NextAttempt, e \in NextDispatch :
          /\ attempt'[a] = "SUCCEEDED" /\ attempt'[n] = "QUEUED"
          /\ \A b \in AttemptId : b \notin {a, n} => attempt'[b] = attempt[b]
          /\ dispatch'[e].attempt = n
          /\ \A f \in DispatchId : dispatch'[f].status = "PENDING" <=> f = e
    BY <1>4 DEF Passes
  <2>2. n \in AttemptId /\ attempt[n] = "NONE" /\ \A b \in AttemptId : attempt[b] = "NONE" => n <= b
    BY DEF NextAttempt, Next1
  <2>3. n # a
    BY <1>2, <2>2
  <2>4. \A b \in AttemptId : attempt'[b] \in Active => b = n
    BY <1>1, <2>1, <2>2 DEF Active
  <2>5. \A b \in AttemptId : b > n => attempt'[b] = "NONE"
    BY <1>2, <2>1, <2>2, <2>3 DEF EInv, AttemptsFit
  <2>6. \A b, c \in AttemptId : attempt'[b] = "NONE" /\ c > b => attempt'[c] = "NONE"
    <3>1. SUFFICES ASSUME NEW b \in AttemptId, NEW c \in AttemptId, attempt'[b] = "NONE", c > b
                   PROVE  attempt'[c] = "NONE"
      OBVIOUS
    <3>2. b \notin {a, n} /\ attempt[b] = "NONE"
      BY <2>1, <3>1
    <3>3. n <= b /\ n \in Nat /\ b \in Nat /\ c \in Nat
      BY <1>2, <2>2, <3>2
    <3>4. c > n
      BY <3>1, <3>3
    <3> QED BY <2>5, <3>4
  <2>7. AttemptsFit'
    BY <2>4, <2>5, <2>6 DEF AttemptsFit
  <2>8. \A b \in AttemptId : attempt'[b] # "RUNNING"
    BY <2>1, <2>4 DEF Active
  <2>9. \A b \in AttemptId : attempt[b] = "CANCELLED" => attempt'[b] = "CANCELLED"
    BY <2>1, <2>2 DEF Active
  <2> QED BY <2>1, <2>2, <2>7, <2>8, <2>9
<1> QED BY <1>3, <1>4

LEMMA ParksKeeps ==
    ASSUME Typed, EInv, StepTyped, Typed', NEW d \in DispatchId, Parks(d),
           Rests(AttemptOf(d)) \/ Passes(AttemptOf(d))
    PROVE  EInv'
<1> USE DEF Parks, Alone
<1> DEFINE a == AttemptOf(d)
           s == exec[d].sid
<1>1. /\ a \in AttemptId /\ agentRun = {a} /\ daemon = "UP" /\ s \in SessionId \cup {0}
      /\ \A e \in DispatchId : Acting(e) => e = d
      /\ LoopFits(d) /\ ActingFits(d) /\ exec[d].pc # "IDLE" /\ attempt[a] \in Active
  BY ActingFacts, LoopNamed DEF EInv, LoopsFit, Acting
<1>2. \A t \in SessionId : session'[t].status # "RUNNING"
  BY ActingFacts
<1>3. \A e \in DispatchId : ~Acting(e)'
  BY <1>1 DEF Acting
<1>4. AttemptsFit'
  BY <1>1, RestsOrPasses
<1>5. PendingFits'
  BY <1>1, RestsOrPasses DEF PendingFits, AttemptOf
<1>6. agentRun' = {}
  BY <1>1
<1>7. ClaimsFit' /\ OnlyTurn'
  BY <1>2, <1>6 DEF EInv, ClaimsFit, OnlyTurn
<1>8. LeaseFits'
  <2>1. \A b \in AttemptId : HasTurn(b) => b = a
    BY ActingFacts DEF HasTurn
  <2>2. workspace.holder \in AttemptId \cup {0}
    BY DEF Typed, TypeOK, WorkspaceRow
  <2>3. workspace'.holder # 0 => workspace'.holder = workspace.holder /\ workspace.holder # a
    OBVIOUS
  <2>4. workspace'.holder # 0 => SurvivesCrash /\ attempt[workspace.holder] = "CANCELLED"
    BY <1>1, <2>1, <2>2, <2>3 DEF EInv, LeaseFits
  <2>5. workspace'.holder # 0 => SurvivesCrash' /\ attempt'[workspace'.holder] = "CANCELLED"
    BY <1>1, <2>2, <2>3, <2>4, RestsOrPasses DEF SurvivesCrash
  <2> QED BY <1>2, <2>3, <2>5 DEF EInv, LeaseFits
<1>9. LoopsFit'
  <2>1. ASSUME NEW e \in DispatchId, e # d, exec[e].pc # "IDLE"
        PROVE  LoopFits(e)'
    <3>1. /\ exec[e].sid \in SessionId \cup {0} /\ dispatch[e].status # "NONE" /\ AttemptOf(e) \in AttemptId
          /\ exec[e].revoked
      BY <2>1, <1>1, LoopNamed DEF Acting
    <3>2. AttemptOf(e)' = AttemptOf(e)
      BY <3>1 DEF StepTyped, RowsKept, DispatchesKept, AttemptOf
    <3>3. dispatch'[e].status # "PENDING"
      BY <3>1, <2>1 DEF Rests, Passes, NextDispatch, Next1
    <3> QED BY <2>1, <3>1, <3>2, <3>3 DEF EInv, LoopsFit, LoopFits
  <2> QED BY <2>1, <1>3 DEF LoopsFit, LoopFits, ActingFits
<1>10. Driven'
  BY <1>1, RestsOrPasses DEF Driven
<1>11. CancelFits'
  <2>1. \A t \in cancel.stops \cup cancel.sessions : t \in SessionId
    BY DEF Typed, TypeOK, CancelRow
  <2>2. cancel.attempt # 0 => attempt[cancel.attempt] = "CANCELLED" /\ cancel.attempt \in AttemptId
    BY DEF EInv, CancelFits, Typed, TypeOK, CancelRow
  <2>3. cancel.attempt # a
    BY <1>1, <2>2 DEF Active, AttemptId
  <2>4. \A t \in cancel.sessions : FALSE
    <3>1. \A t \in cancel.sessions : session[t].status = "RUNNING" /\ session[t].attempt = cancel.attempt
      BY DEF EInv, CancelFits
    <3> QED BY <2>1, <2>3, <3>1, ActingFacts
  <2>5. cancel.attempt # 0 => attempt'[cancel.attempt] = "CANCELLED"
    BY <1>1, <2>2, RestsOrPasses
  <2>6. \A t \in SessionId : session[t].status # "NONE" => session'[t].status # "NONE"
    BY DEF StepTyped, RowsKept, SessionsKept
  <2>7. \A t \in cancel.stops :
          /\ session'[t].status # "NONE"
          /\ t \in cancel.waiting \/ t \notin child'
          /\ \A e \in DispatchId : exec'[e].pc # "IDLE" /\ exec'[e].sid = t => exec'[e].revoked
    BY <2>1, <2>6 DEF EInv, CancelFits
  <2> QED BY <2>2, <2>4, <2>5, <2>7, <1>1 DEF CancelFits
<1>12. ChildFits'
  <2>1. \A t \in child' : t \in SessionId /\ t # s /\ t \in child
    BY DEF Typed, TypeOK
  <2>2. ASSUME NEW t \in child'
        PROVE  /\ \A e \in DispatchId : exec'[e].pc # "IDLE" => exec'[e].sid # t
               /\ session'[t].pid =>
                     session'[t].attempt \in AttemptId /\ attempt'[session'[t].attempt] = "CANCELLED"
    <3>1. session[t].status # "RUNNING"
      BY <2>1, ActingFacts
    <3>2. /\ \A e \in DispatchId : exec[e].pc # "IDLE" => exec[e].sid # t
          /\ session[t].pid => session[t].attempt \in AttemptId /\ attempt[session[t].attempt] = "CANCELLED"
      BY <2>1, <3>1 DEF EInv, ChildFits
    <3> QED BY <1>1, <2>1, <3>2, RestsOrPasses
  <2> QED BY <2>2 DEF ChildFits
<1> QED BY <1>4, <1>5, <1>7, <1>8, <1>9, <1>10, <1>11, <1>12 DEF EInv

\* It leaves its turn running: nothing proved that the processes of it are gone.  Or it was revoked
\* and pauses an attempt that waits.
Abandons(d) ==
    /\ Alone(d) /\ exec[d].pc # "IDLE" /\ exec'[d].pc = "IDLE"
    /\ attempt[AttemptOf(d)] \in Active /\ \A e \in DispatchId : Acting(e) => e = d
    /\ \A b \in agentRun : HasTurn(b)
    /\ UNCHANGED <<agentRun, session, workspace, child>>
    /\ UNCHANGED <<attempt, dispatch>> \/ Rests(AttemptOf(d))

LEMMA AbandonsKeeps ==
    ASSUME Typed, EInv, StepTyped, Typed', NEW d \in DispatchId, Abandons(d)
    PROVE  EInv'
<1> USE DEF Abandons, Alone
<1> DEFINE a == AttemptOf(d)
<1>1. a \in AttemptId /\ attempt[a] \in Active
  BY LoopNamed
<1>2. (\A b \in AttemptId : HasTurn(b)' <=> HasTurn(b)) /\ agentRun \subseteq AttemptId
  BY DEF HasTurn, Typed, TypeOK
<1>3. \A e \in DispatchId : ~Acting(e)'
  BY DEF Acting
<1>4. AttemptsFit'
  BY <1>1, RestsOrPasses DEF EInv, AttemptsFit
<1>5. PendingFits'
  <2>1. CASE Rests(a)
    BY <2>1, <1>1, RestsOrPasses DEF PendingFits, AttemptOf
  <2>2. CASE UNCHANGED <<attempt, dispatch>>
    BY <2>2 DEF EInv, PendingFits, AttemptOf
  <2> QED BY <2>1, <2>2
<1>6. ClaimsFit' /\ OnlyTurn'
  <2>1. \A b \in agentRun' : HasTurn(b)'
    BY <1>1, <1>2
  <2> QED BY <2>1 DEF EInv, ClaimsFit, OnlyTurn, SurvivesCrash
<1>7. \A b \in AttemptId : attempt[b] = "CANCELLED" => attempt'[b] = "CANCELLED"
  BY <1>1, RestsOrPasses
<1>8. LeaseFits'
  <2>1. workspace.holder \in AttemptId \cup {0}
    BY DEF Typed, TypeOK, WorkspaceRow
  <2> QED BY <1>2, <1>7, <2>1 DEF EInv, LeaseFits, SurvivesCrash
<1>9. LoopsFit'
  <2>1. ASSUME NEW e \in DispatchId, e # d, exec[e].pc # "IDLE"
        PROVE  LoopFits(e)'
    <3>1. dispatch[e].status # "NONE" /\ exec[e].revoked
      BY <2>1, <1>1, LoopNamed DEF Acting
    <3>2. AttemptOf(e)' = AttemptOf(e)
      BY <3>1 DEF StepTyped, RowsKept, DispatchesKept, AttemptOf
    <3>3. dispatch'[e].status # "PENDING"
      BY <3>1, <2>1 DEF Rests, EInv, LoopsFit, LoopFits
    <3> QED BY <2>1, <3>1, <3>2, <3>3 DEF EInv, LoopsFit, LoopFits
  <2> QED BY <2>1, <1>3 DEF LoopsFit, LoopFits, ActingFits
<1>10. Driven'
  <2>1. \A b \in AttemptId : attempt'[b] = "RUNNING" => b = a /\ attempt[b] = "RUNNING"
    BY <1>1, LatestIsActive DEF Rests, Active
  <2> QED BY <2>1, <1>1, <1>2 DEF Driven, EInv, PendingFits
<1>11. CancelFits'
  <2>1. cancel.attempt # 0 => attempt'[cancel.attempt] = "CANCELLED"
    BY <1>7 DEF EInv, CancelFits, Typed, TypeOK, CancelRow
  <2> QED BY <2>1 DEF EInv, CancelFits
<1>12. ChildFits'
  <2> QED BY <1>7 DEF EInv, ChildFits
<1> QED BY <1>4, <1>5, <1>6, <1>8, <1>9, <1>10, <1>11, <1>12 DEF EInv

----
(* The awaits of a loop are such steps *)

LEMMA LeaveFrame ==
    ASSUME Typed, NEW d \in DispatchId, NEW ws, Leave(d, ws)
    PROVE  /\ exec'[d].pc = "IDLE" /\ \A e \in DispatchId : e # d => exec'[e] = exec[e]
           /\ exec[d].revoked => workspace' = ws
BY NoExecType DEF Leave, Typed, TypeOK

\* A loop that holds the AgentRun of its attempt gives the lease back as it ends it.
LEMMA GivesBack ==
    ASSUME Typed, NEW d \in DispatchId, AttemptOf(d) \in agentRun,
           Leave(d, FinishAgentRun(AttemptOf(d), workspace))
    PROVE  /\ workspace'.status = workspace.status
           /\ workspace'.holder = IF workspace.holder = AttemptOf(d) THEN 0 ELSE workspace.holder
<1> DEFINE a == AttemptOf(d)
           ws == Released(workspace, a)
<1>1. workspace \in WorkspaceRow
  BY DEF Typed, TypeOK
<1>2. /\ ws \in [status : {"ABSENT", "READY", "ORPHANED"}, holder : AttemptId \cup {0}]
      /\ ws.status = workspace.status
      /\ ws.holder = IF workspace.holder = a THEN 0 ELSE workspace.holder
  BY <1>1 DEF Released, WorkspaceRow
<1>3. a # 0
  BY DEF Typed, TypeOK, AttemptId
<1>4. ws.holder # a
  BY <1>2, <1>3
<1>5. FinishAgentRun(a, workspace) = ws
  BY DEF FinishAgentRun
<1> HIDE DEF ws
<1>6. Released(ws, a) = ws
  BY <1>4 DEF Released
<1>7. workspace' = ws
  BY <1>5, <1>6 DEF Leave
<1> QED BY <1>2, <1>7

\* One pending dispatch that is completed or withdrawn leaves none.
LEMMA NonePending ==
    ASSUME Typed, EInv, NEW d \in DispatchId,
           Acting(d) \/ (exec[d].pc # "IDLE" /\ attempt[AttemptOf(d)] \in Active),
           \/ dispatch' = Withdrawn(AttemptOf(d))
           \/ dispatch[d].status = "PENDING" /\ dispatch' = [dispatch EXCEPT ![d] = [@ EXCEPT !.status = "COMPLETED"]]
    PROVE  \A e \in DispatchId : dispatch'[e].status # "PENDING"
<1> DEFINE a == AttemptOf(d)
<1>1. \A e \in DispatchId : dispatch[e].status = "PENDING" => dispatch[e].attempt = a
  BY LoopNamed, ActingFacts, PendingIsActive DEF AttemptOf
<1>2. a \in AttemptId \cup {0} /\ TypeOK
  BY LoopNamed DEF Typed
<1>3. CASE dispatch' = Withdrawn(a)
  <2>1. \A e \in DispatchId : Withdrawn(a)[e].status =
          IF dispatch[e].attempt = a /\ dispatch[e].status = "PENDING" THEN "FAILED" ELSE dispatch[e].status
    BY <1>2, WritesFrame
  <2> QED BY <1>1, <1>3, <2>1
<1>4. CASE dispatch[d].status = "PENDING" /\ dispatch' = [dispatch EXCEPT ![d] = [@ EXCEPT !.status = "COMPLETED"]]
  <2>1. [dispatch[d] EXCEPT !.status = "COMPLETED"].status = "COMPLETED"
    BY DEF Typed, TypeOK, DispatchRow
  <2>2. dispatch'[d].status = "COMPLETED"
    BY <1>4, <2>1 DEF Typed, TypeOK
  <2>3. \A e \in DispatchId : e # d => dispatch'[e] = dispatch[e]
    BY <1>4 DEF Typed, TypeOK
  <2> QED BY <1>4, <2>2, <2>3 DEF EInv, PendingFits
<1> QED BY <1>3, <1>4

\* What ending its turn does to the sessions.
LEMMA EndedFrame ==
    ASSUME Typed, NEW s \in SessionId, session' = Ended({s})
    PROVE  \A t \in SessionId :
             /\ session'[t].status = IF t = s THEN "ENDED" ELSE session[t].status
             /\ session'[t].attempt = session[t].attempt /\ session'[t].pid = session[t].pid
<1>1. TypeOK
  BY DEF Typed
<1>2. {s} \in SUBSET SessionId
  OBVIOUS
<1> QED BY <1>1, <1>2, WritesFrame

LEMMA BeforeTurn ==
    ASSUME Typed, NEW d \in DispatchId, exec[d].pc \in {"CHECKING", "CREATING", "CONTEXT"}
    PROVE  exec[d].pc # "IDLE" /\ exec[d].pc \notin InTurn /\ exec[d].sid = 0 /\ child = child \ {0}
BY DEF Typed, TypeOK, LoopsNamed, InTurn, SessionId

LEMMA RefuseStep ==
    ASSUME Typed, EInv, NEW d \in DispatchId, exec[d].pc \in {"CHECKING", "CREATING", "CONTEXT"},
           RefuseDispatch(d), UNCHANGED <<cancel, child, daemon, crashes>>
    PROVE  Fades(d) \/ (Parks(d) /\ Rests(AttemptOf(d)))
<1> DEFINE a == AttemptOf(d)
<1>1. CASE exec[d].revoked
  <2>1. dispatch[d].status # "PENDING"
    BY <1>1, BeforeTurn DEF EInv, LoopsFit, LoopFits
  <2>2. Leave(d, workspace) /\ UNCHANGED <<attempt, dispatch, agentRun, session>>
    BY <2>1 DEF RefuseDispatch
  <2> QED BY <1>1, <2>2, LeaveFrame, BeforeTurn DEF Fades, Alone
<1>2. CASE ~exec[d].revoked
  <2>1. Acting(d) /\ exec[d].sid = 0 /\ exec[d].pc \notin InTurn
    BY <1>2, BeforeTurn DEF Acting
  <2>2. attempt[a] = "RUNNING" /\ dispatch[d].status = "PENDING" /\ a \in agentRun /\ a \in AttemptId
    BY <2>1, ActingFacts DEF EInv, LoopsFit, ActingFits
  <2>3. /\ attempt' = [attempt EXCEPT ![a] = "HARD_PAUSED"]
        /\ dispatch' = [dispatch EXCEPT ![d] = [@ EXCEPT !.status = "COMPLETED"]]
        /\ agentRun' = agentRun \ {a}
        /\ Leave(d, FinishAgentRun(a, workspace))
        /\ UNCHANGED session
    BY <2>2 DEF RefuseDispatch
  <2>4. \A t \in SessionId : t # 0
    BY DEF SessionId
  <2>5. Parks(d)
    BY <2>1, <2>2, <2>3, <2>4, GivesBack, LeaveFrame, BeforeTurn DEF Parks, Alone
  <2>6. \A e \in DispatchId : dispatch'[e].status # "PENDING"
    BY <2>1, <2>2, <2>3, NonePending
  <2>7. Rests(a)
    BY <2>2, <2>3, <2>6 DEF Rests, Typed, TypeOK
  <2> QED BY <2>5, <2>7
<1> QED BY <1>1, <1>2 DEF Typed, TypeOK, ExecRow

LEMMA CheckWorkspaceStep ==
    ASSUME Typed, EInv, NEW d \in DispatchId, CheckWorkspace(d)
    PROVE  Fades(d) \/ Moves(d) \/ (Parks(d) /\ Rests(AttemptOf(d)))
<1> DEFINE a == AttemptOf(d)
           x == [exec[d] EXCEPT !.leased = TRUE, !.pc = "CONTEXT"]
<1>1. exec[d].pc = "CHECKING" /\ UNCHANGED <<cancel, child, daemon, crashes>>
  BY DEF CheckWorkspace
<1>2. CASE RefuseDispatch(d)
  BY <1>1, <1>2, RefuseStep
<1>3. CASE Prepared(d, workspace) /\ UNCHANGED <<attempt, dispatch, agentRun, session>>
  <2>1. x.pc = "CONTEXT" /\ x.sid = exec[d].sid /\ x.revoked = exec[d].revoked
    BY DEF Typed, TypeOK, ExecRow
  <2> HIDE DEF x
  <2>2. CASE exec[d].revoked
    <3>1. CASE exec' = [exec EXCEPT ![d] = x] /\ workspace' = workspace
      BY <1>1, <1>3, <2>1, <2>2, <3>1 DEF Fades, Alone, Typed, TypeOK
    <3>2. CASE exec' = [exec EXCEPT ![d] = NoExec] /\ workspace' = workspace
      BY <1>1, <1>3, <2>2, <3>2, NoExecType DEF Fades, Alone, Typed, TypeOK
    <3> QED BY <1>3, <2>2, <3>1, <3>2 DEF Prepared, x
  <2>3. CASE ~exec[d].revoked
    <3>1. Acting(d) /\ exec[d].sid = 0 /\ exec[d].pc \notin InTurn
      BY <1>1, <2>3, BeforeTurn DEF Acting
    <3>2. Turns(a) = {}
      BY <3>1, ActingFacts DEF Turns
    <3>3. exec' = [exec EXCEPT ![d] = x] /\ workspace' = workspace
      BY <1>3, <3>2 DEF Prepared, x
    <3>4. exec'[d] = x /\ \A e \in DispatchId : e # d => exec'[e] = exec[e]
      BY <3>3 DEF Typed, TypeOK
    <3>5. Acting(d)'
      BY <2>1, <2>3, <3>4 DEF Acting
    <3> QED BY <1>1, <1>3, <2>1, <3>1, <3>3, <3>4, <3>5 DEF Moves, Alone
  <2> QED BY <2>2, <2>3 DEF Typed, TypeOK, ExecRow
<1> QED BY <1>2, <1>3 DEF CheckWorkspace

LEMMA CreateWorkspaceStep ==
    ASSUME Typed, EInv, NEW d \in DispatchId, CreateWorkspace(d)
    PROVE  Fades(d) \/ Moves(d) \/ (Parks(d) /\ Rests(AttemptOf(d)))
<1> DEFINE a == AttemptOf(d)
           x == [exec[d] EXCEPT !.leased = TRUE, !.pc = "CONTEXT"]
           created == [workspace EXCEPT !.status = "READY"]
           leased == [created EXCEPT !.holder = a]
<1>1. exec[d].pc = "CREATING" /\ UNCHANGED <<cancel, child, daemon, crashes>>
  BY DEF CreateWorkspace
<1>2. CASE RefuseDispatch(d)
  BY <1>1, <1>2, RefuseStep
<1>3. CASE /\ workspace.status = "ABSENT"
           /\ IF MayLease(d) THEN Prepared(d, leased) ELSE Leave(d, created)
           /\ UNCHANGED <<attempt, dispatch, agentRun, session>>
  <2>1. x.pc = "CONTEXT" /\ x.sid = exec[d].sid /\ x.revoked = exec[d].revoked
    BY DEF Typed, TypeOK, ExecRow
  <2>2. /\ created.status = "READY" /\ created.holder = workspace.holder
        /\ leased.status = "READY" /\ leased.holder = a
    BY DEF Typed, TypeOK, WorkspaceRow
  <2> HIDE DEF x, created, leased
  <2>3. CASE exec[d].revoked
    <3>1. Leave(d, created)
      BY <1>3, <2>3 DEF MayLease
    <3> QED BY <1>1, <1>3, <2>2, <2>3, <3>1, LeaveFrame DEF Fades, Alone
  <2>4. CASE ~exec[d].revoked
    <3>1. Acting(d) /\ exec[d].sid = 0 /\ exec[d].pc \notin InTurn
      BY <1>1, <2>4, BeforeTurn DEF Acting
    <3>2. Turns(a) = {} /\ attempt[a] = "RUNNING"
      BY <3>1, ActingFacts DEF Turns, EInv, LoopsFit, ActingFits
    <3>3. exec' = [exec EXCEPT ![d] = x] /\ workspace' = leased
      BY <1>3, <2>4, <3>2 DEF MayLease, Prepared, x
    <3>4. exec'[d] = x /\ \A e \in DispatchId : e # d => exec'[e] = exec[e]
      BY <3>3 DEF Typed, TypeOK
    <3>5. Acting(d)'
      BY <2>1, <2>4, <3>4 DEF Acting
    <3> QED BY <1>1, <1>3, <2>1, <2>2, <3>1, <3>3, <3>4, <3>5 DEF Moves, Alone
  <2> QED BY <2>3, <2>4 DEF Typed, TypeOK, ExecRow
<1> QED BY <1>2, <1>3 DEF CreateWorkspace

\* HARD_PAUSE_STAGE_ATTEMPT by a loop that acts.
LEMMA HardPauseStep ==
    ASSUME Typed, EInv, NEW d \in DispatchId, Acting(d), HardPause(d), UNCHANGED <<cancel, daemon, crashes>>,
           \A t \in SessionId :
             /\ session'[t].status = IF t = exec[d].sid THEN "ENDED" ELSE session[t].status
             /\ session'[t].attempt = session[t].attempt /\ session'[t].pid = session[t].pid,
           child' = child \ {exec[d].sid}
    PROVE  Parks(d) /\ Rests(AttemptOf(d))
<1> DEFINE a == AttemptOf(d)
<1>1. a \in AttemptId /\ a \in agentRun
  BY ActingFacts
<1>2. Parks(d)
  BY <1>1, GivesBack, LeaveFrame DEF HardPause, Parks, Alone
<1>3. \A e \in DispatchId : dispatch'[e].status # "PENDING"
  BY NonePending DEF HardPause
<1>4. Rests(a)
  BY <1>1, <1>3 DEF HardPause, Rests, Typed, TypeOK
<1> QED BY <1>2, <1>4

LEMMA AssembleContextStep ==
    ASSUME Typed, EInv, unfenced' = {}, NEW d \in DispatchId, AssembleContext(d)
    PROVE  \/ Fades(d) \/ (\E s \in SessionId : Opens(d, s)) \/ Abandons(d)
           \/ (Parks(d) /\ Rests(AttemptOf(d)))
<1> DEFINE a == AttemptOf(d)
<1>1. exec[d].pc = "CONTEXT" /\ UNCHANGED <<cancel, child, daemon, crashes>>
  BY DEF AssembleContext
<1>2. CASE RefuseDispatch(d)
  BY <1>1, <1>2, RefuseStep
<1>3. CASE /\ HardPause(d) /\ UNCHANGED session
           /\ exec[d].revoked => Standing(a)
  <2>1. exec[d].pc # "IDLE" /\ exec[d].sid = 0 /\ child = child \ {0} /\ a \in AttemptId
    BY <1>1, BeforeTurn, LoopNamed
  <2>2. \A t \in SessionId : t # 0
    BY DEF SessionId
  <2>3. CASE ~exec[d].revoked
    BY <1>1, <1>3, <2>1, <2>2, <2>3, HardPauseStep DEF Acting
  <2>4. CASE exec[d].revoked
    <3>1. attempt[a] \in Active /\ a \notin agentRun
      BY <1>3, <2>4 DEF Standing, Active
    <3>2. \A e \in DispatchId : ~Acting(e)
      BY <2>1, <3>1, ActingFacts
    <3>3. \A b \in agentRun : HasTurn(b)
      <4>1. \A b \in agentRun : b \in AttemptId /\ (attempt[b] = "RUNNING" => b = a)
        BY <2>1, <3>1, LatestIsActive DEF Active, Typed, TypeOK
      <4> QED BY <3>1, <4>1 DEF EInv, ClaimsFit
    <3>4. UNCHANGED <<agentRun, workspace>> /\ exec'[d].pc = "IDLE" /\ Alone(d)
      BY <1>1, <1>3, <2>4, <3>1, LeaveFrame DEF HardPause, FinishAgentRun, Alone
    <3>5. \A e \in DispatchId : dispatch'[e].status # "PENDING"
      BY <1>3, <2>1, <3>1, NonePending DEF HardPause
    <3>6. Rests(a)
      BY <1>3, <2>1, <3>5 DEF HardPause, Rests, Typed, TypeOK
    <3> QED BY <1>1, <1>3, <2>1, <3>1, <3>2, <3>3, <3>4, <3>6 DEF Abandons
  <2> QED BY <2>3, <2>4
<1>4. CASE OpenSession(d) /\ UNCHANGED <<attempt, dispatch, agentRun>>
  <2>1. CASE exec[d].revoked
    BY <1>1, <1>4, <2>1, LeaveFrame DEF OpenSession, Fades, Alone
  <2>2. CASE ~exec[d].revoked
    <3>1. Acting(d) /\ exec[d].sid = 0 /\ exec[d].pc \notin InTurn
      BY <1>1, <2>2, BeforeTurn DEF Acting
    <3>2. MayStartSession(a)
      BY <3>1, ActingFacts DEF MayStartSession, Turns, EInv, LoopsFit, ActingFits
    <3>3. PICK s \in NextSession :
            /\ session' = [session EXCEPT ![s] = [attempt |-> a, status |-> "RUNNING", pid |-> FALSE]]
            /\ exec' = [exec EXCEPT ![d] = [@ EXCEPT !.pc = "STARTING", !.sid = s]]
            /\ UNCHANGED workspace
      BY <1>4, <2>2, <3>2 DEF OpenSession
    <3>4. s \in SessionId /\ session[s].status = "NONE"
      BY DEF NextSession, Next1
    <3> DEFINE x == [exec[d] EXCEPT !.pc = "STARTING", !.sid = s]
               y == [attempt |-> a, status |-> "RUNNING", pid |-> FALSE]
    <3>5. x.pc = "STARTING" /\ x.sid = s /\ x.revoked = exec[d].revoked
      BY DEF Typed, TypeOK, ExecRow
    <3>6. y.attempt = a /\ y.status = "RUNNING" /\ ~y.pid
      OBVIOUS
    <3> HIDE DEF x, y
    <3>7. session' = [session EXCEPT ![s] = y] /\ exec' = [exec EXCEPT ![d] = x]
      BY <3>3 DEF x, y
    <3>8. exec'[d] = x /\ \A e \in DispatchId : e # d => exec'[e] = exec[e]
      BY <3>7 DEF Typed, TypeOK
    <3>9. session'[s] = y /\ \A t \in SessionId : t # s => session'[t] = session[t]
      BY <3>4, <3>7 DEF Typed, TypeOK
    <3>10. Acting(d)'
      BY <2>2, <3>5, <3>8 DEF Acting
    <3>11. Opens(d, s)
      BY <1>1, <1>4, <3>1, <3>3, <3>4, <3>5, <3>6, <3>8, <3>9, <3>10 DEF Opens, Alone
    <3> QED BY <3>4, <3>11
  <2> QED BY <2>1, <2>2 DEF Typed, TypeOK, ExecRow
<1> QED BY <1>2, <1>3, <1>4 DEF AssembleContext

LEMMA InTurnFacts ==
    ASSUME Typed, EInv, NEW d \in DispatchId, exec[d].pc \in InTurn
    PROVE  /\ exec[d].pc # "IDLE" /\ exec[d].sid \in SessionId
           /\ ~exec[d].revoked => Acting(d) /\ AttemptOf(d) \in AttemptId /\ AttemptOf(d) \in agentRun
                                  /\ attempt[AttemptOf(d)] \in {"RUNNING", "SOFT_PAUSED"}
                                  /\ attempt[AttemptOf(d)] \in Active
                                  /\ \A e \in DispatchId : Acting(e) => e = d
                                  /\ \A b \in agentRun : HasTurn(b)
<1>1. exec[d].pc # "IDLE" /\ exec[d].sid \in SessionId /\ exec[d].sid # 0
  BY LoopNamed DEF InTurn, SessionId
<1>2. ASSUME Acting(d)
      PROVE  \A b \in agentRun : HasTurn(b)
  <2>1. session[exec[d].sid].status = "RUNNING" /\ session[exec[d].sid].attempt = AttemptOf(d)
    BY <1>1, <1>2 DEF EInv, LoopsFit, LoopFits, ActingFits
  <2> QED BY <1>1, <1>2, <2>1, ActingFacts DEF HasTurn
<1>3. ~exec[d].revoked => Acting(d)
  BY <1>1 DEF Acting
<1> QED BY <1>1, <1>2, <1>3, ActingFacts

\* A loop in its turn comes to another await of the turn.
LEMMA TurnGoesOn ==
    ASSUME Typed, NEW d \in DispatchId, NEW pc \in InTurn, exec[d].pc \in InTurn, ~exec[d].revoked,
           exec' = [exec EXCEPT ![d] = [@ EXCEPT !.pc = pc]]
    PROVE  /\ Acting(d) /\ Acting(d)'
           /\ exec'[d].pc = pc /\ exec'[d].sid = exec[d].sid
           /\ \A e \in DispatchId : e # d => exec'[e] = exec[e]
<1> DEFINE x == [exec[d] EXCEPT !.pc = pc]
<1>1. x.pc = pc /\ x.sid = exec[d].sid /\ x.revoked = exec[d].revoked
  BY DEF Typed, TypeOK, ExecRow
<1> HIDE DEF x
<1>2. exec' = [exec EXCEPT ![d] = x]
  BY DEF x
<1>3. exec'[d] = x /\ \A e \in DispatchId : e # d => exec'[e] = exec[e]
  BY <1>2 DEF Typed, TypeOK
<1> QED BY <1>1, <1>3 DEF Acting, InTurn

LEMMA SpawnStep ==
    ASSUME Typed, EInv, NEW d \in DispatchId, Spawn(d)
    PROVE  Spawns(d)
<1> DEFINE s == exec[d].sid
<1>1. exec[d].pc = "STARTING" /\ "STARTING" \in InTurn /\ "LIVE" \in InTurn /\ ~exec[d].revoked
  BY DEF Spawn, InTurn
<1>2. s \in SessionId
  BY <1>1, InTurnFacts
<1>3. /\ Acting(d) /\ Acting(d)'
      /\ exec'[d].pc = "LIVE" /\ exec'[d].sid = s
      /\ \A e \in DispatchId : e # d => exec'[e] = exec[e]
  BY <1>1, TurnGoesOn DEF Spawn
<1>4. PICK recorded \in BOOLEAN : session' = [session EXCEPT ![s] = [@ EXCEPT !.pid = recorded]]
  BY DEF Spawn
<1> DEFINE y == [session[s] EXCEPT !.pid = recorded]
<1>5. y.attempt = session[s].attempt /\ y.status = session[s].status
  BY <1>2 DEF Typed, TypeOK, SessionRow
<1> HIDE DEF y
<1>6. session'[s] = y /\ \A t \in SessionId : t # s => session'[t] = session[t]
  BY <1>2, <1>4 DEF Typed, TypeOK, y
<1> QED BY <1>1, <1>3, <1>5, <1>6 DEF Spawn, Spawns, Alone

\* A turn that ends without a result either is followed by another, or parks its attempt.
LEMMA EndTurnStep ==
    ASSUME Typed, EInv, NEW d \in DispatchId, exec[d].pc \in InTurn, ~exec[d].revoked,
           EndTurn(d, exec[d].sid), child' = child \ {exec[d].sid}, UNCHANGED <<cancel, daemon, crashes>>
    PROVE  TakesAnother(d) \/ (Parks(d) /\ Rests(AttemptOf(d)))
<1> DEFINE a == AttemptOf(d)
           s == exec[d].sid
<1>1. /\ Acting(d) /\ a \in AttemptId /\ a \in agentRun /\ s \in SessionId /\ exec[d].pc # "IDLE"
      /\ attempt[a] \in {"RUNNING", "SOFT_PAUSED"}
  BY InTurnFacts
<1>2. session' = Ended({s}) =>
        \A t \in SessionId :
          /\ session'[t].status = IF t = s THEN "ENDED" ELSE session[t].status
          /\ session'[t].attempt = session[t].attempt /\ session'[t].pid = session[t].pid
  BY <1>1, EndedFrame
<1>3. CASE /\ attempt[a] = "RUNNING"
           /\ session' = Ended({s})
           /\ exec' = [exec EXCEPT ![d] = [@ EXCEPT !.pc = "CONTEXT", !.sid = 0]]
           /\ UNCHANGED <<attempt, dispatch, agentRun, workspace>>
  <2> DEFINE x == [exec[d] EXCEPT !.pc = "CONTEXT", !.sid = 0]
  <2>1. x.pc = "CONTEXT" /\ x.revoked = exec[d].revoked
    BY DEF Typed, TypeOK, ExecRow
  <2> HIDE DEF x
  <2>2. exec'[d] = x /\ \A e \in DispatchId : e # d => exec'[e] = exec[e]
    BY <1>3 DEF Typed, TypeOK, x
  <2>3. Acting(d)'
    BY <2>1, <2>2 DEF Acting
  <2> QED BY <1>1, <1>2, <1>3, <2>1, <2>2, <2>3 DEF TakesAnother, Alone
<1>4. CASE session' = Ended({s}) /\ HardPause(d)
  BY <1>1, <1>2, <1>4, HardPauseStep
<1>5. CASE /\ attempt[a] # "RUNNING"
           /\ session' = Ended({s})
           /\ agentRun' = agentRun \ {a}
           /\ Leave(d, FinishAgentRun(a, workspace))
           /\ UNCHANGED <<attempt, dispatch>>
  <2>1. Parks(d)
    BY <1>1, <1>2, <1>5, GivesBack, LeaveFrame DEF Parks, Alone
  <2>2. \A e \in DispatchId : dispatch[e].status # "PENDING"
    <3>1. SUFFICES ASSUME NEW e \in DispatchId, dispatch[e].status = "PENDING"
                   PROVE  FALSE
      OBVIOUS
    <3>2. attempt[AttemptOf(e)] \in {"QUEUED", "RUNNING"} /\ AttemptOf(e) = a
      BY <1>1, <3>1, ActingFacts DEF EInv, PendingFits
    <3> QED BY <1>1, <1>5, <3>2
  <2>3. Rests(a)
    BY <1>1, <1>5, <2>2 DEF Rests
  <2> QED BY <2>1, <2>3
<1> QED BY <1>1, <1>3, <1>4, <1>5 DEF EndTurn

LEMMA TurnEndsStep ==
    ASSUME Typed, EInv, NEW d \in DispatchId, TurnEnds(d)
    PROVE  TakesAnother(d) \/ (Parks(d) /\ Rests(AttemptOf(d)))
<1>1. exec[d].pc \in InTurn
  BY DEF TurnEnds, InTurn
<1> QED BY <1>1, EndTurnStep DEF TurnEnds

LEMMA TurnUncertainStep ==
    ASSUME Typed, EInv, NEW d \in DispatchId, TurnUncertain(d)
    PROVE  Abandons(d)
<1> DEFINE a == AttemptOf(d)
<1>1. exec[d].pc \in InTurn /\ ~exec[d].revoked
  BY DEF TurnUncertain, InTurn
<1>2. /\ Acting(d) /\ a \in AttemptId /\ exec[d].pc # "IDLE" /\ attempt[a] \in Active
      /\ (\A e \in DispatchId : Acting(e) => e = d) /\ \A b \in agentRun : HasTurn(b)
  BY <1>1, InTurnFacts
<1>3. exec'[d].pc = "IDLE" /\ \A e \in DispatchId : e # d => exec'[e] = exec[e]
  BY NoExecType DEF TurnUncertain, Typed, TypeOK
<1>4. CASE attempt' = [attempt EXCEPT ![a] = "HARD_PAUSED"] /\ dispatch' = Withdrawn(a)
  <2>1. \A e \in DispatchId : dispatch'[e].status # "PENDING"
    BY <1>2, <1>4, NonePending
  <2>2. Rests(a)
    BY <1>2, <1>4, <2>1 DEF Rests, Typed, TypeOK
  <2> QED BY <1>1, <1>2, <1>3, <2>2 DEF TurnUncertain, Abandons, Alone
<1>5. CASE UNCHANGED <<attempt, dispatch>>
  BY <1>1, <1>2, <1>3, <1>5 DEF TurnUncertain, Abandons, Alone
<1> QED BY <1>4, <1>5 DEF TurnUncertain

LEMMA TurnPhaseStep ==
    ASSUME Typed, EInv, NEW d \in DispatchId, DeadlineReached(d) \/ ResultReturned(d)
    PROVE  Moves(d)
<1> DEFINE pc == IF DeadlineReached(d) THEN "STOPPING" ELSE "MEASURING"
<1>1. exec[d].pc = "LIVE" /\ ~exec[d].revoked /\ exec[d].pc \in InTurn
      /\ "STOPPING" \in InTurn /\ "MEASURING" \in InTurn
  BY DEF DeadlineReached, ResultReturned, InTurn
<1>2. CASE DeadlineReached(d)
  <2>1. /\ Acting(d) /\ Acting(d)'
        /\ exec'[d].pc = "STOPPING" /\ exec'[d].sid = exec[d].sid
        /\ \A e \in DispatchId : e # d => exec'[e] = exec[e]
    BY <1>1, <1>2, TurnGoesOn DEF DeadlineReached
  <2> QED BY <1>1, <1>2, <2>1 DEF DeadlineReached, Moves, Alone, rows
<1>3. CASE ResultReturned(d)
  <2>1. /\ Acting(d) /\ Acting(d)'
        /\ exec'[d].pc = "MEASURING" /\ exec'[d].sid = exec[d].sid
        /\ \A e \in DispatchId : e # d => exec'[e] = exec[e]
    BY <1>1, <1>3, TurnGoesOn DEF ResultReturned
  <2> QED BY <1>1, <1>3, <2>1 DEF ResultReturned, Moves, Alone, rows
<1> QED BY <1>2, <1>3

\* A loop that was revoked and leaves.
LEMMA RevokedLeaves ==
    ASSUME Typed, NEW d \in DispatchId, exec[d].pc # "IDLE", exec[d].revoked, Leave(d, workspace),
           UNCHANGED <<attempt, dispatch, agentRun, session, cancel, daemon, crashes>>, child' \subseteq child
    PROVE  Fades(d)
BY LeaveFrame DEF Fades, Alone

LEMMA DeadlineStopStep ==
    ASSUME Typed, EInv, NEW d \in DispatchId, DeadlineStop(d)
    PROVE  Fades(d) \/ Abandons(d) \/ TakesAnother(d) \/ (Parks(d) /\ Rests(AttemptOf(d)))
<1>1. exec[d].pc \in InTurn /\ exec[d].pc # "IDLE" /\ UNCHANGED <<cancel, daemon, crashes>>
  BY DEF DeadlineStop, InTurn
<1>2. CASE exec' = [exec EXCEPT ![d] = NoExec] /\ UNCHANGED <<rows, child>>
  <2>1. exec'[d].pc = "IDLE" /\ \A e \in DispatchId : e # d => exec'[e] = exec[e]
    BY <1>2, NoExecType DEF Typed, TypeOK
  <2>2. CASE exec[d].revoked
    BY <1>1, <1>2, <2>1, <2>2 DEF Fades, Alone, rows
  <2>3. CASE ~exec[d].revoked
    BY <1>1, <1>2, <2>1, <2>3, InTurnFacts DEF Abandons, Alone, rows
  <2> QED BY <2>2, <2>3 DEF Typed, TypeOK, ExecRow
<1>3. CASE exec[d].revoked /\ child' = child \ {exec[d].sid}
           /\ Leave(d, workspace) /\ UNCHANGED <<attempt, dispatch, agentRun, session>>
  BY <1>1, <1>3, RevokedLeaves
<1>4. CASE ~exec[d].revoked /\ child' = child \ {exec[d].sid} /\ EndTurn(d, exec[d].sid)
  BY <1>1, <1>4, EndTurnStep
<1> QED BY <1>2, <1>3, <1>4 DEF DeadlineStop

LEMMA RevokedTurnStep ==
    ASSUME Typed, NEW d \in DispatchId, RevokedTurnSettles(d)
    PROVE  Fades(d)
BY RevokedLeaves DEF RevokedTurnSettles

LEMMA ResultMeasuredStep ==
    ASSUME Typed, EInv, NEW d \in DispatchId, ResultMeasured(d)
    PROVE  Fades(d) \/ TakesAnother(d) \/ (Parks(d) /\ (Rests(AttemptOf(d)) \/ Passes(AttemptOf(d))))
<1> DEFINE a == AttemptOf(d)
           s == exec[d].sid
<1>1. exec[d].pc \in InTurn /\ exec[d].pc = "MEASURING" /\ exec[d].pc # "IDLE"
      /\ UNCHANGED <<cancel, child, daemon, crashes>>
  BY DEF ResultMeasured, InTurn
<1>2. CASE exec[d].revoked
  <2>1. Leave(d, workspace) /\ UNCHANGED <<attempt, dispatch, agentRun, session>>
    BY <1>2 DEF ResultMeasured
  <2> QED BY <1>1, <1>2, <2>1, RevokedLeaves
<1>3. CASE ~exec[d].revoked
  <2>1. Acting(d) /\ a \in AttemptId /\ a \in agentRun /\ s \in SessionId
    BY <1>1, <1>3, InTurnFacts
  <2>2. child' = child \ {s} /\ (attempt[a] = "RUNNING" => dispatch[d].status = "PENDING")
    BY <1>1, <2>1 DEF EInv, LoopsFit, ActingFits
  <2>3. CASE EndTurn(d, s)
    BY <1>1, <1>3, <2>2, <2>3, EndTurnStep
  <2>4. CASE dispatch[d].status = "PENDING" /\ ApplyOutcome(d, a)
    <3> DEFINE done == [dispatch EXCEPT ![d] = [@ EXCEPT !.status = "COMPLETED"]]
    <3>1. /\ session' = Ended({s}) /\ agentRun' = agentRun \ {a}
          /\ Leave(d, FinishAgentRun(a, workspace))
      BY <2>4 DEF ApplyOutcome
    <3>2. \A t \in SessionId :
            /\ session'[t].status = IF t = s THEN "ENDED" ELSE session[t].status
            /\ session'[t].attempt = session[t].attempt /\ session'[t].pid = session[t].pid
      BY <2>1, <3>1, EndedFrame
    <3>3. Parks(d)
      BY <1>1, <2>1, <2>2, <3>1, <3>2, GivesBack, LeaveFrame DEF Parks, Alone
    <3>4. CASE /\ dispatch' = done
               /\ \E status \in {"HARD_PAUSED", "SUCCEEDED"} : attempt' = [attempt EXCEPT ![a] = status]
      <4>1. dispatch' = [dispatch EXCEPT ![d] = [@ EXCEPT !.status = "COMPLETED"]]
        BY <3>4
      <4>2. \A e \in DispatchId : dispatch'[e].status # "PENDING"
        BY <2>1, <2>4, <4>1, NonePending
      <4>3. Rests(a)
        BY <2>1, <3>4, <4>2 DEF Rests, Typed, TypeOK
      <4> QED BY <3>3, <4>3
    <3>5. ASSUME NEW n \in NextAttempt, NEW e \in NextDispatch,
                 attempt' = [attempt EXCEPT ![a] = "SUCCEEDED", ![n] = "QUEUED"],
                 dispatch' = [done EXCEPT ![e] = [attempt |-> n, status |-> "PENDING"]]
          PROVE  Passes(a)
      <4>1. n \in AttemptId /\ attempt[n] = "NONE" /\ e \in DispatchId /\ dispatch[e].status = "NONE"
        BY DEF NextAttempt, NextDispatch, Next1
      <4>2. n # a /\ e # d
        BY <2>1, <2>4, <4>1, ActingFacts
      <4>3. /\ attempt'[a] = "SUCCEEDED" /\ attempt'[n] = "QUEUED"
            /\ \A b \in AttemptId : b \notin {a, n} => attempt'[b] = attempt[b]
        BY <2>1, <3>5, <4>1, <4>2 DEF Typed, TypeOK
      <4> DEFINE w == [dispatch[d] EXCEPT !.status = "COMPLETED"]
                 new == [attempt |-> n, status |-> "PENDING"]
      <4>4. w.status = "COMPLETED" /\ new.attempt = n /\ new.status = "PENDING"
        BY DEF Typed, TypeOK, DispatchRow
      <4> HIDE DEF w, new
      <4>5. dispatch' = [[dispatch EXCEPT ![d] = w] EXCEPT ![e] = new]
        BY <3>5 DEF w, new
      <4>6. /\ dispatch'[e] = new /\ dispatch'[d] = w
            /\ \A f \in DispatchId : f \notin {d, e} => dispatch'[f] = dispatch[f]
        BY <4>1, <4>2, <4>5 DEF Typed, TypeOK
      <4>7. \A f \in DispatchId : dispatch[f].status = "PENDING" => f = d
        BY <2>4 DEF EInv, PendingFits
      <4>8. \A f \in DispatchId : dispatch'[f].status = "PENDING" <=> f = e
        BY <4>4, <4>6, <4>7
      <4>9. dispatch'[e].attempt = n
        BY <4>4, <4>6
      <4> QED BY <4>3, <4>8, <4>9 DEF Passes
    <3> QED BY <2>4, <3>3, <3>4, <3>5 DEF ApplyOutcome
  <2> QED BY <1>3, <2>2, <2>3, <2>4 DEF ResultMeasured
<1> QED BY <1>2, <1>3 DEF Typed, TypeOK, ExecRow

\* Whatever await of a loop settles, the loop takes one of these steps.
LEMMA LoopSteps ==
    ASSUME Typed, EInv, unfenced' = {}, NEW d \in DispatchId, Loop(d)
    PROVE  \/ Fades(d) \/ Moves(d) \/ (\E s \in SessionId : Opens(d, s)) \/ Spawns(d) \/ TakesAnother(d)
           \/ Abandons(d) \/ (Parks(d) /\ (Rests(AttemptOf(d)) \/ Passes(AttemptOf(d))))
BY CheckWorkspaceStep, CreateWorkspaceStep, AssembleContextStep, SpawnStep, TurnEndsStep, TurnUncertainStep,
   TurnPhaseStep, DeadlineStopStep, RevokedTurnStep, ResultMeasuredStep DEF Loop

LEMMA LoopKeeps ==
    ASSUME Typed, EInv, unfenced' = {}, StepTyped, Typed', NEW d \in DispatchId, Loop(d)
    PROVE  EInv'
BY LoopSteps, FadesKeeps, MovesKeeps, OpensKeeps, SpawnsKeeps, TakesAnotherKeeps, AbandonsKeeps, ParksKeeps

----
(* Steps of the worker and of the owner *)

\* START_AGENT_RUN claims a queued attempt: no loop acts, and what a crash left running would hold
\* the lease.
LEMMA ExecuteKeeps ==
    ASSUME Typed, EInv, Waits, StepTyped, Typed', NEW d \in DispatchId, Execute(d)
    PROVE  EInv'
<1> DEFINE a == AttemptOf(d)
           x == [NoExec EXCEPT !.pc = FirstAwait(a)]
<1>1. /\ daemon = "UP" /\ exec[d].pc = "IDLE" /\ dispatch[d].status = "PENDING"
      /\ attempt[a] = "QUEUED" /\ agentRun = {}
      /\ a \in InWorkspace /\ workspace.status # "ABSENT" => workspace.status = "READY" /\ workspace.holder = 0
      /\ UNCHANGED <<dispatch, session, cancel, child, daemon, crashes>>
  BY DEF Execute
<1>2. a \in AttemptId /\ a # 0
  BY <1>1 DEF Typed, DispatchesNamed, AttemptOf, AttemptId
<1>3. /\ attempt'[a] = "RUNNING" /\ \A b \in AttemptId : b # a => attempt'[b] = attempt[b]
      /\ agentRun' = {a}
  BY <1>1, <1>2 DEF Execute, Typed, TypeOK
<1>4. \A s \in SessionId : session[s].status # "RUNNING"
  <2>1. SUFFICES ASSUME NEW s \in SessionId, session[s].status = "RUNNING"
                 PROVE  FALSE
    OBVIOUS
  <2>2. session[s].attempt \in InWorkspace
    BY <1>1, <2>1 DEF EInv, ClaimsFit
  <2>3. a \in InWorkspace
    BY <1>1, <1>2, <2>1, <2>2 DEF Waits, Active
  <2>4. session[s].attempt \in AttemptId /\ session[s].attempt # 0
    BY <2>1 DEF Typed, SessionsNamed, AttemptId
  <2>5. workspace.holder = session[s].attempt \/ workspace.status = "ORPHANED"
    BY <2>1, <2>2 DEF EInv, LeaseFits
  <2>6. workspace.status # "READY" => workspace.holder = 0
    BY DEF EInv, LeaseFits
  <2>7. workspace.status \in {"ABSENT", "READY", "ORPHANED"}
    BY DEF Typed, TypeOK, WorkspaceRow
  <2> QED BY <1>1, <1>2, <2>3, <2>4, <2>5, <2>6, <2>7
<1>5. /\ x.sid = 0 /\ ~x.revoked /\ x.pc = FirstAwait(a)
      /\ x.pc \in {"CHECKING", "CREATING", "CONTEXT"}
  BY DEF NoExec, FirstAwait
<1> HIDE DEF x
<1>6. /\ exec'[d] = x /\ \A e \in DispatchId : e # d => exec'[e] = exec[e]
      /\ x.pc # "IDLE" /\ x.pc \notin InTurn
  <2>1. Turns(a) = {}
    BY <1>4 DEF Turns
  <2>2. exec' = [exec EXCEPT ![d] = x]
    BY <2>1 DEF Execute, x
  <2> QED BY <1>5, <2>2 DEF Typed, TypeOK, InTurn
<1>7. \A e \in DispatchId : ~Acting(e)
  BY <1>1, ActingFacts
<1>8. \A e \in DispatchId : Acting(e)' <=> e = d
  BY <1>5, <1>6, <1>7 DEF Acting
<1>9. /\ workspace'.status = workspace.status
      /\ workspace'.holder = IF a \in InWorkspace /\ workspace.status = "READY" THEN a ELSE workspace.holder
  BY DEF Execute, Typed, TypeOK, WorkspaceRow
<1>10. \A b \in AttemptId : attempt[b] \in Active => b = a
  BY <1>1, <1>2, LatestIsActive DEF Active
<1>11. AttemptsFit'
  <2>1. \A b \in AttemptId : /\ attempt'[b] = "NONE" <=> attempt[b] = "NONE"
                             /\ attempt'[b] \in Active <=> attempt[b] \in Active
    BY <1>1, <1>3 DEF Active
  <2> QED BY <2>1 DEF EInv, AttemptsFit
<1>12. PendingFits'
  <2>1. \A e \in DispatchId : dispatch[e].status = "PENDING" => e = d
    BY <1>1 DEF EInv, PendingFits
  <2>2. \A b \in AttemptId : attempt'[b] = "RUNNING" => b = a
    BY <1>3, <1>10 DEF Active
  <2>3. \A e \in DispatchId : AttemptOf(e)' = AttemptOf(e)
    BY <1>1 DEF AttemptOf
  <2> QED BY <1>1, <1>3, <2>1, <2>2, <2>3 DEF PendingFits
<1>13. ClaimsFit' /\ OnlyTurn'
  BY <1>1, <1>3, <1>4 DEF EInv, ClaimsFit, OnlyTurn
<1>14. LeaseFits'
  <2>1. workspace.holder \in AttemptId \cup {0}
    BY DEF Typed, TypeOK, WorkspaceRow
  <2>2. \A b \in AttemptId : ~HasTurn(b)
    BY <1>4 DEF HasTurn
  <2>3. workspace.holder # 0 => workspace.holder \in InWorkspace /\ SurvivesCrash
                                /\ attempt[workspace.holder] = "CANCELLED"
    BY <1>1, <2>1, <2>2 DEF EInv, LeaseFits
  <2>4. workspace.holder # 0 => attempt'[workspace.holder] = "CANCELLED"
    BY <1>1, <1>3, <2>1, <2>3
  <2>5. SurvivesCrash' = SurvivesCrash
    BY <1>1 DEF SurvivesCrash
  <2> QED BY <1>1, <1>3, <1>4, <1>9, <2>3, <2>4, <2>5 DEF EInv, LeaseFits
<1>15. LoopsFit'
  <2>1. ASSUME NEW e \in DispatchId
        PROVE  LoopFits(e)'
    <3>1. CASE e = d
      <4>1. AttemptOf(e)' = a
        BY <1>1, <3>1 DEF AttemptOf
      <4> QED BY <1>1, <1>5, <1>6, <1>9, <3>1, <4>1 DEF LoopFits
    <3>2. CASE e # d
      BY <1>1, <1>6, <1>9, <3>2 DEF EInv, LoopsFit, LoopFits, AttemptOf
    <3> QED BY <3>1, <3>2
  <2>2. ActingFits(d)'
    <3>1. AttemptOf(d)' = a
      BY <1>1 DEF AttemptOf
    <3>2. x.pc = "CREATING" => a \in InWorkspace
      BY <1>5 DEF FirstAwait
    <3>3. a \in InWorkspace /\ x.pc # "CREATING" => workspace.status = "READY"
      BY <1>5 DEF FirstAwait
    <3> QED BY <1>1, <1>3, <1>4, <1>5, <1>6, <1>9, <3>1, <3>2, <3>3 DEF ActingFits
  <2> QED BY <1>8, <2>1, <2>2 DEF LoopsFit, ActingFits
<1>16. Driven'
  <2>1. \A b \in AttemptId : attempt'[b] = "RUNNING" => b = a
    BY <1>3, <1>10 DEF Active
  <2>2. AttemptOf(d)' = a
    BY <1>1 DEF AttemptOf
  <2> QED BY <1>8, <2>1, <2>2 DEF Driven
<1>17. \A b \in AttemptId : attempt[b] = "CANCELLED" => attempt'[b] = "CANCELLED"
  BY <1>1, <1>3
<1>18. CancelFits'
  <2>1. \A t \in cancel.stops : t \in SessionId /\ t # 0
    BY DEF Typed, TypeOK, CancelRow, SessionId
  <2>2. cancel.attempt # 0 => attempt'[cancel.attempt] = "CANCELLED"
    BY <1>17 DEF EInv, CancelFits, Typed, TypeOK, CancelRow
  <2> QED BY <1>1, <1>5, <1>6, <2>1, <2>2 DEF EInv, CancelFits
<1>19. ChildFits'
  <2>1. \A t \in child : t \in SessionId /\ t # 0
    BY DEF Typed, TypeOK, SessionId
  <2> QED BY <1>1, <1>5, <1>6, <1>17, <2>1 DEF EInv, ChildFits
<1> QED BY <1>11, <1>12, <1>13, <1>14, <1>15, <1>16, <1>18, <1>19 DEF EInv

\* An attempt is queued while no loop acts: the first of a pipeline, or one that waited.
Queues(a) ==
    /\ daemon = "UP" /\ \A b \in AttemptId : attempt[b] \in Active => b = a /\ attempt[b] \notin {"QUEUED", "RUNNING"}
    /\ attempt[a] # "CANCELLED"
    /\ \A b \in AttemptId : b > a => attempt[b] = "NONE"
    /\ \A b \in AttemptId : b < a => attempt[b] # "NONE"
    /\ \A e \in DispatchId : ~Acting(e)
    /\ attempt'[a] = "QUEUED" /\ \A b \in AttemptId : b # a => attempt'[b] = attempt[b]
    /\ \E d \in NextDispatch : dispatch' = Queue(a, d)
    /\ UNCHANGED <<agentRun, session, workspace, exec, cancel, child, daemon, crashes>>

LEMMA QueuesKeeps ==
    ASSUME Typed, EInv, StepTyped, Typed', NEW a \in AttemptId, Queues(a)
    PROVE  EInv'
<1> USE DEF Queues
<1>1. PICK d \in NextDispatch : dispatch' = Queue(a, d)
  OBVIOUS
<1>2. d \in DispatchId /\ dispatch[d].status = "NONE"
  BY DEF NextDispatch, Next1
<1>3. \A e \in DispatchId : dispatch[e].status # "PENDING"
  <2>1. SUFFICES ASSUME NEW e \in DispatchId, dispatch[e].status = "PENDING"
                 PROVE  FALSE
    OBVIOUS
  <2>2. AttemptOf(e) \in AttemptId /\ attempt[AttemptOf(e)] \in {"QUEUED", "RUNNING"}
    BY <2>1 DEF Typed, DispatchesNamed, AttemptOf, EInv, PendingFits
  <2>3. attempt[AttemptOf(e)] \in Active
    BY <2>2 DEF Active
  <2> QED BY <2>2, <2>3
<1>4. /\ dispatch'[d].attempt = a /\ dispatch'[d].status = "PENDING"
      /\ \A e \in DispatchId : e # d => dispatch'[e] = dispatch[e]
  BY <1>1, <1>2 DEF Queue, Typed, TypeOK
<1>5. a \in Nat /\ \A b \in AttemptId : b \in Nat
  BY DEF AttemptId
<1>6. AttemptsFit'
  <2>1. \A b \in AttemptId : attempt'[b] \in Active => b = a
    OBVIOUS
  <2>2. \A b, c \in AttemptId : attempt'[b] = "NONE" /\ c > b => attempt'[c] = "NONE"
    <3>1. SUFFICES ASSUME NEW b \in AttemptId, NEW c \in AttemptId, attempt'[b] = "NONE", c > b
                   PROVE  attempt'[c] = "NONE"
      OBVIOUS
    <3>2. b # a /\ attempt[b] = "NONE"
      BY <3>1
    <3>3. b > a
      BY <1>5, <3>2
    <3>4. c > a /\ c # a
      BY <1>5, <3>1, <3>3
    <3> QED BY <3>4
  <2>3. \A b \in AttemptId : b > a => attempt'[b] = "NONE"
    BY <1>5
  <2> QED BY <2>1, <2>2, <2>3 DEF AttemptsFit
<1>7. \A b \in AttemptId : attempt'[b] # "RUNNING"
  BY DEF Active
<1>8. PendingFits'
  <2>1. \A e \in DispatchId : dispatch'[e].status = "PENDING" => e = d
    BY <1>3, <1>4
  <2> QED BY <1>4, <1>7, <2>1 DEF PendingFits, AttemptOf
<1>9. ClaimsFit' /\ OnlyTurn'
  <2>1. \A b \in agentRun : HasTurn(b)
    BY DEF EInv, ClaimsFit, Active, Typed, TypeOK
  <2>2. \A b \in agentRun : HasTurn(b)'
    BY <2>1 DEF HasTurn
  <2> QED BY <2>2 DEF EInv, ClaimsFit, OnlyTurn, SurvivesCrash
<1>10. \A b \in AttemptId : attempt[b] = "CANCELLED" => attempt'[b] = "CANCELLED"
  OBVIOUS
<1>11. LeaseFits'
  <2>1. workspace.holder \in AttemptId \cup {0}
    BY DEF Typed, TypeOK, WorkspaceRow
  <2> QED BY <1>10, <2>1 DEF EInv, LeaseFits, SurvivesCrash, HasTurn
<1>12. LoopsFit'
  <2>1. ASSUME NEW e \in DispatchId, exec[e].pc # "IDLE"
        PROVE  LoopFits(e)'
    <3>1. dispatch[e].status # "NONE"
      BY <2>1, LoopNamed
    <3>2. e # d /\ dispatch'[e] = dispatch[e]
      BY <1>2, <1>4, <3>1
    <3> QED BY <2>1, <3>2 DEF EInv, LoopsFit, LoopFits, AttemptOf
  <2>2. \A e \in DispatchId : ~Acting(e)'
    BY DEF Acting
  <2> QED BY <2>1, <2>2 DEF LoopsFit, LoopFits, ActingFits
<1>13. Driven'
  BY <1>7 DEF Driven
<1>14. CancelFits'
  <2>1. cancel.attempt # 0 => attempt'[cancel.attempt] = "CANCELLED"
    BY <1>10 DEF EInv, CancelFits, Typed, TypeOK, CancelRow
  <2> QED BY <2>1 DEF EInv, CancelFits
<1>15. ChildFits'
  BY <1>10 DEF EInv, ChildFits
<1> QED BY <1>6, <1>8, <1>9, <1>11, <1>12, <1>13, <1>14, <1>15 DEF EInv

LEMMA StartPipelineKeeps ==
    ASSUME Typed, EInv, StepTyped, Typed', StartPipeline
    PROVE  EInv'
<1>1. PICK a \in NextAttempt, d \in NextDispatch :
         attempt' = [attempt EXCEPT ![a] = "QUEUED"] /\ dispatch' = Queue(a, d)
  BY DEF StartPipeline
<1>2. a \in AttemptId /\ attempt[a] = "NONE" /\ \A b \in AttemptId : attempt[b] = "NONE" => a <= b
  BY DEF NextAttempt, Next1
<1>3. a \in Nat /\ \A b \in AttemptId : b \in Nat
  BY <1>2 DEF AttemptId
<1>4. daemon = "UP" /\ (\A b \in AttemptId : attempt[b] \notin Active)
      /\ UNCHANGED <<agentRun, session, workspace, exec, cancel, child, daemon, crashes>>
  <2>1. ASSUME NEW b \in AttemptId, attempt[b] \in Active
        PROVE  Current(b)
    <3>1. attempt[b] # "NONE" /\ pipeline[b] # 0 /\ \A c \in AttemptId : c > b => pipeline[c] = 0
      BY <2>1 DEF EInv, AttemptsFit, Typed, LinesNamed, Active
    <3> QED BY <3>1 DEF Current
  <2> QED BY <2>1 DEF StartPipeline
<1>5. \A e \in DispatchId : ~Acting(e)
  BY <1>4, ActingFacts
<1>6. \A b \in AttemptId : b > a => attempt[b] = "NONE"
  BY <1>2 DEF EInv, AttemptsFit
<1>7. \A b \in AttemptId : b < a => attempt[b] # "NONE"
  BY <1>2, <1>3
<1>8. attempt'[a] = "QUEUED" /\ \A b \in AttemptId : b # a => attempt'[b] = attempt[b]
  BY <1>1, <1>2 DEF Typed, TypeOK
<1>9. Queues(a)
  BY <1>1, <1>2, <1>4, <1>5, <1>6, <1>7, <1>8 DEF Queues
<1> QED BY <1>2, <1>9, QueuesKeeps

LEMMA RequeueKeeps ==
    ASSUME Typed, EInv, StepTyped, Typed', NEW a \in AttemptId, Requeue(a)
    PROVE  EInv'
<1>1. daemon = "UP" /\ attempt[a] \in {"SOFT_PAUSED", "INTERRUPTED", "HARD_PAUSED"}
      /\ (attempt[a] # "HARD_PAUSED" => a \notin agentRun)
      /\ UNCHANGED <<agentRun, session, workspace, exec, cancel, child, daemon, crashes>>
  BY DEF Requeue, Commandable, Resumable
<1>2. a \in Nat /\ \A b \in AttemptId : b \in Nat
  BY DEF AttemptId
<1>3. attempt[a] \in Active /\ \A b \in AttemptId : attempt[b] \in Active => b = a
  BY <1>1, LatestIsActive DEF Active
<1>4. \A e \in DispatchId : ~Acting(e)
  <2>1. SUFFICES ASSUME NEW e \in DispatchId, Acting(e)
                 PROVE  FALSE
    OBVIOUS
  <2>2. AttemptOf(e) = a /\ attempt[a] \in {"RUNNING", "SOFT_PAUSED"} /\ a \in agentRun
    BY <1>3, <2>1, ActingFacts
  <2> QED BY <1>1, <2>2
<1>5. \A b \in AttemptId : (b < a => attempt[b] # "NONE") /\ (b > a => attempt[b] = "NONE")
  BY <1>1, <1>2, <1>3 DEF EInv, AttemptsFit
<1>6. attempt'[a] = "QUEUED" /\ \A b \in AttemptId : b # a => attempt'[b] = attempt[b]
  BY DEF Requeue, Typed, TypeOK
<1>7. Queues(a)
  BY <1>1, <1>3, <1>4, <1>5, <1>6 DEF Queues, Requeue
<1> QED BY <1>7, QueuesKeeps

\* A pause and a cancel stop the current attempt: its dispatch is withdrawn, the loops before their
\* turn are told, and the claim ends unless a turn runs under it.  What a cancel leaves to none, a
\* pause leaves to the loop in its turn.
Stops(a) ==
    /\ daemon = "UP" /\ attempt[a] \in Active /\ attempt'[a] \in {"SOFT_PAUSED", "CANCELLED"}
    /\ \A b \in AttemptId : b # a => attempt'[b] = attempt[b]
    /\ dispatch' = Withdrawn(a)
    /\ StopAgentRun(a)
    /\ \E ds \in SUBSET Executing :
        /\ exec' = RevokedExecs(ds)
        /\ \A d \in DispatchId : Acting(d) => d \in ds \/ (exec[d].sid # 0 /\ attempt'[a] = "SOFT_PAUSED")
    /\ UNCHANGED <<session, child, daemon, crashes>>

LEMMA StopsKeeps ==
    ASSUME Typed, EInv, StepTyped, Typed', NEW a \in AttemptId, Stops(a), CancelFits'
    PROVE  EInv'
<1> USE DEF Stops
<1>1. PICK ds \in SUBSET Executing :
        /\ exec' = RevokedExecs(ds)
        /\ \A d \in DispatchId : Acting(d) => d \in ds \/ (exec[d].sid # 0 /\ attempt'[a] = "SOFT_PAUSED")
  OBVIOUS
<1>2. TypeOK /\ ds \in SUBSET DispatchId /\ a \in AttemptId \cup {0} /\ a # 0
  BY DEF Typed, Executing, AttemptId
<1>3. \A d \in DispatchId :
        /\ exec'[d].pc = exec[d].pc /\ exec'[d].sid = exec[d].sid
        /\ exec'[d].revoked = (d \in ds \/ exec[d].revoked)
  BY <1>1, <1>2, WritesFrame
<1>4. \A b \in AttemptId : attempt[b] \in Active => b = a
  BY LatestIsActive
<1>5. \A d \in DispatchId : dispatch'[d].attempt = dispatch[d].attempt /\ dispatch'[d].status # "PENDING"
  <2>1. \A d \in DispatchId :
          /\ dispatch'[d].attempt = dispatch[d].attempt
          /\ dispatch'[d].status = IF dispatch[d].attempt = a /\ dispatch[d].status = "PENDING"
                                   THEN "FAILED" ELSE dispatch[d].status
    BY <1>2, WritesFrame
  <2>2. \A d \in DispatchId : dispatch[d].status = "PENDING" => dispatch[d].attempt = a
    BY PendingIsActive DEF AttemptOf
  <2> QED BY <2>1, <2>2
<1>6. \A d \in DispatchId : Acting(d)' => Acting(d) /\ exec[d].sid # 0 /\ attempt'[a] = "SOFT_PAUSED"
  BY <1>1, <1>3 DEF Acting
<1>7. \A b \in AttemptId : attempt'[b] # "RUNNING"
  BY <1>4 DEF Active
<1>8. \A b \in AttemptId : attempt[b] = "CANCELLED" => attempt'[b] = "CANCELLED"
  BY DEF Active
<1>9. \A b \in AttemptId : HasTurn(b)' <=> HasTurn(b)
  BY DEF HasTurn
<1>10. HasTurn(a) <=> Turns(a) # {}
  BY DEF HasTurn, Turns
<1>11. /\ agentRun' = IF HasTurn(a) THEN agentRun ELSE agentRun \ {a}
       /\ workspace'.status = workspace.status
       /\ workspace'.holder = workspace.holder
          \/ (~HasTurn(a) /\ a \in agentRun /\ workspace.holder = a /\ workspace'.holder = 0)
  BY <1>10 DEF StopAgentRun, FinishAgentRun, Released, Typed, TypeOK, WorkspaceRow
<1>12. HasTurn(a) => UNCHANGED workspace
  BY <1>10 DEF StopAgentRun
<1>13. ~HasTurn(a) => \A d \in DispatchId : ~Acting(d)'
  <2>1. SUFFICES ASSUME NEW d \in DispatchId, Acting(d)'
                 PROVE  HasTurn(a)
    OBVIOUS
  <2>2. Acting(d) /\ exec[d].sid # 0
    BY <1>6, <2>1
  <2>3. AttemptOf(d) = a /\ exec[d].pc \in InTurn
    BY <1>4, <2>2, ActingFacts DEF Typed, LoopsNamed
  <2>4. session[exec[d].sid].status = "RUNNING" /\ session[exec[d].sid].attempt = a /\ exec[d].sid \in SessionId
    BY <2>2, <2>3, LoopNamed DEF EInv, LoopsFit, LoopFits, ActingFits, Acting
  <2> QED BY <2>4 DEF HasTurn
<1>14. AttemptsFit'
  <2>1. \A b \in AttemptId : /\ attempt'[b] = "NONE" <=> attempt[b] = "NONE"
                             /\ attempt'[b] \in Active => attempt[b] \in Active
    BY DEF Active
  <2> QED BY <2>1 DEF EInv, AttemptsFit
<1>15. PendingFits'
  BY <1>5, <1>7 DEF PendingFits
<1>16. ClaimsFit' /\ OnlyTurn'
  <2>1. \A b \in agentRun : b \in AttemptId
    BY DEF Typed, TypeOK
  <2>2. \A b \in agentRun' : attempt'[b] = "RUNNING" \/ HasTurn(b)'
    <3>1. SUFFICES ASSUME NEW b \in agentRun'
                   PROVE  attempt'[b] = "RUNNING" \/ HasTurn(b)'
      OBVIOUS
    <3>2. b \in agentRun /\ b \in AttemptId
      BY <1>11, <2>1
    <3>3. CASE b = a
      BY <1>9, <1>11, <3>1, <3>3
    <3>4. CASE b # a
      BY <1>9, <3>2, <3>4 DEF EInv, ClaimsFit
    <3> QED BY <3>3, <3>4
  <2>3. \A s \in SessionId : session'[s].status = "RUNNING" =>
          session'[s].attempt \in agentRun' \/ (SurvivesCrash' /\ session'[s].attempt \in InWorkspace)
    BY <1>11 DEF EInv, ClaimsFit, SurvivesCrash, HasTurn
  <2> QED BY <1>11, <2>2, <2>3 DEF EInv, ClaimsFit, OnlyTurn
<1>17. LeaseFits'
  <2>1. workspace.holder \in AttemptId \cup {0}
    BY DEF Typed, TypeOK, WorkspaceRow
  <2>2. workspace'.holder # 0 => workspace'.holder = workspace.holder
    BY <1>11
  <2>3. workspace.holder = a /\ ~HasTurn(a) /\ a \in agentRun => workspace'.holder = 0
    BY <1>10 DEF StopAgentRun, FinishAgentRun, Released, Typed, TypeOK, WorkspaceRow
  <2>4. SurvivesCrash' = SurvivesCrash
    BY DEF SurvivesCrash
  <2>5. workspace'.holder # 0 =>
          \/ workspace'.holder \in agentRun' \/ HasTurn(workspace.holder)
          \/ SurvivesCrash' /\ attempt'[workspace'.holder] = "CANCELLED"
    BY <1>8, <1>11, <2>1, <2>2, <2>3, <2>4 DEF EInv, LeaseFits
  <2>6. workspace'.holder # 0 =>
          \/ workspace'.holder \in agentRun' \/ HasTurn(workspace.holder)'
          \/ SurvivesCrash' /\ attempt'[workspace'.holder] = "CANCELLED"
    BY <2>1, <2>2, <2>5 DEF HasTurn
  <2>7. \A s \in SessionId : session[s].status = "RUNNING" /\ session[s].attempt \in InWorkspace =>
          workspace'.holder = session[s].attempt \/ workspace'.status = "ORPHANED"
    BY <1>11 DEF EInv, LeaseFits, HasTurn
  <2> QED BY <1>11, <2>2, <2>6, <2>7 DEF EInv, LeaseFits, HasTurn
<1>18. LoopsFit'
  <2>1. ASSUME NEW e \in DispatchId
        PROVE  LoopFits(e)'
    BY <1>3, <1>5, <1>11 DEF EInv, LoopsFit, LoopFits, AttemptOf
  <2>2. ASSUME NEW e \in DispatchId, Acting(e)'
        PROVE  ActingFits(e)'
    <3>1. Acting(e) /\ exec[e].sid # 0 /\ attempt'[a] = "SOFT_PAUSED" /\ HasTurn(a)
      BY <1>6, <1>13, <2>2
    <3>2. AttemptOf(e) = a /\ exec[e].pc \in InTurn /\ exec[e].pc # "CREATING"
      BY <1>4, <3>1, ActingFacts DEF Typed, LoopsNamed, InTurn
    <3>3. AttemptOf(e)' = a
      BY <1>5, <3>2 DEF AttemptOf
    <3>4. agentRun' = agentRun /\ workspace' = workspace
      BY <1>11, <1>12, <3>1
    <3> QED BY <1>3, <3>1, <3>2, <3>3, <3>4 DEF EInv, LoopsFit, ActingFits
  <2>3. \A e, f \in DispatchId : Acting(e)' /\ Acting(f)' => e = f
    BY <1>6 DEF EInv, LoopsFit
  <2> QED BY <2>1, <2>2, <2>3 DEF LoopsFit, ActingFits
<1>19. Driven'
  BY <1>7 DEF Driven
<1>20. ChildFits'
  BY <1>3, <1>8 DEF EInv, ChildFits
<1> QED BY <1>14, <1>15, <1>16, <1>17, <1>18, <1>19, <1>20 DEF EInv

\* The loop that acts is one of the pipeline of the attempt that is not over, and of no other.
LEMMA ActingLoops ==
    ASSUME Typed, EInv, NEW a \in AttemptId, NEW d \in DispatchId
    PROVE  /\ attempt[a] \in Active /\ Acting(d) => d \in Loops(a)
           /\ Current(a) /\ attempt[a] \notin Active /\ d \in Loops(a) => ~Acting(d) /\ dispatch[d].status # "PENDING"
<1>1. ASSUME attempt[a] \in Active, Acting(d)
      PROVE  d \in Loops(a)
  BY <1>1, ActingFacts DEF Loops, Siblings, Executing, Acting
<1>2. ASSUME Current(a), attempt[a] \notin Active, d \in Loops(a)
      PROVE  attempt[AttemptOf(d)] \notin Active
  <2>1. AttemptOf(d) \in AttemptId /\ pipeline[AttemptOf(d)] = pipeline[a] /\ attempt[a] # "NONE"
    BY <1>2 DEF Loops, Siblings, Current
  <2>2. ~(AttemptOf(d) > a) /\ AttemptOf(d) \in Nat /\ a \in Nat
    BY <1>2, <2>1 DEF Current, AttemptId
  <2> QED BY <1>2, <2>1, <2>2 DEF EInv, AttemptsFit
<1> QED BY <1>1, <1>2, ActingFacts DEF EInv, PendingFits, Active

LEMMA PausePipelineKeeps ==
    ASSUME Typed, EInv, StepTyped, Typed', NEW a \in AttemptId, PausePipeline(a)
    PROVE  EInv'
<1>1. /\ daemon = "UP" /\ attempt[a] \in Active
      /\ attempt'[a] = "SOFT_PAUSED" /\ \A b \in AttemptId : b # a => attempt'[b] = attempt[b]
      /\ UNCHANGED <<session, cancel, child, daemon, crashes>>
  BY DEF PausePipeline, Commandable, Active, Typed, TypeOK
<1>2. /\ PreClaim(a) \in SUBSET Executing /\ exec' = RevokedExecs(PreClaim(a))
      /\ \A d \in DispatchId : Acting(d) => d \in PreClaim(a) \/ exec[d].sid # 0
  BY <1>1, ActingLoops DEF PausePipeline, PreClaim, Loops
<1>3. Stops(a)
  BY <1>1, <1>2 DEF PausePipeline, Stops
<1>4. \A d \in DispatchId :
        /\ exec'[d].pc = exec[d].pc /\ exec'[d].sid = exec[d].sid
        /\ exec[d].revoked => exec'[d].revoked
  <2>1. TypeOK /\ PreClaim(a) \in SUBSET DispatchId
    BY <1>2 DEF Typed, Executing
  <2> QED BY <1>2, <2>1, WritesFrame
<1>5. CancelFits'
  <2>1. cancel.attempt # 0 => attempt'[cancel.attempt] = "CANCELLED"
    BY <1>1 DEF EInv, CancelFits, Typed, TypeOK, CancelRow, Active
  <2> QED BY <1>1, <1>4, <2>1 DEF EInv, CancelFits
<1> QED BY <1>3, <1>5, StopsKeeps

\* A cancel request revokes the loops of the pipeline and remembers whom it asked.
LEMMA RevokeFits ==
    ASSUME Typed, EInv, Typed', NEW a \in AttemptId, Revoke(a), UNCHANGED <<session, child, daemon>>,
           daemon = "UP", attempt'[a] = "CANCELLED"
    PROVE  /\ CancelFits'
           /\ \A d \in DispatchId :
                /\ exec'[d].pc = exec[d].pc /\ exec'[d].sid = exec[d].sid
                /\ exec'[d].revoked = (d \in Loops(a) \/ exec[d].revoked)
<1>1. TypeOK /\ Loops(a) \in SUBSET DispatchId /\ exec' = RevokedExecs(Loops(a))
  BY DEF Typed, Loops, Executing, Revoke
<1>2. \A d \in DispatchId :
        /\ exec'[d].pc = exec[d].pc /\ exec'[d].sid = exec[d].sid
        /\ exec'[d].revoked = (d \in Loops(a) \/ exec[d].revoked)
  BY <1>1, WritesFrame
<1> DEFINE live == {exec[d].sid : d \in Loops(a)} \ {0}
<1>3. /\ cancel'.attempt = a /\ cancel'.sessions = Turns(a)
      /\ cancel'.stops = live /\ cancel'.waiting = live
  BY DEF Revoke
<1>4. ASSUME NEW s \in live
      PROVE  /\ session[s].status # "NONE"
             /\ \A d \in DispatchId : exec[d].pc # "IDLE" /\ exec[d].sid = s => d \in Loops(a)
  <2>1. PICK e \in Loops(a) : exec[e].sid = s /\ s # 0
    OBVIOUS
  <2>2. /\ e \in DispatchId /\ exec[e].pc # "IDLE" /\ AttemptOf(e) \in Siblings(a)
        /\ session[s].attempt = AttemptOf(e) /\ session[s].status # "NONE"
    BY <2>1 DEF Loops, Executing, EInv, LoopsFit, LoopFits, Typed, LoopsNamed
  <2>3. ASSUME NEW d \in DispatchId, exec[d].pc # "IDLE", exec[d].sid = s
        PROVE  d \in Loops(a)
    <3>1. session[s].attempt = AttemptOf(d)
      BY <2>1, <2>3 DEF EInv, LoopsFit, LoopFits
    <3> QED BY <2>2, <2>3, <3>1 DEF Loops, Executing
  <2> QED BY <2>2, <2>3
<1> HIDE DEF live
<1>5. \A s \in Turns(a) : session[s].status = "RUNNING" /\ session[s].attempt = a
  BY DEF Turns
<1>6. CancelFits'
  BY <1>2, <1>3, <1>4, <1>5 DEF CancelFits
<1> QED BY <1>2, <1>6

LEMMA CancelPipelineKeeps ==
    ASSUME Typed, EInv, StepTyped, Typed', NEW a \in AttemptId, CancelPipeline(a)
    PROVE  EInv'
<1>1. /\ daemon = "UP" /\ attempt[a] \in Active
      /\ attempt'[a] = "CANCELLED" /\ \A b \in AttemptId : b # a => attempt'[b] = attempt[b]
      /\ UNCHANGED <<session, child, daemon, crashes>>
  BY DEF CancelPipeline, Commandable, Typed, TypeOK
<1>2. /\ Loops(a) \in SUBSET Executing /\ exec' = RevokedExecs(Loops(a))
      /\ \A d \in DispatchId : Acting(d) => d \in Loops(a)
  BY <1>1, ActingLoops DEF CancelPipeline, Revoke, Loops
<1>3. Stops(a)
  BY <1>1, <1>2 DEF CancelPipeline, Stops
<1>4. CancelFits'
  BY <1>1, RevokeFits DEF CancelPipeline
<1> QED BY <1>3, <1>4, StopsKeeps

LEMMA RetryCancelKeeps ==
    ASSUME Typed, EInv, StepTyped, Typed', NEW a \in AttemptId, RetryCancel(a)
    PROVE  EInv'
<1>1. /\ daemon = "UP" /\ Current(a) /\ attempt[a] = "CANCELLED" /\ attempt[a] \notin Active
      /\ UNCHANGED <<attempt, dispatch, agentRun, session, workspace, child, daemon, crashes>>
  BY DEF RetryCancel, Commandable, rows, Active
<1>2. /\ CancelFits'
      /\ \A d \in DispatchId :
           /\ exec'[d].pc = exec[d].pc /\ exec'[d].sid = exec[d].sid
           /\ exec'[d].revoked = (d \in Loops(a) \/ exec[d].revoked)
  BY <1>1, RevokeFits DEF RetryCancel
<1>3. \A d \in DispatchId : d \in Loops(a) => ~Acting(d) /\ dispatch[d].status # "PENDING"
  BY <1>1, ActingLoops
<1>4. \A d \in DispatchId : Acting(d)' <=> Acting(d)
  BY <1>2, <1>3 DEF Acting
<1>5. AttemptsFit' /\ PendingFits' /\ ClaimsFit' /\ LeaseFits' /\ OnlyTurn'
  BY <1>1 DEF EInv, AttemptsFit, PendingFits, ClaimsFit, LeaseFits, OnlyTurn, AttemptOf, HasTurn, SurvivesCrash
<1>6. LoopsFit'
  <2>1. ASSUME NEW e \in DispatchId
        PROVE  LoopFits(e)'
    BY <1>1, <1>2, <1>3 DEF EInv, LoopsFit, LoopFits, AttemptOf
  <2>2. ASSUME NEW e \in DispatchId
        PROVE  ActingFits(e)'
    BY <1>1, <1>2, <1>4 DEF EInv, LoopsFit, ActingFits, AttemptOf
  <2> QED BY <1>4, <2>1, <2>2 DEF EInv, LoopsFit
<1>7. Driven'
  BY <1>1, <1>4 DEF EInv, Driven, HasTurn, AttemptOf
<1>8. ChildFits'
  BY <1>1, <1>2 DEF EInv, ChildFits
<1> QED BY <1>2, <1>5, <1>6, <1>7, <1>8 DEF EInv

----
(* Steps of the cancel request, of the processes and of the daemon *)

\* A step that moves no loop and writes no row.
Quiet ==
    /\ UNCHANGED <<attempt, dispatch, agentRun, session, workspace, exec, daemon, crashes>>
    /\ child' \subseteq child

LEMMA QuietKeeps ==
    ASSUME Typed, EInv, Quiet, CancelFits'
    PROVE  EInv'
<1> USE DEF Quiet
<1>1. AttemptsFit' /\ PendingFits' /\ ClaimsFit' /\ LeaseFits' /\ OnlyTurn' /\ Driven'
  BY DEF EInv, AttemptsFit, PendingFits, ClaimsFit, LeaseFits, OnlyTurn, Driven, AttemptOf, HasTurn,
         SurvivesCrash, Acting
<1>2. LoopsFit'
  BY DEF EInv, LoopsFit, LoopFits, ActingFits, Acting, AttemptOf
<1>3. ChildFits'
  BY DEF EInv, ChildFits
<1> QED BY <1>1, <1>2, <1>3 DEF EInv

LEMMA StopKeeps ==
    ASSUME Typed, EInv, StopRejected \/ (\E s \in SessionId : StopConfirmed(s) \/ OrphanExits(s)) \/ UNCHANGED vars
    PROVE  EInv'
<1>1. Quiet
  BY DEF StopRejected, StopConfirmed, OrphanExits, vars, rows, Quiet
<1>2. CancelFits'
  <2>1. CASE StopRejected
    BY <2>1 DEF StopRejected, CancelFits, NoCancel
  <2>2. ASSUME NEW s \in SessionId, StopConfirmed(s)
        PROVE  CancelFits'
    <3>1. /\ cancel'.attempt = cancel.attempt /\ cancel'.sessions = cancel.sessions
          /\ cancel'.stops = cancel.stops /\ cancel'.waiting = cancel.waiting \ {s}
          /\ child' = child \ {s}
      BY <2>2 DEF StopConfirmed, Typed, TypeOK, CancelRow
    <3> QED BY <1>1, <3>1 DEF Quiet, EInv, CancelFits
  <2>3. CASE (\E s \in SessionId : OrphanExits(s)) \/ UNCHANGED vars
    <3>1. cancel' = cancel
      BY <2>3 DEF OrphanExits, vars
    <3> QED BY <1>1, <3>1 DEF Quiet, EInv, CancelFits
  <2> QED BY <2>1, <2>2, <2>3
<1> QED BY <1>1, <1>2, QuietKeeps

\* The turns a cancel request ends belong to nobody any more: no loop acts while one of them runs.
LEMMA FinishCancelKeeps ==
    ASSUME Typed, EInv, StepTyped, Typed', FinishCancel
    PROVE  EInv'
<1> DEFINE a == cancel.attempt
<1>1. /\ cancel' = NoCancel /\ cancel.waiting = {} /\ a # 0
      /\ UNCHANGED <<exec, child, daemon, crashes, attempt, dispatch>>
  BY DEF FinishCancel, Stopped, rows
<1>2. CancelFits'
  BY <1>1 DEF CancelFits, NoCancel
<1>3. CASE UNCHANGED rows
  BY <1>1, <1>2, <1>3, QuietKeeps DEF Quiet, rows
<1>4. CASE /\ cancel.sessions \cap (LiveSessions \ cancel.stops) = {} /\ cancel.sessions # {}
           /\ session' = Ended(cancel.sessions)
           /\ agentRun' = agentRun \ {a}
           /\ workspace' = FinishAgentRun(a, workspace)
  <2>1. TypeOK /\ cancel.sessions \in SUBSET SessionId /\ a \in AttemptId
    BY <1>1 DEF Typed, TypeOK, CancelRow
  <2>2. PICK c \in cancel.sessions : TRUE
    BY <1>4
  <2>3. /\ c \in SessionId /\ session[c].status = "RUNNING" /\ session[c].attempt = a
        /\ attempt[a] = "CANCELLED"
    BY <1>1, <2>1, <2>2 DEF EInv, CancelFits
  <2>4. \A t \in SessionId : session[t].status = "RUNNING" => t = c
    BY <2>3 DEF EInv, OnlyTurn
  <2>5. \A t \in SessionId :
          /\ session'[t].status # "RUNNING" /\ (session[t].status # "RUNNING" => session'[t].status = session[t].status)
          /\ session'[t].attempt = session[t].attempt /\ session'[t].pid = session[t].pid
    <3>1. \A t \in SessionId :
            /\ session'[t].status = IF t \in cancel.sessions THEN "ENDED" ELSE session[t].status
            /\ session'[t].attempt = session[t].attempt /\ session'[t].pid = session[t].pid
      BY <1>4, <2>1, WritesFrame
    <3>2. \A t \in cancel.sessions : session[t].status = "RUNNING"
      BY DEF EInv, CancelFits
    <3> QED BY <2>2, <2>4, <3>1, <3>2
  <2>6. \A d \in DispatchId : ~Acting(d)
    <3>1. SUFFICES ASSUME NEW d \in DispatchId, Acting(d)
                   PROVE  FALSE
      OBVIOUS
    <3>2. a = AttemptOf(d) /\ attempt[AttemptOf(d)] \in {"RUNNING", "SOFT_PAUSED"}
      BY <2>3, <3>1, ActingFacts
    <3> QED BY <2>3, <3>2
  <2>7. daemon = "UP"
    BY <1>1 DEF EInv, CancelFits
  <2>8. \A b \in AttemptId : HasTurn(b) => b = a
    BY <2>3, <2>4 DEF HasTurn
  <2>9. \A b \in AttemptId : attempt[b] # "RUNNING"
    <3>1. \A b \in AttemptId : attempt[b] = "RUNNING" => HasTurn(b)
      BY <2>6, <2>7 DEF EInv, Driven
    <3> QED BY <2>3, <2>8, <3>1
  <2>10. AttemptsFit'
    BY <1>1 DEF EInv, AttemptsFit
  <2>11. PendingFits'
    BY <1>1, <2>9 DEF EInv, PendingFits, AttemptOf
  <2>12. agentRun' = {}
    <3>1. \A b \in agentRun : b \in AttemptId
      BY <2>1 DEF TypeOK
    <3>2. \A b \in agentRun : b = a
      BY <2>8, <2>9, <3>1 DEF EInv, ClaimsFit
    <3> QED BY <1>4, <3>2
  <2>13. ClaimsFit' /\ OnlyTurn'
    BY <1>1, <2>5, <2>12 DEF EInv, ClaimsFit, OnlyTurn
  <2>14. LeaseFits'
    <3>1. /\ workspace'.status = workspace.status
          /\ workspace'.holder \in {0, workspace.holder}
          /\ a \in agentRun /\ workspace.holder = a => workspace'.holder = 0
      BY <1>4 DEF FinishAgentRun, Released, Typed, TypeOK, WorkspaceRow
    <3>2. workspace.holder \in AttemptId \cup {0}
      BY DEF Typed, TypeOK, WorkspaceRow
    <3>3. \A b \in agentRun : b = a
      BY <1>4, <2>12
    <3>4. a \notin agentRun => SurvivesCrash
      BY <2>3 DEF EInv, ClaimsFit
    <3>5. workspace'.holder # 0 =>
            workspace'.holder \in InWorkspace /\ SurvivesCrash /\ attempt[workspace'.holder] = "CANCELLED"
      BY <2>3, <2>8, <3>1, <3>2, <3>3, <3>4 DEF EInv, LeaseFits
    <3>6. SurvivesCrash' = SurvivesCrash
      BY <1>1 DEF SurvivesCrash
    <3> QED BY <1>1, <2>5, <3>1, <3>5, <3>6 DEF EInv, LeaseFits
  <2>15. LoopsFit'
    <3>1. \A d \in DispatchId : ~Acting(d)'
      BY <1>1, <2>6 DEF Acting
    <3>2. workspace'.status = workspace.status
      BY <1>4 DEF FinishAgentRun, Released, Typed, TypeOK, WorkspaceRow
    <3>3. ASSUME NEW d \in DispatchId
          PROVE  LoopFits(d)'
      <4>1. exec[d].sid \in SessionId \cup {0}
        BY LoopNamed
      <4> QED BY <1>1, <2>5, <3>2, <4>1 DEF EInv, LoopsFit, LoopFits, AttemptOf
    <3> QED BY <3>1, <3>3 DEF LoopsFit, ActingFits
  <2>16. Driven'
    BY <1>1, <2>9 DEF Driven
  <2>17. ChildFits'
    <3>1. SUFFICES ASSUME NEW s \in child
                   PROVE  /\ \A d \in DispatchId : exec[d].pc # "IDLE" => exec[d].sid # s
                          /\ session'[s].pid =>
                                session'[s].attempt \in AttemptId /\ attempt[session'[s].attempt] = "CANCELLED"
      BY <1>1 DEF ChildFits
    <3>2. s \in SessionId /\ s # 0
      BY DEF Typed, TypeOK, SessionId
    <3>3. CASE s \in cancel.sessions
      <4>1. session[s].attempt = a /\ attempt[a] = "CANCELLED"
        BY <2>3, <3>3 DEF EInv, CancelFits
      <4>2. s \notin cancel.stops
        BY <1>1 DEF EInv, CancelFits
      <4>3. \A d \in DispatchId : exec[d].pc # "IDLE" => exec[d].sid # s
        BY <1>4, <3>2, <3>3, <4>2 DEF LiveSessions, Executing
      <4> QED BY <2>1, <2>5, <3>2, <4>1, <4>3
    <3>4. CASE s \notin cancel.sessions
      <4>1. session[s].status # "RUNNING"
        BY <2>2, <2>4, <3>2, <3>4
      <4> QED BY <2>5, <3>2, <4>1 DEF EInv, ChildFits
    <3> QED BY <3>3, <3>4
  <2> QED BY <1>2, <2>10, <2>11, <2>13, <2>14, <2>15, <2>16, <2>17 DEF EInv
<1> QED BY <1>3, <1>4 DEF FinishCancel

LEMMA CrashKeeps ==
    ASSUME Typed, EInv, StepTyped, Typed', Crash
    PROVE  EInv'
<1>1. /\ daemon' = "DOWN" /\ crashes' = crashes + 1 /\ cancel' = NoCancel
      /\ UNCHANGED <<attempt, dispatch, agentRun, session, workspace, child>>
      /\ \A d \in DispatchId : exec'[d] = NoExec
  BY DEF Crash, rows
<1>2. crashes \in Nat
  BY DEF Typed, TypeOK
<1>3. \A d \in DispatchId : exec'[d].pc = "IDLE" /\ ~Acting(d)'
  BY <1>1, NoExecType DEF Acting
<1>4. AttemptsFit' /\ PendingFits' /\ OnlyTurn'
  BY <1>1 DEF EInv, AttemptsFit, PendingFits, OnlyTurn, AttemptOf
<1>5. crashes' > 0 /\ (SurvivesCrash => SurvivesCrash')
  BY <1>1, <1>2 DEF SurvivesCrash
<1>6. ClaimsFit'
  BY <1>1, <1>5 DEF EInv, ClaimsFit, HasTurn
<1>7. LeaseFits'
  BY <1>1, <1>5 DEF EInv, LeaseFits, HasTurn
<1>8. LoopsFit' /\ Driven' /\ ChildFits'
  BY <1>1, <1>3 DEF EInv, LoopsFit, LoopFits, ActingFits, Driven, ChildFits
<1>9. CancelFits'
  BY <1>1 DEF CancelFits, NoCancel
<1> QED BY <1>4, <1>6, <1>7, <1>8, <1>9 DEF EInv

\* RECONCILE_WORKFLOWS: whatever stays running after a start could not be proven gone, and keeps the
\* lease.
LEMMA RestartKeeps ==
    ASSUME Typed, EInv, StepTyped, Typed', Restart, unfenced' = {}
    PROVE  EInv'
<1>1. PICK unproven \in IF StopsProven THEN {{}} ELSE SUBSET Recorded, gone \in BOOLEAN :
        LET ended == Orphaned \ unproven
            h     == workspace.holder
            free  == /\ h # 0 /\ \A s \in unproven : session[s].attempt # h
                     /\ \/ \E s \in ended : session[s].attempt = h
                        \/ h \in agentRun \cup Interrupted
                        \/ attempt[h] \in Terminal
        IN  /\ session' = Ended(ended)
            /\ child' = child \ (Recorded \ unproven)
            /\ workspace' = IF gone /\ workspace.status = "READY"
                            THEN [status |-> "ORPHANED", holder |-> 0]
                            ELSE IF free THEN [workspace EXCEPT !.holder = 0] ELSE workspace
            /\ unfenced' = unfenced \cup {pipeline[session[s].attempt] :
                              s \in {t \in unproven : session[t].attempt \notin InWorkspace}}
  BY DEF Restart, Kept
<1> DEFINE ended == Orphaned \ unproven
           h == workspace.holder
           free == /\ h # 0 /\ \A s \in unproven : session[s].attempt # h
                   /\ \/ \E s \in ended : session[s].attempt = h
                      \/ h \in agentRun \cup Interrupted
                      \/ attempt[h] \in Terminal
<1>2. /\ session' = Ended(ended) /\ child' = child \ (Recorded \ unproven)
      /\ workspace' = IF gone /\ workspace.status = "READY"
                      THEN [status |-> "ORPHANED", holder |-> 0]
                      ELSE IF free THEN [workspace EXCEPT !.holder = 0] ELSE workspace
  BY <1>1
<1>3. /\ unproven \in SUBSET Recorded /\ (unproven # {} => ~StopsProven)
      /\ \A s \in unproven : session[s].attempt \in InWorkspace
  BY <1>1
<1>4. /\ daemon = "DOWN" /\ daemon' = "UP" /\ agentRun' = {} /\ UNCHANGED <<exec, cancel, crashes>>
      /\ attempt' = [a \in AttemptId |-> IF a \in Interrupted THEN "INTERRUPTED" ELSE attempt[a]]
      /\ dispatch' = [d \in DispatchId |-> IF \E a \in Interrupted : d \in Pending(a)
                                           THEN [dispatch[d] EXCEPT !.status = "FAILED"] ELSE dispatch[d]]
  BY DEF Restart
<1>5. TypeOK /\ ended \in SUBSET SessionId
  BY DEF Typed, Orphaned
\* The sessions that were not proven gone still run, and no other.
<1>6. \A s \in SessionId :
        /\ session'[s].status = IF s \in ended THEN "ENDED" ELSE session[s].status
        /\ session'[s].attempt = session[s].attempt /\ session'[s].pid = session[s].pid
  BY <1>2, <1>5, WritesFrame
<1>7. \A s \in SessionId : session'[s].status = "RUNNING" <=> s \in unproven
  BY <1>3, <1>6 DEF Orphaned, Recorded
<1>8. \A s \in unproven : s \in SessionId /\ session[s].status = "RUNNING"
  BY <1>3 DEF Orphaned, Recorded
<1>9. \A s \in SessionId : session[s].status = "RUNNING" => s \in ended \/ s \in unproven
  BY DEF Orphaned
\* Every running attempt is interrupted, and its dispatch withdrawn.
<1>10. \A a \in AttemptId : a \in Interrupted <=> attempt[a] = "RUNNING"
  <2>1. ASSUME NEW a \in AttemptId, attempt[a] = "RUNNING"
        PROVE  Pending(a) # {}
    <3>1. PICK d \in DispatchId : dispatch[d].status = "PENDING" /\ AttemptOf(d) = a
      BY <2>1 DEF EInv, PendingFits
    <3>2. dispatch[d] \in DispatchRow
      BY DEF Typed, TypeOK
    <3>3. dispatch[d] = [attempt |-> a, status |-> "PENDING"]
      BY <3>1, <3>2 DEF DispatchRow, AttemptOf
    <3> QED BY <3>3 DEF Pending
  <2> QED BY <2>1 DEF Interrupted
<1>11. /\ \A a \in AttemptId : attempt'[a] = IF attempt[a] = "RUNNING" THEN "INTERRUPTED" ELSE attempt[a]
       /\ \A a \in AttemptId : attempt'[a] # "RUNNING"
  BY <1>4, <1>10
<1>12. \A d \in DispatchId :
         /\ dispatch'[d].attempt = dispatch[d].attempt
         /\ dispatch'[d].status = "PENDING" =>
              dispatch[d].status = "PENDING" /\ attempt[AttemptOf(d)] = "QUEUED"
  <2>1. SUFFICES ASSUME NEW d \in DispatchId
                 PROVE  /\ dispatch'[d].attempt = dispatch[d].attempt
                        /\ dispatch'[d].status = "PENDING" =>
                             dispatch[d].status = "PENDING" /\ attempt[AttemptOf(d)] = "QUEUED"
    OBVIOUS
  <2>2. dispatch[d] \in DispatchRow
    BY DEF Typed, TypeOK
  <2>3. CASE \E a \in Interrupted : d \in Pending(a)
    <3>1. dispatch'[d] = [dispatch[d] EXCEPT !.status = "FAILED"]
      BY <1>4, <2>3
    <3> QED BY <2>2, <3>1 DEF DispatchRow
  <2>4. CASE ~\E a \in Interrupted : d \in Pending(a)
    <3>1. dispatch'[d] = dispatch[d]
      BY <1>4, <2>4
    <3>2. ASSUME dispatch[d].status = "PENDING"
          PROVE  attempt[AttemptOf(d)] = "QUEUED"
      <4>1. AttemptOf(d) \in AttemptId
        BY <3>2 DEF Typed, DispatchesNamed, AttemptOf
      <4>2. dispatch[d] = [attempt |-> AttemptOf(d), status |-> "PENDING"]
        BY <2>2, <3>2 DEF DispatchRow, AttemptOf
      <4>3. AttemptOf(d) \notin Interrupted
        BY <2>4, <4>2 DEF Pending
      <4>4. attempt[AttemptOf(d)] \in {"QUEUED", "RUNNING"}
        BY <3>2 DEF EInv, PendingFits
      <4> QED BY <1>10, <4>1, <4>3, <4>4
    <3> QED BY <3>1, <3>2
  <2> QED BY <2>3, <2>4
<1>13. \A d \in DispatchId : exec[d].pc = "IDLE" /\ exec'[d].pc = "IDLE" /\ ~Acting(d)'
  BY <1>4 DEF EInv, LoopsFit, LoopFits, Acting
<1>14. \A a \in AttemptId : attempt[a] = "CANCELLED" => attempt'[a] = "CANCELLED"
  BY <1>11
<1> HIDE DEF ended, free
<1>15. AttemptsFit'
  <2>1. \A a \in AttemptId : /\ attempt'[a] = "NONE" <=> attempt[a] = "NONE"
                             /\ attempt'[a] \in Active => attempt[a] \in Active
    BY <1>11 DEF Active
  <2> QED BY <2>1 DEF EInv, AttemptsFit
<1>16. PendingFits'
  <2>1. \A d \in DispatchId : dispatch'[d].status = "PENDING" => attempt'[AttemptOf(d)] = "QUEUED"
    <3>1. SUFFICES ASSUME NEW d \in DispatchId, dispatch'[d].status = "PENDING"
                   PROVE  attempt'[AttemptOf(d)] = "QUEUED"
      OBVIOUS
    <3>2. dispatch[d].status = "PENDING" /\ attempt[AttemptOf(d)] = "QUEUED"
      BY <1>12, <3>1
    <3>3. AttemptOf(d) \in AttemptId
      BY <3>2 DEF Typed, DispatchesNamed, AttemptOf
    <3> QED BY <1>11, <3>2, <3>3
  <2> QED BY <1>11, <1>12, <2>1 DEF EInv, PendingFits, AttemptOf
<1>17. \A s \in unproven : SurvivesCrash'
  <2>1. crashes > 0 /\ crashes' = crashes
    BY <1>4 DEF EInv, ClaimsFit
  <2> QED BY <1>3, <2>1 DEF SurvivesCrash
<1>18. ClaimsFit' /\ OnlyTurn'
  BY <1>3, <1>4, <1>6, <1>7, <1>8, <1>17 DEF EInv, ClaimsFit, OnlyTurn
<1>19. LeaseFits'
  <2>1. /\ workspace \in WorkspaceRow /\ h \in AttemptId \cup {0}
        /\ [workspace EXCEPT !.holder = 0].status = workspace.status
        /\ [workspace EXCEPT !.holder = 0].holder = 0
    BY DEF Typed, TypeOK, WorkspaceRow
  <2>2. CASE gone /\ workspace.status = "READY"
    BY <1>2, <2>2 DEF LeaseFits
  <2>3. CASE ~(gone /\ workspace.status = "READY")
    <3>1. workspace'.status = workspace.status /\ workspace'.holder = IF free THEN 0 ELSE h
      BY <1>2, <2>1, <2>3
    <3>2. \A s \in unproven : session[s].attempt \in InWorkspace =>
            h = session[s].attempt \/ workspace.status = "ORPHANED"
      BY <1>8 DEF EInv, LeaseFits
    <3>3. \A s \in unproven : session[s].attempt = h => ~free
      BY DEF free
    <3>4. ASSUME h # 0, ~free
          PROVE  \E s \in unproven : session[s].attempt = h
      <4>1. SUFFICES ASSUME \A s \in unproven : session[s].attempt # h
                     PROVE  FALSE
        OBVIOUS
      <4>2. /\ \A s \in ended : session[s].attempt # h
            /\ h \notin agentRun \cup Interrupted /\ attempt[h] \notin Terminal
        BY <3>4, <4>1 DEF free
      <4>3. ~HasTurn(h)
        BY <1>9, <4>1, <4>2 DEF HasTurn
      <4>4. attempt[h] = "CANCELLED"
        BY <3>4, <4>2, <4>3 DEF EInv, LeaseFits
      <4> QED BY <4>2, <4>4 DEF Terminal
    <3>5. h # 0 /\ ~free => HasTurn(h)'
      <4>1. SUFFICES ASSUME h # 0, ~free
                     PROVE  \E s \in SessionId : session'[s].status = "RUNNING" /\ session'[s].attempt = h
        BY <3>1 DEF HasTurn
      <4> QED BY <1>6, <1>7, <1>8, <3>4, <4>1
    <3>6. \A s \in SessionId : session'[s].status = "RUNNING" /\ session'[s].attempt \in InWorkspace =>
            workspace'.holder = session'[s].attempt \/ workspace'.status = "ORPHANED"
      BY <1>6, <1>7, <3>1, <3>2, <3>3
    <3>7. h # 0 => h \in InWorkspace /\ workspace.status = "READY"
      BY DEF EInv, LeaseFits
    <3> QED BY <3>1, <3>5, <3>6, <3>7 DEF LeaseFits
  <2> QED BY <2>2, <2>3
<1>20. LoopsFit' /\ Driven'
  BY <1>11, <1>13 DEF LoopsFit, LoopFits, ActingFits, Driven
<1>21. CancelFits'
  <2>1. cancel.attempt = 0
    BY <1>4 DEF EInv, CancelFits
  <2>2. \A s \in cancel.sessions : FALSE
    <3>1. \A s \in cancel.sessions : s \in SessionId /\ session[s].status = "RUNNING" /\ session[s].attempt = 0
      BY <2>1 DEF EInv, CancelFits, Typed, TypeOK, CancelRow
    <3> QED BY <3>1 DEF Typed, SessionsNamed, AttemptId
  <2>3. \A s \in cancel.stops : s \in SessionId
    BY DEF Typed, TypeOK, CancelRow
  <2> QED BY <1>2, <1>4, <1>6, <1>13, <2>1, <2>2, <2>3 DEF EInv, CancelFits
<1>22. ChildFits'
  <2>1. SUFFICES ASSUME NEW s \in child', session'[s].status # "RUNNING", session'[s].pid
                 PROVE  session'[s].attempt \in AttemptId /\ attempt'[session'[s].attempt] = "CANCELLED"
    BY <1>13 DEF ChildFits
  <2>2. s \in child /\ s \in SessionId /\ s \notin Recorded \ unproven
    BY <1>2 DEF Typed, TypeOK
  <2>3. session[s].status # "RUNNING"
    BY <1>6, <1>7, <2>1, <2>2 DEF Recorded, Orphaned
  <2> QED BY <1>6, <1>14, <2>1, <2>2, <2>3 DEF EInv, ChildFits
<1> QED BY <1>15, <1>16, <1>18, <1>19, <1>20, <1>21, <1>22 DEF EInv

----
(* Whom the lease keeps waiting *)

LEMMA WaitsKeeps ==
    ASSUME Typed, EInv, Waits, StepTyped, [Next]_vars, unfenced' = {}
    PROVE  Waits'
<1>1. ASSUME \A a \in AttemptId : attempt'[a] \in Active => attempt[a] \in Active,
             workspace'.holder \in {0, workspace.holder},
             \A s \in SessionId : session'[s].status = "RUNNING" =>
                session[s].status = "RUNNING" /\ session'[s].attempt = session[s].attempt
      PROVE  Waits'
  BY <1>1 DEF Waits
<1>2. ASSUME NEW a \in InWorkspace, \A b \in AttemptId : attempt'[b] \in Active => b = a,
             workspace'.holder # 0 =>
                \A s \in SessionId : session'[s].status = "RUNNING" => session'[s].attempt \in InWorkspace
      PROVE  Waits'
  BY <1>2 DEF Waits
<1>3. CASE UNCHANGED <<attempt, session, workspace>>
  BY <1>1, <1>3
<1>4. ASSUME NEW ss \in SUBSET SessionId, session' = Ended(ss)
      PROVE  \A s \in SessionId : session'[s].attempt = session[s].attempt
                                  /\ (session'[s].status = "RUNNING" => session[s].status = "RUNNING")
  BY <1>4, WritesFrame DEF Typed
<1>5. ASSUME NEW d \in DispatchId, Loop(d)
      PROVE  Waits'
  <2> DEFINE a == AttemptOf(d)
  <2>1. CASE Fades(d) \/ Spawns(d)
    BY <1>1, <2>1 DEF Fades, Spawns
  <2>2. CASE Moves(d)
    <3>1. CASE workspace'.holder = AttemptOf(d) /\ exec[d].pc = "CREATING"
      <4>1. a \in InWorkspace /\ \A b \in AttemptId : attempt'[b] \in Active => b = a
        BY <2>2, <3>1, ActingFacts DEF Moves, EInv, LoopsFit, ActingFits
      <4>2. \A s \in SessionId : session'[s].status # "RUNNING"
        BY <2>2, <3>1 DEF Moves, EInv, LoopsFit, ActingFits, InTurn
      <4> QED BY <1>2, <4>1, <4>2
    <3> QED BY <1>1, <2>2, <3>1 DEF Moves
  <2>3. ASSUME NEW s \in SessionId, Opens(d, s)
        PROVE  Waits'
    <3>1. CASE a \in InWorkspace
      <4>1. \A b \in AttemptId : attempt'[b] \in Active => b = a
        BY <2>3, ActingFacts DEF Opens
      <4>2. \A t \in SessionId : session'[t].status = "RUNNING" => session'[t].attempt = a
        BY <2>3 DEF Opens, EInv, LoopsFit, ActingFits, InTurn, Typed, TypeOK
      <4> QED BY <1>2, <3>1, <4>1, <4>2
    <3>2. CASE a \notin InWorkspace
      <4>1. attempt[a] \in Active /\ a \in AttemptId
        BY <2>3, ActingFacts DEF Opens
      <4>2. workspace'.holder = 0 /\ \A t \in SessionId : session'[t].status = "RUNNING" => session'[t].attempt = a
        BY <2>3, <3>2, <4>1 DEF Opens, Waits, EInv, LoopsFit, ActingFits, InTurn, Typed, TypeOK
      <4> QED BY <3>2, <4>2 DEF Waits
    <3> QED BY <3>1, <3>2
  <2>4. CASE TakesAnother(d)
    BY <1>1, <2>4 DEF TakesAnother
  <2>5. CASE Abandons(d)
    BY <1>1, <2>5 DEF Abandons, Rests
  <2>6. CASE Parks(d) /\ Writes(d)
    <3>1. attempt[a] \in Active /\ a \in AttemptId
      BY <2>6, ActingFacts DEF Parks
    <3>2. \A b \in AttemptId : attempt'[b] \in Active => attempt[b] \in Active
      BY <2>6, <3>1 DEF Writes, Typed, TypeOK
    <3> QED BY <1>1, <2>6, <3>2 DEF Parks
  <2>7. CASE Parks(d) /\ ResultMeasured(d)
    <3>1. attempt[a] \in Active /\ a \in AttemptId /\ \A t \in SessionId : session'[t].status # "RUNNING"
      BY <2>7, ActingFacts DEF Parks
    <3>2. a \in InWorkspace => workspace.holder = a
      BY <2>7 DEF Parks, ResultMeasured, EInv, LoopsFit, ActingFits
    <3>3. workspace'.holder = 0
      BY <2>7, <3>1, <3>2 DEF Parks, Waits
    <3> QED BY <3>1, <3>3 DEF Waits
  <2> QED BY <1>5, <2>1, <2>2, <2>3, <2>4, <2>5, <2>6, <2>7, LoopSteps, LoopWrites
<1>6. ASSUME NEW d \in DispatchId, Execute(d)
      PROVE  Waits'
  <2> DEFINE a == AttemptOf(d)
  <2>1. dispatch[d].status = "PENDING" /\ attempt[a] \in Active /\ UNCHANGED session
        /\ attempt' = [attempt EXCEPT ![a] = "RUNNING"]
    BY <1>6 DEF Execute, Active
  <2>2. a \in AttemptId
    BY <2>1 DEF Typed, DispatchesNamed, AttemptOf
  <2>3. \A b \in AttemptId : attempt'[b] \in Active => attempt[b] \in Active /\ b = a
    BY <2>1, <2>2, LatestIsActive DEF Typed, TypeOK
  <2>4. CASE a \in InWorkspace
    <3>1. \A s \in SessionId : session[s].status = "RUNNING" => session[s].attempt \in InWorkspace
      BY <1>6 DEF Execute, EInv, ClaimsFit
    <3> QED BY <1>2, <2>1, <2>3, <2>4, <3>1
  <2>5. CASE a \notin InWorkspace
    BY <1>1, <1>6, <2>1, <2>3, <2>5 DEF Execute
  <2> QED BY <2>4, <2>5
<1>7. CASE StartPipeline
  <2>1. PICK a \in NextAttempt \cap InWorkspace : attempt' = [attempt EXCEPT ![a] = "QUEUED"]
    BY <1>7 DEF StartPipeline
  <2>2. ASSUME NEW b \in AttemptId, attempt'[b] \in Active, b # a
        PROVE  FALSE
    <3>1. attempt[b] \in Active /\ attempt[b] # "NONE" /\ pipeline[b] # 0
          /\ \A c \in AttemptId : c > b => pipeline[c] = 0
      BY <2>1, <2>2 DEF Typed, TypeOK, EInv, AttemptsFit, LinesNamed, Active
    <3> QED BY <1>7, <3>1 DEF StartPipeline, Current
  <2>3. UNCHANGED <<session, workspace>>
    BY <1>7 DEF StartPipeline
  <2> QED BY <1>2, <2>1, <2>2, <2>3 DEF Waits
<1>8. ASSUME NEW a \in AttemptId, Owner(a)
      PROVE  Waits'
  <2>1. CASE RetryCancel(a)
    BY <1>3, <2>1 DEF RetryCancel, rows
  <2>2. CASE Requeue(a)
    BY <1>1, <2>2 DEF Requeue, Resumable, Active, Typed, TypeOK
  <2>3. ASSUME StopAgentRun(a)
        PROVE  workspace'.holder \in {0, workspace.holder}
    BY <2>3 DEF StopAgentRun, FinishAgentRun, Released, Typed, TypeOK, WorkspaceRow
  <2>4. CASE PausePipeline(a)
    BY <1>1, <2>3, <2>4 DEF PausePipeline, Active, Typed, TypeOK
  <2>5. CASE CancelPipeline(a)
    BY <1>1, <2>3, <2>5 DEF CancelPipeline, Active, Typed, TypeOK
  <2> QED BY <1>8, <2>1, <2>2, <2>4, <2>5 DEF Owner
<1>9. CASE FinishCancel
  <2>1. CASE UNCHANGED rows
    BY <1>3, <2>1 DEF rows
  <2>2. CASE session' = Ended(cancel.sessions) /\ workspace' = FinishAgentRun(cancel.attempt, workspace)
    <3>1. cancel.sessions \in SUBSET SessionId
      BY DEF Typed, TypeOK, CancelRow
    <3>2. workspace'.holder \in {0, workspace.holder}
      BY <2>2 DEF FinishAgentRun, Released, Typed, TypeOK, WorkspaceRow
    <3>3. UNCHANGED attempt
      BY <1>9 DEF FinishCancel, rows
    <3> QED BY <1>1, <1>4, <2>2, <3>1, <3>2, <3>3
  <2> QED BY <1>9, <2>1, <2>2 DEF FinishCancel
<1>10. CASE Restart
  <2>1. PICK ended \in SUBSET SessionId : session' = Ended(ended)
    BY <1>10 DEF Restart, Orphaned
  <2>2. workspace'.holder \in {0, workspace.holder}
    BY <1>10 DEF Restart, Typed, TypeOK, WorkspaceRow
  <2>3. \A a \in AttemptId : attempt'[a] \in Active => attempt[a] \in Active
    BY <1>10 DEF Restart, Interrupted, Active
  <2> QED BY <1>1, <1>4, <2>1, <2>2, <2>3
<1>11. CASE StopRejected \/ (\E s \in SessionId : StopConfirmed(s) \/ OrphanExits(s)) \/ Crash \/ UNCHANGED vars
  BY <1>3, <1>11 DEF StopRejected, StopConfirmed, OrphanExits, Crash, rows, vars
<1> QED BY <1>5, <1>6, <1>7, <1>8, <1>9, <1>10, <1>11 DEF Next, CancelRequest

----
(* The theorems *)

LEMMA NextKeeps ==
    ASSUME Typed, EInv, Waits, [Next]_vars, unfenced' = {}
    PROVE  EInv' /\ Waits'
<1>1. StepTyped /\ Typed'
  BY NextKept, LinesKept, KeptTyped
<1>2. ASSUME NEW a \in AttemptId, Owner(a)
      PROVE  EInv'
  BY <1>1, <1>2, PausePipelineKeeps, RequeueKeeps, CancelPipelineKeeps, RetryCancelKeeps DEF Owner
<1>3. ASSUME CancelRequest
      PROVE  EInv'
  BY <1>1, <1>3, StopKeeps, FinishCancelKeeps DEF CancelRequest
<1>4. ASSUME NEW d \in DispatchId, Execute(d) \/ Loop(d)
      PROVE  EInv'
  BY <1>1, <1>4, ExecuteKeeps, LoopKeeps
<1>5. ASSUME NEW s \in SessionId, OrphanExits(s)
      PROVE  EInv'
  BY <1>5, StopKeeps
<1>6. ASSUME UNCHANGED vars
      PROVE  EInv'
  BY <1>1, <1>6, StopKeeps
<1>7. QED
  BY <1>1, <1>2, <1>3, <1>4, <1>5, <1>6, StartPipelineKeeps, CrashKeeps, RestartKeeps, WaitsKeeps
  DEF Next

\* A pipeline that is unfenced stays so.
LEMMA UnfencedStays ==
    ASSUME [Next]_vars
    PROVE  unfenced \subseteq unfenced'
<1>1. CASE UNCHANGED lineage
  BY <1>1 DEF lineage
<1>2. ASSUME NEW d \in DispatchId, Execute(d) \/ Loop(d)
      PROVE  unfenced \subseteq unfenced'
  BY <1>2 DEF Execute, Loop, CheckWorkspace, CreateWorkspace, AssembleContext, Spawn, TurnEnds, TurnUncertain,
     DeadlineReached, DeadlineStop, RevokedTurnSettles, ResultReturned, ResultMeasured, lineage
<1>3. ASSUME NEW a \in AttemptId, Owner(a)
      PROVE  UNCHANGED lineage
  BY <1>3 DEF Owner, PausePipeline, Requeue, CancelPipeline, RetryCancel
<1>4. CASE CancelRequest \/ Crash \/ (\E s \in SessionId : OrphanExits(s)) \/ UNCHANGED vars
  BY <1>1, <1>4 DEF CancelRequest, StopRejected, FinishCancel, StopConfirmed, Crash, OrphanExits, vars, lineage
<1>5. CASE StartPipeline \/ Restart
  BY <1>5 DEF StartPipeline, Restart
<1> QED BY <1>1, <1>2, <1>3, <1>4, <1>5 DEF Next

\* Whoever else takes a step gives no loop a session.
LEMMA OnlyLoopsOpen ==
    ASSUME Typed, [Next]_vars, NEW d \in DispatchId, exec[d].sid = 0, exec'[d].sid # 0
    PROVE  \E e \in DispatchId : Loop(e)
<1>1. ASSUME NEW ds \in SUBSET DispatchId, exec' = RevokedExecs(ds)
      PROVE  FALSE
  BY <1>1, WritesFrame DEF Typed
<1>2. \A a : PreClaim(a) \in SUBSET DispatchId /\ Loops(a) \in SUBSET DispatchId
  BY DEF PreClaim, Loops, Executing
<1>3. ASSUME NEW e \in DispatchId, Execute(e)
      PROVE  FALSE
  <2> DEFINE x == [NoExec EXCEPT !.pc = FirstAwait(AttemptOf(e))]
  <2>1. x.sid = 0
    BY DEF NoExec
  <2>2. exec' = exec \/ exec' = [exec EXCEPT ![e] = x]
    BY <1>3 DEF Execute
  <2> HIDE DEF x
  <2> QED BY <2>1, <2>2 DEF Typed, TypeOK
<1>4. ASSUME NEW a \in AttemptId, Owner(a)
      PROVE  FALSE
  BY <1>1, <1>2, <1>4 DEF Owner, PausePipeline, Requeue, CancelPipeline, RetryCancel, Revoke
<1>5. CASE CancelRequest
  BY <1>5 DEF CancelRequest, StopRejected, FinishCancel, StopConfirmed, Stopped, rows
<1>6. CASE StartPipeline \/ Restart \/ (\E s \in SessionId : OrphanExits(s)) \/ UNCHANGED vars
  BY <1>6 DEF StartPipeline, Restart, OrphanExits, vars, rows
<1>7. CASE Crash
  BY <1>7, NoExecType DEF Crash
<1> QED BY <1>3, <1>4, <1>5, <1>6, <1>7 DEF Next

LEMMA InitFits ==
    ASSUME Init
    PROVE  EInv /\ Waits
<1>1. /\ \A a \in AttemptId : attempt[a] = "NONE"
      /\ \A d \in DispatchId : dispatch[d].status = "NONE" /\ exec[d].pc = "IDLE"
      /\ \A s \in SessionId : session[s].status = "NONE"
      /\ agentRun = {} /\ workspace.holder = 0 /\ cancel = NoCancel /\ child = {} /\ daemon = "UP"
  BY NoExecType DEF Init
<1>2. AttemptsFit /\ PendingFits /\ ClaimsFit /\ LeaseFits
  BY <1>1 DEF AttemptsFit, PendingFits, ClaimsFit, LeaseFits, Active
<1>3. LoopsFit /\ Driven /\ CancelFits /\ ChildFits /\ OnlyTurn
  BY <1>1 DEF LoopsFit, LoopFits, ActingFits, Acting, Driven, CancelFits, NoCancel, ChildFits, OnlyTurn
<1> QED BY <1>1, <1>2, <1>3 DEF EInv, Waits

\* The rows have their types and name each other; and the rows, the loops and the child processes fit
\* each other until a pipeline is unfenced, which only the pause of an overtaken loop (FLOOR_EXCEEDED
\* before the look at the revocation) and a turn outside the workspace that survived a crash do.
THEOREM ExecutionInvariant == Spec => [](Typed /\ (unfenced = {} => EInv /\ Waits))
<1> DEFINE I == Typed /\ (unfenced = {} => EInv /\ Waits)
<1>1. Init => I
  BY InitTyped, InitFits
<1>2. ASSUME I, [Next]_vars
      PROVE  I'
  <2>1. Typed'
    BY <1>2, NextKept, LinesKept, KeptTyped
  <2>2. unfenced' = {} => unfenced = {}
    BY <1>2, UnfencedStays
  <2> QED BY <1>2, <2>1, <2>2, NextKeeps
<1> QED BY <1>1, <1>2, PTL DEF Spec

\* Until a pipeline is unfenced, one turn at a time runs for the WorkItem, across pause, resume,
\* cancel, a new pipeline and restarts: the AgentRun claim of START_AGENT_RUN fences it while the
\* daemon lives, and the lease after a crash.
THEOREM OneTurnAtATime == Spec => [](unfenced = {} => OneTurn)
<1>1. Typed /\ EInv => OneTurn
  BY DEF EInv, OnlyTurn, OneTurn
<1> QED BY <1>1, ExecutionInvariant, PTL

\* Until then the lease is with the attempt whose child runs, never with another while a turn runs,
\* and with nobody who will not give it back.
THEOREM LeaseIsWithTheTurn == Spec => [](unfenced = {} => LeaseFollowsTurn)
<1>1. ASSUME Typed, EInv, Waits
      PROVE  LeaseFollowsTurn
  <2>1. DriverHoldsLease
    <3>1. SUFFICES ASSUME NEW d \in DispatchId, exec[d].pc # "IDLE", exec[d].sid \in child,
                          AttemptOf(d) \in InWorkspace
                   PROVE  workspace.holder = AttemptOf(d)
      BY DEF DriverHoldsLease, Executing
    <3>2. exec[d].sid \in SessionId /\ exec[d].sid # 0
      <4>1. child \subseteq SessionId
        BY <1>1 DEF Typed, TypeOK
      <4>2. exec[d].sid \in SessionId
        BY <3>1, <4>1
      <4> QED BY <4>2 DEF SessionId
    <3>3. session[exec[d].sid].status = "RUNNING"
      BY <1>1, <3>1, <3>2 DEF EInv, ChildFits
    <3>4. session[exec[d].sid].attempt = AttemptOf(d) /\ workspace.status # "ORPHANED"
      BY <1>1, <3>1, <3>2 DEF EInv, LoopsFit, LoopFits
    <3> QED BY <1>1, <3>1, <3>2, <3>3, <3>4 DEF EInv, LeaseFits
  <2>2. LeaseIsNeverForeign
    <3>1. SUFFICES ASSUME NEW s \in SessionId, session[s].status = "RUNNING", workspace.holder # 0
                   PROVE  workspace.holder = session[s].attempt
      BY DEF LeaseIsNeverForeign
    <3>2. session[s].attempt \in InWorkspace
      BY <1>1, <3>1 DEF Waits
    <3> QED BY <1>1, <3>1, <3>2 DEF EInv, LeaseFits
  <2>3. LeaseIsOwned
    BY <1>1 DEF EInv, LeaseFits, LeaseIsOwned, HasTurn, Turns, SurvivesCrash
  <2> QED BY <2>1, <2>2, <2>3 DEF LeaseFollowsTurn
<1> QED BY <1>1, ExecutionInvariant, PTL

\* Until then a running attempt has its AgentRun and is driven, and an AgentRun is worked for as long
\* as it is held: nothing keeps the WorkItem from ever running again.
THEOREM ClaimsAreWorked == Spec => [](unfenced = {} => ClaimIsWorked)
<1>1. ASSUME Typed, EInv
      PROVE  ClaimIsWorked
  <2>1. RunningIsDriven
    <3>1. SUFFICES ASSUME daemon = "UP", NEW a \in AttemptId, attempt[a] = "RUNNING", ~HasTurn(a)
                   PROVE  a \in agentRun /\ \E d \in Pending(a) \cap Executing : ~exec[d].revoked
      BY <1>1 DEF RunningIsDriven, HasTurn, Turns, EInv, PendingFits
    <3>2. PICK d \in DispatchId : Acting(d) /\ AttemptOf(d) = a
      BY <1>1, <3>1 DEF EInv, Driven
    <3>3. dispatch[d].status = "PENDING"
      BY <1>1, <3>1, <3>2 DEF EInv, LoopsFit, ActingFits
    <3>4. dispatch[d] = [attempt |-> a, status |-> "PENDING"]
      BY <1>1, <3>2, <3>3 DEF Typed, TypeOK, DispatchRow, AttemptOf
    <3> QED BY <1>1, <3>1, <3>2, <3>4 DEF EInv, PendingFits, Pending, Executing, Acting
  <2>2. ClaimHasCause
    BY <1>1 DEF EInv, ClaimsFit, ClaimHasCause, HasTurn, Turns
  <2> QED BY <2>1, <2>2 DEF ClaimIsWorked
<1> QED BY <1>1, ExecutionInvariant, PTL

\* Until then no child that a loop drives, and none whose process id is known unless the owner
\* cancelled it, is about without a session that says so.
THEOREM ChildrenAreFenced == Spec => [](unfenced = {} => ChildIsFenced)
<1>1. ASSUME Typed, EInv
      PROVE  ChildIsFenced
  <2>1. DrivenChildIsFenced
    BY <1>1 DEF EInv, ChildFits, DrivenChildIsFenced, LiveSessions, Executing
  <2>2. OnlyCancelUnfences
    BY <1>1 DEF EInv, ChildFits, OnlyCancelUnfences
  <2> QED BY <2>1, <2>2 DEF ChildIsFenced
<1> QED BY <1>1, ExecutionInvariant, PTL

\* Until then no session is opened under a withdrawn dispatch: a loop reads its attempt long before,
\* and what the owner did since must reach it.
THEOREM NoTurnWithoutDispatch == Spec => [][unfenced' = {} => \A d \in DispatchId : TurnFollowsDispatch(d)]_vars
<1>1. ASSUME Typed, EInv, [Next]_vars, unfenced' = {}, NEW d \in DispatchId, exec[d].sid = 0, exec'[d].sid # 0
      PROVE  dispatch[d].status = "PENDING"
  <2>1. Typed'
    BY <1>1, NextKept, LinesKept, KeptTyped
  <2>2. PICK e \in DispatchId : Loop(e)
    BY <1>1, OnlyLoopsOpen
  <2>3. \/ Fades(e) \/ Moves(e) \/ (\E s \in SessionId : Opens(e, s)) \/ Spawns(e) \/ TakesAnother(e)
        \/ Abandons(e) \/ (Parks(e) /\ (Rests(AttemptOf(e)) \/ Passes(AttemptOf(e))))
    BY <1>1, <2>2, LoopSteps
  <2>4. e = d
    BY <1>1, <2>3 DEF Alone, Fades, Moves, Opens, Spawns, TakesAnother, Abandons, Parks
  <2>5. exec'[d].pc \in InTurn
    BY <1>1, <2>1 DEF Typed, LoopsNamed
  <2>6. exec'[d].pc # "IDLE" /\ exec'[d].pc # "CONTEXT"
    BY <2>5 DEF InTurn
  <2>7. Acting(d) /\ exec[d].pc = "CONTEXT"
    BY <1>1, <2>3, <2>4, <2>6 DEF Fades, Moves, Opens, Spawns, TakesAnother, Abandons, Parks
  <2>8. exec[d].pc \notin InTurn
    BY <2>7 DEF InTurn
  <2> QED BY <1>1, <2>7, <2>8 DEF EInv, LoopsFit, ActingFits
<1>2. Typed /\ (unfenced = {} => EInv /\ Waits) /\ [Next]_vars =>
        (unfenced' = {} => \A d \in DispatchId : TurnFollowsDispatch(d))
  BY <1>1, UnfencedStays DEF TurnFollowsDispatch
<1> QED BY <1>2, ExecutionInvariant, PTL DEF Spec
=============================================================================
