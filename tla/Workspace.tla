----------------------------- MODULE Workspace -----------------------------
\* The directory a stage works in: cutting a Git worktree for a WorkItem or
\* sharing the Project's own directory, recording it, and the lease of one
\* writer at a time (session-loop.ts createWorkspace .. releaseWorkspaceLease,
\* worktree.ts, the workspace commands of persistence-sqlite).  Git and the
\* owner's hands on the repository are between every two of these steps.
EXTENDS Naturals

CONSTANTS
    Attempt,        \* StageAttempts
    Item,           \* WorkItems of one Project
    ItemOf(_),      \* the WorkItem of an attempt
    Strategy,       \* the Project's workspace strategies: "ISOLATED", "SHARED"
    Nobody,         \* no lease holder
    MaxFaults       \* a bound: crashes, and removals of a worktree that fail

VARIABLES
    repository,     \* the Project's path: "NONE" (no repository), "MIDWAY" (in a rebase) or "CLEAN"
    disk,           \* of a WorkItem: its worktree's directory, Git's record of it, its branch
    row,            \* work_item_workspaces
    attempt,        \* the StageAttempt and whether its AgentRun is RUNNING
    loop,           \* what runStageAttempt is doing for the attempt
    phase,          \* of the daemon: "UP", "DOWN", or "STUCK": it cannot start
    faults

vars == <<repository, disk, row, attempt, loop, phase, faults>>

NoRow == [status |-> "NONE", strategy |-> "ISOLATED", holder |-> Nobody, verified |-> FALSE]
Clear == [directory |-> "NONE", known |-> FALSE, branch |-> "NONE"]
Idle == [at |-> "IDLE", cut |-> "ISOLATED", place |-> "NONE", leased |-> FALSE, revoked |-> FALSE]

TypeOK ==
    /\ repository \in {"NONE", "MIDWAY", "CLEAN"}
    /\ disk \in [Item -> [directory : {"NONE", "WORKTREE"}, known : BOOLEAN,
                          branch : {"NONE", "BASE", "WORK"}]]
    /\ row \in [Item -> [status : {"NONE", "READY", "ORPHANED"}, strategy : {"ISOLATED", "SHARED"},
                         holder : Attempt \cup {Nobody}, verified : BOOLEAN]]
    /\ attempt \in [Attempt -> [status : {"NEW", "QUEUED", "RUNNING", "WAITING", "OVER"},
                                writes : BOOLEAN, running : BOOLEAN]]
    /\ loop \in [Attempt -> [at : {"IDLE", "CHECKING", "INSPECTING", "SNAPSHOT", "ADDING", "RECORDING",
                                   "REMOVING", "DELETING", "SESSION"},
                             cut : {"ISOLATED", "SHARED"}, place : {"NONE", "ISOLATED", "SHARED"},
                             leased : BOOLEAN, revoked : BOOLEAN]]
    /\ phase \in {"UP", "DOWN", "STUCK"} /\ faults \in 0 .. MaxFaults

\* Another WorkItem's workspace holds the one directory of the Project.
SharedAuthorityHeld(i) ==
    \E j \in Item \ {i} : row[j].strategy = "SHARED" /\ (row[j].holder # Nobody \/ row[j].verified)

\* Mutant: without looking at the other WorkItems.
Claimable_OwnRowOnly(i, r) == r.holder = Nobody /\ ~r.verified

\* What the claiming UPDATE's WHERE clause asks of a workspace.
Claimable(i, r) ==
    /\ r.holder = Nobody /\ ~r.verified
    /\ r.strategy = "SHARED" => ~SharedAuthorityHeld(i)

Claimed(r, a) == [r EXCEPT !.holder = a]
Released(r, a) == IF r.holder = a THEN [r EXCEPT !.holder = Nobody] ELSE r

Executable(a) == attempt[a].status \in {"QUEUED", "RUNNING"}
NeedsLease(a, cut) == cut = "ISOLATED" \/ attempt[a].writes

Goes(a, at) == loop' = [loop EXCEPT ![a].at = at]
Leaves(a) == loop' = [loop EXCEPT ![a] = Idle]

\* finishActiveAgentRun: a run that is still RUNNING ends, and with it the lease of its attempt.
Finish(a, status) ==
    /\ attempt' = [attempt EXCEPT ![a].status = status, ![a].running = FALSE]
    /\ row' = IF attempt[a].running THEN [row EXCEPT ![ItemOf(a)] = Released(@, a)] ELSE row

----
(* The worker starts an attempt's loop *)

Enters(a) ==
    loop' = [loop EXCEPT ![a] =
        [Idle EXCEPT !.at = IF row[ItemOf(a)].status = "NONE" THEN "INSPECTING" ELSE "CHECKING"]]

\* START_AGENT_RUN: one AgentRun per WorkItem, and the lease of a workspace that is recorded, for
\* every stage that runs in it.
StartAgentRun(a) ==
    LET i == ItemOf(a) IN
    /\ phase = "UP" /\ loop[a].at = "IDLE" /\ attempt[a].status = "QUEUED"
    /\ \A b \in Attempt : ItemOf(b) = i => ~attempt[b].running
    /\ row[i].status \in {"NONE", "READY"}
    /\ row[i].status = "READY" => Claimable(i, row[i])
    /\ attempt' = [attempt EXCEPT ![a].status = "RUNNING", ![a].running = TRUE]
    /\ row' = IF row[i].status = "READY" THEN [row EXCEPT ![i] = Claimed(@, a)] ELSE row
    /\ Enters(a)
    /\ UNCHANGED <<repository, disk, phase, faults>>

\* A dispatch that was postponed is taken up again.
TakeUp(a) ==
    /\ phase = "UP" /\ loop[a].at = "IDLE" /\ attempt[a].status = "RUNNING" /\ attempt[a].running
    /\ Enters(a)
    /\ UNCHANGED <<repository, disk, row, attempt, phase, faults>>

\* A refusal reaches the owner as a question through APPLY_PROVIDER_OUTCOME, which a finished attempt
\* refuses.
Refuse(a) ==
    /\ IF attempt[a].status = "RUNNING" THEN Finish(a, "WAITING") ELSE UNCHANGED <<attempt, row>>
    /\ Leaves(a)

\* START_PROVIDER_SESSION, in the directory the loop has; a revoked loop stops before it.
Proceed(a, place) ==
    IF attempt[a].status = "RUNNING" /\ attempt[a].running /\ ~loop[a].revoked
    THEN loop' = [loop EXCEPT ![a].at = "SESSION", ![a].place = place,
                              ![a].leased = place # "NONE" /\ row'[ItemOf(a)].holder = a]
    ELSE Leaves(a)

\* acquireWorkspaceLease: what this attempt holds is not taken again, and a workspace another holds,
\* or a revoked loop, postpones the dispatch.
Lease(a, rows) ==
    LET i == ItemOf(a) IN
    IF ~NeedsLease(a, rows[i].strategy) \/ rows[i].holder = a
    THEN row' = rows /\ Proceed(a, rows[i].strategy)
    ELSE IF ~loop[a].revoked /\ Executable(a) /\ Claimable(i, rows[i])
    THEN row' = [rows EXCEPT ![i] = Claimed(@, a)] /\ Proceed(a, rows[i].strategy)
    ELSE row' = rows /\ Leaves(a)

\* worktreeStillUsable.  The row was read before, and one that changed meanwhile postpones too.
CheckWorkspace(a) ==
    LET i == ItemOf(a)
        usable == /\ row[i].status = "READY"
                  /\ IF row[i].strategy = "SHARED" THEN repository # "NONE" ELSE disk[i].directory = "WORKTREE"
    IN
    /\ loop[a].at = "CHECKING"
    /\ \/ usable /\ Lease(a, row) /\ UNCHANGED attempt
       \/ usable /\ row[i].holder # a /\ Leaves(a) /\ UNCHANGED <<row, attempt>>
       \/ ~usable /\ Refuse(a)
    /\ UNCHANGED <<repository, disk, phase, faults>>

----
(* createWorkspace *)

\* inspectRepository and decideProvisionWorkspace.  Without a repository a stage that writes, or QA, is
\* refused and another runs on its context alone.  The Project's setting is read after.
Inspect(a) ==
    /\ loop[a].at = "INSPECTING"
    /\ \/ /\ repository = "NONE" /\ ~attempt[a].writes
          /\ row' = row /\ Proceed(a, "NONE") /\ UNCHANGED attempt
       \/ repository # "CLEAN" /\ Refuse(a)
       \/ /\ repository = "CLEAN"
          /\ \E strategy \in Strategy : loop' = [loop EXCEPT ![a].at = "SNAPSHOT", ![a].cut = strategy]
          /\ UNCHANGED <<row, attempt>>
    /\ UNCHANGED <<repository, disk, phase, faults>>

\* Mutant: the lease for whoever cut it.
Created_Leased(a, cut, leased) ==
    [row EXCEPT ![ItemOf(a)] = [status |-> "READY", strategy |-> cut, verified |-> FALSE, holder |-> a]]

\* CREATE_WORK_ITEM_WORKSPACE: one workspace per WorkItem, and at once the lease of an attempt whose
\* AgentRun is RUNNING.
Created(a, cut, leased) ==
    [row EXCEPT ![ItemOf(a)] = [status |-> "READY", strategy |-> cut, verified |-> FALSE,
                                holder |-> IF leased THEN a ELSE Nobody]]

\* createCarryInSnapshot; a shared directory is recorded as it stands, without a lease.
Snapshot(a) ==
    /\ loop[a].at = "SNAPSHOT"
    /\ \/ repository = "NONE" /\ Refuse(a)
       \/ repository # "NONE" /\ loop[a].cut = "ISOLATED" /\ Goes(a, "ADDING") /\ UNCHANGED <<row, attempt>>
       \/ /\ repository # "NONE" /\ loop[a].cut = "SHARED"
          /\ IF row[ItemOf(a)].status # "NONE" THEN Refuse(a)
             ELSE Lease(a, Created(a, "SHARED", FALSE)) /\ UNCHANGED attempt
    /\ UNCHANGED <<repository, disk, phase, faults>>

\* addWorktree: the branch must be neither checked out nor there, the path must be free, and then Git
\* itself may refuse.
Add(a) ==
    LET i == ItemOf(a)
        free == ~disk[i].known /\ disk[i].branch = "NONE" /\ disk[i].directory = "NONE"
    IN
    /\ loop[a].at = "ADDING"
    /\ \/ /\ free /\ repository # "NONE"
          /\ disk' = [disk EXCEPT ![i] = [directory |-> "WORKTREE", known |-> TRUE, branch |-> "BASE"]]
          /\ Goes(a, "RECORDING") /\ UNCHANGED <<row, attempt>>
       \/ Refuse(a) /\ UNCHANGED disk
    /\ UNCHANGED <<repository, phase, faults>>

\* Mutant: what could not be recorded stays on disk.
Record_Abandoned(a) ==
    /\ loop[a].at = "RECORDING"
    /\ \/ /\ row[ItemOf(a)].status = "NONE"
          /\ Lease(a, Created(a, "ISOLATED", attempt[a].running)) /\ UNCHANGED attempt
       \/ Refuse(a)
    /\ UNCHANGED <<repository, disk, phase, faults>>

\* The row is written after the directory exists; when it cannot be, the directory is taken back.
Record(a) ==
    /\ loop[a].at = "RECORDING"
    /\ \/ /\ row[ItemOf(a)].status = "NONE"
          /\ Lease(a, Created(a, "ISOLATED", attempt[a].running))
       \/ Goes(a, "REMOVING") /\ UNCHANGED row
    /\ UNCHANGED <<repository, disk, attempt, phase, faults>>

\* removeWorktree; a removal that fails leaves everything, and ends in the same question.
Remove(a) ==
    /\ loop[a].at = "REMOVING"
    /\ disk' = [disk EXCEPT ![ItemOf(a)].directory = "NONE", ![ItemOf(a)].known = FALSE]
    /\ Goes(a, "DELETING")
    /\ UNCHANGED <<repository, row, attempt, phase, faults>>

RemoveFails(a) ==
    /\ loop[a].at = "REMOVING" /\ faults < MaxFaults
    /\ Refuse(a)
    /\ faults' = faults + 1
    /\ UNCHANGED <<repository, disk, phase>>

\* Mutant: the branch goes wherever it is.
DeleteBranch_Moved(a) ==
    /\ loop[a].at = "DELETING"
    /\ disk' = [disk EXCEPT ![ItemOf(a)].branch = "NONE"]
    /\ Refuse(a)
    /\ UNCHANGED <<repository, phase, faults>>

\* deleteBranchIfUnmoved: the branch goes only while it is where it was created.
DeleteBranch(a) ==
    /\ loop[a].at = "DELETING"
    /\ disk' = [disk EXCEPT ![ItemOf(a)].branch = IF @ = "BASE" THEN "NONE" ELSE @]
    /\ Refuse(a)
    /\ UNCHANGED <<repository, phase, faults>>

----
(* The session, and what ends it *)

\* The provider's turn ends and its outcome is applied; END_PROVIDER_SESSION after a revocation
\* finishes the AgentRun that was kept for the turn.
EndSession(a) ==
    LET i == ItemOf(a) IN
    /\ loop[a].at = "SESSION"
    /\ Finish(a, IF attempt[a].status = "RUNNING" THEN "OVER" ELSE attempt[a].status)
    /\ Leaves(a)
    /\ \/ UNCHANGED disk
       \/ /\ loop[a].place = "ISOLATED" /\ attempt[a].writes /\ disk[i].directory = "WORKTREE"
          /\ disk' = [disk EXCEPT ![i].branch = "WORK"]
    /\ UNCHANGED <<repository, phase, faults>>

\* A command of the loop fails: the loop unwinds and gives back the lease it took, unless it was
\* revoked; the attempt stays RUNNING, for TakeUp.
Unwind(a) ==
    /\ loop[a].at = "SESSION" /\ attempt[a].status = "RUNNING" /\ ~loop[a].revoked
    /\ row' = IF loop[a].leased THEN [row EXCEPT ![ItemOf(a)] = Released(@, a)] ELSE row
    /\ Leaves(a)
    /\ UNCHANGED <<repository, disk, attempt, phase, faults>>

\* PAUSE_PIPELINE, CANCEL_PIPELINE: the loop is revoked, and the AgentRun kept while a turn runs.
Revoke(a) ==
    /\ phase = "UP" /\ Executable(a)
    /\ loop' = [loop EXCEPT ![a].revoked = loop[a].at # "IDLE"]
    /\ IF loop[a].at = "SESSION"
       THEN attempt' = [attempt EXCEPT ![a].status = "OVER"] /\ UNCHANGED row
       ELSE Finish(a, "OVER")
    /\ UNCHANGED <<repository, disk, phase, faults>>

\* A stage is queued: the first time, or by an answer, a resume or a retry, once no run of its is left.
Queue(a) ==
    /\ phase = "UP" /\ attempt[a].status \in {"NEW", "WAITING", "OVER"} /\ ~attempt[a].running
    /\ loop[a].at = "IDLE"
    /\ \A b \in Attempt : ItemOf(b) = ItemOf(a) => ~Executable(b)
    /\ \E writes \in BOOLEAN :
          attempt' = [attempt EXCEPT ![a] = [status |-> "QUEUED", writes |-> writes, running |-> FALSE]]
    /\ UNCHANGED <<repository, disk, row, loop, phase, faults>>

\* A verification run reserves the workspace under the same conditions, and gives it back.
Verify(i) ==
    /\ phase = "UP" /\ row[i].status = "READY"
    /\ row' = [row EXCEPT ![i].verified = ~@]
    /\ ~row[i].verified => Claimable(i, row[i])
    /\ UNCHANGED <<repository, disk, attempt, loop, phase, faults>>

----
(* The owner's repository, and the daemon's end and start *)

OwnerChangesRepository ==
    /\ repository' \in {"NONE", "MIDWAY", "CLEAN"} \ {repository}
    /\ UNCHANGED <<disk, row, attempt, loop, phase, faults>>

\* The directory is deleted under Git, or made again; a commit is made on the branch.
OwnerMeddles(i) ==
    /\ \/ disk[i].directory # "NONE" /\ disk' = [disk EXCEPT ![i].directory = "NONE"]
       \/ /\ row[i].status # "NONE" /\ repository # "NONE"
          /\ disk[i].directory = "NONE" /\ disk[i].branch # "NONE"
          /\ disk' = [disk EXCEPT ![i].directory = "WORKTREE", ![i].known = TRUE]
       \/ disk[i].branch = "BASE" /\ disk' = [disk EXCEPT ![i].branch = "WORK"]
    /\ UNCHANGED <<repository, row, attempt, loop, phase, faults>>

Crash ==
    /\ phase = "UP" /\ faults < MaxFaults
    /\ phase' = "DOWN" /\ faults' = faults + 1
    /\ loop' = [a \in Attempt |-> Idle]
    /\ UNCHANGED <<repository, disk, row, attempt>>

\* What Git says of a READY workspace; nothing when the repository cannot be asked.
Gone(i) ==
    /\ row[i].status = "READY" /\ repository # "NONE" /\ row[i].strategy = "ISOLATED"
    /\ ~disk[i].known \/ disk[i].directory = "NONE"

\* RECONCILE_WORKFLOWS: the interrupted runs end, their leases are free, and a workspace whose
\* directory is gone is ORPHANED for good.
Reconciled ==
    /\ attempt' = [a \in Attempt |->
          [attempt[a] EXCEPT !.running = FALSE, !.status = IF @ = "RUNNING" THEN "OVER" ELSE @]]
    /\ row' = [i \in Item |-> [row[i] EXCEPT !.holder = Nobody, !.verified = FALSE,
                                            !.status = IF Gone(i) THEN "ORPHANED" ELSE @]]

\* A tool call that ran a recipe is reconciled first, while verifications still hold their workspaces:
\* one of those whose directory is gone stops the start.
Restart ==
    /\ phase \in {"DOWN", "STUCK"}
    /\ \/ /\ \E i \in Item : Gone(i) /\ row[i].verified
          /\ phase' = "STUCK" /\ UNCHANGED <<row, attempt>>
       \/ phase = "DOWN" /\ phase' = "UP" /\ Reconciled
       \/ /\ phase = "STUCK" /\ ~\E i \in Item : Gone(i) /\ row[i].verified
          /\ phase' = "UP" /\ Reconciled
    /\ UNCHANGED <<repository, disk, loop, faults>>

----

Init ==
    /\ repository = "CLEAN"
    /\ disk = [i \in Item |-> Clear] /\ row = [i \in Item |-> NoRow]
    /\ attempt = [a \in Attempt |-> [status |-> "NEW", writes |-> FALSE, running |-> FALSE]]
    /\ loop = [a \in Attempt |-> Idle] /\ phase = "UP" /\ faults = 0

Prepare(a) == CheckWorkspace(a) \/ Inspect(a) \/ Snapshot(a) \/ Add(a) \/ Record(a)
Rollback(a) == Remove(a) \/ RemoveFails(a) \/ DeleteBranch(a)

Next ==
    \/ \E a \in Attempt : Queue(a) \/ StartAgentRun(a) \/ TakeUp(a) \/ Prepare(a) \/ Rollback(a)
                          \/ EndSession(a) \/ Unwind(a) \/ Revoke(a)
    \/ \E i \in Item : Verify(i) \/ OwnerMeddles(i)
    \/ OwnerChangesRepository \/ Crash \/ Restart

Spec == Init /\ [][Next]_vars

----

Directory(a) == <<loop[a].place, IF loop[a].place = "SHARED" THEN Nobody ELSE ItemOf(a)>>
HasDirectory(a) == loop[a].at = "SESSION" /\ loop[a].place # "NONE"
VerifiedIn(a) == \E i \in Item :
    row[i].verified /\ (i = ItemOf(a) \/ (loop[a].place = "SHARED" /\ row[i].strategy = "SHARED"))

\* A session that writes is the only one to write in its directory, whether that is its WorkItem's
\* worktree or the one all WorkItems of the Project share, and no verification reads it meanwhile.
WriterIsAlone ==
    \A a \in Attempt : HasDirectory(a) /\ attempt[a].writes =>
        /\ ~VerifiedIn(a)
        /\ \A b \in Attempt \ {a} :
              HasDirectory(b) /\ attempt[b].writes => Directory(a) # Directory(b)

\* A lease is held for an AgentRun that is RUNNING: nothing else would give it back.
LeaseIsWorked ==
    \A i \in Item : row[i].holder # Nobody => ItemOf(row[i].holder) = i /\ attempt[row[i].holder].running

\* A worktree, or the fresh branch of one, that no row names is being recorded or taken back; only a
\* fault leaves one behind, and then every later attempt is refused.
CutIsRecorded ==
    \A i \in Item : row[i].status = "NONE" /\ (disk[i].directory # "NONE" \/ disk[i].branch = "BASE") =>
        \/ faults > 0
        \/ \E a \in Attempt : ItemOf(a) = i /\ loop[a].at \in {"RECORDING", "REMOVING", "DELETING"}

\* A branch that somebody's work is on is never deleted.
KeepsWork == \A i \in Item : disk[i].branch = "WORK" => disk'[i].branch = "WORK"
=============================================================================
