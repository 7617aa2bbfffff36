------------------------------ MODULE BrowserQA ------------------------------
\* The evidence of Browser QA: what a run measured is written to a
\* quarantine, moved to its final directory with a marker, recorded in the
\* store, and only then confirmed by removing the marker.  A start takes up
\* what a crash left between these steps, and then removes what has expired.
\* The runs are those of one QA stage; whether it may run, and what a verdict
\* leads to, is in module Corrections.
EXTENDS Integers

CONSTANTS
    Run,     \* AgentRuns of the QA stage; each reserves one QARun
    File,    \* attachments a run can make
    MaxTree  \* bound: trees that implementation hands over

VARIABLES
    agent,     \* the AgentRuns
    row,       \* the QARuns: status, tested tree and the attachments that are recorded
    runner,    \* BrowserQAStageRunner.run of each
    dir,       \* the directory of each run
    tree,      \* of the last successful implementation
    closed,    \* the WorkItem was closed and its evidence has expired
    retained,  \* retention records of attachments
    unlinked,  \* history: attachments that retention removed
    lost,      \* history: attachments that the disk lost
    phase      \* of the daemon

vars == <<agent, row, runner, dir, tree, closed, retained, unlinked, lost, phase>>
database == <<agent, row, closed, retained>>

Ended == {"PASSED", "FAILED", "ERROR"}
Row == [status : {"NONE", "RUNNING"} \cup Ended, tree : 0 .. MaxTree, refs : SUBSET File]
\* finalized: of the driver's execution, its directory was moved.
Runner == [at : {"IDLE", "DRIVING", "MEASURED", "COMPLETING", "CONFIRMING"},
           verdict : Ended, finalized : BOOLEAN]
\* marked: the attachments that the marker names.  ASIDE: recovery moved it back to the quarantine.
Directory == [at : {"NONE", "QUARANTINE", "FINAL", "ASIDE"}, marker : BOOLEAN,
              marked : SUBSET File, files : SUBSET File]
NoDirectory == [at |-> "NONE", marker |-> FALSE, marked |-> {}, files |-> {}]
Idle == [at |-> "IDLE", verdict |-> "ERROR", finalized |-> FALSE]

TypeOK ==
    /\ agent \in [Run -> {"NONE", "RUNNING", "ENDED"}]
    /\ row \in [Run -> Row] /\ runner \in [Run -> Runner] /\ dir \in [Run -> Directory]
    /\ tree \in 1 .. MaxTree /\ closed \in BOOLEAN
    /\ retained \subseteq Run \X File /\ unlinked \subseteq Run \X File /\ lost \subseteq Run \X File
    /\ phase \in {"UP", "DOWN", "RECOVERING", "CLEANING"}

Init ==
    /\ agent = [r \in Run |-> "NONE"]
    /\ row = [r \in Run |-> [status |-> "NONE", tree |-> 0, refs |-> {}]]
    /\ runner = [r \in Run |-> Idle] /\ dir = [r \in Run |-> NoDirectory]
    /\ tree = 1 /\ closed = FALSE /\ retained = {} /\ unlinked = {} /\ lost = {} /\ phase = "UP"

----
(* Around the runner: the worker, the owner and implementation *)

Resting == \A r \in Run : agent[r] # "RUNNING"

\* One AgentRun of the stage at a time, also while a driver that was paused still works.
Claim(r) ==
    /\ phase = "UP" /\ ~closed /\ Resting /\ agent[r] = "NONE"
    /\ agent' = [agent EXCEPT ![r] = "RUNNING"]
    /\ UNCHANGED <<row, runner, dir, tree, closed, retained, unlinked, lost, phase>>

\* The owner pauses or cancels, or the session ends after a measurement that passed.
EndAgentRun(r) ==
    /\ phase = "UP" /\ agent[r] = "RUNNING"
    /\ agent' = [agent EXCEPT ![r] = "ENDED"]
    /\ UNCHANGED <<row, runner, dir, tree, closed, retained, unlinked, lost, phase>>

Fix ==
    /\ phase = "UP" /\ Resting /\ ~closed /\ tree < MaxTree /\ tree' = tree + 1
    /\ UNCHANGED <<database, runner, dir, unlinked, lost, phase>>

\* The WorkItem ends, and thirty days pass; no driver takes that long.
Close ==
    /\ phase = "UP" /\ Resting /\ \A r \in Run : runner[r].at = "IDLE"
    /\ ~closed /\ closed' = TRUE
    /\ UNCHANGED <<agent, row, runner, dir, tree, retained, unlinked, lost, phase>>

\* The disk loses one attachment, or someone deletes it.
Lose(r, f) ==
    /\ lost = {} /\ dir[r].at = "FINAL" /\ f \in dir[r].files
    /\ dir' = [dir EXCEPT ![r].files = @ \ {f}] /\ lost' = {<<r, f>>}
    /\ UNCHANGED <<database, runner, tree, unlinked, phase>>

----
(* BrowserQAStageRunner.run *)

\* A measurement of this tree that passed is used again.
Reusable == \E r \in Run : row[r].status = "PASSED" /\ row[r].tree = tree

\* RESERVE_QA_RUN
Reserve(r) ==
    /\ phase = "UP" /\ agent[r] = "RUNNING" /\ row[r].status = "NONE" /\ ~Reusable
    /\ row' = [row EXCEPT ![r].status = "RUNNING", ![r].tree = tree]
    /\ runner' = [runner EXCEPT ![r].at = "DRIVING"]
    /\ UNCHANGED <<agent, dir, tree, closed, retained, unlinked, lost, phase>>

\* The driver works in a quarantine of the run and returns what it measured.
Drive(r) ==
    /\ runner[r].at = "DRIVING"
    /\ \E verdict \in {"PASSED", "FAILED"}, files \in SUBSET File :
          /\ runner' = [runner EXCEPT ![r].at = "MEASURED", ![r].verdict = verdict]
          /\ dir' = [dir EXCEPT ![r].at = "QUARANTINE", ![r].files = files]
    /\ UNCHANGED <<database, tree, unlinked, lost, phase>>

\* It may also fail before it made the quarantine, or after; what dispose does not get to stays.
DriverFails(r) ==
    /\ runner[r].at = "DRIVING"
    /\ runner' = [runner EXCEPT ![r].at = "COMPLETING"]
    /\ \E at \in {"NONE", "QUARANTINE"} : dir' = [dir EXCEPT ![r].at = at]
    /\ UNCHANGED <<database, tree, unlinked, lost, phase>>

\* stageBrowserQAArtifacts: the marker is written and the directory moved.
Moved(r) == [dir EXCEPT ![r].at = "FINAL", ![r].marker = TRUE, ![r].marked = dir[r].files]

Finalize(r) ==
    /\ runner[r].at = "MEASURED"
    /\ runner' = [runner EXCEPT ![r].at = "COMPLETING", ![r].finalized = TRUE] /\ dir' = Moved(r)
    /\ UNCHANGED <<database, tree, unlinked, lost, phase>>

\* An attachment changed, or the storage did: then dispose removes the directory, unless it was
\* moved already or cannot be removed.
FinalizeFails(r) ==
    /\ runner[r].at = "MEASURED"
    /\ runner' = [runner EXCEPT ![r].at = "COMPLETING", ![r].verdict = "ERROR"]
    /\ dir' \in {dir, Moved(r), [dir EXCEPT ![r] = NoDirectory]}
    /\ UNCHANGED <<database, tree, unlinked, lost, phase>>

\* COMPLETE_QA_RUN: it throws when the run was interrupted meanwhile.  A measurement that passed
\* leaves its AgentRun to go on.
Completable(r) == agent[r] = "RUNNING" /\ row[r].status = "RUNNING" /\ row[r].tree = tree
Complete(r) ==
    /\ runner[r].at = "COMPLETING"
    /\ IF Completable(r)
       THEN /\ row' = [row EXCEPT ![r].status = runner[r].verdict,
                                  ![r].refs = IF runner[r].verdict = "ERROR" THEN {} ELSE dir[r].marked]
            /\ agent' = [agent EXCEPT ![r] = IF runner[r].verdict = "PASSED" THEN @ ELSE "ENDED"]
            /\ runner' = [runner EXCEPT ![r] = IF @.finalized THEN [@ EXCEPT !.at = "CONFIRMING"] ELSE Idle]
       ELSE runner' = [runner EXCEPT ![r] = Idle] /\ UNCHANGED <<row, agent>>
    /\ UNCHANGED <<dir, tree, closed, retained, unlinked, lost, phase>>

\* Without its marker the directory counts as evidence.  A failure leaves it to the next start.
Confirm(r) ==
    /\ runner[r].at = "CONFIRMING" /\ runner' = [runner EXCEPT ![r] = Idle]
    /\ dir' \in {dir, [dir EXCEPT ![r].marker = FALSE]}
    /\ UNCHANGED <<database, tree, unlinked, lost, phase>>

----
(* Crash and start *)

Crash ==
    /\ phase # "DOWN" /\ phase' = "DOWN" /\ runner' = [r \in Run |-> Idle]
    /\ UNCHANGED <<database, dir, tree, unlinked, lost>>

Start ==
    /\ phase = "DOWN" /\ phase' = "RECOVERING"
    /\ UNCHANGED <<database, runner, dir, tree, unlinked, lost>>

\* markerWasCommitted and markerFilesMatch
Committed_Always(r) == TRUE
Committed(r) == row[r].status \in Ended /\ row[r].refs = dir[r].marked
Matches(r) == dir[r].marked \subseteq dir[r].files

\* recoverBrowserQAArtifacts, one directory; one that it cannot move is left pending.
Recover(r) ==
    /\ phase = "RECOVERING" /\ dir[r].at = "FINAL" /\ dir[r].marker
    /\ dir' = [dir EXCEPT ![r] = IF Committed(r) /\ Matches(r) THEN [@ EXCEPT !.marker = FALSE]
                                 ELSE [@ EXCEPT !.at = "ASIDE"]]
    /\ UNCHANGED <<database, runner, tree, unlinked, lost, phase>>

\* selectExpiredQAAttachmentRefs
Expired(r, f) == closed /\ f \in row[r].refs /\ <<r, f>> \notin retained
Pending(r) == dir[r].at = "FINAL" /\ dir[r].marker
Present(r, f) == dir[r].at = "FINAL" /\ f \in dir[r].files

\* deleteExpiredBrowserQAArtifacts; the directory goes with its last file.
Unlink(r, f) ==
    /\ phase = "CLEANING" /\ Expired(r, f) /\ ~Pending(r) /\ Present(r, f)
    /\ dir' = [dir EXCEPT ![r] = IF @.files = {f} THEN NoDirectory ELSE [@ EXCEPT !.files = dir[r].files \ {f}]]
    /\ unlinked' = unlinked \cup {<<r, f>>}
    /\ UNCHANGED <<database, runner, tree, lost, phase>>

\* RECORD_QA_ATTACHMENT_RETENTION, DELETED or ALREADY_ABSENT.
RecordRetention(r, f) ==
    /\ phase = "CLEANING" /\ Expired(r, f) /\ ~Pending(r) /\ ~Present(r, f)
    /\ retained' = retained \cup {<<r, f>>}
    /\ UNCHANGED <<agent, row, closed, runner, dir, tree, unlinked, lost, phase>>

\* First what a crash left, then what has expired; failures stop neither.
CleanUp ==
    /\ phase = "RECOVERING" /\ phase' = "CLEANING"
    /\ UNCHANGED <<database, runner, dir, tree, unlinked, lost>>

\* RECONCILE_WORKFLOWS interrupts the AgentRuns, and the QARuns stay as they are; then the daemon listens.
Listen ==
    /\ phase = "CLEANING" /\ phase' = "UP"
    /\ agent' = [r \in Run |-> IF agent[r] = "RUNNING" THEN "ENDED" ELSE agent[r]]
    /\ UNCHANGED <<row, runner, dir, tree, closed, retained, unlinked, lost>>

----

Next ==
    \/ \E r \in Run :
          \/ Claim(r) \/ EndAgentRun(r) \/ Reserve(r) \/ Drive(r) \/ DriverFails(r)
          \/ Finalize(r) \/ FinalizeFails(r) \/ Complete(r) \/ Confirm(r) \/ Recover(r)
          \/ \E f \in File : Lose(r, f) \/ Unlink(r, f) \/ RecordRetention(r, f)
    \/ Fix \/ Close \/ Crash \/ Start \/ CleanUp \/ Listen

Spec == Init /\ [][Next]_vars

----
(* Properties *)

\* openVerifiedBrowserQAArtifact
Opens(r, f) == f \in row[r].refs /\ Present(r, f)

\* Whatever a crash, an interruption or a failing step leaves behind, each attachment of a recorded
\* verdict can be opened until retention removed it, which it does only after the WorkItem was
\* closed; unless the disk lost one of its run's.
EvidenceIsKept ==
    /\ \A r \in Run : \A f \in row[r].refs :
          Opens(r, f) \/ <<r, f>> \in unlinked \/ \E g \in File : <<r, g>> \in lost
    /\ unlinked \cup retained # {} => closed

\* A directory that counts as evidence is the evidence of a recorded run, and of nothing else.
ConfirmedIsRecorded ==
    \A r \in Run : dir[r].at = "FINAL" /\ ~dir[r].marker =>
        row[r].status \in Ended /\ dir[r].files \subseteq row[r].refs

\* What retention recorded as removed cannot be opened.
RetainedIsGone == \A r \in Run, f \in File : <<r, f>> \in retained => ~Opens(r, f)

\* The same of the bytes themselves.  A directory that recovery moved aside keeps them:
\* README.md, "What the code does not keep".
RetainedIsDeleted == \A r \in Run, f \in File : <<r, f>> \in retained => f \notin dir[r].files
=============================================================================
