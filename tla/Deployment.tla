----------------------------- MODULE Deployment -----------------------------
\* Guided deployment: the owner adopts a plan and approves it, the runner
\* (apps/daemon/src/deployment-runner.ts) starts the deployment and lets
\* the GitHub CLI dispatch a workflow, and the owner has the remote run
\* observed.  The CLI and GitHub go on when the daemon dies.
\*
\* A commit stands for its tree and for the evidence of the releases of
\* that tree.  HEAD and the remote branch move at any time, so each look at
\* them is a choice: what the model keeps is which looks must agree.
EXTENDS Integers, Sequences, FiniteSets

CONSTANTS
    Deployment,
    Commit,
    Observer,    \* the observe requests that can be pending at once
    MaxRuns,     \* bound: workflow runs on the remote
    MaxVersion,  \* bound: no observation starts at this version
    StoreFails   \* a write of the runner may throw

VARIABLES
    row,     \* the deployments table
    task,    \* the runner's pending run of a deployment
    asked,   \* the pending observe calls
    gh,      \* the `gh workflow run` process of a deployment
    remote,  \* the workflow runs on GitHub, in order
    phase    \* of the daemon

vars == <<row, task, asked, gh, remote, phase>>

Kind     == {"PREVIEW", "PRODUCTION"}
Status   == {"NONE", "PENDING_APPROVAL", "APPROVED", "RUNNING", "SUCCEEDED", "FAILED", "UNKNOWN"}
NoRun    == 0
Outcome  == {"NONE", "DISPATCHED", "REFUSED", "UNKNOWN"}
Version  == 0 .. MaxVersion + 2
Row      == [status : Status, kind : Kind, commit : Commit, run : 0 .. MaxRuns, version : Version]
Task     == [at : {"IDLE", "PREFLIGHT", "WAITING", "ANSWERED"}, version : Version,
             outcome : Outcome, run : 0 .. MaxRuns]
Result   == {"RUNNING", "SUCCEEDED", "FAILED", "UNKNOWN"}
Asked    == [of : Deployment, version : Version, run : 1 .. MaxRuns, result : Result]
RemoteRun == [by : Deployment, kind : Kind, commit : Commit, result : {"RUNNING", "SUCCESS", "FAILURE"}]

NoRow  == [status |-> "NONE", kind |-> "PREVIEW", commit |-> "NONE", run |-> NoRun, version |-> 0]
Idle   == [at |-> "IDLE", version |-> 0, outcome |-> "NONE", run |-> NoRun]
Nobody == [of |-> "NONE", version |-> 0, run |-> NoRun, result |-> "UNKNOWN"]

TypeOK ==
    /\ row \in [Deployment -> Row \cup {NoRow}] /\ task \in [Deployment -> Task]
    /\ asked \in [Observer -> Asked \cup {Nobody}]
    /\ gh \in [Deployment -> {"NONE", "ALIVE", "ACCEPTED"}]
    /\ \A r \in DOMAIN remote : remote[r] \in RemoteRun
    /\ phase \in {"UP", "DOWN", "BOOTING"}

Init ==
    /\ row = [d \in Deployment |-> NoRow]
    /\ task = [d \in Deployment |-> Idle]
    /\ asked = [o \in Observer |-> Nobody] /\ remote = << >>
    /\ gh = [d \in Deployment |-> "NONE"]
    /\ phase = "UP"

----
(* The owner *)

Put(d, status) == [row[d] EXCEPT !.status = status, !.version = @ + 1]

\* readQualifyingPreviewDeployment.
Promoted(commit) ==
    \E d \in Deployment : row[d].kind = "PREVIEW" /\ row[d].commit = commit /\ row[d].status = "SUCCEEDED"

\* previewGuidedDeployment: of the current release, that of commit.
Previewable(kind, commit) == kind = "PRODUCTION" => Promoted(commit)

Adopted(kind, commit) ==
    [status |-> "PENDING_APPROVAL", kind |-> kind, commit |-> commit, run |-> NoRun, version |-> 1]
Adopt(d, kind, commit) ==
    /\ phase = "UP" /\ row[d].status = "NONE" /\ Previewable(kind, commit)
    /\ row' = [row EXCEPT ![d] = Adopted(kind, commit)]
    /\ UNCHANGED <<task, asked, gh, remote, phase>>

\* The wake that follows in the handler is Wake: the daemon may die between the two.
Approvable(d) == row[d].status = "PENDING_APPROVAL"
Approve(d) ==
    /\ phase = "UP" /\ Approvable(d)
    /\ row' = [row EXCEPT ![d] = Put(d, "APPROVED")]
    /\ UNCHANGED <<task, asked, gh, remote, phase>>

----
(* The runner: run *)

\* START_DEPLOYMENT is written before anything else is done.
Startable(d) == row[d].status = "APPROVED"
Wake(d) ==
    /\ phase = "UP" /\ task[d].at = "IDLE" /\ Startable(d)
    /\ row' = [row EXCEPT ![d] = Put(d, "RUNNING")]
    /\ task' = [task EXCEPT ![d] = [Idle EXCEPT !.at = "PREFLIGHT", !.version = row[d].version + 1]]
    /\ UNCHANGED <<asked, gh, remote, phase>>

Answer(d, outcome, run) ==
    task' = [task EXCEPT ![d].at = "ANSWERED", ![d].outcome = outcome, ![d].run = run]

Refuse(d) ==
    /\ task[d].at = "PREFLIGHT"
    /\ \E outcome \in {"REFUSED", "UNKNOWN"} : Answer(d, outcome, NoRun)   \* UNKNOWN: the preflight threw
    /\ UNCHANGED <<row, asked, gh, remote, phase>>

\* The preflight finds the approved target once more.
Dispatch(d) ==
    /\ task[d].at = "PREFLIGHT"
    /\ task' = [task EXCEPT ![d].at = "WAITING"]
    /\ gh' = [gh EXCEPT ![d] = "ALIVE"]
    /\ UNCHANGED <<row, asked, remote, phase>>

\* runGh ends by itself: one exact URL on its output names the run, all else is UNKNOWN.
RunOf(d) == {r \in DOMAIN remote : remote[r].by = d}
Exit(d) ==
    /\ gh[d] # "NONE"
    /\ gh' = [gh EXCEPT ![d] = "NONE"]
    /\ IF task[d].at # "WAITING" THEN UNCHANGED task
       ELSE \/ Answer(d, "UNKNOWN", NoRun)
            \/ gh[d] = "ACCEPTED" /\ \E r \in RunOf(d) : Answer(d, "DISPATCHED", r)
    /\ UNCHANGED <<row, asked, remote, phase>>

\* The deadline, the output limit or an abort: the process is killed, and may resist.
GiveUp(d) ==
    /\ task[d].at = "WAITING"
    /\ Answer(d, "UNKNOWN", NoRun)
    /\ gh' \in {gh, [gh EXCEPT ![d] = "NONE"]}
    /\ UNCHANGED <<row, asked, remote, phase>>

\* What run reads again after the dispatch.
Current(d) ==
    row[d].status = "RUNNING" /\ row[d].run = NoRun /\ row[d].version = task[d].version

\* decideRecordDeploymentDispatch.
DispatchVerdict(d) ==
    CASE task[d].outcome = "DISPATCHED" -> [Put(d, "RUNNING") EXCEPT !.run = task[d].run]
      [] task[d].outcome = "REFUSED" -> Put(d, "FAILED")
      [] task[d].outcome = "UNKNOWN" -> Put(d, "UNKNOWN")

\* RECORD_DEPLOYMENT_DISPATCH; when it throws, recordUnknown is tried, which may throw too.
Record(d) ==
    /\ task[d].at = "ANSWERED"
    /\ task' = [task EXCEPT ![d] = Idle]
    /\ IF ~Current(d) THEN UNCHANGED row
       ELSE \/ row' = [row EXCEPT ![d] = DispatchVerdict(d)]
            \/ StoreFails /\ row' \in {row, [row EXCEPT ![d] = Put(d, "UNKNOWN")]}
    /\ UNCHANGED <<asked, gh, remote, phase>>

----
(* The runner: observe *)

Observable(d) == row[d].status \in {"RUNNING", "UNKNOWN"} /\ row[d].run # NoRun

\* githubActionsObservationFromOutput: a run of another commit says nothing about this deployment.
Seen(r, commit) ==
    IF remote[r].commit # commit THEN "UNKNOWN"
    ELSE IF remote[r].result = "RUNNING" THEN "RUNNING"
    ELSE IF remote[r].result = "SUCCESS" THEN "SUCCEEDED" ELSE "FAILED"

\* The question and GitHub's answer to it (UNKNOWN when `gh run view` fails) are one step: only
\* the moment the answer is recorded can be late, for a row that changed in between drops it.
Observe(o, d) ==
    /\ phase = "UP" /\ asked[o] = Nobody /\ Observable(d) /\ row[d].version < MaxVersion
    /\ \E result \in {Seen(row[d].run, row[d].commit), "UNKNOWN"} :
          asked' = [asked EXCEPT ![o] = [of |-> d, version |-> row[d].version, run |-> row[d].run,
                                        result |-> result]]
    /\ UNCHANGED <<row, task, gh, remote, phase>>

\* The answer to an old question is dropped.
StillAsked(o) ==
    /\ row[asked[o].of].version = asked[o].version /\ row[asked[o].of].run = asked[o].run
    /\ Observable(asked[o].of)

RecordObservation(o) ==
    /\ asked[o] # Nobody
    /\ row' = IF StillAsked(o) THEN [row EXCEPT ![asked[o].of] = Put(asked[o].of, asked[o].result)] ELSE row
    /\ asked' = [asked EXCEPT ![o] = Nobody]
    /\ UNCHANGED <<task, gh, remote, phase>>

----
(* The daemon dies and starts; recover runs before the HTTP server listens *)

Crash ==
    /\ phase # "DOWN" /\ phase' = "DOWN"
    /\ task' = [d \in Deployment |-> Idle] /\ asked' = [o \in Observer |-> Nobody]
    /\ UNCHANGED <<row, gh, remote>>

Start ==
    /\ phase = "DOWN" /\ phase' = "BOOTING"
    /\ UNCHANGED <<row, task, asked, gh, remote>>

\* recover asks for nothing again.
Reconciled_Approved(d) == Put(d, "APPROVED")
Reconciled(d) == Put(d, "UNKNOWN")
Interrupted == {d \in Deployment : row[d].status = "RUNNING"}
Reconcile(d) ==
    /\ phase = "BOOTING" /\ d \in Interrupted
    /\ row' = [row EXCEPT ![d] = Reconciled(d)]
    /\ UNCHANGED <<task, asked, gh, remote, phase>>

Listen ==
    /\ phase = "BOOTING" /\ Interrupted = {} /\ phase' = "UP"
    /\ UNCHANGED <<row, task, asked, gh, remote>>

----
(* GitHub and the repository *)

\* The workflow runs on the branch as it is when GitHub accepts the dispatch.
Accept(d, commit) ==
    /\ gh[d] = "ALIVE" /\ Len(remote) < MaxRuns
    /\ gh' = [gh EXCEPT ![d] = "ACCEPTED"]
    /\ remote' = Append(remote, [by |-> d, kind |-> row[d].kind, commit |-> commit, result |-> "RUNNING"])
    /\ UNCHANGED <<row, task, asked, phase>>

RemoteEnds(r) ==
    /\ remote[r].result = "RUNNING"
    /\ \E result \in {"SUCCESS", "FAILURE"} : remote' = [remote EXCEPT ![r].result = result]
    /\ UNCHANGED <<row, task, asked, gh, phase>>

----

RunnerStep(d) == Refuse(d) \/ Dispatch(d) \/ Exit(d) \/ GiveUp(d) \/ Record(d)

Next ==
    \/ \E d \in Deployment :
          \/ \E c \in Commit, kind \in Kind : Adopt(d, kind, c)
          \/ Approve(d) \/ Wake(d) \/ RunnerStep(d) \/ Reconcile(d)
          \/ \E c \in Commit : Accept(d, c)
          \/ \E o \in Observer : Observe(o, d)
    \/ \E o \in Observer : RecordObservation(o)
    \/ Crash \/ Start \/ Listen
    \/ \E r \in DOMAIN remote : RemoteEnds(r)

Spec == Init /\ [][Next]_vars

----
(* Properties *)

\* The dispatch of a deployment as an effect of the abstract specification.
ClaimOf(d) ==
    IF row[d].run # NoRun THEN "CONFIRMED"
    ELSE CASE row[d].status = "RUNNING" -> "CLAIMED"
           [] row[d].status = "FAILED" -> "REFUSED"
           [] row[d].status = "UNKNOWN" -> "UNKNOWN"
           [] OTHER -> "UNCLAIMED"
Times(d) == Cardinality(RunOf(d))

Promise == INSTANCE AtMostOnce WITH
             Effect <- Deployment,
             claim <- [d \in Deployment |-> ClaimOf(d)],
             done <- [d \in Deployment |-> Times(d)]

\* The dispatch of a deployment implements AtMostOnce: it is on disk before the CLI starts, GitHub
\* gets it at most once over crashes and restarts, FAILED without a run means it never got it and
\* never will, and a deployment left UNKNOWN is not dispatched again.
DispatchedAtMostOnce == Promise!Spec
Dispatches == [Promise!Next]_(Promise!vars)

\* A deployment that succeeded has a run of its own that ran the approved commit to success, and a
\* production run of it follows a preview of the same commit that ran to success.
SucceededAsApproved ==
    \A d \in Deployment :
        row[d].status = "SUCCEEDED" =>
            /\ LET r == remote[row[d].run] IN
                  r.by = d /\ r.kind = row[d].kind /\ r.commit = row[d].commit /\ r.result = "SUCCESS"
            /\ row[d].kind = "PRODUCTION" =>
                  \E r \in 1 .. row[d].run - 1 :
                      remote[r].kind = "PREVIEW" /\ remote[r].commit = row[d].commit /\ remote[r].result = "SUCCESS"

\* A conclusion stands: no late answer, restart or retry changes a deployment that succeeded or
\* failed, and the run a deployment names stays the same.
Stands ==
    \A d \in Deployment :
        /\ row[d].status \in {"SUCCEEDED", "FAILED"} => row'[d] = row[d]
        /\ row[d].run # NoRun => row'[d].run = row[d].run
ConclusionStands == [][Stands]_vars
=============================================================================
