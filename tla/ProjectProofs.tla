---------------------------- MODULE ProjectProofs ---------------------------
\* Theorems about what a Project orders, delivers and releases: deployments,
\* WorkItems, the demo, measurements, releases, the evidence of Browser QA,
\* the owner's acceptance, the readiness runs, the publication of a
\* constitution, the scaffold of a new Project, the provider's allowance, and
\* the owner's session.
\* Each section takes one module, for every value of its constants; names
\* that two modules share have the module's instance as a prefix.
EXTENDS Deployment, FiniteSetTheorems, Integers, Sequences, FiniteSets, SequenceTheorems, WellFoundedInduction, NaturalsInduction, TLAPS

RowType  == [status : Status, kind : Kind, commit : Commit \cup {"NONE"}, run : Nat, version : Nat]
TaskType == [at : {"IDLE", "PREFLIGHT", "WAITING", "ANSWERED"}, version : Nat, outcome : Outcome, run : Nat]
AskType  == [of : Deployment, version : Nat, run : Nat, result : Result]

\* The types without the bounds, which are the model's.
Typed ==
    /\ row \in [Deployment -> RowType] /\ task \in [Deployment -> TaskType]
    /\ asked \in [Observer -> AskType \cup {Nobody}]
    /\ gh \in [Deployment -> {"NONE", "ALIVE", "ACCEPTED"}]
    /\ remote \in Seq(RemoteRun)
    /\ phase \in {"UP", "DOWN", "BOOTING"}

----
(* The inductive invariant *)

Untried(d) == gh[d] = "NONE" /\ RunOf(d) = {}

\* Before START_DEPLOYMENT nothing was tried, and the runner works for a deployment only as long as
\* the daemon is up; nobody else writes its row meanwhile.
ClaimFits(d) ==
    /\ row[d].status \in {"NONE", "PENDING_APPROVAL", "APPROVED"} =>
          task[d].at = "IDLE" /\ row[d].run = NoRun /\ Untried(d)
    /\ task[d].at # "IDLE" => phase = "UP" /\ Current(d)

\* What the runner knows of the CLI and of GitHub.
TaskFits(d) ==
    /\ task[d].at = "PREFLIGHT" => Untried(d)
    /\ task[d].at = "ANSWERED" /\ task[d].outcome = "REFUSED" => Untried(d)
    /\ task[d].at = "ANSWERED" => task[d].outcome # "NONE"
    /\ task[d].at = "ANSWERED" /\ task[d].outcome = "DISPATCHED" => gh[d] = "NONE" /\ task[d].run \in RunOf(d)
    /\ gh[d] = "ALIVE" => RunOf(d) = {} /\ row[d].run = NoRun
    /\ \A r, q \in RunOf(d) : r = q

\* What is written about a deployment is true.
RowFits(d) ==
    /\ row[d].run # NoRun => gh[d] = "NONE" /\ row[d].run \in RunOf(d)
    /\ row[d].run = NoRun /\ row[d].status = "FAILED" => Untried(d)
    /\ row[d].status = "SUCCEEDED" => row[d].run # NoRun

\* A remote run is its deployment's, and a production run follows a preview that succeeded.
PreviewedIn(runs, commit, r) ==
    \E q \in 1 .. r : runs[q].kind = "PREVIEW" /\ runs[q].commit = commit /\ runs[q].result = "SUCCESS"
Previewed(commit, r) == PreviewedIn(remote, commit, r)
RunsFit(d) ==
    /\ \A r \in RunOf(d) :
          /\ remote[r].kind = row[d].kind
          /\ row[d].kind = "PRODUCTION" => Previewed(row[d].commit, r - 1)
    /\ row[d].status # "NONE" /\ row[d].kind = "PRODUCTION" => Previewed(row[d].commit, Len(remote))

Ran(d) == remote[row[d].run].commit = row[d].commit /\ remote[row[d].run].result = "SUCCESS"
OutcomeFits(d) == row[d].status = "SUCCEEDED" => Ran(d)

\* GitHub's answer is about the run of the row, and success does not go away.
AnswerFits(o) ==
    asked[o] # Nobody =>
        /\ row[asked[o].of].run = asked[o].run /\ asked[o].run # NoRun
        /\ asked[o].result = "SUCCEEDED" => Ran(asked[o].of)

DInv ==
    /\ Typed
    /\ \A d \in Deployment : ClaimFits(d) /\ TaskFits(d) /\ RowFits(d) /\ RunsFit(d) /\ OutcomeFits(d)
    /\ \A o \in Observer : AnswerFits(o)

DParts(d) == ClaimFits(d) /\ TaskFits(d) /\ RowFits(d) /\ RunsFit(d) /\ OutcomeFits(d)

----
(* Types *)

LEMMA InitHolds == Init => DInv
<1> SUFFICES ASSUME Init PROVE DInv
  OBVIOUS
<1>1. NoRow \in RowType /\ Idle \in TaskType
  BY DEF NoRow, Idle, RowType, TaskType, Status, Kind, NoRun, Outcome
<1>2. remote = << >> /\ remote \in Seq(RemoteRun) /\ \A d \in Deployment : RunOf(d) = {}
  BY DEF Init, RunOf
<1>3. Typed
  BY <1>1, <1>2 DEF Init, Typed
<1>4. ASSUME NEW d \in Deployment PROVE DParts(d)
  <2>1. /\ row[d].status = "NONE" /\ row[d].run = NoRun /\ row[d].kind = "PREVIEW"
        /\ task[d].at = "IDLE" /\ gh[d] = "NONE" /\ RunOf(d) = {}
    BY <1>2 DEF Init, NoRow, Idle
  <2>2. ClaimFits(d) /\ TaskFits(d) /\ RowFits(d)
    BY <2>1 DEF ClaimFits, TaskFits, RowFits, Untried
  <2>3. RunsFit(d) /\ OutcomeFits(d)
    BY <2>1 DEF RunsFit, OutcomeFits
  <2> QED BY <2>2, <2>3 DEF DParts
<1>5. ASSUME NEW o \in Observer PROVE AnswerFits(o)
  BY DEF Init, AnswerFits
<1> QED BY <1>3, <1>4, <1>5 DEF DInv, DParts

\* What the runner's operators write has the type of its table.
LEMMA PutType ==
    ASSUME Typed, NEW d \in Deployment, NEW status \in Status
    PROVE  /\ Put(d, status) \in RowType
           /\ Put(d, status).status = status /\ Put(d, status).run = row[d].run
           /\ Put(d, status).kind = row[d].kind /\ Put(d, status).commit = row[d].commit
<1> DEFINE next == row[d].version + 1
<1>1. row[d] \in RowType
  BY DEF Typed
<1>2. Put(d, status) = [row[d] EXCEPT !.status = status, !.version = next]
  BY DEF Put
<1>3. next \in Nat
  BY <1>1 DEF RowType
<1> HIDE DEF next
<1> QED BY <1>1, <1>2, <1>3 DEF RowType

----
(* Steps of one deployment: no other row, process or remote run changes *)

OnlyOf(d) ==
    /\ row' \in [Deployment -> RowType] /\ task' \in [Deployment -> TaskType]
    /\ gh' \in [Deployment -> {"NONE", "ALIVE", "ACCEPTED"}]
    /\ \A e \in Deployment \ {d} : row'[e] = row[e] /\ task'[e] = task[e] /\ gh'[e] = gh[e]
    /\ remote' = remote /\ phase' = phase
    /\ \A o \in Observer : asked'[o] \in {asked[o], Nobody}
    /\ asked' \in [Observer -> AskType \cup {Nobody}]
    /\ row[d].run # NoRun => row'[d].run = row[d].run /\ row'[d].commit = row[d].commit

LEMMA OthersKeep ==
    ASSUME DInv, NEW d \in Deployment, OnlyOf(d), DParts(d)'
    PROVE  DInv'
<1>1. Typed'
  BY DEF DInv, Typed, OnlyOf
<1>2. ASSUME NEW e \in Deployment, e # d PROVE DParts(e)'
  <2>1. row'[e] = row[e] /\ task'[e] = task[e] /\ gh'[e] = gh[e] /\ remote' = remote /\ phase' = phase
    BY <1>2 DEF OnlyOf
  <2>2. ClaimFits(e) /\ TaskFits(e) /\ RowFits(e) /\ RunsFit(e) /\ OutcomeFits(e)
    BY DEF DInv
  <2>3. RunOf(e)' = RunOf(e)
    BY <2>1 DEF RunOf
  <2>4. ClaimFits(e)' /\ TaskFits(e)' /\ RowFits(e)'
    BY <2>1, <2>2, <2>3 DEF ClaimFits, TaskFits, RowFits, Untried, Current
  <2>5. RunsFit(e)' /\ OutcomeFits(e)'
    BY <2>1, <2>2, <2>3 DEF RunsFit, OutcomeFits, Previewed, PreviewedIn, Ran
  <2> QED BY <2>4, <2>5 DEF DParts
<1>3. ASSUME NEW o \in Observer PROVE AnswerFits(o)'
  <2>1. SUFFICES ASSUME asked[o] # Nobody, asked'[o] = asked[o]
                 PROVE  LET e == asked[o].of IN
                        /\ row'[e].run = asked[o].run /\ asked[o].run # NoRun
                        /\ asked[o].result = "SUCCEEDED" =>
                              remote[row'[e].run].commit = row'[e].commit
                              /\ remote[row'[e].run].result = "SUCCESS"
    BY DEF AnswerFits, OnlyOf, Ran
  <2>2. asked[o].of \in Deployment
    BY <2>1 DEF DInv, Typed, AskType
  <2>3. AnswerFits(o)
    BY DEF DInv
  <2>4. row'[asked[o].of].run = row[asked[o].of].run /\ row'[asked[o].of].commit = row[asked[o].of].commit
    BY <2>1, <2>2, <2>3 DEF OnlyOf, AnswerFits
  <2> QED BY <2>1, <2>3, <2>4 DEF AnswerFits, Ran
<1> QED BY <1>1, <1>2, <1>3 DEF DInv, DParts

\* Adopt writes the first row of a deployment, and a production row only after its preview.
LEMMA AdoptStep ==
    ASSUME DInv, NEW d \in Deployment, NEW kind \in Kind, NEW c \in Commit, Adopt(d, kind, c)
    PROVE  DInv'
<1> DEFINE new == Adopted(kind, c)
<1>1. new \in RowType /\ new.status = "PENDING_APPROVAL" /\ new.run = NoRun /\ new.kind = kind /\ new.commit = c
  BY DEF Adopted, RowType, Status, NoRun
<1>2. row' = [row EXCEPT ![d] = new] /\ UNCHANGED <<task, asked, gh, remote, phase>>
  BY DEF Adopt
<1> HIDE DEF new
<1>3. row'[d] = new /\ ClaimFits(d) /\ TaskFits(d) /\ row[d].status = "NONE"
  BY <1>2 DEF Adopt, DInv, Typed
<1>4. task[d].at = "IDLE" /\ row[d].run = NoRun /\ gh[d] = "NONE" /\ RunOf(d) = {} /\ RunOf(d)' = {}
  BY <1>2, <1>3 DEF ClaimFits, Untried, RunOf
<1>5. OnlyOf(d)
  BY <1>1, <1>2, <1>4 DEF OnlyOf, DInv, Typed
<1>6. ClaimFits(d)' /\ TaskFits(d)' /\ RowFits(d)' /\ OutcomeFits(d)'
  BY <1>1, <1>2, <1>3, <1>4 DEF ClaimFits, TaskFits, RowFits, OutcomeFits, Untried
<1>7. kind = "PRODUCTION" => Previewed(c, Len(remote))
  <2>1. SUFFICES ASSUME kind = "PRODUCTION" PROVE Previewed(c, Len(remote))
    OBVIOUS
  <2>2. PICK e \in Deployment : row[e].kind = "PREVIEW" /\ row[e].commit = c /\ row[e].status = "SUCCEEDED"
    BY <2>1 DEF Adopt, Previewable, Promoted
  <2>3. row[e].run \in RunOf(e) /\ RunsFit(e) /\ Ran(e)
    BY <2>2 DEF DInv, RowFits, OutcomeFits
  <2>4. row[e].run \in 1 .. Len(remote)
    BY <2>3 DEF RunOf, DInv, Typed
  <2> QED BY <2>2, <2>3, <2>4 DEF Previewed, PreviewedIn, RunsFit, Ran
<1>8. RunsFit(d)'
  BY <1>1, <1>2, <1>3, <1>4, <1>7 DEF RunsFit, Previewed, PreviewedIn
<1> QED BY <1>5, <1>6, <1>8, OthersKeep DEF DParts

\* A step of the row that keeps kind, commit and run.
RowMoves(d, status) ==
    /\ row' = [row EXCEPT ![d] = Put(d, status)]
    /\ row[d].status # "NONE" /\ status \in Status \ {"NONE"}
    /\ status = "SUCCEEDED" => Ran(d)
    /\ remote' = remote

LEMMA RowMovesKeeps ==
    ASSUME DInv, NEW d \in Deployment, NEW status, RowMoves(d, status)
    PROVE  /\ row' \in [Deployment -> RowType] /\ row'[d].run = row[d].run /\ row'[d].commit = row[d].commit
           /\ row'[d].status = status /\ row'[d].version = row[d].version + 1
           /\ \A e \in Deployment \ {d} : row'[e] = row[e]
           /\ RunsFit(d)' /\ OutcomeFits(d)' /\ RunOf(d)' = RunOf(d)
<1>1. Typed /\ RunsFit(d)
  BY DEF DInv
<1>2. Put(d, status) \in RowType
  BY <1>1, PutType DEF RowMoves
<1>3. row'[d] = Put(d, status)
  BY <1>1 DEF RowMoves, Typed
<1>4. /\ row'[d].run = row[d].run /\ row'[d].commit = row[d].commit /\ row'[d].kind = row[d].kind
      /\ row'[d].status = status
  BY <1>1, <1>3, PutType DEF RowMoves
<1>5. row'[d].version = row[d].version + 1
  <2>1. row[d] \in RowType
    BY <1>1 DEF Typed
  <2> QED BY <1>3, <2>1 DEF Put, RowType
<1>6. RunOf(d)' = RunOf(d)
  BY DEF RunOf, RowMoves
<1>7. RunsFit(d)' /\ OutcomeFits(d)'
  BY <1>1, <1>4, <1>6 DEF RunsFit, OutcomeFits, Previewed, Ran, RowMoves
<1>8. row' \in [Deployment -> RowType] /\ \A e \in Deployment \ {d} : row'[e] = row[e]
  BY <1>1, <1>2 DEF RowMoves, Typed
<1> QED BY <1>4, <1>5, <1>6, <1>7, <1>8

LEMMA ApproveStep ==
    ASSUME DInv, NEW d \in Deployment, Approve(d)
    PROVE  DInv'
<1>1. RowMoves(d, "APPROVED") /\ UNCHANGED <<task, asked, gh, remote, phase>> /\ row[d].status = "PENDING_APPROVAL"
  BY DEF Approve, Approvable, RowMoves, Status
<1>2. /\ row' \in [Deployment -> RowType] /\ row'[d].run = row[d].run /\ row'[d].commit = row[d].commit
      /\ row'[d].status = "APPROVED" /\ \A e \in Deployment \ {d} : row'[e] = row[e]
      /\ RunsFit(d)' /\ OutcomeFits(d)' /\ RunOf(d)' = RunOf(d)
  BY <1>1, RowMovesKeeps
<1>3. OnlyOf(d)
  BY <1>1, <1>2 DEF OnlyOf, DInv, Typed
<1>4. ClaimFits(d) /\ TaskFits(d)
  BY DEF DInv
<1>5. ClaimFits(d)' /\ TaskFits(d)' /\ RowFits(d)'
  BY <1>1, <1>2, <1>4 DEF ClaimFits, TaskFits, RowFits, Untried
<1> QED BY <1>2, <1>3, <1>5, OthersKeep DEF DParts

LEMMA WakeStep ==
    ASSUME DInv, NEW d \in Deployment, Wake(d)
    PROVE  DInv'
<1> DEFINE new == [Idle EXCEPT !.at = "PREFLIGHT", !.version = row[d].version + 1]
<1>1. RowMoves(d, "RUNNING") /\ UNCHANGED <<asked, gh, remote, phase>> /\ row[d].status = "APPROVED" /\ phase = "UP"
  BY DEF Wake, Startable, RowMoves, Status
<1>2. /\ row' \in [Deployment -> RowType] /\ row'[d].run = row[d].run /\ row'[d].commit = row[d].commit
      /\ row'[d].status = "RUNNING" /\ row'[d].version = row[d].version + 1
      /\ \A e \in Deployment \ {d} : row'[e] = row[e]
      /\ RunsFit(d)' /\ OutcomeFits(d)' /\ RunOf(d)' = RunOf(d)
  BY <1>1, RowMovesKeeps
<1>3. task' = [task EXCEPT ![d] = new]
  BY DEF Wake
<1>4. new \in TaskType /\ new.at = "PREFLIGHT" /\ new.version = row[d].version + 1
  <2> DEFINE next == row[d].version + 1
  <2>1. row[d] \in RowType
    BY DEF DInv, Typed
  <2>2. next \in Nat
    BY <2>1 DEF RowType
  <2> HIDE DEF next
  <2>3. [Idle EXCEPT !.at = "PREFLIGHT", !.version = next] \in TaskType
    BY <2>2 DEF Idle, TaskType, NoRun, Outcome
  <2>4. [Idle EXCEPT !.at = "PREFLIGHT", !.version = next].version = next
    BY DEF Idle
  <2>5. new.at = "PREFLIGHT"
    BY DEF Idle
  <2> QED BY <2>3, <2>4, <2>5 DEF next
<1> HIDE DEF new
<1>5. task'[d] = new
  BY <1>3 DEF DInv, Typed
<1>6. OnlyOf(d)
  BY <1>1, <1>2, <1>3, <1>4 DEF OnlyOf, DInv, Typed
<1>7. ClaimFits(d) /\ TaskFits(d)
  BY DEF DInv
<1>8. ClaimFits(d)' /\ TaskFits(d)' /\ RowFits(d)'
  BY <1>1, <1>2, <1>4, <1>5, <1>7 DEF ClaimFits, TaskFits, RowFits, Untried, Current
<1> QED BY <1>2, <1>6, <1>8, OthersKeep DEF DParts

----
(* The runner and the CLI *)

\* A step of the runner that leaves the row alone.
TaskMoves(d) ==
    /\ UNCHANGED <<row, asked, remote, phase>>
    /\ task' \in [Deployment -> TaskType]
    /\ gh' \in [Deployment -> {"NONE", "ALIVE", "ACCEPTED"}]
    /\ \A e \in Deployment \ {d} : task'[e] = task[e] /\ gh'[e] = gh[e]

LEMMA TaskMovesKeeps ==
    ASSUME DInv, NEW d \in Deployment, TaskMoves(d),
           task'[d].at = "IDLE" \/ (task[d].at # "IDLE" /\ task'[d].version = task[d].version),
           task[d].at = "IDLE" => gh'[d] \in {gh[d], "NONE"},
           row[d].run # NoRun \/ row[d].status = "FAILED" => gh'[d] = "NONE",
           TaskFits(d)'
    PROVE  DInv'
<1>1. ClaimFits(d) /\ RowFits(d) /\ RunsFit(d) /\ OutcomeFits(d) /\ Typed
  BY DEF DInv
<1>2. OnlyOf(d)
  BY <1>1 DEF OnlyOf, TaskMoves, Typed
<1>3. RunOf(d)' = RunOf(d)
  BY DEF TaskMoves, RunOf
<1>4. ClaimFits(d)'
  BY <1>1, <1>3 DEF ClaimFits, Untried, Current, TaskMoves
<1>5. RowFits(d)'
  BY <1>1, <1>3 DEF RowFits, Untried, TaskMoves
<1>6. RunsFit(d)' /\ OutcomeFits(d)'
  BY <1>1, <1>3 DEF RunsFit, OutcomeFits, Previewed, Ran, TaskMoves
<1> QED BY <1>2, <1>4, <1>5, <1>6, OthersKeep DEF DParts

\* What Answer leaves in the runner's memory.
LEMMA AnswerType ==
    ASSUME Typed, NEW d \in Deployment, NEW outcome \in Outcome, NEW run \in Nat, Answer(d, outcome, run)
    PROVE  /\ task' \in [Deployment -> TaskType] /\ \A e \in Deployment \ {d} : task'[e] = task[e]
           /\ task'[d].at = "ANSWERED" /\ task'[d].outcome = outcome /\ task'[d].run = run
           /\ task'[d].version = task[d].version
<1> DEFINE new == [task[d] EXCEPT !.at = "ANSWERED", !.outcome = outcome, !.run = run]
<1>1. task[d] \in TaskType /\ task \in [Deployment -> TaskType]
  BY DEF Typed
<1>2. task' = [task EXCEPT ![d] = new]
  BY DEF Answer
<1>3. new \in TaskType
  BY <1>1 DEF TaskType
<1>4. /\ new.at = "ANSWERED" /\ new.outcome = outcome /\ new.run = run /\ new.version = task[d].version
  BY <1>1 DEF TaskType
<1> HIDE DEF new
<1> QED BY <1>1, <1>2, <1>3, <1>4

LEMMA RefuseStep ==
    ASSUME DInv, NEW d \in Deployment, Refuse(d)
    PROVE  DInv'
<1>1. PICK outcome \in {"REFUSED", "UNKNOWN"} : Answer(d, outcome, NoRun)
  BY DEF Refuse
<1>2. /\ task' \in [Deployment -> TaskType] /\ \A e \in Deployment \ {d} : task'[e] = task[e]
      /\ task'[d].at = "ANSWERED" /\ task'[d].outcome = outcome /\ task'[d].version = task[d].version
  <2>1. outcome \in Outcome /\ NoRun \in Nat
    BY DEF Outcome, NoRun
  <2> QED BY <1>1, <2>1, AnswerType DEF DInv
<1>3. task[d].at = "PREFLIGHT" /\ UNCHANGED <<row, asked, gh, remote, phase>>
  BY DEF Refuse
<1>4. TaskMoves(d)
  BY <1>2, <1>3 DEF TaskMoves, DInv, Typed
<1>5. TaskFits(d) /\ RowFits(d)
  BY DEF DInv
<1>6. gh[d] = "NONE" /\ RunOf(d) = {} /\ RunOf(d)' = {}
  BY <1>3, <1>5 DEF TaskFits, Untried, RunOf
<1>7. TaskFits(d)'
  BY <1>2, <1>3, <1>6 DEF TaskFits, Untried
<1> QED BY <1>2, <1>3, <1>4, <1>6, <1>7, TaskMovesKeeps

LEMMA DispatchStep ==
    ASSUME DInv, NEW d \in Deployment, Dispatch(d)
    PROVE  DInv'
<1> DEFINE new == [task[d] EXCEPT !.at = "WAITING"]
<1>1. task[d] \in TaskType /\ Typed /\ TaskFits(d) /\ RowFits(d) /\ ClaimFits(d)
  BY DEF DInv, Typed
<1>2. /\ task' = [task EXCEPT ![d] = new] /\ gh' = [gh EXCEPT ![d] = "ALIVE"]
      /\ task[d].at = "PREFLIGHT" /\ UNCHANGED <<row, asked, remote, phase>>
  BY DEF Dispatch
<1>3. new \in TaskType /\ new.at = "WAITING" /\ new.version = task[d].version
  BY <1>1 DEF TaskType
<1> HIDE DEF new
<1>4. task'[d] = new /\ gh'[d] = "ALIVE"
  BY <1>1, <1>2 DEF Typed
<1>5. TaskMoves(d)
  BY <1>1, <1>2, <1>3 DEF TaskMoves, Typed
<1>6. RunOf(d) = {} /\ RunOf(d)' = {} /\ row[d].run = NoRun /\ row[d].status = "RUNNING"
  BY <1>1, <1>2 DEF TaskFits, ClaimFits, Untried, Current, RunOf
<1>7. TaskFits(d)'
  BY <1>2, <1>3, <1>4, <1>6 DEF TaskFits, Untried
<1> QED BY <1>2, <1>3, <1>4, <1>5, <1>6, <1>7, TaskMovesKeeps

LEMMA GiveUpStep ==
    ASSUME DInv, NEW d \in Deployment, GiveUp(d)
    PROVE  DInv'
<1>1. /\ task' \in [Deployment -> TaskType] /\ \A e \in Deployment \ {d} : task'[e] = task[e]
      /\ task'[d].at = "ANSWERED" /\ task'[d].outcome = "UNKNOWN" /\ task'[d].version = task[d].version
  <2>1. "UNKNOWN" \in Outcome /\ NoRun \in Nat
    BY DEF Outcome, NoRun
  <2> QED BY <2>1, AnswerType DEF DInv, GiveUp
<1>2. task[d].at = "WAITING" /\ UNCHANGED <<row, asked, remote, phase>>
  BY DEF GiveUp
<1>3. /\ gh' \in [Deployment -> {"NONE", "ALIVE", "ACCEPTED"}] /\ gh'[d] \in {gh[d], "NONE"}
      /\ \A e \in Deployment \ {d} : gh'[e] = gh[e]
  BY DEF GiveUp, DInv, Typed
<1>4. TaskMoves(d)
  BY <1>1, <1>2, <1>3 DEF TaskMoves
<1>5. TaskFits(d) /\ RowFits(d) /\ RunOf(d)' = RunOf(d)
  BY <1>2 DEF DInv, RunOf
<1>6. TaskFits(d)'
  BY <1>1, <1>2, <1>3, <1>5 DEF TaskFits
<1>7. row[d].run # NoRun \/ row[d].status = "FAILED" => gh'[d] = "NONE"
  BY <1>3, <1>5 DEF RowFits, Untried
<1> QED BY <1>1, <1>2, <1>4, <1>6, <1>7, TaskMovesKeeps

LEMMA ExitStep ==
    ASSUME DInv, NEW d \in Deployment, Exit(d)
    PROVE  DInv'
<1>1. Typed /\ TaskFits(d) /\ RowFits(d) /\ ClaimFits(d)
  BY DEF DInv
<1>2. gh' = [gh EXCEPT ![d] = "NONE"] /\ UNCHANGED <<row, asked, remote, phase>>
  BY DEF Exit
<1>3. /\ gh'[d] = "NONE" /\ gh' \in [Deployment -> {"NONE", "ALIVE", "ACCEPTED"}]
      /\ \A e \in Deployment \ {d} : gh'[e] = gh[e]
  BY <1>1, <1>2 DEF Typed
<1>4. RunOf(d)' = RunOf(d)
  BY <1>2 DEF RunOf
<1>5. CASE task[d].at # "WAITING"
  <2>1. task' = task
    BY <1>5 DEF Exit
  <2>2. TaskMoves(d)
    BY <1>1, <1>2, <1>3, <2>1 DEF TaskMoves, Typed
  <2>3. TaskFits(d)'
    BY <1>1, <1>3, <1>4, <2>1, <1>2 DEF TaskFits, Untried
  <2> QED BY <1>3, <2>1, <2>2, <2>3, TaskMovesKeeps
<1>6. CASE task[d].at = "WAITING"
  <2>1. PICK outcome \in Outcome, run \in Nat :
           /\ Answer(d, outcome, run) /\ outcome \in {"UNKNOWN", "DISPATCHED"}
           /\ outcome = "DISPATCHED" => run \in RunOf(d)
    <3>1. "UNKNOWN" \in Outcome /\ "DISPATCHED" \in Outcome /\ NoRun \in Nat
      BY DEF Outcome, NoRun
    <3>2. RunOf(d) \subseteq Nat
      BY <1>1 DEF RunOf, Typed
    <3>3. Answer(d, "UNKNOWN", NoRun) \/ \E r \in RunOf(d) : Answer(d, "DISPATCHED", r)
      BY <1>6 DEF Exit
    <3> QED BY <3>1, <3>2, <3>3
  <2>2. /\ task' \in [Deployment -> TaskType] /\ \A e \in Deployment \ {d} : task'[e] = task[e]
        /\ task'[d].at = "ANSWERED" /\ task'[d].outcome = outcome /\ task'[d].run = run
        /\ task'[d].version = task[d].version
    BY <1>1, <2>1, AnswerType
  <2>3. TaskMoves(d)
    BY <1>2, <1>3, <2>2 DEF TaskMoves
  <2>4. TaskFits(d)'
    BY <1>1, <1>2, <1>3, <1>4, <2>1, <2>2 DEF TaskFits
  <2> QED BY <1>3, <1>6, <2>2, <2>3, <2>4, TaskMovesKeeps
<1> QED BY <1>5, <1>6

\* The verdict is written for the row that START_DEPLOYMENT left.
LEMMA RecordStep ==
    ASSUME DInv, NEW d \in Deployment, Record(d)
    PROVE  DInv'
<1>1. Typed /\ TaskFits(d) /\ RowFits(d) /\ ClaimFits(d) /\ RunsFit(d)
  BY DEF DInv
<1>2. Idle \in TaskType /\ Idle.at = "IDLE"
  BY DEF Idle, TaskType, NoRun, Outcome
<1>3. task[d].at = "ANSWERED" /\ task' = [task EXCEPT ![d] = Idle] /\ UNCHANGED <<asked, gh, remote, phase>>
  BY DEF Record
<1>4. /\ task'[d].at = "IDLE" /\ task' \in [Deployment -> TaskType]
      /\ \A e \in Deployment \ {d} : task'[e] = task[e]
  BY <1>1, <1>2, <1>3 DEF Typed
<1>5. row[d].status = "RUNNING" /\ row[d].run = NoRun /\ RunOf(d)' = RunOf(d) /\ Current(d)
  BY <1>1, <1>3 DEF ClaimFits, Current, RunOf
<1>6. row'[d].status \in {"FAILED", "UNKNOWN"} /\ row'[d].run = NoRun => ClaimFits(d)' /\ TaskFits(d)'
  BY <1>1, <1>3, <1>4, <1>5 DEF ClaimFits, TaskFits
<1>7. CASE row' = row
  <2>1. TaskMoves(d)
    BY <1>1, <1>3, <1>4, <1>7 DEF TaskMoves, Typed
  <2>2. TaskFits(d)'
    BY <1>1, <1>3, <1>4, <1>5, <1>7 DEF TaskFits
  <2> QED BY <1>1, <1>3, <1>4, <1>5, <2>1, <2>2, TaskMovesKeeps
<1>8. ASSUME NEW status \in {"FAILED", "UNKNOWN"}, row' = [row EXCEPT ![d] = Put(d, status)],
             status = "FAILED" => task[d].outcome = "REFUSED"
      PROVE  DInv'
  <2>1. RowMoves(d, status)
    BY <1>3, <1>5, <1>8 DEF RowMoves, Status
  <2>2. /\ row' \in [Deployment -> RowType] /\ row'[d].run = NoRun /\ row'[d].commit = row[d].commit
        /\ row'[d].status = status /\ \A e \in Deployment \ {d} : row'[e] = row[e]
        /\ RunsFit(d)' /\ OutcomeFits(d)'
    BY <1>5, <2>1, RowMovesKeeps
  <2>3. OnlyOf(d)
    BY <1>1, <1>3, <1>4, <1>5, <2>2 DEF OnlyOf, Typed
  <2>4. RowFits(d)'
    BY <1>1, <1>3, <1>5, <1>8, <2>2 DEF RowFits, TaskFits, Untried
  <2>5. ClaimFits(d)' /\ TaskFits(d)'
    BY <1>6, <1>8, <2>2
  <2> QED BY <2>2, <2>3, <2>4, <2>5, OthersKeep DEF DParts
<1>9. ASSUME row' = [row EXCEPT ![d] = [Put(d, "RUNNING") EXCEPT !.run = task[d].run]],
             task[d].outcome = "DISPATCHED"
      PROVE  DInv'
  <2> DEFINE new == [Put(d, "RUNNING") EXCEPT !.run = task[d].run]
  <2>1. /\ Put(d, "RUNNING") \in RowType /\ Put(d, "RUNNING").status = "RUNNING"
        /\ Put(d, "RUNNING").kind = row[d].kind /\ Put(d, "RUNNING").commit = row[d].commit
    BY <1>1, PutType DEF Status
  <2>2. task[d].run \in RunOf(d) /\ gh[d] = "NONE"
    BY <1>1, <1>3, <1>9 DEF TaskFits
  <2>3. task[d].run \in Nat /\ task[d].run # NoRun
    BY <1>1, <2>2 DEF RunOf, Typed, NoRun
  <2>4. /\ new \in RowType /\ new.status = "RUNNING" /\ new.run = task[d].run
        /\ new.kind = row[d].kind /\ new.commit = row[d].commit
    BY <2>1, <2>3 DEF RowType
  <2>5. row' = [row EXCEPT ![d] = new]
    BY <1>9
  <2> HIDE DEF new
  <2>6. row'[d] = new /\ row' \in [Deployment -> RowType] /\ \A e \in Deployment \ {d} : row'[e] = row[e]
    BY <1>1, <2>4, <2>5 DEF Typed
  <2>7. OnlyOf(d)
    BY <1>1, <1>3, <1>4, <1>5, <2>6 DEF OnlyOf, Typed
  <2>8. ClaimFits(d)' /\ TaskFits(d)'
    BY <1>1, <1>3, <1>4, <1>5, <2>2, <2>4, <2>6 DEF ClaimFits, TaskFits
  <2>9. RowFits(d)' /\ OutcomeFits(d)'
    BY <1>3, <1>5, <2>2, <2>3, <2>4, <2>6 DEF RowFits, OutcomeFits
  <2>10. RunsFit(d)'
    BY <1>1, <1>3, <1>5, <2>4, <2>6 DEF RunsFit, Previewed, PreviewedIn
  <2> QED BY <2>7, <2>8, <2>9, <2>10, OthersKeep DEF DParts
<1>10. \/ row' = row
       \/ row' = [row EXCEPT ![d] = Put(d, "UNKNOWN")]
       \/ row' = [row EXCEPT ![d] = DispatchVerdict(d)]
  BY <1>5 DEF Record
<1>11. task[d].outcome \in {"DISPATCHED", "REFUSED", "UNKNOWN"}
  BY <1>1, <1>3 DEF TaskFits, Typed, TaskType, Outcome
<1>12. \/ task[d].outcome = "DISPATCHED" /\ DispatchVerdict(d) = [Put(d, "RUNNING") EXCEPT !.run = task[d].run]
       \/ task[d].outcome = "REFUSED" /\ DispatchVerdict(d) = Put(d, "FAILED")
       \/ task[d].outcome = "UNKNOWN" /\ DispatchVerdict(d) = Put(d, "UNKNOWN")
  BY <1>11 DEF DispatchVerdict
<1> QED BY <1>7, <1>8, <1>9, <1>10, <1>12

----
(* Observations *)

LEMMA ObserveStep ==
    ASSUME DInv, NEW o \in Observer, NEW d \in Deployment, Observe(o, d)
    PROVE  DInv'
<1>1. Typed /\ RowFits(d)
  BY DEF DInv
<1>2. PICK result \in {Seen(row[d].run, row[d].commit), "UNKNOWN"} :
         asked' = [asked EXCEPT ![o] = [of |-> d, version |-> row[d].version, run |-> row[d].run,
                                        result |-> result]]
  BY DEF Observe
<1>3. Observable(d) /\ UNCHANGED <<row, task, gh, remote, phase>>
  BY DEF Observe
<1> DEFINE new == [of |-> d, version |-> row[d].version, run |-> row[d].run, result |-> result]
<1>4. row[d].version \in Nat /\ row[d].run \in Nat /\ row[d].run # NoRun
  BY <1>1, <1>3 DEF Typed, RowType, Observable
<1>5. new \in AskType
  BY <1>2, <1>4 DEF AskType, Result, Seen
<1>6. result = "SUCCEEDED" => Ran(d)
  <2>1. row[d].run \in 1 .. Len(remote)
    BY <1>1, <1>4 DEF RowFits, RunOf, Typed
  <2>2. remote[row[d].run] \in RemoteRun
    BY <1>1, <2>1 DEF Typed
  <2> QED BY <1>2, <2>2 DEF Seen, Ran, RemoteRun
<1>7. new.of = d /\ new.run = row[d].run /\ new.result = result
  OBVIOUS
<1> HIDE DEF new
<1>8. /\ asked' \in [Observer -> AskType \cup {Nobody}] /\ asked'[o] = new
      /\ \A p \in Observer \ {o} : asked'[p] = asked[p]
  BY <1>1, <1>2, <1>5 DEF Typed, new
<1>9. Typed'
  BY <1>1, <1>3, <1>8 DEF Typed
<1>10. ASSUME NEW e \in Deployment PROVE DParts(e)'
  <2>1. ClaimFits(e) /\ TaskFits(e) /\ RowFits(e) /\ RunsFit(e) /\ OutcomeFits(e) /\ RunOf(e)' = RunOf(e)
    BY <1>3 DEF DInv, RunOf
  <2>2. QED
    BY <1>3, <2>1 DEF DParts, ClaimFits, TaskFits, RowFits, RunsFit, OutcomeFits, Untried, Current, Previewed, PreviewedIn, Ran
<1>11. ASSUME NEW p \in Observer PROVE AnswerFits(p)'
  <2>1. AnswerFits(p)
    BY DEF DInv
  <2>2. CASE p = o
    BY <1>3, <1>4, <1>6, <1>7, <1>8, <2>2 DEF AnswerFits, Ran
  <2>3. CASE p # o
    BY <1>3, <1>8, <2>1, <2>3 DEF AnswerFits, Ran
  <2> QED BY <2>2, <2>3
<1> QED BY <1>9, <1>10, <1>11 DEF DInv, DParts

LEMMA RecordObservationStep ==
    ASSUME DInv, NEW o \in Observer, RecordObservation(o)
    PROVE  DInv'
<1>1. asked[o] # Nobody /\ asked' = [asked EXCEPT ![o] = Nobody] /\ UNCHANGED <<task, gh, remote, phase>>
  BY DEF RecordObservation
<1>2. asked[o] \in AskType /\ Typed /\ AnswerFits(o)
  BY <1>1 DEF DInv, Typed
<1>3. PICK d \in Deployment : asked[o].of = d
  BY <1>2 DEF AskType
<1>10. asked[o].result \in Result
  BY <1>2 DEF AskType
<1>4. /\ asked' \in [Observer -> AskType \cup {Nobody}]
      /\ \A p \in Observer : asked'[p] \in {asked[p], Nobody}
  BY <1>1, <1>2 DEF Typed
<1>5. row[d].run # NoRun /\ (asked[o].result = "SUCCEEDED" => Ran(d))
  BY <1>1, <1>2, <1>3 DEF AnswerFits
<1>6. ClaimFits(d) /\ TaskFits(d) /\ RowFits(d) /\ RunsFit(d) /\ OutcomeFits(d)
  BY <1>3 DEF DInv
<1>7. CASE StillAsked(o)
  <2>1. row' = [row EXCEPT ![d] = Put(d, asked[o].result)] /\ row[d].status \in {"RUNNING", "UNKNOWN"}
    BY <1>3, <1>7 DEF RecordObservation, StillAsked, Observable
  <2>2. RowMoves(d, asked[o].result)
    BY <1>1, <1>5, <1>10, <2>1 DEF RowMoves, Result, Status
  <2>3. /\ row' \in [Deployment -> RowType] /\ row'[d].run = row[d].run /\ row'[d].commit = row[d].commit
        /\ row'[d].status = asked[o].result /\ \A e \in Deployment \ {d} : row'[e] = row[e]
        /\ RunsFit(d)' /\ OutcomeFits(d)' /\ RunOf(d)' = RunOf(d)
    BY <1>3, <2>2, RowMovesKeeps
  <2>4. OnlyOf(d)
    BY <1>1, <1>2, <1>3, <1>4, <2>3 DEF OnlyOf, Typed
  <2>5. task[d].at = "IDLE"
    BY <1>5, <1>6 DEF ClaimFits, Current
  <2>6. ClaimFits(d)' /\ TaskFits(d)' /\ RowFits(d)'
    BY <1>1, <1>3, <1>5, <1>6, <1>10, <2>3, <2>5 DEF ClaimFits, TaskFits, RowFits, Untried, Result
  <2> QED BY <1>3, <2>3, <2>4, <2>6, OthersKeep DEF DParts
<1>8. CASE ~StillAsked(o)
  <2>1. row' = row
    BY <1>8 DEF RecordObservation
  <2>2. OnlyOf(d)
    BY <1>1, <1>2, <1>3, <1>4, <2>1 DEF OnlyOf, Typed
  <2>3. RunOf(d)' = RunOf(d)
    BY <1>1 DEF RunOf
  <2>4. DParts(d)'
    BY <1>1, <1>6, <2>1, <2>3 DEF DParts, ClaimFits, TaskFits, RowFits, RunsFit, OutcomeFits, Untried, Current,
                                  Previewed, PreviewedIn, Ran
  <2> QED BY <1>3, <2>2, <2>4, OthersKeep
<1> QED BY <1>7, <1>8

----
(* The daemon dies and starts *)

LEMMA CrashStep ==
    ASSUME DInv, Crash
    PROVE  DInv'
<1>1. Idle \in TaskType /\ Idle.at = "IDLE"
  BY DEF Idle, TaskType, NoRun, Outcome
<1>2. /\ task' = [d \in Deployment |-> Idle] /\ asked' = [o \in Observer |-> Nobody] /\ phase' = "DOWN"
      /\ UNCHANGED <<row, gh, remote>>
  BY DEF Crash
<1>3. Typed'
  BY <1>1, <1>2 DEF DInv, Typed
<1>4. ASSUME NEW e \in Deployment PROVE DParts(e)'
  <2>1. ClaimFits(e) /\ TaskFits(e) /\ RowFits(e) /\ RunsFit(e) /\ OutcomeFits(e) /\ RunOf(e)' = RunOf(e)
    BY <1>2 DEF DInv, RunOf
  <2>2. task'[e].at = "IDLE"
    BY <1>1, <1>2
  <2>3. ClaimFits(e)' /\ TaskFits(e)' /\ RowFits(e)'
    BY <1>2, <2>1, <2>2 DEF ClaimFits, TaskFits, RowFits, Untried
  <2>4. RunsFit(e)' /\ OutcomeFits(e)'
    BY <1>2, <2>1 DEF RunsFit, OutcomeFits, Previewed, PreviewedIn, Ran
  <2> QED BY <2>3, <2>4 DEF DParts
<1>5. ASSUME NEW o \in Observer PROVE AnswerFits(o)'
  BY <1>2 DEF AnswerFits
<1> QED BY <1>3, <1>4, <1>5 DEF DInv, DParts

\* A daemon that is not up runs no task.
LEMMA StartsStep ==
    ASSUME DInv, phase # "UP", phase' \in {"UP", "BOOTING"}, UNCHANGED <<row, task, asked, gh, remote>>
    PROVE  DInv'
<1>1. Typed'
  BY DEF DInv, Typed
<1>2. ASSUME NEW e \in Deployment PROVE DParts(e)'
  <2>1. ClaimFits(e) /\ TaskFits(e) /\ RowFits(e) /\ RunsFit(e) /\ OutcomeFits(e) /\ RunOf(e)' = RunOf(e)
    BY DEF DInv, RunOf
  <2>2. QED
    BY <2>1 DEF DParts, ClaimFits, TaskFits, RowFits, RunsFit, OutcomeFits, Untried, Current, Previewed, PreviewedIn, Ran
<1>3. ASSUME NEW o \in Observer PROVE AnswerFits(o)'
  BY DEF DInv, AnswerFits, Ran
<1> QED BY <1>1, <1>2, <1>3 DEF DInv, DParts

LEMMA ReconcileStep ==
    ASSUME DInv, NEW d \in Deployment, Reconcile(d)
    PROVE  DInv'
<1>1. RowMoves(d, "UNKNOWN") /\ UNCHANGED <<task, asked, gh, remote, phase>> /\ phase = "BOOTING"
  BY DEF Reconcile, Reconciled, Interrupted, RowMoves, Status
<1>2. /\ row' \in [Deployment -> RowType] /\ row'[d].run = row[d].run /\ row'[d].commit = row[d].commit
      /\ row'[d].status = "UNKNOWN" /\ \A e \in Deployment \ {d} : row'[e] = row[e]
      /\ RunsFit(d)' /\ OutcomeFits(d)' /\ RunOf(d)' = RunOf(d)
  BY <1>1, RowMovesKeeps
<1>3. OnlyOf(d)
  BY <1>1, <1>2 DEF OnlyOf, DInv, Typed
<1>4. ClaimFits(d) /\ TaskFits(d) /\ RowFits(d)
  BY DEF DInv
<1>5. ClaimFits(d)' /\ TaskFits(d)' /\ RowFits(d)'
  BY <1>1, <1>2, <1>4 DEF ClaimFits, TaskFits, RowFits, Untried
<1> QED BY <1>2, <1>3, <1>5, OthersKeep DEF DParts

----
(* GitHub *)

\* What GitHub has of a run stays, and a run that succeeded has ended.
RemoteGrows ==
    /\ remote' \in Seq(RemoteRun) /\ Len(remote) <= Len(remote')
    /\ \A r \in 1 .. Len(remote) :
          /\ remote'[r].by = remote[r].by /\ remote'[r].kind = remote[r].kind
          /\ remote'[r].commit = remote[r].commit
          /\ remote[r].result = "SUCCESS" => remote'[r].result = "SUCCESS"
    /\ UNCHANGED <<row, task, asked, phase>>

LEMMA PastStays ==
    ASSUME DInv, RemoteGrows
    PROVE  /\ \A c \in Commit \cup {"NONE"}, k \in Int :
                 k <= Len(remote) /\ Previewed(c, k) => PreviewedIn(remote', c, k)
           /\ \A d \in Deployment : OutcomeFits(d)'
           /\ \A o \in Observer : AnswerFits(o)'
           /\ \A d \in Deployment : RunOf(d) \subseteq RunOf(d)' /\ RunOf(d) \subseteq 1 .. Len(remote)
<1>1. remote \in Seq(RemoteRun) /\ remote' \in Seq(RemoteRun) /\ Len(remote) \in Nat /\ Len(remote') \in Nat
  BY DEF DInv, Typed, RemoteGrows
<1>2. \A d \in Deployment : RunOf(d) \subseteq RunOf(d)' /\ RunOf(d) \subseteq 1 .. Len(remote)
  BY <1>1 DEF RunOf, RemoteGrows
<1>3. ASSUME NEW d \in Deployment, Ran(d), row[d].run # NoRun
      PROVE  Ran(d)'
  <2>1. row[d].run \in 1 .. Len(remote)
    BY <1>2, <1>3 DEF DInv, RowFits
  <2> QED BY <1>3, <2>1 DEF Ran, RemoteGrows
<1>4. \A d \in Deployment : OutcomeFits(d)'
  BY <1>3 DEF OutcomeFits, DInv, RowFits, RemoteGrows
<1>5. ASSUME NEW o \in Observer PROVE AnswerFits(o)'
  <2>1. row' = row /\ asked' = asked
    BY DEF RemoteGrows
  <2>2. CASE asked[o] = Nobody
    BY <2>1, <2>2 DEF AnswerFits
  <2>3. CASE asked[o] # Nobody
    <3>1. asked[o].of \in Deployment /\ AnswerFits(o)
      BY <2>3 DEF DInv, Typed, AskType
    <3>2. PICK d \in Deployment : asked[o].of = d
      BY <3>1
    <3>3. row[d].run = asked[o].run /\ asked[o].run # NoRun /\ (asked[o].result = "SUCCEEDED" => Ran(d))
      BY <2>3, <3>1, <3>2 DEF AnswerFits
    <3>4. asked[o].result = "SUCCEEDED" => Ran(d)'
      BY <1>3, <3>3
    <3> QED BY <2>1, <3>2, <3>3, <3>4 DEF AnswerFits, Ran
  <2> QED BY <2>2, <2>3
<1>6. ASSUME NEW c \in Commit \cup {"NONE"}, NEW k \in Int, k <= Len(remote), Previewed(c, k)
      PROVE  PreviewedIn(remote', c, k)
  BY <1>1, <1>6 DEF Previewed, PreviewedIn, RemoteGrows
<1> QED BY <1>2, <1>4, <1>5, <1>6

LEMMA AcceptStep ==
    ASSUME DInv, NEW d \in Deployment, NEW c \in Commit, Accept(d, c)
    PROVE  /\ DInv' /\ RunOf(d) = {} /\ RunOf(d)' # {}
           /\ \A e \in Deployment \ {d} : RunOf(e)' = RunOf(e)
<1> DEFINE new == [by |-> d, kind |-> row[d].kind, commit |-> c, result |-> "RUNNING"]
           n == Len(remote)
<1>1. Typed /\ ClaimFits(d) /\ TaskFits(d) /\ RowFits(d) /\ RunsFit(d) /\ row[d] \in RowType
  BY DEF DInv, Typed
<1>2. /\ gh[d] = "ALIVE" /\ gh' = [gh EXCEPT ![d] = "ACCEPTED"] /\ remote' = Append(remote, new)
      /\ UNCHANGED <<row, task, asked, phase>>
  BY DEF Accept
<1>3. new \in RemoteRun /\ new.by = d /\ new.kind = row[d].kind
  BY <1>1 DEF RemoteRun, RowType
<1> HIDE DEF new
<1>4. /\ remote' \in Seq(RemoteRun) /\ Len(remote') = n + 1 /\ n \in Nat /\ remote'[n + 1] = new
      /\ \A r \in 1 .. n : remote'[r] = remote[r]
  BY <1>1, <1>2, <1>3 DEF Typed
<1>5. RemoteGrows
  BY <1>2, <1>4 DEF RemoteGrows
<1>6. gh'[d] = "ACCEPTED" /\ \A e \in Deployment \ {d} : gh'[e] = gh[e]
  BY <1>1, <1>2 DEF Typed
<1>7. RunOf(d) = {} /\ RunOf(d)' = {n + 1}
  <2>1. RunOf(d) = {}
    BY <1>1, <1>2 DEF TaskFits
  <2>2. DOMAIN remote' = 1 .. n + 1 /\ DOMAIN remote = 1 .. n
    BY <1>1, <1>4 DEF Typed
  <2> QED BY <1>3, <1>4, <2>1, <2>2 DEF RunOf
<1>8. ASSUME NEW e \in Deployment \ {d} PROVE RunOf(e)' = RunOf(e)
  <2>1. DOMAIN remote' = 1 .. n + 1 /\ DOMAIN remote = 1 .. n
    BY <1>1, <1>4 DEF Typed
  <2> QED BY <1>3, <1>4, <2>1 DEF RunOf
<1>9. Typed'
  BY <1>1, <1>2, <1>4 DEF Typed
<1>10. /\ \A k \in Int : k <= n => \A b \in Commit \cup {"NONE"} : Previewed(b, k) => PreviewedIn(remote', b, k)
       /\ \A e \in Deployment : OutcomeFits(e)'
       /\ \A o \in Observer : AnswerFits(o)'
  BY <1>5, PastStays
<1>11. ASSUME NEW e \in Deployment \ {d} PROVE DParts(e)'
  <2>1. /\ ClaimFits(e) /\ TaskFits(e) /\ RowFits(e) /\ RunsFit(e) /\ RunOf(e)' = RunOf(e)
        /\ RunOf(e) \subseteq 1 .. n /\ row[e].commit \in Commit \cup {"NONE"}
    BY <1>5, <1>8, PastStays DEF DInv, Typed, RowType
  <2>2. ClaimFits(e)' /\ TaskFits(e)' /\ RowFits(e)'
    BY <1>2, <1>6, <2>1 DEF ClaimFits, TaskFits, RowFits, Untried, Current
  <2>3. ASSUME NEW r \in RunOf(e)
        PROVE  /\ remote'[r].kind = row[e].kind
               /\ row[e].kind = "PRODUCTION" => PreviewedIn(remote', row[e].commit, r - 1)
    BY <1>4, <1>10, <2>1, <2>3 DEF RunsFit
  <2>4. Previewed(row[e].commit, n) => PreviewedIn(remote', row[e].commit, n + 1)
    BY <1>4, <1>10, <2>1 DEF Previewed, PreviewedIn
  <2>5. RunsFit(e)'
    BY <1>2, <1>4, <2>1, <2>3, <2>4 DEF RunsFit, Previewed, PreviewedIn
  <2> QED BY <1>10, <2>2, <2>5 DEF DParts
<1>12. DParts(d)'
  <2>1. row[d].status # "NONE" /\ row[d].run = NoRun /\ row[d].commit \in Commit \cup {"NONE"}
    BY <1>1, <1>2 DEF ClaimFits, Untried, TaskFits, RowType
  <2>2. ClaimFits(d)' /\ TaskFits(d)' /\ RowFits(d)'
    BY <1>1, <1>2, <1>6, <1>7, <2>1 DEF ClaimFits, TaskFits, RowFits, Untried, Current
  <2>3. row[d].kind = "PRODUCTION" => PreviewedIn(remote', row[d].commit, n)
    BY <1>1, <1>4, <1>10, <2>1 DEF RunsFit
  <2>4. row[d].kind = "PRODUCTION" => PreviewedIn(remote', row[d].commit, n + 1)
    BY <1>4, <2>3 DEF Previewed, PreviewedIn
  <2>5. RunsFit(d)'
    BY <1>2, <1>3, <1>4, <1>7, <2>3, <2>4 DEF RunsFit, Previewed, PreviewedIn
  <2> QED BY <1>10, <2>2, <2>5 DEF DParts
<1> QED BY <1>7, <1>8, <1>9, <1>10, <1>11, <1>12 DEF DInv, DParts

LEMMA RemoteEndsStep ==
    ASSUME DInv, NEW q \in DOMAIN remote, RemoteEnds(q)
    PROVE  DInv' /\ \A e \in Deployment : RunOf(e)' = RunOf(e)
<1>1. PICK result \in {"SUCCESS", "FAILURE"} : remote' = [remote EXCEPT ![q].result = result]
  BY DEF RemoteEnds
<1> DEFINE new == [remote[q] EXCEPT !.result = result]
<1>2. Typed /\ remote \in Seq(RemoteRun) /\ remote[q] \in RemoteRun /\ q \in 1 .. Len(remote)
  BY DEF DInv, Typed
<1>3. /\ new \in RemoteRun /\ new.by = remote[q].by /\ new.kind = remote[q].kind
      /\ new.commit = remote[q].commit
  BY <1>2 DEF RemoteRun
<1>4. remote' = [remote EXCEPT ![q] = new]
  BY <1>1
<1> HIDE DEF new
<1>5. remote[q].result = "RUNNING" /\ UNCHANGED <<row, task, asked, gh, phase>>
  BY DEF RemoteEnds
<1>6. /\ remote' \in Seq(RemoteRun) /\ Len(remote') = Len(remote) /\ DOMAIN remote' = DOMAIN remote
      /\ remote'[q] = new /\ \A r \in DOMAIN remote \ {q} : remote'[r] = remote[r]
      /\ DOMAIN remote = 1 .. Len(remote) /\ Len(remote) \in Nat
  BY <1>2, <1>3, <1>4
<1>7. RemoteGrows
  BY <1>3, <1>5, <1>6 DEF RemoteGrows
<1>8. ASSUME NEW e \in Deployment PROVE RunOf(e)' = RunOf(e)
  BY <1>3, <1>6 DEF RunOf
<1>9. Typed'
  BY <1>2, <1>5, <1>6 DEF Typed
<1>10. /\ \A k \in Int : k <= Len(remote) => \A b \in Commit \cup {"NONE"} : Previewed(b, k) => PreviewedIn(remote', b, k)
       /\ \A e \in Deployment : OutcomeFits(e)'
       /\ \A o \in Observer : AnswerFits(o)'
  BY <1>7, PastStays
<1>11. ASSUME NEW e \in Deployment PROVE DParts(e)'
  <2>1. /\ ClaimFits(e) /\ TaskFits(e) /\ RowFits(e) /\ RunsFit(e) /\ RunOf(e)' = RunOf(e)
        /\ RunOf(e) \subseteq 1 .. Len(remote) /\ row[e].commit \in Commit \cup {"NONE"}
    BY <1>7, <1>8, PastStays DEF DInv, Typed, RowType
  <2>2. ClaimFits(e)' /\ TaskFits(e)' /\ RowFits(e)'
    BY <1>5, <2>1 DEF ClaimFits, TaskFits, RowFits, Untried, Current
  <2>3. ASSUME NEW r \in RunOf(e)
        PROVE  /\ remote'[r].kind = row[e].kind
               /\ row[e].kind = "PRODUCTION" => PreviewedIn(remote', row[e].commit, r - 1)
    <3>1. remote'[r].kind = remote[r].kind /\ r \in 1 .. Len(remote)
      BY <1>7, <2>1, <2>3 DEF RemoteGrows
    <3> QED BY <1>6, <1>10, <2>1, <2>3, <3>1 DEF RunsFit
  <2>4. Previewed(row[e].commit, Len(remote)) => PreviewedIn(remote', row[e].commit, Len(remote))
    BY <1>6, <1>10, <2>1
  <2>5. RunsFit(e)'
    BY <1>5, <1>6, <2>1, <2>3, <2>4 DEF RunsFit, Previewed
  <2> QED BY <1>10, <2>2, <2>5 DEF DParts
<1> QED BY <1>8, <1>9, <1>10, <1>11 DEF DInv, DParts

----
(* The invariant *)

LEMMA Invariant == DInv /\ [Next]_vars => DInv'
<1> SUFFICES ASSUME DInv, [Next]_vars PROVE DInv'
  OBVIOUS
<1>1. ASSUME NEW d \in Deployment, \E c \in Commit, kind \in Kind : Adopt(d, kind, c) PROVE DInv'
  BY <1>1, AdoptStep
<1>2. ASSUME NEW d \in Deployment, Approve(d) \/ Wake(d) \/ RunnerStep(d) \/ Reconcile(d) PROVE DInv'
  BY <1>2, ApproveStep, WakeStep, RefuseStep, DispatchStep, ExitStep, GiveUpStep, RecordStep, ReconcileStep
     DEF RunnerStep
<1>3. ASSUME NEW d \in Deployment, \E c \in Commit : Accept(d, c) PROVE DInv'
  BY <1>3, AcceptStep
<1>4. ASSUME NEW d \in Deployment, \E o \in Observer : Observe(o, d) PROVE DInv'
  BY <1>4, ObserveStep
<1>5. ASSUME NEW o \in Observer, RecordObservation(o) PROVE DInv'
  BY <1>5, RecordObservationStep
<1>6. CASE Crash
  BY <1>6, CrashStep
<1>7. CASE Start \/ Listen
  BY <1>7, StartsStep DEF Start, Listen
<1>8. ASSUME NEW r \in DOMAIN remote, RemoteEnds(r) PROVE DInv'
  BY <1>8, RemoteEndsStep
<1>9. CASE UNCHANGED vars
  BY <1>9 DEF vars, DInv, Typed, ClaimFits, TaskFits, RowFits, RunsFit, OutcomeFits, AnswerFits, Untried,
     Current, RunOf, Previewed, PreviewedIn, Ran
<1> QED BY <1>1, <1>2, <1>3, <1>4, <1>5, <1>6, <1>7, <1>8, <1>9 DEF Next

\* DInv holds in every state the runner, the owner, GitHub and the crashes reach.
THEOREM DeploymentInvariant == Spec => []DInv
BY InitHolds, Invariant, PTL DEF Spec

\* A deployment that succeeded ran the approved commit to success, in a run of its own, and a
\* production deployment only after a preview of the same commit that did.
THEOREM SucceededRan == Spec => []SucceededAsApproved
<1>1. DInv => SucceededAsApproved
  <2> SUFFICES ASSUME DInv, NEW d \in Deployment, row[d].status = "SUCCEEDED"
               PROVE  /\ remote[row[d].run].by = d /\ remote[row[d].run].kind = row[d].kind
                      /\ Ran(d)
                      /\ row[d].kind = "PRODUCTION" => Previewed(row[d].commit, row[d].run - 1)
    BY DEF SucceededAsApproved, Ran, Previewed, PreviewedIn
  <2>1. RowFits(d) /\ RunsFit(d) /\ OutcomeFits(d)
    BY DEF DInv
  <2>2. row[d].run \in RunOf(d) /\ remote[row[d].run].by = d
    BY <2>1 DEF RowFits, RunOf
  <2> QED BY <2>1, <2>2 DEF RunsFit, OutcomeFits
<1> QED BY <1>1, DeploymentInvariant, PTL

----
(* What a step writes about a deployment *)

Verdicts == {"REFUSED", "CONFIRMED", "UNKNOWN"}

\* The row of d moves: it was not concluded, its run stays, and its claim advances by one step.
Moves(d) ==
    /\ \A e \in Deployment \ {d} : row'[e] = row[e]
    /\ row[d].status \notin {"SUCCEEDED", "FAILED"}
    /\ row[d].run # NoRun => row'[d].run = row[d].run
    /\ \/ ClaimOf(d)' = ClaimOf(d)
       \/ ClaimOf(d) = "UNCLAIMED" /\ ClaimOf(d)' = "CLAIMED"
       \/ ClaimOf(d) = "CLAIMED" /\ ClaimOf(d)' \in Verdicts

LEMMA OwnerMoves ==
    ASSUME DInv, NEW d \in Deployment,
           \/ \E c \in Commit, kind \in Kind : Adopt(d, kind, c)
           \/ Approve(d) \/ Wake(d)
    PROVE  Moves(d)
<1>1. /\ row \in [Deployment -> RowType] /\ row[d] \in RowType
      /\ row[d].status \in {"NONE", "PENDING_APPROVAL", "APPROVED"} => row[d].run = NoRun
  BY DEF DInv, Typed, ClaimFits
<1>2. CASE \E c \in Commit, kind \in Kind : Adopt(d, kind, c)
  <2>1. PICK c \in Commit, kind \in Kind : Adopt(d, kind, c)
    BY <1>2
  <2>2. /\ row' = [row EXCEPT ![d] = Adopted(kind, c)] /\ row[d].status = "NONE"
        /\ Adopted(kind, c).status = "PENDING_APPROVAL" /\ Adopted(kind, c).run = NoRun
    BY <2>1 DEF Adopt, Adopted
  <2>3. /\ row'[d].status = "PENDING_APPROVAL" /\ row'[d].run = NoRun
        /\ \A e \in Deployment \ {d} : row'[e] = row[e]
    BY <1>1, <2>2
  <2>4. ClaimOf(d) = "UNCLAIMED" /\ ClaimOf(d)' = "UNCLAIMED"
    BY <1>1, <2>2, <2>3 DEF ClaimOf
  <2> QED BY <1>1, <2>2, <2>3, <2>4 DEF Moves
<1>3. CASE Approve(d)
  <2>1. RowMoves(d, "APPROVED") /\ row[d].status = "PENDING_APPROVAL" /\ remote' = remote
    BY <1>3 DEF Approve, Approvable, RowMoves, Status
  <2>2. /\ row'[d].status = "APPROVED" /\ row'[d].run = NoRun
        /\ \A e \in Deployment \ {d} : row'[e] = row[e]
    BY <1>1, <2>1, RowMovesKeeps
  <2>3. ClaimOf(d) = "UNCLAIMED" /\ ClaimOf(d)' = "UNCLAIMED"
    BY <1>1, <2>1, <2>2 DEF ClaimOf
  <2> QED BY <1>1, <2>1, <2>2, <2>3 DEF Moves
<1>4. CASE Wake(d)
  <2>1. RowMoves(d, "RUNNING") /\ row[d].status = "APPROVED" /\ remote' = remote
    BY <1>4 DEF Wake, Startable, RowMoves, Status
  <2>2. /\ row'[d].status = "RUNNING" /\ row'[d].run = NoRun
        /\ \A e \in Deployment \ {d} : row'[e] = row[e]
    BY <1>1, <2>1, RowMovesKeeps
  <2>3. ClaimOf(d) = "UNCLAIMED" /\ ClaimOf(d)' = "CLAIMED"
    BY <1>1, <2>1, <2>2 DEF ClaimOf
  <2> QED BY <1>1, <2>1, <2>2, <2>3 DEF Moves
<1> QED BY <1>2, <1>3, <1>4

LEMMA RecordMoves ==
    ASSUME DInv, NEW d \in Deployment, Record(d)
    PROVE  row' = row \/ Moves(d)
<1>1. Typed /\ TaskFits(d) /\ ClaimFits(d) /\ row[d] \in RowType /\ task[d].at = "ANSWERED"
  BY DEF DInv, Typed, Record
<1>2. row[d].status = "RUNNING" /\ row[d].run = NoRun /\ Current(d) /\ ClaimOf(d) = "CLAIMED"
  BY <1>1 DEF ClaimFits, Current, ClaimOf
<1>3. SUFFICES ASSUME row' # row
               PROVE  /\ ClaimOf(d)' \in Verdicts
                      /\ \A e \in Deployment \ {d} : row'[e] = row[e]
  BY <1>2 DEF Moves
<1>4. task[d].outcome \in {"DISPATCHED", "REFUSED", "UNKNOWN"}
  BY <1>1 DEF TaskFits, Typed, TaskType, Outcome
<1>5. CASE task[d].outcome = "DISPATCHED" /\ row' = [row EXCEPT ![d] = DispatchVerdict(d)]
  <2> DEFINE put == Put(d, "RUNNING")
             new == [put EXCEPT !.run = task[d].run]
  <2>1. task[d].run \in RunOf(d) /\ task[d].run \in Nat /\ task[d].run # NoRun
    BY <1>1, <1>5 DEF TaskFits, RunOf, Typed, NoRun
  <2>2. put \in RowType
    BY <1>1, PutType DEF Status
  <2>3. row' = [row EXCEPT ![d] = new]
    BY <1>5 DEF DispatchVerdict
  <2> HIDE DEF put
  <2>4. new.run = task[d].run
    BY <2>2 DEF RowType
  <2> HIDE DEF new
  <2>5. row'[d].run # NoRun /\ \A e \in Deployment \ {d} : row'[e] = row[e]
    BY <1>1, <2>1, <2>3, <2>4 DEF Typed
  <2> QED BY <2>5 DEF ClaimOf, Verdicts
<1>6. ASSUME NEW status \in {"FAILED", "UNKNOWN"}, row' = [row EXCEPT ![d] = Put(d, status)]
      PROVE  /\ ClaimOf(d)' \in Verdicts
             /\ \A e \in Deployment \ {d} : row'[e] = row[e]
  <2>1. RowMoves(d, status)
    BY <1>2, <1>6 DEF RowMoves, Status, Record
  <2>2. row'[d].status = status /\ row'[d].run = NoRun /\ \A e \in Deployment \ {d} : row'[e] = row[e]
    BY <1>2, <2>1, RowMovesKeeps
  <2> QED BY <1>6, <2>2 DEF ClaimOf, Verdicts
<1>7. \/ row' = [row EXCEPT ![d] = Put(d, "UNKNOWN")]
      \/ row' = [row EXCEPT ![d] = DispatchVerdict(d)]
  BY <1>2, <1>3 DEF Record
<1>8. \/ task[d].outcome = "DISPATCHED"
      \/ task[d].outcome = "REFUSED" /\ DispatchVerdict(d) = Put(d, "FAILED")
      \/ task[d].outcome = "UNKNOWN" /\ DispatchVerdict(d) = Put(d, "UNKNOWN")
  BY <1>4 DEF DispatchVerdict
<1> QED BY <1>5, <1>6, <1>7, <1>8

LEMMA ObservationMoves ==
    ASSUME DInv, NEW o \in Observer, RecordObservation(o)
    PROVE  row' = row \/ \E d \in Deployment : Moves(d)
<1>1. asked[o] # Nobody /\ asked[o] \in AskType /\ AnswerFits(o) /\ remote' = remote
  BY DEF RecordObservation, DInv, Typed
<1>2. PICK d \in Deployment : asked[o].of = d
  BY <1>1 DEF AskType
<1>3. row[d].run # NoRun /\ (asked[o].result = "SUCCEEDED" => Ran(d)) /\ asked[o].result \in Result
  BY <1>1, <1>2 DEF AnswerFits, AskType
<1>4. CASE StillAsked(o)
  <2>1. row' = [row EXCEPT ![d] = Put(d, asked[o].result)] /\ row[d].status \in {"RUNNING", "UNKNOWN"}
    BY <1>2, <1>4 DEF RecordObservation, StillAsked, Observable
  <2>2. RowMoves(d, asked[o].result)
    BY <1>1, <1>3, <2>1 DEF RowMoves, Result, Status
  <2>3. row'[d].run = row[d].run /\ \A e \in Deployment \ {d} : row'[e] = row[e]
    BY <2>2, RowMovesKeeps
  <2>4. ClaimOf(d) = "CONFIRMED" /\ ClaimOf(d)' = "CONFIRMED"
    BY <1>3, <2>3 DEF ClaimOf
  <2> QED BY <2>1, <2>3, <2>4 DEF Moves
<1>5. CASE ~StillAsked(o)
  BY <1>5 DEF RecordObservation
<1> QED BY <1>4, <1>5

LEMMA ReconcileMoves ==
    ASSUME DInv, NEW d \in Deployment, Reconcile(d)
    PROVE  Moves(d)
<1>1. RowMoves(d, "UNKNOWN") /\ row[d].status = "RUNNING"
  BY DEF Reconcile, Reconciled, Interrupted, RowMoves, Status
<1>2. /\ row'[d].run = row[d].run /\ row'[d].status = "UNKNOWN"
      /\ \A e \in Deployment \ {d} : row'[e] = row[e]
  BY <1>1, RowMovesKeeps
<1>3. CASE row[d].run = NoRun
  <2>1. ClaimOf(d) = "CLAIMED" /\ ClaimOf(d)' = "UNKNOWN"
    BY <1>1, <1>2, <1>3 DEF ClaimOf
  <2> QED BY <1>1, <1>2, <2>1 DEF Moves, Verdicts
<1>4. CASE row[d].run # NoRun
  <2>1. ClaimOf(d) = "CONFIRMED" /\ ClaimOf(d)' = "CONFIRMED"
    BY <1>2, <1>4 DEF ClaimOf
  <2> QED BY <1>1, <1>2, <2>1 DEF Moves
<1> QED BY <1>3, <1>4

LEMMA RowSteps ==
    ASSUME DInv, [Next]_vars
    PROVE  row' = row \/ \E d \in Deployment : Moves(d)
<1>1. ASSUME NEW d \in Deployment,
             \/ \E c \in Commit, kind \in Kind : Adopt(d, kind, c)
             \/ Approve(d) \/ Wake(d) \/ Reconcile(d) \/ Record(d)
      PROVE  row' = row \/ Moves(d)
  BY <1>1, OwnerMoves, ReconcileMoves, RecordMoves
<1>2. ASSUME NEW d \in Deployment,
             \/ Refuse(d) \/ Dispatch(d) \/ Exit(d) \/ GiveUp(d)
             \/ \E c \in Commit : Accept(d, c)
             \/ \E o \in Observer : Observe(o, d)
      PROVE  row' = row
  BY <1>2 DEF Refuse, Dispatch, Exit, GiveUp, Accept, Observe
<1>3. ASSUME NEW o \in Observer, RecordObservation(o)
      PROVE  row' = row \/ \E d \in Deployment : Moves(d)
  BY <1>3, ObservationMoves
<1>4. CASE Crash \/ Start \/ Listen \/ (\E r \in DOMAIN remote : RemoteEnds(r)) \/ UNCHANGED vars
  BY <1>4 DEF Crash, Start, Listen, RemoteEnds, vars
<1> QED BY <1>1, <1>2, <1>3, <1>4 DEF Next, RunnerStep

\* A late answer, a restart or a retry never rewrites a deployment that succeeded or failed, and
\* the run a deployment names stays the same.
THEOREM Concluded == Spec => ConclusionStands
<1>1. DInv /\ [Next]_vars => [Stands]_vars
  <2> SUFFICES ASSUME DInv, [Next]_vars PROVE Stands
    OBVIOUS
  <2>1. CASE row' = row
    BY <2>1 DEF Stands
  <2>2. ASSUME NEW d \in Deployment, Moves(d) PROVE Stands
    BY <2>2 DEF Moves, Stands
  <2> QED BY <2>1, <2>2, RowSteps
<1> QED BY <1>1, DeploymentInvariant, PTL DEF Spec, ConclusionStands

----
(* A deployment implements AtMostOnce *)

LEMMA AtMostOneMember ==
    ASSUME NEW S, \A r, q \in S : r = q
    PROVE  Cardinality(S) = IF S = {} THEN 0 ELSE 1
<1>1. CASE S = {}
  BY <1>1, FS_EmptySet
<1>2. CASE S # {}
  <2>1. PICK r \in S : TRUE
    BY <1>2
  <2>2. S = {r}
    BY <2>1
  <2> QED BY <1>2, <2>2, FS_Singleton
<1> QED BY <1>1, <1>2

LEMMA TimesOf ==
    ASSUME NEW d \in Deployment
    PROVE  /\ DInv => Times(d) = IF RunOf(d) = {} THEN 0 ELSE 1
           /\ DInv' => Times(d)' = IF RunOf(d)' = {} THEN 0 ELSE 1
<1>1. /\ DInv => \A r, q \in RunOf(d) : r = q
      /\ DInv' => \A r, q \in RunOf(d)' : r = q
  BY DEF DInv, TaskFits
<1> QED BY <1>1, AtMostOneMember DEF Times

\* A step that leaves the remote alone writes one row, and what it writes is true.
LEMMA RowImplements ==
    ASSUME DInv, DInv', NEW d \in Deployment, Moves(d), \A e \in Deployment : RunOf(e)' = RunOf(e)
    PROVE  [Promise!Next]_(Promise!vars)
<1>1. \A e \in Deployment \ {d} : ClaimOf(e)' = ClaimOf(e)
  BY DEF Moves, ClaimOf
<1>2. \A e \in Deployment : Times(e)' = Times(e)
  BY DEF Times
<1>3. CASE ClaimOf(d)' = ClaimOf(d)
  BY <1>1, <1>2, <1>3 DEF Promise!vars
<1>4. CASE ClaimOf(d) = "UNCLAIMED" /\ ClaimOf(d)' = "CLAIMED"
  <2>1. Promise!TakeClaims({d})
    BY <1>1, <1>2, <1>4 DEF Promise!TakeClaims
  <2> QED BY <2>1 DEF Promise!Next
<1>5. CASE ClaimOf(d) = "CLAIMED" /\ ClaimOf(d)' \in Verdicts
  <2>1. RowFits(d)'
    BY DEF DInv
  <2>2. ClaimOf(d)' = "CONFIRMED" => RunOf(d) # {}
    BY <1>5, <2>1 DEF ClaimOf, RowFits
  <2>3. ClaimOf(d)' = "REFUSED" => RunOf(d) = {}
    BY <1>5, <2>1 DEF ClaimOf, RowFits, Untried
  <2>4. /\ ClaimOf(d)' = "REFUSED" => Times(d) = 0
        /\ ClaimOf(d)' = "CONFIRMED" => Times(d) = 1
    BY <2>2, <2>3, TimesOf
  <2>5. \A e \in Deployment : ClaimOf(e)' \in Promise!Claim
    BY DEF ClaimOf, Promise!Claim
  <2>6. Promise!Settle({d})
    BY <1>1, <1>2, <1>5, <2>4, <2>5 DEF Promise!Settle, Promise!Entitled, Verdicts
  <2> QED BY <2>6 DEF Promise!Next
<1> QED BY <1>3, <1>4, <1>5 DEF Moves

\* GitHub accepts a dispatch that is claimed, or that the runner gave up on, and accepts it once.
LEMMA AcceptImplements ==
    ASSUME DInv, DInv', NEW d \in Deployment, NEW c \in Commit, Accept(d, c)
    PROVE  Promise!Next
<1>1. /\ RunOf(d) = {} /\ RunOf(d)' # {} /\ \A e \in Deployment \ {d} : RunOf(e)' = RunOf(e)
      /\ gh[d] = "ALIVE" /\ row' = row
  BY AcceptStep DEF Accept
<1>2. /\ row[d] \in RowType /\ ClaimFits(d) /\ RowFits(d)
  BY DEF DInv, Typed
<1>3. ClaimOf(d) \in {"CLAIMED", "UNKNOWN"}
  <2>1. row[d].run = NoRun /\ row[d].status \in {"RUNNING", "UNKNOWN"}
    BY <1>1, <1>2 DEF ClaimFits, RowFits, Untried, RowType, Status
  <2> QED BY <2>1 DEF ClaimOf
<1>4. Times(d) = 0 /\ Times(d)' = 1
  BY <1>1, TimesOf
<1>5. \A e \in Deployment \ {d} : Times(e)' = Times(e)
  BY <1>1 DEF Times
<1>6. \A e \in Deployment : ClaimOf(e)' = ClaimOf(e)
  BY <1>1 DEF ClaimOf
<1>7. Promise!Happen(d)
  BY <1>3, <1>4, <1>5, <1>6 DEF Promise!Happen
<1> QED BY <1>7 DEF Promise!Next

LEMMA RemoteKept ==
    ASSUME DInv, [Next]_vars, ~\E d \in Deployment : \E c \in Commit : Accept(d, c)
    PROVE  \A e \in Deployment : RunOf(e)' = RunOf(e)
<1>1. CASE remote' = remote
  BY <1>1 DEF RunOf
<1>2. ASSUME NEW r \in DOMAIN remote, RemoteEnds(r) PROVE \A e \in Deployment : RunOf(e)' = RunOf(e)
  BY <1>2, RemoteEndsStep
<1>3. remote' = remote \/ \E r \in DOMAIN remote : RemoteEnds(r)
  BY DEF Next, RunnerStep, Adopt, Approve, Wake, Refuse, Dispatch, Exit, GiveUp, Record, Reconcile, Observe,
         RecordObservation, Crash, Start, Listen, vars
<1> QED BY <1>1, <1>2, <1>3

\* A deployment is dispatched at most once over crashes and restarts: the dispatch is on disk before
\* the CLI starts, FAILED without a run means that GitHub never got it and never will, and a
\* deployment left UNKNOWN is not dispatched again.
THEOREM DispatchIsOnce == Spec => DispatchedAtMostOnce
<1>1. Init => Promise!Init
  <2> SUFFICES ASSUME Init, NEW d \in Deployment PROVE ClaimOf(d) = "UNCLAIMED" /\ Times(d) = 0
    BY DEF Promise!Init
  <2>1. row[d].run = NoRun /\ row[d].status = "NONE" /\ RunOf(d) = {}
    BY DEF Init, NoRow, RunOf
  <2> QED BY <2>1, FS_EmptySet DEF ClaimOf, Times
<1>2. DInv /\ DInv' /\ [Next]_vars => [Promise!Next]_(Promise!vars)
  <2> SUFFICES ASSUME DInv, DInv', [Next]_vars PROVE [Promise!Next]_(Promise!vars)
    OBVIOUS
  <2>1. ASSUME NEW d \in Deployment, NEW c \in Commit, Accept(d, c) PROVE Promise!Next
    BY <2>1, AcceptImplements
  <2>2. CASE ~\E d \in Deployment : \E c \in Commit : Accept(d, c)
    <3>1. \A e \in Deployment : RunOf(e)' = RunOf(e)
      BY <2>2, RemoteKept
    <3>2. CASE row' = row
      <4>1. \A e \in Deployment : ClaimOf(e)' = ClaimOf(e) /\ Times(e)' = Times(e)
        BY <3>1, <3>2 DEF ClaimOf, Times
      <4> QED BY <4>1 DEF Promise!vars
    <3>3. ASSUME NEW d \in Deployment, Moves(d) PROVE [Promise!Next]_(Promise!vars)
      BY <3>1, <3>3, RowImplements
    <3> QED BY <3>2, <3>3, RowSteps
  <2> QED BY <2>1, <2>2
<1> QED BY <1>1, <1>2, DeploymentInvariant, PTL DEF Spec, DispatchedAtMostOnce, Promise!Spec

----
(* WorkItems *)

CONSTANTS Item, NoItem
VARIABLES item, blocks
Board == INSTANCE WorkItems

\* Of the items each one waits for another of them.
Circle(items, graph) == \A i \in items : \E b \in items : <<b, i>> \in graph

\* The search takes away, again and again, what nothing of the rest blocks: it finds a circle where
\* there is one.
LEMMA CircleIsFound ==
    ASSUME IsFiniteSet(Item), NEW graph
    PROVE  Board!HasCycle(graph) <=> \E items \in SUBSET Item : items # {} /\ Circle(items, graph)
<1> DEFINE Free(items) == {i \in items : \A b \in items : <<b, i>> \notin graph}
           Step(f) == [items \in SUBSET Item |-> IF Free(items) = {} THEN items ELSE f[items \ Free(items)]]
           Left == CHOOSE f : f = Step(f)
           Widest(items) == UNION {S \in SUBSET items : Circle(S, graph)}
           Witness == [items \in SUBSET Item |-> Widest(items)]
<1>1. \A items \in SUBSET Item : Free(items) = {} => Widest(items) = items
  BY DEF Circle
<1>2. \A items \in SUBSET Item : Widest(items) = Widest(items \ Free(items))
  <2>1. \A items, S : S \in SUBSET items /\ Circle(S, graph) => S \in SUBSET (items \ Free(items))
    BY DEF Circle
  <2> QED BY <2>1
<1>3. Witness = Step(Witness)
  <2>1. \A items \in SUBSET Item : Witness[items] = Step(Witness)[items]
    BY <1>1, <1>2
  <2> QED BY <2>1
<1>4. Left = Step(Left)
  BY <1>3
<1>5. Board!HasCycle(graph) <=> Left[Item] # {}
  BY DEF Board!HasCycle
<1> HIDE DEF Left
<1>6. \A items \in SUBSET Item : Left[items] = IF Free(items) = {} THEN items ELSE Left[items \ Free(items)]
  BY <1>4
<1>7. \A items \in SUBSET Item : Left[items] = Widest(items)
  <2> DEFINE Wrong == {items \in FiniteSubsetsOf(Item) : Left[items] # Widest(items)}
  <2>1. FiniteSubsetsOf(Item) = SUBSET Item
    BY FS_Subset DEF FiniteSubsetsOf
  <2>2. Wrong = {}
    <3>1. SUFFICES ASSUME Wrong # {} PROVE FALSE
      OBVIOUS
    <3>2. PICK items \in Wrong : \A other \in Wrong : ~(<<other, items>> \in StrictSubsetOrdering(Item))
      BY <3>1, FS_StrictSubsetOrderingWellFounded, WFMin
    <3>3. Free(items) # {}
      BY <1>1, <1>6, <2>1, <3>2
    <3>4. /\ items \ Free(items) \in SUBSET Item /\ items \ Free(items) # items
          /\ Left[items] = Left[items \ Free(items)]
      BY <1>6, <2>1, <3>2, <3>3
    <3>5. items \ Free(items) \in Wrong
      BY <1>2, <2>1, <3>2, <3>4
    <3> QED BY <2>1, <3>2, <3>4, <3>5 DEF StrictSubsetOrdering
  <2> QED BY <2>1, <2>2
<1> QED BY <1>5, <1>7

----
(* The board *)

\* A WorkItem whose run is active is worked on or waits.
ActiveIsOpen == \A i \in Item : Board!Active(i) => item[i].state \in {"IN_PROGRESS", "BLOCKED"}

BoardInv ==
    /\ Board!TypeOK /\ ActiveIsOpen
    /\ Board!NothingWaitsInACircle /\ Board!DeliveredRestsOnDelivered

\* One row is written, and of its states only one that nothing can leave is relied on by others.
RowWritten(i, aRow) ==
    /\ Board!Persist(i, aRow)
    /\ aRow \in [state : Board!State, parent : Item \cup {NoItem}, run : {"NONE", "ACTIVE", "OVER"}]
    /\ item[i].state # "DONE"
    /\ aRow.run = "ACTIVE" => aRow.state \in {"IN_PROGRESS", "BLOCKED"}
    /\ aRow.run = "ACTIVE" \/ aRow.state = "DONE" => Board!Active(i) \/ Board!Unsatisfied(i) = {}

\* A row that is written keeps the order of the items, when it waits for nobody or was allowed to go on.
LEMMA RowWrittenKeeps ==
    ASSUME BoardInv, NEW i \in Item, NEW aRow, RowWritten(i, aRow)
    PROVE  BoardInv'
<1> USE DEF BoardInv, RowWritten, Board!Persist
<1>1. Board!TypeOK'
  BY DEF Board!TypeOK, Board!State
<1>2. \A j \in Item : item'[j] = IF j = i THEN aRow ELSE item[j]
  BY DEF Board!TypeOK
<1>3. ActiveIsOpen'
  BY <1>2 DEF ActiveIsOpen, Board!Active
<1>4. Board!NothingWaitsInACircle'
  BY DEF Board!NothingWaitsInACircle
<1>5. Board!DeliveredRestsOnDelivered'
  <2>1. SUFFICES ASSUME NEW j \in Item, item'[j].run = "ACTIVE" \/ item'[j].state = "DONE",
                        NEW b \in Item, <<b, j>> \in blocks
                 PROVE  item'[b].state = "DONE"
    BY DEF Board!DeliveredRestsOnDelivered, Board!Active, Board!Blockers
  <2>2. item[b].state = "DONE"
    BY <1>2, <2>1 DEF Board!DeliveredRestsOnDelivered, Board!Active, Board!Blockers, Board!Unsatisfied
  <2> QED BY <1>2, <2>2
<1> QED BY <1>1, <1>3, <1>4, <1>5

\* No step breaks the invariant.
LEMMA BoardStep ==
    ASSUME IsFiniteSet(Item), BoardInv, Board!Next
    PROVE  BoardInv'
<1>1. PICK i \in Item :
         \/ \E parent \in Item \cup {NoItem} : Board!CreateWorkItem(i, parent)
         \/ \E target \in Board!State : Board!MoveWorkItem(i, target)
         \/ \E blockers \in SUBSET Item : Board!SetWorkItemDependencies(i, blockers)
         \/ Board!StartPipeline(i) \/ Board!Waits(i) \/ Board!GoesOn(i)
         \/ \E state \in {"DONE", "BLOCKED", "CANCELLED"} : Board!Ends(i, state)
  BY DEF Board!Next
<1>2. /\ item[i] \in [state : Board!State \cup {"NONE"}, parent : Item \cup {NoItem},
                      run : {"NONE", "ACTIVE", "OVER"}]
      /\ Board!Active(i) => item[i].state \in {"IN_PROGRESS", "BLOCKED"}
  BY DEF BoardInv, Board!TypeOK, ActiveIsOpen
<1>3. CASE \E parent \in Item \cup {NoItem} : Board!CreateWorkItem(i, parent)
  <2>1. PICK parent \in Item \cup {NoItem} : Board!CreateWorkItem(i, parent)
    BY <1>3
  <2>2. RowWritten(i, [state |-> "BACKLOG", parent |-> parent, run |-> "NONE"])
    BY <2>1 DEF RowWritten, Board!CreateWorkItem, Board!Exists, Board!State
  <2> QED BY <2>2, RowWrittenKeeps
<1>4. CASE \E target \in Board!State : Board!MoveWorkItem(i, target)
  <2>1. PICK target \in Board!State : Board!MoveWorkItem(i, target)
    BY <1>4
  <2>2. /\ target # "DONE" /\ item[i].state # "DONE" /\ item[i].state \in Board!State /\ item[i].run # "ACTIVE"
        /\ Board!Persist(i, [item[i] EXCEPT !.state = target])
    BY <1>2, <2>1 DEF Board!MoveWorkItem, Board!MayMove, Board!Movable, Board!allowedTransitions, Board!Exists,
                      Board!Active, Board!State
  <2>3. RowWritten(i, [item[i] EXCEPT !.state = target])
    BY <1>2, <2>2 DEF RowWritten
  <2> QED BY <2>3, RowWrittenKeeps
<1>5. CASE \E blockers \in SUBSET Item : Board!SetWorkItemDependencies(i, blockers)
  <2>1. PICK blockers \in SUBSET Item : Board!SetWorkItemDependencies(i, blockers)
    BY <1>5
  <2>2. /\ item' = item /\ blocks' = Board!Replaced(i, blockers) /\ blocks' \subseteq Item \X Item
        /\ ~Board!Active(i) /\ item[i].state # "DONE" /\ ~Board!HasCycle(Board!Replaced(i, blockers))
    BY <2>1 DEF Board!SetWorkItemDependencies, Board!Settable, Board!Replaced, BoardInv, Board!TypeOK
  <2>3. Board!NothingWaitsInACircle'
    BY <2>2, CircleIsFound DEF Circle, Board!NothingWaitsInACircle
  <2>4. \A j \in Item : j # i => \A b \in Item : <<b, j>> \in blocks' => <<b, j>> \in blocks
    BY <2>2 DEF Board!Replaced
  <2>5. Board!DeliveredRestsOnDelivered'
    BY <2>2, <2>4 DEF BoardInv, Board!DeliveredRestsOnDelivered, Board!Blockers, Board!Active
  <2> QED BY <2>2, <2>3, <2>5 DEF BoardInv, Board!TypeOK, ActiveIsOpen, Board!Active
<1>6. CASE Board!StartPipeline(i)
  <2>1. RowWritten(i, [item[i] EXCEPT !.state = "IN_PROGRESS", !.run = "ACTIVE"])
    BY <1>2, <1>6 DEF RowWritten, Board!StartPipeline, Board!Startable, Board!State
  <2> QED BY <2>1, RowWrittenKeeps
<1>7. CASE Board!Waits(i)
  <2>1. RowWritten(i, [item[i] EXCEPT !.state = "BLOCKED"])
    BY <1>2, <1>7 DEF RowWritten, Board!Waits, Board!State
  <2> QED BY <2>1, RowWrittenKeeps
<1>8. CASE Board!GoesOn(i)
  <2>1. RowWritten(i, [item[i] EXCEPT !.state = "IN_PROGRESS"])
    BY <1>2, <1>8 DEF RowWritten, Board!GoesOn, Board!State
  <2> QED BY <2>1, RowWrittenKeeps
<1>9. CASE \E state \in {"DONE", "BLOCKED", "CANCELLED"} : Board!Ends(i, state)
  <2>1. PICK state \in {"DONE", "BLOCKED", "CANCELLED"} : Board!Ends(i, state)
    BY <1>9
  <2>2. RowWritten(i, [item[i] EXCEPT !.state = state, !.run = "OVER"])
    BY <1>2, <2>1 DEF RowWritten, Board!Ends, Board!State
  <2> QED BY <2>2, RowWrittenKeeps
<1> QED BY <1>1, <1>3, <1>4, <1>5, <1>6, <1>7, <1>8, <1>9

\* The invariant of WorkItems, for any finite set of items.
THEOREM BoardCorrect == ASSUME IsFiniteSet(Item) PROVE Board!Spec => []BoardInv
<1>1. Board!Init => BoardInv
  BY DEF Board!Init, Board!Absent, BoardInv, Board!TypeOK, Board!State, ActiveIsOpen, Board!Active,
         Board!NothingWaitsInACircle, Board!DeliveredRestsOnDelivered, Board!Blockers
<1>2. BoardInv /\ UNCHANGED Board!vars => BoardInv'
  BY DEF Board!vars, BoardInv, Board!TypeOK, ActiveIsOpen, Board!Active, Board!NothingWaitsInACircle,
         Board!DeliveredRestsOnDelivered, Board!Blockers
<1>3. BoardInv /\ [Board!Next]_(Board!vars) => BoardInv'
  BY <1>2, BoardStep
<1> QED BY <1>1, <1>3, PTL DEF Board!Spec

\* No items wait for each other in a circle.
THEOREM NothingWaits == ASSUME IsFiniteSet(Item) PROVE Board!Spec => []Board!NothingWaitsInACircle
<1>1. BoardInv => Board!NothingWaitsInACircle
  BY DEF BoardInv
<1> QED BY <1>1, BoardCorrect, PTL

\* What is delivered rests on what is delivered.
THEOREM DeliveredStays == ASSUME IsFiniteSet(Item) PROVE Board!Spec => []Board!DeliveredRestsOnDelivered
<1>1. BoardInv => Board!DeliveredRestsOnDelivered
  BY DEF BoardInv
<1> QED BY <1>1, BoardCorrect, PTL

\* What the page offers is accepted.
THEOREM OffersHold == ASSUME IsFiniteSet(Item) PROVE Board!Spec => []Board!OfferedIsAccepted
<1>1. BoardInv => Board!OfferedIsAccepted
  <2>1. SUFFICES ASSUME BoardInv, NEW i \in Item, Board!Exists(i)
                 PROVE  /\ Board!StartOffered(i) <=> Board!Startable(i) /\ item[i].run = "NONE"
                        /\ \A target \in Board!State : Board!MayMove(i, target) <=>
                              target \in Board!MovesOffered(i)
                              /\ ~(target = "IN_PROGRESS" /\ Board!Children(i) # {})
                        /\ Board!EditOffered(i) /\ Board!Blockers(i) # {} => Board!Settable(i, {})
    BY DEF Board!OfferedIsAccepted
  <2>2. item[i].state \in Board!State /\ item[i].run \in {"NONE", "ACTIVE", "OVER"}
    BY <2>1 DEF BoardInv, Board!TypeOK, Board!Exists
  <2>3. Board!StartOffered(i) <=> Board!Startable(i) /\ item[i].run = "NONE"
    <3>1. Board!ViewOf(i).children = Board!Children(i) /\ Board!ViewOf(i).unsatisfied = Board!Unsatisfied(i)
      BY DEF Board!ViewOf, Board!Children, Board!Unsatisfied, Board!Blockers
    <3> QED BY <2>2, <3>1 DEF Board!StartOffered, Board!Startable, Board!Active
  <2>4. Board!transitionTargets[item[i].state] = Board!allowedTransitions(item[i].state)
    BY <2>2 DEF Board!transitionTargets, Board!allowedTransitions, Board!State
  <2>5. \A target \in Board!State : Board!MayMove(i, target) <=>
           target \in Board!MovesOffered(i) /\ ~(target = "IN_PROGRESS" /\ Board!Children(i) # {})
    BY <2>1, <2>4 DEF Board!MayMove, Board!Movable, Board!MovesOffered
  <2>6. ASSUME Board!EditOffered(i), Board!Blockers(i) # {}
        PROVE  Board!Settable(i, {})
    <3>1. Board!Replaced(i, {}) \subseteq blocks /\ Board!Replaced(i, {}) # blocks
      BY <2>6 DEF Board!Replaced, Board!Blockers
    <3>2. ~Board!HasCycle(Board!Replaced(i, {}))
      BY <2>1, <3>1, CircleIsFound DEF Circle, BoardInv, Board!NothingWaitsInACircle
    <3> QED BY <2>6, <3>1, <3>2 DEF Board!Settable, Board!EditOffered
  <2> QED BY <2>3, <2>5, <2>6
<1> QED BY <1>1, BoardCorrect, PTL

----
(* DemoProject *)

CONSTANTS Tab, MaxBuilds, MaxFaults
VARIABLES target, staging, old, path, cut, tasks, receipt, request, shown, faults
Demo == INSTANCE DemoProject

\* What counts sets in the instance is what the library's theorems are about.
LEMMA DemoCounts == \A S : Demo!Cardinality(S) = Cardinality(S)
  BY DEF Demo!Cardinality, Cardinality, Demo!IsFiniteSet, IsFiniteSet

\* A staging directory is of one registration, which made it from nothing.
BuildsApart ==
    /\ \A t \in Tab : request[t].build # 0 => request[t].step = "STAGING"
    /\ \A t \in Tab : request[t].step = "STAGING" =>
          /\ request[t].build \in Demo!Builds \ old
          /\ staging[request[t].build] \in {"EMPTY", "COMMITTED"}
          /\ \A u \in Tab : u # t => request[u].build # request[t].build
    /\ \A b \in old : staging[b] # "NONE"

\* The only task there ever was is the receipt's.
TaskIsReceipted == \A n \in Demo!Tasks : tasks[n] # "NONE" => n = receipt

DemoInv ==
    /\ Demo!TypeOK /\ BuildsApart /\ TaskIsReceipted
    /\ \A t \in Tab : request[t].step = "FOUND" /\ ~request[t].moved => target.is = "REPOSITORY"
    /\ cut # "NONE" => path # "NONE"

----
Request == [step : {"IDLE", "LOOKING", "STAGING", "FOUND", "CREATING"}, stale : Demo!Paths,
            build : 0 .. MaxBuilds, moved : BOOLEAN]

\* The bounds are numbers, as is the number of tabs.
DemoBounds == MaxBuilds \in Nat /\ MaxFaults \in Nat /\ Demo!Cardinality(Tab) \in Nat

\* An idle one is of its type.
LEMMA IdleType == ASSUME DemoBounds PROVE Demo!Idle \in Request /\ Demo!Idle.step = "IDLE" /\ Demo!Idle.build = 0
  BY DEF DemoBounds, Demo!Idle, Request, Demo!Paths

\* A tab asks for something that needs no staging directory, or gives its own up.
LEMMA AskKeeps ==
    ASSUME DemoBounds, DemoInv, NEW t \in Tab, NEW r \in Request, Demo!Ask(t, r), r.step # "STAGING", r.build = 0,
           old' = old, staging' \in [Demo!Builds -> {"NONE", "EMPTY", "COMMITTED", "GONE"}],
           \A b \in Demo!Builds : staging'[b] = staging[b]
              \/ (request[t].step = "STAGING" /\ b = request[t].build /\ staging'[b] # "NONE")
    PROVE  /\ request' \in [Tab -> Request] /\ BuildsApart'
           /\ \A u \in Tab : request'[u] = IF u = t THEN r ELSE request[u]
<1>1. request \in [Tab -> Request] /\ request' \in [Tab -> Request]
      /\ \A u \in Tab : request'[u] = IF u = t THEN r ELSE request[u]
  BY DEF DemoInv, Demo!TypeOK, Demo!Ask, Request
<1>2. old \subseteq Demo!Builds /\ \A b \in old : staging[b] # "NONE"
  BY DEF DemoInv, Demo!TypeOK, BuildsApart
<1>3. \A u \in Tab : request'[u].build # 0 => request'[u].step = "STAGING"
  BY <1>1 DEF DemoInv, BuildsApart
<1>4. ASSUME NEW u \in Tab, request'[u].step = "STAGING"
      PROVE  /\ request'[u].build \in Demo!Builds \ old'
             /\ staging'[request'[u].build] \in {"EMPTY", "COMMITTED"}
             /\ \A o \in Tab : o # u => request'[o].build # request'[u].build
  <2>1. /\ u # t /\ request'[u] = request[u] /\ request[u].build \in Demo!Builds \ old
        /\ staging[request[u].build] \in {"EMPTY", "COMMITTED"}
        /\ \A o \in Tab : o # u => request[o].build # request[u].build
    BY <1>1, <1>4 DEF DemoInv, BuildsApart
  <2>2. request[u].build # 0
    BY <2>1 DEF Demo!Builds
  <2> QED BY <1>1, <2>1, <2>2
<1>5. \A b \in old' : staging'[b] # "NONE"
  BY <1>2
<1> QED BY <1>1, <1>3, <1>4, <1>5 DEF BuildsApart, Demo!Builds

\* The invariant outlives Register.
LEMMA RegisterKeeps == ASSUME DemoBounds, DemoInv, NEW t \in Tab, Demo!Register(t) PROVE DemoInv'
<1> DEFINE r == [Demo!Idle EXCEPT !.step = "LOOKING", !.stale = path]
<1>1. r \in Request /\ r.step = "LOOKING" /\ r.build = 0
  BY IdleType DEF DemoInv, Demo!TypeOK, Request
<1>a. Demo!Ask(t, r) /\ UNCHANGED <<target, staging, old, path, cut, tasks, receipt, shown, faults>>
  BY DEF Demo!Register
<1> HIDE DEF r
<1>2. /\ request' \in [Tab -> Request] /\ BuildsApart'
      /\ \A u \in Tab : request'[u] = IF u = t THEN r ELSE request[u]
  BY <1>1, <1>a, AskKeeps DEF DemoInv, Demo!TypeOK
<1>3. QED
  BY <1>1, <1>2 DEF DemoInv, TaskIsReceipted, Demo!Register, Demo!TypeOK, Request, Demo!Tasks, Demo!Builds, Demo!Paths

\* A registration that adopts what is there has found a repository.
LEMMA AdoptKeeps ==
    ASSUME DemoBounds, DemoInv, NEW t \in Tab, NEW r, r = [Demo!Adopted EXCEPT !.stale = request[t].stale]
    PROVE  /\ r \in Request /\ r.step # "STAGING" /\ r.build = 0
           /\ r.step = "FOUND" => target.is = "REPOSITORY"
<1>1. request[t].stale \in Demo!Paths
  BY DEF DemoInv, Demo!TypeOK
<1>2. CASE target.is = "REPOSITORY"
  <2>1. Demo!Adopted = [Demo!Idle EXCEPT !.step = "FOUND"]
    BY <1>2 DEF Demo!Adopted
  <2>2. Demo!Adopted \in Request /\ Demo!Adopted.build = 0 /\ Demo!Adopted.step = "FOUND"
    BY <2>1, IdleType DEF Request
  <2> QED BY <1>1, <1>2, <2>2 DEF Request
<1>3. CASE target.is # "REPOSITORY"
  BY <1>1, <1>3, IdleType DEF Demo!Adopted, Request
<1> QED BY <1>2, <1>3

\* The invariant outlives Look.
LEMMA LookKeeps == ASSUME DemoBounds, DemoInv, NEW t \in Tab, Demo!Look(t) PROVE DemoInv'
<1>1. CASE target.is # "NOTHING"
  <2> DEFINE r == [Demo!Adopted EXCEPT !.stale = request[t].stale]
  <2>1. /\ r \in Request /\ r.step # "STAGING" /\ r.build = 0
        /\ r.step = "FOUND" => target.is = "REPOSITORY"
    BY AdoptKeeps
  <2> HIDE DEF r
  <2>2. Demo!Ask(t, r) /\ UNCHANGED <<staging, old, target, path, cut, tasks, receipt, shown, faults>>
    BY <1>1 DEF Demo!Look, r
  <2>3. /\ request' \in [Tab -> Request] /\ BuildsApart'
        /\ \A u \in Tab : request'[u] = IF u = t THEN r ELSE request[u]
    BY <2>1, <2>2, AskKeeps DEF DemoInv, Demo!TypeOK
  <2> QED BY <2>1, <2>2, <2>3 DEF DemoInv, TaskIsReceipted, Demo!TypeOK, Request, Demo!Tasks, Demo!Builds, Demo!Paths
<1>2. CASE target.is = "NOTHING"
  <2>1. PICK b \in Demo!Builds :
           /\ staging[b] = "NONE"
           /\ staging' = [Demo!Left(Demo!Swept) EXCEPT ![b] = "EMPTY"] /\ old' = old \ Demo!Swept
           /\ Demo!Ask(t, [request[t] EXCEPT !.step = "STAGING", !.build = b])
    BY <1>2 DEF Demo!Look
  <2> DEFINE r == [request[t] EXCEPT !.step = "STAGING", !.build = b]
  <2>2. request[t] \in Request /\ request[t].step = "LOOKING"
    BY DEF Demo!Look, DemoInv, Demo!TypeOK, Request
  <2>3. r \in Request /\ r.step = "STAGING" /\ r.build = b
    <3>1. b \in 0 .. MaxBuilds
      BY DEF Demo!Builds, DemoBounds
    <3> QED BY <2>2, <3>1 DEF Request
  <2> HIDE DEF r
  <2>4. /\ request' \in [Tab -> Request]
        /\ \A u \in Tab : request'[u] = IF u = t THEN r ELSE request[u]
    BY <2>1, <2>3 DEF Demo!Ask, DemoInv, Demo!TypeOK, Request, r
  <2>5. /\ old' = {} /\ staging' \in [Demo!Builds -> {"NONE", "EMPTY", "COMMITTED", "GONE"}]
        /\ staging'[b] = "EMPTY"
        /\ \A c \in Demo!Builds : c # b /\ c \notin old => staging'[c] = staging[c]
    BY <2>1 DEF Demo!Left, Demo!Swept, DemoInv, Demo!TypeOK
  <2>6. UNCHANGED <<target, path, cut, tasks, receipt, shown, faults>>
    BY DEF Demo!Look
  <2>7. \A u \in Tab : request'[u].build # 0 => request'[u].step = "STAGING"
    BY <2>3, <2>4 DEF DemoInv, BuildsApart
  <2>8. ASSUME NEW u \in Tab, request'[u].step = "STAGING"
        PROVE  /\ request'[u].build \in Demo!Builds \ old'
               /\ staging'[request'[u].build] \in {"EMPTY", "COMMITTED"}
               /\ \A o \in Tab : o # u => request'[o].build # request'[u].build
    <3>1. \A o \in Tab : request[o].build = b => FALSE
      BY <2>1 DEF DemoInv, BuildsApart, Demo!Builds
    <3>2. CASE u = t
      BY <2>3, <2>4, <2>5, <3>1, <3>2
    <3>3. CASE u # t
      <4>1. /\ request'[u] = request[u] /\ request[u].build \in Demo!Builds \ old
            /\ staging[request[u].build] \in {"EMPTY", "COMMITTED"}
            /\ \A o \in Tab : o # u => request[o].build # request[u].build
        BY <2>4, <2>8, <3>3 DEF DemoInv, BuildsApart
      <4> QED BY <2>3, <2>4, <2>5, <3>1, <4>1
    <3> QED BY <3>2, <3>3
  <2>9. BuildsApart'
    BY <2>5, <2>7, <2>8 DEF BuildsApart, Demo!Builds
  <2>10. QED
    BY <2>3, <2>4, <2>5, <2>6, <2>9 DEF DemoInv, TaskIsReceipted, Demo!TypeOK, Request, Demo!Tasks, Demo!Builds, Demo!Paths
<1> QED BY <1>1, <1>2

\* The invariant outlives Commit.
LEMMA CommitKeeps == ASSUME DemoBounds, DemoInv, NEW t \in Tab, Demo!Commit(t) PROVE DemoInv'
<1>1. /\ staging' \in [Demo!Builds -> {"NONE", "EMPTY", "COMMITTED", "GONE"}]
      /\ \A b \in Demo!Builds : staging'[b] = IF b = request[t].build THEN "COMMITTED" ELSE staging[b]
      /\ request[t].build \in Demo!Builds
  BY DEF DemoInv, Demo!TypeOK, Demo!Commit, BuildsApart
<1>2. BuildsApart'
  BY <1>1 DEF BuildsApart, DemoInv, Demo!TypeOK, Demo!Commit, Demo!Builds
<1> QED BY <1>1, <1>2 DEF DemoInv, TaskIsReceipted, Demo!Commit, Demo!TypeOK, Demo!Tasks

\* The invariant outlives Builds.
LEMMA LeftKeeps ==
    ASSUME DemoBounds, DemoInv, NEW b \in Demo!Builds
    PROVE  /\ Demo!Left({b}) \in [Demo!Builds -> {"NONE", "EMPTY", "COMMITTED", "GONE"}]
           /\ \A c \in Demo!Builds : c # b => Demo!Left({b})[c] = staging[c]
           /\ staging[b] # "NONE" => Demo!Left({b})[b] = "GONE"
  BY DEF DemoInv, Demo!TypeOK, Demo!Left

\* The invariant outlives Place.
LEMMA PlaceKeeps == ASSUME DemoBounds, DemoInv, NEW t \in Tab, Demo!Place(t) PROVE DemoInv'
<1> DEFINE r == [request[t] EXCEPT !.step = "FOUND", !.build = 0]
           b == request[t].build
<1>1. b \in Demo!Builds /\ staging[b] = "COMMITTED" /\ request[t].step = "STAGING"
  BY DEF DemoInv, BuildsApart, Demo!Place
<1>2. r \in Request /\ r.step = "FOUND" /\ r.build = 0
  <2>1. request[t] \in Request /\ 0 \in 0 .. MaxBuilds
    BY <1>1 DEF DemoBounds, DemoInv, Demo!TypeOK, Request, Demo!Builds
  <2> QED BY <2>1 DEF Request
<1>3. /\ target' = [is |-> "REPOSITORY", build |-> b] /\ staging' = Demo!Left({b}) /\ Demo!Ask(t, r)
      /\ UNCHANGED <<old, path, cut, tasks, receipt, shown, faults>>
  BY DEF Demo!Place
<1> HIDE DEF r, b
<1>4. /\ staging' \in [Demo!Builds -> {"NONE", "EMPTY", "COMMITTED", "GONE"}]
      /\ \A c \in Demo!Builds : c # b => staging'[c] = staging[c]
      /\ staging'[b] = "GONE"
  BY <1>1, <1>3, LeftKeeps
<1>5. /\ request' \in [Tab -> Request] /\ BuildsApart'
      /\ \A u \in Tab : request'[u] = IF u = t THEN r ELSE request[u]
  BY <1>1, <1>2, <1>3, <1>4, AskKeeps DEF b
<1>6. target' \in [is : {"NOTHING", "REPOSITORY", "DIRECTORY"}, build : 0 .. MaxBuilds] /\ target'.is = "REPOSITORY"
  BY <1>1, <1>3 DEF Demo!Builds
<1>7. QED
  BY <1>2, <1>3, <1>4, <1>5, <1>6 DEF DemoInv, TaskIsReceipted, Demo!TypeOK, Request, Demo!Tasks, Demo!Builds, Demo!Paths

\* The invariant outlives GiveUp.
LEMMA GiveUpKeeps == ASSUME DemoBounds, DemoInv, NEW t \in Tab, Demo!GiveUp(t) PROVE DemoInv'
<1> DEFINE r == IF target.is = "NOTHING" THEN Demo!Idle ELSE [Demo!Adopted EXCEPT !.stale = request[t].stale]
           b == request[t].build
<1>1. b \in Demo!Builds /\ staging[b] \in {"EMPTY", "COMMITTED"} /\ request[t].step = "STAGING"
  BY DEF DemoInv, BuildsApart, Demo!GiveUp
<1>2. /\ r \in Request /\ r.step # "STAGING" /\ r.build = 0
      /\ r.step = "FOUND" => target.is = "REPOSITORY"
  <2>1. CASE target.is = "NOTHING"
    BY <2>1, IdleType
  <2>2. CASE target.is # "NOTHING"
    BY <2>2, AdoptKeeps
  <2> QED BY <2>1, <2>2
<1>3. /\ staging' = Demo!Left({b}) /\ Demo!Ask(t, r)
      /\ UNCHANGED <<target, old, path, cut, tasks, receipt, shown, faults>>
  BY DEF Demo!GiveUp
<1> HIDE DEF r, b
<1>4. /\ staging' \in [Demo!Builds -> {"NONE", "EMPTY", "COMMITTED", "GONE"}]
      /\ \A c \in Demo!Builds : c # b => staging'[c] = staging[c]
      /\ staging'[b] = "GONE"
  BY <1>1, <1>3, LeftKeeps
<1>5. /\ request' \in [Tab -> Request] /\ BuildsApart'
      /\ \A u \in Tab : request'[u] = IF u = t THEN r ELSE request[u]
  BY <1>1, <1>2, <1>3, <1>4, AskKeeps DEF b
<1>6. QED
  BY <1>2, <1>3, <1>4, <1>5 DEF DemoInv, TaskIsReceipted, Demo!TypeOK, Request, Demo!Tasks, Demo!Builds, Demo!Paths

\* The invariant outlives Ask and Idle.
LEMMA RestKeeps ==
    ASSUME DemoBounds, DemoInv, NEW t \in Tab, Demo!Ask(t, Demo!Idle), UNCHANGED <<staging, old>>
    PROVE  /\ request' \in [Tab -> Request] /\ BuildsApart'
           /\ \A u \in Tab : request'[u] = IF u = t THEN Demo!Idle ELSE request[u]
  BY IdleType, AskKeeps DEF DemoInv, Demo!TypeOK

\* The invariant outlives Record.
LEMMA RecordKeeps == ASSUME DemoBounds, DemoInv, NEW t \in Tab, Demo!Record(t) PROVE DemoInv'
<1>1. /\ request' \in [Tab -> Request] /\ BuildsApart'
      /\ \A u \in Tab : request'[u] = IF u = t THEN Demo!Idle ELSE request[u]
  BY RestKeeps DEF Demo!Record
<1>2. path' \in Demo!Paths /\ (path # "NONE" => path' # "NONE")
  BY DEF Demo!Record, Demo!Paths, DemoInv, Demo!TypeOK
<1>3. UNCHANGED <<target, staging, old, cut, tasks, receipt, shown, faults>>
  BY DEF Demo!Record
<1>4. QED
  BY <1>1, <1>2, <1>3 DEF DemoInv, TaskIsReceipted, Demo!TypeOK, Request, Demo!Tasks, Demo!Builds, Demo!Paths, Demo!Idle

\* The invariant outlives Load.
LEMMA LoadKeeps == ASSUME DemoBounds, DemoInv, NEW t \in Tab, Demo!Load(t) PROVE DemoInv'
<1>1. shown' \in [Tab -> 0 .. Demo!Cardinality(Tab)]
  <2>1. PICK n \in (IF Demo!Candidates = {} THEN {0} ELSE Demo!Candidates) : shown' = [shown EXCEPT ![t] = n]
    BY DEF Demo!Load
  <2>2. receipt \in 0 .. Demo!Cardinality(Tab)
    BY DEF DemoInv, Demo!TypeOK
  <2>3. n \in 0 .. Demo!Cardinality(Tab)
    BY <2>1, <2>2 DEF Demo!Candidates, Demo!Tasks, DemoBounds
  <2> QED BY <2>1, <2>3 DEF DemoInv, Demo!TypeOK
<1> QED BY <1>1 DEF DemoInv, TaskIsReceipted, BuildsApart, Demo!Load, Demo!TypeOK, Demo!Tasks, Demo!Builds, Demo!Paths

\* The invariant outlives Create.
LEMMA CreateKeeps == ASSUME DemoBounds, DemoInv, NEW t \in Tab, Demo!Create(t) PROVE DemoInv'
<1> DEFINE r == [Demo!Idle EXCEPT !.step = "CREATING"]
<1>1. r \in Request /\ r.step = "CREATING" /\ r.build = 0
  BY IdleType DEF Request
<1>2. /\ request' \in [Tab -> Request] /\ BuildsApart'
      /\ \A u \in Tab : request'[u] = IF u = t THEN r ELSE request[u]
  BY <1>1, AskKeeps DEF Demo!Create, DemoInv, Demo!TypeOK
<1> HIDE DEF r
<1>3. QED
  BY <1>1, <1>2 DEF DemoInv, TaskIsReceipted, Demo!Create, Demo!TypeOK, Request, Demo!Tasks, Demo!Builds, Demo!Paths

\* The invariant outlives Execute.
LEMMA ExecuteKeeps == ASSUME DemoBounds, DemoInv, NEW t \in Tab, Demo!Execute(t) PROVE DemoInv'
<1>1. /\ request' \in [Tab -> Request] /\ BuildsApart'
      /\ \A u \in Tab : request'[u] = IF u = t THEN Demo!Idle ELSE request[u]
  BY RestKeeps DEF Demo!Execute
<1>2. UNCHANGED <<target, staging, old, path, cut, faults>>
  BY DEF Demo!Execute
<1>3. /\ tasks' \in [Demo!Tasks -> {"NONE", "BACKLOG", "CANCELLED"}] /\ receipt' \in 0 .. Demo!Cardinality(Tab)
      /\ \A n \in Demo!Tasks : tasks'[n] # "NONE" => n = receipt'
  <2>1. CASE receipt # 0
    BY <2>1 DEF Demo!Execute, Demo!Replayed, DemoInv, Demo!TypeOK, TaskIsReceipted
  <2>2. CASE receipt = 0
    <3>1. PICK n \in Demo!Tasks : tasks' = [tasks EXCEPT ![n] = "BACKLOG"] /\ receipt' = n
      BY <2>2 DEF Demo!Execute, Demo!Replayed
    <3>2. \A m \in Demo!Tasks : tasks[m] = "NONE"
      BY <2>2 DEF DemoInv, TaskIsReceipted, Demo!Tasks
    <3>3. n \in 0 .. Demo!Cardinality(Tab)
      BY <3>1 DEF Demo!Tasks, DemoBounds
    <3> QED BY <3>1, <3>2, <3>3 DEF DemoInv, Demo!TypeOK
  <2> QED BY <2>1, <2>2
<1>4. shown' \in [Tab -> 0 .. Demo!Cardinality(Tab)]
  <2>1. 0 \in 0 .. Demo!Cardinality(Tab)
    BY DEF DemoBounds
  <2>2. shown \in [Tab -> 0 .. Demo!Cardinality(Tab)]
    BY DEF DemoInv, Demo!TypeOK
  <2>3. PICK n \in {receipt', 0} : shown' \in {shown, [shown EXCEPT ![t] = n]}
    BY DEF Demo!Execute
  <2> QED BY <1>3, <2>1, <2>2, <2>3
<1>5. TaskIsReceipted'
  BY <1>3 DEF TaskIsReceipted, Demo!Tasks
<1>6. QED
  BY <1>1, <1>2, <1>3, <1>4, <1>5 DEF DemoInv, Demo!TypeOK, Request, Demo!Tasks, Demo!Builds, Demo!Paths, Demo!Idle

\* What goes on around the tabs.
LEMMA SurroundingsKeep ==
    ASSUME DemoBounds, DemoInv,
           \/ \E n \in Demo!Tasks : Demo!Cancel(n)
           \/ \E b \in Demo!Builds : Demo!Age(b)
           \/ Demo!Cut \/ Demo!Meddle \/ Demo!Crash
    PROVE  DemoInv'
<1>1. ASSUME NEW n \in Demo!Tasks, Demo!Cancel(n) PROVE DemoInv'
  <2>1. /\ tasks' \in [Demo!Tasks -> {"NONE", "BACKLOG", "CANCELLED"}]
        /\ \A m \in Demo!Tasks : tasks'[m] # "NONE" => tasks[m] # "NONE"
    BY <1>1 DEF Demo!Cancel, DemoInv, Demo!TypeOK
  <2>2. QED
    BY <1>1, <2>1 DEF Demo!Cancel, DemoInv, TaskIsReceipted, BuildsApart, Demo!TypeOK, Demo!Tasks, Demo!Builds, Demo!Paths
<1>2. ASSUME NEW b \in Demo!Builds, Demo!Age(b) PROVE DemoInv'
  <2>1. BuildsApart'
    BY <1>2 DEF Demo!Age, DemoInv, Demo!TypeOK, BuildsApart, Demo!Builds
  <2> QED BY <1>2, <2>1 DEF Demo!Age, DemoInv, TaskIsReceipted, Demo!TypeOK, Demo!Tasks, Demo!Builds, Demo!Paths
<1>3. ASSUME Demo!Cut PROVE DemoInv'
  BY <1>3 DEF Demo!Cut, Demo!Usable, DemoInv, TaskIsReceipted, BuildsApart, Demo!TypeOK, Demo!Tasks, Demo!Builds, Demo!Paths
<1>4. ASSUME Demo!Meddle PROVE DemoInv'
  <2>1. /\ target' \in [is : {"NOTHING", "REPOSITORY", "DIRECTORY"}, build : 0 .. MaxBuilds] /\ faults' \in 0 .. MaxFaults
    BY <1>4 DEF Demo!Meddle, DemoInv, Demo!TypeOK, DemoBounds
  <2>2. request \in [Tab -> Request]
    BY DEF DemoInv, Demo!TypeOK, Request
  <2>3. \A t \in Tab : [request[t] EXCEPT !.moved = TRUE] \in Request
    BY <2>2 DEF Request
  <2>4. /\ request' \in [Tab -> Request]
        /\ \A t \in Tab : /\ request'[t].step = request[t].step /\ request'[t].build = request[t].build
                          /\ request'[t].step = "FOUND" => request'[t].moved
    BY <1>4, <2>2, <2>3 DEF Demo!Meddle, Request
  <2>5. BuildsApart'
    BY <1>4, <2>4 DEF Demo!Meddle, DemoInv, BuildsApart, Demo!Builds
  <2>6. QED
    BY <1>4, <2>1, <2>4, <2>5 DEF Demo!Meddle, DemoInv, TaskIsReceipted, Demo!TypeOK, Request, Demo!Tasks, Demo!Builds, Demo!Paths
<1>5. ASSUME Demo!Crash PROVE DemoInv'
  <2>1. request' \in [Tab -> Request] /\ faults' \in 0 .. MaxFaults /\ \A t \in Tab : request'[t] = Demo!Idle
    BY <1>5, IdleType DEF Demo!Crash, DemoInv, Demo!TypeOK, DemoBounds
  <2>2. BuildsApart'
    BY <1>5, <2>1 DEF Demo!Crash, DemoInv, BuildsApart, Demo!Builds, Demo!Idle
  <2>3. QED
    BY <1>5, <2>1, <2>2 DEF Demo!Crash, DemoInv, TaskIsReceipted, Demo!TypeOK, Request, Demo!Tasks, Demo!Builds, Demo!Paths, Demo!Idle
<1> QED BY <1>1, <1>2, <1>3, <1>4, <1>5

\* The invariant of DemoProject, for any finite set of tabs.
THEOREM DemoInvariant == ASSUME IsFiniteSet(Tab), MaxBuilds \in Nat, MaxFaults \in Nat PROVE Demo!Spec => []DemoInv
<1>1. DemoBounds
  BY DemoCounts, FS_CardinalityType DEF DemoBounds
<1>2. Demo!Init => DemoInv
  BY <1>1 DEF DemoBounds, Demo!Init, DemoInv, Demo!TypeOK, Demo!Tasks, Demo!Builds, Demo!Paths, Demo!Idle, BuildsApart,
              TaskIsReceipted
<1>3. DemoInv /\ Demo!Next => DemoInv'
  BY <1>1, RegisterKeeps, LookKeeps, CommitKeeps, PlaceKeeps, GiveUpKeeps, RecordKeeps, LoadKeeps, CreateKeeps,
     ExecuteKeeps, SurroundingsKeep DEF Demo!Next
<1>4. DemoInv /\ UNCHANGED Demo!vars => DemoInv'
  BY DEF Demo!vars, DemoInv, Demo!TypeOK, Demo!Tasks, Demo!Builds, Demo!Paths, BuildsApart, TaskIsReceipted
<1> QED BY <1>2, <1>3, <1>4, PTL DEF Demo!Spec

\* What a registration found is whole, and its staging directory stays while it works in it.
THEOREM FoundWhole ==
    ASSUME IsFiniteSet(Tab), MaxBuilds \in Nat, MaxFaults \in Nat PROVE Demo!Spec => []Demo!FoundIsWhole
<1>1. DemoInv => Demo!FoundIsWhole
  BY DEF DemoInv, BuildsApart, Demo!FoundIsWhole
<1> QED BY <1>1, DemoInvariant, PTL

\* However often it is asked for, there is one task.
THEOREM TaskIsOne == ASSUME IsFiniteSet(Tab), MaxBuilds \in Nat, MaxFaults \in Nat PROVE Demo!Spec => []Demo!OneTask
<1>1. DemoInv => Demo!OneTask
  <2>1. SUFFICES ASSUME DemoInv PROVE Demo!OneTask
    OBVIOUS
  <2> DEFINE made == {n \in Demo!Tasks : tasks[n] # "NONE"}
  <2>2. made \in SUBSET {receipt}
    BY <2>1 DEF DemoInv, TaskIsReceipted
  <2>3. Cardinality(made) <= 1
    <3>1. IsFiniteSet({receipt}) /\ Cardinality({receipt}) = 1
      BY FS_Singleton
    <3> QED BY ONLY <2>2, <3>1, FS_Subset
  <2> QED BY <2>3, DemoCounts DEF Demo!OneTask
<1> QED BY <1>1, DemoInvariant, PTL

\* A repository that is in place stays, and the Project stays with it once work was cut from it.
THEOREM WorkStays ==
    ASSUME IsFiniteSet(Tab), MaxBuilds \in Nat, MaxFaults \in Nat
    PROVE  Demo!Spec => [][Demo!WorkStaysInPlace]_(Demo!vars)
<1>1. DemoInv /\ [Demo!Next]_(Demo!vars) => [Demo!WorkStaysInPlace]_(Demo!vars)
  <2>1. SUFFICES ASSUME DemoInv, Demo!Next PROVE Demo!WorkStaysInPlace
    OBVIOUS
  <2>2. target.is = "REPOSITORY" => target'.build \in {target.build, 0}
    <3>1. ASSUME NEW t \in Tab, Demo!Place(t) PROVE target.is # "REPOSITORY"
      BY <3>1 DEF Demo!Place, Demo!MayPlace
    <3>2. ASSUME Demo!Meddle PROVE target'.build = 0
      BY <3>2 DEF Demo!Meddle
    <3>3. ASSUME NEW t \in Tab, Demo!Look(t) \/ Demo!Commit(t) \/ Demo!GiveUp(t) \/ Demo!Record(t)
          PROVE  target' = target
      BY <3>3 DEF Demo!Look, Demo!Commit, Demo!GiveUp, Demo!Record
    <3>4. ASSUME NEW t \in Tab, Demo!Register(t) \/ Demo!Load(t) \/ Demo!Create(t) \/ Demo!Execute(t)
          PROVE  target' = target
      BY <3>4 DEF Demo!Register, Demo!Load, Demo!Create, Demo!Execute
    <3>5. ASSUME \/ \E n \in Demo!Tasks : Demo!Cancel(n)
                 \/ \E b \in Demo!Builds : Demo!Age(b)
                 \/ Demo!Cut \/ Demo!Crash
          PROVE  target' = target
      BY <3>5 DEF Demo!Cancel, Demo!Age, Demo!Cut, Demo!Crash
    <3> QED BY <2>1, <3>1, <3>2, <3>3, <3>4, <3>5 DEF Demo!Next
  <2>3. cut # "NONE" => path' = path
    BY <2>1 DEF DemoInv, Demo!Next, Demo!Register, Demo!Look, Demo!Commit, Demo!Place, Demo!GiveUp, Demo!Record,
                Demo!Repoints, Demo!Load, Demo!Create, Demo!Execute, Demo!Cancel, Demo!Age, Demo!Cut, Demo!Meddle,
                Demo!Crash
  <2> QED BY <2>2, <2>3 DEF Demo!WorkStaysInPlace
<1> QED BY <1>1, DemoInvariant, PTL DEF Demo!Spec

----
(* LaunchMeasurement *)

CONSTANTS Run, Tree, MaxRevision, MaxBlocked
VARIABLES plan, run, measTask, asking, service, record, tree, ended, blocked, measPhase
Meas == INSTANCE LaunchMeasurement WITH task <- measTask, phase <- measPhase

\* What may be relied on of one run: a service is started by the only task the run ever has, whose record
\* stays until the service is gone.
RunIsHeld(r) ==
    /\ run[r].status = "NONE" => service[r] = "NONE" /\ measTask[r].at = "NONE" /\ r \notin ended /\ r \notin asking
    /\ measTask[r].at \in {"BEGIN", "STARTING"} => service[r] = "NONE"
    /\ measTask[r].at \notin {"NONE", "LEAVING"} => run[r].status \in Meas!Active
    /\ measTask[r].at \in {"STARTING", "HEALTH", "MEASURE", "STOPPING"} => r \in record
    /\ measTask[r].at = "LEAVING" => service[r] = "GONE"
    /\ service[r] = "ALIVE" => r \in record /\ run[r].status \in Meas!Active
    /\ r \in asking => measTask[r].at = "NONE"
    /\ r \in ended => run[r].status \notin {"RUNNING", "PASSED", "FAILED"}

OneIsActive == \A r, s \in Run : run[r].status \in Meas!Active /\ run[s].status \in Meas!Active => r = s
DownHasNoTask == measPhase \in {"DOWN", "BOOTING"} => asking = {} /\ \A r \in Run : measTask[r].at = "NONE"

MeasInv == Meas!TypeOK /\ (\A r \in Run : RunIsHeld(r)) /\ OneIsActive /\ DownHasNoTask

----
\* A step concerns one run: the others have the row, the task, the service and the record they had.
Concerns(r) ==
    /\ \A s \in Run \ {r} : run'[s] = run[s] /\ measTask'[s] = measTask[s] /\ service'[s] = service[s]
    /\ \A s \in Run \ {r} : (s \in record' <=> s \in record) /\ (s \in asking' <=> s \in asking)
                            /\ (s \in ended' <=> s \in ended)
    /\ run'[r].status \in Meas!Active => run[r].status \in Meas!Active \/ Meas!Reservable
    /\ measPhase' = measPhase /\ (measPhase \in {"DOWN", "BOOTING"} => measTask'[r].at = "NONE" /\ asking' = {})

\* A step that concerns one run keeps what holds of the others.
LEMMA ConcernsKeeps ==
    ASSUME MeasInv, NEW r \in Run, Concerns(r), Meas!TypeOK', RunIsHeld(r)'
    PROVE  MeasInv'
<1>1. ASSUME NEW s \in Run PROVE RunIsHeld(s)'
  BY <1>1 DEF Concerns, MeasInv, RunIsHeld, Meas!Active
<1>2. OneIsActive'
  BY DEF Concerns, MeasInv, OneIsActive, Meas!Reservable, Meas!Active
<1>3. DownHasNoTask'
  BY DEF Concerns, MeasInv, DownHasNoTask
<1> QED BY <1>1, <1>2, <1>3 DEF MeasInv

\* What the end of a run writes.
LEMMA InterruptedRow ==
    ASSUME Meas!TypeOK, NEW r \in Run, NEW owner \in BOOLEAN, NEW proved \in BOOLEAN
    PROVE  /\ Meas!Interrupted(r, owner, proved) \in [Run -> Meas!Row]
           /\ \A s \in Run \ {r} : Meas!Interrupted(r, owner, proved)[s] = run[s]
           /\ run[r].status \notin Meas!Active => Meas!Interrupted(r, owner, proved)[r] = run[r]
           /\ run[r].status \in Meas!Active =>
                Meas!Interrupted(r, owner, proved)[r].status \in IF proved THEN {"INTERRUPTED", "ERROR"} ELSE {"BLOCKED"}
  BY DEF Meas!TypeOK, Meas!Interrupted, Meas!Row, Meas!Status, Meas!Active

\* A run that is concluded is a row, and no longer active.
LEMMA ConcludedRow ==
    ASSUME Meas!TypeOK, NEW r \in Run, NEW outcome \in {"PASSED", "FAILED"}
    PROVE  /\ Meas!Concluded(r, outcome) \in [Run -> Meas!Row]
           /\ \A s \in Run \ {r} : Meas!Concluded(r, outcome)[s] = run[s]
           /\ run[r].status \notin Meas!Active => Meas!Concluded(r, outcome)[r] = run[r]
           /\ run[r].status \in Meas!Active =>
                Meas!Concluded(r, outcome)[r].status \in {"PASSED", "FAILED", "INTERRUPTED", "ERROR"}
           /\ run[r].status # "RUNNING" =>
                Meas!Concluded(r, outcome)[r].status \in {run[r].status, "INTERRUPTED", "ERROR"}
<1>1. CASE run[r].status = "RUNNING"
  BY <1>1 DEF Meas!TypeOK, Meas!Concluded, Meas!StillRunning, Meas!Row, Meas!Status, Meas!Active
<1>2. CASE run[r].status # "RUNNING"
  BY <1>2 DEF Meas!Concluded, Meas!StillRunning, Meas!TypeOK, Meas!Interrupted, Meas!Row, Meas!Status, Meas!Active
<1> QED BY <1>1, <1>2

\* The invariant outlives AdoptPlan and DisablePlan.
LEMMA PlanKeeps == ASSUME MeasInv, MaxRevision \in Nat, Meas!AdoptPlan \/ Meas!DisablePlan PROVE MeasInv'
<1>1. plan' \in Meas!Plan
  BY DEF Meas!AdoptPlan, Meas!DisablePlan, MeasInv, Meas!TypeOK, Meas!Plan
<1>2. UNCHANGED <<run, measTask, asking, service, record, tree, ended, blocked, measPhase>>
  BY DEF Meas!AdoptPlan, Meas!DisablePlan
<1>3. Meas!TypeOK'
  BY <1>1, <1>2 DEF MeasInv, Meas!TypeOK, Meas!Plan, Meas!Row, Meas!Task, Meas!Status, Meas!At, Meas!Why
<1> QED BY <1>2, <1>3 DEF MeasInv, RunIsHeld, OneIsActive, DownHasNoTask, Meas!Active

\* The invariant outlives Reserve.
LEMMA ReserveKeeps == ASSUME MeasInv, MaxRevision \in Nat, NEW r \in Run, NEW t \in Tree, Meas!Reserve(r, t) PROVE MeasInv'
<1>1. /\ run' \in [Run -> Meas!Row] /\ run'[r].status = "RUNNING" /\ \A s \in Run \ {r} : run'[s] = run[s]
      /\ measTask' \in [Run -> Meas!Task] /\ measTask'[r].at = "BEGIN" /\ \A s \in Run \ {r} : measTask'[s] = measTask[s]
  BY DEF Meas!Reserve, MeasInv, Meas!TypeOK, Meas!Plan, Meas!Row, Meas!Task, Meas!Status, Meas!At
<1>2. /\ UNCHANGED <<plan, asking, service, record, tree, ended, blocked, measPhase>> /\ measPhase = "UP"
      /\ run[r].status = "NONE" /\ Meas!Reservable
  BY DEF Meas!Reserve
<1>3. Meas!TypeOK'
  BY <1>1, <1>2 DEF MeasInv, Meas!TypeOK, Meas!Plan, Meas!Row, Meas!Task, Meas!Status, Meas!At, Meas!Why
<1>4. RunIsHeld(r)'
  BY <1>1, <1>2 DEF MeasInv, RunIsHeld, Meas!Active
<1> QED BY <1>1, <1>2, <1>3, <1>4, ConcernsKeeps DEF Concerns

\* The invariant outlives Begin.
LEMMA BeginKeeps == ASSUME MeasInv, NEW r \in Run, Meas!Begin(r) PROVE MeasInv'
<1>1. UNCHANGED <<plan, asking, service, tree, ended, blocked, measPhase>> /\ measTask[r].at = "BEGIN"
  BY DEF Meas!Begin
<1>2. /\ run' \in [Run -> Meas!Row] /\ \A s \in Run \ {r} : run'[s] = run[s] /\ measTask'[s] = measTask[s]
      /\ measTask' \in [Run -> Meas!Task] /\ record' \subseteq Run /\ \A s \in Run \ {r} : s \in record' <=> s \in record
      /\ \/ measTask'[r].at = "STARTING" /\ r \in record' /\ run'[r] = run[r] /\ run[r].status = "RUNNING"
         \/ /\ measTask'[r].at = "NONE" /\ run'[r].status \in {"INTERRUPTED", "ERROR"}
  <2>1. CASE run[r].status = "RUNNING"
    BY <2>1 DEF Meas!Begin, MeasInv, Meas!TypeOK, Meas!Task, Meas!At
  <2>2. CASE run[r].status # "RUNNING"
    <3>1. run' = Meas!Interrupted(r, TRUE, TRUE) /\ measTask' = [measTask EXCEPT ![r] = Meas!NoTask] /\ record' = record
      BY <2>2 DEF Meas!Begin
    <3>2. run[r].status \in Meas!Active /\ Meas!TypeOK
      BY <1>1 DEF MeasInv, RunIsHeld
    <3>3. Meas!NoTask \in Meas!Task /\ Meas!NoTask.at = "NONE"
      BY DEF Meas!NoTask, Meas!Task, Meas!At, Meas!Why
    <3>4. /\ run' \in [Run -> Meas!Row] /\ \A s \in Run \ {r} : run'[s] = run[s]
          /\ run'[r].status \in {"INTERRUPTED", "ERROR"}
      BY <3>1, <3>2 DEF Meas!TypeOK, Meas!Interrupted, Meas!Row, Meas!Status, Meas!Active
    <3> QED BY <3>1, <3>2, <3>3, <3>4 DEF Meas!TypeOK
  <2> QED BY <2>1, <2>2
<1>3. Meas!TypeOK'
  BY <1>1, <1>2 DEF MeasInv, Meas!TypeOK, Meas!Plan, Meas!Row, Meas!Task, Meas!Status, Meas!At, Meas!Why
<1>4. RunIsHeld(r)'
  BY <1>1, <1>2 DEF MeasInv, RunIsHeld, Meas!Active
<1>5. measPhase \notin {"DOWN", "BOOTING"} /\ run[r].status \in Meas!Active
  BY <1>1 DEF MeasInv, DownHasNoTask, RunIsHeld
<1> QED BY <1>1, <1>2, <1>3, <1>4, <1>5, ConcernsKeeps DEF Concerns

\* A task at work is of a run that is active, in a daemon that is up or stopping.
LEMMA AtWork ==
    ASSUME MeasInv, NEW r \in Run, measTask[r].at \notin {"NONE", "LEAVING"}
    PROVE  measPhase \notin {"DOWN", "BOOTING"} /\ run[r].status \in Meas!Active /\ Meas!TypeOK
  BY DEF MeasInv, DownHasNoTask, RunIsHeld

\* No task is one of the tasks.
LEMMA NoTaskType == Meas!NoTask \in Meas!Task /\ Meas!NoTask.at = "NONE"
  BY DEF Meas!NoTask, Meas!Task, Meas!At, Meas!Why

\* The invariant outlives StartService.
LEMMA StartServiceKeeps == ASSUME MeasInv, NEW r \in Run, Meas!StartService(r) PROVE MeasInv'
<1>1. /\ UNCHANGED <<plan, asking, tree, ended, blocked, measPhase>> /\ measTask[r].at = "STARTING"
      /\ measPhase \notin {"DOWN", "BOOTING"} /\ run[r].status \in Meas!Active /\ Meas!TypeOK
  BY AtWork DEF Meas!StartService
<1>2. \/ /\ service' = [service EXCEPT ![r] = "ALIVE"] /\ measTask' = [measTask EXCEPT ![r].at = "HEALTH"]
         /\ UNCHANGED <<run, record>>
      \/ /\ record' = record \ {r} /\ run' = Meas!Interrupted(r, FALSE, TRUE)
         /\ measTask' = [measTask EXCEPT ![r] = Meas!NoTask] /\ UNCHANGED service
  BY DEF Meas!StartService
<1>3. CASE /\ service' = [service EXCEPT ![r] = "ALIVE"] /\ measTask' = [measTask EXCEPT ![r].at = "HEALTH"]
           /\ UNCHANGED <<run, record>>
  <2>1. /\ measTask' \in [Run -> Meas!Task] /\ measTask'[r].at = "HEALTH" /\ service' \in [Run -> {"NONE", "ALIVE", "GONE"}]
        /\ \A s \in Run \ {r} : measTask'[s] = measTask[s] /\ service'[s] = service[s]
    BY <1>1, <1>3 DEF Meas!TypeOK, Meas!Task, Meas!At
  <2>2. Meas!TypeOK'
    BY <1>1, <1>3, <2>1 DEF Meas!TypeOK, Meas!Plan, Meas!Row, Meas!Task, Meas!Status, Meas!At, Meas!Why
  <2>3. RunIsHeld(r)'
    BY <1>1, <1>3, <2>1 DEF MeasInv, RunIsHeld, Meas!Active
  <2> QED BY <1>1, <1>3, <2>1, <2>2, <2>3, ConcernsKeeps DEF Concerns
<1>4. CASE /\ record' = record \ {r} /\ run' = Meas!Interrupted(r, FALSE, TRUE)
           /\ measTask' = [measTask EXCEPT ![r] = Meas!NoTask] /\ UNCHANGED service
  <2>1. /\ run' \in [Run -> Meas!Row] /\ \A s \in Run \ {r} : run'[s] = run[s]
        /\ run'[r].status \in {"INTERRUPTED", "ERROR"}
    BY <1>1, <1>4, InterruptedRow
  <2>2. measTask' \in [Run -> Meas!Task] /\ measTask'[r].at = "NONE" /\ \A s \in Run \ {r} : measTask'[s] = measTask[s]
    BY <1>1, <1>4, NoTaskType DEF Meas!TypeOK
  <2>3. Meas!TypeOK'
    BY <1>1, <1>4, <2>1, <2>2 DEF Meas!TypeOK, Meas!Plan, Meas!Row, Meas!Task, Meas!Status, Meas!At, Meas!Why
  <2>4. RunIsHeld(r)'
    BY <1>1, <1>4, <2>1, <2>2 DEF MeasInv, RunIsHeld, Meas!Active
  <2> QED BY <1>1, <1>4, <2>1, <2>2, <2>3, <2>4, ConcernsKeeps DEF Concerns
<1> QED BY <1>2, <1>3, <1>4

\* The invariant outlives Health and Measure.
LEMMA WorkKeeps == ASSUME MeasInv, NEW r \in Run, Meas!Health(r) \/ Meas!Measure(r) PROVE MeasInv'
<1>1. /\ UNCHANGED <<plan, run, asking, service, record, tree, ended, blocked, measPhase>>
      /\ measTask[r].at \in {"HEALTH", "MEASURE"}
  BY DEF Meas!Health, Meas!Measure
<1>2. /\ measTask' \in [Run -> Meas!Task] /\ measTask'[r].at \in {"MEASURE", "STOPPING"}
      /\ \A s \in Run \ {r} : measTask'[s] = measTask[s]
  <2>1. measTask \in [Run -> Meas!Task]
    BY DEF MeasInv, Meas!TypeOK
  <2>2. \/ measTask' = [measTask EXCEPT ![r].at = "MEASURE"]
        \/ \E why \in {"MEASURED", "OWNER_CANCELLED", "OTHER"} : Meas!Stop(r, why)
    BY DEF Meas!Health, Meas!Measure
  <2> QED BY <2>1, <2>2 DEF Meas!Stop, Meas!Task, Meas!At, Meas!Why
<1>3. measPhase \notin {"DOWN", "BOOTING"} /\ run[r].status \in Meas!Active
  BY <1>1, AtWork
<1>4. Meas!TypeOK'
  BY <1>1, <1>2 DEF MeasInv, Meas!TypeOK, Meas!Plan, Meas!Row, Meas!Task, Meas!Status, Meas!At, Meas!Why
<1>5. RunIsHeld(r)'
  BY <1>1, <1>2 DEF MeasInv, RunIsHeld, Meas!Active
<1> QED BY <1>1, <1>2, <1>3, <1>4, <1>5, ConcernsKeeps DEF Concerns

\* The invariant outlives Stopped.
LEMMA StoppedKeeps == ASSUME MeasInv, NEW r \in Run, Meas!Stopped(r) PROVE MeasInv'
<1>1. /\ UNCHANGED <<plan, asking, service, record, tree, ended, blocked, measPhase>> /\ measTask[r].at = "STOPPING"
      /\ measPhase \notin {"DOWN", "BOOTING"} /\ run[r].status \in Meas!Active /\ Meas!TypeOK
  BY AtWork DEF Meas!Stopped
<1>2. PICK proved \in {service[r] = "GONE", FALSE} :
         /\ IF measTask[r].why = "MEASURED" /\ proved /\ tree = run[r].tree
            THEN \E outcome \in {"PASSED", "FAILED"} : run' = Meas!Concluded(r, outcome)
            ELSE run' = Meas!Interrupted(r, measTask[r].why = "OWNER_CANCELLED", proved)
         /\ measTask' = [measTask EXCEPT ![r] = IF proved THEN [@ EXCEPT !.at = "LEAVING"] ELSE Meas!NoTask]
  BY DEF Meas!Stopped
<1>3. proved \in BOOLEAN /\ (proved => service[r] = "GONE")
  BY <1>2
<1>4. /\ run' \in [Run -> Meas!Row] /\ \A s \in Run \ {r} : run'[s] = run[s]
      /\ proved => run'[r].status \in {"PASSED", "FAILED", "INTERRUPTED", "ERROR"}
      /\ ~proved => run'[r].status = "BLOCKED"
      /\ run[r].status # "RUNNING" => run'[r].status \in {"INTERRUPTED", "ERROR", "BLOCKED"}
  <2>1. CASE measTask[r].why = "MEASURED" /\ proved /\ tree = run[r].tree
    <3>1. PICK outcome \in {"PASSED", "FAILED"} : run' = Meas!Concluded(r, outcome)
      BY <1>2, <2>1
    <3>2. run[r].status # "RUNNING" => Meas!Concluded(r, outcome) = Meas!Interrupted(r, TRUE, TRUE)
      BY DEF Meas!Concluded, Meas!StillRunning
    <3>3. QED
      <4>1. CASE run[r].status = "RUNNING"
        BY <1>1, <2>1, <3>1, <4>1, ConcludedRow
      <4>2. CASE run[r].status # "RUNNING"
        BY <1>1, <2>1, <3>1, <3>2, <4>2 DEF Meas!TypeOK, Meas!Interrupted, Meas!Row, Meas!Status, Meas!Active
      <4> QED BY <4>1, <4>2
  <2>2. CASE ~(measTask[r].why = "MEASURED" /\ proved /\ tree = run[r].tree)
    <3>1. run' = Meas!Interrupted(r, measTask[r].why = "OWNER_CANCELLED", proved)
      BY <1>2, <2>2
    <3>2. QED
      <4>1. CASE proved
        BY <1>1, <3>1, <4>1 DEF Meas!TypeOK, Meas!Interrupted, Meas!Row, Meas!Status, Meas!Active
      <4>2. CASE ~proved
        BY <1>1, <3>1, <4>2 DEF Meas!TypeOK, Meas!Interrupted, Meas!Row, Meas!Status, Meas!Active
      <4> QED BY <4>1, <4>2
  <2> QED BY <2>1, <2>2
<1>5. /\ measTask' \in [Run -> Meas!Task] /\ \A s \in Run \ {r} : measTask'[s] = measTask[s]
      /\ measTask'[r].at = IF proved THEN "LEAVING" ELSE "NONE"
  <2>1. CASE proved
    BY <1>1, <1>2, <2>1 DEF Meas!TypeOK, Meas!Task, Meas!At
  <2>2. CASE ~proved
    BY <1>1, <1>2, <2>2, NoTaskType DEF Meas!TypeOK
  <2> QED BY <2>1, <2>2
<1>6. Meas!TypeOK'
  BY <1>1, <1>4, <1>5 DEF Meas!TypeOK, Meas!Plan, Meas!Row, Meas!Task, Meas!Status, Meas!At, Meas!Why
<1>7. RunIsHeld(r)'
  BY <1>1, <1>3, <1>4, <1>5 DEF MeasInv, RunIsHeld, Meas!Active
<1> QED BY <1>1, <1>4, <1>5, <1>6, <1>7, ConcernsKeeps DEF Concerns

\* The invariant outlives Leave.
LEMMA LeaveKeeps == ASSUME MeasInv, NEW r \in Run, Meas!Leave(r) PROVE MeasInv'
<1>1. /\ UNCHANGED <<plan, run, asking, service, tree, ended, blocked, measPhase>> /\ measTask[r].at = "LEAVING"
      /\ record' = record \ {r} /\ measTask' = [measTask EXCEPT ![r] = Meas!NoTask]
  BY DEF Meas!Leave
<1>2. measTask' \in [Run -> Meas!Task] /\ measTask'[r].at = "NONE" /\ \A s \in Run \ {r} : measTask'[s] = measTask[s]
  BY <1>1, NoTaskType DEF MeasInv, Meas!TypeOK
<1>3. Meas!TypeOK'
  BY <1>1, <1>2 DEF MeasInv, Meas!TypeOK, Meas!Plan, Meas!Row, Meas!Task, Meas!Status, Meas!At, Meas!Why
<1>4. RunIsHeld(r)'
  BY <1>1, <1>2 DEF MeasInv, RunIsHeld, Meas!Active
<1>5. measPhase \notin {"DOWN", "BOOTING"}
  BY <1>1 DEF MeasInv, DownHasNoTask
<1> QED BY <1>1, <1>2, <1>3, <1>4, <1>5, ConcernsKeeps DEF Concerns

\* The invariant outlives Cancel.
LEMMA CancelKeeps == ASSUME MeasInv, MaxBlocked \in Nat, NEW r \in Run, Meas!Cancel(r) PROVE MeasInv'
<1>1. /\ UNCHANGED <<plan, service, record, tree, measPhase>> /\ measPhase = "UP" /\ run[r].status \in {"RUNNING", "BLOCKED"}
      /\ ended' = ended \cup {r} /\ blocked' \in 0 .. MaxBlocked
  BY DEF Meas!Cancel, MeasInv, Meas!TypeOK
<1>2. /\ run' \in [Run -> Meas!Row] /\ run'[r].status = "CANCELLING" /\ \A s \in Run \ {r} : run'[s] = run[s]
  BY DEF Meas!Cancel, MeasInv, Meas!TypeOK, Meas!Row, Meas!Status
<1>3. /\ measTask' \in [Run -> Meas!Task] /\ measTask'[r].at = measTask[r].at /\ \A s \in Run \ {r} : measTask'[s] = measTask[s]
      /\ asking' \subseteq Run /\ (\A s \in Run \ {r} : s \in asking' <=> s \in asking)
      /\ r \in asking' => measTask[r].at = "NONE"
  <2>1. measTask \in [Run -> Meas!Task] /\ asking \subseteq Run /\ (r \in asking => measTask[r].at = "NONE")
    BY DEF MeasInv, Meas!TypeOK, RunIsHeld
  <2>2. CASE measTask[r].at = "NONE"
    BY <2>1, <2>2 DEF Meas!Cancel
  <2>3. CASE measTask[r].at # "NONE"
    <3>1. measTask' = [measTask EXCEPT ![r].aborted = TRUE] /\ UNCHANGED asking
      BY <2>3 DEF Meas!Cancel
    <3>2. [measTask[r] EXCEPT !.aborted = TRUE] \in Meas!Task /\ [measTask[r] EXCEPT !.aborted = TRUE].at = measTask[r].at
      BY <2>1 DEF Meas!Task
    <3> QED BY <2>1, <2>3, <3>1, <3>2
  <2> QED BY <2>2, <2>3
<1>4. Meas!TypeOK'
  BY <1>1, <1>2, <1>3 DEF MeasInv, Meas!TypeOK, Meas!Plan, Meas!Row, Meas!Task, Meas!Status, Meas!At, Meas!Why
<1>5. RunIsHeld(r)'
  BY <1>1, <1>2, <1>3 DEF MeasInv, RunIsHeld, Meas!Active
<1> QED BY <1>1, <1>2, <1>3, <1>4, <1>5, ConcernsKeeps DEF Concerns, Meas!Active

\* The invariant outlives CancelRecovered, RecoverRun and RecoverBlocked.
LEMMA RecoveryKeeps ==
    ASSUME MeasInv, NEW r \in Run, Meas!CancelRecovered(r) \/ Meas!RecoverRun(r) \/ Meas!RecoverBlocked(r)
    PROVE  MeasInv'
<1>1. UNCHANGED <<plan, measTask, service, tree, ended, blocked, measPhase>> /\ Meas!TypeOK
  BY DEF Meas!CancelRecovered, Meas!RecoverRun, Meas!RecoverBlocked, MeasInv
<1>2. /\ asking' \subseteq Run /\ asking' \subseteq asking /\ \A s \in Run \ {r} : s \in asking' <=> s \in asking
      /\ record' \subseteq Run /\ \A s \in Run \ {r} : s \in record' <=> s \in record
  BY DEF Meas!CancelRecovered, Meas!RecoverRun, Meas!RecoverBlocked, MeasInv, Meas!TypeOK
<1>3. measTask[r].at = "NONE"
  BY DEF Meas!CancelRecovered, Meas!RecoverRun, Meas!RecoverBlocked, MeasInv, DownHasNoTask, RunIsHeld
<1>4. PICK owner \in BOOLEAN, proved \in BOOLEAN :
         /\ run' = Meas!Interrupted(r, owner, proved)
         /\ proved => service[r] # "ALIVE"
         /\ ~proved => record' = record
  <2>1. service[r] = "ALIVE" => r \in record
    BY DEF MeasInv, RunIsHeld
  <2>2. CASE Meas!CancelRecovered(r)
    BY <2>2 DEF Meas!CancelRecovered, Meas!Proved
  <2>3. CASE Meas!RecoverRun(r)
    <3>1. PICK proved \in IF r \in record THEN Meas!Proved(r) ELSE {TRUE} :
             /\ run' = Meas!Interrupted(r, run[r].status = "CANCELLING", proved)
             /\ record' = IF proved THEN record \ {r} ELSE record
      BY <2>3 DEF Meas!RecoverRun
    <3>2. proved \in BOOLEAN /\ (proved => service[r] # "ALIVE")
      BY <2>1, <3>1 DEF Meas!Proved
    <3>3. (run[r].status = "CANCELLING") \in BOOLEAN
      OBVIOUS
    <3> QED BY <3>1, <3>2, <3>3
  <2>4. CASE Meas!RecoverBlocked(r)
    BY <2>4 DEF Meas!RecoverBlocked
  <2> QED BY <2>2, <2>3, <2>4
<1>5. /\ run' \in [Run -> Meas!Row] /\ \A s \in Run \ {r} : run'[s] = run[s]
      /\ run[r].status \notin Meas!Active => run'[r] = run[r]
      /\ run[r].status \in Meas!Active =>
            run'[r].status \in IF proved THEN {"INTERRUPTED", "ERROR"} ELSE {"BLOCKED"}
  BY <1>1, <1>4, InterruptedRow
<1>6. Meas!TypeOK'
  BY <1>1, <1>2, <1>5 DEF Meas!TypeOK, Meas!Plan, Meas!Row, Meas!Task, Meas!Status, Meas!At, Meas!Why
<1>7. RunIsHeld(r)'
  BY <1>1, <1>2, <1>3, <1>4, <1>5 DEF MeasInv, RunIsHeld, Meas!Active
<1>8. measPhase \in {"DOWN", "BOOTING"} => asking' = {}
  BY <1>2 DEF MeasInv, DownHasNoTask
<1> QED BY <1>1, <1>2, <1>3, <1>5, <1>6, <1>7, <1>8, ConcernsKeeps DEF Concerns, Meas!Active

\* The invariant outlives ServiceEnds.
LEMMA ServiceEndsKeeps == ASSUME MeasInv, NEW r \in Run, Meas!ServiceEnds(r) PROVE MeasInv'
<1>1. /\ UNCHANGED <<plan, run, measTask, asking, record, tree, ended, blocked, measPhase>> /\ service[r] = "ALIVE"
      /\ service' \in [Run -> {"NONE", "ALIVE", "GONE"}] /\ service'[r] = "GONE"
      /\ \A s \in Run \ {r} : service'[s] = service[s]
  BY DEF Meas!ServiceEnds, MeasInv, Meas!TypeOK
<1>2. Meas!TypeOK'
  BY <1>1 DEF MeasInv, Meas!TypeOK, Meas!Plan, Meas!Row, Meas!Task, Meas!Status, Meas!At, Meas!Why
<1>3. RunIsHeld(r)' /\ run[r].status \in Meas!Active
  BY <1>1 DEF MeasInv, RunIsHeld, Meas!Active
<1>4. measPhase \in {"DOWN", "BOOTING"} => measTask[r].at = "NONE" /\ asking = {}
  BY DEF MeasInv, DownHasNoTask
<1> QED BY <1>1, <1>2, <1>3, <1>4, ConcernsKeeps DEF Concerns

\* The daemon listens, stops, dies and starts again, and somebody edits the repository.
LEMMA DaemonKeeps ==
    ASSUME MeasInv, Meas!Listen \/ Meas!Shutdown \/ Meas!Die \/ Meas!Start \/ Meas!Edit
    PROVE  MeasInv'
<1>1. UNCHANGED <<plan, run, record, ended, blocked>>
  BY DEF Meas!Listen, Meas!Shutdown, Meas!Die, Meas!Start, Meas!Edit
<1>2. measPhase' \in {"UP", "STOPPING", "DOWN", "BOOTING"} /\ tree' \in Tree /\ asking' \subseteq asking
  BY DEF Meas!Listen, Meas!Shutdown, Meas!Die, Meas!Start, Meas!Edit, MeasInv, Meas!TypeOK
<1>3. /\ measTask' \in [Run -> Meas!Task] /\ \A r \in Run : measTask'[r].at \in {measTask[r].at, "NONE"}
      /\ measPhase' \in {"DOWN", "BOOTING"} => asking' = {} /\ \A r \in Run : measTask'[r].at = "NONE"
  <2>1. measTask \in [Run -> Meas!Task] /\ DownHasNoTask
    BY DEF MeasInv, Meas!TypeOK
  <2>2. CASE Meas!Listen \/ Meas!Start \/ Meas!Edit
    BY <2>1, <2>2 DEF Meas!Listen, Meas!Start, Meas!Edit, DownHasNoTask
  <2>3. CASE Meas!Shutdown
    <3>1. \A r \in Run : [measTask[r] EXCEPT !.aborted = TRUE] \in Meas!Task /\ [measTask[r] EXCEPT !.aborted = TRUE].at = measTask[r].at
      BY <2>1 DEF Meas!Task
    <3> QED BY <2>1, <2>3, <3>1, NoTaskType DEF Meas!Shutdown
  <2>4. CASE Meas!Die
    BY <2>1, <2>4, NoTaskType DEF Meas!Die
  <2> QED BY <2>2, <2>3, <2>4
<1>4. /\ service' \in [Run -> {"NONE", "ALIVE", "GONE"}]
      /\ \A r \in Run : service'[r] = service[r] \/ (measTask[r].at = "STARTING" /\ measTask'[r].at = "NONE")
  <2>1. service \in [Run -> {"NONE", "ALIVE", "GONE"}]
    BY DEF MeasInv, Meas!TypeOK
  <2>2. CASE Meas!Listen \/ Meas!Start \/ Meas!Edit \/ Meas!Shutdown
    BY <2>1, <2>2 DEF Meas!Listen, Meas!Start, Meas!Edit, Meas!Shutdown
  <2>3. CASE Meas!Die
    <3>1. PICK S \in SUBSET {r \in Run : measTask[r].at = "STARTING"} :
             service' = [r \in Run |-> IF r \in S THEN "ALIVE" ELSE service[r]]
      BY <2>3 DEF Meas!Die
    <3>2. \A r \in Run : measTask'[r].at = "NONE"
      BY <2>3, NoTaskType DEF Meas!Die
    <3> QED BY <2>1, <3>1, <3>2
  <2> QED BY <2>2, <2>3
<1>5. Meas!TypeOK'
  BY <1>1, <1>2, <1>3, <1>4 DEF MeasInv, Meas!TypeOK, Meas!Plan, Meas!Row, Meas!Task, Meas!Status, Meas!At, Meas!Why
<1>6. ASSUME NEW r \in Run PROVE RunIsHeld(r)'
  BY <1>1, <1>2, <1>3, <1>4 DEF MeasInv, RunIsHeld, Meas!Active
<1> QED BY <1>1, <1>3, <1>5, <1>6 DEF MeasInv, OneIsActive, DownHasNoTask, Meas!Active

\* The invariant of LaunchMeasurement, for any number of runs and of revisions.
THEOREM MeasurementInvariant == ASSUME MaxRevision \in Nat, MaxBlocked \in Nat PROVE Meas!Spec => []MeasInv
<1>1. Meas!Init => MeasInv
  BY DEF Meas!Init, MeasInv, Meas!TypeOK, Meas!Plan, Meas!Row, Meas!Task, Meas!Status, Meas!At, Meas!Why, Meas!NoRow, Meas!NoTask,
         RunIsHeld, OneIsActive, DownHasNoTask, Meas!Active
<1>2. MeasInv /\ Meas!Next => MeasInv'
  BY PlanKeeps, ReserveKeeps, BeginKeeps, StartServiceKeeps, WorkKeeps, StoppedKeeps, LeaveKeeps, CancelKeeps, RecoveryKeeps,
     ServiceEndsKeeps, DaemonKeeps DEF Meas!Next
<1>3. MeasInv /\ UNCHANGED Meas!vars => MeasInv'
  BY DEF Meas!vars, MeasInv, Meas!TypeOK, Meas!Plan, Meas!Row, Meas!Task, Meas!Status, Meas!At, Meas!Why,
         RunIsHeld, OneIsActive, DownHasNoTask, Meas!Active
<1> QED BY <1>1, <1>2, <1>3, PTL DEF Meas!Spec

\* The service of a measurement is held by its run, which is active and the only one.
THEOREM LiveIsHeld == ASSUME MaxRevision \in Nat, MaxBlocked \in Nat PROVE Meas!Spec => []Meas!LiveServiceIsHeld
<1>1. MeasInv => Meas!LiveServiceIsHeld
  BY DEF MeasInv, RunIsHeld, OneIsActive, Meas!LiveServiceIsHeld
<1> QED BY <1>1, MeasurementInvariant, PTL

\* A cancelled run is not recorded as measured.
THEOREM CancelledIsNot == ASSUME MaxRevision \in Nat, MaxBlocked \in Nat PROVE Meas!Spec => []Meas!CancelledIsNotMeasured
<1>1. MeasInv => Meas!CancelledIsNotMeasured
  BY DEF MeasInv, Meas!TypeOK, RunIsHeld, Meas!CancelledIsNotMeasured
<1> QED BY <1>1, MeasurementInvariant, PTL

----
(* LaunchRelease *)

CONSTANTS MaxEvidence
VARIABLES relTree, head, environment, verification, measurement, readiness, measured, package, relRequest, release
Rel == INSTANCE LaunchRelease WITH tree <- relTree, request <- relRequest

ReleaseBounds == MaxVersion \in Nat \ {0} /\ MaxEvidence \in Nat \ {0}

\* What the newest release copied of the measurement and of the package is older, or what they are.
CopiedMeasured ==
    /\ release.measured.id <= measured.id
    /\ release.measured.id = measured.id /\ measured.id # 0 =>
          /\ release.measured.version <= measured.version
          /\ release.measured.version = measured.version => release.measured = measured
CopiedPackage ==
    /\ release.package.id <= package.id
    /\ release.package.id = package.id /\ package.id # 0 =>
          /\ release.package.version <= package.version
          /\ release.package.version = package.version => release.package = package

\* What its gates say holds of what it copied, and of a plan for as long as that stays the plan in force.
GatesHold ==
    /\ release.gates.READINESS = "PASSED" =>
          /\ release.readiness.id # 0 /\ release.readiness.head = release.tree
          /\ release.readiness.passed /\ ~release.readiness.dirty
    /\ release.gates.MEASURED = "PASSED" =>
          /\ release.measured.id # 0 /\ release.measured.status = "PASSED" /\ release.measured.tree = release.tree
          /\ release.measured.plan = release.measurement
          /\ release.measurement = measurement.revision => measurement.status = "ACTIVE"
    /\ release.gates.VERIFICATION = "PASSED" =>
          /\ release.package.id # 0 /\ release.package.verification = release.verification
          /\ release.verification = verification.revision => verification.status = "ACTIVE"
    /\ release.gates.ACCEPTANCE = "PASSED" =>
          /\ release.package.id # 0 /\ release.package.status = "ACCEPTED" /\ release.package.tree = release.tree

ReleaseInv ==
    /\ Rel!TypeOK
    /\ measured.id # 0 => (measured.version = 1 <=> measured.status = "RUNNING")
    /\ package.id # 0 => (package.version = 1 <=> package.status = "PENDING")
    /\ relRequest # Rel!None => relRequest.project < MaxVersion
    /\ release # Rel!None =>
          /\ CopiedMeasured /\ CopiedPackage /\ GatesHold
          /\ release.measurement <= measurement.revision /\ release.verification <= verification.revision

----
\* None has the id that nothing else has.
LEMMA NoneHasNoId ==
    ASSUME ReleaseBounds, Rel!TypeOK
    PROVE  /\ (readiness = Rel!None <=> readiness.id = 0) /\ (measured = Rel!None <=> measured.id = 0)
           /\ (package = Rel!None <=> package.id = 0) /\ (release = Rel!None <=> release.id = 0)
           /\ readiness.id \in Nat /\ measured.id \in Nat /\ package.id \in Nat /\ release.id \in Nat
           /\ verification.revision \in Nat /\ measurement.revision \in Nat /\ environment \in Nat
  BY DEF ReleaseBounds, Rel!TypeOK, Rel!None, Rel!Readiness, Rel!Measured, Rel!Package, Rel!Release, Rel!Ids, Rel!Version,
         Rel!Verification, Rel!Measurement

\* The invariant outlives Edit and Commit.
LEMMA RepositoryKeeps == ASSUME ReleaseBounds, ReleaseInv, Rel!Edit \/ Rel!Commit PROVE ReleaseInv'
<1>1. UNCHANGED <<environment, verification, measurement, readiness, measured, package, relRequest, release>>
      /\ relTree' \in Tree /\ head' \in Tree
  BY DEF Rel!Edit, Rel!Commit, Rel!evidence, ReleaseInv, Rel!TypeOK
<1>2. Rel!TypeOK'
  BY <1>1 DEF ReleaseInv, Rel!TypeOK, Rel!Verification, Rel!Measurement, Rel!Readiness, Rel!Measured, Rel!Package, Rel!Request, Rel!Release
<1> QED BY <1>1, <1>2 DEF ReleaseInv, CopiedMeasured, CopiedPackage, GatesHold, Rel!None

\* The invariant outlives ChangeEnvironment, DecideVerification and DecideMeasurement.
LEMMA RelPlanKeeps ==
    ASSUME ReleaseBounds, ReleaseInv, Rel!ChangeEnvironment \/ Rel!DecideVerification \/ Rel!DecideMeasurement
    PROVE  ReleaseInv'
<1>1. UNCHANGED <<relTree, head, readiness, measured, package, relRequest, release>>
  BY DEF Rel!ChangeEnvironment, Rel!DecideVerification, Rel!DecideMeasurement, Rel!evidence
<1>2. /\ verification.revision \in Nat /\ measurement.revision \in Nat /\ environment \in Nat /\ release.id \in Nat
      /\ verification \in Rel!Verification /\ measurement \in Rel!Measurement /\ environment \in Rel!Version
      /\ MaxVersion \in Nat
  BY NoneHasNoId DEF ReleaseInv, Rel!TypeOK, ReleaseBounds
<1>3. /\ environment' \in Rel!Version
      /\ verification' \in Rel!Verification
      /\ verification' = verification \/ verification'.revision = verification.revision + 1
      /\ measurement' \in Rel!Measurement
      /\ measurement' = measurement \/ measurement'.revision = measurement.revision + 1
  <2>1. CASE Rel!ChangeEnvironment
    BY <1>2, <2>1 DEF Rel!ChangeEnvironment, Rel!ProjectVersion, Rel!Version, Rel!Verification, Rel!Measurement
  <2>2. CASE Rel!DecideVerification
    BY <1>2, <2>2 DEF Rel!DecideVerification, Rel!ProjectVersion, Rel!Version, Rel!Verification, Rel!Measurement
  <2>3. CASE Rel!DecideMeasurement
    <3>1. /\ measurement.revision + 1 \in Rel!Version /\ verification.revision \in Rel!Version /\ measurement.under \in Rel!Version
          /\ environment' = environment /\ verification' = verification
      BY <1>2, <2>3 DEF Rel!DecideMeasurement, Rel!ProjectVersion, Rel!Version, Rel!Verification, Rel!Measurement
    <3>2. measurement = [revision |-> measurement.revision, status |-> measurement.status, under |-> measurement.under]
      BY <1>2 DEF Rel!Measurement
    <3>3. \/ measurement' = [revision |-> measurement.revision + 1, status |-> "DISABLED", under |-> measurement.under]
          \/ measurement' = [revision |-> measurement.revision + 1, status |-> "ACTIVE", under |-> verification.revision]
      BY <2>3, <3>2 DEF Rel!DecideMeasurement
    <3> QED BY <1>2, <3>1, <3>3 DEF Rel!Measurement
  <2> QED BY <2>1, <2>2, <2>3
<1>4. Rel!TypeOK'
  BY <1>1, <1>3 DEF ReleaseInv, Rel!TypeOK, Rel!Version, Rel!Verification, Rel!Measurement, Rel!Readiness, Rel!Measured, Rel!Package,
     Rel!Request, Rel!Release
<1>5. release # Rel!None => release.verification \in Nat /\ release.measurement \in Nat
  BY DEF ReleaseInv, Rel!TypeOK, Rel!Release, Rel!Version
<1>6. release # Rel!None =>
        /\ release.measurement <= measurement'.revision /\ release.verification <= verification'.revision
        /\ GatesHold'
  BY <1>1, <1>2, <1>3, <1>5 DEF ReleaseInv, GatesHold
<1> QED BY <1>1, <1>4, <1>6 DEF ReleaseInv, CopiedMeasured, CopiedPackage, Rel!None

\* The invariant outlives AssessReadiness.
LEMMA ReadinessKeeps == ASSUME ReleaseBounds, ReleaseInv, Rel!AssessReadiness PROVE ReleaseInv'
<1>1. UNCHANGED <<relTree, head, environment, verification, measurement, measured, package, relRequest, release>>
  BY DEF Rel!AssessReadiness
<1>2. readiness' \in Rel!Readiness
  <2>1. /\ readiness.id \in Nat /\ measured.id \in Nat /\ package.id \in Nat /\ MaxEvidence \in Nat
        /\ relTree \in Tree /\ head \in Tree
    BY NoneHasNoId DEF ReleaseInv, Rel!TypeOK, ReleaseBounds
  <2>2. PICK passed \in BOOLEAN :
           readiness' = [id |-> readiness.id + 1, head |-> head, dirty |-> relTree # head, passed |-> passed]
    BY DEF Rel!AssessReadiness, Rel!New
  <2>3. readiness.id + 1 \in Rel!Ids
    BY <2>1 DEF Rel!AssessReadiness, Rel!LastEvidence, Rel!Ids
  <2> QED BY <2>1, <2>2, <2>3 DEF Rel!Readiness
<1>3. Rel!TypeOK'
  BY <1>1, <1>2 DEF ReleaseInv, Rel!TypeOK, Rel!Version, Rel!Verification, Rel!Measurement, Rel!Readiness, Rel!Measured, Rel!Package,
     Rel!Request, Rel!Release
<1> QED BY <1>1, <1>3 DEF ReleaseInv, CopiedMeasured, CopiedPackage, GatesHold, Rel!None

\* The invariant outlives BeginMeasurement and EndMeasurement.
LEMMA MeasuredKeeps == ASSUME ReleaseBounds, ReleaseInv, Rel!BeginMeasurement \/ Rel!EndMeasurement PROVE ReleaseInv'
<1>1. UNCHANGED <<relTree, head, environment, verification, measurement, readiness, package, relRequest, release>>
  BY DEF Rel!BeginMeasurement, Rel!EndMeasurement
<1>2. /\ readiness.id \in Nat /\ measured.id \in Nat /\ package.id \in Nat /\ MaxEvidence \in Nat
      /\ (measured = Rel!None <=> measured.id = 0) /\ measured \in Rel!Measured
      /\ relTree \in Tree /\ measurement.revision \in Rel!Version
  BY NoneHasNoId DEF ReleaseInv, Rel!TypeOK, ReleaseBounds, Rel!Measurement
<1>3. /\ measured' \in Rel!Measured /\ measured'.id # 0
      /\ measured'.version = 1 <=> measured'.status = "RUNNING"
      /\ \/ measured'.id = measured.id + 1
         \/ measured'.id = measured.id /\ measured.id # 0 /\ measured.version = 1 /\ measured'.version = 2
  <2>1. CASE Rel!BeginMeasurement
    <3>1. measured' = [id |-> measured.id + 1, version |-> 1, status |-> "RUNNING", tree |-> relTree,
                       plan |-> measurement.revision]
      BY <2>1 DEF Rel!BeginMeasurement, Rel!New
    <3>2. measured.id + 1 \in Rel!Ids
      BY <1>2, <2>1 DEF Rel!BeginMeasurement, Rel!LastEvidence, Rel!Ids
    <3> QED BY <1>2, <3>1, <3>2 DEF Rel!Measured, Rel!Ids
  <2>2. CASE Rel!EndMeasurement
    <3>1. measured.id # 0 /\ measured.version = 1 /\ measured.status = "RUNNING" /\ measured # Rel!None
      BY <1>2, <2>2 DEF Rel!EndMeasurement, ReleaseInv
    <3>2. PICK status \in {"ENDED", "PASSED", "FAILED"} : measured' = [measured EXCEPT !.status = status, !.version = 2]
      BY <2>2 DEF Rel!EndMeasurement
    <3>3. measured \in [id : Rel!Ids, version : 1 .. 2, status : {"RUNNING", "PASSED", "FAILED", "ENDED"},
                          tree : Tree, plan : Rel!Version]
      BY <1>2, <3>1 DEF Rel!Measured
    <3>4. measured' = [id |-> measured.id, version |-> 2, status |-> status, tree |-> measured.tree, plan |-> measured.plan]
      BY <3>2, <3>3
    <3> QED BY <3>1, <3>3, <3>4 DEF Rel!Measured
  <2> QED BY <2>1, <2>2
<1>4. Rel!TypeOK'
  BY <1>1, <1>3 DEF ReleaseInv, Rel!TypeOK, Rel!Version, Rel!Verification, Rel!Measurement, Rel!Readiness, Rel!Measured, Rel!Package,
     Rel!Request, Rel!Release
<1>5. release # Rel!None => CopiedMeasured'
  <2>1. SUFFICES ASSUME release # Rel!None PROVE CopiedMeasured'
    OBVIOUS
  <2>2. CopiedMeasured /\ release.measured.id \in Nat
    BY <2>1 DEF ReleaseInv, Rel!TypeOK, Rel!Release, Rel!Measured, Rel!None, Rel!Ids
  <2>3. CASE measured'.id = measured.id + 1
    BY <1>1, <1>2, <2>2, <2>3 DEF CopiedMeasured
  <2>4. CASE measured'.id = measured.id /\ measured.id # 0 /\ measured.version = 1 /\ measured'.version = 2
    <3>1. release.measured.id = measured.id => release.measured.version \in 1 .. 2 /\ release.measured.version <= 1
      BY <2>1, <2>2, <2>4 DEF CopiedMeasured, ReleaseInv, Rel!TypeOK, Rel!Release, Rel!Measured, Rel!None
    <3> QED BY <1>1, <2>2, <2>4, <3>1 DEF CopiedMeasured
  <2> QED BY <1>3, <2>3, <2>4
<1> QED BY <1>1, <1>3, <1>4, <1>5 DEF ReleaseInv, CopiedPackage, GatesHold, Rel!None

\* The invariant outlives PreparePackage and ResolvePackage.
LEMMA PackageKeeps == ASSUME ReleaseBounds, ReleaseInv, Rel!PreparePackage \/ Rel!ResolvePackage PROVE ReleaseInv'
<1>1. UNCHANGED <<relTree, head, environment, verification, measurement, readiness, measured, relRequest, release>>
  BY DEF Rel!PreparePackage, Rel!ResolvePackage
<1>2. /\ readiness.id \in Nat /\ measured.id \in Nat /\ package.id \in Nat /\ MaxEvidence \in Nat
      /\ (package = Rel!None <=> package.id = 0) /\ package \in Rel!Package
      /\ verification.revision \in Rel!Version /\ MaxVersion \in Nat
  BY NoneHasNoId DEF ReleaseInv, Rel!TypeOK, ReleaseBounds, Rel!Verification
<1>3. /\ package' \in Rel!Package /\ package'.id # 0
      /\ package'.version = 1 <=> package'.status = "PENDING"
      /\ \/ package'.id = package.id + 1
         \/ package'.id = package.id /\ package.id # 0 /\ package.version = 1 /\ package'.version = 2
  <2>1. CASE Rel!PreparePackage
    <3>1. PICK t \in Tree :
             package' = [id |-> package.id + 1, version |-> 1, status |-> "PENDING", tree |-> t,
                         verification |-> IF verification.status = "ACTIVE" THEN verification.revision ELSE 0]
      BY <2>1 DEF Rel!PreparePackage, Rel!New
    <3>2. package.id + 1 \in Rel!Ids
      BY <1>2, <2>1 DEF Rel!PreparePackage, Rel!LastEvidence, Rel!Ids
    <3> QED BY <1>2, <3>1, <3>2 DEF Rel!Package, Rel!Ids, Rel!Version
  <2>2. CASE Rel!ResolvePackage
    <3>1. package.id # 0 /\ package.version = 1 /\ package.status = "PENDING" /\ package # Rel!None
      BY <1>2, <2>2 DEF Rel!ResolvePackage, ReleaseInv
    <3>2. PICK status \in {"ACCEPTED", "CHANGES_REQUESTED"} : package' = [package EXCEPT !.status = status, !.version = 2]
      BY <2>2 DEF Rel!ResolvePackage
    <3>3. package \in [id : Rel!Ids, version : 1 .. 2, status : {"PENDING", "ACCEPTED", "CHANGES_REQUESTED"},
                      tree : Tree, verification : 0 .. MaxVersion]
      BY <1>2, <3>1 DEF Rel!Package
    <3>4. package' = [id |-> package.id, version |-> 2, status |-> status, tree |-> package.tree,
                      verification |-> package.verification]
      BY <3>2, <3>3
    <3> QED BY <3>1, <3>3, <3>4 DEF Rel!Package
  <2> QED BY <2>1, <2>2
<1>4. Rel!TypeOK'
  BY <1>1, <1>3 DEF ReleaseInv, Rel!TypeOK, Rel!Version, Rel!Verification, Rel!Measurement, Rel!Readiness, Rel!Measured, Rel!Package,
     Rel!Request, Rel!Release
<1>5. release # Rel!None => CopiedPackage'
  <2>1. SUFFICES ASSUME release # Rel!None PROVE CopiedPackage'
    OBVIOUS
  <2>2. CopiedPackage /\ release.package.id \in Nat
    BY <2>1 DEF ReleaseInv, Rel!TypeOK, Rel!Release, Rel!Package, Rel!None, Rel!Ids
  <2>3. CASE package'.id = package.id + 1
    BY <1>1, <1>2, <2>2, <2>3 DEF CopiedPackage
  <2>4. CASE package'.id = package.id /\ package.id # 0 /\ package.version = 1 /\ package'.version = 2
    <3>1. release.package.id = package.id => release.package.version \in 1 .. 2 /\ release.package.version <= 1
      BY <2>1, <2>2, <2>4 DEF CopiedPackage, ReleaseInv, Rel!TypeOK, Rel!Release, Rel!Package, Rel!None
    <3> QED BY <1>1, <2>2, <2>4, <3>1 DEF CopiedPackage
  <2> QED BY <1>3, <2>3, <2>4
<1> QED BY <1>1, <1>3, <1>4, <1>5 DEF ReleaseInv, CopiedMeasured, GatesHold, Rel!None

\* The invariant outlives ReadSource.
LEMMA ReadSourceKeeps == ASSUME ReleaseBounds, ReleaseInv, Rel!ReadSource PROVE ReleaseInv'
<1>1. UNCHANGED <<relTree, head, environment, verification, measurement, readiness, measured, package, release>>
  BY DEF Rel!ReadSource, Rel!evidence
<1>2. /\ environment \in Rel!Version /\ verification.revision \in Nat /\ measurement.revision \in Nat /\ release.id \in Nat
      /\ relTree \in Tree /\ head \in Tree /\ MaxVersion \in Nat
  BY NoneHasNoId DEF ReleaseInv, Rel!TypeOK, ReleaseBounds
<1>3. relRequest' \in Rel!Request /\ relRequest'.project < MaxVersion
  BY <1>2 DEF Rel!ReadSource, Rel!ProjectVersion, Rel!Request, Rel!Version
<1>4. Rel!TypeOK'
  BY <1>1, <1>3 DEF ReleaseInv, Rel!TypeOK, Rel!Version, Rel!Verification, Rel!Measurement, Rel!Readiness, Rel!Measured, Rel!Package,
     Rel!Release
<1> QED BY <1>1, <1>3, <1>4 DEF ReleaseInv, CopiedMeasured, CopiedPackage, GatesHold, Rel!None

\* The release as it is written: judged by the evidence that it copies.
LEMMA SnapshotHolds ==
    ASSUME ReleaseBounds, ReleaseInv, relRequest # Rel!None, release' = Rel!Snapshot, relRequest.project = Rel!ProjectVersion,
           UNCHANGED <<verification, measurement, readiness, measured, package, environment>>
    PROVE  /\ release' \in Rel!Release /\ CopiedMeasured' /\ CopiedPackage' /\ GatesHold'
           /\ release'.measurement <= measurement.revision /\ release'.verification <= verification.revision
<1>1. /\ readiness \in Rel!Readiness /\ measured \in Rel!Measured /\ package \in Rel!Package /\ relRequest \in Rel!Request
      /\ environment \in Rel!Version /\ verification \in Rel!Verification /\ measurement \in Rel!Measurement
      /\ release.id \in Nat /\ relRequest.project < MaxVersion /\ MaxVersion \in Nat
      /\ (readiness = Rel!None <=> readiness.id = 0) /\ (measured = Rel!None <=> measured.id = 0)
      /\ (package = Rel!None <=> package.id = 0)
  BY NoneHasNoId DEF ReleaseInv, Rel!TypeOK, ReleaseBounds
<1>2. relRequest.tree \in Tree /\ relRequest.head \in Tree /\ relRequest.project \in Nat
  BY <1>1 DEF Rel!Request, Rel!None, Rel!Version
<1> DEFINE gates == Rel!GateOf(relRequest.tree, relRequest.head)
<1>3. gates \in [Rel!Key -> Rel!Gate]
  <2>1. /\ Rel!ReadinessGate(relRequest.tree, relRequest.head) \in Rel!Gate
        /\ \A has : Rel!Aggregated(has, relRequest.tree) \in Rel!Gate
    BY DEF Rel!ReadinessGate, Rel!Aggregated, Rel!Gate
  <2>2. Rel!MeasuredGate(relRequest.tree) \in Rel!Gate
    BY DEF Rel!MeasuredGate, Rel!Gate
  <2> QED BY <2>1, <2>2 DEF Rel!GateOf, Rel!Key, Rel!Gate, Rel!Aggregated
<1>4. release.id + 1 \in Rel!Version
  BY <1>1, <1>2 DEF Rel!ProjectVersion, Rel!Version, Rel!Verification, Rel!Measurement
<1>5. /\ release' = [id |-> release.id + 1, tree |-> relRequest.tree, environment |-> environment,
                     verification |-> verification.revision, measurement |-> measurement.revision,
                     readiness |-> readiness, measured |-> measured, package |-> package, gates |-> gates]
  BY DEF Rel!Snapshot, Rel!New
<1>6. release' \in Rel!Release
  <2> HIDE DEF gates
  <2> QED BY <1>1, <1>2, <1>3, <1>4, <1>5 DEF Rel!Release, Rel!Verification, Rel!Measurement
<1>7. /\ gates.READINESS = Rel!ReadinessGate(relRequest.tree, relRequest.head)
      /\ gates.MEASURED = Rel!MeasuredGate(relRequest.tree)
      /\ gates.ACCEPTANCE = Rel!Aggregated(package # Rel!None /\ package.status = "ACCEPTED", relRequest.tree)
      /\ gates.VERIFICATION = "PASSED" => package # Rel!None /\ package.verification # 0 /\ Rel!VerifiedUnderPlan
  BY DEF Rel!GateOf, Rel!Aggregated
<1>8. /\ gates.READINESS = "PASSED" =>
           readiness # Rel!None /\ readiness.head = relRequest.tree /\ readiness.passed /\ ~readiness.dirty
      /\ gates.MEASURED = "PASSED" =>
           measured # Rel!None /\ measured.status = "PASSED" /\ Rel!MeasuredUnderPlan(relRequest.tree)
      /\ gates.ACCEPTANCE = "PASSED" =>
           package # Rel!None /\ package.status = "ACCEPTED" /\ package.tree = relRequest.tree
  <2> HIDE DEF gates
  <2> QED BY <1>7 DEF Rel!ReadinessGate, Rel!MeasuredGate, Rel!Aggregated
<1>9. /\ release'.gates = gates /\ release'.tree = relRequest.tree /\ release'.verification = verification.revision
      /\ release'.measurement = measurement.revision /\ release'.readiness = readiness /\ release'.measured = measured
      /\ release'.package = package
  <2> HIDE DEF gates
  <2> QED BY <1>5
<1>10. GatesHold'
  <2> HIDE DEF gates
  <2> QED BY <1>1, <1>7, <1>8, <1>9 DEF GatesHold, Rel!VerifiedUnderPlan, Rel!MeasuredUnderPlan
<1>11. CopiedMeasured' /\ CopiedPackage'
  BY <1>1, <1>9, NoneHasNoId DEF CopiedMeasured, CopiedPackage, Rel!Measured, Rel!Package, ReleaseInv
<1> QED BY <1>1, <1>6, <1>9, <1>10, <1>11, NoneHasNoId DEF Rel!Verification, Rel!Measurement, Rel!Version, ReleaseInv

\* The invariant outlives Create.
LEMMA RelCreateKeeps == ASSUME ReleaseBounds, ReleaseInv, Rel!Create PROVE ReleaseInv'
<1>1. /\ UNCHANGED <<relTree, head, environment, verification, measurement, readiness, measured, package>>
      /\ relRequest # Rel!None /\ relRequest' = Rel!None
  BY DEF Rel!Create, Rel!evidence
<1>2. CASE release' = release
  <2>1. Rel!TypeOK'
    BY <1>1, <1>2 DEF ReleaseInv, Rel!TypeOK, Rel!Version, Rel!Verification, Rel!Measurement, Rel!Readiness, Rel!Measured, Rel!Package,
       Rel!Request, Rel!Release, Rel!None
  <2> QED BY <1>1, <1>2, <2>1 DEF ReleaseInv, CopiedMeasured, CopiedPackage, GatesHold, Rel!None
<1>3. CASE release' = Rel!Snapshot /\ relRequest.project = Rel!ProjectVersion
  <2>1. /\ release' \in Rel!Release /\ CopiedMeasured' /\ CopiedPackage' /\ GatesHold'
        /\ release'.measurement <= measurement'.revision /\ release'.verification <= verification'.revision
    BY <1>1, <1>3, SnapshotHolds
  <2>2. Rel!TypeOK'
    BY <1>1, <2>1 DEF ReleaseInv, Rel!TypeOK, Rel!Version, Rel!Verification, Rel!Measurement, Rel!Readiness, Rel!Measured, Rel!Package,
       Rel!Request, Rel!Release, Rel!None
  <2> QED BY <1>1, <2>1, <2>2 DEF ReleaseInv, Rel!None
<1> QED BY <1>2, <1>3 DEF Rel!Create

\* The invariant of LaunchRelease, for any number of versions and of evidence.
THEOREM ReleaseInvariant == ASSUME ReleaseBounds PROVE Rel!Spec => []ReleaseInv
<1>1. Rel!Init => ReleaseInv
  BY DEF Rel!Init, ReleaseInv, ReleaseBounds, Rel!TypeOK, Rel!Version, Rel!Verification, Rel!Measurement, Rel!Readiness, Rel!Measured,
     Rel!Package, Rel!Request, Rel!Release, Rel!None, Rel!Ids
<1>2. ReleaseInv /\ Rel!Next => ReleaseInv'
  BY RepositoryKeeps, RelPlanKeeps, ReadinessKeeps, MeasuredKeeps, PackageKeeps, ReadSourceKeeps, RelCreateKeeps DEF Rel!Next
<1>3. ReleaseInv /\ UNCHANGED Rel!vars => ReleaseInv'
  BY DEF Rel!vars, Rel!evidence, ReleaseInv, Rel!TypeOK, Rel!Version, Rel!Verification, Rel!Measurement, Rel!Readiness, Rel!Measured,
     Rel!Package, Rel!Request, Rel!Release, Rel!None, Rel!Ids, CopiedMeasured, CopiedPackage, GatesHold
<1> QED BY <1>1, <1>2, <1>3, PTL DEF Rel!Spec

\* A release that may be deployed rests on evidence that is in force when it is asked.
THEOREM DeployableIsEvidenced == ASSUME ReleaseBounds PROVE Rel!Spec => []Rel!DeployableIsEvidenced
<1>1. ASSUME ReleaseInv, Rel!Deployable PROVE Rel!DeployableIsEvidenced
  <2>1. /\ release # Rel!None /\ CopiedMeasured /\ CopiedPackage /\ GatesHold
        /\ (readiness = Rel!None <=> readiness.id = 0) /\ (measured = Rel!None <=> measured.id = 0)
        /\ (package = Rel!None <=> package.id = 0)
    BY <1>1, NoneHasNoId DEF ReleaseInv, Rel!Deployable
  <2>2. /\ release.gates.READINESS = "PASSED" /\ release.gates.MEASURED = "PASSED"
        /\ release.gates.VERIFICATION = "PASSED" /\ release.gates.ACCEPTANCE = "PASSED"
    BY <1>1 DEF Rel!Deployable, Rel!Key
  <2>3. /\ release.tree = relTree /\ release.verification = verification.revision /\ release.measurement = measurement.revision
        /\ release.readiness = readiness
        /\ release.measured.id = measured.id /\ (measured # Rel!None => release.measured.version = measured.version)
        /\ release.package.id = package.id /\ (package # Rel!None => release.package.version = package.version)
    BY <1>1 DEF Rel!Deployable, Rel!Current, Rel!SameReadiness, Rel!SameMeasured, Rel!SamePackage
  <2>4. measured # Rel!None /\ release.measured = measured /\ package # Rel!None /\ release.package = package
    BY <2>1, <2>2, <2>3 DEF GatesHold, CopiedMeasured, CopiedPackage
  <2> QED BY <2>1, <2>2, <2>3, <2>4 DEF GatesHold, Rel!DeployableIsEvidenced
<1>2. ReleaseInv => Rel!DeployableIsEvidenced
  BY <1>1 DEF Rel!DeployableIsEvidenced
<1> QED BY <1>2, ReleaseInvariant, PTL

----
(* BrowserQA *)

CONSTANTS File, MaxTree
VARIABLES agent, evidRow, runner, dir, evidTree, closed, retained, unlinked, lost, evidPhase
Evid == INSTANCE BrowserQA WITH row <- evidRow, tree <- evidTree, phase <- evidPhase

\* Something of the run was lost by the disk.
Damaged(r) == \E g \in File : <<r, g>> \in lost

\* What the runner of a run relies on, from its reservation to the marker that it removes.
RunnerFits(r) ==
    /\ evidRow[r].status = "NONE" => runner[r] = Evid!Idle /\ dir[r] = Evid!NoDirectory
    /\ runner[r].at \in {"DRIVING", "MEASURED", "COMPLETING"} => evidRow[r].status = "RUNNING"
    /\ runner[r].at = "DRIVING" => dir[r] = Evid!NoDirectory /\ runner[r].verdict = "ERROR" /\ ~runner[r].finalized
    /\ runner[r].at = "MEASURED" =>
          dir[r].at = "QUARANTINE" /\ ~dir[r].marker /\ runner[r].verdict # "ERROR" /\ ~runner[r].finalized
    /\ runner[r].at = "COMPLETING" =>
          IF runner[r].finalized THEN dir[r].at = "FINAL" /\ dir[r].marker /\ runner[r].verdict # "ERROR"
                                 ELSE runner[r].verdict = "ERROR"
    /\ runner[r].at = "CONFIRMING" =>
          evidRow[r].status \in Evid!Ended /\ dir[r].at = "FINAL" /\ evidRow[r].refs = dir[r].marked

\* What a directory holds of what its marker names, and a row of what its directory holds.
EvidenceFits(r) ==
    /\ evidRow[r].status \notin Evid!Ended => evidRow[r].refs = {}
    /\ dir[r].at = "FINAL" =>
          /\ dir[r].files \subseteq dir[r].marked
          /\ ~dir[r].marker => evidRow[r].status \in Evid!Ended /\ evidRow[r].refs = dir[r].marked
          /\ dir[r].marker => \A f \in dir[r].marked \ dir[r].files : <<r, f>> \in lost
          /\ evidRow[r].refs # {} => evidRow[r].refs = dir[r].marked
    /\ \A f \in evidRow[r].refs : (dir[r].at = "FINAL" /\ f \in dir[r].files) \/ <<r, f>> \in unlinked \/ Damaged(r)
    /\ \A f \in File : <<r, f>> \in retained =>
          evidRow[r].status \in Evid!Ended /\ ~(dir[r].at = "FINAL" /\ f \in dir[r].files)

DownHasNoRunner == evidPhase # "UP" => \A r \in Run : runner[r].at = "IDLE"
RemovedIsClosed == unlinked \cup retained # {} => closed

QAInv ==
    /\ Evid!TypeOK /\ (\A r \in Run : RunnerFits(r) /\ EvidenceFits(r))
    /\ DownHasNoRunner /\ RemovedIsClosed

----
\* The types of what a step finds.
LEMMA QATypes ==
    ASSUME QAInv
    PROVE  /\ agent \in [Run -> {"NONE", "RUNNING", "ENDED"}]
           /\ evidRow \in [Run -> Evid!Row] /\ runner \in [Run -> Evid!Runner] /\ dir \in [Run -> Evid!Directory]
           /\ \A r \in Run : evidRow[r] \in Evid!Row /\ runner[r] \in Evid!Runner /\ dir[r] \in Evid!Directory
           /\ evidTree \in 1 .. MaxTree /\ closed \in BOOLEAN
           /\ retained \subseteq Run \X File /\ unlinked \subseteq Run \X File /\ lost \subseteq Run \X File
           /\ evidPhase \in {"UP", "DOWN", "RECOVERING", "CLEANING"}
  BY DEF QAInv, Evid!TypeOK

\* An idle runner is of its type.
LEMMA IdleIsRunner == Evid!Idle \in Evid!Runner /\ Evid!Idle.at = "IDLE"
  BY DEF Evid!Idle, Evid!Runner, Evid!Ended

\* A directory that was never made is of its type.
LEMMA NoneIsDirectory == Evid!NoDirectory \in Evid!Directory /\ Evid!NoDirectory.at = "NONE" /\ ~Evid!NoDirectory.marker
  BY DEF Evid!NoDirectory, Evid!Directory

\* A step of one run, which may remove or record some of its attachments.
LEMMA OneRunKeeps ==
    ASSUME QAInv, NEW r \in Run,
           NEW w \in Evid!Row, NEW s \in Evid!Runner, NEW d \in Evid!Directory,
           evidRow' = [evidRow EXCEPT ![r] = w], runner' = [runner EXCEPT ![r] = s], dir' = [dir EXCEPT ![r] = d],
           agent' \in [Run -> {"NONE", "RUNNING", "ENDED"}], UNCHANGED <<evidTree, closed, evidPhase>>,
           lost \subseteq lost', lost' \subseteq Run \X File, unlinked \subseteq unlinked', unlinked' \subseteq Run \X File,
           retained' \subseteq Run \X File, \A q \in Run \ {r}, f \in File : <<q, f>> \in retained' => <<q, f>> \in retained,
           RunnerFits(r)', EvidenceFits(r)', evidPhase # "UP" => s.at = "IDLE", RemovedIsClosed'
    PROVE  QAInv'
<1>1. Evid!TypeOK'
  BY QATypes DEF Evid!TypeOK
<1>2. ASSUME NEW q \in Run, q # r PROVE RunnerFits(q)' /\ EvidenceFits(q)'
  <2>1. evidRow'[q] = evidRow[q] /\ runner'[q] = runner[q] /\ dir'[q] = dir[q]
    BY <1>2, QATypes
  <2>2. RunnerFits(q) /\ EvidenceFits(q)
    BY DEF QAInv
  <2>3. Damaged(q) => Damaged(q)'
    BY DEF Damaged
  <2>4. RunnerFits(q)'
    BY <2>1, <2>2 DEF RunnerFits
  <2>5. EvidenceFits(q)'
    BY <1>2, <2>1, <2>2, <2>3 DEF EvidenceFits
  <2> QED BY <2>4, <2>5
<1>3. DownHasNoRunner'
  BY QATypes DEF QAInv, DownHasNoRunner
<1> QED BY <1>1, <1>2, <1>3 DEF QAInv

\* The same where the row of the run stays, and all that is recorded of attachments.
LEMMA RunnerKeeps ==
    ASSUME QAInv, NEW r \in Run, NEW s \in Evid!Runner, NEW d \in Evid!Directory,
           runner' = [runner EXCEPT ![r] = s], dir' = [dir EXCEPT ![r] = d],
           UNCHANGED <<agent, evidRow, evidTree, closed, retained, unlinked, lost, evidPhase>>,
           RunnerFits(r)', EvidenceFits(r)', evidPhase # "UP" => s.at = "IDLE"
    PROVE  QAInv'
<1>1. evidRow' = [evidRow EXCEPT ![r] = evidRow[r]] /\ evidRow[r] \in Evid!Row
  BY QATypes
<1>2. RemovedIsClosed'
  BY DEF QAInv, RemovedIsClosed
<1>3. agent' \in [Run -> {"NONE", "RUNNING", "ENDED"}] /\ UNCHANGED <<evidTree, closed, evidPhase>>
  BY QATypes
<1>4. lost \subseteq lost' /\ lost' \subseteq Run \X File /\ unlinked \subseteq unlinked' /\ unlinked' \subseteq Run \X File
  BY QATypes
<1>5. retained' \subseteq Run \X File /\ \A q \in Run \ {r}, f \in File : <<q, f>> \in retained' => <<q, f>> \in retained
  BY QATypes
<1> QED BY <1>1, <1>2, <1>3, <1>4, <1>5, OneRunKeeps

\* The invariant outlives Claim and EndAgentRun.
LEMMA AgentKeeps ==
    ASSUME QAInv, NEW r \in Run, Evid!Claim(r) \/ Evid!EndAgentRun(r) PROVE QAInv'
<1>1. UNCHANGED <<evidRow, runner, dir, evidTree, closed, retained, unlinked, lost, evidPhase>>
  BY DEF Evid!Claim, Evid!EndAgentRun
<1>2. agent' \in [Run -> {"NONE", "RUNNING", "ENDED"}]
  BY QATypes DEF Evid!Claim, Evid!EndAgentRun
<1>3. Evid!TypeOK'
  BY <1>1, <1>2, QATypes DEF Evid!TypeOK
<1>4. ASSUME NEW q \in Run PROVE RunnerFits(q)' /\ EvidenceFits(q)'
  <2>1. RunnerFits(q) /\ EvidenceFits(q)
    BY DEF QAInv
  <2>2. RunnerFits(q)'
    BY <1>1, <2>1 DEF RunnerFits
  <2>3. EvidenceFits(q)'
    BY <1>1, <2>1 DEF EvidenceFits, Damaged
  <2> QED BY <2>2, <2>3
<1>5. DownHasNoRunner' /\ RemovedIsClosed'
  BY <1>1 DEF QAInv, DownHasNoRunner, RemovedIsClosed
<1> QED BY <1>3, <1>4, <1>5 DEF QAInv

\* The invariant outlives Fix and Close.
LEMMA AroundKeeps == ASSUME QAInv, MaxTree \in Nat, Evid!Fix \/ Evid!Close PROVE QAInv'
<1>1. /\ evidTree' \in 1 .. MaxTree /\ closed' \in BOOLEAN /\ (closed => closed')
      /\ UNCHANGED <<agent, evidRow, runner, dir, retained, unlinked, lost, evidPhase>>
  <2>1. CASE Evid!Fix
    BY <2>1, QATypes DEF Evid!Fix, Evid!database
  <2>2. CASE Evid!Close
    BY <2>2, QATypes DEF Evid!Close
  <2> QED BY <2>1, <2>2
<1>2. Evid!TypeOK' /\ DownHasNoRunner' /\ RemovedIsClosed'
  BY <1>1 DEF QAInv, Evid!TypeOK, DownHasNoRunner, RemovedIsClosed
<1>3. \A r \in Run : RunnerFits(r)' /\ EvidenceFits(r)'
  BY <1>1 DEF QAInv, RunnerFits, EvidenceFits, Damaged
<1> QED BY <1>2, <1>3 DEF QAInv

\* The invariant outlives Crash, Start, CleanUp and Listen.
LEMMA EvidDaemonKeeps == ASSUME QAInv, Evid!Crash \/ Evid!Start \/ Evid!CleanUp \/ Evid!Listen PROVE QAInv'
<1>1. CASE Evid!Crash
  <2>1. runner' \in [Run -> Evid!Runner] /\ \A r \in Run : runner'[r] = Evid!Idle
    BY <1>1, IdleIsRunner DEF Evid!Crash
  <2>2. Evid!Idle.at = "IDLE"
    BY IdleIsRunner
  <2>3. UNCHANGED <<agent, evidRow, dir, evidTree, closed, retained, unlinked, lost>> /\ evidPhase' = "DOWN"
    BY <1>1 DEF Evid!Crash, Evid!database
  <2>4. Evid!TypeOK' /\ DownHasNoRunner' /\ RemovedIsClosed'
    BY <2>1, <2>2, <2>3, QATypes DEF QAInv, Evid!TypeOK, DownHasNoRunner, RemovedIsClosed
  <2>5. \A r \in Run : RunnerFits(r)' /\ EvidenceFits(r)'
    BY <2>1, <2>2, <2>3 DEF QAInv, RunnerFits, EvidenceFits, Damaged
  <2> QED BY <2>4, <2>5 DEF QAInv
<1>2. CASE Evid!Start \/ Evid!CleanUp
  BY <1>2 DEF QAInv, Evid!TypeOK, RunnerFits, EvidenceFits, Damaged, DownHasNoRunner, RemovedIsClosed,
              Evid!Start, Evid!CleanUp, Evid!database
<1>3. CASE Evid!Listen
  BY <1>3 DEF QAInv, Evid!TypeOK, RunnerFits, EvidenceFits, Damaged, DownHasNoRunner, RemovedIsClosed, Evid!Listen
<1> QED BY <1>1, <1>2, <1>3

\* The invariant outlives Lose.
LEMMA LoseKeeps == ASSUME QAInv, NEW r \in Run, NEW f \in File, Evid!Lose(r, f) PROVE QAInv'
<1> DEFINE d == [dir[r] EXCEPT !.files = @ \ {f}]
<1>1. dir[r] \in Evid!Directory /\ RunnerFits(r) /\ EvidenceFits(r)
  BY QATypes DEF QAInv
<1>2. /\ d \in Evid!Directory /\ d.files = dir[r].files \ {f}
      /\ d.at = dir[r].at /\ d.marker = dir[r].marker /\ d.marked = dir[r].marked
  BY <1>1 DEF Evid!Directory
<1>3. evidRow' = [evidRow EXCEPT ![r] = evidRow[r]] /\ evidRow[r] \in Evid!Row /\ runner' = [runner EXCEPT ![r] = runner[r]] /\ runner[r] \in Evid!Runner
  BY QATypes DEF Evid!Lose, Evid!database
<1>4. dir' = [dir EXCEPT ![r] = d]
  BY QATypes DEF Evid!Lose
<1>5. agent' \in [Run -> {"NONE", "RUNNING", "ENDED"}] /\ UNCHANGED <<evidTree, closed, evidPhase>>
  BY QATypes DEF Evid!Lose, Evid!database
<1>6. /\ lost = {} /\ lost' = {<<r, f>>} /\ dir[r].at = "FINAL" /\ retained' = retained /\ unlinked' = unlinked
      /\ evidRow'[r] = evidRow[r] /\ runner'[r] = runner[r] /\ dir'[r] = d
  BY <1>3, <1>4, QATypes DEF Evid!Lose, Evid!database
<1>7. lost \subseteq lost' /\ lost' \subseteq Run \X File /\ unlinked \subseteq unlinked' /\ unlinked' \subseteq Run \X File
  BY <1>6, QATypes
<1>8. retained' \subseteq Run \X File /\ \A q \in Run \ {r}, g \in File : <<q, g>> \in retained' => <<q, g>> \in retained
  BY <1>6, QATypes
<1> HIDE DEF d
<1>9. RunnerFits(r)'
  <2>1. d.at = "FINAL" /\ d # Evid!NoDirectory /\ dir[r] # Evid!NoDirectory
    BY <1>2, <1>6, NoneIsDirectory
  <2> QED BY <1>1, <1>2, <1>6, <2>1, QATypes DEF RunnerFits
<1>10. EvidenceFits(r)'
  <2>1. Damaged(r)'
    BY <1>6 DEF Damaged
  <2> QED BY <1>1, <1>2, <1>6, <2>1 DEF EvidenceFits
<1>11. (evidPhase # "UP" => runner[r].at = "IDLE") /\ RemovedIsClosed'
  BY <1>5, <1>6 DEF QAInv, DownHasNoRunner, RemovedIsClosed
<1> QED BY <1>2, <1>3, <1>4, <1>5, <1>7, <1>8, <1>9, <1>10, <1>11, OneRunKeeps

\* The invariant outlives Reserve.
LEMMA EvidReserveKeeps == ASSUME QAInv, MaxTree \in Nat, NEW r \in Run, Evid!Reserve(r) PROVE QAInv'
<1> DEFINE w == [evidRow[r] EXCEPT !.status = "RUNNING", !.tree = evidTree]
           s == [runner[r] EXCEPT !.at = "DRIVING"]
<1>1. /\ evidRow[r] \in Evid!Row /\ runner[r] = Evid!Idle /\ dir[r] = Evid!NoDirectory /\ RunnerFits(r) /\ EvidenceFits(r)
      /\ evidRow[r].status = "NONE" /\ evidPhase = "UP"
  BY QATypes DEF QAInv, RunnerFits, Evid!Reserve
<1>2. w \in Evid!Row /\ w.status = "RUNNING" /\ w.refs = evidRow[r].refs
  <2>1. evidTree \in 0 .. MaxTree
    BY QATypes
  <2> QED BY <1>1, <2>1 DEF Evid!Row
<1>3. s \in Evid!Runner /\ s.at = "DRIVING" /\ s.verdict = "ERROR" /\ ~s.finalized
  <2>1. runner[r].verdict = "ERROR" /\ ~runner[r].finalized
    BY <1>1 DEF Evid!Idle
  <2>2. runner[r] \in Evid!Runner
    BY QATypes
  <2> QED BY <2>1, <2>2 DEF Evid!Runner
<1>4. evidRow' = [evidRow EXCEPT ![r] = w] /\ runner' = [runner EXCEPT ![r] = s] /\ dir' = [dir EXCEPT ![r] = dir[r]] /\ dir[r] \in Evid!Directory
  BY QATypes DEF Evid!Reserve
<1>5. agent' \in [Run -> {"NONE", "RUNNING", "ENDED"}] /\ UNCHANGED <<evidTree, closed, evidPhase>>
  BY QATypes DEF Evid!Reserve
<1>6. /\ lost' = lost /\ retained' = retained /\ unlinked' = unlinked
      /\ evidRow'[r] = w /\ runner'[r] = s /\ dir'[r] = dir[r]
  BY <1>4, QATypes DEF Evid!Reserve
<1>7. lost \subseteq lost' /\ lost' \subseteq Run \X File /\ unlinked \subseteq unlinked' /\ unlinked' \subseteq Run \X File
  BY <1>6, QATypes
<1>8. retained' \subseteq Run \X File /\ \A q \in Run \ {r}, g \in File : <<q, g>> \in retained' => <<q, g>> \in retained
  BY <1>6, QATypes
<1> HIDE DEF w, s
<1>9. RunnerFits(r)'
  BY <1>1, <1>2, <1>3, <1>6 DEF RunnerFits
<1>10. EvidenceFits(r)'
  <2>1. evidRow[r].refs = {} /\ dir[r].at = "NONE" /\ \A f \in File : <<r, f>> \notin retained
    BY <1>1, NoneIsDirectory DEF EvidenceFits, Evid!Ended
  <2> QED BY <1>2, <1>6, <2>1 DEF EvidenceFits
<1>11. RemovedIsClosed'
  BY <1>5, <1>6 DEF QAInv, RemovedIsClosed
<1> QED BY <1>1, <1>2, <1>3, <1>4, <1>5, <1>7, <1>8, <1>9, <1>10, <1>11, OneRunKeeps

\* A run that has not ended has nothing recorded, and its directory may be moved.
LEMMA OpenEvidence ==
    ASSUME QAInv, NEW r \in Run, evidRow[r].status \notin Evid!Ended,
           NEW d \in Evid!Directory, dir' = [dir EXCEPT ![r] = d], evidRow' = evidRow, retained' = retained,
           d.at = "FINAL" => d.marker /\ d.files = d.marked
    PROVE  EvidenceFits(r)'
<1>1. evidRow'[r] = evidRow[r] /\ dir'[r] = d /\ evidRow[r].refs = {} /\ \A f \in File : <<r, f>> \notin retained'
  BY QATypes DEF QAInv, EvidenceFits
<1> QED BY <1>1 DEF EvidenceFits

\* The invariant outlives Drive and DriverFails.
LEMMA DriveKeeps == ASSUME QAInv, NEW r \in Run, Evid!Drive(r) \/ Evid!DriverFails(r) PROVE QAInv'
<1>1. /\ runner[r].at = "DRIVING" /\ RunnerFits(r) /\ evidRow[r].status = "RUNNING" /\ dir[r] = Evid!NoDirectory
      /\ runner[r].verdict = "ERROR" /\ ~runner[r].finalized /\ runner[r] \in Evid!Runner
      /\ UNCHANGED <<agent, evidRow, evidTree, closed, retained, unlinked, lost, evidPhase>> /\ evidPhase = "UP"
  <2>1. runner[r].at = "DRIVING" /\ UNCHANGED <<agent, evidRow, evidTree, closed, retained, unlinked, lost, evidPhase>>
    BY DEF Evid!Drive, Evid!DriverFails, Evid!database
  <2> QED BY <2>1, QATypes DEF QAInv, RunnerFits, DownHasNoRunner
<1>2. evidRow[r].status \notin Evid!Ended
  BY <1>1 DEF Evid!Ended
<1>3. CASE Evid!Drive(r)
  <2>1. PICK verdict \in {"PASSED", "FAILED"}, files \in SUBSET File :
          /\ runner' = [runner EXCEPT ![r].at = "MEASURED", ![r].verdict = verdict]
          /\ dir' = [dir EXCEPT ![r].at = "QUARANTINE", ![r].files = files]
    BY <1>3 DEF Evid!Drive
  <2> DEFINE s == [runner[r] EXCEPT !.at = "MEASURED", !.verdict = verdict]
             d == [dir[r] EXCEPT !.at = "QUARANTINE", !.files = files]
  <2>2. s \in Evid!Runner /\ s.at = "MEASURED" /\ s.verdict # "ERROR" /\ ~s.finalized
    BY <1>1 DEF Evid!Runner, Evid!Ended
  <2>3. d \in Evid!Directory /\ d.at = "QUARANTINE" /\ ~d.marker
    BY <1>1, NoneIsDirectory DEF Evid!Directory
  <2>4. runner' = [runner EXCEPT ![r] = s] /\ dir' = [dir EXCEPT ![r] = d]
    BY <2>1, QATypes
  <2> HIDE DEF s, d
  <2>5. runner'[r] = s /\ dir'[r] = d /\ evidRow'[r] = evidRow[r]
    BY <1>1, <2>4, QATypes
  <2>6. RunnerFits(r)'
    BY <1>1, <2>2, <2>3, <2>5 DEF RunnerFits
  <2>7. EvidenceFits(r)'
    BY <1>1, <1>2, <2>3, <2>4, OpenEvidence
  <2> QED BY <1>1, <2>2, <2>3, <2>4, <2>6, <2>7, RunnerKeeps
<1>4. CASE Evid!DriverFails(r)
  <2>1. PICK at \in {"NONE", "QUARANTINE"} : dir' = [dir EXCEPT ![r].at = at]
    BY <1>4 DEF Evid!DriverFails
  <2> DEFINE s == [runner[r] EXCEPT !.at = "COMPLETING"]
             d == [dir[r] EXCEPT !.at = at]
  <2>2. s \in Evid!Runner /\ s.at = "COMPLETING" /\ s.verdict = "ERROR" /\ ~s.finalized
    BY <1>1 DEF Evid!Runner, Evid!Ended
  <2>3. d \in Evid!Directory /\ d.at # "FINAL"
    BY <1>1, NoneIsDirectory DEF Evid!Directory
  <2>4. runner' = [runner EXCEPT ![r] = s] /\ dir' = [dir EXCEPT ![r] = d]
    BY <1>4, <2>1, QATypes DEF Evid!DriverFails
  <2> HIDE DEF s, d
  <2>5. runner'[r] = s /\ dir'[r] = d /\ evidRow'[r] = evidRow[r]
    BY <1>1, <2>4, QATypes
  <2>6. RunnerFits(r)'
    BY <1>1, <2>2, <2>3, <2>5 DEF RunnerFits
  <2>7. EvidenceFits(r)'
    BY <1>1, <1>2, <2>3, <2>4, OpenEvidence
  <2> QED BY <1>1, <2>2, <2>3, <2>4, <2>6, <2>7, RunnerKeeps
<1> QED BY <1>3, <1>4

\* The invariant outlives Finalize and FinalizeFails.
LEMMA FinalizeKeeps == ASSUME QAInv, NEW r \in Run, Evid!Finalize(r) \/ Evid!FinalizeFails(r) PROVE QAInv'
<1> DEFINE m == [dir[r] EXCEPT !.at = "FINAL", !.marker = TRUE, !.marked = dir[r].files]
<1>1. /\ runner[r].at = "MEASURED" /\ RunnerFits(r) /\ evidRow[r].status = "RUNNING"
      /\ runner[r].verdict # "ERROR" /\ ~runner[r].finalized /\ runner[r] \in Evid!Runner
      /\ dir[r] \in Evid!Directory /\ dir[r].at = "QUARANTINE"
      /\ UNCHANGED <<agent, evidRow, evidTree, closed, retained, unlinked, lost, evidPhase>> /\ evidPhase = "UP"
  <2>1. runner[r].at = "MEASURED" /\ UNCHANGED <<agent, evidRow, evidTree, closed, retained, unlinked, lost, evidPhase>>
    BY DEF Evid!Finalize, Evid!FinalizeFails, Evid!database
  <2> QED BY <2>1, QATypes DEF QAInv, RunnerFits, DownHasNoRunner
<1>2. evidRow[r].status \notin Evid!Ended
  BY <1>1 DEF Evid!Ended
<1>3. m \in Evid!Directory /\ m.at = "FINAL" /\ m.marker /\ m.marked = m.files
  BY <1>1 DEF Evid!Directory
<1>4. Evid!Moved(r) = [dir EXCEPT ![r] = m]
  BY QATypes DEF Evid!Moved
<1> HIDE DEF m
<1>5. CASE Evid!Finalize(r)
  <2> DEFINE s == [runner[r] EXCEPT !.at = "COMPLETING", !.finalized = TRUE]
  <2>1. s \in Evid!Runner /\ s.at = "COMPLETING" /\ s.verdict # "ERROR" /\ s.finalized
    BY <1>1 DEF Evid!Runner
  <2>2. runner' = [runner EXCEPT ![r] = s] /\ dir' = [dir EXCEPT ![r] = m]
    BY <1>4, <1>5, QATypes DEF Evid!Finalize
  <2> HIDE DEF s
  <2>3. runner'[r] = s /\ dir'[r] = m /\ evidRow'[r] = evidRow[r]
    BY <1>1, <2>2, QATypes
  <2>4. RunnerFits(r)'
    BY <1>1, <1>3, <2>1, <2>3 DEF RunnerFits
  <2>5. EvidenceFits(r)'
    BY <1>1, <1>2, <1>3, <2>2, OpenEvidence
  <2> QED BY <1>1, <1>3, <2>1, <2>2, <2>4, <2>5, RunnerKeeps
<1>6. CASE Evid!FinalizeFails(r)
  <2> DEFINE s == [runner[r] EXCEPT !.at = "COMPLETING", !.verdict = "ERROR"]
  <2>1. s \in Evid!Runner /\ s.at = "COMPLETING" /\ s.verdict = "ERROR" /\ ~s.finalized
    BY <1>1 DEF Evid!Runner, Evid!Ended
  <2>2. runner' = [runner EXCEPT ![r] = s]
    BY <1>6, QATypes DEF Evid!FinalizeFails
  <2>3. PICK d \in Evid!Directory : dir' = [dir EXCEPT ![r] = d] /\ (d.at = "FINAL" => d.marker /\ d.files = d.marked)
    <3>1. dir' \in {dir, Evid!Moved(r), [dir EXCEPT ![r] = Evid!NoDirectory]}
      BY <1>6 DEF Evid!FinalizeFails
    <3>2. dir = [dir EXCEPT ![r] = dir[r]]
      BY QATypes
    <3> QED BY <1>1, <1>3, <1>4, <3>1, <3>2, NoneIsDirectory
  <2> HIDE DEF s
  <2>4. runner'[r] = s /\ dir'[r] = d /\ evidRow'[r] = evidRow[r]
    BY <1>1, <2>2, <2>3, QATypes
  <2>5. RunnerFits(r)'
    BY <1>1, <2>1, <2>4 DEF RunnerFits
  <2>6. EvidenceFits(r)'
    BY <1>1, <1>2, <2>3, OpenEvidence
  <2> QED BY <1>1, <2>1, <2>2, <2>3, <2>5, <2>6, RunnerKeeps
<1> QED BY <1>5, <1>6

\* The invariant outlives Complete.
LEMMA CompleteKeeps == ASSUME QAInv, NEW r \in Run, Evid!Complete(r) PROVE QAInv'
<1>1. /\ runner[r].at = "COMPLETING" /\ RunnerFits(r) /\ EvidenceFits(r) /\ evidRow[r].status = "RUNNING"
      /\ runner[r] \in Evid!Runner /\ dir[r] \in Evid!Directory /\ evidRow[r] \in Evid!Row
      /\ UNCHANGED <<dir, evidTree, closed, retained, unlinked, lost, evidPhase>> /\ evidPhase = "UP"
  BY QATypes DEF QAInv, RunnerFits, DownHasNoRunner, Evid!Complete
<1>2. evidRow[r].refs = {} /\ dir' = [dir EXCEPT ![r] = dir[r]] /\ \A f \in File : <<r, f>> \notin retained
  BY <1>1, QATypes DEF EvidenceFits, Evid!Ended
<1>3. CASE Evid!Completable(r)
  <2> DEFINE kept == IF runner[r].verdict = "ERROR" THEN {} ELSE dir[r].marked
             w == [evidRow[r] EXCEPT !.status = runner[r].verdict, !.refs = kept]
             s == IF runner[r].finalized THEN [runner[r] EXCEPT !.at = "CONFIRMING"] ELSE Evid!Idle
  <2>1. kept \subseteq File
    BY <1>1 DEF Evid!Directory
  <2>2. runner[r].verdict \in Evid!Ended
    BY <1>1 DEF Evid!Runner
  <2>3. evidRow' = [evidRow EXCEPT ![r].status = runner[r].verdict, ![r].refs = kept]
    BY <1>3 DEF Evid!Complete
  <2>4. runner' = [runner EXCEPT ![r] = s]
    BY <1>3, QATypes DEF Evid!Complete
  <2>5. agent' \in [Run -> {"NONE", "RUNNING", "ENDED"}]
    BY <1>3, QATypes DEF Evid!Complete
  <2>6. s \in Evid!Runner /\ s.at = IF runner[r].finalized THEN "CONFIRMING" ELSE "IDLE"
    BY <1>1, IdleIsRunner DEF Evid!Runner
  <2> HIDE DEF kept, s
  <2>7. w \in Evid!Row /\ w.status = runner[r].verdict /\ w.refs = kept
    BY <1>1, <2>1, <2>2 DEF Evid!Row
  <2>8. evidRow' = [evidRow EXCEPT ![r] = w]
    BY <2>3, QATypes
  <2> HIDE DEF w
  <2>9. evidRow'[r] = w /\ runner'[r] = s /\ dir'[r] = dir[r]
    BY <1>1, <2>4, <2>8, QATypes
  <2>10. runner[r].finalized => dir[r].at = "FINAL" /\ dir[r].marker /\ kept = dir[r].marked
    BY <1>1 DEF RunnerFits, kept
  <2>11. ~runner[r].finalized => kept = {}
    BY <1>1 DEF RunnerFits, kept
  <2>12. w.status # "NONE" /\ w.status \in Evid!Ended
    BY <2>2, <2>7 DEF Evid!Ended
  <2>13. RunnerFits(r)'
    BY <2>6, <2>7, <2>9, <2>10, <2>12 DEF RunnerFits
  <2>14. EvidenceFits(r)'
    <3>1. dir[r].at = "FINAL" =>
            /\ dir[r].files \subseteq dir[r].marked
            /\ dir[r].marker
            /\ \A f \in dir[r].marked \ dir[r].files : <<r, f>> \in lost
      BY <1>1 DEF EvidenceFits, Evid!Ended
    <3>2. \A f \in kept : dir[r].at = "FINAL" /\ (f \in dir[r].files \/ Damaged(r)')
      BY <1>1, <2>1, <2>10, <2>11, <3>1 DEF Damaged
    <3>3. w.refs # {} => w.refs = dir[r].marked
      BY <2>7, <2>10, <2>11
    <3>4. \A f \in File : <<r, f>> \notin retained'
      BY <1>1, <1>2
    <3> QED BY <1>1, <2>7, <2>9, <2>12, <3>1, <3>2, <3>3, <3>4 DEF EvidenceFits
  <2>15. lost \subseteq lost' /\ lost' \subseteq Run \X File /\ unlinked \subseteq unlinked' /\ unlinked' \subseteq Run \X File
    BY <1>1, QATypes
  <2>16. retained' \subseteq Run \X File /\ \A q \in Run \ {r}, g \in File : <<q, g>> \in retained' => <<q, g>> \in retained
    BY <1>1, QATypes
  <2>17. UNCHANGED <<evidTree, closed, evidPhase>> /\ (evidPhase # "UP" => s.at = "IDLE") /\ RemovedIsClosed'
    BY <1>1 DEF QAInv, RemovedIsClosed
  <2> QED BY <1>1, <1>2, <2>4, <2>5, <2>6, <2>7, <2>8, <2>13, <2>14, <2>15, <2>16, <2>17, OneRunKeeps
<1>4. CASE ~Evid!Completable(r)
  <2>1. runner' = [runner EXCEPT ![r] = Evid!Idle] /\ UNCHANGED <<evidRow, agent>>
    BY <1>4 DEF Evid!Complete
  <2>2. runner'[r] = Evid!Idle /\ dir'[r] = dir[r] /\ evidRow'[r] = evidRow[r]
    BY <1>1, <2>1, QATypes
  <2>3. RunnerFits(r)'
    BY <1>1, <2>2, IdleIsRunner DEF RunnerFits
  <2>4. EvidenceFits(r)'
    BY <1>1, <2>2 DEF EvidenceFits, Damaged
  <2> QED BY <1>1, <1>2, <2>1, <2>3, <2>4, IdleIsRunner, RunnerKeeps
<1> QED BY <1>3, <1>4

\* The invariant outlives Confirm.
LEMMA ConfirmKeeps == ASSUME QAInv, NEW r \in Run, Evid!Confirm(r) PROVE QAInv'
<1> DEFINE m == [dir[r] EXCEPT !.marker = FALSE]
<1>1. /\ runner[r].at = "CONFIRMING" /\ RunnerFits(r) /\ EvidenceFits(r)
      /\ evidRow[r].status \in Evid!Ended /\ dir[r].at = "FINAL" /\ evidRow[r].refs = dir[r].marked
      /\ dir[r] \in Evid!Directory
      /\ UNCHANGED <<agent, evidRow, evidTree, closed, retained, unlinked, lost, evidPhase>>
  BY QATypes DEF QAInv, RunnerFits, Evid!Confirm, Evid!database
<1>2. m \in Evid!Directory /\ m.at = "FINAL" /\ ~m.marker /\ m.marked = dir[r].marked /\ m.files = dir[r].files
  BY <1>1 DEF Evid!Directory
<1>3. runner' = [runner EXCEPT ![r] = Evid!Idle] /\ runner'[r] = Evid!Idle /\ evidRow'[r] = evidRow[r]
  BY <1>1, QATypes DEF Evid!Confirm
<1>4. dir = [dir EXCEPT ![r] = dir[r]] /\ [dir EXCEPT ![r].marker = FALSE] = [dir EXCEPT ![r] = m]
  BY QATypes
<1> HIDE DEF m
<1>5. PICK d \in {dir[r], m} : dir' = [dir EXCEPT ![r] = d]
  BY <1>4 DEF Evid!Confirm
<1>6. dir'[r] = d /\ d \in Evid!Directory
  BY <1>1, <1>2, <1>5, QATypes
<1>7. RunnerFits(r)'
  BY <1>1, <1>3, IdleIsRunner DEF RunnerFits, Evid!Ended
<1>8. EvidenceFits(r)'
  BY <1>1, <1>2, <1>3, <1>5, <1>6 DEF EvidenceFits, Damaged
<1> QED BY <1>1, <1>3, <1>5, <1>6, <1>7, <1>8, IdleIsRunner, RunnerKeeps

\* The invariant outlives Recover.
LEMMA RecoverKeeps == ASSUME QAInv, NEW r \in Run, Evid!Recover(r) PROVE QAInv'
<1> DEFINE d == IF Evid!Committed(r) /\ Evid!Matches(r) THEN [dir[r] EXCEPT !.marker = FALSE]
                ELSE [dir[r] EXCEPT !.at = "ASIDE"]
<1>1. /\ dir[r].at = "FINAL" /\ dir[r].marker /\ RunnerFits(r) /\ EvidenceFits(r) /\ runner[r].at = "IDLE" /\ evidPhase # "UP"
      /\ dir[r] \in Evid!Directory /\ runner[r] \in Evid!Runner
      /\ UNCHANGED <<agent, evidRow, runner, evidTree, closed, retained, unlinked, lost, evidPhase>>
  BY QATypes DEF QAInv, DownHasNoRunner, Evid!Recover, Evid!database
<1>2. d \in Evid!Directory /\ d.files = dir[r].files /\ d.marked = dir[r].marked
  BY <1>1 DEF Evid!Directory
<1>3. CASE Evid!Committed(r) /\ Evid!Matches(r)
  <2>1. d.at = "FINAL" /\ ~d.marker
    BY <1>1, <1>3 DEF Evid!Directory
  <2>2. evidRow[r].status \in Evid!Ended /\ evidRow[r].refs = dir[r].marked /\ dir[r].marked \subseteq dir[r].files
    BY <1>3 DEF Evid!Committed, Evid!Matches
  <2> HIDE DEF d
  <2>3. \A w \in {evidRow[r]} : w.status # "NONE"
    BY <2>2 DEF Evid!Ended
  <2>4. dir' = [dir EXCEPT ![r] = d] /\ dir'[r] = d /\ runner' = [runner EXCEPT ![r] = runner[r]] /\ runner'[r] = runner[r] /\ evidRow'[r] = evidRow[r]
    BY <1>1, QATypes DEF Evid!Recover, d
  <2>5. RunnerFits(r)'
    BY <1>1, <2>3, <2>4 DEF RunnerFits
  <2>6. EvidenceFits(r)'
    BY <1>1, <1>2, <2>1, <2>2, <2>4 DEF EvidenceFits, Damaged
  <2> QED BY <1>1, <1>2, <2>4, <2>5, <2>6, RunnerKeeps
<1>4. CASE ~(Evid!Committed(r) /\ Evid!Matches(r))
  <2>1. d.at = "ASIDE"
    BY <1>1, <1>4 DEF Evid!Directory
  <2> HIDE DEF d
  <2>2. dir' = [dir EXCEPT ![r] = d] /\ dir'[r] = d /\ runner' = [runner EXCEPT ![r] = runner[r]] /\ runner'[r] = runner[r] /\ evidRow'[r] = evidRow[r]
    BY <1>1, QATypes DEF Evid!Recover, d
  <2>3. evidRow[r].status # "NONE"
    BY <1>1, NoneIsDirectory DEF RunnerFits
  <2>4. RunnerFits(r)'
    BY <1>1, <2>2, <2>3 DEF RunnerFits
  <2>5. \A f \in evidRow[r].refs : <<r, f>> \in unlinked \/ Damaged(r)
    <3>1. CASE evidRow[r].refs = {}
      BY <3>1
    <3>2. CASE evidRow[r].refs # {}
      <4>1. evidRow[r].status \in Evid!Ended /\ evidRow[r].refs = dir[r].marked
        BY <1>1, <3>2 DEF EvidenceFits
      <4>2. PICK f \in dir[r].marked : f \notin dir[r].files
        BY <1>4, <4>1 DEF Evid!Committed, Evid!Matches
      <4>3. <<r, f>> \in lost
        BY <1>1, <4>2 DEF EvidenceFits
      <4>4. f \in File
        BY <1>1, <4>2 DEF Evid!Directory
      <4> QED BY <4>3, <4>4 DEF Damaged
    <3> QED BY <3>1, <3>2
  <2>6. EvidenceFits(r)'
    BY <1>1, <2>1, <2>2, <2>5 DEF EvidenceFits, Damaged
  <2> QED BY <1>1, <1>2, <2>2, <2>4, <2>6, RunnerKeeps
<1> QED BY <1>3, <1>4

\* The invariant outlives Unlink.
LEMMA UnlinkKeeps == ASSUME QAInv, NEW r \in Run, NEW f \in File, Evid!Unlink(r, f) PROVE QAInv'
<1> DEFINE d == IF dir[r].files = {f} THEN Evid!NoDirectory ELSE [dir[r] EXCEPT !.files = @ \ {f}]
<1>1. /\ evidPhase = "CLEANING" /\ closed /\ f \in evidRow[r].refs /\ dir[r].at = "FINAL" /\ ~dir[r].marker /\ f \in dir[r].files
      /\ unlinked' = unlinked \cup {<<r, f>>} /\ RunnerFits(r) /\ EvidenceFits(r) /\ runner[r].at = "IDLE"
      /\ dir[r] \in Evid!Directory /\ runner[r] \in Evid!Runner /\ evidRow[r] \in Evid!Row
      /\ UNCHANGED <<agent, evidRow, runner, evidTree, closed, retained, lost, evidPhase>>
  BY QATypes DEF QAInv, DownHasNoRunner, Evid!Unlink, Evid!database, Evid!Expired, Evid!Pending, Evid!Present
<1>2. dir' = [dir EXCEPT ![r] = d]
  BY QATypes DEF Evid!Unlink
<1>3. d \in Evid!Directory
  BY <1>1, NoneIsDirectory DEF Evid!Directory
<1>4. \/ d.at = "NONE" /\ dir[r].files = {f}
      \/ d.at = "FINAL" /\ ~d.marker /\ d.marked = dir[r].marked /\ d.files = dir[r].files \ {f}
  BY <1>1, NoneIsDirectory DEF Evid!Directory
<1> HIDE DEF d
<1>5. /\ dir'[r] = d /\ runner' = [runner EXCEPT ![r] = runner[r]] /\ runner'[r] = runner[r]
      /\ evidRow' = [evidRow EXCEPT ![r] = evidRow[r]] /\ evidRow'[r] = evidRow[r]
  BY <1>1, <1>2, QATypes
<1>6. evidRow[r].status \in Evid!Ended /\ evidRow[r].status # "NONE"
  BY <1>1 DEF EvidenceFits, Evid!Ended
<1>7. RunnerFits(r)'
  BY <1>1, <1>5, <1>6 DEF RunnerFits
<1>8. EvidenceFits(r)'
  BY <1>1, <1>4, <1>5, <1>6 DEF EvidenceFits, Damaged
<1>9. lost \subseteq lost' /\ lost' \subseteq Run \X File /\ unlinked \subseteq unlinked' /\ unlinked' \subseteq Run \X File
  BY <1>1, QATypes
<1>10. retained' \subseteq Run \X File /\ \A q \in Run \ {r}, g \in File : <<q, g>> \in retained' => <<q, g>> \in retained
  BY <1>1, QATypes
<1>11. /\ agent' \in [Run -> {"NONE", "RUNNING", "ENDED"}] /\ UNCHANGED <<evidTree, closed, evidPhase>>
       /\ (evidPhase # "UP" => runner[r].at = "IDLE") /\ RemovedIsClosed'
  BY <1>1, QATypes DEF RemovedIsClosed
<1> QED BY <1>1, <1>2, <1>3, <1>5, <1>7, <1>8, <1>9, <1>10, <1>11, OneRunKeeps

\* The invariant outlives RecordRetention.
LEMMA RetentionKeeps == ASSUME QAInv, NEW r \in Run, NEW f \in File, Evid!RecordRetention(r, f) PROVE QAInv'
<1>1. /\ evidPhase = "CLEANING" /\ closed /\ f \in evidRow[r].refs /\ ~(dir[r].at = "FINAL" /\ f \in dir[r].files)
      /\ retained' = retained \cup {<<r, f>>} /\ RunnerFits(r) /\ EvidenceFits(r) /\ runner[r].at = "IDLE"
      /\ dir[r] \in Evid!Directory /\ runner[r] \in Evid!Runner /\ evidRow[r] \in Evid!Row
      /\ UNCHANGED <<agent, evidRow, runner, dir, evidTree, closed, unlinked, lost, evidPhase>>
  BY QATypes DEF QAInv, DownHasNoRunner, Evid!RecordRetention, Evid!Expired, Evid!Present
<1>2. /\ dir' = [dir EXCEPT ![r] = dir[r]] /\ dir'[r] = dir[r] /\ runner' = [runner EXCEPT ![r] = runner[r]] /\ runner'[r] = runner[r]
      /\ evidRow' = [evidRow EXCEPT ![r] = evidRow[r]] /\ evidRow'[r] = evidRow[r]
  BY <1>1, QATypes
<1>3. evidRow[r].status \in Evid!Ended
  BY <1>1 DEF EvidenceFits
<1>4. RunnerFits(r)'
  BY <1>1, <1>2 DEF RunnerFits
<1>5. EvidenceFits(r)'
  BY <1>1, <1>2, <1>3 DEF EvidenceFits, Damaged
<1>6. lost \subseteq lost' /\ lost' \subseteq Run \X File /\ unlinked \subseteq unlinked' /\ unlinked' \subseteq Run \X File
  BY <1>1, QATypes
<1>7. retained' \subseteq Run \X File /\ \A q \in Run \ {r}, g \in File : <<q, g>> \in retained' => <<q, g>> \in retained
  BY <1>1, QATypes
<1>8. /\ agent' \in [Run -> {"NONE", "RUNNING", "ENDED"}] /\ UNCHANGED <<evidTree, closed, evidPhase>>
      /\ (evidPhase # "UP" => runner[r].at = "IDLE") /\ RemovedIsClosed'
  BY <1>1, QATypes DEF RemovedIsClosed
<1>9. evidRow[r] \in Evid!Row /\ runner[r] \in Evid!Runner /\ dir[r] \in Evid!Directory
  BY <1>1
<1> QED BY <1>2, <1>4, <1>5, <1>6, <1>7, <1>8, <1>9, OneRunKeeps

\* No step breaks the invariant.
LEMMA QAStep == ASSUME MaxTree \in Nat, QAInv, [Evid!Next]_(Evid!vars) PROVE QAInv'
<1>1. CASE UNCHANGED Evid!vars
  <2>1. UNCHANGED <<agent, evidRow, runner, dir, evidTree, closed, retained, unlinked, lost, evidPhase>>
    BY <1>1 DEF Evid!vars
  <2> QED BY <2>1 DEF QAInv, Evid!TypeOK, RunnerFits, EvidenceFits, Damaged, DownHasNoRunner, RemovedIsClosed
<1>2. CASE \E r \in Run : Evid!Claim(r) \/ Evid!EndAgentRun(r) \/ Evid!Reserve(r) \/ Evid!Drive(r) \/ Evid!DriverFails(r)
  BY <1>2, AgentKeeps, EvidReserveKeeps, DriveKeeps
<1>3. CASE \E r \in Run : Evid!Finalize(r) \/ Evid!FinalizeFails(r) \/ Evid!Complete(r) \/ Evid!Confirm(r) \/ Evid!Recover(r)
  BY <1>3, FinalizeKeeps, CompleteKeeps, ConfirmKeeps, RecoverKeeps
<1>4. CASE \E r \in Run, f \in File : Evid!Lose(r, f) \/ Evid!Unlink(r, f) \/ Evid!RecordRetention(r, f)
  BY <1>4, LoseKeeps, UnlinkKeeps, RetentionKeeps
<1>5. CASE Evid!Fix \/ Evid!Close
  BY <1>5, AroundKeeps
<1>6. CASE Evid!Crash \/ Evid!Start \/ Evid!CleanUp \/ Evid!Listen
  BY <1>6, EvidDaemonKeeps
<1> QED BY <1>1, <1>2, <1>3, <1>4, <1>5, <1>6 DEF Evid!Next

\* The invariant holds before the first run.
LEMMA QABegins == ASSUME MaxTree \in Nat \ {0}, Evid!Init PROVE QAInv
<1>1. \A r \in Run : evidRow[r] = [status |-> "NONE", tree |-> 0, refs |-> {}] /\ runner[r] = Evid!Idle /\ dir[r] = Evid!NoDirectory
  BY DEF Evid!Init
<1>2. Evid!TypeOK
  <2>1. evidRow = [r \in Run |-> [status |-> "NONE", tree |-> 0, refs |-> {}]] /\ evidTree = 1
    BY DEF Evid!Init
  <2>2. [status |-> "NONE", tree |-> 0, refs |-> {}] \in Evid!Row /\ 1 \in 1 .. MaxTree
    BY DEF Evid!Row
  <2>3. evidRow \in [Run -> Evid!Row] /\ evidTree \in 1 .. MaxTree
    BY <2>1, <2>2
  <2> QED BY <2>3, IdleIsRunner, NoneIsDirectory DEF Evid!Init, Evid!TypeOK
<1>3. \A r \in Run : RunnerFits(r) /\ EvidenceFits(r)
  BY <1>1, IdleIsRunner, NoneIsDirectory DEF Evid!Init, RunnerFits, EvidenceFits, Evid!Ended
<1>4. DownHasNoRunner /\ RemovedIsClosed
  BY DEF Evid!Init, DownHasNoRunner, RemovedIsClosed
<1> QED BY <1>2, <1>3, <1>4 DEF QAInv

\* The properties follow from the invariant.
LEMMA EvidenceFollows == ASSUME QAInv PROVE Evid!EvidenceIsKept /\ Evid!ConfirmedIsRecorded /\ Evid!RetainedIsGone
  BY DEF QAInv, EvidenceFits, Damaged, RemovedIsClosed, Evid!EvidenceIsKept, Evid!ConfirmedIsRecorded, Evid!RetainedIsGone,
         Evid!Opens, Evid!Present

\* The invariant of BrowserQA, for any runs, files and trees.
THEOREM QAInvariant == ASSUME MaxTree \in Nat \ {0} PROVE Evid!Spec => []QAInv
<1>1. Evid!Init => QAInv
  BY QABegins
<1>2. QAInv /\ [Evid!Next]_(Evid!vars) => QAInv'
  BY QAStep
<1> QED BY <1>1, <1>2, PTL DEF Evid!Spec

\* The attachments of a verdict stay on disk until they expire, what was confirmed is recorded, and what expired is gone.
THEOREM EvidenceKept ==
    ASSUME MaxTree \in Nat \ {0} PROVE Evid!Spec => []Evid!EvidenceIsKept /\ []Evid!ConfirmedIsRecorded /\ []Evid!RetainedIsGone
<1>1. QAInv => Evid!EvidenceIsKept /\ Evid!ConfirmedIsRecorded /\ Evid!RetainedIsGone
  BY EvidenceFollows
<1> QED BY <1>1, QAInvariant, PTL

----
(* Acceptance *)

CONSTANTS Criterion, MaxCycles
VARIABLES evidence, pack, accPackage, asks
Acc == INSTANCE Acceptance WITH package <- accPackage

AcceptanceBounds == MaxRuns \in Nat /\ MaxCycles \in Nat

Held == {evidence[i] : i \in 1 .. Len(evidence)}
Reviewed == run.stage \in {"QA", "ACCEPTANCE"}
Measured == run.stage = "ACCEPTANCE"

AccRun == [no : 0 .. MaxRuns, status : {"NONE", "RUNNING", "WAITING_HUMAN", "HARD_PAUSED", "SUCCEEDED", "FAILED", "CANCELLED"},
        stage : {"IMPLEMENT", "REVIEW", "QA", "ACCEPTANCE"}, qa : 0 .. MaxCycles, ver : 0 .. MaxCycles, trees : Seq(Tree)]
AccItem == [state : {"READY", "IN_PROGRESS", "BLOCKED", "DONE", "CANCELLED"}, criteria : Acc!Lists]

RunType ==
    /\ item \in AccItem /\ run \in AccRun /\ evidence \in Seq(Acc!Artifact) /\ asks \subseteq Acc!Answer
    /\ run.stage # "IMPLEMENT" => run.trees # <<>>
    /\ run.status # "NONE" => run.no # 0

\* What the stages before left is of the cycle the run is in.
CycleIsEvidenced ==
    /\ Reviewed => Acc!Recorded("REVIEW") \in Held
    /\ Measured => Acc!Recorded("QA") \in Held

\* The session was shown what a search finds now.
PackIsShown ==
    pack # Acc!NoPack => Acc!At("ACCEPTANCE") /\ pack = [review |-> Acc!ShownReview(Acc!ShownQA), qa |-> Acc!ShownQA]

\* A package waits for the owner exactly while its run does, and what it binds is of that run.
PackageFits ==
    /\ accPackage = Acc!NoPackage \/ accPackage \in Acc!Package
    /\ accPackage.status = "PENDING" =>
         /\ run.status = "WAITING_HUMAN" /\ accPackage.rows = item.criteria /\ accPackage.rows # <<>>
         /\ accPackage.review \in Held /\ accPackage.qa \in Held /\ accPackage.review.kind = "REVIEW"
         /\ accPackage.qa = Acc!Recorded("QA") /\ accPackage.qa.kind = "QA" /\ accPackage.review.tree = accPackage.qa.tree
         /\ accPackage.qa.tree = Acc!Last(run.trees)
    /\ accPackage.status \in {"ACCEPTED", "RETURNED", "REJECTED"} => run.status \in {"SUCCEEDED", "FAILED"}

AcceptInv == RunType /\ CycleIsEvidenced /\ PackIsShown /\ PackageFits

----
\* A set of numbers has a least one.
LEMMA Least == ASSUME NEW H \in SUBSET Nat, H # {} PROVE (CHOOSE i \in H : \A j \in H : i <= j) \in H
<1> DEFINE Less == OpToRel(<, Nat)
<1>1. IsWellFoundedOn(Less, Nat)
  BY NatLessThanWellFounded
<1>2. \A a, b \in Nat : a < b => <<a, b>> \in Less
  BY DEF OpToRel
<1> HIDE DEF Less
<1>3. PICK i \in H : \A j \in H : ~(<<j, i>> \in Less)
  BY <1>1, WFMin
<1>4. ASSUME NEW j \in H PROVE i <= j
  <2>1. i \in Nat /\ j \in Nat
    OBVIOUS
  <2>2. ~(j < i)
    BY <1>2, <1>3, <2>1, Zenon
  <2> QED BY <2>1, <2>2
<1> QED BY <1>4

\* The types of what a step finds.
LEMMA AcceptFacts ==
    ASSUME AcceptanceBounds, AcceptInv
    PROVE  /\ Len(evidence) \in Nat /\ DOMAIN evidence = 1 .. Len(evidence) /\ DOMAIN evidence \in SUBSET Nat
           /\ \A i \in 1 .. Len(evidence) : evidence[i] \in Acc!Artifact
           /\ Held \subseteq Acc!Artifact /\ Acc!ToSet(evidence) = Held
           /\ run.qa \in 0 .. MaxCycles /\ run.ver \in 0 .. MaxCycles /\ run.trees \in Seq(Tree) /\ run.no \in 0 .. MaxRuns
           /\ (run.stage # "IMPLEMENT" => Acc!Last(run.trees) \in Tree)
<1>1. evidence \in Seq(Acc!Artifact)
  BY DEF AcceptInv, RunType
<1>2. Len(evidence) \in Nat /\ DOMAIN evidence = 1 .. Len(evidence) /\ \A i \in 1 .. Len(evidence) : evidence[i] \in Acc!Artifact
  BY <1>1, LenProperties
<1>3. run.qa \in 0 .. MaxCycles /\ run.ver \in 0 .. MaxCycles /\ run.trees \in Seq(Tree) /\ run.no \in 0 .. MaxRuns
  BY DEF AcceptInv, RunType, AccRun
<1>4. run.stage # "IMPLEMENT" => Acc!Last(run.trees) \in Tree
  <2>1. SUFFICES ASSUME run.stage # "IMPLEMENT" PROVE Acc!Last(run.trees) \in Tree
    OBVIOUS
  <2>2. run.trees # <<>>
    BY <2>1 DEF AcceptInv, RunType
  <2>3. Len(run.trees) \in Nat \ {0}
    BY <1>3, <2>2, EmptySeq
  <2>4. Len(run.trees) \in 1 .. Len(run.trees)
    BY <2>3
  <2> QED BY <1>3, <2>4, ElementOfSeq DEF Acc!Last
<1>5. Acc!ToSet(evidence) = Held
  BY <1>2 DEF Acc!ToSet, Held
<1>6. Held \subseteq Acc!Artifact
  BY <1>2 DEF Held
<1>7. DOMAIN evidence \in SUBSET Nat
  BY <1>2
<1> QED BY <1>2, <1>3, <1>4, <1>5, <1>6, <1>7

\* Two artifacts that agree in what the evidence says of them are one.
LEMMA SameArtifact ==
    ASSUME NEW a \in Acc!Artifact, NEW b \in Acc!Artifact, a.kind = b.kind, a.qa = b.qa, a.ver = b.ver, a.tree = b.tree
    PROVE  a = b
  BY DEF Acc!Artifact

\* What a stage records is of the cycle of its run.
LEMMA RecordedFacts ==
    ASSUME AcceptanceBounds, AcceptInv, run.stage # "IMPLEMENT", NEW kind \in {"REVIEW", "QA"}
    PROVE  /\ Acc!Recorded(kind) \in Acc!Artifact /\ Acc!Recorded(kind).kind = kind /\ Acc!Recorded(kind).qa = run.qa
           /\ Acc!Recorded(kind).ver = run.ver /\ Acc!Recorded(kind).tree = Acc!Last(run.trees)
  BY AcceptFacts DEF Acc!Recorded, Acc!Artifact

\* Where some artifact answers the description, the search finds one that does.
LEMMA ShownQAFacts ==
    ASSUME AcceptanceBounds, AcceptInv, Acc!At("ACCEPTANCE")
    PROVE  Acc!ShownQA = Acc!Recorded("QA") /\ Acc!Recorded("QA") \in Held
<1> DEFINE H == {i \in DOMAIN evidence : /\ evidence[i].kind = "QA" /\ evidence[i].qa = run.qa /\ evidence[i].ver = run.ver
                                         /\ evidence[i].tree = Acc!Last(run.trees)}
           found == CHOOSE i \in H : \A j \in H : i <= j
<1>1. Acc!ShownQA = IF H = {} THEN Acc!NoneYet ELSE evidence[found]
  BY DEF Acc!ShownQA, Acc!Find
<1>2. run.stage = "ACCEPTANCE" /\ Acc!Recorded("QA") \in Held
  BY DEF AcceptInv, CycleIsEvidenced, Measured, Acc!At
<1>3. PICK r \in 1 .. Len(evidence) : evidence[r] = Acc!Recorded("QA")
  BY <1>2 DEF Held
<1>4. r \in H
  BY <1>2, <1>3, AcceptFacts, RecordedFacts
<1>5. H \in SUBSET Nat
  BY AcceptFacts
<1> HIDE DEF found
<1>6. found \in H
  <2>1. (CHOOSE i \in H : \A j \in H : i <= j) \in H
    <3> HIDE DEF H
    <3> QED BY <1>4, <1>5, Least
  <2> QED BY <2>1 DEF found
<1>7. evidence[found] \in Acc!Artifact
  BY <1>6, AcceptFacts
<1>8. evidence[found] = Acc!Recorded("QA")
  BY <1>2, <1>6, <1>7, RecordedFacts, SameArtifact
<1> QED BY <1>1, <1>2, <1>4, <1>8

\* An artifact that the search for a Review finds.
LEMMA ReviewOfFacts ==
    ASSUME AcceptanceBounds, AcceptInv, NEW q \in Acc!Artifact
    PROVE  /\ Acc!ReviewOf(q) # Acc!NoneYet =>
                \E i \in 1 .. Len(evidence) : Acc!ReviewOf(q) = evidence[i] /\ evidence[i].kind = "REVIEW" /\ evidence[i].qa = q.qa /\ evidence[i].tree = q.tree
           /\ (\E i \in 1 .. Len(evidence) : evidence[i].kind = "REVIEW" /\ evidence[i].qa = q.qa /\ evidence[i].tree = q.tree)
                => Acc!ReviewOf(q) # Acc!NoneYet
<1> DEFINE H == {i \in DOMAIN evidence : evidence[i].kind = "REVIEW" /\ evidence[i].qa = q.qa /\ evidence[i].tree = q.tree}
           found == CHOOSE i \in H : \A j \in H : i <= j
<1>1. q # Acc!NoneYet /\ \A a \in Acc!Artifact : a # Acc!NoneYet
  BY DEF Acc!NoneYet, Acc!Artifact
<1>2. Acc!ReviewOf(q) = IF H = {} THEN Acc!NoneYet ELSE evidence[found]
  BY <1>1 DEF Acc!ReviewOf, Acc!Find
<1>3. H \in SUBSET Nat /\ H \subseteq 1 .. Len(evidence)
  BY AcceptFacts
<1>4. H # {} => (CHOOSE i \in H : \A j \in H : i <= j) \in H
  <2> HIDE DEF H
  <2> QED BY <1>3, Least
<1> HIDE DEF found
<1>5. H # {} => found \in H
  BY <1>4 DEF found
<1>6. H # {} => evidence[found] \in Acc!Artifact
  BY <1>3, <1>5, AcceptFacts
<1>7. Acc!ReviewOf(q) # Acc!NoneYet =>
         \E i \in 1 .. Len(evidence) : Acc!ReviewOf(q) = evidence[i] /\ evidence[i].kind = "REVIEW" /\ evidence[i].qa = q.qa /\ evidence[i].tree = q.tree
  BY <1>2, <1>3, <1>5
<1>8. (\E i \in 1 .. Len(evidence) : evidence[i].kind = "REVIEW" /\ evidence[i].qa = q.qa /\ evidence[i].tree = q.tree)
         => Acc!ReviewOf(q) # Acc!NoneYet
  BY <1>1, <1>2, <1>6, AcceptFacts
<1> QED BY <1>7, <1>8

\* A search for the Review of the cycle finds one, where there is one.
LEMMA ShownReviewFacts ==
    ASSUME AcceptanceBounds, AcceptInv, NEW q \in Acc!Artifact,
           \E i \in 1 .. Len(evidence) : evidence[i].kind = "REVIEW" /\ evidence[i].qa = q.qa /\ evidence[i].ver = q.ver /\ evidence[i].tree = q.tree
    PROVE  \E i \in 1 .. Len(evidence) : Acc!ShownReview(q) = evidence[i] /\ evidence[i].kind = "REVIEW" /\ evidence[i].qa = q.qa /\ evidence[i].tree = q.tree
<1> DEFINE H == {i \in DOMAIN evidence : evidence[i].kind = "REVIEW" /\ evidence[i].qa = q.qa /\ evidence[i].ver = q.ver /\ evidence[i].tree = q.tree}
           found == CHOOSE i \in H : \A j \in H : i <= j
<1>1. q # Acc!NoneYet
  BY DEF Acc!NoneYet, Acc!Artifact
<1>2. Acc!ShownReview(q) = IF H = {} THEN Acc!NoneYet ELSE evidence[found]
  BY <1>1 DEF Acc!ShownReview, Acc!Find
<1>3. H \in SUBSET Nat /\ H \subseteq 1 .. Len(evidence) /\ H # {}
  BY AcceptFacts
<1>4. (CHOOSE i \in H : \A j \in H : i <= j) \in H
  <2> HIDE DEF H
  <2> QED BY <1>3, Least
<1> HIDE DEF found
<1>5. found \in H
  BY <1>4 DEF found
<1> QED BY <1>2, <1>3, <1>5

\* At the acceptance stage both searches find a Review of the QA that is shown.
LEMMA ShownPack ==
    ASSUME AcceptanceBounds, AcceptInv, Acc!At("ACCEPTANCE")
    PROVE  /\ Acc!ShownQA = Acc!Recorded("QA") /\ Acc!Recorded("QA") \in Acc!Artifact
           /\ \E i \in 1 .. Len(evidence) : /\ Acc!ShownReview(Acc!ShownQA) = evidence[i] /\ evidence[i].kind = "REVIEW"
                                            /\ evidence[i].qa = run.qa /\ evidence[i].tree = Acc!Last(run.trees)
           /\ \E i \in 1 .. Len(evidence) : /\ Acc!ReviewOf(Acc!ShownQA) = evidence[i] /\ evidence[i].kind = "REVIEW"
                                            /\ evidence[i].qa = run.qa /\ evidence[i].tree = Acc!Last(run.trees)
           /\ Acc!NoneYet \notin {Acc!ReviewOf(Acc!ShownQA), Acc!ShownQA}
<1> DEFINE q == Acc!Recorded("QA")
<1>1. run.stage = "ACCEPTANCE" /\ Acc!Recorded("REVIEW") \in Held
  BY DEF AcceptInv, CycleIsEvidenced, Reviewed, Acc!At
<1>2. q \in Acc!Artifact /\ q.qa = run.qa /\ q.ver = run.ver /\ q.tree = Acc!Last(run.trees)
  BY <1>1, RecordedFacts
<1>3. PICK r \in 1 .. Len(evidence) : evidence[r] = Acc!Recorded("REVIEW")
  BY <1>1 DEF Held
<1>4. evidence[r].kind = "REVIEW" /\ evidence[r].qa = q.qa /\ evidence[r].ver = q.ver /\ evidence[r].tree = q.tree
  BY <1>1, <1>2, <1>3, RecordedFacts
<1>5. Acc!ShownQA = q
  BY ShownQAFacts
<1> HIDE DEF q
<1>6. \E i \in 1 .. Len(evidence) : Acc!ShownReview(q) = evidence[i] /\ evidence[i].kind = "REVIEW" /\ evidence[i].qa = q.qa /\ evidence[i].tree = q.tree
  BY <1>2, <1>3, <1>4, ShownReviewFacts
<1>7. Acc!ReviewOf(q) # Acc!NoneYet
  BY <1>2, <1>3, <1>4, ReviewOfFacts
<1>8. \E i \in 1 .. Len(evidence) : Acc!ReviewOf(q) = evidence[i] /\ evidence[i].kind = "REVIEW" /\ evidence[i].qa = q.qa /\ evidence[i].tree = q.tree
  BY <1>2, <1>7, ReviewOfFacts
<1>9. q # Acc!NoneYet
  BY <1>2 DEF Acc!NoneYet, Acc!Artifact
<1> QED BY <1>2, <1>5, <1>6, <1>7, <1>8, <1>9 DEF q

----
\* A package is told from none.
LEMMA PackageFacts ==
    ASSUME AcceptInv
    PROVE  /\ Acc!NoPackage.status = "NONE" /\ accPackage.status \in {"NONE", "PENDING", "ACCEPTED", "RETURNED", "REJECTED"}
           /\ (accPackage.status # "NONE" => accPackage \in Acc!Package)
           /\ (accPackage.status = "NONE" => accPackage = Acc!NoPackage)
  BY DEF AcceptInv, PackageFits, Acc!NoPackage, Acc!Package

\* What the searches find rests on the run and its evidence.
LEMMA SameSearch ==
    ASSUME UNCHANGED <<run, evidence>>
    PROVE  /\ Acc!ShownQA' = Acc!ShownQA /\ Acc!ShownReview(Acc!ShownQA)' = Acc!ShownReview(Acc!ShownQA)
           /\ Held' = Held /\ Acc!Recorded("QA")' = Acc!Recorded("QA") /\ Acc!Recorded("REVIEW")' = Acc!Recorded("REVIEW")
           /\ Acc!At("ACCEPTANCE")' = Acc!At("ACCEPTANCE")
<1>1. Acc!ShownQA' = Acc!ShownQA
  BY DEF Acc!ShownQA, Acc!Find, Acc!Last
<1>2. Acc!ShownReview(Acc!ShownQA)' = Acc!ShownReview(Acc!ShownQA)
  <2> DEFINE q == Acc!ShownQA
  <2>1. q' = q
    BY <1>1
  <2> HIDE DEF q
  <2>2. Acc!ShownReview(q)' = Acc!ShownReview(q)
    BY <2>1 DEF Acc!ShownReview, Acc!Find
  <2> QED BY <2>2 DEF q
<1>3. Held' = Held /\ Acc!Recorded("QA")' = Acc!Recorded("QA") /\ Acc!Recorded("REVIEW")' = Acc!Recorded("REVIEW")
  BY DEF Held, Acc!Recorded, Acc!Last
<1>4. Acc!At("ACCEPTANCE")' = Acc!At("ACCEPTANCE")
  BY DEF Acc!At
<1> QED BY <1>1, <1>2, <1>3, <1>4

\* The invariant outlives Answer, At, ShownReview and ShownQA.
LEMMA QuietKeeps ==
    ASSUME AcceptanceBounds, AcceptInv, UNCHANGED <<run, evidence, accPackage>>, item' \in AccItem, asks' \subseteq Acc!Answer,
           item'.criteria = item.criteria \/ run.status # "WAITING_HUMAN",
           pack' = pack \/ (Acc!At("ACCEPTANCE") /\ pack' = [review |-> Acc!ShownReview(Acc!ShownQA), qa |-> Acc!ShownQA])
    PROVE  AcceptInv'
<1>1. RunType'
  BY DEF AcceptInv, RunType
<1>2. CycleIsEvidenced'
  BY SameSearch DEF AcceptInv, CycleIsEvidenced, Reviewed, Measured
<1>3. PackIsShown'
  <2>1. CASE pack' = pack
    <3>1. pack # Acc!NoPack => Acc!At("ACCEPTANCE") /\ pack = [review |-> Acc!ShownReview(Acc!ShownQA), qa |-> Acc!ShownQA]
      BY DEF AcceptInv, PackIsShown
    <3>2. Acc!NoPack' = Acc!NoPack
      BY DEF Acc!NoPack, Acc!NoneYet
    <3> QED BY <2>1, <3>1, <3>2, SameSearch DEF PackIsShown
  <2>2. CASE Acc!At("ACCEPTANCE") /\ pack' = [review |-> Acc!ShownReview(Acc!ShownQA), qa |-> Acc!ShownQA]
    BY <2>2, SameSearch DEF PackIsShown
  <2> QED BY <2>1, <2>2
<1>4. PackageFits'
  <2>1. PackageFits /\ Acc!Last(run.trees)' = Acc!Last(run.trees)
    BY DEF AcceptInv, Acc!Last
  <2> QED BY <2>1, SameSearch DEF PackageFits
<1> QED BY <1>1, <1>2, <1>3, <1>4 DEF AcceptInv

\* While nothing waits, what is shown and bound says nothing of the run.
LEMMA MoveKeeps ==
    ASSUME AcceptInv, RunType', CycleIsEvidenced', pack' = Acc!NoPack, accPackage' = accPackage \/ accPackage' = Acc!NoPackage,
           accPackage'.status \notin {"PENDING", "ACCEPTED", "RETURNED", "REJECTED"}
    PROVE  AcceptInv'
<1>1. PackageFits'
  BY DEF AcceptInv, PackageFits
<1>2. PackIsShown'
  BY DEF PackIsShown
<1> QED BY <1>1, <1>2 DEF AcceptInv

\* A run that moves on is a run.
LEMMA RunMoves ==
    ASSUME NEW r \in AccRun, NEW stage \in {"IMPLEMENT", "REVIEW", "QA", "ACCEPTANCE"}, NEW trees \in Seq(Tree),
           NEW status \in {"RUNNING", "WAITING_HUMAN", "HARD_PAUSED", "SUCCEEDED", "FAILED", "CANCELLED"},
           NEW qa \in 0 .. MaxCycles, NEW ver \in 0 .. MaxCycles
    PROVE  /\ [r EXCEPT !.stage = stage, !.trees = trees] \in AccRun
           /\ [r EXCEPT !.stage = stage] \in AccRun
           /\ [r EXCEPT !.status = status] \in AccRun
           /\ [r EXCEPT !.stage = stage, !.qa = qa, !.ver = ver] \in AccRun
  BY DEF AccRun

\* Nothing is shown outside of the acceptance stage.
LEMMA NoneShown == ASSUME AcceptInv, ~Acc!At("ACCEPTANCE") PROVE pack = Acc!NoPack
  BY DEF AcceptInv, PackIsShown

\* No package is bound while its run goes on.
LEMMA NoneBound == ASSUME AcceptInv, run.status \in {"RUNNING", "HARD_PAUSED"} PROVE accPackage.status = "NONE" /\ accPackage = Acc!NoPackage
  BY PackageFacts DEF AcceptInv, PackageFits

----
\* The invariant outlives Lists and EditCriteria.
LEMMA EditKeeps == ASSUME AcceptanceBounds, AcceptInv, NEW list \in Acc!Lists, Acc!EditCriteria(list) PROVE AcceptInv'
<1>1. UNCHANGED <<run, evidence, accPackage, pack, asks>> /\ run.status # "WAITING_HUMAN" /\ item' = [item EXCEPT !.criteria = list]
  BY DEF Acc!EditCriteria, Acc!CriteriaAreFree, Acc!Active
<1>2. item \in AccItem /\ asks \subseteq Acc!Answer
  BY DEF AcceptInv, RunType
<1>3. item' \in AccItem
  BY <1>1, <1>2 DEF AccItem
<1> QED BY <1>1, <1>2, <1>3, QuietKeeps

\* The invariant outlives Reopen.
LEMMA ReopenKeeps == ASSUME AcceptanceBounds, AcceptInv, Acc!Reopen PROVE AcceptInv'
<1>1. UNCHANGED <<run, evidence, accPackage, pack, asks>> /\ item' = [item EXCEPT !.state = "READY"]
  BY DEF Acc!Reopen
<1>2. item \in AccItem /\ asks \subseteq Acc!Answer
  BY DEF AcceptInv, RunType
<1>3. item' \in AccItem /\ item'.criteria = item.criteria
  BY <1>1, <1>2 DEF AccItem
<1> QED BY <1>1, <1>2, <1>3, QuietKeeps

\* The invariant outlives ShowEvidence.
LEMMA ShowKeeps == ASSUME AcceptanceBounds, AcceptInv, Acc!ShowEvidence PROVE AcceptInv'
<1>1. /\ UNCHANGED <<run, evidence, accPackage, item, asks>> /\ Acc!At("ACCEPTANCE")
      /\ pack' = [review |-> Acc!ShownReview(Acc!ShownQA), qa |-> Acc!ShownQA]
  BY DEF Acc!ShowEvidence
<1>2. item \in AccItem /\ asks \subseteq Acc!Answer
  BY DEF AcceptInv, RunType
<1> QED BY <1>1, <1>2, QuietKeeps

\* The invariant outlives Resolution, Ask and RefuseAnswer.
LEMMA AccAskKeeps ==
    ASSUME AcceptanceBounds, AcceptInv,
           (\E action \in DOMAIN Acc!Resolution : Acc!Ask(action)) \/ (\E a \in asks : Acc!RefuseAnswer(a))
    PROVE  AcceptInv'
<1>1. UNCHANGED <<run, evidence, accPackage, item, pack>>
  BY DEF Acc!Ask, Acc!RefuseAnswer
<1>2. item \in AccItem /\ asks \subseteq Acc!Answer
  BY DEF AcceptInv, RunType
<1>3. CASE \E action \in DOMAIN Acc!Resolution : Acc!Ask(action)
  <2>1. PICK action \in DOMAIN Acc!Resolution : Acc!Ask(action)
    BY <1>3
  <2>2. accPackage.status = "PENDING" /\ asks' = asks \cup {[no |-> accPackage.no, action |-> action]}
    BY <2>1 DEF Acc!Ask
  <2>3. accPackage.no \in 1 .. MaxRuns
    BY <2>2, PackageFacts DEF Acc!Package
  <2>4. action \in {"ACCEPT", "RETURN_TO_WORK", "REJECT"}
    BY DEF Acc!Resolution
  <2>5. [no |-> accPackage.no, action |-> action] \in Acc!Answer
    BY <2>3, <2>4 DEF Acc!Answer
  <2>6. asks' \subseteq Acc!Answer
    BY <1>2, <2>2, <2>5
  <2> QED BY <1>1, <1>2, <2>6, QuietKeeps
<1>4. CASE \E a \in asks : Acc!RefuseAnswer(a)
  <2>1. asks' \subseteq Acc!Answer
    BY <1>2, <1>4 DEF Acc!RefuseAnswer
  <2> QED BY <1>1, <1>2, <2>1, QuietKeeps
<1> QED BY <1>3, <1>4

\* The invariant outlives Start.
LEMMA StartKeeps == ASSUME AcceptanceBounds, AcceptInv, Acc!Start PROVE AcceptInv'
<1>1. /\ item' = [item EXCEPT !.state = "IN_PROGRESS"] /\ run.no < MaxRuns /\ ~Acc!Active
      /\ run' = [no |-> run.no + 1, status |-> "RUNNING", stage |-> "IMPLEMENT", qa |-> 0, ver |-> 0, trees |-> <<>>]
      /\ evidence' = <<>> /\ accPackage' = Acc!NoPackage /\ UNCHANGED <<pack, asks>>
  BY DEF Acc!Start
<1>2. item \in AccItem /\ asks \subseteq Acc!Answer /\ run.no \in 0 .. MaxRuns
  BY AcceptFacts DEF AcceptInv, RunType
<1>3. item' \in AccItem
  BY <1>1, <1>2 DEF AccItem
<1>4. run.no + 1 \in 0 .. MaxRuns /\ run.no + 1 # 0 /\ 0 \in 0 .. MaxCycles
  BY <1>1, <1>2 DEF AcceptanceBounds
<1>5. <<>> \in Seq(Tree) /\ <<>> \in Seq(Acc!Artifact)
  BY EmptySeq
<1>6. run' \in AccRun
  BY <1>1, <1>4, <1>5 DEF AccRun
<1>7. run'.stage = "IMPLEMENT" /\ run'.no = run.no + 1
  BY <1>1
<1>8. RunType'
  BY <1>1, <1>2, <1>3, <1>4, <1>5, <1>6, <1>7 DEF RunType
<1>9. CycleIsEvidenced'
  BY <1>7 DEF CycleIsEvidenced, Reviewed, Measured
<1>10. pack' = Acc!NoPack
  BY <1>1, NoneShown DEF Acc!At, Acc!Active
<1>11. accPackage'.status = "NONE"
  BY <1>1 DEF Acc!NoPackage
<1> QED BY <1>1, <1>8, <1>9, <1>10, <1>11, MoveKeeps

\* The invariant outlives Implement.
LEMMA ImplementKeeps == ASSUME AcceptanceBounds, AcceptInv, NEW t \in Tree, Acc!Implement(t) PROVE AcceptInv'
<1>1. /\ run.status = "RUNNING" /\ run.stage = "IMPLEMENT" /\ UNCHANGED <<item, evidence, pack, accPackage, asks>>
      /\ run' = [run EXCEPT !.stage = "REVIEW", !.trees = Append(@, t)]
  BY DEF Acc!Implement, Acc!At
<1>2. /\ run \in AccRun /\ run.trees \in Seq(Tree) /\ item \in AccItem /\ evidence \in Seq(Acc!Artifact) /\ asks \subseteq Acc!Answer
      /\ (run.status # "NONE" => run.no # 0)
  BY AcceptFacts DEF AcceptInv, RunType
<1>3. Append(run.trees, t) \in Seq(Tree) /\ Append(run.trees, t) # <<>>
  BY <1>2, AppendProperties, EmptySeq
<1>4. run' = [run EXCEPT !.stage = "REVIEW", !.trees = Append(run.trees, t)]
  BY <1>1
<1>5. run' \in AccRun /\ run'.stage = "REVIEW" /\ run'.trees = Append(run.trees, t) /\ run'.no = run.no /\ run'.status = run.status
  BY <1>2, <1>3, <1>4 DEF AccRun
<1>6. RunType'
  BY <1>1, <1>2, <1>3, <1>5 DEF RunType
<1>7. CycleIsEvidenced'
  BY <1>5 DEF CycleIsEvidenced, Reviewed, Measured
<1>8. pack' = Acc!NoPack
  BY <1>1, NoneShown DEF Acc!At
<1>9. accPackage'.status = "NONE"
  BY <1>1, NoneBound
<1> QED BY <1>1, <1>6, <1>7, <1>8, <1>9, MoveKeeps

\* The invariant outlives Pass.
LEMMA PassKeeps ==
    ASSUME AcceptanceBounds, AcceptInv, NEW kind \in {"REVIEW", "QA"}, NEW stage, NEW next,
           (kind = "REVIEW" /\ stage = "REVIEW" /\ next = "QA") \/ (kind = "QA" /\ stage = "QA" /\ next = "ACCEPTANCE"),
           Acc!Pass(kind, stage, next)
    PROVE  AcceptInv'
<1>1. /\ run.status = "RUNNING" /\ run.stage = stage /\ UNCHANGED <<item, pack, accPackage, asks>>
      /\ evidence' = Append(evidence, Acc!Recorded(kind)) /\ run' = [run EXCEPT !.stage = next]
  BY DEF Acc!Pass, Acc!At
<1>2. /\ run \in AccRun /\ item \in AccItem /\ evidence \in Seq(Acc!Artifact) /\ asks \subseteq Acc!Answer
      /\ (run.status # "NONE" => run.no # 0) /\ run.trees # <<>>
  BY <1>1, AcceptFacts DEF AcceptInv, RunType
<1>3. run' \in AccRun /\ run'.stage = next /\ run'.trees = run.trees /\ run'.no = run.no /\ run'.status = run.status /\ run'.qa = run.qa /\ run'.ver = run.ver
  BY <1>1, <1>2 DEF AccRun
<1>4. Acc!Recorded(kind) \in Acc!Artifact
  BY <1>1, RecordedFacts
<1>5. /\ evidence' \in Seq(Acc!Artifact) /\ Len(evidence') = Len(evidence) + 1 /\ Len(evidence) \in Nat
      /\ \A i \in 1 .. Len(evidence) : evidence'[i] = evidence[i]
      /\ evidence'[Len(evidence) + 1] = Acc!Recorded(kind)
  BY <1>1, <1>2, <1>4, AppendProperties, AcceptFacts
<1>6. Held \subseteq Held' /\ Acc!Recorded(kind) \in Held'
  <2>1. Len(evidence) + 1 \in 1 .. Len(evidence')
    BY <1>5
  <2>2. \A i \in 1 .. Len(evidence) : i \in 1 .. Len(evidence')
    BY <1>5
  <2> QED BY <1>5, <2>1, <2>2 DEF Held
<1>7. Acc!Recorded("QA")' = Acc!Recorded("QA") /\ Acc!Recorded("REVIEW")' = Acc!Recorded("REVIEW")
  BY <1>3 DEF Acc!Recorded, Acc!Last
<1>8. RunType'
  BY <1>1, <1>2, <1>3, <1>5 DEF RunType
<1>9. CycleIsEvidenced'
  BY <1>1, <1>3, <1>6, <1>7 DEF AcceptInv, CycleIsEvidenced, Reviewed, Measured
<1>10. pack' = Acc!NoPack
  BY <1>1, NoneShown DEF Acc!At
<1>11. accPackage'.status = "NONE"
  BY <1>1, NoneBound
<1> QED BY <1>1, <1>8, <1>9, <1>10, <1>11, MoveKeeps

\* The invariant outlives Correct.
LEMMA CorrectKeeps == ASSUME AcceptanceBounds, AcceptInv, NEW kind \in {"QA", "V"}, Acc!Correct(kind) PROVE AcceptInv'
<1> DEFINE qa == IF kind = "QA" THEN Acc!Cycles ELSE run.qa
           ver == IF kind = "V" THEN Acc!Cycles ELSE 0
<1>1. /\ run.status = "RUNNING" /\ pack = Acc!NoPack /\ UNCHANGED <<item, evidence, pack, accPackage, asks>> /\ Acc!Cycles <= MaxCycles
      /\ run' = [run EXCEPT !.stage = "IMPLEMENT", !.qa = qa, !.ver = ver]
  BY NoneShown DEF Acc!Correct, Acc!At
<1>2. /\ run \in AccRun /\ item \in AccItem /\ evidence \in Seq(Acc!Artifact) /\ asks \subseteq Acc!Answer
      /\ (run.status # "NONE" => run.no # 0)
  BY AcceptFacts DEF AcceptInv, RunType
<1>3. Acc!Cycles \in 0 .. MaxCycles
  <2>1. Len(run.trees) \in Nat
    BY AcceptFacts, LenProperties
  <2> QED BY <1>1, <2>1 DEF Acc!Cycles, AcceptanceBounds
<1>4. qa \in 0 .. MaxCycles /\ ver \in 0 .. MaxCycles
  BY <1>3, AcceptFacts DEF AcceptanceBounds
<1> HIDE DEF qa, ver
<1>5. run' \in AccRun /\ run'.stage = "IMPLEMENT" /\ run'.no = run.no /\ run'.status = run.status
  BY <1>1, <1>2, <1>4 DEF AccRun
<1>6. RunType'
  BY <1>1, <1>2, <1>5 DEF RunType
<1>7. CycleIsEvidenced'
  BY <1>5 DEF CycleIsEvidenced, Reviewed, Measured
<1>8. accPackage'.status = "NONE"
  BY <1>1, NoneBound
<1> QED BY <1>1, <1>6, <1>7, <1>8, MoveKeeps

\* A run that changes its status alone stays of the cycle it was in.
LEMMA StatusFacts ==
    ASSUME AcceptanceBounds, AcceptInv, UNCHANGED evidence, item' \in AccItem, asks' \subseteq Acc!Answer, run.status # "NONE",
           NEW status \in {"RUNNING", "WAITING_HUMAN", "HARD_PAUSED", "SUCCEEDED", "FAILED", "CANCELLED"},
           run' = [run EXCEPT !.status = status]
    PROVE  RunType' /\ CycleIsEvidenced' /\ Held' = Held /\ run'.status = status /\ Acc!Recorded("QA")' = Acc!Recorded("QA")
           /\ Acc!Last(run.trees)' = Acc!Last(run.trees) /\ run'.no = run.no
<1>1. /\ run \in AccRun /\ item \in AccItem /\ evidence \in Seq(Acc!Artifact) /\ run.no # 0
      /\ (run.stage # "IMPLEMENT" => run.trees # <<>>)
  BY DEF AcceptInv, RunType
<1>2. /\ run' \in AccRun /\ run'.stage = run.stage /\ run'.trees = run.trees /\ run'.no = run.no /\ run'.status = status
      /\ run'.qa = run.qa /\ run'.ver = run.ver
  BY <1>1 DEF AccRun
<1>3. RunType'
  BY <1>1, <1>2 DEF RunType
<1>4. /\ Held' = Held /\ Acc!Recorded("QA")' = Acc!Recorded("QA") /\ Acc!Recorded("REVIEW")' = Acc!Recorded("REVIEW")
      /\ Acc!Last(run.trees)' = Acc!Last(run.trees)
  BY <1>2 DEF Held, Acc!Recorded, Acc!Last
<1>5. CycleIsEvidenced'
  BY <1>2, <1>4 DEF AcceptInv, CycleIsEvidenced, Reviewed, Measured
<1> QED BY <1>2, <1>3, <1>4, <1>5

\* The invariant outlives Resume and Cancel.
LEMMA ResumeKeeps == ASSUME AcceptanceBounds, AcceptInv, Acc!Resume \/ Acc!Cancel PROVE AcceptInv'
<1>1. item \in AccItem /\ asks \subseteq Acc!Answer
  BY DEF AcceptInv, RunType
<1>2. CASE Acc!Resume
  <2>1. /\ run.status = "HARD_PAUSED" /\ run' = [run EXCEPT !.status = "RUNNING"] /\ item' = [item EXCEPT !.state = "IN_PROGRESS"]
        /\ UNCHANGED <<evidence, pack, accPackage, asks>>
    BY <1>2 DEF Acc!Resume
  <2>2. item' \in AccItem
    BY <1>1, <2>1 DEF AccItem
  <2>3. RunType' /\ CycleIsEvidenced'
    BY <1>1, <2>1, <2>2, StatusFacts
  <2>4. pack' = Acc!NoPack /\ accPackage'.status = "NONE"
    BY <2>1, NoneShown, NoneBound DEF Acc!At
  <2> QED BY <2>1, <2>3, <2>4, MoveKeeps
<1>3. CASE Acc!Cancel
  <2>1. /\ Acc!Active /\ accPackage.status # "PENDING" /\ pack = Acc!NoPack
        /\ run' = [run EXCEPT !.status = "CANCELLED"] /\ item' = [item EXCEPT !.state = "CANCELLED"]
        /\ UNCHANGED <<evidence, pack, accPackage, asks>>
    BY <1>3 DEF Acc!Cancel
  <2>2. item' \in AccItem
    BY <1>1, <2>1 DEF AccItem
  <2>3. run.status # "NONE" /\ accPackage.status \notin {"ACCEPTED", "RETURNED", "REJECTED"}
    BY <2>1 DEF Acc!Active, AcceptInv, PackageFits
  <2>4. RunType' /\ CycleIsEvidenced'
    BY <1>1, <2>1, <2>2, <2>3, StatusFacts
  <2> QED BY <2>1, <2>3, <2>4, MoveKeeps
<1> QED BY <1>2, <1>3

\* The invariant outlives Reject.
LEMMA RejectKeeps == ASSUME AcceptanceBounds, AcceptInv, NEW c, Acc!Reject(c) PROVE AcceptInv'
<1>1. /\ run.status = "RUNNING" /\ run' = [run EXCEPT !.status = "HARD_PAUSED"] /\ item' = [item EXCEPT !.state = "BLOCKED"]
      /\ pack' = Acc!NoPack /\ UNCHANGED <<evidence, accPackage, asks>>
  BY DEF Acc!Reject, Acc!At
<1>2. item \in AccItem /\ asks \subseteq Acc!Answer
  BY DEF AcceptInv, RunType
<1>3. item' \in AccItem
  BY <1>1, <1>2 DEF AccItem
<1>4. RunType' /\ CycleIsEvidenced'
  BY <1>1, <1>2, <1>3, StatusFacts
<1>5. accPackage'.status = "NONE"
  BY <1>1, NoneBound
<1> QED BY <1>1, <1>4, <1>5, MoveKeeps

\* The invariant outlives Claim and Prepare.
LEMMA PrepareKeeps == ASSUME AcceptanceBounds, AcceptInv, NEW c \in Acc!Claim, Acc!Prepare(c) PROVE AcceptInv'
<1>1. /\ Acc!At("ACCEPTANCE") /\ Acc!Bound(c) /\ run.status = "RUNNING" /\ run.stage = "ACCEPTANCE"
      /\ accPackage' = [status |-> "PENDING", no |-> run.no, rows |-> c.criteria, review |-> c.review, qa |-> c.qa]
      /\ run' = [run EXCEPT !.status = "WAITING_HUMAN"] /\ item' = [item EXCEPT !.state = "BLOCKED"]
      /\ pack' = Acc!NoPack /\ UNCHANGED <<evidence, asks>>
  BY DEF Acc!Prepare, Acc!At
<1>2. item \in AccItem /\ asks \subseteq Acc!Answer /\ run.no \in 1 .. MaxRuns
  <2>1. run.no # 0 /\ run.no \in 0 .. MaxRuns
    BY <1>1, AcceptFacts DEF AcceptInv, RunType
  <2> QED BY <2>1 DEF AcceptInv, RunType, AcceptanceBounds
<1>3. item' \in AccItem /\ item'.criteria = item.criteria
  BY <1>1, <1>2 DEF AccItem
<1>4. /\ RunType' /\ CycleIsEvidenced' /\ run'.status = "WAITING_HUMAN" /\ Held' = Held /\ Acc!Recorded("QA")' = Acc!Recorded("QA")
      /\ Acc!Last(run.trees)' = Acc!Last(run.trees)
  BY <1>1, <1>2, <1>3, StatusFacts
<1>5. /\ item.criteria # <<>> /\ c.criteria = item.criteria /\ c.review = Acc!ReviewOf(Acc!ShownQA) /\ c.qa = Acc!ShownQA
      /\ c.criteria \in Acc!Lists
  BY <1>1 DEF Acc!Bound, Acc!Claim
<1>6. /\ Acc!ShownQA = Acc!Recorded("QA") /\ Acc!Recorded("QA") \in Acc!Artifact /\ Acc!Recorded("QA") \in Held
      /\ Acc!Recorded("QA").kind = "QA" /\ Acc!Recorded("QA").tree = Acc!Last(run.trees)
  BY <1>1, ShownPack, ShownQAFacts, RecordedFacts
<1>7. PICK i \in 1 .. Len(evidence) : /\ Acc!ReviewOf(Acc!ShownQA) = evidence[i] /\ evidence[i].kind = "REVIEW"
                                      /\ evidence[i].tree = Acc!Last(run.trees)
  BY <1>1, ShownPack
<1>8. c.review \in Held /\ c.review \in Acc!Artifact /\ c.review.kind = "REVIEW" /\ c.review.tree = Acc!Last(run.trees)
  BY <1>5, <1>7, AcceptFacts DEF Held
<1>9. accPackage' \in Acc!Package
  BY <1>1, <1>2, <1>5, <1>6, <1>8 DEF Acc!Package
<1>10. accPackage'.status = "PENDING" /\ accPackage'.rows = item.criteria /\ accPackage'.review = c.review /\ accPackage'.qa = Acc!Recorded("QA")
  BY <1>1, <1>5, <1>6
<1>11. PackageFits'
  BY <1>3, <1>4, <1>5, <1>6, <1>8, <1>9, <1>10 DEF PackageFits
<1>12. PackIsShown'
  BY <1>1 DEF PackIsShown, Acc!NoPack, Acc!NoneYet
<1> QED BY <1>4, <1>11, <1>12 DEF AcceptInv

\* The package that an answer resolves.
LEMMA ResolveFacts ==
    ASSUME AcceptanceBounds, AcceptInv, NEW a \in asks, Acc!Resolve(a)
    PROVE  /\ accPackage.status = "PENDING" /\ accPackage.no = a.no /\ asks' = asks \ {a}
           /\ accPackage'.status = Acc!Resolution[a.action] /\ accPackage'.status \in {"ACCEPTED", "RETURNED", "REJECTED"}
           /\ accPackage' \in Acc!Package
<1>1. accPackage.status = "PENDING" /\ accPackage.no = a.no /\ asks' = asks \ {a} /\ accPackage' = [accPackage EXCEPT !.status = Acc!Resolution[a.action]]
  BY DEF Acc!Resolve, Acc!Awaits
<1>2. a \in Acc!Answer
  BY DEF AcceptInv, RunType
<1>3. Acc!Resolution[a.action] \in {"ACCEPTED", "RETURNED", "REJECTED"}
  BY <1>2 DEF Acc!Answer, Acc!Resolution
<1>4. accPackage \in Acc!Package
  BY <1>1, PackageFacts
<1> QED BY <1>1, <1>3, <1>4 DEF Acc!Package

\* The invariant outlives Resolve.
LEMMA ResolveKeeps == ASSUME AcceptanceBounds, AcceptInv, NEW a \in asks, Acc!Resolve(a) PROVE AcceptInv'
<1> DEFINE status == IF a.action = "ACCEPT" THEN "SUCCEEDED" ELSE "FAILED"
           state == IF a.action = "ACCEPT" THEN "DONE" ELSE "BLOCKED"
<1>1. run' = [run EXCEPT !.status = status] /\ item' = [item EXCEPT !.state = state] /\ asks' = asks \ {a} /\ UNCHANGED <<evidence, pack>>
  BY DEF Acc!Resolve
<1>2. status \in {"SUCCEEDED", "FAILED"} /\ state \in {"DONE", "BLOCKED"}
  OBVIOUS
<1> HIDE DEF status, state
<1>3. run.status = "WAITING_HUMAN"
  BY ResolveFacts DEF AcceptInv, PackageFits
<1>4. item' \in AccItem /\ asks' \subseteq Acc!Answer
  BY <1>1, <1>2 DEF AcceptInv, RunType, AccItem
<1>5. RunType' /\ CycleIsEvidenced' /\ run'.status = status
  BY <1>1, <1>2, <1>3, <1>4, StatusFacts
<1>6. PackageFits'
  BY <1>2, <1>5, ResolveFacts DEF PackageFits
<1>7. PackIsShown'
  BY <1>1, <1>3, NoneShown DEF Acc!At, PackIsShown, Acc!NoPack, Acc!NoneYet
<1> QED BY <1>5, <1>6, <1>7 DEF AcceptInv

\* The invariant holds before the first run.
LEMMA AcceptBegins == ASSUME AcceptanceBounds, Acc!Init PROVE AcceptInv
<1>1. item \in AccItem /\ pack = Acc!NoPack /\ accPackage = Acc!NoPackage /\ asks = {} /\ evidence = <<>>
  BY DEF Acc!Init, AccItem
<1>2. run = [no |-> 0, status |-> "NONE", stage |-> "IMPLEMENT", qa |-> 0, ver |-> 0, trees |-> <<>>]
  BY DEF Acc!Init
<1>3. <<>> \in Seq(Tree) /\ <<>> \in Seq(Acc!Artifact)
  BY EmptySeq
<1>4. run \in AccRun
  BY <1>2, <1>3 DEF AccRun, AcceptanceBounds
<1>5. RunType
  BY <1>1, <1>2, <1>3, <1>4 DEF RunType
<1>6. CycleIsEvidenced
  BY <1>2 DEF CycleIsEvidenced, Reviewed, Measured
<1>7. PackageFits
  BY <1>1 DEF PackageFits, Acc!NoPackage
<1> QED BY <1>1, <1>5, <1>6, <1>7 DEF AcceptInv, PackIsShown

\* No step breaks the invariant.
LEMMA AccAcceptStep == ASSUME AcceptanceBounds, AcceptInv, [Acc!Next]_(Acc!vars) PROVE AcceptInv'
<1>1. CASE Acc!Reopen \/ Acc!Start \/ Acc!ShowEvidence \/ Acc!Resume \/ Acc!Cancel
  BY <1>1, ReopenKeeps, StartKeeps, ShowKeeps, ResumeKeeps
<1>2. CASE Acc!PassReview
  BY <1>2, PassKeeps DEF Acc!PassReview
<1>3. CASE Acc!PassQA
  BY <1>3, PassKeeps DEF Acc!PassQA
<1>4. CASE \E list \in Acc!Lists : Acc!EditCriteria(list)
  BY <1>4, EditKeeps
<1>5. CASE \E t \in Tree : Acc!Implement(t)
  BY <1>5, ImplementKeeps
<1>6. CASE \E kind \in {"QA", "V"} : Acc!Correct(kind)
  BY <1>6, CorrectKeeps
<1>7. CASE \E c \in Acc!Claim : Acc!Prepare(c) \/ Acc!Reject(c)
  BY <1>7, PrepareKeeps, RejectKeeps
<1>8. CASE (\E action \in DOMAIN Acc!Resolution : Acc!Ask(action)) \/ \E a \in asks : Acc!RefuseAnswer(a)
  BY <1>8, AccAskKeeps
<1>9. CASE \E a \in asks : Acc!Resolve(a)
  BY <1>9, ResolveKeeps
<1>10. CASE UNCHANGED Acc!vars
  <2>1. UNCHANGED <<run, evidence, accPackage, item, pack, asks>>
    BY <1>10 DEF Acc!vars
  <2>2. item \in AccItem /\ asks \subseteq Acc!Answer
    BY DEF AcceptInv, RunType
  <2> QED BY <2>1, <2>2, QuietKeeps
<1> QED BY <1>1, <1>2, <1>3, <1>4, <1>5, <1>6, <1>7, <1>8, <1>9, <1>10 DEF Acc!Next

\* The invariant of Acceptance, for any criteria, trees and number of cycles.
THEOREM AcceptInvariant == ASSUME AcceptanceBounds PROVE Acc!Spec => []AcceptInv
<1>1. Acc!Init => AcceptInv
  BY AcceptBegins
<1>2. AcceptInv /\ [Acc!Next]_(Acc!vars) => AcceptInv'
  BY AccAcceptStep
<1> QED BY <1>1, <1>2, PTL DEF Acc!Spec

\* A package that the invariant holds of can be exported.
LEMMA PendingIsWhole == ASSUME AcceptanceBounds, AcceptInv PROVE Acc!PendingIsExported
<1>1. SUFFICES ASSUME accPackage.status = "PENDING"
               PROVE  Acc!Exported /\ accPackage.qa = Acc!Recorded("QA") /\ accPackage.review.tree = Acc!Last(run.trees)
  BY DEF Acc!PendingIsExported
<1>2. /\ accPackage.rows = item.criteria /\ accPackage.rows # <<>> /\ accPackage.review \in Held /\ accPackage.qa \in Held /\ accPackage.review.kind = "REVIEW"
      /\ accPackage.qa = Acc!Recorded("QA") /\ accPackage.qa.kind = "QA" /\ accPackage.review.tree = accPackage.qa.tree /\ accPackage.qa.tree = Acc!Last(run.trees)
  BY <1>1 DEF AcceptInv, PackageFits
<1>3. accPackage # Acc!NoPackage
  BY <1>1, PackageFacts
<1>4. {accPackage.review, accPackage.qa} \subseteq Acc!ToSet(evidence)
  BY <1>2, AcceptFacts
<1> QED BY <1>2, <1>3, <1>4 DEF Acc!Exported, Acc!RowsAreCurrent, Acc!EvidenceResolves

\* What the invariant says was shown is what an honest claim is held against.
LEMMA ShownWillDo == ASSUME AcceptanceBounds, AcceptInv PROVE Acc!ShownIsBound
<1>1. SUFFICES ASSUME pack # Acc!NoPack, item.criteria # <<>>, Acc!Unique(item.criteria),
                      \A i, j \in DOMAIN evidence :
                         (evidence[i].kind = "REVIEW" /\ evidence[j].kind = "REVIEW" /\ evidence[i].qa = evidence[j].qa
                            /\ evidence[i].tree = evidence[j].tree) => i = j
               PROVE  Acc!Bound(Acc!Honest)
  BY DEF Acc!ShownIsBound
<1>2. Acc!At("ACCEPTANCE") /\ pack.review = Acc!ShownReview(Acc!ShownQA) /\ pack.qa = Acc!ShownQA
  BY <1>1 DEF AcceptInv, PackIsShown
<1>3. PICK i \in 1 .. Len(evidence) : /\ Acc!ShownReview(Acc!ShownQA) = evidence[i] /\ evidence[i].kind = "REVIEW"
                                      /\ evidence[i].qa = run.qa /\ evidence[i].tree = Acc!Last(run.trees)
  BY <1>2, ShownPack
<1>4. PICK j \in 1 .. Len(evidence) : /\ Acc!ReviewOf(Acc!ShownQA) = evidence[j] /\ evidence[j].kind = "REVIEW"
                                      /\ evidence[j].qa = run.qa /\ evidence[j].tree = Acc!Last(run.trees)
  BY <1>2, ShownPack
<1>5. i = j
  BY <1>1, <1>3, <1>4, AcceptFacts
<1>6. Acc!NoneYet \notin {Acc!ReviewOf(Acc!ShownQA), Acc!ShownQA}
  BY <1>2, ShownPack
<1> QED BY <1>1, <1>2, <1>3, <1>4, <1>5, <1>6 DEF Acc!Bound, Acc!Honest

\* A package that the owner is asked about can be exported, and an honest claim is bound.
THEOREM AcceptanceHolds == ASSUME AcceptanceBounds PROVE Acc!Spec => []Acc!PendingIsExported /\ []Acc!ShownIsBound
<1>1. AcceptInv => Acc!PendingIsExported /\ Acc!ShownIsBound
  BY PendingIsWhole, ShownWillDo
<1> QED BY <1>1, AcceptInvariant, PTL

\* No step answers a package but by an answer to it, and none takes an answer back.
LEMMA AnsweredOnce == ASSUME AcceptanceBounds, AcceptInv, Acc!Next PROVE Acc!AnswerIsForItsPackage
<1>1. CASE UNCHANGED accPackage
  BY <1>1 DEF Acc!AnswerIsForItsPackage
<1>2. CASE Acc!Start
  <2>1. accPackage.status # "PENDING" /\ run' = [no |-> run.no + 1, status |-> "RUNNING", stage |-> "IMPLEMENT", qa |-> 0, ver |-> 0, trees |-> <<>>]
    BY <1>2 DEF Acc!Start, Acc!Active, AcceptInv, PackageFits
  <2>2. run'.no # run.no
    BY <2>1, AcceptFacts
  <2> QED BY <2>1, <2>2 DEF Acc!AnswerIsForItsPackage
<1>3. CASE \E c \in Acc!Claim : Acc!Prepare(c)
  <2>1. run.status = "RUNNING"
    BY <1>3 DEF Acc!Prepare, Acc!At
  <2> QED BY <2>1, NoneBound DEF Acc!AnswerIsForItsPackage
<1>4. CASE \E a \in asks : Acc!Resolve(a)
  <2>1. PICK a \in asks : Acc!Resolve(a)
    BY <1>4
  <2> QED BY <2>1, ResolveFacts DEF Acc!AnswerIsForItsPackage
<1>5. QED
  BY <1>1, <1>2, <1>3, <1>4 DEF Acc!Next, Acc!Reopen, Acc!PassReview, Acc!PassQA, Acc!Pass, Acc!ShowEvidence, Acc!Resume, Acc!Cancel, Acc!EditCriteria,
     Acc!Implement, Acc!Correct, Acc!Reject, Acc!Ask, Acc!RefuseAnswer

\* An answer is given to the package it was asked about, and a package keeps it.
THEOREM AnswersAreKept == ASSUME AcceptanceBounds PROVE Acc!Spec => [][Acc!AnswerIsForItsPackage]_(Acc!vars)
<1>1. AcceptInv /\ [Acc!Next]_(Acc!vars) => [Acc!AnswerIsForItsPackage]_(Acc!vars)
  BY AnsweredOnce
<1> QED BY <1>1, AcceptInvariant, PTL DEF Acc!Spec

----
(* Readiness *)

CONSTANTS Key
VARIABLES active, runs, scans, views, readyAsks
Ready == INSTANCE Readiness WITH asks <- readyAsks

\* The checks of the owner's are finitely many.
ReadyBounds == MaxRuns \in Nat /\ IsFiniteSet(Key)

\* What was seen of a run at a version is what the run has, while it still has that version.
SeenFits(i, version, seen) ==
    /\ version <= runs[i].version
    /\ version = runs[i].version => seen = runs[i].answered

RunFits(i) ==
    /\ runs[i].version = Cardinality(runs[i].answered) + 1
    /\ (runs[i].status = "READY") <=> (runs[i].automated /\ runs[i].answered = Key)

ViewFits(t) ==
    /\ views[t].run <= Len(runs)
    /\ views[t].run > 0 => SeenFits(views[t].run, views[t].version, views[t].answered)
AskFits(a) == a.run <= Len(runs) /\ SeenFits(a.run, a.version, a.seen)

ReadyInv ==
    /\ Ready!TypeOK
    /\ \A i \in 1 .. Len(runs) : RunFits(i)
    /\ \A t \in Tab : ViewFits(t)
    /\ \A a \in readyAsks : AskFits(a)

----
\* The types of what a step finds.
LEMMA ReadyTypes ==
    ASSUME ReadyBounds, ReadyInv
    PROVE  /\ runs \in Seq(Ready!Run) /\ Len(runs) \in Nat /\ Len(runs) <= MaxRuns /\ MaxRuns \in Nat
           /\ \A i \in 1 .. Len(runs) : runs[i] \in Ready!Run /\ runs[i].version \in Nat
           /\ \A t \in Tab : views[t] \in Ready!View /\ views[t].run \in Nat /\ views[t].version \in Nat
           /\ \A a \in readyAsks : a \in Ready!Ask /\ a.run \in 1 .. Len(runs) /\ a.version \in Nat
           /\ Cardinality(Key) \in Nat
<1>1. Cardinality(Key) \in Nat
  BY FS_CardinalityType DEF ReadyBounds
<1>2. Ready!Versions \subseteq Nat
  BY <1>1 DEF Ready!Versions, Ready!Cardinality, Cardinality, Ready!IsFiniteSet, IsFiniteSet
<1>3. runs \in Seq(Ready!Run) /\ Len(runs) <= MaxRuns /\ views \in [Tab -> Ready!View] /\ readyAsks \subseteq Ready!Ask
  BY DEF ReadyInv, Ready!TypeOK
<1>4. Len(runs) \in Nat /\ MaxRuns \in Nat
  BY <1>3, LenProperties DEF ReadyBounds
<1>5. \A i \in 1 .. Len(runs) : runs[i] \in Ready!Run /\ runs[i].version \in Nat
  <2>1. \A i \in 1 .. Len(runs) : runs[i] \in Ready!Run
    BY <1>3, ElementOfSeq
  <2> QED BY <1>2, <2>1 DEF Ready!Run
<1>6. \A t \in Tab : views[t] \in Ready!View /\ views[t].run \in Nat /\ views[t].version \in Nat
  <2>1. TAKE t \in Tab
  <2>2. views[t] \in Ready!View
    BY <1>3
  <2>3. views[t].run \in 0 .. MaxRuns /\ views[t].version \in Ready!Versions
    BY <2>2 DEF Ready!View
  <2>4. views[t].run \in Nat
    BY <1>4, <2>3
  <2>5. views[t].version \in Nat
    BY <1>2, <2>3
  <2> QED BY <2>2, <2>4, <2>5
<1>7. \A a \in readyAsks : a \in Ready!Ask /\ a.run \in 1 .. Len(runs) /\ a.version \in Nat
  <2>1. TAKE a \in readyAsks
  <2>2. a \in Ready!Ask /\ a.run <= Len(runs)
    BY <1>3 DEF ReadyInv, AskFits
  <2>3. a.run \in 1 .. MaxRuns /\ a.version \in Ready!Versions
    BY <2>2 DEF Ready!Ask
  <2>4. a.run \in 1 .. Len(runs)
    BY <1>4, <2>2, <2>3
  <2>5. a.version \in Nat
    BY <1>2, <2>3
  <2> QED BY <2>2, <2>4, <2>5
<1> QED BY <1>1, <1>3, <1>4, <1>5, <1>6, <1>7

\* A step that leaves the runs alone keeps what was seen of them.
LEMMA AroundStay ==
    ASSUME ReadyBounds, ReadyInv, UNCHANGED <<runs, views, readyAsks>>, active' \in BOOLEAN, scans' \in [Tab -> Ready!Scan \cup {Ready!NoScan}]
    PROVE  ReadyInv'
  BY DEF ReadyInv, Ready!TypeOK, RunFits, ViewFits, AskFits, SeenFits

\* The invariant outlives Activate, Assess, Read and Refused.
LEMMA ScanKeeps ==
    ASSUME ReadyBounds, ReadyInv,
           Ready!Activate \/ \E t \in Tab : Ready!Assess(t) \/ Ready!Read(t) \/ Ready!Refused(t)
    PROVE  ReadyInv'
<1>1. active \in BOOLEAN /\ scans \in [Tab -> Ready!Scan \cup {Ready!NoScan}]
  BY DEF ReadyInv, Ready!TypeOK
<1>2. CASE Ready!Activate
  BY <1>1, <1>2, AroundStay DEF Ready!Activate
<1>3. CASE \E t \in Tab : Ready!Assess(t)
  <2>1. PICK t \in Tab : Ready!Assess(t)
    BY <1>3
  <2>2. [active |-> active, found |-> "NOTHING_YET"] \in Ready!Scan
    BY <1>1 DEF Ready!Scan
  <2>3. scans' \in [Tab -> Ready!Scan \cup {Ready!NoScan}]
    BY <1>1, <2>1, <2>2 DEF Ready!Assess
  <2> QED BY <1>1, <2>1, <2>3, AroundStay DEF Ready!Assess
<1>4. CASE \E t \in Tab : Ready!Read(t)
  <2>1. PICK t \in Tab : Ready!Read(t)
    BY <1>4
  <2>2. PICK found \in {"CLEAN", "FINDINGS"} : scans' = [scans EXCEPT ![t].found = found]
    BY <2>1 DEF Ready!Read
  <2>3. scans[t] \in Ready!Scan
    BY <1>1, <2>1 DEF Ready!Read, Ready!NoScan
  <2>4. [scans[t] EXCEPT !.found = found] \in Ready!Scan
    BY <2>3 DEF Ready!Scan
  <2>5. scans' \in [Tab -> Ready!Scan \cup {Ready!NoScan}]
    BY <1>1, <2>2, <2>4
  <2> QED BY <1>1, <2>1, <2>5, AroundStay DEF Ready!Read
<1>5. CASE \E t \in Tab : Ready!Refused(t)
  <2>1. scans' \in [Tab -> Ready!Scan \cup {Ready!NoScan}]
    BY <1>1, <1>5 DEF Ready!Refused
  <2> QED BY <1>1, <1>5, <2>1, AroundStay DEF Ready!Refused
<1> QED BY <1>2, <1>3, <1>4, <1>5

\* The invariant outlives Record.
LEMMA ReadyRecordKeeps == ASSUME ReadyBounds, ReadyInv, NEW t \in Tab, Ready!Record(t) PROVE ReadyInv'
<1> DEFINE automated == scans[t].active /\ scans[t].found = "CLEAN"
           new == [automated |-> automated, answered |-> {}, status |-> Ready!StatusOf(automated, {}), version |-> 1]
<1>1. scans[t] \in Ready!Scan \cup {Ready!NoScan}
  BY DEF ReadyInv, Ready!TypeOK
<1>2. automated \in BOOLEAN
  BY <1>1 DEF Ready!Scan, Ready!NoScan
<1>3. runs' = Append(runs, new) /\ Len(runs) < MaxRuns /\ UNCHANGED <<active, views, readyAsks>>
  BY DEF Ready!Record
<1> HIDE DEF automated
<1>4. new \in Ready!Run
  <2>1. 1 \in Ready!Versions
    BY ReadyTypes DEF Ready!Versions, Ready!Cardinality, Cardinality, Ready!IsFiniteSet, IsFiniteSet
  <2> QED BY <1>2, <2>1 DEF Ready!Run, Ready!StatusOf
<1>5. /\ new.version = Cardinality(new.answered) + 1
      /\ (new.status = "READY") <=> (new.automated /\ new.answered = Key)
  BY <1>2, FS_EmptySet DEF Ready!StatusOf
<1> HIDE DEF new
<1>6. /\ runs' \in Seq(Ready!Run) /\ Len(runs') = Len(runs) + 1 /\ Len(runs') <= MaxRuns
      /\ \A i \in 1 .. Len(runs) : runs'[i] = runs[i]
      /\ runs'[Len(runs) + 1] = new
  BY <1>3, <1>4, ReadyTypes, AppendProperties
<1>7. scans' \in [Tab -> Ready!Scan \cup {Ready!NoScan}]
  BY DEF ReadyInv, Ready!TypeOK, Ready!Record
<1>8. Ready!TypeOK'
  BY <1>3, <1>6, <1>7 DEF ReadyInv, Ready!TypeOK
<1>9. \A i \in 1 .. Len(runs)' : RunFits(i)'
  BY <1>5, <1>6, ReadyTypes DEF ReadyInv, RunFits
<1>10. \A q \in Tab : ViewFits(q)'
  <2>1. TAKE q \in Tab
  <2>2. views'[q] = views[q] /\ views[q].run \in Nat /\ views[q].run <= Len(runs)
    BY <1>3, ReadyTypes DEF ReadyInv, ViewFits, AskFits, SeenFits
  <2>3. views[q].run > 0 => runs'[views[q].run] = runs[views[q].run]
    BY <1>6, <2>2, ReadyTypes
  <2>4. views[q].run > 0 => SeenFits(views[q].run, views[q].version, views[q].answered)
    BY DEF ReadyInv, ViewFits, AskFits, SeenFits
  <2> QED BY <1>6, <2>2, <2>3, <2>4, ReadyTypes DEF ViewFits, AskFits, SeenFits
<1>11. \A a \in readyAsks' : AskFits(a)'
  <2>1. TAKE a \in readyAsks'
  <2>2. a \in readyAsks /\ a.run \in 1 .. Len(runs)
    BY <1>3, ReadyTypes
  <2>3. runs'[a.run] = runs[a.run] /\ a.run <= Len(runs)'
    BY <1>6, <2>2, ReadyTypes
  <2> QED BY <2>2, <2>3 DEF ReadyInv, ViewFits, AskFits, SeenFits
<1> QED BY <1>8, <1>9, <1>10, <1>11 DEF ReadyInv, ViewFits, AskFits, SeenFits

\* The invariant outlives Load.
LEMMA ReadyLoadKeeps == ASSUME ReadyBounds, ReadyInv, NEW t \in Tab, Ready!Load(t) PROVE ReadyInv'
<1> DEFINE last == runs[Len(runs)]
           new == [run |-> Len(runs), version |-> last.version, answered |-> last.answered]
<1>1. Len(runs) \in 1 .. MaxRuns /\ Ready!Last(runs) = last /\ UNCHANGED <<active, runs, scans, readyAsks>>
  BY ReadyTypes, EmptySeq DEF Ready!Load, Ready!Last
<1>2. views' = [views EXCEPT ![t] = new]
  BY <1>1 DEF Ready!Load
<1>3. last \in Ready!Run /\ last.version \in Nat
  BY <1>1, ReadyTypes
<1>4. new \in Ready!View
  BY <1>1, <1>3 DEF Ready!View, Ready!Run
<1>5. views' \in [Tab -> Ready!View]
  BY <1>2, <1>4 DEF ReadyInv, Ready!TypeOK
<1>6. \A q \in Tab : views'[q] = IF q = t THEN new ELSE views[q]
  BY <1>2 DEF ReadyInv, Ready!TypeOK
<1>7. new.run = Len(runs) /\ SeenFits(new.run, new.version, new.answered)
  BY <1>1, <1>3 DEF ViewFits, AskFits, SeenFits
<1> HIDE DEF new
<1>8. Ready!TypeOK'
  BY <1>1, <1>5 DEF ReadyInv, Ready!TypeOK
<1>9. \A q \in Tab : ViewFits(q)'
  BY <1>1, <1>6, <1>7, ReadyTypes DEF ReadyInv, ViewFits, AskFits, SeenFits
<1> QED BY <1>1, <1>8, <1>9 DEF ReadyInv, RunFits, ViewFits, AskFits, SeenFits

\* The invariant outlives Answer.
LEMMA AnswerKeeps == ASSUME ReadyBounds, ReadyInv, NEW t \in Tab, NEW k \in Key, Ready!Answer(t, k) PROVE ReadyInv'
<1> DEFINE new == [tab |-> t, run |-> views[t].run, version |-> views[t].version, seen |-> views[t].answered, key |-> k]
<1>1. views[t] \in Ready!View /\ views[t].run > 0 /\ readyAsks' = readyAsks \cup {new} /\ UNCHANGED <<active, runs, scans, views>>
  BY ReadyTypes DEF Ready!Answer
<1>2. views[t].run <= Len(runs) /\ SeenFits(views[t].run, views[t].version, views[t].answered)
  BY <1>1 DEF ReadyInv, ViewFits, AskFits, SeenFits
<1>3. new \in Ready!Ask
  BY <1>1, ReadyTypes DEF Ready!Ask, Ready!View
<1>4. new.run <= Len(runs) /\ SeenFits(new.run, new.version, new.seen)
  BY <1>2
<1> HIDE DEF new
<1>5. Ready!TypeOK'
  BY <1>1, <1>3 DEF ReadyInv, Ready!TypeOK
<1>6. \A a \in readyAsks' : AskFits(a)
  BY <1>1, <1>4 DEF ReadyInv, ViewFits, AskFits, SeenFits
<1> QED BY <1>1, <1>5, <1>6 DEF ReadyInv, RunFits, ViewFits, AskFits, SeenFits

\* What an answer that is accepted makes of its run, and what it was given to.
LEMMA AttestChanges ==
    ASSUME ReadyBounds, ReadyInv, NEW a \in readyAsks, Ready!MayAttest(a), Ready!Attest(a)
    PROVE  /\ a.run = Len(runs) /\ a.seen = runs[a.run].answered /\ a.key \in Key \ a.seen
           /\ Len(runs') = Len(runs) /\ runs' \in Seq(Ready!Run)
           /\ \A i \in 1 .. Len(runs) : i # a.run => runs'[i] = runs[i]
           /\ runs'[a.run].answered = a.seen \cup {a.key} /\ runs'[a.run].version = runs[a.run].version + 1
           /\ RunFits(a.run)'
<1> DEFINE answered == runs[a.run].answered \cup {a.key}
           new == [runs[a.run] EXCEPT !.answered = answered, !.version = @ + 1,
                                      !.status = Ready!StatusOf(runs[a.run].automated, answered)]
<1>1. /\ a.run = Len(runs) /\ runs[a.run].version = a.version /\ a.key \notin runs[a.run].answered
      /\ a.run \in 1 .. Len(runs) /\ a.key \in Key /\ runs[a.run] \in Ready!Run /\ runs[a.run].version \in Nat
  BY ReadyTypes DEF Ready!MayAttest, Ready!Ask
<1>2. a.seen = runs[a.run].answered
  BY <1>1 DEF ReadyInv, ViewFits, AskFits, SeenFits
<1>3. runs' = [runs EXCEPT ![a.run].answered = answered, ![a.run].version = @ + 1,
                           ![a.run].status = Ready!StatusOf(runs[a.run].automated, answered)]
  BY DEF Ready!Attest
<1>4. runs' = [runs EXCEPT ![a.run] = new]
  BY <1>1, <1>3, ReadyTypes, LenProperties
<1>5. runs[a.run].answered \subseteq Key /\ answered \subseteq Key /\ runs[a.run].automated \in BOOLEAN
  BY <1>1 DEF Ready!Run
<1>6. Cardinality(answered) = Cardinality(runs[a.run].answered) + 1 /\ Cardinality(answered) <= Cardinality(Key) /\ Cardinality(answered) \in Nat
  BY <1>1, <1>5, FS_AddElement, FS_Subset, FS_CardinalityType DEF ReadyBounds
<1>7. runs[a.run].version = Cardinality(runs[a.run].answered) + 1
  BY <1>1 DEF ReadyInv, RunFits
<1>8. /\ new.answered = answered /\ new.version = runs[a.run].version + 1 /\ new.automated = runs[a.run].automated
      /\ new.status = Ready!StatusOf(runs[a.run].automated, answered)
  BY <1>1 DEF Ready!Run
<1>9. new \in Ready!Run
  <2>1. Ready!StatusOf(runs[a.run].automated, answered) \in {"ACTION_REQUIRED", "READY"}
    BY DEF Ready!StatusOf
  <2>2. runs[a.run].version + 1 \in Ready!Versions
    BY <1>1, <1>6, <1>7, ReadyTypes DEF Ready!Versions, Ready!Cardinality, Cardinality, Ready!IsFiniteSet, IsFiniteSet
  <2> QED BY <1>1, <1>5, <2>1, <2>2 DEF Ready!Run
<1> HIDE DEF new
<1>10. /\ runs' \in Seq(Ready!Run) /\ Len(runs') = Len(runs)
       /\ \A i \in 1 .. Len(runs) : runs'[i] = IF i = a.run THEN new ELSE runs[i]
  BY <1>1, <1>4, <1>9, ReadyTypes, ExceptSeq
<1>11. runs'[a.run] = new
  BY <1>1, <1>10
<1>12. RunFits(a.run)'
  BY <1>5, <1>6, <1>7, <1>8, <1>11 DEF RunFits, Ready!StatusOf
<1> QED BY <1>1, <1>2, <1>8, <1>10, <1>11, <1>12

\* The invariant outlives Attest.
LEMMA AttestKeeps == ASSUME ReadyBounds, ReadyInv, NEW a \in readyAsks, Ready!Attest(a) PROVE ReadyInv'
<1>1. readyAsks' \subseteq readyAsks /\ UNCHANGED <<active, scans, views>>
  BY DEF Ready!Attest
<1>2. CASE ~Ready!MayAttest(a)
  <2>1. runs' = runs
    BY <1>2 DEF Ready!Attest
  <2> QED BY <1>1, <2>1 DEF ReadyInv, Ready!TypeOK, RunFits, ViewFits, AskFits, SeenFits
<1>3. CASE Ready!MayAttest(a)
  <2>1. /\ Len(runs') = Len(runs) /\ runs' \in Seq(Ready!Run)
        /\ \A i \in 1 .. Len(runs) : i # a.run => runs'[i] = runs[i]
        /\ runs'[a.run].version = runs[a.run].version + 1
        /\ RunFits(a.run)'
    BY <1>3, AttestChanges
  <2>2. Ready!TypeOK'
    BY <1>1, <2>1 DEF ReadyInv, Ready!TypeOK
  <2>3. \A i \in 1 .. Len(runs) : RunFits(i)'
    BY <2>1 DEF ReadyInv, RunFits
  <2>4. ASSUME NEW i \in 1 .. Len(runs), NEW v \in Nat, NEW s, SeenFits(i, v, s)
        PROVE  v <= runs'[i].version /\ (v = runs'[i].version => s = runs'[i].answered)
    <3>1. CASE i = a.run
      <4>1. v <= runs[i].version /\ runs[i].version \in Nat /\ runs'[i].version = runs[i].version + 1
        BY <2>1, <2>4, <3>1, ReadyTypes DEF ViewFits, AskFits, SeenFits
      <4> QED BY <4>1 DEF ViewFits, AskFits, SeenFits
    <3>2. CASE i # a.run
      BY <2>1, <2>4, <3>2 DEF ViewFits, AskFits, SeenFits
    <3> QED BY <3>1, <3>2
  <2>5. \A t \in Tab : ViewFits(t)'
    <3>1. TAKE t \in Tab
    <3>2. views'[t] = views[t] /\ views[t].run \in Nat /\ views[t].version \in Nat /\ ViewFits(t)
      BY <1>1, ReadyTypes DEF ReadyInv
    <3>3. CASE views[t].run > 0
      <4>1. views[t].run \in 1 .. Len(runs) /\ SeenFits(views[t].run, views[t].version, views[t].answered)
        BY <3>2, <3>3, ReadyTypes DEF ViewFits
      <4>2. /\ views[t].version <= runs'[views[t].run].version
            /\ views[t].version = runs'[views[t].run].version => views[t].answered = runs'[views[t].run].answered
        BY <2>4, <3>2, <4>1
      <4> QED BY <2>1, <3>2, <4>1, <4>2 DEF ViewFits, SeenFits
    <3>4. CASE ~(views[t].run > 0)
      BY <2>1, <3>2, <3>4 DEF ViewFits
    <3> QED BY <3>3, <3>4
  <2>6. \A b \in readyAsks' : AskFits(b)'
    <3>1. TAKE b \in readyAsks'
    <3>2. AskFits(b) /\ b.run \in 1 .. Len(runs) /\ b.version \in Nat
      BY <1>1, ReadyTypes DEF ReadyInv
    <3>3. SeenFits(b.run, b.version, b.seen)
      BY <3>2 DEF AskFits
    <3>4. b.version <= runs'[b.run].version /\ (b.version = runs'[b.run].version => b.seen = runs'[b.run].answered)
      BY <2>4, <3>2, <3>3
    <3> QED BY <2>1, <3>2, <3>4 DEF AskFits, SeenFits
  <2> QED BY <2>1, <2>2, <2>3, <2>5, <2>6 DEF ReadyInv, ViewFits, AskFits, SeenFits
<1> QED BY <1>2, <1>3

\* No step breaks the invariant.
LEMMA ReadyStep == ASSUME ReadyBounds, ReadyInv, [Ready!Next]_(Ready!vars) PROVE ReadyInv'
<1>1. CASE UNCHANGED Ready!vars
  BY <1>1 DEF Ready!vars, ReadyInv, Ready!TypeOK, RunFits, ViewFits, AskFits, SeenFits
<1>2. CASE Ready!Next
  BY <1>2, ScanKeeps, ReadyRecordKeeps, ReadyLoadKeeps, AnswerKeeps, AttestKeeps DEF Ready!Next
<1> QED BY <1>1, <1>2

\* The invariant holds before the first run.
LEMMA ReadyBegins == ASSUME ReadyBounds, Ready!Init PROVE ReadyInv
<1>1. runs = <<>> /\ Len(runs) = 0 /\ runs \in Seq(Ready!Run) /\ readyAsks = {}
  BY EmptySeq DEF Ready!Init
<1>2. 0 \in Ready!Versions /\ 0 \in 0 .. MaxRuns
  <2>1. Cardinality(Key) \in Nat
    BY FS_CardinalityType DEF ReadyBounds
  <2>2. Ready!Versions = 0 .. Cardinality(Key) + 1
    BY DEF Ready!Versions, Ready!Cardinality, Cardinality, Ready!IsFiniteSet, IsFiniteSet
  <2> QED BY <2>1, <2>2 DEF ReadyBounds
<1>3. /\ active \in BOOLEAN /\ scans \in [Tab -> Ready!Scan \cup {Ready!NoScan}]
      /\ views = [t \in Tab |-> [run |-> 0, version |-> 0, answered |-> {}]]
  BY DEF Ready!Init
<1>4. [run |-> 0, version |-> 0, answered |-> {}] \in Ready!View
  BY <1>2 DEF Ready!View
<1>5. views \in [Tab -> Ready!View] /\ \A t \in Tab : views[t].run = 0
  BY <1>3, <1>4
<1>6. Ready!TypeOK
  BY <1>1, <1>3, <1>5 DEF Ready!TypeOK, ReadyBounds
<1> QED BY <1>1, <1>5, <1>6 DEF ReadyInv, ViewFits

\* No step answers for a run other than as it was shown.
LEMMA AnswerSeen == ASSUME ReadyBounds, ReadyInv, [Ready!Next]_(Ready!vars) PROVE Ready!AnswerIsOfWhatWasSeen
<1>1. SUFFICES ASSUME NEW i \in 1 .. Len(runs), runs'[i] # runs[i]
               PROVE  i = Len(runs) /\ \E a \in readyAsks : a.run = i /\ a.seen = runs[i].answered
                                                      /\ runs'[i].answered = a.seen \cup {a.key}
  BY DEF Ready!AnswerIsOfWhatWasSeen
<1>2. CASE \E t \in Tab : Ready!Record(t)
  <2>1. PICK t \in Tab : Ready!Record(t)
    BY <1>2
  <2>2. PICK new : runs' = Append(runs, new)
    BY <2>1 DEF Ready!Record
  <2>3. runs'[i] = runs[i]
    BY <2>2, ReadyTypes
  <2> QED BY <1>1, <2>3
<1>3. CASE \E a \in readyAsks : Ready!Attest(a)
  <2>1. PICK a \in readyAsks : Ready!Attest(a)
    BY <1>3
  <2>2. Ready!MayAttest(a)
    BY <1>1, <2>1 DEF Ready!Attest
  <2> QED BY <1>1, <2>1, <2>2, AttestChanges
<1>4. CASE UNCHANGED runs
  BY <1>1, <1>4
<1>5. QED
  BY <1>2, <1>3, <1>4 DEF Ready!Next, Ready!vars, Ready!Activate, Ready!Assess, Ready!Read, Ready!Refused, Ready!Load, Ready!Answer

\* The invariant of Readiness, for any tabs and any finite set of checks.
THEOREM ReadyInvariant == ASSUME ReadyBounds PROVE Ready!Spec => []ReadyInv
<1>1. Ready!Init => ReadyInv
  BY ReadyBegins
<1>2. ReadyInv /\ [Ready!Next]_(Ready!vars) => ReadyInv'
  BY ReadyStep
<1> QED BY <1>1, <1>2, PTL DEF Ready!Spec

\* A project is ready by answers of that very readiness run.
THEOREM ReadyAnswered == ASSUME ReadyBounds PROVE Ready!Spec => []Ready!ReadyIsAnswered
<1>1. ReadyInv => Ready!ReadyIsAnswered
  BY DEF ReadyInv, RunFits, Ready!ReadyIsAnswered
<1> QED BY <1>1, ReadyInvariant, PTL

\* An answer is for the run as it was shown.
THEOREM AnswersAreSeen == ASSUME ReadyBounds PROVE Ready!Spec => [][Ready!AnswerIsOfWhatWasSeen]_(Ready!vars)
<1>1. ReadyInv /\ [Ready!Next]_(Ready!vars) => [Ready!AnswerIsOfWhatWasSeen]_(Ready!vars)
  BY AnswerSeen
<1> QED BY <1>1, ReadyInvariant, PTL DEF Ready!Spec

----
(* Publication *)

CONSTANTS Drainer, filesMaxVersion
VARIABLES kind, revision, preview, drain, disk, held, filesPhase
Files == INSTANCE Publication WITH MaxVersion <- filesMaxVersion, phase <- filesPhase

\* The bounds of the behaviours.
PublicationBounds == MaxRevision \in Nat /\ filesMaxVersion \in Nat

Working(d) == drain[d].at \notin {"IDLE", "QUEUED"}

\* The texts on disk are history's, a drain has rows there are, and completes what was on disk.
WrittenIsHeld ==
    /\ disk \in 1 .. MaxRevision => disk \in held
    /\ \A d \in Drainer : \A aRow \in drain[d].todo : aRow.of \in 1 .. Len(revision)
    /\ \A d \in Drainer : drain[d].at = "COMPLETE" => Files!Target(d) \in held
    /\ \A r \in 1 .. Len(revision) : revision[r].status = "PENDING" => revision[r].version <= filesMaxVersion + 1

\* What a constitution's row may say: only the newest is pending.
FilesRowFits(r) ==
    /\ (revision[r].status = "PENDING") <=> (revision[r].standing = "PUBLISHING")
    /\ revision[r].status = "PENDING" => r = Len(revision)
    /\ revision[r].status = "FAILED" => revision[r].standing = "FAILED"
    /\ revision[r].status = "APPLIED" =>
          /\ revision[r].standing \in {"ACTIVE", "SUPERSEDED"}
          /\ revision[r].standing = "ACTIVE" <=> \A s \in r + 1 .. Len(revision) : revision[s].status # "APPLIED"
          /\ revision[r].standing = "ACTIVE" => disk \in {0, Files!Own} \/ r <= disk

\* The one drain of constitutions that works has the newest row, which stays pending until it is settled.
DrainFits(d) ==
    Working(d) =>
        /\ Len(revision) > 0 /\ revision[Len(revision)].status = "PENDING"
        /\ drain[d].todo = {[of |-> Len(revision), version |-> revision[Len(revision)].version]}
        /\ drain[d].at = "COMPLETE" => disk \in {0, Files!Own, Len(revision)}

Serial ==
    kind = "CONSTITUTION" =>
        /\ \A r \in 1 .. Len(revision) : FilesRowFits(r)
        /\ \A d \in Drainer : DrainFits(d)
        /\ \A d, e \in Drainer : Working(d) /\ Working(e) => d = e

PublicationInv ==
    /\ Files!TypeOK
    /\ WrittenIsHeld
    /\ Files!AppliedWasWritten
    /\ Serial

----
\* The rows are a sequence, no longer than its bound.
LEMMA PublicationTypes ==
    ASSUME PublicationBounds, Files!TypeOK
    PROVE  /\ revision \in Seq(Files!Revision) /\ Len(revision) \in Nat /\ Len(revision) <= MaxRevision
           /\ DOMAIN revision = 1 .. Len(revision)
           /\ revision \in [1 .. Len(revision) -> Files!Revision]
           /\ \A r \in 1 .. Len(revision) : revision[r] \in Files!Revision /\ revision[r].version \in Nat
           /\ Len(revision) \in 0 .. MaxRevision
           /\ MaxRevision \in Nat /\ filesMaxVersion \in Nat
<1>1. revision \in Seq(Files!Revision) /\ Len(revision) <= MaxRevision
  BY DEF Files!TypeOK, Files!Newest
<1>2. Len(revision) \in Nat /\ DOMAIN revision = 1 .. Len(revision)
  BY <1>1, LenProperties
<1>3. revision \in [1 .. Len(revision) -> Files!Revision]
  BY <1>1, LenProperties
<1>4. MaxRevision \in Nat /\ filesMaxVersion \in Nat
  BY DEF PublicationBounds
<1>5. \A r \in 1 .. Len(revision) : revision[r] \in Files!Revision /\ revision[r].version \in Nat
  BY <1>3, <1>4 DEF Files!Revision
<1> QED BY <1>1, <1>2, <1>3, <1>4, <1>5

\* A row that a drain has listed, the oldest of them, is one of them.
LEMMA FirstIsListed ==
    ASSUME NEW todo, todo # {}, \A aRow \in todo : aRow.of \in Nat
    PROVE  Files!First(todo) \in todo
<1>1. PICK any \in todo : TRUE
  OBVIOUS
<1> DEFINE Of == {aRow.of : aRow \in todo}
<1>2. Of \subseteq Nat /\ any.of \in Of
  OBVIOUS
<1>3. \E n \in Of : \A m \in Of : n <= m
  <2>1. PICK n \in Of : \A m \in Of : ~(<<m, n>> \in OpToRel(<, Nat))
    BY <1>2, NatLessThanWellFounded, WFMin
  <2> HIDE DEF Of
  <2>2. n \in Nat
    BY <1>2
  <2>3. ASSUME NEW m \in Of PROVE n <= m
    <3>1. m \in Nat /\ ~(m < n)
      BY <1>2, <2>1, <2>2, <2>3 DEF OpToRel
    <3> QED BY <2>2, <3>1
  <2> QED BY <2>3
<1>4. \E aRow \in todo : \A other \in todo : aRow.of <= other.of
  BY <1>3
<1> QED BY <1>4 DEF Files!First

\* A drain that works has rows to take, and takes one that there is.
LEMMA TargetIsARow ==
    ASSUME PublicationBounds, PublicationInv, NEW d \in Drainer, Working(d)
    PROVE  /\ Files!First(drain[d].todo) \in drain[d].todo
           /\ Files!Target(d) \in 1 .. Len(revision)
<1>1. drain[d].todo # {}
  BY DEF PublicationInv, Files!TypeOK, Working
<1>2. \A aRow \in drain[d].todo : aRow.of \in 1 .. Len(revision)
  BY DEF PublicationInv, WrittenIsHeld
<1>3. Len(revision) \in Nat
  BY PublicationTypes DEF PublicationInv
<1>4. \A aRow \in drain[d].todo : aRow.of \in Nat
  BY <1>2, <1>3
<1>5. Files!First(drain[d].todo) \in drain[d].todo
  BY <1>1, <1>4, FirstIsListed
<1> QED BY <1>2, <1>5 DEF Files!Target

\* A drain of constitutions that works takes the newest, which is pending.
LEMMA TargetIsNewest ==
    ASSUME PublicationBounds, PublicationInv, NEW d \in Drainer, Working(d), kind = "CONSTITUTION"
    PROVE  /\ Files!Target(d) = Len(revision) /\ Len(revision) \in 1 .. Len(revision)
           /\ revision[Len(revision)].status = "PENDING" /\ Files!Current(d)
           /\ drain[d].todo = {Files!First(drain[d].todo)}
<1>1. Files!First(drain[d].todo) \in drain[d].todo /\ Files!Target(d) \in 1 .. Len(revision)
  BY TargetIsARow
<1>2. DrainFits(d)
  BY DEF PublicationInv, Serial
<1>3. drain[d].todo = {[of |-> Len(revision), version |-> revision[Len(revision)].version]}
  BY <1>2 DEF DrainFits
<1>4. Files!First(drain[d].todo) = [of |-> Len(revision), version |-> revision[Len(revision)].version]
  BY <1>1, <1>3
<1>5. Files!Target(d) = Len(revision)
  BY <1>4 DEF Files!Target
<1>6. revision[Len(revision)].status = "PENDING"
  BY <1>2 DEF DrainFits
<1>7. Files!Current(d)
  BY <1>4, <1>5, <1>6 DEF Files!Current
<1>8. drain[d].todo = {Files!First(drain[d].todo)}
  BY <1>3, <1>4
<1> QED BY <1>1, <1>5, <1>6, <1>7, <1>8

----
\* The invariant holds of a Project without a constitution.
LEMMA PublicationInit == ASSUME PublicationBounds, Files!Init PROVE PublicationInv
<1>1. revision = << >> /\ Len(revision) = 0 /\ \A d \in Drainer : drain[d] = [at |-> "IDLE", todo |-> {}]
  BY DEF Files!Init, Files!Resting
<1>2. Files!TypeOK
  <2>1. revision \in Seq(Files!Revision) /\ Files!Newest <= MaxRevision
    BY <1>1 DEF Files!Newest, PublicationBounds
  <2>2. drain \in [Drainer -> Files!Drain]
    BY DEF Files!Init, Files!Resting, Files!Drain
  <2>3. \A d \in Drainer : drain[d].at \notin {"IDLE", "QUEUED"} => drain[d].todo # {}
    BY <1>1
  <2> QED BY <2>1, <2>2, <2>3 DEF Files!Init, Files!TypeOK, Files!Text, Files!Own, PublicationBounds
<1>3. WrittenIsHeld
  <2>1. disk \notin 1 .. MaxRevision
    BY DEF Files!Init, Files!Own, PublicationBounds
  <2> QED BY <1>1, <2>1 DEF WrittenIsHeld
<1>4. Files!AppliedWasWritten /\ Serial
  BY <1>1 DEF Files!AppliedWasWritten, Serial, DrainFits, Working
<1> QED BY <1>2, <1>3, <1>4 DEF PublicationInv

\* What is left when the rows and the drains stay: the file is history's, or others'.
LEMMA RowsStay ==
    ASSUME PublicationBounds, PublicationInv, UNCHANGED <<kind, revision, drain, held>>,
           disk' = disk \/ disk' \in {0, Files!Own}
    PROVE  WrittenIsHeld' /\ Files!AppliedWasWritten' /\ Serial'
<1>1. WrittenIsHeld'
  <2>1. disk' \in 1 .. MaxRevision => disk' \in held
    BY DEF PublicationInv, WrittenIsHeld, Files!Own, PublicationBounds
  <2> QED BY <2>1 DEF PublicationInv, WrittenIsHeld, Files!Target
<1>2. Files!AppliedWasWritten'
  BY DEF PublicationInv, Files!AppliedWasWritten
<1>3. Serial'
  <2>1. ASSUME NEW r \in 1 .. Len(revision), FilesRowFits(r) PROVE FilesRowFits(r)'
    BY <2>1 DEF FilesRowFits
  <2>2. ASSUME NEW d \in Drainer, DrainFits(d) PROVE DrainFits(d)'
    BY <2>2 DEF DrainFits, Working
  <2> QED BY <2>1, <2>2 DEF PublicationInv, Serial, Working
<1> QED BY <1>1, <1>2, <1>3

\* The owner looks, the daemon listens, or somebody edits the file.
LEMMA OthersStep ==
    ASSUME PublicationBounds, PublicationInv, Files!Look \/ Files!Listen \/ Files!Edit
    PROVE  PublicationInv'
<1>1. UNCHANGED <<kind, revision, drain, held>>
  BY DEF Files!Look, Files!Listen, Files!Edit
<1>2. disk' = disk \/ disk' \in {0, Files!Own}
  BY DEF Files!Look, Files!Listen, Files!Edit
<1>3. WrittenIsHeld' /\ Files!AppliedWasWritten' /\ Serial'
  BY <1>1, <1>2, RowsStay
<1>4. preview' \subseteq Files!Preview /\ filesPhase' \in {"UP", "BOOTING"} /\ disk' \in Files!Text
  <2>1. 0 \in Files!Text /\ Files!Own \in Files!Text
    BY DEF Files!Text, Files!Own, PublicationBounds
  <2>2. disk' \in Files!Text
    BY <1>2, <2>1 DEF PublicationInv, Files!TypeOK
  <2>3. Len(revision) \in 0 .. MaxRevision
    BY PublicationTypes DEF PublicationInv
  <2>4. CASE Files!Look
    BY <2>2, <2>3, <2>4 DEF PublicationInv, Files!TypeOK, Files!Look, Files!Preview, Files!Newest
  <2>5. CASE Files!Listen \/ Files!Edit
    BY <2>2, <2>5 DEF PublicationInv, Files!TypeOK, Files!Listen, Files!Edit
  <2> QED BY <2>2, <2>4, <2>5
<1>5. Files!TypeOK'
  BY <1>1, <1>4 DEF PublicationInv, Files!TypeOK, Files!Newest
<1> QED BY <1>3, <1>5 DEF PublicationInv

----
(* The owner's decisions *)

\* A route that decides has no drain at work on its behalf, and queues one: what the others do stays.
LEMMA Queued ==
    ASSUME PublicationInv, NEW d \in Drainer, Files!Calls(d)
    PROVE  /\ ~Working(d) /\ ~Working(d)' /\ drain' \in [Drainer -> Files!Drain]
           /\ drain'[d].todo = {}
           /\ \A e \in Drainer : drain'[e].todo = drain[e].todo
           /\ \A e \in Drainer : Working(e)' <=> Working(e)
           /\ \A e \in Drainer : Working(e) => drain'[e] = drain[e]
           /\ \A e \in Drainer : drain'[e].at = "COMPLETE" => drain[e].at = "COMPLETE" /\ Working(e)
           /\ \A e \in Drainer : Working(e)' => drain'[e].todo # {}
<1>1. drain \in [Drainer -> Files!Drain] /\ drain[d] = [at |-> "IDLE", todo |-> {}]
  BY DEF PublicationInv, Files!TypeOK, Files!Calls, Files!Resting
<1>2. drain' = [drain EXCEPT ![d] = [at |-> "QUEUED", todo |-> {}]]
  <2>1. drain' = [drain EXCEPT ![d] = [drain[d] EXCEPT !.at = "QUEUED"]]
    BY DEF Files!Calls
  <2>2. [drain[d] EXCEPT !.at = "QUEUED"] = [at |-> "QUEUED", todo |-> {}]
    BY <1>1
  <2> QED BY <2>1, <2>2, Zenon
<1>3. [at |-> "QUEUED", todo |-> {}] \in Files!Drain
  BY DEF Files!Drain
<1>4. \A e \in Drainer : Working(e) => drain[e].todo # {}
  BY DEF PublicationInv, Files!TypeOK, Working
<1>5. drain' \in [Drainer -> Files!Drain] /\ drain'[d] = [at |-> "QUEUED", todo |-> {}]
      /\ \A e \in Drainer \ {d} : drain'[e] = drain[e]
  BY <1>1, <1>2, <1>3
<1>6. ~Working(d) /\ ~Working(d)' /\ drain'[d].todo = {} /\ drain[d].todo = {} /\ drain'[d].at = "QUEUED"
  BY <1>1, <1>5 DEF Working
<1>7. ASSUME NEW e \in Drainer
      PROVE  /\ drain'[e].todo = drain[e].todo /\ (Working(e)' <=> Working(e))
             /\ (Working(e) => drain'[e] = drain[e])
             /\ (drain'[e].at = "COMPLETE" => drain[e].at = "COMPLETE" /\ Working(e))
             /\ (Working(e)' => drain'[e].todo # {})
  <2>1. CASE e = d
    BY <1>6, <2>1
  <2>2. CASE e # d
    BY <1>4, <1>5, <2>2 DEF Working
  <2> QED BY <2>1, <2>2
<1> QED BY <1>5, <1>6, <1>7

\* A decision adds its row, and its route a drain that waits.
LEMMA DecideStep ==
    ASSUME PublicationBounds, PublicationInv, NEW d \in Drainer, NEW seen \in preview,
           Files!AdoptConstitution(d, seen) \/ Files!AdoptPlan(d, seen) \/ Files!DisablePlan(d, seen)
    PROVE  PublicationInv'
<1>1. /\ Len(revision) < MaxRevision /\ UNCHANGED <<kind, disk, held, filesPhase>> /\ preview' = {} /\ Files!Calls(d)
      /\ kind = "CONSTITUTION" => \A r \in DOMAIN revision : revision[r].standing # "PUBLISHING"
  BY DEF Files!AdoptConstitution, Files!AdoptPlan, Files!DisablePlan, Files!Decide, Files!Newest, Files!NothingPending
<1>2. PICK standing \in {"PUBLISHING", "ACTIVE", "DISABLED"} :
         /\ revision' = Append(revision, [status |-> "PENDING", standing |-> standing,
                                          expected |-> seen.target, version |-> 1])
         /\ kind = "CONSTITUTION" => standing = "PUBLISHING"
  BY DEF Files!AdoptConstitution, Files!AdoptPlan, Files!DisablePlan, Files!Decide
<1> DEFINE aRow == [status |-> "PENDING", standing |-> standing, expected |-> seen.target, version |-> 1]
<1>3. /\ revision \in Seq(Files!Revision) /\ Len(revision) \in Nat /\ Len(revision) <= MaxRevision
      /\ DOMAIN revision = 1 .. Len(revision) /\ MaxRevision \in Nat /\ filesMaxVersion \in Nat
  BY PublicationTypes DEF PublicationInv
<1>4. aRow \in Files!Revision /\ aRow.status = "PENDING" /\ aRow.version = 1 /\ aRow.standing = standing
  <2>1. seen.target \in Files!Text
    BY DEF PublicationInv, Files!TypeOK, Files!Preview
  <2> QED BY <1>3, <2>1 DEF Files!Revision, Files!PublicationStatus, Files!Standing
<1>5. revision' = Append(revision, aRow)
  BY <1>2
<1> HIDE DEF aRow
<1>6. /\ revision' \in Seq(Files!Revision) /\ Len(revision') = Len(revision) + 1
      /\ \A r \in 1 .. Len(revision) : revision'[r] = revision[r]
      /\ revision'[Len(revision) + 1] = aRow
  BY <1>3, <1>4, <1>5, AppendProperties
<1>7. DOMAIN revision' = 1 .. Len(revision) + 1
  BY <1>6, LenProperties
<1>q. /\ ~Working(d) /\ ~Working(d)' /\ drain' \in [Drainer -> Files!Drain]
      /\ \A e \in Drainer : drain'[e].todo = drain[e].todo
      /\ \A e \in Drainer : Working(e)' <=> Working(e)
      /\ \A e \in Drainer : Working(e) => drain'[e] = drain[e]
      /\ \A e \in Drainer : drain'[e].at = "COMPLETE" => drain[e].at = "COMPLETE" /\ Working(e)
      /\ \A e \in Drainer : Working(e)' => drain'[e].todo # {}
  BY <1>1, Queued
<1>8. Files!TypeOK'
  <2>1. Len(revision') <= MaxRevision
    BY <1>1, <1>3, <1>6
  <2>2. \A e \in Drainer : drain'[e].at \notin {"IDLE", "QUEUED"} => drain'[e].todo # {}
    BY <1>q DEF Working
  <2> QED BY <1>1, <1>6, <1>q, <2>1, <2>2 DEF PublicationInv, Files!TypeOK, Files!Newest
<1>9. WrittenIsHeld'
  <2>1. \A e \in Drainer : \A listed \in drain'[e].todo : listed.of \in 1 .. Len(revision')
    BY <1>3, <1>6, <1>q DEF PublicationInv, WrittenIsHeld
  <2>2. \A e \in Drainer : drain'[e].at = "COMPLETE" => Files!Target(e)' \in held
    <3>1. ASSUME NEW e \in Drainer, drain'[e].at = "COMPLETE" PROVE Files!Target(e)' = Files!Target(e) /\ drain[e].at = "COMPLETE"
      BY <1>q, <3>1 DEF Files!Target
    <3> QED BY <3>1 DEF PublicationInv, WrittenIsHeld
  <2>3. \A r \in 1 .. Len(revision') : revision'[r].status = "PENDING" => revision'[r].version <= filesMaxVersion + 1
    <3>1. \A r \in 1 .. Len(revision') : r \in 1 .. Len(revision) \/ r = Len(revision) + 1
      BY <1>3, <1>6
    <3>2. 1 <= filesMaxVersion + 1
      BY <1>3
    <3> QED BY <1>4, <1>6, <3>1, <3>2 DEF PublicationInv, WrittenIsHeld
  <2> QED BY <1>1, <2>1, <2>2, <2>3 DEF PublicationInv, WrittenIsHeld
<1>10. Files!AppliedWasWritten'
  <2>1. \A r \in 1 .. Len(revision') : r \in 1 .. Len(revision) \/ r = Len(revision) + 1
    BY <1>3, <1>6
  <2>2. ASSUME NEW r \in 1 .. Len(revision'), revision'[r].status = "APPLIED" PROVE r \in held
    <3>1. r \in 1 .. Len(revision) /\ revision[r].status = "APPLIED"
      BY <1>4, <1>6, <2>1, <2>2
    <3> QED BY <1>3, <3>1 DEF PublicationInv, Files!AppliedWasWritten
  <2> QED BY <1>1, <1>6, <1>7, <2>2 DEF Files!AppliedWasWritten
<1>11. Serial'
  <2>1. SUFFICES ASSUME kind = "CONSTITUTION"
                 PROVE  /\ \A r \in 1 .. Len(revision') : FilesRowFits(r)'
                        /\ \A e \in Drainer : DrainFits(e)'
                        /\ \A e, f \in Drainer : Working(e)' /\ Working(f)' => e = f
    BY <1>1 DEF Serial
  <2>2. \A r \in 1 .. Len(revision) : FilesRowFits(r) /\ revision[r].standing # "PUBLISHING"
    BY <1>1, <1>3, <2>1 DEF PublicationInv, Serial
  <2>3. \A r \in 1 .. Len(revision) : revision[r].status # "PENDING"
    BY <2>2 DEF FilesRowFits
  <2>4. \A e \in Drainer : ~Working(e)
    <3>1. ASSUME NEW e \in Drainer, Working(e) PROVE FALSE
      <4>1. Len(revision) \in 1 .. Len(revision) /\ revision[Len(revision)].status = "PENDING"
        BY <2>1, <3>1, TargetIsNewest
      <4> QED BY <2>3, <4>1
    <3> QED BY <3>1
  <2>5. \A e \in Drainer : ~Working(e)'
    BY <1>q, <2>4
  <2>6. ASSUME NEW r \in 1 .. Len(revision) PROVE FilesRowFits(r)'
    <3>1. revision'[r] = revision[r] /\ revision[r].status # "PENDING" /\ revision[r].standing # "PUBLISHING" /\ FilesRowFits(r)
      BY <1>6, <2>2, <2>3
    <3>2. (\A s \in r + 1 .. Len(revision') : revision'[s].status # "APPLIED")
          <=> (\A s \in r + 1 .. Len(revision) : revision[s].status # "APPLIED")
      <4>1. \A s \in r + 1 .. Len(revision') : s \in r + 1 .. Len(revision) \/ s = Len(revision) + 1
        BY <1>3, <1>6
      <4>2. \A s \in r + 1 .. Len(revision) : s \in r + 1 .. Len(revision') /\ revision'[s] = revision[s]
        BY <1>3, <1>6
      <4>3. revision'[Len(revision) + 1].status # "APPLIED"
        BY <1>4, <1>6
      <4> QED BY <4>1, <4>2, <4>3
    <3> QED BY <1>1, <3>1, <3>2 DEF FilesRowFits
  <2>7. ASSUME NEW r \in 1 .. Len(revision'), r = Len(revision) + 1 PROVE FilesRowFits(r)'
    <3>1. revision'[r].status = "PENDING" /\ revision'[r].standing = "PUBLISHING" /\ r = Len(revision')
      BY <1>2, <1>4, <1>6, <2>1, <2>7
    <3> QED BY <3>1 DEF FilesRowFits
  <2>8. \A r \in 1 .. Len(revision') : r \in 1 .. Len(revision) \/ r = Len(revision) + 1
    BY <1>3, <1>6
  <2> QED BY <2>5, <2>6, <2>7, <2>8 DEF DrainFits
<1> QED BY <1>8, <1>9, <1>10, <1>11 DEF PublicationInv

\* A failed publication is asked for again.
LEMMA RetryStep ==
    ASSUME PublicationBounds, PublicationInv, NEW d \in Drainer, NEW n \in DOMAIN revision, Files!Retry(d, n)
    PROVE  PublicationInv'
<1>1. /\ n = Len(revision) /\ revision[n].status = "FAILED" /\ UNCHANGED <<kind, preview, disk, held, filesPhase>>
      /\ Files!Calls(d) /\ revision[n].version <= filesMaxVersion
  BY DEF Files!Retry, Files!Retryable, Files!RetriesLeft, Files!Newest
<1>3. /\ revision \in Seq(Files!Revision) /\ Len(revision) \in Nat /\ Len(revision) <= MaxRevision
      /\ revision \in [1 .. Len(revision) -> Files!Revision]
      /\ DOMAIN revision = 1 .. Len(revision) /\ MaxRevision \in Nat /\ filesMaxVersion \in Nat
      /\ \A r \in 1 .. Len(revision) : revision[r] \in Files!Revision /\ revision[r].version \in Nat
  BY PublicationTypes DEF PublicationInv
<1> DEFINE aRow == Files!Retried(n)
<1>4. /\ aRow \in Files!Revision /\ aRow.status = "PENDING" /\ aRow.version = revision[n].version + 1
      /\ kind = "CONSTITUTION" => aRow.standing = "PUBLISHING"
  <2>1. revision[n] \in Files!Revision /\ revision[n].version \in 1 .. filesMaxVersion + 2 /\ revision[n].version \in Nat
    BY <1>3 DEF Files!Revision
  <2>2. revision[n].version + 1 \in 1 .. filesMaxVersion + 2
    BY <1>1, <1>3, <2>1
  <2> QED BY <2>1, <2>2 DEF Files!Retried, Files!Revision, Files!PublicationStatus, Files!Standing
<1>5. revision' = [revision EXCEPT ![n] = aRow]
  BY DEF Files!Retry
<1> HIDE DEF aRow
<1>6. /\ revision' \in Seq(Files!Revision) /\ Len(revision') = Len(revision)
      /\ \A r \in 1 .. Len(revision) : r # n => revision'[r] = revision[r]
      /\ revision'[n] = aRow
  BY <1>1, <1>3, <1>4, <1>5, ExceptSeq
<1>7. DOMAIN revision' = 1 .. Len(revision)
  BY <1>6, LenProperties
<1>q. /\ ~Working(d) /\ ~Working(d)' /\ drain' \in [Drainer -> Files!Drain]
      /\ \A e \in Drainer : drain'[e].todo = drain[e].todo
      /\ \A e \in Drainer : Working(e)' <=> Working(e)
      /\ \A e \in Drainer : Working(e) => drain'[e] = drain[e]
      /\ \A e \in Drainer : drain'[e].at = "COMPLETE" => drain[e].at = "COMPLETE" /\ Working(e)
      /\ \A e \in Drainer : Working(e)' => drain'[e].todo # {}
  BY <1>1, Queued
<1>8. Files!TypeOK'
  <2>2. \A e \in Drainer : drain'[e].at \notin {"IDLE", "QUEUED"} => drain'[e].todo # {}
    BY <1>q DEF Working
  <2> QED BY <1>1, <1>6, <1>q, <2>2 DEF PublicationInv, Files!TypeOK, Files!Newest
<1>9. WrittenIsHeld'
  <2>1. \A e \in Drainer : \A listed \in drain'[e].todo : listed.of \in 1 .. Len(revision')
    BY <1>6, <1>q DEF PublicationInv, WrittenIsHeld
  <2>2. \A e \in Drainer : drain'[e].at = "COMPLETE" => Files!Target(e)' \in held
    <3>1. ASSUME NEW e \in Drainer, drain'[e].at = "COMPLETE" PROVE Files!Target(e)' = Files!Target(e) /\ drain[e].at = "COMPLETE"
      BY <1>q, <3>1 DEF Files!Target
    <3> QED BY <3>1 DEF PublicationInv, WrittenIsHeld
  <2>3. \A r \in 1 .. Len(revision') : revision'[r].status = "PENDING" => revision'[r].version <= filesMaxVersion + 1
    <3>2. aRow.version <= filesMaxVersion + 1
      BY <1>1, <1>3, <1>4
    <3> QED BY <1>6, <3>2 DEF PublicationInv, WrittenIsHeld
  <2> QED BY <1>1, <2>1, <2>2, <2>3 DEF PublicationInv, WrittenIsHeld
<1>10. Files!AppliedWasWritten'
  <2>2. ASSUME NEW r \in 1 .. Len(revision), revision'[r].status = "APPLIED" PROVE r \in held
    <3>1. revision[r].status = "APPLIED"
      BY <1>4, <1>6, <2>2
    <3> QED BY <1>3, <3>1 DEF PublicationInv, Files!AppliedWasWritten
  <2> QED BY <1>1, <1>7, <2>2 DEF Files!AppliedWasWritten
<1>11. Serial'
  <2>1. SUFFICES ASSUME kind = "CONSTITUTION"
                 PROVE  /\ \A r \in 1 .. Len(revision') : FilesRowFits(r)'
                        /\ \A e \in Drainer : DrainFits(e)'
                        /\ \A e, f \in Drainer : Working(e)' /\ Working(f)' => e = f
    BY <1>1 DEF Serial
  <2>2. \A r \in 1 .. Len(revision) : FilesRowFits(r)
    BY <2>1 DEF PublicationInv, Serial
  <2>4. \A e \in Drainer : ~Working(e)
    <3>1. ASSUME NEW e \in Drainer, Working(e) PROVE FALSE
      <4>1. revision[Len(revision)].status = "PENDING"
        BY <2>1, <3>1, TargetIsNewest
      <4> QED BY <1>1, <4>1
    <3> QED BY <3>1
  <2>5. \A e \in Drainer : ~Working(e)'
    BY <1>q, <2>4
  <2>6. \A r \in 1 .. Len(revision) : (revision'[r].status = "APPLIED") <=> (revision[r].status = "APPLIED")
    BY <1>1, <1>3, <1>4, <1>6
  <2>7. ASSUME NEW r \in 1 .. Len(revision), r # n PROVE FilesRowFits(r)'
    <3>1. revision'[r] = revision[r] /\ FilesRowFits(r) /\ Len(revision') = Len(revision)
      BY <1>6, <2>2, <2>7
    <3>2. \A s \in r + 1 .. Len(revision) : s \in 1 .. Len(revision)
      BY <1>3
    <3>3. (\A s \in r + 1 .. Len(revision') : revision'[s].status # "APPLIED")
          <=> (\A s \in r + 1 .. Len(revision) : revision[s].status # "APPLIED")
      BY <2>6, <3>1, <3>2
    <3> QED BY <1>1, <3>1, <3>3 DEF FilesRowFits
  <2>8. FilesRowFits(n)'
    BY <1>1, <1>4, <1>6, <2>1 DEF FilesRowFits
  <2> QED BY <1>6, <2>5, <2>7, <2>8 DEF DrainFits
<1> QED BY <1>8, <1>9, <1>10, <1>11 DEF PublicationInv

----
(* A drain *)

\* A drain lists what is pending; of constitutions, when no other works.
LEMMA BeginStep ==
    ASSUME PublicationBounds, PublicationInv, NEW d \in Drainer, Files!Begin(d)
    PROVE  PublicationInv'
<1>1. drain[d].at = "QUEUED" /\ UNCHANGED <<kind, revision, preview, disk, held, filesPhase>>
      /\ (kind = "CONSTITUTION" => \A e \in Drainer : e # d => ~Working(e))
  BY DEF Files!Begin, Files!MayBegin, Working
<1>2. /\ DOMAIN revision = 1 .. Len(revision) /\ Len(revision) \in Nat /\ Len(revision) <= MaxRevision
      /\ MaxRevision \in Nat /\ \A r \in 1 .. Len(revision) : revision[r] \in Files!Revision
  BY PublicationTypes DEF PublicationInv
<1>3. /\ \A listed \in Files!Pending : /\ listed \in Files!Listed /\ listed.of \in 1 .. Len(revision)
                                      /\ revision[listed.of].status = "PENDING"
                                      /\ listed = [of |-> listed.of, version |-> revision[listed.of].version]
  <2>1. ASSUME NEW r \in 1 .. Len(revision) PROVE [of |-> r, version |-> revision[r].version] \in Files!Listed
    <3>1. revision[r].version \in 1 .. filesMaxVersion + 2 /\ r \in 1 .. MaxRevision
      BY <1>2 DEF Files!Revision
    <3> QED BY <3>1 DEF Files!Listed
  <2> QED BY <1>2, <2>1 DEF Files!Pending
<1> DEFINE next == IF Files!Pending = {} THEN Files!Resting ELSE [at |-> "READ", todo |-> Files!Pending]
<1>4. drain' = [drain EXCEPT ![d] = next] /\ drain \in [Drainer -> Files!Drain]
  BY DEF Files!Begin, PublicationInv, Files!TypeOK
<1>5. /\ next \in Files!Drain /\ next.at \in {"IDLE", "READ"} /\ next.todo \subseteq Files!Pending
      /\ next.at # "IDLE" => next.todo = Files!Pending /\ next.todo # {}
  BY <1>3 DEF Files!Drain, Files!Resting
<1> HIDE DEF next
<1>6. drain' \in [Drainer -> Files!Drain] /\ drain'[d] = next /\ \A e \in Drainer : e # d => drain'[e] = drain[e]
  BY <1>4, <1>5
<1>7. Files!TypeOK'
  <2>1. \A e \in Drainer : drain'[e].at \notin {"IDLE", "QUEUED"} => drain'[e].todo # {}
    BY <1>5, <1>6 DEF PublicationInv, Files!TypeOK
  <2> QED BY <1>1, <1>6, <2>1 DEF PublicationInv, Files!TypeOK, Files!Newest
<1>8. WrittenIsHeld'
  <2>1. \A e \in Drainer : \A listed \in drain'[e].todo : listed.of \in 1 .. Len(revision)
    BY <1>3, <1>5, <1>6 DEF PublicationInv, WrittenIsHeld
  <2>2. ASSUME NEW e \in Drainer, drain'[e].at = "COMPLETE" PROVE Files!Target(e)' \in held
    <3>1. e # d
      BY <1>5, <1>6, <2>2
    <3>2. drain'[e] = drain[e]
      BY <1>6, <3>1
    <3> QED BY <2>2, <3>2 DEF PublicationInv, WrittenIsHeld, Files!Target
  <2> QED BY <1>1, <2>1, <2>2 DEF PublicationInv, WrittenIsHeld
<1>9. Files!AppliedWasWritten'
  BY <1>1 DEF PublicationInv, Files!AppliedWasWritten
<1>10. Serial'
  <2>1. SUFFICES ASSUME kind = "CONSTITUTION"
                 PROVE  /\ \A r \in 1 .. Len(revision') : FilesRowFits(r)'
                        /\ \A e \in Drainer : DrainFits(e)'
                        /\ \A e, f \in Drainer : Working(e)' /\ Working(f)' => e = f
    BY <1>1 DEF Serial
  <2>2. \A r \in 1 .. Len(revision) : FilesRowFits(r)
    BY <2>1 DEF PublicationInv, Serial
  <2>3. ASSUME NEW r \in 1 .. Len(revision) PROVE FilesRowFits(r)'
    BY <1>1, <2>2, <2>3 DEF FilesRowFits
  <2>4. \A e \in Drainer : Working(e)' => e = d
    BY <1>1, <1>6, <2>1 DEF Working
  <2>5. ASSUME NEW e \in Drainer, Working(e)' PROVE DrainFits(e)'
    <3>1. e = d /\ next.at = "READ" /\ next.todo = Files!Pending /\ next.todo # {}
      BY <1>5, <1>6, <2>4, <2>5 DEF Working
    <3>2. \A listed \in next.todo : /\ listed.of = Len(revision) /\ revision[Len(revision)].status = "PENDING"
                                    /\ listed = [of |-> Len(revision), version |-> revision[Len(revision)].version]
      BY <1>3, <2>2, <3>1 DEF FilesRowFits
    <3>3. next.todo = {[of |-> Len(revision), version |-> revision[Len(revision)].version]}
          /\ revision[Len(revision)].status = "PENDING" /\ Len(revision) \in 1 .. Len(revision)
      BY <1>3, <3>1, <3>2
    <3>4. Len(revision) > 0
      BY <1>2, <3>3
    <3> QED BY <1>1, <1>6, <3>1, <3>3, <3>4 DEF DrainFits
  <2>6. \A e \in Drainer : DrainFits(e)'
    BY <2>5 DEF DrainFits
  <2> QED BY <1>1, <2>3, <2>4, <2>6
<1> QED BY <1>7, <1>8, <1>9, <1>10 DEF PublicationInv

\* A drain that works goes on with the row it has: what it finds and writes is that row's text.
LEMMA GoesOn ==
    ASSUME PublicationBounds, PublicationInv, NEW d \in Drainer, Working(d),
           NEW step \in {"WRITE", "RECHECK", "RENAME", "CONFIRM", "COMPLETE", "FAIL", "CHANGED"}, Files!Move(d, step),
           UNCHANGED <<kind, revision, preview, filesPhase>>,
           \/ disk' = disk /\ held' = held
           \/ disk' = Files!Target(d) /\ held' = held \cup {Files!Target(d)},
           step = "COMPLETE" => disk' = Files!Target(d)
    PROVE  PublicationInv'
<1>1. /\ Len(revision) \in Nat /\ DOMAIN revision = 1 .. Len(revision)
      /\ Len(revision) <= MaxRevision /\ MaxRevision \in Nat
  BY PublicationTypes DEF PublicationInv
<1>2. Files!Target(d) \in 1 .. Len(revision)
  BY TargetIsARow
<1>3. drain \in [Drainer -> Files!Drain] /\ drain[d] \in Files!Drain /\ drain[d].todo # {}
  BY DEF PublicationInv, Files!TypeOK, Working
<1>4. drain' = [drain EXCEPT ![d] = [drain[d] EXCEPT !.at = step]]
  BY DEF Files!Move
<1>5. [drain[d] EXCEPT !.at = step] = [at |-> step, todo |-> drain[d].todo] /\ [at |-> step, todo |-> drain[d].todo] \in Files!Drain
  BY <1>3 DEF Files!Drain
<1>6. /\ drain' \in [Drainer -> Files!Drain] /\ drain'[d].at = step /\ drain'[d].todo = drain[d].todo
      /\ \A e \in Drainer : e # d => drain'[e] = drain[e]
  BY <1>3, <1>4, <1>5
<1>7. \A e \in Drainer : drain'[e].todo = drain[e].todo
  BY <1>6
<1>8. \A e \in Drainer : Working(e)' <=> Working(e)
  <2>1. Working(d)'
    BY <1>6 DEF Working
  <2> QED BY <1>6, <2>1 DEF Working
<1>9. Files!Target(d) \in 1 .. MaxRevision /\ disk' \in Files!Text /\ held \subseteq held' /\ held' \subseteq 1 .. MaxRevision
      /\ (disk' \in 1 .. MaxRevision => disk' \in held')
  <2>1. Files!Target(d) \in 1 .. MaxRevision /\ Files!Target(d) \in Files!Text
    BY <1>1, <1>2 DEF Files!Text, Files!Own
  <2> QED BY <2>1 DEF PublicationInv, Files!TypeOK, WrittenIsHeld
<1>10. Files!TypeOK'
  <2>1. \A e \in Drainer : drain'[e].at \notin {"IDLE", "QUEUED"} => drain'[e].todo # {}
    BY <1>3, <1>6 DEF PublicationInv, Files!TypeOK
  <2> QED BY <1>6, <1>9, <2>1 DEF PublicationInv, Files!TypeOK, Files!Newest
<1>11. WrittenIsHeld'
  <2>1. \A e \in Drainer : \A aRow \in drain'[e].todo : aRow.of \in 1 .. Len(revision)
    BY <1>7 DEF PublicationInv, WrittenIsHeld
  <2>2. ASSUME NEW e \in Drainer, drain'[e].at = "COMPLETE" PROVE Files!Target(e)' \in held'
    <3>1. Files!Target(e)' = Files!Target(e)
      BY <1>7 DEF Files!Target
    <3>2. CASE e = d
      <4>1. disk' = Files!Target(d) /\ disk' \in held'
        BY <1>6, <1>9, <2>2, <3>2
      <4> QED BY <3>1, <3>2, <4>1
    <3>3. CASE e # d
      <4>1. drain[e].at = "COMPLETE"
        BY <1>6, <2>2, <3>3
      <4> QED BY <1>9, <3>1, <4>1 DEF PublicationInv, WrittenIsHeld
    <3> QED BY <3>2, <3>3
  <2> QED BY <1>9, <2>1, <2>2 DEF PublicationInv, WrittenIsHeld
<1>12. Files!AppliedWasWritten'
  BY <1>9 DEF PublicationInv, Files!AppliedWasWritten
<1>13. Serial'
  <2>1. SUFFICES ASSUME kind = "CONSTITUTION"
                 PROVE  /\ \A r \in 1 .. Len(revision) : FilesRowFits(r)'
                        /\ \A e \in Drainer : DrainFits(e)'
                        /\ \A e, f \in Drainer : Working(e)' /\ Working(f)' => e = f
    BY DEF Serial
  <2>2. /\ Files!Target(d) = Len(revision)
        /\ \A r \in 1 .. Len(revision) : FilesRowFits(r)
        /\ \A e \in Drainer : DrainFits(e)
        /\ \A e, f \in Drainer : Working(e) /\ Working(f) => e = f
    BY <2>1, TargetIsNewest DEF PublicationInv, Serial
  <2>3. disk' = disk \/ disk' = Len(revision)
    BY <2>2
  <2>4. ASSUME NEW r \in 1 .. Len(revision) PROVE FilesRowFits(r)'
    <3>1. r <= Len(revision) /\ FilesRowFits(r)
      BY <1>1, <2>2
    <3> QED BY <2>3, <3>1 DEF FilesRowFits
  <2>5. ASSUME NEW e \in Drainer, Working(e)' PROVE DrainFits(e)'
    <3>1. e = d
      BY <1>8, <2>2, <2>5
    <3>2. drain'[e].at = "COMPLETE" => disk' = Len(revision)
      BY <1>6, <2>2, <3>1
    <3> QED BY <1>6, <2>2, <3>1, <3>2 DEF DrainFits
  <2>6. \A e \in Drainer : DrainFits(e)'
    BY <2>5 DEF DrainFits
  <2> QED BY <1>8, <2>2, <2>4, <2>6
<1> QED BY <1>10, <1>11, <1>12, <1>13 DEF PublicationInv

\* A drain that reads, writes, looks again, renames or confirms.
LEMMA DrainStep ==
    ASSUME PublicationBounds, PublicationInv, NEW d \in Drainer,
           Files!Read(d) \/ Files!Write(d) \/ Files!Recheck(d) \/ Files!Rename(d) \/ Files!Confirm(d)
    PROVE  PublicationInv'
<1>1. Working(d) /\ UNCHANGED <<kind, revision, preview, filesPhase>>
  BY DEF Files!Read, Files!Write, Files!Recheck, Files!Rename, Files!Confirm, Working
<1>2. CASE Files!Read(d)
  BY <1>1, <1>2, GoesOn DEF Files!Read, Files!AlreadyThere
<1>3. CASE Files!Write(d)
  BY <1>1, <1>3, GoesOn DEF Files!Write
<1>4. CASE Files!Recheck(d)
  BY <1>1, <1>4, GoesOn DEF Files!Recheck
<1>5. CASE Files!Rename(d)
  BY <1>1, <1>5, GoesOn DEF Files!Rename
<1>6. CASE Files!Confirm(d)
  BY <1>1, <1>6, GoesOn DEF Files!Confirm
<1> QED BY <1>2, <1>3, <1>4, <1>5, <1>6

\* What settling a row leaves in it, and of the others.
LEMMA SettledRows ==
    ASSUME PublicationBounds, PublicationInv, NEW d \in Drainer, Working(d), Files!Current(d),
           \/ revision' = Files!Completed(Files!Target(d))
           \/ revision' = Files!Failed(Files!Target(d))
    PROVE  /\ revision' \in Seq(Files!Revision) /\ Len(revision') = Len(revision)
           /\ revision'[Files!Target(d)].status \in {"APPLIED", "FAILED"}
           /\ \A r \in 1 .. Len(revision) : r # Files!Target(d) =>
                 /\ revision'[r].status = revision[r].status /\ revision'[r].version = revision[r].version
<1>1. /\ Len(revision) \in Nat /\ DOMAIN revision = 1 .. Len(revision) /\ revision \in Seq(Files!Revision)
      /\ revision \in [1 .. Len(revision) -> Files!Revision] /\ filesMaxVersion \in Nat
      /\ \A r \in 1 .. Len(revision) : revision[r] \in Files!Revision /\ revision[r].version \in Nat
  BY PublicationTypes DEF PublicationInv
<1> DEFINE t == Files!Target(d)
<1>2. t \in 1 .. Len(revision)
  BY TargetIsARow
<1>3. revision[t].version + 1 \in 1 .. filesMaxVersion + 2
  <2>1. revision[t].status = "PENDING"
    BY DEF Files!Current
  <2>2. revision[t].version <= filesMaxVersion + 1
    BY <1>2, <2>1 DEF PublicationInv, WrittenIsHeld
  <2>3. revision[t].version \in Nat
    BY <1>1, <1>2
  <2> QED BY <1>1, <2>2, <2>3
<1> HIDE DEF t
<1>4. CASE revision' = Files!Completed(t)
  <2>1. revision' \in [1 .. Len(revision) -> Files!Revision]
    <3>1. ASSUME NEW r \in 1 .. Len(revision)
          PROVE  (CASE r = t -> [revision[r] EXCEPT !.status = "APPLIED", !.version = revision[r].version + 1,
                                        !.standing = IF kind = "PLAN" THEN revision[r].standing ELSE "ACTIVE"]
                    [] r # t /\ kind = "CONSTITUTION" -> [revision[r] EXCEPT !.standing = Files!Standby(revision[r].standing)]
                    [] OTHER -> revision[r]) \in Files!Revision
      <4>1. revision[r] \in Files!Revision
        BY <1>1
      <4>2. CASE r = t
        BY <1>3, <4>1, <4>2 DEF Files!Revision, Files!PublicationStatus, Files!Standing
      <4>3. CASE r # t
        BY <4>1, <4>3 DEF Files!Revision, Files!PublicationStatus, Files!Standing, Files!Standby
      <4> QED BY <4>2, <4>3
    <3> QED BY <1>1, <1>4, <3>1 DEF Files!Completed
  <2>2. revision' \in Seq(Files!Revision) /\ Len(revision') = Len(revision)
    BY <1>1, <2>1
  <2>3. revision'[t].status = "APPLIED"
    BY <1>1, <1>2, <1>4 DEF Files!Completed, Files!Revision
  <2>4. ASSUME NEW r \in 1 .. Len(revision), r # t
        PROVE  revision'[r].status = revision[r].status /\ revision'[r].version = revision[r].version
    <3>1. revision[r] \in Files!Revision
      BY <1>1
    <3>2. revision'[r] = revision[r] \/ revision'[r] = [revision[r] EXCEPT !.standing = Files!Standby(revision[r].standing)]
      BY <1>1, <1>4, <2>4 DEF Files!Completed
    <3> QED BY <3>1, <3>2 DEF Files!Revision
  <2> QED BY <2>2, <2>3, <2>4 DEF t
<1>5. CASE revision' = Files!Failed(t)
  <2> DEFINE aRow == [revision[t] EXCEPT !.status = "FAILED", !.version = revision[t].version + 1,
                                        !.standing = IF kind = "PLAN" THEN revision[t].standing ELSE "FAILED"]
  <2>1. revision' = [revision EXCEPT ![t] = aRow]
    <3>1. revision' \in [1 .. Len(revision) -> Files!Revision \cup {aRow}] /\ [revision EXCEPT ![t] = aRow] \in [1 .. Len(revision) -> Files!Revision \cup {aRow}]
      BY <1>1, <1>2, <1>5 DEF Files!Failed
    <3> QED BY <1>1, <1>2, <1>5 DEF Files!Failed
  <2>2. aRow \in Files!Revision /\ aRow.status = "FAILED"
    BY <1>1, <1>2, <1>3 DEF Files!Revision, Files!PublicationStatus, Files!Standing
  <2> HIDE DEF aRow
  <2>3. revision' \in Seq(Files!Revision) /\ Len(revision') = Len(revision) /\ revision'[t] = aRow
        /\ \A r \in 1 .. Len(revision) : r # t => revision'[r] = revision[r]
    BY <1>1, <1>2, <2>1, <2>2, ExceptSeq
  <2> QED BY <2>2, <2>3 DEF t
<1> QED BY <1>4, <1>5 DEF t

\* A drain settles its row, or finds it settled, and goes on with what is left of its list.
LEMMA SettleStep ==
    ASSUME PublicationBounds, PublicationInv, NEW d \in Drainer, Files!Settle(d)
    PROVE  PublicationInv'
<1>1. /\ drain[d].at \in {"COMPLETE", "FAIL", "CHANGED"} /\ Working(d)
      /\ UNCHANGED <<kind, preview, disk, held, filesPhase>>
      /\ ~Files!Current(d) => revision' = revision
      /\ Files!Current(d) => revision' = IF drain[d].at = "COMPLETE" THEN Files!Completed(Files!Target(d))
                                         ELSE Files!Failed(Files!Target(d))
  BY DEF Files!Settle, Working
<1>2. /\ Len(revision) \in Nat /\ DOMAIN revision = 1 .. Len(revision) /\ revision \in Seq(Files!Revision)
      /\ \A r \in 1 .. Len(revision) : revision[r] \in Files!Revision /\ revision[r].version \in Nat
      /\ filesMaxVersion \in Nat
  BY PublicationTypes DEF PublicationInv
<1>3. Files!Target(d) \in 1 .. Len(revision) /\ Files!First(drain[d].todo) \in drain[d].todo
  BY <1>1, TargetIsARow
<1>4. /\ revision' \in Seq(Files!Revision) /\ Len(revision') = Len(revision)
      /\ Files!Current(d) => revision'[Files!Target(d)].status \in {"APPLIED", "FAILED"}
      /\ \A r \in 1 .. Len(revision) : r # Files!Target(d) =>
            revision'[r].status = revision[r].status /\ revision'[r].version = revision[r].version
  BY <1>1, <1>2, SettledRows
<1>5. DOMAIN revision' = 1 .. Len(revision)
  BY <1>4, LenProperties
<1> DEFINE left == drain[d].todo \ {Files!First(drain[d].todo)}
           next == IF left = {} THEN Files!Resting ELSE [at |-> "READ", todo |-> left]
<1>6. drain \in [Drainer -> Files!Drain] /\ drain[d] \in Files!Drain
  BY DEF PublicationInv, Files!TypeOK
<1>7. drain' = [drain EXCEPT ![d] = next]
  <2>1. (drain[d].todo = {Files!First(drain[d].todo)}) <=> left = {}
    BY <1>3
  <2> QED BY <2>1 DEF Files!Settle
<1>8. next \in Files!Drain /\ next.at \in {"IDLE", "READ"} /\ next.todo \subseteq drain[d].todo
      /\ (next.at = "READ" => next.todo = left /\ left # {})
  BY <1>6 DEF Files!Drain, Files!Resting
<1>l. drain[d].todo = {Files!First(drain[d].todo)} => next = Files!Resting
  OBVIOUS
<1> HIDE DEF next, left
<1>9. drain' \in [Drainer -> Files!Drain] /\ drain'[d] = next /\ \A e \in Drainer : e # d => drain'[e] = drain[e]
  BY <1>6, <1>7, <1>8
<1>10. Files!TypeOK'
  <2>1. \A e \in Drainer : drain'[e].at \notin {"IDLE", "QUEUED"} => drain'[e].todo # {}
    BY <1>8, <1>9 DEF PublicationInv, Files!TypeOK
  <2> QED BY <1>1, <1>4, <1>9, <2>1 DEF PublicationInv, Files!TypeOK, Files!Newest
<1>11. WrittenIsHeld'
  <2>1. \A e \in Drainer : \A aRow \in drain'[e].todo : aRow.of \in 1 .. Len(revision)
    BY <1>8, <1>9 DEF PublicationInv, WrittenIsHeld
  <2>2. ASSUME NEW e \in Drainer, drain'[e].at = "COMPLETE" PROVE Files!Target(e)' \in held
    <3>1. e # d
      BY <1>8, <1>9, <2>2
    <3>2. drain'[e] = drain[e]
      BY <1>9, <3>1
    <3> QED BY <2>2, <3>2 DEF PublicationInv, WrittenIsHeld, Files!Target
  <2>3. ASSUME NEW r \in 1 .. Len(revision), revision'[r].status = "PENDING" PROVE revision'[r].version <= filesMaxVersion + 1
    <3>1. revision[r].status = "PENDING" /\ revision'[r].version = revision[r].version
      BY <1>1, <1>4, <2>3
    <3> QED BY <3>1 DEF PublicationInv, WrittenIsHeld
  <2> QED BY <1>1, <1>4, <2>1, <2>2, <2>3 DEF PublicationInv, WrittenIsHeld
<1>12. Files!AppliedWasWritten'
  <2>1. ASSUME NEW r \in 1 .. Len(revision), revision'[r].status = "APPLIED" PROVE r \in held
    <3>1. CASE revision[r].status = "APPLIED"
      BY <1>2, <3>1 DEF PublicationInv, Files!AppliedWasWritten
    <3>2. CASE revision[r].status # "APPLIED"
      <4>1. r = Files!Target(d) /\ Files!Current(d)
        BY <1>1, <1>4, <2>1, <3>2
      <4>2. drain[d].at = "COMPLETE"
        <5>1. SUFFICES ASSUME drain[d].at # "COMPLETE" PROVE FALSE
          OBVIOUS
        <5>2. revision' = Files!Failed(r)
          BY <1>1, <4>1, <5>1
        <5>3. revision'[r].status = "FAILED"
          BY <1>2, <5>2 DEF Files!Failed, Files!Revision
        <5> QED BY <2>1, <5>3
      <4> QED BY <4>1, <4>2 DEF PublicationInv, WrittenIsHeld
    <3> QED BY <3>1, <3>2
  <2> QED BY <1>1, <1>5, <2>1 DEF Files!AppliedWasWritten
<1>13. Serial'
  <2>1. SUFFICES ASSUME kind = "CONSTITUTION"
                 PROVE  /\ \A r \in 1 .. Len(revision) : FilesRowFits(r)'
                        /\ \A e \in Drainer : ~Working(e)'
    BY <1>1, <1>4 DEF Serial, DrainFits
  <2>2. /\ Files!Target(d) = Len(revision) /\ Files!Current(d) /\ drain[d].todo = {Files!First(drain[d].todo)}
        /\ \A r \in 1 .. Len(revision) : FilesRowFits(r)
        /\ DrainFits(d)
        /\ \A e, f \in Drainer : Working(e) /\ Working(f) => e = f
    BY <1>1, <2>1, TargetIsNewest DEF PublicationInv, Serial
  <2>3. ASSUME NEW e \in Drainer PROVE ~Working(e)'
    <3>1. CASE e = d
      BY <1>9, <1>l, <2>2, <3>1 DEF Working, Files!Resting
    <3>2. CASE e # d
      BY <1>1, <1>9, <2>2, <3>2 DEF Working
    <3> QED BY <3>1, <3>2
  <2> DEFINE n == Len(revision)
  <2>4. n \in 1 .. n /\ \A r \in 1 .. n : r # n => n \in r + 1 .. n
    <3>1. n \in Nat /\ n \in 1 .. n
      BY <1>2, <1>3, <2>2
    <3> HIDE DEF n
    <3> QED BY <3>1
  <2>5. CASE drain[d].at = "COMPLETE"
    <3>1. revision' = Files!Completed(n) /\ disk \in {0, Files!Own, n}
      BY <1>1, <2>2, <2>5 DEF DrainFits
    <3>2. revision'[n].status = "APPLIED" /\ revision'[n].standing = "ACTIVE"
      BY <1>2, <2>1, <2>4, <3>1 DEF Files!Completed, Files!Revision
    <3>3. ASSUME NEW r \in 1 .. n, r # n
          PROVE  revision'[r].status = revision[r].status
                 /\ revision'[r].standing = Files!Standby(revision[r].standing)
      BY <1>2, <2>1, <3>1, <3>3 DEF Files!Completed, Files!Revision
    <3>4. ASSUME NEW r \in 1 .. n, r # n PROVE FilesRowFits(r)'
      <4>1. revision'[r].status = revision[r].status /\ revision'[r].standing = Files!Standby(revision[r].standing) /\ FilesRowFits(r)
        BY <2>2, <3>3, <3>4
      <4>2. revision[r].status # "PENDING" /\ revision[r].standing # "PUBLISHING"
        BY <3>4, <4>1 DEF FilesRowFits
      <4>3. revision'[r].status # "PENDING" /\ revision'[r].standing # "PUBLISHING" /\ revision'[r].standing # "ACTIVE"
        BY <4>1, <4>2 DEF Files!Standby
      <4>4. ~(\A s \in r + 1 .. Len(revision') : revision'[s].status # "APPLIED")
        BY <1>4, <2>4, <3>2, <3>4
      <4>5. revision'[r].status = "FAILED" => revision'[r].standing = "FAILED"
        BY <4>1 DEF FilesRowFits, Files!Standby
      <4>6. revision'[r].status = "APPLIED" => revision'[r].standing \in {"ACTIVE", "SUPERSEDED"}
        BY <4>1 DEF FilesRowFits, Files!Standby
      <4> QED BY <4>3, <4>4, <4>5, <4>6 DEF FilesRowFits
    <3>5. ASSUME NEW r \in 1 .. n, r = n PROVE FilesRowFits(r)'
      <4>1. r = Len(revision') /\ r + 1 .. Len(revision') = {}
        BY <1>2, <1>4, <3>5
      <4>2. disk \in {0, Files!Own} \/ r <= disk
        <5>1. n <= n
          BY <1>2
        <5> QED BY <3>1, <3>5, <5>1, Zenon
      <4> QED BY <1>1, <3>2, <3>5, <4>1, <4>2 DEF FilesRowFits
    <3> QED BY <2>3, <3>4, <3>5
  <2>6. CASE drain[d].at # "COMPLETE"
    <3>1. revision' = Files!Failed(n)
      BY <1>1, <2>2, <2>6
    <3>2. revision'[n].status = "FAILED" /\ revision'[n].standing = "FAILED"
      BY <1>2, <2>1, <2>4, <3>1 DEF Files!Failed, Files!Revision
    <3>3. \A r \in 1 .. n : r # n => revision'[r] = revision[r]
      BY <1>2, <3>1 DEF Files!Failed
    <3>4. revision[n].status = "PENDING"
      BY <2>2 DEF Files!Current
    <3>5. \A s \in 1 .. n : (revision'[s].status = "APPLIED") <=> (revision[s].status = "APPLIED")
      BY <3>2, <3>3, <3>4
    <3>6. ASSUME NEW r \in 1 .. n, r # n PROVE FilesRowFits(r)'
      <4>1. revision'[r] = revision[r] /\ FilesRowFits(r) /\ Len(revision') = n
        BY <1>4, <2>2, <3>3, <3>6
      <4>2. \A s \in r + 1 .. n : s \in 1 .. n
        BY <1>2
      <4>3. (\A s \in r + 1 .. Len(revision') : revision'[s].status # "APPLIED")
            <=> (\A s \in r + 1 .. n : revision[s].status # "APPLIED")
        BY <3>5, <4>1, <4>2
      <4> QED BY <1>1, <4>1, <4>3 DEF FilesRowFits
    <3>7. ASSUME NEW r \in 1 .. n, r = n PROVE FilesRowFits(r)'
      BY <1>4, <3>2, <3>7 DEF FilesRowFits
    <3> QED BY <2>3, <3>6, <3>7
  <2> QED BY <2>5, <2>6
<1> QED BY <1>10, <1>11, <1>12, <1>13 DEF PublicationInv

\* The daemon dies with its drains, and starts with one.
LEMMA RestartStep ==
    ASSUME PublicationBounds, PublicationInv, NEW d \in Drainer, Files!Restart(d)
    PROVE  PublicationInv'
<1>1. UNCHANGED <<kind, revision, preview, disk, held>> /\ filesPhase' = "BOOTING"
  BY DEF Files!Restart
<1>2. \A e \in Drainer : drain'[e].at \in {"IDLE", "QUEUED"} /\ drain'[e].todo = {} /\ drain'[e] \in Files!Drain
  BY DEF Files!Restart, Files!Resting, Files!Drain
<1>3. Files!TypeOK'
  <2>1. drain' \in [Drainer -> Files!Drain]
    BY <1>2 DEF Files!Restart
  <2> QED BY <1>1, <1>2, <2>1 DEF PublicationInv, Files!TypeOK, Files!Newest
<1>4. WrittenIsHeld'
  BY <1>1, <1>2 DEF PublicationInv, WrittenIsHeld
<1>5. Files!AppliedWasWritten'
  BY <1>1 DEF PublicationInv, Files!AppliedWasWritten
<1>6. Serial'
  <2>1. \A e \in Drainer : ~Working(e)'
    BY <1>2 DEF Working
  <2>2. ASSUME NEW r \in 1 .. Len(revision), FilesRowFits(r) PROVE FilesRowFits(r)'
    BY <1>1, <2>2 DEF FilesRowFits
  <2> QED BY <1>1, <2>1, <2>2 DEF PublicationInv, Serial, DrainFits
<1> QED BY <1>3, <1>4, <1>5, <1>6 DEF PublicationInv

\* A step in which nothing changes.
LEMMA PublicationStutter ==
    ASSUME PublicationBounds, PublicationInv, UNCHANGED Files!vars PROVE PublicationInv'
<1>1. UNCHANGED <<kind, revision, preview, drain, disk, held, filesPhase>>
  BY DEF Files!vars
<1>2. WrittenIsHeld' /\ Files!AppliedWasWritten' /\ Serial'
  BY <1>1, RowsStay
<1>3. Files!TypeOK'
  BY <1>1 DEF PublicationInv, Files!TypeOK, Files!Newest
<1> QED BY <1>2, <1>3 DEF PublicationInv

----
\* The invariant of Publication, for any number of drains, revisions and retries.
THEOREM PublicationInvariant ==
    ASSUME PublicationBounds PROVE Files!Spec => []PublicationInv
<1>1. Files!Init => PublicationInv
  BY PublicationInit
<1>2. PublicationInv /\ [Files!Next]_(Files!vars) => PublicationInv'
  <2> SUFFICES ASSUME PublicationInv, [Files!Next]_(Files!vars) PROVE PublicationInv'
    OBVIOUS
  <2>1. CASE Files!Look \/ Files!Listen \/ Files!Edit
    BY <2>1, OthersStep
  <2>2. ASSUME NEW d \in Drainer, NEW seen \in preview,
               Files!AdoptConstitution(d, seen) \/ Files!AdoptPlan(d, seen) \/ Files!DisablePlan(d, seen)
        PROVE  PublicationInv'
    BY <2>2, DecideStep
  <2>3. ASSUME NEW d \in Drainer, NEW r \in DOMAIN revision, Files!Retry(d, r) PROVE PublicationInv'
    BY <2>3, RetryStep
  <2>4. ASSUME NEW d \in Drainer, Files!Restart(d) PROVE PublicationInv'
    BY <2>4, RestartStep
  <2>5. ASSUME NEW d \in Drainer, Files!Begin(d) PROVE PublicationInv'
    BY <2>5, BeginStep
  <2>6. ASSUME NEW d \in Drainer,
               Files!Read(d) \/ Files!Write(d) \/ Files!Recheck(d) \/ Files!Rename(d) \/ Files!Confirm(d)
        PROVE  PublicationInv'
    BY <2>6, DrainStep
  <2>7. ASSUME NEW d \in Drainer, Files!Settle(d) PROVE PublicationInv'
    BY <2>7, SettleStep
  <2>8. CASE UNCHANGED Files!vars
    BY <2>8, PublicationStutter
  <2> QED BY <2>1, <2>2, <2>3, <2>4, <2>5, <2>6, <2>7, <2>8 DEF Files!Next
<1> QED BY <1>1, <1>2, PTL DEF Files!Spec

\* What is applied was written, and what is in force is the newest that was: nothing older is on disk.
THEOREM PublicationHolds ==
    ASSUME PublicationBounds PROVE Files!Spec => [](Files!AppliedWasWritten /\ Files!InForceIsNewest)
<1>1. PublicationInv => Files!AppliedWasWritten
  BY DEF PublicationInv
<1>2. PublicationInv => Files!InForceIsNewest
  <2>1. SUFFICES ASSUME PublicationInv, kind = "CONSTITUTION", NEW r \in DOMAIN revision, revision[r].status = "APPLIED"
                 PROVE  /\ revision[r].standing = "ACTIVE" <=> \A s \in r + 1 .. Len(revision) : revision[s].status # "APPLIED"
                        /\ revision[r].standing = "ACTIVE" => disk \in {0, Files!Own} \/ r <= disk
    BY DEF Files!InForceIsNewest, Files!Newest
  <2>2. r \in 1 .. Len(revision)
    BY PublicationTypes DEF PublicationInv
  <2>3. FilesRowFits(r)
    BY <2>1, <2>2 DEF PublicationInv, Serial
  <2> QED BY <2>1, <2>3 DEF FilesRowFits
<1> QED BY <1>1, <1>2, PublicationInvariant, PTL

----
(* Scaffold *)

CONSTANTS Operation, scafFile, scafMaxVersion
VARIABLES operation, scafTarget, meddled, publisher, scafPhase
Scaf == INSTANCE Scaffold WITH File <- scafFile, MaxVersion <- scafMaxVersion, target <- scafTarget, phase <- scafPhase

\* The bound of the behaviours.
ScaffoldBounds == scafMaxVersion \in Nat

Busy == publisher.step # "REST"

\* A publisher that works has a pending operation, at the version it has.
PublisherHasPending ==
    /\ Busy => /\ publisher.of \in Operation /\ operation[publisher.of].status = "PENDING"
               /\ operation[publisher.of].version = publisher.version
    /\ ~Busy => publisher = Scaf!Rest
    /\ \A o \in Operation : operation[o].status = "PENDING" => operation[o].version <= scafMaxVersion + 1

\* What the publisher went through is whole, and the file it writes to is the one it created.
WholeSoFar ==
    /\ publisher.step \in {"FILES", "TREE", "MARKER", "COMPLETE"} =>
          /\ scafTarget[publisher.of].at["MARKER"] = "WHOLE"
          /\ \A f \in scafFile \ publisher.todo : scafTarget[publisher.of].at[f] = "WHOLE"
    /\ publisher.step \in {"CREATE", "FILL"} =>
          /\ publisher.path # "MARKER" => scafTarget[publisher.of].at["MARKER"] = "WHOLE"
          /\ \A f \in scafFile \ publisher.todo : f # publisher.path => scafTarget[publisher.of].at[f] = "WHOLE"
    /\ publisher.step = "FILL" => scafTarget[publisher.of].at[publisher.path] = "PART"
    /\ publisher.step \in {"PREPARE", "CLAIM"} => publisher.todo = scafFile
    /\ publisher.step \in {"TREE", "MARKER", "COMPLETE"} => publisher.todo = {}
    /\ publisher.fresh => scafTarget[publisher.of].git
    /\ publisher.step \in {"MARKER", "COMPLETE"} => publisher.fresh

ScaffoldInv ==
    /\ Scaf!TypeOK
    /\ PublisherHasPending
    /\ Busy /\ publisher.of \notin meddled => WholeSoFar
    /\ Scaf!CompletedIsWhole

----
\* The types of what a step finds.
LEMMA ScaffoldFacts ==
    ASSUME ScaffoldBounds, ScaffoldInv
    PROVE  /\ operation \in [Operation -> Scaf!Row] /\ scafTarget \in [Operation -> Scaf!Target]
           /\ \A o \in Operation : scafTarget[o] \in Scaf!Target /\ scafTarget[o].at \in [Scaf!Path -> Scaf!Content]
           /\ \A o \in Operation : operation[o] \in Scaf!Row /\ operation[o].version \in Nat
           /\ publisher \in [of : Operation \cup {"NONE"}, version : 0 .. scafMaxVersion + 2, step : Scaf!Step,
                             path : Scaf!Path, fresh : BOOLEAN, todo : SUBSET scafFile]
           /\ "MARKER" \in Scaf!Path /\ scafFile \subseteq Scaf!Path /\ scafMaxVersion \in Nat
<1>1. scafMaxVersion \in Nat /\ operation \in [Operation -> Scaf!Row] /\ scafTarget \in [Operation -> Scaf!Target]
  BY DEF ScaffoldBounds, ScaffoldInv, Scaf!TypeOK
<1>2. \A o \in Operation : operation[o] \in Scaf!Row /\ operation[o].version \in Nat
  BY <1>1 DEF Scaf!Row
<1>3. \A o \in Operation : scafTarget[o] \in Scaf!Target /\ scafTarget[o].at \in [Scaf!Path -> Scaf!Content]
  BY <1>1 DEF Scaf!Target
<1> QED BY <1>1, <1>2, <1>3 DEF ScaffoldInv, Scaf!TypeOK, Scaf!Path

PathBecomes(o, p, c) == scafTarget' = [scafTarget EXCEPT ![o].at[p] = c]

\* One path of one target is written to: the rest stays as it is.
LEMMA PathWritten ==
    ASSUME ScaffoldBounds, ScaffoldInv, NEW o \in Operation, NEW p \in Scaf!Path, NEW c \in Scaf!Content,
           PathBecomes(o, p, c)
    PROVE  /\ scafTarget' \in [Operation -> Scaf!Target]
           /\ scafTarget'[o].at[p] = c
           /\ \A q \in Scaf!Path : q # p => scafTarget'[o].at[q] = scafTarget[o].at[q]
           /\ scafTarget'[o].directory = scafTarget[o].directory /\ scafTarget'[o].git = scafTarget[o].git
           /\ \A x \in Operation : x # o => scafTarget'[x] = scafTarget[x]
<1>1. scafTarget \in [Operation -> Scaf!Target] /\ scafTarget[o] \in Scaf!Target /\ scafTarget[o].at \in [Scaf!Path -> Scaf!Content]
  BY ScaffoldFacts
<1> DEFINE paths == [scafTarget[o].at EXCEPT ![p] = c]
           mid == [scafTarget[o] EXCEPT !.at = paths]
<1>2. /\ paths \in [Scaf!Path -> Scaf!Content] /\ paths[p] = c
      /\ \A q \in Scaf!Path : q # p => paths[q] = scafTarget[o].at[q]
  BY <1>1
<1>3. scafTarget' = [scafTarget EXCEPT ![o] = mid]
  BY DEF PathBecomes
<1> HIDE DEF paths
<1>4. mid \in Scaf!Target /\ mid.at = paths /\ mid.directory = scafTarget[o].directory /\ mid.git = scafTarget[o].git
  BY <1>1, <1>2 DEF Scaf!Target
<1> HIDE DEF mid
<1>5. scafTarget' \in [Operation -> Scaf!Target] /\ scafTarget'[o] = mid /\ \A x \in Operation : x # o => scafTarget'[x] = scafTarget[x]
  BY <1>1, <1>3, <1>4
<1> QED BY <1>2, <1>4, <1>5

\* The invariant holds before the first operation.
LEMMA ScaffoldInit == ASSUME ScaffoldBounds, Scaf!Init PROVE ScaffoldInv
<1>1. Scaf!Nothing \in Scaf!Target
  BY DEF Scaf!Nothing, Scaf!Target, Scaf!Content
<1>2. scafTarget \in [Operation -> Scaf!Target]
  BY <1>1 DEF Scaf!Init
<1>3. operation \in [Operation -> Scaf!Row]
  BY DEF Scaf!Init, Scaf!Row, ScaffoldBounds
<1>4. publisher \in [of : Operation \cup {"NONE"}, version : 0 .. scafMaxVersion + 2, step : Scaf!Step,
                     path : Scaf!Path, fresh : BOOLEAN, todo : SUBSET scafFile]
  BY DEF Scaf!Init, Scaf!Rest, ScaffoldBounds, Scaf!Step, Scaf!Path
<1>5. Scaf!TypeOK
  BY <1>2, <1>3, <1>4 DEF Scaf!Init, Scaf!TypeOK
<1>6. ~Busy
  BY DEF Scaf!Init, Busy, Scaf!Rest
<1> QED BY <1>5, <1>6 DEF Scaf!Init, ScaffoldInv, PublisherHasPending, Scaf!CompletedIsWhole

----
(* What the owner, the daemon's end and others do *)

\* The owner asks for a Project, or for another try.
LEMMA OwnerAsks ==
    ASSUME ScaffoldBounds, ScaffoldInv, NEW o \in Operation, Scaf!Request(o) \/ Scaf!Retry(o)
    PROVE  ScaffoldInv'
<1>1. /\ UNCHANGED <<scafTarget, meddled, publisher, scafPhase>>
      /\ operation[o].status \in {"NONE", "FAILED"}
      /\ operation \in [Operation -> Scaf!Row] /\ operation[o] \in Scaf!Row /\ operation[o].version \in Nat /\ scafMaxVersion \in Nat
  BY ScaffoldFacts DEF Scaf!Request, Scaf!Retry
<1>2. PICK aRow \in Scaf!Row : /\ operation' = [operation EXCEPT ![o] = aRow]
                               /\ aRow.status = "PENDING" /\ aRow.version <= scafMaxVersion + 1 /\ aRow.project # "ACTIVE"
  <2>1. CASE Scaf!Request(o)
    <3>1. [status |-> "PENDING", project |-> "PROVISIONING", version |-> 1] \in Scaf!Row
      BY <1>1 DEF Scaf!Row
    <3>2. 1 <= scafMaxVersion + 1
      BY <1>1
    <3> QED BY <2>1, <3>1, <3>2 DEF Scaf!Request
  <2>2. CASE Scaf!Retry(o)
    <3> DEFINE aRow == [operation[o] EXCEPT !.status = "PENDING", !.version = operation[o].version + 1]
    <3>1. operation' = [operation EXCEPT ![o] = aRow]
      BY <2>2 DEF Scaf!Retry
    <3>2. operation[o].version + 1 \in 0 .. scafMaxVersion + 2 /\ operation[o].version + 1 <= scafMaxVersion + 1
      BY <1>1, <2>2 DEF Scaf!Retry
    <3>3. operation[o].project # "ACTIVE"
      BY <1>1 DEF ScaffoldInv, Scaf!TypeOK
    <3>4. aRow \in Scaf!Row /\ aRow.status = "PENDING" /\ aRow.version <= scafMaxVersion + 1 /\ aRow.project # "ACTIVE"
      BY <1>1, <3>2, <3>3 DEF Scaf!Row
    <3> QED BY <3>1, <3>4
  <2> QED BY <2>1, <2>2
<1>3. operation' \in [Operation -> Scaf!Row] /\ operation'[o] = aRow /\ \A x \in Operation : x # o => operation'[x] = operation[x]
  BY <1>1, <1>2
<1>4. Scaf!TypeOK'
  <2>1. \A x \in Operation : operation'[x].project = "ACTIVE" <=> operation'[x].status = "COMPLETED"
    BY <1>2, <1>3 DEF ScaffoldInv, Scaf!TypeOK
  <2> QED BY <1>1, <1>3, <2>1 DEF ScaffoldInv, Scaf!TypeOK
<1>5. PublisherHasPending'
  <2>1. Busy => publisher.of \in Operation /\ publisher.of # o
    BY <1>1 DEF ScaffoldInv, PublisherHasPending
  <2> QED BY <1>1, <1>2, <1>3, <2>1 DEF ScaffoldInv, PublisherHasPending, Busy
<1>6. (Busy /\ publisher.of \notin meddled => WholeSoFar)'
  BY <1>1 DEF ScaffoldInv, WholeSoFar, Busy
<1>7. Scaf!CompletedIsWhole'
  BY <1>1, <1>2, <1>3 DEF ScaffoldInv, Scaf!CompletedIsWhole
<1> QED BY <1>4, <1>5, <1>6, <1>7 DEF ScaffoldInv

\* The daemon ends, or listens.
LEMMA DaemonStep ==
    ASSUME ScaffoldBounds, ScaffoldInv, Scaf!Restart \/ Scaf!Listen
    PROVE  ScaffoldInv'
<1>1. UNCHANGED <<operation, scafTarget, meddled>> /\ publisher' = Scaf!Rest /\ scafPhase' \in {"UP", "BOOTING"}
  BY DEF Scaf!Restart, Scaf!Listen
<1>2. publisher' \in [of : Operation \cup {"NONE"}, version : 0 .. scafMaxVersion + 2, step : Scaf!Step,
                      path : Scaf!Path, fresh : BOOLEAN, todo : SUBSET scafFile]
  BY <1>1 DEF Scaf!Rest, ScaffoldBounds, Scaf!Step, Scaf!Path
<1>3. ~Busy'
  BY <1>1 DEF Busy, Scaf!Rest
<1>4. Scaf!TypeOK'
  BY <1>1, <1>2 DEF ScaffoldInv, Scaf!TypeOK
<1>5. PublisherHasPending' /\ Scaf!CompletedIsWhole'
  BY <1>1, <1>3 DEF ScaffoldInv, PublisherHasPending, Scaf!CompletedIsWhole
<1> QED BY <1>3, <1>4, <1>5 DEF ScaffoldInv

\* Somebody writes into a directory.
LEMMA MeddleStep ==
    ASSUME ScaffoldBounds, ScaffoldInv, NEW o \in Operation, Scaf!Meddle(o)
    PROVE  ScaffoldInv'
<1>1. meddled' = meddled \cup {o} /\ UNCHANGED <<operation, publisher, scafPhase>>
  BY DEF Scaf!Meddle
<1>2. scafTarget \in [Operation -> Scaf!Target] /\ scafTarget[o] \in Scaf!Target /\ scafTarget[o].at \in [Scaf!Path -> Scaf!Content]
  BY ScaffoldFacts
<1>3. PICK here \in Scaf!Target : scafTarget' = [scafTarget EXCEPT ![o] = here]
  <2>1. CASE scafTarget' = [scafTarget EXCEPT ![o].directory = TRUE, ![o].more = TRUE]
    <3> DEFINE here == [scafTarget[o] EXCEPT !.directory = TRUE, !.more = TRUE]
    <3>1. here \in Scaf!Target
      BY <1>2 DEF Scaf!Target
    <3>2. scafTarget' = [scafTarget EXCEPT ![o] = here]
      BY <1>2, <2>1
    <3> QED BY <3>1, <3>2
  <2>2. ASSUME NEW p \in Scaf!Path, scafTarget' = [scafTarget EXCEPT ![o].directory = TRUE, ![o].at[p] = "OTHER"]
        PROVE  \E here \in Scaf!Target : scafTarget' = [scafTarget EXCEPT ![o] = here]
    <3> DEFINE paths == [scafTarget[o].at EXCEPT ![p] = "OTHER"]
               here == [scafTarget[o] EXCEPT !.directory = TRUE, !.at = paths]
    <3>1. paths \in [Scaf!Path -> Scaf!Content]
      BY <1>2 DEF Scaf!Content
    <3>2. scafTarget' = [scafTarget EXCEPT ![o] = here]
      BY <1>2, <2>2
    <3> HIDE DEF paths
    <3>3. here \in Scaf!Target
      BY <1>2, <3>1 DEF Scaf!Target
    <3> QED BY <3>2, <3>3
  <2> QED BY <2>1, <2>2 DEF Scaf!Meddle
<1>4. scafTarget' \in [Operation -> Scaf!Target] /\ \A x \in Operation : x # o => scafTarget'[x] = scafTarget[x]
  BY <1>2, <1>3
<1>5. Scaf!TypeOK'
  BY <1>1, <1>4 DEF ScaffoldInv, Scaf!TypeOK
<1>6. PublisherHasPending'
  BY <1>1 DEF ScaffoldInv, PublisherHasPending, Busy
<1>7. (Busy /\ publisher.of \notin meddled => WholeSoFar)'
  <2>1. SUFFICES ASSUME Busy, publisher.of \notin meddled, publisher.of # o PROVE WholeSoFar'
    BY <1>1 DEF Busy
  <2>2. scafTarget'[publisher.of] = scafTarget[publisher.of]
    BY <1>4, <2>1 DEF ScaffoldInv, PublisherHasPending
  <2> QED BY <1>1, <2>1, <2>2 DEF ScaffoldInv, WholeSoFar
<1>8. Scaf!CompletedIsWhole'
  BY <1>1, <1>4 DEF ScaffoldInv, Scaf!CompletedIsWhole
<1> QED BY <1>5, <1>6, <1>7, <1>8 DEF ScaffoldInv

----
(* The publisher *)

\* The publisher takes a pending operation.
LEMMA TakeStep ==
    ASSUME ScaffoldBounds, ScaffoldInv, NEW o \in Operation, Scaf!Take(o)
    PROVE  ScaffoldInv'
<1>1. UNCHANGED <<operation, scafTarget, meddled, scafPhase>> /\ operation[o].status = "PENDING"
      /\ publisher' = [Scaf!Rest EXCEPT !.of = o, !.version = operation[o].version, !.step = "PREPARE", !.todo = scafFile]
  BY DEF Scaf!Take
<1>2. publisher' = [of |-> o, version |-> operation[o].version, step |-> "PREPARE", path |-> "MARKER",
                    fresh |-> FALSE, todo |-> scafFile]
  BY <1>1 DEF Scaf!Rest
<1>3. operation[o].version \in 0 .. scafMaxVersion + 2
  BY ScaffoldFacts DEF Scaf!Row
<1>4. publisher' \in [of : Operation \cup {"NONE"}, version : 0 .. scafMaxVersion + 2, step : Scaf!Step,
                      path : Scaf!Path, fresh : BOOLEAN, todo : SUBSET scafFile]
  BY <1>2, <1>3 DEF Scaf!Step, Scaf!Path
<1>5. Scaf!TypeOK'
  BY <1>1, <1>4 DEF ScaffoldInv, Scaf!TypeOK
<1>6. PublisherHasPending'
  BY <1>1, <1>2 DEF ScaffoldInv, PublisherHasPending, Busy
<1>7. WholeSoFar'
  BY <1>2 DEF WholeSoFar
<1>8. Scaf!CompletedIsWhole'
  BY <1>1 DEF ScaffoldInv, Scaf!CompletedIsWhole
<1> QED BY <1>5, <1>6, <1>7, <1>8 DEF ScaffoldInv

\* What a step of the publisher leaves to show: that what it went through is whole.
LEMMA PublisherGoesOn ==
    ASSUME ScaffoldBounds, ScaffoldInv, Busy, UNCHANGED <<operation, meddled, scafPhase>>,
           scafTarget' \in [Operation -> Scaf!Target],
           \A x \in Operation : x # publisher.of => scafTarget'[x] = scafTarget[x],
           publisher' \in [of : Operation \cup {"NONE"}, version : 0 .. scafMaxVersion + 2, step : Scaf!Step,
                           path : Scaf!Path, fresh : BOOLEAN, todo : SUBSET scafFile],
           publisher'.of = publisher.of, publisher'.version = publisher.version, publisher'.step # "REST",
           publisher.of \notin meddled /\ WholeSoFar => WholeSoFar'
    PROVE  ScaffoldInv'
<1>1. Scaf!TypeOK'
  BY DEF ScaffoldInv, Scaf!TypeOK
<1>2. PublisherHasPending'
  BY DEF ScaffoldInv, PublisherHasPending, Busy
<1>3. (Busy /\ publisher.of \notin meddled => WholeSoFar)'
  BY DEF ScaffoldInv, Busy
<1>4. Scaf!CompletedIsWhole'
  <2>1. publisher.of \in Operation /\ operation[publisher.of].status = "PENDING"
    BY DEF ScaffoldInv, PublisherHasPending
  <2> QED BY <2>1 DEF ScaffoldInv, Scaf!CompletedIsWhole
<1> QED BY <1>1, <1>2, <1>3, <1>4 DEF ScaffoldInv

\* Steps that look at the target and leave it as it is.
LEMMA LookStep ==
    ASSUME ScaffoldBounds, ScaffoldInv,
           Scaf!Prepare \/ Scaf!Verified \/ Scaf!Marker \/ \E f \in scafFile : Scaf!VerifyOrCreate(f)
    PROVE  ScaffoldInv'
<1>1. Busy /\ UNCHANGED <<operation, scafTarget, meddled, scafPhase>>
  BY DEF Scaf!Prepare, Scaf!Verified, Scaf!Marker, Scaf!VerifyOrCreate, Busy
<1>2. publisher \in [of : Operation \cup {"NONE"}, version : 0 .. scafMaxVersion + 2, step : Scaf!Step,
                     path : Scaf!Path, fresh : BOOLEAN, todo : SUBSET scafFile]
      /\ scafTarget \in [Operation -> Scaf!Target] /\ publisher.of \in Operation
  BY <1>1, ScaffoldFacts DEF ScaffoldInv, PublisherHasPending
<1>3. ASSUME NEW step \in Scaf!Step, Scaf!Goto(step)
      PROVE  /\ publisher' \in [of : Operation \cup {"NONE"}, version : 0 .. scafMaxVersion + 2, step : Scaf!Step,
                                path : Scaf!Path, fresh : BOOLEAN, todo : SUBSET scafFile]
             /\ publisher'.of = publisher.of /\ publisher'.version = publisher.version /\ publisher'.step = step
             /\ publisher'.path = publisher.path /\ publisher'.fresh = publisher.fresh /\ publisher'.todo = publisher.todo
  BY <1>2, <1>3 DEF Scaf!Goto
<1>4. CASE Scaf!Prepare
  <2>1. PICK step \in {"CLAIM", "FILES", "FAIL"} : Scaf!Goto(step) /\ (step = "FILES" => Scaf!Here.at["MARKER"] = "WHOLE")
    BY <1>4 DEF Scaf!Prepare
  <2>2. WholeSoFar => WholeSoFar'
    BY <1>1, <1>3, <1>4, <2>1 DEF WholeSoFar, Scaf!Step, Scaf!Here, Scaf!Of, Scaf!Prepare
  <2> QED BY <1>1, <1>2, <1>3, <2>1, <2>2, PublisherGoesOn DEF Scaf!Step
<1>5. CASE Scaf!Verified
  <2>1. Scaf!Goto("TREE")
    BY <1>5 DEF Scaf!Verified
  <2>2. WholeSoFar => WholeSoFar'
    BY <1>1, <1>3, <1>5, <2>1 DEF WholeSoFar, Scaf!Step, Scaf!Verified
  <2> QED BY <1>1, <1>2, <1>3, <2>1, <2>2, PublisherGoesOn DEF Scaf!Step
<1>6. CASE Scaf!Marker
  <2>1. PICK step \in {"COMPLETE", "FAIL"} : Scaf!Goto(step)
    BY <1>6 DEF Scaf!Marker
  <2>2. WholeSoFar => WholeSoFar'
    BY <1>1, <1>3, <1>6, <2>1 DEF WholeSoFar, Scaf!Step, Scaf!Marker
  <2> QED BY <1>1, <1>2, <1>3, <2>1, <2>2, PublisherGoesOn DEF Scaf!Step
<1>7. ASSUME NEW f \in scafFile, Scaf!VerifyOrCreate(f) PROVE ScaffoldInv'
  <2> DEFINE at == scafTarget[publisher.of].at[f]
  <2>1. publisher.step = "FILES"
        /\ publisher' = [publisher EXCEPT
                           !.todo = IF at = "WHOLE" \/ at = "NONE" THEN publisher.todo \ {f} ELSE publisher.todo,
                           !.path = f,
                           !.step = IF at = "WHOLE" THEN "FILES" ELSE IF at = "NONE" THEN "CREATE" ELSE "FAIL"]
    BY <1>7 DEF Scaf!VerifyOrCreate, Scaf!Acceptable, Scaf!Here, Scaf!Of
  <2>2. /\ publisher' \in [of : Operation \cup {"NONE"}, version : 0 .. scafMaxVersion + 2, step : Scaf!Step,
                           path : Scaf!Path, fresh : BOOLEAN, todo : SUBSET scafFile]
        /\ publisher'.of = publisher.of /\ publisher'.version = publisher.version
        /\ publisher'.step = (IF at = "WHOLE" THEN "FILES" ELSE IF at = "NONE" THEN "CREATE" ELSE "FAIL")
        /\ publisher'.path = f /\ publisher'.fresh = publisher.fresh
        /\ publisher'.todo = IF at = "WHOLE" \/ at = "NONE" THEN publisher.todo \ {f} ELSE publisher.todo
    BY <1>2, <2>1 DEF Scaf!Step, Scaf!Path
  <2>3. WholeSoFar => WholeSoFar'
    <3>1. CASE at = "WHOLE"
      <4>1. publisher'.step = "FILES" /\ publisher'.todo = publisher.todo \ {f} /\ scafTarget'[publisher'.of].at[f] = "WHOLE"
        BY <1>1, <2>2, <3>1
      <4> HIDE DEF at
      <4> QED BY <1>1, <2>1, <2>2, <4>1 DEF WholeSoFar
    <3>2. CASE at = "NONE"
      <4>1. publisher'.step = "CREATE" /\ publisher'.todo = publisher.todo \ {f} /\ publisher'.path = f
        BY <2>2, <3>2
      <4> HIDE DEF at
      <4> QED BY <1>1, <2>1, <2>2, <4>1 DEF WholeSoFar
    <3>3. CASE at \notin {"WHOLE", "NONE"}
      <4>1. publisher'.step = "FAIL"
        BY <2>2, <3>3
      <4> HIDE DEF at
      <4> QED BY <1>1, <2>1, <2>2, <4>1 DEF WholeSoFar
    <3> QED BY <3>1, <3>2, <3>3
  <2> QED BY <1>1, <1>2, <2>2, <2>3, PublisherGoesOn
<1> QED BY <1>4, <1>5, <1>6, <1>7

\* The directory is claimed, or its repository made: no file of it changes.
LEMMA DirectoryStep ==
    ASSUME ScaffoldBounds, ScaffoldInv, Scaf!Claim \/ Scaf!Tree
    PROVE  ScaffoldInv'
<1> DEFINE o == publisher.of
<1>1. Busy /\ UNCHANGED <<operation, meddled, scafPhase>>
  BY DEF Scaf!Claim, Scaf!Tree, Busy
<1>2. publisher \in [of : Operation \cup {"NONE"}, version : 0 .. scafMaxVersion + 2, step : Scaf!Step,
                     path : Scaf!Path, fresh : BOOLEAN, todo : SUBSET scafFile]
      /\ scafTarget \in [Operation -> Scaf!Target] /\ o \in Operation /\ scafTarget[o] \in Scaf!Target
  BY <1>1, ScaffoldFacts DEF ScaffoldInv, PublisherHasPending
<1>3. PICK here \in Scaf!Target :
        /\ scafTarget' = [scafTarget EXCEPT ![o] = here] \/ (scafTarget' = scafTarget /\ here = scafTarget[o])
        /\ here.at = scafTarget[o].at
        /\ \/ Scaf!Goto("FAIL")
           \/ publisher.step = "CLAIM" /\ publisher' = [publisher EXCEPT !.step = "CREATE", !.path = "MARKER"]
              /\ here.git = scafTarget[o].git
           \/ publisher.step = "TREE" /\ ~publisher.fresh /\ here.git = TRUE
              /\ publisher' = [publisher EXCEPT !.step = "FILES", !.todo = scafFile, !.fresh = TRUE]
           \/ publisher.step = "TREE" /\ publisher.fresh /\ Scaf!Goto("MARKER") /\ here = scafTarget[o]
        /\ Scaf!Goto("FAIL") => here = scafTarget[o]
  <2>1. CASE scafTarget' = scafTarget /\ Scaf!Goto("FAIL")
    BY <1>2, <2>1
  <2>2. CASE scafTarget' = scafTarget /\ Scaf!Goto("MARKER") /\ publisher.step = "TREE" /\ publisher.fresh
    BY <1>2, <2>2 DEF Scaf!Goto
  <2>3. CASE publisher.step = "CLAIM" /\ publisher' = [publisher EXCEPT !.step = "CREATE", !.path = "MARKER"]
             /\ scafTarget' = [scafTarget EXCEPT ![o].directory = TRUE]
    <3> DEFINE here == [scafTarget[o] EXCEPT !.directory = TRUE]
    <3>1. here \in Scaf!Target /\ here.at = scafTarget[o].at /\ here.git = scafTarget[o].git
      BY <1>2 DEF Scaf!Target
    <3>2. scafTarget' = [scafTarget EXCEPT ![o] = here]
      BY <2>3
    <3>3. ~Scaf!Goto("FAIL")
      BY <1>2, <2>3 DEF Scaf!Goto
    <3> HIDE DEF here
    <3> QED BY <2>3, <3>1, <3>2, <3>3
  <2>4. CASE publisher.step = "TREE" /\ ~publisher.fresh /\ scafTarget' = [scafTarget EXCEPT ![o].git = TRUE]
             /\ publisher' = [publisher EXCEPT !.step = "FILES", !.todo = scafFile, !.fresh = TRUE]
    <3> DEFINE here == [scafTarget[o] EXCEPT !.git = TRUE]
    <3>1. here \in Scaf!Target /\ here.at = scafTarget[o].at /\ here.git = TRUE
      BY <1>2 DEF Scaf!Target
    <3>2. scafTarget' = [scafTarget EXCEPT ![o] = here]
      BY <2>4
    <3>3. ~Scaf!Goto("FAIL")
      BY <1>2, <2>4 DEF Scaf!Goto
    <3> HIDE DEF here
    <3> QED BY <2>4, <3>1, <3>2, <3>3
  <2> QED BY <2>1, <2>2, <2>3, <2>4 DEF Scaf!Claim, Scaf!Tree, Scaf!Here, Scaf!Of
<1>4. scafTarget' \in [Operation -> Scaf!Target] /\ scafTarget'[o] = here /\ \A x \in Operation : x # o => scafTarget'[x] = scafTarget[x]
  BY <1>2, <1>3
<1>5. CASE Scaf!Goto("FAIL")
  <2>1. /\ publisher' \in [of : Operation \cup {"NONE"}, version : 0 .. scafMaxVersion + 2, step : Scaf!Step,
                           path : Scaf!Path, fresh : BOOLEAN, todo : SUBSET scafFile]
        /\ publisher'.of = o /\ publisher'.version = publisher.version /\ publisher'.step = "FAIL"
        /\ publisher'.fresh = publisher.fresh
    BY <1>2, <1>5 DEF Scaf!Goto, Scaf!Step
  <2>2. WholeSoFar => WholeSoFar'
    BY <1>3, <1>4, <1>5, <2>1 DEF WholeSoFar
  <2> QED BY <1>1, <1>4, <2>1, <2>2, PublisherGoesOn
<1>6. CASE publisher.step = "CLAIM" /\ publisher' = [publisher EXCEPT !.step = "CREATE", !.path = "MARKER"]
           /\ here.git = scafTarget[o].git
  <2>1. /\ publisher' \in [of : Operation \cup {"NONE"}, version : 0 .. scafMaxVersion + 2, step : Scaf!Step,
                           path : Scaf!Path, fresh : BOOLEAN, todo : SUBSET scafFile]
        /\ publisher'.of = o /\ publisher'.version = publisher.version /\ publisher'.step = "CREATE"
        /\ publisher'.path = "MARKER" /\ publisher'.fresh = publisher.fresh /\ publisher'.todo = publisher.todo
    BY <1>2, <1>6 DEF Scaf!Step, Scaf!Path
  <2>2. WholeSoFar => WholeSoFar'
    BY <1>4, <1>6, <2>1 DEF WholeSoFar
  <2> QED BY <1>1, <1>4, <2>1, <2>2, PublisherGoesOn
<1>7. CASE publisher.step = "TREE" /\ here.git = TRUE
           /\ publisher' = [publisher EXCEPT !.step = "FILES", !.todo = scafFile, !.fresh = TRUE]
  <2>1. /\ publisher' \in [of : Operation \cup {"NONE"}, version : 0 .. scafMaxVersion + 2, step : Scaf!Step,
                           path : Scaf!Path, fresh : BOOLEAN, todo : SUBSET scafFile]
        /\ publisher'.of = o /\ publisher'.version = publisher.version /\ publisher'.step = "FILES"
        /\ publisher'.fresh = TRUE /\ publisher'.todo = scafFile
    BY <1>2, <1>7 DEF Scaf!Step
  <2>2. WholeSoFar => WholeSoFar'
    BY <1>3, <1>4, <1>7, <2>1 DEF WholeSoFar
  <2> QED BY <1>1, <1>4, <2>1, <2>2, PublisherGoesOn
<1>8. CASE publisher.step = "TREE" /\ publisher.fresh /\ Scaf!Goto("MARKER") /\ here = scafTarget[o]
  <2>1. /\ publisher' \in [of : Operation \cup {"NONE"}, version : 0 .. scafMaxVersion + 2, step : Scaf!Step,
                           path : Scaf!Path, fresh : BOOLEAN, todo : SUBSET scafFile]
        /\ publisher'.of = o /\ publisher'.version = publisher.version /\ publisher'.step = "MARKER"
        /\ publisher'.fresh = publisher.fresh /\ publisher'.todo = publisher.todo
    BY <1>2, <1>8 DEF Scaf!Goto, Scaf!Step
  <2>2. WholeSoFar => WholeSoFar'
    BY <1>4, <1>8, <2>1 DEF WholeSoFar
  <2> QED BY <1>1, <1>4, <2>1, <2>2, PublisherGoesOn
<1> QED BY <1>3, <1>5, <1>6, <1>7, <1>8

\* A file is created, or filled.
LEMMA FileStep ==
    ASSUME ScaffoldBounds, ScaffoldInv, Scaf!Create \/ Scaf!Fill
    PROVE  ScaffoldInv'
<1> DEFINE o == publisher.of
           p == publisher.path
<1>1. Busy /\ UNCHANGED <<operation, meddled, scafPhase>>
  BY DEF Scaf!Create, Scaf!Fill, Busy
<1>2. publisher \in [of : Operation \cup {"NONE"}, version : 0 .. scafMaxVersion + 2, step : Scaf!Step,
                     path : Scaf!Path, fresh : BOOLEAN, todo : SUBSET scafFile]
      /\ scafTarget \in [Operation -> Scaf!Target] /\ o \in Operation /\ p \in Scaf!Path
      /\ scafTarget[o].at \in [Scaf!Path -> Scaf!Content] /\ "MARKER" \in Scaf!Path /\ scafFile \subseteq Scaf!Path
  BY <1>1, ScaffoldFacts DEF ScaffoldInv, PublisherHasPending
<1>3. PICK step \in {"FILL", "FILES", "FAIL"} : Scaf!Goto(step)
  BY DEF Scaf!Create, Scaf!Fill
<1>4. /\ publisher' \in [of : Operation \cup {"NONE"}, version : 0 .. scafMaxVersion + 2, step : Scaf!Step,
                         path : Scaf!Path, fresh : BOOLEAN, todo : SUBSET scafFile]
      /\ publisher'.of = o /\ publisher'.version = publisher.version /\ publisher'.step = step
      /\ publisher'.path = p /\ publisher'.fresh = publisher.fresh /\ publisher'.todo = publisher.todo
  BY <1>2, <1>3 DEF Scaf!Goto, Scaf!Step
<1>5. CASE scafTarget' = scafTarget /\ step = "FAIL"
  <2>1. WholeSoFar => WholeSoFar'
    BY <1>4, <1>5 DEF WholeSoFar
  <2> QED BY <1>1, <1>2, <1>4, <1>5, <2>1, PublisherGoesOn
<1>6. CASE Scaf!Create /\ scafTarget' = [scafTarget EXCEPT ![o].at[p] = "PART"] /\ step = "FILL"
  <2>1. /\ scafTarget' \in [Operation -> Scaf!Target] /\ scafTarget'[o].at[p] = "PART"
        /\ \A q \in Scaf!Path : q # p => scafTarget'[o].at[q] = scafTarget[o].at[q]
        /\ scafTarget'[o].git = scafTarget[o].git
        /\ \A x \in Operation : x # o => scafTarget'[x] = scafTarget[x]
    <3>1. PathBecomes(o, p, "PART") /\ "PART" \in Scaf!Content
      BY <1>6 DEF PathBecomes, Scaf!Content
    <3> QED BY <1>2, <3>1, PathWritten
  <2>2. publisher.step = "CREATE"
    BY <1>6 DEF Scaf!Create
  <2>3. WholeSoFar => WholeSoFar'
    BY <1>2, <1>4, <1>6, <2>1, <2>2 DEF WholeSoFar
  <2> QED BY <1>1, <1>4, <2>1, <2>3, PublisherGoesOn
<1>7. CASE Scaf!Fill /\ step = "FILES"
           /\ scafTarget' = [scafTarget EXCEPT ![o].at[p] = IF scafTarget[o].at[p] = "PART" THEN "WHOLE" ELSE scafTarget[o].at[p]]
  <2> DEFINE c == IF scafTarget[o].at[p] = "PART" THEN "WHOLE" ELSE scafTarget[o].at[p]
  <2>1. c \in Scaf!Content /\ (scafTarget[o].at[p] = "PART" => c = "WHOLE")
    BY <1>2 DEF Scaf!Content
  <2>2. PathBecomes(o, p, c)
    BY <1>7 DEF PathBecomes
  <2> HIDE DEF c
  <2>3. /\ scafTarget' \in [Operation -> Scaf!Target] /\ scafTarget'[o].at[p] = c
        /\ \A q \in Scaf!Path : q # p => scafTarget'[o].at[q] = scafTarget[o].at[q]
        /\ scafTarget'[o].git = scafTarget[o].git
        /\ \A x \in Operation : x # o => scafTarget'[x] = scafTarget[x]
    BY <1>2, <2>1, <2>2, PathWritten
  <2>4. publisher.step = "FILL"
    BY <1>7 DEF Scaf!Fill
  <2>5. WholeSoFar => WholeSoFar'
    BY <1>2, <1>4, <1>7, <2>1, <2>3, <2>4 DEF WholeSoFar
  <2> QED BY <1>1, <1>4, <2>3, <2>5, PublisherGoesOn
<1>8. (scafTarget' = scafTarget /\ step = "FAIL")
      \/ (Scaf!Create /\ scafTarget' = [scafTarget EXCEPT ![o].at[p] = "PART"] /\ step = "FILL")
      \/ (Scaf!Fill /\ step = "FILES"
           /\ scafTarget' = [scafTarget EXCEPT ![o].at[p] = IF scafTarget[o].at[p] = "PART" THEN "WHOLE" ELSE scafTarget[o].at[p]])
  <2>1. ASSUME NEW other, Scaf!Goto(other) PROVE step = other
    <3>1. [publisher EXCEPT !.step = other].step = other
      BY <1>2
    <3> QED BY <1>4, <2>1, <3>1 DEF Scaf!Goto
  <2> QED BY <2>1 DEF Scaf!Create, Scaf!Fill, Scaf!Creatable, Scaf!Here, Scaf!Of
<1> QED BY <1>5, <1>6, <1>7, <1>8

\* The operation is settled: completed with a whole directory, unless somebody wrote into it.
LEMMA SettleOperation ==
    ASSUME ScaffoldBounds, ScaffoldInv, Scaf!Settle
    PROVE  ScaffoldInv'
<1> DEFINE o == publisher.of
<1>1. /\ publisher.step \in {"COMPLETE", "FAIL"} /\ Busy /\ UNCHANGED <<scafTarget, meddled, scafPhase>>
      /\ publisher' = Scaf!Rest /\ operation' = [operation EXCEPT ![o] = Scaf!Settled]
  BY DEF Scaf!Settle, Scaf!Of, Busy
<1>2. /\ o \in Operation /\ operation[o].status = "PENDING" /\ operation[o].version = publisher.version
      /\ operation[o].version <= scafMaxVersion + 1 /\ operation[o].version \in Nat /\ scafMaxVersion \in Nat
      /\ operation \in [Operation -> Scaf!Row]
  BY <1>1, ScaffoldFacts DEF ScaffoldInv, PublisherHasPending
<1>3. /\ Scaf!Settled \in Scaf!Row /\ Scaf!Settled.status # "PENDING"
      /\ (Scaf!Settled.project = "ACTIVE") <=> (Scaf!Settled.status = "COMPLETED")
      /\ (Scaf!Settled.status = "COMPLETED") => publisher.step = "COMPLETE"
  <2>1. publisher.version + 1 \in 0 .. scafMaxVersion + 2
    BY <1>2
  <2> QED BY <2>1 DEF Scaf!Settled, Scaf!Row
<1>4. operation' \in [Operation -> Scaf!Row] /\ operation'[o] = Scaf!Settled
      /\ \A x \in Operation : x # o => operation'[x] = operation[x]
  BY <1>1, <1>2, <1>3
<1>5. publisher' \in [of : Operation \cup {"NONE"}, version : 0 .. scafMaxVersion + 2, step : Scaf!Step,
                      path : Scaf!Path, fresh : BOOLEAN, todo : SUBSET scafFile]
  BY <1>1 DEF Scaf!Rest, ScaffoldBounds, Scaf!Step, Scaf!Path
<1>6. ~Busy'
  BY <1>1 DEF Busy, Scaf!Rest
<1>7. Scaf!TypeOK'
  BY <1>1, <1>3, <1>4, <1>5 DEF ScaffoldInv, Scaf!TypeOK
<1>8. PublisherHasPending'
  BY <1>1, <1>3, <1>4, <1>6 DEF ScaffoldInv, PublisherHasPending
<1>9. Scaf!CompletedIsWhole'
  <2>1. ASSUME NEW x \in Operation \ meddled, operation'[x].status = "COMPLETED"
        PROVE  scafTarget[x].git /\ \A p \in Scaf!Path : scafTarget[x].at[p] = "WHOLE"
    <3>1. CASE x # o
      BY <1>4, <2>1, <3>1 DEF ScaffoldInv, Scaf!CompletedIsWhole
    <3>2. CASE x = o
      <4>1. publisher.step = "COMPLETE" /\ WholeSoFar
        BY <1>1, <1>3, <1>4, <2>1, <3>2 DEF ScaffoldInv
      <4>2. scafTarget[o].git /\ scafTarget[o].at["MARKER"] = "WHOLE" /\ \A f \in scafFile : scafTarget[o].at[f] = "WHOLE"
        BY <4>1 DEF WholeSoFar
      <4> QED BY <3>2, <4>2 DEF Scaf!Path
    <3> QED BY <3>1, <3>2
  <2> QED BY <1>1, <2>1 DEF Scaf!CompletedIsWhole
<1> QED BY <1>6, <1>7, <1>8, <1>9 DEF ScaffoldInv

\* The invariant outlives a step in which nothing changes.
LEMMA ScaffoldStutter ==
    ASSUME ScaffoldInv, UNCHANGED Scaf!vars PROVE ScaffoldInv'
  BY DEF Scaf!vars, ScaffoldInv, Scaf!TypeOK, PublisherHasPending, Busy, WholeSoFar, Scaf!CompletedIsWhole

----
\* The invariant of Scaffold, for any operations and any files of the template.
THEOREM ScaffoldInvariant ==
    ASSUME ScaffoldBounds PROVE Scaf!Spec => []ScaffoldInv
<1>1. Scaf!Init => ScaffoldInv
  BY ScaffoldInit
<1>2. ScaffoldInv /\ [Scaf!Next]_(Scaf!vars) => ScaffoldInv'
  BY OwnerAsks, DaemonStep, MeddleStep, TakeStep, LookStep, DirectoryStep, FileStep, SettleOperation, ScaffoldStutter
     DEF Scaf!Next, Scaf!PublisherStep
<1> QED BY <1>1, <1>2, PTL DEF Scaf!Spec

\* A scaffold that completed is whole, unless somebody wrote into it.
THEOREM CompletedStaysWhole ==
    ASSUME ScaffoldBounds PROVE Scaf!Spec => []Scaf!CompletedIsWhole
<1>1. ScaffoldInv => Scaf!CompletedIsWhole
  BY DEF ScaffoldInv
<1> QED BY <1>1, ScaffoldInvariant, PTL

\* No step writes over what somebody else wrote.
LEMMA StepKeeps ==
    ASSUME ScaffoldBounds, ScaffoldInv, [Scaf!Next]_(Scaf!vars)
    PROVE  Scaf!Keeps
<1>1. scafTarget \in [Operation -> Scaf!Target]
      /\ \A o \in Operation : scafTarget[o] \in Scaf!Target /\ scafTarget[o].at \in [Scaf!Path -> Scaf!Content]
  BY ScaffoldFacts
<1>2. CASE scafTarget' = scafTarget
  BY <1>2 DEF Scaf!Keeps
<1>3. ASSUME NEW o \in Operation, NEW p \in Scaf!Path, NEW c \in Scaf!Content,
             PathBecomes(o, p, c), scafTarget[o].at[p] = "OTHER" => c = "OTHER"
      PROVE  Scaf!Keeps
  <2>1. /\ scafTarget'[o].at[p] = c /\ \A q \in Scaf!Path : q # p => scafTarget'[o].at[q] = scafTarget[o].at[q]
        /\ \A x \in Operation : x # o => scafTarget'[x] = scafTarget[x]
    BY <1>3, PathWritten
  <2> QED BY <1>3, <2>1 DEF Scaf!Keeps
<1>4. ASSUME Scaf!Create \/ Scaf!Fill PROVE Scaf!Keeps
  <2>1. Busy /\ publisher.of \in Operation /\ publisher.path \in Scaf!Path
    BY <1>4, ScaffoldFacts DEF Scaf!Create, Scaf!Fill, Busy, ScaffoldInv, PublisherHasPending
  <2> DEFINE c == IF scafTarget[publisher.of].at[publisher.path] = "PART" THEN "WHOLE" ELSE scafTarget[publisher.of].at[publisher.path]
  <2>2. c \in Scaf!Content /\ "PART" \in Scaf!Content /\ (scafTarget[publisher.of].at[publisher.path] = "OTHER" => c = "OTHER")
    BY <1>1, <2>1 DEF Scaf!Content
  <2>3. CASE Scaf!Create
    <3>1. scafTarget' = scafTarget \/ (scafTarget[publisher.of].at[publisher.path] = "NONE"
                                       /\ scafTarget' = [scafTarget EXCEPT ![publisher.of].at[publisher.path] = "PART"])
      BY <2>3 DEF Scaf!Create, Scaf!Creatable, Scaf!Here, Scaf!Of
    <3>2. scafTarget' = scafTarget \/ (scafTarget[publisher.of].at[publisher.path] = "NONE"
                                       /\ PathBecomes(publisher.of, publisher.path, "PART"))
      BY <3>1 DEF PathBecomes
    <3> QED BY <1>2, <1>3, <2>1, <2>2, <3>2
  <2>4. CASE Scaf!Fill
    <3>1. scafTarget' = scafTarget \/ PathBecomes(publisher.of, publisher.path, c)
      BY <2>4 DEF Scaf!Fill, Scaf!Of, PathBecomes
    <3> HIDE DEF c
    <3> QED BY <1>2, <1>3, <2>1, <2>2, <3>1
  <2> QED BY <1>4, <2>3, <2>4
<1>5. ASSUME Scaf!Claim \/ Scaf!Tree PROVE Scaf!Keeps
  <2>1. Busy /\ publisher.of \in Operation
    BY <1>5 DEF Scaf!Claim, Scaf!Tree, Busy, ScaffoldInv, PublisherHasPending
  <2>2. CASE scafTarget' = [scafTarget EXCEPT ![publisher.of].directory = TRUE]
    BY <1>1, <2>1, <2>2 DEF Scaf!Keeps, Scaf!Target
  <2>3. CASE scafTarget' = [scafTarget EXCEPT ![publisher.of].git = TRUE]
    BY <1>1, <2>1, <2>3 DEF Scaf!Keeps, Scaf!Target
  <2> QED BY <1>2, <1>5, <2>2, <2>3 DEF Scaf!Claim, Scaf!Tree, Scaf!Of
<1>6. ASSUME NEW o \in Operation, Scaf!Meddle(o) PROVE Scaf!Keeps
  <2>1. CASE scafTarget' = [scafTarget EXCEPT ![o].directory = TRUE, ![o].more = TRUE]
    BY <1>1, <2>1 DEF Scaf!Keeps, Scaf!Target
  <2>2. ASSUME NEW p \in Scaf!Path, scafTarget' = [scafTarget EXCEPT ![o].directory = TRUE, ![o].at[p] = "OTHER"]
        PROVE  Scaf!Keeps
    BY <1>1, <2>2 DEF Scaf!Keeps, Scaf!Target
  <2> QED BY <1>6, <2>1, <2>2 DEF Scaf!Meddle
<1>7. QED
  BY <1>2, <1>4, <1>5, <1>6 DEF Scaf!Next, Scaf!PublisherStep, Scaf!vars, Scaf!Request, Scaf!Retry, Scaf!Take,
     Scaf!Prepare, Scaf!Verified, Scaf!Marker, Scaf!Settle, Scaf!VerifyOrCreate, Scaf!Restart, Scaf!Listen

\* What somebody else wrote into the directory is not written over.
THEOREM OthersStayKept ==
    ASSUME ScaffoldBounds PROVE Scaf!Spec => [][Scaf!Keeps]_(Scaf!vars)
<1>1. ScaffoldInv /\ [Scaf!Next]_(Scaf!vars) => Scaf!Keeps
  BY StepKeeps
<1> QED BY <1>1, ScaffoldInvariant, PTL DEF Scaf!Spec

----
(* Allowance *)

CONSTANTS Projects, MaxReads, MaxTime, Ttl
VARIABLES time, reads, tracked, rows, answers, late
Quota == INSTANCE Allowance

\* The bounds of the behaviours, and the TTL.
AllowanceBounds == MaxReads \in Nat /\ MaxTime \in Nat /\ Ttl \in Nat

\* A read that somebody waits for, or gave up on, was begun; one whose child is gone has its result.
ReadsAreBegun ==
    /\ \A p \in Projects : asking[p] # 0 => reads[asking[p]].child # "NONE"
    /\ tracked # 0 => reads[tracked].child # "NONE"
    /\ \A r \in late : reads[r].child # "NONE"
    /\ \A r \in Quota!Reads : reads[r].child = "CLOSED" /\ reads[r].directory => reads[r].result \in Quota!Live \cup Quota!Gone
    /\ \A r \in Quota!Reads : reads[r].child \in {"RUNNING", "ASKED_TO_STOP"} => ~reads[r].settled

AllowanceInv ==
    /\ Quota!TypeOK
    /\ ReadsAreBegun
    /\ Quota!ReadIsShared

----
ReadRow == [child : {"NONE", "RUNNING", "ASKED_TO_STOP", "CLOSED", "LOST"}, step : {"NONE", "STARTED", "INITIALIZED"},
            at : Quota!Times, result : Quota!Live \cup Quota!Gone \cup {Quota!NoRow}, directory : BOOLEAN, settled : BOOLEAN]

\* The types of what a step finds.
LEMMA AllowanceFacts ==
    ASSUME AllowanceBounds, AllowanceInv
    PROVE  /\ reads \in [Quota!Reads -> ReadRow] /\ tracked \in 0 .. MaxReads /\ asking \in [Projects -> 0 .. MaxReads]
           /\ late \subseteq Quota!Reads /\ time \in Quota!Times
           /\ rows \in [Projects -> Quota!Live \cup Quota!Gone \cup {Quota!NoRow}]
           /\ Quota!Reads = 1 .. MaxReads /\ MaxReads \in Nat /\ MaxTime \in Nat /\ Ttl \in Nat
           /\ \A p \in Projects : asking[p] # 0 => asking[p] \in Quota!Reads
           /\ tracked # 0 => tracked \in Quota!Reads
<1>1. MaxReads \in Nat /\ MaxTime \in Nat /\ Ttl \in Nat /\ Quota!Reads = 1 .. MaxReads
  BY DEF AllowanceBounds, Quota!Reads
<1>2. /\ reads \in [Quota!Reads -> ReadRow] /\ tracked \in 0 .. MaxReads /\ asking \in [Projects -> 0 .. MaxReads]
      /\ late \subseteq Quota!Reads /\ time \in Quota!Times
      /\ rows \in [Projects -> Quota!Live \cup Quota!Gone \cup {Quota!NoRow}]
  BY DEF AllowanceInv, Quota!TypeOK, ReadRow
<1>3. \A p \in Projects : asking[p] # 0 => asking[p] \in Quota!Reads
  BY <1>1, <1>2
<1>4. tracked # 0 => tracked \in Quota!Reads
  BY <1>1, <1>2
<1> QED BY <1>1, <1>2, <1>3, <1>4

\* No row is an observation.
LEMMA NoRowIsNone == Quota!NoRow \notin Quota!Live \cup Quota!Gone
  BY DEF Quota!NoRow, Quota!Live, Quota!Gone

\* A read that was not begun is none.
LEMMA NoReadIsNone ==
    ASSUME AllowanceBounds
    PROVE  /\ Quota!NoRead \in ReadRow /\ Quota!NoRead.child = "NONE" /\ Quota!NoRead.settled = FALSE
           /\ Quota!NoRead.directory = FALSE
  BY DEF Quota!NoRead, ReadRow, Quota!Times, AllowanceBounds

\* The invariant holds before the first read.
LEMMA AllowanceInit == ASSUME AllowanceBounds, Quota!Init PROVE AllowanceInv
<1>1. \A r \in Quota!Reads : reads[r] \in ReadRow /\ reads[r].child = "NONE" /\ reads[r].settled = FALSE
  BY NoReadIsNone DEF Quota!Init
<1>2. Quota!TypeOK
  <2>1. reads \in [Quota!Reads -> ReadRow]
    BY <1>1 DEF Quota!Init
  <2>2. 0 \in Quota!Times /\ 0 \in 0 .. MaxReads
    BY DEF Quota!Times, AllowanceBounds
  <2> QED BY <2>1, <2>2 DEF Quota!Init, Quota!TypeOK, ReadRow
<1>3. ReadsAreBegun
  BY <1>1 DEF Quota!Init, ReadsAreBegun
<1>4. Quota!ReadIsShared
  BY <1>1 DEF Quota!Init, Quota!ReadIsShared, Quota!Reads
<1> QED BY <1>2, <1>3, <1>4 DEF AllowanceInv

----
(* The rows and the answers *)

\* What a row keeps is an observation, and no older than the row.
LEMMA KeepsIsTyped ==
    ASSUME NEW aRow \in Quota!Live \cup Quota!Gone \cup {Quota!NoRow}, NEW snapshot \in Quota!Live \cup Quota!Gone,
           AllowanceBounds
    PROVE  /\ Quota!Keeps(aRow, snapshot) \in Quota!Live \cup Quota!Gone
           /\ aRow # Quota!NoRow => Quota!Keeps(aRow, snapshot).at >= aRow.at
<1>1. aRow # Quota!NoRow => aRow.at \in Nat
  BY DEF Quota!Live, Quota!Gone, Quota!Times, AllowanceBounds
<1>2. snapshot.at \in Nat
  BY DEF Quota!Live, Quota!Gone, Quota!Times, AllowanceBounds
<1> QED BY <1>1, <1>2 DEF Quota!Keeps

\* What is told of a row is an observation, and one with capacity is of now.
LEMMA ProjectionIsTyped ==
    ASSUME AllowanceBounds, AllowanceInv, NEW aRow \in Quota!Live \cup Quota!Gone \cup {Quota!NoRow}, NEW found \in BOOLEAN
    PROVE  /\ Quota!Projection(aRow, found) \in Quota!Live \cup Quota!Gone
           /\ Quota!Projection(aRow, found).kind = "LIVE" =>
                 Quota!Projection(aRow, found).resets > time /\ time - Quota!Projection(aRow, found).at <= Ttl
<1>1. time \in Quota!Times /\ time \in Nat /\ MaxTime \in Nat /\ Ttl \in Nat
  BY AllowanceFacts DEF Quota!Times
<1>2. [kind |-> "UNAVAILABLE", at |-> time] \in Quota!Gone
  BY <1>1 DEF Quota!Gone
<1>3. CASE ~found \/ aRow = Quota!NoRow
  BY <1>2, <1>3 DEF Quota!Projection
<1>4. CASE found /\ aRow # Quota!NoRow /\ aRow.kind = "LIVE" /\ Quota!IsOver(aRow)
  <2>1. aRow \in Quota!Live
    BY <1>4 DEF Quota!Live, Quota!Gone
  <2>2. [aRow EXCEPT !.kind = "STALE"] \in Quota!Live /\ [aRow EXCEPT !.kind = "STALE"].kind = "STALE"
    BY <2>1 DEF Quota!Live
  <2> QED BY <1>4, <2>2 DEF Quota!Projection
<1>5. CASE found /\ aRow # Quota!NoRow /\ ~(aRow.kind = "LIVE" /\ Quota!IsOver(aRow))
  <2>1. Quota!Projection(aRow, found) = aRow
    BY <1>5 DEF Quota!Projection
  <2>2. ASSUME aRow.kind = "LIVE" PROVE aRow.resets > time /\ time - aRow.at <= Ttl
    <3>1. aRow \in Quota!Live
      BY <1>5, <2>2 DEF Quota!Live, Quota!Gone
    <3>2. aRow.resets \in Nat /\ aRow.at \in Nat
      BY <1>1, <3>1 DEF Quota!Live, Quota!Times
    <3> QED BY <1>1, <1>5, <2>2, <3>2 DEF Quota!IsOver
  <2> QED BY <1>5, <2>1, <2>2
<1> QED BY <1>3, <1>4, <1>5

\* An answer keeps the types, and no row goes back.
LEMMA AnswerStep ==
    ASSUME AllowanceBounds, AllowanceInv, NEW waiting \in SUBSET Projects, NEW snapshot \in Quota!Live \cup Quota!Gone,
           Quota!Answer(waiting, snapshot)
    PROVE  /\ rows' \in [Projects -> Quota!Live \cup Quota!Gone \cup {Quota!NoRow}]
           /\ answers' \subseteq Quota!Live \cup Quota!Gone
           /\ Quota!AllowanceAdvances
<1>1. rows \in [Projects -> Quota!Live \cup Quota!Gone \cup {Quota!NoRow}]
  BY AllowanceFacts
<1>2. rows' = [p \in Projects |-> IF p \in waiting THEN Quota!Keeps(rows[p], snapshot) ELSE rows[p]]
  BY DEF Quota!Answer
<1>3. ASSUME NEW p \in Projects
      PROVE  /\ rows'[p] \in Quota!Live \cup Quota!Gone \cup {Quota!NoRow}
             /\ rows[p] # Quota!NoRow => rows'[p].at >= rows[p].at
  <2>1. rows[p] \in Quota!Live \cup Quota!Gone \cup {Quota!NoRow}
    BY <1>1
  <2>2. CASE p \in waiting
    BY <1>2, <2>1, <2>2, KeepsIsTyped
  <2>3. CASE p \notin waiting
    <3>1. rows'[p] = rows[p]
      BY <1>2, <2>3
    <3>2. rows[p] # Quota!NoRow => rows[p].at \in Nat
      BY <2>1 DEF Quota!Live, Quota!Gone, Quota!Times, AllowanceBounds
    <3> QED BY <2>1, <3>1, <3>2
  <2> QED BY <2>2, <2>3
<1>4. PICK found \in BOOLEAN : answers' = {Quota!Projection(rows'[p], found) : p \in waiting}
  BY DEF Quota!Answer
<1>5. \A a \in answers' : /\ a \in Quota!Live \cup Quota!Gone
                          /\ a.kind = "LIVE" => a.resets > time /\ time - a.at <= Ttl
  <2>1. ASSUME NEW a \in answers'
        PROVE  a \in Quota!Live \cup Quota!Gone /\ (a.kind = "LIVE" => a.resets > time /\ time - a.at <= Ttl)
    <3>1. PICK p \in Projects : a = Quota!Projection(rows'[p], found)
      BY <1>4
    <3>2. PICK aRow \in Quota!Live \cup Quota!Gone \cup {Quota!NoRow} : aRow = rows'[p]
      BY <1>3
    <3>3. a = Quota!Projection(aRow, found)
      BY <3>1, <3>2
    <3> QED BY <3>3, ProjectionIsTyped
  <2> QED BY <2>1
<1>6. rows' \in [Projects -> Quota!Live \cup Quota!Gone \cup {Quota!NoRow}]
  BY <1>2, <1>3
<1> QED BY <1>3, <1>5, <1>6 DEF Quota!AllowanceAdvances

\* Without an answer and with the rows as they are, nothing went back.
LEMMA NothingAnswered ==
    ASSUME AllowanceBounds, AllowanceInv, rows' = rows, answers' = {}
    PROVE  Quota!AllowanceAdvances
<1>1. \A p \in Projects : rows[p] # Quota!NoRow => rows[p].at \in Nat
  BY AllowanceFacts DEF Quota!Live, Quota!Gone, Quota!Times
<1> QED BY <1>1 DEF Quota!AllowanceAdvances

----
(* The steps *)

\* Time goes on.
LEMMA TimeStep ==
    ASSUME AllowanceBounds, AllowanceInv, Quota!Tick
    PROVE  AllowanceInv' /\ Quota!AllowanceAdvances
<1>1. time' \in Quota!Times /\ answers' = {} /\ UNCHANGED <<reads, tracked, asking, rows, late>>
  BY AllowanceFacts DEF Quota!Tick, Quota!Times
<1>2. AllowanceInv'
  BY <1>1 DEF AllowanceInv, Quota!TypeOK, ReadsAreBegun, Quota!ReadIsShared
<1> QED BY <1>1, <1>2, NothingAnswered

\* The row is shown.
LEMMA ShowStep ==
    ASSUME AllowanceBounds, AllowanceInv, NEW p \in Projects, Quota!Show(p)
    PROVE  AllowanceInv' /\ Quota!AllowanceAdvances
<1>1. UNCHANGED <<time, reads, tracked, asking, rows, late>>
  BY DEF Quota!Show
<1>2. PICK found \in BOOLEAN : answers' = {Quota!Projection(rows[p], found)}
  BY DEF Quota!Show
<1>3. rows[p] \in Quota!Live \cup Quota!Gone \cup {Quota!NoRow}
  BY AllowanceFacts
<1>4. \A a \in answers' : a \in Quota!Live \cup Quota!Gone /\ (a.kind = "LIVE" => a.resets > time /\ time - a.at <= Ttl)
  BY <1>2, <1>3, ProjectionIsTyped
<1>5. AllowanceInv'
  BY <1>1, <1>4 DEF AllowanceInv, Quota!TypeOK, ReadsAreBegun, Quota!ReadIsShared
<1>6. \A q \in Projects : rows[q] # Quota!NoRow => rows[q].at \in Nat
  BY AllowanceFacts DEF Quota!Live, Quota!Gone, Quota!Times
<1> QED BY <1>1, <1>4, <1>5, <1>6 DEF Quota!AllowanceAdvances

\* A refresh joins the read in flight, or begins one that nobody had begun.
LEMMA RefreshStep ==
    ASSUME AllowanceBounds, AllowanceInv, NEW p \in Projects, Quota!Refresh(p)
    PROVE  AllowanceInv' /\ Quota!AllowanceAdvances
<1>1. answers' = {} /\ UNCHANGED <<time, rows, late>> /\ asking[p] = 0
  BY DEF Quota!Refresh
<1>2. /\ reads \in [Quota!Reads -> ReadRow] /\ tracked \in 0 .. MaxReads /\ asking \in [Projects -> 0 .. MaxReads]
      /\ late \subseteq Quota!Reads /\ time \in Quota!Times /\ Quota!Reads = 1 .. MaxReads /\ MaxReads \in Nat
      /\ \A q \in Projects : asking[q] # 0 => asking[q] \in Quota!Reads
      /\ tracked # 0 => tracked \in Quota!Reads
  BY AllowanceFacts
<1>3. CASE tracked # 0
  <2>1. asking' = [asking EXCEPT ![p] = tracked] /\ UNCHANGED <<reads, tracked>>
    BY <1>3 DEF Quota!Refresh
  <2>2. asking' \in [Projects -> 0 .. MaxReads] /\ asking'[p] = tracked /\ \A q \in Projects : q # p => asking'[q] = asking[q]
    BY <1>2, <2>1
  <2>3. Quota!TypeOK'
    BY <1>1, <2>1, <2>2 DEF AllowanceInv, Quota!TypeOK
  <2>4. ReadsAreBegun'
    BY <1>1, <1>3, <2>1, <2>2 DEF AllowanceInv, ReadsAreBegun
  <2>5. Quota!ReadIsShared'
    BY <1>1, <2>1, <2>2 DEF AllowanceInv, Quota!ReadIsShared
  <2> QED BY <1>1, <2>3, <2>4, <2>5, NothingAnswered DEF AllowanceInv
<1>4. CASE tracked = 0
  <2> DEFINE aRow == [Quota!NoRead EXCEPT !.child = "RUNNING", !.step = "STARTED", !.at = time, !.directory = TRUE]
  <2>1. PICK r \in Quota!Reads : /\ reads[r] = Quota!NoRead /\ reads' = [reads EXCEPT ![r] = aRow]
                                 /\ tracked' = r /\ asking' = [asking EXCEPT ![p] = r]
    BY <1>4 DEF Quota!Refresh
  <2>2. /\ aRow \in ReadRow /\ aRow.child = "RUNNING" /\ aRow.settled = FALSE
    BY <1>2 DEF ReadRow, Quota!NoRead
  <2> HIDE DEF aRow
  <2>3. reads' \in [Quota!Reads -> ReadRow] /\ reads'[r] = aRow /\ \A q \in Quota!Reads : q # r => reads'[q] = reads[q]
    BY <1>2, <2>1, <2>2
  <2>4. r \in 0 .. MaxReads /\ r # 0
    BY <1>2
  <2>5. asking' \in [Projects -> 0 .. MaxReads] /\ asking'[p] = r /\ \A q \in Projects : q # p => asking'[q] = asking[q]
    BY <1>2, <2>1, <2>4
  <2>6. r \notin late /\ \A q \in Projects : asking[q] # r
    <3>1. reads[r].child = "NONE"
      BY <2>1, NoReadIsNone
    <3> QED BY <2>4, <3>1 DEF AllowanceInv, ReadsAreBegun
  <2>7. Quota!TypeOK'
    BY <1>1, <2>1, <2>3, <2>4, <2>5 DEF AllowanceInv, Quota!TypeOK, ReadRow
  <2>8. ReadsAreBegun'
    <3>1. \A q \in Projects : asking'[q] # 0 => reads'[asking'[q]].child # "NONE"
      BY <1>2, <2>2, <2>3, <2>5 DEF AllowanceInv, ReadsAreBegun
    <3>2. \A q \in late : reads'[q].child # "NONE"
      BY <1>2, <2>2, <2>3 DEF AllowanceInv, ReadsAreBegun
    <3>3. \A q \in Quota!Reads :
             /\ reads'[q].child = "CLOSED" /\ reads'[q].directory => reads'[q].result \in Quota!Live \cup Quota!Gone
             /\ reads'[q].child \in {"RUNNING", "ASKED_TO_STOP"} => ~reads'[q].settled
      BY <2>2, <2>3 DEF AllowanceInv, ReadsAreBegun
    <3>4. reads'[tracked'].child # "NONE"
      BY <2>1, <2>2, <2>3
    <3> QED BY <1>1, <3>1, <3>2, <3>3, <3>4 DEF ReadsAreBegun
  <2>9. Quota!ReadIsShared'
    <3>1. \A q \in Projects : asking'[q] \in Quota!Reads \ late => asking'[q] = r
      <4>1. \A q \in Projects : asking[q] \in Quota!Reads \ late => asking[q] = 0
        BY <1>4 DEF AllowanceInv, Quota!ReadIsShared
      <4>2. 0 \notin Quota!Reads
        BY <1>2
      <4> QED BY <2>5, <4>1, <4>2
    <3>2. ~reads'[r].settled
      BY <2>2, <2>3
    <3>3. \A q \in Quota!Reads : reads'[q].settled => reads'[q].child = "CLOSED" /\ ~reads'[q].directory
      BY <2>2, <2>3 DEF AllowanceInv, Quota!ReadIsShared
    <3> QED BY <1>1, <2>1, <3>1, <3>2, <3>3 DEF Quota!ReadIsShared, Quota!Reads
  <2> QED BY <1>1, <2>7, <2>8, <2>9, NothingAnswered DEF AllowanceInv
<1> QED BY <1>3, <1>4

\* The child of a read goes on: the read is begun, and not settled.
LEMMA ChildGoesOn ==
    ASSUME AllowanceBounds, AllowanceInv, NEW r \in Quota!Reads, NEW aRow \in ReadRow,
           reads' = [reads EXCEPT ![r] = aRow], aRow.child # "NONE", ~aRow.settled,
           aRow.child = "CLOSED" => aRow.result \in Quota!Live \cup Quota!Gone,
           answers' = {}, UNCHANGED <<time, tracked, asking, rows, late>>
    PROVE  AllowanceInv' /\ Quota!AllowanceAdvances
<1>1. /\ reads \in [Quota!Reads -> ReadRow] /\ tracked \in 0 .. MaxReads /\ asking \in [Projects -> 0 .. MaxReads]
      /\ late \subseteq Quota!Reads
      /\ \A q \in Projects : asking[q] # 0 => asking[q] \in Quota!Reads
      /\ tracked # 0 => tracked \in Quota!Reads
  BY AllowanceFacts
<1>2. reads' \in [Quota!Reads -> ReadRow] /\ reads'[r] = aRow /\ \A q \in Quota!Reads : q # r => reads'[q] = reads[q]
  BY <1>1
<1>3. Quota!TypeOK'
  BY <1>2 DEF AllowanceInv, Quota!TypeOK, ReadRow
<1>4. ReadsAreBegun'
  BY <1>1, <1>2 DEF AllowanceInv, ReadsAreBegun
<1>5. Quota!ReadIsShared'
  BY <1>1, <1>2 DEF AllowanceInv, Quota!ReadIsShared
<1> QED BY <1>3, <1>4, <1>5, NothingAnswered DEF AllowanceInv

\* What a read can come to is an observation.
LEMMA ResultsAreObservations ==
    ASSUME AllowanceBounds, AllowanceInv, NEW r \in Quota!Reads
    PROVE  Quota!Failure(r) \in Quota!Gone /\ Quota!Result(r) \subseteq Quota!Live
<1>1. reads[r].at \in Quota!Times /\ reads[r].at \in Nat /\ reads[r].at <= MaxTime /\ MaxTime \in Nat
  BY AllowanceFacts DEF ReadRow, Quota!Times
<1>2. reads[r].at + 1 \in 1 .. MaxTime + 1 /\ MaxTime + 1 \in 1 .. MaxTime + 1
  BY <1>1
<1> QED BY <1>1, <1>2 DEF Quota!Failure, Quota!Gone, Quota!Result, Quota!Live

\* The child of a read says something, or ends.
LEMMA ChildStep ==
    ASSUME AllowanceBounds, AllowanceInv, NEW r \in Quota!Reads,
           Quota!Initialized(r) \/ Quota!Answered(r) \/ Quota!Failed(r) \/ Quota!Closed(r)
    PROVE  AllowanceInv' /\ Quota!AllowanceAdvances
<1>1. /\ answers' = {} /\ UNCHANGED <<time, tracked, asking, rows, late>>
      /\ reads[r].child \in {"RUNNING", "ASKED_TO_STOP"}
  BY DEF Quota!Initialized, Quota!Answered, Quota!Failed, Quota!Closed, Quota!Undecided
<1>2. reads \in [Quota!Reads -> ReadRow] /\ reads[r] \in ReadRow /\ reads[r].settled = FALSE
  <2>1. reads \in [Quota!Reads -> ReadRow]
    BY AllowanceFacts
  <2>2. ~reads[r].settled
    BY <1>1 DEF AllowanceInv, ReadsAreBegun
  <2> QED BY <2>1, <2>2 DEF ReadRow
<1>3. CASE Quota!Initialized(r)
  <2> DEFINE aRow == [reads[r] EXCEPT !.step = "INITIALIZED"]
  <2>1. aRow \in ReadRow /\ aRow.child = reads[r].child /\ aRow.settled = FALSE
    BY <1>2 DEF ReadRow
  <2>2. reads' = [reads EXCEPT ![r] = aRow]
    BY <1>3 DEF Quota!Initialized
  <2> HIDE DEF aRow
  <2> QED BY <1>1, <2>1, <2>2, ChildGoesOn
<1>4. CASE Quota!Answered(r) \/ Quota!Failed(r)
  <2>1. PICK result \in Quota!Live \cup Quota!Gone : reads' = [reads EXCEPT ![r] = Quota!Decided(r, result)]
    BY <1>4, ResultsAreObservations DEF Quota!Answered, Quota!Failed
  <2> DEFINE aRow == Quota!Decided(r, result)
  <2>2. aRow \in ReadRow /\ aRow.child = "ASKED_TO_STOP" /\ aRow.settled = FALSE
    BY <1>2 DEF ReadRow, Quota!Decided
  <2> HIDE DEF aRow
  <2>3. reads' = [reads EXCEPT ![r] = aRow]
    BY <2>1 DEF aRow
  <2> QED BY <1>1, <2>2, <2>3, ChildGoesOn
<1>5. CASE Quota!Closed(r)
  <2>1. PICK result \in Quota!Live \cup Quota!Gone : reads' = [reads EXCEPT ![r].child = "CLOSED", ![r].result = result]
    <3>1. reads[r].result # Quota!NoRow => reads[r].result \in Quota!Live \cup Quota!Gone
      BY <1>2 DEF ReadRow
    <3> QED BY <1>5, <3>1, ResultsAreObservations DEF Quota!Closed
  <2> DEFINE aRow == [reads[r] EXCEPT !.child = "CLOSED", !.result = result]
  <2>2. aRow \in ReadRow /\ aRow.child = "CLOSED" /\ aRow.settled = FALSE /\ aRow.result = result
    BY <1>2 DEF ReadRow
  <2>3. reads' = [reads EXCEPT ![r] = aRow]
    BY <1>2, <2>1
  <2> HIDE DEF aRow
  <2> QED BY <1>1, <2>2, <2>3, ChildGoesOn
<1> QED BY <1>3, <1>4, <1>5

\* A refresh stops waiting: the next does not join its read.
LEMMA TimeoutStep ==
    ASSUME AllowanceBounds, AllowanceInv, NEW p \in Projects, Quota!Timeout(p)
    PROVE  AllowanceInv' /\ Quota!AllowanceAdvances
<1> DEFINE r == asking[p]
<1>1. /\ r # 0 /\ asking' = [asking EXCEPT ![p] = 0] /\ tracked' = Quota!Untracked(r) /\ late' = late \cup {r}
      /\ UNCHANGED <<time, reads>> /\ Quota!Answer({p}, [kind |-> "UNAVAILABLE", at |-> time])
  BY DEF Quota!Timeout
<1>2. /\ reads \in [Quota!Reads -> ReadRow] /\ tracked \in 0 .. MaxReads /\ asking \in [Projects -> 0 .. MaxReads]
      /\ late \subseteq Quota!Reads /\ time \in Quota!Times /\ MaxReads \in Nat
      /\ \A q \in Projects : asking[q] # 0 => asking[q] \in Quota!Reads
  BY AllowanceFacts
<1>3. r \in Quota!Reads /\ reads[r].child # "NONE"
  BY <1>1, <1>2 DEF AllowanceInv, ReadsAreBegun
<1>4. [kind |-> "UNAVAILABLE", at |-> time] \in Quota!Live \cup Quota!Gone
  BY <1>2 DEF Quota!Gone
<1>5. /\ rows' \in [Projects -> Quota!Live \cup Quota!Gone \cup {Quota!NoRow}]
      /\ answers' \subseteq Quota!Live \cup Quota!Gone /\ Quota!AllowanceAdvances
  BY <1>1, <1>4, AnswerStep
<1>6. /\ asking' \in [Projects -> 0 .. MaxReads] /\ asking'[p] = 0 /\ \A q \in Projects : q # p => asking'[q] = asking[q]
      /\ tracked' = (IF tracked = r THEN 0 ELSE tracked) /\ tracked' \in 0 .. MaxReads /\ late' \subseteq Quota!Reads
  BY <1>1, <1>2, <1>3 DEF Quota!Untracked
<1> HIDE DEF r
<1>7. Quota!TypeOK'
  BY <1>1, <1>5, <1>6 DEF AllowanceInv, Quota!TypeOK
<1>8. ReadsAreBegun'
  BY <1>1, <1>3, <1>6 DEF AllowanceInv, ReadsAreBegun
<1>9. Quota!ReadIsShared'
  <2>1. ASSUME NEW q \in Projects, asking'[q] \in Quota!Reads \ late' PROVE tracked' = asking'[q]
    <3>1. q # p /\ asking'[q] = asking[q] /\ asking[q] # r
      BY <1>1, <1>6, <2>1 DEF Quota!Reads
    <3>2. tracked = asking[q]
      BY <1>1, <2>1, <3>1 DEF AllowanceInv, Quota!ReadIsShared
    <3> QED BY <1>6, <3>1, <3>2
  <2> QED BY <1>1, <1>6, <2>1 DEF AllowanceInv, Quota!ReadIsShared
<1> QED BY <1>5, <1>7, <1>8, <1>9 DEF AllowanceInv

\* The promise settles.
LEMMA SettledStep ==
    ASSUME AllowanceBounds, AllowanceInv, NEW r \in Quota!Reads, Quota!Settled(r)
    PROVE  AllowanceInv' /\ Quota!AllowanceAdvances
<1> DEFINE aRow == [Quota!NoRead EXCEPT !.child = "CLOSED", !.settled = TRUE]
<1>1. /\ reads[r].child = "CLOSED" /\ reads[r].directory /\ reads' = [reads EXCEPT ![r] = aRow]
      /\ tracked' = Quota!Untracked(r) /\ asking' = [p \in Projects |-> IF asking[p] = r THEN 0 ELSE asking[p]]
      /\ Quota!Answer(Quota!Waiting(r), reads[r].result) /\ UNCHANGED <<time, late>>
  BY DEF Quota!Settled
<1>2. /\ reads \in [Quota!Reads -> ReadRow] /\ tracked \in 0 .. MaxReads /\ asking \in [Projects -> 0 .. MaxReads]
      /\ late \subseteq Quota!Reads /\ MaxReads \in Nat
      /\ \A q \in Projects : asking[q] # 0 => asking[q] \in Quota!Reads
      /\ tracked # 0 => tracked \in Quota!Reads
  BY AllowanceFacts
<1>3. aRow \in ReadRow /\ aRow.child = "CLOSED" /\ aRow.settled = TRUE /\ aRow.directory = FALSE
  BY NoReadIsNone DEF ReadRow
<1> HIDE DEF aRow
<1>4. reads' \in [Quota!Reads -> ReadRow] /\ reads'[r] = aRow /\ \A q \in Quota!Reads : q # r => reads'[q] = reads[q]
  BY <1>1, <1>2, <1>3
<1>5. /\ rows' \in [Projects -> Quota!Live \cup Quota!Gone \cup {Quota!NoRow}]
      /\ answers' \subseteq Quota!Live \cup Quota!Gone /\ Quota!AllowanceAdvances
  <2>1. reads[r].result \in Quota!Live \cup Quota!Gone
    BY <1>1 DEF AllowanceInv, ReadsAreBegun
  <2>2. Quota!Waiting(r) \in SUBSET Projects
    BY DEF Quota!Waiting
  <2> QED BY <1>1, <2>1, <2>2, AnswerStep
<1>6. /\ asking' \in [Projects -> 0 .. MaxReads]
      /\ \A q \in Projects : asking'[q] # r \/ r = 0
      /\ \A q \in Projects : asking'[q] = asking[q] \/ asking'[q] = 0
      /\ tracked' = (IF tracked = r THEN 0 ELSE tracked) /\ tracked' \in 0 .. MaxReads
  BY <1>1, <1>2 DEF Quota!Untracked
<1>7. r # 0
  BY DEF Quota!Reads
<1>8. Quota!TypeOK'
  BY <1>1, <1>4, <1>5, <1>6 DEF AllowanceInv, Quota!TypeOK, ReadRow
<1>9. ReadsAreBegun'
  <2>1. \A q \in Quota!Reads : reads[q].child # "NONE" => reads'[q].child # "NONE"
    BY <1>3, <1>4
  <2>2. \A q \in Quota!Reads :
           /\ reads'[q].child = "CLOSED" /\ reads'[q].directory => reads'[q].result \in Quota!Live \cup Quota!Gone
           /\ reads'[q].child \in {"RUNNING", "ASKED_TO_STOP"} => ~reads'[q].settled
    BY <1>3, <1>4 DEF AllowanceInv, ReadsAreBegun
  <2> QED BY <1>1, <1>2, <1>6, <2>1, <2>2 DEF AllowanceInv, ReadsAreBegun
<1>10. Quota!ReadIsShared'
  <2>1. ASSUME NEW q \in Projects, asking'[q] \in Quota!Reads \ late PROVE tracked' = asking'[q]
    <3>1. asking'[q] = asking[q] /\ asking[q] # r
      BY <1>6, <1>7, <2>1 DEF Quota!Reads
    <3>2. tracked = asking[q]
      BY <2>1, <3>1 DEF AllowanceInv, Quota!ReadIsShared
    <3> QED BY <1>6, <3>1, <3>2
  <2>2. tracked' # 0 => ~reads'[tracked'].settled
    <3>1. SUFFICES ASSUME tracked' # 0 PROVE ~reads'[tracked'].settled
      OBVIOUS
    <3>2. tracked' = tracked /\ tracked # r /\ tracked # 0 /\ tracked \in Quota!Reads
      BY <1>2, <1>6, <3>1
    <3> QED BY <1>4, <3>2 DEF AllowanceInv, Quota!ReadIsShared
  <2>3. \A q \in Quota!Reads : reads'[q].settled => reads'[q].child = "CLOSED" /\ ~reads'[q].directory
    BY <1>3, <1>4 DEF AllowanceInv, Quota!ReadIsShared
  <2> QED BY <1>1, <2>1, <2>2, <2>3 DEF Quota!ReadIsShared, Quota!Reads
<1> QED BY <1>5, <1>8, <1>9, <1>10 DEF AllowanceInv

\* The daemon ends with the reads it made.
LEMMA RestartReads ==
    ASSUME AllowanceBounds, AllowanceInv, Quota!Restart
    PROVE  AllowanceInv' /\ Quota!AllowanceAdvances
<1> DEFINE aRow == [Quota!NoRead EXCEPT !.child = "LOST", !.directory = TRUE]
<1>1. /\ tracked' = 0 /\ asking' = [p \in Projects |-> 0] /\ answers' = {} /\ UNCHANGED <<time, rows, late>>
      /\ reads' = [r \in Quota!Reads |-> IF reads[r] = Quota!NoRead \/ reads[r].settled THEN reads[r] ELSE aRow]
  BY DEF Quota!Restart
<1>2. reads \in [Quota!Reads -> ReadRow] /\ late \subseteq Quota!Reads
  BY AllowanceFacts
<1>3. aRow \in ReadRow /\ aRow.child = "LOST" /\ aRow.settled = FALSE
  BY NoReadIsNone DEF ReadRow
<1> HIDE DEF aRow
<1>4. reads' \in [Quota!Reads -> ReadRow] /\ \A r \in Quota!Reads : reads'[r] = reads[r] \/ reads'[r] = aRow
  BY <1>1, <1>2, <1>3
<1>5. Quota!TypeOK'
  <2>1. 0 \in 0 .. MaxReads
    BY DEF AllowanceBounds
  <2> QED BY <1>1, <1>4, <2>1 DEF AllowanceInv, Quota!TypeOK, ReadRow
<1>6. ReadsAreBegun'
  BY <1>1, <1>2, <1>3, <1>4 DEF AllowanceInv, ReadsAreBegun
<1>7. Quota!ReadIsShared'
  <2>1. \A q \in Quota!Reads : reads'[q].settled => reads'[q].child = "CLOSED" /\ ~reads'[q].directory
    BY <1>3, <1>4 DEF AllowanceInv, Quota!ReadIsShared
  <2>2. \A q \in Projects : asking'[q] \notin Quota!Reads
    BY <1>1 DEF Quota!Reads
  <2> QED BY <1>1, <2>1, <2>2 DEF Quota!ReadIsShared, Quota!Reads
<1> QED BY <1>1, <1>5, <1>6, <1>7, NothingAnswered DEF AllowanceInv

\* A step in which nothing changes.
LEMMA AllowanceStutter ==
    ASSUME AllowanceInv, UNCHANGED Quota!vars PROVE AllowanceInv'
  BY DEF Quota!vars, AllowanceInv, Quota!TypeOK, ReadsAreBegun, Quota!ReadIsShared

----
\* No step breaks the invariant, or sets a row back.
LEMMA AllowanceStep ==
    ASSUME AllowanceBounds, AllowanceInv, Quota!Next
    PROVE  AllowanceInv' /\ Quota!AllowanceAdvances
  BY TimeStep, RestartReads, RefreshStep, TimeoutStep, ShowStep, ChildStep, SettledStep DEF Quota!Next

\* The invariant of Allowance, for any Projects and any number of reads.
THEOREM AllowanceInvariant ==
    ASSUME AllowanceBounds PROVE Quota!Spec => []AllowanceInv
<1>1. Quota!Init => AllowanceInv
  BY AllowanceInit
<1>2. AllowanceInv /\ [Quota!Next]_(Quota!vars) => AllowanceInv'
  BY AllowanceStep, AllowanceStutter
<1> QED BY <1>1, <1>2, PTL DEF Quota!Spec

\* Refreshes that wait, wait for the one read in flight, and no read is begun beside one.
THEOREM ReadStaysShared ==
    ASSUME AllowanceBounds PROVE Quota!Spec => []Quota!ReadIsShared
<1>1. AllowanceInv => Quota!ReadIsShared
  BY DEF AllowanceInv
<1> QED BY <1>1, AllowanceInvariant, PTL

\* No step sets a row back, and none tells of capacity from what is over.
THEOREM AllowanceSteps ==
    ASSUME AllowanceBounds PROVE Quota!Spec => [][Quota!AllowanceAdvances]_(Quota!vars)
<1>1. AllowanceInv /\ [Quota!Next]_(Quota!vars) => Quota!AllowanceAdvances \/ UNCHANGED Quota!vars
  BY AllowanceStep
<1> QED BY <1>1, AllowanceInvariant, PTL DEF Quota!Spec

----
(* OwnerSession *)

CONSTANTS MaxStarts, Life
VARIABLES daemon, session, cookie, tab, idle, unsaid
Owner == INSTANCE OwnerSession

\* The bounds of the behaviours, and the life of a session.
OwnerBounds == MaxStarts \in Nat \ {0} /\ Life \in Nat

\* The session is no older than the time since it was used, and half of its life.
AgeFits ==
    session.live => session.age <= idle + Life \div 2

\* What the browser holds is the session, as old as it is, unless a renewal did not reach it.
CookieFits ==
    session.live /\ ~unsaid => cookie.of = daemon.start /\ cookie.age = session.age

\* No tab has the grant of a daemon that has not started.
GivenIsPast == \A t \in Tab : tab[t].given <= daemon.start

OwnerInv ==
    /\ Owner!TypeOK
    /\ AgeFits
    /\ CookieFits
    /\ GivenIsPast
    /\ Owner!TokenIsKept

----
\* Half of a life is no more than what is left of it after half of it.
LEMMA HalfOfLife ==
    ASSUME OwnerBounds PROVE Life \div 2 \in Nat /\ Life \div 2 + Life \div 2 <= Life
  BY DEF OwnerBounds

SessionType == [live : BOOLEAN, age : 0 .. Life]
CookieType == [of : Owner!Start, age : 0 .. Life]
OwnerRowType == [open : BOOLEAN, given : Owner!Start, pending : Owner!Start, csrf : Owner!Start,
            shows : {"LOADING", "CONNECTED", "RETRY", "REOPEN", "MESSAGE"}]

\* The types of what a step finds.
LEMMA OwnerFacts ==
    ASSUME OwnerBounds, OwnerInv
    PROVE  /\ daemon \in [start : 1 .. MaxStarts, grant : {"FRESH", "USED", "EXPIRED"}]
           /\ daemon.start \in Owner!Start /\ daemon.start \in 1 .. MaxStarts /\ daemon.start # 0
           /\ session \in SessionType /\ cookie \in CookieType
           /\ tab \in [Tab -> OwnerRowType] /\ idle \in 0 .. Life /\ unsaid \in BOOLEAN
           /\ MaxStarts \in Nat /\ Life \in Nat
  BY DEF OwnerBounds, OwnerInv, Owner!TypeOK, Owner!Start, SessionType, CookieType, OwnerRowType

\* The invariant holds when the first daemon starts.
LEMMA OwnerInit == ASSUME OwnerBounds, Owner!Init PROVE OwnerInv
<1>1. 0 \in Owner!Start /\ Owner!Closed \in OwnerRowType /\ Owner!Closed.given = 0
  BY DEF OwnerBounds, Owner!Start, Owner!Closed, OwnerRowType
<1>2. tab \in [Tab -> OwnerRowType] /\ \A t \in Tab : tab[t].given = 0
  BY <1>1 DEF Owner!Init
<1>3. 0 \in 0 .. Life /\ 1 \in 1 .. MaxStarts
  BY DEF OwnerBounds
<1>4. /\ daemon \in [start : 1 .. MaxStarts, grant : {"FRESH", "USED", "EXPIRED"}] /\ daemon.start = 1
      /\ session \in SessionType /\ ~session.live /\ cookie \in CookieType
  BY <1>1, <1>3 DEF Owner!Init, SessionType, CookieType
<1>5. idle \in 0 .. Life /\ unsaid \in BOOLEAN
  BY <1>3 DEF Owner!Init
<1>6. Owner!TypeOK
  BY <1>2, <1>4, <1>5 DEF Owner!TypeOK, SessionType, CookieType, OwnerRowType
<1> QED BY <1>2, <1>4, <1>6 DEF OwnerInv, AgeFits, CookieFits, GivenIsPast, Owner!TokenIsKept

\* What holds of the session and of its cookie, and the types of it.
SessionFits ==
    /\ session \in SessionType /\ cookie \in CookieType /\ idle \in 0 .. Life /\ unsaid \in BOOLEAN
    /\ AgeFits /\ CookieFits

\* What holds of the tabs.
TabsFit ==
    /\ tab \in [Tab -> OwnerRowType]
    /\ GivenIsPast /\ Owner!TokenIsKept

\* What a step has to keep: the grant, the session with the cookie, and the tabs.
LEMMA OwnerInSum ==
    ASSUME daemon' \in [start : 1 .. MaxStarts, grant : {"FRESH", "USED", "EXPIRED"}], SessionFits', TabsFit'
    PROVE  OwnerInv'
  BY DEF OwnerInv, Owner!TypeOK, SessionFits, TabsFit, SessionType, CookieType, OwnerRowType, Owner!Start

\* The session stays as it is.
LEMMA SessionStays ==
    ASSUME OwnerBounds, OwnerInv, UNCHANGED <<session, cookie, unsaid, idle>>, daemon'.start = daemon.start
    PROVE  SessionFits'
<1>1. SessionFits
  BY OwnerFacts DEF OwnerInv, SessionFits
<1> QED BY <1>1 DEF SessionFits, AgeFits, CookieFits, CookieType, Owner!Start, SessionType

\* A request that is served prolongs the session when half of its life is over.
LEMMA RenewalStep ==
    ASSUME OwnerBounds, OwnerInv, NEW said \in BOOLEAN, Owner!Authorized, Owner!Renewal(said), idle' \in {0, idle},
           idle' = 0 \/ ~said, daemon'.start = daemon.start
    PROVE  SessionFits'
<1>1. /\ session \in SessionType /\ cookie \in CookieType /\ idle \in 0 .. Life /\ unsaid \in BOOLEAN
      /\ daemon.start \in Owner!Start /\ Life \in Nat
  BY OwnerFacts
<1>2. Life \div 2 \in Nat /\ Life \div 2 + Life \div 2 <= Life
  BY HalfOfLife
<1> DEFINE half == Life \div 2
<1>3. cookie.of = daemon.start /\ AgeFits /\ CookieFits
  BY DEF Owner!Authorized, OwnerInv
<1>4. CASE Owner!Slides
  <2>1. /\ session' = [session EXCEPT !.age = 0] /\ cookie' = IF said THEN [cookie EXCEPT !.age = 0] ELSE cookie
        /\ unsaid' = ~said
    BY <1>4 DEF Owner!Renewal
  <2>2. session' \in SessionType /\ session'.age = 0
    BY <1>1, <2>1 DEF SessionType
  <2>3. cookie' \in CookieType /\ cookie'.of = daemon.start /\ (said => cookie'.age = 0)
    BY <1>1, <1>3, <2>1 DEF CookieType
  <2>4. unsaid' \in BOOLEAN /\ (~unsaid' => said)
    BY <2>1
  <2>5. idle' \in 0 .. Life /\ 0 <= idle' + half
    <3>1. idle' \in 0 .. Life /\ half \in Nat
      BY <1>1, <1>2
    <3> HIDE DEF half
    <3>2. \A n, h \in Nat : 0 <= n + h
      OBVIOUS
    <3>3. idle' \in Nat
      BY <1>1, <3>1
    <3> QED BY <3>1, <3>2, <3>3
  <2> QED BY <2>2, <2>3, <2>4, <2>5 DEF SessionFits, AgeFits, CookieFits, Owner!Start, SessionType, CookieType
<1>5. CASE ~Owner!Slides
  <2>1. UNCHANGED <<session, cookie, unsaid>> /\ session.age <= half
    BY <1>1, <1>2, <1>5 DEF Owner!Renewal, Owner!Slides, SessionType
  <2>2. idle' \in 0 .. Life /\ session.age <= idle' + half
    BY <1>1, <1>2, <2>1 DEF SessionType
  <2> QED BY <1>1, <1>3, <2>1, <2>2 DEF SessionFits, AgeFits, CookieFits, SessionType, CookieType, Owner!Start
<1> QED BY <1>4, <1>5

\* A tab changes its row: it keeps the token that the daemon would take.
LEMMA RowStep ==
    ASSUME OwnerBounds, OwnerInv, NEW t \in Tab, NEW aRow \in OwnerRowType, Owner!Shows(t, aRow),
           aRow.given <= daemon.start, daemon'.start = daemon.start, daemon'.grant = "FRESH" => daemon.grant = "FRESH",
           aRow.given = daemon.start /\ daemon'.grant = "FRESH" => aRow.pending = daemon.start
    PROVE  TabsFit'
<1>1. tab \in [Tab -> OwnerRowType] /\ tab' = [tab EXCEPT ![t] = aRow]
  BY OwnerFacts DEF Owner!Shows
<1>2. tab' \in [Tab -> OwnerRowType] /\ tab'[t] = aRow /\ \A u \in Tab : u # t => tab'[u] = tab[u]
  BY <1>1
<1>3. GivenIsPast'
  BY <1>2 DEF GivenIsPast, OwnerInv
<1>4. Owner!TokenIsKept'
  BY <1>2 DEF Owner!TokenIsKept, OwnerInv
<1> QED BY <1>2, <1>3, <1>4 DEF TabsFit, OwnerRowType, Owner!Start

\* The tabs stay as they are, and no grant is made.
LEMMA OwnerRowsStay ==
    ASSUME OwnerBounds, OwnerInv, tab' = tab, daemon'.start = daemon.start,
           daemon'.grant = "FRESH" => daemon.grant = "FRESH"
    PROVE  TabsFit'
<1>1. tab' \in [Tab -> OwnerRowType]
  BY OwnerFacts
<1>2. GivenIsPast' /\ Owner!TokenIsKept'
  BY DEF OwnerInv, GivenIsPast, Owner!TokenIsKept
<1> QED BY <1>1, <1>2 DEF TabsFit, OwnerRowType, Owner!Start

\* The token of a tab is exchanged for the session: it is kept until the daemon is heard to have taken it.
LEMMA ExchangeStep ==
    ASSUME OwnerBounds, OwnerInv, NEW t \in Tab, NEW delivery \in Owner!Delivery, Owner!Exchange(t, delivery)
    PROVE  OwnerInv'
<1> DEFINE aRow == Owner!Exchanged(tab[t], Owner!Granted(t), delivery)
           taken == Owner!Granted(t) /\ Owner!Reached(delivery)
<1>1. /\ Owner!Shows(t, aRow) /\ tab[t].pending # 0
      /\ taken => Owner!Grants(Owner!Headers(delivery))
      /\ ~taken => Owner!Unmoved /\ UNCHANGED daemon
  BY DEF Owner!Exchange
<1>2. /\ tab[t] \in OwnerRowType /\ daemon \in [start : 1 .. MaxStarts, grant : {"FRESH", "USED", "EXPIRED"}]
      /\ daemon.start \in Owner!Start /\ daemon.start \in 1 .. MaxStarts
      /\ session \in SessionType /\ cookie \in CookieType /\ Life \in Nat /\ MaxStarts \in Nat
  BY OwnerFacts
<1>3. /\ tab[t].given <= daemon.start
      /\ tab[t].given = daemon.start /\ daemon.grant = "FRESH" => tab[t].pending = daemon.start
  BY DEF OwnerInv, GivenIsPast, Owner!TokenIsKept
<1>4. delivery \in {"UNSENT", "UNANSWERED", "HEADERS", "WHOLE"} /\ (Owner!Granted(t) \in BOOLEAN)
  BY DEF Owner!Delivery, Owner!Granted
<1>5. /\ aRow \in OwnerRowType /\ aRow.given = tab[t].given
      /\ aRow.pending = tab[t].pending \/ ~Owner!Granted(t) \/ taken
  <2>1. 0 \in Owner!Start
    BY <1>2 DEF Owner!Start
  <2>2. CASE ~Owner!Headers(delivery)
    <3>1. aRow = [tab[t] EXCEPT !.shows = "RETRY"]
      BY <2>2, Zenon DEF Owner!Exchanged, Owner!Failed, Owner!Headers
    <3> QED BY <1>2, <3>1 DEF OwnerRowType
  <2>3. CASE delivery = "WHOLE" /\ Owner!Granted(t)
    <3>1. aRow = [tab[t] EXCEPT !.pending = 0, !.csrf = daemon.start, !.shows = "LOADING"]
      BY <2>3 DEF Owner!Exchanged, Owner!Headers
    <3> QED BY <1>2, <2>1, <2>3, <3>1 DEF OwnerRowType, Owner!Reached
  <2>4. CASE delivery = "WHOLE" /\ ~Owner!Granted(t)
    <3>1. aRow = [tab[t] EXCEPT !.pending = 0, !.shows = "REOPEN"]
      BY <2>4 DEF Owner!Exchanged, Owner!Headers
    <3> QED BY <1>2, <2>1, <2>4, <3>1 DEF OwnerRowType
  <2>5. CASE delivery = "HEADERS" /\ Owner!Granted(t)
    <3>1. aRow = [tab[t] EXCEPT !.shows = "MESSAGE"]
      BY <2>5 DEF Owner!Exchanged, Owner!Headers
    <3> QED BY <1>2, <3>1 DEF OwnerRowType
  <2>6. CASE delivery = "HEADERS" /\ ~Owner!Granted(t)
    <3>1. aRow = [tab[t] EXCEPT !.pending = 0, !.shows = "MESSAGE"]
      BY <2>6 DEF Owner!Exchanged, Owner!Headers
    <3> QED BY <1>2, <2>1, <2>6, <3>1 DEF OwnerRowType
  <2> QED BY <1>4, <2>2, <2>3, <2>4, <2>5, <2>6 DEF Owner!Headers
<1> HIDE DEF aRow
<1>6. CASE taken
  <2>1. /\ daemon' = [daemon EXCEPT !.grant = "USED"] /\ session' = [live |-> TRUE, age |-> 0] /\ idle' = 0
        /\ cookie' = IF Owner!Headers(delivery) THEN [of |-> daemon.start, age |-> 0] ELSE cookie
        /\ unsaid' = ~Owner!Headers(delivery)
    BY <1>1, <1>6 DEF Owner!Grants
  <2>2. daemon' \in [start : 1 .. MaxStarts, grant : {"FRESH", "USED", "EXPIRED"}]
        /\ daemon'.start = daemon.start /\ daemon'.grant = "USED"
    BY <1>2, <2>1
  <2>3. 0 \in 0 .. Life /\ 0 <= 0 + Life \div 2
    BY <1>2, HalfOfLife
  <2>4. session' \in SessionType /\ session'.age = 0 /\ cookie' \in CookieType /\ idle' \in 0 .. Life
        /\ session'.age <= idle' + Life \div 2
    BY <1>2, <2>1, <2>3 DEF SessionType, CookieType
  <2>5. unsaid' \in BOOLEAN /\ (~unsaid' => cookie'.of = daemon.start /\ cookie'.age = 0)
    BY <2>1
  <2>6. SessionFits'
    BY <2>2, <2>4, <2>5 DEF SessionFits, AgeFits, CookieFits, SessionType, CookieType, Owner!Start
  <2>7. TabsFit'
    BY <1>1, <1>3, <1>5, <2>2, RowStep
  <2> QED BY <2>2, <2>6, <2>7, OwnerInSum
<1>7. CASE ~taken
  <2>1. UNCHANGED <<session, cookie, unsaid, idle, daemon>>
    BY <1>1, <1>7 DEF Owner!Unmoved
  <2>2. aRow.given = daemon.start /\ daemon.grant = "FRESH" => aRow.pending = daemon.start
    BY <1>3, <1>5, <1>7 DEF Owner!Granted
  <2>3. TabsFit'
    BY <1>1, <1>3, <1>5, <2>1, <2>2, RowStep
  <2> QED BY <1>2, <2>1, <2>3, SessionStays, OwnerInSum
<1> QED BY <1>6, <1>7

\* The owner asks for the state of the connection.
LEMMA StatusStep ==
    ASSUME OwnerBounds, OwnerInv, NEW t \in Tab, NEW delivery \in Owner!Delivery, Owner!Status(t, delivery)
    PROVE  OwnerInv'
<1>1. PICK aShown \in {"CONNECTED", "RETRY", "REOPEN", "MESSAGE"} : Owner!Shows(t, [tab[t] EXCEPT !.shows = aShown])
  <2> DEFINE aShown == CASE ~Owner!Headers(delivery) -> "RETRY"
                      [] delivery = "WHOLE" /\ Owner!Authorized -> "CONNECTED"
                      [] delivery = "WHOLE" /\ ~Owner!Authorized -> "REOPEN"
                      [] delivery = "HEADERS" -> "MESSAGE"
  <2>1. aShown \in {"CONNECTED", "RETRY", "REOPEN", "MESSAGE"}
    BY DEF Owner!Delivery, Owner!Headers
  <2>2. Owner!Shows(t, [tab[t] EXCEPT !.shows = aShown])
    BY DEF Owner!Status
  <2> QED BY <2>1, <2>2
<1>2. /\ tab[t] \in OwnerRowType /\ daemon \in [start : 1 .. MaxStarts, grant : {"FRESH", "USED", "EXPIRED"}]
      /\ tab[t].given <= daemon.start
      /\ tab[t].given = daemon.start /\ daemon.grant = "FRESH" => tab[t].pending = daemon.start
  BY OwnerFacts DEF OwnerInv, GivenIsPast, Owner!TokenIsKept
<1> DEFINE aRow == [tab[t] EXCEPT !.shows = aShown]
<1>3. aRow \in OwnerRowType /\ aRow.given = tab[t].given /\ aRow.pending = tab[t].pending
  BY <1>2 DEF OwnerRowType
<1>4. UNCHANGED daemon
  BY DEF Owner!Status
<1> HIDE DEF aRow
<1>5. TabsFit'
  <2>1. Owner!Shows(t, aRow)
    BY <1>1 DEF aRow
  <2> QED BY <1>2, <1>3, <1>4, <2>1, RowStep
<1>6. SessionFits'
  <2>1. CASE Owner!Authorized /\ Owner!Reached(delivery)
    <3>1. Owner!Renewal(Owner!Headers(delivery)) /\ idle' = 0 /\ Owner!Headers(delivery) \in BOOLEAN
      BY <2>1 DEF Owner!Status, Owner!Served, Owner!Headers
    <3> QED BY <1>4, <2>1, <3>1, RenewalStep
  <2>2. CASE ~(Owner!Authorized /\ Owner!Reached(delivery))
    BY <1>4, <2>2, SessionStays DEF Owner!Status, Owner!Unmoved
  <2> QED BY <2>1, <2>2
<1> QED BY <1>2, <1>4, <1>5, <1>6, OwnerInSum

\* A connected tab asks for something else, or for its stream.
LEMMA RequestStep ==
    ASSUME OwnerBounds, OwnerInv, NEW t \in Tab,
           Owner!Stream(t) \/ \E delivery \in Owner!Delivery, changes \in BOOLEAN : Owner!Request(t, delivery, changes)
    PROVE  OwnerInv'
<1>1. /\ Owner!Authorized /\ UNCHANGED <<daemon, tab>>
      /\ \E said \in BOOLEAN : Owner!Renewal(said) /\ (idle' = 0 \/ (idle' = idle /\ ~said))
  <2>1. CASE Owner!Stream(t)
    BY <2>1 DEF Owner!Stream
  <2>2. CASE \E delivery \in Owner!Delivery, changes \in BOOLEAN : Owner!Request(t, delivery, changes)
    <3>1. PICK delivery \in Owner!Delivery, changes \in BOOLEAN : Owner!Request(t, delivery, changes)
      BY <2>2
    <3>2. Owner!Headers(delivery) \in BOOLEAN
      BY DEF Owner!Headers
    <3> QED BY <3>1, <3>2 DEF Owner!Request, Owner!Served
  <2> QED BY <2>1, <2>2
<1>2. SessionFits'
  BY <1>1, RenewalStep
<1> QED BY <1>1, <1>2, OwnerRowsStay, OwnerInSum, OwnerFacts

\* The owner opens a tab, with the grant or without, loads it again, or closes it.
LEMMA OwnerStep ==
    ASSUME OwnerBounds, OwnerInv, NEW t \in Tab, Owner!Open(t) \/ Owner!Reload(t) \/ Owner!Close(t)
    PROVE  OwnerInv'
<1>1. /\ tab[t] \in OwnerRowType /\ daemon \in [start : 1 .. MaxStarts, grant : {"FRESH", "USED", "EXPIRED"}]
      /\ daemon.start \in Owner!Start /\ daemon.start \in 1 .. MaxStarts /\ MaxStarts \in Nat
  BY OwnerFacts
<1>2. 0 \in Owner!Start /\ Owner!Closed \in OwnerRowType /\ Owner!Closed.given = 0 /\ Owner!Closed.pending = 0
  BY <1>1 DEF Owner!Start, Owner!Closed, OwnerRowType
<1>3. PICK aRow \in OwnerRowType : Owner!Shows(t, aRow) /\ (aRow.given = 0 \/ (aRow.given = daemon.start /\ aRow.pending = daemon.start))
  <2>1. CASE Owner!Open(t)
    <3>1. PICK given \in {0, daemon.start} : Owner!Shows(t, [Owner!Closed EXCEPT !.open = TRUE, !.given = given, !.pending = given])
      BY <2>1 DEF Owner!Open
    <3>2. [Owner!Closed EXCEPT !.open = TRUE, !.given = given, !.pending = given] \in OwnerRowType
      BY <1>1, <1>2 DEF OwnerRowType
    <3>3. /\ [Owner!Closed EXCEPT !.open = TRUE, !.given = given, !.pending = given].given = given
          /\ [Owner!Closed EXCEPT !.open = TRUE, !.given = given, !.pending = given].pending = given
      BY DEF Owner!Closed
    <3> QED BY <3>1, <3>2, <3>3
  <2>2. CASE Owner!Reload(t)
    <3>1. [tab[t] EXCEPT !.given = 0, !.pending = 0, !.shows = "LOADING"] \in OwnerRowType
      BY <1>1, <1>2 DEF OwnerRowType
    <3>2. [tab[t] EXCEPT !.given = 0, !.pending = 0, !.shows = "LOADING"].given = 0
      BY <1>1 DEF OwnerRowType
    <3> QED BY <2>2, <3>1, <3>2 DEF Owner!Reload
  <2>3. CASE Owner!Close(t)
    BY <1>2, <2>3 DEF Owner!Close
  <2> QED BY <2>1, <2>2, <2>3
<1>4. UNCHANGED <<session, cookie, unsaid, idle, daemon>>
  BY DEF Owner!Open, Owner!Reload, Owner!Close, Owner!Unmoved
<1>5. aRow.given <= daemon.start /\ (aRow.given = daemon.start => aRow.pending = daemon.start)
  BY <1>1, <1>3
<1>6. TabsFit'
  BY <1>3, <1>4, <1>5, RowStep
<1> QED BY <1>1, <1>4, <1>6, SessionStays, OwnerInSum

\* Time passes.
LEMMA TickStep == ASSUME OwnerBounds, OwnerInv, Owner!Tick PROVE OwnerInv'
<1>1. /\ session \in SessionType /\ cookie \in CookieType /\ idle \in 0 .. Life /\ unsaid \in BOOLEAN /\ Life \in Nat
      /\ AgeFits /\ CookieFits
  BY OwnerFacts DEF OwnerInv
<1>2. /\ session' = Owner!Older(session) /\ cookie' = Owner!Older(cookie)
      /\ idle' = IF idle = Life THEN idle ELSE idle + 1
      /\ UNCHANGED <<daemon, tab, unsaid>>
  BY DEF Owner!Tick
<1>3. /\ session' \in SessionType /\ session'.live = session.live
      /\ session'.age = IF session.age = Life THEN Life ELSE session.age + 1
  BY <1>1, <1>2 DEF Owner!Older, SessionType
<1>4. /\ cookie' \in CookieType /\ cookie'.of = cookie.of
      /\ cookie'.age = IF cookie.age = Life THEN Life ELSE cookie.age + 1
  BY <1>1, <1>2 DEF Owner!Older, CookieType
<1>5. session.age \in 0 .. Life
  BY <1>1 DEF SessionType
<1>6. idle' \in 0 .. Life
  BY <1>1, <1>2
<1> DEFINE half == Life \div 2
<1>7. half \in Nat
  BY HalfOfLife
<1>8. session.age <= idle + half => session'.age <= idle' + half
  <2> HIDE DEF half
  <2>1. CASE session.age = Life
    BY <1>1, <1>2, <1>3, <1>7, <2>1
  <2>2. CASE session.age # Life
    BY <1>1, <1>2, <1>3, <1>5, <1>7, <2>2
  <2> QED BY <2>1, <2>2
<1>9. SessionFits'
  <2>1. AgeFits'
    BY <1>1, <1>3, <1>8 DEF AgeFits
  <2>2. CookieFits'
    BY <1>1, <1>2, <1>3, <1>4 DEF CookieFits
  <2>3. unsaid' \in BOOLEAN
    BY <1>1, <1>2
  <2> QED BY <1>3, <1>4, <1>6, <2>1, <2>2, <2>3 DEF SessionFits, SessionType, CookieType, Owner!Start
<1>l. QED
  BY <1>2, <1>9, OwnerRowsStay, OwnerInSum, OwnerFacts

\* The grant expires; the daemon starts again, with another and without a session.
LEMMA OwnerDaemonStep == ASSUME OwnerBounds, OwnerInv, Owner!ExpireGrant \/ Owner!Restart PROVE OwnerInv'
<1>1. /\ daemon \in [start : 1 .. MaxStarts, grant : {"FRESH", "USED", "EXPIRED"}] /\ daemon.start \in 1 .. MaxStarts
      /\ tab \in [Tab -> OwnerRowType] /\ cookie \in CookieType /\ Life \in Nat /\ MaxStarts \in Nat
      /\ \A t \in Tab : tab[t] \in OwnerRowType /\ tab[t].given \in Nat /\ tab[t].given <= daemon.start
  BY OwnerFacts DEF OwnerInv, GivenIsPast, OwnerRowType, Owner!Start
<1>2. CASE Owner!ExpireGrant
  <2>1. daemon' = [daemon EXCEPT !.grant = "EXPIRED"] /\ UNCHANGED <<session, cookie, unsaid, idle, tab>>
    BY <1>2 DEF Owner!ExpireGrant, Owner!Unmoved
  <2>2. daemon' \in [start : 1 .. MaxStarts, grant : {"FRESH", "USED", "EXPIRED"}] /\ daemon'.start = daemon.start
        /\ daemon'.grant = "EXPIRED"
    BY <1>1, <2>1
  <2> QED BY <2>1, <2>2, SessionStays, OwnerRowsStay, OwnerInSum
<1>3. CASE Owner!Restart
  <2>1. /\ daemon' = [start |-> daemon.start + 1, grant |-> "FRESH"] /\ daemon.start < MaxStarts
        /\ session' = [live |-> FALSE, age |-> 0] /\ idle' = 0 /\ unsaid' = FALSE /\ UNCHANGED <<cookie, tab>>
    BY <1>3 DEF Owner!Restart
  <2>2. daemon' \in [start : 1 .. MaxStarts, grant : {"FRESH", "USED", "EXPIRED"}] /\ daemon'.start = daemon.start + 1
    BY <1>1, <2>1
  <2>3. idle' \in 0 .. Life /\ 0 \in 0 .. Life
    BY <1>1, <2>1
  <2>4. session' \in SessionType /\ ~session'.live /\ unsaid' \in BOOLEAN
    BY <2>1, <2>3 DEF SessionType
  <2>5. SessionFits'
    BY <1>1, <2>1, <2>3, <2>4 DEF SessionFits, AgeFits, CookieFits, SessionType, CookieType, Owner!Start
  <2>6. \A t \in Tab : tab'[t].given <= daemon'.start /\ tab'[t].given # daemon'.start
    BY <1>1, <2>1, <2>2
  <2>7. TabsFit'
    BY <1>1, <2>1, <2>6 DEF TabsFit, GivenIsPast, Owner!TokenIsKept, OwnerRowType, Owner!Start
  <2> QED BY <2>2, <2>5, <2>7, OwnerInSum
<1> QED BY <1>2, <1>3

\* The invariant outlives a step in which nothing changes.
LEMMA OwnerStutter == ASSUME OwnerBounds, OwnerInv, UNCHANGED Owner!vars PROVE OwnerInv'
  BY OwnerFacts, SessionStays, OwnerRowsStay, OwnerInSum DEF Owner!vars

----
\* The invariant of OwnerSession, for any tabs, any number of starts, and a life of any length.
THEOREM OwnerInvariant ==
    ASSUME OwnerBounds PROVE Owner!Spec => []OwnerInv
<1>1. Owner!Init => OwnerInv
  BY OwnerInit
<1>2. OwnerInv /\ [Owner!Next]_(Owner!vars) => OwnerInv'
  BY ExchangeStep, StatusStep, RequestStep, OwnerStep, TickStep, OwnerDaemonStep, OwnerStutter DEF Owner!Next
<1> QED BY <1>1, <1>2, PTL DEF Owner!Spec

\* An owner who uses the daemon keeps the session, and a tab the token that the daemon would take.
THEOREM OwnerIsKept ==
    ASSUME OwnerBounds PROVE Owner!Spec => [](Owner!UsedIsKept /\ Owner!TokenIsKept)
<1>1. OwnerInv => Owner!UsedIsKept /\ Owner!TokenIsKept
  <2> SUFFICES ASSUME OwnerInv, session.live, cookie.of = daemon.start, ~Owner!Authorized, ~unsaid
               PROVE  idle >= Life \div 2
    BY DEF OwnerInv, Owner!UsedIsKept
  <2>1. session \in SessionType /\ cookie \in CookieType /\ idle \in 0 .. Life /\ Life \in Nat
    BY OwnerFacts
  <2>2. session.age <= idle + Life \div 2 /\ cookie.age = session.age /\ session.age \in 0 .. Life
    BY <2>1 DEF OwnerInv, AgeFits, CookieFits, SessionType
  <2>3. session.age = Life
    BY <2>1, <2>2 DEF Owner!Authorized
  <2>4. Life \div 2 \in Nat /\ Life \div 2 + Life \div 2 <= Life
    BY HalfOfLife
  <2> QED BY <2>1, <2>2, <2>3, <2>4
<1> QED BY <1>1, OwnerInvariant, PTL
=============================================================================
