---------------------------- MODULE DemoProject ----------------------------
\* The way in: the page that tries Loomrail on a bundled demo
\* (apps/web/src/views/ActivationPage.tsx), from the template in Loomrail's
\* own checkout to a repository under the data directory
\* (apps/daemon/src/fixtures.ts), the Project that records it, also when it
\* recorded another or none that is usable, and the one task of the demo,
\* whose command bears the same id in every tab and at every attempt
\* (apps/web/src/api.ts, and the receipts of the store).
\*
\* Of the two demos one is here. The copy and its first commit are one
\* step; what the owner does by hand, and the directory of a second daemon
\* that shares the database, are ELSEWHERE. Left out are a Project that the
\* owner registered at the demo's own path, the readiness of the provider,
\* and what follows the task (WorkItems, Workflow).
EXTENDS Naturals, FiniteSets

CONSTANTS
    Tab,       \* the owner's tabs
    MaxBuilds, \* bound on the staging directories
    MaxFaults  \* bound on crashes and on what the owner does to the directories

VARIABLES
    target,   \* disk: <data>/demo-projects/<fixture>
    staging,  \* disk: the staging directories beside it
    old,      \* disk: the staging directories that are over an hour old
    path,     \* durable: the repository that the demo's Project records
    cut,      \* durable: the repository its workspaces are cut from
    tasks,    \* durable: the demo's tasks, by number
    receipt,  \* durable: what the command id of the task stands for (0: no receipt)
    request,  \* memory: what each tab has asked of the daemon
    shown,    \* memory: the task a tab shows (0: none)
    faults    \* counts crashes and the owner's hands

vars == <<target, staging, old, path, cut, tasks, receipt, request, shown, faults>>

Builds == 1 .. MaxBuilds
Paths  == {"NONE", "TEMPLATE", "ELSEWHERE", "TARGET"}
Tasks  == 1 .. Cardinality(Tab)
Idle   == [step |-> "IDLE", stale |-> "NONE", build |-> 0, moved |-> FALSE]

\* Every variable has its type.
TypeOK ==
    /\ target \in [is : {"NOTHING", "REPOSITORY", "DIRECTORY"}, build : 0 .. MaxBuilds]
    /\ staging \in [Builds -> {"NONE", "EMPTY", "COMMITTED", "GONE"}] /\ old \subseteq Builds
    /\ path \in Paths /\ cut \in Paths
    /\ tasks \in [Tasks -> {"NONE", "BACKLOG", "CANCELLED"}] /\ receipt \in 0 .. Cardinality(Tab)
    /\ request \in [Tab -> [step : {"IDLE", "LOOKING", "STAGING", "FOUND", "CREATING"}, stale : Paths,
                            build : 0 .. MaxBuilds, moved : BOOLEAN]]
    /\ shown \in [Tab -> 0 .. Cardinality(Tab)] /\ faults \in 0 .. MaxFaults

Init ==
    /\ target = [is |-> "NOTHING", build |-> 0]
    /\ staging = [b \in Builds |-> "NONE"] /\ old = {}
    /\ path \in {"NONE", "TEMPLATE", "ELSEWHERE"} /\ cut = "NONE"
    /\ tasks = [n \in Tasks |-> "NONE"] /\ receipt = 0
    /\ request = [t \in Tab |-> Idle] /\ shown = [t \in Tab |-> 0] /\ faults = 0

Ask(t, r) == request' = [request EXCEPT ![t] = r]

----
(* POST projects/fixtures/register *)

\* isRegisteredRepositoryUsable, asked in time: of a probe that takes too long the answer is no.
Usable(p) == p = "ELSEWHERE" \/ (p = "TARGET" /\ target.is = "REPOSITORY")

\* The page or the list of Projects offers it of a Project that is not there or not usable, and the
\* route asks again, before anything is built. A probe may answer so of any Project.
Register(t) ==
    /\ request[t] = Idle
    /\ Ask(t, [Idle EXCEPT !.step = "LOOKING", !.stale = path])
    /\ UNCHANGED <<target, staging, old, path, cut, tasks, receipt, shown, faults>>

\* Mutant: a directory that is there is taken for what was built.
Adopted_Unseen == [Idle EXCEPT !.step = "FOUND"]
\* A directory that is there must be a repository, at its top; else the route refuses.
Adopted == IF target.is = "REPOSITORY" THEN [Idle EXCEPT !.step = "FOUND"] ELSE Idle

\* Mutant: every staging directory goes.
Swept_All == Builds
\* sweepStaleStaging: those that are over an hour old.
Swept == old

Left(S) == [b \in Builds |-> IF b \in S /\ staging[b] # "NONE" THEN "GONE" ELSE staging[b]]

\* materialiseFixtureRepository: what is there is adopted; else a staging directory is made.
Look(t) ==
    /\ request[t].step = "LOOKING"
    /\ IF target.is # "NOTHING"
       THEN /\ Ask(t, [Adopted EXCEPT !.stale = request[t].stale])
            /\ UNCHANGED <<staging, old>>
       ELSE \E b \in Builds :
            /\ staging[b] = "NONE" /\ \A other \in Builds : other < b => staging[other] # "NONE"
            /\ staging' = [Left(Swept) EXCEPT ![b] = "EMPTY"] /\ old' = old \ Swept
            /\ Ask(t, [request[t] EXCEPT !.step = "STAGING", !.build = b])
    /\ UNCHANGED <<target, path, cut, tasks, receipt, shown, faults>>

\* The template is copied, and git init, add and commit.
Commit(t) ==
    /\ request[t].step = "STAGING" /\ staging[request[t].build] = "EMPTY"
    /\ staging' = [staging EXCEPT ![request[t].build] = "COMMITTED"]
    /\ UNCHANGED <<target, old, path, cut, tasks, receipt, request, shown, faults>>

\* Mutant: the rename takes the place of what is there.
MayPlace_Over == TRUE
\* A directory is not renamed over another that holds something.
MayPlace == target.is = "NOTHING"

\* The rename.
Place(t) ==
    /\ request[t].step = "STAGING" /\ staging[request[t].build] = "COMMITTED" /\ MayPlace
    /\ target' = [is |-> "REPOSITORY", build |-> request[t].build]
    /\ staging' = Left({request[t].build})
    /\ Ask(t, [request[t] EXCEPT !.step = "FOUND", !.build = 0])
    /\ UNCHANGED <<old, path, cut, tasks, receipt, shown, faults>>

\* git fails, or somebody else was first: the staging directory goes, and what is there is adopted.
GiveUp(t) ==
    /\ request[t].step = "STAGING"
    /\ staging' = Left({request[t].build})
    /\ Ask(t, IF target.is = "NOTHING" THEN Idle ELSE [Adopted EXCEPT !.stale = request[t].stale])
    /\ UNCHANGED <<target, old, path, cut, tasks, receipt, shown, faults>>

\* Mutant: the workspaces are not looked at.
Repoints_Anyway(stale) == path = stale
\* REPOINT_FIXTURE_PROJECT: still the path that was found unusable, and nothing was ever cut from it.
Repoints(stale) == path = stale /\ cut = "NONE"

\* REGISTER_PROJECT or REPOINT_FIXTURE_PROJECT, with the repository that was built or adopted.
Record(t) ==
    /\ request[t].step = "FOUND"
    /\ path' = IF (request[t].stale = "NONE" /\ path = "NONE")
                  \/ (request[t].stale # "NONE" /\ Repoints(request[t].stale))
               THEN "TARGET" ELSE path
    /\ Ask(t, Idle)
    /\ UNCHANGED <<target, staging, old, cut, tasks, receipt, shown, faults>>

----
(* The task *)

\* selectGuidedActivationTask: any task of the recipe that is not cancelled.
Candidates == {n \in Tasks : tasks[n] = "BACKLOG"}

\* The tab reads the WorkItems.
Load(t) ==
    /\ request[t] = Idle /\ path # "NONE"
    /\ \E n \in (IF Candidates = {} THEN {0} ELSE Candidates) : shown' = [shown EXCEPT ![t] = n]
    /\ UNCHANGED <<target, staging, old, path, cut, tasks, receipt, request, faults>>

\* Phase TASK: the Project is there and usable, and the tab shows no task.
Create(t) ==
    /\ request[t] = Idle /\ Usable(path) /\ shown[t] = 0
    /\ Ask(t, [Idle EXCEPT !.step = "CREATING"])
    /\ UNCHANGED <<target, staging, old, path, cut, tasks, receipt, shown, faults>>

\* Mutant: the receipt is not looked up.
Replayed_Never == 0
\* readCommandReceipt: the same id with the same input is the command that was executed.
Replayed == receipt

\* execute: the receipt's result again, or a new task and its receipt; the answer may be lost.
Execute(t) ==
    /\ request[t].step = "CREATING"
    /\ IF Replayed # 0 THEN UNCHANGED <<tasks, receipt>>
       ELSE \E n \in Tasks :
            /\ tasks[n] = "NONE" /\ \A other \in Tasks : other < n => tasks[other] # "NONE"
            /\ tasks' = [tasks EXCEPT ![n] = "BACKLOG"] /\ receipt' = n
    /\ shown' \in {shown, [shown EXCEPT ![t] = IF tasks'[receipt'] = "BACKLOG" THEN receipt' ELSE 0]}
    /\ Ask(t, Idle)
    /\ UNCHANGED <<target, staging, old, path, cut, faults>>

----
(* What goes on around it *)

\* A session cuts a workspace from the repository.
Cut ==
    /\ cut = "NONE" /\ Usable(path) /\ cut' = path
    /\ UNCHANGED <<target, staging, old, path, tasks, receipt, request, shown, faults>>

\* The owner cancels the task.
Cancel(n) ==
    /\ tasks[n] = "BACKLOG" /\ tasks' = [tasks EXCEPT ![n] = "CANCELLED"]
    /\ UNCHANGED <<target, staging, old, path, cut, receipt, request, shown, faults>>

\* The owner removes the directory, or its .git.
Meddle ==
    /\ faults < MaxFaults /\ faults' = faults + 1 /\ target.is = "REPOSITORY"
    /\ \E is \in {"NOTHING", "DIRECTORY"} : target' = [is |-> is, build |-> 0]
    /\ request' = [t \in Tab |-> IF request[t].step = "FOUND" THEN [request[t] EXCEPT !.moved = TRUE] ELSE request[t]]
    /\ UNCHANGED <<staging, old, path, cut, tasks, receipt, shown>>

\* The daemon ends and starts again: its staging directories stay.
Crash ==
    /\ faults < MaxFaults /\ faults' = faults + 1
    /\ request' = [t \in Tab |-> Idle]
    /\ UNCHANGED <<target, staging, old, path, cut, tasks, receipt, shown>>

\* An hour passes. No registration takes that long.
Age(b) ==
    /\ b \notin old /\ staging[b] \in {"EMPTY", "COMMITTED"} /\ \A t \in Tab : request[t].build # b
    /\ old' = old \cup {b}
    /\ UNCHANGED <<target, staging, path, cut, tasks, receipt, request, shown, faults>>

----
Next ==
    \/ \E t \in Tab : Register(t) \/ Look(t) \/ Commit(t) \/ Place(t) \/ GiveUp(t) \/ Record(t)
                      \/ Load(t) \/ Create(t) \/ Execute(t)
    \/ \E n \in Tasks : Cancel(n)
    \/ \E b \in Builds : Age(b)
    \/ Cut \/ Meddle \/ Crash

Spec == Init /\ [][Next]_vars

----
(* What a registration is about to record is a whole repository with its *)
(* first commit, unless the owner has touched it since, whatever other *)
(* registrations did, were killed at or swept away meanwhile; its own *)
(* staging directory is there as long as it works in it (fixtures.ts). *)
FoundIsWhole ==
    \A t \in Tab :
        /\ request[t].step = "FOUND" /\ ~request[t].moved => target.is = "REPOSITORY"
        /\ request[t].step = "STAGING" => staging[request[t].build] \in {"EMPTY", "COMMITTED"}

(* A repository that is in place is never replaced by another registration, *)
(* and the Project is not moved away from the repository that its workspaces *)
(* were cut from (fixtures.ts; persistence-sqlite, REPOINT_FIXTURE_PROJECT). *)
WorkStaysInPlace ==
    /\ target.is = "REPOSITORY" => target'.build \in {target.build, 0}
    /\ cut # "NONE" => path' = path

(* The demo has one task, however many tabs asked for it and however many *)
(* answers were lost (api.ts, guidedActivationCreateCommandId). *)
OneTask == Cardinality({n \in Tasks : tasks[n] # "NONE"}) <= 1
=============================================================================
