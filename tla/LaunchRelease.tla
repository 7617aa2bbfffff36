---------------------------- MODULE LaunchRelease ----------------------------
\* Release snapshots of a Project (domain/src/launch-release.ts): a release
\* copies which evidence was current, judges it once as gates, and is later
\* called CURRENT when what it copied is still what is current.  One
\* Project, one Environment and one WorkItem; of all readiness checks, of all
\* measured results and of review and QA one each, as all are judged alike.
EXTENDS Integers

CONSTANTS
    Tree,        \* the contents the repository can have; a commit is its content
    MaxVersion,  \* bound: of the Project
    MaxEvidence  \* bound: pieces of evidence

VARIABLES
    tree,          \* of the repository's files
    head,          \* the commit of the repository
    environment,   \* version of the launch Environment
    verification,  \* the newest verification plan
    measurement,   \* the newest launch measurement plan
    readiness,     \* the newest readiness run
    measured,      \* the newest launch measurement run
    package,       \* the WorkItem's newest AcceptancePackage
    request,       \* a create request between its reading of the repository and its command
    release        \* the newest release

vars == <<tree, head, environment, verification, measurement, readiness, measured, package,
          request, release>>
evidence == <<readiness, measured, package>>

None == [id |-> 0]
Ids == 1 .. MaxEvidence
Version == 1 .. MaxVersion
Verification == [revision : Version, status : {"ACTIVE", "DISABLED"}]
\* under: the verification plan that has its recipes
Measurement == [revision : Version, status : {"ACTIVE", "DISABLED"}, under : Version]
Readiness == {None} \cup [id : Ids, head : Tree, dirty : BOOLEAN, passed : BOOLEAN]
\* version of a measurement or a package: it is written once when it begins and once when it ends.
Measured == {None} \cup
    [id : Ids, version : 1 .. 2, status : {"RUNNING", "PASSED", "FAILED", "ENDED"},
     tree : Tree, plan : Version]
Package == {None} \cup
    [id : Ids, version : 1 .. 2, status : {"PENDING", "ACCEPTED", "CHANGES_REQUESTED"},
     tree : Tree, verification : 0 .. MaxVersion]   \* 0: it has no verification
Key == {"READINESS", "MEASURED", "VERIFICATION", "ACCEPTANCE"}
Gate == {"PASSED", "ACTION_REQUIRED", "FAILED", "STALE"}
Release == {None} \cup
    [id : Version, tree : Tree, environment : Version, verification : Version, measurement : Version,
     readiness : Readiness, measured : Measured, package : Package, gates : [Key -> Gate]]
Request == {None} \cup
    [id : {1}, project : Version, environment : Version, tree : Tree, head : Tree]

\* Every decision about the Environment and the plans, and every release, is a version of the Project.
ProjectVersion == environment + verification.revision + measurement.revision + release.id
LastEvidence == readiness.id + measured.id + package.id

TypeOK ==
    /\ tree \in Tree /\ head \in Tree /\ environment \in Version
    /\ verification \in Verification /\ measurement \in Measurement
    /\ readiness \in Readiness /\ measured \in Measured /\ package \in Package
    /\ request \in Request /\ release \in Release

\* A Project whose plans were adopted and whose evidence was gathered once.
Init ==
    /\ tree \in Tree /\ head = tree /\ environment = 1
    /\ verification = [revision |-> 1, status |-> "ACTIVE"]
    /\ measurement = [revision |-> 1, status |-> "ACTIVE", under |-> 1]
    /\ readiness = [id |-> 1, head |-> tree, dirty |-> FALSE, passed |-> TRUE]
    /\ measured = [id |-> 1, version |-> 2, status |-> "PASSED", tree |-> tree, plan |-> 1]
    /\ package = [id |-> 1, version |-> 2, status |-> "ACCEPTED", tree |-> tree, verification |-> 1]
    /\ request = None /\ release = None

----
(* Freshness and gates *)

\* measuredGates, of one measurement
MeasuredUnderPlan_AnyPlan(source) == measured.tree = source
MeasuredUnderPlan(source) ==
    /\ measurement.status = "ACTIVE" /\ measured.plan = measurement.revision
    /\ measured.tree = source

\* workflowGates, VERIFICATION/REQUIRED_RECIPES on top of its tree
VerifiedUnderPlan ==
    verification.status = "ACTIVE" /\ package.verification = verification.revision

ReadinessGate(source, headRead) ==
    IF readiness = None THEN "ACTION_REQUIRED"
    ELSE IF readiness.head # headRead \/ headRead # source THEN "STALE"
    ELSE IF readiness.passed /\ ~readiness.dirty THEN "PASSED"
    ELSE "ACTION_REQUIRED"

MeasuredGate(source) ==
    IF measured = None THEN "ACTION_REQUIRED"
    ELSE IF measured.status \notin {"PASSED", "FAILED"} THEN "ACTION_REQUIRED"
    ELSE IF ~MeasuredUnderPlan(source) THEN "STALE"
    ELSE measured.status

\* aggregateGate: what has the evidence must have it for the tree.
Aggregated(has, source) ==
    IF package = None \/ ~has THEN "ACTION_REQUIRED"
    ELSE IF package.tree # source THEN "STALE"
    ELSE "PASSED"

GateOf(source, headRead) ==
    [READINESS |-> ReadinessGate(source, headRead),
     MEASURED |-> MeasuredGate(source),
     VERIFICATION |->
        LET gate == Aggregated(package # None /\ package.verification # 0, source)
        IN  IF gate = "PASSED" /\ ~VerifiedUnderPlan THEN "STALE" ELSE gate,
     ACCEPTANCE |-> Aggregated(package # None /\ package.status = "ACCEPTED", source)]

SameReadiness == release.readiness = readiness
SameMeasured ==
    /\ release.measurement = measurement.revision
    /\ release.measured.id = measured.id
    /\ measured # None => release.measured.version = measured.version
SamePackage ==
    /\ release.package.id = package.id
    /\ package # None => release.package.version = package.version

\* launchReleaseFreshness
Current ==
    /\ release.tree = tree /\ release.environment = environment
    /\ release.verification = verification.revision
    /\ SameReadiness /\ SameMeasured /\ SamePackage

\* What previewGuidedDeployment asks of the newest release before it looks at the remote.
Deployable == release # None /\ Current /\ \A k \in Key : release.gates[k] = "PASSED"

----
(* The owner and the repository *)

ChangeEnvironment ==
    /\ ProjectVersion < MaxVersion /\ environment' = environment + 1
    /\ UNCHANGED <<tree, head, verification, measurement, evidence, request, release>>

\* Adopted again, disabled, or adopted after that.
DecideVerification ==
    /\ ProjectVersion < MaxVersion
    /\ \E status \in {"ACTIVE", "DISABLED"} :
          /\ status = "DISABLED" => verification.status = "ACTIVE"
          /\ verification' = [revision |-> verification.revision + 1, status |-> status]
    /\ UNCHANGED <<tree, head, environment, measurement, evidence, request, release>>

\* It is adopted for the verification plan of that time.
DecideMeasurement ==
    /\ ProjectVersion < MaxVersion
    /\ \/ /\ measurement.status = "ACTIVE"
          /\ measurement' = [measurement EXCEPT !.revision = @ + 1, !.status = "DISABLED"]
       \/ /\ verification.status = "ACTIVE"
          /\ measurement' = [revision |-> measurement.revision + 1, status |-> "ACTIVE",
                             under |-> verification.revision]
    /\ UNCHANGED <<tree, head, environment, verification, evidence, request, release>>

Edit ==
    /\ \E t \in Tree \ {tree} : tree' = t
    /\ UNCHANGED <<head, environment, verification, measurement, evidence, request, release>>

Commit ==
    /\ head # tree /\ head' = tree
    /\ UNCHANGED <<tree, environment, verification, measurement, evidence, request, release>>

----
(* Evidence *)

New(kind) == kind.id + 1
AssessReadiness ==
    /\ LastEvidence < MaxEvidence
    /\ \E passed \in BOOLEAN :
          readiness' = [id |-> New(readiness), head |-> head, dirty |-> tree # head, passed |-> passed]
    /\ UNCHANGED <<tree, head, environment, verification, measurement, measured, package, request, release>>

\* The run says what it measures and under which plan (module LaunchMeasurement).
BeginMeasurement ==
    /\ LastEvidence < MaxEvidence
    /\ measured # None => measured.status # "RUNNING"
    /\ measurement.status = "ACTIVE"
    /\ verification.status = "ACTIVE" /\ measurement.under = verification.revision
    /\ measured' = [id |-> New(measured), version |-> 1, status |-> "RUNNING", tree |-> tree,
                    plan |-> measurement.revision]
    /\ UNCHANGED <<tree, head, environment, verification, measurement, readiness, package, request, release>>

\* It has results only when the tree is still the one it began on.
EndMeasurement ==
    /\ measured # None /\ measured.status = "RUNNING"
    /\ \E status \in {"ENDED"} \cup (IF tree = measured.tree THEN {"PASSED", "FAILED"} ELSE {}) :
          measured' = [measured EXCEPT !.status = status, !.version = 2]
    /\ UNCHANGED <<tree, head, environment, verification, measurement, readiness, package, request, release>>

\* The workflow of the WorkItem reaches acceptance (module Workflow), in a worktree of its own.
PreparePackage ==
    /\ LastEvidence < MaxEvidence
    /\ \E t \in Tree :
          package' = [id |-> New(package), version |-> 1, status |-> "PENDING", tree |-> t,
                     verification |-> IF verification.status = "ACTIVE" THEN verification.revision ELSE 0]
    /\ UNCHANGED <<tree, head, environment, verification, measurement, readiness, measured, request, release>>

ResolvePackage ==
    /\ package # None /\ package.status = "PENDING"
    /\ \E status \in {"ACCEPTED", "CHANGES_REQUESTED"} :
          package' = [package EXCEPT !.status = status, !.version = 2]
    /\ UNCHANGED <<tree, head, environment, verification, measurement, readiness, measured, request, release>>

----
(* The release *)

\* readLaunchSource is awaited; the versions are those the owner saw.
ReadSource ==
    /\ request = None /\ ProjectVersion < MaxVersion
    /\ request' = [id |-> 1, project |-> ProjectVersion, environment |-> environment,
                   tree |-> tree, head |-> head]
    /\ UNCHANGED <<tree, head, environment, verification, measurement, evidence, release>>

\* The release as the transaction writes it: of the evidence that it reads, for the tree read before.
Snapshot ==
    [id |-> New(release), tree |-> request.tree, environment |-> environment,
     verification |-> verification.revision, measurement |-> measurement.revision,
     readiness |-> readiness, measured |-> measured, package |-> package,
     gates |-> GateOf(request.tree, request.head)]

Create ==
    /\ request # None /\ request' = None
    /\ release' =
          IF request.project = ProjectVersion /\ request.environment = environment
          THEN Snapshot ELSE release
    /\ UNCHANGED <<tree, head, environment, verification, measurement, evidence>>

----

Next ==
    \/ ChangeEnvironment \/ DecideVerification \/ DecideMeasurement \/ Edit \/ Commit
    \/ AssessReadiness \/ BeginMeasurement \/ EndMeasurement \/ PreparePackage \/ ResolvePackage
    \/ ReadSource \/ Create

Spec == Init /\ [][Next]_vars

----
(* Properties *)

\* A release that may be deployed rests on evidence that is in force now, not only when it was
\* judged: of the content the repository has, clean when it was assessed, measured under the
\* measurement plan in force, and verified and accepted under the verification plan in force.
DeployableIsEvidenced ==
    Deployable =>
        /\ readiness # None /\ readiness.head = tree /\ readiness.passed /\ ~readiness.dirty
        /\ measured # None /\ measured.status = "PASSED" /\ measured.tree = tree
        /\ measurement.status = "ACTIVE" /\ measured.plan = measurement.revision
        /\ package # None /\ package.status = "ACCEPTED" /\ package.tree = tree
        /\ verification.status = "ACTIVE" /\ package.verification = verification.revision

\* The same of the verification plan whose recipes the measurement started.  It may have changed
\* between the measurement and the release: README.md, "What the code does not keep".
MeasuredUnderVerification ==
    Deployable => measurement.under = verification.revision
=============================================================================
