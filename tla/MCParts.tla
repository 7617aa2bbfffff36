------------------------------ MODULE MCParts ------------------------------
\* The parts of the daemon that share no state with one another, checked
\* side by side: part says which of them a behaviour is one of.  Scheduler
\* has its own variables, and the others take theirs, in their order, from
\* v1 .. v13; what a part does not use stays as it was.
EXTENDS Scheduler, TLC

CONSTANTS
    p1, p2, codex, claude, w1, t1, t2,  \* for Scheduler
    A, B, C                             \* the sets of the other parts

VARIABLES part, v1, v2, v3, v4, v5, v6, v7, v8, v9, v10, v11, v12, v13

shared == <<v1, v2, v3, v4, v5, v6, v7, v8, v9, v10, v11, v12, v13>>
all == <<part, vars, shared>>

Symmetric == Permutations(A) \cup Permutations(B)
Some(S) == CHOOSE x \in S : TRUE

D == INSTANCE Deployment WITH
       Deployment <- A, Commit <- B, Observer <- C, MaxRuns <- 2, MaxVersion <- 5, StoreFails <- TRUE,
       row <- v1, task <- v2, asked <- v3, gh <- v4, remote <- v5, phase <- v6

T == INSTANCE ToolCalls WITH
       External <- {"external"}, File <- {}, Recipe <- {"recipe"}, Session <- A, StoreFails <- TRUE,
       row <- v1, call <- v2, done <- v3, file <- v4, tree <- v5, session <- v6, lease <- v7,
       cancelled <- v8, grant <- v9, snapshot <- v10, refused <- v11, released <- v12, phase <- v13

\* The same with calls that name the file.
W == INSTANCE ToolCalls WITH
       External <- {}, File <- B, Recipe <- {}, Session <- A, StoreFails <- TRUE,
       row <- v1, call <- v2, done <- v3, file <- v4, tree <- v5, session <- v6, lease <- v7,
       cancelled <- v8, grant <- v9, snapshot <- v10, refused <- v11, released <- v12, phase <- v13

U == INSTANCE Publication WITH
       Drainer <- A, MaxRevision <- 2, MaxVersion <- 1,
       kind <- v1, revision <- v2, preview <- v3, drain <- v4, disk <- v5, held <- v6, phase <- v7

F == INSTANCE Scaffold WITH
       Operation <- A, File <- {"file"}, MaxVersion <- 1,
       operation <- v1, target <- v2, meddled <- v3, publisher <- v4, phase <- v5

M == INSTANCE LaunchMeasurement WITH
       Run <- A, Tree <- B, MaxRevision <- 2, MaxBlocked <- 1,
       plan <- v1, run <- v2, task <- v3, asking <- v4, service <- v5, record <- v6, tree <- v7,
       ended <- v8, blocked <- v9, phase <- v10

R == INSTANCE LaunchRelease WITH
       Tree <- B, MaxVersion <- 5, MaxEvidence <- 4,
       tree <- v1, head <- v2, environment <- v3, verification <- v4, measurement <- v5,
       readiness <- v6, measured <- v7, package <- v8, request <- v9, release <- v10

Q == INSTANCE BrowserQA WITH
       Run <- A, File <- B, MaxTree <- 2,
       agent <- v1, row <- v2, runner <- v3, dir <- v4, tree <- v5, closed <- v6, retained <- v7,
       unlinked <- v8, lost <- v9, phase <- v10

A1 == INSTANCE ActivityRecorder WITH
       Action <- A, QueueLimit <- 2, TableLimit <- 1, CrashAfterFinish <- FALSE,
       agentRun <- v1, table <- v2, counters <- v3, feed <- v4, queue <- v5, timer <- v6, live <- v7,
       accepted <- v8, logged <- v9, expired <- v10, phase <- v11, draining <- v12

A2 == INSTANCE ActivityFeed WITH
       PageSize <- 1, MaxId <- 3, MaxTime <- 1,
       now <- v1, held <- v2, added <- v3, reader <- v4

L == INSTANCE LiveView WITH
       MaxSequence <- 2, MaxStreams <- 1,
       committed <- v1, published <- v2, session <- v3, others <- v4, stream <- v5, frame <- v6,
       tab <- v7, fetch <- v8, view <- v9, failed <- v10

S == INSTANCE SessionLoop WITH
       MaxSessions <- 2, MaxStops <- 1,
       attempt <- v1, run <- v2, session <- v3, child <- v4, tools <- v5, behind <- v6, loop <- v7, tally <- v8

P == INSTANCE ProviderProcess WITH
       revoked <- v1, start <- v2, child <- v3, pipe <- v4, held <- v5, read <- v6, run <- v7, abort <- v8

I == INSTANCE WorkItems WITH
       Item <- A \cup {"third"}, NoItem <- "none", item <- v1, blocks <- v2

\* Attempts of one WorkItem in its worktree, and of two WorkItems that share the Project's directory.
OneItem(a) == "item"
ItsOwn(a) == a

G1 == INSTANCE Workspace WITH
       Attempt <- A, Item <- {"item"}, ItemOf <- OneItem, Strategy <- {"ISOLATED"}, Nobody <- "nobody",
       MaxFaults <- 1, repository <- v1, disk <- v2, row <- v3, attempt <- v4, loop <- v5, phase <- v6, faults <- v7

G2 == INSTANCE Workspace WITH
       Attempt <- A, Item <- A, ItemOf <- ItsOwn, Strategy <- {"SHARED"}, Nobody <- "nobody",
       MaxFaults <- 1, repository <- v1, disk <- v2, row <- v3, attempt <- v4, loop <- v5, phase <- v6, faults <- v7

K1 == INSTANCE DataDirectory WITH
       Process <- A, Nobody <- "nobody", Builds <- {1, 2}, Newest <- 2, MaxFaults <- 1,
       lock <- v1, process <- v2, store <- v3, backups <- v4, faults <- v5

K2 == INSTANCE LogFiles WITH
       File <- 1..4, NoName <- 0,
       SegmentLimit <- 2, TotalLimit <- 4, MaxOwned <- 3, Rotation <- 1, Retention <- 2,
       segment <- v1, writer <- v2, line <- v3, answer <- v4

N1 == INSTANCE McpServers WITH
       Server <- {"server"}, MaxFaults <- 4, daemon <- v1, server <- v2, faults <- v3

N2 == INSTANCE OwnerSession WITH
       Tab <- A, MaxStarts <- 2, Life <- 4,
       daemon <- v1, session <- v2, cookie <- v3, tab <- v4, idle <- v5, unsaid <- v6

N3 == INSTANCE McpProfiles WITH
       Tab <- A, Tool <- B, MaxRevisions <- 2, MaxVersion <- 3, MaxProbes <- 1,
       version <- v1, revision <- v2, capability <- v3, grant <- v4, probe <- v5, probes <- v6,
       bundle <- v7, tab <- v8, proposal <- v9

X == INSTANCE Acceptance WITH
       Criterion <- A, Tree <- B, MaxRuns <- 2, MaxCycles <- 2,
       item <- v1, run <- v2, evidence <- v3, pack <- v4, package <- v5, asks <- v6

Z == INSTANCE Allowance WITH
       Projects <- A, MaxReads <- 2, MaxTime <- 2, Ttl <- 1,
       time <- v1, reads <- v2, tracked <- v3, asking <- v4, rows <- v5, answers <- v6, late <- v7

Y == INSTANCE Readiness WITH
       Tab <- A, Key <- B, MaxRuns <- 2, active <- v1, runs <- v2, scans <- v3, views <- v4, asks <- v5

E == INSTANCE DemoProject WITH
       Tab <- A, MaxBuilds <- 2, MaxFaults <- 2,
       target <- v1, staging <- v2, old <- v3, path <- v4, cut <- v5, tasks <- v6, receipt <- v7,
       request <- v8, shown <- v9, faults <- v10

B1 == INSTANCE AgentPolicy WITH
       Tool <- A, InitialMax <- 2, MaxTokens <- 3, MaxReport <- 2, MaxChanges <- 1, ManagerCap <- 1, ProfileCap <- 2,
       squad <- v1, environment <- v2, ready <- v3, preference <- v4, grant <- v5, attempt <- v6, adapter <- v7,
       policy <- v8, used <- v9, run <- v10, author <- v11, session <- v12, changes <- v13

----
(* Batches for Scheduler: scopes, priorities and every claim, and a candidate for each reason that *)
(* looks at the candidate alone *)

Unclaimed == [workspace |-> NoWorkspace, access |-> "READ_ONLY", checkpoint |-> NoCheckpoint]
ClaimOf(access, checkpoint) == [workspace |-> w1, access |-> access, checkpoint |-> checkpoint]

MCClaims == {Unclaimed, ClaimOf("READ_WRITE", t1), ClaimOf("READ_ONLY", t1), ClaimOf("READ_ONLY", t2)}
MCUrgency == {<< <<p1, codex>>, 0>>, << <<p1, codex>>, 1>>, << <<p2, claude>>, 0>>}

Shape(scope, priority, ready, budget, stable, claim) ==
    [project |-> scope[1], provider |-> scope[2], priority |-> priority, ready |-> ready,
     budgetAllowed |-> budget, requiresStableCheckpoint |-> stable, workspace |-> claim]

MCCandidate ==
    {Shape(urgency[1], urgency[2], TRUE, TRUE, FALSE, claim) : urgency \in MCUrgency, claim \in MCClaims}
    \cup {Shape(<<p1, codex>>, 0, FALSE, TRUE, FALSE, Unclaimed),
          Shape(<<p1, codex>>, 0, TRUE, FALSE, FALSE, Unclaimed),
          Shape(<<p1, codex>>, 0, TRUE, TRUE, TRUE, ClaimOf("READ_ONLY", NoCheckpoint))}

MCActiveRun ==
    {[attempt |-> 1, project |-> p1, provider |-> codex, workspace |-> Unclaimed],
     [attempt |-> 9, project |-> p2, provider |-> codex, workspace |-> ClaimOf("READ_ONLY", t1)],
     [attempt |-> 9, project |-> p2, provider |-> codex, workspace |-> ClaimOf("READ_WRITE", t1)]}

\* Limits of 0 pause a scope; two active runs exceed a global limit of 1; one stage attempt has one active run.
MCLimits ==
    {[global |-> 3, project |-> [p \in Project |-> IF p = p1 THEN 1 ELSE 3], provider |-> [p \in Provider |-> 3]],
     [global |-> 2, project |-> [p \in Project |-> 3], provider |-> [p \in Provider |-> IF p = codex THEN 2 ELSE 0]],
     [global |-> 1, project |-> [p \in Project |-> 3], provider |-> [p \in Provider |-> 3]]}

\* What Scheduler's variables are while a behaviour is of another part: a batch nobody looked at.
NoBatch ==
    /\ candidate = [d \in DispatchId |-> Some(Candidate)] /\ active = {} /\ limits = Some(Limits)
    /\ waiting = DispatchId /\ selected = {} /\ deferred = [d \in {} |-> 1] /\ activeCount = 0
    /\ projectCounts = [p \in Project |-> 0] /\ providerCounts = [p \in Provider |-> 0]
    /\ activeAttempts = {} /\ workspaceClaims = {}

----

MCInit ==
    \/ part = "Scheduler" /\ Init
       /\ v1 = 0 /\ v2 = 0 /\ v3 = 0 /\ v4 = 0 /\ v5 = 0 /\ v6 = 0 /\ v7 = 0 /\ v8 = 0 /\ v9 = 0
       /\ v10 = 0 /\ v11 = 0 /\ v12 = 0 /\ v13 = 0
    \/ part = "Deployment" /\ NoBatch /\ D!Init
       /\ v7 = 0 /\ v8 = 0 /\ v9 = 0 /\ v10 = 0 /\ v11 = 0 /\ v12 = 0 /\ v13 = 0
    \/ part = "ToolCalls" /\ NoBatch /\ T!Init
    \/ part = "FileCalls" /\ NoBatch /\ W!Init
    \/ part = "Publication" /\ NoBatch /\ U!Init
       /\ v8 = 0 /\ v9 = 0 /\ v10 = 0 /\ v11 = 0 /\ v12 = 0 /\ v13 = 0
    \/ part = "Scaffold" /\ NoBatch /\ F!Init
       /\ v6 = 0 /\ v7 = 0 /\ v8 = 0 /\ v9 = 0 /\ v10 = 0 /\ v11 = 0 /\ v12 = 0 /\ v13 = 0
    \/ part = "LaunchMeasurement" /\ NoBatch /\ M!Init
       /\ v11 = 0 /\ v12 = 0 /\ v13 = 0
    \/ part = "LaunchRelease" /\ NoBatch /\ R!Init
       /\ v11 = 0 /\ v12 = 0 /\ v13 = 0
    \/ part = "BrowserQA" /\ NoBatch /\ Q!Init
       /\ v11 = 0 /\ v12 = 0 /\ v13 = 0
    \/ part = "ActivityRecorder" /\ NoBatch /\ A1!Init
       /\ v13 = 0
    \/ part = "ActivityFeed" /\ NoBatch /\ A2!Init
       /\ v5 = 0 /\ v6 = 0 /\ v7 = 0 /\ v8 = 0 /\ v9 = 0 /\ v10 = 0 /\ v11 = 0 /\ v12 = 0 /\ v13 = 0
    \/ part = "LiveView" /\ NoBatch /\ L!Init
       /\ v11 = 0 /\ v12 = 0 /\ v13 = 0
    \/ part = "SessionLoop" /\ NoBatch /\ S!Init
       /\ v9 = 0 /\ v10 = 0 /\ v11 = 0 /\ v12 = 0 /\ v13 = 0
    \/ part = "ProviderProcess" /\ NoBatch /\ P!Init
       /\ v9 = 0 /\ v10 = 0 /\ v11 = 0 /\ v12 = 0 /\ v13 = 0
    \/ part = "WorkItems" /\ NoBatch /\ I!Init
       /\ v3 = 0 /\ v4 = 0 /\ v5 = 0 /\ v6 = 0 /\ v7 = 0 /\ v8 = 0 /\ v9 = 0
       /\ v10 = 0 /\ v11 = 0 /\ v12 = 0 /\ v13 = 0
    \/ part = "Worktree" /\ NoBatch /\ G1!Init
       /\ v8 = 0 /\ v9 = 0 /\ v10 = 0 /\ v11 = 0 /\ v12 = 0 /\ v13 = 0
    \/ part = "SharedDirectory" /\ NoBatch /\ G2!Init
       /\ v8 = 0 /\ v9 = 0 /\ v10 = 0 /\ v11 = 0 /\ v12 = 0 /\ v13 = 0
    \/ part = "DataDirectory" /\ NoBatch /\ K1!Init
       /\ v6 = 0 /\ v7 = 0 /\ v8 = 0 /\ v9 = 0 /\ v10 = 0 /\ v11 = 0 /\ v12 = 0 /\ v13 = 0
    \/ part = "LogFiles" /\ NoBatch /\ K2!Init
       /\ v5 = 0 /\ v6 = 0 /\ v7 = 0 /\ v8 = 0 /\ v9 = 0 /\ v10 = 0 /\ v11 = 0 /\ v12 = 0 /\ v13 = 0
    \/ part = "McpServers" /\ NoBatch /\ N1!Init
       /\ v4 = 0 /\ v5 = 0 /\ v6 = 0 /\ v7 = 0 /\ v8 = 0 /\ v9 = 0 /\ v10 = 0 /\ v11 = 0 /\ v12 = 0 /\ v13 = 0
    \/ part = "OwnerSession" /\ NoBatch /\ N2!Init
       /\ v7 = 0 /\ v8 = 0 /\ v9 = 0 /\ v10 = 0 /\ v11 = 0 /\ v12 = 0 /\ v13 = 0
    \/ part = "McpProfiles" /\ NoBatch /\ N3!Init
       /\ v10 = 0 /\ v11 = 0 /\ v12 = 0 /\ v13 = 0
    \/ part = "Acceptance" /\ NoBatch /\ X!Init
       /\ v7 = 0 /\ v8 = 0 /\ v9 = 0 /\ v10 = 0 /\ v11 = 0 /\ v12 = 0 /\ v13 = 0
    \/ part = "Allowance" /\ NoBatch /\ Z!Init
       /\ v8 = 0 /\ v9 = 0 /\ v10 = 0 /\ v11 = 0 /\ v12 = 0 /\ v13 = 0
    \/ part = "Readiness" /\ NoBatch /\ Y!Init
       /\ v6 = 0 /\ v7 = 0 /\ v8 = 0 /\ v9 = 0 /\ v10 = 0 /\ v11 = 0 /\ v12 = 0 /\ v13 = 0
    \/ part = "DemoProject" /\ NoBatch /\ E!Init
       /\ v11 = 0 /\ v12 = 0 /\ v13 = 0
    \/ part = "AgentPolicy" /\ NoBatch /\ B1!Init

\* Only the third WorkItem has a parent.
OneChild == \A i \in A : v1'[i].parent = "none"

MCNext ==
    \/ part = "Scheduler" /\ Next /\ UNCHANGED <<part, shared>>
    \/ part = "Deployment" /\ D!Next /\ UNCHANGED <<part, vars, v7, v8, v9, v10, v11, v12, v13>>
    \/ part = "ToolCalls" /\ T!Next /\ UNCHANGED <<part, vars>>
    \/ part = "FileCalls" /\ W!Next /\ UNCHANGED <<part, vars>>
    \/ part = "Publication" /\ U!Next /\ UNCHANGED <<part, vars, v8, v9, v10, v11, v12, v13>>
    \/ part = "Scaffold" /\ F!Next /\ UNCHANGED <<part, vars, v6, v7, v8, v9, v10, v11, v12, v13>>
    \/ part = "LaunchMeasurement" /\ M!Next /\ UNCHANGED <<part, vars, v11, v12, v13>>
    \/ part = "LaunchRelease" /\ R!Next /\ UNCHANGED <<part, vars, v11, v12, v13>>
    \/ part = "BrowserQA" /\ Q!Next /\ UNCHANGED <<part, vars, v11, v12, v13>>
    \/ part = "ActivityRecorder" /\ A1!Next /\ UNCHANGED <<part, vars, v13>>
    \/ part = "ActivityFeed" /\ A2!Next /\ UNCHANGED <<part, vars, v5, v6, v7, v8, v9, v10, v11, v12, v13>>
    \/ part = "LiveView" /\ L!Next /\ UNCHANGED <<part, vars, v11, v12, v13>>
    \/ part = "SessionLoop" /\ S!Next /\ UNCHANGED <<part, vars, v9, v10, v11, v12, v13>>
    \/ part = "ProviderProcess" /\ P!Next /\ UNCHANGED <<part, vars, v9, v10, v11, v12, v13>>
    \/ part = "WorkItems" /\ I!Next /\ OneChild /\ UNCHANGED <<part, vars, v3, v4, v5, v6, v7, v8, v9, v10, v11, v12, v13>>
    \/ part = "Worktree" /\ G1!Next /\ UNCHANGED <<part, vars, v8, v9, v10, v11, v12, v13>>
    \/ part = "SharedDirectory" /\ G2!Next /\ UNCHANGED <<part, vars, v8, v9, v10, v11, v12, v13>>
    \/ part = "DataDirectory" /\ K1!Next /\ UNCHANGED <<part, vars, v6, v7, v8, v9, v10, v11, v12, v13>>
    \/ part = "LogFiles" /\ K2!Next /\ UNCHANGED <<part, vars, v5, v6, v7, v8, v9, v10, v11, v12, v13>>
    \/ part = "McpServers" /\ N1!Next /\ UNCHANGED <<part, vars, v4, v5, v6, v7, v8, v9, v10, v11, v12, v13>>
    \/ part = "OwnerSession" /\ N2!Next /\ UNCHANGED <<part, vars, v7, v8, v9, v10, v11, v12, v13>>
    \/ part = "McpProfiles" /\ N3!Next /\ UNCHANGED <<part, vars, v10, v11, v12, v13>>
    \/ part = "Acceptance" /\ X!Next /\ UNCHANGED <<part, vars, v7, v8, v9, v10, v11, v12, v13>>
    \/ part = "Allowance" /\ Z!Next /\ UNCHANGED <<part, vars, v8, v9, v10, v11, v12, v13>>
    \/ part = "Readiness" /\ Y!Next /\ UNCHANGED <<part, vars, v6, v7, v8, v9, v10, v11, v12, v13>>
    \/ part = "DemoProject" /\ E!Next /\ UNCHANGED <<part, vars, v11, v12, v13>>
    \/ part = "AgentPolicy" /\ B1!Next /\ UNCHANGED <<part, vars>>

MCSpec == MCInit /\ [][MCNext]_all

----

\* Every part keeps its types.
TypesOK ==
    /\ TypeOK
    /\ part = "Deployment" => D!TypeOK
    /\ part = "ToolCalls" => T!TypeOK
    /\ part = "FileCalls" => W!TypeOK
    /\ part = "Publication" => U!TypeOK
    /\ part = "Scaffold" => F!TypeOK
    /\ part = "LaunchMeasurement" => M!TypeOK
    /\ part = "LaunchRelease" => R!TypeOK
    /\ part = "BrowserQA" => Q!TypeOK
    /\ part = "ActivityRecorder" => A1!TypeOK
    /\ part = "ActivityFeed" => A2!TypeOK
    /\ part = "LiveView" => L!TypeOK
    /\ part = "SessionLoop" => S!TypeOK
    /\ part = "ProviderProcess" => P!TypeOK
    /\ part = "WorkItems" => I!TypeOK
    /\ part = "Worktree" => G1!TypeOK
    /\ part = "SharedDirectory" => G2!TypeOK
    /\ part = "DataDirectory" => K1!TypeOK
    /\ part = "LogFiles" => K2!TypeOK
    /\ part = "McpServers" => N1!TypeOK
    /\ part = "OwnerSession" => N2!TypeOK
    /\ part = "McpProfiles" => N3!TypeOK
    /\ part = "Acceptance" => X!TypeOK
    /\ part = "Allowance" => Z!TypeOK
    /\ part = "Readiness" => Y!TypeOK
    /\ part = "DemoProject" => E!TypeOK
    /\ part = "AgentPolicy" => B1!TypeOK

\* A deployment is dispatched at most once, its conclusion and its run stand, and what succeeded
\* ran the approved commit: production after a preview of it.
DispatchedAtMostOnce ==
    /\ part = "Deployment" => D!Promise!Init
    /\ [](part = "Deployment" => D!SucceededAsApproved)
    /\ [][part = "Deployment" => D!Dispatches /\ D!Stands]_all

\* A tool call happens at most once, what its row says of it is true, and none starts that the
\* owner's grant no longer covers.
CalledAtMostOnce ==
    /\ part = "ToolCalls" => T!Promise!Init
    /\ part = "FileCalls" => W!Promise!Init
    /\ [][ /\ part = "ToolCalls" => T!Calls /\ T!OnlyGranted
           /\ part = "FileCalls" => W!Calls ]_all

\* A session ends after its calls and its process, and a start finds every process tree that a recipe
\* left.  Sessions hand on what they published, and the attempt stops for its owner when they do not.
\* A provider session that settled has no child, and what the child said before it ended was read.
\* One that writes is alone in its directory, a lease has its AgentRun, and a worktree its row.  One
\* daemon has the data directory, knows its schema, and backs it up before it changes it.  A server of
\* tools that lost its supervisor is on record.
SessionsHandOver ==
    /\ part = "ToolCalls" => T!CallsStayInTheirSession /\ T!LiveTreeIsStarted
    /\ part = "FileCalls" => W!CallsStayInTheirSession
    /\ part = "SessionLoop" => /\ S!WasteIsAnswered /\ S!HandoffIsComplete
                              /\ S!SessionOutlivesItsWork /\ S!LoopLeavesAnAnswer
    /\ part = "ProviderProcess" => /\ P!AbortedIsGone /\ P!SettledIsGone
                                  /\ P!SaidIsHeard /\ P!NoOutcomeUnheard
    /\ part = "Worktree" => G1!WriterIsAlone /\ G1!LeaseIsWorked /\ G1!CutIsRecorded
    /\ part = "SharedDirectory" => G2!WriterIsAlone /\ G2!LeaseIsWorked
    /\ part = "DataDirectory" => K1!OneHolder /\ K1!SchemaIsKnown /\ K1!BackedUp
    /\ part = "McpServers" => N1!LiveIsRecorded

\* What is reported as published was on disk, and the constitution in force is the newest of it; a
\* Project that became ACTIVE has all its files, and nobody else's file was replaced; nor was a branch
\* deleted that somebody's work is on, nor a process ended that is no longer the recorded one.  The owner
\* grants the tools of a profile's revision in force, and the preset is one profile.  An answer is for
\* the acceptance package it was asked about, and one to a readiness check for the run as it was shown.
\* What is known of the provider's allowance is never older than it was, nor shown as live when it is over.
\* A demo repository that is in place stays, and its Project stays with it once work was cut from it.
PublishedIsWhole ==
    /\ [](part = "Publication" => U!AppliedWasWritten /\ U!InForceIsNewest)
    /\ [](part = "Scaffold" => F!CompletedIsWhole)
    /\ [][part = "Scaffold" => F!Keeps]_all
    /\ [][part = "Worktree" => G1!KeepsWork]_all
    /\ [][part = "McpServers" => N1!StrangersLive]_all
    /\ [][part = "McpProfiles" => N3!GrantsAreForTheLatest /\ N3!PresetIsFiledOnce]_all
    /\ [][part = "Acceptance" => X!AnswerIsForItsPackage]_all
    /\ [][part = "Readiness" => Y!AnswerIsOfWhatWasSeen]_all
    /\ [][part = "Allowance" => Z!AllowanceAdvances]_all
    /\ [][part = "DemoProject" => E!WorkStaysInPlace]_all

\* What the owner is shown of a run is complete, or says what it lost: the recorder of the activity
\* and its reader.  What a tab shows of a WorkItem is the latest, or will be read again.  The daemon's
\* own log has an entry for each line, in files that are there and within their limit.  The owner's
\* browser keeps the session it uses, and the token of a new one until it was taken.  One read of the
\* provider's allowance answers every refresh that came while it was made, when its child is gone.
OwnerSeesOrIsTold ==
    /\ part = "ActivityRecorder" => A1!LostIsSaid
    /\ part = "ActivityFeed" => A2!FeedIsWhole
    /\ part = "LiveView" => L!StaleIsRefreshed
    /\ part = "LogFiles" => K2!WithinTotal /\ K2!WrittenIsFound /\ K2!OneEntryPerLine
    /\ part = "OwnerSession" => N2!UsedIsKept /\ N2!TokenIsKept
    /\ part = "Allowance" => Z!ReadIsShared

\* No WorkItems wait for each other in a circle, what is delivered rests on what is delivered, and the
\* page offers to start what may be started.  The demo has one task.
WorkIsOrdered ==
    /\ part = "WorkItems" => /\ I!NothingWaitsInACircle /\ I!DeliveredRestsOnDelivered
                             /\ I!OfferedIsAccepted
    /\ part = "DemoProject" => E!OneTask

\* The service of a measurement is held by its run, and a cancelled run is not recorded as measured.
\* The attachments of a Browser QA verdict stay on disk until they expire, and no others count.  A
\* release that may be deployed rests on evidence that is in force when it is asked.  A provider session
\* works under the policy that its AgentRun pinned.  What a probe found is held against the revision it ran.
\* An acceptance package the owner is asked about can be exported, and the evidence an agent is shown is
\* the evidence its claims are held against.  A project is ready by answers of that very readiness run.
\* A demo is registered with a whole repository.
EvidenceIsInForce ==
    /\ part = "LaunchMeasurement" => M!LiveServiceIsHeld /\ M!CancelledIsNotMeasured
    /\ part = "BrowserQA" => Q!EvidenceIsKept /\ Q!ConfirmedIsRecorded /\ Q!RetainedIsGone
    /\ part = "LaunchRelease" => R!DeployableIsEvidenced
    /\ part = "McpProfiles" => N3!CapabilityIsOfItsRevision
    /\ part = "Acceptance" => X!PendingIsExported /\ X!ShownIsBound
    /\ part = "Readiness" => Y!ReadyIsAnswered
    /\ part = "DemoProject" => E!FoundIsWhole
    /\ part = "AgentPolicy" => /\ B1!CoordinatorIsBlind /\ B1!ToolsAreConsented
                              /\ B1!ReviewerIsIndependent /\ B1!SessionIsFunded
=============================================================================
