---------------------------- MODULE Acceptance ----------------------------
\* From the evidence of one delivery to the owner's answer: the Review and
\* QA artifacts of a pipeline run's fix cycles, the part of them that the
\* context pack of the ACCEPTANCE stage shows the agent, the claims it
\* makes for the acceptance criteria, the AcceptancePackage those are bound
\* into, the owner's answer and the release summary that is rendered from
\* the package (packages/domain/src/acceptance.ts, workflow.ts).
\*
\* A check is named by the artifact that lists it: what the text of a check
\* says is left out, and every claim of one outcome cites the same two.
\* Out too: the project verification (Corrections), the limits on the size
\* of the summary and of its audit trail, and the retry of a stage other
\* than the last.
EXTENDS Naturals, Sequences, SequencesExt, FiniteSets

CONSTANTS
    Criterion,  \* texts of acceptance criteria
    Tree,       \* implementation trees
    MaxRuns,    \* bound on the pipeline runs of the WorkItem
    MaxCycles   \* bound on the corrections of a run

VARIABLES
    item,      \* durable: the WorkItem's state and its criteria, in order
    run,       \* durable: its last run, and the current attempt with its corrections (0: none)
    evidence,  \* durable: the run's artifacts, oldest first
    pack,      \* memory: the two artifacts the session of the ACCEPTANCE stage was shown
    package,   \* durable: the run's AcceptancePackage
    asks       \* answers of the owner's tabs that have not reached the daemon

vars == <<item, run, evidence, pack, package, asks>>

Lists    == UNION {[1 .. n -> Criterion] : n \in 0 .. 2}
Artifact == [kind : {"REVIEW", "QA"}, qa : 0 .. MaxCycles, ver : 0 .. MaxCycles, tree : Tree]
NoneYet  == [kind |-> "NONE"]
NoPack   == [review |-> NoneYet, qa |-> NoneYet]
Pack     == [review : Artifact \cup {NoneYet}, qa : Artifact \cup {NoneYet}]
NoPackage == [status |-> "NONE"]
Package  == [status : {"PENDING", "ACCEPTED", "RETURNED", "REJECTED"}, no : 1 .. MaxRuns,
             rows : Lists, review : Artifact, qa : Artifact]
Answer   == [no : 1 .. MaxRuns, action : {"ACCEPT", "RETURN_TO_WORK", "REJECT"}]

\* Every variable has its type.
TypeOK ==
    /\ item \in [state : {"READY", "IN_PROGRESS", "BLOCKED", "DONE", "CANCELLED"}, criteria : Lists]
    /\ run.status \in {"NONE", "RUNNING", "WAITING_HUMAN", "HARD_PAUSED", "SUCCEEDED", "FAILED", "CANCELLED"}
    /\ run.stage \in {"IMPLEMENT", "REVIEW", "QA", "ACCEPTANCE"} /\ run.no \in 0 .. MaxRuns
    /\ run.qa \in 0 .. MaxCycles /\ run.ver \in 0 .. MaxCycles
    /\ evidence \in Seq(Artifact) /\ pack \in Pack /\ package \in Package \cup {NoPackage}
    /\ asks \subseteq Answer

Init ==
    /\ item \in [state : {"READY"}, criteria : Lists]
    /\ run = [no |-> 0, status |-> "NONE", stage |-> "IMPLEMENT", qa |-> 0, ver |-> 0, trees |-> <<>>]
    /\ evidence = <<>> /\ pack = NoPack /\ package = NoPackage /\ asks = {}

Active == run.status \in {"RUNNING", "WAITING_HUMAN", "HARD_PAUSED"}
At(stage) == run.status = "RUNNING" /\ run.stage = stage

----
(* The WorkItem *)

\* Mutant: nothing binds the criteria while a run is active.
CriteriaAreFree_Never == item.state # "CANCELLED"
CriteriaAreFree == ~Active

\* UPDATE_WORK_ITEM with other criteria. The form refuses a repeated one, the daemon does not.
EditCriteria(list) ==
    /\ CriteriaAreFree /\ list # item.criteria
    /\ item' = [item EXCEPT !.criteria = list]
    /\ UNCHANGED <<run, evidence, pack, package, asks>>

\* MOVE_WORK_ITEM back to READY after a run that failed.
Reopen ==
    /\ ~Active /\ item.state = "BLOCKED"
    /\ item' = [item EXCEPT !.state = "READY"]
    /\ UNCHANGED <<run, evidence, pack, package, asks>>

\* START_PIPELINE.
Start ==
    /\ ~Active /\ item.state = "READY" /\ run.no < MaxRuns
    /\ item' = [item EXCEPT !.state = "IN_PROGRESS"]
    /\ run' = [no |-> run.no + 1, status |-> "RUNNING", stage |-> "IMPLEMENT", qa |-> 0, ver |-> 0, trees |-> <<>>]
    /\ evidence' = <<>> /\ package' = NoPackage
    /\ UNCHANGED <<pack, asks>>

----
(* The stages before *)

Cycles == Len(run.trees)

\* IMPLEMENT succeeds and names the tree it leaves, which may be the one it found.
Implement(t) ==
    /\ At("IMPLEMENT")
    /\ run' = [run EXCEPT !.stage = "REVIEW", !.trees = Append(@, t)]
    /\ UNCHANGED <<item, evidence, pack, package, asks>>

Recorded(kind) == [kind |-> kind, qa |-> run.qa, ver |-> run.ver, tree |-> Last(run.trees)]

\* An approving Review, and a Browser QA run that passed on the tree of the implementation.
Pass(kind, stage, next) ==
    /\ At(stage)
    /\ evidence' = Append(evidence, Recorded(kind))
    /\ run' = [run EXCEPT !.stage = next]
    /\ UNCHANGED <<item, pack, package, asks>>
PassReview == Pass("REVIEW", "REVIEW", "QA")
PassQA     == Pass("QA", "QA", "ACCEPTANCE")

\* A correction sends the run back. One of the project verification keeps the QA correction it works
\* in, one of QA starts with none of the other kind; the gate of the verification precedes QA and
\* acceptance, so nothing was shown or claimed yet.
Correct(kind) ==
    /\ \/ kind = "QA" /\ At("QA")
       \/ kind = "V" /\ (At("QA") \/ At("ACCEPTANCE")) /\ pack = NoPack
    /\ Cycles <= MaxCycles
    /\ run' = [run EXCEPT !.stage = "IMPLEMENT",
                          !.qa = IF kind = "QA" THEN Cycles ELSE @,
                          !.ver = IF kind = "V" THEN Cycles ELSE 0]
    /\ UNCHANGED <<item, evidence, pack, package, asks>>

----
(* What the agent is shown, and what it claims *)

\* The oldest artifact that satisfies Test, as Array.find has it.
Find(Test(_)) ==
    LET hits == {i \in DOMAIN evidence : Test(evidence[i])} IN
    IF hits = {} THEN NoneYet ELSE evidence[CHOOSE i \in hits : \A j \in hits : i <= j]

\* acceptanceEvidenceArtifacts: of the current cycle, on the tree its IMPLEMENT left.
ShownQA ==
    Find(LAMBDA a : a.kind = "QA" /\ a.qa = run.qa /\ a.ver = run.ver /\ a.tree = Last(run.trees))

\* Mutant: any Review of the run will do.
ShownReview_AnyCycle(q) == Find(LAMBDA a : a.kind = "REVIEW")
\* The Review of the same cycle and tree.
ShownReview(q) ==
    IF q = NoneYet THEN NoneYet
    ELSE Find(LAMBDA a : a.kind = "REVIEW" /\ a.qa = q.qa /\ a.ver = q.ver /\ a.tree = q.tree)

\* A session of the ACCEPTANCE stage starts: one transaction reads every source of its context.
ShowEvidence ==
    /\ At("ACCEPTANCE") /\ pack = NoPack
    /\ pack' = [review |-> ShownReview(ShownQA), qa |-> ShownQA]
    /\ UNCHANGED <<item, run, evidence, package, asks>>

\* decideApplyProviderOutcome looks for the Review of the measured QA itself, and not by the
\* correction of the project verification.
ReviewOf(q) ==
    IF q = NoneYet THEN NoneYet
    ELSE Find(LAMBDA a : a.kind = "REVIEW" /\ a.qa = q.qa /\ a.tree = q.tree)

Unique(list) == Cardinality({list[i] : i \in DOMAIN list}) = Len(list)

\* bindAcceptanceCriteria: each recorded criterion once, in order, with checks of the two artifacts.
Bound(c) ==
    /\ item.criteria # <<>> /\ Unique(item.criteria) /\ c.criteria = item.criteria
    /\ NoneYet \notin {ReviewOf(ShownQA), ShownQA}
    /\ c.review = ReviewOf(ShownQA) /\ c.qa = ShownQA

Claim  == [criteria : Lists, review : ToSet(evidence), qa : ToSet(evidence)]
Honest == [criteria |-> item.criteria, review |-> pack.review, qa |-> pack.qa]

\* READY_FOR_ACCEPTANCE, bound: the package waits for the owner.
Prepare(c) ==
    /\ At("ACCEPTANCE") /\ pack # NoPack /\ Bound(c)
    /\ package' = [status |-> "PENDING", no |-> run.no, rows |-> c.criteria, review |-> c.review, qa |-> c.qa]
    /\ run' = [run EXCEPT !.status = "WAITING_HUMAN"]
    /\ item' = [item EXCEPT !.state = "BLOCKED"]
    /\ pack' = NoPack /\ UNCHANGED <<evidence, asks>>

\* READY_FOR_ACCEPTANCE, refused: the spend is kept, the run stops and the owner is asked.
Reject(c) ==
    /\ At("ACCEPTANCE") /\ pack # NoPack /\ ~Bound(c)
    /\ run' = [run EXCEPT !.status = "HARD_PAUSED"]
    /\ item' = [item EXCEPT !.state = "BLOCKED"]
    /\ pack' = NoPack /\ UNCHANGED <<evidence, package, asks>>

\* The owner lets the stage try again.
Resume ==
    /\ run.status = "HARD_PAUSED"
    /\ run' = [run EXCEPT !.status = "RUNNING"] /\ item' = [item EXCEPT !.state = "IN_PROGRESS"]
    /\ UNCHANGED <<evidence, pack, package, asks>>

\* CANCEL_PIPELINE between two sessions: never over a pending package.
Cancel ==
    /\ Active /\ package.status # "PENDING" /\ pack = NoPack
    /\ run' = [run EXCEPT !.status = "CANCELLED"] /\ item' = [item EXCEPT !.state = "CANCELLED"]
    /\ UNCHANGED <<evidence, pack, package, asks>>

----
(* The owner's answer *)

\* A button of a tab that shows the pending package; two tabs may each send one.
Ask(action) ==
    /\ package.status = "PENDING" /\ Cardinality(asks) < 2
    /\ asks' = asks \cup {[no |-> package.no, action |-> action]}
    /\ UNCHANGED <<item, run, evidence, pack, package>>

Resolution == [ACCEPT |-> "ACCEPTED", RETURN_TO_WORK |-> "RETURNED", REJECT |-> "REJECTED"]

\* Mutant: an answer is for whatever package is pending.
Awaits_Any(a) == package.status = "PENDING"
\* decideResolveAcceptance: the package that was asked about, still without an answer.
Awaits(a) == package.status = "PENDING" /\ package.no = a.no

\* RESOLVE_ACCEPTANCE.
Resolve(a) ==
    /\ a \in asks /\ Awaits(a)
    /\ package' = [package EXCEPT !.status = Resolution[a.action]]
    /\ run' = [run EXCEPT !.status = IF a.action = "ACCEPT" THEN "SUCCEEDED" ELSE "FAILED"]
    /\ item' = [item EXCEPT !.state = IF a.action = "ACCEPT" THEN "DONE" ELSE "BLOCKED"]
    /\ asks' = asks \ {a} /\ UNCHANGED <<evidence, pack>>

\* ACCEPTANCE_ALREADY_RESOLVED, or a version conflict; the tab reloads what it shows.
RefuseAnswer(a) ==
    /\ a \in asks /\ ~Awaits(a)
    /\ asks' = asks \ {a} /\ UNCHANGED <<item, run, evidence, pack, package>>

----
(* The release summary *)

\* renderReleaseSummary: the rows are the criteria the WorkItem has now ...
RowsAreCurrent == package.rows # <<>> /\ package.rows = item.criteria

\* ... and cite two artifacts of the run, of one tree.
EvidenceResolves ==
    /\ {package.review, package.qa} \subseteq ToSet(evidence)
    /\ package.review.kind = "REVIEW" /\ package.qa.kind = "QA"
    /\ package.review.tree = package.qa.tree

\* The export reads the WorkItem, its last run with the package, the evidence and the audit trail in
\* one turn of the daemon. It changes nothing, so it is no action.
Exported == package # NoPackage /\ RowsAreCurrent /\ EvidenceResolves

----

Next ==
    \/ Reopen \/ Start \/ PassReview \/ PassQA \/ ShowEvidence \/ Resume \/ Cancel
    \/ \E list \in Lists : EditCriteria(list)
    \/ \E t \in Tree : Implement(t)
    \/ \E kind \in {"QA", "V"} : Correct(kind)
    \/ \E c \in Claim : Prepare(c) \/ Reject(c)
    \/ \E action \in DOMAIN Resolution : Ask(action)
    \/ \E a \in asks : Resolve(a) \/ RefuseAnswer(a)

Spec == Init /\ [][Next]_vars

----
(* Properties *)

\* The package the owner is asked about can be exported as a release summary, and it rests on the
\* evidence of the last fix cycle: no edit of the criteria and no claim about an earlier cycle, tree
\* or list gets between the criteria, the evidence and the rows.
PendingIsExported ==
    package.status = "PENDING" =>
        Exported /\ package.qa = Recorded("QA") /\ package.review.tree = Last(run.trees)

\* An agent that claims each criterion in order with the checks it was shown is not refused: the
\* evidence shown is the evidence the outcome is held against. (Only a delivery whose criteria are
\* none or repeated, and one with an earlier Review of the same tree under the same QA correction,
\* are excepted; the README tells of both.)
ShownIsBound ==
    (/\ pack # NoPack /\ item.criteria # <<>> /\ Unique(item.criteria)
     /\ \A i, j \in DOMAIN evidence :
          LET a == evidence[i] b == evidence[j] IN
          (a.kind = "REVIEW" /\ b.kind = "REVIEW" /\ a.qa = b.qa /\ a.tree = b.tree) => i = j)
    => Bound(Honest)

\* An answer is given to the package it was asked about, and a package that has one keeps it: a
\* second tab, or an answer that arrives when a later run has a package of its own, changes nothing.
AnswerIsForItsPackage ==
    /\ (package.status = "PENDING" /\ package'.status # "PENDING") =>
         \E a \in asks \ asks' : a.no = package.no /\ package'.status = Resolution[a.action]
    /\ package.status \in {"ACCEPTED", "RETURNED", "REJECTED"} => package' = package \/ run'.no # run.no

=============================================================================
