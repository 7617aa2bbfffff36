---------------------------- MODULE Corrections ----------------------------
\* The fix cycles of one pipeline run. Two evaluators, Browser QA and the
\* project verification, send an implementation back with a correction;
\* both draw on one budget (packages/domain/src/correction-budget.ts), a
\* verification correction may suspend a QA correction and resume it
\* (verification-correction.ts, qa-correction.ts), and an owner who starts,
\* cancels, pauses, re-plans or authorizes a last cycle interleaves with
\* both, as do crashes.
\*
\* A command the code refuses changes nothing, so a refusal is no step. The
\* guards that can refuse what must not be refused have names of their own.
\* IMPLEMENT stands for every stage before QA: those keep both correction
\* ids and may leave another tree. Defects are left out: each belongs to
\* the QA correction that is open.
EXTENDS Naturals, Sequences

CONSTANTS
    Tree,       \* implementation trees
    MaxPlans,   \* bound on the revisions of the verification plan
    MaxRuns     \* bound on verification runs

ASSUME BoundAssumption == MaxPlans \in Nat \ {0} /\ MaxRuns \in Nat

MaxAutomatic == 2
MaxTotal     == 3

VARIABLES
    daemon,  \* "UP", or "DOWN" from a crash to the end of the startup reconciliation
    tree,    \* the tree of the workspace
    plan,    \* the revision of the published verification plan
    wf,      \* durable: the current stage attempt, with the corrections it works for (0: none)
    corr,    \* durable: the corrections of both evaluators; the index is the budget position
    runs     \* durable: the verification runs, with the failure recorded for each

vars == <<daemon, tree, plan, wf, corr, runs>>

Status ==
    [attempt |-> {"QUEUED", "RUNNING", "PAUSED", "GATE_QA", "GATE_V", "PREPARED", "DONE", "CANCELLED"},
     correction |-> {"ACTIVE", "PASSED", "SUPERSEDED", "EXHAUSTED", "CANCELLED"},
     run |-> {"ACTIVE", "CANCELLING", "PASSED", "FAILED", "INTERRUPTED", "CANCELLED"}]

Attempt    == [stage : {"IMPLEMENT", "QA", "ACCEPTANCE"}, status : Status.attempt,
               qa : 0 .. MaxTotal, ver : 0 .. MaxTotal]
Correction == [kind : {"QA", "V"}, status : Status.correction, resumes : 0 .. MaxTotal, src : 0 .. MaxRuns]
VRun       == [status : Status.run, tree : Tree, plan : 1 .. MaxPlans, ver : 0 .. MaxTotal,
               failure : {"NONE", "FAILED", "INTERRUPTED", "STALE"}]

\* Every variable has its type, and the ids of the attempt, the corrections and the runs point
\* back: a correction to an earlier one and to a run that failed, a run to a correction.
TypeOK ==
    /\ daemon \in {"UP", "DOWN"} /\ tree \in Tree /\ plan \in 1 .. MaxPlans
    /\ wf \in Attempt /\ corr \in Seq(Correction) /\ runs \in Seq(VRun)
    /\ wf.qa # 0 => wf.qa \in DOMAIN corr /\ corr[wf.qa].kind = "QA"
    /\ wf.ver # 0 => wf.ver \in DOMAIN corr /\ corr[wf.ver].kind = "V"
    /\ \A c \in DOMAIN corr :
         /\ corr[c].resumes \in 0 .. c - 1
         /\ corr[c].kind = "V" => corr[c].src \in DOMAIN runs /\ runs[corr[c].src].failure # "NONE"
    /\ \A r \in DOMAIN runs : runs[r].ver \in 0 .. Len(corr)

Init ==
    /\ daemon = "UP" /\ tree \in Tree /\ plan = 1
    /\ wf = [stage |-> "IMPLEMENT", status |-> "QUEUED", qa |-> 0, ver |-> 0]
    /\ corr = <<>> /\ runs = <<>>

----
(* The shared budget *)

\* Mutant: each evaluator counts its own corrections.
CanStart_PerEvaluator  == \E k \in {"QA", "V"} : Len(SelectSeq(corr, LAMBDA c : c.kind = k)) < 1
\* decideCorrectionBudget: the first two are automatic, the owner may authorize a third.
CanStart     == Len(corr) < MaxAutomatic
CanAuthorize == Len(corr) < MaxTotal

NewCorrection(kind, resumes, src) == [kind |-> kind, status |-> "ACTIVE", resumes |-> resumes, src |-> src]
Ended(c, status) == IF c = 0 THEN corr ELSE [corr EXCEPT ![c].status = status]

----
(* The attempt *)

Live    == wf.status \notin {"DONE", "CANCELLED"}
Pending == wf.status \in {"QUEUED", "RUNNING"}
AtQA    == wf.stage = "QA" /\ wf.status = "QUEUED"

\* A new IMPLEMENT attempt for the corrections q and v.
Fix(q, v)   == wf' = [stage |-> "IMPLEMENT", status |-> "QUEUED", qa |-> q, ver |-> v]
To(stage)   == wf' = [wf EXCEPT !.stage = stage, !.status = "QUEUED"]
Hold(status) == wf' = [wf EXCEPT !.status = status]

Open(c)   == corr[c].status \in {"ACTIVE", "EXHAUSTED"}
Active(c) == c # 0 /\ corr[c].status = "ACTIVE"
OpenOf(kind) == {c \in DOMAIN corr : corr[c].kind = kind /\ Open(c)}
OpenQA == OpenOf("QA")

----
(* The verification runs *)

Last == Len(runs)
RunActive == Last # 0 /\ runs[Last].status \in {"ACTIVE", "CANCELLING"}
Source(c) == runs[corr[c].src]
Stale(r)  == runs[r].plan # plan \/ runs[r].tree # tree

\* Mutant: the failure of a run is not recorded.
RunEnds_Unrecorded(r, status, failure) == runs' = [runs EXCEPT ![r].status = status]
RunEnds(r, status, failure) == runs' = [runs EXCEPT ![r].status = status, ![r].failure = failure]

\* projectVerificationAcceptanceGate: the latest run, whatever it was started for, must be a
\* current passing one.
Ready == Last # 0 /\ ~Stale(Last) /\ runs[Last].status = "PASSED"

\* The correction a new run belongs to, read when it is reserved.
RunFor == IF wf.stage = "QA" THEN wf.ver ELSE 0

\* START_VERIFICATION_RUN and RETRY_VERIFICATION_RUN: whoever asks, the pipeline lives and no stage
\* and no other run has the workspace.
Reserve ==
    /\ Live /\ wf.status # "RUNNING" /\ ~RunActive /\ Last < MaxRuns
    /\ runs' = Append(runs, [status |-> "ACTIVE", tree |-> tree, plan |-> plan, ver |-> RunFor, failure |-> "NONE"])

\* The owner's run and retry.
OwnerRun == daemon = "UP" /\ Reserve /\ UNCHANGED <<daemon, tree, plan, wf, corr>>

\* beforeBrowserQA starts a run of its own when there is none, or none for the correction of the attempt.
GateRun ==
    /\ daemon = "UP" /\ AtQA /\ ~Ready /\ Reserve
    /\ Last # 0 => Active(wf.ver) /\ runs[Last].ver # wf.ver /\ (Stale(Last) => runs[Last].failure # "NONE")
    /\ UNCHANGED <<daemon, tree, plan, wf, corr>>

\* CANCEL_VERIFICATION_RUN, then FINALIZE_VERIFICATION_RUN_CANCELLATION, which records the failure
\* and leaves the workflow alone.
CancelRun ==
    /\ daemon = "UP" /\ RunActive /\ runs[Last].status = "ACTIVE"
    /\ RunEnds(Last, "CANCELLING", "NONE")
    /\ UNCHANGED <<daemon, tree, plan, wf, corr>>

FinalizeCancel ==
    /\ daemon = "UP" /\ RunActive /\ runs[Last].status = "CANCELLING"
    /\ RunEnds(Last, "CANCELLED", "INTERRUPTED")
    /\ UNCHANGED <<daemon, tree, plan, wf, corr>>

----
(* What a failed run does to the workflow *)

\* persistVerificationFailureWorkflow chooses a transition from the run, the budget and the
\* attempt; decideInitial..., decideInitial...Gate and decideSubsequent... may each refuse it.
IsInitial(r)    == runs[r].ver = 0 /\ CanStart /\ AtQA /\ wf.ver = 0
IsMixedGate(r)  == runs[r].ver = 0 /\ ~CanStart /\ wf.qa # 0 /\ wf.ver = 0
IsSubsequent(r) == runs[r].ver # 0

\* One open correction of each evaluator: the unique index refuses another.
InitialAccepted == OpenOf("V") = {} /\ (wf.qa # 0 => Active(wf.qa))
Initial(r) ==
    /\ corr' = Append(corr, NewCorrection("V", wf.qa, r))
    /\ Fix(wf.qa, Len(corr) + 1)

MixedGateAccepted == AtQA /\ Active(wf.qa)
MixedGate == Hold("GATE_V") /\ UNCHANGED corr

SubsequentAccepted(r) ==
    LET c == runs[r].ver
    IN  /\ Active(c) /\ runs[r].plan = Source(c).plan /\ runs[r].tree # Source(c).tree
        /\ AtQA /\ wf.qa = corr[c].resumes /\ wf.ver = c
        /\ CanStart => c = Len(corr) /\ OpenOf("V") = {c}
Superseded(c) == Ended(c, "SUPERSEDED")
Subsequent(r) ==
    LET c == runs[r].ver
    IN  \/ /\ CanStart
           /\ corr' = Append(Superseded(c), NewCorrection("V", wf.qa, r))
           /\ Fix(wf.qa, Len(corr) + 1)
        \/ ~CanStart /\ corr' = Ended(c, "EXHAUSTED") /\ Hold("GATE_V")

FailureAccepted(r) ==
    Pending => /\ IsInitial(r) => InitialAccepted
               /\ IsMixedGate(r) => MixedGateAccepted
               /\ IsSubsequent(r) => SubsequentAccepted(r)
FailureWorkflow(r) ==
    /\ FailureAccepted(r)
    /\ \/ Pending /\ IsInitial(r) /\ Initial(r)
       \/ Pending /\ IsMixedGate(r) /\ MixedGate
       \/ Pending /\ IsSubsequent(r) /\ Subsequent(r)
       \/ ~(Pending /\ (IsInitial(r) \/ IsMixedGate(r) \/ IsSubsequent(r))) /\ UNCHANGED <<wf, corr>>

\* COMPLETE_VERIFICATION_CHECK with the verdict FAILED or ERROR.
RunFails ==
    /\ daemon = "UP" /\ RunActive /\ runs[Last].status = "ACTIVE"
    /\ RunEnds(Last, "FAILED", "FAILED")
    /\ FailureWorkflow(Last)
    /\ UNCHANGED <<daemon, tree, plan>>

----
(* What a passing run does to its correction *)

\* decidePassedVerificationCorrectionTransition
Answers(r, c) ==
    \/ Source(c).failure = "STALE"
    \/ /\ Source(c).failure = "FAILED"
       /\ runs[r].plan = Source(c).plan /\ runs[r].tree # Source(c).tree

\* decidePassedVerificationCorrectionQAHandoff: a fresh QA attempt for both corrections.
HandoffAccepted(c) == AtQA /\ wf.qa = corr[c].resumes /\ wf.ver = c /\ Active(wf.qa)

\* A run for no correction, or for one that passed before, changes none.
PassAccepted(r) ==
    LET c == runs[r].ver
    IN  c # 0 => \/ Active(c) /\ Answers(r, c) /\ (corr[c].resumes # 0 => HandoffAccepted(c))
                 \/ corr[c].status = "PASSED"
Passed(c) == Ended(c, "PASSED")

RunPasses ==
    /\ daemon = "UP" /\ RunActive /\ runs[Last].status = "ACTIVE"
    /\ PassAccepted(Last)
    /\ RunEnds(Last, "PASSED", "NONE")
    /\ corr' = IF Active(runs[Last].ver) THEN Passed(runs[Last].ver) ELSE corr
    /\ UNCHANGED <<daemon, tree, plan, wf>>

\* A passing run that no longer holds is a failure of its own, of the correction it passed if any.
BecameStale(r) == runs[r].status = "PASSED" /\ Stale(r) /\ runs[r].failure = "NONE"

\* decideStaleVerificationFailureTransition
StaleAccepted(r) ==
    /\ runs[r].ver = wf.ver
    /\ wf.qa # 0 => Active(wf.qa)
    /\ wf.ver # 0 => corr[wf.ver].status = "PASSED" /\ corr[wf.ver].resumes = wf.qa
    /\ IF CanStart THEN OpenOf("V") = {} ELSE wf.qa # 0 \/ wf.ver # 0

\* MATERIALIZE_STALE_VERIFICATION_FAILURE
MaterializeStale ==
    /\ daemon = "UP" /\ AtQA /\ Last # 0 /\ BecameStale(Last) /\ StaleAccepted(Last)
    /\ IF CanStart THEN Initial(Last) ELSE MixedGate
    /\ runs' = [runs EXCEPT ![Last].failure = "STALE"]
    /\ UNCHANGED <<daemon, tree, plan>>

----
(* The owner's gate after a failed verification *)

OfCorrection(v) == {r \in DOMAIN runs : runs[r].ver = v /\ runs[r].failure # "NONE"}
Latest(S) == {r \in S : \A s \in S : s <= r}
Decisive(r) == runs[r].failure \in {"FAILED", "STALE"} \/ runs[r].status = "INTERRUPTED"

\* decideVerificationCorrectionGateResolution: the gate of the correction of the attempt, on the
\* failure that is now its latest.
StaleGate(r)    == corr[wf.ver].status = "PASSED" /\ runs[r].failure = "STALE"
MeasuredGate(r) ==
    /\ corr[wf.ver].status = "EXHAUSTED" /\ Decisive(r) /\ runs[r].failure # "STALE"
    /\ runs[r].plan = Source(wf.ver).plan /\ runs[r].tree # Source(wf.ver).tree
OwnGateAccepted(r) ==
    /\ wf.ver # 0 /\ (StaleGate(r) \/ MeasuredGate(r))
    /\ wf.qa = corr[wf.ver].resumes /\ (wf.qa # 0 => Active(wf.qa))
    /\ wf.ver = MaxTotal - 1 <=> CanAuthorize

\* decideMixedVerificationCorrectionGateResolution: the gate of a QA correction whose verification failed.
MixedResolutionAccepted(r) == wf.ver = 0 /\ wf.qa # 0 /\ Active(wf.qa) /\ Decisive(r)

GateAccepted(r) == wf.status = "GATE_V" /\ (OwnGateAccepted(r) \/ MixedResolutionAccepted(r))

\* Mutant: the gate of stale evidence rewrites the correction that had passed.
Settled_Any(status) == IF wf.ver = 0 THEN corr ELSE Ended(wf.ver, status)
\* A correction that passed stays passed, whatever became of its evidence.
Settled(status) == IF wf.ver # 0 /\ corr[wf.ver].status = "EXHAUSTED" THEN Ended(wf.ver, status) ELSE corr

\* AUTHORIZE_FINAL
AuthorizeVerification ==
    /\ daemon = "UP" /\ CanAuthorize /\ OpenOf("V") \subseteq {wf.ver}
    /\ \E r \in Latest(OfCorrection(wf.ver)) :
         /\ GateAccepted(r)
         /\ corr' = Append(Settled("SUPERSEDED"), NewCorrection("V", wf.qa, r))
    /\ Fix(wf.qa, Len(corr) + 1)
    /\ UNCHANGED <<daemon, tree, plan, runs>>

\* Mutant: the suspended correction outlives the delivery.
WithSuspended_None(table) == table
\* A suspended QA correction ends with the delivery.
WithSuspended(table) == IF wf.qa = 0 THEN table ELSE [table EXCEPT ![wf.qa].status = "CANCELLED"]

\* CANCEL_DELIVERY
CancelAtVerificationGate ==
    /\ daemon = "UP" /\ \E r \in Latest(OfCorrection(wf.ver)) : GateAccepted(r)
    /\ corr' = WithSuspended(Settled("CANCELLED"))
    /\ Hold("CANCELLED")
    /\ UNCHANGED <<daemon, tree, plan, runs>>

----
(* Browser QA *)

\* Mutant: QA starts without looking at the verification gate.
QAMayStart_Ungated == TRUE
\* beforeBrowserQA and RESERVE_QA_RUN: the attempt works for the open QA correction, or there is none.
QAMayStart == Ready
StartQA ==
    /\ daemon = "UP" /\ AtQA /\ QAMayStart /\ ~RunActive
    /\ IF wf.qa = 0 THEN OpenQA = {} ELSE OpenQA = {wf.qa} /\ Active(wf.qa)
    /\ Hold("RUNNING")
    /\ UNCHANGED <<daemon, tree, plan, corr, runs>>

InQA == daemon = "UP" /\ wf.stage = "QA" /\ wf.status = "RUNNING"

\* decideFailedQACorrectionTransition: a correction with a retest plan of its own, which starts
\* a verification lineage of its own.
QACorrects ==
    /\ corr' = Append(Ended(wf.qa, "SUPERSEDED"), NewCorrection("QA", 0, 0))
    /\ Fix(Len(corr) + 1, 0)
QAWaitsForOwner == corr' = Ended(wf.qa, "EXHAUSTED") /\ Hold("GATE_QA")

\* COMPLETE_QA_RUN with the verdict FAILED.
QAFails ==
    /\ InQA
    /\ IF CanStart THEN QACorrects ELSE QAWaitsForOwner
    /\ UNCHANGED <<daemon, tree, plan, runs>>

\* decidePassedQACorrectionTransition: a passing retest closes the correction.
QAPasses ==
    /\ InQA
    /\ corr' = Ended(wf.qa, "PASSED")
    /\ To("ACCEPTANCE")
    /\ UNCHANGED <<daemon, tree, plan, runs>>

\* RESOLVE_QA_CORRECTION_GATE, which decideQACorrectionGateResolution answers with a correction or the end.
QAGateAccepted == daemon = "UP" /\ wf.status = "GATE_QA"
AuthorizeQA ==
    /\ QAGateAccepted /\ CanAuthorize
    /\ QACorrects
    /\ UNCHANGED <<daemon, tree, plan, runs>>

CancelAtQAGate ==
    /\ QAGateAccepted
    /\ corr' = Ended(wf.qa, "CANCELLED")
    /\ Hold("CANCELLED")
    /\ UNCHANGED <<daemon, tree, plan, runs>>

----
(* The other stages, the owner and the daemon *)

\* The stages before QA end with some tree; they and a run exclude each other.
Implement(t) ==
    /\ daemon = "UP" /\ wf.stage = "IMPLEMENT" /\ wf.status = "QUEUED" /\ ~RunActive
    /\ tree' = t /\ To("QA")
    /\ UNCHANGED <<daemon, plan, corr, runs>>

\* READY_FOR_ACCEPTANCE: the verification gate and the QA lineage are looked at once, here.
QALineageComplete ==
    LET qas == {c \in DOMAIN corr : corr[c].kind = "QA"}
    IN  wf.qa # 0 => \A c \in qas : corr[c].status = IF c \in Latest(qas) THEN "PASSED" ELSE "SUPERSEDED"
PrepareAcceptance ==
    /\ daemon = "UP" /\ wf.stage = "ACCEPTANCE" /\ wf.status = "QUEUED"
    /\ Ready /\ QALineageComplete
    /\ Hold("PREPARED")
    /\ UNCHANGED <<daemon, tree, plan, corr, runs>>

\* RESOLVE_ACCEPTANCE ends the pipeline whatever the owner answers.
ResolveAcceptance ==
    /\ daemon = "UP" /\ wf.status = "PREPARED" /\ Hold("DONE")
    /\ UNCHANGED <<daemon, tree, plan, corr, runs>>

\* A pause, or an outcome that needs a human, withdraws the dispatch and touches no correction.
PausePipeline ==
    /\ daemon = "UP" /\ Pending /\ Hold("PAUSED") /\ UNCHANGED <<daemon, tree, plan, corr, runs>>
ResumePipeline ==
    /\ daemon = "UP" /\ wf.status = "PAUSED" /\ Hold("QUEUED") /\ UNCHANGED <<daemon, tree, plan, corr, runs>>

\* CANCEL_PIPELINE ends the open QA correction and the open correction of the attempt. Those
\* of a nested pair are both written, the QA correction twice with one version, which is refused.
OpenV == IF wf.ver # 0 /\ Open(wf.ver) THEN wf.ver ELSE 0
\* decideQACorrectionCancellation and decideVerificationCorrectionCancellation
QACancellable == OpenQA \subseteq {wf.qa}
VCancellable  == corr[OpenV].resumes = wf.qa /\ (wf.qa # 0 => Active(wf.qa))
CancelAccepted ==
    /\ QACancellable
    /\ OpenV # 0 => VCancellable /\ OpenQA = {}
CancelPipeline ==
    /\ daemon = "UP" /\ Live /\ wf.status # "PREPARED" /\ CancelAccepted
    /\ corr' = IF OpenV # 0 THEN Ended(OpenV, "CANCELLED")
               ELSE IF OpenQA # {} THEN Ended(wf.qa, "CANCELLED") ELSE corr
    /\ Hold("CANCELLED")
    /\ UNCHANGED <<daemon, tree, plan, runs>>

\* ADOPT_VERIFICATION_PLAN and its publication look at no run and at no pipeline.
PublishPlan ==
    /\ daemon = "UP" /\ plan < MaxPlans /\ plan' = plan + 1
    /\ UNCHANGED <<daemon, tree, wf, corr, runs>>

\* A stop of the daemon matters here only to a run.
Crash == daemon = "UP" /\ RunActive /\ daemon' = "DOWN" /\ UNCHANGED <<tree, plan, wf, corr, runs>>

\* The startup reconciles the run it left; a decision that refuses is an error of the startup.
Restart ==
    /\ daemon = "DOWN" /\ daemon' = "UP"
    /\ \/ /\ runs[Last].status = "CANCELLING"
          /\ RunEnds(Last, "CANCELLED", "INTERRUPTED") /\ UNCHANGED <<wf, corr>>
       \/ /\ runs[Last].status = "ACTIVE"
          /\ RunEnds(Last, "INTERRUPTED", "INTERRUPTED") /\ FailureWorkflow(Last)
    /\ UNCHANGED <<tree, plan>>

Next ==
    \/ OwnerRun \/ GateRun \/ CancelRun \/ FinalizeCancel \/ RunFails \/ RunPasses \/ MaterializeStale
    \/ AuthorizeVerification \/ CancelAtVerificationGate
    \/ StartQA \/ QAFails \/ QAPasses \/ AuthorizeQA \/ CancelAtQAGate
    \/ \E t \in Tree : Implement(t)
    \/ PrepareAcceptance \/ ResolveAcceptance \/ PausePipeline \/ ResumePipeline \/ CancelPipeline
    \/ PublishPlan \/ Crash \/ Restart

Spec == Init /\ [][Next]_vars

----
(* What holds *)

Bypassed(c) ==
    /\ corr[c].kind = "V"
    /\ \E r \in corr[c].src .. Last : runs[r].status = "PASSED" /\ runs[r].ver # c

\* QA and verification together never take more than the three corrections of one delivery, and
\* at most one of them is open per evaluator (MAX_TOTAL_CORRECTION_RUNS; the unique indexes on
\* the open corrections of a pipeline).
SharedBudget ==
    /\ Len(corr) <= MaxTotal
    /\ \A c, d \in DOMAIN corr : Open(c) /\ Open(d) /\ corr[c].kind = corr[d].kind => c = d

\* An open QA correction is the one the live attempt works for, whatever happened to the
\* verification corrections above it. One nobody works on would refuse every later QA run.
QACorrectionIsWorkedOn == \A q \in OpenQA : Live /\ wf.qa = q

\* An open verification correction is the one the attempt works for, and resumes its QA correction,
\* unless a passing run that is not for it let the delivery go on (see CorrectionIsReverified).
VerificationCorrectionIsWorkedOn ==
    \A c \in OpenOf("V") :
        \/ Live /\ wf.ver = c /\ corr[c].resumes = wf.qa /\ (wf.qa # 0 => Active(wf.qa))
        \/ Bypassed(c)

\* No open correction is left behind: neither kind, however they nest.
CorrectionIsWorkedOn == QACorrectionIsWorkedOn /\ VerificationCorrectionIsWorkedOn

\* Whatever the cycles were, a delivery that reached the owner's decision ended them all: every
\* correction passed or was superseded, with the same exception.
AcceptedCorrectionsPassed ==
    wf.status \in {"PREPARED", "DONE"} =>
        \A c \in DOMAIN corr : corr[c].status \in {"PASSED", "SUPERSEDED"} \/ Bypassed(c)

\* QA never runs and no delivery is prepared for acceptance on a tree the project verification
\* has not passed under the plan of the run: a correction always re-verifies before QA.
QAIsVerified ==
    (wf.stage = "QA" /\ wf.status = "RUNNING") \/ wf.stage = "ACCEPTANCE" =>
        \E r \in DOMAIN runs : runs[r].status = "PASSED" /\ runs[r].tree = tree

\* What QA measures and the owner accepts has passed, and nothing of it is still being corrected.
DeliveryIsVerified == AcceptedCorrectionsPassed /\ QAIsVerified

\* A correction that ended stays as it ended, through reruns, resumed gates and restarts, and
\* none is forgotten.
ClosedStaysClosed ==
    [][\A c \in DOMAIN corr : c \in DOMAIN corr' /\ (~Open(c) => corr'[c] = corr[c])]_vars

----
(* What does not: see the README *)

\* docs/plans/80-q17: an interruption by the daemon moves the gate in the same transaction, by
\* startup reconciliation too. So a daemon that is down can reconcile the run it left.
StartupReconciles == daemon = "DOWN" /\ runs[Last].status = "ACTIVE" => FailureAccepted(Last)

\* The owner can cancel a delivery in the middle of any correction, a nested one too.
DeliveryCanBeCancelled == Live /\ wf.status \notin {"PREPARED", "GATE_QA", "GATE_V"} => CancelAccepted

\* docs/plans/79-q17: after the fix and its review the verification runs again. So QA never runs
\* for a correction that no run has passed.
CorrectionIsReverified == wf.stage = "QA" /\ wf.status = "RUNNING" => OpenOf("V") = {}
=============================================================================
