------------------------------ MODULE Workbench ------------------------------
\* What the owner sees of a WorkItem's workflow and may do about it: the
\* panels of the Workbench page and the Attention Inbox, over the rows of
\* Workflow, and the commands that their controls send.
\*
\* Both read committed rows and keep none of their own; how old what they
\* show may be is the subject of LiveView.  A form that asks for numbers is
\* filled in with valid ones.
EXTENDS Workflow

\* readWorkflowSnapshot: the latest run of the WorkItem, whatever became of it.
Shown == {r \in RunId : /\ run[r].status # "NONE"
                        /\ \A other \in RunId : other > r => run[other].status = "NONE"}

----
(* The panels *)

StartOffered == Shown = {} /\ workItem = "READY"

\* Manual moves are withheld while the shown run is active.
MovesOffered == {target \in AllowedMove(workItem) : \A r \in Shown : ~Active(r)}

\* The first open question of the WorkItem that is not the package's.
\* Mutant: the package's question is one of them.
Questions_OfPackageToo(r) ==
    {q \in RequestId : request[q].status = "OPEN"
                       /\ \A other \in RequestId : other < q => request[other].status # "OPEN"}
Questions(r) ==
    LET open == {q \in RequestId : request[q].status = "OPEN" /\ q # run[r].packageRequest}
    IN  {q \in open : \A other \in open : q <= other}

\* HumanRequestAnswerForm: an option, or other words.
AnswerOffered(r, q) == q \in Questions(r)

ResolveOffered(r) == run[r].package = "PENDING"

ControlsShown(r) == Active(r) /\ run[r].package # "PENDING"
PauseOffered(r)  == ControlsShown(r) /\ run[r].status = "RUNNING"
ResumeOffered(r) == ControlsShown(r) /\ run[r].status \in {"SOFT_PAUSED", "INTERRUPTED"}
OverrideOffered(r) ==
    /\ ControlsShown(r) /\ run[r].status = "HARD_PAUSED"
    /\ attempt[run[r].current].code # "SESSION"

----
(* The routes: each executes its command on the latest run *)

StartSent ==
    \E r \in NextId(run), a \in NextId(attempt), d \in NextId(dispatch) : StartPipeline(r, a, d)
PauseSent(r) == \E a \in Current(r), inFlight \in BOOLEAN : PausePipeline(r, a, inFlight)
ResumeSent(r) == \E a \in Current(r), d \in NextId(dispatch) : ResumePipeline(r, a, d)
CancelSent(r) == \E a \in Current(r), inFlight \in BOOLEAN : CancelPipeline(r, a, inFlight)
OverrideSent(r) ==
    \E a \in Current(r), d \in NextId(dispatch), preserved \in BOOLEAN :
        \E b \in {a} \cup NextId(attempt) : ApproveBudgetOverride(r, a, b, d, preserved)
AnswerSent(r, q) ==
    \E a \in Current(r) :
        \/ CancelReviewLoop(r, a, q)
        \/ \E d \in NextId(dispatch) :
              \/ AnswerHumanRequest(r, a, q, d)
              \/ \E b \in NextId(attempt) : AuthorizeFinalFixRound(r, a, q, b, d)
ResolveSent(r, action) ==
    \E a \in Current(r) : ResolveAcceptance(r, a, run[r].packageRequest, action)

----
(* The Attention Inbox *)

InboxItems == {q \in RequestId : request[q].status = "OPEN"}

\* requireConsistentSource: one question that does not describe the WorkItem's current stage, and
\* the whole inbox fails to load.
Projectable(q) ==
    \E r \in Shown : attempt[run[r].current].stage = attempt[request[q].attempt].stage

\* actionFor: what the inbox lets the owner do with an item.
InboxAction(q) ==
    IF \E r \in RunId : run[r].package = "PENDING" /\ run[r].packageRequest = q
    THEN "REVIEW_ACCEPTANCE" ELSE "ANSWER_REQUEST"

----
(* What holds *)

\* The bounds leave room for what a command inserts.
Room == NextId(dispatch) # {} /\ NextId(attempt) # {}

\* Whatever the page offers, the daemon accepts: but for a resume while the paused turn still ends.
OfferedIsAccepted ==
    /\ StartOffered /\ Room => ENABLED StartSent
    /\ \A target \in MovesOffered : ENABLED MoveWorkItem(target)
    /\ \A r \in Shown :
          /\ PauseOffered(r) => ENABLED PauseSent(r)
          /\ ControlsShown(r) => ENABLED CancelSent(r)
          /\ Room =>
                /\ ResumeOffered(r) => (ENABLED ResumeSent(r) \/ attempt[run[r].current].agentRun)
                /\ OverrideOffered(r) => ENABLED OverrideSent(r)
                /\ \A q \in RequestId : AnswerOffered(r, q) => ENABLED AnswerSent(r, q)
          /\ ResolveOffered(r) =>
                \A action \in {"ACCEPTED", "RETURNED", "REJECTED"} : ENABLED ResolveSent(r, action)

\* A run that is active and stands still offers the owner a way to go on, and not only a cancel.
StoppedRunOffersAWay ==
    \A r \in RunId : Active(r) /\ run[r].status # "RUNNING" =>
        /\ r \in Shown
        /\ ResumeOffered(r) \/ OverrideOffered(r) \/ ResolveOffered(r) \/ Questions(r) # {}

\* The inbox loads, and what it asks the page of the WorkItem asks too, in the same way.
InboxAgrees ==
    \A q \in InboxItems :
        /\ Projectable(q)
        /\ \E r \in Shown : IF InboxAction(q) = "REVIEW_ACCEPTANCE"
                            THEN ResolveOffered(r) /\ run[r].packageRequest = q
                            ELSE AnswerOffered(r, q)

\* The owner, on whom every stopped run waits, always has a way to go on: what the page and the inbox
\* offer is what the daemon accepts, and a stopped run is offered more than its end.  A run that a
\* stale loop overruled may stand beside the one that is shown.
OwnerHasAWay == overruled = {} => OfferedIsAccepted /\ StoppedRunOffersAWay /\ InboxAgrees
=============================================================================
