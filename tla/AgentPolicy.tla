---------------------------- MODULE AgentPolicy ----------------------------
\* What one pipeline run's agents may do.  The scheduler captures a provider
\* for each attempt, START_AGENT_RUN pins a policy drawn from the squad, the
\* stage, the budget and the owner's grants, and the sessions of the AgentRun
\* work under that policy while the owner changes what it was drawn from.
EXTENDS Naturals

CONSTANTS
    Tool,           \* MCP profile revisions
    InitialMax, MaxTokens, MaxReport, MaxChanges,
    ManagerCap, ProfileCap      \* budgetEnvelope.maxEstimatedTokens, of the coordinator and of the others

VARIABLES
    squad,          \* the SquadAssignment's revision
    environment,    \* LOOMRAIL_PROVIDER
    ready,          \* the last probe of each provider
    preference,     \* of the Project
    grant,          \* of the Project's latest revisions
    attempt,        \* the current StageAttempt
    adapter,        \* what scheduling captured for its dispatch
    policy,         \* the current BudgetPolicy
    used,           \* the tokens of the pipeline's UsageRecords
    run,            \* the attempt's AgentRun
    author,         \* the provider of the latest succeeded developer's AgentRun
    session,        \* its ProviderSession
    changes         \* how often the owner and the probes changed something

vars == <<squad, environment, ready, preference, grant, attempt, adapter, policy, used, run, author,
          session, changes>>

AgentProvider == {"CODEX", "CLAUDE_CODE"}
\* DISCOVERY is as PLAN of a standard squad.
Stage == {"PLAN", "IMPLEMENT", "REVIEW", "QA", "ACCEPTANCE"}

NoAdapter == [provider |-> "NONE", startable |-> FALSE, eligible |-> {}]
NoRun == [status |-> "NONE", provider |-> "NONE", access |-> "NONE", tools |-> {}, max |-> 0, used |-> 0]
NoSession == [open |-> FALSE, provider |-> "NONE", tools |-> {}, granted |-> {}, eligible |-> {}]

TypeOK ==
    /\ squad \in {"NONE", "STANDARD", "CODE_BLIND", "LEGACY"}
    /\ environment \in AgentProvider \cup {"NONE", "INVALID"}
    /\ ready \in [AgentProvider -> BOOLEAN] /\ preference \in AgentProvider \cup {"AUTO"}
    /\ grant \in [Tool -> {"NONE", "ENABLED", "REVOKED"}]
    /\ attempt \in [stage : Stage, status : {"QUEUED", "RUNNING", "WAITING_HUMAN", "HARD_PAUSED",
                                             "INTERRUPTED", "SUCCEEDED"}, started : BOOLEAN]
    /\ adapter \in [provider : AgentProvider \cup {"NONE"}, startable : BOOLEAN,
                   eligible : SUBSET AgentProvider]
    /\ policy \in [max : 1 .. MaxTokens, agentMax : 0 .. MaxTokens]
    /\ used \in Nat
    /\ run \in [status : {"NONE", "RUNNING", "ENDED"}, provider : AgentProvider \cup {"NONE"},
                access : {"NONE", "READ_ONLY", "READ_WRITE"}, tools : SUBSET Tool, max : Nat, used : Nat]
    /\ author \in AgentProvider \cup {"NONE"}
    /\ session \in [open : BOOLEAN, provider : AgentProvider \cup {"NONE"}, tools : SUBSET Tool,
                    granted : SUBSET Tool, eligible : SUBSET AgentProvider]
    /\ changes \in 0 .. MaxChanges

\* selectEnabledLatestMcpGrantsForProject
Granted == {tool \in Tool : grant[tool] = "ENABLED"}

Least(m, n) == IF m <= n THEN m ELSE n

----
(* The policy of an AgentRun *)

\* The stage is the code-blind coordinator's.
Manager == squad = "CODE_BLIND" /\ attempt.stage = "PLAN"

\* builtinAgentProfiles: what the stage's profile allows.
Allowed ==
    CASE Manager -> {}
      [] attempt.stage = "PLAN" /\ ~Manager -> {"REPOSITORY_READ", "MCP_READ"}
      [] attempt.stage = "IMPLEMENT" -> {"REPOSITORY_READ", "REPOSITORY_WRITE", "NETWORK", "MCP_READ"}
      [] attempt.stage = "REVIEW" -> {"REPOSITORY_READ", "MCP_READ"}
      [] attempt.stage = "QA" -> {"REPOSITORY_READ", "BROWSER_READ"}
      [] attempt.stage = "ACCEPTANCE" -> {}

\* stageCapabilityCeiling: what the stage permits, whoever works on it.
Ceiling ==
    (IF attempt.stage = "ACCEPTANCE" THEN {} ELSE {"REPOSITORY_READ"})
    \cup (IF attempt.stage = "IMPLEMENT" THEN {"REPOSITORY_WRITE", "NETWORK"} ELSE {})
    \cup (IF Granted # {} THEN {"MCP_READ"} ELSE {})
    \cup (IF attempt.stage = "QA" THEN {"BROWSER_READ"} ELSE {})

Capabilities == Allowed \cap Ceiling

Access ==
    CASE "REPOSITORY_WRITE" \in Capabilities -> "READ_WRITE"
      [] "REPOSITORY_WRITE" \notin Capabilities /\ "REPOSITORY_READ" \in Capabilities -> "READ_ONLY"
      [] Capabilities \cap {"REPOSITORY_WRITE", "REPOSITORY_READ"} = {} -> "NONE"

\* Mutant: an owner's override lifts the coordinator's cap as well.
AgentCap_Override == IF policy.agentMax # 0 THEN policy.agentMax ELSE IF Manager THEN ManagerCap ELSE ProfileCap

AgentCap ==
    LET requested == IF policy.agentMax # 0 THEN policy.agentMax ELSE IF Manager THEN ManagerCap ELSE ProfileCap
    IN  IF Manager THEN Least(requested, ManagerCap) ELSE requested

----
(* The provider of an attempt *)

Override == IF environment \in AgentProvider THEN environment ELSE "NONE"

\* REVIEW avoids the developer's provider.
\* Mutant: it does not.
Avoided_Nobody == "NONE"
Avoided == IF attempt.stage = "REVIEW" THEN author ELSE "NONE"

Eligible == {p \in AgentProvider : ready[p]}

\* AUTO: the first eligible provider in the order of the list, with the avoided one at its end.
First ==
    LET fit == Eligible \ {Avoided}
    IN  CASE "CODEX" \in fit -> "CODEX"
          [] fit = {"CLAUDE_CODE"} -> "CLAUDE_CODE"
          [] fit = {} -> IF Eligible # {} THEN Avoided ELSE "CODEX"

\* resolve
Resolved ==
    LET provider == CASE Manager -> "CODEX"
                      [] ~Manager /\ environment = "INVALID" -> "CODEX"
                      [] ~Manager /\ environment # "INVALID" ->
                             IF Override # "NONE" THEN Override
                             ELSE IF preference # "AUTO" THEN preference ELSE First
    IN  [provider |-> provider,
         startable |-> ready[provider] /\ environment # "INVALID" /\ (Manager => Override \in {"NONE", "CODEX"}),
         eligible |-> IF Override = "NONE" /\ preference = "AUTO" THEN Eligible ELSE {}]

\* planDispatchBatch defers an attempt that has a running AgentRun.
\* Mutant: it does not.
Unclaimed_Any == TRUE
Unclaimed == run.status # "RUNNING"

Schedule ==
    /\ attempt.status \in {"QUEUED", "RUNNING"} /\ adapter = NoAdapter
    /\ Unclaimed
    /\ adapter' = Resolved
    /\ UNCHANGED <<squad, environment, ready, preference, grant, attempt, policy, used, run, author, session, changes>>

\* Only Browser QA awaits between the two: its verification gate.
Atomic == adapter # NoAdapter /\ attempt.status = "QUEUED" /\ attempt.stage # "QA"

----
(* executeDispatch, with START_AGENT_RUN and the sessions *)

\* The squad of the first START_AGENT_RUN, and the stage that squads once lacked.
Assigned ==
    CASE squad = "NONE" -> "STANDARD"
      [] squad = "LEGACY" /\ attempt.stage = "ACCEPTANCE" -> "STANDARD"
      [] squad = "CODE_BLIND" \/ squad = "STANDARD" \/ (squad = "LEGACY" /\ attempt.stage # "ACCEPTANCE") -> squad

Remaining == policy.max - used

\* resolveAgentRunPolicy
Pinned ==
    [status |-> "RUNNING", provider |-> adapter.provider, access |-> Access,
     tools |-> IF "MCP_READ" \in Capabilities THEN Granted ELSE {},
     max |-> Least(AgentCap, Remaining), used |-> 0]

StartAgentRun ==
    /\ attempt.status = "QUEUED" /\ adapter # NoAdapter
    /\ squad' = Assigned
    /\ IF used >= policy.max
       THEN /\ attempt' = [attempt EXCEPT !.status = "HARD_PAUSED"]
            /\ adapter' = NoAdapter
            /\ UNCHANGED run
       ELSE /\ attempt' = [attempt EXCEPT !.status = "RUNNING", !.started = TRUE]
            /\ run' = Pinned
            /\ UNCHANGED adapter
    /\ UNCHANGED <<environment, ready, preference, grant, policy, used, author, session, changes>>

Ended == [run EXCEPT !.status = "ENDED"]
Working == attempt.status = "RUNNING" /\ adapter # NoAdapter /\ ~session.open

\* decideDispatchStage refuses: the owner is asked why no session starts.
Refuse ==
    /\ Working /\ ~adapter.startable
    /\ attempt' = [attempt EXCEPT !.status = "WAITING_HUMAN"]
    /\ run' = Ended /\ adapter' = NoAdapter
    /\ UNCHANGED <<squad, environment, ready, preference, grant, policy, used, author, session, changes>>

\* Mutant: whatever the owner enabled since.
Snapshots_All == Granted
Snapshots == run.tools \cap Granted

\* START_PROVIDER_SESSION, for the adapter that scheduling captured.
OpenSession ==
    /\ Working /\ adapter.startable
    /\ session' = [open |-> TRUE, provider |-> adapter.provider, tools |-> Snapshots,
                   granted |-> Granted, eligible |-> adapter.eligible]
    /\ UNCHANGED <<squad, environment, ready, preference, grant, attempt, adapter, policy, used, run, author, changes>>

\* A throw before a session, such as Browser QA's: the attempt stays RUNNING with its AgentRun.
Throw ==
    /\ Working
    /\ adapter' = NoAdapter
    /\ UNCHANGED <<squad, environment, ready, preference, grant, attempt, policy, used, run, author, session, changes>>

\* beforeBrowserQA did not let the stage start, or the daemon did not live to: the dispatch is scheduled again.
Withdraw ==
    /\ attempt.status = "QUEUED" /\ attempt.stage = "QA" /\ adapter # NoAdapter
    /\ adapter' = NoAdapter
    /\ UNCHANGED <<squad, environment, ready, preference, grant, attempt, policy, used, run, author, session, changes>>

\* decideRecordProviderUsage
\* Mutant: only the pipeline's cap pauses.
Exhausts_Pipeline(amount) == used + amount >= policy.max
Exhausts(amount) == used + amount >= policy.max \/ run.used + amount >= run.max

Follows(stage) ==
    CASE stage = "PLAN" -> {"IMPLEMENT"}
      [] stage = "IMPLEMENT" -> {"REVIEW"}
      [] stage = "REVIEW" -> {"IMPLEMENT", "QA"}
      [] stage = "QA" -> {"IMPLEMENT", "ACCEPTANCE"}
      [] stage = "ACCEPTANCE" -> {}

Reports(amount) == used' = used + amount

\* decideApplyProviderOutcomeWithUsage: the result stands, and the next attempt waits if it was too dear.
StageResult ==
    /\ session.open
    /\ \E amount \in 0 .. MaxReport :
           /\ Reports(amount)
           /\ \/ \E next \in Follows(attempt.stage) :
                     attempt' = [stage |-> next, status |-> IF Exhausts(amount) THEN "HARD_PAUSED" ELSE "QUEUED",
                                 started |-> FALSE]
              \/ attempt.stage = "ACCEPTANCE" /\ attempt' = [attempt EXCEPT !.status = "SUCCEEDED"]
              \/ attempt' = [attempt EXCEPT !.status = "WAITING_HUMAN"]
    /\ author' = IF attempt.stage = "IMPLEMENT" /\ attempt'.stage = "REVIEW" THEN run.provider ELSE author
    /\ run' = Ended /\ session' = NoSession /\ adapter' = NoAdapter
    /\ UNCHANGED <<squad, environment, ready, preference, grant, policy, changes>>

\* A session that ended without a result: the AgentRun goes on with another, or is paused.
SessionEnds ==
    /\ session.open
    /\ \E amount \in 0 .. MaxReport :
           /\ Reports(amount)
           /\ IF Exhausts(amount)
              THEN /\ attempt' = [attempt EXCEPT !.status = "HARD_PAUSED"]
                   /\ run' = Ended /\ adapter' = NoAdapter
              ELSE /\ run' = [run EXCEPT !.used = @ + amount]
                   /\ UNCHANGED <<attempt, adapter>>
    /\ session' = NoSession
    /\ UNCHANGED <<squad, environment, ready, preference, grant, policy, author, changes>>

\* The daemon starts again: RECONCILE_WORKFLOWS.
Restart ==
    /\ attempt.status = "RUNNING"
    /\ attempt' = [attempt EXCEPT !.status = "INTERRUPTED"]
    /\ run' = Ended /\ session' = NoSession /\ adapter' = NoAdapter
    /\ UNCHANGED <<squad, environment, ready, preference, grant, policy, used, author, changes>>

----
(* The owner, and the probes *)

\* ANSWER_HUMAN_REQUEST and RESUME_PIPELINE
Requeue ==
    /\ attempt.status \in {"WAITING_HUMAN", "INTERRUPTED"}
    /\ attempt' = [attempt EXCEPT !.status = "QUEUED"]
    /\ UNCHANGED <<squad, environment, ready, preference, grant, adapter, policy, used, run, author, session, changes>>

\* APPROVE_BUDGET_OVERRIDE: the pipeline's limit is not lowered and exceeds what was used, and one is raised.
AgentLimit == IF attempt.started /\ run.max > policy.agentMax THEN run.max ELSE policy.agentMax

ApproveBudgetOverride ==
    /\ attempt.status = "HARD_PAUSED"
    /\ \E max \in policy.max .. MaxTokens, agentMax \in 0 .. MaxTokens :
           /\ max > used
           /\ max > policy.max \/ agentMax > AgentLimit
           /\ policy' = [max |-> max, agentMax |-> agentMax]
    /\ attempt' = [attempt EXCEPT !.status = "QUEUED", !.started = FALSE]
    /\ UNCHANGED <<squad, environment, ready, preference, grant, adapter, used, run, author, session, changes>>

Changes == changes < MaxChanges /\ changes' = changes + 1 /\ ~Atomic

\* Refused while the environment decides.
ChangePreference ==
    /\ Changes /\ environment = "NONE"
    /\ \E chosen \in (AgentProvider \cup {"AUTO"}) \ {preference} : preference' = chosen
    /\ UNCHANGED <<squad, environment, ready, grant, attempt, adapter, policy, used, run, author, session>>

Refresh ==
    /\ Changes
    /\ \E p \in AgentProvider : ready' = [ready EXCEPT ![p] = ~@]
    /\ UNCHANGED <<squad, environment, preference, grant, attempt, adapter, policy, used, run, author, session>>

\* A revoked grant is not enabled again.
ChangeGrant ==
    /\ Changes
    /\ \E tool \in Tool : \/ grant[tool] = "NONE" /\ grant' = [grant EXCEPT ![tool] = "ENABLED"]
                          \/ grant[tool] = "ENABLED" /\ grant' = [grant EXCEPT ![tool] = "REVOKED"]
    /\ UNCHANGED <<squad, environment, ready, preference, attempt, adapter, policy, used, run, author, session>>

\* LOOMRAIL_PROVIDER = CODEX takes CLAUDE_CODE's part.
Init ==
    /\ squad \in {"NONE", "CODE_BLIND", "LEGACY"}
    /\ environment \in {"NONE", "CLAUDE_CODE", "INVALID"}
    /\ ready = [p \in AgentProvider |-> TRUE] /\ preference = "AUTO"
    /\ \E tool \in Tool : grant = [t \in Tool |-> IF t = tool THEN "ENABLED" ELSE "NONE"]
    /\ attempt = [stage |-> "PLAN", status |-> "QUEUED", started |-> FALSE]
    /\ adapter = NoAdapter /\ run = NoRun /\ session = NoSession
    /\ policy = [max |-> InitialMax, agentMax |-> 0]
    /\ used = 0 /\ author = "NONE" /\ changes = 0

Next ==
    \/ Schedule \/ StartAgentRun \/ Refuse \/ OpenSession \/ Throw \/ Withdraw
    \/ StageResult \/ SessionEnds \/ Restart
    \/ Requeue \/ ApproveBudgetOverride \/ ChangePreference \/ Refresh \/ ChangeGrant

Spec == Init /\ [][Next]_vars

----

\* The coordinator sees no code: whatever the owner overrides, grants or retries, its session is
\* CODEX's, without tools and without the repository, within its own small cap.
CoordinatorIsBlind ==
    session.open /\ Manager =>
        /\ session.provider = "CODEX" /\ session.tools = {}
        /\ run.access = "NONE" /\ run.max <= ManagerCap

\* A session has the tools of its AgentRun that were still granted when it opened: a grant added
\* under way waits for the next AgentRun, and a revoked one is gone from the next session.
ToolsAreConsented == session.tools \subseteq run.tools \cap session.granted

\* A reviewer whose provider nobody chose is not the developer's, while another could be had.
ReviewerIsIndependent ==
    session.open /\ attempt.stage = "REVIEW" /\ session.provider = author =>
        session.eligible \subseteq {author}

\* A session opens with tokens left, and is worked by the provider that its AgentRun pinned, whose
\* model the snapshot names.
SessionIsFunded ==
    session.open => /\ run.used < run.max /\ used < policy.max
                    /\ run.status = "RUNNING" /\ session.provider = run.provider
=============================================================================
