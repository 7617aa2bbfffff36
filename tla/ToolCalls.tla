------------------------------ MODULE ToolCalls ------------------------------
\* The tool calls of an agent.  The proxy of a provider session sends them
\* to the gateway (packages/mcp-gateway/src/runtime.ts), which forwards a
\* call to the owner's MCP server or hands it to the workspace executor
\* (packages/workspace-executor/src/index.ts).  A call is on disk as STARTED
\* before anything is done for it, calls of one session run concurrently,
\* and the lease of the session drains them before the session ends.
\*
\* All calls of File name one path of one worktree, and the content of the
\* file is the call that wrote it.  The sessions are those of the worktree.
EXTENDS Naturals

CONSTANTS
    External,   \* calls of a tool of the owner's MCP server
    File,       \* WRITE_FILE, EDIT_FILE and DELETE_FILE calls
    Recipe,     \* RUN_RECIPE calls
    Session,
    StoreFails  \* a write of a call's outcome may throw

Direct == File \cup Recipe
Call   == External \cup Direct
Nobody == "NOBODY"

VARIABLES
    row,        \* the tables mcp_tool_calls and workspace_tool_calls
    call,       \* the gateway's handler of a call
    done,       \* how often the effect of a call happened
    file,       \* the content of the file
    tree,       \* the process tree of a recipe
    session,    \* the status of a provider session and of its AgentRun
    lease,      \* the gateway's lease of a session
    cancelled,  \* the sessions whose authority signal is aborted
    grant,      \* the owner's grant of the external tool
    snapshot,   \* the sessions whose snapshot of the grants has the tool
    refused,    \* the grant is in revokedGrants
    released,   \* the recipes whose process authority this start released
    phase       \* of the daemon

handlers == <<row, call, done, file, tree>>
sessions == <<session, lease, cancelled, snapshot>>
daemon   == <<released, phase>>
vars == <<handlers, sessions, grant, refused, daemon>>

RowStatus == {"NONE", "STARTED", "SUCCEEDED", "FAILED", "UNKNOWN_OUTCOME"}
Result    == {"NONE", "SUCCEEDED", "FAILED", "LOST", "UNCERTAIN"}
Handler   == [at : {"IDLE", "RESERVED", "ACTING", "ANSWERED", "OVER"}, of : Session \cup {Nobody},
              named : File \cup {Nobody}, result : Result]

Idle == [at |-> "IDLE", of |-> Nobody, named |-> Nobody, result |-> "NONE"]

TypeOK ==
    /\ row \in [Call -> RowStatus] /\ call \in [Call -> Handler]
    /\ done \in [Call -> 0 .. 1] /\ file \in File \cup {Nobody}
    /\ tree \in [Recipe -> {"NONE", "ALIVE", "MASKED"}]
    /\ session \in [Session -> {"NEW", "RUNNING", "ENDED"}]
    /\ lease \in [Session -> {"NONE", "OPENING", "OPEN", "CLOSING", "CLOSED"}]
    /\ cancelled \in SUBSET Session /\ snapshot \in SUBSET Session
    /\ grant \in {"GRANTED", "NARROWED", "REVOKED"} /\ refused \in BOOLEAN
    /\ released \in SUBSET Recipe /\ phase \in {"UP", "DOWN", "BOOTING"}

Init ==
    /\ row = [c \in Call |-> "NONE"] /\ call = [c \in Call |-> Idle]
    /\ done = [c \in Call |-> 0] /\ file = Nobody /\ tree = [c \in Recipe |-> "NONE"]
    /\ session = [s \in Session |-> "NEW"] /\ lease = [s \in Session |-> "NONE"]
    /\ cancelled = {} /\ snapshot = {} /\ grant = "GRANTED" /\ refused = FALSE
    /\ released = {} /\ phase = "UP"

InFlight(c) == call[c].at \notin {"IDLE", "OVER"}
Over(c)     == [Idle EXCEPT !.at = "OVER", !.named = call[c].named]
Inside(s)   == {c \in Call : call[c].of = s /\ InFlight(c)}

----
(* A call: handleCall and execute *)

\* handleCall, then execute of the executor: what they know without the store.
Admitted(c, s) ==
    /\ c \in External => s \in snapshot /\ ~refused
    /\ c \in Direct => s \notin cancelled

\* decideMcpToolCallStart and decideWorkspaceToolCallStart: the grant as it is now.
Startable(c, s) ==
    /\ session[s] = "RUNNING"
    /\ c \in External => grant = "GRANTED"

\* START_MCP_TOOL_CALL or START_WORKSPACE_TOOL_CALL, in the same turn of the event loop.  An agent
\* names the content it read: naming an older one, it only meets its conflict for certain.
Request(c, s) ==
    /\ phase = "UP" /\ call[c].at = "IDLE" /\ lease[s] = "OPEN"
    /\ IF Admitted(c, s) /\ Startable(c, s)
       THEN /\ row' = [row EXCEPT ![c] = "STARTED"]
            /\ call' = [call EXCEPT ![c] = [at |-> IF c \in External THEN "ACTING" ELSE "RESERVED", of |-> s,
                                            named |-> IF c \in File THEN file ELSE Nobody, result |-> "NONE"]]
       ELSE /\ call' = [call EXCEPT ![c] = Over(c)]
            /\ UNCHANGED row
    /\ UNCHANGED <<done, file, tree, sessions, grant, refused, daemon>>

Answer(c, result) == call' = [call EXCEPT ![c].at = "ANSWERED", ![c].result = result]
Aborted(c) == call[c].of \in cancelled

\* Denied, over the limit, of another plan, aborted, or an error before anything was done.
Deny(c) ==
    /\ c \in Direct /\ call[c].at = "RESERVED" /\ Answer(c, "FAILED")
    /\ UNCHANGED <<row, done, file, tree, sessions, grant, refused, daemon>>

\* The file has the digest the call names: the new content goes to a file beside it.
Prepare(c) ==
    /\ c \in File /\ call[c].at = "RESERVED" /\ file = call[c].named /\ ~Aborted(c)
    /\ call' = [call EXCEPT ![c].at = "ACTING"]
    /\ UNCHANGED <<row, done, file, tree, sessions, grant, refused, daemon>>

\* EDIT_FILE found another digest on its second look, an abort, or an error.
GiveUp(c) ==
    /\ c \in File /\ call[c].at = "ACTING" /\ Answer(c, "FAILED")
    /\ UNCHANGED <<row, done, file, tree, sessions, grant, refused, daemon>>

\* The rename or the unlink.  No check is in one step with it: not the digest's, not the abort's.
Replace(c) ==
    /\ c \in File /\ call[c].at = "ACTING"
    /\ file' = c /\ done' = [done EXCEPT ![c] = @ + 1] /\ Answer(c, "SUCCEEDED")
    /\ UNCHANGED <<row, tree, sessions, grant, refused, daemon>>

\* The process intent is written, then the tree starts.
Spawn(c) ==
    /\ c \in Recipe /\ call[c].at = "RESERVED" /\ ~Aborted(c)
    /\ call' = [call EXCEPT ![c].at = "ACTING"]
    /\ done' = [done EXCEPT ![c] = @ + 1] /\ tree' = [tree EXCEPT ![c] = "ALIVE"]
    /\ UNCHANGED <<row, file, sessions, grant, refused, daemon>>

\* The observation of the tree's end: its exit (SUCCEEDED, whatever the exit code), or its deadline,
\* limit or abort (FAILED).  A tree that resists is UNCERTAIN, unless the observation of a changed
\* worktree or of a lost artifact hides it.
RecipeEnds(c) ==
    /\ c \in Recipe /\ call[c].at = "ACTING"
    /\ \/ \E result \in {"SUCCEEDED", "FAILED"} : Answer(c, result) /\ tree' = [tree EXCEPT ![c] = "NONE"]
       \/ Answer(c, "FAILED") /\ tree' = [tree EXCEPT ![c] = "MASKED"]
       \/ Answer(c, "UNCERTAIN") /\ UNCHANGED tree
    /\ UNCHANGED <<row, done, file, sessions, grant, refused, daemon>>

\* callTool: the server's result, the server's error, or a lost connection.
ServerAnswers(c) ==
    /\ c \in External /\ call[c].at = "ACTING"
    /\ \E result \in {"SUCCEEDED", "FAILED", "LOST"} :
          (result = "SUCCEEDED" => done[c] = 1) /\ Answer(c, result)
    /\ UNCHANGED <<row, done, file, tree, sessions, grant, refused, daemon>>

\* decideMcpToolCallFinished and decideWorkspaceToolCallFinish; callFailure of what was LOST.
Verdicts(c) ==
    CASE call[c].result = "LOST" -> {"UNKNOWN_OUTCOME", "FAILED"}
      [] call[c].result = "UNCERTAIN" -> {"STARTED"}
      [] OTHER -> {call[c].result}
Finish(c) ==
    /\ call[c].at = "ANSWERED"
    /\ \E verdict \in Verdicts(c) \cup (IF StoreFails THEN {"STARTED"} ELSE {}) :
          row' = [row EXCEPT ![c] = verdict]
    /\ call' = [call EXCEPT ![c] = Over(c)]
    /\ UNCHANGED <<done, file, tree, sessions, grant, refused, daemon>>

----
(* The session and its lease *)

\* START_PROVIDER_SESSION: the writer lease of the worktree admits one session.
Begin(s) ==
    /\ phase = "UP" /\ session[s] = "NEW" /\ \A t \in Session : session[t] # "RUNNING"
    /\ session' = [session EXCEPT ![s] = "RUNNING"] /\ lease' = [lease EXCEPT ![s] = "OPENING"]
    /\ snapshot' = IF grant = "GRANTED" THEN snapshot \cup {s} ELSE snapshot
    /\ UNCHANGED <<handlers, cancelled, grant, refused, daemon>>

\* open: it takes the grant of its snapshot for good, however long the server took to start.
Open(s) ==
    /\ lease[s] = "OPENING"
    /\ lease' = [lease EXCEPT ![s] = "OPEN"] /\ refused' = (refused /\ s \notin snapshot)
    /\ UNCHANGED <<handlers, session, cancelled, snapshot, grant, daemon>>

\* The provider ends, or is stopped: the lease closes, and accepts no call from here on.
ProviderEnds(s) ==
    /\ lease[s] \in {"OPENING", "OPEN"}
    /\ lease' = [lease EXCEPT ![s] = "CLOSING"]
    /\ UNCHANGED <<handlers, session, cancelled, snapshot, grant, refused, daemon>>

\* closeClient.
Settled_AtOnce(s) == TRUE
Settled(s) == Inside(s) = {}
Drain(s) ==
    /\ lease[s] = "CLOSING" /\ Settled(s)
    /\ lease' = [lease EXCEPT ![s] = "CLOSED"]
    /\ UNCHANGED <<handlers, session, cancelled, snapshot, grant, refused, daemon>>

Ends(s) ==
    /\ session' = [session EXCEPT ![s] = "ENDED"]
    /\ UNCHANGED <<handlers, lease, cancelled, snapshot, grant, refused, daemon>>

\* The loop joins startSession, whose finally closes the lease, before it ends the session.
SessionEnds(s) ==
    /\ session[s] = "RUNNING" /\ lease[s] = "CLOSED" /\ s \notin cancelled
    /\ Ends(s)

\* revokePipeline aborts the authority, then waits until the provider is stopped ...
Cancel(s) ==
    /\ phase = "UP" /\ session[s] = "RUNNING" /\ s \notin cancelled
    /\ cancelled' = cancelled \cup {s}
    /\ UNCHANGED <<handlers, session, lease, snapshot, grant, refused, daemon>>

\* ... and the cancel request ends the session, which the loop now leaves to it.
CancelEnds(s) ==
    /\ s \in cancelled /\ session[s] = "RUNNING" /\ lease[s] \in {"CLOSING", "CLOSED"}
    /\ Ends(s)

----
(* The owner's grant *)

Narrow ==
    /\ phase = "UP" /\ grant = "GRANTED" /\ grant' = "NARROWED"
    /\ UNCHANGED <<handlers, sessions, refused, daemon>>

Revoke ==
    /\ phase = "UP" /\ grant # "REVOKED" /\ grant' = "REVOKED" /\ refused' = TRUE
    /\ UNCHANGED <<handlers, sessions, daemon>>

----
(* The daemon dies and starts *)

Crash ==
    /\ phase # "DOWN" /\ phase' = "DOWN"
    /\ call' = [c \in Call |-> IF InFlight(c) THEN Over(c) ELSE call[c]]
    /\ lease' = [s \in Session |-> IF lease[s] = "NONE" THEN "NONE" ELSE "CLOSED"]
    /\ cancelled' = {} /\ refused' = FALSE /\ released' = {}
    /\ UNCHANGED <<row, done, file, tree, session, snapshot, grant>>

Start ==
    /\ phase = "DOWN" /\ phase' = "BOOTING"
    /\ UNCHANGED <<handlers, sessions, grant, refused, released>>

\* recoverVerificationRunProcesses over the STARTED recipes; BLOCKED, the daemon does not start,
\* which is Crash.
Interrupted == {c \in Call : row[c] = "STARTED"}
Release(c) ==
    /\ phase = "BOOTING" /\ c \in Recipe \cap Interrupted
    /\ released' = released \cup {c} /\ tree' = [tree EXCEPT ![c] = "NONE"]
    /\ UNCHANGED <<row, call, done, file, sessions, grant, refused, phase>>

\* RECONCILE_WORKFLOWS, then the daemon listens.
Verdict_Failed(c) == "FAILED"
Verdict(c) == "UNKNOWN_OUTCOME"
Unproven == (Recipe \cap Interrupted) \ released
Reconcile ==
    /\ phase = "BOOTING" /\ Unproven = {} /\ phase' = "UP" /\ released' = {}
    /\ row' = [c \in Call |-> IF c \in Interrupted THEN Verdict(c) ELSE row[c]]
    /\ session' = [s \in Session |-> IF session[s] = "RUNNING" THEN "ENDED" ELSE session[s]]
    /\ UNCHANGED <<call, done, file, tree, lease, cancelled, snapshot, grant, refused>>

----
(* What goes on without the daemon *)

\* The MCP server does what it was asked, before or after its client gave up on it.
ServerActs(c) ==
    /\ c \in External /\ row[c] \in {"STARTED", "UNKNOWN_OUTCOME", "FAILED"} /\ done[c] = 0
    /\ done' = [done EXCEPT ![c] = 1]
    /\ UNCHANGED <<row, call, file, tree, sessions, grant, refused, daemon>>

TreeEnds(c) ==
    /\ c \in Recipe /\ tree[c] # "NONE" /\ ~InFlight(c)
    /\ tree' = [tree EXCEPT ![c] = "NONE"]
    /\ UNCHANGED <<row, call, done, file, sessions, grant, refused, daemon>>

----

HandlerStep(c) ==
    \/ Deny(c) \/ Prepare(c) \/ GiveUp(c) \/ Replace(c) \/ Spawn(c) \/ RecipeEnds(c)
    \/ ServerAnswers(c) \/ Finish(c)

Next ==
    \/ \E c \in Call : (\E s \in Session : Request(c, s)) \/ HandlerStep(c) \/ ServerActs(c)
    \/ \E c \in Recipe : TreeEnds(c) \/ Release(c)
    \/ \E s \in Session : Begin(s) \/ Open(s) \/ ProviderEnds(s) \/ Drain(s) \/ SessionEnds(s)
                          \/ Cancel(s) \/ CancelEnds(s)
    \/ Narrow \/ Revoke \/ Crash \/ Start \/ Reconcile

Spec == Init /\ [][Next]_vars

----
(* Properties *)

\* A file call that FAILED is a refusal; what a server or a process did before it FAILED is unknown.
ClaimOf(c) ==
    CASE row[c] = "NONE" -> "UNCLAIMED"
      [] row[c] = "STARTED" -> "CLAIMED"
      [] row[c] = "SUCCEEDED" -> "CONFIRMED"
      [] row[c] = "FAILED" /\ c \in File -> "REFUSED"
      [] OTHER -> "UNKNOWN"

Promise == INSTANCE AtMostOnce WITH
             Effect <- Call, claim <- [c \in Call |-> ClaimOf(c)], done <- done

\* Tool calls implement AtMostOnce: a call is on disk before its effect, which happens at most once,
\* SUCCEEDED says that it happened, a file call that FAILED left the file alone for good, and what a
\* restart finds STARTED is UNKNOWN and is not tried again.
CalledAtMostOnce == Promise!Spec
Calls == [Promise!Next]_(Promise!vars)

\* Unless the owner cancels it, a session ends after the last of its calls: no call of it acts in
\* the worktree of the next session or of the next stage.
CallsStayInTheirSession ==
    \A s \in Session : session[s] = "ENDED" /\ s \notin cancelled => Inside(s) = {}

\* While the process tree of a recipe lives, its row is STARTED, so that a start finds the tree and
\* stops it before any session runs: but for a tree that its observation hides.
LiveTreeIsStarted == \A c \in Recipe : tree[c] = "ALIVE" => row[c] = "STARTED"

\* No call of a tool starts that the owner's grant no longer covers, and this also when the grant is
\* revoked while the gateway opens the session.
OnlyGranted == \A c \in External : row[c] = "NONE" /\ row'[c] = "STARTED" => grant = "GRANTED"
OnlyGrantedToolsStart == [][OnlyGranted]_vars

\* ADR-0023 and ADR-0025: also the owner's cancel drains the calls before the session ends.
CancelDrainsCalls == \A s \in Session : session[s] = "ENDED" => Inside(s) = {}

\* Of two file calls that name one content, one fails.
WritesCompareAndSwap ==
    \A c, d \in File : c # d /\ call[c].named = call[d].named => row[c] # "SUCCEEDED" \/ row[d] # "SUCCEEDED"
=============================================================================
