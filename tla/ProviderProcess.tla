--------------------------- MODULE ProviderProcess ---------------------------
\* One provider session of an adapter: the child that runProcess spawns, the
\* pipe its lines come through, and what may stop it: its deadline, a
\* listener that throws, and abortSession.
\*
\* The child writes the two lines an outcome needs, in either order: what
\* the turn used, and the stage's result.  Other lines change nothing.
\*
\* A signal that is sent arrives.
EXTENDS Naturals

Line == {"usage", "result"}

VARIABLES
    revoked,    \* authoritySignal.aborted
    start,      \* the adapter's start: where it is, or what it settled with
    child,      \* the process
    pipe,       \* the lines it wrote that nobody read
    held,       \* whether a process of its own holds the pipe open
    read,       \* the lines the adapter read
    run,        \* what runProcess holds of it
    abort       \* the call of abortSession

vars == <<revoked, start, child, pipe, held, read, run, abort>>

Run == [failed : BOOLEAN,                                   \* listenerFailed
        stop : {"none", "terminated", "killed"},            \* what stop() has sent
        exited : {"pending", "closed", "drained", "rejected"}]

Unstarted == [failed |-> FALSE, stop |-> "none", exited |-> "pending"]

TypeOK ==
    /\ revoked \in BOOLEAN
    /\ start \in {"none", "preparing", "running", "outcome", "unproductive", "failed"}
    /\ child \in {"none", "alive", "ok", "bad"}     \* not spawned, running, and how it exited
    /\ pipe \subseteq Line /\ held \in BOOLEAN /\ read \subseteq Line
    /\ run \in Run
    /\ abort \in {"none", "pending", "resolved"}

Init ==
    /\ revoked = FALSE /\ start = "none" /\ child = "none"
    /\ pipe = {} /\ held = FALSE /\ read = {}
    /\ run = Unstarted /\ abort = "none"

Gone == child \in {"ok", "bad"}

----
(* The adapter *)

\* start: the scratch directory and its files are written first.
Prepare ==
    /\ start = "none"
    /\ start' = "preparing"
    /\ UNCHANGED <<revoked, child, pipe, held, read, run, abort>>

PrepareFails ==
    /\ start = "preparing"
    /\ start' = "failed"
    /\ UNCHANGED <<revoked, child, pipe, held, read, run, abort>>

\* authoritySignal.throwIfAborted, and the spawn in the same turn.
MaySpawn == ~revoked

Spawn ==
    /\ start = "preparing"
    /\ \/ MaySpawn /\ child' = "alive" /\ start' = "running"
       \/ MaySpawn /\ child' = child /\ start' = "unproductive"  \* ProcessSpawnError
       \/ ~MaySpawn /\ child' = child /\ start' = "failed"
    /\ UNCHANGED <<revoked, pipe, held, read, run, abort>>

\* The outcome counts only from a child that ended normally and said both.
Outcome == IF child = "ok" /\ read = Line THEN "outcome" ELSE "unproductive"

\* The adapter's await of exited goes on; its finally takes the session off the table.
StartSettles ==
    /\ start = "running" /\ run.exited # "pending"
    /\ start' = IF run.exited = "rejected" THEN "failed" ELSE Outcome
    /\ UNCHANGED <<revoked, child, pipe, held, read, run, abort>>

----
(* The child *)

ChildWrites ==
    /\ child = "alive"
    /\ \E line \in Line \ (pipe \cup read) : pipe' = pipe \cup {line}
    /\ UNCHANGED <<revoked, start, child, held, read, run, abort>>

\* It starts a process that has the pipe too, or that process ends.
Inherit ==
    /\ child = "alive" \/ held
    /\ held' = ~held
    /\ UNCHANGED <<revoked, start, child, pipe, read, run, abort>>

\* It exits by itself, or of a signal.
ChildExits ==
    /\ child = "alive"
    /\ child' \in {"ok", "bad"}
    /\ run.stop = "killed" => child' = "bad"
    /\ UNCHANGED <<revoked, start, pipe, held, read, run, abort>>

----
(* runProcess *)

\* stop: the first call sends SIGTERM, and every call waits for exited.
Stopped(r) == IF r.stop = "none" THEN [r EXCEPT !.stop = "terminated"] ELSE r

Stopping(r) == IF child = "alive" THEN Stopped(r) ELSE r

\* A line is handed to the listener, which may throw; after that none is.
ReadLine ==
    /\ start = "running"
    /\ \E line \in pipe :
        /\ pipe' = pipe \ {line}
        /\ \/ ~run.failed /\ read' = read \cup {line} /\ run' = run
           \/ ~run.failed /\ read' = read /\ run' = Stopping([run EXCEPT !.failed = TRUE])
           \/ run.failed /\ UNCHANGED <<read, run>>
    /\ UNCHANGED <<revoked, start, child, held, abort>>

\* settleExit
Settle(how) == run' = [run EXCEPT !.exited = IF run.failed THEN "rejected" ELSE how]

\* The exit alone ends the session: what is still in the pipe is dropped.
AtEnd_OnExit == TRUE

\* close: the child is gone and its pipe has reached its end.
AtEnd == pipe = {} /\ ~held

Close ==
    /\ start = "running" /\ run.exited = "pending" /\ Gone /\ AtEnd
    /\ Settle("closed")
    /\ UNCHANGED <<revoked, start, child, pipe, held, read, abort>>

\* The drain bound after the exit, for a pipe that does not end.
DrainExpires ==
    /\ start = "running" /\ run.exited = "pending" /\ Gone /\ ~AtEnd
    /\ Settle("drained")
    /\ UNCHANGED <<revoked, start, child, pipe, held, read, abort>>

DeadlinePasses ==
    /\ start = "running" /\ child = "alive"
    /\ run' = Stopped(run)
    /\ UNCHANGED <<revoked, start, child, pipe, held, read, abort>>

\* The grace period after SIGTERM is over.
Kill ==
    /\ child = "alive" /\ run.stop = "terminated"
    /\ run' = [run EXCEPT !.stop = "killed"]
    /\ UNCHANGED <<revoked, start, child, pipe, held, read, abort>>

----
(* The daemon *)

\* The owner cancels: the authority is revoked before the session is aborted.
Revoke ==
    /\ ~revoked
    /\ revoked' = TRUE
    /\ UNCHANGED <<start, child, pipe, held, read, run, abort>>

\* abortSession: after a revocation, or when the session ignored its handoff.
Abort ==
    /\ abort = "none" /\ start # "none"
    /\ revoked \/ start = "running"
    /\ \/ start = "running" /\ abort' = "pending" /\ run' = Stopping(run)
       \/ start # "running" /\ abort' = "resolved" /\ run' = run
    /\ UNCHANGED <<revoked, start, child, pipe, held, read>>

AbortResolves ==
    /\ abort = "pending" /\ run.exited # "pending"
    /\ abort' = "resolved"
    /\ UNCHANGED <<revoked, start, child, pipe, held, read, run>>

----

Next ==
    \/ Prepare \/ PrepareFails \/ Spawn \/ StartSettles
    \/ ChildWrites \/ Inherit \/ ChildExits
    \/ ReadLine \/ Close \/ DrainExpires \/ DeadlinePasses \/ Kill
    \/ Revoke \/ Abort \/ AbortResolves

Spec == Init /\ [][Next]_vars

----

\* A session that was aborted has no child, and gets none.
AbortedIsGone == abort = "resolved" => child # "alive" /\ (start = "preparing" => revoked)

\* A session that settled has no child.
SettledIsGone == start \in {"outcome", "unproductive", "failed"} => child # "alive"

\* What the child said before it ended normally is not lost, unless something else holds its pipe.
SaidIsHeard ==
    start = "unproductive" /\ child = "ok" /\ pipe \cup read = Line => run.exited = "drained"

\* A session whose listener threw has no outcome.
NoOutcomeUnheard == run.failed => start # "outcome"
=============================================================================
