-------------------------- MODULE ActivityRecorder --------------------------
\* What the session loop keeps of the actions its provider reports: a
\* bounded queue in memory that a timer drains into agent_run_activity,
\* which keeps the newest rows of an AgentRun and counts the others, and a
\* flag, degraded, that says the feed is incomplete.
\*
\* A drain is synchronous: it takes one report after another, each in a
\* transaction of its own, then writes the mark, and nothing but the end of
\* the daemon comes in between.
EXTENDS Naturals, Sequences, FiniteSets

CONSTANTS
    Action,             \* the actions of the run's sessions: (provider session, action key)
    QueueLimit,         \* ACTIVITY_QUEUE_LIMIT
    TableLimit,         \* how many rows of a run the table keeps
    CrashAfterFinish    \* whether the daemon may die between the end of the AgentRun and its last drain

\* An action is reported when it starts and when it ends, in either order.
Report == Action \X {"start", "end"}
Row == [action : Action, reports : SUBSET {"start", "end"}]

VARIABLES
    agentRun,   \* whether the AgentRun is RUNNING
    table,      \* its rows of agent_run_activity, by seq
    counters,   \* its row of agent_run_activity_state
    feed,       \* activityFeed of the loop
    queue,      \* live.activityQueue, or what a drain that took it has left
    draining,   \* whether one did
    timer,      \* whether live.activityDrainTimer is set
    live,       \* the session: open, closed to reports, left with a last drain, or none
    accepted,   \* the reports that reached the recorder
    logged,     \* whether the log says that the mark could not be written
    expired,    \* whether the WorkItem was closed 30 days ago
    phase       \* whether the daemon is up

vars == <<agentRun, table, counters, feed, queue, draining, timer, live, accepted, logged, expired, phase>>

NoCounters == [omitted |-> 0, degraded |-> FALSE]
NoFeed == [degraded |-> FALSE, written |-> FALSE]

TypeOK ==
    /\ agentRun \in {"RUNNING", "FINISHED"}
    /\ table \in Seq(Row) /\ Len(table) <= TableLimit /\ \A i, j \in DOMAIN table : table[i].action = table[j].action => i = j
    /\ counters \in [omitted : Nat, degraded : BOOLEAN]
    /\ feed \in [degraded : BOOLEAN, written : BOOLEAN] /\ (feed.written => feed.degraded)
    /\ queue \in Seq(Report) /\ Len(queue) <= QueueLimit
    /\ timer \in BOOLEAN /\ draining \in BOOLEAN /\ (queue # <<>> => timer \/ draining)
    /\ live \in {"open", "closed", "leaving", "none"}
    /\ accepted \subseteq Report
    /\ logged \in BOOLEAN /\ expired \in BOOLEAN /\ phase \in {"up", "down"}

Init ==
    /\ agentRun = "RUNNING" /\ table = <<>> /\ counters = NoCounters
    /\ feed = NoFeed /\ queue = <<>> /\ draining = FALSE /\ timer = FALSE /\ live = "open"
    /\ accepted = {} /\ logged = FALSE /\ expired = FALSE /\ phase = "up"

----
(* The table *)

\* The report becomes a row, or joins the row of its action.
Upserted(rows, report) ==
    IF \E i \in DOMAIN rows : rows[i].action = report[1]
    THEN [i \in DOMAIN rows |->
            IF rows[i].action = report[1] THEN [rows[i] EXCEPT !.reports = @ \cup {report[2]}] ELSE rows[i]]
    ELSE Append(rows, [action |-> report[1], reports |-> {report[2]}])

\* RECORD_AGENT_RUN_ACTIVITY: the oldest row over the limit goes, and is counted.
Recorded(report) ==
    LET rows == Upserted(table, report) IN
    IF Len(rows) > TableLimit
    THEN table' = Tail(rows) /\ counters' = [counters EXCEPT !.omitted = @ + 1]
    ELSE table' = rows /\ UNCHANGED counters

----
(* The recorder *)

Idle == phase = "up" /\ ~draining

\* drainActivityQueue, when its timer fires.
DrainTimer ==
    /\ Idle /\ timer
    /\ draining' = TRUE /\ timer' = FALSE
    /\ UNCHANGED <<agentRun, table, counters, feed, queue, live, accepted, logged, expired, phase>>

\* The next report of the drain is recorded, or its write fails and degrades the feed.
DrainOne ==
    /\ phase = "up" /\ draining /\ queue # <<>>
    /\ queue' = Tail(queue)
    /\ \/ Recorded(Head(queue)) /\ UNCHANGED feed
       \/ feed' = [feed EXCEPT !.degraded = TRUE] /\ UNCHANGED <<table, counters>>
    /\ UNCHANGED <<agentRun, draining, timer, live, accepted, logged, expired, phase>>

\* writeActivityDegraded: the mark is written unless it is, which may fail as well and is logged.
\* A drain that was the session's last ends it.
DrainEnds ==
    /\ phase = "up" /\ draining /\ queue = <<>>
    /\ draining' = FALSE
    /\ live' = IF live = "leaving" THEN "none" ELSE live
    /\ IF feed.degraded /\ ~feed.written
       THEN \/ /\ counters' = [counters EXCEPT !.degraded = TRUE] /\ feed' = [feed EXCEPT !.written = TRUE]
               /\ UNCHANGED logged
            \/ logged' = TRUE /\ UNCHANGED <<counters, feed>>
       ELSE UNCHANGED <<counters, feed, logged>>
    /\ UNCHANGED <<agentRun, table, queue, timer, accepted, expired, phase>>

\* onActivity: a report for which there is no place in the queue is dropped, and one that the
\* recorder fails on is lost; both degrade the feed.
OnActivity(report) ==
    /\ Idle /\ live = "open"
    /\ report \notin accepted
    /\ accepted' = accepted \cup {report}
    /\ timer' = TRUE
    /\ \/ /\ Len(queue) < QueueLimit
          /\ queue' = Append(queue, report)
          /\ UNCHANGED feed
       \/ feed' = [feed EXCEPT !.degraded = TRUE] /\ UNCHANGED queue
    /\ UNCHANGED <<agentRun, table, counters, draining, live, logged, expired, phase>>

\* The session settles, or the loop's authority is revoked.
CloseSession ==
    /\ Idle /\ live = "open"
    /\ live' = "closed"
    /\ UNCHANGED <<agentRun, table, counters, feed, queue, draining, timer, accepted, logged, expired, phase>>

\* The loop or the owner's cancel ends the AgentRun.
FinishAgentRun ==
    /\ Idle /\ live # "open" /\ agentRun = "RUNNING"
    /\ agentRun' = "FINISHED"
    /\ UNCHANGED <<table, counters, feed, queue, draining, timer, live, accepted, logged, expired, phase>>

\* The loop leaves the session and drains what is left, whatever the session ended with.
LeaveSession ==
    /\ Idle /\ live = "closed"
    /\ live' = "leaving" /\ draining' = TRUE /\ timer' = FALSE
    /\ UNCHANGED <<agentRun, table, counters, feed, queue, accepted, logged, expired, phase>>

\* The loop opens its next session, or a postponed dispatch is picked up by a new loop, which knows
\* of the feed what is stored.
NextSession ==
    /\ Idle /\ live = "none" /\ agentRun = "RUNNING"
    /\ live' = "open"
    /\ \/ UNCHANGED feed
       \/ feed' = [degraded |-> counters.degraded, written |-> counters.degraded]
    /\ UNCHANGED <<agentRun, table, counters, queue, draining, timer, accepted, logged, expired, phase>>

----
(* Crash, reconciliation and retention *)

\* Nothing the recorder still owes.
Settled == queue = <<>> /\ (feed.degraded => feed.written)

Crash ==
    /\ phase = "up"
    /\ CrashAfterFinish \/ agentRun = "RUNNING" \/ Settled \/ live = "none"
    /\ phase' = "down"
    /\ feed' = NoFeed /\ queue' = <<>> /\ draining' = FALSE /\ timer' = FALSE /\ live' = "none"
    /\ UNCHANGED <<agentRun, table, counters, accepted, logged, expired>>

\* Mutant: only a run that has rows is marked.
Interrupted_WithRows(row) == [row EXCEPT !.degraded = table # <<>>]

\* RECONCILE_WORKFLOWS interrupts a RUNNING AgentRun and marks it: its queue died with the daemon.
Interrupted(row) == [row EXCEPT !.degraded = TRUE]

\* Startup reconciles, then deletes what closed work left for 30 days, rows and counters.
Start ==
    /\ phase = "down"
    /\ phase' = "up"
    /\ agentRun' = "FINISHED"
    /\ IF expired
       THEN table' = <<>> /\ counters' = NoCounters
       ELSE /\ counters' = IF agentRun = "RUNNING" THEN Interrupted(counters) ELSE counters
            /\ UNCHANGED table
    /\ UNCHANGED <<feed, queue, draining, timer, live, accepted, logged, expired>>

\* The WorkItem was closed with its AgentRun, and 30 days passed.
Expire ==
    /\ agentRun = "FINISHED" /\ live = "none" /\ ~expired
    /\ expired' = TRUE
    /\ UNCHANGED <<agentRun, table, counters, feed, queue, draining, timer, live, accepted, logged, phase>>

Next ==
    \/ DrainTimer \/ DrainOne \/ DrainEnds \/ CloseSession \/ FinishAgentRun \/ LeaveSession \/ NextSession
    \/ \E report \in Report : OnActivity(report)
    \/ Crash \/ Start \/ Expire

Spec == Init /\ [][Next]_vars

----

InTable(report) == \E i \in DOMAIN table : table[i].action = report[1] /\ report[2] \in table[i].reports
InQueue(report) == \E i \in DOMAIN queue : queue[i] = report
Missing == {a \in Action : \E report \in accepted : report[1] = a /\ ~InTable(report) /\ ~InQueue(report)}

\* The mark is still to be written: by a drain that is due, or by the startup that finds the run.
MarkIsDue ==
    \/ phase = "up" /\ feed.degraded /\ (timer \/ draining \/ live # "none")
    \/ phase = "down" /\ agentRun = "RUNNING"

\* A feed that lost a report says so: the actions that miss one are no more than the rows counted as
\* omitted, or the run is marked, will be, or the log says that it could not be.
LostIsSaid ==
    ~expired => \/ Cardinality(Missing) <= counters.omitted
                \/ counters.degraded \/ logged \/ MarkIsDue
=============================================================================
