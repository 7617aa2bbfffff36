----------------------------- MODULE Allowance -----------------------------
\* What is left of the owner's subscription: the read of the provider's
\* rate limits by a short-lived child process
\* (packages/provider-codex/src/allowance.ts), the daemon's sharing of one
\* read among the refreshes of several projects and its deadline for each
\* (apps/daemon/src/server.ts), the row kept for a project and what of it
\* still counts when it is shown.
\*
\* Of the buckets a snapshot keeps whether one is used up, and when the
\* first of them resets. A reason why nothing is known is left out, and so
\* is the tab's cache. No adapter reports an allowance from a session.
EXTENDS Naturals

CONSTANTS
    Projects,  \* projects whose provider is read
    MaxReads,  \* bound on the child processes
    MaxTime,   \* bound on the daemon's clock
    Ttl        \* how long a snapshot counts as live

VARIABLES
    time,     \* the daemon's clock
    reads,    \* the reads so far: the child process, and what its promise has come to
    tracked,  \* allowanceReads: the read a refresh joins (0: none)
    asking,   \* the read each project's refresh waits for (0: no refresh)
    rows,     \* durable: provider_allowance_snapshots
    answers,  \* what this step answers to pages
    late      \* history: the reads some refresh has stopped waiting for

vars == <<time, reads, tracked, asking, rows, answers, late>>

Times == 0 .. MaxTime
Reads == 1 .. MaxReads
Live  == [kind : {"LIVE", "STALE"}, at : Times, resets : 1 .. MaxTime + 1]
Gone  == [kind : {"UNAVAILABLE"}, at : Times]
NoRow == [kind |-> "NONE"]
NoRead == [child |-> "NONE", step |-> "NONE", at |-> 0, result |-> NoRow, directory |-> FALSE, settled |-> FALSE]

\* Every variable has its type.
TypeOK ==
    /\ time \in Times /\ late \subseteq Reads
    /\ tracked \in 0 .. MaxReads /\ asking \in [Projects -> 0 .. MaxReads]
    /\ rows \in [Projects -> Live \cup Gone \cup {NoRow}]
    /\ answers \subseteq Live \cup Gone
    /\ reads \in [Reads ->
          [child : {"NONE", "RUNNING", "ASKED_TO_STOP", "CLOSED", "LOST"}, step : {"NONE", "STARTED", "INITIALIZED"},
           at : Times, result : Live \cup Gone \cup {NoRow}, directory : BOOLEAN, settled : BOOLEAN]]

Init ==
    /\ time = 0 /\ reads = [r \in Reads |-> NoRead] /\ tracked = 0
    /\ asking = [p \in Projects |-> 0]
    /\ rows = [p \in Projects |-> NoRow] /\ answers = {} /\ late = {}

Tick ==
    /\ time < MaxTime /\ time' = time + 1
    /\ answers' = {} /\ UNCHANGED <<reads, tracked, asking, rows, late>>

----
(* The row of a project and what is shown of it *)

\* Mutant: the last observation to arrive is kept.
Keeps_Last(row, snapshot) == snapshot
\* RECORD_PROVIDER_ALLOWANCE: an older or equally old observation is refused, and the route goes on.
Keeps(row, snapshot) ==
    IF row = NoRow \/ snapshot.at > row.at THEN snapshot ELSE row

\* Mutant: a row counts as live until its window resets.
IsOver_Reset(row) == row.resets <= time
\* A window of it has reset, or it is older than the TTL.
IsOver(row) == row.resets <= time \/ time - row.at > Ttl

\* projectProviderAllowanceResponse: nothing saved is shown of a provider that the registry's last
\* probe found missing or logged out.
Projection(row, found) ==
    IF ~found \/ row = NoRow THEN [kind |-> "UNAVAILABLE", at |-> time]
    ELSE IF row.kind = "LIVE" /\ IsOver(row) THEN [row EXCEPT !.kind = "STALE"]
    ELSE row

\* The refreshes of P get the snapshot of their read: each records it for its project and answers.
Answer(P, snapshot) ==
    /\ rows' = [p \in Projects |-> IF p \in P THEN Keeps(rows[p], snapshot) ELSE rows[p]]
    /\ \E found \in BOOLEAN : answers' = {Projection(rows'[p], found) : p \in P}

\* GET the allowance.
Show(p) ==
    /\ \E found \in BOOLEAN : answers' = {Projection(rows[p], found)}
    /\ UNCHANGED <<time, reads, tracked, asking, rows, late>>

----
(* The refresh of a project *)

Waiting(r) == {p \in Projects : asking[p] = r}

\* readAllowanceOnce: the read in flight, or a new one, whose snapshot will bear this time.
Refresh(p) ==
    /\ asking[p] = 0
    /\ IF tracked # 0
       THEN /\ asking' = [asking EXCEPT ![p] = tracked]
            /\ UNCHANGED <<reads, tracked>>
       ELSE \E r \in Reads :
            /\ reads[r] = NoRead /\ \A q \in Reads : q < r => reads[q] # NoRead
            /\ reads' = [reads EXCEPT ![r] = [NoRead EXCEPT !.child = "RUNNING", !.step = "STARTED",
                                                            !.at = time, !.directory = TRUE]]
            /\ tracked' = r /\ asking' = [asking EXCEPT ![p] = r]
    /\ answers' = {}
    /\ UNCHANGED <<time, rows, late>>

\* Mutant: the entry is removed whatever read it holds.
Untracked_Any(r) == 0
\* The entry is removed if it still holds this read.
Untracked(r) == IF tracked = r THEN 0 ELSE tracked

\* withAllowanceDeadline: this refresh stops waiting, and the next one will not join its read.
Timeout(p) ==
    /\ asking[p] # 0
    /\ asking' = [asking EXCEPT ![p] = 0]
    /\ tracked' = Untracked(asking[p])
    /\ late' = late \cup {asking[p]}
    /\ Answer({p}, [kind |-> "UNAVAILABLE", at |-> time])
    /\ UNCHANGED <<time, reads>>

----
(* The child process of a read *)

Undecided(r) == reads[r].child = "RUNNING" /\ reads[r].result = NoRow

\* Mutant: the promise settles with the answer.
Decided_AtOnce(r, result) ==
    [reads[r] EXCEPT !.result = result, !.child = "ASKED_TO_STOP", !.directory = FALSE, !.settled = TRUE]
\* The first answer or failure decides, and the child is asked to stop.
Decided(r, result) == [reads[r] EXCEPT !.result = result, !.child = "ASKED_TO_STOP"]

\* The reply to initialize; the limits are asked for.
Initialized(r) ==
    /\ Undecided(r) /\ reads[r].step = "STARTED"
    /\ reads' = [reads EXCEPT ![r].step = "INITIALIZED"]
    /\ answers' = {} /\ UNCHANGED <<time, tracked, asking, rows, late>>

Result(r) == {[kind |-> "LIVE", at |-> reads[r].at, resets |-> t] : t \in {reads[r].at + 1, MaxTime + 1}}
Failure(r) == [kind |-> "UNAVAILABLE", at |-> reads[r].at]

\* The reply to account/rateLimits/read, or a notification of the same.
Answered(r) ==
    /\ Undecided(r) /\ reads[r].step = "INITIALIZED"
    /\ \E result \in Result(r) : reads' = [reads EXCEPT ![r] = Decided(r, result)]
    /\ answers' = {} /\ UNCHANGED <<time, tracked, asking, rows, late>>

\* An error reply, a line that is none, too many bytes, a broken pipe, or the reader's own deadline.
Failed(r) ==
    /\ Undecided(r)
    /\ reads' = [reads EXCEPT ![r] = Decided(r, Failure(r))]
    /\ answers' = {} /\ UNCHANGED <<time, tracked, asking, rows, late>>

\* The child is gone and its pipes with it: by itself, or as SIGTERM or at last SIGKILL asked. A last
\* line without an end still counts. Then its directory is removed.
Closed(r) ==
    /\ reads[r].child \in {"RUNNING", "ASKED_TO_STOP"}
    /\ \E result \in (IF reads[r].result # NoRow THEN {reads[r].result}
                      ELSE {Failure(r)} \cup (IF reads[r].step = "INITIALIZED" THEN Result(r) ELSE {})) :
          reads' = [reads EXCEPT ![r].child = "CLOSED", ![r].result = result]
    /\ answers' = {} /\ UNCHANGED <<time, tracked, asking, rows, late>>

\* The promise settles: the map forgets the read and every refresh that waits for it is answered.
Settled(r) ==
    /\ reads[r].child = "CLOSED" /\ reads[r].directory
    /\ reads' = [reads EXCEPT ![r] = [NoRead EXCEPT !.child = "CLOSED", !.settled = TRUE]]
    /\ tracked' = Untracked(r)
    /\ asking' = [p \in Projects |-> IF asking[p] = r THEN 0 ELSE asking[p]]
    /\ Answer(Waiting(r), reads[r].result)
    /\ UNCHANGED <<time, late>>

\* The daemon ends and starts again. Nothing is left to remove the directory of a read.
Restart ==
    /\ reads' = [r \in Reads |-> IF reads[r] = NoRead \/ reads[r].settled THEN reads[r]
                                 ELSE [NoRead EXCEPT !.child = "LOST", !.directory = TRUE]]
    /\ tracked' = 0 /\ asking' = [p \in Projects |-> 0]
    /\ answers' = {}
    /\ UNCHANGED <<time, rows, late>>

----
Next ==
    \/ Tick \/ Restart
    \/ \E p \in Projects : Refresh(p) \/ Timeout(p) \/ Show(p)
    \/ \E r \in Reads : Initialized(r) \/ Answered(r) \/ Failed(r) \/ Closed(r) \/ Settled(r)

Spec == Init /\ [][Next]_vars

----
(* Parallel refreshes share one read: while a refresh waits for a read that *)
(* no other has given up on, that read is the one the next refresh joins. A *)
(* read that has settled is never joined, and only one that has no child and *)
(* no directory left has settled (server.ts, readAllowanceOnce). *)
ReadIsShared ==
    /\ \A p \in Projects : asking[p] \in Reads \ late => tracked = asking[p]
    /\ tracked # 0 => ~reads[tracked].settled
    /\ \A r \in Reads : reads[r].settled => reads[r].child = "CLOSED" /\ ~reads[r].directory

(* The row of a project is never replaced by an older observation, whichever *)
(* of its reads and timeouts comes last, and no page is told of capacity *)
(* from a window that had reset or an observation past its TTL *)
(* (domain/src/provider-allowance.ts, provider-core/src/allowance.ts). *)
AllowanceAdvances ==
    /\ \A p \in Projects : rows[p] # NoRow => rows'[p].at >= rows[p].at
    /\ \A a \in answers' : a.kind = "LIVE" => a.resets > time /\ time - a.at <= Ttl
=============================================================================
