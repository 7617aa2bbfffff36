------------------------------ MODULE LiveView ------------------------------
\* How an open tab follows the daemon.  Every command that commits events
\* publishes a signal to the open streams; a signal carries no data and is
\* never replayed, and a tab that gets one reads again what it shows.
\*
\* What a tab shows of a WorkItem is two queries: its card, and its changes
\* which are read on a cadence of their own.  A version of either is the
\* sequence of the last event that was committed when it was read.  Both
\* have been read once when the behaviour begins.
EXTENDS Naturals

CONSTANTS
    MaxSequence,    \* how many commands commit an event
    MaxStreams      \* MAX_OPEN_STREAMS

Query == {"card", "changes"}

VARIABLES
    committed,  \* the sequence of the newest event
    published,  \* lastSequence of broadcastingState
    session,    \* whether the tab's session is valid
    others,     \* the streams that other tabs hold, and those of this one that are not released yet
    stream,     \* whether the registry holds a stream of this tab
    frame,      \* whether a signal is under way to it
    tab,        \* the event source and the timers of the tab
    fetch,      \* each query's request: none, asked, or the version that was read
    view,       \* the version each query shows
    failed      \* whether its last request failed

vars == <<committed, published, session, others, stream, frame, tab, fetch, view, failed>>
server == <<committed, published, session, others, stream, frame>>

Tab == [enabled : BOOLEAN,      \* the connection query answered: connected
        checking : BOOLEAN,     \* it is being asked again
        source : {"none", "connecting", "open", "closed"},
        coalesced : BOOLEAN,    \* the coalescer's timer is set
        refresher : BOOLEAN]    \* that of the changes is set

Version == 0..MaxSequence
None == MaxSequence + 1
Asked == MaxSequence + 2

TypeOK ==
    /\ committed \in Version /\ published \in Version /\ published <= committed
    /\ session \in BOOLEAN /\ others \in 0..MaxStreams /\ stream \in BOOLEAN /\ frame \in BOOLEAN
    /\ others + (IF stream THEN 1 ELSE 0) <= MaxStreams
    /\ tab \in Tab /\ (tab.enabled <=> tab.source # "none")
    /\ fetch \in [Query -> Version \cup {None, Asked}]
    /\ view \in [Query -> Version]
    /\ failed \in [Query -> BOOLEAN]

Init ==
    /\ committed = 0 /\ published = 0 /\ session = TRUE /\ others = 0 /\ stream = FALSE /\ frame = FALSE
    /\ tab = [enabled |-> TRUE, checking |-> FALSE, source |-> "connecting", coalesced |-> FALSE, refresher |-> FALSE]
    /\ fetch = [q \in Query |-> None]
    /\ view = [q \in Query |-> 0] /\ failed = [q \in Query |-> FALSE]

----
(* The daemon *)

\* publishCommitted: every event since the last one published, or none when the events cannot be read.
Published(seen, newest, succeeds) == IF succeeds THEN newest ELSE seen

\* execute: the command commits, then its events are published; a stream that cannot be written to
\* is dropped.
Execute ==
    /\ committed < MaxSequence
    /\ committed' = committed + 1
    /\ \E succeeds, written \in BOOLEAN :
        /\ published' = Published(published, committed', succeeds)
        /\ frame' = (frame \/ (succeeds /\ stream /\ written))
        /\ stream' = (stream /\ (succeeds => written))
    /\ UNCHANGED <<session, others, tab, fetch, view, failed>>

\* The session expires.
Expire ==
    /\ session
    /\ session' = FALSE
    /\ UNCHANGED <<committed, published, others, stream, frame, tab, fetch, view, failed>>

\* The heartbeat drops a stream whose session expired, or that cannot be written to.
Heartbeat ==
    /\ stream
    /\ stream' = FALSE
    /\ UNCHANGED <<committed, published, session, others, frame, tab, fetch, view, failed>>

\* Another tab opens a stream or closes one, or a stream this tab left is released.
OtherTab ==
    /\ \/ others + (IF stream THEN 1 ELSE 0) < MaxStreams /\ others' = others + 1
       \/ others > 0 /\ others' = others - 1
    /\ UNCHANGED <<committed, published, session, stream, frame, tab, fetch, view, failed>>

\* The daemon stops and starts: no stream and no session is left, and what is published next is new.
Restart ==
    /\ published' = committed
    /\ session' = FALSE /\ stream' = FALSE /\ others' = 0
    /\ UNCHANGED <<committed, frame, tab, fetch, view, failed>>

----
(* The tab *)

\* A request that is under way is replaced.
Refetched(queries) == [q \in Query |-> IF q \in queries THEN Asked ELSE fetch[q]]

\* The stream's request: refused without a session or without a slot.
Connect ==
    /\ tab.source = "connecting" /\ ~stream
    /\ IF session /\ others < MaxStreams
       THEN stream' = TRUE /\ UNCHANGED tab
       ELSE tab' = [tab EXCEPT !.source = "closed", !.checking = TRUE] /\ UNCHANGED stream
    /\ frame' = FALSE
    /\ UNCHANGED <<committed, published, session, others, fetch, view, failed>>

\* Mutant: the tab catches up when it connects first, not when it connects again.
CatchUp_Never == {}

\* invalidateAll: a signal that was missed is made good by reading everything.
CatchUp == Query

\* onopen.
Open ==
    /\ tab.source = "connecting" /\ stream
    /\ tab' = [tab EXCEPT !.source = "open", !.refresher = FALSE]
    /\ fetch' = Refetched(CatchUp)
    /\ UNCHANGED <<server, view, failed>>

\* The connection ends on either side, and the browser connects again: the daemon's slot is free
\* at once or later.
Drop ==
    /\ tab.source = "open"
    /\ tab' = [tab EXCEPT !.source = "connecting"]
    /\ stream' = FALSE /\ frame' = FALSE
    /\ others' \in IF stream THEN {others, others + 1} ELSE {others}
    /\ UNCHANGED <<committed, published, session, fetch, view, failed>>

\* A signal starts the coalescer's window; the next ones do not move it.
Deliver ==
    /\ tab.source = "open" /\ frame
    /\ frame' = FALSE
    /\ tab' = [tab EXCEPT !.coalesced = TRUE]
    /\ UNCHANGED <<committed, published, session, others, stream, fetch, view, failed>>

\* The window ends: the card is read again, and the window of the changes begins.
Flush ==
    /\ tab.coalesced
    /\ tab' = [tab EXCEPT !.coalesced = FALSE, !.refresher = TRUE]
    /\ fetch' = Refetched({"card"})
    /\ UNCHANGED <<server, view, failed>>

RefreshChanges ==
    /\ tab.refresher
    /\ tab' = [tab EXCEPT !.refresher = FALSE]
    /\ fetch' = Refetched({"changes"})
    /\ UNCHANGED <<server, view, failed>>

\* The browser gave up on the source: after a while the tab builds another, and leaves the timers of this.
Reconnect ==
    /\ tab.source = "closed"
    /\ tab' = [tab EXCEPT !.source = "connecting", !.coalesced = FALSE, !.refresher = FALSE]
    /\ UNCHANGED <<server, fetch, view, failed>>

\* The connection query says whether the tab is connected; without a session it is not, and follows nothing.
CheckConnection ==
    /\ tab.checking
    /\ \/ session /\ tab' = [tab EXCEPT !.checking = FALSE] /\ UNCHANGED <<stream, frame>>
       \/ tab' = [enabled |-> FALSE, checking |-> FALSE, source |-> "none", coalesced |-> FALSE, refresher |-> FALSE]
          /\ stream' = FALSE /\ frame' = FALSE
    /\ UNCHANGED <<committed, published, session, others, fetch, view, failed>>

\* The owner opens the tab with a new token, or retries.
SignIn ==
    /\ ~tab.enabled
    /\ session' = TRUE
    /\ tab' = [tab EXCEPT !.enabled = TRUE, !.source = "connecting"]
    /\ UNCHANGED <<committed, published, others, stream, frame, fetch, view, failed>>

\* The daemon answers a request, or refuses it.
Read(q) ==
    /\ fetch[q] = Asked
    /\ IF session
       THEN fetch' = [fetch EXCEPT ![q] = committed] /\ UNCHANGED failed
       ELSE fetch' = [fetch EXCEPT ![q] = None] /\ failed' = [failed EXCEPT ![q] = TRUE]
    /\ UNCHANGED <<server, tab, view>>

\* The answer arrives, or the request fails, once.
Answer(q) ==
    /\ fetch[q] # None
    /\ fetch' = [fetch EXCEPT ![q] = None]
    /\ \/ fetch[q] # Asked /\ view' = [view EXCEPT ![q] = fetch[q]] /\ failed' = [failed EXCEPT ![q] = FALSE]
       \/ failed' = [failed EXCEPT ![q] = TRUE] /\ UNCHANGED view
    /\ UNCHANGED <<server, tab>>

Next ==
    \/ Execute \/ Expire \/ Heartbeat \/ OtherTab \/ Restart
    \/ Connect \/ Open \/ Drop \/ Deliver \/ Flush \/ RefreshChanges
    \/ Reconnect \/ CheckConnection \/ SignIn
    \/ \E q \in Query : Read(q) \/ Answer(q)

Spec == Init /\ [][Next]_vars

----

\* The tab will read the query again: a request that sees the newest version, a timer or a signal
\* is under way, or the source is not open and catches up when it is.
RefreshIsDue(q) ==
    \/ fetch[q] \in {Asked, committed}
    \/ tab.coalesced \/ (q = "changes" /\ tab.refresher)
    \/ tab.source # "open" \/ ~stream \/ frame

\* What a tab shows that is not the latest it will read again, unless it says that it could not, or
\* the signal could not be published, for which the next one stands in.
StaleIsRefreshed ==
    \A q \in Query : view[q] < committed => RefreshIsDue(q) \/ failed[q] \/ published < committed
=============================================================================
