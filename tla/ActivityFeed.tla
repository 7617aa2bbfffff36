---------------------------- MODULE ActivityFeed ----------------------------
\* The activity feed of a WorkItem, read page by page: the calls the daemon
\* audited and the actions the providers reported, merged by time, while
\* rows are added and the oldest reported ones evicted.
\*
\* A page is built from a window of each source that starts at the
\* cursor's millisecond and is PageSize + 2 rows long.
EXTENDS Naturals, FiniteSets

CONSTANTS
    PageSize,   \* MAX_ACTIVITY_PAGE_SIZE
    MaxId,      \* how many rows are added
    MaxTime     \* how many milliseconds pass

\* AUDITED is workspace_tool_calls, REPORTED agent_run_activity.
Origin == {"AUDITED", "REPORTED"}
Entry == [at : 0..MaxTime, origin : Origin, id : 1..MaxId]
NoEntry == [at |-> 0, origin |-> "NONE", id |-> 0]

VARIABLES
    now,        \* the millisecond
    held,       \* the rows of both tables
    added,      \* the rows that were ever added to them
    reader      \* the client: its cursor and what it was given

vars == <<now, held, added, reader>>

Reader == [cursor : Entry \cup {NoEntry}, started : BOOLEAN, ended : BOOLEAN, gap : BOOLEAN, crowded : BOOLEAN,
           read : SUBSET Entry, begun : SUBSET Entry]

TypeOK ==
    /\ now \in 0..MaxTime
    /\ held \subseteq added /\ added \subseteq Entry
    /\ \A x, y \in added : x.id = y.id => x = y
    /\ reader \in Reader

Init ==
    /\ now = 0 /\ held = {} /\ added = {}
    /\ reader = [cursor |-> NoEntry, started |-> FALSE, ended |-> FALSE, gap |-> FALSE, crowded |-> FALSE,
                 read |-> {}, begun |-> {}]

----
(* The rows *)

Tick == now < MaxTime /\ now' = now + 1 /\ UNCHANGED <<held, added, reader>>

\* A row is stamped with the time of its write, and its id is random.
AddEntry(origin, id) ==
    /\ \A x \in added : x.id # id
    /\ LET row == [at |-> now, origin |-> origin, id |-> id] IN
       held' = held \cup {row} /\ added' = added \cup {row}
    /\ UNCHANGED <<now, reader>>

\* The oldest row of some run goes when the run has too many: any reported row, for a feed of many runs.
Evict(x) ==
    /\ x \in held /\ x.origin = "REPORTED"
    /\ held' = held \ {x}
    /\ UNCHANGED <<now, added, reader>>

----
(* A page *)

Rank(origin) == IF origin = "AUDITED" THEN 0 ELSE 1

\* mergeRunActivity's order.
Earlier(x, y) ==
    \/ x.at < y.at
    \/ x.at = y.at /\ Rank(x.origin) < Rank(y.origin)
    \/ x.at = y.at /\ x.origin = y.origin /\ x.id < y.id

\* The first n of some rows.
First(n, rows) == {x \in rows : Cardinality({y \in rows : Earlier(y, x)}) < n}

\* Mutant: no row for the cursor.
FetchLimit_PageOnly == PageSize + 1

\* activitySourceFetchLimit: a row for the cursor, and one to prove that there is a next page.
FetchLimit == PageSize + 2

\* The first rows of a source from the cursor's millisecond on, that one included.
Window(origin, from) == First(FetchLimit, {x \in held : x.origin = origin /\ x.at >= from})

Merged(from) == UNION {Window(origin, from) : origin \in Origin}

Capped(from) == \E origin \in Origin : Cardinality(Window(origin, from)) >= FetchLimit

Last(rows) == CHOOSE x \in rows : \A y \in rows : y = x \/ Earlier(y, x)

\* buildAgentRunActivityPage: the page after the cursor, the cursor of the next one unless the windows
\* end with it, and whether that end is in doubt.
Page(cursor) ==
    LET merged == Merged(cursor.at)
        lost == cursor # NoEntry /\ cursor \notin merged
        after == {x \in merged : cursor \in merged => Earlier(cursor, x)}
        entries == First(PageSize, after)
        more == entries # after
    IN  [entries |-> entries,
         next |-> IF more THEN Last(entries) ELSE NoEntry,
         lost |-> lost,
         gap |-> lost \/ (~more /\ Capped(cursor.at))]

\* More than two rows of a source share the cursor's millisecond and come no later than the cursor:
\* what is left of its window is shorter than a page.
Crowded(cursor) ==
    cursor # NoEntry /\ \E origin \in Origin :
        Cardinality({x \in Window(origin, cursor.at) : x = cursor \/ Earlier(x, cursor)}) > 2

\* The client asks for the page after its cursor; when that row is gone it gets the first page
\* again, and is told.
ReadPage ==
    /\ ~reader.ended
    /\ LET asked == Page(reader.cursor)
           page == IF asked.lost THEN [Page(NoEntry) EXCEPT !.gap = TRUE] ELSE asked
       IN  reader' = [cursor |-> page.next, started |-> TRUE, ended |-> page.next = NoEntry,
                      gap |-> reader.gap \/ page.gap,
                      crowded |-> reader.crowded \/ Crowded(reader.cursor),
                      read |-> reader.read \cup page.entries,
                      begun |-> IF reader.started THEN reader.begun ELSE held]
    /\ UNCHANGED <<now, held, added>>

Next ==
    \/ Tick
    \/ \E origin \in Origin, id \in 1..MaxId : AddEntry(origin, id)
    \/ \E x \in held : Evict(x)
    \/ ReadPage

Spec == Init /\ [][Next]_vars

----

\* A client that reached the end and was told of no gap has every row that was there when it began
\* and still is, and it is told of one only when a row it began with or was given went, or two rows
\* of a source were written in the same millisecond.
FeedIsWhole ==
    reader.ended =>
        /\ reader.gap \/ reader.crowded \/ (reader.begun \cap held \subseteq reader.read)
        /\ reader.gap => \/ ~(reader.begun \cup reader.read \subseteq held)
                         \/ \E x, y \in added : x # y /\ x.origin = y.origin /\ x.at = y.at
=============================================================================
