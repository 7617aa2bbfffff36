---------------------------- MODULE OwnerSession ----------------------------
\* How the owner's browser comes to hold a session of the daemon and keeps
\* it: each daemon gives one grant, in a URL, for one session, whose life
\* slides while it is used.  Sessions are the daemon's memory; the tabs of a
\* browser share its cookie, and each keeps a token of its own.  Requests and
\* answers may be lost.
EXTENDS Naturals

CONSTANTS
    Tab,
    MaxStarts,      \* a bound on how often the daemon starts
    Life            \* SESSION_TTL_MS, in ticks; even

VARIABLES
    daemon,         \* which start it is, and its grant
    session,        \* the session of that grant
    cookie,         \* which daemon's session the browser holds
    tab,            \* what each tab has, and shows of the connection
    idle,           \* history: the ticks since the daemon last answered the owner
    unsaid          \* history: the session's life is longer than the cookie's

vars == <<daemon, session, cookie, tab, idle, unsaid>>

Start == 0 .. MaxStarts             \* 0: none
Closed == [open |-> FALSE, given |-> 0, pending |-> 0, csrf |-> 0, shows |-> "LOADING"]

TypeOK ==
    /\ daemon \in [start : 1 .. MaxStarts, grant : {"FRESH", "USED", "EXPIRED"}]
    /\ session \in [live : BOOLEAN, age : 0 .. Life]
    /\ cookie \in [of : Start, age : 0 .. Life]
    /\ tab \in [Tab -> [open : BOOLEAN, given : Start, pending : Start, csrf : Start,
                        shows : {"LOADING", "CONNECTED", "RETRY", "REOPEN", "MESSAGE"}]]
    /\ idle \in 0 .. Life /\ unsaid \in BOOLEAN

\* What becomes of a request: it does not arrive; its answer does not; the answer's headers do; all of it does.
Delivery == {"UNSENT", "UNANSWERED", "HEADERS", "WHOLE"}
Reached(delivery) == delivery # "UNSENT"
Headers(delivery) == delivery \in {"HEADERS", "WHOLE"}

----
(* The daemon *)

\* sessionForRequest: the cookie names a session of this daemon that has not ended.
Authorized ==
    /\ session.live /\ session.age < Life
    /\ cookie.of = daemon.start /\ cookie.age < Life

\* Less than half of its life is left.
Slides == session.age > Life \div 2

\* Mutant: the daemon prolongs the session, and leaves the browser its cookie.
Renewal_OfSession(said) ==
    /\ session' = IF Slides THEN [session EXCEPT !.age = 0] ELSE session
    /\ UNCHANGED <<cookie, unsaid>>

\* requireSession: the session and its cookie, if the browser hears of it.
Renewal(said) ==
    IF Slides
    THEN /\ session' = [session EXCEPT !.age = 0]
         /\ cookie' = IF said THEN [cookie EXCEPT !.age = 0] ELSE cookie
         /\ unsaid' = ~said
    ELSE UNCHANGED <<session, cookie, unsaid>>

Unmoved == UNCHANGED <<session, cookie, unsaid, idle>>

\* A request of a tab that the daemon answers.
Served(said) ==
    /\ Authorized /\ Renewal(said)
    /\ idle' = 0

\* The exchange of a grant for a session.
Granted(t) == tab[t].pending = daemon.start /\ daemon.grant = "FRESH"

Grants(said) ==
    /\ daemon' = [daemon EXCEPT !.grant = "USED"]
    /\ session' = [live |-> TRUE, age |-> 0]
    /\ cookie' = IF said THEN [of |-> daemon.start, age |-> 0] ELSE cookie
    /\ idle' = 0 /\ unsaid' = ~said

----
(* connectToLocalDaemon, in a tab: when it loads, when the owner tries again, and when its stream was closed *)

Shows(t, shown) == tab' = [tab EXCEPT ![t] = shown]

\* Mutant: the token goes with the first attempt.
Failed_Once(row) == [row EXCEPT !.pending = 0, !.shows = "RETRY"]

\* The daemon could not be reached: the token waits for the next attempt.
Failed(row) == [row EXCEPT !.shows = "RETRY"]

\* What the answer to an exchange leaves the tab with.
Exchanged(row, granted, delivery) ==
    CASE ~Headers(delivery) -> Failed(row)
      [] granted /\ delivery = "WHOLE" -> [row EXCEPT !.pending = 0, !.csrf = daemon.start, !.shows = "LOADING"]
      [] granted /\ delivery = "HEADERS" -> [row EXCEPT !.shows = "MESSAGE"]
      [] ~granted /\ delivery = "WHOLE" -> [row EXCEPT !.pending = 0, !.shows = "REOPEN"]
      [] ~granted /\ delivery = "HEADERS" -> [row EXCEPT !.pending = 0, !.shows = "MESSAGE"]

Exchange(t, delivery) ==
    /\ tab[t].open /\ tab[t].pending # 0
    /\ Shows(t, Exchanged(tab[t], Granted(t), delivery))
    /\ IF Granted(t) /\ Reached(delivery) THEN Grants(Headers(delivery)) ELSE Unmoved /\ UNCHANGED daemon

Status(t, delivery) ==
    /\ tab[t].open /\ tab[t].pending = 0
    /\ Shows(t, [tab[t] EXCEPT !.shows =
                    CASE ~Headers(delivery) -> "RETRY"
                      [] delivery = "WHOLE" /\ Authorized -> "CONNECTED"
                      [] delivery = "WHOLE" /\ ~Authorized -> "REOPEN"
                      [] delivery = "HEADERS" -> "MESSAGE"])
    /\ IF Authorized /\ Reached(delivery) THEN Served(Headers(delivery)) ELSE Unmoved
    /\ UNCHANGED daemon

\* Any other request of a connected tab; one that changes something is not sent without a token.
Request(t, delivery, changes) ==
    /\ tab[t].open /\ tab[t].shows = "CONNECTED" /\ Reached(delivery)
    /\ changes => tab[t].csrf # 0
    /\ Served(Headers(delivery))
    /\ UNCHANGED <<daemon, tab>>

\* The stream of a connected tab: its answer is written past the reply that the cookie was set on.
Stream(t) ==
    /\ tab[t].open /\ tab[t].shows = "CONNECTED"
    /\ Authorized /\ Renewal(FALSE)
    /\ UNCHANGED <<daemon, tab, idle>>

----
(* The owner, the browser and the clock *)

\* The launcher opens the URL with the grant, or the owner follows it, or types the address alone.
Open(t) ==
    /\ ~tab[t].open
    /\ \E given \in {0, daemon.start} :
           Shows(t, [Closed EXCEPT !.open = TRUE, !.given = given, !.pending = given])
    /\ Unmoved /\ UNCHANGED daemon

\* The page loads again, without the grant: the token of the tab is all that stays.
Reload(t) ==
    /\ tab[t].open
    /\ Shows(t, [tab[t] EXCEPT !.given = 0, !.pending = 0, !.shows = "LOADING"])
    /\ Unmoved /\ UNCHANGED daemon

Close(t) ==
    /\ tab[t].open
    /\ Shows(t, Closed)
    /\ Unmoved /\ UNCHANGED daemon

\* BOOTSTRAP_TTL_MS is short.
ExpireGrant ==
    /\ daemon.grant = "FRESH"
    /\ daemon' = [daemon EXCEPT !.grant = "EXPIRED"]
    /\ Unmoved /\ UNCHANGED tab

Older(row) == IF row.age = Life THEN row ELSE [row EXCEPT !.age = @ + 1]

Tick ==
    /\ daemon.grant # "FRESH"
    /\ session' = Older(session) /\ cookie' = Older(cookie)
    /\ idle' = IF idle = Life THEN idle ELSE idle + 1
    /\ UNCHANGED <<daemon, tab, unsaid>>

Restart ==
    /\ daemon.start < MaxStarts
    /\ daemon' = [start |-> daemon.start + 1, grant |-> "FRESH"]
    /\ session' = [live |-> FALSE, age |-> 0] /\ idle' = 0 /\ unsaid' = FALSE
    /\ UNCHANGED <<cookie, tab>>

----

Init ==
    /\ daemon = [start |-> 1, grant |-> "FRESH"]
    /\ session = [live |-> FALSE, age |-> 0] /\ cookie = [of |-> 0, age |-> 0]
    /\ tab = [t \in Tab |-> Closed] /\ idle = 0 /\ unsaid = FALSE

Next ==
    \/ Tick \/ ExpireGrant \/ Restart
    \/ \E t \in Tab :
         \/ Open(t) \/ Reload(t) \/ Close(t) \/ Stream(t)
         \/ \E delivery \in Delivery : \/ Exchange(t, delivery) \/ Status(t, delivery)
                                       \/ \E changes \in BOOLEAN : Request(t, delivery, changes)

Spec == Init /\ [][Next]_vars

----

\* An owner who keeps using the daemon keeps the session: it ends for half of its life in which nothing was
\* asked, or where a renewal did not reach the browser.
UsedIsKept ==
    session.live /\ cookie.of = daemon.start /\ ~Authorized => idle >= Life \div 2 \/ unsaid

\* A tab that was opened with the grant has it for as long as the daemon would take it.
TokenIsKept ==
    \A t \in Tab :
        tab[t].given = daemon.start /\ daemon.grant = "FRESH" => tab[t].pending = daemon.start
=============================================================================
