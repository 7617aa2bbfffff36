----------------------------- MODULE Readiness -----------------------------
\* Whether a project is ready to be launched: the scan of its repository by
\* short git commands while the repository goes on
\* (packages/project-readiness/src/scanner.ts), the run that is recorded of
\* it, and the owner's answers to the checks no scan can make
\* (packages/domain/src/readiness.ts), given in several tabs.
\*
\* Of the automated checks the one for an active constitution is kept apart
\* and all the others are one; the owner's two answers, that a check is
\* confirmed or does not apply, are one. Left out are the commit a run is
\* of (LaunchRelease), the version of the project a page must know, and the
\* texts; the store orders runs by the millisecond, and no two share one.
EXTENDS Naturals, Sequences, SequencesExt, FiniteSets

CONSTANTS
    Tab,      \* the owner's tabs
    Key,      \* the checks that ask the owner
    MaxRuns   \* bound on the readiness runs

VARIABLES
    active,  \* durable: the project has an active constitution
    runs,    \* durable: the readiness runs with their checks, oldest first
    scans,   \* memory: the assessment each tab has asked for
    views,   \* memory: the run each tab shows
    asks     \* attestations that have not reached the daemon

vars == <<active, runs, scans, views, asks>>

Versions == 0 .. Cardinality(Key) + 1
\* A check of the owner's is open until it is answered: a run keeps the answered ones.
Run  == [automated : BOOLEAN, answered : SUBSET Key, status : {"ACTION_REQUIRED", "READY"}, version : Versions]
Scan == [active : BOOLEAN, found : {"NOTHING_YET", "CLEAN", "FINDINGS"}]
View == [run : 0 .. MaxRuns, version : Versions, answered : SUBSET Key]
Ask  == [tab : Tab, run : 1 .. MaxRuns, version : Versions, seen : SUBSET Key, key : Key]
NoScan == [active |-> FALSE, found |-> "NO_SCAN"]

\* Every variable has its type.
TypeOK ==
    /\ active \in BOOLEAN
    /\ runs \in Seq(Run) /\ Len(runs) <= MaxRuns
    /\ scans \in [Tab -> Scan \cup {NoScan}] /\ views \in [Tab -> View] /\ asks \subseteq Ask

Init ==
    /\ active = FALSE
    /\ runs = <<>> /\ scans = [t \in Tab |-> NoScan] /\ asks = {}
    /\ views = [t \in Tab |-> [run |-> 0, version |-> 0, answered |-> {}]]

----
(* What goes on around it *)

\* A constitution is published.
Activate ==
    /\ ~active /\ active' = TRUE
    /\ UNCHANGED <<runs, scans, views, asks>>

----
(* An assessment *)

\* POST readiness/run: the route reads whether there is a constitution, and starts the scan.
Assess(t) ==
    /\ scans[t] = NoScan /\ Len(runs) < MaxRuns
    /\ scans' = [scans EXCEPT ![t] = [active |-> active, found |-> "NOTHING_YET"]]
    /\ UNCHANGED <<active, runs, views, asks>>

\* The tracked paths, the ignore rules, the license, the workflows and the environment files are read,
\* of a repository that changes meanwhile.
Read(t) ==
    /\ scans[t].found = "NOTHING_YET"
    /\ \E found \in {"CLEAN", "FINDINGS"} : scans' = [scans EXCEPT ![t].found = found]
    /\ UNCHANGED <<active, runs, views, asks>>

\* git cannot be run, the repository is not there, a check has more findings than are allowed, or the
\* project has changed since the page was loaded.
Refused(t) ==
    /\ scans[t] # NoScan
    /\ scans' = [scans EXCEPT ![t] = NoScan]
    /\ UNCHANGED <<active, runs, views, asks>>

\* Mutant: the run is ready once one check of the owner's is answered.
StatusOf_Any(automated, answered) ==
    IF automated /\ answered # {} THEN "READY" ELSE "ACTION_REQUIRED"
StatusOf(automated, answered) ==
    IF automated /\ answered = Key THEN "READY" ELSE "ACTION_REQUIRED"

\* RECORD_PROJECT_READINESS_ASSESSMENT: a run whose checks of the owner's are all open.
Record(t) ==
    /\ scans[t].found \in {"CLEAN", "FINDINGS"} /\ Len(runs) < MaxRuns
    /\ LET automated == scans[t].active /\ scans[t].found = "CLEAN" IN
       runs' = Append(runs, [automated |-> automated, answered |-> {},
                             status |-> StatusOf(automated, {}), version |-> 1])
    /\ scans' = [scans EXCEPT ![t] = NoScan]
    /\ UNCHANGED <<active, views, asks>>

----
(* The owner's answers *)

\* A tab loads the latest run and its checks.
Load(t) ==
    /\ runs # <<>>
    /\ views' = [views EXCEPT ![t] = [run |-> Len(runs), version |-> Last(runs).version,
                                      answered |-> Last(runs).answered]]
    /\ UNCHANGED <<active, runs, scans, asks>>

\* The panel offers an answer to a check that shows as open, one at a time.
Answer(t, k) ==
    /\ views[t].run > 0 /\ k \notin views[t].answered /\ \A a \in asks : a.tab # t
    /\ asks' = asks \cup {[tab |-> t, run |-> views[t].run, version |-> views[t].version,
                           seen |-> views[t].answered, key |-> k]}
    /\ UNCHANGED <<active, runs, scans, views>>

\* Mutant: the version of the run is not compared.
MayAttest_Latest(a) == a.run = Len(runs) /\ a.key \notin runs[a.run].answered
\* Only the latest run, as the owner saw it, and no answer twice.
MayAttest(a) == a.run = Len(runs) /\ runs[a.run].version = a.version /\ a.key \notin runs[a.run].answered

\* ATTEST_PROJECT_READINESS_CHECK.
Attest(a) ==
    /\ runs' = IF ~MayAttest(a) THEN runs
               ELSE LET answered == runs[a.run].answered \cup {a.key} IN
                    [runs EXCEPT ![a.run].answered = answered, ![a.run].version = @ + 1,
                                 ![a.run].status = StatusOf(runs[a.run].automated, answered)]
    /\ asks' = asks \ {a}
    /\ UNCHANGED <<active, scans, views>>

----
Next ==
    \/ Activate
    \/ \E t \in Tab : Assess(t) \/ Read(t) \/ Refused(t) \/ Record(t) \/ Load(t)
    \/ \E t \in Tab, k \in Key : Answer(t, k)
    \/ \E a \in asks : Attest(a)

Spec == Init /\ [][Next]_vars

----
(* A run is ready exactly when its automated checks passed and the owner has *)
(* answered each of the others in that very run, however many tabs answer *)
(* and however many runs there were before (domain/src/readiness.ts). *)
ReadyIsAnswered ==
    \A i \in 1 .. Len(runs) :
        (runs[i].status = "READY") <=> (runs[i].automated /\ runs[i].answered = Key)

(* What the owner answers is answered of the run on the screen as it was *)
(* then: no other tab's answer and no newer run came between, and of a run *)
(* that a newer one replaced nothing changes any more. *)
AnswerIsOfWhatWasSeen ==
    \A i \in 1 .. Len(runs) :
        runs'[i] # runs[i] =>
            /\ i = Len(runs)
            /\ \E a \in asks : a.run = i /\ a.seen = runs[i].answered
                               /\ runs'[i].answered = a.seen \cup {a.key}
=============================================================================
