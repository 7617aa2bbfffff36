---------------------------- MODULE Publication ----------------------------
\* The owner's decisions about a Project that are also files in its
\* repository: .loomrail/constitution.md and .loomrail/verification-plan.json.
\* A decision is recorded with a PENDING publication, and a drain writes the
\* file and settles the row.  The two kinds differ in the guards and in how
\* their drains are run, so kind is chosen at the start and kept.
\*
\* Texts are numbers: 0 is no file, n the text of revision n (each revision
\* has its own), Own the text somebody else wrote.
EXTENDS Integers, Sequences

CONSTANTS
    Drainer,      \* the requests and the startup whose drains overlap
    MaxRevision,  \* bound: decisions
    MaxVersion    \* bound: no retry once a publication is beyond this version

VARIABLES
    kind,      \* CONSTITUTION or PLAN
    revision,  \* the rows: one decision and its publication each
    preview,   \* what the owner was last shown and may still adopt
    drain,     \* the drains under way
    disk,      \* the text of the target file
    held,      \* history: the revisions whose text was on disk
    phase      \* of the daemon

vars == <<kind, revision, preview, drain, disk, held, phase>>

Own == -1
Text == Own .. MaxRevision
Newest == Len(revision)

PublicationStatus == {"PENDING", "APPLIED", "FAILED"}
Standing == {"PUBLISHING", "ACTIVE", "SUPERSEDED", "FAILED", "DISABLED"}
Revision == [status : PublicationStatus, standing : Standing, expected : Text, version : 1 .. MaxVersion + 2]
Preview  == [target : Text, newest : 0 .. MaxRevision]
Listed   == [of : 1 .. MaxRevision, version : 1 .. MaxVersion + 2]
Drain    == [at : {"IDLE", "QUEUED", "READ", "WRITE", "RECHECK", "RENAME", "CONFIRM",
                    "COMPLETE", "FAIL", "CHANGED"},
             todo : SUBSET Listed]

Resting == [at |-> "IDLE", todo |-> {}]

TypeOK ==
    /\ kind \in {"CONSTITUTION", "PLAN"} /\ disk \in Text /\ held \subseteq 1 .. MaxRevision
    /\ revision \in Seq(Revision) /\ Newest <= MaxRevision
    /\ preview \subseteq Preview /\ drain \in [Drainer -> Drain]
    /\ phase \in {"UP", "BOOTING"}
    /\ \A d \in Drainer : drain[d].at \notin {"IDLE", "QUEUED"} => drain[d].todo # {}

Init ==
    /\ kind \in {"CONSTITUTION", "PLAN"}
    /\ revision = << >> /\ preview = {} /\ disk \in {0, Own} /\ held = {}
    /\ drain = [d \in Drainer |-> Resting] /\ phase = "UP"

----
(* The owner *)

\* The scan of the target before a decision.
Look ==
    /\ phase = "UP" /\ preview' = {[target |-> disk, newest |-> Newest]}
    /\ UNCHANGED <<kind, revision, drain, disk, held, phase>>

\* Every route drains right after its command.
Calls(d) == drain[d] = Resting /\ drain' = [drain EXCEPT ![d].at = "QUEUED"]

Decide(standing, seen) ==
    /\ revision' = Append(revision, [status |-> "PENDING", standing |-> standing,
                                     expected |-> seen.target, version |-> 1])
    /\ preview' = {}

\* decideProjectConstitutionAdoption refuses a second publication; a proposal outlives other decisions.
NothingPending == \A r \in DOMAIN revision : revision[r].standing # "PUBLISHING"
AdoptConstitution(d, seen) ==
    /\ kind = "CONSTITUTION" /\ phase = "UP" /\ Newest < MaxRevision
    /\ NothingPending
    /\ Decide("PUBLISHING", seen) /\ Calls(d)
    /\ UNCHANGED <<kind, disk, held, phase>>

\* A plan is in force at once; the Project's version refuses a preview older than the last decision.
AdoptPlan(d, seen) ==
    /\ kind = "PLAN" /\ phase = "UP" /\ Newest < MaxRevision
    /\ seen.newest = Newest
    /\ Decide("ACTIVE", seen) /\ Calls(d)
    /\ UNCHANGED <<kind, disk, held, phase>>

DisablePlan(d, seen) ==
    /\ kind = "PLAN" /\ phase = "UP" /\ 0 < Newest /\ Newest < MaxRevision
    /\ seen.newest = Newest /\ revision[Newest].standing = "ACTIVE"
    /\ Decide("DISABLED", seen) /\ Calls(d)
    /\ UNCHANGED <<kind, disk, held, phase>>

\* Only the newest, with the expectation it was decided with.
RetriesLeft == \A r \in DOMAIN revision : revision[r].version <= MaxVersion
Retryable(r) == r = Newest /\ revision[r].status = "FAILED" /\ RetriesLeft
Retried(r) ==
    [revision[r] EXCEPT !.status = "PENDING", !.version = @ + 1,
                        !.standing = IF kind = "CONSTITUTION" THEN "PUBLISHING" ELSE @]
Retry(d, r) ==
    /\ phase = "UP" /\ Retryable(r)
    /\ revision' = [revision EXCEPT ![r] = Retried(r)] /\ Calls(d)
    /\ UNCHANGED <<kind, preview, disk, held, phase>>

----
(* A drain *)

\* What a drain lists when it begins; it takes the rows one after another, the oldest first.
Pending ==
    {[of |-> r, version |-> revision[r].version] : r \in {q \in DOMAIN revision : revision[q].status = "PENDING"}}
First(todo) == CHOOSE row \in todo : \A other \in todo : row.of <= other.of

Move(d, step) == drain' = [drain EXCEPT ![d].at = step]
Target(d) == First(drain[d].todo).of
Expected(d) == revision[Target(d)].expected

\* serialised, which the drain of the plans is not wrapped in.
MayBegin(d) == kind = "CONSTITUTION" => \A e \in Drainer \ {d} : drain[e].at \in {"IDLE", "QUEUED"}
Begin(d) ==
    /\ drain[d].at = "QUEUED" /\ MayBegin(d)
    /\ drain' = [drain EXCEPT ![d] = IF Pending = {} THEN Resting ELSE [at |-> "READ", todo |-> Pending]]
    /\ UNCHANGED <<kind, revision, preview, disk, held, phase>>

\* A file that holds the text already was renamed before a crash.
AlreadyThere_AsExpected(d) == disk \in {Target(d), Expected(d)}
AlreadyThere(d) == disk = Target(d)
Read(d) ==
    /\ drain[d].at = "READ"
    /\ \/ AlreadyThere(d) /\ Move(d, "COMPLETE")
       \/ ~AlreadyThere(d) /\ disk # Expected(d) /\ Move(d, "CHANGED")
       \/ ~AlreadyThere(d) /\ disk = Expected(d) /\ Move(d, "WRITE")
       \/ Move(d, "FAIL")   \* the repository, its manifest or .loomrail is not what it was
    /\ UNCHANGED <<kind, revision, preview, disk, held, phase>>

\* The temporary file; only the plan's publisher looks at the target again.
Write(d) ==
    /\ drain[d].at = "WRITE"
    /\ Move(d, IF kind = "PLAN" THEN "RECHECK" ELSE "RENAME") \/ Move(d, "FAIL")
    /\ UNCHANGED <<kind, revision, preview, disk, held, phase>>

Recheck(d) ==
    /\ drain[d].at = "RECHECK"
    /\ Move(d, IF disk = Expected(d) THEN "RENAME" ELSE "CHANGED")
    /\ UNCHANGED <<kind, revision, preview, disk, held, phase>>

Rename(d) ==
    /\ drain[d].at = "RENAME"
    /\ disk' = Target(d) /\ held' = held \cup {Target(d)}
    /\ Move(d, IF kind = "PLAN" THEN "CONFIRM" ELSE "COMPLETE")
    /\ UNCHANGED <<kind, revision, preview, phase>>

Confirm(d) ==
    /\ drain[d].at = "CONFIRM"
    /\ Move(d, IF disk = Target(d) THEN "COMPLETE" ELSE "CHANGED")
    /\ UNCHANGED <<kind, revision, preview, disk, held, phase>>

\* The outcome of a row that another drain settled is refused, or replayed, and changes nothing.
Current(d) ==
    /\ revision[Target(d)].status = "PENDING"
    /\ revision[Target(d)].version = First(drain[d].todo).version

Standby(standing) == IF standing = "ACTIVE" THEN "SUPERSEDED" ELSE standing
Completed(target) ==
    [r \in DOMAIN revision |->
        CASE r = target -> [revision[r] EXCEPT !.status = "APPLIED", !.version = @ + 1,
                                               !.standing = IF kind = "PLAN" THEN @ ELSE "ACTIVE"]
          [] r # target /\ kind = "CONSTITUTION" -> [revision[r] EXCEPT !.standing = Standby(@)]
          [] OTHER -> revision[r]]
Failed(target) ==
    [revision EXCEPT ![target].status = "FAILED", ![target].version = @ + 1,
                     ![target].standing = IF kind = "PLAN" THEN @ ELSE "FAILED"]

Settle(d) ==
    /\ drain[d].at \in {"COMPLETE", "FAIL", "CHANGED"}
    /\ revision' = IF ~Current(d) THEN revision
                   ELSE IF drain[d].at = "COMPLETE" THEN Completed(Target(d)) ELSE Failed(Target(d))
    /\ drain' = [drain EXCEPT ![d] = IF drain[d].todo = {First(drain[d].todo)} THEN Resting
                                     ELSE [at |-> "READ", todo |-> drain[d].todo \ {First(drain[d].todo)}]]
    /\ UNCHANGED <<kind, preview, disk, held, phase>>

----
(* The daemon dies and starts, and drains before it listens; others write *)

Restart(d) ==
    /\ phase' = "BOOTING"
    /\ drain' = [e \in Drainer |-> IF e = d THEN [at |-> "QUEUED", todo |-> {}] ELSE Resting]
    /\ UNCHANGED <<kind, revision, preview, disk, held>>

Listen ==
    /\ phase = "BOOTING" /\ \A d \in Drainer : drain[d] = Resting
    /\ phase' = "UP"
    /\ UNCHANGED <<kind, revision, preview, drain, disk, held>>

Edit ==
    /\ disk' \in {0, Own} \ {disk}
    /\ UNCHANGED <<kind, revision, preview, drain, held, phase>>

----

Next ==
    \/ Look \/ Listen \/ Edit
    \/ \E d \in Drainer :
          \/ \E seen \in preview : AdoptConstitution(d, seen) \/ AdoptPlan(d, seen) \/ DisablePlan(d, seen)
          \/ \E r \in DOMAIN revision : Retry(d, r)
          \/ Restart(d)
          \/ Begin(d) \/ Read(d) \/ Write(d) \/ Recheck(d) \/ Rename(d) \/ Confirm(d) \/ Settle(d)

Spec == Init /\ [][Next]_vars

----
(* Properties *)

\* A row says APPLIED only if its text was on disk after the decision: no crash, other drain or
\* other writer makes Loomrail report a file that it never wrote.
AppliedWasWritten == \A r \in DOMAIN revision : revision[r].status = "APPLIED" => r \in held

\* The constitution in force is the newest that was published, and the file is never older than it.
InForceIsNewest ==
    kind = "CONSTITUTION" =>
        \A r \in DOMAIN revision :
            revision[r].status = "APPLIED" =>
                /\ revision[r].standing = "ACTIVE" <=> \A s \in r + 1 .. Newest : revision[s].status # "APPLIED"
                /\ revision[r].standing = "ACTIVE" => disk \in {0, Own} \/ r <= disk

\* A text that is on disk is not about to be reported as a target that changed.  Of the plans, whose
\* drains overlap and look at the target twice, this does not hold: README.md, "What the code does not keep".
ChangedIsTrue == \A d \in Drainer : drain[d].at = "CHANGED" /\ Current(d) => disk # Target(d)
=============================================================================
