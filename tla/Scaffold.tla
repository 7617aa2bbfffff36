------------------------------ MODULE Scaffold ------------------------------
\* A new Project from a recipe: the operation and its PROVISIONING Project
\* are rows, the target directory is built by publishProjectScaffold, which
\* claims it with a marker and creates files without replacing any.  Drains
\* of operations run one after another.  The daemon may die at any await,
\* and others may put things into the target.
\*
\* A path of the target is absent, as the recipe has it (WHOLE), the
\* beginning of that (PART: a write cut short), or somebody else's (OTHER).
EXTENDS Integers

CONSTANTS
    Operation,  \* each for a target of its own: projects.repository_path is unique
    File,       \* the files of the recipe, the marker not among them
    MaxVersion  \* bound: no retry beyond this version

VARIABLES
    operation,  \* the scaffold_operations table
    target,     \* what is on disk
    meddled,    \* history: somebody wrote into the target
    publisher,  \* the drain: the operation it works on and where it is
    phase

vars == <<operation, target, meddled, publisher, phase>>

Path == File \cup {"MARKER"}
Content == {"NONE", "PART", "WHOLE", "OTHER"}
Row == [status : {"NONE", "PENDING", "COMPLETED", "FAILED"}, project : {"NONE", "PROVISIONING", "ACTIVE"},
        version : 0 .. MaxVersion + 2]
\* A directory, of which git is the repository in it and more what the recipe does not name.
Target == [directory : BOOLEAN, at : [Path -> Content], git : BOOLEAN, more : BOOLEAN]
Step == {"REST", "PREPARE", "CLAIM", "CREATE", "FILL", "FILES", "TREE", "CHECK", "MARKER", "COMPLETE", "FAIL"}

Nothing == [directory |-> FALSE, at |-> [p \in Path |-> "NONE"], git |-> FALSE, more |-> FALSE]
Rest == [of |-> "NONE", version |-> 0, step |-> "REST", path |-> "MARKER", fresh |-> FALSE, todo |-> {}]

TypeOK ==
    /\ operation \in [Operation -> Row] /\ target \in [Operation -> Target]
    /\ meddled \subseteq Operation /\ phase \in {"UP", "BOOTING"}
    /\ publisher \in [of : Operation \cup {"NONE"}, version : 0 .. MaxVersion + 2, step : Step,
                      path : Path, fresh : BOOLEAN, todo : SUBSET File]
    /\ \A o \in Operation : operation[o].project = "ACTIVE" <=> operation[o].status = "COMPLETED"

Init ==
    /\ operation = [o \in Operation |-> [status |-> "NONE", project |-> "NONE", version |-> 0]]
    /\ target \in [Operation -> {Nothing}]
    /\ meddled = {} /\ publisher = Rest /\ phase = "UP"

----
(* The owner *)

\* The route proposes once more: the target must not be there.
Request(o) ==
    /\ phase = "UP" /\ operation[o].status = "NONE" /\ ~target[o].directory
    /\ operation' = [operation EXCEPT ![o] = [status |-> "PENDING", project |-> "PROVISIONING", version |-> 1]]
    /\ UNCHANGED <<target, meddled, publisher, phase>>

Retry(o) ==
    /\ phase = "UP" /\ operation[o].status = "FAILED" /\ operation[o].version <= MaxVersion
    /\ operation' = [operation EXCEPT ![o].status = "PENDING", ![o].version = @ + 1]
    /\ UNCHANGED <<target, meddled, publisher, phase>>

----
(* The publisher *)

Of == publisher.of
Here == target[Of]
Goto(step) == publisher' = [publisher EXCEPT !.step = step]

\* A drain takes the rows it listed at its start, in order; a row asked for later has the next drain.
Take(o) ==
    /\ publisher = Rest /\ operation[o].status = "PENDING"
    /\ publisher' = [Rest EXCEPT !.of = o, !.version = operation[o].version, !.step = "PREPARE", !.todo = File]
    /\ UNCHANGED <<operation, target, meddled, phase>>

\* An absent target is claimed, a present one must carry this operation's marker.
Prepare ==
    /\ publisher.step = "PREPARE"
    /\ \/ ~Here.directory /\ Goto("CLAIM")
       \/ Here.directory /\ Here.at["MARKER"] = "WHOLE" /\ Goto("FILES")
       \/ Here.directory /\ Here.at["MARKER"] # "WHOLE" /\ Goto("FAIL")
       \/ Goto("FAIL")   \* the parent, the recipe or the repository around it changed
    /\ UNCHANGED <<operation, target, meddled, phase>>

\* mkdir fails when the directory is there by now.
Claim ==
    /\ publisher.step = "CLAIM"
    /\ IF Here.directory THEN Goto("FAIL") /\ UNCHANGED target
       ELSE /\ target' = [target EXCEPT ![Of].directory = TRUE]
            /\ publisher' = [publisher EXCEPT !.step = "CREATE", !.path = "MARKER"]
    /\ UNCHANGED <<operation, meddled, phase>>

\* writeCreateNew: open "wx", then write and sync.
Creatable(p) == Here.at[p] = "NONE"
Create ==
    /\ publisher.step = "CREATE"
    /\ IF Creatable(publisher.path)
       THEN target' = [target EXCEPT ![Of].at[publisher.path] = "PART"] /\ Goto("FILL")
       ELSE UNCHANGED target /\ Goto("FAIL")
    /\ UNCHANGED <<operation, meddled, phase>>

\* The descriptor belongs to the path that was opened: what replaced it since is not written to.
Fill ==
    /\ publisher.step = "FILL"
    /\ \/ /\ target' = [target EXCEPT ![Of].at[publisher.path] = IF @ = "PART" THEN "WHOLE" ELSE @]
          /\ Goto("FILES")
       \/ UNCHANGED target /\ Goto("FAIL")   \* a full disk
    /\ UNCHANGED <<operation, meddled, phase>>

\* verifyOrCreateFile, in any order: what is there must be the recipe's, byte by byte.
Acceptable_Present(f) == Here.at[f] # "NONE"
Acceptable(f) == Here.at[f] = "WHOLE"
VerifyOrCreate(f) ==
    /\ publisher.step = "FILES" /\ f \in publisher.todo
    /\ publisher' = [publisher EXCEPT
                        !.todo = IF Acceptable(f) \/ Here.at[f] = "NONE" THEN @ \ {f} ELSE @,
                        !.path = f,
                        !.step = IF Acceptable(f) THEN "FILES" ELSE IF Here.at[f] = "NONE" THEN "CREATE" ELSE "FAIL"]
    /\ UNCHANGED <<operation, target, meddled, phase>>

\* fresh: the files were gone through a second time, after git.
Verified ==
    /\ publisher.step = "FILES" /\ publisher.todo = {} /\ Goto("TREE")
    /\ UNCHANGED <<operation, target, meddled, phase>>

\* assertKnownTree, then git init unless the repository is there.
Tree ==
    /\ publisher.step = "TREE"
    /\ \/ Here.more /\ Goto("FAIL") /\ UNCHANGED target
       \/ /\ ~Here.more /\ ~publisher.fresh
          /\ target' = [target EXCEPT ![Of].git = TRUE]
          /\ publisher' = [publisher EXCEPT !.step = "FILES", !.todo = File, !.fresh = TRUE]
       \/ ~Here.more /\ ~publisher.fresh /\ Goto("FAIL") /\ UNCHANGED target   \* git failed
       \/ ~Here.more /\ publisher.fresh /\ Goto("MARKER") /\ UNCHANGED target
    /\ UNCHANGED <<operation, meddled, phase>>

Marker ==
    /\ publisher.step = "MARKER"
    /\ Goto(IF Here.at["MARKER"] = "WHOLE" THEN "COMPLETE" ELSE "FAIL")
    /\ UNCHANGED <<operation, target, meddled, phase>>

\* COMPLETE_PROJECT_SCAFFOLD or FAIL_PROJECT_SCAFFOLD, with the version that was listed.
Settled ==
    IF publisher.step = "COMPLETE"
    THEN [status |-> "COMPLETED", project |-> "ACTIVE", version |-> publisher.version + 1]
    ELSE [status |-> "FAILED", project |-> "PROVISIONING", version |-> publisher.version + 1]
Settle ==
    /\ publisher.step \in {"COMPLETE", "FAIL"}
    /\ operation[Of].version = publisher.version
    /\ operation' = [operation EXCEPT ![Of] = Settled]
    /\ publisher' = Rest
    /\ UNCHANGED <<target, meddled, phase>>

----
(* The daemon dies and starts; somebody else works in the directory *)

Restart ==
    /\ phase' = "BOOTING" /\ publisher' = Rest
    /\ UNCHANGED <<operation, target, meddled>>

Listen ==
    /\ phase = "BOOTING" /\ publisher = Rest /\ \A o \in Operation : operation[o].status # "PENDING"
    /\ phase' = "UP"
    /\ UNCHANGED <<operation, target, meddled, publisher>>

Meddle(o) ==
    /\ meddled' = meddled \cup {o}
    /\ \/ target' = [target EXCEPT ![o].directory = TRUE, ![o].more = TRUE]
       \/ \E p \in Path : target' = [target EXCEPT ![o].directory = TRUE, ![o].at[p] = "OTHER"]
    /\ UNCHANGED <<operation, publisher, phase>>

----

PublisherStep ==
    Prepare \/ Claim \/ Create \/ Fill \/ Verified \/ Tree \/ Marker \/ Settle \/ \E f \in File : VerifyOrCreate(f)

Next ==
    \/ \E o \in Operation : Request(o) \/ Retry(o) \/ Take(o) \/ Meddle(o)
    \/ PublisherStep \/ Restart \/ Listen

Spec == Init /\ [][Next]_vars

----
(* Properties *)

\* A Project becomes ACTIVE with every file of the recipe whole, in a repository and under its own
\* marker, unless somebody wrote into the directory: also after any number of crashes and retries.
CompletedIsWhole ==
    \A o \in Operation \ meddled :
        operation[o].status = "COMPLETED" =>
            target[o].git /\ \A p \in Path : target[o].at[p] = "WHOLE"

\* What somebody else wrote into the directory, at whatever moment, is never replaced.
Keeps == \A o \in Operation, p \in Path : target[o].at[p] = "OTHER" => target'[o].at[p] = "OTHER"
OthersAreKept == [][Keeps]_vars

\* A target nobody else wrote to can be taken up again whenever the daemon died.  It cannot: a
\* directory without its whole marker is refused, and so is the file whose write was cut short.
CrashIsResumable ==
    \A o \in Operation \ meddled :
        target[o].directory /\ publisher.of # o =>
            target[o].at["MARKER"] = "WHOLE" /\ \A f \in File : target[o].at[f] # "PART"
=============================================================================
