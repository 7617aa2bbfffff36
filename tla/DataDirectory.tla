---------------------------- MODULE DataDirectory ----------------------------
\* Who may use the data directory, and what becomes of the database in it:
\* the writer lock every `loomrail` process takes first (log-lifecycle.ts),
\* then the migrations (migrations.ts) and the commands of a daemon.
\* Processes of an older and a newer build start, race and die.
EXTENDS Naturals, FiniteSets

CONSTANTS
    Process,        \* process ids; one that ended is used again
    Nobody,
    Builds,         \* the newest migration a started build knows: a set of numbers
    Newest,         \* of all of them
    MaxFaults       \* a bound on crashes

VARIABLES
    lock,           \* .writer.lock: who wrote it, and whether its content is there yet
    process,        \* what each process is doing
    store,          \* state.sqlite: the last migration applied, the one it was at when last written to
    backups,        \* of the database, each by the schema it is in
    faults

vars == <<lock, process, store, backups, faults>>

NoLock == [by |-> Nobody, whole |-> FALSE]
Off == [at |-> "OFF", role |-> "DAEMON", build |-> 0, tries |-> 0, fresh |-> FALSE]

TypeOK ==
    /\ lock \in [by : Process \cup {Nobody}, whole : BOOLEAN]
    /\ process \in [Process -> [at : {"OFF", "LOCKING", "WRITING", "READING", "RECLAIMING", "HELD", "CHECKED",
                                      "MIGRATING", "SERVING", "RELEASING", "UNLINKING"},
                                role : {"DAEMON", "LOGS"}, build : 0 .. Newest, tries : 0 .. 2, fresh : BOOLEAN]]
    /\ store \in [schema : 0 .. Newest, written : 0 .. Newest, exists : BOOLEAN]
    /\ backups \subseteq 0 .. Newest
    /\ faults \in 0 .. MaxFaults

Alive(p) == process[p].at # "OFF"
Goes(p, at) == process' = [process EXCEPT ![p].at = at]
Ends(p) == process' = [process EXCEPT ![p] = Off]

\* A process that has the lock.
Holding(p) == process[p].at \in {"HELD", "CHECKED", "MIGRATING", "SERVING"}

----
(* acquireLock and its release *)

\* A daemon of some build, or `logs export` and `logs delete`.
Start(p) ==
    /\ process[p].at = "OFF"
    /\ \E role \in {"DAEMON", "LOGS"}, build \in Builds :
          process' = [process EXCEPT ![p] = [Off EXCEPT !.at = "LOCKING", !.role = role, !.build = build]]
    /\ UNCHANGED <<lock, store, backups, faults>>

\* open(path, "wx"): the file is there before its content is.
CreateLock(p) ==
    /\ process[p].at = "LOCKING"
    /\ IF lock.by = Nobody
       THEN lock' = [by |-> p, whole |-> FALSE] /\ Goes(p, "WRITING")
       ELSE Goes(p, "READING") /\ UNCHANGED lock
    /\ UNCHANGED <<store, backups, faults>>

\* The record is written; when it cannot be, the file is removed.
WriteLock(p) ==
    /\ process[p].at = "WRITING"
    /\ \/ lock' = [lock EXCEPT !.whole = (lock.by = p) \/ @] /\ Goes(p, "HELD")
       \/ lock' = NoLock /\ Ends(p)
    /\ UNCHANGED <<store, backups, faults>>

Again(p) ==
    IF process[p].tries = 2 THEN Ends(p)
    ELSE process' = [process EXCEPT ![p].at = "LOCKING", ![p].tries = @ + 1]

\* Mutant: an unreadable lock is as good as a dead owner's.
Reclaimable_Unreadable == ~lock.whole \/ ~Alive(lock.by)

\* The lock of a process that no longer exists; one that cannot be read is refused.
Reclaimable == lock.whole /\ ~Alive(lock.by)

\* The file is read: gone meanwhile, refused, or reclaimable.
ReadLock(p) ==
    /\ process[p].at = "READING"
    /\ IF lock.by = Nobody THEN Again(p)
       ELSE IF Reclaimable THEN Goes(p, "RECLAIMING") ELSE Ends(p)
    /\ UNCHANGED <<lock, store, backups, faults>>

\* The file is removed, whoever's it is by now.
Reclaim(p) ==
    /\ process[p].at = "RECLAIMING"
    /\ lock' = NoLock
    /\ Again(p)
    /\ UNCHANGED <<store, backups, faults>>

\* release: the record is read first, and removed only while it is this process's own.
Release(p) ==
    /\ process[p].at = "RELEASING"
    /\ IF lock = [by |-> p, whole |-> TRUE] THEN Goes(p, "UNLINKING") ELSE Ends(p)
    /\ UNCHANGED <<lock, store, backups, faults>>

Unlink(p) ==
    /\ process[p].at = "UNLINKING"
    /\ lock' = NoLock
    /\ Ends(p)
    /\ UNCHANGED <<store, backups, faults>>

\* An export or a deletion of the logs is over; a daemon closes its database, or failed to open it.
Close(p) ==
    /\ process[p].at = "SERVING" \/ (process[p].at = "HELD" /\ process[p].role = "LOGS")
    /\ Goes(p, "RELEASING")
    /\ UNCHANGED <<lock, store, backups, faults>>

----
(* openLocalState *)

\* Whether there is data is asked before the file is opened, and what was applied is read; a version
\* this build does not know refuses the start.
Inspect(p) ==
    /\ process[p].at = "HELD" /\ process[p].role = "DAEMON"
    /\ process' = [process EXCEPT ![p].fresh = ~store.exists,
                                  ![p].at = IF store.schema > process[p].build THEN "RELEASING" ELSE "CHECKED"]
    /\ store' = [store EXCEPT !.exists = TRUE]
    /\ UNCHANGED <<lock, backups, faults>>

HasPending(p) == store.schema < process[p].build
\* Mutant: one backup is enough.
NeedsBackup_Once(p) == HasPending(p) /\ ~process[p].fresh /\ backups = {}

NeedsBackup(p) == HasPending(p) /\ ~process[p].fresh

Backup(p) ==
    /\ process[p].at = "CHECKED"
    /\ backups' = IF NeedsBackup(p) THEN backups \cup {store.schema} ELSE backups
    /\ Goes(p, IF HasPending(p) THEN "MIGRATING" ELSE "SERVING")
    /\ UNCHANGED <<lock, store, faults>>

\* One migration and its line in the ledger, in one transaction that commits or leaves nothing.
Migrate(p) ==
    /\ process[p].at = "MIGRATING"
    /\ \/ /\ store' = [store EXCEPT !.schema = @ + 1]
          /\ Goes(p, IF store.schema + 1 = process[p].build THEN "SERVING" ELSE "MIGRATING")
       \/ Goes(p, "RELEASING") /\ UNCHANGED store
    /\ UNCHANGED <<lock, backups, faults>>

\* A command of the serving daemon.
Execute(p) ==
    /\ process[p].at = "SERVING"
    /\ store' = [store EXCEPT !.written = store.schema]
    /\ UNCHANGED <<lock, process, backups, faults>>

Die(p) ==
    /\ Alive(p) /\ faults < MaxFaults
    /\ faults' = faults + 1
    /\ Ends(p)
    /\ UNCHANGED <<lock, store, backups>>

----

Init ==
    /\ lock = NoLock /\ process = [p \in Process |-> Off]
    /\ store = [schema |-> 0, written |-> 0, exists |-> FALSE]
    /\ backups = {} /\ faults = 0

Locks(p) == Start(p) \/ CreateLock(p) \/ WriteLock(p) \/ ReadLock(p) \/ Reclaim(p) \/ Release(p) \/ Unlink(p)
Opens(p) == Inspect(p) \/ Backup(p) \/ Migrate(p)

Next == \E p \in Process : Locks(p) \/ Opens(p) \/ Execute(p) \/ Close(p) \/ Die(p)

Spec == Init /\ [][Next]_vars

----

\* One process at a time has the directory, whoever died: a daemon, or a command that reads or
\* deletes its logs.  (Of two processes only.  A third may find the same stale lock as the second,
\* and remove the lock the second has made by then.)
OneHolder == \A p, q \in Process : Holding(p) /\ Holding(q) => p = q

\* A daemon serves only a schema whose every version it knows; of two processes, as OneHolder.
SchemaIsKnown == \A p \in Process : process[p].at = "SERVING" => store.schema <= process[p].build

\* What was written before the schema moved on is in a backup of the schema it was written in.
BackedUp == store.written > 0 /\ store.written < store.schema => store.written \in backups
=============================================================================
