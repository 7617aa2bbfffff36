----------------------------- MODULE McpServers -----------------------------
\* The processes of MCP servers (mcp-gateway): a probe or a provider session
\* starts a supervisor, which starts the server, keeps a record of it on
\* disk and ends with it.  The daemon, the supervisor and the server may each
\* die first; a daemon that starts looks for what its predecessor left.
EXTENDS Naturals

CONSTANTS
    Server,         \* places for a server, used again
    MaxFaults       \* a bound on deaths and on what could not be killed

VARIABLES
    daemon,         \* and the records it has still to look at
    server,         \* each server, its supervisor, and its record
    faults

vars == <<daemon, server, faults>>

\* Why a server may be left with nobody to end it: its supervisor got no record of it written,
\* or both of the attempts to end it failed.
Excuse == {"NONE", "UNWRITTEN", "SURVIVED"}

Fresh == [use |-> "NONE", parent |-> FALSE, supervisor |-> "NONE", tree |-> "NONE", record |-> "NONE",
          excuse |-> "NONE"]

TypeOK ==
    /\ daemon \in [up : BOOLEAN, recovers : SUBSET Server]
    /\ server \in [Server -> [use : {"NONE", "OPEN", "CLOSED", "LEAKED"}, parent : BOOLEAN,
                              supervisor : {"NONE", "STARTING", "WRITING", "RENAMING", "RUNNING", "STOPPING",
                                            "UNLINKING", "GONE"},
                              tree : {"NONE", "LIVE", "LEFT", "GONE", "STRANGER"},
                              record : {"NONE", "PART", "TEMP", "WHOLE"}, excuse : Excuse]]
    /\ faults \in 0 .. MaxFaults

Serving == daemon.up /\ daemon.recovers = {}
HasSupervisor(s) == server[s].supervisor \notin {"NONE", "GONE"}
Fault == faults < MaxFaults /\ faults' = faults + 1

----
(* The daemon: probeMcpRevision, and open and close of a session's binding *)

\* A transport starts the supervisor, with the daemon's pid and the name of the record.
Open(s) ==
    /\ Serving
    /\ server[s].supervisor \in {"NONE", "GONE"} /\ server[s].tree \in {"NONE", "GONE"}
    /\ server[s].record = "NONE"
    /\ server' = [server EXCEPT ![s] = [Fresh EXCEPT !.use = "OPEN", !.parent = TRUE, !.supervisor = "STARTING"]]
    /\ UNCHANGED <<daemon, faults>>

\* client.close: the supervisor's input ends.
Close(s) ==
    /\ daemon.up /\ server[s].use = "OPEN"
    /\ server' = [server EXCEPT ![s].use = "CLOSED"]
    /\ UNCHANGED <<daemon, faults>>

\* The list of the tools fails after the connection is made, while no binding holds the client yet.
Leak(s) ==
    /\ Serving /\ server[s].use = "OPEN" /\ server[s].supervisor = "RUNNING" /\ server[s].tree = "LIVE"
    /\ Fault
    /\ server' = [server EXCEPT ![s].use = "LEAKED"]
    /\ UNCHANGED daemon

DaemonDies ==
    /\ daemon.up /\ Fault
    /\ daemon' = [up |-> FALSE, recovers |-> {}]
    /\ server' = [s \in Server |-> [server[s] EXCEPT !.parent = FALSE]]

----
(* supervisor.ts *)

Launch(s) ==
    /\ server[s].supervisor = "STARTING"
    /\ \/ server' = [server EXCEPT ![s].tree = "LIVE", ![s].supervisor = "WRITING"]
       \/ server' = [server EXCEPT ![s].supervisor = "RUNNING"]     \* no such executable
    /\ UNCHANGED <<daemon, faults>>

\* The record is written beside its name and renamed; a supervisor that cannot ends its server.
Write(s) ==
    /\ server[s].supervisor = "WRITING"
    /\ \/ server' = [server EXCEPT ![s].record = "TEMP", ![s].supervisor = "RENAMING"]
       \/ \E record \in {"NONE", "PART"} :
              server' = [server EXCEPT ![s].record = record, ![s].supervisor = "STOPPING", ![s].excuse = "UNWRITTEN"]
    /\ UNCHANGED <<daemon, faults>>

Rename(s) ==
    /\ server[s].supervisor = "RENAMING"
    /\ \/ server' = [server EXCEPT ![s].record = "WHOLE", ![s].supervisor = "RUNNING"]
       \/ server' = [server EXCEPT ![s].supervisor = "STOPPING"]
    /\ UNCHANGED <<daemon, faults>>

\* The server's own process ends, or leaves those it started.
Exit(s) ==
    /\ server[s].tree = "LIVE"
    /\ \E tree \in {"GONE", "LEFT"} : server' = [server EXCEPT ![s].tree = tree]
    /\ UNCHANGED <<daemon, faults>>

\* Whatever ends the supervisor's work: its input, its parent, its server, or what the server says.
MustStop(s) ==
    server[s].use = "CLOSED" \/ ~server[s].parent \/ server[s].tree # "NONE"

\* Mutant: the record goes before the tree does.
Stopping_Unrecorded(row) == [row EXCEPT !.supervisor = "STOPPING", !.record = "NONE"]

Stopping(row) == [row EXCEPT !.supervisor = "STOPPING"]

Stop(s) ==
    /\ server[s].supervisor = "RUNNING" /\ MustStop(s)
    /\ server' = [server EXCEPT ![s] = Stopping(@)]
    /\ UNCHANGED <<daemon, faults>>

\* terminateTree: asked, then forced; it may survive both.
Terminate(s) ==
    /\ server[s].supervisor = "STOPPING"
    /\ \/ /\ server' = [server EXCEPT ![s].supervisor = "UNLINKING",
                                      ![s].tree = IF @ \in {"LIVE", "LEFT"} THEN "GONE" ELSE @]
          /\ UNCHANGED faults
       \/ /\ server[s].tree = "LIVE" /\ Fault
          /\ server' = [server EXCEPT ![s].supervisor = "UNLINKING", ![s].excuse = "SURVIVED"]
    /\ UNCHANGED daemon

\* The record is removed either way, and the supervisor ends.
Unlink(s) ==
    /\ server[s].supervisor = "UNLINKING"
    /\ server' = [server EXCEPT ![s].record = "NONE", ![s].supervisor = "GONE"]
    /\ UNCHANGED <<daemon, faults>>

SupervisorDies(s) ==
    /\ HasSupervisor(s) /\ Fault
    /\ server' = [server EXCEPT ![s].supervisor = "GONE",
                                ![s].excuse = IF server[s].supervisor = "WRITING" THEN "UNWRITTEN" ELSE @]
    /\ UNCHANGED daemon

----
(* recoverMcpOrphans *)

\* The records are listed once, before the daemon serves.
StartDaemon ==
    /\ ~daemon.up
    /\ daemon' = [up |-> TRUE, recovers |-> {s \in Server : server[s].record # "NONE"}]
    /\ UNCHANGED <<server, faults>>

\* Mutant: a process with the recorded id is the recorded process.
StartMatches_Any(s) == server[s].tree \in {"LIVE", "STRANGER"}

\* It started when the recorded one did.
StartMatches(s) == server[s].tree = "LIVE"

Removed(s) == server' = [server EXCEPT ![s].record = "NONE"]
Killed(s) == server' = [server EXCEPT ![s].record = "NONE", ![s].tree = "GONE"]
Skipped == UNCHANGED server

Recover(s) ==
    /\ daemon.up /\ s \in daemon.recovers
    /\ IF server[s].record = "NONE" \/ HasSupervisor(s) THEN Skipped
       ELSE IF server[s].record = "PART" \/ server[s].tree \notin {"LIVE", "STRANGER"} THEN Removed(s)
       ELSE \/ Skipped                     \* not to be observed, or not to be killed
            \/ StartMatches(s) /\ Killed(s)
    /\ daemon' = [daemon EXCEPT !.recovers = @ \ {s}]
    /\ UNCHANGED faults

\* The system gives the id of a process that ended to another.
Reuse(s) ==
    /\ server[s].tree = "GONE" /\ server[s].record # "NONE" /\ ~HasSupervisor(s) /\ Fault
    /\ server' = [server EXCEPT ![s].tree = "STRANGER"]
    /\ UNCHANGED daemon

\* The stranger ends.
StrangerEnds(s) ==
    /\ server[s].tree = "STRANGER"
    /\ server' = [server EXCEPT ![s].tree = "GONE"]
    /\ UNCHANGED <<daemon, faults>>

----

Init ==
    /\ daemon = [up |-> TRUE, recovers |-> {}]
    /\ server = [s \in Server |-> Fresh] /\ faults = 0

Supervises(s) ==
    Launch(s) \/ Write(s) \/ Rename(s) \/ Stop(s) \/ Terminate(s) \/ Unlink(s) \/ SupervisorDies(s)

Next ==
    \/ DaemonDies \/ StartDaemon
    \/ \E s \in Server : \/ Open(s) \/ Close(s) \/ Leak(s) \/ Supervises(s) \/ Exit(s) \/ Recover(s)
                         \/ Reuse(s) \/ StrangerEnds(s)

Spec == Init /\ [][Next]_vars

----

\* A server without its supervisor has a record by which the next start finds it, in whatever order
\* the daemon, the supervisor and the server died, unless its supervisor never got to write it, or could
\* not end the server.
LiveIsRecorded ==
    \A s \in Server :
        server[s].tree = "LIVE" /\ server[s].supervisor = "GONE" =>
            server[s].record \in {"TEMP", "WHOLE"} \/ server[s].excuse # "NONE"

\* Recovery never ends a process that is not the recorded one.
StrangersLive ==
    \A s \in Server : Recover(s) /\ server[s].tree = "STRANGER" => server'[s].tree = "STRANGER"
=============================================================================
