----------------------------- MODULE WorkerPump -----------------------------
\* The pump of createSessionWorker (apps/daemon/src/session-worker.ts): it
\* starts the pending dispatches of all WorkItems, a bounded number at a
\* time.  wake() asks for a pass; a pass plans, starts tasks and waits for
\* one to settle, until nothing is left to do.
\*
\* JavaScript runs one piece of code at a time: while the pass is at
\* "PASS" nothing else moves.  At "AWAIT" and "DRAIN" it waits in
\* consumeOne, at "RETURNED" pump has its next turn to take.
\* What a task does is the subject of module Execution, and the plan that
\* of module Scheduler; here there is one limit, and an item's number is
\* its place in the plan's order.
EXTENDS Integers, FiniteSets, Functions

CONSTANTS
    Item,            \* the WorkItems
    Gated,           \* items whose stage first awaits the verification gate
    Unsettled,       \* items whose provider may become unavailable
    Global,          \* the global limit
    CycleLimit,      \* DISPATCH_CYCLE_LIMIT
    MaxSerial,       \* bound on the dispatches of an item
    OrphansPossible, \* a loop may leave an AgentRun RUNNING behind it
    ReadsMayFail     \* reading the snapshot or planning may throw

ASSUME ItemAssumption == Item \subseteq Nat /\ IsFiniteSet(Item) /\ Gated \subseteq Item
                         /\ Unsettled \subseteq Item
ASSUME LimitAssumption == Global \in Nat /\ CycleLimit \in Nat \ {0} /\ MaxSerial \in Nat \ {0}
ASSUME ModeAssumption == OrphansPossible \in BOOLEAN /\ ReadsMayFail \in BOOLEAN

\* A dispatch is an item and its place among the dispatches of that item.
Dispatch == Item \X (1 .. MaxSerial)

VARIABLES
    queue,      \* durable: the PENDING dispatch of an item, by its place, or 0
    serial,     \* durable: the dispatches an item had so far
    agentRun,   \* durable: the dispatch that started the item's RUNNING AgentRun, or 0
    provider,   \* whether resolveAdapter finds an adapter for the item
    pc, pending, stopping,           \* the pump; running is pc # "IDLE"
    tasks,                           \* activeTasks: the state of the promise of each entry
    blocked, progressed, cycle,      \* the pass: progressedSinceRetry
    handed,     \* history: dispatches this pass handed over
    passed,     \* history: the dispatches tried before the last task moved
    cut         \* history: the last pass gave up early

rows == <<queue, serial, agentRun, provider>>
pass == <<blocked, progressed, cycle, handed, passed, cut>>
vars == <<rows, pc, pending, stopping, tasks, pass>>

TaskState == {"GATE", "RUN", "MOVED", "STUCK"}

\* Every row, flag and local has its type; an item's rows name dispatches it had.
TypeOK ==
    /\ serial \in [Item -> 0 .. MaxSerial]
    /\ queue \in [Item -> 0 .. MaxSerial] /\ agentRun \in [Item -> 0 .. MaxSerial]
    /\ \A i \in Item : queue[i] \in {0, serial[i]} /\ agentRun[i] <= serial[i]
    /\ provider \in [Item -> BOOLEAN]
    /\ pc \in {"IDLE", "PASS", "AWAIT", "DRAIN", "RETURNED"}
    /\ pending \in BOOLEAN /\ stopping \in BOOLEAN
    /\ DOMAIN tasks \subseteq Dispatch /\ tasks \in [DOMAIN tasks -> TaskState]
    /\ blocked \subseteq Dispatch /\ passed \subseteq Dispatch
    /\ progressed \in BOOLEAN /\ cycle \in Nat /\ handed \in Nat /\ cut \in BOOLEAN

IsPending(d) == queue[d[1]] = d[2]
Claims       == {i \in Item : agentRun[i] # 0}

----
(* wake and the pump *)

BeginPass ==
    /\ pc' = "PASS" /\ pending' = FALSE
    /\ blocked' = {} /\ progressed' = FALSE /\ cycle' = 0
    /\ handed' = 0 /\ passed' = {} /\ cut' = FALSE

\* Mutant: a wake that finds the pump running does nothing.
Wake_Dropped ==
    \/ stopping /\ UNCHANGED <<pc, pending, pass>>
    \/ ~stopping /\ pc = "IDLE" /\ BeginPass
    \/ ~stopping /\ pc # "IDLE" /\ UNCHANGED <<pc, pending, pass>>
\* wake(): a pump that is not running starts in the caller's turn.
Wake ==
    \/ stopping /\ UNCHANGED <<pc, pending, pass>>
    \/ ~stopping /\ pc = "IDLE" /\ BeginPass
    \/ ~stopping /\ pc # "IDLE" /\ pending' = TRUE /\ UNCHANGED <<pc, pass>>

Again == pending /\ ~stopping

\* The turn of pump after runOnce returned or threw.
PumpTurns ==
    /\ pc = "RETURNED"
    /\ \/ Again /\ BeginPass
       \/ ~Again /\ pc' = "IDLE" /\ UNCHANGED <<pending, pass>>
    /\ UNCHANGED <<rows, stopping, tasks>>

----
(* The pass: one turn of its loop *)

\* Mutant: the pass does not look at stopping.
Looping_Stopping == pc = "PASS" /\ cycle < CycleLimit
Looping == pc = "PASS" /\ cycle < CycleLimit /\ ~stopping

\* Mutant: as many slots as the limit has, whatever runs.
Available_Always == Global
Available == IF Cardinality(DOMAIN tasks) >= Global THEN 0 ELSE Global - Cardinality(DOMAIN tasks)

\* The items readAgentSchedulingSnapshot reads: what is blocked or runs is excluded.
Offered == {i \in Item : queue[i] # 0 /\ <<i, queue[i]>> \notin blocked \cup DOMAIN tasks}

Skipped == {<<i, queue[i]>> : i \in {j \in Offered : ~provider[j]}}

\* planDispatchBatch with the global limit alone; a stage attempt with an AgentRun is deferred.
Room    == IF Cardinality(Claims) >= Global THEN 0 ELSE Global - Cardinality(Claims)
Fitting == {i \in Offered : provider[i] /\ agentRun[i] # queue[i]}
Selected ==
    {i \in Fitting : LET ahead == Cardinality({j \in Fitting : j < i})
                     IN  ahead < Room /\ ahead < Available}

\* executeDispatch up to its first await.  A stage behind the gate claims later; START_AGENT_RUN
\* refuses a WorkItem that still has an AgentRun, or parks an attempt whose budget is spent.
Started(i, outcome) ==
    CASE outcome = "GATE"  -> i \in Gated
      [] outcome = "STUCK" -> i \notin Gated /\ agentRun[i] # 0
      [] outcome \in {"RUN", "MOVED"} -> i \notin Gated /\ agentRun[i] = 0

Spent == Cardinality(Selected)

Launch ==
    /\ Looping /\ Available > 0 /\ Selected # {}
    /\ \E outcome \in [Selected -> TaskState] :
          /\ \A i \in Selected : Started(i, outcome[i])
          /\ tasks' = [d \in DOMAIN tasks \cup {<<i, queue[i]>> : i \in Selected} |->
                          IF d[1] \in Selected /\ IsPending(d) THEN outcome[d[1]] ELSE tasks[d]]
          /\ agentRun' = [i \in Item |-> IF i \in Selected /\ outcome[i] = "RUN"
                                         THEN queue[i] ELSE agentRun[i]]
          /\ queue' = [i \in Item |-> IF i \in Selected /\ outcome[i] = "MOVED"
                                      THEN 0 ELSE queue[i]]
    /\ blocked' = blocked \cup Skipped
    /\ cycle' = cycle + Spent /\ handed' = handed + Cardinality(Selected)
    /\ UNCHANGED <<serial, provider, pc, pending, stopping, progressed, passed, cut>>

NothingToStart == Available = 0 \/ Selected = {}
Blocked        == IF Available = 0 THEN blocked ELSE blocked \cup Skipped

TasksLeft == DOMAIN tasks # {}

WaitForTask ==
    /\ Looping /\ NothingToStart /\ TasksLeft
    /\ pc' = "AWAIT" /\ blocked' = Blocked
    /\ UNCHANGED <<rows, pending, stopping, tasks, progressed, cycle, handed, passed, cut>>

\* Mutant: what is blocked is not tried again.
MayRetry_Never == FALSE
MayRetry == progressed /\ Blocked # {}

\* Something moved since the blocked dispatches were tried: they are tried once more.
Retry ==
    /\ Looping /\ NothingToStart /\ ~TasksLeft /\ MayRetry
    /\ blocked' = {} /\ progressed' = FALSE /\ cycle' = cycle + 1 /\ passed' = {}
    /\ UNCHANGED <<rows, pc, pending, stopping, tasks, handed, cut>>

Finish ==
    /\ Looping /\ NothingToStart /\ ~TasksLeft /\ ~MayRetry
    /\ pc' = "RETURNED" /\ blocked' = Blocked
    /\ UNCHANGED <<rows, pending, stopping, tasks, progressed, cycle, handed, passed, cut>>

\* stopping ends the pass at once, and a throw leaves it with its tasks running.
Leave ==
    /\ pc = "PASS" /\ cycle < CycleLimit
    /\ stopping \/ (ReadsMayFail /\ Available > 0)
    /\ pc' = "RETURNED" /\ cut' = TRUE
    /\ UNCHANGED <<rows, pending, stopping, tasks, blocked, progressed, cycle, handed, passed>>

GiveUp ==
    /\ pc = "PASS" /\ cycle >= CycleLimit
    /\ pc' = IF TasksLeft THEN "DRAIN" ELSE "RETURNED"
    /\ cut' = TRUE
    /\ UNCHANGED <<rows, pending, stopping, tasks, blocked, progressed, cycle, handed, passed>>

\* consumeOne: Promise.race names a task that settled.  After the cycle limit the rest is drained.
Consume(d) ==
    /\ pc \in {"AWAIT", "DRAIN"} /\ tasks[d] \in {"MOVED", "STUCK"}
    /\ tasks' = Restrict(tasks, DOMAIN tasks \ {d})
    /\ IF tasks[d] = "MOVED"
       THEN /\ progressed' = (progressed \/ pc = "AWAIT")
            /\ passed' = blocked \cup DOMAIN tasks /\ UNCHANGED blocked
       ELSE blocked' = blocked \cup {d} /\ UNCHANGED <<progressed, passed>>
    /\ pc' = CASE pc = "AWAIT" -> "PASS"
               [] pc = "DRAIN" /\ DOMAIN tasks = {d} -> "RETURNED"
               [] OTHER -> "DRAIN"
    /\ UNCHANGED <<rows, pending, stopping, cycle, handed, cut>>

----
(* The tasks *)

Settle(d, state) == tasks' = [tasks EXCEPT ![d] = state]

\* The trailing read of the queue.
Reread(d, q) == Settle(d, IF q[d[1]] = d[2] THEN "STUCK" ELSE "MOVED")

\* The next stage's dispatch, or none: the pipeline waits for its owner or is done.
Follow(i) ==
    \/ queue' = [queue EXCEPT ![i] = 0] /\ UNCHANGED serial
    \/ /\ serial[i] < MaxSerial
       /\ serial' = [serial EXCEPT ![i] = @ + 1] /\ queue' = [queue EXCEPT ![i] = serial[i] + 1]

\* The verification gate answers: it blocks the stage, it moved it, or the stage claims its
\* AgentRun now, which START_AGENT_RUN grants within the limits to a dispatch that is pending.
GateAnswers(d) ==
    LET i == d[1]
        granted == IsPending(d) /\ agentRun[i] = 0 /\ Cardinality(Claims) < Global
    IN
    /\ pc # "PASS" /\ tasks[d] = "GATE"
    /\ \/ Settle(d, "STUCK") /\ UNCHANGED <<queue, serial, agentRun>>
       \/ IsPending(d) /\ Follow(i) /\ Settle(d, "MOVED") /\ UNCHANGED agentRun
       \/ /\ granted /\ Settle(d, "RUN") /\ agentRun' = [agentRun EXCEPT ![i] = d[2]]
          /\ UNCHANGED <<queue, serial>>
       \/ ~granted /\ Reread(d, queue) /\ UNCHANGED <<queue, serial, agentRun>>
    /\ UNCHANGED <<provider, pc, pending, stopping, pass>>

\* The loop returns: with an outcome, or because its dispatch was withdrawn.  Its AgentRun has
\* ended by then, unless the loop left it behind (a stop that was not proven, a store that failed).
TaskSettles(d) ==
    LET i == d[1] IN
    /\ pc # "PASS" /\ tasks[d] = "RUN"
    /\ \/ IsPending(d) /\ Follow(i)
       \/ ~IsPending(d) /\ UNCHANGED <<queue, serial>>
       \/ OrphansPossible /\ UNCHANGED <<queue, serial>>
    /\ Reread(d, queue')
    /\ IF agentRun[i] # d[2] THEN UNCHANGED agentRun
       ELSE \/ queue'[i] # d[2] /\ agentRun' = [agentRun EXCEPT ![i] = 0]
            \/ OrphansPossible /\ queue' = queue /\ UNCHANGED agentRun
    /\ UNCHANGED <<provider, pc, pending, stopping, pass>>

----
(* The owner: the routes, which wake the pump unless noted *)

\* START_PIPELINE, RESUME_PIPELINE, an answer or a budget override queues a dispatch.
OwnerQueues(i) ==
    /\ pc # "PASS" /\ queue[i] = 0 /\ serial[i] < MaxSerial
    /\ serial' = [serial EXCEPT ![i] = @ + 1] /\ queue' = [queue EXCEPT ![i] = serial[i] + 1]
    /\ Wake /\ UNCHANGED <<agentRun, provider, stopping, tasks>>

\* PAUSE_PIPELINE or CANCEL_PIPELINE withdraws it; neither route wakes the pump.  The AgentRun
\* ends at once, or it is left to the task or, when no task is left, to OwnerFrees.
OwnerStops(i) ==
    /\ pc # "PASS" /\ queue[i] # 0
    /\ queue' = [queue EXCEPT ![i] = 0]
    /\ agentRun' \in {agentRun, [agentRun EXCEPT ![i] = 0]}
    /\ UNCHANGED <<serial, provider, pc, pending, stopping, tasks, pass>>

\* END_PROVIDER_SESSION of the cancel route ends the AgentRun a loop left behind.
OwnerFrees(i) ==
    /\ pc # "PASS" /\ queue[i] # agentRun[i] /\ agentRun[i] # 0
    /\ <<i, agentRun[i]>> \in DOMAIN tasks => tasks[<<i, agentRun[i]>>] # "RUN"
    /\ agentRun' = [agentRun EXCEPT ![i] = 0]
    /\ UNCHANGED <<queue, serial, provider, pc, pending, stopping, tasks, pass>>

\* The provider selection of the item's project changes.
ProviderChanges(i) ==
    /\ pc # "PASS" /\ i \in Unsettled
    /\ provider' = [provider EXCEPT ![i] = ~@]
    /\ Wake /\ UNCHANGED <<queue, serial, agentRun, stopping, tasks>>

\* stop(): the daemon shuts down.
Stop ==
    /\ pc # "PASS" /\ ~stopping
    /\ stopping' = TRUE /\ pending' = FALSE
    /\ UNCHANGED <<rows, pc, tasks, pass>>

\* The daemon listens and wakes the pump for what its restart left pending.
Init ==
    /\ serial = [i \in Item |-> 1] /\ queue \in [Item -> {0, 1}]
    /\ agentRun = [i \in Item |-> 0] /\ provider = [i \in Item |-> TRUE]
    /\ pc = "PASS" /\ pending = FALSE /\ stopping = FALSE
    /\ tasks = <<>>
    /\ blocked = {} /\ progressed = FALSE /\ cycle = 0
    /\ handed = 0 /\ passed = {} /\ cut = FALSE

Pump == PumpTurns \/ Launch \/ WaitForTask \/ Retry \/ Finish \/ Leave \/ GiveUp
        \/ \E d \in DOMAIN tasks : Consume(d)

Task(d) == d \in DOMAIN tasks /\ (GateAnswers(d) \/ TaskSettles(d))

Owner(i) == OwnerQueues(i) \/ OwnerStops(i) \/ OwnerFrees(i) \/ ProviderChanges(i)

Next == Pump \/ (\E d \in Dispatch : Task(d)) \/ (\E i \in Item : Owner(i)) \/ Stop

Spec == Init /\ [][Next]_vars

\* The pump runs whenever it can, and every task settles: gates and sessions have deadlines.
FairSpec == Spec /\ WF_vars(Pump) /\ \A d \in Dispatch : WF_vars(Task(d))

----
(* Properties *)

\* A dispatch the plan could start now: it is pending, it can be claimed and there is a slot.
Startable(i) ==
    /\ queue[i] # 0 /\ provider[i] /\ agentRun[i] = 0 /\ <<i, queue[i]>> \notin DOMAIN tasks
    /\ Cardinality(Claims) < Global /\ Cardinality(DOMAIN tasks) < Global

\* When the pump rests after a pass it was not cut short in, what could start was tried, and
\* tried again after the last task that moved.
NothingLeftBehind ==
    pc = "IDLE" /\ ~cut /\ ~stopping =>
        \A i \in Item : Startable(i) => <<i, queue[i]>> \in blocked \ passed

\* The pool never holds more tasks, and the store never more AgentRuns, than the limit.
PoolBounded == Cardinality(DOMAIN tasks) <= Global /\ Cardinality(Claims) <= Global

\* A task stays in activeTasks, as the same promise, until a pass consumed it settled; and once the
\* worker was stopped no other joins it.
Followed ==
    /\ \A d \in DOMAIN tasks :
          \/ d \in DOMAIN tasks' /\ (tasks[d] \in {"MOVED", "STUCK"} => tasks'[d] = tasks[d])
                               /\ (tasks[d] = "RUN" => tasks'[d] # "GATE")
          \/ d \notin DOMAIN tasks' /\ tasks[d] \in {"MOVED", "STUCK"}
    /\ stopping => DOMAIN tasks' \subseteq DOMAIN tasks

\* No dispatch is executed twice at a time, no task is forgotten, and nothing starts after a stop.
TasksAreConsumed == [][Followed]_vars

\* One pass hands over at most the cycle limit, and what its last batch adds to it.
PassIsBounded == handed <= CycleLimit + Global - 1

\* whenIdle's promise: when the pump rests no task is left.
IdleMeansNoTasks == pc = "IDLE" /\ ~stopping => DOMAIN tasks = {}

\* A wake is honoured by a pass of its own, never dropped.
WakeIsHonoured == pending ~> ((pc = "PASS" /\ ~pending) \/ stopping)

\* A pending dispatch is tried or withdrawn sooner or later, whatever it was deferred for, unless
\* a pass is cut short, its provider is gone or the daemon stops.
DispatchIsTried ==
    \A i \in Item : queue[i] # 0 ~>
        (\/ queue[i] = 0 \/ <<i, queue[i]>> \in DOMAIN tasks \cup blocked
         \/ cut \/ ~provider[i] \/ stopping)

\* The pump answers whoever waits for it.
PumpAnswers == WakeIsHonoured /\ DispatchIsTried

----
(* What the documentation says *)

\* "Up to three agent runs in parallel by default": no dispatch that a wake announced waits for
\* some other task to settle while there is a slot for it.
FreeSlotIsUsed ==
    pc = "AWAIT" /\ pending =>
        \A i \in Item : Startable(i) => <<i, queue[i]>> \in blocked

=============================================================================
