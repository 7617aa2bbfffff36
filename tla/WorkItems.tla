------------------------------ MODULE WorkItems ------------------------------
\* The board of one Project: its WorkItems with their parents, what blocks
\* what, and when the owner may start one.  A WorkItem here says of its
\* workflow only whether its last run is active or over; Workflow has the
\* rest.
\*
\* A command carries the version its sender saw and a stale one changes
\* nothing, so versions are left out; so are the fields UPDATE_WORK_ITEM
\* writes, and the limits of the graph, which are far above any instance.
EXTENDS FiniteSets

CONSTANTS
    Item,       \* the WorkItems a Project may have
    NoItem      \* no parent

VARIABLES
    item,       \* work_items
    blocks      \* work_item_dependencies: a blocker and what it blocks

vars == <<item, blocks>>

State == {"BACKLOG", "READY", "IN_PROGRESS", "BLOCKED", "DONE", "CANCELLED"}
Absent == [state |-> "NONE", parent |-> NoItem, run |-> "NONE"]

TypeOK ==
    /\ item \in [Item -> [state : State \cup {"NONE"}, parent : Item \cup {NoItem},
                      run : {"NONE", "ACTIVE", "OVER"}]]
    /\ blocks \subseteq Item \X Item

Exists(i) == item[i].state # "NONE"
Active(i) == item[i].run = "ACTIVE"
Children(i) == {child \in Item : item[child].parent = i}
Blockers(i) == {b \in Item : <<b, i>> \in blocks}

\* selectUnsatisfiedDependenciesForWorkItem: a cancelled blocker is not a satisfied one.
\* Mutant: it is.
Unsatisfied_UnlessOver(i) == {b \in Blockers(i) : item[b].state \notin {"DONE", "CANCELLED"}}
Unsatisfied(i) == {b \in Blockers(i) : item[b].state # "DONE"}

Init ==
    /\ item = [i \in Item |-> Absent]
    /\ blocks = {}

----
(* The owner's commands *)

\* persistWorkItemDecision: one row is written.
Persist(i, row) == item' = [item EXCEPT ![i] = row] /\ UNCHANGED blocks

CreateWorkItem(i, parent) ==
    /\ ~Exists(i)
    /\ parent # NoItem => Exists(parent) /\ item[parent].state # "IN_PROGRESS"
    /\ Persist(i, [state |-> "BACKLOG", parent |-> parent, run |-> "NONE"])

allowedTransitions(from) ==
    CASE from = "BACKLOG"     -> {"READY", "CANCELLED"}
      [] from = "READY"       -> {"BACKLOG", "IN_PROGRESS", "BLOCKED", "CANCELLED"}
      [] from = "IN_PROGRESS" -> {"READY", "BLOCKED", "CANCELLED"}
      [] from = "BLOCKED"     -> {"READY", "IN_PROGRESS", "CANCELLED"}
      [] OTHER                -> {}

\* decideMove.  By hand the owner may begin a WorkItem whatever blocks it.
Movable(i, target) ==
    /\ target \in allowedTransitions(item[i].state)
    /\ target = "IN_PROGRESS" => Children(i) = {}

\* The active workflow controls the state of its WorkItem.
MayMove(i, target) == Exists(i) /\ ~Active(i) /\ Movable(i, target)

MoveWorkItem(i, target) == MayMove(i, target) /\ Persist(i, [item[i] EXCEPT !.state = target])

\* What is left of the items when those nothing of them blocks are taken away, again and again.
\* Mutant: only a pair that blocks each other is found.
HasCycle_Pairs(graph) == \E edge \in graph : <<edge[2], edge[1]>> \in graph
HasCycle(graph) ==
    LET Left[items \in SUBSET Item] ==
            LET free == {i \in items : \A b \in items : <<b, i>> \notin graph}
            IN  IF free = {} THEN items ELSE Left[items \ free]
    IN  Left[Item] # {}

\* What blocks the item is replaced as a whole.
Replaced(i, blockers) == {edge \in blocks : edge[2] # i} \cup (blockers \X {i})

Settable(i, blockers) ==
    /\ ~Active(i) /\ item[i].state \notin {"DONE", "CANCELLED"}
    /\ i \notin blockers /\ \A b \in blockers : Exists(b)
    /\ Replaced(i, blockers) # blocks
    /\ ~HasCycle(Replaced(i, blockers))

SetWorkItemDependencies(i, blockers) ==
    /\ Exists(i) /\ Settable(i, blockers)
    /\ blocks' = Replaced(i, blockers)
    /\ UNCHANGED item

Startable(i) ==
    item[i].state = "READY" /\ Children(i) = {} /\ Unsatisfied(i) = {} /\ ~Active(i)

StartPipeline(i) ==
    Startable(i) /\ Persist(i, [item[i] EXCEPT !.state = "IN_PROGRESS", !.run = "ACTIVE"])

----
(* What its workflow does to a WorkItem *)

\* It waits for the owner, is paused or interrupted, and goes on.
Waits(i) ==
    Active(i) /\ item[i].state = "IN_PROGRESS" /\ Persist(i, [item[i] EXCEPT !.state = "BLOCKED"])

GoesOn(i) ==
    Active(i) /\ item[i].state = "BLOCKED" /\ Persist(i, [item[i] EXCEPT !.state = "IN_PROGRESS"])

\* The run ends: accepted, returned or rejected by the owner, who was asked, or cancelled.
Ends(i, state) ==
    /\ Active(i)
    /\ state # "CANCELLED" => item[i].state = "BLOCKED"
    /\ Persist(i, [item[i] EXCEPT !.state = state, !.run = "OVER"])

----
Next ==
    \/ \E i \in Item :
          \/ \E parent \in Item \cup {NoItem} : CreateWorkItem(i, parent)
          \/ \E target \in State : MoveWorkItem(i, target)
          \/ \E blockers \in SUBSET Item : SetWorkItemDependencies(i, blockers)
          \/ StartPipeline(i) \/ Waits(i) \/ GoesOn(i)
          \/ \E state \in {"DONE", "BLOCKED", "CANCELLED"} : Ends(i, state)

Spec == Init /\ [][Next]_vars

----
(* What holds *)

\* No WorkItems wait for each other in a circle: of any of them, one waits for none of them.
NothingWaitsInACircle ==
    \A items \in (SUBSET Item) \ {{}} : \E i \in items : \A b \in items : <<b, i>> \notin blocks

\* What a pipeline works on, and what one has delivered, rests on delivered work alone; the owner
\* cannot add to it afterwards, and what blocked it stays delivered.
DeliveredRestsOnDelivered ==
    \A i \in Item : Active(i) \/ item[i].state = "DONE" =>
        \A b \in Blockers(i) : item[b].state = "DONE"

----
(* The page, which has read the board *)

\* deriveWorkItemDependencyView
ViewOf(i) ==
    [children |-> {child \in Item : item[child].parent = i},
     unsatisfied |-> {b \in Item : <<b, i>> \in blocks /\ item[b].state # "DONE"}]

\* The form that starts a run stands where no run was ever shown.
StartOffered(i) ==
    /\ item[i].run = "NONE" /\ item[i].state = "READY"
    /\ ViewOf(i).children = {} /\ ViewOf(i).unsatisfied = {}

\* taskMoves.ts has its own table of the moves.
transitionTargets ==
    [BACKLOG |-> {"READY", "CANCELLED"}, READY |-> {"BACKLOG", "IN_PROGRESS", "BLOCKED", "CANCELLED"},
     IN_PROGRESS |-> {"READY", "BLOCKED", "CANCELLED"}, BLOCKED |-> {"READY", "IN_PROGRESS", "CANCELLED"},
     DONE |-> {}, CANCELLED |-> {}]

MovesOffered(i) == IF Active(i) THEN {} ELSE transitionTargets[item[i].state]

\* The dialog lists every other WorkItem, and leaves it to the daemon to find a circle.
EditOffered(i) == ~Active(i) /\ item[i].state \notin {"DONE", "CANCELLED"}

\* Of the WorkItems that never had a run the page offers to start those the daemon would start.  It
\* offers the moves the daemon would make and, alone of those it would not, to begin by hand a
\* WorkItem that has children; what it offers to edit may at least be unblocked.
OfferedIsAccepted ==
    \A i \in {j \in Item : Exists(j)} :
        /\ StartOffered(i) <=> Startable(i) /\ item[i].run = "NONE"
        /\ \A target \in State : MayMove(i, target) <=>
              target \in MovesOffered(i) /\ ~(target = "IN_PROGRESS" /\ Children(i) # {})
        /\ EditOffered(i) /\ Blockers(i) # {} => Settable(i, {})
=============================================================================
