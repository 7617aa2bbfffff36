-------------------------- MODULE WorkerPumpProofs --------------------------
\* Theorems about module WorkerPump, for every set of WorkItems, all limits
\* and all modes of the environment.
EXTENDS WorkerPump, FiniteSetTheorems, TLAPS

\* The place of an item among the items that may be selected.
Ahead(i) == Cardinality({j \in Fitting : j < i})

----
(* Lemmas *)

\* Everything the pump counts is finite.
LEMMA Finite ==
    ASSUME TypeOK
    PROVE  /\ IsFiniteSet(DOMAIN tasks) /\ Cardinality(DOMAIN tasks) \in Nat
           /\ IsFiniteSet(Claims) /\ Cardinality(Claims) \in Nat
           /\ IsFiniteSet(Fitting) /\ IsFiniteSet(Selected) /\ Cardinality(Selected) \in Nat
<1>1. IsFiniteSet(Dispatch)
  <2>1. IsFiniteSet(1 .. MaxSerial)
    BY FS_Interval, LimitAssumption
  <2> QED BY <2>1, FS_Product, ItemAssumption DEF Dispatch
<1>2. DOMAIN tasks \in SUBSET Dispatch
  BY DEF TypeOK
<1>3. Claims \in SUBSET Item /\ Fitting \in SUBSET Item /\ Selected \in SUBSET Item
  BY DEF Claims, Fitting, Offered, Selected
<1> QED BY <1>1, <1>2, <1>3, FS_Subset, FS_CardinalityType, ItemAssumption

\* What is selected is pending, is not tried in this pass, and does not run.
LEMMA SelectedIsNew ==
    ASSUME TypeOK, NEW i \in Selected
    PROVE  /\ i \in Item /\ queue[i] \in 1 .. MaxSerial /\ queue[i] = serial[i]
           /\ <<i, queue[i]>> \notin DOMAIN tasks /\ <<i, queue[i]>> \in Dispatch
<1>1. i \in Item /\ queue[i] # 0 /\ <<i, queue[i]>> \notin DOMAIN tasks
  BY DEF Selected, Fitting, Offered
<1> QED BY <1>1, LimitAssumption DEF TypeOK, Dispatch

\* The places of two items differ.
LEMMA AheadIsStrict ==
    ASSUME TypeOK, NEW i \in Fitting, NEW j \in Fitting, i < j
    PROVE  Ahead(i) \in Nat /\ Ahead(j) \in Nat /\ Ahead(i) < Ahead(j)
<1> DEFINE S == {k \in Fitting : k < i}
           T == {k \in Fitting : k < j}
<1>1. i \in Nat /\ j \in Nat /\ Fitting \subseteq Nat
  BY ItemAssumption DEF Fitting, Offered
<1>2. IsFiniteSet(S) /\ IsFiniteSet(T)
  BY Finite, FS_Subset
<1>3. S \cup {i} \in SUBSET T /\ i \notin S
  <2>1. ASSUME NEW k \in S PROVE k \in Fitting /\ k < j
    BY <1>1
  <2>2. i \notin S
    BY <1>1
  <2> QED BY <2>1, <2>2
<1>4. Cardinality(S \cup {i}) = Cardinality(S) + 1
  BY <1>2, <1>3, FS_AddElement
<1>5. Cardinality(S \cup {i}) <= Cardinality(T)
  BY <1>2, <1>3, FS_Subset
<1>6. Cardinality(S) \in Nat /\ Cardinality(T) \in Nat
  BY <1>2, FS_CardinalityType
<1> QED BY <1>4, <1>5, <1>6 DEF Ahead

\* As many are selected as there are places.
LEMMA SelectedAtMost ==
    ASSUME TypeOK, NEW n \in Nat, \A i \in Selected : Ahead(i) < n
    PROVE  Cardinality(Selected) <= n
<1> DEFINE f == [i \in Selected |-> Ahead(i)]
<1>1. Selected \subseteq Fitting /\ Fitting \subseteq Nat
  BY ItemAssumption DEF Selected, Fitting, Offered
<1>2. \A i \in Selected : Ahead(i) \in 0 .. n - 1
  <2>1. ASSUME NEW i \in Selected PROVE Ahead(i) \in Nat
    <3>1. IsFiniteSet({k \in Fitting : k < i})
      BY Finite, FS_Subset
    <3> QED BY <3>1, FS_CardinalityType DEF Ahead
  <2> QED BY <2>1
<1>3. \A i, j \in Selected : Ahead(i) = Ahead(j) => i = j
  <2>1. ASSUME NEW i \in Selected, NEW j \in Selected, i < j PROVE Ahead(i) # Ahead(j)
    BY <2>1, <1>1, AheadIsStrict
  <2>2. \A i, j \in Selected : i < j \/ j < i \/ i = j
    BY <1>1
  <2> QED BY <2>1, <2>2
<1>4. f \in Injection(Selected, 0 .. n - 1)
  BY <1>2, <1>3 DEF Injection, IsInjective
<1>5. IsFiniteSet(0 .. n - 1) /\ Cardinality(0 .. n - 1) = n
  BY FS_Interval
<1> QED BY <1>4, <1>5, FS_Injection

\* A batch fits what the store and the pool have left.
LEMMA SelectedFits ==
    ASSUME TypeOK
    PROVE  /\ Cardinality(Selected) <= Room /\ Cardinality(Selected) <= Available
           /\ Room \in Nat /\ Available \in Nat /\ Available <= Global
<1>1. Room \in Nat /\ Available \in Nat /\ Available <= Global
  BY Finite, LimitAssumption DEF Room, Available
<1>2. \A i \in Selected : Ahead(i) < Room /\ Ahead(i) < Available
  BY DEF Selected, Ahead
<1> QED BY <1>1, <1>2, SelectedAtMost

----
(* The inductive invariant *)

\* The pass counts in cycle what it hands over, and more.
HandedIsCounted == handed <= cycle

\* A pump that comes to rest, unless a pass threw, has consumed all its tasks.
RestedIsEmpty ==
    ~ReadsMayFail /\ ~stopping /\ pc \in {"IDLE", "RETURNED"} => DOMAIN tasks = {}

IInv == TypeOK /\ PoolBounded /\ HandedIsCounted /\ PassIsBounded /\ RestedIsEmpty

LEMMA InitCorrect == Init => IInv
<1> SUFFICES ASSUME Init PROVE IInv
  OBVIOUS
<1>1. DOMAIN tasks = {} /\ Claims = {}
  BY DEF Init, Claims
<1>2. Cardinality(DOMAIN tasks) = 0 /\ Cardinality(Claims) = 0
  BY <1>1, FS_EmptySet
<1>3. tasks \in [DOMAIN tasks -> TaskState]
  BY <1>1 DEF Init
<1>4. TypeOK
  <2>1. serial \in [Item -> 0 .. MaxSerial] /\ queue \in [Item -> 0 .. MaxSerial]
    BY LimitAssumption DEF Init
  <2>2. agentRun \in [Item -> 0 .. MaxSerial] /\ provider \in [Item -> BOOLEAN]
    BY LimitAssumption DEF Init
  <2>3. \A i \in Item : queue[i] \in {0, serial[i]} /\ agentRun[i] <= serial[i]
    BY DEF Init
  <2>4. blocked \subseteq Dispatch /\ passed \subseteq Dispatch /\ DOMAIN tasks \subseteq Dispatch
    <3>1. blocked = {} /\ passed = {}
      BY DEF Init
    <3> QED BY <1>1, <3>1
  <2> QED BY <1>3, <2>1, <2>2, <2>3, <2>4 DEF Init, TypeOK
<1>5. QED
  BY <1>1, <1>2, <1>4, LimitAssumption
     DEF Init, IInv, PoolBounded, HandedIsCounted, PassIsBounded, RestedIsEmpty

----
(* Every step keeps the types *)

\* What the store's rows and the tasks have to be, and the rest.
RowsOK ==
    /\ serial \in [Item -> 0 .. MaxSerial]
    /\ queue \in [Item -> 0 .. MaxSerial] /\ agentRun \in [Item -> 0 .. MaxSerial]
    /\ \A i \in Item : queue[i] \in {0, serial[i]} /\ agentRun[i] <= serial[i]
    /\ provider \in [Item -> BOOLEAN]
TasksOK == DOMAIN tasks \subseteq Dispatch /\ tasks \in [DOMAIN tasks -> TaskState]
FlagsOK ==
    /\ pc \in {"IDLE", "PASS", "AWAIT", "DRAIN", "RETURNED"}
    /\ pending \in BOOLEAN /\ stopping \in BOOLEAN
    /\ blocked \subseteq Dispatch /\ passed \subseteq Dispatch
    /\ progressed \in BOOLEAN /\ cycle \in Nat /\ handed \in Nat /\ cut \in BOOLEAN

\* What cannot be scheduled is pending.
LEMMA BlockedType == ASSUME TypeOK PROVE Blocked \subseteq Dispatch /\ Skipped \subseteq Dispatch
<1>1. ASSUME NEW i \in Offered PROVE <<i, queue[i]>> \in Dispatch
  BY LimitAssumption DEF Offered, TypeOK, Dispatch
<1>2. Skipped \subseteq Dispatch
  BY <1>1 DEF Skipped
<1> QED BY <1>2 DEF Blocked, TypeOK

LEMMA LaunchKeepsTypes == ASSUME TypeOK, Launch PROVE TypeOK'
<1>1. PICK outcome \in [Selected -> TaskState] :
        /\ \A i \in Selected : Started(i, outcome[i])
        /\ tasks' = [d \in DOMAIN tasks \cup {<<i, queue[i]>> : i \in Selected} |->
                        IF d[1] \in Selected /\ IsPending(d) THEN outcome[d[1]] ELSE tasks[d]]
        /\ agentRun' = [i \in Item |-> IF i \in Selected /\ outcome[i] = "RUN"
                                       THEN queue[i] ELSE agentRun[i]]
        /\ queue' = [i \in Item |-> IF i \in Selected /\ outcome[i] = "MOVED"
                                    THEN 0 ELSE queue[i]]
  BY DEF Launch
<1>2. RowsOK'
  <2>1. UNCHANGED <<serial, provider>>
    BY DEF Launch
  <2>2. \A i \in Item : queue'[i] \in {0, queue[i]} /\ agentRun'[i] \in {queue[i], agentRun[i]}
    BY <1>1
  <2> QED BY <1>1, <2>1, <2>2, LimitAssumption DEF TypeOK, RowsOK
<1>3. TasksOK'
  <2>1. \A i \in Selected : <<i, queue[i]>> \in Dispatch
    BY SelectedIsNew
  <2>2. ASSUME NEW d \in DOMAIN tasks' PROVE tasks'[d] \in TaskState
    <3>1. CASE d \in DOMAIN tasks
      BY <1>1, <3>1 DEF TypeOK
    <3>2. CASE \E i \in Selected : d = <<i, queue[i]>>
      BY <1>1, <3>2 DEF IsPending
    <3> QED BY <1>1, <3>1, <3>2
  <2> QED BY <1>1, <2>1, <2>2 DEF TypeOK, TasksOK
<1>4. FlagsOK'
  <2>1. Spent \in Nat /\ Cardinality(Selected) \in Nat
    BY Finite DEF Spent
  <2> QED BY <2>1, BlockedType DEF Launch, TypeOK, FlagsOK
<1> QED BY <1>2, <1>3, <1>4 DEF TypeOK, RowsOK, TasksOK, FlagsOK

\* A pass begins with nothing tried.
LEMMA BeginKeepsFlags == ASSUME FlagsOK, BeginPass, UNCHANGED stopping PROVE FlagsOK'
<1>1. /\ pc' = "PASS" /\ pending' = FALSE /\ stopping' \in BOOLEAN
      /\ blocked' = {} /\ passed' = {} /\ progressed' = FALSE
      /\ cycle' = 0 /\ handed' = 0 /\ cut' = FALSE
  BY DEF FlagsOK, BeginPass
<1>2. blocked' \subseteq Dispatch /\ passed' \subseteq Dispatch
  BY <1>1
<1> QED BY <1>1, <1>2 DEF FlagsOK

\* The other turns of the pump leave the rows alone, and add no task.
LEMMA PumpKeepsTypes ==
    ASSUME TypeOK,
           PumpTurns \/ WaitForTask \/ Retry \/ Finish \/ Leave \/ GiveUp
    PROVE  TypeOK'
<1>1. RowsOK' /\ TasksOK'
  BY DEF TypeOK, RowsOK, TasksOK, PumpTurns, WaitForTask, Retry, Finish, Leave, GiveUp, rows
<1>2. FlagsOK'
  <2>1. CASE PumpTurns
    <3>1. FlagsOK
      BY DEF TypeOK, FlagsOK
    <3>2. CASE BeginPass
      BY <2>1, <3>1, <3>2, BeginKeepsFlags DEF PumpTurns
    <3>3. CASE pc' = "IDLE" /\ UNCHANGED <<pending, pass>>
      BY <2>1, <3>1, <3>3 DEF PumpTurns, FlagsOK, pass
    <3> QED BY <2>1, <3>2, <3>3 DEF PumpTurns
  <2>2. CASE WaitForTask \/ Finish
    BY <2>2, BlockedType DEF TypeOK, FlagsOK, WaitForTask, Finish
  <2>3. CASE Retry
    <3>1. blocked' = {} /\ passed' = {}
      BY <2>3 DEF Retry
    <3>2. blocked' \subseteq Dispatch /\ passed' \subseteq Dispatch
      BY <3>1
    <3>3. progressed' \in BOOLEAN /\ UNCHANGED <<pc, pending, stopping, handed, cut>>
      BY <2>3 DEF Retry
    <3>4. cycle' \in Nat
      BY <2>3 DEF Retry, TypeOK
    <3> QED BY <3>2, <3>3, <3>4 DEF TypeOK, FlagsOK
  <2>4. CASE Leave \/ GiveUp
    BY <2>4 DEF TypeOK, FlagsOK, Leave, GiveUp
  <2> QED BY <2>1, <2>2, <2>3, <2>4
<1> QED BY <1>1, <1>2 DEF TypeOK, RowsOK, TasksOK, FlagsOK

LEMMA ConsumeKeepsTypes == ASSUME TypeOK, NEW d \in DOMAIN tasks, Consume(d) PROVE TypeOK'
<1>1. RowsOK'
  BY DEF Consume, TypeOK, RowsOK, rows
<1>2. TasksOK'
  BY DEF Consume, TypeOK, TasksOK, Restrict
<1>3. FlagsOK'
  <2>1. d \in Dispatch /\ blocked \cup DOMAIN tasks \subseteq Dispatch
    BY DEF TypeOK
  <2>2. pc' \in {"IDLE", "PASS", "AWAIT", "DRAIN", "RETURNED"}
    BY DEF Consume
  <2>3. blocked' \subseteq Dispatch /\ passed' \subseteq Dispatch /\ progressed' \in BOOLEAN
    <3>1. CASE tasks[d] = "MOVED"
      BY <2>1, <3>1 DEF Consume, TypeOK
    <3>2. CASE tasks[d] # "MOVED"
      BY <2>1, <3>2 DEF Consume, TypeOK
    <3> QED BY <3>1, <3>2
  <2> QED BY <2>2, <2>3 DEF Consume, TypeOK, FlagsOK
<1> QED BY <1>1, <1>2, <1>3 DEF TypeOK, RowsOK, TasksOK, FlagsOK

\* A follow-up dispatch is the item's next.
LEMMA FollowRows ==
    ASSUME TypeOK, NEW i \in Item, Follow(i)
    PROVE  /\ serial' \in [Item -> 0 .. MaxSerial] /\ queue' \in [Item -> 0 .. MaxSerial]
           /\ \A j \in Item : queue'[j] \in {0, serial'[j]} /\ serial[j] <= serial'[j]
BY LimitAssumption DEF Follow, TypeOK

LEMMA GateKeepsTypes ==
    ASSUME TypeOK, NEW d \in DOMAIN tasks, GateAnswers(d)
    PROVE  TypeOK'
<1>1. d[1] \in Item /\ d[2] \in 1 .. MaxSerial
  BY DEF TypeOK, Dispatch
<1>2. RowsOK'
  <2>1. CASE UNCHANGED <<queue, serial, agentRun>>
    BY <2>1 DEF TypeOK, RowsOK, GateAnswers
  <2>2. CASE Follow(d[1]) /\ UNCHANGED agentRun
    <3>1. \A j \in Item : agentRun[j] \in Int /\ agentRun[j] <= serial[j]
                         /\ serial[j] \in Int /\ serial'[j] \in Int
      BY <1>1, <2>2, FollowRows, LimitAssumption DEF TypeOK
    <3> QED BY <1>1, <2>2, <3>1, FollowRows DEF TypeOK, RowsOK, GateAnswers
  <2>3. CASE IsPending(d) /\ agentRun' = [agentRun EXCEPT ![d[1]] = d[2]] /\ UNCHANGED <<queue, serial>>
    BY <1>1, <2>3, LimitAssumption DEF TypeOK, RowsOK, GateAnswers, IsPending
  <2> QED BY <2>1, <2>2, <2>3 DEF GateAnswers
<1>3. TasksOK'
  BY DEF GateAnswers, Settle, Reread, TypeOK, TasksOK, TaskState
<1>4. FlagsOK'
  BY DEF GateAnswers, TypeOK, FlagsOK, pass
<1> QED BY <1>2, <1>3, <1>4 DEF TypeOK, RowsOK, TasksOK, FlagsOK

LEMMA TaskKeepsTypes ==
    ASSUME TypeOK, NEW d \in DOMAIN tasks, TaskSettles(d)
    PROVE  TypeOK'
<1>1. d[1] \in Item /\ d[2] \in 1 .. MaxSerial
  BY DEF TypeOK, Dispatch
<1>2. Follow(d[1]) \/ UNCHANGED <<queue, serial>>
  BY DEF TaskSettles
<1>3. /\ serial' \in [Item -> 0 .. MaxSerial] /\ queue' \in [Item -> 0 .. MaxSerial]
      /\ \A j \in Item : queue'[j] \in {0, serial'[j]} /\ serial[j] <= serial'[j]
  <2>1. CASE Follow(d[1])
    BY <1>1, <2>1, FollowRows
  <2>2. CASE UNCHANGED <<queue, serial>>
    BY <2>2, LimitAssumption DEF TypeOK
  <2> QED BY <1>2, <2>1, <2>2
<1>4. agentRun' = agentRun \/ agentRun' = [agentRun EXCEPT ![d[1]] = 0]
  BY DEF TaskSettles
<1>5. \A j \in Item : agentRun'[j] \in {0, agentRun[j]}
  BY <1>1, <1>4 DEF TypeOK
<1>6. agentRun' \in [Item -> 0 .. MaxSerial]
  BY <1>1, <1>4, LimitAssumption DEF TypeOK
<1>7. RowsOK'
  <2>1. \A j \in Item : /\ serial[j] \in Int /\ serial'[j] \in Nat
                       /\ agentRun[j] \in Int /\ agentRun[j] <= serial[j]
    BY <1>3, LimitAssumption DEF TypeOK
  <2>2. \A j \in Item : agentRun'[j] <= serial'[j]
    BY <1>3, <1>5, <2>1
  <2> QED BY <1>3, <1>6, <2>2 DEF TypeOK, RowsOK, TaskSettles
<1>8. TasksOK'
  BY DEF TaskSettles, Settle, Reread, TypeOK, TasksOK, TaskState
<1>9. FlagsOK'
  BY DEF TaskSettles, TypeOK, FlagsOK, pass
<1> QED BY <1>7, <1>8, <1>9 DEF TypeOK, RowsOK, TasksOK, FlagsOK

LEMMA OwnerKeepsTypes ==
    ASSUME TypeOK, NEW i \in Item, Owner(i)
    PROVE  TypeOK'
<1>1. RowsOK'
  <2>1. CASE OwnerQueues(i)
    BY <2>1, LimitAssumption DEF OwnerQueues, TypeOK, RowsOK
  <2>2. CASE OwnerStops(i)
    BY <2>2, LimitAssumption DEF OwnerStops, TypeOK, RowsOK
  <2>3. CASE OwnerFrees(i)
    BY <2>3, LimitAssumption DEF OwnerFrees, TypeOK, RowsOK
  <2>4. CASE ProviderChanges(i)
    BY <2>4 DEF ProviderChanges, TypeOK, RowsOK
  <2> QED BY <2>1, <2>2, <2>3, <2>4 DEF Owner
<1>2. TasksOK'
  BY DEF Owner, OwnerQueues, OwnerStops, OwnerFrees, ProviderChanges, TypeOK, TasksOK
<1>3. FlagsOK'
  <2>1. CASE Wake /\ UNCHANGED stopping
    <3>1. FlagsOK
      BY DEF TypeOK, FlagsOK
    <3>2. CASE BeginPass
      BY <2>1, <3>1, <3>2, BeginKeepsFlags
    <3>3. CASE UNCHANGED <<pc, pass>> /\ pending' \in BOOLEAN
      BY <2>1, <3>1, <3>3 DEF FlagsOK, pass
    <3> QED BY <2>1, <3>1, <3>2, <3>3 DEF Wake, FlagsOK
  <2>2. CASE UNCHANGED <<pc, pending, stopping, pass>>
    BY <2>2 DEF pass, TypeOK, FlagsOK
  <2> QED BY <2>1, <2>2 DEF Owner, OwnerQueues, OwnerStops, OwnerFrees, ProviderChanges
<1> QED BY <1>1, <1>2, <1>3 DEF TypeOK, RowsOK, TasksOK, FlagsOK

LEMMA StopKeepsTypes == ASSUME TypeOK, Stop PROVE TypeOK'
BY DEF Stop, TypeOK, rows, pass

----
(* Every step keeps the bounds *)

\* Adding a batch adds no more than its size to the tasks.
LEMMA PoolAfterLaunch ==
    ASSUME TypeOK, PoolBounded, Launch
    PROVE  PoolBounded'
<1> DEFINE new == {<<i, queue[i]>> : i \in Selected}
           f == [d \in new |-> d[1]]
<1>1. DOMAIN tasks' = DOMAIN tasks \cup new
  BY DEF Launch
<1>2. IsFiniteSet(new) /\ Cardinality(new) <= Cardinality(Selected)
  <2>1. f \in Injection(new, Selected)
    BY DEF Injection, IsInjective
  <2>2. IsFiniteSet(Selected)
    BY Finite
  <2> QED BY <2>1, <2>2, FS_Injection
<1>3. Cardinality(DOMAIN tasks \cup new) <= Cardinality(DOMAIN tasks) + Cardinality(new)
  <2>1. IsFiniteSet(DOMAIN tasks)
    BY Finite
  <2>2. IsFiniteSet(DOMAIN tasks \cap new)
    BY <2>1, FS_Intersection
  <2>3. Cardinality(DOMAIN tasks \cup new)
           = Cardinality(DOMAIN tasks) + Cardinality(new) - Cardinality(DOMAIN tasks \cap new)
    BY <1>2, <2>1, FS_Union
  <2>4. Cardinality(DOMAIN tasks \cap new) \in Nat /\ Cardinality(DOMAIN tasks) \in Nat
        /\ Cardinality(new) \in Nat
    BY <1>2, <2>1, <2>2, FS_CardinalityType
  <2> QED BY <2>3, <2>4
<1>4. Cardinality(DOMAIN tasks') <= Global
  <2>1. Cardinality(new) \in Nat /\ Cardinality(DOMAIN tasks') \in Nat
    <3>1. IsFiniteSet(DOMAIN tasks')
      BY <1>1, <1>2, Finite, FS_Union
    <3> QED BY <1>2, <3>1, FS_CardinalityType
  <2>2. Cardinality(Selected) <= Available /\ Available = Global - Cardinality(DOMAIN tasks)
    BY SelectedFits, Finite, LimitAssumption DEF Launch, Available
  <2> QED BY <1>1, <1>2, <1>3, <2>1, <2>2, Finite, LimitAssumption
<1>5. Cardinality(Claims') <= Global
  <2>1. Claims' \in SUBSET (Claims \cup Selected)
    BY DEF Launch, Claims
  <2>2. IsFiniteSet(Claims \cup Selected) /\ IsFiniteSet(Claims \cap Selected)
    BY Finite, FS_Union, FS_Intersection
  <2>3. Cardinality(Claims')  <= Cardinality(Claims \cup Selected)
        /\ Cardinality(Claims') \in Nat /\ Cardinality(Claims \cup Selected) \in Nat
    BY <2>1, <2>2, FS_Subset, FS_CardinalityType
  <2>4. Cardinality(Claims \cup Selected)
           = Cardinality(Claims) + Cardinality(Selected) - Cardinality(Claims \cap Selected)
    BY Finite, FS_Union
  <2>5. Cardinality(Claims \cap Selected) \in Nat
    BY <2>2, FS_CardinalityType
  <2>6. Cardinality(Claims) + Cardinality(Selected) <= Global
    BY SelectedFits, Finite, LimitAssumption DEF Room, PoolBounded
  <2> QED BY <2>3, <2>4, <2>5, <2>6, Finite, LimitAssumption
<1> QED BY <1>4, <1>5 DEF PoolBounded

\* A set that shrinks stays within its bound.
LEMMA PoolShrinks ==
    ASSUME TypeOK, PoolBounded, DOMAIN tasks' \subseteq DOMAIN tasks, Claims' \subseteq Claims
    PROVE  PoolBounded'
<1>1. Cardinality(DOMAIN tasks') <= Cardinality(DOMAIN tasks) /\ IsFiniteSet(DOMAIN tasks')
  BY Finite, FS_Subset
<1>2. Cardinality(Claims') <= Cardinality(Claims) /\ IsFiniteSet(Claims')
  BY Finite, FS_Subset
<1>3. Cardinality(DOMAIN tasks') \in Nat /\ Cardinality(Claims') \in Nat
  BY <1>1, <1>2, FS_CardinalityType
<1> QED BY <1>1, <1>2, <1>3, Finite, LimitAssumption DEF PoolBounded

LEMMA PoolAfterGate ==
    ASSUME TypeOK, PoolBounded, NEW d \in DOMAIN tasks, GateAnswers(d)
    PROVE  PoolBounded'
<1>1. DOMAIN tasks' = DOMAIN tasks
  BY DEF GateAnswers, Settle, Reread, TypeOK
<1>2. CASE UNCHANGED agentRun
  <2>1. Claims' = Claims
    BY <1>2 DEF Claims
  <2> QED BY <1>1, <2>1 DEF PoolBounded
<1>3. CASE agentRun' = [agentRun EXCEPT ![d[1]] = d[2]] /\ Cardinality(Claims) < Global
           /\ agentRun[d[1]] = 0
  <2>1. d[1] \in Item
    BY DEF TypeOK, Dispatch
  <2>2. Claims' \in SUBSET (Claims \cup {d[1]})
    BY <1>3, <2>1 DEF Claims, TypeOK
  <2>3. IsFiniteSet(Claims \cup {d[1]}) /\ Cardinality(Claims \cup {d[1]}) \in Nat
    BY Finite, FS_AddElement, FS_CardinalityType
  <2>4. Cardinality(Claims \cup {d[1]}) <= Cardinality(Claims) + 1
    <3>1. Cardinality(Claims \cup {d[1]}) \in {Cardinality(Claims), Cardinality(Claims) + 1}
      BY Finite, FS_AddElement
    <3> QED BY <3>1, Finite
  <2>5. Cardinality(Claims') <= Cardinality(Claims \cup {d[1]}) /\ Cardinality(Claims') \in Nat
    BY <2>2, <2>3, FS_Subset, FS_CardinalityType
  <2>6. Cardinality(Claims') <= Global
    BY <1>3, <2>3, <2>4, <2>5, Finite, LimitAssumption
  <2> QED BY <1>1, <2>6 DEF PoolBounded
<1> QED BY <1>2, <1>3 DEF GateAnswers

\* A batch raises cycle and handed alike, and no other step hands anything over.
LEMMA PassAfterLaunch ==
    ASSUME TypeOK, HandedIsCounted, PassIsBounded, Launch
    PROVE  HandedIsCounted' /\ PassIsBounded'
<1>1. handed' = handed + Cardinality(Selected) /\ cycle' = cycle + Cardinality(Selected)
  BY DEF Launch, Spent
<1>2. Cardinality(Selected) \in Nat /\ Cardinality(Selected) <= Global
  BY Finite, SelectedFits, LimitAssumption
<1>3. cycle < CycleLimit /\ cycle \in Nat /\ handed \in Nat
  BY DEF Launch, Looping, TypeOK
<1> QED BY <1>1, <1>2, <1>3, LimitAssumption DEF HandedIsCounted, PassIsBounded

----
(* The inductive invariant is one *)

\* What the steps other than Launch do with the bounds and with the tasks.
LEMMA PumpKeepsRest ==
    ASSUME IInv, PumpTurns \/ WaitForTask \/ Retry \/ Finish \/ Leave \/ GiveUp
    PROVE  PoolBounded' /\ HandedIsCounted' /\ PassIsBounded' /\ RestedIsEmpty'
<1>1. UNCHANGED <<rows, tasks, stopping>>
  BY DEF PumpTurns, WaitForTask, Retry, Finish, Leave, GiveUp
<1>2. PoolBounded'
  <2>1. UNCHANGED <<tasks, agentRun>>
    BY <1>1 DEF rows
  <2> QED BY <2>1 DEF IInv, PoolBounded, Claims
<1>3. HandedIsCounted' /\ PassIsBounded'
  <2>1. cycle \in Nat /\ handed \in Nat /\ handed <= cycle
    BY DEF IInv, TypeOK, HandedIsCounted
  <2>2. (handed' = handed /\ cycle' \in {cycle, cycle + 1}) \/ (handed' = 0 /\ cycle' = 0)
    BY DEF PumpTurns, BeginPass, WaitForTask, Retry, Finish, Leave, GiveUp, pass
  <2> QED BY <2>1, <2>2, LimitAssumption DEF IInv, HandedIsCounted, PassIsBounded
<1>4. RestedIsEmpty'
  <2>1. CASE PumpTurns
    BY <1>1, <2>1 DEF PumpTurns, BeginPass, IInv, RestedIsEmpty
  <2>2. CASE WaitForTask \/ Retry
    BY <1>1, <2>2 DEF WaitForTask, Retry, Looping, RestedIsEmpty
  <2>3. CASE Finish
    BY <1>1, <2>3 DEF Finish, TasksLeft, RestedIsEmpty
  <2>4. CASE Leave
    BY <1>1, <2>4 DEF Leave, RestedIsEmpty
  <2>5. CASE GiveUp
    BY <1>1, <2>5 DEF GiveUp, TasksLeft, RestedIsEmpty
  <2> QED BY <2>1, <2>2, <2>3, <2>4, <2>5
<1> QED BY <1>2, <1>3, <1>4

LEMMA ConsumeKeepsRest ==
    ASSUME IInv, NEW d \in DOMAIN tasks, Consume(d)
    PROVE  PoolBounded' /\ HandedIsCounted' /\ PassIsBounded' /\ RestedIsEmpty'
<1>1. DOMAIN tasks' = DOMAIN tasks \ {d}
  BY DEF Consume, Restrict
<1>2. UNCHANGED <<agentRun, handed, cycle>>
  BY DEF Consume, rows
<1>3. PoolBounded'
  BY <1>1, <1>2, PoolShrinks DEF IInv, Claims
<1>4. HandedIsCounted' /\ PassIsBounded'
  BY <1>2 DEF IInv, HandedIsCounted, PassIsBounded
<1>5. RestedIsEmpty'
  BY <1>1 DEF Consume, RestedIsEmpty
<1> QED BY <1>3, <1>4, <1>5

LEMMA TaskKeepsRest ==
    ASSUME IInv, NEW d \in DOMAIN tasks, GateAnswers(d) \/ TaskSettles(d)
    PROVE  PoolBounded' /\ HandedIsCounted' /\ PassIsBounded' /\ RestedIsEmpty'
<1>1. DOMAIN tasks' = DOMAIN tasks /\ UNCHANGED <<pc, stopping, pass>>
  BY DEF GateAnswers, TaskSettles, Settle, Reread, IInv, TypeOK
<1>2. PoolBounded'
  <2>1. CASE GateAnswers(d)
    BY <2>1, PoolAfterGate DEF IInv
  <2>2. CASE TaskSettles(d)
    <3>1. d[1] \in Item
      BY DEF IInv, TypeOK, Dispatch
    <3>2. Claims' \subseteq Claims
      BY <2>2, <3>1 DEF TaskSettles, Claims, IInv, TypeOK
    <3> QED BY <1>1, <3>2, PoolShrinks DEF IInv
  <2> QED BY <2>1, <2>2
<1>3. HandedIsCounted' /\ PassIsBounded'
  BY <1>1 DEF IInv, HandedIsCounted, PassIsBounded, pass
<1>4. RestedIsEmpty'
  BY <1>1 DEF IInv, RestedIsEmpty
<1> QED BY <1>2, <1>3, <1>4

LEMMA OwnerKeepsRest ==
    ASSUME IInv, NEW i \in Item, Owner(i)
    PROVE  PoolBounded' /\ HandedIsCounted' /\ PassIsBounded' /\ RestedIsEmpty'
<1>1. UNCHANGED <<tasks, stopping>> /\ (BeginPass \/ UNCHANGED <<pc, pass>>)
  BY DEF Owner, OwnerQueues, OwnerStops, OwnerFrees, ProviderChanges, Wake
<1>2. PoolBounded'
  <2>1. Claims' \subseteq Claims
    BY DEF Owner, OwnerQueues, OwnerStops, OwnerFrees, ProviderChanges, Claims, IInv, TypeOK
  <2> QED BY <1>1, <2>1, PoolShrinks DEF IInv
<1>3. HandedIsCounted' /\ PassIsBounded'
  BY <1>1, LimitAssumption DEF BeginPass, pass, IInv, HandedIsCounted, PassIsBounded
<1>4. RestedIsEmpty'
  BY <1>1 DEF BeginPass, IInv, RestedIsEmpty
<1> QED BY <1>2, <1>3, <1>4

LEMMA Invariant == Spec => []IInv
<1>1. IInv /\ [Next]_vars => IInv'
  <2> SUFFICES ASSUME IInv, [Next]_vars
               PROVE  IInv'
    OBVIOUS
  <2> USE DEF IInv
  <2>1. CASE Launch
    <3>1. RestedIsEmpty'
      BY <2>1 DEF Launch, Looping, RestedIsEmpty
    <3> QED BY <2>1, <3>1, LaunchKeepsTypes, PoolAfterLaunch, PassAfterLaunch
  <2>2. CASE PumpTurns \/ WaitForTask \/ Retry \/ Finish \/ Leave \/ GiveUp
    BY <2>2, PumpKeepsTypes, PumpKeepsRest
  <2>3. ASSUME NEW d \in DOMAIN tasks, Consume(d) PROVE IInv'
    BY <2>3, ConsumeKeepsTypes, ConsumeKeepsRest
  <2>4. ASSUME NEW d \in DOMAIN tasks, GateAnswers(d) PROVE IInv'
    BY <2>4, GateKeepsTypes, TaskKeepsRest
  <2>5. ASSUME NEW d \in DOMAIN tasks, TaskSettles(d) PROVE IInv'
    BY <2>5, TaskKeepsTypes, TaskKeepsRest
  <2>6. ASSUME NEW i \in Item, Owner(i) PROVE IInv'
    BY <2>6, OwnerKeepsTypes, OwnerKeepsRest
  <2>7. CASE Stop
    <3>1. PoolBounded' /\ HandedIsCounted' /\ PassIsBounded' /\ RestedIsEmpty'
      BY <2>7 DEF Stop, rows, pass, PoolBounded, Claims, HandedIsCounted, PassIsBounded,
                  RestedIsEmpty
    <3> QED BY <2>7, <3>1, StopKeepsTypes
  <2>8. CASE UNCHANGED vars
    BY <2>8 DEF vars, rows, pass, TypeOK, PoolBounded, Claims, HandedIsCounted, PassIsBounded,
                RestedIsEmpty
  <2> QED BY <2>1, <2>2, <2>3, <2>4, <2>5, <2>6, <2>7, <2>8 DEF Next, Pump, Task
<1> QED BY <1>1, InitCorrect, PTL DEF Spec

----
(* The theorems *)

\* Rows, flags and tasks keep their types, whatever throws, stops or is left behind.
THEOREM TypeCorrect == Spec => []TypeOK
BY Invariant, PTL DEF IInv

\* activeTasks and the RUNNING AgentRuns both stay within the global limit, for all limits,
\* although tasks behind a gate hold no AgentRun and orphaned AgentRuns have no task.
THEOREM PoolCorrect == Spec => []PoolBounded
BY Invariant, PTL DEF IInv

\* One pass hands over at most DISPATCH_CYCLE_LIMIT and the global limit, less one.
THEOREM PassCorrect == Spec => []PassIsBounded
BY Invariant, PTL DEF IInv

\* Unless a pass throws, the pump rests only when it has consumed all its tasks.
THEOREM IdleCorrect == ~ReadsMayFail => (Spec => []IdleMeansNoTasks)
<1>1. SUFFICES ASSUME ~ReadsMayFail PROVE Spec => []IdleMeansNoTasks
  OBVIOUS
<1>2. IInv => IdleMeansNoTasks
  BY <1>1 DEF IInv, RestedIsEmpty, IdleMeansNoTasks
<1> QED BY <1>2, Invariant, PTL

\* The batch leaves the tasks that run alone: none of them is selected again.
LEMMA LaunchFollows == ASSUME TypeOK, Launch PROVE Followed
<1>1. ASSUME NEW d \in DOMAIN tasks PROVE d \in DOMAIN tasks' /\ tasks'[d] = tasks[d]
  <2>1. d = <<d[1], d[2]>>
    BY DEF TypeOK, Dispatch
  <2>2. ~(d[1] \in Selected /\ IsPending(d))
    BY <2>1, SelectedIsNew DEF IsPending
  <2> QED BY <2>2 DEF Launch
<1>2. ~stopping
  BY DEF Launch, Looping
<1> QED BY <1>1, <1>2 DEF Followed

\* A task stays in activeTasks, as the same promise, until a pass consumed it settled: no dispatch
\* is ever executed twice at a time, none is forgotten, and none starts once the worker was stopped.
THEOREM TasksFollowed == Spec => TasksAreConsumed
<1>1. IInv /\ [Next]_vars => Followed
  <2> SUFFICES ASSUME IInv, [Next]_vars PROVE Followed
    OBVIOUS
  <2>0. TypeOK
    BY DEF IInv
  <2>1. CASE Launch
    BY <2>0, <2>1, LaunchFollows
  <2>2. CASE UNCHANGED tasks
    BY <2>2 DEF Followed
  <2>3. ASSUME NEW d \in DOMAIN tasks, Consume(d) PROVE Followed
    BY <2>3 DEF Consume, Restrict, Followed
  <2>4. ASSUME NEW d \in DOMAIN tasks, GateAnswers(d) \/ TaskSettles(d) PROVE Followed
    <3>1. PICK state : tasks' = [tasks EXCEPT ![d] = state] /\ state # "GATE"
      BY <2>4 DEF GateAnswers, TaskSettles, Settle, Reread
    <3>2. tasks[d] \in {"GATE", "RUN"} /\ tasks \in [DOMAIN tasks -> TaskState]
      BY <2>0, <2>4 DEF GateAnswers, TaskSettles, TypeOK
    <3> QED BY <3>1, <3>2 DEF Followed
  <2>5. (\E d \in DOMAIN tasks : Consume(d) \/ GateAnswers(d) \/ TaskSettles(d))
        \/ Launch \/ UNCHANGED tasks
    BY DEF Next, Pump, PumpTurns, WaitForTask, Retry, Finish, Leave, GiveUp, Task, Owner,
           OwnerQueues, OwnerStops, OwnerFrees, ProviderChanges, Stop, vars
  <2> QED BY <2>1, <2>2, <2>3, <2>4, <2>5
<1> QED BY <1>1, Invariant, PTL DEF Spec, TasksAreConsumed

----
(* Nothing that could start is left behind *)

\* Of what may be selected something comes first.
LEMMA FirstFits ==
    ASSUME TypeOK, Fitting # {}
    PROVE  \E i \in Fitting : Ahead(i) = 0
<1> DEFINE n == Cardinality(Fitting)
           f == [i \in Fitting |-> Ahead(i)]
<1>1. IsFiniteSet(Fitting) /\ n \in Nat /\ n # 0 /\ Fitting \subseteq Nat
  <2>1. IsFiniteSet(Fitting)
    BY Finite
  <2>2. Fitting \subseteq Nat
    BY ItemAssumption DEF Fitting, Offered
  <2> QED BY <2>1, <2>2, FS_CardinalityType, FS_EmptySet
<1>2. \A i \in Fitting : Ahead(i) \in Nat /\ Ahead(i) < n
  <2>1. SUFFICES ASSUME NEW i \in Fitting
                 PROVE  Ahead(i) \in Nat /\ Ahead(i) < n
    OBVIOUS
  <2> DEFINE S == {j \in Fitting : j < i}
  <2>2. S \cup {i} \in SUBSET Fitting /\ i \notin S
    BY <1>1
  <2>3. IsFiniteSet(S) /\ Cardinality(S) \in Nat
    BY <1>1, FS_Subset, FS_CardinalityType
  <2>4. Cardinality(S \cup {i}) = Cardinality(S) + 1
    BY <2>2, <2>3, FS_AddElement
  <2>5. Cardinality(S \cup {i}) <= n
    BY <1>1, <2>2, FS_Subset
  <2> QED BY <1>1, <2>3, <2>4, <2>5 DEF Ahead
<1>3. SUFFICES ASSUME \A i \in Fitting : Ahead(i) # 0
               PROVE  FALSE
  OBVIOUS
<1>4. \A i, j \in Fitting : Ahead(i) = Ahead(j) => i = j
  <2>1. ASSUME NEW i \in Fitting, NEW j \in Fitting, i < j
        PROVE  Ahead(i) # Ahead(j)
    BY <2>1, <1>1, AheadIsStrict
  <2>2. \A i, j \in Fitting : i < j \/ j < i \/ i = j
    BY <1>1
  <2> QED BY <2>1, <2>2
<1>5. \A i \in Fitting : Ahead(i) \in 1 .. n - 1
  BY <1>1, <1>2, <1>3
<1>6. f \in Injection(Fitting, 1 .. n - 1)
  BY <1>4, <1>5 DEF Injection, IsInjective
<1>7. ASSUME NEW m \in Nat, m # 0
      PROVE  IsFiniteSet(1 .. m - 1) /\ Cardinality(1 .. m - 1) = m - 1
  <2>1. 1 \in Int /\ m - 1 \in Int
    OBVIOUS
  <2>2. /\ IsFiniteSet(1 .. m - 1)
        /\ Cardinality(1 .. m - 1) = IF 1 > m - 1 THEN 0 ELSE (m - 1) - 1 + 1
    BY <2>1, FS_Interval
  <2> QED BY <1>7, <2>2
<1>8. n <= n - 1
  <2>1. IsFiniteSet(1 .. n - 1) /\ Cardinality(1 .. n - 1) = n - 1
    BY <1>1, <1>7
  <2> QED BY <1>6, <2>1, FS_Injection
<1> QED BY <1>1, <1>8

\* Unless a loop can leave one behind, the task of every AgentRun is there and runs.
ClaimsHaveTasks ==
    ~OrphansPossible =>
        \A i \in Item : agentRun[i] # 0 =>
            <<i, agentRun[i]>> \in DOMAIN tasks /\ tasks[<<i, agentRun[i]>>] = "RUN"

\* Only a pass that was cut short drains, or ends with tasks; and what was tried before a task moved
\* makes a pass that was not try again.
CutShort    == ~cut => pc # "DRAIN" /\ (pc \in {"IDLE", "RETURNED"} => DOMAIN tasks = {})
PassedMoved == ~cut /\ ~progressed => passed = {}

\* The pump is at rest, or will be with its next turn.
AtRest == ~cut /\ ~stopping /\ (pc = "IDLE" \/ (pc = "RETURNED" /\ ~pending))
AllTried ==
    ~OrphansPossible /\ AtRest => \A i \in Item : Startable(i) => <<i, queue[i]>> \in blocked \ passed

RestInv == ClaimsHaveTasks /\ CutShort /\ PassedMoved /\ AllTried

LEMMA ClaimsAfterLaunch ==
    ASSUME TypeOK, ClaimsHaveTasks, Launch
    PROVE  ClaimsHaveTasks'
<1>1. SUFFICES ASSUME ~OrphansPossible, NEW i \in Item, agentRun'[i] # 0
               PROVE  <<i, agentRun'[i]>> \in DOMAIN tasks' /\ tasks'[<<i, agentRun'[i]>>] = "RUN"
  BY DEF ClaimsHaveTasks
<1>2. PICK outcome \in [Selected -> TaskState] :
        /\ \A j \in Selected : Started(j, outcome[j])
        /\ tasks' = [d \in DOMAIN tasks \cup {<<j, queue[j]>> : j \in Selected} |->
                        IF d[1] \in Selected /\ IsPending(d) THEN outcome[d[1]] ELSE tasks[d]]
        /\ agentRun' = [j \in Item |-> IF j \in Selected /\ outcome[j] = "RUN"
                                       THEN queue[j] ELSE agentRun[j]]
  BY DEF Launch
<1>3. CASE i \in Selected /\ outcome[i] = "RUN"
  <2>1. agentRun'[i] = queue[i]
    BY <1>2, <1>3
  <2>2. <<i, queue[i]>> \in DOMAIN tasks'
    BY <1>2, <1>3
  <2>3. tasks'[<<i, queue[i]>>] = outcome[i]
    BY <1>2, <1>3, <2>2 DEF IsPending
  <2> QED BY <1>3, <2>1, <2>2, <2>3
<1>4. CASE ~(i \in Selected /\ outcome[i] = "RUN")
  <2>1. agentRun'[i] = agentRun[i]
    BY <1>2, <1>4
  <2>2. <<i, agentRun[i]>> \in DOMAIN tasks /\ tasks[<<i, agentRun[i]>>] = "RUN"
    BY <1>1, <2>1 DEF ClaimsHaveTasks
  <2>3. ~(i \in Selected /\ queue[i] = agentRun[i])
    BY DEF Selected, Fitting
  <2> QED BY <1>2, <2>1, <2>2, <2>3 DEF IsPending
<1> QED BY <1>3, <1>4

LEMMA ClaimsAfterTask ==
    ASSUME TypeOK, ClaimsHaveTasks, NEW d \in DOMAIN tasks, GateAnswers(d) \/ TaskSettles(d)
    PROVE  ClaimsHaveTasks'
<1>1. SUFFICES ASSUME ~OrphansPossible, NEW i \in Item, agentRun'[i] # 0
               PROVE  <<i, agentRun'[i]>> \in DOMAIN tasks' /\ tasks'[<<i, agentRun'[i]>>] = "RUN"
  BY DEF ClaimsHaveTasks
<1>2. d[1] \in Item /\ d = <<d[1], d[2]>> /\ d[2] # 0
  BY DEF TypeOK, Dispatch
<1>3. DOMAIN tasks' = DOMAIN tasks /\ \A e \in DOMAIN tasks : e # d => tasks'[e] = tasks[e]
  BY DEF GateAnswers, TaskSettles, Settle, Reread, TypeOK
<1>4. CASE agentRun' = [agentRun EXCEPT ![d[1]] = d[2]] /\ tasks'[d] = "RUN"
           /\ tasks[d] = "GATE" /\ agentRun[d[1]] = 0
  <2>1. CASE i = d[1]
    <3>1. agentRun'[i] = d[2]
      BY <1>2, <1>4, <2>1 DEF TypeOK
    <3> QED BY <1>2, <1>3, <1>4, <2>1, <3>1
  <2>2. CASE i # d[1]
    <3>1. agentRun'[i] = agentRun[i]
      BY <1>2, <1>4, <2>2 DEF TypeOK
    <3> QED BY <1>1, <1>2, <1>3, <2>2, <3>1 DEF ClaimsHaveTasks
  <2> QED BY <2>1, <2>2
<1>5. CASE UNCHANGED agentRun /\ tasks[d] = "GATE"
  BY <1>1, <1>3, <1>5 DEF ClaimsHaveTasks
<1>6. CASE TaskSettles(d)
  <2>1. agentRun'[i] = agentRun[i] /\ ~(i = d[1] /\ agentRun[i] = d[2])
    BY <1>1, <1>2, <1>6 DEF TaskSettles, TypeOK
  <2>2. <<i, agentRun[i]>> # d
    BY <1>2, <2>1
  <2> QED BY <1>1, <1>3, <2>1, <2>2 DEF ClaimsHaveTasks
<1> QED BY <1>4, <1>5, <1>6 DEF GateAnswers, Settle, Reread, TypeOK

\* A pass that finds nothing to start and nothing to wait for has tried all that could start.
LEMMA FinishTried ==
    ASSUME TypeOK, RestInv, Finish
    PROVE  AllTried'
<1>1. SUFFICES ASSUME ~OrphansPossible, AtRest', NEW i \in Item, Startable(i)'
               PROVE  <<i, queue[i]>> \in blocked' \ passed
  BY DEF AllTried, Finish, rows
<1>2. /\ UNCHANGED <<queue, agentRun, provider, tasks, passed, cut, progressed>>
      /\ DOMAIN tasks = {} /\ ~cut /\ blocked' = Blocked /\ ~MayRetry
      /\ (Available = 0 \/ Selected = {})
  BY <1>1 DEF Finish, rows, TasksLeft, NothingToStart, AtRest
<1>3. Startable(i)
  BY <1>1, <1>2 DEF Startable, Claims
<1>4. Claims = {}
  BY <1>1, <1>2 DEF RestInv, ClaimsHaveTasks, Claims
<1>5. Room = Global /\ Available = Global /\ Global > 0
  BY <1>2, <1>3, <1>4, FS_EmptySet, LimitAssumption DEF Room, Available, Startable
<1>6. Fitting = {}
  <2>1. SUFFICES ASSUME Fitting # {}
                 PROVE  FALSE
    OBVIOUS
  <2>2. PICK j \in Fitting : Ahead(j) = 0
    BY <2>1, FirstFits
  <2>3. j \in Selected
    BY <1>5, <2>2 DEF Selected, Ahead
  <2> QED BY <1>2, <1>5, <2>3
<1>7. <<i, queue[i]>> \in blocked
  <2>1. i \notin Offered \/ agentRun[i] = queue[i]
    BY <1>3, <1>6 DEF Fitting, Startable
  <2> QED BY <1>3, <2>1 DEF Offered, Startable
<1>8. <<i, queue[i]>> \in Blocked
  BY <1>7 DEF Blocked
<1>9. passed = {}
  BY <1>2, <1>8 DEF MayRetry, RestInv, PassedMoved
<1> QED BY <1>2, <1>8, <1>9

\* At rest the owner can only withdraw: anything else wakes the pump.
LEMMA OwnerWakes ==
    ASSUME TypeOK, RestInv, NEW i \in Item, Owner(i)
    PROVE  AllTried'
<1>1. SUFFICES ASSUME ~OrphansPossible, AtRest', NEW j \in Item, Startable(j)'
               PROVE  <<j, queue'[j]>> \in blocked' \ passed'
  BY DEF AllTried
<1>2. UNCHANGED <<stopping, tasks>> /\ ~stopping
  BY <1>1 DEF Owner, OwnerQueues, OwnerStops, OwnerFrees, ProviderChanges, AtRest
<1>3. UNCHANGED <<pc, pending, pass, provider>> /\ AtRest
  BY <1>1, <1>2 DEF Owner, OwnerQueues, OwnerStops, OwnerFrees, ProviderChanges, AtRest, Wake, BeginPass, pass
<1>4. CutShort /\ DOMAIN tasks = {}
  BY <1>3 DEF RestInv, CutShort, AtRest
<1>5. Claims = {}
  BY <1>1, <1>4 DEF RestInv, ClaimsHaveTasks, Claims
<1>6. OwnerStops(i)
  <2>1. ~OwnerQueues(i) /\ ~ProviderChanges(i)
    BY <1>2, <1>3 DEF OwnerQueues, ProviderChanges, Wake, BeginPass, AtRest
  <2>2. ~OwnerFrees(i)
    BY <1>5 DEF OwnerFrees, Claims
  <2> QED BY <2>1, <2>2 DEF Owner
<1>7. j # i /\ queue'[j] = queue[j] /\ queue[j] # 0 /\ agentRun[j] = 0
  BY <1>1, <1>5, <1>6 DEF OwnerStops, Startable, TypeOK, Claims
<1>8. Claims' = {}
  BY <1>5, <1>6 DEF OwnerStops, Claims, TypeOK
<1>9. Startable(j)
  BY <1>1, <1>2, <1>3, <1>5, <1>7, <1>8 DEF Startable
<1> QED BY <1>1, <1>3, <1>7, <1>9 DEF RestInv, AllTried, pass

LEMMA RestKept ==
    ASSUME TypeOK, RestInv, [Next]_vars
    PROVE  RestInv'
<1> USE DEF RestInv
<1>1. CASE Launch
  <2>1. pc = "PASS" /\ UNCHANGED <<pc, cut, progressed, passed>>
    BY <1>1 DEF Launch, Looping
  <2>2. CutShort' /\ PassedMoved' /\ AllTried'
    BY <2>1 DEF CutShort, PassedMoved, AllTried, AtRest
  <2> QED BY <1>1, <2>2, ClaimsAfterLaunch
<1>2. CASE PumpTurns
  <2>1. /\ pc = "RETURNED" /\ UNCHANGED <<rows, stopping, tasks>>
        /\ \/ Again /\ BeginPass
           \/ ~Again /\ pc' = "IDLE" /\ UNCHANGED <<pending, pass>>
    BY <1>2 DEF PumpTurns
  <2>2. ClaimsHaveTasks' /\ CutShort' /\ PassedMoved'
    BY <2>1 DEF BeginPass, pass, rows, ClaimsHaveTasks, CutShort, PassedMoved
  <2>3. AllTried'
    BY <2>1 DEF BeginPass, pass, rows, AllTried, AtRest, Again, Startable, Claims
  <2> QED BY <2>2, <2>3
<1>3. CASE Finish
  <2>1. ClaimsHaveTasks' /\ CutShort' /\ PassedMoved'
    BY <1>3 DEF Finish, TasksLeft, rows, ClaimsHaveTasks, CutShort, PassedMoved
  <2> QED BY <1>3, <2>1, FinishTried
<1>4. CASE WaitForTask \/ Retry \/ Leave \/ GiveUp
  <2>1. UNCHANGED <<rows, tasks, stopping>>
    BY <1>4 DEF WaitForTask, Retry, Leave, GiveUp
  <2>2. ClaimsHaveTasks'
    BY <2>1 DEF ClaimsHaveTasks, rows
  <2>3. CutShort' /\ PassedMoved' /\ AllTried'
    BY <1>4 DEF WaitForTask, Retry, Leave, GiveUp, Looping, CutShort, PassedMoved, AllTried, AtRest
  <2> QED BY <2>2, <2>3
<1>5. ASSUME NEW d \in DOMAIN tasks, Consume(d)
      PROVE  RestInv'
  <2>1. /\ DOMAIN tasks' = DOMAIN tasks \ {d} /\ \A e \in DOMAIN tasks' : tasks'[e] = tasks[e]
        /\ tasks[d] # "RUN" /\ UNCHANGED <<agentRun, cut>> /\ pc \in {"AWAIT", "DRAIN"}
    BY <1>5 DEF Consume, Restrict, rows
  <2>2. ClaimsHaveTasks'
    BY <2>1 DEF ClaimsHaveTasks
  <2>3. pc' \in {"PASS", "DRAIN", "RETURNED"} /\ (pc = "AWAIT" => pc' = "PASS") /\ (pc = "DRAIN" => cut)
    BY <1>5, <2>1 DEF Consume, CutShort
  <2>4. CutShort' /\ AllTried'
    BY <2>1, <2>3 DEF CutShort, AllTried, AtRest
  <2>5. PassedMoved'
    <3>1. CASE cut
      BY <2>1, <3>1 DEF PassedMoved
    <3>2. CASE ~cut
      BY <1>5, <2>1, <2>3, <3>2 DEF Consume, PassedMoved
    <3> QED BY <3>1, <3>2
  <2> QED BY <2>2, <2>4, <2>5
<1>6. ASSUME NEW d \in DOMAIN tasks, GateAnswers(d) \/ TaskSettles(d)
      PROVE  RestInv'
  <2>1. UNCHANGED <<pc, pending, stopping, pass>> /\ DOMAIN tasks' = DOMAIN tasks
    BY <1>6 DEF GateAnswers, TaskSettles, Settle, Reread, TypeOK
  <2>2. CutShort' /\ PassedMoved'
    BY <2>1 DEF CutShort, PassedMoved, pass
  <2>3. AllTried'
    BY <1>6, <2>1 DEF AllTried, AtRest, CutShort, pass
  <2> QED BY <1>6, <2>2, <2>3, ClaimsAfterTask
<1>7. ASSUME NEW i \in Item, Owner(i)
      PROVE  RestInv'
  <2>1. UNCHANGED <<stopping, tasks>> /\ (BeginPass \/ UNCHANGED <<pc, pass>>)
    BY <1>7 DEF Owner, OwnerQueues, OwnerStops, OwnerFrees, ProviderChanges, Wake
  <2>2. \A j \in Item : agentRun'[j] \in {0, agentRun[j]}
    BY <1>7 DEF Owner, OwnerQueues, OwnerStops, OwnerFrees, ProviderChanges, TypeOK
  <2>3. ClaimsHaveTasks'
    BY <2>1, <2>2 DEF ClaimsHaveTasks
  <2>4. CutShort' /\ PassedMoved'
    BY <2>1 DEF BeginPass, pass, CutShort, PassedMoved
  <2> QED BY <1>7, <2>3, <2>4, OwnerWakes
<1>8. CASE Stop
  BY <1>8 DEF Stop, rows, pass, ClaimsHaveTasks, CutShort, PassedMoved, AllTried, AtRest
<1>9. CASE UNCHANGED vars
  BY <1>9 DEF vars, rows, pass, ClaimsHaveTasks, CutShort, PassedMoved, AllTried, AtRest, Startable, Claims
<1> QED BY <1>1, <1>2, <1>3, <1>4, <1>5, <1>6, <1>7, <1>8, <1>9 DEF Next, Pump, Task

\* Unless a loop leaves an AgentRun behind, a pump that rests after a pass it was not cut short in
\* has tried everything that could start, and again after the last task that moved: no dispatch waits
\* for a wake that nobody owes it.
THEOREM NothingIsLeftBehind == ~OrphansPossible => (Spec => []NothingLeftBehind)
<1>1. SUFFICES ASSUME ~OrphansPossible
               PROVE  Spec => []NothingLeftBehind
  OBVIOUS
<1>2. Init => RestInv
  BY DEF Init, RestInv, ClaimsHaveTasks, CutShort, PassedMoved, AllTried, AtRest
<1>3. IInv /\ RestInv /\ [Next]_vars => RestInv'
  BY RestKept DEF IInv
<1>4. RestInv => NothingLeftBehind
  BY <1>1 DEF RestInv, AllTried, AtRest, NothingLeftBehind
<1> QED BY <1>2, <1>3, <1>4, Invariant, PTL DEF Spec
=============================================================================
