----------------------------- MODULE PartsProofs ----------------------------
\* Theorems about module MCParts: planDispatchBatch selects the greedy plan,
\* for every batch, every set of active runs and all limits; and what is
\* proved of the other parts, in SessionProofs and ProjectProofs, holds of
\* all of them side by side.
EXTENDS MCParts, FiniteSetTheorems, TLAPS

(* The inductive invariant *)

\* The loop's locals count and collect what is active or selected.
Counted ==
    /\ activeCount = Cardinality(active) + Cardinality(selected)
    /\ \A p \in Project : projectCounts[p] = InUse("project", p, selected)
    /\ \A p \in Provider : providerCounts[p] = InUse("provider", p, selected)
    /\ activeAttempts = {run.attempt : run \in active} \cup selected
    /\ workspaceClaims = {run.workspace : run \in active} \cup {candidate[e].workspace : e \in selected}

\* What the loop has passed comes before what it has not reached.
InOrder == \A d \in DispatchId \ waiting, e \in waiting : Before(d, e)

\* The selected dispatches ahead of d.
Ahead(d) == {e \in selected : \/ candidate[e].priority < candidate[d].priority
                              \/ candidate[e].priority = candidate[d].priority /\ e < d}

IInv == TypeOK /\ Counted /\ InOrder /\ WithinLimits /\ NoWorkspaceConflict /\ PlanIsGreedy

----
(* Lemmas *)

\* The loop looks for eight reasons.
LEMMA ReasonDomain == DOMAIN Reason = 1 .. 8
BY DEF Reason

\* A candidate has the fields the loop reads.
LEMMA CandidateFields ==
    ASSUME TypeOK, NEW d \in DispatchId
    PROVE  /\ d \in Int
           /\ candidate[d].project \in Project /\ candidate[d].provider \in Provider
           /\ candidate[d].priority \in Int /\ candidate[d].workspace \in Claim
           /\ candidate[d].ready \in BOOLEAN /\ candidate[d].budgetAllowed \in BOOLEAN
           /\ candidate[d].requiresStableCheckpoint \in BOOLEAN
BY DispatchAssumption, CandidateAssumption DEF TypeOK

LEMMA ActiveFields ==
    ASSUME TypeOK, NEW run \in active
    PROVE  run.attempt \in Int /\ run.workspace \in Claim
BY ActiveRunAssumption DEF TypeOK

\* The limits are numbers.
LEMMA LimitFields ==
    ASSUME TypeOK
    PROVE  /\ limits.global \in Nat
           /\ \A p \in Project : limits.project[p] \in Nat
           /\ \A p \in Provider : limits.provider[p] \in Nat
BY LimitsAssumption DEF TypeOK

\* compareCandidates is a strict total order.
LEMMA BeforeIsOrder ==
    ASSUME TypeOK
    PROVE  /\ \A d, e \in DispatchId : Before(d, e) => ~Before(e, d)
           /\ \A d, e \in DispatchId : d # e => Before(d, e) \/ Before(e, d)
           /\ \A d, e, f \in DispatchId : Before(d, e) /\ Before(e, f) => Before(d, f)
BY CandidateFields DEF Before

\* workspaceClaimsConflict decides compatibility.
LEMMA ConflictDecides ==
    ASSUME NEW left \in Claim, NEW right \in Claim
    PROVE  /\ Conflict(left, right) <=> ~Compatible(left, right)
           /\ Compatible(left, right) <=> Compatible(right, left)
BY DEF Conflict, Compatible, Claim, Access

\* What the plan counts is finite.
LEMMA FiniteInput ==
    ASSUME TypeOK
    PROVE  /\ IsFiniteSet(active) /\ IsFiniteSet(selected)
           /\ Cardinality(active) \in Nat /\ Cardinality(selected) \in Nat
           /\ \A field, scope : /\ IsFiniteSet(InScope(active, field, scope))
                                /\ Cardinality(InScope(active, field, scope)) \in Nat
                                /\ IsFiniteSet(SelectedIn(selected, field, scope))
                                /\ Cardinality(SelectedIn(selected, field, scope)) \in Nat
<1>1. IsFiniteSet(active) /\ IsFiniteSet(selected)
  BY FS_Subset, DispatchAssumption, ActiveRunAssumption DEF TypeOK
<1>2. ASSUME NEW field, NEW scope
      PROVE  /\ IsFiniteSet(InScope(active, field, scope))
             /\ IsFiniteSet(SelectedIn(selected, field, scope))
  <2>1. InScope(active, field, scope) \in SUBSET active
    BY DEF InScope
  <2>2. SelectedIn(selected, field, scope) \in SUBSET selected
    BY DEF SelectedIn
  <2> QED BY <1>1, <2>1, <2>2, FS_Subset
<1> QED BY <1>1, <1>2, FS_CardinalityType

\* Nothing blocks a waiting dispatch exactly when it is eligible and there is room for it.
LEMMA BlocksDecides ==
    ASSUME TypeOK, Counted, NEW d \in waiting
    PROVE  (\A i \in DOMAIN Reason : ~Blocks(d, Reason[i])) <=> Eligible(d) /\ Room(d, selected)
<1> DEFINE c == candidate[d]
<1>0. d \in DispatchId /\ d \notin selected
  BY DEF TypeOK
<1>1. (\A i \in DOMAIN Reason : ~Blocks(d, Reason[i])) <=>
         /\ ~Blocks(d, "NOT_READY") /\ ~Blocks(d, "BUDGET_BLOCKED")
         /\ ~Blocks(d, "CHECKPOINT_NOT_STABLE") /\ ~Blocks(d, "ATTEMPT_ACTIVE")
         /\ ~Blocks(d, "GLOBAL_LIMIT") /\ ~Blocks(d, "PROJECT_LIMIT")
         /\ ~Blocks(d, "PROVIDER_LIMIT") /\ ~Blocks(d, "WORKSPACE_CONFLICT")
  BY ReasonDomain DEF Reason
<1>2. (/\ ~Blocks(d, "NOT_READY") /\ ~Blocks(d, "BUDGET_BLOCKED")
       /\ ~Blocks(d, "CHECKPOINT_NOT_STABLE")) <=> Eligible(d)
  BY <1>0, CandidateFields DEF Blocks, Eligible
<1>3. ~Blocks(d, "ATTEMPT_ACTIVE") <=> \A run \in active : run.attempt # d
  BY <1>0 DEF Blocks, Counted
<1>4. ~Blocks(d, "GLOBAL_LIMIT") <=> Cardinality(active) + Cardinality(selected) < limits.global
  BY FiniteInput, LimitFields DEF Blocks, Full, Counted
<1>5. ~Blocks(d, "PROJECT_LIMIT") <=>
         InUse("project", c.project, selected) < limits.project[c.project]
  BY <1>0, CandidateFields, FiniteInput, LimitFields DEF Blocks, Full, Counted, InUse
<1>6. ~Blocks(d, "PROVIDER_LIMIT") <=>
         InUse("provider", c.provider, selected) < limits.provider[c.provider]
  BY <1>0, CandidateFields, FiniteInput, LimitFields DEF Blocks, Full, Counted, InUse
<1>7. ~Blocks(d, "WORKSPACE_CONFLICT") <=>
         /\ \A run \in active : Compatible(c.workspace, run.workspace)
         /\ \A e \in selected : Compatible(c.workspace, candidate[e].workspace)
  <2>1. \A run \in active : Conflict(c.workspace, run.workspace)
                              <=> ~Compatible(c.workspace, run.workspace)
    BY <1>0, CandidateFields, ActiveFields, ConflictDecides
  <2>2. \A e \in selected : Conflict(c.workspace, candidate[e].workspace)
                              <=> ~Compatible(c.workspace, candidate[e].workspace)
    BY <1>0, CandidateFields, ConflictDecides DEF TypeOK
  <2>3. ~Blocks(d, "WORKSPACE_CONFLICT") <=>
           /\ \A run \in active : ~Conflict(c.workspace, run.workspace)
           /\ \A e \in selected : ~Conflict(c.workspace, candidate[e].workspace)
    BY DEF Blocks, Counted
  <2> QED BY <2>1, <2>2, <2>3
<1> QED BY <1>1, <1>2, <1>3, <1>4, <1>5, <1>6, <1>7 DEF Room

\* Selecting a dispatch adds it to the counts of its own project and provider.
LEMMA SelectedCount ==
    ASSUME TypeOK, NEW d \in waiting, NEW field, NEW scope
    PROVE  Cardinality(SelectedIn(selected \cup {d}, field, scope)) =
              Cardinality(SelectedIn(selected, field, scope))
                + (IF candidate[d][field] = scope THEN 1 ELSE 0)
<1>1. IsFiniteSet(SelectedIn(selected, field, scope)) /\ d \notin SelectedIn(selected, field, scope)
  BY FiniteInput DEF SelectedIn, TypeOK
<1>2. CASE candidate[d][field] = scope
  <2>1. SelectedIn(selected \cup {d}, field, scope) = SelectedIn(selected, field, scope) \cup {d}
    BY <1>2 DEF SelectedIn
  <2> QED BY <1>1, <1>2, <2>1, FS_AddElement
<1>3. CASE candidate[d][field] # scope
  <2>1. SelectedIn(selected \cup {d}, field, scope) = SelectedIn(selected, field, scope)
    BY <1>3 DEF SelectedIn
  <2> QED BY <1>3, <2>1, FiniteInput
<1> QED BY <1>2, <1>3

----
(* Init *)

\* Before the loop nothing is selected, so only the active runs are counted.
LEMMA InitCorrect == Init => IInv
<1> SUFFICES ASSUME Init
             PROVE  IInv
  OBVIOUS
<1>1. IsFiniteSet(active) /\ Cardinality(active) \in Nat
  BY FS_Subset, FS_CardinalityType, ActiveRunAssumption DEF Init
<1>2. \A field, scope : Cardinality(InScope(active, field, scope)) \in Nat
  <2>1. \A field, scope : InScope(active, field, scope) \in SUBSET active
    BY DEF InScope
  <2> QED BY <1>1, <2>1, FS_Subset, FS_CardinalityType
<1>3. \A field, scope : SelectedIn(selected, field, scope) = {}
  BY DEF Init, SelectedIn
<1>4. Cardinality({}) = 0
  BY FS_EmptySet
<1>5. TypeOK
  <2>1. \A run \in active : run.attempt \in Int /\ run.workspace \in Claim
    BY ActiveRunAssumption DEF Init
  <2>2. deferred \in [DispatchId \ (waiting \cup selected) -> DOMAIN Reason]
    BY ReasonDomain DEF Init
  <2>3. active \subseteq ActiveRun
    BY DEF Init
  <2> QED BY <1>1, <1>2, <2>1, <2>2, <2>3 DEF Init, TypeOK
<1>6. Counted
  <2>1. \A field, scope : InUse(field, scope, selected) = Cardinality(InScope(active, field, scope))
    BY <1>2, <1>3, <1>4 DEF InUse
  <2> QED BY <1>1, <1>4, <2>1 DEF Init, Counted
<1>7. WithinLimits
  <2>1. ASSUME NEW n \in Nat, NEW l \in Nat
        PROVE  n + 0 <= Larger(l, n)
    BY DEF Larger
  <2>2. limits.global \in Nat /\ (\A p \in Project : limits.project[p] \in Nat)
          /\ \A p \in Provider : limits.provider[p] \in Nat
    BY <1>5, LimitFields
  <2>3. \A field, scope : InUse(field, scope, selected) =
                             Cardinality(InScope(active, field, scope)) + 0
    BY <1>3, <1>4 DEF InUse
  <2>4. Cardinality(selected) = 0
    BY <1>4 DEF Init
  <2> QED BY <1>1, <1>2, <2>1, <2>2, <2>3, <2>4 DEF WithinLimits
<1>8. InOrder /\ NoWorkspaceConflict /\ PlanIsGreedy
  BY DEF Init, InOrder, NoWorkspaceConflict, PlanIsGreedy
<1> QED BY <1>5, <1>6, <1>7, <1>8 DEF IInv

----
(* Defer *)

\* A step keeps the loop in order: it takes the first of the waiting dispatches.
LEMMA StepInOrder ==
    ASSUME TypeOK, InOrder, NEW d \in DispatchId, First(d), waiting' = waiting \ {d},
           candidate' = candidate
    PROVE  InOrder'
BY DEF InOrder, First, Before, TypeOK

\* Deferring a dispatch: something blocks it, and nothing else changes.
LEMMA DeferCorrect ==
    ASSUME IInv, NEW d \in DispatchId, Defer(d)
    PROVE  IInv'
<1>1. /\ UNCHANGED <<candidate, active, limits, selected, activeCount, projectCounts,
                     providerCounts, activeAttempts, workspaceClaims>>
      /\ waiting' = waiting \ {d} /\ First(d) /\ d \in waiting
  BY DEF Defer, First, input
<1>2. PICK i \in DOMAIN Reason : Blocks(d, Reason[i]) /\ deferred' = Explained(d, i)
  BY DEF Defer
<1>3. TypeOK'
  <2>1. DispatchId \ (waiting' \cup selected') = (DispatchId \ (waiting \cup selected)) \cup {d}
    BY <1>1 DEF IInv, TypeOK
  <2>2. Explained(d, i) \in [(DispatchId \ (waiting \cup selected)) \cup {d} -> DOMAIN Reason]
    BY DEF Explained, IInv, TypeOK
  <2> QED BY <1>1, <1>2, <2>1, <2>2 DEF IInv, TypeOK
<1>4. Counted' /\ WithinLimits' /\ NoWorkspaceConflict'
  BY <1>1 DEF IInv, Counted, WithinLimits, NoWorkspaceConflict, InUse, InScope, SelectedIn, Compatible
<1>5. InOrder'
  BY <1>1, StepInOrder DEF IInv
<1>6. PlanIsGreedy'
  <2>1. d \notin selected /\ ~(Eligible(d) /\ Room(d, selected))
    BY <1>1, <1>2, BlocksDecides DEF IInv, TypeOK
  <2>2. Ahead(d) = selected
    <3>1. \A e \in selected : Before(e, d)
      BY <1>1 DEF IInv, InOrder, TypeOK
    <3> QED BY <3>1 DEF Ahead, Before
  <2>3. \A e \in DispatchId \ waiting' : e \in selected <=> Eligible(e) /\ Room(e, Ahead(e))
    BY <1>1, <2>1, <2>2 DEF IInv, PlanIsGreedy, Ahead
  <2>4. \A e \in DispatchId : /\ Eligible(e)' <=> Eligible(e)
                              /\ Room(e, Ahead(e))' <=> Room(e, Ahead(e))
    BY <1>1 DEF Eligible, Room, Ahead, InUse, InScope, SelectedIn, Compatible
  <2> QED BY <1>1, <2>3, <2>4 DEF PlanIsGreedy, Ahead
<1> QED BY <1>3, <1>4, <1>5, <1>6 DEF IInv

----
(* Select *)

\* A limit that had room is not passed by one more.
LEMMA OneMore ==
    ASSUME NEW l \in Nat, NEW n \in Nat, NEW m \in Nat, n + m < l
    PROVE  n + (m + 1) <= Larger(l, n)
BY DEF Larger

\* Selecting a dispatch keeps the counts and the collected claims right.
LEMMA SelectCounted ==
    ASSUME IInv, NEW d \in DispatchId, Select(d)
    PROVE  Counted'
<1> DEFINE c == candidate[d]
<1>1. /\ UNCHANGED <<candidate, active, limits>> /\ d \in waiting /\ d \notin selected
      /\ selected' = selected \cup {d}
  BY DEF Select, First, input, IInv, TypeOK
<1>2. /\ activeCount' = activeCount + 1
      /\ projectCounts' = [projectCounts EXCEPT ![c.project] = @ + 1]
      /\ providerCounts' = [providerCounts EXCEPT ![c.provider] = @ + 1]
      /\ activeAttempts' = activeAttempts \cup {d}
      /\ workspaceClaims' = workspaceClaims \cup {c.workspace}
  BY DEF Select
<1>3. activeCount' = Cardinality(active') + Cardinality(selected')
  <2>1. Cardinality(selected \cup {d}) = Cardinality(selected) + 1
    BY <1>1, FiniteInput, FS_AddElement DEF IInv
  <2> QED BY <1>1, <1>2, <2>1, FiniteInput DEF IInv, Counted
<1>4. ASSUME NEW p \in Project
      PROVE  projectCounts'[p] = InUse("project", p, selected)'
  <2>1. InUse("project", p, selected)' = Cardinality(InScope(active, "project", p))
            + Cardinality(SelectedIn(selected \cup {d}, "project", p))
    BY <1>1 DEF InUse, SelectedIn, InScope
  <2>2. Cardinality(SelectedIn(selected \cup {d}, "project", p)) =
            Cardinality(SelectedIn(selected, "project", p)) + (IF c.project = p THEN 1 ELSE 0)
    BY <1>1, SelectedCount DEF IInv
  <2>3. projectCounts'[p] = projectCounts[p] + (IF c.project = p THEN 1 ELSE 0)
    BY <1>2 DEF IInv, TypeOK
  <2> QED BY <2>1, <2>2, <2>3, FiniteInput DEF IInv, Counted, InUse
<1>5. ASSUME NEW p \in Provider
      PROVE  providerCounts'[p] = InUse("provider", p, selected)'
  <2>1. InUse("provider", p, selected)' = Cardinality(InScope(active, "provider", p))
            + Cardinality(SelectedIn(selected \cup {d}, "provider", p))
    BY <1>1 DEF InUse, SelectedIn, InScope
  <2>2. Cardinality(SelectedIn(selected \cup {d}, "provider", p)) =
            Cardinality(SelectedIn(selected, "provider", p)) + (IF c.provider = p THEN 1 ELSE 0)
    BY <1>1, SelectedCount DEF IInv
  <2>3. providerCounts'[p] = providerCounts[p] + (IF c.provider = p THEN 1 ELSE 0)
    BY <1>2 DEF IInv, TypeOK
  <2> QED BY <2>1, <2>2, <2>3, FiniteInput DEF IInv, Counted, InUse
<1>6. /\ activeAttempts' = {run.attempt : run \in active'} \cup selected'
      /\ workspaceClaims' = {run.workspace : run \in active'}
                               \cup {candidate'[e].workspace : e \in selected'}
  BY <1>1, <1>2 DEF IInv, Counted
<1> QED BY <1>3, <1>4, <1>5, <1>6 DEF Counted

\* Selecting a dispatch passes no limit: there was room in each of its scopes.
LEMMA SelectWithinLimits ==
    ASSUME IInv, NEW d \in DispatchId, Select(d)
    PROVE  WithinLimits'
<1> DEFINE c == candidate[d]
<1>1. /\ UNCHANGED <<candidate, active, limits>> /\ d \in waiting /\ d \notin selected
      /\ selected' = selected \cup {d}
  BY DEF Select, First, input, IInv, TypeOK
<1>2. Room(d, selected)
  BY <1>1, BlocksDecides DEF Select, IInv
<1>3. Cardinality(active) + Cardinality(selected') <= Larger(limits.global, Cardinality(active))
  <2>1. Cardinality(selected \cup {d}) = Cardinality(selected) + 1
    BY <1>1, FiniteInput, FS_AddElement DEF IInv
  <2>2. Cardinality(active) + Cardinality(selected) < limits.global
    BY <1>2 DEF Room
  <2> QED BY <1>1, <2>1, <2>2, FiniteInput, LimitFields, OneMore DEF IInv
<1>4. ASSUME NEW p \in Project
      PROVE  InUse("project", p, selected')
               <= Larger(limits.project[p], Cardinality(InScope(active, "project", p)))
  <2>1. Cardinality(SelectedIn(selected \cup {d}, "project", p)) =
            Cardinality(SelectedIn(selected, "project", p)) + (IF c.project = p THEN 1 ELSE 0)
    BY <1>1, SelectedCount DEF IInv
  <2>2. CASE c.project = p
    BY <1>1, <1>2, <2>1, <2>2, FiniteInput, LimitFields, OneMore DEF IInv, Room, InUse
  <2>3. CASE c.project # p
    BY <1>1, <2>1, <2>3, FiniteInput DEF IInv, WithinLimits, InUse
  <2> QED BY <2>2, <2>3
<1>5. ASSUME NEW p \in Provider
      PROVE  InUse("provider", p, selected')
               <= Larger(limits.provider[p], Cardinality(InScope(active, "provider", p)))
  <2>1. Cardinality(SelectedIn(selected \cup {d}, "provider", p)) =
            Cardinality(SelectedIn(selected, "provider", p)) + (IF c.provider = p THEN 1 ELSE 0)
    BY <1>1, SelectedCount DEF IInv
  <2>2. CASE c.provider = p
    BY <1>1, <1>2, <2>1, <2>2, FiniteInput, LimitFields, OneMore DEF IInv, Room, InUse
  <2>3. CASE c.provider # p
    BY <1>1, <2>1, <2>3, FiniteInput DEF IInv, WithinLimits, InUse
  <2> QED BY <2>2, <2>3
<1>6. \A field, scope : InUse(field, scope, selected)' = InUse(field, scope, selected')
  BY <1>1 DEF InUse, InScope, SelectedIn
<1>7. \A field, scope : InScope(active, field, scope)' = InScope(active, field, scope)
  BY <1>1 DEF InScope
<1> QED BY <1>1, <1>3, <1>4, <1>5, <1>6, <1>7 DEF WithinLimits, Larger

\* Selecting a dispatch keeps the plan the greedy one: it comes after all that is selected.
LEMMA SelectGreedy ==
    ASSUME IInv, NEW d \in DispatchId, Select(d)
    PROVE  PlanIsGreedy'
<1>1. /\ UNCHANGED <<candidate, active, limits>> /\ d \in waiting /\ d \notin selected
      /\ selected' = selected \cup {d} /\ waiting' = waiting \ {d}
  BY DEF Select, First, input, IInv, TypeOK
<1>2. Eligible(d) /\ Room(d, selected)
  BY <1>1, BlocksDecides DEF Select, IInv
<1>3. Ahead(d)' = selected
  <2>1. (\A e \in selected : Before(e, d)) /\ ~Before(d, d)
    BY <1>1, BeforeIsOrder DEF IInv, InOrder, TypeOK
  <2> QED BY <1>1, <2>1 DEF Ahead, Before
<1>4. ASSUME NEW e \in DispatchId \ waiting
      PROVE  Ahead(e)' = Ahead(e) /\ e # d
  <2>1. Before(e, d) /\ ~Before(d, e)
    BY <1>1, BeforeIsOrder DEF IInv, InOrder
  <2> QED BY <1>1, <2>1 DEF Ahead, Before
<1>5. \A e \in DispatchId : /\ Eligible(e)' <=> Eligible(e)
                            /\ \A ds : Room(e, ds)' <=> Room(e, ds)
  BY <1>1 DEF Eligible, Room, InUse, InScope, SelectedIn, Compatible
<1>6. ASSUME NEW e \in DispatchId \ waiting'
      PROVE  (e \in selected <=> Eligible(e) /\ Room(e, Ahead(e)))'
  <2>1. CASE e = d
    BY <1>1, <1>2, <1>3, <1>5, <2>1
  <2>2. CASE e # d
    <3>1. e \in DispatchId \ waiting
      BY <1>1, <2>2
    <3>2. e \in selected <=> Eligible(e) /\ Room(e, Ahead(e))
      BY <3>1 DEF IInv, PlanIsGreedy, Ahead
    <3> QED BY <1>1, <1>4, <1>5, <3>1, <3>2
  <2> QED BY <2>1, <2>2
<1> QED BY <1>6 DEF PlanIsGreedy, Ahead

\* Selecting a dispatch keeps the whole invariant.
LEMMA SelectCorrect ==
    ASSUME IInv, NEW d \in DispatchId, Select(d)
    PROVE  IInv'
<1>1. /\ UNCHANGED <<candidate, active, limits, deferred>> /\ d \in waiting /\ d \notin selected
      /\ selected' = selected \cup {d} /\ waiting' = waiting \ {d} /\ First(d)
  BY DEF Select, First, input, IInv, TypeOK
<1>2. TypeOK'
  <2>1. DispatchId \ (waiting' \cup selected') = DispatchId \ (waiting \cup selected)
    BY <1>1
  <2>2. projectCounts' \in [Project -> Nat] /\ providerCounts' \in [Provider -> Nat]
    BY CandidateFields DEF Select, IInv, TypeOK
  <2>3. activeCount' \in Nat /\ activeAttempts' \subseteq Int /\ workspaceClaims' \subseteq Claim
    <3>1. d \in Int /\ candidate[d].workspace \in Claim
      BY CandidateFields DEF IInv
    <3>2. /\ activeCount' = activeCount + 1 /\ activeAttempts' = activeAttempts \cup {d}
          /\ workspaceClaims' = workspaceClaims \cup {candidate[d].workspace}
      BY DEF Select
    <3> QED BY <3>1, <3>2 DEF IInv, TypeOK
  <2> QED BY <1>1, <2>1, <2>2, <2>3 DEF IInv, TypeOK
<1>3. NoWorkspaceConflict'
  <2>1. Room(d, selected)
    BY <1>1, BlocksDecides DEF Select, IInv
  <2>2. \A e \in selected : Compatible(candidate[e].workspace, candidate[d].workspace)
    BY <1>1, <2>1, CandidateFields, ConflictDecides DEF Room, IInv, TypeOK
  <2>3. \A left, right : Compatible(left, right)' <=> Compatible(left, right)
    BY DEF Compatible
  <2> QED BY <1>1, <2>1, <2>2, <2>3 DEF Room, IInv, NoWorkspaceConflict
<1>4. InOrder'
  BY <1>1, StepInOrder DEF IInv
<1> QED BY <1>2, <1>3, <1>4, SelectCounted, SelectWithinLimits, SelectGreedy DEF IInv

----
(* The theorems *)

LEMMA Invariant == Spec => []IInv
<1>1. IInv /\ [Next]_vars => IInv'
  <2> SUFFICES ASSUME IInv, [Next]_vars
               PROVE  IInv'
    OBVIOUS
  <2>1. ASSUME NEW d \in DispatchId, Defer(d) \/ Select(d)
        PROVE  IInv'
    BY <2>1, DeferCorrect, SelectCorrect
  <2>2. CASE UNCHANGED vars
    <3>1. TypeOK' /\ InOrder'
      BY <2>2 DEF IInv, TypeOK, InOrder, Before, vars, input
    <3>2. Counted' /\ WithinLimits' /\ NoWorkspaceConflict'
      BY <2>2 DEF IInv, Counted, WithinLimits, NoWorkspaceConflict, InUse, InScope, SelectedIn,
                  Compatible, vars, input
    <3>3. PlanIsGreedy'
      <4>1. UNCHANGED <<candidate, active, limits, waiting, selected>>
        BY <2>2 DEF vars, input
      <4>2. \A d \in DispatchId : /\ Eligible(d)' <=> Eligible(d)
                                  /\ Room(d, Ahead(d))' <=> Room(d, Ahead(d))
        BY <4>1 DEF Eligible, Room, Ahead, InUse, InScope, SelectedIn, Compatible
      <4> QED BY <4>1, <4>2 DEF IInv, PlanIsGreedy, Ahead
    <3> QED BY <3>1, <3>2, <3>3 DEF IInv
  <2> QED BY <2>1, <2>2 DEF Next
<1> QED BY <1>1, InitCorrect, PTL DEF Spec

\* The loop's locals keep their types and every candidate is waiting, selected or deferred.
THEOREM TypeCorrect == Spec => []TypeOK
BY Invariant, PTL DEF IInv

\* planDispatchBatch exceeds no limit, for all limits and all sets of active runs, those that
\* exceed them already included.
THEOREM LimitsKept == Spec => []WithinLimits
BY Invariant, PTL DEF IInv

\* No stage is selected beside one it may not share the workspace with.
THEOREM ConflictFree == Spec => []NoWorkspaceConflict
BY Invariant, PTL DEF IInv

\* planDispatchBatch computes the greedy plan: a dispatch is selected exactly when it is eligible
\* and what runs already or is more urgent leaves room for it.
THEOREM PlanCorrect == Spec => []PlanIsGreedy
BY Invariant, PTL DEF IInv

----
(* The parts of MCParts: what is proved of each of their modules, for every *)
(* value of its constants, holds of the part, and so of all of them side by *)
(* side. *)

\* Two elements at most.
AtMostTwo(set) == \A x, y, z \in set : x = y \/ y = z \/ x = z

\* The part that a behaviour is of stays.
LEMMA PartStays == [MCNext]_all => part' = part
  BY DEF MCNext, all

\* A behaviour of ToolCalls in MCParts is one of module ToolCalls.
LEMMA ToolCallsRuns == MCSpec => (T!Spec /\ [](part = "ToolCalls")) \/ []~(part = "ToolCalls")
<1>1. MCInit /\ part = "ToolCalls" => T!Init
  BY DEF MCInit
<1>2. part = "ToolCalls" /\ [MCNext]_all => [T!Next]_(T!vars) /\ (part = "ToolCalls")'
  BY DEF MCNext, all, shared, T!handlers, T!sessions, T!daemon, T!vars
<1>3. ~(part = "ToolCalls") /\ [MCNext]_all => ~(part = "ToolCalls")'
  BY PartStays
<1> QED BY <1>1, <1>2, <1>3, PTL DEF MCSpec, T!Spec

\* A behaviour of FileCalls in MCParts is one of module ToolCalls.
LEMMA FileCallsRuns == MCSpec => (W!Spec /\ [](part = "FileCalls")) \/ []~(part = "FileCalls")
<1>1. MCInit /\ part = "FileCalls" => W!Init
  BY DEF MCInit
<1>2. part = "FileCalls" /\ [MCNext]_all => [W!Next]_(W!vars) /\ (part = "FileCalls")'
  BY DEF MCNext, all, shared, W!handlers, W!sessions, W!daemon, W!vars
<1>3. ~(part = "FileCalls") /\ [MCNext]_all => ~(part = "FileCalls")'
  BY PartStays
<1> QED BY <1>1, <1>2, <1>3, PTL DEF MCSpec, W!Spec

\* A behaviour of SessionLoop in MCParts is one of module SessionLoop.
LEMMA SessionLoopRuns == MCSpec => (S!Spec /\ [](part = "SessionLoop")) \/ []~(part = "SessionLoop")
<1>1. MCInit /\ part = "SessionLoop" => S!Init
  BY DEF MCInit
<1>2. part = "SessionLoop" /\ [MCNext]_all => [S!Next]_(S!vars) /\ (part = "SessionLoop")'
  BY DEF MCNext, all, shared, S!vars
<1>3. ~(part = "SessionLoop") /\ [MCNext]_all => ~(part = "SessionLoop")'
  BY PartStays
<1> QED BY <1>1, <1>2, <1>3, PTL DEF MCSpec, S!Spec

\* A behaviour of ProviderProcess in MCParts is one of module ProviderProcess.
LEMMA ProviderProcessRuns == MCSpec => (P!Spec /\ [](part = "ProviderProcess")) \/ []~(part = "ProviderProcess")
<1>1. MCInit /\ part = "ProviderProcess" => P!Init
  BY DEF MCInit
<1>2. part = "ProviderProcess" /\ [MCNext]_all => [P!Next]_(P!vars) /\ (part = "ProviderProcess")'
  BY DEF MCNext, all, shared, P!vars
<1>3. ~(part = "ProviderProcess") /\ [MCNext]_all => ~(part = "ProviderProcess")'
  BY PartStays
<1> QED BY <1>1, <1>2, <1>3, PTL DEF MCSpec, P!Spec

\* A behaviour of Worktree in MCParts is one of module Workspace.
LEMMA WorktreeRuns == MCSpec => (G1!Spec /\ [](part = "Worktree")) \/ []~(part = "Worktree")
<1>1. MCInit /\ part = "Worktree" => G1!Init
  BY DEF MCInit
<1>2. part = "Worktree" /\ [MCNext]_all => [G1!Next]_(G1!vars) /\ (part = "Worktree")'
  BY DEF MCNext, all, shared, G1!vars
<1>3. ~(part = "Worktree") /\ [MCNext]_all => ~(part = "Worktree")'
  BY PartStays
<1> QED BY <1>1, <1>2, <1>3, PTL DEF MCSpec, G1!Spec

\* A behaviour of SharedDirectory in MCParts is one of module Workspace.
LEMMA SharedDirectoryRuns == MCSpec => (G2!Spec /\ [](part = "SharedDirectory")) \/ []~(part = "SharedDirectory")
<1>1. MCInit /\ part = "SharedDirectory" => G2!Init
  BY DEF MCInit
<1>2. part = "SharedDirectory" /\ [MCNext]_all => [G2!Next]_(G2!vars) /\ (part = "SharedDirectory")'
  BY DEF MCNext, all, shared, G2!vars
<1>3. ~(part = "SharedDirectory") /\ [MCNext]_all => ~(part = "SharedDirectory")'
  BY PartStays
<1> QED BY <1>1, <1>2, <1>3, PTL DEF MCSpec, G2!Spec

\* A behaviour of DataDirectory in MCParts is one of module DataDirectory.
LEMMA DataDirectoryRuns == MCSpec => (K1!Spec /\ [](part = "DataDirectory")) \/ []~(part = "DataDirectory")
<1>1. MCInit /\ part = "DataDirectory" => K1!Init
  BY DEF MCInit
<1>2. part = "DataDirectory" /\ [MCNext]_all => [K1!Next]_(K1!vars) /\ (part = "DataDirectory")'
  BY DEF MCNext, all, shared, K1!vars
<1>3. ~(part = "DataDirectory") /\ [MCNext]_all => ~(part = "DataDirectory")'
  BY PartStays
<1> QED BY <1>1, <1>2, <1>3, PTL DEF MCSpec, K1!Spec

\* A behaviour of McpServers in MCParts is one of module McpServers.
LEMMA McpServersRuns == MCSpec => (N1!Spec /\ [](part = "McpServers")) \/ []~(part = "McpServers")
<1>1. MCInit /\ part = "McpServers" => N1!Init
  BY DEF MCInit
<1>2. part = "McpServers" /\ [MCNext]_all => [N1!Next]_(N1!vars) /\ (part = "McpServers")'
  BY DEF MCNext, all, shared, N1!vars
<1>3. ~(part = "McpServers") /\ [MCNext]_all => ~(part = "McpServers")'
  BY PartStays
<1> QED BY <1>1, <1>2, <1>3, PTL DEF MCSpec, N1!Spec

\* A behaviour of WorkItems in MCParts is one of module WorkItems.
LEMMA WorkItemsRuns == MCSpec => (I!Spec /\ [](part = "WorkItems")) \/ []~(part = "WorkItems")
<1>1. MCInit /\ part = "WorkItems" => I!Init
  BY DEF MCInit
<1>2. part = "WorkItems" /\ [MCNext]_all => [I!Next]_(I!vars) /\ (part = "WorkItems")'
  BY DEF MCNext, all, shared, I!vars
<1>3. ~(part = "WorkItems") /\ [MCNext]_all => ~(part = "WorkItems")'
  BY PartStays
<1> QED BY <1>1, <1>2, <1>3, PTL DEF MCSpec, I!Spec

\* A behaviour of DemoProject in MCParts is one of module DemoProject.
LEMMA DemoProjectRuns == MCSpec => (E!Spec /\ [](part = "DemoProject")) \/ []~(part = "DemoProject")
<1>1. MCInit /\ part = "DemoProject" => E!Init
  BY DEF MCInit
<1>2. part = "DemoProject" /\ [MCNext]_all => [E!Next]_(E!vars) /\ (part = "DemoProject")'
  BY DEF MCNext, all, shared, E!vars
<1>3. ~(part = "DemoProject") /\ [MCNext]_all => ~(part = "DemoProject")'
  BY PartStays
<1> QED BY <1>1, <1>2, <1>3, PTL DEF MCSpec, E!Spec

\* A behaviour of Deployment in MCParts is one of module Deployment.
LEMMA DeploymentRuns == MCSpec => (D!Spec /\ [](part = "Deployment")) \/ []~(part = "Deployment")
<1>1. MCInit /\ part = "Deployment" => D!Init
  BY DEF MCInit
<1>2. part = "Deployment" /\ [MCNext]_all => [D!Next]_(D!vars) /\ (part = "Deployment")'
  BY DEF MCNext, all, shared, D!vars
<1>3. ~(part = "Deployment") /\ [MCNext]_all => ~(part = "Deployment")'
  BY PartStays
<1> QED BY <1>1, <1>2, <1>3, PTL DEF MCSpec, D!Spec

\* A behaviour of LaunchMeasurement in MCParts is one of module LaunchMeasurement.
LEMMA LaunchMeasurementRuns == MCSpec => (M!Spec /\ [](part = "LaunchMeasurement")) \/ []~(part = "LaunchMeasurement")
<1>1. MCInit /\ part = "LaunchMeasurement" => M!Init
  BY DEF MCInit
<1>2. part = "LaunchMeasurement" /\ [MCNext]_all => [M!Next]_(M!vars) /\ (part = "LaunchMeasurement")'
  BY DEF MCNext, all, shared, M!vars
<1>3. ~(part = "LaunchMeasurement") /\ [MCNext]_all => ~(part = "LaunchMeasurement")'
  BY PartStays
<1> QED BY <1>1, <1>2, <1>3, PTL DEF MCSpec, M!Spec

\* A behaviour of LaunchRelease in MCParts is one of module LaunchRelease.
LEMMA LaunchReleaseRuns == MCSpec => (R!Spec /\ [](part = "LaunchRelease")) \/ []~(part = "LaunchRelease")
<1>1. MCInit /\ part = "LaunchRelease" => R!Init
  BY DEF MCInit
<1>2. part = "LaunchRelease" /\ [MCNext]_all => [R!Next]_(R!vars) /\ (part = "LaunchRelease")'
  BY DEF MCNext, all, shared, R!vars
<1>3. ~(part = "LaunchRelease") /\ [MCNext]_all => ~(part = "LaunchRelease")'
  BY PartStays
<1> QED BY <1>1, <1>2, <1>3, PTL DEF MCSpec, R!Spec

\* A behaviour of BrowserQA in MCParts is one of module BrowserQA.
LEMMA BrowserQARuns == MCSpec => (Q!Spec /\ [](part = "BrowserQA")) \/ []~(part = "BrowserQA")
<1>1. MCInit /\ part = "BrowserQA" => Q!Init
  BY DEF MCInit
<1>2. part = "BrowserQA" /\ [MCNext]_all => [Q!Next]_(Q!vars) /\ (part = "BrowserQA")'
  BY DEF MCNext, all, shared, Q!vars
<1>3. ~(part = "BrowserQA") /\ [MCNext]_all => ~(part = "BrowserQA")'
  BY PartStays
<1> QED BY <1>1, <1>2, <1>3, PTL DEF MCSpec, Q!Spec

\* A behaviour of Acceptance in MCParts is one of module Acceptance.
LEMMA AcceptanceRuns == MCSpec => (X!Spec /\ [](part = "Acceptance")) \/ []~(part = "Acceptance")
<1>1. MCInit /\ part = "Acceptance" => X!Init
  BY DEF MCInit
<1>2. part = "Acceptance" /\ [MCNext]_all => [X!Next]_(X!vars) /\ (part = "Acceptance")'
  BY DEF MCNext, all, shared, X!vars
<1>3. ~(part = "Acceptance") /\ [MCNext]_all => ~(part = "Acceptance")'
  BY PartStays
<1> QED BY <1>1, <1>2, <1>3, PTL DEF MCSpec, X!Spec

\* A behaviour of Readiness in MCParts is one of module Readiness.
LEMMA ReadinessRuns == MCSpec => (Y!Spec /\ [](part = "Readiness")) \/ []~(part = "Readiness")
<1>1. MCInit /\ part = "Readiness" => Y!Init
  BY DEF MCInit
<1>2. part = "Readiness" /\ [MCNext]_all => [Y!Next]_(Y!vars) /\ (part = "Readiness")'
  BY DEF MCNext, all, shared, Y!vars
<1>3. ~(part = "Readiness") /\ [MCNext]_all => ~(part = "Readiness")'
  BY PartStays
<1> QED BY <1>1, <1>2, <1>3, PTL DEF MCSpec, Y!Spec

\* A behaviour of McpProfiles in MCParts is one of module McpProfiles.
LEMMA McpProfilesRuns == MCSpec => (N3!Spec /\ [](part = "McpProfiles")) \/ []~(part = "McpProfiles")
<1>1. MCInit /\ part = "McpProfiles" => N3!Init
  BY DEF MCInit
<1>2. part = "McpProfiles" /\ [MCNext]_all => [N3!Next]_(N3!vars) /\ (part = "McpProfiles")'
  BY DEF MCNext, all, shared, N3!vars
<1>3. ~(part = "McpProfiles") /\ [MCNext]_all => ~(part = "McpProfiles")'
  BY PartStays
<1> QED BY <1>1, <1>2, <1>3, PTL DEF MCSpec, N3!Spec

\* A behaviour of Publication in MCParts is one of module Publication.
LEMMA PublicationRuns == MCSpec => (U!Spec /\ [](part = "Publication")) \/ []~(part = "Publication")
<1>1. MCInit /\ part = "Publication" => U!Init
  BY DEF MCInit
<1>2. part = "Publication" /\ [MCNext]_all => [U!Next]_(U!vars) /\ (part = "Publication")'
  BY DEF MCNext, all, shared, U!vars
<1>3. ~(part = "Publication") /\ [MCNext]_all => ~(part = "Publication")'
  BY PartStays
<1> QED BY <1>1, <1>2, <1>3, PTL DEF MCSpec, U!Spec

\* A behaviour of Scaffold in MCParts is one of module Scaffold.
LEMMA ScaffoldRuns == MCSpec => (F!Spec /\ [](part = "Scaffold")) \/ []~(part = "Scaffold")
<1>1. MCInit /\ part = "Scaffold" => F!Init
  BY DEF MCInit
<1>2. part = "Scaffold" /\ [MCNext]_all => [F!Next]_(F!vars) /\ (part = "Scaffold")'
  BY DEF MCNext, all, shared, F!vars
<1>3. ~(part = "Scaffold") /\ [MCNext]_all => ~(part = "Scaffold")'
  BY PartStays
<1> QED BY <1>1, <1>2, <1>3, PTL DEF MCSpec, F!Spec

\* A behaviour of Allowance in MCParts is one of module Allowance.
LEMMA AllowanceRuns == MCSpec => (Z!Spec /\ [](part = "Allowance")) \/ []~(part = "Allowance")
<1>1. MCInit /\ part = "Allowance" => Z!Init
  BY DEF MCInit
<1>2. part = "Allowance" /\ [MCNext]_all => [Z!Next]_(Z!vars) /\ (part = "Allowance")'
  BY DEF MCNext, all, shared, Z!vars
<1>3. ~(part = "Allowance") /\ [MCNext]_all => ~(part = "Allowance")'
  BY PartStays
<1> QED BY <1>1, <1>2, <1>3, PTL DEF MCSpec, Z!Spec

\* A behaviour of ActivityRecorder in MCParts is one of module ActivityRecorder.
LEMMA ActivityRecorderRuns == MCSpec => (A1!Spec /\ [](part = "ActivityRecorder")) \/ []~(part = "ActivityRecorder")
<1>1. MCInit /\ part = "ActivityRecorder" => A1!Init
  BY DEF MCInit
<1>2. part = "ActivityRecorder" /\ [MCNext]_all => [A1!Next]_(A1!vars) /\ (part = "ActivityRecorder")'
  BY DEF MCNext, all, shared, A1!vars
<1>3. ~(part = "ActivityRecorder") /\ [MCNext]_all => ~(part = "ActivityRecorder")'
  BY PartStays
<1> QED BY <1>1, <1>2, <1>3, PTL DEF MCSpec, A1!Spec

\* A behaviour of ActivityFeed in MCParts is one of module ActivityFeed.
LEMMA ActivityFeedRuns == MCSpec => (A2!Spec /\ [](part = "ActivityFeed")) \/ []~(part = "ActivityFeed")
<1>1. MCInit /\ part = "ActivityFeed" => A2!Init
  BY DEF MCInit
<1>2. part = "ActivityFeed" /\ [MCNext]_all => [A2!Next]_(A2!vars) /\ (part = "ActivityFeed")'
  BY DEF MCNext, all, shared, A2!vars
<1>3. ~(part = "ActivityFeed") /\ [MCNext]_all => ~(part = "ActivityFeed")'
  BY PartStays
<1> QED BY <1>1, <1>2, <1>3, PTL DEF MCSpec, A2!Spec

\* A behaviour of LiveView in MCParts is one of module LiveView.
LEMMA LiveViewRuns == MCSpec => (L!Spec /\ [](part = "LiveView")) \/ []~(part = "LiveView")
<1>1. MCInit /\ part = "LiveView" => L!Init
  BY DEF MCInit
<1>2. part = "LiveView" /\ [MCNext]_all => [L!Next]_(L!vars) /\ (part = "LiveView")'
  BY DEF MCNext, all, shared, L!vars
<1>3. ~(part = "LiveView") /\ [MCNext]_all => ~(part = "LiveView")'
  BY PartStays
<1> QED BY <1>1, <1>2, <1>3, PTL DEF MCSpec, L!Spec

\* A behaviour of LogFiles in MCParts is one of module LogFiles.
LEMMA LogFilesRuns == MCSpec => (K2!Spec /\ [](part = "LogFiles")) \/ []~(part = "LogFiles")
<1>1. MCInit /\ part = "LogFiles" => K2!Init
  BY DEF MCInit
<1>2. part = "LogFiles" /\ [MCNext]_all => [K2!Next]_(K2!vars) /\ (part = "LogFiles")'
  BY DEF MCNext, all, shared, K2!vars
<1>3. ~(part = "LogFiles") /\ [MCNext]_all => ~(part = "LogFiles")'
  BY PartStays
<1> QED BY <1>1, <1>2, <1>3, PTL DEF MCSpec, K2!Spec

\* A behaviour of OwnerSession in MCParts is one of module OwnerSession.
LEMMA OwnerSessionRuns == MCSpec => (N2!Spec /\ [](part = "OwnerSession")) \/ []~(part = "OwnerSession")
<1>1. MCInit /\ part = "OwnerSession" => N2!Init
  BY DEF MCInit
<1>2. part = "OwnerSession" /\ [MCNext]_all => [N2!Next]_(N2!vars) /\ (part = "OwnerSession")'
  BY DEF MCNext, all, shared, N2!vars
<1>3. ~(part = "OwnerSession") /\ [MCNext]_all => ~(part = "OwnerSession")'
  BY PartStays
<1> QED BY <1>1, <1>2, <1>3, PTL DEF MCSpec, N2!Spec

\* A behaviour of AgentPolicy in MCParts is one of module AgentPolicy.
LEMMA AgentPolicyRuns == MCSpec => (B1!Spec /\ [](part = "AgentPolicy")) \/ []~(part = "AgentPolicy")
<1>1. MCInit /\ part = "AgentPolicy" => B1!Init
  BY DEF MCInit
<1>2. part = "AgentPolicy" /\ [MCNext]_all => [B1!Next]_(B1!vars) /\ (part = "AgentPolicy")'
  BY DEF MCNext, all, shared, B1!vars
<1>3. ~(part = "AgentPolicy") /\ [MCNext]_all => ~(part = "AgentPolicy")'
  BY PartStays
<1> QED BY <1>1, <1>2, <1>3, PTL DEF MCSpec, B1!Spec

----
(* Sessions: their tool calls, their loop, their processes and their places *)

Own == INSTANCE SessionProofs WITH External <- {"external"}, File <- {}, Recipe <- {"recipe"},
       Session <- A, StoreFails <- TRUE, row <- v1, call <- v2, done <- v3, file <- v4, tree <- v5,
       session <- v6, lease <- v7, cancelled <- v8, grant <- v9, snapshot <- v10, refused <- v11,
       released <- v12, phase <- v13, Attempt <- A, Item <- {"item"}, ItemOf <- OneItem,
       Strategy <- {"ISOLATED"}, spaceNobody <- "nobody", MaxFaults <- 1, repository <- v1, disk <- v2,
       spaceRow <- v3, attempt <- v4, loop <- v5, spacePhase <- v6, faults <- v7, MaxSessions <- 2,
       MaxStops <- 1, sessAttempt <- v1, run <- v2, sessSession <- v3, child <- v4, tools <- v5,
       behind <- v6, sessLoop <- v7, tally <- v8, revoked <- v1, start <- v2, procChild <- v3, pipe <- v4,
       held <- v5, read <- v6, procRun <- v7, abort <- v8, Server <- {"server"}, mcpMaxFaults <- 4,
       mcpDaemon <- v1, server <- v2, mcpFaults <- v3, Process <- A, dataNobody <- "nobody",
       Builds <- {1, 2}, Newest <- 2, lock <- v1, process <- v2, store <- v3, backups <- v4,
       dataFaults <- v5, Tab <- A, Tool <- B, MaxRevisions <- 2, MaxVersion <- 3, MaxProbes <- 1,
       version <- v1, revision <- v2, capability <- v3, profGrant <- v4, probe <- v5, probes <- v6,
       bundle <- v7, tab <- v8, proposal <- v9, polTool <- A, InitialMax <- 2, MaxTokens <- 3,
       MaxReport <- 2, MaxChanges <- 1, ManagerCap <- 1, ProfileCap <- 2, squad <- v1, environment <- v2,
       ready <- v3, preference <- v4, polGrant <- v5, polAttempt <- v6, adapter <- v7, policy <- v8,
       used <- v9, polRun <- v10, author <- v11, polSession <- v12, changes <- v13, Action <- A,
       QueueLimit <- 2, TableLimit <- 1, CrashAfterFinish <- FALSE, agentRun <- v1, table <- v2,
       counters <- v3, feed <- v4, queue <- v5, draining <- v12, timer <- v6, live <- v7, accepted <- v8,
       logged <- v9, expired <- v10, recPhase <- v11, PageSize <- 1, MaxId <- 3, MaxTime <- 1, now <- v1,
       feedHeld <- v2, added <- v3, reader <- v4, MaxSequence <- 2, MaxStreams <- 1, committed <- v1,
       published <- v2, liveSession <- v3, others <- v4, stream <- v5, frame <- v6, liveTab <- v7,
       fetch <- v8, view <- v9, failed <- v10, logsFile <- 1..4, NoName <- 0, SegmentLimit <- 2,
       TotalLimit <- 4, MaxOwned <- 3, Rotation <- 1, Retention <- 2, segment <- v1, writer <- v2,
       line <- v3, answer <- v4

\* The theorems are about the instance of ToolCalls that MCParts runs.
LEMMA ToolCallsSame ==
    /\ T!Init <=> Own!Init
    /\ [T!Next]_(T!vars) <=> [Own!Next]_(Own!vars)
    /\ T!CallsStayInTheirSession <=> Own!CallsStayInTheirSession
    /\ T!LiveTreeIsStarted <=> Own!LiveTreeIsStarted
    /\ [T!OnlyGranted]_(T!vars) <=> [Own!OnlyGranted]_(Own!vars)
    /\ [T!Calls]_(T!vars) <=> [Own!Calls]_(Own!vars)
    /\ T!Promise!Init <=> Own!Promise!Init
  BY Zenon DEF T!Direct, Own!Direct, T!Call, Own!Call, T!Nobody, Own!Nobody, T!handlers, Own!handlers,
         T!sessions, Own!sessions, T!daemon, Own!daemon, T!vars, Own!vars, T!Idle, Own!Idle, T!Init,
         Own!Init, T!InFlight, Own!InFlight, T!Over, Own!Over, T!Inside, Own!Inside, T!Admitted,
         Own!Admitted, T!Startable, Own!Startable, T!Request, Own!Request, T!Answer, Own!Answer, T!Aborted,
         Own!Aborted, T!Deny, Own!Deny, T!Prepare, Own!Prepare, T!GiveUp, Own!GiveUp, T!Replace,
         Own!Replace, T!Spawn, Own!Spawn, T!RecipeEnds, Own!RecipeEnds, T!ServerAnswers, Own!ServerAnswers,
         T!Verdicts, Own!Verdicts, T!Finish, Own!Finish, T!Begin, Own!Begin, T!Open, Own!Open,
         T!ProviderEnds, Own!ProviderEnds, T!Settled, Own!Settled, T!Drain, Own!Drain, T!Ends, Own!Ends,
         T!SessionEnds, Own!SessionEnds, T!Cancel, Own!Cancel, T!CancelEnds, Own!CancelEnds, T!Narrow,
         Own!Narrow, T!Revoke, Own!Revoke, T!Crash, Own!Crash, T!Start, Own!Start, T!Interrupted,
         Own!Interrupted, T!Release, Own!Release, T!Verdict, Own!Verdict, T!Unproven, Own!Unproven,
         T!Reconcile, Own!Reconcile, T!ServerActs, Own!ServerActs, T!TreeEnds, Own!TreeEnds, T!HandlerStep,
         Own!HandlerStep, T!Next, Own!Next, T!ClaimOf, Own!ClaimOf, T!Calls, Own!Calls,
         T!CallsStayInTheirSession, Own!CallsStayInTheirSession, T!LiveTreeIsStarted,
         Own!LiveTreeIsStarted, T!OnlyGranted, Own!OnlyGranted, T!Promise!vars, Own!Promise!vars,
         T!Promise!Claim, Own!Promise!Claim, T!Promise!Init, Own!Promise!Init, T!Promise!TakeClaims,
         Own!Promise!TakeClaims, T!Promise!Happen, Own!Promise!Happen, T!Promise!Entitled,
         Own!Promise!Entitled, T!Promise!Settle, Own!Promise!Settle, T!Promise!Next, Own!Promise!Next

\* What is proved of module ToolCalls holds of the part ToolCalls.
LEMMA ToolCallsHolds ==
    MCSpec =>
       /\ [](part = "ToolCalls" => T!CallsStayInTheirSession /\ T!LiveTreeIsStarted)
       /\ [][part = "ToolCalls" => T!OnlyGranted /\ T!Calls]_all
       /\ (part = "ToolCalls" => T!Promise!Init)
<1>1. Own!KindsDiffer
  BY DEF Own!KindsDiffer, Own!Direct
<1>2. Own!Spec => []Own!CallsStayInTheirSession
  BY <1>1, Own!CallsStay
<1>3. Own!Spec => []Own!LiveTreeIsStarted
  BY <1>1, Own!TreesAreOnRecord
<1>4. Own!Spec => Own!OnlyGrantedToolsStart
  BY <1>1, Own!StartsAreGranted
<1>5. Own!Spec => Own!CalledAtMostOnce
  BY <1>1, Own!CallIsOnce
<1>6. part = "ToolCalls" /\ [MCNext]_all /\ [T!OnlyGranted]_(T!vars) /\ [T!Calls]_(T!vars) => [T!OnlyGranted /\ T!Calls]_all
  BY DEF MCNext, all, shared, T!handlers, T!sessions, T!daemon, T!vars
<1>7. QED
  BY <1>2, <1>3, <1>4, <1>5, <1>6, ToolCallsRuns, ToolCallsSame, PTL
     DEF MCSpec, T!Spec, Own!Spec, Own!OnlyGrantedToolsStart, Own!CalledAtMostOnce, Own!Promise!Spec,
         Own!Calls

\* The theorems are about the instance of SessionLoop that MCParts runs.
LEMMA SessionLoopSame ==
    /\ S!Init <=> Own!Sess!Init
    /\ [S!Next]_(S!vars) <=> [Own!Sess!Next]_(Own!Sess!vars)
    /\ S!WasteIsAnswered <=> Own!Sess!WasteIsAnswered
    /\ S!HandoffIsComplete <=> Own!Sess!HandoffIsComplete
    /\ S!SessionOutlivesItsWork <=> Own!Sess!SessionOutlivesItsWork
    /\ S!LoopLeavesAnAnswer <=> Own!Sess!LoopLeavesAnAnswer
  BY Zenon DEF S!vars, Own!Sess!vars, S!Stopped, Own!Sess!Stopped, S!Continues, Own!Sess!Continues,
         S!Outcome, Own!Sess!Outcome, S!At, Own!Sess!At, S!Init, Own!Sess!Init, S!HardPaused,
         Own!Sess!HardPaused, S!Spent, Own!Sess!Spent, S!Counted, Own!Sess!Counted, S!Reduced,
         Own!Sess!Reduced, S!Stop, Own!Sess!Stop, S!Tallied, Own!Sess!Tallied, S!EndProviderSession,
         Own!Sess!EndProviderSession, S!StopAttempt, Own!Sess!StopAttempt, S!Claim, Own!Sess!Claim,
         S!LeaveLoop, Own!Sess!LeaveLoop, S!SessionLimitReached, Own!Sess!SessionLimitReached,
         S!ContextRefused, Own!Sess!ContextRefused, S!NewSession, Own!Sess!NewSession, S!StartSession,
         Own!Sess!StartSession, S!Spawn, Own!Sess!Spawn, S!Publish, Own!Sess!Publish, S!OnCheckpoint,
         Own!Sess!OnCheckpoint, S!LateCheckpoint, Own!Sess!LateCheckpoint, S!FirstRequest,
         Own!Sess!FirstRequest, S!Requested, Own!Sess!Requested, S!OnContextWindow,
         Own!Sess!OnContextWindow, S!OnUsage, Own!Sess!OnUsage, S!ProviderReturns,
         Own!Sess!ProviderReturns, S!CloseTools, Own!Sess!CloseTools, S!TaskWins, Own!Sess!TaskWins,
         S!DeadlineWins, Own!Sess!DeadlineWins, S!AbortSession, Own!Sess!AbortSession, S!EndTurn,
         Own!Sess!EndTurn, S!DeadlineEnds, Own!Sess!DeadlineEnds, S!HandoffEnds, Own!Sess!HandoffEnds,
         S!FailedEnds, Own!Sess!FailedEnds, S!UncertainEnds, Own!Sess!UncertainEnds, S!MeasureResult,
         Own!Sess!MeasureResult, S!ResultEnds, Own!Sess!ResultEnds, S!StoreFails, Own!Sess!StoreFails,
         S!PausePipeline, Own!Sess!PausePipeline, S!Queued, Own!Sess!Queued, S!Requeue, Own!Sess!Requeue,
         S!Restart, Own!Sess!Restart, S!Next, Own!Sess!Next, S!WasteIsAnswered, Own!Sess!WasteIsAnswered,
         S!HandoffIsComplete, Own!Sess!HandoffIsComplete, S!SessionOutlivesItsWork,
         Own!Sess!SessionOutlivesItsWork, S!LoopLeavesAnAnswer, Own!Sess!LoopLeavesAnAnswer

\* What is proved of module SessionLoop holds of the part SessionLoop.
LEMMA SessionLoopHolds ==
    MCSpec =>
       /\ [](part = "SessionLoop" => S!WasteIsAnswered /\ S!HandoffIsComplete /\ S!SessionOutlivesItsWork /\
               S!LoopLeavesAnAnswer)
<1>1. Own!LoopBounds
  BY DEF Own!LoopBounds
<1>2. Own!Sess!Spec => [](Own!Sess!WasteIsAnswered /\ Own!Sess!HandoffIsComplete /\
          Own!Sess!SessionOutlivesItsWork /\ Own!Sess!LoopLeavesAnAnswer)
  BY <1>1, Own!SessionsAnswer
<1>3. QED
  BY <1>2, SessionLoopRuns, SessionLoopSame, PTL
     DEF MCSpec, S!Spec, Own!Sess!Spec

\* The theorems are about the instance of ProviderProcess that MCParts runs.
LEMMA ProviderProcessSame ==
    /\ P!Init <=> Own!Proc!Init
    /\ [P!Next]_(P!vars) <=> [Own!Proc!Next]_(Own!Proc!vars)
    /\ P!AbortedIsGone <=> Own!Proc!AbortedIsGone
    /\ P!SettledIsGone <=> Own!Proc!SettledIsGone
    /\ P!SaidIsHeard <=> Own!Proc!SaidIsHeard
    /\ P!NoOutcomeUnheard <=> Own!Proc!NoOutcomeUnheard
  BY Zenon DEF P!Line, Own!Proc!Line, P!vars, Own!Proc!vars, P!Unstarted, Own!Proc!Unstarted, P!Init,
         Own!Proc!Init, P!Gone, Own!Proc!Gone, P!Prepare, Own!Proc!Prepare, P!PrepareFails,
         Own!Proc!PrepareFails, P!MaySpawn, Own!Proc!MaySpawn, P!Spawn, Own!Proc!Spawn, P!Outcome,
         Own!Proc!Outcome, P!StartSettles, Own!Proc!StartSettles, P!ChildWrites, Own!Proc!ChildWrites,
         P!Inherit, Own!Proc!Inherit, P!ChildExits, Own!Proc!ChildExits, P!Stopped, Own!Proc!Stopped,
         P!Stopping, Own!Proc!Stopping, P!ReadLine, Own!Proc!ReadLine, P!Settle, Own!Proc!Settle, P!AtEnd,
         Own!Proc!AtEnd, P!Close, Own!Proc!Close, P!DrainExpires, Own!Proc!DrainExpires, P!DeadlinePasses,
         Own!Proc!DeadlinePasses, P!Kill, Own!Proc!Kill, P!Revoke, Own!Proc!Revoke, P!Abort,
         Own!Proc!Abort, P!AbortResolves, Own!Proc!AbortResolves, P!Next, Own!Proc!Next, P!AbortedIsGone,
         Own!Proc!AbortedIsGone, P!SettledIsGone, Own!Proc!SettledIsGone, P!SaidIsHeard,
         Own!Proc!SaidIsHeard, P!NoOutcomeUnheard, Own!Proc!NoOutcomeUnheard

\* What is proved of module ProviderProcess holds of the part ProviderProcess.
LEMMA ProviderProcessHolds ==
    MCSpec =>
       /\ [](part = "ProviderProcess" => P!AbortedIsGone /\ P!SettledIsGone /\ P!SaidIsHeard /\
               P!NoOutcomeUnheard)
<1>1. Own!Proc!Spec => [](Own!Proc!AbortedIsGone /\ Own!Proc!SettledIsGone /\ Own!Proc!SaidIsHeard /\
          Own!Proc!NoOutcomeUnheard)
  BY Own!ProcessCorrect
<1>2. QED
  BY <1>1, ProviderProcessRuns, ProviderProcessSame, PTL
     DEF MCSpec, P!Spec, Own!Proc!Spec

\* The theorems are about the instance of Workspace that MCParts runs.
LEMMA WorktreeSame ==
    /\ G1!Init <=> Own!Space!Init
    /\ [G1!Next]_(G1!vars) <=> [Own!Space!Next]_(Own!Space!vars)
    /\ G1!WriterIsAlone <=> Own!Space!WriterIsAlone
    /\ G1!LeaseIsWorked <=> Own!Space!LeaseIsWorked
    /\ G1!CutIsRecorded <=> Own!Space!CutIsRecorded
    /\ [G1!KeepsWork]_(G1!vars) <=> [Own!Space!KeepsWork]_(Own!Space!vars)
  BY Zenon DEF G1!vars, Own!Space!vars, G1!NoRow, Own!Space!NoRow, G1!Clear, Own!Space!Clear, G1!Idle,
         Own!Space!Idle, G1!SharedAuthorityHeld, Own!Space!SharedAuthorityHeld, G1!Claimable,
         Own!Space!Claimable, G1!Claimed, Own!Space!Claimed, G1!Released, Own!Space!Released,
         G1!Executable, Own!Space!Executable, G1!NeedsLease, Own!Space!NeedsLease, G1!Goes, Own!Space!Goes,
         G1!Leaves, Own!Space!Leaves, G1!Finish, Own!Space!Finish, G1!Enters, Own!Space!Enters,
         G1!StartAgentRun, Own!Space!StartAgentRun, G1!TakeUp, Own!Space!TakeUp, G1!Refuse,
         Own!Space!Refuse, G1!Proceed, Own!Space!Proceed, G1!Lease, Own!Space!Lease, G1!CheckWorkspace,
         Own!Space!CheckWorkspace, G1!Inspect, Own!Space!Inspect, G1!Created, Own!Space!Created,
         G1!Snapshot, Own!Space!Snapshot, G1!Add, Own!Space!Add, G1!Record, Own!Space!Record, G1!Remove,
         Own!Space!Remove, G1!RemoveFails, Own!Space!RemoveFails, G1!DeleteBranch, Own!Space!DeleteBranch,
         G1!EndSession, Own!Space!EndSession, G1!Unwind, Own!Space!Unwind, G1!Revoke, Own!Space!Revoke,
         G1!Queue, Own!Space!Queue, G1!Verify, Own!Space!Verify, G1!OwnerChangesRepository,
         Own!Space!OwnerChangesRepository, G1!OwnerMeddles, Own!Space!OwnerMeddles, G1!Crash,
         Own!Space!Crash, G1!Gone, Own!Space!Gone, G1!Reconciled, Own!Space!Reconciled, G1!Restart,
         Own!Space!Restart, G1!Init, Own!Space!Init, G1!Prepare, Own!Space!Prepare, G1!Rollback,
         Own!Space!Rollback, G1!Next, Own!Space!Next, G1!Directory, Own!Space!Directory, G1!HasDirectory,
         Own!Space!HasDirectory, G1!VerifiedIn, Own!Space!VerifiedIn, G1!WriterIsAlone,
         Own!Space!WriterIsAlone, G1!LeaseIsWorked, Own!Space!LeaseIsWorked, G1!CutIsRecorded,
         Own!Space!CutIsRecorded, G1!KeepsWork, Own!Space!KeepsWork

\* What is proved of module Workspace holds of the part Worktree.
LEMMA WorktreeHolds ==
    ASSUME "nobody" \notin A
    PROVE  MCSpec =>
           /\ [](part = "Worktree" => G1!WriterIsAlone /\ G1!LeaseIsWorked /\ G1!CutIsRecorded)
           /\ [][part = "Worktree" => G1!KeepsWork]_all
<1>1. Own!SpaceConstants
  BY DEF Own!SpaceConstants, OneItem
<1>2. Own!Space!Spec => []Own!Space!WriterIsAlone
  BY <1>1, Own!WriterIsAlone
<1>3. Own!Space!Spec => [](Own!Space!LeaseIsWorked /\ Own!Space!CutIsRecorded)
  BY <1>1, Own!LeasesAreWorked
<1>4. Own!Space!Spec => [][Own!Space!KeepsWork]_(Own!Space!vars)
  BY <1>1, Own!WorkIsKept
<1>5. part = "Worktree" /\ [MCNext]_all /\ [G1!KeepsWork]_(G1!vars) => [G1!KeepsWork]_all
  BY DEF MCNext, all, shared, G1!vars
<1>6. QED
  BY <1>2, <1>3, <1>4, <1>5, WorktreeRuns, WorktreeSame, PTL
     DEF MCSpec, G1!Spec, Own!Space!Spec

\* The theorems are about the instance of DataDirectory that MCParts runs.
LEMMA DataDirectorySame ==
    /\ K1!Init <=> Own!Data!Init
    /\ [K1!Next]_(K1!vars) <=> [Own!Data!Next]_(Own!Data!vars)
    /\ K1!OneHolder <=> Own!Data!OneHolder
    /\ K1!SchemaIsKnown <=> Own!Data!SchemaIsKnown
    /\ K1!BackedUp <=> Own!Data!BackedUp
  BY Zenon DEF K1!vars, Own!Data!vars, K1!NoLock, Own!Data!NoLock, K1!Off, Own!Data!Off, K1!Alive,
         Own!Data!Alive, K1!Goes, Own!Data!Goes, K1!Ends, Own!Data!Ends, K1!Holding, Own!Data!Holding,
         K1!Start, Own!Data!Start, K1!CreateLock, Own!Data!CreateLock, K1!WriteLock, Own!Data!WriteLock,
         K1!Again, Own!Data!Again, K1!Reclaimable, Own!Data!Reclaimable, K1!ReadLock, Own!Data!ReadLock,
         K1!Reclaim, Own!Data!Reclaim, K1!Release, Own!Data!Release, K1!Unlink, Own!Data!Unlink, K1!Close,
         Own!Data!Close, K1!Inspect, Own!Data!Inspect, K1!HasPending, Own!Data!HasPending, K1!NeedsBackup,
         Own!Data!NeedsBackup, K1!Backup, Own!Data!Backup, K1!Migrate, Own!Data!Migrate, K1!Execute,
         Own!Data!Execute, K1!Die, Own!Data!Die, K1!Init, Own!Data!Init, K1!Locks, Own!Data!Locks,
         K1!Opens, Own!Data!Opens, K1!Next, Own!Data!Next, K1!OneHolder, Own!Data!OneHolder,
         K1!SchemaIsKnown, Own!Data!SchemaIsKnown, K1!BackedUp, Own!Data!BackedUp

\* What is proved of module DataDirectory holds of the part DataDirectory.
LEMMA DataDirectoryHolds ==
    ASSUME "nobody" \notin A, AtMostTwo(A)
    PROVE  MCSpec =>
           /\ [](part = "DataDirectory" => K1!OneHolder /\ K1!SchemaIsKnown /\ K1!BackedUp)
<1>1. Own!DataConstants
  BY DEF AtMostTwo, Own!DataConstants, Own!AtMostTwo
<1>2. Own!Data!Spec => [](Own!Data!OneHolder /\ Own!Data!SchemaIsKnown /\ Own!Data!BackedUp)
  BY <1>1, Own!DirectoryIsSafe
<1>3. QED
  BY <1>2, DataDirectoryRuns, DataDirectorySame, PTL
     DEF MCSpec, K1!Spec, Own!Data!Spec

\* The theorems are about the instance of McpServers that MCParts runs.
LEMMA McpServersSame ==
    /\ N1!Init <=> Own!Mcp!Init
    /\ [N1!Next]_(N1!vars) <=> [Own!Mcp!Next]_(Own!Mcp!vars)
    /\ N1!LiveIsRecorded <=> Own!Mcp!LiveIsRecorded
    /\ [N1!StrangersLive]_(N1!vars) <=> [Own!Mcp!StrangersLive]_(Own!Mcp!vars)
  BY Zenon DEF N1!vars, Own!Mcp!vars, N1!Fresh, Own!Mcp!Fresh, N1!Serving, Own!Mcp!Serving,
         N1!HasSupervisor, Own!Mcp!HasSupervisor, N1!Fault, Own!Mcp!Fault, N1!Open, Own!Mcp!Open, N1!Close,
         Own!Mcp!Close, N1!Leak, Own!Mcp!Leak, N1!DaemonDies, Own!Mcp!DaemonDies, N1!Launch,
         Own!Mcp!Launch, N1!Write, Own!Mcp!Write, N1!Rename, Own!Mcp!Rename, N1!Exit, Own!Mcp!Exit,
         N1!MustStop, Own!Mcp!MustStop, N1!Stopping, Own!Mcp!Stopping, N1!Stop, Own!Mcp!Stop, N1!Terminate,
         Own!Mcp!Terminate, N1!Unlink, Own!Mcp!Unlink, N1!SupervisorDies, Own!Mcp!SupervisorDies,
         N1!StartDaemon, Own!Mcp!StartDaemon, N1!StartMatches, Own!Mcp!StartMatches, N1!Removed,
         Own!Mcp!Removed, N1!Killed, Own!Mcp!Killed, N1!Skipped, Own!Mcp!Skipped, N1!Recover,
         Own!Mcp!Recover, N1!Reuse, Own!Mcp!Reuse, N1!StrangerEnds, Own!Mcp!StrangerEnds, N1!Init,
         Own!Mcp!Init, N1!Supervises, Own!Mcp!Supervises, N1!Next, Own!Mcp!Next, N1!LiveIsRecorded,
         Own!Mcp!LiveIsRecorded, N1!StrangersLive, Own!Mcp!StrangersLive

\* What is proved of module McpServers holds of the part McpServers.
LEMMA McpServersHolds ==
    MCSpec =>
       /\ [](part = "McpServers" => N1!LiveIsRecorded)
       /\ [][part = "McpServers" => N1!StrangersLive]_all
<1>1. Own!Mcp!Spec => []Own!Mcp!LiveIsRecorded
  BY Own!LiveIsRecorded
<1>2. Own!Mcp!Spec => [][Own!Mcp!StrangersLive]_(Own!Mcp!vars)
  BY Own!StrangersLive
<1>3. part = "McpServers" /\ [MCNext]_all /\ [N1!StrangersLive]_(N1!vars) => [N1!StrangersLive]_all
  BY DEF MCNext, all, shared, N1!vars
<1>4. QED
  BY <1>1, <1>2, <1>3, McpServersRuns, McpServersSame, PTL
     DEF MCSpec, N1!Spec, Own!Mcp!Spec

\* The theorems are about the instance of McpProfiles that MCParts runs.
LEMMA McpProfilesSame ==
    /\ N3!Init <=> Own!Prof!Init
    /\ [N3!Next]_(N3!vars) <=> [Own!Prof!Next]_(Own!Prof!vars)
    /\ N3!CapabilityIsOfItsRevision <=> Own!Prof!CapabilityIsOfItsRevision
    /\ [N3!GrantsAreForTheLatest]_(N3!vars) <=> [Own!Prof!GrantsAreForTheLatest]_(Own!Prof!vars)
    /\ [N3!PresetIsFiledOnce]_(N3!vars) <=> [Own!Prof!PresetIsFiledOnce]_(Own!Prof!vars)
  BY Zenon DEF N3!vars, Own!Prof!vars, N3!NoCapability, Own!Prof!NoCapability, N3!NoGrant,
         Own!Prof!NoGrant, N3!NoProposal, Own!Prof!NoProposal, N3!Latest, Own!Prof!Latest, N3!Shown,
         Own!Prof!Shown, N3!Preset, Own!Prof!Preset, N3!Configured, Own!Prof!Configured, N3!Load,
         Own!Prof!Load, N3!Issue, Own!Prof!Issue, N3!Propose, Own!Prof!Propose, N3!ProposePreset,
         Own!Prof!ProposePreset, N3!Expected, Own!Prof!Expected, N3!Bumped, Own!Prof!Bumped, N3!Unchanged,
         Own!Prof!Unchanged, N3!Refused, Own!Prof!Refused, N3!BumpedByConsent, Own!Prof!BumpedByConsent,
         N3!Filed, Own!Prof!Filed, N3!Consume, Own!Prof!Consume, N3!File, Own!Prof!File, N3!Confirm,
         Own!Prof!Confirm, N3!Expire, Own!Prof!Expire, N3!Probe, Own!Prof!Probe, N3!Observed,
         Own!Prof!Observed, N3!Snapshot, Own!Prof!Snapshot, N3!Record, Own!Prof!Record, N3!Ticked,
         Own!Prof!Ticked, N3!Grantable, Own!Prof!Grantable, N3!Seen, Own!Prof!Seen, N3!SetGrant,
         Own!Prof!SetGrant, N3!Revocable, Own!Prof!Revocable, N3!Revoke, Own!Prof!Revoke, N3!Restart,
         Own!Prof!Restart, N3!Init, Own!Prof!Init, N3!Next, Own!Prof!Next, N3!CapabilityIsOfItsRevision,
         Own!Prof!CapabilityIsOfItsRevision, N3!GrantsAreForTheLatest, Own!Prof!GrantsAreForTheLatest,
         N3!PresetIsFiledOnce, Own!Prof!PresetIsFiledOnce

\* What is proved of module McpProfiles holds of the part McpProfiles.
LEMMA McpProfilesHolds ==
    MCSpec =>
       /\ [](part = "McpProfiles" => N3!CapabilityIsOfItsRevision)
       /\ [][part = "McpProfiles" => N3!GrantsAreForTheLatest /\ N3!PresetIsFiledOnce]_all
<1>1. Own!ProfileBounds
  BY DEF Own!ProfileBounds
<1>2. Own!Prof!Spec => []Own!Prof!CapabilityIsOfItsRevision
  BY <1>1, Own!CapabilityIsHeld
<1>3. Own!Prof!Spec => [][Own!Prof!GrantsAreForTheLatest]_(Own!Prof!vars) /\
          [][Own!Prof!PresetIsFiledOnce]_(Own!Prof!vars)
  BY <1>1, Own!ProfileSteps
<1>4. part = "McpProfiles" /\ [MCNext]_all /\ [N3!GrantsAreForTheLatest]_(N3!vars) /\ [N3!PresetIsFiledOnce]_(N3!vars) => [N3!GrantsAreForTheLatest /\ N3!PresetIsFiledOnce]_all
  BY DEF MCNext, all, shared, N3!vars
<1>5. QED
  BY <1>2, <1>3, <1>4, McpProfilesRuns, McpProfilesSame, PTL
     DEF MCSpec, N3!Spec, Own!Prof!Spec

\* The theorems are about the instance of ActivityRecorder that MCParts runs.
LEMMA ActivityRecorderSame ==
    /\ A1!Init <=> Own!Rec!Init
    /\ [A1!Next]_(A1!vars) <=> [Own!Rec!Next]_(Own!Rec!vars)
    /\ A1!LostIsSaid <=> Own!Rec!LostIsSaid
  BY Zenon DEF A1!Report, Own!Rec!Report, A1!vars, Own!Rec!vars, A1!NoCounters, Own!Rec!NoCounters,
         A1!NoFeed, Own!Rec!NoFeed, A1!Init, Own!Rec!Init, A1!Upserted, Own!Rec!Upserted, A1!Recorded,
         Own!Rec!Recorded, A1!Idle, Own!Rec!Idle, A1!DrainTimer, Own!Rec!DrainTimer, A1!DrainOne,
         Own!Rec!DrainOne, A1!DrainEnds, Own!Rec!DrainEnds, A1!OnActivity, Own!Rec!OnActivity,
         A1!CloseSession, Own!Rec!CloseSession, A1!FinishAgentRun, Own!Rec!FinishAgentRun, A1!LeaveSession,
         Own!Rec!LeaveSession, A1!NextSession, Own!Rec!NextSession, A1!Settled, Own!Rec!Settled, A1!Crash,
         Own!Rec!Crash, A1!Interrupted, Own!Rec!Interrupted, A1!Start, Own!Rec!Start, A1!Expire,
         Own!Rec!Expire, A1!Next, Own!Rec!Next, A1!InTable, Own!Rec!InTable, A1!InQueue, Own!Rec!InQueue,
         A1!Missing, Own!Rec!Missing, A1!MarkIsDue, Own!Rec!MarkIsDue, A1!LostIsSaid, Own!Rec!LostIsSaid,
         A1!Cardinality, Own!Rec!Cardinality, A1!IsFiniteSet, Own!Rec!IsFiniteSet

\* What is proved of module ActivityRecorder holds of the part ActivityRecorder.
LEMMA ActivityRecorderHolds ==
    ASSUME IsFiniteSet(A)
    PROVE  MCSpec =>
           /\ [](part = "ActivityRecorder" => A1!LostIsSaid)
<1>1. Own!IsFiniteSet(A)
  BY DEF IsFiniteSet, Own!IsFiniteSet
<1>2. Own!RecorderBounds
  BY DEF Own!RecorderBounds
<1>3. Own!Rec!Spec => []Own!Rec!LostIsSaid
  BY <1>1, <1>2, Own!LostReportsAreSaid
<1>4. QED
  BY <1>3, ActivityRecorderRuns, ActivityRecorderSame, PTL
     DEF MCSpec, A1!Spec, Own!Rec!Spec

\* The theorems are about the instance of ActivityFeed that MCParts runs.
LEMMA ActivityFeedSame ==
    /\ A2!Init <=> Own!Feed!Init
    /\ [A2!Next]_(A2!vars) <=> [Own!Feed!Next]_(Own!Feed!vars)
    /\ A2!FeedIsWhole <=> Own!Feed!FeedIsWhole
  BY Zenon DEF A2!Origin, Own!Feed!Origin, A2!NoEntry, Own!Feed!NoEntry, A2!vars, Own!Feed!vars, A2!Init,
         Own!Feed!Init, A2!Tick, Own!Feed!Tick, A2!AddEntry, Own!Feed!AddEntry, A2!Evict, Own!Feed!Evict,
         A2!Rank, Own!Feed!Rank, A2!Earlier, Own!Feed!Earlier, A2!First, Own!Feed!First, A2!FetchLimit,
         Own!Feed!FetchLimit, A2!Window, Own!Feed!Window, A2!Merged, Own!Feed!Merged, A2!Capped,
         Own!Feed!Capped, A2!Last, Own!Feed!Last, A2!Page, Own!Feed!Page, A2!Crowded, Own!Feed!Crowded,
         A2!ReadPage, Own!Feed!ReadPage, A2!Next, Own!Feed!Next, A2!FeedIsWhole, Own!Feed!FeedIsWhole,
         A2!Cardinality, Own!Feed!Cardinality, A2!IsFiniteSet, Own!Feed!IsFiniteSet

\* What is proved of module ActivityFeed holds of the part ActivityFeed.
LEMMA ActivityFeedHolds ==
    MCSpec =>
       /\ [](part = "ActivityFeed" => A2!FeedIsWhole)
<1>1. Own!FeedBounds
  BY DEF Own!FeedBounds
<1>2. Own!Feed!Spec => []Own!Feed!FeedIsWhole
  BY <1>1, Own!FeedIsReadWhole
<1>3. QED
  BY <1>2, ActivityFeedRuns, ActivityFeedSame, PTL
     DEF MCSpec, A2!Spec, Own!Feed!Spec

\* The theorems are about the instance of LiveView that MCParts runs.
LEMMA LiveViewSame ==
    /\ L!Init <=> Own!Live!Init
    /\ [L!Next]_(L!vars) <=> [Own!Live!Next]_(Own!Live!vars)
    /\ L!StaleIsRefreshed <=> Own!Live!StaleIsRefreshed
  BY Zenon DEF L!Query, Own!Live!Query, L!vars, Own!Live!vars, L!server, Own!Live!server, L!None,
         Own!Live!None, L!Asked, Own!Live!Asked, L!Init, Own!Live!Init, L!Published, Own!Live!Published,
         L!Execute, Own!Live!Execute, L!Expire, Own!Live!Expire, L!Heartbeat, Own!Live!Heartbeat,
         L!OtherTab, Own!Live!OtherTab, L!Restart, Own!Live!Restart, L!Refetched, Own!Live!Refetched,
         L!Connect, Own!Live!Connect, L!CatchUp, Own!Live!CatchUp, L!Open, Own!Live!Open, L!Drop,
         Own!Live!Drop, L!Deliver, Own!Live!Deliver, L!Flush, Own!Live!Flush, L!RefreshChanges,
         Own!Live!RefreshChanges, L!Reconnect, Own!Live!Reconnect, L!CheckConnection,
         Own!Live!CheckConnection, L!SignIn, Own!Live!SignIn, L!Read, Own!Live!Read, L!Answer,
         Own!Live!Answer, L!Next, Own!Live!Next, L!RefreshIsDue, Own!Live!RefreshIsDue, L!StaleIsRefreshed,
         Own!Live!StaleIsRefreshed

\* What is proved of module LiveView holds of the part LiveView.
LEMMA LiveViewHolds ==
    MCSpec =>
       /\ [](part = "LiveView" => L!StaleIsRefreshed)
<1>1. Own!ViewBounds
  BY DEF Own!ViewBounds
<1>2. Own!Live!Spec => []Own!Live!StaleIsRefreshed
  BY <1>1, Own!StaleGetsRefreshed
<1>3. QED
  BY <1>2, LiveViewRuns, LiveViewSame, PTL
     DEF MCSpec, L!Spec, Own!Live!Spec

\* The theorems are about the instance of LogFiles that MCParts runs.
LEMMA LogFilesSame ==
    /\ K2!Init <=> Own!Logs!Init
    /\ [K2!Next]_(K2!vars) <=> [Own!Logs!Next]_(Own!Logs!vars)
    /\ K2!WithinTotal <=> Own!Logs!WithinTotal
    /\ K2!WrittenIsFound <=> Own!Logs!WrittenIsFound
    /\ K2!OneEntryPerLine <=> Own!Logs!OneEntryPerLine
  BY Zenon DEF K2!vars, Own!Logs!vars, K2!Off, Own!Logs!Off, K2!NoFile, Own!Logs!NoFile, K2!New,
         Own!Logs!New, K2!NoLine, Own!Logs!NoLine, K2!Names, Own!Logs!Names, K2!SizeOf, Own!Logs!SizeOf,
         K2!CapacityTarget, Own!Logs!CapacityTarget, K2!OpenOne, Own!Logs!OpenOne, K2!Removable,
         Own!Logs!Removable, K2!Free, Own!Logs!Free, K2!Put, Own!Logs!Put, K2!Dead, Own!Logs!Dead,
         K2!Listed, Own!Logs!Listed, K2!CleanOne, Own!Logs!CleanOne, K2!CleanEnds, Own!Logs!CleanEnds,
         K2!CleanFails, Own!Logs!CleanFails, K2!Start, Own!Logs!Start, K2!Idle, Own!Logs!Idle,
         K2!MustRotate, Own!Logs!MustRotate, K2!Target, Own!Logs!Target, K2!DiscardsRest,
         Own!Logs!DiscardsRest, K2!Consumed, Own!Logs!Consumed, K2!Chunk, Own!Logs!Chunk, K2!Write,
         Own!Logs!Write, K2!Maintain, Own!Logs!Maintain, K2!Close, Own!Logs!Close, K2!Die, Own!Logs!Die,
         K2!Day, Own!Logs!Day, K2!Export, Own!Logs!Export, K2!Delete, Own!Logs!Delete, K2!Init,
         Own!Logs!Init, K2!Next, Own!Logs!Next, K2!WithinTotal, Own!Logs!WithinTotal, K2!WrittenIsFound,
         Own!Logs!WrittenIsFound, K2!OneEntryPerLine, Own!Logs!OneEntryPerLine, K2!Cardinality,
         Own!Logs!Cardinality, K2!IsFiniteSet, Own!Logs!IsFiniteSet

\* What is proved of module LogFiles holds of the part LogFiles.
LEMMA LogFilesHolds ==
    MCSpec =>
       /\ [](part = "LogFiles" => K2!WithinTotal /\ K2!WrittenIsFound /\ K2!OneEntryPerLine)
<1>1. 1 \in Int /\ 4 \in Int
  OBVIOUS
<1>2. IsFiniteSet(1 .. 4) /\ Cardinality(1 .. 4) = IF 1 > 4 THEN 0 ELSE 4 - 1 + 1
  BY <1>1, FS_Interval, Zenon
<1>3. (IF 1 > 4 THEN 0 ELSE 4 - 1 + 1) = 4
  OBVIOUS
<1>4. Own!IsFiniteSet(1 .. 4) /\ Own!Cardinality(1 .. 4) = 4
  BY <1>2, <1>3 DEF IsFiniteSet, Own!IsFiniteSet, Cardinality, Own!Cardinality
<1>5. Own!LogBounds
  BY <1>4 DEF Own!LogBounds
<1>6. Own!Logs!Spec => [](Own!Logs!WithinTotal /\ Own!Logs!WrittenIsFound /\ Own!Logs!OneEntryPerLine)
  BY <1>1, <1>2, <1>3, <1>4, <1>5, Own!LogIsBounded
<1>7. QED
  BY <1>6, LogFilesRuns, LogFilesSame, PTL
     DEF MCSpec, K2!Spec, Own!Logs!Spec

\* The theorems are about the instance of AgentPolicy that MCParts runs.
LEMMA AgentPolicySame ==
    /\ B1!Init <=> Own!Pol!Init
    /\ [B1!Next]_(B1!vars) <=> [Own!Pol!Next]_(Own!Pol!vars)
    /\ B1!CoordinatorIsBlind <=> Own!Pol!CoordinatorIsBlind
    /\ B1!ToolsAreConsented <=> Own!Pol!ToolsAreConsented
    /\ B1!ReviewerIsIndependent <=> Own!Pol!ReviewerIsIndependent
    /\ B1!SessionIsFunded <=> Own!Pol!SessionIsFunded
  BY Zenon DEF B1!vars, Own!Pol!vars, B1!AgentProvider, Own!Pol!AgentProvider, B1!NoAdapter,
         Own!Pol!NoAdapter, B1!NoRun, Own!Pol!NoRun, B1!NoSession, Own!Pol!NoSession, B1!Granted,
         Own!Pol!Granted, B1!Least, Own!Pol!Least, B1!Manager, Own!Pol!Manager, B1!Allowed,
         Own!Pol!Allowed, B1!Ceiling, Own!Pol!Ceiling, B1!Capabilities, Own!Pol!Capabilities, B1!Access,
         Own!Pol!Access, B1!AgentCap, Own!Pol!AgentCap, B1!Override, Own!Pol!Override, B1!Avoided,
         Own!Pol!Avoided, B1!Eligible, Own!Pol!Eligible, B1!First, Own!Pol!First, B1!Resolved,
         Own!Pol!Resolved, B1!Unclaimed, Own!Pol!Unclaimed, B1!Schedule, Own!Pol!Schedule, B1!Atomic,
         Own!Pol!Atomic, B1!Assigned, Own!Pol!Assigned, B1!Remaining, Own!Pol!Remaining, B1!Pinned,
         Own!Pol!Pinned, B1!StartAgentRun, Own!Pol!StartAgentRun, B1!Ended, Own!Pol!Ended, B1!Working,
         Own!Pol!Working, B1!Refuse, Own!Pol!Refuse, B1!Snapshots, Own!Pol!Snapshots, B1!OpenSession,
         Own!Pol!OpenSession, B1!Throw, Own!Pol!Throw, B1!Withdraw, Own!Pol!Withdraw, B1!Exhausts,
         Own!Pol!Exhausts, B1!Follows, Own!Pol!Follows, B1!Reports, Own!Pol!Reports, B1!StageResult,
         Own!Pol!StageResult, B1!SessionEnds, Own!Pol!SessionEnds, B1!Restart, Own!Pol!Restart, B1!Requeue,
         Own!Pol!Requeue, B1!AgentLimit, Own!Pol!AgentLimit, B1!ApproveBudgetOverride,
         Own!Pol!ApproveBudgetOverride, B1!Changes, Own!Pol!Changes, B1!ChangePreference,
         Own!Pol!ChangePreference, B1!Refresh, Own!Pol!Refresh, B1!ChangeGrant, Own!Pol!ChangeGrant,
         B1!Init, Own!Pol!Init, B1!Next, Own!Pol!Next, B1!CoordinatorIsBlind, Own!Pol!CoordinatorIsBlind,
         B1!ToolsAreConsented, Own!Pol!ToolsAreConsented, B1!ReviewerIsIndependent,
         Own!Pol!ReviewerIsIndependent, B1!SessionIsFunded, Own!Pol!SessionIsFunded

\* What is proved of module AgentPolicy holds of the part AgentPolicy.
LEMMA AgentPolicyHolds ==
    MCSpec =>
       /\ [](part = "AgentPolicy" => B1!CoordinatorIsBlind /\ B1!ToolsAreConsented /\
               B1!ReviewerIsIndependent /\ B1!SessionIsFunded)
<1>1. Own!PolicyBounds
  BY DEF Own!PolicyBounds
<1>2. Own!Pol!Spec => []Own!Pol!CoordinatorIsBlind /\ []Own!Pol!ToolsAreConsented /\
          []Own!Pol!ReviewerIsIndependent /\ []Own!Pol!SessionIsFunded
  BY <1>1, Own!PolicyIsKept
<1>3. QED
  BY <1>2, AgentPolicyRuns, AgentPolicySame, PTL
     DEF MCSpec, B1!Spec, Own!Pol!Spec

----
(* The same with calls that name a file, and attempts that share a directory *)

Shared == INSTANCE SessionProofs WITH External <- {}, File <- B, Recipe <- {}, Session <- A,
       StoreFails <- TRUE, row <- v1, call <- v2, done <- v3, file <- v4, tree <- v5, session <- v6,
       lease <- v7, cancelled <- v8, grant <- v9, snapshot <- v10, refused <- v11, released <- v12,
       phase <- v13, Attempt <- A, Item <- A, ItemOf <- ItsOwn, Strategy <- {"SHARED"},
       spaceNobody <- "nobody", MaxFaults <- 1, repository <- v1, disk <- v2, spaceRow <- v3,
       attempt <- v4, loop <- v5, spacePhase <- v6, faults <- v7, MaxSessions <- 2, MaxStops <- 1,
       sessAttempt <- v1, run <- v2, sessSession <- v3, child <- v4, tools <- v5, behind <- v6,
       sessLoop <- v7, tally <- v8, revoked <- v1, start <- v2, procChild <- v3, pipe <- v4, held <- v5,
       read <- v6, procRun <- v7, abort <- v8, Server <- {"server"}, mcpMaxFaults <- 4, mcpDaemon <- v1,
       server <- v2, mcpFaults <- v3, Process <- A, dataNobody <- "nobody", Builds <- {1, 2}, Newest <- 2,
       lock <- v1, process <- v2, store <- v3, backups <- v4, dataFaults <- v5, Tab <- A, Tool <- B,
       MaxRevisions <- 2, MaxVersion <- 3, MaxProbes <- 1, version <- v1, revision <- v2, capability <- v3,
       profGrant <- v4, probe <- v5, probes <- v6, bundle <- v7, tab <- v8, proposal <- v9, polTool <- A,
       InitialMax <- 2, MaxTokens <- 3, MaxReport <- 2, MaxChanges <- 1, ManagerCap <- 1, ProfileCap <- 2,
       squad <- v1, environment <- v2, ready <- v3, preference <- v4, polGrant <- v5, polAttempt <- v6,
       adapter <- v7, policy <- v8, used <- v9, polRun <- v10, author <- v11, polSession <- v12,
       changes <- v13, Action <- A, QueueLimit <- 2, TableLimit <- 1, CrashAfterFinish <- FALSE,
       agentRun <- v1, table <- v2, counters <- v3, feed <- v4, queue <- v5, draining <- v12, timer <- v6,
       live <- v7, accepted <- v8, logged <- v9, expired <- v10, recPhase <- v11, PageSize <- 1,
       MaxId <- 3, MaxTime <- 1, now <- v1, feedHeld <- v2, added <- v3, reader <- v4, MaxSequence <- 2,
       MaxStreams <- 1, committed <- v1, published <- v2, liveSession <- v3, others <- v4, stream <- v5,
       frame <- v6, liveTab <- v7, fetch <- v8, view <- v9, failed <- v10, logsFile <- 1..4, NoName <- 0,
       SegmentLimit <- 2, TotalLimit <- 4, MaxOwned <- 3, Rotation <- 1, Retention <- 2, segment <- v1,
       writer <- v2, line <- v3, answer <- v4

\* The theorems are about the instance of ToolCalls that MCParts runs.
LEMMA FileCallsSame ==
    /\ W!Init <=> Shared!Init
    /\ [W!Next]_(W!vars) <=> [Shared!Next]_(Shared!vars)
    /\ W!CallsStayInTheirSession <=> Shared!CallsStayInTheirSession
    /\ [W!Calls]_(W!vars) <=> [Shared!Calls]_(Shared!vars)
    /\ W!Promise!Init <=> Shared!Promise!Init
  BY Zenon DEF W!Direct, Shared!Direct, W!Call, Shared!Call, W!Nobody, Shared!Nobody, W!handlers,
         Shared!handlers, W!sessions, Shared!sessions, W!daemon, Shared!daemon, W!vars, Shared!vars,
         W!Idle, Shared!Idle, W!Init, Shared!Init, W!InFlight, Shared!InFlight, W!Over, Shared!Over,
         W!Inside, Shared!Inside, W!Admitted, Shared!Admitted, W!Startable, Shared!Startable, W!Request,
         Shared!Request, W!Answer, Shared!Answer, W!Aborted, Shared!Aborted, W!Deny, Shared!Deny,
         W!Prepare, Shared!Prepare, W!GiveUp, Shared!GiveUp, W!Replace, Shared!Replace, W!Spawn,
         Shared!Spawn, W!RecipeEnds, Shared!RecipeEnds, W!ServerAnswers, Shared!ServerAnswers, W!Verdicts,
         Shared!Verdicts, W!Finish, Shared!Finish, W!Begin, Shared!Begin, W!Open, Shared!Open,
         W!ProviderEnds, Shared!ProviderEnds, W!Settled, Shared!Settled, W!Drain, Shared!Drain, W!Ends,
         Shared!Ends, W!SessionEnds, Shared!SessionEnds, W!Cancel, Shared!Cancel, W!CancelEnds,
         Shared!CancelEnds, W!Narrow, Shared!Narrow, W!Revoke, Shared!Revoke, W!Crash, Shared!Crash,
         W!Start, Shared!Start, W!Interrupted, Shared!Interrupted, W!Release, Shared!Release, W!Verdict,
         Shared!Verdict, W!Unproven, Shared!Unproven, W!Reconcile, Shared!Reconcile, W!ServerActs,
         Shared!ServerActs, W!TreeEnds, Shared!TreeEnds, W!HandlerStep, Shared!HandlerStep, W!Next,
         Shared!Next, W!ClaimOf, Shared!ClaimOf, W!Calls, Shared!Calls, W!CallsStayInTheirSession,
         Shared!CallsStayInTheirSession, W!Promise!vars, Shared!Promise!vars, W!Promise!Claim,
         Shared!Promise!Claim, W!Promise!Init, Shared!Promise!Init, W!Promise!TakeClaims,
         Shared!Promise!TakeClaims, W!Promise!Happen, Shared!Promise!Happen, W!Promise!Entitled,
         Shared!Promise!Entitled, W!Promise!Settle, Shared!Promise!Settle, W!Promise!Next,
         Shared!Promise!Next

\* What is proved of module ToolCalls holds of the part FileCalls.
LEMMA FileCallsHolds ==
    MCSpec =>
       /\ [](part = "FileCalls" => W!CallsStayInTheirSession)
       /\ [][part = "FileCalls" => W!Calls]_all
       /\ (part = "FileCalls" => W!Promise!Init)
<1>1. Shared!KindsDiffer
  BY DEF Shared!KindsDiffer, Shared!Direct
<1>2. Shared!Spec => []Shared!CallsStayInTheirSession
  BY <1>1, Shared!CallsStay
<1>3. Shared!Spec => Shared!CalledAtMostOnce
  BY <1>1, Shared!CallIsOnce
<1>4. part = "FileCalls" /\ [MCNext]_all /\ [W!Calls]_(W!vars) => [W!Calls]_all
  BY DEF MCNext, all, shared, W!handlers, W!sessions, W!daemon, W!vars
<1>5. QED
  BY <1>2, <1>3, <1>4, FileCallsRuns, FileCallsSame, PTL
     DEF MCSpec, W!Spec, Shared!Spec, Shared!CalledAtMostOnce, Shared!Promise!Spec, Shared!Calls

\* The theorems are about the instance of Workspace that MCParts runs.
LEMMA SharedDirectorySame ==
    /\ G2!Init <=> Shared!Space!Init
    /\ [G2!Next]_(G2!vars) <=> [Shared!Space!Next]_(Shared!Space!vars)
    /\ G2!WriterIsAlone <=> Shared!Space!WriterIsAlone
    /\ G2!LeaseIsWorked <=> Shared!Space!LeaseIsWorked
  BY Zenon DEF G2!vars, Shared!Space!vars, G2!NoRow, Shared!Space!NoRow, G2!Clear, Shared!Space!Clear,
         G2!Idle, Shared!Space!Idle, G2!SharedAuthorityHeld, Shared!Space!SharedAuthorityHeld,
         G2!Claimable, Shared!Space!Claimable, G2!Claimed, Shared!Space!Claimed, G2!Released,
         Shared!Space!Released, G2!Executable, Shared!Space!Executable, G2!NeedsLease,
         Shared!Space!NeedsLease, G2!Goes, Shared!Space!Goes, G2!Leaves, Shared!Space!Leaves, G2!Finish,
         Shared!Space!Finish, G2!Enters, Shared!Space!Enters, G2!StartAgentRun, Shared!Space!StartAgentRun,
         G2!TakeUp, Shared!Space!TakeUp, G2!Refuse, Shared!Space!Refuse, G2!Proceed, Shared!Space!Proceed,
         G2!Lease, Shared!Space!Lease, G2!CheckWorkspace, Shared!Space!CheckWorkspace, G2!Inspect,
         Shared!Space!Inspect, G2!Created, Shared!Space!Created, G2!Snapshot, Shared!Space!Snapshot,
         G2!Add, Shared!Space!Add, G2!Record, Shared!Space!Record, G2!Remove, Shared!Space!Remove,
         G2!RemoveFails, Shared!Space!RemoveFails, G2!DeleteBranch, Shared!Space!DeleteBranch,
         G2!EndSession, Shared!Space!EndSession, G2!Unwind, Shared!Space!Unwind, G2!Revoke,
         Shared!Space!Revoke, G2!Queue, Shared!Space!Queue, G2!Verify, Shared!Space!Verify,
         G2!OwnerChangesRepository, Shared!Space!OwnerChangesRepository, G2!OwnerMeddles,
         Shared!Space!OwnerMeddles, G2!Crash, Shared!Space!Crash, G2!Gone, Shared!Space!Gone,
         G2!Reconciled, Shared!Space!Reconciled, G2!Restart, Shared!Space!Restart, G2!Init,
         Shared!Space!Init, G2!Prepare, Shared!Space!Prepare, G2!Rollback, Shared!Space!Rollback, G2!Next,
         Shared!Space!Next, G2!Directory, Shared!Space!Directory, G2!HasDirectory,
         Shared!Space!HasDirectory, G2!VerifiedIn, Shared!Space!VerifiedIn, G2!WriterIsAlone,
         Shared!Space!WriterIsAlone, G2!LeaseIsWorked, Shared!Space!LeaseIsWorked

\* What is proved of module Workspace holds of the part SharedDirectory.
LEMMA SharedDirectoryHolds ==
    ASSUME "nobody" \notin A
    PROVE  MCSpec =>
           /\ [](part = "SharedDirectory" => G2!WriterIsAlone /\ G2!LeaseIsWorked)
<1>1. Shared!SpaceConstants
  BY DEF Shared!SpaceConstants, ItsOwn
<1>2. Shared!Space!Spec => []Shared!Space!WriterIsAlone
  BY <1>1, Shared!WriterIsAlone
<1>3. Shared!Space!Spec => [](Shared!Space!LeaseIsWorked /\ Shared!Space!CutIsRecorded)
  BY <1>1, Shared!LeasesAreWorked
<1>4. QED
  BY <1>2, <1>3, SharedDirectoryRuns, SharedDirectorySame, PTL
     DEF MCSpec, G2!Spec, Shared!Space!Spec

----
(* What a Project orders, delivers and releases *)

Proj == INSTANCE ProjectProofs WITH Deployment <- A, Commit <- B, Observer <- C, MaxRuns <- 2,
       MaxVersion <- 5, StoreFails <- TRUE, row <- v1, task <- v2, asked <- v3, gh <- v4, remote <- v5,
       phase <- v6, Item <- A \cup {"third"}, NoItem <- "none", item <- v1, blocks <- v2, Tab <- A,
       MaxBuilds <- 2, MaxFaults <- 2, target <- v1, staging <- v2, old <- v3, path <- v4, cut <- v5,
       tasks <- v6, receipt <- v7, request <- v8, shown <- v9, faults <- v10, Run <- A, Tree <- B,
       MaxRevision <- 2, MaxBlocked <- 1, plan <- v1, run <- v2, measTask <- v3, asking <- v4,
       service <- v5, record <- v6, tree <- v7, ended <- v8, blocked <- v9, measPhase <- v10,
       MaxEvidence <- 4, relTree <- v1, head <- v2, environment <- v3, verification <- v4,
       measurement <- v5, readiness <- v6, measured <- v7, package <- v8, relRequest <- v9, release <- v10,
       File <- B, MaxTree <- 2, agent <- v1, evidRow <- v2, runner <- v3, dir <- v4, evidTree <- v5,
       closed <- v6, retained <- v7, unlinked <- v8, lost <- v9, evidPhase <- v10, Criterion <- A,
       MaxCycles <- 2, evidence <- v3, pack <- v4, accPackage <- v5, asks <- v6, Key <- B, active <- v1,
       runs <- v2, scans <- v3, views <- v4, readyAsks <- v5, Drainer <- A, filesMaxVersion <- 1,
       kind <- v1, revision <- v2, preview <- v3, drain <- v4, disk <- v5, held <- v6, filesPhase <- v7,
       Operation <- A, scafFile <- {"file"}, scafMaxVersion <- 1, operation <- v1, scafTarget <- v2,
       meddled <- v3, publisher <- v4, scafPhase <- v5, Projects <- A, MaxReads <- 2, MaxTime <- 2,
       Ttl <- 1, time <- v1, reads <- v2, tracked <- v3, rows <- v5, answers <- v6, late <- v7,
       MaxStarts <- 2, Life <- 4, daemon <- v1, session <- v2, cookie <- v3, tab <- v4, idle <- v5,
       unsaid <- v6

\* The theorems are about the instance of WorkItems that MCParts runs.
LEMMA WorkItemsSame ==
    /\ I!Init <=> Proj!Board!Init
    /\ [I!Next]_(I!vars) <=> [Proj!Board!Next]_(Proj!Board!vars)
    /\ I!NothingWaitsInACircle <=> Proj!Board!NothingWaitsInACircle
    /\ I!DeliveredRestsOnDelivered <=> Proj!Board!DeliveredRestsOnDelivered
    /\ I!OfferedIsAccepted <=> Proj!Board!OfferedIsAccepted
  BY Zenon DEF I!vars, Proj!Board!vars, I!State, Proj!Board!State, I!Absent, Proj!Board!Absent, I!Exists,
         Proj!Board!Exists, I!Active, Proj!Board!Active, I!Children, Proj!Board!Children, I!Blockers,
         Proj!Board!Blockers, I!Unsatisfied, Proj!Board!Unsatisfied, I!Init, Proj!Board!Init, I!Persist,
         Proj!Board!Persist, I!CreateWorkItem, Proj!Board!CreateWorkItem, I!allowedTransitions,
         Proj!Board!allowedTransitions, I!Movable, Proj!Board!Movable, I!MayMove, Proj!Board!MayMove,
         I!MoveWorkItem, Proj!Board!MoveWorkItem, I!HasCycle, Proj!Board!HasCycle, I!Replaced,
         Proj!Board!Replaced, I!Settable, Proj!Board!Settable, I!SetWorkItemDependencies,
         Proj!Board!SetWorkItemDependencies, I!Startable, Proj!Board!Startable, I!StartPipeline,
         Proj!Board!StartPipeline, I!Waits, Proj!Board!Waits, I!GoesOn, Proj!Board!GoesOn, I!Ends,
         Proj!Board!Ends, I!Next, Proj!Board!Next, I!NothingWaitsInACircle,
         Proj!Board!NothingWaitsInACircle, I!DeliveredRestsOnDelivered,
         Proj!Board!DeliveredRestsOnDelivered, I!ViewOf, Proj!Board!ViewOf, I!StartOffered,
         Proj!Board!StartOffered, I!transitionTargets, Proj!Board!transitionTargets, I!MovesOffered,
         Proj!Board!MovesOffered, I!EditOffered, Proj!Board!EditOffered, I!OfferedIsAccepted,
         Proj!Board!OfferedIsAccepted

\* What is proved of module WorkItems holds of the part WorkItems.
LEMMA WorkItemsHolds ==
    ASSUME IsFiniteSet(A)
    PROVE  MCSpec =>
           /\ [](part = "WorkItems" => I!NothingWaitsInACircle /\ I!DeliveredRestsOnDelivered /\
                   I!OfferedIsAccepted)
<1>1. IsFiniteSet(A \cup {"third"})
  BY FS_AddElement
<1>2. Proj!IsFiniteSet(A \cup {"third"})
  BY <1>1 DEF IsFiniteSet, Proj!IsFiniteSet
<1>3. Proj!Board!Spec => []Proj!Board!NothingWaitsInACircle
  BY <1>1, <1>2, Proj!NothingWaits
<1>4. Proj!Board!Spec => []Proj!Board!DeliveredRestsOnDelivered
  BY <1>1, <1>2, Proj!DeliveredStays
<1>5. Proj!Board!Spec => []Proj!Board!OfferedIsAccepted
  BY <1>1, <1>2, Proj!OffersHold
<1>6. QED
  BY <1>3, <1>4, <1>5, WorkItemsRuns, WorkItemsSame, PTL
     DEF MCSpec, I!Spec, Proj!Board!Spec

\* The theorems are about the instance of DemoProject that MCParts runs.
LEMMA DemoProjectSame ==
    /\ E!Init <=> Proj!Demo!Init
    /\ [E!Next]_(E!vars) <=> [Proj!Demo!Next]_(Proj!Demo!vars)
    /\ E!OneTask <=> Proj!Demo!OneTask
    /\ E!FoundIsWhole <=> Proj!Demo!FoundIsWhole
    /\ [E!WorkStaysInPlace]_(E!vars) <=> [Proj!Demo!WorkStaysInPlace]_(Proj!Demo!vars)
  BY Zenon DEF E!vars, Proj!Demo!vars, E!Builds, Proj!Demo!Builds, E!Tasks, Proj!Demo!Tasks, E!Idle,
         Proj!Demo!Idle, E!Init, Proj!Demo!Init, E!Ask, Proj!Demo!Ask, E!Usable, Proj!Demo!Usable,
         E!Register, Proj!Demo!Register, E!Adopted, Proj!Demo!Adopted, E!Swept, Proj!Demo!Swept, E!Left,
         Proj!Demo!Left, E!Look, Proj!Demo!Look, E!Commit, Proj!Demo!Commit, E!MayPlace,
         Proj!Demo!MayPlace, E!Place, Proj!Demo!Place, E!GiveUp, Proj!Demo!GiveUp, E!Repoints,
         Proj!Demo!Repoints, E!Record, Proj!Demo!Record, E!Candidates, Proj!Demo!Candidates, E!Load,
         Proj!Demo!Load, E!Create, Proj!Demo!Create, E!Replayed, Proj!Demo!Replayed, E!Execute,
         Proj!Demo!Execute, E!Cut, Proj!Demo!Cut, E!Cancel, Proj!Demo!Cancel, E!Meddle, Proj!Demo!Meddle,
         E!Crash, Proj!Demo!Crash, E!Age, Proj!Demo!Age, E!Next, Proj!Demo!Next, E!FoundIsWhole,
         Proj!Demo!FoundIsWhole, E!WorkStaysInPlace, Proj!Demo!WorkStaysInPlace, E!OneTask,
         Proj!Demo!OneTask, E!Cardinality, Proj!Demo!Cardinality, E!IsFiniteSet, Proj!Demo!IsFiniteSet

\* What is proved of module DemoProject holds of the part DemoProject.
LEMMA DemoProjectHolds ==
    ASSUME IsFiniteSet(A)
    PROVE  MCSpec =>
           /\ [](part = "DemoProject" => E!OneTask /\ E!FoundIsWhole)
           /\ [][part = "DemoProject" => E!WorkStaysInPlace]_all
<1>1. Proj!IsFiniteSet(A)
  BY DEF IsFiniteSet, Proj!IsFiniteSet
<1>2. Proj!Demo!Spec => []Proj!Demo!OneTask
  BY <1>1, Proj!TaskIsOne
<1>3. Proj!Demo!Spec => []Proj!Demo!FoundIsWhole
  BY <1>1, Proj!FoundWhole
<1>4. Proj!Demo!Spec => [][Proj!Demo!WorkStaysInPlace]_(Proj!Demo!vars)
  BY <1>1, Proj!WorkStays
<1>5. part = "DemoProject" /\ [MCNext]_all /\ [E!WorkStaysInPlace]_(E!vars) => [E!WorkStaysInPlace]_all
  BY DEF MCNext, all, shared, E!vars
<1>6. QED
  BY <1>2, <1>3, <1>4, <1>5, DemoProjectRuns, DemoProjectSame, PTL
     DEF MCSpec, E!Spec, Proj!Demo!Spec

\* The theorems are about the instance of Deployment that MCParts runs.
LEMMA DeploymentSame ==
    /\ D!Init <=> Proj!Init
    /\ [D!Next]_(D!vars) <=> [Proj!Next]_(Proj!vars)
    /\ D!SucceededAsApproved <=> Proj!SucceededAsApproved
    /\ [D!Dispatches]_(D!vars) <=> [Proj!Dispatches]_(Proj!vars)
    /\ [D!Stands]_(D!vars) <=> [Proj!Stands]_(Proj!vars)
    /\ D!Promise!Init <=> Proj!Promise!Init
  BY Zenon DEF D!vars, Proj!vars, D!Kind, Proj!Kind, D!NoRun, Proj!NoRun, D!NoRow, Proj!NoRow, D!Idle,
         Proj!Idle, D!Nobody, Proj!Nobody, D!Init, Proj!Init, D!Put, Proj!Put, D!Promoted, Proj!Promoted,
         D!Previewable, Proj!Previewable, D!Adopted, Proj!Adopted, D!Adopt, Proj!Adopt, D!Approvable,
         Proj!Approvable, D!Approve, Proj!Approve, D!Startable, Proj!Startable, D!Wake, Proj!Wake,
         D!Answer, Proj!Answer, D!Refuse, Proj!Refuse, D!Dispatch, Proj!Dispatch, D!RunOf, Proj!RunOf,
         D!Exit, Proj!Exit, D!GiveUp, Proj!GiveUp, D!Current, Proj!Current, D!DispatchVerdict,
         Proj!DispatchVerdict, D!Record, Proj!Record, D!Observable, Proj!Observable, D!Seen, Proj!Seen,
         D!Observe, Proj!Observe, D!StillAsked, Proj!StillAsked, D!RecordObservation,
         Proj!RecordObservation, D!Crash, Proj!Crash, D!Start, Proj!Start, D!Reconciled, Proj!Reconciled,
         D!Interrupted, Proj!Interrupted, D!Reconcile, Proj!Reconcile, D!Listen, Proj!Listen, D!Accept,
         Proj!Accept, D!RemoteEnds, Proj!RemoteEnds, D!RunnerStep, Proj!RunnerStep, D!Next, Proj!Next,
         D!ClaimOf, Proj!ClaimOf, D!Times, Proj!Times, D!Dispatches, Proj!Dispatches,
         D!SucceededAsApproved, Proj!SucceededAsApproved, D!Stands, Proj!Stands, D!Cardinality,
         Proj!Cardinality, D!IsFiniteSet, Proj!IsFiniteSet, D!Promise!vars, Proj!Promise!vars,
         D!Promise!Claim, Proj!Promise!Claim, D!Promise!Init, Proj!Promise!Init, D!Promise!TakeClaims,
         Proj!Promise!TakeClaims, D!Promise!Happen, Proj!Promise!Happen, D!Promise!Entitled,
         Proj!Promise!Entitled, D!Promise!Settle, Proj!Promise!Settle, D!Promise!Next, Proj!Promise!Next

\* What is proved of module Deployment holds of the part Deployment.
LEMMA DeploymentHolds ==
    MCSpec =>
       /\ [](part = "Deployment" => D!SucceededAsApproved)
       /\ [][part = "Deployment" => D!Dispatches /\ D!Stands]_all
       /\ (part = "Deployment" => D!Promise!Init)
<1>1. Proj!Spec => []Proj!SucceededAsApproved
  BY Proj!SucceededRan
<1>2. Proj!Spec => Proj!ConclusionStands
  BY Proj!Concluded
<1>3. Proj!Spec => Proj!DispatchedAtMostOnce
  BY Proj!DispatchIsOnce
<1>4. part = "Deployment" /\ [MCNext]_all /\ [D!Dispatches]_(D!vars) /\ [D!Stands]_(D!vars) => [D!Dispatches /\ D!Stands]_all
  BY DEF MCNext, all, shared, D!vars
<1>5. QED
  BY <1>1, <1>2, <1>3, <1>4, DeploymentRuns, DeploymentSame, PTL
     DEF MCSpec, D!Spec, Proj!Spec, Proj!ConclusionStands, Proj!DispatchedAtMostOnce, Proj!Promise!Spec,
         Proj!Dispatches

\* The theorems are about the instance of LaunchMeasurement that MCParts runs.
LEMMA LaunchMeasurementSame ==
    /\ M!Init <=> Proj!Meas!Init
    /\ [M!Next]_(M!vars) <=> [Proj!Meas!Next]_(Proj!Meas!vars)
    /\ M!LiveServiceIsHeld <=> Proj!Meas!LiveServiceIsHeld
    /\ M!CancelledIsNotMeasured <=> Proj!Meas!CancelledIsNotMeasured
  BY Zenon DEF M!vars, Proj!Meas!vars, M!Active, Proj!Meas!Active, M!NoRow, Proj!Meas!NoRow, M!NoTask,
         Proj!Meas!NoTask, M!Init, Proj!Meas!Init, M!AdoptPlan, Proj!Meas!AdoptPlan, M!DisablePlan,
         Proj!Meas!DisablePlan, M!Reservable, Proj!Meas!Reservable, M!Reserve, Proj!Meas!Reserve,
         M!Interrupted, Proj!Meas!Interrupted, M!StillRunning, Proj!Meas!StillRunning, M!Concluded,
         Proj!Meas!Concluded, M!Begin, Proj!Meas!Begin, M!StartService, Proj!Meas!StartService, M!Stop,
         Proj!Meas!Stop, M!Health, Proj!Meas!Health, M!Measure, Proj!Meas!Measure, M!Stopped,
         Proj!Meas!Stopped, M!Leave, Proj!Meas!Leave, M!Cancel, Proj!Meas!Cancel, M!Proved,
         Proj!Meas!Proved, M!CancelRecovered, Proj!Meas!CancelRecovered, M!RecoverRun,
         Proj!Meas!RecoverRun, M!RecoverBlocked, Proj!Meas!RecoverBlocked, M!Listen, Proj!Meas!Listen,
         M!Shutdown, Proj!Meas!Shutdown, M!Die, Proj!Meas!Die, M!Start, Proj!Meas!Start, M!ServiceEnds,
         Proj!Meas!ServiceEnds, M!Edit, Proj!Meas!Edit, M!Next, Proj!Meas!Next, M!LiveServiceIsHeld,
         Proj!Meas!LiveServiceIsHeld, M!CancelledIsNotMeasured, Proj!Meas!CancelledIsNotMeasured

\* What is proved of module LaunchMeasurement holds of the part LaunchMeasurement.
LEMMA LaunchMeasurementHolds ==
    MCSpec =>
       /\ [](part = "LaunchMeasurement" => M!LiveServiceIsHeld /\ M!CancelledIsNotMeasured)
<1>1. Proj!Meas!Spec => []Proj!Meas!LiveServiceIsHeld
  BY Proj!LiveIsHeld
<1>2. Proj!Meas!Spec => []Proj!Meas!CancelledIsNotMeasured
  BY Proj!CancelledIsNot
<1>3. QED
  BY <1>1, <1>2, LaunchMeasurementRuns, LaunchMeasurementSame, PTL
     DEF MCSpec, M!Spec, Proj!Meas!Spec

\* The theorems are about the instance of LaunchRelease that MCParts runs.
LEMMA LaunchReleaseSame ==
    /\ R!Init <=> Proj!Rel!Init
    /\ [R!Next]_(R!vars) <=> [Proj!Rel!Next]_(Proj!Rel!vars)
    /\ R!DeployableIsEvidenced <=> Proj!Rel!DeployableIsEvidenced
  BY Zenon DEF R!vars, Proj!Rel!vars, R!evidence, Proj!Rel!evidence, R!None, Proj!Rel!None, R!Key,
         Proj!Rel!Key, R!ProjectVersion, Proj!Rel!ProjectVersion, R!LastEvidence, Proj!Rel!LastEvidence,
         R!Init, Proj!Rel!Init, R!MeasuredUnderPlan, Proj!Rel!MeasuredUnderPlan, R!VerifiedUnderPlan,
         Proj!Rel!VerifiedUnderPlan, R!ReadinessGate, Proj!Rel!ReadinessGate, R!MeasuredGate,
         Proj!Rel!MeasuredGate, R!Aggregated, Proj!Rel!Aggregated, R!GateOf, Proj!Rel!GateOf,
         R!SameReadiness, Proj!Rel!SameReadiness, R!SameMeasured, Proj!Rel!SameMeasured, R!SamePackage,
         Proj!Rel!SamePackage, R!Current, Proj!Rel!Current, R!Deployable, Proj!Rel!Deployable,
         R!ChangeEnvironment, Proj!Rel!ChangeEnvironment, R!DecideVerification,
         Proj!Rel!DecideVerification, R!DecideMeasurement, Proj!Rel!DecideMeasurement, R!Edit,
         Proj!Rel!Edit, R!Commit, Proj!Rel!Commit, R!New, Proj!Rel!New, R!AssessReadiness,
         Proj!Rel!AssessReadiness, R!BeginMeasurement, Proj!Rel!BeginMeasurement, R!EndMeasurement,
         Proj!Rel!EndMeasurement, R!PreparePackage, Proj!Rel!PreparePackage, R!ResolvePackage,
         Proj!Rel!ResolvePackage, R!ReadSource, Proj!Rel!ReadSource, R!Snapshot, Proj!Rel!Snapshot,
         R!Create, Proj!Rel!Create, R!Next, Proj!Rel!Next, R!DeployableIsEvidenced,
         Proj!Rel!DeployableIsEvidenced

\* What is proved of module LaunchRelease holds of the part LaunchRelease.
LEMMA LaunchReleaseHolds ==
    MCSpec =>
       /\ [](part = "LaunchRelease" => R!DeployableIsEvidenced)
<1>1. Proj!ReleaseBounds
  BY DEF Proj!ReleaseBounds
<1>2. Proj!Rel!Spec => []Proj!Rel!DeployableIsEvidenced
  BY <1>1, Proj!DeployableIsEvidenced
<1>3. QED
  BY <1>2, LaunchReleaseRuns, LaunchReleaseSame, PTL
     DEF MCSpec, R!Spec, Proj!Rel!Spec

\* The theorems are about the instance of BrowserQA that MCParts runs.
LEMMA BrowserQASame ==
    /\ Q!Init <=> Proj!Evid!Init
    /\ [Q!Next]_(Q!vars) <=> [Proj!Evid!Next]_(Proj!Evid!vars)
    /\ Q!EvidenceIsKept <=> Proj!Evid!EvidenceIsKept
    /\ Q!ConfirmedIsRecorded <=> Proj!Evid!ConfirmedIsRecorded
    /\ Q!RetainedIsGone <=> Proj!Evid!RetainedIsGone
  BY Zenon DEF Q!vars, Proj!Evid!vars, Q!database, Proj!Evid!database, Q!Ended, Proj!Evid!Ended,
         Q!NoDirectory, Proj!Evid!NoDirectory, Q!Idle, Proj!Evid!Idle, Q!Init, Proj!Evid!Init, Q!Resting,
         Proj!Evid!Resting, Q!Claim, Proj!Evid!Claim, Q!EndAgentRun, Proj!Evid!EndAgentRun, Q!Fix,
         Proj!Evid!Fix, Q!Close, Proj!Evid!Close, Q!Lose, Proj!Evid!Lose, Q!Reusable, Proj!Evid!Reusable,
         Q!Reserve, Proj!Evid!Reserve, Q!Drive, Proj!Evid!Drive, Q!DriverFails, Proj!Evid!DriverFails,
         Q!Moved, Proj!Evid!Moved, Q!Finalize, Proj!Evid!Finalize, Q!FinalizeFails,
         Proj!Evid!FinalizeFails, Q!Completable, Proj!Evid!Completable, Q!Complete, Proj!Evid!Complete,
         Q!Confirm, Proj!Evid!Confirm, Q!Crash, Proj!Evid!Crash, Q!Start, Proj!Evid!Start, Q!Committed,
         Proj!Evid!Committed, Q!Matches, Proj!Evid!Matches, Q!Recover, Proj!Evid!Recover, Q!Expired,
         Proj!Evid!Expired, Q!Pending, Proj!Evid!Pending, Q!Present, Proj!Evid!Present, Q!Unlink,
         Proj!Evid!Unlink, Q!RecordRetention, Proj!Evid!RecordRetention, Q!CleanUp, Proj!Evid!CleanUp,
         Q!Listen, Proj!Evid!Listen, Q!Next, Proj!Evid!Next, Q!Opens, Proj!Evid!Opens, Q!EvidenceIsKept,
         Proj!Evid!EvidenceIsKept, Q!ConfirmedIsRecorded, Proj!Evid!ConfirmedIsRecorded, Q!RetainedIsGone,
         Proj!Evid!RetainedIsGone

\* What is proved of module BrowserQA holds of the part BrowserQA.
LEMMA BrowserQAHolds ==
    MCSpec =>
       /\ [](part = "BrowserQA" => Q!EvidenceIsKept /\ Q!ConfirmedIsRecorded /\ Q!RetainedIsGone)
<1>1. 2 \in Nat \ {0}
  OBVIOUS
<1>2. Proj!Evid!Spec => []Proj!Evid!EvidenceIsKept /\ []Proj!Evid!ConfirmedIsRecorded /\
          []Proj!Evid!RetainedIsGone
  BY <1>1, Proj!EvidenceKept
<1>3. QED
  BY <1>2, BrowserQARuns, BrowserQASame, PTL
     DEF MCSpec, Q!Spec, Proj!Evid!Spec

\* The theorems are about the instance of Acceptance that MCParts runs.
LEMMA AcceptanceSame ==
    /\ X!Init <=> Proj!Acc!Init
    /\ [X!Next]_(X!vars) <=> [Proj!Acc!Next]_(Proj!Acc!vars)
    /\ X!PendingIsExported <=> Proj!Acc!PendingIsExported
    /\ X!ShownIsBound <=> Proj!Acc!ShownIsBound
    /\ [X!AnswerIsForItsPackage]_(X!vars) <=> [Proj!Acc!AnswerIsForItsPackage]_(Proj!Acc!vars)
  BY Zenon DEF X!vars, Proj!Acc!vars, X!Lists, Proj!Acc!Lists, X!NoneYet, Proj!Acc!NoneYet, X!NoPack,
         Proj!Acc!NoPack, X!NoPackage, Proj!Acc!NoPackage, X!Init, Proj!Acc!Init, X!Active,
         Proj!Acc!Active, X!At, Proj!Acc!At, X!CriteriaAreFree, Proj!Acc!CriteriaAreFree, X!EditCriteria,
         Proj!Acc!EditCriteria, X!Reopen, Proj!Acc!Reopen, X!Start, Proj!Acc!Start, X!Cycles,
         Proj!Acc!Cycles, X!Implement, Proj!Acc!Implement, X!Recorded, Proj!Acc!Recorded, X!Pass,
         Proj!Acc!Pass, X!PassReview, Proj!Acc!PassReview, X!PassQA, Proj!Acc!PassQA, X!Correct,
         Proj!Acc!Correct, X!Find, Proj!Acc!Find, X!ShownQA, Proj!Acc!ShownQA, X!ShownReview,
         Proj!Acc!ShownReview, X!ShowEvidence, Proj!Acc!ShowEvidence, X!ReviewOf, Proj!Acc!ReviewOf,
         X!Unique, Proj!Acc!Unique, X!Bound, Proj!Acc!Bound, X!Claim, Proj!Acc!Claim, X!Honest,
         Proj!Acc!Honest, X!Prepare, Proj!Acc!Prepare, X!Reject, Proj!Acc!Reject, X!Resume,
         Proj!Acc!Resume, X!Cancel, Proj!Acc!Cancel, X!Ask, Proj!Acc!Ask, X!Resolution,
         Proj!Acc!Resolution, X!Awaits, Proj!Acc!Awaits, X!Resolve, Proj!Acc!Resolve, X!RefuseAnswer,
         Proj!Acc!RefuseAnswer, X!RowsAreCurrent, Proj!Acc!RowsAreCurrent, X!EvidenceResolves,
         Proj!Acc!EvidenceResolves, X!Exported, Proj!Acc!Exported, X!Next, Proj!Acc!Next,
         X!PendingIsExported, Proj!Acc!PendingIsExported, X!ShownIsBound, Proj!Acc!ShownIsBound,
         X!AnswerIsForItsPackage, Proj!Acc!AnswerIsForItsPackage, X!Cardinality, Proj!Acc!Cardinality,
         X!IsFiniteSet, Proj!Acc!IsFiniteSet, X!Last, Proj!Acc!Last, X!ToSet, Proj!Acc!ToSet

\* What is proved of module Acceptance holds of the part Acceptance.
LEMMA AcceptanceHolds ==
    MCSpec =>
       /\ [](part = "Acceptance" => X!PendingIsExported /\ X!ShownIsBound)
       /\ [][part = "Acceptance" => X!AnswerIsForItsPackage]_all
<1>1. Proj!AcceptanceBounds
  BY DEF Proj!AcceptanceBounds
<1>2. Proj!Acc!Spec => []Proj!Acc!PendingIsExported /\ []Proj!Acc!ShownIsBound
  BY <1>1, Proj!AcceptanceHolds
<1>3. Proj!Acc!Spec => [][Proj!Acc!AnswerIsForItsPackage]_(Proj!Acc!vars)
  BY <1>1, Proj!AnswersAreKept
<1>4. part = "Acceptance" /\ [MCNext]_all /\ [X!AnswerIsForItsPackage]_(X!vars) => [X!AnswerIsForItsPackage]_all
  BY DEF MCNext, all, shared, X!vars
<1>5. QED
  BY <1>2, <1>3, <1>4, AcceptanceRuns, AcceptanceSame, PTL
     DEF MCSpec, X!Spec, Proj!Acc!Spec

\* The theorems are about the instance of Readiness that MCParts runs.
LEMMA ReadinessSame ==
    /\ Y!Init <=> Proj!Ready!Init
    /\ [Y!Next]_(Y!vars) <=> [Proj!Ready!Next]_(Proj!Ready!vars)
    /\ Y!ReadyIsAnswered <=> Proj!Ready!ReadyIsAnswered
    /\ [Y!AnswerIsOfWhatWasSeen]_(Y!vars) <=> [Proj!Ready!AnswerIsOfWhatWasSeen]_(Proj!Ready!vars)
  BY Zenon DEF Y!vars, Proj!Ready!vars, Y!NoScan, Proj!Ready!NoScan, Y!Init, Proj!Ready!Init, Y!Activate,
         Proj!Ready!Activate, Y!Assess, Proj!Ready!Assess, Y!Read, Proj!Ready!Read, Y!Refused,
         Proj!Ready!Refused, Y!StatusOf, Proj!Ready!StatusOf, Y!Record, Proj!Ready!Record, Y!Load,
         Proj!Ready!Load, Y!Answer, Proj!Ready!Answer, Y!MayAttest, Proj!Ready!MayAttest, Y!Attest,
         Proj!Ready!Attest, Y!Next, Proj!Ready!Next, Y!ReadyIsAnswered, Proj!Ready!ReadyIsAnswered,
         Y!AnswerIsOfWhatWasSeen, Proj!Ready!AnswerIsOfWhatWasSeen, Y!Last, Proj!Ready!Last

\* What is proved of module Readiness holds of the part Readiness.
LEMMA ReadinessHolds ==
    ASSUME IsFiniteSet(B)
    PROVE  MCSpec =>
           /\ [](part = "Readiness" => Y!ReadyIsAnswered)
           /\ [][part = "Readiness" => Y!AnswerIsOfWhatWasSeen]_all
<1>1. Proj!ReadyBounds
  BY DEF Proj!ReadyBounds, IsFiniteSet, Proj!IsFiniteSet
<1>2. Proj!Ready!Spec => []Proj!Ready!ReadyIsAnswered
  BY <1>1, Proj!ReadyAnswered
<1>3. Proj!Ready!Spec => [][Proj!Ready!AnswerIsOfWhatWasSeen]_(Proj!Ready!vars)
  BY <1>1, Proj!AnswersAreSeen
<1>4. part = "Readiness" /\ [MCNext]_all /\ [Y!AnswerIsOfWhatWasSeen]_(Y!vars) => [Y!AnswerIsOfWhatWasSeen]_all
  BY DEF MCNext, all, shared, Y!vars
<1>5. QED
  BY <1>2, <1>3, <1>4, ReadinessRuns, ReadinessSame, PTL
     DEF MCSpec, Y!Spec, Proj!Ready!Spec

\* The theorems are about the instance of Publication that MCParts runs.
LEMMA PublicationSame ==
    /\ U!Init <=> Proj!Files!Init
    /\ [U!Next]_(U!vars) <=> [Proj!Files!Next]_(Proj!Files!vars)
    /\ U!AppliedWasWritten <=> Proj!Files!AppliedWasWritten
    /\ U!InForceIsNewest <=> Proj!Files!InForceIsNewest
  BY Zenon DEF U!vars, Proj!Files!vars, U!Own, Proj!Files!Own, U!Newest, Proj!Files!Newest, U!Resting,
         Proj!Files!Resting, U!Init, Proj!Files!Init, U!Look, Proj!Files!Look, U!Calls, Proj!Files!Calls,
         U!Decide, Proj!Files!Decide, U!NothingPending, Proj!Files!NothingPending, U!AdoptConstitution,
         Proj!Files!AdoptConstitution, U!AdoptPlan, Proj!Files!AdoptPlan, U!DisablePlan,
         Proj!Files!DisablePlan, U!RetriesLeft, Proj!Files!RetriesLeft, U!Retryable, Proj!Files!Retryable,
         U!Retried, Proj!Files!Retried, U!Retry, Proj!Files!Retry, U!Pending, Proj!Files!Pending, U!First,
         Proj!Files!First, U!Move, Proj!Files!Move, U!Target, Proj!Files!Target, U!Expected,
         Proj!Files!Expected, U!MayBegin, Proj!Files!MayBegin, U!Begin, Proj!Files!Begin, U!AlreadyThere,
         Proj!Files!AlreadyThere, U!Read, Proj!Files!Read, U!Write, Proj!Files!Write, U!Recheck,
         Proj!Files!Recheck, U!Rename, Proj!Files!Rename, U!Confirm, Proj!Files!Confirm, U!Current,
         Proj!Files!Current, U!Standby, Proj!Files!Standby, U!Completed, Proj!Files!Completed, U!Failed,
         Proj!Files!Failed, U!Settle, Proj!Files!Settle, U!Restart, Proj!Files!Restart, U!Listen,
         Proj!Files!Listen, U!Edit, Proj!Files!Edit, U!Next, Proj!Files!Next, U!AppliedWasWritten,
         Proj!Files!AppliedWasWritten, U!InForceIsNewest, Proj!Files!InForceIsNewest

\* What is proved of module Publication holds of the part Publication.
LEMMA PublicationHolds ==
    MCSpec =>
       /\ [](part = "Publication" => U!AppliedWasWritten /\ U!InForceIsNewest)
<1>1. Proj!PublicationBounds
  BY DEF Proj!PublicationBounds
<1>2. Proj!Files!Spec => [](Proj!Files!AppliedWasWritten /\ Proj!Files!InForceIsNewest)
  BY <1>1, Proj!PublicationHolds
<1>3. QED
  BY <1>2, PublicationRuns, PublicationSame, PTL
     DEF MCSpec, U!Spec, Proj!Files!Spec

\* The theorems are about the instance of Scaffold that MCParts runs.
LEMMA ScaffoldSame ==
    /\ F!Init <=> Proj!Scaf!Init
    /\ [F!Next]_(F!vars) <=> [Proj!Scaf!Next]_(Proj!Scaf!vars)
    /\ F!CompletedIsWhole <=> Proj!Scaf!CompletedIsWhole
    /\ [F!Keeps]_(F!vars) <=> [Proj!Scaf!Keeps]_(Proj!Scaf!vars)
  BY Zenon DEF F!vars, Proj!Scaf!vars, F!Path, Proj!Scaf!Path, F!Nothing, Proj!Scaf!Nothing, F!Rest,
         Proj!Scaf!Rest, F!Init, Proj!Scaf!Init, F!Request, Proj!Scaf!Request, F!Retry, Proj!Scaf!Retry,
         F!Of, Proj!Scaf!Of, F!Here, Proj!Scaf!Here, F!Goto, Proj!Scaf!Goto, F!Take, Proj!Scaf!Take,
         F!Prepare, Proj!Scaf!Prepare, F!Claim, Proj!Scaf!Claim, F!Creatable, Proj!Scaf!Creatable,
         F!Create, Proj!Scaf!Create, F!Fill, Proj!Scaf!Fill, F!Acceptable, Proj!Scaf!Acceptable,
         F!VerifyOrCreate, Proj!Scaf!VerifyOrCreate, F!Verified, Proj!Scaf!Verified, F!Tree,
         Proj!Scaf!Tree, F!Marker, Proj!Scaf!Marker, F!Settled, Proj!Scaf!Settled, F!Settle,
         Proj!Scaf!Settle, F!Restart, Proj!Scaf!Restart, F!Listen, Proj!Scaf!Listen, F!Meddle,
         Proj!Scaf!Meddle, F!PublisherStep, Proj!Scaf!PublisherStep, F!Next, Proj!Scaf!Next,
         F!CompletedIsWhole, Proj!Scaf!CompletedIsWhole, F!Keeps, Proj!Scaf!Keeps

\* What is proved of module Scaffold holds of the part Scaffold.
LEMMA ScaffoldHolds ==
    MCSpec =>
       /\ [](part = "Scaffold" => F!CompletedIsWhole)
       /\ [][part = "Scaffold" => F!Keeps]_all
<1>1. Proj!ScaffoldBounds
  BY DEF Proj!ScaffoldBounds
<1>2. Proj!Scaf!Spec => []Proj!Scaf!CompletedIsWhole
  BY <1>1, Proj!CompletedStaysWhole
<1>3. Proj!Scaf!Spec => [][Proj!Scaf!Keeps]_(Proj!Scaf!vars)
  BY <1>1, Proj!OthersStayKept
<1>4. part = "Scaffold" /\ [MCNext]_all /\ [F!Keeps]_(F!vars) => [F!Keeps]_all
  BY DEF MCNext, all, shared, F!vars
<1>5. QED
  BY <1>2, <1>3, <1>4, ScaffoldRuns, ScaffoldSame, PTL
     DEF MCSpec, F!Spec, Proj!Scaf!Spec

\* The theorems are about the instance of Allowance that MCParts runs.
LEMMA AllowanceSame ==
    /\ Z!Init <=> Proj!Quota!Init
    /\ [Z!Next]_(Z!vars) <=> [Proj!Quota!Next]_(Proj!Quota!vars)
    /\ Z!ReadIsShared <=> Proj!Quota!ReadIsShared
    /\ [Z!AllowanceAdvances]_(Z!vars) <=> [Proj!Quota!AllowanceAdvances]_(Proj!Quota!vars)
  BY Zenon DEF Z!vars, Proj!Quota!vars, Z!Reads, Proj!Quota!Reads, Z!NoRow, Proj!Quota!NoRow, Z!NoRead,
         Proj!Quota!NoRead, Z!Init, Proj!Quota!Init, Z!Tick, Proj!Quota!Tick, Z!Keeps, Proj!Quota!Keeps,
         Z!IsOver, Proj!Quota!IsOver, Z!Projection, Proj!Quota!Projection, Z!Answer, Proj!Quota!Answer,
         Z!Show, Proj!Quota!Show, Z!Waiting, Proj!Quota!Waiting, Z!Refresh, Proj!Quota!Refresh,
         Z!Untracked, Proj!Quota!Untracked, Z!Timeout, Proj!Quota!Timeout, Z!Undecided,
         Proj!Quota!Undecided, Z!Decided, Proj!Quota!Decided, Z!Initialized, Proj!Quota!Initialized,
         Z!Result, Proj!Quota!Result, Z!Failure, Proj!Quota!Failure, Z!Answered, Proj!Quota!Answered,
         Z!Failed, Proj!Quota!Failed, Z!Closed, Proj!Quota!Closed, Z!Settled, Proj!Quota!Settled,
         Z!Restart, Proj!Quota!Restart, Z!Next, Proj!Quota!Next, Z!ReadIsShared, Proj!Quota!ReadIsShared,
         Z!AllowanceAdvances, Proj!Quota!AllowanceAdvances

\* What is proved of module Allowance holds of the part Allowance.
LEMMA AllowanceHolds ==
    MCSpec =>
       /\ [](part = "Allowance" => Z!ReadIsShared)
       /\ [][part = "Allowance" => Z!AllowanceAdvances]_all
<1>1. Proj!AllowanceBounds
  BY DEF Proj!AllowanceBounds
<1>2. Proj!Quota!Spec => []Proj!Quota!ReadIsShared
  BY <1>1, Proj!ReadStaysShared
<1>3. Proj!Quota!Spec => [][Proj!Quota!AllowanceAdvances]_(Proj!Quota!vars)
  BY <1>1, Proj!AllowanceSteps
<1>4. part = "Allowance" /\ [MCNext]_all /\ [Z!AllowanceAdvances]_(Z!vars) => [Z!AllowanceAdvances]_all
  BY DEF MCNext, all, shared, Z!vars
<1>5. QED
  BY <1>2, <1>3, <1>4, AllowanceRuns, AllowanceSame, PTL
     DEF MCSpec, Z!Spec, Proj!Quota!Spec

\* The theorems are about the instance of OwnerSession that MCParts runs.
LEMMA OwnerSessionSame ==
    /\ N2!Init <=> Proj!Owner!Init
    /\ [N2!Next]_(N2!vars) <=> [Proj!Owner!Next]_(Proj!Owner!vars)
    /\ N2!UsedIsKept <=> Proj!Owner!UsedIsKept
    /\ N2!TokenIsKept <=> Proj!Owner!TokenIsKept
  BY Zenon DEF N2!vars, Proj!Owner!vars, N2!Closed, Proj!Owner!Closed, N2!Delivery, Proj!Owner!Delivery,
         N2!Reached, Proj!Owner!Reached, N2!Headers, Proj!Owner!Headers, N2!Authorized,
         Proj!Owner!Authorized, N2!Slides, Proj!Owner!Slides, N2!Renewal, Proj!Owner!Renewal, N2!Unmoved,
         Proj!Owner!Unmoved, N2!Served, Proj!Owner!Served, N2!Granted, Proj!Owner!Granted, N2!Grants,
         Proj!Owner!Grants, N2!Shows, Proj!Owner!Shows, N2!Failed, Proj!Owner!Failed, N2!Exchanged,
         Proj!Owner!Exchanged, N2!Exchange, Proj!Owner!Exchange, N2!Status, Proj!Owner!Status, N2!Request,
         Proj!Owner!Request, N2!Stream, Proj!Owner!Stream, N2!Open, Proj!Owner!Open, N2!Reload,
         Proj!Owner!Reload, N2!Close, Proj!Owner!Close, N2!ExpireGrant, Proj!Owner!ExpireGrant, N2!Older,
         Proj!Owner!Older, N2!Tick, Proj!Owner!Tick, N2!Restart, Proj!Owner!Restart, N2!Init,
         Proj!Owner!Init, N2!Next, Proj!Owner!Next, N2!UsedIsKept, Proj!Owner!UsedIsKept, N2!TokenIsKept,
         Proj!Owner!TokenIsKept

\* What is proved of module OwnerSession holds of the part OwnerSession.
LEMMA OwnerSessionHolds ==
    MCSpec =>
       /\ [](part = "OwnerSession" => N2!UsedIsKept /\ N2!TokenIsKept)
<1>1. Proj!OwnerBounds
  BY DEF Proj!OwnerBounds
<1>2. Proj!Owner!Spec => [](Proj!Owner!UsedIsKept /\ Proj!Owner!TokenIsKept)
  BY <1>1, Proj!OwnerIsKept
<1>3. QED
  BY <1>2, OwnerSessionRuns, OwnerSessionSame, PTL
     DEF MCSpec, N2!Spec, Proj!Owner!Spec

----
(* Side by side *)

\* Whatever the WorkItems and the tabs are, the order of the work holds.
THEOREM WorkOrdered == ASSUME IsFiniteSet(A) PROVE MCSpec => []WorkIsOrdered
  BY WorkItemsHolds, DemoProjectHolds, PTL DEF WorkIsOrdered

\* For all sets of sessions, and of files, and for attempts in worktrees of their own or in the directory they share.
THEOREM SessionsHand == ASSUME "nobody" \notin A, AtMostTwo(A) PROVE MCSpec => []SessionsHandOver
  BY ToolCallsHolds, FileCallsHolds, SessionLoopHolds, ProviderProcessHolds, WorktreeHolds,
     SharedDirectoryHolds, DataDirectoryHolds, McpServersHolds, PTL DEF SessionsHandOver

\* What a decision rests on is in force when it is taken, in each of the parts that decide.
THEOREM EvidenceInForce == ASSUME IsFiniteSet(A), IsFiniteSet(B) PROVE MCSpec => []EvidenceIsInForce
  BY LaunchMeasurementHolds, BrowserQAHolds, LaunchReleaseHolds, McpProfilesHolds, AcceptanceHolds,
     ReadinessHolds, DemoProjectHolds, AgentPolicyHolds, PTL DEF EvidenceIsInForce

\* What is published is whole, and no step takes away what somebody wrote, decided or was told.
THEOREM PublishedWhole == ASSUME "nobody" \notin A, IsFiniteSet(A), IsFiniteSet(B) PROVE MCSpec => PublishedIsWhole
  BY PublicationHolds, ScaffoldHolds, WorktreeHolds, McpServersHolds, McpProfilesHolds, AcceptanceHolds,
     ReadinessHolds, AllowanceHolds, DemoProjectHolds, PTL DEF PublishedIsWhole

\* The owner sees what happened, or is told that something is missing: in each of the parts that show it.
THEOREM OwnerSees == ASSUME IsFiniteSet(A) PROVE MCSpec => []OwnerSeesOrIsTold
  BY ActivityRecorderHolds, ActivityFeedHolds, LiveViewHolds, LogFilesHolds, OwnerSessionHolds,
     AllowanceHolds, PTL DEF OwnerSeesOrIsTold

\* A deployment is dispatched at most once, and what it concluded stands.
THEOREM DispatchedOnce == MCSpec => DispatchedAtMostOnce
  BY DeploymentHolds, PTL DEF DispatchedAtMostOnce

\* A tool call happens at most once, and under a grant that covers it.
THEOREM CalledOnce == MCSpec => CalledAtMostOnce
  BY ToolCallsHolds, FileCallsHolds, PTL DEF CalledAtMostOnce
=============================================================================
