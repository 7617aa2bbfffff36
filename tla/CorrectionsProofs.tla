------------------------- MODULE CorrectionsProofs -------------------------
\* Theorems about module Corrections, for every number of trees, plans and
\* verification runs: the two evaluators never take more corrections than
\* their one budget, leave none behind that nobody works on, and deliver
\* only what they verified.
EXTENDS Corrections, TLAPS

USE BoundAssumption

----
(* The tables *)

\* corr' is corr with the rows S rewritten to status s.
Closing(S, s) ==
    /\ corr' \in Seq(Correction) /\ Len(corr') = Len(corr)
    /\ \A d \in 1 .. Len(corr) :
         /\ corr'[d].kind = corr[d].kind /\ corr'[d].resumes = corr[d].resumes /\ corr'[d].src = corr[d].src
         /\ IF d \in S THEN corr'[d].status = s ELSE corr'[d] = corr[d]

\* The same with one correction more.
Opening(S, n) ==
    /\ corr' \in Seq(Correction) /\ Len(corr') = Len(corr) + 1
    /\ corr'[Len(corr) + 1] = n
    /\ \A d \in 1 .. Len(corr) :
         /\ corr'[d].kind = corr[d].kind /\ corr'[d].resumes = corr[d].resumes /\ corr'[d].src = corr[d].src
         /\ IF d \in S THEN corr'[d].status = "SUPERSEDED" ELSE corr'[d] = corr[d]

LEMMA DomainIsRange == \A s \in Seq(Correction) \cup Seq(VRun) : DOMAIN s = 1 .. Len(s)
OBVIOUS

LEMMA StatusWritten ==
    ASSUME NEW t \in Seq(Correction), NEW c \in 1 .. Len(t), NEW s \in Status.correction,
           NEW u, u = [t EXCEPT ![c].status = s]
    PROVE  /\ u \in Seq(Correction) /\ Len(u) = Len(t)
           /\ \A d \in 1 .. Len(t) :
                /\ u[d].kind = t[d].kind /\ u[d].resumes = t[d].resumes /\ u[d].src = t[d].src
                /\ IF d = c THEN u[d].status = s ELSE u[d] = t[d]
<1>1. t[c] \in Correction /\ DOMAIN t = 1 .. Len(t)
  OBVIOUS
<1> DEFINE row == [t[c] EXCEPT !.status = s]
<1>2. /\ row \in Correction /\ row.kind = t[c].kind /\ row.resumes = t[c].resumes
      /\ row.src = t[c].src /\ row.status = s
  BY <1>1 DEF Correction
<1>3. u = [t EXCEPT ![c] = row]
  OBVIOUS
<1> HIDE DEF row
<1> QED BY <1>1, <1>2, <1>3

LEMMA EndedTable ==
    ASSUME corr \in Seq(Correction), NEW c \in 0 .. Len(corr), NEW s \in Status.correction
    PROVE  /\ Ended(c, s) \in Seq(Correction) /\ Len(Ended(c, s)) = Len(corr)
           /\ \A d \in 1 .. Len(corr) :
                /\ Ended(c, s)[d].kind = corr[d].kind /\ Ended(c, s)[d].resumes = corr[d].resumes
                /\ Ended(c, s)[d].src = corr[d].src
                /\ IF d = c THEN Ended(c, s)[d].status = s ELSE Ended(c, s)[d] = corr[d]
<1>1. CASE c = 0
  BY <1>1 DEF Ended
<1>2. CASE c # 0
  <2>1. c \in 1 .. Len(corr) /\ Ended(c, s) = [corr EXCEPT ![c].status = s]
    BY <1>2 DEF Ended
  <2> QED BY <2>1, StatusWritten
<1> QED BY <1>1, <1>2

LEMMA AppendTable ==
    ASSUME NEW t \in Seq(Correction), NEW n \in Correction
    PROVE  /\ Append(t, n) \in Seq(Correction) /\ Len(Append(t, n)) = Len(t) + 1
           /\ Append(t, n)[Len(t) + 1] = n
           /\ \A d \in 1 .. Len(t) : Append(t, n)[d] = t[d]
OBVIOUS

\* Every write of the code is one of the two.
LEMMA EndedCloses ==
    ASSUME corr \in Seq(Correction), NEW c \in 0 .. Len(corr), NEW s \in Status.correction,
           corr' = Ended(c, s)
    PROVE  Closing({c}, s)
BY EndedTable DEF Closing

LEMMA AppendOpens ==
    ASSUME NEW t \in Seq(Correction), NEW n \in Correction, NEW S, corr' = Append(t, n), Len(t) = Len(corr),
           \A d \in 1 .. Len(corr) :
             /\ t[d].kind = corr[d].kind /\ t[d].resumes = corr[d].resumes /\ t[d].src = corr[d].src
             /\ IF d \in S THEN t[d].status = "SUPERSEDED" ELSE t[d] = corr[d]
    PROVE  Opening(S, n)
<1>1. /\ corr' \in Seq(Correction) /\ Len(corr') = Len(corr) + 1
      /\ corr'[Len(corr) + 1] = n
      /\ \A d \in 1 .. Len(corr) : corr'[d] = t[d]
  BY AppendTable
<1> QED BY <1>1 DEF Opening

LEMMA EndedOpens ==
    ASSUME corr \in Seq(Correction), NEW c \in 0 .. Len(corr), NEW n \in Correction,
           corr' = Append(Ended(c, "SUPERSEDED"), n)
    PROVE  Opening({c}, n)
<1>1. "SUPERSEDED" \in Status.correction
  BY DEF Status
<1> QED BY <1>1, EndedTable, AppendOpens

LEMMA RunEndsTable ==
    ASSUME runs \in Seq(VRun), NEW r \in DOMAIN runs, NEW s \in Status.run,
           NEW f \in {"NONE", "FAILED", "INTERRUPTED", "STALE"}, RunEnds(r, s, f)
    PROVE  /\ runs' \in Seq(VRun) /\ Len(runs') = Len(runs)
           /\ runs'[r].status = s /\ runs'[r].failure = f /\ runs'[r].tree = runs[r].tree
           /\ runs'[r].plan = runs[r].plan /\ runs'[r].ver = runs[r].ver
           /\ \A q \in DOMAIN runs : q # r => runs'[q] = runs[q]
<1>1. runs[r] \in VRun /\ DOMAIN runs = 1 .. Len(runs)
  OBVIOUS
<1> DEFINE row == [runs[r] EXCEPT !.status = s, !.failure = f]
<1>2. /\ row \in VRun /\ row.status = s /\ row.failure = f
      /\ row.tree = runs[r].tree /\ row.plan = runs[r].plan /\ row.ver = runs[r].ver
  BY <1>1 DEF VRun
<1>3. runs' = [runs EXCEPT ![r] = row]
  BY <1>1 DEF RunEnds, VRun
<1> HIDE DEF row
<1> QED BY <1>1, <1>2, <1>3

----
(* The inductive invariant *)

Unended == {"ACTIVE", "CANCELLING"}

\* A run that goes on has no failure recorded, and runs are for verification corrections.
RunsFit ==
    /\ Len(runs) <= MaxRuns
    /\ \A r \in DOMAIN runs : runs[r].status \in Unended => runs[r].failure = "NONE"
    /\ \A r \in DOMAIN runs : runs[r].ver # 0 => corr[runs[r].ver].kind = "V"

\* The correction a run passed for is closed.
PassedIsClosed == \A r \in DOMAIN runs : runs[r].status = "PASSED" /\ runs[r].ver # 0 => ~Open(runs[r].ver)

\* From the start of QA on, what is open of the verification was passed over.
PassedOver == \A c \in OpenOf("V") : Bypassed(c)
QAIsPassedOver ==
    (wf.stage = "QA" /\ wf.status \in {"RUNNING", "GATE_QA"}) \/ wf.stage = "ACCEPTANCE" => PassedOver

\* The QA correction of the attempt is active until its retest passes or its gate is answered.
QAIsOpen ==
    wf.qa # 0 =>
        \/ Active(wf.qa) \/ (wf.status = "GATE_QA" /\ Open(wf.qa))
        \/ wf.stage = "ACCEPTANCE" \/ ~Live

\* Where the attempt can be, and what a cancelled correction and a prepared delivery say of it.
StagesFit ==
    /\ wf.status \in {"PREPARED", "DONE"} => wf.stage = "ACCEPTANCE" /\ OpenQA = {}
    /\ wf.status = "GATE_QA" => wf.stage = "QA"
    /\ \A c \in DOMAIN corr : corr[c].status = "CANCELLED" => wf.status = "CANCELLED"

CInv ==
    /\ TypeOK /\ SharedBudget /\ CorrectionIsWorkedOn /\ QAIsVerified
    /\ RunsFit /\ PassedIsClosed /\ QAIsPassedOver /\ QAIsOpen /\ StagesFit

\* A daemon that is down left a run behind.
DownHasRun == daemon = "DOWN" => RunActive

----
(* What a step keeps of the rows *)

TableKept ==
    /\ corr' \in Seq(Correction) /\ Len(corr) <= Len(corr')
    /\ \A c \in 1 .. Len(corr) :
         /\ corr'[c].kind = corr[c].kind /\ corr'[c].resumes = corr[c].resumes /\ corr'[c].src = corr[c].src
         /\ ~Open(c) => corr'[c] = corr[c]

RunsKept ==
    /\ runs' \in Seq(VRun) /\ Len(runs) <= Len(runs') /\ Len(runs') <= MaxRuns
    /\ \A r \in 1 .. Len(runs) :
         /\ runs'[r].tree = runs[r].tree /\ runs'[r].plan = runs[r].plan /\ runs'[r].ver = runs[r].ver
         /\ runs[r].status \notin Unended => runs'[r].status = runs[r].status
         /\ runs[r].failure # "NONE" => runs'[r].failure = runs[r].failure
    /\ \A r \in 1 .. Len(runs') : runs'[r].status \in Unended => runs'[r].failure = "NONE"
    /\ \A r \in 1 .. Len(runs') : r > Len(runs) => runs'[r].status = "ACTIVE" /\ runs'[r].ver = RunFor

\* The runs that passed are the same.
NonePasses == \A r \in 1 .. Len(runs) : runs'[r].status = "PASSED" => runs[r].status = "PASSED"

LEMMA ClosingKeeps ==
    ASSUME corr \in Seq(Correction), NEW S, NEW s, Closing(S, s), \A d \in 1 .. Len(corr) : d \in S => Open(d)
    PROVE  TableKept
BY DEF Closing, TableKept

LEMMA OpeningKeeps ==
    ASSUME corr \in Seq(Correction), NEW S, NEW n, Opening(S, n), \A d \in 1 .. Len(corr) : d \in S => Open(d)
    PROVE  TableKept
BY DEF Opening, TableKept

LEMMA SameKeeps ==
    ASSUME corr \in Seq(Correction), UNCHANGED corr
    PROVE  TableKept
BY DEF TableKept

LEMMA RunEndsKeeps ==
    ASSUME runs \in Seq(VRun), RunsFit, NEW r \in DOMAIN runs, runs[r].status \in Unended,
           NEW s \in Status.run, NEW f \in {"NONE", "FAILED", "INTERRUPTED", "STALE"}, RunEnds(r, s, f),
           s \in Unended => f = "NONE"
    PROVE  RunsKept /\ runs'[r].status = s /\ runs'[r].failure = f
<1>1. DOMAIN runs = 1 .. Len(runs)
  OBVIOUS
<1>2. runs[r].failure = "NONE"
  BY DEF RunsFit
<1> QED BY <1>1, <1>2, RunEndsTable DEF RunsKept, RunsFit

LEMMA ReserveKeeps ==
    ASSUME TypeOK, RunsFit, Reserve
    PROVE  RunsKept /\ NonePasses
<1> DEFINE new == [status |-> "ACTIVE", tree |-> tree, plan |-> plan, ver |-> RunFor, failure |-> "NONE"]
<1>1. new \in VRun
  <2>1. RunFor \in 0 .. MaxTotal
    BY DEF TypeOK, RunFor, Attempt, MaxTotal
  <2>2. "ACTIVE" \in Status.run
    BY DEF Status
  <2> QED BY <2>1, <2>2 DEF TypeOK, VRun
<1>2. runs \in Seq(VRun) /\ runs' = Append(runs, new) /\ Len(runs) < MaxRuns
  BY DEF TypeOK, Reserve, Last
<1>3. /\ new.status = "ACTIVE" /\ new.failure = "NONE" /\ new.ver = RunFor
  OBVIOUS
<1> HIDE DEF new
<1>4. /\ runs' \in Seq(VRun) /\ Len(runs') = Len(runs) + 1 /\ runs'[Len(runs) + 1] = new
      /\ \A r \in 1 .. Len(runs) : runs'[r] = runs[r]
  BY <1>1, <1>2
<1>5. \A r \in 1 .. Len(runs) : runs[r].status \in Unended => runs[r].failure = "NONE"
  BY <1>2 DEF RunsFit
<1> QED BY <1>2, <1>3, <1>4, <1>5, BoundAssumption DEF RunsKept, NonePasses, BoundAssumption

LEMMA SameRunsKept ==
    ASSUME TypeOK, RunsFit, UNCHANGED runs
    PROVE  RunsKept /\ NonePasses
BY DEF TypeOK, RunsFit, RunsKept, NonePasses

\* A correction that was passed over stays so.
LEMMA BypassedStays ==
    ASSUME CInv, TableKept, RunsKept, NEW c \in DOMAIN corr, Bypassed(c)
    PROVE  Bypassed(c)'
<1>1. PICK r \in corr[c].src .. Last : runs[r].status = "PASSED" /\ runs[r].ver # c
  BY DEF Bypassed
<1>2. c \in 1 .. Len(corr) /\ corr[c].kind = "V" /\ corr[c].src \in DOMAIN runs
  BY DEF CInv, TypeOK, Bypassed
<1>3. r \in 1 .. Len(runs)
  BY <1>1, <1>2 DEF Last, CInv, TypeOK
<1>4. runs'[r].status = "PASSED" /\ runs'[r].ver # c
  BY <1>1, <1>3 DEF RunsKept, Unended
<1>5. r \in corr'[c].src .. Last'
  BY <1>1, <1>2, <1>3 DEF RunsKept, TableKept, Last
<1>6. corr'[c].kind = "V"
  BY <1>2 DEF TableKept
<1> QED BY <1>4, <1>5, <1>6 DEF Bypassed

LEMMA OpenWas ==
    ASSUME TableKept, NEW c \in 1 .. Len(corr), Open(c)'
    PROVE  Open(c)
BY DEF TableKept, Open

\* The rows that were there keep pointing at rows that are there.
LEMMA RowsStay ==
    ASSUME CInv, TableKept, RunsKept
    PROVE  /\ DOMAIN corr = 1 .. Len(corr) /\ DOMAIN corr' = 1 .. Len(corr')
           /\ DOMAIN runs = 1 .. Len(runs) /\ DOMAIN runs' = 1 .. Len(runs')
           /\ \A c \in 1 .. Len(corr) :
                /\ corr'[c].resumes \in 0 .. c - 1
                /\ corr'[c].kind = "V" => corr'[c].src \in DOMAIN runs' /\ runs'[corr'[c].src].failure # "NONE"
           /\ \A r \in 1 .. Len(runs') : runs'[r].ver \in 0 .. Len(corr)
           /\ RunsFit'
<1>1. /\ corr \in Seq(Correction) /\ runs \in Seq(VRun) /\ corr' \in Seq(Correction) /\ runs' \in Seq(VRun)
  BY DEF CInv, TypeOK, TableKept, RunsKept
<1>2. /\ DOMAIN corr = 1 .. Len(corr) /\ DOMAIN corr' = 1 .. Len(corr')
      /\ DOMAIN runs = 1 .. Len(runs) /\ DOMAIN runs' = 1 .. Len(runs')
      /\ Len(corr) \in Nat /\ Len(corr') \in Nat /\ Len(runs) \in Nat /\ Len(runs') \in Nat
  BY <1>1
<1>3. ASSUME NEW c \in 1 .. Len(corr)
      PROVE  /\ corr'[c].resumes \in 0 .. c - 1
             /\ corr'[c].kind = "V" => corr'[c].src \in DOMAIN runs' /\ runs'[corr'[c].src].failure # "NONE"
  <2>1. /\ corr[c].resumes \in 0 .. c - 1
        /\ corr[c].kind = "V" => corr[c].src \in 1 .. Len(runs) /\ runs[corr[c].src].failure # "NONE"
    BY <1>2 DEF CInv, TypeOK
  <2>2. corr'[c].kind = corr[c].kind /\ corr'[c].resumes = corr[c].resumes /\ corr'[c].src = corr[c].src
    BY DEF TableKept
  <2>3. ASSUME corr[c].kind = "V"
        PROVE  corr[c].src \in 1 .. Len(runs') /\ runs'[corr[c].src].failure # "NONE"
    BY <1>2, <2>1, <2>3 DEF RunsKept
  <2> QED BY <1>2, <2>1, <2>2, <2>3
<1>4. RunFor \in 0 .. Len(corr) /\ (RunFor # 0 => corr[RunFor].kind = "V")
  BY <1>2 DEF RunFor, CInv, TypeOK, Attempt
<1>5. ASSUME NEW r \in 1 .. Len(runs')
      PROVE  runs'[r].ver \in 0 .. Len(corr) /\ (runs'[r].ver # 0 => corr'[runs'[r].ver].kind = "V")
  <2>1. CASE r \in 1 .. Len(runs)
    <3>1. runs'[r].ver = runs[r].ver /\ runs[r].ver \in 0 .. Len(corr)
      BY <1>2, <2>1 DEF CInv, TypeOK, RunsKept
    <3>2. runs[r].ver # 0 => corr[runs[r].ver].kind = "V"
      BY <1>2, <2>1 DEF CInv, RunsFit
    <3> QED BY <1>2, <3>1, <3>2 DEF TableKept
  <2>2. CASE r > Len(runs)
    BY <1>2, <1>4, <2>2 DEF RunsKept, TableKept
  <2> QED BY <1>2, <2>1, <2>2
<1>6. RunsFit'
  BY <1>2, <1>5 DEF RunsFit, RunsKept
<1> QED BY <1>2, <1>3, <1>5, <1>6

LEMMA PassedStays ==
    ASSUME CInv, TableKept, RunsKept, NonePasses
    PROVE  PassedIsClosed'
<1>1. ASSUME NEW r \in 1 .. Len(runs'), runs'[r].status = "PASSED", runs'[r].ver # 0
      PROVE  corr'[runs'[r].ver].status \notin {"ACTIVE", "EXHAUSTED"}
  <2>1. Len(runs) \in Nat /\ Len(runs') \in Nat
    BY DEF CInv, TypeOK, RunsKept
  <2>2. r \in 1 .. Len(runs)
    BY <1>1, <2>1 DEF RunsKept
  <2>3. runs[r].status = "PASSED" /\ runs'[r].ver = runs[r].ver
    BY <1>1, <2>2 DEF NonePasses, RunsKept
  <2>4. runs[r].ver \in 1 .. Len(corr)
    BY <1>1, <2>3, RowsStay DEF CInv, TypeOK
  <2>5. corr[runs[r].ver].status \notin {"ACTIVE", "EXHAUSTED"}
    BY <1>1, <2>2, <2>3, RowsStay DEF CInv, PassedIsClosed, Open
  <2> QED BY <2>3, <2>4, <2>5 DEF TableKept, Open
<1> QED BY <1>1, RowsStay DEF PassedIsClosed, Open

\* A step that adds no correction, and one that leaves all of them as they are.
LEMMA NoneAdded ==
    ASSUME CInv, TableKept, RunsKept, Len(corr') = Len(corr),
           daemon' \in {"UP", "DOWN"}, tree' \in Tree, plan' \in 1 .. MaxPlans,
           wf' \in Attempt, wf'.qa = wf.qa, wf'.ver = wf.ver
    PROVE  TypeOK' /\ SharedBudget'
<1>1. TypeOK'
  <2>1. /\ wf.qa # 0 => wf.qa \in 1 .. Len(corr) /\ corr[wf.qa].kind = "QA"
        /\ wf.ver # 0 => wf.ver \in 1 .. Len(corr) /\ corr[wf.ver].kind = "V"
    BY RowsStay DEF CInv, TypeOK
  <2>2. /\ wf'.qa # 0 => wf'.qa \in DOMAIN corr' /\ corr'[wf'.qa].kind = "QA"
        /\ wf'.ver # 0 => wf'.ver \in DOMAIN corr' /\ corr'[wf'.ver].kind = "V"
    BY <2>1, RowsStay DEF TableKept
  <2> QED BY <2>2, RowsStay DEF TypeOK, TableKept, RunsKept
<1>2. SharedBudget'
  <2>1. \A c \in 1 .. Len(corr) : Open(c)' => Open(c)
    BY OpenWas
  <2> QED BY <2>1, RowsStay DEF SharedBudget, CInv, TableKept
<1> QED BY <1>1, <1>2

LEMMA NoneWritten ==
    ASSUME CInv, UNCHANGED corr, RunsKept, NonePasses,
           daemon' \in {"UP", "DOWN"}, tree' \in Tree, plan' \in 1 .. MaxPlans,
           wf' \in Attempt, wf'.qa = wf.qa, wf'.ver = wf.ver
    PROVE  /\ TableKept /\ TypeOK' /\ SharedBudget' /\ RunsFit' /\ PassedIsClosed'
           /\ OpenQA' = OpenQA /\ (PassedOver => PassedOver')
           /\ \A c : Active(c)' = Active(c) /\ Open(c)' = Open(c)
           /\ (Live => Live') => CorrectionIsWorkedOn'
<1>1. TableKept
  BY SameKeeps DEF CInv, TypeOK
<1>2. TypeOK' /\ SharedBudget'
  BY <1>1, NoneAdded
<1>3. RunsFit' /\ PassedIsClosed'
  BY <1>1, RowsStay, PassedStays
<1>4. \A c : Active(c)' = Active(c) /\ Open(c)' = Open(c)
  BY DEF Active, Open
<1>5. OpenQA' = OpenQA /\ OpenOf("V")' = OpenOf("V")
  BY <1>4 DEF OpenQA, OpenOf
<1>6. \A c \in DOMAIN corr : Bypassed(c) => Bypassed(c)'
  BY <1>1, BypassedStays
<1>7. OpenOf("V") \subseteq DOMAIN corr
  BY DEF OpenOf
<1>8. PassedOver => PassedOver'
  BY <1>5, <1>6, <1>7 DEF PassedOver
<1>9. ASSUME Live => Live'
      PROVE  CorrectionIsWorkedOn'
  <2>1. QACorrectionIsWorkedOn'
    BY <1>5, <1>9 DEF CInv, CorrectionIsWorkedOn, QACorrectionIsWorkedOn
  <2>2. VerificationCorrectionIsWorkedOn'
    BY <1>4, <1>5, <1>6, <1>7, <1>9 DEF CInv, CorrectionIsWorkedOn, VerificationCorrectionIsWorkedOn
  <2> QED BY <2>1, <2>2 DEF CorrectionIsWorkedOn
<1> QED BY <1>1, <1>2, <1>3, <1>4, <1>5, <1>8, <1>9

\* What was verified stays verified as long as nobody changes the tree.
LEMMA VerifiedStays ==
    ASSUME CInv, RunsKept, tree' = tree,
           (wf'.stage = "QA" /\ wf'.status = "RUNNING") \/ wf'.stage = "ACCEPTANCE" =>
               (wf.stage = "QA" /\ wf.status = "RUNNING") \/ wf.stage = "ACCEPTANCE"
    PROVE  QAIsVerified'
<1> SUFFICES ASSUME (wf.stage = "QA" /\ wf.status = "RUNNING") \/ wf.stage = "ACCEPTANCE"
             PROVE  \E r \in DOMAIN runs' : runs'[r].status = "PASSED" /\ runs'[r].tree = tree'
  BY DEF QAIsVerified
<1>1. PICK r \in DOMAIN runs : runs[r].status = "PASSED" /\ runs[r].tree = tree
  BY DEF CInv, QAIsVerified
<1>2. r \in 1 .. Len(runs) /\ DOMAIN runs' = 1 .. Len(runs') /\ Len(runs) \in Nat /\ Len(runs') \in Nat
  BY DEF CInv, TypeOK, RunsKept
<1>3. r \in DOMAIN runs' /\ runs'[r].status = "PASSED" /\ runs'[r].tree = runs[r].tree
  BY <1>1, <1>2 DEF RunsKept, Unended
<1> QED BY <1>1, <1>3

----
(* The attempt *)

LEMMA AttemptMoves ==
    ASSUME wf \in Attempt
    PROVE  /\ \A s \in Status.attempt :
                Hold(s) => /\ wf' \in Attempt /\ wf'.status = s /\ wf'.stage = wf.stage
                           /\ wf'.qa = wf.qa /\ wf'.ver = wf.ver
           /\ \A t \in {"IMPLEMENT", "QA", "ACCEPTANCE"} :
                To(t) => /\ wf' \in Attempt /\ wf'.status = "QUEUED" /\ wf'.stage = t
                         /\ wf'.qa = wf.qa /\ wf'.ver = wf.ver
           /\ \A q, v \in 0 .. MaxTotal :
                Fix(q, v) => /\ wf' \in Attempt /\ wf'.status = "QUEUED" /\ wf'.stage = "IMPLEMENT"
                             /\ wf'.qa = q /\ wf'.ver = v
<1>1. "QUEUED" \in Status.attempt
  BY DEF Status
<1> HIDE DEF Status
<1>2. \A s \in Status.attempt :
        Hold(s) => /\ wf' \in Attempt /\ wf'.status = s /\ wf'.stage = wf.stage
                   /\ wf'.qa = wf.qa /\ wf'.ver = wf.ver
  BY DEF Hold, Attempt
<1>3. \A t \in {"IMPLEMENT", "QA", "ACCEPTANCE"} :
        To(t) => /\ wf' \in Attempt /\ wf'.status = "QUEUED" /\ wf'.stage = t
                 /\ wf'.qa = wf.qa /\ wf'.ver = wf.ver
  BY <1>1 DEF To, Attempt
<1>4. \A q, v \in 0 .. MaxTotal :
        Fix(q, v) => /\ wf' \in Attempt /\ wf'.status = "QUEUED" /\ wf'.stage = "IMPLEMENT"
                     /\ wf'.qa = q /\ wf'.ver = v
  BY <1>1 DEF Fix, Attempt
<1> QED BY <1>2, <1>3, <1>4

LEMMA NewCorrectionRow ==
    ASSUME NEW k \in {"QA", "V"}, NEW q \in 0 .. MaxTotal, NEW r \in 0 .. MaxRuns
    PROVE  /\ NewCorrection(k, q, r) \in Correction
           /\ NewCorrection(k, q, r).kind = k /\ NewCorrection(k, q, r).status = "ACTIVE"
           /\ NewCorrection(k, q, r).resumes = q /\ NewCorrection(k, q, r).src = r
<1>1. "ACTIVE" \in Status.correction
  BY DEF Status
<1> HIDE DEF Status
<1> QED BY <1>1 DEF NewCorrection, Correction

\* A new verification correction takes the place of the one that was open, and leaves the
\* suspended QA correction where it is.
LEMMA NewVerification ==
    ASSUME CInv, RunsKept, NonePasses, Live, Len(corr) < MaxTotal,
           daemon' \in {"UP", "DOWN"}, tree' = tree, plan' \in 1 .. MaxPlans,
           wf.qa # 0 => Active(wf.qa),
           NEW r \in 1 .. Len(runs), runs'[r].failure # "NONE",
           NEW S, Opening(S, NewCorrection("V", wf.qa, r)),
           \A d \in 1 .. Len(corr) : d \in S => Open(d) /\ corr[d].kind = "V",
           OpenOf("V") \subseteq S,
           Fix(wf.qa, Len(corr) + 1)
    PROVE  CInv' /\ TableKept
<1> DEFINE new == Len(corr) + 1
<1>1. TableKept
  BY OpeningKeeps DEF CInv, TypeOK
<1>2. /\ Len(corr) \in Nat /\ Len(runs) \in Nat /\ Len(runs) <= MaxRuns /\ Len(runs') \in Nat
      /\ wf.qa \in 0 .. MaxTotal /\ wf \in Attempt
  BY DEF CInv, TypeOK, RunsKept, RunsFit, Attempt
<1>3. r \in 0 .. MaxRuns /\ new \in 0 .. MaxTotal /\ new # 0
  BY <1>2, BoundAssumption DEF MaxTotal, BoundAssumption
<1>4. /\ corr'[new].kind = "V" /\ corr'[new].status = "ACTIVE"
      /\ corr'[new].resumes = wf.qa /\ corr'[new].src = r
  BY <1>2, <1>3, NewCorrectionRow DEF Opening
<1>5. /\ wf' \in Attempt /\ wf'.status = "QUEUED" /\ wf'.stage = "IMPLEMENT"
      /\ wf'.qa = wf.qa /\ wf'.ver = new
  BY <1>2, <1>3, AttemptMoves
<1>6. Len(corr') = new
  BY DEF Opening
<1>7. wf.qa # 0 => wf.qa \in 1 .. Len(corr) /\ corr[wf.qa].kind = "QA"
  BY <1>2 DEF CInv, TypeOK
<1> HIDE DEF new
<1>8. /\ DOMAIN corr = 1 .. Len(corr) /\ DOMAIN corr' = 1 .. Len(corr')
      /\ DOMAIN runs = 1 .. Len(runs) /\ DOMAIN runs' = 1 .. Len(runs')
      /\ \A c \in 1 .. Len(corr) :
           /\ corr'[c].resumes \in 0 .. c - 1
           /\ corr'[c].kind = "V" => corr'[c].src \in DOMAIN runs' /\ runs'[corr'[c].src].failure # "NONE"
      /\ \A q \in 1 .. Len(runs') : runs'[q].ver \in 0 .. Len(corr)
      /\ RunsFit'
  BY <1>1, RowsStay
<1>9. TypeOK'
  <2>1. \A c \in 1 .. Len(corr') : c \in 1 .. Len(corr) \/ c = new
    BY <1>2, <1>6 DEF new
  <2>2. \A c \in DOMAIN corr' :
          /\ corr'[c].resumes \in 0 .. c - 1
          /\ corr'[c].kind = "V" => corr'[c].src \in DOMAIN runs' /\ runs'[corr'[c].src].failure # "NONE"
    <3>1. wf.qa \in 0 .. new - 1 /\ r \in DOMAIN runs'
      BY <1>2, <1>7, <1>8 DEF new, RunsKept
    <3> QED BY <1>4, <1>8, <2>1, <3>1
  <2>3. \A q \in DOMAIN runs' : runs'[q].ver \in 0 .. Len(corr')
    BY <1>2, <1>6, <1>8 DEF new
  <2>4. /\ wf'.qa # 0 => wf'.qa \in DOMAIN corr' /\ corr'[wf'.qa].kind = "QA"
        /\ wf'.ver # 0 => wf'.ver \in DOMAIN corr' /\ corr'[wf'.ver].kind = "V"
    BY <1>1, <1>2, <1>3, <1>4, <1>5, <1>6, <1>7, <1>8 DEF TableKept, new
  <2>5. tree' \in Tree /\ corr' \in Seq(Correction) /\ runs' \in Seq(VRun)
    BY <1>1 DEF TableKept, RunsKept, CInv, TypeOK
  <2> QED BY <1>5, <2>2, <2>3, <2>4, <2>5 DEF TypeOK
<1>10. \A c \in 1 .. Len(corr) : Open(c)' => Open(c) /\ corr[c].kind = "QA" /\ corr'[c].kind = "QA"
  <2> SUFFICES ASSUME NEW c \in 1 .. Len(corr), Open(c)'
               PROVE  Open(c) /\ corr[c].kind = "QA" /\ corr'[c].kind = "QA"
    OBVIOUS
  <2>1. Open(c) /\ corr'[c].kind = corr[c].kind
    BY <1>1, OpenWas DEF TableKept
  <2>2. c \notin S
    BY DEF Opening, Open
  <2>3. corr[c].kind # "V"
    BY <1>8, <2>1, <2>2 DEF OpenOf
  <2>4. corr[c] \in Correction
    BY DEF CInv, TypeOK
  <2> QED BY <2>1, <2>3, <2>4 DEF Correction
<1>11. \A c \in 1 .. Len(corr') : c \in 1 .. Len(corr) \/ c = new
  BY <1>2, <1>6 DEF new
<1>12. SharedBudget'
  BY <1>2, <1>3, <1>4, <1>6, <1>8, <1>10, <1>11 DEF SharedBudget, CInv, new
<1>13. \A c \in OpenQA' : c \in OpenQA
  BY <1>4, <1>8, <1>10, <1>11 DEF OpenQA, OpenOf
<1>14. wf.qa # 0 => Active(wf.qa)'
  <2>1. wf.qa # 0 => wf.qa \notin S
    BY <1>7
  <2> QED BY <1>5, <1>7, <2>1 DEF Opening, Active
<1>15. CorrectionIsWorkedOn'
  <2>1. QACorrectionIsWorkedOn'
    BY <1>5, <1>13 DEF CInv, CorrectionIsWorkedOn, QACorrectionIsWorkedOn, Live
  <2>2. \A c \in OpenOf("V")' : c = new
    BY <1>8, <1>10, <1>11 DEF OpenOf
  <2>3. Live'
    BY <1>5 DEF Live
  <2>4. VerificationCorrectionIsWorkedOn'
    BY <1>4, <1>5, <1>14, <2>2, <2>3 DEF VerificationCorrectionIsWorkedOn, Active
  <2> QED BY <2>1, <2>4 DEF CorrectionIsWorkedOn
<1>16. QAIsVerified' /\ QAIsPassedOver'
  BY <1>5 DEF QAIsVerified, QAIsPassedOver
<1>17. QAIsOpen'
  BY <1>5, <1>14 DEF QAIsOpen, Active
<1>18. StagesFit'
  <2>1. \A c \in 1 .. Len(corr) : corr'[c].status # "CANCELLED"
    BY <1>8 DEF CInv, StagesFit, Live, Opening
  <2> QED BY <1>4, <1>5, <1>8, <1>11, <2>1 DEF StagesFit
<1> QED BY <1>1, <1>8, <1>9, <1>12, <1>15, <1>16, <1>17, <1>18, PassedStays DEF CInv

\* A new QA correction takes the place of the one of the attempt and starts without a lineage.
LEMMA NewQA ==
    ASSUME CInv, UNCHANGED runs, Live, Len(corr) < MaxTotal, PassedOver, wf.qa # 0 => Open(wf.qa),
           UNCHANGED <<daemon, tree, plan>>, QACorrects
    PROVE  CInv' /\ TableKept
<1> DEFINE new == Len(corr) + 1
<1>1. /\ Len(corr) \in Nat /\ Len(runs) \in Nat /\ wf \in Attempt /\ wf.qa \in 0 .. Len(corr)
      /\ corr \in Seq(Correction)
      /\ wf.qa # 0 => corr[wf.qa].kind = "QA"
  BY DEF CInv, TypeOK, Attempt
<1>2. /\ NewCorrection("QA", 0, 0) \in Correction /\ NewCorrection("QA", 0, 0).kind = "QA"
      /\ NewCorrection("QA", 0, 0).status = "ACTIVE"
      /\ NewCorrection("QA", 0, 0).resumes = 0
  BY NewCorrectionRow, BoundAssumption DEF BoundAssumption, MaxTotal
<1>3. Opening({wf.qa}, NewCorrection("QA", 0, 0))
  BY <1>1, <1>2, EndedOpens DEF QACorrects
<1>4. TableKept
  BY <1>1, <1>3, OpeningKeeps
<1>5. RunsKept /\ NonePasses
  BY SameRunsKept DEF CInv
<1>6. corr'[new].kind = "QA" /\ corr'[new].status = "ACTIVE" /\ corr'[new].resumes = 0 /\ Len(corr') = new
  BY <1>2, <1>3 DEF Opening
<1>7. new \in 0 .. MaxTotal /\ new # 0
  BY <1>1 DEF MaxTotal
<1>8. /\ wf' \in Attempt /\ wf'.status = "QUEUED" /\ wf'.stage = "IMPLEMENT"
      /\ wf'.qa = new /\ wf'.ver = 0
  <2>1. Fix(new, 0) /\ 0 \in 0 .. MaxTotal
    BY DEF QACorrects, MaxTotal
  <2> HIDE DEF new
  <2> QED BY <1>1, <1>7, <2>1, AttemptMoves
<1>9. \A c \in 1 .. Len(corr') : c \in 1 .. Len(corr) \/ c = new
  BY <1>1, <1>6
<1> HIDE DEF new
<1>10. /\ DOMAIN corr = 1 .. Len(corr) /\ DOMAIN corr' = 1 .. Len(corr')
       /\ DOMAIN runs' = 1 .. Len(runs')
       /\ \A c \in 1 .. Len(corr) :
            /\ corr'[c].resumes \in 0 .. c - 1
            /\ corr'[c].kind = "V" => corr'[c].src \in DOMAIN runs' /\ runs'[corr'[c].src].failure # "NONE"
       /\ \A q \in 1 .. Len(runs') : runs'[q].ver \in 0 .. Len(corr)
       /\ RunsFit'
  BY <1>4, <1>5, RowsStay
<1>11. TypeOK'
  <2>1. \A c \in DOMAIN corr' :
          /\ corr'[c].resumes \in 0 .. c - 1
          /\ corr'[c].kind = "V" => corr'[c].src \in DOMAIN runs' /\ runs'[corr'[c].src].failure # "NONE"
    <3>1. 0 \in 0 .. new - 1
      BY <1>1 DEF new
    <3> QED BY <1>6, <1>9, <1>10, <3>1
  <2>2. \A q \in DOMAIN runs' : runs'[q].ver \in 0 .. Len(corr')
    BY <1>1, <1>6, <1>10 DEF new
  <2>3. wf'.qa \in DOMAIN corr' /\ corr'[wf'.qa].kind = "QA"
    BY <1>1, <1>6, <1>8, <1>10 DEF new
  <2>4. corr' \in Seq(Correction) /\ runs' \in Seq(VRun)
    BY <1>4, <1>5 DEF TableKept, RunsKept
  <2> QED BY <1>8, <2>1, <2>2, <2>3, <2>4 DEF TypeOK, CInv
<1>12. \A c \in 1 .. Len(corr) : Open(c)' => /\ Open(c) /\ corr[c].kind = "V" /\ corr'[c].kind = "V"
  <2> SUFFICES ASSUME NEW c \in 1 .. Len(corr), Open(c)'
               PROVE  Open(c) /\ corr[c].kind = "V" /\ corr'[c].kind = "V"
    OBVIOUS
  <2>1. Open(c) /\ corr'[c].kind = corr[c].kind
    BY <1>4, OpenWas DEF TableKept
  <2>2. c # wf.qa
    BY <1>3 DEF Opening, Open
  <2>3. corr[c].kind # "QA"
    BY <1>10, <2>1, <2>2 DEF CInv, CorrectionIsWorkedOn, QACorrectionIsWorkedOn, OpenQA, OpenOf
  <2>4. corr[c] \in Correction
    BY <1>1
  <2> QED BY <2>1, <2>3, <2>4 DEF Correction
<1>13. SharedBudget'
  <2>1. ASSUME NEW c \in 1 .. Len(corr'), NEW d \in 1 .. Len(corr'), Open(c)', Open(d)', corr'[c].kind = corr'[d].kind
        PROVE  c = d
    <3>1. CASE c \in 1 .. Len(corr) /\ d \in 1 .. Len(corr)
      BY <1>10, <1>12, <2>1, <3>1 DEF SharedBudget, CInv
    <3>2. CASE c = new \/ d = new
      BY <1>6, <1>9, <1>12, <2>1, <3>2
    <3> QED BY <1>9, <3>1, <3>2
  <2>2. Len(corr') <= MaxTotal
    BY <1>6, <1>7 DEF MaxTotal
  <2> QED BY <1>10, <2>1, <2>2 DEF SharedBudget
<1>14. \A c \in OpenOf("V")' : Bypassed(c)'
  <2> SUFFICES ASSUME NEW c \in OpenOf("V")' PROVE Bypassed(c)'
    OBVIOUS
  <2>1. c \in OpenOf("V")
    BY <1>6, <1>9, <1>10, <1>12 DEF OpenOf
  <2> QED BY <1>4, <1>5, <2>1, BypassedStays DEF PassedOver, OpenOf
<1>15. CorrectionIsWorkedOn'
  <2>1. \A c \in OpenQA' : c = new
    BY <1>9, <1>10, <1>12 DEF OpenQA, OpenOf
  <2>2. QACorrectionIsWorkedOn'
    BY <1>8, <2>1 DEF QACorrectionIsWorkedOn, Live
  <2>3. VerificationCorrectionIsWorkedOn'
    BY <1>14 DEF VerificationCorrectionIsWorkedOn
  <2> QED BY <2>2, <2>3 DEF CorrectionIsWorkedOn
<1>16. QAIsVerified' /\ QAIsPassedOver' /\ QAIsOpen'
  BY <1>6, <1>7, <1>8 DEF QAIsVerified, QAIsPassedOver, QAIsOpen, Active
<1>17. StagesFit'
  <2>1. \A c \in 1 .. Len(corr) : corr'[c].status # "CANCELLED"
    BY <1>3, <1>10 DEF CInv, StagesFit, Live, Opening
  <2> QED BY <1>6, <1>8, <1>9, <1>10, <2>1 DEF StagesFit
<1> QED BY <1>4, <1>5, <1>10, <1>11, <1>13, <1>15, <1>16, <1>17, PassedStays DEF CInv

OpenVs == OpenOf("V")

\* A step that only ends corrections, or only changes the status of open ones.
LEMMA Closes ==
    ASSUME CInv, RunsKept, NEW S, NEW s, Closing(S, s), \A d \in 1 .. Len(corr) : d \in S => Open(d),
           daemon' \in {"UP", "DOWN"}, tree' \in Tree, plan' \in 1 .. MaxPlans,
           wf' \in Attempt, wf'.qa = wf.qa, wf'.ver = wf.ver
    PROVE  /\ TableKept /\ TypeOK' /\ SharedBudget' /\ RunsFit' /\ (NonePasses => PassedIsClosed')
           /\ \A c \in OpenQA' : c \in OpenQA /\ (s \notin {"ACTIVE", "EXHAUSTED"} => c \notin S)
           /\ \A c \in OpenVs' : c \in OpenVs /\ (s \notin {"ACTIVE", "EXHAUSTED"} => c \notin S)
           /\ PassedOver => PassedOver'
           /\ \A c \in DOMAIN corr : Bypassed(c) => Bypassed(c)'
           /\ wf.qa \notin S /\ Active(wf.qa) => Active(wf.qa)'
           /\ s # "CANCELLED" => \A c \in DOMAIN corr' : corr'[c].status = "CANCELLED" => corr[c].status = "CANCELLED"
           /\ DOMAIN corr' = DOMAIN corr
<1>1. TableKept /\ Len(corr') = Len(corr)
  BY ClosingKeeps DEF CInv, TypeOK, Closing
<1>2. TypeOK' /\ SharedBudget'
  BY <1>1, NoneAdded
<1>3. RunsFit' /\ (NonePasses => PassedIsClosed')
  BY <1>1, RowsStay, PassedStays
<1>4. DOMAIN corr' = 1 .. Len(corr) /\ DOMAIN corr = 1 .. Len(corr)
  BY <1>1, RowsStay
<1>5. \A c \in 1 .. Len(corr) : Open(c)' => Open(c) /\ (s \notin {"ACTIVE", "EXHAUSTED"} => c \notin S)
  <2>1. \A c \in 1 .. Len(corr) : Open(c)' => Open(c)
    BY <1>1, OpenWas
  <2>2. \A c \in 1 .. Len(corr) : Open(c)' => (s \notin {"ACTIVE", "EXHAUSTED"} => c \notin S)
    BY DEF Closing, Open
  <2> QED BY <2>1, <2>2
<1>6. \A c \in OpenQA' : c \in OpenQA /\ (s \notin {"ACTIVE", "EXHAUSTED"} => c \notin S)
  BY <1>1, <1>4, <1>5 DEF OpenQA, OpenOf, TableKept
<1>7. \A c \in OpenVs' : c \in OpenVs /\ (s \notin {"ACTIVE", "EXHAUSTED"} => c \notin S)
  BY <1>1, <1>4, <1>5 DEF OpenVs, OpenOf, TableKept
<1>8. \A c \in DOMAIN corr : Bypassed(c) => Bypassed(c)'
  BY <1>1, BypassedStays
<1>9. PassedOver => PassedOver'
  <2>1. OpenVs \subseteq DOMAIN corr
    BY DEF OpenVs, OpenOf
  <2>2. ASSUME PassedOver, NEW c \in OpenVs'
        PROVE  Bypassed(c)'
    <3>1. c \in OpenVs
      BY <1>1, <1>4, <1>5, <2>2 DEF OpenVs, OpenOf, TableKept
    <3>2. Bypassed(c)
      BY <2>2, <3>1 DEF PassedOver, OpenVs
    <3> QED BY <1>8, <2>1, <3>1, <3>2
  <2> QED BY <2>2 DEF PassedOver, OpenVs
<1>10. wf.qa \notin S /\ Active(wf.qa) => Active(wf.qa)'
  <2>1. wf.qa # 0 => wf.qa \in 1 .. Len(corr)
    BY <1>4 DEF CInv, TypeOK
  <2> QED BY <2>1 DEF Active, Closing
<1>11. s # "CANCELLED" => \A c \in DOMAIN corr' : corr'[c].status = "CANCELLED" => corr[c].status = "CANCELLED"
  BY <1>4 DEF Closing
<1> QED BY <1>1, <1>2, <1>3, <1>4, <1>6, <1>7, <1>8, <1>9, <1>10, <1>11

----
(* The steps *)

StepKeeps == CInv' /\ TableKept

\* Commands that write no correction.
LEMMA RunSteps ==
    ASSUME CInv, OwnerRun \/ GateRun \/ CancelRun \/ FinalizeCancel \/ PublishPlan \/ Crash
    PROVE  StepKeeps
<1>1. RunsKept /\ NonePasses /\ UNCHANGED <<tree, wf, corr>>
  <2>1. CASE OwnerRun \/ GateRun
    BY <2>1, ReserveKeeps DEF OwnerRun, GateRun, CInv
  <2>2. CASE CancelRun \/ FinalizeCancel
    <3>1. Last \in DOMAIN runs /\ Last = Len(runs) /\ DOMAIN runs = 1 .. Len(runs)
      BY <2>2 DEF CancelRun, FinalizeCancel, RunActive, Last, CInv, TypeOK
    <3>2. runs[Last].status \in Unended
      BY <2>2 DEF CancelRun, FinalizeCancel, Unended
    <3>3. \/ RunEnds(Last, "CANCELLING", "NONE")
          \/ RunEnds(Last, "CANCELLED", "INTERRUPTED")
      BY <2>2 DEF CancelRun, FinalizeCancel
    <3>4. "CANCELLING" \in Status.run /\ "CANCELLED" \in Status.run
      BY DEF Status
    <3>5. RunsKept /\ runs'[Last].status # "PASSED"
      BY <3>1, <3>2, <3>3, <3>4, RunEndsKeeps DEF CInv, TypeOK, Unended
    <3>6. \A q \in DOMAIN runs : q # Last => runs'[q] = runs[q]
      BY <3>1, <3>3, <3>4, RunEndsTable DEF CInv, TypeOK
    <3>7. NonePasses
      BY <3>1, <3>5, <3>6 DEF NonePasses
    <3> QED BY <2>2, <3>5, <3>7 DEF CancelRun, FinalizeCancel
  <2>3. CASE PublishPlan \/ Crash
    BY <2>3, SameRunsKept DEF PublishPlan, Crash, CInv
  <2> QED BY <2>1, <2>2, <2>3
<1>2. daemon' \in {"UP", "DOWN"} /\ plan' \in 1 .. MaxPlans
  BY BoundAssumption
  DEF OwnerRun, GateRun, CancelRun, FinalizeCancel, PublishPlan, Crash, CInv, TypeOK, BoundAssumption
<1>3. /\ TableKept /\ TypeOK' /\ SharedBudget' /\ RunsFit' /\ PassedIsClosed'
      /\ OpenQA' = OpenQA /\ (PassedOver => PassedOver')
      /\ \A c : Active(c)' = Active(c) /\ Open(c)' = Open(c)
      /\ CorrectionIsWorkedOn'
  <2>1. wf' \in Attempt /\ tree' \in Tree /\ wf'.qa = wf.qa /\ wf'.ver = wf.ver /\ (Live => Live')
    BY <1>1 DEF CInv, TypeOK, Live
  <2> QED BY <1>1, <1>2, <2>1, NoneWritten
<1>4. QAIsVerified'
  BY <1>1, VerifiedStays
<1>5. QAIsPassedOver' /\ QAIsOpen' /\ StagesFit'
  BY <1>1, <1>3 DEF CInv, QAIsPassedOver, QAIsOpen, StagesFit, Live, Active, Open
<1> QED BY <1>3, <1>4, <1>5 DEF StepKeeps, CInv

LEMMA StageSteps ==
    ASSUME CInv,
           \/ StartQA \/ (\E t \in Tree : Implement(t)) \/ PrepareAcceptance
           \/ PausePipeline \/ ResumePipeline
    PROVE  StepKeeps
<1>1. RunsKept /\ NonePasses /\ UNCHANGED <<daemon, plan, corr, runs>>
  BY SameRunsKept DEF StartQA, Implement, PrepareAcceptance, PausePipeline, ResumePipeline, CInv
<1>2. /\ {"RUNNING", "PREPARED", "PAUSED", "QUEUED"} \subseteq Status.attempt
      /\ wf \in Attempt /\ daemon \in {"UP", "DOWN"} /\ plan \in 1 .. MaxPlans /\ tree \in Tree
  BY DEF Status, CInv, TypeOK
<1>3. /\ wf' \in Attempt /\ wf'.qa = wf.qa /\ wf'.ver = wf.ver
      /\ \/ StartQA /\ wf'.stage = "QA" /\ wf'.status = "RUNNING" /\ tree' = tree
         \/ wf.stage = "IMPLEMENT" /\ wf'.stage = "QA" /\ wf.status = "QUEUED" /\ wf'.status = "QUEUED" /\ tree' \in Tree
         \/ PrepareAcceptance /\ wf.stage = "ACCEPTANCE" /\ wf'.stage = wf.stage /\ wf'.status = "PREPARED" /\ tree' = tree
         \/ wf'.stage = wf.stage /\ wf'.status \in {"PAUSED", "QUEUED"} /\ tree' = tree
      /\ wf.status \in {"QUEUED", "RUNNING", "PAUSED"}
  <2>1. CASE StartQA
    BY <1>2, <2>1, AttemptMoves DEF StartQA, AtQA
  <2>2. CASE \E t \in Tree : Implement(t)
    BY <1>2, <2>2, AttemptMoves DEF Implement
  <2>3. CASE PrepareAcceptance
    BY <1>2, <2>3, AttemptMoves DEF PrepareAcceptance
  <2>4. CASE PausePipeline \/ ResumePipeline
    BY <1>2, <2>4, AttemptMoves DEF PausePipeline, ResumePipeline, Pending
  <2> QED BY <2>1, <2>2, <2>3, <2>4
<1>4. Live /\ Live'
  BY <1>3 DEF Live
<1>5. /\ TableKept /\ TypeOK' /\ SharedBudget' /\ RunsFit' /\ PassedIsClosed'
      /\ OpenQA' = OpenQA /\ (PassedOver => PassedOver')
      /\ \A c : Active(c)' = Active(c) /\ Open(c)' = Open(c)
      /\ CorrectionIsWorkedOn'
  <2>1. tree' \in Tree /\ daemon' \in {"UP", "DOWN"} /\ plan' \in 1 .. MaxPlans
    BY <1>1, <1>2, <1>3
  <2> QED BY <1>1, <1>3, <1>4, <2>1, NoneWritten
<1>6. CASE StartQA
  <2>1. /\ Last \in DOMAIN runs /\ runs[Last].status = "PASSED" /\ runs[Last].tree = tree
    BY <1>6 DEF StartQA, QAMayStart, Ready, Stale, Last, CInv, TypeOK
  <2>2. QAIsVerified'
    BY <1>1, <1>3, <1>6, <2>1 DEF QAIsVerified, StartQA
  <2>3. PassedOver
    <3> SUFFICES ASSUME NEW c \in OpenOf("V") PROVE Bypassed(c)
      BY DEF PassedOver
    <3>1. c \in DOMAIN corr /\ corr[c].kind = "V" /\ Open(c) /\ corr[c].src \in DOMAIN runs
      BY DEF OpenOf, CInv, TypeOK
    <3>2. runs[Last].ver # c
      <4>1. c \in Nat \ {0}
        BY <3>1 DEF CInv, TypeOK
      <4> QED BY <2>1, <3>1, <4>1 DEF CInv, PassedIsClosed
    <3>3. Last \in corr[c].src .. Last
      BY <2>1, <3>1 DEF Last, CInv, TypeOK
    <3> QED BY <2>1, <3>1, <3>2, <3>3 DEF Bypassed
  <2>4. wf.qa # 0 => Active(wf.qa)
    BY <1>6 DEF StartQA
  <2>5. QAIsPassedOver' /\ QAIsOpen'
    BY <1>3, <1>5, <2>3, <2>4 DEF QAIsPassedOver, QAIsOpen, Active
  <2>6. StagesFit'
    BY <1>1, <1>3, <1>6, <1>4 DEF CInv, StagesFit, StartQA, AtQA, Hold
  <2> QED BY <1>5, <2>2, <2>5, <2>6 DEF StepKeeps, CInv
<1>7. CASE wf.stage = "IMPLEMENT" /\ wf'.stage = "QA" /\ wf.status = "QUEUED" /\ wf'.status = "QUEUED"
  <2>1. QAIsVerified' /\ QAIsPassedOver'
    BY <1>7 DEF QAIsVerified, QAIsPassedOver
  <2>2. QAIsOpen'
    BY <1>3, <1>4, <1>5, <1>7 DEF QAIsOpen, CInv, Active, Open
  <2>3. StagesFit'
    BY <1>1, <1>7 DEF CInv, StagesFit
  <2> QED BY <1>5, <2>1, <2>2, <2>3 DEF StepKeeps, CInv
<1>8. CASE PrepareAcceptance
  <2>1. tree' = tree /\ wf.stage = "ACCEPTANCE" /\ wf'.stage = "ACCEPTANCE" /\ wf.status = "QUEUED" /\ wf'.status = "PREPARED"
    BY <1>2, <1>8, AttemptMoves DEF PrepareAcceptance
  <2>2. OpenQA = {}
    <3>1. ASSUME NEW q \in OpenQA
          PROVE  FALSE
      <4>1. wf.qa = q /\ q # 0 /\ q \in DOMAIN corr /\ corr[q].kind = "QA" /\ Open(q)
        BY DEF OpenQA, OpenOf, CInv, CorrectionIsWorkedOn, QACorrectionIsWorkedOn, TypeOK
      <4>2. corr[q].status \in {"PASSED", "SUPERSEDED"}
        BY <1>8, <4>1 DEF PrepareAcceptance, QALineageComplete
      <4> QED BY <4>1, <4>2 DEF Open
    <3> QED BY <3>1
  <2>3. QAIsVerified'
    BY <1>1, <2>1, VerifiedStays
  <2>4. QAIsPassedOver' /\ QAIsOpen'
    BY <1>5, <2>1 DEF QAIsPassedOver, QAIsOpen, CInv
  <2>5. StagesFit'
    BY <1>1, <1>4, <1>5, <2>1, <2>2 DEF CInv, StagesFit
  <2> QED BY <1>5, <2>3, <2>4, <2>5 DEF StepKeeps, CInv
<1>9. CASE wf'.stage = wf.stage /\ wf'.status \in {"PAUSED", "QUEUED"} /\ tree' = tree
  <2>1. QAIsVerified'
    BY <1>1, <1>9, VerifiedStays
  <2>2. QAIsPassedOver' /\ QAIsOpen' /\ StagesFit'
    BY <1>1, <1>3, <1>4, <1>5, <1>9 DEF QAIsPassedOver, QAIsOpen, StagesFit, CInv, Active, Open
  <2> QED BY <1>5, <2>1, <2>2 DEF StepKeeps, CInv
<1> QED BY <1>3, <1>6, <1>7, <1>8, <1>9

LEMMA ResolveStep ==
    ASSUME CInv, ResolveAcceptance
    PROVE  StepKeeps
<1>1. RunsKept /\ NonePasses /\ UNCHANGED <<daemon, tree, plan, corr, runs>>
  BY SameRunsKept DEF ResolveAcceptance, CInv
<1>2. "DONE" \in Status.attempt /\ wf \in Attempt
  BY DEF Status, CInv, TypeOK
<1>3. /\ wf' \in Attempt /\ wf'.qa = wf.qa /\ wf'.ver = wf.ver /\ wf'.stage = wf.stage
      /\ wf.status = "PREPARED" /\ wf'.status = "DONE"
  BY <1>2, AttemptMoves DEF ResolveAcceptance
<1>4. wf.stage = "ACCEPTANCE" /\ OpenQA = {} /\ PassedOver
  BY <1>3 DEF CInv, StagesFit, QAIsPassedOver
<1>5. /\ TableKept /\ TypeOK' /\ SharedBudget' /\ RunsFit' /\ PassedIsClosed'
      /\ OpenQA' = OpenQA /\ PassedOver'
      /\ \A c : Active(c)' = Active(c) /\ Open(c)' = Open(c)
  <2>1. tree' \in Tree /\ daemon' \in {"UP", "DOWN"} /\ plan' \in 1 .. MaxPlans
    BY <1>1 DEF CInv, TypeOK
  <2> QED BY <1>1, <1>3, <1>4, <2>1, NoneWritten
<1>6. CorrectionIsWorkedOn'
  BY <1>4, <1>5
  DEF CorrectionIsWorkedOn, QACorrectionIsWorkedOn, VerificationCorrectionIsWorkedOn, PassedOver
<1>7. QAIsVerified'
  BY <1>1, <1>3, VerifiedStays
<1>8. QAIsPassedOver' /\ QAIsOpen' /\ StagesFit'
  BY <1>1, <1>3, <1>4, <1>5 DEF QAIsPassedOver, QAIsOpen, StagesFit, CInv
<1> QED BY <1>5, <1>6, <1>7, <1>8 DEF StepKeeps, CInv

\* What the failure of a run does to the workflow, whoever records it.
LEMMA FailureStep ==
    ASSUME CInv, RunsKept, NonePasses, NEW r \in 1 .. Len(runs), runs'[r].failure # "NONE",
           FailureWorkflow(r), daemon' \in {"UP", "DOWN"}, UNCHANGED <<tree, plan>>
    PROVE  StepKeeps
<1>1. /\ corr \in Seq(Correction) /\ wf \in Attempt /\ tree' \in Tree /\ plan' \in 1 .. MaxPlans
      /\ DOMAIN corr = 1 .. Len(corr) /\ Len(corr) \in Nat /\ wf.qa \in 0 .. MaxTotal
      /\ runs[r].ver \in 0 .. Len(corr) /\ r \in 0 .. MaxRuns
      /\ wf.qa # 0 => wf.qa \in 1 .. Len(corr) /\ corr[wf.qa].kind = "QA"
      /\ runs[r].ver # 0 => corr[runs[r].ver].kind = "V"
      /\ "GATE_V" \in Status.attempt /\ "EXHAUSTED" \in Status.correction
  BY BoundAssumption DEF CInv, TypeOK, Attempt, RunsFit, Status, BoundAssumption
<1>2. /\ NewCorrection("V", wf.qa, r) \in Correction
  BY <1>1, NewCorrectionRow
<1>3. CASE Pending /\ IsInitial(r) /\ Initial(r)
  <2>1. /\ OpenOf("V") = {} /\ (wf.qa # 0 => Active(wf.qa)) /\ Len(corr) < MaxTotal /\ Live
        /\ corr' = Append(corr, NewCorrection("V", wf.qa, r)) /\ Fix(wf.qa, Len(corr) + 1)
    <3>1. InitialAccepted
      BY <1>3 DEF FailureWorkflow, FailureAccepted
    <3>2. Len(corr) < MaxTotal
      BY <1>1, <1>3 DEF IsInitial, CanStart, MaxAutomatic, MaxTotal
    <3>3. Live
      BY <1>3 DEF Pending, Live
    <3> QED BY <1>3, <3>1, <3>2, <3>3 DEF InitialAccepted, Initial
  <2>2. Opening({}, NewCorrection("V", wf.qa, r))
    BY <1>1, <1>2, <2>1, AppendOpens
  <2> QED BY <1>1, <2>1, <2>2, NewVerification DEF StepKeeps
<1>4. CASE Pending /\ IsSubsequent(r) /\ Subsequent(r)
  <2> DEFINE c == runs[r].ver
  <2>1. /\ Live /\ AtQA /\ c # 0 /\ Active(c) /\ wf.ver = c /\ wf.qa = corr[c].resumes
        /\ (CanStart => OpenOf("V") = {c})
    BY <1>4 DEF FailureWorkflow, FailureAccepted, SubsequentAccepted, IsSubsequent, Pending, Live
  <2>2. wf.qa # 0 => Active(wf.qa)
    BY <2>1 DEF CInv, QAIsOpen, AtQA
  <2> HIDE DEF c
  <2>3. c \in 1 .. Len(corr) /\ c \in 0 .. Len(corr) /\ corr[c].kind = "V" /\ Open(c)
    BY <1>1, <2>1 DEF c, Active, Open
  <2>4. CASE /\ CanStart
             /\ corr' = Append(Ended(c, "SUPERSEDED"), NewCorrection("V", wf.qa, r))
             /\ Fix(wf.qa, Len(corr) + 1)
    <3>1. Opening({c}, NewCorrection("V", wf.qa, r))
      BY <1>1, <1>2, <2>3, <2>4, EndedOpens
    <3>2. Len(corr) < MaxTotal
      BY <1>1, <2>4 DEF CanStart, MaxAutomatic, MaxTotal
    <3> QED BY <1>1, <2>1, <2>2, <2>3, <2>4, <3>1, <3>2, NewVerification DEF StepKeeps
  <2>5. CASE corr' = Ended(c, "EXHAUSTED") /\ Hold("GATE_V")
    <3>1. Closing({c}, "EXHAUSTED")
      BY <1>1, <2>3, <2>5, EndedCloses
    <3>2. /\ wf' \in Attempt /\ wf'.qa = wf.qa /\ wf'.ver = wf.ver /\ wf'.stage = "QA" /\ wf'.status = "GATE_V"
      BY <1>1, <2>1, <2>5, AttemptMoves DEF AtQA
    <3>3. /\ TableKept /\ TypeOK' /\ SharedBudget' /\ RunsFit' /\ PassedIsClosed'
          /\ \A d \in OpenQA' : d \in OpenQA
          /\ \A d \in OpenVs' : d \in OpenVs /\ corr'[d].resumes = corr[d].resumes
          /\ \A d \in DOMAIN corr : Bypassed(d) => Bypassed(d)'
          /\ (wf.qa \notin {c} /\ Active(wf.qa) => Active(wf.qa)')
          /\ \A d \in DOMAIN corr' : corr'[d].status = "CANCELLED" => corr[d].status = "CANCELLED"
          /\ DOMAIN corr' = DOMAIN corr
      <4> DEFINE S == {c}
                 s == "EXHAUSTED"
      <4>1. (\A d \in 1 .. Len(corr) : d \in S => Open(d)) /\ Closing(S, s) /\ s # "CANCELLED"
        BY <2>3, <3>1
      <4> HIDE DEF S, s
      <4>2. TableKept /\ TypeOK' /\ SharedBudget' /\ RunsFit' /\ PassedIsClosed' /\ DOMAIN corr' = DOMAIN corr
        BY <1>1, <3>2, <4>1, Closes
      <4>3. \A d \in DOMAIN corr' : corr'[d].status = "CANCELLED" => corr[d].status = "CANCELLED"
        BY <1>1, <3>2, <4>1, Closes
      <4>4. \A d \in DOMAIN corr : Bypassed(d) => Bypassed(d)'
        BY <1>1, <3>2, <4>1, Closes
      <4>5. wf.qa \notin S /\ Active(wf.qa) => Active(wf.qa)'
        BY <1>1, <3>2, <4>1, Closes
      <4>6. \A d \in OpenQA' : d \in OpenQA
        BY <1>1, <3>2, <4>1, Closes
      <4>7. \A d \in OpenVs' : d \in OpenVs
        BY <1>1, <3>2, <4>1, Closes
      <4>8. \A d \in OpenVs' : d \in OpenVs /\ corr'[d].resumes = corr[d].resumes
        BY <1>1, <4>2, <4>7 DEF OpenVs, OpenOf, TableKept
      <4> QED BY <4>2, <4>3, <4>4, <4>5, <4>6, <4>8 DEF S
    <3>4. wf.qa # 0 => Active(wf.qa)'
      BY <1>1, <2>2, <2>3, <3>3
    <3>5. CorrectionIsWorkedOn'
      <4>1. QACorrectionIsWorkedOn'
        BY <3>2, <3>3 DEF CInv, CorrectionIsWorkedOn, QACorrectionIsWorkedOn, Live
      <4>2. OpenVs \subseteq DOMAIN corr
        BY DEF OpenVs, OpenOf
      <4>3. VerificationCorrectionIsWorkedOn'
        BY <3>2, <3>3, <3>4, <4>2 DEF OpenVs, CInv, CorrectionIsWorkedOn, VerificationCorrectionIsWorkedOn, Live, Active
      <4> QED BY <4>1, <4>3 DEF CorrectionIsWorkedOn
    <3>6. QAIsVerified' /\ QAIsPassedOver'
      BY <3>2 DEF QAIsVerified, QAIsPassedOver
    <3>7. QAIsOpen' /\ StagesFit'
      BY <2>1, <3>2, <3>3, <3>4 DEF QAIsOpen, StagesFit, Active, CInv, Live
    <3> QED BY <3>3, <3>5, <3>6, <3>7 DEF StepKeeps, CInv
  <2> QED BY <1>4, <2>4, <2>5 DEF Subsequent, Superseded, c
<1>5. CASE UNCHANGED corr /\ (UNCHANGED wf \/ (Pending /\ IsMixedGate(r) /\ MixedGateAccepted /\ MixedGate))
  <2>1. /\ wf' \in Attempt /\ wf'.qa = wf.qa /\ wf'.ver = wf.ver /\ wf'.stage = wf.stage
        /\ \/ wf' = wf
           \/ wf.status = "QUEUED" /\ wf'.status = "GATE_V" /\ wf.stage = "QA"
    BY <1>1, <1>5, AttemptMoves DEF MixedGate, MixedGateAccepted, AtQA
  <2>2. Live => Live'
    BY <2>1 DEF Live
  <2>3. /\ TableKept /\ TypeOK' /\ SharedBudget' /\ RunsFit' /\ PassedIsClosed'
        /\ OpenQA' = OpenQA /\ (PassedOver => PassedOver')
        /\ \A c : Active(c)' = Active(c) /\ Open(c)' = Open(c)
        /\ CorrectionIsWorkedOn'
    BY <1>1, <1>5, <2>1, <2>2, NoneWritten
  <2>4. QAIsVerified'
    BY <2>1, VerifiedStays
  <2>5. QAIsPassedOver' /\ QAIsOpen' /\ StagesFit'
    BY <1>5, <2>1, <2>3 DEF QAIsPassedOver, QAIsOpen, StagesFit, CInv, Live, Active, Open
  <2> QED BY <2>3, <2>4, <2>5 DEF StepKeeps, CInv
<1> QED BY <1>3, <1>4, <1>5 DEF FailureWorkflow, FailureAccepted, MixedGate

LEMMA FailedRunSteps ==
    ASSUME CInv, DownHasRun, RunFails \/ Restart
    PROVE  StepKeeps
<1>1. /\ runs \in Seq(VRun) /\ DOMAIN runs = 1 .. Len(runs) /\ Len(runs) \in Nat /\ Last = Len(runs)
      /\ {"FAILED", "CANCELLED", "INTERRUPTED"} \subseteq Status.run
  BY DEF CInv, TypeOK, Last, Status
<1>2. daemon' \in {"UP", "DOWN"} /\ UNCHANGED <<tree, plan>>
  BY DEF RunFails, Restart, CInv, TypeOK
<1>3. ASSUME NEW s \in {"FAILED", "CANCELLED", "INTERRUPTED"}, NEW f \in {"FAILED", "INTERRUPTED"},
             Last \in DOMAIN runs, runs[Last].status \in Unended, RunEnds(Last, s, f)
      PROVE  RunsKept /\ NonePasses /\ runs'[Last].failure # "NONE"
  <2>1. RunsKept /\ runs'[Last].status = s /\ runs'[Last].failure = f
    BY <1>1, <1>3, RunEndsKeeps DEF CInv, Unended
  <2>2. \A q \in DOMAIN runs : q # Last => runs'[q] = runs[q]
    BY <1>1, <1>3, RunEndsTable
  <2> QED BY <1>1, <1>3, <2>1, <2>2 DEF NonePasses
<1>4. CASE RunFails
  <2>1. /\ Last \in DOMAIN runs /\ runs[Last].status \in Unended /\ RunEnds(Last, "FAILED", "FAILED")
        /\ FailureWorkflow(Last)
    BY <1>1, <1>4 DEF RunFails, RunActive, Unended
  <2>2. RunsKept /\ NonePasses /\ runs'[Last].failure # "NONE"
    BY <1>3, <2>1
  <2> QED BY <1>1, <1>2, <2>1, <2>2, FailureStep
<1>5. CASE Restart
  <2>0. Last \in DOMAIN runs
    BY <1>1, <1>5 DEF Restart, DownHasRun, RunActive
  <2>1. CASE /\ runs[Last].status = "CANCELLING"
             /\ RunEnds(Last, "CANCELLED", "INTERRUPTED") /\ UNCHANGED <<wf, corr>>
    <3>1. RunsKept /\ NonePasses
      BY <1>3, <2>0, <2>1 DEF Unended
    <3>2. wf' \in Attempt /\ tree' \in Tree /\ plan' \in 1 .. MaxPlans /\ wf'.qa = wf.qa /\ wf'.ver = wf.ver
          /\ (Live => Live')
      BY <1>2, <2>1 DEF CInv, TypeOK, Live
    <3>3. /\ TableKept /\ TypeOK' /\ SharedBudget' /\ RunsFit' /\ PassedIsClosed'
          /\ OpenQA' = OpenQA /\ (PassedOver => PassedOver')
          /\ \A c : Active(c)' = Active(c) /\ Open(c)' = Open(c)
          /\ CorrectionIsWorkedOn'
      BY <1>2, <2>1, <3>1, <3>2, NoneWritten
    <3>4. QAIsVerified'
      BY <1>2, <2>1, <3>1, VerifiedStays
    <3>5. QAIsPassedOver' /\ QAIsOpen' /\ StagesFit'
      BY <2>1, <3>3 DEF QAIsPassedOver, QAIsOpen, StagesFit, CInv, Live, Active, Open
    <3> QED BY <3>3, <3>4, <3>5 DEF StepKeeps, CInv
  <2>2. CASE /\ runs[Last].status = "ACTIVE"
             /\ RunEnds(Last, "INTERRUPTED", "INTERRUPTED") /\ FailureWorkflow(Last)
    <3>1. RunsKept /\ NonePasses /\ runs'[Last].failure # "NONE"
      BY <1>3, <2>0, <2>2 DEF Unended
    <3> QED BY <1>1, <1>2, <2>0, <2>2, <3>1, FailureStep
  <2> QED BY <1>5, <2>1, <2>2 DEF Restart
<1> QED BY <1>4, <1>5

LEMMA PassStep ==
    ASSUME CInv, RunPasses
    PROVE  StepKeeps
<1> DEFINE c == runs[Last].ver
           S == IF Active(c) THEN {c} ELSE {}
           s == "PASSED"
<1>1. /\ corr \in Seq(Correction) /\ wf \in Attempt /\ Len(corr) \in Nat /\ DOMAIN corr = 1 .. Len(corr)
      /\ DOMAIN runs = 1 .. Len(runs) /\ Len(runs) \in Nat /\ Last = Len(runs) /\ Last \in DOMAIN runs
      /\ runs \in Seq(VRun) /\ "PASSED" \in Status.run /\ "PASSED" \in Status.correction
      /\ runs[Last].status \in Unended /\ RunEnds(Last, "PASSED", "NONE") /\ PassAccepted(Last)
      /\ UNCHANGED <<daemon, tree, plan, wf>>
  BY DEF RunPasses, RunActive, Last, CInv, TypeOK, Unended, Status
<1>2. RunsKept /\ runs'[Last].status = "PASSED" /\ runs'[Last].ver = c
      /\ \A q \in DOMAIN runs : q # Last => runs'[q] = runs[q]
  <2>1. RunsKept
    BY <1>1, RunEndsKeeps DEF CInv, Unended
  <2> QED BY <1>1, <2>1, RunEndsTable
<1>3. c \in 0 .. Len(corr) /\ (c # 0 => corr[c].kind = "V")
  BY <1>1 DEF CInv, TypeOK, RunsFit
<1>4. corr' = IF Active(c) THEN Ended(c, "PASSED") ELSE corr
  BY DEF RunPasses, Passed
<1>5. c # 0 => Active(c) \/ corr[c].status = "PASSED"
  BY <1>1 DEF PassAccepted
<1> HIDE DEF c
<1>6. Closing(S, s)
  <2>1. CASE Active(c)
    BY <1>1, <1>3, <1>4, <2>1, EndedCloses
  <2>2. CASE ~Active(c)
    BY <1>1, <1>4, <2>2 DEF Closing
  <2> QED BY <2>1, <2>2
<1>7. \A d \in 1 .. Len(corr) : d \in S => Open(d) /\ d = c
  BY DEF Active, Open
<1>8. s \notin {"ACTIVE", "EXHAUSTED", "CANCELLED"}
  OBVIOUS
<1>9. wf.qa \notin S
  BY <1>3 DEF CInv, TypeOK, Active
<1>10. c # 0 => corr'[c].status = "PASSED"
  BY <1>1, <1>3, <1>4, <1>5, EndedTable
<1> HIDE DEF S, s
<1>11. wf' \in Attempt /\ wf'.qa = wf.qa /\ wf'.ver = wf.ver /\ daemon' \in {"UP", "DOWN"} /\ tree' \in Tree
       /\ plan' \in 1 .. MaxPlans
  BY <1>1 DEF CInv, TypeOK
<1>12. TableKept /\ TypeOK' /\ SharedBudget' /\ RunsFit' /\ DOMAIN corr' = DOMAIN corr
  BY <1>2, <1>6, <1>7, <1>11, Closes
<1>13. \A d \in DOMAIN corr' : corr'[d].status = "CANCELLED" => corr[d].status = "CANCELLED"
  BY <1>2, <1>6, <1>7, <1>8, <1>11, Closes
<1>14. \A d \in DOMAIN corr : Bypassed(d) => Bypassed(d)'
  BY <1>2, <1>6, <1>7, <1>11, Closes
<1>15. (Active(wf.qa) => Active(wf.qa)') /\ (PassedOver => PassedOver')
  BY <1>2, <1>6, <1>7, <1>9, <1>11, Closes
<1>16. \A d \in OpenQA' : d \in OpenQA
  BY <1>2, <1>6, <1>7, <1>11, Closes
<1>17. \A d \in OpenVs' : d \in OpenVs
  BY <1>2, <1>6, <1>7, <1>11, Closes
<1>18. \A d \in OpenVs' : d \in OpenVs /\ d \in DOMAIN corr /\ corr'[d].resumes = corr[d].resumes
  BY <1>1, <1>12, <1>17 DEF OpenVs, OpenOf, TableKept
<1>19. PassedIsClosed'
  <2>1. ASSUME NEW q \in 1 .. Len(runs'), runs'[q].status = "PASSED", runs'[q].ver # 0
        PROVE  corr'[runs'[q].ver].status \notin {"ACTIVE", "EXHAUSTED"}
    <3>1. CASE q = Last
      BY <1>2, <1>10, <2>1, <3>1
    <3>2. CASE q # Last
      <4>1. ~(q > Len(runs))
        BY <1>2, <2>1 DEF RunsKept
      <4>2. q \in DOMAIN runs /\ runs'[q] = runs[q]
        <5>1. q \in DOMAIN runs
          BY <1>1, <1>2, <4>1 DEF RunsKept
        <5> QED BY <1>2, <3>2, <5>1
      <4>3. runs[q].ver \in 1 .. Len(corr)
        BY <1>1, <2>1, <4>2 DEF CInv, TypeOK
      <4>4. ~Open(runs[q].ver)
        BY <2>1, <4>2 DEF CInv, PassedIsClosed
      <4> QED BY <1>12, <4>2, <4>3, <4>4 DEF TableKept, Open
    <3> QED BY <3>1, <3>2
  <2>2. DOMAIN runs' = 1 .. Len(runs')
    BY <1>2 DEF RunsKept
  <2> QED BY <2>1, <2>2 DEF PassedIsClosed, Open
<1>20. CorrectionIsWorkedOn'
  <2>1. QACorrectionIsWorkedOn'
    BY <1>1, <1>16 DEF CInv, CorrectionIsWorkedOn, QACorrectionIsWorkedOn, Live
  <2>2. VerificationCorrectionIsWorkedOn'
    BY <1>1, <1>14, <1>15, <1>18 DEF OpenVs, CInv, CorrectionIsWorkedOn, VerificationCorrectionIsWorkedOn, Live, Active
  <2> QED BY <2>1, <2>2 DEF CorrectionIsWorkedOn
<1>21. QAIsVerified'
  BY <1>1, <1>2, VerifiedStays
<1>22. QAIsPassedOver'
  BY <1>1, <1>15 DEF QAIsPassedOver, CInv
<1>23. QAIsOpen'
  <2>1. wf.qa # 0 /\ Open(wf.qa) => Open(wf.qa)'
    BY <1>1, <1>6, <1>9 DEF Closing, Open, CInv, TypeOK
  <2> QED BY <1>1, <1>15, <2>1 DEF QAIsOpen, CInv, Active, Open, Live
<1>24. StagesFit'
  <2>1. OpenQA = {} => OpenQA' = {}
    BY <1>16
  <2> QED BY <1>1, <1>12, <1>13, <2>1 DEF StagesFit, CInv
<1> QED BY <1>12, <1>19, <1>20, <1>21, <1>22, <1>23, <1>24 DEF StepKeeps, CInv

LEMMA StaleStep ==
    ASSUME CInv, MaterializeStale
    PROVE  StepKeeps
<1>1. /\ corr \in Seq(Correction) /\ wf \in Attempt /\ Len(corr) \in Nat /\ Len(runs) \in Nat
      /\ Last = Len(runs) /\ Last \in 1 .. Len(runs) /\ DOMAIN runs = 1 .. Len(runs) /\ runs \in Seq(VRun)
      /\ Len(runs) <= MaxRuns /\ Last \in 0 .. MaxRuns /\ wf.qa \in 0 .. MaxTotal
      /\ runs[Last].status = "PASSED" /\ runs[Last].failure = "NONE" /\ AtQA /\ Live
      /\ UNCHANGED <<daemon, tree, plan>>
  BY BoundAssumption
  DEF MaterializeStale, BecameStale, Last, CInv, TypeOK, RunsFit, Attempt, AtQA, Live, BoundAssumption
<1>2. /\ runs' \in Seq(VRun) /\ Len(runs') = Len(runs)
      /\ runs'[Last].failure = "STALE" /\ runs'[Last].status = "PASSED"
      /\ runs'[Last].tree = runs[Last].tree /\ runs'[Last].plan = runs[Last].plan /\ runs'[Last].ver = runs[Last].ver
      /\ \A q \in DOMAIN runs : q # Last => runs'[q] = runs[q]
  <2> DEFINE row == [runs[Last] EXCEPT !.failure = "STALE"]
  <2>1. runs[Last] \in VRun
    BY <1>1
  <2>2. /\ row \in VRun /\ row.status = runs[Last].status /\ row.failure = "STALE"
        /\ row.tree = runs[Last].tree /\ row.plan = runs[Last].plan /\ row.ver = runs[Last].ver
    BY <2>1 DEF VRun
  <2>3. runs' = [runs EXCEPT ![Last] = row]
    BY DEF MaterializeStale
  <2> HIDE DEF row
  <2> QED BY <1>1, <2>2, <2>3
<1>3. RunsKept
  <2>1. \A q \in 1 .. Len(runs) : runs[q].status \in Unended => runs[q].failure = "NONE"
    BY <1>1 DEF CInv, RunsFit
  <2>2. "PASSED" \notin Unended
    BY DEF Unended
  <2>3. \A q \in 1 .. Len(runs') : runs'[q].status \in Unended => runs'[q].failure = "NONE"
    BY <1>1, <1>2, <2>1, <2>2
  <2>4. \A q \in 1 .. Len(runs) :
         /\ runs'[q].tree = runs[q].tree /\ runs'[q].plan = runs[q].plan /\ runs'[q].ver = runs[q].ver
         /\ runs'[q].status = runs[q].status
         /\ runs[q].failure # "NONE" => runs'[q].failure = runs[q].failure
    BY <1>1, <1>2
  <2>5. /\ runs' \in Seq(VRun) /\ Len(runs) <= Len(runs') /\ Len(runs') <= MaxRuns
        /\ \A q \in 1 .. Len(runs') : ~(q > Len(runs))
    BY <1>1, <1>2
  <2> QED BY <2>3, <2>4, <2>5 DEF RunsKept
<1>4. NonePasses
  BY <1>1, <1>2 DEF NonePasses
<1>5. daemon' \in {"UP", "DOWN"} /\ tree' \in Tree /\ plan' \in 1 .. MaxPlans
  BY <1>1 DEF CInv, TypeOK
<1>6. CASE CanStart
  <2>1. OpenOf("V") = {} /\ (wf.qa # 0 => Active(wf.qa)) /\ Initial(Last)
    BY <1>6 DEF MaterializeStale, StaleAccepted
  <2>2. Len(corr) < MaxTotal
    BY <1>1, <1>6 DEF CanStart, MaxAutomatic, MaxTotal
  <2>3. NewCorrection("V", wf.qa, Last) \in Correction
    BY <1>1, NewCorrectionRow
  <2>4. Opening({}, NewCorrection("V", wf.qa, Last))
    BY <1>1, <2>1, <2>3, AppendOpens DEF Initial
  <2>5. runs'[Last].failure # "NONE" /\ OpenOf("V") \subseteq {} /\ Fix(wf.qa, Len(corr) + 1)
    BY <1>2, <2>1 DEF Initial
  <2> QED BY <1>1, <1>3, <1>4, <1>5, <2>1, <2>2, <2>4, <2>5, NewVerification DEF StepKeeps
<1>7. CASE ~CanStart
  <2>1. Hold("GATE_V") /\ UNCHANGED corr /\ "GATE_V" \in Status.attempt
    BY <1>7 DEF MaterializeStale, MixedGate, Status
  <2>2. /\ wf' \in Attempt /\ wf'.qa = wf.qa /\ wf'.ver = wf.ver /\ wf'.stage = "QA" /\ wf'.status = "GATE_V"
        /\ wf.stage = "QA" /\ wf.status = "QUEUED"
    BY <1>1, <2>1, AttemptMoves DEF AtQA
  <2>3. Live'
    BY <2>2 DEF Live
  <2>4. /\ TableKept /\ TypeOK' /\ SharedBudget' /\ RunsFit' /\ PassedIsClosed'
        /\ \A c : Active(c)' = Active(c) /\ Open(c)' = Open(c)
        /\ CorrectionIsWorkedOn'
    BY <1>3, <1>4, <1>5, <2>1, <2>2, <2>3, NoneWritten
  <2>5. QAIsVerified' /\ QAIsPassedOver'
    BY <2>2 DEF QAIsVerified, QAIsPassedOver
  <2>6. QAIsOpen' /\ StagesFit'
    BY <1>1, <2>1, <2>2, <2>4 DEF QAIsOpen, StagesFit, CInv, Active, Open, Live
  <2> QED BY <2>4, <2>5, <2>6 DEF StepKeeps, CInv
<1> QED BY <1>6, <1>7

LEMMA AuthorizeVerificationStep ==
    ASSUME CInv, AuthorizeVerification
    PROVE  StepKeeps
<1>1. PICK r \in Latest(OfCorrection(wf.ver)) :
        /\ GateAccepted(r)
        /\ corr' = Append(Settled("SUPERSEDED"), NewCorrection("V", wf.qa, r))
  BY DEF AuthorizeVerification
<1>2. /\ corr \in Seq(Correction) /\ wf \in Attempt /\ Len(corr) \in Nat /\ Len(runs) \in Nat
      /\ DOMAIN corr = 1 .. Len(corr) /\ wf.qa \in 0 .. MaxTotal /\ wf.ver \in 0 .. Len(corr)
      /\ r \in 1 .. Len(runs) /\ runs[r].failure # "NONE" /\ r \in 0 .. MaxRuns
      /\ wf.ver # 0 => corr[wf.ver].kind = "V"
  BY <1>1, BoundAssumption DEF Latest, OfCorrection, CInv, TypeOK, RunsFit, Attempt, BoundAssumption
<1>3. /\ wf.qa # 0 => Active(wf.qa)
      /\ wf.ver # 0 => corr[wf.ver].status \in {"PASSED", "EXHAUSTED"}
      /\ Live
  BY <1>1
  DEF GateAccepted, OwnGateAccepted, MixedResolutionAccepted, StaleGate, MeasuredGate, Live
<1>4. NewCorrection("V", wf.qa, r) \in Correction
  BY <1>2, NewCorrectionRow
<1>5. RunsKept /\ NonePasses /\ UNCHANGED <<daemon, tree, plan, runs>>
  BY SameRunsKept DEF AuthorizeVerification, CInv
<1>6. /\ daemon' \in {"UP", "DOWN"} /\ plan' \in 1 .. MaxPlans /\ tree' = tree
      /\ Len(corr) < MaxTotal /\ Fix(wf.qa, Len(corr) + 1) /\ runs'[r].failure # "NONE"
  BY <1>2, <1>5 DEF CInv, TypeOK, AuthorizeVerification, CanAuthorize
<1>7. OpenOf("V") \subseteq {wf.ver}
  BY DEF AuthorizeVerification
<1>8. CASE wf.ver # 0 /\ corr[wf.ver].status = "EXHAUSTED"
  <2>1. Opening({wf.ver}, NewCorrection("V", wf.qa, r))
    BY <1>1, <1>2, <1>4, <1>8, EndedOpens DEF Settled
  <2>2. \A d \in 1 .. Len(corr) : d \in {wf.ver} => Open(d) /\ corr[d].kind = "V"
    BY <1>2, <1>8 DEF Open
  <2> QED BY <1>2, <1>3, <1>5, <1>6, <1>7, <2>1, <2>2, NewVerification DEF StepKeeps
<1>9. CASE ~(wf.ver # 0 /\ corr[wf.ver].status = "EXHAUSTED")
  <2>1. Opening({}, NewCorrection("V", wf.qa, r))
    BY <1>1, <1>2, <1>4, <1>9, AppendOpens DEF Settled
  <2>2. OpenOf("V") \subseteq {}
    BY <1>2, <1>3, <1>7, <1>9 DEF OpenOf, Open
  <2> QED BY <1>2, <1>3, <1>5, <1>6, <2>1, <2>2, NewVerification DEF StepKeeps
<1> QED BY <1>8, <1>9

\* A delivery that is given up closes what it worked for.
LEMMA GivenUp ==
    ASSUME CInv, UNCHANGED <<daemon, tree, plan, runs>>,
           NEW S, Closing(S, "CANCELLED"), \A d \in 1 .. Len(corr) : d \in S => Open(d),
           Hold("CANCELLED"), OpenQA \subseteq S, \A c \in OpenVs : c \in S \/ Bypassed(c)
    PROVE  StepKeeps
<1> DEFINE s == "CANCELLED"
<1>1. "CANCELLED" \in Status.attempt /\ wf \in Attempt
  BY DEF Status, CInv, TypeOK
<1>2. /\ wf' \in Attempt /\ wf'.qa = wf.qa /\ wf'.ver = wf.ver /\ wf'.stage = wf.stage /\ wf'.status = "CANCELLED"
      /\ daemon' \in {"UP", "DOWN"} /\ tree' \in Tree /\ plan' \in 1 .. MaxPlans
  BY <1>1, AttemptMoves DEF CInv, TypeOK
<1>3. RunsKept /\ NonePasses
  BY SameRunsKept DEF CInv
<1>4. Closing(S, s) /\ s \notin {"ACTIVE", "EXHAUSTED"}
  OBVIOUS
<1> HIDE DEF s
<1>5. TableKept /\ TypeOK' /\ SharedBudget' /\ RunsFit' /\ PassedIsClosed' /\ DOMAIN corr' = DOMAIN corr
  BY <1>2, <1>3, <1>4, Closes
<1>6. (\A c \in OpenQA' : c \in OpenQA /\ c \notin S) /\ (PassedOver => PassedOver')
  BY <1>2, <1>3, <1>4, Closes
<1>7. \A c \in OpenVs' : c \in OpenVs /\ c \notin S
  BY <1>2, <1>3, <1>4, Closes
<1>8. \A c \in DOMAIN corr : Bypassed(c) => Bypassed(c)'
  BY <1>2, <1>3, <1>4, Closes
<1>9. OpenQA' = {}
  BY <1>6
<1>10. \A c \in OpenVs' : Bypassed(c)'
  BY <1>7, <1>8 DEF OpenVs, OpenOf
<1>11. CorrectionIsWorkedOn'
  BY <1>9, <1>10 DEF CorrectionIsWorkedOn, QACorrectionIsWorkedOn, VerificationCorrectionIsWorkedOn, OpenVs
<1>12. QAIsVerified'
  BY <1>2, <1>3, VerifiedStays
<1>13. QAIsPassedOver' /\ QAIsOpen' /\ StagesFit'
  BY <1>2, <1>6, <1>9 DEF QAIsPassedOver, QAIsOpen, StagesFit, CInv, Live
<1> QED BY <1>5, <1>11, <1>12, <1>13 DEF StepKeeps, CInv

\* What is open is what the live attempt works for.
LEMMA OpenIsOwn ==
    ASSUME CInv
    PROVE  /\ corr \in Seq(Correction) /\ DOMAIN corr = 1 .. Len(corr) /\ Len(corr) \in Nat
           /\ wf.qa \in 0 .. Len(corr) /\ wf.ver \in 0 .. Len(corr)
           /\ OpenQA \subseteq {wf.qa} /\ OpenQA \subseteq 1 .. Len(corr)
           /\ \A c \in OpenVs : c \in 1 .. Len(corr) /\ Open(c) /\ (c = wf.ver \/ Bypassed(c))
           /\ "CANCELLED" \in Status.correction /\ "PASSED" \in Status.correction /\ "EXHAUSTED" \in Status.correction
<1>1. /\ corr \in Seq(Correction) /\ DOMAIN corr = 1 .. Len(corr) /\ Len(corr) \in Nat
      /\ wf.qa \in 0 .. Len(corr) /\ wf.ver \in 0 .. Len(corr)
  BY DEF CInv, TypeOK, Attempt
<1>2. OpenQA \subseteq {wf.qa} /\ OpenQA \subseteq 1 .. Len(corr)
  BY <1>1 DEF CInv, CorrectionIsWorkedOn, QACorrectionIsWorkedOn, OpenQA, OpenOf
<1>3. \A c \in OpenVs : c \in 1 .. Len(corr) /\ Open(c) /\ (c = wf.ver \/ Bypassed(c))
  BY <1>1 DEF CInv, CorrectionIsWorkedOn, VerificationCorrectionIsWorkedOn, OpenVs, OpenOf
<1> QED BY <1>1, <1>2, <1>3 DEF Status

LEMMA CancelAtVerificationStep ==
    ASSUME CInv, CancelAtVerificationGate
    PROVE  StepKeeps
<1>1. PICK r \in Latest(OfCorrection(wf.ver)) : GateAccepted(r)
  BY DEF CancelAtVerificationGate
<1>2. /\ wf.qa # 0 => Active(wf.qa)
      /\ wf.ver # 0 => corr[wf.ver].status \in {"PASSED", "EXHAUSTED"}
  BY <1>1 DEF GateAccepted, OwnGateAccepted, MixedResolutionAccepted, StaleGate, MeasuredGate
<1> DEFINE v == IF wf.ver # 0 /\ corr[wf.ver].status = "EXHAUSTED" THEN wf.ver ELSE 0
           t == Ended(v, "CANCELLED")
           S == {v, wf.qa} \ {0}
<1>3. v \in 0 .. Len(corr) /\ (v # 0 => Open(v)) /\ (wf.qa # 0 => Open(wf.qa))
  BY <1>2, OpenIsOwn DEF Open, Active
<1>4. wf.ver # 0 /\ Open(wf.ver) => v = wf.ver
  BY <1>2 DEF Open
<1>5. Settled("CANCELLED") = t
  BY DEF Settled, Ended
<1>6. corr' = IF wf.qa = 0 THEN t ELSE [t EXCEPT ![wf.qa].status = "CANCELLED"]
  BY <1>5 DEF CancelAtVerificationGate, WithSuspended
<1> HIDE DEF v
<1>7. /\ t \in Seq(Correction) /\ Len(t) = Len(corr)
      /\ \A d \in 1 .. Len(corr) :
           /\ t[d].kind = corr[d].kind /\ t[d].resumes = corr[d].resumes /\ t[d].src = corr[d].src
           /\ IF d = v THEN t[d].status = "CANCELLED" ELSE t[d] = corr[d]
  BY <1>3, OpenIsOwn, EndedTable
<1> HIDE DEF t
<1>8. Closing(S, "CANCELLED")
  <2>1. CASE wf.qa = 0
    BY <1>3, <1>6, <1>7, <2>1, OpenIsOwn DEF Closing
  <2>2. CASE wf.qa # 0
    <3>1. /\ wf.qa \in 1 .. Len(t) /\ t \in Seq(Correction) /\ "CANCELLED" \in Status.correction
          /\ corr' = [t EXCEPT ![wf.qa].status = "CANCELLED"]
      BY <1>6, <1>7, <2>2, OpenIsOwn
    <3>2. /\ corr' \in Seq(Correction) /\ Len(corr') = Len(t)
          /\ \A d \in 1 .. Len(t) :
               /\ corr'[d].kind = t[d].kind /\ corr'[d].resumes = t[d].resumes /\ corr'[d].src = t[d].src
               /\ IF d = wf.qa THEN corr'[d].status = "CANCELLED" ELSE corr'[d] = t[d]
      BY <3>1, StatusWritten
    <3> QED BY <1>3, <1>7, <3>2, OpenIsOwn DEF Closing
  <2> QED BY <2>1, <2>2
<1>9. \A d \in 1 .. Len(corr) : d \in S => Open(d)
  BY <1>3
<1>10. OpenQA \subseteq S /\ \A c \in OpenVs : c \in S \/ Bypassed(c)
  BY <1>4, OpenIsOwn
<1> HIDE DEF S
<1>11. UNCHANGED <<daemon, tree, plan, runs>> /\ Hold("CANCELLED")
  BY DEF CancelAtVerificationGate
<1> QED BY <1>8, <1>9, <1>10, <1>11, GivenUp

LEMMA CancelPipelineStep ==
    ASSUME CInv, CancelPipeline
    PROVE  StepKeeps
<1> DEFINE c == IF OpenV # 0 THEN OpenV ELSE IF OpenQA # {} THEN wf.qa ELSE 0
           S == {c} \ {0}
<1>1. /\ UNCHANGED <<daemon, tree, plan, runs>> /\ Hold("CANCELLED")
      /\ OpenV # 0 => OpenQA = {}
      /\ corr' = Ended(c, "CANCELLED")
  BY DEF CancelPipeline, CancelAccepted, Ended
<1>2. OpenV = (IF wf.ver # 0 /\ Open(wf.ver) THEN wf.ver ELSE 0)
  BY DEF OpenV
<1> HIDE DEF OpenV
<1>3. OpenQA # {} => wf.qa \in OpenQA /\ Open(wf.qa)
  BY OpenIsOwn DEF OpenQA, OpenOf
<1>4. c \in 0 .. Len(corr) /\ (c # 0 => Open(c))
  BY <1>2, <1>3, OpenIsOwn
<1>5. OpenQA \subseteq S /\ \A d \in OpenVs : d \in S \/ Bypassed(d)
  <2>1. OpenQA \subseteq S
    BY <1>1, <1>3, OpenIsOwn
  <2>2. \A d \in OpenVs : d \in S \/ Bypassed(d)
    BY <1>2, OpenIsOwn
  <2> QED BY <2>1, <2>2
<1> HIDE DEF c
<1>6. Closing(S, "CANCELLED")
  <2>1. Closing({c}, "CANCELLED")
    BY <1>1, <1>4, OpenIsOwn, EndedCloses
  <2> QED BY <1>4, <2>1, OpenIsOwn DEF Closing
<1>7. \A d \in 1 .. Len(corr) : d \in S => Open(d)
  BY <1>4
<1> HIDE DEF S
<1> QED BY <1>1, <1>5, <1>6, <1>7, GivenUp

\* While QA runs or waits for its owner, its correction is open.
LEMMA QAIsAtWork ==
    ASSUME CInv, (wf.stage = "QA" /\ wf.status = "RUNNING") \/ wf.status = "GATE_QA"
    PROVE  wf.stage = "QA" /\ Live /\ PassedOver /\ (wf.qa # 0 => Open(wf.qa))
<1>1. wf.stage = "QA" /\ Live /\ PassedOver
  BY DEF CInv, StagesFit, Live, QAIsPassedOver
<1>2. wf.qa # 0 => Open(wf.qa)
  BY <1>1 DEF CInv, QAIsOpen, Active, Open
<1> QED BY <1>1, <1>2

LEMMA CancelAtQAStep ==
    ASSUME CInv, CancelAtQAGate
    PROVE  StepKeeps
<1> DEFINE S == {wf.qa} \ {0}
<1>1. /\ UNCHANGED <<daemon, tree, plan, runs>> /\ Hold("CANCELLED") /\ corr' = Ended(wf.qa, "CANCELLED")
      /\ wf.status = "GATE_QA"
  BY DEF CancelAtQAGate, QAGateAccepted
<1>2. PassedOver /\ (wf.qa # 0 => Open(wf.qa))
  BY <1>1, QAIsAtWork
<1>3. Closing({wf.qa}, "CANCELLED")
  BY <1>1, OpenIsOwn, EndedCloses
<1>4. Closing(S, "CANCELLED") /\ \A d \in 1 .. Len(corr) : d \in S => Open(d)
  BY <1>2, <1>3, OpenIsOwn DEF Closing
<1>5. OpenQA \subseteq S /\ \A d \in OpenVs : d \in S \/ Bypassed(d)
  BY <1>2, OpenIsOwn DEF PassedOver, OpenVs
<1> HIDE DEF S
<1> QED BY <1>1, <1>4, <1>5, GivenUp

LEMMA QAFailsStep ==
    ASSUME CInv, QAFails
    PROVE  StepKeeps
<1>1. /\ UNCHANGED <<daemon, tree, plan, runs>> /\ wf.stage = "QA" /\ wf.status = "RUNNING"
  BY DEF QAFails, InQA
<1>2. Live /\ PassedOver /\ (wf.qa # 0 => Open(wf.qa))
  BY <1>1, QAIsAtWork
<1>3. CASE CanStart /\ QACorrects
  <2>1. Len(corr) < MaxTotal
    BY <1>3, OpenIsOwn DEF CanStart, MaxAutomatic, MaxTotal
  <2> QED BY <1>1, <1>2, <1>3, <2>1, NewQA DEF StepKeeps
<1>4. CASE QAWaitsForOwner
  <2> DEFINE S == {wf.qa} \ {0}
             s == "EXHAUSTED"
  <2>1. corr' = Ended(wf.qa, "EXHAUSTED") /\ Hold("GATE_QA") /\ "GATE_QA" \in Status.attempt /\ wf \in Attempt
    BY <1>4 DEF QAWaitsForOwner, Status, CInv, TypeOK
  <2>2. /\ wf' \in Attempt /\ wf'.qa = wf.qa /\ wf'.ver = wf.ver /\ wf'.stage = "QA" /\ wf'.status = "GATE_QA"
        /\ daemon' \in {"UP", "DOWN"} /\ tree' \in Tree /\ plan' \in 1 .. MaxPlans
    BY <1>1, <2>1, AttemptMoves DEF CInv, TypeOK
  <2>3. RunsKept /\ NonePasses
    BY <1>1, SameRunsKept DEF CInv
  <2>4. Closing({wf.qa}, "EXHAUSTED")
    BY <2>1, OpenIsOwn, EndedCloses
  <2>5. Closing(S, s) /\ s # "CANCELLED" /\ \A d \in 1 .. Len(corr) : d \in S => Open(d)
    BY <1>2, <2>4, OpenIsOwn DEF Closing
  <2>6. wf.qa # 0 => Open(wf.qa)'
    BY <2>2, <2>4, OpenIsOwn DEF Closing, Open
  <2> HIDE DEF S, s
  <2>7. TableKept /\ TypeOK' /\ SharedBudget' /\ RunsFit' /\ PassedIsClosed' /\ DOMAIN corr' = DOMAIN corr
    BY <2>2, <2>3, <2>5, Closes
  <2>8. (\A c \in OpenQA' : c \in OpenQA) /\ (PassedOver => PassedOver')
    BY <2>2, <2>3, <2>5, Closes
  <2>9. \A c \in DOMAIN corr' : corr'[c].status = "CANCELLED" => corr[c].status = "CANCELLED"
    BY <2>2, <2>3, <2>5, Closes
  <2>10. CorrectionIsWorkedOn'
    <3>1. QACorrectionIsWorkedOn'
      BY <2>2, <2>8 DEF CInv, CorrectionIsWorkedOn, QACorrectionIsWorkedOn, Live
    <3>2. VerificationCorrectionIsWorkedOn'
      BY <1>2, <2>8 DEF VerificationCorrectionIsWorkedOn, PassedOver
    <3> QED BY <3>1, <3>2 DEF CorrectionIsWorkedOn
  <2>11. QAIsVerified'
    BY <2>2 DEF QAIsVerified
  <2>12. QAIsPassedOver' /\ QAIsOpen'
    BY <1>2, <2>2, <2>6, <2>8 DEF QAIsPassedOver, QAIsOpen
  <2>13. StagesFit'
    BY <1>1, <2>2, <2>7, <2>9 DEF StagesFit, CInv
  <2> QED BY <2>7, <2>10, <2>11, <2>12, <2>13 DEF StepKeeps, CInv
<1> QED BY <1>3, <1>4 DEF QAFails

LEMMA AuthorizeQAStep ==
    ASSUME CInv, AuthorizeQA
    PROVE  StepKeeps
<1>1. /\ UNCHANGED <<daemon, tree, plan, runs>> /\ wf.status = "GATE_QA" /\ Len(corr) < MaxTotal /\ QACorrects
  BY DEF AuthorizeQA, QAGateAccepted, CanAuthorize
<1> QED BY <1>1, QAIsAtWork, NewQA DEF StepKeeps

LEMMA QAPassesStep ==
    ASSUME CInv, QAPasses
    PROVE  StepKeeps
<1> DEFINE S == {wf.qa} \ {0}
           s == "PASSED"
<1>1. /\ UNCHANGED <<daemon, tree, plan, runs>> /\ wf.stage = "QA" /\ wf.status = "RUNNING"
      /\ corr' = Ended(wf.qa, "PASSED") /\ To("ACCEPTANCE") /\ wf \in Attempt
  BY DEF QAPasses, InQA, CInv, TypeOK
<1>2. Live /\ PassedOver /\ (wf.qa # 0 => Open(wf.qa))
  BY <1>1, QAIsAtWork
<1>3. /\ wf' \in Attempt /\ wf'.qa = wf.qa /\ wf'.ver = wf.ver /\ wf'.stage = "ACCEPTANCE" /\ wf'.status = "QUEUED"
      /\ daemon' \in {"UP", "DOWN"} /\ tree' \in Tree /\ plan' \in 1 .. MaxPlans
  BY <1>1, AttemptMoves DEF CInv, TypeOK
<1>4. RunsKept /\ NonePasses
  BY <1>1, SameRunsKept DEF CInv
<1>5. Closing({wf.qa}, "PASSED")
  BY <1>1, OpenIsOwn, EndedCloses
<1>6. Closing(S, s) /\ s \notin {"ACTIVE", "EXHAUSTED", "CANCELLED"} /\ \A d \in 1 .. Len(corr) : d \in S => Open(d)
  BY <1>2, <1>5, OpenIsOwn DEF Closing
<1>7. OpenQA \subseteq S
  BY OpenIsOwn
<1> HIDE DEF S, s
<1>8. TableKept /\ TypeOK' /\ SharedBudget' /\ RunsFit' /\ PassedIsClosed' /\ DOMAIN corr' = DOMAIN corr
  BY <1>3, <1>4, <1>6, Closes
<1>9. (\A c \in OpenQA' : c \in OpenQA /\ c \notin S) /\ (PassedOver => PassedOver')
  BY <1>3, <1>4, <1>6, Closes
<1>10. \A c \in DOMAIN corr' : corr'[c].status = "CANCELLED" => corr[c].status = "CANCELLED"
  BY <1>3, <1>4, <1>6, Closes
<1>11. OpenQA' = {} /\ PassedOver'
  BY <1>2, <1>7, <1>9
<1>12. CorrectionIsWorkedOn'
  BY <1>11
  DEF CorrectionIsWorkedOn, QACorrectionIsWorkedOn, VerificationCorrectionIsWorkedOn, PassedOver
<1>13. QAIsVerified'
  BY <1>1, <1>4, VerifiedStays
<1>14. QAIsPassedOver' /\ QAIsOpen'
  BY <1>3, <1>11 DEF QAIsPassedOver, QAIsOpen
<1>15. StagesFit'
  BY <1>1, <1>3, <1>8, <1>10 DEF StagesFit, CInv
<1> QED BY <1>8, <1>12, <1>13, <1>14, <1>15 DEF StepKeeps, CInv

LEMMA Untouched ==
    ASSUME CInv, UNCHANGED vars
    PROVE  StepKeeps
<1>1. RunsKept /\ NonePasses /\ UNCHANGED <<daemon, tree, plan, wf, corr, runs>>
  BY SameRunsKept DEF vars, CInv
<1>2. wf' \in Attempt /\ tree' \in Tree /\ daemon' \in {"UP", "DOWN"} /\ plan' \in 1 .. MaxPlans
      /\ wf'.qa = wf.qa /\ wf'.ver = wf.ver /\ (Live => Live')
  BY <1>1 DEF CInv, TypeOK, Live
<1>3. /\ TableKept /\ TypeOK' /\ SharedBudget' /\ RunsFit' /\ PassedIsClosed'
      /\ OpenQA' = OpenQA /\ (PassedOver => PassedOver')
      /\ \A c : Active(c)' = Active(c) /\ Open(c)' = Open(c)
      /\ CorrectionIsWorkedOn'
  BY <1>1, <1>2, NoneWritten
<1>4. QAIsVerified'
  BY <1>1, VerifiedStays
<1>5. QAIsPassedOver' /\ QAIsOpen' /\ StagesFit'
  BY <1>1, <1>3 DEF CInv, QAIsPassedOver, QAIsOpen, StagesFit, Live, Active, Open
<1> QED BY <1>3, <1>4, <1>5 DEF StepKeeps, CInv

----
(* The theorems *)

LEMMA InitHolds ==
    ASSUME Init
    PROVE  CInv /\ DownHasRun
<1>1. /\ daemon = "UP" /\ tree \in Tree /\ plan = 1 /\ corr = <<>> /\ runs = <<>>
      /\ wf = [stage |-> "IMPLEMENT", status |-> "QUEUED", qa |-> 0, ver |-> 0]
  BY DEF Init
<1>2. /\ DOMAIN corr = {} /\ DOMAIN runs = {} /\ Len(corr) = 0 /\ Len(runs) = 0
      /\ corr \in Seq(Correction) /\ runs \in Seq(VRun)
  BY <1>1
<1>3. wf \in Attempt /\ wf.qa = 0 /\ wf.ver = 0 /\ wf.stage = "IMPLEMENT" /\ wf.status = "QUEUED"
  <2>1. "QUEUED" \in Status.attempt
    BY DEF Status
  <2> HIDE DEF Status
  <2> QED BY <1>1, <2>1 DEF Attempt, MaxTotal
<1>4. TypeOK
  BY <1>1, <1>2, <1>3, BoundAssumption DEF TypeOK, BoundAssumption
<1>5. SharedBudget /\ RunsFit /\ PassedIsClosed
  BY <1>2, BoundAssumption DEF SharedBudget, RunsFit, PassedIsClosed, MaxTotal, BoundAssumption
<1>6. CorrectionIsWorkedOn
  BY <1>2
  DEF CorrectionIsWorkedOn, QACorrectionIsWorkedOn, VerificationCorrectionIsWorkedOn, OpenQA, OpenOf
<1>7. QAIsVerified /\ QAIsPassedOver /\ QAIsOpen /\ StagesFit
  BY <1>2, <1>3 DEF QAIsVerified, QAIsPassedOver, QAIsOpen, StagesFit
<1> QED BY <1>1, <1>4, <1>5, <1>6, <1>7 DEF CInv, DownHasRun

LEMMA NextKeeps ==
    ASSUME CInv, DownHasRun, [Next]_vars
    PROVE  StepKeeps
<1>1. CASE Next
  BY <1>1, RunSteps, StageSteps, ResolveStep, FailedRunSteps, PassStep, StaleStep, AuthorizeVerificationStep,
     CancelAtVerificationStep, QAFailsStep, QAPassesStep, AuthorizeQAStep, CancelAtQAStep, CancelPipelineStep
  DEF Next
<1> QED BY <1>1, Untouched

LEMMA DownKeeps ==
    ASSUME DownHasRun, [Next]_vars
    PROVE  DownHasRun'
<1>1. CASE UNCHANGED vars
  BY <1>1 DEF DownHasRun, RunActive, Last, vars
<1>2. CASE Crash
  BY <1>2 DEF DownHasRun, RunActive, Last, Crash
<1>3. CASE Next /\ ~Crash
  <2>1. daemon' = "UP"
    BY <1>3
    DEF Next, OwnerRun, GateRun, CancelRun, FinalizeCancel, RunFails, RunPasses, MaterializeStale,
        AuthorizeVerification, CancelAtVerificationGate, StartQA, QAFails, QAPasses, InQA, AuthorizeQA, CancelAtQAGate, QAGateAccepted,
        Implement, PrepareAcceptance, ResolveAcceptance, PausePipeline, ResumePipeline, CancelPipeline, PublishPlan,
        Restart
  <2> QED BY <2>1 DEF DownHasRun
<1> QED BY <1>1, <1>2, <1>3

\* Each evaluator's corrections, runs and gates keep the invariant, whatever interleaves with them.
THEOREM CorrectionsInvariant == Spec => [](CInv /\ DownHasRun)
<1>1. Init => CInv /\ DownHasRun
  BY InitHolds
<1>2. CInv /\ DownHasRun /\ [Next]_vars => (CInv /\ DownHasRun)'
  BY NextKeeps, DownKeeps DEF StepKeeps
<1> QED BY <1>1, <1>2, PTL DEF Spec

\* Every variable keeps its type, and no id of the attempt, of a correction or of a run dangles.
THEOREM CorrectionsType == Spec => []TypeOK
<1>1. CInv => TypeOK
  BY DEF CInv
<1> QED BY <1>1, CorrectionsInvariant, PTL

\* QA and verification never take more than the three corrections of a delivery together, and
\* never have two of a kind open (correction-budget.ts).
THEOREM BudgetIsShared == Spec => []SharedBudget
<1>1. CInv => SharedBudget
  BY DEF CInv
<1> QED BY <1>1, CorrectionsInvariant, PTL

\* However QA and verification corrections nest, are suspended, cancelled or authorized, none
\* stays open that nobody works for.
THEOREM NoCorrectionIsLeft == Spec => []CorrectionIsWorkedOn
<1>1. CInv => CorrectionIsWorkedOn
  BY DEF CInv
<1> QED BY <1>1, CorrectionsInvariant, PTL

\* QA measures and the owner is shown only a tree the project verification passed, and by then
\* every correction ended.
THEOREM OnlyVerifiedIsDelivered == Spec => []DeliveryIsVerified
<1>1. CInv => DeliveryIsVerified
  <2> SUFFICES ASSUME CInv
               PROVE  DeliveryIsVerified
    OBVIOUS
  <2>1. QAIsVerified
    BY DEF CInv
  <2>2. ASSUME wf.status \in {"PREPARED", "DONE"}, NEW c \in DOMAIN corr
        PROVE  corr[c].status \in {"PASSED", "SUPERSEDED"} \/ Bypassed(c)
    <3>1. OpenQA = {} /\ PassedOver /\ corr[c].status # "CANCELLED"
      BY <2>2 DEF CInv, StagesFit, QAIsPassedOver
    <3>2. corr[c] \in Correction
      BY <2>2 DEF CInv, TypeOK
    <3>3. CASE Open(c) /\ corr[c].kind = "V"
      BY <2>2, <3>1, <3>3 DEF PassedOver, OpenOf
    <3>4. CASE Open(c) /\ corr[c].kind = "QA"
      BY <2>2, <3>1, <3>4 DEF OpenQA, OpenOf
    <3>5. CASE ~Open(c)
      BY <3>1, <3>2, <3>5 DEF Open, Correction, Status
    <3> QED BY <3>2, <3>3, <3>4, <3>5 DEF Correction
  <2> QED BY <2>1, <2>2 DEF DeliveryIsVerified, AcceptedCorrectionsPassed
<1> QED BY <1>1, CorrectionsInvariant, PTL

\* A correction that ended stays as it ended: no rerun, gate, retry or restart rewrites it.
THEOREM EndedStaysEnded == Spec => ClosedStaysClosed
<1>1. CInv /\ DownHasRun /\ [Next]_vars =>
        [\A c \in DOMAIN corr : c \in DOMAIN corr' /\ (~Open(c) => corr'[c] = corr[c])]_vars
  <2> SUFFICES ASSUME CInv, DownHasRun, [Next]_vars
               PROVE  \A c \in DOMAIN corr : c \in DOMAIN corr' /\ (~Open(c) => corr'[c] = corr[c])
    OBVIOUS
  <2>1. TableKept /\ corr \in Seq(Correction)
    BY NextKeeps DEF StepKeeps, CInv, TypeOK
  <2> QED BY <2>1 DEF TableKept
<1> QED BY <1>1, CorrectionsInvariant, PTL DEF Spec, ClosedStaysClosed
=============================================================================
