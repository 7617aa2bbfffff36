---------------------------- MODULE SessionProofs ---------------------------
\* Theorems about what a provider session does and where: its tool calls, its
\* workspace, the loop of its attempt, its process, the servers of its tools
\* and what the owner granted of them, the policy it works under, the daemon's
\* data directory, and what the owner sees of all this: the activity that is
\* recorded and the feed of it, the live view, the log.
\* Each section takes one module, for every value of its constants; names that
\* two modules share have the module's instance as a prefix.
EXTENDS ToolCalls, Integers, Sequences, FiniteSets, SequenceTheorems, FiniteSetTheorems, WellFoundedInduction, TLAPS

\* The three kinds of call are kept in different tables, or have different tool names.
KindsDiffer == External \cap Direct = {} /\ File \cap Recipe = {}

----
(* The inductive invariant *)

\* A call that is handled is STARTED, what its handler knows of its effect is right, and so is what
\* its row says of it.
RowFits(c) ==
    /\ row[c] = "NONE" => done[c] = 0
    /\ row[c] = "SUCCEEDED" => done[c] = 1
    /\ row[c] = "FAILED" /\ c \in File => done[c] = 0

HandlerFits(c) ==
    /\ call[c].at = "IDLE" => row[c] = "NONE"
    /\ InFlight(c) => row[c] = "STARTED"
    /\ call[c].at = "RESERVED" => c \notin External /\ done[c] = 0
    /\ call[c].at = "ACTING" /\ c \in File => done[c] = 0
    /\ call[c].at = "ACTING" /\ c \in Recipe => done[c] = 1

AnswerFits(c) ==
    call[c].at = "ANSWERED" =>
        /\ call[c].result # "NONE"
        /\ call[c].result = "SUCCEEDED" => done[c] = 1
        /\ c \in File => call[c].result \in {"SUCCEEDED", "FAILED"}
        /\ c \in File /\ call[c].result = "FAILED" => done[c] = 0

\* A tree is there only for a recipe that was started, its end is observed before the row says so,
\* and a start releases a recipe after its tree is gone.
TreeFits(c) ==
    c \in Recipe =>
        /\ row[c] = "NONE" \/ call[c].at = "RESERVED" => tree[c] = "NONE"
        /\ call[c].at = "ANSWERED" /\ call[c].result # "UNCERTAIN" => tree[c] # "ALIVE"
        /\ tree[c] = "ALIVE" => row[c] = "STARTED"
        /\ c \in released => tree[c] = "NONE"

\* A call is handled while the daemon is up and the lease of its session is not drained, and the
\* session runs unless the owner cancelled it.
StayFits(c) ==
    InFlight(c) =>
        /\ phase = "UP" /\ call[c].of \in Session
        /\ lease[call[c].of] \in {"OPEN", "CLOSING"}
        /\ session[call[c].of] = "RUNNING" \/ call[c].of \in cancelled

CallFits(c) == RowFits(c) /\ HandlerFits(c) /\ AnswerFits(c) /\ TreeFits(c) /\ StayFits(c)

TInv ==
    /\ TypeOK
    /\ \A c \in Call : CallFits(c)
    /\ \A s \in Session : session[s] = "NEW" => lease[s] = "NONE"
    /\ phase # "BOOTING" => released = {}

LEMMA InitHolds == Init => TInv
<1> SUFFICES ASSUME Init PROVE TInv
  OBVIOUS
<1>1. Idle \in Handler /\ Idle.at = "IDLE"
  BY DEF Idle, Handler, Result
<1>2. TypeOK
  <2>1. row \in [Call -> RowStatus] /\ call \in [Call -> Handler] /\ done \in [Call -> 0 .. 1]
    BY <1>1 DEF Init, RowStatus
  <2>2. /\ file \in File \cup {Nobody} /\ tree \in [Recipe -> {"NONE", "ALIVE", "MASKED"}]
        /\ session \in [Session -> {"NEW", "RUNNING", "ENDED"}]
        /\ lease \in [Session -> {"NONE", "OPENING", "OPEN", "CLOSING", "CLOSED"}]
    BY DEF Init
  <2>3. /\ cancelled \in SUBSET Session /\ snapshot \in SUBSET Session /\ refused \in BOOLEAN
        /\ grant \in {"GRANTED", "NARROWED", "REVOKED"} /\ released \in SUBSET Recipe
        /\ phase \in {"UP", "DOWN", "BOOTING"}
    BY DEF Init
  <2> QED BY <2>1, <2>2, <2>3 DEF TypeOK
<1>3. ASSUME NEW c \in Call PROVE CallFits(c)
  <2>1. row[c] = "NONE" /\ done[c] = 0 /\ call[c].at = "IDLE" /\ (c \in Recipe => tree[c] = "NONE") /\ released = {}
    BY <1>1, <1>3 DEF Init
  <2>2. ~InFlight(c)
    BY <2>1 DEF InFlight
  <2>3. RowFits(c) /\ HandlerFits(c) /\ AnswerFits(c) /\ StayFits(c)
    BY <2>1, <2>2 DEF RowFits, HandlerFits, AnswerFits, StayFits
  <2>4. TreeFits(c)
    BY <2>1 DEF TreeFits
  <2> QED BY <2>3, <2>4 DEF CallFits
<1> QED BY <1>2, <1>3 DEF TInv, Init

----
(* Steps of one call *)

\* Nothing of another call changes, and nothing of a session.
Touches(c) ==
    /\ TypeOK'
    /\ \A d \in Call \ {c} : row'[d] = row[d] /\ call'[d] = call[d] /\ done'[d] = done[d]
    /\ \A d \in Recipe \ {c} : tree'[d] = tree[d]
    /\ UNCHANGED <<session, lease, cancelled, snapshot, released, phase>>

LEMMA TouchKeeps ==
    ASSUME TInv, NEW c \in Call, Touches(c), CallFits(c)'
    PROVE  TInv'
<1>1. ASSUME NEW d \in Call, d # c PROVE CallFits(d)'
  <2>1. row'[d] = row[d] /\ call'[d] = call[d] /\ done'[d] = done[d] /\ (d \in Recipe => tree'[d] = tree[d])
    BY <1>1 DEF Touches
  <2>2. RowFits(d) /\ HandlerFits(d) /\ AnswerFits(d) /\ TreeFits(d) /\ StayFits(d)
    BY <1>1 DEF TInv, CallFits
  <2>3. released' = released /\ phase' = phase /\ lease' = lease /\ session' = session /\ cancelled' = cancelled
    BY DEF Touches
  <2>4. RowFits(d)' /\ HandlerFits(d)' /\ AnswerFits(d)'
    BY <2>1, <2>2 DEF RowFits, HandlerFits, AnswerFits, InFlight
  <2>5. TreeFits(d)'
    BY <2>1, <2>2, <2>3 DEF TreeFits
  <2>6. StayFits(d)'
    BY <2>1, <2>2, <2>3 DEF StayFits, InFlight
  <2> QED BY <2>4, <2>5, <2>6 DEF CallFits
<1> QED BY <1>1 DEF TInv, Touches

\* A handler stays in its session, or is over.
LEMMA HandlerStays ==
    ASSUME TInv, NEW c \in Call, Touches(c), InFlight(c), call'[c].of = call[c].of \/ call'[c].at = "OVER"
    PROVE  StayFits(c)'
<1>1. StayFits(c)
  BY DEF TInv, CallFits
<1>2. lease' = lease /\ session' = session /\ cancelled' = cancelled /\ phase' = phase
  BY DEF Touches
<1> QED BY <1>1, <1>2 DEF StayFits, InFlight

LEMMA AnswerType ==
    ASSUME TypeOK, NEW c \in Call, NEW result \in Result, Answer(c, result)
    PROVE  /\ call' \in [Call -> Handler] /\ \A d \in Call \ {c} : call'[d] = call[d]
           /\ call'[c].at = "ANSWERED" /\ call'[c].result = result /\ call'[c].of = call[c].of
<1> DEFINE new == [call[c] EXCEPT !.at = "ANSWERED", !.result = result]
<1>1. call[c] \in Handler /\ call \in [Call -> Handler]
  BY DEF TypeOK
<1>2. new \in Handler /\ new.at = "ANSWERED" /\ new.result = result /\ new.of = call[c].of
  BY <1>1 DEF Handler
<1>3. call' = [call EXCEPT ![c] = new]
  BY DEF Answer
<1> HIDE DEF new
<1> QED BY <1>1, <1>2, <1>3

LEMMA OverType ==
    ASSUME TypeOK, NEW c \in Call
    PROVE  Over(c) \in Handler /\ Over(c).at = "OVER"
<1>1. call[c].named \in File \cup {Nobody}
  BY DEF TypeOK, Handler
<1> QED BY <1>1 DEF Over, Idle, Handler, Result

LEMMA RequestStep ==
    ASSUME KindsDiffer, TInv, NEW c \in Call, NEW s \in Session, Request(c, s)
    PROVE  /\ TInv'
           /\ \/ row' = row
              \/ row[c] = "NONE" /\ row' = [row EXCEPT ![c] = "STARTED"] /\ (c \in External => grant = "GRANTED")
<1> DEFINE new == [at |-> IF c \in External THEN "ACTING" ELSE "RESERVED", of |-> s,
                   named |-> IF c \in File THEN file ELSE Nobody, result |-> "NONE"]
<1>1. /\ TypeOK /\ CallFits(c) /\ call[c].at = "IDLE" /\ phase = "UP" /\ lease[s] = "OPEN"
      /\ UNCHANGED <<done, file, tree, session, lease, cancelled, snapshot, grant, refused, released, phase>>
  BY DEF TInv, Request, sessions, daemon
<1>2. row[c] = "NONE" /\ done[c] = 0 /\ (c \in Recipe => tree[c] = "NONE")
  BY <1>1 DEF CallFits, HandlerFits, RowFits, TreeFits
<1>3. /\ new \in Handler /\ new.of = s
      /\ \/ (new.at = "RESERVED" /\ c \notin External)
         \/ (new.at = "ACTING" /\ c \in External)
  BY <1>1 DEF Handler, TypeOK, Result
<1> HIDE DEF new
<1>4. CASE Admitted(c, s) /\ Startable(c, s)
  <2>1. row' = [row EXCEPT ![c] = "STARTED"] /\ call' = [call EXCEPT ![c] = new]
    BY <1>4 DEF Request, new
  <2>2. TypeOK'
    BY <1>1, <1>3, <2>1 DEF TypeOK, RowStatus
  <2>3. /\ row'[c] = "STARTED" /\ call'[c] = new
        /\ \A d \in Call \ {c} : row'[d] = row[d] /\ call'[d] = call[d]
    BY <1>1, <2>1 DEF TypeOK
  <2>4. Touches(c)
    BY <1>1, <2>2, <2>3 DEF Touches
  <2>5. session[s] = "RUNNING" /\ (c \in External => grant = "GRANTED")
    BY <1>4 DEF Startable
  <2>6. RowFits(c)' /\ AnswerFits(c)' /\ StayFits(c)'
    BY <1>1, <1>3, <2>3, <2>5 DEF RowFits, AnswerFits, StayFits, InFlight
  <2>7. HandlerFits(c)'
    BY <1>1, <1>2, <1>3, <2>3 DEF HandlerFits, InFlight, KindsDiffer, Direct
  <2>8. TreeFits(c)'
    BY <1>1, <1>2, <1>3, <2>3 DEF TreeFits
  <2> QED BY <1>2, <2>1, <2>4, <2>5, <2>6, <2>7, <2>8, TouchKeeps DEF CallFits
<1>5. CASE ~(Admitted(c, s) /\ Startable(c, s))
  <2>1. row' = row /\ call' = [call EXCEPT ![c] = Over(c)]
    BY <1>5 DEF Request
  <2>2. TypeOK'
    BY <1>1, <2>1, OverType DEF TypeOK
  <2>3. call'[c].at = "OVER" /\ \A d \in Call \ {c} : call'[d] = call[d]
    BY <1>1, <2>1, OverType DEF TypeOK
  <2>4. Touches(c)
    BY <1>1, <2>1, <2>2, <2>3 DEF Touches
  <2>5. RowFits(c)' /\ AnswerFits(c)' /\ StayFits(c)' /\ HandlerFits(c)'
    BY <1>1, <1>2, <2>1, <2>3 DEF RowFits, AnswerFits, StayFits, HandlerFits, InFlight
  <2>6. TreeFits(c)'
    BY <1>1, <1>2, <2>1, <2>3 DEF TreeFits
  <2> QED BY <2>1, <2>4, <2>5, <2>6, TouchKeeps DEF CallFits
<1> QED BY <1>4, <1>5

\* What the handler does to the outside of the daemon besides its answer: nothing.
LEMMA AnswerOnly ==
    ASSUME TInv, NEW c \in Call, InFlight(c), NEW result \in Result \ {"NONE"}, Answer(c, result),
           UNCHANGED <<row, done, file, sessions, grant, refused, daemon>>,
           tree' \in [Recipe -> {"NONE", "ALIVE", "MASKED"}],
           \A d \in Recipe \ {c} : tree'[d] = tree[d],
           c \in Recipe => tree'[c] \in {tree[c], "NONE", "MASKED"}
                           /\ (result # "UNCERTAIN" => tree'[c] # "ALIVE"),
           result = "SUCCEEDED" => done[c] = 1,
           c \in File => result = "FAILED" /\ done[c] = 0
    PROVE  TInv'
<1>1. /\ call' \in [Call -> Handler] /\ \A d \in Call \ {c} : call'[d] = call[d]
      /\ call'[c].at = "ANSWERED" /\ call'[c].result = result /\ call'[c].of = call[c].of
  BY AnswerType DEF TInv
<1>2. /\ row' = row /\ done' = done
      /\ UNCHANGED <<session, lease, cancelled, snapshot, released, phase>>
  BY DEF sessions, daemon
<1>3. TypeOK'
  BY <1>1, <1>2 DEF TInv, TypeOK
<1>4. Touches(c)
  BY <1>1, <1>2, <1>3 DEF Touches
<1>5. StayFits(c)'
  BY <1>1, <1>4, HandlerStays
<1>6. RowFits(c) /\ HandlerFits(c) /\ TreeFits(c)
  BY DEF TInv, CallFits
<1>7. RowFits(c)' /\ HandlerFits(c)' /\ AnswerFits(c)'
  BY <1>1, <1>2, <1>6 DEF RowFits, HandlerFits, AnswerFits, InFlight
<1>8. TreeFits(c)'
  <2>1. c \notin released /\ row[c] = "STARTED"
    BY <1>6 DEF TInv, CallFits, StayFits, HandlerFits
  <2> QED BY <1>1, <1>2, <1>6, <2>1 DEF TreeFits
<1> QED BY <1>4, <1>5, <1>7, <1>8, TouchKeeps DEF CallFits

LEMMA AnswersStep ==
    ASSUME KindsDiffer, TInv, NEW c \in Call, Deny(c) \/ GiveUp(c) \/ RecipeEnds(c) \/ ServerAnswers(c)
    PROVE  TInv' /\ row' = row /\ done' = done
<1>1. TypeOK /\ HandlerFits(c) /\ TreeFits(c) /\ InFlight(c)
  BY DEF TInv, CallFits, Deny, GiveUp, RecipeEnds, ServerAnswers, InFlight
<1>2. UNCHANGED <<row, done, file, sessions, grant, refused, daemon>>
  BY DEF Deny, GiveUp, RecipeEnds, ServerAnswers
<1>3. {"SUCCEEDED", "FAILED", "LOST", "UNCERTAIN"} = Result \ {"NONE"}
  BY DEF Result
<1>4. tree \in [Recipe -> {"NONE", "ALIVE", "MASKED"}]
  BY <1>1 DEF TypeOK
<1>5. CASE Deny(c)
  <2>1. Answer(c, "FAILED") /\ tree' = tree /\ call[c].at = "RESERVED"
    BY <1>5 DEF Deny
  <2>2. done[c] = 0 /\ (c \in Recipe => tree[c] = "NONE")
    BY <1>1, <2>1 DEF HandlerFits, TreeFits
  <2> QED BY <1>1, <1>2, <1>3, <1>4, <2>1, <2>2, AnswerOnly
<1>6. CASE GiveUp(c)
  <2>1. Answer(c, "FAILED") /\ tree' = tree /\ call[c].at = "ACTING" /\ c \in File
    BY <1>6 DEF GiveUp
  <2>2. done[c] = 0 /\ c \notin Recipe
    BY <1>1, <2>1 DEF HandlerFits, KindsDiffer
  <2> QED BY <1>1, <1>2, <1>3, <1>4, <2>1, <2>2, AnswerOnly
<1>7. CASE RecipeEnds(c)
  <2>1. call[c].at = "ACTING" /\ c \in Recipe /\ c \notin File /\ done[c] = 1
    BY <1>1, <1>7 DEF RecipeEnds, HandlerFits, KindsDiffer
  <2>2. PICK result \in {"SUCCEEDED", "FAILED", "UNCERTAIN"} :
          /\ Answer(c, result)
          /\ \/ result # "UNCERTAIN" /\ tree' = [tree EXCEPT ![c] = "NONE"]
             \/ result # "UNCERTAIN" /\ tree' = [tree EXCEPT ![c] = "MASKED"]
             \/ result = "UNCERTAIN" /\ tree' = tree
    BY <1>7 DEF RecipeEnds
  <2>3. /\ tree' \in [Recipe -> {"NONE", "ALIVE", "MASKED"}]
        /\ \A d \in Recipe \ {c} : tree'[d] = tree[d]
        /\ tree'[c] \in {tree[c], "NONE", "MASKED"} /\ (result # "UNCERTAIN" => tree'[c] # "ALIVE")
    BY <1>4, <2>1, <2>2
  <2> QED BY <1>1, <1>2, <1>3, <2>1, <2>2, <2>3, AnswerOnly
<1>8. CASE ServerAnswers(c)
  <2>1. PICK result \in {"SUCCEEDED", "FAILED", "LOST"} :
          (result = "SUCCEEDED" => done[c] = 1) /\ Answer(c, result)
    BY <1>8 DEF ServerAnswers
  <2>2. c \notin Recipe /\ c \notin File /\ tree' = tree
    BY <1>8 DEF ServerAnswers, KindsDiffer, Direct
  <2> QED BY <1>1, <1>2, <1>3, <1>4, <2>1, <2>2, AnswerOnly
<1> QED BY <1>2, <1>5, <1>6, <1>7, <1>8

LEMMA PrepareStep ==
    ASSUME KindsDiffer, TInv, NEW c \in Call, Prepare(c)
    PROVE  TInv' /\ row' = row /\ done' = done
<1> DEFINE new == [call[c] EXCEPT !.at = "ACTING"]
<1>1. /\ TypeOK /\ RowFits(c) /\ HandlerFits(c) /\ InFlight(c) /\ c \in File /\ c \notin Recipe /\ done[c] = 0
      /\ call' = [call EXCEPT ![c] = new] /\ call[c] \in Handler /\ row[c] = "STARTED"
  BY DEF TInv, CallFits, Prepare, InFlight, TypeOK, HandlerFits, KindsDiffer
<1>2. UNCHANGED <<row, done, file, tree, session, lease, cancelled, snapshot, grant, refused, released, phase>>
  BY DEF Prepare, sessions, daemon
<1>3. new \in Handler /\ new.at = "ACTING" /\ new.of = call[c].of
  BY <1>1 DEF Handler
<1> HIDE DEF new
<1>4. call' \in [Call -> Handler] /\ call'[c] = new /\ \A d \in Call \ {c} : call'[d] = call[d]
  BY <1>1, <1>3 DEF TypeOK
<1>5. TypeOK'
  BY <1>1, <1>2, <1>4 DEF TypeOK
<1>6. Touches(c)
  BY <1>2, <1>4, <1>5 DEF Touches
<1>7. StayFits(c)'
  BY <1>1, <1>3, <1>4, <1>6, HandlerStays
<1>8. RowFits(c)' /\ HandlerFits(c)' /\ AnswerFits(c)' /\ TreeFits(c)'
  BY <1>1, <1>2, <1>3, <1>4 DEF RowFits, HandlerFits, AnswerFits, TreeFits, InFlight
<1> QED BY <1>2, <1>6, <1>7, <1>8, TouchKeeps DEF CallFits

\* The effect of a call of a file or a recipe: it was not done, and its row is STARTED.
LEMMA EffectStep ==
    ASSUME KindsDiffer, TInv, NEW c \in Call, Replace(c) \/ Spawn(c)
    PROVE  TInv' /\ row' = row /\ row[c] = "STARTED" /\ done[c] = 0 /\ done' = [done EXCEPT ![c] = 1]
<1>1. TypeOK /\ RowFits(c) /\ HandlerFits(c) /\ TreeFits(c) /\ InFlight(c) /\ row[c] = "STARTED"
  BY DEF TInv, CallFits, Replace, Spawn, InFlight, HandlerFits
<1>2. done[c] = 0 /\ (c \in Recipe => tree[c] = "NONE" \/ c \notin File)
  BY <1>1 DEF Replace, Spawn, HandlerFits, KindsDiffer
<1>3. /\ UNCHANGED <<row, session, lease, cancelled, snapshot, grant, refused, released, phase>>
      /\ done' = [done EXCEPT ![c] = @ + 1]
  BY DEF Replace, Spawn, sessions, daemon
<1>4. done' = [done EXCEPT ![c] = 1]
  BY <1>2, <1>3
<1>5. done'[c] = 1 /\ done' \in [Call -> 0 .. 1] /\ \A d \in Call \ {c} : done'[d] = done[d]
  BY <1>1, <1>4 DEF TypeOK
<1>6. CASE Replace(c)
  <2>1. Answer(c, "SUCCEEDED") /\ file' = c /\ tree' = tree /\ c \in File /\ c \notin Recipe
    BY <1>6 DEF Replace, KindsDiffer
  <2>2. /\ call' \in [Call -> Handler] /\ \A d \in Call \ {c} : call'[d] = call[d]
        /\ call'[c].at = "ANSWERED" /\ call'[c].result = "SUCCEEDED" /\ call'[c].of = call[c].of
    BY <1>1, <2>1, AnswerType DEF Result
  <2>3. TypeOK'
    BY <1>1, <1>3, <1>5, <2>1, <2>2 DEF TypeOK
  <2>4. Touches(c)
    BY <1>3, <1>5, <2>1, <2>2, <2>3 DEF Touches
  <2>5. StayFits(c)'
    BY <1>1, <2>2, <2>4, HandlerStays
  <2>6. RowFits(c)' /\ HandlerFits(c)' /\ AnswerFits(c)' /\ TreeFits(c)'
    BY <1>1, <1>3, <1>5, <2>1, <2>2 DEF RowFits, HandlerFits, AnswerFits, TreeFits, InFlight
  <2> QED BY <1>1, <1>2, <1>3, <1>4, <2>4, <2>5, <2>6, TouchKeeps DEF CallFits
<1>7. CASE Spawn(c)
  <2> DEFINE new == [call[c] EXCEPT !.at = "ACTING"]
  <2>1. /\ call' = [call EXCEPT ![c] = new] /\ tree' = [tree EXCEPT ![c] = "ALIVE"] /\ file' = file
        /\ c \in Recipe /\ c \notin File
    BY <1>7 DEF Spawn, KindsDiffer
  <2>2. new \in Handler /\ new.at = "ACTING" /\ new.of = call[c].of
    BY <1>1 DEF Handler, TypeOK
  <2> HIDE DEF new
  <2>3. /\ call' \in [Call -> Handler] /\ call'[c] = new /\ \A d \in Call \ {c} : call'[d] = call[d]
        /\ tree' \in [Recipe -> {"NONE", "ALIVE", "MASKED"}] /\ \A d \in Recipe \ {c} : tree'[d] = tree[d]
    BY <1>1, <2>1, <2>2 DEF TypeOK
  <2>4. TypeOK'
    BY <1>1, <1>3, <1>5, <2>1, <2>3 DEF TypeOK
  <2>5. Touches(c)
    BY <1>3, <1>5, <2>3, <2>4 DEF Touches
  <2>6. StayFits(c)'
    BY <1>1, <2>2, <2>3, <2>5, HandlerStays
  <2>7. RowFits(c)' /\ HandlerFits(c)' /\ AnswerFits(c)'
    BY <1>1, <1>3, <1>5, <2>1, <2>2, <2>3 DEF RowFits, HandlerFits, AnswerFits, InFlight
  <2>8. c \notin released
    BY <1>1, <1>3, <1>7 DEF TInv, CallFits, StayFits
  <2>9. TreeFits(c)'
    BY <1>1, <1>3, <2>2, <2>3, <2>8 DEF TreeFits
  <2> QED BY <1>1, <1>2, <1>3, <1>4, <2>5, <2>6, <2>7, <2>9, TouchKeeps DEF CallFits
<1> QED BY <1>6, <1>7

\* What may be written of a call that is answered, and the claim that it then leaves.
LEMMA FinishStep ==
    ASSUME KindsDiffer, TInv, NEW c \in Call, Finish(c)
    PROVE  /\ TInv' /\ done' = done /\ row[c] = "STARTED"
           /\ \E verdict \in RowStatus \ {"NONE"} :
                 /\ row' = [row EXCEPT ![c] = verdict]
                 /\ verdict = "SUCCEEDED" => done[c] = 1
                 /\ verdict = "FAILED" /\ c \in File => done[c] = 0
<1>1. /\ TypeOK /\ RowFits(c) /\ HandlerFits(c) /\ AnswerFits(c) /\ TreeFits(c) /\ StayFits(c) /\ InFlight(c)
      /\ call[c].at = "ANSWERED" /\ row[c] = "STARTED"
  BY DEF TInv, CallFits, Finish, InFlight, HandlerFits
<1>2. call[c].result \in Result \ {"NONE"}
  BY <1>1 DEF AnswerFits, TypeOK, Handler
<1>3. PICK verdict \in Verdicts(c) \cup (IF StoreFails THEN {"STARTED"} ELSE {}) : row' = [row EXCEPT ![c] = verdict]
  BY DEF Finish
<1>4. /\ verdict \in RowStatus \ {"NONE"}
      /\ verdict = "SUCCEEDED" => call[c].result = "SUCCEEDED"
      /\ verdict = "FAILED" => call[c].result \in {"LOST", "FAILED"}
      /\ call[c].result = "UNCERTAIN" => verdict = "STARTED"
  <2>1. CASE call[c].result = "LOST"
    BY <1>3, <2>1 DEF Verdicts, RowStatus
  <2>2. CASE call[c].result = "UNCERTAIN"
    BY <1>3, <2>2 DEF Verdicts, RowStatus
  <2>3. CASE call[c].result \in {"SUCCEEDED", "FAILED"}
    BY <1>3, <2>3 DEF Verdicts, RowStatus
  <2> QED BY <1>2, <2>1, <2>2, <2>3 DEF Result
<1>5. verdict = "SUCCEEDED" => done[c] = 1
  BY <1>1, <1>4 DEF AnswerFits
<1>6. verdict = "FAILED" /\ c \in File => done[c] = 0
  BY <1>1, <1>4 DEF AnswerFits
<1>7. /\ call' = [call EXCEPT ![c] = Over(c)]
      /\ UNCHANGED <<done, file, tree, session, lease, cancelled, snapshot, grant, refused, released, phase>>
  BY DEF Finish, sessions, daemon
<1>8. /\ call' \in [Call -> Handler] /\ call'[c].at = "OVER" /\ \A d \in Call \ {c} : call'[d] = call[d]
      /\ row' \in [Call -> RowStatus] /\ row'[c] = verdict /\ \A d \in Call \ {c} : row'[d] = row[d]
  BY <1>1, <1>3, <1>4, <1>7, OverType DEF TypeOK
<1>9. TypeOK'
  BY <1>1, <1>7, <1>8 DEF TypeOK
<1>10. Touches(c)
  BY <1>7, <1>8, <1>9 DEF Touches
<1>11. RowFits(c)' /\ HandlerFits(c)' /\ AnswerFits(c)' /\ StayFits(c)'
  BY <1>4, <1>5, <1>6, <1>7, <1>8 DEF RowFits, HandlerFits, AnswerFits, StayFits, InFlight
<1>12. TreeFits(c)'
  BY <1>1, <1>4, <1>7, <1>8 DEF TreeFits
<1> QED BY <1>1, <1>3, <1>4, <1>5, <1>6, <1>7, <1>10, <1>11, <1>12, TouchKeeps DEF CallFits

LEMMA ServerActsStep ==
    ASSUME KindsDiffer, TInv, NEW c \in Call, ServerActs(c)
    PROVE  /\ TInv' /\ row' = row /\ done[c] = 0 /\ done' = [done EXCEPT ![c] = 1]
           /\ c \notin File /\ row[c] \in {"STARTED", "UNKNOWN_OUTCOME", "FAILED"}
<1>1. /\ TypeOK /\ RowFits(c) /\ HandlerFits(c) /\ AnswerFits(c) /\ TreeFits(c) /\ StayFits(c)
      /\ c \in External /\ c \notin File /\ c \notin Recipe
  BY DEF TInv, CallFits, ServerActs, KindsDiffer, Direct
<1>2. /\ done[c] = 0 /\ done' = [done EXCEPT ![c] = 1] /\ row[c] \in {"STARTED", "UNKNOWN_OUTCOME", "FAILED"}
      /\ UNCHANGED <<row, call, file, tree, session, lease, cancelled, snapshot, grant, refused, released, phase>>
  BY DEF ServerActs, sessions, daemon
<1>3. done'[c] = 1 /\ done' \in [Call -> 0 .. 1] /\ \A d \in Call \ {c} : done'[d] = done[d]
  BY <1>1, <1>2 DEF TypeOK
<1>4. TypeOK'
  BY <1>1, <1>2, <1>3 DEF TypeOK
<1>5. Touches(c)
  BY <1>2, <1>3, <1>4 DEF Touches
<1>6. RowFits(c)' /\ HandlerFits(c)' /\ AnswerFits(c)' /\ TreeFits(c)' /\ StayFits(c)'
  BY <1>1, <1>2, <1>3 DEF RowFits, HandlerFits, AnswerFits, TreeFits, StayFits, InFlight
<1> QED BY <1>1, <1>2, <1>5, <1>6, TouchKeeps DEF CallFits

LEMMA TreeEndsStep ==
    ASSUME TInv, NEW c \in Recipe, TreeEnds(c)
    PROVE  TInv' /\ row' = row /\ done' = done
<1>1. /\ c \in Call /\ TypeOK /\ RowFits(c) /\ HandlerFits(c) /\ AnswerFits(c) /\ TreeFits(c) /\ StayFits(c)
  BY DEF TInv, CallFits, Call, Direct
<1>2. /\ tree' = [tree EXCEPT ![c] = "NONE"]
      /\ UNCHANGED <<row, call, done, file, session, lease, cancelled, snapshot, grant, refused, released, phase>>
  BY DEF TreeEnds, sessions, daemon
<1>3. /\ tree'[c] = "NONE" /\ tree' \in [Recipe -> {"NONE", "ALIVE", "MASKED"}]
      /\ \A d \in Recipe \ {c} : tree'[d] = tree[d]
  BY <1>1, <1>2 DEF TypeOK
<1>4. TypeOK'
  BY <1>1, <1>2, <1>3 DEF TypeOK
<1>5. Touches(c)
  BY <1>2, <1>3, <1>4 DEF Touches
<1>6. RowFits(c)' /\ HandlerFits(c)' /\ AnswerFits(c)' /\ TreeFits(c)' /\ StayFits(c)'
  BY <1>1, <1>2, <1>3 DEF RowFits, HandlerFits, AnswerFits, TreeFits, StayFits, InFlight
<1> QED BY <1>1, <1>2, <1>5, <1>6, TouchKeeps DEF CallFits

----
(* Steps of a session and of the owner *)

\* The sessions under calls that are handled stay as those calls need them.
SessionMoves ==
    /\ UNCHANGED <<row, call, done, tree, released, phase>>
    /\ TypeOK'
    /\ \A s \in Session :
          /\ Inside(s) # {} /\ lease[s] \in {"OPEN", "CLOSING"} => lease'[s] \in {"OPEN", "CLOSING"}
          /\ Inside(s) # {} => /\ session[s] = "RUNNING" => session'[s] = "RUNNING" \/ s \in cancelled'
                               /\ s \in cancelled => s \in cancelled'
          /\ session'[s] = "NEW" => session[s] = "NEW" /\ lease'[s] = lease[s]

LEMMA SessionKeeps ==
    ASSUME TInv, SessionMoves
    PROVE  TInv'
<1>1. row' = row /\ call' = call /\ done' = done /\ tree' = tree /\ released' = released /\ phase' = phase
  BY DEF SessionMoves
<1>2. ASSUME NEW c \in Call PROVE CallFits(c)'
  <2>1. RowFits(c) /\ HandlerFits(c) /\ AnswerFits(c) /\ TreeFits(c) /\ StayFits(c)
    BY <1>2 DEF TInv, CallFits
  <2>2. RowFits(c)' /\ HandlerFits(c)' /\ AnswerFits(c)' /\ TreeFits(c)'
    BY <1>1, <2>1 DEF RowFits, HandlerFits, AnswerFits, TreeFits, InFlight
  <2>3. ASSUME InFlight(c) PROVE StayFits(c)'
    <3>1. phase = "UP" /\ call[c].of \in Session /\ lease[call[c].of] \in {"OPEN", "CLOSING"}
      BY <2>1, <2>3 DEF StayFits
    <3>2. PICK s \in Session : call[c].of = s
      BY <3>1
    <3>3. c \in Inside(s)
      BY <1>2, <2>3, <3>2 DEF Inside
    <3>4. lease[s] \in {"OPEN", "CLOSING"} /\ (session[s] = "RUNNING" \/ s \in cancelled)
      BY <2>1, <2>3, <3>2 DEF StayFits
    <3>5. lease'[s] \in {"OPEN", "CLOSING"}
      BY <3>3, <3>4 DEF SessionMoves
    <3>6. session'[s] = "RUNNING" \/ s \in cancelled'
      BY <3>3, <3>4 DEF SessionMoves
    <3> QED BY <1>1, <3>1, <3>2, <3>5, <3>6 DEF StayFits
  <2>4. ASSUME ~InFlight(c) PROVE StayFits(c)'
    <3>1. ~InFlight(c)'
      BY <1>1, <2>4 DEF InFlight
    <3> QED BY <3>1 DEF StayFits
  <2> QED BY <2>2, <2>3, <2>4 DEF CallFits
<1> QED BY <1>1, <1>2 DEF TInv, SessionMoves

SessionStep(s) ==
    Begin(s) \/ Open(s) \/ ProviderEnds(s) \/ Drain(s) \/ SessionEnds(s) \/ Cancel(s) \/ CancelEnds(s)

LEMMA SessionType ==
    ASSUME TypeOK, NEW s \in Session, SessionStep(s)
    PROVE  TypeOK'
<1>1. /\ UNCHANGED <<row, call, done, file, tree, grant, released, phase>>
      /\ refused' \in {refused, refused /\ s \notin snapshot}
  BY DEF SessionStep, Begin, Open, ProviderEnds, Drain, SessionEnds, Cancel, CancelEnds, Ends, handlers, daemon
<1>2. refused' \in BOOLEAN
  BY <1>1 DEF TypeOK
<1>3. cancelled' \in SUBSET Session /\ snapshot' \in SUBSET Session
  BY DEF TypeOK, SessionStep, Begin, Open, ProviderEnds, Drain, SessionEnds, Cancel, CancelEnds, Ends
<1>4. /\ session' \in [Session -> {"NEW", "RUNNING", "ENDED"}]
      /\ lease' \in [Session -> {"NONE", "OPENING", "OPEN", "CLOSING", "CLOSED"}]
  BY DEF TypeOK, SessionStep, Begin, Open, ProviderEnds, Drain, SessionEnds, Cancel, CancelEnds, Ends
<1> QED BY <1>1, <1>2, <1>3, <1>4 DEF TypeOK

LEMMA SessionsStep ==
    ASSUME TInv, NEW s \in Session, SessionStep(s)
    PROVE  TInv' /\ row' = row /\ done' = done
<1>1. TypeOK /\ TypeOK' /\ (session[s] = "NEW" => lease[s] = "NONE")
  BY SessionType DEF TInv
<1>2. UNCHANGED <<row, call, done, tree, released, phase>>
  BY DEF SessionStep, Begin, Open, ProviderEnds, Drain, SessionEnds, Cancel, CancelEnds, Ends, handlers, daemon
<1>3. \A c \in Inside(s) : lease[s] \in {"OPEN", "CLOSING"}
  BY DEF TInv, CallFits, StayFits, Inside
<1>4. CASE Begin(s)
  <2>1. Inside(s) = {} /\ session'[s] = "RUNNING" /\ cancelled' = cancelled
    BY <1>1, <1>3, <1>4 DEF Begin, TypeOK
  <2>2. \A t \in Session \ {s} : session'[t] = session[t] /\ lease'[t] = lease[t]
    BY <1>1, <1>4 DEF Begin, TypeOK
  <2>3. SessionMoves
    BY <1>1, <1>2, <2>1, <2>2 DEF SessionMoves
  <2> QED BY <1>2, <2>3, SessionKeeps
<1>5. CASE Open(s) \/ ProviderEnds(s) \/ Drain(s)
  <2>1. session' = session /\ cancelled' = cancelled /\ \A t \in Session \ {s} : lease'[t] = lease[t]
    BY <1>1, <1>5 DEF Open, ProviderEnds, Drain, TypeOK
  <2>2. /\ lease'[s] \in {"OPEN", "CLOSING"} \/ Inside(s) = {}
        /\ session[s] # "NEW"
    BY <1>1, <1>5 DEF Open, ProviderEnds, Drain, TypeOK, Settled
  <2>3. SessionMoves
    BY <1>1, <1>2, <2>1, <2>2 DEF SessionMoves
  <2> QED BY <1>2, <2>3, SessionKeeps
<1>6. CASE SessionEnds(s) \/ CancelEnds(s)
  <2>1. /\ session'[s] = "ENDED" /\ lease' = lease /\ cancelled' = cancelled
        /\ \A t \in Session \ {s} : session'[t] = session[t]
    BY <1>1, <1>6 DEF SessionEnds, CancelEnds, Ends, TypeOK
  <2>2. Inside(s) = {} \/ s \in cancelled
    BY <1>3, <1>6 DEF SessionEnds, CancelEnds
  <2>3. SessionMoves
    BY <1>1, <1>2, <2>1, <2>2 DEF SessionMoves
  <2> QED BY <1>2, <2>3, SessionKeeps
<1>7. CASE Cancel(s)
  <2>1. session' = session /\ lease' = lease /\ cancelled' = cancelled \cup {s}
    BY <1>7 DEF Cancel
  <2>2. SessionMoves
    BY <1>1, <1>2, <2>1 DEF SessionMoves
  <2> QED BY <1>2, <2>2, SessionKeeps
<1> QED BY <1>4, <1>5, <1>6, <1>7 DEF SessionStep

LEMMA GrantStep ==
    ASSUME TInv, Narrow \/ Revoke
    PROVE  TInv' /\ row' = row /\ done' = done
<1>1. /\ UNCHANGED <<row, call, done, file, tree, session, lease, cancelled, snapshot, released, phase>>
      /\ grant' \in {"NARROWED", "REVOKED"} /\ refused' \in {refused, TRUE}
  BY DEF Narrow, Revoke, handlers, sessions, daemon
<1>2. refused' \in BOOLEAN
  BY <1>1 DEF TInv, TypeOK
<1>3. TypeOK'
  BY <1>1, <1>2 DEF TInv, TypeOK
<1>4. SessionMoves
  BY <1>1, <1>3 DEF SessionMoves
<1> QED BY <1>1, <1>4, SessionKeeps

----
(* The daemon dies and starts *)

LEMMA CrashStep ==
    ASSUME TInv, Crash
    PROVE  TInv' /\ row' = row /\ done' = done
<1>1. TypeOK /\ UNCHANGED <<row, done, file, tree, session, snapshot, grant>>
  BY DEF TInv, Crash
<1>2. ASSUME NEW c \in Call
      PROVE  /\ call'[c] \in Handler /\ call'[c].at \in {"IDLE", "OVER"}
             /\ call'[c].at = "IDLE" => call[c].at = "IDLE"
  BY <1>1, <1>2, OverType DEF Crash, InFlight, TypeOK
<1>3. call' = [c \in Call |-> call'[c]]
  BY DEF Crash
<1>4. call' \in [Call -> Handler]
  BY <1>2, <1>3
<1>5. /\ lease' \in [Session -> {"NONE", "OPENING", "OPEN", "CLOSING", "CLOSED"}]
      /\ \A s \in Session : lease[s] = "NONE" => lease'[s] = "NONE"
  BY <1>1 DEF Crash
<1>6. cancelled' = {} /\ released' = {} /\ phase' = "DOWN" /\ refused' \in BOOLEAN
  BY DEF Crash
<1>7. TypeOK'
  BY <1>1, <1>4, <1>5, <1>6 DEF TypeOK
<1>8. ASSUME NEW c \in Call PROVE CallFits(c)'
  <2>1. RowFits(c) /\ HandlerFits(c) /\ TreeFits(c)
    BY <1>8 DEF TInv, CallFits
  <2>2. RowFits(c)' /\ HandlerFits(c)' /\ AnswerFits(c)' /\ StayFits(c)'
    BY <1>1, <1>2, <1>8, <2>1 DEF RowFits, HandlerFits, AnswerFits, StayFits, InFlight
  <2>3. TreeFits(c)'
    BY <1>1, <1>2, <1>6, <1>8, <2>1 DEF TreeFits
  <2> QED BY <2>2, <2>3 DEF CallFits
<1> QED BY <1>1, <1>5, <1>6, <1>7, <1>8 DEF TInv

\* While the daemon is not up, no call is handled.
LEMMA NobodyInFlight ==
    ASSUME TInv, phase # "UP", NEW c \in Call
    PROVE  ~InFlight(c)
BY DEF TInv, CallFits, StayFits

LEMMA StartStep ==
    ASSUME TInv, Start
    PROVE  TInv' /\ row' = row /\ done' = done
<1>1. /\ phase = "DOWN" /\ phase' = "BOOTING" /\ released' = released
      /\ UNCHANGED <<row, call, done, file, tree, session, lease, cancelled, snapshot, grant, refused>>
  BY DEF Start, handlers, sessions
<1>2. TypeOK'
  BY <1>1 DEF TInv, TypeOK
<1>3. ASSUME NEW c \in Call PROVE CallFits(c)'
  <2>1. RowFits(c) /\ HandlerFits(c) /\ AnswerFits(c) /\ TreeFits(c) /\ ~InFlight(c)
    BY <1>1, <1>3, NobodyInFlight DEF TInv, CallFits
  <2>2. RowFits(c)' /\ HandlerFits(c)' /\ AnswerFits(c)' /\ TreeFits(c)'
    BY <1>1, <2>1 DEF RowFits, HandlerFits, AnswerFits, TreeFits, InFlight
  <2>3. StayFits(c)'
    BY <1>1, <2>1 DEF StayFits, InFlight
  <2> QED BY <2>2, <2>3 DEF CallFits
<1> QED BY <1>1, <1>2, <1>3 DEF TInv

LEMMA ReleaseStep ==
    ASSUME TInv, NEW c \in Recipe, Release(c)
    PROVE  TInv' /\ row' = row /\ done' = done
<1>1. /\ phase = "BOOTING" /\ released' = released \cup {c} /\ tree' = [tree EXCEPT ![c] = "NONE"]
      /\ UNCHANGED <<row, call, done, file, session, lease, cancelled, snapshot, grant, refused, phase>>
  BY DEF Release, sessions
<1>2. TypeOK
  BY DEF TInv
<1>3. /\ tree'[c] = "NONE" /\ tree' \in [Recipe -> {"NONE", "ALIVE", "MASKED"}]
      /\ \A d \in Recipe \ {c} : tree'[d] = tree[d]
  BY <1>1, <1>2 DEF TypeOK
<1>4. TypeOK'
  BY <1>1, <1>2, <1>3 DEF TypeOK
<1>5. ASSUME NEW d \in Call PROVE CallFits(d)'
  <2>1. RowFits(d) /\ HandlerFits(d) /\ AnswerFits(d) /\ TreeFits(d) /\ ~InFlight(d)
    BY <1>1, <1>5, NobodyInFlight DEF TInv, CallFits
  <2>2. RowFits(d)' /\ HandlerFits(d)' /\ AnswerFits(d)' /\ StayFits(d)'
    BY <1>1, <2>1 DEF RowFits, HandlerFits, AnswerFits, StayFits, InFlight
  <2>3. TreeFits(d)'
    BY <1>1, <1>3, <2>1 DEF TreeFits
  <2> QED BY <2>2, <2>3 DEF CallFits
<1> QED BY <1>1, <1>4, <1>5 DEF TInv

LEMMA ReconcileStep ==
    ASSUME TInv, Reconcile
    PROVE  TInv' /\ done' = done
<1>1. /\ phase = "BOOTING" /\ phase' = "UP" /\ released' = {} /\ Unproven = {} /\ TypeOK
      /\ UNCHANGED <<call, done, file, tree, lease, cancelled, snapshot, grant, refused>>
  BY DEF Reconcile, TInv
<1>2. /\ row' \in [Call -> RowStatus]
      /\ \A c \in Call : row'[c] = IF row[c] = "STARTED" THEN "UNKNOWN_OUTCOME" ELSE row[c]
  BY <1>1 DEF Reconcile, Interrupted, Verdict, TypeOK, RowStatus
<1>3. /\ session' \in [Session -> {"NEW", "RUNNING", "ENDED"}]
      /\ \A s \in Session : session'[s] = "NEW" => session[s] = "NEW"
  BY <1>1 DEF Reconcile, TypeOK
<1>4. TypeOK'
  BY <1>1, <1>2, <1>3 DEF TypeOK
<1>5. ASSUME NEW c \in Call PROVE CallFits(c)'
  <2>1. RowFits(c) /\ HandlerFits(c) /\ AnswerFits(c) /\ TreeFits(c) /\ ~InFlight(c)
    BY <1>1, <1>5, NobodyInFlight DEF TInv, CallFits
  <2>2. RowFits(c)' /\ HandlerFits(c)' /\ AnswerFits(c)' /\ StayFits(c)'
    BY <1>1, <1>2, <1>5, <2>1 DEF RowFits, HandlerFits, AnswerFits, StayFits, InFlight
  <2>3. c \in Recipe /\ row[c] = "STARTED" => c \in released
    BY <1>1, <1>5 DEF Unproven, Interrupted
  <2>4. TreeFits(c)'
    BY <1>1, <1>2, <1>5, <2>1, <2>3 DEF TreeFits
  <2> QED BY <2>2, <2>4 DEF CallFits
<1> QED BY <1>1, <1>3, <1>4, <1>5 DEF TInv

----
(* The invariant, and what it says of the properties *)

LEMMA Invariant == KindsDiffer /\ TInv /\ [Next]_vars => TInv'
<1> SUFFICES ASSUME KindsDiffer, TInv, [Next]_vars PROVE TInv'
  OBVIOUS
<1>1. ASSUME NEW c \in Call, (\E s \in Session : Request(c, s)) \/ HandlerStep(c) \/ ServerActs(c) PROVE TInv'
  BY <1>1, RequestStep, AnswersStep, PrepareStep, EffectStep, FinishStep, ServerActsStep DEF HandlerStep
<1>2. ASSUME NEW c \in Recipe, TreeEnds(c) \/ Release(c) PROVE TInv'
  BY <1>2, TreeEndsStep, ReleaseStep
<1>3. ASSUME NEW s \in Session, SessionStep(s) PROVE TInv'
  BY <1>3, SessionsStep
<1>4. CASE Narrow \/ Revoke \/ Crash \/ Start \/ Reconcile
  BY <1>4, GrantStep, CrashStep, StartStep, ReconcileStep
<1>5. CASE UNCHANGED vars
  <2>1. UNCHANGED <<row, call, done, file, tree, session, lease, cancelled, snapshot, grant, refused, released, phase>>
    BY <1>5 DEF vars, handlers, sessions, daemon
  <2>2. TypeOK' /\ SessionMoves
    BY <2>1 DEF TInv, TypeOK, SessionMoves
  <2> QED BY <2>2, SessionKeeps
<1> QED BY <1>1, <1>2, <1>3, <1>4, <1>5 DEF Next, SessionStep

\* TInv holds in every state that the agents, the gateway, the owner, the servers and crashes reach.
THEOREM ToolCallsInvariant == ASSUME KindsDiffer PROVE Spec => []TInv
BY KindsDiffer, InitHolds, Invariant, PTL DEF Spec

\* Unless the owner cancels it, a session ends after the last of its calls.
THEOREM CallsStay == ASSUME KindsDiffer PROVE Spec => []CallsStayInTheirSession
<1>1. TInv => CallsStayInTheirSession
  <2> SUFFICES ASSUME TInv, NEW s \in Session, session[s] = "ENDED", s \notin cancelled, NEW c \in Inside(s)
               PROVE  FALSE
    BY DEF CallsStayInTheirSession
  <2>1. c \in Call /\ call[c].of = s /\ InFlight(c)
    BY DEF Inside
  <2>2. StayFits(c)
    BY <2>1 DEF TInv, CallFits
  <2> QED BY <2>1, <2>2 DEF StayFits
<1> QED BY <1>1, ToolCallsInvariant, PTL

\* A start finds on record every process tree that is alive, but for one its observation hid.
THEOREM TreesAreOnRecord == ASSUME KindsDiffer PROVE Spec => []LiveTreeIsStarted
<1>1. TInv => LiveTreeIsStarted
  BY DEF TInv, CallFits, TreeFits, LiveTreeIsStarted, Call, Direct
<1> QED BY <1>1, ToolCallsInvariant, PTL

----
(* A tool call implements AtMostOnce *)

\* What a step does to the rows and the effects.
Records ==
    \/ row' = row /\ done' = done
    \/ \E c \in Call :
          \/ /\ done' = done /\ row[c] = "NONE" /\ row' = [row EXCEPT ![c] = "STARTED"]
             /\ c \in External => grant = "GRANTED"
          \/ /\ row' = row /\ done[c] = 0 /\ done' = [done EXCEPT ![c] = 1]
             /\ row[c] = "STARTED" \/ (row[c] \in {"UNKNOWN_OUTCOME", "FAILED"} /\ c \notin File)
          \/ /\ done' = done /\ row[c] = "STARTED"
             /\ \E verdict \in RowStatus \ {"NONE"} :
                   /\ row' = [row EXCEPT ![c] = verdict]
                   /\ verdict = "SUCCEEDED" => done[c] = 1
                   /\ verdict = "FAILED" /\ c \in File => done[c] = 0
    \/ done' = done /\ Reconcile

LEMMA StepsRecord ==
    ASSUME KindsDiffer, TInv, [Next]_vars
    PROVE  Records
<1>1. ASSUME NEW c \in Call, NEW s \in Session, Request(c, s) PROVE Records
  <2>1. done' = done
    BY <1>1 DEF Request
  <2> QED BY <1>1, <2>1, RequestStep DEF Records
<1>2. ASSUME NEW c \in Call, HandlerStep(c) PROVE Records
  <2>1. CASE Deny(c) \/ GiveUp(c) \/ RecipeEnds(c) \/ ServerAnswers(c) \/ Prepare(c)
    BY <2>1, AnswersStep, PrepareStep DEF Records
  <2>2. CASE Replace(c) \/ Spawn(c)
    BY <2>2, EffectStep DEF Records
  <2>3. CASE Finish(c)
    BY <2>3, FinishStep DEF Records
  <2> QED BY <1>2, <2>1, <2>2, <2>3 DEF HandlerStep
<1>3. ASSUME NEW c \in Call, ServerActs(c) PROVE Records
  BY <1>3, ServerActsStep DEF Records
<1>4. ASSUME NEW c \in Recipe, TreeEnds(c) \/ Release(c) PROVE Records
  BY <1>4, TreeEndsStep, ReleaseStep DEF Records
<1>5. ASSUME NEW s \in Session, SessionStep(s) PROVE Records
  BY <1>5, SessionsStep DEF Records
<1>6. CASE Narrow \/ Revoke \/ Crash \/ Start
  BY <1>6, GrantStep, CrashStep, StartStep DEF Records
<1>7. CASE Reconcile
  BY <1>7, ReconcileStep DEF Records
<1>8. CASE UNCHANGED vars
  BY <1>8 DEF Records, vars, handlers
<1> QED BY <1>1, <1>2, <1>3, <1>4, <1>5, <1>6, <1>7, <1>8 DEF Next, SessionStep

\* No call of a tool of the owner's server starts that the grant does not cover at that moment.
THEOREM StartsAreGranted == ASSUME KindsDiffer PROVE Spec => OnlyGrantedToolsStart
<1>1. KindsDiffer /\ TInv /\ [Next]_vars => [OnlyGranted]_vars
  <2> SUFFICES ASSUME KindsDiffer, TInv, [Next]_vars, NEW c \in External, row[c] = "NONE", row'[c] = "STARTED"
               PROVE  grant = "GRANTED"
    BY DEF OnlyGranted
  <2>1. c \in Call /\ row \in [Call -> RowStatus]
    BY DEF Call, TInv, TypeOK
  <2>2. CASE row' = row
    BY <2>2
  <2>3. CASE Reconcile
    BY <2>1, <2>3 DEF Reconcile, Interrupted, Verdict
  <2>4. ASSUME NEW d \in Call, row[d] = "NONE", row' = [row EXCEPT ![d] = "STARTED"],
               d \in External => grant = "GRANTED"
        PROVE  grant = "GRANTED"
    BY <2>1, <2>4
  <2>5. ASSUME NEW d \in Call, row[d] = "STARTED", NEW verdict, row' = [row EXCEPT ![d] = verdict]
        PROVE  FALSE
    BY <2>1, <2>5
  <2> QED BY <2>2, <2>3, <2>4, <2>5, StepsRecord DEF Records
<1> QED BY <1>1, KindsDiffer, ToolCallsInvariant, PTL DEF Spec, OnlyGrantedToolsStart

LEMMA RecordsImplement ==
    ASSUME TInv, TInv', Records
    PROVE  [Promise!Next]_(Promise!vars)
<1>1. TypeOK
  BY DEF TInv
<1>2. CASE row' = row /\ done' = done
  BY <1>2 DEF Promise!vars, ClaimOf
<1>3. ASSUME NEW c \in Call, done' = done, row[c] = "NONE", row' = [row EXCEPT ![c] = "STARTED"]
      PROVE  Promise!Next
  <2>1. ClaimOf(c) = "UNCLAIMED" /\ ClaimOf(c)' = "CLAIMED" /\ \A d \in Call \ {c} : ClaimOf(d)' = ClaimOf(d)
    BY <1>1, <1>3 DEF ClaimOf, TypeOK
  <2>2. Promise!TakeClaims({c})
    BY <1>3, <2>1 DEF Promise!TakeClaims
  <2> QED BY <2>2 DEF Promise!Next
<1>4. ASSUME NEW c \in Call, row' = row, done[c] = 0, done' = [done EXCEPT ![c] = 1],
             row[c] = "STARTED" \/ (row[c] \in {"UNKNOWN_OUTCOME", "FAILED"} /\ c \notin File)
      PROVE  Promise!Next
  <2>1. ClaimOf(c) \in {"CLAIMED", "UNKNOWN"} /\ \A d \in Call : ClaimOf(d)' = ClaimOf(d)
    BY <1>4 DEF ClaimOf
  <2>2. Promise!Happen(c)
    BY <1>4, <2>1 DEF Promise!Happen
  <2> QED BY <2>2 DEF Promise!Next
<1>5. ASSUME NEW S \in SUBSET Call, done' = done,
             \A c \in S : row[c] = "STARTED" /\ ClaimOf(c)' \in {"REFUSED", "CONFIRMED", "UNKNOWN"},
             \A c \in Call \ S : row'[c] = row[c]
      PROVE  Promise!Next
  <2>1. /\ \A c \in S : ClaimOf(c) = "CLAIMED"
        /\ \A c \in Call \ S : ClaimOf(c)' = ClaimOf(c)
    BY <1>5 DEF ClaimOf
  <2>2. \A c \in Call : ClaimOf(c)' \in Promise!Claim
    BY DEF ClaimOf, Promise!Claim
  <2>3. \A c \in S : /\ ClaimOf(c)' = "REFUSED" => done[c] = 0
                     /\ ClaimOf(c)' = "CONFIRMED" => done[c] = 1
    <3> SUFFICES ASSUME NEW c \in S
                 PROVE  /\ ClaimOf(c)' = "REFUSED" => done'[c] = 0
                        /\ ClaimOf(c)' = "CONFIRMED" => done'[c] = 1
      BY <1>5
    <3>1. RowFits(c)'
      BY DEF TInv, CallFits
    <3> QED BY <3>1 DEF RowFits, ClaimOf
  <2>4. Promise!Settle(S)
    BY <1>5, <2>1, <2>2, <2>3 DEF Promise!Settle, Promise!Entitled
  <2> QED BY <2>4 DEF Promise!Next
<1>6. ASSUME NEW c \in Call, done' = done, row[c] = "STARTED", NEW verdict \in RowStatus \ {"NONE"},
             row' = [row EXCEPT ![c] = verdict]
      PROVE  [Promise!Next]_(Promise!vars)
  <2>1. row'[c] = verdict /\ \A d \in Call \ {c} : row'[d] = row[d]
    BY <1>1, <1>6 DEF TypeOK
  <2>2. CASE verdict = "STARTED"
    <3>1. \A d \in Call : ClaimOf(d)' = ClaimOf(d)
      BY <1>6, <2>1, <2>2 DEF ClaimOf
    <3> QED BY <1>6, <3>1 DEF Promise!vars
  <2>3. CASE verdict # "STARTED"
    <3>1. ClaimOf(c)' \in {"REFUSED", "CONFIRMED", "UNKNOWN"}
      BY <1>6, <2>1, <2>3 DEF ClaimOf, RowStatus
    <3>2. {c} \in SUBSET Call
      OBVIOUS
    <3> QED BY <1>5, <1>6, <2>1, <3>1, <3>2
  <2> QED BY <2>2, <2>3
<1>7. CASE done' = done /\ Reconcile
  <2>1. \A c \in Call : row'[c] = IF c \in Interrupted THEN "UNKNOWN_OUTCOME" ELSE row[c]
    BY <1>7 DEF Reconcile, Verdict
  <2>2. \A c \in Interrupted : row[c] = "STARTED" /\ ClaimOf(c)' = "UNKNOWN"
    BY <2>1 DEF Interrupted, ClaimOf
  <2>3. Interrupted \in SUBSET Call
    BY DEF Interrupted
  <2> QED BY <1>5, <1>7, <2>1, <2>2, <2>3
<1> QED BY <1>2, <1>3, <1>4, <1>6, <1>7 DEF Records

\* A tool call happens at most once: it is on disk before its effect, SUCCEEDED says that it happened,
\* a file call that FAILED left the file alone for good, and what a restart finds STARTED is UNKNOWN
\* and is not tried again.
THEOREM CallIsOnce == ASSUME KindsDiffer PROVE Spec => CalledAtMostOnce
<1>1. Init => Promise!Init
  BY DEF Init, ClaimOf, Promise!Init
<1>2. KindsDiffer /\ TInv /\ TInv' /\ [Next]_vars => [Promise!Next]_(Promise!vars)
  BY StepsRecord, RecordsImplement
<1> QED BY <1>1, <1>2, KindsDiffer, ToolCallsInvariant, PTL DEF Spec, CalledAtMostOnce, Promise!Spec

----
(* Workspace *)

CONSTANTS Attempt, Item, ItemOf(_), Strategy, spaceNobody, MaxFaults
VARIABLES repository, disk, spaceRow, attempt, loop, spacePhase, faults
Space == INSTANCE Workspace WITH Nobody <- spaceNobody, row <- spaceRow, phase <- spacePhase

DiskRow == [directory : {"NONE", "WORKTREE"}, known : BOOLEAN, branch : {"NONE", "BASE", "WORK"}]
SpaceRow == [status : {"NONE", "READY", "ORPHANED"}, strategy : {"ISOLATED", "SHARED"},
             holder : Attempt \cup {spaceNobody}, verified : BOOLEAN]
AttemptRow == [status : {"NEW", "QUEUED", "RUNNING", "WAITING", "OVER"}, writes : BOOLEAN, running : BOOLEAN]
LoopRow == [at : {"IDLE", "CHECKING", "INSPECTING", "SNAPSHOT", "ADDING", "RECORDING", "REMOVING", "DELETING", "SESSION"},
            cut : {"ISOLATED", "SHARED"}, place : {"NONE", "ISOLATED", "SHARED"}, leased : BOOLEAN, revoked : BOOLEAN]

SpaceConstants ==
    /\ \A a \in Attempt : ItemOf(a) \in Item
    /\ Strategy \subseteq {"ISOLATED", "SHARED"} /\ spaceNobody \notin Attempt /\ MaxFaults \in Nat

\* Whoever is at work on an attempt found it started, and what is RUNNING has its AgentRun.
RunOf(a) ==
    /\ attempt[a].status = "RUNNING" => attempt[a].running
    /\ loop[a].at # "IDLE" => attempt[a].status \notin {"NEW", "QUEUED"} /\ spacePhase = "UP"

\* A workspace is leased, or verified, or neither; of those that share the directory one is.
Taken(i) == spaceRow[i].holder # spaceNobody \/ spaceRow[i].verified
RowOf(i) ==
    /\ spaceRow[i].holder # spaceNobody => ~spaceRow[i].verified /\ ItemOf(spaceRow[i].holder) = i /\ attempt[spaceRow[i].holder].running
    /\ Taken(i) => spaceRow[i].status # "NONE"
    /\ spaceRow[i].strategy = "SHARED" /\ Taken(i) => ~Space!SharedAuthorityHeld(i)

\* A session that needs the lease of its directory has it.
SessionOf(a) ==
    loop[a].at = "SESSION" /\ loop[a].place # "NONE" =>
        /\ spaceRow[ItemOf(a)].status # "NONE" /\ spaceRow[ItemOf(a)].strategy = loop[a].place
        /\ loop[a].place = "ISOLATED" \/ attempt[a].writes => spaceRow[ItemOf(a)].holder = a

\* Of the attempts of one WorkItem one has a worktree that is not recorded yet, even when several
\* loops of it are under way: its branch keeps the others out.
Cuts(a) == loop[a].at \in {"RECORDING", "REMOVING", "DELETING"}
CutOf(a) ==
    Cuts(a) => /\ disk[ItemOf(a)].branch # "NONE"
               /\ \A b \in Attempt : Cuts(b) /\ ItemOf(b) = ItemOf(a) => a = b
               /\ loop[a].at = "DELETING" /\ spaceRow[ItemOf(a)].status = "NONE" => disk[ItemOf(a)].directory = "NONE"

SpaceInv ==
    /\ Space!TypeOK
    /\ \A a \in Attempt : RunOf(a) /\ SessionOf(a) /\ CutOf(a)
    /\ \A i \in Item : RowOf(i)
    /\ Space!CutIsRecorded

\* The types of what a step finds.
LEMMA SpaceTypes ==
    ASSUME SpaceInv
    PROVE  /\ disk \in [Item -> DiskRow] /\ spaceRow \in [Item -> SpaceRow] /\ attempt \in [Attempt -> AttemptRow]
           /\ loop \in [Attempt -> LoopRow] /\ repository \in {"NONE", "MIDWAY", "CLEAN"}
           /\ spacePhase \in {"UP", "DOWN", "STUCK"} /\ faults \in 0 .. MaxFaults
  BY DEF SpaceInv, Space!TypeOK, DiskRow, SpaceRow, AttemptRow, LoopRow

----
(* What a step of one attempt does to the rows *)

\* The row of the WorkItem stays, loses its holder, or is made or leased while nobody has it.
RowMoves(a) ==
    LET i == ItemOf(a) IN
    /\ spaceRow' \in [Item -> SpaceRow] /\ \A j \in Item \ {i} : spaceRow'[j] = spaceRow[j]
    /\ \/ spaceRow'[i] = spaceRow[i]
       \/ /\ spaceRow[i].holder = a /\ spaceRow'[i].holder = spaceNobody /\ spaceRow'[i].verified = spaceRow[i].verified
          /\ spaceRow'[i].status = spaceRow[i].status /\ spaceRow'[i].strategy = spaceRow[i].strategy
       \/ /\ spaceRow[i].holder = spaceNobody /\ ~spaceRow[i].verified /\ ~spaceRow'[i].verified /\ spaceRow'[i].status # "NONE"
          /\ spaceRow[i].status # "NONE" => spaceRow'[i].status = spaceRow[i].status /\ spaceRow'[i].strategy = spaceRow[i].strategy
          /\ spaceRow'[i].holder \in {spaceNobody, a}
          /\ spaceRow'[i].holder = a => /\ attempt'[a].running
                                        /\ spaceRow'[i].strategy = "SHARED" => ~Space!SharedAuthorityHeld(i)

StepOf(a) ==
    /\ attempt' \in [Attempt -> AttemptRow] /\ loop' \in [Attempt -> LoopRow]
    /\ \A b \in Attempt \ {a} : attempt'[b] = attempt[b] /\ loop'[b] = loop[b]
    /\ spacePhase = "UP" /\ spacePhase' = spacePhase
    /\ RowMoves(a) /\ (spaceRow'[ItemOf(a)].holder = a => attempt'[a].running)
    /\ RunOf(a)' /\ SessionOf(a)'

\* A step of one attempt, in the rows that are its own, keeps what holds of every attempt and of every row.
LEMMA StepKeeps ==
    ASSUME SpaceConstants, SpaceInv, NEW a \in Attempt, StepOf(a)
    PROVE  /\ \A b \in Attempt : RunOf(b)' /\ SessionOf(b)'
           /\ \A i \in Item : RowOf(i)'
           /\ \A i \in Item : spaceRow'[i].status = "NONE" => spaceRow[i].status = "NONE"
<1> DEFINE i == ItemOf(a)
<1>1. i \in Item
  BY DEF SpaceConstants
<1>2. /\ spaceRow \in [Item -> SpaceRow] /\ \A j \in Item : RowOf(j)
      /\ \A b \in Attempt : RunOf(b) /\ SessionOf(b)
  BY SpaceTypes DEF SpaceInv
<1>3. ASSUME NEW b \in Attempt PROVE RunOf(b)' /\ SessionOf(b)'
  <2>1. CASE b = a
    BY <2>1 DEF StepOf
  <2>2. CASE b # a
    <3>1. attempt'[b] = attempt[b] /\ loop'[b] = loop[b] /\ ItemOf(b) \in Item /\ RunOf(b) /\ SessionOf(b)
      BY <1>2, <2>2 DEF StepOf, SpaceConstants
    <3>2. RunOf(b)'
      BY <3>1 DEF StepOf, RunOf
    <3>3. /\ spaceRow[ItemOf(b)].status # "NONE" => spaceRow'[ItemOf(b)].status # "NONE" /\ spaceRow'[ItemOf(b)].strategy = spaceRow[ItemOf(b)].strategy
          /\ spaceRow[ItemOf(b)].holder = b => spaceRow'[ItemOf(b)].holder = b
      <4>1. CASE ItemOf(b) = i
        BY <1>2, <2>2, <4>1 DEF StepOf, RowMoves, SpaceConstants
      <4>2. CASE ItemOf(b) # i
        BY <3>1, <4>2 DEF StepOf, RowMoves
      <4> QED BY <4>1, <4>2
    <3>4. SessionOf(b)'
      BY <3>1, <3>3 DEF SessionOf
    <3> QED BY <3>2, <3>4
  <2> QED BY <2>1, <2>2
<1>4. ASSUME NEW j \in Item, j # i PROVE RowOf(j)'
  <2>1. spaceRow'[j] = spaceRow[j] /\ RowOf(j)
    BY <1>2, <1>4 DEF StepOf, RowMoves
  <2>2. spaceRow[j].holder # spaceNobody => spaceRow[j].holder # a /\ attempt'[spaceRow[j].holder] = attempt[spaceRow[j].holder]
    BY <1>2, <1>4, <2>1 DEF RowOf, StepOf, SpaceRow
  <2>3. ASSUME spaceRow[j].strategy = "SHARED", Taken(j), Space!SharedAuthorityHeld(j)' PROVE FALSE
    <3>1. PICK k \in Item \ {j} : spaceRow'[k].strategy = "SHARED" /\ (spaceRow'[k].holder # spaceNobody \/ spaceRow'[k].verified)
      BY <2>3 DEF Space!SharedAuthorityHeld
    <3>2. k = i
      BY <1>2, <2>1, <2>3, <3>1 DEF StepOf, RowMoves, RowOf, Space!SharedAuthorityHeld
    <3>3. spaceRow[i].strategy = "SHARED" /\ Taken(i) => FALSE
      BY <1>1, <1>4, <2>1, <2>3, <3>1, <3>2 DEF RowOf, Taken, Space!SharedAuthorityHeld
    <3>4. ~Space!SharedAuthorityHeld(i) => FALSE
      BY <1>4, <2>3 DEF Space!SharedAuthorityHeld, Taken
    <3> QED BY <3>1, <3>2, <3>3, <3>4 DEF StepOf, RowMoves, Taken
  <2> QED BY <2>1, <2>2, <2>3 DEF RowOf, Taken
<1>5. RowOf(i)'
  <2>1. RowOf(i)
    BY <1>1, <1>2
  <2>2. Space!SharedAuthorityHeld(i)' <=> Space!SharedAuthorityHeld(i)
    BY DEF StepOf, RowMoves, Space!SharedAuthorityHeld
  <2>3. spaceRow'[i].holder # spaceNobody => spaceRow'[i].holder = a \/ spaceRow'[i] = spaceRow[i]
    BY DEF StepOf, RowMoves
  <2>4. spaceRow'[i].holder # spaceNobody => ItemOf(spaceRow'[i].holder) = i /\ attempt'[spaceRow'[i].holder].running
    <3>1. CASE spaceRow'[i].holder = a
      BY <3>1 DEF StepOf
    <3>2. CASE spaceRow'[i].holder # a
      BY <1>1, <1>2, <2>1, <2>3, <3>2 DEF RowOf, StepOf, SpaceRow
    <3> QED BY <3>1, <3>2
  <2>5. (spaceRow'[i].holder # spaceNobody => ~spaceRow'[i].verified) /\ (Taken(i)' => spaceRow'[i].status # "NONE")
    BY <2>1 DEF StepOf, RowMoves, RowOf, Taken
  <2>6. spaceRow'[i].strategy = "SHARED" /\ Taken(i)' => ~Space!SharedAuthorityHeld(i)
    BY <2>1 DEF StepOf, RowMoves, RowOf, Taken
  <2> QED BY <2>2, <2>4, <2>5, <2>6 DEF RowOf, Taken
<1>6. \A j \in Item : spaceRow'[j].status = "NONE" => spaceRow[j].status = "NONE"
  BY DEF StepOf, RowMoves
<1> QED BY <1>3, <1>4, <1>5, <1>6

\* What a step leaves for the worktrees that are not recorded, its own and those of other loops.
CutStep(a) ==
    LET i == ItemOf(a) IN
    /\ disk' \in [Item -> DiskRow] /\ \A j \in Item \ {i} : disk'[j] = disk[j]
    /\ Cuts(a)' => /\ disk'[i].branch # "NONE" /\ \A b \in Attempt \ {a} : Cuts(b) => ItemOf(b) # i
                   /\ loop'[a].at = "DELETING" /\ spaceRow'[i].status = "NONE" => disk'[i].directory = "NONE"
    /\ (\E b \in Attempt \ {a} : Cuts(b) /\ ItemOf(b) = i) =>
          /\ disk[i].branch # "NONE" => disk'[i].branch # "NONE"
          /\ spaceRow'[i].status = "NONE" /\ disk[i].directory = "NONE" => disk'[i].directory = "NONE"
    /\ spaceRow'[i].status = "NONE" /\ (disk'[i].directory # "NONE" \/ disk'[i].branch = "BASE") =>
          faults' > 0 \/ Cuts(a)' \/ \E b \in Attempt \ {a} : Cuts(b) /\ ItemOf(b) = i

\* The invariant outlives a step of one attempt that takes no other worktree from the disk.
LEMMA SpaceKeeps ==
    ASSUME SpaceConstants, SpaceInv, NEW a \in Attempt, StepOf(a), CutStep(a), UNCHANGED repository,
           faults' \in 0 .. MaxFaults, faults > 0 => faults' > 0
    PROVE  SpaceInv'
<1> DEFINE i == ItemOf(a)
<1>1. i \in Item /\ \A b \in Attempt : ItemOf(b) \in Item
  BY DEF SpaceConstants
<1>2. /\ \A b \in Attempt : RunOf(b)' /\ SessionOf(b)'
      /\ \A j \in Item : RowOf(j)'
      /\ \A j \in Item : spaceRow'[j].status = "NONE" => spaceRow[j].status = "NONE"
  BY StepKeeps
<1>3. Space!TypeOK'
  BY SpaceTypes DEF StepOf, CutStep, RowMoves, Space!TypeOK, DiskRow, SpaceRow, AttemptRow, LoopRow
<1>4. \A b \in Attempt \ {a} : loop'[b] = loop[b] /\ (Cuts(b)' <=> Cuts(b)) /\ CutOf(b)
  BY DEF StepOf, SpaceInv, Cuts
<1>5. CutOf(a)'
  BY <1>1, <1>4 DEF CutStep, CutOf
<1>6. ASSUME NEW b \in Attempt \ {a} PROVE CutOf(b)'
  <2>1. CASE ItemOf(b) = i
    BY <1>1, <1>2, <1>4, <2>1 DEF CutStep, CutOf
  <2>2. CASE ItemOf(b) # i
    BY <1>1, <1>2, <1>4, <2>2 DEF CutStep, CutOf
  <2> QED BY <2>1, <2>2
<1>7. Space!CutIsRecorded'
  <2>1. SUFFICES ASSUME NEW j \in Item, spaceRow'[j].status = "NONE", disk'[j].directory # "NONE" \/ disk'[j].branch = "BASE"
                 PROVE  faults' > 0 \/ \E b \in Attempt : ItemOf(b) = j /\ Cuts(b)'
    BY DEF Space!CutIsRecorded, Cuts
  <2>2. CASE j = i
    BY <1>4, <2>1, <2>2 DEF CutStep
  <2>3. CASE j # i
    <3>1. spaceRow[j].status = "NONE" /\ disk'[j] = disk[j]
      BY <1>2, <2>1, <2>3 DEF CutStep
    <3>2. faults > 0 \/ \E b \in Attempt : ItemOf(b) = j /\ Cuts(b)
      BY <2>1, <3>1 DEF SpaceInv, Space!CutIsRecorded, Cuts
    <3> QED BY <1>4, <2>3, <3>2
  <2> QED BY <2>2, <2>3
<1> QED BY <1>2, <1>3, <1>5, <1>6, <1>7 DEF SpaceInv

\* The invariant outlives a step of one attempt that cuts nothing and leaves the disk alone.
LEMMA SameDisk ==
    ASSUME SpaceConstants, SpaceInv, NEW a \in Attempt, StepOf(a), ~Cuts(a), ~Cuts(a)', UNCHANGED <<repository, disk, faults>>
    PROVE  SpaceInv'
<1>1. ItemOf(a) \in Item
  BY DEF SpaceConstants
<1>2. \A j \in Item : spaceRow'[j].status = "NONE" => spaceRow[j].status = "NONE"
  BY StepKeeps
<1>3. CutStep(a)
  BY <1>1, <1>2, SpaceTypes DEF SpaceInv, Space!CutIsRecorded, CutStep, Cuts
<1> QED BY <1>3, SpaceKeeps, SpaceTypes

----
(* What the parts of a step do *)

\* An idle one is of its type.
LEMMA IdleType == Space!Idle \in LoopRow /\ Space!Idle.at = "IDLE" /\ Space!Idle.place = "NONE"
  BY DEF Space!Idle, LoopRow

\* A loop that leaves holds nothing any more.
LEMMA LeavesStep ==
    ASSUME SpaceInv, NEW a \in Attempt, Space!Leaves(a)
    PROVE  /\ loop' \in [Attempt -> LoopRow] /\ loop'[a].at = "IDLE" /\ \A b \in Attempt \ {a} : loop'[b] = loop[b]
  BY SpaceTypes, IdleType DEF Space!Leaves

\* A loop that proceeds enters its session, or leaves.
LEMMA ProceedStep ==
    ASSUME SpaceInv, NEW a \in Attempt, NEW place \in {"NONE", "ISOLATED", "SHARED"}, Space!Proceed(a, place)
    PROVE  /\ loop' \in [Attempt -> LoopRow] /\ \A b \in Attempt \ {a} : loop'[b] = loop[b]
           /\ \/ loop'[a].at = "IDLE"
              \/ loop'[a].at = "SESSION" /\ loop'[a].place = place
<1>1. CASE attempt[a].status = "RUNNING" /\ attempt[a].running /\ ~loop[a].revoked
  BY <1>1, SpaceTypes DEF Space!Proceed, LoopRow
<1>2. CASE ~(attempt[a].status = "RUNNING" /\ attempt[a].running /\ ~loop[a].revoked)
  BY <1>2, LeavesStep DEF Space!Proceed
<1> QED BY <1>1, <1>2

\* The row an attempt leases, or leaves to whoever has it: recorded before, or by this step.
Found(a, rows) ==
    LET i == ItemOf(a) IN
    /\ rows \in [Item -> SpaceRow] /\ \A j \in Item \ {i} : rows[j] = spaceRow[j]
    /\ rows[i].status # "NONE"
    /\ \/ rows[i] = spaceRow[i]
       \/ /\ spaceRow[i].status = "NONE" /\ ~rows[i].verified /\ rows[i].holder \in {spaceNobody, a}
          /\ rows[i].holder = a => attempt[a].running /\ rows[i].strategy = "ISOLATED"

\* A lease is taken, or refused, for one attempt.
LEMMA LeaseStep ==
    ASSUME SpaceConstants, SpaceInv, NEW a \in Attempt, loop[a].at # "IDLE", UNCHANGED <<attempt, spacePhase>>,
           NEW rows, Found(a, rows), Space!Lease(a, rows)
    PROVE  StepOf(a) /\ loop'[a].at \in {"IDLE", "SESSION"}
<1> DEFINE i == ItemOf(a)
<1>1. i \in Item
  BY DEF SpaceConstants
<1>2. /\ RunOf(a) /\ RowOf(i) /\ spaceRow[i] \in SpaceRow /\ rows[i] \in SpaceRow /\ attempt[a] \in AttemptRow
      /\ attempt \in [Attempt -> AttemptRow] /\ rows \in [Item -> SpaceRow]
  BY <1>1, SpaceTypes DEF SpaceInv, Found
<1>3. spacePhase = "UP" /\ attempt[a].status \notin {"NEW", "QUEUED"} /\ (attempt[a].status = "RUNNING" => attempt[a].running)
  BY <1>2 DEF RunOf
<1>4. spaceRow[i].status = "NONE" => spaceRow[i].holder = spaceNobody /\ ~spaceRow[i].verified
  BY <1>2 DEF RowOf, Taken
<1>5. spaceRow[i].holder = a => attempt[a].running
  BY <1>2 DEF RowOf, SpaceConstants
<1>6. CASE spaceRow' = rows
  <2>1. RowMoves(a) /\ (spaceRow'[i].holder = a => attempt'[a].running)
    BY <1>1, <1>4, <1>5, <1>6 DEF Found, RowMoves, SpaceConstants
  <2>2. CASE Space!Leaves(a)
    BY <1>2, <1>3, <2>1, <2>2, LeavesStep DEF StepOf, RunOf, SessionOf
  <2>3. CASE /\ ~Space!NeedsLease(a, rows[i].strategy) \/ rows[i].holder = a
             /\ Space!Proceed(a, rows[i].strategy)
    <3>1. /\ loop' \in [Attempt -> LoopRow] /\ \A b \in Attempt \ {a} : loop'[b] = loop[b]
          /\ \/ loop'[a].at = "IDLE"
             \/ loop'[a].at = "SESSION" /\ loop'[a].place = rows[i].strategy
      BY <1>2, <2>3, ProceedStep DEF SpaceRow
    <3>2. SessionOf(a)'
      BY <1>6, <2>3, <3>1 DEF SessionOf, Space!NeedsLease, Found
    <3> QED BY <1>2, <1>3, <2>1, <3>1, <3>2 DEF StepOf, RunOf
  <2> QED BY <1>1, <1>2, <1>6, <2>2, <2>3 DEF Space!Lease, Space!Claimed, SpaceRow
<1>7. CASE /\ ~Space!NeedsLease(a, rows[i].strategy) \/ rows[i].holder = a
  BY <1>6, <1>7 DEF Space!Lease
<1>8. CASE ~(~Space!NeedsLease(a, rows[i].strategy) \/ rows[i].holder = a)
  <2>1. CASE ~loop[a].revoked /\ Space!Executable(a) /\ Space!Claimable(i, rows[i])
    <3>1. spaceRow' = [rows EXCEPT ![i] = Space!Claimed(@, a)] /\ Space!Proceed(a, rows[i].strategy)
      BY <1>8, <2>1 DEF Space!Lease
    <3>2. attempt[a].running /\ rows[i].holder = spaceNobody /\ ~rows[i].verified
          /\ (rows[i].strategy = "SHARED" => ~Space!SharedAuthorityHeld(i))
      BY <1>2, <1>3, <2>1 DEF Space!Executable, Space!Claimable
    <3>3. /\ spaceRow' \in [Item -> SpaceRow] /\ \A j \in Item \ {i} : spaceRow'[j] = rows[j]
          /\ spaceRow'[i].holder = a /\ spaceRow'[i].status = rows[i].status /\ spaceRow'[i].strategy = rows[i].strategy
          /\ spaceRow'[i].verified = rows[i].verified
      BY <1>1, <1>2, <3>1 DEF Space!Claimed, SpaceRow
    <3>4. RowMoves(a)
      BY <1>1, <1>4, <3>2, <3>3 DEF Found, RowMoves
    <3>5. /\ loop' \in [Attempt -> LoopRow] /\ \A b \in Attempt \ {a} : loop'[b] = loop[b]
          /\ \/ loop'[a].at = "IDLE"
             \/ loop'[a].at = "SESSION" /\ loop'[a].place = rows[i].strategy
      BY <1>2, <3>1, ProceedStep DEF SpaceRow
    <3>6. SessionOf(a)'
      BY <3>3, <3>5 DEF SessionOf, Found
    <3> QED BY <1>2, <1>3, <3>2, <3>4, <3>5, <3>6 DEF StepOf, RunOf
  <2>2. CASE ~(~loop[a].revoked /\ Space!Executable(a) /\ Space!Claimable(i, rows[i]))
    BY <1>6, <1>8, <2>2 DEF Space!Lease
  <2> QED BY <2>1, <2>2
<1> QED BY <1>7, <1>8

\* The row of a workspace that is leased.
LEMMA LeasedRow ==
    ASSUME SpaceConstants, NEW a \in Attempt, NEW rows, Found(a, rows), Space!Lease(a, rows)
    PROVE  spaceRow'[ItemOf(a)].status # "NONE"
<1>1. ItemOf(a) \in Item /\ rows \in [Item -> SpaceRow] /\ rows[ItemOf(a)] \in SpaceRow
  BY DEF SpaceConstants, Found
<1>2. spaceRow' = rows \/ spaceRow' = [rows EXCEPT ![ItemOf(a)] = Space!Claimed(@, a)]
  BY DEF Space!Lease
<1> QED BY <1>1, <1>2 DEF Found, Space!Claimed, SpaceRow

\* An AgentRun that finishes gives its lease back, and no other attempt notices.
LEMMA SpaceFinishStep ==
    ASSUME SpaceConstants, SpaceInv, NEW a \in Attempt, NEW status \in {"WAITING", "OVER", "QUEUED", "NEW"},
           Space!Finish(a, status)
    PROVE  /\ attempt' \in [Attempt -> AttemptRow] /\ attempt'[a].status = status /\ ~attempt'[a].running
           /\ \A b \in Attempt \ {a} : attempt'[b] = attempt[b]
           /\ RowMoves(a) /\ spaceRow'[ItemOf(a)].holder # a /\ spaceRow'[ItemOf(a)].status = spaceRow[ItemOf(a)].status
<1> DEFINE i == ItemOf(a)
<1>1. i \in Item /\ spaceRow \in [Item -> SpaceRow] /\ spaceRow[i] \in SpaceRow /\ RowOf(i)
  BY SpaceTypes DEF SpaceConstants, SpaceInv
<1>2. /\ attempt' \in [Attempt -> AttemptRow] /\ attempt'[a].status = status /\ ~attempt'[a].running
      /\ \A b \in Attempt \ {a} : attempt'[b] = attempt[b]
  BY SpaceTypes DEF Space!Finish, AttemptRow
<1>3. spaceRow[i].holder = a => attempt[a].running
  BY <1>1 DEF RowOf, SpaceConstants
<1>4. RowMoves(a) /\ spaceRow'[i].holder # a /\ spaceRow'[i].status = spaceRow[i].status
  <2>1. CASE attempt[a].running /\ spaceRow[i].holder = a
    <3>1. spaceRow' = [spaceRow EXCEPT ![i] = [@ EXCEPT !.holder = spaceNobody]]
      BY <1>1, <2>1 DEF Space!Finish, Space!Released
    <3> QED BY <1>1, <2>1, <3>1 DEF RowMoves, SpaceRow, SpaceConstants
  <2>2. CASE ~(attempt[a].running /\ spaceRow[i].holder = a)
    <3>1. spaceRow' = spaceRow
      BY <1>1, <2>2 DEF Space!Finish, Space!Released
    <3> QED BY <1>1, <1>3, <2>2, <3>1 DEF RowMoves
  <2> QED BY <2>1, <2>2
<1> QED BY <1>2, <1>4

\* An attempt that is refused ends with its AgentRun.
LEMMA RefuseStep ==
    ASSUME SpaceConstants, SpaceInv, NEW a \in Attempt, loop[a].at # "IDLE", Space!Refuse(a), UNCHANGED spacePhase
    PROVE  StepOf(a) /\ loop'[a].at = "IDLE"
<1>1. /\ ItemOf(a) \in Item /\ RunOf(a) /\ RowOf(ItemOf(a)) /\ spaceRow \in [Item -> SpaceRow]
      /\ attempt \in [Attempt -> AttemptRow]
  BY SpaceTypes DEF SpaceConstants, SpaceInv
<1>2. /\ loop' \in [Attempt -> LoopRow] /\ loop'[a].at = "IDLE" /\ \A b \in Attempt \ {a} : loop'[b] = loop[b]
  BY LeavesStep DEF Space!Refuse
<1>3. /\ attempt' \in [Attempt -> AttemptRow] /\ \A b \in Attempt \ {a} : attempt'[b] = attempt[b]
      /\ RowMoves(a) /\ (spaceRow'[ItemOf(a)].holder = a => attempt'[a].running)
      /\ (attempt'[a].status = "RUNNING" => attempt'[a].running)
  <2>1. CASE attempt[a].status = "RUNNING"
    <3>1. Space!Finish(a, "WAITING")
      BY <2>1 DEF Space!Refuse
    <3> QED BY <3>1, SpaceFinishStep
  <2>2. CASE attempt[a].status # "RUNNING"
    <3>1. attempt' = attempt /\ spaceRow' = spaceRow
      BY <2>2 DEF Space!Refuse
    <3> QED BY <1>1, <2>2, <3>1 DEF RowMoves, RowOf, SpaceConstants
  <2> QED BY <2>1, <2>2
<1> QED BY <1>1, <1>2, <1>3 DEF StepOf, RunOf, SessionOf

----
(* The steps of an attempt *)

\* The invariant outlives Queue.
LEMMA QueueKeeps == ASSUME SpaceConstants, SpaceInv, NEW a \in Attempt, Space!Queue(a) PROVE SpaceInv'
<1>1. /\ UNCHANGED <<repository, disk, spaceRow, loop, spacePhase, faults>> /\ spacePhase = "UP" /\ loop[a].at = "IDLE"
      /\ ~attempt[a].running
  BY DEF Space!Queue
<1>2. /\ ItemOf(a) \in Item /\ RowOf(ItemOf(a)) /\ spaceRow \in [Item -> SpaceRow] /\ loop \in [Attempt -> LoopRow]
      /\ attempt \in [Attempt -> AttemptRow]
  BY SpaceTypes DEF SpaceConstants, SpaceInv
<1>3. /\ attempt' \in [Attempt -> AttemptRow] /\ attempt'[a].status = "QUEUED" /\ \A b \in Attempt \ {a} : attempt'[b] = attempt[b]
  BY <1>2 DEF Space!Queue, AttemptRow
<1>4. spaceRow[ItemOf(a)].holder # a
  BY <1>1, <1>2 DEF RowOf, SpaceConstants
<1>5. StepOf(a)
  BY <1>1, <1>2, <1>3, <1>4 DEF StepOf, RowMoves, RunOf, SessionOf
<1> QED BY <1>1, <1>5, SameDisk DEF Cuts

\* A loop that enters a session has its lease.
LEMMA EntersStep ==
    ASSUME SpaceInv, NEW a \in Attempt, Space!Enters(a)
    PROVE  /\ loop' \in [Attempt -> LoopRow] /\ loop'[a].at \in {"INSPECTING", "CHECKING"}
           /\ \A b \in Attempt \ {a} : loop'[b] = loop[b]
<1> DEFINE entry == [Space!Idle EXCEPT !.at = IF spaceRow[ItemOf(a)].status = "NONE" THEN "INSPECTING" ELSE "CHECKING"]
<1>1. entry \in LoopRow /\ entry.at \in {"INSPECTING", "CHECKING"}
  BY IdleType DEF LoopRow
<1>2. loop' = [loop EXCEPT ![a] = entry]
  BY DEF Space!Enters
<1> HIDE DEF entry
<1> QED BY <1>1, <1>2, SpaceTypes

\* The invariant outlives StartAgentRun and TakeUp.
LEMMA StartKeeps ==
    ASSUME SpaceConstants, SpaceInv, NEW a \in Attempt, Space!StartAgentRun(a) \/ Space!TakeUp(a)
    PROVE  SpaceInv'
<1> DEFINE i == ItemOf(a)
<1>1. /\ UNCHANGED <<repository, disk, spacePhase, faults>> /\ spacePhase = "UP" /\ loop[a].at = "IDLE" /\ Space!Enters(a)
  BY DEF Space!StartAgentRun, Space!TakeUp
<1>2. /\ i \in Item /\ RowOf(i) /\ spaceRow \in [Item -> SpaceRow] /\ spaceRow[i] \in SpaceRow
      /\ attempt \in [Attempt -> AttemptRow]
  BY SpaceTypes DEF SpaceConstants, SpaceInv
<1>3. /\ loop' \in [Attempt -> LoopRow] /\ loop'[a].at \in {"INSPECTING", "CHECKING"}
      /\ \A b \in Attempt \ {a} : loop'[b] = loop[b]
  BY <1>1, EntersStep
<1>4. /\ attempt' \in [Attempt -> AttemptRow] /\ \A b \in Attempt \ {a} : attempt'[b] = attempt[b]
      /\ attempt'[a].status = "RUNNING" /\ attempt'[a].running
  BY <1>2 DEF Space!StartAgentRun, Space!TakeUp, AttemptRow
<1>5. RowMoves(a)
  <2>1. CASE spaceRow' = spaceRow
    BY <1>2, <2>1 DEF RowMoves
  <2>2. CASE spaceRow' # spaceRow
    <3>1. spaceRow[i].status = "READY" /\ Space!Claimable(i, spaceRow[i]) /\ spaceRow' = [spaceRow EXCEPT ![i] = Space!Claimed(@, a)]
      BY <2>2 DEF Space!StartAgentRun, Space!TakeUp
    <3> QED BY <1>2, <1>4, <3>1 DEF RowMoves, Space!Claimable, Space!Claimed, SpaceRow
  <2> QED BY <2>1, <2>2
<1>6. StepOf(a)
  BY <1>1, <1>3, <1>4, <1>5 DEF StepOf, RunOf, SessionOf
<1> QED BY <1>1, <1>3, <1>6, SameDisk DEF Cuts

\* A row that is recorded is found as it is.
LEMMA FoundRow == ASSUME SpaceInv, NEW a \in Attempt, spaceRow[ItemOf(a)].status # "NONE" PROVE Found(a, spaceRow)
  BY SpaceTypes DEF Found

\* The invariant outlives CheckWorkspace.
LEMMA CheckKeeps == ASSUME SpaceConstants, SpaceInv, NEW a \in Attempt, Space!CheckWorkspace(a) PROVE SpaceInv'
<1>1. UNCHANGED <<repository, disk, spacePhase, faults>> /\ loop[a].at = "CHECKING"
  BY DEF Space!CheckWorkspace
<1>2. StepOf(a) /\ loop'[a].at \in {"IDLE", "SESSION"}
  <2>1. CASE spaceRow[ItemOf(a)].status = "READY" /\ Space!Lease(a, spaceRow) /\ UNCHANGED attempt
    BY <1>1, <2>1, FoundRow, LeaseStep
  <2>2. CASE Space!Leaves(a) /\ UNCHANGED <<spaceRow, attempt>>
    <3>1. /\ ItemOf(a) \in Item /\ RowOf(ItemOf(a)) /\ spaceRow \in [Item -> SpaceRow] /\ RunOf(a)
          /\ attempt \in [Attempt -> AttemptRow]
      BY SpaceTypes DEF SpaceConstants, SpaceInv
    <3> QED BY <1>1, <2>2, <3>1, LeavesStep DEF StepOf, RowMoves, RunOf, RowOf, SessionOf, SpaceConstants
  <2>3. CASE Space!Refuse(a)
    BY <1>1, <2>3, RefuseStep
  <2> QED BY <2>1, <2>2, <2>3 DEF Space!CheckWorkspace
<1> QED BY <1>1, <1>2, SameDisk DEF Cuts

\* A step of a loop that changes nothing but what the loop does next.
LEMMA LoopStep ==
    ASSUME SpaceConstants, SpaceInv, NEW a \in Attempt, loop[a].at # "IDLE", UNCHANGED <<spaceRow, attempt, spacePhase>>,
           loop' \in [Attempt -> LoopRow], \A b \in Attempt \ {a} : loop'[b] = loop[b],
           loop'[a].at = "SESSION" => loop'[a].place = "NONE"
    PROVE  StepOf(a)
<1>1. /\ ItemOf(a) \in Item /\ RowOf(ItemOf(a)) /\ spaceRow \in [Item -> SpaceRow] /\ RunOf(a)
      /\ attempt \in [Attempt -> AttemptRow]
  BY SpaceTypes DEF SpaceConstants, SpaceInv
<1> QED BY <1>1 DEF StepOf, RowMoves, RunOf, RowOf, SessionOf, SpaceConstants

\* The invariant outlives Inspect.
LEMMA InspectKeeps == ASSUME SpaceConstants, SpaceInv, NEW a \in Attempt, Space!Inspect(a) PROVE SpaceInv'
<1>1. UNCHANGED <<repository, disk, spacePhase, faults>> /\ loop[a].at = "INSPECTING"
  BY DEF Space!Inspect
<1>2. StepOf(a) /\ loop'[a].at \in {"IDLE", "SESSION", "SNAPSHOT"}
  <2>1. CASE spaceRow' = spaceRow /\ Space!Proceed(a, "NONE") /\ UNCHANGED attempt
    BY <1>1, <2>1, ProceedStep, LoopStep
  <2>2. CASE Space!Refuse(a)
    BY <1>1, <2>2, RefuseStep
  <2>3. CASE /\ \E strategy \in Strategy : loop' = [loop EXCEPT ![a].at = "SNAPSHOT", ![a].cut = strategy]
             /\ UNCHANGED <<spaceRow, attempt>>
    <3>1. /\ loop' \in [Attempt -> LoopRow] /\ \A b \in Attempt \ {a} : loop'[b] = loop[b]
          /\ loop'[a].at = "SNAPSHOT"
      <4>1. PICK strategy \in Strategy : loop' = [loop EXCEPT ![a].at = "SNAPSHOT", ![a].cut = strategy]
        BY <2>3
      <4>2. strategy \in {"ISOLATED", "SHARED"}
        BY DEF SpaceConstants
      <4> QED BY <4>1, <4>2, SpaceTypes DEF LoopRow
    <3> QED BY <1>1, <2>3, <3>1, LoopStep
  <2> QED BY <2>1, <2>2, <2>3 DEF Space!Inspect
<1> QED BY <1>1, <1>2, SameDisk DEF Cuts

\* A loop that goes on to its next step.
LEMMA GoesStep ==
    ASSUME SpaceInv, NEW a \in Attempt, NEW at \in {"ADDING", "RECORDING", "REMOVING", "DELETING"}, Space!Goes(a, at)
    PROVE  /\ loop' \in [Attempt -> LoopRow] /\ loop'[a].at = at /\ \A b \in Attempt \ {a} : loop'[b] = loop[b]
  BY SpaceTypes DEF Space!Goes, LoopRow

\* The row that a worktree is recorded in.
LEMMA CreatedRow ==
    ASSUME SpaceConstants, SpaceInv, NEW a \in Attempt, spaceRow[ItemOf(a)].status = "NONE"
    PROVE  /\ Found(a, Space!Created(a, "SHARED", FALSE))
           /\ Found(a, Space!Created(a, "ISOLATED", attempt[a].running))
<1>1. ItemOf(a) \in Item /\ spaceRow \in [Item -> SpaceRow]
  BY SpaceTypes DEF SpaceConstants
<1>2. Found(a, Space!Created(a, "SHARED", FALSE))
  BY <1>1 DEF Found, Space!Created, SpaceRow, SpaceConstants
<1>3. Found(a, Space!Created(a, "ISOLATED", attempt[a].running))
  BY <1>1 DEF Found, Space!Created, SpaceRow, SpaceConstants
<1> QED BY <1>2, <1>3

\* The invariant outlives Snapshot.
LEMMA SnapshotKeeps == ASSUME SpaceConstants, SpaceInv, NEW a \in Attempt, Space!Snapshot(a) PROVE SpaceInv'
<1>1. UNCHANGED <<repository, disk, spacePhase, faults>> /\ loop[a].at = "SNAPSHOT"
  BY DEF Space!Snapshot
<1>2. StepOf(a) /\ loop'[a].at \in {"IDLE", "SESSION", "ADDING"}
  <2>1. CASE Space!Refuse(a)
    BY <1>1, <2>1, RefuseStep
  <2>2. CASE Space!Goes(a, "ADDING") /\ UNCHANGED <<spaceRow, attempt>>
    BY <1>1, <2>2, GoesStep, LoopStep
  <2>3. CASE spaceRow[ItemOf(a)].status = "NONE" /\ Space!Lease(a, Space!Created(a, "SHARED", FALSE)) /\ UNCHANGED attempt
    BY <1>1, <2>3, CreatedRow, LeaseStep
  <2> QED BY <2>1, <2>2, <2>3 DEF Space!Snapshot
<1> QED BY <1>1, <1>2, SameDisk DEF Cuts

\* The invariant outlives Add.
LEMMA AddKeeps == ASSUME SpaceConstants, SpaceInv, NEW a \in Attempt, Space!Add(a) PROVE SpaceInv'
<1> DEFINE i == ItemOf(a)
<1>1. UNCHANGED <<repository, spacePhase, faults>> /\ loop[a].at = "ADDING"
  BY DEF Space!Add
<1>2. CASE Space!Refuse(a) /\ UNCHANGED disk
  <2>1. StepOf(a) /\ loop'[a].at = "IDLE"
    BY <1>1, <1>2, RefuseStep
  <2> QED BY <1>1, <1>2, <2>1, SameDisk DEF Cuts
<1>3. CASE /\ disk[i].branch = "NONE"
           /\ disk' = [disk EXCEPT ![i] = [directory |-> "WORKTREE", known |-> TRUE, branch |-> "BASE"]]
           /\ Space!Goes(a, "RECORDING") /\ UNCHANGED <<spaceRow, attempt>>
  <2>1. /\ loop' \in [Attempt -> LoopRow] /\ loop'[a].at = "RECORDING" /\ \A b \in Attempt \ {a} : loop'[b] = loop[b]
    BY <1>3, GoesStep
  <2>2. StepOf(a)
    BY <1>1, <1>3, <2>1, LoopStep
  <2>3. i \in Item /\ disk \in [Item -> DiskRow] /\ \A b \in Attempt : CutOf(b)
    BY SpaceTypes DEF SpaceConstants, SpaceInv
  <2>4. \A b \in Attempt : Cuts(b) => ItemOf(b) # i
    BY <1>3, <2>3 DEF CutOf
  <2>5. CutStep(a)
    BY <1>3, <2>1, <2>3, <2>4 DEF CutStep, Cuts, DiskRow
  <2> QED BY <1>1, <2>2, <2>5, SpaceKeeps, SpaceTypes
<1> QED BY <1>2, <1>3 DEF Space!Add

\* The loop that cuts is the only one of its WorkItem, and its worktree is nobody else's concern.
LEMMA CutsAlone ==
    ASSUME SpaceConstants, SpaceInv, NEW a \in Attempt, Cuts(a)
    PROVE  /\ ItemOf(a) \in Item /\ disk \in [Item -> DiskRow] /\ disk[ItemOf(a)] \in DiskRow
           /\ disk[ItemOf(a)].branch # "NONE"
           /\ \A b \in Attempt \ {a} : Cuts(b) => ItemOf(b) # ItemOf(a)
           /\ loop[a].at = "DELETING" /\ spaceRow[ItemOf(a)].status = "NONE" => disk[ItemOf(a)].directory = "NONE"
  BY SpaceTypes DEF SpaceConstants, SpaceInv, CutOf, Cuts

\* The invariant outlives Record.
LEMMA RecordKeeps == ASSUME SpaceConstants, SpaceInv, NEW a \in Attempt, Space!Record(a) PROVE SpaceInv'
<1> DEFINE i == ItemOf(a)
<1>1. UNCHANGED <<repository, disk, attempt, spacePhase, faults>> /\ loop[a].at = "RECORDING"
  BY DEF Space!Record
<1>2. /\ i \in Item /\ disk \in [Item -> DiskRow] /\ disk[i].branch # "NONE"
      /\ \A b \in Attempt \ {a} : Cuts(b) => ItemOf(b) # i
  BY <1>1, CutsAlone DEF Cuts
<1>3. CASE spaceRow[i].status = "NONE" /\ Space!Lease(a, Space!Created(a, "ISOLATED", attempt[a].running))
  <2>1. StepOf(a) /\ loop'[a].at \in {"IDLE", "SESSION"}
    BY <1>1, <1>3, CreatedRow, LeaseStep
  <2>2. spaceRow'[i].status # "NONE"
    BY <1>3, CreatedRow, LeasedRow
  <2>3. CutStep(a)
    BY <1>1, <1>2, <2>1, <2>2 DEF CutStep, Cuts
  <2> QED BY <1>1, <2>1, <2>3, SpaceKeeps, SpaceTypes
<1>4. CASE Space!Goes(a, "REMOVING") /\ UNCHANGED spaceRow
  <2>1. /\ loop' \in [Attempt -> LoopRow] /\ loop'[a].at = "REMOVING" /\ \A b \in Attempt \ {a} : loop'[b] = loop[b]
    BY <1>4, GoesStep
  <2>2. StepOf(a)
    BY <1>1, <1>4, <2>1, LoopStep
  <2>3. CutStep(a)
    BY <1>1, <1>2, <1>4, <2>1 DEF CutStep, Cuts
  <2> QED BY <1>1, <2>2, <2>3, SpaceKeeps, SpaceTypes
<1> QED BY <1>3, <1>4 DEF Space!Record

\* The invariant outlives Rollback.
LEMMA RollbackKeeps ==
    ASSUME SpaceConstants, SpaceInv, NEW a \in Attempt, Space!Rollback(a)
    PROVE  SpaceInv'
<1> DEFINE i == ItemOf(a)
<1>1. UNCHANGED <<repository, spacePhase>> /\ loop[a].at \in {"REMOVING", "DELETING"}
  BY DEF Space!Rollback, Space!Remove, Space!RemoveFails, Space!DeleteBranch
<1>2. /\ i \in Item /\ disk \in [Item -> DiskRow] /\ disk[i] \in DiskRow /\ disk[i].branch # "NONE"
      /\ \A b \in Attempt \ {a} : Cuts(b) => ItemOf(b) # i
      /\ loop[a].at = "DELETING" /\ spaceRow[i].status = "NONE" => disk[i].directory = "NONE"
  BY <1>1, CutsAlone DEF Cuts
<1>3. CASE Space!Remove(a)
  <2>1. /\ loop' \in [Attempt -> LoopRow] /\ loop'[a].at = "DELETING" /\ \A b \in Attempt \ {a} : loop'[b] = loop[b]
    BY <1>3, GoesStep DEF Space!Remove
  <2>2. StepOf(a)
    BY <1>1, <1>3, <2>1, LoopStep DEF Space!Remove
  <2>3. CutStep(a)
    BY <1>2, <1>3, <2>1 DEF Space!Remove, CutStep, Cuts, DiskRow
  <2> QED BY <1>1, <1>3, <2>2, <2>3, SpaceKeeps, SpaceTypes DEF Space!Remove
<1>4. CASE Space!RemoveFails(a)
  <2>1. StepOf(a) /\ loop'[a].at = "IDLE"
    BY <1>1, <1>4, RefuseStep DEF Space!RemoveFails
  <2>2. faults' \in 0 .. MaxFaults /\ faults' > 0
    BY <1>4, SpaceTypes DEF Space!RemoveFails, SpaceConstants
  <2>3. CutStep(a)
    BY <1>2, <1>4, <2>1, <2>2 DEF Space!RemoveFails, CutStep, Cuts
  <2> QED BY <1>1, <2>1, <2>2, <2>3, SpaceKeeps
<1>5. CASE Space!DeleteBranch(a)
  <2>1. StepOf(a) /\ loop'[a].at = "IDLE"
    BY <1>1, <1>5, RefuseStep DEF Space!DeleteBranch
  <2>2. spaceRow'[i].status = "NONE" => spaceRow[i].status = "NONE"
    BY <1>2, <2>1, StepKeeps
  <2>3. /\ disk' \in [Item -> DiskRow] /\ \A j \in Item \ {i} : disk'[j] = disk[j]
        /\ disk'[i].branch # "BASE" /\ disk'[i].directory = disk[i].directory
    BY <1>2, <1>5 DEF Space!DeleteBranch, DiskRow
  <2>4. loop[a].at = "DELETING"
    BY <1>5 DEF Space!DeleteBranch
  <2>5. CutStep(a)
    BY <1>2, <2>1, <2>2, <2>3, <2>4 DEF CutStep, Cuts
  <2> QED BY <1>1, <1>5, <2>1, <2>5, SpaceKeeps, SpaceTypes DEF Space!DeleteBranch
<1> QED BY <1>3, <1>4, <1>5 DEF Space!Rollback

\* The invariant outlives EndSession, Unwind and Revoke.
LEMMA EndKeeps ==
    ASSUME SpaceConstants, SpaceInv, NEW a \in Attempt, Space!EndSession(a) \/ Space!Unwind(a) \/ Space!Revoke(a)
    PROVE  SpaceInv'
<1> DEFINE i == ItemOf(a)
<1>1. /\ i \in Item /\ RowOf(i) /\ spaceRow \in [Item -> SpaceRow] /\ RunOf(a) /\ SessionOf(a) /\ CutOf(a)
      /\ attempt \in [Attempt -> AttemptRow] /\ attempt[a] \in AttemptRow
      /\ disk \in [Item -> DiskRow] /\ disk[i] \in DiskRow /\ loop \in [Attempt -> LoopRow] /\ loop[a] \in LoopRow
  BY SpaceTypes DEF SpaceConstants, SpaceInv
<1>2. CASE Space!EndSession(a)
  <2>1. UNCHANGED <<repository, spacePhase, faults>> /\ loop[a].at = "SESSION"
    BY <1>2 DEF Space!EndSession
  <2>2. PICK status \in {"WAITING", "OVER"} : Space!Finish(a, status)
    BY <1>1, <1>2, <2>1 DEF Space!EndSession, RunOf, AttemptRow
  <2>3. /\ loop' \in [Attempt -> LoopRow] /\ loop'[a].at = "IDLE" /\ \A b \in Attempt \ {a} : loop'[b] = loop[b]
    BY <1>2, LeavesStep DEF Space!EndSession
  <2>4. StepOf(a)
    BY <1>1, <2>1, <2>2, <2>3, SpaceFinishStep DEF StepOf, RunOf, SessionOf
  <2>5. CASE UNCHANGED disk
    BY <2>1, <2>3, <2>4, <2>5, SameDisk DEF Cuts
  <2>6. CASE loop[a].place = "ISOLATED" /\ disk' = [disk EXCEPT ![i].branch = "WORK"]
    <3>1. /\ disk' \in [Item -> DiskRow] /\ \A j \in Item \ {i} : disk'[j] = disk[j]
          /\ disk'[i].branch = "WORK" /\ disk'[i].directory = disk[i].directory
      BY <1>1, <2>6 DEF DiskRow
    <3>2. spaceRow[i].status # "NONE"
      BY <1>1, <2>1, <2>6 DEF SessionOf
    <3>3. spaceRow'[i].status # "NONE"
      BY <1>1, <2>4, <3>2, StepKeeps
    <3>4. CutStep(a)
      BY <2>3, <3>1, <3>3 DEF CutStep, Cuts
    <3> QED BY <2>1, <2>4, <3>4, SpaceKeeps, SpaceTypes
  <2> QED BY <1>2, <2>5, <2>6 DEF Space!EndSession
<1>3. CASE Space!Unwind(a)
  <2>1. UNCHANGED <<repository, disk, attempt, spacePhase, faults>> /\ loop[a].at = "SESSION" /\ attempt[a].status = "RUNNING"
    BY <1>3 DEF Space!Unwind
  <2>2. /\ loop' \in [Attempt -> LoopRow] /\ loop'[a].at = "IDLE" /\ \A b \in Attempt \ {a} : loop'[b] = loop[b]
    BY <1>3, LeavesStep DEF Space!Unwind
  <2>3. spaceRow' = spaceRow \/ (spaceRow[i].holder = a /\ spaceRow' = [spaceRow EXCEPT ![i] = [@ EXCEPT !.holder = spaceNobody]])
    BY <1>1, <1>3 DEF Space!Unwind, Space!Released
  <2>4. RowMoves(a)
    BY <1>1, <2>3 DEF RowMoves, SpaceRow
  <2>5. StepOf(a)
    BY <1>1, <2>1, <2>2, <2>4 DEF StepOf, RunOf, SessionOf
  <2> QED BY <2>1, <2>2, <2>5, SameDisk DEF Cuts
<1>4. CASE Space!Revoke(a)
  <2>1. UNCHANGED <<repository, disk, spacePhase, faults>> /\ spacePhase = "UP"
    BY <1>4 DEF Space!Revoke
  <2>2. /\ loop' \in [Attempt -> LoopRow] /\ \A b \in Attempt \ {a} : loop'[b] = loop[b]
        /\ loop'[a].at = loop[a].at /\ loop'[a].place = loop[a].place
    BY <1>1, <1>4 DEF Space!Revoke, LoopRow
  <2>3. CASE loop[a].at = "SESSION"
    <3>1. attempt' = [attempt EXCEPT ![a].status = "OVER"] /\ spaceRow' = spaceRow
      BY <1>4, <2>3 DEF Space!Revoke
    <3>2. /\ attempt' \in [Attempt -> AttemptRow] /\ \A b \in Attempt \ {a} : attempt'[b] = attempt[b]
          /\ attempt'[a].status = "OVER" /\ attempt'[a].running = attempt[a].running /\ attempt'[a].writes = attempt[a].writes
      BY <1>1, <3>1 DEF AttemptRow
    <3>3. spaceRow[i].holder = a => attempt[a].running
      BY <1>1 DEF RowOf, SpaceConstants
    <3>4. StepOf(a)
      BY <1>1, <2>1, <2>2, <3>1, <3>2, <3>3 DEF StepOf, RowMoves, RunOf, SessionOf
    <3> QED BY <2>1, <2>2, <2>3, <3>4, SameDisk DEF Cuts
  <2>4. CASE loop[a].at # "SESSION"
    <3>1. Space!Finish(a, "OVER")
      BY <1>4, <2>4 DEF Space!Revoke
    <3>2. StepOf(a)
      BY <2>1, <2>2, <2>4, <3>1, SpaceFinishStep DEF StepOf, RunOf, SessionOf
    <3>3. spaceRow'[i].status = "NONE" => spaceRow[i].status = "NONE"
      BY <1>1, <3>2, StepKeeps
    <3>4. Cuts(a)' <=> Cuts(a)
      BY <2>2 DEF Cuts
    <3>5. spaceRow'[i].status = spaceRow[i].status
      BY <3>1, SpaceFinishStep
    <3>6. CutStep(a)
      <4>1. /\ disk' = disk /\ loop'[a].at = loop[a].at /\ faults' = faults
        BY <2>1, <2>2
      <4>2. Cuts(a) => \A b \in Attempt \ {a} : Cuts(b) => ItemOf(b) # i
        BY CutsAlone
      <4>3. spaceRow[i].status = "NONE" /\ (disk[i].directory # "NONE" \/ disk[i].branch = "BASE") =>
              faults > 0 \/ Cuts(a) \/ \E b \in Attempt \ {a} : Cuts(b) /\ ItemOf(b) = i
        BY <1>1 DEF SpaceInv, Space!CutIsRecorded, Cuts
      <4> QED BY <1>1, <3>4, <3>5, <4>1, <4>2, <4>3, CutsAlone DEF CutStep
    <3> QED BY <2>1, <3>2, <3>6, SpaceKeeps, SpaceTypes
  <2> QED BY <2>3, <2>4
<1> QED BY <1>2, <1>3, <1>4

----
(* Verification, the owner and the daemon *)

\* The invariant outlives Verify.
LEMMA VerifyKeeps == ASSUME SpaceConstants, SpaceInv, NEW i \in Item, Space!Verify(i) PROVE SpaceInv'
<1>1. /\ UNCHANGED <<repository, disk, attempt, loop, spacePhase, faults>> /\ spaceRow[i].status = "READY"
      /\ spaceRow' = [spaceRow EXCEPT ![i].verified = ~@] /\ (~spaceRow[i].verified => Space!Claimable(i, spaceRow[i]))
  BY DEF Space!Verify
<1>2. /\ spaceRow \in [Item -> SpaceRow] /\ spaceRow[i] \in SpaceRow /\ \A j \in Item : RowOf(j)
      /\ \A a \in Attempt : ItemOf(a) \in Item /\ RunOf(a) /\ SessionOf(a) /\ CutOf(a)
  BY SpaceTypes DEF SpaceConstants, SpaceInv
<1>3. /\ spaceRow' \in [Item -> SpaceRow] /\ spaceRow'[i].verified = ~spaceRow[i].verified
      /\ \A j \in Item : /\ spaceRow'[j].status = spaceRow[j].status /\ spaceRow'[j].strategy = spaceRow[j].strategy
                         /\ spaceRow'[j].holder = spaceRow[j].holder /\ (j # i => spaceRow'[j] = spaceRow[j])
  BY <1>1, <1>2 DEF SpaceRow
<1>4. Space!TypeOK'
  BY <1>1, <1>3, SpaceTypes DEF Space!TypeOK, DiskRow, SpaceRow, AttemptRow, LoopRow
<1>5. ASSUME NEW a \in Attempt PROVE (RunOf(a) /\ SessionOf(a) /\ CutOf(a))'
  BY <1>1, <1>2, <1>3 DEF RunOf, SessionOf, CutOf, Cuts
<1>6. ASSUME NEW j \in Item PROVE RowOf(j)'
  <2>1. spaceRow[j].holder # spaceNobody => attempt'[spaceRow[j].holder] = attempt[spaceRow[j].holder]
    BY <1>1
  <2>2. CASE spaceRow[i].verified
    <3>1. Space!SharedAuthorityHeld(j)' => Space!SharedAuthorityHeld(j)
      BY <1>2, <1>3, <2>2 DEF Space!SharedAuthorityHeld, SpaceRow
    <3> QED BY <1>2, <1>3, <2>1, <2>2, <3>1 DEF RowOf, Taken, SpaceRow
  <2>3. CASE ~spaceRow[i].verified
    <3>1. spaceRow[i].holder = spaceNobody /\ (spaceRow[i].strategy = "SHARED" => ~Space!SharedAuthorityHeld(i))
      BY <1>1, <2>3 DEF Space!Claimable
    <3>2. CASE j = i
      <4>1. Space!SharedAuthorityHeld(i)' => Space!SharedAuthorityHeld(i)
        BY <1>3 DEF Space!SharedAuthorityHeld
      <4> QED BY <1>1, <1>3, <3>1, <3>2, <4>1 DEF RowOf, Taken
    <3>3. CASE j # i
      <4>1. spaceRow[j].strategy = "SHARED" /\ Taken(j) /\ spaceRow[i].strategy = "SHARED" => FALSE
        BY <3>1, <3>3 DEF Taken, Space!SharedAuthorityHeld
      <4>2. spaceRow[j].strategy = "SHARED" /\ Taken(j) => ~Space!SharedAuthorityHeld(j)'
        BY <1>2, <1>3, <4>1 DEF RowOf, Space!SharedAuthorityHeld
      <4> QED BY <1>2, <1>3, <2>1, <3>3, <4>2 DEF RowOf, Taken
    <3> QED BY <3>2, <3>3
  <2> QED BY <1>2, <2>2, <2>3 DEF SpaceRow
<1>7. Space!CutIsRecorded'
  BY <1>1, <1>3 DEF SpaceInv, Space!CutIsRecorded
<1> QED BY <1>4, <1>5, <1>6, <1>7 DEF SpaceInv

\* The invariant outlives OwnerChangesRepository and OwnerMeddles.
LEMMA OwnerKeeps ==
    ASSUME SpaceConstants, SpaceInv, Space!OwnerChangesRepository \/ \E i \in Item : Space!OwnerMeddles(i)
    PROVE  SpaceInv'
<1>1. UNCHANGED <<spaceRow, attempt, loop, spacePhase, faults>> /\ repository' \in {"NONE", "MIDWAY", "CLEAN"}
  BY SpaceTypes DEF Space!OwnerChangesRepository, Space!OwnerMeddles
<1>2. /\ disk \in [Item -> DiskRow] /\ \A a \in Attempt : ItemOf(a) \in Item /\ CutOf(a)
  BY SpaceTypes DEF SpaceConstants, SpaceInv
<1>3. /\ disk' \in [Item -> DiskRow]
      /\ \A i \in Item : /\ disk[i].branch # "NONE" => disk'[i].branch # "NONE"
                         /\ disk'[i].branch = "BASE" => disk[i].branch = "BASE"
                         /\ spaceRow[i].status = "NONE" /\ disk[i].directory = "NONE" => disk'[i].directory = "NONE"
  <2>1. CASE Space!OwnerChangesRepository
    BY <1>2, <2>1 DEF Space!OwnerChangesRepository
  <2>2. CASE \E i \in Item : Space!OwnerMeddles(i)
    <3>1. PICK i \in Item : Space!OwnerMeddles(i)
      BY <2>2
    <3>2. disk[i] \in DiskRow
      BY <1>2
    <3>3. \/ disk' = [disk EXCEPT ![i].directory = "NONE"]
          \/ spaceRow[i].status # "NONE" /\ disk' = [disk EXCEPT ![i].directory = "WORKTREE", ![i].known = TRUE]
          \/ disk[i].branch = "BASE" /\ disk' = [disk EXCEPT ![i].branch = "WORK"]
      BY <3>1 DEF Space!OwnerMeddles
    <3> QED BY <1>2, <3>2, <3>3 DEF DiskRow
  <2> QED BY <2>1, <2>2
<1>4. Space!TypeOK'
  BY <1>1, <1>3, SpaceTypes DEF Space!TypeOK, DiskRow, SpaceRow, AttemptRow, LoopRow
<1>5. ASSUME NEW a \in Attempt PROVE (RunOf(a) /\ SessionOf(a) /\ CutOf(a))'
  BY <1>1, <1>2, <1>3 DEF SpaceInv, RunOf, SessionOf, CutOf, Cuts
<1>6. ASSUME NEW i \in Item PROVE RowOf(i)'
  BY <1>1 DEF SpaceInv, RowOf, Taken, Space!SharedAuthorityHeld
<1>7. Space!CutIsRecorded'
  BY <1>1, <1>3 DEF SpaceInv, Space!CutIsRecorded
<1> QED BY <1>4, <1>5, <1>6, <1>7 DEF SpaceInv

\* The invariant outlives Crash.
LEMMA CrashKeeps == ASSUME SpaceConstants, SpaceInv, Space!Crash PROVE SpaceInv'
<1>1. /\ UNCHANGED <<repository, disk, spaceRow, attempt>> /\ spacePhase' = "DOWN"
      /\ faults' \in 0 .. MaxFaults /\ faults' > 0
      /\ loop' \in [Attempt -> LoopRow] /\ \A a \in Attempt : loop'[a].at = "IDLE"
  BY SpaceTypes, IdleType DEF Space!Crash, SpaceConstants
<1>2. Space!TypeOK'
  BY <1>1, SpaceTypes DEF Space!TypeOK, DiskRow, SpaceRow, AttemptRow, LoopRow
<1>3. ASSUME NEW a \in Attempt PROVE (RunOf(a) /\ SessionOf(a) /\ CutOf(a))'
  BY <1>1 DEF SpaceInv, RunOf, SessionOf, CutOf, Cuts
<1>4. ASSUME NEW i \in Item PROVE RowOf(i)'
  BY <1>1 DEF SpaceInv, RowOf, Taken, Space!SharedAuthorityHeld
<1> QED BY <1>1, <1>2, <1>3, <1>4 DEF SpaceInv, Space!CutIsRecorded

\* The invariant outlives Restart.
LEMMA RestartKeeps == ASSUME SpaceConstants, SpaceInv, Space!Restart PROVE SpaceInv'
<1>1. UNCHANGED <<repository, disk, loop, faults>> /\ spacePhase # "UP" /\ spacePhase' \in {"UP", "STUCK"}
  BY DEF Space!Restart
<1>2. /\ spaceRow \in [Item -> SpaceRow] /\ attempt \in [Attempt -> AttemptRow]
      /\ \A a \in Attempt : RunOf(a) /\ loop[a].at = "IDLE"
      /\ \A i \in Item : RowOf(i)
  BY <1>1, SpaceTypes DEF SpaceInv, RunOf
<1>3. CASE UNCHANGED <<spaceRow, attempt>>
  <2>1. Space!TypeOK'
    BY <1>1, <1>3, SpaceTypes DEF Space!TypeOK, DiskRow, SpaceRow, AttemptRow, LoopRow
  <2>2. ASSUME NEW a \in Attempt PROVE (RunOf(a) /\ SessionOf(a) /\ CutOf(a))'
    BY <1>1, <1>2, <1>3 DEF RunOf, SessionOf, CutOf, Cuts
  <2>3. ASSUME NEW i \in Item PROVE RowOf(i)'
    BY <1>2, <1>3 DEF RowOf, Taken, Space!SharedAuthorityHeld
  <2>4. Space!CutIsRecorded'
    BY <1>1, <1>3 DEF SpaceInv, Space!CutIsRecorded
  <2> QED BY <2>1, <2>2, <2>3, <2>4 DEF SpaceInv
<1>4. CASE Space!Reconciled
  <2>1. /\ spaceRow' \in [Item -> SpaceRow]
        /\ \A i \in Item : /\ spaceRow'[i].holder = spaceNobody /\ ~spaceRow'[i].verified
                           /\ spaceRow'[i].status = "NONE" => spaceRow[i].status = "NONE"
    BY <1>2, <1>4 DEF Space!Reconciled, SpaceRow
  <2>2. /\ attempt' \in [Attempt -> AttemptRow]
        /\ \A a \in Attempt : attempt'[a].status # "RUNNING"
    BY <1>2, <1>4 DEF Space!Reconciled, AttemptRow
  <2>3. Space!TypeOK'
    BY <1>1, <2>1, <2>2, SpaceTypes DEF Space!TypeOK, DiskRow, SpaceRow, AttemptRow, LoopRow
  <2>4. ASSUME NEW a \in Attempt PROVE (RunOf(a) /\ SessionOf(a) /\ CutOf(a))'
    BY <1>1, <1>2, <2>2 DEF RunOf, SessionOf, CutOf, Cuts
  <2>5. ASSUME NEW i \in Item PROVE RowOf(i)'
    BY <2>1 DEF RowOf, Taken
  <2>6. Space!CutIsRecorded'
    BY <1>1, <2>1 DEF SpaceInv, Space!CutIsRecorded
  <2> QED BY <2>3, <2>4, <2>5, <2>6 DEF SpaceInv
<1> QED BY <1>3, <1>4 DEF Space!Restart

----

\* The invariant of Workspace, for all attempts, WorkItems and strategies.
THEOREM SpaceInvariant == ASSUME SpaceConstants PROVE Space!Spec => []SpaceInv
<1>1. Space!Init => SpaceInv
  <2>1. ASSUME Space!Init PROVE Space!TypeOK
    BY <2>1 DEF Space!Init, Space!TypeOK, Space!Clear, Space!NoRow, Space!Idle, SpaceConstants
  <2>2. ASSUME Space!Init PROVE \A a \in Attempt : RunOf(a) /\ SessionOf(a) /\ CutOf(a)
    BY <2>2 DEF Space!Init, Space!Idle, RunOf, SessionOf, CutOf, Cuts
  <2>3. ASSUME Space!Init PROVE \A i \in Item : RowOf(i)
    BY <2>3 DEF Space!Init, Space!NoRow, RowOf, Taken
  <2>4. ASSUME Space!Init PROVE Space!CutIsRecorded
    BY <2>4 DEF Space!Init, Space!Clear, Space!CutIsRecorded
  <2> QED BY <2>1, <2>2, <2>3, <2>4 DEF SpaceInv
<1>2. SpaceInv /\ Space!Next => SpaceInv'
  BY QueueKeeps, StartKeeps, CheckKeeps, InspectKeeps, SnapshotKeeps, AddKeeps, RecordKeeps, RollbackKeeps, EndKeeps,
     VerifyKeeps, OwnerKeeps, CrashKeeps, RestartKeeps DEF Space!Next, Space!Prepare
<1>3. SpaceInv /\ UNCHANGED Space!vars => SpaceInv'
  BY DEF Space!vars, SpaceInv, Space!TypeOK, RunOf, SessionOf, CutOf, Cuts, RowOf, Taken, Space!SharedAuthorityHeld,
         Space!CutIsRecorded
<1> QED BY <1>1, <1>2, <1>3, PTL DEF Space!Spec

\* An AgentRun that writes is alone in its directory, and its workspace is not one that is verified: for any number of attempts.
THEOREM WriterIsAlone == ASSUME SpaceConstants PROVE Space!Spec => []Space!WriterIsAlone
<1>1. ASSUME SpaceInv, NEW a \in Attempt, Space!HasDirectory(a), attempt[a].writes
      PROVE  /\ ~Space!VerifiedIn(a)
             /\ \A b \in Attempt \ {a} :
                   Space!HasDirectory(b) /\ attempt[b].writes => Space!Directory(a) # Space!Directory(b)
  <2>1. ASSUME NEW b \in Attempt, Space!HasDirectory(b), attempt[b].writes
        PROVE  /\ ItemOf(b) \in Item /\ RowOf(ItemOf(b))
               /\ spaceRow[ItemOf(b)].holder = b /\ spaceRow[ItemOf(b)].strategy = loop[b].place
    <3>1. SessionOf(b) /\ ItemOf(b) \in Item
      BY <1>1 DEF SpaceInv, SpaceConstants
    <3>2. RowOf(ItemOf(b))
      BY <1>1, <3>1 DEF SpaceInv
    <3> QED BY <2>1, <3>1, <3>2 DEF SessionOf, Space!HasDirectory
  <2>2. spaceRow[ItemOf(a)].holder # spaceNobody /\ ~spaceRow[ItemOf(a)].verified
    BY <1>1, <2>1 DEF RowOf, SpaceConstants
  <2>3. loop[a].place = "SHARED" => ~Space!SharedAuthorityHeld(ItemOf(a))
    BY <1>1, <2>1, <2>2 DEF RowOf, Taken
  <2>4. ~Space!VerifiedIn(a)
    BY <2>2, <2>3 DEF Space!VerifiedIn, Space!SharedAuthorityHeld
  <2>5. ASSUME NEW b \in Attempt \ {a}, Space!HasDirectory(b), attempt[b].writes, Space!Directory(a) = Space!Directory(b)
        PROVE  FALSE
    <3>1. loop[a].place = loop[b].place /\ spaceRow[ItemOf(b)].holder = b /\ spaceRow[ItemOf(a)].holder = a /\ b # spaceNobody
          /\ ItemOf(b) \in Item /\ spaceRow[ItemOf(b)].strategy = loop[b].place
      BY <1>1, <2>1, <2>5 DEF Space!Directory, SpaceConstants
    <3>2. ItemOf(a) # ItemOf(b)
      BY <3>1
    <3>3. loop[a].place = "SHARED"
      BY <2>5, <3>1, <3>2 DEF Space!Directory
    <3> QED BY <2>3, <3>1, <3>2, <3>3 DEF Space!SharedAuthorityHeld
  <2> QED BY <2>4, <2>5
<1>2. SpaceInv => Space!WriterIsAlone
  BY <1>1 DEF Space!WriterIsAlone
<1> QED BY <1>2, SpaceInvariant, PTL

\* A lease has its AgentRun, and a worktree that was cut its row or its loop.
THEOREM LeasesAreWorked == ASSUME SpaceConstants PROVE Space!Spec => [](Space!LeaseIsWorked /\ Space!CutIsRecorded)
<1>1. SpaceInv => Space!LeaseIsWorked /\ Space!CutIsRecorded
  BY DEF SpaceInv, RowOf, Space!LeaseIsWorked
<1> QED BY <1>1, SpaceInvariant, PTL

\* No branch is deleted that has somebody's work, whatever the loops and the owner do.
THEOREM WorkIsKept == ASSUME SpaceConstants PROVE Space!Spec => [][Space!KeepsWork]_(Space!vars)
<1>1. ASSUME SpaceInv, Space!Next, NEW i \in Item, disk[i].branch = "WORK" PROVE disk'[i].branch = "WORK"
  <2>1. disk \in [Item -> DiskRow] /\ disk[i] \in DiskRow /\ \A a \in Attempt : ItemOf(a) \in Item
    BY <1>1, SpaceTypes DEF SpaceConstants
  <2>2. CASE UNCHANGED disk
    BY <1>1, <2>2
  <2>3. CASE \E a \in Attempt : Space!Add(a) \/ Space!Remove(a) \/ Space!DeleteBranch(a) \/ Space!EndSession(a)
    BY <1>1, <2>1, <2>3 DEF Space!Add, Space!Remove, Space!DeleteBranch, Space!EndSession, DiskRow
  <2>4. CASE \E j \in Item : Space!OwnerMeddles(j)
    BY <1>1, <2>1, <2>4 DEF Space!OwnerMeddles, DiskRow
  <2>5. QED
    BY <1>1, <2>2, <2>3, <2>4 DEF Space!Next, Space!Prepare, Space!Rollback, Space!Queue, Space!StartAgentRun,
       Space!TakeUp, Space!CheckWorkspace, Space!Inspect, Space!Snapshot, Space!Record, Space!RemoveFails, Space!Unwind,
       Space!Revoke, Space!Verify, Space!OwnerChangesRepository, Space!Crash, Space!Restart
<1>2. SpaceInv /\ [Space!Next]_(Space!vars) => [Space!KeepsWork]_(Space!vars)
  BY <1>1 DEF Space!KeepsWork
<1> QED BY <1>2, SpaceInvariant, PTL DEF Space!Spec

----
(* SessionLoop *)

CONSTANTS MaxSessions, MaxStops
VARIABLES sessAttempt, run, sessSession, child, tools, behind, sessLoop, tally
Sess == INSTANCE SessionLoop WITH attempt <- sessAttempt, session <- sessSession, loop <- sessLoop

LoopBounds == MaxSessions \in Nat /\ MaxStops \in Nat

SessAttemptRow == [status : Sess!Stopped \cup {"QUEUED", "RUNNING", "SUCCEEDED"}, unproductive : 0 .. 2, backoffs : 0 .. 1]

\* How many of the sessions that published nothing the attempt has on its own counter.
OnCounter(a) == IF a.unproductive = 0 THEN 0 ELSE 1
Answers == tally.stops + sessAttempt.backoffs + OnCounter(sessAttempt)

\* A session that still runs when its attempt no longer does has its stop before its waste.
WasteInv ==
    /\ tally.wasted <= Answers
    /\ sessSession.status = "RUNNING" /\ sessAttempt.status # "RUNNING" => tally.wasted + 1 <= Answers
    /\ sessAttempt.status \in {"QUEUED", "RUNNING"} => tally.stops <= MaxStops

\* Where the loop is, and what it may rely on there.
PlaceInv ==
    /\ sessLoop.pc \notin {"idle", "context"} => sessSession.status = "RUNNING"
    /\ sessLoop.pc = "context" => sessSession.status # "RUNNING"
    /\ sessLoop.pc \in {"settled", "measuring"} => sessLoop.task # "none" /\ ~tools
    /\ sessLoop.task # "none" => ~child
    /\ sessLoop.pc \in {"racing", "settled"} /\ behind => sessLoop.failed

LoopInv ==
    /\ Sess!TypeOK /\ WasteInv /\ PlaceInv
    /\ Sess!HandoffIsComplete /\ Sess!SessionOutlivesItsWork /\ Sess!LoopLeavesAnAnswer

----
\* What the store makes of an attempt is an attempt.
LEMMA RowsOfAttempts ==
    ASSUME NEW a \in SessAttemptRow
    PROVE  /\ Sess!HardPaused(a) = [status |-> "HARD_PAUSED", unproductive |-> a.unproductive, backoffs |-> a.backoffs]
           /\ \A status : [a EXCEPT !.status = status] =
                             [status |-> status, unproductive |-> a.unproductive, backoffs |-> a.backoffs]
           /\ Sess!HardPaused(a) \in SessAttemptRow
           /\ \A status \in Sess!Stopped \cup {"QUEUED", "RUNNING", "SUCCEEDED"} :
                 [a EXCEPT !.status = status] \in SessAttemptRow
  BY DEF SessAttemptRow, Sess!HardPaused, Sess!Stopped

\* The attempt that a session spent is one.
LEMMA SpentIsAttempt ==
    ASSUME sessAttempt \in SessAttemptRow
    PROVE  /\ Sess!Spent \in SessAttemptRow
           /\ Sess!Spent.unproductive = sessAttempt.unproductive /\ Sess!Spent.backoffs = sessAttempt.backoffs
           /\ Sess!Spent = sessAttempt \/ Sess!Spent.status = "HARD_PAUSED"
  BY RowsOfAttempts DEF Sess!Spent

\* An attempt that its session's end is counted on.
LEMMA CountedIsAttempt ==
    ASSUME NEW a \in SessAttemptRow, NEW published \in BOOLEAN
    PROVE  LET counted == Sess!Counted(a, published) IN
           /\ counted \in SessAttemptRow /\ counted.backoffs = a.backoffs
           /\ a.status # "RUNNING" => counted = a
           /\ a.status = "RUNNING" =>
                 /\ counted.status \in {"RUNNING", "HARD_PAUSED"}
                 /\ ~published /\ a.unproductive = 0 => OnCounter(counted) = 1
                 /\ ~published /\ a.unproductive # 0 => counted.status = "HARD_PAUSED" /\ OnCounter(counted) = 1
<1> DEFINE unproductive == IF published THEN 0 ELSE IF a.unproductive = 0 THEN 1 ELSE 2
           aRow == [a EXCEPT !.unproductive = unproductive]
<1>1. aRow = [status |-> a.status, unproductive |-> unproductive, backoffs |-> a.backoffs]
  BY DEF SessAttemptRow
<1>2. unproductive \in 0 .. 2
  OBVIOUS
<1>3. aRow \in SessAttemptRow /\ aRow.unproductive = unproductive /\ aRow.backoffs = a.backoffs /\ aRow.status = a.status
  BY <1>1, <1>2 DEF SessAttemptRow
<1>4. Sess!HardPaused(aRow) = [status |-> "HARD_PAUSED", unproductive |-> unproductive, backoffs |-> a.backoffs]
      /\ Sess!HardPaused(aRow) \in SessAttemptRow
  BY <1>3, RowsOfAttempts
<1>5. Sess!Counted(a, published) = IF a.status # "RUNNING" THEN a ELSE IF unproductive >= 2 THEN Sess!HardPaused(aRow) ELSE aRow
  BY DEF Sess!Counted
<1> HIDE DEF aRow
<1> QED BY <1>2, <1>3, <1>4, <1>5 DEF OnCounter

\* A session that ends: its work is over, and what it did not publish is answered.
LEMMA SessEndKeeps ==
    ASSUME LoopBounds, LoopInv, sessSession.status = "RUNNING", child' = FALSE, tools' = FALSE, behind' \in BOOLEAN,
           NEW a \in SessAttemptRow, NEW published \in BOOLEAN,
           NEW reason \in Sess!Continues \cup {"COMPLETED", "INTERRUPTED"},
           Sess!EndProviderSession(a, published, reason),
           NEW pc \in {"idle", "context"}, sessLoop' = Sess!At(pc), pc = "idle" => a.status # "RUNNING",
           reason = "HANDOFF" => ~behind',
           a.backoffs >= sessAttempt.backoffs,
           a.status \in {"QUEUED", "RUNNING"} => a.status = sessAttempt.status,
           published \/ OnCounter(a) >= OnCounter(sessAttempt),
           sessAttempt.status = "RUNNING" /\ ~published /\ reason # "COMPLETED" =>
              \/ a.status \in Sess!Stopped
              \/ a.backoffs = sessAttempt.backoffs + 1
              \/ OnCounter(a) = OnCounter(sessAttempt) + 1,
           reason = "COMPLETED" => OnCounter(a) >= OnCounter(sessAttempt)
    PROVE  LoopInv'
<1>1. /\ sessAttempt' = a /\ sessSession' = [status |-> "ENDED", published |-> published, end |-> reason]
      /\ run' = [run EXCEPT !.active = a.status = "RUNNING"]
      /\ tally' = IF reason = "COMPLETED" THEN [tally EXCEPT !.stops = @ + Sess!Stop(a)] ELSE Sess!Tallied(a, published)
  BY DEF Sess!EndProviderSession
<1>2. /\ sessAttempt \in SessAttemptRow /\ tally \in [wasted : 0 .. MaxStops + 3, stops : 0 .. MaxStops + 1]
      /\ run \in [active : BOOLEAN, sessions : 0 .. MaxSessions]
      /\ tally.wasted \in Nat /\ tally.stops \in Nat /\ MaxStops \in Nat
      /\ sessAttempt.backoffs \in {0, 1} /\ a.backoffs \in {0, 1} /\ OnCounter(sessAttempt) \in {0, 1} /\ OnCounter(a) \in {0, 1}
  BY DEF LoopInv, Sess!TypeOK, SessAttemptRow, LoopBounds, OnCounter
<1>3. tally' = [wasted |-> tally'.wasted, stops |-> tally'.stops]
      /\ tally'.wasted = (IF reason = "COMPLETED" THEN tally.wasted ELSE IF published THEN 0 ELSE tally.wasted + 1)
      /\ tally'.stops = (IF reason # "COMPLETED" /\ published THEN Sess!Stop(a) ELSE tally.stops + Sess!Stop(a))
  BY <1>1, <1>2 DEF Sess!Tallied
<1>4. /\ Sess!Stop(a) \in {0, 1}
      /\ Sess!Stop(a) = 1 <=> sessAttempt.status = "RUNNING" /\ a.status \in Sess!Stopped
  BY DEF Sess!Stop
<1>5. Answers <= tally.stops + 2 /\ Answers = tally.stops + sessAttempt.backoffs + OnCounter(sessAttempt)
      /\ tally.wasted <= Answers /\ (sessAttempt.status # "RUNNING" => tally.wasted + 1 <= Answers)
      /\ (sessAttempt.status \in {"QUEUED", "RUNNING"} => tally.stops <= MaxStops) /\ tally.stops <= MaxStops + 1
  BY <1>2 DEF LoopInv, WasteInv, Answers
<1>6. /\ tally'.wasted \in Nat /\ tally'.stops \in Nat
      /\ tally'.wasted <= tally'.stops + a.backoffs + OnCounter(a)
      /\ tally'.stops <= MaxStops + 1
      /\ a.status \in {"QUEUED", "RUNNING"} => tally'.stops <= MaxStops
  <2>1. CASE reason = "COMPLETED"
    BY <1>2, <1>3, <1>4, <1>5, <2>1 DEF Sess!Stopped
  <2>2. CASE reason # "COMPLETED" /\ published
    BY <1>2, <1>3, <1>4, <1>5, <2>2 DEF Sess!Stopped
  <2>3. CASE reason # "COMPLETED" /\ ~published
    BY <1>2, <1>3, <1>4, <1>5, <2>3 DEF Sess!Stopped
  <2> QED BY <2>1, <2>2, <2>3
<1>7. WasteInv'
  BY <1>1, <1>6 DEF WasteInv, Answers
<1>8. sessLoop' = [pc |-> pc, handoff |-> FALSE, failed |-> FALSE, usage |-> "none", task |-> "none"]
  BY DEF Sess!At
<1>9. Sess!TypeOK'
  <2>1. tally' \in [wasted : 0 .. MaxStops + 3, stops : 0 .. MaxStops + 1]
    BY <1>2, <1>3, <1>6
  <2>2. run' \in [active : BOOLEAN, sessions : 0 .. MaxSessions]
    BY <1>1, <1>2
  <2>3. sessSession' \in [status : {"none", "RUNNING", "ENDED"}, published : BOOLEAN,
                      end : Sess!Continues \cup {"none", "COMPLETED", "INTERRUPTED"}]
    BY <1>1 DEF Sess!Continues
  <2>4. sessLoop' \in Sess!Loop
    BY <1>8 DEF Sess!Loop
  <2> QED BY <1>1, <2>1, <2>2, <2>3, <2>4 DEF Sess!TypeOK, SessAttemptRow
<1>10. PlaceInv'
  BY <1>1, <1>8 DEF PlaceInv
<1>11. Sess!HandoffIsComplete' /\ Sess!SessionOutlivesItsWork' /\ Sess!LoopLeavesAnAnswer'
  BY <1>1, <1>8 DEF Sess!HandoffIsComplete, Sess!SessionOutlivesItsWork, Sess!LoopLeavesAnAnswer
<1> QED BY <1>7, <1>9, <1>10, <1>11 DEF LoopInv

----
\* What the loop does while it leaves the rows alone, but for what the session has published.
LEMMA DriveKeeps ==
    ASSUME LoopInv, UNCHANGED <<sessAttempt, run, tally>>,
           sessSession' \in [status : {"none", "RUNNING", "ENDED"}, published : BOOLEAN,
                        end : Sess!Continues \cup {"none", "COMPLETED", "INTERRUPTED"}],
           sessSession'.status = sessSession.status, sessSession'.end = sessSession.end,
           child' \in BOOLEAN, tools' \in BOOLEAN, behind' \in BOOLEAN, sessLoop' \in Sess!Loop,
           PlaceInv',
           sessSession.status = "RUNNING" \/ UNCHANGED <<behind, child, tools>>,
           sessLoop'.pc = "idle" => sessSession.status = "RUNNING" \/ sessAttempt.status # "RUNNING" \/ sessLoop.pc = "idle"
    PROVE  LoopInv'
<1>1. Sess!TypeOK'
  BY DEF LoopInv, Sess!TypeOK
<1>2. WasteInv'
  BY DEF LoopInv, WasteInv, Answers
<1>3. Sess!HandoffIsComplete' /\ Sess!SessionOutlivesItsWork' /\ Sess!LoopLeavesAnAnswer'
  BY DEF LoopInv, Sess!HandoffIsComplete, Sess!SessionOutlivesItsWork, Sess!LoopLeavesAnAnswer
<1> QED BY <1>1, <1>2, <1>3 DEF LoopInv

\* A row of the loop with other values in some of its fields.
LEMMA LoopRows ==
    ASSUME NEW l \in Sess!Loop
    PROVE  /\ \A pc : [l EXCEPT !.pc = pc] =
                 [pc |-> pc, handoff |-> l.handoff, failed |-> l.failed, usage |-> l.usage, task |-> l.task]
           /\ \A failed : [l EXCEPT !.failed = failed] =
                 [pc |-> l.pc, handoff |-> l.handoff, failed |-> failed, usage |-> l.usage, task |-> l.task]
           /\ \A usage : [l EXCEPT !.usage = usage] =
                 [pc |-> l.pc, handoff |-> l.handoff, failed |-> l.failed, usage |-> usage, task |-> l.task]
           /\ \A task : [l EXCEPT !.task = task] =
                 [pc |-> l.pc, handoff |-> l.handoff, failed |-> l.failed, usage |-> l.usage, task |-> task]
           /\ \A pc : Sess!At(pc) = [pc |-> pc, handoff |-> FALSE, failed |-> FALSE, usage |-> "none", task |-> "none"]
<1>1. l = [pc |-> l.pc, handoff |-> l.handoff, failed |-> l.failed, usage |-> l.usage, task |-> l.task]
  BY DEF Sess!Loop
<1>2. \A pc : [l EXCEPT !.pc = pc] =
         [pc |-> pc, handoff |-> l.handoff, failed |-> l.failed, usage |-> l.usage, task |-> l.task]
  BY <1>1
<1>3. \A failed : [l EXCEPT !.failed = failed] =
         [pc |-> l.pc, handoff |-> l.handoff, failed |-> failed, usage |-> l.usage, task |-> l.task]
  BY <1>1
<1>4. \A usage : [l EXCEPT !.usage = usage] =
         [pc |-> l.pc, handoff |-> l.handoff, failed |-> l.failed, usage |-> usage, task |-> l.task]
  BY <1>1
<1>5. \A task : [l EXCEPT !.task = task] =
         [pc |-> l.pc, handoff |-> l.handoff, failed |-> l.failed, usage |-> l.usage, task |-> task]
  BY <1>1
<1>6. \A pc : Sess!At(pc) = [pc |-> pc, handoff |-> FALSE, failed |-> FALSE, usage |-> "none", task |-> "none"]
  BY DEF Sess!At
<1> QED BY <1>2, <1>3, <1>4, <1>5, <1>6

\* The types of what a step of the loop finds.
LEMMA LoopTypes ==
    ASSUME LoopInv
    PROVE  /\ sessLoop \in Sess!Loop /\ child \in BOOLEAN /\ tools \in BOOLEAN /\ behind \in BOOLEAN
           /\ sessLoop.pc \in {"idle", "context", "racing", "aborting", "joining", "settled", "measuring"}
           /\ sessLoop.handoff \in BOOLEAN /\ sessLoop.failed \in BOOLEAN /\ sessLoop.usage \in {"none", "within", "over"}
           /\ sessLoop.task \in Sess!Outcome \cup {"none"}
           /\ sessSession \in [status : {"none", "RUNNING", "ENDED"}, published : BOOLEAN,
                           end : Sess!Continues \cup {"none", "COMPLETED", "INTERRUPTED"}]
           /\ PlaceInv
           /\ sessAttempt \in SessAttemptRow /\ tally \in [wasted : 0 .. MaxStops + 3, stops : 0 .. MaxStops + 1]
           /\ run \in [active : BOOLEAN, sessions : 0 .. MaxSessions]
  BY DEF LoopInv, Sess!TypeOK, Sess!Loop, SessAttemptRow

\* The invariant outlives LeaveLoop, TaskWins, DeadlineWins, MeasureResult and StoreFails.
LEMMA TurnsKeep ==
    ASSUME LoopInv, Sess!LeaveLoop \/ Sess!TaskWins \/ Sess!DeadlineWins \/ Sess!MeasureResult \/ Sess!StoreFails
    PROVE  LoopInv'
<1>1. UNCHANGED <<sessAttempt, run, sessSession, child, tools, behind, tally>>
  BY DEF Sess!LeaveLoop, Sess!TaskWins, Sess!DeadlineWins, Sess!MeasureResult, Sess!StoreFails
<1>2. PICK pc \in {"idle", "aborting", "settled", "measuring"} :
         sessLoop' = [sessLoop EXCEPT !.pc = pc] \/ (pc = "idle" /\ sessLoop' = Sess!At("idle"))
  BY DEF Sess!LeaveLoop, Sess!TaskWins, Sess!DeadlineWins, Sess!MeasureResult, Sess!StoreFails
<1>3. sessLoop' \in Sess!Loop
  <2>1. CASE sessLoop' = [sessLoop EXCEPT !.pc = pc]
    BY <1>2, <2>1, LoopTypes, LoopRows DEF Sess!Loop
  <2>2. CASE sessLoop' = Sess!At("idle")
    BY <2>2 DEF Sess!At, Sess!Loop
  <2> QED BY <1>2, <2>1, <2>2
<1>4. PlaceInv' /\ (sessLoop'.pc = "idle" => sessSession.status = "RUNNING" \/ sessAttempt.status # "RUNNING" \/ sessLoop.pc = "idle")
  <2>1. CASE Sess!LeaveLoop
    BY <1>1, <2>1, LoopTypes, LoopRows DEF Sess!LeaveLoop, PlaceInv
  <2>2. CASE Sess!TaskWins
    BY <1>1, <2>2, LoopTypes, LoopRows DEF Sess!TaskWins, PlaceInv
  <2>3. CASE Sess!DeadlineWins
    BY <1>1, <2>3, LoopTypes, LoopRows DEF Sess!DeadlineWins, PlaceInv
  <2>4. CASE Sess!MeasureResult
    BY <1>1, <2>4, LoopTypes, LoopRows DEF Sess!MeasureResult, PlaceInv
  <2>5. CASE Sess!StoreFails
    BY <1>1, <2>5, LoopTypes, LoopRows DEF Sess!StoreFails, PlaceInv
  <2> QED BY <2>1, <2>2, <2>3, <2>4, <2>5
<1> QED BY <1>1, <1>3, <1>4, LoopTypes, DriveKeeps

\* The invariant outlives Spawn, OnCheckpoint, LateCheckpoint, OnContextWindow and OnUsage.
LEMMA RunningKeeps ==
    ASSUME LoopInv, Sess!Spawn \/ Sess!OnCheckpoint \/ Sess!LateCheckpoint \/ Sess!OnContextWindow \/ Sess!OnUsage
    PROVE  LoopInv'
<1>1. UNCHANGED <<sessAttempt, run, tally>> /\ sessLoop.pc \in {"racing", "aborting"} /\ sessLoop'.pc = sessLoop.pc /\ sessLoop' \in Sess!Loop
      /\ child' \in BOOLEAN /\ tools' \in BOOLEAN /\ behind' \in BOOLEAN
      /\ sessSession' \in [status : {"none", "RUNNING", "ENDED"}, published : BOOLEAN,
                      end : Sess!Continues \cup {"none", "COMPLETED", "INTERRUPTED"}]
      /\ sessSession'.status = sessSession.status /\ sessSession'.end = sessSession.end
      /\ sessLoop'.task = sessLoop.task /\ (child' = child \/ sessLoop.task = "none")
      /\ (sessLoop.pc = "racing" /\ behind' => sessLoop'.failed)
  <2>1. CASE Sess!Spawn
    BY <2>1, LoopTypes DEF Sess!Spawn, PlaceInv
  <2>2. CASE Sess!OnCheckpoint
    <3>1. PICK written \in BOOLEAN : Sess!Publish(written)
      BY <2>2 DEF Sess!OnCheckpoint
    <3>2. /\ sessLoop' = [sessLoop EXCEPT !.failed = sessLoop.failed \/ ~written]
          /\ sessSession' = [status |-> sessSession.status, published |-> sessSession.published \/ written, end |-> sessSession.end]
          /\ behind' = ~written /\ (sessSession.published \/ written) \in BOOLEAN /\ (sessLoop.failed \/ ~written) \in BOOLEAN
      BY <3>1, LoopTypes DEF Sess!Publish
    <3>3. sessLoop' = [pc |-> sessLoop.pc, handoff |-> sessLoop.handoff, failed |-> sessLoop.failed \/ ~written, usage |-> sessLoop.usage,
                   task |-> sessLoop.task]
      BY <3>2, LoopTypes, LoopRows
    <3>4. sessLoop' \in Sess!Loop /\ sessLoop'.pc = sessLoop.pc /\ sessLoop'.task = sessLoop.task /\ (behind' => sessLoop'.failed)
      BY <3>2, <3>3, LoopTypes DEF Sess!Loop
    <3> QED BY <2>2, <3>2, <3>4, LoopTypes DEF Sess!OnCheckpoint
  <2>3. CASE Sess!LateCheckpoint
    BY <2>3, LoopTypes DEF Sess!LateCheckpoint
  <2>4. CASE Sess!OnContextWindow
    <3>1. sessLoop' = [sessLoop EXCEPT !.handoff = TRUE]
      BY <2>4 DEF Sess!OnContextWindow, Sess!Requested
    <3>2. sessLoop' \in Sess!Loop /\ sessLoop'.pc = sessLoop.pc /\ sessLoop'.task = sessLoop.task /\ sessLoop'.failed = sessLoop.failed
      BY <3>1, LoopTypes DEF Sess!Loop
    <3> QED BY <2>4, <3>2, LoopTypes DEF Sess!OnContextWindow, PlaceInv
  <2>5. CASE Sess!OnUsage
    <3>1. PICK usage \in {"within", "over"} : sessLoop' = [sessLoop EXCEPT !.usage = usage]
      BY <2>5 DEF Sess!OnUsage
    <3>2. sessLoop' = [pc |-> sessLoop.pc, handoff |-> sessLoop.handoff, failed |-> sessLoop.failed, usage |-> usage, task |-> sessLoop.task]
      BY <3>1, LoopTypes, LoopRows
    <3>3. sessLoop' \in Sess!Loop
      BY <3>2, LoopTypes DEF Sess!Loop
    <3> QED BY <2>5, <3>2, <3>3, LoopTypes DEF Sess!OnUsage, PlaceInv
  <2> QED BY <2>1, <2>2, <2>3, <2>4, <2>5
<1>2. PlaceInv' /\ sessSession.status = "RUNNING"
  BY <1>1, LoopTypes DEF PlaceInv
<1> QED BY <1>1, <1>2, DriveKeeps

\* The invariant outlives ProviderReturns, CloseTools and AbortSession.
LEMMA ReturnsKeep == ASSUME LoopInv, Sess!ProviderReturns \/ Sess!CloseTools \/ Sess!AbortSession PROVE LoopInv'
<1>1. UNCHANGED <<sessAttempt, run, sessSession, behind, tally>>
  BY DEF Sess!ProviderReturns, Sess!CloseTools, Sess!AbortSession
<1>2. child' \in BOOLEAN /\ tools' \in BOOLEAN /\ sessLoop' \in Sess!Loop /\ PlaceInv'
      /\ (sessLoop'.pc = "idle" => sessSession.status = "RUNNING" \/ sessLoop.pc = "idle")
  <2>1. CASE Sess!ProviderReturns
    <3>1. PICK outcome \in Sess!Outcome : sessLoop' = [sessLoop EXCEPT !.task = outcome]
      BY <2>1 DEF Sess!ProviderReturns, Sess!Outcome, Sess!Continues
    <3>2. sessLoop' = [pc |-> sessLoop.pc, handoff |-> sessLoop.handoff, failed |-> sessLoop.failed, usage |-> sessLoop.usage, task |-> outcome]
      BY <3>1, LoopTypes, LoopRows
    <3>3. sessLoop' \in Sess!Loop
      BY <3>2, LoopTypes DEF Sess!Loop
    <3>4. child' = FALSE /\ tools' = tools /\ sessLoop.pc \in {"racing", "joining"}
      BY <2>1 DEF Sess!ProviderReturns
    <3> QED BY <1>1, <3>2, <3>3, <3>4, LoopTypes DEF PlaceInv
  <2>2. CASE Sess!CloseTools
    <3>1. child' = child /\ tools' = FALSE /\ sessLoop' = sessLoop
      BY <2>2 DEF Sess!CloseTools
    <3>2. PlaceInv'
      BY <1>1, <3>1, LoopTypes DEF PlaceInv
    <3>3. sessLoop'.pc = "idle" => sessLoop.pc = "idle"
      BY <3>1
    <3> QED BY <3>1, <3>2, <3>3, LoopTypes
  <2>3. CASE Sess!AbortSession
    <3>1. \/ child' = FALSE /\ sessLoop' = [sessLoop EXCEPT !.pc = "joining"]
          \/ child' = child /\ sessLoop' = Sess!At("idle")
      BY <2>3 DEF Sess!AbortSession
    <3>2. CASE child' = FALSE /\ sessLoop' = [sessLoop EXCEPT !.pc = "joining"]
      <4>1. sessLoop' = [pc |-> "joining", handoff |-> sessLoop.handoff, failed |-> sessLoop.failed, usage |-> sessLoop.usage,
                     task |-> sessLoop.task]
        BY <3>2, LoopTypes, LoopRows
      <4>2. sessLoop' \in Sess!Loop
        BY <4>1, LoopTypes DEF Sess!Loop
      <4> QED BY <1>1, <2>3, <3>2, <4>1, <4>2, LoopTypes DEF Sess!AbortSession, PlaceInv
    <3>3. CASE child' = child /\ sessLoop' = Sess!At("idle")
      BY <1>1, <2>3, <3>3, LoopTypes DEF Sess!AbortSession, PlaceInv, Sess!At, Sess!Loop
    <3> QED BY <3>1, <3>2, <3>3
  <2> QED BY <2>1, <2>2, <2>3
<1>3. sessSession.status = "RUNNING" \/ UNCHANGED <<child, tools>>
  BY LoopTypes DEF Sess!ProviderReturns, Sess!CloseTools, Sess!AbortSession, PlaceInv, LoopInv, Sess!SessionOutlivesItsWork
<1> QED BY <1>1, <1>2, <1>3, LoopTypes, DriveKeeps

----
\* An attempt that begins or stops, or whose loop ends, while no session runs; or one that stops under its session.
LEMMA StopKeeps ==
    ASSUME LoopBounds, LoopInv, NEW a \in SessAttemptRow, sessAttempt' = a,
           run' \in [active : BOOLEAN, sessions : 0 .. MaxSessions],
           a.unproductive = sessAttempt.unproductive, a.backoffs = sessAttempt.backoffs,
           tally' = [tally EXCEPT !.stops = @ + Sess!Stop(a)],
           a.status = "RUNNING" => sessAttempt.status = "RUNNING" /\ sessSession.status = "RUNNING",
           a.status = "QUEUED" => sessAttempt.status = "QUEUED",
           a.status = "SUCCEEDED" => sessAttempt.status = "SUCCEEDED",
           UNCHANGED <<sessSession, child, tools, behind>>,
           sessLoop' = sessLoop \/ sessLoop' = Sess!At("idle")
    PROVE  LoopInv'
<1>1. tally.wasted \in Nat /\ tally.stops \in Nat /\ MaxStops \in Nat /\ tally.wasted <= MaxStops + 3 /\ tally.stops <= MaxStops + 1
      /\ sessAttempt.backoffs \in {0, 1} /\ OnCounter(sessAttempt) \in {0, 1} /\ OnCounter(a) = OnCounter(sessAttempt)
      /\ sessAttempt.status \in Sess!Stopped \cup {"QUEUED", "RUNNING", "SUCCEEDED"}
      /\ a.status \in Sess!Stopped \cup {"QUEUED", "RUNNING", "SUCCEEDED"}
  BY LoopTypes DEF SessAttemptRow, LoopBounds, OnCounter
<1>2. Sess!Stop(a) \in {0, 1} /\ (Sess!Stop(a) = 1 <=> sessAttempt.status = "RUNNING" /\ a.status \in Sess!Stopped)
  BY DEF Sess!Stop
<1>3. tally' = [wasted |-> tally.wasted, stops |-> tally.stops + Sess!Stop(a)]
  BY LoopTypes
<1>4. WasteInv' /\ tally' \in [wasted : 0 .. MaxStops + 3, stops : 0 .. MaxStops + 1]
  <2>1. WasteInv
    BY DEF LoopInv
  <2>2. tally.stops + Sess!Stop(a) <= MaxStops + 1 /\ tally.stops + Sess!Stop(a) \in Nat
        /\ (a.status \in {"QUEUED", "RUNNING"} => tally.stops + Sess!Stop(a) <= MaxStops)
    BY <1>1, <1>2, <2>1 DEF WasteInv, Sess!Stopped
  <2>3. tally.wasted <= tally.stops + Sess!Stop(a) + a.backoffs + OnCounter(a)
        /\ (sessSession.status = "RUNNING" /\ a.status # "RUNNING" =>
              tally.wasted + 1 <= tally.stops + Sess!Stop(a) + a.backoffs + OnCounter(a))
    BY <1>1, <1>2, <2>1 DEF WasteInv, Answers, Sess!Stopped
  <2>4. tally' \in [wasted : 0 .. MaxStops + 3, stops : 0 .. MaxStops + 1]
    <3>1. tally.wasted \in 0 .. MaxStops + 3 /\ tally.stops + Sess!Stop(a) \in 0 .. MaxStops + 1
      BY <1>1, <2>2
    <3> QED BY <1>3, <3>1
  <2>5. tally'.wasted = tally.wasted /\ tally'.stops = tally.stops + Sess!Stop(a) /\ sessSession' = sessSession
    BY <1>3
  <2>6. WasteInv'
    BY <2>2, <2>3, <2>5 DEF WasteInv, Answers
  <2> QED BY <2>4, <2>6
<1>5. sessLoop' \in Sess!Loop
  <2>1. Sess!At("idle") \in Sess!Loop
    BY DEF Sess!At, Sess!Loop
  <2> QED BY <2>1, LoopTypes
<1>6. Sess!TypeOK'
  BY <1>4, <1>5, LoopTypes DEF Sess!TypeOK, SessAttemptRow
<1>7. PlaceInv'
  BY LoopTypes DEF PlaceInv, Sess!At
<1>8. Sess!HandoffIsComplete' /\ Sess!SessionOutlivesItsWork' /\ Sess!LoopLeavesAnAnswer'
  BY DEF LoopInv, Sess!HandoffIsComplete, Sess!SessionOutlivesItsWork, Sess!LoopLeavesAnAnswer
<1> QED BY <1>4, <1>6, <1>7, <1>8 DEF LoopInv

\* The invariant outlives SessionLimitReached, ContextRefused, UncertainEnds and PausePipeline.
LEMMA StopsKeep ==
    ASSUME LoopBounds, LoopInv,
           Sess!SessionLimitReached \/ Sess!ContextRefused \/ Sess!UncertainEnds \/ Sess!PausePipeline
    PROVE  LoopInv'
<1>1. UNCHANGED <<sessSession, child, tools, behind>> /\ (sessLoop' = sessLoop \/ sessLoop' = Sess!At("idle"))
  BY DEF Sess!SessionLimitReached, Sess!ContextRefused, Sess!UncertainEnds, Sess!PausePipeline
<1>2. CASE Sess!SessionLimitReached \/ Sess!ContextRefused
  <2>1. PICK status \in {"HARD_PAUSED", "WAITING_HUMAN"} : Sess!StopAttempt([sessAttempt EXCEPT !.status = status])
    BY <1>2 DEF Sess!SessionLimitReached, Sess!ContextRefused, Sess!HardPaused
  <2> DEFINE a == [sessAttempt EXCEPT !.status = status]
  <2>2. a \in SessAttemptRow /\ a.unproductive = sessAttempt.unproductive /\ a.backoffs = sessAttempt.backoffs
        /\ a.status \in {"HARD_PAUSED", "WAITING_HUMAN"}
    <3>1. a = [status |-> status, unproductive |-> sessAttempt.unproductive, backoffs |-> sessAttempt.backoffs]
      BY LoopTypes, RowsOfAttempts
    <3> QED BY <3>1, LoopTypes DEF SessAttemptRow, Sess!Stopped
  <2>3. sessAttempt' = a /\ run' = [run EXCEPT !.active = FALSE] /\ tally' = [tally EXCEPT !.stops = @ + Sess!Stop(a)]
    BY <2>1 DEF Sess!StopAttempt
  <2> HIDE DEF a
  <2>4. run' \in [active : BOOLEAN, sessions : 0 .. MaxSessions]
    BY <2>3, LoopTypes
  <2> QED BY <1>1, <2>2, <2>3, <2>4, StopKeeps
<1>3. CASE Sess!UncertainEnds
  <2>1. sessAttempt' = Sess!Spent /\ tally' = [tally EXCEPT !.stops = @ + Sess!Stop(Sess!Spent)] /\ run' = run
        /\ sessSession.status = "RUNNING"
    BY <1>3, LoopTypes DEF Sess!UncertainEnds, PlaceInv
  <2> QED BY <1>1, <2>1, LoopTypes, SpentIsAttempt, StopKeeps
<1>4. CASE Sess!PausePipeline
  <2> DEFINE a == [sessAttempt EXCEPT !.status = "SOFT_PAUSED"]
  <2>1. a \in SessAttemptRow /\ a.unproductive = sessAttempt.unproductive /\ a.backoffs = sessAttempt.backoffs /\ a.status = "SOFT_PAUSED"
    <3>1. a = [status |-> "SOFT_PAUSED", unproductive |-> sessAttempt.unproductive, backoffs |-> sessAttempt.backoffs]
      BY LoopTypes, RowsOfAttempts
    <3> QED BY <3>1, LoopTypes DEF SessAttemptRow, Sess!Stopped
  <2>2. sessAttempt' = a /\ run' = [run EXCEPT !.active = @ /\ sessSession.status = "RUNNING"] /\ sessAttempt.status = "RUNNING"
        /\ tally' = [tally EXCEPT !.stops = @ + 1]
    BY <1>4 DEF Sess!PausePipeline
  <2> HIDE DEF a
  <2>3. Sess!Stop(a) = 1
    BY <2>1, <2>2 DEF Sess!Stop, Sess!Stopped
  <2>4. run' \in [active : BOOLEAN, sessions : 0 .. MaxSessions]
    BY <2>2, LoopTypes
  <2>5. tally' = [tally EXCEPT !.stops = @ + Sess!Stop(a)]
    BY <2>2, <2>3
  <2> QED BY <1>1, <2>1, <2>2, <2>4, <2>5, StopKeeps
<1> QED BY <1>2, <1>3, <1>4

\* The invariant outlives Claim, StartSession and Requeue.
LEMMA BeginsKeep == ASSUME LoopBounds, LoopInv, Sess!Claim \/ Sess!StartSession \/ Sess!Requeue PROVE LoopInv'
<1>1. CASE Sess!Claim
  <2>1. /\ UNCHANGED <<sessSession, child, tools, behind, tally>> /\ run' = [active |-> TRUE, sessions |-> 0]
        /\ sessAttempt' = [sessAttempt EXCEPT !.status = "RUNNING"] /\ sessLoop' = Sess!At("context")
        /\ sessAttempt.status = "QUEUED" /\ sessSession.status # "RUNNING"
    BY <1>1 DEF Sess!Claim
  <2>2. sessAttempt' = [status |-> "RUNNING", unproductive |-> sessAttempt.unproductive, backoffs |-> sessAttempt.backoffs]
        /\ sessAttempt' \in SessAttemptRow
    BY <2>1, LoopTypes, RowsOfAttempts
  <2>3. sessLoop' \in Sess!Loop /\ sessLoop'.pc = "context" /\ sessLoop'.task = "none"
    BY <2>1 DEF Sess!At, Sess!Loop
  <2>4. Sess!TypeOK'
    BY <2>1, <2>2, <2>3, LoopTypes DEF Sess!TypeOK, SessAttemptRow, LoopBounds
  <2>5. WasteInv'
    BY <2>1, <2>2 DEF LoopInv, WasteInv, Answers, OnCounter
  <2>6. PlaceInv' /\ Sess!HandoffIsComplete' /\ Sess!SessionOutlivesItsWork' /\ Sess!LoopLeavesAnAnswer'
    BY <2>1, <2>3 DEF LoopInv, PlaceInv, Sess!HandoffIsComplete, Sess!SessionOutlivesItsWork, Sess!LoopLeavesAnAnswer
  <2> QED BY <2>4, <2>5, <2>6 DEF LoopInv
<1>2. CASE Sess!StartSession
  <2>1. /\ UNCHANGED <<sessAttempt, child, tools, tally>> /\ run' = [run EXCEPT !.sessions = @ + 1]
        /\ sessSession' = [status |-> "RUNNING", published |-> FALSE, end |-> "none"]
        /\ behind' = FALSE /\ sessLoop' = Sess!At("racing")
        /\ sessAttempt.status = "RUNNING" /\ sessSession.status # "RUNNING" /\ run.sessions < MaxSessions
    BY <1>2 DEF Sess!StartSession, Sess!NewSession
  <2>2. sessLoop' \in Sess!Loop /\ sessLoop'.pc = "racing" /\ sessLoop'.task = "none"
    BY <2>1 DEF Sess!At, Sess!Loop
  <2>3. run' \in [active : BOOLEAN, sessions : 0 .. MaxSessions]
    BY <2>1, LoopTypes DEF LoopBounds
  <2>4. Sess!TypeOK'
    BY <2>1, <2>2, <2>3, LoopTypes DEF Sess!TypeOK, SessAttemptRow
  <2>5. WasteInv'
    BY <2>1 DEF LoopInv, WasteInv, Answers, OnCounter
  <2>6. PlaceInv' /\ Sess!HandoffIsComplete' /\ Sess!SessionOutlivesItsWork' /\ Sess!LoopLeavesAnAnswer'
    BY <2>1, <2>2 DEF LoopInv, PlaceInv, Sess!HandoffIsComplete, Sess!SessionOutlivesItsWork, Sess!LoopLeavesAnAnswer
  <2> QED BY <2>4, <2>5, <2>6 DEF LoopInv
<1>3. CASE Sess!Requeue
  <2>1. /\ UNCHANGED <<run, sessSession, child, tools, behind, sessLoop, tally>>
        /\ sessAttempt' = [sessAttempt EXCEPT !.status = "QUEUED"] /\ sessAttempt.status \in Sess!Stopped /\ tally.stops <= MaxStops
    BY <1>3 DEF Sess!Requeue, Sess!Queued
  <2>2. sessAttempt' = [status |-> "QUEUED", unproductive |-> sessAttempt.unproductive, backoffs |-> sessAttempt.backoffs]
        /\ sessAttempt' \in SessAttemptRow
    BY <2>1, LoopTypes, RowsOfAttempts
  <2>3. Sess!TypeOK'
    BY <2>1, <2>2, LoopTypes DEF Sess!TypeOK, SessAttemptRow
  <2>4. WasteInv'
    BY <2>1, <2>2 DEF LoopInv, WasteInv, Answers, OnCounter, Sess!Stopped
  <2>5. PlaceInv' /\ Sess!HandoffIsComplete' /\ Sess!SessionOutlivesItsWork' /\ Sess!LoopLeavesAnAnswer'
    BY <2>1, <2>2 DEF LoopInv, PlaceInv, Sess!HandoffIsComplete, Sess!SessionOutlivesItsWork, Sess!LoopLeavesAnAnswer
  <2> QED BY <2>3, <2>4, <2>5 DEF LoopInv
<1> QED BY <1>1, <1>2, <1>3

----
\* What the end of a turn makes of the attempt.
LEMMA TurnCounts ==
    ASSUME LoopInv, NEW published \in BOOLEAN
    PROVE  LET a == Sess!Counted(Sess!Spent, published) IN
           /\ a \in SessAttemptRow /\ a.backoffs = sessAttempt.backoffs
           /\ a.status \in {"QUEUED", "RUNNING"} => a.status = sessAttempt.status
           /\ published \/ OnCounter(a) >= OnCounter(sessAttempt)
           /\ sessAttempt.status = "RUNNING" /\ ~published =>
                 a.status \in Sess!Stopped \/ OnCounter(a) = OnCounter(sessAttempt) + 1
<1>1. sessAttempt \in SessAttemptRow
  BY LoopTypes
<1>2. OnCounter(sessAttempt) \in {0, 1} /\ OnCounter(Sess!Spent) = OnCounter(sessAttempt)
      /\ (Sess!Spent.unproductive = 0 <=> OnCounter(sessAttempt) = 0)
  BY <1>1, SpentIsAttempt DEF OnCounter
<1> QED BY <1>1, <1>2, SpentIsAttempt, CountedIsAttempt DEF Sess!Stopped

\* The invariant outlives Continues, EndProviderSession, Counted, Spent and At.
LEMMA TurnKeeps ==
    ASSUME LoopBounds, LoopInv, sessSession.status = "RUNNING", sessLoop.task # "none", ~tools,
           UNCHANGED <<child, tools>>, behind' \in BOOLEAN,
           NEW published \in BOOLEAN, NEW reason \in Sess!Continues \cup {"INTERRUPTED"},
           Sess!EndProviderSession(Sess!Counted(Sess!Spent, published), published, reason),
           sessLoop' = Sess!At(IF Sess!Counted(Sess!Spent, published).status = "RUNNING" THEN "context" ELSE "idle"),
           reason = "HANDOFF" => ~behind'
    PROVE  LoopInv'
<1> DEFINE a == Sess!Counted(Sess!Spent, published)
<1>1. child' = FALSE /\ tools' = FALSE
  BY LoopTypes DEF PlaceInv
<1>2. /\ a \in SessAttemptRow /\ a.backoffs = sessAttempt.backoffs
      /\ a.status \in {"QUEUED", "RUNNING"} => a.status = sessAttempt.status
      /\ published \/ OnCounter(a) >= OnCounter(sessAttempt)
      /\ sessAttempt.status = "RUNNING" /\ ~published =>
            a.status \in Sess!Stopped \/ OnCounter(a) = OnCounter(sessAttempt) + 1
  BY TurnCounts
<1>3. PICK pc \in {"idle", "context"} : sessLoop' = Sess!At(pc) /\ (pc = "idle" => a.status # "RUNNING")
  <2>1. CASE a.status = "RUNNING"
    BY <2>1
  <2>2. CASE a.status # "RUNNING"
    BY <2>2
  <2> QED BY <2>1, <2>2
<1>4. reason \in Sess!Continues \cup {"COMPLETED", "INTERRUPTED"} /\ reason # "COMPLETED"
  BY DEF Sess!Continues
<1>5. Sess!EndProviderSession(a, published, reason)
  OBVIOUS
<1> HIDE DEF a
<1>6. a.backoffs >= sessAttempt.backoffs
  BY <1>2, LoopTypes DEF SessAttemptRow
<1> QED BY <1>1, <1>2, <1>3, <1>4, <1>5, <1>6, SessEndKeeps

\* The invariant outlives DeadlineEnds.
LEMMA DeadlineKeeps == ASSUME LoopBounds, LoopInv, Sess!DeadlineEnds PROVE LoopInv'
<1>1. /\ sessLoop.pc = "joining" /\ sessLoop.task # "none" /\ ~tools /\ UNCHANGED <<child, tools, behind>>
      /\ sessSession.status = "RUNNING" /\ sessSession.published \in BOOLEAN /\ behind \in BOOLEAN
  BY LoopTypes DEF Sess!DeadlineEnds, PlaceInv
<1> DEFINE published == sessSession.published
           reason == IF sessLoop.failed THEN "INTERRUPTED" ELSE "CONTEXT_EXHAUSTED"
<1>2. Sess!EndProviderSession(Sess!Counted(Sess!Spent, published), published, reason)
      /\ sessLoop' = Sess!At(IF Sess!Counted(Sess!Spent, published).status = "RUNNING" THEN "context" ELSE "idle")
  BY DEF Sess!DeadlineEnds, Sess!EndTurn
<1>3. reason \in Sess!Continues \cup {"INTERRUPTED"} /\ reason # "HANDOFF"
  BY DEF Sess!Continues
<1>4. published \in BOOLEAN
  BY <1>1
<1> HIDE DEF published, reason
<1> QED BY <1>1, <1>2, <1>3, <1>4, TurnKeeps

\* The invariant outlives HandoffEnds.
LEMMA HandoffKeeps == ASSUME LoopBounds, LoopInv, Sess!HandoffEnds PROVE LoopInv'
<1>1. /\ sessLoop.pc = "settled" /\ sessLoop.task \in Sess!Continues /\ sessLoop.task # "none" /\ ~tools /\ UNCHANGED <<child, tools>>
      /\ sessSession.status = "RUNNING" /\ sessSession.published \in BOOLEAN /\ behind \in BOOLEAN /\ sessLoop.failed \in BOOLEAN
      /\ (behind => sessLoop.failed)
  BY LoopTypes DEF Sess!HandoffEnds, PlaceInv
<1>2. PICK published \in BOOLEAN, failed \in BOOLEAN :
         /\ Sess!EndProviderSession(Sess!Counted(Sess!Spent, published), published,
                                    IF failed THEN "INTERRUPTED" ELSE sessLoop.task)
         /\ sessLoop' = Sess!At(IF Sess!Counted(Sess!Spent, published).status = "RUNNING" THEN "context" ELSE "idle")
         /\ behind' \in BOOLEAN /\ (behind' => failed)
  <2>1. CASE Sess!EndTurn(sessLoop.task, sessLoop.failed, sessSession.published) /\ UNCHANGED behind
    BY <1>1, <2>1 DEF Sess!EndTurn
  <2>2. ASSUME NEW written \in BOOLEAN, behind' = ~written,
               Sess!EndTurn(sessLoop.task, sessLoop.failed \/ ~written, sessSession.published \/ written)
        PROVE  \E published \in BOOLEAN, failed \in BOOLEAN :
         /\ Sess!EndProviderSession(Sess!Counted(Sess!Spent, published), published,
                                    IF failed THEN "INTERRUPTED" ELSE sessLoop.task)
         /\ sessLoop' = Sess!At(IF Sess!Counted(Sess!Spent, published).status = "RUNNING" THEN "context" ELSE "idle")
         /\ behind' \in BOOLEAN /\ (behind' => failed)
    <3> DEFINE published == sessSession.published \/ written
               failed == sessLoop.failed \/ ~written
    <3>1. /\ Sess!EndProviderSession(Sess!Counted(Sess!Spent, published), published,
                                     IF failed THEN "INTERRUPTED" ELSE sessLoop.task)
          /\ sessLoop' = Sess!At(IF Sess!Counted(Sess!Spent, published).status = "RUNNING" THEN "context" ELSE "idle")
      BY <2>2 DEF Sess!EndTurn
    <3>2. behind' \in BOOLEAN /\ (behind' => failed) /\ published \in BOOLEAN /\ failed \in BOOLEAN
      BY <2>2, <1>1
    <3> HIDE DEF published, failed
    <3> QED BY <3>1, <3>2
  <2> QED BY <2>1, <2>2 DEF Sess!HandoffEnds
<1> DEFINE reason == IF failed THEN "INTERRUPTED" ELSE sessLoop.task
<1>3. reason \in Sess!Continues \cup {"INTERRUPTED"} /\ (reason = "HANDOFF" => ~behind')
  BY <1>1, <1>2
<1>4. Sess!EndProviderSession(Sess!Counted(Sess!Spent, published), published, reason)
  BY <1>2
<1> HIDE DEF reason
<1> QED BY <1>1, <1>2, <1>3, <1>4, TurnKeeps

\* The invariant outlives FailedEnds.
LEMMA FailedKeeps == ASSUME LoopBounds, LoopInv, Sess!FailedEnds PROVE LoopInv'
<1> DEFINE published == sessSession.published
           reason == "INTERRUPTED"
           retry == sessLoop.task = "TOO_LARGE" /\ sessAttempt.backoffs = 0
           a == IF Sess!Spent.status # "RUNNING" THEN Sess!Spent
                ELSE IF retry THEN Sess!Reduced(sessAttempt) ELSE Sess!HardPaused(sessAttempt)
<1>1. /\ sessLoop.pc = "settled" /\ sessLoop.task # "none" /\ ~tools /\ UNCHANGED <<child, tools, behind>>
      /\ sessSession.status = "RUNNING" /\ published \in BOOLEAN /\ behind' \in BOOLEAN /\ child' = FALSE /\ tools' = FALSE
      /\ Sess!EndProviderSession(a, published, reason)
      /\ sessLoop' = Sess!At(IF a.status = "RUNNING" THEN "context" ELSE "idle")
      /\ sessAttempt \in SessAttemptRow
  BY LoopTypes DEF Sess!FailedEnds, PlaceInv
<1>2. /\ a \in SessAttemptRow /\ OnCounter(a) = OnCounter(sessAttempt)
      /\ a.backoffs = sessAttempt.backoffs \/ a.backoffs = sessAttempt.backoffs + 1
      /\ a.status \in {"QUEUED", "RUNNING"} => a.status = sessAttempt.status
      /\ sessAttempt.status = "RUNNING" => a.status \in Sess!Stopped \/ a.backoffs = sessAttempt.backoffs + 1
  <2>1. CASE Sess!Spent.status # "RUNNING"
    <3>1. a = Sess!Spent
      BY <2>1
    <3> HIDE DEF a
    <3> QED BY <1>1, <2>1, <3>1, SpentIsAttempt DEF OnCounter, SessAttemptRow, Sess!Stopped
  <2>2. CASE Sess!Spent.status = "RUNNING" /\ retry
    <3>1. sessAttempt.backoffs = 0 /\ a = [sessAttempt EXCEPT !.backoffs = sessAttempt.backoffs + 1]
      BY <2>2 DEF Sess!Reduced
    <3>2. a = [status |-> sessAttempt.status, unproductive |-> sessAttempt.unproductive, backoffs |-> 1]
      BY <1>1, <3>1 DEF SessAttemptRow
    <3> HIDE DEF a
    <3> QED BY <1>1, <3>1, <3>2 DEF OnCounter, SessAttemptRow
  <2>3. CASE Sess!Spent.status = "RUNNING" /\ ~retry
    <3>1. a = [status |-> "HARD_PAUSED", unproductive |-> sessAttempt.unproductive, backoffs |-> sessAttempt.backoffs]
      BY <1>1, <2>3, RowsOfAttempts
    <3> HIDE DEF a
    <3> QED BY <1>1, <3>1 DEF OnCounter, SessAttemptRow, Sess!Stopped
  <2> QED BY <2>1, <2>2, <2>3
<1>r. reason \in Sess!Continues \cup {"COMPLETED", "INTERRUPTED"} /\ reason # "HANDOFF"
  OBVIOUS
<1> HIDE DEF a, published, reason
<1>3. PICK pc \in {"idle", "context"} : sessLoop' = Sess!At(pc) /\ (pc = "idle" => a.status # "RUNNING")
  BY <1>1
<1>4. OnCounter(sessAttempt) \in Nat /\ a.backoffs >= sessAttempt.backoffs /\ sessAttempt.backoffs \in Nat
  BY <1>1, <1>2 DEF OnCounter, SessAttemptRow
<1>5. /\ a.backoffs >= sessAttempt.backoffs /\ (a.status \in {"QUEUED", "RUNNING"} => a.status = sessAttempt.status)
      /\ published \/ OnCounter(a) >= OnCounter(sessAttempt)
      /\ sessAttempt.status = "RUNNING" /\ ~published /\ reason # "COMPLETED" =>
            \/ a.status \in Sess!Stopped
            \/ a.backoffs = sessAttempt.backoffs + 1
            \/ OnCounter(a) = OnCounter(sessAttempt) + 1
      /\ reason = "COMPLETED" => OnCounter(a) >= OnCounter(sessAttempt)
  BY <1>1, <1>2, <1>4
<1>6. sessSession.status = "RUNNING" /\ child' = FALSE /\ tools' = FALSE /\ behind' \in BOOLEAN /\ published \in BOOLEAN
      /\ a \in SessAttemptRow /\ Sess!EndProviderSession(a, published, reason)
  BY <1>1, <1>2
<1> QED BY <1>3, <1>5, <1>6, <1>r, SessEndKeeps

\* The invariant outlives ResultEnds.
LEMMA ResultKeeps == ASSUME LoopBounds, LoopInv, Sess!ResultEnds PROVE LoopInv'
<1>1. PICK status \in {"SUCCEEDED", "WAITING_HUMAN", "HARD_PAUSED"} :
         Sess!EndProviderSession(IF sessAttempt.status = "RUNNING" THEN [sessAttempt EXCEPT !.status = status] ELSE Sess!Spent,
                                 sessSession.published, "COMPLETED")
  BY DEF Sess!ResultEnds
<1> DEFINE published == sessSession.published
           reason == "COMPLETED"
           a == IF sessAttempt.status = "RUNNING" THEN [sessAttempt EXCEPT !.status = status] ELSE Sess!Spent
<1>2. /\ sessLoop.pc = "measuring" /\ sessLoop.task # "none" /\ UNCHANGED <<child, tools, behind>>
      /\ sessSession.status = "RUNNING" /\ published \in BOOLEAN /\ behind' \in BOOLEAN /\ child' = FALSE /\ tools' = FALSE
      /\ sessLoop' = Sess!At("idle") /\ sessAttempt \in SessAttemptRow
  BY LoopTypes DEF Sess!ResultEnds, PlaceInv
<1>3. /\ a \in SessAttemptRow /\ OnCounter(a) = OnCounter(sessAttempt) /\ a.backoffs = sessAttempt.backoffs /\ a.status # "RUNNING"
      /\ a.status = "QUEUED" => a.status = sessAttempt.status
  <2>1. CASE sessAttempt.status = "RUNNING"
    <3>1. a = [status |-> status, unproductive |-> sessAttempt.unproductive, backoffs |-> sessAttempt.backoffs]
      BY <1>2, <2>1, RowsOfAttempts
    <3> HIDE DEF a
    <3> QED BY <1>2, <3>1 DEF OnCounter, SessAttemptRow, Sess!Stopped
  <2>2. CASE sessAttempt.status # "RUNNING"
    <3>1. a = Sess!Spent
      BY <2>2
    <3> HIDE DEF a
    <3> QED BY <1>2, <2>2, <3>1, SpentIsAttempt DEF OnCounter
  <2> QED BY <2>1, <2>2
<1>4. Sess!EndProviderSession(a, published, reason)
  BY <1>1
<1>r. reason \in Sess!Continues \cup {"COMPLETED", "INTERRUPTED"} /\ reason # "HANDOFF"
  OBVIOUS
<1>c. reason = "COMPLETED"
  OBVIOUS
<1> HIDE DEF a, published, reason
<1>5. OnCounter(sessAttempt) \in Nat /\ sessAttempt.backoffs \in Nat
  BY <1>2 DEF OnCounter, SessAttemptRow
<1>6. /\ a.backoffs >= sessAttempt.backoffs /\ (a.status \in {"QUEUED", "RUNNING"} => a.status = sessAttempt.status)
      /\ published \/ OnCounter(a) >= OnCounter(sessAttempt)
      /\ sessAttempt.status = "RUNNING" /\ ~published /\ reason # "COMPLETED" =>
            \/ a.status \in Sess!Stopped
            \/ a.backoffs = sessAttempt.backoffs + 1
            \/ OnCounter(a) = OnCounter(sessAttempt) + 1
      /\ reason = "COMPLETED" => OnCounter(a) >= OnCounter(sessAttempt)
  BY <1>2, <1>3, <1>5, <1>c
<1>7. sessSession.status = "RUNNING" /\ child' = FALSE /\ tools' = FALSE /\ behind' \in BOOLEAN /\ published \in BOOLEAN
      /\ a \in SessAttemptRow /\ Sess!EndProviderSession(a, published, reason)
  BY <1>2, <1>3, <1>4
<1> QED BY <1>2, <1>3, <1>6, <1>7, <1>r, SessEndKeeps

\* The invariant outlives Restart.
LEMMA SessRestartKeeps == ASSUME LoopBounds, LoopInv, Sess!Restart PROVE LoopInv'
<1> DEFINE published == sessSession.published
           reason == "INTERRUPTED"
           a == IF sessAttempt.status = "RUNNING" THEN [sessAttempt EXCEPT !.status = "INTERRUPTED"] ELSE sessAttempt
<1>1. /\ UNCHANGED behind /\ published \in BOOLEAN /\ behind' \in BOOLEAN /\ child' = FALSE /\ tools' = FALSE
      /\ sessLoop' = Sess!At("idle") /\ sessAttempt \in SessAttemptRow
      /\ \/ sessSession.status = "RUNNING" /\ Sess!EndProviderSession(a, published, reason)
         \/ sessSession.status # "RUNNING" /\ Sess!StopAttempt(a) /\ UNCHANGED sessSession
  BY LoopTypes DEF Sess!Restart
<1>2. /\ a \in SessAttemptRow /\ OnCounter(a) = OnCounter(sessAttempt) /\ a.backoffs = sessAttempt.backoffs /\ a.status # "RUNNING"
      /\ a.unproductive = sessAttempt.unproductive
      /\ sessAttempt.status = "RUNNING" => a.status = "INTERRUPTED"
      /\ sessAttempt.status # "RUNNING" => a.status = sessAttempt.status
  <2>1. CASE sessAttempt.status = "RUNNING"
    <3>1. a = [status |-> "INTERRUPTED", unproductive |-> sessAttempt.unproductive, backoffs |-> sessAttempt.backoffs]
      BY <1>1, <2>1, RowsOfAttempts
    <3> HIDE DEF a
    <3> QED BY <1>1, <2>1, <3>1 DEF OnCounter, SessAttemptRow, Sess!Stopped
  <2>2. CASE sessAttempt.status # "RUNNING"
    BY <1>1, <2>2
  <2> QED BY <2>1, <2>2
<1>r. reason \in Sess!Continues \cup {"COMPLETED", "INTERRUPTED"} /\ reason # "HANDOFF"
  OBVIOUS
<1> HIDE DEF a, published, reason
<1>3. OnCounter(sessAttempt) \in Nat /\ sessAttempt.backoffs \in Nat
  BY <1>1 DEF OnCounter, SessAttemptRow
<1>4. CASE sessSession.status = "RUNNING" /\ Sess!EndProviderSession(a, published, reason)
  <2>1. /\ a.backoffs >= sessAttempt.backoffs /\ (a.status \in {"QUEUED", "RUNNING"} => a.status = sessAttempt.status)
        /\ published \/ OnCounter(a) >= OnCounter(sessAttempt)
        /\ sessAttempt.status = "RUNNING" /\ ~published /\ reason # "COMPLETED" =>
            \/ a.status \in Sess!Stopped
            \/ a.backoffs = sessAttempt.backoffs + 1
            \/ OnCounter(a) = OnCounter(sessAttempt) + 1
        /\ reason = "COMPLETED" => OnCounter(a) >= OnCounter(sessAttempt)
    BY <1>2, <1>3 DEF Sess!Stopped
  <2>2. sessSession.status = "RUNNING" /\ child' = FALSE /\ tools' = FALSE /\ behind' \in BOOLEAN /\ published \in BOOLEAN
        /\ a \in SessAttemptRow /\ Sess!EndProviderSession(a, published, reason)
    BY <1>1, <1>2, <1>4
  <2> QED BY <1>1, <1>2, <2>1, <2>2, <1>r, SessEndKeeps
<1>5. CASE sessSession.status # "RUNNING" /\ Sess!StopAttempt(a) /\ UNCHANGED sessSession
  <2>1. child' = child /\ tools' = tools
    BY <1>1, <1>5, LoopTypes DEF LoopInv, Sess!SessionOutlivesItsWork
  <2>2. sessAttempt' = a /\ tally' = [tally EXCEPT !.stops = @ + Sess!Stop(a)]
        /\ run' \in [active : BOOLEAN, sessions : 0 .. MaxSessions]
    BY <1>5, LoopTypes DEF Sess!StopAttempt
  <2> QED BY <1>1, <1>2, <1>5, <2>1, <2>2, StopKeeps
<1> QED BY <1>1, <1>4, <1>5

----
\* No step of the loop breaks its invariant.
LEMMA SessLoopStep == ASSUME LoopBounds, LoopInv, Sess!Next PROVE LoopInv'
  BY TurnsKeep, RunningKeeps, ReturnsKeep, StopsKeep, BeginsKeep, DeadlineKeeps, HandoffKeeps, FailedKeeps, ResultKeeps,
     SessRestartKeeps DEF Sess!Next

\* The invariant of SessionLoop, for any number of sessions and of stops.
THEOREM SessionLoopInvariant == ASSUME LoopBounds PROVE Sess!Spec => []LoopInv
<1>1. Sess!Init => LoopInv
  <2>1. Sess!Init => Sess!TypeOK
    <3>1. Sess!At("idle") \in Sess!Loop
      BY DEF Sess!At, Sess!Loop
    <3>2. 0 \in 0 .. MaxStops + 3 /\ 0 \in 0 .. MaxStops + 1 /\ 0 \in 0 .. MaxSessions
      BY DEF LoopBounds
    <3>3. Sess!Init => /\ run \in [active : BOOLEAN, sessions : 0 .. MaxSessions]
                       /\ tally \in [wasted : 0 .. MaxStops + 3, stops : 0 .. MaxStops + 1]
      BY <3>2 DEF Sess!Init
    <3>4. Sess!Init => sessSession \in [status : {"none", "RUNNING", "ENDED"}, published : BOOLEAN,
                                   end : Sess!Continues \cup {"none", "COMPLETED", "INTERRUPTED"}]
      BY DEF Sess!Init
    <3>5. Sess!Init => child \in BOOLEAN /\ tools \in BOOLEAN /\ behind \in BOOLEAN
      BY DEF Sess!Init
    <3>6. Sess!Init => sessAttempt \in [status : Sess!Stopped \cup {"QUEUED", "RUNNING", "SUCCEEDED"},
                                   unproductive : 0 .. 2, backoffs : 0 .. 1]
      BY DEF Sess!Init
    <3>7. Sess!Init => sessLoop \in Sess!Loop
      BY <3>1 DEF Sess!Init
    <3> QED BY <3>3, <3>4, <3>5, <3>6, <3>7 DEF Sess!TypeOK
  <2>2. Sess!Init => WasteInv /\ PlaceInv
    BY DEF LoopBounds, Sess!Init, Sess!At, WasteInv, Answers, OnCounter, PlaceInv
  <2>3. Sess!Init => Sess!HandoffIsComplete /\ Sess!SessionOutlivesItsWork /\ Sess!LoopLeavesAnAnswer
    BY DEF Sess!Init, Sess!HandoffIsComplete, Sess!SessionOutlivesItsWork, Sess!LoopLeavesAnAnswer
  <2> QED BY <2>1, <2>2, <2>3 DEF LoopInv
<1>2. LoopInv /\ UNCHANGED Sess!vars => LoopInv'
  BY DEF Sess!vars, LoopInv, Sess!TypeOK, WasteInv, Answers, OnCounter, PlaceInv,
         Sess!HandoffIsComplete, Sess!SessionOutlivesItsWork, Sess!LoopLeavesAnAnswer
<1> QED BY <1>1, <1>2, SessLoopStep, PTL DEF Sess!Spec

\* A session that published nothing costs its attempt one of its answers; what it published is handed on; it ends after its child and its tools; and the loop leaves an attempt that waits, is over, or is worked on.
THEOREM SessionsAnswer ==
    ASSUME LoopBounds
    PROVE  Sess!Spec => [](Sess!WasteIsAnswered /\ Sess!HandoffIsComplete /\
                           Sess!SessionOutlivesItsWork /\ Sess!LoopLeavesAnAnswer)
<1>1. LoopInv => Sess!WasteIsAnswered
  BY DEF LoopInv, WasteInv, Answers, OnCounter, Sess!WasteIsAnswered, Sess!TypeOK
<1>2. LoopInv => Sess!HandoffIsComplete /\ Sess!SessionOutlivesItsWork /\ Sess!LoopLeavesAnAnswer
  BY DEF LoopInv
<1> QED BY <1>1, <1>2, SessionLoopInvariant, PTL

----
(* ProviderProcess *)

VARIABLES revoked, start, procChild, pipe, held, read, procRun, abort
Proc == INSTANCE ProviderProcess WITH child <- procChild, run <- procRun

\* A line is in the pipe or read, and what settled had a child that is gone, or none.
LinesAreOnce == pipe \cap read = {} /\ (procRun.failed => read # Proc!Line)
ChildIsOfTheRun ==
    /\ start \in {"none", "preparing"} => procChild = "none"
    /\ start \in {"running", "outcome"} => procChild # "none"
    /\ start \notin {"none", "preparing", "running"} => procChild # "alive"
    /\ start \in {"outcome", "unproductive"} /\ procChild # "none" => procRun.exited \in {"closed", "drained"}
    /\ procRun.exited # "pending" => Proc!Gone
    /\ procRun.exited = "closed" => pipe = {}
    /\ procRun.exited \in {"closed", "drained"} => start \in {"running", Proc!Outcome}
AbortIsHeld ==
    /\ abort = "resolved" => procChild # "alive" /\ (start = "preparing" => revoked)
    /\ abort = "pending" => start \notin {"none", "preparing"}
    /\ start = "none" => abort = "none"

ProcInv == Proc!TypeOK /\ LinesAreOnce /\ ChildIsOfTheRun /\ AbortIsHeld

\* The invariant outlives Next.
LEMMA ProcKeeps == ASSUME ProcInv, Proc!Next PROVE ProcInv'
<1> USE DEF ProcInv, Proc!TypeOK, LinesAreOnce, ChildIsOfTheRun, AbortIsHeld, Proc!Run, Proc!Gone
<1>1. CASE Proc!Prepare \/ Proc!PrepareFails \/ Proc!Spawn
  BY <1>1 DEF Proc!Prepare, Proc!PrepareFails, Proc!Spawn, Proc!MaySpawn
<1>2. CASE Proc!StartSettles
  BY <1>2 DEF Proc!StartSettles, Proc!Outcome
<1>3. CASE Proc!ChildWrites
  BY <1>3 DEF Proc!ChildWrites, Proc!Outcome
<1>4. CASE Proc!Inherit \/ Proc!ChildExits
  BY <1>4 DEF Proc!Inherit, Proc!ChildExits, Proc!Outcome
<1>5. CASE Proc!ReadLine
  <2>1. PICK line \in pipe :
           /\ pipe' = pipe \ {line}
           /\ \/ ~procRun.failed /\ read' = read \cup {line} /\ procRun' = procRun
              \/ ~procRun.failed /\ read' = read /\ procRun' = Proc!Stopping([procRun EXCEPT !.failed = TRUE])
              \/ procRun.failed /\ UNCHANGED <<read, procRun>>
    BY <1>5 DEF Proc!ReadLine
  <2>2. UNCHANGED <<revoked, start, procChild, held, abort>> /\ start = "running"
    BY <1>5 DEF Proc!ReadLine
  <2>3. /\ procRun' \in Proc!Run /\ procRun'.exited = procRun.exited
        /\ procRun'.failed => read' # Proc!Line
    BY <2>1 DEF Proc!Stopping, Proc!Stopped
  <2> QED BY <2>1, <2>2, <2>3 DEF Proc!Outcome
<1>6. CASE Proc!Close \/ Proc!DrainExpires
  BY <1>6 DEF Proc!Close, Proc!DrainExpires, Proc!Settle, Proc!AtEnd, Proc!Outcome
<1>7. CASE Proc!DeadlinePasses \/ Proc!Kill
  BY <1>7 DEF Proc!DeadlinePasses, Proc!Kill, Proc!Stopped, Proc!Outcome
<1>8. CASE Proc!Revoke \/ Proc!AbortResolves
  BY <1>8 DEF Proc!Revoke, Proc!AbortResolves, Proc!Outcome
<1>9. CASE Proc!Abort
  BY <1>9 DEF Proc!Abort, Proc!Stopping, Proc!Stopped, Proc!Outcome
<1> QED BY <1>1, <1>2, <1>3, <1>4, <1>5, <1>6, <1>7, <1>8, <1>9 DEF Proc!Next

\* The invariant of ProviderProcess.
THEOREM ProcessInvariant == Proc!Spec => []ProcInv
<1>1. Proc!Init => ProcInv
  <2>1. Proc!Unstarted \in Proc!Run /\ Proc!Unstarted.failed = FALSE /\ Proc!Unstarted.exited = "pending"
    BY DEF Proc!Unstarted, Proc!Run
  <2> QED BY <2>1 DEF Proc!Init, ProcInv, Proc!TypeOK, LinesAreOnce, ChildIsOfTheRun, AbortIsHeld, Proc!Gone
<1>2. ProcInv /\ UNCHANGED Proc!vars => ProcInv'
  BY DEF Proc!vars, ProcInv, Proc!TypeOK, LinesAreOnce, ChildIsOfTheRun, AbortIsHeld, Proc!Run, Proc!Gone, Proc!Outcome
<1> QED BY <1>1, <1>2, ProcKeeps, PTL DEF Proc!Spec

\* What was aborted or settled has no child, and what the child said before it ended was read before the session is told of its outcome.
THEOREM ProcessCorrect == Proc!Spec => [](Proc!AbortedIsGone /\ Proc!SettledIsGone /\ Proc!SaidIsHeard /\ Proc!NoOutcomeUnheard)
<1> USE DEF ProcInv, Proc!TypeOK, Proc!Run, LinesAreOnce, ChildIsOfTheRun, AbortIsHeld
<1>1. ProcInv => Proc!AbortedIsGone /\ Proc!SettledIsGone
  BY DEF Proc!AbortedIsGone, Proc!SettledIsGone
<1>2. ProcInv => Proc!SaidIsHeard
  <2>1. ASSUME ProcInv, start = "unproductive", procChild = "ok", pipe \cup read = Proc!Line, procRun.exited # "drained" PROVE FALSE
    <3>1. pipe = {} /\ Proc!Outcome = "unproductive"
      BY <2>1
    <3>2. read = Proc!Line
      BY <2>1, <3>1
    <3> QED BY <2>1, <3>1, <3>2 DEF Proc!Outcome
  <2> QED BY <2>1 DEF Proc!SaidIsHeard
<1>3. ProcInv => Proc!NoOutcomeUnheard
  BY DEF Proc!NoOutcomeUnheard, Proc!Outcome
<1> HIDE DEF ProcInv
<1> QED BY <1>1, <1>2, <1>3, ProcessInvariant, PTL

----
(* McpServers *)

CONSTANTS Server, mcpMaxFaults
VARIABLES mcpDaemon, server, mcpFaults
Mcp == INSTANCE McpServers WITH MaxFaults <- mcpMaxFaults, daemon <- mcpDaemon, faults <- mcpFaults

ServerRow == [use : {"NONE", "OPEN", "CLOSED", "LEAKED"}, parent : BOOLEAN,
              supervisor : {"NONE", "STARTING", "WRITING", "RENAMING", "RUNNING", "STOPPING", "UNLINKING", "GONE"},
              tree : {"NONE", "LIVE", "LEFT", "GONE", "STRANGER"},
              record : {"NONE", "PART", "TEMP", "WHOLE"}, excuse : Mcp!Excuse]

\* What the supervisor of a server has still to do says what is on record of the server.
Recorded(aRow) ==
    /\ aRow.supervisor \in {"NONE", "STARTING"} => aRow.tree = "NONE"
    /\ aRow.supervisor = "RENAMING" => aRow.record = "TEMP"
    /\ aRow.tree = "LIVE" /\ aRow.supervisor \in {"RUNNING", "STOPPING", "GONE"} =>
          aRow.record \in {"TEMP", "WHOLE"} \/ aRow.excuse # "NONE"
    /\ aRow.tree = "LIVE" /\ aRow.supervisor = "UNLINKING" => aRow.excuse # "NONE"

ServersInv == Mcp!TypeOK /\ \A s \in Server : Recorded(server[s])

\* A step of one server leaves the others as they were.
OnlyRow(s) ==
    /\ server' \in [Server -> ServerRow] /\ Recorded(server'[s])
    /\ \A t \in Server \ {s} : server'[t] = server[t]

\* A step of one server keeps what is on record of the others.
LEMMA OnlyRowKeeps ==
    ASSUME ServersInv, NEW s \in Server, OnlyRow(s), mcpDaemon' \in [up : BOOLEAN, recovers : SUBSET Server],
           mcpFaults' \in 0 .. mcpMaxFaults
    PROVE  ServersInv'
<1>1. Mcp!TypeOK'
  BY DEF OnlyRow, Mcp!TypeOK, ServerRow
<1> QED BY <1>1 DEF ServersInv, OnlyRow

\* The invariant outlives Open, Close, Leak, Supervises, Exit, Recover, Reuse and StrangerEnds.
LEMMA ServerKeeps ==
    ASSUME ServersInv, mcpMaxFaults \in Nat, NEW s \in Server,
           Mcp!Open(s) \/ Mcp!Close(s) \/ Mcp!Leak(s) \/ Mcp!Supervises(s) \/ Mcp!Exit(s) \/ Mcp!Recover(s)
           \/ Mcp!Reuse(s) \/ Mcp!StrangerEnds(s)
    PROVE  ServersInv'
<1>1. /\ server \in [Server -> ServerRow] /\ server[s] \in ServerRow /\ Recorded(server[s])
      /\ mcpDaemon \in [up : BOOLEAN, recovers : SUBSET Server] /\ mcpFaults \in 0 .. mcpMaxFaults
  BY DEF ServersInv, Mcp!TypeOK, ServerRow
<1>2. mcpDaemon' \in [up : BOOLEAN, recovers : SUBSET Server]
  <2>1. mcpDaemon' = mcpDaemon \/ mcpDaemon' = [mcpDaemon EXCEPT !.recovers = @ \ {s}]
    BY DEF Mcp!Open, Mcp!Close, Mcp!Leak, Mcp!Supervises, Mcp!Exit, Mcp!Recover, Mcp!Reuse, Mcp!StrangerEnds,
           Mcp!Launch, Mcp!Write, Mcp!Rename, Mcp!Stop, Mcp!Terminate, Mcp!Unlink, Mcp!SupervisorDies
  <2> QED BY <1>1, <2>1
<1>3. mcpFaults' \in 0 .. mcpMaxFaults
  <2>1. mcpFaults' = mcpFaults \/ Mcp!Fault
    BY DEF Mcp!Open, Mcp!Close, Mcp!Leak, Mcp!Supervises, Mcp!Exit, Mcp!Recover, Mcp!Reuse, Mcp!StrangerEnds,
           Mcp!Launch, Mcp!Write, Mcp!Rename, Mcp!Stop, Mcp!Terminate, Mcp!Unlink, Mcp!SupervisorDies
  <2> QED BY <1>1, <2>1 DEF Mcp!Fault
<1>4. OnlyRow(s)
  <2>1. CASE Mcp!Open(s)
    <3> DEFINE aRow == [Mcp!Fresh EXCEPT !.use = "OPEN", !.parent = TRUE, !.supervisor = "STARTING"]
    <3>1. Mcp!Fresh \in ServerRow /\ Mcp!Fresh.tree = "NONE"
      BY DEF Mcp!Fresh, ServerRow, Mcp!Excuse
    <3>2. server' = [server EXCEPT ![s] = aRow]
      BY <2>1 DEF Mcp!Open
    <3>3. aRow \in ServerRow /\ aRow.supervisor = "STARTING" /\ aRow.tree = "NONE"
      BY <3>1 DEF ServerRow
    <3> HIDE DEF aRow
    <3> QED BY <1>1, <3>2, <3>3 DEF OnlyRow, Recorded
  <2>2. CASE Mcp!Close(s) \/ Mcp!Leak(s)
    BY <1>1, <2>2 DEF Mcp!Close, Mcp!Leak, OnlyRow, ServerRow, Recorded
  <2>3. CASE Mcp!Launch(s)
    BY <1>1, <2>3 DEF Mcp!Launch, OnlyRow, ServerRow, Recorded
  <2>4. CASE Mcp!Write(s)
    BY <1>1, <2>4 DEF Mcp!Write, OnlyRow, ServerRow, Recorded, Mcp!Excuse
  <2>5. CASE Mcp!Rename(s)
    BY <1>1, <2>5 DEF Mcp!Rename, OnlyRow, ServerRow, Recorded
  <2>6. CASE Mcp!Stop(s)
    BY <1>1, <2>6 DEF Mcp!Stop, Mcp!Stopping, OnlyRow, ServerRow, Recorded
  <2>7. CASE Mcp!Terminate(s)
    BY <1>1, <2>7 DEF Mcp!Terminate, OnlyRow, ServerRow, Recorded, Mcp!Excuse
  <2>8. CASE Mcp!Unlink(s)
    BY <1>1, <2>8 DEF Mcp!Unlink, OnlyRow, ServerRow, Recorded
  <2>9. CASE Mcp!SupervisorDies(s)
    BY <1>1, <2>9 DEF Mcp!SupervisorDies, Mcp!HasSupervisor, OnlyRow, ServerRow, Recorded, Mcp!Excuse
  <2>10. CASE Mcp!Exit(s) \/ Mcp!Reuse(s) \/ Mcp!StrangerEnds(s)
    BY <1>1, <2>10 DEF Mcp!Exit, Mcp!Reuse, Mcp!StrangerEnds, OnlyRow, ServerRow, Recorded
  <2>11. CASE Mcp!Recover(s)
    <3>1. CASE server[s].record = "NONE" \/ Mcp!HasSupervisor(s)
      BY <1>1, <2>11, <3>1 DEF Mcp!Recover, Mcp!Skipped, OnlyRow
    <3>2. CASE /\ ~(server[s].record = "NONE" \/ Mcp!HasSupervisor(s))
               /\ server[s].record = "PART" \/ server[s].tree \notin {"LIVE", "STRANGER"}
      BY <1>1, <2>11, <3>2 DEF Mcp!Recover, Mcp!Removed, Mcp!HasSupervisor, OnlyRow, ServerRow, Recorded
    <3>3. CASE /\ ~(server[s].record = "NONE" \/ Mcp!HasSupervisor(s))
               /\ ~(server[s].record = "PART" \/ server[s].tree \notin {"LIVE", "STRANGER"})
      BY <1>1, <2>11, <3>3 DEF Mcp!Recover, Mcp!Skipped, Mcp!Killed, Mcp!StartMatches, Mcp!HasSupervisor, OnlyRow, ServerRow, Recorded
    <3> QED BY <3>1, <3>2, <3>3
  <2> QED BY <2>1, <2>2, <2>3, <2>4, <2>5, <2>6, <2>7, <2>8, <2>9, <2>10, <2>11 DEF Mcp!Supervises
<1> QED BY <1>2, <1>3, <1>4, OnlyRowKeeps

\* The invariant outlives DaemonDies and StartDaemon.
LEMMA ServersDaemonKeeps == ASSUME ServersInv, mcpMaxFaults \in Nat, Mcp!DaemonDies \/ Mcp!StartDaemon PROVE ServersInv'
<1>1. server \in [Server -> ServerRow] /\ mcpFaults \in 0 .. mcpMaxFaults
  BY DEF ServersInv, Mcp!TypeOK, ServerRow
<1>2. /\ server' \in [Server -> ServerRow] /\ mcpDaemon' \in [up : BOOLEAN, recovers : SUBSET Server] /\ mcpFaults' \in 0 .. mcpMaxFaults
      /\ \A s \in Server : /\ server'[s].supervisor = server[s].supervisor /\ server'[s].tree = server[s].tree
                           /\ server'[s].record = server[s].record /\ server'[s].excuse = server[s].excuse
  <2>1. CASE Mcp!DaemonDies
    <3>1. server' = [s \in Server |-> [server[s] EXCEPT !.parent = FALSE]] /\ mcpDaemon' = [up |-> FALSE, recovers |-> {}]
          /\ mcpFaults' \in 0 .. mcpMaxFaults
      BY <1>1, <2>1 DEF Mcp!DaemonDies, Mcp!Fault
    <3> QED BY <1>1, <3>1 DEF ServerRow
  <2>2. CASE Mcp!StartDaemon
    BY <1>1, <2>2 DEF Mcp!StartDaemon
  <2> QED BY <2>1, <2>2
<1>3. Mcp!TypeOK'
  BY <1>2 DEF Mcp!TypeOK, ServerRow
<1> QED BY <1>2, <1>3 DEF ServersInv, Recorded

\* The invariant of McpServers, for any number of servers.
THEOREM ServersInvariant == ASSUME mcpMaxFaults \in Nat PROVE Mcp!Spec => []ServersInv
<1>1. Mcp!Init => ServersInv
  BY DEF Mcp!Init, Mcp!Fresh, ServersInv, Mcp!TypeOK, Recorded, Mcp!Excuse
<1>2. ServersInv /\ Mcp!Next => ServersInv'
  BY ServerKeeps, ServersDaemonKeeps DEF Mcp!Next
<1>3. ServersInv /\ UNCHANGED Mcp!vars => ServersInv'
  BY DEF Mcp!vars, ServersInv, Mcp!TypeOK, Recorded, Mcp!Excuse
<1> QED BY <1>1, <1>2, <1>3, PTL DEF Mcp!Spec

\* A server that lives without its supervisor is on record, or has its excuse.
THEOREM LiveIsRecorded == ASSUME mcpMaxFaults \in Nat PROVE Mcp!Spec => []Mcp!LiveIsRecorded
<1>1. ServersInv => Mcp!LiveIsRecorded
  BY DEF ServersInv, Recorded, Mcp!LiveIsRecorded
<1> QED BY <1>1, ServersInvariant, PTL

\* No process is ended that is not the recorded one.
THEOREM StrangersLive == ASSUME mcpMaxFaults \in Nat PROVE Mcp!Spec => [][Mcp!StrangersLive]_(Mcp!vars)
<1>1. ServersInv => Mcp!StrangersLive
  BY DEF ServersInv, Mcp!TypeOK, Mcp!StrangersLive, Mcp!Recover, Mcp!StartMatches, Mcp!Removed, Mcp!Killed, Mcp!Skipped
<1> QED BY <1>1, ServersInvariant, PTL

----
(* DataDirectory *)

CONSTANTS Process, dataNobody, Builds, Newest
VARIABLES lock, process, store, backups, dataFaults
Data == INSTANCE DataDirectory WITH Nobody <- dataNobody, faults <- dataFaults

\* Two processes at most: of three, a second may remove the lock that the first has made.
AtMostTwo == \A p, q, r \in Process : p = q \/ q = r \/ p = r
DataConstants == dataNobody \notin Process /\ Builds \subseteq 1 .. Newest /\ Newest \in Nat /\ MaxFaults \in Nat /\ AtMostTwo

ProcessRow == [at : {"OFF", "LOCKING", "WRITING", "READING", "RECLAIMING", "HELD", "CHECKED",
                     "MIGRATING", "SERVING", "RELEASING", "UNLINKING"},
               role : {"DAEMON", "LOGS"}, build : 0 .. Newest, tries : 0 .. 2, fresh : BOOLEAN]

\* A process that made the lock and has not given it up.
Owning(p) == process[p].at \in {"WRITING", "HELD", "CHECKED", "MIGRATING", "SERVING", "RELEASING", "UNLINKING"}

LockInv ==
    /\ \A p \in Process : Owning(p) => lock = [by |-> p, whole |-> process[p].at # "WRITING"]
    /\ \A p \in Process : process[p].at = "RECLAIMING" =>
          lock.by \in Process \ {p} /\ ~Owning(lock.by)

\* What a process that opens the store may rely on.
StoreInv ==
    /\ store.written <= store.schema /\ (~store.exists => store.schema = 0)
    /\ \A p \in Process :
          /\ process[p].at \in {"CHECKED", "MIGRATING", "SERVING"} => store.exists
          /\ process[p].at \in {"CHECKED", "SERVING"} => store.schema <= process[p].build
          /\ process[p].at = "MIGRATING" =>
                /\ store.schema < process[p].build
                /\ store.written = store.schema /\ store.written > 0 => store.schema \in backups
          /\ process[p].at \in {"CHECKED", "MIGRATING"} /\ process[p].fresh => store.written = 0

DataInv == Data!TypeOK /\ LockInv /\ StoreInv /\ Data!BackedUp

----
\* The types of what a step finds.
LEMMA DataTypes ==
    ASSUME DataConstants, DataInv
    PROVE  /\ process \in [Process -> ProcessRow] /\ \A p \in Process : process[p] \in ProcessRow
           /\ lock \in [by : Process \cup {dataNobody}, whole : BOOLEAN]
           /\ store \in [schema : 0 .. Newest, written : 0 .. Newest, exists : BOOLEAN]
           /\ store.schema \in Nat /\ store.written \in Nat /\ store.schema <= Newest
           /\ backups \subseteq 0 .. Newest /\ dataFaults \in 0 .. MaxFaults
           /\ dataNobody \notin Process /\ Newest \in Nat
  BY DEF DataConstants, DataInv, Data!TypeOK, ProcessRow

\* Of two, one owns the lock.
LEMMA OneOwner == ASSUME DataInv, NEW p \in Process, NEW q \in Process, Owning(p), Owning(q) PROVE p = q
  BY DEF DataInv, LockInv

\* A process that takes another row.
LEMMA RowSet ==
    ASSUME NEW f \in [Process -> ProcessRow], NEW p \in Process, NEW aRow \in ProcessRow, NEW g, g = [f EXCEPT ![p] = aRow]
    PROVE  g \in [Process -> ProcessRow] /\ g[p] = aRow /\ \A q \in Process : q # p => g[q] = f[q]
  OBVIOUS

\* What a step of one process has to keep, when it changes no store.
LEMMA LockStepKeeps ==
    ASSUME DataConstants, DataInv, NEW p \in Process, NEW aRow \in ProcessRow, process' = [process EXCEPT ![p] = aRow],
           UNCHANGED <<store, backups>>, dataFaults' \in 0 .. MaxFaults,
           lock' \in [by : Process \cup {dataNobody}, whole : BOOLEAN],
           aRow.at \in {"OFF", "LOCKING", "WRITING", "READING", "RECLAIMING", "HELD", "RELEASING", "UNLINKING"},
           LockInv'
    PROVE  DataInv'
<1>1. process' \in [Process -> ProcessRow] /\ process'[p] = aRow /\ \A q \in Process : q # p => process'[q] = process[q]
  BY DataTypes, RowSet
<1>2. Data!TypeOK'
  BY <1>1, DataTypes DEF Data!TypeOK, ProcessRow
<1>3. StoreInv'
  BY <1>1 DEF DataInv, StoreInv
<1>4. Data!BackedUp'
  BY DEF DataInv, Data!BackedUp
<1> QED BY <1>2, <1>3, <1>4 DEF DataInv

\* A row with another place, and one that tries again.
LEMMA RowsOfProcesses ==
    ASSUME DataConstants, DataInv, NEW p \in Process
    PROVE  /\ \A at \in {"OFF", "LOCKING", "WRITING", "READING", "RECLAIMING", "HELD", "CHECKED", "MIGRATING", "SERVING",
                         "RELEASING", "UNLINKING"} :
                 \E aRow \in ProcessRow : /\ aRow = [process[p] EXCEPT !.at = at]
                                          /\ aRow.at = at /\ aRow.build = process[p].build /\ aRow.fresh = process[p].fresh
           /\ Data!Off \in ProcessRow /\ Data!Off.at = "OFF"
<1>1. process[p] \in ProcessRow
  BY DataTypes
<1>2. Data!Off \in ProcessRow /\ Data!Off.at = "OFF"
  BY DEF DataConstants, Data!Off, ProcessRow
<1>3. ASSUME NEW at \in {"OFF", "LOCKING", "WRITING", "READING", "RECLAIMING", "HELD", "CHECKED", "MIGRATING", "SERVING",
                         "RELEASING", "UNLINKING"}
      PROVE  \E aRow \in ProcessRow : /\ aRow = [process[p] EXCEPT !.at = at]
                                      /\ aRow.at = at /\ aRow.build = process[p].build /\ aRow.fresh = process[p].fresh
  <2> DEFINE aRow == [process[p] EXCEPT !.at = at]
  <2>1. aRow \in ProcessRow /\ aRow.at = at /\ aRow.build = process[p].build /\ aRow.fresh = process[p].fresh
    BY <1>1 DEF ProcessRow
  <2> HIDE DEF aRow
  <2> QED BY <2>1 DEF aRow
<1> QED BY <1>2, <1>3

\* Where a process goes, it keeps the rest of its row.
LEMMA GoesRow ==
    ASSUME DataConstants, DataInv, NEW p \in Process,
           NEW at \in {"OFF", "LOCKING", "WRITING", "READING", "RECLAIMING", "HELD", "CHECKED", "MIGRATING", "SERVING",
                         "RELEASING", "UNLINKING"},
           Data!Goes(p, at)
    PROVE  \E aRow \in ProcessRow : /\ process' = [process EXCEPT ![p] = aRow]
                                    /\ aRow.at = at /\ aRow.build = process[p].build /\ aRow.fresh = process[p].fresh
<1>1. PICK aRow \in ProcessRow : /\ aRow = [process[p] EXCEPT !.at = at]
                                 /\ aRow.at = at /\ aRow.build = process[p].build /\ aRow.fresh = process[p].fresh
  BY RowsOfProcesses
<1>2. process' = [process EXCEPT ![p] = [process[p] EXCEPT !.at = at]]
  BY DEF Data!Goes
<1>3. process' = [process EXCEPT ![p] = aRow]
  BY <1>1, <1>2
<1> QED BY <1>1, <1>3

\* A process that tries again, or gives up, makes no lock.
LEMMA AgainRow ==
    ASSUME DataConstants, DataInv, NEW p \in Process, Data!Again(p)
    PROVE  \E aRow \in ProcessRow : process' = [process EXCEPT ![p] = aRow] /\ aRow.at \in {"OFF", "LOCKING"}
<1>1. process[p] \in ProcessRow
  BY DataTypes
<1>2. CASE process[p].tries = 2
  BY <1>2, RowsOfProcesses DEF Data!Again, Data!Ends
<1>3. CASE process[p].tries # 2
  <2> DEFINE aRow == [process[p] EXCEPT !.at = "LOCKING", !.tries = @ + 1]
  <2>1. process[p].tries + 1 \in 0 .. 2
    BY <1>1, <1>3 DEF ProcessRow
  <2>2. aRow = [process[p] EXCEPT !.at = "LOCKING", !.tries = process[p].tries + 1]
    OBVIOUS
  <2>3. aRow \in ProcessRow /\ aRow.at = "LOCKING"
    BY <1>1, <2>1, <2>2 DEF ProcessRow
  <2>4. process' = [process EXCEPT ![p] = aRow]
    BY <1>3 DEF Data!Again
  <2> HIDE DEF aRow
  <2> QED BY <2>3, <2>4
<1> QED BY <1>2, <1>3

----
\* A process that neither has the lock nor is about to remove one.
LEMMA AsideKeeps ==
    ASSUME DataConstants, DataInv, NEW p \in Process, NEW aRow \in ProcessRow, process' = [process EXCEPT ![p] = aRow],
           aRow.at \in {"OFF", "LOCKING", "READING"}, UNCHANGED <<lock, store, backups>>, dataFaults' \in 0 .. MaxFaults
    PROVE  DataInv'
<1>1. process'[p] = aRow /\ \A q \in Process : q # p => process'[q] = process[q]
  BY DataTypes, RowSet
<1>2. LockInv'
  BY <1>1 DEF DataInv, LockInv, Owning
<1> QED BY <1>2, DataTypes, LockStepKeeps

\* The owner of the lock, whose record is written, goes on.
LEMMA DataOwnerKeeps ==
    ASSUME DataConstants, DataInv, NEW p \in Process, NEW aRow \in ProcessRow, process' = [process EXCEPT ![p] = aRow],
           Owning(p), process[p].at # "WRITING",
           aRow.at \in {"HELD", "CHECKED", "MIGRATING", "SERVING", "RELEASING", "UNLINKING"}, UNCHANGED lock
    PROVE  LockInv'
<1>1. process'[p] = aRow /\ \A q \in Process : q # p => process'[q] = process[q]
  BY DataTypes, RowSet
<1> QED BY <1>1 DEF DataInv, LockInv, Owning

\* The owner removes the lock, and it is nobody's.
LEMMA UnlinkKeeps ==
    ASSUME DataConstants, DataInv, NEW p \in Process, NEW aRow \in ProcessRow, process' = [process EXCEPT ![p] = aRow],
           Owning(p) \/ process[p].at = "RECLAIMING", aRow.at \in {"OFF", "LOCKING"}, lock' = Data!NoLock,
           UNCHANGED <<store, backups, dataFaults>>
    PROVE  DataInv'
<1>1. process'[p] = aRow /\ \A q \in Process : q # p => process'[q] = process[q]
  BY DataTypes, RowSet
<1>2. LockInv'
  <2>1. ASSUME NEW q \in Process, q # p PROVE ~Owning(q) /\ process[q].at # "RECLAIMING"
    <3>1. CASE Owning(p)
      BY <2>1, <3>1, DataTypes DEF DataInv, LockInv
    <3>2. CASE process[p].at = "RECLAIMING"
      <4>1. lock.by \in Process \ {p} /\ ~Owning(lock.by)
        BY <3>2 DEF DataInv, LockInv
      <4>2. lock.by = q
        BY <2>1, <4>1 DEF DataConstants, AtMostTwo
      <4> QED BY <4>1, <4>2 DEF DataInv, LockInv
    <3> QED BY <3>1, <3>2
  <2> QED BY <1>1, <2>1 DEF LockInv, Owning
<1>3. lock' \in [by : Process \cup {dataNobody}, whole : BOOLEAN]
  BY DEF Data!NoLock
<1> QED BY <1>2, <1>3, DataTypes, LockStepKeeps

\* The invariant outlives Locks.
LEMMA LocksKeep == ASSUME DataConstants, DataInv, NEW p \in Process, Data!Locks(p) PROVE DataInv'
<1>1. CASE Data!Start(p)
  <2>1. PICK role \in {"DAEMON", "LOGS"}, build \in Builds :
           process' = [process EXCEPT ![p] = [Data!Off EXCEPT !.at = "LOCKING", !.role = role, !.build = build]]
    BY <1>1 DEF Data!Start
  <2> DEFINE aRow == [Data!Off EXCEPT !.at = "LOCKING", !.role = role, !.build = build]
  <2>2. build \in 0 .. Newest /\ Data!Off \in ProcessRow
    BY RowsOfProcesses DEF DataConstants
  <2>3. process' = [process EXCEPT ![p] = aRow]
    BY <2>1
  <2>4. UNCHANGED <<lock, store, backups, dataFaults>>
    BY <1>1 DEF Data!Start
  <2>5. aRow \in ProcessRow /\ aRow.at = "LOCKING"
    BY <2>2 DEF ProcessRow
  <2> HIDE DEF aRow
  <2> QED BY <2>3, <2>4, <2>5, DataTypes, AsideKeeps
<1>2. CASE Data!CreateLock(p)
  <2>1. UNCHANGED <<store, backups, dataFaults>>
    BY <1>2 DEF Data!CreateLock
  <2>2. CASE lock.by = dataNobody
    <3>1. lock' = [by |-> p, whole |-> FALSE] /\ Data!Goes(p, "WRITING")
      BY <1>2, <2>2 DEF Data!CreateLock
    <3>2. PICK aRow \in ProcessRow : process' = [process EXCEPT ![p] = aRow] /\ aRow.at = "WRITING"
      BY <3>1, GoesRow
    <3>3. process'[p] = aRow /\ \A q \in Process : q # p => process'[q] = process[q]
      BY <3>2, DataTypes, RowSet
    <3>4. LockInv'
      <4>1. \A q \in Process : ~Owning(q) /\ process[q].at # "RECLAIMING"
        BY <2>2, DataTypes DEF DataInv, LockInv
      <4>2. \A q \in Process : q # p => ~Owning(q)' /\ process'[q].at # "RECLAIMING"
        BY <3>3, <4>1 DEF Owning
      <4> QED BY <3>1, <3>2, <3>3, <4>2 DEF LockInv
    <3>5. lock' \in [by : Process \cup {dataNobody}, whole : BOOLEAN]
      BY <3>1
    <3> QED BY <2>1, <3>2, <3>4, <3>5, DataTypes, LockStepKeeps
  <2>3. CASE lock.by # dataNobody
    <3>1. UNCHANGED lock /\ Data!Goes(p, "READING")
      BY <1>2, <2>3 DEF Data!CreateLock
    <3>2. PICK aRow \in ProcessRow : process' = [process EXCEPT ![p] = aRow] /\ aRow.at = "READING"
      BY <3>1, GoesRow
    <3> QED BY <2>1, <3>1, <3>2, DataTypes, AsideKeeps
  <2> QED BY <2>2, <2>3
<1>3. CASE Data!WriteLock(p)
  <2>1. UNCHANGED <<store, backups, dataFaults>> /\ process[p].at = "WRITING" /\ Owning(p)
    BY <1>3 DEF Data!WriteLock, Owning
  <2>2. lock = [by |-> p, whole |-> FALSE]
    BY <2>1 DEF DataInv, LockInv
  <2>3. CASE lock' = [lock EXCEPT !.whole = (lock.by = p) \/ @] /\ Data!Goes(p, "HELD")
    <3>1. PICK aRow \in ProcessRow : process' = [process EXCEPT ![p] = aRow] /\ aRow.at = "HELD"
      BY <2>3, GoesRow
    <3>2. lock'.by = p /\ lock'.whole = TRUE /\ lock' = [by |-> lock'.by, whole |-> lock'.whole]
      BY <2>2, <2>3
    <3>3. process'[p] = aRow /\ \A q \in Process : q # p => process'[q] = process[q]
      BY <3>1, DataTypes, RowSet
    <3>4. \A q \in Process : q # p => ~Owning(q) /\ process[q].at # "RECLAIMING"
      BY <2>1, <2>2, OneOwner DEF DataInv, LockInv
    <3>5. LockInv'
      BY <3>1, <3>2, <3>3, <3>4 DEF LockInv, Owning
    <3>6. lock' \in [by : Process \cup {dataNobody}, whole : BOOLEAN]
      BY <3>2
    <3> QED BY <2>1, <3>1, <3>5, <3>6, DataTypes, LockStepKeeps
  <2>4. CASE lock' = Data!NoLock /\ Data!Ends(p)
    BY <2>1, <2>4, RowsOfProcesses, UnlinkKeeps DEF Data!Ends
  <2> QED BY <1>3, <2>3, <2>4 DEF Data!WriteLock
<1>4. CASE Data!ReadLock(p)
  <2>1. UNCHANGED <<lock, store, backups, dataFaults>> /\ process[p].at = "READING"
    BY <1>4 DEF Data!ReadLock
  <2>2. CASE Data!Again(p) \/ Data!Ends(p)
    <3>1. PICK aRow \in ProcessRow : process' = [process EXCEPT ![p] = aRow] /\ aRow.at \in {"OFF", "LOCKING"}
      BY <2>2, AgainRow, RowsOfProcesses DEF Data!Ends
    <3> QED BY <2>1, <3>1, DataTypes, AsideKeeps
  <2>3. CASE lock.by # dataNobody /\ Data!Reclaimable /\ Data!Goes(p, "RECLAIMING")
    <3>1. PICK aRow \in ProcessRow : process' = [process EXCEPT ![p] = aRow] /\ aRow.at = "RECLAIMING"
      BY <2>3, GoesRow
    <3>2. process'[p] = aRow /\ \A q \in Process : q # p => process'[q] = process[q]
      BY <3>1, DataTypes, RowSet
    <3>3. lock.by \in Process /\ process[lock.by].at = "OFF" /\ lock.by # p
      BY <2>1, <2>3, DataTypes DEF Data!Reclaimable, Data!Alive
    <3>4. LockInv'
      BY <2>1, <3>1, <3>2, <3>3 DEF DataInv, LockInv, Owning
    <3> QED BY <2>1, <3>1, <3>4, DataTypes, LockStepKeeps
  <2> QED BY <1>4, <2>2, <2>3 DEF Data!ReadLock
<1>5. CASE Data!Reclaim(p)
  <2>1. UNCHANGED <<store, backups, dataFaults>> /\ process[p].at = "RECLAIMING" /\ lock' = Data!NoLock /\ Data!Again(p)
    BY <1>5 DEF Data!Reclaim
  <2>2. PICK aRow \in ProcessRow : process' = [process EXCEPT ![p] = aRow] /\ aRow.at \in {"OFF", "LOCKING"}
    BY <2>1, AgainRow
  <2> QED BY <2>1, <2>2, UnlinkKeeps
<1>6. CASE Data!Release(p)
  <2>1. UNCHANGED <<lock, store, backups, dataFaults>> /\ process[p].at = "RELEASING" /\ Owning(p)
    BY <1>6 DEF Data!Release, Owning
  <2>2. lock = [by |-> p, whole |-> TRUE]
    BY <2>1 DEF DataInv, LockInv
  <2>3. PICK aRow \in ProcessRow : process' = [process EXCEPT ![p] = aRow] /\ aRow.at = "UNLINKING"
    BY <1>6, <2>2, GoesRow DEF Data!Release
  <2>4. LockInv'
    BY <2>1, <2>3, DataOwnerKeeps
  <2> QED BY <2>1, <2>3, <2>4, DataTypes, LockStepKeeps
<1>7. CASE Data!Unlink(p)
  <2>1. UNCHANGED <<store, backups, dataFaults>> /\ Owning(p) /\ lock' = Data!NoLock /\ Data!Ends(p)
    BY <1>7 DEF Data!Unlink, Owning
  <2> QED BY <2>1, RowsOfProcesses, UnlinkKeeps DEF Data!Ends
<1> QED BY <1>1, <1>2, <1>3, <1>4, <1>5, <1>6, <1>7 DEF Data!Locks

\* The invariant outlives Close.
LEMMA CloseKeeps == ASSUME DataConstants, DataInv, NEW p \in Process, Data!Close(p) PROVE DataInv'
<1>1. UNCHANGED <<lock, store, backups, dataFaults>> /\ process[p].at # "WRITING" /\ Owning(p) /\ Data!Goes(p, "RELEASING")
  BY DEF Data!Close, Owning
<1>2. PICK aRow \in ProcessRow : process' = [process EXCEPT ![p] = aRow] /\ aRow.at = "RELEASING"
  BY <1>1, GoesRow
<1> QED BY <1>1, <1>2, DataOwnerKeeps, DataTypes, LockStepKeeps

\* The invariant outlives Die.
LEMMA DieKeeps == ASSUME DataConstants, DataInv, NEW p \in Process, Data!Die(p) PROVE DataInv'
<1>1. UNCHANGED <<lock, store, backups>> /\ dataFaults' = dataFaults + 1 /\ dataFaults < MaxFaults /\ Data!Ends(p)
  BY DEF Data!Die
<1>2. dataFaults' \in 0 .. MaxFaults
  BY <1>1, DataTypes DEF DataConstants
<1> QED BY <1>1, <1>2, RowsOfProcesses, AsideKeeps DEF Data!Ends

----
\* The one process that has the store changes it, or goes on with it as it is.
LEMMA StoreStepKeeps ==
    ASSUME DataConstants, DataInv, NEW p \in Process, NEW aRow \in ProcessRow, process' = [process EXCEPT ![p] = aRow],
           Owning(p), process[p].at # "WRITING",
           aRow.at \in {"HELD", "CHECKED", "MIGRATING", "SERVING", "RELEASING", "UNLINKING"}, UNCHANGED <<lock, dataFaults>>,
           store' \in [schema : 0 .. Newest, written : 0 .. Newest, exists : BOOLEAN],
           backups' \subseteq 0 .. Newest, backups \subseteq backups',
           store'.written <= store'.schema, ~store'.exists => store'.schema = 0,
           aRow.at \in {"CHECKED", "MIGRATING", "SERVING"} => store'.exists,
           aRow.at \in {"CHECKED", "SERVING"} => store'.schema <= aRow.build,
           aRow.at = "MIGRATING" =>
                /\ store'.schema < aRow.build
                /\ store'.written = store'.schema /\ store'.written > 0 => store'.schema \in backups',
           aRow.at \in {"CHECKED", "MIGRATING"} /\ aRow.fresh => store'.written = 0,
           Data!BackedUp'
    PROVE  DataInv'
<1>1. process' \in [Process -> ProcessRow] /\ process'[p] = aRow /\ \A q \in Process : q # p => process'[q] = process[q]
  BY DataTypes, RowSet
<1>2. Data!TypeOK'
  BY <1>1, DataTypes DEF Data!TypeOK, ProcessRow
<1>3. LockInv'
  BY DataOwnerKeeps
<1>4. StoreInv'
  <2>1. \A q \in Process : q # p => process'[q].at \notin {"CHECKED", "SERVING", "MIGRATING"}
    BY <1>1, OneOwner DEF Owning
  <2>2. ASSUME NEW q \in Process
        PROVE  /\ process'[q].at \in {"CHECKED", "MIGRATING", "SERVING"} => store'.exists
               /\ process'[q].at \in {"CHECKED", "SERVING"} => store'.schema <= process'[q].build
               /\ process'[q].at = "MIGRATING" =>
                     /\ store'.schema < process'[q].build
                     /\ store'.written = store'.schema /\ store'.written > 0 => store'.schema \in backups'
               /\ process'[q].at \in {"CHECKED", "MIGRATING"} /\ process'[q].fresh => store'.written = 0
    BY <1>1, <2>1
  <2> QED BY <2>2 DEF StoreInv
<1> QED BY <1>2, <1>3, <1>4 DEF DataInv

\* The invariant outlives Inspect.
LEMMA DataInspectKeeps == ASSUME DataConstants, DataInv, NEW p \in Process, Data!Inspect(p) PROVE DataInv'
<1> DEFINE at == IF store.schema > process[p].build THEN "RELEASING" ELSE "CHECKED"
           aRow == [process[p] EXCEPT !.fresh = ~store.exists, !.at = at]
<1>1. process[p].at = "HELD" /\ UNCHANGED <<lock, backups, dataFaults>> /\ store' = [store EXCEPT !.exists = TRUE]
      /\ process' = [process EXCEPT ![p] = aRow]
  BY DEF Data!Inspect
<1>2. process[p] \in ProcessRow /\ store.exists \in BOOLEAN
  BY DataTypes
<1>3. aRow \in ProcessRow /\ aRow.at = at /\ aRow.build = process[p].build /\ (aRow.fresh <=> ~store.exists)
  BY <1>2 DEF ProcessRow
<1> HIDE DEF aRow
<1>4. store' \in [schema : 0 .. Newest, written : 0 .. Newest, exists : BOOLEAN] /\ store'.exists
      /\ store'.schema = store.schema /\ store'.written = store.written
  BY <1>1, DataTypes
<1>5. process[p].build \in Nat
  BY <1>2 DEF ProcessRow
<1>6. Data!BackedUp'
  BY <1>1, <1>4 DEF DataInv, Data!BackedUp
<1>7. at = "CHECKED" => store.schema <= process[p].build
  BY <1>5, DataTypes
<1>8. store.written <= store.schema /\ (~store.exists => store.schema = 0 /\ store.written = 0)
  BY DataTypes DEF DataInv, StoreInv
<1>9. Owning(p) /\ at \in {"RELEASING", "CHECKED"}
  BY <1>1 DEF Owning
<1> HIDE DEF at
<1> QED BY <1>1, <1>3, <1>4, <1>6, <1>7, <1>8, <1>9, DataTypes, StoreStepKeeps

\* The invariant outlives Backup.
LEMMA BackupKeeps == ASSUME DataConstants, DataInv, NEW p \in Process, Data!Backup(p) PROVE DataInv'
<1>1. process[p].at = "CHECKED" /\ UNCHANGED <<lock, store, dataFaults>>
      /\ backups' = (IF Data!NeedsBackup(p) THEN backups \cup {store.schema} ELSE backups)
  BY DEF Data!Backup
<1>2. store.schema <= process[p].build /\ (process[p].fresh => store.written = 0) /\ Owning(p)
  BY <1>1 DEF DataInv, StoreInv, Owning
<1>3. PICK aRow \in ProcessRow : /\ process' = [process EXCEPT ![p] = aRow] /\ aRow.build = process[p].build
                                 /\ aRow.fresh = process[p].fresh
                                 /\ aRow.at = IF Data!HasPending(p) THEN "MIGRATING" ELSE "SERVING"
  <2>1. CASE Data!HasPending(p)
    BY <2>1, GoesRow DEF Data!Backup
  <2>2. CASE ~Data!HasPending(p)
    BY <2>2, GoesRow DEF Data!Backup
  <2> QED BY <2>1, <2>2
<1>4. backups \subseteq backups' /\ backups' \subseteq 0 .. Newest
  BY <1>1, DataTypes
<1>5. aRow.at = "MIGRATING" => /\ store.schema < aRow.build
                               /\ store.written = store.schema /\ store.written > 0 => store.schema \in backups'
  BY <1>1, <1>2, <1>3 DEF Data!HasPending, Data!NeedsBackup
<1>6. Data!BackedUp'
  BY <1>1, <1>4 DEF DataInv, Data!BackedUp
<1>7. store.written <= store.schema /\ store.exists
  BY <1>1 DEF DataInv, StoreInv
<1>8. aRow.at \in {"MIGRATING", "SERVING"} /\ (aRow.fresh => store.written = 0)
  BY <1>2, <1>3
<1>9. store'.schema = store.schema /\ store'.written = store.written /\ store'.exists = store.exists /\ process[p].at # "WRITING"
      /\ store' \in [schema : 0 .. Newest, written : 0 .. Newest, exists : BOOLEAN] /\ store.schema <= aRow.build
  BY <1>1, <1>2, <1>3, DataTypes
<1>10. aRow.at \in {"HELD", "CHECKED", "MIGRATING", "SERVING", "RELEASING", "UNLINKING"} /\ process' = [process EXCEPT ![p] = aRow]
       /\ aRow \in ProcessRow /\ UNCHANGED <<lock, dataFaults>>
  BY <1>1, <1>3, <1>8
<1>11. /\ store'.written <= store'.schema /\ store'.exists
       /\ aRow.at \in {"CHECKED", "SERVING"} => store'.schema <= aRow.build
       /\ aRow.at = "MIGRATING" =>
             /\ store'.schema < aRow.build
             /\ store'.written = store'.schema /\ store'.written > 0 => store'.schema \in backups'
       /\ aRow.at \in {"CHECKED", "MIGRATING"} /\ aRow.fresh => store'.written = 0
  <2>1. store' = store
    BY <1>1
  <2>2. aRow.at = "MIGRATING" =>
             /\ store'.schema < aRow.build
             /\ store'.written = store'.schema /\ store'.written > 0 => store'.schema \in backups'
    BY <1>5, <2>1
  <2>3. store'.written <= store'.schema /\ store'.exists
    BY <1>7, <2>1
  <2>4. aRow.at \in {"CHECKED", "SERVING"} => store'.schema <= aRow.build
    BY <1>9, <2>1
  <2>5. aRow.at \in {"CHECKED", "MIGRATING"} /\ aRow.fresh => store'.written = 0
    BY <1>8, <2>1
  <2> QED BY <2>2, <2>3, <2>4, <2>5
<1>12. (aRow.at \in {"CHECKED", "MIGRATING", "SERVING"} => store'.exists) /\ (~store'.exists => store'.schema = 0)
       /\ (aRow.at \in {"CHECKED", "SERVING"} => store'.schema <= aRow.build) /\ store'.written <= store'.schema
  BY <1>11
<1>13. (aRow.at = "MIGRATING" =>
                /\ store'.schema < aRow.build
                /\ store'.written = store'.schema /\ store'.written > 0 => store'.schema \in backups')
       /\ (aRow.at \in {"CHECKED", "MIGRATING"} /\ aRow.fresh => store'.written = 0)
  BY <1>11
<1>14. /\ p \in Process /\ aRow \in ProcessRow /\ process' = [process EXCEPT ![p] = aRow] /\ Owning(p) /\ process[p].at # "WRITING"
       /\ aRow.at \in {"HELD", "CHECKED", "MIGRATING", "SERVING", "RELEASING", "UNLINKING"} /\ UNCHANGED <<lock, dataFaults>>
       /\ store' \in [schema : 0 .. Newest, written : 0 .. Newest, exists : BOOLEAN]
       /\ backups' \subseteq 0 .. Newest /\ backups \subseteq backups'
       /\ Data!BackedUp'
  BY <1>2, <1>4, <1>6, <1>9, <1>10
<1> QED BY <1>12, <1>13, <1>14, StoreStepKeeps

\* The invariant outlives Migrate.
LEMMA MigrateKeeps == ASSUME DataConstants, DataInv, NEW p \in Process, Data!Migrate(p) PROVE DataInv'
<1>1. process[p].at = "MIGRATING" /\ UNCHANGED <<lock, backups, dataFaults>> /\ Owning(p)
  BY DEF Data!Migrate, Owning
<1>2. store.schema < process[p].build /\ (store.written = store.schema /\ store.written > 0 => store.schema \in backups)
      /\ (process[p].fresh => store.written = 0) /\ store.written <= store.schema /\ store.exists
      /\ Data!BackedUp
  BY <1>1 DEF DataInv, StoreInv
<1>3. process[p].build \in 0 .. Newest
  BY DataTypes DEF ProcessRow
<1>4. CASE store' = [store EXCEPT !.schema = @ + 1]
           /\ Data!Goes(p, IF store.schema + 1 = process[p].build THEN "SERVING" ELSE "MIGRATING")
  <2>1. PICK aRow \in ProcessRow : /\ process' = [process EXCEPT ![p] = aRow] /\ aRow.build = process[p].build
                                   /\ aRow.fresh = process[p].fresh
                                   /\ aRow.at = IF store.schema + 1 = process[p].build THEN "SERVING" ELSE "MIGRATING"
    <3>1. CASE store.schema + 1 = process[p].build
      BY <1>4, <3>1, GoesRow
    <3>2. CASE store.schema + 1 # process[p].build
      BY <1>4, <3>2, GoesRow
    <3> QED BY <3>1, <3>2
  <2>2. store' \in [schema : 0 .. Newest, written : 0 .. Newest, exists : BOOLEAN]
        /\ store'.schema = store.schema + 1 /\ store'.written = store.written /\ store'.exists = store.exists
    <3>1. store.schema + 1 \in 0 .. Newest
      BY <1>2, <1>3, DataTypes
    <3>2. store' = [store EXCEPT !.schema = store.schema + 1]
      BY <1>4
    <3> QED BY <3>1, <3>2, DataTypes
  <2>3. Data!BackedUp'
    BY <1>1, <1>2, <2>2, DataTypes DEF Data!BackedUp
  <2>4. store'.written <= store'.schema /\ store'.written # store'.schema
    BY <1>2, <2>2, DataTypes
  <2>5. aRow.at \in {"SERVING", "MIGRATING"} /\ (aRow.at = "SERVING" => store'.schema <= aRow.build)
        /\ (aRow.at = "MIGRATING" => store'.schema < aRow.build)
    BY <1>2, <1>3, <2>1, <2>2, DataTypes
  <2>6. store'.exists
    BY <1>2, <2>2
  <2> QED BY <1>1, <1>2, <2>1, <2>2, <2>3, <2>4, <2>5, <2>6, DataTypes, StoreStepKeeps
<1>5. CASE Data!Goes(p, "RELEASING") /\ UNCHANGED store
  <2>1. PICK aRow \in ProcessRow : process' = [process EXCEPT ![p] = aRow] /\ aRow.at = "RELEASING"
    BY <1>5, GoesRow
  <2> QED BY <1>1, <1>5, <2>1, DataOwnerKeeps, DataTypes, LockStepKeeps
<1> QED BY <1>4, <1>5 DEF Data!Migrate

\* The invariant outlives Execute.
LEMMA ExecuteKeeps == ASSUME DataConstants, DataInv, NEW p \in Process, Data!Execute(p) PROVE DataInv'
<1>1. process[p].at = "SERVING" /\ UNCHANGED <<lock, process, backups, dataFaults>> /\ store' = [store EXCEPT !.written = store.schema]
  BY DEF Data!Execute
<1>2. store' \in [schema : 0 .. Newest, written : 0 .. Newest, exists : BOOLEAN]
      /\ store'.schema = store.schema /\ store'.written = store.schema /\ store'.exists = store.exists
  BY <1>1, DataTypes
<1>3. \A q \in Process : process[q].at \notin {"CHECKED", "MIGRATING"}
  BY <1>1, OneOwner DEF Owning
<1>4. StoreInv'
  BY <1>1, <1>2, <1>3, DataTypes DEF DataInv, StoreInv
<1>5. Data!TypeOK' /\ LockInv' /\ Data!BackedUp'
  BY <1>1, <1>2, DataTypes DEF DataInv, Data!TypeOK, LockInv, Owning, Data!BackedUp
<1> QED BY <1>4, <1>5 DEF DataInv

\* No step breaks the invariant.
LEMMA DataStep == ASSUME DataConstants, DataInv, [Data!Next]_(Data!vars) PROVE DataInv'
<1>1. CASE UNCHANGED Data!vars
  BY <1>1 DEF DataInv, Data!TypeOK, LockInv, StoreInv, Owning, Data!BackedUp, Data!vars
<1>2. CASE Data!Next
  <2>1. PICK p \in Process : Data!Locks(p) \/ Data!Opens(p) \/ Data!Execute(p) \/ Data!Close(p) \/ Data!Die(p)
    BY <1>2 DEF Data!Next
  <2>2. CASE Data!Locks(p)
    BY <2>2, LocksKeep
  <2>3. CASE Data!Opens(p)
    BY <2>3, DataInspectKeeps, BackupKeeps, MigrateKeeps DEF Data!Opens
  <2>4. CASE Data!Execute(p)
    BY <2>4, ExecuteKeeps
  <2>5. CASE Data!Close(p)
    BY <2>5, CloseKeeps
  <2>6. CASE Data!Die(p)
    BY <2>6, DieKeeps
  <2> QED BY <2>1, <2>2, <2>3, <2>4, <2>5, <2>6
<1> QED BY <1>1, <1>2

\* The invariant holds of an empty directory.
LEMMA DataStart == ASSUME DataConstants, Data!Init PROVE DataInv
<1>1. process = [p \in Process |-> Data!Off] /\ lock = Data!NoLock /\ backups = {} /\ dataFaults = 0
      /\ store = [schema |-> 0, written |-> 0, exists |-> FALSE]
  BY DEF Data!Init
<1>2. Data!Off \in ProcessRow /\ Data!Off.at = "OFF"
  BY DEF Data!Off, ProcessRow, DataConstants
<1>3. Data!NoLock \in [by : Process \cup {dataNobody}, whole : BOOLEAN]
  BY DEF Data!NoLock
<1>4. Data!TypeOK
  BY <1>1, <1>2, <1>3 DEF Data!TypeOK, DataConstants, ProcessRow
<1>5. \A p \in Process : process[p].at = "OFF"
  BY <1>1, <1>2
<1>6. LockInv /\ StoreInv /\ Data!BackedUp
  BY <1>1, <1>5 DEF LockInv, StoreInv, Owning, Data!BackedUp
<1> QED BY <1>4, <1>6 DEF DataInv

\* The invariant of DataDirectory, for two processes of any builds.
THEOREM DataInvariant == ASSUME DataConstants PROVE Data!Spec => []DataInv
<1>1. Data!Init => DataInv
  BY DataStart
<1>2. DataInv /\ [Data!Next]_(Data!vars) => DataInv'
  BY DataStep
<1> QED BY <1>1, <1>2, PTL DEF Data!Spec

\* One process has the directory, it knows the schema that it serves, and what was written under an older one is in a backup.
THEOREM DirectoryIsSafe == ASSUME DataConstants PROVE Data!Spec => [](Data!OneHolder /\ Data!SchemaIsKnown /\ Data!BackedUp)
<1>1. DataInv => Data!OneHolder
  BY OneOwner DEF Data!OneHolder, Data!Holding, Owning
<1>2. DataInv => Data!SchemaIsKnown /\ Data!BackedUp
  BY DEF DataInv, StoreInv, Data!SchemaIsKnown
<1> QED BY <1>1, <1>2, DataInvariant, PTL

----
(* McpProfiles *)

CONSTANTS Tab, Tool, MaxRevisions, MaxVersion, MaxProbes
VARIABLES version, revision, capability, profGrant, probe, probes, bundle, tab, proposal
Prof == INSTANCE McpProfiles WITH grant <- profGrant

ProfileBounds == MaxRevisions \in Nat /\ MaxVersion \in Nat /\ MaxProbes \in Nat

Revision == [profile : 1 .. MaxRevisions, recipe : Prof!Recipe]
Capability == [tools : SUBSET Tool, ran : 0 .. MaxRevisions]
Grant == [status : {"NONE", "ENABLED", "REVOKED"}, version : Nat, tools : SUBSET Tool]
Shows == [version : 0 .. MaxVersion, of : 0 .. MaxRevisions, granted : Nat, offered : SUBSET Tool]
Challenge == [status : {"OPEN"}, version : 0 .. MaxVersion, profile : 0 .. MaxRevisions, recipe : Prof!Recipe]

ProfileTypes ==
    /\ version \in 0 .. MaxVersion
    /\ revision \in Seq(Revision) /\ capability \in Seq(Capability) /\ profGrant \in Seq(Grant)
    /\ Len(revision) <= MaxRevisions /\ Len(capability) = Len(revision) /\ Len(profGrant) = Len(revision)
    /\ probe \in 0 .. Len(revision) /\ probes \in 0 .. MaxProbes /\ bundle \in 1 .. 2
    /\ tab \in [Tab -> Shows] /\ proposal \in [Tab -> {Prof!NoProposal} \cup Challenge]

\* A revision is of a profile that was there.
ProfilesAreThere == \A r \in 1 .. Len(revision) : revision[r].profile <= Len(revision)

\* What a tab shows was the latest at the version it shows.
TabFits(t) ==
    /\ tab[t].version <= version /\ tab[t].of <= Len(revision)
    /\ tab[t].version = version /\ tab[t].of # 0 => Prof!Latest(tab[t].of)

\* A new profile of the preset was proposed while there was none.
ProposalFits(t) ==
    proposal[t] # Prof!NoProposal =>
        /\ proposal[t].version <= version /\ proposal[t].profile <= Len(revision)
        /\ proposal[t].version = version /\ proposal[t].profile = 0 /\ proposal[t].recipe.name = "Context7" => Prof!Configured = {}

ProfileInv ==
    /\ ProfileTypes /\ ProfilesAreThere /\ Prof!CapabilityIsOfItsRevision
    /\ \A t \in Tab : TabFits(t) /\ ProposalFits(t)

----
\* The types of what a step finds.
LEMMA ProfileFacts ==
    ASSUME ProfileBounds, ProfileInv
    PROVE  /\ Len(revision) \in Nat /\ version \in Nat /\ Len(revision) \in 0 .. MaxRevisions
           /\ DOMAIN revision = 1 .. Len(revision) /\ DOMAIN capability = 1 .. Len(revision) /\ DOMAIN profGrant = 1 .. Len(revision)
           /\ \A r \in 1 .. Len(revision) : /\ revision[r] \in Revision /\ capability[r] \in Capability /\ profGrant[r] \in Grant
                                            /\ revision[r].profile \in 1 .. Len(revision)
           /\ \A t \in Tab : /\ tab[t] \in Shows /\ tab[t].version \in Nat /\ tab[t].of \in 0 .. Len(revision)
                             /\ proposal[t] \in {Prof!NoProposal} \cup Challenge
<1>1. ProfileTypes /\ ProfilesAreThere /\ \A t \in Tab : TabFits(t)
  BY DEF ProfileInv
<1>2. /\ revision \in Seq(Revision) /\ capability \in Seq(Capability) /\ profGrant \in Seq(Grant)
      /\ Len(revision) <= MaxRevisions /\ Len(capability) = Len(revision) /\ Len(profGrant) = Len(revision)
      /\ version \in 0 .. MaxVersion /\ tab \in [Tab -> Shows] /\ proposal \in [Tab -> {Prof!NoProposal} \cup Challenge]
  BY <1>1 DEF ProfileTypes
<1>3. /\ Len(revision) \in Nat
      /\ DOMAIN revision = 1 .. Len(revision) /\ DOMAIN capability = 1 .. Len(revision) /\ DOMAIN profGrant = 1 .. Len(revision)
  BY <1>2, LenProperties
<1>4. \A r \in 1 .. Len(revision) : revision[r] \in Revision /\ capability[r] \in Capability /\ profGrant[r] \in Grant
  BY <1>2, ElementOfSeq
<1>5. \A r \in 1 .. Len(revision) : revision[r].profile \in 1 .. Len(revision)
  <2>1. TAKE r \in 1 .. Len(revision)
  <2>2. revision[r].profile \in 1 .. MaxRevisions /\ revision[r].profile <= Len(revision)
    BY <1>1, <1>4 DEF Revision, ProfilesAreThere
  <2> QED BY <1>3, <2>2 DEF ProfileBounds
<1>6. \A t \in Tab : tab[t] \in Shows /\ tab[t].version \in Nat /\ tab[t].of \in 0 .. Len(revision)
  <2>1. TAKE t \in Tab
  <2>2. tab[t] \in Shows
    BY <1>2
  <2>3. tab[t].version \in 0 .. MaxVersion /\ tab[t].of \in 0 .. MaxRevisions /\ tab[t].of <= Len(revision)
    BY <1>1, <2>2 DEF Shows, TabFits
  <2> QED BY <1>3, <2>2, <2>3 DEF ProfileBounds
<1>7. version \in Nat /\ Len(revision) \in 0 .. MaxRevisions
  BY <1>2, <1>3 DEF ProfileBounds
<1> QED BY <1>2, <1>3, <1>4, <1>5, <1>6, <1>7

\* Where the revisions stay, what is said of tabs and proposals rests on the versions alone.
LEMMA SameRevisions ==
    ASSUME ProfileBounds, ProfileInv, revision' = revision, version' \in 0 .. MaxVersion, version <= version',
           capability' \in Seq(Capability), Len(capability') = Len(revision), profGrant' \in Seq(Grant), Len(profGrant') = Len(revision),
           probe' \in 0 .. Len(revision), probes' \in 0 .. MaxProbes, bundle' \in 1 .. 2,
           tab' \in [Tab -> Shows], proposal' \in [Tab -> {Prof!NoProposal} \cup Challenge],
           Prof!CapabilityIsOfItsRevision',
           \A t \in Tab : TabFits(t)' \/ tab'[t] = tab[t],
           \A t \in Tab : ProposalFits(t)' \/ proposal'[t] = proposal[t] \/ proposal'[t] = Prof!NoProposal
    PROVE  ProfileInv'
<1>1. ProfileTypes' /\ ProfilesAreThere'
  BY DEF ProfileInv, ProfileTypes, ProfilesAreThere
<1>2. \A r : Prof!Latest(r)' = Prof!Latest(r)
  BY DEF Prof!Latest
<1>3. Prof!Configured' = Prof!Configured
  BY DEF Prof!Configured, Prof!Shown, Prof!Latest
<1>4. version \in Nat /\ version' \in Nat
  BY ProfileFacts DEF ProfileBounds
<1>5. ASSUME NEW t \in Tab PROVE TabFits(t)'
  <2>1. CASE tab'[t] = tab[t]
    <3>1. TabFits(t) /\ tab[t].version \in Nat
      BY ProfileFacts DEF ProfileInv
    <3>2. tab[t].version = version' => tab[t].version = version
      BY <1>4, <3>1 DEF TabFits
    <3>3. tab[t].version <= version' /\ tab[t].of <= Len(revision)
      BY <1>4, <3>1 DEF TabFits
    <3>4. tab[t].version = version' /\ tab[t].of # 0 => Prof!Latest(tab[t].of)
      BY <3>1, <3>2 DEF TabFits
    <3> QED BY <2>1, <3>3, <3>4 DEF TabFits, Prof!Latest
  <2> QED BY <2>1
<1>6. ASSUME NEW t \in Tab PROVE ProposalFits(t)'
  <2>1. CASE proposal'[t] = proposal[t]
    <3>1. CASE proposal[t] = Prof!NoProposal
      BY <2>1, <3>1 DEF ProposalFits, Prof!NoProposal
    <3>2. CASE proposal[t] # Prof!NoProposal
      <4>1. proposal[t] \in Challenge /\ ProposalFits(t)
        BY <3>2, ProfileFacts DEF ProfileInv
      <4>2. proposal[t].version \in Nat
        BY <4>1 DEF Challenge, ProfileBounds
      <4>3. proposal[t].version <= version' /\ (proposal[t].version = version' => proposal[t].version = version)
        BY <1>4, <3>2, <4>1, <4>2 DEF ProposalFits
      <4> QED BY <1>3, <2>1, <3>2, <4>1, <4>3 DEF ProposalFits
    <3> QED BY <3>1, <3>2
  <2>2. CASE proposal'[t] = Prof!NoProposal
    BY <2>2 DEF ProposalFits, Prof!NoProposal
  <2> QED BY <2>1, <2>2
<1> QED BY <1>1, <1>5, <1>6 DEF ProfileInv

\* An open proposal is told from none.
LEMMA NoProposalDiffers == ~(Prof!NoProposal \in Challenge) /\ Prof!NoProposal.status # "OPEN" /\ \A p \in Challenge : p.status = "OPEN" /\ p # Prof!NoProposal
  BY DEF Prof!NoProposal, Challenge

\* The preset and the form's recipe are recipes.
LEMMA PresetIsRecipe ==
    ASSUME ProfileBounds, ProfileInv
    PROVE  Prof!Preset \in Prof!Recipe /\ [name |-> "own", launch |-> 1] \in Prof!Recipe /\ Prof!Preset.name = "Context7"
<1>1. bundle \in 1 .. 2
  BY DEF ProfileInv, ProfileTypes
<1> QED BY <1>1 DEF Prof!Preset, Prof!Recipe

\* The invariant outlives Load.
LEMMA LoadKeeps == ASSUME ProfileBounds, ProfileInv, NEW t \in Tab, Prof!Load(t) PROVE ProfileInv'
<1>1. UNCHANGED <<version, revision, capability, profGrant, probe, probes, bundle, proposal>>
  BY DEF Prof!Load
<1>2. PICK r \in (IF Prof!Shown = {} THEN {0} ELSE Prof!Shown) :
         tab' = [tab EXCEPT ![t] =
                   [version |-> version, of |-> r, granted |-> IF r = 0 THEN 0 ELSE profGrant[r].version,
                    offered |-> IF r = 0 THEN {} ELSE capability[r].tools]]
  BY DEF Prof!Load
<1>3. r = 0 \/ (r \in 1 .. Len(revision) /\ Prof!Latest(r))
  BY ProfileFacts DEF Prof!Shown
<1>4. r \in 0 .. Len(revision) /\ (r # 0 => r \in 1 .. Len(revision) /\ Prof!Latest(r))
  BY <1>3, ProfileFacts
<1> DEFINE granted == IF r = 0 THEN 0 ELSE profGrant[r].version
           offered == IF r = 0 THEN {} ELSE capability[r].tools
           new == [version |-> version, of |-> r, granted |-> granted, offered |-> offered]
<1>5. granted \in Nat /\ offered \subseteq Tool
  BY <1>4, ProfileFacts DEF Grant, Capability
<1>6. tab' = [tab EXCEPT ![t] = new]
  BY <1>2
<1> HIDE DEF granted, offered
<1>7. r \in 0 .. MaxRevisions /\ version \in 0 .. MaxVersion
  BY <1>4, ProfileFacts DEF ProfileInv, ProfileTypes, ProfileBounds
<1>8. new \in Shows
  BY <1>5, <1>7 DEF Shows
<1>9. new.version = version /\ new.of = r
  OBVIOUS
<1> HIDE DEF new
<1>10. tab' \in [Tab -> Shows] /\ \A q \in Tab : tab'[q] = IF q = t THEN new ELSE tab[q]
  BY <1>6, <1>8 DEF ProfileInv, ProfileTypes
<1>11. TabFits(t)'
  BY <1>1, <1>4, <1>9, <1>10, ProfileFacts DEF TabFits, Prof!Latest
<1>12. \A q \in Tab : TabFits(q)' \/ tab'[q] = tab[q]
  BY <1>10, <1>11
<1>13. \A q \in Tab : ProposalFits(q)' \/ proposal'[q] = proposal[q] \/ proposal'[q] = Prof!NoProposal
  BY <1>1
<1>14. Prof!CapabilityIsOfItsRevision'
  BY <1>1 DEF ProfileInv, Prof!CapabilityIsOfItsRevision
<1>15. /\ version' \in 0 .. MaxVersion /\ version <= version'
       /\ capability' \in Seq(Capability) /\ Len(capability') = Len(revision) /\ profGrant' \in Seq(Grant) /\ Len(profGrant') = Len(revision)
       /\ probe' \in 0 .. Len(revision) /\ probes' \in 0 .. MaxProbes /\ bundle' \in 1 .. 2
       /\ proposal' \in [Tab -> {Prof!NoProposal} \cup Challenge]
  BY <1>1, ProfileFacts DEF ProfileInv, ProfileTypes
<1> QED BY <1>1, <1>10, <1>12, <1>13, <1>14, <1>15, SameRevisions

\* The invariant outlives Recipe, Configured and Issue.
LEMMA IssueKeeps ==
    ASSUME ProfileBounds, ProfileInv, NEW t \in Tab, NEW profile \in 0 .. Len(revision), NEW recipe \in Prof!Recipe,
           profile = 0 /\ recipe.name = "Context7" => Prof!Configured = {},
           Prof!Issue(t, profile, recipe)
    PROVE  ProfileInv'
<1> DEFINE new == [status |-> "OPEN", version |-> version, profile |-> profile, recipe |-> recipe]
<1>1. UNCHANGED <<version, revision, capability, profGrant, probe, probes, bundle, tab>> /\ proposal' = [proposal EXCEPT ![t] = new]
  BY DEF Prof!Issue
<1>2. profile \in 0 .. MaxRevisions /\ version \in 0 .. MaxVersion
  BY ProfileFacts DEF ProfileInv, ProfileTypes, ProfileBounds
<1>3. new \in Challenge
  BY <1>2 DEF Challenge
<1>4. new.version = version /\ new.profile = profile /\ new.recipe = recipe
  OBVIOUS
<1> HIDE DEF new
<1>5. proposal' \in [Tab -> {Prof!NoProposal} \cup Challenge] /\ \A q \in Tab : proposal'[q] = IF q = t THEN new ELSE proposal[q]
  BY <1>1, <1>3 DEF ProfileInv, ProfileTypes
<1>6. ProposalFits(t)'
  <2>1. Prof!Configured' = Prof!Configured
    BY <1>1 DEF Prof!Configured, Prof!Shown, Prof!Latest
  <2>2. version <= version /\ profile <= Len(revision)
    BY ProfileFacts
  <2> QED BY <1>1, <1>4, <1>5, <2>1, <2>2 DEF ProposalFits
<1>7. \A q \in Tab : ProposalFits(q)' \/ proposal'[q] = proposal[q] \/ proposal'[q] = Prof!NoProposal
  BY <1>5, <1>6
<1>8. \A q \in Tab : TabFits(q)' \/ tab'[q] = tab[q]
  BY <1>1
<1>9. Prof!CapabilityIsOfItsRevision'
  BY <1>1 DEF ProfileInv, Prof!CapabilityIsOfItsRevision
<1>10. /\ version' \in 0 .. MaxVersion /\ version <= version'
       /\ capability' \in Seq(Capability) /\ Len(capability') = Len(revision) /\ profGrant' \in Seq(Grant) /\ Len(profGrant') = Len(revision)
       /\ probe' \in 0 .. Len(revision) /\ probes' \in 0 .. MaxProbes /\ bundle' \in 1 .. 2
       /\ tab' \in [Tab -> Shows]
  BY <1>1, ProfileFacts DEF ProfileInv, ProfileTypes
<1> QED BY <1>1, <1>5, <1>7, <1>8, <1>9, <1>10, SameRevisions

\* The invariant outlives Propose and ProposePreset.
LEMMA ProposeKeeps == ASSUME ProfileBounds, ProfileInv, NEW t \in Tab, Prof!Propose(t) \/ Prof!ProposePreset(t) PROVE ProfileInv'
<1>1. CASE Prof!Issue(t, 0, [name |-> "own", launch |-> 1])
  <2>1. [name |-> "own", launch |-> 1].name # "Context7" /\ 0 \in 0 .. Len(revision)
    BY ProfileFacts
  <2> QED BY <1>1, <2>1, PresetIsRecipe, IssueKeeps
<1>2. CASE tab[t].of # 0 /\ Prof!Issue(t, revision[tab[t].of].profile, [revision[tab[t].of].recipe EXCEPT !.launch = 2])
  <2> DEFINE recipe == [revision[tab[t].of].recipe EXCEPT !.launch = 2]
             profile == revision[tab[t].of].profile
  <2>1. tab[t].of \in 1 .. Len(revision)
    BY <1>2, ProfileFacts
  <2>2. revision[tab[t].of] \in Revision /\ profile \in 1 .. Len(revision)
    BY <2>1, ProfileFacts
  <2>3. recipe \in Prof!Recipe
    BY <2>2 DEF Revision, Prof!Recipe
  <2>4. profile # 0 /\ profile \in 0 .. Len(revision)
    BY <2>2
  <2>5. Prof!Issue(t, profile, recipe)
    BY <1>2
  <2> HIDE DEF recipe, profile
  <2> QED BY <2>3, <2>4, <2>5, IssueKeeps
<1>3. CASE Prof!Configured = {} /\ Prof!Issue(t, 0, Prof!Preset)
  <2>1. 0 \in 0 .. Len(revision)
    BY ProfileFacts
  <2> QED BY <1>3, <2>1, PresetIsRecipe, IssueKeeps
<1>4. CASE \E r \in Prof!Configured : revision[r].recipe # Prof!Preset /\ Prof!Issue(t, revision[r].profile, Prof!Preset)
  <2>1. PICK r \in Prof!Configured : Prof!Issue(t, revision[r].profile, Prof!Preset)
    BY <1>4
  <2>2. r \in 1 .. Len(revision)
    BY <2>1, ProfileFacts DEF Prof!Configured, Prof!Shown
  <2>3. revision[r].profile \in 0 .. Len(revision) /\ revision[r].profile # 0
    BY <2>2, ProfileFacts
  <2> QED BY <2>1, <2>3, PresetIsRecipe, IssueKeeps
<1> QED BY <1>1, <1>2, <1>3, <1>4 DEF Prof!Propose, Prof!ProposePreset

\* Proposals that are dropped, with a restart or without.
LEMMA DropKeeps ==
    ASSUME ProfileBounds, ProfileInv, UNCHANGED <<version, revision, capability, profGrant, probes, tab>>,
           probe' \in 0 .. Len(revision), bundle' \in 1 .. 2, proposal' \in [Tab -> {Prof!NoProposal} \cup Challenge],
           \A q \in Tab : proposal'[q] = proposal[q] \/ proposal'[q] = Prof!NoProposal
    PROVE  ProfileInv'
<1>1. Prof!CapabilityIsOfItsRevision'
  BY DEF ProfileInv, Prof!CapabilityIsOfItsRevision
<1>2. /\ version' \in 0 .. MaxVersion /\ version <= version'
      /\ capability' \in Seq(Capability) /\ Len(capability') = Len(revision) /\ profGrant' \in Seq(Grant) /\ Len(profGrant') = Len(revision)
      /\ probes' \in 0 .. MaxProbes /\ tab' \in [Tab -> Shows]
  BY ProfileFacts DEF ProfileInv, ProfileTypes
<1> QED BY <1>1, <1>2, SameRevisions

\* The invariant outlives Expire and Restart.
LEMMA ExpireKeeps == ASSUME ProfileBounds, ProfileInv, (\E t \in Tab : Prof!Expire(t)) \/ Prof!Restart PROVE ProfileInv'
<1>1. probe \in 0 .. Len(revision) /\ bundle \in 1 .. 2 /\ 0 \in 0 .. Len(revision) /\ proposal \in [Tab -> {Prof!NoProposal} \cup Challenge]
  BY ProfileFacts DEF ProfileInv, ProfileTypes
<1>2. CASE \E t \in Tab : Prof!Expire(t)
  <2>1. PICK t \in Tab : Prof!Expire(t)
    BY <1>2
  <2>2. proposal' \in [Tab -> {Prof!NoProposal} \cup Challenge] /\ \A q \in Tab : proposal'[q] = proposal[q] \/ proposal'[q] = Prof!NoProposal
    BY <1>1, <2>1 DEF Prof!Expire
  <2>3. UNCHANGED <<version, revision, capability, profGrant, probes, tab>> /\ probe' \in 0 .. Len(revision) /\ bundle' \in 1 .. 2
    BY <1>1, <2>1 DEF Prof!Expire
  <2> QED BY <2>2, <2>3, DropKeeps
<1>3. CASE Prof!Restart
  <2>1. proposal' \in [Tab -> {Prof!NoProposal} \cup Challenge] /\ \A q \in Tab : proposal'[q] = proposal[q] \/ proposal'[q] = Prof!NoProposal
    BY <1>3 DEF Prof!Restart
  <2>2. UNCHANGED <<version, revision, capability, profGrant, probes, tab>> /\ probe' \in 0 .. Len(revision) /\ bundle' \in 1 .. 2
    BY <1>1, <1>3 DEF Prof!Restart
  <2> QED BY <2>1, <2>2, DropKeeps
<1> QED BY <1>2, <1>3

\* What a recipe that the owner confirmed becomes.
LEMMA FileFacts ==
    ASSUME ProfileBounds, ProfileInv, NEW t \in Tab, proposal[t].status = "OPEN", Prof!File(proposal[t])
    PROVE  /\ proposal[t] \in Challenge /\ ProposalFits(t) /\ proposal[t].version = version /\ version' = version + 1 /\ version' \in 0 .. MaxVersion
           /\ Prof!Filed(proposal[t]) \in Revision
           /\ Prof!Filed(proposal[t]).profile \in 1 .. Len(revision) + 1
           /\ Prof!Filed(proposal[t]).profile = Len(revision) + 1 => proposal[t].profile = 0
           /\ Prof!Filed(proposal[t]).recipe = proposal[t].recipe
           /\ Len(revision) < MaxRevisions /\ revision' = Append(revision, Prof!Filed(proposal[t]))
           /\ capability' = Append(capability, Prof!NoCapability) /\ profGrant' = Append(profGrant, Prof!NoGrant)
<1>1. proposal[t] \in Challenge /\ ProposalFits(t)
  BY ProfileFacts, NoProposalDiffers DEF ProfileInv
<1>2. proposal[t].profile \in 0 .. Len(revision)
  <2>1. proposal[t].profile \in 0 .. MaxRevisions /\ proposal[t].profile <= Len(revision)
    BY <1>1, NoProposalDiffers DEF Challenge, ProposalFits
  <2> QED BY <2>1, ProfileFacts DEF ProfileBounds
<1>3. /\ Len(revision) < MaxRevisions /\ revision' = Append(revision, Prof!Filed(proposal[t]))
      /\ capability' = Append(capability, Prof!NoCapability) /\ profGrant' = Append(profGrant, Prof!NoGrant)
      /\ proposal[t].version = version /\ version < MaxVersion /\ version' = version + 1
  BY DEF Prof!File, Prof!Refused, Prof!Expected, Prof!BumpedByConsent, Prof!Bumped
<1>4. version' \in 0 .. MaxVersion
  BY <1>3, ProfileFacts DEF ProfileInv, ProfileTypes, ProfileBounds
<1> DEFINE profile == IF proposal[t].profile = 0 THEN Len(revision) + 1 ELSE proposal[t].profile
<1>5. profile \in 1 .. MaxRevisions /\ profile \in 1 .. Len(revision) + 1 /\ (profile = Len(revision) + 1 => proposal[t].profile = 0)
  BY <1>2, <1>3, ProfileFacts DEF ProfileBounds
<1>6. Prof!Filed(proposal[t]) = [profile |-> profile, recipe |-> proposal[t].recipe] /\ proposal[t].recipe \in Prof!Recipe
  BY <1>1 DEF Prof!Filed, Challenge
<1> HIDE DEF profile
<1>7. Prof!Filed(proposal[t]) \in Revision
  BY <1>5, <1>6 DEF Revision
<1> QED BY <1>1, <1>3, <1>4, <1>5, <1>6, <1>7

\* The invariant outlives Confirm.
LEMMA ConfirmKeeps == ASSUME ProfileBounds, ProfileInv, NEW t \in Tab, Prof!Confirm(t) PROVE ProfileInv'
<1>1. proposal[t].status = "OPEN" /\ proposal' = [proposal EXCEPT ![t] = Prof!NoProposal] /\ UNCHANGED <<probe, probes, bundle, tab>>
  BY DEF Prof!Confirm, Prof!Consume
<1>2. /\ proposal' \in [Tab -> {Prof!NoProposal} \cup Challenge] /\ \A q \in Tab : proposal'[q] = proposal[q] \/ proposal'[q] = Prof!NoProposal
      /\ probe \in 0 .. Len(revision) /\ bundle \in 1 .. 2 /\ probes \in 0 .. MaxProbes /\ tab \in [Tab -> Shows]
  BY <1>1 DEF ProfileInv, ProfileTypes
<1>3. CASE UNCHANGED <<version, revision, capability, profGrant>>
  BY <1>1, <1>2, <1>3, DropKeeps
<1>4. CASE Prof!File(proposal[t])
  <2> DEFINE filed == Prof!Filed(proposal[t])
  <2>1. /\ version' = version + 1 /\ version' \in 0 .. MaxVersion /\ filed \in Revision /\ filed.profile \in 1 .. Len(revision) + 1
        /\ Len(revision) < MaxRevisions /\ revision' = Append(revision, filed)
        /\ capability' = Append(capability, Prof!NoCapability) /\ profGrant' = Append(profGrant, Prof!NoGrant)
    BY <1>1, <1>4, FileFacts
  <2> HIDE DEF filed
  <2>2. Prof!NoCapability \in Capability /\ Prof!NoGrant \in Grant /\ Prof!NoCapability.ran = 0
    BY DEF Prof!NoCapability, Prof!NoGrant, Capability, Grant, ProfileBounds
  <2>3. /\ revision \in Seq(Revision) /\ capability \in Seq(Capability) /\ profGrant \in Seq(Grant)
        /\ Len(capability) = Len(revision) /\ Len(profGrant) = Len(revision)
    BY DEF ProfileInv, ProfileTypes
  <2>4. /\ revision' \in Seq(Revision) /\ Len(revision') = Len(revision) + 1
        /\ \A i \in 1 .. Len(revision) : revision'[i] = revision[i]
        /\ revision'[Len(revision) + 1] = filed
    BY <2>1, <2>3, AppendProperties
  <2>5. /\ capability' \in Seq(Capability) /\ Len(capability') = Len(revision) + 1
        /\ \A i \in 1 .. Len(revision) : capability'[i] = capability[i]
        /\ capability'[Len(revision) + 1] = Prof!NoCapability
    BY <2>1, <2>2, <2>3, AppendProperties
  <2>6. profGrant' \in Seq(Grant) /\ Len(profGrant') = Len(revision) + 1
    BY <2>1, <2>2, <2>3, AppendProperties
  <2>7. Len(revision) \in Nat /\ version \in Nat
    BY ProfileFacts
  <2>8. Len(revision') <= MaxRevisions /\ probe' \in 0 .. Len(revision')
    BY <1>1, <1>2, <2>1, <2>4, <2>7 DEF ProfileBounds
  <2>9. ProfileTypes'
    BY <1>1, <1>2, <2>1, <2>4, <2>5, <2>6, <2>8 DEF ProfileTypes
  <2>10. ProfilesAreThere'
    <3>1. ASSUME NEW r \in 1 .. Len(revision') PROVE revision'[r].profile <= Len(revision')
      <4>1. CASE r = Len(revision) + 1
        BY <2>1, <2>4, <2>7, <4>1
      <4>2. CASE r \in 1 .. Len(revision)
        BY <2>4, <2>7, <4>2, ProfileFacts
      <4> QED BY <2>4, <2>7, <4>1, <4>2
    <3> QED BY <3>1 DEF ProfilesAreThere
  <2>11. Prof!CapabilityIsOfItsRevision'
    <3>1. DOMAIN revision' = 1 .. Len(revision) + 1 /\ DOMAIN revision = 1 .. Len(revision)
      BY <2>4, ProfileFacts, LenProperties
    <3>2. ASSUME NEW r \in 1 .. Len(revision) + 1 PROVE capability'[r].ran \in {0, r}
      <4>1. CASE r = Len(revision) + 1
        BY <2>2, <2>5, <4>1
      <4>2. CASE r \in 1 .. Len(revision)
        BY <2>5, <3>1, <4>2 DEF ProfileInv, Prof!CapabilityIsOfItsRevision
      <4> QED BY <2>7, <4>1, <4>2
    <3> QED BY <3>1, <3>2 DEF Prof!CapabilityIsOfItsRevision
  <2>12. ASSUME NEW q \in Tab PROVE TabFits(q)' /\ ProposalFits(q)'
    <3>1. tab'[q].version # version' /\ tab'[q].version <= version' /\ tab'[q].of <= Len(revision')
      BY <1>1, <2>1, <2>4, <2>7, ProfileFacts DEF ProfileInv, TabFits
    <3>2. TabFits(q)'
      BY <3>1 DEF TabFits
    <3>3. CASE proposal'[q] = Prof!NoProposal
      BY <3>2, <3>3 DEF ProposalFits, Prof!NoProposal
    <3>4. CASE proposal'[q] # Prof!NoProposal
      <4>1. proposal'[q] = proposal[q] /\ proposal[q] \in Challenge /\ ProposalFits(q)
        BY <1>2, <3>4 DEF ProfileInv
      <4>2. proposal[q].version \in Nat /\ proposal[q].profile \in Nat
        BY <4>1 DEF Challenge, ProfileBounds
      <4>3. proposal[q].version <= version /\ proposal[q].profile <= Len(revision)
        BY <3>4, <4>1 DEF ProposalFits
      <4>4. proposal'[q].version # version' /\ proposal'[q].version <= version' /\ proposal'[q].profile <= Len(revision')
        BY <2>1, <2>4, <2>7, <4>1, <4>2, <4>3
      <4> QED BY <3>2, <4>4 DEF ProposalFits
    <3> QED BY <3>3, <3>4
  <2> QED BY <2>9, <2>10, <2>11, <2>12 DEF ProfileInv
<1> QED BY <1>3, <1>4 DEF Prof!Confirm

\* The invariant outlives Probe.
LEMMA ProbeKeeps == ASSUME ProfileBounds, ProfileInv, NEW t \in Tab, Prof!Probe(t) PROVE ProfileInv'
<1>1. /\ UNCHANGED <<version, revision, capability, profGrant, bundle, tab, proposal>>
      /\ probe' \in Prof!Shown /\ probes' = probes + 1 /\ probes < MaxProbes
  BY DEF Prof!Probe
<1>2. probe' \in 0 .. Len(revision)
  BY <1>1, ProfileFacts DEF Prof!Shown
<1>3. probes' \in 0 .. MaxProbes
  BY <1>1 DEF ProfileInv, ProfileTypes, ProfileBounds
<1>4. /\ version' \in 0 .. MaxVersion /\ version <= version'
      /\ capability' \in Seq(Capability) /\ Len(capability') = Len(revision) /\ profGrant' \in Seq(Grant) /\ Len(profGrant') = Len(revision)
      /\ bundle' \in 1 .. 2 /\ tab' \in [Tab -> Shows] /\ proposal' \in [Tab -> {Prof!NoProposal} \cup Challenge]
  BY <1>1, ProfileFacts DEF ProfileInv, ProfileTypes
<1>5. Prof!CapabilityIsOfItsRevision'
  BY <1>1 DEF ProfileInv, Prof!CapabilityIsOfItsRevision
<1> QED BY <1>1, <1>2, <1>3, <1>4, <1>5, SameRevisions

\* The invariant outlives Record.
LEMMA ProfRecordKeeps == ASSUME ProfileBounds, ProfileInv, Prof!Record PROVE ProfileInv'
<1>1. UNCHANGED <<version, revision, profGrant, probes, bundle, tab, proposal>> /\ probe # 0 /\ probe' = 0
  BY DEF Prof!Record
<1>2. PICK aTools \in SUBSET Tool : capability' = [capability EXCEPT ![probe] = Prof!Snapshot(aTools)]
  BY DEF Prof!Record, Prof!Observed
<1>3. Len(revision) \in Nat /\ probe \in 1 .. Len(revision) /\ probe \in 0 .. MaxRevisions
  BY <1>1, ProfileFacts DEF ProfileInv, ProfileTypes, ProfileBounds
<1>4. Prof!Snapshot(aTools) \in Capability /\ Prof!Snapshot(aTools).ran = probe
  BY <1>3 DEF Prof!Snapshot, Capability
<1>5. capability \in Seq(Capability) /\ Len(capability) = Len(revision)
  BY DEF ProfileInv, ProfileTypes
<1>6. /\ capability' \in Seq(Capability) /\ Len(capability') = Len(revision)
      /\ \A i \in 1 .. Len(revision) : capability'[i] = IF i = probe THEN Prof!Snapshot(aTools) ELSE capability[i]
  BY <1>2, <1>3, <1>4, <1>5, ExceptSeq
<1>7. Prof!CapabilityIsOfItsRevision'
  <2>1. DOMAIN revision' = 1 .. Len(revision) /\ DOMAIN revision = 1 .. Len(revision)
    BY <1>1, ProfileFacts
  <2>2. ASSUME NEW r \in 1 .. Len(revision) PROVE capability'[r].ran \in {0, r}
    <3>1. CASE r = probe
      BY <1>4, <1>6, <3>1
    <3>2. CASE r # probe
      BY <1>6, <2>1, <3>2 DEF ProfileInv, Prof!CapabilityIsOfItsRevision
    <3> QED BY <3>1, <3>2
  <2> QED BY <2>1, <2>2 DEF Prof!CapabilityIsOfItsRevision
<1>8. /\ version' \in 0 .. MaxVersion /\ version <= version' /\ profGrant' \in Seq(Grant) /\ Len(profGrant') = Len(revision)
      /\ probe' \in 0 .. Len(revision) /\ probes' \in 0 .. MaxProbes /\ bundle' \in 1 .. 2
      /\ tab' \in [Tab -> Shows] /\ proposal' \in [Tab -> {Prof!NoProposal} \cup Challenge]
  BY <1>1, <1>3, ProfileFacts DEF ProfileInv, ProfileTypes
<1> QED BY <1>1, <1>6, <1>7, <1>8, SameRevisions

\* A grant is given, widened or withdrawn.
LEMMA GrantKeeps ==
    ASSUME ProfileBounds, ProfileInv, UNCHANGED <<revision, capability, probe, probes, bundle, tab, proposal>>, Prof!Bumped,
           NEW r \in 1 .. Len(revision), NEW given \in Grant, profGrant' = [profGrant EXCEPT ![r] = given]
    PROVE  ProfileInv'
<1>1. version' = version + 1 /\ version < MaxVersion /\ version \in Nat
  BY ProfileFacts DEF Prof!Bumped
<1>2. version' \in 0 .. MaxVersion /\ version <= version'
  BY <1>1 DEF ProfileBounds
<1>3. profGrant \in Seq(Grant) /\ Len(profGrant) = Len(revision)
  BY DEF ProfileInv, ProfileTypes
<1>4. profGrant' \in Seq(Grant) /\ Len(profGrant') = Len(revision)
  BY <1>3, ExceptSeq
<1>5. Prof!CapabilityIsOfItsRevision'
  BY DEF ProfileInv, Prof!CapabilityIsOfItsRevision
<1>6. /\ capability' \in Seq(Capability) /\ Len(capability') = Len(revision) /\ probe' \in 0 .. Len(revision) /\ probes' \in 0 .. MaxProbes
      /\ bundle' \in 1 .. 2 /\ tab' \in [Tab -> Shows] /\ proposal' \in [Tab -> {Prof!NoProposal} \cup Challenge]
  BY DEF ProfileInv, ProfileTypes
<1> QED BY <1>2, <1>4, <1>5, <1>6, SameRevisions

\* A grant that is given or withdrawn is of the revision that the tab looks at, which is the latest.
LEMMA SetGrantFacts ==
    ASSUME ProfileBounds, ProfileInv, NEW t \in Tab, Prof!SetGrant(t) \/ Prof!Revoke(t)
    PROVE  /\ UNCHANGED <<revision, capability, probe, probes, bundle, tab, proposal>> /\ Prof!Bumped
           /\ tab[t].of \in 1 .. Len(revision) /\ Prof!Latest(tab[t].of)
           /\ \E given \in Grant : profGrant' = [profGrant EXCEPT ![tab[t].of] = given]
<1>1. Prof!Seen(t) /\ UNCHANGED <<revision, capability, probe, probes, bundle, tab, proposal>> /\ Prof!Bumped
  BY DEF Prof!SetGrant, Prof!Revoke
<1>2. tab[t].of \in 1 .. Len(revision) /\ Prof!Latest(tab[t].of)
  <2>1. tab[t].of # 0 /\ tab[t].version = version /\ TabFits(t) /\ tab[t].of \in 0 .. Len(revision)
    BY <1>1, ProfileFacts DEF ProfileInv, Prof!Seen, Prof!Expected
  <2> QED BY <2>1, ProfileFacts DEF TabFits
<1> DEFINE old == profGrant[tab[t].of]
<1>3. old \in Grant /\ profGrant \in Seq(Grant) /\ tab[t] \in Shows
  BY <1>2, ProfileFacts DEF ProfileInv, ProfileTypes
<1>4. CASE Prof!SetGrant(t)
  <2>1. PICK aTools \in Prof!Ticked(t) :
            profGrant' = [profGrant EXCEPT ![tab[t].of] = [status |-> "ENABLED", version |-> @.version + 1, tools |-> aTools]]
    BY <1>4 DEF Prof!SetGrant
  <2>2. [status |-> "ENABLED", version |-> old.version + 1, tools |-> aTools] \in Grant
    BY <1>3, <2>1 DEF Grant, Shows, Prof!Ticked
  <2>3. profGrant' = [profGrant EXCEPT ![tab[t].of] = [status |-> "ENABLED", version |-> old.version + 1, tools |-> aTools]]
    BY <2>1
  <2> QED BY <1>1, <1>2, <2>2, <2>3
<1>5. CASE Prof!Revoke(t)
  <2> DEFINE given == [old EXCEPT !.status = "REVOKED", !.version = @ + 1]
  <2>1. profGrant' = [profGrant EXCEPT ![tab[t].of].status = "REVOKED", ![tab[t].of].version = @ + 1]
    BY <1>5 DEF Prof!Revoke
  <2> DEFINE mid == [old EXCEPT !.status = "REVOKED"]
  <2>2. mid \in Grant /\ mid.version = old.version
    BY <1>3 DEF Grant
  <2>3. [mid EXCEPT !.version = mid.version + 1] \in Grant
    <3> HIDE DEF mid
    <3> QED BY <2>2 DEF Grant
  <2>31. given = [mid EXCEPT !.version = mid.version + 1]
    BY <2>2
  <2>32. given \in Grant
    BY <2>3, <2>31
  <2>4. profGrant' = [profGrant EXCEPT ![tab[t].of] = given]
    BY <2>1
  <2> QED BY <1>1, <1>2, <2>32, <2>4
<1> QED BY <1>4, <1>5

\* The invariant holds where no profile is.
LEMMA ProfileBegins == ASSUME ProfileBounds, Prof!Init PROVE ProfileInv
<1>1. revision = <<>> /\ capability = <<>> /\ profGrant = <<>> /\ Len(<<>>) = 0
  BY DEF Prof!Init
<1>2. revision \in Seq(Revision) /\ capability \in Seq(Capability) /\ profGrant \in Seq(Grant)
  BY <1>1, EmptySeq
<1>3. [version |-> 0, of |-> 0, granted |-> 0, offered |-> {}] \in Shows
  BY DEF Shows, ProfileBounds
<1>4. tab \in [Tab -> Shows] /\ proposal \in [Tab -> {Prof!NoProposal} \cup Challenge]
  BY <1>3 DEF Prof!Init
<1>5. ProfileTypes
  BY <1>1, <1>2, <1>4 DEF Prof!Init, ProfileTypes, ProfileBounds
<1>6. ProfilesAreThere /\ Prof!CapabilityIsOfItsRevision
  BY <1>1 DEF ProfilesAreThere, Prof!CapabilityIsOfItsRevision
<1>7. \A t \in Tab : TabFits(t) /\ ProposalFits(t)
  BY <1>1 DEF Prof!Init, TabFits, ProposalFits
<1> QED BY <1>5, <1>6, <1>7 DEF ProfileInv

\* No step breaks the invariant.
LEMMA ProfileStep == ASSUME ProfileBounds, ProfileInv, [Prof!Next]_(Prof!vars) PROVE ProfileInv'
<1>1. CASE \E t \in Tab : Prof!Load(t) \/ Prof!Propose(t) \/ Prof!ProposePreset(t) \/ Prof!Confirm(t) \/ Prof!Probe(t)
  BY <1>1, LoadKeeps, ProposeKeeps, ConfirmKeeps, ProbeKeeps
<1>2. CASE \E t \in Tab : Prof!SetGrant(t) \/ Prof!Revoke(t)
  <2>1. PICK t \in Tab : Prof!SetGrant(t) \/ Prof!Revoke(t)
    BY <1>2
  <2> QED BY <2>1, SetGrantFacts, GrantKeeps
<1>3. CASE (\E t \in Tab : Prof!Expire(t)) \/ Prof!Restart
  BY <1>3, ExpireKeeps
<1>4. CASE Prof!Record
  BY <1>4, ProfRecordKeeps
<1>5. CASE UNCHANGED Prof!vars
  <2>1. UNCHANGED <<version, revision, capability, profGrant, probes, tab, probe, bundle, proposal>>
    BY <1>5 DEF Prof!vars
  <2>2. probe \in 0 .. Len(revision) /\ bundle \in 1 .. 2 /\ proposal \in [Tab -> {Prof!NoProposal} \cup Challenge]
    BY DEF ProfileInv, ProfileTypes
  <2> QED BY <2>1, <2>2, DropKeeps
<1> QED BY <1>1, <1>2, <1>3, <1>4, <1>5 DEF Prof!Next

\* The invariant of McpProfiles, for any tabs and tools, and any bounds.
THEOREM ProfileInvariant == ASSUME ProfileBounds PROVE Prof!Spec => []ProfileInv
<1>1. Prof!Init => ProfileInv
  BY ProfileBegins
<1>2. ProfileInv /\ [Prof!Next]_(Prof!vars) => ProfileInv'
  BY ProfileStep
<1> QED BY <1>1, <1>2, PTL DEF Prof!Spec

\* What a probe found is held against the revision whose server it ran.
THEOREM CapabilityIsHeld == ASSUME ProfileBounds PROVE Prof!Spec => []Prof!CapabilityIsOfItsRevision
<1>1. ProfileInv => Prof!CapabilityIsOfItsRevision
  BY DEF ProfileInv
<1> QED BY <1>1, ProfileInvariant, PTL

\* No step changes the grant of a revision that another replaced.
LEMMA LatestIsGranted == ASSUME ProfileBounds, ProfileInv, Prof!Next PROVE Prof!GrantsAreForTheLatest
<1>1. DOMAIN profGrant = 1 .. Len(revision)
  BY ProfileFacts
<1>2. CASE \E t \in Tab : Prof!SetGrant(t) \/ Prof!Revoke(t)
  <2>1. PICK t \in Tab : Prof!SetGrant(t) \/ Prof!Revoke(t)
    BY <1>2
  <2>2. PICK given \in Grant : profGrant' = [profGrant EXCEPT ![tab[t].of] = given]
    BY <2>1, SetGrantFacts
  <2>3. \A r \in DOMAIN profGrant : r # tab[t].of => profGrant'[r] = profGrant[r]
    BY <2>2
  <2>4. Prof!Latest(tab[t].of)
    BY <2>1, SetGrantFacts
  <2> QED BY <2>3, <2>4 DEF Prof!GrantsAreForTheLatest
<1>3. CASE \E t \in Tab : Prof!Confirm(t)
  <2>1. PICK t \in Tab : Prof!Confirm(t)
    BY <1>3
  <2>2. UNCHANGED profGrant \/ profGrant' = Append(profGrant, Prof!NoGrant)
    BY <2>1 DEF Prof!Confirm, Prof!File
  <2>3. profGrant \in Seq(Grant) /\ Prof!NoGrant \in Grant /\ Len(profGrant) = Len(revision)
    BY DEF ProfileInv, ProfileTypes, Prof!NoGrant, Grant
  <2>4. \A r \in 1 .. Len(revision) : profGrant'[r] = profGrant[r]
    BY <2>2, <2>3, AppendProperties
  <2> QED BY <1>1, <2>4 DEF Prof!GrantsAreForTheLatest
<1>4. CASE UNCHANGED profGrant
  BY <1>4 DEF Prof!GrantsAreForTheLatest
<1>5. QED
  BY <1>2, <1>3, <1>4 DEF Prof!Next, Prof!Load, Prof!Propose, Prof!ProposePreset, Prof!Issue, Prof!Expire, Prof!Probe, Prof!Record, Prof!Restart

\* No step files the preset as a second profile.
LEMMA PresetIsOnce == ASSUME ProfileBounds, ProfileInv, Prof!Next PROVE Prof!PresetIsFiledOnce
<1>1. DOMAIN revision = 1 .. Len(revision) /\ Len(revision) \in Nat
  BY ProfileFacts
<1>2. CASE UNCHANGED revision
  BY <1>2 DEF Prof!PresetIsFiledOnce
<1>3. CASE \E t \in Tab : proposal[t].status = "OPEN" /\ Prof!File(proposal[t])
  <2>1. PICK t \in Tab : proposal[t].status = "OPEN" /\ Prof!File(proposal[t])
    BY <1>3
  <2> DEFINE filed == Prof!Filed(proposal[t])
  <2>2. /\ proposal[t] \in Challenge /\ ProposalFits(t) /\ proposal[t].version = version
        /\ filed \in Revision /\ revision' = Append(revision, filed)
        /\ (filed.profile = Len(revision) + 1 => proposal[t].profile = 0) /\ filed.recipe = proposal[t].recipe
    BY <2>1, FileFacts
  <2> HIDE DEF filed
  <2>3. revision' \in Seq(Revision) /\ Len(revision') = Len(revision) + 1 /\ revision'[Len(revision) + 1] = filed
    BY <2>2, AppendProperties DEF ProfileInv, ProfileTypes
  <2>4. DOMAIN revision' = 1 .. Len(revision) + 1
    BY <2>3, LenProperties
  <2>5. SUFFICES ASSUME NEW r \in DOMAIN revision' \ DOMAIN revision, revision'[r].profile = r, revision'[r].recipe.name = "Context7"
                 PROVE  Prof!Configured = {}
    BY DEF Prof!PresetIsFiledOnce
  <2>6. r = Len(revision) + 1
    BY <1>1, <2>4, <2>5
  <2>7. filed.profile = Len(revision) + 1 /\ filed.recipe.name = "Context7"
    BY <2>3, <2>5, <2>6
  <2>8. proposal[t].profile = 0 /\ proposal[t].recipe.name = "Context7" /\ proposal[t] # Prof!NoProposal
    BY <2>2, <2>7, NoProposalDiffers
  <2> QED BY <2>2, <2>8 DEF ProposalFits
<1>4. QED
  BY <1>2, <1>3 DEF Prof!Next, Prof!Load, Prof!Propose, Prof!ProposePreset, Prof!Issue, Prof!Confirm, Prof!Consume, Prof!Expire, Prof!Probe, Prof!SetGrant,
     Prof!Revoke, Prof!Record, Prof!Restart

\* Grants are of revisions in force, and the preset is one profile, however many tabs ask.
THEOREM ProfileSteps ==
    ASSUME ProfileBounds
    PROVE  Prof!Spec => [][Prof!GrantsAreForTheLatest]_(Prof!vars) /\ [][Prof!PresetIsFiledOnce]_(Prof!vars)
<1>1. ProfileInv /\ [Prof!Next]_(Prof!vars) => [Prof!GrantsAreForTheLatest]_(Prof!vars)
  BY LatestIsGranted
<1>2. ProfileInv /\ [Prof!Next]_(Prof!vars) => [Prof!PresetIsFiledOnce]_(Prof!vars)
  BY PresetIsOnce
<1> QED BY <1>1, <1>2, ProfileInvariant, PTL DEF Prof!Spec

----
(* AgentPolicy *)

CONSTANTS polTool, InitialMax, MaxTokens, MaxReport, MaxChanges, ManagerCap, ProfileCap
VARIABLES squad, environment, ready, preference, polGrant, polAttempt, adapter, policy, used, polRun, author, polSession, changes
Pol == INSTANCE AgentPolicy WITH Tool <- polTool, grant <- polGrant, attempt <- polAttempt, run <- polRun, session <- polSession

\* Budgets and caps are tokens, and no cap is of nothing.
PolicyBounds ==
    /\ MaxTokens \in Nat /\ InitialMax \in 1 .. MaxTokens /\ MaxReport \in Nat /\ MaxChanges \in Nat
    /\ ManagerCap \in Nat \ {0} /\ ProfileCap \in Nat \ {0}

\* An AgentRun that is running is the current attempt's, with tokens left.
RunFits ==
    /\ polRun.status = "RUNNING" <=> polAttempt.status = "RUNNING"
    /\ polRun.status = "RUNNING" => polRun.used < polRun.max /\ used < policy.max
    /\ polRun.status = "RUNNING" /\ Pol!Manager => polRun.access = "NONE" /\ polRun.tools = {} /\ polRun.max <= ManagerCap

\* What scheduling captured fits the stage until the dispatch is over.
AdapterFits ==
    adapter # Pol!NoAdapter =>
        /\ polRun.status = "RUNNING" => polRun.provider = adapter.provider
        /\ Pol!Manager => adapter.provider = "CODEX"
        /\ polAttempt.stage = "REVIEW" /\ adapter.startable /\ adapter.provider = author => adapter.eligible \subseteq {author}

SessionFits ==
    IF polSession.open
    THEN /\ polRun.status = "RUNNING" /\ adapter # Pol!NoAdapter /\ adapter.startable
         /\ polSession.provider = adapter.provider /\ polSession.eligible = adapter.eligible
         /\ polSession.tools \subseteq polRun.tools \cap polSession.granted
    ELSE polSession = Pol!NoSession

PolicyInv == Pol!TypeOK /\ RunFits /\ AdapterFits /\ SessionFits

----
\* The types of what a step finds.
LEMMA PolicyTypes ==
    ASSUME PolicyBounds, PolicyInv
    PROVE  /\ squad \in {"NONE", "STANDARD", "CODE_BLIND", "LEGACY"}
           /\ environment \in Pol!AgentProvider \cup {"NONE", "INVALID"}
           /\ ready \in [Pol!AgentProvider -> BOOLEAN] /\ preference \in Pol!AgentProvider \cup {"AUTO"}
           /\ polGrant \in [polTool -> {"NONE", "ENABLED", "REVOKED"}]
           /\ polAttempt \in [stage : Pol!Stage, status : {"QUEUED", "RUNNING", "WAITING_HUMAN", "HARD_PAUSED",
                                                        "INTERRUPTED", "SUCCEEDED"}, started : BOOLEAN]
           /\ adapter \in [provider : Pol!AgentProvider \cup {"NONE"}, startable : BOOLEAN,
                           eligible : SUBSET Pol!AgentProvider]
           /\ policy \in [max : 1 .. MaxTokens, agentMax : 0 .. MaxTokens] /\ policy.max \in Nat /\ policy.agentMax \in Nat
           /\ used \in Nat
           /\ polRun \in [status : {"NONE", "RUNNING", "ENDED"}, provider : Pol!AgentProvider \cup {"NONE"},
                       access : {"NONE", "READ_ONLY", "READ_WRITE"}, tools : SUBSET polTool, max : Nat, used : Nat]
           /\ author \in Pol!AgentProvider \cup {"NONE"}
           /\ polSession \in [open : BOOLEAN, provider : Pol!AgentProvider \cup {"NONE"}, tools : SUBSET polTool,
                           granted : SUBSET polTool, eligible : SUBSET Pol!AgentProvider]
           /\ changes \in 0 .. MaxChanges
<1>1. policy \in [max : 1 .. MaxTokens, agentMax : 0 .. MaxTokens]
  BY DEF PolicyInv, Pol!TypeOK
<1>2. policy.max \in 1 .. MaxTokens /\ policy.agentMax \in 0 .. MaxTokens
  BY <1>1
<1>3. policy.max \in Nat /\ policy.agentMax \in Nat
  BY <1>2 DEF PolicyBounds
<1> QED BY <1>1, <1>3 DEF PolicyInv, Pol!TypeOK

\* The sets of the types that the record that nobody is part of has.
LEMMA NothingTyped ==
    /\ Pol!NoAdapter \in [provider : Pol!AgentProvider \cup {"NONE"}, startable : BOOLEAN, eligible : SUBSET Pol!AgentProvider]
    /\ Pol!NoRun \in [status : {"NONE", "RUNNING", "ENDED"}, provider : Pol!AgentProvider \cup {"NONE"},
                      access : {"NONE", "READ_ONLY", "READ_WRITE"}, tools : SUBSET polTool, max : Nat, used : Nat]
    /\ Pol!NoRun.status = "NONE"
    /\ Pol!NoSession \in [open : BOOLEAN, provider : Pol!AgentProvider \cup {"NONE"}, tools : SUBSET polTool,
                          granted : SUBSET polTool, eligible : SUBSET Pol!AgentProvider]
    /\ ~Pol!NoSession.open
  BY DEF Pol!NoAdapter, Pol!NoRun, Pol!NoSession

\* Where an AgentRun ends, only its attempt and its budget are of interest.
LEMMA OverKeeps ==
    ASSUME PolicyBounds, PolicyInv, UNCHANGED <<squad, environment, ready, preference, polGrant, policy, changes>>,
           used' \in Nat, author' \in Pol!AgentProvider \cup {"NONE"},
           polAttempt' \in [stage : Pol!Stage, status : {"QUEUED", "WAITING_HUMAN", "HARD_PAUSED", "INTERRUPTED", "SUCCEEDED"},
                         started : BOOLEAN],
           polRun' = Pol!Ended, adapter' = Pol!NoAdapter, polSession' = Pol!NoSession
    PROVE  PolicyInv'
<1>1. polRun'.status = "ENDED" /\ polRun' \in [status : {"NONE", "RUNNING", "ENDED"}, provider : Pol!AgentProvider \cup {"NONE"},
                access : {"NONE", "READ_ONLY", "READ_WRITE"}, tools : SUBSET polTool, max : Nat, used : Nat]
  BY PolicyTypes DEF Pol!Ended
<1>2. polAttempt'.status # "RUNNING"
  OBVIOUS
<1>3. polAttempt' \in [stage : Pol!Stage, status : {"QUEUED", "RUNNING", "WAITING_HUMAN", "HARD_PAUSED",
                                                 "INTERRUPTED", "SUCCEEDED"}, started : BOOLEAN]
  OBVIOUS
<1>4. Pol!TypeOK'
  BY <1>1, <1>3, PolicyTypes, NothingTyped DEF Pol!TypeOK
<1>5. RunFits' /\ AdapterFits' /\ SessionFits'
  BY <1>1, <1>2, NothingTyped DEF RunFits, AdapterFits, SessionFits
<1> QED BY <1>4, <1>5 DEF PolicyInv

\* The invariant outlives Schedule.
LEMMA ScheduleKeeps == ASSUME PolicyBounds, PolicyInv, Pol!Schedule PROVE PolicyInv'
<1>1. /\ adapter' = Pol!Resolved /\ polRun.status # "RUNNING"
      /\ UNCHANGED <<squad, environment, ready, preference, polGrant, polAttempt, policy, used, polRun, author, polSession, changes>>
  BY DEF Pol!Schedule, Pol!Unclaimed
<1>2. ~polSession.open /\ polSession = Pol!NoSession
  BY <1>1 DEF PolicyInv, SessionFits
<1>3. Pol!Override \in Pol!AgentProvider \cup {"NONE"}
  BY DEF Pol!Override
<1>4. Pol!Eligible \subseteq Pol!AgentProvider /\ Pol!Avoided \in Pol!AgentProvider \cup {"NONE"}
  BY PolicyTypes DEF Pol!Eligible, Pol!Avoided
<1>5. /\ Pol!First \in Pol!AgentProvider
      /\ Pol!First = Pol!Avoided => Pol!Eligible \subseteq {Pol!Avoided}
  <2> DEFINE fit == Pol!Eligible \ {Pol!Avoided}
  <2>1. fit \subseteq {"CODEX", "CLAUDE_CODE"} /\ Pol!Avoided \notin fit
    BY <1>4 DEF Pol!AgentProvider
  <2>2. CASE "CODEX" \in fit
    BY <2>1, <2>2 DEF Pol!First, Pol!AgentProvider
  <2>3. CASE fit = {"CLAUDE_CODE"}
    BY <2>1, <2>3 DEF Pol!First, Pol!AgentProvider
  <2>4. CASE fit = {}
    <3>1. Pol!Eligible \subseteq {Pol!Avoided} /\ (Pol!Eligible # {} => Pol!Avoided \in Pol!AgentProvider)
      BY <1>4, <2>4
    <3>2. Pol!First = IF Pol!Eligible # {} THEN Pol!Avoided ELSE "CODEX"
      BY <2>4 DEF Pol!First
    <3> QED BY <3>1, <3>2 DEF Pol!AgentProvider
  <2> QED BY <2>1, <2>2, <2>3, <2>4
<1>6. /\ adapter'.provider \in Pol!AgentProvider /\ adapter'.startable \in BOOLEAN
      /\ adapter' \in [provider : Pol!AgentProvider \cup {"NONE"}, startable : BOOLEAN, eligible : SUBSET Pol!AgentProvider]
      /\ Pol!Manager => adapter'.provider = "CODEX"
      /\ polAttempt.stage = "REVIEW" /\ adapter'.startable /\ adapter'.provider = author => adapter'.eligible \subseteq {author}
  <2> DEFINE provider == CASE Pol!Manager -> "CODEX"
                           [] ~Pol!Manager /\ environment = "INVALID" -> "CODEX"
                           [] ~Pol!Manager /\ environment # "INVALID" ->
                                  IF Pol!Override # "NONE" THEN Pol!Override
                                  ELSE IF preference # "AUTO" THEN preference ELSE Pol!First
             startable == ready[provider] /\ environment # "INVALID" /\ (Pol!Manager => Pol!Override \in {"NONE", "CODEX"})
             eligible == IF Pol!Override = "NONE" /\ preference = "AUTO" THEN Pol!Eligible ELSE {}
  <2>1. provider \in Pol!AgentProvider /\ (Pol!Manager => provider = "CODEX")
    <3>1. CASE Pol!Manager
      BY <3>1 DEF Pol!AgentProvider
    <3>2. CASE ~Pol!Manager /\ environment = "INVALID"
      BY <3>2 DEF Pol!AgentProvider
    <3>3. CASE ~Pol!Manager /\ environment # "INVALID"
      <4>1. provider = IF Pol!Override # "NONE" THEN Pol!Override ELSE IF preference # "AUTO" THEN preference ELSE Pol!First
        BY <3>3
      <4> QED BY <1>3, <1>5, <3>3, <4>1, PolicyTypes
    <3> QED BY <3>1, <3>2, <3>3
  <2>2. eligible \subseteq Pol!AgentProvider
    BY <1>4
  <2>3. polAttempt.stage = "REVIEW" /\ environment # "INVALID" /\ provider = author => eligible \subseteq {author}
    <3>1. SUFFICES ASSUME polAttempt.stage = "REVIEW", environment # "INVALID", provider = author, Pol!Override = "NONE", preference = "AUTO"
                   PROVE  Pol!Eligible \subseteq {author}
      OBVIOUS
    <3>2. ~Pol!Manager
      BY <3>1 DEF Pol!Manager
    <3>3. provider = Pol!First /\ Pol!Avoided = author
      BY <3>1, <3>2 DEF Pol!Avoided
    <3> QED BY <1>5, <3>1, <3>3
  <2>4. adapter' = [provider |-> provider, startable |-> startable, eligible |-> eligible]
    BY <1>1 DEF Pol!Resolved
  <2>5. startable \in BOOLEAN /\ (startable => environment # "INVALID")
    BY <2>1, PolicyTypes
  <2> HIDE DEF provider, startable, eligible
  <2> QED BY <2>1, <2>2, <2>3, <2>4, <2>5
<1>7. Pol!TypeOK'
  BY <1>1, <1>6, PolicyTypes DEF Pol!TypeOK
<1>8. Pol!Manager' = Pol!Manager
  BY <1>1 DEF Pol!Manager
<1>9. RunFits' /\ AdapterFits' /\ SessionFits'
  BY <1>1, <1>2, <1>6, <1>8 DEF PolicyInv, RunFits, AdapterFits, SessionFits
<1> QED BY <1>7, <1>9 DEF PolicyInv

\* What START_AGENT_RUN pins.
LEMMA PinnedFits ==
    ASSUME PolicyBounds, PolicyInv, used < policy.max
    PROVE  /\ Pol!Pinned \in [status : {"NONE", "RUNNING", "ENDED"}, provider : Pol!AgentProvider \cup {"NONE"},
                access : {"NONE", "READ_ONLY", "READ_WRITE"}, tools : SUBSET polTool, max : Nat, used : Nat]
           /\ Pol!Pinned.status = "RUNNING" /\ Pol!Pinned.provider = adapter.provider
           /\ Pol!Pinned.used < Pol!Pinned.max
           /\ Pol!Manager => Pol!Pinned.access = "NONE" /\ Pol!Pinned.tools = {} /\ Pol!Pinned.max <= ManagerCap
<1>1. /\ Pol!AgentCap \in Nat \ {0}
      /\ Pol!Manager => Pol!AgentCap <= ManagerCap
  <2> DEFINE requested == IF policy.agentMax # 0 THEN policy.agentMax ELSE IF Pol!Manager THEN ManagerCap ELSE ProfileCap
  <2>1. requested \in Nat \ {0}
    BY PolicyTypes DEF PolicyBounds
  <2>2. Pol!AgentCap = IF Pol!Manager THEN Pol!Least(requested, ManagerCap) ELSE requested
    BY DEF Pol!AgentCap
  <2> HIDE DEF requested
  <2> QED BY <2>1, <2>2 DEF PolicyBounds, Pol!Least
<1>2. Pol!Remaining \in Nat \ {0}
  BY PolicyTypes DEF Pol!Remaining
<1>3. /\ Pol!Least(Pol!AgentCap, Pol!Remaining) \in Nat \ {0}
      /\ Pol!Manager => Pol!Least(Pol!AgentCap, Pol!Remaining) <= ManagerCap
  BY <1>1, <1>2 DEF Pol!Least, PolicyBounds
<1>4. Pol!Access \in {"NONE", "READ_ONLY", "READ_WRITE"}
  <2>1. CASE "REPOSITORY_WRITE" \in Pol!Capabilities
    BY <2>1 DEF Pol!Access
  <2>2. CASE "REPOSITORY_WRITE" \notin Pol!Capabilities /\ "REPOSITORY_READ" \in Pol!Capabilities
    BY <2>2 DEF Pol!Access
  <2>3. CASE Pol!Capabilities \cap {"REPOSITORY_WRITE", "REPOSITORY_READ"} = {}
    <3>1. "REPOSITORY_WRITE" \notin Pol!Capabilities /\ "REPOSITORY_READ" \notin Pol!Capabilities
      BY <2>3
    <3> QED BY <2>3, <3>1 DEF Pol!Access
  <2> QED BY <2>1, <2>2, <2>3
<1>5. Pol!Manager => Pol!Access = "NONE" /\ "MCP_READ" \notin Pol!Capabilities
  <2>1. ASSUME Pol!Manager PROVE Pol!Capabilities = {}
    <3>1. polAttempt.stage = "PLAN"
      BY <2>1 DEF Pol!Manager
    <3>2. Pol!Allowed = {}
      BY <2>1, <3>1 DEF Pol!Allowed
    <3> QED BY <3>2 DEF Pol!Capabilities
  <2>2. ASSUME Pol!Manager PROVE Pol!Access = "NONE"
    <3>1. /\ "REPOSITORY_WRITE" \notin Pol!Capabilities /\ "REPOSITORY_READ" \notin Pol!Capabilities
          /\ Pol!Capabilities \cap {"REPOSITORY_WRITE", "REPOSITORY_READ"} = {}
      BY <2>1, <2>2
    <3> QED BY <3>1 DEF Pol!Access
  <2> QED BY <2>1, <2>2
<1> DEFINE aTools == IF "MCP_READ" \in Pol!Capabilities THEN Pol!Granted ELSE {}
<1>6. aTools \subseteq polTool /\ (Pol!Manager => aTools = {})
  BY <1>5 DEF Pol!Granted
<1>7. Pol!Pinned = [status |-> "RUNNING", provider |-> adapter.provider, access |-> Pol!Access, tools |-> aTools,
                    max |-> Pol!Least(Pol!AgentCap, Pol!Remaining), used |-> 0]
  BY DEF Pol!Pinned
<1>8. adapter.provider \in Pol!AgentProvider \cup {"NONE"}
  BY PolicyTypes
<1> HIDE DEF aTools
<1> QED BY <1>3, <1>4, <1>5, <1>6, <1>7, <1>8

\* The invariant outlives StartAgentRun.
LEMMA PolStartKeeps == ASSUME PolicyBounds, PolicyInv, Pol!StartAgentRun PROVE PolicyInv'
<1>1. /\ polAttempt.status = "QUEUED" /\ adapter # Pol!NoAdapter /\ squad' = Pol!Assigned
      /\ UNCHANGED <<environment, ready, preference, polGrant, policy, used, author, polSession, changes>>
  BY DEF Pol!StartAgentRun
<1>2. squad' \in {"NONE", "STANDARD", "CODE_BLIND", "LEGACY"} /\ (squad' = "CODE_BLIND" <=> squad = "CODE_BLIND")
  BY <1>1, PolicyTypes DEF Pol!Assigned
<1>3. polRun.status # "RUNNING" /\ ~polSession.open /\ polSession = Pol!NoSession
  BY <1>1 DEF PolicyInv, RunFits, SessionFits
<1>4. CASE used >= policy.max
  <2>1. polAttempt' = [polAttempt EXCEPT !.status = "HARD_PAUSED"] /\ adapter' = Pol!NoAdapter /\ UNCHANGED polRun
    BY <1>4 DEF Pol!StartAgentRun
  <2>2. polAttempt'.status = "HARD_PAUSED"
        /\ polAttempt' \in [stage : Pol!Stage, status : {"QUEUED", "RUNNING", "WAITING_HUMAN", "HARD_PAUSED",
                                                 "INTERRUPTED", "SUCCEEDED"}, started : BOOLEAN]
    BY <2>1, PolicyTypes
  <2>3. Pol!TypeOK'
    BY <1>1, <1>2, <2>1, <2>2, PolicyTypes, NothingTyped DEF Pol!TypeOK
  <2>4. RunFits' /\ AdapterFits' /\ SessionFits'
    BY <1>1, <1>3, <2>1, <2>2 DEF RunFits, AdapterFits, SessionFits
  <2> QED BY <2>3, <2>4 DEF PolicyInv
<1>5. CASE ~(used >= policy.max)
  <2>1. polAttempt' = [polAttempt EXCEPT !.status = "RUNNING", !.started = TRUE] /\ polRun' = Pol!Pinned /\ UNCHANGED adapter
    BY <1>5 DEF Pol!StartAgentRun
  <2>2. /\ polAttempt'.status = "RUNNING" /\ polAttempt'.stage = polAttempt.stage
        /\ polAttempt' \in [stage : Pol!Stage, status : {"QUEUED", "RUNNING", "WAITING_HUMAN", "HARD_PAUSED",
                                                 "INTERRUPTED", "SUCCEEDED"}, started : BOOLEAN]
    BY <2>1, PolicyTypes
  <2>3. used < policy.max
    BY <1>5, PolicyTypes
  <2>4. /\ polRun' \in [status : {"NONE", "RUNNING", "ENDED"}, provider : Pol!AgentProvider \cup {"NONE"},
                access : {"NONE", "READ_ONLY", "READ_WRITE"}, tools : SUBSET polTool, max : Nat, used : Nat]
        /\ polRun'.status = "RUNNING" /\ polRun'.provider = adapter.provider /\ polRun'.used < polRun'.max
        /\ Pol!Manager => polRun'.access = "NONE" /\ polRun'.tools = {} /\ polRun'.max <= ManagerCap
    BY <2>1, <2>3, PinnedFits
  <2>5. Pol!TypeOK'
    BY <1>1, <1>2, <2>1, <2>2, <2>4, PolicyTypes DEF Pol!TypeOK
  <2>6. Pol!Manager' = Pol!Manager
    BY <1>2, <2>2 DEF Pol!Manager
  <2>7. RunFits' /\ AdapterFits' /\ SessionFits'
    BY <1>1, <1>3, <2>1, <2>2, <2>3, <2>4, <2>6 DEF PolicyInv, RunFits, AdapterFits, SessionFits
  <2> QED BY <2>5, <2>7 DEF PolicyInv
<1> QED BY <1>4, <1>5

\* The invariant outlives Refuse and Restart.
LEMMA RefuseKeeps == ASSUME PolicyBounds, PolicyInv, Pol!Refuse \/ Pol!Restart PROVE PolicyInv'
<1>1. CASE Pol!Refuse
  <2>1. polAttempt' = [polAttempt EXCEPT !.status = "WAITING_HUMAN"]
    BY <1>1 DEF Pol!Refuse
  <2>2. polAttempt' \in [stage : Pol!Stage, status : {"QUEUED", "WAITING_HUMAN", "HARD_PAUSED", "INTERRUPTED", "SUCCEEDED"}, started : BOOLEAN]
    BY <2>1, PolicyTypes
  <2> QED BY <1>1, <2>2, PolicyTypes, OverKeeps DEF Pol!Refuse, Pol!Working, PolicyInv, SessionFits
<1>2. CASE Pol!Restart
  <2>1. polAttempt' = [polAttempt EXCEPT !.status = "INTERRUPTED"]
    BY <1>2 DEF Pol!Restart
  <2>2. polAttempt' \in [stage : Pol!Stage, status : {"QUEUED", "WAITING_HUMAN", "HARD_PAUSED", "INTERRUPTED", "SUCCEEDED"}, started : BOOLEAN]
    BY <2>1, PolicyTypes
  <2> QED BY <1>2, <2>2, PolicyTypes, NothingTyped, OverKeeps DEF Pol!Restart
<1> QED BY <1>1, <1>2

\* The invariant outlives OpenSession.
LEMMA OpenKeeps == ASSUME PolicyBounds, PolicyInv, Pol!OpenSession PROVE PolicyInv'
<1>1. /\ polAttempt.status = "RUNNING" /\ adapter # Pol!NoAdapter /\ adapter.startable
      /\ polSession' = [open |-> TRUE, provider |-> adapter.provider, tools |-> Pol!Snapshots,
                     granted |-> Pol!Granted, eligible |-> adapter.eligible]
      /\ UNCHANGED <<squad, environment, ready, preference, polGrant, polAttempt, adapter, policy, used, polRun, author, changes>>
  BY DEF Pol!OpenSession, Pol!Working
<1>2. Pol!Snapshots = polRun.tools \cap Pol!Granted /\ Pol!Granted \subseteq polTool
  BY DEF Pol!Snapshots, Pol!Granted
<1>3. adapter.provider \in Pol!AgentProvider \cup {"NONE"} /\ adapter.eligible \subseteq Pol!AgentProvider
  BY PolicyTypes
<1>4. polSession' \in [open : BOOLEAN, provider : Pol!AgentProvider \cup {"NONE"}, tools : SUBSET polTool,
                    granted : SUBSET polTool, eligible : SUBSET Pol!AgentProvider]
  BY <1>1, <1>2, <1>3
<1>5. Pol!TypeOK'
  BY <1>1, <1>4, PolicyTypes DEF Pol!TypeOK
<1>6. polRun.status = "RUNNING" /\ Pol!Manager' = Pol!Manager
  BY <1>1 DEF PolicyInv, RunFits, Pol!Manager
<1>7. SessionFits'
  BY <1>1, <1>2, <1>6 DEF SessionFits
<1>8. RunFits' /\ AdapterFits'
  BY <1>1, <1>6 DEF PolicyInv, RunFits, AdapterFits
<1> QED BY <1>5, <1>7, <1>8 DEF PolicyInv

\* The invariant outlives Throw and Withdraw.
LEMMA WithdrawKeeps == ASSUME PolicyBounds, PolicyInv, Pol!Throw \/ Pol!Withdraw PROVE PolicyInv'
<1>1. /\ adapter' = Pol!NoAdapter /\ (~polSession.open \/ polAttempt.status = "QUEUED")
      /\ UNCHANGED <<squad, environment, ready, preference, polGrant, polAttempt, policy, used, polRun, author, polSession, changes>>
  BY DEF Pol!Throw, Pol!Withdraw, Pol!Working
<1>2. ~polSession.open /\ polSession = Pol!NoSession /\ Pol!Manager' = Pol!Manager
  BY <1>1 DEF PolicyInv, RunFits, SessionFits, Pol!Manager
<1>3. Pol!TypeOK'
  BY <1>1, PolicyTypes, NothingTyped DEF Pol!TypeOK
<1>4. RunFits' /\ AdapterFits' /\ SessionFits'
  BY <1>1, <1>2 DEF PolicyInv, RunFits, AdapterFits, SessionFits
<1> QED BY <1>3, <1>4 DEF PolicyInv

\* The invariant outlives StageResult.
LEMMA PolResultKeeps == ASSUME PolicyBounds, PolicyInv, Pol!StageResult PROVE PolicyInv'
<1>1. PICK amount \in 0 .. MaxReport :
         /\ Pol!Reports(amount)
         /\ \/ \E next \in Pol!Follows(polAttempt.stage) :
                  polAttempt' = [stage |-> next, status |-> IF Pol!Exhausts(amount) THEN "HARD_PAUSED" ELSE "QUEUED",
                              started |-> FALSE]
            \/ polAttempt.stage = "ACCEPTANCE" /\ polAttempt' = [polAttempt EXCEPT !.status = "SUCCEEDED"]
            \/ polAttempt' = [polAttempt EXCEPT !.status = "WAITING_HUMAN"]
  BY DEF Pol!StageResult
<1>2. used' \in Nat
  BY <1>1, PolicyTypes DEF Pol!Reports, PolicyBounds
<1>3. Pol!Follows(polAttempt.stage) \subseteq Pol!Stage
  <2>1. polAttempt.stage \in Pol!Stage
    BY PolicyTypes
  <2> QED BY <2>1 DEF Pol!Follows, Pol!Stage
<1>4. polAttempt' \in [stage : Pol!Stage, status : {"QUEUED", "WAITING_HUMAN", "HARD_PAUSED", "INTERRUPTED", "SUCCEEDED"}, started : BOOLEAN]
  <2>1. CASE \E next \in Pol!Follows(polAttempt.stage) :
                  polAttempt' = [stage |-> next, status |-> IF Pol!Exhausts(amount) THEN "HARD_PAUSED" ELSE "QUEUED",
                              started |-> FALSE]
    BY <1>3, <2>1
  <2>2. CASE polAttempt' = [polAttempt EXCEPT !.status = "SUCCEEDED"]
    BY <2>2, PolicyTypes
  <2>3. CASE polAttempt' = [polAttempt EXCEPT !.status = "WAITING_HUMAN"]
    BY <2>3, PolicyTypes
  <2> QED BY <1>1, <2>1, <2>2, <2>3
<1>5. /\ author' \in Pol!AgentProvider \cup {"NONE"} /\ polRun' = Pol!Ended /\ polSession' = Pol!NoSession /\ adapter' = Pol!NoAdapter
      /\ UNCHANGED <<squad, environment, ready, preference, polGrant, policy, changes>>
  BY PolicyTypes DEF Pol!StageResult
<1>6. ~polSession'.open /\ polSession' \in [open : BOOLEAN, provider : Pol!AgentProvider \cup {"NONE"}, tools : SUBSET polTool,
                    granted : SUBSET polTool, eligible : SUBSET Pol!AgentProvider]
  BY <1>5, NothingTyped
<1> QED BY <1>2, <1>4, <1>5, <1>6, OverKeeps

\* The invariant outlives SessionEnds.
LEMMA EndsKeeps == ASSUME PolicyBounds, PolicyInv, Pol!SessionEnds PROVE PolicyInv'
<1>1. PICK amount \in 0 .. MaxReport :
         /\ Pol!Reports(amount)
         /\ IF Pol!Exhausts(amount)
            THEN /\ polAttempt' = [polAttempt EXCEPT !.status = "HARD_PAUSED"]
                 /\ polRun' = Pol!Ended /\ adapter' = Pol!NoAdapter
            ELSE /\ polRun' = [polRun EXCEPT !.used = @ + amount]
                 /\ UNCHANGED <<polAttempt, adapter>>
  BY DEF Pol!SessionEnds
<1>2. used' = used + amount /\ used' \in Nat /\ amount \in Nat
  BY <1>1, PolicyTypes DEF Pol!Reports, PolicyBounds
<1>3. /\ polSession.open /\ polSession' = Pol!NoSession
      /\ UNCHANGED <<squad, environment, ready, preference, polGrant, policy, author, changes>>
  BY DEF Pol!SessionEnds
<1>4. ~polSession'.open /\ polSession' \in [open : BOOLEAN, provider : Pol!AgentProvider \cup {"NONE"}, tools : SUBSET polTool,
                    granted : SUBSET polTool, eligible : SUBSET Pol!AgentProvider]
  BY <1>3, NothingTyped
<1>5. CASE Pol!Exhausts(amount)
  <2>1. polAttempt' = [polAttempt EXCEPT !.status = "HARD_PAUSED"] /\ polRun' = Pol!Ended /\ adapter' = Pol!NoAdapter
    BY <1>1, <1>5
  <2>2. polAttempt' \in [stage : Pol!Stage, status : {"QUEUED", "WAITING_HUMAN", "HARD_PAUSED", "INTERRUPTED", "SUCCEEDED"}, started : BOOLEAN]
    BY <2>1, PolicyTypes
  <2>3. author' \in Pol!AgentProvider \cup {"NONE"}
    BY <1>3, PolicyTypes
  <2> QED BY <1>2, <1>3, <1>4, <2>1, <2>2, <2>3, OverKeeps
<1>6. CASE ~Pol!Exhausts(amount)
  <2>1. polRun' = [polRun EXCEPT !.used = @ + amount] /\ UNCHANGED <<polAttempt, adapter>>
    BY <1>1, <1>6
  <2>2. /\ polRun'.used = polRun.used + amount /\ polRun'.max = polRun.max /\ polRun'.status = polRun.status /\ polRun'.provider = polRun.provider
        /\ polRun'.access = polRun.access /\ polRun'.tools = polRun.tools
        /\ polRun' \in [status : {"NONE", "RUNNING", "ENDED"}, provider : Pol!AgentProvider \cup {"NONE"},
                access : {"NONE", "READ_ONLY", "READ_WRITE"}, tools : SUBSET polTool, max : Nat, used : Nat]
    BY <1>2, <2>1, PolicyTypes
  <2>3. polRun.used \in Nat /\ polRun.max \in Nat
    BY PolicyTypes
  <2>4. used + amount < policy.max /\ polRun.used + amount < polRun.max
    BY <1>2, <1>6, <2>3, PolicyTypes DEF Pol!Exhausts
  <2>5. Pol!TypeOK'
    BY <1>2, <1>3, <1>4, <2>1, <2>2, PolicyTypes DEF Pol!TypeOK
  <2>6. Pol!Manager' = Pol!Manager
    BY <1>3, <2>1 DEF Pol!Manager
  <2>7. RunFits' /\ AdapterFits' /\ SessionFits'
    BY <1>2, <1>3, <1>4, <2>1, <2>2, <2>4, <2>6 DEF PolicyInv, RunFits, AdapterFits, SessionFits
  <2> QED BY <2>5, <2>7 DEF PolicyInv
<1> QED BY <1>5, <1>6

\* The invariant outlives Requeue and ApproveBudgetOverride.
LEMMA PolOwnerKeeps == ASSUME PolicyBounds, PolicyInv, Pol!Requeue \/ Pol!ApproveBudgetOverride PROVE PolicyInv'
<1>1. /\ polAttempt.status # "RUNNING" /\ polAttempt'.status = "QUEUED" /\ polAttempt'.stage = polAttempt.stage
      /\ polAttempt' \in [stage : Pol!Stage, status : {"QUEUED", "RUNNING", "WAITING_HUMAN", "HARD_PAUSED",
                                                 "INTERRUPTED", "SUCCEEDED"}, started : BOOLEAN]
      /\ policy' \in [max : 1 .. MaxTokens, agentMax : 0 .. MaxTokens]
      /\ UNCHANGED <<squad, environment, ready, preference, polGrant, adapter, used, polRun, author, polSession, changes>>
  <2>1. CASE Pol!Requeue
    BY <2>1, PolicyTypes DEF Pol!Requeue
  <2>2. CASE Pol!ApproveBudgetOverride
    <3>1. PICK max \in policy.max .. MaxTokens, agentMax \in 0 .. MaxTokens : policy' = [max |-> max, agentMax |-> agentMax]
      BY <2>2 DEF Pol!ApproveBudgetOverride
    <3>2. policy.max \in 1 .. MaxTokens
      BY PolicyTypes
    <3>3. max \in 1 .. MaxTokens
      BY <3>2 DEF PolicyBounds
    <3>4. policy' \in [max : 1 .. MaxTokens, agentMax : 0 .. MaxTokens]
      BY <3>1, <3>3
    <3> QED BY <2>2, <3>4, PolicyTypes DEF Pol!ApproveBudgetOverride
  <2> QED BY <2>1, <2>2
<1>2. polRun.status # "RUNNING" /\ ~polSession.open /\ polSession = Pol!NoSession /\ Pol!Manager' = Pol!Manager
  BY <1>1 DEF PolicyInv, RunFits, SessionFits, Pol!Manager
<1>3. Pol!TypeOK'
  BY <1>1, PolicyTypes DEF Pol!TypeOK
<1>4. RunFits' /\ AdapterFits' /\ SessionFits'
  BY <1>1, <1>2 DEF PolicyInv, RunFits, AdapterFits, SessionFits
<1> QED BY <1>3, <1>4 DEF PolicyInv

\* The invariant outlives ChangePreference, Refresh and ChangeGrant.
LEMMA ChangeKeeps == ASSUME PolicyBounds, PolicyInv, Pol!ChangePreference \/ Pol!Refresh \/ Pol!ChangeGrant PROVE PolicyInv'
<1>1. UNCHANGED <<squad, environment, polAttempt, adapter, policy, used, polRun, author, polSession>> /\ changes' \in 0 .. MaxChanges
  BY PolicyTypes DEF Pol!ChangePreference, Pol!Refresh, Pol!ChangeGrant, Pol!Changes, PolicyBounds
<1>2. preference' \in Pol!AgentProvider \cup {"AUTO"} /\ ready' \in [Pol!AgentProvider -> BOOLEAN]
      /\ polGrant' \in [polTool -> {"NONE", "ENABLED", "REVOKED"}]
  BY PolicyTypes DEF Pol!ChangePreference, Pol!Refresh, Pol!ChangeGrant
<1>3. Pol!TypeOK'
  BY <1>1, <1>2, PolicyTypes DEF Pol!TypeOK
<1>4. Pol!Manager' = Pol!Manager
  BY <1>1 DEF Pol!Manager
<1>5. RunFits' /\ AdapterFits' /\ SessionFits'
  BY <1>1, <1>4 DEF PolicyInv, RunFits, AdapterFits, SessionFits
<1> QED BY <1>3, <1>5 DEF PolicyInv

\* No step breaks the invariant.
LEMMA PolicyStep == ASSUME PolicyBounds, PolicyInv, [Pol!Next]_(Pol!vars) PROVE PolicyInv'
<1>1. CASE UNCHANGED Pol!vars
  <2>1. UNCHANGED <<squad, environment, ready, preference, polGrant, polAttempt, adapter, policy, used, polRun, author, polSession, changes>>
    BY <1>1 DEF Pol!vars
  <2>2. Pol!TypeOK'
    BY <2>1, PolicyTypes DEF Pol!TypeOK
  <2>3. RunFits' /\ AdapterFits' /\ SessionFits'
    BY <2>1 DEF PolicyInv, RunFits, AdapterFits, SessionFits, Pol!Manager
  <2> QED BY <2>2, <2>3 DEF PolicyInv
<1>2. CASE Pol!Next
  BY <1>2, ScheduleKeeps, PolStartKeeps, RefuseKeeps, OpenKeeps, WithdrawKeeps, PolResultKeeps, EndsKeeps, PolOwnerKeeps, ChangeKeeps DEF Pol!Next
<1> QED BY <1>1, <1>2

\* The invariant holds before the first AgentRun.
LEMMA PolicyBegins == ASSUME PolicyBounds, Pol!Init PROVE PolicyInv
<1>1. polAttempt = [stage |-> "PLAN", status |-> "QUEUED", started |-> FALSE] /\ adapter = Pol!NoAdapter /\ polRun = Pol!NoRun
      /\ polSession = Pol!NoSession /\ policy = [max |-> InitialMax, agentMax |-> 0] /\ used = 0 /\ author = "NONE" /\ changes = 0
  BY DEF Pol!Init
<1>2. polAttempt \in [stage : Pol!Stage, status : {"QUEUED", "RUNNING", "WAITING_HUMAN", "HARD_PAUSED",
                                                 "INTERRUPTED", "SUCCEEDED"}, started : BOOLEAN]
      /\ policy \in [max : 1 .. MaxTokens, agentMax : 0 .. MaxTokens] /\ changes \in 0 .. MaxChanges
  <2>1. polAttempt \in [stage : Pol!Stage, status : {"QUEUED", "RUNNING", "WAITING_HUMAN", "HARD_PAUSED",
                                                 "INTERRUPTED", "SUCCEEDED"}, started : BOOLEAN]
    BY <1>1 DEF Pol!Stage
  <2>2. 0 \in 0 .. MaxTokens /\ 0 \in 0 .. MaxChanges
    BY DEF PolicyBounds
  <2>3. policy \in [max : 1 .. MaxTokens, agentMax : 0 .. MaxTokens]
    BY <1>1, <2>2 DEF PolicyBounds
  <2> QED BY <1>1, <2>1, <2>2, <2>3
<1>3. /\ squad \in {"NONE", "STANDARD", "CODE_BLIND", "LEGACY"} /\ environment \in Pol!AgentProvider \cup {"NONE", "INVALID"}
      /\ ready \in [Pol!AgentProvider -> BOOLEAN] /\ preference \in Pol!AgentProvider \cup {"AUTO"}
      /\ polGrant \in [polTool -> {"NONE", "ENABLED", "REVOKED"}]
  BY DEF Pol!Init, Pol!AgentProvider
<1>4. Pol!TypeOK
  BY <1>1, <1>2, <1>3, NothingTyped DEF Pol!TypeOK
<1>5. RunFits /\ AdapterFits /\ SessionFits
  BY <1>1, NothingTyped DEF RunFits, AdapterFits, SessionFits
<1> QED BY <1>4, <1>5 DEF PolicyInv

\* The properties follow from the invariant.
LEMMA PolicyFollows ==
    PolicyInv => /\ Pol!CoordinatorIsBlind /\ Pol!ToolsAreConsented
                 /\ Pol!ReviewerIsIndependent /\ Pol!SessionIsFunded
<1>1. ASSUME PolicyInv PROVE Pol!CoordinatorIsBlind
  BY <1>1 DEF PolicyInv, RunFits, AdapterFits, SessionFits, Pol!CoordinatorIsBlind
<1>2. ASSUME PolicyInv PROVE Pol!ToolsAreConsented /\ Pol!SessionIsFunded
  <2>1. Pol!NoSession.tools = {} /\ ~Pol!NoSession.open
    BY DEF Pol!NoSession
  <2> QED BY <1>2, <2>1 DEF PolicyInv, RunFits, AdapterFits, SessionFits, Pol!ToolsAreConsented, Pol!SessionIsFunded
<1>3. ASSUME PolicyInv PROVE Pol!ReviewerIsIndependent
  BY <1>3 DEF PolicyInv, AdapterFits, SessionFits, Pol!ReviewerIsIndependent
<1> QED BY <1>1, <1>2, <1>3

\* The invariant of AgentPolicy, for all tools, budgets and caps.
THEOREM PolicyInvariant == ASSUME PolicyBounds PROVE Pol!Spec => []PolicyInv
<1>1. Pol!Init => PolicyInv
  BY PolicyBegins
<1>2. PolicyInv /\ [Pol!Next]_(Pol!vars) => PolicyInv'
  BY PolicyStep
<1> QED BY <1>1, <1>2, PTL DEF Pol!Spec

\* A session works under the policy that its AgentRun pinned, whatever the owner changes meanwhile.
THEOREM PolicyIsKept ==
    ASSUME PolicyBounds PROVE Pol!Spec => []Pol!CoordinatorIsBlind /\ []Pol!ToolsAreConsented /\ []Pol!ReviewerIsIndependent /\ []Pol!SessionIsFunded
  BY PolicyInvariant, PolicyFollows, PTL

----
(* ActivityRecorder *)

CONSTANTS Action, QueueLimit, TableLimit, CrashAfterFinish
VARIABLES agentRun, table, counters, feed, queue, draining, timer, live, accepted, logged, expired, recPhase
Rec == INSTANCE ActivityRecorder WITH phase <- recPhase

\* The limits of the recorder, and a daemon that does not die between the end of an AgentRun and its last drain.
RecorderBounds == QueueLimit \in Nat /\ TableLimit \in Nat /\ CrashAfterFinish = FALSE

\* A session that is gone left nothing to drain.
NothingLeft == live = "none" => ~timer /\ ~draining /\ queue = <<>>

\* A daemon that is down has no session.
DownHasNone == recPhase = "down" => live = "none"

\* A session that leaves has its last drain under way.
LeavingDrains == live = "leaving" => draining

\* and no other that waits for its timer.
LeavingHasNoTimer == live = "leaving" => ~timer

\* A mark that was written is stored, until the run's rows are deleted.
WrittenIsStored == feed.written => counters.degraded \/ expired

\* A feed that no session will mark any more could not be marked, and the log says so.
UnmarkedIsLogged == feed.degraded /\ ~feed.written /\ live = "none" => logged

\* What excuses a feed for a report that it lost.
Excused == counters.degraded \/ logged \/ Rec!MarkIsDue

\* The actions that miss a report are the rows counted as omitted, at most.
Counted == Rec!Cardinality(Rec!Missing) <= counters.omitted

RecorderInv ==
    /\ Rec!TypeOK
    /\ NothingLeft
    /\ DownHasNone
    /\ LeavingDrains
    /\ LeavingHasNoTimer
    /\ WrittenIsStored
    /\ UnmarkedIsLogged
    /\ (expired \/ Counted \/ Excused)

----
\* A row that is appended to rows of other actions leaves every action with one row.
LEMMA UpsertedRows ==
    ASSUME NEW rows \in Seq(Rec!Row), NEW report \in Rec!Report,
           \A i, j \in DOMAIN rows : rows[i].action = rows[j].action => i = j
    PROVE  LET after == Rec!Upserted(rows, report) IN
           /\ after \in Seq(Rec!Row)
           /\ Len(after) \in {Len(rows), Len(rows) + 1}
           /\ \A i, j \in DOMAIN after : after[i].action = after[j].action => i = j
           /\ \A i \in DOMAIN rows : i \in DOMAIN after /\ after[i].action = rows[i].action /\ rows[i].reports \subseteq after[i].reports
           /\ \E i \in DOMAIN after : after[i].action = report[1] /\ report[2] \in after[i].reports
<1> DEFINE after == Rec!Upserted(rows, report)
<1> DEFINE new == [action |-> report[1], reports |-> {report[2]}]
<1>1. report[1] \in Action /\ report[2] \in {"start", "end"}
  BY DEF Rec!Report
<1>2. new \in Rec!Row /\ new.action = report[1] /\ report[2] \in new.reports
  BY <1>1 DEF Rec!Row
<1>3. CASE \E i \in DOMAIN rows : rows[i].action = report[1]
  <2>1. PICK k \in DOMAIN rows : rows[k].action = report[1]
    BY <1>3
  <2> DEFINE joined(i) == IF rows[i].action = report[1] THEN [rows[i] EXCEPT !.reports = @ \cup {report[2]}] ELSE rows[i]
  <2>2. after = [i \in DOMAIN rows |-> joined(i)]
    BY <1>3 DEF Rec!Upserted
  <2>3. ASSUME NEW i \in DOMAIN rows
        PROVE  joined(i) \in Rec!Row /\ joined(i).action = rows[i].action /\ rows[i].reports \subseteq joined(i).reports
    <3>1. rows[i] \in Rec!Row
      OBVIOUS
    <3> QED BY <3>1, <1>1 DEF Rec!Row
  <2>4. joined(k).action = report[1] /\ report[2] \in joined(k).reports
    <3>1. rows[k] \in Rec!Row
      OBVIOUS
    <3> QED BY <3>1, <2>1 DEF Rec!Row
  <2>5. DOMAIN rows = 1 .. Len(rows) /\ Len(rows) \in Nat
    OBVIOUS
  <2> HIDE DEF joined, after
  <2>6. after \in Seq(Rec!Row) /\ Len(after) = Len(rows) /\ DOMAIN after = DOMAIN rows
    BY <2>2, <2>3, <2>5
  <2>7. \A i \in DOMAIN rows : after[i] = joined(i)
    BY <2>2
  <2>8. \A i, j \in DOMAIN after : after[i].action = after[j].action => i = j
    BY <2>3, <2>6, <2>7
  <2>9. \A i \in DOMAIN rows : i \in DOMAIN after /\ after[i].action = rows[i].action /\ rows[i].reports \subseteq after[i].reports
    BY <2>3, <2>6, <2>7
  <2>10. \E i \in DOMAIN after : after[i].action = report[1] /\ report[2] \in after[i].reports
    BY <2>1, <2>4, <2>6, <2>7
  <2> QED BY <2>6, <2>8, <2>9, <2>10 DEF after
<1>4. CASE ~\E i \in DOMAIN rows : rows[i].action = report[1]
  <2>1. after = Append(rows, new)
    BY <1>4 DEF Rec!Upserted
  <2> HIDE DEF after
  <2>2. /\ after \in Seq(Rec!Row) /\ Len(after) = Len(rows) + 1
        /\ DOMAIN after = 1 .. Len(rows) + 1 /\ DOMAIN rows = 1 .. Len(rows) /\ Len(rows) \in Nat
    BY <2>1, <1>2
  <2> HIDE DEF new
  <2>3. (\A i \in DOMAIN rows : after[i] = rows[i]) /\ after[Len(rows) + 1] = new
    BY <2>1, <2>2
  <2>4. \A i, j \in DOMAIN after : after[i].action = after[j].action => i = j
    <3> SUFFICES ASSUME NEW i \in DOMAIN after, NEW j \in DOMAIN after, after[i].action = after[j].action PROVE i = j
      OBVIOUS
    <3>1. CASE i \in DOMAIN rows /\ j \in DOMAIN rows
      BY <3>1, <2>3
    <3>2. CASE i \in DOMAIN rows /\ j \notin DOMAIN rows
      <4>1. j = Len(rows) + 1
        BY <3>2, <2>2
      <4>2. rows[i].action = new.action
        BY <3>2, <4>1, <2>3
      <4> QED BY <4>2, <3>2, <1>2, <1>4
    <3>3. CASE i \notin DOMAIN rows /\ j \in DOMAIN rows
      <4>1. i = Len(rows) + 1
        BY <3>3, <2>2
      <4>2. rows[j].action = new.action
        BY <3>3, <4>1, <2>3
      <4> QED BY <4>2, <3>3, <1>2, <1>4
    <3>4. CASE i \notin DOMAIN rows /\ j \notin DOMAIN rows
      BY <3>4, <2>2
    <3> QED BY <3>1, <3>2, <3>3, <3>4
  <2>5. Len(rows) + 1 \in DOMAIN after /\ \A i \in DOMAIN rows : i \in DOMAIN after
    BY <2>2
  <2>6. \E i \in DOMAIN after : after[i].action = report[1] /\ report[2] \in after[i].reports
    BY <2>3, <2>5, <1>2
  <2>7. \A i \in DOMAIN rows : i \in DOMAIN after /\ after[i].action = rows[i].action /\ rows[i].reports \subseteq after[i].reports
    BY <2>3, <2>5
  <2> QED BY <2>2, <2>4, <2>6, <2>7 DEF after
<1> QED BY <1>3, <1>4

\* The tail of rows that have an action each has them too.
LEMMA TailOfRows ==
    ASSUME NEW rows \in Seq(Rec!Row), rows # <<>>,
           \A i, j \in DOMAIN rows : rows[i].action = rows[j].action => i = j
    PROVE  /\ Tail(rows) \in Seq(Rec!Row) /\ Len(Tail(rows)) = Len(rows) - 1
           /\ \A i, j \in DOMAIN Tail(rows) : Tail(rows)[i].action = Tail(rows)[j].action => i = j
           /\ 1 \in DOMAIN rows
           /\ \A i \in DOMAIN rows : i # 1 => i - 1 \in DOMAIN Tail(rows) /\ Tail(rows)[i - 1] = rows[i]
<1>1. /\ Tail(rows) \in Seq(Rec!Row) /\ Len(Tail(rows)) = Len(rows) - 1 /\ Len(rows) \in Nat /\ Len(rows) > 0
      /\ DOMAIN rows = 1 .. Len(rows) /\ DOMAIN Tail(rows) = 1 .. Len(rows) - 1
      /\ \A i \in 1 .. Len(rows) - 1 : Tail(rows)[i] = rows[i + 1]
  OBVIOUS
<1> DEFINE rest == Tail(rows)
<1>r. rest = Tail(rows)
  OBVIOUS
<1> HIDE DEF rest
<1>2. \A i, j \in DOMAIN rest : rest[i].action = rest[j].action => i = j
  <2> SUFFICES ASSUME NEW i \in DOMAIN rest, NEW j \in DOMAIN rest, rest[i].action = rest[j].action PROVE i = j
    OBVIOUS
  <2>1. i + 1 \in DOMAIN rows /\ j + 1 \in DOMAIN rows /\ i \in Nat /\ j \in Nat /\ rest[i] = rows[i + 1] /\ rest[j] = rows[j + 1]
    BY <1>1, <1>r
  <2>2. i + 1 = j + 1
    BY <2>1
  <2> QED BY <2>1, <2>2
<1>3. ASSUME NEW i \in DOMAIN rows, i # 1 PROVE i - 1 \in DOMAIN rest /\ rest[i - 1] = rows[i]
  <2>1. i - 1 \in 1 .. Len(rows) - 1 /\ (i - 1) + 1 = i
    BY <1>1, <1>3
  <2>2. rest[i - 1] = rows[(i - 1) + 1]
    BY <2>1, <1>1, <1>r
  <2> QED BY <2>1, <2>2, <1>1, <1>r
<1> QED BY <1>1, <1>2, <1>3, <1>r

\* What the actions that miss a report are counted by is a number.
LEMMA MissingIsFinite ==
    ASSUME IsFiniteSet(Action), NEW S, S \subseteq Action
    PROVE  IsFiniteSet(S) /\ Rec!Cardinality(S) \in Nat /\ Rec!Cardinality(S) = Cardinality(S)
<1>1. S \in SUBSET Action
  OBVIOUS
<1>2. IsFiniteSet(S)
  BY <1>1, FS_Subset
<1>3. Cardinality(S) \in Nat
  BY <1>2, FS_CardinalityType
<1>4. Rec!Cardinality(S) = Cardinality(S)
  BY DEF Rec!Cardinality, Cardinality
<1> QED BY <1>2, <1>3, <1>4

\* One more row counted as omitted makes up for one more action that misses a report.
LEMMA OneMoreMissing ==
    ASSUME IsFiniteSet(Action), NEW S, S \subseteq Action, NEW T, T \subseteq Action, NEW a \in Action,
           NEW n \in Nat, Rec!Cardinality(S) <= n
    PROVE  /\ T \subseteq S => Rec!Cardinality(T) <= n
           /\ T \subseteq S \cup {a} => Rec!Cardinality(T) <= n + 1
<1>1. IsFiniteSet(S) /\ IsFiniteSet(T) /\ Cardinality(S) \in Nat /\ Cardinality(T) \in Nat /\ Cardinality(S) <= n
      /\ Rec!Cardinality(T) = Cardinality(T)
  BY MissingIsFinite
<1>2. ASSUME T \subseteq S PROVE Cardinality(T) <= Cardinality(S)
  <2>1. T \in SUBSET S
    BY <1>2
  <2> QED BY <2>1, <1>1, FS_Subset
<1>3. ASSUME T \subseteq S \cup {a} PROVE Cardinality(T) <= Cardinality(S) + 1
  <2>1. T \in SUBSET (S \cup {a})
    BY <1>3
  <2>2. IsFiniteSet(S \cup {a}) /\ Cardinality(S \cup {a}) = IF a \in S THEN Cardinality(S) ELSE Cardinality(S) + 1
    BY <1>1, FS_AddElement
  <2>3. Cardinality(T) <= Cardinality(S \cup {a})
    BY <2>1, <2>2, FS_Subset
  <2>4. Cardinality(S \cup {a}) \in Nat
    BY <2>2, FS_CardinalityType
  <2>5. Cardinality(S \cup {a}) <= Cardinality(S) + 1
    BY <2>2, <1>1
  <2> QED BY <2>3, <2>4, <2>5, <1>1
<1> QED BY <1>1, <1>2, <1>3

\* Every action that misses a report is one of the run's.
LEMMA MissingActions == Rec!Missing \subseteq Action
  BY DEF Rec!Missing

\* A step that takes no report from the table or the queue leaves no more actions without one.
LEMMA MissingGoesOn ==
    ASSUME RecorderInv, IsFiniteSet(Action), accepted' = accepted, table' = table, queue' = queue,
           counters'.omitted = counters.omitted, Counted
    PROVE  Counted'
<1>1. Rec!Missing' = Rec!Missing
  BY DEF Rec!Missing, Rec!InTable, Rec!InQueue
<1>2. Rec!Cardinality(Rec!Missing)' = Rec!Cardinality(Rec!Missing)
  BY <1>1 DEF Rec!Cardinality
<1> QED BY <1>2 DEF Counted

----
\* The invariant holds when the AgentRun starts.
LEMMA RecorderInit == ASSUME RecorderBounds, IsFiniteSet(Action), Rec!Init PROVE RecorderInv
<1>a. /\ <<>> \in Seq(Rec!Row) /\ <<>> \in Seq(Rec!Report) /\ Len(<<>>) = 0
      /\ \A i, j \in DOMAIN <<>> : i = j
  OBVIOUS
<1>b. /\ Rec!NoCounters \in [omitted : Nat, degraded : BOOLEAN]
      /\ Rec!NoFeed \in [degraded : BOOLEAN, written : BOOLEAN] /\ ~Rec!NoFeed.written
  BY DEF Rec!NoCounters, Rec!NoFeed
<1>1. Rec!TypeOK
  <2>1. /\ table \in Seq(Rec!Row) /\ queue \in Seq(Rec!Report) /\ Len(table) <= TableLimit /\ Len(queue) <= QueueLimit
        /\ \A i, j \in DOMAIN table : table[i].action = table[j].action => i = j
    BY <1>a DEF RecorderBounds, Rec!Init
  <2> QED BY <2>1, <1>b DEF Rec!Init, Rec!TypeOK
<1>2. Rec!Missing = {}
  BY DEF Rec!Missing, Rec!Init
<1>3. Cardinality({}) = 0 /\ Rec!Cardinality(Rec!Missing) = Cardinality({})
  BY <1>2, FS_EmptySet, MissingIsFinite
<1>4. Counted
  BY <1>3 DEF Counted, Rec!Init, Rec!NoCounters
<1> QED BY <1>1, <1>4 DEF RecorderInv, NothingLeft, DownHasNone, LeavingDrains, LeavingHasNoTimer, WrittenIsStored, UnmarkedIsLogged,
                     Rec!Init, Rec!NoFeed

\* The types of what a step finds.
LEMMA RecorderFacts ==
    ASSUME RecorderBounds, RecorderInv
    PROVE  /\ QueueLimit \in Nat /\ TableLimit \in Nat
           /\ table \in Seq(Rec!Row) /\ Len(table) <= TableLimit
           /\ \A i, j \in DOMAIN table : table[i].action = table[j].action => i = j
           /\ counters \in [omitted : Nat, degraded : BOOLEAN] /\ counters.omitted \in Nat
           /\ feed \in [degraded : BOOLEAN, written : BOOLEAN]
           /\ queue \in Seq(Rec!Report) /\ Len(queue) <= QueueLimit
  BY DEF RecorderBounds, RecorderInv, Rec!TypeOK

\* A step that the recorder's excuse outlives.
LEMMA ExcuseGoesOn ==
    ASSUME RecorderInv, IsFiniteSet(Action), accepted' = accepted, table' = table, queue' = queue,
           counters'.omitted = counters.omitted, expired => expired', Excused => Excused'
    PROVE  expired' \/ Counted' \/ Excused'
  BY MissingGoesOn DEF RecorderInv

----
\* A drain that starts keeps the invariant.
LEMMA DrainTimerStep ==
    ASSUME RecorderBounds, IsFiniteSet(Action), RecorderInv, Rec!DrainTimer PROVE RecorderInv'
<1> USE DEF Rec!DrainTimer, Rec!Idle
<1>1. Rec!TypeOK'
  BY DEF RecorderInv, Rec!TypeOK
<1>2. Excused => Excused'
  BY DEF Excused, Rec!MarkIsDue
<1>3. expired' \/ Counted' \/ Excused'
  BY <1>2, ExcuseGoesOn
<1>4. NothingLeft' /\ DownHasNone' /\ LeavingDrains' /\ LeavingHasNoTimer' /\ WrittenIsStored' /\ UnmarkedIsLogged'
  BY DEF RecorderInv, NothingLeft, DownHasNone, LeavingDrains, LeavingHasNoTimer, WrittenIsStored, UnmarkedIsLogged
<1> QED BY <1>1, <1>3, <1>4 DEF RecorderInv

\* The queue's rest, and where its reports went.
LEMMA RestOfQueue ==
    ASSUME queue \in Seq(Rec!Report), queue # <<>>
    PROVE  /\ Tail(queue) \in Seq(Rec!Report) /\ Len(Tail(queue)) <= Len(queue) /\ Head(queue) \in Rec!Report
           /\ \A i \in DOMAIN queue : queue[i] = Head(queue) \/ (i - 1 \in DOMAIN Tail(queue) /\ Tail(queue)[i - 1] = queue[i])
<1>1. /\ Tail(queue) \in Seq(Rec!Report) /\ Len(Tail(queue)) = Len(queue) - 1 /\ Len(queue) \in Nat /\ Len(queue) > 0
      /\ DOMAIN queue = 1 .. Len(queue) /\ DOMAIN Tail(queue) = 1 .. Len(queue) - 1
      /\ \A i \in 1 .. Len(queue) - 1 : Tail(queue)[i] = queue[i + 1]
      /\ Head(queue) = queue[1] /\ Head(queue) \in Rec!Report
  OBVIOUS
<1>2. ASSUME NEW i \in DOMAIN queue, i # 1 PROVE i - 1 \in DOMAIN Tail(queue) /\ Tail(queue)[i - 1] = queue[i]
  <2>1. i - 1 \in 1 .. Len(queue) - 1 /\ (i - 1) + 1 = i
    BY <1>1, <1>2
  <2>2. Tail(queue)[i - 1] = queue[(i - 1) + 1]
    BY <2>1, <1>1
  <2> QED BY <2>1, <2>2, <1>1
<1> QED BY <1>1, <1>2

\* A report that a drain writes leaves no action without a report, but for the one whose row goes over the limit.
LEMMA RecordedKeeps ==
    ASSUME RecorderBounds, IsFiniteSet(Action), RecorderInv, queue # <<>>, queue' = Tail(queue), accepted' = accepted,
           Rec!Recorded(Head(queue))
    PROVE  /\ table' \in Seq(Rec!Row) /\ Len(table') <= TableLimit
           /\ \A i, j \in DOMAIN table' : table'[i].action = table'[j].action => i = j
           /\ counters' \in [omitted : Nat, degraded : BOOLEAN] /\ counters'.degraded = counters.degraded
           /\ Counted => Counted'
<1> DEFINE report == Head(queue)
<1> DEFINE rows == Rec!Upserted(table, report)
<1>1. /\ table \in Seq(Rec!Row) /\ Len(table) <= TableLimit /\ TableLimit \in Nat
      /\ \A i, j \in DOMAIN table : table[i].action = table[j].action => i = j
      /\ counters \in [omitted : Nat, degraded : BOOLEAN] /\ counters.omitted \in Nat
      /\ queue \in Seq(Rec!Report)
  BY RecorderFacts
<1>2. /\ report \in Rec!Report
      /\ \A i \in DOMAIN queue : queue[i] = report \/ (i - 1 \in DOMAIN queue' /\ queue'[i - 1] = queue[i])
  BY <1>1, RestOfQueue
<1>a. IF Len(rows) > TableLimit
      THEN table' = Tail(rows) /\ counters' = [counters EXCEPT !.omitted = @ + 1]
      ELSE table' = rows /\ counters' = counters
  BY DEF Rec!Recorded
<1> HIDE DEF report
<1>3. /\ rows \in Seq(Rec!Row)
      /\ Len(rows) \in {Len(table), Len(table) + 1}
      /\ \A i, j \in DOMAIN rows : rows[i].action = rows[j].action => i = j
      /\ \A i \in DOMAIN table : i \in DOMAIN rows /\ rows[i].action = table[i].action /\ table[i].reports \subseteq rows[i].reports
      /\ \E i \in DOMAIN rows : rows[i].action = report[1] /\ report[2] \in rows[i].reports
  BY <1>1, <1>2, UpsertedRows
<1> HIDE DEF rows
<1> DEFINE InRows(one) == \E i \in DOMAIN rows : rows[i].action = one[1] /\ one[2] \in rows[i].reports
<1>4. ASSUME NEW one, Rec!InTable(one) \/ Rec!InQueue(one) PROVE InRows(one) \/ Rec!InQueue(one)'
  <2>1. CASE Rec!InTable(one)
    BY <2>1, <1>3 DEF Rec!InTable
  <2>2. CASE Rec!InQueue(one)
    <3>1. PICK i \in DOMAIN queue : queue[i] = one
      BY <2>2 DEF Rec!InQueue
    <3>2. CASE queue[i] = report
      BY <3>1, <3>2, <1>3
    <3>3. CASE i - 1 \in DOMAIN queue' /\ queue'[i - 1] = queue[i]
      BY <3>1, <3>3 DEF Rec!InQueue
    <3> QED BY <3>2, <3>3, <1>2
  <2> QED BY <1>4, <2>1, <2>2
<1>5. Rec!Missing \subseteq Action /\ Rec!Missing' \subseteq Action
  BY DEF Rec!Missing
<1>6. CASE Len(rows) > TableLimit
  <2>1. table' = Tail(rows) /\ counters' = [counters EXCEPT !.omitted = @ + 1]
    BY <1>6, <1>a
  <2>2. counters' \in [omitted : Nat, degraded : BOOLEAN] /\ counters'.degraded = counters.degraded /\ counters'.omitted = counters.omitted + 1
    BY <2>1, <1>1
  <2>3. rows # <<>> /\ Len(rows) <= TableLimit + 1 /\ Len(rows) \in Nat
    BY <1>6, <1>1, <1>3
  <2>4. /\ table' \in Seq(Rec!Row) /\ Len(table') = Len(rows) - 1
        /\ \A i, j \in DOMAIN table' : table'[i].action = table'[j].action => i = j
        /\ 1 \in DOMAIN rows
        /\ \A i \in DOMAIN rows : i # 1 => i - 1 \in DOMAIN table' /\ table'[i - 1] = rows[i]
    BY <2>1, <2>3, <1>3, TailOfRows
  <2>5. rows[1].action \in Action
    <3>1. rows[1] \in Rec!Row
      BY <2>4, <1>3
    <3> QED BY <3>1 DEF Rec!Row
  <2>6. ASSUME NEW one, InRows(one), one[1] # rows[1].action PROVE Rec!InTable(one)'
    <3>1. PICK i \in DOMAIN rows : rows[i].action = one[1] /\ one[2] \in rows[i].reports
      BY <2>6
    <3>2. i - 1 \in DOMAIN table' /\ table'[i - 1] = rows[i]
      BY <3>1, <2>4, <2>6
    <3> QED BY <3>1, <3>2 DEF Rec!InTable
  <2>7. Rec!Missing' \subseteq Rec!Missing \cup {rows[1].action}
    <3> SUFFICES ASSUME NEW a \in Rec!Missing', a # rows[1].action PROVE a \in Rec!Missing
      OBVIOUS
    <3>1. PICK one \in accepted : a \in Action /\ one[1] = a /\ ~Rec!InTable(one)' /\ ~Rec!InQueue(one)'
      BY DEF Rec!Missing
    <3>2. ~InRows(one)
      BY <3>1, <2>6
    <3> HIDE DEF InRows
    <3>3. ~Rec!InTable(one) /\ ~Rec!InQueue(one)
      BY <3>1, <3>2, <1>4
    <3> QED BY <3>1, <3>3 DEF Rec!Missing
  <2>8. ASSUME Counted PROVE Counted'
    <3>1. Rec!Cardinality(Rec!Missing) <= counters.omitted
      BY <2>8 DEF Counted
    <3> DEFINE S == Rec!Missing  T == Rec!Missing'
    <3>2. S \subseteq Action /\ T \subseteq Action /\ T \subseteq S \cup {rows[1].action} /\ Rec!Cardinality(S) <= counters.omitted
      BY <1>5, <2>7, <3>1
    <3> HIDE DEF S, T
    <3>3. Rec!Cardinality(T) <= counters.omitted + 1
      BY <3>2, <2>5, <1>1, OneMoreMissing
    <3>4. Rec!Cardinality(Rec!Missing)' = Rec!Cardinality(T)
      BY DEF T, Rec!Cardinality
    <3> QED BY <3>3, <3>4, <2>2 DEF Counted
  <2>9. Len(table') <= TableLimit
    BY <2>3, <2>4, <1>1
  <2> QED BY <2>2, <2>4, <2>8, <2>9
<1>7. CASE ~(Len(rows) > TableLimit)
  <2>1. table' = rows /\ counters' = counters
    BY <1>7, <1>a
  <2>2. Rec!Missing' \subseteq Rec!Missing
    <3> SUFFICES ASSUME NEW a \in Rec!Missing' PROVE a \in Rec!Missing
      OBVIOUS
    <3>1. PICK one \in accepted : a \in Action /\ one[1] = a /\ ~Rec!InTable(one)' /\ ~Rec!InQueue(one)'
      BY DEF Rec!Missing
    <3>2. ~InRows(one)
      BY <3>1, <2>1 DEF Rec!InTable
    <3> HIDE DEF InRows
    <3>3. ~Rec!InTable(one) /\ ~Rec!InQueue(one)
      BY <3>1, <3>2, <1>4
    <3> QED BY <3>1, <3>3 DEF Rec!Missing
  <2>3. ASSUME Counted PROVE Counted'
    <3>1. Rec!Cardinality(Rec!Missing) <= counters.omitted
      BY <2>3 DEF Counted
    <3>2. PICK a \in Action : TRUE \/ Rec!Missing = {}
      <4>1. report[1] \in Action
        BY <1>2 DEF Rec!Report
      <4> QED BY <4>1
    <3> DEFINE S == Rec!Missing  T == Rec!Missing'
    <3>3. S \subseteq Action /\ T \subseteq Action /\ T \subseteq S /\ Rec!Cardinality(S) <= counters.omitted
      BY <1>5, <2>2, <3>1
    <3> HIDE DEF S, T
    <3>4. Rec!Cardinality(T) <= counters.omitted
      BY <3>3, <3>2, <1>1, OneMoreMissing
    <3>5. Rec!Cardinality(Rec!Missing)' = Rec!Cardinality(T)
      BY DEF T, Rec!Cardinality
    <3> QED BY <3>4, <3>5, <2>1 DEF Counted
  <2>4. Len(table') <= TableLimit
    BY <1>7, <2>1, <1>1, <1>3
  <2> QED BY <1>1, <1>3, <2>1, <2>3, <2>4
<1> QED BY <1>6, <1>7

\* A drain's next report keeps the invariant.
LEMMA DrainOneStep ==
    ASSUME RecorderBounds, IsFiniteSet(Action), RecorderInv, Rec!DrainOne PROVE RecorderInv'
<1>1. /\ recPhase = "up" /\ draining /\ queue # <<>> /\ queue' = Tail(queue)
      /\ agentRun' = agentRun /\ draining' = draining /\ timer' = timer /\ live' = live /\ accepted' = accepted
      /\ logged' = logged /\ expired' = expired /\ recPhase' = recPhase
  BY DEF Rec!DrainOne
<1>2. queue' \in Seq(Rec!Report) /\ Len(queue') <= QueueLimit
  BY <1>1, RecorderFacts, RestOfQueue
<1>3. live # "none" /\ live' # "none"
  BY <1>1 DEF RecorderInv, NothingLeft
<1>4. NothingLeft' /\ DownHasNone' /\ LeavingDrains' /\ LeavingHasNoTimer' /\ UnmarkedIsLogged'
  BY <1>1, <1>3 DEF RecorderInv, NothingLeft, DownHasNone, LeavingDrains, LeavingHasNoTimer, UnmarkedIsLogged
<1>5. CASE Rec!Recorded(Head(queue)) /\ feed' = feed
  <2>1. /\ table' \in Seq(Rec!Row) /\ Len(table') <= TableLimit
        /\ \A i, j \in DOMAIN table' : table'[i].action = table'[j].action => i = j
        /\ counters' \in [omitted : Nat, degraded : BOOLEAN] /\ counters'.degraded = counters.degraded
        /\ Counted => Counted'
    BY <1>1, <1>5, RecordedKeeps
  <2>2. Rec!TypeOK'
    BY <1>1, <1>2, <1>5, <2>1 DEF RecorderInv, Rec!TypeOK
  <2>3. Excused => Excused'
    BY <1>1, <1>5, <2>1 DEF Excused, Rec!MarkIsDue
  <2>4. WrittenIsStored'
    BY <1>1, <1>5, <2>1 DEF RecorderInv, WrittenIsStored
  <2> QED BY <1>1, <1>4, <2>1, <2>2, <2>3, <2>4 DEF RecorderInv
<1>6. CASE feed' = [feed EXCEPT !.degraded = TRUE] /\ table' = table /\ counters' = counters
  <2>1. feed' \in [degraded : BOOLEAN, written : BOOLEAN] /\ feed'.degraded /\ feed'.written = feed.written
    BY <1>6, RecorderFacts
  <2>2. Rec!TypeOK'
    BY <1>1, <1>2, <1>6, <2>1 DEF RecorderInv, Rec!TypeOK
  <2>3. Excused'
    BY <1>1, <2>1 DEF Excused, Rec!MarkIsDue
  <2>4. WrittenIsStored'
    BY <1>1, <1>6, <2>1 DEF RecorderInv, WrittenIsStored
  <2> QED BY <1>4, <2>2, <2>3, <2>4 DEF RecorderInv
<1> QED BY <1>5, <1>6 DEF Rec!DrainOne

\* The end of a drain keeps the invariant.
LEMMA DrainEndsStep ==
    ASSUME RecorderBounds, IsFiniteSet(Action), RecorderInv, Rec!DrainEnds PROVE RecorderInv'
<1>1. /\ recPhase = "up" /\ draining /\ queue = <<>> /\ ~draining'
      /\ agentRun' = agentRun /\ table' = table /\ queue' = queue /\ timer' = timer /\ accepted' = accepted
      /\ expired' = expired /\ recPhase' = recPhase /\ draining' \in BOOLEAN
      /\ live' = (IF live = "leaving" THEN "none" ELSE live)
  BY DEF Rec!DrainEnds
<1>2. /\ counters \in [omitted : Nat, degraded : BOOLEAN] /\ feed \in [degraded : BOOLEAN, written : BOOLEAN]
  BY RecorderFacts
<1>3. /\ counters' \in [omitted : Nat, degraded : BOOLEAN] /\ feed' \in [degraded : BOOLEAN, written : BOOLEAN]
      /\ counters'.omitted = counters.omitted /\ (counters.degraded => counters'.degraded) /\ (logged => logged')
      /\ logged' \in BOOLEAN
      /\ feed'.degraded = feed.degraded /\ (feed'.written => feed'.degraded)
      /\ (feed'.written => feed.written \/ counters'.degraded)
      /\ (feed'.degraded /\ ~feed'.written => logged')
  <2>1. CASE feed.degraded /\ ~feed.written
    <3>1. CASE counters' = [counters EXCEPT !.degraded = TRUE] /\ feed' = [feed EXCEPT !.written = TRUE] /\ logged' = logged
      BY <2>1, <3>1, <1>2 DEF RecorderInv, Rec!TypeOK
    <3>2. CASE logged' = TRUE /\ counters' = counters /\ feed' = feed
      BY <2>1, <3>2, <1>2 DEF RecorderInv, Rec!TypeOK
    <3> QED BY <2>1, <3>1, <3>2 DEF Rec!DrainEnds
  <2>2. CASE ~(feed.degraded /\ ~feed.written)
    <3>1. counters' = counters /\ feed' = feed /\ logged' = logged
      BY <2>2 DEF Rec!DrainEnds
    <3> QED BY <2>2, <3>1, <1>2 DEF RecorderInv, Rec!TypeOK
  <2> QED BY <2>1, <2>2
<1>4. Rec!TypeOK'
  BY <1>1, <1>3 DEF RecorderInv, Rec!TypeOK
<1>5. WrittenIsStored'
  BY <1>1, <1>3 DEF RecorderInv, WrittenIsStored
<1>6. ~(live = "none") /\ (live = "leaving" \/ live \in {"open", "closed"})
  BY <1>1 DEF RecorderInv, NothingLeft, Rec!TypeOK
<1>7. live' = "none" => ~timer'
  <2>1. live = "leaving" => ~timer
    BY DEF RecorderInv, LeavingHasNoTimer
  <2> QED BY <2>1, <1>1, <1>6
<1>8. NothingLeft' /\ DownHasNone' /\ LeavingDrains' /\ UnmarkedIsLogged'
  BY <1>1, <1>3, <1>6, <1>7 DEF RecorderInv, NothingLeft, DownHasNone, LeavingDrains, UnmarkedIsLogged
<1>9. Excused => Excused' \/ expired'
  <2>1. CASE counters.degraded \/ logged
    BY <2>1, <1>3 DEF Excused
  <2>2. CASE Rec!MarkIsDue
    <3>1. feed'.degraded
      BY <2>2, <1>1, <1>3 DEF Rec!MarkIsDue
    <3> QED BY <3>1, <1>3, <1>5 DEF Excused, WrittenIsStored
  <2> QED BY <2>1, <2>2 DEF Excused
<1>10. expired' \/ Counted' \/ Excused'
  BY <1>1, <1>3, <1>9, MissingGoesOn DEF RecorderInv
<1>11. LeavingHasNoTimer'
  BY <1>1, <1>6 DEF LeavingHasNoTimer, RecorderInv
<1> QED BY <1>4, <1>5, <1>8, <1>10, <1>11 DEF RecorderInv

\* A report keeps the invariant.
LEMMA OnActivityStep ==
    ASSUME RecorderBounds, IsFiniteSet(Action), RecorderInv, NEW report \in Rec!Report, Rec!OnActivity(report)
    PROVE  RecorderInv'
<1>1. /\ recPhase = "up" /\ ~draining /\ live = "open" /\ accepted' = accepted \cup {report} /\ timer' = TRUE
      /\ agentRun' = agentRun /\ table' = table /\ counters' = counters /\ draining' = draining /\ live' = live
      /\ logged' = logged /\ expired' = expired /\ recPhase' = recPhase
  BY DEF Rec!OnActivity, Rec!Idle
<1>2. NothingLeft' /\ DownHasNone' /\ LeavingDrains' /\ LeavingHasNoTimer' /\ UnmarkedIsLogged'
  BY <1>1 DEF RecorderInv, NothingLeft, DownHasNone, LeavingDrains, LeavingHasNoTimer, UnmarkedIsLogged
<1>3. /\ queue \in Seq(Rec!Report) /\ Len(queue) <= QueueLimit /\ QueueLimit \in Nat
      /\ feed \in [degraded : BOOLEAN, written : BOOLEAN] /\ counters.omitted \in Nat
  BY RecorderFacts
<1>4. CASE Len(queue) < QueueLimit /\ queue' = Append(queue, report) /\ feed' = feed
  <2>1. /\ queue' \in Seq(Rec!Report) /\ Len(queue') = Len(queue) + 1 /\ Len(queue) \in Nat
        /\ DOMAIN queue = 1 .. Len(queue) /\ DOMAIN queue' = 1 .. Len(queue) + 1
        /\ (\A i \in 1 .. Len(queue) : queue'[i] = queue[i]) /\ queue'[Len(queue) + 1] = report
    BY <1>3, <1>4
  <2>2. Len(queue') <= QueueLimit
    BY <2>1, <1>3, <1>4
  <2>3. Rec!TypeOK'
    BY <1>1, <1>4, <2>1, <2>2 DEF RecorderInv, Rec!TypeOK
  <2>4. WrittenIsStored' /\ (Excused => Excused')
    BY <1>1, <1>4 DEF RecorderInv, WrittenIsStored, Excused, Rec!MarkIsDue
  <2>5. \A i \in DOMAIN queue : i \in DOMAIN queue' /\ queue'[i] = queue[i]
    BY <2>1
  <2>6. Len(queue) + 1 \in DOMAIN queue'
    BY <2>1
  <2>7. Rec!Missing' \subseteq Rec!Missing
    <3> SUFFICES ASSUME NEW a \in Rec!Missing' PROVE a \in Rec!Missing
      OBVIOUS
    <3>1. PICK one \in accepted' : a \in Action /\ one[1] = a /\ ~Rec!InTable(one)' /\ ~Rec!InQueue(one)'
      BY DEF Rec!Missing
    <3>2. one # report
      BY <3>1, <2>1, <2>6 DEF Rec!InQueue
    <3>3. one \in accepted
      BY <3>1, <3>2, <1>1
    <3>4. ~Rec!InQueue(one)
      BY <3>1, <2>5 DEF Rec!InQueue
    <3>5. ~Rec!InTable(one)
      BY <3>1, <1>1 DEF Rec!InTable
    <3> QED BY <3>1, <3>3, <3>4, <3>5 DEF Rec!Missing
  <2>8. ASSUME Counted PROVE Counted'
    <3>1. Rec!Cardinality(Rec!Missing) <= counters.omitted
      BY <2>8 DEF Counted
    <3>2. report[1] \in Action
      BY DEF Rec!Report
    <3> DEFINE S == Rec!Missing  T == Rec!Missing'
    <3>3. S \subseteq Action /\ T \subseteq Action /\ T \subseteq S /\ Rec!Cardinality(S) <= counters.omitted
      BY <2>7, <3>1, MissingActions
    <3> HIDE DEF S, T
    <3>4. Rec!Cardinality(T) <= counters.omitted
      BY <3>3, <3>2, <1>3, OneMoreMissing
    <3>5. Rec!Cardinality(Rec!Missing)' = Rec!Cardinality(T)
      BY DEF T, Rec!Cardinality
    <3> QED BY <3>4, <3>5, <1>1 DEF Counted
  <2>9. expired' \/ Counted' \/ Excused'
    BY <1>1, <2>4, <2>8 DEF RecorderInv
  <2> QED BY <1>2, <2>3, <2>4, <2>9 DEF RecorderInv
<1>5. CASE feed' = [feed EXCEPT !.degraded = TRUE] /\ queue' = queue
  <2>1. feed' \in [degraded : BOOLEAN, written : BOOLEAN] /\ feed'.degraded /\ feed'.written = feed.written
    BY <1>3, <1>5
  <2>2. accepted' \subseteq Rec!Report
    BY <1>1 DEF RecorderInv, Rec!TypeOK
  <2>3. Rec!TypeOK'
    BY <1>1, <1>5, <2>1, <2>2 DEF RecorderInv, Rec!TypeOK
  <2>4. Excused'
    BY <1>1, <2>1 DEF Excused, Rec!MarkIsDue
  <2>5. WrittenIsStored'
    BY <1>1, <2>1 DEF RecorderInv, WrittenIsStored
  <2> QED BY <1>2, <2>3, <2>4, <2>5 DEF RecorderInv
<1> QED BY <1>4, <1>5 DEF Rec!OnActivity

\* What the session does keeps the invariant.
LEMMA RecSessionStep ==
    ASSUME RecorderBounds, IsFiniteSet(Action), RecorderInv,
           Rec!CloseSession \/ Rec!FinishAgentRun \/ Rec!LeaveSession
    PROVE  RecorderInv'
<1>1. /\ recPhase = "up" /\ ~draining /\ table' = table /\ counters' = counters /\ feed' = feed /\ queue' = queue
      /\ accepted' = accepted /\ logged' = logged /\ expired' = expired /\ recPhase' = recPhase
      /\ agentRun' \in {agentRun, "FINISHED"}
      /\ \/ /\ live = "open" /\ live' = "closed" /\ draining' = draining /\ timer' = timer
         \/ /\ live' = live /\ draining' = draining /\ timer' = timer
         \/ /\ live = "closed" /\ live' = "leaving" /\ draining' = TRUE /\ timer' = FALSE
  BY DEF Rec!CloseSession, Rec!FinishAgentRun, Rec!LeaveSession, Rec!Idle
<1>2. Rec!TypeOK'
  <2>1. /\ table' \in Seq(Rec!Row) /\ Len(table') <= TableLimit
        /\ \A i, j \in DOMAIN table' : table'[i].action = table'[j].action => i = j
        /\ counters' \in [omitted : Nat, degraded : BOOLEAN]
        /\ feed' \in [degraded : BOOLEAN, written : BOOLEAN]
        /\ queue' \in Seq(Rec!Report) /\ Len(queue') <= QueueLimit
    BY <1>1, RecorderFacts
  <2>2. /\ agentRun' \in {"RUNNING", "FINISHED"} /\ live' \in {"open", "closed", "leaving", "none"}
        /\ accepted' \subseteq Rec!Report /\ recPhase' \in {"up", "down"}
    BY <1>1 DEF RecorderInv, Rec!TypeOK
  <2>3. (feed'.written => feed'.degraded) /\ logged' \in BOOLEAN /\ expired' \in BOOLEAN
    BY <1>1 DEF RecorderInv, Rec!TypeOK
  <2>4. timer \in BOOLEAN /\ draining \in BOOLEAN /\ (queue # <<>> => timer \/ draining)
    BY DEF RecorderInv, Rec!TypeOK
  <2>5. CASE draining' = draining /\ timer' = timer
    BY <1>1, <2>1, <2>2, <2>3, <2>4, <2>5 DEF Rec!TypeOK
  <2>6. CASE draining' = TRUE /\ timer' = FALSE
    BY <2>1, <2>2, <2>3, <2>6 DEF Rec!TypeOK
  <2> QED BY <1>1, <2>5, <2>6
<1>3. Excused => Excused'
  BY <1>1 DEF Excused, Rec!MarkIsDue
<1>4. expired' \/ Counted' \/ Excused'
  BY <1>1, <1>3, ExcuseGoesOn
<1>5. NothingLeft' /\ DownHasNone' /\ LeavingDrains' /\ LeavingHasNoTimer' /\ WrittenIsStored' /\ UnmarkedIsLogged'
  BY <1>1 DEF RecorderInv, NothingLeft, DownHasNone, LeavingDrains, LeavingHasNoTimer, WrittenIsStored, UnmarkedIsLogged
<1> QED BY <1>2, <1>4, <1>5 DEF RecorderInv

\* The next session keeps the invariant.
LEMMA NextSessionStep ==
    ASSUME RecorderBounds, IsFiniteSet(Action), RecorderInv, Rec!NextSession PROVE RecorderInv'
<1>1. /\ recPhase = "up" /\ ~draining /\ live = "none" /\ live' = "open"
      /\ agentRun' = agentRun /\ table' = table /\ counters' = counters /\ queue' = queue /\ draining' = draining
      /\ timer' = timer /\ accepted' = accepted /\ logged' = logged /\ expired' = expired /\ recPhase' = recPhase
      /\ (feed' = feed \/ feed' = [degraded |-> counters.degraded, written |-> counters.degraded])
  BY DEF Rec!NextSession, Rec!Idle
<1>2. ~timer /\ queue = <<>>
  BY <1>1 DEF RecorderInv, NothingLeft
<1>3. /\ feed \in [degraded : BOOLEAN, written : BOOLEAN] /\ counters \in [omitted : Nat, degraded : BOOLEAN]
  BY RecorderFacts
<1>4. /\ feed' \in [degraded : BOOLEAN, written : BOOLEAN] /\ (feed'.written => feed'.degraded)
      /\ (feed'.written => feed.written \/ counters.degraded)
  <2>1. CASE feed' = feed
    BY <2>1, <1>3 DEF RecorderInv, Rec!TypeOK
  <2>2. CASE feed' = [degraded |-> counters.degraded, written |-> counters.degraded]
    BY <2>2, <1>3
  <2> QED BY <1>1, <2>1, <2>2
<1>5. Rec!TypeOK'
  BY <1>1, <1>4 DEF RecorderInv, Rec!TypeOK
<1>6. Excused => Excused'
  BY <1>1, <1>2 DEF Excused, Rec!MarkIsDue
<1>7. expired' \/ Counted' \/ Excused'
  BY <1>1, <1>6, ExcuseGoesOn
<1>8. NothingLeft' /\ DownHasNone' /\ LeavingDrains' /\ LeavingHasNoTimer' /\ WrittenIsStored' /\ UnmarkedIsLogged'
  BY <1>1, <1>4 DEF RecorderInv, NothingLeft, DownHasNone, LeavingDrains, LeavingHasNoTimer, WrittenIsStored, UnmarkedIsLogged
<1> QED BY <1>5, <1>7, <1>8 DEF RecorderInv

----
\* The end of the daemon keeps the invariant.
LEMMA RecCrashStep ==
    ASSUME RecorderBounds, IsFiniteSet(Action), RecorderInv, Rec!Crash PROVE RecorderInv'
<1>1. /\ recPhase = "up" /\ recPhase' = "down" /\ feed' = Rec!NoFeed /\ queue' = <<>> /\ ~draining' /\ ~timer'
      /\ draining' \in BOOLEAN /\ timer' \in BOOLEAN /\ live' = "none"
      /\ agentRun' = agentRun /\ table' = table /\ counters' = counters /\ accepted' = accepted
      /\ logged' = logged /\ expired' = expired
      /\ (agentRun = "RUNNING" \/ Rec!Settled \/ live = "none")
  BY DEF Rec!Crash, RecorderBounds
<1>2. Rec!TypeOK'
  BY <1>1 DEF RecorderInv, Rec!TypeOK, Rec!NoFeed, RecorderBounds
<1>3. NothingLeft' /\ DownHasNone' /\ LeavingDrains' /\ LeavingHasNoTimer' /\ WrittenIsStored' /\ UnmarkedIsLogged'
  BY <1>1 DEF NothingLeft, DownHasNone, LeavingDrains, LeavingHasNoTimer, WrittenIsStored, UnmarkedIsLogged, Rec!NoFeed
<1>4. CASE agentRun = "RUNNING"
  <2>1. Excused'
    BY <1>1, <1>4 DEF Excused, Rec!MarkIsDue
  <2> QED BY <1>2, <1>3, <2>1 DEF RecorderInv
<1>5. CASE Rec!Settled \/ live = "none"
  <2>1. queue' = queue
    BY <1>1, <1>5 DEF Rec!Settled, RecorderInv, NothingLeft
  <2>2. Rec!MarkIsDue => counters.degraded \/ expired
    <3>1. CASE Rec!Settled
      BY <1>1, <3>1 DEF Rec!MarkIsDue, Rec!Settled, RecorderInv, WrittenIsStored
    <3>2. CASE live = "none"
      BY <1>1, <3>2 DEF Rec!MarkIsDue, RecorderInv, NothingLeft
    <3> QED BY <1>5, <3>1, <3>2
  <2>3. Excused => Excused' \/ expired'
    BY <1>1, <2>2 DEF Excused
  <2>4. expired' \/ Counted' \/ Excused'
    BY <1>1, <2>1, <2>3, MissingGoesOn DEF RecorderInv
  <2> QED BY <1>2, <1>3, <2>4 DEF RecorderInv
<1> QED BY <1>1, <1>4, <1>5

\* The start of the daemon keeps the invariant.
LEMMA RecStartStep ==
    ASSUME RecorderBounds, IsFiniteSet(Action), RecorderInv, Rec!Start PROVE RecorderInv'
<1>1. /\ recPhase = "down" /\ recPhase' = "up" /\ agentRun' = "FINISHED" /\ feed' = feed /\ queue' = queue
      /\ draining' = draining /\ timer' = timer /\ live' = live /\ accepted' = accepted /\ logged' = logged
      /\ expired' = expired
  BY DEF Rec!Start
<1>2. live = "none" /\ ~timer /\ ~draining /\ queue = <<>>
  BY <1>1 DEF RecorderInv, NothingLeft, DownHasNone
<1>3. CASE expired
  <2>1. table' = <<>> /\ counters' = Rec!NoCounters
    BY <1>3 DEF Rec!Start
  <2>2. Rec!TypeOK'
    <3>1. /\ table' \in Seq(Rec!Row) /\ Len(table') = 0 /\ Len(table') <= TableLimit
          /\ \A i, j \in DOMAIN table' : table'[i].action = table'[j].action => i = j
      BY <2>1 DEF RecorderBounds
    <3>2. counters' \in [omitted : Nat, degraded : BOOLEAN]
      BY <2>1 DEF Rec!NoCounters
    <3> QED BY <1>1, <3>1, <3>2 DEF RecorderInv, Rec!TypeOK
  <2>3. NothingLeft' /\ DownHasNone' /\ LeavingDrains' /\ LeavingHasNoTimer' /\ WrittenIsStored' /\ UnmarkedIsLogged'
    BY <1>1, <1>2, <1>3 DEF RecorderInv, NothingLeft, DownHasNone, LeavingDrains, LeavingHasNoTimer, WrittenIsStored, UnmarkedIsLogged
  <2> QED BY <1>1, <1>3, <2>2, <2>3 DEF RecorderInv
<1>4. CASE ~expired
  <2>1. table' = table /\ counters' = (IF agentRun = "RUNNING" THEN Rec!Interrupted(counters) ELSE counters)
    BY <1>4 DEF Rec!Start
  <2>2. counters \in [omitted : Nat, degraded : BOOLEAN]
    BY RecorderFacts
  <2>3. /\ counters' \in [omitted : Nat, degraded : BOOLEAN] /\ counters'.omitted = counters.omitted
        /\ (counters.degraded => counters'.degraded) /\ (agentRun = "RUNNING" => counters'.degraded)
    BY <2>1, <2>2 DEF Rec!Interrupted
  <2>4. Rec!TypeOK'
    BY <1>1, <2>1, <2>3 DEF RecorderInv, Rec!TypeOK
  <2>5. Excused => Excused'
    BY <1>1, <2>3 DEF Excused, Rec!MarkIsDue
  <2>6. expired' \/ Counted' \/ Excused'
    BY <1>1, <2>1, <2>3, <2>5, ExcuseGoesOn
  <2>7. NothingLeft' /\ DownHasNone' /\ LeavingDrains' /\ LeavingHasNoTimer' /\ WrittenIsStored' /\ UnmarkedIsLogged'
    BY <1>1, <1>2, <2>3 DEF RecorderInv, NothingLeft, DownHasNone, LeavingDrains, LeavingHasNoTimer, WrittenIsStored, UnmarkedIsLogged
  <2> QED BY <2>4, <2>6, <2>7 DEF RecorderInv
<1> QED BY <1>3, <1>4

\* The passing of thirty days keeps the invariant.
LEMMA ExpireStep ==
    ASSUME RecorderInv, Rec!Expire PROVE RecorderInv'
<1> USE DEF Rec!Expire
<1>1. Rec!TypeOK'
  BY DEF RecorderInv, Rec!TypeOK
<1>2. NothingLeft' /\ DownHasNone' /\ LeavingDrains' /\ LeavingHasNoTimer' /\ WrittenIsStored' /\ UnmarkedIsLogged'
  BY DEF RecorderInv, NothingLeft, DownHasNone, LeavingDrains, LeavingHasNoTimer, WrittenIsStored, UnmarkedIsLogged
<1> QED BY <1>1, <1>2 DEF RecorderInv

\* Every step keeps the invariant, and so does a step of another module.
LEMMA RecorderNext ==
    ASSUME RecorderBounds, IsFiniteSet(Action), RecorderInv, [Rec!Next]_(Rec!vars) PROVE RecorderInv'
<1>1. CASE UNCHANGED Rec!vars
  <2>1. /\ agentRun' = agentRun /\ table' = table /\ counters' = counters /\ feed' = feed /\ queue' = queue
        /\ draining' = draining /\ timer' = timer /\ live' = live /\ accepted' = accepted /\ logged' = logged
        /\ expired' = expired /\ recPhase' = recPhase
    BY <1>1 DEF Rec!vars
  <2>2. Rec!TypeOK'
    BY <2>1 DEF RecorderInv, Rec!TypeOK
  <2>3. Excused => Excused'
    BY <2>1 DEF Excused, Rec!MarkIsDue
  <2>4. expired' \/ Counted' \/ Excused'
    BY <2>1, <2>3, ExcuseGoesOn
  <2>5. NothingLeft' /\ DownHasNone' /\ LeavingDrains' /\ LeavingHasNoTimer' /\ WrittenIsStored' /\ UnmarkedIsLogged'
    BY <2>1 DEF RecorderInv, NothingLeft, DownHasNone, LeavingDrains, LeavingHasNoTimer, WrittenIsStored, UnmarkedIsLogged
  <2> QED BY <2>2, <2>4, <2>5 DEF RecorderInv
<1>2. CASE Rec!Next
  BY <1>2, DrainTimerStep, DrainOneStep, DrainEndsStep, OnActivityStep, RecSessionStep, NextSessionStep, RecCrashStep, RecStartStep,
     ExpireStep DEF Rec!Next
<1> QED BY <1>1, <1>2

\* What the invariant says of lost reports.
LEMMA RecorderSays == ASSUME RecorderInv PROVE Rec!LostIsSaid
  BY DEF RecorderInv, Counted, Excused, Rec!LostIsSaid

\* The recorder's types, and what its drains, its mark and its counter are about: the session's report
\* either has a place, or is counted, or the feed owes the owner a word.
THEOREM RecorderInvariant ==
    ASSUME RecorderBounds, IsFiniteSet(Action) PROVE Rec!Spec => []RecorderInv
<1>1. Rec!Init => RecorderInv
  BY RecorderInit
<1>2. RecorderInv /\ [Rec!Next]_(Rec!vars) => RecorderInv'
  BY RecorderNext
<1> QED BY <1>1, <1>2, PTL DEF Rec!Spec

\* A feed that lost a report says so, whatever the queue and the table hold: the actions that miss one
\* are counted, or the run is marked or will be, or the log says that it could not be.
THEOREM LostReportsAreSaid ==
    ASSUME RecorderBounds, IsFiniteSet(Action) PROVE Rec!Spec => []Rec!LostIsSaid
<1>1. RecorderInv => Rec!LostIsSaid
  BY RecorderSays
<1> QED BY <1>1, RecorderInvariant, PTL

----
(* ActivityFeed *)

CONSTANTS PageSize, MaxId, MaxTime
VARIABLES now, feedHeld, added, reader
Feed == INSTANCE ActivityFeed WITH held <- feedHeld

\* A page has a place, and the bounds of the rows and of the clock.
FeedBounds == PageSize \in Nat \ {0} /\ MaxId \in Nat /\ MaxTime \in Nat

\* A row comes no later than another.
AtOrBefore(one, other) == one = other \/ Feed!Earlier(one, other)

\* Two rows of a source were written in the same millisecond.
Shared == \E one, other \in added : one # other /\ one.origin = other.origin /\ one.at = other.at

\* A row that the client began with or was given is gone.
Went == ~(reader.begun \cup reader.read \subseteq feedHeld)

\* The client was told of no gap, and nothing but single milliseconds kept a row from it.
Undisturbed == ~reader.gap /\ ~reader.crowded

FeedInv ==
    /\ Feed!TypeOK
    /\ reader.begun \subseteq added /\ reader.read \subseteq added
    /\ reader.cursor # Feed!NoEntry => reader.cursor \in reader.read /\ reader.started
    /\ reader.ended => reader.started
    /\ ~reader.started => reader.begun = {}
    /\ reader.started /\ ~reader.ended => reader.cursor # Feed!NoEntry
    /\ reader.gap => Went \/ Shared
    /\ Undisturbed => \A x \in reader.begun \cap feedHeld :
           reader.ended \/ (reader.cursor # Feed!NoEntry /\ AtOrBefore(x, reader.cursor)) => x \in reader.read

----
(* Sets of rows *)

\* A finite set that has some and whose elements are ordered has a last one.
LEMMA LastOfSome ==
    ASSUME NEW base, IsFiniteSet(base), base # {}, NEW order,
           \A x, y \in base : x = y \/ <<x, y>> \in order \/ <<y, x>> \in order,
           \A x, y, z \in base : <<x, y>> \in order /\ <<y, z>> \in order => <<x, z>> \in order
    PROVE  \E x \in base : \A y \in base : y = x \/ <<y, x>> \in order
<1> DEFINE HasLast(rows) == \E x \in rows : \A y \in rows : y = x \/ <<y, x>> \in order
<1> DEFINE Wrong == {rows \in FiniteSubsetsOf(base) : rows # {} /\ ~HasLast(rows)}
<1>1. FiniteSubsetsOf(base) = SUBSET base
  BY FS_Subset DEF FiniteSubsetsOf
<1>2. Wrong = {}
  <2>1. SUFFICES ASSUME Wrong # {} PROVE FALSE
    OBVIOUS
  <2>2. PICK rows \in Wrong : \A other \in Wrong : ~(<<other, rows>> \in StrictSubsetOrdering(base))
    <3>1. Wrong \subseteq FiniteSubsetsOf(base)
      OBVIOUS
    <3> HIDE DEF Wrong
    <3> QED BY <2>1, <3>1, FS_StrictSubsetOrderingWellFounded, WFMin
  <2>3. rows \in SUBSET base /\ rows # {} /\ ~HasLast(rows)
    BY <1>1, <2>2
  <2>4. PICK a \in rows : TRUE
    BY <2>3
  <2>5. rows \ {a} \in SUBSET base /\ rows \ {a} # rows
    BY <2>3, <2>4
  <2>6. rows \ {a} \notin Wrong
    BY <1>1, <2>2, <2>3, <2>5 DEF StrictSubsetOrdering
  <2>7. CASE rows \ {a} = {}
    <3>1. \A y \in rows : y = a
      BY <2>7
    <3> QED BY <3>1, <2>3, <2>4
  <2>8. CASE HasLast(rows \ {a})
    <3>1. PICK b \in rows \ {a} : \A y \in rows \ {a} : y = b \/ <<y, b>> \in order
      BY <2>8
    <3>2. a \in base /\ b \in base /\ a # b /\ a \in rows /\ b \in rows
      BY <2>3, <2>4, <3>1
    <3>3. CASE <<a, b>> \in order
      <4>1. \A y \in rows : y = b \/ <<y, b>> \in order
        BY <3>1, <3>3
      <4> QED BY <4>1, <3>2, <2>3
    <3>4. CASE <<b, a>> \in order
      <4>1. \A y \in rows : y = a \/ <<y, a>> \in order
        <5> SUFFICES ASSUME NEW y \in rows, y # a PROVE <<y, a>> \in order
          OBVIOUS
        <5>1. y \in base /\ (y = b \/ <<y, b>> \in order)
          BY <2>3, <3>1
        <5> QED BY <5>1, <3>2, <3>4
      <4> QED BY <4>1, <3>2, <2>3
    <3> QED BY <3>2, <3>3, <3>4
  <2> QED BY <1>1, <2>5, <2>6, <2>7, <2>8
<1>3. base \in SUBSET base
  OBVIOUS
<1> QED BY <1>1, <1>2, <1>3

\* The origins of rows are ranked.
LEMMA Ranked == \A x \in Feed!Entry : Feed!Rank(x.origin) \in {0, 1} /\ x.at \in Nat /\ x.id \in Nat /\ x.origin \in Feed!Origin
  BY DEF Feed!Entry, Feed!Rank, Feed!Origin

\* Two rows that agree in all of their order are one.
LEMMA SameRow ==
    ASSUME NEW x \in Feed!Entry, NEW y \in Feed!Entry, x.at = y.at, x.origin = y.origin, x.id = y.id
    PROVE  x = y
  BY DEF Feed!Entry

\* Rows are ordered.
LEMMA EarlierOrders ==
    /\ \A x, y \in Feed!Entry : x = y \/ Feed!Earlier(x, y) \/ Feed!Earlier(y, x)
    /\ \A x, y \in Feed!Entry : ~(Feed!Earlier(x, y) /\ (x = y \/ Feed!Earlier(y, x)))
    /\ \A x, y, z \in Feed!Entry : Feed!Earlier(x, y) /\ Feed!Earlier(y, z) => Feed!Earlier(x, z)
<1>1. ASSUME NEW x \in Feed!Entry, NEW y \in Feed!Entry PROVE x = y \/ Feed!Earlier(x, y) \/ Feed!Earlier(y, x)
  <2>1. /\ x.at \in Nat /\ y.at \in Nat /\ x.id \in Nat /\ y.id \in Nat
        /\ Feed!Rank(x.origin) \in {0, 1} /\ Feed!Rank(y.origin) \in {0, 1}
    BY Ranked
  <2>2. Feed!Rank(x.origin) = Feed!Rank(y.origin) => x.origin = y.origin
    BY DEF Feed!Rank, Feed!Entry, Feed!Origin
  <2>3. CASE x.at = y.at /\ x.origin = y.origin /\ x.id = y.id
    BY <2>3, SameRow
  <2>4. CASE ~(x.at = y.at /\ x.origin = y.origin /\ x.id = y.id)
    BY <2>1, <2>2, <2>4 DEF Feed!Earlier
  <2> QED BY <2>3, <2>4
<1>2. ASSUME NEW x \in Feed!Entry, NEW y \in Feed!Entry PROVE ~(Feed!Earlier(x, y) /\ (x = y \/ Feed!Earlier(y, x)))
  <2>1. /\ x.at \in Nat /\ y.at \in Nat /\ x.id \in Nat /\ y.id \in Nat
        /\ Feed!Rank(x.origin) \in {0, 1} /\ Feed!Rank(y.origin) \in {0, 1}
    BY Ranked
  <2> QED BY <2>1 DEF Feed!Earlier
<1>3. ASSUME NEW x \in Feed!Entry, NEW y \in Feed!Entry, NEW z \in Feed!Entry, Feed!Earlier(x, y), Feed!Earlier(y, z)
      PROVE  Feed!Earlier(x, z)
  <2>1. /\ x.at \in Nat /\ y.at \in Nat /\ z.at \in Nat /\ x.id \in Nat /\ y.id \in Nat /\ z.id \in Nat
        /\ Feed!Rank(x.origin) \in {0, 1} /\ Feed!Rank(y.origin) \in {0, 1} /\ Feed!Rank(z.origin) \in {0, 1}
    BY Ranked
  <2> QED BY <2>1, <1>3 DEF Feed!Earlier
<1> QED BY <1>1, <1>2, <1>3

\* Some rows have a first and a last.
LEMMA FirstAndLast ==
    ASSUME NEW rows, rows \subseteq Feed!Entry, IsFiniteSet(rows), rows # {}
    PROVE  /\ \E x \in rows : \A y \in rows : AtOrBefore(y, x)
           /\ \E x \in rows : \A y \in rows : AtOrBefore(x, y)
<1> DEFINE order == {p \in rows \X rows : Feed!Earlier(p[1], p[2])}
<1> DEFINE back == {p \in rows \X rows : Feed!Earlier(p[2], p[1])}
<1>1. \A x, y \in rows : (<<x, y>> \in order <=> Feed!Earlier(x, y)) /\ (<<x, y>> \in back <=> Feed!Earlier(y, x))
  OBVIOUS
<1> HIDE DEF order, back
<1>2. \A x, y \in rows : x = y \/ Feed!Earlier(x, y) \/ Feed!Earlier(y, x)
  BY EarlierOrders
<1>3. \A x, y, z \in rows : Feed!Earlier(x, y) /\ Feed!Earlier(y, z) => Feed!Earlier(x, z)
  BY EarlierOrders
<1>4. \E x \in rows : \A y \in rows : y = x \/ <<y, x>> \in order
  <2>1. \A x, y \in rows : x = y \/ <<x, y>> \in order \/ <<y, x>> \in order
    BY <1>1, <1>2
  <2>2. \A x, y, z \in rows : <<x, y>> \in order /\ <<y, z>> \in order => <<x, z>> \in order
    BY <1>1, <1>3
  <2> QED BY <2>1, <2>2, LastOfSome
<1>5. \E x \in rows : \A y \in rows : y = x \/ <<y, x>> \in back
  <2>1. \A x, y \in rows : x = y \/ <<x, y>> \in back \/ <<y, x>> \in back
    BY <1>1, <1>2
  <2>2. \A x, y, z \in rows : <<x, y>> \in back /\ <<y, z>> \in back => <<x, z>> \in back
    BY <1>1, <1>3
  <2> QED BY <2>1, <2>2, LastOfSome
<1> QED BY <1>1, <1>4, <1>5 DEF AtOrBefore

\* A part of some rows is counted, and has no more of them.
LEMMA Counts ==
    ASSUME NEW rows, IsFiniteSet(rows), NEW part, part \subseteq rows
    PROVE  /\ IsFiniteSet(part) /\ Feed!Cardinality(part) = Cardinality(part)
           /\ Cardinality(part) \in Nat /\ Cardinality(rows) \in Nat /\ Cardinality(part) <= Cardinality(rows)
<1>1. part \in SUBSET rows
  OBVIOUS
<1>2. IsFiniteSet(part) /\ Cardinality(part) <= Cardinality(rows)
  BY <1>1, FS_Subset
<1>3. Feed!Cardinality(part) = Cardinality(part)
  BY DEF Feed!Cardinality, Cardinality
<1> QED BY <1>2, <1>3, FS_CardinalityType

\* Two rows or more are two that differ.
LEMMA TwoOf ==
    ASSUME NEW rows, IsFiniteSet(rows), Cardinality(rows) >= 2
    PROVE  \E x, y \in rows : x # y
<1> SUFFICES ASSUME \A x, y \in rows : x = y PROVE FALSE
  OBVIOUS
<1>1. CASE rows = {}
  BY <1>1, FS_EmptySet
<1>2. CASE rows # {}
  <2>1. PICK a \in rows : TRUE
    BY <1>2
  <2>2. rows = {a}
    BY <2>1
  <2>3. Cardinality(rows) = 1
    BY <2>2, FS_Singleton
  <2> QED BY <2>3
<1> QED BY <1>1, <1>2

\* The first n of some rows are no more than n, and n when they leave one out, which all of them come before.
LEMMA FirstOfRows ==
    ASSUME NEW rows, rows \subseteq Feed!Entry, IsFiniteSet(rows), NEW n \in Nat
    PROVE  LET first == Feed!First(n, rows) IN
           /\ first \subseteq rows
           /\ IsFiniteSet(first)
           /\ Cardinality(first) \in Nat /\ Cardinality(first) <= n
           /\ \A x \in rows \ first : Cardinality(first) = n /\ \A w \in first : Feed!Earlier(w, x)
<1> DEFINE first == Feed!First(n, rows)
<1> DEFINE Before(x) == {y \in rows : Feed!Earlier(y, x)}
<1>1. \A x \in rows : IsFiniteSet(Before(x)) /\ Cardinality(Before(x)) \in Nat /\ Feed!Cardinality(Before(x)) = Cardinality(Before(x))
  <2> SUFFICES ASSUME NEW x \in rows
               PROVE  IsFiniteSet(Before(x)) /\ Cardinality(Before(x)) \in Nat /\ Feed!Cardinality(Before(x)) = Cardinality(Before(x))
    OBVIOUS
  <2>1. Before(x) \subseteq rows
    OBVIOUS
  <2> HIDE DEF Before
  <2> QED BY <2>1, Counts
<1>2. first = {x \in rows : Feed!Cardinality(Before(x)) < n}
  BY DEF Feed!First
<1>3. first \subseteq rows /\ \A x \in rows : x \in first <=> Cardinality(Before(x)) < n
  BY <1>1, <1>2
<1>4. \A x, y \in rows : y \in Before(x) <=> Feed!Earlier(y, x)
  OBVIOUS
<1>5. \A x \in rows : Before(x) \subseteq rows
  OBVIOUS
<1> HIDE DEF first, Before
<1>6. IsFiniteSet(first) /\ Cardinality(first) \in Nat
  BY <1>3, Counts
<1>7. Cardinality(first) <= n
  <2>1. CASE first = {}
    BY <2>1, FS_EmptySet
  <2>2. CASE first # {}
    <3>1. PICK g \in first : \A y \in first : AtOrBefore(y, g)
      BY <1>3, <1>6, <2>2, FirstAndLast
    <3>2. g \in rows /\ Cardinality(Before(g)) < n /\ IsFiniteSet(Before(g)) /\ Cardinality(Before(g)) \in Nat
      BY <1>1, <1>3, <3>1
    <3>3. first \subseteq Before(g) \cup {g}
      BY <1>3, <1>4, <3>1, <3>2 DEF AtOrBefore
    <3>4. /\ IsFiniteSet(Before(g) \cup {g})
          /\ Cardinality(Before(g) \cup {g}) = IF g \in Before(g) THEN Cardinality(Before(g)) ELSE Cardinality(Before(g)) + 1
      BY <3>2, FS_AddElement
    <3>5. Cardinality(first) <= Cardinality(Before(g) \cup {g})
      BY <3>3, <3>4, Counts
    <3> QED BY <1>6, <3>2, <3>4, <3>5
  <2> QED BY <2>1, <2>2
<1>8. ASSUME NEW x \in rows \ first PROVE \A w \in first : Feed!Earlier(w, x)
  <2> SUFFICES ASSUME NEW w \in first, ~Feed!Earlier(w, x) PROVE FALSE
    OBVIOUS
  <2>1. w \in rows /\ x \in rows /\ w # x /\ x \notin first
    BY <1>3, <1>8
  <2>2. Feed!Earlier(x, w)
    BY <2>1, EarlierOrders
  <2>3. Before(x) \subseteq Before(w)
    <3> SUFFICES ASSUME NEW y \in Before(x) PROVE y \in Before(w)
      OBVIOUS
    <3>1. y \in rows /\ Feed!Earlier(y, x)
      BY <1>4, <1>5, <2>1
    <3>2. y \in Feed!Entry /\ x \in Feed!Entry /\ w \in Feed!Entry
      BY <2>1, <3>1
    <3>3. Feed!Earlier(y, w)
      BY <2>2, <3>1, <3>2, EarlierOrders
    <3> QED BY <1>4, <2>1, <3>1, <3>3
  <2>4. Cardinality(Before(x)) <= Cardinality(Before(w))
    BY <1>1, <2>1, <2>3, Counts
  <2>5. Cardinality(Before(w)) < n /\ ~(Cardinality(Before(x)) < n)
    BY <1>3, <2>1
  <2> QED BY <1>1, <2>1, <2>4, <2>5
<1>9. ASSUME NEW x \in rows \ first PROVE Cardinality(first) = n
  <2> DEFINE rest == rows \ first
  <2>1. rest \subseteq rows /\ rest # {} /\ IsFiniteSet(rest) /\ rest \subseteq Feed!Entry
    BY <1>9, Counts
  <2> HIDE DEF rest
  <2>2. PICK l \in rest : \A y \in rest : AtOrBefore(l, y)
    BY <2>1, FirstAndLast
  <2>3. l \in rows /\ l \notin first
    BY <2>2 DEF rest
  <2>4. Before(l) \subseteq first
    <3> SUFFICES ASSUME NEW y \in Before(l), y \notin first PROVE FALSE
      OBVIOUS
    <3>1. y \in rows /\ Feed!Earlier(y, l)
      BY <1>4, <1>5, <2>3
    <3>2. y \in rest
      BY <3>1 DEF rest
    <3>3. AtOrBefore(l, y) /\ y \in Feed!Entry /\ l \in Feed!Entry
      BY <2>1, <2>2, <3>2
    <3> QED BY <3>1, <3>3, EarlierOrders DEF AtOrBefore
  <2>5. Cardinality(Before(l)) <= Cardinality(first)
    BY <1>6, <2>4, Counts
  <2>6. ~(Cardinality(Before(l)) < n) /\ Cardinality(Before(l)) \in Nat
    BY <1>1, <1>3, <2>3
  <2> QED BY <1>6, <1>7, <2>5, <2>6
<1> QED BY <1>3, <1>6, <1>7, <1>8, <1>9 DEF first

----
(* A page *)

\* What a page is made from: rows, of which each source has the first from the cursor's millisecond on.
LEMMA WindowFacts ==
    ASSUME FeedBounds, feedHeld \subseteq Feed!Entry, IsFiniteSet(feedHeld), NEW from \in Nat, NEW origin \in Feed!Origin
    PROVE  LET window == Feed!Window(origin, from) IN
           /\ window \subseteq feedHeld /\ IsFiniteSet(window)
           /\ Cardinality(window) \in Nat /\ Cardinality(window) <= PageSize + 2
           /\ \A w \in window : w.origin = origin /\ w.at >= from
           /\ \A x \in feedHeld : x.origin = origin /\ x.at >= from /\ x \notin window =>
                 Cardinality(window) = PageSize + 2 /\ \A w \in window : Feed!Earlier(w, x)
<1> DEFINE rows == {x \in feedHeld : x.origin = origin /\ x.at >= from}
<1>1. Feed!Window(origin, from) = Feed!First(PageSize + 2, rows)
  BY DEF Feed!Window, Feed!FetchLimit
<1>2. rows \subseteq feedHeld /\ \A x \in feedHeld : x \in rows <=> x.origin = origin /\ x.at >= from
  OBVIOUS
<1> HIDE DEF rows
<1>3. rows \subseteq Feed!Entry /\ IsFiniteSet(rows)
  BY <1>2, Counts
<1>4. PageSize + 2 \in Nat
  BY DEF FeedBounds
<1> QED BY <1>1, <1>2, <1>3, <1>4, FirstOfRows

\* The rows of a page, and of which windows.
LEMMA MergedFacts ==
    ASSUME FeedBounds, feedHeld \subseteq Feed!Entry, IsFiniteSet(feedHeld), NEW from \in Nat
    PROVE  /\ Feed!Merged(from) \subseteq feedHeld /\ IsFiniteSet(Feed!Merged(from)) /\ Feed!Merged(from) \subseteq Feed!Entry
           /\ \A origin \in Feed!Origin : Feed!Window(origin, from) \subseteq Feed!Merged(from)
<1>1. Feed!Merged(from) \subseteq feedHeld
  BY WindowFacts DEF Feed!Merged
<1>2. \A origin \in Feed!Origin : Feed!Window(origin, from) \subseteq Feed!Merged(from)
  BY DEF Feed!Merged
<1> QED BY <1>1, <1>2, Counts

\* The last of some rows.
LEMMA LastFacts ==
    ASSUME NEW rows, rows \subseteq Feed!Entry, IsFiniteSet(rows), rows # {}
    PROVE  Feed!Last(rows) \in rows /\ \A y \in rows : AtOrBefore(y, Feed!Last(rows))
<1>1. \E x \in rows : \A y \in rows : y = x \/ Feed!Earlier(y, x)
  BY FirstAndLast DEF AtOrBefore
<1> DEFINE fits(x) == \A y \in rows : y = x \/ Feed!Earlier(y, x)
<1>2. Feed!Last(rows) = CHOOSE x \in rows : fits(x)
  BY DEF Feed!Last
<1>3. \E x \in rows : fits(x)
  BY <1>1
<1> HIDE DEF fits
<1>4. Feed!Last(rows) \in rows /\ fits(Feed!Last(rows))
  BY <1>2, <1>3
<1> QED BY <1>4 DEF fits, AtOrBefore

\* What comes after the cursor in what a page is made from.
After(cursor) == {x \in Feed!Merged(cursor.at) : cursor \in Feed!Merged(cursor.at) => Feed!Earlier(cursor, x)}

\* No cursor is no row.
LEMMA NoRow == Feed!NoEntry \notin Feed!Entry /\ Feed!NoEntry.at = 0
  BY DEF Feed!NoEntry, Feed!Entry, Feed!Origin

\* The parts of a page.
LEMMA PageFacts ==
    ASSUME FeedBounds, feedHeld \subseteq Feed!Entry, IsFiniteSet(feedHeld), NEW cursor \in Feed!Entry \cup {Feed!NoEntry}
    PROVE  LET page == Feed!Page(cursor)  after == After(cursor)  entries == Feed!First(PageSize, after) IN
           /\ cursor.at \in Nat
           /\ after \subseteq feedHeld /\ IsFiniteSet(after) /\ after \subseteq Feed!Merged(cursor.at)
           /\ page.entries = entries /\ entries \subseteq after /\ IsFiniteSet(entries)
           /\ Cardinality(entries) \in Nat /\ Cardinality(entries) <= PageSize
           /\ \A x \in after \ entries : Cardinality(entries) = PageSize /\ \A w \in entries : Feed!Earlier(w, x)
           /\ entries = after => page.next = Feed!NoEntry
           /\ entries # after => page.next \in entries /\ \A y \in entries : AtOrBefore(y, page.next)
           /\ page.lost = (cursor # Feed!NoEntry /\ cursor \notin Feed!Merged(cursor.at))
           /\ page.gap = (page.lost \/ (entries = after /\ Feed!Capped(cursor.at)))
<1> DEFINE page == Feed!Page(cursor)  after == After(cursor)  entries == Feed!First(PageSize, after)
           merged == Feed!Merged(cursor.at)
<1>1. cursor.at \in Nat
  BY NoRow, Ranked
<1>2. merged \subseteq feedHeld /\ IsFiniteSet(merged) /\ merged \subseteq Feed!Entry
  BY <1>1, MergedFacts
<1>3. after \subseteq merged
  BY DEF After
<1>4. IsFiniteSet(after) /\ after \subseteq Feed!Entry /\ after \subseteq feedHeld
  BY <1>2, <1>3, Counts
<1>5. page = [entries |-> entries,
              next |-> IF entries # after THEN Feed!Last(entries) ELSE Feed!NoEntry,
              lost |-> cursor # Feed!NoEntry /\ cursor \notin merged,
              gap |-> (cursor # Feed!NoEntry /\ cursor \notin merged) \/ (~(entries # after) /\ Feed!Capped(cursor.at))]
  BY DEF Feed!Page, After
<1> HIDE DEF page, after, merged
<1>6. PageSize \in Nat /\ PageSize > 0
  BY DEF FeedBounds
<1>7. /\ entries \subseteq after /\ IsFiniteSet(entries)
      /\ Cardinality(entries) \in Nat /\ Cardinality(entries) <= PageSize
      /\ \A x \in after \ entries : Cardinality(entries) = PageSize /\ \A w \in entries : Feed!Earlier(w, x)
  BY <1>4, <1>6, FirstOfRows
<1> HIDE DEF entries
<1>8. ASSUME entries # after PROVE Feed!Last(entries) \in entries /\ \A y \in entries : AtOrBefore(y, Feed!Last(entries))
  <2>1. Cardinality(entries) = PageSize
    BY <1>7, <1>8
  <2>2. entries # {}
    BY <2>1, <1>6, FS_EmptySet
  <2> QED BY <2>2, <1>4, <1>7, LastFacts
<1>9. /\ page.entries = entries /\ page.next = (IF entries # after THEN Feed!Last(entries) ELSE Feed!NoEntry)
      /\ page.lost = (cursor # Feed!NoEntry /\ cursor \notin merged)
      /\ page.gap = (page.lost \/ (entries = after /\ Feed!Capped(cursor.at)))
  BY <1>5
<1>10. entries = after => page.next = Feed!NoEntry
  BY <1>9
<1>11. entries # after => page.next \in entries /\ \A y \in entries : AtOrBefore(y, page.next)
  BY <1>8, <1>9
<1> QED BY <1>1, <1>3, <1>4, <1>7, <1>9, <1>10, <1>11 DEF page, after, merged, entries

\* Two rows of the tables are of one source and one millisecond.
SharedHere == \E x, y \in feedHeld : x # y /\ x.origin = y.origin /\ x.at = y.at

\* A cursor that a page does not find went, or shares its millisecond.
LEMMA LostCursor ==
    ASSUME FeedBounds, feedHeld \subseteq Feed!Entry, IsFiniteSet(feedHeld), NEW cursor \in Feed!Entry \cup {Feed!NoEntry},
           Feed!Page(cursor).lost
    PROVE  cursor \notin feedHeld \/ SharedHere
<1>1. cursor # Feed!NoEntry /\ cursor \notin Feed!Merged(cursor.at) /\ cursor.at \in Nat
  BY PageFacts
<1> SUFFICES ASSUME cursor \in feedHeld PROVE SharedHere
  OBVIOUS
<1>2. cursor \in Feed!Entry /\ cursor.origin \in Feed!Origin
  BY <1>1, Ranked
<1> DEFINE window == Feed!Window(cursor.origin, cursor.at)
<1>3. cursor \notin window
  BY <1>1, <1>2, MergedFacts
<1>4. /\ window \subseteq feedHeld /\ IsFiniteSet(window) /\ Cardinality(window) = PageSize + 2
      /\ \A w \in window : w.origin = cursor.origin /\ w.at >= cursor.at /\ Feed!Earlier(w, cursor)
  BY <1>1, <1>2, <1>3, WindowFacts
<1> HIDE DEF window
<1>5. \A w \in window : w.at = cursor.at
  <2> SUFFICES ASSUME NEW w \in window PROVE w.at = cursor.at
    OBVIOUS
  <2>1. w.at \in Nat /\ w.at >= cursor.at /\ Feed!Earlier(w, cursor)
    BY <1>4, Ranked
  <2> QED BY <2>1, <1>1 DEF Feed!Earlier
<1>6. Cardinality(window) >= 2
  BY <1>4 DEF FeedBounds
<1>7. PICK x, y \in window : x # y
  BY <1>4, <1>6, TwoOf
<1> QED BY <1>4, <1>5, <1>7 DEF SharedHere

\* A page that ends in doubt, of a cursor that it finds, has two rows of a millisecond in its windows.
LEMMA DoubtfulEnd ==
    ASSUME FeedBounds, feedHeld \subseteq Feed!Entry, IsFiniteSet(feedHeld), NEW cursor \in Feed!Entry \cup {Feed!NoEntry},
           Feed!Page(cursor).gap, ~Feed!Page(cursor).lost
    PROVE  SharedHere
<1> DEFINE after == After(cursor)  merged == Feed!Merged(cursor.at)
<1>1. /\ Feed!First(PageSize, after) = after /\ Feed!Capped(cursor.at) /\ cursor.at \in Nat
      /\ IsFiniteSet(after) /\ Cardinality(after) \in Nat /\ Cardinality(after) <= PageSize
      /\ (cursor = Feed!NoEntry \/ cursor \in merged)
  BY PageFacts
<1>2. PICK origin \in Feed!Origin : Feed!Cardinality(Feed!Window(origin, cursor.at)) >= Feed!FetchLimit
  BY <1>1 DEF Feed!Capped
<1> DEFINE window == Feed!Window(origin, cursor.at)
<1>3. /\ window \subseteq feedHeld /\ IsFiniteSet(window) /\ Cardinality(window) \in Nat
      /\ \A w \in window : w.origin = origin /\ w.at >= cursor.at
      /\ window \subseteq merged /\ merged \subseteq Feed!Entry
  BY <1>1, WindowFacts, MergedFacts
<1>4. Cardinality(window) >= PageSize + 2
  <2>1. Feed!Cardinality(window) = Cardinality(window)
    BY <1>3, Counts
  <2> QED BY <1>2, <2>1 DEF Feed!FetchLimit
<1>5. \A x \in merged : x \in after <=> (cursor \in merged => Feed!Earlier(cursor, x))
  BY DEF After
<1> HIDE DEF window, after, merged
<1> DEFINE rest == window \ after
<1>6. /\ IsFiniteSet(rest) /\ Cardinality(rest) \in Nat
      /\ Cardinality(rest) = Cardinality(window) - Cardinality(window \cap after)
  BY <1>3, FS_Difference, FS_CardinalityType
<1>7. Cardinality(window \cap after) <= Cardinality(after) /\ Cardinality(window \cap after) \in Nat
  <2>1. window \cap after \subseteq after
    OBVIOUS
  <2> QED BY <2>1, <1>1, Counts
<1>8. Cardinality(rest) >= 2
  BY <1>1, <1>3, <1>4, <1>6, <1>7 DEF FeedBounds
<1>9. PICK x, y \in rest : x # y
  BY <1>6, <1>8, TwoOf
<1>10. \A w \in rest : w \in window /\ w.at = cursor.at
  <2> SUFFICES ASSUME NEW w \in rest PROVE w \in window /\ w.at = cursor.at
    OBVIOUS
  <2>1. w \in window /\ w \in merged /\ w \in Feed!Entry /\ cursor \in merged /\ cursor \in Feed!Entry /\ ~Feed!Earlier(cursor, w)
    BY <1>3, <1>5
  <2>2. w.at \in Nat /\ w.at >= cursor.at
    BY <2>1, <1>3, Ranked
  <2> QED BY <2>1, <2>2, <1>1 DEF Feed!Earlier
<1> QED BY <1>3, <1>9, <1>10 DEF SharedHere

\* A row that a page owes its client: it is there, and after the cursor.
Owed(x, cursor) == x \in feedHeld /\ (cursor # Feed!NoEntry => Feed!Earlier(cursor, x))

\* A row that a page owes is of its windows, or its source's is full with rows before it.
LEMMA OwedRows ==
    ASSUME FeedBounds, feedHeld \subseteq Feed!Entry, IsFiniteSet(feedHeld), NEW cursor \in Feed!Entry \cup {Feed!NoEntry},
           ~Feed!Page(cursor).lost, NEW x, Owed(x, cursor)
    PROVE  /\ x \in Feed!Entry /\ x.origin \in Feed!Origin
           /\ \/ x \in After(cursor)
              \/ /\ Cardinality(Feed!Window(x.origin, cursor.at)) = PageSize + 2
                 /\ \A w \in Feed!Window(x.origin, cursor.at) : Feed!Earlier(w, x)
<1>1. x \in feedHeld /\ x \in Feed!Entry /\ x.origin \in Feed!Origin /\ x.at \in Nat
  BY Ranked DEF Owed
<1>2. cursor.at \in Nat /\ (cursor = Feed!NoEntry \/ cursor \in Feed!Merged(cursor.at))
  BY PageFacts
<1>3. x.at >= cursor.at
  <2>1. CASE cursor = Feed!NoEntry
    BY <2>1, <1>1, NoRow
  <2>2. CASE cursor # Feed!NoEntry
    BY <2>2, <1>1, <1>2 DEF Owed, Feed!Earlier
  <2> QED BY <2>1, <2>2
<1>4. CASE x \in Feed!Window(x.origin, cursor.at)
  <2>1. x \in Feed!Merged(cursor.at) /\ Feed!Merged(cursor.at) \subseteq Feed!Entry
    BY <1>1, <1>2, <1>4, MergedFacts
  <2>2. cursor \in Feed!Merged(cursor.at) => Feed!Earlier(cursor, x)
    BY <2>1, NoRow DEF Owed
  <2> QED BY <1>1, <2>1, <2>2 DEF After
<1>5. CASE x \notin Feed!Window(x.origin, cursor.at)
  BY <1>1, <1>2, <1>3, <1>5, WindowFacts
<1> QED BY <1>1, <1>4, <1>5

\* A row that a page owes, no later than its last, is on it.
LEMMA OwedBefore ==
    ASSUME FeedBounds, feedHeld \subseteq Feed!Entry, IsFiniteSet(feedHeld), NEW cursor \in Feed!Entry \cup {Feed!NoEntry},
           ~Feed!Page(cursor).lost, ~Feed!Crowded(cursor), NEW x, Owed(x, cursor),
           Feed!Page(cursor).next # Feed!NoEntry, AtOrBefore(x, Feed!Page(cursor).next)
    PROVE  x \in Feed!Page(cursor).entries
<1> DEFINE page == Feed!Page(cursor)  after == After(cursor)  entries == Feed!First(PageSize, after)
           merged == Feed!Merged(cursor.at)  next == page.next  window == Feed!Window(x.origin, cursor.at)
<1>1. /\ cursor.at \in Nat /\ after \subseteq merged /\ IsFiniteSet(after) /\ page.entries = entries /\ entries \subseteq after
      /\ IsFiniteSet(entries) /\ Cardinality(entries) \in Nat
      /\ \A z \in after \ entries : Cardinality(entries) = PageSize /\ \A w \in entries : Feed!Earlier(w, z)
      /\ next \in entries /\ (cursor = Feed!NoEntry \/ cursor \in merged)
      /\ \A y \in entries : AtOrBefore(y, next)
  BY PageFacts
<1>2. merged \subseteq Feed!Entry
  BY <1>1, MergedFacts
<1>3. x \in Feed!Entry /\ x.origin \in Feed!Origin
  BY OwedRows
<1>4. /\ window \subseteq merged /\ IsFiniteSet(window)
      /\ window \subseteq feedHeld
  BY <1>1, <1>3, WindowFacts, MergedFacts
<1>5. \A w \in merged : w \in after <=> (cursor \in merged => Feed!Earlier(cursor, w))
  BY DEF After
<1>6. x \in after \/ (Cardinality(window) = PageSize + 2 /\ \A w \in window : Feed!Earlier(w, x))
  BY OwedRows
<1>7. AtOrBefore(x, next) /\ next \in Feed!Entry
  BY <1>1, <1>2
<1>8. cursor # Feed!NoEntry => Feed!Cardinality({w \in window : w = cursor \/ Feed!Earlier(w, cursor)}) <= 2
  <2> SUFFICES ASSUME cursor # Feed!NoEntry
               PROVE  Feed!Cardinality({w \in window : w = cursor \/ Feed!Earlier(w, cursor)}) <= 2
    OBVIOUS
  <2> DEFINE spent == {w \in window : w = cursor \/ Feed!Earlier(w, cursor)}
  <2>1. ~(Feed!Cardinality(spent) > 2)
    BY <1>3 DEF Feed!Crowded
  <2>2. spent \subseteq window
    OBVIOUS
  <2> HIDE DEF spent
  <2>3. Feed!Cardinality(spent) = Cardinality(spent) /\ Cardinality(spent) \in Nat
    BY <1>4, <2>2, Counts
  <2>4. Feed!Cardinality(spent) <= 2
    BY <2>1, <2>3
  <2> QED BY <2>4 DEF spent
<1> DEFINE spent == {w \in window : cursor # Feed!NoEntry /\ (w = cursor \/ Feed!Earlier(w, cursor))}
<1>9. spent \subseteq window
  OBVIOUS
<1>10. Cardinality(spent) <= 2 /\ Cardinality(spent) \in Nat
  <2>1. Feed!Cardinality(spent) = Cardinality(spent) /\ Cardinality(spent) \in Nat
    BY <1>4, <1>9, Counts
  <2>2. CASE cursor # Feed!NoEntry
    <3>1. spent = {w \in window : w = cursor \/ Feed!Earlier(w, cursor)}
      BY <2>2
    <3> QED BY <1>8, <2>1, <2>2, <3>1
  <2>3. CASE cursor = Feed!NoEntry
    <3>1. spent = {}
      BY <2>3
    <3> QED BY <3>1, FS_EmptySet
  <2> QED BY <2>2, <2>3
<1>11. \A w \in window : w \in spent <=> cursor # Feed!NoEntry /\ AtOrBefore(w, cursor)
  BY DEF AtOrBefore
<1> HIDE DEF page, after, entries, merged, next, window, spent
<1>12. PageSize \in Nat
  BY DEF FeedBounds
<1>13. CASE x \in after
  <2> SUFFICES ASSUME x \notin entries PROVE FALSE
    BY <1>1 DEF page
  <2>1. Feed!Earlier(next, x)
    BY <1>1, <1>13
  <2> QED BY <2>1, <1>3, <1>7, EarlierOrders DEF AtOrBefore
<1>14. CASE Cardinality(window) = PageSize + 2 /\ \A w \in window : Feed!Earlier(w, x)
  <2> DEFINE rest == window \ spent
  <2>1. /\ IsFiniteSet(rest) /\ Cardinality(rest) \in Nat
        /\ Cardinality(rest) = Cardinality(window) - Cardinality(window \cap spent)
    BY <1>4, FS_Difference, FS_CardinalityType
  <2>2. window \cap spent = spent
    BY <1>9
  <2>3. Cardinality(rest) >= PageSize
    <3>1. Cardinality(window) = PageSize + 2
      BY <1>14
    <3> HIDE DEF rest
    <3>2. Cardinality(rest) = (PageSize + 2) - Cardinality(spent)
      BY <2>1, <2>2, <3>1
    <3>3. \A n, k \in Nat : k <= 2 => (n + 2) - k >= n
      OBVIOUS
    <3> QED BY <1>10, <1>12, <3>2, <3>3
  <2>4. \A w \in rest : w \in window /\ w \in after /\ w \in Feed!Entry
    <3> SUFFICES ASSUME NEW w \in rest PROVE w \in window /\ w \in after /\ w \in Feed!Entry
      OBVIOUS
    <3>1. w \in window /\ w \in merged /\ w \in Feed!Entry /\ ~(cursor # Feed!NoEntry /\ AtOrBefore(w, cursor))
      BY <1>2, <1>4, <1>11
    <3>2. cursor \in merged => Feed!Earlier(cursor, w)
      <4> SUFFICES ASSUME cursor \in merged PROVE Feed!Earlier(cursor, w)
        OBVIOUS
      <4>1. cursor \in Feed!Entry /\ cursor # Feed!NoEntry
        BY <1>2, NoRow
      <4> QED BY <3>1, <4>1, EarlierOrders DEF AtOrBefore
    <3> QED BY <3>1, <3>2, <1>5
  <2> HIDE DEF rest
  <2>5. \A w \in rest : Feed!Earlier(w, next)
    <3> SUFFICES ASSUME NEW w \in rest, ~Feed!Earlier(w, next) PROVE FALSE
      OBVIOUS
    <3>1. AtOrBefore(next, w) /\ Feed!Earlier(w, x) /\ w \in Feed!Entry
      BY <1>7, <1>14, <2>4, EarlierOrders DEF AtOrBefore
    <3>2. Feed!Earlier(next, x)
      BY <1>3, <1>7, <3>1, EarlierOrders DEF AtOrBefore
    <3> QED BY <1>3, <1>7, <3>2, EarlierOrders DEF AtOrBefore
  <2>6. next \notin rest /\ rest \cup {next} \subseteq entries
    <3>1. next \notin rest
      BY <1>7, <2>5, EarlierOrders
    <3>2. ASSUME NEW w \in rest, w \notin entries PROVE FALSE
      <4>1. Feed!Earlier(next, w) /\ w \in Feed!Entry
        BY <1>1, <2>4, <3>2
      <4> QED BY <4>1, <1>7, <2>5, EarlierOrders
    <3> QED BY <1>1, <3>1, <3>2
  <2>7. IsFiniteSet(rest \cup {next}) /\ Cardinality(rest \cup {next}) = Cardinality(rest) + 1
    BY <2>1, <2>6, FS_AddElement
  <2>8. Cardinality(rest \cup {next}) <= Cardinality(entries)
    BY <1>1, <2>6, Counts
  <2>9. Cardinality(entries) <= PageSize
    BY PageFacts DEF entries, after
  <2> QED BY <1>1, <1>12, <2>1, <2>3, <2>7, <2>8, <2>9
<1> QED BY <1>6, <1>13, <1>14

\* A row that the last page owes is on it.
LEMMA OwedAtEnd ==
    ASSUME FeedBounds, feedHeld \subseteq Feed!Entry, IsFiniteSet(feedHeld), NEW cursor \in Feed!Entry \cup {Feed!NoEntry},
           ~Feed!Page(cursor).gap, NEW x, Owed(x, cursor), Feed!Page(cursor).next = Feed!NoEntry
    PROVE  x \in Feed!Page(cursor).entries
<1> DEFINE page == Feed!Page(cursor)  after == After(cursor)  entries == Feed!First(PageSize, after)
           merged == Feed!Merged(cursor.at)  window == Feed!Window(x.origin, cursor.at)
<1>1. /\ cursor.at \in Nat /\ page.entries = entries /\ entries \subseteq after /\ after \subseteq merged
      /\ entries # after => page.next \in entries
      /\ page.gap = (page.lost \/ (entries = after /\ Feed!Capped(cursor.at)))
  BY PageFacts
<1>2. merged \subseteq Feed!Entry
  BY <1>1, MergedFacts
<1>3. entries = after
  BY <1>1, <1>2, NoRow
<1>4. ~page.lost /\ ~Feed!Capped(cursor.at)
  BY <1>1, <1>3
<1>5. x.origin \in Feed!Origin /\ (x \in after \/ Cardinality(window) = PageSize + 2)
  BY <1>4, OwedRows
<1>6. IsFiniteSet(window) /\ Cardinality(window) \in Nat
  BY <1>1, <1>5, WindowFacts
<1>7. ~(Feed!Cardinality(window) >= PageSize + 2)
  BY <1>4, <1>5 DEF Feed!Capped, Feed!FetchLimit
<1> HIDE DEF window
<1>8. Feed!Cardinality(window) = Cardinality(window)
  BY <1>6, Counts
<1>9. PageSize \in Nat
  BY DEF FeedBounds
<1>10. Cardinality(window) # PageSize + 2
  BY <1>6, <1>7, <1>8, <1>9
<1> QED BY <1>1, <1>3, <1>5, <1>10

----
(* The feed *)

\* The types of what a step finds.
LEMMA FeedFacts ==
    ASSUME FeedBounds, FeedInv
    PROVE  /\ now \in 0 .. MaxTime /\ feedHeld \subseteq added /\ added \subseteq Feed!Entry /\ feedHeld \subseteq Feed!Entry
           /\ \A x, y \in added : x.id = y.id => x = y
           /\ IsFiniteSet(feedHeld)
           /\ reader.cursor \in Feed!Entry \cup {Feed!NoEntry}
           /\ reader.started \in BOOLEAN /\ reader.ended \in BOOLEAN /\ reader.gap \in BOOLEAN /\ reader.crowded \in BOOLEAN
           /\ reader.read \subseteq Feed!Entry /\ reader.begun \subseteq Feed!Entry
<1>1. /\ now \in 0 .. MaxTime /\ feedHeld \subseteq added /\ added \subseteq Feed!Entry
      /\ (\A x, y \in added : x.id = y.id => x = y) /\ reader \in Feed!Reader
  BY DEF FeedInv, Feed!TypeOK
<1>2. IsFiniteSet(1 .. MaxId)
  BY FS_Interval DEF FeedBounds
<1> DEFINE id == [x \in added |-> x.id]
<1>3. id \in Injection(added, 1 .. MaxId)
  <2>1. \A x \in added : x.id \in 1 .. MaxId
    BY <1>1 DEF Feed!Entry
  <2> QED BY <1>1, <2>1 DEF Injection, IsInjective
<1>4. IsFiniteSet(added)
  BY <1>2, <1>3, FS_Injection
<1>5. IsFiniteSet(feedHeld)
  BY <1>1, <1>4, Counts
<1> QED BY <1>1, <1>5 DEF Feed!Reader

\* The invariant holds of empty tables.
LEMMA FeedInit == ASSUME FeedBounds, Feed!Init PROVE FeedInv
<1>1. reader \in Feed!Reader /\ reader.read = {} /\ reader.begun = {} /\ reader.cursor = Feed!NoEntry
      /\ ~reader.started /\ ~reader.ended /\ ~reader.gap
  BY DEF Feed!Init, Feed!Reader
<1>2. Feed!TypeOK
  BY <1>1 DEF Feed!Init, Feed!TypeOK, FeedBounds
<1> QED BY <1>1, <1>2 DEF FeedInv

\* A step of the tables keeps the invariant: what is gone does not come back.
LEMMA TablesStep ==
    ASSUME FeedBounds, FeedInv, reader' = reader, now' \in 0 .. MaxTime,
           feedHeld' \subseteq added', added \subseteq added', added' \subseteq Feed!Entry,
           \A x, y \in added' : x.id = y.id => x = y,
           feedHeld' \cap added \subseteq feedHeld
    PROVE  FeedInv'
<1>1. /\ reader.begun \subseteq added /\ reader.read \subseteq added
      /\ reader.gap => Went \/ Shared
  BY DEF FeedInv
<1>2. Feed!TypeOK'
  BY DEF FeedInv, Feed!TypeOK
<1>3. Went => Went'
  BY <1>1 DEF Went
<1>4. Shared => Shared'
  BY DEF Shared
<1>5. reader.begun \cap feedHeld' \subseteq reader.begun \cap feedHeld
  BY <1>1
<1> QED BY <1>1, <1>2, <1>3, <1>4, <1>5 DEF FeedInv, Undisturbed

\* The passing of time, a row that is added and one that is evicted keep the invariant.
LEMMA RowsStep ==
    ASSUME FeedBounds, FeedInv,
           \/ Feed!Tick
           \/ \E origin \in Feed!Origin, id \in 1 .. MaxId : Feed!AddEntry(origin, id)
           \/ \E x \in feedHeld : Feed!Evict(x)
    PROVE  FeedInv'
<1>1. CASE Feed!Tick
  <2>1. now' \in 0 .. MaxTime
    BY <1>1, FeedFacts DEF Feed!Tick, FeedBounds
  <2>2. feedHeld' = feedHeld /\ added' = added /\ reader' = reader
    BY <1>1 DEF Feed!Tick
  <2> QED BY <2>1, <2>2, FeedFacts, TablesStep
<1>2. ASSUME NEW origin \in Feed!Origin, NEW id \in 1 .. MaxId, Feed!AddEntry(origin, id) PROVE FeedInv'
  <2> DEFINE aRow == [at |-> now, origin |-> origin, id |-> id]
  <2>1. /\ \A x \in added : x.id # id
        /\ feedHeld' = feedHeld \cup {aRow} /\ added' = added \cup {aRow} /\ now' = now /\ reader' = reader
    BY <1>2 DEF Feed!AddEntry
  <2>2. aRow \in Feed!Entry /\ aRow.id = id
    BY FeedFacts DEF Feed!Entry
  <2> HIDE DEF aRow
  <2>3. aRow \notin added
    BY <2>1, <2>2
  <2>4. /\ feedHeld' \subseteq added' /\ added \subseteq added' /\ added' \subseteq Feed!Entry
        /\ \A x, y \in added' : x.id = y.id => x = y
        /\ feedHeld' \cap added \subseteq feedHeld
    BY <2>1, <2>2, <2>3, FeedFacts
  <2> QED BY <2>1, <2>4, FeedFacts, TablesStep
<1>3. ASSUME NEW x \in feedHeld, Feed!Evict(x) PROVE FeedInv'
  <2>1. feedHeld' = feedHeld \ {x} /\ added' = added /\ now' = now /\ reader' = reader
    BY <1>3 DEF Feed!Evict
  <2> QED BY <2>1, FeedFacts, TablesStep
<1> QED BY <1>1, <1>2, <1>3

\* What the client is given: the page after its cursor, or the first again.
Given ==
    IF Feed!Page(reader.cursor).lost THEN [Feed!Page(Feed!NoEntry) EXCEPT !.gap = TRUE] ELSE Feed!Page(reader.cursor)

\* A page has what is said of a page.
LEMMA GivenFacts ==
    ASSUME FeedBounds, FeedInv
    PROVE  /\ Given.entries \subseteq feedHeld
           /\ Given.next = Feed!NoEntry \/ Given.next \in Given.entries
           /\ Given.gap => \/ Went
                          \/ (reader.cursor # Feed!NoEntry /\ reader.cursor \notin feedHeld)
                          \/ Shared
           /\ Given.gap \in BOOLEAN
           /\ ~Given.gap => Given = Feed!Page(reader.cursor) /\ ~Feed!Page(reader.cursor).lost
<1> DEFINE cursor == reader.cursor
<1>1. /\ feedHeld \subseteq Feed!Entry /\ IsFiniteSet(feedHeld) /\ cursor \in Feed!Entry \cup {Feed!NoEntry}
      /\ Feed!NoEntry \in Feed!Entry \cup {Feed!NoEntry} /\ feedHeld \subseteq added
  BY FeedFacts
<1> HIDE DEF cursor
<1>2. ASSUME NEW from \in Feed!Entry \cup {Feed!NoEntry}
      PROVE  /\ Feed!Page(from).entries \subseteq feedHeld
             /\ Feed!Page(from).next = Feed!NoEntry \/ Feed!Page(from).next \in Feed!Page(from).entries
             /\ Feed!Page(from).gap \in BOOLEAN
             /\ Feed!Page(from).lost => from # Feed!NoEntry /\ Feed!Page(from).gap
             /\ Feed!Page(from) = [entries |-> Feed!Page(from).entries, next |-> Feed!Page(from).next,
                                   lost |-> Feed!Page(from).lost, gap |-> Feed!Page(from).gap]
  <2>1. /\ Feed!Page(from).entries \subseteq feedHeld
        /\ Feed!Page(from).next = Feed!NoEntry \/ Feed!Page(from).next \in Feed!Page(from).entries
        /\ Feed!Page(from).gap \in BOOLEAN
        /\ Feed!Page(from).lost => from # Feed!NoEntry /\ Feed!Page(from).gap
    BY <1>1, PageFacts
  <2>2. Feed!Page(from) = [entries |-> Feed!Page(from).entries, next |-> Feed!Page(from).next,
                           lost |-> Feed!Page(from).lost, gap |-> Feed!Page(from).gap]
    BY DEF Feed!Page
  <2> QED BY <2>1, <2>2
<1>3. SharedHere => Shared
  BY <1>1 DEF SharedHere, Shared
<1>4. CASE Feed!Page(cursor).lost
  <2>1. Given = [Feed!Page(Feed!NoEntry) EXCEPT !.gap = TRUE]
    BY <1>4 DEF Given, cursor
  <2>2. Given.entries = Feed!Page(Feed!NoEntry).entries /\ Given.next = Feed!Page(Feed!NoEntry).next /\ Given.gap = TRUE
    BY <1>1, <1>2, <2>1
  <2>3. cursor # Feed!NoEntry /\ (cursor \notin feedHeld \/ SharedHere)
    BY <1>1, <1>2, <1>4, LostCursor
  <2> QED BY <1>1, <1>2, <1>3, <2>2, <2>3 DEF cursor
<1>5. CASE ~Feed!Page(cursor).lost
  <2>1. Given = Feed!Page(cursor)
    BY <1>5 DEF Given, cursor
  <2>2. Feed!Page(cursor).gap => SharedHere
    BY <1>1, <1>5, DoubtfulEnd
  <2> QED BY <1>1, <1>2, <1>3, <1>5, <2>1, <2>2 DEF cursor
<1> QED BY <1>4, <1>5

\* A page that is read keeps the invariant.
LEMMA ReadPageStep == ASSUME FeedBounds, FeedInv, Feed!ReadPage PROVE FeedInv'
<1> DEFINE page == Given  cursor == reader.cursor
<1>1. /\ ~reader.ended /\ now' = now /\ feedHeld' = feedHeld /\ added' = added
      /\ reader' = [cursor |-> page.next, started |-> TRUE, ended |-> page.next = Feed!NoEntry,
                    gap |-> reader.gap \/ page.gap,
                    crowded |-> reader.crowded \/ Feed!Crowded(cursor),
                    read |-> reader.read \cup page.entries,
                    begun |-> IF reader.started THEN reader.begun ELSE feedHeld]
  BY DEF Feed!ReadPage, Given
<1> HIDE DEF page
<1>2. /\ reader'.cursor = page.next /\ reader'.started = TRUE /\ reader'.ended = (page.next = Feed!NoEntry)
      /\ reader'.gap = (reader.gap \/ page.gap) /\ reader'.crowded = (reader.crowded \/ Feed!Crowded(cursor))
      /\ reader'.read = reader.read \cup page.entries
      /\ reader'.begun = (IF reader.started THEN reader.begun ELSE feedHeld)
  BY <1>1
<1>3. /\ feedHeld \subseteq added /\ added \subseteq Feed!Entry /\ feedHeld \subseteq Feed!Entry /\ IsFiniteSet(feedHeld)
      /\ cursor \in Feed!Entry \cup {Feed!NoEntry}
      /\ reader.read \subseteq Feed!Entry /\ reader.begun \subseteq Feed!Entry
      /\ reader.gap \in BOOLEAN /\ reader.crowded \in BOOLEAN /\ reader.started \in BOOLEAN
  BY FeedFacts
<1>4. /\ page.entries \subseteq feedHeld
      /\ page.next = Feed!NoEntry \/ page.next \in page.entries
      /\ page.gap => Went \/ (cursor # Feed!NoEntry /\ cursor \notin feedHeld) \/ Shared
      /\ page.gap \in BOOLEAN
      /\ ~page.gap => page = Feed!Page(cursor) /\ ~Feed!Page(cursor).lost
  BY GivenFacts DEF page
<1>5. /\ reader.begun \subseteq added /\ reader.read \subseteq added
      /\ cursor # Feed!NoEntry => cursor \in reader.read /\ reader.started
      /\ ~reader.started => reader.begun = {}
      /\ reader.started => cursor # Feed!NoEntry
      /\ reader.gap => Went \/ Shared
  BY <1>1 DEF FeedInv
<1>6. Feed!TypeOK'
  <2>1. reader' \in Feed!Reader
    <3>1. /\ page.next \in Feed!Entry \cup {Feed!NoEntry} /\ (page.next = Feed!NoEntry) \in BOOLEAN
          /\ (reader.gap \/ page.gap) \in BOOLEAN /\ (reader.crowded \/ Feed!Crowded(cursor)) \in BOOLEAN
      BY <1>3, <1>4
    <3>2. reader.read \cup page.entries \in SUBSET Feed!Entry
      BY <1>3, <1>4
    <3>3. (IF reader.started THEN reader.begun ELSE feedHeld) \in SUBSET Feed!Entry
      BY <1>3
    <3> QED BY <1>1, <3>1, <3>2, <3>3 DEF Feed!Reader
  <2> QED BY <1>1, <2>1 DEF FeedInv, Feed!TypeOK
<1>7. reader'.begun \subseteq added' /\ reader'.read \subseteq added'
  BY <1>1, <1>2, <1>3, <1>4, <1>5
<1>8. reader'.gap => Went' \/ Shared'
  <2>1. Shared => Shared'
    BY <1>1 DEF Shared
  <2>2. Went => Went'
    BY <1>1, <1>2, <1>5 DEF Went
  <2>3. cursor # Feed!NoEntry /\ cursor \notin feedHeld => Went'
    BY <1>1, <1>2, <1>5 DEF Went
  <2> QED BY <1>2, <1>4, <1>5, <2>1, <2>2, <2>3
<1>9. ASSUME Undisturbed', NEW x \in reader'.begun \cap feedHeld',
             reader'.ended \/ (reader'.cursor # Feed!NoEntry /\ AtOrBefore(x, reader'.cursor))
      PROVE  x \in reader'.read
  <2>1. ~reader.gap /\ ~page.gap /\ ~reader.crowded /\ ~Feed!Crowded(cursor)
    BY <1>2, <1>9 DEF Undisturbed
  <2>2. page = Feed!Page(cursor) /\ ~Feed!Page(cursor).lost /\ ~Feed!Page(cursor).gap
    BY <1>4, <2>1
  <2>3. x \in feedHeld /\ x \in Feed!Entry
    BY <1>1, <1>3
  <2>4. CASE Owed(x, cursor)
    <3>1. CASE page.next = Feed!NoEntry
      BY <1>2, <1>3, <2>2, <2>4, <3>1, OwedAtEnd
    <3>2. CASE page.next # Feed!NoEntry
      <4>1. AtOrBefore(x, page.next)
        BY <1>2, <1>9, <3>2
      <4> QED BY <1>2, <1>3, <2>1, <2>2, <2>4, <3>2, <4>1, OwedBefore
    <3> QED BY <3>1, <3>2
  <2>5. CASE ~Owed(x, cursor)
    <3>1. cursor # Feed!NoEntry /\ ~Feed!Earlier(cursor, x) /\ cursor \in Feed!Entry
      BY <1>3, <2>3, <2>5 DEF Owed
    <3>2. AtOrBefore(x, cursor)
      BY <2>3, <3>1, EarlierOrders DEF AtOrBefore
    <3>3. reader.started /\ x \in reader.begun
      BY <1>2, <1>5, <3>1
    <3>4. x \in reader.read
      BY <2>1, <2>3, <3>1, <3>2, <3>3 DEF FeedInv, Undisturbed
    <3> QED BY <1>2, <3>4
  <2> QED BY <2>4, <2>5
<1>10. /\ reader'.cursor # Feed!NoEntry => reader'.cursor \in reader'.read /\ reader'.started
       /\ reader'.ended => reader'.started
       /\ ~reader'.started => reader'.begun = {}
       /\ reader'.started /\ ~reader'.ended => reader'.cursor # Feed!NoEntry
  BY <1>2, <1>4
<1> QED BY <1>6, <1>7, <1>8, <1>9, <1>10 DEF FeedInv

\* Every step keeps the invariant, and so does a step of another module.
LEMMA FeedNext == ASSUME FeedBounds, FeedInv, [Feed!Next]_(Feed!vars) PROVE FeedInv'
<1>1. CASE UNCHANGED Feed!vars
  <2>1. now' = now /\ feedHeld' = feedHeld /\ added' = added /\ reader' = reader
    BY <1>1 DEF Feed!vars
  <2> QED BY <2>1, FeedFacts, TablesStep
<1>2. CASE Feed!Next
  BY <1>2, RowsStep, ReadPageStep DEF Feed!Next
<1> QED BY <1>1, <1>2

\* What the invariant says of a feed that was read to its end.
LEMMA FeedSays == ASSUME FeedInv PROVE Feed!FeedIsWhole
  BY DEF FeedInv, Undisturbed, Went, Shared, Feed!FeedIsWhole

\* The types of the feed, and what its pages have given so far: up to its cursor the client has every
\* row that it began with and that is left, and a gap has its reason.
THEOREM FeedInvariant == ASSUME FeedBounds PROVE Feed!Spec => []FeedInv
<1>1. Feed!Init => FeedInv
  BY FeedInit
<1>2. FeedInv /\ [Feed!Next]_(Feed!vars) => FeedInv'
  BY FeedNext
<1> QED BY <1>1, <1>2, PTL DEF Feed!Spec

\* A client that was told of no gap has every row that it began with and that is left, and a gap is
\* said only when a row went or two rows of a source were written in one millisecond.
THEOREM FeedIsReadWhole == ASSUME FeedBounds PROVE Feed!Spec => []Feed!FeedIsWhole
<1>1. FeedInv => Feed!FeedIsWhole
  BY FeedSays
<1> QED BY <1>1, FeedInvariant, PTL

----
(* LiveView *)

CONSTANTS MaxSequence, MaxStreams
VARIABLES committed, published, liveSession, others, stream, frame, liveTab, fetch, view, failed
Live == INSTANCE LiveView WITH session <- liveSession, tab <- liveTab

\* The bounds of the behaviours, and of the streams.
ViewBounds == MaxSequence \in Nat /\ MaxStreams \in Nat

\* The tab will hear of what was committed: a timer or a signal is under way, or it catches up.
HearsOfIt(q) ==
    \/ liveTab.coalesced \/ (q = "changes" /\ liveTab.refresher)
    \/ liveTab.source # "open" \/ ~stream \/ frame
    \/ published < committed

\* An answer under way that is not the latest is read again, even when the request before it failed.
OldIsFollowed ==
    \A q \in Live!Query : fetch[q] \in Live!Version /\ fetch[q] < committed => HearsOfIt(q)

ViewInv ==
    /\ Live!TypeOK
    /\ OldIsFollowed
    /\ Live!StaleIsRefreshed

----
\* The types of what a step finds.
LEMMA ViewFacts ==
    ASSUME ViewBounds, ViewInv
    PROVE  /\ committed \in Nat /\ published \in Nat /\ committed <= MaxSequence /\ published <= committed
           /\ MaxSequence \in Nat /\ MaxStreams \in Nat /\ others \in Nat /\ others <= MaxStreams
           /\ liveTab \in Live!Tab /\ fetch \in [Live!Query -> Live!Version \cup {Live!None, Live!Asked}]
           /\ view \in [Live!Query -> Live!Version] /\ failed \in [Live!Query -> BOOLEAN]
           /\ "card" \in Live!Query /\ "changes" \in Live!Query /\ committed \in Live!Version
           /\ Live!None \notin Live!Version /\ Live!Asked \notin Live!Version /\ Live!Asked # Live!None
           /\ \A v \in Live!Version : v \in Nat
  BY DEF ViewBounds, ViewInv, Live!TypeOK, Live!Query, Live!Version, Live!None, Live!Asked

\* The streams that are held are no more than there may be.
LEMMA SlotsAreEnough ==
    ASSUME MaxStreams \in Nat, NEW aHeld \in 0 .. MaxStreams, NEW own \in BOOLEAN, own => aHeld < MaxStreams
    PROVE  aHeld + (IF own THEN 1 ELSE 0) <= MaxStreams
<1>1. CASE own
  BY <1>1
<1>2. CASE ~own
  BY <1>2
<1> QED BY <1>1, <1>2

\* A slot that is held counts.
LEMMA SlotIsHeld ==
    ASSUME ViewBounds, ViewInv
    PROVE  /\ liveSession \in BOOLEAN /\ stream \in BOOLEAN /\ frame \in BOOLEAN /\ others \in 0 .. MaxStreams
           /\ stream => others < MaxStreams
<1>1. /\ others + (IF stream THEN 1 ELSE 0) <= MaxStreams /\ others \in 0 .. MaxStreams
      /\ liveSession \in BOOLEAN /\ stream \in BOOLEAN /\ frame \in BOOLEAN
  BY DEF ViewInv, Live!TypeOK
<1>2. CASE stream
  BY <1>1, <1>2 DEF ViewBounds
<1> QED BY <1>1, <1>2

\* The types of what a step leaves.
LEMMA ViewTyped ==
    ASSUME ViewBounds, committed' \in Live!Version, published' \in Live!Version, published' <= committed',
           liveSession' \in BOOLEAN, stream' \in BOOLEAN, frame' \in BOOLEAN, others' \in 0 .. MaxStreams,
           stream' => others' < MaxStreams,
           liveTab' \in Live!Tab, liveTab'.enabled <=> liveTab'.source # "none",
           fetch' \in [Live!Query -> Live!Version \cup {Live!None, Live!Asked}],
           view' \in [Live!Query -> Live!Version], failed' \in [Live!Query -> BOOLEAN]
    PROVE  Live!TypeOK'
<1>1. others' + (IF stream' THEN 1 ELSE 0) <= MaxStreams
  BY SlotsAreEnough DEF ViewBounds
<1> QED BY <1>1 DEF Live!TypeOK, Live!Version, Live!None, Live!Asked, Live!Query

\* The invariant holds of a tab that is opened.
LEMMA ViewInit == ASSUME ViewBounds, Live!Init PROVE ViewInv
<1>1. liveTab \in Live!Tab /\ (liveTab.enabled <=> liveTab.source # "none")
  BY DEF Live!Init, Live!Tab
<1>2. 0 \in Live!Version /\ committed \in Live!Version /\ MaxStreams \in Nat
  BY DEF ViewBounds, Live!Init, Live!Version
<1>3. /\ fetch \in [Live!Query -> Live!Version \cup {Live!None, Live!Asked}]
      /\ view \in [Live!Query -> Live!Version] /\ failed \in [Live!Query -> BOOLEAN]
  BY <1>2 DEF Live!Init
<1>4. /\ committed = 0 /\ published = 0 /\ liveSession = TRUE /\ others = 0 /\ stream = FALSE /\ frame = FALSE
      /\ view = [q \in Live!Query |-> 0] /\ fetch = [q \in Live!Query |-> Live!None]
  BY DEF Live!Init
<1>8. others \in 0 .. MaxStreams
  BY <1>2, <1>4
<1>9. liveSession \in BOOLEAN /\ stream \in BOOLEAN /\ frame \in BOOLEAN /\ ~stream
  BY <1>4
<1>6. others + (IF stream THEN 1 ELSE 0) <= MaxStreams
  BY <1>2, <1>8, <1>9, SlotsAreEnough
<1>l. published <= committed /\ published \in Live!Version
  BY <1>2, <1>4
<1>7. Live!TypeOK
  BY <1>1, <1>2, <1>3, <1>8, <1>9, <1>l, <1>6 DEF Live!TypeOK
<1>5. QED
  BY <1>4, <1>7, <1>9 DEF ViewInv, OldIsFollowed, HearsOfIt, Live!StaleIsRefreshed, Live!RefreshIsDue, Live!Query

\* A command commits: the signal is under way, or there is no stream, or it could not be published.
LEMMA ExecuteStep == ASSUME ViewBounds, ViewInv, Live!Execute PROVE ViewInv'
<1>1. PICK succeeds \in BOOLEAN, written \in BOOLEAN :
        /\ published' = Live!Published(published, committed', succeeds)
        /\ frame' = (frame \/ (succeeds /\ stream /\ written))
        /\ stream' = (stream /\ (succeeds => written))
  BY Zenon DEF Live!Execute
<1>2. /\ committed' = committed + 1 /\ committed < MaxSequence
      /\ UNCHANGED <<liveSession, others, liveTab, fetch, view, failed>>
  BY DEF Live!Execute
<1>3. published' = IF succeeds THEN committed + 1 ELSE published
  BY <1>1, <1>2 DEF Live!Published
<1>4. committed' \in Live!Version /\ published' \in Live!Version /\ published' <= committed'
  BY <1>2, <1>3, ViewFacts DEF Live!Version
<1>5. stream' \in BOOLEAN /\ frame' \in BOOLEAN /\ (stream' => stream)
  BY <1>1 DEF ViewInv, Live!TypeOK
<1>6. Live!TypeOK'
  BY <1>2, <1>4, <1>5, SlotIsHeld, ViewFacts, ViewTyped DEF ViewInv, Live!TypeOK
<1>7. stream' => frame' \/ published' < committed'
  BY <1>1, <1>2, <1>3, ViewFacts
<1> QED BY <1>6, <1>7 DEF ViewInv, OldIsFollowed, HearsOfIt, Live!StaleIsRefreshed, Live!RefreshIsDue

\* A step that leaves the tab to hear of what it did not see, and asks nothing.
LEMMA HearsStep ==
    ASSUME ViewBounds, ViewInv, UNCHANGED <<committed, fetch, view, failed>>, Live!TypeOK',
           \A q \in Live!Query : HearsOfIt(q) => HearsOfIt(q)'
    PROVE  ViewInv'
<1>1. OldIsFollowed'
  BY DEF ViewInv, OldIsFollowed, Live!Version, Live!Query
<1>2. ASSUME NEW q \in Live!Query, view[q] < committed
      PROVE  Live!RefreshIsDue(q)' \/ failed[q] \/ published' < committed'
  BY <1>2 DEF ViewInv, Live!StaleIsRefreshed, Live!RefreshIsDue, HearsOfIt, Live!Asked
<1> QED BY <1>1, <1>2 DEF ViewInv, Live!StaleIsRefreshed

\* A step that reads nothing, and after which the tab hears of what it heard of before.
LEMMA GoesOn ==
    ASSUME ViewBounds, ViewInv, UNCHANGED <<committed, fetch, view, failed>>,
           published' \in Live!Version, published' <= committed,
           liveSession' \in BOOLEAN, stream' \in BOOLEAN, frame' \in BOOLEAN, others' \in 0 .. MaxStreams,
           stream' => others' < MaxStreams, liveTab' \in Live!Tab, liveTab'.enabled <=> liveTab'.source # "none",
           \/ liveTab'.source # "open" \/ ~stream' \/ liveTab'.coalesced
           \/ /\ UNCHANGED <<published, stream, frame>> /\ liveTab'.source = liveTab.source
              /\ liveTab'.coalesced = liveTab.coalesced /\ liveTab'.refresher = liveTab.refresher
    PROVE  ViewInv'
<1>1. Live!TypeOK'
  BY ViewFacts, ViewTyped
<1>2. \A q \in Live!Query : HearsOfIt(q) => HearsOfIt(q)'
  BY DEF HearsOfIt
<1> QED BY <1>1, <1>2, HearsStep

\* What the daemon and the other tabs do to the stream.
LEMMA StreamStep ==
    ASSUME ViewBounds, ViewInv, Live!Expire \/ Live!Heartbeat \/ Live!OtherTab \/ Live!Restart
    PROVE  ViewInv'
<1>1. liveTab \in Live!Tab /\ (liveTab.enabled <=> liveTab.source # "none") /\ published \in Live!Version /\ published <= committed
      /\ committed \in Live!Version /\ MaxStreams \in Nat
  BY ViewFacts DEF ViewInv, Live!TypeOK
<1>2. /\ liveSession \in BOOLEAN /\ stream \in BOOLEAN /\ frame \in BOOLEAN /\ others \in 0 .. MaxStreams
      /\ stream => others < MaxStreams
  BY SlotIsHeld
<1>3. CASE Live!Expire
  BY <1>1, <1>2, <1>3, GoesOn DEF Live!Expire
<1>4. CASE Live!Heartbeat
  BY <1>1, <1>2, <1>4, GoesOn DEF Live!Heartbeat
<1>5. CASE Live!OtherTab
  <2>1. others + (IF stream THEN 1 ELSE 0) < MaxStreams => others + 1 \in 0 .. MaxStreams /\ (stream => others + 1 < MaxStreams)
    BY <1>1, <1>2
  <2>2. others > 0 => others - 1 \in 0 .. MaxStreams /\ (stream => others - 1 < MaxStreams)
    BY <1>1, <1>2
  <2>3. others' \in 0 .. MaxStreams /\ (stream => others' < MaxStreams)
    BY <1>5, <2>1, <2>2 DEF Live!OtherTab
  <2>4. UNCHANGED <<committed, published, liveSession, stream, frame, liveTab, fetch, view, failed>>
    BY <1>5 DEF Live!OtherTab
  <2> QED BY <1>1, <1>2, <2>3, <2>4, GoesOn
<1>6. CASE Live!Restart
  <2>1. /\ UNCHANGED <<committed, frame, liveTab, fetch, view, failed>> /\ published' = committed
        /\ liveSession' = FALSE /\ stream' = FALSE /\ others' = 0
    BY <1>6 DEF Live!Restart
  <2>2. committed <= committed /\ others' \in 0 .. MaxStreams
    BY <1>1, <2>1, ViewFacts
  <2>3. liveSession' \in BOOLEAN /\ stream' \in BOOLEAN /\ ~stream'
    BY <2>1
  <2> QED BY <1>1, <1>2, <2>1, <2>2, <2>3, GoesOn
<1> QED BY <1>3, <1>4, <1>5, <1>6

\* What the tab and its browser do to its source.
LEMMA SourceStep ==
    ASSUME ViewBounds, ViewInv,
           \/ Live!Connect \/ Live!Drop \/ Live!Deliver \/ Live!Reconnect \/ Live!CheckConnection \/ Live!SignIn
    PROVE  ViewInv'
<1>1. liveTab \in Live!Tab /\ (liveTab.enabled <=> liveTab.source # "none") /\ published \in Live!Version /\ published <= committed
      /\ MaxStreams \in Nat
  BY ViewFacts DEF ViewInv, Live!TypeOK
<1>2. /\ liveSession \in BOOLEAN /\ stream \in BOOLEAN /\ frame \in BOOLEAN /\ others \in 0 .. MaxStreams
      /\ stream => others < MaxStreams
  BY SlotIsHeld
<1>3. CASE Live!Connect
  <2>1. /\ UNCHANGED <<committed, published, liveSession, others, fetch, view, failed>> /\ frame' = FALSE
        /\ liveTab.source = "connecting"
    BY <1>3 DEF Live!Connect
  <2>2. /\ liveTab' = liveTab \/ liveTab' = [liveTab EXCEPT !.source = "closed", !.checking = TRUE]
        /\ stream' = stream \/ (stream' = TRUE /\ others < MaxStreams)
    BY <1>3 DEF Live!Connect
  <2>3. liveTab' \in Live!Tab /\ (liveTab'.enabled <=> liveTab'.source # "none") /\ liveTab'.source # "open"
    BY <1>1, <2>1, <2>2 DEF Live!Tab
  <2>4. stream' \in BOOLEAN /\ frame' \in BOOLEAN /\ liveSession' \in BOOLEAN
    BY <1>2, <2>1, <2>2
  <2>5. others' \in 0 .. MaxStreams /\ (stream' => others' < MaxStreams)
    BY <1>2, <2>1, <2>2
  <2> QED BY <1>1, <2>1, <2>3, <2>4, <2>5, GoesOn
<1>4. CASE Live!Drop
  <2>1. /\ UNCHANGED <<committed, published, liveSession, fetch, view, failed>> /\ frame' = FALSE /\ stream' = FALSE
        /\ liveTab' = [liveTab EXCEPT !.source = "connecting"] /\ liveTab.source = "open"
        /\ others' = others \/ (stream /\ others' = others + 1)
    BY <1>4 DEF Live!Drop
  <2>2. liveTab' \in Live!Tab /\ (liveTab'.enabled <=> liveTab'.source # "none") /\ liveTab'.source # "open"
    BY <1>1, <2>1 DEF Live!Tab
  <2>3. others' \in 0 .. MaxStreams
    BY <1>1, <1>2, <2>1
  <2>4. stream' \in BOOLEAN /\ frame' \in BOOLEAN /\ ~stream'
    BY <2>1
  <2> QED BY <1>1, <1>2, <2>1, <2>2, <2>3, <2>4, GoesOn
<1>5. CASE Live!Deliver
  <2>1. /\ UNCHANGED <<committed, published, liveSession, others, stream, fetch, view, failed>> /\ frame' = FALSE
        /\ liveTab' = [liveTab EXCEPT !.coalesced = TRUE]
    BY <1>5 DEF Live!Deliver
  <2>2. liveTab' \in Live!Tab /\ (liveTab'.enabled <=> liveTab'.source # "none") /\ liveTab'.coalesced
    BY <1>1, <2>1 DEF Live!Tab
  <2> QED BY <1>1, <1>2, <2>1, <2>2, GoesOn
<1>6. CASE Live!Reconnect
  <2>1. /\ UNCHANGED <<committed, published, liveSession, others, stream, frame, fetch, view, failed>>
        /\ liveTab' = [liveTab EXCEPT !.source = "connecting", !.coalesced = FALSE, !.refresher = FALSE] /\ liveTab.source = "closed"
    BY <1>6 DEF Live!Reconnect, Live!server
  <2>2. liveTab' \in Live!Tab /\ (liveTab'.enabled <=> liveTab'.source # "none") /\ liveTab'.source # "open"
    BY <1>1, <2>1 DEF Live!Tab
  <2> QED BY <1>1, <1>2, <2>1, <2>2, GoesOn
<1>7. CASE Live!CheckConnection
  <2>1. /\ UNCHANGED <<committed, published, liveSession, others, fetch, view, failed>>
        /\ \/ liveTab' = [liveTab EXCEPT !.checking = FALSE] /\ UNCHANGED <<stream, frame>>
           \/ /\ liveTab' = [enabled |-> FALSE, checking |-> FALSE, source |-> "none", coalesced |-> FALSE, refresher |-> FALSE]
              /\ stream' = FALSE /\ frame' = FALSE
    BY <1>7 DEF Live!CheckConnection
  <2>2. CASE liveTab' = [liveTab EXCEPT !.checking = FALSE] /\ UNCHANGED <<stream, frame>>
    <3>1. /\ liveTab' \in Live!Tab /\ (liveTab'.enabled <=> liveTab'.source # "none") /\ liveTab'.source = liveTab.source
          /\ liveTab'.coalesced = liveTab.coalesced /\ liveTab'.refresher = liveTab.refresher
      BY <1>1, <2>2 DEF Live!Tab
    <3> QED BY <1>1, <1>2, <2>1, <2>2, <3>1, GoesOn
  <2>3. CASE /\ liveTab' = [enabled |-> FALSE, checking |-> FALSE, source |-> "none", coalesced |-> FALSE, refresher |-> FALSE]
             /\ stream' = FALSE /\ frame' = FALSE
    <3>1. liveTab' \in Live!Tab /\ (liveTab'.enabled <=> liveTab'.source # "none") /\ liveTab'.source # "open"
      BY <2>3 DEF Live!Tab
    <3>2. stream' \in BOOLEAN /\ frame' \in BOOLEAN /\ ~stream'
      BY <2>3
    <3> QED BY <1>1, <1>2, <2>1, <3>1, <3>2, GoesOn
  <2> QED BY <2>1, <2>2, <2>3
<1>8. CASE Live!SignIn
  <2>1. /\ UNCHANGED <<committed, published, others, stream, frame, fetch, view, failed>> /\ liveSession' = TRUE
        /\ liveTab' = [liveTab EXCEPT !.enabled = TRUE, !.source = "connecting"]
    BY <1>8 DEF Live!SignIn
  <2>2. liveTab' \in Live!Tab /\ (liveTab'.enabled <=> liveTab'.source # "none") /\ liveTab'.source # "open"
    BY <1>1, <2>1 DEF Live!Tab
  <2> QED BY <1>1, <1>2, <2>1, <2>2, GoesOn
<1> QED BY <1>3, <1>4, <1>5, <1>6, <1>7, <1>8

\* The tab asks for a query, or for both: what it asks for it will see.
LEMMA AskStep ==
    ASSUME ViewBounds, ViewInv, Live!Open \/ Live!Flush \/ Live!RefreshChanges
    PROVE  ViewInv'
<1>1. PICK queries \in SUBSET Live!Query :
        /\ fetch' = Live!Refetched(queries)
        /\ \A q \in Live!Query \ queries : HearsOfIt(q)'  \/ (HearsOfIt(q)' <=> HearsOfIt(q))
  <2>1. liveTab \in Live!Tab
    BY ViewFacts
  <2>2. CASE Live!Open
    <3>1. fetch' = Live!Refetched(Live!Query) /\ Live!Query \ Live!Query = {}
      BY <2>2 DEF Live!Open, Live!CatchUp
    <3> QED BY <3>1
  <2>3. CASE Live!Flush
    <3>1. liveTab' = [liveTab EXCEPT !.coalesced = FALSE, !.refresher = TRUE] /\ fetch' = Live!Refetched({"card"})
      BY <2>3 DEF Live!Flush
    <3>2. liveTab'.refresher
      BY <2>1, <3>1 DEF Live!Tab
    <3> QED BY <3>1, <3>2 DEF HearsOfIt, Live!Query
  <2>4. CASE Live!RefreshChanges
    <3>1. /\ liveTab' = [liveTab EXCEPT !.refresher = FALSE] /\ fetch' = Live!Refetched({"changes"})
          /\ UNCHANGED <<committed, published, stream, frame>>
      BY <2>4 DEF Live!RefreshChanges, Live!server
    <3>2. liveTab'.source = liveTab.source /\ liveTab'.coalesced = liveTab.coalesced
      BY <2>1, <3>1 DEF Live!Tab
    <3> QED BY <3>1, <3>2 DEF HearsOfIt, Live!Query
  <2> QED BY <2>2, <2>3, <2>4
<1>2. UNCHANGED <<committed, published, liveSession, others, stream, frame, view, failed>>
  BY DEF Live!Open, Live!Flush, Live!RefreshChanges, Live!server
<1>3. liveTab' \in Live!Tab /\ (liveTab'.enabled <=> liveTab'.source # "none")
  BY ViewFacts DEF ViewInv, Live!TypeOK, Live!Open, Live!Flush, Live!RefreshChanges, Live!Tab
<1>4. /\ fetch' \in [Live!Query -> Live!Version \cup {Live!None, Live!Asked}]
      /\ \A q \in queries : fetch'[q] = Live!Asked
      /\ \A q \in Live!Query \ queries : fetch'[q] = fetch[q]
  BY <1>1, ViewFacts DEF Live!Refetched
<1>5. Live!TypeOK'
  BY <1>2, <1>3, <1>4 DEF ViewInv, Live!TypeOK, Live!Version, Live!None, Live!Asked, Live!Query
<1>6. ASSUME NEW q \in Live!Query, fetch'[q] \in Live!Version, fetch'[q] < committed PROVE HearsOfIt(q)'
  <2>1. q \notin queries
    BY <1>4, <1>6, ViewFacts
  <2> QED BY <1>1, <1>4, <1>6, <2>1 DEF ViewInv, OldIsFollowed
<1>7. ASSUME NEW q \in Live!Query, view[q] < committed
      PROVE  Live!RefreshIsDue(q)' \/ failed[q] \/ published' < committed'
  <2>1. CASE q \in queries
    BY <1>4, <2>1 DEF Live!RefreshIsDue, Live!Asked
  <2>2. CASE q \notin queries
    <3>1. Live!RefreshIsDue(q) \/ failed[q] \/ published < committed
      BY <1>7 DEF ViewInv, Live!StaleIsRefreshed
    <3>2. fetch'[q] = fetch[q] /\ (HearsOfIt(q)' \/ (HearsOfIt(q)' <=> HearsOfIt(q)))
      BY <1>1, <1>4, <2>2
    <3> QED BY <1>2, <3>1, <3>2 DEF Live!RefreshIsDue, HearsOfIt, Live!Asked
  <2> QED BY <2>1, <2>2
<1> QED BY <1>2, <1>5, <1>6, <1>7 DEF ViewInv, OldIsFollowed, Live!StaleIsRefreshed, Live!Version

\* The daemon answers with the latest, or refuses; the answer arrives, or is lost.
LEMMA AnswerStep ==
    ASSUME ViewBounds, ViewInv, NEW q \in Live!Query, Live!Read(q) \/ Live!Answer(q)
    PROVE  ViewInv'
<1>1. UNCHANGED <<committed, published, liveSession, others, stream, frame, liveTab>>
  BY DEF Live!Read, Live!Answer, Live!server
<1>2. /\ fetch' \in [Live!Query -> Live!Version \cup {Live!None, Live!Asked}]
      /\ view' \in [Live!Query -> Live!Version] /\ failed' \in [Live!Query -> BOOLEAN]
      /\ fetch'[q] \in {committed, Live!None}
      /\ fetch'[q] = Live!None => failed'[q] \/ (fetch[q] \in Live!Version /\ view'[q] = fetch[q])
      /\ \A x \in Live!Query : x # q => fetch'[x] = fetch[x] /\ view'[x] = view[x] /\ failed'[x] = failed[x]
  BY ViewFacts DEF Live!Read, Live!Answer
<1>3. Live!TypeOK'
  BY <1>1, <1>2 DEF ViewInv, Live!TypeOK, Live!Version, Live!None, Live!Asked, Live!Query
<1>4. ASSUME NEW x \in Live!Query, fetch'[x] \in Live!Version, fetch'[x] < committed PROVE HearsOfIt(x)'
  <2>1. x # q
    BY <1>2, <1>4, ViewFacts
  <2> QED BY <1>1, <1>2, <1>4, <2>1 DEF ViewInv, OldIsFollowed, HearsOfIt
<1>5. ASSUME NEW x \in Live!Query, view'[x] < committed
      PROVE  Live!RefreshIsDue(x)' \/ failed'[x] \/ published' < committed'
  <2>1. CASE x # q
    BY <1>1, <1>2, <1>5, <2>1 DEF ViewInv, Live!StaleIsRefreshed, Live!RefreshIsDue, Live!Asked
  <2>2. CASE x = q /\ fetch'[q] = committed
    BY <1>1, <2>2 DEF Live!RefreshIsDue
  <2>3. CASE x = q /\ fetch'[q] = Live!None
    BY <1>1, <1>2, <1>5, <2>3 DEF ViewInv, OldIsFollowed, HearsOfIt, Live!RefreshIsDue
  <2> QED BY <1>2, <2>1, <2>2, <2>3
<1> QED BY <1>1, <1>3, <1>4, <1>5 DEF ViewInv, OldIsFollowed, Live!StaleIsRefreshed, Live!Version

\* The invariant outlives a step in which nothing changes.
LEMMA ViewStutter == ASSUME ViewBounds, ViewInv, UNCHANGED Live!vars PROVE ViewInv'
<1>1. Live!TypeOK'
  BY DEF Live!vars, ViewInv, Live!TypeOK, Live!Version, Live!None, Live!Asked, Live!Query
<1> QED BY <1>1, HearsStep DEF Live!vars, HearsOfIt

----
\* The invariant of LiveView, for any number of events and of streams.
THEOREM ViewInvariant ==
    ASSUME ViewBounds PROVE Live!Spec => []ViewInv
<1>1. Live!Init => ViewInv
  BY ViewInit
<1>2. ViewInv /\ [Live!Next]_(Live!vars) => ViewInv'
  BY ExecuteStep, StreamStep, SourceStep, AskStep, AnswerStep, ViewStutter DEF Live!Next
<1> QED BY <1>1, <1>2, PTL DEF Live!Spec

\* What a tab shows that is not the latest it reads again, or says that it could not.
THEOREM StaleGetsRefreshed ==
    ASSUME ViewBounds PROVE Live!Spec => []Live!StaleIsRefreshed
<1>1. ViewInv => Live!StaleIsRefreshed
  BY DEF ViewInv
<1> QED BY <1>1, ViewInvariant, PTL

----
(* LogFiles *)

CONSTANTS logsFile, NoName, SegmentLimit, TotalLimit, MaxOwned, Rotation, Retention
VARIABLES segment, writer, line, answer
Logs == INSTANCE LogFiles WITH File <- logsFile

\* The limits, which fit each other, and a name for one segment more than a directory may hold.
LogBounds ==
    /\ IsFiniteSet(logsFile) /\ NoName \notin logsFile
    /\ MaxOwned \in Nat /\ MaxOwned < Cardinality(logsFile)
    /\ SegmentLimit \in Nat \ {0} /\ TotalLimit \in Nat /\ SegmentLimit <= TotalLimit
    /\ Rotation \in Nat /\ Retention \in Nat

\* The files that a directory has, their entries, and how many of them.
Held(files) == {f \in logsFile : files[f].there}
Entries(files, names) == {entry \in names \X (1 .. SegmentLimit) : entry[2] <= files[entry[1]].size}
Size(files, names) == Cardinality(Entries(files, names))

\* What may be kept when a segment is yet to be filled.
Spared == TotalLimit - SegmentLimit

LogInv ==
    /\ Logs!TypeOK
    /\ ~writer.on => writer = Logs!Off
    /\ writer.file # NoName => segment[writer.file].there
    /\ Size(segment, Held(segment)) <= TotalLimit
    /\ writer.on /\ (writer.task = "NONE" \/ writer.file # NoName) => Size(segment, Held(segment) \ {writer.file}) <= Spared
    /\ writer.on /\ writer.task = "NONE" /\ writer.file = NoName => Cardinality(Held(segment)) <= MaxOwned
    /\ writer.task \in {"START", "WRITE", "CLOSE"} => writer.file = NoName
    /\ line.last = 1 /\ (writer.discard => line.now = 1) /\ (~writer.discard => line.now = 0)

Files == [logsFile -> Logs!Segment]
Stream == [on : BOOLEAN, file : logsFile \cup {NoName}, age : 0 .. Rotation, pending : BOOLEAN, discard : BOOLEAN,
           task : {"NONE", "START", "WRITE", "MAINTAIN", "CLOSE"}]

----
\* The entries of files that are there are counted, and of fewer files or shorter ones are fewer.
LEMMA EntriesCount ==
    ASSUME LogBounds, NEW files, NEW names, names \subseteq logsFile
    PROVE  IsFiniteSet(Entries(files, names)) /\ Size(files, names) \in Nat
<1>1. IsFiniteSet(logsFile) /\ IsFiniteSet(1 .. SegmentLimit)
  BY FS_Interval DEF LogBounds
<1>2. IsFiniteSet(logsFile \X (1 .. SegmentLimit))
  BY <1>1, FS_Product
<1>3. Entries(files, names) \in SUBSET (logsFile \X (1 .. SegmentLimit))
  BY DEF Entries
<1>4. IsFiniteSet(Entries(files, names))
  BY <1>2, <1>3, FS_Subset
<1> QED BY <1>4, FS_CardinalityType DEF Size

\* Files that are no longer than others of the same names have no more entries.
LEMMA FewerEntries ==
    ASSUME LogBounds, NEW files \in Files, NEW names, NEW aOthers \in Files, NEW more, names \subseteq more, more \subseteq logsFile,
           \A f \in names : files[f].size <= aOthers[f].size
    PROVE  Size(files, names) <= Size(aOthers, more)
<1>1. Entries(files, names) \subseteq Entries(aOthers, more)
  <2> SUFFICES ASSUME NEW entry \in Entries(files, names) PROVE entry \in Entries(aOthers, more)
    OBVIOUS
  <2>1. /\ entry \in names \X (1 .. SegmentLimit) /\ entry[2] <= files[entry[1]].size /\ entry[1] \in names
        /\ entry[2] \in 1 .. SegmentLimit
    BY DEF Entries
  <2>2. files[entry[1]] \in Logs!Segment /\ aOthers[entry[1]] \in Logs!Segment
    BY <2>1 DEF Files
  <2>3. files[entry[1]].size \in Int /\ aOthers[entry[1]].size \in Int /\ entry[2] \in Int
    BY <2>1, <2>2 DEF Logs!Segment, LogBounds
  <2>4. entry[2] <= aOthers[entry[1]].size
    BY <2>1, <2>3
  <2>5. entry \in more \X (1 .. SegmentLimit)
    BY <2>1
  <2> QED BY <2>4, <2>5 DEF Entries
<1>2. Entries(files, names) \in SUBSET Entries(aOthers, more) /\ IsFiniteSet(Entries(aOthers, more))
  BY <1>1, EntriesCount
<1> QED BY <1>2, FS_Subset DEF Size

\* A segment more has no more entries than a segment may have.
LEMMA OneMoreSegment ==
    ASSUME LogBounds, NEW files, NEW names, names \subseteq logsFile, NEW f \in logsFile
    PROVE  Size(files, names) <= Size(files, names \ {f}) + SegmentLimit
<1> DEFINE rest == Entries(files, names \ {f})  own == {f} \X (1 .. SegmentLimit)
<1>1. Entries(files, names) \subseteq rest \cup own
  BY DEF Entries
<1>2. IsFiniteSet(rest) /\ Cardinality(rest) \in Nat /\ Cardinality(rest) = Size(files, names \ {f})
  <2>1. names \ {f} \subseteq logsFile
    OBVIOUS
  <2> QED BY <2>1, EntriesCount DEF Size
<1> HIDE DEF rest
<1>3. IsFiniteSet(own) /\ Cardinality(own) = SegmentLimit
  <2>1. IsFiniteSet({f}) /\ Cardinality({f}) = 1
    BY FS_Singleton
  <2>2. IsFiniteSet(1 .. SegmentLimit) /\ Cardinality(1 .. SegmentLimit) = SegmentLimit
    BY FS_Interval DEF LogBounds
  <2>3. IsFiniteSet(own) /\ Cardinality(own) = Cardinality({f}) * Cardinality(1 .. SegmentLimit)
    BY <2>1, <2>2, FS_Product
  <2>4. SegmentLimit \in Nat
    BY DEF LogBounds
  <2> QED BY <2>1, <2>2, <2>3, <2>4
<1> HIDE DEF own
<1>4. IsFiniteSet(rest \cup own) /\ Cardinality(rest \cup own) = Cardinality(rest) + Cardinality(own) - Cardinality(rest \cap own)
  BY <1>2, <1>3, FS_Union
<1>5. Cardinality(rest \cap own) \in Nat
  BY <1>2, FS_Intersection, FS_CardinalityType
<1>6. Entries(files, names) \in SUBSET (rest \cup own)
  BY <1>1
<1>7. Cardinality(Entries(files, names)) <= Cardinality(rest \cup own)
  BY <1>4, <1>6, FS_Subset
<1>8. SegmentLimit \in Nat /\ Size(files, names) \in Nat
  BY EntriesCount DEF LogBounds
<1>9. Size(files, names) = Cardinality(Entries(files, names))
  BY DEF Size
<1> HIDE DEF Size
<1> QED BY <1>2, <1>3, <1>4, <1>5, <1>7, <1>8, <1>9

\* The model counts as these definitions do.
LEMMA CountsAgree ==
    /\ Logs!Names = Held(segment)
    /\ \A names : Logs!SizeOf(names) = Size(segment, names)
    /\ \A S : Logs!Cardinality(S) = Cardinality(S)
  BY DEF Logs!Names, Held, Logs!SizeOf, Size, Entries, Logs!Cardinality, Cardinality

\* The files that are there are counted.
LEMMA HeldCounts ==
    ASSUME LogBounds, NEW files PROVE IsFiniteSet(Held(files)) /\ Cardinality(Held(files)) \in Nat /\ Held(files) \subseteq logsFile
<1>1. Held(files) \in SUBSET logsFile
  BY DEF Held
<1> QED BY <1>1, FS_Subset, FS_CardinalityType DEF LogBounds

\* A directory that is not full has a name to spare.
LEMMA FreeIsFree ==
    ASSUME LogBounds, Cardinality(Held(segment)) <= MaxOwned
    PROVE  Logs!Free \in logsFile /\ ~segment[Logs!Free].there
<1>1. \E f \in logsFile : ~segment[f].there
  <2> SUFFICES ASSUME \A f \in logsFile : segment[f].there PROVE FALSE
    OBVIOUS
  <2>1. Held(segment) = logsFile
    BY DEF Held
  <2>2. Cardinality(logsFile) \in Nat
    BY FS_CardinalityType DEF LogBounds
  <2> QED BY <2>1, <2>2 DEF LogBounds
<1> QED BY <1>1 DEF Logs!Free

\* The types of what a step finds.
LEMMA LogFacts ==
    ASSUME LogBounds, LogInv
    PROVE  /\ segment \in Files /\ (\A f \in logsFile : ~segment[f].there => segment[f] = Logs!NoFile)
           /\ writer \in Stream /\ line \in [now : 0 .. 2, last : 0 .. 2] /\ answer \in {"NONE", "WHOLE", "INVALID"}
           /\ NoName \notin logsFile /\ Held(segment) \subseteq logsFile
           /\ SegmentLimit \in Nat /\ SegmentLimit > 0 /\ TotalLimit \in Nat /\ Spared \in Nat /\ MaxOwned \in Nat
           /\ Spared + SegmentLimit = TotalLimit
           /\ Size(segment, Held(segment)) \in Nat /\ Size(segment, Held(segment) \ {writer.file}) \in Nat
<1>1. /\ segment \in Files /\ (\A f \in logsFile : ~segment[f].there => segment[f] = Logs!NoFile)
      /\ writer \in Stream /\ line \in [now : 0 .. 2, last : 0 .. 2] /\ answer \in {"NONE", "WHOLE", "INVALID"}
  BY DEF LogInv, Logs!TypeOK, Files, Stream
<1>2. Held(segment) \subseteq logsFile /\ Held(segment) \ {writer.file} \subseteq logsFile
  BY DEF Held
<1>3. /\ NoName \notin logsFile /\ SegmentLimit \in Nat /\ SegmentLimit > 0 /\ TotalLimit \in Nat /\ Spared \in Nat /\ MaxOwned \in Nat
      /\ Spared + SegmentLimit = TotalLimit
  BY DEF LogBounds, Spared
<1>4. Size(segment, Held(segment)) \in Nat /\ Size(segment, Held(segment) \ {writer.file}) \in Nat
  BY <1>2, EntriesCount
<1> QED BY <1>1, <1>2, <1>3, <1>4

\* The ends of a stream and the file that is none.
LEMMA LogValues ==
    ASSUME LogBounds
    PROVE  /\ Logs!Off \in Stream /\ ~Logs!Off.on /\ Logs!Off.file = NoName /\ Logs!Off.task = "NONE" /\ ~Logs!Off.discard
           /\ Logs!NoLine \in [now : 0 .. 2, last : 0 .. 2] /\ Logs!NoLine.now = 0 /\ Logs!NoLine.last = 1
           /\ Logs!NoFile \in Logs!Segment /\ ~Logs!NoFile.there /\ Logs!NoFile.size = 0
           /\ Logs!New \in Logs!Segment /\ Logs!New.there /\ Logs!New.size = 0
<1>1. 0 \in 0 .. Rotation /\ 0 \in 0 .. Retention /\ 0 \in 0 .. SegmentLimit /\ NoName \in {NoName}
  <2>1. Rotation \in Nat /\ Retention \in Nat /\ SegmentLimit \in Nat
    BY DEF LogBounds
  <2> QED BY <2>1
<1>2. Logs!Off \in Stream
  BY <1>1 DEF Logs!Off, Stream
<1>3. ~Logs!Off.on /\ Logs!Off.file = NoName /\ Logs!Off.task = "NONE" /\ ~Logs!Off.discard
  BY DEF Logs!Off
<1>4. Logs!NoLine \in [now : 0 .. 2, last : 0 .. 2] /\ Logs!NoLine.now = 0 /\ Logs!NoLine.last = 1
  BY DEF Logs!NoLine
<1>5. Logs!NoFile \in Logs!Segment /\ ~Logs!NoFile.there /\ Logs!NoFile.size = 0
  BY <1>1 DEF Logs!NoFile, Logs!Segment
<1>6. Logs!New \in Logs!Segment /\ Logs!New.there /\ Logs!New.size = 0
  BY <1>1 DEF Logs!New, Logs!NoFile, Logs!Segment
<1> QED BY <1>2, <1>3, <1>4, <1>5, <1>6

\* The types of what a step leaves.
LEMMA LogTypes ==
    ASSUME segment' \in Files, \A f \in logsFile : ~segment'[f].there => segment'[f] = Logs!NoFile,
           writer' \in Stream, line' \in [now : 0 .. 2, last : 0 .. 2], answer' \in {"NONE", "WHOLE", "INVALID"}
    PROVE  Logs!TypeOK'
  BY DEF Logs!TypeOK, Files, Stream

\* The invariant holds of an empty directory.
LEMMA LogInit == ASSUME LogBounds, Logs!Init PROVE LogInv
<1>1. /\ segment \in Files /\ (\A f \in logsFile : ~segment[f].there) /\ \A f \in logsFile : segment[f] = Logs!NoFile
  BY LogValues DEF Logs!Init, Files
<1>2. Logs!TypeOK
  BY <1>1, LogValues DEF Logs!Init, Logs!TypeOK, Files, Stream
<1>3. Held(segment) = {}
  BY <1>1 DEF Held
<1>4. Entries(segment, {}) = {}
  BY DEF Entries
<1>5. Size(segment, Held(segment)) = 0
  BY <1>3, <1>4, FS_EmptySet DEF Size
<1>6. TotalLimit \in Nat
  BY DEF LogBounds
<1> HIDE DEF Size
<1> QED BY <1>2, <1>5, <1>6, LogValues DEF LogInv, Logs!Init

----
\* A step that no file outlives it longer leaves no more entries and no more files.
LEMMA NothingGrows ==
    ASSUME LogBounds, segment \in Files, segment' \in Files,
           \A f \in logsFile : segment'[f].there => segment[f].there /\ segment'[f].size <= segment[f].size,
           NEW any
    PROVE  /\ Size(segment', Held(segment')) <= Size(segment, Held(segment))
           /\ Size(segment', Held(segment') \ {any}) <= Size(segment, Held(segment) \ {any})
           /\ Cardinality(Held(segment')) <= Cardinality(Held(segment))
<1>1. Held(segment') \subseteq Held(segment) /\ Held(segment) \subseteq logsFile
  BY DEF Held
<1>2. \A f \in Held(segment') : segment'[f].size <= segment[f].size
  BY DEF Held
<1>3. Size(segment', Held(segment')) <= Size(segment, Held(segment))
  BY <1>1, <1>2, FewerEntries
<1>4. Size(segment', Held(segment') \ {any}) <= Size(segment, Held(segment) \ {any})
  <2>1. Held(segment') \ {any} \subseteq Held(segment) \ {any} /\ Held(segment) \ {any} \subseteq logsFile
    BY <1>1
  <2>2. \A f \in Held(segment') \ {any} : segment'[f].size <= segment[f].size
    BY <1>2
  <2> QED BY <2>1, <2>2, FewerEntries
<1>5. Held(segment') \in SUBSET Held(segment) /\ IsFiniteSet(Held(segment))
  BY <1>1, HeldCounts
<1> QED BY <1>3, <1>4, <1>5, FS_Subset

\* A step that writes to one segment leaves the others, and no more than there may be when they leave room for it.
LEMMA OneGrows ==
    ASSUME LogBounds, segment \in Files, segment' \in Files, NEW f \in logsFile,
           \A g \in logsFile \ {f} : segment'[g] = segment[g],
           Size(segment, Held(segment) \ {f}) <= Spared
    PROVE  /\ Size(segment', Held(segment') \ {f}) <= Spared
           /\ Size(segment', Held(segment')) <= TotalLimit
<1>1. Held(segment') \ {f} = Held(segment) \ {f} /\ Held(segment) \ {f} \subseteq logsFile /\ Held(segment') \subseteq logsFile
  BY DEF Held
<1>2. \A g \in Held(segment) \ {f} : segment'[g].size <= segment[g].size
  <2> SUFFICES ASSUME NEW g \in Held(segment) \ {f} PROVE segment'[g].size <= segment[g].size
    OBVIOUS
  <2>1. g \in logsFile /\ segment'[g] = segment[g] /\ segment[g] \in Logs!Segment
    BY DEF Held, Files
  <2>2. segment[g].size \in Int
    BY <2>1 DEF Logs!Segment, LogBounds
  <2> QED BY <2>1, <2>2
<1>3. Size(segment', Held(segment') \ {f}) <= Size(segment, Held(segment) \ {f})
  BY <1>1, <1>2, FewerEntries
<1>4. /\ Size(segment', Held(segment') \ {f}) \in Nat /\ Size(segment, Held(segment) \ {f}) \in Nat
      /\ Size(segment', Held(segment')) \in Nat
  BY <1>1, EntriesCount
<1>5. Spared \in Int /\ SegmentLimit \in Int /\ Spared + SegmentLimit = TotalLimit
  BY DEF LogBounds, Spared
<1>6. Size(segment', Held(segment')) <= Size(segment', Held(segment') \ {f}) + SegmentLimit
  BY <1>1, OneMoreSegment
<1> HIDE DEF Size, Spared
<1> QED BY <1>3, <1>4, <1>5, <1>6

\* No name is no file's.
LEMMA NoNameIsNone == ASSUME LogBounds, NEW files PROVE Held(files) \ {NoName} = Held(files)
  BY DEF LogBounds, Held

\* The end of a stream, of which the files are no more than there may be, keeps the invariant.
LEMMA DeadStep ==
    ASSUME LogBounds, LogInv, segment' \in Files, \A f \in logsFile : ~segment'[f].there => segment'[f] = Logs!NoFile,
           Size(segment', Held(segment')) <= TotalLimit, Logs!Dead, answer' = answer
    PROVE  LogInv'
<1>1. writer' = Logs!Off /\ line' = Logs!NoLine
  BY DEF Logs!Dead
<1>2. Logs!TypeOK'
  BY <1>1, LogValues, LogFacts, LogTypes
<1> QED BY <1>1, <1>2, LogValues DEF LogInv

----
\* A file that a clean-up removes is not the open one.
LEMMA CleanOneStep == ASSUME LogBounds, LogInv, Logs!CleanOne PROVE LogInv'
<1>1. PICK f \in Logs!Removable : segment' = [segment EXCEPT ![f] = Logs!NoFile]
  BY DEF Logs!CleanOne
<1>2. writer' = writer /\ line' = line /\ answer' = answer /\ writer.task # "NONE"
  BY DEF Logs!CleanOne
<1>3. f \in Logs!Names \ Logs!OpenOne
  BY DEF Logs!Removable
<1>4. f \in logsFile /\ (writer.file # NoName => f # writer.file)
  BY <1>3 DEF Logs!Names, Logs!OpenOne
<1>5. /\ segment' \in Files /\ segment'[f] = Logs!NoFile /\ \A g \in logsFile \ {f} : segment'[g] = segment[g]
  BY <1>1, <1>4, LogFacts, LogValues DEF Files
<1>6. \A g \in logsFile : segment[g].size \in Int
  BY LogFacts DEF Files, Logs!Segment
<1>7. \A g \in logsFile : segment'[g].there => segment[g].there /\ segment'[g].size <= segment[g].size
  BY <1>5, <1>6, LogValues
<1>8. \A g \in logsFile : ~segment'[g].there => segment'[g] = Logs!NoFile
  BY <1>5, LogFacts
<1>9. /\ Size(segment', Held(segment')) <= Size(segment, Held(segment))
      /\ Size(segment', Held(segment') \ {writer.file}) <= Size(segment, Held(segment) \ {writer.file})
  BY <1>5, <1>7, LogFacts, NothingGrows
<1>10. /\ Size(segment', Held(segment')) \in Nat /\ Size(segment', Held(segment') \ {writer.file}) \in Nat
  <2>1. Held(segment') \subseteq logsFile /\ Held(segment') \ {writer.file} \subseteq logsFile
    BY DEF Held
  <2> QED BY <2>1, EntriesCount
<1>11. Size(segment', Held(segment')) <= TotalLimit
  <2>1. Size(segment, Held(segment)) <= TotalLimit
    BY DEF LogInv
  <2> HIDE DEF Size
  <2> QED BY <1>9, <1>10, <2>1, LogFacts
<1>12. writer.on /\ (writer.task = "NONE" \/ writer.file # NoName) => Size(segment', Held(segment') \ {writer.file}) <= Spared
  <2> SUFFICES ASSUME writer.on, writer.task = "NONE" \/ writer.file # NoName
               PROVE  Size(segment', Held(segment') \ {writer.file}) <= Spared
    OBVIOUS
  <2>1. Size(segment, Held(segment) \ {writer.file}) <= Spared
    BY DEF LogInv
  <2>2. Size(segment, Held(segment) \ {writer.file}) \in Nat /\ Spared \in Nat
    BY LogFacts
  <2> HIDE DEF Size, Spared
  <2> QED BY <1>9, <1>10, <2>1, <2>2
<1>13. Logs!TypeOK'
  BY <1>2, <1>5, <1>8, LogFacts, LogTypes
<1>14. writer.file # NoName => segment'[writer.file].there
  <2> SUFFICES ASSUME writer.file # NoName PROVE segment'[writer.file].there
    OBVIOUS
  <2>1. writer.file \in logsFile \ {f}
    BY <1>4, LogFacts DEF Stream
  <2> QED BY <2>1, <1>5 DEF LogInv
<1> QED BY <1>2, <1>11, <1>12, <1>13, <1>14 DEF LogInv

\* An entry is put where there is place for it.
LEMMA PutFacts ==
    ASSUME LogBounds, LogInv, NEW f \in logsFile, segment[f].size < SegmentLimit, NEW torn \in BOOLEAN,
           segment' = Logs!Put(f, torn)
    PROVE  /\ segment' \in Files /\ segment'[f].there
           /\ \A g \in logsFile \ {f} : segment'[g] = segment[g]
           /\ \A g \in logsFile : ~segment'[g].there => segment'[g] = Logs!NoFile
<1> DEFINE put == [there |-> TRUE, size |-> segment[f].size + 1, age |-> 0, torn |-> torn]
<1>1. segment' = [segment EXCEPT ![f] = put]
  BY DEF Logs!Put
<1>2. segment[f] \in Logs!Segment /\ segment \in Files
  BY LogFacts DEF Files
<1>3. segment[f].size \in 0 .. SegmentLimit /\ 0 \in 0 .. Retention /\ SegmentLimit \in Nat
  BY <1>2 DEF Logs!Segment, LogBounds
<1>4. segment[f].size + 1 \in 0 .. SegmentLimit
  BY <1>3
<1>5. put \in Logs!Segment /\ put.there
  BY <1>3, <1>4 DEF Logs!Segment
<1> HIDE DEF put
<1>6. segment' \in Files /\ segment'[f] = put /\ \A g \in logsFile \ {f} : segment'[g] = segment[g]
  BY <1>1, <1>2, <1>5 DEF Files
<1> QED BY <1>5, <1>6, LogFacts

\* Where an entry goes that needs no other segment.
LEMMA TargetFacts ==
    ASSUME LogBounds, LogInv, Logs!Idle, ~Logs!MustRotate
    PROVE  /\ Logs!Target \in logsFile /\ segment[Logs!Target].size < SegmentLimit
           /\ writer.file # NoName => Logs!Target = writer.file
           /\ Size(segment, Held(segment) \ {Logs!Target}) <= Spared
<1>1. /\ writer.on /\ writer.task = "NONE"
      /\ Size(segment, Held(segment) \ {writer.file}) <= Spared
  BY DEF Logs!Idle, LogInv
<1>2. CASE writer.file # NoName
  <2>1. Logs!Target = writer.file /\ writer.file \in logsFile
    BY <1>2, LogFacts DEF Logs!Target, Stream
  <2>2. segment[writer.file] \in Logs!Segment
    BY <2>1, LogFacts DEF Files
  <2>3. segment[writer.file].size \in 0 .. SegmentLimit
    BY <2>2 DEF Logs!Segment
  <2>4. ~(segment[writer.file].size > 0 /\ segment[writer.file].size = SegmentLimit)
    BY <1>2 DEF Logs!MustRotate
  <2>5. segment[writer.file].size < SegmentLimit
    BY <2>3, <2>4, LogFacts
  <2> QED BY <1>1, <1>2, <2>1, <2>5
<1>3. CASE writer.file = NoName
  <2>1. Cardinality(Held(segment)) <= MaxOwned
    BY <1>1, <1>3 DEF LogInv
  <2>2. Logs!Target = Logs!Free /\ Logs!Free \in logsFile /\ ~segment[Logs!Free].there
    BY <1>3, <2>1, FreeIsFree DEF Logs!Target
  <2>3. segment[Logs!Free].size = 0
    BY <2>2, LogFacts, LogValues
  <2>4. Held(segment) \ {Logs!Free} = Held(segment) \ {writer.file}
    BY <1>3, <2>2, NoNameIsNone DEF Held
  <2> QED BY <1>1, <1>3, <2>2, <2>3, <2>4, LogFacts
<1> QED BY <1>2, <1>3

\* What is left when the clean-up ends leaves room for a segment, and a name.
LEMMA RoomLeft ==
    ASSUME LogBounds, LogInv, Logs!Listed, Logs!SizeOf(Logs!Names) <= Logs!CapacityTarget
    PROVE  /\ Logs!Free \in logsFile /\ ~segment[Logs!Free].there /\ segment[Logs!Free].size < SegmentLimit
           /\ Size(segment, Held(segment) \ {Logs!Free}) <= Spared
           /\ Size(segment, Held(segment)) <= Spared
           /\ Size(segment, Held(segment) \ {writer.file}) <= Spared
           /\ Cardinality(Held(segment)) <= MaxOwned
<1>1. Cardinality(Held(segment)) <= MaxOwned /\ Size(segment, Held(segment)) <= Spared
  BY CountsAgree DEF Logs!Listed, Logs!CapacityTarget, Spared
<1>2. Logs!Free \in logsFile /\ ~segment[Logs!Free].there
  BY <1>1, FreeIsFree
<1>3. segment[Logs!Free].size < SegmentLimit
  BY <1>2, LogFacts, LogValues
<1>4. Held(segment) \ {Logs!Free} = Held(segment)
  BY <1>2 DEF Held
<1>5. Size(segment, Held(segment) \ {writer.file}) <= Size(segment, Held(segment))
  <2>1. \A f \in Held(segment) \ {writer.file} : segment[f].size <= segment[f].size
    <3>1. \A f \in logsFile : segment[f].size \in Int
      BY LogFacts DEF Files, Logs!Segment
    <3> QED BY <3>1 DEF Held
  <2>2. Held(segment) \ {writer.file} \subseteq Held(segment) /\ Held(segment) \subseteq logsFile
    BY DEF Held
  <2> QED BY <2>1, <2>2, LogFacts, FewerEntries
<1>6. Size(segment, Held(segment) \ {writer.file}) <= Spared
  <2> HIDE DEF Size, Spared
  <2> QED BY <1>1, <1>5, LogFacts
<1> QED BY <1>1, <1>2, <1>3, <1>4, <1>6

\* The end of a clean-up keeps the invariant.
LEMMA CleanEndsStep == ASSUME LogBounds, LogInv, Logs!CleanEnds PROVE LogInv'
<1>1. /\ writer.task # "NONE" /\ Logs!Listed /\ Logs!SizeOf(Logs!Names) <= Logs!CapacityTarget /\ answer' = answer
  BY DEF Logs!CleanEnds
<1>2. /\ Logs!Free \in logsFile /\ ~segment[Logs!Free].there /\ segment[Logs!Free].size < SegmentLimit
      /\ Size(segment, Held(segment) \ {Logs!Free}) <= Spared
      /\ Size(segment, Held(segment)) <= Spared
      /\ Size(segment, Held(segment) \ {writer.file}) <= Spared
      /\ Cardinality(Held(segment)) <= MaxOwned
  BY <1>1, RoomLeft
<1>3. writer \in Stream /\ segment \in Files /\ (\A f \in logsFile : ~segment[f].there => segment[f] = Logs!NoFile) /\ NoName \notin logsFile
  BY LogFacts
<1>4. writer.on
  BY <1>1, LogValues DEF LogInv
<1>5. CASE /\ writer.task = "START" \/ (writer.task = "MAINTAIN" /\ writer.file # NoName)
           /\ writer' = [writer EXCEPT !.task = "NONE"]
           /\ segment' = segment /\ line' = line
  <2>1. /\ writer' \in Stream /\ writer'.on = writer.on /\ writer'.file = writer.file /\ writer'.task = "NONE"
        /\ writer'.discard = writer.discard
    BY <1>3, <1>5 DEF Stream
  <2>2. Logs!TypeOK'
    BY <1>1, <1>5, <2>1, LogFacts, LogTypes
  <2> QED BY <1>2, <1>4, <1>5, <2>1, <2>2 DEF LogInv
<1>6. ASSUME writer.task \in {"MAINTAIN", "WRITE"}, line' = line,
             writer' = [writer EXCEPT !.file = Logs!Free, !.age = 0, !.task = "NONE"],
             segment' \in Files, segment'[Logs!Free].there, \A g \in logsFile \ {Logs!Free} : segment'[g] = segment[g],
             \A f \in logsFile : ~segment'[f].there => segment'[f] = Logs!NoFile
      PROVE  LogInv'
  <2>1. /\ writer' \in Stream /\ writer'.on = writer.on /\ writer'.file = Logs!Free /\ writer'.task = "NONE"
        /\ writer'.discard = writer.discard
    <3>1. 0 \in 0 .. Rotation /\ Logs!Free \in logsFile \union {NoName}
      <4>1. Rotation \in Nat
        BY DEF LogBounds
      <4> QED BY <1>2, <4>1
    <3> QED BY <1>3, <1>6, <3>1 DEF Stream
  <2>2. Logs!TypeOK'
    BY <1>1, <1>6, <2>1, LogFacts, LogTypes
  <2>3. Size(segment', Held(segment') \ {Logs!Free}) <= Spared /\ Size(segment', Held(segment')) <= TotalLimit
    BY <1>2, <1>3, <1>6, OneGrows
  <2> QED BY <1>2, <1>3, <1>4, <1>6, <2>1, <2>2, <2>3 DEF LogInv
<1>7. CASE /\ writer.task = "MAINTAIN" /\ writer.file = NoName
           /\ segment' = [segment EXCEPT ![Logs!Free] = Logs!New]
           /\ writer' = [writer EXCEPT !.file = Logs!Free, !.age = 0, !.task = "NONE"]
           /\ line' = line
  <2>1. segment' \in Files /\ segment'[Logs!Free] = Logs!New /\ \A g \in logsFile \ {Logs!Free} : segment'[g] = segment[g]
    BY <1>2, <1>3, <1>7, LogValues DEF Files
  <2>2. segment'[Logs!Free].there /\ \A f \in logsFile : ~segment'[f].there => segment'[f] = Logs!NoFile
    BY <1>3, <2>1, LogValues
  <2> QED BY <1>6, <1>7, <2>1, <2>2
<1>8. CASE /\ writer.task = "WRITE"
           /\ segment' = Logs!Put(Logs!Free, FALSE)
           /\ writer' = [writer EXCEPT !.file = Logs!Free, !.age = 0, !.task = "NONE"]
           /\ line' = line
  <2>1. /\ segment' \in Files /\ segment'[Logs!Free].there /\ \A g \in logsFile \ {Logs!Free} : segment'[g] = segment[g]
        /\ \A g \in logsFile : ~segment'[g].there => segment'[g] = Logs!NoFile
    BY <1>2, <1>8, PutFacts
  <2> QED BY <1>6, <1>8, <2>1
<1>9. CASE writer.task = "CLOSE" /\ segment' = Logs!Put(Logs!Free, FALSE) /\ Logs!Dead
  <2>1. /\ segment' \in Files /\ segment'[Logs!Free].there /\ \A g \in logsFile \ {Logs!Free} : segment'[g] = segment[g]
        /\ \A g \in logsFile : ~segment'[g].there => segment'[g] = Logs!NoFile
    BY <1>2, <1>9, PutFacts
  <2>2. Size(segment', Held(segment')) <= TotalLimit
    BY <1>2, <1>3, <2>1, OneGrows
  <2> QED BY <1>1, <1>9, <2>1, <2>2, DeadStep
<1> QED BY <1>5, <1>7, <1>8, <1>9 DEF Logs!CleanEnds

\* A clean-up that fails keeps the invariant.
LEMMA CleanFailsStep == ASSUME LogBounds, LogInv, Logs!CleanFails PROVE LogInv'
<1>1. segment' = segment /\ answer' = answer /\ Logs!Dead
  BY DEF Logs!CleanFails
<1>2. Size(segment', Held(segment')) <= TotalLimit
  BY <1>1 DEF LogInv
<1> QED BY <1>1, <1>2, LogFacts, DeadStep

----
\* A stream that starts, or takes a chunk, its maintenance or its end up, without writing, keeps the invariant:
\* of a file that it closes it says nothing before the clean-up has.
LEMMA TaskStep ==
    ASSUME LogBounds, LogInv, segment' = segment, answer' = answer, writer' \in Stream, writer'.on,
           writer'.file \in {writer.file, NoName},
           writer'.task # "NONE" \/ (writer.on /\ writer.task = "NONE" /\ writer'.task = writer.task),
           writer'.task \in {"START", "WRITE", "CLOSE"} => writer'.file = NoName,
           writer'.task = "NONE" => writer'.file = writer.file,
           writer.on \/ writer'.file = NoName, writer.task = "NONE",
           line' \in [now : 0 .. 2, last : 0 .. 2], line'.last = 1,
           writer'.discard => line'.now = 1, ~writer'.discard => line'.now = 0
    PROVE  LogInv'
<1>1. Logs!TypeOK'
  BY LogFacts, LogTypes
<1>2. writer'.file # NoName => writer'.file = writer.file /\ writer.on /\ writer.file # NoName
  OBVIOUS
<1>3. writer'.file # NoName => segment'[writer'.file].there
  BY <1>2 DEF LogInv
<1>4. Size(segment', Held(segment')) <= TotalLimit
  BY DEF LogInv
<1>5. writer'.on /\ (writer'.task = "NONE" \/ writer'.file # NoName) => Size(segment', Held(segment') \ {writer'.file}) <= Spared
  <2> SUFFICES ASSUME writer'.task = "NONE" \/ writer'.file # NoName
               PROVE  Size(segment', Held(segment') \ {writer'.file}) <= Spared
    OBVIOUS
  <2>1. writer'.file = writer.file /\ writer.on
    BY <1>2
  <2>2. Size(segment, Held(segment) \ {writer.file}) <= Spared
    BY <2>1 DEF LogInv
  <2> QED BY <2>1, <2>2
<1>6. writer'.on /\ writer'.task = "NONE" /\ writer'.file = NoName => Cardinality(Held(segment')) <= MaxOwned
  BY DEF LogInv
<1> QED BY <1>1, <1>3, <1>4, <1>5, <1>6 DEF LogInv

\* A stream that starts keeps the invariant.
LEMMA LogStartStep == ASSUME LogBounds, LogInv, Logs!Start PROVE LogInv'
<1>1. ~writer.on /\ segment' = segment /\ line' = line /\ answer' = answer /\ writer' = [Logs!Off EXCEPT !.on = TRUE, !.task = "START"]
  BY DEF Logs!Start
<1>2. writer = Logs!Off
  BY <1>1 DEF LogInv
<1>3. /\ writer' \in Stream /\ writer'.on /\ writer'.file = NoName /\ writer'.task = "START" /\ ~writer'.discard
  BY <1>1, LogValues DEF Stream
<1>4. line' \in [now : 0 .. 2, last : 0 .. 2] /\ line'.last = 1 /\ line'.now = 0 /\ writer.task = "NONE"
  BY <1>1, <1>2, LogFacts, LogValues DEF LogInv
<1> QED BY <1>1, <1>3, <1>4, TaskStep

\* Maintenance that begins keeps the invariant.
LEMMA LogMaintainStep == ASSUME LogBounds, LogInv, Logs!Maintain PROVE LogInv'
<1>1. PICK aFile \in {writer.file, NoName} : writer' = [writer EXCEPT !.file = aFile, !.task = "MAINTAIN"]
  BY DEF Logs!Maintain
<1>2. writer.on /\ writer.task = "NONE" /\ segment' = segment /\ line' = line /\ answer' = answer
  BY DEF Logs!Maintain, Logs!Idle
<1>3. writer \in Stream /\ writer.file \in logsFile \cup {NoName}
  BY LogFacts DEF Stream
<1>4. /\ writer' \in Stream /\ writer'.on = writer.on /\ writer'.file = aFile /\ writer'.task = "MAINTAIN" /\ writer'.discard = writer.discard
  BY <1>1, <1>3 DEF Stream
<1>5. /\ line' \in [now : 0 .. 2, last : 0 .. 2] /\ line'.last = 1
      /\ (writer.discard => line'.now = 1) /\ (~writer.discard => line'.now = 0)
  BY <1>2, LogFacts DEF LogInv
<1> QED BY <1>1, <1>2, <1>4, <1>5, TaskStep

\* An entry that is written to a segment with place for it keeps the invariant.
LEMMA PutStep ==
    ASSUME LogBounds, LogInv, Logs!Idle, ~Logs!MustRotate, segment' = Logs!Put(Logs!Target, FALSE), answer' = answer,
           writer' \in Stream, writer'.on, writer'.file = Logs!Target, writer'.task = "NONE",
           line' \in [now : 0 .. 2, last : 0 .. 2], line'.last = 1,
           writer'.discard => line'.now = 1, ~writer'.discard => line'.now = 0
    PROVE  LogInv'
<1>1. /\ Logs!Target \in logsFile /\ segment[Logs!Target].size < SegmentLimit
      /\ Size(segment, Held(segment) \ {Logs!Target}) <= Spared
  BY TargetFacts
<1>2. /\ segment' \in Files /\ segment'[Logs!Target].there /\ \A g \in logsFile \ {Logs!Target} : segment'[g] = segment[g]
      /\ \A g \in logsFile : ~segment'[g].there => segment'[g] = Logs!NoFile
  BY <1>1, PutFacts
<1>3. Size(segment', Held(segment') \ {Logs!Target}) <= Spared /\ Size(segment', Held(segment')) <= TotalLimit
  BY <1>1, <1>2, LogFacts, OneGrows
<1>4. Logs!TypeOK'
  BY <1>2, LogFacts, LogTypes
<1>5. Logs!Target # NoName
  BY <1>1, LogFacts
<1> QED BY <1>2, <1>3, <1>4, <1>5 DEF LogInv

\* A chunk that the stream consumes keeps the invariant: the rest of a line too long is discarded.
LEMMA LogWriteStep == ASSUME LogBounds, LogInv, NEW chunk \in Logs!Chunk, Logs!Write(chunk) PROVE LogInv'
<1> DEFINE c == Logs!Consumed(chunk)
           rests == [writer EXCEPT !.pending = c.pending, !.discard = c.discard]
           entries == line.now + (IF c.entry THEN 1 ELSE 0)
<1>1. /\ Logs!Idle /\ answer' = answer
      /\ line' = IF chunk = "END" THEN [now |-> 0, last |-> entries] ELSE [line EXCEPT !.now = entries]
      /\ \/ ~c.entry /\ segment' = segment /\ writer' = rests
         \/ /\ c.entry /\ Logs!MustRotate
            /\ segment' = segment /\ writer' = [rests EXCEPT !.file = NoName, !.task = "WRITE"]
         \/ /\ c.entry /\ ~Logs!MustRotate
            /\ segment' = Logs!Put(Logs!Target, FALSE)
            /\ writer' = [rests EXCEPT !.file = Logs!Target, !.age = IF writer.file = NoName THEN 0 ELSE @]
  BY DEF Logs!Write
<1>2. writer.on /\ writer.task = "NONE"
  BY <1>1 DEF Logs!Idle
<1>3. writer \in Stream /\ line \in [now : 0 .. 2, last : 0 .. 2] /\ segment \in Files
  BY LogFacts
<1>4. line.last = 1 /\ (writer.discard => line.now = 1) /\ (~writer.discard => line.now = 0)
  BY DEF LogInv
<1>5. /\ c.entry \in BOOLEAN /\ c.pending \in BOOLEAN /\ c.discard \in BOOLEAN
      /\ writer.discard => ~c.entry /\ (c.discard <=> chunk # "END")
      /\ ~writer.discard => /\ chunk = "END" => c.entry /\ ~c.discard
                            /\ chunk = "PART" => ~c.entry /\ ~c.discard
                            /\ chunk = "LONG" => c.entry /\ c.discard
  <2>1. writer.discard \in BOOLEAN
    BY <1>3 DEF Stream
  <2>2. CASE writer.discard
    BY <2>2 DEF Logs!Consumed
  <2>3. CASE ~writer.discard /\ chunk = "END"
    BY <2>3 DEF Logs!Consumed
  <2>4. CASE ~writer.discard /\ chunk = "PART"
    BY <2>4 DEF Logs!Consumed
  <2>5. CASE ~writer.discard /\ chunk = "LONG"
    BY <2>5 DEF Logs!Consumed, Logs!DiscardsRest
  <2> QED BY <2>2, <2>3, <2>4, <2>5 DEF Logs!Chunk
<1> HIDE DEF c
<1>6. /\ line' \in [now : 0 .. 2, last : 0 .. 2] /\ line'.last = 1
      /\ (c.discard => line'.now = 1) /\ (~c.discard => line'.now = 0)
  <2>1. CASE writer.discard
    <3>1. entries = 1
      BY <1>4, <1>5, <2>1
    <3> HIDE DEF entries
    <3>2. CASE chunk = "END"
      BY <1>1, <1>5, <2>1, <3>1, <3>2
    <3>3. CASE chunk # "END"
      BY <1>1, <1>3, <1>4, <1>5, <2>1, <3>1, <3>3
    <3> QED BY <3>2, <3>3
  <2>2. CASE ~writer.discard
    <3>1. CASE chunk = "END"
      <4>1. entries = 1
        BY <1>4, <1>5, <2>2, <3>1
      <4> HIDE DEF entries
      <4> QED BY <1>1, <1>5, <2>2, <3>1, <4>1
    <3>2. CASE chunk = "PART"
      <4>1. entries = 0
        BY <1>4, <1>5, <2>2, <3>2
      <4> HIDE DEF entries
      <4> QED BY <1>1, <1>3, <1>4, <1>5, <2>2, <3>2, <4>1
    <3>3. CASE chunk = "LONG"
      <4>1. entries = 1
        BY <1>4, <1>5, <2>2, <3>3
      <4> HIDE DEF entries
      <4> QED BY <1>1, <1>3, <1>4, <1>5, <2>2, <3>3, <4>1
    <3> QED BY <3>1, <3>2, <3>3 DEF Logs!Chunk
  <2> QED BY <2>1, <2>2
<1>7. /\ rests \in Stream /\ rests.on = writer.on /\ rests.file = writer.file /\ rests.age = writer.age
      /\ rests.task = writer.task /\ rests.discard = c.discard
  BY <1>3, <1>5 DEF Stream
<1> HIDE DEF rests, entries
<1>8. CASE ~c.entry /\ segment' = segment /\ writer' = rests
  BY <1>1, <1>2, <1>6, <1>7, <1>8, TaskStep
<1>9. CASE c.entry /\ segment' = segment /\ writer' = [rests EXCEPT !.file = NoName, !.task = "WRITE"]
  <2>1. /\ writer' \in Stream /\ writer'.on = writer.on /\ writer'.file = NoName /\ writer'.task = "WRITE"
        /\ writer'.discard = c.discard
    BY <1>7, <1>9 DEF Stream
  <2> QED BY <1>1, <1>2, <1>6, <1>9, <2>1, TaskStep
<1>10. CASE /\ c.entry /\ ~Logs!MustRotate /\ segment' = Logs!Put(Logs!Target, FALSE)
            /\ writer' = [rests EXCEPT !.file = Logs!Target, !.age = IF writer.file = NoName THEN 0 ELSE @]
  <2>1. Logs!Target \in logsFile
    BY <1>1, <1>10, TargetFacts
  <2>2. (IF writer.file = NoName THEN 0 ELSE rests.age) \in 0 .. Rotation
    BY <1>3, <1>7 DEF Stream, LogBounds
  <2>3. /\ writer' \in Stream /\ writer'.on = writer.on /\ writer'.file = Logs!Target /\ writer'.task = "NONE"
        /\ writer'.discard = c.discard
    BY <1>2, <1>7, <1>10, <2>1, <2>2 DEF Stream
  <2> QED BY <1>1, <1>2, <1>6, <1>10, <2>3, PutStep
<1> QED BY <1>1, <1>8, <1>9, <1>10

\* The end of a stream keeps the invariant.
LEMMA LogCloseStep == ASSUME LogBounds, LogInv, Logs!Close PROVE LogInv'
<1>1. Logs!Idle /\ answer' = answer
  BY DEF Logs!Close
<1>2. CASE Logs!Dead /\ segment' = segment
  <2>1. Size(segment', Held(segment')) <= TotalLimit
    BY <1>2 DEF LogInv
  <2> QED BY <1>1, <1>2, <2>1, LogFacts, DeadStep
<1>3. CASE ~Logs!MustRotate /\ Logs!Dead /\ segment' = Logs!Put(Logs!Target, FALSE)
  <2>1. /\ Logs!Target \in logsFile /\ segment[Logs!Target].size < SegmentLimit
        /\ Size(segment, Held(segment) \ {Logs!Target}) <= Spared
    BY <1>1, <1>3, TargetFacts
  <2>2. /\ segment' \in Files /\ \A g \in logsFile \ {Logs!Target} : segment'[g] = segment[g]
        /\ \A g \in logsFile : ~segment'[g].there => segment'[g] = Logs!NoFile
    BY <1>3, <2>1, PutFacts
  <2>3. Size(segment', Held(segment')) <= TotalLimit
    BY <2>1, <2>2, LogFacts, OneGrows
  <2> QED BY <1>1, <1>3, <2>2, <2>3, DeadStep
<1>4. CASE writer' = [writer EXCEPT !.file = NoName, !.task = "CLOSE"] /\ segment' = segment /\ line' = line
  <2>1. /\ writer' \in Stream /\ writer'.on = writer.on /\ writer'.file = NoName /\ writer'.task = "CLOSE" /\ writer'.discard = writer.discard
    BY <1>4, LogFacts DEF Stream
  <2>2. /\ line' \in [now : 0 .. 2, last : 0 .. 2] /\ line'.last = 1
        /\ (writer.discard => line'.now = 1) /\ (~writer.discard => line'.now = 0)
    BY <1>4, LogFacts DEF LogInv
  <2> QED BY <1>1, <1>4, <2>1, <2>2, TaskStep DEF Logs!Idle
<1> QED BY <1>2, <1>3, <1>4 DEF Logs!Close

\* The death of the process keeps the invariant.
LEMMA LogDieStep == ASSUME LogBounds, LogInv, Logs!Die PROVE LogInv'
<1>1. answer' = answer /\ Logs!Dead
  BY DEF Logs!Die
<1>2. CASE segment' = segment
  <2>1. Size(segment', Held(segment')) <= TotalLimit
    BY <1>2 DEF LogInv
  <2> QED BY <1>1, <1>2, <2>1, LogFacts, DeadStep
<1>3. CASE Logs!Idle /\ ~Logs!MustRotate /\ segment' = Logs!Put(Logs!Target, TRUE)
  <2>1. /\ Logs!Target \in logsFile /\ segment[Logs!Target].size < SegmentLimit
        /\ Size(segment, Held(segment) \ {Logs!Target}) <= Spared
    BY <1>3, TargetFacts
  <2>2. /\ segment' \in Files /\ \A g \in logsFile \ {Logs!Target} : segment'[g] = segment[g]
        /\ \A g \in logsFile : ~segment'[g].there => segment'[g] = Logs!NoFile
    BY <1>3, <2>1, PutFacts
  <2>3. Size(segment', Held(segment')) <= TotalLimit
    BY <2>1, <2>2, LogFacts, OneGrows
  <2> QED BY <1>1, <2>2, <2>3, DeadStep
<1> QED BY <1>2, <1>3 DEF Logs!Die

\* A step that writes to no segment and takes up no task keeps the invariant.
LEMMA KeptStep ==
    ASSUME LogBounds, LogInv, segment' \in Files, \A f \in logsFile : ~segment'[f].there => segment'[f] = Logs!NoFile,
           \A f \in logsFile : segment'[f].there => segment[f].there /\ segment'[f].size <= segment[f].size,
           writer.file # NoName => segment'[writer.file].there,
           writer' \in Stream, writer'.on = writer.on, writer'.file = writer.file, writer'.task = writer.task,
           writer'.discard = writer.discard, ~writer.on => writer' = Logs!Off, line' = line,
           answer' \in {"NONE", "WHOLE", "INVALID"}
    PROVE  LogInv'
<1>1. Logs!TypeOK'
  BY LogFacts, LogTypes
<1>2. /\ Size(segment', Held(segment')) <= Size(segment, Held(segment))
      /\ Size(segment', Held(segment') \ {writer.file}) <= Size(segment, Held(segment) \ {writer.file})
      /\ Cardinality(Held(segment')) <= Cardinality(Held(segment))
  BY LogFacts, NothingGrows
<1>3. /\ Size(segment', Held(segment')) \in Nat /\ Size(segment', Held(segment') \ {writer.file}) \in Nat
      /\ Cardinality(Held(segment')) \in Nat /\ Cardinality(Held(segment)) \in Nat
  <2>1. Held(segment') \subseteq logsFile /\ Held(segment') \ {writer.file} \subseteq logsFile
    BY DEF Held
  <2> QED BY <2>1, EntriesCount, HeldCounts
<1>4. \A a, b, n \in Int : a <= b /\ b <= n => a <= n
  OBVIOUS
<1>5. /\ Size(segment, Held(segment)) \in Nat /\ Size(segment, Held(segment) \ {writer.file}) \in Nat
      /\ TotalLimit \in Nat /\ Spared \in Nat /\ MaxOwned \in Nat
  BY LogFacts
<1> HIDE DEF Size, Spared
<1>6. Size(segment', Held(segment')) <= TotalLimit
  BY <1>2, <1>3, <1>5 DEF LogInv
<1>7. writer'.on /\ (writer'.task = "NONE" \/ writer'.file # NoName) => Size(segment', Held(segment') \ {writer'.file}) <= Spared
  BY <1>2, <1>3, <1>5 DEF LogInv
<1>8. writer'.on /\ writer'.task = "NONE" /\ writer'.file = NoName => Cardinality(Held(segment')) <= MaxOwned
  BY <1>2, <1>3, <1>5 DEF LogInv
<1> QED BY <1>1, <1>6, <1>7, <1>8 DEF LogInv

\* The passing of a day keeps the invariant.
LEMMA DayStep == ASSUME LogBounds, LogInv, Logs!Day PROVE LogInv'
<1> DEFINE older(f) == IF segment[f].there /\ segment[f].age < Retention THEN [segment[f] EXCEPT !.age = @ + 1] ELSE segment[f]
           age == IF writer.file # NoName /\ writer.age < Rotation THEN writer.age + 1 ELSE writer.age
<1>1. segment' = [f \in logsFile |-> older(f)] /\ writer' = [writer EXCEPT !.age = age] /\ line' = line /\ answer' = answer
  BY DEF Logs!Day
<1>2. segment \in Files /\ writer \in Stream
  BY LogFacts
<1>3. ASSUME NEW f \in logsFile
      PROVE  /\ older(f) \in Logs!Segment /\ older(f).there = segment[f].there /\ older(f).size = segment[f].size
             /\ ~older(f).there => older(f) = segment[f]
             /\ segment[f].size \in Int
  <2>1. segment[f] \in Logs!Segment
    BY <1>2 DEF Files
  <2>2. segment[f].age \in 0 .. Retention /\ segment[f].size \in Int
    BY <2>1 DEF Logs!Segment
  <2>3. CASE segment[f].there /\ segment[f].age < Retention
    <3>1. older(f) = [segment[f] EXCEPT !.age = segment[f].age + 1]
      BY <2>3
    <3>2. segment[f].age + 1 \in 0 .. Retention
      BY <2>2, <2>3 DEF LogBounds
    <3> HIDE DEF older
    <3> QED BY <2>1, <2>2, <2>3, <3>1, <3>2 DEF Logs!Segment
  <2>4. CASE ~(segment[f].there /\ segment[f].age < Retention)
    <3>1. older(f) = segment[f]
      BY <2>4
    <3> HIDE DEF older
    <3> QED BY <2>1, <2>2, <3>1
  <2> QED BY <2>3, <2>4
<1> HIDE DEF older
<1>4. segment' \in Files /\ \A f \in logsFile : segment'[f] = older(f)
  BY <1>1, <1>3 DEF Files
<1>5. \A f \in logsFile : segment'[f].there => segment[f].there /\ segment'[f].size <= segment[f].size
  BY <1>3, <1>4
<1>6. \A f \in logsFile : ~segment'[f].there => segment'[f] = Logs!NoFile
  <2>1. \A f \in logsFile : ~segment[f].there => segment[f] = Logs!NoFile
    BY LogFacts
  <2> QED BY <1>3, <1>4, <2>1
<1>7. writer.file # NoName => segment'[writer.file].there
  BY <1>2, <1>3, <1>4 DEF LogInv, Stream
<1>8. age \in 0 .. Rotation
  <2>1. writer.age \in 0 .. Rotation /\ Rotation \in Nat
    BY <1>2 DEF Stream, LogBounds
  <2> QED BY <2>1
<1>9. ~writer.on => age = writer.age
  <2>1. ~writer.on => writer.file = NoName
    BY LogValues DEF LogInv
  <2> QED BY <2>1
<1> HIDE DEF age
<1>10. /\ writer' \in Stream /\ writer'.on = writer.on /\ writer'.file = writer.file /\ writer'.task = writer.task
       /\ writer'.discard = writer.discard
  BY <1>1, <1>2, <1>8 DEF Stream
<1>11. ~writer.on => writer' = Logs!Off
  <2>1. ~writer.on => writer' = writer
    BY <1>1, <1>2, <1>9 DEF Stream
  <2> QED BY <2>1 DEF LogInv
<1> QED BY <1>1, <1>4, <1>5, <1>6, <1>7, <1>10, <1>11, LogFacts, KeptStep

\* Export and deletion keep the invariant.
LEMMA ManagementStep ==
    ASSUME LogBounds, LogInv, Logs!Export \/ \E f \in logsFile : Logs!Delete(f) PROVE LogInv'
<1>1. CASE Logs!Export
  <2>1. segment' = segment /\ writer' = writer /\ line' = line /\ answer' \in {"NONE", "WHOLE", "INVALID"}
    BY <1>1 DEF Logs!Export
  <2>2. \A f \in logsFile : segment[f].size \in Int
    BY LogFacts DEF Files, Logs!Segment
  <2>3. \A f \in logsFile : segment'[f].there => segment[f].there /\ segment'[f].size <= segment[f].size
    BY <2>1, <2>2
  <2>4. (writer.file # NoName => segment'[writer.file].there) /\ (~writer.on => writer' = Logs!Off)
    BY <2>1 DEF LogInv
  <2> QED BY <2>1, <2>3, <2>4, LogFacts, KeptStep
<1>2. ASSUME NEW f \in logsFile, Logs!Delete(f) PROVE LogInv'
  <2>1. ~writer.on /\ segment' = [segment EXCEPT ![f] = Logs!NoFile] /\ writer' = writer /\ line' = line /\ answer' = answer
    BY <1>2 DEF Logs!Delete
  <2>2. segment' \in Files /\ segment'[f] = Logs!NoFile /\ \A g \in logsFile \ {f} : segment'[g] = segment[g]
    BY <2>1, LogFacts, LogValues DEF Files
  <2>3. \A g \in logsFile : segment[g].size \in Int
    BY LogFacts DEF Files, Logs!Segment
  <2>4. \A g \in logsFile : segment'[g].there => segment[g].there /\ segment'[g].size <= segment[g].size
    BY <2>2, <2>3, LogValues
  <2>5. \A g \in logsFile : ~segment'[g].there => segment'[g] = Logs!NoFile
    BY <2>2, LogFacts
  <2>6. writer = Logs!Off /\ writer.file = NoName
    BY <2>1, LogValues DEF LogInv
  <2> QED BY <2>1, <2>2, <2>4, <2>5, <2>6, LogFacts, KeptStep
<1> QED BY <1>1, <1>2

\* Every step keeps the invariant, and so does a step of another module.
LEMMA LogNext == ASSUME LogBounds, LogInv, [Logs!Next]_(Logs!vars) PROVE LogInv'
<1>1. CASE UNCHANGED Logs!vars
  <2>1. segment' = segment /\ writer' = writer /\ line' = line /\ answer' = answer
    BY <1>1 DEF Logs!vars
  <2>2. \A f \in logsFile : segment[f].size \in Int
    BY LogFacts DEF Files, Logs!Segment
  <2>3. \A f \in logsFile : segment'[f].there => segment[f].there /\ segment'[f].size <= segment[f].size
    BY <2>1, <2>2
  <2>4. (writer.file # NoName => segment'[writer.file].there) /\ (~writer.on => writer' = Logs!Off)
    BY <2>1 DEF LogInv
  <2> QED BY <2>1, <2>3, <2>4, LogFacts, KeptStep
<1>2. CASE Logs!Next
  BY <1>2, CleanOneStep, CleanEndsStep, CleanFailsStep, LogStartStep, LogMaintainStep, LogCloseStep, LogDieStep, DayStep,
     ManagementStep, LogWriteStep DEF Logs!Next
<1> QED BY <1>1, <1>2

\* What the invariant says of the log.
LEMMA LogSays == ASSUME LogBounds, LogInv PROVE Logs!WithinTotal /\ Logs!WrittenIsFound /\ Logs!OneEntryPerLine
<1>1. Logs!WithinTotal
  BY CountsAgree DEF LogInv, Logs!WithinTotal
<1>2. Logs!WrittenIsFound
  BY DEF LogInv, Logs!WrittenIsFound
<1>3. line.now \in {0, 1}
  <2>1. writer.discard \in BOOLEAN
    BY LogFacts DEF Stream
  <2> QED BY <2>1 DEF LogInv
<1>4. Logs!OneEntryPerLine
  BY <1>3 DEF LogInv, Logs!OneEntryPerLine
<1> QED BY <1>1, <1>2, <1>4

\* The types of the log, and why it keeps its bound: while a segment is filled the others leave it room,
\* and between them a clean-up has the say.
THEOREM LogInvariant == ASSUME LogBounds PROVE Logs!Spec => []LogInv
<1>1. Logs!Init => LogInv
  BY LogInit
<1>2. LogInv /\ [Logs!Next]_(Logs!vars) => LogInv'
  BY LogNext
<1> QED BY <1>1, <1>2, PTL DEF Logs!Spec

\* The log never takes more than it may, a clean-up never removes the segment that is written to, and a
\* line is one entry, whatever the limits are.
THEOREM LogIsBounded ==
    ASSUME LogBounds PROVE Logs!Spec => [](Logs!WithinTotal /\ Logs!WrittenIsFound /\ Logs!OneEntryPerLine)
<1>1. LogInv => Logs!WithinTotal /\ Logs!WrittenIsFound /\ Logs!OneEntryPerLine
  BY LogSays
<1> QED BY <1>1, LogInvariant, PTL
=============================================================================
