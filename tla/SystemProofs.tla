---------------------------- MODULE SystemProofs ----------------------------
(***************************************************************************)
(* Proofs about System: the two services, put together, are each what      *)
(* their own module says, so what is proved of Processing and of Antifraud *)
(* holds of the whole; and an answer of the rules, once given, decides     *)
(* what the core does with the money.                                      *)
(***************************************************************************)
EXTENDS System, PayoutProofs

USE OperationsAssumption, ProcessingAssumption, SystemAssumption

\* The proofs about Antifraud, for the antifraud of System.
AFP == INSTANCE AntifraudProofs WITH
           Call       <- Debit,
           KindOf     <- [r \in Debit |-> KindOf[r]],
           AmountOf   <- [r \in Debit |-> AmountOf[r] * Unit],
           MaxRefresh <- 0

-----------------------------------------------------------------------------
(* The antifraud of System. *)

\* The debits are calls as Antifraud assumes them.
LEMMA DebitsAreCalls == AFP!AntifraudAssumption
  <1>1. [r \in Debit |-> KindOf[r]] \in [Debit -> {"CashOut", "Internal", "SbpOutgoing"}]
    <2>1. \A r \in Debit : KindOf[r] \in {"CashOut", "Internal", "SbpOutgoing"}
      BY DEF Debit, Debits, Kind
    <2>2. QED
      BY <2>1
  <1>2. [r \in Debit |-> AmountOf[r] * Unit] \in [Debit -> Int]
    <2>1. ASSUME NEW r \in Debit PROVE AmountOf[r] * Unit \in Int
      <3>1. AmountOf[r] \in Int
        BY DEF Debit, Int64
      <3>2. QED
        BY <3>1
    <2>2. QED
      BY <2>1
  <1>3. QED
    BY <1>1, <1>2 DEF AFP!AntifraudAssumption

\* Both instances of Antifraud are one specification.
LEMMA SameInit == AF!Init => AFP!Init
  BY DEF AF!Init, AFP!Init, AF!Feature, AFP!Feature, AF!RulesOf, AFP!RulesOf

\* They run the same rules.
LEMMA SameRules == \A r \in Debit : AF!RulesOf(r) = AFP!RulesOf(r)
  BY DEF AF!RulesOf, AFP!RulesOf

\* A goroutine returns in the same way.
LEMMA SameReturn ==
    ASSUME NEW r, NEW x, NEW err
    PROVE  AF!Return(r, x, err) <=> AFP!Return(r, x, err)
  BY DEF AF!Return, AFP!Return

\* A rule of a call asks for the same feature.
LEMMA SameFeatureOf ==
    ASSUME NEW r, NEW x PROVE AF!FeatureOf(r, x) = AFP!FeatureOf(r, x)
  BY DEF AF!FeatureOf, AFP!FeatureOf

\* A query may return the same rows.
LEMMA SameReadable ==
    ASSUME NEW x, NEW value PROVE AF!Readable(x, value) = AFP!Readable(x, value)
  BY DEF AF!Readable, AFP!Readable, AF!RowLimit, AFP!RowLimit

\* The rules compare with the same thresholds.
LEMMA SameExceeds ==
    ASSUME NEW r, NEW x, NEW value PROVE AF!Exceeds(r, x, value) <=> AFP!Exceeds(r, x, value)
  BY DEF AF!Exceeds, AFP!Exceeds, AF!Partners, AFP!Partners, AF!LargeThs, AFP!LargeThs

\* A rule runs for the same amounts.
LEMMA SameShouldRun ==
    ASSUME NEW r, NEW x PROVE AF!ShouldRun(r, x) <=> AFP!ShouldRun(r, x)
  BY DEF AF!ShouldRun, AFP!ShouldRun, AF!AmountThs, AFP!AmountThs

\* An error has the same status.
LEMMA SameStatusOf ==
    ASSUME NEW err PROVE AF!StatusOf(err) = AFP!StatusOf(err)
  BY DEF AF!StatusOf, AFP!StatusOf

\* A call takes the same steps.
LEMMA SameStep ==
    ASSUME NEW r \in Debit, AF!Step(r)
    PROVE  AFP!Step(r)
  <1>1. ASSUME NEW x, AF!Start(r, x) PROVE AFP!Start(r, x)
    BY <1>1, SameReturn, SameShouldRun DEF AF!Start, AFP!Start, AF!store, AFP!store, AF!ghost, AFP!ghost
  <1>2. ASSUME NEW x, AF!Decide(r, x) PROVE AFP!Decide(r, x)
    BY <1>2, SameReturn, SameReadable, SameExceeds, SameFeatureOf
    DEF AF!Decide, AFP!Decide, AF!store, AFP!store
  <1>3. ASSUME NEW x, AF!ReadCancelled(r, x) PROVE AFP!ReadCancelled(r, x)
    BY <1>3, SameReturn DEF AF!ReadCancelled, AFP!ReadCancelled, AF!StoreError, AFP!StoreError,
       AF!store, AFP!store, AF!ghost, AFP!ghost
  <1>4. ASSUME NEW x, AF!ReadFails(r, x) PROVE AFP!ReadFails(r, x)
    BY <1>4, SameReturn DEF AF!ReadFails, AFP!ReadFails, AF!StoreError, AFP!StoreError,
       AF!store, AFP!store
  <1>5. ASSUME AF!Answer(r) PROVE AFP!Answer(r)
    BY <1>5, SameStatusOf, SameRules DEF AF!Answer, AFP!Answer, AF!store, AFP!store, AF!ghost, AFP!ghost
  <1>6. QED
    BY <1>1, <1>2, <1>3, <1>4, <1>5, SameRules DEF AF!Step, AFP!Step

\* A caller cancels in the same way.
LEMMA SameCancel ==
    ASSUME NEW r \in Debit, AF!CallerCancels(r)
    PROVE  AFP!CallerCancels(r)
  BY DEF AF!CallerCancels, AFP!CallerCancels, AF!store, AFP!store

-----------------------------------------------------------------------------
(* Each service does what its own module says. *)

\* A step of the whole is a step of the core, or none.
LEMMA CoreStep == [SystemNext]_systemVars => [Next]_vars
  <1>1. ASSUME NEW r \in Request, Alone(r) PROVE [Next]_vars
    BY <1>1 DEF Alone, Next, Environment
  <1>2. ASSUME NEW r \in Debit,
               \/ Check(r) \/ Cancel(r) \/ Approved(r) \/ Declined(r) \/ Unusable(r)
               \/ Deadline(r) \/ Disconnect(r)
        PROVE  [Next]_vars
    <2>1. r \in Request
      BY DEF Debit
    <2>2. \/ UNCHANGED vars
          \/ AntifraudApproves(r) \/ AntifraudDeclines(r) \/ AntifraudUnavailable(r)
          \/ AntifraudDeadline(r)
      BY <1>2 DEF Check, Cancel, Approved, Declined, Unusable, Deadline, Disconnect
    <2>3. QED
      BY <2>1, <2>2 DEF Next, Environment
  <1>3. QED
    BY <1>1, <1>2 DEF SystemNext, systemVars, Next

\* A step of the whole is a step of the antifraud, or none.
LEMMA AntifraudsStep ==
    ASSUME [SystemNext]_systemVars
    PROVE  \/ AF!Next /\ AFP!Next
           \/ UNCHANGED AF!vars /\ UNCHANGED AFP!vars
  <1>1. UNCHANGED antifraud => UNCHANGED AF!vars /\ UNCHANGED AFP!vars
    BY DEF antifraud, AF!vars, AF!store, AF!call, AF!ghost, AFP!vars, AFP!store, AFP!call, AFP!ghost
  <1>2. ASSUME NEW r \in Debit, AF!Step(r) \/ AF!CallerCancels(r)
        PROVE  AF!Next /\ AFP!Next
    BY <1>2, SameStep, SameCancel DEF AF!Next, AFP!Next
  <1>3. UNCHANGED antifraud \/ \E r \in Debit : AF!Step(r) \/ AF!CallerCancels(r)
    BY DEF SystemNext, systemVars, Check, Cancel, Approved, Declined, Unusable, Deadline,
       Disconnect
  <1>4. QED
    BY <1>1, <1>2, <1>3

\* The core, with the antifraud it has, is the core that assumes nothing of
\* an antifraud: what is proved of Processing holds here.
THEOREM CoreIsProcessing == SystemSpec => Spec
  BY CoreStep, PTL DEF SystemSpec, SystemInit, Spec

\* The antifraud that the core calls is one that assumes nothing of its
\* callers.
THEOREM AntifraudIsAntifraud == SystemSpec => AF!Spec
  <1>1. [SystemNext]_systemVars => [AF!Next]_(AF!vars)
    BY AntifraudsStep
  <1>2. QED
    BY <1>1, PTL DEF SystemSpec, SystemInit, AF!Spec

-----------------------------------------------------------------------------
(***************************************************************************)
(* The inductive invariant: what the core believes of a debit is what the  *)
(* rules answered, or there is an excuse; until it believes something, the *)
(* money has not moved; and a cash-out that is still waited for is never   *)
(* cancelled.                                                              *)
(***************************************************************************)

Consulted(r) ==
    /\ verdict[r] = "none" =>
           /\ r \notin outbox
           /\ pc[r] = "antifraud" \/ (pc[r] \in {"new", "done"} /\ ~Begun(r))
    /\ verdict[r] = "approved" => answer[r] = "Approved"
    /\ verdict[r] = "declined" => answer[r] = "Declined"
    /\ verdict[r] = "unknown" =>
           \/ excuse[r] = "connection"
           \/ excuse[r] = "deadline" /\ KindOf[r] # "CashOut"
           \/ answer[r] = "FailedPrecondition"
    /\ KindOf[r] = "CashOut" /\ gone[r] => excuse[r] = "connection"

ExcuseTyped == excuse \in [Request -> {"none", "deadline", "connection"}]

SInv == PInv /\ AFP!AInv /\ ExcuseTyped /\ \A r \in Debit : Consulted(r)

\* The invariant holds before the first request.
LEMMA SystemInitially == SystemInit => SInv
  <1> SUFFICES ASSUME SystemInit PROVE SInv
    OBVIOUS
  <1>1. PInv
    BY PaidInit DEF SystemInit
  <1>2. AFP!AInv
    BY SameInit, DebitsAreCalls, AFP!AntifraudInit DEF SystemInit
  <1>3. ExcuseTyped
    BY DEF SystemInit, ExcuseTyped
  <1>4. ASSUME NEW r \in Debit PROVE Consulted(r)
    BY DEF SystemInit, Init, AF!Init, Consulted, Begun, Debit
  <1>5. QED
    BY <1>1, <1>2, <1>3, <1>4 DEF SInv

\* Alone, the core neither changes its mind nor leaves a call it waits for.
LEMMA AloneKeeps ==
    ASSUME TypeOK, NEW q \in Request, Alone(q), NEW r \in Request
    PROVE  /\ verdict' = verdict
           /\ r # q => pc'[r] = pc[r] /\ (r \in outbox' => r \in outbox)
           /\ pc[r] = "antifraud" => pc'[r] = "antifraud"
           /\ pc[r] = "done" => pc'[r] = "done"
           /\ pc[r] = "new" /\ Debits(r) => pc'[r] \in {"new", "antifraud", "done"}
           /\ pc[r] \in {"new", "antifraud", "done"} => (r \in outbox' => r \in outbox)
  <1> USE DEF TypeOK, GoTo, Answer, database, world
  <1>1. CASE RollBack(q) /\ pc[q] \notin {"new", "antifraud", "done"}
    BY <1>1 DEF RollBack
  <1>2. CASE Receive(q)
    BY <1>2 DEF Receive
  <1>3. CASE Begin(q) \/ PayOut(q) \/ Respond(q)
    BY <1>3 DEF Begin, PayOut, Respond
  <1>4. CASE LockSender(q) \/ LockReceiver(q)
    BY <1>4 DEF LockSender, LockReceiver, Lock
  <1>5. CASE ReadSender(q) \/ ReadReceiver(q)
    BY <1>1, <1>5 DEF ReadSender, ReadReceiver
  <1>6. CASE WriteSender(q) \/ WriteReceiver(q)
    BY <1>1, <1>6 DEF WriteSender, WriteReceiver
  <1>7. CASE Upsert(q) \/ DeadlockAbort(q)
    BY <1>1, <1>7 DEF Upsert, DeadlockAbort, Waits
  <1>8. CASE Commit(q)
    BY <1>8 DEF Commit, Publish
  <1>9. QED
    BY <1>2, <1>3, <1>4, <1>5, <1>6, <1>7, <1>8 DEF Alone, Step

\* So whatever the core believes of a debit is as true as before.
LEMMA AloneConsulted ==
    ASSUME SInv, NEW q \in Request, Alone(q), UNCHANGED <<antifraud, excuse>>, NEW r \in Debit
    PROVE  Consulted(r)'
  <1>1. r \in Request /\ Debits(r) /\ TypeOK /\ Consulted(r)
    BY DEF Debit, SInv, PInv
  <1>2. /\ verdict' = verdict
        /\ pc[r] = "antifraud" => pc'[r] = "antifraud"
        /\ pc[r] \in {"new", "done"} => pc'[r] \in {"new", "antifraud", "done"}
        /\ pc[r] \in {"new", "antifraud", "done"} => (r \in outbox' => r \in outbox)
    BY <1>1, AloneKeeps
  <1>3. UNCHANGED <<rule, answer, gone, excuse>>
    BY DEF antifraud
  <1>4. Begun(r)' <=> Begun(r)
    BY <1>3 DEF Begun, AF!RulesOf
  <1>5. QED
    BY <1>1, <1>2, <1>3, <1>4 DEF Consulted

\* A goroutine of one call starts no other call, and changes no answer.
LEMMA CheckKeeps ==
    ASSUME AFP!AInv, NEW q \in Debit, AF!Step(q), NEW r \in Debit
    PROVE  /\ gone' = gone
           /\ answer[r] # "none" => answer'[r] = answer[r]
           /\ r # q => rule'[r] = rule[r]
  <1>1. /\ rule = [d \in Debit |-> rule[d]]
        /\ answer \in [Debit -> {"none", "Approved", "Declined", "FailedPrecondition"}]
    BY DEF AFP!AInv, AFP!GoroutinesTyped, AFP!TypeOK
  <1>2. ASSUME NEW x, AF!Start(q, x) \/ AF!Decide(q, x) \/ AF!ReadCancelled(q, x) \/ AF!ReadFails(q, x)
        PROVE  /\ gone' = gone /\ answer' = answer
               /\ \E place : rule' = [rule EXCEPT ![q][x] = place]
    BY <1>2 DEF AF!Start, AF!Decide, AF!ReadCancelled, AF!ReadFails, AF!StoreError, AF!Return,
       AF!ghost
  <1>3. CASE \E x : AF!Start(q, x) \/ AF!Decide(q, x) \/ AF!ReadCancelled(q, x) \/ AF!ReadFails(q, x)
    BY <1>1, <1>2, <1>3
  <1>4. CASE AF!Answer(q)
    <2>1. /\ gone' = gone /\ rule' = rule /\ answer[q] = "none"
          /\ \E status : answer' = [answer EXCEPT ![q] = status]
      BY <1>4 DEF AF!Answer, AF!ghost
    <2>2. QED
      BY <1>1, <2>1
  <1>5. QED
    BY <1>3, <1>4 DEF AF!Step

\* The antifraud works only on calls it was asked about.
LEMMA CheckConsulted ==
    ASSUME SInv, NEW q \in Debit, Check(q), NEW r \in Debit
    PROVE  Consulted(r)'
  <1>1. Consulted(r) /\ AFP!AInv /\ AF!Step(q) /\ Asked(q)
        /\ UNCHANGED <<pc, verdict, outbox, excuse>>
    BY DEF SInv, Check, vars, database
  <1>2. /\ gone' = gone
        /\ answer[r] # "none" => answer'[r] = answer[r]
        /\ r # q => rule'[r] = rule[r]
    BY <1>1, CheckKeeps
  <1>3. r # q => (Begun(r)' <=> Begun(r))
    BY <1>2 DEF Begun, AF!RulesOf
  <1>4. r = q => pc[r] = "antifraud" \/ Begun(r)
    BY <1>1 DEF Asked
  <1>5. QED
    BY <1>1, <1>2, <1>3, <1>4 DEF Consulted

\* A cash-out is cancelled only when the core has gone on without it.
LEMMA CancelConsulted ==
    ASSUME SInv, NEW q \in Debit, Cancel(q), NEW r \in Debit
    PROVE  Consulted(r)'
  <1>1. /\ Consulted(r) /\ Consulted(q)
        /\ gone \in [Debit -> BOOLEAN]
    BY DEF SInv, AFP!AInv, AFP!TypeOK
  <1>2. /\ Begun(q) /\ (KindOf[q] # "CashOut" \/ pc[q] # "antifraud")
        /\ answer[q] = "none" /\ gone' = [gone EXCEPT ![q] = TRUE]
        /\ UNCHANGED <<rule, answer, pc, verdict, outbox, excuse>>
    BY DEF Cancel, AF!CallerCancels, vars, database
  <1>3. Begun(r)' <=> Begun(r)
    BY <1>2 DEF Begun, AF!RulesOf
  <1>4. verdict[q] \in {"none", "approved", "declined", "unknown"}
    BY DEF SInv, PInv, TypeOK, Debit
  <1>5. QED
    BY <1>1, <1>2, <1>3, <1>4 DEF Consulted

\* An answer, or the lack of one, is believed for what it is.
LEMMA AnswerConsulted ==
    ASSUME SInv, NEW q \in Debit, NEW r \in Debit,
           Approved(q) \/ Declined(q) \/ Unusable(q) \/ Deadline(q) \/ Disconnect(q)
    PROVE  Consulted(r)' /\ ExcuseTyped'
  <1>1. /\ TypeOK /\ ExcuseTyped /\ Consulted(r) /\ q \in Request /\ r \in Request
        /\ q \notin outbox
    BY DEF SInv, PInv, Honest, Recorded, Finished, Debit, Approved, Declined, Unusable, Deadline,
       Disconnect, AntifraudApproves, AntifraudDeclines, AntifraudUnavailable, AntifraudDeadline
  <1>2. UNCHANGED antifraud
    BY DEF Approved, Declined, Unusable, Deadline, Disconnect
  <1>3. Begun(r)' <=> Begun(r)
    BY <1>2 DEF Begun, AF!RulesOf, antifraud
  <1> USE DEF TypeOK, ExcuseTyped, Consulted, GoTo, Answer, database, antifraud
  <1>4. CASE Approved(q)
    BY <1>1, <1>2, <1>3, <1>4 DEF Approved, AntifraudApproves
  <1>5. CASE Declined(q)
    BY <1>1, <1>2, <1>3, <1>5 DEF Declined, AntifraudDeclines
  <1>6. CASE Unusable(q)
    BY <1>1, <1>2, <1>3, <1>6 DEF Unusable, AntifraudUnavailable
  <1>7. CASE Deadline(q)
    BY <1>1, <1>2, <1>3, <1>7 DEF Deadline, AntifraudDeadline, AntifraudUnavailable
  <1>8. CASE Disconnect(q)
    BY <1>1, <1>2, <1>3, <1>8 DEF Disconnect, AntifraudUnavailable
  <1>9. QED
    BY <1>4, <1>5, <1>6, <1>7, <1>8

\* The invariant is inductive.
LEMMA SystemStep == SInv /\ [SystemNext]_systemVars => SInv'
  <1> SUFFICES ASSUME SInv, [SystemNext]_systemVars PROVE SInv'
    OBVIOUS
  <1>1. PInv'
    BY CoreStep, PaidStep DEF SInv
  <1>2. AFP!AInv'
    <2>1. [AFP!Next]_(AFP!vars)
      BY AntifraudsStep
    <2>2. QED
      BY <2>1, DebitsAreCalls, AFP!AntifraudStep DEF SInv
  <1>3. CASE \E q \in Request : Alone(q) /\ UNCHANGED <<antifraud, excuse>>
    BY <1>1, <1>2, <1>3, AloneConsulted DEF SInv, ExcuseTyped
  <1>4. CASE \E q \in Debit : Check(q) \/ Cancel(q)
    <2>1. excuse' = excuse
      BY <1>4 DEF Check, Cancel
    <2>2. QED
      BY <1>1, <1>2, <1>4, <2>1, CheckConsulted, CancelConsulted DEF SInv, ExcuseTyped
  <1>5. CASE \E q \in Debit :
                 Approved(q) \/ Declined(q) \/ Unusable(q) \/ Deadline(q) \/ Disconnect(q)
    BY <1>1, <1>2, <1>5, AnswerConsulted DEF SInv
  <1>6. CASE UNCHANGED systemVars
    BY <1>1, <1>2, <1>6
    DEF SInv, ExcuseTyped, Consulted, Begun, AF!RulesOf, systemVars, vars, database, antifraud
  <1>7. Idle => UNCHANGED vars
    BY DEF Idle
  <1>8. QED
    BY <1>3, <1>4, <1>5, <1>6, <1>7 DEF SystemNext, systemVars

\* The invariant holds in every reachable state.
THEOREM SystemInvariance == SystemSpec => []SInv
  BY SystemInitially, SystemStep, PTL DEF SystemSpec

-----------------------------------------------------------------------------
(* What the invariant gives. *)

\* Where the money of a debit moved, the core has a verdict.
LEMMA MovedIsJudged ==
    ASSUME SInv, NEW r \in Debit, r \in outbox
    PROVE  \/ answer[r] = "Approved" /\ verdict[r] = "approved"
           \/ excuse[r] = "connection"
           \/ excuse[r] = "deadline" /\ KindOf[r] # "CashOut"
           \/ answer[r] = "FailedPrecondition"
  BY DEF SInv, PInv, TypeOK, Honest, Told, Consulted, Debit

\* An answer of the rules, and the errors it comes from.
LEMMA AnswerMeans ==
    ASSUME SInv, NEW r \in Debit
    PROVE  /\ answer[r] = "Approved" => fraud[r] = {}
           /\ answer[r] = "FailedPrecondition" => broken[r] \/ gone[r]
  <1>1. /\ AFP!FirstExplained(r) /\ AFP!AnswerFinal(r)
        /\ first[r] \in {"none", "declined", "storeError", "cancelled"}
    BY DEF SInv, AFP!AInv, AFP!TypeOK
  <1>2. QED
    BY <1>1 DEF AFP!FirstExplained, AFP!AnswerFinal, AFP!StatusOf

\* Money of a debit to which a rule objected moves only by a fault: of the
\* feature store, of the connection or, for transfers, of the deadline.
THEOREM FraudNeedsAFault == SystemSpec => []FraudMovesOnlyByFault
  <1>1. SInv => FraudMovesOnlyByFault
    BY MovedIsJudged, AnswerMeans DEF SInv, Consulted, FraudMovesOnlyByFault
  <1>2. QED
    BY <1>1, SystemInvariance, PTL

\* Cash that leaves without an approval leaves after a failure of the
\* connection or of the feature store, and never for a late answer.
THEOREM CashNeedsAFault == SystemSpec => []CashNeedsAnAnswer
  <1>1. SInv => CashNeedsAnAnswer
    <2> SUFFICES ASSUME SInv, NEW r \in payouts, KindOf[r] = "CashOut", verdict[r] # "approved"
                 PROVE  excuse[r] = "connection" \/ (answer[r] = "FailedPrecondition" /\ broken[r])
      BY DEF CashNeedsAnAnswer
    <2>1. r \in Debit /\ r \in outbox
      BY DEF SInv, PInv, TypeOK, Honest, Paid, Debit, Debits
    <2>2. QED
      BY <2>1, MovedIsJudged, AnswerMeans DEF SInv, Consulted
  <1>2. QED
    BY <1>1, SystemInvariance, PTL
=============================================================================
