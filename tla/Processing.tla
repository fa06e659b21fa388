----------------------------- MODULE Processing -----------------------------
(***************************************************************************)
(* processing_core: the handlers of the four RPCs, run by concurrent       *)
(* goroutines over one Postgres database.  Each handler validates, asks    *)
(* the antifraud (debiting kinds), and then runs one database transaction  *)
(* (READ COMMITTED) that takes the advisory locks of the clients it moves  *)
(* money of, reads and writes user_balance, upserts transactions_history   *)
(* and inserts the outbox row.  Cash leaves the bank after the commit.     *)
(*                                                                         *)
(* One action is one statement of a transaction or one call to another     *)
(* system, so requests interleave between any two statements.  A           *)
(* transaction keeps its writes in `pending` until it commits.             *)
(***************************************************************************)
EXTENDS Operations, FiniteSets, Functions

CONSTANTS
    LockKey,   \* values of the 32 bit hash used as advisory lock key
    HashOf,    \* utils.Hash of a client id; two clients may collide
    TxId,      \* transaction_id (uuid)
    TxIdOf,    \* transaction.transaction_id; equal for a repeated request
    IdOf,      \* transaction.id (uint64)
    MaxId,     \* largest value of the signed column transactions_history.id
    Nobody,    \* no transaction holds the lock
    MaxConns,  \* size of the pgx connection pool
    MaxCrashes \* bound: crashes of the service

ASSUME ProcessingAssumption ==
    /\ HashOf \in [Client -> LockKey]
    /\ TxIdOf \in [Request -> TxId]
    /\ IdOf \in [Request -> Nat]
    /\ MaxId \in Nat
    /\ Nobody \notin Request
    /\ NoRow \notin [id : Int, by : Request]
    /\ MaxConns \in Nat \ {0}
    /\ MaxCrashes \in Nat

VARIABLES
    \* the handler of each request
    pc,       \* where it is
    verdict,  \* what the antifraud said, as CashOutCheck and the others report it
    read,     \* local variable senderBalance / receiverBalance
    reply,    \* what the caller is told
    \* its database transaction
    pending,  \* uncommitted balances, NoRow where nothing was written
    \* the database
    holder,   \* transaction that holds each advisory lock
    account,  \* user_balance
    history,  \* transactions_history by transaction_id
    outbox,   \* requests with a committed outbox row
    \* the world
    payouts,  \* calls of GiveMoney and ToAnotherBank
    ackLost,  \* requests whose COMMIT succeeded but returned an error
    crashes   \* crashes so far

database == <<holder, account, history, outbox>>
world    == <<payouts, ackLost, crashes>>
vars     == <<pc, verdict, read, reply, pending, database, world>>

Untouched == [c \in Client |-> NoRow]

\* The places where a database transaction is open.
InTx == {"lockSender", "lockReceiver", "readSender", "writeSender",
         "readReceiver", "writeReceiver", "upsert", "commit"}
Finished == {"done", "lost"}
Places == {"new", "antifraud", "begin", "committed", "paid"} \cup InTx \cup Finished

\* int32(id), the conversion in mapper.go
RowId(id) == LET low == id % (2 * (MaxId + 1))
             IN  IF low > MaxId THEN low - 2 * (MaxId + 1) ELSE low

\* READ COMMITTED: own writes, else the last committed row.
Visible(r, c) == IF pending[r][c] # NoRow THEN pending[r][c] ELSE account[c]

Init ==
    /\ pc = [r \in Request |-> "new"]
    /\ verdict = [r \in Request |-> "none"]
    /\ read = [r \in Request |-> NoRow]
    /\ reply = [r \in Request |-> "none"]
    /\ pending = [r \in Request |-> Untouched]
    /\ holder = [k \in LockKey |-> Nobody]
    /\ account = Opening
    /\ history = [t \in TxId |-> NoRow]
    /\ outbox = {}
    /\ payouts = {}
    /\ ackLost = {}
    /\ crashes = 0

-----------------------------------------------------------------------------
(* The handler outside of its transaction. *)

GoTo(r, place) == pc' = [pc EXCEPT ![r] = place]

Answer(r, status) ==
    /\ GoTo(r, "done")
    /\ reply' = [reply EXCEPT ![r] = status]

\* The handler is called: validate, then the antifraud or the transaction.
Receive(r) ==
    /\ pc[r] = "new"
    /\ IF Valid(r)
       THEN /\ GoTo(r, IF Debits(r) THEN "antifraud" ELSE "begin")
            /\ UNCHANGED reply
       ELSE Answer(r, "invalid")
    /\ UNCHANGED <<verdict, read, pending, database, world>>

\* The antifraud approved.
AntifraudApproves(r) ==
    /\ pc[r] = "antifraud"
    /\ verdict' = [verdict EXCEPT ![r] = "approved"]
    /\ GoTo(r, "begin")
    /\ UNCHANGED <<read, reply, pending, database, world>>

\* The antifraud declined: the use case returns before any transaction.
AntifraudDeclines(r) ==
    /\ pc[r] = "antifraud"
    /\ verdict' = [verdict EXCEPT ![r] = "declined"]
    /\ Answer(r, "declined")
    /\ UNCHANGED <<read, pending, database, world>>

\* The call failed (connection, FailedPrecondition): the check returns nil.
AntifraudUnavailable(r) ==
    /\ pc[r] = "antifraud"
    /\ verdict' = [verdict EXCEPT ![r] = "unknown"]
    /\ GoTo(r, "begin")
    /\ UNCHANGED <<read, reply, pending, database, world>>

\* The deadline of the call passed, which the check treats as any failure.
\* CashOutCheck runs under context.WithoutCancel and has no deadline.
AntifraudDeadline(r) ==
    /\ KindOf[r] # "CashOut"
    /\ AntifraudUnavailable(r)

\* The process has one pool, and each open transaction holds a connection.
ConnectionFree == Cardinality({q \in Request : pc[q] \in InTx}) < MaxConns

\* BeginTx waits for a free connection of the pool.
Begin(r) ==
    /\ pc[r] = "begin"
    /\ ConnectionFree
    /\ GoTo(r, "lockSender")
    /\ UNCHANGED <<verdict, read, reply, pending, database, world>>

\* Variant of PayOut: the cash is handed out before the commit.
PayOutEarly(r) ==
    /\ pc[r] = "commit"
    /\ PaysOut(r)
    /\ payouts' = payouts \cup {r}
    /\ GoTo(r, "paid")
    /\ UNCHANGED <<verdict, read, reply, pending, database, ackLost, crashes>>

\* After the commit the ATM or the other bank is asked to pay.
PayOut(r) ==
    /\ pc[r] = "committed"
    /\ PaysOut(r)
    /\ payouts' = payouts \cup {r}
    /\ GoTo(r, "paid")
    /\ UNCHANGED <<verdict, read, reply, pending, database, ackLost, crashes>>

\* Variant of Respond: answers without asking the ATM or the other bank.
RespondUnpaid(r) ==
    /\ pc[r] = "committed"
    /\ Answer(r, "approved")
    /\ UNCHANGED <<verdict, read, pending, database, world>>

Respond(r) ==
    /\ pc[r] = "paid" \/ (pc[r] = "committed" /\ ~PaysOut(r))
    /\ Answer(r, "approved")
    /\ UNCHANGED <<verdict, read, pending, database, world>>

-----------------------------------------------------------------------------
(* The statements of the transaction. *)

Release(r) == holder' = [k \in LockKey |-> IF holder[k] = r THEN Nobody ELSE holder[k]]

\* Variant of RollBack: the error of the transaction is dropped.
RollBackSilently(r) ==
    /\ Answer(r, "approved")
    /\ pending' = [pending EXCEPT ![r] = Untouched]
    /\ read' = [read EXCEPT ![r] = NoRow]
    /\ Release(r)
    /\ UNCHANGED <<verdict, account, history, outbox, world>>

\* Variant of RollBack: the transaction stays open and keeps its locks.
RollBackForgotten(r) ==
    /\ Answer(r, "declined")
    /\ pending' = [pending EXCEPT ![r] = Untouched]
    /\ read' = [read EXCEPT ![r] = NoRow]
    /\ UNCHANGED <<verdict, database, world>>

\* RollBackUnlessCommitted, and the error goes up as a declined answer.
RollBack(r) ==
    /\ Answer(r, "declined")
    /\ pending' = [pending EXCEPT ![r] = Untouched]
    /\ read' = [read EXCEPT ![r] = NoRow]
    /\ Release(r)
    /\ UNCHANGED <<verdict, account, history, outbox, world>>

\* Variant of Lock: the lock is taken but never waited for.
LockAnyway(r, c) ==
    /\ holder' = [holder EXCEPT ![HashOf[c]] = r]
    /\ UNCHANGED <<verdict, read, reply, pending, account, history, outbox, world>>

\* LockClient: pg_advisory_xact_lock, reentrant for the holder.
Lock(r, c) ==
    /\ holder[HashOf[c]] \in {Nobody, r}
    /\ holder' = [holder EXCEPT ![HashOf[c]] = r]
    /\ UNCHANGED <<verdict, read, reply, pending, account, history, outbox, world>>

\* Variant of LockSender: the transaction does not lock its client.
LockSenderNot(r) ==
    /\ pc[r] = "lockSender"
    /\ GoTo(r, IF KindOf[r] = "Internal" THEN "lockReceiver" ELSE "readSender")
    /\ UNCHANGED <<verdict, read, reply, pending, database, world>>

LockSender(r) ==
    /\ pc[r] = "lockSender"
    /\ Lock(r, SenderOf[r])
    /\ GoTo(r, IF KindOf[r] = "Internal" THEN "lockReceiver" ELSE "readSender")

\* Variant of LockReceiver: only the sender of a transfer is locked.
LockReceiverNot(r) ==
    /\ pc[r] = "lockReceiver"
    /\ GoTo(r, "readSender")
    /\ UNCHANGED <<verdict, read, reply, pending, database, world>>

LockReceiver(r) ==
    /\ pc[r] = "lockReceiver"
    /\ Lock(r, ReceiverOf[r])
    /\ GoTo(r, "readSender")

\* GetCurrentBalanceTx; a debiting operation gives up when there is no row.
ReadSender(r) ==
    /\ pc[r] = "readSender"
    /\ LET row == Visible(r, SenderOf[r])
       IN  IF Debits(r) /\ row = NoRow
           THEN RollBack(r)
           ELSE /\ read' = [read EXCEPT ![r] = row]
                /\ GoTo(r, "writeSender")
                /\ UNCHANGED <<verdict, reply, pending, database, world>>

Write(r, c, balance) == pending' = [pending EXCEPT ![r][c] = balance]

\* Variant of WriteSender: no limit check.
WriteSenderUnchecked(r) ==
    /\ pc[r] = "writeSender"
    /\ Write(r, SenderOf[r], SenderAfter(r, read[r]))
    /\ GoTo(r, IF KindOf[r] = "Internal" THEN "readReceiver" ELSE "upsert")
    /\ UNCHANGED <<verdict, read, reply, database, world>>

\* The limit check and UpdateBalance of the sender.
WriteSender(r) ==
    /\ pc[r] = "writeSender"
    /\ IF Debits(r) /\ read[r] < AmountOf[r]
       THEN RollBack(r)
       ELSE /\ Write(r, SenderOf[r], SenderAfter(r, read[r]))
            /\ GoTo(r, IF KindOf[r] = "Internal" THEN "readReceiver" ELSE "upsert")
            /\ UNCHANGED <<verdict, read, reply, database, world>>

\* Variant of ReadReceiver: the receiver as it was before the sender's update.
ReadReceiverFirst(r) ==
    /\ pc[r] = "readReceiver"
    /\ read' = [read EXCEPT ![r] = account[ReceiverOf[r]]]
    /\ GoTo(r, "writeReceiver")
    /\ UNCHANGED <<verdict, reply, pending, database, world>>

ReadReceiver(r) ==
    /\ pc[r] = "readReceiver"
    /\ read' = [read EXCEPT ![r] = Visible(r, ReceiverOf[r])]
    /\ GoTo(r, "writeReceiver")
    /\ UNCHANGED <<verdict, reply, pending, database, world>>

WriteReceiver(r) ==
    /\ pc[r] = "writeReceiver"
    /\ Write(r, ReceiverOf[r], Wrap(Value(read[r]) + AmountOf[r]))
    /\ GoTo(r, "upsert")
    /\ UNCHANGED <<verdict, read, reply, database, world>>

\* The history row after the upsert: on conflict the old id stays.
RowAfter(r) ==
    LET old == history[TxIdOf[r]]
    IN  [id |-> IF old = NoRow THEN RowId(IdOf[r]) ELSE old.id, by |-> r]

\* An uncommitted row of another transaction makes the insert wait.
IndexBusy(r) ==
    \E q \in Request \ {r} :
        /\ pc[q] = "commit"
        /\ \/ TxIdOf[q] = TxIdOf[r]
           \/ history[TxIdOf[r]] = NoRow /\ RowAfter(q).id = RowId(IdOf[r])

\* A new transaction_id with the id of another row violates the primary key.
IdTaken(r) ==
    /\ history[TxIdOf[r]] = NoRow
    /\ \E t \in TxId : history[t] # NoRow /\ history[t].id = RowId(IdOf[r])

\* UpsertTransaction with its AppendOutbox; both rows appear at the commit.
Upsert(r) ==
    /\ pc[r] = "upsert"
    /\ ~IndexBusy(r)
    /\ IF IdTaken(r)
       THEN RollBack(r)
       ELSE /\ GoTo(r, "commit")
            /\ UNCHANGED <<verdict, read, reply, pending, database, world>>

\* Variant of Publish: a row that exists already is not announced again.
PublishInsertsOnly(r) ==
    /\ pc[r] = "commit"
    /\ account' = [c \in Client |-> Visible(r, c)]
    /\ history' = [history EXCEPT ![TxIdOf[r]] = RowAfter(r)]
    /\ outbox' = IF history[TxIdOf[r]] = NoRow THEN outbox \cup {r} ELSE outbox
    /\ pending' = [pending EXCEPT ![r] = Untouched]
    /\ read' = [read EXCEPT ![r] = NoRow]
    /\ Release(r)

\* What COMMIT does in the database.
Publish(r) ==
    /\ pc[r] = "commit"
    /\ account' = [c \in Client |-> Visible(r, c)]
    /\ history' = [history EXCEPT ![TxIdOf[r]] = RowAfter(r)]
    /\ outbox' = outbox \cup {r}
    /\ pending' = [pending EXCEPT ![r] = Untouched]
    /\ read' = [read EXCEPT ![r] = NoRow]
    /\ Release(r)

Commit(r) ==
    /\ Publish(r)
    /\ GoTo(r, "committed")
    /\ UNCHANGED <<verdict, reply, world>>

\* COMMIT took effect but its answer did not arrive (the caller's context
\* was cancelled or the connection broke): the use case reports a failure.
CommitAnswerLost(r) ==
    /\ Publish(r)
    /\ Answer(r, "declined")
    /\ ackLost' = ackLost \cup {r}
    /\ UNCHANGED <<verdict, payouts, crashes>>

\* A statement, or the wait for a connection, fails (context, connection).
StatementFails(r) ==
    /\ pc[r] \in InTx \cup {"begin"}
    /\ RollBack(r)

-----------------------------------------------------------------------------
(* Postgres aborts a transaction of a cycle of lock waits. *)

WaitedKey(r) == HashOf[IF pc[r] = "lockSender" THEN SenderOf[r] ELSE ReceiverOf[r]]

Waits(r) ==
    /\ pc[r] \in {"lockSender", "lockReceiver"}
    /\ holder[WaitedKey(r)] \notin {Nobody, r}

Blocker(r) == holder[WaitedKey(r)]

\* A set that `Blocker` maps into itself one to one is a union of cycles.
InCycle(r) ==
    \E S \in SUBSET Request :
        /\ r \in S
        /\ \A q \in S : Waits(q) /\ Blocker(q) \in S
        /\ \A p, q \in S : Blocker(p) = Blocker(q) => p = q

DeadlockAbort(r) ==
    /\ Waits(r)
    /\ InCycle(r)
    /\ RollBack(r)

\* The process dies: open transactions roll back, their callers get nothing.
Crash ==
    /\ crashes < MaxCrashes
    /\ crashes' = crashes + 1
    /\ pc' = [r \in Request |-> IF pc[r] \in {"new"} \cup Finished THEN pc[r] ELSE "lost"]
    /\ pending' = [r \in Request |-> Untouched]
    /\ read' = [r \in Request |-> NoRow]
    /\ holder' = [k \in LockKey |-> Nobody]
    /\ UNCHANGED <<verdict, reply, account, history, outbox, payouts, ackLost>>

\* Every request was handled; the service idles.
Idle ==
    /\ \A r \in Request : pc[r] \in Finished
    /\ UNCHANGED vars

-----------------------------------------------------------------------------

\* What the service and its database do on their own.
Step(r) ==
    \/ Begin(r) \/ PayOut(r) \/ Respond(r)
    \/ LockSender(r) \/ LockReceiver(r)
    \/ ReadSender(r) \/ WriteSender(r)
    \/ ReadReceiver(r) \/ WriteReceiver(r)
    \/ Upsert(r) \/ Commit(r)

\* What callers, the antifraud and the network do.
Environment(r) ==
    \/ Receive(r)
    \/ AntifraudApproves(r) \/ AntifraudDeclines(r) \/ AntifraudUnavailable(r)
    \/ CommitAnswerLost(r) \/ StatementFails(r)

Next ==
    \/ \E r \in Request : \/ Step(r) \/ Environment(r)
                          \/ AntifraudDeadline(r) \/ DeadlockAbort(r)
    \/ Crash
    \/ Idle

Spec == Init /\ [][Next]_vars

\* Goroutines and Postgres keep running, deadlines fire and Postgres breaks
\* every deadlock (deadlock_timeout).  Nothing is assumed of the antifraud.
Fairness ==
    /\ \A r \in Request : WF_vars(Step(r)) /\ WF_vars(AntifraudDeadline(r))
    /\ WF_vars(\E r \in Request : DeadlockAbort(r))

FairSpec == Spec /\ Fairness

-----------------------------------------------------------------------------
(* Properties. *)

\* Every variable holds a value of its type.
TypeOK ==
    /\ pc \in [Request -> Places]
    /\ verdict \in [Request -> {"none", "approved", "declined", "unknown"}]
    /\ read \in [Request -> Int64 \cup {NoRow}]
    /\ reply \in [Request -> {"none", "invalid", "declined", "approved"}]
    /\ pending \in [Request -> [Client -> Int64 \cup {NoRow}]]
    /\ holder \in [LockKey -> Request \cup {Nobody}]
    /\ account \in [Client -> Int64 \cup {NoRow}]
    /\ history \in [TxId -> [id : Int, by : Request] \cup {NoRow}]
    /\ outbox \in SUBSET Request
    /\ payouts \in SUBSET Request
    /\ ackLost \in SUBSET Request
    /\ crashes \in Nat

\* The clients whose balance an open transaction has read and relies on.
Using(r) ==
    (IF pc[r] \in {"writeSender", "readReceiver", "writeReceiver", "upsert", "commit"}
     THEN {SenderOf[r]} ELSE {})
    \cup
    (IF KindOf[r] = "Internal" /\ pc[r] \in {"writeReceiver", "upsert", "commit"}
     THEN {ReceiverOf[r]} ELSE {})

\* "One thread works with a client" (LockClient): two open transactions never
\* rely on the balance of the same client, whatever the order of their
\* statements and whichever clients share a lock key.
OneTransactionPerClient ==
    \A p, q \in Request : p # q => Using(p) \cap Using(q) = {}

\* No lost update: what a transaction is about to commit is the whole effect
\* of its operation on the balances as they are now, not as they were when it
\* read them.
CommitsAreCurrent ==
    \A r \in Request :
        pc[r] = "commit" => [c \in Client |-> Visible(r, c)] = Posted(account, r)

\* The concurrent handlers, with failures and crashes, do nothing but post
\* whole operations one at a time: this module implements Ledger.
LedgerPromise == INSTANCE Ledger WITH entries <- outbox
ImplementsLedger == LedgerPromise!Spec

\* What an operation adds to a client.
Effect(r, c) ==
    LET spent    == IF Debits(r) /\ SenderOf[r] = c THEN AmountOf[r] ELSE 0
        received == IF \/ KindOf[r] = "CashIn" /\ SenderOf[r] = c
                       \/ KindOf[r] = "Internal" /\ ReceiverOf[r] = c
                    THEN AmountOf[r] ELSE 0
    IN  received - spent

\* What the operations of the outbox add to a client, and what they credit.
Movement(c) == SumFunctionOnSet([r \in Request |-> Effect(r, c)], outbox)
Credit(r, c) == IF Effect(r, c) > 0 THEN Effect(r, c) ELSE 0
Credits(c)  == SumFunctionOnSet([r \in Request |-> Credit(r, c)], outbox)

\* The outbox rows account for every balance, modulo the width of int64, so a
\* consumer of the outbox can rebuild user_balance.  It covers transfers to
\* oneself, requests repeated with the same transaction_id and lost answers.
OutboxExplainsBalances ==
    \A c \in Client :
        (Value(account[c]) - Value(Opening[c]) - Movement(c)) % (2 * (MaxInt + 1)) = 0

\* Whatever takes money from the client is a debit it asked for, which the
\* limit check sees.  A transfer of a negative amount takes from its receiver.
Guarded(c) == \A r \in Request : Effect(r, c) < 0 => Debits(r) /\ SenderOf[r] = c

\* A client never spends more than it had and was given, as long as credits fit
\* an int64: of debits that race for a balance that covers each of them alone,
\* those in the outbox are covered together.  It counts what was posted, not
\* user_balance, which a lost update would leave above zero.
NoOverdraft ==
    \A c \in Client :
        Guarded(c) /\ Value(Opening[c]) \in 0 .. MaxInt - Credits(c) =>
            Value(Opening[c]) + Movement(c) >= 0

\* user_balance, transactions_history and outbox change together: a
\* transaction_id has a row exactly when an outbox row announces it, and the
\* row shows one of the requests announced under that id.
HistoryMatchesOutbox ==
    \A t \in TxId :
        LET announced == {r \in outbox : TxIdOf[r] = t}
        IN  IF history[t] = NoRow THEN announced = {} ELSE history[t].by \in announced

\* A caller who is told "approved" has been posted, and one who is told
\* "declined" or "invalid" has not, unless the answer to COMMIT was lost.
AnswersAreTrue ==
    \A r \in Request :
        /\ reply[r] = "approved" => r \in outbox
        /\ reply[r] \in {"declined", "invalid"} /\ r \in outbox => r \in ackLost

\* Cash leaves the bank only for a debit that is committed and that the
\* antifraud did not decline, however many requests race for the balance.
PayoutsAreDebited ==
    \A r \in payouts :
        /\ PaysOut(r) /\ r \in outbox
        /\ verdict[r] # "declined"
        /\ reply[r] \in {"none", "approved"}

\* The only debits whose cash never leaves are the ones whose COMMIT answer
\* was lost and the ones caught by a crash right after the commit.
UnpaidDebitsHaveACause ==
    \A r \in outbox :
        PaysOut(r) /\ pc[r] \in Finished /\ r \notin payouts =>
            r \in ackLost \/ (pc[r] = "lost" /\ crashes > 0)

\* Every request that was received ends, through lock waits, deadlocks and a
\* full pool; only a cash-out may wait for a silent antifraud for ever.
RequestsEnd ==
    \A r \in Request :
        pc[r] # "new" ~> \/ pc[r] \in Finished
                         \/ KindOf[r] = "CashOut" /\ pc[r] = "antifraud"

\* README: the antifraud has a small timeout, and the operation goes on when
\* it does not answer in time.  Read for cash-outs: each of them ends.
CashOutsEnd ==
    \A r \in Request : KindOf[r] = "CashOut" => (pc[r] # "new" ~> pc[r] \in Finished)
=============================================================================
