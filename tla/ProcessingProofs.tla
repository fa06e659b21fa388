-------------------------- MODULE ProcessingProofs --------------------------
(***************************************************************************)
(* Proofs about Processing for any number of requests, clients, lock keys, *)
(* connections and crashes, and any width of the integers.                 *)
(***************************************************************************)
EXTENDS Processing, TLAPS

USE OperationsAssumption, ProcessingAssumption

-----------------------------------------------------------------------------
(* The arithmetic of the balances. *)

\* Sums and differences of two int64 wrap back into int64.
LEMMA WrapInRange ==
    ASSUME NEW a \in Int64, NEW b \in Int64
    PROVE  Wrap(a + b) \in Int64 /\ Wrap(a - b) \in Int64
  BY DEF Wrap, Int64

\* A row, or its absence, counts as an int64.
LEMMA ValueInRange ==
    ASSUME NEW row \in Int64 \cup {NoRow}
    PROVE  Value(row) \in Int64
  BY DEF Value, Int64

\* The balance written for the sender is an int64.
LEMMA SenderAfterInRange ==
    ASSUME NEW r \in Request, NEW row \in Int64 \cup {NoRow}
    PROVE  SenderAfter(r, row) \in Int64
  <1>1. Value(row) \in Int64 /\ AmountOf[r] \in Int64
    BY ValueInRange
  <1>2. CASE Debits(r)
    BY <1>1, <1>2, WrapInRange DEF SenderAfter
  <1>3. CASE ~Debits(r)
    BY <1>1, <1>3, WrapInRange DEF SenderAfter
  <1>4. QED
    BY <1>2, <1>3

\* int32(id) is an integer.
LEMMA RowIdInt ==
    ASSUME NEW id \in Nat
    PROVE  RowId(id) \in Int
  BY DEF RowId

-----------------------------------------------------------------------------
(* Type correctness. *)

\* The service starts in a well-typed state.
LEMMA TypeInit == Init => TypeOK
  BY DEF Init, TypeOK, Places, Untouched

\* What a transaction sees of a balance is a row or NoRow.
LEMMA VisibleType ==
    ASSUME TypeOK, NEW r \in Request, NEW c \in Client
    PROVE  Visible(r, c) \in Int64 \cup {NoRow}
  BY DEF TypeOK, Visible

\* A rollback, wherever it happens, leaves a well-typed state.
LEMMA RollBackType ==
    ASSUME TypeOK, NEW r \in Request, RollBack(r)
    PROVE  TypeOK'
  BY DEF TypeOK, RollBack, Answer, GoTo, Release, Untouched, Places, Finished, world

\* A commit, with or without its answer, writes well-typed rows.
LEMMA PublishType ==
    ASSUME TypeOK, NEW r \in Request, Publish(r)
    PROVE  /\ account' \in [Client -> Int64 \cup {NoRow}]
           /\ history' \in [TxId -> [id : Int, by : Request] \cup {NoRow}]
           /\ outbox' \in SUBSET Request
           /\ pending' \in [Request -> [Client -> Int64 \cup {NoRow}]]
           /\ read' \in [Request -> Int64 \cup {NoRow}]
           /\ holder' \in [LockKey -> Request \cup {Nobody}]
  <1>1. account' \in [Client -> Int64 \cup {NoRow}]
    BY VisibleType DEF Publish
  <1>2. RowAfter(r) \in [id : Int, by : Request]
    BY RowIdInt DEF RowAfter, TypeOK
  <1>3. history' \in [TxId -> [id : Int, by : Request] \cup {NoRow}]
    BY <1>2 DEF Publish, TypeOK
  <1>4. QED
    BY <1>1, <1>3 DEF Publish, TypeOK, Release, Untouched

\* No step of any handler, of Postgres or of a crash leaves the types.
LEMMA TypeStep == TypeOK /\ [Next]_vars => TypeOK'
  <1> SUFFICES ASSUME TypeOK, [Next]_vars PROVE TypeOK'
    OBVIOUS
  <1> USE DEF TypeOK, GoTo, Answer, Places, InTx, Finished, database, world
  <1>1. ASSUME NEW r \in Request, Receive(r) PROVE TypeOK'
    BY <1>1 DEF Receive
  <1>2. ASSUME NEW r \in Request, AntifraudApproves(r) PROVE TypeOK'
    BY <1>2 DEF AntifraudApproves
  <1>3. ASSUME NEW r \in Request, AntifraudDeclines(r) PROVE TypeOK'
    BY <1>3 DEF AntifraudDeclines
  <1>4. ASSUME NEW r \in Request, AntifraudUnavailable(r) PROVE TypeOK'
    BY <1>4 DEF AntifraudUnavailable
  <1>5. ASSUME NEW r \in Request, Begin(r) PROVE TypeOK'
    BY <1>5 DEF Begin
  <1>6. ASSUME NEW r \in Request, PayOut(r) PROVE TypeOK'
    BY <1>6 DEF PayOut
  <1>7. ASSUME NEW r \in Request, Respond(r) PROVE TypeOK'
    BY <1>7 DEF Respond
  <1>8. ASSUME NEW r \in Request, LockSender(r) PROVE TypeOK'
    BY <1>8, HashOf[SenderOf[r]] \in LockKey DEF LockSender, Lock
  <1>9. ASSUME NEW r \in Request, LockReceiver(r) PROVE TypeOK'
    BY <1>9, HashOf[ReceiverOf[r]] \in LockKey DEF LockReceiver, Lock
  <1>10. ASSUME NEW r \in Request, ReadSender(r) PROVE TypeOK'
    <2>1. Visible(r, SenderOf[r]) \in Int64 \cup {NoRow}
      BY VisibleType, SenderOf[r] \in Client
    <2>2. CASE Debits(r) /\ Visible(r, SenderOf[r]) = NoRow
      <3>1. RollBack(r)
        BY <1>10, <2>2, Zenon DEF ReadSender
      <3>2. QED
        BY <3>1, RollBackType
    <2>3. CASE ~(Debits(r) /\ Visible(r, SenderOf[r]) = NoRow)
      <3>1. /\ read' = [read EXCEPT ![r] = Visible(r, SenderOf[r])]
            /\ GoTo(r, "writeSender")
            /\ UNCHANGED <<verdict, reply, pending, database, world>>
        BY <1>10, <2>3, Zenon DEF ReadSender
      <3>2. QED
        BY <3>1, <2>1
    <2>4. QED
      BY <2>2, <2>3
  <1>11. ASSUME NEW r \in Request, WriteSender(r) PROVE TypeOK'
    <2>1. SenderAfter(r, read[r]) \in Int64
      BY SenderAfterInRange
    <2>2. CASE Debits(r) /\ read[r] < AmountOf[r]
      <3>1. RollBack(r)
        BY <1>11, <2>2, Zenon DEF WriteSender
      <3>2. QED
        BY <3>1, RollBackType
    <2>3. CASE ~(Debits(r) /\ read[r] < AmountOf[r])
      <3>1. /\ Write(r, SenderOf[r], SenderAfter(r, read[r]))
            /\ GoTo(r, IF KindOf[r] = "Internal" THEN "readReceiver" ELSE "upsert")
            /\ UNCHANGED <<verdict, read, reply, database, world>>
        BY <1>11, <2>3, Zenon DEF WriteSender
      <3>2. QED
        BY <3>1, <2>1 DEF Write
    <2>4. QED
      BY <2>2, <2>3
  <1>12. ASSUME NEW r \in Request, ReadReceiver(r) PROVE TypeOK'
    BY <1>12, VisibleType DEF ReadReceiver
  <1>13. ASSUME NEW r \in Request, WriteReceiver(r) PROVE TypeOK'
    <2>1. Wrap(Value(read[r]) + AmountOf[r]) \in Int64
      BY ValueInRange, WrapInRange
    <2>2. QED
      BY <1>13, <2>1 DEF WriteReceiver, Write
  <1>14. ASSUME NEW r \in Request, Upsert(r) PROVE TypeOK'
    BY <1>14, RollBackType DEF Upsert
  <1>15. ASSUME NEW r \in Request, Commit(r) PROVE TypeOK'
    BY <1>15, PublishType DEF Commit
  <1>16. ASSUME NEW r \in Request, CommitAnswerLost(r) PROVE TypeOK'
    BY <1>16, PublishType DEF CommitAnswerLost
  <1>17. ASSUME NEW r \in Request, StatementFails(r) PROVE TypeOK'
    BY <1>17, RollBackType DEF StatementFails
  <1>18. ASSUME NEW r \in Request, DeadlockAbort(r) PROVE TypeOK'
    BY <1>18, RollBackType DEF DeadlockAbort
  <1>19. ASSUME Crash PROVE TypeOK'
    BY <1>19 DEF Crash, Untouched
  <1>20. ASSUME UNCHANGED vars PROVE TypeOK'
    BY <1>20 DEF vars
  <1>21. QED
    BY <1>1, <1>2, <1>3, <1>4, <1>5, <1>6, <1>7, <1>8, <1>9, <1>10, <1>11, <1>12,
       <1>13, <1>14, <1>15, <1>16, <1>17, <1>18, <1>19, <1>20
    DEF Next, Step, Environment, AntifraudDeadline, Idle

\* Every variable keeps its type, for all constants.
THEOREM TypeCorrect == Spec => []TypeOK
  BY TypeInit, TypeStep, PTL DEF Spec

-----------------------------------------------------------------------------
(***************************************************************************)
(* The inductive invariant.  Its four parts say of one request which locks *)
(* its transaction holds, what it has written, what the values it read     *)
(* are worth now, and where it may be.                                     *)
(***************************************************************************)

\* The clients whose balance an operation changes.
Moved(r) == IF KindOf[r] = "Internal" THEN {SenderOf[r], ReceiverOf[r]} ELSE {SenderOf[r]}

SenderLocked == InTx \ {"lockSender"}
BothLocked   == SenderLocked \ {"lockReceiver"}

LocksHeld(r) ==
    /\ pc[r] \in SenderLocked => holder[HashOf[SenderOf[r]]] = r
    /\ pc[r] \in BothLocked => \A c \in Moved(r) : holder[HashOf[c]] = r

SenderWritten == {"readReceiver", "writeReceiver"}
AllWritten    == {"upsert", "commit"}

WritesCurrent(r) ==
    /\ pc[r] \notin SenderWritten \cup AllWritten => pending[r] = Untouched
    /\ pc[r] \in SenderWritten =>
           /\ KindOf[r] = "Internal"
           /\ pending[r] = [Untouched EXCEPT
                                ![SenderOf[r]] = SenderAfter(r, account[SenderOf[r]])]
    /\ pc[r] \in AllWritten =>
           pending[r] = [c \in Client |-> IF c \in Moved(r) THEN Posted(account, r)[c] ELSE NoRow]

ReadsCurrent(r) ==
    /\ pc[r] = "writeSender" =>
           read[r] = account[SenderOf[r]] /\ (Debits(r) => read[r] # NoRow)
    /\ pc[r] = "writeReceiver" => read[r] = Visible(r, ReceiverOf[r])
    /\ pc[r] \in SenderWritten \cup AllWritten => Covered(account, r)

InPlace(r) ==
    /\ pc[r] \notin {"new"} \cup Finished => Valid(r)
    /\ r \in outbox => pc[r] \in {"committed", "paid"} \cup Finished

Sound(r) == LocksHeld(r) /\ WritesCurrent(r) /\ ReadsCurrent(r) /\ InPlace(r)

IInv == TypeOK /\ \A r \in Request : Sound(r)

-----------------------------------------------------------------------------
(* What an operation does to the clients it moves, and to no other. *)

\* The clients an operation moves money of are clients.
LEMMA MovedClients ==
    ASSUME NEW r \in Request
    PROVE  Moved(r) \subseteq Client /\ SenderOf[r] \in Moved(r)
  BY DEF Moved

\* Posting an operation writes an int64 for each client it moves.
LEMMA PostedMoved ==
    ASSUME NEW r \in Request, NEW c \in Moved(r),
           NEW rows \in [Client -> Int64 \cup {NoRow}]
    PROVE  Posted(rows, r)[c] \in Int64
  <1> DEFINE debited == [rows EXCEPT ![SenderOf[r]] = SenderAfter(r, rows[SenderOf[r]])]
  <1>1. SenderOf[r] \in Client /\ ReceiverOf[r] \in Client /\ AmountOf[r] \in Int64
    OBVIOUS
  <1>2. SenderAfter(r, rows[SenderOf[r]]) \in Int64
    BY <1>1, SenderAfterInRange
  <1>3. debited \in [Client -> Int64 \cup {NoRow}] /\ debited[SenderOf[r]] \in Int64
    BY <1>1, <1>2
  <1>4. CASE KindOf[r] = "Internal"
    <2>1. Wrap(Value(debited[ReceiverOf[r]]) + AmountOf[r]) \in Int64
      BY <1>1, <1>3, ValueInRange, WrapInRange
    <2>2. Posted(rows, r) = [debited EXCEPT ![ReceiverOf[r]] =
                                 Wrap(Value(debited[ReceiverOf[r]]) + AmountOf[r])]
      BY <1>4 DEF Posted
    <2>3. c = SenderOf[r] \/ c = ReceiverOf[r]
      BY <1>4 DEF Moved
    <2>4. QED
      BY <1>1, <1>3, <2>1, <2>2, <2>3
  <1>5. CASE KindOf[r] # "Internal"
    <2>1. Posted(rows, r) = debited /\ c = SenderOf[r]
      BY <1>5 DEF Posted, Moved
    <2>2. QED
      BY <1>3, <2>1
  <1>6. QED
    BY <1>4, <1>5

\* A client that is not moved keeps its row.
LEMMA PostedFrame ==
    ASSUME NEW r \in Request, NEW c \in Client \ Moved(r),
           NEW rows \in [Client -> Int64 \cup {NoRow}]
    PROVE  Posted(rows, r)[c] = rows[c]
  BY DEF Posted, Moved

\* The effect on the clients moved depends on their rows only.
LEMMA PostedLocal ==
    ASSUME NEW r \in Request, NEW c \in Moved(r),
           NEW rows \in [Client -> Int64 \cup {NoRow}],
           NEW others \in [Client -> Int64 \cup {NoRow}],
           \A d \in Moved(r) : rows[d] = others[d]
    PROVE  Posted(rows, r)[c] = Posted(others, r)[c]
  <1>1. rows[SenderOf[r]] = others[SenderOf[r]] /\ SenderOf[r] \in Client
    BY DEF Moved
  <1>2. CASE KindOf[r] = "Internal"
    <2>1. rows[ReceiverOf[r]] = others[ReceiverOf[r]] /\ ReceiverOf[r] \in Client
      BY <1>2 DEF Moved
    <2>2. c = SenderOf[r] \/ c = ReceiverOf[r]
      BY <1>2 DEF Moved
    <2>3. QED
      BY <1>1, <1>2, <2>1, <2>2 DEF Posted
  <1>3. CASE KindOf[r] # "Internal"
    BY <1>1, <1>3 DEF Posted, Moved
  <1>4. QED
    BY <1>2, <1>3

-----------------------------------------------------------------------------
(* The invariant is inductive: first the requests that do not move. *)

\* The inductive invariant holds before the first request.
LEMMA InitSound == Init => IInv
  BY TypeInit DEF Init, IInv, Sound, LocksHeld, WritesCurrent, ReadsCurrent, InPlace,
     SenderLocked, BothLocked, SenderWritten, AllWritten, InTx, Finished, Untouched

\* A request is unaffected by a step that leaves it alone, lets it keep its
\* locks and does not touch the rows of the clients it has locked.
LEMMA Frame ==
    ASSUME IInv, TypeOK', NEW r \in Request,
           pc'[r] = pc[r], pending'[r] = pending[r], read'[r] = read[r],
           \A k \in LockKey : holder[k] = r => holder'[k] = r,
           \A c \in Client : holder[HashOf[c]] = r => account'[c] = account[c],
           r \in outbox' => r \in outbox
    PROVE  Sound(r)'
  <1>1. TypeOK /\ Sound(r)
    BY DEF IInv
  <1>2. LocksHeld(r)'
    BY <1>1, MovedClients DEF Sound, LocksHeld
  <1>3. pc[r] \in BothLocked => \A c \in Moved(r) : account'[c] = account[c]
    BY <1>1, MovedClients DEF Sound, LocksHeld
  <1>4. SenderWritten \cup AllWritten \subseteq BothLocked /\ "writeSender" \in BothLocked
    BY DEF SenderWritten, AllWritten, BothLocked, SenderLocked, InTx
  <1>5. WritesCurrent(r)'
    <2>1. CASE pc[r] \notin SenderWritten \cup AllWritten
      BY <1>1, <2>1 DEF Sound, WritesCurrent, SenderWritten, AllWritten
    <2>2. CASE pc[r] \in SenderWritten
      BY <1>1, <1>3, <1>4, <2>2, MovedClients
      DEF Sound, WritesCurrent, SenderWritten, AllWritten
    <2>3. CASE pc[r] \in AllWritten
      <3>1. \A c \in Moved(r) : Posted(account', r)[c] = Posted(account, r)[c]
        <4>1. \A d \in Moved(r) : account'[d] = account[d]
          BY <1>3, <1>4, <2>3
        <4>2. /\ account \in [Client -> Int64 \cup {NoRow}]
              /\ account' \in [Client -> Int64 \cup {NoRow}]
          BY <1>1 DEF TypeOK
        <4>3. QED
          BY <4>1, <4>2, PostedLocal
      <3>2. QED
        BY <1>1, <2>3, <3>1 DEF Sound, WritesCurrent, SenderWritten, AllWritten
    <2>4. QED
      BY <2>1, <2>2, <2>3
  <1>6. ReadsCurrent(r)'
    <2>1. pc[r] \in BothLocked => account'[SenderOf[r]] = account[SenderOf[r]]
      BY <1>3, MovedClients
    <2>2. pc[r] = "writeReceiver" => Visible(r, ReceiverOf[r])' = Visible(r, ReceiverOf[r])
      <3>1. pc[r] = "writeReceiver" => ReceiverOf[r] \in Moved(r)
        BY <1>1 DEF Sound, WritesCurrent, SenderWritten, Moved
      <3>2. pc[r] = "writeReceiver" => account'[ReceiverOf[r]] = account[ReceiverOf[r]]
        BY <3>1, <1>3, <1>4 DEF SenderWritten
      <3>3. QED
        BY <3>2 DEF Visible
    <2>3. QED
      BY <1>1, <1>4, <2>1, <2>2 DEF Sound, ReadsCurrent, Covered
  <1>7. InPlace(r)'
    BY <1>1 DEF Sound, InPlace
  <1>8. QED
    BY <1>2, <1>5, <1>6, <1>7 DEF Sound

\* What any step of another request leaves alone.
Undisturbed(r) ==
    /\ pc'[r] = pc[r] /\ pending'[r] = pending[r] /\ read'[r] = read[r]
    /\ \A k \in LockKey : holder[k] = r => holder'[k] = r
    /\ \A c \in Client : holder[HashOf[c]] = r => account'[c] = account[c]
    /\ r \in outbox' => r \in outbox

\* A request that a step leaves undisturbed stays sound.
LEMMA FrameOthers ==
    ASSUME IInv, TypeOK', NEW r \in Request, Undisturbed(r)
    PROVE  Sound(r)'
  BY Frame DEF Undisturbed

\* A commit changes the rows of the clients its operation moves, whose locks
\* it holds, and no other.
LEMMA PublishFrame ==
    ASSUME IInv, NEW q \in Request, Publish(q), NEW c \in Client, account'[c] # account[c]
    PROVE  holder[HashOf[c]] = q
  <1>1. TypeOK /\ Sound(q) /\ pc[q] = "commit"
    BY DEF IInv, Publish
  <1>2. c \in Moved(q)
    BY <1>1 DEF Publish, Visible, Sound, WritesCurrent, AllWritten
  <1>3. QED
    BY <1>1, <1>2 DEF Sound, LocksHeld, BothLocked, SenderLocked, InTx

\* The commit of one transaction leaves every other open one undisturbed.
LEMMA PublishOthers ==
    ASSUME IInv, NEW q \in Request, NEW r \in Request \ {q}, Publish(q)
    PROVE  /\ pending'[r] = pending[r] /\ read'[r] = read[r]
           /\ \A k \in LockKey : holder[k] = r => holder'[k] = r
           /\ \A c \in Client : holder[HashOf[c]] = r => account'[c] = account[c]
           /\ r \in outbox' => r \in outbox
  <1>1. \A c \in Client : holder[HashOf[c]] = r => account'[c] = account[c]
    BY PublishFrame
  <1>2. QED
    BY <1>1 DEF Publish, Release, IInv, TypeOK

\* So does a rollback.
LEMMA RollBackOthers ==
    ASSUME IInv, NEW q \in Request, NEW r \in Request \ {q}, RollBack(q)
    PROVE  Undisturbed(r)
  BY DEF RollBack, Release, Answer, GoTo, Undisturbed, IInv, TypeOK

\* Taking a lock takes it from nobody.
LEMMA LockOthers ==
    ASSUME IInv, NEW q \in Request, NEW r \in Request \ {q},
           LockSender(q) \/ LockReceiver(q)
    PROVE  Undisturbed(r)
  <1>1. CASE LockSender(q)
    BY <1>1, HashOf[SenderOf[q]] \in LockKey DEF LockSender, Lock, GoTo, Undisturbed, IInv, TypeOK
  <1>2. CASE LockReceiver(q)
    BY <1>2, HashOf[ReceiverOf[q]] \in LockKey DEF LockReceiver, Lock, GoTo, Undisturbed, IInv, TypeOK
  <1>3. QED
    BY <1>1, <1>2

\* No step of a request disturbs another one.
LEMMA StepOthers ==
    ASSUME IInv, NEW q \in Request, NEW r \in Request \ {q},
           \/ Step(q) \/ Environment(q) \/ AntifraudDeadline(q) \/ DeadlockAbort(q)
    PROVE  Undisturbed(r)
  <1> USE DEF IInv, TypeOK, GoTo, Answer, Undisturbed, database, world
  <1>1. ASSUME Receive(q) PROVE Undisturbed(r)
    BY <1>1 DEF Receive
  <1>2. ASSUME \/ AntifraudApproves(q) \/ AntifraudDeclines(q)
               \/ AntifraudUnavailable(q) \/ AntifraudDeadline(q)
        PROVE  Undisturbed(r)
    BY <1>2 DEF AntifraudApproves, AntifraudDeclines, AntifraudUnavailable, AntifraudDeadline
  <1>3. ASSUME Begin(q) \/ PayOut(q) \/ Respond(q) PROVE Undisturbed(r)
    BY <1>3 DEF Begin, PayOut, Respond
  <1>4. ASSUME ReadSender(q) PROVE Undisturbed(r)
    <2>1. CASE RollBack(q)
      BY <2>1, RollBackOthers
    <2>2. CASE ~RollBack(q)
      BY <1>4, <2>2 DEF ReadSender
    <2>3. QED
      BY <2>1, <2>2
  <1>5. ASSUME WriteSender(q) PROVE Undisturbed(r)
    <2>1. CASE RollBack(q)
      BY <2>1, RollBackOthers
    <2>2. CASE ~RollBack(q)
      BY <1>5, <2>2 DEF WriteSender, Write
    <2>3. QED
      BY <2>1, <2>2
  <1>6. ASSUME ReadReceiver(q) \/ WriteReceiver(q) PROVE Undisturbed(r)
    BY <1>6 DEF ReadReceiver, WriteReceiver, Write
  <1>7. ASSUME Upsert(q) PROVE Undisturbed(r)
    <2>1. CASE RollBack(q)
      BY <2>1, RollBackOthers
    <2>2. CASE ~RollBack(q)
      BY <1>7, <2>2 DEF Upsert
    <2>3. QED
      BY <2>1, <2>2
  <1>8. ASSUME Commit(q) PROVE Undisturbed(r)
    BY <1>8, PublishOthers DEF Commit
  <1>9. ASSUME CommitAnswerLost(q) PROVE Undisturbed(r)
    BY <1>9, PublishOthers DEF CommitAnswerLost
  <1>10. ASSUME StatementFails(q) \/ DeadlockAbort(q) PROVE Undisturbed(r)
    BY <1>10, RollBackOthers DEF StatementFails, DeadlockAbort
  <1>11. QED
    BY <1>1, <1>2, <1>3, <1>4, <1>5, <1>6, <1>7, <1>8, <1>9, <1>10, LockOthers
    DEF Step, Environment

-----------------------------------------------------------------------------
(* The invariant is inductive: the request that moves. *)

\* After a rollback nothing of the transaction is left.
LEMMA RollBackOwn ==
    ASSUME IInv, NEW r \in Request, RollBack(r), pc[r] \in InTx \cup {"begin"}
    PROVE  Sound(r)'
  <1>1. pc'[r] = "done" /\ pending'[r] = Untouched /\ outbox' = outbox
    BY DEF RollBack, Answer, GoTo, IInv, TypeOK
  <1>2. r \notin outbox
    BY DEF IInv, Sound, InPlace, InTx, Finished
  <1>3. QED
    BY <1>1, <1>2 DEF Sound, LocksHeld, WritesCurrent, ReadsCurrent, InPlace, Finished,
       SenderWritten, AllWritten, SenderLocked, BothLocked, InTx, Untouched

\* The handler outside of its transaction: nothing is locked or written.
LEMMA OutsideOwn ==
    ASSUME IInv, NEW r \in Request,
           \/ Receive(r) \/ AntifraudApproves(r) \/ AntifraudDeclines(r)
           \/ AntifraudUnavailable(r) \/ Begin(r) \/ PayOut(r) \/ Respond(r)
    PROVE  Sound(r)'
  <1>1. TypeOK /\ Sound(r)
    BY DEF IInv
  <1> DEFINE outside == {"new", "antifraud", "begin"}
  <1>2. /\ pending' = pending /\ outbox' = outbox
        /\ \/ pc[r] \in outside /\ pc'[r] \in {"antifraud", "begin", "lockSender", "done"}
           \/ pc[r] \in {"committed", "paid"} /\ pc'[r] \in {"paid", "done"}
        /\ pc[r] = "new" /\ pc'[r] # "done" => Valid(r)
    <2> USE <1>1 DEF TypeOK, GoTo, Answer, database, world
    <2>1. CASE Receive(r)
      BY <2>1 DEF Receive
    <2>2. CASE AntifraudApproves(r) \/ AntifraudDeclines(r) \/ AntifraudUnavailable(r)
      BY <2>2 DEF AntifraudApproves, AntifraudDeclines, AntifraudUnavailable
    <2>3. CASE Begin(r)
      BY <2>3 DEF Begin
    <2>4. CASE PayOut(r) \/ Respond(r)
      BY <2>4 DEF PayOut, Respond
    <2>5. QED
      BY <2>1, <2>2, <2>3, <2>4
  <1>3. /\ pc[r] \notin SenderWritten \cup AllWritten
        /\ pc'[r] \notin SenderWritten \cup AllWritten \cup {"writeSender"} \cup SenderLocked
    BY <1>2 DEF SenderWritten, AllWritten, SenderLocked, InTx
  <1>4. LocksHeld(r)'
    BY <1>3 DEF LocksHeld, BothLocked
  <1>5. WritesCurrent(r)'
    BY <1>1, <1>2, <1>3 DEF Sound, WritesCurrent
  <1>6. ReadsCurrent(r)'
    BY <1>3 DEF ReadsCurrent, SenderWritten
  <1>7. InPlace(r)'
    BY <1>1, <1>2 DEF Sound, InPlace, Finished
  <1>8. QED
    BY <1>4, <1>5, <1>6, <1>7 DEF Sound

\* After its first LockClient a transaction holds the lock of its sender.
LEMMA LockSenderOwn ==
    ASSUME IInv, NEW r \in Request, LockSender(r)
    PROVE  Sound(r)'
  <1>1. TypeOK /\ Sound(r)
    BY DEF IInv
  <1>2. /\ pending' = pending /\ outbox' = outbox /\ pc[r] = "lockSender"
        /\ pc'[r] = IF KindOf[r] = "Internal" THEN "lockReceiver" ELSE "readSender"
        /\ holder'[HashOf[SenderOf[r]]] = r
    BY <1>1, HashOf[SenderOf[r]] \in LockKey DEF LockSender, Lock, GoTo, TypeOK
  <1>3. KindOf[r] # "Internal" => Moved(r) = {SenderOf[r]}
    BY DEF Moved
  <1>4. QED
    BY <1>1, <1>2, <1>3 DEF Sound, LocksHeld, WritesCurrent, ReadsCurrent, InPlace, Finished,
       SenderWritten, AllWritten, SenderLocked, BothLocked, InTx

\* After its second LockClient a transfer holds both locks.
LEMMA LockReceiverOwn ==
    ASSUME IInv, NEW r \in Request, LockReceiver(r)
    PROVE  Sound(r)'
  <1>1. TypeOK /\ Sound(r)
    BY DEF IInv
  <1>2. /\ pending' = pending /\ outbox' = outbox
        /\ pc[r] = "lockReceiver" /\ pc'[r] = "readSender"
        /\ holder' = [holder EXCEPT ![HashOf[ReceiverOf[r]]] = r]
    BY <1>1 DEF LockReceiver, Lock, GoTo, TypeOK
  <1>3. holder[HashOf[SenderOf[r]]] = r
    BY <1>1, <1>2 DEF Sound, LocksHeld, SenderLocked, InTx
  <1>4. \A c \in Moved(r) : holder'[HashOf[c]] = r
    BY <1>1, <1>2, <1>3, HashOf[SenderOf[r]] \in LockKey, HashOf[ReceiverOf[r]] \in LockKey
    DEF Moved, TypeOK
  <1>5. holder'[HashOf[SenderOf[r]]] = r
    BY <1>4, MovedClients
  <1>6. QED
    BY <1>1, <1>2, <1>4, <1>5 DEF Sound, LocksHeld, WritesCurrent, ReadsCurrent, InPlace,
       Finished, SenderWritten, AllWritten, SenderLocked, BothLocked, InTx

\* What was read for the sender is the committed balance, and it is locked.
LEMMA ReadSenderOwn ==
    ASSUME IInv, NEW r \in Request, ReadSender(r)
    PROVE  Sound(r)'
  <1>1. TypeOK /\ Sound(r) /\ pc[r] = "readSender" /\ SenderOf[r] \in Client
    BY DEF IInv, ReadSender
  <1>2. CASE RollBack(r)
    BY <1>1, <1>2, RollBackOwn DEF InTx
  <1>3. CASE ~RollBack(r)
    <2>1. Visible(r, SenderOf[r]) = account[SenderOf[r]]
      BY <1>1 DEF Sound, WritesCurrent, SenderWritten, AllWritten, Visible, Untouched
    <2>2. /\ pending' = pending /\ database' = database
          /\ pc'[r] = "writeSender"
          /\ read'[r] = account[SenderOf[r]] /\ (Debits(r) => read'[r] # NoRow)
      BY <1>1, <1>3, <2>1 DEF ReadSender, GoTo, TypeOK, database
    <2>3. LocksHeld(r)'
      BY <1>1, <2>2 DEF Sound, LocksHeld, SenderLocked, BothLocked, InTx, database
    <2>4. QED
      BY <1>1, <2>2, <2>3 DEF Sound, WritesCurrent, ReadsCurrent, InPlace, Finished,
         SenderWritten, AllWritten, database
  <1>4. QED
    BY <1>2, <1>3

\* The sender is written as Posted has it, and only if the balance covers it.
LEMMA WriteSenderOwn ==
    ASSUME IInv, NEW r \in Request, WriteSender(r)
    PROVE  Sound(r)'
  <1>1. /\ TypeOK /\ Sound(r) /\ pc[r] = "writeSender"
        /\ SenderOf[r] \in Client /\ AmountOf[r] \in Int64
    BY DEF IInv, WriteSender
  <1>2. CASE RollBack(r)
    BY <1>1, <1>2, RollBackOwn DEF InTx
  <1>3. CASE ~RollBack(r)
    <2>1. /\ read[r] = account[SenderOf[r]] /\ (Debits(r) => read[r] # NoRow)
          /\ pending[r] = Untouched
      BY <1>1 DEF Sound, ReadsCurrent, WritesCurrent, SenderWritten, AllWritten
    <2>2. /\ database' = database /\ ~(Debits(r) /\ read[r] < AmountOf[r])
          /\ pc'[r] = IF KindOf[r] = "Internal" THEN "readReceiver" ELSE "upsert"
          /\ pending'[r] = [Untouched EXCEPT
                               ![SenderOf[r]] = SenderAfter(r, account[SenderOf[r]])]
      <3>1. /\ ~(Debits(r) /\ read[r] < AmountOf[r])
            /\ Write(r, SenderOf[r], SenderAfter(r, read[r]))
            /\ GoTo(r, IF KindOf[r] = "Internal" THEN "readReceiver" ELSE "upsert")
            /\ UNCHANGED <<verdict, read, reply, database, world>>
        BY <1>1, <1>3, Zenon DEF WriteSender
      <3>2. QED
        BY <1>1, <2>1, <3>1 DEF Write, GoTo, TypeOK
    <2>3. Covered(account, r)
      <3>1. read[r] \in Int64 \cup {NoRow}
        BY <1>1 DEF TypeOK
      <3>2. Debits(r) => read[r] \in Int64 /\ ~(read[r] < AmountOf[r])
        BY <2>1, <2>2, <3>1
      <3>3. QED
        BY <1>1, <2>1, <3>2 DEF Covered, Int64
    <2>4. LocksHeld(r)'
      BY <1>1, <2>2 DEF Sound, LocksHeld, SenderLocked, BothLocked, InTx, database
    <2>5. WritesCurrent(r)'
      <3>1. CASE KindOf[r] = "Internal"
        BY <2>2, <3>1 DEF WritesCurrent, SenderWritten, AllWritten, database
      <3>2. CASE KindOf[r] # "Internal"
        <4>1. Posted(account, r)[SenderOf[r]] = SenderAfter(r, account[SenderOf[r]])
          BY <1>1, <3>2 DEF Posted, TypeOK
        <4>2. Moved(r) = {SenderOf[r]}
          BY <3>2 DEF Moved
        <4>3. QED
          BY <1>1, <2>2, <3>2, <4>1, <4>2
          DEF WritesCurrent, SenderWritten, AllWritten, Untouched, database
      <3>3. QED
        BY <3>1, <3>2
    <2>6. QED
      BY <1>1, <2>2, <2>3, <2>4, <2>5
      DEF Sound, ReadsCurrent, InPlace, Covered, Finished, database
  <1>4. QED
    BY <1>2, <1>3

\* The receiver is read after the sender's update, its own or the committed row.
LEMMA ReadReceiverOwn ==
    ASSUME IInv, NEW r \in Request, ReadReceiver(r)
    PROVE  Sound(r)'
  <1>1. /\ TypeOK /\ Sound(r) /\ pc[r] = "readReceiver" /\ pc'[r] = "writeReceiver"
        /\ pending' = pending /\ database' = database
        /\ read'[r] = Visible(r, ReceiverOf[r])
    BY DEF IInv, ReadReceiver, GoTo, TypeOK
  <1>2. Visible(r, ReceiverOf[r])' = Visible(r, ReceiverOf[r])
    BY <1>1 DEF Visible, database
  <1>3. QED
    BY <1>1, <1>2 DEF Sound, LocksHeld, WritesCurrent, ReadsCurrent, Covered, InPlace, Finished,
       SenderWritten, AllWritten, SenderLocked, BothLocked, InTx, database

\* The receiver is read after the sender was written, so a transfer to
\* oneself starts from the debited balance.
LEMMA WriteReceiverOwn ==
    ASSUME IInv, NEW r \in Request, WriteReceiver(r)
    PROVE  Sound(r)'
  <1> DEFINE debited == [account EXCEPT ![SenderOf[r]] = SenderAfter(r, account[SenderOf[r]])]
             credit  == Wrap(Value(debited[ReceiverOf[r]]) + AmountOf[r])
  <1>1. /\ TypeOK /\ Sound(r) /\ pc[r] = "writeReceiver"
        /\ SenderOf[r] \in Client /\ ReceiverOf[r] \in Client
    BY DEF IInv, WriteReceiver
  <1>2. /\ KindOf[r] = "Internal" /\ read[r] = Visible(r, ReceiverOf[r])
        /\ pending[r] = [Untouched EXCEPT
                            ![SenderOf[r]] = SenderAfter(r, account[SenderOf[r]])]
        /\ Covered(account, r) /\ Valid(r) /\ r \notin outbox
    BY <1>1 DEF Sound, WritesCurrent, ReadsCurrent, InPlace, SenderWritten, Finished
  <1>3. SenderAfter(r, account[SenderOf[r]]) # NoRow
    <2>1. account[SenderOf[r]] \in Int64 \cup {NoRow}
      BY <1>1 DEF TypeOK
    <2>2. SenderAfter(r, account[SenderOf[r]]) \in Int64
      BY <2>1, SenderAfterInRange
    <2>3. QED
      BY <2>2 DEF Int64
  <1>4. read[r] = debited[ReceiverOf[r]]
    BY <1>1, <1>2, <1>3 DEF Visible, Untouched, TypeOK
  <1>5. /\ database' = database /\ pc'[r] = "upsert"
        /\ pending'[r] = [pending[r] EXCEPT ![ReceiverOf[r]] = credit]
    BY <1>1, <1>4 DEF WriteReceiver, Write, GoTo, TypeOK
  <1>6. Posted(account, r) = [debited EXCEPT ![ReceiverOf[r]] = credit]
    BY <1>2 DEF Posted
  <1>7. pending'[r] = [c \in Client |-> IF c \in Moved(r) THEN Posted(account, r)[c] ELSE NoRow]
    <2>1. Moved(r) = {SenderOf[r], ReceiverOf[r]}
      BY <1>2 DEF Moved
    <2>2. debited \in [Client -> Int64 \cup {NoRow}]
      BY <1>1, SenderAfterInRange DEF TypeOK
    <2>3. pending'[r] = [c \in Client |->
              IF c = ReceiverOf[r] THEN credit
              ELSE IF c = SenderOf[r] THEN SenderAfter(r, account[SenderOf[r]]) ELSE NoRow]
      BY <1>1, <1>2, <1>5 DEF Untouched
    <2>4. /\ Posted(account, r)[ReceiverOf[r]] = credit
          /\ SenderOf[r] # ReceiverOf[r] =>
                 Posted(account, r)[SenderOf[r]] = SenderAfter(r, account[SenderOf[r]])
      BY <1>1, <1>6, <2>2 DEF TypeOK
    <2>5. QED
      BY <2>1, <2>3, <2>4
  <1>8. LocksHeld(r)'
    BY <1>1, <1>5 DEF Sound, LocksHeld, SenderLocked, BothLocked, InTx, database
  <1>9. WritesCurrent(r)'
    BY <1>5, <1>7 DEF WritesCurrent, SenderWritten, AllWritten, database
  <1>10. QED
    BY <1>2, <1>5, <1>8, <1>9
    DEF Sound, ReadsCurrent, Covered, InPlace, SenderWritten, AllWritten, Finished, database

\* After the commit the balances of the transaction are the database's.
LEMMA PublishOwn ==
    ASSUME IInv, NEW r \in Request, Publish(r), pc'[r] \in {"committed", "done"}
    PROVE  Sound(r)'
  <1>1. TypeOK /\ Sound(r) /\ pc[r] = "commit" /\ pending'[r] = Untouched
    BY DEF IInv, Publish, TypeOK
  <1>2. Valid(r)
    BY <1>1 DEF Sound, InPlace, Finished
  <1>3. QED
    BY <1>1, <1>2 DEF Sound, LocksHeld, WritesCurrent, ReadsCurrent, InPlace, Finished,
       SenderWritten, AllWritten, SenderLocked, BothLocked, InTx, Untouched

\* The upsert moves no balance.
LEMMA UpsertOwn ==
    ASSUME IInv, NEW r \in Request, Upsert(r)
    PROVE  Sound(r)'
  <1>1. TypeOK /\ Sound(r) /\ pc[r] = "upsert"
    BY DEF IInv, Upsert
  <1>2. CASE RollBack(r)
    BY <1>1, <1>2, RollBackOwn DEF InTx
  <1>3. CASE ~RollBack(r)
    <2>1. pc'[r] = "commit" /\ pending' = pending /\ database' = database
      BY <1>1, <1>3 DEF Upsert, GoTo, TypeOK
    <2>2. QED
      BY <1>1, <2>1 DEF Sound, LocksHeld, WritesCurrent, ReadsCurrent, Covered, InPlace,
         Finished, SenderWritten, AllWritten, SenderLocked, BothLocked, InTx, database
  <1>4. QED
    BY <1>2, <1>3

\* Every step of a request keeps that request sound.
LEMMA StepOwn ==
    ASSUME IInv, NEW r \in Request,
           \/ Step(r) \/ Environment(r) \/ AntifraudDeadline(r) \/ DeadlockAbort(r)
    PROVE  Sound(r)'
  <1>1. CASE Commit(r)
    BY <1>1, PublishOwn DEF Commit, GoTo, IInv, TypeOK
  <1>2. CASE CommitAnswerLost(r)
    BY <1>2, PublishOwn DEF CommitAnswerLost, Answer, GoTo, IInv, TypeOK
  <1>3. CASE StatementFails(r)
    BY <1>3, RollBackOwn DEF StatementFails
  <1>4. CASE DeadlockAbort(r)
    BY <1>4, RollBackOwn DEF DeadlockAbort, Waits, InTx
  <1>5. CASE LockSender(r) \/ LockReceiver(r)
    BY <1>5, LockSenderOwn, LockReceiverOwn
  <1>6. CASE ReadSender(r) \/ WriteSender(r)
    BY <1>6, ReadSenderOwn, WriteSenderOwn
  <1>7. CASE ReadReceiver(r) \/ WriteReceiver(r) \/ Upsert(r)
    BY <1>7, ReadReceiverOwn, WriteReceiverOwn, UpsertOwn
  <1>8. QED
    BY <1>1, <1>2, <1>3, <1>4, <1>5, <1>6, <1>7, OutsideOwn
    DEF Step, Environment, AntifraudDeadline

\* A crash leaves requests without a transaction, and the database as it was.
LEMMA CrashSound ==
    ASSUME IInv, Crash, NEW r \in Request
    PROVE  Sound(r)'
  <1>1. TypeOK /\ Sound(r)
    BY DEF IInv
  <1>2. /\ pending'[r] = Untouched /\ outbox' = outbox
        /\ \/ pc'[r] \in Finished
           \/ pc'[r] = "new" /\ pc[r] = "new"
    BY <1>1 DEF Crash, TypeOK, Finished
  <1>3. QED
    BY <1>1, <1>2 DEF Sound, LocksHeld, WritesCurrent, ReadsCurrent, InPlace, Finished,
       SenderWritten, AllWritten, SenderLocked, BothLocked, InTx, Untouched

\* The invariant is inductive.
LEMMA InvariantStep == IInv /\ [Next]_vars => IInv'
  <1> SUFFICES ASSUME IInv, [Next]_vars PROVE IInv'
    OBVIOUS
  <1>1. TypeOK'
    BY TypeStep DEF IInv
  <1>2. ASSUME NEW r \in Request PROVE Sound(r)'
    <2>1. CASE Crash
      BY <2>1, CrashSound
    <2>2. CASE UNCHANGED vars
      <3>1. Undisturbed(r)
        BY <2>2 DEF vars, database, Undisturbed
      <3>2. QED
        BY <1>1, <3>1, FrameOthers
    <2>3. ASSUME NEW q \in Request,
                 \/ Step(q) \/ Environment(q) \/ AntifraudDeadline(q) \/ DeadlockAbort(q)
          PROVE  Sound(r)'
      <3>1. CASE q = r
        BY <2>3, <3>1, StepOwn
      <3>2. CASE q # r
        <4>1. Undisturbed(r)
          BY <2>3, <3>2, StepOthers
        <4>2. QED
          BY <1>1, <4>1, FrameOthers
      <3>3. QED
        BY <3>1, <3>2
    <2>4. QED
      BY <2>1, <2>2, <2>3 DEF Next, Idle
  <1>3. QED
    BY <1>1, <1>2 DEF IInv

\* The inductive invariant holds in every reachable state.
THEOREM Invariance == Spec => []IInv
  BY InitSound, InvariantStep, PTL DEF Spec

-----------------------------------------------------------------------------
(* What the invariant gives. *)

\* Two open transactions never rely on the balance of the same client, for
\* any hash of client ids to lock keys.
THEOREM LocksExclude == Spec => []OneTransactionPerClient
  <1>1. IInv => OneTransactionPerClient
    <2> SUFFICES ASSUME IInv, NEW p \in Request, NEW q \in Request, p # q,
                        NEW c \in Using(p) \cap Using(q)
                 PROVE  FALSE
      BY DEF OneTransactionPerClient
    <2>1. holder[HashOf[c]] = p
      BY DEF IInv, Sound, LocksHeld, Using, SenderLocked, BothLocked, InTx, Moved
    <2>2. holder[HashOf[c]] = q
      BY DEF IInv, Sound, LocksHeld, Using, SenderLocked, BothLocked, InTx, Moved
    <2>3. QED
      BY <2>1, <2>2
  <1>2. QED
    BY <1>1, Invariance, PTL

\* What a transaction is about to commit is its operation posted to the
\* balances of this moment.
LEMMA CurrentAtCommit ==
    ASSUME IInv, NEW r \in Request, pc[r] = "commit"
    PROVE  [c \in Client |-> Visible(r, c)] = Posted(account, r)
  <1>1. /\ pending[r] = [c \in Client |-> IF c \in Moved(r) THEN Posted(account, r)[c] ELSE NoRow]
        /\ account \in [Client -> Int64 \cup {NoRow}]
    BY DEF IInv, Sound, WritesCurrent, AllWritten, TypeOK
  <1>2. ASSUME NEW c \in Client PROVE Visible(r, c) = Posted(account, r)[c]
    <2>1. CASE c \in Moved(r)
      <3>1. Posted(account, r)[c] \in Int64
        BY <1>1, <2>1, PostedMoved
      <3>2. Posted(account, r)[c] # NoRow
        BY <3>1 DEF Int64
      <3>3. QED
        BY <1>1, <2>1, <3>2 DEF Visible
    <2>2. CASE c \notin Moved(r)
      BY <1>1, <2>2, PostedFrame DEF Visible
    <2>3. QED
      BY <2>1, <2>2
  <1>3. Posted(account, r) = [c \in Client |-> Posted(account, r)[c]]
    BY <1>1 DEF Posted
  <1>4. QED
    BY <1>2, <1>3

\* No lost update: a transaction commits its operation on current balances.
THEOREM NoLostUpdate == Spec => []CommitsAreCurrent
  <1>1. IInv => CommitsAreCurrent
    BY CurrentAtCommit DEF CommitsAreCurrent
  <1>2. QED
    BY <1>1, Invariance, PTL

-----------------------------------------------------------------------------
(* Processing implements Ledger. *)

\* A commit is one posting of the abstract ledger.
LEMMA PublishPosts ==
    ASSUME IInv, NEW r \in Request, Publish(r)
    PROVE  LedgerPromise!Post(r)
  <1>1. pc[r] = "commit" /\ outbox' = outbox \cup {r}
    BY DEF Publish
  <1>2. r \notin outbox /\ Valid(r) /\ Covered(account, r)
    BY <1>1 DEF IInv, Sound, InPlace, ReadsCurrent, AllWritten, Finished
  <1>3. account' = Posted(account, r)
    BY <1>1, CurrentAtCommit DEF Publish
  <1>4. QED
    BY <1>1, <1>2, <1>3
    DEF LedgerPromise!Post, LedgerPromise!Valid, Valid,
        LedgerPromise!Covered, Covered, LedgerPromise!Debits, Debits,
        LedgerPromise!Posted, Posted, LedgerPromise!SenderAfter, SenderAfter,
        LedgerPromise!Value, Value, LedgerPromise!Wrap, Wrap

\* Every other step leaves balances and outbox alone.
LEMMA OthersStutter ==
    ASSUME IInv, [Next]_vars, \A r \in Request : ~Publish(r)
    PROVE  account' = account /\ outbox' = outbox
  <1> USE DEF database, world
  <1>1. ASSUME NEW r \in Request, Step(r) PROVE account' = account /\ outbox' = outbox
    BY <1>1 DEF Step, Begin, PayOut, Respond, LockSender, LockReceiver, Lock, ReadSender,
       WriteSender, ReadReceiver, WriteReceiver, Upsert, Commit, RollBack
  <1>2. ASSUME NEW r \in Request, Environment(r) PROVE account' = account /\ outbox' = outbox
    BY <1>2 DEF Environment, Receive, AntifraudApproves, AntifraudDeclines,
       AntifraudUnavailable, CommitAnswerLost, StatementFails, RollBack
  <1>3. QED
    BY <1>1, <1>2 DEF Next, AntifraudDeadline, AntifraudUnavailable, DeadlockAbort, RollBack,
       Crash, Idle, vars

\* The concurrent handlers implement the atomic ledger: every behaviour posts
\* whole requests, each at most once, to the balances of that moment.
THEOREM Refinement == Spec => ImplementsLedger
  <1>1. Init => LedgerPromise!Init
    BY DEF Init, LedgerPromise!Init
  <1>2. IInv /\ [Next]_vars => [LedgerPromise!Next]_<<account, outbox>>
    <2> SUFFICES ASSUME IInv, [Next]_vars
                 PROVE  [LedgerPromise!Next]_<<account, outbox>>
      OBVIOUS
    <2>1. CASE \E r \in Request : Publish(r)
      BY <2>1, PublishPosts DEF LedgerPromise!Next
    <2>2. CASE \A r \in Request : ~Publish(r)
      BY <2>2, OthersStutter
    <2>3. QED
      BY <2>1, <2>2
  <1>3. QED
    BY <1>1, <1>2, Invariance, PTL DEF Spec, ImplementsLedger, LedgerPromise!Spec
=============================================================================
