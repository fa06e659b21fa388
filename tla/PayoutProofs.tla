---------------------------- MODULE PayoutProofs ----------------------------
(***************************************************************************)
(* Proofs about Processing: what callers are told, which cash leaves the   *)
(* bank, and what the three tables say of each other.  After some lemmas   *)
(* about sums, the payouts and answers come first: they do not depend on   *)
(* the locks, only on COMMIT being one step.  The balances need both.      *)
(***************************************************************************)
EXTENDS ProcessingProofs, FiniteSetTheorems

-----------------------------------------------------------------------------
(***************************************************************************)
(* Sums over a finite set, which the library defines by recursion over the *)
(* subsets of the set.                                                     *)
(***************************************************************************)

\* A family of sets that holds the empty set and, with a set, the set and one
\* member more, holds every subset of a finite set.
LEMMA SubsetInduction ==
    ASSUME NEW S, IsFiniteSet(S), NEW Family,
           {} \in Family,
           \A T \in SUBSET S : \A x \in S \ T : T \in Family => T \cup {x} \in Family
    PROVE  SUBSET S \subseteq Family
  <1> DEFINE Bad == {T \in SUBSET S : T \notin Family}
  <1>1. SUFFICES ASSUME Bad # {} PROVE FALSE
    OBVIOUS
  <1>2. IsWellFoundedOn(StrictSubsetOrdering(S), SUBSET S)
    BY FS_StrictSubsetOrderingWellFounded, FS_FiniteSubsetsOfFinite
  <1>3. PICK T \in Bad : \A U \in Bad : <<U, T>> \notin StrictSubsetOrdering(S)
    <2>1. Bad \subseteq SUBSET S
      OBVIOUS
    <2> HIDE DEF Bad
    <2>2. QED
      BY <1>1, <1>2, <2>1, WFMin
  <1>4. T # {}
    OBVIOUS
  <1>5. PICK x : x \in T
    BY <1>4
  <1>6. T \ {x} \notin Bad
    BY <1>3, <1>5 DEF StrictSubsetOrdering
  <1>7. /\ T \ {x} \in SUBSET S /\ T \ {x} \in Family /\ x \in S \ (T \ {x})
        /\ (T \ {x}) \cup {x} = T
    BY <1>5, <1>6
  <1>8. T \in Family
    BY <1>7
  <1>9. QED
    BY <1>8

\* A function on the subsets of S that adds up f.
AddsUp(g, f, S) ==
    /\ g \in [SUBSET S -> Int]
    /\ g[{}] = 0
    /\ \A T \in SUBSET S : \A x \in S \ T : g[T \cup {x}] = f[x] + g[T]

\* The sums of a function over the subsets of a finite set exist.
LEMMA SumExists ==
    ASSUME NEW D, NEW f \in [D -> Int], NEW S \in SUBSET D, IsFiniteSet(S)
    PROVE  \E g : AddsUp(g, f, S)
  <1> DEFINE Family == {T \in SUBSET S : \E g : AddsUp(g, f, T)}
  <1>1. {} \in Family
    <2>1. AddsUp([T \in SUBSET {} |-> 0], f, {})
      BY DEF AddsUp
    <2>2. QED
      BY <2>1
  <1>2. ASSUME NEW T \in SUBSET S, NEW x \in S \ T, T \in Family PROVE T \cup {x} \in Family
    <2>1. PICK g : AddsUp(g, f, T)
      BY <1>2
    <2> DEFINE h == [U \in SUBSET (T \cup {x}) |->
                        IF x \in U THEN f[x] + g[U \ {x}] ELSE g[U]]
    <2>2. f[x] \in Int /\ g \in [SUBSET T -> Int] /\ g[{}] = 0
      BY <2>1 DEF AddsUp
    <2>3. h \in [SUBSET (T \cup {x}) -> Int]
      <3>1. ASSUME NEW U \in SUBSET (T \cup {x})
            PROVE  (IF x \in U THEN f[x] + g[U \ {x}] ELSE g[U]) \in Int
        <4>1. U \ {x} \in SUBSET T /\ (x \notin U => U \in SUBSET T)
          OBVIOUS
        <4>2. QED
          BY <2>2, <4>1
      <3>2. QED
        BY <3>1
    <2>4. h[{}] = 0
      BY <2>2
    <2>5. ASSUME NEW U \in SUBSET (T \cup {x}), NEW y \in (T \cup {x}) \ U
          PROVE  h[U \cup {y}] = f[y] + h[U]
      <3>1. U \cup {y} \in SUBSET (T \cup {x})
        OBVIOUS
      <3>2. CASE y = x
        <4>1. x \notin U /\ (U \cup {y}) \ {x} = U /\ x \in U \cup {y}
          BY <3>2
        <4>2. QED
          BY <3>1, <3>2, <4>1
      <3>3. CASE y # x /\ x \notin U
        <4>1. U \in SUBSET T /\ y \in T \ U /\ x \notin U \cup {y}
          BY <3>3
        <4>2. g[U \cup {y}] = f[y] + g[U]
          BY <2>1, <4>1 DEF AddsUp
        <4>3. QED
          BY <3>1, <3>3, <4>1, <4>2
      <3>4. CASE y # x /\ x \in U
        <4>1. /\ U \ {x} \in SUBSET T /\ y \in T \ (U \ {x}) /\ x \in U \cup {y}
              /\ (U \cup {y}) \ {x} = (U \ {x}) \cup {y}
          BY <3>4
        <4>2. g[(U \ {x}) \cup {y}] = f[y] + g[U \ {x}]
          BY <2>1, <4>1 DEF AddsUp
        <4>3. h[U \cup {y}] = f[x] + (f[y] + g[U \ {x}]) /\ h[U] = f[x] + g[U \ {x}]
          BY <3>1, <3>4, <4>1, <4>2
        <4>4. f[y] \in Int /\ g[U \ {x}] \in Int
          BY <2>2, <4>1
        <4>5. QED
          BY <2>2, <4>3, <4>4
      <3>5. QED
        BY <3>2, <3>3, <3>4
    <2> HIDE DEF h
    <2>6. AddsUp(h, f, T \cup {x})
      BY <2>3, <2>4, <2>5 DEF AddsUp
    <2>7. QED
      BY <2>6
  <1>3. SUBSET S \subseteq Family
    <2> HIDE DEF Family
    <2>1. QED
      BY <1>1, <1>2, SubsetInduction
  <1>4. QED
    BY <1>3

\* The recursion of the library's sum.
Recursion(g, f, S) ==
    g = [T \in SUBSET S |-> IF T = {} THEN 0
                            ELSE LET x == CHOOSE x \in T : TRUE IN f[x] + g[T \ {x}]]

\* The library's sum is the value of a function chosen by its recursion.
LEMMA SumIsRecursive ==
    ASSUME NEW f, NEW S
    PROVE  SumFunctionOnSet(f, S) = (CHOOSE g : Recursion(g, f, S))[S]
  BY DEF SumFunctionOnSet, FoldFunctionOnSet, MapThenFoldSet, Recursion

\* Any function that adds up f follows the recursion, and gives its sums.
LEMMA AddsUpRecursive ==
    ASSUME NEW f, NEW S, NEW g, AddsUp(g, f, S)
    PROVE  Recursion(g, f, S)
  <1>1. ASSUME NEW T \in SUBSET S, T # {}
        PROVE  g[T] = f[CHOOSE x \in T : TRUE] + g[T \ {CHOOSE x \in T : TRUE}]
    <2> DEFINE x == CHOOSE x \in T : TRUE
    <2>1. x \in T
      BY <1>1
    <2> HIDE DEF x
    <2>2. /\ T \ {x} \in SUBSET S /\ x \in S \ (T \ {x}) /\ (T \ {x}) \cup {x} = T
      BY <2>1
    <2>3. g[(T \ {x}) \cup {x}] = f[x] + g[T \ {x}]
      BY <2>2 DEF AddsUp
    <2>4. QED
      BY <2>2, <2>3 DEF x
  <1>2. g = [T \in SUBSET S |-> g[T]] /\ g[{}] = 0
    BY DEF AddsUp
  <1>3. QED
    BY <1>1, <1>2 DEF Recursion

\* The library's sum is the value of any function that adds up.
LEMMA SumIs ==
    ASSUME NEW f, NEW S, IsFiniteSet(S), NEW g, AddsUp(g, f, S)
    PROVE  SumFunctionOnSet(f, S) = g[S]
  <1> DEFINE h == CHOOSE h : Recursion(h, f, S)
  <1>1. Recursion(h, f, S) /\ Recursion(g, f, S)
    BY AddsUpRecursive
  <1>2. SumFunctionOnSet(f, S) = h[S]
    BY SumIsRecursive
  <1> HIDE DEF h
  <1> DEFINE Bad == {T \in SUBSET S : g[T] # h[T]}
  <1>3. SUFFICES ASSUME Bad # {} PROVE FALSE
    BY <1>2
  <1>4. IsWellFoundedOn(StrictSubsetOrdering(S), SUBSET S)
    BY FS_StrictSubsetOrderingWellFounded, FS_FiniteSubsetsOfFinite
  <1>5. PICK T \in Bad : \A U \in Bad : <<U, T>> \notin StrictSubsetOrdering(S)
    <2>1. Bad \subseteq SUBSET S
      OBVIOUS
    <2> HIDE DEF Bad
    <2>2. QED
      BY <1>3, <1>4, <2>1, WFMin
  <1>6. T # {}
    <2>1. g[{}] = 0 /\ h[{}] = 0
      BY <1>1 DEF Recursion
    <2>2. QED
      BY <2>1
  <1> DEFINE x == CHOOSE x \in T : TRUE
  <1>7. x \in T
    BY <1>6
  <1>8. g[T] = f[x] + g[T \ {x}] /\ h[T] = f[x] + h[T \ {x}]
    BY <1>1, <1>6 DEF Recursion
  <1> HIDE DEF x
  <1>9. T \ {x} \notin Bad
    <2>1. <<T \ {x}, T>> \in StrictSubsetOrdering(S)
      BY <1>7 DEF StrictSubsetOrdering
    <2> HIDE DEF Bad
    <2>2. QED
      BY <1>5, <2>1
  <1>10. QED
    BY <1>7, <1>8, <1>9

\* A sum with one more member.
LEMMA SumAdds ==
    ASSUME NEW D, NEW f \in [D -> Int], NEW S \in SUBSET D, IsFiniteSet(S), NEW x \in D \ S
    PROVE  /\ SumFunctionOnSet(f, S) \in Int
           /\ SumFunctionOnSet(f, S \cup {x}) = SumFunctionOnSet(f, S) + f[x]
  <1>1. IsFiniteSet(S \cup {x}) /\ S \cup {x} \in SUBSET D
    BY FS_AddElement
  <1>2. PICK g : AddsUp(g, f, S \cup {x})
    BY <1>1, SumExists
  <1> DEFINE h == [T \in SUBSET S |-> g[T]]
  <1>3. AddsUp(h, f, S)
    <2>1. /\ g \in [SUBSET (S \cup {x}) -> Int] /\ g[{}] = 0
          /\ \A T \in SUBSET (S \cup {x}) : \A y \in (S \cup {x}) \ T : g[T \cup {y}] = f[y] + g[T]
      BY <1>2 DEF AddsUp
    <2>2. h \in [SUBSET S -> Int] /\ h[{}] = 0
      BY <2>1
    <2>3. ASSUME NEW T \in SUBSET S, NEW y \in S \ T PROVE h[T \cup {y}] = f[y] + h[T]
      BY <2>1, <2>3
    <2> HIDE DEF h
    <2>4. QED
      BY <2>2, <2>3 DEF AddsUp
  <1>4. SumFunctionOnSet(f, S) = g[S] /\ SumFunctionOnSet(f, S \cup {x}) = g[S \cup {x}]
    <2>1. SumFunctionOnSet(f, S) = h[S]
      <3> HIDE DEF h
      <3>1. QED
        BY <1>3, SumIs
    <2>2. QED
      BY <1>1, <1>2, <2>1, SumIs
  <1>5. g[S] \in Int /\ f[x] \in Int /\ g[S \cup {x}] = f[x] + g[S]
    BY <1>2 DEF AddsUp
  <1>6. QED
    BY <1>4, <1>5

\* The sum over no members is zero.
LEMMA SumOfNone ==
    ASSUME NEW f PROVE SumFunctionOnSet(f, {}) = 0
  <1>1. AddsUp([T \in SUBSET {} |-> 0], f, {})
    BY DEF AddsUp
  <1>2. QED
    BY <1>1, SumIs, FS_EmptySet

\* A sum of integers over a finite set is an integer.
LEMMA SumInt ==
    ASSUME NEW D, NEW f \in [D -> Int], NEW S \in SUBSET D, IsFiniteSet(S)
    PROVE  SumFunctionOnSet(f, S) \in Int
  <1>1. PICK g : AddsUp(g, f, S)
    BY SumExists
  <1>2. SumFunctionOnSet(f, S) = g[S]
    BY <1>1, SumIs
  <1>3. g \in [SUBSET S -> Int] /\ S \in SUBSET S
    BY <1>1 DEF AddsUp
  <1>4. QED
    BY <1>2, <1>3

-----------------------------------------------------------------------------
(* The requests. *)

USE OperationsAssumption, ProcessingAssumption

-----------------------------------------------------------------------------
(***************************************************************************)
(* The inductive invariant.  Of one request it says when it is in the      *)
(* outbox, what its caller was told, and when its cash left.               *)
(***************************************************************************)

Recorded(r) ==
    /\ pc[r] \in {"committed", "paid"} => r \in outbox
    /\ r \in outbox => pc[r] \in {"committed", "paid"} \cup Finished

Told(r) ==
    /\ reply[r] = "none" <=> pc[r] # "done"
    /\ reply[r] = "approved" => r \in outbox
    /\ reply[r] \in {"declined", "invalid"} /\ r \in outbox => r \in ackLost
    /\ verdict[r] = "declined" => pc[r] = "done" /\ r \notin outbox
    /\ pc[r] = "lost" => crashes > 0

Paid(r) ==
    /\ r \in payouts => /\ PaysOut(r) /\ r \in outbox
                        /\ pc[r] \in {"paid"} \cup Finished
                        /\ reply[r] \in {"none", "approved"}
    /\ pc[r] = "paid" => r \in payouts
    /\ reply[r] = "approved" /\ PaysOut(r) => r \in payouts

Honest(r) == Recorded(r) /\ Told(r) /\ Paid(r)

PInv == TypeOK /\ HistoryMatchesOutbox /\ \A r \in Request : Honest(r)

-----------------------------------------------------------------------------
(* A step of request q, seen from request r, which may be q itself. *)

\* The invariant holds before the first request.
LEMMA PaidInit == Init => PInv
  BY TypeInit DEF Init, PInv, HistoryMatchesOutbox, Honest, Recorded, Told, Paid, Finished

\* A transaction that rolls back was not posted, and its caller hears so.
LEMMA RollBackHonest ==
    ASSUME TypeOK, NEW r \in Request, Honest(r), NEW q \in Request, Honest(q),
           RollBack(q), pc[q] \in InTx \cup {"begin"}
    PROVE  Honest(r)'
  <1>1. q \notin outbox /\ q \notin payouts /\ pc[q] \notin {"committed", "paid"} \cup Finished
    BY DEF Honest, Recorded, Paid, InTx, Finished
  <1>2. CASE r = q
    BY <1>1, <1>2 DEF RollBack, Answer, GoTo, world, TypeOK, Honest, Recorded, Told, Paid, Finished
  <1>3. CASE r # q
    BY <1>3 DEF RollBack, Answer, GoTo, world, TypeOK, Honest, Recorded, Told, Paid, Finished
  <1>4. QED
    BY <1>2, <1>3

\* A statement that goes well changes only where its request is, inside the
\* transaction.
LEMMA StatementHonest ==
    ASSUME TypeOK, NEW r \in Request, Honest(r), NEW q \in Request, Honest(q),
           pc[q] \in InTx \cup {"begin"}, NEW place \in InTx, GoTo(q, place),
           UNCHANGED <<verdict, reply, outbox, world>>
    PROVE  Honest(r)'
  <1>1. pc[q] \notin {"committed", "paid"} \cup Finished
        /\ place \notin {"committed", "paid"} \cup Finished
    BY DEF InTx, Finished
  <1>2. CASE r = q
    BY <1>1, <1>2 DEF GoTo, world, TypeOK, Honest, Recorded, Told, Paid, Finished
  <1>3. CASE r # q
    BY <1>3 DEF GoTo, world, TypeOK, Honest, Recorded, Told, Paid, Finished
  <1>4. QED
    BY <1>2, <1>3

\* The statements before the commit, which succeed or roll back.
LEMMA TransactionHonest ==
    ASSUME TypeOK, NEW r \in Request, Honest(r), NEW q \in Request, Honest(q),
           \/ Begin(q) \/ LockSender(q) \/ LockReceiver(q) \/ ReadSender(q)
           \/ WriteSender(q) \/ ReadReceiver(q) \/ WriteReceiver(q) \/ Upsert(q)
           \/ StatementFails(q) \/ DeadlockAbort(q)
    PROVE  Honest(r)'
  <1>1. pc[q] \in InTx \cup {"begin"}
    BY DEF Begin, LockSender, LockReceiver, ReadSender, WriteSender, ReadReceiver,
       WriteReceiver, Upsert, StatementFails, DeadlockAbort, Waits, InTx
  <1>2. CASE RollBack(q)
    BY <1>1, <1>2, RollBackHonest
  <1>3. CASE ~RollBack(q)
    <2>1. /\ UNCHANGED <<verdict, reply, outbox, world>>
          /\ \E place \in InTx : GoTo(q, place)
      <3> USE <1>3 DEF database, world, InTx
      <3>1. CASE Begin(q) \/ LockSender(q) \/ LockReceiver(q)
        BY <3>1 DEF Begin, LockSender, LockReceiver, Lock
      <3>2. CASE ReadSender(q) \/ ReadReceiver(q)
        BY <3>2 DEF ReadSender, ReadReceiver
      <3>3. CASE WriteSender(q) \/ WriteReceiver(q)
        BY <3>3 DEF WriteSender, WriteReceiver
      <3>4. CASE Upsert(q) \/ StatementFails(q) \/ DeadlockAbort(q)
        BY <3>4 DEF Upsert, StatementFails, DeadlockAbort
      <3>5. QED
        BY <3>1, <3>2, <3>3, <3>4
    <2>2. QED
      BY <1>1, <2>1, StatementHonest
  <1>4. QED
    BY <1>2, <1>3

\* COMMIT, with or without its answer, is the step that posts.
LEMMA CommitHonest ==
    ASSUME TypeOK, NEW r \in Request, Honest(r), NEW q \in Request, Honest(q),
           Commit(q) \/ CommitAnswerLost(q)
    PROVE  Honest(r)'
  <1>1. /\ pc[q] = "commit" /\ q \notin payouts /\ outbox' = outbox \cup {q}
        /\ payouts' = payouts /\ crashes' = crashes /\ verdict' = verdict
    BY DEF Commit, CommitAnswerLost, Publish, world, Honest, Paid, Finished
  <1>2. \/ pc' = [pc EXCEPT ![q] = "committed"] /\ reply' = reply /\ ackLost' = ackLost
        \/ /\ pc' = [pc EXCEPT ![q] = "done"] /\ reply' = [reply EXCEPT ![q] = "declined"]
           /\ ackLost' = ackLost \cup {q}
    BY DEF Commit, CommitAnswerLost, Answer, GoTo, world
  <1>3. CASE r = q
    BY <1>1, <1>2, <1>3 DEF TypeOK, Honest, Recorded, Told, Paid, Finished
  <1>4. CASE r # q
    BY <1>1, <1>2, <1>4 DEF TypeOK, Honest, Recorded, Told, Paid, Finished
  <1>5. QED
    BY <1>3, <1>4

\* What the handler does before and after its transaction.
LEMMA HandlerHonest ==
    ASSUME TypeOK, NEW r \in Request, Honest(r), NEW q \in Request, Honest(q),
           \/ Receive(q) \/ AntifraudApproves(q) \/ AntifraudDeclines(q)
           \/ AntifraudUnavailable(q) \/ PayOut(q) \/ Respond(q)
    PROVE  Honest(r)'
  <1> USE DEF TypeOK, GoTo, Answer, database, world, Honest, Recorded, Told, Paid, Finished
  <1>1. CASE Receive(q)
    BY <1>1 DEF Receive
  <1>2. CASE AntifraudApproves(q)
    BY <1>2 DEF AntifraudApproves
  <1>3. CASE AntifraudDeclines(q)
    BY <1>3 DEF AntifraudDeclines
  <1>4. CASE AntifraudUnavailable(q)
    BY <1>4 DEF AntifraudUnavailable
  <1>5. CASE PayOut(q)
    BY <1>5 DEF PayOut
  <1>6. CASE Respond(q)
    BY <1>6 DEF Respond
  <1>7. QED
    BY <1>1, <1>2, <1>3, <1>4, <1>5, <1>6

\* A crash loses open requests and nothing that is posted.
LEMMA CrashHonest ==
    ASSUME TypeOK, NEW r \in Request, Honest(r), Crash
    PROVE  Honest(r)'
  BY DEF Crash, TypeOK, Honest, Recorded, Told, Paid, Finished

\* Every step keeps every request honest.
LEMMA HonestStep ==
    ASSUME TypeOK, \A r \in Request : Honest(r), [Next]_vars
    PROVE  \A r \in Request : Honest(r)'
  <1> SUFFICES ASSUME NEW r \in Request PROVE Honest(r)'
    OBVIOUS
  <1>1. CASE Crash
    BY <1>1, CrashHonest
  <1>2. CASE UNCHANGED vars
    BY <1>2 DEF vars, database, world, Honest, Recorded, Told, Paid
  <1>3. ASSUME NEW q \in Request,
               \/ Step(q) \/ Environment(q) \/ AntifraudDeadline(q) \/ DeadlockAbort(q)
        PROVE  Honest(r)'
    BY <1>3, TransactionHonest, CommitHonest, HandlerHonest
    DEF Step, Environment, AntifraudDeadline
  <1>4. QED
    BY <1>1, <1>2, <1>3 DEF Next, Idle

-----------------------------------------------------------------------------
(* The tables. *)

\* A commit writes the history row that its outbox row announces.
LEMMA PublishMatches ==
    ASSUME TypeOK, HistoryMatchesOutbox, NEW q \in Request, Publish(q)
    PROVE  HistoryMatchesOutbox'
  <1>1. RowAfter(q) \in [id : Int, by : Request] /\ RowAfter(q).by = q
    BY RowIdInt DEF RowAfter, TypeOK
  <1>2. RowAfter(q) # NoRow
    BY <1>1
  <1>3. /\ history' = [history EXCEPT ![TxIdOf[q]] = RowAfter(q)]
        /\ outbox' = outbox \cup {q} /\ TxIdOf[q] \in TxId
    BY DEF Publish
  <1>4. SUFFICES ASSUME NEW t \in TxId
                 PROVE  LET announced == {r \in outbox' : TxIdOf[r] = t}
                        IN  IF history'[t] = NoRow THEN announced = {}
                                                   ELSE history'[t].by \in announced
    BY DEF HistoryMatchesOutbox
  <1>5. CASE t = TxIdOf[q]
    BY <1>1, <1>2, <1>3, <1>5 DEF TypeOK
  <1>6. CASE t # TxIdOf[q]
    <2>1. history'[t] = history[t]
      BY <1>3, <1>6 DEF TypeOK
    <2>2. {r \in outbox' : TxIdOf[r] = t} = {r \in outbox : TxIdOf[r] = t}
      BY <1>3, <1>6
    <2>3. QED
      BY <2>1, <2>2 DEF HistoryMatchesOutbox
  <1>7. QED
    BY <1>5, <1>6

\* Every other step leaves history and outbox alone.
LEMMA OthersMatch ==
    ASSUME [Next]_vars, \A r \in Request : ~Publish(r)
    PROVE  history' = history /\ outbox' = outbox
  <1> USE DEF database, world
  <1>1. ASSUME NEW r \in Request, Step(r) PROVE history' = history /\ outbox' = outbox
    BY <1>1 DEF Step, Begin, PayOut, Respond, LockSender, LockReceiver, Lock, ReadSender,
       WriteSender, ReadReceiver, WriteReceiver, Upsert, Commit, RollBack
  <1>2. ASSUME NEW r \in Request, Environment(r) PROVE history' = history /\ outbox' = outbox
    BY <1>2 DEF Environment, Receive, AntifraudApproves, AntifraudDeclines,
       AntifraudUnavailable, CommitAnswerLost, StatementFails, RollBack
  <1>3. QED
    BY <1>1, <1>2 DEF Next, AntifraudDeadline, AntifraudUnavailable, DeadlockAbort, RollBack,
       Crash, Idle, vars

\* The invariant is inductive.
LEMMA PaidStep == PInv /\ [Next]_vars => PInv'
  <1> SUFFICES ASSUME PInv, [Next]_vars PROVE PInv'
    OBVIOUS
  <1>1. TypeOK'
    BY TypeStep DEF PInv
  <1>2. \A r \in Request : Honest(r)'
    BY HonestStep DEF PInv
  <1>3. HistoryMatchesOutbox'
    <2>1. CASE \E r \in Request : Publish(r)
      BY <2>1, PublishMatches DEF PInv
    <2>2. CASE \A r \in Request : ~Publish(r)
      BY <2>2, OthersMatch DEF PInv, HistoryMatchesOutbox
    <2>3. QED
      BY <2>1, <2>2
  <1>4. QED
    BY <1>1, <1>2, <1>3 DEF PInv

\* The invariant holds in every reachable state.
THEOREM PaidInvariance == Spec => []PInv
  BY PaidInit, PaidStep, PTL DEF Spec

-----------------------------------------------------------------------------
(* What the invariant gives. *)

\* Callers are told the truth, unless the answer to COMMIT was lost.
THEOREM CallersAreToldTheTruth == Spec => []AnswersAreTrue
  <1>1. PInv => AnswersAreTrue
    BY DEF PInv, Honest, Told, AnswersAreTrue
  <1>2. QED
    BY <1>1, PaidInvariance, PTL

\* Cash leaves only for committed debits that were not declined, for any
\* number of requests, repetitions and crashes.
THEOREM CashIsDebited == Spec => []PayoutsAreDebited
  <1>1. PInv => PayoutsAreDebited
    BY DEF PInv, TypeOK, Honest, Told, Paid, PayoutsAreDebited
  <1>2. QED
    BY <1>1, PaidInvariance, PTL

\* A debit stays unpaid only after a lost answer or a crash.
THEOREM UnpaidIsExplained == Spec => []UnpaidDebitsHaveACause
  <1>1. PInv => UnpaidDebitsHaveACause
    BY DEF PInv, TypeOK, Honest, Told, Paid, Finished, UnpaidDebitsHaveACause
  <1>2. QED
    BY <1>1, PaidInvariance, PTL

\* History and outbox agree on every transaction_id.
THEOREM TablesAgree == Spec => []HistoryMatchesOutbox
  BY PaidInvariance, PTL DEF PInv

-----------------------------------------------------------------------------
(* The balances, as the outbox accounts for them. *)

\* How many values an integer of the width in use has.
Width == 2 * (MaxInt + 1)

Balanced(c) == \E k \in Int : Value(account[c]) = Value(Opening[c]) + Movement(c) + k * Width

\* No sum that was written overflowed: the balance of a guarded client is
\* what the outbox says, between zero and all it had and was credited.
Solvent(c) ==
    Guarded(c) /\ Value(Opening[c]) \in 0 .. MaxInt - Credits(c) =>
        /\ Value(account[c]) = Value(Opening[c]) + Movement(c)
        /\ Value(account[c]) \in 0 .. Value(Opening[c]) + Credits(c)

BInv ==
    /\ IInv
    /\ IsFiniteSet(outbox)
    /\ \A c \in Client : Balanced(c)
    /\ \A c \in Client : Solvent(c)

\* Wrap adds or takes one width, or nothing.
LEMMA WrapModulo ==
    ASSUME NEW x \in Int
    PROVE  Wrap(x) \in {x - Width, x, x + Width}
  BY DEF Wrap, Width

\* What Wrap may have added to a balance that is written twice.
Turns == {-2 * Width, -Width, 0, Width, 2 * Width}

\* An operation adds its effect to a client, modulo the width.
LEMMA PostedModulo ==
    ASSUME NEW r \in Request, NEW c \in Client, NEW rows \in [Client -> Int64 \cup {NoRow}]
    PROVE  /\ Value(rows[c]) \in Int /\ Effect(r, c) \in Int
           /\ \E turn \in Turns : Value(Posted(rows, r)[c]) = Value(rows[c]) + Effect(r, c) + turn
  <1> DEFINE debited == [rows EXCEPT ![SenderOf[r]] = SenderAfter(r, rows[SenderOf[r]])]
             credit  == Wrap(Value(debited[ReceiverOf[r]]) + AmountOf[r])
             sender  == IF Debits(r) THEN Value(rows[SenderOf[r]]) - AmountOf[r]
                                     ELSE Value(rows[SenderOf[r]]) + AmountOf[r]
  <1>1. /\ SenderOf[r] \in Client /\ ReceiverOf[r] \in Client /\ AmountOf[r] \in Int
        /\ Width \in Int /\ \A row \in Int64 \cup {NoRow} : Value(row) \in Int
        /\ \A x \in Int : Value(x) = x
    BY DEF Int64, Width, Value
  <1>2. SenderAfter(r, rows[SenderOf[r]]) = Wrap(sender) /\ sender \in Int
    BY <1>1 DEF SenderAfter
  <1>3. Wrap(sender) \in {sender - Width, sender, sender + Width} /\ Wrap(sender) \in Int
    BY <1>1, <1>2, WrapModulo
  <1>4. debited = [rows EXCEPT ![SenderOf[r]] = Wrap(sender)]
    BY <1>2
  <1>5. /\ Value(debited[SenderOf[r]]) \in {sender - Width, sender, sender + Width}
        /\ \A d \in Client : Value(debited[d]) \in Int
        /\ \A d \in Client : d # SenderOf[r] => debited[d] = rows[d]
    <2> HIDE DEF sender
    <2>1. QED
      BY <1>1, <1>3, <1>4
  <1>6. Value(credit) \in {(Value(debited[ReceiverOf[r]]) + AmountOf[r]) - Width,
                           Value(debited[ReceiverOf[r]]) + AmountOf[r],
                           Value(debited[ReceiverOf[r]]) + AmountOf[r] + Width}
    <2>1. Value(debited[ReceiverOf[r]]) + AmountOf[r] \in Int
      BY <1>1, <1>5
    <2> DEFINE sum == Value(debited[ReceiverOf[r]]) + AmountOf[r]
    <2> HIDE DEF debited, sum
    <2>2. Wrap(sum) \in {sum - Width, sum, sum + Width} /\ sum \in Int
      BY <2>1, WrapModulo DEF sum
    <2>3. Value(Wrap(sum)) = Wrap(sum)
      BY <1>1, <2>2
    <2>4. QED
      BY <2>2, <2>3 DEF sum
  <1>7. Value(rows[c]) \in Int /\ Effect(r, c) \in Int
    BY <1>1 DEF Effect
  <1>8. CASE KindOf[r] = "Internal"
    <2>1. Posted(rows, r) = [debited EXCEPT ![ReceiverOf[r]] = credit] /\ Debits(r)
      BY <1>8 DEF Posted, Debits
    <2>2. sender = Value(rows[SenderOf[r]]) - AmountOf[r]
      BY <2>1
    <2>3. /\ Posted(rows, r)[ReceiverOf[r]] = credit
          /\ \A d \in Client : d # ReceiverOf[r] => Posted(rows, r)[d] = debited[d]
      BY <1>1, <2>1
    <2> HIDE DEF debited, credit, sender
    <2>4. CASE c # SenderOf[r] /\ c # ReceiverOf[r]
      <3>1. Effect(r, c) = 0
        BY <1>8, <2>4 DEF Effect
      <3>2. QED
        BY <1>5, <1>7, <2>3, <2>4, <3>1 DEF Turns
    <2>5. CASE c = SenderOf[r] /\ c # ReceiverOf[r]
      <3>1. Effect(r, c) = 0 - AmountOf[r]
        BY <1>8, <2>1, <2>5 DEF Effect
      <3>2. QED
        BY <1>1, <1>5, <1>7, <2>2, <2>3, <2>5, <3>1 DEF Turns
    <2>6. CASE c # SenderOf[r] /\ c = ReceiverOf[r]
      <3>1. Effect(r, c) = AmountOf[r]
        BY <1>1, <1>8, <2>6 DEF Effect
      <3>2. QED
        BY <1>1, <1>5, <1>6, <1>7, <2>3, <2>6, <3>1 DEF Turns
    <2>7. CASE c = SenderOf[r] /\ c = ReceiverOf[r]
      <3>1. Effect(r, c) = 0
        BY <1>1, <1>8, <2>1, <2>7 DEF Effect
      <3>2. QED
        BY <1>1, <1>5, <1>6, <1>7, <2>2, <2>3, <2>7, <3>1 DEF Turns
    <2>8. QED
      BY <2>4, <2>5, <2>6, <2>7
  <1>9. CASE KindOf[r] # "Internal"
    <2>1. Posted(rows, r) = debited
      BY <1>9 DEF Posted
    <2>2. CASE c = SenderOf[r]
      <3>1. sender = Value(rows[c]) + Effect(r, c)
        BY <1>1, <1>9, <2>2 DEF Effect, Debits, Kind
      <3> HIDE DEF debited, sender
      <3>2. QED
        BY <1>1, <1>5, <1>7, <2>1, <2>2, <3>1 DEF Turns
    <2>3. CASE c # SenderOf[r]
      <3>1. Effect(r, c) = 0
        BY <1>9, <2>3 DEF Effect
      <3> HIDE DEF debited
      <3>2. QED
        BY <1>5, <1>7, <2>1, <2>3, <3>1 DEF Turns
    <2>4. QED
      BY <2>2, <2>3
  <1> HIDE DEF debited, credit, sender
  <1>10. QED
    BY <1>7, <1>8, <1>9

\* Turns are whole widths.
LEMMA TurnsAreWidths ==
    ASSUME NEW k \in Int, NEW turn \in Turns
    PROVE  \E j \in Int : k * Width + turn = j * Width
  <1>1. Width \in Int
    BY DEF Width
  <1>2. /\ k * Width + (-2 * Width) = (k - 2) * Width /\ k * Width + (-Width) = (k - 1) * Width
        /\ k * Width + Width = (k + 1) * Width /\ k * Width + 2 * Width = (k + 2) * Width
        /\ k * Width + 0 = k * Width
    <2> HIDE DEF Width
    <2>1. QED
      BY <1>1
  <1>3. /\ k - 2 \in Int /\ k - 1 \in Int /\ k + 1 \in Int /\ k + 2 \in Int
    OBVIOUS
  <1>4. CASE turn = -2 * Width
    BY <1>2, <1>3, <1>4
  <1>5. CASE turn = -Width
    BY <1>2, <1>3, <1>5
  <1>6. CASE turn = 0
    BY <1>2, <1>6
  <1>7. CASE turn = Width
    BY <1>2, <1>3, <1>7
  <1>8. CASE turn = 2 * Width
    BY <1>2, <1>3, <1>8
  <1>9. QED
    BY <1>4, <1>5, <1>6, <1>7, <1>8 DEF Turns

\* A covered operation that takes from a client only with its limit check,
\* on a balance that leaves room for its credit, overflows nothing: the
\* balance moves by a whole effect up to a multiple of Width, and both ends
\* are in one Width.
LEMMA PostedSolvent ==
    ASSUME NEW r \in Request, NEW c \in Client, NEW rows \in [Client -> Int64 \cup {NoRow}],
           Covered(rows, r), Effect(r, c) < 0 => Debits(r) /\ SenderOf[r] = c,
           Value(rows[c]) >= 0, Value(rows[c]) + Credit(r, c) <= MaxInt
    PROVE  Value(Posted(rows, r)[c]) = Value(rows[c]) + Effect(r, c)
           /\ Value(rows[c]) + Effect(r, c) >= 0
  <1>1. /\ Value(rows[c]) \in Int /\ Effect(r, c) \in Int
        /\ Credit(r, c) \in Int /\ Effect(r, c) <= Credit(r, c)
    BY PostedModulo DEF Credit
  <1>2. PICK turn \in Turns : Value(Posted(rows, r)[c]) = Value(rows[c]) + Effect(r, c) + turn
    BY PostedModulo
  <1>3. Value(rows[c]) + Effect(r, c) >= 0
    <2>1. CASE Effect(r, c) >= 0
      BY <1>1, <2>1
    <2>2. CASE Effect(r, c) < 0
      <3>1. /\ Debits(r) /\ SenderOf[r] = c
            /\ rows[c] \in Int64 /\ rows[c] >= AmountOf[r] /\ AmountOf[r] \in Int
        BY <2>2 DEF Covered, Int64
      <3>2. Value(rows[c]) = rows[c] /\ KindOf[r] # "CashIn"
        BY <3>1 DEF Value, Int64, Debits
      <3>3. Effect(r, c) = 0 - AmountOf[r]
        BY <2>2, <3>1, <3>2 DEF Effect
      <3>4. QED
        BY <3>1, <3>2, <3>3 DEF Int64
    <2>3. QED
      BY <1>1, <2>1, <2>2
  <1>4. Value(rows[c]) + Effect(r, c) <= MaxInt
    BY <1>1
  <1>5. Value(Posted(rows, r)[c]) \in -MaxInt - 1 .. MaxInt
    <2>1. Posted(rows, r)[c] \in Int64 \cup {NoRow}
      BY PostedMoved, PostedFrame
    <2>2. QED
      BY <2>1 DEF Value, Int64
  <1>6. turn = 0
    BY <1>1, <1>2, <1>3, <1>4, <1>5 DEF Turns, Width
  <1>7. QED
    BY <1>1, <1>2, <1>3, <1>6

-----------------------------------------------------------------------------
(* The invariant is inductive. *)

\* Sums over the outbox are integers, and start from nothing.
LEMMA SumsInt ==
    ASSUME IsFiniteSet(outbox), outbox \in SUBSET Request, NEW c \in Client
    PROVE  /\ [r \in Request |-> Effect(r, c)] \in [Request -> Int]
           /\ [r \in Request |-> Credit(r, c)] \in [Request -> Int]
           /\ \A r \in Request : /\ Effect(r, c) \in Int /\ Credit(r, c) \in Nat
                                  /\ Effect(r, c) <= Credit(r, c)
  <1>1. ASSUME NEW r \in Request
        PROVE  Effect(r, c) \in Int /\ Credit(r, c) \in Nat /\ Effect(r, c) <= Credit(r, c)
    <2>1. AmountOf[r] \in Int
      BY DEF Int64
    <2>2. Effect(r, c) \in Int
      BY <2>1 DEF Effect
    <2>3. QED
      BY <2>2 DEF Credit
  <1>2. QED
    BY <1>1

\* A commit adds its operation to the sums.
LEMMA PublishSums ==
    ASSUME IInv, IsFiniteSet(outbox), NEW q \in Request, Publish(q), NEW c \in Client
    PROVE  /\ IsFiniteSet(outbox')
           /\ account' = Posted(account, q) /\ Covered(account, q)
           /\ Movement(c) \in Int /\ Movement(c)' = Movement(c) + Effect(q, c)
           /\ Credits(c) \in Int /\ Credits(c)' = Credits(c) + Credit(q, c)
  <1>1. pc[q] = "commit" /\ outbox' = outbox \cup {q}
    BY DEF Publish
  <1>2. q \notin outbox /\ Covered(account, q) /\ outbox \in SUBSET Request
    BY <1>1 DEF IInv, TypeOK, Sound, InPlace, ReadsCurrent, AllWritten, Finished
  <1>3. account' = Posted(account, q)
    BY <1>1, CurrentAtCommit DEF Publish
  <1>4. IsFiniteSet(outbox')
    BY <1>1, FS_AddElement
  <1> DEFINE effects == [r \in Request |-> Effect(r, c)]
             credits == [r \in Request |-> Credit(r, c)]
  <1>5. effects \in [Request -> Int] /\ credits \in [Request -> Int]
    BY <1>2, SumsInt
  <1>6. effects[q] = Effect(q, c) /\ credits[q] = Credit(q, c)
    OBVIOUS
  <1>7. /\ Movement(c) = SumFunctionOnSet(effects, outbox)
        /\ Movement(c)' = SumFunctionOnSet(effects, outbox')
        /\ Credits(c) = SumFunctionOnSet(credits, outbox)
        /\ Credits(c)' = SumFunctionOnSet(credits, outbox')
    BY DEF Movement, Credits
  <1> HIDE DEF effects, credits
  <1>8. outbox \in SUBSET Request /\ IsFiniteSet(outbox) /\ q \in Request \ outbox
    BY <1>2
  <1>9. /\ SumFunctionOnSet(effects, outbox) \in Int
        /\ SumFunctionOnSet(effects, outbox \cup {q}) = SumFunctionOnSet(effects, outbox) + effects[q]
    BY <1>5, <1>8, SumAdds
  <1>10. /\ SumFunctionOnSet(credits, outbox) \in Int
         /\ SumFunctionOnSet(credits, outbox \cup {q}) = SumFunctionOnSet(credits, outbox) + credits[q]
    BY <1>5, <1>8, SumAdds
  <1>11. QED
    BY <1>1, <1>2, <1>3, <1>4, <1>6, <1>7, <1>9, <1>10

\* A commit leaves every balance explained.
LEMMA PublishBalanced ==
    ASSUME IInv, IsFiniteSet(outbox), NEW q \in Request, Publish(q), NEW c \in Client, Balanced(c)
    PROVE  Balanced(c)'
  <1>1. /\ account' = Posted(account, q)
        /\ Movement(c) \in Int /\ Movement(c)' = Movement(c) + Effect(q, c)
    BY PublishSums
  <1>2. /\ account \in [Client -> Int64 \cup {NoRow}]
        /\ Value(Opening[c]) \in Int
    BY DEF IInv, TypeOK, Value, Int64
  <1>3. PICK k \in Int : Value(account[c]) = Value(Opening[c]) + Movement(c) + k * Width
    BY DEF Balanced
  <1>4. PICK turn \in Turns : Value(Posted(account, q)[c]) = Value(account[c]) + Effect(q, c) + turn
    BY <1>2, PostedModulo
  <1>5. PICK j \in Int : k * Width + turn = j * Width
    BY TurnsAreWidths
  <1>6. /\ Effect(q, c) \in Int /\ turn \in Int /\ k * Width \in Int
    <2>1. Width \in Int
      BY DEF Width
    <2>2. turn \in Int
      BY <2>1 DEF Turns
    <2>3. Effect(q, c) \in Int
      BY <1>2, PostedModulo
    <2>4. QED
      BY <2>1, <2>2, <2>3
  <1>7. Value(account'[c]) = Value(Opening[c]) + Movement(c)' + j * Width
    <2> DEFINE wide == k * Width
               next == j * Width
    <2>1. wide + turn = next /\ wide \in Int
      BY <1>5, <1>6
    <2>2. Value(account[c]) = Value(Opening[c]) + Movement(c) + wide
      BY <1>3
    <2> HIDE DEF wide, next
    <2>3. Value(account'[c]) = Value(Opening[c]) + (Movement(c) + Effect(q, c)) + next
      BY <1>1, <1>2, <1>4, <1>6, <2>1, <2>2
    <2>4. QED
      BY <1>1, <2>3 DEF next
  <1>8. QED
    BY <1>7 DEF Balanced

\* A commit leaves the balance of a guarded client what the outbox says, and
\* between zero and what was credited.
LEMMA PublishSolvent ==
    ASSUME IInv, IsFiniteSet(outbox), NEW q \in Request, Publish(q), NEW c \in Client, Solvent(c)
    PROVE  Solvent(c)'
  <1>1. /\ account' = Posted(account, q) /\ Covered(account, q)
        /\ Movement(c) \in Int /\ Movement(c)' = Movement(c) + Effect(q, c)
        /\ Credits(c) \in Int /\ Credits(c)' = Credits(c) + Credit(q, c)
    BY PublishSums
  <1>2. /\ account \in [Client -> Int64 \cup {NoRow}]
        /\ Value(Opening[c]) \in Int /\ outbox \in SUBSET Request
    BY DEF IInv, TypeOK, Value, Int64
  <1>3. Effect(q, c) \in Int /\ Credit(q, c) \in Nat /\ Effect(q, c) <= Credit(q, c)
    BY <1>2, SumsInt
  <1>4. SUFFICES ASSUME Guarded(c), Value(Opening[c]) \in 0 .. MaxInt - (Credits(c) + Credit(q, c))
                 PROVE  /\ Value(Posted(account, q)[c]) = Value(Opening[c]) + (Movement(c) + Effect(q, c))
                        /\ Value(Posted(account, q)[c]) \in
                               0 .. Value(Opening[c]) + (Credits(c) + Credit(q, c))
    BY <1>1 DEF Solvent, Guarded, Effect
  <1>5. /\ Value(account[c]) = Value(Opening[c]) + Movement(c)
        /\ Value(account[c]) \in 0 .. Value(Opening[c]) + Credits(c)
    BY <1>1, <1>2, <1>3, <1>4 DEF Solvent
  <1>6. Value(account[c]) >= 0 /\ Value(account[c]) + Credit(q, c) <= MaxInt
    BY <1>1, <1>2, <1>3, <1>4, <1>5
  <1>7. /\ Value(Posted(account, q)[c]) = Value(account[c]) + Effect(q, c)
        /\ Value(account[c]) + Effect(q, c) >= 0
    BY <1>1, <1>2, <1>4, <1>6, PostedSolvent DEF Guarded
  <1>8. QED
    BY <1>1, <1>2, <1>3, <1>5, <1>7

\* The invariant holds before the first request.
LEMMA BalancesInit == Init => BInv
  <1> SUFFICES ASSUME Init PROVE BInv
    OBVIOUS
  <1>1. IInv
    BY InitSound
  <1>2. outbox = {} /\ IsFiniteSet(outbox) /\ account = Opening
    BY FS_EmptySet DEF Init
  <1>3. ASSUME NEW c \in Client PROVE Balanced(c) /\ Solvent(c)
    <2>1. Movement(c) = 0 /\ Credits(c) = 0
      BY <1>2, SumOfNone DEF Movement, Credits
    <2>2. Value(Opening[c]) \in Int
      BY DEF Value, Int64
    <2>3. Value(Opening[c]) = Value(Opening[c]) + 0 + 0 * Width
      BY <2>2 DEF Width
    <2>4. Balanced(c)
      BY <1>2, <2>1, <2>3 DEF Balanced
    <2>5. Solvent(c)
      BY <1>2, <2>1, <2>2 DEF Solvent
    <2>6. QED
      BY <2>4, <2>5
  <1>4. QED
    BY <1>1, <1>2, <1>3 DEF BInv

\* The invariant is inductive.
LEMMA BalancesStep == BInv /\ [Next]_vars => BInv'
  <1> SUFFICES ASSUME BInv, [Next]_vars PROVE BInv'
    OBVIOUS
  <1>1. IInv'
    BY InvariantStep DEF BInv
  <1>2. CASE \E q \in Request : Publish(q)
    <2>1. PICK q \in Request : Publish(q)
      BY <1>2
    <2>2. IsFiniteSet(outbox')
      BY <2>1, FS_AddElement DEF BInv, Publish
    <2>3. \A c \in Client : Balanced(c)'
      BY <2>1, PublishBalanced DEF BInv
    <2>4. \A c \in Client : Solvent(c)'
      BY <2>1, PublishSolvent DEF BInv
    <2>5. QED
      BY <1>1, <2>2, <2>3, <2>4 DEF BInv
  <1>3. CASE \A q \in Request : ~Publish(q)
    <2>1. account' = account /\ outbox' = outbox
      BY <1>3, OthersStutter DEF BInv
    <2>2. \A c \in Client : Movement(c)' = Movement(c) /\ Credits(c)' = Credits(c)
      BY <2>1 DEF Movement, Credits
    <2>3. QED
      BY <1>1, <2>1, <2>2 DEF BInv, Balanced, Solvent, Guarded, Effect
  <1>4. QED
    BY <1>2, <1>3

\* The invariant holds in every reachable state.
THEOREM BalancesInvariance == Spec => []BInv
  BY BalancesInit, BalancesStep, PTL DEF Spec

\* The outbox accounts for every balance, modulo the width of the integers,
\* for any operations, lock keys, failures and crashes.
THEOREM OutboxExplains == Spec => []OutboxExplainsBalances
  <1>1. BInv => OutboxExplainsBalances
    <2> SUFFICES ASSUME BInv, NEW c \in Client
                 PROVE  (Value(account[c]) - Value(Opening[c]) - Movement(c)) % (2 * (MaxInt + 1)) = 0
      BY DEF OutboxExplainsBalances
    <2>1. PICK k \in Int : Value(account[c]) = Value(Opening[c]) + Movement(c) + k * Width
      BY DEF BInv, Balanced
    <2>2. Value(Opening[c]) \in Int /\ Movement(c) \in Int /\ Width \in Nat \ {0} /\ k * Width \in Int
      <3>1. Width \in Nat \ {0}
        BY DEF Width
      <3>2. Value(Opening[c]) \in Int
        BY DEF Value, Int64
      <3>3. Movement(c) \in Int
        BY SumsInt, SumInt DEF BInv, IInv, TypeOK, Movement
      <3>4. QED
        BY <3>1, <3>2, <3>3
    <2>3. Value(account[c]) - Value(Opening[c]) - Movement(c) = k * Width
      BY <2>1, <2>2
    <2>4. (k * Width) % Width = 0
      BY <2>2
    <2>5. QED
      BY <2>3, <2>4 DEF Width
  <1>2. QED
    BY <1>1, BalancesInvariance, PTL

\* No client spends more than it had and was given, for any number of debits
\* that race for its balance, through failures and crashes: whatever the
\* amounts, if nothing but its own checked debits takes from it and what it is
\* credited fits the integers.
THEOREM NeverOverdrawn == Spec => []NoOverdraft
  <1>1. BInv => NoOverdraft
    <2> SUFFICES ASSUME BInv, NEW c \in Client, Guarded(c),
                        Value(Opening[c]) \in 0 .. MaxInt - Credits(c)
                 PROVE  Value(Opening[c]) + Movement(c) >= 0
      BY DEF NoOverdraft
    <2>1. /\ Value(account[c]) = Value(Opening[c]) + Movement(c)
          /\ Value(account[c]) \in 0 .. Value(Opening[c]) + Credits(c)
      BY DEF BInv, Solvent
    <2>2. QED
      BY <2>1
  <1>2. QED
    BY <1>1, BalancesInvariance, PTL
=============================================================================
