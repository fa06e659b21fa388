---------------------------- MODULE OutboxProofs ----------------------------
(***************************************************************************)
(* Proofs about Outbox for any number of rows, of publishers that overlap, *)
(* of failures, and any batch size.                                        *)
(***************************************************************************)
EXTENDS Outbox, FiniteSetTheorems, TLAPS

USE OutboxAssumption

\* The rows whose transaction committed, and the messages the topic has.
Committed == {m \in Message : status[m] \in {"unpublished", "published"}}
Shown     == {m \in Message : copies[m] > 0}

\* Only committed rows are on their way to the topic, those of abandoned
\* calls included.
SendsCommitted ==
    /\ \A p \in Publisher : batch[p] \subseteq Committed
    /\ \A p \in Publisher : unsent[p] \subseteq Committed
    /\ \A p \in Publisher : flying[p] \subseteq Committed
    /\ \A m \in Message : stray[m] > 0 => m \in Committed

\* A delivery report means that the topic has the message, and a publisher
\* that marks its batch has a report for all of it.
ReportsTrue ==
    \A p \in Publisher :
        /\ acked[p] \subseteq Shown
        /\ at[p] = "marking" => batch[p] \subseteq Shown

\* The inductive invariant.
IInv == TypeOK /\ SendsCommitted /\ ReportsTrue

\* The table is empty and nothing was sent.
LEMMA InitInv == Init => IInv
  BY DEF Init, IInv, TypeOK, SendsCommitted, ReportsTrue

-----------------------------------------------------------------------------
(* Type correctness. *)

\* Giving a batch up leaves a well-typed state.
LEMMA GiveUpType ==
    ASSUME TypeOK, NEW p \in Publisher, GiveUp(p), failures' \in Nat
    PROVE  TypeOK'
  BY DEF TypeOK, GiveUp, GoTo, Unlock

\* No step of the core, a publisher or the producer leaves the types.
LEMMA TypeStep == TypeOK /\ [Next]_vars => TypeOK'
  <1> SUFFICES ASSUME TypeOK, [Next]_vars PROVE TypeOK'
    OBVIOUS
  <1> USE DEF TypeOK, GoTo, Fail, table, publisher, kafka
  <1>1. ASSUME NEW m \in Message, Begin(m) \/ CommitTx(m) \/ RollBackTx(m) PROVE TypeOK'
    BY <1>1 DEF Begin, CommitTx, RollBackTx, End
  <1>2. ASSUME NEW m \in Message, AckLost(m) \/ DeliverStray(m) PROVE TypeOK'
    <2>1. copies' \in [Message -> Nat]
      BY <1>2 DEF AckLost, DeliverStray
    <2>2. QED
      BY <1>2, <2>1 DEF AckLost, DeliverStray
  <1>3. ASSUME NEW p \in Publisher, Select(p) PROVE TypeOK'
    <2>1. PICK pick \in SUBSET Selectable :
              /\ batch' = [batch EXCEPT ![p] = pick]
              /\ rowLock' = [m \in Message |-> IF m \in pick THEN p ELSE rowLock[m]]
      BY <1>3 DEF Select
    <2>2. pick \subseteq Message
      BY DEF Selectable
    <2>3. QED
      BY <1>3, <2>1, <2>2 DEF Select
  <1>4. ASSUME NEW p \in Publisher, EndSelect(p) PROVE TypeOK'
    BY <1>4 DEF EndSelect, Unlock
  <1>5. ASSUME NEW p \in Publisher, Send(p) PROVE TypeOK'
    BY <1>5 DEF Send
  <1>6. ASSUME NEW p \in Publisher, AllDelivered(p) PROVE TypeOK'
    BY <1>6 DEF AllDelivered
  <1>7. ASSUME NEW p \in Publisher, DeliveryFailed(p) \/ GiveUpEarly(p) PROVE TypeOK'
    BY <1>7, GiveUpType DEF DeliveryFailed, GiveUpEarly
  <1>8. ASSUME NEW p \in Publisher, Mark(p) PROVE TypeOK'
    BY <1>8 DEF Mark
  <1>9. ASSUME NEW p \in Publisher, NEW m \in Message, Deliver(p, m) \/ Reject(p, m)
        PROVE  TypeOK'
    <2>1. CASE Deliver(p, m)
      BY <2>1 DEF Deliver
    <2>2. CASE Reject(p, m)
      <3>1. copies' \in [Message -> Nat]
        BY <2>2 DEF Reject
      <3>2. QED
        BY <2>2, <3>1 DEF Reject
    <2>3. QED
      BY <1>9, <2>1, <2>2
  <1>10. CASE UNCHANGED vars
    BY <1>10 DEF vars
  <1>11. QED
    BY <1>1, <1>2, <1>3, <1>4, <1>5, <1>6, <1>7, <1>8, <1>9, <1>10 DEF Next, Step

\* Every reachable state is well typed.
THEOREM TypeCorrect == Spec => []TypeOK
  <1>1. Init => TypeOK
    BY InitInv DEF IInv
  <1>2. QED
    BY <1>1, TypeStep, PTL DEF Spec

-----------------------------------------------------------------------------
(* The inductive invariant. *)

\* A committed row stays committed and a shown message stays shown.
LEMMA Monotone ==
    ASSUME TypeOK, [Next]_vars
    PROVE  Committed \subseteq Committed' /\ Shown \subseteq Shown'
  <1> USE DEF TypeOK, table, publisher, kafka, Committed, Shown
  <1>1. ASSUME NEW m \in Message,
               \/ Begin(m) \/ CommitTx(m) \/ RollBackTx(m)
               \/ AckLost(m) \/ DeliverStray(m)
        PROVE  Committed \subseteq Committed' /\ Shown \subseteq Shown'
    BY <1>1 DEF Begin, CommitTx, RollBackTx, End, AckLost, DeliverStray
  <1>2. ASSUME NEW p \in Publisher, Step(p) \/ GiveUpEarly(p)
        PROVE  Committed \subseteq Committed' /\ Shown \subseteq Shown'
    BY <1>2 DEF Step, Select, EndSelect, Send, AllDelivered, DeliveryFailed, Mark,
       GiveUpEarly, GiveUp
  <1>3. ASSUME NEW p \in Publisher, NEW m \in Message, Deliver(p, m) \/ Reject(p, m)
        PROVE  Committed \subseteq Committed' /\ Shown \subseteq Shown'
    BY <1>3 DEF Deliver, Reject
  <1>4. CASE UNCHANGED vars
    BY <1>4 DEF vars
  <1>5. QED
    BY <1>1, <1>2, <1>3, <1>4 DEF Next

\* A batch that is given up leaves its sent part to the producer.
LEMMA GiveUpInv ==
    ASSUME IInv, NEW p \in Publisher, GiveUp(p), TypeOK'
    PROVE  SendsCommitted' /\ ReportsTrue'
  <1> USE DEF IInv, TypeOK, SendsCommitted, ReportsTrue, Committed, Shown
  <1>1. status' = status /\ copies' = copies
    BY DEF GiveUp
  <1>2. \A q \in Publisher : batch'[q] \subseteq batch[q] /\ unsent'[q] \subseteq unsent[q]
                             /\ flying'[q] \subseteq flying[q] /\ acked'[q] \subseteq acked[q]
    BY DEF GiveUp
  <1>3. \A m \in Message : stray'[m] > 0 => stray[m] > 0 \/ m \in flying[p]
    BY DEF GiveUp
  <1>4. \A q \in Publisher : at'[q] = "marking" => at[q] = "marking"
    BY DEF GiveUp, GoTo
  <1>5. SendsCommitted'
    BY <1>1, <1>2, <1>3
  <1>6. ReportsTrue'
    BY <1>1, <1>2, <1>4
  <1>7. QED
    BY <1>5, <1>6

\* The invariant is inductive.
LEMMA InvStep == IInv /\ [Next]_vars => IInv'
  <1> SUFFICES ASSUME IInv, [Next]_vars PROVE SendsCommitted' /\ ReportsTrue'
    BY TypeStep DEF IInv
  <1>0. /\ TypeOK /\ TypeOK' /\ SendsCommitted /\ ReportsTrue
        /\ Committed \subseteq Committed' /\ Shown \subseteq Shown'
    BY TypeStep, Monotone DEF IInv
  <1> USE <1>0
  <1> USE DEF TypeOK, SendsCommitted, ReportsTrue, GoTo, table, publisher, kafka
  <1>1. ASSUME NEW m \in Message, Begin(m) \/ CommitTx(m) \/ RollBackTx(m)
        PROVE  SendsCommitted' /\ ReportsTrue'
    BY <1>1 DEF Begin, CommitTx, RollBackTx, End
  <1>2. ASSUME NEW m \in Message, AckLost(m) \/ DeliverStray(m)
        PROVE  SendsCommitted' /\ ReportsTrue'
    BY <1>2 DEF AckLost, DeliverStray
  <1>3. ASSUME NEW p \in Publisher, Select(p)
        PROVE  SendsCommitted' /\ ReportsTrue'
    <2>1. PICK pick \in SUBSET Selectable : batch' = [batch EXCEPT ![p] = pick]
      BY <1>3 DEF Select
    <2>2. pick \subseteq Committed
      BY DEF Selectable, Committed
    <2>3. QED
      BY <1>3, <2>1, <2>2 DEF Select
  <1>4. ASSUME NEW p \in Publisher, EndSelect(p)
        PROVE  SendsCommitted' /\ ReportsTrue'
    BY <1>4 DEF EndSelect
  <1>5. ASSUME NEW p \in Publisher, Send(p)
        PROVE  SendsCommitted' /\ ReportsTrue'
    BY <1>5 DEF Send
  <1>6. ASSUME NEW p \in Publisher, AllDelivered(p)
        PROVE  SendsCommitted' /\ ReportsTrue'
    BY <1>6 DEF AllDelivered
  <1>7. ASSUME NEW p \in Publisher, DeliveryFailed(p) \/ GiveUpEarly(p)
        PROVE  SendsCommitted' /\ ReportsTrue'
    BY <1>7, GiveUpInv DEF DeliveryFailed, GiveUpEarly, IInv
  <1>8. ASSUME NEW p \in Publisher, Mark(p)
        PROVE  SendsCommitted' /\ ReportsTrue'
    BY <1>8 DEF Mark
  <1>9. ASSUME NEW p \in Publisher, NEW m \in Message, Deliver(p, m)
        PROVE  SendsCommitted' /\ ReportsTrue'
    <2>1. m \in Shown'
      BY <1>9 DEF Deliver, Shown
    <2>2. QED
      BY <1>9, <2>1 DEF Deliver
  <1>10. ASSUME NEW p \in Publisher, NEW m \in Message, Reject(p, m)
        PROVE  SendsCommitted' /\ ReportsTrue'
    BY <1>10 DEF Reject
  <1>11. CASE UNCHANGED vars
    BY <1>11 DEF vars
  <1>12. QED
    BY <1>1, <1>2, <1>3, <1>4, <1>5, <1>6, <1>7, <1>8, <1>9, <1>10, <1>11 DEF Next, Step

\* The inductive invariant holds in every reachable state.
THEOREM Invariance == Spec => []IInv
  BY InitInv, InvStep, PTL DEF Spec

-----------------------------------------------------------------------------
(* Outbox implements AtLeastOnce. *)

\* Publishing implements AtLeastOnce: no message of a rolled-back transaction
\* is ever sent and no row is marked before its message is in the topic.
THEOREM Refinement == Spec => ImplementsAtLeastOnce
  <1> DEFINE Marked == {m \in Message : status[m] = "published"}
             mapped == <<Committed, Shown, Marked>>
  <1>1. Init => Promise!Init
    BY DEF Init, Promise!Init
  <1>2. IInv /\ [Next]_vars => [Promise!Next]_mapped
    <2> SUFFICES ASSUME IInv, [Next]_vars PROVE [Promise!Next]_mapped
      OBVIOUS
    <2> USE DEF IInv, TypeOK, Committed, Shown, table, publisher, kafka
    <2>1. ASSUME NEW m \in Message, Begin(m) \/ RollBackTx(m) PROVE mapped' = mapped
      BY <2>1 DEF Begin, RollBackTx, End
    <2>2. ASSUME NEW m \in Message, CommitTx(m) PROVE Promise!Accept(m)
      BY <2>2 DEF CommitTx, End, Promise!Accept
    <2>3. ASSUME NEW m \in Message, m \in Committed, status' = status,
                 \E stored \in {0, 1} : copies' = [copies EXCEPT ![m] = @ + stored]
          PROVE  mapped' = mapped \/ Promise!Show(m)
      BY <2>3 DEF Promise!Show
    <2>4. ASSUME NEW m \in Message, AckLost(m) \/ DeliverStray(m)
          PROVE  mapped' = mapped \/ Promise!Show(m)
      BY <2>4, <2>3 DEF AckLost, DeliverStray, SendsCommitted
    <2>5. ASSUME NEW p \in Publisher, NEW m \in Message, Deliver(p, m) \/ Reject(p, m)
          PROVE  mapped' = mapped \/ Promise!Show(m)
      BY <2>5, <2>3 DEF Deliver, Reject, SendsCommitted
    <2>6. ASSUME NEW p \in Publisher, Mark(p) PROVE Promise!Confirm(batch[p])
      BY <2>6 DEF Mark, SendsCommitted, ReportsTrue, Promise!Confirm
    <2>7. ASSUME NEW p \in Publisher,
                 \/ Select(p) \/ EndSelect(p) \/ Send(p) \/ AllDelivered(p)
                 \/ DeliveryFailed(p) \/ GiveUpEarly(p)
          PROVE  mapped' = mapped
      BY <2>7 DEF Select, EndSelect, Send, AllDelivered, DeliveryFailed, GiveUpEarly, GiveUp
    <2>8. CASE UNCHANGED vars
      BY <2>8 DEF vars
    <2>9. CASE \E m \in Message : \/ Begin(m) \/ CommitTx(m) \/ RollBackTx(m)
                                  \/ AckLost(m) \/ DeliverStray(m)
      <3>1. mapped' = mapped \/ \E m \in Message : Promise!Accept(m) \/ Promise!Show(m)
        <4> HIDE DEF mapped
        <4>1. QED
          BY <2>9, <2>1, <2>2, <2>4, Zenon
      <3>2. QED
        BY <3>1, Zenon DEF Promise!Next
    <2>10. CASE \E p \in Publisher, m \in Message : Deliver(p, m) \/ Reject(p, m)
      <3>1. mapped' = mapped \/ \E m \in Message : Promise!Show(m)
        <4> HIDE DEF mapped
        <4>1. QED
          BY <2>10, <2>5, Zenon
      <3>2. QED
        BY <3>1, Zenon DEF Promise!Next
    <2>11. CASE \E p \in Publisher : Mark(p)
      <3>1. PICK p \in Publisher : Mark(p)
        BY <2>11
      <3>2. batch[p] \in SUBSET Message /\ Promise!Confirm(batch[p])
        BY <3>1, <2>6
      <3>3. \E rows \in SUBSET Message : Promise!Confirm(rows)
        BY <3>2 DEF Promise!Confirm
      <3>4. QED
        BY <3>3, Zenon DEF Promise!Next
    <2>12. CASE \E p \in Publisher :
                   \/ Select(p) \/ EndSelect(p) \/ Send(p) \/ AllDelivered(p)
                   \/ DeliveryFailed(p) \/ GiveUpEarly(p)
      <3>1. mapped' = mapped
        <4> HIDE DEF mapped
        <4>1. QED
          BY <2>12, <2>7, Zenon
      <3>2. QED
        BY <3>1, Zenon
    <2>13. QED
      <3> HIDE DEF mapped, IInv, TypeOK, Committed, Shown
      <3>1. QED
        BY <2>8, <2>9, <2>10, <2>11, <2>12, Zenon DEF Next, Step
  <1>3. QED
    BY <1>1, <1>2, Invariance, PTL
    DEF Spec, ImplementsAtLeastOnce, Promise!Spec, Committed, Shown
-----------------------------------------------------------------------------
(* How often a message is repeated. *)

\* The sending publishers of a message: those whose call of Produce has it.
Flyers(m) == {p \in Publisher : m \in flying[p]}

\* The publishers to which the broker has reported an error.
Failing == {p \in Publisher : failed[p]}

\* The publishers that have used their one free copy of a message: the row is
\* marked and can not be selected again, or they have handed it over already.
Spent(m) ==
    {p \in Publisher :
        \/ m \in batch[p] /\ m \notin unsent[p] /\ at[p] \notin {"idle", "selected"}
        \/ m \notin batch[p] /\ status[m] = "published"}

\* A publisher has a batch while it is not idle, and rows of it to send only
\* in the loop that sends them.
UnsentInBatch ==
    \A p \in Publisher :
        /\ at[p] = "idle" => batch[p] = {}
        /\ unsent[p] \subseteq batch[p]
        /\ at[p] # "producing" => unsent[p] = {}

\* Copies of a message, and those that may still arrive, are paid for by a
\* failure or by a publisher that has spent its free copy.  A failure that a
\* publisher has yet to act on is held back, for the copy it will cost.
CopiesPaid ==
    \A m \in Message :
        copies[m] + stray[m] + Cardinality(Flyers(m)) + Cardinality(Failing)
            <= failures + Cardinality(Spent(m))

\* Sets of publishers are finite, and their sizes are compared one publisher
\* at a time.
LEMMA Counting ==
    ASSUME NEW S \in SUBSET Publisher, NEW T \in SUBSET Publisher
    PROVE  /\ Cardinality(S) \in Nat /\ Cardinality(T) \in Nat
           /\ Cardinality(S) <= Cardinality(Publisher)
           /\ S \subseteq T => Cardinality(S) <= Cardinality(T)
           /\ \A p \in Publisher : S \subseteq T \cup {p} => Cardinality(S) <= Cardinality(T) + 1
           /\ \A p \in T : S \subseteq T \ {p} => Cardinality(S) + 1 <= Cardinality(T)
  <1>0. IsFiniteSet(Publisher) /\ IsFiniteSet(S) /\ IsFiniteSet(T)
    BY FS_Subset
  <1>1. Cardinality(S) \in Nat /\ Cardinality(T) \in Nat
    BY <1>0, FS_CardinalityType
  <1>2. Cardinality(S) <= Cardinality(Publisher)
    BY <1>0, FS_Subset
  <1>3. S \subseteq T => Cardinality(S) <= Cardinality(T)
    BY <1>0, FS_Subset
  <1>4. ASSUME NEW p \in Publisher, S \subseteq T \cup {p}
        PROVE  Cardinality(S) <= Cardinality(T) + 1
    <2>0. /\ IsFiniteSet(T \cup {p})
          /\ Cardinality(T \cup {p}) = IF p \in T THEN Cardinality(T) ELSE Cardinality(T) + 1
      BY <1>0, FS_AddElement
    <2>1. IsFiniteSet(T \cup {p}) /\ Cardinality(T \cup {p}) <= Cardinality(T) + 1
      BY <2>0, <1>1
    <2>2. Cardinality(S) <= Cardinality(T \cup {p})
      BY <1>4, <2>1, FS_Subset
    <2>3. Cardinality(T \cup {p}) \in Nat
      BY <2>1, FS_CardinalityType
    <2>4. QED
      BY <1>1, <2>1, <2>2, <2>3
  <1>5. ASSUME NEW p \in T, S \subseteq T \ {p}
        PROVE  Cardinality(S) + 1 <= Cardinality(T)
    <2>1. IsFiniteSet(T \ {p}) /\ Cardinality(T \ {p}) = Cardinality(T) - 1
      BY <1>0, FS_RemoveElement
    <2>2. Cardinality(S) <= Cardinality(T \ {p})
      BY <1>5, <2>1, FS_Subset
    <2>3. QED
      BY <1>1, <2>1, <2>2
  <1>6. QED
    BY <1>1, <1>2, <1>3, <1>4, <1>5

\* The batches stay in order.
LEMMA UnsentStep == IInv /\ UnsentInBatch /\ [Next]_vars => UnsentInBatch'
  <1> SUFFICES ASSUME IInv, UnsentInBatch, [Next]_vars PROVE UnsentInBatch'
    OBVIOUS
  <1> USE DEF IInv, TypeOK, UnsentInBatch, GoTo, table, publisher, kafka
  <1>1. ASSUME NEW m \in Message,
               \/ Begin(m) \/ CommitTx(m) \/ RollBackTx(m)
               \/ AckLost(m) \/ DeliverStray(m)
        PROVE  UnsentInBatch'
    BY <1>1 DEF Begin, CommitTx, RollBackTx, End, AckLost, DeliverStray
  <1>2. ASSUME NEW p \in Publisher, Select(p) \/ EndSelect(p)
        PROVE  UnsentInBatch'
    BY <1>2 DEF Select, EndSelect
  <1>3. ASSUME NEW p \in Publisher, Send(p)
        PROVE  UnsentInBatch'
    BY <1>3 DEF Send
  <1>4. ASSUME NEW p \in Publisher, AllDelivered(p) \/ Mark(p)
        PROVE  UnsentInBatch'
    BY <1>4 DEF AllDelivered, Mark
  <1>5. ASSUME NEW p \in Publisher, DeliveryFailed(p) \/ GiveUpEarly(p)
        PROVE  UnsentInBatch'
    BY <1>5 DEF DeliveryFailed, GiveUpEarly, GiveUp
  <1>6. ASSUME NEW p \in Publisher, NEW m \in Message, Deliver(p, m) \/ Reject(p, m)
        PROVE  UnsentInBatch'
    BY <1>6 DEF Deliver, Reject
  <1>7. CASE UNCHANGED vars
    BY <1>7 DEF vars
  <1>8. QED
    BY <1>1, <1>2, <1>3, <1>4, <1>5, <1>6, <1>7 DEF Next, Step

\* A batch that is given up turns what is in flight into abandoned messages.
\* Its publisher may send the row again, which takes back at most one free
\* copy.
LEMMA GiveUpCosts ==
    ASSUME IInv, NEW p \in Publisher, GiveUp(p), NEW m \in Message
    PROVE  /\ copies'[m] = copies[m]
           /\ stray'[m] + Cardinality(Flyers(m)') <= stray[m] + Cardinality(Flyers(m))
           /\ Failing' \subseteq Failing /\ p \notin Failing'
           /\ Spent(m) \subseteq Spent(m)' \cup {p}
  <1> USE DEF IInv, TypeOK, GiveUp
  <1>1. copies'[m] = copies[m]
    OBVIOUS
  <1>2. stray'[m] + Cardinality(Flyers(m)') <= stray[m] + Cardinality(Flyers(m))
    <2>1. Flyers(m) \in SUBSET Publisher /\ Flyers(m)' \in SUBSET Publisher
      BY DEF Flyers
    <2>2. Flyers(m)' \subseteq Flyers(m) \ {p}
      BY DEF Flyers
    <2>3. CASE p \in Flyers(m)
      <3>1. stray'[m] = stray[m] + 1
        BY <2>3 DEF Flyers
      <3>2. Cardinality(Flyers(m)') + 1 <= Cardinality(Flyers(m))
        BY <2>1, <2>2, <2>3, Counting
      <3>3. QED
        BY <2>1, <3>1, <3>2, Counting
    <2>4. CASE p \notin Flyers(m)
      <3>1. stray'[m] = stray[m]
        BY <2>4 DEF Flyers
      <3>2. Cardinality(Flyers(m)') <= Cardinality(Flyers(m))
        BY <2>1, <2>2, Counting
      <3>3. QED
        BY <2>1, <3>1, <3>2, Counting
    <2>5. QED
      BY <2>3, <2>4
  <1>3. Failing' \subseteq Failing /\ p \notin Failing'
    BY DEF Failing
  <1>4. Spent(m) \subseteq Spent(m)' \cup {p}
    BY DEF Spent, GoTo
  <1>5. QED
    BY <1>1, <1>2, <1>3, <1>4

\* Every copy stays paid for.
LEMMA CopiesStep == IInv /\ UnsentInBatch /\ CopiesPaid /\ [Next]_vars => CopiesPaid'
  <1> SUFFICES ASSUME IInv, UnsentInBatch, CopiesPaid, [Next]_vars, NEW m \in Message
               PROVE  copies'[m] + stray'[m] + Cardinality(Flyers(m)') + Cardinality(Failing')
                          <= failures' + Cardinality(Spent(m)')
    BY DEF CopiesPaid
  <1> DEFINE Paid == copies'[m] + stray'[m] + Cardinality(Flyers(m)') + Cardinality(Failing')
                         <= failures' + Cardinality(Spent(m)')
  <1>0. copies[m] + stray[m] + Cardinality(Flyers(m)) + Cardinality(Failing)
            <= failures + Cardinality(Spent(m))
    BY DEF CopiesPaid
  <1>t. TypeOK /\ TypeOK'
    BY TypeStep DEF IInv
  <1>f. /\ Flyers(m) \in SUBSET Publisher /\ Flyers(m)' \in SUBSET Publisher
        /\ Failing \in SUBSET Publisher /\ Failing' \in SUBSET Publisher
        /\ Spent(m) \in SUBSET Publisher /\ Spent(m)' \in SUBSET Publisher
    BY DEF Flyers, Failing, Spent
  <1>n. /\ copies[m] \in Nat /\ stray[m] \in Nat /\ failures \in Nat
        /\ copies'[m] \in Nat /\ stray'[m] \in Nat /\ failures' \in Nat
        /\ Cardinality(Flyers(m)) \in Nat /\ Cardinality(Flyers(m)') \in Nat
        /\ Cardinality(Failing) \in Nat /\ Cardinality(Failing') \in Nat
        /\ Cardinality(Spent(m)) \in Nat /\ Cardinality(Spent(m)') \in Nat
    BY <1>t, <1>f, Counting DEF TypeOK
  <1> USE DEF TypeOK, table, publisher, kafka
  \* What is sent and counted stays, and no free copy comes back.
  <1>q. ASSUME copies' = copies, stray' = stray, failures' = failures, failed' = failed,
               flying' = flying, Spent(m) \subseteq Spent(m)'
        PROVE  Paid
    <2>1. Flyers(m)' = Flyers(m) /\ Failing' = Failing
      BY <1>q DEF Flyers, Failing
    <2>2. Cardinality(Spent(m)) <= Cardinality(Spent(m)')
      BY <1>q, <1>f, Counting
    <2>3. QED
      BY <1>0, <1>n, <1>q, <2>1, <2>2
  <1>1. ASSUME NEW n \in Message, Begin(n) \/ CommitTx(n) \/ RollBackTx(n)
        PROVE  Paid
    <2>1. Spent(m) \subseteq Spent(m)'
      BY <1>1, <1>t DEF Spent, Begin, CommitTx, RollBackTx, End
    <2>2. QED
      BY <1>1, <2>1, <1>q DEF Begin, CommitTx, RollBackTx, End
  <1>2. ASSUME NEW n \in Message, DeliverStray(n)
        PROVE  Paid
    <2>1. copies'[m] + stray'[m] <= copies[m] + stray[m]
      BY <1>2, <1>t DEF DeliverStray
    <2>2. Flyers(m)' = Flyers(m) /\ Failing' = Failing /\ Spent(m)' = Spent(m)
          /\ failures' = failures
      BY <1>2 DEF Flyers, Failing, Spent, DeliverStray
    <2>3. QED
      BY <1>0, <1>n, <2>1, <2>2
  <1>l. ASSUME NEW n \in Message, AckLost(n)
        PROVE  Paid
    <2>1. /\ copies'[m] <= copies[m] + 1 /\ stray'[m] = stray[m]
          /\ failures' = failures + 1
      BY <1>l, <1>t DEF AckLost, Fail
    <2>2. Flyers(m)' = Flyers(m) /\ Failing' = Failing /\ Spent(m)' = Spent(m)
      BY <1>l DEF Flyers, Failing, Spent, AckLost
    <2>3. QED
      BY <1>0, <1>n, <2>1, <2>2
  <1>3. ASSUME NEW p \in Publisher, Select(p)
        PROVE  Paid
    <2>1. PICK pick \in SUBSET Selectable : batch' = [batch EXCEPT ![p] = pick]
      BY <1>3 DEF Select
    <2>2. \A n \in pick : status[n] # "published"
      BY <2>1 DEF Selectable
    <2>3. at[p] = "idle" /\ batch[p] = {} /\ at' = [at EXCEPT ![p] = "selected"]
          /\ status' = status /\ unsent' = unsent
      BY <1>3 DEF Select, GoTo, UnsentInBatch
    <2>4. ASSUME NEW q \in Spent(m) PROVE q \in Spent(m)'
      <3>1. CASE q = p
        BY <1>t, <2>1, <2>2, <2>3, <3>1 DEF Spent
      <3>2. CASE q # p
        BY <1>t, <2>1, <2>3, <3>2 DEF Spent
      <3>3. QED
        BY <3>1, <3>2
    <2>5. QED
      BY <1>3, <2>4, <1>q DEF Select
  <1>4. ASSUME NEW p \in Publisher, EndSelect(p) \/ AllDelivered(p)
        PROVE  Paid
    <2>1. Spent(m) \subseteq Spent(m)'
      BY <1>4, <1>t DEF Spent, EndSelect, AllDelivered, GoTo
    <2>2. QED
      BY <1>4, <2>1, <1>q DEF EndSelect, AllDelivered
  <1>5. ASSUME NEW p \in Publisher, Mark(p)
        PROVE  Paid
    <2>1. Spent(m) \subseteq Spent(m)'
      BY <1>5, <1>t DEF Spent, Mark, GoTo
    <2>2. QED
      BY <1>5, <2>1, <1>q DEF Mark
  <1>6. ASSUME NEW p \in Publisher, Send(p)
        PROVE  Paid
    <2>1. PICK n \in unsent[p] :
              /\ unsent' = [unsent EXCEPT ![p] = @ \ {n}]
              /\ flying' = [flying EXCEPT ![p] = @ \cup {n}]
              /\ GoTo(p, IF unsent[p] = {n} THEN "waiting" ELSE "producing")
      BY <1>6 DEF Send
    <2>2. /\ copies' = copies /\ stray' = stray /\ failures' = failures /\ failed' = failed
          /\ batch' = batch /\ status' = status /\ at[p] = "producing"
          /\ n \in batch[p] /\ n \in Message
      BY <1>6, <1>t, <2>1 DEF Send, UnsentInBatch
    <2>3. Failing' = Failing
      BY <2>2 DEF Failing
    <2>4. Spent(m) \subseteq Spent(m)'
      BY <1>t, <2>1, <2>2 DEF Spent, GoTo
    <2>5. CASE n = m
      <3>1. Flyers(m)' \subseteq Flyers(m) \cup {p}
        BY <1>t, <2>1, <2>5 DEF Flyers
      <3>2. p \in Spent(m)' /\ p \notin Spent(m)
        BY <1>t, <2>1, <2>2, <2>5 DEF Spent, GoTo
      <3>3. Cardinality(Flyers(m)') <= Cardinality(Flyers(m)) + 1
        BY <1>f, <3>1, Counting
      <3>4. Cardinality(Spent(m)) + 1 <= Cardinality(Spent(m)')
        BY <1>f, <2>4, <3>2, Counting
      <3>5. QED
        BY <1>0, <1>n, <2>2, <2>3, <3>3, <3>4
    <2>6. CASE n # m
      <3>1. Flyers(m)' = Flyers(m)
        BY <1>t, <2>1, <2>6 DEF Flyers
      <3>2. Cardinality(Spent(m)) <= Cardinality(Spent(m)')
        BY <1>f, <2>4, Counting
      <3>3. QED
        BY <1>0, <1>n, <2>2, <2>3, <3>1, <3>2
    <2>7. QED
      BY <2>5, <2>6
  <1>7. ASSUME NEW p \in Publisher, DeliveryFailed(p) \/ GiveUpEarly(p)
        PROVE  Paid
    <2>1. GiveUp(p)
      BY <1>7 DEF DeliveryFailed, GiveUpEarly
    <2>2. /\ copies'[m] = copies[m]
          /\ stray'[m] + Cardinality(Flyers(m)') <= stray[m] + Cardinality(Flyers(m))
          /\ Failing' \subseteq Failing /\ p \notin Failing'
          /\ Spent(m) \subseteq Spent(m)' \cup {p}
      BY <2>1, GiveUpCosts
    <2>3. Cardinality(Spent(m)) <= Cardinality(Spent(m)') + 1
      BY <1>f, <2>2, Counting
    <2>4. CASE DeliveryFailed(p)
      <3>1. p \in Failing /\ failures' = failures
        BY <2>4 DEF DeliveryFailed, Failing
      <3>2. Cardinality(Failing') + 1 <= Cardinality(Failing)
        BY <1>f, <2>2, <3>1, Counting
      <3>3. QED
        BY <1>0, <1>n, <2>2, <2>3, <3>1, <3>2
    <2>5. CASE GiveUpEarly(p)
      <3>1. failures' = failures + 1
        BY <2>5 DEF GiveUpEarly, Fail
      <3>2. Cardinality(Failing') <= Cardinality(Failing)
        BY <1>f, <2>2, Counting
      <3>3. QED
        BY <1>0, <1>n, <2>2, <2>3, <3>1, <3>2
    <2>6. QED
      BY <1>7, <2>4, <2>5
  <1>8. ASSUME NEW p \in Publisher, NEW n \in Message, Deliver(p, n) \/ Reject(p, n)
        PROVE  Paid
    <2>1. /\ flying' = [flying EXCEPT ![p] = @ \ {n}] /\ n \in flying[p]
          /\ stray' = stray /\ Spent(m)' = Spent(m)
      BY <1>8 DEF Deliver, Reject, Spent
    <2>2. copies'[m] + Cardinality(Flyers(m)') <= copies[m] + Cardinality(Flyers(m))
      <3>1. CASE n = m
        <4>1. copies'[m] <= copies[m] + 1
          BY <1>8, <1>t, <3>1 DEF Deliver, Reject
        <4>2. p \in Flyers(m) /\ Flyers(m)' \subseteq Flyers(m) \ {p}
          BY <1>t, <2>1, <3>1 DEF Flyers
        <4>3. Cardinality(Flyers(m)') + 1 <= Cardinality(Flyers(m))
          BY <1>f, <4>2, Counting
        <4>4. QED
          BY <1>n, <4>1, <4>3
      <3>2. CASE n # m
        <4>1. copies'[m] = copies[m]
          BY <1>8, <1>t, <3>2 DEF Deliver, Reject
        <4>2. Flyers(m)' = Flyers(m)
          BY <1>t, <2>1, <3>2 DEF Flyers
        <4>3. QED
          BY <1>n, <4>1, <4>2
      <3>3. QED
        BY <3>1, <3>2
    <2>3. Cardinality(Failing') + failures <= Cardinality(Failing) + failures'
      <3>1. CASE Deliver(p, n)
        BY <1>n, <3>1 DEF Deliver, Failing
      <3>2. CASE Reject(p, n)
        <4>1. Failing' \subseteq Failing \cup {p}
          BY <1>t, <3>2 DEF Reject, Failing
        <4>2. failures' = failures + 1
          BY <3>2 DEF Reject, Fail
        <4>3. Cardinality(Failing') <= Cardinality(Failing) + 1
          BY <1>f, <4>1, Counting
        <4>4. QED
          BY <1>n, <4>2, <4>3
      <3>3. QED
        BY <1>8, <3>1, <3>2
    <2>4. QED
      BY <1>0, <1>n, <2>1, <2>2, <2>3
  <1>9. CASE UNCHANGED vars
    <2>1. Spent(m) \subseteq Spent(m)'
      BY <1>9 DEF vars, Spent
    <2>2. QED
      BY <1>9, <2>1, <1>q DEF vars
  <1>10. QED
    <2> HIDE DEF TypeOK, table, publisher, kafka
    <2>1. CASE Next
      <3>1. CASE \E n \in Message : \/ Begin(n) \/ CommitTx(n) \/ RollBackTx(n)
                                    \/ AckLost(n) \/ DeliverStray(n)
        BY <3>1, <1>1, <1>2, <1>l
      <3>2. CASE \E p \in Publisher, n \in Message : Deliver(p, n) \/ Reject(p, n)
        BY <3>2, <1>8
      <3>3. CASE \E p \in Publisher : Step(p) \/ GiveUpEarly(p)
        BY <3>3, <1>3, <1>4, <1>5, <1>6, <1>7 DEF Step
      <3>4. QED
        BY <2>1, <3>1, <3>2, <3>3, Zenon DEF Next
    <2>2. QED
      BY <2>1, <1>9

\* No message is in the topic more often than there are publishers and were
\* failures, for any numbers of both.
THEOREM RepeatsAreBounded == Spec => []RepeatsHaveACause
  <1>1. Init => UnsentInBatch /\ CopiesPaid
    <2> SUFFICES ASSUME Init PROVE UnsentInBatch /\ CopiesPaid
      OBVIOUS
    <2>1. UnsentInBatch
      BY DEF Init, UnsentInBatch
    <2>2. ASSUME NEW m \in Message PROVE Flyers(m) = {} /\ Failing = {} /\ Spent(m) = {}
      BY DEF Init, Flyers, Failing, Spent
    <2>3. CopiesPaid
      BY <2>2, FS_EmptySet DEF Init, CopiesPaid
    <2>4. QED
      BY <2>1, <2>3
  <1>2. IInv /\ CopiesPaid => RepeatsHaveACause
    <2> SUFFICES ASSUME IInv, CopiesPaid, NEW m \in Message
                 PROVE  copies[m] <= Cardinality(Publisher) + failures
      BY DEF RepeatsHaveACause
    <2>1. Flyers(m) \in SUBSET Publisher /\ Failing \in SUBSET Publisher
          /\ Spent(m) \in SUBSET Publisher /\ Publisher \in SUBSET Publisher
      BY DEF Flyers, Failing, Spent
    <2>2. /\ Cardinality(Flyers(m)) \in Nat /\ Cardinality(Failing) \in Nat
          /\ Cardinality(Spent(m)) \in Nat /\ Cardinality(Publisher) \in Nat
          /\ Cardinality(Spent(m)) <= Cardinality(Publisher)
      BY <2>1, Counting
    <2>3. QED
      BY <2>2 DEF CopiesPaid, IInv, TypeOK
  <1>3. QED
    BY <1>1, <1>2, Invariance, InvStep, UnsentStep, CopiesStep, PTL DEF Spec
=============================================================================
