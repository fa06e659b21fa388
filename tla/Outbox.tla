------------------------------- MODULE Outbox -------------------------------
(***************************************************************************)
(* The transactional outbox of processing_core: KafkaOutboxPublisher.Run   *)
(* with the table outbox it reads and the Kafka producer it writes to.     *)
(* Every 500 ms it reads the oldest unpublished rows in one transaction,   *)
(* sends them, waits for the delivery report of each, and marks them in a  *)
(* second transaction.  Any failure gives the batch up until a later tick. *)
(*                                                                         *)
(* A message is one outbox row.  Its transaction begins (which fixes the   *)
(* row's created_at, DEFAULT now()), and commits or rolls back later, so   *)
(* rows become visible out of the order of created_at.                     *)
(***************************************************************************)
EXTENDS Naturals, FiniteSets

CONSTANTS
    Message,    \* rows the core will insert
    Publisher,  \* running publishers: one, or two while processes overlap
    NoOne,      \* the row is not locked
    Limit,      \* rows per batch (500)
    MaxFailures \* bound: failed calls and crashes

ASSUME OutboxAssumption ==
    /\ NoOne \notin Publisher
    /\ IsFiniteSet(Publisher)
    /\ Limit \in Nat \ {0}
    /\ MaxFailures \in Nat

VARIABLES
    \* the table outbox
    status,   \* absent, open (uncommitted), aborted, unpublished, published
    stamp,    \* created_at
    clock,    \* the next value of now()
    rowLock,  \* FOR UPDATE locks
    \* each publisher
    at,       \* where Publish is
    batch,    \* msgs
    unsent,   \* rows of the batch not handed to the producer yet
    acked,    \* delivery reports without an error
    failed,   \* a delivery report with an error has arrived
    \* the Kafka producer and the topic
    flying,   \* messages of the publisher's current call of Produce
    stray,    \* messages of abandoned calls that may still reach the topic
    copies,   \* how often the topic has each message
    failures  \* failures so far

table     == <<status, stamp, clock, rowLock>>
publisher == <<at, batch, unsent, acked, failed>>
kafka     == <<flying, stray, copies>>
vars      == <<table, publisher, kafka, failures>>

Init ==
    /\ status = [m \in Message |-> "absent"]
    /\ stamp = [m \in Message |-> 0]
    /\ clock = 1
    /\ rowLock = [m \in Message |-> NoOne]
    /\ at = [p \in Publisher |-> "idle"]
    /\ batch = [p \in Publisher |-> {}]
    /\ unsent = [p \in Publisher |-> {}]
    /\ acked = [p \in Publisher |-> {}]
    /\ failed = [p \in Publisher |-> FALSE]
    /\ flying = [p \in Publisher |-> {}]
    /\ stray = [m \in Message |-> 0]
    /\ copies = [m \in Message |-> 0]
    /\ failures = 0

-----------------------------------------------------------------------------
(* Transactions of the core, which insert the rows (AppendOutbox). *)

Begin(m) ==
    /\ status[m] = "absent"
    /\ status' = [status EXCEPT ![m] = "open"]
    /\ stamp' = [stamp EXCEPT ![m] = clock]
    /\ clock' = clock + 1
    /\ UNCHANGED <<rowLock, publisher, kafka, failures>>

End(m, outcome) ==
    /\ status[m] = "open"
    /\ status' = [status EXCEPT ![m] = outcome]
    /\ UNCHANGED <<stamp, clock, rowLock, publisher, kafka, failures>>

CommitTx(m) == End(m, "unpublished")
RollBackTx(m) == End(m, "aborted")

-----------------------------------------------------------------------------
(* Publish. *)

GoTo(p, place) == at' = [at EXCEPT ![p] = place]

Unlock(p) == rowLock' = [m \in Message |-> IF rowLock[m] = p THEN NoOne ELSE rowLock[m]]

Fail ==
    /\ failures < MaxFailures
    /\ failures' = failures + 1

\* Variant of GiveUp: Run returns the error and the publisher is gone.
GiveUpForGood(p) ==
    /\ GoTo(p, "stopped")
    /\ batch' = [batch EXCEPT ![p] = {}]
    /\ unsent' = [unsent EXCEPT ![p] = {}]
    /\ acked' = [acked EXCEPT ![p] = {}]
    /\ failed' = [failed EXCEPT ![p] = FALSE]
    /\ flying' = [flying EXCEPT ![p] = {}]
    /\ stray' = [m \in Message |-> IF m \in flying[p] THEN stray[m] + 1 ELSE stray[m]]
    /\ Unlock(p)
    /\ UNCHANGED <<status, stamp, clock, copies>>

\* An error goes up to Run, which waits for the next tick.  What was sent
\* stays with the producer, its reports go to a channel nobody reads.
GiveUp(p) ==
    /\ GoTo(p, "idle")
    /\ batch' = [batch EXCEPT ![p] = {}]
    /\ unsent' = [unsent EXCEPT ![p] = {}]
    /\ acked' = [acked EXCEPT ![p] = {}]
    /\ failed' = [failed EXCEPT ![p] = FALSE]
    /\ flying' = [flying EXCEPT ![p] = {}]
    /\ stray' = [m \in Message |-> IF m \in flying[p] THEN stray[m] + 1 ELSE stray[m]]
    /\ Unlock(p)
    /\ UNCHANGED <<status, stamp, clock, copies>>

\* Variant of Selectable: without published = false.
SelectableAgain ==
    {m \in Message : status[m] \in {"unpublished", "published"} /\ rowLock[m] = NoOne}

\* Variant of Selectable: rows after the newest one published.
SelectableAfter ==
    {m \in Message : /\ status[m] = "unpublished" /\ rowLock[m] = NoOne
                     /\ \A n \in Message : status[n] = "published" => stamp[n] < stamp[m]}

\* Rows that SKIP LOCKED leaves to a SELECT ... FOR UPDATE.
Selectable == {m \in Message : status[m] = "unpublished" /\ rowLock[m] = NoOne}

\* The oldest rows, Limit of them or all there are.
Oldest(rows, pick) ==
    /\ \A m \in pick : \A n \in rows \ pick : stamp[m] < stamp[n]
    /\ \/ pick = rows /\ Cardinality(rows) <= Limit
       \/ Cardinality(pick) = Limit

\* GetUnpublishedMessages, in a transaction that is still open.
Select(p) ==
    /\ at[p] = "idle"
    /\ \E pick \in SUBSET Selectable :
           /\ Oldest(Selectable, pick)
           /\ batch' = [batch EXCEPT ![p] = pick]
           /\ rowLock' = [m \in Message |-> IF m \in pick THEN p ELSE rowLock[m]]
    /\ GoTo(p, "selected")
    /\ UNCHANGED <<status, stamp, clock, unsent, acked, failed, kafka, failures>>

\* That transaction commits and its row locks are gone.
EndSelect(p) ==
    /\ at[p] = "selected"
    /\ Unlock(p)
    /\ unsent' = [unsent EXCEPT ![p] = batch[p]]
    /\ GoTo(p, IF batch[p] = {} THEN "idle" ELSE "producing")
    /\ UNCHANGED <<status, stamp, clock, batch, acked, failed, kafka, failures>>

\* producer.Produce of the next row.
Send(p) ==
    /\ at[p] = "producing"
    /\ \E m \in unsent[p] :
           /\ \A n \in unsent[p] : stamp[m] <= stamp[n]
           /\ unsent' = [unsent EXCEPT ![p] = @ \ {m}]
           /\ flying' = [flying EXCEPT ![p] = @ \cup {m}]
           /\ GoTo(p, IF unsent[p] = {m} THEN "waiting" ELSE "producing")
    /\ UNCHANGED <<table, batch, acked, failed, stray, copies, failures>>

\* Variant of AllDelivered: does not wait for the delivery reports.
AllSent(p) ==
    /\ at[p] = "waiting"
    /\ GoTo(p, "marking")
    /\ UNCHANGED <<table, batch, unsent, acked, failed, kafka, failures>>

\* All delivery reports are in and none is an error.
AllDelivered(p) ==
    /\ at[p] = "waiting"
    /\ acked[p] = batch[p]
    /\ GoTo(p, "marking")
    /\ UNCHANGED <<table, batch, unsent, acked, failed, kafka, failures>>

\* The first report with an error ends the wait.
DeliveryFailed(p) ==
    /\ at[p] = "waiting"
    /\ failed[p]
    /\ GiveUp(p)
    /\ UNCHANGED failures

\* MarkMessagesAsProcessed: the UPDATE waits for row locks, then commits.
Mark(p) ==
    /\ at[p] = "marking"
    /\ \A m \in batch[p] : rowLock[m] = NoOne
    /\ status' = [m \in Message |-> IF m \in batch[p] THEN "published" ELSE status[m]]
    /\ batch' = [batch EXCEPT ![p] = {}]
    /\ acked' = [acked EXCEPT ![p] = {}]
    /\ GoTo(p, "idle")
    /\ UNCHANGED <<stamp, clock, rowLock, unsent, failed, kafka, failures>>

\* A transaction fails, Produce returns an error (its queue is full), or the
\* process dies: at any point the batch is given up.
GiveUpEarly(p) ==
    /\ at[p] # "idle"
    /\ Fail
    /\ GiveUp(p)

-----------------------------------------------------------------------------
(* The producer's background thread and the broker. *)

Deliver(p, m) ==
    /\ m \in flying[p]
    /\ flying' = [flying EXCEPT ![p] = @ \ {m}]
    /\ copies' = [copies EXCEPT ![m] = @ + 1]
    /\ acked' = [acked EXCEPT ![p] = @ \cup {m}]
    /\ UNCHANGED <<table, at, batch, unsent, failed, stray, failures>>

\* A report with an error; the broker may have stored the message anyway.
Reject(p, m) ==
    /\ m \in flying[p]
    /\ Fail
    /\ flying' = [flying EXCEPT ![p] = @ \ {m}]
    /\ \E stored \in {0, 1} : copies' = [copies EXCEPT ![m] = @ + stored]
    /\ failed' = [failed EXCEPT ![p] = TRUE]
    /\ UNCHANGED <<table, at, batch, unsent, acked, stray>>

\* The broker stores a message and its answer is lost.  The producer is not
\* idempotent: it sends the message again on its own, and no report tells.
AckLost(m) ==
    /\ stray[m] > 0 \/ \E p \in Publisher : m \in flying[p]
    /\ Fail
    /\ copies' = [copies EXCEPT ![m] = @ + 1]
    /\ UNCHANGED <<table, publisher, flying, stray>>

\* A message of an abandoned call reaches the topic, or never does.
DeliverStray(m) ==
    /\ stray[m] > 0
    /\ stray' = [stray EXCEPT ![m] = @ - 1]
    /\ \E stored \in {0, 1} : copies' = [copies EXCEPT ![m] = @ + stored]
    /\ UNCHANGED <<table, publisher, flying, failures>>

-----------------------------------------------------------------------------

Step(p) ==
    \/ Select(p) \/ EndSelect(p) \/ Send(p)
    \/ AllDelivered(p) \/ DeliveryFailed(p) \/ Mark(p)

Next ==
    \/ \E m \in Message : \/ Begin(m) \/ CommitTx(m) \/ RollBackTx(m)
                          \/ AckLost(m) \/ DeliverStray(m)
    \/ \E p \in Publisher :
           \/ Step(p)
           \/ GiveUpEarly(p)
           \/ \E m \in Message : Deliver(p, m) \/ Reject(p, m)

Spec == Init /\ [][Next]_vars

\* The ticker fires, the publisher runs, and the producer reports the fate
\* of every message (message.timeout.ms).  Failures end at MaxFailures.
Fairness ==
    \A p \in Publisher :
        /\ WF_vars(Step(p))
        /\ WF_vars(\E m \in Message : Deliver(p, m) \/ Reject(p, m))

FairSpec == Spec /\ Fairness

-----------------------------------------------------------------------------
(* Properties. *)

\* Every variable holds a value of its type.
TypeOK ==
    /\ status \in [Message -> {"absent", "open", "aborted", "unpublished", "published"}]
    /\ stamp \in [Message -> Nat]
    /\ clock \in Nat
    /\ rowLock \in [Message -> Publisher \cup {NoOne}]
    /\ at \in [Publisher -> {"idle", "selected", "producing", "waiting", "marking"}]
    /\ batch \in [Publisher -> SUBSET Message]
    /\ unsent \in [Publisher -> SUBSET Message]
    /\ acked \in [Publisher -> SUBSET Message]
    /\ failed \in [Publisher -> BOOLEAN]
    /\ flying \in [Publisher -> SUBSET Message]
    /\ stray \in [Message -> Nat]
    /\ copies \in [Message -> Nat]
    /\ failures \in Nat

\* Publishing implements AtLeastOnce: no message of a rolled-back transaction
\* is ever sent, and no row is marked before its message is in the topic,
\* whatever failed, was abandoned or arrived late in between.
Promise == INSTANCE AtLeastOnce WITH
               committed <- {m \in Message : status[m] \in {"unpublished", "published"}},
               shown     <- {m \in Message : copies[m] > 0},
               confirmed <- {m \in Message : status[m] = "published"}
ImplementsAtLeastOnce == Promise!Spec

\* A message is repeated at most once per failure, an answer of the broker
\* that is lost included, and once per publisher of an overlapping process:
\* with one publisher and without failures the topic has each message once.
RepeatsHaveACause ==
    \A m \in Message : copies[m] <= Cardinality(Publisher) + failures

\* Every committed message is published in the end: batches given up are
\* taken up again, and late rows with an old created_at are not left behind.
EveryMessagePublished ==
    []<>(\A m \in Message : status[m] # "unpublished")
=============================================================================
