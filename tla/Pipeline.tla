------------------------------ MODULE Pipeline ------------------------------
(***************************************************************************)
(* How committed transactions become the features the antifraud reads.     *)
(* The topic hands each message of the outbox to ClickHouse, once or more  *)
(* often, which appends it to the MergeTree table `transactions`.  Three   *)
(* Airflow DAGs aggregate windows of that table into Cassandra, one run    *)
(* per schedule interval: a run queries its window, inserts the rows one   *)
(* by one, and is retried once.  Runs are independent (depends_on_past is  *)
(* False, catchup is True), so old intervals may run after newer ones.     *)
(*                                                                         *)
(* The unit of time is half an hour.                                       *)
(***************************************************************************)
EXTENDS Integers, FiniteSets

CONSTANTS
    Tx,         \* transactions the core has committed
    KindOf,     \* transaction_type
    SenderOf,   \* sender_id
    ReceiverOf, \* receiver_id
    CreatedAt,  \* created_at, as the caller gave it
    User,       \* bank clients
    Target,     \* TARGET_USER_ID, the client two of the DAGs work for
    Nothing,    \* NULL
    SwitchedOn, \* bound: sets of tasks, the DAGs that are not paused together
    Start,      \* start_date of the DAGs
    Horizon,    \* bound: the clock stops here
    Ttl,        \* USING TTL: 172800 seconds, 96 half hours
    RowLimit,   \* LIMIT of the partner queries: 5
    UuidOf,     \* place of a client's id among the ids, in the order of uuid
    MaxCopies,  \* bound: how often the topic hands each message over
    MaxFailures \* bound: attempts of each task that fail

\* One task per feature table; the two partner tasks form one DAG.
Task == {"cashOut30m", "spent3h", "sbpPartners30m", "internalPartners30m"}

ASSUME PipelineAssumption ==
    /\ KindOf \in [Tx -> {"CashIn", "CashOut", "Internal", "SbpOutgoing"}]
    /\ SenderOf \in [Tx -> User]
    /\ ReceiverOf \in [Tx -> User]
    /\ CreatedAt \in [Tx -> Nat]
    /\ Target \in User
    /\ Nothing \notin User
    /\ Start \in Nat /\ Horizon \in Nat /\ Start <= Horizon
    /\ Ttl \in Nat \ {0} /\ RowLimit \in Nat \ {0}
    /\ UuidOf \in [User -> Nat]
    /\ \A u, v \in User : UuidOf[u] = UuidOf[v] => u = v
    /\ MaxCopies \in [Tx -> Nat \ {0}]

ASSUME TasksAssumption ==
    /\ SwitchedOn \subseteq SUBSET Task
    /\ \A on \in SwitchedOn : "sbpPartners30m" \in on <=> "internalPartners30m" \in on
    /\ MaxFailures \in [Task -> Nat]

\* schedule_interval: */30 for the cash-outs, hourly for the others.
Period == [cashOut30m |-> 1, spent3h |-> 2, sbpPartners30m |-> 2, internalPartners30m |-> 2]

\* How far a window reaches back from the end of the interval.
Width == [cashOut30m |-> 1, spent3h |-> 6, sbpPartners30m |-> 2, internalPartners30m |-> 2]

\* retries in default_args
Retries == 1

\* A run of a task and the end of its data interval: one per interval.  The
\* runs of a DAG that is paused (is_paused) stay "paused".
Run == {r \in [task : Task, end : (Start + 1) .. Horizon] : r.end % Period[r.task] = 0}

Ended == {"success", "failed", "upstreamFailed"}

VARIABLES
    now,    \* the clock
    stored, \* rows of ClickHouse for each transaction
    state,  \* of each run
    tries,  \* attempts of a run that failed
    todo,   \* rows a run has still to insert
    rows,   \* the feature tables in Cassandra
    seen,   \* copies that the last query of a run saw in its window
    failures \* failed attempts of each task so far

vars == <<now, stored, state, tries, todo, rows, seen, failures>>

\* sum(amount), shown as what it adds up: every copy of some transactions.
SumOf(txs, copies) == [t \in Tx |-> IF t \in txs THEN copies[t] ELSE 0]
Zero == [t \in Tx |-> 0]

Init ==
    /\ now = Start
    /\ stored = [t \in Tx |-> 0]
    /\ \E on \in SwitchedOn :
           state = [r \in Run |-> IF r.task \in on THEN "scheduled" ELSE "paused"]
    /\ tries = [r \in Run |-> 0]
    /\ todo = [r \in Run |-> {}]
    /\ rows = {}
    /\ seen = [r \in Run |-> Zero]
    /\ failures = [task \in Task |-> 0]

-----------------------------------------------------------------------------
(* What a window holds. *)

\* Variant of Message: the receiver of transfers only.
MessageWithoutReceiver ==
    [t \in Tx |->
        [type     |-> KindOf[t],
         sender   |-> SenderOf[t],
         receiver |-> IF KindOf[t] = "Internal" THEN ReceiverOf[t] ELSE Nothing,
         at       |-> CreatedAt[t]]]

\* The row of ClickHouse that a transaction becomes: AppendOutbox makes the
\* message, the materialized view turns an empty receiver into NULL.
Message ==
    [t \in Tx |->
        [type     |-> KindOf[t],
         sender   |-> SenderOf[t],
         receiver |-> IF KindOf[t] \in {"Internal", "SbpOutgoing"} THEN ReceiverOf[t] ELSE Nothing,
         at       |-> CreatedAt[t]]]

\* Variant of InWindow: created_at <= window_end.
InWindowClosed(r, at) == r.end - Width[r.task] <= at /\ at <= r.end

\* created_at >= window_start AND created_at < window_end
InWindow(r, at) == r.end - Width[r.task] <= at /\ at < r.end

\* transaction_type in the WHERE clause of each query
OfType(task, type) ==
    CASE task = "cashOut30m"          -> type = "CashOut"
      [] task = "spent3h"             -> type # "CashIn"
      [] task = "sbpPartners30m"      -> type = "SbpOutgoing"
      [] task = "internalPartners30m" -> type = "Internal"

\* The transactions that the query of a run looks at, and those of one user.
Window == [r \in Run |-> {t \in Tx : /\ OfType(r.task, Message[t].type)
                                     /\ InWindow(r, Message[t].at)}]
Selected(r, u) == {t \in Window[r] : Message[t].sender = u}

Row(r, u, partner, total) ==
    [task |-> r.task, user |-> u, from |-> r.end - Width[r.task],
     partner |-> partner, total |-> total]

\* What the query of a run returns when ClickHouse holds `copies` of each
\* transaction.  GROUP BY has no group for a user without rows; the sum
\* without GROUP BY is 0 when there are none.
Result(r, copies) ==
    LET found(u) == {t \in Selected(r, u) : copies[t] > 0}
    IN  CASE r.task = "cashOut30m" ->
               {Row(r, u, Nothing, SumOf(found(u), copies)) : u \in {v \in User : found(v) # {}}}
          [] r.task = "spent3h" ->
               {Row(r, Target, Nothing, SumOf(found(Target), copies))}
          [] OTHER ->
               {Row(r, Target, Message[t].receiver, Zero) : t \in found(Target)}

-----------------------------------------------------------------------------

Tick ==
    /\ now < Horizon
    /\ now' = now + 1
    /\ UNCHANGED <<stored, state, tries, todo, rows, seen, failures>>

\* The Kafka engine reads a copy of a message, the view inserts it.
Ingest(t) ==
    /\ CreatedAt[t] <= now
    /\ stored[t] < MaxCopies[t]
    /\ stored' = [stored EXCEPT ![t] = @ + 1]
    /\ UNCHANGED <<now, state, tries, todo, rows, seen, failures>>

\* task_sbp >> task_internal
Upstream(r) == [task |-> "sbpPartners30m", end |-> r.end]

\* The scheduler may start an attempt once the interval is over.
Ready(r) ==
    /\ state[r] = "scheduled"
    /\ r.end <= now
    /\ r.task = "internalPartners30m" => state[Upstream(r)] = "success"

\* An attempt queries its window; with nothing to insert it is done.
Query(r) ==
    /\ Ready(r)
    /\ todo' = [todo EXCEPT ![r] = Result(r, stored)]
    /\ seen' = [seen EXCEPT ![r] = SumOf(Window[r], stored)]
    /\ state' = [state EXCEPT ![r] = IF Result(r, stored) = {} THEN "success" ELSE "writing"]
    /\ UNCHANGED <<now, stored, tries, rows, failures>>

Key(row) == <<row.task, row.user, row.from, row.partner>>

\* INSERT in Cassandra replaces the row with the same primary key.
Upserted(row) ==
    {old \in rows : Key(old) # Key(row)}
        \cup {[task |-> row.task, user |-> row.user, from |-> row.from,
               partner |-> row.partner, total |-> row.total, written |-> now]}

Insert(r) ==
    /\ state[r] = "writing"
    /\ \E row \in todo[r] :
           /\ rows' = Upserted(row)
           /\ todo' = [todo EXCEPT ![r] = @ \ {row}]
           /\ state' = [state EXCEPT ![r] = IF todo[r] = {row} THEN "success" ELSE "writing"]
    /\ UNCHANGED <<now, stored, tries, seen, failures>>

\* Variant of Fail: an insert that fails is logged and skipped.
FailSkips(r) ==
    /\ state[r] = "writing"
    /\ \E row \in todo[r] :
           /\ todo' = [todo EXCEPT ![r] = @ \ {row}]
           /\ state' = [state EXCEPT ![r] = IF todo[r] = {row} THEN "success" ELSE "writing"]
    /\ UNCHANGED <<now, stored, tries, rows, seen, failures>>

\* Variant of Fail: a query that never returns holds its worker.
FailHangs(r) ==
    /\ Ready(r) \/ state[r] = "writing"
    /\ failures[r.task] < MaxFailures[r.task]
    /\ failures' = [failures EXCEPT ![r.task] = @ + 1]
    /\ state' = [state EXCEPT ![r] = "writing"]
    /\ todo' = [todo EXCEPT ![r] = {}]
    /\ UNCHANGED <<now, stored, tries, rows, seen>>

\* The query or an insert raises, or the worker dies: the attempt is over,
\* what it inserted stays, and a retry starts with a new query.
Fail(r) ==
    /\ Ready(r) \/ state[r] = "writing"
    /\ failures[r.task] < MaxFailures[r.task]
    /\ failures' = [failures EXCEPT ![r.task] = @ + 1]
    /\ tries' = [tries EXCEPT ![r] = @ + 1]
    /\ state' = [state EXCEPT ![r] = IF tries[r] < Retries THEN "scheduled" ELSE "failed"]
    /\ todo' = [todo EXCEPT ![r] = {}]
    /\ seen' = [seen EXCEPT ![r] = Zero]
    /\ UNCHANGED <<now, stored, rows>>

\* A task whose upstream task failed is not run.
SkipDownstream(r) ==
    /\ state[r] = "scheduled"
    /\ r.task = "internalPartners30m"
    /\ state[Upstream(r)] = "failed"
    /\ state' = [state EXCEPT ![r] = "upstreamFailed"]
    /\ UNCHANGED <<now, stored, tries, todo, rows, seen, failures>>

\* The clock is at its bound, every run has ended, every copy was handed over.
Idle ==
    /\ now = Horizon
    /\ \A r \in Run : state[r] \in Ended \cup {"paused"}
    /\ \A t \in Tx : stored[t] = MaxCopies[t]
    /\ UNCHANGED vars

Step(r) == Query(r) \/ Insert(r) \/ SkipDownstream(r)

Next ==
    \/ Tick
    \/ \E t \in Tx : Ingest(t)
    \/ \E r \in Run : Step(r) \/ Fail(r)
    \/ Idle

Spec == Init /\ [][Next]_vars

\* The scheduler and the workers go on while a run has anything to do.
FairSpec == Spec /\ WF_vars(\E r \in Run : Step(r))

-----------------------------------------------------------------------------
(* What the antifraud reads. *)

\* Rows whose TTL has not passed, counted from when they were written.
Live(task, u) == {row \in rows : row.task = task /\ row.user = u /\ now < row.written + Ttl}

\* Variant of Newest: ORDER BY window_start.
OldestFirst(some) == {row \in some : \A other \in some : other.from >= row.from}

\* ORDER BY window_start DESC LIMIT 1
Newest(some) == {row \in some : \A other \in some : other.from <= row.from}

\* getCashOut30M and getSpent3H: 0 when there is no row.
Sum(task, u) ==
    IF Live(task, u) = {} THEN Zero ELSE (CHOOSE row \in Newest(Live(task, u)) : TRUE).total

\* A row of a partner table: one for each window and partner.
Buckets(task, u) == {[from |-> row.from, partner |-> row.partner] : row \in Live(task, u)}

\* Variant of Precedes: WITH CLUSTERING ORDER BY (window_start ASC), as spent_3h.
PrecedesOldest(a, b) ==
    a.from < b.from \/ (a.from = b.from /\ UuidOf[a.partner] < UuidOf[b.partner])

\* WITH CLUSTERING ORDER BY (window_start DESC, partner_id ASC)
Precedes(a, b) ==
    a.from > b.from \/ (a.from = b.from /\ UuidOf[a.partner] < UuidOf[b.partner])

\* LIMIT ?: the first rows of a partition, in its clustering order.
FirstOf(buckets) ==
    {b \in buckets : Cardinality({a \in buckets : Precedes(a, b)}) < RowLimit}

\* getPartnersLastNBuckets: no filter on window_start.
PartnersOf(task, u) == {b.partner : b \in FirstOf(Buckets(task, u))}

-----------------------------------------------------------------------------
(* Properties. *)

\* Every variable holds a value of its type.
TypeOK ==
    /\ now \in Start .. Horizon
    /\ \A t \in Tx : stored[t] \in 0 .. MaxCopies[t]
    /\ state \in [Run -> {"scheduled", "writing", "paused"} \cup Ended]
    /\ tries \in [Run -> 0 .. Retries + 1]
    /\ \A row \in rows : /\ row.task \in Task /\ row.user \in User
                         /\ row.written \in Start .. Horizon
                         /\ IF row.task \in {"cashOut30m", "spent3h"}
                            THEN row.partner = Nothing ELSE row.partner \in User
    /\ \A r \in Run : \A t \in Tx : seen[r][t] \in 0 .. stored[t]
    /\ failures \in [Task -> Nat]
    /\ \A task \in Task : failures[task] <= MaxFailures[task]

\* aggregate_and_store: the windows of the cash-out DAG do not overlap, so no
\* cash-out is in two sums, however runs are ordered, retried or cut off, and
\* none counts more copies than ClickHouse holds.
NothingCountedTwice ==
    \A t \in Tx :
        LET sums == {row \in rows : row.task = "cashOut30m" /\ row.total[t] > 0}
        IN  Cardinality(sums) <= 1 /\ \A row \in sums : row.total[t] <= stored[t]

\* The rows of a run, without the time they were written.
RowsOf(r) ==
    {Row(r, row.user, row.partner, row.total) :
        row \in {w \in rows : w.task = r.task /\ w.from = r.end - Width[r.task]}}

\* retries, raise: a run that reports success has left exactly the result of
\* what its last query saw, nothing of an attempt that failed half-way on an
\* older state of the window, and no row that a later copy would have changed:
\* what came in after that query is missing for good, and nothing else is.
SuccessIsTheWholeWindow ==
    \A r \in Run : state[r] = "success" => RowsOf(r) = Result(r, seen[r])

\* The runs whose interval is over.
Due == {r \in Run : r.end <= now}

\* Every run of a task that is due has ended well, and no row has expired.
Settled(task) ==
    /\ \A r \in Due : r.task = task => state[r] = "success"
    /\ \A row \in rows : row.task = task => now < row.written + Ttl

\* The transactions of a client that the last query of a run saw.
SeenOf(r, u) == {t \in Selected(r, u) : seen[r][t] > 0}

\* getCashOut30M, getSpent3H: the cash-out feature is the sum over the newest
\* closed window in which a query saw the user take cash, however long ago that
\* is (see ShortFeaturesAreRecent), and the spending feature the sum over the
\* last closed 3 hours, although catch-up runs write old windows after newer
\* ones.  A copy that came in after the query is in neither, a message handed
\* over twice before it is in them twice.
SumsFollowWindows ==
    /\ Settled("cashOut30m") =>
           \A u \in User :
               LET busy == {r \in Due : r.task = "cashOut30m" /\ SeenOf(r, u) # {}}
               IN  IF busy = {} THEN Sum("cashOut30m", u) = Zero
                   ELSE \E r \in busy : /\ \A s \in busy : s.end <= r.end
                                        /\ Sum("cashOut30m", u) = SumOf(SeenOf(r, u), seen[r])
    /\ Settled("spent3h") =>
           \A r \in Due :
               r.task = "spent3h" /\ r.end + Period.spent3h > now =>
                   Sum("spent3h", Target) = SumOf(SeenOf(r, Target), seen[r])

\* The partners that the target paid, each with the window of the payment.
Paid(task) ==
    UNION {{[from |-> r.end - Width[task], partner |-> ReceiverOf[t]] : t \in SeenOf(r, Target)} :
               r \in {s \in Due : s.task = task}}

\* getPartnersLastNBuckets: of the partners paid in closed windows, the rule
\* sees the RowLimit of the newest windows, in whatever order and after however
\* many attempts the windows were written; of one window those with the lowest
\* ids, and one who was paid in two windows takes two of the places.
PartnersFollowWindows ==
    \A task \in {"sbpPartners30m", "internalPartners30m"} :
        Settled(task) =>
            \E first \in SUBSET Paid(task) :
                /\ PartnersOf(task, Target) = {b.partner : b \in first}
                /\ Cardinality(first) <= RowLimit
                /\ first = Paid(task) \/ Cardinality(first) = RowLimit
                /\ \A b \in first, other \in Paid(task) \ first :
                       \/ other.from < b.from
                       \/ other.from = b.from /\ UuidOf[b.partner] < UuidOf[other.partner]

\* retries, task_sbp >> task_internal: Airflow always catches up.  Whatever
\* failed or was late, a time comes when every run that is due has ended, by
\* success, after its retries, or with the upstream task it depends on.
AirflowCatchesUp == []<>(\A r \in Due : state[r] \in Ended \cup {"paused"})

\* Nothing went wrong: every run that is due, of a DAG that is not paused, has
\* ended well and saw every transaction of its window, once.
Clean ==
    \A r \in Due : state[r] # "paused" =>
        state[r] = "success" /\ \A t \in Window[r] : seen[r][t] = 1

\* featureName.go: FeatureCashOut30M, FeatureSbpPartners30M and
\* FeatureInternalPartners30M are what the user did in the last 30 minutes.
\* Read generously, as the last two hours, and only when nothing went wrong:
\* no cash-out is counted and no partner shown that is older.
ShortFeaturesAreRecent ==
    Clean =>
        /\ \A u \in User, t \in Tx : Sum("cashOut30m", u)[t] > 0 => CreatedAt[t] >= now - 4
        /\ \A task \in {"sbpPartners30m", "internalPartners30m"} :
               \A p \in PartnersOf(task, Target) :
                   \E t \in Tx : ReceiverOf[t] = p /\ CreatedAt[t] >= now - 4
=============================================================================
