# A verification project for the antifraud repository

TLA+ models of the bank core (`processing_core`), its transactional outbox, the
antifraud service, the pipeline that computes the antifraud's features, and the
gRPC servers both services run in, model-checked with TLC. Every invariant and
action property of a run is also proved with TLAPS, those of the composition
included; liveness is model-checked only. The models are translated from the Go
code, the DAGs and the ClickHouse tables; where a document of the repository
says something else, the run that shows it is listed under "Disagreements".

## 1. The system

```
 caller --gRPC--> processing_core --gRPC--> antifraud --CQL--> Cassandra
                    |     |   \--> ATM / other bank               ^
                 Postgres  \--> Kafka --> ClickHouse --> Airflow --/
```

| Component | State | Operations | Interacts through |
|---|---|---|---|
| RPC handlers, use cases (`internal/app`, `internal/usecases`) | none between calls; local balances during a call | CashIn, CashOut, Internal, SbpOutgoing | antifraud call, one Postgres transaction, payout |
| Transactions, client locks (`txrepo.go`, `hash.go`, pool) | open transactions, advisory locks | BeginTx, CommitTx, RollBackUnlessCommitted, LockClient | shared by all handlers and the publisher |
| Tables (`balance_repo.go`, `transaction_repo.go`, `outbox_repo.go`) | user_balance, transactions_history, outbox | read, upsert, append, select unpublished, mark | Postgres |
| Antifraud client (`af_integration.go`) | none | three checks with timeouts | gRPC to the antifraud |
| Publisher and producer (`outbox.go`, `producer.go`) | a batch | Run, Publish, Produce | outbox table, Kafka |
| Antifraud handlers, rule checker (`antifraud/internal/app`, `usecases`) | goroutines of an errgroup | three checks | context cancellation, errors |
| Rules and feature store (`outgoing`, `repository`) | none; feature rows in Cassandra | three rules, four features | CQL; rows change behind their back |
| Feature pipeline (`airflow/dags`, ClickHouse tables) | ClickHouse rows, runs of tasks, feature rows with a TTL | ingest, query a window, insert rows, retry, skip | Kafka engine table, ClickHouse, CQL |
| Server start and shutdown, both services (`cmd/main.go`) | the server, its session, the channel of signals, open calls | Listen, Serve, Notify, signal, GracefulStop, Close, Fatalf | gRPC |
| Metrics and interceptors (`cmd/metrics.go`) | three metrics with labels | count, observe, categorizeError, scrape | every call; Prometheus reads the metrics one by one |
| Generated code, load generator, deployment | - | - | - |

What is hard: requests of one client and of two clients interleave between any
two statements; opposite transfers deadlock; a COMMIT can succeed with an
error; the process can die between the commit and the payout; a request can be
repeated; the antifraud may be silent, or answer after the core has gone on;
rows become visible out of the order of their `created_at`; deliveries fail one
by one and late; one rule's error cancels the others; Airflow runs old windows
after new ones, stops half-way and starts again; calls are open while the
process is asked to stop, and while Prometheus reads what they count.
`PROJECT.json` lists each hazard with its line.

What makes each part correct:

- core: no lost update, no partial operation, no client who spends more than
  there is, answers that agree
  with the database, cash only for committed debits, every request ends;
- outbox: only committed rows are sent, nothing is marked before it is in the
  topic, repeats are bounded by failures, every row is published in the end;
- antifraud: the answer is the verdict of the rules, whatever order the
  goroutines run in, and every call is answered;
- core and antifraud together: a debit a rule objects to moves money only after
  a fault that can be named;
- pipeline: no transaction is in two sums, success means all that the last
  query saw of the window, and what the antifraud reads are the newest windows,
  whichever was written last;
- server: accepted calls are answered before the process ends, and a scrape
  agrees with itself up to the calls that were open while it ran.

## 2. Modules

| Module | Models | Correspondence |
|---|---|---|
| `Operations` | the four operations as functions on balances, int64 arithmetic | constants give the fields of a request; `Wrap` is Go's overflow; `Posted` is the body of a transaction run alone |
| `Ledger` | abstract: whole requests posted in one step, each at most once | what the core promises |
| `Processing` | handlers, transactions, locks, tables, crash | one action per SQL statement or outer call. `pc` is the line of the handler, `read` its local balance, `pending` its uncommitted writes, `holder` the advisory locks, `account`/`history`/`outbox` the tables |
| `AtLeastOnce` | abstract: messages are committed, shown, confirmed | what the outbox promises |
| `Outbox` | `KafkaOutboxPublisher`, `kafkaProducer`, the outbox table, the broker | `at` is the line of `Publish`/`Produce`, `batch` is `msgs`, `acked`/`failed` are the delivery channel, `flying`/`stray` the producer's queue |
| `Antifraud` | one errgroup per call, rules, feature store, handler | `rule` is the state of each goroutine, `first` the errgroup's error, `cancelled` its context |
| `System` | `Processing` and `Antifraud`, with `af_integration.go` between them | a debit is a call; the core's next step is tied to the answer; `excuse` records why the core went on without one |
| `Pipeline` | topic, ClickHouse, the three DAGs, the feature tables | `stored` counts the ClickHouse rows of a transaction, `state`/`tries`/`todo` are a task instance, `seen` what the last query of an instance saw, `rows` the Cassandra tables; `Sum` and `PartnersOf` are the antifraud's queries, with their ORDER BY and LIMIT |
| `Server` | `main`, the goroutine of Serve, GracefulStop, the deferred Close, the interceptor, its metrics and their scrapes | `main` is the line of `main`, `quit` the channel, `call` where a call is between the interceptor's statements, `count` the metrics, `read` what a scrape has read of each |
| `History` | the history repository: append, upsert, paging by a filter | `table` and `outbox` are the tables; `reader`, `filter`, `pages` a caller that raises the offset until a page is not full |
| `ProcessingProofs`, `PayoutProofs`, `OutboxProofs`, `AntifraudProofs`, `ServerProofs`, `PipelineProofs`, `HistoryProofs`, `SystemProofs` | - | theorems about the module they name; `PayoutProofs` extends `ProcessingProofs`, `SystemProofs` extends `PayoutProofs` and instantiates `AntifraudProofs` |
| `MC*` | instances for TLC | model values and functions of constants |

`Processing` extends `Operations` and shows that it implements `Ledger` with
`entries <- outbox`; `Outbox` shows that it implements `AtLeastOnce` with the
sets of committed, shown and marked rows. `System` extends `Processing` and
instantiates `Antifraud` with a call per debit. `Pipeline` starts from what
`Ledger` and `AtLeastOnce` promise: committed transactions, each in the topic
once or more.

Operators introduced by a comment "Variant of X" are plausible mistakes of the
code. Nothing uses them; each shows that a property can fail (`PROJECT.json`,
"mutants").

### Decisions of the models

- Postgres at READ COMMITTED: a statement sees its own writes, else the last
  committed row. Advisory locks are reentrant and end with the transaction. A
  waiting lock in a cycle is aborted (`DeadlockAbort`).
- `transactions_history` has two unique keys. `ON CONFLICT (transaction_id)`
  keeps the old id; a new transaction_id whose truncated id is taken fails; an
  uncommitted row makes an insert wait (`IndexBusy`).
- History and outbox rows of a transaction become visible at its COMMIT, so
  the model writes them there, together: both INSERTs are statements of one
  database transaction. `Upsert` decides whether the first fails;
  `StatementFails` is a failure of any.
- `UpdateBalance` waits for no row lock in the model: it would wait only for a
  writer of the same client, who holds the advisory lock.
- An outbox row is identified with the request that wrote it, since its
  payload is the request.
- Uuids, currency, merchant and country are left out: no property looks at
  them. A request whose amount is 0 stands for every invalid one.
- The deadline of the antifraud call exists for transfers and SBP only:
  `CashOutCheck` uses `context.WithoutCancel`.
- The publisher is not counted against the connection pool.
- In `Outbox`, `SELECT` and the end of its transaction are two steps, so that
  another publisher sees the row locks. An abandoned message reaches the topic
  at any later time or never. The producer is not idempotent: it may store a
  message twice and report one success (`AckLost`, counted as a failure).
- In `Antifraud` a refresh replaces one feature; a partner query may return
  several rows of one partner. The validation that answers InvalidArgument
  (`app/cashout.go:15-18`, `service.go:39`) is left out: the core requires the
  same fields before it calls, and to the core the answer is one more error.
- In `System` amounts of the core are multiplied by `Unit` for the rules, so
  that a small ledger meets the thresholds of the code. Crashes, failing
  statements and features that change stay with `Processing` and `Antifraud`.
  The antifraud finishes a call the core has left, and may learn of that at any
  time or never (`Cancel`).
- In `Pipeline` the unit of time is half an hour. A sum is shown as what it adds
  up: how many copies of each transaction. A message is ingested at any time
  after `created_at` and possibly twice. An attempt may fail before its query,
  or between two inserts, as often as `MaxFailures` of its task; what it
  inserted stays. A DAG may be paused, and is then for the whole behaviour. Due
  runs of any interval may run in any order (`depends_on_past` is False,
  `catchup` True), but not before their interval has ended. Cassandra returns
  the partner rows of a user in the clustering order of the table: newest window
  first, then by the id of the partner (`UuidOf`).
- In `Server` a handler may return any outcome of `Returns`; `MayHang` are the
  calls whose handler need not end, `Malformed` those that make it panic. The
  goroutine of Serve may start at any time after it was made, before or after
  `signal.Notify`, even after GracefulStop. A signal before Notify kills the
  process; afterwards the channel keeps one, and drops those that find it full.
  A Serve that fails ends the process by `log.Fatalf`. A scrape reads each
  metric in a step of its own, in any order; the values of one metric vector
  with different labels are also read apart. Only labels some call can have are
  there to be read (`Exposed`). One module stands for both services: `main` has
  the same shape, and what is closed last is the connection to the antifraud in
  one, the Cassandra session in the other. Both have the interceptor; the
  reasons are those of `processing_core`. Its `context_canceled` is counted for
  no call: `metrics.go:51` asks `errors.Is` of a status that keeps only the text
  of the error, while `cmd/main.go:112` and a panel of the dashboard list it.
- In `History` a filter has two of the columns that are compared for equality
  and one bound of each kind. Rows that `created_at` does not tell apart are in
  any order, and in another one in the next query.

## 3. Runs

| Run | Question | Bounds and why they are enough |
|---|---|---|
| `transfers` | Do interleaved transactions post whole operations, and does every request end? (`OneTransactionPerClient`, `CommitsAreCurrent`, `OutboxExplainsBalances`, `ImplementsLedger`, `RequestsEnd`, under fairness) | four requests: the two opposite transfers deadlock, and one of them is covered only after the other; one transfer is to oneself, one cash-in creates a row; carol shares alice's lock key; three connections for four requests |
| `payouts` | Do answers, payouts, balances, history and outbox agree, and does anybody overdraw? (`TypeOK`, `NoOverdraft`, `OutboxExplainsBalances`, `HistoryMatchesOutbox`, `AnswersAreTrue`, `PayoutsAreDebited`, `UnpaidDebitsHaveACause`) | a cash-out and its repetition race for a balance that covers one of them; a cash-in overflows three-bit integers (`MaxInt` 3); an SBP transfer of a negative amount credits its sender, and its id 9 becomes 1 in a narrow column (`MaxId` 3); an invalid request; one lock key for both clients; one crash |
| `outbox` | Is every row published, how often, and is it safe? (`TypeOK`, `RepeatsHaveACause`, `ImplementsAtLeastOnce`, `EveryMessagePublished`, under fairness) | two overlapping publishers, three rows in batches of two: a late row with an old stamp, a partial batch; one failure |
| `antifraud` | Is the answer the verdict of the rules? (`TypeOK`, `DeclinesHaveAReason`, `VerdictIsTheRules`, `CallsEnd`) | a cash-out that runs both rules and an SBP payment below bigSpent's threshold; sums 0, just below, at and above the limit; 4 and 12 partners; one refresh |
| `system` | What does an approved, declined or unanswered debit mean end to end? (`FraudMovesOnlyByFault`, `CashNeedsAnAnswer`, `AllRequestsEnd`, under fairness) | a cash-out and an SBP transfer of one client whose balance covers one of them, on one connection; amounts past both thresholds (`Unit` 1500000); sums that pass and that do not; deadlines, cancellations and lost connections at every moment |
| `pipeline` | Are the sums and the partners what the windows say, and does Airflow catch up? (`TypeOK`, `NothingCountedTwice`, `SuccessIsTheWholeWindow`, `SumsFollowWindows`, `PartnersFollowWindows`, `AirflowCatchesUp`, under fairness) | three half hours; a three-hour window and an hourly one end with the first and with the third; a user with cash-outs in two windows, another with one; one message twice; two partners in one hour, one of them again in the next, so that there are more rows than `RowLimit` (2) both within a window and across windows; an internal transfer, so that the downstream task has rows; every message may come after the query that should see it; a failed attempt of the cash-outs and its retry, two of the SBP partners, which exhaust the retries of a run |
| `server` | Are calls answered while the process starts and stops, and what does a scrape show? (`TypeOK`, `SessionOutlivesCalls`, `StopAnswersCalls`, `ScrapesAgree`, `SignalStops`, under fairness) | a call that may hang, one that panics, an ordinary one, which succeed or are found to be fraud; one signal, before Notify or after; one scrape, its readings in any order, at any time between Listen and the end |
| `history` | What does a reader of the history get while it is written? (`KeysAreUnique`, `NothingIsSkipped`, `PagesAreInOrder`, `LastMessageIsTheRow`) | six rows that writers may write, with a tie in `created_at`, a shared id, updates that take a row to the front of the table and out of the filter on the amount; eight filters; pages of one row; four writes |

In the runs of `Processing`, `Antifraud`, `System`, `Pipeline`, `Server` and
`History` deadlock is checked: when all is done only `Idle` is left, so that any
other standstill is an error. `Outbox` never stops: an idle publisher selects
again.

The bounds are `MaxCrashes` (crashes of the core), `MaxFailures` (failed calls,
deliveries and deaths of a publisher; failed attempts of Airflow), `MaxRefresh`
(writes of Airflow as the antifraud sees them), `Horizon` (the clock of
`Pipeline`), `MaxCopies` (how often the topic hands a message over),
`MaxSignals`, `MaxScrapes` and `MaxWrites`. Nothing else limits a behaviour. The
TTL of the rows is the 96 half hours of the code and does not pass within
`Horizon`. `RowLimit` is the LIMIT 5 of the partner queries; it is 2 in
`pipeline`, where five rows would need more transactions, and 5 in the
disagreement. `SwitchedOn` are the sets of tasks that may be on together: the
DAGs share nothing but the table `transactions`, which none of them writes, and
every property of `Pipeline` speaks of one task, or of the two of one DAG, so
`pipeline` takes the DAGs one at a time; `stale_features` has two at once.
`Returns` of `Server` are the outcomes a handler may have in a run: two, of
which one is an error; the proofs are for any.

### Fairness

- `Processing`: `WF` of each request's own steps (goroutines are scheduled,
  statements end, the pool hands out connections), of the antifraud's deadline
  where the code sets one, and of Postgres' deadlock detection. Weak fairness
  on a lock is enough in the model because requests are finitely many. Nothing
  is assumed of callers or of the antifraud.
- `Outbox`: `WF` of each publisher (the ticker fires, `Run` continues after an
  error) and of a report for the messages it has sent (`message.timeout.ms` of
  the producer). Failures end (`MaxFailures`), as without that nothing can be
  promised.
- `Antifraud`: `WF` of each call's steps (goroutines run, gocql queries end by
  answer or timeout).
- `System`: one `WF` of everything the two services, the deadlines and
  Postgres do on their own. Every step brings a finite behaviour nearer its
  end, so that a fair choice between the requests adds nothing. Nothing is
  assumed of connections that fail or of cancellations.
- `Pipeline`: one `WF` of the steps of all runs (the scheduler and its workers
  go on), for the same reason. The clock, the topic and failures are free.
- `Server`: `WF` of `main` (Listen to the end; the receive waits until a signal
  is there), of what the interceptor does with each call, and of
  the handler of each call that is not in `MayHang`. `CashOutsEnd` is why some
  are.

The goroutine of Serve, signals, scrapes and failures of Serve are free.

### Disagreements between documents and code

Each is a run that TLC must find violated.

| Run | The document | The code |
|---|---|---|
| `silent_antifraud` | README.md:10 and 319: authorisations have a small timeout and go on without an answer | `af_integration.go:32`: the cash-out check has no deadline |
| `many_partners` | `featureName.go:10`, `many_partners.go`: a sender with 10 partners or more is declined | `cassandra.go:69,72`: LIMIT 5, so the rule never declines |
| `fraud_lost` | README.md:314-317: fraud is declined | `usecases/cashOut.go:37`: the first error wins, so a store error hides a decline, and the core goes on |
| `stale_features` | `featureName.go:8,10,12`: the features are what was withdrawn and whom the user paid in the last 30 minutes | `cash_out.go:23` reads the newest row however old, and `af_cash_out.py:47` writes none for a user without cash-outs; `spents.go:46-51` has no condition on the window, and `unique_partners.py:33-34` writes windows of an hour: an old sum and an old partner stand until their TTL, or until newer rows |

## 4. Proofs

All from the named assumptions of the modules (`OperationsAssumption`,
`ProcessingAssumption`, `OutboxAssumption`, `AntifraudAssumption`,
`PipelineAssumption`, `TasksAssumption`, `ServerAssumption`,
`HistoryAssumption`, `SystemAssumption`) only, for all values of the constants.
Where something is counted they say that it is finitely many: the publishers,
and the calls of a server. That the outbox and the history are finite is proved.

`ProcessingProofs`:

- `TypeCorrect`: `Spec => []TypeOK`. The work is in the arithmetic: `Wrap`
  brings every sum or difference of two int64 back into int64.
- `Invariance`: `Spec => []IInv`. `OneTransactionPerClient` and
  `CommitsAreCurrent` are not inductive: what is needed is, for each open
  transaction, which locks it holds (`LocksHeld`), what it has written so far
  in terms of the balances committed **now** (`WritesCurrent`), that what it
  read is still current and covers the amount (`ReadsCurrent`), and that no
  open request has been posted (`InPlace`). A step of another transaction
  preserves these because it commits rows only of clients whose lock it holds:
  this is the pair of lemmas `Frame` and `PublishFrame`, and it holds for any
  hash of clients to keys.
- `LocksExclude`, `NoLostUpdate`: the two invariants, from `IInv`.
- `Refinement`: `Spec => ImplementsLedger`. COMMIT is one `Post` of the ledger
  (`PublishPosts`, with the transfer to oneself included); every other step
  stutters (`OthersStutter`).

`PayoutProofs`, about the same specification. The first results are independent
of the locks, the balances need `IInv`:

- `CallersAreToldTheTruth`, `CashIsDebited`, `UnpaidIsExplained`: the invariant
  `PInv` follows each request from its posting (`Recorded`) to the answer
  (`Told`) and the payout (`Paid`), with a lost answer to COMMIT and a crash as
  the only ways off.
- `TablesAgree`: `HistoryMatchesOutbox`, which is inductive with the types: the
  two rows are written by one COMMIT, and `ON CONFLICT` leaves one row per
  transaction_id that shows a request announced under it.
- `OutboxExplains`, `NeverOverdrawn`: from `BInv`, which says of each client
  that the balance is the opening one plus the sum over the outbox plus a whole
  number of int64 widths (`Balanced`), and that of a client whom only own debits
  take from no write has overflowed when all credits fit, and no balance is
  below zero (`Solvent`). A COMMIT adds one request to the outbox and its effect
  to the sum (`PublishSums`), and what it writes is that effect modulo the width
  (`PostedModulo`), on top of a balance that by `IInv` is the one of now. The
  sums are those of the community modules, which are recursive over the subsets
  of a set; what is used of them (`SumAdds`, `SumOfNone`, `SumInt`) is proved
  from a minimal counterexample (`SubsetInduction`), because the library's
  induction theorems take an operator.

`OutboxProofs`:

- `TypeCorrect`: `Spec => []TypeOK`.
- `Refinement`: `Spec => ImplementsAtLeastOnce` for any number of publishers.
  The inductive invariant says that whatever is in a batch, unsent, in flight
  or abandoned is committed (`SendsCommitted`), and that a delivery report
  means the message is in the topic, so that a publisher that marks has all of
  its batch there (`ReportsTrue`). `Monotone` shows that other publishers'
  steps never take a committed or shown message back.
- `RepeatsAreBounded`: `RepeatsHaveACause` is no invariant on its own, as a copy
  may still be on its way. `CopiesPaid` counts it before it arrives: the copies
  in the topic, with the producer and abandoned, and the failures a publisher
  has yet to act on, are at most the failures so far and the publishers that
  have used their one free copy of the message (`Spent`). A publisher gets no
  second one, since it selects the row again only after a failure.

`AntifraudProofs`:

- `DeclineWins`: `Spec => []DeclinesHaveAReason`. The invariant says why a
  context is cancelled: by the caller, or by an error the errgroup has kept
  (`FirstExplained`), so that an error a cancellation causes comes too late to
  be kept, and that the answer is that first error (`AnswerFinal`).
- `TypeCorrect`: the handler has an answer for every error.
- `VerdictFollowsRules`: `Spec => VerdictIsTheRules`, an action property. As
  long as nothing got in the way of a call, the rules that returned an error
  object to the features as they are, and while the errgroup has kept none, no
  rule that returned does (`Judged`). So the answer, which comes when all have
  returned, is the verdict in whatever order they did.

`ServerProofs`:

- `SessionIsClosedLast`, `StopIsGraceful`, `TypeCorrect`: from `SInv`, which
  adds that calls are open only after Serve, that signals are heard only after
  Notify, that `main` passes GracefulStop without open calls, and what may cut
  a call off (`CutExplained`).
- `MetricsAgree`: `Spec => []ScrapesAgree`. Two facts carry it: each metric is
  the number of calls past the statement that counts them (`CountsAreExact`),
  and each reading of the scrape lies between the calls it counts that were
  answered before the scrape began and the metric of now
  (`ReadingsInBetween`). A call that gets past a statement while the scrape
  runs was open at some moment of it (`OpenCalls` is within `busy`), so the
  readings, made at different moments, are all that far from those calls only
  (`OneReading`, `ShownReading`), and their sums with them (`ReadsUpToBusy`), as
  no call is counted under two labels (`ReadsSum`).

`PipelineProofs`:

- `PipelineInvariance`: `Spec => []PInv`. A row of the tables is a row of the
  result of its run (`RowsExpected`): of what its last query saw while the run
  is writing or has succeeded, and before that of the table as it is now
  (`Base`). That is inductive because results only grow with the copies
  (`ResultGrows`), so what a failed attempt has left is always replaced by its
  retry. What is missing of a result is in the queue of its run
  (`NothingLost`). A row belongs to one run only (`RunOfWindow`), so runs do
  not disturb each other, in whatever order they write.
- `CountedOnce`, `SuccessIsComplete`, `TypeCorrect`: from `PInv`; two sums with
  one cash-out would have the same key, as cash-out windows do not overlap.
- `SumsFollow`, `PartnersFollow`: with every due run of a task well ended its
  table holds the results of the due runs and nothing else (`SettledTables`).
  The newest row of a user is that of the run with the last window
  (`NewestRun`), whichever was written last. The partner rows are the payments
  the queries saw, one per window and partner (`BucketsArePaid`); the
  clustering order is total (`ClusteringOrder`), so the rows with fewer than
  RowLimit before them are RowLimit many or all, and none that is left out is
  newer (`FirstRows`).

`HistoryProofs`:

- `OneRowPerKey`, `MessagesKeepUp`: the invariant follows each row to its last
  message (`Announced`). An upsert replaces at most one row because
  transaction_ids are unique, and the row it leaves has a key no other row has.
- `PagesFollowOrder`: without writes each page is one that the table the reader
  began with may give for its offset (`PagesOfBefore`), and of two such pages
  the later one has nothing newer, and shares only rows that tie
  (`LaterPage`).
- `ReaderMissesNothing`: a row the reader has to meet is on a page, or as many
  rows are before it as the next OFFSET skips (`StillAhead`): rows that are
  written in front only push it back, and a full page that does not have it
  has only rows before it.

`SystemProofs`:

- `CoreIsProcessing`, `AntifraudIsAntifraud`: the whole implements each of its
  parts, step by step, so that all of the above holds of it.
- `FraudNeedsAFault`, `CashNeedsAFault`: from `SInv`, which joins `PInv` and
  `AInv` with what the core believes of each debit (`Consulted`): what the
  rules answered, or nothing with a fault to blame; money moves only with a
  belief, and a cash-out the core waits for is cancelled only by a lost
  connection. The cash-out has no deadline in the code, which is why a late
  answer cannot excuse it.

Only model-checked is liveness: `RequestsEnd`, `EveryMessagePublished`,
`CallsEnd`, `AllRequestsEnd`, `AirflowCatchesUp`, `SignalStops`. Temporal
reasoning under fairness and ENABLED is out of the prover's reach. That the
code violates what its documents say (section 3) is shown by runs only.

`stale_features` is stated for runs that saw all of their window once (`Clean`):
it takes no fault to violate it. `SumsFollowWindows` and `PartnersFollowWindows`
hold with late and repeated messages too, of what the queries saw; what a query
came too early for is in no feature, and a message handed over twice is in a sum
twice. `CashNeedsAnAnswer` is the other side of `silent_antifraud`: with the
deadline README.md:319 describes it would not hold (mutant `DeadlineForAll`).

## 5. Not modelled

- Conversion of Cassandra decimals to int64: the pipeline writes sums of Int64,
  whose scale is 0, and for these the conversion is the identity.
- Overflow of `amount + feature` in the antifraud.
- A transfer of a negative amount overdraws its receiver: the code does not
  check it, and `NoOverdraft` leaves out clients others can take from.
- The counter of rule errors of the antifraud, which nothing reads.
- A row the broker rejects for ever: `EveryMessagePublished` needs failures
  that end.
- Fields no rule or query reads, such as the bic of the antifraud's
  transaction, into which `af_integration.go:117` puts the receiver's id.
- Several tasks of one run or two attempts of one task at the same time, which
  Airflow excludes; ClickHouse and Cassandra are reliable once written to.
- Generated code, mocks, the load generator, deployment.

## 6. Plan

Done, in this order: `Operations`, `Ledger`, `Processing` and its proofs,
`AtLeastOnce`, `Outbox` and its proofs, `Antifraud`; `System`, `Pipeline`,
`Server`, `History`; `PayoutProofs`, `AntifraudProofs`, `ServerProofs`,
`PipelineProofs`, `HistoryProofs`; the repeats of the outbox, the metrics, the
paging, the balances, the verdict and `SystemProofs`.

Next, the most important first:

1. what the ledger itself promises, such as that money is only moved by a
   transfer, so that it carries over to `Processing` by the refinement;
2. `History` as what `Processing` assumes of the repository when it upserts;
3. the safety facts the liveness properties rest on: a request that is not
   finished has a step, unless it waits for one that has.
