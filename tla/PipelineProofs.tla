--------------------------- MODULE PipelineProofs ---------------------------
(***************************************************************************)
(* Proofs about Pipeline for any transactions, clients, copies, failures   *)
(* and horizon: what is in the feature tables at any moment of any order   *)
(* of runs, and what a run that reports success has left there.            *)
(***************************************************************************)
EXTENDS Pipeline, FiniteSetTheorems, WellFoundedInduction, TLAPS

USE PipelineAssumption

-----------------------------------------------------------------------------
(* Windows and results. *)

\* Copies are as many as ClickHouse has rows of each transaction.
Copies == [Tx -> Nat]

\* A row as a query returns it.
QueryRow == [task : Task, user : User, from : Int, partner : User \cup {Nothing}, total : Copies]

\* A row of a feature table.
TableRow == [task : Task, user : User, from : Int, partner : User \cup {Nothing},
             total : Copies, written : Start .. Horizon]

\* Two rows that an INSERT would take for the same.
SameKey(a, b) == /\ a.task = b.task /\ a.user = b.user
                 /\ a.from = b.from /\ a.partner = b.partner

\* Rows are of one key exactly when they agree in the columns of the key.
LEMMA KeyIsSameKey ==
    ASSUME NEW a, NEW b
    PROVE  Key(a) = Key(b) <=> SameKey(a, b)
  BY DEF Key, SameKey

\* Every task has a width, and cash-out windows are one unit wide.
LEMMA Widths == /\ \A task \in Task : Width[task] \in Nat
                /\ Width["cashOut30m"] = 1
  BY DEF Width, Task

\* A run is known by its task and the start of its window.
LEMMA RunOfWindow ==
    ASSUME NEW r \in Run, NEW s \in Run, r.task = s.task,
           r.end - Width[r.task] = s.end - Width[s.task]
    PROVE  r = s
  <1>1. r \in [task : Task, end : (Start + 1) .. Horizon] /\ s \in [task : Task, end : (Start + 1) .. Horizon]
    BY DEF Run
  <1>2. Width[r.task] \in Nat
    BY <1>1, Widths
  <1>3. r.end = s.end
    BY <1>1, <1>2
  <1>4. QED
    BY <1>1, <1>3

\* What a query returns are rows of its run.
LEMMA ResultTyped ==
    ASSUME NEW r \in Run, NEW copies \in Copies, NEW x \in Result(r, copies)
    PROVE  /\ x \in QueryRow
           /\ x.task = r.task /\ x.from = r.end - Width[r.task]
           /\ x = Row(r, x.user, x.partner, x.total)
           /\ x.partner = Nothing <=> r.task \in {"cashOut30m", "spent3h"}
  <1>1. r.task \in Task /\ r.end \in Int /\ Width[r.task] \in Nat
    BY Widths DEF Run
  <1>2. \A u \in User, p \in User \cup {Nothing}, c \in Copies :
            LET row == Row(r, u, p, c)
            IN  /\ row \in QueryRow
                /\ row.task = r.task /\ row.from = r.end - Width[r.task]
                /\ row = Row(r, row.user, row.partner, row.total)
                /\ row.partner = p
    BY <1>1 DEF Row, QueryRow
  <1>3. \A S : SumOf(S, copies) \in Copies /\ Zero \in Copies
    BY DEF SumOf, Zero, Copies
  <1>4. CASE r.task = "cashOut30m"
    <2>1. PICK u \in User : x = Row(r, u, Nothing, SumOf({t \in Selected(r, u) : copies[t] > 0}, copies))
      BY <1>4 DEF Result
    <2>2. QED
      BY <2>1, <1>2, <1>3, <1>4
  <1>5. CASE r.task = "spent3h"
    <2>1. x = Row(r, Target, Nothing, SumOf({t \in Selected(r, Target) : copies[t] > 0}, copies))
      BY <1>5 DEF Result
    <2>2. QED
      BY <2>1, <1>2, <1>3, <1>5
  <1>6. CASE r.task \in {"sbpPartners30m", "internalPartners30m"}
    <2>1. PICK t \in Selected(r, Target) : x = Row(r, Target, Message[t].receiver, Zero)
      BY <1>6 DEF Result
    <2>2. t \in Tx /\ OfType(r.task, Message[t].type)
      BY DEF Selected, Window
    <2>3. Message[t].receiver \in User
      BY <2>2, <1>6 DEF Message, OfType
    <2>4. Message[t].receiver # Nothing /\ Zero \in Copies
      BY <2>3, <1>3
    <2>5. r.task \notin {"cashOut30m", "spent3h"}
      BY <1>6
    <2>6. LET row == Row(r, Target, Message[t].receiver, Zero)
          IN  /\ row \in QueryRow
              /\ row.task = r.task /\ row.from = r.end - Width[r.task]
              /\ row = Row(r, row.user, row.partner, row.total)
              /\ row.partner = Message[t].receiver
      BY <2>3, <2>4, <1>2
    <2>7. QED
      BY <2>1, <2>4, <2>5, <2>6
  <1>7. QED
    BY <1>1, <1>4, <1>5, <1>6 DEF Task

\* A query has one row for each user and partner.
LEMMA ResultKeys ==
    ASSUME NEW r \in Run, NEW copies \in Copies,
           NEW x \in Result(r, copies), NEW y \in Result(r, copies),
           x.user = y.user, x.partner = y.partner
    PROVE  x = y
  <1>1. r.task \in Task
    BY DEF Run
  <1>2. \A u, p, c : Row(r, u, p, c).user = u
    BY DEF Row
  <1>3. CASE r.task = "cashOut30m"
    <2> DEFINE Found(u) == {t \in Selected(r, u) : copies[t] > 0}
    <2>1. PICK u \in User : x = Row(r, u, Nothing, SumOf(Found(u), copies))
      BY <1>3 DEF Result
    <2>2. PICK v \in User : y = Row(r, v, Nothing, SumOf(Found(v), copies))
      BY <1>3 DEF Result
    <2>3. x.user = u
      BY <2>1, <1>2
    <2>4. y.user = v
      BY <2>2, <1>2
    <2>5. u = v
      BY <2>3, <2>4
    <2> HIDE DEF Found
    <2>6. QED
      BY <2>1, <2>2, <2>5
  <1>4. CASE r.task = "spent3h"
    BY <1>4 DEF Result
  <1>5. CASE r.task \in {"sbpPartners30m", "internalPartners30m"}
    <2>1. PICK t \in Selected(r, Target) : x = Row(r, Target, Message[t].receiver, Zero)
      BY <1>5 DEF Result
    <2>2. PICK s \in Selected(r, Target) : y = Row(r, Target, Message[s].receiver, Zero)
      BY <1>5 DEF Result
    <2>3. \A p : Row(r, Target, p, Zero).partner = p
      BY DEF Row
    <2>4. QED
      BY <2>1, <2>2, <2>3
  <1>6. QED
    BY <1>1, <1>3, <1>4, <1>5 DEF Task

\* More copies never take a row away: a later query has a row for every user
\* and partner an earlier one has.
LEMMA ResultGrows ==
    ASSUME NEW r \in Run, NEW copies \in Copies, NEW more \in Copies,
           \A t \in Tx : copies[t] <= more[t],
           NEW x \in Result(r, copies)
    PROVE  \E y \in Result(r, more) : y.user = x.user /\ y.partner = x.partner
  <1>1. r.task \in Task
    BY DEF Run
  <1>2. \A u, p, c : Row(r, u, p, c).user = u /\ Row(r, u, p, c).partner = p
    BY DEF Row
  <1>3. \A u : {t \in Selected(r, u) : copies[t] > 0} \subseteq {t \in Selected(r, u) : more[t] > 0}
    BY DEF Selected, Window, Copies
  <1>4. CASE r.task = "cashOut30m"
    <2> DEFINE Found(c, u) == {t \in Selected(r, u) : c[t] > 0}
    <2>1. PICK u \in User : /\ x = Row(r, u, Nothing, SumOf(Found(copies, u), copies))
                            /\ Found(copies, u) # {}
      BY <1>4 DEF Result
    <2>2. Found(more, u) # {}
      BY <2>1, <1>3
    <2>3. Row(r, u, Nothing, SumOf(Found(more, u), more)) \in Result(r, more)
      BY <2>2, <1>4 DEF Result
    <2>4. QED
      BY <2>1, <2>3, <1>2
  <1>5. CASE r.task = "spent3h"
    <2> DEFINE Sums(c) == SumOf({t \in Selected(r, Target) : c[t] > 0}, c)
    <2>1. x = Row(r, Target, Nothing, Sums(copies))
      BY <1>5 DEF Result
    <2>2. Row(r, Target, Nothing, Sums(more)) \in Result(r, more)
      BY <1>5 DEF Result
    <2> HIDE DEF Sums
    <2>3. QED
      BY <2>1, <2>2, <1>2
  <1>6. CASE r.task \in {"sbpPartners30m", "internalPartners30m"}
    <2>1. PICK t \in {s \in Selected(r, Target) : copies[s] > 0} :
              x = Row(r, Target, Message[t].receiver, Zero)
      BY <1>6 DEF Result
    <2>2. Row(r, Target, Message[t].receiver, Zero) \in Result(r, more)
      BY <2>1, <1>3, <1>6 DEF Result
    <2>3. QED
      BY <2>1, <2>2, <1>2
  <1>7. QED
    BY <1>1, <1>4, <1>5, <1>6 DEF Task

\* Copies of transactions outside of its window are nothing to a run.
LEMMA ResultLocal ==
    ASSUME NEW r \in Run, NEW copies \in Copies, NEW other \in Copies,
           \A t \in Window[r] : copies[t] = other[t]
    PROVE  Result(r, copies) = Result(r, other)
  <1>1. \A u : {t \in Selected(r, u) : copies[t] > 0} = {t \in Selected(r, u) : other[t] > 0}
    BY DEF Selected
  <1>2. \A u : SumOf({t \in Selected(r, u) : copies[t] > 0}, copies)
                 = SumOf({t \in Selected(r, u) : other[t] > 0}, other)
    BY <1>1 DEF SumOf, Selected
  <1>3. r.task \in Task
    BY DEF Run
  <1>4. CASE r.task = "cashOut30m"
    <2> DEFINE Found(c) == [u \in User |-> {t \in Selected(r, u) : c[t] > 0}]
               Rows(c) == {Row(r, u, Nothing, SumOf(Found(c)[u], c)) : u \in {v \in User : Found(c)[v] # {}}}
    <2>1. Result(r, copies) = Rows(copies) /\ Result(r, other) = Rows(other)
      BY <1>4 DEF Result
    <2>2. Found(copies) = Found(other)
      BY <1>1
    <2>3. \A u \in User : SumOf(Found(copies)[u], copies) = SumOf(Found(copies)[u], other)
      BY <1>1, <1>2
    <2> HIDE DEF Found
    <2>4. QED
      BY <2>1, <2>2, <2>3
  <1>5. CASE r.task = "spent3h"
    BY <1>2, <1>5 DEF Result
  <1>6. CASE r.task \in {"sbpPartners30m", "internalPartners30m"}
    BY <1>1, <1>6 DEF Result
  <1>7. QED
    BY <1>3, <1>4, <1>5, <1>6 DEF Task

\* A cash-out is summed for its sender, and in the window it was made in.
LEMMA CashOutRow ==
    ASSUME NEW r \in Run, NEW copies \in Copies, NEW x \in Result(r, copies),
           r.task = "cashOut30m", NEW t \in Tx
    PROVE  /\ x.total[t] <= copies[t]
           /\ x.total[t] > 0 => x.user = SenderOf[t] /\ x.from = CreatedAt[t]
  <1> DEFINE Found(u) == {s \in Selected(r, u) : copies[s] > 0}
  <1>1. PICK u \in User : x = Row(r, u, Nothing, SumOf(Found(u), copies))
    BY DEF Result
  <1>2. x.user = u /\ x.from = r.end - 1 /\ x.total = SumOf(Found(u), copies)
    BY <1>1, Widths DEF Row
  <1>3. x.total[t] = IF t \in Found(u) THEN copies[t] ELSE 0
    BY <1>2 DEF SumOf
  <1>4. t \in Found(u) => SenderOf[t] = u /\ r.end - 1 <= CreatedAt[t] /\ CreatedAt[t] < r.end
    BY Widths DEF Selected, Window, InWindow, Message
  <1>5. r.end \in Int /\ CreatedAt[t] \in Int /\ copies[t] \in Nat
    BY DEF Run, Copies
  <1>6. QED
    BY <1>2, <1>3, <1>4, <1>5

-----------------------------------------------------------------------------
(***************************************************************************)
(* The inductive invariant.  The tables never hold a row that the result   *)
(* of its run does not have: the result as of the last query while the run *)
(* is writing or has succeeded, else as of now.  What a run has not        *)
(* written yet is in its queue.                                            *)
(***************************************************************************)

Typed ==
    /\ TypeOK
    /\ stored \in Copies /\ seen \in [Run -> Copies]
    /\ rows \subseteq TableRow /\ IsFiniteSet(rows)
    /\ todo \in [Run -> SUBSET QueryRow]
    /\ \A r \in Run : state[r] \in {"scheduled", "writing"} => tries[r] <= Retries

OneRowPerKey == \A v, w \in rows : SameKey(v, w) => v = w

\* A cash-out is summed for its sender, in its window, and at most as often
\* as ClickHouse has it.
Placed(w) ==
    w.task = "cashOut30m" =>
        \A t \in Tx : /\ w.total[t] <= stored[t]
                      /\ w.total[t] > 0 => w.user = SenderOf[t] /\ w.from = CreatedAt[t]

RowOfRun(r, w) == w.task = r.task /\ w.from = r.end - Width[r.task]

\* The copies that the rows of a run may speak of.
Base(r) == IF state[r] \in {"writing", "success"} THEN seen[r] ELSE stored

\* The result of a run has a row for a user and a partner.
Expected(r, u, p) == \E y \in Result(r, Base(r)) : y.user = u /\ y.partner = p

\* A row of the result of a run is in the tables.
Written(r, y) ==
    \E w \in rows : /\ RowOfRun(r, w)
                    /\ w.user = y.user /\ w.partner = y.partner /\ w.total = y.total

RowsExpected ==
    \A w \in rows : Placed(w) /\ \A r \in Run : RowOfRun(r, w) => Expected(r, w.user, w.partner)

QueueExpected(r) ==
    \A x \in todo[r] : /\ RowOfRun(r, x) /\ Placed(x)
                       /\ Expected(r, x.user, x.partner)
                       /\ x.partner = Nothing <=> r.task \in {"cashOut30m", "spent3h"}

NothingLost(r) ==
    /\ state[r] = "writing" =>
           /\ todo[r] \subseteq Result(r, seen[r])
           /\ \A y \in Result(r, seen[r]) \ todo[r] : Written(r, y)
    /\ state[r] = "success" => \A y \in Result(r, seen[r]) : Written(r, y)

PInv ==
    /\ Typed /\ OneRowPerKey /\ RowsExpected
    /\ \A r \in Run : QueueExpected(r) /\ NothingLost(r)

-----------------------------------------------------------------------------
(* Each step preserves the invariant. *)

\* The invariant holds when the DAGs are switched on.
LEMMA PipelineInit == Init => PInv
  <1> SUFFICES ASSUME Init PROVE PInv
    OBVIOUS
  <1>1. Typed
    <2>1. stored \in Copies /\ seen \in [Run -> Copies] /\ rows = {}
      BY DEF Init, Copies, Zero
    <2>2. \A t \in Tx : stored[t] \in 0 .. MaxCopies[t]
      BY DEF Init
    <2>3. \A r \in Run : \A t \in Tx : seen[r][t] \in 0 .. stored[t]
      BY DEF Init, Zero
    <2>4. state \in [Run -> {"scheduled", "writing", "paused"} \cup Ended]
      BY DEF Init
    <2>5. /\ now \in Start .. Horizon /\ tries \in [Run -> 0 .. Retries + 1]
          /\ failures \in [Task -> Nat]
          /\ \A task \in Task : failures[task] <= MaxFailures[task]
      BY TasksAssumption DEF Init, Retries
    <2>6. TypeOK
      BY <2>1, <2>2, <2>3, <2>4, <2>5 DEF TypeOK
    <2>7. QED
      BY <2>1, <2>6, FS_EmptySet DEF Init, Typed, Retries
  <1>2. QED
    BY <1>1 DEF Init, PInv, OneRowPerKey, RowsExpected, QueueExpected, NothingLost

\* A step that leaves the windows and the tables alone.
LEMMA RowsFrame ==
    ASSUME PInv, Typed', UNCHANGED <<stored, rows>>,
           NEW r \in Run, todo'[r] = todo[r], state'[r] = state[r], seen'[r] = seen[r]
    PROVE  QueueExpected(r)' /\ NothingLost(r)'
  <1>1. QueueExpected(r) /\ NothingLost(r)
    BY DEF PInv
  <1>2. \A x : /\ Placed(x)' <=> Placed(x)
               /\ Written(r, x)' <=> Written(r, x)
    BY DEF Placed, Written, RowOfRun
  <1>3. \A u, p : Expected(r, u, p)' <=> Expected(r, u, p)
    BY DEF Expected, Base
  <1>4. QED
    BY <1>1, <1>2, <1>3 DEF QueueExpected, NothingLost, RowOfRun

\* What a run is expected to have written stays expected when its attempt
\* ends, or when more copies come in: a query never sees more than there is.
LEMMA ExpectedGrows ==
    ASSUME PInv, Typed', NEW r \in Run, \A t \in Tx : stored[t] <= stored'[t],
           Base(r)' \in {Base(r), stored'}, NEW u, NEW v, Expected(r, u, v)
    PROVE  Expected(r, u, v)'
  <1>1. Base(r) \in Copies /\ stored' \in Copies /\ stored \in Copies
    BY DEF PInv, Typed, Base
  <1>2. \A t \in Tx : Base(r)[t] <= stored[t]
    BY <1>1 DEF PInv, Typed, TypeOK, Base, Copies
  <1>3. \A t \in Tx : Base(r)[t] <= stored'[t]
    BY <1>1, <1>2 DEF Copies
  <1>4. CASE Base(r)' = Base(r)
    BY <1>4 DEF Expected
  <1>5. CASE Base(r)' = stored'
    <2>1. PICK y \in Result(r, Base(r)) : y.user = u /\ y.partner = v
      BY DEF Expected
    <2>2. PICK z \in Result(r, stored') : z.user = y.user /\ z.partner = y.partner
      BY <1>1, <1>3, <2>1, ResultGrows
    <2>3. QED
      BY <1>5, <2>1, <2>2 DEF Expected
  <1>6. QED
    BY <1>4, <1>5

\* The tables stay as they should be while neither they nor the topic change,
\* and no run is taken to a result with fewer rows.
LEMMA TablesFrame ==
    ASSUME PInv, Typed', UNCHANGED <<stored, rows>>,
           \A r \in Run : Base(r)' \in {Base(r), stored}
    PROVE  (OneRowPerKey /\ RowsExpected)'
  <1>1. stored \in Copies
    BY DEF PInv, Typed
  <1>2. \A t \in Tx : stored[t] <= stored'[t]
    BY <1>1 DEF Copies
  <1>3. \A r \in Run : \A u, v : Expected(r, u, v) => Expected(r, u, v)'
    BY <1>2, ExpectedGrows
  <1>4. \A w : Placed(w) => Placed(w)'
    BY DEF Placed
  <1>5. QED
    BY <1>3, <1>4 DEF PInv, OneRowPerKey, RowsExpected, RowOfRun, SameKey

\* Time passing disturbs nothing.
LEMMA TickPreserves ==
    ASSUME PInv, Tick
    PROVE  PInv'
  <1>1. Typed'
    BY DEF PInv, Typed, TypeOK, Tick
  <1>2. \A r \in Run : Base(r)' = Base(r)
    BY DEF Base, Tick
  <1>3. QED
    BY <1>1, <1>2, RowsFrame, TablesFrame DEF PInv, Tick

\* A run that is skipped leaves the tables and the queues of the others.
LEMMA SkipPreserves ==
    ASSUME PInv, NEW q \in Run, SkipDownstream(q)
    PROVE  PInv'
  <1>1. Typed'
    BY DEF PInv, Typed, TypeOK, SkipDownstream, Ended
  <1>2. \A r \in Run \ {q} : QueueExpected(r)' /\ NothingLost(r)'
    <2> TAKE r \in Run \ {q}
    <2>1. state'[r] = state[r] /\ todo'[r] = todo[r] /\ seen'[r] = seen[r]
      BY DEF SkipDownstream, PInv, Typed, TypeOK
    <2>2. QED
      BY <1>1, <2>1, RowsFrame DEF SkipDownstream
  <1>3. state'[q] = "upstreamFailed"
    BY DEF SkipDownstream, PInv, Typed, TypeOK
  <1>4. QueueExpected(q)' /\ NothingLost(q)'
    BY <1>3 DEF PInv, QueueExpected, NothingLost, SkipDownstream, Placed, Expected, Base, RowOfRun
  <1>5. \A r \in Run : Base(r)' \in {Base(r), stored}
    BY DEF Base, SkipDownstream, PInv, Typed, TypeOK
  <1>6. QED
    BY <1>1, <1>2, <1>4, <1>5, TablesFrame DEF PInv, SkipDownstream

\* The queue of a failed attempt is gone, what it inserted stays.
LEMMA FailPreserves ==
    ASSUME PInv, NEW q \in Run, Fail(q)
    PROVE  PInv'
  <1>1. Typed'
    <2>1. tries[q] \in Nat /\ tries[q] <= Retries
      BY DEF PInv, Typed, TypeOK, Fail, Ready, Retries
    <2>2. seen' \in [Run -> Copies] /\ \A r \in Run : \A t \in Tx : seen'[r][t] \in 0 .. stored[t]
      BY DEF PInv, Typed, TypeOK, Fail, Zero, Copies
    <2>3. /\ failures' \in [Task -> Nat]
          /\ \A task \in Task : failures'[task] <= MaxFailures[task]
      <3>1. MaxFailures \in [Task -> Nat] /\ failures \in [Task -> Nat]
        BY TasksAssumption DEF PInv, Typed, TypeOK
      <3>2. /\ \A task \in Task : failures[task] <= MaxFailures[task]
            /\ failures[q.task] < MaxFailures[q.task]
            /\ failures' = [failures EXCEPT ![q.task] = @ + 1]
        BY DEF PInv, Typed, TypeOK, Fail
      <3>3. q.task \in Task
        BY DEF Run
      <3>4. QED
        BY <3>1, <3>2, <3>3
    <2>4. /\ state' \in [Run -> {"scheduled", "writing", "paused"} \cup Ended]
          /\ tries' \in [Run -> 0 .. Retries + 1]
          /\ \A r \in Run : state'[r] \in {"scheduled", "writing"} => tries'[r] <= Retries
      BY <2>1 DEF PInv, Typed, TypeOK, Fail, Ended, Retries
    <2>5. todo' \in [Run -> SUBSET QueryRow] /\ UNCHANGED <<now, stored, rows>>
      BY DEF PInv, Typed, Fail
    <2>6. QED
      BY <2>2, <2>3, <2>4, <2>5 DEF PInv, Typed, TypeOK
  <1>2. \A r \in Run \ {q} : QueueExpected(r)' /\ NothingLost(r)'
    <2> TAKE r \in Run \ {q}
    <2>1. state'[r] = state[r] /\ todo'[r] = todo[r] /\ seen'[r] = seen[r]
      BY DEF Fail, PInv, Typed, TypeOK
    <2>2. QED
      BY <1>1, <2>1, RowsFrame DEF Fail
  <1>3. todo'[q] = {} /\ state'[q] \in {"scheduled", "failed"}
    BY DEF Fail, PInv, Typed, TypeOK
  <1>4. QueueExpected(q)' /\ NothingLost(q)'
    BY <1>3 DEF QueueExpected, NothingLost
  <1>5. \A r \in Run : Base(r)' \in {Base(r), stored}
    BY <1>3 DEF Base, Fail, PInv, Typed, TypeOK
  <1>6. QED
    BY <1>1, <1>2, <1>4, <1>5, TablesFrame DEF PInv, Fail

\* A query puts its result in the queue.
LEMMA QueryPreserves ==
    ASSUME PInv, NEW q \in Run, Query(q)
    PROVE  PInv'
  <1>1. \A x \in Result(q, stored) :
            /\ x \in QueryRow /\ RowOfRun(q, x)
            /\ x.partner = Nothing <=> q.task \in {"cashOut30m", "spent3h"}
            /\ Placed(x)
    BY ResultTyped, CashOutRow DEF PInv, Typed, RowOfRun, Placed
  <1> DEFINE sum == SumOf(Window[q], stored)
  <1>c. /\ stored \in Copies /\ sum \in Copies
        /\ \A t \in Tx : sum[t] \in 0 .. stored[t]
        /\ \A t \in Window[q] : sum[t] = stored[t]
    BY DEF PInv, Typed, SumOf, Copies, Window
  <1>r. Result(q, sum) = Result(q, stored)
    BY <1>c, ResultLocal
  <1> HIDE DEF sum
  <1>s. seen' = [seen EXCEPT ![q] = sum]
    BY DEF Query, sum
  <1>2. Typed'
    <2>1. seen' \in [Run -> Copies] /\ \A r \in Run : \A t \in Tx : seen'[r][t] \in 0 .. stored[t]
      BY <1>c, <1>s DEF PInv, Typed, TypeOK
    <2>2. QED
      BY <1>1, <2>1 DEF PInv, Typed, TypeOK, Query, Ready, Ended
  <1>3. \A r \in Run \ {q} : QueueExpected(r)' /\ NothingLost(r)'
    <2> TAKE r \in Run \ {q}
    <2>1. state'[r] = state[r] /\ todo'[r] = todo[r] /\ seen'[r] = seen[r]
      BY DEF Query, PInv, Typed, TypeOK
    <2>2. QED
      BY <1>2, <2>1, RowsFrame DEF Query
  <1>4. /\ todo'[q] = Result(q, stored) /\ stored' = stored /\ seen'[q] = sum
        /\ state'[q] = IF Result(q, stored) = {} THEN "success" ELSE "writing"
    BY <1>s DEF Query, PInv, Typed, TypeOK
  <1>5. QueueExpected(q)'
    BY <1>1, <1>4, <1>r DEF QueueExpected, Expected, Base, RowOfRun, Placed
  <1>6. NothingLost(q)'
    BY <1>4, <1>r DEF NothingLost
  <1>7. (OneRowPerKey /\ RowsExpected)'
    <2>1. ASSUME NEW r \in Run, NEW u, NEW v, Expected(r, u, v)
          PROVE  Expected(r, u, v)'
      <3>1. CASE r = q
        BY <2>1, <3>1, <1>4, <1>r DEF Expected, Base, Query, Ready
      <3>2. CASE r # q
        BY <2>1, <3>2, <1>4, <1>s DEF Expected, Base, Query, PInv, Typed, TypeOK
      <3>3. QED
        BY <3>1, <3>2
    <2>2. QED
      BY <2>1, <1>4 DEF PInv, OneRowPerKey, RowsExpected, RowOfRun, SameKey, Placed, Query
  <1>8. QED
    BY <1>2, <1>3, <1>5, <1>6, <1>7 DEF PInv, Query

\* One more copy of a transaction: results as of now grow, and what a query
\* has seen is as it was.
LEMMA IngestPreserves ==
    ASSUME PInv, NEW t \in Tx, Ingest(t)
    PROVE  PInv'
  <1>1. /\ stored \in Copies /\ stored' \in Copies
        /\ \A u \in Tx : stored[u] <= stored'[u]
        /\ \A u \in Tx \ {t} : stored'[u] = stored[u]
    BY DEF PInv, Typed, Copies, Ingest
  <1>2. Typed'
    <2>1. \A r \in Run : \A u \in Tx : seen'[r][u] \in 0 .. stored'[u]
      BY <1>1 DEF PInv, Typed, TypeOK, Ingest, Copies
    <2>2. QED
      BY <1>1, <2>1 DEF PInv, Typed, TypeOK, Ingest
  <1>3. \A r \in Run : \A u, p : Expected(r, u, p) => Expected(r, u, p)'
    <2> TAKE r \in Run
    <2>1. Base(r)' \in {Base(r), stored'}
      BY DEF Base, Ingest
    <2>2. QED
      BY <1>1, <1>2, <2>1, ExpectedGrows
  <1>4. \A x : x.task = "cashOut30m" /\ x.total \in Copies /\ Placed(x) => Placed(x)'
    <2> SUFFICES ASSUME NEW x, x.task = "cashOut30m", x.total \in Copies, Placed(x), NEW u \in Tx
                 PROVE  x.total[u] <= stored'[u]
      BY DEF Placed
    <2>1. x.total[u] \in Nat /\ stored[u] \in Nat /\ stored'[u] \in Nat
      BY <1>1 DEF Copies
    <2>2. QED
      BY <1>1, <2>1 DEF Placed
  <1>5. (\A w \in rows : w.total \in Copies) /\ (\A r \in Run : \A x \in todo[r] : x.total \in Copies)
    BY DEF PInv, Typed, TableRow, QueryRow
  <1>6. (OneRowPerKey /\ RowsExpected)'
    BY <1>3, <1>4, <1>5 DEF PInv, OneRowPerKey, RowsExpected, SameKey, RowOfRun, Placed, Ingest
  <1>7. ASSUME NEW r \in Run
        PROVE  QueueExpected(r)' /\ NothingLost(r)'
    <2>1. QueueExpected(r)'
      <3>1. QueueExpected(r) /\ todo' = todo
        BY DEF PInv, Ingest
      <3>2. \A x \in todo[r] : Placed(x)'
        BY <1>4, <1>5, <3>1 DEF QueueExpected, Placed
      <3>3. QED
        BY <1>3, <3>1, <3>2 DEF QueueExpected, RowOfRun
    <2>2. NothingLost(r)'
      BY DEF PInv, NothingLost, Written, RowOfRun, Ingest
    <2>3. QED
      BY <2>1, <2>2
  <1>8. QED
    BY <1>2, <1>6, <1>7 DEF PInv

\* An INSERT replaces the row with its key and no other.
LEMMA UpsertedRows ==
    ASSUME Typed, NEW row \in QueryRow
    PROVE  \E new \in TableRow :
               /\ new.task = row.task /\ new.user = row.user /\ new.from = row.from
               /\ new.partner = row.partner /\ new.total = row.total
               /\ \A w : w \in Upserted(row) <=> (w \in rows /\ ~SameKey(w, row)) \/ w = new
  <1> DEFINE new == [task |-> row.task, user |-> row.user, from |-> row.from,
                     partner |-> row.partner, total |-> row.total, written |-> now]
  <1>1. new \in TableRow
    BY DEF QueryRow, TableRow, Typed, TypeOK
  <1>2. \A w : w \in Upserted(row) <=> (w \in rows /\ ~SameKey(w, row)) \/ w = new
    BY KeyIsSameKey DEF Upserted
  <1>3. QED
    BY <1>1, <1>2

\* What other runs have written and expect is as it was: a row belongs to one
\* run only.
LEMMA InsertPreserves ==
    ASSUME PInv, NEW q \in Run, Insert(q)
    PROVE  PInv'
  <1>1. PICK row \in todo[q] :
            /\ rows' = Upserted(row)
            /\ todo' = [todo EXCEPT ![q] = @ \ {row}]
            /\ state' = [state EXCEPT ![q] = IF todo[q] = {row} THEN "success" ELSE "writing"]
    BY DEF Insert
  <1>2. row \in QueryRow
    BY DEF PInv, Typed
  <1>3. PICK new \in TableRow :
            /\ new.task = row.task /\ new.user = row.user /\ new.from = row.from
            /\ new.partner = row.partner /\ new.total = row.total
            /\ \A w : w \in rows' <=> (w \in rows /\ ~SameKey(w, row)) \/ w = new
    BY <1>1, <1>2, UpsertedRows DEF PInv
  <1>4. /\ RowOfRun(q, row) /\ Placed(row) /\ Expected(q, row.user, row.partner)
        /\ row.partner = Nothing <=> q.task \in {"cashOut30m", "spent3h"}
    BY DEF PInv, QueueExpected
  <1>5. UNCHANGED <<now, stored, tries, seen, failures>> /\ state[q] = "writing"
    BY DEF Insert
  <1>6. Typed'
    <2>1. rows' \subseteq TableRow /\ IsFiniteSet(rows')
      <3>1. rows' \subseteq rows \cup {new} /\ IsFiniteSet(rows \cup {new})
        BY <1>3, FS_AddElement DEF PInv, Typed
      <3>2. QED
        BY <1>3, <3>1, FS_Subset DEF PInv, Typed
    <2>2. todo' \in [Run -> SUBSET QueryRow]
      BY <1>1 DEF PInv, Typed
    <2>3. /\ state' \in [Run -> {"scheduled", "writing", "paused"} \cup Ended]
          /\ \A r \in Run : state'[r] \in {"scheduled", "writing"} => tries[r] <= Retries
      BY <1>1, <1>5 DEF PInv, Typed, TypeOK, Ended
    <2>4. /\ new.task \in Task /\ new.user \in User /\ new.written \in Start .. Horizon
          /\ IF new.task \in {"cashOut30m", "spent3h"}
             THEN new.partner = Nothing ELSE new.partner \in User
      BY <1>3, <1>4 DEF TableRow, RowOfRun
    <2>5. QED
      BY <2>1, <2>2, <2>3, <2>4, <1>3, <1>5 DEF PInv, Typed, TypeOK
  <1>7. OneRowPerKey'
    BY <1>3 DEF PInv, OneRowPerKey, SameKey
  <1>8. \A w \in rows' : Placed(w)'
    BY <1>3, <1>4, <1>5 DEF PInv, RowsExpected, Placed
  <1>9. \A r \in Run : RowOfRun(r, row) => r = q
    BY <1>4, RunOfWindow DEF RowOfRun
  <1>b. \A r \in Run : Base(r)' = Base(r)
    BY <1>1, <1>5 DEF Base, PInv, Typed, TypeOK
  <1>10. \A w \in rows' : \A r \in Run : RowOfRun(r, w) => Expected(r, w.user, w.partner)'
    BY <1>3, <1>4, <1>b, <1>9 DEF PInv, RowsExpected, Expected, RowOfRun
  <1>11. ASSUME NEW r \in Run
         PROVE  QueueExpected(r)'
    <2>1. todo'[r] \subseteq todo[r]
      BY <1>1 DEF PInv, Typed
    <2>2. QED
      BY <2>1, <1>5, <1>b DEF PInv, QueueExpected, RowOfRun, Placed, Expected
  \* Rows with another key are kept.
  <1>12. ASSUME NEW r \in Run, NEW y, Written(r, y),
                r # q \/ y.user # row.user \/ y.partner # row.partner
         PROVE  Written(r, y)'
    <2>1. PICK w \in rows : /\ RowOfRun(r, w)
                            /\ w.user = y.user /\ w.partner = y.partner /\ w.total = y.total
      BY <1>12 DEF Written
    <2>2. ~SameKey(w, row)
      BY <2>1, <1>9, <1>12 DEF SameKey, RowOfRun
    <2>3. QED
      BY <2>1, <2>2, <1>3 DEF Written, RowOfRun
  <1>13. ASSUME NEW r \in Run
         PROVE  NothingLost(r)'
    <2>1. NothingLost(r)
      BY DEF PInv
    <2>2. CASE r # q
      <3>1. todo'[r] = todo[r] /\ state'[r] = state[r]
        BY <2>2, <1>1 DEF PInv, Typed, TypeOK
      <3>2. QED
        BY <2>1, <2>2, <3>1, <1>5, <1>12 DEF NothingLost
    <2>3. CASE r = q
      <3>1. /\ todo[q] \subseteq Result(q, seen[q])
            /\ \A y \in Result(q, seen[q]) \ todo[q] : Written(q, y)
        BY <2>1, <2>3, <1>5 DEF NothingLost
      <3>2. Written(q, row)'
        BY <1>3, <1>4 DEF Written, RowOfRun
      <3>3. seen[q] \in Copies
        BY DEF PInv, Typed
      <3>4. ASSUME NEW y \in Result(q, seen[q]), y \notin todo[q] \ {row}
            PROVE  Written(q, y)'
        <4>1. CASE y = row
          BY <4>1, <3>2
        <4>2. CASE y # row
          <5>1. Written(q, y)
            BY <4>2, <3>1, <3>4
          <5>2. y.user # row.user \/ y.partner # row.partner
            BY <4>2, <3>1, <3>3, ResultKeys
          <5>3. QED
            BY <5>1, <5>2, <1>12
        <4>3. QED
          BY <4>1, <4>2
      <3>5. /\ todo'[q] = todo[q] \ {row}
            /\ state'[q] = IF todo[q] = {row} THEN "success" ELSE "writing"
        BY <1>1 DEF PInv, Typed, TypeOK
      <3>6. QED
        BY <2>3, <3>1, <3>4, <3>5, <1>5 DEF NothingLost
    <2>4. QED
      BY <2>2, <2>3
  <1>14. QED
    BY <1>6, <1>7, <1>8, <1>10, <1>11, <1>13, <1>5 DEF PInv, RowsExpected, RowOfRun

-----------------------------------------------------------------------------
(* The theorems. *)

\* The tables are never ahead of the results of the runs, in any order of
\* runs, retries and copies.
THEOREM PipelineInvariance == Spec => []PInv
  <1>1. ASSUME PInv, [Next]_vars
        PROVE  PInv'
    <2>1. CASE Tick
      BY <1>1, <2>1, TickPreserves
    <2>2. CASE \E t \in Tx : Ingest(t)
      BY <1>1, <2>2, IngestPreserves
    <2>3. ASSUME NEW r \in Run, Step(r) \/ Fail(r)
          PROVE  PInv'
      BY <1>1, <2>3, QueryPreserves, InsertPreserves, SkipPreserves, FailPreserves DEF Step
    <2>4. CASE UNCHANGED vars
      <3>1. Typed'
        BY <1>1, <2>4 DEF PInv, Typed, TypeOK, vars
      <3>2. \A r \in Run : Base(r)' = Base(r)
        BY <2>4 DEF Base, vars
      <3>3. QED
        BY <1>1, <2>4, <3>1, <3>2, RowsFrame, TablesFrame DEF PInv, vars
    <2>5. QED
      BY <1>1, <2>1, <2>2, <2>3, <2>4 DEF Next, Idle
  <1>2. QED
    BY PipelineInit, <1>1, PTL DEF Spec

\* Every variable keeps its type; partner rows have a partner although the
\* receiver of a message may be NULL (create table, Message).
THEOREM TypeCorrect == Spec => []TypeOK
  <1>1. PInv => TypeOK
    BY DEF PInv, Typed
  <1>2. QED
    BY PipelineInvariance, <1>1, PTL

\* No cash-out is in two sums, and none counts more copies than ClickHouse
\* holds, for any number of transactions, users, copies and windows, however
\* the runs of the cash-out DAG are ordered, retried or cut off.
THEOREM CountedOnce == Spec => []NothingCountedTwice
  <1>1. ASSUME PInv, NEW t \in Tx
        PROVE  LET sums == {row \in rows : row.task = "cashOut30m" /\ row.total[t] > 0}
               IN  Cardinality(sums) <= 1 /\ \A row \in sums : row.total[t] <= stored[t]
    <2> DEFINE sums == {row \in rows : row.task = "cashOut30m" /\ row.total[t] > 0}
    <2>1. \A row \in sums : /\ row.user = SenderOf[t] /\ row.from = CreatedAt[t]
                            /\ row.partner = Nothing /\ row.total[t] <= stored[t]
      BY <1>1 DEF PInv, RowsExpected, Placed, Typed, TypeOK
    <2>2. \A v, w \in sums : v = w
      BY <1>1, <2>1 DEF PInv, OneRowPerKey, SameKey
    <2>3. Cardinality(sums) <= 1
      <3> HIDE DEF sums
      <3>1. CASE sums = {}
        BY <3>1, FS_EmptySet
      <3>2. CASE sums # {}
        <4>1. PICK w \in sums : TRUE
          BY <3>2
        <4>2. sums = {w}
          BY <4>1, <2>2
        <4>3. Cardinality({w}) = 1
          BY FS_Singleton
        <4>4. QED
          BY <4>2, <4>3
      <3>3. QED
        BY <3>1, <3>2
    <2>4. QED
      BY <2>1, <2>3
  <1>2. PInv => NothingCountedTwice
    BY <1>1 DEF NothingCountedTwice
  <1>3. QED
    BY PipelineInvariance, <1>2, PTL

\* A run that reports success has left exactly the result of what its last
\* query saw, however many attempts failed half-way before, on whatever they
\* had seen, and whatever came in since.
THEOREM SuccessIsComplete == Spec => []SuccessIsTheWholeWindow
  <1>1. ASSUME PInv, NEW r \in Run, state[r] = "success"
        PROVE  RowsOf(r) = Result(r, seen[r])
    <2>1. seen[r] \in Copies
      BY <1>1 DEF PInv, Typed
    <2>2. ASSUME NEW y \in Result(r, seen[r])
          PROVE  y \in RowsOf(r)
      <3>1. PICK w \in rows : /\ RowOfRun(r, w)
                              /\ w.user = y.user /\ w.partner = y.partner /\ w.total = y.total
        BY <1>1 DEF PInv, NothingLost, Written
      <3>2. y = Row(r, w.user, w.partner, w.total)
        BY <2>1, <3>1, ResultTyped
      <3>3. QED
        BY <3>1, <3>2 DEF RowsOf, RowOfRun
    <2>3. ASSUME NEW x \in RowsOf(r)
          PROVE  x \in Result(r, seen[r])
      <3>1. PICK w \in rows : RowOfRun(r, w) /\ x = Row(r, w.user, w.partner, w.total)
        BY DEF RowsOf, RowOfRun
      <3>2. PICK y \in Result(r, seen[r]) : y.user = w.user /\ y.partner = w.partner
        BY <1>1, <3>1 DEF PInv, RowsExpected, Expected, Base
      <3>3. PICK v \in rows : /\ RowOfRun(r, v)
                              /\ v.user = y.user /\ v.partner = y.partner /\ v.total = y.total
        BY <1>1 DEF PInv, NothingLost, Written
      <3>4. v = w
        BY <1>1, <3>1, <3>2, <3>3 DEF PInv, OneRowPerKey, SameKey, RowOfRun
      <3>5. x = y
        BY <2>1, <3>1, <3>2, <3>3, <3>4, ResultTyped
      <3>6. QED
        BY <3>5
    <2>4. QED
      BY <2>2, <2>3
  <1>2. PInv => SuccessIsTheWholeWindow
    BY <1>1 DEF SuccessIsTheWholeWindow
  <1>3. QED
    BY PipelineInvariance, <1>2, PTL

-----------------------------------------------------------------------------
(* What the antifraud reads when the runs of a feature have ended well. *)

\* Rows are written by runs whose interval is over.
Started ==
    /\ \A r \in Run : state[r] = "writing" => r.end <= now
    /\ \A w \in rows : \E r \in Due : RowOfRun(r, w)

\* No step writes for a run whose interval is not over.
LEMMA StartedStep ==
    ASSUME PInv, Started, [Next]_vars
    PROVE  Started'
  <1> USE DEF Started, Due
  <1>1. state \in [Run -> {"scheduled", "writing", "paused"} \cup Ended] /\ now \in Int
    BY DEF PInv, Typed, TypeOK
  <1>2. CASE Tick
    <2>1. now' = now + 1 /\ UNCHANGED <<state, rows>>
      BY <1>2 DEF Tick
    <2>2. \A r \in Run : r.end \in Int
      BY DEF Run
    <2>3. QED
      BY <2>1, <2>2, <1>1 DEF RowOfRun
  <1>3. CASE \E t \in Tx : Ingest(t)
    BY <1>3 DEF Ingest, RowOfRun
  <1>4. ASSUME NEW q \in Run, Query(q)
        PROVE  Started'
    BY <1>1, <1>4 DEF Query, Ready, RowOfRun
  <1>5. ASSUME NEW q \in Run, Insert(q)
        PROVE  Started'
    <2>1. PICK row \in todo[q] :
              /\ rows' = Upserted(row)
              /\ state' = [state EXCEPT ![q] = IF todo[q] = {row} THEN "success" ELSE "writing"]
      BY <1>5 DEF Insert
    <2>2. row \in QueryRow /\ RowOfRun(q, row) /\ Typed
      BY DEF PInv, Typed, QueueExpected
    <2>3. state[q] = "writing" /\ now' = now
      BY <1>5 DEF Insert
    <2>4. \A w \in rows' : w \in rows \/ (w.task = row.task /\ w.from = row.from)
      BY <2>1, <2>2, UpsertedRows
    <2>5. QED
      BY <1>1, <2>1, <2>2, <2>3, <2>4 DEF RowOfRun
  <1>6. ASSUME NEW q \in Run, SkipDownstream(q) \/ Fail(q)
        PROVE  Started'
    BY <1>1, <1>6 DEF SkipDownstream, Fail, RowOfRun
  <1>7. CASE UNCHANGED vars
    BY <1>7 DEF vars, RowOfRun
  <1>8. QED
    BY <1>2, <1>3, <1>4, <1>5, <1>6, <1>7 DEF Next, Step, Idle

\* Of some naturals one is the least.
LEMMA Least ==
    ASSUME NEW S \in SUBSET Nat, S # {}
    PROVE  \E n \in S : \A m \in S : n <= m
  <1> DEFINE R == OpToRel(<, Nat)
  <1>1. IsWellFoundedOn(R, Nat)
    BY NatLessThanWellFounded
  <1>2. PICK n \in S : \A m \in S : <<m, n>> \notin R
    <2> HIDE DEF R
    <2>1. QED
      BY <1>1, WFMin
  <1>3. \A m \in S : ~(m < n)
    BY <1>2 DEF OpToRel
  <1>4. QED
    BY <1>3

\* Of some naturals below a bound one is the greatest.
LEMMA Greatest ==
    ASSUME NEW S \in SUBSET Nat, S # {}, NEW bound \in Nat, \A n \in S : n <= bound
    PROVE  \E n \in S : \A m \in S : m <= n
  <1> DEFINE T == {bound - n : n \in S}
  <1>1. T \in SUBSET Nat /\ T # {}
    <2>1. PICK n \in S : TRUE
      OBVIOUS
    <2>2. bound - n \in T
      BY <2>1
    <2>3. \A i \in S : bound - i \in Nat
      OBVIOUS
    <2>4. QED
      BY <2>2, <2>3
  <1>2. PICK x \in T : \A y \in T : x <= y
    <2> HIDE DEF T
    <2>1. QED
      BY <1>1, Least
  <1>3. PICK n \in S : x = bound - n
    BY <1>2
  <1>4. ASSUME NEW m \in S PROVE m <= n
    <2>0. bound - m \in T
      BY <1>4
    <2>1. bound - n <= bound - m
      BY <1>2, <1>3, <2>0
    <2>2. QED
      BY <2>1
  <1>5. QED
    BY <1>4

\* Each row of a settled feature is a row of the result of a run that is due,
\* and each such run has written its result.
LEMMA SettledTables ==
    ASSUME PInv, Started, NEW task, Settled(task)
    PROVE  /\ \A w \in rows : w.task = task =>
                  \E r \in Due : r.task = task /\ \E y \in Result(r, seen[r]) :
                      /\ RowOfRun(r, w)
                      /\ w.user = y.user /\ w.partner = y.partner /\ w.total = y.total
           /\ \A r \in Due : r.task = task => \A y \in Result(r, seen[r]) : Written(r, y)
  <1>1. \A r \in Due : r.task = task =>
            r \in Run /\ state[r] = "success" /\ Base(r) = seen[r]
    BY DEF Settled, Due, Base
  <1>2. \A r \in Due : r.task = task => \A y \in Result(r, seen[r]) : Written(r, y)
    BY <1>1 DEF PInv, NothingLost
  <1>3. ASSUME NEW w \in rows, w.task = task
        PROVE  \E r \in Due : r.task = task /\ \E y \in Result(r, seen[r]) :
                   /\ RowOfRun(r, w)
                   /\ w.user = y.user /\ w.partner = y.partner /\ w.total = y.total
    <2>1. PICK r \in Due : RowOfRun(r, w)
      BY DEF Started
    <2>2. r.task = task /\ r \in Run /\ Base(r) = seen[r]
      BY <1>1, <1>3, <2>1 DEF RowOfRun
    <2>3. PICK y \in Result(r, seen[r]) : y.user = w.user /\ y.partner = w.partner
      BY <2>1, <2>2 DEF PInv, RowsExpected, Expected
    <2>4. PICK v \in rows : /\ RowOfRun(r, v)
                            /\ v.user = y.user /\ v.partner = y.partner /\ v.total = y.total
      BY <1>2, <2>2 DEF Written
    <2>5. v = w
      BY <2>1, <2>3, <2>4 DEF PInv, OneRowPerKey, SameKey, RowOfRun
    <2>6. QED
      BY <2>1, <2>2, <2>3, <2>4, <2>5
  <1>4. QED
    BY <1>2, <1>3

\* A sum that is read is that of the newest run with a row for the user.
LEMMA NewestRun ==
    ASSUME PInv, Started,
           NEW r \in Due, r.task \in {"cashOut30m", "spent3h"}, Settled(r.task),
           NEW y \in Result(r, seen[r]),
           \A s \in Due : s.task = r.task /\ (\E z \in Result(s, seen[s]) : z.user = y.user)
                              => s.end <= r.end
    PROVE  Sum(r.task, y.user) = y.total
  <1> DEFINE L == Live(r.task, y.user)
  <1>1. L = {w \in rows : w.task = r.task /\ w.user = y.user}
    BY DEF Live, Settled
  <1>2. \A s \in Due : s \in Run /\ s.task \in Task /\ s.end \in Int /\ Width[s.task] \in Int
    BY Widths DEF Due, Run
  <1>3. PICK w \in rows : /\ RowOfRun(r, w)
                          /\ w.user = y.user /\ w.partner = y.partner /\ w.total = y.total
    BY SettledTables DEF Written
  <1>4. w \in L
    BY <1>1, <1>3 DEF RowOfRun
  <1>5. \A v \in L : v.from <= w.from
    <2> TAKE v \in L
    <2>1. PICK s \in Due : s.task = r.task /\ \E z \in Result(s, seen[s]) :
                               RowOfRun(s, v) /\ v.user = z.user
      BY <1>1, SettledTables
    <2>2. s.end <= r.end
      BY <1>1, <2>1
    <2>3. QED
      BY <1>2, <1>3, <2>1, <2>2 DEF RowOfRun
  <1>6. \A v \in Newest(L) : v = w
    <2> TAKE v \in Newest(L)
    <2>1. v \in L /\ w.from <= v.from /\ v.from <= w.from
      BY <1>4, <1>5 DEF Newest
    <2>2. v \in TableRow /\ w \in TableRow
      BY <1>1, <2>1 DEF PInv, Typed
    <2>3. v.from = w.from
      <3>1. v.from \in Int /\ w.from \in Int
        BY <2>2 DEF TableRow
      <3>2. QED
        BY <2>1, <3>1
    <2>4. v.task = w.task /\ v.user = w.user
      BY <1>1, <1>3, <2>1 DEF RowOfRun
    <2>5. v.partner = Nothing /\ w.partner = Nothing
      BY <1>1, <1>3, <2>1, <2>4 DEF PInv, Typed, TypeOK, RowOfRun
    <2>6. QED
      BY <1>1, <2>1, <2>3, <2>4, <2>5 DEF PInv, OneRowPerKey, SameKey
  <1>7. w \in Newest(L)
    BY <1>4, <1>5 DEF Newest
  <1>8. (CHOOSE row \in Newest(L) : TRUE) = w
    BY <1>6, <1>7
  <1>9. L # {}
    BY <1>4
  <1>10. QED
    BY <1>3, <1>8, <1>9 DEF Sum

\* The cash-out feature of a user.
LEMMA CashOutSum ==
    ASSUME PInv, Started, Settled("cashOut30m"), NEW u \in User
    PROVE  LET busy == {r \in Due : r.task = "cashOut30m" /\ SeenOf(r, u) # {}}
           IN  IF busy = {} THEN Sum("cashOut30m", u) = Zero
               ELSE \E r \in busy : /\ \A s \in busy : s.end <= r.end
                                    /\ Sum("cashOut30m", u) = SumOf(SeenOf(r, u), seen[r])
  <1> DEFINE busy == {r \in Due : r.task = "cashOut30m" /\ SeenOf(r, u) # {}}
  <1>1. \A r, v, p, c : Row(r, v, p, c).user = v /\ Row(r, v, p, c).total = c
    BY DEF Row
  <1>2. ASSUME NEW r \in Due, r.task = "cashOut30m"
        PROVE  /\ \A z \in Result(r, seen[r]) : SeenOf(r, z.user) # {}
               /\ \A v \in User : SeenOf(r, v) # {} =>
                      \E z \in Result(r, seen[r]) :
                          z.user = v /\ z.total = SumOf(SeenOf(r, v), seen[r])
    <2>1. /\ \A z \in Result(r, seen[r]) :
                 \E v \in User : /\ SeenOf(r, v) # {}
                                /\ z = Row(r, v, Nothing, SumOf(SeenOf(r, v), seen[r]))
          /\ \A v \in User : SeenOf(r, v) # {} =>
                 Row(r, v, Nothing, SumOf(SeenOf(r, v), seen[r])) \in Result(r, seen[r])
      BY <1>2 DEF Result, SeenOf
    <2>2. ASSUME NEW z \in Result(r, seen[r])
          PROVE  SeenOf(r, z.user) # {}
      <3>1. PICK v \in User : /\ SeenOf(r, v) # {}
                              /\ z = Row(r, v, Nothing, SumOf(SeenOf(r, v), seen[r]))
        BY <2>1
      <3>2. z.user = v
        BY <1>1, <3>1
      <3>3. QED
        BY <3>1, <3>2
    <2>3. QED
      BY <1>1, <2>1, <2>2
  <1>3. \A s \in Due : s.task = "cashOut30m" /\ (\E z \in Result(s, seen[s]) : z.user = u) => s \in busy
    BY <1>2
  <1>4. CASE busy = {}
    <2>1. Live("cashOut30m", u) = {}
      <3> SUFFICES ASSUME NEW w \in rows, w.task = "cashOut30m", w.user = u PROVE FALSE
        BY DEF Live
      <3>1. PICK s \in Due : s.task = "cashOut30m" /\ \E z \in Result(s, seen[s]) : w.user = z.user
        BY SettledTables
      <3>2. QED
        BY <1>3, <1>4, <3>1
    <2>2. QED
      BY <1>4, <2>1 DEF Sum
  <1>5. CASE busy # {}
    <2>1. PICK r \in busy : \A s \in busy : s.end <= r.end
      <3> DEFINE ends == {s.end : s \in busy}
      <3>1. \A s \in busy : s.end \in Nat /\ s.end <= Horizon
        BY DEF Due, Run
      <3>2. ends \subseteq Nat /\ ends # {} /\ \A n \in ends : n <= Horizon
        BY <1>5, <3>1
      <3>3. PICK n \in ends : \A m \in ends : m <= n
        <4> HIDE DEF ends
        <4>1. QED
          BY <3>2, Greatest
      <3>4. QED
        BY <3>3
    <2>2. PICK y \in Result(r, seen[r]) : y.user = u /\ y.total = SumOf(SeenOf(r, u), seen[r])
      BY <1>2
    <2>3. r \in Due /\ r.task = "cashOut30m"
      OBVIOUS
    <2>4. \A s \in Due : s.task = r.task /\ (\E z \in Result(s, seen[s]) : z.user = y.user)
                             => s.end <= r.end
      BY <1>3, <2>1, <2>2, <2>3
    <2>5. Sum("cashOut30m", u) = SumOf(SeenOf(r, u), seen[r])
      <3>1. Sum(r.task, y.user) = y.total
        BY <2>3, <2>4, NewestRun
      <3>2. QED
        BY <2>2, <2>3, <3>1
    <2>6. QED
      BY <1>5, <2>1, <2>5
  <1>6. QED
    BY <1>4, <1>5

\* The spending feature.
LEMMA SpentSum ==
    ASSUME PInv, Started, Settled("spent3h"),
           NEW r \in Due, r.task = "spent3h", r.end + Period.spent3h > now
    PROVE  Sum("spent3h", Target) = SumOf(SeenOf(r, Target), seen[r])
  <1>1. now \in Int
    BY DEF PInv, Typed, TypeOK
  <1>2. Result(r, seen[r]) = {Row(r, Target, Nothing, SumOf(SeenOf(r, Target), seen[r]))}
    BY DEF Result, SeenOf
  <1>3. PICK y \in Result(r, seen[r]) : y.user = Target /\ y.total = SumOf(SeenOf(r, Target), seen[r])
    BY <1>2 DEF Row
  <1>4. \A s \in Due : s.task = r.task => s.end <= r.end
    <2> SUFFICES ASSUME NEW s \in Due, s.task = r.task
                 PROVE  s.end <= r.end
      OBVIOUS
    <2>1. Period["spent3h"] = 2
      BY DEF Period
    <2>2. /\ s.end \in Nat /\ r.end \in Nat
          /\ s.end % 2 = 0 /\ r.end % 2 = 0
          /\ s.end <= now /\ now < r.end + 2
      BY <1>1, <2>1 DEF Due, Run
    <2>3. QED
      BY <1>1, <2>2
  <1>5. Sum(r.task, y.user) = y.total
    BY <1>4, NewestRun
  <1>6. QED
    BY <1>3, <1>5

\* In any order of runs, and however often one was tried: once the runs of a
\* sum have ended well, what the antifraud reads is the sum of what the last
\* query of the newest window saw.
THEOREM SumsFollow == Spec => []SumsFollowWindows
  <1>1. Init => Started
    BY DEF Init, Started
  <1>2. PInv /\ Started => SumsFollowWindows
    BY CashOutSum, SpentSum DEF SumsFollowWindows
  <1>3. QED
    BY PipelineInvariance, StartedStep, <1>1, <1>2, PTL DEF Spec

-----------------------------------------------------------------------------
(* The first rows of a partition. *)

Bucket == [from : Int, partner : User]

\* The clustering order is a strict total order.
LEMMA ClusteringOrder ==
    ASSUME NEW a \in Bucket, NEW b \in Bucket, NEW c \in Bucket
    PROVE  /\ ~Precedes(a, a)
           /\ Precedes(a, b) /\ Precedes(b, c) => Precedes(a, c)
           /\ a # b => Precedes(a, b) \/ Precedes(b, a)
  <1>1. /\ a.from \in Int /\ b.from \in Int /\ c.from \in Int
        /\ a.partner \in User /\ b.partner \in User /\ c.partner \in User
    BY DEF Bucket
  <1>2. /\ UuidOf[a.partner] \in Nat /\ UuidOf[b.partner] \in Nat /\ UuidOf[c.partner] \in Nat
        /\ UuidOf[a.partner] = UuidOf[b.partner] => a.partner = b.partner
    BY <1>1
  <1>3. a.from = b.from /\ a.partner = b.partner => a = b
    BY DEF Bucket
  <1>4. QED
    BY <1>1, <1>2, <1>3 DEF Precedes

\* LIMIT gives as many rows as there are up to the limit, and no row that is
\* left out is of a newer window than one that is given.
LEMMA FirstRows ==
    ASSUME NEW B \in SUBSET Bucket, IsFiniteSet(B)
    PROVE  /\ FirstOf(B) \subseteq B
           /\ Cardinality(FirstOf(B)) <= RowLimit
           /\ FirstOf(B) = B \/ Cardinality(FirstOf(B)) = RowLimit
           /\ \A b \in FirstOf(B), other \in B \ FirstOf(B) : Precedes(b, other)
  <1> DEFINE Before(b) == {a \in B : Precedes(a, b)}
             Count == [b \in B |-> Cardinality(Before(b))]
             F == FirstOf(B)
  <1>1. F \subseteq B /\ \A b \in B : b \in F <=> Count[b] < RowLimit
    BY DEF FirstOf
  <1>2. IsFiniteSet(F) /\ Cardinality(F) \in Nat
    BY <1>1, FS_Subset, FS_CardinalityType
  <1>0. \A b \in B : IsFiniteSet(Before(b))
    <2> TAKE b \in B
    <2>1. Before(b) \in SUBSET B
      OBVIOUS
    <2>2. QED
      BY <2>1, FS_Subset
  <1>3. Count \in [B -> Nat]
    BY <1>0, FS_CardinalityType
  <1>4. ASSUME NEW a \in B, NEW b \in B, Precedes(a, b)
        PROVE  Count[a] < Count[b]
    <2>1. Before(a) \cup {a} \in SUBSET Before(b)
      BY <1>4, ClusteringOrder
    <2>2. a \notin Before(a)
      BY ClusteringOrder
    <2>3. Cardinality(Before(a) \cup {a}) = Count[a] + 1
      BY <1>0, <2>2, FS_AddElement
    <2>4. Cardinality(Before(a) \cup {a}) <= Count[b]
      BY <1>0, <2>1, FS_Subset
    <2> HIDE DEF Count
    <2>5. QED
      BY <1>3, <2>3, <2>4
  <1> HIDE DEF Count, F
  <1>5. Cardinality(F) <= RowLimit
    <2>1. CASE F = {}
      BY <2>1, FS_EmptySet
    <2>2. CASE F # {}
      <3> DEFINE counts == {Count[b] : b \in F}
      <3>1. counts \in SUBSET Nat /\ counts # {} /\ \A n \in counts : n <= RowLimit
        BY <1>1, <1>3, <2>2
      <3>2. PICK n \in counts : \A m \in counts : m <= n
        <4> HIDE DEF counts
        <4>1. QED
          BY <3>1, Greatest
      <3>3. PICK b \in F : \A a \in F : Count[a] <= Count[b]
        BY <3>2
      <3>4. b \in B /\ b \notin Before(b)
        BY <1>1, ClusteringOrder
      <3>5. F \in SUBSET (Before(b) \cup {b})
        <4> SUFFICES ASSUME NEW a \in F, a # b PROVE Precedes(a, b)
          BY <1>1
        <4>1. ~Precedes(b, a)
          BY <1>1, <1>3, <1>4, <3>3
        <4>2. QED
          BY <1>1, <4>1, ClusteringOrder
      <3>6. /\ IsFiniteSet(Before(b) \cup {b})
            /\ Cardinality(Before(b) \cup {b}) = Count[b] + 1
        BY <1>0, <3>4, FS_AddElement DEF Count
      <3>7. Cardinality(F) <= Count[b] + 1
        BY <3>5, <3>6, FS_Subset
      <3>8. QED
        <4>1. Count[b] \in Nat /\ Count[b] < RowLimit
          BY <1>1, <1>3, <3>4
        <4>2. QED
          BY <1>2, <3>7, <4>1
    <2>3. QED
      BY <2>1, <2>2
  <1>6. F = B \/ Cardinality(F) = RowLimit
    <2> SUFFICES ASSUME F # B PROVE Cardinality(F) >= RowLimit
      BY <1>2, <1>5
    <2> DEFINE counts == {Count[b] : b \in B \ F}
    <2>1. counts \in SUBSET Nat /\ counts # {}
      <3>1. \A b \in B \ F : Count[b] \in Nat
        BY <1>3
      <3>2. \E b \in B : b \notin F
        BY <1>1
      <3>3. QED
        BY <3>1, <3>2
    <2>2. PICK n \in counts : \A m \in counts : n <= m
      <3> HIDE DEF counts
      <3>1. QED
        BY <2>1, Least
    <2>3. PICK b \in B \ F : \A a \in B \ F : Count[b] <= Count[a]
      BY <2>2
    <2>4. Before(b) \in SUBSET F
      <3> SUFFICES ASSUME NEW a \in Before(b), a \notin F PROVE FALSE
        OBVIOUS
      <3>1. Count[a] < Count[b]
        BY <1>4
      <3>2. QED
        BY <1>3, <2>3, <3>1
    <2>5. Count[b] <= Cardinality(F)
      BY <1>2, <2>4, FS_Subset DEF Count
    <2>6. QED
      BY <1>1, <1>2, <1>3, <2>5
  <1>7. ASSUME NEW b \in F, NEW other \in B \ F
        PROVE  Precedes(b, other)
    <2>1. b \in B /\ other \in B /\ b # other
      BY <1>1
    <2>2. ~Precedes(other, b)
      BY <1>1, <1>3, <1>4, <2>1
    <2>3. QED
      BY <2>1, <2>2, ClusteringOrder
  <1>8. QED
    BY <1>1, <1>5, <1>6, <1>7 DEF F

\* The rows of a partner table are the partners that were paid, once the runs
\* that are due have ended well.
LEMMA BucketsArePaid ==
    ASSUME PInv, Started, NEW task \in {"sbpPartners30m", "internalPartners30m"}, Settled(task)
    PROVE  /\ Buckets(task, Target) = Paid(task)
           /\ Paid(task) \in SUBSET Bucket
           /\ IsFiniteSet(Paid(task))
  <1>1. \A r \in Due : r.task = task =>
            /\ r.end - Width[task] \in Int
            /\ \A y \in Result(r, seen[r]) :
                   \E t \in SeenOf(r, Target) : y = Row(r, Target, ReceiverOf[t], Zero)
            /\ \A t \in SeenOf(r, Target) :
                   Row(r, Target, ReceiverOf[t], Zero) \in Result(r, seen[r])
    <2> SUFFICES ASSUME NEW r \in Due, r.task = task
                 PROVE  /\ r.end - Width[task] \in Int
                        /\ \A y \in Result(r, seen[r]) :
                               \E t \in SeenOf(r, Target) : y = Row(r, Target, ReceiverOf[t], Zero)
                        /\ \A t \in SeenOf(r, Target) :
                               Row(r, Target, ReceiverOf[t], Zero) \in Result(r, seen[r])
      OBVIOUS
    <2>1. Result(r, seen[r]) = {Row(r, Target, Message[t].receiver, Zero) : t \in SeenOf(r, Target)}
      BY DEF Result, SeenOf
    <2>2. \A t \in SeenOf(r, Target) : t \in Tx /\ OfType(r.task, Message[t].type)
      BY DEF SeenOf, Selected, Window, Due
    <2>3. \A t \in SeenOf(r, Target) : Message[t].receiver = ReceiverOf[t]
      BY <2>2 DEF Message, OfType
    <2>4. r.end - Width[task] \in Int
      BY Widths DEF Due, Run, Task
    <2>5. QED
      BY <2>1, <2>3, <2>4
  <1>2. \A r, v, p, c : Row(r, v, p, c).user = v /\ Row(r, v, p, c).partner = p
    BY DEF Row
  <1>3. ASSUME NEW b \in Buckets(task, Target)
        PROVE  b \in Paid(task)
    <2>1. PICK w \in Live(task, Target) : b = [from |-> w.from, partner |-> w.partner]
      BY DEF Buckets
    <2>2. w \in rows /\ w.task = task
      BY <2>1 DEF Live
    <2>3. PICK r \in Due : r.task = task /\ \E y \in Result(r, seen[r]) :
                               RowOfRun(r, w) /\ w.partner = y.partner
      BY <2>2, SettledTables
    <2>4. PICK t \in SeenOf(r, Target) : w.partner = ReceiverOf[t]
      <3>1. PICK y \in Result(r, seen[r]) : w.partner = y.partner
        BY <2>3
      <3>2. PICK t \in SeenOf(r, Target) : y = Row(r, Target, ReceiverOf[t], Zero)
        BY <1>1, <2>3
      <3>3. QED
        BY <1>2, <3>1, <3>2
    <2>5. w.from = r.end - Width[task]
      BY <2>3 DEF RowOfRun
    <2>6. QED
      BY <2>1, <2>3, <2>4, <2>5 DEF Paid
  <1>4. ASSUME NEW b \in Paid(task)
        PROVE  b \in Buckets(task, Target) /\ b \in Bucket
    <2>0. PICK r \in Due : r.task = task /\ \E t \in SeenOf(r, Target) :
                               b = [from |-> r.end - Width[task], partner |-> ReceiverOf[t]]
      BY DEF Paid
    <2>1. PICK t \in SeenOf(r, Target) :
              r.task = task /\ b = [from |-> r.end - Width[task], partner |-> ReceiverOf[t]]
      BY <2>0
    <2>2. Row(r, Target, ReceiverOf[t], Zero) \in Result(r, seen[r])
      BY <1>1, <2>1
    <2>3. Written(r, Row(r, Target, ReceiverOf[t], Zero))
      BY <2>1, <2>2, SettledTables
    <2>4. PICK w \in rows : RowOfRun(r, w) /\ w.user = Target /\ w.partner = ReceiverOf[t]
      BY <2>3, <1>2 DEF Written
    <2>5. w \in Live(task, Target) /\ w.from = r.end - Width[task]
      BY <2>1, <2>4 DEF Live, Settled, RowOfRun
    <2>6. t \in Tx
      BY DEF SeenOf, Selected, Window, Due
    <2>7. QED
      BY <1>1, <2>1, <2>4, <2>5, <2>6 DEF Buckets, Bucket
  <1>5. IsFiniteSet(Buckets(task, Target))
    <2> DEFINE f == [row \in Live(task, Target) |-> [from |-> row.from, partner |-> row.partner]]
    <2>1. IsFiniteSet(Live(task, Target))
      BY FS_Subset DEF Live, PInv, Typed
    <2>2. f \in Surjection(Live(task, Target), Buckets(task, Target))
      BY DEF Surjection, Buckets
    <2>3. QED
      BY <2>1, <2>2, FS_Surjection
  <1>6. Buckets(task, Target) = Paid(task)
    BY <1>3, <1>4
  <1>7. QED
    BY <1>4, <1>5, <1>6

\* In any order of runs, and with any number of partners: once the runs of a
\* partner table have ended well, what the antifraud reads are the partners of
\* the newest windows with a payment, RowLimit of them or all there are.
THEOREM PartnersFollow == Spec => []PartnersFollowWindows
  <1>1. Init => Started
    BY DEF Init, Started
  <1>2. PInv /\ Started => PartnersFollowWindows
    <2> SUFFICES ASSUME PInv, Started,
                        NEW task \in {"sbpPartners30m", "internalPartners30m"}, Settled(task)
                 PROVE  \E first \in SUBSET Paid(task) :
                            /\ PartnersOf(task, Target) = {b.partner : b \in first}
                            /\ Cardinality(first) <= RowLimit
                            /\ first = Paid(task) \/ Cardinality(first) = RowLimit
                            /\ \A b \in first, other \in Paid(task) \ first : Precedes(b, other)
      BY DEF PartnersFollowWindows, Precedes
    <2>1. /\ Buckets(task, Target) = Paid(task)
          /\ Paid(task) \in SUBSET Bucket
          /\ IsFiniteSet(Paid(task))
      BY BucketsArePaid
    <2>2. PartnersOf(task, Target) = {b.partner : b \in FirstOf(Paid(task))}
      BY <2>1 DEF PartnersOf
    <2>3. /\ FirstOf(Paid(task)) \in SUBSET Paid(task)
          /\ Cardinality(FirstOf(Paid(task))) <= RowLimit
          /\ FirstOf(Paid(task)) = Paid(task) \/ Cardinality(FirstOf(Paid(task))) = RowLimit
          /\ \A b \in FirstOf(Paid(task)), other \in Paid(task) \ FirstOf(Paid(task)) :
                 Precedes(b, other)
      BY <2>1, FirstRows
    <2>4. QED
      BY <2>2, <2>3
  <1>3. QED
    BY PipelineInvariance, StartedStep, <1>1, <1>2, PTL DEF Spec
=============================================================================
