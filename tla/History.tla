------------------------------- MODULE History -------------------------------
(***************************************************************************)
(* transactions_history as its repository offers it: rows are appended or  *)
(* upserted, and read by a composite filter, newest first, page by page    *)
(* with LIMIT and OFFSET.  Processing models what the operations write in  *)
(* one transaction; here each write is a transaction of its own, at any    *)
(* moment between two pages (READ COMMITTED: a page sees what is committed *)
(* when it is read).  A write that fails is rolled back and no step.       *)
(***************************************************************************)
EXTENDS Integers, FiniteSets, Sequences

CONSTANTS
    Candidate, \* the rows that writers write
    Filter,    \* the filters that the reader chooses from
    Unset,     \* a field of a filter that is nil
    Limit,     \* TransactionFilter.Limit
    MaxWrites  \* bound: writes

ASSUME HistoryAssumption ==
    /\ \A row \in Candidate :
           row = [id |-> row.id, tx |-> row.tx, sender |-> row.sender,
                  amount |-> row.amount, at |-> row.at]
    /\ \A row \in Candidate : row.at \in Int /\ row.amount \in Int
    /\ Limit \in Nat \ {0}
    /\ MaxWrites \in Nat

VARIABLES
    table,    \* transactions_history
    outbox,   \* messages in the order of their commits
    appended, \* transaction_ids last written by AppendTransaction
    writes,   \* writes so far
    reader,   \* "idle", "reading" or "done"
    filter,   \* of the reader
    pages,    \* what the reader has got
    before,   \* the table when the reader began
    touched,  \* transaction_ids written since
    orderly   \* since then, rows were newer than all others when they were
              \* written, and none left the filter

store == <<table, outbox, appended, writes>>
vars  == <<store, reader, filter, pages, before, touched, orderly>>

Init ==
    /\ table = {} /\ outbox = <<>> /\ appended = {} /\ writes = 0
    /\ reader = "idle" /\ filter \in Filter /\ pages = <<>>
    /\ before = {} /\ touched = {} /\ orderly = TRUE

-----------------------------------------------------------------------------
(* GetTransactions. *)

\* The conditions of a filter, joined by AND: columns that have to be equal,
\* and bounds, which are inclusive.
Matches(f, row) ==
    /\ \A field \in {"tx", "sender"} : f[field] \in {Unset, row[field]}
    /\ f.amountMin # Unset => row.amount >= f.amountMin
    /\ f.createdAtTo # Unset => row.at <= f.createdAtTo

NewerThan(rows, others) == \A a \in rows, b \in others : a.at >= b.at

\* Variant of Pages: no ORDER BY.
PagesUnordered(rows, offset) ==
    {page \in SUBSET rows :
        \E skipped \in SUBSET (rows \ page) :
            LET rest == rows \ (page \cup skipped)
            IN  /\ Cardinality(skipped) = offset \/ page \cup rest = {}
                /\ Cardinality(page) = Limit \/ rest = {}
                /\ Cardinality(skipped) <= offset /\ Cardinality(page) <= Limit}

\* ORDER BY created_at DESC LIMIT OFFSET: the pages Postgres may return.  Rows
\* with one created_at are in any order, and not the same in each query.
Pages(rows, offset) ==
    {page \in SUBSET rows :
        \E skipped \in SUBSET (rows \ page) :
            LET rest == rows \ (page \cup skipped)
            IN  /\ Cardinality(skipped) = offset \/ page \cup rest = {}
                /\ Cardinality(page) = Limit \/ rest = {}
                /\ Cardinality(skipped) <= offset /\ Cardinality(page) <= Limit
                /\ NewerThan(skipped, page \cup rest) /\ NewerThan(page, rest)}

Begin ==
    /\ reader = "idle"
    /\ reader' = "reading"
    /\ before' = table /\ touched' = {} /\ orderly' = TRUE
    /\ UNCHANGED <<store, filter, pages>>

\* The reader goes on until a page is not full.
ReadPage ==
    /\ reader = "reading"
    /\ \E page \in Pages({row \in table : Matches(filter, row)}, Limit * Len(pages)) :
           /\ pages' = Append(pages, page)
           /\ reader' = IF Cardinality(page) < Limit THEN "done" ELSE "reading"
    /\ UNCHANGED <<store, filter, before, touched, orderly>>

-----------------------------------------------------------------------------
(* Writes. *)

WithTx(tx) == {row \in table : row.tx = tx}
WithId(id) == {row \in table : row.id = id}

\* What a write is to a reader.
Write(row) ==
    /\ writes < MaxWrites
    /\ writes' = writes + 1
    /\ touched' = touched \cup {row.tx}
    /\ orderly' = /\ orderly
                  /\ \A other \in table : other.at < row.at
                  /\ \A old \in WithTx(row.tx) : Matches(filter, old) => Matches(filter, row)
    /\ UNCHANGED <<reader, filter, pages, before>>

\* Variant of AppendTransaction: ids are not a key of the table.
AppendLoosely(row) ==
    /\ WithTx(row.tx) = {}
    /\ Write(row)
    /\ table' = table \cup {row}
    /\ appended' = appended \cup {row.tx}
    /\ UNCHANGED outbox

\* An INSERT that fails when either key is taken.  It announces nothing.
AppendTransaction(row) ==
    /\ WithTx(row.tx) \cup WithId(row.id) = {}
    /\ Write(row)
    /\ table' = table \cup {row}
    /\ appended' = appended \cup {row.tx}
    /\ UNCHANGED outbox

\* Variant of UpsertTransaction: only new rows are announced.
UpsertQuietly(row) ==
    LET old == WithTx(row.tx)
    IN  /\ old # {} \/ WithId(row.id) = {}
        /\ Write(row)
        /\ table' = IF old = {} THEN table \cup {row}
                    ELSE (table \ old) \cup {[row EXCEPT !.id = r.id] : r \in old}
        /\ outbox' = IF old = {} THEN Append(outbox, row) ELSE outbox
        /\ appended' = appended \ {row.tx}

\* ON CONFLICT (transaction_id) DO UPDATE keeps the id of the row that is
\* there; another row with the id of a new one is an error.  AppendOutbox
\* announces the row as the caller gave it.
UpsertTransaction(row) ==
    LET old == WithTx(row.tx)
    IN  /\ old # {} \/ WithId(row.id) = {}
        /\ Write(row)
        /\ table' = IF old = {} THEN table \cup {row}
                    ELSE (table \ old) \cup {[row EXCEPT !.id = r.id] : r \in old}
        /\ outbox' = Append(outbox, row)
        /\ appended' = appended \ {row.tx}

\* Everything is written and read.
Idle ==
    /\ reader = "done" /\ writes = MaxWrites
    /\ UNCHANGED vars

Next ==
    \/ Begin \/ ReadPage \/ Idle
    \/ \E row \in Candidate : AppendTransaction(row) \/ UpsertTransaction(row)

Spec == Init /\ [][Next]_vars

-----------------------------------------------------------------------------
(* Properties. *)

\* create table: no two rows share an id or a transaction_id, whichever of the
\* two statements wrote them.
KeysAreUnique ==
    \A a, b \in table : a.id = b.id \/ a.tx = b.tx => a = b

Untouched(row) == row.tx \notin touched

\* created_at tells a row from all others the reader can meet.
Distinct(row) == \A other \in before : other.at = row.at => other = row

\* GetTransactions, ORDER BY created_at DESC: a reader who asks for page after
\* page gets every row that was there when it began and was left alone,
\* although rows are written between the pages, as long as these are newer
\* than all others and no update takes a row out of the filter.
NothingIsSkipped ==
    reader = "done" /\ orderly =>
        \A row \in before :
            Matches(filter, row) /\ Untouched(row) /\ Distinct(row) =>
                \E i \in 1 .. Len(pages) : row \in pages[i]

\* Without writes in between, the pages are newest first, and only rows that
\* created_at does not tell apart can be in two of them.
PagesAreInOrder ==
    reader # "idle" /\ touched = {} =>
        \A j \in 1 .. Len(pages) : \A i \in 1 .. (j - 1) :
            /\ NewerThan(pages[i], pages[j])
            /\ \A row \in pages[i] \cap pages[j] : ~Distinct(row)

\* AppendOutbox: who keeps the last message of each transaction_id has the
\* history, but for the ids of rows that were written twice and for the rows
\* of AppendTransaction.
LastMessageIsTheRow ==
    \A row \in table :
        row.tx \notin appended =>
            \E i \in 1 .. Len(outbox) :
                /\ \E id \in {c.id : c \in Candidate} : outbox[i] = [row EXCEPT !.id = id]
                /\ \A j \in (i + 1) .. Len(outbox) : outbox[j].tx # row.tx
=============================================================================
