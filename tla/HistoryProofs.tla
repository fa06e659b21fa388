--------------------------- MODULE HistoryProofs ---------------------------
(***************************************************************************)
(* Proofs about what History stores, announces and shows page by page, for *)
(* any rows, any filters, pages of any size and any number of writes.      *)
(***************************************************************************)
EXTENDS History, FiniteSetTheorems, TLAPS

USE HistoryAssumption

Ids == {c.id : c \in Candidate}

\* A row is what a writer gave, under the id the table had for it.
Stored == {[row EXCEPT !.id = i] : row \in Candidate, i \in Ids}

\* LastMessageIsTheRow, of one row and any messages.
Announced(out, row) ==
    \E k \in 1 .. Len(out) :
        /\ \E id \in Ids : out[k] = [row EXCEPT !.id = id]
        /\ \A j \in (k + 1) .. Len(out) : out[j].tx # row.tx

AllAnnounced == \A row \in table : row.tx \notin appended => Announced(outbox, row)

\* The inductive invariant.
HInv ==
    /\ table \subseteq Stored
    /\ outbox \in Seq(Candidate)
    /\ KeysAreUnique
    /\ AllAnnounced

\* A row under another id keeps all else, and gets the writer's row back with
\* the writer's id.
LEMMA Renamed ==
    ASSUME NEW row \in Candidate, NEW i \in Ids, NEW new, new = [row EXCEPT !.id = i]
    PROVE  /\ new \in Stored /\ new.id = i /\ new.tx = row.tx
           /\ [new EXCEPT !.id = row.id] = row
           /\ i = row.id => new = row
<1> DEFINE is(r) == [id |-> r.id, tx |-> r.tx, sender |-> r.sender,
                     amount |-> r.amount, at |-> r.at]
<1>1. row = is(row)
  BY DEF HistoryAssumption
<1>2. new \in Stored
  BY DEF Stored
<1>3. new = [id |-> i, tx |-> row.tx, sender |-> row.sender,
             amount |-> row.amount, at |-> row.at]
  BY <1>1
<1> QED
  BY <1>1, <1>2, <1>3

\* A message of a row's own makes it announced: the row is the one announced
\* but for its id, and nothing comes later.
LEMMA AnnouncedLast ==
    ASSUME outbox \in Seq(Candidate), NEW row \in Candidate, NEW new,
           NEW out, out = Append(outbox, row), [new EXCEPT !.id = row.id] = row
    PROVE  Announced(out, new)
<1>1. /\ Len(outbox) \in Nat /\ Len(out) = Len(outbox) + 1
      /\ out[Len(out)] = row
  OBVIOUS
<1>2. row.id \in Ids
  BY DEF Ids
<1>3. \E id \in Ids : out[Len(out)] = [new EXCEPT !.id = id]
  BY <1>1, <1>2
<1>4. \A j \in (Len(out) + 1) .. Len(out) : out[j].tx # new.tx
  BY <1>1
<1> QED
  BY <1>1, <1>3, <1>4 DEF Announced

\* A message of another transaction leaves a row announced as it was.
LEMMA StaysAnnounced ==
    ASSUME outbox \in Seq(Candidate), NEW row \in Candidate, NEW other,
           other.tx # row.tx, NEW out, out = Append(outbox, row),
           Announced(outbox, other)
    PROVE  Announced(out, other)
<1>1. /\ Len(outbox) \in Nat /\ Len(out) = Len(outbox) + 1
      /\ out[Len(out)] = row
      /\ \A j \in 1 .. Len(outbox) : out[j] = outbox[j]
  OBVIOUS
<1>2. PICK k \in 1 .. Len(outbox) :
          /\ \E id \in Ids : outbox[k] = [other EXCEPT !.id = id]
          /\ \A j \in (k + 1) .. Len(outbox) : outbox[j].tx # other.tx
  BY DEF Announced
<1>3. k \in 1 .. Len(out) /\ out[k] = outbox[k]
  BY <1>1
<1>4. \A j \in (k + 1) .. Len(out) : out[j].tx # other.tx
  <2> SUFFICES ASSUME NEW j \in (k + 1) .. Len(out) PROVE out[j].tx # other.tx
    OBVIOUS
  <2>1. CASE j = Len(out)
    BY <1>1, <2>1
  <2>2. CASE j # Len(out)
    <3>1. j \in (k + 1) .. Len(outbox) /\ j \in 1 .. Len(outbox)
      BY <1>1, <2>2
    <3>2. outbox[j].tx # other.tx /\ out[j] = outbox[j]
      BY <1>1, <1>2, <3>1
    <3> QED
      BY <3>2
  <2> QED
    BY <2>1, <2>2
<1> QED
  BY <1>2, <1>3, <1>4 DEF Announced

\* The table is empty when the program starts.
LEMMA HistoryInit == Init => HInv
  BY DEF Init, HInv, KeysAreUnique, AllAnnounced

\* AppendTransaction adds a row with keys of its own.  It does not announce
\* it, and says so by appended.
LEMMA AppendStep ==
    ASSUME HInv, NEW row \in Candidate, AppendTransaction(row)
    PROVE  HInv'
<1>1. /\ table' = table \cup {row} /\ appended' = appended \cup {row.tx}
      /\ outbox' = outbox /\ WithTx(row.tx) = {} /\ WithId(row.id) = {}
  BY DEF AppendTransaction
<1>2. row \in Stored
  <2>1. row.id \in Ids
    BY DEF Ids
  <2>2. [row EXCEPT !.id = row.id] \in Stored /\ [row EXCEPT !.id = row.id] = row
    BY <2>1, Renamed
  <2> QED
    BY <2>2
<1>3. KeysAreUnique'
  BY <1>1 DEF HInv, KeysAreUnique, WithTx, WithId
<1>4. AllAnnounced'
  BY <1>1 DEF HInv, AllAnnounced
<1> QED
  BY <1>1, <1>2, <1>3, <1>4 DEF HInv

\* UpsertTransaction puts its row in the place of the one with its
\* transaction_id, if there is one, and announces it.
LEMMA UpsertStep ==
    ASSUME HInv, NEW row \in Candidate, UpsertTransaction(row)
    PROVE  HInv'
<1> DEFINE old == WithTx(row.tx)
<1>1. /\ outbox' = Append(outbox, row) /\ appended' = appended \ {row.tx}
      /\ old # {} \/ WithId(row.id) = {}
  BY DEF UpsertTransaction
<1>2. PICK new \in Stored :
          /\ table' = (table \ old) \cup {new}
          /\ new.tx = row.tx /\ [new EXCEPT !.id = row.id] = row
          /\ \A other \in table \ old : other.id # new.id
  <2>1. CASE old = {}
    <3>1. table' = (table \ old) \cup {row}
      BY <2>1 DEF UpsertTransaction
    <3>2. row.id \in Ids /\ [row EXCEPT !.id = row.id] = row
      <4>1. row.id \in Ids
        BY DEF Ids
      <4> QED
        BY <4>1, Renamed
    <3>3. row \in Stored
      BY <3>2 DEF Stored
    <3>4. \A other \in table \ old : other.id # row.id
      BY <1>1, <2>1 DEF WithId
    <3> QED
      BY <3>1, <3>2, <3>3, <3>4
  <2>2. CASE old # {}
    <3>1. PICK r \in old : TRUE
      BY <2>2
    <3>2. old = {r}
      BY <3>1 DEF HInv, KeysAreUnique, WithTx
    <3>3. r \in table /\ r.id \in Ids
      <4>1. r \in table
        BY <3>1 DEF WithTx
      <4>2. PICK c \in Candidate, i \in Ids : r = [c EXCEPT !.id = i]
        BY <4>1 DEF HInv, Stored
      <4> QED
        BY <4>1, <4>2, Renamed
    <3> DEFINE new == [row EXCEPT !.id = r.id]
    <3>4. table' = (table \ old) \cup {new}
      BY <2>2, <3>2 DEF UpsertTransaction
    <3>5. /\ new \in Stored /\ new.id = r.id /\ new.tx = row.tx
          /\ [new EXCEPT !.id = row.id] = row
      BY <3>3, Renamed
    <3>6. \A other \in table \ old : other.id # new.id
      BY <3>2, <3>3, <3>5 DEF HInv, KeysAreUnique
    <3> QED
      BY <3>4, <3>5, <3>6
  <2> QED
    BY <2>1, <2>2
<1>3. KeysAreUnique'
  BY <1>2 DEF HInv, KeysAreUnique, WithTx
<1>4. AllAnnounced'
  <2>1. Announced(outbox', new)
    BY <1>1, <1>2, AnnouncedLast DEF HInv
  <2>2. ASSUME NEW other \in table \ old, other.tx \notin appended'
        PROVE  Announced(outbox', other)
    <3>1. other.tx # row.tx /\ other.tx \notin appended
      BY <1>1, <2>2 DEF WithTx
    <3>2. Announced(outbox, other)
      BY <3>1 DEF HInv, AllAnnounced
    <3> QED
      BY <1>1, <3>1, <3>2, StaysAnnounced DEF HInv
  <2> QED
    BY <1>2, <2>1, <2>2 DEF AllAnnounced
<1>5. table' \subseteq Stored /\ outbox' \in Seq(Candidate)
  BY <1>1, <1>2 DEF HInv
<1> QED
  BY <1>3, <1>4, <1>5 DEF HInv

\* Every step keeps the invariant; a reader's steps change nothing of it.
LEMMA HistoryNext == HInv /\ [Next]_vars => HInv'
<1> SUFFICES ASSUME HInv, [Next]_vars PROVE HInv'
  OBVIOUS
<1>1. CASE UNCHANGED store
  BY <1>1 DEF HInv, KeysAreUnique, AllAnnounced, store
<1>2. CASE \E row \in Candidate : AppendTransaction(row) \/ UpsertTransaction(row)
  BY <1>2, AppendStep, UpsertStep
<1>3. UNCHANGED store \/ \E row \in Candidate : AppendTransaction(row) \/ UpsertTransaction(row)
  BY DEF Next, Begin, ReadPage, Idle, vars
<1> QED
  BY <1>1, <1>2, <1>3

\* create table, ON CONFLICT: no two rows share a key, however appends and
\* upserts are mixed.
THEOREM OneRowPerKey == Spec => []KeysAreUnique
<1>1. HInv => KeysAreUnique
  BY DEF HInv
<1> QED
  BY <1>1, HistoryInit, HistoryNext, PTL DEF Spec

\* AppendOutbox in UpsertTransaction: the last message of a transaction_id is
\* its row, but for the id and for rows of AppendTransaction.
THEOREM MessagesKeepUp == Spec => []LastMessageIsTheRow
<1>1. HInv => LastMessageIsTheRow
  BY DEF HInv, AllAnnounced, Announced, Ids, LastMessageIsTheRow
<1> QED
  BY <1>1, HistoryInit, HistoryNext, PTL DEF Spec
-----------------------------------------------------------------------------
(* Reading page after page. *)

\* What the reader's filter shows of the table, and of that what is newer
\* than a row.
Shown      == {row \in table : Matches(filter, row)}
Newer(row) == {x \in Shown : x.at > row.at}

\* Tables are finite, and pages are made of their rows; a page before another
\* one is full.
PagesType ==
    /\ IsFiniteSet(table) /\ before \subseteq Stored
    /\ pages \in Seq(SUBSET Stored)
    /\ reader \in {"idle", "reading", "done"}
    /\ reader = "idle" => pages = <<>>
    /\ \A i \in 1 .. Len(pages) :
           i < Len(pages) \/ reader = "reading" => Cardinality(pages[i]) = Limit

\* Without writes, each page is one of the table the reader began with.
PagesOfBefore ==
    reader # "idle" /\ touched = {} =>
        /\ table = before
        /\ \A i \in 1 .. Len(pages) : pages[i] \in Pages(Shown, Limit * (i - 1))

\* A row the reader has to meet: nobody touched it, and its created_at tells
\* it from all others.
Due(row) == Matches(filter, row) /\ Untouched(row) /\ Distinct(row)

\* The reader has such a row, or has not got past it: at least as many rows
\* are before it as the next OFFSET skips.
StillAhead ==
    reader # "idle" /\ orderly =>
        \A row \in before :
            Due(row) =>
                /\ row \in table
                /\ \A other \in table : other.at = row.at => other = row
                /\ \/ \E i \in 1 .. Len(pages) : row \in pages[i]
                   \/ reader = "reading" /\ Cardinality(Newer(row)) >= Limit * Len(pages)

\* A row has a created_at and the fields filters look at.
LEMMA RowType ==
    ASSUME NEW row \in Stored
    PROVE  row.at \in Int
<1>1. PICK c \in Candidate, i \in Ids : row = [c EXCEPT !.id = i]
  BY DEF Stored
<1>2. c = [id |-> c.id, tx |-> c.tx, sender |-> c.sender, amount |-> c.amount, at |-> c.at]
      /\ c.at \in Int
  BY DEF HistoryAssumption
<1>3. row.at = c.at
  BY <1>1, <1>2
<1> QED
  BY <1>2, <1>3

\* Two disjoint sets.
LEMMA CountBoth ==
    ASSUME NEW S, NEW T, IsFiniteSet(S), IsFiniteSet(T), S \cap T = {}
    PROVE  /\ IsFiniteSet(S \cup T)
           /\ Cardinality(S \cup T) = Cardinality(S) + Cardinality(T)
           /\ Cardinality(S) \in Nat /\ Cardinality(T) \in Nat
<1>1. /\ IsFiniteSet(S \cup T)
      /\ Cardinality(S \cup T) = Cardinality(S) + Cardinality(T) - Cardinality(S \cap T)
  BY FS_Union
<1>2. Cardinality(S \cap T) = 0
  BY FS_EmptySet
<1>3. Cardinality(S) \in Nat /\ Cardinality(T) \in Nat
  BY FS_CardinalityType
<1> QED
  BY <1>1, <1>2, <1>3

\* OFFSET grows by a page.
LEMMA Offsets ==
    ASSUME NEW i \in Nat, NEW j \in Nat, i < j
    PROVE  /\ Limit * i \in Nat /\ Limit * (i + 1) = Limit * i + Limit
           /\ Limit * (i + 1) <= Limit * j
<1>1. Limit \in Nat
  BY DEF HistoryAssumption
<1>2. PICK d \in Nat : j = (i + 1) + d
  <2>1. j - (i + 1) \in Nat /\ j = (i + 1) + (j - (i + 1))
    OBVIOUS
  <2> QED
    BY <2>1
<1>3. Limit * j = Limit * (i + 1) + Limit * d /\ Limit * d \in Nat
  BY <1>1, <1>2
<1> QED
  BY <1>1, <1>3

\* A row of a full page is not older than one of a later page of the same
\* table, and not the same if created_at tells it from all others: too few
\* rows would be left to skip.
LEMMA LaterPage ==
    ASSUME NEW rows \in SUBSET Stored, IsFiniteSet(rows),
           NEW i \in Nat, NEW j \in Nat, i < j,
           NEW p \in Pages(rows, Limit * i), Cardinality(p) = Limit,
           NEW q \in Pages(rows, Limit * j),
           NEW a \in p, NEW b \in q
    PROVE  /\ a.at >= b.at
           /\ a = b => \E x \in rows : x.at = a.at /\ x # a
<1>0. p \in SUBSET rows /\ q \in SUBSET rows
  BY DEF Pages
<1>t. \A x \in rows : x.at \in Int
  BY RowType
<1> SUFFICES ASSUME b.at > a.at \/ (a = b /\ \A x \in rows : x.at = a.at => x = a)
             PROVE  FALSE
  BY <1>0, <1>t
<1>1. PICK sp \in SUBSET (rows \ p) :
          /\ Cardinality(sp) = Limit * i
          /\ NewerThan(p, rows \ (p \cup sp))
  BY DEF Pages
<1>2. PICK sq \in SUBSET (rows \ q) :
          /\ Cardinality(sq) = Limit * j
          /\ NewerThan(sq, q \cup (rows \ (q \cup sq)))
  BY DEF Pages
<1>4. ASSUME NEW x \in sq PROVE x \in (sp \cup p) \ {a}
  <2>1. x \in rows /\ x.at \in Int /\ a.at \in Int /\ b.at \in Int
    BY <1>0, <1>t, <1>2
  <2>2. x.at >= b.at /\ x # b
    BY <1>2 DEF NewerThan
  <2>3. x # a /\ x.at > a.at
    <3>1. CASE b.at > a.at
      BY <2>1, <2>2, <3>1
    <3>2. CASE a = b /\ \A y \in rows : y.at = a.at => y = a
      <4>1. x.at # a.at
        BY <2>1, <2>2, <3>2
      <4> QED
        BY <2>1, <2>2, <3>2, <4>1
    <3> QED
      BY <3>1, <3>2
  <2>4. x \notin rows \ (p \cup sp)
    BY <1>1, <2>1, <2>3 DEF NewerThan
  <2> QED
    BY <2>1, <2>3, <2>4
<1>5. IsFiniteSet(sp) /\ IsFiniteSet(p) /\ sp \cap p = {}
  BY <1>0, <1>1, FS_Subset
<1>6. IsFiniteSet(sp \cup p) /\ Cardinality(sp \cup p) = Limit * i + Limit
  BY <1>1, <1>5, CountBoth
<1>7. IsFiniteSet((sp \cup p) \ {a}) /\ Cardinality((sp \cup p) \ {a}) = Limit * i + Limit - 1
  <2>1. a \in sp \cup p
    OBVIOUS
  <2>2. /\ IsFiniteSet((sp \cup p) \ {a})
        /\ Cardinality((sp \cup p) \ {a}) = Cardinality(sp \cup p) - 1
    BY <1>6, <2>1, FS_RemoveElement
  <2> QED
    BY <1>6, <2>2
<1>8. Limit * j <= Limit * i + Limit - 1
  BY <1>2, <1>4, <1>7, FS_Subset
<1>9. /\ Limit \in Nat /\ Limit * i \in Nat /\ Limit * j \in Nat
      /\ Limit * i + Limit <= Limit * j
  <2>1. Limit * (i + 1) = Limit * i + Limit /\ Limit * (i + 1) <= Limit * j
        /\ Limit * i \in Nat
    BY Offsets
  <2>2. Limit \in Nat /\ Limit * j \in Nat
    BY DEF HistoryAssumption
  <2> QED
    BY <2>1, <2>2
<1> QED
  BY <1>8, <1>9

\* What a write does to the table, whichever statement it is: its row takes
\* the place of the one with its transaction_id.
LEMMA WriteEffect ==
    ASSUME HInv, NEW row \in Candidate, AppendTransaction(row) \/ UpsertTransaction(row)
    PROVE  \E new \in Stored :
               /\ table' = (table \ WithTx(row.tx)) \cup {new}
               /\ new.tx = row.tx /\ new.at = row.at
               /\ \A f : Matches(f, new) <=> Matches(f, row)
<1> DEFINE old == WithTx(row.tx)
           is(id) == [id |-> id, tx |-> row.tx, sender |-> row.sender,
                      amount |-> row.amount, at |-> row.at]
<1>1. row = is(row.id) /\ row.id \in Ids /\ row \in Stored
  <2>1. row = is(row.id) /\ row.id \in Ids
    BY DEF HistoryAssumption, Ids
  <2>2. [row EXCEPT !.id = row.id] \in Stored /\ [row EXCEPT !.id = row.id] = row
    BY <2>1, Renamed
  <2> QED
    BY <2>1, <2>2
<1>2. CASE old = {}
  <2>1. table' = (table \ old) \cup {row}
    BY <1>2 DEF AppendTransaction, UpsertTransaction
  <2> QED
    BY <1>1, <2>1
<1>3. CASE old # {}
  <2>1. UpsertTransaction(row)
    BY <1>3 DEF AppendTransaction
  <2>2. PICK r \in old : TRUE
    BY <1>3
  <2>3. old = {r} /\ r \in table
    BY <2>2 DEF HInv, KeysAreUnique, WithTx
  <2>4. r.id \in Ids
    <3>1. PICK c \in Candidate, i \in Ids : r = [c EXCEPT !.id = i]
      BY <2>3 DEF HInv, Stored
    <3> QED
      BY <3>1, Renamed
  <2> DEFINE new == [row EXCEPT !.id = r.id]
  <2>5. table' = (table \ old) \cup {new}
    BY <1>3, <2>1, <2>3 DEF UpsertTransaction
  <2>6. new \in Stored /\ new = is(r.id)
    BY <1>1, <2>4 DEF Stored
  <2>7. /\ new.tx = row.tx /\ new.sender = row.sender /\ new.amount = row.amount
        /\ new.at = row.at
    BY <2>6
  <2>8. \A f : Matches(f, new) <=> Matches(f, row)
    <3>1. \A field \in {"tx", "sender"} : new[field] = row[field]
      BY <2>7
    <3> HIDE DEF new
    <3> QED
      BY <2>7, <3>1 DEF Matches
  <2> HIDE DEF new
  <2> QED
    BY <2>5, <2>6, <2>7, <2>8
<1> QED
  BY <1>2, <1>3

-----------------------------------------------------------------------------
(* The steps. *)

\* A write changes nothing of what the reader has.
LEMMA WriteFrame ==
    ASSUME NEW row \in Candidate, AppendTransaction(row) \/ UpsertTransaction(row)
    PROVE  /\ UNCHANGED <<reader, filter, pages, before>>
           /\ touched' = touched \cup {row.tx}
           /\ orderly' => /\ orderly
                          /\ \A other \in table : other.at < row.at
                          /\ \A o \in WithTx(row.tx) :
                                 Matches(filter, o) => Matches(filter, row)
  BY DEF AppendTransaction, UpsertTransaction, Write

\* The page that is read: it is one of the table as it is.
LEMMA PageRead ==
    ASSUME PagesType, table \subseteq Stored, ReadPage
    PROVE  \E page \in Pages(Shown, Limit * Len(pages)) :
               /\ pages' = Append(pages, page)
               /\ Len(pages) \in Nat /\ Len(pages') = Len(pages) + 1
               /\ pages'[Len(pages) + 1] = page
               /\ \A i \in 1 .. Len(pages) : pages'[i] = pages[i]
               /\ page \in SUBSET Shown /\ IsFiniteSet(page) /\ Cardinality(page) \in Nat
               /\ Cardinality(page) <= Limit
               /\ reader' = IF Cardinality(page) < Limit THEN "done" ELSE "reading"
<1>1. PICK page \in Pages(Shown, Limit * Len(pages)) :
          /\ pages' = Append(pages, page)
          /\ reader' = IF Cardinality(page) < Limit THEN "done" ELSE "reading"
  BY DEF ReadPage, Shown
<1>2. page \in SUBSET Shown /\ Cardinality(page) <= Limit
  BY DEF Pages
<1>3. IsFiniteSet(page) /\ Cardinality(page) \in Nat
  <2>1. page \in SUBSET table
    BY <1>2 DEF Shown
  <2> QED
    BY <2>1, FS_Subset, FS_CardinalityType DEF PagesType
<1>4. /\ Len(pages) \in Nat /\ Len(pages') = Len(pages) + 1
      /\ pages'[Len(pages) + 1] = page
      /\ \A i \in 1 .. Len(pages) : pages'[i] = pages[i]
  BY <1>1 DEF PagesType
<1> QED
  BY <1>1, <1>2, <1>3, <1>4

\* Tables stay finite, and only the last page is not full.
LEMMA PagesTypeStep == HInv /\ PagesType /\ [Next]_vars => PagesType'
<1> SUFFICES ASSUME HInv, PagesType, [Next]_vars PROVE PagesType'
  OBVIOUS
<1>1. CASE \E row \in Candidate : AppendTransaction(row) \/ UpsertTransaction(row)
  <2>1. PICK row \in Candidate : AppendTransaction(row) \/ UpsertTransaction(row)
    BY <1>1
  <2>2. PICK new \in Stored : table' = (table \ WithTx(row.tx)) \cup {new}
    BY <2>1, WriteEffect
  <2>3. IsFiniteSet(table \ WithTx(row.tx))
    <3>1. table \ WithTx(row.tx) \in SUBSET table
      OBVIOUS
    <3> QED
      BY <3>1, FS_Subset DEF PagesType
  <2>4. IsFiniteSet(table')
    BY <2>2, <2>3, FS_AddElement
  <2> QED
    BY <2>1, <2>4, WriteFrame DEF PagesType
<1>2. CASE Begin
  BY <1>2 DEF Begin, store, PagesType, HInv
<1>3. CASE ReadPage
  <2>1. PICK page \in Pages(Shown, Limit * Len(pages)) :
            /\ pages' = Append(pages, page)
            /\ Len(pages) \in Nat /\ Len(pages') = Len(pages) + 1
            /\ pages'[Len(pages) + 1] = page
            /\ \A i \in 1 .. Len(pages) : pages'[i] = pages[i]
            /\ page \in SUBSET Shown /\ Cardinality(page) \in Nat
            /\ Cardinality(page) <= Limit
            /\ reader' = IF Cardinality(page) < Limit THEN "done" ELSE "reading"
    BY <1>3, PageRead DEF HInv
  <2>2. pages' \in Seq(SUBSET Stored)
    BY <2>1 DEF PagesType, HInv, Shown
  <2>3. ASSUME NEW i \in 1 .. Len(pages'), i < Len(pages') \/ reader' = "reading"
        PROVE  Cardinality(pages'[i]) = Limit
    <3>1. reader = "reading" /\ Limit \in Nat
      BY <1>3 DEF ReadPage, HistoryAssumption
    <3>2. CASE i \in 1 .. Len(pages)
      BY <2>1, <3>1, <3>2 DEF PagesType
    <3>3. CASE i = Len(pages) + 1
      BY <2>1, <2>3, <3>1, <3>3
    <3> QED
      BY <2>1, <3>2, <3>3
  <2>4. /\ UNCHANGED <<table, before>> /\ reader' \in {"reading", "done"}
    BY <1>3, <2>1 DEF ReadPage, store
  <2> QED
    BY <2>2, <2>3, <2>4 DEF PagesType
<1>4. CASE UNCHANGED vars
  BY <1>4 DEF PagesType, vars, store
<1> QED
  BY <1>1, <1>2, <1>3, <1>4 DEF Next, Idle

\* As long as nothing is written, the pages are those of one table.
LEMMA PagesOfBeforeStep ==
    HInv /\ PagesType /\ PagesOfBefore /\ [Next]_vars => PagesOfBefore'
<1> SUFFICES ASSUME HInv, PagesType, PagesOfBefore, [Next]_vars PROVE PagesOfBefore'
  OBVIOUS
<1>1. CASE \E row \in Candidate : AppendTransaction(row) \/ UpsertTransaction(row)
  BY <1>1, WriteFrame DEF PagesOfBefore
<1>2. CASE Begin
  BY <1>2 DEF Begin, store, PagesType, PagesOfBefore
<1>3. CASE ReadPage
  <2>1. PICK page \in Pages(Shown, Limit * Len(pages)) :
            /\ Len(pages) \in Nat /\ Len(pages') = Len(pages) + 1
            /\ pages'[Len(pages) + 1] = page
            /\ \A i \in 1 .. Len(pages) : pages'[i] = pages[i]
    BY <1>3, PageRead DEF HInv
  <2>2. /\ reader = "reading" /\ UNCHANGED <<table, before, touched>> /\ Shown' = Shown
    BY <1>3 DEF ReadPage, store, Shown
  <2>3. ASSUME NEW i \in 1 .. Len(pages'), touched = {}
        PROVE  pages'[i] \in Pages(Shown, Limit * (i - 1))
    <3>1. CASE i \in 1 .. Len(pages)
      BY <2>1, <2>2, <2>3, <3>1 DEF PagesOfBefore
    <3>2. CASE i = Len(pages) + 1
      <4>1. i - 1 = Len(pages)
        BY <2>1, <3>2
      <4> QED
        BY <2>1, <3>2, <4>1
    <3> QED
      BY <2>1, <3>1, <3>2
  <2>4. \A i : Pages(Shown, Limit * (i - 1))' = Pages(Shown, Limit * (i - 1))
    BY <2>2 DEF Pages, NewerThan
  <2> QED
    BY <2>2, <2>3, <2>4 DEF PagesOfBefore
<1>4. CASE UNCHANGED vars
  <2>1. Shown' = Shown
    BY <1>4 DEF vars, store, Shown
  <2>2. \A i : Pages(Shown, Limit * (i - 1))' = Pages(Shown, Limit * (i - 1))
    BY <2>1 DEF Pages, NewerThan
  <2> QED
    BY <1>4, <2>2 DEF PagesOfBefore, vars, store
<1> QED
  BY <1>1, <1>2, <1>3, <1>4 DEF Next, Idle

\* A write leaves a row the reader has to meet in the table, and puts no
\* fewer rows before it.
LEMMA WriteKeepsAhead ==
    ASSUME HInv, PagesType, StillAhead, NEW row \in Candidate,
           AppendTransaction(row) \/ UpsertTransaction(row)
    PROVE  StillAhead'
<1>1. PICK new \in Stored :
          /\ table' = (table \ WithTx(row.tx)) \cup {new}
          /\ new.tx = row.tx /\ new.at = row.at
          /\ \A f : Matches(f, new) <=> Matches(f, row)
  BY WriteEffect
<1>2. /\ UNCHANGED <<reader, filter, pages, before>>
      /\ touched' = touched \cup {row.tx}
      /\ orderly' => /\ orderly
                     /\ \A other \in table : other.at < row.at
                     /\ \A o \in WithTx(row.tx) : Matches(filter, o) => Matches(filter, row)
  BY WriteFrame
<1> SUFFICES ASSUME reader # "idle", orderly', NEW r \in before, Due(r)'
             PROVE  /\ r \in table'
                    /\ \A other \in table' : other.at = r.at => other = r
                    /\ \/ \E i \in 1 .. Len(pages) : r \in pages[i]
                       \/ reader = "reading" /\ Cardinality(Newer(r)') >= Limit * Len(pages)
  <2>1. Limit' = Limit
    OBVIOUS
  <2> QED
    BY <1>2 DEF StillAhead
<1>3. Due(r) /\ r.tx # row.tx
  BY <1>2 DEF Due, Untouched, Distinct, Matches
<1>4. /\ r \in table
      /\ \A other \in table : other.at = r.at => other = r
      /\ \/ \E i \in 1 .. Len(pages) : r \in pages[i]
         \/ reader = "reading" /\ Cardinality(Newer(r)) >= Limit * Len(pages)
  BY <1>2, <1>3 DEF StillAhead
<1>5. r.at \in Int /\ new.at \in Int /\ r.at < new.at
  BY <1>1, <1>2, <1>4, RowType DEF HInv
<1>6. r \in table' /\ \A other \in table' : other.at = r.at => other = r
  BY <1>1, <1>3, <1>4, <1>5 DEF WithTx
<1>7. Cardinality(Newer(r)') >= Cardinality(Newer(r)) /\ Cardinality(Newer(r)') \in Int
      /\ Cardinality(Newer(r)) \in Int
  <2>1. IsFiniteSet(Newer(r)) /\ IsFiniteSet(Newer(r)')
    <3>1. IsFiniteSet(table) /\ IsFiniteSet(table')
      BY PagesTypeStep DEF PagesType, Next
    <3>2. Newer(r) \in SUBSET table /\ Newer(r)' \in SUBSET table'
      BY DEF Newer, Shown
    <3> QED
      BY <3>1, <3>2, FS_Subset
  <2>2. Cardinality(Newer(r)) \in Nat /\ Cardinality(Newer(r)') \in Nat
    BY <2>1, FS_CardinalityType
  <2>3. new \notin table
    <3>1. \A other \in table : other.at \in Int
      BY RowType DEF HInv
    <3> QED
      BY <1>1, <1>2, <1>5, <3>1
  <2>4. CASE Newer(r) \cap WithTx(row.tx) = {}
    <3>1. Newer(r) \in SUBSET (Newer(r)')
      BY <1>1, <1>2, <2>4 DEF Newer, Shown
    <3> QED
      BY <2>1, <2>2, <3>1, FS_Subset
  <2>5. CASE Newer(r) \cap WithTx(row.tx) # {}
    <3>1. PICK o \in Newer(r) \cap WithTx(row.tx) : TRUE
      BY <2>5
    <3>2. WithTx(row.tx) = {o} /\ Matches(filter, o)
      BY <3>1 DEF HInv, KeysAreUnique, WithTx, Newer, Shown
    <3>3. new \in Newer(r)'
      BY <1>1, <1>2, <1>5, <3>2 DEF Newer, Shown
    <3>4. Newer(r) \ {o} \in SUBSET (Newer(r)' \ {new})
      BY <1>1, <1>2, <2>3, <3>2 DEF Newer, Shown
    <3>5. /\ IsFiniteSet(Newer(r)' \ {new})
          /\ Cardinality(Newer(r)' \ {new}) = Cardinality(Newer(r)') - 1
          /\ Cardinality(Newer(r) \ {o}) = Cardinality(Newer(r)) - 1
      BY <2>1, <3>1, <3>3, FS_RemoveElement
    <3>6. Cardinality(Newer(r) \ {o}) <= Cardinality(Newer(r)' \ {new})
      BY <3>4, <3>5, FS_Subset
    <3> QED
      BY <2>2, <3>5, <3>6
  <2> QED
    BY <2>2, <2>4, <2>5
<1>8. Limit * Len(pages) \in Int
  BY DEF PagesType, HistoryAssumption
<1> QED
  BY <1>4, <1>6, <1>7, <1>8

\* A page either has a row the reader has to meet, or is full of rows newer
\* than it, as is all that was skipped: the page is not past the row.
LEMMA ReadKeepsAhead ==
    ASSUME HInv, PagesType, StillAhead, ReadPage
    PROVE  StillAhead'
<1>1. PICK page \in Pages(Shown, Limit * Len(pages)) :
          /\ Len(pages) \in Nat /\ Len(pages') = Len(pages) + 1
          /\ pages'[Len(pages) + 1] = page
          /\ \A i \in 1 .. Len(pages) : pages'[i] = pages[i]
          /\ page \in SUBSET Shown /\ IsFiniteSet(page) /\ Cardinality(page) \in Nat
          /\ reader' = IF Cardinality(page) < Limit THEN "done" ELSE "reading"
  BY PageRead DEF HInv
<1>2. /\ UNCHANGED <<table, filter, before, touched, orderly>> /\ reader = "reading"
  BY DEF ReadPage, store
<1>3. Shown' = Shown /\ \A x : Newer(x)' = Newer(x) /\ Due(x)' = Due(x)
  BY <1>2 DEF Shown, Newer, Due, Matches, Untouched, Distinct
<1> SUFFICES ASSUME orderly, NEW r \in before, Due(r)
             PROVE  /\ r \in table
                    /\ \A other \in table : other.at = r.at => other = r
                    /\ \/ \E i \in 1 .. Len(pages') : r \in pages'[i]
                       \/ reader' = "reading" /\ Cardinality(Newer(r)) >= Limit * Len(pages')
  BY <1>2, <1>3 DEF StillAhead
<1>4. /\ r \in table
      /\ \A other \in table : other.at = r.at => other = r
      /\ \/ \E i \in 1 .. Len(pages) : r \in pages[i]
         \/ Cardinality(Newer(r)) >= Limit * Len(pages)
  BY <1>2 DEF StillAhead
<1>5. CASE \E i \in 1 .. Len(pages) : r \in pages[i]
  <2>1. PICK i \in 1 .. Len(pages) : r \in pages[i]
    BY <1>5
  <2>2. i \in 1 .. Len(pages') /\ r \in pages'[i]
    BY <1>1, <2>1
  <2> QED
    BY <1>4, <2>2
<1>6. CASE r \in page
  <2>1. Len(pages) + 1 \in 1 .. Len(pages') /\ r \in pages'[Len(pages) + 1]
    BY <1>1, <1>6
  <2> QED
    BY <1>4, <2>1
<1>7. CASE Cardinality(Newer(r)) >= Limit * Len(pages) /\ r \notin page
  <2> DEFINE offset == Limit * Len(pages)
  <2>0. offset \in Nat /\ Limit \in Nat /\ Limit * (Len(pages) + 1) = offset + Limit
    <3>1. Len(pages) \in Nat /\ Len(pages) + 1 \in Nat /\ Len(pages) < Len(pages) + 1
      BY <1>1
    <3> HIDE DEF offset
    <3>2. Limit * Len(pages) \in Nat
          /\ Limit * (Len(pages) + 1) = Limit * Len(pages) + Limit
      BY <3>1, Offsets
    <3> QED
      BY <3>2 DEF offset, HistoryAssumption
  <2>1. PICK skipped \in SUBSET (Shown \ page) :
            LET rest == Shown \ (page \cup skipped)
            IN  /\ Cardinality(skipped) = offset \/ page \cup rest = {}
                /\ Cardinality(page) = Limit \/ rest = {}
                /\ Cardinality(skipped) <= offset /\ Cardinality(page) <= Limit
                /\ NewerThan(skipped, page \cup rest) /\ NewerThan(page, rest)
    BY DEF Pages
  <2> HIDE DEF offset
  <2> DEFINE rest == Shown \ (page \cup skipped)
  <2>2. \A x \in Shown : x.at \in Int /\ x \in table
    BY RowType DEF Shown, HInv
  <2>3. r \in Shown
    BY <1>4 DEF Shown, Due
  <2>4. IsFiniteSet(Shown) /\ IsFiniteSet(skipped) /\ IsFiniteSet(Newer(r))
    <3>1. Shown \in SUBSET table /\ skipped \in SUBSET table /\ Newer(r) \in SUBSET table
      BY <2>1 DEF Shown, Newer
    <3> QED
      BY <3>1, FS_Subset DEF PagesType
  <2>5. Cardinality(Newer(r)) \in Nat /\ Cardinality(skipped) \in Nat
    BY <2>4, FS_CardinalityType
  <2>6. r \notin skipped
    <3> SUFFICES ASSUME r \in skipped PROVE FALSE
      OBVIOUS
    <3>1. ASSUME NEW x \in Newer(r) PROVE x \in skipped \ {r}
      <4>1. x \in Shown /\ x.at > r.at /\ x.at \in Int /\ r.at \in Int
        BY <2>2, <2>3 DEF Newer
      <4>2. x \notin page \cup rest
        BY <2>1, <4>1 DEF NewerThan
      <4> QED
        BY <4>1, <4>2
    <3>2. Newer(r) \in SUBSET (skipped \ {r})
      BY <3>1
    <3>3. /\ IsFiniteSet(skipped \ {r})
          /\ Cardinality(skipped \ {r}) = Cardinality(skipped) - 1
      BY <2>4, FS_RemoveElement
    <3>4. Cardinality(Newer(r)) <= Cardinality(skipped) - 1
      BY <3>2, <3>3, FS_Subset
    <3> QED
      BY <1>7, <2>0, <2>1, <2>5, <3>4 DEF offset
  <2>7. r \in rest
    BY <1>7, <2>3, <2>6
  <2>8. Cardinality(skipped) = offset /\ Cardinality(page) = Limit
    BY <2>1, <2>7
  <2>9. ASSUME NEW x \in skipped \cup page PROVE x \in Newer(r)
    <3>1. x \in Shown /\ x.at >= r.at /\ x # r
      BY <1>1, <2>1, <2>7 DEF NewerThan
    <3>2. x.at # r.at /\ x.at \in Int /\ r.at \in Int
      BY <1>4, <2>2, <2>3, <3>1
    <3> QED
      BY <3>1, <3>2 DEF Newer
  <2>10. Cardinality(skipped \cup page) = offset + Limit
    <3>1. skipped \cap page = {}
      BY <2>1
    <3> QED
      BY <1>1, <2>4, <2>8, <3>1, CountBoth
  <2>11. skipped \cup page \in SUBSET Newer(r)
    BY <2>9
  <2>12. Cardinality(Newer(r)) >= offset + Limit
    <3>1. Cardinality(skipped \cup page) <= Cardinality(Newer(r))
      BY <2>4, <2>11, FS_Subset
    <3> QED
      BY <2>0, <2>5, <2>10, <3>1
  <2>13. reader' = "reading"
    BY <1>1, <2>0, <2>8
  <2> QED
    BY <1>1, <1>4, <2>0, <2>12, <2>13
<1> QED
  BY <1>4, <1>5, <1>6, <1>7

\* Every step keeps the reader from passing by a row it has to meet.
LEMMA StillAheadStep ==
    HInv /\ PagesType /\ StillAhead /\ [Next]_vars => StillAhead'
<1> SUFFICES ASSUME HInv, PagesType, StillAhead, [Next]_vars PROVE StillAhead'
  OBVIOUS
<1>1. CASE \E row \in Candidate : AppendTransaction(row) \/ UpsertTransaction(row)
  BY <1>1, WriteKeepsAhead
<1>2. CASE ReadPage
  BY <1>2, ReadKeepsAhead
<1>3. CASE Begin
  <2>1. /\ reader = "idle" /\ reader' = "reading" /\ before' = table /\ table' = table
        /\ pages' = pages /\ pages = <<>> /\ filter' = filter
    BY <1>3 DEF Begin, store, PagesType
  <2>2. Len(pages') = 0
    BY <2>1
  <2>3. \A x : IsFiniteSet(Newer(x)') /\ Cardinality(Newer(x)') >= 0
    <3> SUFFICES ASSUME NEW x PROVE IsFiniteSet(Newer(x)') /\ Cardinality(Newer(x)') >= 0
      OBVIOUS
    <3>1. Newer(x)' \in SUBSET table /\ IsFiniteSet(table)
      BY <2>1 DEF Newer, Shown, PagesType
    <3>2. IsFiniteSet(Newer(x)')
      BY <3>1, FS_Subset
    <3> QED
      BY <3>2, FS_CardinalityType
  <2>4. Limit * 0 = 0
    BY DEF HistoryAssumption
  <2> QED
    BY <2>1, <2>2, <2>3, <2>4 DEF StillAhead, Due, Distinct
<1>4. CASE UNCHANGED vars
  <2>1. /\ Shown' = Shown /\ UNCHANGED <<reader, orderly, before, table, pages>>
        /\ \A x : Newer(x)' = Newer(x) /\ Due(x)' = Due(x)
    BY <1>4 DEF vars, store, Shown, Newer, Due, Matches, Untouched, Distinct
  <2> QED
    BY <2>1 DEF StillAhead
<1> QED
  BY <1>1, <1>2, <1>3, <1>4 DEF Next, Idle

\* Nothing is read at first.
LEMMA PagesInit == Init => PagesType /\ PagesOfBefore /\ StillAhead
  BY FS_EmptySet DEF Init, PagesType, PagesOfBefore, StillAhead

\* The three invariants of reading hold in every reachable state.
LEMMA PagesInvariance == Spec => [](HInv /\ PagesType /\ PagesOfBefore /\ StillAhead)
  BY HistoryInit, HistoryNext, PagesInit, PagesTypeStep, PagesOfBeforeStep, StillAheadStep,
     PTL DEF Spec

\* GetTransactions, ORDER BY created_at DESC: without writes the pages are
\* newest first and repeat no row that created_at tells from the others, for
\* any table and any size of a page.
THEOREM PagesFollowOrder == Spec => []PagesAreInOrder
<1>1. HInv /\ PagesType /\ PagesOfBefore => PagesAreInOrder
  <2> SUFFICES ASSUME HInv, PagesType, PagesOfBefore, reader # "idle", touched = {},
                      NEW j \in 1 .. Len(pages), NEW i \in 1 .. (j - 1)
               PROVE  /\ NewerThan(pages[i], pages[j])
                      /\ \A row \in pages[i] \cap pages[j] : ~Distinct(row)
    BY DEF PagesAreInOrder
  <2>1. /\ Len(pages) \in Nat /\ i \in 1 .. Len(pages) /\ i < Len(pages)
        /\ i - 1 \in Nat /\ j - 1 \in Nat /\ i - 1 < j - 1
    BY DEF PagesType
  <2>2. /\ pages[i] \in Pages(Shown, Limit * (i - 1)) /\ Cardinality(pages[i]) = Limit
        /\ pages[j] \in Pages(Shown, Limit * (j - 1)) /\ table = before
    BY <2>1 DEF PagesType, PagesOfBefore
  <2>3. Shown \in SUBSET Stored /\ IsFiniteSet(Shown)
    <3>1. Shown \in SUBSET table
      BY DEF Shown
    <3> QED
      BY <3>1, FS_Subset DEF HInv, PagesType
  <2>5. ASSUME NEW a \in pages[i], NEW b \in pages[j]
        PROVE  a.at >= b.at /\ (a = b => \E x \in Shown : x.at = a.at /\ x # a)
    <3> DEFINE n == i - 1
               m == j - 1
               p == pages[i]
               q == pages[j]
               rows == Shown
    <3>1. /\ rows \in SUBSET Stored /\ IsFiniteSet(rows)
          /\ n \in Nat /\ m \in Nat /\ n < m
          /\ p \in Pages(rows, Limit * n) /\ Cardinality(p) = Limit
          /\ q \in Pages(rows, Limit * m) /\ a \in p /\ b \in q
      BY <2>1, <2>2, <2>3
    <3> HIDE DEF n, m, p, q, rows
    <3>2. a.at >= b.at /\ (a = b => \E x \in rows : x.at = a.at /\ x # a)
      BY <3>1, LaterPage
    <3> QED
      BY <3>2 DEF rows
  <2>6. ASSUME NEW row \in pages[i] \cap pages[j], Distinct(row) PROVE FALSE
    <3>1. \A x \in Shown : x.at = row.at => x = row
      BY <2>2, <2>6 DEF Distinct, Shown
    <3> QED
      BY <2>5, <3>1
  <2> QED
    BY <2>5, <2>6 DEF NewerThan
<1> QED
  BY <1>1, PagesInvariance, PTL

\* GetTransactions: a reader who asks for page after page gets every row that
\* was there when it began, was left alone and differs in created_at, however
\* many newer rows are written in between.
THEOREM ReaderMissesNothing == Spec => []NothingIsSkipped
<1>1. StillAhead => NothingIsSkipped
  BY DEF StillAhead, NothingIsSkipped, Due
<1> QED
  BY <1>1, PagesInvariance, PTL
=============================================================================
