----------------------------- MODULE Operations -----------------------------
(***************************************************************************)
(* The four money operations of processing_core and what each of them does *)
(* to the table user_balance.  A request is a model value; the functions   *)
(* below give the fields of its protobuf message that the code looks at.   *)
(* Amounts and balances are int64 (Go) / bigint (Postgres): sums computed  *)
(* by the use cases wrap around.                                           *)
(***************************************************************************)
EXTENDS Integers

CONSTANTS
    Request,    \* requests the callers send, each handled once
    Client,     \* bank clients
    NoRow,      \* "this row does not exist" (pgx.ErrNoRows)
    KindOf,     \* the RPC the request calls
    SenderOf,   \* transaction.sender_id
    ReceiverOf, \* receiver_id of an internal transfer
    AmountOf,   \* transaction.amount, 0 when the field is missing
    Opening,    \* user_balance when the service starts
    MaxInt      \* largest value of a signed integer of the width in use

Kind  == {"CashIn", "CashOut", "Internal", "SbpOutgoing"}
Int64 == (-MaxInt - 1) .. MaxInt

ASSUME OperationsAssumption ==
    /\ MaxInt \in Nat \ {0}
    /\ NoRow \notin Int
    /\ KindOf \in [Request -> Kind]
    /\ SenderOf \in [Request -> Client]
    /\ ReceiverOf \in [Request -> Client]
    /\ AmountOf \in [Request -> Int64]
    /\ Opening \in [Client -> Int64 \cup {NoRow}]

\* Every operation but a cash-in takes money from its sender.
Debits(r) == KindOf[r] # "CashIn"

\* Operations whose money leaves the bank after the commit.
PaysOut(r) == KindOf[r] \in {"CashOut", "SbpOutgoing"}

\* validateTransaction: ozzo's Required rejects the zero value only.
Valid(r) == AmountOf[r] # 0

\* Variant of Wrap: unbounded integers.
WrapNot(x) == x

\* Variant of Wrap: saturating arithmetic.
WrapSaturating(x) == IF x > MaxInt THEN MaxInt ELSE IF x < -MaxInt - 1 THEN -MaxInt - 1 ELSE x

\* The value a sum of two int64 has in Go.
Wrap(x) ==
    IF x > MaxInt THEN x - 2 * (MaxInt + 1)
    ELSE IF x < -MaxInt - 1 THEN x + 2 * (MaxInt + 1)
    ELSE x

\* A missing row counts as balance 0 where the code tolerates ErrNoRows.
Value(row) == IF row = NoRow THEN 0 ELSE row

\* The sender's row is there and covers the amount (debiting kinds only).
Covered(rows, r) ==
    Debits(r) => /\ rows[SenderOf[r]] # NoRow
                 /\ rows[SenderOf[r]] >= AmountOf[r]

\* What the sender's balance becomes, from the value read for it.
SenderAfter(r, row) ==
    Wrap(IF Debits(r) THEN Value(row) - AmountOf[r] ELSE Value(row) + AmountOf[r])

\* The effect of a whole operation on user_balance.
Posted(rows, r) ==
    LET debited == [rows EXCEPT ![SenderOf[r]] = SenderAfter(r, rows[SenderOf[r]])]
    IN  IF KindOf[r] = "Internal"
        THEN [debited EXCEPT ![ReceiverOf[r]] =
                                 Wrap(Value(debited[ReceiverOf[r]]) + AmountOf[r])]
        ELSE debited
=============================================================================
