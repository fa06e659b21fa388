----------------------------- MODULE MCHistory -----------------------------
(***************************************************************************)
(* Rows of one sender with a tie in created_at, one that shares an id, and *)
(* an update that takes its row to the front of the table and out of the   *)
(* filter on the amount; one row of another sender.                        *)
(***************************************************************************)
EXTENDS History

CONSTANTS alice, bob, tx1, tx2, tx3, tx4

RowOf(id, tx, sender, amount, at) ==
    [id |-> id, tx |-> tx, sender |-> sender, amount |-> amount, at |-> at]

MCCandidate ==
    {RowOf(1, tx1, alice, 5, 1), RowOf(2, tx2, alice, 5, 2), RowOf(1, tx3, alice, 5, 2),
     RowOf(3, tx4, bob, 5, 3), RowOf(4, tx1, alice, 1, 4), RowOf(2, tx2, alice, 6, 5)}

MCFilter ==
    {[tx |-> Unset, sender |-> sender, amountMin |-> min, createdAtTo |-> to] :
        sender \in {Unset, alice}, min \in {Unset, 5}, to \in {Unset, 4}}
=============================================================================
