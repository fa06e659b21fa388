------------------------------- MODULE Ledger -------------------------------
(***************************************************************************)
(* What processing_core promises to a caller, without transactions, locks  *)
(* or failures: a request is posted at most once, all of it in one step,   *)
(* against the balances of that moment, and the entry that announces it to *)
(* the rest of the system appears in the same step.                        *)
(***************************************************************************)
EXTENDS Operations

VARIABLES
    account, \* balance of each client, or NoRow
    entries  \* requests that were posted

Init ==
    /\ account = Opening
    /\ entries = {}

Post(r) ==
    /\ r \notin entries
    /\ Valid(r)
    /\ Covered(account, r)
    /\ account' = Posted(account, r)
    /\ entries' = entries \cup {r}

Next == \E r \in Request : Post(r)

Spec == Init /\ [][Next]_<<account, entries>>
=============================================================================
