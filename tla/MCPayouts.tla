----------------------------- MODULE MCPayouts -----------------------------
(***************************************************************************)
(* A cash-out sent twice with one transaction_id: the copies race for a    *)
(* balance that covers one of them, and a cash-in covers both or brings    *)
(* the balance past the largest integer, depending on when it comes.  An   *)
(* SBP transfer of a negative amount gives its sender money; its lock key  *)
(* is the same, and its id truncates to that of the cash-out.  One request *)
(* is invalid.  With a crash.                                              *)
(***************************************************************************)
EXTENDS Processing, TLC

CONSTANTS draw, again, topUp, wire, blank, alice, bob, key, tx1, tx2, tx3, tx4

MCKindOf     == draw :> "CashOut" @@ again :> "CashOut" @@ topUp :> "CashIn"
                    @@ wire :> "SbpOutgoing" @@ blank :> "CashIn"
MCSenderOf   == draw :> alice @@ again :> alice @@ topUp :> alice @@ wire :> bob @@ blank :> bob
MCReceiverOf == MCSenderOf
MCAmountOf   == draw :> 1 @@ again :> 1 @@ topUp :> 3 @@ wire :> -1 @@ blank :> 0
MCOpening    == alice :> 1 @@ bob :> 2
MCHashOf     == alice :> key @@ bob :> key
MCTxIdOf     == draw :> tx1 @@ again :> tx1 @@ topUp :> tx4 @@ wire :> tx2 @@ blank :> tx3
MCIdOf       == draw :> 1 @@ again :> 1 @@ topUp :> 3 @@ wire :> 9 @@ blank :> 2
=============================================================================
