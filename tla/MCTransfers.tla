---------------------------- MODULE MCTransfers ----------------------------
(***************************************************************************)
(* Two opposite transfers that deadlock on the advisory locks of their     *)
(* clients, a transfer from a client to itself, and a cash-in to a client  *)
(* who has no row yet.                                                     *)
(***************************************************************************)
EXTENDS Processing, TLC

CONSTANTS there, back, self, first, alice, bob, carol, keyA, keyB, tx1, tx2, tx3, tx4

MCKindOf     == there :> "Internal" @@ back :> "Internal" @@ self :> "Internal" @@ first :> "CashIn"
MCSenderOf   == there :> alice @@ back :> bob   @@ self :> bob @@ first :> carol
MCReceiverOf == there :> bob   @@ back :> alice @@ self :> bob @@ first :> carol
MCAmountOf   == there :> 3     @@ back :> 1     @@ self :> 1   @@ first :> 1
MCOpening    == alice :> 2 @@ bob :> 2 @@ carol :> NoRow
MCHashOf     == alice :> keyA @@ bob :> keyB @@ carol :> keyA
MCTxIdOf     == there :> tx1 @@ back :> tx2 @@ self :> tx3 @@ first :> tx4
MCIdOf       == there :> 1 @@ back :> 2 @@ self :> 3 @@ first :> 4
=============================================================================
