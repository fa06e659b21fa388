----------------------------- MODULE MCProgress -----------------------------
(***************************************************************************)
(* Two opposite transfers and a cash-out compete for two connections.      *)
(***************************************************************************)
EXTENDS Processing, TLC

CONSTANTS there, back, draw, alice, bob, keyA, keyB, tx1, tx2, tx3

MCKindOf     == there :> "Internal" @@ back :> "Internal" @@ draw :> "CashOut"
MCSenderOf   == there :> alice @@ back :> bob @@ draw :> alice
MCReceiverOf == there :> bob @@ back :> alice @@ draw :> alice
MCAmountOf   == there :> 1 @@ back :> 1 @@ draw :> 1
MCOpening    == alice :> 2 @@ bob :> 1
MCHashOf     == alice :> keyA @@ bob :> keyB
MCTxIdOf     == there :> tx1 @@ back :> tx2 @@ draw :> tx3
MCIdOf       == there :> 1 @@ back :> 2 @@ draw :> 3
=============================================================================
