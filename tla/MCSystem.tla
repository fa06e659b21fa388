------------------------------ MODULE MCSystem ------------------------------
(***************************************************************************)
(* A cash-out and an SBP transfer of one client, both large enough for the      *)
(* rules, against spending that passes them and spending that does not.    *)
(***************************************************************************)
EXTENDS System, TLC

CONSTANTS draw, move, alice, keyA, tx1, tx2

MCKindOf     == draw :> "CashOut" @@ move :> "SbpOutgoing"
MCSenderOf   == draw :> alice @@ move :> alice
MCReceiverOf == draw :> alice @@ move :> alice
MCAmountOf   == draw :> 3 @@ move :> 5
MCOpening    == alice :> 7
MCHashOf     == alice :> keyA
MCTxIdOf     == draw :> tx1 @@ move :> tx2
MCIdOf       == draw :> 1 @@ move :> 2
MCTotal      == {0, 6500000}
MCCount      == {1}
=============================================================================
