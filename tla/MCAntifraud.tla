---------------------------- MODULE MCAntifraud ----------------------------
(***************************************************************************)
(* One call of each RPC of interest, with amounts that pass one or both    *)
(* amount thresholds and sums below, at and above the limits.              *)
(***************************************************************************)
EXTENDS Antifraud, TLC

CONSTANTS cash, sbp

MCKindOf   == cash :> "CashOut" @@ sbp :> "SbpOutgoing"
MCAmountOf == cash :> 7500000 @@ sbp :> 1000000
MCTotal    == {0, 1499999, 1500000, 3500000}
MCCount    == {4, 12}
=============================================================================
