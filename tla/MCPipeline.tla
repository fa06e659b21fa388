----------------------------- MODULE MCPipeline -----------------------------
(***************************************************************************)
(* One DAG at a time, the others are paused: their tasks share no table.   *)
(* One client takes cash in two windows of half an hour, the second        *)
(* message handed over twice, and another client in the first; two windows *)
(* of three hours end in between.  In the first window of the partners the *)
(* target pays two clients by SBP, in the second one of them again and the *)
(* other by an internal transfer: the buckets outnumber the rows a query   *)
(* reads, within a window and across windows.                              *)
(***************************************************************************)
EXTENDS Pipeline, TLC

CONSTANTS cash, cashToo, other, pay, payToo, again, move, target, friend, shop

\* A field of the transactions of the instance, of those it uses.
Of(field) == [t \in Tx |-> field[t]]

MCKindOf     == Of(cash :> "CashOut" @@ cashToo :> "CashOut" @@ other :> "CashOut"
                       @@ pay :> "SbpOutgoing" @@ payToo :> "SbpOutgoing"
                       @@ again :> "SbpOutgoing" @@ move :> "Internal")
MCSenderOf   == [t \in Tx |-> IF t = other THEN friend ELSE target]
MCReceiverOf == Of(cash :> target @@ cashToo :> target @@ other :> friend @@ pay :> friend
                       @@ payToo :> shop @@ again :> friend @@ move :> shop)
MCCreatedAt  == [t \in Tx |-> IF t \in {cashToo, again, move} THEN 6 ELSE 5]
MCUuidOf     == friend :> 1 @@ shop :> 2 @@ target :> 3
MCMaxCopies  == [t \in Tx |-> IF t = cashToo THEN 2 ELSE 1]

\* Which DAGs are on together, and how many attempts of each task fail.
OneDag        == {{"cashOut30m"}, {"spent3h"}, {"sbpPartners30m", "internalPartners30m"}}
ShortFeatures == {{"cashOut30m", "sbpPartners30m", "internalPartners30m"}}
SomeFailures  == [task \in Task |-> CASE task = "cashOut30m"     -> 1
                                      [] task = "sbpPartners30m" -> 2
                                      [] OTHER                   -> 0]
NoFailures    == [task \in Task |-> 0]
=============================================================================
