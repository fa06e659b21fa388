------------------------------ MODULE MCServer ------------------------------
(***************************************************************************)
(* A cash-out that may hang, a call without a transaction and an ordinary  *)
(* call.                                                                   *)
(***************************************************************************)
EXTENDS Server
=============================================================================
