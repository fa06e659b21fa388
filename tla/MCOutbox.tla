------------------------------ MODULE MCOutbox ------------------------------
(***************************************************************************)
(* Instances of Outbox: three messages in batches of two, for one          *)
(* publisher and for the two of overlapping processes.                     *)
(***************************************************************************)
EXTENDS Outbox
=============================================================================
