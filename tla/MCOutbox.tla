------------------------------ MODULE MCOutbox ------------------------------
(* Outbox on a small instance.                                             *)
EXTENDS Outbox, TLC
=============================================================================
