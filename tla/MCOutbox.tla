------------------------------ MODULE MCOutbox ------------------------------
(* Small instances of Outbox for TLC.  Its run checks liveness, so symmetric   *)
(* states are not identified.                                                 *)
EXTENDS Outbox, TLC
=============================================================================
