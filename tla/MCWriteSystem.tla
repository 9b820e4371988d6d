--------------------------- MODULE MCWriteSystem ----------------------------
(* Small instances of WriteSystem for TLC.  Its runs check liveness, so        *)
(* symmetric states are not identified.                                       *)
EXTENDS WriteSystem, TLC
=============================================================================
