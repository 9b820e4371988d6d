----------------------------- MODULE MCJobStore -----------------------------
(* Small instances of JobStore for TLC.  The names that only label data are   *)
(* interchangeable, so their permutations are symmetries of the safety runs.  *)
EXTENDS JobStore, TLC

Symmetry ==
    Permutations(ProgressKeys) \cup Permutations(EffectKeys)
        \cup Permutations(Interrupts) \cup Permutations(Payloads)
=============================================================================
