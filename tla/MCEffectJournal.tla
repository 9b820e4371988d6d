-------------------------- MODULE MCEffectJournal --------------------------
(* Small instances of EffectJournal for TLC.                               *)
EXTENDS EffectJournal, TLC

JournalSymmetry == Permutations(EffectKeys) \cup Permutations(Payloads)
=============================================================================
