------------------------- MODULE MCMemoryExtraction -------------------------
(* Small instances of MemoryExtraction for TLC.                            *)
EXTENDS MemoryExtraction, TLC

ExtractionSymmetry == Permutations(Workers)

\* Faults are explored while one source is being extracted; two sources at once,
\* which share the budget of the day, are explored without them.
Requested == {s \in Sources : job[s].state # "none"}
FaultsOfOne == Cardinality(Requested) > 1 => faults = 0
=============================================================================
