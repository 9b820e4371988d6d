----------------------------- MODULE MCToolLoop -----------------------------
(* TLC instances of ToolLoop.                                              *)
EXTENDS ToolLoop, TLC

\* The three tools; generate_diagram has no limit of its own.
WriterTools == ("search" :> 1) @@ ("extract_webpage" :> 1) @@ ("generate_diagram" :> 2)
LoopSymmetry == Permutations(CallIds)
=============================================================================
