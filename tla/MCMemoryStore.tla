---------------------------- MODULE MCMemoryStore ----------------------------
(* A small store for TLC: three sources compete for a slot, and one of the     *)
(* contents is of another kind than the others.                                *)
EXTENDS MemoryStore

CONSTANTS r1, r2, g1, k1, c1, c2, c3, o, e

MCKind == (c1 :> "preference") @@ (c2 :> "preference") @@ (c3 :> "constraint")
MCProposes == (r1 :> {c1}) @@ (r2 :> {c2}) @@ (g1 :> {c1, c3})
=============================================================================
