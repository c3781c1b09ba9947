------------------------- MODULE MCEmbeddedRealtime -------------------------
(* A small instance of the embedded realtime path.                         *)
EXTENDS EmbeddedRealtime, TLC

Symmetric == Permutations(Conns) \union Permutations(Handles)
=============================================================================
