-------------------------- MODULE MCEmbeddingGate --------------------------
(* Small instances of EmbeddingGate for TLC. *)
EXTENDS EmbeddingGate, TLC

Symmetry == Permutations(Calls)
=============================================================================
