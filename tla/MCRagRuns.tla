----------------------------- MODULE MCRagRuns -----------------------------
(* Small instances of RagRuns for TLC. *)
EXTENDS RagRuns, TLC

Symmetry == Permutations(Requests) \union Permutations(Conversations)
=============================================================================
