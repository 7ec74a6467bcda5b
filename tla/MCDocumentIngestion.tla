------------------------ MODULE MCDocumentIngestion ------------------------
(* Small instances of DocumentIngestion for TLC. *)
EXTENDS DocumentIngestion, TLC

Symmetry == Permutations(Uploads) \union Permutations(Deletions)
=============================================================================
