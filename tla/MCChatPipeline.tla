--------------------------- MODULE MCChatPipeline ---------------------------
(* Small instances of ChatPipeline for TLC. *)
EXTENDS ChatPipeline, TLC

Symmetry == Permutations(Questions)
=============================================================================
