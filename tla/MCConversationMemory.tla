------------------------ MODULE MCConversationMemory ------------------------
(* Small instances of ConversationMemory for TLC. *)
EXTENDS ConversationMemory, TLC

Symmetry == Permutations(Requests)
=============================================================================
