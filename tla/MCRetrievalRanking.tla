------------------------ MODULE MCRetrievalRanking ------------------------
(* A small instance of RetrievalRanking for TLC: document "a" gets a second  *)
(* version, and both documents hold the text "x".                            *)
EXTENDS RetrievalRanking

MCChunks == 1..5
MCDocumentOf == <<"a", "a", "b", "b", "a">>
MCVersionOf  == <<1, 1, 1, 1, 2>>
MCContentOf  == <<"x", "y", "x", "z", "w">>
=============================================================================
