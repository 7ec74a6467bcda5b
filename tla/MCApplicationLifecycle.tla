---------------------- MODULE MCApplicationLifecycle ----------------------
(* A small instance of ApplicationLifecycle for TLC.                        *)
EXTENDS ApplicationLifecycle, TLC

MCClients == <<"final", "fast", "rerank">>
MCErrors == {[kind |-> "connection", status |-> 0, quota |-> FALSE],
             [kind |-> "status", status |-> 429, quota |-> TRUE]}
Symmetry == Permutations(Streams)
============================================================================
