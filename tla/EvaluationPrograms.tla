------------------------- MODULE EvaluationPrograms -------------------------
(* The evaluation programs of the repository: the intent evaluations and    *)
(* the retrieval evaluation share the dataset's files and nothing they      *)
(* write, so a behaviour runs the programs of one of them and leaves the    *)
(* other's variables in one initial state.                                  *)
EXTENDS IntentEvaluation, RetrievalEvaluation

VARIABLE family   \* the programs in use, "intent" or "retrieval"

vars == <<family, intentVars, retrievalVars>>

Init ==
  /\ IntentInit /\ RetrievalInit
  /\ \/ family = "intent" /\ snapshot = CHOOSE hashes \in Snapshots : TRUE
     \/ family = "retrieval" /\ program = CHOOSE name \in Programs : TRUE

Next ==
  \/ family = "intent" /\ IntentNext /\ UNCHANGED <<family, retrievalVars>>
  \/ family = "retrieval" /\ RetrievalNext /\ UNCHANGED <<family, intentVars>>

Spec == Init /\ [][Next]_vars
=============================================================================
