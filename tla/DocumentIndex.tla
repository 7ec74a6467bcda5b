--------------------------- MODULE DocumentIndex ---------------------------
(***************************************************************************)
(* What the index promises retrieval and the upload API (ADR-0002): a      *)
(* document is a numbered series of versions; publishing a version         *)
(* replaces the published one in the same step, so a document never has    *)
(* two and, once it has one, is never without until it is removed.         *)
(* DocumentIngestion shows that the transactions of                        *)
(* ingestion_repository.py and document_repository.py implement this.      *)
(***************************************************************************)
EXTENDS Naturals

CONSTANTS Versions,     \* one version per upload
          NoDocument    \* the document of a version that was never built

VARIABLES document,    \* document[v]: the document v is a version of
          number,      \* number[v]: its version number, 0 when it was never built
          status       \* status[v]: "absent", then a state of ADR-0002, at last "deleted"

indexVars == <<document, number, status>>

VersionsOf(d) == {v \in Versions : document[v] = d /\ status[v] \notin {"absent", "deleted"}}

IndexInit ==
  /\ document = [v \in Versions |-> NoDocument]
  /\ number = [v \in Versions |-> 0]
  /\ status = [v \in Versions |-> "absent"]

Build(v, d) ==
  /\ status[v] = "absent"
  /\ \E last \in {number[w] : w \in VersionsOf(d)} \union {0} :
       /\ \A w \in VersionsOf(d) : number[w] <= last
       /\ number' = [number EXCEPT ![v] = last + 1]
  /\ document' = [document EXCEPT ![v] = d]
  /\ status' = [status EXCEPT ![v] = "building"]

Publish(v) ==
  /\ status[v] = "building"
  /\ status' = [w \in Versions |->
       IF w = v THEN "active"
       ELSE IF w \in VersionsOf(document[v]) /\ status[w] = "active" THEN "superseded"
       ELSE status[w]]
  /\ UNCHANGED <<document, number>>

Fail(v) ==
  /\ status[v] = "building"
  /\ status' = [status EXCEPT ![v] = "failed"]
  /\ UNCHANGED <<document, number>>

Remove(d) ==
  /\ VersionsOf(d) # {}
  /\ status' = [v \in Versions |-> IF v \in VersionsOf(d) THEN "deleted" ELSE status[v]]
  /\ UNCHANGED <<document, number>>

\* A document is identified with the version that was first built in it.
IndexNext ==
  \E v \in Versions :
    \/ \E d \in Versions : Build(v, d)
    \/ Publish(v)
    \/ Fail(v)
    \/ Remove(v)

IndexSpec == IndexInit /\ [][IndexNext]_indexVars
=============================================================================
