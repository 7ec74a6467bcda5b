------------------------- MODULE DocumentIngestion -------------------------
(***************************************************************************)
(* Synchronous uploads and deletions in one knowledge base:                *)
(* DocumentIngestionService (application/document_ingestion.py) around     *)
(* SQLAlchemyIngestionRepository, and delete_document of                   *)
(* document_repository.py.                                                 *)
(*                                                                         *)
(* An upload is a coroutine with up to three transactions: create (the     *)
(* building version), activate (the switch) and mark (failed).  As in      *)
(* RagRuns a cancelled coroutine leaves its COMMIT on the way, and what a  *)
(* transaction writes is visible when its COMMIT takes effect.  The row    *)
(* locks, the foreign key from a version to its document and the partial   *)
(* unique index on active versions are those PostgreSQL enforces: here,    *)
(* unlike in RagRuns, the code does rely on the index.                     *)
(*                                                                         *)
(* A version is named after the upload that built it, a document after the *)
(* upload that created it.  Chunks are visible with the activation that    *)
(* inserts them, so active stands for "retrievable with all its chunks".   *)
(***************************************************************************)
EXTENDS Naturals, FiniteSets

CONSTANTS Uploads,       \* uploads (one ingest() call each)
          Deletions,     \* delete_document calls
          SourceKeys,    \* source keys the uploads name
          Nothing,       \* no document, no version, no key
          MaxCancels,    \* cancellations one upload may receive
          MaxFaults      \* database errors and process crashes in a behaviour

ASSUME IngestionAssumption ==
  /\ Nothing \notin Uploads
  /\ Uploads \intersect Deletions = {}
  /\ MaxCancels \in Nat
  /\ MaxFaults \in Nat

VARIABLES
  \* committed rows
  documents,          \* the documents that exist
  sourceKey,          \* sourceKey[u]: the key upload u names, and the document it created has
  versionDocument,    \* the document of each version, Nothing before its create commits
  versionNumber,      \* its version number
  versionStatus,      \* "absent", "building", "active", "failed", "superseded" or "deleted"
  \* transactions
  tx,                 \* tx[t]: "none", "open", "committing", "committed", "aborted"
  holds,              \* holds[t]: the rows t has locked exclusively
  shares,             \* shares[t]: the documents t holds a foreign-key lock on
  \* coroutines
  pc,                 \* the await each upload or deletion is suspended at
  found,              \* found[u]: the document a create or a deletion works on
  number,             \* number[u]: the version number its create computed
  replaces,           \* replaces[u]: the active version its activation supersedes
  reply,              \* what the caller was told
  earlier,            \* earlier[u]: the activations whose upload had ended when u began (history)
  cancels,            \* cancellations each upload received
  faults              \* database errors and crashes so far

rows == <<documents, sourceKey, versionDocument, versionNumber, versionStatus>>
control == <<found, number, replaces, reply, cancels, faults>>
locals == <<control, earlier>>
vars == <<rows, tx, holds, shares, pc, locals>>

Actors == Uploads \union Deletions
Transactions == (Uploads \X {"create", "activate", "mark"}) \union (Deletions \X {"delete"})

Document(d) == <<"document", d>>
Version(v) == <<"version", v>>
KnowledgeBase == <<"knowledge_base", Nothing>>
Rows == {KnowledgeBase} \union ({"document", "version"} \X Uploads)

CreatePcs == {"create_lock", "create_insert", "create_commit"}
ActivatePcs == {"activate_lock", "activate_supersede", "activate_write", "activate_commit"}
MarkPcs == {"mark_lock", "mark_commit"}
UploadPcs == CreatePcs \union {"embedding"} \union ActivatePcs \union MarkPcs
DeletePcs == {"delete_document", "delete_cascade", "delete_commit"}

Existing(v) == versionStatus[v] \notin {"absent", "deleted"}
VersionsOf(d) == {v \in Uploads : versionDocument[v] = d /\ Existing(v)}
ActiveVersions(d) == {v \in VersionsOf(d) : versionStatus[v] = "active"}

Init ==
  /\ documents = {}
  /\ sourceKey = [u \in Uploads |-> Nothing]
  /\ versionDocument = [u \in Uploads |-> Nothing]
  /\ versionNumber = [u \in Uploads |-> 0]
  /\ versionStatus = [u \in Uploads |-> "absent"]
  /\ tx = [t \in Transactions |-> "none"]
  /\ holds = [t \in Transactions |-> {}]
  /\ shares = [t \in Transactions |-> {}]
  /\ pc = [a \in Actors |-> "idle"]
  /\ found = [a \in Actors |-> Nothing]
  /\ number = [u \in Uploads |-> 0]
  /\ replaces = [u \in Uploads |-> Nothing]
  /\ reply = [a \in Actors |-> "none"]
  /\ earlier = [u \in Uploads |-> {}]
  /\ cancels = [u \in Uploads |-> 0]
  /\ faults = 0

-----------------------------------------------------------------------------
(* Transactions (external: PostgreSQL and the SQLAlchemy session)          *)

Goto(a, p) == pc' = [pc EXCEPT ![a] = p]
Answer(a, what) == reply' = [reply EXCEPT ![a] = what]
Finish(a, what) == Goto(a, "finished") /\ Answer(a, what)

OpenTx(t) == tx' = [tx EXCEPT ![t] = "open"]
SendCommit(t) == tx' = [tx EXCEPT ![t] = "committing"]

Unlocked(row) == \A t \in Transactions : row \notin holds[t]
Lock(t, row) == Unlocked(row) /\ holds' = [holds EXCEPT ![t] = @ \union {row}]

\* The transactions of S end and their locks go.
ReleaseAll(S) ==
  /\ holds' = [t \in Transactions |-> IF t \in S THEN {} ELSE holds[t]]
  /\ shares' = [t \in Transactions |-> IF t \in S THEN {} ELSE shares[t]]

EndTx(t, how) == tx' = [tx EXCEPT ![t] = how] /\ ReleaseAll({t})

-----------------------------------------------------------------------------
(* create_building_version                                                 *)

EndedActivations ==
  {w \in Uploads : /\ pc[w] = "finished"
                   /\ versionStatus[w] \in {"building", "active"}
                   /\ tx[<<w, "activate">>] \in {"committing", "committed"}}

\* Parsed and chunked, with the tokenizer the index was built with: ingest()
\* goes on to create_building_version.
Upload(u, key) ==
  /\ pc[u] = "idle"
  /\ sourceKey' = [sourceKey EXCEPT ![u] = key]
  /\ OpenTx(<<u, "create">>)
  /\ Goto(u, "create_lock")
  /\ earlier' = [earlier EXCEPT ![u] = EndedActivations]
  /\ UNCHANGED <<documents, versionDocument, versionNumber, versionStatus, holds, shares, control>>

\* Parsing or chunking fails, or the tokenizer is not that of the index.
Refuse(u) ==
  /\ pc[u] = "idle"
  /\ Finish(u, "error")
  /\ UNCHANGED <<rows, tx, holds, shares, found, number, replaces, cancels, faults, earlier>>

\* Mutant: the knowledge base is read without FOR UPDATE.
LockKnowledgeBaseWithoutWaiting(u) ==
  holds' = [holds EXCEPT ![<<u, "create">>] = @ \union {KnowledgeBase}]

LockKnowledgeBase(u) == Lock(<<u, "create">>, KnowledgeBase)

\* The document with this source key, or a new one named after the upload.
FindDocument(u) ==
  IF \E d \in documents : sourceKey[d] = sourceKey[u]
  THEN CHOOSE d \in documents : sourceKey[d] = sourceKey[u]
  ELSE u

CreateLock(u) ==
  /\ pc[u] = "create_lock"
  /\ LockKnowledgeBase(u)
  /\ found' = [found EXCEPT ![u] = FindDocument(u)]
  /\ Goto(u, "create_insert")
  /\ UNCHANGED <<rows, tx, shares, number, replaces, reply, cancels, faults, earlier>>

\* Mutant: the number after that of the active version.
NextVersionAfterActive(d) ==
  1 + (CHOOSE last \in {versionNumber[v] : v \in ActiveVersions(d)} \union {0} :
         \A v \in ActiveVersions(d) : versionNumber[v] <= last)

\* coalesce(max(version_number), 0) + 1 over the committed versions of d.
NextVersion(d) ==
  1 + (CHOOSE last \in {versionNumber[v] : v \in VersionsOf(d)} \union {0} :
         \A v \in VersionsOf(d) : versionNumber[v] <= last)

\* Inserting the version takes the foreign-key lock on its document, which
\* waits for a deletion under way.
CreateInsert(u) ==
  /\ pc[u] = "create_insert"
  /\ found[u] \in documents \union {u}
  /\ Unlocked(Document(found[u]))
  /\ number' = [number EXCEPT ![u] = NextVersion(found[u])]
  /\ shares' = [shares EXCEPT ![<<u, "create">>] = {found[u]}]
  /\ SendCommit(<<u, "create">>)
  /\ Goto(u, "create_commit")
  /\ UNCHANGED <<rows, holds, found, replaces, reply, cancels, faults, earlier>>

\* The document was deleted after it was found: the foreign key refuses the version.
CreateRefused(u) ==
  /\ pc[u] = "create_insert"
  /\ found[u] \notin documents \union {u}
  /\ EndTx(<<u, "create">>, "aborted")
  /\ Finish(u, "error")
  /\ UNCHANGED <<rows, found, number, replaces, cancels, faults, earlier>>

CreateReturns(u) ==
  /\ pc[u] = "create_commit"
  /\ tx[<<u, "create">>] = "committed"
  /\ Goto(u, "embedding")
  /\ UNCHANGED <<rows, tx, holds, shares, locals>>

-----------------------------------------------------------------------------
(* embed and activate_version                                              *)

StartMark(u) ==
  /\ Goto(u, "mark_lock")
  /\ tx' = [tx EXCEPT ![<<u, "mark">>] = "open"]

\* A vector for every chunk, of the right model and normalised.
EmbedSucceeds(u) ==
  /\ pc[u] = "embedding"
  /\ OpenTx(<<u, "activate">>)
  /\ Goto(u, "activate_lock")
  /\ UNCHANGED <<rows, holds, shares, locals>>

\* The model fails, or its batch does not pass _validate_embedding_batch.
EmbedFails(u) ==
  /\ pc[u] = "embedding"
  /\ StartMark(u)
  /\ UNCHANGED <<rows, holds, shares, locals>>

\* The version row is locked; then the UPDATE of active versions takes its snapshot.
ActivateLock(u) ==
  /\ pc[u] = "activate_lock"
  /\ versionStatus[u] = "building"
  /\ Lock(<<u, "activate">>, Version(u))
  /\ \E v \in IF ActiveVersions(versionDocument[u]) = {} THEN {Nothing}
              ELSE ActiveVersions(versionDocument[u]) :
       replaces' = [replaces EXCEPT ![u] = v]
  /\ Goto(u, "activate_supersede")
  /\ UNCHANGED <<rows, tx, shares, found, number, reply, cancels, faults, earlier>>

\* activate_version raises, and ingest() records the failure.
ActivateRaises(u) ==
  /\ tx' = [tx EXCEPT ![<<u, "activate">>] = "aborted", ![<<u, "mark">>] = "open"]
  /\ ReleaseAll({<<u, "activate">>})
  /\ Goto(u, "mark_lock")
  /\ UNCHANGED <<rows, locals>>

\* version_state_conflict: the version went with its document.
ActivateConflict(u) ==
  /\ pc[u] = "activate_lock"
  /\ Unlocked(Version(u))
  /\ versionStatus[u] # "building"
  /\ ActivateRaises(u)

\* The UPDATE waits for the row it saw active, and skips it when it no longer is.
ActivateSupersede(u) ==
  /\ pc[u] = "activate_supersede"
  /\ \/ replaces[u] # Nothing /\ versionStatus[replaces[u]] = "active"
        /\ Lock(<<u, "activate">>, Version(replaces[u])) /\ UNCHANGED replaces
     \/ replaces[u] # Nothing /\ versionStatus[replaces[u]] # "active"
        /\ Unlocked(Version(replaces[u]))
        /\ replaces' = [replaces EXCEPT ![u] = Nothing] /\ UNCHANGED holds
     \/ replaces[u] = Nothing /\ UNCHANGED <<holds, replaces>>
  /\ Goto(u, "activate_write")
  /\ UNCHANGED <<rows, tx, shares, found, number, reply, cancels, faults, earlier>>

\* An uncommitted activation of the same document makes the unique index wait.
ActivationPending(u) ==
  \E w \in Uploads \ {u} :
    tx[<<w, "activate">>] = "committing" /\ versionDocument[w] = versionDocument[u]

\* What ux_document_versions_one_active refuses.
DuplicateActive(u) == ActiveVersions(versionDocument[u]) \ {replaces[u]} # {}

\* The status and every chunk are flushed and COMMIT is sent.
ActivateWrite(u) ==
  /\ pc[u] = "activate_write"
  /\ ~ActivationPending(u)
  /\ ~DuplicateActive(u)
  /\ SendCommit(<<u, "activate">>)
  /\ Goto(u, "activate_commit")
  /\ UNCHANGED <<rows, holds, shares, locals>>

ActivateDuplicate(u) ==
  /\ pc[u] = "activate_write"
  /\ ~ActivationPending(u)
  /\ DuplicateActive(u)
  /\ ActivateRaises(u)

\* Mutant: the result is returned while the COMMIT is on its way.
ActivateReturnsEarly(u) ==
  /\ pc[u] = "activate_commit"
  /\ Finish(u, "created")
  /\ UNCHANGED <<rows, tx, holds, shares, found, number, replaces, cancels, faults, earlier>>

ActivateReturns(u) ==
  /\ pc[u] = "activate_commit"
  /\ tx[<<u, "activate">>] = "committed"
  /\ Finish(u, "created")
  /\ UNCHANGED <<rows, tx, holds, shares, found, number, replaces, cancels, faults, earlier>>

-----------------------------------------------------------------------------
(* mark_version_failed                                                     *)

\* Mutant: a version of any status is marked failed.
MarkLockUnchecked(u) ==
  /\ pc[u] = "mark_lock"
  /\ Existing(u)
  /\ Lock(<<u, "mark">>, Version(u))
  /\ SendCommit(<<u, "mark">>)
  /\ Goto(u, "mark_commit")
  /\ UNCHANGED <<rows, shares, locals>>

MarkLock(u) ==
  /\ pc[u] = "mark_lock"
  /\ versionStatus[u] = "building"
  /\ Lock(<<u, "mark">>, Version(u))
  /\ SendCommit(<<u, "mark">>)
  /\ Goto(u, "mark_commit")
  /\ UNCHANGED <<rows, shares, locals>>

\* The version was activated after all, superseded or deleted:
\* failure_recording_failed replaces the original exception.
MarkConflict(u) ==
  /\ pc[u] = "mark_lock"
  /\ Unlocked(Version(u))
  /\ versionStatus[u] # "building"
  /\ EndTx(<<u, "mark">>, "aborted")
  /\ Finish(u, "failure_recording_failed")
  /\ UNCHANGED <<rows, found, number, replaces, cancels, faults, earlier>>

MarkReturns(u) ==
  /\ pc[u] = "mark_commit"
  /\ tx[<<u, "mark">>] = "committed"
  /\ Finish(u, "error")
  /\ UNCHANGED <<rows, tx, holds, shares, found, number, replaces, cancels, faults, earlier>>

-----------------------------------------------------------------------------
(* delete_document                                                         *)

Delete(d, doc) ==
  /\ pc[d] = "idle"
  /\ found' = [found EXCEPT ![d] = doc]
  /\ OpenTx(<<d, "delete">>)
  /\ Goto(d, "delete_document")
  /\ UNCHANGED <<rows, holds, shares, number, replaces, reply, cancels, faults, earlier>>

\* DELETE FROM documents waits for the locks of other deletions and of creates.
DeleteRow(d) ==
  /\ pc[d] = "delete_document"
  /\ found[d] \in documents
  /\ Lock(<<d, "delete">>, Document(found[d]))
  /\ \A t \in Transactions : found[d] \notin shares[t]
  /\ Goto(d, "delete_cascade")
  /\ UNCHANGED <<rows, tx, shares, locals>>

DeleteNotFound(d) ==
  /\ pc[d] = "delete_document"
  /\ found[d] \notin documents
  /\ EndTx(<<d, "delete">>, "aborted")
  /\ Finish(d, "not_found")
  /\ UNCHANGED <<rows, found, number, replaces, cancels, faults, earlier>>

ToCascade(d) == {v \in VersionsOf(found[d]) : Version(v) \notin holds[<<d, "delete">>]}

\* ON DELETE CASCADE locks the versions one after the other.
DeleteCascade(d) ==
  /\ pc[d] = "delete_cascade"
  /\ \E v \in ToCascade(d) : Lock(<<d, "delete">>, Version(v))
  /\ UNCHANGED <<rows, tx, shares, pc, locals>>

DeleteSendsCommit(d) ==
  /\ pc[d] = "delete_cascade"
  /\ ToCascade(d) = {}
  /\ SendCommit(<<d, "delete">>)
  /\ Goto(d, "delete_commit")
  /\ UNCHANGED <<rows, holds, shares, locals>>

DeleteReturns(d) ==
  /\ pc[d] = "delete_commit"
  /\ tx[<<d, "delete">>] = "committed"
  /\ Finish(d, "deleted")
  /\ UNCHANGED <<rows, tx, holds, shares, found, number, replaces, cancels, faults, earlier>>

-----------------------------------------------------------------------------
(* COMMIT takes effect                                                     *)

CommitCreate(u) ==
  /\ tx[<<u, "create">>] = "committing"
  /\ documents' = IF found[u] = u THEN documents \union {u} ELSE documents
  /\ versionDocument' = [versionDocument EXCEPT ![u] = found[u]]
  /\ versionNumber' = [versionNumber EXCEPT ![u] = number[u]]
  /\ versionStatus' = [versionStatus EXCEPT ![u] = "building"]
  /\ EndTx(<<u, "create">>, "committed")
  /\ UNCHANGED <<sourceKey, pc, locals>>

CommitActivate(u) ==
  /\ tx[<<u, "activate">>] = "committing"
  /\ versionStatus' = [v \in Uploads |->
       IF v = u THEN "active" ELSE IF v = replaces[u] THEN "superseded" ELSE versionStatus[v]]
  /\ EndTx(<<u, "activate">>, "committed")
  /\ UNCHANGED <<documents, sourceKey, versionDocument, versionNumber, pc, locals>>

CommitMark(u) ==
  /\ tx[<<u, "mark">>] = "committing"
  /\ versionStatus' = [versionStatus EXCEPT ![u] = "failed"]
  /\ EndTx(<<u, "mark">>, "committed")
  /\ UNCHANGED <<documents, sourceKey, versionDocument, versionNumber, pc, locals>>

CommitDelete(d) ==
  /\ tx[<<d, "delete">>] = "committing"
  /\ documents' = documents \ {found[d]}
  /\ versionStatus' = [v \in Uploads |->
       IF Version(v) \in holds[<<d, "delete">>] THEN "deleted" ELSE versionStatus[v]]
  /\ EndTx(<<d, "delete">>, "committed")
  /\ UNCHANGED <<sourceKey, versionDocument, versionNumber, pc, locals>>

-----------------------------------------------------------------------------
(* Cancellation, errors, deadlock, crashes                                 *)

Marked(u) == pc[u] \in ActivatePcs \union {"embedding"}

\* Mutant: a cancelled ingest() is not recorded (it is no Exception).
UnwindExceptionsOnly(u, what) ==
  IF what = "error" /\ Marked(u) THEN Goto(u, "mark_lock") /\ UNCHANGED reply
  ELSE Finish(u, what)

\* How ingest() leaves an await that raises: nothing guards the create; from
\* then on the failure is recorded; recording it is not retried.
Unwind(u, what) ==
  IF Marked(u) THEN Goto(u, "mark_lock") /\ UNCHANGED reply ELSE Finish(u, what)

OpenTxs(actors) == {t \in Transactions : t[1] \in actors /\ tx[t] = "open"}

\* Mutant: the session of a failing transaction is never closed.
AbandonWithoutRollback(u) ==
  /\ tx' = IF Marked(u) THEN [tx EXCEPT ![<<u, "mark">>] = "open"] ELSE tx
  /\ UNCHANGED <<holds, shares>>

\* An open transaction is rolled back; a COMMIT already sent stays on its way.
Abandon(u) ==
  /\ tx' = [t \in Transactions |->
       IF t \in OpenTxs({u}) THEN "aborted"
       ELSE IF t = <<u, "mark">> /\ Marked(u) THEN "open" ELSE tx[t]]
  /\ ReleaseAll(OpenTxs({u}))

Cancel(u) ==
  /\ pc[u] \in UploadPcs
  /\ cancels[u] < MaxCancels
  /\ cancels' = [cancels EXCEPT ![u] = @ + 1]
  /\ Unwind(u, "cancelled")
  /\ Abandon(u)
  /\ UNCHANGED <<rows, found, number, replaces, faults, earlier>>

\* A statement, or the reply to a COMMIT, is lost.
DatabaseError(u) ==
  /\ pc[u] \in UploadPcs \ {"embedding"}
  /\ faults < MaxFaults
  /\ faults' = faults + 1
  /\ Unwind(u, IF pc[u] \in MarkPcs THEN "failure_recording_failed" ELSE "error")
  /\ Abandon(u)
  /\ UNCHANGED <<rows, found, number, replaces, cancels, earlier>>

\* An activation that holds its version waits for the active one; a deletion
\* that holds the active one waits for the new version.
Deadlocked(u, d) ==
  /\ pc[u] = "activate_supersede"
  /\ pc[d] = "delete_cascade"
  /\ Version(replaces[u]) \in holds[<<d, "delete">>]
  /\ u \in ToCascade(d)

\* PostgreSQL breaks the deadlock by failing one of the two.
DeadlockFailsActivation(u) ==
  /\ \E d \in Deletions : Deadlocked(u, d)
  /\ ActivateRaises(u)

DeletionEnds(d) ==
  /\ tx' = [t \in Transactions |-> IF t \in OpenTxs({d}) THEN "aborted" ELSE tx[t]]
  /\ ReleaseAll(OpenTxs({d}))
  /\ Finish(d, "error")
  /\ UNCHANGED <<rows, found, number, replaces, cancels, faults, earlier>>

DeadlockFailsDeletion(d) ==
  /\ \E u \in Uploads : Deadlocked(u, d)
  /\ DeletionEnds(d)

\* A deletion is cancelled, or its database connection fails.
DeletionFails(d) ==
  /\ pc[d] \in DeletePcs
  /\ DeletionEnds(d)

\* The process dies: its connections close, and so do the open transactions.
Crash ==
  /\ faults < MaxFaults
  /\ faults' = faults + 1
  /\ pc' = [a \in Actors |-> IF pc[a] = "idle" THEN "idle" ELSE "finished"]
  /\ tx' = [t \in Transactions |-> IF t \in OpenTxs(Actors) THEN "aborted" ELSE tx[t]]
  /\ ReleaseAll(OpenTxs(Actors))
  /\ UNCHANGED <<rows, found, number, replaces, reply, cancels, earlier>>

\* A COMMIT whose connection failed may turn out not to have happened.
CommitLost(u, phase) ==
  /\ faults > 0
  /\ tx[<<u, phase>>] = "committing"
  /\ pc[u] \notin {"create_commit", "activate_commit", "mark_commit"}
  /\ EndTx(<<u, phase>>, "aborted")
  /\ UNCHANGED <<rows, pc, locals>>

-----------------------------------------------------------------------------

Create(u) == CreateLock(u) \/ CreateInsert(u) \/ CreateRefused(u) \/ CreateReturns(u)

Activate(u) ==
  \/ EmbedSucceeds(u) \/ EmbedFails(u)
  \/ ActivateLock(u) \/ ActivateConflict(u) \/ ActivateSupersede(u)
  \/ ActivateWrite(u) \/ ActivateDuplicate(u) \/ ActivateReturns(u)

Mark(u) == MarkLock(u) \/ MarkConflict(u) \/ MarkReturns(u)

DeleteSteps(d) ==
  DeleteRow(d) \/ DeleteNotFound(d) \/ DeleteCascade(d) \/ DeleteSendsCommit(d) \/ DeleteReturns(d)

Commit(u) == CommitCreate(u) \/ CommitActivate(u) \/ CommitMark(u)

Quiet ==
  /\ \A a \in Actors : pc[a] = "finished"
  /\ \A t \in Transactions : tx[t] # "committing"
  /\ UNCHANGED vars

Next ==
  \/ \E u \in Uploads :
       \/ Refuse(u) \/ \E key \in SourceKeys : Upload(u, key)
       \/ Create(u) \/ Activate(u) \/ Mark(u) \/ Commit(u)
       \/ Cancel(u) \/ DatabaseError(u) \/ DeadlockFailsActivation(u)
       \/ \E phase \in {"create", "activate", "mark"} : CommitLost(u, phase)
  \/ \E d \in Deletions :
       \/ \E doc \in Uploads : Delete(d, doc)
       \/ DeleteSteps(d) \/ CommitDelete(d) \/ DeletionFails(d) \/ DeadlockFailsDeletion(d)
  \/ Crash
  \/ Quiet

Spec == Init /\ [][Next]_vars

\* The event loop resumes what can run, embedding ends, PostgreSQL answers
\* every COMMIT and breaks every deadlock.
FairSpec ==
  /\ Spec
  /\ \A u \in Uploads :
       /\ WF_vars(Create(u) \/ Activate(u) \/ Mark(u))
       /\ WF_vars(Commit(u))
       /\ WF_vars(DeadlockFailsActivation(u))
  /\ \A d \in Deletions : WF_vars(DeleteSteps(d)) /\ WF_vars(CommitDelete(d))

-----------------------------------------------------------------------------
(* Properties                                                              *)

\* "Locking the knowledge base row avoids duplicate version numbers and races
\* on the logical document" (ARCHITECTURE 7.4): no commit ever needs the
\* unique constraints on (document, version number) and on the source key.
NamesAreUnique ==
  /\ \A d, e \in documents : sourceKey[d] = sourceKey[e] => d = e
  /\ \A v, w \in Uploads :
       /\ Existing(v) /\ Existing(w)
       /\ versionDocument[v] = versionDocument[w]
       /\ versionNumber[v] = versionNumber[w]
       => v = w

\* Deleting a document takes every version with it, also the one a racing
\* upload was inserting.
VersionsHaveDocuments ==
  \A v \in Uploads : Existing(v) => versionDocument[v] \in documents

\* activate_version compares no version numbers: of uploads that overlap, the
\* last to activate wins.  But one that had ended before another began, also
\* by a cancellation that left its COMMIT on the way, never takes its place.
EndedUploadsStayReplaced ==
  \A u, w \in Uploads :
    /\ w \in earlier[u]
    /\ versionStatus[u] = "superseded"
    /\ versionDocument[u] = versionDocument[w]
    => versionStatus[w] # "active"

\* Whatever uploads and deletions of one source key race, and whichever of
\* them is cancelled at whichever await, the committed catalog stays
\* consistent.
CatalogIsConsistent == NamesAreUnique /\ VersionsHaveDocuments /\ EndedUploadsStayReplaced

\* 201 is only sent for a version that was activated, and an error never is.
ReplyIsHonest ==
  \A u \in Uploads :
    /\ reply[u] = "created" => versionStatus[u] \in {"active", "superseded", "deleted"}
    /\ reply[u] = "error" => versionStatus[u] \notin {"active", "superseded"}

\* A version stays building with nobody to settle it only after a database
\* error or crash, after a second cancellation, or when the one cancellation
\* hit the create, or rolled back the recording of another failure.
BuildingOrphansHaveACause ==
  \A u \in Uploads :
    /\ versionStatus[u] = "building"
    /\ pc[u] = "finished"
    /\ \A phase \in {"create", "activate", "mark"} : tx[<<u, phase>>] # "committing"
    => \/ faults > 0
       \/ cancels[u] > 1
       \/ cancels[u] = 1 /\ tx[<<u, "activate">>] = "none" /\ tx[<<u, "mark">>] = "none"
       \/ cancels[u] = 1 /\ tx[<<u, "mark">>] = "aborted"

\* The committed rows are an index of numbered versions (DocumentIndex).
Index == INSTANCE DocumentIndex WITH
  Versions <- Uploads, NoDocument <- Nothing,
  document <- versionDocument, number <- versionNumber, status <- versionStatus

ImplementsDocumentIndex == Index!IndexSpec

\* Every upload ends, and so does every deletion: nothing waits for ever for
\* a row, an index entry or a COMMIT, not even when an activation and a
\* deletion of the same document wait for each other.
EveryCallEnds == \A a \in Actors : pc[a] # "idle" ~> pc[a] = "finished"
=============================================================================
