----------------------- MODULE DocumentIngestionProofs -----------------------
(***************************************************************************)
(* The catalog of one knowledge base for any number of uploads, deletions, *)
(* source keys, cancellations and faults.  The argument: a version changes *)
(* its status only in a transaction that holds its row, so what a          *)
(* transaction has read under a lock still holds when its COMMIT takes     *)
(* effect, however late and whoever was cancelled meanwhile; the knowledge *)
(* base lock does the same for names and numbers, the foreign-key lock for *)
(* the document, and the unique index for the one active version.          *)
(***************************************************************************)
EXTENDS DocumentIngestion, FiniteSetTheorems, TLAPS

Statuses == {"absent", "building", "active", "failed", "superseded", "deleted"}
TxStates == {"none", "open", "committing", "committed", "aborted"}
Replies == {"none", "created", "error", "cancelled", "failure_recording_failed",
            "deleted", "not_found"}

TypeOK ==
  /\ documents \in SUBSET Uploads
  /\ versionDocument \in [Uploads -> Uploads \union {Nothing}]
  /\ versionNumber \in [Uploads -> Nat]
  /\ versionStatus \in [Uploads -> Statuses]
  /\ tx \in [Transactions -> TxStates]
  /\ holds \in [Transactions -> SUBSET Rows]
  /\ shares \in [Transactions -> SUBSET Uploads]
  /\ pc \in [Actors -> {"idle", "finished"} \union UploadPcs \union DeletePcs]
  /\ found \in [Actors -> Uploads \union {Nothing}]
  /\ number \in [Uploads -> Nat]
  /\ replaces \in [Uploads -> Uploads \union {Nothing}]
  /\ reply \in [Actors -> Replies]
  /\ earlier \in [Uploads -> SUBSET Uploads]
  /\ cancels \in [Uploads -> Nat]
  /\ faults \in Nat
  /\ DOMAIN sourceKey = Uploads

\* Version numbers do not grow without limit in one state.
NumbersBounded ==
  \E n \in Nat : \A v \in Uploads : versionNumber[v] <= n /\ number[v] <= n

CreateTx(u) == tx[<<u, "create">>]
ActivateTx(u) == tx[<<u, "activate">>]
MarkTx(u) == tx[<<u, "mark">>]
DeleteTx(d) == tx[<<d, "delete">>]

\* Which transactions an upload has, wherever it is suspended.
UploadShape(u) ==
  /\ pc[u] \in {"idle", "finished"} \union UploadPcs
  /\ CreateTx(u) = "open" <=> pc[u] \in {"create_lock", "create_insert"}
  /\ pc[u] = "idle" => CreateTx(u) = "none"
  /\ pc[u] = "create_commit" => CreateTx(u) \in {"committing", "committed"}
  /\ pc[u] \in {"embedding"} \union ActivatePcs \union MarkPcs => CreateTx(u) = "committed"
  /\ ActivateTx(u) # "none" \/ MarkTx(u) # "none" => CreateTx(u) = "committed"
  /\ ActivateTx(u) = "open" <=> pc[u] \in {"activate_lock", "activate_supersede", "activate_write"}
  /\ pc[u] = "activate_commit" => ActivateTx(u) \in {"committing", "committed"}
  /\ pc[u] \in {"idle", "embedding"} \union CreatePcs => ActivateTx(u) = "none"
  /\ MarkTx(u) = "open" <=> pc[u] = "mark_lock"
  /\ pc[u] = "mark_commit" => MarkTx(u) \in {"committing", "committed"}
  /\ pc[u] \in {"idle", "embedding"} \union CreatePcs \union ActivatePcs => MarkTx(u) = "none"

DeletionShape(d) ==
  /\ pc[d] \in {"idle", "finished"} \union DeletePcs
  /\ pc[d] = "idle" => DeleteTx(d) = "none"
  /\ DeleteTx(d) = "open" <=> pc[d] \in {"delete_document", "delete_cascade"}
  /\ pc[d] = "delete_commit" => DeleteTx(d) \in {"committing", "committed"}

\* A deletion that has its document; an activation that has its version, and
\* one that is done with the active one.
Deleting(d) == pc[d] = "delete_cascade" \/ DeleteTx(d) = "committing"
Creating(u) == pc[u] = "create_insert" \/ CreateTx(u) = "committing"
Switching(u) == pc[u] = "activate_write" \/ ActivateTx(u) = "committing"
Activating(u) == pc[u] = "activate_supersede" \/ Switching(u)

\* What an upload or a deletion has locked.
CreateLocks(u) ==
  /\ holds[<<u, "create">>] \subseteq {KnowledgeBase}
  /\ Creating(u) => KnowledgeBase \in holds[<<u, "create">>]
  /\ shares[<<u, "create">>] = IF CreateTx(u) = "committing" THEN {found[u]} ELSE {}

ActivateLocks(u) ==
  /\ holds[<<u, "activate">>] \subseteq
       IF Activating(u) THEN {Version(u), Version(replaces[u])} ELSE {}
  /\ Activating(u) => Version(u) \in holds[<<u, "activate">>]
  /\ Switching(u) /\ replaces[u] # Nothing => Version(replaces[u]) \in holds[<<u, "activate">>]
  /\ shares[<<u, "activate">>] = {}

MarkLocks(u) ==
  /\ holds[<<u, "mark">>] = IF MarkTx(u) = "committing" THEN {Version(u)} ELSE {}
  /\ shares[<<u, "mark">>] = {}

UploadLocks(u) == CreateLocks(u) /\ ActivateLocks(u) /\ MarkLocks(u)

DeletionLocks(d) ==
  /\ holds[<<d, "delete">>] \subseteq
       IF Deleting(d) THEN {Document(found[d])} \union {Version(v) : v \in VersionsOf(found[d])}
       ELSE {}
  /\ Deleting(d) => Document(found[d]) \in holds[<<d, "delete">>]
  /\ shares[<<d, "delete">>] = {}

\* Two transactions never hold the same row, nor one the document another shares.
LocksExclude ==
  /\ \A t, s \in Transactions : holds[t] \intersect holds[s] # {} => t = s
  /\ \A t, s \in Transactions : \A d \in shares[s] : Document(d) \notin holds[t]

\* What a version's own transactions have made of it.
StatusShape(u) ==
  /\ versionStatus[u] = "absent" <=> CreateTx(u) # "committed"
  /\ versionStatus[u] # "absent" => versionDocument[u] \in Uploads
  /\ ActivateTx(u) = "committed" => versionStatus[u] \in {"active", "superseded", "deleted"}
  /\ versionStatus[u] \in {"active", "superseded"} => ActivateTx(u) = "committed"
  /\ MarkTx(u) = "committed" => versionStatus[u] \in {"failed", "deleted"}
  /\ MarkTx(u) \in {"committing", "committed"} => ActivateTx(u) \in {"none", "aborted"}
  /\ Activating(u) \/ MarkTx(u) = "committing" => versionStatus[u] = "building"

\* The number a create has computed is the next one of its document.
NumberIsNext(u) ==
  \E last \in {versionNumber[w] : w \in VersionsOf(found[u])} \union {0} :
    /\ \A w \in VersionsOf(found[u]) : versionNumber[w] <= last
    /\ number[u] = last + 1

\* What a create has read is so until it ends.
CreateShape(u) ==
  /\ Creating(u) =>
       /\ found[u] \in Uploads
       /\ found[u] = u => \A d \in documents : sourceKey[d] # sourceKey[u]
  /\ CreateTx(u) = "committing" => found[u] \in documents \union {u} /\ NumberIsNext(u)

\* So is what an activation has.
ActivateShape(u) ==
  /\ Activating(u) /\ replaces[u] # Nothing =>
       /\ versionStatus[replaces[u]] \notin {"absent", "building"}
       /\ versionDocument[replaces[u]] = versionDocument[u]
  /\ Switching(u) /\ replaces[u] # Nothing => versionStatus[replaces[u]] = "active"
  /\ ActivateTx(u) = "committing" => ActiveVersions(versionDocument[u]) \subseteq {replaces[u]}

DeleteShape(d) ==
  /\ pc[d] # "idle" => found[d] \in Uploads
  /\ Deleting(d) => found[d] \in documents
  /\ DeleteTx(d) = "committing" =>
       \A v \in VersionsOf(found[d]) : Version(v) \in holds[<<d, "delete">>]

\* A document is named after its first version, which lives as long as it does.
DocumentShape == \A d \in documents : Existing(d) /\ versionDocument[d] = d

OneActiveVersion ==
  /\ \A v, w \in Uploads :
       /\ versionStatus[v] = "active" /\ versionStatus[w] = "active"
       /\ versionDocument[v] = versionDocument[w]
       => v = w
  /\ \A v, w \in Uploads :
       /\ ActivateTx(v) = "committing" /\ ActivateTx(w) = "committing"
       /\ versionDocument[v] = versionDocument[w]
       => v = w

\* An upload that had ended when another began never activates after it.
HistoryShape(u) ==
  \A w \in earlier[u] :
    /\ w # u
    /\ pc[w] = "finished"
    /\ ActivateTx(w) # "none"
    /\ ActivateTx(u) = "committed" /\ versionDocument[w] = versionDocument[u] =>
         ActivateTx(w) # "committing" /\ versionStatus[w] # "active"

ReplyShape(u) ==
  /\ reply[u] = "created" => ActivateTx(u) = "committed"
  /\ reply[u] = "error" => ActivateTx(u) \in {"none", "aborted"}
  /\ reply[u] # "none" => pc[u] = "finished"

\* How an upload may have ended.
EndShape(u) ==
  pc[u] = "finished" =>
    \/ faults > 0
    \/ cancels[u] > 1
    \/ cancels[u] = 1 /\ ActivateTx(u) = "none" /\ MarkTx(u) = "none"
    \/ cancels[u] = 1 /\ MarkTx(u) = "aborted"
    \/ CreateTx(u) \in {"none", "aborted"}
    \/ CreateTx(u) = "committed" /\ versionStatus[u] # "building"
    \/ MarkTx(u) \in {"committing", "committed"}

\* What one upload or one deletion does next, its COMMITs included.
UploadStep(u) ==
  \/ Refuse(u) \/ \E key \in SourceKeys : Upload(u, key)
  \/ Create(u) \/ Activate(u) \/ Mark(u) \/ Commit(u)
  \/ Cancel(u) \/ DatabaseError(u) \/ DeadlockFailsActivation(u)
  \/ \E phase \in {"create", "activate", "mark"} : CommitLost(u, phase)

DeletionStep(d) ==
  \/ \E doc \in Uploads : Delete(d, doc)
  \/ DeleteSteps(d) \/ CommitDelete(d) \/ DeletionFails(d) \/ DeadlockFailsDeletion(d)

LEMMA NextCases ==
  ASSUME [Next]_vars
  PROVE  \/ \E u \in Uploads : UploadStep(u)
         \/ \E d \in Deletions : DeletionStep(d)
         \/ Crash
         \/ UNCHANGED vars
BY DEF Next, Quiet, UploadStep, DeletionStep

-----------------------------------------------------------------------------
(* Names                                                                   *)

LEMMA TxNames ==
  /\ \A u \in Uploads : /\ <<u, "create">> \in Transactions
                        /\ <<u, "activate">> \in Transactions
                        /\ <<u, "mark">> \in Transactions
                        /\ u \in Actors /\ u \notin Deletions
  /\ \A d \in Deletions : <<d, "delete">> \in Transactions /\ d \in Actors /\ d \notin Uploads
BY IngestionAssumption DEF Transactions, Actors

LEMMA TxCases ==
  ASSUME NEW t \in Transactions
  PROVE  \/ \E u \in Uploads : t \in {<<u, "create">>, <<u, "activate">>, <<u, "mark">>}
         \/ \E d \in Deletions : t = <<d, "delete">>
BY DEF Transactions

LEMMA RowNames ==
  /\ \A v, w : Version(v) = Version(w) => v = w
  /\ \A v, w : Document(v) = Document(w) => v = w
  /\ \A v, w : Version(v) # Document(w)
  /\ \A v : Version(v) # KnowledgeBase /\ Document(v) # KnowledgeBase
BY DEF Version, Document, KnowledgeBase

\* The effect of the session operations on one transaction.
LEMMA TxEffects ==
  ASSUME TypeOK, NEW t \in Transactions
  PROVE  /\ OpenTx(t) => tx'[t] = "open" /\ \A s \in Transactions \ {t} : tx'[s] = tx[s]
         /\ SendCommit(t) => tx'[t] = "committing" /\ \A s \in Transactions \ {t} : tx'[s] = tx[s]
         /\ \A how : EndTx(t, how) =>
              /\ tx'[t] = how /\ holds'[t] = {} /\ shares'[t] = {}
              /\ \A s \in Transactions \ {t} :
                   tx'[s] = tx[s] /\ holds'[s] = holds[s] /\ shares'[s] = shares[s]
         /\ \A row : Lock(t, row) =>
              /\ holds'[t] = holds[t] \union {row}
              /\ \A s \in Transactions : row \notin holds[s]
              /\ \A s \in Transactions \ {t} : holds'[s] = holds[s]
BY DEF TypeOK, OpenTx, SendCommit, EndTx, ReleaseAll, Lock, Unlocked

LEMMA AbandonEffects ==
  ASSUME TypeOK, NEW u \in Uploads, Abandon(u)
  PROVE  /\ \A t \in Transactions : t[1] = u /\ tx[t] = "open" =>
              holds'[t] = {} /\ shares'[t] = {} /\ tx'[t] = "aborted"
         /\ \A t \in Transactions : t[1] # u \/ tx[t] # "open" =>
              holds'[t] = holds[t] /\ shares'[t] = shares[t]
         /\ \A t \in Transactions : t[1] # u => tx'[t] = tx[t]
         /\ \A t \in Transactions : tx[t] # "open" /\ t # <<u, "mark">> => tx'[t] = tx[t]
         /\ tx[<<u, "mark">>] # "open" =>
              tx'[<<u, "mark">>] = IF Marked(u) THEN "open" ELSE tx[<<u, "mark">>]
<1>1. <<u, "mark">> \in Transactions /\ <<u, "mark">>[1] = u
  BY TxNames
<1>2. \A t \in Transactions : t \in OpenTxs({u}) <=> t[1] = u /\ tx[t] = "open"
  BY DEF OpenTxs
<1>3. \A t \in Transactions :
        /\ tx'[t] = IF t \in OpenTxs({u}) THEN "aborted"
                    ELSE IF t = <<u, "mark">> /\ Marked(u) THEN "open" ELSE tx[t]
        /\ holds'[t] = IF t \in OpenTxs({u}) THEN {} ELSE holds[t]
        /\ shares'[t] = IF t \in OpenTxs({u}) THEN {} ELSE shares[t]
  BY DEF Abandon, ReleaseAll
<1>4. QED  BY <1>1, <1>2, <1>3

LEMMA RaiseEffects ==
  ASSUME TypeOK, NEW u \in Uploads, ActivateRaises(u)
  PROVE  /\ tx'[<<u, "activate">>] = "aborted" /\ tx'[<<u, "mark">>] = "open"
         /\ holds'[<<u, "activate">>] = {} /\ shares'[<<u, "activate">>] = {}
         /\ \A s \in Transactions \ {<<u, "activate">>} : holds'[s] = holds[s] /\ shares'[s] = shares[s]
         /\ \A s \in Transactions \ {<<u, "activate">>, <<u, "mark">>} : tx'[s] = tx[s]
BY TxNames DEF TypeOK, ActivateRaises, ReleaseAll

LEMMA DeletionEndEffects ==
  ASSUME TypeOK, NEW d \in Deletions, DeletionEnds(d)
  PROVE  /\ tx[<<d, "delete">>] = "open" =>
              /\ tx'[<<d, "delete">>] = "aborted"
              /\ holds'[<<d, "delete">>] = {} /\ shares'[<<d, "delete">>] = {}
         /\ tx[<<d, "delete">>] # "open" =>
              /\ tx'[<<d, "delete">>] = tx[<<d, "delete">>]
              /\ holds'[<<d, "delete">>] = holds[<<d, "delete">>]
              /\ shares'[<<d, "delete">>] = shares[<<d, "delete">>]
         /\ \A s \in Transactions : s[1] # d =>
              tx'[s] = tx[s] /\ holds'[s] = holds[s] /\ shares'[s] = shares[s]
BY TxNames DEF TypeOK, DeletionEnds, OpenTxs, ReleaseAll

LEMMA CrashEffects ==
  ASSUME TypeOK, Crash
  PROVE  /\ \A t \in Transactions : tx[t] = "open" =>
              tx'[t] = "aborted" /\ holds'[t] = {} /\ shares'[t] = {}
         /\ \A t \in Transactions : tx[t] # "open" =>
              tx'[t] = tx[t] /\ holds'[t] = holds[t] /\ shares'[t] = shares[t]
         /\ \A a \in Actors : pc'[a] = IF pc[a] = "idle" THEN "idle" ELSE "finished"
         /\ faults' > 0
         /\ UNCHANGED <<rows, found, number, replaces, reply, cancels, earlier>>
<1>1. \A t \in Transactions : t[1] \in Actors
  BY DEF Transactions, Actors
<1>2. QED  BY <1>1 DEF TypeOK, Crash, OpenTxs, ReleaseAll

-----------------------------------------------------------------------------
(* Version numbers                                                         *)

\* The largest version number of a document, 0 without one.
LEMMA LastVersionExists ==
  ASSUME TypeOK, NumbersBounded, NEW d
  PROVE  \E last \in {versionNumber[v] : v \in VersionsOf(d)} \union {0} :
           \A v \in VersionsOf(d) : versionNumber[v] <= last
<1> DEFINE Bounds == {b \in Nat : \A v \in VersionsOf(d) : versionNumber[v] <= b}
<1>1. VersionsOf(d) \subseteq Uploads /\ \A v \in Uploads : versionNumber[v] \in Nat
  BY DEF TypeOK, VersionsOf
<1>2. Bounds # {}
  BY <1>1 DEF NumbersBounded
<1>3. PICK m \in Bounds : \A n \in Bounds : ~ (<<n, m>> \in OpToRel(<, Nat))
  BY <1>2, NatLessThanWellFounded, WFMin
<1>4. \A n \in Bounds : ~ (n < m)
  BY <1>3 DEF OpToRel
<1>5. m \in {versionNumber[v] : v \in VersionsOf(d)} \union {0}
  <2>1. SUFFICES ASSUME m # 0 PROVE \E v \in VersionsOf(d) : versionNumber[v] = m
    OBVIOUS
  <2>2. m - 1 \in Nat /\ m - 1 \notin Bounds
    BY <1>4, <2>1
  <2>3. PICK v \in VersionsOf(d) : ~ (versionNumber[v] <= m - 1)
    BY <2>2
  <2>4. QED  BY <1>1, <2>2, <2>3
<1>6. QED  BY <1>3, <1>5

LEMMA NextVersionFollows ==
  ASSUME TypeOK, NumbersBounded, NEW d
  PROVE  \E last \in {versionNumber[v] : v \in VersionsOf(d)} \union {0} :
           /\ \A v \in VersionsOf(d) : versionNumber[v] <= last
           /\ last \in Nat
           /\ NextVersion(d) = last + 1
<1> DEFINE last == CHOOSE n \in {versionNumber[v] : v \in VersionsOf(d)} \union {0} :
                     \A v \in VersionsOf(d) : versionNumber[v] <= n
<1>1. /\ last \in {versionNumber[v] : v \in VersionsOf(d)} \union {0}
      /\ \A v \in VersionsOf(d) : versionNumber[v] <= last
  BY LastVersionExists
<1>2. NextVersion(d) = 1 + last
  BY DEF NextVersion
<1> HIDE DEF last
<1>3. last \in Nat
  BY <1>1 DEF TypeOK, VersionsOf
<1>4. NextVersion(d) = last + 1
  BY <1>2, <1>3
<1>5. QED  BY <1>1, <1>3, <1>4, Zenon

LEMMA RowsOfUploads ==
  /\ KnowledgeBase \in Rows
  /\ \A v \in Uploads : Version(v) \in Rows /\ Document(v) \in Rows
BY DEF Rows, KnowledgeBase, Version, Document

LEMMA LockedRows ==
  ASSUME TypeOK, NEW t \in Transactions, NEW row \in Rows, Lock(t, row)
  PROVE  holds' \in [Transactions -> SUBSET Rows]
BY DEF TypeOK, Lock

LEMMA FoundDocument ==
  ASSUME TypeOK, NEW u \in Uploads
  PROVE  FindDocument(u) \in Uploads
BY DEF TypeOK, FindDocument

LEMMA UploadTypes ==
  ASSUME TypeOK, NumbersBounded, NEW u \in Uploads, UploadStep(u)
  PROVE  TypeOK'
<1>0. TypeOK /\ NumbersBounded
  OBVIOUS
<1>1. ASSUME Refuse(u) PROVE TypeOK'
  BY <1>1, <1>0, TxNames DEF Refuse, Finish, Goto, Answer, rows, TypeOK, UploadPcs, CreatePcs,
      ActivatePcs, MarkPcs, DeletePcs, TxStates, Replies
<1>2. ASSUME NEW key \in SourceKeys, Upload(u, key) PROVE TypeOK'
  BY <1>2, <1>0, TxNames DEF Upload, OpenTx, Goto, EndedActivations, control, TypeOK, UploadPcs,
      CreatePcs, ActivatePcs, MarkPcs, DeletePcs, TxStates, Replies, vars
<1>3. ASSUME CreateLock(u) PROVE TypeOK'
  BY <1>3, <1>0, TxNames, RowsOfUploads, FoundDocument DEF CreateLock, LockKnowledgeBase, Lock,
      Goto, rows, TypeOK, UploadPcs, CreatePcs, ActivatePcs, MarkPcs, DeletePcs, TxStates, Replies
<1>4. ASSUME CreateInsert(u) PROVE TypeOK'
  <2>1. NextVersion(found[u]) \in Nat
    BY <1>0, NextVersionFollows
  <2>2. shares' \in [Transactions -> SUBSET Uploads]
    BY <1>0, <1>4, TxNames DEF TypeOK, CreateInsert
  <2>3. number' \in [Uploads -> Nat]
    BY <1>0, <2>1, <1>4 DEF TypeOK, CreateInsert
  <2>4. tx' \in [Transactions -> TxStates] /\ pc' \in [Actors -> {"idle", "finished"} \union UploadPcs \union DeletePcs]
    BY <1>0, <1>4, TxNames DEF TypeOK, CreateInsert, TxStates, SendCommit, Goto, UploadPcs,
        CreatePcs
  <2>5. QED  BY <1>0, <2>2, <2>3, <2>4, <1>4 DEF TypeOK, CreateInsert, rows
<1>5. ASSUME CreateRefused(u) PROVE TypeOK'
  BY <1>5, <1>0, TxNames DEF CreateRefused, EndTx, ReleaseAll, Finish, Goto, Answer, rows, TypeOK,
      UploadPcs, CreatePcs, ActivatePcs, MarkPcs, DeletePcs, TxStates, Replies
<1>6. ASSUME CreateReturns(u) PROVE TypeOK'
  BY <1>6, <1>0, TxNames DEF CreateReturns, Goto, rows, locals, control, TypeOK, UploadPcs,
      CreatePcs, ActivatePcs, MarkPcs, DeletePcs, TxStates, Replies
<1>7. ASSUME EmbedSucceeds(u) PROVE TypeOK'
  BY <1>7, <1>0, TxNames DEF EmbedSucceeds, OpenTx, Goto, rows, locals, control, TypeOK, UploadPcs,
      CreatePcs, ActivatePcs, MarkPcs, DeletePcs, TxStates, Replies
<1>8. ASSUME EmbedFails(u) PROVE TypeOK'
  BY <1>8, <1>0, TxNames DEF EmbedFails, StartMark, Goto, rows, locals, control, TypeOK, UploadPcs,
      CreatePcs, ActivatePcs, MarkPcs, DeletePcs, TxStates, Replies
<1>9. ASSUME ActivateLock(u) PROVE TypeOK'
  <2>1. holds' \in [Transactions -> SUBSET Rows]
    BY <1>0, <1>9, TxNames, RowsOfUploads, LockedRows DEF TypeOK, ActivateLock
  <2>2. replaces' \in [Uploads -> Uploads \union {Nothing}]
    BY <1>0, <1>9 DEF TypeOK, ActivateLock, ActiveVersions, VersionsOf
  <2>3. QED  BY <2>1, <2>2, <1>9, <1>0, TxNames, RowsOfUploads DEF ActivateLock, ActiveVersions,
      VersionsOf, Goto, rows, TypeOK, UploadPcs, CreatePcs, ActivatePcs, MarkPcs, DeletePcs,
      TxStates, Replies
<1>10. ASSUME ActivateConflict(u) PROVE TypeOK'
  BY <1>10, <1>0, TxNames DEF ActivateConflict, ActivateRaises, ReleaseAll, Goto, rows, locals,
      control, TypeOK, UploadPcs, CreatePcs, ActivatePcs, MarkPcs, DeletePcs, TxStates, Replies
<1>11. ASSUME ActivateSupersede(u) PROVE TypeOK'
  <2>1. holds' \in [Transactions -> SUBSET Rows]
    <3>1. CASE UNCHANGED holds
      BY <1>0, <3>1 DEF TypeOK
    <3>2. CASE replaces[u] # Nothing /\ Lock(<<u, "activate">>, Version(replaces[u]))
      BY <1>0, <3>2, TxNames, RowsOfUploads, LockedRows DEF TypeOK
    <3>3. QED  BY <3>1, <3>2, <1>11 DEF ActivateSupersede
  <2>2. QED  BY <2>1, <1>11, <1>0, TxNames, RowsOfUploads DEF ActivateSupersede, Goto, rows, TypeOK,
      UploadPcs, CreatePcs, ActivatePcs, MarkPcs, DeletePcs, TxStates, Replies
<1>12. ASSUME ActivateWrite(u) PROVE TypeOK'
  BY <1>12, <1>0, TxNames DEF ActivateWrite, SendCommit, Goto, rows, locals, control, TypeOK,
      UploadPcs, CreatePcs, ActivatePcs, MarkPcs, DeletePcs, TxStates, Replies
<1>13. ASSUME ActivateDuplicate(u) PROVE TypeOK'
  BY <1>13, <1>0, TxNames DEF ActivateDuplicate, ActivateRaises, ReleaseAll, Goto, rows, locals,
      control, TypeOK, UploadPcs, CreatePcs, ActivatePcs, MarkPcs, DeletePcs, TxStates, Replies
<1>14. ASSUME ActivateReturns(u) PROVE TypeOK'
  BY <1>14, <1>0, TxNames DEF ActivateReturns, Finish, Goto, Answer, rows, TypeOK, UploadPcs,
      CreatePcs, ActivatePcs, MarkPcs, DeletePcs, TxStates, Replies
<1>15. ASSUME MarkLock(u) PROVE TypeOK'
  <2>1. holds' \in [Transactions -> SUBSET Rows]
    BY <1>0, <1>15, TxNames, RowsOfUploads, LockedRows DEF TypeOK, MarkLock
  <2>2. QED  BY <2>1, <1>15, <1>0, TxNames, RowsOfUploads DEF MarkLock, SendCommit, Goto, rows,
      locals, control, TypeOK, UploadPcs, CreatePcs, ActivatePcs, MarkPcs, DeletePcs, TxStates,
      Replies
<1>16. ASSUME MarkConflict(u) PROVE TypeOK'
  BY <1>16, <1>0, TxNames DEF MarkConflict, EndTx, ReleaseAll, Finish, Goto, Answer, rows, TypeOK,
      UploadPcs, CreatePcs, ActivatePcs, MarkPcs, DeletePcs, TxStates, Replies
<1>17. ASSUME MarkReturns(u) PROVE TypeOK'
  BY <1>17, <1>0, TxNames DEF MarkReturns, Finish, Goto, Answer, rows, TypeOK, UploadPcs, CreatePcs,
      ActivatePcs, MarkPcs, DeletePcs, TxStates, Replies
<1>18. ASSUME CommitCreate(u) PROVE TypeOK'
  BY <1>18, <1>0, TxNames DEF CommitCreate, EndTx, ReleaseAll, locals, control, TypeOK, UploadPcs,
      CreatePcs, ActivatePcs, MarkPcs, DeletePcs, TxStates, Replies, Statuses
<1>19. ASSUME CommitActivate(u) PROVE TypeOK'
  BY <1>19, <1>0, TxNames DEF CommitActivate, EndTx, ReleaseAll, locals, control, TypeOK, UploadPcs,
      CreatePcs, ActivatePcs, MarkPcs, DeletePcs, TxStates, Replies, Statuses
<1>20. ASSUME CommitMark(u) PROVE TypeOK'
  BY <1>20, <1>0, TxNames DEF CommitMark, EndTx, ReleaseAll, locals, control, TypeOK, UploadPcs,
      CreatePcs, ActivatePcs, MarkPcs, DeletePcs, TxStates, Replies, Statuses
<1>21. ASSUME Cancel(u) PROVE TypeOK'
  <2>1. tx' \in [Transactions -> TxStates]
    BY <1>21, <1>0 DEF Cancel, Abandon, TypeOK, TxStates
  <2>2. holds' \in [Transactions -> SUBSET Rows] /\ shares' \in [Transactions -> SUBSET Uploads]
    BY <1>21, <1>0 DEF Cancel, Abandon, ReleaseAll, TypeOK
  <2>3. pc' \in [Actors -> {"idle", "finished"} \union UploadPcs \union DeletePcs]
    BY <1>21, <1>0, TxNames DEF Cancel, Unwind, Finish, Goto, TypeOK, UploadPcs, MarkPcs
  <2>4. reply' \in [Actors -> Replies] /\ cancels' \in [Uploads -> Nat] /\ faults' \in Nat
    BY <1>21, <1>0, TxNames DEF Cancel, Unwind, Finish, Answer, TypeOK, Replies
  <2>5. UNCHANGED <<rows, found, number, replaces, earlier>>
    BY <1>21 DEF Cancel
  <2>6. QED  BY <1>0, <2>1, <2>2, <2>3, <2>4, <2>5 DEF rows, TypeOK
<1>22. ASSUME DatabaseError(u) PROVE TypeOK'
  <2>1. tx' \in [Transactions -> TxStates]
    BY <1>22, <1>0 DEF DatabaseError, Abandon, TypeOK, TxStates
  <2>2. holds' \in [Transactions -> SUBSET Rows] /\ shares' \in [Transactions -> SUBSET Uploads]
    BY <1>22, <1>0 DEF DatabaseError, Abandon, ReleaseAll, TypeOK
  <2>3. pc' \in [Actors -> {"idle", "finished"} \union UploadPcs \union DeletePcs]
    BY <1>22, <1>0, TxNames DEF DatabaseError, Unwind, Finish, Goto, TypeOK, UploadPcs, MarkPcs
  <2>4. reply' \in [Actors -> Replies] /\ cancels' \in [Uploads -> Nat] /\ faults' \in Nat
    BY <1>22, <1>0, TxNames DEF DatabaseError, Unwind, Finish, Answer, TypeOK, Replies
  <2>5. UNCHANGED <<rows, found, number, replaces, earlier>>
    BY <1>22 DEF DatabaseError
  <2>6. QED  BY <1>0, <2>1, <2>2, <2>3, <2>4, <2>5 DEF rows, TypeOK
<1>23. ASSUME DeadlockFailsActivation(u) PROVE TypeOK'
  BY <1>23, <1>0, TxNames DEF DeadlockFailsActivation, ActivateRaises, ReleaseAll, Goto, rows,
      locals, control, TypeOK, UploadPcs, CreatePcs, ActivatePcs, MarkPcs, DeletePcs, TxStates,
      Replies
<1>24. ASSUME NEW phase \in {"create", "activate", "mark"}, CommitLost(u, phase) PROVE TypeOK'
  BY <1>24, <1>0, TxNames DEF CommitLost, EndTx, ReleaseAll, rows, locals, control, TypeOK,
      UploadPcs, CreatePcs, ActivatePcs, MarkPcs, DeletePcs, TxStates, Replies, Statuses
<1>25. QED  BY <1>1, <1>2, <1>3, <1>4, <1>5, <1>6, <1>7, <1>8, <1>9, <1>10, <1>11, <1>12, <1>13,
    <1>14, <1>15, <1>16, <1>17, <1>18, <1>19, <1>20, <1>21, <1>22, <1>23, <1>24
  DEF UploadStep, Create, Activate, Mark, Commit

LEMMA DeletionTypes ==
  ASSUME TypeOK, NumbersBounded, NEW d \in Deletions, DeletionStep(d)
  PROVE  TypeOK'
<1>0. TypeOK /\ NumbersBounded
  OBVIOUS
<1>1. ASSUME NEW doc \in Uploads, Delete(d, doc) PROVE TypeOK'
  BY <1>1, <1>0, TxNames DEF Delete, OpenTx, Goto, rows, TypeOK, UploadPcs, CreatePcs, ActivatePcs,
      MarkPcs, DeletePcs, TxStates, Replies
<1>2. ASSUME DeleteRow(d) PROVE TypeOK'
  BY <1>2, <1>0, TxNames, RowsOfUploads DEF DeleteRow, Lock, Goto, rows, locals, control, TypeOK,
      UploadPcs, CreatePcs, ActivatePcs, MarkPcs, DeletePcs, TxStates, Replies
<1>3. ASSUME DeleteNotFound(d) PROVE TypeOK'
  BY <1>3, <1>0, TxNames DEF DeleteNotFound, EndTx, ReleaseAll, Finish, Goto, Answer, rows, TypeOK,
      UploadPcs, CreatePcs, ActivatePcs, MarkPcs, DeletePcs, TxStates, Replies
<1>4. ASSUME DeleteCascade(d) PROVE TypeOK'
  BY <1>4, <1>0, TxNames, RowsOfUploads DEF DeleteCascade, ToCascade, VersionsOf, Lock, rows,
      locals, control, TypeOK, UploadPcs, CreatePcs, ActivatePcs, MarkPcs, DeletePcs, TxStates,
      Replies
<1>5. ASSUME DeleteSendsCommit(d) PROVE TypeOK'
  BY <1>5, <1>0, TxNames DEF DeleteSendsCommit, ToCascade, VersionsOf, SendCommit, Goto, rows,
      locals, control, TypeOK, UploadPcs, CreatePcs, ActivatePcs, MarkPcs, DeletePcs, TxStates,
      Replies
<1>6. ASSUME DeleteReturns(d) PROVE TypeOK'
  BY <1>6, <1>0, TxNames DEF DeleteReturns, Finish, Goto, Answer, rows, TypeOK, UploadPcs,
      CreatePcs, ActivatePcs, MarkPcs, DeletePcs, TxStates, Replies
<1>7. ASSUME CommitDelete(d) PROVE TypeOK'
  BY <1>7, <1>0, TxNames DEF CommitDelete, EndTx, ReleaseAll, locals, control, TypeOK, UploadPcs,
      CreatePcs, ActivatePcs, MarkPcs, DeletePcs, TxStates, Replies, Statuses
<1>8. ASSUME DeletionFails(d) PROVE TypeOK'
  BY <1>8, <1>0, TxNames DEF DeletionFails, DeletePcs, DeletionEnds, ReleaseAll, Finish, Goto,
      Answer, rows, TypeOK, UploadPcs, CreatePcs, ActivatePcs, MarkPcs, TxStates, Replies
<1>9. ASSUME DeadlockFailsDeletion(d) PROVE TypeOK'
  BY <1>9, <1>0, TxNames DEF DeadlockFailsDeletion, DeletionEnds, ReleaseAll, Finish, Goto, Answer,
      rows, TypeOK, UploadPcs, CreatePcs, ActivatePcs, MarkPcs, DeletePcs, TxStates, Replies
<1>10. QED  BY <1>1, <1>2, <1>3, <1>4, <1>5, <1>6, <1>7, <1>8, <1>9
  DEF DeletionStep, DeleteSteps

-----------------------------------------------------------------------------
(* What a step leaves alone                                                *)

catalog == <<documents, versionDocument, versionNumber, versionStatus>>

\* A step of a changes nothing of another actor, nor of its transactions.
FrameOf(a) ==
  /\ \A b \in Actors \ {a} : pc'[b] = pc[b] /\ found'[b] = found[b] /\ reply'[b] = reply[b]
  /\ \A v \in Uploads \ {a} :
       /\ number'[v] = number[v] /\ replaces'[v] = replaces[v] /\ earlier'[v] = earlier[v]
       /\ cancels'[v] = cancels[v] /\ sourceKey'[v] = sourceKey[v]
  /\ \A t \in Transactions :
       t[1] # a => tx'[t] = tx[t] /\ holds'[t] = holds[t] /\ shares'[t] = shares[t]
  /\ faults > 0 => faults' > 0

LEMMA AbandonFrame ==
  ASSUME NEW u \in Uploads, Abandon(u), NEW t \in Transactions, t[1] # u
  PROVE  tx'[t] = tx[t] /\ holds'[t] = holds[t] /\ shares'[t] = shares[t]
<1>1. t \notin OpenTxs({u}) /\ t # <<u, "mark">>
  BY DEF OpenTxs
<1>2. QED  BY <1>1 DEF Abandon, ReleaseAll

LEMMA UploadFrame ==
  ASSUME TypeOK, NEW u \in Uploads, UploadStep(u)
  PROVE  /\ FrameOf(u)
         /\ UNCHANGED catalog \/ CommitCreate(u) \/ CommitActivate(u) \/ CommitMark(u)
         /\ UNCHANGED number \/ CreateInsert(u)
         /\ UNCHANGED sourceKey \/ pc[u] = "idle"
<1>0. TypeOK
  OBVIOUS
<1>1. ASSUME Refuse(u) PROVE FrameOf(u) /\ UNCHANGED <<catalog, number, sourceKey>>
  BY <1>1, <1>0, TxNames DEF Refuse, Finish, Goto, Answer, rows, TypeOK, FrameOf, catalog
<1>2. ASSUME NEW key \in SourceKeys, Upload(u, key) PROVE FrameOf(u) /\ UNCHANGED catalog /\ UNCHANGED number /\ pc[u] = "idle"
  BY <1>2, <1>0, TxNames DEF Upload, OpenTx, Goto, control, TypeOK, FrameOf, catalog, vars
<1>3. ASSUME CreateLock(u) PROVE FrameOf(u) /\ UNCHANGED <<catalog, number, sourceKey>>
  BY <1>3, <1>0, TxNames DEF CreateLock, LockKnowledgeBase, Lock, Goto, rows, TypeOK, FrameOf,
      catalog
<1>4. ASSUME CreateInsert(u) PROVE FrameOf(u) /\ UNCHANGED catalog /\ UNCHANGED sourceKey
  BY <1>4, <1>0, TxNames DEF CreateInsert, SendCommit, Goto, rows, TypeOK, FrameOf, catalog
<1>5. ASSUME CreateRefused(u) PROVE FrameOf(u) /\ UNCHANGED <<catalog, number, sourceKey>>
  BY <1>5, <1>0, TxNames DEF CreateRefused, EndTx, ReleaseAll, Finish, Goto, Answer, rows, TypeOK,
      FrameOf, catalog
<1>6. ASSUME CreateReturns(u) PROVE FrameOf(u) /\ UNCHANGED <<catalog, number, sourceKey>>
  BY <1>6, <1>0, TxNames DEF CreateReturns, Goto, rows, locals, control, TypeOK, FrameOf, catalog
<1>7. ASSUME EmbedSucceeds(u) PROVE FrameOf(u) /\ UNCHANGED <<catalog, number, sourceKey>>
  BY <1>7, <1>0, TxNames DEF EmbedSucceeds, OpenTx, Goto, rows, locals, control, TypeOK, FrameOf,
      catalog
<1>8. ASSUME EmbedFails(u) PROVE FrameOf(u) /\ UNCHANGED <<catalog, number, sourceKey>>
  BY <1>8, <1>0, TxNames DEF EmbedFails, StartMark, Goto, rows, locals, control, TypeOK, FrameOf,
      catalog
<1>9. ASSUME ActivateLock(u) PROVE FrameOf(u) /\ UNCHANGED <<catalog, number, sourceKey>>
  BY <1>9, <1>0, TxNames DEF ActivateLock, Lock, Goto, rows, TypeOK, FrameOf, catalog
<1>10. ASSUME ActivateConflict(u) PROVE FrameOf(u) /\ UNCHANGED <<catalog, number, sourceKey>>
  BY <1>10, <1>0, TxNames DEF ActivateConflict, ActivateRaises, ReleaseAll, Goto, rows, locals,
      control, TypeOK, FrameOf, catalog
<1>11. ASSUME ActivateSupersede(u) PROVE FrameOf(u) /\ UNCHANGED <<catalog, number, sourceKey>>
  BY <1>11, <1>0, TxNames DEF ActivateSupersede, Lock, Goto, rows, TypeOK, FrameOf, catalog
<1>12. ASSUME ActivateWrite(u) PROVE FrameOf(u) /\ UNCHANGED <<catalog, number, sourceKey>>
  BY <1>12, <1>0, TxNames DEF ActivateWrite, SendCommit, Goto, rows, locals, control, TypeOK,
      FrameOf, catalog
<1>13. ASSUME ActivateDuplicate(u) PROVE FrameOf(u) /\ UNCHANGED <<catalog, number, sourceKey>>
  BY <1>13, <1>0, TxNames DEF ActivateDuplicate, ActivateRaises, ReleaseAll, Goto, rows, locals,
      control, TypeOK, FrameOf, catalog
<1>14. ASSUME ActivateReturns(u) PROVE FrameOf(u) /\ UNCHANGED <<catalog, number, sourceKey>>
  BY <1>14, <1>0, TxNames DEF ActivateReturns, Finish, Goto, Answer, rows, TypeOK, FrameOf, catalog
<1>15. ASSUME MarkLock(u) PROVE FrameOf(u) /\ UNCHANGED <<catalog, number, sourceKey>>
  BY <1>15, <1>0, TxNames DEF MarkLock, Lock, SendCommit, Goto, rows, locals, control, TypeOK,
      FrameOf, catalog
<1>16. ASSUME MarkConflict(u) PROVE FrameOf(u) /\ UNCHANGED <<catalog, number, sourceKey>>
  BY <1>16, <1>0, TxNames DEF MarkConflict, EndTx, ReleaseAll, Finish, Goto, Answer, rows, TypeOK,
      FrameOf, catalog
<1>17. ASSUME MarkReturns(u) PROVE FrameOf(u) /\ UNCHANGED <<catalog, number, sourceKey>>
  BY <1>17, <1>0, TxNames DEF MarkReturns, Finish, Goto, Answer, rows, TypeOK, FrameOf, catalog
<1>18. ASSUME CommitCreate(u) PROVE FrameOf(u) /\ UNCHANGED number /\ UNCHANGED sourceKey
  BY <1>18, <1>0, TxNames DEF CommitCreate, EndTx, ReleaseAll, locals, control, TypeOK, FrameOf,
      catalog
<1>19. ASSUME CommitActivate(u) PROVE FrameOf(u) /\ UNCHANGED number /\ UNCHANGED sourceKey
  BY <1>19, <1>0, TxNames DEF CommitActivate, EndTx, ReleaseAll, locals, control, TypeOK, FrameOf,
      catalog
<1>20. ASSUME CommitMark(u) PROVE FrameOf(u) /\ UNCHANGED number /\ UNCHANGED sourceKey
  BY <1>20, <1>0, TxNames DEF CommitMark, EndTx, ReleaseAll, locals, control, TypeOK, FrameOf,
      catalog
<1>21. ASSUME Cancel(u) PROVE FrameOf(u) /\ UNCHANGED <<catalog, number, sourceKey>>
  <2>1. \A t \in Transactions :
          t[1] # u => tx'[t] = tx[t] /\ holds'[t] = holds[t] /\ shares'[t] = shares[t]
    BY <1>21, AbandonFrame DEF Cancel
  <2>2. \A b \in Actors \ {u} : pc'[b] = pc[b] /\ reply'[b] = reply[b]
    BY <1>21, <1>0 DEF Cancel, Unwind, Goto, Finish, Answer, TypeOK
  <2>3. /\ UNCHANGED <<rows, found, number, replaces, earlier>>
        /\ \A v \in Uploads \ {u} : cancels'[v] = cancels[v]
        /\ faults > 0 => faults' > 0
    BY <1>21, <1>0 DEF Cancel, TypeOK
  <2>4. QED  BY <2>1, <2>2, <2>3 DEF FrameOf, catalog, rows
<1>22. ASSUME DatabaseError(u) PROVE FrameOf(u) /\ UNCHANGED <<catalog, number, sourceKey>>
  <2>1. \A t \in Transactions :
          t[1] # u => tx'[t] = tx[t] /\ holds'[t] = holds[t] /\ shares'[t] = shares[t]
    BY <1>22, AbandonFrame DEF DatabaseError
  <2>2. \A b \in Actors \ {u} : pc'[b] = pc[b] /\ reply'[b] = reply[b]
    BY <1>22, <1>0 DEF DatabaseError, Unwind, Goto, Finish, Answer, TypeOK
  <2>3. /\ UNCHANGED <<rows, found, number, replaces, earlier>>
        /\ \A v \in Uploads \ {u} : cancels'[v] = cancels[v]
        /\ faults > 0 => faults' > 0
    BY <1>22, <1>0 DEF DatabaseError, TypeOK
  <2>4. QED  BY <2>1, <2>2, <2>3 DEF FrameOf, catalog, rows
<1>23. ASSUME DeadlockFailsActivation(u) PROVE FrameOf(u) /\ UNCHANGED <<catalog, number, sourceKey>>
  BY <1>23, <1>0, TxNames DEF DeadlockFailsActivation, ActivateRaises, ReleaseAll, Goto, rows,
      locals, control, TypeOK, FrameOf, catalog
<1>24. ASSUME NEW phase \in {"create", "activate", "mark"}, CommitLost(u, phase) PROVE FrameOf(u) /\ UNCHANGED <<catalog, number, sourceKey>>
  BY <1>24, <1>0, TxNames DEF CommitLost, EndTx, ReleaseAll, rows, locals, control, TypeOK, FrameOf,
      catalog
<1>25. QED  BY <1>1, <1>2, <1>3, <1>4, <1>5, <1>6, <1>7, <1>8, <1>9, <1>10, <1>11, <1>12, <1>13,
    <1>14, <1>15, <1>16, <1>17, <1>18, <1>19, <1>20, <1>21, <1>22, <1>23, <1>24 DEF UploadStep,
    Create, Activate, Mark, Commit

LEMMA DeletionEndFrame ==
  ASSUME TypeOK, NEW d \in Deletions, DeletionEnds(d)
  PROVE  FrameOf(d) /\ UNCHANGED catalog /\ UNCHANGED number /\ UNCHANGED sourceKey
<1>1. \A t \in Transactions :
        t[1] # d => tx'[t] = tx[t] /\ holds'[t] = holds[t] /\ shares'[t] = shares[t]
  BY DeletionEndEffects
<1>2. \A b \in Actors \ {d} : pc'[b] = pc[b] /\ found'[b] = found[b] /\ reply'[b] = reply[b]
  BY DEF TypeOK, DeletionEnds, Finish, Goto, Answer
<1>3. UNCHANGED <<rows, number, replaces, earlier, cancels, faults>>
  BY DEF DeletionEnds
<1>4. QED  BY <1>1, <1>2, <1>3 DEF FrameOf, catalog, rows

LEMMA DeletionFrame ==
  ASSUME TypeOK, NEW d \in Deletions, DeletionStep(d)
  PROVE  /\ FrameOf(d)
         /\ UNCHANGED catalog \/ CommitDelete(d)
         /\ UNCHANGED number /\ UNCHANGED sourceKey
<1>0. TypeOK
  OBVIOUS
<1>1. ASSUME NEW doc \in Uploads, Delete(d, doc) PROVE FrameOf(d) /\ UNCHANGED <<catalog, number, sourceKey>>
  BY <1>1, <1>0, TxNames DEF Delete, OpenTx, Goto, rows, TypeOK, FrameOf, catalog
<1>2. ASSUME DeleteRow(d) PROVE FrameOf(d) /\ UNCHANGED <<catalog, number, sourceKey>>
  BY <1>2, <1>0, TxNames DEF DeleteRow, Lock, Goto, rows, locals, control, TypeOK, FrameOf, catalog
<1>3. ASSUME DeleteNotFound(d) PROVE FrameOf(d) /\ UNCHANGED <<catalog, number, sourceKey>>
  BY <1>3, <1>0, TxNames DEF DeleteNotFound, EndTx, ReleaseAll, Finish, Goto, Answer, rows, TypeOK,
      FrameOf, catalog
<1>4. ASSUME DeleteCascade(d) PROVE FrameOf(d) /\ UNCHANGED <<catalog, number, sourceKey>>
  BY <1>4, <1>0, TxNames DEF DeleteCascade, Lock, rows, locals, control, TypeOK, FrameOf, catalog
<1>5. ASSUME DeleteSendsCommit(d) PROVE FrameOf(d) /\ UNCHANGED <<catalog, number, sourceKey>>
  BY <1>5, <1>0, TxNames DEF DeleteSendsCommit, SendCommit, Goto, rows, locals, control, TypeOK,
      FrameOf, catalog
<1>6. ASSUME DeleteReturns(d) PROVE FrameOf(d) /\ UNCHANGED <<catalog, number, sourceKey>>
  BY <1>6, <1>0, TxNames DEF DeleteReturns, Finish, Goto, Answer, rows, TypeOK, FrameOf, catalog
<1>7. ASSUME CommitDelete(d) PROVE FrameOf(d) /\ UNCHANGED number /\ UNCHANGED sourceKey
  BY <1>7, <1>0, TxNames DEF CommitDelete, EndTx, ReleaseAll, locals, control, TypeOK, FrameOf,
      catalog
<1>8. ASSUME DeletionFails(d) PROVE FrameOf(d) /\ UNCHANGED <<catalog, number, sourceKey>>
  BY <1>8, <1>0, DeletionEndFrame DEF DeletionFails
<1>9. ASSUME DeadlockFailsDeletion(d) PROVE FrameOf(d) /\ UNCHANGED <<catalog, number, sourceKey>>
  BY <1>9, <1>0, DeletionEndFrame DEF DeadlockFailsDeletion
<1>10. QED  BY <1>1, <1>2, <1>3, <1>4, <1>5, <1>6, <1>7, <1>8, <1>9 DEF DeletionStep, DeleteSteps

-----------------------------------------------------------------------------
(* Transactions follow the program counter                                 *)

LEMMA OwnUploadShape ==
  ASSUME TypeOK, NEW u \in Uploads, UploadShape(u), UploadStep(u)
  PROVE  UploadShape(u)'
<1>0. TypeOK /\ UploadShape(u)
  OBVIOUS
<1>0a. /\ u \in Actors /\ <<u, "create">>[1] = u /\ <<u, "activate">>[1] = u /\ <<u, "mark">>[1] = u
       /\ <<u, "create">> \in Transactions /\ <<u, "activate">> \in Transactions
       /\ <<u, "mark">> \in Transactions
       /\ <<u, "create">> # <<u, "activate">> /\ <<u, "create">> # <<u, "mark">>
       /\ <<u, "activate">> # <<u, "mark">>
  BY TxNames
<1>1. ASSUME Refuse(u) PROVE UploadShape(u)'
  BY <1>1, <1>0, <1>0a DEF Refuse, Finish, Goto, UploadPcs, CreatePcs, ActivatePcs, MarkPcs, TypeOK,
      UploadShape, CreateTx, ActivateTx, MarkTx
<1>2. ASSUME NEW key \in SourceKeys, Upload(u, key) PROVE UploadShape(u)'
  BY <1>2, <1>0, <1>0a DEF Upload, OpenTx, Goto, control, UploadPcs, CreatePcs, ActivatePcs,
      MarkPcs, TypeOK, UploadShape, CreateTx, ActivateTx, MarkTx
<1>3. ASSUME CreateLock(u) PROVE UploadShape(u)'
  BY <1>3, <1>0, <1>0a DEF CreateLock, Goto, UploadPcs, CreatePcs, ActivatePcs, MarkPcs, TypeOK,
      UploadShape, CreateTx, ActivateTx, MarkTx
<1>4. ASSUME CreateInsert(u) PROVE UploadShape(u)'
  BY <1>4, <1>0, <1>0a DEF CreateInsert, SendCommit, Goto, UploadPcs, CreatePcs, ActivatePcs,
      MarkPcs, TypeOK, UploadShape, CreateTx, ActivateTx, MarkTx
<1>5. ASSUME CreateRefused(u) PROVE UploadShape(u)'
  BY <1>5, <1>0, <1>0a, TxEffects DEF CreateRefused, Finish, Goto, UploadPcs, CreatePcs,
      ActivatePcs, MarkPcs, TypeOK, UploadShape, CreateTx, ActivateTx, MarkTx
<1>6. ASSUME CreateReturns(u) PROVE UploadShape(u)'
  BY <1>6, <1>0, <1>0a DEF CreateReturns, Goto, locals, control, UploadPcs, CreatePcs, ActivatePcs,
      MarkPcs, TypeOK, UploadShape, CreateTx, ActivateTx, MarkTx
<1>7. ASSUME EmbedSucceeds(u) PROVE UploadShape(u)'
  BY <1>7, <1>0, <1>0a DEF EmbedSucceeds, OpenTx, Goto, locals, control, UploadPcs, CreatePcs,
      ActivatePcs, MarkPcs, TypeOK, UploadShape, CreateTx, ActivateTx, MarkTx
<1>8. ASSUME EmbedFails(u) PROVE UploadShape(u)'
  BY <1>8, <1>0, <1>0a DEF EmbedFails, StartMark, Goto, locals, control, UploadPcs, CreatePcs,
      ActivatePcs, MarkPcs, TypeOK, UploadShape, CreateTx, ActivateTx, MarkTx
<1>9. ASSUME ActivateLock(u) PROVE UploadShape(u)'
  BY <1>9, <1>0, <1>0a DEF ActivateLock, Goto, UploadPcs, CreatePcs, ActivatePcs, MarkPcs, TypeOK,
      UploadShape, CreateTx, ActivateTx, MarkTx
<1>10. ASSUME ActivateConflict(u) PROVE UploadShape(u)'
  BY <1>10, <1>0, <1>0a, RaiseEffects DEF ActivateConflict, ActivateRaises, Goto, locals, control,
      UploadPcs, CreatePcs, ActivatePcs, MarkPcs, TypeOK, UploadShape, CreateTx, ActivateTx, MarkTx
<1>11. ASSUME ActivateSupersede(u) PROVE UploadShape(u)'
  BY <1>11, <1>0, <1>0a DEF ActivateSupersede, Goto, UploadPcs, CreatePcs, ActivatePcs, MarkPcs,
      TypeOK, UploadShape, CreateTx, ActivateTx, MarkTx
<1>12. ASSUME ActivateWrite(u) PROVE UploadShape(u)'
  BY <1>12, <1>0, <1>0a DEF ActivateWrite, SendCommit, Goto, locals, control, UploadPcs, CreatePcs,
      ActivatePcs, MarkPcs, TypeOK, UploadShape, CreateTx, ActivateTx, MarkTx
<1>13. ASSUME ActivateDuplicate(u) PROVE UploadShape(u)'
  BY <1>13, <1>0, <1>0a, RaiseEffects DEF ActivateDuplicate, ActivateRaises, Goto, locals, control,
      UploadPcs, CreatePcs, ActivatePcs, MarkPcs, TypeOK, UploadShape, CreateTx, ActivateTx, MarkTx
<1>14. ASSUME ActivateReturns(u) PROVE UploadShape(u)'
  BY <1>14, <1>0, <1>0a DEF ActivateReturns, Finish, Goto, UploadPcs, CreatePcs, ActivatePcs,
      MarkPcs, TypeOK, UploadShape, CreateTx, ActivateTx, MarkTx
<1>15. ASSUME MarkLock(u) PROVE UploadShape(u)'
  BY <1>15, <1>0, <1>0a DEF MarkLock, SendCommit, Goto, locals, control, UploadPcs, CreatePcs,
      ActivatePcs, MarkPcs, TypeOK, UploadShape, CreateTx, ActivateTx, MarkTx
<1>16. ASSUME MarkConflict(u) PROVE UploadShape(u)'
  BY <1>16, <1>0, <1>0a, TxEffects DEF MarkConflict, Finish, Goto, UploadPcs, CreatePcs,
      ActivatePcs, MarkPcs, TypeOK, UploadShape, CreateTx, ActivateTx, MarkTx
<1>17. ASSUME MarkReturns(u) PROVE UploadShape(u)'
  BY <1>17, <1>0, <1>0a DEF MarkReturns, Finish, Goto, UploadPcs, CreatePcs, ActivatePcs, MarkPcs,
      TypeOK, UploadShape, CreateTx, ActivateTx, MarkTx
<1>18. ASSUME CommitCreate(u) PROVE UploadShape(u)'
  BY <1>18, <1>0, <1>0a, TxEffects DEF CommitCreate, locals, control, UploadPcs, CreatePcs,
      ActivatePcs, MarkPcs, TypeOK, UploadShape, CreateTx, ActivateTx, MarkTx
<1>19. ASSUME CommitActivate(u) PROVE UploadShape(u)'
  BY <1>19, <1>0, <1>0a, TxEffects DEF CommitActivate, locals, control, UploadPcs, CreatePcs,
      ActivatePcs, MarkPcs, TypeOK, UploadShape, CreateTx, ActivateTx, MarkTx
<1>20. ASSUME CommitMark(u) PROVE UploadShape(u)'
  BY <1>20, <1>0, <1>0a, TxEffects DEF CommitMark, locals, control, UploadPcs, CreatePcs,
      ActivatePcs, MarkPcs, TypeOK, UploadShape, CreateTx, ActivateTx, MarkTx
<1>21. ASSUME Cancel(u) PROVE UploadShape(u)'
  BY <1>21, <1>0, <1>0a, AbandonEffects DEF Cancel, Unwind, Marked, Goto, Finish, UploadPcs,
      CreatePcs, ActivatePcs, MarkPcs, TypeOK, UploadShape, CreateTx, ActivateTx, MarkTx
<1>22. ASSUME DatabaseError(u) PROVE UploadShape(u)'
  BY <1>22, <1>0, <1>0a, AbandonEffects DEF DatabaseError, Unwind, Marked, Goto, Finish, UploadPcs,
      CreatePcs, ActivatePcs, MarkPcs, TypeOK, UploadShape, CreateTx, ActivateTx, MarkTx
<1>23. ASSUME DeadlockFailsActivation(u) PROVE UploadShape(u)'
  BY <1>23, <1>0, <1>0a, RaiseEffects DEF DeadlockFailsActivation, Deadlocked, ActivateRaises, Goto,
      locals, control, UploadPcs, CreatePcs, ActivatePcs, MarkPcs, TypeOK, UploadShape, CreateTx,
      ActivateTx, MarkTx
<1>24. ASSUME NEW phase \in {"create", "activate", "mark"}, CommitLost(u, phase) PROVE UploadShape(u)'
  BY <1>24, <1>0, <1>0a, TxEffects DEF CommitLost, locals, control, UploadPcs, CreatePcs,
      ActivatePcs, MarkPcs, TypeOK, UploadShape, CreateTx, ActivateTx, MarkTx
<1>25. QED  BY <1>1, <1>2, <1>3, <1>4, <1>5, <1>6, <1>7, <1>8, <1>9, <1>10, <1>11, <1>12, <1>13,
    <1>14, <1>15, <1>16, <1>17, <1>18, <1>19, <1>20, <1>21, <1>22, <1>23, <1>24 DEF UploadStep,
    Create, Activate, Mark, Commit

LEMMA OwnDeletionShape ==
  ASSUME TypeOK, NEW d \in Deletions, DeletionShape(d), DeletionStep(d)
  PROVE  DeletionShape(d)'
<1>0. TypeOK /\ DeletionShape(d)
  OBVIOUS
<1>0a. d \in Actors /\ <<d, "delete">> \in Transactions
  BY TxNames
<1>1. ASSUME NEW doc \in Uploads, Delete(d, doc) PROVE DeletionShape(d)'
  BY <1>1, <1>0, <1>0a DEF Delete, OpenTx, Goto, TypeOK, DeletionShape, DeleteTx, DeletePcs
<1>2. ASSUME DeleteRow(d) PROVE DeletionShape(d)'
  BY <1>2, <1>0, <1>0a DEF DeleteRow, Goto, locals, control, TypeOK, DeletionShape, DeleteTx,
      DeletePcs
<1>3. ASSUME DeleteNotFound(d) PROVE DeletionShape(d)'
  BY <1>3, <1>0, <1>0a, TxEffects DEF DeleteNotFound, Finish, Goto, TypeOK, DeletionShape, DeleteTx,
      DeletePcs
<1>4. ASSUME DeleteCascade(d) PROVE DeletionShape(d)'
  BY <1>4, <1>0, <1>0a DEF DeleteCascade, locals, control, TypeOK, DeletionShape, DeleteTx,
      DeletePcs
<1>5. ASSUME DeleteSendsCommit(d) PROVE DeletionShape(d)'
  BY <1>5, <1>0, <1>0a DEF DeleteSendsCommit, SendCommit, Goto, locals, control, TypeOK,
      DeletionShape, DeleteTx, DeletePcs
<1>6. ASSUME DeleteReturns(d) PROVE DeletionShape(d)'
  BY <1>6, <1>0, <1>0a DEF DeleteReturns, Finish, Goto, TypeOK, DeletionShape, DeleteTx, DeletePcs
<1>7. ASSUME CommitDelete(d) PROVE DeletionShape(d)'
  BY <1>7, <1>0, <1>0a, TxEffects DEF CommitDelete, locals, control, TypeOK, DeletionShape,
      DeleteTx, DeletePcs
<1>8. ASSUME DeletionFails(d) PROVE DeletionShape(d)'
  BY <1>8, <1>0, <1>0a, DeletionEndEffects DEF DeletionFails, DeletionEnds, Finish, Goto, TypeOK,
      DeletionShape, DeleteTx, DeletePcs
<1>9. ASSUME DeadlockFailsDeletion(d) PROVE DeletionShape(d)'
  BY <1>9, <1>0, <1>0a, DeletionEndEffects DEF DeadlockFailsDeletion, Deadlocked, DeletionEnds,
      Finish, Goto, TypeOK, DeletionShape, DeleteTx, DeletePcs
<1>10. QED  BY <1>1, <1>2, <1>3, <1>4, <1>5, <1>6, <1>7, <1>8, <1>9 DEF DeletionStep, DeleteSteps

ShapeInv == (\A u \in Uploads : UploadShape(u)) /\ (\A d \in Deletions : DeletionShape(d))

\* What a step of another actor leaves of an upload and of a deletion.
KeepsUpload(u) ==
  /\ pc'[u] = pc[u] /\ found'[u] = found[u] /\ reply'[u] = reply[u]
  /\ number'[u] = number[u] /\ replaces'[u] = replaces[u] /\ earlier'[u] = earlier[u]
  /\ cancels'[u] = cancels[u] /\ sourceKey'[u] = sourceKey[u]
  /\ CreateTx(u)' = CreateTx(u) /\ ActivateTx(u)' = ActivateTx(u) /\ MarkTx(u)' = MarkTx(u)
  /\ holds'[<<u, "create">>] = holds[<<u, "create">>]
  /\ holds'[<<u, "activate">>] = holds[<<u, "activate">>]
  /\ holds'[<<u, "mark">>] = holds[<<u, "mark">>]
  /\ shares'[<<u, "create">>] = shares[<<u, "create">>]
  /\ shares'[<<u, "activate">>] = shares[<<u, "activate">>]
  /\ shares'[<<u, "mark">>] = shares[<<u, "mark">>]
  /\ Creating(u)' = Creating(u) /\ Switching(u)' = Switching(u)
  /\ Activating(u)' = Activating(u)

KeepsDeletion(d) ==
  /\ pc'[d] = pc[d] /\ found'[d] = found[d] /\ DeleteTx(d)' = DeleteTx(d)
  /\ holds'[<<d, "delete">>] = holds[<<d, "delete">>]
  /\ shares'[<<d, "delete">>] = shares[<<d, "delete">>]
  /\ Deleting(d)' = Deleting(d)

LEMMA OtherUpload ==
  ASSUME NEW a, FrameOf(a), NEW u \in Uploads, u # a
  PROVE  KeepsUpload(u)
<1>1. /\ u \in Actors \ {a}
      /\ <<u, "create">> \in Transactions /\ <<u, "create">>[1] # a
      /\ <<u, "activate">> \in Transactions /\ <<u, "activate">>[1] # a
      /\ <<u, "mark">> \in Transactions /\ <<u, "mark">>[1] # a
  BY TxNames
<1>2. QED
  BY <1>1 DEF KeepsUpload, FrameOf, CreateTx, ActivateTx, MarkTx, Creating, Switching, Activating

LEMMA OtherDeletion ==
  ASSUME NEW a, FrameOf(a), NEW d \in Deletions, d # a
  PROVE  KeepsDeletion(d)
<1>1. d \in Actors \ {a} /\ <<d, "delete">> \in Transactions /\ <<d, "delete">>[1] # a
  BY TxNames
<1>2. QED
  BY <1>1 DEF KeepsDeletion, FrameOf, DeleteTx, Deleting

LEMMA ShapesUnderCrash ==
  ASSUME TypeOK, ShapeInv, Crash
  PROVE  ShapeInv'
<1>1. ASSUME NEW u \in Uploads PROVE UploadShape(u)'
  <2>1. UploadShape(u) /\ u \in Actors
    BY TxNames DEF ShapeInv
  <2>2. /\ CreateTx(u)' = IF CreateTx(u) = "open" THEN "aborted" ELSE CreateTx(u)
        /\ ActivateTx(u)' = IF ActivateTx(u) = "open" THEN "aborted" ELSE ActivateTx(u)
        /\ MarkTx(u)' = IF MarkTx(u) = "open" THEN "aborted" ELSE MarkTx(u)
    BY TxNames, CrashEffects DEF CreateTx, ActivateTx, MarkTx
  <2>3. pc'[u] = IF pc[u] = "idle" THEN "idle" ELSE "finished"
    BY <2>1, CrashEffects
  <2>4. QED
    BY <2>1, <2>2, <2>3 DEF UploadShape, UploadPcs, CreatePcs, ActivatePcs, MarkPcs
<1>2. ASSUME NEW d \in Deletions PROVE DeletionShape(d)'
  <2>1. DeletionShape(d) /\ d \in Actors
    BY TxNames DEF ShapeInv
  <2>2. DeleteTx(d)' = IF DeleteTx(d) = "open" THEN "aborted" ELSE DeleteTx(d)
    BY TxNames, CrashEffects DEF DeleteTx
  <2>3. pc'[d] = IF pc[d] = "idle" THEN "idle" ELSE "finished"
    BY <2>1, CrashEffects
  <2>4. QED  BY <2>1, <2>2, <2>3 DEF DeletionShape, DeletePcs
<1>3. QED  BY <1>1, <1>2 DEF ShapeInv

LEMMA ShapesStep ==
  ASSUME TypeOK, ShapeInv, [Next]_vars
  PROVE  ShapeInv'
<1>1. ASSUME NEW u \in Uploads, UploadStep(u) PROVE ShapeInv'
  <2>1. FrameOf(u)
    BY <1>1, UploadFrame
  <2>2. ASSUME NEW v \in Uploads PROVE UploadShape(v)'
    <3>1. CASE v = u
      BY <1>1, <3>1, OwnUploadShape DEF ShapeInv
    <3>2. CASE v # u
      <4>1. KeepsUpload(v)  BY <2>1, <3>2, OtherUpload
      <4>2. UploadShape(v)  BY DEF ShapeInv
      <4>3. QED  BY <4>1, <4>2 DEF KeepsUpload, UploadShape
    <3>3. QED  BY <3>1, <3>2
  <2>3. ASSUME NEW d \in Deletions PROVE DeletionShape(d)'
    <3>1. KeepsDeletion(d)  BY <2>1, OtherDeletion, TxNames
    <3>2. DeletionShape(d)  BY DEF ShapeInv
    <3>3. QED  BY <3>1, <3>2 DEF KeepsDeletion, DeletionShape
  <2>4. QED  BY <2>2, <2>3 DEF ShapeInv
<1>2. ASSUME NEW d \in Deletions, DeletionStep(d) PROVE ShapeInv'
  <2>1. FrameOf(d)
    BY <1>2, DeletionFrame
  <2>2. ASSUME NEW u \in Uploads PROVE UploadShape(u)'
    <3>1. KeepsUpload(u)  BY <2>1, OtherUpload, TxNames
    <3>2. UploadShape(u)  BY DEF ShapeInv
    <3>3. QED  BY <3>1, <3>2 DEF KeepsUpload, UploadShape
  <2>3. ASSUME NEW e \in Deletions PROVE DeletionShape(e)'
    <3>1. CASE e = d
      BY <1>2, <3>1, OwnDeletionShape DEF ShapeInv
    <3>2. CASE e # d
      <4>1. KeepsDeletion(e)  BY <2>1, <3>2, OtherDeletion
      <4>2. DeletionShape(e)  BY DEF ShapeInv
      <4>3. QED  BY <4>1, <4>2 DEF KeepsDeletion, DeletionShape
    <3>3. QED  BY <3>1, <3>2
  <2>4. QED  BY <2>2, <2>3 DEF ShapeInv
<1>3. CASE UNCHANGED vars
  BY <1>3 DEF vars, locals, control, ShapeInv, UploadShape, DeletionShape, CreateTx, ActivateTx,
      MarkTx, DeleteTx
<1>4. QED  BY <1>1, <1>2, <1>3, ShapesUnderCrash, NextCases

-----------------------------------------------------------------------------
(* The inductive invariant                                                 *)

LockInv ==
  /\ \A u \in Uploads : UploadLocks(u)
  /\ \A d \in Deletions : DeletionLocks(d)
  /\ LocksExclude

RowInv ==
  /\ \A u \in Uploads : StatusShape(u) /\ CreateShape(u) /\ ActivateShape(u)
  /\ \A d \in Deletions : DeleteShape(d)
  /\ DocumentShape /\ OneActiveVersion /\ NamesAreUnique /\ VersionsHaveDocuments

CallInv == \A u \in Uploads : HistoryShape(u) /\ ReplyShape(u) /\ EndShape(u)

IInv == TypeOK /\ NumbersBounded /\ ShapeInv /\ LockInv /\ RowInv /\ CallInv

LEMMA UploadFacts ==
  ASSUME IInv, NEW u \in Uploads
  PROVE  /\ UploadShape(u) /\ UploadLocks(u)
         /\ StatusShape(u) /\ CreateShape(u) /\ ActivateShape(u)
         /\ HistoryShape(u) /\ ReplyShape(u) /\ EndShape(u)
BY DEF IInv, ShapeInv, LockInv, RowInv, CallInv

LEMMA DeletionFacts ==
  ASSUME IInv, NEW d \in Deletions
  PROVE  DeletionShape(d) /\ DeletionLocks(d) /\ DeleteShape(d)
BY DEF IInv, ShapeInv, LockInv, RowInv

LEMMA CatalogFacts ==
  ASSUME IInv
  PROVE  /\ TypeOK /\ NumbersBounded /\ ShapeInv /\ LocksExclude
         /\ DocumentShape /\ OneActiveVersion /\ NamesAreUnique /\ VersionsHaveDocuments
BY DEF IInv, LockInv, RowInv

-----------------------------------------------------------------------------
(* What a lock protects                                                    *)

\* Only versions that exist are locked.
LEMMA LockedVersionsExist ==
  ASSUME IInv, NEW t \in Transactions, NEW v \in Uploads, Version(v) \in holds[t]
  PROVE  versionStatus[v] # "absent"
<1>1. CASE \E u \in Uploads : t \in {<<u, "create">>, <<u, "activate">>, <<u, "mark">>}
  <2>1. PICK u \in Uploads : t \in {<<u, "create">>, <<u, "activate">>, <<u, "mark">>}
    BY <1>1
  <2>2. UploadLocks(u) /\ StatusShape(u) /\ ActivateShape(u)
    BY UploadFacts
  <2>3. CASE t = <<u, "create">>
    BY <2>2, <2>3, RowNames DEF UploadLocks, CreateLocks, ActivateLocks, MarkLocks
  <2>4. CASE t = <<u, "activate">>
    <3>1. Activating(u) /\ (v = u \/ v = replaces[u])
      BY <2>2, <2>4, RowNames DEF UploadLocks, CreateLocks, ActivateLocks, MarkLocks
    <3>2. v # Nothing
      BY IngestionAssumption
    <3>3. QED  BY <3>1, <3>2, <2>2 DEF StatusShape, ActivateShape
  <2>5. CASE t = <<u, "mark">>
    <3>1. MarkTx(u) = "committing" /\ v = u
      BY <2>2, <2>5, RowNames DEF UploadLocks, CreateLocks, ActivateLocks, MarkLocks
    <3>2. QED  BY <3>1, <2>2 DEF StatusShape
  <2>6. QED  BY <2>1, <2>3, <2>4, <2>5
<1>2. CASE \E d \in Deletions : t = <<d, "delete">>
  <2>1. PICK d \in Deletions : t = <<d, "delete">>
    BY <1>2
  <2>2. DeletionLocks(d)
    BY DeletionFacts
  <2>3. v \in VersionsOf(found[d])
    BY <2>1, <2>2, RowNames DEF DeletionLocks
  <2>4. QED  BY <2>3 DEF VersionsOf, Existing
<1>3. QED  BY <1>1, <1>2, TxCases

-----------------------------------------------------------------------------
(* What the four COMMITs write                                             *)

LEMMA CommitCreateEffects ==
  ASSUME IInv, NEW u \in Uploads, CommitCreate(u)
  PROVE  /\ CreateTx(u) = "committing" /\ CreateTx(u)' = "committed"
         /\ ActivateTx(u) = "none" /\ ActivateTx(u)' = "none"
         /\ MarkTx(u) = "none" /\ MarkTx(u)' = "none"
         /\ versionStatus[u] = "absent" /\ versionStatus'[u] = "building"
         /\ found[u] \in Uploads /\ found[u] \in documents \union {u}
         /\ versionDocument'[u] = found[u] /\ versionNumber'[u] = number[u]
         /\ documents' = documents \union {found[u]}
         /\ \A v \in Uploads \ {u} :
              /\ versionStatus'[v] = versionStatus[v]
              /\ versionDocument'[v] = versionDocument[v]
              /\ versionNumber'[v] = versionNumber[v]
         /\ UNCHANGED <<pc, locals, sourceKey>>
<1>1. TypeOK /\ UploadShape(u) /\ StatusShape(u) /\ CreateShape(u)
  BY UploadFacts, CatalogFacts
<1>2. CreateTx(u) = "committing"
  BY DEF CommitCreate, CreateTx
<1>3. CreateTx(u)' = "committed" /\ ActivateTx(u)' = ActivateTx(u) /\ MarkTx(u)' = MarkTx(u)
  BY <1>1, TxNames, TxEffects DEF CommitCreate, CreateTx, ActivateTx, MarkTx
<1>4. ActivateTx(u) = "none" /\ MarkTx(u) = "none" /\ versionStatus[u] = "absent"
  BY <1>1, <1>2 DEF UploadShape, StatusShape
<1>5. found[u] \in Uploads /\ found[u] \in documents \union {u}
  BY <1>1, <1>2 DEF CreateShape, Creating
<1>6. documents' = documents \union {found[u]}
  BY <1>5 DEF CommitCreate
<1>7. versionStatus'[u] = "building" /\ versionDocument'[u] = found[u] /\ versionNumber'[u] = number[u]
  BY <1>1 DEF CommitCreate, TypeOK
<1>8. \A v \in Uploads \ {u} :
        /\ versionStatus'[v] = versionStatus[v]
        /\ versionDocument'[v] = versionDocument[v]
        /\ versionNumber'[v] = versionNumber[v]
  BY <1>1 DEF CommitCreate, TypeOK
<1>9. UNCHANGED <<pc, locals, sourceKey>>
  BY DEF CommitCreate
<1>10. QED  BY <1>2, <1>3, <1>4, <1>5, <1>6, <1>7, <1>8, <1>9

\* Every status a COMMIT of an activation, a mark or a deletion overwrites is
\* still what the transaction read under its lock.
LEMMA CommitActivateEffects ==
  ASSUME IInv, NEW u \in Uploads, CommitActivate(u)
  PROVE  /\ ActivateTx(u) = "committing" /\ ActivateTx(u)' = "committed"
         /\ CreateTx(u) = "committed" /\ CreateTx(u)' = "committed"
         /\ MarkTx(u)' = MarkTx(u) /\ MarkTx(u) \notin {"committing", "committed"}
         /\ versionStatus[u] = "building" /\ versionStatus'[u] = "active"
         /\ \A v \in Uploads : v = replaces[u] =>
              /\ versionStatus[v] = "active" /\ versionStatus'[v] = "superseded"
              /\ versionDocument[v] = versionDocument[u]
         /\ \A v \in Uploads \ {u} : v # replaces[u] => versionStatus'[v] = versionStatus[v]
         /\ ActiveVersions(versionDocument[u]) \subseteq {replaces[u]}
         /\ UNCHANGED <<documents, sourceKey, versionDocument, versionNumber, pc, locals>>
<1>1. TypeOK /\ UploadShape(u) /\ StatusShape(u) /\ ActivateShape(u)
  BY UploadFacts, CatalogFacts
<1>2. ActivateTx(u) = "committing" /\ Switching(u) /\ Activating(u)
  BY DEF CommitActivate, ActivateTx, Switching, Activating
<1>3. ActivateTx(u)' = "committed" /\ CreateTx(u)' = CreateTx(u) /\ MarkTx(u)' = MarkTx(u)
  BY <1>1, TxNames, TxEffects DEF CommitActivate, CreateTx, ActivateTx, MarkTx
<1>4. CreateTx(u) = "committed" /\ versionStatus[u] = "building"
  BY <1>1, <1>2 DEF UploadShape, StatusShape
<1>5. MarkTx(u) \notin {"committing", "committed"}
  BY <1>1, <1>2 DEF StatusShape
<1>6. \A v \in Uploads : v = replaces[u] =>
        versionStatus[v] = "active" /\ versionDocument[v] = versionDocument[u]
  BY <1>1, <1>2, IngestionAssumption DEF ActivateShape
<1>7. \A v \in Uploads :
        versionStatus'[v] = IF v = u THEN "active"
                            ELSE IF v = replaces[u] THEN "superseded" ELSE versionStatus[v]
  BY DEF CommitActivate
<1>8. ActiveVersions(versionDocument[u]) \subseteq {replaces[u]}
  BY <1>1, <1>2 DEF ActivateShape
<1>9. UNCHANGED <<documents, sourceKey, versionDocument, versionNumber, pc, locals>>
  BY DEF CommitActivate
<1>10. QED
  BY <1>2, <1>3, <1>4, <1>5, <1>6, <1>7, <1>8, <1>9

LEMMA CommitMarkEffects ==
  ASSUME IInv, NEW u \in Uploads, CommitMark(u)
  PROVE  /\ MarkTx(u) = "committing" /\ MarkTx(u)' = "committed"
         /\ CreateTx(u) = "committed" /\ CreateTx(u)' = "committed"
         /\ ActivateTx(u)' = ActivateTx(u) /\ ActivateTx(u) \in {"none", "aborted"}
         /\ versionStatus[u] = "building" /\ versionStatus'[u] = "failed"
         /\ \A v \in Uploads \ {u} : versionStatus'[v] = versionStatus[v]
         /\ UNCHANGED <<documents, sourceKey, versionDocument, versionNumber, pc, locals>>
<1>1. TypeOK /\ UploadShape(u) /\ StatusShape(u)
  BY UploadFacts, CatalogFacts
<1>2. MarkTx(u) = "committing"
  BY DEF CommitMark, MarkTx
<1>3. MarkTx(u)' = "committed" /\ CreateTx(u)' = CreateTx(u) /\ ActivateTx(u)' = ActivateTx(u)
  BY <1>1, TxNames, TxEffects DEF CommitMark, CreateTx, ActivateTx, MarkTx
<1>4. CreateTx(u) = "committed" /\ versionStatus[u] = "building"
  BY <1>1, <1>2 DEF UploadShape, StatusShape
<1>5. ActivateTx(u) \in {"none", "aborted"}
  BY <1>1, <1>2 DEF StatusShape
<1>6. versionStatus'[u] = "failed" /\ \A v \in Uploads \ {u} : versionStatus'[v] = versionStatus[v]
  BY <1>1 DEF CommitMark, TypeOK
<1>7. UNCHANGED <<documents, sourceKey, versionDocument, versionNumber, pc, locals>>
  BY DEF CommitMark
<1>8. QED  BY <1>2, <1>3, <1>4, <1>5, <1>6, <1>7

LEMMA CommitDeleteEffects ==
  ASSUME IInv, NEW d \in Deletions, CommitDelete(d)
  PROVE  /\ DeleteTx(d) = "committing" /\ DeleteTx(d)' = "committed"
         /\ found[d] \in documents /\ documents' = documents \ {found[d]}
         /\ Document(found[d]) \in holds[<<d, "delete">>]
         /\ \A v \in Uploads : v \in VersionsOf(found[d]) <=> Version(v) \in holds[<<d, "delete">>]
         /\ \A v \in Uploads :
              versionStatus'[v] = IF v \in VersionsOf(found[d]) THEN "deleted" ELSE versionStatus[v]
         /\ UNCHANGED <<sourceKey, versionDocument, versionNumber, pc, locals>>
<1>1. TypeOK /\ DeletionLocks(d) /\ DeleteShape(d)
  BY DeletionFacts, CatalogFacts
<1>2. DeleteTx(d) = "committing" /\ Deleting(d)
  BY DEF CommitDelete, DeleteTx, Deleting
<1>3. DeleteTx(d)' = "committed"
  BY <1>1, TxNames, TxEffects DEF CommitDelete, DeleteTx
<1>4. found[d] \in documents /\ documents' = documents \ {found[d]}
  BY <1>1, <1>2 DEF DeleteShape, CommitDelete
<1>5. Document(found[d]) \in holds[<<d, "delete">>]
  BY <1>1, <1>2 DEF DeletionLocks
<1>6. \A v \in Uploads : v \in VersionsOf(found[d]) <=> Version(v) \in holds[<<d, "delete">>]
  BY <1>1, <1>2, RowNames DEF DeletionLocks, DeleteShape
<1>7. \A v \in Uploads :
        versionStatus'[v] = IF v \in VersionsOf(found[d]) THEN "deleted" ELSE versionStatus[v]
  BY <1>6 DEF CommitDelete
<1>8. UNCHANGED <<sourceKey, versionDocument, versionNumber, pc, locals>>
  BY DEF CommitDelete
<1>9. QED  BY <1>2, <1>3, <1>4, <1>5, <1>6, <1>7, <1>8

-----------------------------------------------------------------------------
(* One step, one actor, at most one COMMIT                                 *)

ActorStep(a) ==
  \/ a \in Uploads /\ UploadStep(a)
  \/ a \in Deletions /\ DeletionStep(a)

CommitStep(a) ==
  \/ a \in Uploads /\ (CommitCreate(a) \/ CommitActivate(a) \/ CommitMark(a))
  \/ a \in Deletions /\ CommitDelete(a)

LEMMA ActorFrame ==
  ASSUME TypeOK, NEW a, ActorStep(a)
  PROVE  /\ a \in Actors /\ FrameOf(a)
         /\ UNCHANGED catalog \/ CommitStep(a)
         /\ UNCHANGED sourceKey \/ pc[a] = "idle"
BY UploadFrame, DeletionFrame, TxNames DEF ActorStep, CommitStep

LEMMA StepCases ==
  ASSUME [Next]_vars
  PROVE  (\E a : ActorStep(a)) \/ Crash \/ UNCHANGED vars
BY NextCases DEF ActorStep

\* What is committed stays: a version's document and number for ever, its
\* status up to its next one.
LEMMA VersionsProgress ==
  ASSUME IInv, NEW a, CommitStep(a), NEW v \in Uploads, versionStatus[v] # "absent"
  PROVE  /\ versionStatus'[v] # "absent"
         /\ versionDocument'[v] = versionDocument[v]
         /\ versionNumber'[v] = versionNumber[v]
         /\ versionStatus'[v] = "building" => versionStatus[v] = "building"
<1>1. CASE a \in Uploads /\ CommitCreate(a)
  <2>1. v # a
    BY <1>1, CommitCreateEffects
  <2>2. QED  BY <1>1, <2>1, CommitCreateEffects
<1>2. CASE a \in Uploads /\ CommitActivate(a)
  <2>1. v = a \/ v = replaces[a] \/ versionStatus'[v] = versionStatus[v]
    BY <1>2, CommitActivateEffects
  <2>2. v = a => versionStatus'[v] = "active"
    BY <1>2, CommitActivateEffects
  <2>3. v = replaces[a] => versionStatus'[v] = "superseded"
    BY <1>2, CommitActivateEffects
  <2>4. versionDocument'[v] = versionDocument[v] /\ versionNumber'[v] = versionNumber[v]
    BY <1>2, CommitActivateEffects
  <2>5. QED  BY <2>1, <2>2, <2>3, <2>4
<1>3. CASE a \in Uploads /\ CommitMark(a)
  BY <1>3, CommitMarkEffects
<1>4. CASE a \in Deletions /\ CommitDelete(a)
  BY <1>4, CommitDeleteEffects
<1>5. QED  BY <1>1, <1>2, <1>3, <1>4 DEF CommitStep

\* A version changes its status only in a transaction that holds its row.
LEMMA WritersHoldTheRow ==
  ASSUME IInv, NEW a, CommitStep(a), NEW v \in Uploads,
         versionStatus'[v] # versionStatus[v] \/ versionDocument'[v] # versionDocument[v]
  PROVE  \/ v = a /\ versionStatus[v] = "absent"
         \/ \E t \in Transactions : t[1] = a /\ Version(v) \in holds[t]
<1>1. CASE a \in Uploads /\ CommitCreate(a)
  BY <1>1, CommitCreateEffects
<1>2. CASE a \in Uploads /\ CommitActivate(a)
  <2>1. UploadLocks(a) /\ Switching(a) /\ Activating(a)
    BY <1>2, UploadFacts DEF CommitActivate, Switching, Activating, ActivateTx
  <2>2. v = a \/ v = replaces[a]
    BY <1>2, CommitActivateEffects
  <2>3. v # Nothing
    BY IngestionAssumption
  <2>4. Version(v) \in holds[<<a, "activate">>]
    BY <2>1, <2>2, <2>3 DEF UploadLocks, CreateLocks, ActivateLocks, MarkLocks
  <2>5. <<a, "activate">> \in Transactions /\ <<a, "activate">>[1] = a
    BY <1>2, TxNames
  <2>6. QED  BY <2>4, <2>5
<1>3. CASE a \in Uploads /\ CommitMark(a)
  <2>1. UploadLocks(a) /\ MarkTx(a) = "committing"
    BY <1>3, UploadFacts DEF CommitMark, MarkTx
  <2>2. v = a
    BY <1>3, CommitMarkEffects
  <2>3. Version(v) \in holds[<<a, "mark">>]
    BY <2>1, <2>2 DEF UploadLocks, CreateLocks, ActivateLocks, MarkLocks
  <2>4. <<a, "mark">> \in Transactions /\ <<a, "mark">>[1] = a
    BY <1>3, TxNames
  <2>5. QED  BY <2>3, <2>4
<1>4. CASE a \in Deletions /\ CommitDelete(a)
  <2>1. Version(v) \in holds[<<a, "delete">>]
    BY <1>4, CommitDeleteEffects
  <2>2. <<a, "delete">> \in Transactions /\ <<a, "delete">>[1] = a
    BY <1>4, TxNames
  <2>3. QED  BY <2>1, <2>2
<1>5. QED  BY <1>1, <1>2, <1>3, <1>4 DEF CommitStep

\* So a version whose row a transaction holds is what the transaction read,
\* whatever anybody else does.
LEMMA LockedVersionsKept ==
  ASSUME IInv, NEW a, ActorStep(a), NEW t \in Transactions, t[1] # a,
         NEW v \in Uploads, Version(v) \in holds[t]
  PROVE  versionStatus'[v] = versionStatus[v] /\ versionDocument'[v] = versionDocument[v]
<1>1. CASE UNCHANGED catalog
  BY <1>1 DEF catalog
<1>2. CASE CommitStep(a)
  <2>1. versionStatus[v] # "absent"
    BY LockedVersionsExist
  <2>2. \A s \in Transactions : Version(v) \in holds[s] => s = t
    BY CatalogFacts DEF LocksExclude
  <2>3. QED  BY <1>2, <2>1, <2>2, WritersHoldTheRow
<1>3. QED  BY <1>1, <1>2, ActorFrame, CatalogFacts

\* And a document that a transaction holds, or shares, exists as long.
LEMMA LockedDocumentsKept ==
  ASSUME IInv, NEW a, ActorStep(a), NEW t \in Transactions, t[1] # a,
         NEW doc \in documents, Document(doc) \in holds[t] \/ doc \in shares[t]
  PROVE  doc \in documents'
<1>1. CASE UNCHANGED catalog
  BY <1>1 DEF catalog
<1>2. CASE a \in Uploads /\ CommitStep(a)
  BY <1>2, CommitCreateEffects, CommitActivateEffects, CommitMarkEffects, TxNames DEF CommitStep
<1>3. CASE a \in Deletions /\ CommitDelete(a)
  <2>1. Document(found[a]) \in holds[<<a, "delete">>] /\ documents' = documents \ {found[a]}
    BY <1>3, CommitDeleteEffects
  <2>2. <<a, "delete">> \in Transactions /\ <<a, "delete">> # t
    BY <1>3, TxNames
  <2>3. doc # found[a]
    BY <2>1, <2>2, CatalogFacts DEF LocksExclude
  <2>4. QED  BY <2>1, <2>3
<1>4. QED  BY <1>1, <1>2, <1>3, ActorFrame, CatalogFacts DEF CommitStep

-----------------------------------------------------------------------------
(* Who holds what                                                          *)

LEMMA AbandonedTx ==
  ASSUME TypeOK, NEW u \in Uploads, Abandon(u)
  PROVE  /\ CreateTx(u)' = IF CreateTx(u) = "open" THEN "aborted" ELSE CreateTx(u)
         /\ ActivateTx(u)' = IF ActivateTx(u) = "open" THEN "aborted" ELSE ActivateTx(u)
         /\ MarkTx(u)' = IF MarkTx(u) = "open" THEN "aborted"
                         ELSE IF Marked(u) THEN "open" ELSE MarkTx(u)
         /\ \A phase \in {"create", "activate", "mark"} :
              IF tx[<<u, phase>>] = "open"
              THEN holds'[<<u, phase>>] = {} /\ shares'[<<u, phase>>] = {}
              ELSE /\ holds'[<<u, phase>>] = holds[<<u, phase>>]
                   /\ shares'[<<u, phase>>] = shares[<<u, phase>>]
<1>1. \A phase \in {"create", "activate", "mark"} :
        <<u, phase>> \in Transactions /\ <<u, phase>>[1] = u
  BY TxNames
<1>2. <<u, "create">> # <<u, "mark">> /\ <<u, "activate">> # <<u, "mark">>
  OBVIOUS
<1>3. QED  BY <1>1, <1>2, AbandonEffects DEF CreateTx, ActivateTx, MarkTx


LEMMA OwnCreateLocks ==
  ASSUME TypeOK, NEW u \in Uploads, UploadShape(u), UploadShape(u)', CreateLocks(u), UploadStep(u)
  PROVE  CreateLocks(u)'
<1>0. TypeOK /\ UploadShape(u) /\ UploadShape(u)' /\ CreateLocks(u)
  OBVIOUS
<1>0a. /\ u \in Actors /\ <<u, "create">> \in Transactions /\ <<u, "activate">> \in Transactions
       /\ <<u, "mark">> \in Transactions
       /\ <<u, "create">> # <<u, "activate">> /\ <<u, "create">> # <<u, "mark">>
       /\ <<u, "activate">> # <<u, "mark">>
  BY TxNames
<1>0b. "create" \in {"create", "activate", "mark"}
  OBVIOUS
<1>1. ASSUME Refuse(u) PROVE CreateLocks(u)'
  BY <1>1, <1>0, <1>0a DEF Refuse, Finish, Goto, rows, TypeOK, UploadShape, UploadPcs, CreatePcs,
      ActivatePcs, MarkPcs, CreateLocks, CreateTx, Creating
<1>2. ASSUME NEW key \in SourceKeys, Upload(u, key) PROVE CreateLocks(u)'
  BY <1>2, <1>0, <1>0a DEF Upload, OpenTx, Goto, control, TypeOK, UploadShape, UploadPcs, CreatePcs,
      ActivatePcs, MarkPcs, CreateLocks, CreateTx, Creating
<1>3. ASSUME CreateLock(u) PROVE CreateLocks(u)'
  BY <1>3, <1>0, <1>0a DEF CreateLock, LockKnowledgeBase, Lock, Unlocked, Goto, rows, TypeOK,
      UploadShape, UploadPcs, CreatePcs, ActivatePcs, MarkPcs, CreateLocks, CreateTx, Creating
<1>4. ASSUME CreateInsert(u) PROVE CreateLocks(u)'
  BY <1>4, <1>0, <1>0a DEF CreateInsert, Unlocked, SendCommit, Goto, rows, TypeOK, UploadShape,
      UploadPcs, CreatePcs, ActivatePcs, MarkPcs, CreateLocks, CreateTx, Creating
<1>5. ASSUME CreateRefused(u) PROVE CreateLocks(u)'
  BY <1>5, <1>0, <1>0a DEF CreateRefused, EndTx, Finish, Goto, rows, ReleaseAll, TypeOK,
      UploadShape, UploadPcs, CreatePcs, ActivatePcs, MarkPcs, CreateLocks, CreateTx, Creating
<1>6. ASSUME CreateReturns(u) PROVE CreateLocks(u)'
  BY <1>6, <1>0, <1>0a DEF CreateReturns, Goto, rows, locals, control, TypeOK, UploadShape,
      UploadPcs, CreatePcs, ActivatePcs, MarkPcs, CreateLocks, CreateTx, Creating
<1>7. ASSUME EmbedSucceeds(u) PROVE CreateLocks(u)'
  BY <1>7, <1>0, <1>0a DEF EmbedSucceeds, OpenTx, Goto, rows, locals, control, TypeOK, UploadShape,
      UploadPcs, CreatePcs, ActivatePcs, MarkPcs, CreateLocks, CreateTx, Creating
<1>8. ASSUME EmbedFails(u) PROVE CreateLocks(u)'
  BY <1>8, <1>0, <1>0a DEF EmbedFails, StartMark, Goto, rows, locals, control, TypeOK, UploadShape,
      UploadPcs, CreatePcs, ActivatePcs, MarkPcs, CreateLocks, CreateTx, Creating
<1>9. ASSUME ActivateLock(u) PROVE CreateLocks(u)'
  BY <1>9, <1>0, <1>0a, RowNames DEF ActivateLock, Lock, Unlocked, Goto, rows, TypeOK, UploadShape,
      UploadPcs, CreatePcs, ActivatePcs, MarkPcs, CreateLocks, CreateTx, Creating
<1>10. ASSUME ActivateConflict(u) PROVE CreateLocks(u)'
  BY <1>10, <1>0, <1>0a, RaiseEffects DEF ActivateConflict, Unlocked, Goto, rows, locals, control,
      Deadlocked, ActivateRaises, TypeOK, UploadShape, UploadPcs, CreatePcs, ActivatePcs, MarkPcs,
      CreateLocks, CreateTx, Creating
<1>11. ASSUME ActivateSupersede(u) PROVE CreateLocks(u)'
  BY <1>11, <1>0, <1>0a, RowNames DEF ActivateSupersede, Lock, Unlocked, Goto, rows, TypeOK,
      UploadShape, UploadPcs, CreatePcs, ActivatePcs, MarkPcs, CreateLocks, CreateTx, Creating
<1>12. ASSUME ActivateWrite(u) PROVE CreateLocks(u)'
  BY <1>12, <1>0, <1>0a DEF ActivateWrite, SendCommit, Goto, rows, locals, control, TypeOK,
      UploadShape, UploadPcs, CreatePcs, ActivatePcs, MarkPcs, CreateLocks, CreateTx, Creating
<1>13. ASSUME ActivateDuplicate(u) PROVE CreateLocks(u)'
  BY <1>13, <1>0, <1>0a, RaiseEffects DEF ActivateDuplicate, Goto, rows, locals, control,
      Deadlocked, ActivateRaises, TypeOK, UploadShape, UploadPcs, CreatePcs, ActivatePcs, MarkPcs,
      CreateLocks, CreateTx, Creating
<1>14. ASSUME ActivateReturns(u) PROVE CreateLocks(u)'
  BY <1>14, <1>0, <1>0a DEF ActivateReturns, Finish, Goto, rows, TypeOK, UploadShape, UploadPcs,
      CreatePcs, ActivatePcs, MarkPcs, CreateLocks, CreateTx, Creating
<1>15. ASSUME MarkLock(u) PROVE CreateLocks(u)'
  BY <1>15, <1>0, <1>0a, RowNames DEF MarkLock, Lock, Unlocked, SendCommit, Goto, rows, locals,
      control, TypeOK, UploadShape, UploadPcs, CreatePcs, ActivatePcs, MarkPcs, CreateLocks,
      CreateTx, Creating
<1>16. ASSUME MarkConflict(u) PROVE CreateLocks(u)'
  BY <1>16, <1>0, <1>0a DEF MarkConflict, Unlocked, EndTx, Finish, Goto, rows, ReleaseAll, TypeOK,
      UploadShape, UploadPcs, CreatePcs, ActivatePcs, MarkPcs, CreateLocks, CreateTx, Creating
<1>17. ASSUME MarkReturns(u) PROVE CreateLocks(u)'
  BY <1>17, <1>0, <1>0a DEF MarkReturns, Finish, Goto, rows, TypeOK, UploadShape, UploadPcs,
      CreatePcs, ActivatePcs, MarkPcs, CreateLocks, CreateTx, Creating
<1>18. ASSUME CommitCreate(u) PROVE CreateLocks(u)'
  BY <1>18, <1>0, <1>0a DEF CommitCreate, EndTx, locals, control, ReleaseAll, TypeOK, UploadShape,
      UploadPcs, CreatePcs, ActivatePcs, MarkPcs, CreateLocks, CreateTx, Creating
<1>19. ASSUME CommitActivate(u) PROVE CreateLocks(u)'
  BY <1>19, <1>0, <1>0a DEF CommitActivate, EndTx, locals, control, ReleaseAll, TypeOK, UploadShape,
      UploadPcs, CreatePcs, ActivatePcs, MarkPcs, CreateLocks, CreateTx, Creating
<1>20. ASSUME CommitMark(u) PROVE CreateLocks(u)'
  BY <1>20, <1>0, <1>0a DEF CommitMark, EndTx, locals, control, ReleaseAll, TypeOK, UploadShape,
      UploadPcs, CreatePcs, ActivatePcs, MarkPcs, CreateLocks, CreateTx, Creating
<1>21. ASSUME Cancel(u) PROVE CreateLocks(u)'
  BY <1>21, <1>0, <1>0b, AbandonedTx DEF Cancel, rows, TypeOK, UploadShape, UploadPcs, CreatePcs,
      ActivatePcs, MarkPcs, CreateLocks, CreateTx, Creating
<1>22. ASSUME DatabaseError(u) PROVE CreateLocks(u)'
  BY <1>22, <1>0, <1>0b, AbandonedTx DEF DatabaseError, rows, TypeOK, UploadShape, UploadPcs,
      CreatePcs, ActivatePcs, MarkPcs, CreateLocks, CreateTx, Creating
<1>23. ASSUME DeadlockFailsActivation(u) PROVE CreateLocks(u)'
  BY <1>23, <1>0, <1>0a, RaiseEffects DEF DeadlockFailsActivation, Deadlocked, Goto, rows, locals,
      control, ActivateRaises, TypeOK, UploadShape, UploadPcs, CreatePcs, ActivatePcs, MarkPcs,
      CreateLocks, CreateTx, Creating
<1>24. ASSUME NEW phase \in {"create", "activate", "mark"}, CommitLost(u, phase) PROVE CreateLocks(u)'
  BY <1>24, <1>0, <1>0a DEF CommitLost, EndTx, rows, locals, control, ReleaseAll, TypeOK,
      UploadShape, UploadPcs, CreatePcs, ActivatePcs, MarkPcs, CreateLocks, CreateTx, Creating
<1>25. QED  BY <1>1, <1>2, <1>3, <1>4, <1>5, <1>6, <1>7, <1>8, <1>9, <1>10, <1>11, <1>12, <1>13,
    <1>14, <1>15, <1>16, <1>17, <1>18, <1>19, <1>20, <1>21, <1>22, <1>23, <1>24 DEF UploadStep,
    Create, Activate, Mark, Commit

LEMMA OwnActivateLocks ==
  ASSUME TypeOK, NEW u \in Uploads, UploadShape(u), UploadShape(u)', ActivateLocks(u), UploadStep(u)
  PROVE  ActivateLocks(u)'
<1>0. TypeOK /\ UploadShape(u) /\ UploadShape(u)' /\ ActivateLocks(u)
  OBVIOUS
<1>0a. /\ u \in Actors /\ <<u, "create">> \in Transactions /\ <<u, "activate">> \in Transactions
       /\ <<u, "mark">> \in Transactions
       /\ <<u, "create">> # <<u, "activate">> /\ <<u, "create">> # <<u, "mark">>
       /\ <<u, "activate">> # <<u, "mark">>
  BY TxNames
<1>0b. "activate" \in {"create", "activate", "mark"}
  OBVIOUS
<1>1. ASSUME Refuse(u) PROVE ActivateLocks(u)'
  BY <1>1, <1>0, <1>0a DEF Refuse, Finish, Goto, rows, TypeOK, UploadShape, UploadPcs, CreatePcs,
      ActivatePcs, MarkPcs, ActivateLocks, ActivateTx, Activating, Switching
<1>2. ASSUME NEW key \in SourceKeys, Upload(u, key) PROVE ActivateLocks(u)'
  BY <1>2, <1>0, <1>0a DEF Upload, OpenTx, Goto, control, TypeOK, UploadShape, UploadPcs, CreatePcs,
      ActivatePcs, MarkPcs, ActivateLocks, ActivateTx, Activating, Switching
<1>3. ASSUME CreateLock(u) PROVE ActivateLocks(u)'
  BY <1>3, <1>0, <1>0a DEF CreateLock, LockKnowledgeBase, Lock, Unlocked, Goto, rows, TypeOK,
      UploadShape, UploadPcs, CreatePcs, ActivatePcs, MarkPcs, ActivateLocks, ActivateTx,
      Activating, Switching
<1>4. ASSUME CreateInsert(u) PROVE ActivateLocks(u)'
  BY <1>4, <1>0, <1>0a DEF CreateInsert, Unlocked, SendCommit, Goto, rows, TypeOK, UploadShape,
      UploadPcs, CreatePcs, ActivatePcs, MarkPcs, ActivateLocks, ActivateTx, Activating, Switching
<1>5. ASSUME CreateRefused(u) PROVE ActivateLocks(u)'
  BY <1>5, <1>0, <1>0a DEF CreateRefused, EndTx, Finish, Goto, rows, ReleaseAll, TypeOK,
      UploadShape, UploadPcs, CreatePcs, ActivatePcs, MarkPcs, ActivateLocks, ActivateTx,
      Activating, Switching
<1>6. ASSUME CreateReturns(u) PROVE ActivateLocks(u)'
  BY <1>6, <1>0, <1>0a DEF CreateReturns, Goto, rows, locals, control, TypeOK, UploadShape,
      UploadPcs, CreatePcs, ActivatePcs, MarkPcs, ActivateLocks, ActivateTx, Activating, Switching
<1>7. ASSUME EmbedSucceeds(u) PROVE ActivateLocks(u)'
  BY <1>7, <1>0, <1>0a DEF EmbedSucceeds, OpenTx, Goto, rows, locals, control, TypeOK, UploadShape,
      UploadPcs, CreatePcs, ActivatePcs, MarkPcs, ActivateLocks, ActivateTx, Activating, Switching
<1>8. ASSUME EmbedFails(u) PROVE ActivateLocks(u)'
  BY <1>8, <1>0, <1>0a DEF EmbedFails, StartMark, Goto, rows, locals, control, TypeOK, UploadShape,
      UploadPcs, CreatePcs, ActivatePcs, MarkPcs, ActivateLocks, ActivateTx, Activating, Switching
<1>9. ASSUME ActivateLock(u) PROVE ActivateLocks(u)'
  BY <1>9, <1>0, <1>0a, RowNames DEF ActivateLock, Lock, Unlocked, Goto, rows, TypeOK, UploadShape,
      UploadPcs, CreatePcs, ActivatePcs, MarkPcs, ActivateLocks, ActivateTx, Activating, Switching
<1>10. ASSUME ActivateConflict(u) PROVE ActivateLocks(u)'
  BY <1>10, <1>0, <1>0a, RaiseEffects DEF ActivateConflict, Unlocked, Goto, rows, locals, control,
      Deadlocked, ActivateRaises, TypeOK, UploadShape, UploadPcs, CreatePcs, ActivatePcs, MarkPcs,
      ActivateLocks, ActivateTx, Activating, Switching
<1>11. ASSUME ActivateSupersede(u) PROVE ActivateLocks(u)'
  <2>1. /\ pc[u] = "activate_supersede" /\ pc'[u] = "activate_write"
        /\ tx' = tx /\ shares' = shares
        /\ holds[<<u, "activate">>] \subseteq {Version(u), Version(replaces[u])}
        /\ Version(u) \in holds[<<u, "activate">>] /\ shares[<<u, "activate">>] = {}
    BY <1>11, <1>0, <1>0a DEF ActivateSupersede, Goto, TypeOK, ActivateLocks, Activating
  <2>2. CASE replaces[u] # Nothing /\ Lock(<<u, "activate">>, Version(replaces[u])) /\ UNCHANGED replaces
    <3>1. holds'[<<u, "activate">>] = holds[<<u, "activate">>] \union {Version(replaces[u])}
      BY <2>2, <1>0, <1>0a DEF Lock, TypeOK
    <3>2. QED  BY <2>1, <2>2, <3>1, <1>0 DEF UploadShape, ActivateLocks, ActivateTx, Activating,
        Switching
  <2>3. CASE Unlocked(Version(replaces[u])) /\ replaces' = [replaces EXCEPT ![u] = Nothing] /\ UNCHANGED holds
    <3>1. Version(replaces[u]) \notin holds[<<u, "activate">>] /\ replaces'[u] = Nothing
      BY <2>3, <1>0, <1>0a DEF Unlocked, TypeOK
    <3>2. QED  BY <2>1, <2>3, <3>1, <1>0 DEF UploadShape, ActivateLocks, ActivateTx, Activating,
        Switching
  <2>4. CASE replaces[u] = Nothing /\ UNCHANGED <<holds, replaces>>
    BY <2>1, <2>4, <1>0 DEF UploadShape, ActivateLocks, ActivateTx, Activating, Switching
  <2>5. QED  BY <1>11, <2>2, <2>3, <2>4 DEF ActivateSupersede
<1>12. ASSUME ActivateWrite(u) PROVE ActivateLocks(u)'
  BY <1>12, <1>0, <1>0a DEF ActivateWrite, SendCommit, Goto, rows, locals, control, TypeOK,
      UploadShape, UploadPcs, CreatePcs, ActivatePcs, MarkPcs, ActivateLocks, ActivateTx,
      Activating, Switching
<1>13. ASSUME ActivateDuplicate(u) PROVE ActivateLocks(u)'
  BY <1>13, <1>0, <1>0a, RaiseEffects DEF ActivateDuplicate, Goto, rows, locals, control,
      Deadlocked, ActivateRaises, TypeOK, UploadShape, UploadPcs, CreatePcs, ActivatePcs, MarkPcs,
      ActivateLocks, ActivateTx, Activating, Switching
<1>14. ASSUME ActivateReturns(u) PROVE ActivateLocks(u)'
  BY <1>14, <1>0, <1>0a DEF ActivateReturns, Finish, Goto, rows, TypeOK, UploadShape, UploadPcs,
      CreatePcs, ActivatePcs, MarkPcs, ActivateLocks, ActivateTx, Activating, Switching
<1>15. ASSUME MarkLock(u) PROVE ActivateLocks(u)'
  BY <1>15, <1>0, <1>0a, RowNames DEF MarkLock, Lock, Unlocked, SendCommit, Goto, rows, locals,
      control, TypeOK, UploadShape, UploadPcs, CreatePcs, ActivatePcs, MarkPcs, ActivateLocks,
      ActivateTx, Activating, Switching
<1>16. ASSUME MarkConflict(u) PROVE ActivateLocks(u)'
  BY <1>16, <1>0, <1>0a DEF MarkConflict, Unlocked, EndTx, Finish, Goto, rows, ReleaseAll, TypeOK,
      UploadShape, UploadPcs, CreatePcs, ActivatePcs, MarkPcs, ActivateLocks, ActivateTx,
      Activating, Switching
<1>17. ASSUME MarkReturns(u) PROVE ActivateLocks(u)'
  BY <1>17, <1>0, <1>0a DEF MarkReturns, Finish, Goto, rows, TypeOK, UploadShape, UploadPcs,
      CreatePcs, ActivatePcs, MarkPcs, ActivateLocks, ActivateTx, Activating, Switching
<1>18. ASSUME CommitCreate(u) PROVE ActivateLocks(u)'
  BY <1>18, <1>0, <1>0a DEF CommitCreate, EndTx, locals, control, ReleaseAll, TypeOK, UploadShape,
      UploadPcs, CreatePcs, ActivatePcs, MarkPcs, ActivateLocks, ActivateTx, Activating, Switching
<1>19. ASSUME CommitActivate(u) PROVE ActivateLocks(u)'
  BY <1>19, <1>0, <1>0a DEF CommitActivate, EndTx, locals, control, ReleaseAll, TypeOK, UploadShape,
      UploadPcs, CreatePcs, ActivatePcs, MarkPcs, ActivateLocks, ActivateTx, Activating, Switching
<1>20. ASSUME CommitMark(u) PROVE ActivateLocks(u)'
  BY <1>20, <1>0, <1>0a DEF CommitMark, EndTx, locals, control, ReleaseAll, TypeOK, UploadShape,
      UploadPcs, CreatePcs, ActivatePcs, MarkPcs, ActivateLocks, ActivateTx, Activating, Switching
<1>21. ASSUME Cancel(u) PROVE ActivateLocks(u)'
  BY <1>21, <1>0, <1>0b, AbandonedTx DEF Cancel, rows, TypeOK, UploadShape, UploadPcs, CreatePcs,
      ActivatePcs, MarkPcs, ActivateLocks, ActivateTx, Activating, Switching
<1>22. ASSUME DatabaseError(u) PROVE ActivateLocks(u)'
  BY <1>22, <1>0, <1>0b, AbandonedTx DEF DatabaseError, rows, TypeOK, UploadShape, UploadPcs,
      CreatePcs, ActivatePcs, MarkPcs, ActivateLocks, ActivateTx, Activating, Switching
<1>23. ASSUME DeadlockFailsActivation(u) PROVE ActivateLocks(u)'
  BY <1>23, <1>0, <1>0a, RaiseEffects DEF DeadlockFailsActivation, Deadlocked, Goto, rows, locals,
      control, ActivateRaises, TypeOK, UploadShape, UploadPcs, CreatePcs, ActivatePcs, MarkPcs,
      ActivateLocks, ActivateTx, Activating, Switching
<1>24. ASSUME NEW phase \in {"create", "activate", "mark"}, CommitLost(u, phase) PROVE ActivateLocks(u)'
  BY <1>24, <1>0, <1>0a DEF CommitLost, EndTx, rows, locals, control, ReleaseAll, TypeOK,
      UploadShape, UploadPcs, CreatePcs, ActivatePcs, MarkPcs, ActivateLocks, ActivateTx,
      Activating, Switching
<1>25. QED  BY <1>1, <1>2, <1>3, <1>4, <1>5, <1>6, <1>7, <1>8, <1>9, <1>10, <1>11, <1>12, <1>13,
    <1>14, <1>15, <1>16, <1>17, <1>18, <1>19, <1>20, <1>21, <1>22, <1>23, <1>24 DEF UploadStep,
    Create, Activate, Mark, Commit

LEMMA OwnMarkLocks ==
  ASSUME TypeOK, NEW u \in Uploads, UploadShape(u), UploadShape(u)', MarkLocks(u), UploadStep(u)
  PROVE  MarkLocks(u)'
<1>0. TypeOK /\ UploadShape(u) /\ UploadShape(u)' /\ MarkLocks(u)
  OBVIOUS
<1>0a. /\ u \in Actors /\ <<u, "create">> \in Transactions /\ <<u, "activate">> \in Transactions
       /\ <<u, "mark">> \in Transactions
       /\ <<u, "create">> # <<u, "activate">> /\ <<u, "create">> # <<u, "mark">>
       /\ <<u, "activate">> # <<u, "mark">>
  BY TxNames
<1>0b. "mark" \in {"create", "activate", "mark"}
  OBVIOUS
<1>1. ASSUME Refuse(u) PROVE MarkLocks(u)'
  BY <1>1, <1>0, <1>0a DEF Refuse, Finish, Goto, rows, TypeOK, UploadShape, UploadPcs, CreatePcs,
      ActivatePcs, MarkPcs, MarkLocks, MarkTx
<1>2. ASSUME NEW key \in SourceKeys, Upload(u, key) PROVE MarkLocks(u)'
  BY <1>2, <1>0, <1>0a DEF Upload, OpenTx, Goto, control, TypeOK, UploadShape, UploadPcs, CreatePcs,
      ActivatePcs, MarkPcs, MarkLocks, MarkTx
<1>3. ASSUME CreateLock(u) PROVE MarkLocks(u)'
  BY <1>3, <1>0, <1>0a DEF CreateLock, LockKnowledgeBase, Lock, Unlocked, Goto, rows, TypeOK,
      UploadShape, UploadPcs, CreatePcs, ActivatePcs, MarkPcs, MarkLocks, MarkTx
<1>4. ASSUME CreateInsert(u) PROVE MarkLocks(u)'
  BY <1>4, <1>0, <1>0a DEF CreateInsert, Unlocked, SendCommit, Goto, rows, TypeOK, UploadShape,
      UploadPcs, CreatePcs, ActivatePcs, MarkPcs, MarkLocks, MarkTx
<1>5. ASSUME CreateRefused(u) PROVE MarkLocks(u)'
  BY <1>5, <1>0, <1>0a DEF CreateRefused, EndTx, Finish, Goto, rows, ReleaseAll, TypeOK,
      UploadShape, UploadPcs, CreatePcs, ActivatePcs, MarkPcs, MarkLocks, MarkTx
<1>6. ASSUME CreateReturns(u) PROVE MarkLocks(u)'
  BY <1>6, <1>0, <1>0a DEF CreateReturns, Goto, rows, locals, control, TypeOK, UploadShape,
      UploadPcs, CreatePcs, ActivatePcs, MarkPcs, MarkLocks, MarkTx
<1>7. ASSUME EmbedSucceeds(u) PROVE MarkLocks(u)'
  BY <1>7, <1>0, <1>0a DEF EmbedSucceeds, OpenTx, Goto, rows, locals, control, TypeOK, UploadShape,
      UploadPcs, CreatePcs, ActivatePcs, MarkPcs, MarkLocks, MarkTx
<1>8. ASSUME EmbedFails(u) PROVE MarkLocks(u)'
  BY <1>8, <1>0, <1>0a DEF EmbedFails, StartMark, Goto, rows, locals, control, TypeOK, UploadShape,
      UploadPcs, CreatePcs, ActivatePcs, MarkPcs, MarkLocks, MarkTx
<1>9. ASSUME ActivateLock(u) PROVE MarkLocks(u)'
  BY <1>9, <1>0, <1>0a, RowNames DEF ActivateLock, Lock, Unlocked, Goto, rows, TypeOK, UploadShape,
      UploadPcs, CreatePcs, ActivatePcs, MarkPcs, MarkLocks, MarkTx
<1>10. ASSUME ActivateConflict(u) PROVE MarkLocks(u)'
  BY <1>10, <1>0, <1>0a, RaiseEffects DEF ActivateConflict, Unlocked, Goto, rows, locals, control,
      Deadlocked, ActivateRaises, TypeOK, UploadShape, UploadPcs, CreatePcs, ActivatePcs, MarkPcs,
      MarkLocks, MarkTx
<1>11. ASSUME ActivateSupersede(u) PROVE MarkLocks(u)'
  BY <1>11, <1>0, <1>0a, RowNames DEF ActivateSupersede, Lock, Unlocked, Goto, rows, TypeOK,
      UploadShape, UploadPcs, CreatePcs, ActivatePcs, MarkPcs, MarkLocks, MarkTx
<1>12. ASSUME ActivateWrite(u) PROVE MarkLocks(u)'
  BY <1>12, <1>0, <1>0a DEF ActivateWrite, SendCommit, Goto, rows, locals, control, TypeOK,
      UploadShape, UploadPcs, CreatePcs, ActivatePcs, MarkPcs, MarkLocks, MarkTx
<1>13. ASSUME ActivateDuplicate(u) PROVE MarkLocks(u)'
  BY <1>13, <1>0, <1>0a, RaiseEffects DEF ActivateDuplicate, Goto, rows, locals, control,
      Deadlocked, ActivateRaises, TypeOK, UploadShape, UploadPcs, CreatePcs, ActivatePcs, MarkPcs,
      MarkLocks, MarkTx
<1>14. ASSUME ActivateReturns(u) PROVE MarkLocks(u)'
  BY <1>14, <1>0, <1>0a DEF ActivateReturns, Finish, Goto, rows, TypeOK, UploadShape, UploadPcs,
      CreatePcs, ActivatePcs, MarkPcs, MarkLocks, MarkTx
<1>15. ASSUME MarkLock(u) PROVE MarkLocks(u)'
  BY <1>15, <1>0, <1>0a, RowNames DEF MarkLock, Lock, Unlocked, SendCommit, Goto, rows, locals,
      control, TypeOK, UploadShape, UploadPcs, CreatePcs, ActivatePcs, MarkPcs, MarkLocks, MarkTx
<1>16. ASSUME MarkConflict(u) PROVE MarkLocks(u)'
  BY <1>16, <1>0, <1>0a DEF MarkConflict, Unlocked, EndTx, Finish, Goto, rows, ReleaseAll, TypeOK,
      UploadShape, UploadPcs, CreatePcs, ActivatePcs, MarkPcs, MarkLocks, MarkTx
<1>17. ASSUME MarkReturns(u) PROVE MarkLocks(u)'
  BY <1>17, <1>0, <1>0a DEF MarkReturns, Finish, Goto, rows, TypeOK, UploadShape, UploadPcs,
      CreatePcs, ActivatePcs, MarkPcs, MarkLocks, MarkTx
<1>18. ASSUME CommitCreate(u) PROVE MarkLocks(u)'
  BY <1>18, <1>0, <1>0a DEF CommitCreate, EndTx, locals, control, ReleaseAll, TypeOK, UploadShape,
      UploadPcs, CreatePcs, ActivatePcs, MarkPcs, MarkLocks, MarkTx
<1>19. ASSUME CommitActivate(u) PROVE MarkLocks(u)'
  BY <1>19, <1>0, <1>0a DEF CommitActivate, EndTx, locals, control, ReleaseAll, TypeOK, UploadShape,
      UploadPcs, CreatePcs, ActivatePcs, MarkPcs, MarkLocks, MarkTx
<1>20. ASSUME CommitMark(u) PROVE MarkLocks(u)'
  BY <1>20, <1>0, <1>0a DEF CommitMark, EndTx, locals, control, ReleaseAll, TypeOK, UploadShape,
      UploadPcs, CreatePcs, ActivatePcs, MarkPcs, MarkLocks, MarkTx
<1>21. ASSUME Cancel(u) PROVE MarkLocks(u)'
  BY <1>21, <1>0, <1>0b, AbandonedTx DEF Cancel, rows, Marked, TypeOK, UploadShape, UploadPcs,
      CreatePcs, ActivatePcs, MarkPcs, MarkLocks, MarkTx
<1>22. ASSUME DatabaseError(u) PROVE MarkLocks(u)'
  BY <1>22, <1>0, <1>0b, AbandonedTx DEF DatabaseError, rows, Marked, TypeOK, UploadShape,
      UploadPcs, CreatePcs, ActivatePcs, MarkPcs, MarkLocks, MarkTx
<1>23. ASSUME DeadlockFailsActivation(u) PROVE MarkLocks(u)'
  BY <1>23, <1>0, <1>0a, RaiseEffects DEF DeadlockFailsActivation, Deadlocked, Goto, rows, locals,
      control, ActivateRaises, TypeOK, UploadShape, UploadPcs, CreatePcs, ActivatePcs, MarkPcs,
      MarkLocks, MarkTx
<1>24. ASSUME NEW phase \in {"create", "activate", "mark"}, CommitLost(u, phase) PROVE MarkLocks(u)'
  BY <1>24, <1>0, <1>0a DEF CommitLost, EndTx, rows, locals, control, ReleaseAll, TypeOK,
      UploadShape, UploadPcs, CreatePcs, ActivatePcs, MarkPcs, MarkLocks, MarkTx
<1>25. QED  BY <1>1, <1>2, <1>3, <1>4, <1>5, <1>6, <1>7, <1>8, <1>9, <1>10, <1>11, <1>12, <1>13,
    <1>14, <1>15, <1>16, <1>17, <1>18, <1>19, <1>20, <1>21, <1>22, <1>23, <1>24 DEF UploadStep,
    Create, Activate, Mark, Commit

\* What a step does to the locks: it gives some up, or it takes one row that
\* nobody holds (and, of a document, nobody shares), or it shares a document
\* that nobody holds.
Shrinks == \A t \in Transactions : holds'[t] \subseteq holds[t] /\ shares'[t] \subseteq shares[t]

LockEffect ==
  \/ Shrinks
  \/ \E t \in Transactions : \E row :
       /\ Lock(t, row) /\ UNCHANGED shares
       /\ \A doc : row = Document(doc) => \A s \in Transactions : doc \notin shares[s]
  \/ \E u \in Uploads : CreateInsert(u)

LEMMA VersionLockEffect ==
  ASSUME NEW t \in Transactions, NEW v, Lock(t, Version(v)), UNCHANGED shares
  PROVE  LockEffect
<1>1. \A doc : Version(v) # Document(doc)
  BY RowNames
<1>2. QED  BY <1>1 DEF LockEffect

LEMMA UploadLockEffect ==
  ASSUME TypeOK, NEW u \in Uploads, UploadStep(u)
  PROVE  LockEffect
<1>0. TypeOK /\ u \in Uploads
  OBVIOUS
<1>1. ASSUME Refuse(u) PROVE LockEffect
  BY <1>1, <1>0 DEF Refuse, rows, TypeOK, LockEffect, Shrinks
<1>2. ASSUME NEW key \in SourceKeys, Upload(u, key) PROVE LockEffect
  BY <1>2, <1>0 DEF Upload, TypeOK, LockEffect, Shrinks
<1>3. ASSUME CreateLock(u) PROVE LockEffect
  <2>1. Lock(<<u, "create">>, KnowledgeBase) /\ UNCHANGED shares /\ <<u, "create">> \in Transactions
    BY <1>3, TxNames DEF CreateLock, LockKnowledgeBase
  <2>2. \A doc : KnowledgeBase # Document(doc)
    BY RowNames
  <2>3. QED  BY <2>1, <2>2 DEF LockEffect
<1>4. ASSUME CreateInsert(u) PROVE LockEffect
  BY <1>4, <1>0 DEF LockEffect
<1>5. ASSUME CreateRefused(u) PROVE LockEffect
  BY <1>5, <1>0 DEF CreateRefused, EndTx, ReleaseAll, rows, TypeOK, LockEffect, Shrinks
<1>6. ASSUME CreateReturns(u) PROVE LockEffect
  BY <1>6, <1>0 DEF CreateReturns, rows, TypeOK, LockEffect, Shrinks
<1>7. ASSUME EmbedSucceeds(u) PROVE LockEffect
  BY <1>7, <1>0 DEF EmbedSucceeds, rows, TypeOK, LockEffect, Shrinks
<1>8. ASSUME EmbedFails(u) PROVE LockEffect
  BY <1>8, <1>0 DEF EmbedFails, rows, TypeOK, LockEffect, Shrinks
<1>9. ASSUME ActivateLock(u) PROVE LockEffect
  BY <1>9, TxNames, VersionLockEffect DEF ActivateLock
<1>10. ASSUME ActivateConflict(u) PROVE LockEffect
  BY <1>10, <1>0 DEF ActivateConflict, ActivateRaises, ReleaseAll, rows, TypeOK, LockEffect, Shrinks
<1>11. ASSUME ActivateSupersede(u) PROVE LockEffect
  <2>1. CASE Lock(<<u, "activate">>, Version(replaces[u]))
    BY <1>11, <2>1, TxNames, VersionLockEffect DEF ActivateSupersede
  <2>2. CASE UNCHANGED holds
    BY <1>11, <2>2, <1>0 DEF ActivateSupersede, TypeOK, LockEffect, Shrinks
  <2>3. QED  BY <1>11, <2>1, <2>2 DEF ActivateSupersede
<1>12. ASSUME ActivateWrite(u) PROVE LockEffect
  BY <1>12, <1>0 DEF ActivateWrite, rows, TypeOK, LockEffect, Shrinks
<1>13. ASSUME ActivateDuplicate(u) PROVE LockEffect
  BY <1>13, <1>0 DEF ActivateDuplicate, ActivateRaises, ReleaseAll, rows, TypeOK, LockEffect,
      Shrinks
<1>14. ASSUME ActivateReturns(u) PROVE LockEffect
  BY <1>14, <1>0 DEF ActivateReturns, rows, TypeOK, LockEffect, Shrinks
<1>15. ASSUME MarkLock(u) PROVE LockEffect
  BY <1>15, TxNames, VersionLockEffect DEF MarkLock
<1>16. ASSUME MarkConflict(u) PROVE LockEffect
  BY <1>16, <1>0 DEF MarkConflict, EndTx, ReleaseAll, rows, TypeOK, LockEffect, Shrinks
<1>17. ASSUME MarkReturns(u) PROVE LockEffect
  BY <1>17, <1>0 DEF MarkReturns, rows, TypeOK, LockEffect, Shrinks
<1>18. ASSUME CommitCreate(u) PROVE LockEffect
  BY <1>18, <1>0 DEF CommitCreate, EndTx, ReleaseAll, TypeOK, LockEffect, Shrinks
<1>19. ASSUME CommitActivate(u) PROVE LockEffect
  BY <1>19, <1>0 DEF CommitActivate, EndTx, ReleaseAll, TypeOK, LockEffect, Shrinks
<1>20. ASSUME CommitMark(u) PROVE LockEffect
  BY <1>20, <1>0 DEF CommitMark, EndTx, ReleaseAll, TypeOK, LockEffect, Shrinks
<1>21. ASSUME Cancel(u) PROVE LockEffect
  BY <1>21, <1>0 DEF Cancel, Abandon, ReleaseAll, rows, TypeOK, LockEffect, Shrinks
<1>22. ASSUME DatabaseError(u) PROVE LockEffect
  BY <1>22, <1>0 DEF DatabaseError, Abandon, ReleaseAll, rows, TypeOK, LockEffect, Shrinks
<1>23. ASSUME DeadlockFailsActivation(u) PROVE LockEffect
  BY <1>23, <1>0 DEF DeadlockFailsActivation, ActivateRaises, ReleaseAll, rows, TypeOK, LockEffect,
      Shrinks
<1>24. ASSUME NEW phase \in {"create", "activate", "mark"}, CommitLost(u, phase) PROVE LockEffect
  BY <1>24, <1>0 DEF CommitLost, EndTx, ReleaseAll, rows, TypeOK, LockEffect, Shrinks
<1>25. QED  BY <1>1, <1>2, <1>3, <1>4, <1>5, <1>6, <1>7, <1>8, <1>9, <1>10, <1>11, <1>12, <1>13,
    <1>14, <1>15, <1>16, <1>17, <1>18, <1>19, <1>20, <1>21, <1>22, <1>23, <1>24 DEF UploadStep,
    Create, Activate, Mark, Commit

LEMMA DeletionLockEffect ==
  ASSUME TypeOK, NEW d \in Deletions, DeletionStep(d)
  PROVE  LockEffect
<1>0. TypeOK /\ d \in Deletions
  OBVIOUS
<1>1. ASSUME NEW doc \in Uploads, Delete(d, doc) PROVE LockEffect
  BY <1>1, <1>0 DEF Delete, rows, TypeOK, LockEffect, Shrinks
<1>2. ASSUME DeleteRow(d) PROVE LockEffect
  BY <1>2, TxNames, RowNames DEF DeleteRow, LockEffect
<1>3. ASSUME DeleteNotFound(d) PROVE LockEffect
  BY <1>3, <1>0 DEF DeleteNotFound, EndTx, ReleaseAll, rows, TypeOK, LockEffect, Shrinks
<1>4. ASSUME DeleteCascade(d) PROVE LockEffect
  BY <1>4, TxNames, VersionLockEffect DEF DeleteCascade
<1>5. ASSUME DeleteSendsCommit(d) PROVE LockEffect
  BY <1>5, <1>0 DEF DeleteSendsCommit, rows, TypeOK, LockEffect, Shrinks
<1>6. ASSUME DeleteReturns(d) PROVE LockEffect
  BY <1>6, <1>0 DEF DeleteReturns, rows, TypeOK, LockEffect, Shrinks
<1>7. ASSUME CommitDelete(d) PROVE LockEffect
  BY <1>7, <1>0 DEF CommitDelete, EndTx, ReleaseAll, TypeOK, LockEffect, Shrinks
<1>8. ASSUME DeletionFails(d) PROVE LockEffect
  BY <1>8, <1>0 DEF DeletionFails, DeletionEnds, ReleaseAll, rows, TypeOK, LockEffect, Shrinks
<1>9. ASSUME DeadlockFailsDeletion(d) PROVE LockEffect
  BY <1>9, <1>0 DEF DeadlockFailsDeletion, DeletionEnds, ReleaseAll, rows, TypeOK, LockEffect,
      Shrinks
<1>10. QED  BY <1>1, <1>2, <1>3, <1>4, <1>5, <1>6, <1>7, <1>8, <1>9 DEF DeletionStep, DeleteSteps

LEMMA LocksStayExclusive ==
  ASSUME TypeOK, LocksExclude, LockEffect
  PROVE  LocksExclude'
<1>1. CASE Shrinks
  BY <1>1 DEF Shrinks, LocksExclude
<1>2. ASSUME NEW t \in Transactions, NEW row, Lock(t, row), UNCHANGED shares,
             \A doc : row = Document(doc) => \A s \in Transactions : doc \notin shares[s]
      PROVE  LocksExclude'
  <2>1. /\ \A s \in Transactions : row \notin holds[s]
        /\ \A s \in Transactions : holds'[s] = IF s = t THEN holds[t] \union {row} ELSE holds[s]
    BY <1>2 DEF Lock, Unlocked, TypeOK
  <2>2. ASSUME NEW r \in Transactions, NEW s \in Transactions, holds'[r] \intersect holds'[s] # {}
        PROVE  r = s
    BY <2>1, <2>2 DEF LocksExclude
  <2>3. ASSUME NEW r \in Transactions, NEW s \in Transactions, NEW d \in shares'[s]
        PROVE  Document(d) \notin holds'[r]
    BY <1>2, <2>1, <2>3 DEF LocksExclude
  <2>4. QED  BY <2>2, <2>3 DEF LocksExclude
<1>3. ASSUME NEW u \in Uploads, CreateInsert(u) PROVE LocksExclude'
  <2>1. /\ \A t \in Transactions : Document(found[u]) \notin holds[t]
        /\ holds' = holds
        /\ \A s \in Transactions : shares'[s] \subseteq shares[s] \union {found[u]}
    BY <1>3 DEF CreateInsert, Unlocked, TypeOK
  <2>2. QED  BY <2>1 DEF LocksExclude
<1>4. QED  BY <1>1, <1>2, <1>3 DEF LockEffect

LEMMA EndedDeletionLocks ==
  ASSUME IInv, NEW d \in Deletions, DeletionEnds(d)
  PROVE  DeletionLocks(d)'
<1>1. TypeOK /\ DeletionShape(d) /\ DeletionLocks(d) /\ d \in Actors
  BY DeletionFacts, CatalogFacts, TxNames
<1>2. pc'[d] = "finished" /\ UNCHANGED <<rows, found>>
  BY <1>1 DEF DeletionEnds, Finish, Goto, TypeOK
<1>3. VersionsOf(found[d])' = VersionsOf(found[d])
  BY <1>2 DEF rows, VersionsOf, Existing
<1>4. CASE DeleteTx(d) = "open"
  BY <1>1, <1>2, <1>4, DeletionEndEffects DEF DeletionLocks, Deleting, DeleteTx
<1>5. CASE DeleteTx(d) # "open"
  <2>1. /\ DeleteTx(d)' = DeleteTx(d)
        /\ holds'[<<d, "delete">>] = holds[<<d, "delete">>]
        /\ shares'[<<d, "delete">>] = shares[<<d, "delete">>]
    BY <1>1, <1>5, DeletionEndEffects DEF DeleteTx
  <2>2. Deleting(d)' = Deleting(d)
    BY <1>1, <1>2, <1>5, <2>1 DEF Deleting, DeletionShape
  <2>3. QED  BY <1>1, <1>2, <1>3, <2>1, <2>2 DEF DeletionLocks
<1>6. QED  BY <1>4, <1>5

LEMMA OwnDeletionLocks ==
  ASSUME IInv, NEW d \in Deletions, DeletionShape(d)', DeletionStep(d)
  PROVE  DeletionLocks(d)'
<1>0. /\ TypeOK /\ DeletionShape(d) /\ DeletionShape(d)' /\ DeletionLocks(d)
      /\ d \in Actors /\ <<d, "delete">> \in Transactions
  BY DeletionFacts, CatalogFacts, TxNames
<1>1. ASSUME NEW doc \in Uploads, Delete(d, doc) PROVE DeletionLocks(d)'
  BY <1>1, <1>0 DEF Delete, OpenTx, Goto, rows, TypeOK, DeletionShape, DeletionLocks, Deleting,
      DeleteTx, VersionsOf, Existing
<1>2. ASSUME DeleteRow(d) PROVE DeletionLocks(d)'
  BY <1>2, <1>0 DEF DeleteRow, Lock, Goto, rows, locals, control, TypeOK, DeletionShape,
      DeletionLocks, Deleting, DeleteTx, VersionsOf, Existing
<1>3. ASSUME DeleteNotFound(d) PROVE DeletionLocks(d)'
  BY <1>3, <1>0 DEF DeleteNotFound, EndTx, ReleaseAll, Finish, Goto, rows, TypeOK, DeletionShape,
      DeletionLocks, Deleting, DeleteTx, VersionsOf, Existing
<1>4. ASSUME DeleteCascade(d) PROVE DeletionLocks(d)'
  BY <1>4, <1>0 DEF DeleteCascade, ToCascade, Lock, rows, locals, control, TypeOK, DeletionShape,
      DeletionLocks, Deleting, DeleteTx, VersionsOf, Existing
<1>5. ASSUME DeleteSendsCommit(d) PROVE DeletionLocks(d)'
  BY <1>5, <1>0 DEF DeleteSendsCommit, ToCascade, SendCommit, Goto, rows, locals, control, TypeOK,
      DeletionShape, DeletionLocks, Deleting, DeleteTx, VersionsOf, Existing
<1>6. ASSUME DeleteReturns(d) PROVE DeletionLocks(d)'
  BY <1>6, <1>0 DEF DeleteReturns, Finish, Goto, rows, TypeOK, DeletionShape, DeletionLocks,
      Deleting, DeleteTx, VersionsOf, Existing
<1>7. ASSUME CommitDelete(d) PROVE DeletionLocks(d)'
  BY <1>7, <1>0, CommitDeleteEffects, TxEffects DEF CommitDelete, DeletionShape, DeletionLocks,
      Deleting, DeleteTx, DeletePcs
<1>8. ASSUME DeletionFails(d) PROVE DeletionLocks(d)'
  BY <1>8, EndedDeletionLocks DEF DeletionFails
<1>9. ASSUME DeadlockFailsDeletion(d) PROVE DeletionLocks(d)'
  BY <1>9, EndedDeletionLocks DEF DeadlockFailsDeletion
<1>10. QED  BY <1>1, <1>2, <1>3, <1>4, <1>5, <1>6, <1>7, <1>8, <1>9 DEF DeletionStep, DeleteSteps

LEMMA OtherUploadLocks ==
  ASSUME NEW u \in Uploads, UploadLocks(u), KeepsUpload(u)
  PROVE  UploadLocks(u)'
BY DEF KeepsUpload, UploadLocks, CreateLocks, ActivateLocks, MarkLocks

LEMMA OtherDeletionLocks ==
  ASSUME IInv, NEW a, ActorStep(a), NEW d \in Deletions, d # a, KeepsDeletion(d)
  PROVE  DeletionLocks(d)'
<1>1. DeletionLocks(d)
  BY DeletionFacts
<1>2. ASSUME NEW v \in VersionsOf(found[d]), Version(v) \in holds[<<d, "delete">>]
      PROVE  v \in VersionsOf(found[d])'
  <2>1. v \in Uploads /\ <<d, "delete">> \in Transactions /\ <<d, "delete">>[1] # a
    BY TxNames DEF VersionsOf
  <2>2. versionStatus'[v] = versionStatus[v] /\ versionDocument'[v] = versionDocument[v]
    BY <1>2, <2>1, LockedVersionsKept
  <2>3. found'[d] = found[d]
    BY DEF KeepsDeletion
  <2>4. QED  BY <2>2, <2>3 DEF VersionsOf, Existing
<1>3. /\ holds'[<<d, "delete">>] = holds[<<d, "delete">>] /\ Deleting(d)' = Deleting(d)
      /\ shares'[<<d, "delete">>] = shares[<<d, "delete">>] /\ found'[d] = found[d]
  BY DEF KeepsDeletion
<1>4. ASSUME NEW row \in holds[<<d, "delete">>]
      PROVE  Deleting(d) /\ row \in ({Document(found[d])} \union {Version(v) : v \in VersionsOf(found[d])})'
  <2>1. /\ Deleting(d)
        /\ row = Document(found[d]) \/ \E v \in VersionsOf(found[d]) : row = Version(v)
    BY <1>1 DEF DeletionLocks
  <2>2. CASE row = Document(found[d])
    BY <2>1, <2>2, <1>3
  <2>3. CASE \E v \in VersionsOf(found[d]) : row = Version(v)
    <3>1. PICK v \in VersionsOf(found[d]) : row = Version(v)
      BY <2>3
    <3>2. v \in VersionsOf(found[d])'
      BY <1>2, <3>1
    <3>3. QED  BY <2>1, <3>1, <3>2
  <2>4. QED  BY <2>1, <2>2, <2>3
<1>5. QED  BY <1>1, <1>3, <1>4 DEF DeletionLocks

LEMMA LocksUnderCrash ==
  ASSUME IInv, Crash
  PROVE  LockInv'
<1>1. ASSUME NEW u \in Uploads PROVE UploadLocks(u)'
  <2>1. UploadShape(u) /\ UploadLocks(u) /\ TypeOK
    BY UploadFacts, CatalogFacts
  <2>2. pc'[u] \in {"idle", "finished"} /\ found' = found /\ replaces' = replaces
    BY <2>1, CrashEffects, TxNames
  <2>3. CreateLocks(u)'
    <3>1. CASE CreateTx(u) = "open"
      BY <2>1, <2>2, <3>1, CrashEffects, TxNames DEF CreateLocks, CreateTx, Creating
    <3>2. CASE CreateTx(u) # "open"
      BY <2>1, <2>2, <3>2, CrashEffects, TxNames DEF UploadLocks, CreateLocks, CreateTx, Creating
    <3>3. QED  BY <3>1, <3>2
  <2>4. ActivateLocks(u)'
    <3>1. CASE ActivateTx(u) = "open"
      <4>1. /\ holds'[<<u, "activate">>] = {} /\ shares'[<<u, "activate">>] = {}
            /\ ActivateTx(u)' = "aborted"
        BY <2>1, <3>1, CrashEffects, TxNames DEF ActivateTx
      <4>2. ~ Activating(u)' /\ ~ Switching(u)'
        BY <2>2, <4>1 DEF Activating, Switching
      <4>3. QED  BY <4>1, <4>2 DEF ActivateLocks
    <3>2. CASE ActivateTx(u) # "open"
      <4>1. /\ holds'[<<u, "activate">>] = holds[<<u, "activate">>]
            /\ shares'[<<u, "activate">>] = shares[<<u, "activate">>]
            /\ ActivateTx(u)' = ActivateTx(u)
        BY <2>1, <3>2, CrashEffects, TxNames DEF ActivateTx
      <4>2. Activating(u)' = Activating(u) /\ Switching(u)' = Switching(u)
        BY <2>1, <2>2, <3>2, <4>1 DEF Activating, Switching, UploadShape
      <4>3. QED  BY <2>1, <2>2, <4>1, <4>2 DEF UploadLocks, ActivateLocks
    <3>3. QED  BY <3>1, <3>2
  <2>5. MarkLocks(u)'
    <3>1. CASE MarkTx(u) = "open"
      BY <2>1, <3>1, CrashEffects, TxNames DEF MarkLocks, MarkTx
    <3>2. CASE MarkTx(u) # "open"
      BY <2>1, <3>2, CrashEffects, TxNames DEF UploadLocks, MarkLocks, MarkTx
    <3>3. QED  BY <3>1, <3>2
  <2>6. QED  BY <2>3, <2>4, <2>5 DEF UploadLocks
<1>2. ASSUME NEW d \in Deletions PROVE DeletionLocks(d)'
  <2>1. DeletionShape(d) /\ DeletionLocks(d) /\ TypeOK
    BY DeletionFacts, CatalogFacts
  <2>2. pc'[d] \in {"idle", "finished"} /\ found' = found /\ UNCHANGED rows
    BY <2>1, CrashEffects, TxNames
  <2>3. VersionsOf(found[d])' = VersionsOf(found[d])
    BY <2>2 DEF rows, VersionsOf, Existing
  <2>4. CASE DeleteTx(d) = "open"
    BY <2>1, <2>2, <2>4, CrashEffects, TxNames DEF DeletionLocks, Deleting, DeleteTx
  <2>5. CASE DeleteTx(d) # "open"
    <3>1. /\ DeleteTx(d)' = DeleteTx(d)
          /\ holds'[<<d, "delete">>] = holds[<<d, "delete">>]
          /\ shares'[<<d, "delete">>] = shares[<<d, "delete">>]
      BY <2>1, <2>5, CrashEffects, TxNames DEF DeleteTx
    <3>2. Deleting(d)' = Deleting(d)
      BY <2>1, <2>2, <2>5, <3>1 DEF Deleting, DeletionShape
    <3>3. QED  BY <2>1, <2>2, <2>3, <3>1, <3>2 DEF DeletionLocks
  <2>6. QED  BY <2>4, <2>5
<1>3. LocksExclude'
  <2>1. \A t \in Transactions : holds'[t] \subseteq holds[t] /\ shares'[t] \subseteq shares[t]
    BY CrashEffects, CatalogFacts
  <2>2. LocksExclude
    BY CatalogFacts
  <2>3. QED  BY <2>1, <2>2 DEF LocksExclude
<1>4. QED  BY <1>1, <1>2, <1>3 DEF LockInv

LEMMA LocksStep ==
  ASSUME IInv, ShapeInv', [Next]_vars
  PROVE  LockInv'
<1>1. ASSUME NEW a, ActorStep(a) PROVE LockInv'
  <2>1. FrameOf(a) /\ TypeOK /\ LocksExclude
    BY <1>1, ActorFrame, CatalogFacts
  <2>2. ASSUME NEW u \in Uploads PROVE UploadLocks(u)'
    <3>1. UploadShape(u) /\ UploadLocks(u) /\ UploadShape(u)'
      BY UploadFacts DEF ShapeInv
    <3>2. CASE u = a
      <4>1. UploadStep(u)
        BY <1>1, <3>2, TxNames DEF ActorStep
      <4>2. QED
        BY <2>1, <3>1, <4>1, OwnCreateLocks, OwnActivateLocks, OwnMarkLocks DEF UploadLocks
    <3>3. CASE u # a
      BY <2>1, <3>1, <3>3, OtherUpload, OtherUploadLocks
    <3>4. QED  BY <3>2, <3>3
  <2>3. ASSUME NEW d \in Deletions PROVE DeletionLocks(d)'
    <3>1. DeletionShape(d)'
      BY DEF ShapeInv
    <3>2. CASE d = a
      BY <1>1, <3>1, <3>2, OwnDeletionLocks, TxNames DEF ActorStep
    <3>3. CASE d # a
      BY <1>1, <2>1, <3>3, OtherDeletion, OtherDeletionLocks
    <3>4. QED  BY <3>2, <3>3
  <2>4. LocksExclude'
    BY <1>1, <2>1, UploadLockEffect, DeletionLockEffect, LocksStayExclusive DEF ActorStep
  <2>5. QED  BY <2>2, <2>3, <2>4 DEF LockInv
<1>2. CASE UNCHANGED vars
  <2>1. LockInv
    BY DEF IInv
  <2>2. UNCHANGED <<rows, tx, holds, shares, pc, found, replaces>>
    BY <1>2 DEF vars, locals, control
  <2>3. ASSUME NEW u \in Uploads PROVE UploadLocks(u)'
    BY <2>1, <2>2 DEF LockInv, UploadLocks, CreateLocks, ActivateLocks, MarkLocks, Creating,
       Switching, Activating, CreateTx, ActivateTx, MarkTx
  <2>4. ASSUME NEW d \in Deletions PROVE DeletionLocks(d)'
    <3>1. VersionsOf(found[d])' = VersionsOf(found[d])
      BY <2>2 DEF rows, VersionsOf, Existing
    <3>2. DeletionLocks(d)
      BY <2>1 DEF LockInv
    <3>3. QED  BY <2>2, <3>1, <3>2 DEF DeletionLocks, Deleting, DeleteTx
  <2>5. LocksExclude'
    BY <2>1, <2>2 DEF LockInv, LocksExclude
  <2>6. QED  BY <2>3, <2>4, <2>5 DEF LockInv
<1>3. QED  BY <1>1, <1>2, LocksUnderCrash, StepCases

-----------------------------------------------------------------------------
(* What the coroutine of an upload does to its own transactions            *)

\* Short of a COMMIT taking effect, each thing an upload has got was given to
\* it by one action.
Progress(u) ==
  /\ CreateTx(u)' = "committed" <=> CreateTx(u) = "committed"
  /\ ActivateTx(u)' = "committed" <=> ActivateTx(u) = "committed"
  /\ MarkTx(u)' = "committed" <=> MarkTx(u) = "committed"
  /\ MarkTx(u) \in {"committing", "committed"} /\ ActivateTx(u) \in {"none", "aborted"}
       => ActivateTx(u)' \in {"none", "aborted"}
  /\ CreateTx(u)' = "committing" => CreateTx(u) = "committing" \/ CreateInsert(u)
  /\ Creating(u)' => Creating(u) \/ CreateLock(u)
  /\ Activating(u)' => Activating(u) \/ ActivateLock(u)
  /\ Switching(u)' => Switching(u) \/ ActivateSupersede(u)
  /\ ActivateTx(u)' = "committing" => ActivateTx(u) = "committing" \/ ActivateWrite(u)
  /\ MarkTx(u)' = "committing" => MarkTx(u) = "committing" \/ MarkLock(u)
  /\ Creating(u) => found'[u] = found[u]
  /\ Activating(u) => replaces'[u] = replaces[u] \/ ActivateSupersede(u)
  /\ CreateTx(u) = "committing" => number'[u] = number[u]
  /\ Creating(u) => sourceKey'[u] = sourceKey[u]

LEMMA UploadProgress ==
  ASSUME TypeOK, NEW u \in Uploads, UploadShape(u), UploadShape(u)', UploadStep(u)
  PROVE  Progress(u) \/ CommitCreate(u) \/ CommitActivate(u) \/ CommitMark(u)
<1>0. TypeOK /\ UploadShape(u) /\ UploadShape(u)'
  OBVIOUS
<1>0a. /\ u \in Actors /\ <<u, "create">> \in Transactions /\ <<u, "activate">> \in Transactions
       /\ <<u, "mark">> \in Transactions
       /\ <<u, "create">> # <<u, "activate">> /\ <<u, "create">> # <<u, "mark">>
       /\ <<u, "activate">> # <<u, "mark">>
  BY TxNames
<1>1. ASSUME Refuse(u) PROVE Progress(u)
  BY <1>1, <1>0, <1>0a DEF Refuse, Finish, Goto, rows, TypeOK, UploadShape, UploadPcs, CreatePcs,
      ActivatePcs, MarkPcs, Progress, Creating, Activating, Switching, CreateTx, ActivateTx, MarkTx
<1>2. ASSUME NEW key \in SourceKeys, Upload(u, key) PROVE Progress(u)
  BY <1>2, <1>0, <1>0a DEF Upload, OpenTx, Goto, control, TypeOK, UploadShape, UploadPcs, CreatePcs,
      ActivatePcs, MarkPcs, Progress, Creating, Activating, Switching, CreateTx, ActivateTx, MarkTx
<1>3. ASSUME CreateLock(u) PROVE Progress(u)
  BY <1>3, <1>0, <1>0a DEF CreateLock, Goto, rows, TypeOK, UploadShape, UploadPcs, CreatePcs,
      ActivatePcs, MarkPcs, Progress, Creating, Activating, Switching, CreateTx, ActivateTx, MarkTx
<1>4. ASSUME CreateInsert(u) PROVE Progress(u)
  BY <1>4, <1>0, <1>0a DEF CreateInsert, SendCommit, Goto, rows, TypeOK, UploadShape, UploadPcs,
      CreatePcs, ActivatePcs, MarkPcs, Progress, Creating, Activating, Switching, CreateTx,
      ActivateTx, MarkTx
<1>5. ASSUME CreateRefused(u) PROVE Progress(u)
  BY <1>5, <1>0, <1>0a DEF CreateRefused, EndTx, Finish, Goto, rows, TypeOK, UploadShape, UploadPcs,
      CreatePcs, ActivatePcs, MarkPcs, Progress, Creating, Activating, Switching, CreateTx,
      ActivateTx, MarkTx
<1>6. ASSUME CreateReturns(u) PROVE Progress(u)
  BY <1>6, <1>0, <1>0a DEF CreateReturns, Goto, rows, locals, control, TypeOK, UploadShape,
      UploadPcs, CreatePcs, ActivatePcs, MarkPcs, Progress, Creating, Activating, Switching,
      CreateTx, ActivateTx, MarkTx
<1>7. ASSUME EmbedSucceeds(u) PROVE Progress(u)
  BY <1>7, <1>0, <1>0a DEF EmbedSucceeds, OpenTx, Goto, rows, locals, control, TypeOK, UploadShape,
      UploadPcs, CreatePcs, ActivatePcs, MarkPcs, Progress, Creating, Activating, Switching,
      CreateTx, ActivateTx, MarkTx
<1>8. ASSUME EmbedFails(u) PROVE Progress(u)
  BY <1>8, <1>0, <1>0a DEF EmbedFails, StartMark, Goto, rows, locals, control, TypeOK, UploadShape,
      UploadPcs, CreatePcs, ActivatePcs, MarkPcs, Progress, Creating, Activating, Switching,
      CreateTx, ActivateTx, MarkTx
<1>9. ASSUME ActivateLock(u) PROVE Progress(u)
  BY <1>9, <1>0, <1>0a DEF ActivateLock, Goto, rows, TypeOK, UploadShape, UploadPcs, CreatePcs,
      ActivatePcs, MarkPcs, Progress, Creating, Activating, Switching, CreateTx, ActivateTx, MarkTx
<1>10. ASSUME ActivateConflict(u) PROVE Progress(u)
  BY <1>10, <1>0, <1>0a, RaiseEffects DEF ActivateConflict, ActivateRaises, Goto, rows, locals,
      control, Deadlocked, TypeOK, UploadShape, UploadPcs, CreatePcs, ActivatePcs, MarkPcs,
      Progress, Creating, Activating, Switching, CreateTx, ActivateTx, MarkTx
<1>11. ASSUME ActivateSupersede(u) PROVE Progress(u)
  BY <1>11, <1>0, <1>0a DEF ActivateSupersede, Goto, rows, TypeOK, UploadShape, UploadPcs,
      CreatePcs, ActivatePcs, MarkPcs, Progress, Creating, Activating, Switching, CreateTx,
      ActivateTx, MarkTx
<1>12. ASSUME ActivateWrite(u) PROVE Progress(u)
  BY <1>12, <1>0, <1>0a DEF ActivateWrite, SendCommit, Goto, rows, locals, control, TypeOK,
      UploadShape, UploadPcs, CreatePcs, ActivatePcs, MarkPcs, Progress, Creating, Activating,
      Switching, CreateTx, ActivateTx, MarkTx
<1>13. ASSUME ActivateDuplicate(u) PROVE Progress(u)
  BY <1>13, <1>0, <1>0a, RaiseEffects DEF ActivateDuplicate, ActivateRaises, Goto, rows, locals,
      control, Deadlocked, TypeOK, UploadShape, UploadPcs, CreatePcs, ActivatePcs, MarkPcs,
      Progress, Creating, Activating, Switching, CreateTx, ActivateTx, MarkTx
<1>14. ASSUME ActivateReturns(u) PROVE Progress(u)
  BY <1>14, <1>0, <1>0a DEF ActivateReturns, Finish, Goto, rows, TypeOK, UploadShape, UploadPcs,
      CreatePcs, ActivatePcs, MarkPcs, Progress, Creating, Activating, Switching, CreateTx,
      ActivateTx, MarkTx
<1>15. ASSUME MarkLock(u) PROVE Progress(u)
  BY <1>15, <1>0, <1>0a DEF MarkLock, SendCommit, Goto, rows, locals, control, TypeOK, UploadShape,
      UploadPcs, CreatePcs, ActivatePcs, MarkPcs, Progress, Creating, Activating, Switching,
      CreateTx, ActivateTx, MarkTx
<1>16. ASSUME MarkConflict(u) PROVE Progress(u)
  BY <1>16, <1>0, <1>0a DEF MarkConflict, EndTx, Finish, Goto, rows, TypeOK, UploadShape, UploadPcs,
      CreatePcs, ActivatePcs, MarkPcs, Progress, Creating, Activating, Switching, CreateTx,
      ActivateTx, MarkTx
<1>17. ASSUME MarkReturns(u) PROVE Progress(u)
  BY <1>17, <1>0, <1>0a DEF MarkReturns, Finish, Goto, rows, TypeOK, UploadShape, UploadPcs,
      CreatePcs, ActivatePcs, MarkPcs, Progress, Creating, Activating, Switching, CreateTx,
      ActivateTx, MarkTx
<1>18. ASSUME Cancel(u) PROVE Progress(u)
  <2>1. Abandon(u)
    BY <1>18 DEF Cancel
  <2>2. /\ CreateTx(u)' = IF CreateTx(u) = "open" THEN "aborted" ELSE CreateTx(u)
        /\ ActivateTx(u)' = IF ActivateTx(u) = "open" THEN "aborted" ELSE ActivateTx(u)
        /\ MarkTx(u)' = IF MarkTx(u) = "open" THEN "aborted"
                        ELSE IF Marked(u) THEN "open" ELSE MarkTx(u)
    BY <1>0, <2>1, AbandonedTx
  <2>3. pc'[u] = IF Marked(u) THEN "mark_lock" ELSE "finished"
    BY <1>18, <1>0, <1>0a DEF Cancel, Unwind, Goto, Finish, TypeOK
  <2>4. pc[u] \in UploadPcs /\ UNCHANGED <<rows, found, number, replaces>>
    BY <1>18 DEF Cancel
  <2>5. QED
    BY <1>0, <2>2, <2>3, <2>4 DEF rows, Marked, UploadShape, UploadPcs, CreatePcs, ActivatePcs,
        MarkPcs, Progress, Creating, Activating, Switching
<1>19. ASSUME DatabaseError(u) PROVE Progress(u)
  <2>1. Abandon(u)
    BY <1>19 DEF DatabaseError
  <2>2. /\ CreateTx(u)' = IF CreateTx(u) = "open" THEN "aborted" ELSE CreateTx(u)
        /\ ActivateTx(u)' = IF ActivateTx(u) = "open" THEN "aborted" ELSE ActivateTx(u)
        /\ MarkTx(u)' = IF MarkTx(u) = "open" THEN "aborted"
                        ELSE IF Marked(u) THEN "open" ELSE MarkTx(u)
    BY <1>0, <2>1, AbandonedTx
  <2>3. pc'[u] = IF Marked(u) THEN "mark_lock" ELSE "finished"
    BY <1>19, <1>0, <1>0a DEF DatabaseError, Unwind, Goto, Finish, TypeOK
  <2>4. pc[u] \in UploadPcs /\ UNCHANGED <<rows, found, number, replaces>>
    BY <1>19 DEF DatabaseError
  <2>5. QED
    BY <1>0, <2>2, <2>3, <2>4 DEF rows, Marked, UploadShape, UploadPcs, CreatePcs, ActivatePcs,
        MarkPcs, Progress, Creating, Activating, Switching
<1>20. ASSUME DeadlockFailsActivation(u) PROVE Progress(u)
  BY <1>20, <1>0, <1>0a, RaiseEffects DEF DeadlockFailsActivation, Deadlocked, ActivateRaises, Goto,
      rows, locals, control, TypeOK, UploadShape, UploadPcs, CreatePcs, ActivatePcs, MarkPcs,
      Progress, Creating, Activating, Switching, CreateTx, ActivateTx, MarkTx
<1>21. ASSUME NEW phase \in {"create", "activate", "mark"}, CommitLost(u, phase) PROVE Progress(u)
  BY <1>21, <1>0, <1>0a DEF CommitLost, EndTx, rows, locals, control, TypeOK, UploadShape,
      UploadPcs, CreatePcs, ActivatePcs, MarkPcs, Progress, Creating, Activating, Switching,
      CreateTx, ActivateTx, MarkTx
<1>22. QED  BY <1>1, <1>2, <1>3, <1>4, <1>5, <1>6, <1>7, <1>8, <1>9, <1>10, <1>11, <1>12, <1>13,
    <1>14, <1>15, <1>16, <1>17, <1>18, <1>19, <1>20, <1>21 DEF UploadStep, Create, Activate, Mark,
    Commit

-----------------------------------------------------------------------------
(* What an upload has read stays what it is: its own steps                 *)

LEMMA QuietStatusShape ==
  ASSUME IInv, NEW u \in Uploads, UploadStep(u), UploadShape(u)', Progress(u), UNCHANGED catalog
  PROVE  StatusShape(u)'
<1>1. TypeOK /\ UploadShape(u) /\ UploadLocks(u) /\ StatusShape(u)
  BY UploadFacts, CatalogFacts
<1>2. versionStatus' = versionStatus /\ versionDocument' = versionDocument
  BY DEF catalog
<1>3. Activating(u)' \/ MarkTx(u)' = "committing" => versionStatus[u] = "building"
  BY <1>1 DEF Progress, StatusShape, ActivateLock, MarkLock
<1>4. ASSUME MarkLock(u) PROVE ActivateTx(u)' \in {"none", "aborted"}
  <2>1. pc[u] = "mark_lock" /\ versionStatus[u] = "building"
    BY <1>4 DEF MarkLock
  <2>2. Version(u) \notin holds[<<u, "activate">>]
    BY <1>4, TxNames DEF MarkLock, Lock, Unlocked
  <2>3. ActivateTx(u) # "committing"
    BY <1>1, <2>2 DEF UploadLocks, ActivateLocks, Activating, Switching
  <2>4. ActivateTx(u) \notin {"committed", "open"}
    BY <1>1, <2>1 DEF StatusShape, UploadShape
  <2>5. ActivateTx(u)' = ActivateTx(u) /\ ActivateTx(u) \in TxStates
    BY <1>1, <1>4, TxNames DEF MarkLock, SendCommit, ActivateTx, TypeOK
  <2>6. QED  BY <2>3, <2>4, <2>5 DEF TxStates
<1>5. MarkTx(u)' \in {"committing", "committed"} => ActivateTx(u)' \in {"none", "aborted"}
  BY <1>1, <1>4 DEF Progress, StatusShape
<1>6. QED  BY <1>1, <1>2, <1>3, <1>5 DEF Progress, StatusShape

LEMMA QuietCreateShape ==
  ASSUME IInv, NEW u \in Uploads, UploadStep(u), UploadShape(u)', Progress(u), UNCHANGED catalog
  PROVE  CreateShape(u)'
<1>1. TypeOK /\ NumbersBounded /\ DocumentShape /\ UploadShape(u) /\ StatusShape(u) /\ CreateShape(u)
  BY UploadFacts, CatalogFacts
<1>2. UNCHANGED <<documents, versionDocument, versionNumber, versionStatus>>
  BY DEF catalog
<1>3. ASSUME Creating(u)'
      PROVE  /\ found'[u] \in Uploads
             /\ found'[u] = u => \A d \in documents : sourceKey'[d] # sourceKey'[u]
  <2>1. CASE Creating(u)
    <3>1. pc[u] # "idle"
      BY <1>1, <2>1 DEF Creating, UploadShape
    <3>2. sourceKey' = sourceKey /\ found'[u] = found[u]
      BY <1>1, <2>1, <3>1, UploadFrame DEF Progress
    <3>3. QED  BY <1>1, <2>1, <3>2 DEF CreateShape
  <2>2. CASE CreateLock(u)
    <3>1. found'[u] = FindDocument(u) /\ sourceKey' = sourceKey
      BY <1>1, <2>2, TxNames DEF CreateLock, TypeOK, rows
    <3>2. u \notin documents
      BY <1>1, <2>2 DEF CreateLock, UploadShape, StatusShape, DocumentShape, Existing
    <3>3. ASSUME FindDocument(u) = u, NEW d \in documents PROVE sourceKey[d] # sourceKey[u]
      <4>1. SUFFICES ASSUME sourceKey[d] = sourceKey[u] PROVE FALSE
        OBVIOUS
      <4>2. FindDocument(u) \in documents
        BY <4>1 DEF FindDocument
      <4>3. QED  BY <3>2, <3>3, <4>2
    <3>4. QED  BY <1>1, <3>1, <3>3, FoundDocument
  <2>3. QED  BY <1>3, <2>1, <2>2 DEF Progress
<1>4. ASSUME CreateTx(u)' = "committing"
      PROVE  found'[u] \in documents \union {u} /\ NumberIsNext(u)'
  <2>1. CASE CreateTx(u) = "committing"
    <3>1. found'[u] = found[u] /\ number'[u] = number[u]
      BY <2>1 DEF Progress, Creating
    <3>2. VersionsOf(found[u])' = VersionsOf(found[u])
      BY <1>2, <3>1 DEF VersionsOf, Existing
    <3>3. found[u] \in documents \union {u} /\ NumberIsNext(u)
      BY <1>1, <2>1 DEF CreateShape
    <3>4. QED  BY <1>2, <3>1, <3>2, <3>3 DEF NumberIsNext
  <2>2. CASE CreateInsert(u)
    <3>1. /\ found[u] \in documents \union {u} /\ found' = found
          /\ number'[u] = NextVersion(found[u])
      BY <1>1, <2>2 DEF CreateInsert, TypeOK
    <3>2. VersionsOf(found[u])' = VersionsOf(found[u])
      BY <1>2, <3>1 DEF VersionsOf, Existing
    <3>3. PICK last \in {versionNumber[v] : v \in VersionsOf(found[u])} \union {0} :
            /\ \A v \in VersionsOf(found[u]) : versionNumber[v] <= last
            /\ NextVersion(found[u]) = last + 1
      BY <1>1, NextVersionFollows
    <3>4. QED  BY <1>2, <3>1, <3>2, <3>3 DEF NumberIsNext
  <2>3. QED  BY <1>4, <2>1, <2>2 DEF Progress
<1>5. QED  BY <1>2, <1>3, <1>4 DEF CreateShape

LEMMA QuietActivateShape ==
  ASSUME IInv, NEW u \in Uploads, UploadStep(u), UploadShape(u)', Progress(u), UNCHANGED catalog
  PROVE  ActivateShape(u)'
<1>1. TypeOK /\ UploadShape(u) /\ ActivateShape(u)
  BY UploadFacts, CatalogFacts
<1>2. UNCHANGED <<documents, versionDocument, versionNumber, versionStatus>>
  BY DEF catalog
<1>3. ASSUME Activating(u)', replaces'[u] # Nothing
      PROVE  /\ versionStatus[replaces'[u]] \notin {"absent", "building"}
             /\ versionDocument[replaces'[u]] = versionDocument[u]
  <2>1. CASE ActivateLock(u)
    <3>1. replaces'[u] \in ActiveVersions(versionDocument[u])
      BY <1>1, <1>3, <2>1 DEF ActivateLock, TypeOK
    <3>2. QED  BY <3>1 DEF ActiveVersions, VersionsOf
  <2>2. CASE Activating(u) /\ ActivateSupersede(u)
    <3>1. replaces'[u] = replaces[u]
      BY <1>1, <1>3, <2>2 DEF ActivateSupersede, TypeOK
    <3>2. QED  BY <1>1, <1>3, <2>2, <3>1 DEF ActivateShape
  <2>3. CASE Activating(u) /\ replaces'[u] = replaces[u]
    BY <1>1, <1>3, <2>3 DEF ActivateShape
  <2>4. QED  BY <1>3, <2>1, <2>2, <2>3 DEF Progress
<1>4. ASSUME Switching(u)', replaces'[u] # Nothing
      PROVE  versionStatus[replaces'[u]] = "active"
  <2>1. CASE ActivateSupersede(u)
    BY <1>1, <1>4, <2>1 DEF ActivateSupersede, TypeOK
  <2>2. CASE Switching(u) /\ ~ActivateSupersede(u)
    <3>1. replaces'[u] = replaces[u]
      BY <2>2 DEF Progress, Activating
    <3>2. QED  BY <1>1, <1>4, <2>2, <3>1 DEF ActivateShape
  <2>3. QED  BY <1>4, <2>1, <2>2 DEF Progress
<1>5. ASSUME ActivateTx(u)' = "committing"
      PROVE  ActiveVersions(versionDocument[u]) \subseteq {replaces'[u]}
  <2>1. CASE ActivateTx(u) = "committing"
    <3>1. ~ActivateSupersede(u)
      BY <1>1, <2>1 DEF ActivateSupersede, UploadShape
    <3>2. replaces'[u] = replaces[u]
      BY <2>1, <3>1 DEF Progress, Activating, Switching
    <3>3. QED  BY <1>1, <2>1, <3>2 DEF ActivateShape
  <2>2. CASE ActivateWrite(u)
    BY <2>2 DEF ActivateWrite, DuplicateActive, locals, control
  <2>3. QED  BY <1>5, <2>1, <2>2 DEF Progress
<1>6. \A d : ActiveVersions(d)' = ActiveVersions(d)
  BY <1>2 DEF ActiveVersions, VersionsOf, Existing
<1>7. ActiveVersions(versionDocument[u])' = ActiveVersions(versionDocument[u])
  BY <1>2, <1>6
<1>8. QED  BY <1>2, <1>3, <1>4, <1>5, <1>7 DEF ActivateShape

-----------------------------------------------------------------------------
(* ... the steps of others                                                 *)

\* A document keeps its key.
LEMMA DocumentsKeepTheirKey ==
  ASSUME IInv, NEW a, ActorStep(a), NEW doc \in documents
  PROVE  sourceKey'[doc] = sourceKey[doc]
<1>1. TypeOK /\ FrameOf(a) /\ DocumentShape /\ doc \in Uploads
  BY ActorFrame, CatalogFacts DEF TypeOK
<1>2. CASE doc = a
  <2>1. CreateTx(a) = "committed"
    BY <1>1, <1>2, UploadFacts DEF DocumentShape, Existing, StatusShape
  <2>2. pc[a] # "idle"
    BY <1>1, <1>2, <2>1, UploadFacts DEF UploadShape
  <2>3. QED  BY <1>1, <2>2, ActorFrame
<1>3. CASE doc # a
  BY <1>1, <1>3 DEF FrameOf
<1>4. QED  BY <1>2, <1>3

\* The versions of a document change only when one is created in it, or when
\* it is deleted.
LEMMA VersionsOfKept ==
  ASSUME IInv, NEW a, ActorStep(a), NEW doc,
         a \in Uploads => ~CommitCreate(a),
         a \in Deletions /\ CommitDelete(a) => found[a] # doc
  PROVE  /\ VersionsOf(doc)' = VersionsOf(doc)
         /\ \A v \in Uploads : versionDocument'[v] = versionDocument[v] /\ versionNumber'[v] = versionNumber[v]
<1>1. CASE UNCHANGED catalog
  BY <1>1 DEF catalog, VersionsOf, Existing
<1>2. CASE a \in Uploads /\ (CommitActivate(a) \/ CommitMark(a))
  <2>1. \A v \in Uploads :
          /\ versionStatus[v] \notin {"absent", "deleted"} <=> versionStatus'[v] \notin {"absent", "deleted"}
          /\ versionDocument'[v] = versionDocument[v] /\ versionNumber'[v] = versionNumber[v]
    <3> SUFFICES ASSUME NEW v \in Uploads
                 PROVE  /\ versionStatus[v] \notin {"absent", "deleted"} <=> versionStatus'[v] \notin {"absent", "deleted"}
                        /\ versionDocument'[v] = versionDocument[v] /\ versionNumber'[v] = versionNumber[v]
      OBVIOUS
    <3>1. CASE CommitMark(a)
      BY <1>2, <3>1, CommitMarkEffects
    <3>2. CASE CommitActivate(a)
      <4>1. CASE v = a
        BY <1>2, <3>2, <4>1, CommitActivateEffects
      <4>2. CASE v # a /\ v = replaces[a]
        BY <1>2, <3>2, <4>2, CommitActivateEffects
      <4>3. CASE v # a /\ v # replaces[a]
        BY <1>2, <3>2, <4>3, CommitActivateEffects
      <4>4. QED  BY <4>1, <4>2, <4>3
    <3>3. QED  BY <1>2, <3>1, <3>2
  <2>2. QED  BY <2>1 DEF VersionsOf, Existing
<1>3. CASE a \in Deletions /\ CommitDelete(a)
  <2>1. found[a] # doc
    BY <1>3
  <2>2. UNCHANGED <<versionDocument, versionNumber>>
    BY <1>3, CommitDeleteEffects
  <2>3. \A v \in Uploads : versionDocument[v] = doc => versionStatus'[v] = versionStatus[v]
    BY <1>3, <2>1, CommitDeleteEffects DEF VersionsOf
  <2>4. QED  BY <2>2, <2>3 DEF VersionsOf, Existing
<1>4. QED  BY <1>1, <1>2, <1>3, ActorFrame, CatalogFacts DEF CommitStep

\* Only its own activation makes a version active.
LEMMA NewlyActive ==
  ASSUME IInv, NEW a, ActorStep(a), NEW v \in Uploads,
         versionStatus'[v] = "active", versionStatus[v] # "active"
  PROVE  v = a /\ a \in Uploads /\ CommitActivate(a)
<1>1. CASE UNCHANGED catalog
  BY <1>1 DEF catalog
<1>2. CASE a \in Uploads /\ CommitCreate(a)
  BY <1>2, CommitCreateEffects
<1>3. CASE a \in Uploads /\ CommitActivate(a)
  BY <1>3, CommitActivateEffects
<1>4. CASE a \in Uploads /\ CommitMark(a)
  BY <1>4, CommitMarkEffects
<1>5. CASE a \in Deletions /\ CommitDelete(a)
  BY <1>5, CommitDeleteEffects
<1>6. QED  BY <1>1, <1>2, <1>3, <1>4, <1>5, ActorFrame, CatalogFacts DEF CommitStep

\* What others do to a version: supersede it while it is active, or delete it.
LEMMA OthersEffect ==
  ASSUME IInv, NEW a, ActorStep(a), NEW v \in Uploads, v # a
  PROVE  /\ \/ versionStatus'[v] = versionStatus[v]
            \/ versionStatus[v] = "active" /\ versionStatus'[v] = "superseded"
            \/ versionStatus[v] # "absent" /\ versionStatus'[v] = "deleted"
         /\ versionDocument'[v] = versionDocument[v] /\ versionNumber'[v] = versionNumber[v]
<1>1. CASE UNCHANGED catalog
  BY <1>1 DEF catalog
<1>2. CASE a \in Uploads /\ CommitCreate(a)
  BY <1>2, CommitCreateEffects
<1>3. CASE a \in Uploads /\ CommitActivate(a)
  <2>1. CASE v = replaces[a]
    BY <1>3, <2>1, CommitActivateEffects
  <2>2. CASE v # replaces[a]
    BY <1>3, <2>2, CommitActivateEffects
  <2>3. QED  BY <2>1, <2>2
<1>4. CASE a \in Uploads /\ CommitMark(a)
  BY <1>4, CommitMarkEffects
<1>5. CASE a \in Deletions /\ CommitDelete(a)
  BY <1>5, CommitDeleteEffects DEF VersionsOf, Existing
<1>6. QED  BY <1>1, <1>2, <1>3, <1>4, <1>5, ActorFrame, CatalogFacts DEF CommitStep

LEMMA OtherStatusShape ==
  ASSUME IInv, NEW a, ActorStep(a), NEW u \in Uploads, u # a, KeepsUpload(u)
  PROVE  StatusShape(u)'
<1>1. StatusShape(u) /\ UploadLocks(u)
  BY UploadFacts
<1>2. /\ \/ versionStatus'[u] = versionStatus[u]
         \/ versionStatus[u] = "active" /\ versionStatus'[u] = "superseded"
         \/ versionStatus[u] # "absent" /\ versionStatus'[u] = "deleted"
      /\ versionDocument'[u] = versionDocument[u]
  BY OthersEffect
<1>3. Activating(u) \/ MarkTx(u) = "committing" => versionStatus'[u] = versionStatus[u]
  <2>1. /\ <<u, "activate">> \in Transactions /\ <<u, "activate">>[1] # a
        /\ <<u, "mark">> \in Transactions /\ <<u, "mark">>[1] # a
    BY TxNames
  <2>2. Activating(u) => Version(u) \in holds[<<u, "activate">>]
    BY <1>1 DEF UploadLocks, ActivateLocks
  <2>3. MarkTx(u) = "committing" => Version(u) \in holds[<<u, "mark">>]
    BY <1>1 DEF UploadLocks, MarkLocks
  <2>4. QED  BY <2>1, <2>2, <2>3, LockedVersionsKept
<1>4. QED  BY <1>1, <1>2, <1>3 DEF KeepsUpload, StatusShape

LEMMA OtherCreateShape ==
  ASSUME IInv, NEW a, ActorStep(a), NEW u \in Uploads, u # a, KeepsUpload(u)
  PROVE  CreateShape(u)'
<1>1. CreateShape(u) /\ UploadLocks(u) /\ TypeOK /\ LocksExclude
  BY UploadFacts, CatalogFacts
<1>2. <<u, "create">> \in Transactions /\ <<u, "create">>[1] # a
  BY TxNames
<1>3. ASSUME Creating(u), a \in Uploads, CommitCreate(a) PROVE FALSE
  <2>1. KnowledgeBase \in holds[<<u, "create">>]
    BY <1>1, <1>3 DEF UploadLocks, CreateLocks
  <2>2. KnowledgeBase \in holds[<<a, "create">>]
    BY <1>3, UploadFacts DEF UploadLocks, CreateLocks, Creating, CreateTx, CommitCreate
  <2>3. <<a, "create">> \in Transactions /\ <<a, "create">> # <<u, "create">>
    BY <1>3, TxNames
  <2>4. QED  BY <1>1, <1>2, <2>1, <2>2, <2>3 DEF LocksExclude
<1>4. ASSUME Creating(u) PROVE documents' \subseteq documents
  <2>1. CASE UNCHANGED catalog
    BY <2>1 DEF catalog
  <2>2. CASE CommitStep(a)
    BY <1>3, <1>4, <2>2, CommitActivateEffects, CommitMarkEffects, CommitDeleteEffects DEF
        CommitStep
  <2>3. QED  BY <2>1, <2>2, ActorFrame, CatalogFacts
<1>5. ASSUME Creating(u)
      PROVE  /\ found'[u] \in Uploads
             /\ found'[u] = u => \A d \in documents' : sourceKey'[d] # sourceKey'[u]
  BY <1>1, <1>4, <1>5, DocumentsKeepTheirKey DEF KeepsUpload, CreateShape
<1>6. ASSUME CreateTx(u) = "committing"
      PROVE  found'[u] \in documents' \union {u} /\ NumberIsNext(u)'
  <2>1. found'[u] = found[u] /\ number'[u] = number[u] /\ Creating(u)
    BY <1>6 DEF KeepsUpload, Creating
  <2>2. found[u] \in shares[<<u, "create">>]
    BY <1>1, <1>6 DEF UploadLocks, CreateLocks
  <2>3. found[u] \in documents \union {u} /\ NumberIsNext(u)
    BY <1>1, <1>6 DEF CreateShape
  <2>4. found[u] \in documents' \union {u}
    BY <1>2, <2>2, <2>3, LockedDocumentsKept
  <2>5. ASSUME a \in Deletions, CommitDelete(a) PROVE found[a] # found[u]
    BY <1>1, <1>2, <2>2, <2>5, CommitDeleteEffects, TxNames DEF LocksExclude
  <2>6. /\ VersionsOf(found[u])' = VersionsOf(found[u])
        /\ \A v \in Uploads : versionNumber'[v] = versionNumber[v]
    <3>1. /\ VersionsOf(found[u]) \subseteq Uploads
          /\ a \in Uploads => ~CommitCreate(a)
          /\ a \in Deletions /\ CommitDelete(a) => found[a] # found[u]
      BY <1>3, <2>1, <2>5 DEF VersionsOf
    <3>2. \A d : d = found[u] => VersionsOf(d)' = VersionsOf(d)
      BY <3>1, VersionsOfKept
    <3>3. QED  BY <2>1, <3>1, <3>2, VersionsOfKept DEF VersionsOf
  <2>7. VersionsOf(found[u]) \subseteq Uploads
    BY DEF VersionsOf
  <2>8. QED  BY <2>1, <2>3, <2>4, <2>6, <2>7 DEF NumberIsNext
<1>7. QED  BY <1>5, <1>6 DEF KeepsUpload, CreateShape

LEMMA OtherActivateShape ==
  ASSUME IInv, NEW a, ActorStep(a), NEW u \in Uploads, u # a, KeepsUpload(u)
  PROVE  ActivateShape(u)'
<1>1. /\ TypeOK /\ OneActiveVersion
      /\ UploadShape(u) /\ StatusShape(u) /\ ActivateShape(u) /\ UploadLocks(u)
  BY UploadFacts, CatalogFacts
<1>2. <<u, "activate">> \in Transactions /\ <<u, "activate">>[1] # a
  BY TxNames
<1>3. replaces'[u] = replaces[u] /\ versionDocument'[u] = versionDocument[u]
  BY OthersEffect DEF KeepsUpload
<1>4. ASSUME Activating(u), replaces[u] # Nothing
      PROVE  /\ versionStatus'[replaces[u]] \notin {"absent", "building"}
             /\ versionDocument'[replaces[u]] = versionDocument[u]
  <2>1. /\ replaces[u] \in Uploads /\ versionStatus[replaces[u]] \notin {"absent", "building"}
        /\ versionDocument[replaces[u]] = versionDocument[u]
    BY <1>1, <1>4 DEF ActivateShape, TypeOK
  <2>2. CASE UNCHANGED catalog
    BY <2>1, <2>2 DEF catalog
  <2>3. CASE CommitStep(a)
    BY <2>1, <2>3, VersionsProgress
  <2>4. QED  BY <2>2, <2>3, ActorFrame, CatalogFacts
<1>5. ASSUME Switching(u), replaces[u] # Nothing
      PROVE  versionStatus'[replaces[u]] = "active"
  <2>1. /\ replaces[u] \in Uploads /\ versionStatus[replaces[u]] = "active"
        /\ Version(replaces[u]) \in holds[<<u, "activate">>]
    BY <1>1, <1>5 DEF ActivateShape, UploadLocks, ActivateLocks, TypeOK
  <2>2. QED  BY <1>2, <2>1, LockedVersionsKept
<1>6. ASSUME ActivateTx(u) = "committing", NEW v \in ActiveVersions(versionDocument[u])'
      PROVE  v = replaces[u]
  <2>1. v \in Uploads /\ versionStatus'[v] = "active" /\ versionDocument'[v] = versionDocument[u]
    BY <1>3 DEF ActiveVersions, VersionsOf
  <2>2. CASE versionStatus[v] = "active"
    <3>1. versionDocument[v] = versionDocument[u]
      <4>1. CASE UNCHANGED catalog
        BY <2>1, <4>1 DEF catalog
      <4>2. CASE CommitStep(a)
        BY <2>1, <2>2, <4>2, VersionsProgress
      <4>3. QED  BY <4>1, <4>2, ActorFrame, CatalogFacts
    <3>2. v \in ActiveVersions(versionDocument[u])
      BY <2>1, <2>2, <3>1 DEF ActiveVersions, VersionsOf, Existing
    <3>3. QED  BY <1>1, <1>6, <3>2 DEF ActivateShape
  <2>3. CASE versionStatus[v] # "active"
    <3>1. v = a /\ a \in Uploads /\ CommitActivate(a)
      BY <2>1, <2>3, NewlyActive
    <3>2. ActivateTx(a) = "committing" /\ versionDocument'[a] = versionDocument[a]
      BY <3>1, CommitActivateEffects
    <3>3. a = u
      BY <1>1, <1>6, <2>1, <3>1, <3>2 DEF OneActiveVersion
    <3>4. QED  BY <3>3
  <2>4. QED  BY <2>2, <2>3
<1>7. QED  BY <1>1, <1>3, <1>4, <1>5, <1>6 DEF KeepsUpload, ActivateShape

LEMMA OtherDeleteShape ==
  ASSUME IInv, NEW a, ActorStep(a), NEW d \in Deletions, d # a, KeepsDeletion(d)
  PROVE  DeleteShape(d)'
<1>1. DeleteShape(d) /\ DeletionLocks(d) /\ TypeOK /\ LocksExclude
  BY DeletionFacts, CatalogFacts
<1>2. <<d, "delete">> \in Transactions /\ <<d, "delete">>[1] # a /\ <<d, "delete">>[1] = d
  BY TxNames
<1>3. /\ pc'[d] = pc[d] /\ found'[d] = found[d] /\ DeleteTx(d)' = DeleteTx(d)
      /\ holds'[<<d, "delete">>] = holds[<<d, "delete">>] /\ Deleting(d)' = Deleting(d)
  BY DEF KeepsDeletion
<1>4. ASSUME Deleting(d) PROVE found[d] \in documents'
  BY <1>1, <1>2, <1>4, LockedDocumentsKept DEF DeleteShape, DeletionLocks
<1>5. ASSUME DeleteTx(d) = "committing", NEW v \in VersionsOf(found[d])'
      PROVE  Version(v) \in holds[<<d, "delete">>]
  <2>1. v \in Uploads /\ versionStatus'[v] \notin {"absent", "deleted"} /\ versionDocument'[v] = found[d]
    BY <1>3 DEF VersionsOf, Existing
  <2>2. CASE v # a
    <3>1. v \in VersionsOf(found[d])
      BY <2>1, <2>2, OthersEffect DEF VersionsOf, Existing
    <3>2. QED  BY <1>1, <1>5, <3>1 DEF DeleteShape
  <2>3. CASE v = a /\ CommitCreate(a)
    <3>1. found[a] = found[d] /\ CreateTx(a) = "committing" /\ a \in Uploads
      BY <2>1, <2>3, CommitCreateEffects
    <3>2. found[d] \in shares[<<a, "create">>] /\ <<a, "create">> \in Transactions
      BY <3>1, UploadFacts, TxNames DEF UploadLocks, CreateLocks
    <3>3. Document(found[d]) \in holds[<<d, "delete">>]
      BY <1>1, <1>5 DEF DeletionLocks, Deleting
    <3>4. QED  BY <1>1, <1>2, <3>2, <3>3 DEF LocksExclude
  <2>4. CASE v = a /\ ~CommitCreate(a)
    <3>1. a \notin Deletions
      BY <2>1, <2>4, TxNames
    <3>2. \A doc : doc = found[d] => VersionsOf(doc)' = VersionsOf(doc)
      BY <2>1, <2>4, <3>1, VersionsOfKept
    <3>3. \A w \in Uploads : versionDocument'[w] = versionDocument[w]
      BY <2>1, <2>4, <3>1, VersionsOfKept
    <3>4. v \in VersionsOf(found[d])
      BY <1>3, <3>2 DEF VersionsOf
    <3>5. QED  BY <1>1, <1>5, <3>4 DEF DeleteShape
  <2>5. QED  BY <2>2, <2>3, <2>4
<1>6. QED  BY <1>1, <1>3, <1>4, <1>5 DEF DeleteShape

LEMMA EndedDeleteShape ==
  ASSUME IInv, NEW d \in Deletions, DeletionEnds(d), pc[d] # "idle"
  PROVE  DeleteShape(d)'
<1>1. TypeOK /\ DeletionShape(d) /\ DeleteShape(d) /\ d \in Actors
  BY DeletionFacts, CatalogFacts, TxNames
<1>2. pc'[d] = "finished" /\ UNCHANGED <<rows, found>>
  BY <1>1 DEF DeletionEnds, Finish, Goto, TypeOK
<1>3. VersionsOf(found[d])' = VersionsOf(found[d]) /\ documents' = documents
  BY <1>2 DEF rows, VersionsOf, Existing
<1>4. CASE DeleteTx(d) = "open"
  BY <1>1, <1>2, <1>4, DeletionEndEffects DEF DeleteShape, Deleting, DeleteTx
<1>5. CASE DeleteTx(d) # "open"
  <2>1. DeleteTx(d)' = DeleteTx(d) /\ holds'[<<d, "delete">>] = holds[<<d, "delete">>]
    BY <1>1, <1>5, DeletionEndEffects DEF DeleteTx
  <2>2. QED  BY <1>1, <1>2, <1>3, <2>1 DEF DeleteShape, Deleting
<1>6. QED  BY <1>4, <1>5

LEMMA OwnDeleteShape ==
  ASSUME IInv, NEW d \in Deletions, DeletionShape(d)', DeletionStep(d)
  PROVE  DeleteShape(d)'
<1>0. /\ TypeOK /\ DeletionShape(d) /\ DeletionShape(d)' /\ DeleteShape(d)
      /\ d \in Actors /\ <<d, "delete">> \in Transactions
  BY DeletionFacts, CatalogFacts, TxNames
<1>1. ASSUME NEW doc \in Uploads, Delete(d, doc) PROVE DeleteShape(d)'
  BY <1>1, <1>0 DEF Delete, OpenTx, Goto, rows, TypeOK, DeletionShape, DeleteShape, Deleting,
      DeleteTx
<1>2. ASSUME DeleteRow(d) PROVE DeleteShape(d)'
  BY <1>2, <1>0 DEF DeleteRow, Goto, rows, locals, control, TypeOK, DeletionShape, DeleteShape,
      Deleting, DeleteTx
<1>3. ASSUME DeleteNotFound(d) PROVE DeleteShape(d)'
  BY <1>3, <1>0 DEF DeleteNotFound, EndTx, ReleaseAll, Finish, Goto, rows, TypeOK, DeletionShape,
      DeleteShape, Deleting, DeleteTx
<1>4. ASSUME DeleteCascade(d) PROVE DeleteShape(d)'
  BY <1>4, <1>0 DEF DeleteCascade, ToCascade, rows, locals, control, TypeOK, DeletionShape,
      DeleteShape, Deleting, DeleteTx
<1>5. ASSUME DeleteSendsCommit(d) PROVE DeleteShape(d)'
  BY <1>5, <1>0 DEF DeleteSendsCommit, ToCascade, SendCommit, Goto, rows, locals, control,
      VersionsOf, Existing, TypeOK, DeletionShape, DeleteShape, Deleting, DeleteTx
<1>6. ASSUME DeleteReturns(d) PROVE DeleteShape(d)'
  BY <1>6, <1>0 DEF DeleteReturns, Finish, Goto, rows, TypeOK, DeletionShape, DeleteShape, Deleting,
      DeleteTx
<1>7. ASSUME CommitDelete(d) PROVE DeleteShape(d)'
  BY <1>7, <1>0, CommitDeleteEffects DEF DeletionShape, DeleteShape, Deleting, DeletePcs, locals,
      control
<1>8. ASSUME DeletionFails(d) PROVE DeleteShape(d)'
  BY <1>8, EndedDeleteShape DEF DeletionFails, DeletePcs
<1>9. ASSUME DeadlockFailsDeletion(d) PROVE DeleteShape(d)'
  BY <1>9, EndedDeleteShape DEF DeadlockFailsDeletion, DeletePcs, Deadlocked
<1>10. QED  BY <1>1, <1>2, <1>3, <1>4, <1>5, <1>6, <1>7, <1>8, <1>9 DEF DeletionStep, DeleteSteps

\* Its own COMMITs leave an upload with nothing it has read.
LEMMA CommittedUploadShapes ==
  ASSUME IInv, NEW u \in Uploads, UploadShape(u)',
         CommitCreate(u) \/ CommitActivate(u) \/ CommitMark(u)
  PROVE  StatusShape(u)' /\ CreateShape(u)' /\ ActivateShape(u)'
<1>1. TypeOK /\ UploadShape(u) /\ StatusShape(u) /\ CreateShape(u) /\ ActivateShape(u)
  BY UploadFacts, CatalogFacts
<1>2. CASE CommitCreate(u)
  <2>1. /\ CreateTx(u)' = "committed" /\ ActivateTx(u)' = "none" /\ MarkTx(u)' = "none"
        /\ versionStatus'[u] = "building" /\ versionDocument'[u] \in Uploads
    BY <1>2, CommitCreateEffects
  <2>2. ~Creating(u)' /\ ~Activating(u)' /\ ~Switching(u)'
    BY <2>1 DEF Creating, Activating, Switching, UploadShape
  <2>3. QED  BY <2>1, <2>2 DEF StatusShape, CreateShape, ActivateShape
<1>3. CASE CommitActivate(u)
  <2>1. /\ CreateTx(u)' = "committed" /\ ActivateTx(u)' = "committed"
        /\ MarkTx(u)' \notin {"committing", "committed"}
        /\ versionStatus'[u] = "active" /\ versionDocument'[u] = versionDocument[u]
        /\ versionStatus[u] = "building"
    BY <1>3, CommitActivateEffects
  <2>2. ~Creating(u)' /\ ~Activating(u)' /\ ~Switching(u)'
    BY <2>1 DEF Creating, Activating, Switching, UploadShape
  <2>3. QED  BY <1>1, <2>1, <2>2 DEF StatusShape, CreateShape, ActivateShape
<1>4. CASE CommitMark(u)
  <2>1. /\ CreateTx(u)' = "committed" /\ ActivateTx(u)' \in {"none", "aborted"}
        /\ MarkTx(u)' = "committed"
        /\ versionStatus'[u] = "failed" /\ versionDocument'[u] = versionDocument[u]
        /\ versionStatus[u] = "building"
    BY <1>4, CommitMarkEffects
  <2>2. ~Creating(u)' /\ ~Activating(u)' /\ ~Switching(u)'
    BY <2>1 DEF Creating, Activating, Switching, UploadShape
  <2>3. QED  BY <1>1, <2>1, <2>2 DEF StatusShape, CreateShape, ActivateShape
<1>5. QED  BY <1>2, <1>3, <1>4

LEMMA RowsUnderCrash ==
  ASSUME IInv, Crash
  PROVE  RowInv'
<1>1. TypeOK /\ UNCHANGED <<rows, found, number, replaces>>
  BY CatalogFacts, CrashEffects
<1>2. ASSUME NEW u \in Uploads PROVE StatusShape(u)' /\ CreateShape(u)' /\ ActivateShape(u)'
  <2>1. UploadShape(u) /\ StatusShape(u) /\ CreateShape(u) /\ ActivateShape(u)
    BY UploadFacts
  <2>2. /\ CreateTx(u)' = IF CreateTx(u) = "open" THEN "aborted" ELSE CreateTx(u)
        /\ ActivateTx(u)' = IF ActivateTx(u) = "open" THEN "aborted" ELSE ActivateTx(u)
        /\ MarkTx(u)' = IF MarkTx(u) = "open" THEN "aborted" ELSE MarkTx(u)
        /\ pc'[u] \in {"idle", "finished"}
    BY <1>1, TxNames, CrashEffects DEF CreateTx, ActivateTx, MarkTx
  <2>3. /\ Creating(u)' => CreateTx(u) = "committing" /\ Creating(u)
        /\ Activating(u)' => ActivateTx(u) = "committing" /\ Activating(u) /\ Switching(u)
        /\ Switching(u)' => ActivateTx(u) = "committing" /\ Activating(u) /\ Switching(u)
    BY <2>2 DEF Creating, Activating, Switching
  <2>4. StatusShape(u)'
    BY <1>1, <2>1, <2>2, <2>3 DEF rows, StatusShape
  <2>5. CreateShape(u)'
    <3>1. VersionsOf(found[u])' = VersionsOf(found[u])
      BY <1>1 DEF rows, VersionsOf, Existing
    <3>2. NumberIsNext(u) => NumberIsNext(u)'
      BY <1>1, <3>1 DEF rows, NumberIsNext
    <3>3. QED  BY <1>1, <2>1, <2>2, <2>3, <3>2 DEF rows, CreateShape
  <2>6. ActivateShape(u)'
    <3>1. ActiveVersions(versionDocument[u])' = ActiveVersions(versionDocument[u])
      BY <1>1 DEF rows, ActiveVersions, VersionsOf, Existing
    <3>2. QED  BY <1>1, <2>1, <2>2, <2>3, <3>1 DEF rows, ActivateShape
  <2>7. QED  BY <2>4, <2>5, <2>6
<1>3. ASSUME NEW d \in Deletions PROVE DeleteShape(d)'
  <2>1. DeletionShape(d) /\ DeleteShape(d)
    BY DeletionFacts
  <2>2. /\ DeleteTx(d)' = IF DeleteTx(d) = "open" THEN "aborted" ELSE DeleteTx(d)
        /\ pc'[d] = IF pc[d] = "idle" THEN "idle" ELSE "finished"
        /\ DeleteTx(d) = "committing" => holds'[<<d, "delete">>] = holds[<<d, "delete">>]
    BY <1>1, TxNames, CrashEffects DEF DeleteTx
  <2>3. Deleting(d)' => DeleteTx(d) = "committing" /\ Deleting(d)
    BY <2>2 DEF Deleting
  <2>4. VersionsOf(found[d])' = VersionsOf(found[d])
    BY <1>1 DEF rows, VersionsOf, Existing
  <2>5. QED  BY <1>1, <2>1, <2>2, <2>3, <2>4 DEF rows, DeleteShape
<1>4. DocumentShape' /\ NamesAreUnique' /\ VersionsHaveDocuments'
  BY <1>1, CatalogFacts DEF rows, DocumentShape, NamesAreUnique, VersionsHaveDocuments, Existing
<1>5. OneActiveVersion'
  <2>1. \A v \in Uploads : ActivateTx(v)' = "committing" => ActivateTx(v) = "committing"
    BY <1>1, TxNames, CrashEffects DEF ActivateTx
  <2>2. QED  BY <1>1, <2>1, CatalogFacts DEF rows, OneActiveVersion
<1>6. QED  BY <1>2, <1>3, <1>4, <1>5 DEF RowInv

-----------------------------------------------------------------------------
(* The catalog                                                             *)

LEMMA DocumentsStep ==
  ASSUME IInv, NEW a, ActorStep(a)
  PROVE  DocumentShape'
<1>1. SUFFICES ASSUME NEW doc \in documents' PROVE Existing(doc)' /\ versionDocument'[doc] = doc
  BY DEF DocumentShape
<1>2. TypeOK /\ \A d \in documents : d \in Uploads /\ Existing(d) /\ versionDocument[d] = d
  BY CatalogFacts DEF DocumentShape, TypeOK
<1>3. CASE UNCHANGED catalog
  BY <1>2, <1>3 DEF catalog, Existing
<1>4. CASE a \in Uploads /\ CommitCreate(a)
  <2>1. CASE doc = a
    <3>1. versionStatus[a] = "absent"
      BY <1>4, CommitCreateEffects
    <3>2. found[a] = a
      BY <1>2, <1>4, <2>1, <3>1, CommitCreateEffects DEF Existing
    <3>3. QED  BY <1>4, <2>1, <3>2, CommitCreateEffects DEF Existing
  <2>2. CASE doc # a
    <3>1. doc \in documents
      BY <1>4, <2>2, CommitCreateEffects
    <3>2. versionStatus'[doc] = versionStatus[doc] /\ versionDocument'[doc] = versionDocument[doc]
      BY <1>2, <1>4, <2>2, <3>1, CommitCreateEffects
    <3>3. QED  BY <1>2, <3>1, <3>2 DEF Existing
  <2>3. QED  BY <2>1, <2>2
<1>5. CASE a \in Deletions /\ CommitDelete(a)
  <2>1. doc \in documents /\ doc # found[a]
    BY <1>5, CommitDeleteEffects
  <2>2. versionStatus'[doc] = versionStatus[doc] /\ versionDocument'[doc] = versionDocument[doc]
    BY <1>2, <1>5, <2>1, CommitDeleteEffects DEF VersionsOf
  <2>3. QED  BY <1>2, <2>1, <2>2 DEF Existing
<1>6. CASE a \in Uploads /\ (CommitActivate(a) \/ CommitMark(a))
  <2>1. doc \in documents
    BY <1>6, CommitActivateEffects, CommitMarkEffects
  <2>2. /\ a \in Uploads => ~CommitCreate(a)
        /\ a \in Deletions /\ CommitDelete(a) => found[a] # doc
    BY <1>2, <1>6, <2>1, CommitCreateEffects, CommitActivateEffects, CommitMarkEffects, TxNames
  <2>3. doc \in VersionsOf(doc) /\ VersionsOf(doc)' = VersionsOf(doc)
    BY <1>2, <2>1, <2>2, VersionsOfKept DEF VersionsOf
  <2>4. QED  BY <1>2, <2>1, <2>3 DEF VersionsOf
<1>7. QED  BY <1>3, <1>4, <1>5, <1>6, ActorFrame, CatalogFacts DEF CommitStep

LEMMA NamesStep ==
  ASSUME IInv, NEW a, ActorStep(a)
  PROVE  NamesAreUnique'
<1>0. TypeOK /\ NamesAreUnique /\ DocumentShape
  BY CatalogFacts
<1>1. \A doc \in documents : sourceKey'[doc] = sourceKey[doc]
  BY DocumentsKeepTheirKey
<1>2. ASSUME NEW d \in documents', NEW e \in documents', sourceKey'[d] = sourceKey'[e] PROVE d = e
  <2>1. CASE d \in documents /\ e \in documents
    BY <1>0, <1>1, <1>2, <2>1 DEF NamesAreUnique
  <2>2. CASE ~(d \in documents /\ e \in documents)
    <3>1. a \in Uploads /\ CommitCreate(a)
      <4>1. CASE UNCHANGED catalog
        BY <2>2, <4>1 DEF catalog
      <4>2. CASE CommitStep(a)
        BY <2>2, <4>2, CommitActivateEffects, CommitMarkEffects, CommitDeleteEffects DEF CommitStep
      <4>3. QED  BY <1>0, <4>1, <4>2, ActorFrame
    <3>2. documents' = documents \union {found[a]} /\ sourceKey' = sourceKey
      BY <3>1, CommitCreateEffects
    <3>3. found[a] = a
      BY <2>2, <3>1, <3>2, CommitCreateEffects
    <3>4. \A doc \in documents : sourceKey[doc] # sourceKey[a]
      BY <3>1, <3>3, UploadFacts DEF CreateShape, Creating, CreateTx, CommitCreate
    <3>5. QED  BY <1>2, <2>2, <3>2, <3>3, <3>4
  <2>3. QED  BY <2>1, <2>2
<1>3. ASSUME NEW v \in Uploads, NEW w \in Uploads, Existing(v)', Existing(w)',
             versionDocument'[v] = versionDocument'[w], versionNumber'[v] = versionNumber'[w]
      PROVE  v = w
  <2>1. CASE a \in Uploads /\ CommitCreate(a)
    <3>1. /\ \A x \in Uploads \ {a} :
               /\ versionStatus'[x] = versionStatus[x] /\ versionDocument'[x] = versionDocument[x]
               /\ versionNumber'[x] = versionNumber[x]
          /\ versionDocument'[a] = found[a] /\ versionNumber'[a] = number[a]
      BY <2>1, CommitCreateEffects
    <3>2. PICK last \in {versionNumber[x] : x \in VersionsOf(found[a])} \union {0} :
            /\ \A x \in VersionsOf(found[a]) : versionNumber[x] <= last
            /\ number[a] = last + 1
      BY <2>1, UploadFacts DEF CreateShape, CreateTx, CommitCreate, NumberIsNext
    <3>3. last \in Nat
      BY <1>0, <3>2 DEF TypeOK, VersionsOf
    <3>4. \A x \in Uploads \ {a} : Existing(x)' /\ versionDocument'[x] = found[a] => versionNumber'[x] # number[a]
      <4> SUFFICES ASSUME NEW x \in Uploads \ {a}, Existing(x)', versionDocument'[x] = found[a]
                   PROVE  versionNumber'[x] # number[a]
        OBVIOUS
      <4>1. x \in VersionsOf(found[a]) /\ versionNumber'[x] = versionNumber[x] /\ versionNumber[x] \in Nat
        BY <1>0, <3>1 DEF VersionsOf, Existing, TypeOK
      <4>2. QED  BY <3>2, <3>3, <4>1
    <3>5. CASE v # a /\ w # a
      BY <1>0, <1>3, <3>1, <3>5 DEF NamesAreUnique, Existing
    <3>6. CASE v = a \/ w = a
      BY <1>3, <3>1, <3>4, <3>6
    <3>7. QED  BY <3>5, <3>6
  <2>2. CASE ~(a \in Uploads /\ CommitCreate(a))
    <3>1. \A x \in Uploads : Existing(x)' =>
            /\ Existing(x) /\ versionDocument'[x] = versionDocument[x]
            /\ versionNumber'[x] = versionNumber[x]
      <4> SUFFICES ASSUME NEW x \in Uploads, Existing(x)'
                   PROVE  /\ Existing(x) /\ versionDocument'[x] = versionDocument[x]
                          /\ versionNumber'[x] = versionNumber[x]
        OBVIOUS
      <4>1. CASE UNCHANGED catalog
        BY <4>1 DEF catalog, Existing
      <4>2. CASE a \in Uploads /\ CommitActivate(a)
        <5>1. CASE x # a
          BY <4>2, <5>1, OthersEffect DEF Existing
        <5>2. CASE x = a
          BY <4>2, <5>2, CommitActivateEffects DEF Existing
        <5>3. QED  BY <5>1, <5>2
      <4>3. CASE a \in Uploads /\ CommitMark(a)
        BY <4>3, CommitMarkEffects DEF Existing
      <4>4. CASE a \in Deletions /\ CommitDelete(a)
        BY <4>4, CommitDeleteEffects DEF Existing
      <4>5. QED  BY <1>0, <2>2, <4>1, <4>2, <4>3, <4>4, ActorFrame DEF CommitStep
    <3>2. QED  BY <1>0, <1>3, <3>1 DEF NamesAreUnique
  <2>3. QED  BY <2>1, <2>2
<1>4. QED  BY <1>2, <1>3 DEF NamesAreUnique

LEMMA VersionsHaveDocumentsStep ==
  ASSUME IInv, NEW a, ActorStep(a)
  PROVE  VersionsHaveDocuments'
<1>1. TypeOK /\ VersionsHaveDocuments
  BY CatalogFacts
<1>2. CASE UNCHANGED catalog
  BY <1>1, <1>2 DEF catalog, VersionsHaveDocuments, Existing
<1>3. CASE a \in Uploads /\ CommitCreate(a)
  <2>1. ASSUME NEW v \in Uploads, Existing(v)' PROVE versionDocument'[v] \in documents'
    <3>1. CASE v = a
      BY <1>3, <3>1, CommitCreateEffects
    <3>2. CASE v # a
      <4>1. versionStatus'[v] = versionStatus[v] /\ versionDocument'[v] = versionDocument[v]
        BY <1>3, <3>2, CommitCreateEffects
      <4>2. documents \subseteq documents'
        BY <1>3, CommitCreateEffects
      <4>3. QED  BY <1>1, <2>1, <4>1, <4>2 DEF VersionsHaveDocuments, Existing
    <3>3. QED  BY <3>1, <3>2
  <2>2. QED  BY <2>1 DEF VersionsHaveDocuments
<1>4. CASE a \in Uploads /\ CommitActivate(a)
  <2>1. \A v \in Uploads : Existing(v)' => Existing(v)
    BY <1>4, CommitActivateEffects DEF Existing
  <2>2. documents' = documents /\ versionDocument' = versionDocument
    BY <1>4, CommitActivateEffects
  <2>3. QED  BY <1>1, <2>1, <2>2 DEF VersionsHaveDocuments
<1>5. CASE a \in Uploads /\ CommitMark(a)
  BY <1>1, <1>5, CommitMarkEffects DEF VersionsHaveDocuments, Existing
<1>6. CASE a \in Deletions /\ CommitDelete(a)
  <2>1. ASSUME NEW v \in Uploads, Existing(v)' PROVE versionDocument'[v] \in documents'
    <3>1. v \notin VersionsOf(found[a]) /\ versionStatus'[v] = versionStatus[v]
      BY <1>6, <2>1, CommitDeleteEffects DEF Existing
    <3>2. versionDocument[v] \in documents /\ versionDocument[v] # found[a]
      BY <1>1, <2>1, <3>1 DEF VersionsHaveDocuments, VersionsOf, Existing
    <3>3. QED  BY <1>6, <3>2, CommitDeleteEffects
  <2>2. QED  BY <2>1 DEF VersionsHaveDocuments
<1>7. QED  BY <1>1, <1>2, <1>3, <1>4, <1>5, <1>6, ActorFrame DEF CommitStep

LEMMA OneActiveStep ==
  ASSUME IInv, NEW a, ActorStep(a), ShapeInv'
  PROVE  OneActiveVersion'
<1>1. TypeOK /\ OneActiveVersion
  BY CatalogFacts
<1>2. ASSUME NEW v \in Uploads, versionStatus'[v] = "active", versionStatus[v] = "active"
      PROVE  versionDocument'[v] = versionDocument[v]
  <2>1. CASE UNCHANGED catalog
    BY <2>1 DEF catalog
  <2>2. CASE CommitStep(a)
    BY <1>2, <2>2, VersionsProgress
  <2>3. QED  BY <1>1, <2>1, <2>2, ActorFrame
<1>3. ASSUME a \in Uploads, CommitActivate(a), NEW v \in Uploads, v # a,
             versionStatus'[v] = "active", versionDocument'[v] = versionDocument'[a]
      PROVE  FALSE
  <2>1. versionStatus[v] = "active" /\ v # replaces[a]
    BY <1>3, NewlyActive, CommitActivateEffects
  <2>2. versionDocument[v] = versionDocument[a]
    BY <1>3, CommitActivateEffects
  <2>3. v \in ActiveVersions(versionDocument[a])
    BY <2>1, <2>2 DEF ActiveVersions, VersionsOf, Existing
  <2>4. QED  BY <1>3, <2>1, <2>3, CommitActivateEffects
<1>4. ASSUME NEW v \in Uploads, NEW w \in Uploads,
             versionStatus'[v] = "active", versionStatus'[w] = "active",
             versionDocument'[v] = versionDocument'[w]
      PROVE  v = w
  <2>1. CASE versionStatus[v] = "active" /\ versionStatus[w] = "active"
    BY <1>1, <1>2, <1>4, <2>1 DEF OneActiveVersion
  <2>2. CASE versionStatus[v] # "active"
    <3>1. v = a /\ a \in Uploads /\ CommitActivate(a)
      BY <1>4, <2>2, NewlyActive
    <3>2. QED  BY <1>3, <1>4, <3>1
  <2>3. CASE versionStatus[w] # "active"
    <3>1. w = a /\ a \in Uploads /\ CommitActivate(a)
      BY <1>4, <2>3, NewlyActive
    <3>2. QED  BY <1>3, <1>4, <3>1
  <2>4. QED  BY <2>1, <2>2, <2>3
<1>5. ASSUME NEW v \in Uploads, ActivateTx(v)' = "committing"
      PROVE  /\ versionDocument'[v] = versionDocument[v]
             /\ ActivateTx(v) = "committing" \/ (v = a /\ a \in Uploads /\ ActivateWrite(a))
  <2>1. CASE v # a
    <3>1. KeepsUpload(v) /\ versionDocument'[v] = versionDocument[v]
      BY <1>1, <2>1, ActorFrame, OtherUpload, OthersEffect
    <3>2. QED  BY <1>5, <3>1 DEF KeepsUpload
  <2>2. CASE v = a
    <3>1. UploadStep(a) /\ a \in Uploads
      BY <2>2, TxNames DEF ActorStep
    <3>2. UploadShape(a) /\ UploadShape(a)'
      BY <3>1, UploadFacts DEF ShapeInv
    <3>3. CASE CommitCreate(a) \/ CommitActivate(a) \/ CommitMark(a)
      BY <1>5, <2>2, <3>1, <3>3, CommitCreateEffects, CommitActivateEffects, CommitMarkEffects
    <3>4. CASE ~(CommitCreate(a) \/ CommitActivate(a) \/ CommitMark(a))
      <4>1. Progress(a) /\ UNCHANGED catalog
        BY <1>1, <3>1, <3>2, <3>4, UploadProgress, UploadFrame
      <4>2. QED  BY <1>5, <2>2, <3>1, <4>1 DEF Progress, catalog
    <3>5. QED  BY <3>3, <3>4
  <2>3. QED  BY <2>1, <2>2
<1>6. ASSUME a \in Uploads, ActivateWrite(a), NEW v \in Uploads, v # a,
             ActivateTx(v) = "committing", versionDocument[v] = versionDocument[a]
      PROVE  FALSE
  BY <1>6 DEF ActivateWrite, ActivationPending, ActivateTx
<1>7. ASSUME NEW v \in Uploads, NEW w \in Uploads,
             ActivateTx(v)' = "committing", ActivateTx(w)' = "committing",
             versionDocument'[v] = versionDocument'[w]
      PROVE  v = w
  <2>1. versionDocument[v] = versionDocument[w]
    BY <1>5, <1>7
  <2>2. /\ ActivateTx(v) = "committing" \/ (v = a /\ a \in Uploads /\ ActivateWrite(a))
        /\ ActivateTx(w) = "committing" \/ (w = a /\ a \in Uploads /\ ActivateWrite(a))
    BY <1>5, <1>7
  <2>3. QED  BY <1>1, <1>6, <2>1, <2>2 DEF OneActiveVersion
<1>8. QED  BY <1>4, <1>7 DEF OneActiveVersion

LEMMA RowsStep ==
  ASSUME IInv, ShapeInv', [Next]_vars
  PROVE  RowInv'
<1>1. ASSUME NEW a, ActorStep(a) PROVE RowInv'
  <2>1. TypeOK /\ FrameOf(a)
    BY <1>1, ActorFrame, CatalogFacts
  <2>2. ASSUME NEW u \in Uploads PROVE StatusShape(u)' /\ CreateShape(u)' /\ ActivateShape(u)'
    <3>1. UploadShape(u) /\ UploadShape(u)'
      BY UploadFacts DEF ShapeInv
    <3>2. CASE u # a
      BY <1>1, <2>1, <3>2, OtherUpload, OtherStatusShape, OtherCreateShape, OtherActivateShape
    <3>3. CASE u = a
      <4>1. UploadStep(u)
        BY <1>1, <3>3, TxNames DEF ActorStep
      <4>2. CASE CommitCreate(u) \/ CommitActivate(u) \/ CommitMark(u)
        BY <3>1, <4>2, CommittedUploadShapes
      <4>3. CASE ~(CommitCreate(u) \/ CommitActivate(u) \/ CommitMark(u))
        <5>1. Progress(u) /\ UNCHANGED catalog
          BY <2>1, <3>1, <4>1, <4>3, UploadProgress, UploadFrame
        <5>2. QED
          BY <3>1, <4>1, <5>1, QuietStatusShape, QuietCreateShape, QuietActivateShape
      <4>4. QED  BY <4>2, <4>3
    <3>4. QED  BY <3>2, <3>3
  <2>3. ASSUME NEW d \in Deletions PROVE DeleteShape(d)'
    <3>1. DeletionShape(d)'
      BY DEF ShapeInv
    <3>2. CASE d # a
      BY <1>1, <2>1, <3>2, OtherDeletion, OtherDeleteShape
    <3>3. CASE d = a
      BY <1>1, <3>1, <3>3, OwnDeleteShape, TxNames DEF ActorStep
    <3>4. QED  BY <3>2, <3>3
  <2>4. QED
    BY <1>1, <2>2, <2>3, DocumentsStep, NamesStep, VersionsHaveDocumentsStep, OneActiveStep DEF
        RowInv
<1>2. CASE UNCHANGED vars
  <2>1. RowInv /\ UNCHANGED <<rows, tx, holds, pc, found, number, replaces>>
    BY <1>2 DEF IInv, vars, locals, control
  <2>2. ASSUME NEW u \in Uploads PROVE StatusShape(u)' /\ CreateShape(u)' /\ ActivateShape(u)'
    <3>1. VersionsOf(found[u])' = VersionsOf(found[u])
      BY <2>1 DEF rows, VersionsOf, Existing
    <3>2. ActiveVersions(versionDocument[u])' = ActiveVersions(versionDocument[u])
      BY <2>1 DEF rows, ActiveVersions, VersionsOf, Existing
    <3>3. NumberIsNext(u) => NumberIsNext(u)'
      BY <2>1, <3>1 DEF rows, NumberIsNext
    <3>4. /\ CreateTx(u)' = CreateTx(u) /\ ActivateTx(u)' = ActivateTx(u) /\ MarkTx(u)' = MarkTx(u)
          /\ Creating(u)' = Creating(u) /\ Activating(u)' = Activating(u)
          /\ Switching(u)' = Switching(u)
      BY <2>1 DEF CreateTx, ActivateTx, MarkTx, Creating, Activating, Switching
    <3>5. StatusShape(u)'
      BY <2>1, <3>4 DEF rows, RowInv, StatusShape
    <3>6. CreateShape(u)'
      BY <2>1, <3>3, <3>4 DEF rows, RowInv, CreateShape
    <3>7. ActivateShape(u)'
      BY <2>1, <3>2, <3>4 DEF rows, RowInv, ActivateShape
    <3>8. QED  BY <3>5, <3>6, <3>7
  <2>3. ASSUME NEW d \in Deletions PROVE DeleteShape(d)'
    <3>1. VersionsOf(found[d])' = VersionsOf(found[d])
      BY <2>1 DEF rows, VersionsOf, Existing
    <3>2. DeleteShape(d)
      BY <2>1 DEF RowInv
    <3>3. QED  BY <2>1, <3>1, <3>2 DEF rows, DeleteShape, Deleting, DeleteTx
  <2>4. DocumentShape' /\ NamesAreUnique' /\ VersionsHaveDocuments' /\ OneActiveVersion'
    BY <2>1 DEF rows, RowInv, DocumentShape, NamesAreUnique, VersionsHaveDocuments,
       OneActiveVersion, Existing, ActivateTx
  <2>5. QED  BY <2>2, <2>3, <2>4 DEF RowInv
<1>3. QED  BY <1>1, <1>2, RowsUnderCrash, StepCases

-----------------------------------------------------------------------------
(* What the callers were told, and how uploads ended                       *)

\* A finished upload stays finished, what came before an upload is settled
\* when it begins, and an activation that was attempted stays attempted.
CallProgress(u) ==
  /\ earlier' = earlier \/ \E key \in SourceKeys : Upload(u, key)
  /\ pc[u] = "finished" => pc'[u] = "finished" /\ ~ActivateWrite(u)
  /\ ActivateTx(u) # "none" => ActivateTx(u)' # "none"

LEMMA OwnCallShape ==
  ASSUME TypeOK, NEW u \in Uploads, UploadShape(u), UploadShape(u)', StatusShape(u), StatusShape(u)',
         ReplyShape(u), UploadStep(u)
  PROVE  ReplyShape(u)' /\ CallProgress(u)
<1>0. /\ TypeOK /\ UploadShape(u) /\ UploadShape(u)' /\ StatusShape(u) /\ StatusShape(u)'
      /\ ReplyShape(u)
  OBVIOUS
<1>0a. /\ u \in Actors /\ <<u, "create">> \in Transactions /\ <<u, "activate">> \in Transactions
       /\ <<u, "mark">> \in Transactions
       /\ <<u, "create">> # <<u, "activate">> /\ <<u, "create">> # <<u, "mark">>
       /\ <<u, "activate">> # <<u, "mark">>
  BY TxNames
<1>1. ASSUME Refuse(u) PROVE ReplyShape(u)' /\ CallProgress(u)
  BY <1>1, <1>0, <1>0a DEF Refuse, Finish, Goto, Answer, rows, TypeOK, UploadShape, UploadPcs,
      CreatePcs, ActivatePcs, MarkPcs, StatusShape, CreateTx, ActivateTx, MarkTx, ReplyShape,
      CallProgress, ActivateWrite
<1>2. ASSUME NEW key \in SourceKeys, Upload(u, key) PROVE ReplyShape(u)' /\ CallProgress(u)
  BY <1>2, <1>0, <1>0a DEF Upload, OpenTx, Goto, control, TypeOK, UploadShape, UploadPcs, CreatePcs,
      ActivatePcs, MarkPcs, StatusShape, CreateTx, ActivateTx, MarkTx, ReplyShape, CallProgress,
      ActivateWrite
<1>3. ASSUME CreateLock(u) PROVE ReplyShape(u)' /\ CallProgress(u)
  BY <1>3, <1>0, <1>0a DEF CreateLock, Goto, rows, TypeOK, UploadShape, UploadPcs, CreatePcs,
      ActivatePcs, MarkPcs, StatusShape, CreateTx, ActivateTx, MarkTx, ReplyShape, CallProgress,
      ActivateWrite
<1>4. ASSUME CreateInsert(u) PROVE ReplyShape(u)' /\ CallProgress(u)
  BY <1>4, <1>0, <1>0a DEF CreateInsert, SendCommit, Goto, rows, TypeOK, UploadShape, UploadPcs,
      CreatePcs, ActivatePcs, MarkPcs, StatusShape, CreateTx, ActivateTx, MarkTx, ReplyShape,
      CallProgress, ActivateWrite
<1>5. ASSUME CreateRefused(u) PROVE ReplyShape(u)' /\ CallProgress(u)
  BY <1>5, <1>0, <1>0a, TxEffects DEF CreateRefused, Finish, Goto, Answer, rows, TypeOK,
      UploadShape, UploadPcs, CreatePcs, ActivatePcs, MarkPcs, StatusShape, CreateTx, ActivateTx,
      MarkTx, ReplyShape, CallProgress, ActivateWrite
<1>6. ASSUME CreateReturns(u) PROVE ReplyShape(u)' /\ CallProgress(u)
  BY <1>6, <1>0, <1>0a DEF CreateReturns, Goto, rows, locals, control, TypeOK, UploadShape,
      UploadPcs, CreatePcs, ActivatePcs, MarkPcs, StatusShape, CreateTx, ActivateTx, MarkTx,
      ReplyShape, CallProgress, ActivateWrite
<1>7. ASSUME EmbedSucceeds(u) PROVE ReplyShape(u)' /\ CallProgress(u)
  BY <1>7, <1>0, <1>0a DEF EmbedSucceeds, OpenTx, Goto, rows, locals, control, TypeOK, UploadShape,
      UploadPcs, CreatePcs, ActivatePcs, MarkPcs, StatusShape, CreateTx, ActivateTx, MarkTx,
      ReplyShape, CallProgress, ActivateWrite
<1>8. ASSUME EmbedFails(u) PROVE ReplyShape(u)' /\ CallProgress(u)
  BY <1>8, <1>0, <1>0a DEF EmbedFails, StartMark, Goto, rows, locals, control, TypeOK, UploadShape,
      UploadPcs, CreatePcs, ActivatePcs, MarkPcs, StatusShape, CreateTx, ActivateTx, MarkTx,
      ReplyShape, CallProgress, ActivateWrite
<1>9. ASSUME ActivateLock(u) PROVE ReplyShape(u)' /\ CallProgress(u)
  BY <1>9, <1>0, <1>0a DEF ActivateLock, Goto, rows, TypeOK, UploadShape, UploadPcs, CreatePcs,
      ActivatePcs, MarkPcs, StatusShape, CreateTx, ActivateTx, MarkTx, ReplyShape, CallProgress,
      ActivateWrite
<1>10. ASSUME ActivateConflict(u) PROVE ReplyShape(u)' /\ CallProgress(u)
  BY <1>10, <1>0, <1>0a, RaiseEffects DEF ActivateConflict, ActivateRaises, Goto, rows, locals,
      control, Deadlocked, TypeOK, UploadShape, UploadPcs, CreatePcs, ActivatePcs, MarkPcs,
      StatusShape, CreateTx, ActivateTx, MarkTx, ReplyShape, CallProgress, ActivateWrite
<1>11. ASSUME ActivateSupersede(u) PROVE ReplyShape(u)' /\ CallProgress(u)
  BY <1>11, <1>0, <1>0a DEF ActivateSupersede, Goto, rows, TypeOK, UploadShape, UploadPcs,
      CreatePcs, ActivatePcs, MarkPcs, StatusShape, CreateTx, ActivateTx, MarkTx, ReplyShape,
      CallProgress, ActivateWrite
<1>12. ASSUME ActivateWrite(u) PROVE ReplyShape(u)' /\ CallProgress(u)
  BY <1>12, <1>0, <1>0a DEF ActivateWrite, SendCommit, Goto, rows, locals, control, TypeOK,
      UploadShape, UploadPcs, CreatePcs, ActivatePcs, MarkPcs, StatusShape, CreateTx, ActivateTx,
      MarkTx, ReplyShape, CallProgress, ActivateWrite
<1>13. ASSUME ActivateDuplicate(u) PROVE ReplyShape(u)' /\ CallProgress(u)
  BY <1>13, <1>0, <1>0a, RaiseEffects DEF ActivateDuplicate, ActivateRaises, Goto, rows, locals,
      control, Deadlocked, TypeOK, UploadShape, UploadPcs, CreatePcs, ActivatePcs, MarkPcs,
      StatusShape, CreateTx, ActivateTx, MarkTx, ReplyShape, CallProgress, ActivateWrite
<1>14. ASSUME ActivateReturns(u) PROVE ReplyShape(u)' /\ CallProgress(u)
  BY <1>14, <1>0, <1>0a DEF ActivateReturns, Finish, Goto, Answer, rows, TypeOK, UploadShape,
      UploadPcs, CreatePcs, ActivatePcs, MarkPcs, StatusShape, CreateTx, ActivateTx, MarkTx,
      ReplyShape, CallProgress, ActivateWrite
<1>15. ASSUME MarkLock(u) PROVE ReplyShape(u)' /\ CallProgress(u)
  BY <1>15, <1>0, <1>0a DEF MarkLock, SendCommit, Goto, rows, locals, control, TypeOK, UploadShape,
      UploadPcs, CreatePcs, ActivatePcs, MarkPcs, StatusShape, CreateTx, ActivateTx, MarkTx,
      ReplyShape, CallProgress, ActivateWrite
<1>16. ASSUME MarkConflict(u) PROVE ReplyShape(u)' /\ CallProgress(u)
  BY <1>16, <1>0, <1>0a, TxEffects DEF MarkConflict, Finish, Goto, Answer, rows, TypeOK,
      UploadShape, UploadPcs, CreatePcs, ActivatePcs, MarkPcs, StatusShape, CreateTx, ActivateTx,
      MarkTx, ReplyShape, CallProgress, ActivateWrite
<1>17. ASSUME MarkReturns(u) PROVE ReplyShape(u)' /\ CallProgress(u)
  BY <1>17, <1>0, <1>0a DEF MarkReturns, Finish, Goto, Answer, rows, TypeOK, UploadShape, UploadPcs,
      CreatePcs, ActivatePcs, MarkPcs, StatusShape, CreateTx, ActivateTx, MarkTx, ReplyShape,
      CallProgress, ActivateWrite
<1>18. ASSUME CommitCreate(u) PROVE ReplyShape(u)' /\ CallProgress(u)
  <2>1. CreateTx(u)' = "committed" /\ ActivateTx(u)' = ActivateTx(u) /\ UNCHANGED <<pc, locals>>
    BY <1>18, <1>0, <1>0a, TxEffects DEF CommitCreate, CreateTx, ActivateTx
  <2>2. CreateTx(u) = "committing"
    BY <1>18 DEF CommitCreate, CreateTx, ActivateTx, MarkTx
  <2>3. QED
    BY <1>0, <2>1, <2>2 DEF locals, control, UploadShape, UploadPcs, CreatePcs, ActivatePcs,
        MarkPcs, ReplyShape, CallProgress, ActivateWrite
<1>19. ASSUME CommitActivate(u) PROVE ReplyShape(u)' /\ CallProgress(u)
  <2>1. CreateTx(u)' = CreateTx(u) /\ ActivateTx(u)' = "committed" /\ UNCHANGED <<pc, locals>>
    BY <1>19, <1>0, <1>0a, TxEffects DEF CommitActivate, CreateTx, ActivateTx
  <2>2. ActivateTx(u) = "committing"
    BY <1>19 DEF CommitActivate, CreateTx, ActivateTx, MarkTx
  <2>3. QED
    BY <1>0, <2>1, <2>2 DEF locals, control, UploadShape, UploadPcs, CreatePcs, ActivatePcs,
        MarkPcs, ReplyShape, CallProgress, ActivateWrite
<1>20. ASSUME CommitMark(u) PROVE ReplyShape(u)' /\ CallProgress(u)
  <2>1. CreateTx(u)' = CreateTx(u) /\ ActivateTx(u)' = ActivateTx(u) /\ UNCHANGED <<pc, locals>>
    BY <1>20, <1>0, <1>0a, TxEffects DEF CommitMark, CreateTx, ActivateTx
  <2>2. MarkTx(u) = "committing"
    BY <1>20 DEF CommitMark, CreateTx, ActivateTx, MarkTx
  <2>3. QED
    BY <1>0, <2>1, <2>2 DEF locals, control, UploadShape, UploadPcs, CreatePcs, ActivatePcs,
        MarkPcs, ReplyShape, CallProgress, ActivateWrite
<1>21. ASSUME Cancel(u) PROVE ReplyShape(u)' /\ CallProgress(u)
  <2>1. Abandon(u)
    BY <1>21 DEF Cancel
  <2>2. /\ CreateTx(u)' = IF CreateTx(u) = "open" THEN "aborted" ELSE CreateTx(u)
        /\ ActivateTx(u)' = IF ActivateTx(u) = "open" THEN "aborted" ELSE ActivateTx(u)
        /\ MarkTx(u)' = IF MarkTx(u) = "open" THEN "aborted"
                        ELSE IF Marked(u) THEN "open" ELSE MarkTx(u)
    BY <1>0, <2>1, AbandonedTx
  <2>3. IF Marked(u) THEN pc'[u] = "mark_lock" /\ reply' = reply
        ELSE /\ pc'[u] = "finished"
             /\ reply'[u] = "cancelled"
    BY <1>21, <1>0, <1>0a DEF Cancel, Unwind, Goto, Finish, Answer, TypeOK
  <2>4. pc[u] \in UploadPcs /\ earlier' = earlier /\ cancels'[u] = cancels[u] + 1
    BY <1>21, <1>0 DEF Cancel, TypeOK
  <2>5. QED
    BY <1>0, <2>2, <2>3, <2>4 DEF TypeOK, Marked, UploadShape, UploadPcs, CreatePcs, ActivatePcs,
        MarkPcs, StatusShape, ReplyShape, CallProgress, ActivateWrite
<1>22. ASSUME DatabaseError(u) PROVE ReplyShape(u)' /\ CallProgress(u)
  <2>1. Abandon(u)
    BY <1>22 DEF DatabaseError
  <2>2. /\ CreateTx(u)' = IF CreateTx(u) = "open" THEN "aborted" ELSE CreateTx(u)
        /\ ActivateTx(u)' = IF ActivateTx(u) = "open" THEN "aborted" ELSE ActivateTx(u)
        /\ MarkTx(u)' = IF MarkTx(u) = "open" THEN "aborted"
                        ELSE IF Marked(u) THEN "open" ELSE MarkTx(u)
    BY <1>0, <2>1, AbandonedTx
  <2>3. IF Marked(u) THEN pc'[u] = "mark_lock" /\ reply' = reply
        ELSE /\ pc'[u] = "finished"
             /\ reply'[u] = IF pc[u] \in MarkPcs THEN "failure_recording_failed" ELSE "error"
    BY <1>22, <1>0, <1>0a DEF DatabaseError, Unwind, Goto, Finish, Answer, TypeOK
  <2>4. pc[u] \in UploadPcs /\ earlier' = earlier /\ faults' > 0
    BY <1>22, <1>0 DEF DatabaseError, TypeOK
  <2>5. QED
    BY <1>0, <2>2, <2>3, <2>4 DEF TypeOK, Marked, UploadShape, UploadPcs, CreatePcs, ActivatePcs,
        MarkPcs, StatusShape, ReplyShape, CallProgress, ActivateWrite
<1>23. ASSUME DeadlockFailsActivation(u) PROVE ReplyShape(u)' /\ CallProgress(u)
  BY <1>23, <1>0, <1>0a, RaiseEffects DEF DeadlockFailsActivation, Deadlocked, ActivateRaises, Goto,
      rows, locals, control, TypeOK, UploadShape, UploadPcs, CreatePcs, ActivatePcs, MarkPcs,
      StatusShape, CreateTx, ActivateTx, MarkTx, ReplyShape, CallProgress, ActivateWrite
<1>24. ASSUME NEW phase \in {"create", "activate", "mark"}, CommitLost(u, phase) PROVE ReplyShape(u)' /\ CallProgress(u)
  <2>1. /\ ActivateTx(u) \in {"none", "aborted", "committed"} => ActivateTx(u)' = ActivateTx(u)
        /\ ActivateTx(u) # "none" => ActivateTx(u)' # "none"
        /\ ActivateTx(u)' \in {ActivateTx(u), "aborted"}
    BY <1>24, <1>0, <1>0a, TxEffects DEF CommitLost, ActivateTx
  <2>2. UNCHANGED <<pc, locals>>
    BY <1>24 DEF CommitLost
  <2>3. pc[u] = "finished" => ~ActivateWrite(u)
    BY DEF ActivateWrite
  <2>4. QED
    BY <1>0, <2>1, <2>2, <2>3 DEF locals, control, ReplyShape, CallProgress
<1>25. QED  BY <1>1, <1>2, <1>3, <1>4, <1>5, <1>6, <1>7, <1>8, <1>9, <1>10, <1>11, <1>12, <1>13,
    <1>14, <1>15, <1>16, <1>17, <1>18, <1>19, <1>20, <1>21, <1>22, <1>23, <1>24 DEF UploadStep,
    Create, Activate, Mark, Commit

LEMMA OwnEndShape ==
  ASSUME IInv, NEW u \in Uploads, UploadShape(u)', UploadStep(u)
  PROVE  EndShape(u)'
<1>0. TypeOK /\ UploadShape(u) /\ UploadShape(u)' /\ StatusShape(u) /\ EndShape(u)
  BY UploadFacts, CatalogFacts
<1>0a. /\ u \in Actors /\ <<u, "create">> \in Transactions /\ <<u, "activate">> \in Transactions
       /\ <<u, "mark">> \in Transactions
       /\ <<u, "create">> # <<u, "activate">> /\ <<u, "create">> # <<u, "mark">>
       /\ <<u, "activate">> # <<u, "mark">>
  BY TxNames
<1>1. ASSUME Refuse(u) PROVE EndShape(u)'
  BY <1>1, <1>0, <1>0a DEF Refuse, Finish, Goto, Answer, rows, TypeOK, UploadShape, UploadPcs,
      CreatePcs, ActivatePcs, MarkPcs, StatusShape, CreateTx, ActivateTx, MarkTx, EndShape, rows
<1>2. ASSUME NEW key \in SourceKeys, Upload(u, key) PROVE EndShape(u)'
  BY <1>2, <1>0, <1>0a DEF Upload, OpenTx, Goto, control, TypeOK, UploadShape, UploadPcs, CreatePcs,
      ActivatePcs, MarkPcs, StatusShape, CreateTx, ActivateTx, MarkTx, EndShape, rows
<1>3. ASSUME CreateLock(u) PROVE EndShape(u)'
  BY <1>3, <1>0, <1>0a DEF CreateLock, Goto, rows, TypeOK, UploadShape, UploadPcs, CreatePcs,
      ActivatePcs, MarkPcs, StatusShape, CreateTx, ActivateTx, MarkTx, EndShape, rows
<1>4. ASSUME CreateInsert(u) PROVE EndShape(u)'
  BY <1>4, <1>0, <1>0a DEF CreateInsert, SendCommit, Goto, rows, TypeOK, UploadShape, UploadPcs,
      CreatePcs, ActivatePcs, MarkPcs, StatusShape, CreateTx, ActivateTx, MarkTx, EndShape, rows
<1>5. ASSUME CreateRefused(u) PROVE EndShape(u)'
  BY <1>5, <1>0, <1>0a, TxEffects DEF CreateRefused, Finish, Goto, Answer, rows, TypeOK,
      UploadShape, UploadPcs, CreatePcs, ActivatePcs, MarkPcs, StatusShape, CreateTx, ActivateTx,
      MarkTx, EndShape, rows
<1>6. ASSUME CreateReturns(u) PROVE EndShape(u)'
  BY <1>6, <1>0, <1>0a DEF CreateReturns, Goto, rows, locals, control, TypeOK, UploadShape,
      UploadPcs, CreatePcs, ActivatePcs, MarkPcs, StatusShape, CreateTx, ActivateTx, MarkTx,
      EndShape, rows
<1>7. ASSUME EmbedSucceeds(u) PROVE EndShape(u)'
  BY <1>7, <1>0, <1>0a DEF EmbedSucceeds, OpenTx, Goto, rows, locals, control, TypeOK, UploadShape,
      UploadPcs, CreatePcs, ActivatePcs, MarkPcs, StatusShape, CreateTx, ActivateTx, MarkTx,
      EndShape, rows
<1>8. ASSUME EmbedFails(u) PROVE EndShape(u)'
  BY <1>8, <1>0, <1>0a DEF EmbedFails, StartMark, Goto, rows, locals, control, TypeOK, UploadShape,
      UploadPcs, CreatePcs, ActivatePcs, MarkPcs, StatusShape, CreateTx, ActivateTx, MarkTx,
      EndShape, rows
<1>9. ASSUME ActivateLock(u) PROVE EndShape(u)'
  BY <1>9, <1>0, <1>0a DEF ActivateLock, Goto, rows, TypeOK, UploadShape, UploadPcs, CreatePcs,
      ActivatePcs, MarkPcs, StatusShape, CreateTx, ActivateTx, MarkTx, EndShape, rows
<1>10. ASSUME ActivateConflict(u) PROVE EndShape(u)'
  BY <1>10, <1>0, <1>0a, RaiseEffects DEF ActivateConflict, ActivateRaises, Goto, rows, locals,
      control, Deadlocked, TypeOK, UploadShape, UploadPcs, CreatePcs, ActivatePcs, MarkPcs,
      StatusShape, CreateTx, ActivateTx, MarkTx, EndShape, rows
<1>11. ASSUME ActivateSupersede(u) PROVE EndShape(u)'
  BY <1>11, <1>0, <1>0a DEF ActivateSupersede, Goto, rows, TypeOK, UploadShape, UploadPcs,
      CreatePcs, ActivatePcs, MarkPcs, StatusShape, CreateTx, ActivateTx, MarkTx, EndShape, rows
<1>12. ASSUME ActivateWrite(u) PROVE EndShape(u)'
  BY <1>12, <1>0, <1>0a DEF ActivateWrite, SendCommit, Goto, rows, locals, control, TypeOK,
      UploadShape, UploadPcs, CreatePcs, ActivatePcs, MarkPcs, StatusShape, CreateTx, ActivateTx,
      MarkTx, EndShape, rows
<1>13. ASSUME ActivateDuplicate(u) PROVE EndShape(u)'
  BY <1>13, <1>0, <1>0a, RaiseEffects DEF ActivateDuplicate, ActivateRaises, Goto, rows, locals,
      control, Deadlocked, TypeOK, UploadShape, UploadPcs, CreatePcs, ActivatePcs, MarkPcs,
      StatusShape, CreateTx, ActivateTx, MarkTx, EndShape, rows
<1>14. ASSUME ActivateReturns(u) PROVE EndShape(u)'
  BY <1>14, <1>0, <1>0a DEF ActivateReturns, Finish, Goto, Answer, rows, TypeOK, UploadShape,
      UploadPcs, CreatePcs, ActivatePcs, MarkPcs, StatusShape, CreateTx, ActivateTx, MarkTx,
      EndShape, rows
<1>15. ASSUME MarkLock(u) PROVE EndShape(u)'
  BY <1>15, <1>0, <1>0a DEF MarkLock, SendCommit, Goto, rows, locals, control, TypeOK, UploadShape,
      UploadPcs, CreatePcs, ActivatePcs, MarkPcs, StatusShape, CreateTx, ActivateTx, MarkTx,
      EndShape, rows
<1>16. ASSUME MarkConflict(u) PROVE EndShape(u)'
  BY <1>16, <1>0, <1>0a, TxEffects DEF MarkConflict, Finish, Goto, Answer, rows, TypeOK,
      UploadShape, UploadPcs, CreatePcs, ActivatePcs, MarkPcs, StatusShape, CreateTx, ActivateTx,
      MarkTx, EndShape, rows
<1>17. ASSUME MarkReturns(u) PROVE EndShape(u)'
  BY <1>17, <1>0, <1>0a DEF MarkReturns, Finish, Goto, Answer, rows, TypeOK, UploadShape, UploadPcs,
      CreatePcs, ActivatePcs, MarkPcs, StatusShape, CreateTx, ActivateTx, MarkTx, EndShape, rows
<1>18. ASSUME CommitCreate(u) PROVE EndShape(u)'
  BY <1>18, <1>0, CommitCreateEffects DEF EndShape, locals, control
<1>19. ASSUME CommitActivate(u) PROVE EndShape(u)'
  BY <1>19, <1>0, CommitActivateEffects DEF EndShape, locals, control
<1>20. ASSUME CommitMark(u) PROVE EndShape(u)'
  BY <1>20, <1>0, CommitMarkEffects DEF EndShape, locals, control
<1>21. ASSUME Cancel(u) PROVE EndShape(u)'
  <2>1. Abandon(u)
    BY <1>21 DEF Cancel
  <2>2. /\ CreateTx(u)' = IF CreateTx(u) = "open" THEN "aborted" ELSE CreateTx(u)
        /\ ActivateTx(u)' = IF ActivateTx(u) = "open" THEN "aborted" ELSE ActivateTx(u)
        /\ MarkTx(u)' = IF MarkTx(u) = "open" THEN "aborted"
                        ELSE IF Marked(u) THEN "open" ELSE MarkTx(u)
    BY <1>0, <2>1, AbandonedTx
  <2>3. IF Marked(u) THEN pc'[u] = "mark_lock" /\ reply' = reply
        ELSE /\ pc'[u] = "finished"
             /\ reply'[u] = "cancelled"
    BY <1>21, <1>0, <1>0a DEF Cancel, Unwind, Goto, Finish, Answer, TypeOK
  <2>4. pc[u] \in UploadPcs /\ earlier' = earlier /\ cancels'[u] = cancels[u] + 1
    BY <1>21, <1>0 DEF Cancel, TypeOK
  <2>5. QED
    BY <1>0, <2>2, <2>3, <2>4 DEF TypeOK, Marked, UploadShape, UploadPcs, CreatePcs, ActivatePcs,
        MarkPcs, StatusShape, EndShape
<1>22. ASSUME DatabaseError(u) PROVE EndShape(u)'
  <2>1. Abandon(u)
    BY <1>22 DEF DatabaseError
  <2>2. /\ CreateTx(u)' = IF CreateTx(u) = "open" THEN "aborted" ELSE CreateTx(u)
        /\ ActivateTx(u)' = IF ActivateTx(u) = "open" THEN "aborted" ELSE ActivateTx(u)
        /\ MarkTx(u)' = IF MarkTx(u) = "open" THEN "aborted"
                        ELSE IF Marked(u) THEN "open" ELSE MarkTx(u)
    BY <1>0, <2>1, AbandonedTx
  <2>3. IF Marked(u) THEN pc'[u] = "mark_lock" /\ reply' = reply
        ELSE /\ pc'[u] = "finished"
             /\ reply'[u] = IF pc[u] \in MarkPcs THEN "failure_recording_failed" ELSE "error"
    BY <1>22, <1>0, <1>0a DEF DatabaseError, Unwind, Goto, Finish, Answer, TypeOK
  <2>4. pc[u] \in UploadPcs /\ earlier' = earlier /\ faults' > 0
    BY <1>22, <1>0 DEF DatabaseError, TypeOK
  <2>5. QED
    BY <1>0, <2>2, <2>3, <2>4 DEF TypeOK, Marked, UploadShape, UploadPcs, CreatePcs, ActivatePcs,
        MarkPcs, StatusShape, EndShape
<1>23. ASSUME DeadlockFailsActivation(u) PROVE EndShape(u)'
  BY <1>23, <1>0, <1>0a, RaiseEffects DEF DeadlockFailsActivation, Deadlocked, ActivateRaises, Goto,
      rows, locals, control, TypeOK, UploadShape, UploadPcs, CreatePcs, ActivatePcs, MarkPcs,
      StatusShape, CreateTx, ActivateTx, MarkTx, EndShape, rows
<1>24. ASSUME NEW phase \in {"create", "activate", "mark"}, CommitLost(u, phase) PROVE EndShape(u)'
  BY <1>24 DEF CommitLost, locals, control, EndShape
<1>25. QED  BY <1>1, <1>2, <1>3, <1>4, <1>5, <1>6, <1>7, <1>8, <1>9, <1>10, <1>11, <1>12, <1>13,
    <1>14, <1>15, <1>16, <1>17, <1>18, <1>19, <1>20, <1>21, <1>22, <1>23, <1>24 DEF UploadStep,
    Create, Activate, Mark, Commit

\* What the steps of an actor do to the activations: each is attempted once,
\* in its own coroutine, and keeps its document.
LEMMA ActivationsProgress ==
  ASSUME IInv, ShapeInv', RowInv', NEW a, ActorStep(a), NEW w \in Uploads
  PROVE  /\ pc[w] = "finished" => pc'[w] = "finished"
         /\ ActivateTx(w) # "none" =>
              ActivateTx(w)' # "none" /\ versionDocument'[w] = versionDocument[w]
         /\ pc[w] = "finished" /\ ActivateTx(w)' = "committing" => ActivateTx(w) = "committing"
         /\ versionStatus'[w] = "active" =>
              \/ versionStatus[w] = "active"
              \/ w = a /\ CommitActivate(a) /\ ActivateTx(w) = "committing"
         /\ ActivateTx(w)' = "committed" => ActivateTx(w) = "committed" \/ (w = a /\ CommitActivate(a))
<1>1. /\ TypeOK /\ FrameOf(a) /\ UploadShape(w) /\ StatusShape(w) /\ ReplyShape(w)
      /\ UploadShape(w)' /\ StatusShape(w)'
  BY ActorFrame, CatalogFacts, UploadFacts DEF ShapeInv, RowInv
<1>2. ActivateTx(w) # "none" => versionDocument'[w] = versionDocument[w]
  <2>1. ActivateTx(w) # "none" => versionStatus[w] # "absent"
    BY <1>1 DEF UploadShape, StatusShape
  <2>2. CASE UNCHANGED catalog
    BY <2>2 DEF catalog
  <2>3. CASE CommitStep(a)
    BY <2>1, <2>3, VersionsProgress
  <2>4. QED  BY <1>1, <2>2, <2>3, ActorFrame
<1>3. versionStatus'[w] = "active" =>
        versionStatus[w] = "active" \/ (w = a /\ CommitActivate(a) /\ ActivateTx(w) = "committing")
  BY NewlyActive DEF CommitActivate, ActivateTx
<1>4. CASE w # a
  <2>1. KeepsUpload(w)
    BY <1>1, <1>4, OtherUpload
  <2>2. QED  BY <1>2, <1>3, <2>1 DEF KeepsUpload
<1>5. CASE w = a
  <2>1. UploadStep(w) /\ a \in Uploads
    BY <1>5, TxNames DEF ActorStep
  <2>2. CallProgress(w)
    BY <1>1, <2>1, OwnCallShape
  <2>3. CASE CommitCreate(w) \/ CommitActivate(w) \/ CommitMark(w)
    <3>1. ActivateTx(w)' = ActivateTx(w) \/ CommitActivate(w)
      BY <2>3, CommitCreateEffects, CommitMarkEffects
    <3>2. CommitActivate(w) => ActivateTx(w)' = "committed"
      BY CommitActivateEffects
    <3>3. QED  BY <1>2, <1>3, <1>5, <2>2, <3>1, <3>2 DEF CallProgress
  <2>4. CASE ~(CommitCreate(w) \/ CommitActivate(w) \/ CommitMark(w))
    <3>1. Progress(w)
      BY <1>1, <2>1, <2>4, UploadProgress
    <3>2. QED  BY <1>2, <1>3, <1>5, <2>2, <3>1 DEF CallProgress, Progress
  <2>5. QED  BY <2>3, <2>4
<1>6. QED  BY <1>4, <1>5

\* An activation that takes effect finds no other on its way to its document,
\* and supersedes the one that was active.
LEMMA ActivationEndsOthers ==
  ASSUME IInv, NEW u \in Uploads, CommitActivate(u), NEW w \in Uploads, w # u,
         versionDocument[w] = versionDocument[u]
  PROVE  ActivateTx(w) # "committing" /\ versionStatus'[w] # "active"
<1>1. ActivateTx(u) = "committing" /\ OneActiveVersion
  BY CommitActivateEffects, CatalogFacts
<1>2. ActivateTx(w) # "committing"
  BY <1>1 DEF OneActiveVersion
<1>3. ASSUME versionStatus'[w] = "active" PROVE FALSE
  <2>1. w # replaces[u] /\ versionStatus[w] = "active"
    BY <1>3, CommitActivateEffects
  <2>2. w \in ActiveVersions(versionDocument[u])
    BY <2>1 DEF ActiveVersions, VersionsOf, Existing
  <2>3. QED  BY <2>1, <2>2, CommitActivateEffects
<1>4. QED  BY <1>2, <1>3

LEMMA HistoryStep ==
  ASSUME IInv, ShapeInv', RowInv', NEW a, ActorStep(a), NEW u \in Uploads
  PROVE  HistoryShape(u)'
<1>1. /\ TypeOK /\ FrameOf(a) /\ UploadShape(u) /\ UploadShape(u)' /\ StatusShape(u)
      /\ StatusShape(u)' /\ ReplyShape(u) /\ HistoryShape(u)
  BY ActorFrame, CatalogFacts, UploadFacts DEF ShapeInv, RowInv
<1>2. CASE u = a /\ \E key \in SourceKeys : Upload(u, key)
  <2>1. pc[u] = "idle" /\ earlier'[u] = EndedActivations
    BY <1>1, <1>2 DEF Upload, TypeOK
  <2>2. ActivateTx(u)' = "none"
    <3>1. ActivateTx(u) = "none"
      BY <1>1, <2>1 DEF UploadShape
    <3>2. OpenTx(<<u, "create">>) /\ <<u, "create">> \in Transactions
      BY <1>2, TxNames DEF Upload
    <3>3. <<u, "activate">> \in Transactions /\ <<u, "activate">> # <<u, "create">>
      BY TxNames
    <3>4. ActivateTx(u)' = ActivateTx(u)
      BY <1>1, <3>2, <3>3 DEF OpenTx, TypeOK, ActivateTx
    <3>5. QED  BY <3>1, <3>4
  <2>3. ASSUME NEW w \in EndedActivations
        PROVE  w # u /\ pc'[w] = "finished" /\ ActivateTx(w)' # "none"
    <3>1. w \in Uploads /\ pc[w] = "finished" /\ ActivateTx(w) # "none"
      BY <2>3 DEF EndedActivations, ActivateTx
    <3>2. QED  BY <2>1, <3>1, ActivationsProgress
  <2>4. QED  BY <2>1, <2>2, <2>3 DEF HistoryShape
<1>3. CASE ~(u = a /\ \E key \in SourceKeys : Upload(u, key))
  <2>1. earlier'[u] = earlier[u]
    <3>1. CASE u # a
      BY <1>1, <3>1 DEF FrameOf
    <3>2. CASE u = a
      <4>1. UploadStep(u)
        BY <3>2, TxNames DEF ActorStep
      <4>2. CallProgress(u)
        BY <1>1, <4>1, OwnCallShape
      <4>3. QED  BY <1>3, <3>2, <4>2 DEF CallProgress
    <3>3. QED  BY <3>1, <3>2
  <2>2. ASSUME NEW w \in earlier[u]
        PROVE  /\ w # u
               /\ pc'[w] = "finished"
               /\ ActivateTx(w)' # "none"
               /\ ActivateTx(u)' = "committed" /\ versionDocument'[w] = versionDocument'[u] =>
                    ActivateTx(w)' # "committing" /\ versionStatus'[w] # "active"
    <3>1. w \in Uploads
      BY <1>1 DEF TypeOK
    <3>2. /\ w # u /\ pc[w] = "finished" /\ ActivateTx(w) # "none"
          /\ ActivateTx(u) = "committed" /\ versionDocument[w] = versionDocument[u] =>
               ActivateTx(w) # "committing" /\ versionStatus[w] # "active"
      BY <1>1 DEF HistoryShape
    <3>3. pc'[w] = "finished" /\ ActivateTx(w)' # "none" /\ versionDocument'[w] = versionDocument[w]
      BY <3>1, <3>2, ActivationsProgress
    <3>4. ActivateTx(w)' = "committing" => ActivateTx(w) = "committing"
      BY <3>1, <3>2, ActivationsProgress
    <3>5. versionStatus'[w] = "active" =>
            versionStatus[w] = "active" \/ ActivateTx(w) = "committing"
      BY <3>1, ActivationsProgress
    <3>6. CASE ActivateTx(u) = "committed"
      <4>1. versionDocument'[u] = versionDocument[u]
        BY <3>6, ActivationsProgress
      <4>2. QED  BY <3>2, <3>3, <3>4, <3>5, <3>6, <4>1
    <3>7. CASE ActivateTx(u) # "committed" /\ ActivateTx(u)' = "committed"
                 /\ versionDocument'[w] = versionDocument'[u]
      <4>1. CommitActivate(u)
        BY <3>7, ActivationsProgress
      <4>2. versionDocument[w] = versionDocument[u]
        BY <3>3, <3>7, <4>1, CommitActivateEffects
      <4>3. QED  BY <3>1, <3>2, <3>3, <3>4, <4>1, <4>2, ActivationEndsOthers
    <3>8. QED  BY <3>2, <3>3, <3>6, <3>7
  <2>3. QED  BY <2>1, <2>2 DEF HistoryShape
<1>4. QED  BY <1>2, <1>3

LEMMA CallsStep ==
  ASSUME IInv, ShapeInv', RowInv', [Next]_vars
  PROVE  CallInv'
<1>1. ASSUME NEW a, ActorStep(a), NEW u \in Uploads PROVE ReplyShape(u)' /\ EndShape(u)'
  <2>1. /\ TypeOK /\ FrameOf(a) /\ UploadShape(u) /\ StatusShape(u) /\ ReplyShape(u) /\ EndShape(u)
        /\ UploadShape(u)' /\ StatusShape(u)'
    BY <1>1, ActorFrame, CatalogFacts, UploadFacts DEF ShapeInv, RowInv
  <2>2. CASE u # a
    <3>1. KeepsUpload(u) /\ u \in Actors
      BY <2>1, <2>2, OtherUpload, TxNames
    <3>2. reply'[u] = reply[u] /\ cancels'[u] = cancels[u] /\ (faults > 0 => faults' > 0)
      BY <2>1, <2>2, <3>1 DEF FrameOf
    <3>3. versionStatus[u] # "building" => versionStatus[u] = "absent" \/ versionStatus'[u] # "building"
      BY <1>1, <2>2, OthersEffect
    <3>4. ReplyShape(u)'
      BY <2>1, <3>1, <3>2 DEF KeepsUpload, ReplyShape
    <3>5. EndShape(u)'
      BY <2>1, <3>1, <3>2, <3>3 DEF KeepsUpload, EndShape, StatusShape
    <3>6. QED  BY <3>4, <3>5
  <2>3. CASE u = a
    <3>1. UploadStep(u)
      BY <1>1, <2>3, TxNames DEF ActorStep
    <3>2. QED  BY <2>1, <3>1, OwnCallShape, OwnEndShape
  <2>4. QED  BY <2>2, <2>3
<1>2. ASSUME Crash, NEW u \in Uploads PROVE HistoryShape(u)' /\ ReplyShape(u)' /\ EndShape(u)'
  <2>1. TypeOK /\ UploadShape(u) /\ ReplyShape(u) /\ HistoryShape(u)
    BY CatalogFacts, UploadFacts
  <2>2. ASSUME NEW w \in Uploads
        PROVE  /\ pc[w] = "finished" => pc'[w] = "finished"
               /\ ActivateTx(w)' = IF ActivateTx(w) = "open" THEN "aborted" ELSE ActivateTx(w)
    BY <1>2, <2>1, TxNames, CrashEffects DEF ActivateTx
  <2>3. UNCHANGED <<rows, reply, earlier>> /\ faults' > 0
    BY <1>2, <2>1, CrashEffects
  <2>4. HistoryShape(u)'
    <3>1. \A w \in earlier[u] : w \in Uploads
      BY <2>1 DEF TypeOK
    <3>2. QED  BY <2>1, <2>2, <2>3, <3>1 DEF HistoryShape, rows
  <2>5. QED  BY <2>1, <2>2, <2>3, <2>4 DEF ReplyShape, EndShape
<1>3. CASE UNCHANGED vars
  <2>1. UNCHANGED <<versionDocument, versionStatus, tx, pc, reply, earlier, cancels, faults>>
    BY <1>3 DEF vars, rows, locals, control
  <2>2. ASSUME NEW u \in Uploads PROVE HistoryShape(u)' /\ ReplyShape(u)' /\ EndShape(u)'
    <3>1. HistoryShape(u) /\ ReplyShape(u) /\ EndShape(u)
      BY UploadFacts
    <3>2. HistoryShape(u)'
      BY <2>1, <3>1 DEF HistoryShape, ActivateTx
    <3>3. ReplyShape(u)' /\ EndShape(u)'
      BY <2>1, <3>1 DEF ReplyShape, EndShape, CreateTx, ActivateTx, MarkTx
    <3>4. QED  BY <3>2, <3>3
  <2>3. QED  BY <2>2 DEF CallInv
<1>4. QED  BY <1>1, <1>2, <1>3, HistoryStep, StepCases DEF CallInv

-----------------------------------------------------------------------------
(* Types and numbers                                                       *)

LEMMA TypesStep ==
  ASSUME TypeOK, NumbersBounded, [Next]_vars
  PROVE  TypeOK'
<1>1. CASE Crash
  <2>1. UNCHANGED <<rows, found, number, replaces, reply, cancels, earlier>>
    BY <1>1, CrashEffects
  <2>2. tx' \in [Transactions -> TxStates] /\ faults' \in Nat
    BY <1>1 DEF Crash, TypeOK, TxStates
  <2>3. holds' \in [Transactions -> SUBSET Rows] /\ shares' \in [Transactions -> SUBSET Uploads]
    BY <1>1 DEF Crash, ReleaseAll, TypeOK
  <2>4. pc' \in [Actors -> {"idle", "finished"} \union UploadPcs \union DeletePcs]
    BY <1>1 DEF Crash, TypeOK
  <2>5. QED  BY <2>1, <2>2, <2>3, <2>4 DEF TypeOK, rows
<1>2. CASE UNCHANGED vars
  BY <1>2 DEF TypeOK, vars, rows, locals, control
<1>3. QED  BY <1>1, <1>2, UploadTypes, DeletionTypes, NextCases

\* A create computes the number after the largest of its document.
LEMMA NumbersStep ==
  ASSUME IInv, [Next]_vars
  PROVE  NumbersBounded'
<1>1. TypeOK
  BY CatalogFacts
<1>2. PICK n \in Nat : \A v \in Uploads : versionNumber[v] <= n /\ number[v] <= n
  BY CatalogFacts DEF NumbersBounded
<1>3. \A v \in Uploads : versionNumber[v] \in Nat /\ number[v] \in Nat
  BY <1>1 DEF TypeOK
<1>4. ASSUME NEW a, ActorStep(a) PROVE NumbersBounded'
  <2>1. ASSUME NEW v \in Uploads PROVE versionNumber'[v] <= n + 1
    <3>1. versionNumber'[v] \in {versionNumber[v], number[v]}
      <4>1. CASE UNCHANGED catalog
        BY <4>1 DEF catalog
      <4>2. CASE a \in Uploads /\ CommitCreate(a)
        <5>1. CASE v = a
          BY <4>2, <5>1, CommitCreateEffects
        <5>2. CASE v # a
          BY <4>2, <5>2, CommitCreateEffects
        <5>3. QED  BY <5>1, <5>2
      <4>3. CASE a \in Uploads /\ CommitActivate(a)
        BY <4>3, CommitActivateEffects
      <4>4. CASE a \in Uploads /\ CommitMark(a)
        BY <4>4, CommitMarkEffects
      <4>5. CASE a \in Deletions /\ CommitDelete(a)
        BY <4>5, CommitDeleteEffects
      <4>6. QED  BY <1>1, <1>4, <4>1, <4>2, <4>3, <4>4, <4>5, ActorFrame DEF CommitStep
    <3>2. QED  BY <1>2, <1>3, <3>1
  <2>2. ASSUME NEW v \in Uploads PROVE number'[v] <= n + 1
    <3>1. CASE v # a
      BY <1>1, <1>2, <1>3, <1>4, <3>1, ActorFrame DEF FrameOf
    <3>2. CASE v = a /\ CreateInsert(v)
      <4>1. number'[v] = NextVersion(found[v])
        BY <1>1, <3>2 DEF CreateInsert, TypeOK
      <4>2. PICK last \in {versionNumber[w] : w \in VersionsOf(found[v])} \union {0} :
              NextVersion(found[v]) = last + 1
        BY <1>1, <1>2, NextVersionFollows DEF NumbersBounded
      <4>3. last \in Nat /\ last <= n
        BY <1>2, <1>3, <4>2 DEF VersionsOf
      <4>4. QED  BY <4>1, <4>2, <4>3
    <3>3. CASE v = a /\ ~CreateInsert(v)
      <4>1. UploadStep(v)
        BY <1>4, <3>3, TxNames DEF ActorStep
      <4>2. UNCHANGED number
        BY <1>1, <3>3, <4>1, UploadFrame
      <4>3. QED  BY <1>2, <1>3, <4>2
    <3>4. QED  BY <3>1, <3>2, <3>3
  <2>3. n + 1 \in Nat
    OBVIOUS
  <2>4. QED  BY <2>1, <2>2, <2>3 DEF NumbersBounded
<1>5. CASE Crash
  BY <1>1, <1>2, <1>5, CrashEffects DEF NumbersBounded, rows
<1>6. CASE UNCHANGED vars
  BY <1>2, <1>6 DEF NumbersBounded, vars, rows, locals, control
<1>7. QED  BY <1>4, <1>5, <1>6, StepCases

-----------------------------------------------------------------------------
(* The theorems                                                            *)

LEMMA InitiallyConsistent ==
  ASSUME Init
  PROVE  IInv
<1>1. TypeOK
  <2>1. documents = {} /\ versionStatus = [u \in Uploads |-> "absent"]
    BY DEF Init
  <2>2. sourceKey = [u \in Uploads |-> Nothing]
    BY DEF Init
  <2>3. DOMAIN sourceKey = Uploads
    BY <2>2
  <2>4. QED  BY <2>3 DEF Init, TypeOK, Statuses, TxStates, Replies
<1>2. NumbersBounded
  <2>1. \A v \in Uploads : versionNumber[v] <= 0 /\ number[v] <= 0
    BY DEF Init
  <2>2. 0 \in Nat
    OBVIOUS
  <2>3. QED  BY <2>1, <2>2 DEF NumbersBounded
<1>3. ASSUME NEW u \in Uploads
      PROVE  /\ CreateTx(u) = "none" /\ ActivateTx(u) = "none" /\ MarkTx(u) = "none"
             /\ pc[u] = "idle" /\ versionStatus[u] = "absent" /\ earlier[u] = {} /\ reply[u] = "none"
             /\ ~Creating(u) /\ ~Activating(u) /\ ~Switching(u)
             /\ \A phase \in {"create", "activate", "mark"} :
                  holds[<<u, phase>>] = {} /\ shares[<<u, phase>>] = {}
  BY TxNames DEF Init, CreateTx, ActivateTx, MarkTx, Creating, Activating, Switching
<1>4. ASSUME NEW d \in Deletions
      PROVE  /\ DeleteTx(d) = "none" /\ pc[d] = "idle" /\ ~Deleting(d)
             /\ holds[<<d, "delete">>] = {} /\ shares[<<d, "delete">>] = {}
  BY TxNames DEF Init, DeleteTx, Deleting
<1>5. ASSUME NEW u \in Uploads PROVE UploadShape(u) /\ UploadLocks(u)
  BY <1>3 DEF UploadShape, UploadPcs, CreatePcs, ActivatePcs, MarkPcs, UploadLocks, CreateLocks,
     ActivateLocks, MarkLocks
<1>6. ASSUME NEW u \in Uploads
      PROVE  /\ StatusShape(u) /\ CreateShape(u) /\ ActivateShape(u)
             /\ HistoryShape(u) /\ ReplyShape(u) /\ EndShape(u)
  BY <1>3 DEF StatusShape, CreateShape, ActivateShape, HistoryShape, ReplyShape, EndShape
<1>7. ASSUME NEW d \in Deletions PROVE DeletionShape(d) /\ DeletionLocks(d) /\ DeleteShape(d)
  BY <1>4 DEF DeletionShape, DeletePcs, DeletionLocks, DeleteShape
<1>8. LocksExclude
  BY DEF Init, LocksExclude
<1>9. documents = {} /\ \A v \in Uploads : versionStatus[v] = "absent"
  BY DEF Init
<1>10. DocumentShape /\ NamesAreUnique /\ VersionsHaveDocuments
  BY <1>9 DEF DocumentShape, NamesAreUnique, VersionsHaveDocuments, Existing
<1>11. OneActiveVersion
  BY <1>3, <1>9 DEF OneActiveVersion
<1>12. QED
  BY <1>1, <1>2, <1>5, <1>6, <1>7, <1>8, <1>10, <1>11 DEF IInv, ShapeInv, LockInv, RowInv, CallInv

\* However uploads, deletions, cancellations, errors and crashes interleave,
\* every row lock, transaction and committed row is where the coroutines of
\* ingestion_repository.py and document_repository.py rely on it to be.
THEOREM IngestionIsConsistent == Spec => []IInv
<1>1. IInv /\ [Next]_vars => IInv'
  <2> SUFFICES ASSUME IInv, [Next]_vars PROVE IInv'
    OBVIOUS
  <2>1. TypeOK' /\ NumbersBounded'
    BY TypesStep, NumbersStep, CatalogFacts
  <2>2. ShapeInv'
    BY ShapesStep, CatalogFacts
  <2>3. LockInv'
    BY <2>2, LocksStep
  <2>4. RowInv'
    BY <2>2, RowsStep
  <2>5. CallInv'
    BY <2>2, <2>4, CallsStep
  <2>6. QED  BY <2>1, <2>2, <2>3, <2>4, <2>5 DEF IInv
<1>2. QED  BY <1>1, InitiallyConsistent, PTL DEF Spec

\* The committed catalog: one document for a source key, one version for a
\* number, no version without its document, and an upload that had ended
\* before another began never takes its place again.
THEOREM CatalogStaysConsistent == Spec => []CatalogIsConsistent
<1>1. IInv => CatalogIsConsistent
  <2> SUFFICES ASSUME IInv PROVE CatalogIsConsistent
    OBVIOUS
  <2>1. ASSUME NEW u \in Uploads, NEW w \in Uploads, w \in earlier[u],
               versionStatus[u] = "superseded", versionDocument[u] = versionDocument[w]
        PROVE  versionStatus[w] # "active"
    BY <2>1, UploadFacts DEF HistoryShape, StatusShape
  <2>2. EndedUploadsStayReplaced
    BY <2>1 DEF EndedUploadsStayReplaced
  <2>3. QED  BY <2>2, CatalogFacts DEF CatalogIsConsistent
<1>2. QED  BY <1>1, IngestionIsConsistent, PTL

\* The route answers 201 only for a version that was activated, and what was
\* answered with an error was not activated and never will be.
THEOREM RepliesAreHonest == Spec => []ReplyIsHonest
<1>1. IInv => ReplyIsHonest
  <2> SUFFICES ASSUME IInv, NEW u \in Uploads
               PROVE  /\ reply[u] = "created" => versionStatus[u] \in {"active", "superseded", "deleted"}
                      /\ reply[u] = "error" => versionStatus[u] \notin {"active", "superseded"}
    BY DEF ReplyIsHonest
  <2>1. QED  BY UploadFacts DEF ReplyShape, StatusShape
<1>2. QED  BY <1>1, IngestionIsConsistent, PTL

\* A version is left building only by a database error, a crash, a second
\* cancellation, or one that hit the create or rolled back the recording.
THEOREM OrphanVersionsAreExplained == Spec => []BuildingOrphansHaveACause
<1>1. IInv => BuildingOrphansHaveACause
  <2> SUFFICES ASSUME IInv, NEW u \in Uploads, versionStatus[u] = "building", pc[u] = "finished",
                      \A phase \in {"create", "activate", "mark"} : tx[<<u, phase>>] # "committing"
               PROVE  \/ faults > 0
                      \/ cancels[u] > 1
                      \/ cancels[u] = 1 /\ tx[<<u, "activate">>] = "none" /\ tx[<<u, "mark">>] = "none"
                      \/ cancels[u] = 1 /\ tx[<<u, "mark">>] = "aborted"
    BY DEF BuildingOrphansHaveACause
  <2>1. QED
    BY UploadFacts DEF EndShape, StatusShape, CreateTx, ActivateTx, MarkTx
<1>2. QED  BY <1>1, IngestionIsConsistent, PTL

-----------------------------------------------------------------------------
(* The committed rows implement the document index                         *)

LEMMA VersionsOfTheIndex ==
  ASSUME NEW doc
  PROVE  Index!VersionsOf(doc) = VersionsOf(doc)
BY DEF Index!VersionsOf, VersionsOf, Existing

LEMMA CreateBuilds ==
  ASSUME IInv, NEW u \in Uploads, CommitCreate(u)
  PROVE  \E doc \in Uploads : Index!Build(u, doc)
<1>1. found[u] \in Uploads /\ versionStatus[u] = "absent" /\ CreateTx(u) = "committing"
  BY CommitCreateEffects
<1>2. NumberIsNext(u)
  BY <1>1, UploadFacts DEF CreateShape
<1>3. PICK last \in {versionNumber[w] : w \in VersionsOf(found[u])} \union {0} :
        (\A w \in VersionsOf(found[u]) : versionNumber[w] <= last) /\ number[u] = last + 1
  BY <1>2 DEF NumberIsNext
<1>4. /\ versionNumber' = [versionNumber EXCEPT ![u] = last + 1]
      /\ versionDocument' = [versionDocument EXCEPT ![u] = found[u]]
      /\ versionStatus' = [versionStatus EXCEPT ![u] = "building"]
  BY <1>3 DEF CommitCreate
<1>5. Index!Build(u, found[u])
  BY <1>1, <1>3, <1>4, VersionsOfTheIndex DEF Index!Build
<1>6. QED  BY <1>1, <1>5

LEMMA ActivatePublishes ==
  ASSUME IInv, NEW u \in Uploads, CommitActivate(u)
  PROVE  Index!Publish(u)
<1>1. versionStatus[u] = "building" /\ UNCHANGED <<versionDocument, versionNumber>>
  BY CommitActivateEffects
<1>2. ASSUME NEW v \in Uploads, v # u
      PROVE  v = replaces[u] <=> v \in VersionsOf(versionDocument[u]) /\ versionStatus[v] = "active"
  <2>1. v = replaces[u] => versionStatus[v] = "active" /\ versionDocument[v] = versionDocument[u]
    BY CommitActivateEffects
  <2>2. v \in ActiveVersions(versionDocument[u]) => v = replaces[u]
    BY CommitActivateEffects
  <2>3. QED  BY <2>1, <2>2 DEF ActiveVersions, VersionsOf, Existing
<1>3. versionStatus' = [v \in Uploads |->
        IF v = u THEN "active"
        ELSE IF v \in VersionsOf(versionDocument[u]) /\ versionStatus[v] = "active" THEN "superseded"
        ELSE versionStatus[v]]
  <2>1. versionStatus' = [v \in Uploads |->
          IF v = u THEN "active" ELSE IF v = replaces[u] THEN "superseded" ELSE versionStatus[v]]
    BY DEF CommitActivate
  <2>2. QED  BY <1>2, <2>1
<1>4. Index!VersionsOf(versionDocument[u]) = VersionsOf(versionDocument[u])
  BY VersionsOfTheIndex
<1>5. QED  BY <1>1, <1>3, <1>4 DEF Index!Publish

LEMMA DeleteRemoves ==
  ASSUME IInv, NEW d \in Deletions, CommitDelete(d)
  PROVE  \E doc \in Uploads : Index!Remove(doc)
<1>1. found[d] \in documents /\ UNCHANGED <<versionDocument, versionNumber>>
  BY CommitDeleteEffects
<1>2. found[d] \in Uploads /\ found[d] \in VersionsOf(found[d])
  BY <1>1, CatalogFacts DEF TypeOK, DocumentShape, VersionsOf
<1>3. \A v \in Uploads : Version(v) \in holds[<<d, "delete">>] <=> v \in VersionsOf(found[d])
  BY CommitDeleteEffects
<1>4. versionStatus' = [v \in Uploads |->
        IF v \in VersionsOf(found[d]) THEN "deleted" ELSE versionStatus[v]]
  BY <1>3 DEF CommitDelete
<1>5. Index!Remove(found[d])
  BY <1>1, <1>2, <1>4, VersionsOfTheIndex DEF Index!Remove
<1>6. QED  BY <1>2, <1>5

LEMMA IndexStep ==
  ASSUME IInv, [Next]_vars
  PROVE  [Index!IndexNext]_(Index!indexVars)
<1>1. ASSUME NEW a, ActorStep(a) PROVE [Index!IndexNext]_(Index!indexVars)
  <2>1. CASE UNCHANGED catalog
    BY <2>1 DEF catalog, Index!indexVars
  <2>2. CASE a \in Uploads /\ CommitCreate(a)
    BY <2>2, CreateBuilds DEF Index!IndexNext
  <2>3. CASE a \in Uploads /\ CommitActivate(a)
    BY <2>3, ActivatePublishes DEF Index!IndexNext
  <2>4. CASE a \in Uploads /\ CommitMark(a)
    <3>1. Index!Fail(a)
      BY <2>4, CommitMarkEffects DEF CommitMark, Index!Fail
    <3>2. QED  BY <2>4, <3>1 DEF Index!IndexNext
  <2>5. CASE a \in Deletions /\ CommitDelete(a)
    BY <2>5, DeleteRemoves DEF Index!IndexNext
  <2>6. QED  BY <1>1, <2>1, <2>2, <2>3, <2>4, <2>5, ActorFrame, CatalogFacts DEF CommitStep
<1>2. CASE Crash
  BY <1>2, CrashEffects, CatalogFacts DEF rows, Index!indexVars
<1>3. CASE UNCHANGED vars
  BY <1>3 DEF vars, rows, Index!indexVars
<1>4. QED  BY <1>1, <1>2, <1>3, StepCases

\* Uploads and deletions are atomic operations on an index of numbered
\* versions: each takes effect in the COMMIT of one transaction, publishing
\* replaces the published version in the same step, and nothing else ever
\* changes what retrieval can see.
THEOREM IngestionImplementsIndex == Spec => ImplementsDocumentIndex
<1>1. Init => Index!IndexInit
  BY DEF Init, Index!IndexInit
<1>2. IInv /\ [Next]_vars => [Index!IndexNext]_(Index!indexVars)
  BY IndexStep
<1>3. QED
  BY <1>1, <1>2, IngestionIsConsistent, PTL DEF Spec, ImplementsDocumentIndex, Index!IndexSpec
=============================================================================
