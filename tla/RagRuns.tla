------------------------------ MODULE RagRuns ------------------------------
(***************************************************************************)
(* The life of public chat requests against the conversation store:       *)
(* PersistentStreamingRagPipeline (application/persistent_rag.py) around   *)
(* SqlAlchemyRagRunRepository (infrastructure/persistence/                 *)
(* rag_run_repository.py).                                                 *)
(*                                                                         *)
(* A request is a coroutine that runs up to three transactions, one per    *)
(* phase: begin_run, complete_run and _mark_terminal (fail_run or          *)
(* cancel_run).  A transaction takes row locks as its statements run,      *)
(* writes nothing another transaction can see before its COMMIT takes      *)
(* effect, and drops its locks when it ends.  SQLAlchemy sends COMMIT from *)
(* a shielded task, so a cancelled caller leaves at once while its COMMIT  *)
(* is still on the way: the coroutine and its transaction are separate     *)
(* here, and "committing" is the state in between.                         *)
(*                                                                         *)
(* The unique indexes of models.py are not guards of the model; that no    *)
(* commit ever needs them is what OneRunningPerConversation and            *)
(* OrdinalsUnique say.                                                     *)
(***************************************************************************)
EXTENDS Naturals

CONSTANTS Requests,         \* public chat requests (each one stream() call)
          Conversations,    \* conversation ids
          NoConversation,   \* no conversation id yet
          Free,             \* a row lock nobody holds
          MaxCancels,       \* cancellations one request may receive
          MaxFaults         \* database errors and process crashes in a behaviour

Phases == {"begin", "complete", "mark"}

ASSUME RagRunsAssumption ==
  /\ NoConversation \notin Conversations
  /\ Free \notin Requests \X Phases
  /\ MaxCancels \in Nat
  /\ MaxFaults \in Nat

VARIABLES
  \* committed rows
  conversations,     \* ids that have a row
  runConversation,   \* conversation_id of the run row of each request
  runStatus,         \* status of the run row, "absent" before begin_run commits
  userOrdinal,       \* ordinal of the user message of the run, 0 when there is none
  assistantOrdinal,  \* ordinal of its assistant message, 0 when there is none
  \* transactions and row locks
  tx,                \* tx[r][phase]: "none", "open", "committing", "committed", "aborted"
  conversationLock,  \* the transaction holding each conversation row
  runLock,           \* the phase holding each run row, "free" when nobody does
  \* coroutines
  pc,                \* the await each request is suspended at
  target,            \* its conversation_id
  ordinal,           \* the ordinal its current transaction computed
  outcome,           \* the outcome its inner pipeline finished with
  verdict,           \* the status _mark_terminal is to write
  seen,              \* the last lifecycle event it handed to the SSE stream
  cancels,           \* cancellations it received
  faults             \* database errors and crashes so far

rows == <<conversations, runConversation, runStatus, userOrdinal, assistantOrdinal>>
locals == <<target, ordinal, outcome, verdict, seen, cancels, faults>>
vars == <<rows, tx, conversationLock, runLock, pc, locals>>

Outcomes == {"completed", "clarification", "no_context"}
Answered == {"completed", "clarification"}
Verdicts == {"failed", "cancelled"}
Terminal == Outcomes \union Verdicts

BeginPcs == {"begin_conversation", "begin_record", "begin_commit"}
CompletePcs == {"complete_run", "complete_conversation", "complete_commit"}
MarkPcs == {"mark_run", "mark_conversation", "mark_commit"}
ActivePcs == BeginPcs \union {"streaming"} \union CompletePcs \union {"done"} \union MarkPcs
Pcs == ActivePcs \union {"idle", "finished"}

TxPcs == BeginPcs \union CompletePcs \union MarkPcs
CommitPc == [begin |-> "begin_commit", complete |-> "complete_commit", mark |-> "mark_commit"]

RunsOf(c) == {r \in Requests : runConversation[r] = c}
Ordinals(c) ==
  ({userOrdinal[r] : r \in RunsOf(c)} \union {assistantOrdinal[r] : r \in RunsOf(c)}) \ {0}

\* coalesce(max(ordinal), 0) + 1 over the committed messages of the conversation.
NextOrdinal(c) ==
  1 + (CHOOSE last \in Ordinals(c) \union {0} : \A n \in Ordinals(c) : n <= last)

Init ==
  /\ conversations = {}
  /\ runConversation = [r \in Requests |-> NoConversation]
  /\ runStatus = [r \in Requests |-> "absent"]
  /\ userOrdinal = [r \in Requests |-> 0]
  /\ assistantOrdinal = [r \in Requests |-> 0]
  /\ tx = [r \in Requests |-> [phase \in Phases |-> "none"]]
  /\ conversationLock = [c \in Conversations |-> Free]
  /\ runLock = [r \in Requests |-> "free"]
  /\ pc = [r \in Requests |-> "idle"]
  /\ target = [r \in Requests |-> NoConversation]
  /\ ordinal = [r \in Requests |-> 0]
  /\ outcome = [r \in Requests |-> "none"]
  /\ verdict = [r \in Requests |-> "none"]
  /\ seen = [r \in Requests |-> "nothing"]
  /\ cancels = [r \in Requests |-> 0]
  /\ faults = 0

-----------------------------------------------------------------------------
(* Transactions (external: PostgreSQL and the SQLAlchemy session)          *)

Goto(r, p) == pc' = [pc EXCEPT ![r] = p]
Tell(r, event) == seen' = [seen EXCEPT ![r] = event]

OpenTx(r, phase) == tx' = [tx EXCEPT ![r][phase] = "open"]
SendCommit(r, phase) == tx' = [tx EXCEPT ![r][phase] = "committing"]

\* Mutant: the SELECT loses its FOR UPDATE and does not wait.
LockConversationWithoutWaiting(r, phase) ==
  conversationLock' = [conversationLock EXCEPT ![target[r]] = <<r, phase>>]

LockConversation(r, phase) ==
  /\ conversationLock[target[r]] = Free
  /\ conversationLock' = [conversationLock EXCEPT ![target[r]] = <<r, phase>>]

Unlock(ended) ==
  /\ conversationLock' = [c \in Conversations |->
       IF conversationLock[c] \in ended THEN Free ELSE conversationLock[c]]
  /\ runLock' = [r \in Requests |-> IF <<r, runLock[r]>> \in ended THEN "free" ELSE runLock[r]]

\* The transaction of r in this phase ends as `how` and its row locks go.
EndTx(r, phase, how) ==
  /\ tx' = [tx EXCEPT ![r][phase] = how]
  /\ Unlock({<<r, phase>>})

OpenTxs(S) == {t \in S \X Phases : tx[t[1]][t[2]] = "open"}

-----------------------------------------------------------------------------
(* begin_run                                                               *)

\* A client continues the conversation c, or sends an id nobody issued.
Call(r, c) ==
  /\ pc[r] = "idle"
  /\ target' = [target EXCEPT ![r] = c]
  /\ Goto(r, "begin_conversation")
  /\ OpenTx(r, "begin")
  /\ UNCHANGED <<rows, conversationLock, runLock, ordinal, outcome, verdict, seen, cancels, faults>>

\* A request without an id gets a fresh one; inserting its row locks it.
CallNew(r, c) ==
  /\ pc[r] = "idle"
  /\ \A q \in Requests : target[q] # c
  /\ target' = [target EXCEPT ![r] = c]
  /\ Goto(r, "begin_record")
  /\ OpenTx(r, "begin")
  /\ conversationLock' = [conversationLock EXCEPT ![c] = <<r, "begin">>]
  /\ UNCHANGED <<rows, runLock, ordinal, outcome, verdict, seen, cancels, faults>>

\* SELECT ... FOR UPDATE waits for the row, or finds no committed row at all.
BeginLock(r) ==
  /\ pc[r] = "begin_conversation"
  /\ target[r] \in conversations
  /\ LockConversation(r, "begin")
  /\ Goto(r, "begin_record")
  /\ UNCHANGED <<rows, tx, runLock, locals>>

BeginNotFound(r) ==
  /\ pc[r] = "begin_conversation"
  /\ target[r] \notin conversations
  /\ EndTx(r, "begin", "aborted")
  /\ Goto(r, "finished")
  /\ Tell(r, "error")
  /\ UNCHANGED <<rows, target, ordinal, outcome, verdict, cancels, faults>>

Busy(c) == \E q \in RunsOf(c) : runStatus[q] = "running"

BeginBusy(r) ==
  /\ pc[r] = "begin_record"
  /\ Busy(target[r])
  /\ EndTx(r, "begin", "aborted")
  /\ Goto(r, "finished")
  /\ Tell(r, "error")
  /\ UNCHANGED <<rows, target, ordinal, outcome, verdict, cancels, faults>>

\* Mutant: begin_run does not look for a running run.
BeginRecordUnchecked(r) ==
  /\ pc[r] = "begin_record"
  /\ ordinal' = [ordinal EXCEPT ![r] = NextOrdinal(target[r])]
  /\ SendCommit(r, "begin")
  /\ Goto(r, "begin_commit")
  /\ UNCHANGED <<rows, conversationLock, runLock, target, outcome, verdict, seen, cancels, faults>>

BeginRecord(r) ==
  /\ pc[r] = "begin_record"
  /\ ~Busy(target[r])
  /\ ordinal' = [ordinal EXCEPT ![r] = NextOrdinal(target[r])]
  /\ SendCommit(r, "begin")
  /\ Goto(r, "begin_commit")
  /\ UNCHANGED <<rows, conversationLock, runLock, target, outcome, verdict, seen, cancels, faults>>

\* begin_run returns and the first event, reply_to, goes out.
BeginReturns(r) ==
  /\ pc[r] = "begin_commit"
  /\ tx[r]["begin"] = "committed"
  /\ Goto(r, "streaming")
  /\ Tell(r, "reply_to")
  /\ UNCHANGED <<rows, tx, conversationLock, runLock, target, ordinal, outcome, verdict, cancels, faults>>

-----------------------------------------------------------------------------
(* The inner pipeline, and complete_run                                    *)

\* The inner pipeline yields done: stream() builds the completion and calls complete_run.
InnerDone(r, result) ==
  /\ pc[r] = "streaming"
  /\ outcome' = [outcome EXCEPT ![r] = result]
  /\ OpenTx(r, "complete")
  /\ Goto(r, "complete_run")
  /\ UNCHANGED <<rows, conversationLock, runLock, target, ordinal, verdict, seen, cancels, faults>>

\* The inner pipeline raises, breaks the event protocol, ends without done or
\* finishes with a completion that does not validate.
InnerRaises(r) ==
  /\ pc[r] = "streaming"
  /\ verdict' = [verdict EXCEPT ![r] = "failed"]
  /\ OpenTx(r, "mark")
  /\ Goto(r, "mark_run")
  /\ UNCHANGED <<rows, conversationLock, runLock, target, ordinal, outcome, seen, cancels, faults>>

\* complete_run is the first to lock the run row of its own request, so the
\* run_state_conflict of _lock_running_run cannot arise here .
CompleteLockRun(r) ==
  /\ pc[r] = "complete_run"
  /\ runLock[r] = "free"
  /\ runStatus[r] = "running"
  /\ runLock' = [runLock EXCEPT ![r] = "complete"]
  /\ Goto(r, "complete_conversation")
  /\ UNCHANGED <<rows, tx, conversationLock, locals>>

\* Under both row locks: the assistant message takes the next ordinal, the
\* terminal fields are flushed and COMMIT is sent.
CompleteWrite(r) ==
  /\ pc[r] = "complete_conversation"
  /\ LockConversation(r, "complete")
  /\ ordinal' = [ordinal EXCEPT ![r] = NextOrdinal(target[r])]
  /\ SendCommit(r, "complete")
  /\ Goto(r, "complete_commit")
  /\ UNCHANGED <<rows, runLock, target, outcome, verdict, seen, cancels, faults>>

\* Mutant: done is handed out while the COMMIT is on its way.
CompleteReturnsEarly(r) ==
  /\ pc[r] = "complete_commit"
  /\ Goto(r, "done")
  /\ UNCHANGED <<rows, tx, conversationLock, runLock, locals>>

CompleteReturns(r) ==
  /\ pc[r] = "complete_commit"
  /\ tx[r]["complete"] = "committed"
  /\ Goto(r, "done")
  /\ UNCHANGED <<rows, tx, conversationLock, runLock, locals>>

DeliverDone(r) ==
  /\ pc[r] = "done"
  /\ Tell(r, "done")
  /\ Goto(r, "finished")
  /\ UNCHANGED <<rows, tx, conversationLock, runLock, target, ordinal, outcome, verdict, cancels, faults>>

-----------------------------------------------------------------------------
(* fail_run and cancel_run: _mark_terminal                                 *)

\* Mutant: _mark_terminal writes over whatever status the run has.
MarkLockRunUnchecked(r) ==
  /\ pc[r] = "mark_run"
  /\ runLock[r] = "free"
  /\ runLock' = [runLock EXCEPT ![r] = "mark"]
  /\ Goto(r, "mark_conversation")
  /\ UNCHANGED <<rows, tx, conversationLock, locals>>

MarkLockRun(r) ==
  /\ pc[r] = "mark_run"
  /\ runLock[r] = "free"
  /\ runStatus[r] = "running"
  /\ runLock' = [runLock EXCEPT ![r] = "mark"]
  /\ Goto(r, "mark_conversation")
  /\ UNCHANGED <<rows, tx, conversationLock, locals>>

\* Mutant: _mark_terminal is tried again for as long as it raises.
MarkConflictRetried(r) ==
  /\ pc[r] = "mark_run"
  /\ runLock[r] = "free"
  /\ runStatus[r] # "running"
  /\ UNCHANGED vars

\* The run turned terminal meanwhile: run_state_conflict replaces the original exception.
MarkConflict(r) ==
  /\ pc[r] = "mark_run"
  /\ runLock[r] = "free"
  /\ runStatus[r] # "running"
  /\ EndTx(r, "mark", "aborted")
  /\ Goto(r, "finished")
  /\ Tell(r, "error")
  /\ UNCHANGED <<rows, target, ordinal, outcome, verdict, cancels, faults>>

\* Touching the conversation locks its row; then COMMIT is sent.
MarkWrite(r) ==
  /\ pc[r] = "mark_conversation"
  /\ LockConversation(r, "mark")
  /\ SendCommit(r, "mark")
  /\ Goto(r, "mark_commit")
  /\ UNCHANGED <<rows, runLock, locals>>

MarkReturns(r) ==
  /\ pc[r] = "mark_commit"
  /\ tx[r]["mark"] = "committed"
  /\ Goto(r, "finished")
  /\ IF verdict[r] = "failed" THEN Tell(r, "error") ELSE UNCHANGED seen
  /\ UNCHANGED <<rows, tx, conversationLock, runLock, target, ordinal, outcome, verdict, cancels, faults>>

-----------------------------------------------------------------------------
(* COMMIT takes effect                                                     *)

CommitBegin(r) ==
  /\ tx[r]["begin"] = "committing"
  /\ conversations' = conversations \union {target[r]}
  /\ runConversation' = [runConversation EXCEPT ![r] = target[r]]
  /\ runStatus' = [runStatus EXCEPT ![r] = "running"]
  /\ userOrdinal' = [userOrdinal EXCEPT ![r] = ordinal[r]]
  /\ EndTx(r, "begin", "committed")
  /\ UNCHANGED <<assistantOrdinal, pc, locals>>

\* Mutant: an assistant message is written for every outcome.
CommitCompleteAlwaysAnswers(r) ==
  /\ tx[r]["complete"] = "committing"
  /\ runStatus' = [runStatus EXCEPT ![r] = outcome[r]]
  /\ assistantOrdinal' = [assistantOrdinal EXCEPT ![r] = ordinal[r]]
  /\ EndTx(r, "complete", "committed")
  /\ UNCHANGED <<conversations, runConversation, userOrdinal, pc, locals>>

CommitComplete(r) ==
  /\ tx[r]["complete"] = "committing"
  /\ runStatus' = [runStatus EXCEPT ![r] = outcome[r]]
  /\ assistantOrdinal' = [assistantOrdinal EXCEPT
       ![r] = IF outcome[r] \in Answered THEN ordinal[r] ELSE @]
  /\ EndTx(r, "complete", "committed")
  /\ UNCHANGED <<conversations, runConversation, userOrdinal, pc, locals>>

CommitMark(r) ==
  /\ tx[r]["mark"] = "committing"
  /\ runStatus' = [runStatus EXCEPT ![r] = verdict[r]]
  /\ EndTx(r, "mark", "committed")
  /\ UNCHANGED <<conversations, runConversation, userOrdinal, assistantOrdinal, pc, locals>>

-----------------------------------------------------------------------------
(* Cancellation, database errors, crashes                                  *)

\* Mutant: terminal_persisted is set before complete_run is awaited.
UnwindTrustsCompletion(r, why) ==
  IF pc[r] = "streaming"
  THEN Goto(r, "mark_run") /\ verdict' = [verdict EXCEPT ![r] = why]
  ELSE Goto(r, "finished") /\ UNCHANGED verdict

\* Mutant: the error code is written where the status belongs.
UnwindWithErrorCode(r, why) ==
  IF pc[r] \in CompletePcs \union {"streaming"}
  THEN Goto(r, "mark_run") /\ verdict' = [verdict EXCEPT ![r] = "client_cancelled"]
  ELSE Goto(r, "finished") /\ UNCHANGED verdict

\* How the coroutine leaves an await that raises: nothing guards begin_run;
\* while streaming or completing, the run is marked; marking and the
\* delivery of done are not retried.
Unwind(r, why) ==
  IF pc[r] \in CompletePcs \union {"streaming"}
  THEN /\ Goto(r, "mark_run")
       /\ verdict' = [verdict EXCEPT ![r] = why]
  ELSE /\ Goto(r, "finished")
       /\ UNCHANGED verdict

\* An open transaction of a coroutine that leaves it is rolled back; a COMMIT
\* already sent stays on its way.  A following _mark_terminal opens its own.
Abandon(r) ==
  /\ tx' = [tx EXCEPT ![r] = [phase \in Phases |->
       IF tx[r][phase] = "open" THEN "aborted"
       ELSE IF phase = "mark" /\ pc[r] \in CompletePcs \union {"streaming"} THEN "open"
       ELSE tx[r][phase]]]
  /\ Unlock(OpenTxs({r}))

\* The client disconnects, the task is cancelled or the generator is closed.
Cancel(r) ==
  /\ pc[r] \in ActivePcs
  /\ cancels[r] < MaxCancels
  /\ cancels' = [cancels EXCEPT ![r] = @ + 1]
  /\ Unwind(r, "cancelled")
  /\ Abandon(r)
  /\ UNCHANGED <<rows, target, ordinal, outcome, seen, faults>>

\* A statement, or the reply to a COMMIT, is lost.
DatabaseError(r) ==
  /\ pc[r] \in TxPcs
  /\ faults < MaxFaults
  /\ faults' = faults + 1
  /\ Unwind(r, "failed")
  /\ Abandon(r)
  /\ seen' = [seen EXCEPT ![r] = IF pc'[r] = "finished" THEN "error" ELSE @]
  /\ UNCHANGED <<rows, target, ordinal, outcome, cancels>>

\* The process dies: its connections close, and so do the open transactions.
Crash ==
  /\ faults < MaxFaults
  /\ faults' = faults + 1
  /\ pc' = [r \in Requests |-> IF pc[r] = "idle" THEN "idle" ELSE "finished"]
  /\ tx' = [r \in Requests |-> [phase \in Phases |->
       IF tx[r][phase] = "open" THEN "aborted" ELSE tx[r][phase]]]
  /\ Unlock(OpenTxs(Requests))
  /\ UNCHANGED <<rows, target, ordinal, outcome, verdict, seen, cancels>>

\* A COMMIT whose connection failed may turn out not to have happened.
CommitLost(r, phase) ==
  /\ faults > 0
  /\ tx[r][phase] = "committing"
  /\ pc[r] # CommitPc[phase]
  /\ EndTx(r, phase, "aborted")
  /\ UNCHANGED <<rows, pc, locals>>

-----------------------------------------------------------------------------

Begin(r) ==
  \/ BeginLock(r) \/ BeginNotFound(r) \/ BeginBusy(r) \/ BeginRecord(r) \/ BeginReturns(r)

Complete(r) == CompleteLockRun(r) \/ CompleteWrite(r) \/ CompleteReturns(r) \/ DeliverDone(r)

Mark(r) == MarkLockRun(r) \/ MarkConflict(r) \/ MarkWrite(r) \/ MarkReturns(r)

Inner(r) == InnerRaises(r) \/ \E result \in Outcomes : InnerDone(r, result)

Commit(r) == CommitBegin(r) \/ CommitComplete(r) \/ CommitMark(r)

\* Every request was made and every COMMIT took effect or was lost.
Quiet ==
  /\ \A r \in Requests : pc[r] = "finished" /\ \A phase \in Phases : tx[r][phase] # "committing"
  /\ UNCHANGED vars

Next ==
  \/ \E r \in Requests :
       \/ \E c \in Conversations : Call(r, c) \/ CallNew(r, c)
       \/ Begin(r) \/ Inner(r) \/ Complete(r) \/ Mark(r) \/ Commit(r)
       \/ Cancel(r) \/ DatabaseError(r)
       \/ \E phase \in Phases : CommitLost(r, phase)
  \/ Crash
  \/ Quiet

Spec == Init /\ [][Next]_vars

\* The event loop resumes whatever can run, the inner pipeline ends (its
\* model calls have timeouts) and PostgreSQL answers every COMMIT.
FairSpec ==
  /\ Spec
  /\ \A r \in Requests :
       WF_vars(Begin(r) \/ Complete(r) \/ Mark(r) \/ Inner(r)) /\ WF_vars(Commit(r))

-----------------------------------------------------------------------------
(* Properties                                                              *)

TypeOK ==
  /\ conversations \subseteq Conversations
  /\ runConversation \in [Requests -> Conversations \union {NoConversation}]
  /\ runStatus \in [Requests -> Terminal \union {"absent", "running"}]
  /\ userOrdinal \in [Requests -> Nat]
  /\ assistantOrdinal \in [Requests -> Nat]
  /\ tx \in [Requests -> [Phases -> {"none", "open", "committing", "committed", "aborted"}]]
  /\ conversationLock \in [Conversations -> (Requests \X Phases) \union {Free}]
  /\ runLock \in [Requests -> Phases \union {"free"}]
  /\ pc \in [Requests -> Pcs]
  /\ target \in [Requests -> Conversations \union {NoConversation}]
  /\ ordinal \in [Requests -> Nat]
  /\ outcome \in [Requests -> Outcomes \union {"none"}]
  /\ verdict \in [Requests -> Verdicts \union {"none"}]
  /\ seen \in [Requests -> {"nothing", "reply_to", "done", "error"}]
  /\ cancels \in [Requests -> 0..MaxCancels]
  /\ faults \in 0..MaxFaults

\* At most one run of a conversation is running: the partial unique index
\* ux_rag_runs_one_running_per_conversation never has to refuse a commit,
\* however begin_run interleaves with cancelled and failing transactions.
OneRunningPerConversation ==
  \A q, r \in Requests :
    /\ runStatus[q] = "running"
    /\ runStatus[r] = "running"
    /\ runConversation[q] = runConversation[r]
    => q = r

\* No two messages of a conversation share an ordinal: the max(ordinal) + 1
\* read of one transaction is never stale when its COMMIT takes effect.
OrdinalsUnique ==
  \A c \in Conversations : \A q, r \in RunsOf(c) :
    /\ userOrdinal[q] # assistantOrdinal[r]
    /\ userOrdinal[q] = userOrdinal[r] => q = r
    /\ assistantOrdinal[q] = assistantOrdinal[r] /\ assistantOrdinal[q] # 0 => q = r

\* An assistant message exists exactly for the runs that ended with an
\* answer: no partial answer of a failed or cancelled run is kept, and no
\* answer survives without its terminal state.
AnswersOfAnsweredRuns ==
  \A r \in Requests : assistantOrdinal[r] # 0 <=> runStatus[r] \in Answered

\* A success done is only handed out after the terminal state it reports is
\* committed, and nothing that happens later changes that state.
DoneMeansSaved ==
  \A r \in Requests : seen[r] = "done" => runStatus[r] = outcome[r]

\* A run is left running with nobody to settle it only after a database
\* error or crash, after a second cancellation, or when the one cancellation
\* hit begin_run (its client never saw reply_to) or fail_run.
OrphansHaveACause ==
  \A r \in Requests :
    /\ runStatus[r] = "running"
    /\ pc[r] = "finished"
    /\ \A phase \in Phases : tx[r][phase] # "committing"
    => \/ faults > 0
       \/ cancels[r] > 1
       \/ cancels[r] = 1 /\ (seen[r] = "nothing" \/ verdict[r] = "failed")

\* The committed rows are an append-only log of turns (TurnLog).
Log == INSTANCE TurnLog WITH
  home <- runConversation, status <- runStatus,
  question <- userOrdinal, answer <- assistantOrdinal

ImplementsTurnLog == Log!LogSpec

\* Every request ends: no lock wait, no COMMIT and no combination of
\* cancellations, errors and crashes leaves a coroutine suspended for ever.
EveryRequestEnds ==
  \A r \in Requests : pc[r] # "idle" ~> pc[r] = "finished"

\* A run whose reply_to went out settles, also when its client disconnects
\* at any await (once), unless the database fails or the disconnect comes
\* while fail_run is under way.
StreamedRunsSettle ==
  \A r \in Requests :
    pc[r] = "streaming" ~>
      \/ runStatus[r] \in Terminal
      \/ faults > 0
      \/ verdict[r] = "failed" /\ cancels[r] > 0

\* ADR-0006: every question that really started has a run with an ending.
EveryStartedRunSettles ==
  \A r \in Requests : runStatus[r] = "running" ~> runStatus[r] \in Terminal
=============================================================================
