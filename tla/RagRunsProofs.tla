--------------------------- MODULE RagRunsProofs ---------------------------
(***************************************************************************)
(* The safety of RagRuns for any number of requests, conversations,        *)
(* cancellations and faults.  The invariants the runs check are not        *)
(* inductive: they hold because every transaction that writes to a         *)
(* conversation holds its row lock from before it reads until its COMMIT   *)
(* takes effect, also when the coroutine that sent the COMMIT is gone.     *)
(* The strengthening below says which locks and which committed rows go    *)
(* with each state of a transaction and each await of a coroutine.         *)
(***************************************************************************)
EXTENDS RagRuns, TLAPS

\* The transactions that go with the await a coroutine is suspended at.
PcShape(r) ==
  /\ pc[r] = "idle" => /\ tx[r]["begin"] = "none"
                       /\ target[r] = NoConversation
                       /\ seen[r] = "nothing"
  /\ pc[r] \in {"begin_conversation", "begin_record"} => tx[r]["begin"] = "open"
  /\ pc[r] = "begin_commit" => tx[r]["begin"] \in {"committing", "committed"}
  /\ pc[r] \in {"idle"} \union BeginPcs \union {"streaming"} => tx[r]["complete"] = "none"
  /\ pc[r] \in {"idle"} \union BeginPcs \union {"streaming"} \union CompletePcs
       => tx[r]["mark"] = "none"
  /\ pc[r] \in {"streaming", "done"} \union CompletePcs \union MarkPcs
       => tx[r]["begin"] = "committed"
  /\ pc[r] \in {"complete_run", "complete_conversation"} => tx[r]["complete"] = "open"
  /\ pc[r] = "complete_commit" => tx[r]["complete"] \in {"committing", "committed"}
  /\ pc[r] = "done" => tx[r]["complete"] = "committed"
  /\ pc[r] \in {"mark_run", "mark_conversation"} => tx[r]["mark"] = "open"
  /\ pc[r] = "mark_commit" => tx[r]["mark"] \in {"committing", "committed"}
  /\ pc[r] = "complete_conversation" => runLock[r] = "complete"
  /\ pc[r] = "mark_conversation" => runLock[r] = "mark"
  /\ pc[r] = "begin_record" => conversationLock[target[r]] = <<r, "begin">>

\* What a transaction of r holds before its COMMIT takes effect.
TxShape(r) ==
  /\ tx[r]["begin"] # "none" => target[r] \in Conversations
  /\ tx[r]["complete"] # "none" \/ tx[r]["mark"] # "none" => tx[r]["begin"] = "committed"
  /\ tx[r]["complete"] # "none" => outcome[r] \in Outcomes
  /\ tx[r]["mark"] # "none" => verdict[r] \in Verdicts
  /\ \A phase \in Phases :
       tx[r][phase] = "committing" => conversationLock[target[r]] = <<r, phase>>
  /\ \A phase \in {"complete", "mark"} : tx[r][phase] = "committing" => runLock[r] = phase
  /\ runLock[r] # "free" => runStatus[r] = "running"

\* What it has read still holds: its conversation has no running run, and the
\* ordinal it computed is above every committed one.
ReadShape(r) ==
  /\ tx[r]["begin"] = "committing" => ~Busy(target[r])
  /\ \A phase \in {"begin", "complete"} : tx[r][phase] = "committing" =>
       ordinal[r] > 0 /\ \A n \in Ordinals(target[r]) : n < ordinal[r]

\* What is committed for r.
RowShape(r) ==
  /\ runStatus[r] = "absent" <=> tx[r]["begin"] # "committed"
  /\ runStatus[r] \in Outcomes <=> tx[r]["complete"] = "committed"
  /\ runStatus[r] \in Verdicts <=> tx[r]["mark"] = "committed"
  /\ tx[r]["complete"] = "committed" => runStatus[r] = outcome[r]
  /\ runStatus[r] = "absent" => userOrdinal[r] = 0
  /\ runStatus[r] # "absent" => userOrdinal[r] > 0
  /\ runConversation[r] = IF runStatus[r] = "absent" THEN NoConversation ELSE target[r]
  /\ assistantOrdinal[r] # 0 <=> runStatus[r] \in Answered
  /\ seen[r] = "done" => tx[r]["complete"] = "committed"

\* The last ordinal of a conversation exists, so max(ordinal) + 1 is defined.
HasLastOrdinal(c) == \E last \in Ordinals(c) \union {0} : \A n \in Ordinals(c) : n <= last

IInv ==
  /\ TypeOK
  /\ \A c \in Conversations : HasLastOrdinal(c)
  /\ \A r \in Requests : PcShape(r) /\ TxShape(r) /\ ReadShape(r) /\ RowShape(r)
  /\ OneRunningPerConversation
  /\ OrdinalsUnique

-----------------------------------------------------------------------------

\* max(ordinal) + 1 is a positive number above every ordinal of the conversation.
LEMMA NextOrdinalAbove ==
  ASSUME TypeOK, NEW c \in Conversations, HasLastOrdinal(c)
  PROVE  /\ NextOrdinal(c) \in Nat
         /\ NextOrdinal(c) > 0
         /\ \A n \in Ordinals(c) : n < NextOrdinal(c)
<1> DEFINE Last(last) == \A n \in Ordinals(c) : n <= last
<1> DEFINE max == CHOOSE last \in Ordinals(c) \union {0} : Last(last)
<1>1. Ordinals(c) \subseteq Nat
  BY DEF TypeOK, Ordinals, RunsOf
<1>2. max \in Ordinals(c) \union {0} /\ Last(max)
  BY DEF HasLastOrdinal
<1>3. NextOrdinal(c) = 1 + max
  BY DEF NextOrdinal
<1> HIDE DEF max
<1>4. QED
  BY <1>1, <1>2, <1>3

USE DEF Phases, Pcs, ActivePcs, TxPcs, BeginPcs, CompletePcs, MarkPcs, CommitPc,
        Outcomes, Answered, Verdicts, Terminal, rows, locals, Goto, Tell, OpenTx, SendCommit,
        LockConversation, EndTx, Unlock

LEMMA UnlockTypes ==
  ASSUME TypeOK, NEW ended, Unlock(ended)
  PROVE  /\ conversationLock' \in [Conversations -> (Requests \X Phases) \union {Free}]
         /\ runLock' \in [Requests -> Phases \union {"free"}]
BY DEF TypeOK

LEMMA UnwindTypes ==
  ASSUME TypeOK, NEW r \in Requests, NEW why \in Verdicts, Unwind(r, why)
  PROVE  pc' \in [Requests -> Pcs] /\ verdict' \in [Requests -> Verdicts \union {"none"}]
<1>1. pc' = [pc EXCEPT ![r] = "mark_run"] \/ pc' = [pc EXCEPT ![r] = "finished"]
  BY DEF Unwind
<1>2. verdict' = [verdict EXCEPT ![r] = why] \/ verdict' = verdict
  BY DEF Unwind
<1>3. pc' \in [Requests -> Pcs]
  BY <1>1 DEF TypeOK
<1>4. verdict' \in [Requests -> Verdicts \union {"none"}]
  BY <1>2 DEF TypeOK
<1>5. QED
  BY <1>3, <1>4

LEMMA AbandonTypes ==
  ASSUME TypeOK, NEW r \in Requests, Abandon(r)
  PROVE  tx' \in [Requests -> [Phases -> {"none", "open", "committing", "committed", "aborted"}]]
BY DEF TypeOK, Abandon

\* Locks go with the transactions that end; a COMMIT on its way keeps its own.
LEMMA UnlockKeeps ==
  ASSUME TypeOK, NEW ended, Unlock(ended), NEW q \in Requests, NEW phase \in Phases,
         <<q, phase>> \notin ended
  PROVE  /\ \A c \in Conversations :
              conversationLock[c] = <<q, phase>> => conversationLock'[c] = <<q, phase>>
         /\ runLock[q] = phase => runLock'[q] = phase
BY DEF Unlock, TypeOK

LEMMA UnlockFrees ==
  ASSUME TypeOK, NEW ended, Unlock(ended), NEW q \in Requests
  PROVE  runLock'[q] # "free" => runLock[q] # "free"
BY DEF Unlock, TypeOK

LEMMA OpenTxsAreOpen ==
  ASSUME NEW S, NEW q \in Requests, NEW phase \in Phases, tx[q][phase] = "committing"
  PROVE  <<q, phase>> \notin OpenTxs(S)
BY DEF OpenTxs

LEMMA TypeStep == IInv /\ [Next]_vars => TypeOK'
<1> SUFFICES ASSUME IInv, [Next]_vars PROVE TypeOK'
  OBVIOUS
<1> USE RagRunsAssumption DEF TypeOK
<1>a. TypeOK /\ \A q \in Requests : PcShape(q) /\ TxShape(q)
  BY DEF IInv
<1>b. \A c \in Conversations : HasLastOrdinal(c)
  BY DEF IInv
<1>1. ASSUME NEW r \in Requests, NEW c \in Conversations, Call(r, c) PROVE TypeOK'
  BY <1>1, <1>a DEF Call
<1>2. ASSUME NEW r \in Requests, NEW c \in Conversations, CallNew(r, c) PROVE TypeOK'
  BY <1>2, <1>a DEF CallNew
<1>3. ASSUME NEW r \in Requests, BeginLock(r) PROVE TypeOK'
  BY <1>3, <1>a DEF BeginLock
<1>4. ASSUME NEW r \in Requests, BeginNotFound(r) PROVE TypeOK'
  BY <1>4, <1>a DEF BeginNotFound
<1>5. ASSUME NEW r \in Requests, BeginBusy(r) PROVE TypeOK'
  BY <1>5, <1>a DEF BeginBusy
<1>6. ASSUME NEW r \in Requests, BeginRecord(r) PROVE TypeOK'
  <2>1. target[r] \in Conversations
    BY <1>6, <1>a DEF BeginRecord, PcShape, TxShape
  <2>2. NextOrdinal(target[r]) \in Nat
    BY <1>a, <1>b, <2>1, NextOrdinalAbove
  <2>3. QED
    BY <1>6, <1>a, <2>1, <2>2 DEF BeginRecord
<1>7. ASSUME NEW r \in Requests, BeginReturns(r) PROVE TypeOK'
  BY <1>7, <1>a DEF BeginReturns
<1>8. ASSUME NEW r \in Requests, InnerRaises(r) PROVE TypeOK'
  BY <1>8, <1>a DEF InnerRaises
<1>9. ASSUME NEW r \in Requests, NEW result \in Outcomes, InnerDone(r, result) PROVE TypeOK'
  BY <1>9, <1>a DEF InnerDone
<1>10. ASSUME NEW r \in Requests, CompleteLockRun(r) PROVE TypeOK'
  BY <1>10, <1>a DEF CompleteLockRun
<1>11. ASSUME NEW r \in Requests, CompleteWrite(r) PROVE TypeOK'
  <2>1. target[r] \in Conversations
    BY <1>11, <1>a DEF CompleteWrite, PcShape, TxShape
  <2>2. NextOrdinal(target[r]) \in Nat
    BY <1>a, <1>b, <2>1, NextOrdinalAbove
  <2>3. QED
    BY <1>11, <1>a, <2>1, <2>2 DEF CompleteWrite
<1>12. ASSUME NEW r \in Requests, CompleteReturns(r) PROVE TypeOK'
  BY <1>12, <1>a DEF CompleteReturns
<1>13. ASSUME NEW r \in Requests, DeliverDone(r) PROVE TypeOK'
  BY <1>13, <1>a DEF DeliverDone
<1>14. ASSUME NEW r \in Requests, MarkLockRun(r) PROVE TypeOK'
  BY <1>14, <1>a DEF MarkLockRun
<1>15. ASSUME NEW r \in Requests, MarkConflict(r) PROVE TypeOK'
  BY <1>15, <1>a DEF MarkConflict
<1>16. ASSUME NEW r \in Requests, MarkWrite(r) PROVE TypeOK'
  BY <1>16, <1>a DEF MarkWrite
<1>17. ASSUME NEW r \in Requests, MarkReturns(r) PROVE TypeOK'
  BY <1>17, <1>a DEF MarkReturns
<1>18. ASSUME NEW r \in Requests, CommitBegin(r) PROVE TypeOK'
  BY <1>18, <1>a DEF CommitBegin, TxShape
<1>19. ASSUME NEW r \in Requests, CommitComplete(r) PROVE TypeOK'
  BY <1>19, <1>a DEF CommitComplete, TxShape
<1>20. ASSUME NEW r \in Requests, CommitMark(r) PROVE TypeOK'
  BY <1>20, <1>a DEF CommitMark, TxShape
<1>21. ASSUME NEW r \in Requests, Cancel(r) PROVE TypeOK'
  <2>1. Unlock(OpenTxs({r}))
    BY <1>21 DEF Cancel, Abandon
  <2>2. pc' \in [Requests -> Pcs] /\ verdict' \in [Requests -> Verdicts \union {"none"}]
    BY <1>21, <1>a, UnwindTypes DEF Cancel
  <2>3. tx' \in [Requests -> [Phases -> {"none", "open", "committing", "committed", "aborted"}]]
    BY <1>21, <1>a, AbandonTypes DEF Cancel
  <2>4. /\ conversationLock' \in [Conversations -> (Requests \X Phases) \union {Free}]
        /\ runLock' \in [Requests -> Phases \union {"free"}]
    BY <1>a, <2>1, UnlockTypes
  <2>5. QED
    BY <1>21, <1>a, <2>2, <2>3, <2>4 DEF Cancel
<1>22. ASSUME NEW r \in Requests, DatabaseError(r) PROVE TypeOK'
  <2>1. Unlock(OpenTxs({r}))
    BY <1>22 DEF DatabaseError, Abandon
  <2>2. pc' \in [Requests -> Pcs] /\ verdict' \in [Requests -> Verdicts \union {"none"}]
    BY <1>22, <1>a, UnwindTypes DEF DatabaseError
  <2>3. tx' \in [Requests -> [Phases -> {"none", "open", "committing", "committed", "aborted"}]]
    BY <1>22, <1>a, AbandonTypes DEF DatabaseError
  <2>4. /\ conversationLock' \in [Conversations -> (Requests \X Phases) \union {Free}]
        /\ runLock' \in [Requests -> Phases \union {"free"}]
    BY <1>a, <2>1, UnlockTypes
  <2>5. QED
    BY <1>22, <1>a, <2>2, <2>3, <2>4 DEF DatabaseError
<1>23. ASSUME NEW r \in Requests, NEW phase \in Phases, CommitLost(r, phase) PROVE TypeOK'
  BY <1>23, <1>a DEF CommitLost
<1>24. CASE Crash
  <2>1. /\ conversationLock' \in [Conversations -> (Requests \X Phases) \union {Free}]
        /\ runLock' \in [Requests -> Phases \union {"free"}]
    BY <1>24, <1>a, UnlockTypes DEF Crash
  <2>2. QED
    BY <1>24, <1>a, <2>1 DEF Crash
<1>25. CASE UNCHANGED vars
  BY <1>25, <1>a DEF vars
<1>26. QED
  BY <1>1, <1>2, <1>3, <1>4, <1>5, <1>6, <1>7, <1>8, <1>9
     , <1>10, <1>11, <1>12, <1>13, <1>14, <1>15, <1>16, <1>17, <1>18
     , <1>19, <1>20, <1>21, <1>22, <1>23, <1>24, <1>25
  DEF Next, Begin, Inner, Complete, Mark, Commit, Quiet

LEMMA PcStep == IInv /\ [Next]_vars => \A q \in Requests : PcShape(q)'
<1> SUFFICES ASSUME IInv, [Next]_vars, NEW q \in Requests PROVE PcShape(q)'
  OBVIOUS
<1>a. TypeOK /\ PcShape(q) /\ TxShape(q)
  BY DEF IInv
<1>b. pc[q] = "begin_record" => target[q] \in Conversations
  BY <1>a DEF PcShape, TxShape
<1> USE RagRunsAssumption DEF PcShape
<1>1. ASSUME NEW r \in Requests, NEW c \in Conversations, Call(r, c) PROVE PcShape(q)'
  BY <1>1, <1>a, <1>b DEF Call, TypeOK
<1>2. ASSUME NEW r \in Requests, NEW c \in Conversations, CallNew(r, c) PROVE PcShape(q)'
  BY <1>2, <1>a, <1>b DEF CallNew, TypeOK
<1>3. ASSUME NEW r \in Requests, BeginLock(r) PROVE PcShape(q)'
  BY <1>3, <1>a, <1>b DEF BeginLock, TypeOK
<1>4. ASSUME NEW r \in Requests, BeginNotFound(r) PROVE PcShape(q)'
  BY <1>4, <1>a, <1>b DEF BeginNotFound, TypeOK
<1>5. ASSUME NEW r \in Requests, BeginBusy(r) PROVE PcShape(q)'
  BY <1>5, <1>a, <1>b DEF BeginBusy, TypeOK
<1>6. ASSUME NEW r \in Requests, BeginRecord(r) PROVE PcShape(q)'
  BY <1>6, <1>a, <1>b DEF BeginRecord, TypeOK
<1>7. ASSUME NEW r \in Requests, BeginReturns(r) PROVE PcShape(q)'
  BY <1>7, <1>a, <1>b DEF BeginReturns, TypeOK
<1>8. ASSUME NEW r \in Requests, InnerRaises(r) PROVE PcShape(q)'
  BY <1>8, <1>a, <1>b DEF InnerRaises, TypeOK
<1>9. ASSUME NEW r \in Requests, NEW result \in Outcomes, InnerDone(r, result) PROVE PcShape(q)'
  BY <1>9, <1>a, <1>b DEF InnerDone, TypeOK
<1>10. ASSUME NEW r \in Requests, CompleteLockRun(r) PROVE PcShape(q)'
  BY <1>10, <1>a, <1>b DEF CompleteLockRun, TypeOK
<1>11. ASSUME NEW r \in Requests, CompleteWrite(r) PROVE PcShape(q)'
  BY <1>11, <1>a, <1>b DEF CompleteWrite, TypeOK
<1>12. ASSUME NEW r \in Requests, CompleteReturns(r) PROVE PcShape(q)'
  BY <1>12, <1>a, <1>b DEF CompleteReturns, TypeOK
<1>13. ASSUME NEW r \in Requests, DeliverDone(r) PROVE PcShape(q)'
  BY <1>13, <1>a, <1>b DEF DeliverDone, TypeOK
<1>14. ASSUME NEW r \in Requests, MarkLockRun(r) PROVE PcShape(q)'
  BY <1>14, <1>a, <1>b DEF MarkLockRun, TypeOK
<1>15. ASSUME NEW r \in Requests, MarkConflict(r) PROVE PcShape(q)'
  BY <1>15, <1>a, <1>b DEF MarkConflict, TypeOK
<1>16. ASSUME NEW r \in Requests, MarkWrite(r) PROVE PcShape(q)'
  BY <1>16, <1>a, <1>b DEF MarkWrite, TypeOK
<1>17. ASSUME NEW r \in Requests, MarkReturns(r) PROVE PcShape(q)'
  BY <1>17, <1>a, <1>b DEF MarkReturns, TypeOK
<1>18. ASSUME NEW r \in Requests, CommitBegin(r) PROVE PcShape(q)'
  BY <1>18, <1>a, <1>b DEF CommitBegin, TypeOK
<1>19. ASSUME NEW r \in Requests, CommitComplete(r) PROVE PcShape(q)'
  BY <1>19, <1>a, <1>b DEF CommitComplete, TypeOK
<1>20. ASSUME NEW r \in Requests, CommitMark(r) PROVE PcShape(q)'
  BY <1>20, <1>a, <1>b DEF CommitMark, TypeOK
<1>21. ASSUME NEW r \in Requests, Cancel(r) PROVE PcShape(q)'
  BY <1>21, <1>a, <1>b DEF Cancel, TypeOK, Unwind, Abandon, OpenTxs
<1>22. ASSUME NEW r \in Requests, DatabaseError(r) PROVE PcShape(q)'
  BY <1>22, <1>a, <1>b DEF DatabaseError, TypeOK, Unwind, Abandon, OpenTxs
<1>23. ASSUME NEW r \in Requests, NEW phase \in Phases, CommitLost(r, phase) PROVE PcShape(q)'
  BY <1>23, <1>a, <1>b DEF CommitLost, TypeOK
<1>24. CASE Crash
  BY <1>24, <1>a DEF Crash, OpenTxs, TypeOK
<1>25. CASE UNCHANGED vars
  BY <1>25, <1>a DEF vars
<1>26. QED
  BY <1>1, <1>2, <1>3, <1>4, <1>5, <1>6, <1>7, <1>8, <1>9
     , <1>10, <1>11, <1>12, <1>13, <1>14, <1>15, <1>16, <1>17, <1>18
     , <1>19, <1>20, <1>21, <1>22, <1>23, <1>24, <1>25
  DEF Next, Begin, Inner, Complete, Mark, Commit, Quiet

LEMMA TxStep == IInv /\ [Next]_vars => \A q \in Requests : TxShape(q)'
<1> SUFFICES ASSUME IInv, [Next]_vars, NEW q \in Requests PROVE TxShape(q)'
  OBVIOUS
<1>a. TypeOK /\ PcShape(q) /\ TxShape(q) /\ RowShape(q)
  BY DEF IInv
<1> USE RagRunsAssumption DEF TxShape
<1>1. ASSUME NEW r \in Requests, NEW c \in Conversations, Call(r, c) PROVE TxShape(q)'
  BY <1>1, <1>a DEF Call, TypeOK, PcShape, RowShape
<1>2. ASSUME NEW r \in Requests, NEW c \in Conversations, CallNew(r, c) PROVE TxShape(q)'
  BY <1>2, <1>a DEF CallNew, TypeOK, PcShape, RowShape
<1>3. ASSUME NEW r \in Requests, BeginLock(r) PROVE TxShape(q)'
  <2>1. UNCHANGED <<rows, tx, runLock, target, outcome, verdict>>
    BY <1>3 DEF BeginLock, locals
  <2>2. \A c \in Conversations, phase \in Phases :
          conversationLock[c] = <<q, phase>> => conversationLock'[c] = <<q, phase>>
    BY <1>3, <1>a DEF BeginLock, LockConversation, TypeOK
  <2>3. QED
    BY <2>1, <2>2, <1>a DEF rows, TypeOK
<1>4. ASSUME NEW r \in Requests, BeginNotFound(r) PROVE TxShape(q)'
  BY <1>4, <1>a DEF BeginNotFound, TypeOK, PcShape, RowShape
<1>5. ASSUME NEW r \in Requests, BeginBusy(r) PROVE TxShape(q)'
  BY <1>5, <1>a DEF BeginBusy, TypeOK, PcShape, RowShape
<1>6. ASSUME NEW r \in Requests, BeginRecord(r) PROVE TxShape(q)'
  BY <1>6, <1>a DEF BeginRecord, TypeOK, PcShape, RowShape
<1>7. ASSUME NEW r \in Requests, BeginReturns(r) PROVE TxShape(q)'
  BY <1>7, <1>a DEF BeginReturns, TypeOK, PcShape, RowShape
<1>8. ASSUME NEW r \in Requests, InnerRaises(r) PROVE TxShape(q)'
  BY <1>8, <1>a DEF InnerRaises, TypeOK, PcShape, RowShape
<1>9. ASSUME NEW r \in Requests, NEW result \in Outcomes, InnerDone(r, result) PROVE TxShape(q)'
  BY <1>9, <1>a DEF InnerDone, TypeOK, PcShape, RowShape
<1>10. ASSUME NEW r \in Requests, CompleteLockRun(r) PROVE TxShape(q)'
  BY <1>10, <1>a DEF CompleteLockRun, TypeOK, PcShape, RowShape
<1>11. ASSUME NEW r \in Requests, CompleteWrite(r) PROVE TxShape(q)'
  BY <1>11, <1>a DEF CompleteWrite, TypeOK, PcShape, RowShape
<1>12. ASSUME NEW r \in Requests, CompleteReturns(r) PROVE TxShape(q)'
  BY <1>12, <1>a DEF CompleteReturns, TypeOK, PcShape, RowShape
<1>13. ASSUME NEW r \in Requests, DeliverDone(r) PROVE TxShape(q)'
  BY <1>13, <1>a DEF DeliverDone, TypeOK, PcShape, RowShape
<1>14. ASSUME NEW r \in Requests, MarkLockRun(r) PROVE TxShape(q)'
  BY <1>14, <1>a DEF MarkLockRun, TypeOK, PcShape, RowShape
<1>15. ASSUME NEW r \in Requests, MarkConflict(r) PROVE TxShape(q)'
  BY <1>15, <1>a DEF MarkConflict, TypeOK, PcShape, RowShape
<1>16. ASSUME NEW r \in Requests, MarkWrite(r) PROVE TxShape(q)'
  <2>1. CASE q = r
    BY <1>16, <2>1, <1>a DEF MarkWrite, TypeOK, PcShape, RowShape
  <2>2. CASE q # r
    BY <1>16, <2>2, <1>a DEF MarkWrite, TypeOK
  <2>3. QED
    BY <2>1, <2>2
<1>17. ASSUME NEW r \in Requests, MarkReturns(r) PROVE TxShape(q)'
  BY <1>17, <1>a DEF MarkReturns, TypeOK, PcShape, RowShape
<1>18. ASSUME NEW r \in Requests, CommitBegin(r) PROVE TxShape(q)'
  BY <1>18, <1>a DEF CommitBegin, TypeOK, PcShape, RowShape
<1>19. ASSUME NEW r \in Requests, CommitComplete(r) PROVE TxShape(q)'
  BY <1>19, <1>a DEF CommitComplete, TypeOK, PcShape, RowShape
<1>20. ASSUME NEW r \in Requests, CommitMark(r) PROVE TxShape(q)'
  BY <1>20, <1>a DEF CommitMark, TypeOK, PcShape, RowShape
<1>21. ASSUME NEW r \in Requests, Cancel(r) PROVE TxShape(q)'
  <2>1. UNCHANGED <<rows, target, outcome>> /\ Abandon(r)
    BY <1>21 DEF Cancel
  <2>2. \A phase \in Phases : tx[q][phase]' = "committing" => tx[q][phase] = "committing"
    BY <2>1, <1>a DEF Abandon, TypeOK
  <2>3. \A phase \in Phases : tx[q][phase] = "committing" =>
          /\ conversationLock[target[q]]' = <<q, phase>>
          /\ phase \in {"complete", "mark"} => runLock[q]' = phase
    <3> SUFFICES ASSUME NEW phase \in Phases, tx[q][phase] = "committing"
                 PROVE  /\ conversationLock[target[q]]' = <<q, phase>>
                        /\ phase \in {"complete", "mark"} => runLock[q]' = phase
      OBVIOUS
    <3>1. Unlock(OpenTxs({r})) /\ target[q] \in Conversations /\ target' = target
      BY <2>1, <1>a DEF Abandon, Phases
    <3>2. <<q, phase>> \notin OpenTxs({r})
      BY OpenTxsAreOpen
    <3>3. conversationLock[target[q]] = <<q, phase>> => conversationLock'[target[q]] = <<q, phase>>
      BY <3>1, <3>2, <1>a, UnlockKeeps
    <3>4. runLock[q] = phase => runLock'[q] = phase
      BY <3>1, <3>2, <1>a, UnlockKeeps
    <3>5. QED
      BY <3>1, <3>3, <3>4, <1>a
  <2>4. runLock[q]' # "free" => runStatus[q]' = "running"
    BY <2>1, <1>a, UnlockFrees DEF Abandon, rows
  <2>5. tx[q]["begin"]' # "none" => tx[q]["begin"] # "none"
    BY <2>1, <1>a DEF Abandon, TypeOK, Phases
  <2>6. tx[q]["complete"]' # "none" => tx[q]["complete"] # "none"
    BY <2>1, <1>a DEF Abandon, TypeOK, Phases
  <2>7. tx[q]["mark"]' # "none" =>
          tx[q]["mark"] # "none" \/ (q = r /\ pc[r] \in CompletePcs \union {"streaming"})
    BY <2>1, <1>a DEF Abandon, TypeOK, Phases
  <2>8. tx[q]["begin"] = "committed" => tx[q]["begin"]' = "committed"
    BY <2>1, <1>a DEF Abandon, TypeOK, Phases
  <2>9. tx[q]["mark"]' # "none" => verdict[q]' \in Verdicts
    BY <2>7, <1>21, <1>a DEF Cancel, Unwind, TypeOK, Verdicts, CompletePcs
  <2>10. tx[q]["complete"]' # "none" \/ tx[q]["mark"]' # "none" => tx[q]["begin"]' = "committed"
    BY <2>6, <2>7, <2>8, <1>a DEF PcShape, CompletePcs
  <2>11. QED
    BY <2>1, <2>2, <2>3, <2>4, <2>5, <2>6, <2>9, <2>10, <1>a DEF Phases
<1>22. ASSUME NEW r \in Requests, DatabaseError(r) PROVE TxShape(q)'
  <2>1. UNCHANGED <<rows, target, outcome>> /\ Abandon(r)
    BY <1>22 DEF DatabaseError
  <2>2. \A phase \in Phases : tx[q][phase]' = "committing" => tx[q][phase] = "committing"
    BY <2>1, <1>a DEF Abandon, TypeOK
  <2>3. \A phase \in Phases : tx[q][phase] = "committing" =>
          /\ conversationLock[target[q]]' = <<q, phase>>
          /\ phase \in {"complete", "mark"} => runLock[q]' = phase
    <3> SUFFICES ASSUME NEW phase \in Phases, tx[q][phase] = "committing"
                 PROVE  /\ conversationLock[target[q]]' = <<q, phase>>
                        /\ phase \in {"complete", "mark"} => runLock[q]' = phase
      OBVIOUS
    <3>1. Unlock(OpenTxs({r})) /\ target[q] \in Conversations /\ target' = target
      BY <2>1, <1>a DEF Abandon, Phases
    <3>2. <<q, phase>> \notin OpenTxs({r})
      BY OpenTxsAreOpen
    <3>3. conversationLock[target[q]] = <<q, phase>> => conversationLock'[target[q]] = <<q, phase>>
      BY <3>1, <3>2, <1>a, UnlockKeeps
    <3>4. runLock[q] = phase => runLock'[q] = phase
      BY <3>1, <3>2, <1>a, UnlockKeeps
    <3>5. QED
      BY <3>1, <3>3, <3>4, <1>a
  <2>4. runLock[q]' # "free" => runStatus[q]' = "running"
    BY <2>1, <1>a, UnlockFrees DEF Abandon, rows
  <2>5. tx[q]["begin"]' # "none" => tx[q]["begin"] # "none"
    BY <2>1, <1>a DEF Abandon, TypeOK, Phases
  <2>6. tx[q]["complete"]' # "none" => tx[q]["complete"] # "none"
    BY <2>1, <1>a DEF Abandon, TypeOK, Phases
  <2>7. tx[q]["mark"]' # "none" =>
          tx[q]["mark"] # "none" \/ (q = r /\ pc[r] \in CompletePcs \union {"streaming"})
    BY <2>1, <1>a DEF Abandon, TypeOK, Phases
  <2>8. tx[q]["begin"] = "committed" => tx[q]["begin"]' = "committed"
    BY <2>1, <1>a DEF Abandon, TypeOK, Phases
  <2>9. tx[q]["mark"]' # "none" => verdict[q]' \in Verdicts
    BY <2>7, <1>22, <1>a DEF DatabaseError, Unwind, TypeOK, Verdicts, CompletePcs
  <2>10. tx[q]["complete"]' # "none" \/ tx[q]["mark"]' # "none" => tx[q]["begin"]' = "committed"
    BY <2>6, <2>7, <2>8, <1>a DEF PcShape, CompletePcs
  <2>11. QED
    BY <2>1, <2>2, <2>3, <2>4, <2>5, <2>6, <2>9, <2>10, <1>a DEF Phases
<1>23. ASSUME NEW r \in Requests, NEW phase \in Phases, CommitLost(r, phase) PROVE TxShape(q)'
  BY <1>23, <1>a DEF CommitLost, TypeOK, PcShape, RowShape
<1>24. CASE Crash
  <2>1. UNCHANGED <<rows, target, outcome, verdict>> /\ Unlock(OpenTxs(Requests))
    BY <1>24 DEF Crash
  <2>2. \A phase \in Phases :
          /\ tx[q][phase]' = "none" <=> tx[q][phase] = "none"
          /\ tx[q][phase]' = "committing" <=> tx[q][phase] = "committing"
          /\ tx[q][phase]' = "committed" <=> tx[q][phase] = "committed"
    BY <1>24, <1>a DEF Crash, TypeOK
  <2>3. \A phase \in Phases : tx[q][phase] = "committing" =>
          /\ conversationLock[target[q]]' = <<q, phase>>
          /\ phase \in {"complete", "mark"} => runLock[q]' = phase
    <3> SUFFICES ASSUME NEW phase \in Phases, tx[q][phase] = "committing"
                 PROVE  /\ conversationLock[target[q]]' = <<q, phase>>
                        /\ phase \in {"complete", "mark"} => runLock[q]' = phase
      OBVIOUS
    <3>1. target[q] \in Conversations /\ target' = target
      BY <2>1, <1>a DEF Phases
    <3>2. <<q, phase>> \notin OpenTxs(Requests)
      BY OpenTxsAreOpen
    <3>3. conversationLock[target[q]] = <<q, phase>> => conversationLock'[target[q]] = <<q, phase>>
      BY <2>1, <3>1, <3>2, <1>a, UnlockKeeps
    <3>4. runLock[q] = phase => runLock'[q] = phase
      BY <2>1, <3>2, <1>a, UnlockKeeps
    <3>5. QED
      BY <3>1, <3>3, <3>4, <1>a
  <2>4. runLock[q]' # "free" => runStatus[q]' = "running"
    BY <2>1, <1>a, UnlockFrees DEF rows
  <2>5. QED
    BY <2>1, <2>2, <2>3, <2>4, <1>a DEF Phases
<1>25. CASE UNCHANGED vars
  BY <1>25, <1>a DEF vars
<1>26. QED
  BY <1>1, <1>2, <1>3, <1>4, <1>5, <1>6, <1>7, <1>8, <1>9
     , <1>10, <1>11, <1>12, <1>13, <1>14, <1>15, <1>16, <1>17, <1>18
     , <1>19, <1>20, <1>21, <1>22, <1>23, <1>24, <1>25
  DEF Next, Begin, Inner, Complete, Mark, Commit, Quiet

LEMMA RowStep == IInv /\ [Next]_vars => \A q \in Requests : RowShape(q)'
<1> SUFFICES ASSUME IInv, [Next]_vars, NEW q \in Requests PROVE RowShape(q)'
  OBVIOUS
<1>a. TypeOK /\ PcShape(q) /\ TxShape(q) /\ ReadShape(q) /\ RowShape(q)
  BY DEF IInv
<1> USE RagRunsAssumption DEF RowShape
<1>1. ASSUME NEW r \in Requests, NEW c \in Conversations, Call(r, c) PROVE RowShape(q)'
  BY <1>1, <1>a DEF Call, TypeOK, PcShape
<1>2. ASSUME NEW r \in Requests, NEW c \in Conversations, CallNew(r, c) PROVE RowShape(q)'
  BY <1>2, <1>a DEF CallNew, TypeOK, PcShape
<1>3. ASSUME NEW r \in Requests, BeginLock(r) PROVE RowShape(q)'
  BY <1>3, <1>a DEF BeginLock, TypeOK, PcShape
<1>4. ASSUME NEW r \in Requests, BeginNotFound(r) PROVE RowShape(q)'
  BY <1>4, <1>a DEF BeginNotFound, TypeOK, PcShape
<1>5. ASSUME NEW r \in Requests, BeginBusy(r) PROVE RowShape(q)'
  BY <1>5, <1>a DEF BeginBusy, TypeOK, PcShape
<1>6. ASSUME NEW r \in Requests, BeginRecord(r) PROVE RowShape(q)'
  BY <1>6, <1>a DEF BeginRecord, TypeOK, PcShape
<1>7. ASSUME NEW r \in Requests, BeginReturns(r) PROVE RowShape(q)'
  BY <1>7, <1>a DEF BeginReturns, TypeOK, PcShape
<1>8. ASSUME NEW r \in Requests, InnerRaises(r) PROVE RowShape(q)'
  BY <1>8, <1>a DEF InnerRaises, TypeOK, PcShape
<1>9. ASSUME NEW r \in Requests, NEW result \in Outcomes, InnerDone(r, result) PROVE RowShape(q)'
  BY <1>9, <1>a DEF InnerDone, TypeOK, PcShape
<1>10. ASSUME NEW r \in Requests, CompleteLockRun(r) PROVE RowShape(q)'
  BY <1>10, <1>a DEF CompleteLockRun, TypeOK, PcShape
<1>11. ASSUME NEW r \in Requests, CompleteWrite(r) PROVE RowShape(q)'
  BY <1>11, <1>a DEF CompleteWrite, TypeOK, PcShape
<1>12. ASSUME NEW r \in Requests, CompleteReturns(r) PROVE RowShape(q)'
  BY <1>12, <1>a DEF CompleteReturns, TypeOK, PcShape
<1>13. ASSUME NEW r \in Requests, DeliverDone(r) PROVE RowShape(q)'
  BY <1>13, <1>a DEF DeliverDone, TypeOK, PcShape
<1>14. ASSUME NEW r \in Requests, MarkLockRun(r) PROVE RowShape(q)'
  BY <1>14, <1>a DEF MarkLockRun, TypeOK, PcShape
<1>15. ASSUME NEW r \in Requests, MarkConflict(r) PROVE RowShape(q)'
  BY <1>15, <1>a DEF MarkConflict, TypeOK, PcShape
<1>16. ASSUME NEW r \in Requests, MarkWrite(r) PROVE RowShape(q)'
  BY <1>16, <1>a DEF MarkWrite, TypeOK, PcShape
<1>17. ASSUME NEW r \in Requests, MarkReturns(r) PROVE RowShape(q)'
  BY <1>17, <1>a DEF MarkReturns, TypeOK, PcShape
<1>18. ASSUME NEW r \in Requests, CommitBegin(r) PROVE RowShape(q)'
  BY <1>18, <1>a DEF CommitBegin, TypeOK, PcShape, TxShape, ReadShape
<1>19. ASSUME NEW r \in Requests, CommitComplete(r) PROVE RowShape(q)'
  BY <1>19, <1>a DEF CommitComplete, TypeOK, PcShape, TxShape, ReadShape
<1>20. ASSUME NEW r \in Requests, CommitMark(r) PROVE RowShape(q)'
  BY <1>20, <1>a DEF CommitMark, TypeOK, PcShape, TxShape, ReadShape
<1>21. ASSUME NEW r \in Requests, Cancel(r) PROVE RowShape(q)'
  BY <1>21, <1>a DEF Cancel, TypeOK, PcShape, Unwind, Abandon, OpenTxs
<1>22. ASSUME NEW r \in Requests, DatabaseError(r) PROVE RowShape(q)'
  BY <1>22, <1>a DEF DatabaseError, TypeOK, PcShape, Unwind, Abandon, OpenTxs
<1>23. ASSUME NEW r \in Requests, NEW phase \in Phases, CommitLost(r, phase) PROVE RowShape(q)'
  BY <1>23, <1>a DEF CommitLost, TypeOK, PcShape
<1>24. CASE Crash
  BY <1>24, <1>a DEF Crash, OpenTxs, TypeOK
<1>25. CASE UNCHANGED vars
  BY <1>25, <1>a DEF vars
<1>26. QED
  BY <1>1, <1>2, <1>3, <1>4, <1>5, <1>6, <1>7, <1>8, <1>9
     , <1>10, <1>11, <1>12, <1>13, <1>14, <1>15, <1>16, <1>17, <1>18
     , <1>19, <1>20, <1>21, <1>22, <1>23, <1>24, <1>25
  DEF Next, Begin, Inner, Complete, Mark, Commit, Quiet

\* Only commits change what begin_run and complete_run read.
LEMMA ReadsUnchanged ==
  ASSUME UNCHANGED rows, NEW c
  PROVE  Ordinals(c)' = Ordinals(c) /\ Busy(c)' = Busy(c)
BY DEF Ordinals, Busy, RunsOf

\* A commit adds at most its own ordinal, to its own conversation.
LEMMA CommitBeginReads ==
  ASSUME IInv, NEW r \in Requests, CommitBegin(r), NEW c \in Conversations
  PROVE  Ordinals(c)' = IF c = target[r] THEN Ordinals(c) \union {ordinal[r]} ELSE Ordinals(c)
<1>a. TypeOK /\ TxShape(r) /\ ReadShape(r) /\ RowShape(r) /\ tx[r]["begin"] = "committing"
  BY DEF IInv, CommitBegin
<1>b. runConversation[r] = NoConversation /\ assistantOrdinal[r] = 0
  BY <1>a DEF RowShape
<1>c. target[r] \in Conversations
  BY <1>a DEF TxShape
<1>d. ordinal[r] \in Nat \ {0}
  BY <1>a DEF ReadShape, TypeOK
<1>1. /\ runConversation[r] = NoConversation /\ target[r] \in Conversations
      /\ ordinal[r] \in Nat \ {0} /\ assistantOrdinal[r] = 0
  BY <1>b, <1>c, <1>d
<1>2. /\ runConversation' = [runConversation EXCEPT ![r] = target[r]]
      /\ userOrdinal' = [userOrdinal EXCEPT ![r] = ordinal[r]]
      /\ assistantOrdinal' = assistantOrdinal
  BY DEF CommitBegin
<1>3. RunsOf(c)' = IF c = target[r] THEN RunsOf(c) \union {r} ELSE RunsOf(c)
  BY <1>1, <1>2, RagRunsAssumption DEF RunsOf, IInv, TypeOK
<1>4. r \notin RunsOf(c)
  BY <1>1, RagRunsAssumption DEF RunsOf
<1>5. QED
  BY <1>1, <1>2, <1>3, <1>4 DEF Ordinals, RunsOf, IInv, TypeOK

LEMMA CommitCompleteReads ==
  ASSUME IInv, NEW r \in Requests, CommitComplete(r), NEW c \in Conversations
  PROVE  Ordinals(c)' = IF c = target[r] /\ outcome[r] \in Answered
                        THEN Ordinals(c) \union {ordinal[r]} ELSE Ordinals(c)
<1>a. TypeOK /\ TxShape(r) /\ ReadShape(r) /\ RowShape(r) /\ tx[r]["complete"] = "committing"
  BY DEF IInv, CommitComplete
<1>b. tx[r]["begin"] = "committed" /\ runLock[r] = "complete"
  BY <1>a DEF TxShape
<1>c. runStatus[r] = "running"
  BY <1>a, <1>b DEF TxShape
<1>d. runConversation[r] = target[r]
  BY <1>a, <1>c DEF RowShape
<1>e. assistantOrdinal[r] = 0
  BY <1>a, <1>c DEF RowShape, Answered
<1>f. ordinal[r] \in Nat \ {0}
  BY <1>a DEF ReadShape, TypeOK
<1>1. /\ runConversation[r] = target[r] /\ ordinal[r] \in Nat \ {0} /\ assistantOrdinal[r] = 0
  BY <1>d, <1>e, <1>f
<1>2. /\ runConversation' = runConversation /\ userOrdinal' = userOrdinal
      /\ assistantOrdinal' = IF outcome[r] \in Answered
                             THEN [assistantOrdinal EXCEPT ![r] = ordinal[r]] ELSE assistantOrdinal
  BY DEF CommitComplete, IInv, TypeOK
<1>3. RunsOf(c)' = RunsOf(c) /\ (r \in RunsOf(c) <=> c = target[r])
  BY <1>1, <1>2 DEF RunsOf
<1>4. QED
  BY <1>1, <1>2, <1>3 DEF Ordinals, RunsOf, IInv, TypeOK

\* No step but the three commits changes a committed row.
LEMMA CommitsOnly ==
  [Next]_vars => \/ UNCHANGED rows
                 \/ \E r \in Requests : CommitBegin(r) \/ CommitComplete(r) \/ CommitMark(r)
BY ZenonT(60) DEF Next, vars, Begin, Inner, Complete, Mark, Commit, Quiet, Call, CallNew, BeginLock,
       BeginNotFound, BeginBusy, BeginRecord, BeginReturns, InnerDone, InnerRaises,
       CompleteLockRun, CompleteWrite, CompleteReturns, DeliverDone, MarkLockRun, MarkConflict,
       MarkWrite, MarkReturns, Cancel, DatabaseError, Crash, CommitLost

\* The conversation row lock serialises what begin_run and complete_run read
\* with every commit: no read is stale when its own COMMIT takes effect.
LEMMA ReadStep == IInv /\ [Next]_vars => \A q \in Requests : ReadShape(q)'
<1> SUFFICES ASSUME IInv, [Next]_vars, NEW q \in Requests PROVE ReadShape(q)'
  OBVIOUS
<1>a. TypeOK /\ PcShape(q) /\ TxShape(q) /\ ReadShape(q) /\ RowShape(q)
  BY DEF IInv
<1>b. UNCHANGED rows => \A c \in Conversations : Ordinals(c)' = Ordinals(c) /\ Busy(c)' = Busy(c)
  BY ReadsUnchanged
<1>1. ASSUME NEW r \in Requests, NEW c \in Conversations, Call(r, c) PROVE ReadShape(q)'
  <2>1. UNCHANGED <<rows, ordinal>> /\ (q = r \/ UNCHANGED <<tx[q], target[q]>>)
    BY <1>1, <1>a DEF Call, TypeOK
  <2>2. CASE q # r
    BY <2>1, <2>2, <1>a, <1>b DEF ReadShape, TxShape
  <2>3. CASE q = r
    BY <1>1, <2>3, <1>a DEF Call, TypeOK, PcShape, TxShape, ReadShape
  <2>4. QED
    BY <2>1, <2>2, <2>3
<1>2. ASSUME NEW r \in Requests, NEW c \in Conversations, CallNew(r, c) PROVE ReadShape(q)'
  <2>1. UNCHANGED <<rows, ordinal>> /\ (q = r \/ UNCHANGED <<tx[q], target[q]>>)
    BY <1>2, <1>a DEF CallNew, TypeOK
  <2>2. CASE q # r
    BY <2>1, <2>2, <1>a, <1>b DEF ReadShape, TxShape
  <2>3. CASE q = r
    BY <1>2, <2>3, <1>a DEF CallNew, TypeOK, PcShape, TxShape, ReadShape
  <2>4. QED
    BY <2>1, <2>2, <2>3
<1>3. ASSUME NEW r \in Requests, BeginLock(r) PROVE ReadShape(q)'
  <2>1. UNCHANGED <<rows, target, ordinal>> /\ \A phase \in {"begin", "complete"} :
          tx[q][phase]' = "committing" => tx[q][phase] = "committing"
    BY <1>3, <1>a DEF BeginLock, TypeOK
  <2>2. QED
    BY <1>a, <1>b, <2>1 DEF ReadShape, TxShape
<1>4. ASSUME NEW r \in Requests, BeginNotFound(r) PROVE ReadShape(q)'
  <2>1. UNCHANGED <<rows, target, ordinal>> /\ \A phase \in {"begin", "complete"} :
          tx[q][phase]' = "committing" => tx[q][phase] = "committing"
    BY <1>4, <1>a DEF BeginNotFound, TypeOK
  <2>2. QED
    BY <1>a, <1>b, <2>1 DEF ReadShape, TxShape
<1>5. ASSUME NEW r \in Requests, BeginBusy(r) PROVE ReadShape(q)'
  <2>1. UNCHANGED <<rows, target, ordinal>> /\ \A phase \in {"begin", "complete"} :
          tx[q][phase]' = "committing" => tx[q][phase] = "committing"
    BY <1>5, <1>a DEF BeginBusy, TypeOK
  <2>2. QED
    BY <1>a, <1>b, <2>1 DEF ReadShape, TxShape
<1>6. ASSUME NEW r \in Requests, BeginRecord(r) PROVE ReadShape(q)'
  <2>1. target[r] \in Conversations /\ UNCHANGED <<rows, target>>
    BY <1>6 DEF BeginRecord, PcShape, TxShape, IInv
  <2>2. q # r => UNCHANGED <<tx[q], ordinal[q]>>
    BY <1>6, <1>a DEF BeginRecord, TypeOK
  <2>3. CASE q # r
    BY <1>a, <1>b, <2>1, <2>2, <2>3 DEF ReadShape, TxShape
  <2>4. CASE q = r
    <3>1. /\ NextOrdinal(target[r]) \in Nat /\ NextOrdinal(target[r]) > 0
          /\ \A n \in Ordinals(target[r]) : n < NextOrdinal(target[r])
      BY <2>1, NextOrdinalAbove DEF IInv
    <3>2. ordinal[r]' = NextOrdinal(target[r]) /\ ~Busy(target[r])
      BY <1>6 DEF BeginRecord, IInv, TypeOK
    <3>3. \A phase \in Phases : tx[r][phase]' = "committing" => phase = "begin"
      BY <1>6, <2>4, <1>a DEF BeginRecord, PcShape, TypeOK
    <3>4. QED
      BY <1>b, <2>1, <2>4, <3>1, <3>2, <3>3 DEF ReadShape
  <2>5. QED
    BY <2>3, <2>4
<1>7. ASSUME NEW r \in Requests, BeginReturns(r) PROVE ReadShape(q)'
  <2>1. UNCHANGED <<rows, target, ordinal>> /\ \A phase \in {"begin", "complete"} :
          tx[q][phase]' = "committing" => tx[q][phase] = "committing"
    BY <1>7, <1>a DEF BeginReturns, TypeOK
  <2>2. QED
    BY <1>a, <1>b, <2>1 DEF ReadShape, TxShape
<1>8. ASSUME NEW r \in Requests, InnerRaises(r) PROVE ReadShape(q)'
  <2>1. UNCHANGED <<rows, target, ordinal>> /\ \A phase \in {"begin", "complete"} :
          tx[q][phase]' = "committing" => tx[q][phase] = "committing"
    BY <1>8, <1>a DEF InnerRaises, TypeOK
  <2>2. QED
    BY <1>a, <1>b, <2>1 DEF ReadShape, TxShape
<1>9. ASSUME NEW r \in Requests, NEW result \in Outcomes, InnerDone(r, result) PROVE ReadShape(q)'
  <2>1. UNCHANGED <<rows, target, ordinal>> /\ \A phase \in {"begin", "complete"} :
          tx[q][phase]' = "committing" => tx[q][phase] = "committing"
    BY <1>9, <1>a DEF InnerDone, TypeOK
  <2>2. QED
    BY <1>a, <1>b, <2>1 DEF ReadShape, TxShape
<1>10. ASSUME NEW r \in Requests, CompleteLockRun(r) PROVE ReadShape(q)'
  <2>1. UNCHANGED <<rows, target, ordinal>> /\ \A phase \in {"begin", "complete"} :
          tx[q][phase]' = "committing" => tx[q][phase] = "committing"
    BY <1>10, <1>a DEF CompleteLockRun, TypeOK
  <2>2. QED
    BY <1>a, <1>b, <2>1 DEF ReadShape, TxShape
<1>11. ASSUME NEW r \in Requests, CompleteWrite(r) PROVE ReadShape(q)'
  <2>1. target[r] \in Conversations /\ UNCHANGED <<rows, target>>
    BY <1>11 DEF CompleteWrite, PcShape, TxShape, IInv
  <2>2. q # r => UNCHANGED <<tx[q], ordinal[q]>>
    BY <1>11, <1>a DEF CompleteWrite, TypeOK
  <2>3. CASE q # r
    BY <1>a, <1>b, <2>1, <2>2, <2>3 DEF ReadShape, TxShape
  <2>4. CASE q = r
    <3>1. /\ NextOrdinal(target[r]) \in Nat /\ NextOrdinal(target[r]) > 0
          /\ \A n \in Ordinals(target[r]) : n < NextOrdinal(target[r])
      BY <2>1, NextOrdinalAbove DEF IInv
    <3>2. ordinal[r]' = NextOrdinal(target[r])
      BY <1>11 DEF CompleteWrite, IInv, TypeOK
    <3>3. \A phase \in Phases : tx[r][phase]' = "committing" => phase = "complete"
      BY <1>11, <2>4, <1>a DEF CompleteWrite, PcShape, TypeOK
    <3>4. QED
      BY <1>b, <2>1, <2>4, <3>1, <3>2, <3>3 DEF ReadShape
  <2>5. QED
    BY <2>3, <2>4
<1>12. ASSUME NEW r \in Requests, CompleteReturns(r) PROVE ReadShape(q)'
  <2>1. UNCHANGED <<rows, target, ordinal>> /\ \A phase \in {"begin", "complete"} :
          tx[q][phase]' = "committing" => tx[q][phase] = "committing"
    BY <1>12, <1>a DEF CompleteReturns, TypeOK
  <2>2. QED
    BY <1>a, <1>b, <2>1 DEF ReadShape, TxShape
<1>13. ASSUME NEW r \in Requests, DeliverDone(r) PROVE ReadShape(q)'
  <2>1. UNCHANGED <<rows, target, ordinal>> /\ \A phase \in {"begin", "complete"} :
          tx[q][phase]' = "committing" => tx[q][phase] = "committing"
    BY <1>13, <1>a DEF DeliverDone, TypeOK
  <2>2. QED
    BY <1>a, <1>b, <2>1 DEF ReadShape, TxShape
<1>14. ASSUME NEW r \in Requests, MarkLockRun(r) PROVE ReadShape(q)'
  <2>1. UNCHANGED <<rows, target, ordinal>> /\ \A phase \in {"begin", "complete"} :
          tx[q][phase]' = "committing" => tx[q][phase] = "committing"
    BY <1>14, <1>a DEF MarkLockRun, TypeOK
  <2>2. QED
    BY <1>a, <1>b, <2>1 DEF ReadShape, TxShape
<1>15. ASSUME NEW r \in Requests, MarkConflict(r) PROVE ReadShape(q)'
  <2>1. UNCHANGED <<rows, target, ordinal>> /\ \A phase \in {"begin", "complete"} :
          tx[q][phase]' = "committing" => tx[q][phase] = "committing"
    BY <1>15, <1>a DEF MarkConflict, TypeOK
  <2>2. QED
    BY <1>a, <1>b, <2>1 DEF ReadShape, TxShape
<1>16. ASSUME NEW r \in Requests, MarkWrite(r) PROVE ReadShape(q)'
  <2>1. UNCHANGED <<rows, target, ordinal>> /\ \A phase \in {"begin", "complete"} :
          tx[q][phase]' = "committing" => tx[q][phase] = "committing"
    BY <1>16, <1>a DEF MarkWrite, TypeOK
  <2>2. QED
    BY <1>a, <1>b, <2>1 DEF ReadShape, TxShape
<1>17. ASSUME NEW r \in Requests, MarkReturns(r) PROVE ReadShape(q)'
  <2>1. UNCHANGED <<rows, target, ordinal>> /\ \A phase \in {"begin", "complete"} :
          tx[q][phase]' = "committing" => tx[q][phase] = "committing"
    BY <1>17, <1>a DEF MarkReturns, TypeOK
  <2>2. QED
    BY <1>a, <1>b, <2>1 DEF ReadShape, TxShape
<1>18. ASSUME NEW r \in Requests, CommitBegin(r) PROVE ReadShape(q)'
  <2>1. UNCHANGED <<target, ordinal>> /\ \A phase \in Phases :
          tx[q][phase]' = "committing" => tx[q][phase] = "committing" /\ q # r
    BY <1>18, <1>a DEF CommitBegin, TypeOK, TxShape
  <2>2. \A phase \in Phases : tx[q][phase]' = "committing" => target[q] # target[r]
    BY <1>18, <2>1 DEF CommitBegin, IInv, TxShape
  <2>3. \A c \in Conversations : c # target[r] =>
          Ordinals(c)' = Ordinals(c) /\ (Busy(c)' => Busy(c))
    BY <1>18, CommitBeginReads DEF CommitBegin, Busy, RunsOf, Ordinals, IInv, TypeOK, TxShape, RowShape
  <2>4. QED
    BY <1>a, <2>1, <2>2, <2>3 DEF ReadShape, TxShape
<1>19. ASSUME NEW r \in Requests, CommitComplete(r) PROVE ReadShape(q)'
  <2>1. UNCHANGED <<target, ordinal>> /\ \A phase \in Phases :
          tx[q][phase]' = "committing" => tx[q][phase] = "committing" /\ q # r
    BY <1>19, <1>a DEF CommitComplete, TypeOK, TxShape
  <2>2. \A phase \in Phases : tx[q][phase]' = "committing" => target[q] # target[r]
    BY <1>19, <2>1 DEF CommitComplete, IInv, TxShape
  <2>3. \A c \in Conversations : c # target[r] =>
          Ordinals(c)' = Ordinals(c) /\ (Busy(c)' => Busy(c))
    BY <1>19, CommitCompleteReads DEF CommitComplete, Busy, RunsOf, Ordinals, IInv, TypeOK, TxShape, RowShape
  <2>4. QED
    BY <1>a, <2>1, <2>2, <2>3 DEF ReadShape, TxShape
<1>20. ASSUME NEW r \in Requests, CommitMark(r) PROVE ReadShape(q)'
  <2>1. UNCHANGED <<target, ordinal>> /\ \A phase \in Phases :
          tx[q][phase]' = "committing" => tx[q][phase] = "committing" /\ q # r
    BY <1>20, <1>a DEF CommitMark, TypeOK, TxShape
  <2>2. \A phase \in Phases : tx[q][phase]' = "committing" => target[q] # target[r]
    BY <1>20, <2>1 DEF CommitMark, IInv, TxShape
  <2>3. \A c \in Conversations : c # target[r] =>
          Ordinals(c)' = Ordinals(c) /\ (Busy(c)' => Busy(c))
    BY <1>20 DEF CommitMark, Busy, RunsOf, Ordinals, IInv, TypeOK, TxShape, RowShape
  <2>4. QED
    BY <1>a, <2>1, <2>2, <2>3 DEF ReadShape, TxShape
<1>21. ASSUME NEW r \in Requests, Cancel(r) PROVE ReadShape(q)'
  <2>1. UNCHANGED <<rows, target, ordinal>> /\ \A phase \in {"begin", "complete"} :
          tx[q][phase]' = "committing" => tx[q][phase] = "committing"
    BY <1>21, <1>a DEF Cancel, TypeOK, Abandon
  <2>2. QED
    BY <1>a, <1>b, <2>1 DEF ReadShape, TxShape
<1>22. ASSUME NEW r \in Requests, DatabaseError(r) PROVE ReadShape(q)'
  <2>1. UNCHANGED <<rows, target, ordinal>> /\ \A phase \in {"begin", "complete"} :
          tx[q][phase]' = "committing" => tx[q][phase] = "committing"
    BY <1>22, <1>a DEF DatabaseError, TypeOK, Abandon
  <2>2. QED
    BY <1>a, <1>b, <2>1 DEF ReadShape, TxShape
<1>23. ASSUME NEW r \in Requests, NEW phase \in Phases, CommitLost(r, phase) PROVE ReadShape(q)'
  <2>1. UNCHANGED <<rows, target, ordinal>> /\ \A p \in {"begin", "complete"} :
          tx[q][p]' = "committing" => tx[q][p] = "committing"
    BY <1>23, <1>a DEF CommitLost, TypeOK
  <2>2. QED
    BY <1>a, <1>b, <2>1 DEF ReadShape, TxShape
<1>24. CASE Crash
  <2>1. UNCHANGED <<rows, target, ordinal>> /\ \A phase \in {"begin", "complete"} :
          tx[q][phase]' = "committing" => tx[q][phase] = "committing"
    BY <1>24, <1>a DEF Crash, TypeOK
  <2>2. QED
    BY <1>a, <1>b, <2>1 DEF ReadShape, TxShape
<1>25. CASE UNCHANGED vars
  BY <1>25, <1>a, <1>b DEF vars, ReadShape, TxShape
<1>26. QED
  BY <1>1, <1>2, <1>3, <1>4, <1>5, <1>6, <1>7, <1>8, <1>9
     , <1>10, <1>11, <1>12, <1>13, <1>14, <1>15, <1>16, <1>17, <1>18
     , <1>19, <1>20, <1>21, <1>22, <1>23, <1>24, <1>25
  DEF Next, Begin, Inner, Complete, Mark, Commit, Quiet

\* A conversation admits a run only while none is running.
LEMMA OneRunningStep == IInv /\ [Next]_vars => OneRunningPerConversation'
<1> SUFFICES ASSUME IInv, [Next]_vars PROVE OneRunningPerConversation'
  OBVIOUS
<1>1. CASE UNCHANGED rows
  BY <1>1 DEF IInv, OneRunningPerConversation
<1>2. ASSUME NEW r \in Requests, CommitBegin(r) PROVE OneRunningPerConversation'
  <2>1. target[r] \in Conversations /\ ~Busy(target[r])
    BY <1>2 DEF CommitBegin, IInv, TxShape, ReadShape
  <2>2. /\ runStatus' = [runStatus EXCEPT ![r] = "running"]
        /\ runConversation' = [runConversation EXCEPT ![r] = target[r]]
    BY <1>2 DEF CommitBegin
  <2>3. QED
    BY <2>1, <2>2 DEF IInv, TypeOK, OneRunningPerConversation, Busy, RunsOf
<1>3. ASSUME NEW r \in Requests, CommitComplete(r) \/ CommitMark(r) PROVE OneRunningPerConversation'
  <2>1. UNCHANGED runConversation /\ \A q \in Requests :
          runStatus'[q] = "running" => runStatus[q] = "running"
    BY <1>3 DEF CommitComplete, CommitMark, IInv, TypeOK, TxShape
  <2>2. QED
    BY <2>1 DEF IInv, OneRunningPerConversation
<1>4. QED
  BY <1>1, <1>2, <1>3, CommitsOnly

\* The ordinals of a conversation stay distinct, and one of them is the last.
LEMMA OrdinalStep ==
  IInv /\ [Next]_vars => OrdinalsUnique' /\ \A c \in Conversations : HasLastOrdinal(c)'
<1> SUFFICES ASSUME IInv, [Next]_vars
             PROVE  OrdinalsUnique' /\ \A c \in Conversations : HasLastOrdinal(c)'
  OBVIOUS
<1>a. \A c \in Conversations : Ordinals(c) \subseteq Nat
  BY DEF IInv, TypeOK, Ordinals, RunsOf
<1>b. ASSUME NEW c \in Conversations, NEW n \in Nat,
             \A m \in Ordinals(c) : m < n, Ordinals(c)' = Ordinals(c) \union {n}
      PROVE  HasLastOrdinal(c)'
  BY <1>a, <1>b DEF HasLastOrdinal
<1>1. CASE UNCHANGED rows
  BY <1>1, ReadsUnchanged DEF IInv, OrdinalsUnique, HasLastOrdinal, RunsOf
<1>2. ASSUME NEW r \in Requests, CommitBegin(r)
      PROVE  OrdinalsUnique' /\ \A c \in Conversations : HasLastOrdinal(c)'
  <2>1. /\ target[r] \in Conversations /\ ordinal[r] \in Nat \ {0}
        /\ \A n \in Ordinals(target[r]) : n < ordinal[r]
    BY <1>2 DEF CommitBegin, IInv, TypeOK, TxShape, ReadShape
  <2>2. \A c \in Conversations : HasLastOrdinal(c)'
    BY <1>2, <1>b, <2>1, CommitBeginReads DEF IInv, HasLastOrdinal
  <2>3. /\ runConversation' = [runConversation EXCEPT ![r] = target[r]]
        /\ userOrdinal' = [userOrdinal EXCEPT ![r] = ordinal[r]]
        /\ assistantOrdinal' = assistantOrdinal /\ assistantOrdinal[r] = 0
        /\ runConversation[r] = NoConversation
    BY <1>2 DEF CommitBegin, IInv, TxShape, RowShape
  <2>4. OrdinalsUnique'
    <3> SUFFICES ASSUME NEW c \in Conversations, NEW p \in RunsOf(c)', NEW q \in RunsOf(c)'
                 PROVE  /\ userOrdinal'[p] # assistantOrdinal'[q]
                        /\ userOrdinal'[p] = userOrdinal'[q] => p = q
                        /\ assistantOrdinal'[p] = assistantOrdinal'[q] /\ assistantOrdinal'[p] # 0
                             => p = q
      BY DEF OrdinalsUnique
    <3>1. \A s \in Requests \ {r} : s \in RunsOf(c)' <=> s \in RunsOf(c)
      BY <2>3 DEF RunsOf, IInv, TypeOK
    <3>2. r \in RunsOf(c)' => c = target[r]
      BY <2>3 DEF RunsOf, IInv, TypeOK
    <3>3. \A s \in RunsOf(c) : /\ userOrdinal[s] \in Ordinals(c) \union {0}
                               /\ assistantOrdinal[s] \in Ordinals(c) \union {0}
      BY DEF Ordinals
    <3>4. p \in Requests /\ q \in Requests
      BY DEF RunsOf
    <3>5. \A s \in Requests \ {r} :
            s \in RunsOf(c)' => /\ userOrdinal'[s] = userOrdinal[s]
                                /\ assistantOrdinal'[s] = assistantOrdinal[s]
      BY <2>3 DEF IInv, TypeOK
    <3>6. userOrdinal'[r] = ordinal[r] /\ assistantOrdinal'[r] = 0
      BY <2>3 DEF IInv, TypeOK
    <3>7. CASE p # r /\ q # r
      BY <3>1, <3>4, <3>5, <3>7 DEF IInv, OrdinalsUnique
    <3>8. CASE p = r /\ q # r
      BY <2>1, <3>1, <3>2, <3>3, <3>4, <3>5, <3>6, <3>8, <1>a
    <3>9. CASE p # r /\ q = r
      <4>1. userOrdinal[p] # 0
        BY <2>1, <3>1, <3>4, <3>9, RagRunsAssumption DEF IInv, TypeOK, RowShape, RunsOf
      <4>2. QED
        BY <2>1, <3>1, <3>2, <3>3, <3>4, <3>5, <3>6, <3>9, <4>1, <1>a
    <3>10. CASE p = r /\ q = r
      BY <2>1, <3>6, <3>10
    <3>11. QED
      BY <3>7, <3>8, <3>9, <3>10
  <2>5. QED
    BY <2>2, <2>4
<1>3. ASSUME NEW r \in Requests, CommitComplete(r)
      PROVE  OrdinalsUnique' /\ \A c \in Conversations : HasLastOrdinal(c)'
  <2>1. /\ target[r] \in Conversations /\ runConversation[r] = target[r]
        /\ ordinal[r] \in Nat \ {0}
        /\ \A n \in Ordinals(target[r]) : n < ordinal[r]
        /\ assistantOrdinal[r] = 0
    BY <1>3 DEF CommitComplete, IInv, TypeOK, TxShape, ReadShape, RowShape
  <2>2. \A c \in Conversations : HasLastOrdinal(c)'
    BY <1>3, <1>b, <2>1, CommitCompleteReads DEF IInv, HasLastOrdinal
  <2>3. /\ runConversation' = runConversation /\ userOrdinal' = userOrdinal
        /\ \/ assistantOrdinal' = [assistantOrdinal EXCEPT ![r] = ordinal[r]]
           \/ assistantOrdinal' = assistantOrdinal
    BY <1>3 DEF CommitComplete, IInv, TypeOK
  <2>4. OrdinalsUnique'
    <3> SUFFICES ASSUME NEW c \in Conversations, NEW p \in RunsOf(c), NEW q \in RunsOf(c)
                 PROVE  /\ userOrdinal[p] # assistantOrdinal'[q]
                        /\ userOrdinal[p] = userOrdinal[q] => p = q
                        /\ assistantOrdinal'[p] = assistantOrdinal'[q] /\ assistantOrdinal'[p] # 0
                             => p = q
      BY <2>3 DEF OrdinalsUnique, RunsOf
    <3>1. r \in RunsOf(c) => c = target[r]
      BY <2>1 DEF RunsOf
    <3>2. \A s \in RunsOf(c) : /\ userOrdinal[s] \in Ordinals(c) \union {0}
                               /\ assistantOrdinal[s] \in Ordinals(c) \union {0}
      BY DEF Ordinals
    <3>3. QED
      BY <2>1, <2>3, <3>1, <3>2, <1>a DEF IInv, OrdinalsUnique, TypeOK, RunsOf
  <2>5. QED
    BY <2>2, <2>4
<1>4. ASSUME NEW r \in Requests, CommitMark(r)
      PROVE  OrdinalsUnique' /\ \A c \in Conversations : HasLastOrdinal(c)'
  <2>1. UNCHANGED <<runConversation, userOrdinal, assistantOrdinal>>
    BY <1>4 DEF CommitMark
  <2>2. \A c \in Conversations : RunsOf(c)' = RunsOf(c) /\ Ordinals(c)' = Ordinals(c)
    BY <2>1 DEF RunsOf, Ordinals
  <2>3. QED
    BY <2>1, <2>2 DEF IInv, OrdinalsUnique, HasLastOrdinal
<1>5. QED
  BY <1>1, <1>2, <1>3, <1>4, CommitsOnly

-----------------------------------------------------------------------------

\* The inductive invariant.
THEOREM Invariant == Spec => []IInv
<1>1. Init => IInv
  <2> SUFFICES ASSUME Init PROVE IInv
    OBVIOUS
  <2> USE RagRunsAssumption DEF Init
  <2>1. TypeOK
    BY DEF TypeOK
  <2>2. \A r \in Requests : PcShape(r) /\ TxShape(r) /\ ReadShape(r) /\ RowShape(r)
    BY DEF PcShape, TxShape, ReadShape, RowShape
  <2>3. \A c \in Conversations : RunsOf(c) = {}
    BY DEF RunsOf
  <2>4. \A c \in Conversations : HasLastOrdinal(c)
    BY <2>3 DEF HasLastOrdinal, Ordinals
  <2>5. OneRunningPerConversation /\ OrdinalsUnique
    BY <2>3 DEF OneRunningPerConversation, OrdinalsUnique
  <2>6. QED
    BY <2>1, <2>2, <2>4, <2>5 DEF IInv
<1>2. IInv /\ [Next]_vars => IInv'
  BY TypeStep, PcStep, TxStep, ReadStep, RowStep, OneRunningStep, OrdinalStep, SMTT(30) DEF IInv
<1>3. QED
  BY <1>1, <1>2, PTL DEF Spec

\* Every variable keeps its type; rag_runs.status only takes the values its
\* CHECK constraint allows, and every ordinal is a number.
THEOREM TypeCorrect == Spec => []TypeOK
<1>1. IInv => TypeOK
  BY DEF IInv
<1>2. QED
  BY Invariant, <1>1, PTL

\* However begin_run, complete_run, cancellations, faults and crashes
\* interleave, a conversation never has two running runs.
THEOREM RunsAreExclusive == Spec => []OneRunningPerConversation
<1>1. IInv => OneRunningPerConversation
  BY DEF IInv
<1>2. QED
  BY Invariant, <1>1, PTL

\* No two messages of a conversation get the same ordinal.
THEOREM MessagesAreOrdered == Spec => []OrdinalsUnique
<1>1. IInv => OrdinalsUnique
  BY DEF IInv
<1>2. QED
  BY Invariant, <1>1, PTL

\* An assistant message is committed with, and only with, an answering outcome.
THEOREM AnswersAreComplete == Spec => []AnswersOfAnsweredRuns
<1>1. IInv => AnswersOfAnsweredRuns
  BY DEF IInv, RowShape, AnswersOfAnsweredRuns
<1>2. QED
  BY Invariant, <1>1, PTL

\* A client that was told done finds the reported outcome in the database, for ever.
THEOREM DoneIsDurable == Spec => []DoneMeansSaved
<1>1. IInv => DoneMeansSaved
  BY DEF IInv, RowShape, DoneMeansSaved
<1>2. QED
  BY Invariant, <1>1, PTL

-----------------------------------------------------------------------------
(* Orphans                                                                 *)

\* Without database errors and crashes: how often a coroutine was cancelled by
\* the await it is suspended at, and why it may have ended without settling its run.
OrphanShape(r) ==
  faults = 0 =>
    /\ pc[r] \in {"idle"} \union BeginPcs => cancels[r] = 0 /\ seen[r] = "nothing"
    /\ pc[r] \in {"streaming", "done"} \union CompletePcs => cancels[r] = 0
    /\ pc[r] \in MarkPcs =>
         \/ verdict[r] = "failed" /\ cancels[r] = 0
         \/ verdict[r] = "cancelled" /\ cancels[r] > 0
    /\ pc[r] = "finished" =>
         \/ cancels[r] > 1
         \/ cancels[r] = 1 /\ (seen[r] = "nothing" \/ verdict[r] = "failed")
         \/ runStatus[r] \in Terminal
         \/ tx[r]["begin"] = "aborted"

OrphanInv == \A r \in Requests : OrphanShape(r)

LEMMA OrphanStep == IInv /\ OrphanInv /\ [Next]_vars => OrphanInv'
<1> SUFFICES ASSUME IInv, [Next]_vars, NEW q \in Requests, OrphanShape(q)
             PROVE  OrphanShape(q)'
  BY DEF OrphanInv
<1>a. TypeOK /\ PcShape(q) /\ TxShape(q) /\ RowShape(q)
  BY DEF IInv
<1> USE RagRunsAssumption DEF OrphanShape
<1>1. ASSUME NEW r \in Requests, NEW c \in Conversations, Call(r, c) PROVE OrphanShape(q)'
  BY <1>1, <1>a DEF Call, TypeOK, PcShape, TxShape, RowShape
<1>2. ASSUME NEW r \in Requests, NEW c \in Conversations, CallNew(r, c) PROVE OrphanShape(q)'
  BY <1>2, <1>a DEF CallNew, TypeOK, PcShape, TxShape, RowShape
<1>3. ASSUME NEW r \in Requests, BeginLock(r) PROVE OrphanShape(q)'
  BY <1>3, <1>a DEF BeginLock, TypeOK, PcShape, TxShape, RowShape
<1>4. ASSUME NEW r \in Requests, BeginNotFound(r) PROVE OrphanShape(q)'
  BY <1>4, <1>a DEF BeginNotFound, TypeOK, PcShape, TxShape, RowShape
<1>5. ASSUME NEW r \in Requests, BeginBusy(r) PROVE OrphanShape(q)'
  BY <1>5, <1>a DEF BeginBusy, TypeOK, PcShape, TxShape, RowShape
<1>6. ASSUME NEW r \in Requests, BeginRecord(r) PROVE OrphanShape(q)'
  BY <1>6, <1>a DEF BeginRecord, TypeOK, PcShape, TxShape, RowShape
<1>7. ASSUME NEW r \in Requests, BeginReturns(r) PROVE OrphanShape(q)'
  BY <1>7, <1>a DEF BeginReturns, TypeOK, PcShape, TxShape, RowShape
<1>8. ASSUME NEW r \in Requests, InnerRaises(r) PROVE OrphanShape(q)'
  BY <1>8, <1>a DEF InnerRaises, TypeOK, PcShape, TxShape, RowShape
<1>9. ASSUME NEW r \in Requests, NEW result \in Outcomes, InnerDone(r, result) PROVE OrphanShape(q)'
  BY <1>9, <1>a DEF InnerDone, TypeOK, PcShape, TxShape, RowShape
<1>10. ASSUME NEW r \in Requests, CompleteLockRun(r) PROVE OrphanShape(q)'
  BY <1>10, <1>a DEF CompleteLockRun, TypeOK, PcShape, TxShape, RowShape
<1>11. ASSUME NEW r \in Requests, CompleteWrite(r) PROVE OrphanShape(q)'
  BY <1>11, <1>a DEF CompleteWrite, TypeOK, PcShape, TxShape, RowShape
<1>12. ASSUME NEW r \in Requests, CompleteReturns(r) PROVE OrphanShape(q)'
  BY <1>12, <1>a DEF CompleteReturns, TypeOK, PcShape, TxShape, RowShape
<1>13. ASSUME NEW r \in Requests, DeliverDone(r) PROVE OrphanShape(q)'
  BY <1>13, <1>a DEF DeliverDone, TypeOK, PcShape, TxShape, RowShape
<1>14. ASSUME NEW r \in Requests, MarkLockRun(r) PROVE OrphanShape(q)'
  BY <1>14, <1>a DEF MarkLockRun, TypeOK, PcShape, TxShape, RowShape
<1>15. ASSUME NEW r \in Requests, MarkConflict(r) PROVE OrphanShape(q)'
  BY <1>15, <1>a DEF MarkConflict, TypeOK, PcShape, TxShape, RowShape
<1>16. ASSUME NEW r \in Requests, MarkWrite(r) PROVE OrphanShape(q)'
  BY <1>16, <1>a DEF MarkWrite, TypeOK, PcShape, TxShape, RowShape
<1>17. ASSUME NEW r \in Requests, MarkReturns(r) PROVE OrphanShape(q)'
  BY <1>17, <1>a DEF MarkReturns, TypeOK, PcShape, TxShape, RowShape
<1>18. ASSUME NEW r \in Requests, CommitBegin(r) PROVE OrphanShape(q)'
  BY <1>18, <1>a DEF CommitBegin, TypeOK, PcShape, TxShape, RowShape
<1>19. ASSUME NEW r \in Requests, CommitComplete(r) PROVE OrphanShape(q)'
  BY <1>19, <1>a DEF CommitComplete, TypeOK, PcShape, TxShape, RowShape
<1>20. ASSUME NEW r \in Requests, CommitMark(r) PROVE OrphanShape(q)'
  BY <1>20, <1>a DEF CommitMark, TypeOK, PcShape, TxShape, RowShape
<1>21. ASSUME NEW r \in Requests, Cancel(r) PROVE OrphanShape(q)'
  BY <1>21, <1>a DEF Cancel, TypeOK, PcShape, TxShape, RowShape, Unwind, Abandon, OpenTxs
<1>22. ASSUME NEW r \in Requests, DatabaseError(r) PROVE OrphanShape(q)'
  BY <1>22, <1>a DEF DatabaseError, TypeOK, PcShape, TxShape, RowShape
<1>23. ASSUME NEW r \in Requests, NEW phase \in Phases, CommitLost(r, phase) PROVE OrphanShape(q)'
  BY <1>23, <1>a DEF CommitLost, TypeOK
<1>24. CASE Crash
  BY <1>24, <1>a DEF Crash, TypeOK
<1>25. CASE UNCHANGED vars
  BY <1>25 DEF vars
<1>26. QED
  BY <1>1, <1>2, <1>3, <1>4, <1>5, <1>6, <1>7, <1>8, <1>9,
     <1>10, <1>11, <1>12, <1>13, <1>14, <1>15, <1>16, <1>17, <1>18,
     <1>19, <1>20, <1>21, <1>22, <1>23, <1>24, <1>25
  DEF Next, Begin, Inner, Complete, Mark, Commit, Quiet

\* A run is left running with nobody to settle it only by a database error, a
\* crash, a second cancellation, or a cancellation of begin_run or of fail_run.
THEOREM OrphansAreExplained == Spec => []OrphansHaveACause
<1>1. Init => OrphanInv
  BY RagRunsAssumption DEF Init, OrphanInv, OrphanShape
<1>2. IInv /\ OrphanInv => OrphansHaveACause
  <2> SUFFICES ASSUME IInv, NEW r \in Requests, OrphanShape(r),
                      runStatus[r] = "running", pc[r] = "finished"
               PROVE  \/ faults > 0
                      \/ cancels[r] > 1
                      \/ cancels[r] = 1 /\ (seen[r] = "nothing" \/ verdict[r] = "failed")
    BY DEF OrphansHaveACause, OrphanInv
  <2>1. faults \in Nat /\ tx[r]["begin"] = "committed"
    BY RagRunsAssumption DEF IInv, TypeOK, RowShape
  <2>2. QED
    BY <2>1 DEF OrphanShape
<1>3. QED
  BY Invariant, OrphanStep, <1>1, <1>2, PTL DEF Spec

-----------------------------------------------------------------------------
(* The refinement of TurnLog                                               *)

\* The running turn of a conversation is its last one; a commit that is on
\* its way puts its message directly after the last one it saw.
NextShape(r) ==
  /\ runStatus[r] = "running" => \A n \in Ordinals(target[r]) : n <= userOrdinal[r]
  /\ tx[r]["begin"] = "committing" => ordinal[r] - 1 \in Ordinals(target[r]) \union {0}
  /\ tx[r]["complete"] = "committing" => ordinal[r] = userOrdinal[r] + 1

NextInv == \A r \in Requests : NextShape(r)

LEMMA NextOrdinalFollows ==
  ASSUME TypeOK, NEW c \in Conversations, HasLastOrdinal(c)
  PROVE  NextOrdinal(c) - 1 \in Ordinals(c) \union {0}
<1> DEFINE Last(last) == \A n \in Ordinals(c) : n <= last
<1> DEFINE max == CHOOSE last \in Ordinals(c) \union {0} : Last(last)
<1>1. Ordinals(c) \subseteq Nat
  BY DEF TypeOK, Ordinals, RunsOf
<1>2. max \in Ordinals(c) \union {0}
  BY DEF HasLastOrdinal
<1>3. NextOrdinal(c) = 1 + max
  BY DEF NextOrdinal
<1> HIDE DEF max
<1>4. QED
  BY <1>1, <1>2, <1>3

LEMMA NextInvStep == IInv /\ NextInv /\ [Next]_vars => NextInv'
<1> SUFFICES ASSUME IInv, NextInv, [Next]_vars, NEW q \in Requests PROVE NextShape(q)'
  BY DEF NextInv
<1>a. TypeOK /\ PcShape(q) /\ TxShape(q) /\ ReadShape(q) /\ RowShape(q) /\ NextShape(q)
  BY DEF IInv, NextInv
<1>b. UNCHANGED rows => \A c : Ordinals(c)' = Ordinals(c)
  BY ReadsUnchanged
<1>1. ASSUME NEW r \in Requests, NEW c \in Conversations, Call(r, c) PROVE NextShape(q)'
  <2>1. UNCHANGED <<rows, ordinal>> /\ (q = r \/ UNCHANGED <<tx[q], target[q]>>)
    BY <1>1, <1>a DEF Call, TypeOK
  <2>2. CASE q # r
    BY <2>1, <2>2, <1>a, <1>b DEF NextShape, TxShape, RowShape
  <2>3. CASE q = r
    BY <1>1, <2>3, <1>a DEF Call, TypeOK, PcShape, TxShape, RowShape, NextShape
  <2>4. QED
    BY <2>1, <2>2, <2>3
<1>2. ASSUME NEW r \in Requests, NEW c \in Conversations, CallNew(r, c) PROVE NextShape(q)'
  <2>1. UNCHANGED <<rows, ordinal>> /\ (q = r \/ UNCHANGED <<tx[q], target[q]>>)
    BY <1>2, <1>a DEF CallNew, TypeOK
  <2>2. CASE q # r
    BY <2>1, <2>2, <1>a, <1>b DEF NextShape, TxShape, RowShape
  <2>3. CASE q = r
    BY <1>2, <2>3, <1>a DEF CallNew, TypeOK, PcShape, TxShape, RowShape, NextShape
  <2>4. QED
    BY <2>1, <2>2, <2>3
<1>3. ASSUME NEW r \in Requests, BeginLock(r) PROVE NextShape(q)'
  <2>1. UNCHANGED <<rows, target, ordinal>> /\ \A phase \in {"begin", "complete"} :
          tx[q][phase]' = "committing" => tx[q][phase] = "committing"
    BY <1>3, <1>a DEF BeginLock, TypeOK
  <2>2. QED
    BY <1>a, <1>b, <2>1 DEF NextShape, TxShape, RowShape
<1>4. ASSUME NEW r \in Requests, BeginNotFound(r) PROVE NextShape(q)'
  <2>1. UNCHANGED <<rows, target, ordinal>> /\ \A phase \in {"begin", "complete"} :
          tx[q][phase]' = "committing" => tx[q][phase] = "committing"
    BY <1>4, <1>a DEF BeginNotFound, TypeOK
  <2>2. QED
    BY <1>a, <1>b, <2>1 DEF NextShape, TxShape, RowShape
<1>5. ASSUME NEW r \in Requests, BeginBusy(r) PROVE NextShape(q)'
  <2>1. UNCHANGED <<rows, target, ordinal>> /\ \A phase \in {"begin", "complete"} :
          tx[q][phase]' = "committing" => tx[q][phase] = "committing"
    BY <1>5, <1>a DEF BeginBusy, TypeOK
  <2>2. QED
    BY <1>a, <1>b, <2>1 DEF NextShape, TxShape, RowShape
<1>6. ASSUME NEW r \in Requests, BeginRecord(r) PROVE NextShape(q)'
  <2>1. target[r] \in Conversations /\ UNCHANGED <<rows, target>>
    BY <1>6 DEF BeginRecord, PcShape, TxShape, IInv
  <2>2. q # r => UNCHANGED <<tx[q], ordinal[q]>>
    BY <1>6, <1>a DEF BeginRecord, TypeOK
  <2>3. CASE q # r
    BY <1>a, <1>b, <2>1, <2>2, <2>3 DEF NextShape, TxShape, RowShape
  <2>4. CASE q = r
    <3>1. /\ NextOrdinal(target[r]) \in Nat /\ NextOrdinal(target[r]) - 1 \in Ordinals(target[r]) \union {0}
          /\ \A n \in Ordinals(target[r]) : n < NextOrdinal(target[r])
      BY <2>1, NextOrdinalAbove, NextOrdinalFollows DEF IInv
    <3>2. ordinal[r]' = NextOrdinal(target[r])
      BY <1>6 DEF BeginRecord, IInv, TypeOK
    <3>3. \A phase \in Phases : tx[r][phase]' = "committing" => phase = "begin"
      BY <1>6, <2>4, <1>a DEF BeginRecord, PcShape, TypeOK
    <3>4. QED
      BY <1>a, <1>b, <2>1, <2>4, <3>1, <3>2, <3>3 DEF NextShape, RowShape
  <2>5. QED
    BY <2>3, <2>4
<1>7. ASSUME NEW r \in Requests, BeginReturns(r) PROVE NextShape(q)'
  <2>1. UNCHANGED <<rows, target, ordinal>> /\ \A phase \in {"begin", "complete"} :
          tx[q][phase]' = "committing" => tx[q][phase] = "committing"
    BY <1>7, <1>a DEF BeginReturns, TypeOK
  <2>2. QED
    BY <1>a, <1>b, <2>1 DEF NextShape, TxShape, RowShape
<1>8. ASSUME NEW r \in Requests, InnerRaises(r) PROVE NextShape(q)'
  <2>1. UNCHANGED <<rows, target, ordinal>> /\ \A phase \in {"begin", "complete"} :
          tx[q][phase]' = "committing" => tx[q][phase] = "committing"
    BY <1>8, <1>a DEF InnerRaises, TypeOK
  <2>2. QED
    BY <1>a, <1>b, <2>1 DEF NextShape, TxShape, RowShape
<1>9. ASSUME NEW r \in Requests, NEW result \in Outcomes, InnerDone(r, result) PROVE NextShape(q)'
  <2>1. UNCHANGED <<rows, target, ordinal>> /\ \A phase \in {"begin", "complete"} :
          tx[q][phase]' = "committing" => tx[q][phase] = "committing"
    BY <1>9, <1>a DEF InnerDone, TypeOK
  <2>2. QED
    BY <1>a, <1>b, <2>1 DEF NextShape, TxShape, RowShape
<1>10. ASSUME NEW r \in Requests, CompleteLockRun(r) PROVE NextShape(q)'
  <2>1. UNCHANGED <<rows, target, ordinal>> /\ \A phase \in {"begin", "complete"} :
          tx[q][phase]' = "committing" => tx[q][phase] = "committing"
    BY <1>10, <1>a DEF CompleteLockRun, TypeOK
  <2>2. QED
    BY <1>a, <1>b, <2>1 DEF NextShape, TxShape, RowShape
<1>11. ASSUME NEW r \in Requests, CompleteWrite(r) PROVE NextShape(q)'
  <2>1. target[r] \in Conversations /\ UNCHANGED <<rows, target>>
    BY <1>11 DEF CompleteWrite, PcShape, TxShape, IInv
  <2>2. q # r => UNCHANGED <<tx[q], ordinal[q]>>
    BY <1>11, <1>a DEF CompleteWrite, TypeOK
  <2>3. CASE q # r
    BY <1>a, <1>b, <2>1, <2>2, <2>3 DEF NextShape, TxShape, RowShape
  <2>4. CASE q = r
    <3>1. /\ NextOrdinal(target[r]) \in Nat /\ NextOrdinal(target[r]) - 1 \in Ordinals(target[r]) \union {0}
          /\ \A n \in Ordinals(target[r]) : n < NextOrdinal(target[r])
      BY <2>1, NextOrdinalAbove, NextOrdinalFollows DEF IInv
    <3>2. ordinal[r]' = NextOrdinal(target[r])
      BY <1>11 DEF CompleteWrite, IInv, TypeOK
    <3>3. \A phase \in Phases : tx[r][phase]' = "committing" => phase = "complete"
      BY <1>11, <2>4, <1>a DEF CompleteWrite, PcShape, TypeOK
    <3>4. /\ runStatus[r] = "running" /\ userOrdinal[r] \in Ordinals(target[r])
          /\ userOrdinal[r] \in Nat /\ Ordinals(target[r]) \subseteq Nat
      BY <1>11, <2>1, <2>4, <1>a DEF CompleteWrite, TypeOK, PcShape, TxShape, RowShape, Ordinals, RunsOf
    <3>5. \A n \in Ordinals(target[r]) : n <= userOrdinal[r]
      BY <2>4, <3>4, <1>a DEF NextShape
    <3>6. NextOrdinal(target[r]) = userOrdinal[r] + 1
      BY <3>1, <3>4, <3>5
    <3>7. QED
      BY <1>a, <1>b, <2>1, <2>4, <3>2, <3>3, <3>4, <3>6 DEF NextShape
  <2>5. QED
    BY <2>3, <2>4
<1>12. ASSUME NEW r \in Requests, CompleteReturns(r) PROVE NextShape(q)'
  <2>1. UNCHANGED <<rows, target, ordinal>> /\ \A phase \in {"begin", "complete"} :
          tx[q][phase]' = "committing" => tx[q][phase] = "committing"
    BY <1>12, <1>a DEF CompleteReturns, TypeOK
  <2>2. QED
    BY <1>a, <1>b, <2>1 DEF NextShape, TxShape, RowShape
<1>13. ASSUME NEW r \in Requests, DeliverDone(r) PROVE NextShape(q)'
  <2>1. UNCHANGED <<rows, target, ordinal>> /\ \A phase \in {"begin", "complete"} :
          tx[q][phase]' = "committing" => tx[q][phase] = "committing"
    BY <1>13, <1>a DEF DeliverDone, TypeOK
  <2>2. QED
    BY <1>a, <1>b, <2>1 DEF NextShape, TxShape, RowShape
<1>14. ASSUME NEW r \in Requests, MarkLockRun(r) PROVE NextShape(q)'
  <2>1. UNCHANGED <<rows, target, ordinal>> /\ \A phase \in {"begin", "complete"} :
          tx[q][phase]' = "committing" => tx[q][phase] = "committing"
    BY <1>14, <1>a DEF MarkLockRun, TypeOK
  <2>2. QED
    BY <1>a, <1>b, <2>1 DEF NextShape, TxShape, RowShape
<1>15. ASSUME NEW r \in Requests, MarkConflict(r) PROVE NextShape(q)'
  <2>1. UNCHANGED <<rows, target, ordinal>> /\ \A phase \in {"begin", "complete"} :
          tx[q][phase]' = "committing" => tx[q][phase] = "committing"
    BY <1>15, <1>a DEF MarkConflict, TypeOK
  <2>2. QED
    BY <1>a, <1>b, <2>1 DEF NextShape, TxShape, RowShape
<1>16. ASSUME NEW r \in Requests, MarkWrite(r) PROVE NextShape(q)'
  <2>1. UNCHANGED <<rows, target, ordinal>> /\ \A phase \in {"begin", "complete"} :
          tx[q][phase]' = "committing" => tx[q][phase] = "committing"
    BY <1>16, <1>a DEF MarkWrite, TypeOK
  <2>2. QED
    BY <1>a, <1>b, <2>1 DEF NextShape, TxShape, RowShape
<1>17. ASSUME NEW r \in Requests, MarkReturns(r) PROVE NextShape(q)'
  <2>1. UNCHANGED <<rows, target, ordinal>> /\ \A phase \in {"begin", "complete"} :
          tx[q][phase]' = "committing" => tx[q][phase] = "committing"
    BY <1>17, <1>a DEF MarkReturns, TypeOK
  <2>2. QED
    BY <1>a, <1>b, <2>1 DEF NextShape, TxShape, RowShape
<1>18. ASSUME NEW r \in Requests, CommitBegin(r) PROVE NextShape(q)'
  <2>1. UNCHANGED <<target, ordinal>> /\ \A phase \in Phases :
          tx[q][phase]' = "committing" => tx[q][phase] = "committing" /\ q # r
    BY <1>18, <1>a DEF CommitBegin, TypeOK, TxShape
  <2>2. \A phase \in Phases : tx[q][phase]' = "committing" => target[q] # target[r]
    BY <1>18, <2>1 DEF CommitBegin, IInv, TxShape
  <2>3. \A c \in Conversations : c # target[r] => Ordinals(c)' = Ordinals(c)
    BY <1>18, CommitBeginReads
  <2>4. target[r] \in Conversations /\ target[q] \in Conversations \union {NoConversation}
    BY <1>18 DEF CommitBegin, IInv, TypeOK, TxShape
  <2>5. /\ runStatus'[q] = "running" => q = r \/ runStatus[q] = "running"
        /\ q # r => userOrdinal'[q] = userOrdinal[q]
    BY <1>18, <1>a DEF CommitBegin, IInv, TypeOK, TxShape, RowShape
  <2>6. CASE q # r
    <3>1. runStatus'[q] = "running" => target[q] # target[r]
      BY <1>18, <2>5, <2>6, <1>a, <2>4 DEF CommitBegin, IInv, TypeOK, RowShape, ReadShape, Busy, RunsOf
    <3>2. userOrdinal'[q] = userOrdinal[q]
      BY <1>18, <2>6, <1>a DEF CommitBegin, TypeOK
    <3>3. runStatus'[q] = "running" => \A n \in Ordinals(target[q])' : n <= userOrdinal'[q]
      BY <2>1, <2>3, <2>4, <2>5, <2>6, <3>1, <3>2, <1>a DEF NextShape, TxShape, RowShape
    <3>4. QED
      BY <1>a, <2>1, <2>2, <2>3, <2>4, <3>2, <3>3 DEF NextShape, TxShape
  <2>7. CASE q = r
    <3>1. Ordinals(target[r])' = Ordinals(target[r]) \union {ordinal[r]}
      BY <1>18, <2>1, <2>4, CommitBeginReads
    <3>2. userOrdinal'[r] = ordinal[r] /\ \A n \in Ordinals(target[r]) : n < ordinal[r]
      BY <1>18, <2>7, <1>a DEF CommitBegin, TypeOK, ReadShape
    <3>3. ordinal[r] \in Nat /\ Ordinals(target[r]) \subseteq Nat
      BY DEF IInv, TypeOK, Ordinals, RunsOf
    <3>4. QED
      BY <2>1, <2>7, <3>1, <3>2, <3>3 DEF NextShape
  <2>8. QED
    BY <2>6, <2>7
<1>19. ASSUME NEW r \in Requests, CommitComplete(r) PROVE NextShape(q)'
  <2>1. UNCHANGED <<target, ordinal>> /\ \A phase \in Phases :
          tx[q][phase]' = "committing" => tx[q][phase] = "committing" /\ q # r
    BY <1>19, <1>a DEF CommitComplete, TypeOK, TxShape
  <2>2. \A phase \in Phases : tx[q][phase]' = "committing" => target[q] # target[r]
    BY <1>19, <2>1 DEF CommitComplete, IInv, TxShape
  <2>3. \A c \in Conversations : c # target[r] => Ordinals(c)' = Ordinals(c)
    BY <1>19, CommitCompleteReads
  <2>4. target[r] \in Conversations /\ target[q] \in Conversations \union {NoConversation}
    BY <1>19 DEF CommitComplete, IInv, TypeOK, TxShape
  <2>5. /\ runStatus'[q] = "running" => q # r /\ runStatus[q] = "running"
        /\ q # r => userOrdinal'[q] = userOrdinal[q]
    BY <1>19, <1>a DEF CommitComplete, IInv, TypeOK, TxShape, RowShape
  <2>6. runStatus'[q] = "running" => target[q] # target[r]
    BY <1>19, <2>5, <1>a DEF CommitComplete, IInv, RowShape, TxShape, OneRunningPerConversation
  <2>7. runStatus'[q] = "running" => \A n \in Ordinals(target[q])' : n <= userOrdinal'[q]
    BY <2>1, <2>3, <2>4, <2>5, <2>6, <1>a DEF NextShape, TxShape, RowShape
  <2>8. QED
    BY <1>a, <2>1, <2>2, <2>3, <2>4, <2>5, <2>7 DEF NextShape, TxShape, RowShape
<1>20. ASSUME NEW r \in Requests, CommitMark(r) PROVE NextShape(q)'
  <2>1. UNCHANGED <<target, ordinal>> /\ \A phase \in Phases :
          tx[q][phase]' = "committing" => tx[q][phase] = "committing" /\ q # r
    BY <1>20, <1>a DEF CommitMark, TypeOK, TxShape
  <2>2. \A phase \in Phases : tx[q][phase]' = "committing" => target[q] # target[r]
    BY <1>20, <2>1 DEF CommitMark, IInv, TxShape
  <2>3. \A c \in Conversations : c # target[r] => Ordinals(c)' = Ordinals(c)
    BY <1>20 DEF CommitMark, RunsOf, Ordinals
  <2>4. target[r] \in Conversations /\ target[q] \in Conversations \union {NoConversation}
    BY <1>20 DEF CommitMark, IInv, TypeOK, TxShape
  <2>5. /\ runStatus'[q] = "running" => q # r /\ runStatus[q] = "running"
        /\ q # r => userOrdinal'[q] = userOrdinal[q]
    BY <1>20, <1>a DEF CommitMark, IInv, TypeOK, TxShape, RowShape
  <2>6. runStatus'[q] = "running" => target[q] # target[r]
    BY <1>20, <2>5, <1>a DEF CommitMark, IInv, RowShape, TxShape, OneRunningPerConversation
  <2>7. runStatus'[q] = "running" => \A n \in Ordinals(target[q])' : n <= userOrdinal'[q]
    BY <2>1, <2>3, <2>4, <2>5, <2>6, <1>a DEF NextShape, TxShape, RowShape
  <2>8. QED
    BY <1>a, <2>1, <2>2, <2>3, <2>4, <2>5, <2>7 DEF NextShape, TxShape, RowShape
<1>21. ASSUME NEW r \in Requests, Cancel(r) PROVE NextShape(q)'
  <2>1. UNCHANGED <<rows, target, ordinal>> /\ \A phase \in {"begin", "complete"} :
          tx[q][phase]' = "committing" => tx[q][phase] = "committing"
    BY <1>21, <1>a DEF Cancel, TypeOK, Abandon
  <2>2. QED
    BY <1>a, <1>b, <2>1 DEF NextShape, TxShape, RowShape
<1>22. ASSUME NEW r \in Requests, DatabaseError(r) PROVE NextShape(q)'
  <2>1. UNCHANGED <<rows, target, ordinal>> /\ \A phase \in {"begin", "complete"} :
          tx[q][phase]' = "committing" => tx[q][phase] = "committing"
    BY <1>22, <1>a DEF DatabaseError, TypeOK, Abandon
  <2>2. QED
    BY <1>a, <1>b, <2>1 DEF NextShape, TxShape, RowShape
<1>23. ASSUME NEW r \in Requests, NEW phase \in Phases, CommitLost(r, phase) PROVE NextShape(q)'
  <2>1. UNCHANGED <<rows, target, ordinal>> /\ \A p \in {"begin", "complete"} :
          tx[q][p]' = "committing" => tx[q][p] = "committing"
    BY <1>23, <1>a DEF CommitLost, TypeOK
  <2>2. QED
    BY <1>a, <1>b, <2>1 DEF NextShape, TxShape, RowShape
<1>24. CASE Crash
  <2>1. UNCHANGED <<rows, target, ordinal>> /\ \A phase \in {"begin", "complete"} :
          tx[q][phase]' = "committing" => tx[q][phase] = "committing"
    BY <1>24, <1>a DEF Crash, TypeOK
  <2>2. QED
    BY <1>a, <1>b, <2>1 DEF NextShape, TxShape, RowShape
<1>25. CASE UNCHANGED vars
  BY <1>25, <1>a, <1>b DEF vars, NextShape, TxShape
<1>26. QED
  BY <1>1, <1>2, <1>3, <1>4, <1>5, <1>6, <1>7, <1>8, <1>9
     , <1>10, <1>11, <1>12, <1>13, <1>14, <1>15, <1>16, <1>17, <1>18
     , <1>19, <1>20, <1>21, <1>22, <1>23, <1>24, <1>25
  DEF Next, Begin, Inner, Complete, Mark, Commit, Quiet

\* Every commit is a step of the log; every other step leaves the log alone.
LEMMA LogStep == IInv /\ NextInv /\ [Next]_vars => [Log!LogNext]_(Log!logVars)
<1> SUFFICES ASSUME IInv, NextInv, [Next]_vars PROVE [Log!LogNext]_(Log!logVars)
  OBVIOUS
<1> USE DEF Log!logVars
<1>1. CASE UNCHANGED rows
  BY <1>1
<1>2. ASSUME NEW r \in Requests, CommitBegin(r) PROVE Log!LogNext
  <2>1. /\ target[r] \in Conversations /\ runStatus[r] = "absent" /\ ~Busy(target[r])
        /\ \A n \in Ordinals(target[r]) : n < ordinal[r]
        /\ ordinal[r] - 1 \in Ordinals(target[r]) \union {0}
        /\ ordinal[r] \in Nat /\ Ordinals(target[r]) \subseteq Nat
    <3>1. TypeOK /\ TxShape(r) /\ ReadShape(r) /\ RowShape(r) /\ NextShape(r)
      BY DEF IInv, NextInv
    <3>2. tx[r]["begin"] = "committing"
      BY <1>2 DEF CommitBegin
    <3>3. ordinal[r] \in Nat /\ Ordinals(target[r]) \subseteq Nat
      BY <3>1 DEF TypeOK, Ordinals, RunsOf
    <3>4. target[r] \in Conversations /\ runStatus[r] = "absent"
      BY <3>1, <3>2 DEF TxShape, RowShape
    <3>5. QED
      BY <3>1, <3>2, <3>3, <3>4 DEF ReadShape, NextShape
  <2>2. Log!Positions(target[r]) = Ordinals(target[r])
    BY DEF Log!Positions, Log!Turns, Ordinals, RunsOf
  <2>3. \E last \in Log!Positions(target[r]) \union {0} :
          /\ \A n \in Log!Positions(target[r]) : n <= last
          /\ userOrdinal' = [userOrdinal EXCEPT ![r] = last + 1]
    <3>1. \A n \in Ordinals(target[r]) : n <= ordinal[r] - 1
      BY <2>1
    <3>2. (ordinal[r] - 1) + 1 = ordinal[r]
      BY <2>1
    <3>3. userOrdinal' = [userOrdinal EXCEPT ![r] = (ordinal[r] - 1) + 1]
      BY <1>2, <3>2 DEF CommitBegin
    <3>4. QED
      BY <2>1, <2>2, <3>1, <3>3
  <2>4. Log!Open(r, target[r])
    BY <1>2, <2>1, <2>3 DEF Log!Open, Log!Turns, CommitBegin, Busy, RunsOf
  <2>5. QED
    BY <2>1, <2>4 DEF Log!LogNext
<1>3. ASSUME NEW r \in Requests, CommitComplete(r) PROVE Log!LogNext
  <2>1. /\ runStatus[r] = "running" /\ outcome[r] \in Outcomes
        /\ ordinal[r] = userOrdinal[r] + 1
    BY <1>3 DEF CommitComplete, IInv, NextInv, NextShape, TxShape
  <2>2. assistantOrdinal' = IF outcome[r] \in Answered
          THEN [assistantOrdinal EXCEPT ![r] = userOrdinal[r] + 1] ELSE assistantOrdinal
    BY <1>3, <2>1 DEF CommitComplete, IInv, TypeOK
  <2>3. Log!Settle(r, outcome[r])
    BY <1>3, <2>1, <2>2 DEF Log!Settle, Log!Answering, CommitComplete
  <2>4. QED
    BY <2>1, <2>3 DEF Log!LogNext, Log!Endings, Log!Answering
<1>4. ASSUME NEW r \in Requests, CommitMark(r) PROVE Log!LogNext
  <2>1. runStatus[r] = "running" /\ verdict[r] \in Verdicts
    BY <1>4 DEF CommitMark, IInv, TxShape
  <2>2. Log!Settle(r, verdict[r])
    BY <1>4, <2>1 DEF Log!Settle, Log!Answering, CommitMark
  <2>3. QED
    BY <2>1, <2>2 DEF Log!LogNext, Log!Endings, Log!Answering
<1>5. QED
  BY <1>1, <1>2, <1>3, <1>4, CommitsOnly

\* The committed rows behave as an append-only log of turns: turns never
\* overlap, an answer directly follows its question and an ending is final.
THEOREM RunsImplementTurnLog == Spec => ImplementsTurnLog
<1>1. Init => Log!LogInit /\ NextInv
  <2>1. Init => Log!LogInit
    BY DEF Init, Log!LogInit
  <2>2. Init => NextInv
    <3> SUFFICES ASSUME Init, NEW r \in Requests PROVE NextShape(r)
      BY DEF NextInv
    <3>1. runStatus[r] = "absent" /\ tx[r] = [phase \in Phases |-> "none"]
      BY DEF Init
    <3>2. QED
      BY <3>1 DEF NextShape
  <2>3. QED
    BY <2>1, <2>2
<1>2. IInv /\ NextInv /\ [Next]_vars => NextInv'
  BY NextInvStep
<1>3. IInv /\ NextInv /\ [Next]_vars => [Log!LogNext]_(Log!logVars)
  BY LogStep
<1>4. QED
  BY <1>1, <1>2, <1>3, Invariant, PTL DEF Spec, ImplementsTurnLog, Log!LogSpec
=============================================================================
