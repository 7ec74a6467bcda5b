------------------------- MODULE ConversationMemory -------------------------
(***************************************************************************)
(* Memory of one conversation: MemoryAwareStreamingRagPipeline and         *)
(* ConversationSummaryService (application/conversation_memory.py) over    *)
(* SQLAlchemyConversationMemoryRepository.                                 *)
(*                                                                         *)
(* Turns open and settle as TurnLog says (RagRuns shows they do): never    *)
(* two at a time.  The summary of a turn, however, is refreshed after the  *)
(* turn has settled and before its done is forwarded, so it overlaps with  *)
(* the turns that follow, their memory loads and their own refreshes.      *)
(* Reads are separate READ COMMITTED statements; save_summary is one       *)
(* transaction under the conversation row lock and is one step.            *)
(***************************************************************************)
EXTENDS Naturals, Sequences, FiniteSets

CONSTANTS Requests,       \* requests on this conversation, one turn each
          RecentTurns,    \* memory_recent_turns: the window, and what a summary leaves out
          TriggerTurns,   \* memory_summary_trigger_turns
          MaxFailures     \* refreshes that fail or are cancelled

ASSUME MemoryAssumption ==
  /\ RecentTurns \in Nat \ {0}
  /\ TriggerTurns \in Nat
  /\ TriggerTurns > RecentTurns
  /\ MaxFailures \in Nat

VARIABLES
  messages,    \* the messages of the conversation; the index is the ordinal
  status,      \* status[r]: "absent", "running", "answered" or "unanswered"
  summary,     \* the conversation_summaries row
  pc,          \* the await each request is suspended at
  base,        \* base[r]: the summary row a load or a refresh has read
  window,      \* window[r]: the ordinals of the messages load_memory returned
  selected,    \* selected[r]: the ordinals prepare_summary selected
  failures     \* refreshes that failed so far

vars == <<messages, status, summary, pc, base, window, selected, failures>>

\* boundary is summarized_through_ordinal, 0 while there is no row; covered
\* stands for the content: the ordinals of the messages merged into it.
NoSummary == [boundary |-> 0, count |-> 0, covered |-> {}]

Ordinals == 1..Len(messages)

\* Messages of runs that are completed or clarification.
CompletedMessages == {n \in Ordinals : status[messages[n].turn] = "answered"}

\* The k largest ordinals of S.
Latest(S, k) == {n \in S : Cardinality({m \in S : m > n}) < k}

Running == \E q \in Requests : status[q] = "running"

Init ==
  /\ messages = <<>>
  /\ status = [r \in Requests |-> "absent"]
  /\ summary = NoSummary
  /\ pc = [r \in Requests |-> "idle"]
  /\ base = [r \in Requests |-> NoSummary]
  /\ window = [r \in Requests |-> {}]
  /\ selected = [r \in Requests |-> {}]
  /\ failures = 0

Goto(r, from, to) == pc[r] = from /\ pc' = [pc EXCEPT ![r] = to]

\* The coroutine is over, and its local variables with it.  A refresh that saved
\* nothing although it was due is told apart as dropped.
End(r, how) ==
  /\ pc' = [pc EXCEPT ![r] = how]
  /\ base' = [base EXCEPT ![r] = NoSummary]
  /\ window' = [window EXCEPT ![r] = {}]
  /\ selected' = [selected EXCEPT ![r] = {}]

Finish(r) == End(r, "finished")

-----------------------------------------------------------------------------
(* The turn                                                                *)

\* begin_run is refused as busy while a turn is running.
Begin(r) ==
  /\ Goto(r, "idle", "load_summary")
  /\ ~Running
  /\ messages' = Append(messages, [turn |-> r, role |-> "user"])
  /\ status' = [status EXCEPT ![r] = "running"]
  /\ UNCHANGED <<summary, base, window, selected, failures>>

LoadSummary(r) ==
  /\ Goto(r, "load_summary", "load_window")
  /\ base' = [base EXCEPT ![r] = summary]
  /\ UNCHANGED <<messages, status, summary, window, selected, failures>>

LoadWindow(r) ==
  /\ Goto(r, "load_window", "answering")
  /\ window' = [window EXCEPT ![r] = Latest(CompletedMessages, 2 * RecentTurns)]
  /\ UNCHANGED <<messages, status, summary, base, selected, failures>>

\* complete_run with an answer; what was loaded is not used again, the refresh follows.
Answer(r) ==
  /\ Goto(r, "answering", "prepare_summary")
  /\ messages' = Append(messages, [turn |-> r, role |-> "assistant"])
  /\ status' = [status EXCEPT ![r] = "answered"]
  /\ base' = [base EXCEPT ![r] = NoSummary]
  /\ window' = [window EXCEPT ![r] = {}]
  /\ UNCHANGED <<summary, selected, failures>>

\* no_context, a failure (of the loads too) or a cancellation: no answer, no refresh.
EndUnanswered(r) ==
  /\ pc[r] \in {"load_summary", "load_window", "answering"}
  /\ Finish(r)
  /\ status' = [status EXCEPT ![r] = "unanswered"]
  /\ UNCHANGED <<messages, summary, failures>>

-----------------------------------------------------------------------------
(* The refresh                                                             *)

PrepareSummary(r) ==
  /\ Goto(r, "prepare_summary", "prepare_messages")
  /\ base' = [base EXCEPT ![r] = summary]
  /\ UNCHANGED <<messages, status, summary, window, selected, failures>>

Unsummarized(r) == {n \in CompletedMessages : n > base[r].boundary}

Due(r) ==
  /\ (base[r].count + Cardinality(Unsummarized(r))) \div 2 > TriggerTurns
  /\ Cardinality(Unsummarized(r)) > 2 * RecentTurns

\* Mutant: the recent window is retained as messages, not as turns.
SelectOldWithShortRetention(r) == Unsummarized(r) \ Latest(Unsummarized(r), RecentTurns)

\* records[:-retained_message_count]
SelectOld(r) == Unsummarized(r) \ Latest(Unsummarized(r), 2 * RecentTurns)

PrepareMessages(r) ==
  /\ Goto(r, "prepare_messages", "summarizing")
  /\ Due(r)
  /\ selected' = [selected EXCEPT ![r] = SelectOld(r)]
  /\ UNCHANGED <<messages, status, summary, base, window, failures>>

NothingToSummarize(r) ==
  /\ pc[r] = "prepare_messages"
  /\ ~Due(r)
  /\ Finish(r)
  /\ UNCHANGED <<messages, status, summary, failures>>

\* The fast model answers in time.
Summarize(r) ==
  /\ Goto(r, "summarizing", "save_summary")
  /\ UNCHANGED <<messages, status, summary, base, window, selected, failures>>

\* Mutant: source_message_count forgets what the old summary covered.
MergedWithoutPriorCount(r) ==
  [boundary |-> CHOOSE n \in selected[r] : \A m \in selected[r] : m <= n,
   count |-> Cardinality(selected[r]),
   covered |-> base[r].covered \union selected[r]]

\* The candidate: the old content merged with the selected messages.
Merged(r) ==
  [boundary |-> CHOOSE n \in selected[r] : \A m \in selected[r] : m <= n,
   count |-> base[r].count + Cardinality(selected[r]),
   covered |-> base[r].covered \union selected[r]]

\* Mutant: save_summary writes whatever it was given.
SaveSummaryUnchecked(r) ==
  /\ pc[r] = "save_summary"
  /\ summary' = Merged(r)
  /\ Finish(r)
  /\ UNCHANGED <<messages, status, failures>>

SaveSummary(r) ==
  /\ pc[r] = "save_summary"
  /\ summary.boundary = base[r].boundary
  /\ summary' = Merged(r)
  /\ Finish(r)
  /\ UNCHANGED <<messages, status, failures>>

\* Another refresh moved the boundary: save_summary returns False.
LoseSummary(r) ==
  /\ pc[r] = "save_summary"
  /\ summary.boundary # base[r].boundary
  /\ End(r, "dropped")
  /\ UNCHANGED <<messages, status, summary, failures>>

\* A database or model error, a timeout (swallowed) or a cancellation ends
\* the refresh and leaves the answer and the old summary as they are.
RefreshFails(r) ==
  /\ pc[r] \in {"prepare_summary", "prepare_messages", "summarizing", "save_summary"}
  /\ failures < MaxFailures
  /\ failures' = failures + 1
  /\ End(r, "dropped")
  /\ UNCHANGED <<messages, status, summary>>

-----------------------------------------------------------------------------

Turn(r) == Begin(r) \/ LoadSummary(r) \/ LoadWindow(r) \/ Answer(r) \/ EndUnanswered(r)

Refresh(r) ==
  \/ PrepareSummary(r) \/ PrepareMessages(r) \/ NothingToSummarize(r)
  \/ Summarize(r) \/ SaveSummary(r) \/ LoseSummary(r) \/ RefreshFails(r)

Quiet == (\A r \in Requests : pc[r] \in {"finished", "dropped"}) /\ UNCHANGED vars

Next == (\E r \in Requests : Turn(r) \/ Refresh(r)) \/ Quiet

Spec == Init /\ [][Next]_vars

-----------------------------------------------------------------------------
(* Properties                                                              *)

\* The summary row accounts for every completed message up to its boundary,
\* once: no refresh, however late, loses a turn or merges one twice.
SummaryIsExact ==
  /\ summary.covered = {n \in CompletedMessages : n <= summary.boundary}
  /\ summary.count = Cardinality(summary.covered)

\* A late refresh never takes the boundary back, and never rewrites the row
\* without moving it.
BoundaryAdvances == [][summary'.boundary > summary.boundary]_summary

\* The turn of q refreshes the summary, or its refresh was dropped, and the
\* summary with boundary n does not reach it.
IsMissingAfter(q, n) ==
  /\ pc[q] \in {"prepare_summary", "prepare_messages", "summarizing", "save_summary", "dropped"}
  /\ \E m \in Ordinals : m > n /\ messages[m].turn = q

\* What a turn is given to remember, when load_memory returns: recent turns are
\* whole and never the question being asked; no message comes both as part of the
\* summary and verbatim; and once a conversation is summarised a turn is in
\* neither (ADR-0007 keeps the two windows equal to avoid that) only because the
\* refresh of a turn after the boundary is late or was dropped, or because the
\* summary moved between the two reads of the load.
ContextIsAccountedFor ==
  [][\A r \in Requests : pc[r] = "load_window" /\ pc'[r] = "answering" =>
       LET recent == window'[r]
           gap == CompletedMessages \ (base[r].covered \union recent)
       IN /\ \A n \in recent :
               /\ messages[n].turn # r
               /\ \A m \in Ordinals : messages[m].turn = messages[n].turn => m \in recent
          /\ base[r].covered \intersect recent = {}
          /\ base[r].boundary > 0 /\ gap # {} =>
               \/ summary.boundary # base[r].boundary
               \/ \E q \in Requests : IsMissingAfter(q, base[r].boundary)]_vars
=============================================================================
