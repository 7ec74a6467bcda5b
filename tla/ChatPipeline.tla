---------------------------- MODULE ChatPipeline ----------------------------
(***************************************************************************)
(* One request through the stack of asynchronous generators that answers   *)
(* it: _stream_sse (api/routes/chat.py) over Summarizing, Persistent,      *)
(* MemoryAware (application/conversation_memory.py, persistent_rag.py) and *)
(* Basic (basic_rag.py).                                                   *)
(*                                                                         *)
(* A generator runs when its consumer asks for the next event, so the      *)
(* stack is one thread of control: at is the await or the yield it is      *)
(* suspended at, or the code it runs next.  What a layer does with an      *)
(* event on its way up (commit before done, refresh before done, encode)   *)
(* is part of the way from one send to the next.  RagRuns has the          *)
(* transactions behind the repository calls; here a call takes effect or   *)
(* not.  A cancelled coroutine whose COMMIT was sent may find either.      *)
(*                                                                         *)
(* The deadline is asyncio.wait_for of Python 3.11: on a timeout or a      *)
(* cancellation it cancels the call and waits for it to stop, unless a     *)
(* further cancellation arrives.  Only retrieval takes long to stop (a     *)
(* native embedding thread); the other calls stop at once here.            *)
(***************************************************************************)
EXTENDS Naturals, FiniteSets, Sequences, SequencesExt

CONSTANTS Routes,       \* what the classifier may decide, see AllRoutes
          Questions,    \* sub-questions the rewriter may return
          MaxChunks,    \* content events of one answer
          MaxCancels,   \* cancellations, the client's disconnection included
          MaxFaults     \* failing repository calls

\* "scoped" is the knowledge base route of an intent that is bound to slugs.
AllRoutes == {"knowledge_base", "scoped", "system_direct", "clarification"}

ASSUME PipelineAssumption ==
  /\ Routes \subseteq AllRoutes
  /\ Questions # {}
  /\ {MaxChunks, MaxCancels, MaxFaults} \subseteq Nat

VARIABLES
  at,          \* where the stack is suspended, or the code it runs next
  resume,      \* where it goes on once the frame it sends is taken
  wire,        \* the event frames sent to the client
  clock,       \* "unset", "running" or "passed": the global deadline
  route,       \* the intent decision
  search,      \* search[q]: the retrieval task of a sub-question
  unwinding,   \* how the stack is being left
  model,       \* the final model's stream: "none", "open", "orphaned", "closed"
  finish,      \* the finish reason it reported
  outcome,     \* the outcome of the done event on its way up
  run,         \* the status of the RAG run row
  cancels,     \* cancellations so far
  faults       \* failed repository calls so far

counters == <<cancels, faults>>
answer == <<finish, outcome>>
vars == <<at, resume, wire, clock, route, search, unwinding, model, answer, run, counters>>

\* Calls made under wait_for with what is left of the deadline.
Bounded == {"rewriting", "intent", "retrieving", "reranking", "generating"}
Stages == Bounded \union {"resolving", "draining"}
RepositoryCalls == {"begin_run", "load_memory", "completing", "failing", "cancelling"}
Awaits == Stages \union RepositoryCalls \union {"refreshing"}
\* Code between two yields that runs without an await.
Steps == {"guidance", "clarified", "fusing", "no_context", "prompting", "sourced", "answered",
          "error_done"}

DoneEvent(result) ==
  CASE result = "completed" -> "done_completed"
    [] result = "no_context" -> "done_no_context"
    [] result = "clarification" -> "done_clarification"
    [] result = "error" -> "done_error"

Init ==
  /\ at = "begin_run"
  /\ resume = "ended"
  /\ wire = <<>>
  /\ clock = "unset"
  /\ route = "none"
  /\ search = [q \in Questions |-> "idle"]
  /\ unwinding = "none"
  /\ model = "none"
  /\ finish = "none"
  /\ outcome = "none"
  /\ run = "none"
  /\ cancels = 0
  /\ faults = 0

-----------------------------------------------------------------------------
(* Sending and leaving                                                     *)

\* Yield event to the client; the stack goes on at next.
Send(event, next) ==
  /\ at' = "sending"
  /\ wire' = Append(wire, event)
  /\ resume' = next

SendError == Send("error", "error_done")

\* Mutant: the model stream is only read, never closed.
LeaveModelOpen == UNCHANGED model

\* finally: await chat_stream.aclose()
CloseModel == model' = IF model = "open" THEN "closed" ELSE model

\* An exception leaves Basic or MemoryAware: the model is closed on the way
\* to Persistent, which records the failure.
Raise ==
  /\ at' = "failing"
  /\ CloseModel

\* Basic reaches the call of a stage, or finds no time left for it.
Enter(stage) ==
  \/ /\ stage \in Bounded /\ clock = "passed"
     /\ Raise
     /\ UNCHANGED search
  \/ /\ ~(stage \in Bounded /\ clock = "passed")
     /\ at' = stage
     /\ model' = IF stage = "generating" /\ model = "none" THEN "open" ELSE model
     /\ IF stage = "retrieving"
        THEN \E asked \in SUBSET Questions \ {{}} :
               search' = [q \in Questions |-> IF q \in asked THEN "running" ELSE "idle"]
        ELSE UNCHANGED search

\* The client took the frame.
Resume ==
  /\ at = "sending"
  /\ Enter(resume)
  /\ UNCHANGED <<resume, wire, clock, route, unwinding, answer, run, counters>>

\* Time passes.
DeadlinePasses ==
  /\ clock = "running"
  /\ clock' = "passed"
  /\ UNCHANGED <<at, resume, wire, route, search, unwinding, model, answer, run, counters>>

-----------------------------------------------------------------------------
(* Persistent and MemoryAware before Basic                                 *)

BeginReturns ==
  /\ at = "begin_run"
  /\ run' = "running"
  /\ Send("reply_to", "load_memory")
  /\ UNCHANGED <<clock, route, search, unwinding, model, answer, counters>>

\* Basic starts: the deadline is fixed and the first status goes out.
MemoryLoaded ==
  /\ at = "load_memory"
  /\ clock' = "running"
  /\ Send("rewriting", "rewriting")
  /\ UNCHANGED <<route, search, unwinding, model, answer, run, counters>>

-----------------------------------------------------------------------------
(* The stages of Basic                                                     *)

pipeline == <<clock, search, unwinding, answer, run, counters>>

\* Degraded or not, the rewriter returns.
Rewritten ==
  /\ at = "rewriting"
  /\ Send("intent", "intent")
  /\ UNCHANGED <<route, model, pipeline>>

Classified(decision) ==
  /\ at = "intent"
  /\ route' = decision
  /\ \/ decision = "clarification" /\ Send("clarification", "guidance")
     \/ decision = "system_direct" /\ Send("generating", "generating")
     \/ decision = "knowledge_base" /\ Send("retrieving", "retrieving")
     \/ decision = "scoped" /\ Send("retrieving", "resolving")
  /\ UNCHANGED <<model, pipeline>>

Guide ==
  /\ at = "guidance"
  /\ Send("guidance", "clarified")
  /\ UNCHANGED <<route, model, pipeline>>

\* The slugs of the intent are resolved: a query outside wait_for.
Resolved ==
  /\ at = "resolving"
  /\ Enter("retrieving")
  /\ UNCHANGED <<resume, wire, clock, route, unwinding, answer, run, counters>>

SearchAnswers(q) ==
  /\ search[q] = "running"
  /\ search' = [search EXCEPT ![q] = "done"]
  /\ UNCHANGED <<at, resume, wire, clock, route, unwinding, model, answer, run, counters>>

Retrieved ==
  /\ at = "retrieving"
  /\ \A q \in Questions : search[q] # "running"
  /\ Send("fusing", "fusing")
  /\ UNCHANGED <<route, model, pipeline>>

\* fuse(): with no candidate left there is nothing to answer from.
Fused ==
  /\ at = "fusing"
  /\ Send("no_context", "no_context") \/ Send("reranking", "reranking")
  /\ UNCHANGED <<route, model, pipeline>>

Reranked ==
  /\ at = "reranking"
  /\ Send("prompting", "prompting")
  /\ UNCHANGED <<route, model, pipeline>>

Prompted ==
  /\ at = "prompting"
  /\ Send("generating", "generating")
  /\ UNCHANGED <<route, model, pipeline>>

Emitted == Cardinality({i \in DOMAIN wire : wire[i] = "content"})

\* A chunk of the model: a delta, a finish reason, or both.
Chunk(delta, reason) ==
  /\ at = "generating"
  /\ delta \/ reason # "none"
  /\ delta => finish = "none" /\ Emitted < MaxChunks
  /\ reason # "none" => finish \in {"none", reason}
  /\ finish' = IF reason = "none" THEN finish ELSE reason
  /\ IF delta THEN Send("content", "generating") ELSE UNCHANGED <<at, wire, resume>>
  /\ UNCHANGED <<clock, route, search, unwinding, model, outcome, run, counters>>

\* A delta after the finish reason, or a second finish reason.
ChunkOutOfProtocol ==
  /\ at = "generating"
  /\ finish # "none"
  /\ Raise
  /\ UNCHANGED <<resume, wire, route, pipeline>>

\* Mutant: the completed status overtakes the sources.
ModelEndsBeforeSources ==
  /\ at = "generating"
  /\ Emitted > 0 /\ finish # "none"
  /\ CloseModel
  /\ Send("completed", IF route = "system_direct" THEN "answered" ELSE "sourced")
  /\ UNCHANGED <<route, pipeline>>

ModelEnds ==
  /\ at = "generating"
  /\ Emitted > 0 /\ finish # "none"
  /\ CloseModel
  /\ IF route = "system_direct" THEN Send("completed", "answered") ELSE Send("sources", "sourced")
  /\ UNCHANGED <<route, pipeline>>

ModelEndsIncomplete ==
  /\ at = "generating"
  /\ Emitted = 0 \/ finish = "none"
  /\ Raise
  /\ UNCHANGED <<resume, wire, route, pipeline>>

Sourced ==
  /\ at = "sourced"
  /\ Send("completed", "answered")
  /\ UNCHANGED <<route, model, pipeline>>

\* Basic yields done: Persistent completes the run first.
BasicDone ==
  /\ \/ at = "clarified" /\ outcome' = "clarification"
     \/ at = "no_context" /\ outcome' = "no_context"
     \/ at = "answered" /\ outcome' = "completed"
  /\ at' = "completing"
  /\ UNCHANGED <<resume, wire, clock, route, search, unwinding, model, finish, run, counters>>

\* A call, fuse() or the prompt builder raises.
StageRaises ==
  /\ at \in (Stages \ {"retrieving", "draining"}) \union {"fusing", "prompting"}
  /\ Raise
  /\ UNCHANGED <<resume, wire, route, pipeline>>

-----------------------------------------------------------------------------
(* _retrieve_all: one failing search, a timeout or a cancellation stops all *)

StopSearches(failed) ==
  search' = [q \in Questions |->
    IF q \in failed THEN "done" ELSE IF search[q] = "running" THEN "stopping" ELSE search[q]]

Drain(why) ==
  /\ at' = "draining"
  /\ unwinding' = why

\* Mutant: gather() alone, without cancelling and collecting the others.
SearchFailsAlone(q) ==
  /\ at = "retrieving"
  /\ search[q] = "running"
  /\ search' = [search EXCEPT ![q] = "done"]
  /\ Raise
  /\ UNCHANGED <<resume, wire, clock, route, unwinding, answer, run, counters>>

SearchFails(q) ==
  /\ at = "retrieving"
  /\ search[q] = "running"
  /\ StopSearches({q})
  /\ Drain("error")
  /\ UNCHANGED <<resume, wire, clock, route, model, answer, run, counters>>

\* A cancelled search ends: at once, or when its native thread returns.
SearchStops(q) ==
  /\ search[q] = "stopping"
  /\ search' = [search EXCEPT ![q] = "done"]
  /\ UNCHANGED <<at, resume, wire, clock, route, unwinding, model, answer, run, counters>>

Drained ==
  /\ at = "draining"
  /\ \A q \in Questions : search[q] # "stopping"
  /\ at' = IF unwinding = "cancel" THEN "cancelling" ELSE "failing"
  /\ UNCHANGED <<resume, wire, route, model, pipeline>>

-----------------------------------------------------------------------------
(* The deadline                                                            *)

\* Mutant: the reranker is awaited without the deadline.
TimesOutExceptReranking ==
  /\ clock = "passed"
  /\ at \in Bounded \ {"retrieving", "reranking"}
  /\ Raise
  /\ UNCHANGED <<resume, wire, route, pipeline>>

TimesOut ==
  /\ clock = "passed"
  /\ at \in Bounded \ {"retrieving"}
  /\ Raise
  /\ UNCHANGED <<resume, wire, route, pipeline>>

RetrievalTimesOut ==
  /\ clock = "passed"
  /\ at = "retrieving" \/ (at = "draining" /\ unwinding = "error")
  /\ StopSearches({})
  /\ Drain("timeout")
  /\ UNCHANGED <<resume, wire, clock, route, model, answer, run, counters>>

-----------------------------------------------------------------------------
(* Persistent, Summarizing and the route after Basic                       *)

\* complete_run committed; a complete turn refreshes the summary before done.
Completed ==
  /\ at = "completing"
  /\ run' = outcome
  /\ IF outcome = "no_context"
     THEN Send(DoneEvent(outcome), "ended")
     ELSE at' = "refreshing" /\ UNCHANGED <<wire, resume>>
  /\ UNCHANGED <<clock, route, search, unwinding, model, answer, counters>>

\* Mutant: a failing summary model fails the request.
RefreshEndsOrRaises ==
  /\ at = "refreshing"
  /\ Send(DoneEvent(outcome), "ended") \/ SendError
  /\ UNCHANGED <<route, model, pipeline>>

\* The summary is refreshed, or its failure logged.
RefreshEnds ==
  /\ at = "refreshing"
  /\ Send(DoneEvent(outcome), "ended")
  /\ UNCHANGED <<route, model, pipeline>>

\* fail_run, or the conflict with a completion that was committed after all.
FailReturns ==
  /\ at = "failing"
  /\ run' = IF run = "running" THEN "failed" ELSE run
  /\ SendError
  /\ UNCHANGED <<clock, route, search, unwinding, model, answer, counters>>

SendErrorDone ==
  /\ at = "error_done"
  /\ Send(DoneEvent("error"), "ended")
  /\ UNCHANGED <<route, model, pipeline>>

\* aclose() of the inner stream, after cancel_run when the generators are
\* closed at a yield.  The generator of a direct answer is not closed with
\* Basic's frame that iterates it: it is left to the event loop's finalizer.
CloseInner ==
  /\ at' = "ended"
  /\ model' = IF model # "open" THEN model
              ELSE IF route = "system_direct" THEN "orphaned" ELSE "closed"

\* cancel_run; its conflict with a completed run replaces the cancellation,
\* or is logged by the route that closes the stream.
CancelReturns ==
  /\ at = "cancelling"
  /\ run' = IF run = "running" THEN "cancelled" ELSE run
  /\ IF run = "running" \/ unwinding = "close"
     THEN CloseInner /\ UNCHANGED <<wire, resume>>
     ELSE SendError /\ UNCHANGED model
  /\ UNCHANGED <<clock, route, search, unwinding, answer, counters>>

FinalizerCloses ==
  /\ model = "orphaned"
  /\ model' = "closed"
  /\ UNCHANGED <<at, resume, wire, route, pipeline>>

-----------------------------------------------------------------------------
(* Failing repository calls and cancellations                              *)

\* The status an interrupted repository call may leave behind.
Effect ==
  CASE at = "begin_run" -> {"none", "running"}
    [] at = "completing" -> {run, outcome}
    [] at = "failing" -> {run, IF run = "running" THEN "failed" ELSE run}
    [] at = "cancelling" -> {run, IF run = "running" THEN "cancelled" ELSE run}
    [] OTHER -> {run}

RepositoryFails ==
  /\ at \in RepositoryCalls
  /\ faults < MaxFaults
  /\ faults' = faults + 1
  /\ run' \in Effect
  /\ \/ at \in {"load_memory", "completing"} /\ Raise /\ UNCHANGED <<wire, resume>>
     \/ at \in {"begin_run", "failing"} /\ SendError /\ UNCHANGED model
     \/ at = "cancelling" /\ unwinding = "close" /\ CloseInner /\ UNCHANGED <<wire, resume>>
     \/ at = "cancelling" /\ unwinding # "close" /\ SendError /\ UNCHANGED model
  /\ UNCHANGED <<clock, route, search, unwinding, answer, cancels>>

CountCancel == cancels < MaxCancels /\ cancels' = cancels + 1

\* The task is cancelled at an await.
Cancel ==
  /\ at \in Awaits \ {"retrieving", "draining"}
  /\ CountCancel
  /\ run' \in Effect
  /\ IF at \in {"begin_run", "failing", "cancelling", "refreshing"}
     THEN CloseInner /\ UNCHANGED unwinding
     ELSE at' = "cancelling" /\ CloseModel /\ unwinding' = "cancel"
  /\ UNCHANGED <<resume, wire, clock, route, search, answer, faults>>

\* wait_for passes a first cancellation on and waits; one that finds it
\* waiting for a stopped call to end leaves the call behind.
CancelRetrieval ==
  /\ CountCancel
  /\ \/ at = "retrieving" /\ StopSearches({}) /\ Drain("cancel")
     \/ at = "draining" /\ unwinding = "error" /\ Drain("cancel") /\ UNCHANGED search
     \/ at = "draining" /\ unwinding # "error"
        /\ at' = "cancelling" /\ unwinding' = "cancel" /\ UNCHANGED search
  /\ UNCHANGED <<resume, wire, clock, route, model, answer, run, faults>>

\* The generator is closed at a yield: the response was abandoned there.
Close ==
  /\ at = "sending"
  /\ CountCancel
  /\ IF resume \in {"ended", "error_done"}
     THEN at' = "ended" /\ UNCHANGED unwinding
     ELSE at' = "cancelling" /\ unwinding' = "close"
  /\ UNCHANGED <<resume, wire, clock, route, search, model, answer, run, faults>>

-----------------------------------------------------------------------------

StepsOfBasic == Guide \/ Retrieved \/ Fused \/ Prompted \/ Sourced \/ BasicDone

\* What the services the stages call may do, or not do.
Answers ==
  \/ Rewritten \/ \E decision \in Routes : Classified(decision)
  \/ Resolved \/ \E q \in Questions : SearchAnswers(q) \/ SearchFails(q)
  \/ Reranked
  \/ \E delta \in BOOLEAN, reason \in {"none", "stop", "length"} : Chunk(delta, reason)
  \/ ChunkOutOfProtocol \/ ModelEnds \/ ModelEndsIncomplete
  \/ StageRaises

\* What the stack does on its own, or when the repository answers.
Proceeds ==
  \/ Resume \/ StepsOfBasic \/ SendErrorDone \/ Drained
  \/ BeginReturns \/ MemoryLoaded \/ Completed \/ RefreshEnds \/ FailReturns \/ CancelReturns

Deadline == TimesOut \/ RetrievalTimesOut

Interrupted == Cancel \/ CancelRetrieval \/ Close \/ RepositoryFails

Quiet ==
  /\ at = "ended"
  /\ model # "orphaned"
  /\ \A q \in Questions : search[q] \notin {"running", "stopping"}
  /\ UNCHANGED vars

Next ==
  \/ Answers \/ Proceeds \/ Deadline \/ DeadlinePasses \/ Interrupted
  \/ \E q \in Questions : SearchStops(q)
  \/ FinalizerCloses \/ Quiet

Spec == Init /\ [][Next]_vars

\* The event loop runs what can run, the client reads or goes, the repository
\* answers, time passes, a stopped search ends and the finalizer runs.
\* Nothing is assumed of the services that the deadline is there to bound.
FairSpec ==
  /\ Spec
  /\ WF_vars(Proceeds)
  /\ WF_vars(Deadline)
  /\ WF_vars(DeadlinePasses)
  /\ \A q \in Questions : WF_vars(SearchStops(q))
  /\ WF_vars(FinalizerCloses)

-----------------------------------------------------------------------------
(* Properties                                                              *)

\* The four complete streams of ADR-0005 section 3.
Opening == <<"reply_to", "rewriting", "intent">>
Contents(n) == [i \in 1..n |-> "content"]
Contract ==
  {Opening \o <<"retrieving", "fusing", "no_context", "done_no_context">>,
   Opening \o <<"clarification", "guidance", "done_clarification">>}
  \union
  {Opening \o <<"retrieving", "fusing", "reranking", "prompting", "generating">>
     \o Contents(n) \o <<"sources", "completed", "done_completed">> : n \in 0..MaxChunks}
  \union
  {Opening \o <<"generating">> \o Contents(n) \o <<"completed", "done_completed">> :
     n \in 0..MaxChunks}

\* What the client has received is at every moment a prefix of one of the
\* streams ADR-0005 lists, or a proper prefix of one followed by one error and
\* its done(error): no second terminal event, nothing after done, whatever
\* fails, times out or is cancelled between two frames.
WireFollowsContract ==
  \E stream \in Contract :
    \/ IsPrefix(wire, stream)
    \/ \E k \in 0..Len(stream) - 1 :
         IsPrefix(wire, SubSeq(stream, 1, k) \o <<"error", "done_error">>)

\* The done frame and the run row tell the same story: a successful done has
\* its outcome in the row, and an error leaves a failed run (or none), unless
\* a repository call failed or a cancellation raced with its COMMIT.
DoneTellsTheRun ==
  wire # <<>> =>
    /\ \A result \in {"completed", "no_context", "clarification"} :
         Last(wire) = DoneEvent(result) => run = result
    /\ Last(wire) = "done_error" => run = "failed" \/ faults > 0 \/ cancels > 0

\* When Basic has left retrieval no search task of the request is running,
\* unless a cancellation found it already collecting the searches that a
\* timeout or an earlier cancellation had stopped.
SearchesAreCollected ==
  at \notin {"retrieving", "draining"} =>
    \/ \A q \in Questions : search[q] \notin {"running", "stopping"}
    \/ cancels > 1
    \/ cancels = 1 /\ clock = "passed"

\* A model stream that was opened is closed in the end, whichever way the
\* request ends: exhausted, out of protocol, timed out, cancelled or abandoned
\* by a client that went away between two frames.
ModelStreamsClose == model # "none" ~> model = "closed"

\* ADR-0005 section 4: one deadline covers rewriting, intent, retrieval,
\* reranking and the model stream.  Whatever a service does, work on the
\* request stops once its deadline has passed, on every route but the one that
\* resolves the slugs of its intent.
DeadlineEndsWork == clock = "passed" ~> at \notin Stages \/ route = "scoped"
=============================================================================
