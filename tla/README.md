# A TLA+ development of customer-agent2

customer-agent2 is a retrieval-augmented customer-service backend (FastAPI,
asyncio, SQLAlchemy/PostgreSQL with pgvector, Redis, remote chat models, a local
embedding model). This directory holds TLA+ modules translated from its code,
the TLC configurations that check them, and TLAPS proofs about each part: the
store of conversations and runs, the memory of a conversation, the ingestion of
documents, the cutting of a document into chunks, the stack of generators that
serves a request, the choice of what its prompt is made of, the gate of the local model,
the life of the process with its model streams and probes, and the programs that
evaluate intents and retrieval. Paths below are relative to
the Python package (`src/customer_agent2/` in the repository) unless they start
with `docs/` or `README`.

Check a run with `tlc -config <cfg> <module>.tla`, the proofs with
`tlapm <module>.tla` for each module `*Proofs` (the longest ones,
`DocumentIngestionProofs` and `EvaluationProofs`, take five to ten minutes). `PROJECT.json` lists the components, runs, mutants,
findings, hazards and theorems, and for every definition the lines it models.

## 1. Inventory

One process serves HTTP on one asyncio event loop. A public chat request is one
task that pulls events through a stack of asynchronous generators; documents are
ingested synchronously, in the task of their upload; PostgreSQL holds everything
that survives. So there are three sources of concurrency in the service: tasks that
interleave at `await`s, transactions that interleave at row locks and COMMITs,
and native threads (the embedding model) that cancellation does not stop. Beside
the service, five command-line programs evaluate it offline; they pay for model
calls, keep what they paid for in files, and are started again after they died.

| Component | State | Operations | Must be correct |
|---|---|---|---|
| RAG run persistence (`application/persistent_rag.py`, `infrastructure/persistence/rag_run_repository.py`) | rows of conversations, messages, runs; row locks | `begin_run`, `complete_run`, `fail_run`, `cancel_run`, and the generator that calls them | one running run per conversation; ordered messages; an answer exists exactly when its run was answered; `done` only after the commit; every started run settles |
| Conversation memory (`application/conversation_memory.py`, `.../conversation_memory_repository.py`) | the summary row and its boundary | `load_memory`, `prepare_summary`, `save_summary` | a summary accounts for exactly the turns up to its boundary; nothing reaches the prompt twice; whole turns only |
| Document ingestion (`application/document_ingestion.py`, `.../ingestion_repository.py`) | documents, versions, chunks | create building version, activate, fail | at most one active version, never none once there was one; unique version numbers; an upload that ended never replaces a later one; honest replies |
| Document management (`application/document_management.py`, `.../document_repository.py`) | the same rows | create knowledge base, status, delete | deletion and upload exclude each other; no orphan versions |
| Local embedding model (`infrastructure/models/sentence_transformer_embedding.py`) | lock, worker thread, lazily built backend | `embed`, cancellation | one thread in the model; no lost wake-up |
| Basic pipeline (`application/basic_rag.py`) | deadline, searches, model stream | rewriting, intent, retrieval, fusion, rerank, prompt, model | event order; everything bounded by the deadline; searches and streams collected on every exit |
| SSE route (`api/routes/chat.py`) | the frames sent | encode, error and done frames, closing the stack | one terminal frame, nothing after it |
| Rewriting, intent, retrieval, post-processing, rerank, prompt | none | functions around one model or database call; every search reads a snapshot of its own | fusion order, de-duplication, caps; a selection whatever the provider answers |
| Parsing and chunking (`infrastructure/documents/`, `application/document_chunking.py`) | none | file to blocks to token windows | no token lost, windows within budget and overlap, nothing spans two sections, tables or pages |
| Chat model adapter (`infrastructure/models/openai_chat.py`) | one HTTP response per stream, one client | open, first packet under a timer, packets, close | stream closed on every exit; an error that advises a retry means it |
| Application lifecycle (`main.py`, `bootstrap.py`, `infrastructure/resources.py`, `application/services.py`, health routes) | pools and clients | open, partial failure, close in reverse, readiness | nothing left open; one probe does not hide the other |
| Settings, database schema | configuration, constraints | validation | relations between settings, unique indexes |
| Intent evaluations (`evaluation/staged_intent*.py`, `candidate_intent_validation*.py`, `full_intent*.py`) | lock file, cache or checkpoint, reports | one paid call per sample, gated stages, resumable | each paid call is accounted for and a success on disk is not paid for again, no gate skipped, reports count what was paid for |
| Retrieval evaluations (`evaluation/full_corpus.py`, `full_retrieval.py`, `full_evaluation_cli.py`, `rerank_smoke.py`) | knowledge bases, reports | import the corpus, search, rerank, merge reports | importing twice changes nothing; every call and every miss is counted |

How they interact: `_stream_sse` pulls Summarizing, which pulls Persistent,
which pulls MemoryAware, which pulls Basic. On the way up an event may trigger
work in an outer layer (Persistent commits the run before it forwards `done`,
Summarizing refreshes the summary before it forwards it); on the way down a
cancellation or `aclose()` unwinds each layer, and Persistent records the run as
cancelled or failed. Memory reads what runs wrote; retrieval reads what ingestion
published; both ingestion and retrieval embed on the one local model.

What is hard here, and what the modules are about:

* **A COMMIT outlives its coroutine.** SQLAlchemy sends COMMIT from a shielded
  task. A caller cancelled during it leaves at once, and the COMMIT may take
  effect before, between or after the transactions that the cancellation
  handler runs. Every module with transactions has the state `committing` and a
  separate action by which the database applies the COMMIT.
* **Cancellation anywhere, more than once**: at every `await`, also in the
  handlers of an earlier cancellation. A client disconnect cancels the task
  through the framework, and an anyio cancel scope cancels again at later
  awaits, so a second cancellation is an ordinary event.
* **Uniqueness by locks or by index.** `max(...) + 1` is computed in SQL and
  only row locks keep two of them apart; activation relies on a unique index.
* **Generators closed from outside**: `aclose()` at a yield runs only the
  `finally` blocks of the generator that is closed, not of one it iterates over.
* **A deadline next to a native thread** that does not stop when told.
* **Money on disk.** The evaluation programs may be killed, interrupted or out of
  disk between a paid call and its record, and between two writes of a file; two of
  them may be started at once, and one program has no lock.
* **Text that does not come back.** A window of tokens decoded to text and encoded
  again need not give the tokens it was cut from, so windows shrink.

## 2. Modules

| Module | Models | Composition |
|---|---|---|
| `TurnLog` | abstract: a conversation is an append-only log of turns | instantiated by `RagRuns` |
| `RagRuns` | `PersistentStreamingRagPipeline` and the transactions of `rag_run_repository.py` | implements `TurnLog` |
| `RagRunsProofs` | theorems of `RagRuns` | extends `RagRuns`, TLAPS |
| `ConversationMemory` | memory loads and summary refreshes over a log of turns | takes the behaviour of turns from `TurnLog` |
| `ConversationMemoryProofs` | theorems of `ConversationMemory` | extends it, TLAPS |
| `DocumentIndex` | abstract: numbered versions, publication replaces | instantiated by `DocumentIngestion` |
| `DocumentIngestion` | `ingest()` with three transactions, `delete_document` with its cascade | implements `DocumentIndex` |
| `DocumentIngestionProofs` | theorems of `DocumentIngestion` | extends it, TLAPS |
| `EmbeddingGate` | concurrent `embed()` calls: asyncio lock, native worker, lazy load | |
| `ChatPipeline` | one request through the whole stack of generators, deadline and searches included | repository calls are single steps whose transactions are in `RagRuns` |
| `ChatPipelineProofs` | theorems of `ChatPipeline` | extends it, TLAPS |
| `RetrievalRanking` | searches, fusion, duplicate control, reranking, cut to TopK, while uploads commit | what `Retrieved` to `Prompted` of `ChatPipeline` abstract from |
| `RetrievalProofs` | theorems of `EmbeddingGate` and of `RetrievalRanking` | extends the two, TLAPS |
| `ModelStreams` | `OpenAICompatibleChatModel.stream` and the mapping of SDK errors | extended by `ApplicationLifecycle` |
| `ApplicationLifecycle` | one life of the process: start-up, serving, readiness, shutdown | the streams of `ModelStreams` run on the client it opens and closes |
| `LifecycleProofs` | theorems of the two | extends `ApplicationLifecycle`, TLAPS |
| `DocumentParsing` | the blocks and sections every parser makes of a file | pure operators |
| `DocumentChunking` | `StructureAwareDocumentChunker` over those blocks | extends `DocumentParsing` |
| `DocumentChunkingProofs` | theorems about it | extends `DocumentChunking`, TLAPS |
| `EvaluationFiles` | what a program may find where its file should be | |
| `IntentScoring` | routing policy, stages, gates, reports, threshold replay, failure taxonomy | pure operators |
| `IntentEvaluation` | the staged, candidate and full intent programs on their files | extends `IntentScoring` |
| `RetrievalScoring` | document rankings, metrics, OFF/ON comparison, reports, merge | pure operators |
| `RetrievalEvaluation` | corpus import, retrieval evaluation, rerank smoke test | extends `RetrievalScoring` |
| `EvaluationPrograms` | the two families side by side | composes the two |
| `EvaluationProofs` | theorems of `IntentEvaluation` and of `RetrievalEvaluation` | extends `EvaluationPrograms`, TLAPS |
| `MC*` | model values and symmetry sets for TLC | |

**RagRuns.** A request is a coroutine with a program counter `pc[r]`, the `await`
it is suspended at, and up to three transactions `tx[r][phase]` (`begin`,
`complete`, `mark`) that pass through `open`, `committing` and `committed` or
`aborted`. `conversationLock` and `runLock` are the row locks of `FOR UPDATE`
and of the UPDATEs; `Unlock` drops them when a transaction ends. Each statement
that can wait is an action (`BeginLock`, `CompleteLockRun`, `MarkLockRun`,
`MarkWrite`, ...); what a statement writes stays in the transaction until
`CommitBegin`, `CommitComplete` or `CommitMark` applies it. `Cancel`,
`DatabaseError` and `Crash` can strike at every await; `CommitLost` lets a COMMIT
whose connection failed turn out not to have happened. `seen[r]` is what the
client was told. The inner pipeline is one await that ends in an outcome or an
exception (`InnerDone`, `InnerRaises`): `ChatPipeline` has what is inside.
Texts, sources and traces are left out; a message is its ordinal.

**ConversationMemory.** `messages` is the log of one conversation, `summary` the
row: its boundary, its count, and, in place of its text, the set of ordinals
merged into it. `LoadSummary` and `LoadWindow` are two statements with two
snapshots, as are `PrepareSummary` and `PrepareMessages`; `SaveSummary` and
`LoseSummary` are the two results of the optimistic update. A summary is refreshed
after its turn settled and before `done` is forwarded, so refreshes overlap with
later turns; turns themselves do not overlap, which `RagRuns` proves.

**DocumentIngestion.** As `RagRuns`, with row locks as sets (`holds`), the shared
foreign-key locks of an insert (`shares`), waits for an uncommitted unique key, and the
deadlock between an activation and the cascade of a deletion that PostgreSQL
resolves by failing one (`DeadlockFailsActivation`). Parsing, chunking and
embedding are the step `embedding`, which succeeds, fails or is cancelled. A
version is named after its upload, a document after the upload that created it.
`earlier[u]` remembers which uploads had ended when `u` began: activation compares
no version numbers, so among overlapping uploads the last activation wins, but an
upload that has ended, even by a cancellation whose COMMIT was on its way, must not
come back (`EndedUploadsStayReplaced`).

**EmbeddingGate.** The lock is modelled as CPython implements it: releasing wakes
the first waiter, and the waiter takes the lock only when its task runs again, so
it can be cancelled, or overtaken, in between. `thread[c]` is the native worker,
which goes on whatever happens to the coroutine; `working` is the shielded await,
`draining` the `gather()` of the cancellation handler.

**ChatPipeline.** The stack is one thread of control: `at` is the await or yield
it is suspended at or the code that runs next, `resume` where it goes on after a
frame. `Enter` reads the clock as `_remaining_seconds` does; `TimesOut` is
`asyncio.wait_for` of Python 3.11 (the version `pyproject.toml` requires), which
cancels the call and waits for it to stop. Retrieval is the only call that takes
time to stop, because its searches may be in a native thread; the other calls
stop at once, an abstraction. `unwinding` says how the stack is left: by an
exception, a timeout, a cancellation or `aclose()`. `wire` is the sequence of
frames the client received.

**RetrievalRanking.** `results[q]` is the list one search returned from its own
snapshot of `active` and `name`. `Nearest` leaves ties to the database. `fuse()` is written
in the terms of the code: the sort keys `OccurrenceKey` and `AggregateKey` compared by
`Before`, then `UniqueContent`, `WithinDocumentCap` and the candidate limit as folds, in that
order; `FusionIsCorrect` says the same without order and loops. Scores are
exact, see the head of the module. `Reranked` takes every reply of the provider,
`ValidReply` is what the adapter lets through. Only what the searches read of the catalog is there: the
transactions behind it are in `DocumentIngestion`.

**ModelStreams** and **ApplicationLifecycle.** `at[s]` is the await or yield a
stream is suspended at, `response[s]` its HTTP response, `interrupts[s]` what
cancelled its await: a timer and a cancellation arrive the same way, and the
coroutine finds out which it was when it runs again, so a cancellation can arrive
behind a timer. `phase` is where the lifespan is; `pool` and `client` say of every
resource whether it is open, closed, or "leaked" by a close that raised after
its owner had dropped the reference. Steps of start-up and shutdown fail by
`Mishap`. A readiness request has two probes that end on their own, by an answer,
an error or their timeout; `steady` and `glimpsed` are history: what answered
throughout the request, or at some time of it.

**DocumentParsing** and **DocumentChunking.** A source is what the format's library
found in the file, a text the number of its tokens. `blocks` is what the parser
makes of it; `TakeBlock` is one turn of the chunker's loop, `DecodeWindow` one window of a
group over the budget. The tokenizer is external: a decoded window encodes to nothing,
to as many tokens as it had or to up to `MaxGrowth` over the budget, and shrinks unless it
fits, as in the code.

**IntentEvaluation.** `cache`, `temporary`, `lock`, `stageReports` and `fullReport`
are the files; a file written in two steps is `Torn` in between. `run[p]` is a
process: loaded cache, pending cases, the call under way. Each result is recorded in
memory, written to a temporary file and renamed (`OpenTemporary`, `FillTemporary`,
`Rename`); the full program's report is filled in place and its checkpoint removed after
it. `Interrupt`, `WriteFails` and `Kill` strike wherever the program can be struck;
`RemoveStaleLock` is the operator. `sent` and `lost` are history: calls sent for each
case, and calls whose result never reached the disk. `IntentScoring` has what is computed
from cases: `SelectIntentRoute`, the gates, the reports with their validators.

**RetrievalEvaluation.** `versions` is what each document had active, by whom;
`CheckDocument` skips one whose active hash is the snapshot's, `IngestDocument` uploads it.
Clients upload and delete meanwhile (`ChangeDocument`). A run is searched and reranked sample
by sample (`Search`, `Rerank`) and leaves a report only at its end; `MergeReports` joins an
OFF and an ON report. `phase = "rejected"`
stands for a report that its own validator refuses after the money was spent.

## 3. Runs

| Run | Instance | Shows |
|---|---|---|
| `rag_safety` | 3 requests, 1 conversation, 1 cancellation each, 1 fault; symmetry | runs are exclusive, ordinals unique, answers complete, `done` durable; a run that is left running has one of the named causes; `TurnLog` is implemented |
| `rag_live` | 2 requests, 2 conversations, 1 cancellation each, 1 fault | every request ends; a run whose `reply_to` went out settles |
| `rag_orphan` | 2 requests, no fault | violation, the finding of section 5 |
| `memory` | 5 turns, window 1, trigger 2, 1 failing refresh; symmetry | the summary is exact, its boundary only advances, and what a load gives is whole turns, nothing twice, and without a gap unless a refresh was late or dropped |
| `ingestion_races` | 3 uploads of one key, 1 deletion, 1 cancellation each; symmetry | unique keys and numbers, versions have documents, ended uploads stay replaced; `DocumentIndex` is implemented |
| `ingestion_faults` | 2 uploads, 1 deletion, 2 cancellations each, 1 fault | the reply agrees with the rows, versions left building have a named cause, every call ends; `DocumentIndex` again, now with faults |
| `gate` | 4 calls, 2 cancellations each, 1 failing load | one user of the model unless a call was cancelled while it drained; every call ends |
| `chat` | 4 routes, 2 sub-questions, 2 content events, 2 cancellations, 1 failing call | frames follow ADR-0005, `done` agrees with the run, searches collected, model streams closed, the deadline ends the work |
| `retrieval` | 2 sub-questions, 5 chunks of 2 documents with one text in both, 2 similarities, recall 3, cap 2, limit 3, TopK 2, `rrf_k` 60; one upload renames and replaces a document | fusion equals its reference and puts a chunk that is better everywhere first, the rerank provider cannot spoil the selection; searches disagree, or mix versions, only when a commit came between them |
| `lifecycle` | 2 streams or probes of one life, 3 clients, 2 failing steps, 1 cancellation per stream, 2 outages; symmetry | what was opened is closed or has a named cause, probes do not hide each other, the advice to retry is true |
| `chunking` | every document of up to 3 items (4 in Markdown) of 5 formats, budget 4, overlap 2, growth 2 | no token is lost, windows keep budget and overlap; nothing spans two headings, tables or pages, and only what is over the budget is cut |
| `evaluation` | 3 intent programs with up to 4 starts of 2 processes and 2 faults over 4 cases; retrieval programs with 2 runs, 2 mishaps, 2 documents, 2 samples; symmetry | paid calls are accounted for and a success on disk is not sent again, gates guard the spending, leftovers have a cause, reports are true, imports are idempotent |

*Why the bounds are enough.* The ordinal race needs a request that completes, one
that begins and one that began before, so three requests; with two, dropping the
lock in `LockConversation` goes unnoticed (the theorems cover every number). Three uploads
are an active version, one that replaces it and one that races both. Five turns
with a window of one make two overlapping refreshes and a turn after both. Four
gate calls are a holder, a woken waiter that is cancelled, the next in the queue
and a newcomer that overtakes; two cancellations are one into the worker and one into
its draining. In `retrieval` four texts and the two versions are what it takes for every budget to
cut: three chunks of one document for the cap, four candidates for the limit,
three for TopK. Two mishaps of the lifespan are a step of start-up or shutdown and one of
the closing that follows it. In `chunking` texts lie within, at and over the budget and
encode to nothing; a window over a text of 7 is cut twice and may shrink to one token.
In `evaluation` four cases are two failures, a guard and one of the rest, so each gate
of each stage can pass and fail; a start, a killed start, a resumed one and one with a
drifted manifest make four; two faults let a resumed process be struck again.
One cancellation per actor hits each await and its handler's; runs
that need the second say so. Elsewhere one fault is enough because faults are independent;
their effect is the loss of one transaction or of all open ones. `Quiet` (or `Ended`) lets a
run stop only when everything ended, so deadlock checking stays on everywhere but in
`evaluation`, where programs that nobody starts again have ended.

*Fairness.* Weak fairness of what the event loop and the database owe: a
coroutine whose await can return is resumed, a COMMIT is answered, a deadlock is
resolved. `RagRuns` assumes in addition that the inner pipeline ends, which the
`chat` run shows for all routes but one. `ChatPipeline` assumes nothing of model
and retrieval services, which may hang: only that time passes, that a stopped
search thread ends, that the repository answers and that the client reads or
disconnects. There is no fairness of cancellation, errors or crashes. The
liveness properties end in a disjunct where the code promises nothing:
`StreamedRunsSettle` excuses a fault and a cancellation of `fail_run`.

## 4. Proofs

Every theorem holds for every value of the constants that satisfies the `ASSUME`s of its
module (bounds are natural numbers, model values differ from ids, errors are errors of
the SDK, `Clients` is a sequence without repetitions, a source has pages, records or headings with
texts and tables, as its parser makes them; a ranking has finitely many chunks and positive limits;
of an evaluation: ids in sequences, three scores per reply, natural limits,
at least one baseline failure, questions of both routes among the failures, the development probes and the
challenges, as the manifest validators demand, finitely many processes, a hash for each document of a snapshot,
required documents for each sample, and smoke cases that their validator accepts).

| Module | Theorem | Statement |
|---|---|---|
| `RagRunsProofs` | `Invariant` | the inductive invariant `IInv` |
| | `TypeCorrect` | `TypeOK` |
| | `RunsAreExclusive` | `OneRunningPerConversation` |
| | `MessagesAreOrdered` | `OrdinalsUnique` |
| | `AnswersAreComplete` | `AnswersOfAnsweredRuns` |
| | `DoneIsDurable` | `DoneMeansSaved` |
| | `OrphansAreExplained` | `OrphansHaveACause` |
| | `RunsImplementTurnLog` | `ImplementsTurnLog` |
| `ConversationMemoryProofs` | `MemoryIsConsistent` | the inductive invariant `IInv` |
| | `SummaryStaysExact` | `SummaryIsExact` |
| | `BoundaryNeverGoesBack` | `BoundaryAdvances` |
| | `ContextsAreAccountedFor` | `ContextIsAccountedFor` |
| `DocumentIngestionProofs` | `IngestionIsConsistent` | the inductive invariant `IInv` |
| | `CatalogStaysConsistent` | `CatalogIsConsistent` |
| | `RepliesAreHonest` | `ReplyIsHonest` |
| | `OrphanVersionsAreExplained` | `BuildingOrphansHaveACause` |
| | `IngestionImplementsIndex` | `ImplementsDocumentIndex` |
| `ChatPipelineProofs` | `RequestIsConsistent` | the inductive invariant `IInv` |
| | `FramesFollowContract` | `WireFollowsContract` |
| | `DoneAgreesWithTheRun` | `DoneTellsTheRun` |
| | `NoSearchIsLeft` | `SearchesAreCollected` |
| `DocumentChunkingProofs` | `ChunkingIsConsistent` | the inductive invariant `IInv` |
| | `NoTokenIsLost` | `TokensAreCovered` |
| | `StructureIsConsistent` | the inductive invariant `StructureInv` |
| | `ChunksKeepTheStructure` | `StructureIsKept` |
| `RetrievalProofs` | `ModelIsExclusive` | `ModelUsedByOne` of `EmbeddingGate` |
| | `RankingInvHolds` | the inductive invariant `RankingInv` of `RetrievalRanking` |
| | `FusionSelectsTheBest` | `FusionIsCorrect` |
| | `RerankingLosesNothing` | `RerankKeepsTheSelection` |
| | `DisagreementsAreExplained` | `DisagreementsHaveACause` |
| `LifecycleProofs` | `RetryAdvice` | `RetryAdviceIsHonest` |
| | `Readiness` | `ReadinessIsHonest` |
| | `NothingIsLeftOpen` | `NothingLeftOpen` |
| `EvaluationProofs` | `EvaluationIsConsistent` | the inductive invariant `IInv` of `IntentEvaluation` |
| | `AttemptsAreCounted` | `AttemptsAreAccountedFor`, `PaidCasesAreNotSentAgain` |
| | `StagesAreGated` | `SpendingIsGated` |
| | `LeftoversAreExplained` | `LeftoversHaveACause` |
| | `SuccessesAreKept` | `PaidSuccessesAreKept` |
| | `ImportIsConsistent` | the inductive invariant `ImportInv` of `RetrievalEvaluation` |
| | `ImportsAreIdempotent` | `ImportIsIdempotent` |
| | `MeasuringIsConsistent` | the inductive invariant `MeasureInv` |
| | `RetrievalReportsHold` | `RetrievalReportsAreTrue` |
| | `ReportsAreConsistent` | the inductive invariant `ReportInv` of the intent reports |
| | `ReportsHold` | `ReportsAreTrue` |

*RagRuns.* None of the checked invariants is inductive. They hold because a transaction
holds the lock of its conversation from before its reads until its COMMIT takes
effect, even after the coroutine that sent it has left. `IInv` says so in four
parts per request: `PcShape` (which transactions and locks go with each await),
`TxShape` (a COMMIT on its way holds its conversation and run rows, and the run
row is still running), `ReadShape` (what a transaction read still holds: nobody
else is running, its ordinal is above every committed one) and `RowShape` (how
the committed rows follow from which transactions committed). `HasLastOrdinal`
makes `max(ordinal)` well defined without induction over finite sets. Each part is preserved
by a lemma of its own with one step per action. The refinement needs in addition `NextInv`:
the running turn is the last of its log and the ordinals on their way
follow directly, so that a completed answer is placed right after its question. The unique
indexes are not used: exclusiveness and ordering of runs follow from row locks alone.
`OrphanInv` carries the history that `OrphansHaveACause` asks for: a request that left with its
run unsettled had a fault, two cancellations, or one in `begin_run` or `fail_run`.

*ConversationMemory.* The log only grows at its end, one turn at a time (`RunningShape`,
`LogShape`), so what lies at or below a boundary never changes again. `Exact` says of the saved
summary, and of every one that an overlapping refresh still holds, that it accounts for
exactly the completed messages up to its boundary and left the window of recent turns above it.
`HasSelected` says that what a refresh adds starts at the boundary it read, which is the one the
optimistic update compares with. `SettledInv` is what makes a gap in a context an event
with a name: a refresh that finished has left at most a window unsummarised.
The lemmas about counting (`Above`, `UpTo`, `Between`) replace induction by the cardinality
theorems of the library.

*DocumentIngestion.* The argument is that of `RagRuns` with more kinds of locks. Version
numbers and source keys are kept apart by the lock of the knowledge base, which a create holds from
before its reads until its COMMIT takes effect (`CreateLocks`, `NumberIsNext`); a version keeps
its document because an insert shares the row that a deletion needs for itself
(`LocksExclude`); the version that an activation found active stays so because the activation holds
its row (`ActivateShape`). Nothing but the unique index keeps two activations apart that
both found no active version, and the proof uses it there (`OneActiveVersion`). `HistoryShape`
is why an upload that ended does not come back: it held or lost its place before the later one began.
The refinement maps every COMMIT that takes effect to one step of `DocumentIndex`.

*ChatPipeline.* Whether a frame may be sent depends on the frames before it, so `WireShape`
says for every await and yield of the stack exactly which frames the client has received by then
(`OpeningShape` to `OutcomeShape`), and of the ways out (`LeavingShape`) that the stream is one of
ADR-0005 without its end; `EndShape` then holds when a handler has added the last frames.
`RunShape` says what the row of the run is there, `SearchShape` which searches may
run. The number of sub-questions, content events and cancellations is arbitrary.

*DocumentChunking.* The chunks written so far are a chain (`Chain`): each starts where the one
before it stopped or, inside a group that is cut, behind its start and not behind its end. `GroupShape`
says where the chain ends: with all tokens of the last group, or, while a group is cut, in its last
window (`WindowShape`). A window that the recount shrinks is the delicate step: its end still lies
behind the place where the next one starts (`ShrinkKeeps`). That the recursive flattening
of a document yields blocks with countable tokens needs no induction theorem: if it failed
somewhere, it would fail at a least index (`LeastExists`, `FlattenType`).

For `StructureIsKept` the drafts are described by the blocks of the document instead of
their tokens: `OneGroup` says that all blocks of a group lie in one place, `Explained` why a heading
stands alone, `IsTooLarge` why a group is cut, `WellGrouped` all three of every draft. The section
path of a block is the list of open headings above it; the lemmas about `Blocks` show that a block
which is no heading has the path of the block before it exactly when both are in one place: under one
heading, and in no table or page or in the same one. That is all the chunker looks at. The records of
a CSV file all have one path: they are grouped up to the budget, so a chunk may hold several, and
what is proved of them is that one which fits is not cut.

*EmbeddingGate.* `ModelUsedByOne` holds because a thread that may be inside the model
works for the one holder of the lock or for a call that was cancelled while it drained
(`ThreadsAreOwned`, `HoldingIsSound`), and a second holder cannot appear because nobody is
woken while the lock is held and only one at a time while it is not (`WakingIsSound`).
The bounds on cancellations and failed loads play no role.

*RetrievalRanking.* A score is a fold over the set of searches that found a chunk. That the
recursion behind such a fold has a solution, and that it does not depend on the order, is proved by
well-founded induction (`SetFoldExists`, `SumOfAnyElement`), which `WFMin` of the library gives in
first order. From it follows that the score grows with every rank (`ScoreMonotone`), that `Beats`
orders the chunks (`BeatsIsAnOrder`) and that `Ordered` lists them all. The folds of the two loops are
followed place by place (`UniqueContentSteps`, `WithinDocumentCapSteps`) until what they keep is what
the reference keeps (`SelectionIsTheReference`). `RankingInv` says that what a search returned differs
from the catalog only for documents an upload changed since (`SnapshotsAreRecent`), and that the
candidates stay what was selected when all searches had answered (`StagesInOrder`).

*ApplicationLifecycle.* `TimerShape` says at which awaits a stream may still find that its
timer fired, all before its first packet, and that an ending that advises a retry was
decided there; three lemmas (`EndsWithKeeps`, `ClosesThenKeeps`, `HandledKeeps`) carry it
over the ways out that the actions share. `ProbeShape` says what each half of a probe has seen
by the time it gives its result, and that a half under way has glimpsed whatever is up. The lifespan
touches a stream only by closing its client (`LifespanStep`), so the invariants are kept
separately. `LifeInv` says which pools, clients and streams are open in each phase, and counts: every
leak is paid for by a mishap (`LeaksCounted`), for any sequence of clients.

*IntentEvaluation.* The lock admits one process (`LockShape`); the program without a lock
is described by the history `overlapped`, and only its types, caches and files are claimed once two
processes have run at once. For a process that is alone the cache on disk is the one it
holds, or one record behind while that record is written (`DiskShape`, `OneRecordAhead`). So the calls
sent are on disk, lost or under way (`AccountShape`), and what is pending is not on disk
(`WorklistShape`), so no step sends a case whose success is there (`PaidCasesAreNotSentAgain`). This is
not "each case is paid for once": a degraded call is recorded as a failure, and a call whose result a
kill, an interrupt or a full disk took is lost; both leave their case pending and the next start pays
for it again, as ADR-0013 says of the staged program. A gate is computed once, at the start
of a stage, from the cases in the cache (`GateAtLoad`); `GateShape` says that it is still true of the
disk at every later call, because a rename only adds cases of ids that had none
(`RenameAdds`, `GatesGrow`). The full program sends the rest of the dataset in order (`OrderShape`), so its
checkpoint is a prefix of it and a complete one loses nothing to its report (`ReportHasEveryCase`).

*RetrievalEvaluation.* The import is at a position of the corpus: the documents before it are
settled, at the snapshot's content or changed by a client (`ImportPosition`), and what it is about to
ingest was not at that content (`ToBeIngested`), so no two versions of its own in a row are alike
(`NoDuplicate`). `MeasureInv` says the same of a run over the samples: the results are those of
the first samples in order, each paid call is in one of them or under way (`SampleProgress`,
`SmokeProgress`), so a run that is through is `Complete` and its report counts everything. That
no validator rejects it is a partition into wins, ties and losses (`ThreeParts`); that verdicts
and metrics agree is the monotony of sums (`SumMonotone`, `SumBounded`). Sums and the removal of repeated
documents are folds over sequences, unfolded by `FoldExists` and `StepByStep`.

`ReportsAreTrue` needs `ReportInv` beside `IInv`: each id of a stage is pending, in the call under way or in
the cache (`Collected`), so a finished stage has a case for each (`CollectedIsComplete`), the
counts of its report add up and no validator rejects it (`FinishedIsReported`); and a report once
written stays that of the disk, because a rename only adds cases of other ids
(`ReportedStage`, `CasesStay`, `PassedGatesStay`). The rest is arithmetic of the report: the parts of a set divided by a
function add up to it (`CountsAddUp`), the three ways to be wrong exclude each other
(`WrongCases`, `AnalysisHolds`), and a higher threshold or margin can only turn a verdict into a
clarification (`VerdictMeans`, `ReplayMeans`).

Left to TLC: liveness, since fairness and ENABLED are outside the prover. Every invariant and every
action property that a run checks is proved.

## 5. Findings

`rag_orphan` - `begin_run` is awaited before the `try` that settles the run
(`application/persistent_rag.py:43`). A cancellation while its COMMIT is on the way leaves a
committed, running run for ever; its conversation then refuses every later request as busy.
ADR-0006 says every question that really started has a run with an ending
(`docs/adr/0006-conversation-rag-run-persistence.md:129`). A second cancellation, during
`cancel_run`, has the same effect on a run whose `reply_to` went out; `OrphansHaveACause`
names all such causes.

Behaviour that a property excepts by name, because the code does it; the exceptions are the
places to look at when the code changes:

* A refresh that loses the optimistic update to an older one is dropped, not retried. Until a
  later refresh a turn that left the window is in no context; ADR-0007:54 keeps the two
  windows equal to avoid such a gap (`ContextIsAccountedFor`).
* A second cancellation interrupts the `gather()` that waits for the native worker, and the
  lock is released while a thread is in the model, against the comment above it
  (`sentence_transformer_embedding.py:122`; `LeftBehind`).
* The query that resolves the slugs of an intent is awaited outside `wait_for`: a hanging query
  outlives the global deadline of ADR-0005:108 (the route `scoped` of `DeadlineEndsWork`).
* `full_intent_cli.py` takes no lock, unlike the staged and the candidate program: two
  processes pay for the same cases and overwrite each other's checkpoint (`overlapped`).
  ADR-0013:76 requires the lock of the staged cache only.
* A cancellation between the headers and the first packet of a stream leaves the response to
  the SDK and its connection pool, as an error of the transport does (`NothingLeftOpen`).
* When a constructor of the services raises, the clients already built belong to nobody and are
  not closed; only the pools are (`NothingLeftOpen`).
* `create_building_version` has the same window as `begin_run`, and
  `BuildingOrphansHaveACause` names it.
* A disconnection during the collection of timed-out searches ends the wait for them, the
  second disjunct of `SearchesAreCollected`.
* The generator of a direct answer is iterated without being closed: when Basic is closed at
  one of its events, the model stream is closed later, by the event loop's finalizer
  (`FinalizerCloses`).
* `create_building_version` renames the document while its old version is still active: two
  searches of one request on both sides of that commit make `fuse()` refuse the whole request as
  a protocol error that is not retryable (`DisagreementsHaveACause`), and when the upload fails,
  citations of the old version keep the new filename.
* A window of the chunker that shrinks may lie inside the previous one: `Follows` asks that
  windows start later and leave no gap, not that they end later.

## 6. Not modelled, and the plan

Done: every component but the settings, in this order: `RagRuns` with proofs,
`ConversationMemory`, `DocumentIngestion`, `EmbeddingGate`, `ChatPipeline`,
`RetrievalRanking`, the evaluation programs, `ModelStreams` with `ApplicationLifecycle`,
`DocumentChunking`, then the proofs about the gate, the lifecycle,
the memory, the ingestion, the pipeline, the chunking, the intent evaluations, the
ranking and the retrieval evaluation.

What is left out of modelled components, and why:

* `get_document_status` reads two snapshots and changes nothing, and no document says how the
  two fields of its answer relate.
* `complete()` of the chat model is one call without state; it is a step of the modules that use it.
* The replies of models are abstracted to what becomes of them (a route, a rewritten question, a
  summary of known turns, a permutation); parsing JSON, prompt wording, titles and citations as
  texts are not modelled, nor are vectors and their validation.
* Format libraries and tokenizers are external: `DocumentParsing` starts from the items a
  library finds, and `ParseFails` stands for every file the identifier or a library refuses. The
  characters of a text are not kept, so limits in characters are limits in its tokens.
* A group of blocks that encode to no tokens raises only where the code counts its tokens again.
* The process is the one the program builds by default: rerank disabled by configuration and
  a lifespan without services are not modelled.
* Evaluation: latencies, percentiles, token counts, the reading of datasets and the text of
  reports. The two families of programs share no file they write, so a behaviour runs one.

Not planned: HTTP schemas and settings validation (stateless checks of one value), vector search
inside PostgreSQL, migrations. Column checks of the schema are left out where the code never
writes what they refuse.

The plan is done. When the code changes, a module and its map come first, then the runs, then the
step of the proof that belongs to the changed action.
