------------------------ MODULE RetrievalEvaluation ------------------------
(***************************************************************************)
(* The retrieval evaluation (evaluation/full_evaluation_cli.py): it        *)
(* imports a snapshot of the corpus (evaluation/full_corpus.py), searches  *)
(* every RAG sample and, with --live-rerank, pays for one rerank call per  *)
(* sample (evaluation/full_retrieval.py).  The rerank smoke test           *)
(* (evaluation/rerank_smoke.py) is a command of its own.  Nothing is kept  *)
(* of a run that ends early.                                               *)
(*                                                                         *)
(* One process runs at a time; meanwhile a client may upload or delete a   *)
(* document of the corpus, and between runs the snapshot may change.  The  *)
(* search, the rerank call and the ingestion are those of RetrievalRanking *)
(* and DocumentIngestion; here they answer with a list of candidates, a    *)
(* permutation of it, and a new active version.                            *)
(***************************************************************************)
EXTENDS RetrievalScoring

CONSTANTS
  Corpus,           \* the documents of the snapshot, in order
  Snapshots,        \* functions from documents to content hashes
  Answers,          \* [samples -> sets of sequences of documents a search can return]
  ContextTopK,      \* candidates left after reranking
  SmokeCases,       \* records [candidates, relevant] of the smoke test
  MaxRuns, MaxMishaps

ASSUME CorpusAssumption ==
  /\ Corpus \in Seq(ToSet(Corpus))
  /\ \A hashes \in Snapshots : DOMAIN hashes = ToSet(Corpus)

\* The documents that a search can find.
FoundDocuments == UNION {UNION {ToSet(candidates) : candidates \in Answers[id]} : id \in ToSet(RagSamples)}

\* The relevant documents of a smoke case are among its candidates, and it has
\* some (the validator of SmokeCase).
ASSUME CandidatesAssumption ==
  /\ \A id \in ToSet(RagSamples) : Answers[id] \subseteq Seq(FoundDocuments)
  /\ None \notin Seq(FoundDocuments)
  /\ ContextTopK \in Nat \ {0}
  /\ SmokeCases \in Seq(ToSet(SmokeCases))
  /\ \A case \in ToSet(SmokeCases) :
       /\ case.candidates \in Seq(ToSet(case.candidates))
       /\ case.relevant # {} /\ case.relevant \subseteq ToSet(case.candidates)

VARIABLES
  phase,        \* of the process; "off" when there is none
  command,      \* its arguments: [prepare, mode], mode in {"none", "off", "on", "smoke"}
  snapshot,     \* the content hashes of the checked out snapshot
  versions,     \* the versions each document had active, oldest first
  knowledgeBases, \* the four evaluation knowledge bases exist
  todo,         \* documents or samples left in this run
  fused,        \* the candidates of the sample being reranked
  imported, skipped, \* counts of this run's import
  results,      \* the cases of this run
  calls,        \* paid rerank calls of this run (history)
  reports,      \* the report file of each mode
  runs, mishaps \* bounds

retrievalVars == <<phase, command, snapshot, versions, knowledgeBases, todo, fused, imported,
                   skipped, results, calls, reports, runs, mishaps>>
corpusVars == <<snapshot, versions, knowledgeBases>>

Documents == ToSet(Corpus)
Deleted == "deleted"
ActiveHash(document) ==
  IF versions[document] = <<>> THEN Deleted ELSE Last(versions[document]).hash
NoCommand == [prepare |-> FALSE, mode |-> "none"]
Commands == ([prepare : BOOLEAN, mode : {"none", "off", "on"}] \ {NoCommand})
              \cup {[prepare |-> FALSE, mode |-> "smoke"]}
SmokeIds == [i \in DOMAIN SmokeCases |-> i]
Worklist(mode) == IF mode = "smoke" THEN SmokeIds ELSE RagSamples

RetrievalInit ==
  /\ phase = "off" /\ command = NoCommand
  /\ snapshot \in Snapshots
  /\ versions = [document \in Documents |-> <<>>] /\ knowledgeBases = FALSE
  /\ todo = <<>> /\ fused = <<>> /\ imported = 0 /\ skipped = 0
  /\ results = <<>> /\ calls = 0
  /\ reports = [mode \in {"off", "on", "smoke"} |-> Absent]
  /\ runs = 0 /\ mishaps = 0

End ==
  /\ phase' = "off" /\ command' = NoCommand /\ todo' = <<>> /\ fused' = <<>> /\ results' = <<>>
  /\ imported' = 0 /\ skipped' = 0 /\ calls' = 0
Abandon == End /\ UNCHANGED <<corpusVars, reports, runs>>

\* Without --prepare-corpus the knowledge bases must be there already.
StartEvaluation(arguments) ==
  /\ phase = "off" /\ runs < MaxRuns
  /\ arguments.mode # "smoke" => arguments.prepare \/ knowledgeBases
  /\ command' = arguments /\ runs' = runs + 1
  /\ knowledgeBases' = (knowledgeBases \/ arguments.prepare)
  /\ IF arguments.prepare THEN phase' = "import" /\ todo' = Corpus
     ELSE phase' = "search" /\ todo' = Worklist(arguments.mode)
  /\ UNCHANGED <<snapshot, versions, fused, imported, skipped, results, calls, reports, mishaps>>

----------------------------------------------------------------------------
(* import_full_evaluation_corpus                                           *)

\* Mutant: every document is ingested.
CheckNothing ==
  /\ phase = "import" /\ todo # <<>>
  /\ phase' = "ingest"
  /\ UNCHANGED <<todo, skipped, command, corpusVars, fused, imported, results, calls, reports,
                 runs, mishaps>>

\* A document whose active version has the snapshot's hash is skipped.
CheckDocument ==
  /\ phase = "import" /\ todo # <<>>
  /\ IF ActiveHash(Head(todo)) = snapshot[Head(todo)]
     THEN todo' = Tail(todo) /\ skipped' = skipped + 1 /\ UNCHANGED phase
     ELSE phase' = "ingest" /\ UNCHANGED <<todo, skipped>>
  /\ UNCHANGED <<command, corpusVars, fused, imported, results, calls, reports, runs, mishaps>>

IngestDocument ==
  /\ phase = "ingest"
  /\ versions' = [versions EXCEPT ![Head(todo)] =
                    Append(@, [hash |-> snapshot[Head(todo)], by |-> "import"])]
  /\ todo' = Tail(todo) /\ imported' = imported + 1 /\ phase' = "import"
  /\ UNCHANGED <<command, snapshot, knowledgeBases, fused, skipped, results, calls, reports,
                 runs, mishaps>>

FinishImport ==
  /\ phase = "import" /\ todo = <<>>
  /\ IF command.mode = "none" THEN End
     ELSE /\ phase' = "search" /\ todo' = RagSamples
          /\ UNCHANGED <<command, fused, imported, skipped, results, calls>>
  /\ UNCHANGED <<corpusVars, reports, runs, mishaps>>

----------------------------------------------------------------------------
(* run_full_retrieval_evaluation                                           *)

Record(case) == results' = Append(results, case) /\ todo' = Tail(todo)

Search ==
  /\ phase = "search" /\ command.mode # "smoke" /\ todo # <<>>
  /\ \E candidates \in Answers[Head(todo)] :
       IF command.mode = "on" /\ candidates # <<>>
       THEN /\ phase' = "rerank" /\ fused' = candidates /\ calls' = calls + 1
            /\ UNCHANGED <<results, todo>>
       ELSE /\ Record(OffCase(Head(todo), candidates, command.mode = "on"))
            /\ UNCHANGED <<phase, fused, calls>>
  /\ UNCHANGED <<command, corpusVars, imported, skipped, reports, runs, mishaps>>

\* Mutant: a failed search leaves no case.
SearchFailsUnrecorded ==
  /\ phase = "search" /\ command.mode # "smoke" /\ todo # <<>> /\ mishaps < MaxMishaps
  /\ todo' = Tail(todo) /\ mishaps' = mishaps + 1
  /\ UNCHANGED <<phase, command, corpusVars, fused, imported, skipped, results, calls, reports,
                 runs>>

\* RetrievalError and ModelError of the search are recorded as misses.
SearchFails ==
  /\ phase = "search" /\ command.mode # "smoke" /\ todo # <<>> /\ mishaps < MaxMishaps
  /\ Record(FailedCase(Head(todo), "failed"))
  /\ mishaps' = mishaps + 1
  /\ UNCHANGED <<phase, command, corpusVars, fused, imported, skipped, calls, reports, runs>>

\* Chunks of one document are alike here: orders of the candidates, cut to TopK.
Reorderings(candidates) ==
  {SubSeq([i \in DOMAIN candidates |-> candidates[order[i]]], 1,
          Min({ContextTopK, Len(candidates)})) :
     order \in {f \in [DOMAIN candidates -> DOMAIN candidates] : IsInjective(f)}}

Rerank ==
  /\ phase = "rerank"
  /\ \E reranked \in Reorderings(fused) : Record(OnCase(Head(todo), fused, reranked))
  /\ phase' = "search" /\ fused' = <<>>
  /\ UNCHANGED <<command, corpusVars, imported, skipped, calls, reports, runs, mishaps>>

\* A degraded rerank call, a failed ingestion or Ctrl-C: nothing is reported.
Abort ==
  /\ phase \in {"import", "ingest", "search", "rerank"} /\ mishaps < MaxMishaps
  /\ mishaps' = mishaps + 1 /\ Abandon

\* run_rerank_smoke: a call fails without consequence, or ends the run (Abort).
SmokeCall ==
  /\ phase = "search" /\ command.mode = "smoke" /\ todo # <<>>
  /\ LET case == SmokeCases[Head(todo)]
         Rank(ranked) == FirstRelevantRank(ranked, case.relevant)
     IN \/ /\ \E order \in {f \in [DOMAIN case.candidates -> DOMAIN case.candidates] :
                              IsInjective(f)} :
                Record([off |-> Rank(case.candidates),
                        on |-> Rank([i \in DOMAIN order |-> case.candidates[order[i]]])])
           /\ UNCHANGED mishaps
        \/ /\ mishaps < MaxMishaps /\ mishaps' = mishaps + 1
           /\ Record([off |-> Rank(case.candidates), on |-> 0])
  /\ calls' = calls + 1
  /\ UNCHANGED <<phase, command, corpusVars, fused, imported, skipped, reports, runs>>

----------------------------------------------------------------------------
(* The report is written in place, after the last case.                    *)

ReportOfRun ==
  IF command.mode = "smoke" THEN SmokeReport(results, calls)
  ELSE RetrievalReport(results, command.mode = "on")
ReportIsAccepted ==
  IF command.mode = "smoke" THEN SmokeReportIsValid(ReportOfRun, Len(SmokeCases))
  ELSE RetrievalReportIsValid(ReportOfRun)

OpenReport ==
  /\ phase = "search" /\ todo = <<>>
  /\ IF ReportIsAccepted
     THEN phase' = "write" /\ reports' = [reports EXCEPT ![command.mode] = Torn]
     ELSE phase' = "rejected" /\ UNCHANGED reports
  /\ UNCHANGED <<command, corpusVars, todo, fused, imported, skipped, results, calls, runs, mishaps>>

FillReport ==
  /\ phase = "write"
  /\ reports' = [reports EXCEPT ![command.mode] = ReportOfRun]
  /\ End
  /\ UNCHANGED <<corpusVars, runs, mishaps>>

KillEvaluation ==
  /\ phase # "off" /\ mishaps < MaxMishaps
  /\ mishaps' = mishaps + 1 /\ Abandon

----------------------------------------------------------------------------
(* Around the program.                                                     *)

\* A client uploads other content, the same content, or deletes the document.
\* What a search returns is any of Answers, so a change during one is left out.
ChangeDocument(document, hash) ==
  /\ phase \in {"off", "import", "ingest"}
  /\ mishaps < MaxMishaps /\ versions[document] # <<>>
  /\ mishaps' = mishaps + 1
  /\ versions' = [versions EXCEPT ![document] = Append(@, [hash |-> hash, by |-> "client"])]
  /\ UNCHANGED <<phase, command, snapshot, knowledgeBases, todo, fused, imported, skipped,
                 results, calls, reports, runs>>

ChangeSnapshot ==
  /\ phase = "off" /\ mishaps < MaxMishaps
  /\ mishaps' = mishaps + 1 /\ snapshot' \in Snapshots \ {snapshot}
  /\ UNCHANGED <<phase, command, versions, knowledgeBases, todo, fused, imported, skipped,
                 results, calls, reports, runs>>

Hashes == UNION {Range(hashes) : hashes \in Snapshots} \cup {Deleted}

RetrievalNext ==
  \/ \E arguments \in Commands : StartEvaluation(arguments)
  \/ CheckDocument \/ IngestDocument \/ FinishImport
  \/ Search
  \/ SearchFails \/ Rerank \/ SmokeCall
  \/ OpenReport \/ FillReport
  \/ Abort \/ KillEvaluation
  \/ \E document \in Documents, hash \in Hashes : ChangeDocument(document, hash)
  \/ ChangeSnapshot

RetrievalSpec == RetrievalInit /\ [][RetrievalNext]_retrievalVars

----------------------------------------------------------------------------
(* Properties.                                                             *)

\* Importing the same snapshot again creates no duplicate version, whatever
\* interrupted the earlier import (import_full_evaluation_corpus): two versions
\* the import created in a row differ, and an import that ends accounts for every
\* document and leaves each at the snapshot unless a client has changed it.
ImportIsIdempotent ==
  /\ \A document \in Documents : \A i \in 1..(Len(versions[document]) - 1) :
       LET one == versions[document][i]
           next == versions[document][i + 1]
       IN one.by = "import" /\ next.by = "import" => one.hash # next.hash
  /\ phase = "import" /\ todo = <<>> =>
       /\ imported + skipped = Len(Corpus)
       /\ \A document \in Documents :
            \/ ActiveHash(document) = snapshot[document]
            \/ Last(versions[document]).by = "client"

\* No validator rejects the report of a run that has paid for its last call, and
\* the report on disk counts every call and every sample of the run, a failed
\* search as a miss; merging a clean OFF run into the ON run changes no ON number.
ReportsCountEverything ==
  /\ phase # "rejected"
  /\ phase = "search" /\ todo = <<>> /\ command.mode \in {"on", "off"} =>
       LET ids == [i \in DOMAIN results |-> results[i].query_id]
       IN ids = RagSamples /\ ReportOfRun.live_calls = calls
  /\ phase = "write" => ReportOfRun.live_calls = calls
  /\ LET off == reports["off"]
         live == reports["on"]
     IN Readable(off) /\ Readable(live) /\ MayMerge(off, live) =>
          LET merged == MergeReports(off, live)
          IN /\ RetrievalReportIsValid(merged)
             /\ merged.on_metrics = live.on_metrics /\ merged.off_metrics = off.off_metrics
             /\ merged.live_calls = live.live_calls

\* The verdicts of a finished ON report agree with its metrics: without a loss no
\* hit rate and no reciprocal rank is below OFF; without a win none is above.
ComparisonAgreesWithMetrics ==
  LET report == reports["on"]
  IN Readable(report) =>
       LET NoWorse(better, worse) == /\ better.mrr >= worse.mrr
                                     /\ \A k \in 1..TopK : better.hit_at[k] >= worse.hit_at[k]
       IN /\ report.comparison.losses = 0 => NoWorse(report.on_metrics, report.off_metrics)
          /\ report.comparison.wins = 0 => NoWorse(report.off_metrics, report.on_metrics)
          /\ \A k \in 1..TopK :
               /\ report.off_metrics.recall_at[k] <= Unit * report.off_metrics.hit_at[k]
               /\ report.on_metrics.recall_at[k] <= Unit * report.on_metrics.hit_at[k]

\* What the retrieval programs leave on disk is what they did and measured.
RetrievalReportsAreTrue == ReportsCountEverything /\ ComparisonAgreesWithMetrics
=============================================================================
