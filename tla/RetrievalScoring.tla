-------------------------- MODULE RetrievalScoring --------------------------
(***************************************************************************)
(* The scoring of the retrieval evaluation (evaluation/full_retrieval.py)  *)
(* and of the rerank smoke test (evaluation/rerank_smoke.py): document     *)
(* rankings from top chunks, OFF/ON comparison, metrics and reports.       *)
(*                                                                         *)
(* A candidate is the document of a chunk (its source_key); a rank is 0    *)
(* where the code has None.  Metrics are sums of multiples of 1/Unit that  *)
(* the code divides by the number of samples.                              *)
(***************************************************************************)
EXTENDS Integers, Sequences, FiniteSets, SequencesExt, FiniteSetsExt, EvaluationFiles

CONSTANTS
  RagSamples,     \* query ids of the retrieval denominator, in order
  Required,       \* [RagSamples' ids -> sets of documents]
  TopK,           \* _TOP_K, the number of chunks scored
  Unit            \* a common multiple of the ranks and of the sizes of Required

ASSUME RetrievalScoringAssumption ==
  /\ RagSamples \in Seq(ToSet(RagSamples)) /\ IsInjective(RagSamples)
  /\ TopK \in Nat \ {0} /\ Unit \in Nat \ {0} /\ \A k \in 1..TopK : Unit % k = 0
  /\ \A id \in ToSet(RagSamples) :
       /\ IsFiniteSet(Required[id]) /\ Required[id] # {}
       /\ Unit % Cardinality(Required[id]) = 0

\* The first TopK chunks, then one entry per document.
RankDocuments(candidates) ==
  FoldLeft(LAMBDA ranked, document : IF Contains(ranked, document) THEN ranked
                                     ELSE Append(ranked, document),
           <<>>, SubSeq(candidates, 1, Min({TopK, Len(candidates)})))

FirstRelevantRank(ranked, required) ==
  SelectInSeq(ranked, LAMBDA document : document \in required)

----------------------------------------------------------------------------
(* Cases: what is kept of one question.                                    *)

FailedCase(id, code) ==
  [query_id |-> id, off |-> <<>>, on |-> None, retrieval_error |-> code,
   rerank_attempted |-> FALSE]
OffCase(id, candidates, enabled) ==
  [query_id |-> id, off |-> RankDocuments(candidates), on |-> IF enabled THEN <<>> ELSE None,
   retrieval_error |-> None, rerank_attempted |-> FALSE]
OnCase(id, candidates, reranked) ==
  [query_id |-> id, off |-> RankDocuments(candidates), on |-> RankDocuments(reranked),
   retrieval_error |-> None, rerank_attempted |-> TRUE]

OnRanking(case) == IF case.on = None THEN <<>> ELSE case.on
OffRank(case) == FirstRelevantRank(case.off, Required[case.query_id])
OnRank(case) == FirstRelevantRank(OnRanking(case), Required[case.query_id])

\* The validator of FullRetrievalCaseResult.
CaseIsValid(case) ==
  /\ Len(case.off) <= TopK /\ IsInjective(case.off)
  /\ Len(OnRanking(case)) <= TopK /\ IsInjective(OnRanking(case))
  /\ case.retrieval_error # None => case.off = <<>> /\ ~case.rerank_attempted
  /\ case.rerank_attempted => case.on # None

\* Compares two ranks of which 0 is worse than any other.
Better(rank, other) == rank # 0 /\ (other = 0 \/ rank < other)
Comparison(cases) ==
  LET Count(Test(_)) == Cardinality({i \in DOMAIN cases : Test(cases[i])})
  IN [wins   |-> Count(LAMBDA case : Better(OnRank(case), OffRank(case))),
      ties   |-> Count(LAMBDA case : OnRank(case) = OffRank(case)),
      losses |-> Count(LAMBDA case : Better(OffRank(case), OnRank(case)))]

----------------------------------------------------------------------------
(* Metrics and reports.                                                    *)

SumOf(values) == FoldLeft(LAMBDA total, value : total + value, 0, values)

\* Metrics of rankings[i], the documents found for the question of cases[i].
HitAt(ranks, cutoff) == Cardinality({i \in DOMAIN ranks : ranks[i] \in 1..cutoff})
RecallAt(cases, rankings, cutoff) ==
  SumOf([i \in DOMAIN cases |->
    LET required == Required[cases[i].query_id]
        found == ToSet(SubSeq(rankings[i], 1, Min({cutoff, Len(rankings[i])})))
    IN (Unit * Cardinality(found \cap required)) \div Cardinality(required)])

Metrics(cases, rankings) ==
  LET ranks == [i \in DOMAIN cases |->
                  FirstRelevantRank(rankings[i], Required[cases[i].query_id])]
  IN [hit_at |-> [k \in 1..TopK |-> HitAt(ranks, k)],
      recall_at |-> [k \in 1..TopK |-> RecallAt(cases, rankings, k)],
      mrr |-> SumOf([i \in DOMAIN ranks |->
                       IF ranks[i] \in 1..TopK THEN Unit \div ranks[i] ELSE 0])]

RetrievalReport(cases, enabled) ==
  LET Count(Test(_)) == Cardinality({i \in DOMAIN cases : Test(cases[i])})
  IN [enabled |-> enabled, sample_count |-> Len(cases),
      retrieval_failures |-> Count(LAMBDA case : case.retrieval_error # None),
      live_calls |-> Count(LAMBDA case : case.rerank_attempted),
      off_metrics |-> Metrics(cases, [i \in DOMAIN cases |-> cases[i].off]),
      on_metrics |-> IF enabled
                      THEN Metrics(cases, [i \in DOMAIN cases |-> OnRanking(cases[i])])
                      ELSE None,
      comparison |-> IF enabled THEN Comparison(cases) ELSE None,
      cases |-> cases]

\* The validators of FullRetrievalReport.
RetrievalReportIsValid(report) ==
  /\ report.sample_count = Len(RagSamples) /\ Len(report.cases) = report.sample_count
  /\ report.enabled =>
       report.comparison.wins + report.comparison.ties + report.comparison.losses
         = report.sample_count
  /\ \A i \in DOMAIN report.cases : CaseIsValid(report.cases[i])

\* A repeated OFF run may replace the OFF rankings of a paid ON run.
MayMerge(off, live) ==
  /\ ~off.enabled /\ live.enabled
  /\ off.retrieval_failures = 0 /\ live.retrieval_failures = 0
  /\ {off.cases[i].query_id : i \in DOMAIN off.cases}
       = {live.cases[i].query_id : i \in DOMAIN live.cases}
MergeReports(off, live) ==
  RetrievalReport(
    [i \in DOMAIN live.cases |->
       [live.cases[i] EXCEPT !.off =
          (CHOOSE case \in ToSet(off.cases) : case.query_id = live.cases[i].query_id).off]],
    TRUE)

----------------------------------------------------------------------------
(* The rerank smoke test: one fixed candidate order per case; a failed     *)
(* call has rank 0 and is a loss.                                          *)

SmokeReport(comparisons, calls) ==
  LET Count(Test(_)) == Cardinality({i \in DOMAIN comparisons : Test(comparisons[i])})
      succeeded == Count(LAMBDA item : item.on # 0)
  IN [live_calls |-> calls, successful |-> succeeded, failed |-> calls - succeeded,
      wins |-> Count(LAMBDA item : item.on # 0 /\ item.on < item.off),
      ties |-> Count(LAMBDA item : item.on = item.off),
      losses |-> Count(LAMBDA item : item.on = 0 \/ item.on > item.off),
      cases |-> comparisons]
SmokeReportIsValid(report, expected) ==
  /\ Len(report.cases) = expected
  /\ report.live_calls = report.successful + report.failed
  /\ report.wins + report.ties + report.losses = expected
=============================================================================
