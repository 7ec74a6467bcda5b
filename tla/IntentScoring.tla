--------------------------- MODULE IntentScoring ---------------------------
(***************************************************************************)
(* The scoring of the intent evaluations: the routing policy               *)
(* (domain/models/intent.py), stage membership, gates and reports of the   *)
(* staged experiment (evaluation/staged_intent.py) and of the focused      *)
(* candidate validation (evaluation/candidate_intent_validation.py), the   *)
(* full report, its threshold replay and the failure taxonomy              *)
(* (evaluation/full_intent.py, evaluation/intent_failure_analysis.py).     *)
(*                                                                         *)
(* A sample is its query id; scores are small integers; the sizes and the  *)
(* gate limits that the code writes as literals are constants; fractions,  *)
(* latencies, token counts and texts are left out.                         *)
(***************************************************************************)
EXTENDS Integers, Sequences, FiniteSets, SequencesExt, FiniteSetsExt

CONSTANTS
  Dataset,              \* query ids of the fixed dataset, in its order
  DevelopmentIds,       \* the dataset's ids probed by the candidate validation
  ChallengeIds,         \* ids of the challenge samples, outside the dataset
  RagIds,               \* ids whose sample has requires_rag
  IntentL1,             \* [ids -> labels]: the L1 intent; of the candidate validation, the slice
  BaselineFailures,     \* ids the committed baseline report has wrong
  FailureCases,         \* EXPECTED_FAILURE_CASES
  GuardCases,           \* EXPECTED_GUARD_CASES
  Limits,               \* required counts of the staged gates, by check name
  HighConfidenceThreshold,
  AmbiguityMargin

Routes == <<"system_direct", "knowledge_base", "clarification">>
AllIds == ToSet(Dataset) \cup ToSet(ChallengeIds)

ASSUME ScoringAssumption ==
  /\ \A ids \in {Dataset, DevelopmentIds, ChallengeIds} : ids \in Seq(ToSet(ids))
  /\ IsInjective(Dataset) /\ IsInjective(ChallengeIds)
  /\ IsInjective(DevelopmentIds) /\ ToSet(DevelopmentIds) \subseteq ToSet(Dataset)
  /\ ToSet(Dataset) \cap ToSet(ChallengeIds) = {}
  /\ RagIds \subseteq AllIds /\ DOMAIN IntentL1 = AllIds
  /\ BaselineFailures \subseteq ToSet(Dataset)
  /\ FailureCases \in Nat \ {0}
  /\ Limits \in [{"failure_rag_correct", "failure_no_rag_correct", "guard_correct",
                 "full_overall_correct", "full_rag_correct", "full_no_rag_correct"} -> Nat]
  /\ {HighConfidenceThreshold, AmbiguityMargin} \subseteq Nat

\* The failures, the development probes and the challenges each have questions for
\* the knowledge base and questions for a direct answer (the manifest validators).
ASSUME RoutesAssumption ==
  \A ids \in {BaselineFailures, ToSet(DevelopmentIds), ToSet(ChallengeIds)} :
    ids \cap RagIds # {} /\ ids \ RagIds # {}

ExpectedRoute(id) == IF id \in RagIds THEN "knowledge_base" ELSE "system_direct"

----------------------------------------------------------------------------
(* Routing.                                                                *)

\* The order of candidates: higher score first, then the order of the routes.
RanksBefore(scores, i, j) ==
  \/ scores[i] > scores[j]
  \/ scores[i] = scores[j] /\ i < j

\* scores[i] is the score of Routes[i]; the verdict is a route and a reason.
SelectIntentRoute(scores, threshold, margin) ==
  LET top    == CHOOSE i \in 1..3 : \A j \in (1..3) \ {i} : RanksBefore(scores, i, j)
      second == CHOOSE i \in (1..3) \ {top} :
                  \A j \in (1..3) \ {top, i} : RanksBefore(scores, i, j)
  IN CASE scores[top] < threshold                -> <<"clarification", "low_confidence">>
       [] /\ scores[top] >= threshold
          /\ scores[top] - scores[second] < margin -> <<"clarification", "ambiguous">>
       [] OTHER -> <<Routes[top], IF top = 3 THEN "explicit_clarification"
                                             ELSE "high_confidence">>

\* A success: the scores are kept so that other thresholds can be replayed.
CaseResult(id, scores, threshold, margin) ==
  LET verdict == SelectIntentRoute(scores, threshold, margin)
  IN [query_id |-> id, scores |-> scores, route |-> verdict[1], reason |-> verdict[2]]

Correct(case) == case.route = ExpectedRoute(case.query_id)
\* Mutant: every wrong verdict on a knowledge base question counts.
NotRetrieved(case) ==
  ExpectedRoute(case.query_id) = "knowledge_base" /\ case.route # "knowledge_base"
UnderRetrieval(case) ==
  ExpectedRoute(case.query_id) = "knowledge_base" /\ case.route = "system_direct"
OverRetrieval(case) ==
  ExpectedRoute(case.query_id) = "system_direct" /\ case.route = "knowledge_base"
Clarification(case) == case.route = "clarification"

CountOf(cases, Test(_)) == Cardinality({i \in DOMAIN cases : Test(cases[i])})
\* A slice of some cases: the positions of those with one expected route.
WithRoute(cases, route) == {i \in DOMAIN cases : ExpectedRoute(cases[i].query_id) = route}
QueryIds(cases) == [i \in DOMAIN cases |-> cases[i].query_id]

SliceMetrics(cases, slice) ==
  [sample_count |-> Cardinality(slice),
   correct_count |-> Cardinality({i \in slice : Correct(cases[i])})]
SliceIsValid(slice) ==
  slice.sample_count >= 1 /\ slice.correct_count <= slice.sample_count

----------------------------------------------------------------------------
(* Stages.                                                                 *)

StagedStages == {"failures", "guard", "full"}
CandidateStages == {"development", "challenge"}

\* A manifest is valid while it still matches the committed baseline.
ManifestIsValid(manifest) ==
  /\ Len(manifest.failures) = FailureCases /\ Len(manifest.guards) = GuardCases
  /\ IsInjective(manifest.failures \o manifest.guards)
  /\ ToSet(manifest.failures) = BaselineFailures
  /\ ToSet(manifest.guards) \subseteq ToSet(Dataset) \ BaselineFailures

StageIds(stage, manifest) ==
  CASE stage = "failures"    -> manifest.failures
    [] stage = "guard"       -> manifest.failures \o manifest.guards
    [] stage = "full"        -> Dataset
    [] stage = "development" -> DevelopmentIds
    [] stage = "challenge"   -> ChallengeIds

CompletedIds(cache) == {cache.completed[i].query_id : i \in DOMAIN cache.completed}

\* The positions in a stage of the ids that are not yet paid for.
Pending(stage, manifest, cache) ==
  LET ids == StageIds(stage, manifest)
  IN {i \in DOMAIN ids : ids[i] \notin CompletedIds(cache)}

\* The cached cases of some ids, in the order of the ids.
CachedCases(ids, cache) ==
  [i \in DOMAIN ids |->
     CHOOSE case \in ToSet(cache.completed) : case.query_id = ids[i]]

\* Only successes with their scores are completed, one for each id.
CacheShapeIsValid(cache) ==
  /\ IsInjective(QueryIds(cache.completed))
  /\ \A i \in DOMAIN cache.completed : cache.completed[i].scores # <<>>

\* Labels come from the dataset in this model, so only the ids can be wrong.
CacheIsValid(cache, ids) ==
  /\ CacheShapeIsValid(cache)
  /\ CompletedIds(cache) \subseteq ids
  /\ ToSet(cache.failed) \subseteq ids

----------------------------------------------------------------------------
(* Gates: sets of integer checks, all of which must pass.                  *)

GateCheck(name, comparison, actual, required) ==
  [name |-> name, required |-> required, actual |-> actual,
   passed |-> CASE comparison = "eq"  -> actual = required
                [] comparison = "gte" -> actual >= required
                [] comparison = "gt"  -> actual > required]

Gate(checks) == [passed |-> \A check \in checks : check.passed, checks |-> checks]

StageGate(stage, cases, manifest) ==
  LET all       == DOMAIN cases
      Of(ids)   == {i \in all : cases[i].query_id \in ToSet(ids)}
      failures  == Of(manifest.failures)
      guards    == Of(manifest.guards)
      rag       == {i \in all : ExpectedRoute(cases[i].query_id) = "knowledge_base"}
      direct    == {i \in all : ExpectedRoute(cases[i].query_id) = "system_direct"}
      Right(group) == Cardinality({i \in group : Correct(cases[i])})
      AtLeast(name, group) == GateCheck(name, "gte", Right(group), Limits[name])
      MoreThan(name, group) == GateCheck(name, "gt", Right(group), Limits[name])
      NoneMissed(name, group) ==
        GateCheck(name, "eq", Cardinality({i \in group : UnderRetrieval(cases[i])}), 0)
  IN Gate(
       {AtLeast("failure_rag_correct", failures \cap rag),
        AtLeast("failure_no_rag_correct", failures \cap direct),
        NoneMissed("failure_under_retrieval", failures)}
       \cup (IF stage \in {"guard", "full"}
             THEN {AtLeast("guard_correct", guards),
                   NoneMissed("guard_under_retrieval", guards)}
             ELSE {})
       \cup (IF stage = "full"
             THEN {MoreThan("full_overall_correct", all),
                   AtLeast("full_rag_correct", rag),
                   MoreThan("full_no_rag_correct", direct),
                   NoneMissed("full_under_retrieval", all)}
             ELSE {}))

CandidateGate(cases) ==
  Gate({GateCheck("all_routes_correct", "eq", CountOf(cases, Correct), Len(cases)),
        GateCheck("under_retrieval", "eq", CountOf(cases, UnderRetrieval), 0),
        GateCheck("over_retrieval", "eq", CountOf(cases, OverRetrieval), 0),
        GateCheck("clarification", "eq", CountOf(cases, Clarification), 0)})

GateOf(stage, cases, manifest) ==
  IF stage \in CandidateStages THEN CandidateGate(cases)
                               ELSE StageGate(stage, cases, manifest)

\* Every id is cached and the gate over those cases passes.
GatePassed(stage, manifest, cache) ==
  LET ids == StageIds(stage, manifest)
  IN /\ ToSet(ids) \subseteq CompletedIds(cache)
     /\ GateOf(stage, CachedCases(ids, cache), manifest).passed

\* Mutant: the full run asks for the failure gate alone.
StageUnlockedByFailures(stage, manifest, cache) ==
  stage # "failures" => GatePassed("failures", manifest, cache)

StageUnlocked(stage, manifest, cache) ==
  /\ stage \in {"guard", "full"} => GatePassed("failures", manifest, cache)
  /\ stage = "full" => GatePassed("guard", manifest, cache)

CandidateStageUnlocked(stage, manifest, cache) ==
  stage = "challenge" => GatePassed("development", manifest, cache)

----------------------------------------------------------------------------
(* Reports.                                                                *)

ByIntentL1(cases) ==
  [label \in {IntentL1[cases[i].query_id] : i \in DOMAIN cases} |->
     SliceMetrics(cases, {i \in DOMAIN cases : IntentL1[cases[i].query_id] = label})]
SampleCounts(slices) == [label \in DOMAIN slices |-> slices[label].sample_count]

StageReport(stage, manifest, cache, total, before, new) ==
  LET cases == CachedCases(StageIds(stage, manifest), cache)
  IN [stage |-> stage, target |-> Len(cases), cached_before |-> before, new_calls |-> new,
      total_cached |-> Len(cache.completed), failed |-> Len(cache.failed),
      remaining |-> total - Len(cache.completed),
      overall |-> SliceMetrics(cases, DOMAIN cases),
      rag |-> SliceMetrics(cases, WithRoute(cases, "knowledge_base")),
      no_rag |-> SliceMetrics(cases, WithRoute(cases, "system_direct")),
      by_intent_l1 |-> ByIntentL1(cases),
      under |-> CountOf(cases, UnderRetrieval), over |-> CountOf(cases, OverRetrieval),
      clarification |-> CountOf(cases, Clarification),
      gate |-> GateOf(stage, cases, manifest), cases |-> cases]

\* The validators of the two stage reports; one that fails is not written.
StageCountsAreValid(report, total) ==
  /\ report.target = Len(report.cases)
  /\ report.cached_before + report.new_calls = report.target
  /\ report.remaining = total - report.total_cached /\ report.remaining >= 0
  /\ SumFunction(SampleCounts(report.by_intent_l1)) = Len(report.cases)
  /\ \A slice \in {report.overall, report.rag, report.no_rag} : SliceIsValid(slice)
StageReportIsValid(report, total) ==
  StageCountsAreValid(report, total) /\ report.total_cached >= report.target
CandidateReportIsValid(report, total) == StageCountsAreValid(report, total)

Confusion(cases) ==
  [pair \in ToSet(Routes) \X ToSet(Routes) |->
     CountOf(cases, LAMBDA case : <<ExpectedRoute(case.query_id), case.route>> = pair)]

\* A sequence of all samples' cases in the order of the dataset.
IsCompleteSequence(cases) == QueryIds(cases) = Dataset

FullReport(cases, threshold, margin) ==
  [threshold |-> threshold, margin |-> margin, sample_count |-> Len(cases),
   overall |-> SliceMetrics(cases, DOMAIN cases),
   rag |-> SliceMetrics(cases, WithRoute(cases, "knowledge_base")),
   no_rag |-> SliceMetrics(cases, WithRoute(cases, "system_direct")),
   by_intent_l1 |-> ByIntentL1(cases), confusion |-> Confusion(cases), cases |-> cases]

FullReportIsValid(report) ==
  /\ report.sample_count = Len(Dataset) /\ Len(report.cases) = report.sample_count
  /\ report.rag.sample_count = Cardinality(RagIds \cap ToSet(Dataset))
  /\ report.no_rag.sample_count = Cardinality(ToSet(Dataset) \ RagIds)
  /\ SumFunction(SampleCounts(report.by_intent_l1)) = report.sample_count
  /\ SumFunction(report.confusion) = report.sample_count
  /\ \A slice \in {report.overall, report.rag, report.no_rag} : SliceIsValid(slice)

\* The same paid scores under other thresholds.
ReplayThresholds(report, threshold, margin) ==
  FullReport(
    [i \in DOMAIN report.cases |->
       CaseResult(report.cases[i].query_id, report.cases[i].scores, threshold, margin)],
    threshold, margin)

----------------------------------------------------------------------------
(* Failure taxonomy of a full report.                                      *)

BucketKey(case) ==
  <<IntentL1[case.query_id], ExpectedRoute(case.query_id), case.route, case.reason>>

\* collections.Counter: how often each value is taken.
CountsBy(key) ==
  [value \in {key[i] : i \in DOMAIN key} |-> Cardinality({i \in DOMAIN key : key[i] = value})]

FailureAnalysis(report) ==
  LET cases  == report.cases
      wrong  == {i \in DOMAIN cases : ~Correct(cases[i])}
      Bucket(key) == {i \in wrong : BucketKey(cases[i]) = key}
  IN [sample_count |-> report.sample_count,
      correct_count |-> report.overall.correct_count,
      incorrect_count |-> Cardinality(wrong),
      over |-> Cardinality({i \in wrong : OverRetrieval(cases[i])}),
      under |-> Cardinality({i \in wrong : UnderRetrieval(cases[i])}),
      clarification |-> Cardinality({i \in wrong : Clarification(cases[i])}),
      by_intent_l1 |-> CountsBy([i \in wrong |-> IntentL1[cases[i].query_id]]),
      by_reason |-> CountsBy([i \in wrong |-> cases[i].reason]),
      buckets |-> [key \in {BucketKey(cases[i]) : i \in wrong} |->
                     [sample_count |-> Cardinality(Bucket(key)),
                      query_ids |-> {cases[i].query_id : i \in Bucket(key)}]]]

AnalysisIsValid(analysis) ==
  /\ analysis.correct_count + analysis.incorrect_count = analysis.sample_count
  /\ SumFunction(analysis.by_intent_l1) = analysis.incorrect_count
  /\ SumFunction(analysis.by_reason) = analysis.incorrect_count
  /\ SumFunction(SampleCounts(analysis.buckets)) = analysis.incorrect_count
  /\ \A key \in DOMAIN analysis.buckets :
       LET bucket == analysis.buckets[key]
       IN bucket.sample_count >= 1 /\ Cardinality(bucket.query_ids) = bucket.sample_count
  /\ \A one, other \in DOMAIN analysis.buckets :
       one # other => analysis.buckets[one].query_ids \cap analysis.buckets[other].query_ids = {}
=============================================================================
