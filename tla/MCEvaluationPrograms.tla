----------------------- MODULE MCEvaluationPrograms -----------------------
(* A small instance of EvaluationPrograms for TLC.                          *)
EXTENDS EvaluationPrograms, TLC

MCDataset == <<"g1", "f1", "f2", "e1">>
MCDevelopmentIds == <<"f1", "e1">>
MCChallengeIds == <<"c1", "c2">>
MCRagIds == {"f1", "g1", "c1"}
MCIntentL1 == [id \in {"g1", "f1", "f2", "e1", "c1", "c2"} |->
                 IF id \in {"g1", "f1", "c1"} THEN "SUPPORT" ELSE "CHAT"]
MCBaselineFailures == {"f1", "f2"}
MCLimits == [failure_rag_correct |-> 1, failure_no_rag_correct |-> 0, guard_correct |-> 1,
             full_overall_correct |-> 2, full_rag_correct |-> 2, full_no_rag_correct |-> 0]
MCManifest == [failures |-> <<"f1", "f2">>, guards |-> <<"g1">>]
\* The staged program is also started with a manifest that drifted from the
\* baseline, the candidate program with another configuration.
MCExperiments ==
  [staged |-> {[configuration |-> "v3", manifest |-> MCManifest],
               [configuration |-> "v3",
                manifest |-> [failures |-> <<"f1", "g1">>, guards |-> <<"f2">>]]},
   candidate |-> {[configuration |-> c, manifest |-> MCManifest] : c \in {"v4", "v5"}},
   full |-> {[configuration |-> "m5c", manifest |-> MCManifest]}]
MCMaxStarts == [staged |-> 4, candidate |-> 3, full |-> 2]
Symmetry == Permutations(Processes)
\* Direct, knowledge base, and a tie within the margin.
MCReplies == [staged |-> {<<9, 1, 0>>, <<1, 9, 0>>, <<8, 7, 0>>},
              candidate |-> {<<9, 1, 0>>, <<1, 9, 0>>, <<8, 7, 0>>},
              full |-> {<<1, 9, 0>>}]

MCRagSamples == <<"q1", "q2">>
MCRequired == [q1 |-> {"a"}, q2 |-> {"a", "b"}]
MCCorpus == <<"a", "b">>
MCSnapshots == {[a |-> "h1", b |-> "h1"], [a |-> "h2", b |-> "h1"]}
MCAnswers == [q1 |-> {<<>>, <<"c", "a", "b">>}, q2 |-> {<<"b", "b", "a">>}]
MCSmokeCases == <<[candidates |-> <<"x", "y">>, relevant |-> {"x"}],
                  [candidates |-> <<"x", "z", "y">>, relevant |-> {"y", "z"}]>>
============================================================================
