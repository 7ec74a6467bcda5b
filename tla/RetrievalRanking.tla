-------------------------- MODULE RetrievalRanking --------------------------
(***************************************************************************)
(* From the sub-questions of one request to the sources of its prompt:     *)
(* concurrent vector searches (vector_retrieval.py,                        *)
(* retrieval_repository.py), weighted RRF fusion, duplicate control and    *)
(* reranking (retrieval_postprocessing.py, the two rerank adapters) and    *)
(* the cut to TopK (rag_prompt.py), while uploads of other clients commit. *)
(*                                                                         *)
(* Every search reads a snapshot of its own.  Of a chunk's metadata only   *)
(* the display name of its document can change under its id.  A chunk id   *)
(* is a number, compared as the code compares UUID strings; similarities   *)
(* are small numbers that depend on the text alone; equal hashes mean      *)
(* equal texts.  All query weights are 1, as the pipeline uses them.  RRF  *)
(* scores are exact multiples of 1/Scale: for two lists float addition     *)
(* commutes, and only equal pairs of ranks tie.                            *)
(***************************************************************************)
EXTENDS Integers, Sequences, FiniteSets, SequencesExt, FiniteSetsExt

CONSTANTS
  Chunks,                \* chunk ids, natural numbers
  Documents, Contents,   \* documents; chunk texts, by their hash
  Uploaded,              \* documents that clients upload again meanwhile
  DocumentOf,            \* [Chunks -> Documents]
  VersionOf,             \* [Chunks -> {1, 2}], the version a chunk belongs to
  ContentOf,             \* [Chunks -> Contents]
  Questions,             \* number of sub-questions
  MaxSimilarity,         \* similarities are 1..MaxSimilarity
  RecallBudget, RrfK, MaxChunksPerDocument, RerankCandidateLimit, ContextTopK,
  Unanswered             \* a search that has not returned

ASSUME RankingAssumption ==
  /\ Chunks \subseteq Nat /\ IsFiniteSet(Chunks)
  /\ DocumentOf \in [Chunks -> Documents]
  /\ VersionOf \in [Chunks -> {1, 2}]
  /\ ContentOf \in [Chunks -> Contents]
  /\ Uploaded \subseteq Documents
  /\ {Questions, MaxSimilarity, RecallBudget, RrfK, MaxChunksPerDocument,
      RerankCandidateLimit, ContextTopK} \subseteq Nat \ {0}
  /\ ContextTopK <= RerankCandidateLimit

Names == {"old", "new"}
Candidates == [chunk : Chunks, displayName : Names, similarity : 1..MaxSimilarity]

ASSUME UnansweredAssumption == Unanswered \notin Seq(Candidates)

Queries == 1..Questions

VARIABLES
  active,       \* the active version of each document, 0 if there is none
  building,     \* documents with a version 2 under construction
  name,         \* display_name of each document
  results,      \* what each search returned
  stage,        \* of the pipeline
  fused,        \* candidates after fusion, best first
  context,      \* candidates after reranking
  sources,      \* chunks in the prompt; citation n is sources[n]
  degradation,  \* why reranking kept the fusion order
  error,        \* why the request failed
  renamed,      \* documents renamed between two searches (history)
  republished   \* documents whose active version changed between two (history)

catalogVars == <<active, building, name, renamed, republished>>
vars == <<catalogVars, results, stage, fused, context, sources,
          degradation, error>>

Init ==
  /\ active \in [Documents -> {0, 1}]
  /\ building = {}
  /\ name = [d \in Documents |-> "old"]
  /\ results = [q \in Queries |-> Unanswered]
  /\ stage = "retrieving"
  /\ fused = <<>> /\ context = <<>> /\ sources = <<>>
  /\ degradation = "none"
  /\ error = "none"
  /\ renamed = {} /\ republished = {}

-----------------------------------------------------------------------------
(* Uploads of other clients.  Only the searches read the catalog, so it    *)
(* stops changing when they are over.                                      *)

BetweenSearches == \E q \in Queries : results[q] # Unanswered

\* The transaction that creates a building version also renames the document.
CreateBuildingVersion(d) ==
  /\ stage = "retrieving"
  /\ d \notin building
  /\ active[d] < 2
  /\ building' = building \union {d}
  /\ \E filename \in Names :
       /\ name' = [name EXCEPT ![d] = filename]
       /\ renamed' = IF BetweenSearches /\ filename # name[d]
                     THEN renamed \union {d} ELSE renamed
  /\ UNCHANGED <<active, republished, results, stage, fused, context,
                 sources, degradation, error>>

\* Activation supersedes the old version and shows the new chunks at once.
ActivateVersion(d) ==
  /\ stage = "retrieving"
  /\ d \in building
  /\ building' = building \ {d}
  /\ active' = [active EXCEPT ![d] = 2]
  /\ republished' = IF BetweenSearches THEN republished \union {d} ELSE republished
  /\ UNCHANGED <<name, renamed, results, stage, fused, context,
                 sources, degradation, error>>

-----------------------------------------------------------------------------
(* Searches                                                                *)

Retrievable == {c \in Chunks : active[DocumentOf[c]] = VersionOf[c]}

\* The LIMIT nearest retrievable chunks, given how similar each text is to the
\* question; the database orders ties as it likes.
Nearest(similarity) ==
  LET limit == Min({RecallBudget, Cardinality(Retrievable)})
      ordered == {s \in SetToSeqs(Retrievable) :
                    \A i \in 1..Len(s) - 1 :
                      similarity[ContentOf[s[i]]] >= similarity[ContentOf[s[i + 1]]]}
  IN  {SubSeq(s, 1, limit) : s \in ordered}

\* A candidate's rank is its place in the list.
Search(q) ==
  /\ stage = "retrieving"
  /\ results[q] = Unanswered
  /\ \E similarity \in [Contents -> 1..MaxSimilarity] :
       \E chunks \in Nearest(similarity) :
         results' = [results EXCEPT ![q] =
                       [rank \in DOMAIN chunks |->
                          [chunk |-> chunks[rank],
                           displayName |-> name[DocumentOf[chunks[rank]]],
                           similarity |-> similarity[ContentOf[chunks[rank]]]]]]
  /\ stage' = IF \A p \in Queries \ {q} : results[p] # Unanswered
              THEN "fusing" ELSE stage
  /\ UNCHANGED <<catalogVars, fused, context, sources, degradation, error>>

-----------------------------------------------------------------------------
(* Fusion                                                                  *)

\* Ranks of a chunk in the list of a question: one, or none.
Ranks(q, c) == {i \in DOMAIN results[q] : results[q][i].chunk = c}
Hits(c) == {q \in Queries : Ranks(q, c) # {}}
Found == {c \in Chunks : Hits(c) # {}}

Rank(q, c) == CHOOSE i \in Ranks(q, c) : TRUE
Candidate(q, c) == results[q][Rank(q, c)]

\* Mutant: similarities take part in the comparison of metadata.
CandidateMetadataWithSimilarity(q, c) == Candidate(q, c)

\* Candidates of one chunk must agree on everything but rank and distance.
CandidateMetadata(q, c) == [Candidate(q, c) EXCEPT !.similarity = 1]
MetadataConflict ==
  \E c \in Found : \E p, q \in Hits(c) : CandidateMetadata(p, c) # CandidateMetadata(q, c)

\* Lexicographic order of sort keys of one length.
Before(k, l) ==
  \E i \in DOMAIN k : k[i] < l[i] /\ \A j \in 1..i - 1 : k[j] = l[j]

Scale == FoldSet(LAMBDA r, product : product * (RrfK + r), 1, 1..RecallBudget)

\* Mutant: a later contribution replaces the score instead of adding to it.
RrfScoreReplaced(c) == Scale \div (RrfK + Rank(Max(Hits(c)), c))

RrfScore(c) == MapThenSumSet(LAMBDA q : Scale \div (RrfK + Rank(q, c)), Hits(c))

OccurrenceKey(q, c) == <<Rank(q, c), -Candidate(q, c).similarity, q>>

\* The question whose occurrence of the chunk stands for it.
BestOccurrence(c) ==
  CHOOSE q \in Hits(c) :
    \A p \in Hits(c) \ {q} : Before(OccurrenceKey(q, c), OccurrenceKey(p, c))

AggregateKey(c) ==
  <<-RrfScore(c),
    Min({Rank(q, c) : q \in Hits(c)}),
    -Max({Candidate(q, c).similarity : q \in Hits(c)}),
    BestOccurrence(c),
    c>>

\* Chunk c goes before chunk b in the order of fusion.
Beats(c, b) == Before(AggregateKey(c), AggregateKey(b))

\* The n-th chunk is the one that n - 1 others beat.
Ordered ==
  [n \in 1..Cardinality(Found) |->
     CHOOSE c \in Found : Cardinality({b \in Found : Beats(b, c)}) = n - 1]

\* Of chunks with one text the best stays.
UniqueContent(chunks) ==
  FoldLeft(LAMBDA kept, c :
             IF ContentOf[c] \in {ContentOf[b] : b \in ToSet(kept)}
             THEN kept ELSE Append(kept, c),
           <<>>, chunks)

\* The best MaxChunksPerDocument of each document stay.
WithinDocumentCap(chunks) ==
  FoldLeft(LAMBDA kept, c :
             IF Cardinality({b \in ToSet(kept) : DocumentOf[b] = DocumentOf[c]})
                  >= MaxChunksPerDocument
             THEN kept ELSE Append(kept, c),
           <<>>, chunks)

Selected ==
  LET diverse == WithinDocumentCap(UniqueContent(Ordered))
  IN  SubSeq(diverse, 1, Min({RerankCandidateLimit, Len(diverse)}))

Fuse ==
  /\ stage = "fusing"
  /\ ~MetadataConflict
  /\ fused' = Selected
  /\ stage' = IF Selected = <<>> THEN "no_context" ELSE "reranking"
  /\ UNCHANGED <<catalogVars, results, context, sources, degradation, error>>

\* Not retryable: the whole request fails.
FuseRefuses ==
  /\ stage = "fusing"
  /\ MetadataConflict
  /\ stage' = "failed"
  /\ error' = "result_protocol"
  /\ UNCHANGED <<catalogVars, results, fused, context, sources, degradation>>

-----------------------------------------------------------------------------
(* Reranking.  A reply lists 0-based indexes of candidates, with scores    *)
(* that are in range and do not increase, or are not.                      *)

TopN == Min({ContextTopK, Len(fused)})

Replies ==
  [indexes : UNION {[1..n -> -1..Len(fused)] : n \in {TopN, TopN + 1}},
   scoresInOrder : BOOLEAN]

\* What DashScopeRerankModel lets through.
ValidReply(reply) ==
  /\ Len(reply.indexes) = TopN
  /\ \A i, j \in DOMAIN reply.indexes :
       i # j => reply.indexes[i] # reply.indexes[j]
  /\ \A i \in DOMAIN reply.indexes : reply.indexes[i] \in 0..Len(fused) - 1
  /\ reply.scoresInOrder

\* Mutant: the fallback forgets the cut.
FusionOrderUncut == fused

\* The fusion order is kept, cut to what was asked for.
FusionOrder == SubSeq(fused, 1, TopN)

RerankReturns(chunks, reason) ==
  /\ stage = "reranking"
  /\ context' = chunks
  /\ degradation' = reason
  /\ stage' = "prompting"
  /\ UNCHANGED <<catalogVars, results, fused, sources, error>>

Reranked ==
  /\ stage = "reranking"
  /\ \E reply \in Replies :
       \/ /\ ValidReply(reply)
          /\ RerankReturns([i \in DOMAIN reply.indexes |-> fused[reply.indexes[i] + 1]],
                           "none")
       \/ /\ ~ValidReply(reply)
          /\ RerankReturns(FusionOrder, "protocol")

\* NoOpRerankModel; a failing provider; the timeout of the reranking itself.
RerankDegrades ==
  \E reason \in {"disabled", "provider_unavailable", "timeout"} :
    RerankReturns(FusionOrder, reason)

-----------------------------------------------------------------------------
(* Prompt, failures, end                                                   *)

BuildPrompt ==
  /\ stage = "prompting"
  /\ sources' = SubSeq(context, 1, Min({ContextTopK, Len(context)}))
  /\ stage' = "generating"
  /\ UNCHANGED <<catalogVars, results, fused, context, degradation, error>>

\* A search fails, or the deadline of the request passes at an await.
Fail(reason) ==
  /\ stage = "retrieving" \/ (stage = "reranking" /\ reason = "global_timeout")
  /\ stage' = "failed"
  /\ error' = reason
  /\ UNCHANGED <<catalogVars, results, fused, context, sources, degradation>>

Ended == stage \in {"generating", "no_context", "failed"} /\ UNCHANGED vars

Next ==
  \/ \E d \in Uploaded : CreateBuildingVersion(d) \/ ActivateVersion(d)
  \/ \E q \in Queries : Search(q)
  \/ Fuse \/ FuseRefuses
  \/ Reranked \/ RerankDegrades
  \/ BuildPrompt
  \/ \E reason \in {"retrieval_failure", "global_timeout"} : Fail(reason)
  \/ Ended

Spec == Init /\ [][Next]_vars

-----------------------------------------------------------------------------
(* Properties                                                              *)

\* Reference for the duplicate control of fuse(), without its loops: a chunk
\* represents its text when none with that text beats it; it is kept when fewer
\* representatives of its document than the cap beat it; and it is a candidate
\* when fewer kept chunks than the limit beat it.  In particular a dropped
\* duplicate uses up no place of its document, and a capped chunk no place of
\* the candidate limit.
SelectionMatchesReference ==
  stage = "reranking" =>
    LET representatives ==
          {c \in Found : ~\E b \in Found : ContentOf[b] = ContentOf[c] /\ Beats(b, c)}
        kept ==
          {c \in representatives :
             Cardinality({b \in representatives :
                            DocumentOf[b] = DocumentOf[c] /\ Beats(b, c)})
               < MaxChunksPerDocument}
        candidates ==
          {c \in kept : Cardinality({b \in kept : Beats(b, c)}) < RerankCandidateLimit}
    IN  /\ ToSet(fused) = candidates
        /\ \A i, j \in DOMAIN fused : i < j => Beats(fused[i], fused[j])

\* A chunk that every search which found b ranks higher than b is not behind b:
\* it is a better candidate, or its text is one already, or the document of the
\* chunk that stands for its text has all the places it may have.
BetterEverywhereComesFirst ==
  stage = "reranking" =>
    \A i \in DOMAIN fused : \A c \in Found :
      (\A q \in Hits(fused[i]) : q \in Hits(c) /\ Rank(q, c) < Rank(q, fused[i])) =>
      LET better == {fused[j] : j \in 1..i - 1}
      IN  \E r \in Found :
            /\ ContentOf[r] = ContentOf[c]
            /\ \/ r \in better
               \/ Cardinality({b \in better : DocumentOf[b] = DocumentOf[r]})
                    = MaxChunksPerDocument

\* Fusion selects what the reference does, and a chunk ranked better everywhere
\* never loses to a worse one.
FusionIsCorrect == SelectionMatchesReference /\ BetterEverywhereComesFirst

\* Whatever the provider answers, reranking passes on as many distinct
\* candidates as it was asked for; when it degrades, the best ones in fusion order.
RerankKeepsTheSelection ==
  stage \in {"prompting", "generating"} =>
    /\ Len(context) = Min({ContextTopK, Len(fused)})
    /\ Cardinality(ToSet(context)) = Len(context)
    /\ ToSet(context) \subseteq ToSet(fused)
    /\ degradation # "none" => IsPrefix(context, fused)

\* The searches of one request disagree only because of an upload that
\* committed between two of them: fusion refuses the results as inconsistent
\* only when a document was renamed (ranks and distances, which differ from
\* question to question, are no reason), and the candidates mix two versions
\* of one document only when its new version was activated.
DisagreementsHaveACause ==
  /\ error = "result_protocol" => renamed # {}
  /\ \A b, c \in ToSet(fused) :
       DocumentOf[b] = DocumentOf[c] /\ VersionOf[b] # VersionOf[c]
         => DocumentOf[b] \in republished
=============================================================================
