------------------------- MODULE ChatPipelineProofs -------------------------
(***************************************************************************)
(* Three properties of ChatPipeline for any number of sub-questions,       *)
(* content events, cancellations and failing calls.  They are not          *)
(* inductive, because a frame is judged by the frames before it: WireShape *)
(* says at every place of the stack what the client has received so far.   *)
(***************************************************************************)
EXTENDS ChatPipeline, FiniteSetTheorems, SequenceTheorems, TLAPS

\* Where the stack is, a frame it waits to get rid of left aside.
Place == IF at = "sending" THEN resume ELSE at

BeforeRetrieval ==
  {"begin_run", "load_memory", "rewriting", "intent", "guidance", "clarified", "resolving"}
InRetrieval == {"retrieving", "draining"}
AfterRetrieval ==
  {"fusing", "no_context", "reranking", "prompting", "generating", "sourced", "answered"}
Unsettled == BeforeRetrieval \cup InRetrieval \cup AfterRetrieval \cup {"completing"}
Leaving == {"failing", "cancelling", "error_done"}
Places == Unsettled \cup Leaving \cup {"refreshing", "ended"}

\* Code that is reached through a frame.
Resumptions ==
  {"load_memory", "rewriting", "intent", "guidance", "clarified", "resolving", "retrieving"}
    \cup AfterRetrieval \cup {"error_done", "ended"}

Outcomes == {"completed", "no_context", "clarification"}

-----------------------------------------------------------------------------
(* The shape of a request                                                  *)

PlaceTypes ==
  /\ at \in Places \cup {"sending"}
  /\ resume \in Resumptions
  /\ clock \in {"unset", "running", "passed"}
  /\ cancels \in Nat
  /\ faults \in Nat

\* The route is decided before it is taken.
RouteShape ==
  /\ Place \in {"resolving", "retrieving", "draining", "fusing", "no_context", "reranking",
                "prompting", "sourced"} => route # "system_direct"

SearchesAre(S) == \A q \in Questions : search[q] \in S

\* Searches run in retrieval only, and a stopped one is collected before
\* anything else happens.
SearchShape ==
  /\ search \in [Questions -> {"idle", "running", "stopping", "done"}]
  /\ at \in BeforeRetrieval => SearchesAre({"idle"})
  /\ at = "sending" /\ resume \in BeforeRetrieval \cup {"retrieving"} => SearchesAre({"idle"})
  /\ at = "retrieving" => SearchesAre({"idle", "running", "done"})
  /\ at = "draining" =>
       /\ SearchesAre({"idle", "stopping", "done"})
       /\ unwinding \in {"error", "timeout", "cancel"}
       /\ unwinding = "timeout" => clock = "passed"
       /\ unwinding = "cancel" => cancels > 0
  /\ at \notin InRetrieval =>
       \/ SearchesAre({"idle", "done"})
       \/ cancels > 1
       \/ cancels = 1 /\ clock = "passed"

\* What the run row says, if nothing failed and nothing was cancelled.
RunShape ==
  /\ Place \in {"completing", "refreshing"} => outcome \in Outcomes
  /\ Place = "refreshing" => run = outcome
  /\ Place = "cancelling" => cancels > 0
  /\ Place = "begin_run" => run = "none"
  /\ Place \in (Unsettled \ {"begin_run"}) \cup {"failing"} =>
       run = "running" \/ cancels > 0 \/ faults > 0
  /\ Place = "error_done" => run = "failed" \/ cancels > 0 \/ faults > 0

-----------------------------------------------------------------------------
(* What the client has received                                            *)

\* The two streams without an answer, before their done event.
NoContext == Opening \o <<"retrieving", "fusing", "no_context">>
Guided == Opening \o <<"clarification", "guidance">>

\* The frames before the first delta of an answer from the knowledge base,
\* and of a direct one.
Grounded == Opening \o <<"retrieving", "fusing", "reranking", "prompting", "generating">>
Direct == Opening \o <<"generating">>
Begun == IF route = "system_direct" THEN Direct ELSE Grounded

\* The whole answer before its done event.
GroundedAnswer(n) == Grounded \o Contents(n) \o <<"sources", "completed">>
DirectAnswer(n) == Direct \o Contents(n) \o <<"completed">>
Answer(n) == IF route = "system_direct" THEN DirectAnswer(n) ELSE GroundedAnswer(n)

OpeningShape ==
  /\ Place = "begin_run" => wire = <<>>
  /\ Place = "load_memory" => wire = <<"reply_to">>
  /\ Place = "rewriting" => wire = <<"reply_to", "rewriting">>
  /\ Place = "intent" => wire = Opening
  /\ Place = "guidance" => wire = Opening \o <<"clarification">>
  /\ Place = "clarified" => wire = Guided

SearchingShape ==
  /\ Place \in {"resolving", "retrieving", "draining"} => wire = Opening \o <<"retrieving">>
  /\ Place = "fusing" => wire = Opening \o <<"retrieving", "fusing">>
  /\ Place = "no_context" => wire = NoContext
  /\ Place = "reranking" => wire = Opening \o <<"retrieving", "fusing", "reranking">>
  /\ Place = "prompting" =>
       wire = Opening \o <<"retrieving", "fusing", "reranking", "prompting">>

AnswerShape ==
  /\ Place = "generating" => \E n \in 0..MaxChunks : wire = Begun \o Contents(n)
  /\ Place = "sourced" =>
       \E n \in 0..MaxChunks : wire = Grounded \o Contents(n) \o <<"sources">>
  /\ Place = "answered" => \E n \in 0..MaxChunks : wire = Answer(n)

OutcomeShape ==
  Place \in {"completing", "refreshing"} =>
    /\ outcome = "clarification" => wire = Guided
    /\ outcome = "no_context" => wire = NoContext
    /\ outcome = "completed" => \E n \in 0..MaxChunks : wire = Answer(n)

\* The frames of a stream without its end.
Unfinished(frames) ==
  \E stream \in Contract : \E k \in 0..Len(stream) - 1 : frames = SubSeq(stream, 1, k)

LeavingShape ==
  /\ Place \in {"failing", "cancelling"} => Unfinished(wire)
  /\ Place = "error_done" => \E told : Unfinished(told) /\ wire = Append(told, "error")

WireShape == OpeningShape /\ SearchingShape /\ AnswerShape /\ OutcomeShape /\ LeavingShape

\* Only a request that is over has a terminal frame.
EndShape == Place = "ended" => WireFollowsContract /\ DoneTellsTheRun

IInv == PlaceTypes /\ RouteShape /\ SearchShape /\ RunShape /\ WireShape /\ EndShape

-----------------------------------------------------------------------------
(* Sequences of frames                                                     *)

\* What a stream reports before it ends, and how it may end.
Reports ==
  {"reply_to", "rewriting", "intent", "clarification", "guidance", "retrieving", "fusing",
   "no_context", "reranking", "prompting", "generating", "content", "sources", "completed"}
Endings == {"done_completed", "done_no_context", "done_clarification"}
Frames == Reports \cup Endings \cup {"error", "done_error"}

LEMMA Append0 ==
  ASSUME NEW a \in Frames
  PROVE  Append(<<>>, a) = <<a>>
<1>1. <<>> \in Seq(Frames) /\ <<a>> \in Seq(Frames)
  OBVIOUS
<1>2. /\ Append(<<>>, a) \in Seq(Frames)
      /\ Len(Append(<<>>, a)) = 1
      /\ \A i \in 1..1 : Append(<<>>, a)[i] = <<a>>[i]
  BY <1>1, AppendProperties
<1> QED
  BY <1>1, <1>2, SeqEqual

LEMMA Append1 ==
  ASSUME NEW a \in Frames, NEW b \in Frames
  PROVE  Append(<<a>>, b) = <<a, b>>
<1>1. <<a>> \in Seq(Frames) /\ <<a, b>> \in Seq(Frames)
  OBVIOUS
<1>2. /\ Append(<<a>>, b) \in Seq(Frames)
      /\ Len(Append(<<a>>, b)) = 2
      /\ \A i \in 1..2 : Append(<<a>>, b)[i] = <<a, b>>[i]
  BY <1>1, AppendProperties
<1> QED
  BY <1>1, <1>2, SeqEqual

LEMMA Append2 ==
  ASSUME NEW a \in Frames, NEW b \in Frames, NEW c \in Frames
  PROVE  Append(<<a, b>>, c) = <<a, b, c>>
<1>1. <<a, b>> \in Seq(Frames) /\ <<a, b, c>> \in Seq(Frames)
  OBVIOUS
<1>2. /\ Append(<<a, b>>, c) \in Seq(Frames)
      /\ Len(Append(<<a, b>>, c)) = 3
      /\ \A i \in 1..3 : Append(<<a, b>>, c)[i] = <<a, b, c>>[i]
  BY <1>1, AppendProperties
<1> QED
  BY <1>1, <1>2, SeqEqual

LEMMA Append3 ==
  ASSUME NEW a \in Frames, NEW b \in Frames, NEW c \in Frames, NEW d \in Frames
  PROVE  Append(<<a, b, c>>, d) = <<a, b, c, d>>
<1>1. <<a, b, c>> \in Seq(Frames) /\ <<a, b, c, d>> \in Seq(Frames)
  OBVIOUS
<1>2. /\ Append(<<a, b, c>>, d) \in Seq(Frames)
      /\ Len(Append(<<a, b, c>>, d)) = 4
      /\ \A i \in 1..4 : Append(<<a, b, c>>, d)[i] = <<a, b, c, d>>[i]
  BY <1>1, AppendProperties
<1> QED
  BY <1>1, <1>2, SeqEqual

LEMMA Append4 ==
  ASSUME NEW a \in Frames, NEW b \in Frames, NEW c \in Frames, NEW d \in Frames,
         NEW e \in Frames
  PROVE  Append(<<a, b, c, d>>, e) = <<a, b, c, d, e>>
<1>1. <<a, b, c, d>> \in Seq(Frames) /\ <<a, b, c, d, e>> \in Seq(Frames)
  OBVIOUS
<1>2. /\ Append(<<a, b, c, d>>, e) \in Seq(Frames)
      /\ Len(Append(<<a, b, c, d>>, e)) = 5
      /\ \A i \in 1..5 : Append(<<a, b, c, d>>, e)[i] = <<a, b, c, d, e>>[i]
  BY <1>1, AppendProperties
<1> QED
  BY <1>1, <1>2, SeqEqual

\* Appending to a concatenation appends to its second half.
LEMMA AppendToConcat ==
  ASSUME NEW s \in Seq(Frames), NEW t \in Seq(Frames), NEW a \in Frames
  PROVE  Append(s \o t, a) = s \o Append(t, a)
<1>1. s \o t \in Seq(Frames)
  BY ConcatProperties
<1>2. Append(s \o t, a) = (s \o t) \o <<a>>
  BY <1>1, AppendIsConcat
<1>3. Append(t, a) = t \o <<a>>
  BY AppendIsConcat
<1>4. <<a>> \in Seq(Frames)
  OBVIOUS
<1>5. (s \o t) \o <<a>> = s \o (t \o <<a>>)
  BY <1>4, ConcatAssociative
<1> QED
  BY <1>2, <1>3, <1>5, Zenon

LEMMA ContentsAreReports ==
  ASSUME NEW n \in Nat
  PROVE  Contents(n) \in Seq(Reports) /\ Len(Contents(n)) = n
<1>1. Contents(n) \in [1..n -> Reports]
  BY DEF Contents, Reports
<1>2. \A f : f \in [1..n -> Reports] => f \in Seq(Reports)
  BY SeqDef
<1>3. Contents(n) \in Seq(Reports)
  BY <1>1, <1>2, Zenon
<1>4. Len(Contents(n)) = n
  BY <1>1, <1>3, LenProperties
<1> QED
  BY <1>3, <1>4

LEMMA ReportsAreFrames ==
  /\ Reports \subseteq Frames
  /\ \A s \in Seq(Reports) : s \in Seq(Frames)
<1>1. Reports \subseteq Frames
  BY DEF Frames
<1> QED
  BY <1>1, SeqMonotonic

LEMMA MoreContents ==
  ASSUME NEW n \in Nat
  PROVE  Append(Contents(n), "content") = Contents(n + 1)
<1>1. "content" \in Reports
  BY DEF Reports
<1>2. /\ Contents(n) \in Seq(Reports) /\ Len(Contents(n)) = n
      /\ Contents(n + 1) \in Seq(Reports) /\ Len(Contents(n + 1)) = n + 1
  BY ContentsAreReports
<1>3. /\ Append(Contents(n), "content") \in Seq(Reports)
      /\ Len(Append(Contents(n), "content")) = n + 1
      /\ \A i \in 1..n : Append(Contents(n), "content")[i] = Contents(n)[i]
      /\ Append(Contents(n), "content")[n + 1] = "content"
  BY <1>1, <1>2, AppendProperties
<1>4. \A i \in 1..n + 1 : Contents(n + 1)[i] = "content"
  BY DEF Contents
<1>5. \A i \in 1..n : Contents(n)[i] = "content"
  BY DEF Contents
<1>6. \A i \in 1..n + 1 : Append(Contents(n), "content")[i] = Contents(n + 1)[i]
  BY <1>3, <1>4, <1>5
<1> QED
  BY <1>2, <1>3, <1>6, SeqEqual

LEMMA OpeningsAreReports ==
  /\ Opening \in Seq(Reports) /\ Len(Opening) = 3
  /\ Direct \in Seq(Reports) /\ Len(Direct) = 4
  /\ Grounded \in Seq(Reports) /\ Len(Grounded) = 8
<1>1. Opening \in Seq(Reports) /\ Len(Opening) = 3
  BY DEF Opening, Reports
<1>2. <<"generating">> \in Seq(Reports) /\ Len(<<"generating">>) = 1
  BY DEF Reports
<1>3. Direct \in Seq(Reports) /\ Len(Direct) = 4
  <2>1. Opening \o <<"generating">> \in Seq(Reports)
    BY <1>1, <1>2, ConcatProperties
  <2>2. Len(Opening \o <<"generating">>) = Len(Opening) + Len(<<"generating">>)
    BY <1>1, <1>2, ConcatProperties
  <2>3. Len(Opening) + Len(<<"generating">>) = 4
    BY <1>1, <1>2
  <2> QED
    BY <2>1, <2>2, <2>3, Zenon DEF Direct
<1>4. DEFINE found == <<"retrieving", "fusing", "reranking", "prompting", "generating">>
<1>5. found \in Seq(Reports) /\ Len(found) = 5
  BY DEF Reports
<1>6. Grounded \in Seq(Reports) /\ Len(Grounded) = 8
  <2> HIDE DEF found
  <2>1. Opening \o found \in Seq(Reports)
    BY <1>1, <1>5, ConcatProperties
  <2>2. Len(Opening \o found) = Len(Opening) + Len(found)
    BY <1>1, <1>5, ConcatProperties
  <2>3. Len(Opening) + Len(found) = 8
    BY <1>1, <1>5
  <2> QED
    BY <2>1, <2>2, <2>3, Zenon DEF Grounded, found
<1> QED
  BY <1>1, <1>3, <1>6

LEMMA ConcatReports ==
  ASSUME NEW s \in Seq(Reports), NEW t \in Seq(Reports)
  PROVE  s \o t \in Seq(Reports)
BY ConcatProperties

LEMMA ConcatFrames ==
  ASSUME NEW s \in Seq(Frames), NEW t \in Seq(Frames)
  PROVE  s \o t \in Seq(Frames)
BY ConcatProperties

\* An answer grows by one frame at a time.
LEMMA AnswersGrow ==
  ASSUME NEW n \in Nat
  PROVE  /\ Grounded \o Contents(n) \in Seq(Reports)
         /\ Direct \o Contents(n) \in Seq(Reports)
         /\ Append(Grounded \o Contents(n), "content") = Grounded \o Contents(n + 1)
         /\ Append(Direct \o Contents(n), "content") = Direct \o Contents(n + 1)
         /\ Append(Grounded \o Contents(n), "sources") = Grounded \o Contents(n) \o <<"sources">>
         /\ Grounded \o Contents(n) \o <<"sources">> \in Seq(Reports)
         /\ Append(Grounded \o Contents(n) \o <<"sources">>, "completed") = GroundedAnswer(n)
         /\ Append(Direct \o Contents(n), "completed") = DirectAnswer(n)
         /\ GroundedAnswer(n) \in Seq(Reports)
         /\ DirectAnswer(n) \in Seq(Reports)
<1> DEFINE grounded == Grounded \o Contents(n)
           direct == Direct \o Contents(n)
<1>1. /\ Contents(n) \in Seq(Reports) /\ Contents(n) \in Seq(Frames)
      /\ Grounded \in Seq(Frames) /\ Direct \in Seq(Frames)
  BY ContentsAreReports, OpeningsAreReports, ReportsAreFrames
<1>2. "content" \in Frames /\ "sources" \in Frames /\ "completed" \in Frames
  BY DEF Frames, Reports
<1>3. <<"sources">> \in Seq(Reports) /\ <<"sources", "completed">> \in Seq(Reports)
  BY DEF Reports
<1>4. <<"completed">> \in Seq(Reports)
  BY DEF Reports
<1>5. grounded \in Seq(Reports) /\ direct \in Seq(Reports)
  BY <1>1, OpeningsAreReports, ConcatReports
<1>6. grounded \in Seq(Frames) /\ direct \in Seq(Frames)
  BY <1>5, ReportsAreFrames
<1>7. Append(grounded, "content") = Grounded \o Contents(n + 1)
  <2>1. Append(grounded, "content") = Grounded \o Append(Contents(n), "content")
    BY <1>1, <1>2, AppendToConcat
  <2> QED
    BY <2>1, MoreContents, Zenon
<1>8. Append(direct, "content") = Direct \o Contents(n + 1)
  <2>1. Append(direct, "content") = Direct \o Append(Contents(n), "content")
    BY <1>1, <1>2, AppendToConcat
  <2> QED
    BY <2>1, MoreContents, Zenon
<1> HIDE DEF grounded, direct
<1>9. /\ Append(grounded, "sources") = grounded \o <<"sources">>
      /\ Append(direct, "completed") = direct \o <<"completed">>
  BY <1>2, <1>6, AppendIsConcat
<1>10. /\ grounded \o <<"sources">> \in Seq(Reports)
       /\ grounded \o <<"sources", "completed">> \in Seq(Reports)
       /\ direct \o <<"completed">> \in Seq(Reports)
  BY <1>3, <1>4, <1>5, ConcatReports
<1>11. Append(grounded \o <<"sources">>, "completed") = grounded \o <<"sources", "completed">>
  <2>1. <<"sources">> \in Seq(Frames)
    BY <1>3, ReportsAreFrames
  <2>2. Append(grounded \o <<"sources">>, "completed")
          = grounded \o Append(<<"sources">>, "completed")
    BY <2>1, <1>2, <1>6, AppendToConcat
  <2>3. Append(<<"sources">>, "completed") = <<"sources", "completed">>
    BY <1>2, Append1
  <2> QED
    BY <2>2, <2>3, Zenon
<1> QED
  BY <1>5, <1>7, <1>8, <1>9, <1>10, <1>11, Zenon
     DEF grounded, direct, GroundedAnswer, DirectAnswer

LEMMA WholeAnswers ==
  ASSUME NEW n \in Nat
  PROVE  /\ Append(GroundedAnswer(n), "done_completed")
              = Grounded \o Contents(n) \o <<"sources", "completed", "done_completed">>
         /\ Append(DirectAnswer(n), "done_completed")
              = Direct \o Contents(n) \o <<"completed", "done_completed">>
<1> DEFINE grounded == Grounded \o Contents(n)
           direct == Direct \o Contents(n)
<1>1. grounded \in Seq(Frames) /\ direct \in Seq(Frames)
  BY AnswersGrow, ReportsAreFrames
<1> HIDE DEF grounded, direct
<1>2. "sources" \in Frames /\ "completed" \in Frames /\ "done_completed" \in Frames
  BY DEF Frames, Reports, Endings
<1>3. <<"sources", "completed">> \in Seq(Frames) /\ <<"completed">> \in Seq(Frames)
  BY <1>2
<1>4. Append(grounded \o <<"sources", "completed">>, "done_completed")
        = grounded \o Append(<<"sources", "completed">>, "done_completed")
  BY <1>1, <1>2, <1>3, AppendToConcat
<1>5. Append(direct \o <<"completed">>, "done_completed")
        = direct \o Append(<<"completed">>, "done_completed")
  BY <1>1, <1>2, <1>3, AppendToConcat
<1>6. /\ Append(<<"sources", "completed">>, "done_completed")
           = <<"sources", "completed", "done_completed">>
      /\ Append(<<"completed">>, "done_completed") = <<"completed", "done_completed">>
  BY <1>2, Append1, Append2
<1> QED
  BY <1>4, <1>5, <1>6, Zenon DEF grounded, direct, GroundedAnswer, DirectAnswer

LEMMA WholeOthers ==
  /\ NoContext \in Seq(Reports)
  /\ Append(NoContext, "done_no_context")
       = Opening \o <<"retrieving", "fusing", "no_context", "done_no_context">>
  /\ Guided \in Seq(Reports)
  /\ Append(Guided, "done_clarification")
       = Opening \o <<"clarification", "guidance", "done_clarification">>
<1>1. Opening \in Seq(Reports) /\ Opening \in Seq(Frames)
  BY OpeningsAreReports, ReportsAreFrames
<1>2. <<"retrieving", "fusing", "no_context">> \in Seq(Reports)
  BY DEF Reports
<1>3. <<"clarification", "guidance">> \in Seq(Reports)
  BY DEF Reports
<1>4. /\ "retrieving" \in Frames /\ "fusing" \in Frames /\ "no_context" \in Frames
      /\ "done_no_context" \in Frames
  BY DEF Frames, Reports, Endings
<1>5. "clarification" \in Frames /\ "guidance" \in Frames /\ "done_clarification" \in Frames
  BY DEF Frames, Reports, Endings
<1>6. NoContext \in Seq(Reports) /\ Guided \in Seq(Reports)
  BY <1>1, <1>2, <1>3, ConcatReports DEF NoContext, Guided
<1>7. Append(NoContext, "done_no_context")
        = Opening \o <<"retrieving", "fusing", "no_context", "done_no_context">>
  <2>1. Append(Opening \o <<"retrieving", "fusing", "no_context">>, "done_no_context")
          = Opening \o Append(<<"retrieving", "fusing", "no_context">>, "done_no_context")
    <3>1. <<"retrieving", "fusing", "no_context">> \in Seq(Frames)
      BY <1>2, ReportsAreFrames
    <3> QED
      BY <3>1, <1>1, <1>4, AppendToConcat
  <2>2. Append(<<"retrieving", "fusing", "no_context">>, "done_no_context")
          = <<"retrieving", "fusing", "no_context", "done_no_context">>
    BY <1>4, Append3
  <2> QED
    BY <2>1, <2>2, Zenon DEF NoContext
<1>8. Append(Guided, "done_clarification")
        = Opening \o <<"clarification", "guidance", "done_clarification">>
  <2>1. Append(Opening \o <<"clarification", "guidance">>, "done_clarification")
          = Opening \o Append(<<"clarification", "guidance">>, "done_clarification")
    <3>1. <<"clarification", "guidance">> \in Seq(Frames)
      BY <1>3, ReportsAreFrames
    <3> QED
      BY <3>1, <1>1, <1>5, AppendToConcat
  <2>2. Append(<<"clarification", "guidance">>, "done_clarification")
          = <<"clarification", "guidance", "done_clarification">>
    BY <1>5, Append2
  <2> QED
    BY <2>1, <2>2, Zenon DEF Guided
<1> QED
  BY <1>6, <1>7, <1>8

LEMMA WholesAreComplete ==
  /\ Append(NoContext, "done_no_context") \in Contract
  /\ Append(Guided, "done_clarification") \in Contract
  /\ \A n \in 0..MaxChunks : /\ Append(GroundedAnswer(n), "done_completed") \in Contract
                             /\ Append(DirectAnswer(n), "done_completed") \in Contract
<1>1. Append(NoContext, "done_no_context") \in Contract
  BY WholeOthers, Zenon DEF Contract
<1>2. Append(Guided, "done_clarification") \in Contract
  BY WholeOthers, Zenon DEF Contract
<1>3. ASSUME NEW n \in 0..MaxChunks
      PROVE  /\ Append(GroundedAnswer(n), "done_completed") \in Contract
             /\ Append(DirectAnswer(n), "done_completed") \in Contract
  <2>1. n \in Nat
    BY PipelineAssumption
  <2>2. /\ Append(GroundedAnswer(n), "done_completed")
             = Grounded \o Contents(n) \o <<"sources", "completed", "done_completed">>
        /\ Append(DirectAnswer(n), "done_completed")
             = Direct \o Contents(n) \o <<"completed", "done_completed">>
    BY <2>1, WholeAnswers
  <2>3. Append(GroundedAnswer(n), "done_completed") \in Contract
    BY <2>2, Zenon DEF Contract, Grounded
  <2>4. Append(DirectAnswer(n), "done_completed") \in Contract
    BY <2>2, Zenon DEF Contract, Direct
  <2> QED
    BY <2>3, <2>4
<1> QED
  BY <1>1, <1>2, <1>3, Zenon

LEMMA ContractSplits ==
  ASSUME NEW stream \in Contract
  PROVE  \E said \in Seq(Reports), ending \in Endings : stream = Append(said, ending)
<1>1. \/ stream = Append(NoContext, "done_no_context")
      \/ stream = Append(Guided, "done_clarification")
      \/ \E n \in 0..MaxChunks : \/ stream = Append(GroundedAnswer(n), "done_completed")
                                 \/ stream = Append(DirectAnswer(n), "done_completed")
  <2>1. \/ stream = Opening \o <<"retrieving", "fusing", "no_context", "done_no_context">>
        \/ stream = Opening \o <<"clarification", "guidance", "done_clarification">>
        \/ \E n \in 0..MaxChunks :
             stream = Grounded \o Contents(n) \o <<"sources", "completed", "done_completed">>
        \/ \E n \in 0..MaxChunks :
             stream = Direct \o Contents(n) \o <<"completed", "done_completed">>
    BY Zenon DEF Contract, Grounded, Direct
  <2>2. \A n \in 0..MaxChunks :
          /\ Append(GroundedAnswer(n), "done_completed")
               = Grounded \o Contents(n) \o <<"sources", "completed", "done_completed">>
          /\ Append(DirectAnswer(n), "done_completed")
               = Direct \o Contents(n) \o <<"completed", "done_completed">>
    <3> TAKE n \in 0..MaxChunks
    <3>1. n \in Nat
      BY PipelineAssumption
    <3> QED
      BY <3>1, WholeAnswers
  <2> QED
    BY <2>1, <2>2, WholeOthers, Zenon
<1>2. /\ "done_no_context" \in Endings /\ "done_clarification" \in Endings
      /\ "done_completed" \in Endings
  BY DEF Endings
<1>3. \A n \in 0..MaxChunks : GroundedAnswer(n) \in Seq(Reports) /\ DirectAnswer(n) \in Seq(Reports)
  <2> TAKE n \in 0..MaxChunks
  <2>1. n \in Nat
    BY PipelineAssumption
  <2> QED
    BY <2>1, AnswersGrow
<1> QED
  BY <1>1, <1>2, <1>3, WholeOthers, Zenon

LEMMA StreamFacts ==
  ASSUME NEW stream \in Contract
  PROVE  /\ stream \in Seq(Frames)
         /\ Len(stream) \in Nat /\ Len(stream) > 0
         /\ \A i \in 1..Len(stream) - 1 : stream[i] \in Reports
<1>1. PICK said \in Seq(Reports), ending \in Endings : stream = Append(said, ending)
  BY ContractSplits
<1>2. said \in Seq(Frames) /\ ending \in Frames
  BY ReportsAreFrames DEF Frames
<1>3. /\ stream \in Seq(Frames)
      /\ Len(stream) = Len(said) + 1
      /\ \A i \in 1..Len(said) : stream[i] = said[i]
  BY <1>1, <1>2, AppendProperties
<1>4. Len(said) \in Nat /\ \A i \in 1..Len(said) : said[i] \in Reports
  BY LenProperties, ElementOfSeq
<1> QED
  BY <1>3, <1>4

\* The first frames of a sequence.
LEMMA FirstFrames ==
  ASSUME NEW s \in Seq(Frames), NEW k \in Nat, \A i \in 1..k : s[i] \in Reports
  PROVE  /\ SubSeq(s, 1, k) \in Seq(Reports)
         /\ Len(SubSeq(s, 1, k)) = k
         /\ \A i \in 1..k : SubSeq(s, 1, k)[i] = s[i]
<1>1. 1 \in Int /\ k \in Int /\ k - 1 + 1 = k
  OBVIOUS
<1>2. SubSeq(s, 1, k) \in Seq(Reports)
  BY <1>1, SubSeqProperties
<1>3. Len(SubSeq(s, 1, k)) = IF 1 <= k THEN k - 1 + 1 ELSE 0
  BY <1>1, SubSeqProperties
<1>4. \A i \in 1..k - 1 + 1 : SubSeq(s, 1, k)[i] = s[1 + i - 1]
  BY <1>1, SubSeqProperties
<1> QED
  BY <1>1, <1>2, <1>3, <1>4

LEMMA UnfinishedIs ==
  ASSUME NEW frames, Unfinished(frames)
  PROVE  frames \in Seq(Reports)
<1>0. PICK stream \in Contract : \E k \in 0..Len(stream) - 1 : frames = SubSeq(stream, 1, k)
  BY DEF Unfinished
<1>1. PICK k \in 0..Len(stream) - 1 : frames = SubSeq(stream, 1, k)
  BY <1>0
<1>2. /\ stream \in Seq(Frames) /\ Len(stream) \in Nat
      /\ \A i \in 1..Len(stream) - 1 : stream[i] \in Reports
  BY StreamFacts
<1>3. k \in Nat /\ \A i \in 1..k : stream[i] \in Reports
  BY <1>2
<1>4. SubSeq(stream, 1, k) \in Seq(Reports)
  BY <1>2, <1>3, FirstFrames, SMTT(30)
<1> QED
  BY <1>1, <1>4, Zenon

\* What is said before the done event of a stream is unfinished, and so is
\* what was said before that.
LEMMA UnfinishedSaid ==
  ASSUME NEW said \in Seq(Reports), NEW ending \in Endings, Append(said, ending) \in Contract
  PROVE  Unfinished(said)
<1> DEFINE stream == Append(said, ending)
<1>1. said \in Seq(Frames) /\ ending \in Frames
  BY ReportsAreFrames DEF Frames
<1>2. /\ stream \in Seq(Frames)
      /\ Len(stream) = Len(said) + 1
      /\ \A i \in 1..Len(said) : stream[i] = said[i]
  BY <1>1, AppendProperties
<1>3. Len(said) \in Nat /\ \A i \in 1..Len(said) : said[i] \in Reports
  BY LenProperties, ElementOfSeq
<1> HIDE DEF stream
<1>4. \A i \in 1..Len(said) : stream[i] \in Reports
  BY <1>2, <1>3
<1>5. /\ SubSeq(stream, 1, Len(said)) \in Seq(Reports)
      /\ Len(SubSeq(stream, 1, Len(said))) = Len(said)
      /\ \A i \in 1..Len(said) : SubSeq(stream, 1, Len(said))[i] = stream[i]
  BY <1>2, <1>3, <1>4, FirstFrames, SMTT(30)
<1>6. said = SubSeq(stream, 1, Len(said))
  BY <1>2, <1>5, SeqEqual
<1>7. Len(said) \in 0..Len(stream) - 1
  BY <1>2, <1>3
<1>8. stream \in Contract
  BY DEF stream
<1> QED
  BY <1>6, <1>7, <1>8 DEF Unfinished

LEMMA UnfinishedBefore ==
  ASSUME NEW frames \in Seq(Reports), NEW last \in Reports, Unfinished(Append(frames, last))
  PROVE  Unfinished(frames)
<1>0. PICK stream \in Contract :
        \E k \in 0..Len(stream) - 1 : Append(frames, last) = SubSeq(stream, 1, k)
  BY DEF Unfinished
<1>1. PICK k \in 0..Len(stream) - 1 : Append(frames, last) = SubSeq(stream, 1, k)
  BY <1>0
<1>2. /\ stream \in Seq(Frames) /\ Len(stream) \in Nat
      /\ \A i \in 1..Len(stream) - 1 : stream[i] \in Reports
  BY StreamFacts
<1>3. Len(frames) \in Nat
  BY LenProperties
<1>4. /\ Len(Append(frames, last)) = Len(frames) + 1
      /\ \A i \in 1..Len(frames) : Append(frames, last)[i] = frames[i]
  BY AppendProperties
<1>5. /\ Len(SubSeq(stream, 1, k)) = k
      /\ \A i \in 1..k : SubSeq(stream, 1, k)[i] = stream[i]
  <2>1. \A i \in 1..k : stream[i] \in Reports
    BY <1>2
  <2> QED
    BY <2>1, <1>2, FirstFrames
<1>6. k = Len(frames) + 1
  BY <1>1, <1>4, <1>5
<1>7. \A i \in 1..Len(frames) : stream[i] = frames[i]
  BY <1>1, <1>3, <1>4, <1>5, <1>6
<1>8. \A i \in 1..Len(frames) : stream[i] \in Reports
  BY <1>2, <1>3, <1>6
<1>9. /\ SubSeq(stream, 1, Len(frames)) \in Seq(Reports)
      /\ Len(SubSeq(stream, 1, Len(frames))) = Len(frames)
      /\ \A i \in 1..Len(frames) : SubSeq(stream, 1, Len(frames))[i] = stream[i]
  BY <1>3, <1>8, FirstFrames
<1>10. frames = SubSeq(stream, 1, Len(frames))
  BY <1>7, <1>9, SeqEqual
<1>11. Len(frames) \in 0..Len(stream) - 1
  BY <1>2, <1>3, <1>6
<1> QED
  BY <1>10, <1>11 DEF Unfinished

\* How the frames before an answer grow.
LEMMA OpeningGrows ==
  /\ Append(<<>>, "reply_to") = <<"reply_to">>
  /\ Append(<<"reply_to">>, "rewriting") = <<"reply_to", "rewriting">>
  /\ Append(<<"reply_to", "rewriting">>, "intent") = Opening
  /\ Append(Opening, "clarification") = Opening \o <<"clarification">>
  /\ Append(Opening \o <<"clarification">>, "guidance") = Guided
  /\ Append(Opening, "generating") = Direct
  /\ Append(Opening, "retrieving") = Opening \o <<"retrieving">>
<1>1. Opening \in Seq(Frames) /\ <<"clarification">> \in Seq(Frames)
  BY OpeningsAreReports, ReportsAreFrames DEF Frames, Reports
<1>2. "reply_to" \in Frames /\ "rewriting" \in Frames /\ "intent" \in Frames
  BY DEF Frames, Reports
<1>3. /\ "clarification" \in Frames /\ "guidance" \in Frames
      /\ "generating" \in Frames /\ "retrieving" \in Frames
  BY DEF Frames, Reports
<1>4. Append(<<"reply_to", "rewriting">>, "intent") = Opening
  BY <1>2, Append2, Zenon DEF Opening
<1>5. /\ Append(Opening, "clarification") = Opening \o <<"clarification">>
      /\ Append(Opening, "generating") = Opening \o <<"generating">>
      /\ Append(Opening, "retrieving") = Opening \o <<"retrieving">>
  BY <1>1, <1>3, AppendIsConcat
<1>6. Append(Opening \o <<"clarification">>, "guidance")
        = Opening \o Append(<<"clarification">>, "guidance")
  BY <1>1, <1>3, AppendToConcat
<1>7. Append(<<"clarification">>, "guidance") = <<"clarification", "guidance">>
  BY <1>3, Append1
<1>8. Append(Opening \o <<"clarification">>, "guidance") = Guided
  BY <1>6, <1>7, Zenon DEF Guided
<1>9. /\ Append(<<>>, "reply_to") = <<"reply_to">>
      /\ Append(<<"reply_to">>, "rewriting") = <<"reply_to", "rewriting">>
  BY <1>2, Append0, Append1
<1> QED
  BY <1>4, <1>5, <1>8, <1>9, Zenon DEF Direct

LEMMA SearchingGrows ==
  /\ Append(Opening \o <<"retrieving">>, "fusing") = Opening \o <<"retrieving", "fusing">>
  /\ Append(Opening \o <<"retrieving", "fusing">>, "no_context") = NoContext
  /\ Append(Opening \o <<"retrieving", "fusing">>, "reranking")
       = Opening \o <<"retrieving", "fusing", "reranking">>
  /\ Append(Opening \o <<"retrieving", "fusing", "reranking">>, "prompting")
       = Opening \o <<"retrieving", "fusing", "reranking", "prompting">>
  /\ Append(Opening \o <<"retrieving", "fusing", "reranking", "prompting">>, "generating")
       = Grounded
<1>1. Opening \in Seq(Frames)
  BY OpeningsAreReports, ReportsAreFrames
<1>2. /\ "retrieving" \in Frames /\ "fusing" \in Frames /\ "no_context" \in Frames
      /\ "reranking" \in Frames /\ "prompting" \in Frames /\ "generating" \in Frames
  BY DEF Frames, Reports
<1>3. /\ <<"retrieving">> \in Seq(Frames)
      /\ <<"retrieving", "fusing">> \in Seq(Frames)
      /\ <<"retrieving", "fusing", "reranking">> \in Seq(Frames)
      /\ <<"retrieving", "fusing", "reranking", "prompting">> \in Seq(Frames)
  BY <1>2
<1>4. Append(Opening \o <<"retrieving">>, "fusing") = Opening \o <<"retrieving", "fusing">>
  <2>1. Append(Opening \o <<"retrieving">>, "fusing")
          = Opening \o Append(<<"retrieving">>, "fusing")
    BY <1>1, <1>2, <1>3, AppendToConcat
  <2> QED
    BY <2>1, <1>2, Append1, Zenon
<1>5. /\ Append(Opening \o <<"retrieving", "fusing">>, "no_context") = NoContext
      /\ Append(Opening \o <<"retrieving", "fusing">>, "reranking")
           = Opening \o <<"retrieving", "fusing", "reranking">>
  <2>1. /\ Append(Opening \o <<"retrieving", "fusing">>, "no_context")
             = Opening \o Append(<<"retrieving", "fusing">>, "no_context")
        /\ Append(Opening \o <<"retrieving", "fusing">>, "reranking")
             = Opening \o Append(<<"retrieving", "fusing">>, "reranking")
    BY <1>1, <1>2, <1>3, AppendToConcat
  <2>2. /\ Append(<<"retrieving", "fusing">>, "no_context")
             = <<"retrieving", "fusing", "no_context">>
        /\ Append(<<"retrieving", "fusing">>, "reranking")
             = <<"retrieving", "fusing", "reranking">>
    BY <1>2, Append2
  <2> QED
    BY <2>1, <2>2, Zenon DEF NoContext
<1>6. Append(Opening \o <<"retrieving", "fusing", "reranking">>, "prompting")
        = Opening \o <<"retrieving", "fusing", "reranking", "prompting">>
  <2>1. Append(Opening \o <<"retrieving", "fusing", "reranking">>, "prompting")
          = Opening \o Append(<<"retrieving", "fusing", "reranking">>, "prompting")
    BY <1>1, <1>2, <1>3, AppendToConcat
  <2>2. Append(<<"retrieving", "fusing", "reranking">>, "prompting")
          = <<"retrieving", "fusing", "reranking", "prompting">>
    BY <1>2, Append3
  <2> QED
    BY <2>1, <2>2, Zenon
<1>7. Append(Opening \o <<"retrieving", "fusing", "reranking", "prompting">>, "generating")
        = Grounded
  <2>1. Append(Opening \o <<"retrieving", "fusing", "reranking", "prompting">>, "generating")
          = Opening \o Append(<<"retrieving", "fusing", "reranking", "prompting">>, "generating")
    BY <1>1, <1>2, <1>3, AppendToConcat
  <2>2. Append(<<"retrieving", "fusing", "reranking", "prompting">>, "generating")
          = <<"retrieving", "fusing", "reranking", "prompting", "generating">>
    BY <1>2, Append4
  <2> QED
    BY <2>1, <2>2, Zenon DEF Grounded
<1> QED
  BY <1>4, <1>5, <1>6, <1>7

LEMMA NoContents ==
  Grounded = Grounded \o Contents(0) /\ Direct = Direct \o Contents(0)
<1>1. Contents(0) = <<>>
  BY ContentsAreReports, EmptySeq
<1>2. Grounded \o <<>> = Grounded /\ Direct \o <<>> = Direct
  BY OpeningsAreReports, ConcatEmptySeq
<1> QED
  BY <1>1, <1>2, Zenon

LEMMA UnfinishedAnswers ==
  ASSUME NEW n \in 0..MaxChunks
  PROVE  /\ Unfinished(GroundedAnswer(n)) /\ Unfinished(DirectAnswer(n))
         /\ Unfinished(Grounded \o Contents(n) \o <<"sources">>)
         /\ Unfinished(Grounded \o Contents(n)) /\ Unfinished(Direct \o Contents(n))
<1>1. n \in Nat
  BY PipelineAssumption
<1>2. /\ GroundedAnswer(n) \in Seq(Reports) /\ DirectAnswer(n) \in Seq(Reports)
      /\ Grounded \o Contents(n) \o <<"sources">> \in Seq(Reports)
      /\ Grounded \o Contents(n) \in Seq(Reports) /\ Direct \o Contents(n) \in Seq(Reports)
  BY <1>1, AnswersGrow
<1>3. Unfinished(GroundedAnswer(n)) /\ Unfinished(DirectAnswer(n))
  <2>1. "done_completed" \in Endings
    BY DEF Endings
  <2> QED
    BY <2>1, <1>2, WholesAreComplete, UnfinishedSaid
<1>4. "sources" \in Reports /\ "completed" \in Reports
  BY DEF Reports
<1>5. /\ Append(Grounded \o Contents(n), "sources") = Grounded \o Contents(n) \o <<"sources">>
      /\ Append(Grounded \o Contents(n) \o <<"sources">>, "completed") = GroundedAnswer(n)
      /\ Append(Direct \o Contents(n), "completed") = DirectAnswer(n)
  BY <1>1, AnswersGrow
<1>6. Unfinished(Grounded \o Contents(n) \o <<"sources">>)
  <2>1. Unfinished(Append(Grounded \o Contents(n) \o <<"sources">>, "completed"))
    BY <1>3, <1>5, Zenon
  <2> QED
    BY <2>1, <1>2, <1>4, UnfinishedBefore
<1>7. Unfinished(Grounded \o Contents(n))
  <2>1. Unfinished(Append(Grounded \o Contents(n), "sources"))
    BY <1>5, <1>6, Zenon
  <2> QED
    BY <2>1, <1>2, <1>4, UnfinishedBefore
<1>8. Unfinished(Direct \o Contents(n))
  <2>1. Unfinished(Append(Direct \o Contents(n), "completed"))
    BY <1>3, <1>5, Zenon
  <2> QED
    BY <2>1, <1>2, <1>4, UnfinishedBefore
<1> QED
  BY <1>3, <1>6, <1>7, <1>8

\* At every place but the last ones the client has an unfinished stream.
LEMMA UnfinishedOthers ==
  /\ Unfinished(NoContext) /\ Unfinished(Guided)
  /\ Unfinished(<<>>) /\ Unfinished(<<"reply_to">>) /\ Unfinished(<<"reply_to", "rewriting">>)
  /\ Unfinished(Opening) /\ Unfinished(Opening \o <<"clarification">>)
  /\ Unfinished(Opening \o <<"retrieving">>)
  /\ Unfinished(Opening \o <<"retrieving", "fusing">>)
  /\ Unfinished(Opening \o <<"retrieving", "fusing", "reranking">>)
  /\ Unfinished(Opening \o <<"retrieving", "fusing", "reranking", "prompting">>)
<1>1. Opening \in Seq(Reports)
  BY OpeningsAreReports
<1>2. /\ "reply_to" \in Reports /\ "rewriting" \in Reports /\ "intent" \in Reports
      /\ "clarification" \in Reports /\ "guidance" \in Reports /\ "retrieving" \in Reports
  BY DEF Reports
<1>3. /\ "fusing" \in Reports /\ "no_context" \in Reports /\ "reranking" \in Reports
      /\ "prompting" \in Reports /\ "generating" \in Reports
  BY DEF Reports
<1>4. /\ <<>> \in Seq(Reports) /\ <<"reply_to">> \in Seq(Reports)
      /\ <<"reply_to", "rewriting">> \in Seq(Reports)
      /\ <<"clarification">> \in Seq(Reports) /\ <<"retrieving">> \in Seq(Reports)
  BY <1>2
<1>5. /\ <<"retrieving", "fusing">> \in Seq(Reports)
      /\ <<"retrieving", "fusing", "reranking">> \in Seq(Reports)
      /\ <<"retrieving", "fusing", "reranking", "prompting">> \in Seq(Reports)
  BY <1>2, <1>3
<1>6. /\ Opening \o <<"clarification">> \in Seq(Reports)
      /\ Opening \o <<"retrieving">> \in Seq(Reports)
      /\ Opening \o <<"retrieving", "fusing">> \in Seq(Reports)
      /\ Opening \o <<"retrieving", "fusing", "reranking">> \in Seq(Reports)
      /\ Opening \o <<"retrieving", "fusing", "reranking", "prompting">> \in Seq(Reports)
  BY <1>1, <1>4, <1>5, ConcatReports
<1>7. Unfinished(NoContext) /\ Unfinished(Guided)
  <2>1. "done_no_context" \in Endings /\ "done_clarification" \in Endings
    BY DEF Endings
  <2> QED
    BY <2>1, WholeOthers, WholesAreComplete, UnfinishedSaid
<1>8. Unfinished(Opening \o <<"clarification">>)
  <2>1. Unfinished(Append(Opening \o <<"clarification">>, "guidance"))
    BY <1>7, OpeningGrows, Zenon
  <2> QED
    BY <2>1, <1>2, <1>6, UnfinishedBefore
<1>9. Unfinished(Opening \o <<"retrieving", "fusing", "reranking", "prompting">>)
  <2>1. Unfinished(Grounded \o Contents(0))
    BY UnfinishedAnswers, PipelineAssumption
  <2>2. Unfinished(Append(Opening \o <<"retrieving", "fusing", "reranking", "prompting">>,
                          "generating"))
    BY <2>1, NoContents, SearchingGrows, Zenon
  <2> QED
    BY <2>2, <1>3, <1>6, UnfinishedBefore
<1>10. Unfinished(Opening \o <<"retrieving", "fusing", "reranking">>)
  <2>1. Unfinished(Append(Opening \o <<"retrieving", "fusing", "reranking">>, "prompting"))
    BY <1>9, SearchingGrows, Zenon
  <2> QED
    BY <2>1, <1>3, <1>6, UnfinishedBefore
<1>11. Unfinished(Opening \o <<"retrieving", "fusing">>)
  <2>1. Unfinished(Append(Opening \o <<"retrieving", "fusing">>, "reranking"))
    BY <1>10, SearchingGrows, Zenon
  <2> QED
    BY <2>1, <1>3, <1>6, UnfinishedBefore
<1>12. Unfinished(Opening \o <<"retrieving">>)
  <2>1. Unfinished(Append(Opening \o <<"retrieving">>, "fusing"))
    BY <1>11, SearchingGrows, Zenon
  <2> QED
    BY <2>1, <1>3, <1>6, UnfinishedBefore
<1>13. Unfinished(Opening)
  <2>1. Unfinished(Append(Opening, "retrieving"))
    BY <1>12, OpeningGrows, Zenon
  <2> QED
    BY <2>1, <1>1, <1>2, UnfinishedBefore
<1>14. Unfinished(<<"reply_to", "rewriting">>)
  <2>1. Unfinished(Append(<<"reply_to", "rewriting">>, "intent"))
    BY <1>13, OpeningGrows, Zenon
  <2> QED
    BY <2>1, <1>2, <1>4, UnfinishedBefore
<1>15. Unfinished(<<"reply_to">>)
  <2>1. Unfinished(Append(<<"reply_to">>, "rewriting"))
    BY <1>14, OpeningGrows, Zenon
  <2> QED
    BY <2>1, <1>2, <1>4, UnfinishedBefore
<1>16. Unfinished(<<>>)
  <2>1. Unfinished(Append(<<>>, "reply_to"))
    BY <1>15, OpeningGrows, Zenon
  <2> QED
    BY <2>1, <1>2, <1>4, UnfinishedBefore
<1> QED
  BY <1>7, <1>8, <1>9, <1>10, <1>11, <1>12, <1>13, <1>14, <1>15, <1>16

\* The contract of the wire, of any sequence of frames.
Follows(frames) ==
  \E stream \in Contract :
    \/ IsPrefix(frames, stream)
    \/ \E k \in 0..Len(stream) - 1 :
         IsPrefix(frames, SubSeq(stream, 1, k) \o <<"error", "done_error">>)

LEMMA PrefixByElements ==
  ASSUME NEW s \in Seq(Frames), NEW t \in Seq(Frames), Len(s) <= Len(t),
         \A i \in 1..Len(s) : s[i] = t[i]
  PROVE  IsPrefix(s, t)
<1>1. Len(s) \in Nat /\ Len(t) \in Nat
  BY LenProperties
<1>2. \A i \in 1..Len(s) : s[i] \in Frames /\ t[i] \in Frames
  BY ElementOfSeq
<1>3. /\ SubSeq(t, 1, Len(s)) \in Seq(Frames)
      /\ Len(SubSeq(t, 1, Len(s))) = Len(s)
      /\ \A i \in 1..Len(s) : SubSeq(t, 1, Len(s))[i] = t[i]
  BY <1>1, <1>2, SubSeqProperties
<1>4. s = SubSeq(t, 1, Len(s))
  BY <1>3, SeqEqual
<1>5. SubSeq(s, 1, Len(s)) = s
  BY SubSeqFull
<1> QED
  BY <1>4, <1>5, Zenon DEF IsPrefix

LEMMA UnfinishedFollows ==
  ASSUME NEW frames, Unfinished(frames)
  PROVE  /\ Follows(frames)
         /\ Follows(Append(frames, "error"))
         /\ Follows(Append(Append(frames, "error"), "done_error"))
<1> DEFINE failed == Append(frames, "error")
           over == Append(failed, "done_error")
           end == frames \o <<"error", "done_error">>
<1>1. PICK stream \in Contract : \E k \in 0..Len(stream) - 1 : frames = SubSeq(stream, 1, k)
  BY DEF Unfinished
<1>2. PICK k \in 0..Len(stream) - 1 : frames = SubSeq(stream, 1, k)
  BY <1>1
<1>3. frames \in Seq(Frames) /\ Len(frames) \in Nat
  BY UnfinishedIs, ReportsAreFrames, LenProperties
<1>4. "error" \in Frames /\ "done_error" \in Frames
  BY DEF Frames
<1>5. Follows(frames)
  <2>1. stream \in Seq(Frames) /\ Len(stream) \in Nat
    BY StreamFacts
  <2>2. \A i \in 1..Len(stream) : stream[i] \in Frames
    BY <2>1, ElementOfSeq
  <2>3. Len(frames) = k /\ \A i \in 1..k : frames[i] = stream[i]
    <3>1. \A i \in 1..k : stream[i] \in Frames
      BY <2>1, <2>2
    <3> QED
      BY <3>1, <2>1, <1>2, SubSeqProperties
  <2>4. Len(frames) <= Len(stream) /\ \A i \in 1..Len(frames) : frames[i] = stream[i]
    BY <2>1, <2>3
  <2>5. IsPrefix(frames, stream)
    BY <2>1, <2>4, <1>3, PrefixByElements
  <2> QED
    BY <2>5 DEF Follows
<1>6. /\ failed \in Seq(Frames) /\ Len(failed) = Len(frames) + 1
      /\ \A i \in 1..Len(frames) : failed[i] = frames[i]
      /\ failed[Len(frames) + 1] = "error"
  BY <1>3, <1>4, AppendProperties
<1>7. <<"error">> \in Seq(Frames) /\ <<"error", "done_error">> \in Seq(Frames)
  BY <1>4
<1>8. over = end
  <2>1. failed = frames \o <<"error">>
    BY <1>3, <1>4, AppendIsConcat
  <2>2. Append(frames \o <<"error">>, "done_error")
          = frames \o Append(<<"error">>, "done_error")
    BY <1>3, <1>4, <1>7, AppendToConcat
  <2>3. Append(<<"error">>, "done_error") = <<"error", "done_error">>
    BY <1>4, Append1
  <2> QED
    BY <2>1, <2>2, <2>3, Zenon
<1>9. over \in Seq(Frames) /\ Len(over) = Len(failed) + 1
      /\ \A i \in 1..Len(failed) : over[i] = failed[i]
  BY <1>4, <1>6, AppendProperties
<1> HIDE DEF failed, over, end
<1>10. end \in Seq(Frames) /\ end = SubSeq(stream, 1, k) \o <<"error", "done_error">>
  BY <1>2, <1>8, <1>9, Zenon DEF end
<1>11. Follows(over)
  <2>1. Len(over) \in Nat
    BY <1>9, LenProperties
  <2>2. IsPrefix(over, over)
    BY <1>9, <2>1, PrefixByElements
  <2> QED
    BY <2>2, <1>8, <1>10, Zenon DEF Follows
<1>12. Follows(failed)
  <2>1. Len(failed) <= Len(over)
    BY <1>3, <1>6, <1>9
  <2>2. IsPrefix(failed, over)
    BY <1>6, <1>9, <2>1, PrefixByElements
  <2> QED
    BY <2>2, <1>8, <1>10, Zenon DEF Follows
<1> QED
  BY <1>5, <1>11, <1>12 DEF failed, over

LEMMA CompleteFollows ==
  ASSUME NEW stream \in Contract
  PROVE  Follows(stream)
<1>1. stream \in Seq(Frames) /\ Len(stream) \in Nat
  BY StreamFacts
<1>2. IsPrefix(stream, stream)
  BY <1>1, PrefixByElements
<1> QED
  BY <1>2 DEF Follows

-----------------------------------------------------------------------------
(* Types and routes                                                        *)

\* The actions that only make a frame of what a service answered.
Tells ==
  \/ Rewritten \/ Guide \/ Retrieved \/ Fused \/ Reranked \/ Prompted
  \/ ModelEnds \/ Sourced \/ RefreshEnds \/ SendErrorDone

\* The actions by which Basic fails.
Breaks == ChunkOutOfProtocol \/ ModelEndsIncomplete \/ StageRaises \/ TimesOut

\* The actions that touch neither the place nor the frames.
Elsewhere ==
  \/ \E q \in Questions : SearchAnswers(q) \/ SearchStops(q)
  \/ DeadlinePasses \/ FinalizerCloses \/ UNCHANGED vars

LEMMA Cases ==
  ASSUME [Next]_vars
  PROVE  \/ Tells \/ Breaks \/ Elsewhere
         \/ \E decision \in Routes : Classified(decision)
         \/ \E q \in Questions : SearchFails(q)
         \/ \E delta \in BOOLEAN, reason \in {"none", "stop", "length"} : Chunk(delta, reason)
         \/ Resume \/ Resolved \/ BasicDone \/ Drained
         \/ BeginReturns \/ MemoryLoaded \/ Completed \/ FailReturns \/ CancelReturns
         \/ RetrievalTimesOut \/ Cancel \/ CancelRetrieval \/ Close \/ RepositoryFails
BY Zenon DEF Next, Answers, Proceeds, StepsOfBasic, Deadline, Interrupted, Quiet, Tells, Breaks,
   Elsewhere

LEMMA Types ==
  ASSUME PlaceTypes, [Next]_vars
  PROVE  PlaceTypes'
<1> USE DEF PlaceTypes, Places, Resumptions, Unsettled, Leaving, BeforeRetrieval, InRetrieval,
            AfterRetrieval
<1> USE DEF answer, counters, pipeline, Send, SendError, Raise, CountCancel
<1>1. CASE Rewritten \/ Guide \/ Retrieved \/ Fused \/ Reranked
  BY <1>1 DEF Rewritten, Guide, Retrieved, Fused, Reranked
<1>2. CASE Prompted \/ ModelEnds \/ Sourced \/ RefreshEnds \/ SendErrorDone
  BY <1>2 DEF Prompted, ModelEnds, Sourced, RefreshEnds, SendErrorDone
<1>3. CASE Breaks
  BY <1>3 DEF Breaks, ChunkOutOfProtocol, ModelEndsIncomplete, StageRaises, TimesOut
<1>4. CASE Elsewhere
  BY <1>4 DEF Elsewhere, SearchAnswers, SearchStops, DeadlinePasses, FinalizerCloses, vars
<1>5. CASE \E decision \in Routes : Classified(decision)
  BY <1>5 DEF Classified
<1>6. CASE \E q \in Questions : SearchFails(q)
  BY <1>6 DEF SearchFails, Drain
<1>7. CASE \E delta \in BOOLEAN, reason \in {"none", "stop", "length"} : Chunk(delta, reason)
  BY <1>7 DEF Chunk
<1>8. CASE Resume \/ Resolved
  <2>1. CASE Resume
    <3>1. at' \in {resume, "failing"}
      BY <2>1 DEF Resume, Enter
    <3> QED
      BY <2>1, <3>1 DEF Resume
  <2>2. CASE Resolved
    <3>1. at' \in {"retrieving", "failing"}
      BY <2>2 DEF Resolved, Enter
    <3> QED
      BY <2>2, <3>1 DEF Resolved
  <2> QED
    BY <1>8, <2>1, <2>2
<1>9. CASE BasicDone \/ Drained \/ BeginReturns \/ MemoryLoaded \/ Completed
  BY <1>9 DEF BasicDone, Drained, BeginReturns, MemoryLoaded, Completed
<1>10. CASE FailReturns \/ CancelReturns \/ RetrievalTimesOut
  BY <1>10 DEF FailReturns, CancelReturns, RetrievalTimesOut, CloseInner, Drain
<1>11. CASE Cancel \/ CancelRetrieval
  BY <1>11 DEF Cancel, CancelRetrieval, CloseInner, Drain
<1>12. CASE Close \/ RepositoryFails
  BY <1>12 DEF Close, RepositoryFails, CloseInner
<1> QED
  BY <1>1, <1>2, <1>3, <1>4, <1>5, <1>6, <1>7, <1>8, <1>9, <1>10, <1>11, <1>12, Cases, Zenon
     DEF Tells

LEMMA Routing ==
  ASSUME PlaceTypes, RouteShape, [Next]_vars
  PROVE  RouteShape'
<1> USE DEF RouteShape, Place, answer, counters, pipeline, Send, SendError, Raise
<1>1. CASE Rewritten \/ Guide \/ Retrieved \/ Fused \/ Reranked
  BY <1>1 DEF Rewritten, Guide, Retrieved, Fused, Reranked
<1>2. CASE Prompted \/ ModelEnds \/ Sourced \/ RefreshEnds \/ SendErrorDone
  BY <1>2 DEF Prompted, ModelEnds, Sourced, RefreshEnds, SendErrorDone
<1>3. CASE Breaks
  BY <1>3 DEF Breaks, ChunkOutOfProtocol, ModelEndsIncomplete, StageRaises, TimesOut
<1>4. CASE Elsewhere
  BY <1>4 DEF Elsewhere, SearchAnswers, SearchStops, DeadlinePasses, FinalizerCloses, vars
<1>5. CASE \E decision \in Routes : Classified(decision)
  BY <1>5 DEF Classified
<1>6. CASE \E q \in Questions : SearchFails(q)
  BY <1>6 DEF SearchFails, Drain
<1>7. CASE \E delta \in BOOLEAN, reason \in {"none", "stop", "length"} : Chunk(delta, reason)
  BY <1>7 DEF Chunk
<1>8. CASE Resume \/ Resolved
  <2>1. CASE Resume
    <3>1. /\ at = "sending" /\ at' \in {resume, "failing"}
          /\ UNCHANGED <<resume, route>>
      BY <2>1 DEF Resume, Enter
    <3>2. resume # "sending"
      BY DEF PlaceTypes, Resumptions, AfterRetrieval
    <3> QED
      BY <3>1, <3>2
  <2>2. CASE Resolved
    <3>1. at = "resolving" /\ at' \in {"retrieving", "failing"} /\ UNCHANGED <<resume, route>>
      BY <2>2 DEF Resolved, Enter
    <3> QED
      BY <3>1
  <2> QED
    BY <1>8, <2>1, <2>2
<1>9. CASE BasicDone \/ Drained \/ BeginReturns \/ MemoryLoaded \/ Completed
  BY <1>9 DEF BasicDone, Drained, BeginReturns, MemoryLoaded, Completed
<1>10. CASE FailReturns \/ CancelReturns \/ RetrievalTimesOut
  BY <1>10 DEF FailReturns, CancelReturns, RetrievalTimesOut, CloseInner, Drain
<1>11. CASE Cancel \/ CancelRetrieval
  BY <1>11 DEF Cancel, CancelRetrieval, CloseInner, Drain
<1>12. CASE Close \/ RepositoryFails
  BY <1>12 DEF Close, RepositoryFails, CloseInner
<1> QED
  BY <1>1, <1>2, <1>3, <1>4, <1>5, <1>6, <1>7, <1>8, <1>9, <1>10, <1>11, <1>12, Cases, Zenon
     DEF Tells

-----------------------------------------------------------------------------
(* Searches                                                                *)

LEMMA Searching ==
  ASSUME PlaceTypes, SearchShape, [Next]_vars
  PROVE  SearchShape'
<1> USE DEF SearchShape, SearchesAre, BeforeRetrieval, InRetrieval,
            answer, counters, pipeline, Send, SendError, Raise
<1>1. CASE Rewritten \/ Guide \/ Retrieved \/ Fused \/ Reranked
  BY <1>1 DEF Rewritten, Guide, Retrieved, Fused, Reranked
<1>2. CASE Prompted \/ ModelEnds \/ Sourced \/ RefreshEnds \/ SendErrorDone
  BY <1>2 DEF Prompted, ModelEnds, Sourced, RefreshEnds, SendErrorDone
<1>3. CASE Breaks
  BY <1>3 DEF Breaks, ChunkOutOfProtocol, ModelEndsIncomplete, StageRaises, TimesOut, Stages,
              Bounded
<1>4. CASE Elsewhere
  <2>1. CASE \E q \in Questions : SearchAnswers(q)
    BY <2>1 DEF SearchAnswers
  <2>2. CASE \E q \in Questions : SearchStops(q)
    BY <2>2 DEF SearchStops
  <2>3. CASE DeadlinePasses
    BY <2>3 DEF DeadlinePasses
  <2>4. CASE FinalizerCloses \/ UNCHANGED vars
    BY <2>4 DEF FinalizerCloses, vars
  <2> QED
    BY <1>4, <2>1, <2>2, <2>3, <2>4, Zenon DEF Elsewhere
<1>5. CASE \E decision \in Routes : Classified(decision)
  BY <1>5 DEF Classified
<1>6. CASE \E q \in Questions : SearchFails(q)
  BY <1>6 DEF SearchFails, Drain, StopSearches
<1>7. CASE \E delta \in BOOLEAN, reason \in {"none", "stop", "length"} : Chunk(delta, reason)
  BY <1>7 DEF Chunk
<1>8. CASE Resume \/ Resolved
  <2>1. CASE Resume
    <3>1. at = "sending" /\ UNCHANGED <<resume, clock, cancels>>
      BY <2>1 DEF Resume
    <3>2. CASE at' = "failing" /\ UNCHANGED search
      BY <3>1, <3>2
    <3>3. CASE at' = "retrieving" /\ resume = "retrieving"
                 /\ \E asked \in SUBSET Questions \ {{}} :
                      search' = [q \in Questions |-> IF q \in asked THEN "running" ELSE "idle"]
      BY <3>1, <3>3
    <3>4. CASE at' = resume /\ resume # "retrieving" /\ UNCHANGED search
      BY <3>1, <3>4 DEF PlaceTypes, Resumptions, AfterRetrieval
    <3> QED
      BY <2>1, <3>2, <3>3, <3>4 DEF Resume, Enter
  <2>2. CASE Resolved
    <3>1. at = "resolving" /\ UNCHANGED <<clock, cancels>>
      BY <2>2 DEF Resolved
    <3>2. CASE at' = "failing" /\ UNCHANGED search
      BY <3>1, <3>2
    <3>3. CASE /\ at' = "retrieving"
               /\ \E asked \in SUBSET Questions \ {{}} :
                    search' = [q \in Questions |-> IF q \in asked THEN "running" ELSE "idle"]
      BY <3>1, <3>3
    <3> QED
      BY <2>2, <3>2, <3>3 DEF Resolved, Enter
  <2> QED
    BY <1>8, <2>1, <2>2
<1>9. CASE BasicDone \/ Drained \/ BeginReturns \/ MemoryLoaded \/ Completed
  BY <1>9 DEF BasicDone, Drained, BeginReturns, MemoryLoaded, Completed
<1>10. CASE FailReturns \/ CancelReturns \/ RetrievalTimesOut
  BY <1>10 DEF FailReturns, CancelReturns, RetrievalTimesOut, CloseInner, Drain, StopSearches
<1>11. CASE Cancel \/ CancelRetrieval
  <2> USE DEF CountCancel, PlaceTypes
  <2>1. CASE Cancel
    <3>1. /\ at' \in {"ended", "cancelling"} /\ cancels' = cancels + 1
          /\ at \notin InRetrieval /\ UNCHANGED <<search, clock>>
      BY <2>1 DEF Cancel, CloseInner
    <3> QED
      BY <3>1
  <2>2. CASE CancelRetrieval
    BY <2>2 DEF CancelRetrieval, Drain, StopSearches
  <2> QED
    BY <1>11, <2>1, <2>2
<1>12. CASE Close \/ RepositoryFails
  <2>1. CASE Close
    <3>1. /\ at = "sending" /\ at' \in {"ended", "cancelling"} /\ cancels' = cancels + 1
          /\ UNCHANGED <<search, clock>>
      BY <2>1 DEF Close, CountCancel
    <3> QED
      BY <3>1 DEF PlaceTypes
  <2>2. CASE RepositoryFails
    <3>1. /\ at \in RepositoryCalls /\ UNCHANGED <<search, clock, cancels>>
          /\ \/ at' \in {"failing", "ended"}
             \/ at' = "sending" /\ resume' = "error_done"
      BY <2>2 DEF RepositoryFails, CloseInner
    <3> QED
      BY <3>1 DEF RepositoryCalls
  <2> QED
    BY <1>12, <2>1, <2>2
<1> QED
  BY <1>1, <1>2, <1>3, <1>4, <1>5, <1>6, <1>7, <1>8, <1>9, <1>10, <1>11, <1>12, Cases, Zenon
     DEF Tells

-----------------------------------------------------------------------------
(* The run row                                                             *)

LEMMA Running ==
  ASSUME PlaceTypes, SearchShape, RunShape, [Next]_vars
  PROVE  RunShape'
<1> USE DEF RunShape, Place, Outcomes, Unsettled, BeforeRetrieval, InRetrieval, AfterRetrieval,
            answer, counters, pipeline, Send, SendError, Raise
<1>1. CASE Rewritten \/ Guide \/ Retrieved \/ Fused \/ Reranked
  BY <1>1 DEF Rewritten, Guide, Retrieved, Fused, Reranked
<1>2. CASE Prompted \/ ModelEnds \/ Sourced \/ RefreshEnds \/ SendErrorDone
  BY <1>2 DEF Prompted, ModelEnds, Sourced, RefreshEnds, SendErrorDone
<1>3. CASE Breaks
  BY <1>3 DEF Breaks, ChunkOutOfProtocol, ModelEndsIncomplete, StageRaises, TimesOut, Stages,
              Bounded
<1>4. CASE Elsewhere
  BY <1>4 DEF Elsewhere, SearchAnswers, SearchStops, DeadlinePasses, FinalizerCloses, vars
<1>5. CASE \E decision \in Routes : Classified(decision)
  BY <1>5 DEF Classified
<1>6. CASE \E q \in Questions : SearchFails(q)
  BY <1>6 DEF SearchFails, Drain
<1>7. CASE \E delta \in BOOLEAN, reason \in {"none", "stop", "length"} : Chunk(delta, reason)
  BY <1>7 DEF Chunk
<1>8. CASE Resume \/ Resolved
  <2>1. CASE Resume
    <3>1. /\ at = "sending" /\ at' \in {resume, "failing"}
          /\ at' = "failing" => resume \in Bounded
          /\ UNCHANGED <<resume, outcome, run, cancels, faults>>
      BY <2>1 DEF Resume, Enter, PlaceTypes, Resumptions
    <3> QED
      BY <3>1 DEF Bounded, PlaceTypes, Resumptions
  <2>2. CASE Resolved
    <3>1. /\ at = "resolving" /\ at' \in {"retrieving", "failing"}
          /\ UNCHANGED <<resume, outcome, run, cancels, faults>>
      BY <2>2 DEF Resolved, Enter
    <3> QED
      BY <3>1
  <2> QED
    BY <1>8, <2>1, <2>2
<1>9. CASE BasicDone \/ Drained \/ BeginReturns \/ MemoryLoaded \/ Completed
  <2>1. CASE BasicDone \/ BeginReturns \/ MemoryLoaded
    BY <2>1 DEF BasicDone, BeginReturns, MemoryLoaded
  <2>2. CASE Drained
    BY <2>2 DEF Drained, SearchShape
  <2>3. CASE Completed
    BY <2>3 DEF Completed
  <2> QED
    BY <1>9, <2>1, <2>2, <2>3
<1>10. CASE FailReturns \/ CancelReturns \/ RetrievalTimesOut
  BY <1>10 DEF FailReturns, CancelReturns, RetrievalTimesOut, CloseInner, Drain
<1>11. CASE Cancel \/ CancelRetrieval
  <2>1. /\ at' \in {"ended", "cancelling", "draining"} /\ cancels' > 0
        /\ UNCHANGED <<resume, outcome>>
    BY <1>11 DEF Cancel, CancelRetrieval, CloseInner, Drain, CountCancel, PlaceTypes
  <2> QED
    BY <2>1
<1>12. CASE Close \/ RepositoryFails
  <2>1. CASE Close
    <3>1. /\ at' \in {"ended", "cancelling"} /\ cancels' > 0
      BY <2>1 DEF Close, CountCancel, PlaceTypes
    <3> QED
      BY <3>1
  <2>2. CASE RepositoryFails
    <3>1. faults' > 0 /\ UNCHANGED cancels
      BY <2>2 DEF RepositoryFails, PlaceTypes
    <3>2. /\ \/ at' \in {"failing", "ended"}
             \/ at' = "sending" /\ resume' = "error_done"
      BY <2>2 DEF RepositoryFails, CloseInner
    <3> QED
      BY <3>1, <3>2
  <2> QED
    BY <1>12, <2>1, <2>2
<1> QED
  BY <1>1, <1>2, <1>3, <1>4, <1>5, <1>6, <1>7, <1>8, <1>9, <1>10, <1>11, <1>12, Cases, Zenon
     DEF Tells

-----------------------------------------------------------------------------
(* The wire                                                                *)

LEMMA UnfinishedHere ==
  ASSUME PlaceTypes, RunShape, WireShape, Place \notin {"error_done", "ended"}
  PROVE  Unfinished(wire)
<1>1. Place \in Places
  BY DEF Place, PlaceTypes, Resumptions, Places, Unsettled, BeforeRetrieval, InRetrieval,
         AfterRetrieval, Leaving
<1>2. CASE Place \in {"begin_run", "load_memory", "rewriting", "intent", "guidance", "clarified"}
  <2>1. wire \in {<<>>, <<"reply_to">>, <<"reply_to", "rewriting">>, Opening,
                  Opening \o <<"clarification">>, Guided}
    BY <1>2, Zenon DEF WireShape, OpeningShape
  <2> QED
    BY <2>1, UnfinishedOthers, Zenon
<1>3. CASE Place \in {"resolving", "retrieving", "draining", "fusing", "no_context",
                      "reranking", "prompting"}
  <2>1. wire \in {Opening \o <<"retrieving">>, Opening \o <<"retrieving", "fusing">>, NoContext,
                  Opening \o <<"retrieving", "fusing", "reranking">>,
                  Opening \o <<"retrieving", "fusing", "reranking", "prompting">>}
    BY <1>3, Zenon DEF WireShape, SearchingShape
  <2> QED
    BY <2>1, UnfinishedOthers, Zenon
<1>4. CASE Place \in {"generating", "sourced", "answered"}
  <2>1. \E n \in 0..MaxChunks :
          wire \in {Begun \o Contents(n), Grounded \o Contents(n) \o <<"sources">>, Answer(n)}
    BY <1>4, Zenon DEF WireShape, AnswerShape
  <2>2. PICK n \in 0..MaxChunks :
          wire \in {Begun \o Contents(n), Grounded \o Contents(n) \o <<"sources">>, Answer(n)}
    BY <2>1, Zenon
  <2> QED
    BY <2>2, UnfinishedAnswers, Zenon DEF Begun, Answer
<1>5. CASE Place \in {"completing", "refreshing"}
  <2>1. \/ wire \in {Guided, NoContext}
        \/ \E n \in 0..MaxChunks : wire = Answer(n)
    BY <1>5, Zenon DEF WireShape, OutcomeShape, RunShape, Outcomes
  <2> QED
    BY <2>1, UnfinishedOthers, UnfinishedAnswers, Zenon DEF Answer
<1>6. CASE Place \in {"failing", "cancelling"}
  BY <1>6, Zenon DEF WireShape, LeavingShape
<1> QED
  BY <1>1, <1>2, <1>3, <1>4, <1>5, <1>6
     DEF Places, Unsettled, BeforeRetrieval, InRetrieval, AfterRetrieval, Leaving

\* An unfinished stream may fail at any moment, and a failed one end.
LEMMA WireLeft ==
  ASSUME Place' \in {"failing", "cancelling"}, Unfinished(wire')
  PROVE  WireShape'
BY Zenon DEF WireShape, OpeningShape, SearchingShape, AnswerShape, OutcomeShape, LeavingShape

LEMMA WireEnded ==
  ASSUME Place' = "ended"
  PROVE  WireShape'
BY Zenon DEF WireShape, OpeningShape, SearchingShape, AnswerShape, OutcomeShape, LeavingShape

LEMMA WireError ==
  ASSUME Place' = "error_done", NEW told, Unfinished(told), wire' = Append(told, "error")
  PROVE  WireShape'
BY Zenon DEF WireShape, OpeningShape, SearchingShape, AnswerShape, OutcomeShape, LeavingShape

\* What was said at a place is enough to say there.
LEMMA WireSaid ==
  ASSUME \/ Place' = "load_memory" /\ wire' = <<"reply_to">>
         \/ Place' = "rewriting" /\ wire' = <<"reply_to", "rewriting">>
         \/ Place' = "intent" /\ wire' = Opening
         \/ Place' = "guidance" /\ wire' = Opening \o <<"clarification">>
         \/ Place' = "clarified" /\ wire' = Guided
         \/ Place' \in {"resolving", "retrieving", "draining"}
              /\ wire' = Opening \o <<"retrieving">>
         \/ Place' = "fusing" /\ wire' = Opening \o <<"retrieving", "fusing">>
         \/ Place' = "no_context" /\ wire' = NoContext
         \/ Place' = "reranking" /\ wire' = Opening \o <<"retrieving", "fusing", "reranking">>
         \/ Place' = "prompting"
              /\ wire' = Opening \o <<"retrieving", "fusing", "reranking", "prompting">>
  PROVE  WireShape'
BY Zenon DEF WireShape, OpeningShape, SearchingShape, AnswerShape, OutcomeShape, LeavingShape

LEMMA WireAnswered ==
  ASSUME NEW n \in 0..MaxChunks,
         \/ Place' = "generating" /\ wire' = Begun' \o Contents(n)
         \/ Place' = "sourced" /\ wire' = Grounded \o Contents(n) \o <<"sources">>
         \/ Place' = "answered" /\ wire' = Answer(n)'
  PROVE  WireShape'
<1> HIDE DEF Answer, Begun
<1> QED
  BY Zenon DEF WireShape, OpeningShape, SearchingShape, AnswerShape, OutcomeShape, LeavingShape

\* Nothing is said and nothing begins.
LEMMA WireKept ==
  ASSUME WireShape, UNCHANGED <<wire, route, outcome>>, Place' = Place
  PROVE  WireShape'
<1>1. wire' = wire /\ route' = route /\ outcome' = outcome
  OBVIOUS
<1>2. OpeningShape' /\ SearchingShape'
  BY <1>1, Zenon DEF WireShape, OpeningShape, SearchingShape
<1>3. AnswerShape'
  BY <1>1, Zenon DEF WireShape, AnswerShape, Begun, Answer
<1>4. OutcomeShape'
  BY <1>1, Zenon DEF WireShape, OutcomeShape, Answer
<1>5. LeavingShape'
  BY <1>1, Zenon DEF WireShape, LeavingShape
<1> QED
  BY <1>2, <1>3, <1>4, <1>5 DEF WireShape

\* Emitted counts the deltas.
LEMMA CountContents ==
  ASSUME NEW s \in Seq(Reports \ {"content"}), NEW n \in Nat
  PROVE  Cardinality({i \in DOMAIN (s \o Contents(n)) : (s \o Contents(n))[i] = "content"}) = n
<1> DEFINE all == s \o Contents(n)
           told == {i \in DOMAIN all : all[i] = "content"}
<1>1. /\ s \in Seq(Reports) /\ Len(s) \in Nat
      /\ \A i \in 1..Len(s) : s[i] # "content"
  <2>1. \A i \in 1..Len(s) : s[i] \in Reports \ {"content"}
    BY ElementOfSeq
  <2>2. s \in Seq(Reports)
    BY SeqMonotonic
  <2> QED
    BY <2>1, <2>2, LenProperties
<1>2. Contents(n) \in Seq(Reports) /\ Len(Contents(n)) = n
  BY ContentsAreReports
<1>3. \A i \in 1..n : Contents(n)[i] = "content"
  BY DEF Contents
<1>4. /\ all \in Seq(Reports) /\ Len(all) = Len(s) + n
      /\ \A i \in 1..Len(s) + n :
           all[i] = IF i <= Len(s) THEN s[i] ELSE Contents(n)[i - Len(s)]
  <2>1. /\ all \in Seq(Reports) /\ Len(all) = Len(s) + Len(Contents(n))
        /\ \A i \in 1..Len(s) + Len(Contents(n)) :
             all[i] = IF i <= Len(s) THEN s[i] ELSE Contents(n)[i - Len(s)]
    BY <1>1, <1>2, ConcatProperties
  <2> QED
    BY <2>1, <1>2, Zenon
<1>5. DOMAIN all = 1..Len(s) + n
  BY <1>4, LenProperties
<1> HIDE DEF all
<1>6. \A i \in 1..Len(s) : all[i] # "content"
  BY <1>1, <1>4
<1>7. ASSUME NEW i \in Len(s) + 1..Len(s) + n
      PROVE  all[i] = "content"
  <2>1. i \in 1..Len(s) + n /\ ~(i <= Len(s)) /\ i - Len(s) \in 1..n
    BY <1>1
  <2>2. all[i] = Contents(n)[i - Len(s)]
    BY <2>1, <1>4
  <2> QED
    BY <2>1, <2>2, <1>3
<1>8. told = Len(s) + 1..Len(s) + n
  BY <1>1, <1>5, <1>6, <1>7
<1>9. Cardinality(Len(s) + 1..Len(s) + n) = n
  BY <1>1, FS_Interval
<1> QED
  BY <1>8, <1>9, Zenon DEF all

LEMMA EmittedCounts ==
  ASSUME NEW n \in Nat, wire = Begun \o Contents(n)
  PROVE  Emitted = n
<1>1. Opening \in Seq(Reports \ {"content"})
  BY DEF Opening, Reports
<1>2. <<"generating">> \in Seq(Reports \ {"content"})
  BY DEF Reports
<1>3. <<"retrieving", "fusing", "reranking", "prompting", "generating">>
        \in Seq(Reports \ {"content"})
  BY DEF Reports
<1>4. Begun \in Seq(Reports \ {"content"})
  <2>1. Direct \in Seq(Reports \ {"content"})
    BY <1>1, <1>2, ConcatProperties DEF Direct
  <2>2. Grounded \in Seq(Reports \ {"content"})
    BY <1>1, <1>3, ConcatProperties DEF Grounded
  <2> QED
    BY <2>1, <2>2 DEF Begun
<1>5. Cardinality({i \in DOMAIN (Begun \o Contents(n)) : (Begun \o Contents(n))[i] = "content"}) = n
  BY <1>4, CountContents
<1> QED
  BY <1>5, Zenon DEF Emitted

\* The fixed part of the stream.
LEMMA WireSays ==
  ASSUME PlaceTypes, WireShape,
         \/ Rewritten \/ Guide \/ Retrieved \/ Fused \/ Reranked
         \/ BeginReturns \/ MemoryLoaded
         \/ \E decision \in Routes : Classified(decision) /\ decision # "system_direct"
  PROVE  WireShape'
<1> USE DEF Send, Place
<1>1. CASE Rewritten
  <2>1. wire = <<"reply_to", "rewriting">>
    BY <1>1 DEF Rewritten, WireShape, OpeningShape
  <2>2. Place' = "intent" /\ wire' = Append(wire, "intent")
    BY <1>1 DEF Rewritten
  <2> HIDE DEF Place
  <2> QED
    BY <2>1, <2>2, OpeningGrows, WireSaid, Zenon
<1>2. CASE Guide
  <2>1. wire = Opening \o <<"clarification">>
    BY <1>2 DEF Guide, WireShape, OpeningShape
  <2>2. Place' = "clarified" /\ wire' = Append(wire, "guidance")
    BY <1>2 DEF Guide
  <2> HIDE DEF Place
  <2> QED
    BY <2>1, <2>2, OpeningGrows, WireSaid, Zenon
<1>3. CASE Retrieved
  <2>1. wire = Opening \o <<"retrieving">>
    BY <1>3 DEF Retrieved, WireShape, SearchingShape
  <2>2. Place' = "fusing" /\ wire' = Append(wire, "fusing")
    BY <1>3 DEF Retrieved
  <2> HIDE DEF Place
  <2> QED
    BY <2>1, <2>2, SearchingGrows, WireSaid, Zenon
<1>4. CASE Fused
  <2>1. wire = Opening \o <<"retrieving", "fusing">>
    BY <1>4 DEF Fused, WireShape, SearchingShape
  <2>2. \/ Place' = "no_context" /\ wire' = Append(wire, "no_context")
        \/ Place' = "reranking" /\ wire' = Append(wire, "reranking")
    BY <1>4 DEF Fused
  <2> HIDE DEF Place
  <2> QED
    BY <2>1, <2>2, SearchingGrows, WireSaid, Zenon
<1>5. CASE Reranked
  <2>1. wire = Opening \o <<"retrieving", "fusing", "reranking">>
    BY <1>5 DEF Reranked, WireShape, SearchingShape
  <2>2. Place' = "prompting" /\ wire' = Append(wire, "prompting")
    BY <1>5 DEF Reranked
  <2> HIDE DEF Place
  <2> QED
    BY <2>1, <2>2, SearchingGrows, WireSaid, Zenon
<1>6. CASE BeginReturns
  <2>1. wire = <<>>
    BY <1>6 DEF BeginReturns, WireShape, OpeningShape
  <2>2. Place' = "load_memory" /\ wire' = Append(wire, "reply_to")
    BY <1>6 DEF BeginReturns
  <2> HIDE DEF Place
  <2> QED
    BY <2>1, <2>2, OpeningGrows, WireSaid, Zenon
<1>7. CASE MemoryLoaded
  <2>1. wire = <<"reply_to">>
    BY <1>7 DEF MemoryLoaded, WireShape, OpeningShape
  <2>2. Place' = "rewriting" /\ wire' = Append(wire, "rewriting")
    BY <1>7 DEF MemoryLoaded
  <2> HIDE DEF Place
  <2> QED
    BY <2>1, <2>2, OpeningGrows, WireSaid, Zenon
<1>8. CASE \E decision \in Routes : Classified(decision) /\ decision # "system_direct"
  <2>1. wire = Opening
    BY <1>8 DEF Classified, WireShape, OpeningShape
  <2>2. \/ Place' = "guidance" /\ wire' = Append(wire, "clarification")
        \/ Place' \in {"resolving", "retrieving"} /\ wire' = Append(wire, "retrieving")
    BY <1>8 DEF Classified
  <2> HIDE DEF Place
  <2>3. Place' \in {"resolving", "retrieving"} => Place' \in {"resolving", "retrieving", "draining"}
    OBVIOUS
  <2> QED
    BY <2>1, <2>2, <2>3, OpeningGrows, WireSaid, Zenon
<1> QED
  BY <1>1, <1>2, <1>3, <1>4, <1>5, <1>6, <1>7, <1>8

\* The answer.
LEMMA WireAnswers ==
  ASSUME PlaceTypes, RouteShape, WireShape,
         \/ Prompted \/ Classified("system_direct") \/ ModelEnds \/ Sourced
         \/ \E delta \in BOOLEAN, reason \in {"none", "stop", "length"} : Chunk(delta, reason)
  PROVE  WireShape'
<1> USE DEF Send
<1>0. MaxChunks \in Nat
  BY PipelineAssumption
<1>1. CASE Prompted \/ Classified("system_direct")
  <2>1. wire' = Begun'
    <3>1. CASE Prompted
      <4>1. wire = Opening \o <<"retrieving", "fusing", "reranking", "prompting">>
        BY <3>1 DEF Prompted, WireShape, SearchingShape, Place
      <4>2. wire' = Append(wire, "generating")
        BY <3>1 DEF Prompted
      <4>3. route' # "system_direct"
        BY <3>1 DEF Prompted, RouteShape, Place
      <4> QED
        BY <4>1, <4>2, <4>3, SearchingGrows, Zenon DEF Begun
    <3>2. CASE Classified("system_direct")
      <4>1. wire = Opening
        BY <3>2 DEF Classified, WireShape, OpeningShape, Place
      <4>2. wire' = Append(wire, "generating") /\ route' = "system_direct"
        BY <3>2 DEF Classified
      <4> QED
        BY <4>1, <4>2, OpeningGrows, Zenon DEF Begun
    <3> QED
      BY <1>1, <3>1, <3>2
  <2>2. Begun' = Begun' \o Contents(0)
    BY NoContents, Zenon DEF Begun
  <2>3. Place' = "generating"
    BY <1>1 DEF Prompted, Classified, Place
  <2>4. 0 \in 0..MaxChunks
    BY <1>0
  <2>5. wire' = Begun' \o Contents(0)
    BY <2>1, <2>2, Zenon
  <2> QED
    BY <2>3, <2>4, <2>5, WireAnswered, Zenon
<1>2. ASSUME NEW delta \in BOOLEAN, NEW reason \in {"none", "stop", "length"},
             Chunk(delta, reason)
      PROVE  WireShape'
  <2>1. at = "generating" /\ route' = route /\ outcome' = outcome
    BY <1>2 DEF Chunk
  <2>2. CASE delta
    <3>1. PICK n \in 0..MaxChunks : wire = Begun \o Contents(n)
      BY <2>1, Zenon DEF WireShape, AnswerShape, Place
    <3>2. n \in Nat
      BY <1>0
    <3>3. Emitted = n
      BY <3>1, <3>2, EmittedCounts
    <3>4. Emitted < MaxChunks
      BY <1>2, <2>2 DEF Chunk
    <3>5. n + 1 \in 0..MaxChunks
      BY <1>0, <3>2, <3>3, <3>4
    <3>6. wire' = Append(wire, "content")
      BY <1>2, <2>2 DEF Chunk
    <3>7. /\ Append(Grounded \o Contents(n), "content") = Grounded \o Contents(n + 1)
          /\ Append(Direct \o Contents(n), "content") = Direct \o Contents(n + 1)
      BY <3>2, AnswersGrow
    <3>8. wire' = Begun' \o Contents(n + 1)
      BY <2>1, <3>1, <3>6, <3>7, Zenon DEF Begun
    <3>9. Place' = "generating"
      BY <1>2, <2>2 DEF Chunk, Place
    <3> QED
      BY <3>5, <3>8, <3>9, WireAnswered, Zenon
  <2>3. CASE ~delta
    <3>1. UNCHANGED <<wire, route, outcome>> /\ Place' = Place
      BY <1>2, <2>1, <2>3 DEF Chunk, Place
    <3> QED
      BY <3>1, WireKept
  <2> QED
    BY <2>2, <2>3
<1>3. CASE ModelEnds
  <2>1. at = "generating" /\ route' = route
    BY <1>3 DEF ModelEnds
  <2>2. PICK n \in 0..MaxChunks : wire = Begun \o Contents(n)
    BY <2>1, Zenon DEF WireShape, AnswerShape, Place
  <2>3. n \in Nat
    BY <1>0
  <2>4. /\ Append(Grounded \o Contents(n), "sources") = Grounded \o Contents(n) \o <<"sources">>
        /\ Append(Direct \o Contents(n), "completed") = DirectAnswer(n)
    BY <2>3, AnswersGrow
  <2>5. CASE route = "system_direct"
    <3>1. Place' = "answered" /\ wire' = Append(wire, "completed")
      BY <1>3, <2>5 DEF ModelEnds, Place
    <3>2. wire' = Answer(n)'
      BY <2>1, <2>2, <2>4, <2>5, <3>1, Zenon DEF Begun, Answer
    <3> QED
      BY <3>1, <3>2, WireAnswered, Zenon
  <2>6. CASE route # "system_direct"
    <3>1. Place' = "sourced" /\ wire' = Append(wire, "sources")
      BY <1>3, <2>6 DEF ModelEnds, Place
    <3>2. wire' = Grounded \o Contents(n) \o <<"sources">>
      BY <2>2, <2>4, <2>6, <3>1, Zenon DEF Begun
    <3> QED
      BY <3>1, <3>2, WireAnswered, Zenon
  <2> QED
    BY <2>5, <2>6
<1>4. CASE Sourced
  <2>1. at = "sourced" /\ route' = route /\ Place' = "answered"
          /\ wire' = Append(wire, "completed")
    BY <1>4 DEF Sourced, Place
  <2>2. PICK n \in 0..MaxChunks : wire = Grounded \o Contents(n) \o <<"sources">>
    BY <2>1, Zenon DEF WireShape, AnswerShape, Place
  <2>3. n \in Nat
    BY <1>0
  <2>4. Append(Grounded \o Contents(n) \o <<"sources">>, "completed") = GroundedAnswer(n)
    BY <2>3, AnswersGrow
  <2>5. route # "system_direct"
    BY <2>1 DEF RouteShape, Place
  <2>6. wire' = Answer(n)'
    BY <2>1, <2>2, <2>4, <2>5, Zenon DEF Answer
  <2> QED
    BY <2>1, <2>6, WireAnswered, Zenon
<1> QED
  BY <1>1, <1>2, <1>3, <1>4

\* The end of a request, and its failures.
LEMMA WireEnds ==
  ASSUME PlaceTypes, RunShape, WireShape,
         \/ BasicDone \/ Completed \/ RefreshEnds \/ SendErrorDone \/ Close
         \/ FailReturns \/ CancelReturns \/ RepositoryFails
  PROVE  WireShape'
<1> USE DEF Send, SendError, Raise
<1>1. CASE BasicDone
  <2>1. /\ \/ at = "clarified" /\ outcome' = "clarification"
           \/ at = "no_context" /\ outcome' = "no_context"
           \/ at = "answered" /\ outcome' = "completed"
        /\ at' = "completing" /\ wire' = wire /\ route' = route
    BY <1>1 DEF BasicDone
  <2>2. Place' = "completing" /\ Place = at
    BY <2>1 DEF Place
  <2>3. OpeningShape' /\ SearchingShape' /\ AnswerShape' /\ LeavingShape'
    BY <2>2, Zenon DEF OpeningShape, SearchingShape, AnswerShape, LeavingShape
  <2>4. OutcomeShape'
    BY <2>1, <2>2, Zenon
       DEF WireShape, OpeningShape, SearchingShape, AnswerShape, OutcomeShape, Answer
  <2> QED
    BY <2>3, <2>4 DEF WireShape
<1>2. CASE Completed
  <2>1. CASE outcome = "no_context"
    <3>1. Place' = "ended"
      BY <1>2, <2>1 DEF Completed, Place
    <3> QED
      BY <3>1, WireEnded
  <2>2. CASE outcome # "no_context"
    <3>1. /\ Place = "completing" /\ Place' = "refreshing"
          /\ wire' = wire /\ route' = route /\ outcome' = outcome
      BY <1>2, <2>2 DEF Completed, Place, answer
    <3>2. OpeningShape' /\ SearchingShape' /\ AnswerShape' /\ LeavingShape'
      BY <3>1, Zenon DEF OpeningShape, SearchingShape, AnswerShape, LeavingShape
    <3>3. OutcomeShape'
      BY <3>1, Zenon DEF WireShape, OutcomeShape, Answer
    <3> QED
      BY <3>2, <3>3 DEF WireShape
  <2> QED
    BY <2>1, <2>2
<1>3. CASE RefreshEnds \/ SendErrorDone
  <2>1. Place' = "ended"
    BY <1>3 DEF RefreshEnds, SendErrorDone, Place
  <2> QED
    BY <2>1, WireEnded
<1>4. CASE FailReturns \/ CancelReturns \/ RepositoryFails \/ Close
  <2>1. \/ Place' = "ended"
        \/ Place' \in {"failing", "cancelling"} /\ wire' = wire
        \/ Place' = "error_done" /\ wire' = Append(wire, "error")
    BY <1>4 DEF FailReturns, CancelReturns, RepositoryFails, Close, CloseInner, Place
  <2>2. Place' # "ended" => Place \notin {"error_done", "ended"}
    BY <1>4 DEF FailReturns, CancelReturns, RepositoryFails, RepositoryCalls, Close, Place
  <2>3. CASE Place' = "ended"
    BY <2>3, WireEnded
  <2>4. CASE Place' # "ended"
    <3>1. Unfinished(wire)
      BY <2>2, <2>4, UnfinishedHere
    <3>2. CASE Place' \in {"failing", "cancelling"} /\ wire' = wire
      <4>1. Unfinished(wire')
        BY <3>1, <3>2, Zenon
      <4> QED
        BY <3>2, <4>1, WireLeft
    <3>3. CASE Place' = "error_done" /\ wire' = Append(wire, "error")
      BY <3>1, <3>3, WireError
    <3> QED
      BY <2>1, <2>4, <3>2, <3>3
  <2> QED
    BY <2>3, <2>4
<1> QED
  BY <1>1, <1>2, <1>3, <1>4

\* Going on, stopping the searches, and leaving.
LEMMA WireGoesOn ==
  ASSUME PlaceTypes, RunShape, WireShape,
         \/ Breaks \/ Elsewhere \/ Resume \/ Resolved \/ Drained \/ RetrievalTimesOut
         \/ Cancel \/ CancelRetrieval
         \/ \E q \in Questions : SearchFails(q)
  PROVE  WireShape'
<1>1. CASE Elsewhere
  <2>1. UNCHANGED <<wire, route, outcome>> /\ Place' = Place
    BY <1>1 DEF Elsewhere, SearchAnswers, SearchStops, DeadlinePasses, FinalizerCloses, vars,
                answer, pipeline, Place
  <2> QED
    BY <2>1, WireKept
<1>2. CASE Resume \/ Resolved
  <2>1. \/ Place' = Place /\ UNCHANGED <<wire, route, outcome>>
        \/ /\ Place = "resolving" /\ Place' = "retrieving" /\ UNCHANGED wire
        \/ /\ Place' = "failing" /\ Place \in Bounded \cup {"resolving"} /\ UNCHANGED wire
    BY <1>2 DEF Resume, Resolved, Enter, Raise, answer, Place, PlaceTypes, Resumptions,
                AfterRetrieval
  <2>2. CASE Place' = Place /\ UNCHANGED <<wire, route, outcome>>
    BY <2>2, WireKept
  <2>3. CASE Place = "resolving" /\ Place' = "retrieving" /\ UNCHANGED wire
    <3>1. wire = Opening \o <<"retrieving">>
      BY <2>3, Zenon DEF WireShape, SearchingShape
    <3> QED
      BY <2>3, <3>1, WireSaid, Zenon
  <2>4. CASE Place' = "failing" /\ Place \in Bounded \cup {"resolving"} /\ UNCHANGED wire
    <3>1. Place \notin {"error_done", "ended"}
      BY <2>4 DEF Bounded
    <3>2. Unfinished(wire')
      BY <2>4, <3>1, UnfinishedHere, Zenon
    <3> QED
      BY <2>4, <3>2, WireLeft
  <2> QED
    BY <2>1, <2>2, <2>3, <2>4
<1>3. CASE \/ RetrievalTimesOut \/ CancelRetrieval
           \/ \E q \in Questions : SearchFails(q)
  <2>1. /\ Place \in {"retrieving", "draining"} /\ UNCHANGED wire
        /\ Place' \in {"draining", "cancelling"}
    BY <1>3 DEF RetrievalTimesOut, CancelRetrieval, SearchFails, Drain, Place
  <2>2. wire = Opening \o <<"retrieving">>
    BY <2>1, Zenon DEF WireShape, SearchingShape
  <2>3. CASE Place' = "draining"
    <3>1. Place' \in {"resolving", "retrieving", "draining"} /\ wire' = Opening \o <<"retrieving">>
      BY <2>1, <2>2, <2>3, Zenon
    <3> QED
      BY <3>1, WireSaid, Zenon
  <2>4. CASE Place' = "cancelling"
    <3>1. Unfinished(wire')
      BY <2>1, <2>2, UnfinishedOthers, Zenon
    <3> QED
      BY <2>4, <3>1, WireLeft
  <2> QED
    BY <2>1, <2>3, <2>4
<1>4. CASE Breaks \/ Drained \/ Cancel
  <2>1. UNCHANGED wire /\ Place' \in {"failing", "cancelling", "ended"}
    BY <1>4 DEF Breaks, ChunkOutOfProtocol, ModelEndsIncomplete, StageRaises, TimesOut, Raise,
                Drained, Cancel, CloseInner, Place
  <2>2. Place \notin {"error_done", "ended"}
    BY <1>4 DEF Breaks, ChunkOutOfProtocol, ModelEndsIncomplete, StageRaises, TimesOut,
                Drained, Cancel, Stages, Bounded, Awaits, RepositoryCalls, Place
  <2>3. Unfinished(wire')
    BY <2>1, <2>2, UnfinishedHere, Zenon
  <2> QED
    BY <2>1, <2>3, WireLeft, WireEnded
<1> QED
  BY <1>1, <1>2, <1>3, <1>4, Zenon

LEMMA Wiring ==
  ASSUME PlaceTypes, RouteShape, RunShape, WireShape, [Next]_vars
  PROVE  WireShape'
<1>1. \/ Rewritten \/ Guide \/ Retrieved \/ Fused \/ Reranked \/ Prompted
      \/ ModelEnds \/ Sourced \/ RefreshEnds \/ SendErrorDone
      \/ Breaks \/ Elsewhere
      \/ \E decision \in Routes : Classified(decision) /\ decision # "system_direct"
      \/ Classified("system_direct")
      \/ \E q \in Questions : SearchFails(q)
      \/ \E delta \in BOOLEAN, reason \in {"none", "stop", "length"} : Chunk(delta, reason)
      \/ Resume \/ Resolved \/ BasicDone \/ Drained
      \/ BeginReturns \/ MemoryLoaded \/ Completed \/ FailReturns \/ CancelReturns
      \/ RetrievalTimesOut \/ Cancel \/ CancelRetrieval \/ Close \/ RepositoryFails
  BY Cases, Zenon DEF Tells
<1> QED
  BY <1>1, WireSays, WireAnswers, WireEnds, WireGoesOn, Zenon

-----------------------------------------------------------------------------
(* The last frames                                                         *)

LEMMA FollowsIsContract ==
  WireFollowsContract <=> Follows(wire)
BY Zenon DEF WireFollowsContract, Follows

\* Before the end the client has part of a stream and no done event.
LEMMA NotDoneYet ==
  ASSUME PlaceTypes, RunShape, WireShape, Place # "ended"
  PROVE  /\ WireFollowsContract
         /\ wire \in Seq(Frames)
         /\ wire # <<>> => Last(wire) \in Reports \cup {"error"}
<1>1. CASE Place = "error_done"
  <2>1. PICK told : Unfinished(told) /\ wire = Append(told, "error")
    BY <1>1, Zenon DEF WireShape, LeavingShape
  <2>2. Follows(wire)
    BY <2>1, UnfinishedFollows, Zenon
  <2>3. told \in Seq(Frames)
    BY <2>1, UnfinishedIs, ReportsAreFrames
  <2>4. "error" \in Frames
    BY DEF Frames
  <2>5. wire \in Seq(Frames) /\ Len(wire) = Len(told) + 1 /\ wire[Len(told) + 1] = "error"
    BY <2>1, <2>3, <2>4, AppendProperties
  <2>6. Last(wire) = "error"
    BY <2>5, Zenon DEF Last
  <2> QED
    BY <2>2, <2>5, <2>6, FollowsIsContract
<1>2. CASE Place # "error_done"
  <2>1. Unfinished(wire)
    BY <1>2, UnfinishedHere
  <2>2. Follows(wire)
    BY <2>1, UnfinishedFollows, Zenon
  <2>3. wire \in Seq(Reports)
    BY <2>1, UnfinishedIs
  <2>4. wire # <<>> => Len(wire) \in 1..Len(wire)
    BY <2>3, EmptySeq
  <2>5. wire # <<>> => wire[Len(wire)] \in Reports
    BY <2>3, <2>4, ElementOfSeq
  <2> QED
    BY <2>2, <2>3, <2>5, FollowsIsContract, ReportsAreFrames DEF Last
<1> QED
  BY <1>1, <1>2

LEMMA NoDoneIsTrue ==
  ASSUME PlaceTypes, RunShape, WireShape, Place # "ended"
  PROVE  /\ DoneTellsTheRun
         /\ wire' = wire => DoneTellsTheRun'
<1>1. wire # <<>> => Last(wire) \in Reports \cup {"error"}
  BY NotDoneYet
<1>2. wire # <<>> => /\ \A result \in Outcomes : Last(wire) # DoneEvent(result)
                     /\ Last(wire) # "done_error"
  <2>1. wire # <<>> => Last(wire) \notin Endings \cup {"done_error"}
    BY <1>1 DEF Reports, Endings
  <2>2. \A result \in Outcomes : DoneEvent(result) \in Endings
    BY DEF Outcomes, DoneEvent, Endings
  <2> QED
    BY <2>1, <2>2
<1> QED
  BY <1>2, Zenon DEF DoneTellsTheRun, Outcomes

LEMMA LastAppended ==
  ASSUME NEW s \in Seq(Frames), NEW last \in Frames
  PROVE  Append(s, last) # <<>> /\ Last(Append(s, last)) = last
BY AppendProperties DEF Last

LEMMA Ending ==
  ASSUME PlaceTypes, RunShape, WireShape, EndShape, [Next]_vars
  PROVE  EndShape'
<1> SUFFICES ASSUME Place' = "ended"
             PROVE  WireFollowsContract' /\ DoneTellsTheRun'
  BY DEF EndShape
<1>1. ASSUME wire' = wire, Place # "ended"
      PROVE  WireFollowsContract' /\ DoneTellsTheRun'
  <2>1. WireFollowsContract'
    <3>1. Follows(wire')
      BY <1>1, NotDoneYet, FollowsIsContract, Zenon
    <3> QED
      BY <3>1, Zenon DEF WireFollowsContract, Follows
  <2> QED
    BY <2>1, <1>1, NoDoneIsTrue
<1>2. ASSUME wire' = wire, Place = "ended", run' = run,
             faults' >= faults, cancels' >= cancels
      PROVE  WireFollowsContract' /\ DoneTellsTheRun'
  <2>1. WireFollowsContract /\ DoneTellsTheRun
    BY <1>2 DEF EndShape
  <2>2. WireFollowsContract'
    BY <2>1, <1>2, Zenon DEF WireFollowsContract
  <2>3. faults > 0 => faults' > 0
    BY <1>2, Types DEF PlaceTypes
  <2>4. cancels > 0 => cancels' > 0
    BY <1>2, Types DEF PlaceTypes
  <2> QED
    BY <2>1, <2>2, <2>3, <2>4, <1>2, Zenon DEF DoneTellsTheRun
<1>3. ASSUME Place \in {"completing", "refreshing"}, outcome \in Outcomes,
             wire' = Append(wire, DoneEvent(outcome)), run' = outcome
      PROVE  WireFollowsContract' /\ DoneTellsTheRun'
  <2>1. wire \in Seq(Frames)
    BY <1>3, NotDoneYet
  <2>2. DoneEvent(outcome) \in Endings
    BY <1>3 DEF DoneEvent, Outcomes, Endings
  <2>3. wire' # <<>> /\ Last(wire') = DoneEvent(outcome)
    BY <1>3, <2>1, <2>2, LastAppended DEF Frames
  <2>4. wire' \in Contract
    <3>1. CASE outcome = "clarification"
      <4>1. wire' = Append(Guided, "done_clarification")
        BY <1>3, <3>1 DEF WireShape, OutcomeShape, DoneEvent
      <4> QED
        BY <4>1, WholesAreComplete, Zenon
    <3>2. CASE outcome = "no_context"
      <4>1. wire' = Append(NoContext, "done_no_context")
        BY <1>3, <3>2 DEF WireShape, OutcomeShape, DoneEvent
      <4> QED
        BY <4>1, WholesAreComplete, Zenon
    <3>3. CASE outcome = "completed"
      <4>1. PICK n \in 0..MaxChunks : wire = Answer(n)
        BY <1>3, <3>3, Zenon DEF WireShape, OutcomeShape
      <4>2. DoneEvent(outcome) = "done_completed"
        BY <3>3 DEF DoneEvent
      <4> QED
        BY <1>3, <4>1, <4>2, WholesAreComplete, Zenon DEF Answer
    <3> QED
      BY <1>3, <3>1, <3>2, <3>3 DEF Outcomes
  <2>5. WireFollowsContract'
    <3>1. Follows(wire')
      BY <2>4, CompleteFollows
    <3> QED
      BY <3>1, Zenon DEF WireFollowsContract, Follows
  <2>6. \A result \in Outcomes : Last(wire') = DoneEvent(result) => run' = result
    BY <1>3, <2>3 DEF DoneEvent, Outcomes
  <2>7. Last(wire') # "done_error"
    BY <2>2, <2>3 DEF Endings
  <2> QED
    BY <2>5, <2>6, <2>7, Zenon DEF DoneTellsTheRun, Outcomes
<1>4. CASE SendErrorDone
  <2>1. /\ at = "error_done" /\ wire' = Append(wire, "done_error")
        /\ UNCHANGED <<run, faults, cancels>>
    BY <1>4 DEF SendErrorDone, Send, DoneEvent, pipeline, counters
  <2>2. Place = "error_done"
    BY <2>1 DEF Place
  <2>3. PICK told : Unfinished(told) /\ wire = Append(told, "error")
    BY <2>2, Zenon DEF WireShape, LeavingShape
  <2>4. Follows(wire')
    BY <2>1, <2>3, UnfinishedFollows, Zenon
  <2>5. WireFollowsContract'
    BY <2>4, Zenon DEF WireFollowsContract, Follows
  <2>6. wire \in Seq(Frames)
    BY <2>2, NotDoneYet
  <2>7. Last(wire') = "done_error"
    BY <2>1, <2>6, LastAppended DEF Frames
  <2>8. \A result \in Outcomes : Last(wire') # DoneEvent(result)
    BY <2>7 DEF Outcomes, DoneEvent
  <2>9. run = "failed" \/ cancels > 0 \/ faults > 0
    BY <2>2 DEF RunShape
  <2> QED
    BY <2>1, <2>5, <2>8, <2>9, Zenon DEF DoneTellsTheRun, Outcomes
<1>5. CASE RefreshEnds
  <2>1. /\ Place = "refreshing" /\ wire' = Append(wire, DoneEvent(outcome)) /\ run' = run
    BY <1>5 DEF RefreshEnds, Send, pipeline, Place
  <2>2. outcome \in Outcomes /\ run = outcome
    BY <2>1 DEF RunShape
  <2> QED
    BY <2>1, <2>2, <1>3
<1>6. CASE Completed
  <2>1. outcome = "no_context"
    BY <1>6 DEF Completed, Place
  <2>2. /\ Place = "completing" /\ wire' = Append(wire, DoneEvent(outcome)) /\ run' = outcome
    BY <1>6, <2>1 DEF Completed, Send, Place
  <2> QED
    BY <2>1, <2>2, <1>3 DEF Outcomes
<1>7. CASE Elsewhere \/ Resume \/ Close
  <2>1. /\ wire' = wire /\ run' = run /\ faults' = faults
        /\ cancels' = cancels \/ cancels' = cancels + 1
    BY <1>7 DEF Elsewhere, SearchAnswers, SearchStops, DeadlinePasses, FinalizerCloses, vars,
                Resume, Close, CountCancel, pipeline, counters
  <2>2. faults' >= faults /\ cancels' >= cancels
    BY <2>1 DEF PlaceTypes
  <2> QED
    BY <2>1, <2>2, <1>1, <1>2
<1>8. CASE Cancel \/ CancelReturns \/ RepositoryFails
  <2>1. wire' = wire
    BY <1>8 DEF Cancel, CancelReturns, RepositoryFails, CloseInner, SendError, Send, Raise, Place
  <2>2. Place # "ended"
    BY <1>8 DEF Cancel, CancelReturns, RepositoryFails, Awaits, Stages, Bounded,
                RepositoryCalls, Place
  <2> QED
    BY <2>1, <2>2, <1>1
<1>9. CASE \/ Breaks \/ Resolved \/ BasicDone \/ Drained \/ FailReturns
           \/ RetrievalTimesOut \/ CancelRetrieval
           \/ \E q \in Questions : SearchFails(q)
           \/ \E decision \in Routes : Classified(decision)
  BY <1>9 DEF Breaks, ChunkOutOfProtocol, ModelEndsIncomplete, StageRaises, TimesOut, Raise,
              Resolved, Enter, BasicDone, Drained, FailReturns, SendError, Send, Classified,
              RetrievalTimesOut, CancelRetrieval, Drain, SearchFails, Place
<1>10. CASE \/ Rewritten \/ Guide \/ Retrieved \/ Fused \/ Reranked \/ Prompted
            \/ ModelEnds \/ Sourced \/ BeginReturns \/ MemoryLoaded
  BY <1>10 DEF Rewritten, Guide, Retrieved, Fused, Reranked, Prompted, ModelEnds, Sourced,
               BeginReturns, MemoryLoaded, Send, Place
<1>11. ASSUME NEW delta \in BOOLEAN, NEW reason \in {"none", "stop", "length"},
              Chunk(delta, reason)
       PROVE  WireFollowsContract' /\ DoneTellsTheRun'
  BY <1>11 DEF Chunk, Send, Place
<1> QED
  BY <1>4, <1>5, <1>6, <1>7, <1>8, <1>9, <1>10, <1>11, Cases, Zenon DEF Tells

-----------------------------------------------------------------------------
(* The invariant                                                           *)

LEMMA Begins ==
  ASSUME Init
  PROVE  IInv
<1>1. Place = "begin_run"
  BY DEF Init, Place
<1>2. PlaceTypes
  BY DEF Init, PlaceTypes, Places, Unsettled, BeforeRetrieval, Resumptions
<1>3. RouteShape /\ EndShape
  BY <1>1 DEF RouteShape, EndShape
<1>4. SearchShape
  BY DEF Init, SearchShape, SearchesAre, InRetrieval
<1>5. RunShape
  BY <1>1 DEF Init, RunShape
<1>6. WireShape
  BY <1>1, Zenon
     DEF Init, WireShape, OpeningShape, SearchingShape, AnswerShape, OutcomeShape, LeavingShape
<1> QED
  BY <1>2, <1>3, <1>4, <1>5, <1>6 DEF IInv

\* Where the stack stands tells what the client has received, what the run row
\* says and which searches may still be running.
THEOREM RequestIsConsistent == Spec => []IInv
<1>1. Init => IInv
  BY Begins
<1>2. IInv /\ [Next]_vars => IInv'
  BY Types, Routing, Searching, Running, Wiring, Ending DEF IInv
<1> QED
  BY <1>1, <1>2, PTL DEF Spec

\* The frames the client received are a prefix of a stream of ADR-0005, or of
\* one that was cut short by one error and its done(error), whatever fails,
\* times out or is cancelled between two frames of _stream_sse.
THEOREM FramesFollowContract == Spec => []WireFollowsContract
<1>1. IInv => WireFollowsContract
  BY NotDoneYet DEF IInv, EndShape
<1> QED
  BY <1>1, RequestIsConsistent, PTL

\* A done event agrees with the row that complete_run or fail_run left.
THEOREM DoneAgreesWithTheRun == Spec => []DoneTellsTheRun
<1>1. IInv => DoneTellsTheRun
  BY NoDoneIsTrue DEF IInv, EndShape
<1> QED
  BY <1>1, RequestIsConsistent, PTL

\* _retrieve_all leaves no search behind, but for a cancellation that arrives
\* while it collects those it stopped.
THEOREM NoSearchIsLeft == Spec => []SearchesAreCollected
<1>1. IInv => SearchesAreCollected
  BY DEF IInv, SearchShape, SearchesAre, InRetrieval, SearchesAreCollected
<1> QED
  BY <1>1, RequestIsConsistent, PTL
====
