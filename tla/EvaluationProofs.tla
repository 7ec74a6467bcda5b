------------------------- MODULE EvaluationProofs -------------------------
(***************************************************************************)
(* What the evaluation programs keep, spend and leave behind, for any      *)
(* dataset, manifest, limits, corpus, processes and faults.                *)
(*                                                                         *)
(* The intent evaluations: the lock admits one process, and for a process  *)
(* that is alone the cache on disk is either the one it holds or one       *)
(* record behind it; so each call sent is on disk, lost or under way, and  *)
(* the cases that a gate was computed from stay on disk.                   *)
(*                                                                         *)
(* The import of the corpus: the documents before its position in the      *)
(* corpus are settled, at the snapshot's content or changed by a client,   *)
(* and it ingests only a document that is not at the snapshot's content.   *)
(*                                                                         *)
(* The retrieval reports: the results of a run are those of the first      *)
(* samples and each paid call is in one of them or under way, so that a    *)
(* finished report counts everything; and better ranks give no worse sums. *)
(*                                                                         *)
(* The intent reports: a stage has collected the cases of its ids, and a   *)
(* written report is about cases that stay on disk; its slices, buckets    *)
(* and counts are partitions of those cases.                               *)
(***************************************************************************)
EXTENDS EvaluationPrograms, FiniteSetTheorems, SequenceTheorems, TLAPS

AllExperiments == UNION {Experiments[name] : name \in Programs}
AllReplies == UNION {Replies[name] : name \in Programs}
StageNames == {"failures", "guard", "full", "development", "challenge"}
Cases == {CaseResult(id, scores, HighConfidenceThreshold, AmbiguityMargin) :
            id \in AllIds, scores \in AllReplies}
CacheRecords == [experiment : AllExperiments, completed : Seq(Cases), failed : Seq(AllIds)]

CallPcs == {"waiting", "record", "fill", "rename"}
WorkPcs == CallPcs \cup {"next", "full_report", "output", "unlink"}

StartedRuns == [pc : {"load", "exit"}, stage : StageNames, experiment : AllExperiments]
LoadedRuns ==
  [pc : WorkPcs \cup {"exit"}, stage : StageNames, experiment : AllExperiments,
   cache : CacheRecords, before : Int, new : Nat, pending : SUBSET Nat,
   current : AllIds \cup {None}, degraded : BOOLEAN]

TypeOK ==
  /\ program \in Programs
  /\ lock \in BOOLEAN /\ overlapped \in BOOLEAN /\ killed \in BOOLEAN
  /\ cache \in CacheRecords \cup {Absent, Torn}
  /\ temporary \in CacheRecords \cup {Absent, Torn}
  /\ run \in [Processes -> {Idle} \cup StartedRuns \cup LoadedRuns]
  /\ starts \in Nat /\ faults \in Nat
  /\ sent \in [AllIds -> Nat] /\ lost \in [AllIds -> Nat]

\* A cache that a program may have written.
ValidCache(file) ==
  /\ file \in CacheRecords
  /\ CacheIsValid(file, IdsOf)
  /\ program = "full" => IsPrefix(QueryIds(file.completed), Dataset)

Working(p) == run[p].pc \in WorkPcs
IdsFor(p) == StageIds(run[p].stage, run[p].experiment.manifest)

\* What a process still has to send, and in what order the full program sends it.
WorklistShape(p) ==
  /\ IdsFor(p) \in Seq(IdsOf) /\ IsInjective(IdsFor(p))
  /\ program = "staged" => ManifestIsValid(run[p].experiment.manifest)
  /\ run[p].pending \subseteq DOMAIN IdsFor(p)
  /\ run[p].pc \in CallPcs \cup {"next"} =>
       \A i \in run[p].pending : IdsFor(p)[i] \notin CompletedIds(run[p].cache)
  /\ run[p].pc \in CallPcs => run[p].current \in IdsOf
  /\ run[p].pc = "waiting" =>
       /\ run[p].current \notin CompletedIds(run[p].cache)
       /\ \A i \in run[p].pending : IdsFor(p)[i] # run[p].current

OrderShape(p) ==
  LET done == Len(run[p].cache.completed)
  IN /\ run[p].pc = "next" => run[p].pending = (done + 1)..Len(Dataset)
     /\ run[p].pc = "waiting" =>
          /\ done + 1 \in DOMAIN Dataset /\ run[p].current = Dataset[done + 1]
          /\ run[p].pending = (done + 2)..Len(Dataset)
     /\ run[p].pc \in {"record", "fill", "rename"} /\ ~run[p].degraded =>
          run[p].pending = (done + 1)..Len(Dataset)

RunShape(p) ==
  /\ run[p] # Idle => run[p].stage \in StagesOf /\ run[p].experiment \in Experiments[program]
  /\ Working(p) =>
       /\ run[p].cache.experiment = run[p].experiment
       /\ ValidCache(run[p].cache)
       /\ WorklistShape(p)
       /\ program = "full" => OrderShape(p)
  /\ run[p].pc = "full_report" => program = "staged"
  /\ run[p].pc \in {"output", "unlink"} =>
       program = "full" /\ IsCompleteSequence(run[p].cache.completed)

LockShape ==
  /\ Locks => lock = (Live # {} \/ killed) /\ (killed => Live = {}) /\ ~overlapped
  /\ ~overlapped => \A p, q \in Live : p = q

FileShape ==
  /\ Readable(cache) => ValidCache(cache)
  /\ Readable(temporary) => ValidCache(temporary)
  /\ ~overlapped => cache # Torn
  /\ fullReport = Torn => faults > 0 \/ \E p \in Live : run[p].pc = "output"

\* The result of the call under way, which is in memory and not yet on disk.
OneRecordAhead(p) ==
  IF run[p].degraded
  THEN /\ run[p].cache.completed = Completed(cache)
       /\ run[p].cache.failed = Append(Failed(cache), run[p].current)
  ELSE /\ run[p].cache.failed = Failed(cache)
       /\ \E case \in Cases : /\ case.query_id = run[p].current
                              /\ run[p].cache.completed = Append(Completed(cache), case)

\* The files of a process that is alone.
DiskShape(p) ==
  /\ Readable(cache) => cache.experiment = run[p].experiment
  /\ run[p].pc \in {"record", "fill", "rename"} => OneRecordAhead(p)
  /\ run[p].pc \notin {"record", "fill", "rename"} =>
       /\ run[p].cache.completed = Completed(cache)
       /\ run[p].cache.failed = Failed(cache)
  /\ run[p].pc = "fill" => temporary = Torn
  /\ run[p].pc = "rename" => temporary = run[p].cache
  /\ run[p].pc = "unlink" => fullReport = FullReportOf(p)

AccountShape ==
  \A id \in AllIds : sent[id] = RecordsOf(id) + FailuresOf(id) + lost[id] + CallsInFlight(id)

\* The gates that the stage of a process asks for.
GateShape(p) ==
  /\ program = "staged" /\ run[p].stage \in {"guard", "full"} => Screened
  /\ program = "staged" /\ run[p].stage = "full" => Guarded
  /\ program = "candidate" /\ run[p].stage = "challenge" => Developed

IInv ==
  /\ TypeOK
  /\ \A p \in Processes : RunShape(p)
  /\ LockShape
  /\ FileShape
  /\ ~overlapped => /\ \A p \in Processes : Working(p) => DiskShape(p)
                    /\ AccountShape
  /\ \A p \in Processes : Working(p) => GateShape(p)
  /\ SpendingIsGated

-----------------------------------------------------------------------------
(* Files, cases and records                                                *)

LEMMA FileKinds ==
  /\ Absent # Torn
  /\ \A file \in CacheRecords : Readable(file)
<1>1. Absent # Torn
  BY DEF Absent, Torn
<1>2. ASSUME NEW file \in CacheRecords PROVE file # Absent /\ file # Torn
  <2>1. "experiment" \in DOMAIN file
    BY DEF CacheRecords
  <2>2. "experiment" \notin DOMAIN Absent /\ "experiment" \notin DOMAIN Torn
    BY DEF Absent, Torn
  <2>3. QED  BY <2>1, <2>2
<1>3. QED  BY <1>1, <1>2 DEF Readable

LEMMA FileType ==
  ASSUME TypeOK
  PROVE  /\ Readable(cache) => cache \in CacheRecords
         /\ Completed(cache) \in Seq(Cases) /\ Failed(cache) \in Seq(AllIds)
BY FileKinds DEF TypeOK, Readable, Completed, Failed, CacheRecords

LEMMA CaseFields ==
  /\ \A case \in Cases : case.query_id \in AllIds /\ case.scores \in AllReplies
  /\ \A id, scores : CaseResult(id, scores, HighConfidenceThreshold, AmbiguityMargin).query_id = id
BY DEF Cases, CaseResult

LEMMA ScoresAreKept ==
  ASSUME NEW case \in Cases
  PROVE  case.scores # <<>>
<1>1. case.scores \in [1..3 -> Nat]
  BY CaseFields, EvaluationAssumption DEF AllReplies
<1>2. 1 \in DOMAIN case.scores
  BY <1>1
<1>3. QED  BY <1>2

\* What one record more adds to a cache.
LEMMA AppendedIds ==
  ASSUME NEW done \in Seq(Cases), NEW case \in Cases
  PROVE  /\ Append(done, case) \in Seq(Cases)
         /\ {Append(done, case)[i].query_id : i \in DOMAIN Append(done, case)}
              = {done[i].query_id : i \in DOMAIN done} \cup {case.query_id}
         /\ QueryIds(Append(done, case)) = Append(QueryIds(done), case.query_id)
<1> DEFINE more == Append(done, case)
<1>1. /\ more \in Seq(Cases) /\ DOMAIN more = 1..(Len(done) + 1) /\ DOMAIN done = 1..Len(done)
      /\ Len(more) = Len(done) + 1
      /\ \A i \in 1..Len(done) : more[i] = done[i]
      /\ more[Len(done) + 1] = case
  OBVIOUS
<1> HIDE DEF more
<1>2. {more[i].query_id : i \in DOMAIN more} = {done[i].query_id : i \in DOMAIN done} \cup {case.query_id}
  <2>1. ASSUME NEW i \in DOMAIN more
        PROVE  more[i].query_id \in {done[j].query_id : j \in DOMAIN done} \cup {case.query_id}
    BY <1>1
  <2>2. ASSUME NEW i \in DOMAIN done PROVE done[i].query_id \in {more[j].query_id : j \in DOMAIN more}
    <3>1. i \in DOMAIN more /\ more[i] = done[i]
      BY <1>1
    <3>2. QED  BY <3>1
  <2>3. case.query_id \in {more[j].query_id : j \in DOMAIN more}
    <3>1. Len(done) + 1 \in DOMAIN more
      BY <1>1
    <3>2. QED  BY <3>1, <1>1
  <2>4. QED  BY <2>1, <2>2, <2>3
<1>3. QueryIds(more) = Append(QueryIds(done), case.query_id)
  <2>1. /\ QueryIds(more) = [i \in 1..(Len(done) + 1) |-> more[i].query_id]
        /\ QueryIds(done) = [i \in 1..Len(done) |-> done[i].query_id]
    BY <1>1 DEF QueryIds
  <2>2. Len(QueryIds(done)) = Len(done)
    BY <2>1
  <2>3. Append(QueryIds(done), case.query_id) =
          [i \in 1..(Len(done) + 1) |-> IF i <= Len(done) THEN QueryIds(done)[i] ELSE case.query_id]
    BY <2>2
  <2>4. ASSUME NEW i \in 1..(Len(done) + 1)
        PROVE  more[i].query_id = IF i <= Len(done) THEN QueryIds(done)[i] ELSE case.query_id
    BY <1>1, <2>1
  <2>5. QED  BY <2>1, <2>3, <2>4
<1>4. QED  BY <1>1, <1>2, <1>3 DEF more

LEMMA StaysInjective ==
  ASSUME NEW done \in Seq(Cases), NEW case \in Cases,
         IsInjective(QueryIds(done)),
         case.query_id \notin {done[i].query_id : i \in DOMAIN done}
  PROVE  IsInjective(QueryIds(Append(done, case)))
<1> DEFINE more == Append(done, case)
<1>1. /\ DOMAIN more = 1..(Len(done) + 1) /\ DOMAIN done = 1..Len(done)
      /\ \A i \in 1..Len(done) : more[i] = done[i]
      /\ more[Len(done) + 1] = case
  OBVIOUS
<1> HIDE DEF more
<1>2. SUFFICES ASSUME NEW i \in DOMAIN more, NEW j \in DOMAIN more,
                      more[i].query_id = more[j].query_id
               PROVE  i = j
  BY DEF IsInjective, QueryIds, more
<1>3. \A k, l \in DOMAIN done : done[k].query_id = done[l].query_id => k = l
  BY DEF IsInjective, QueryIds
<1>4. \A k \in DOMAIN done : done[k].query_id # case.query_id
  OBVIOUS
<1>5. QED  BY <1>1, <1>2, <1>3, <1>4

\* Records of one id, and how one more counts.
CountIn(done, id) == Cardinality({i \in DOMAIN done : done[i] = id})

LEMMA CountType ==
  ASSUME NEW S, NEW done \in Seq(S), NEW id
  PROVE  /\ IsFiniteSet({i \in DOMAIN done : done[i] = id})
         /\ CountIn(done, id) \in Nat
<1>1. IsFiniteSet(1..Len(done)) /\ DOMAIN done = 1..Len(done)
  BY FS_Interval
<1>2. IsFiniteSet({i \in DOMAIN done : done[i] = id})
  BY <1>1, FS_Subset
<1>3. QED  BY <1>2, FS_CardinalityType DEF CountIn

LEMMA CountAppend ==
  ASSUME NEW S, NEW done \in Seq(S), NEW x \in S, NEW id
  PROVE  CountIn(Append(done, x), id) = CountIn(done, id) + (IF x = id THEN 1 ELSE 0)
<1> DEFINE more == Append(done, x)
           Old == {i \in DOMAIN done : done[i] = id}
           New == {i \in DOMAIN more : more[i] = id}
<1>1. /\ DOMAIN more = 1..(Len(done) + 1) /\ DOMAIN done = 1..Len(done) /\ Len(done) \in Nat
      /\ \A i \in 1..Len(done) : more[i] = done[i]
      /\ more[Len(done) + 1] = x
  OBVIOUS
<1>2. IsFiniteSet(Old) /\ Cardinality(Old) \in Nat
  BY CountType DEF CountIn
<1>3. CASE x = id
  <2>1. New = Old \cup {Len(done) + 1}
    BY <1>1, <1>3
  <2>2. Len(done) + 1 \notin Old
    BY <1>1
  <2> HIDE DEF Old, New
  <2>3. Cardinality(New) = Cardinality(Old) + 1
    BY <1>2, <2>1, <2>2, FS_AddElement
  <2>4. QED  BY <2>3, <1>3 DEF CountIn, Old, New
<1>4. CASE x # id
  <2>1. New = Old
    BY <1>1, <1>4
  <2> HIDE DEF Old, New
  <2>2. Cardinality(New) = Cardinality(Old) + 0
    BY <2>1, <1>2
  <2>3. QED  BY <2>2, <1>4 DEF CountIn, Old, New
<1>5. QED  BY <1>3, <1>4

LEMMA RecordsAreCounted ==
  ASSUME NEW id
  PROVE  /\ RecordsOf(id) = CountIn(QueryIds(Completed(cache)), id)
         /\ FailuresOf(id) = CountIn(Failed(cache), id)
         /\ RecordsOf(id)' = CountIn(QueryIds(Completed(cache')), id)
         /\ FailuresOf(id)' = CountIn(Failed(cache'), id)
<1>1. ASSUME NEW done PROVE {i \in DOMAIN done : done[i].query_id = id}
                              = {i \in DOMAIN QueryIds(done) : QueryIds(done)[i] = id}
  BY DEF QueryIds
<1>2. QED  BY <1>1 DEF RecordsOf, FailuresOf, CountIn
-----------------------------------------------------------------------------
(* Processes                                                               *)

LEMMA RunKinds ==
  ASSUME TypeOK, NEW p \in Processes
  PROVE  /\ run[p] # Idle => run[p] \in StartedRuns \cup LoadedRuns
         /\ run[p] # Idle <=> run[p].pc # "idle"
         /\ Working(p) => run[p] \in LoadedRuns /\ run[p] # Idle
         /\ run[p].pc = "load" => run[p] \in StartedRuns
<1>1. run[p] \in {Idle} \cup StartedRuns \cup LoadedRuns
  BY DEF TypeOK
<1>2. \A r \in StartedRuns : r.pc \in {"load", "exit"}
  BY DEF StartedRuns
<1>3. \A r \in LoadedRuns : r.pc \in WorkPcs \cup {"exit"}
  BY DEF LoadedRuns
<1>4. Idle.pc = "idle"
  BY DEF Idle
<1>5. QED  BY <1>1, <1>2, <1>3, <1>4, Zenon DEF Working, WorkPcs, CallPcs

\* A process that goes on to another await keeps the rest of its state.
LEMMA Moves ==
  ASSUME TypeOK, NEW p \in Processes, Working(p), NEW pc \in WorkPcs \cup {"exit"}, Goto(p, pc)
  PROVE  /\ run' \in [Processes -> {Idle} \cup StartedRuns \cup LoadedRuns]
         /\ run'[p] \in LoadedRuns
         /\ run'[p].pc = pc
         /\ run'[p].stage = run[p].stage /\ run'[p].experiment = run[p].experiment
         /\ run'[p].cache = run[p].cache /\ run'[p].pending = run[p].pending
         /\ run'[p].current = run[p].current /\ run'[p].degraded = run[p].degraded
         /\ \A q \in Processes \ {p} : run'[q] = run[q]
<1>1. run[p] \in LoadedRuns
  BY RunKinds
<1>2. run \in [Processes -> {Idle} \cup StartedRuns \cup LoadedRuns]
  BY DEF TypeOK
<1>3. run' = [run EXCEPT ![p].pc = pc]
  BY DEF Goto
<1>4. run'[p] = [run[p] EXCEPT !.pc = pc] /\ \A q \in Processes \ {p} : run'[q] = run[q]
  BY <1>2, <1>3
<1>5. run'[p] \in LoadedRuns
  BY <1>1, <1>4 DEF LoadedRuns
<1>6. QED  BY <1>1, <1>2, <1>3, <1>4, <1>5 DEF LoadedRuns

LEMMA Exits ==
  ASSUME TypeOK, NEW p \in Processes, run[p] # Idle, Finish(p)
  PROVE  /\ run' \in [Processes -> {Idle} \cup StartedRuns \cup LoadedRuns]
         /\ run'[p] \in StartedRuns \cup LoadedRuns
         /\ run'[p].pc = "exit"
         /\ run'[p].stage = run[p].stage /\ run'[p].experiment = run[p].experiment
         /\ \A q \in Processes \ {p} : run'[q] = run[q]
<1>1. run[p] \in StartedRuns \cup LoadedRuns
  BY RunKinds
<1>2. run \in [Processes -> {Idle} \cup StartedRuns \cup LoadedRuns]
  BY DEF TypeOK
<1>3. run' = [run EXCEPT ![p].pc = "exit"]
  BY DEF Finish, Goto
<1>4. run'[p] = [run[p] EXCEPT !.pc = "exit"] /\ \A q \in Processes \ {p} : run'[q] = run[q]
  BY <1>2, <1>3
<1>5. CASE run[p] \in StartedRuns
  <2>1. run'[p] \in StartedRuns
    BY <1>4, <1>5 DEF StartedRuns
  <2>2. QED  BY <2>1, <1>2, <1>3, <1>4, <1>5 DEF StartedRuns
<1>6. CASE run[p] \in LoadedRuns
  <2>1. run'[p] \in LoadedRuns
    BY <1>4, <1>6 DEF LoadedRuns
  <2>2. QED  BY <2>1, <1>2, <1>3, <1>4, <1>6 DEF LoadedRuns
<1>7. QED  BY <1>1, <1>5, <1>6

\* Processes of the next state are live where they are now.
LEMMA LiveIsKept ==
  ASSUME TypeOK, NEW p \in Processes, run[p] # Idle, run'[p].pc # "idle",
         \A q \in Processes \ {p} : run'[q] = run[q]
  PROVE  p \in Live /\ Live' = Live
<1>1. run'[p] # Idle
  BY DEF Idle
<1>2. QED  BY <1>1 DEF Live

\* Calls under way, as a function of the processes.
InFlight(r, id) ==
  Cardinality({q \in {x \in Processes : r[x] # Idle} : r[q].pc \in CallPcs /\ r[q].current = id})

LEMMA CallsAreInFlight ==
  ASSUME NEW id
  PROVE  /\ CallsInFlight(id) = InFlight(run, id)
         /\ CallsInFlight(id)' = InFlight(run', id)
<1>1. {q \in InCall : run[q].current = id}
        = {q \in {x \in Processes : run[x] # Idle} : run[q].pc \in CallPcs /\ run[q].current = id}
  BY DEF InCall, Live, CallPcs
<1>2. {q \in InCall' : run'[q].current = id}
        = {q \in {x \in Processes : run'[x] # Idle} : run'[q].pc \in CallPcs /\ run'[q].current = id}
  BY DEF InCall, Live, CallPcs
<1>3. QED  BY <1>1, <1>2 DEF CallsInFlight, InFlight

LEMMA InFlightAlone ==
  ASSUME NEW r, NEW id, NEW p \in Processes, \A q \in Processes \ {p} : r[q] = Idle
  PROVE  InFlight(r, id) = IF r[p] # Idle /\ r[p].pc \in CallPcs /\ r[p].current = id THEN 1 ELSE 0
<1> DEFINE C == {q \in {x \in Processes : r[x] # Idle} : r[q].pc \in CallPcs /\ r[q].current = id}
<1>1. CASE r[p] # Idle /\ r[p].pc \in CallPcs /\ r[p].current = id
  <2>1. C = {p}
    BY <1>1
  <2> HIDE DEF C
  <2>2. Cardinality(C) = 1
    BY <2>1, FS_Singleton
  <2>3. QED  BY <2>2, <1>1 DEF InFlight, C
<1>2. CASE ~(r[p] # Idle /\ r[p].pc \in CallPcs /\ r[p].current = id)
  <2>1. C = {}
    BY <1>2
  <2> HIDE DEF C
  <2>2. Cardinality(C) = 0
    BY <2>1, FS_EmptySet
  <2>3. QED  BY <2>2, <1>2 DEF InFlight, C
<1>3. QED  BY <1>1, <1>2

-----------------------------------------------------------------------------
(* What an action leaves alone                                             *)

\* The state of another process.
LEMMA RunShapeStays ==
  ASSUME NEW q \in Processes, RunShape(q), program' = program, run'[q] = run[q]
  PROVE  RunShape(q)'
BY DEF RunShape, Working, ValidCache, CacheIsValid, CacheShapeIsValid, CompletedIds, QueryIds,
       WorklistShape, OrderShape, IdsFor, StagesOf, IdsOf, IsCompleteSequence

\* A process that has ended its work.
LEMMA ExitShape ==
  ASSUME NEW p \in Processes, RunShape(p), program' = program, run[p] # Idle,
         run'[p].pc = "exit",
         run'[p].stage = run[p].stage, run'[p].experiment = run[p].experiment
  PROVE  RunShape(p)'
<1>1. ~Working(p)'
  BY DEF Working, WorkPcs, CallPcs
<1>2. StagesOf' = StagesOf
  BY DEF StagesOf
<1>3. QED  BY <1>1, <1>2 DEF RunShape

\* The gates, when no call is sent and the cache file stays.
LEMMA GatesStay ==
  ASSUME UNCHANGED <<program, cache>>
  PROVE  /\ Screened' = Screened /\ Guarded' = Guarded /\ Developed' = Developed
         /\ Guards' = Guards
BY DEF Screened, Guarded, Developed, Guards, PaidFor, NoneMissedAmong, RightAmong, Successes, Completed

LEMMA QuietGates ==
  ASSUME IInv, UNCHANGED <<program, cache, sent>>,
         \A q \in Processes : Working(q)' => Working(q) /\ run'[q].stage = run[q].stage
  PROVE  /\ \A q \in Processes : Working(q)' => GateShape(q)'
         /\ SpendingIsGated'
<1>1. /\ Screened' = Screened /\ Guarded' = Guarded /\ Developed' = Developed
      /\ Guards' = Guards
  BY GatesStay
<1>2. ASSUME NEW q \in Processes, Working(q)' PROVE GateShape(q)'
  BY <1>1, <1>2 DEF IInv, GateShape
<1>3. SpendingIsGated'
  BY <1>1 DEF IInv, SpendingIsGated
<1>4. QED  BY <1>2, <1>3

LEMMA ConcatenatedIds ==
  ASSUME NEW S, NEW s \in Seq(S), NEW t \in Seq(S)
  PROVE  s \o t \in Seq(S) /\ ToSet(s \o t) = ToSet(s) \cup ToSet(t)
<1>1. /\ s \o t \in Seq(S) /\ DOMAIN (s \o t) = 1..(Len(s) + Len(t))
      /\ DOMAIN s = 1..Len(s) /\ DOMAIN t = 1..Len(t) /\ Len(s) \in Nat /\ Len(t) \in Nat
      /\ \A i \in 1..(Len(s) + Len(t)) : (s \o t)[i] = IF i <= Len(s) THEN s[i] ELSE t[i - Len(s)]
  OBVIOUS
<1>2. ASSUME NEW i \in DOMAIN (s \o t) PROVE (s \o t)[i] \in ToSet(s) \cup ToSet(t)
  <2>1. i <= Len(s) => i \in DOMAIN s
    BY <1>1
  <2>2. ~(i <= Len(s)) => i - Len(s) \in DOMAIN t
    BY <1>1
  <2>3. QED  BY <1>1, <2>1, <2>2 DEF ToSet
<1>3. ASSUME NEW i \in DOMAIN s PROVE s[i] \in ToSet(s \o t)
  <2>1. i \in DOMAIN (s \o t) /\ (s \o t)[i] = s[i]
    BY <1>1
  <2>2. QED  BY <2>1 DEF ToSet
<1>4. ASSUME NEW i \in DOMAIN t PROVE t[i] \in ToSet(s \o t)
  <2>1. Len(s) + i \in DOMAIN (s \o t) /\ (s \o t)[Len(s) + i] = t[i]
    BY <1>1
  <2>2. QED  BY <2>1 DEF ToSet
<1>5. QED  BY <1>1, <1>2, <1>3, <1>4 DEF ToSet

LEMMA SequencesOfIds ==
  /\ Dataset \in Seq(ToSet(Dataset)) /\ DevelopmentIds \in Seq(ToSet(Dataset))
  /\ ChallengeIds \in Seq(ToSet(ChallengeIds))
  /\ DevelopmentIds \o ChallengeIds \in Seq(AllIds)
  /\ IdsOf \subseteq AllIds
<1>1. /\ Dataset \in Seq(ToSet(Dataset)) /\ DevelopmentIds \in Seq(ToSet(DevelopmentIds))
      /\ ChallengeIds \in Seq(ToSet(ChallengeIds))
      /\ ToSet(DevelopmentIds) \subseteq ToSet(Dataset)
  BY ScoringAssumption
<1>2. DevelopmentIds \in Seq(ToSet(Dataset))
  BY <1>1
<1>3. DevelopmentIds \in Seq(AllIds) /\ ChallengeIds \in Seq(AllIds)
  BY <1>1, <1>2 DEF AllIds
<1>4. DevelopmentIds \o ChallengeIds \in Seq(AllIds)
  BY <1>3
<1>5. \A s \in Seq(AllIds) : ToSet(s) \subseteq AllIds
  BY DEF ToSet
<1>6. ToSet(DevelopmentIds \o ChallengeIds) \subseteq AllIds
  BY <1>4, <1>5
<1>7. QED  BY <1>1, <1>2, <1>4, <1>6 DEF IdsOf, AllIds

LEMMA FilesStay ==
  ASSUME IInv, UNCHANGED <<program, cache, temporary, fullReport>>,
         overlapped => overlapped', faults' \in Nat, faults' >= faults,
         \A q \in Live : run[q].pc = "output" => faults' > 0 \/ (q \in Live' /\ run'[q].pc = "output")
  PROVE  FileShape'
<1>1. IdsOf' = IdsOf
  BY DEF IdsOf
<1>2. /\ Readable(cache)' => ValidCache(cache)'
      /\ Readable(temporary)' => ValidCache(temporary)'
  BY <1>1 DEF IInv, FileShape, ValidCache, CacheIsValid, CacheShapeIsValid, CompletedIds, Readable
<1>3. fullReport' = Torn => faults' > 0 \/ \E q \in Live' : run'[q].pc = "output"
  BY DEF IInv, TypeOK, FileShape
<1>4. ~overlapped' => cache' # Torn
  BY DEF IInv, FileShape
<1>5. QED  BY <1>2, <1>3, <1>4 DEF FileShape

\* One process at a time: the lock of two programs, and the history of the third.
LEMMA Alone ==
  ASSUME IInv, ~overlapped, NEW p \in Processes, run[p] # Idle
  PROVE  \A q \in Processes \ {p} : run[q] = Idle
BY DEF IInv, LockShape, Live

LEMMA LockStays ==
  ASSUME IInv, UNCHANGED <<program, lock, overlapped, killed>>, Live' = Live
  PROVE  LockShape'
BY DEF IInv, LockShape, Locks

LEMMA CountsType ==
  ASSUME TypeOK, NEW id \in AllIds
  PROVE  RecordsOf(id) \in Nat /\ FailuresOf(id) \in Nat /\ sent[id] \in Nat /\ lost[id] \in Nat
<1>1. QueryIds(Completed(cache)) \in Seq(AllIds)
  <2>1. Completed(cache) \in Seq(Cases)
    BY FileType
  <2>2. \A i \in DOMAIN Completed(cache) : Completed(cache)[i].query_id \in AllIds
    BY <2>1, CaseFields
  <2>3. QED  BY <2>1, <2>2 DEF QueryIds
<1>2. Failed(cache) \in Seq(AllIds)
  BY FileType
<1>3. QED  BY <1>1, <1>2, CountType, RecordsAreCounted DEF TypeOK

LEMMA AccountsStay ==
  ASSUME IInv, ~overlapped, UNCHANGED <<cache, sent, lost>>,
         NEW p \in Processes, \A q \in Processes \ {p} : run[q] = Idle /\ run'[q] = Idle,
         run[p] # Idle /\ run[p].pc \in CallPcs <=> run'[p] # Idle /\ run'[p].pc \in CallPcs,
         run[p].pc \in CallPcs => run'[p].current = run[p].current
  PROVE  AccountShape'
<1>1. SUFFICES ASSUME NEW id \in AllIds
               PROVE  sent'[id] = RecordsOf(id)' + FailuresOf(id)' + lost'[id] + CallsInFlight(id)'
  BY DEF AccountShape
<1>2. RecordsOf(id)' = RecordsOf(id) /\ FailuresOf(id)' = FailuresOf(id)
  BY RecordsAreCounted
<1>3. InFlight(run, id) = IF run[p] # Idle /\ run[p].pc \in CallPcs /\ run[p].current = id THEN 1 ELSE 0
  BY InFlightAlone
<1>4. InFlight(run', id) = IF run'[p] # Idle /\ run'[p].pc \in CallPcs /\ run'[p].current = id THEN 1 ELSE 0
  BY InFlightAlone
<1>5. InFlight(run', id) = InFlight(run, id)
  BY <1>3, <1>4
<1>6. sent[id] = RecordsOf(id) + FailuresOf(id) + lost[id] + CallsInFlight(id)
  BY DEF IInv, AccountShape
<1>7. QED  BY <1>2, <1>5, <1>6, CallsAreInFlight

\* A process that leaves a call loses its result.
LEMMA LostCalls ==
  ASSUME IInv, NEW p \in Processes, run[p] # Idle, LoseCall(p)
  PROVE  /\ lost' \in [AllIds -> Nat]
         /\ \A id \in AllIds : lost'[id] =
              lost[id] + (IF run[p].pc \in CallPcs /\ run[p].current = id THEN 1 ELSE 0)
<1>1. p \in InCall <=> run[p].pc \in CallPcs
  BY DEF InCall, Live, CallPcs
<1>2. lost \in [AllIds -> Nat]
  BY DEF IInv, TypeOK
<1>3. run[p].pc \in CallPcs => run[p].current \in AllIds
  <2>1. ASSUME run[p].pc \in CallPcs PROVE run[p].current \in IdsOf
    BY <2>1 DEF IInv, RunShape, Working, WorkPcs, WorklistShape
  <2>2. QED  BY <2>1, SequencesOfIds
<1>4. QED  BY <1>1, <1>2, <1>3 DEF LoseCall

LEMMA LostAccounts ==
  ASSUME IInv, ~overlapped, UNCHANGED <<cache, sent>>, NEW p \in Processes, run[p] # Idle, LoseCall(p),
         run'[p].pc \notin CallPcs, \A q \in Processes \ {p} : run'[q] = run[q]
  PROVE  AccountShape'
<1>1. SUFFICES ASSUME NEW id \in AllIds
               PROVE  sent'[id] = RecordsOf(id)' + FailuresOf(id)' + lost'[id] + CallsInFlight(id)'
  BY DEF AccountShape
<1>2. RecordsOf(id)' = RecordsOf(id) /\ FailuresOf(id)' = FailuresOf(id)
  BY RecordsAreCounted
<1>3. \A q \in Processes \ {p} : run[q] = Idle /\ run'[q] = Idle
  BY Alone
<1>4. InFlight(run, id) = IF run[p].pc \in CallPcs /\ run[p].current = id THEN 1 ELSE 0
  BY <1>3, InFlightAlone
<1>5. InFlight(run', id) = 0
  BY <1>3, InFlightAlone
<1>6. sent[id] = RecordsOf(id) + FailuresOf(id) + lost[id] + CallsInFlight(id)
  BY DEF IInv, AccountShape
<1>7. lost'[id] = lost[id] + InFlight(run, id)
  BY <1>4, LostCalls
<1>8. RecordsOf(id) \in Nat /\ FailuresOf(id) \in Nat /\ lost[id] \in Nat
  BY CountsType DEF IInv
<1>9. QED  BY <1>2, <1>4, <1>5, <1>6, <1>7, <1>8, CallsAreInFlight

-----------------------------------------------------------------------------
(* Starting                                                                *)

LEMMA StageNamesCover ==
  ASSUME TypeOK
  PROVE  StagesOf \subseteq StageNames
<1>1. program \in {"staged", "candidate", "full"}
  BY EvaluationAssumption DEF TypeOK
<1>2. QED  BY <1>1 DEF StagesOf, StageNames, StagedStages, CandidateStages

LEMMA StartKeeps ==
  ASSUME IInv, NEW p \in Processes, NEW stage \in StagesOf,
         NEW experiment \in Experiments[program], Start(p, stage, experiment)
  PROVE  IInv'
<1> DEFINE started == [pc |-> "load", stage |-> stage, experiment |-> experiment]
<1>1. started \in StartedRuns
  BY StageNamesCover DEF IInv, TypeOK, StartedRuns, AllExperiments
<1>2. /\ run' \in [Processes -> {Idle} \cup StartedRuns \cup LoadedRuns]
      /\ run'[p] = started /\ \A q \in Processes \ {p} : run'[q] = run[q]
  BY <1>1 DEF IInv, TypeOK, Start
<1>3. run'[p] # Idle /\ ~Working(p)'
  BY <1>2 DEF Idle, Working, WorkPcs, CallPcs
<1>4. /\ run[p] = Idle
      /\ UNCHANGED <<program, cache, temporary, stageReports, fullReport, faults, sent, lost, killed>>
      /\ lock' = Locks /\ (Locks => ~lock)
      /\ overlapped' = (overlapped \/ Live # {})
  BY DEF Start
<1>5. Live' = Live \cup {p}
  BY <1>2, <1>3 DEF Live
<1>6. TypeOK'
  BY <1>2, <1>4 DEF IInv, TypeOK, Start, Locks
<1>7. \A q \in Processes : RunShape(q)'
  <2>1. RunShape(p)'
    <3>1. StagesOf' = StagesOf
      BY <1>4 DEF StagesOf
    <3>2. QED  BY <1>2, <1>3, <1>4, <3>1 DEF RunShape
  <2>2. ASSUME NEW q \in Processes \ {p} PROVE RunShape(q)'
    BY <1>2, <1>4, RunShapeStays DEF IInv
  <2>3. QED  BY <2>1, <2>2
<1>8. LockShape'
  <2>1. Locks => Live = {} /\ ~killed /\ ~overlapped
    BY <1>4 DEF IInv, LockShape
  <2>2. Locks' = Locks
    BY <1>4 DEF Locks
  <2>3. QED  BY <1>4, <1>5, <2>1, <2>2 DEF LockShape
<1>9. FileShape'
  <2>1. \A q \in Live : q \in Live' /\ run'[q] = run[q]
    BY <1>2, <1>4, <1>5 DEF Live
  <2>2. QED  BY <1>4, <2>1, FilesStay DEF IInv, TypeOK
<1>10. ~overlapped' => /\ \A q \in Processes : Working(q)' => DiskShape(q)'
                       /\ AccountShape'
  <2>1. SUFFICES ASSUME ~overlapped'
                 PROVE  /\ \A q \in Processes : Working(q)' => DiskShape(q)'
                        /\ AccountShape'
    OBVIOUS
  <2>2. ~overlapped /\ Live = {}
    BY <1>4, <2>1
  <2>3. \A q \in Processes : run[q] = Idle
    BY <2>2 DEF Live
  <2>4. \A q \in Processes : ~Working(q)'
    BY <1>2, <1>3, <2>3 DEF Working, Idle, WorkPcs, CallPcs
  <2>5. AccountShape'
    <3>1. \A q \in Processes \ {p} : run[q] = Idle /\ run'[q] = Idle
      BY <1>2, <2>3
    <3>2. run[p].pc \notin CallPcs /\ run'[p].pc \notin CallPcs
      BY <1>2, <2>3 DEF Idle, CallPcs
    <3>3. QED  BY <1>4, <2>2, <3>1, <3>2, AccountsStay
  <2>6. QED  BY <2>4, <2>5
<1>11. \A q \in Processes : Working(q)' => Working(q) /\ run'[q].stage = run[q].stage
  BY <1>2, <1>3 DEF Working
<1>12. (\A q \in Processes : Working(q)' => GateShape(q)') /\ SpendingIsGated'
  BY <1>4, <1>11, QuietGates
<1>13. QED  BY <1>6, <1>7, <1>8, <1>9, <1>10, <1>12 DEF IInv

-----------------------------------------------------------------------------
(* Leaving: errors, interruptions, kills and ends                          *)

LEMMA LeaveKeeps ==
  ASSUME IInv, NEW p \in Processes, run[p] # Idle, Finish(p), LoseCall(p),
         UNCHANGED <<program, lock, cache, temporary, starts, sent, overlapped, killed>>,
         faults' \in Nat, FileShape'
  PROVE  IInv'
<1>1. TypeOK
  BY DEF IInv
<1>2. /\ run' \in [Processes -> {Idle} \cup StartedRuns \cup LoadedRuns]
      /\ run'[p].pc = "exit"
      /\ run'[p].stage = run[p].stage /\ run'[p].experiment = run[p].experiment
      /\ \A q \in Processes \ {p} : run'[q] = run[q]
  BY <1>1, Exits
<1>3. ~Working(p)' /\ run'[p].pc \notin CallPcs
  BY <1>2 DEF Working, WorkPcs, CallPcs
<1>4. lost' \in [AllIds -> Nat]
  BY LostCalls
<1>5. TypeOK'
  BY <1>1, <1>2, <1>4 DEF TypeOK
<1>6. \A q \in Processes : RunShape(q)'
  <2>1. RunShape(p)'
    BY <1>2, ExitShape DEF IInv
  <2>2. ASSUME NEW q \in Processes \ {p} PROVE RunShape(q)'
    BY <1>2, RunShapeStays DEF IInv
  <2>3. QED  BY <2>1, <2>2
<1>7. LockShape'
  <2>1. Live' = Live
    BY <1>1, <1>2, LiveIsKept
  <2>2. QED  BY <2>1, LockStays
<1>8. ~overlapped' => /\ \A q \in Processes : Working(q)' => DiskShape(q)'
                      /\ AccountShape'
  <2>1. SUFFICES ASSUME ~overlapped
                 PROVE  /\ \A q \in Processes : Working(q)' => DiskShape(q)'
                        /\ AccountShape'
    OBVIOUS
  <2>2. \A q \in Processes \ {p} : run'[q] = Idle
    BY <1>2, <2>1, Alone
  <2>3. \A q \in Processes : ~Working(q)'
    BY <1>3, <2>2 DEF Working, Idle, WorkPcs, CallPcs
  <2>4. AccountShape'
    BY <1>2, <1>3, <2>1, LostAccounts
  <2>5. QED  BY <2>3, <2>4
<1>9. \A q \in Processes : Working(q)' => Working(q) /\ run'[q].stage = run[q].stage
  BY <1>2, <1>3 DEF Working
<1>10. (\A q \in Processes : Working(q)' => GateShape(q)') /\ SpendingIsGated'
  BY <1>9, QuietGates
<1>11. QED  BY <1>5, <1>6, <1>7, <1>8, <1>10 DEF IInv

\* A process that was not in a call loses none.
LEMMA NothingLost ==
  ASSUME NEW p \in Processes, run[p].pc \notin CallPcs, lost' = lost
  PROVE  LoseCall(p)
BY DEF LoseCall, InCall, CallPcs

LEMMA FailuresKeep ==
  ASSUME IInv, NEW p \in Processes, RenameFails(p) \/ Interrupt(p) \/ WriteFails(p)
  PROVE  IInv'
<1>1. /\ run[p] # Idle /\ Finish(p) /\ LoseCall(p)
      /\ UNCHANGED <<program, lock, cache, temporary, fullReport, starts, sent, overlapped, killed>>
  BY DEF RenameFails, Interrupt, WriteFails, files, bounds
<1>2. faults \in Nat
  BY DEF IInv, TypeOK
<1>3. faults' \in Nat /\ faults' >= faults /\ (run[p].pc = "output" => faults' > 0)
  BY <1>2 DEF RenameFails, Interrupt, WriteFails, bounds
<1>4. \A q \in Processes \ {p} : run'[q] = run[q]
  BY <1>1, Exits DEF IInv
<1>5. Live' = Live
  BY <1>1, Exits, LiveIsKept DEF IInv
<1>6. FileShape'
  BY <1>1, <1>3, <1>4, <1>5, FilesStay DEF Live
<1>7. QED  BY <1>1, <1>3, <1>6, LeaveKeeps

LEMMA KillKeeps ==
  ASSUME IInv, NEW p \in Processes, Kill(p)
  PROVE  IInv'
<1>1. /\ TypeOK /\ run[p] # Idle /\ LoseCall(p) /\ faults' = faults + 1
      /\ killed' = (killed \/ Locks)
      /\ UNCHANGED <<program, lock, cache, temporary, fullReport, starts, sent, overlapped>>
  BY DEF IInv, Kill, files
<1>2. /\ run' \in [Processes -> {Idle} \cup StartedRuns \cup LoadedRuns]
      /\ run'[p] = Idle /\ \A q \in Processes \ {p} : run'[q] = run[q]
  BY <1>1 DEF TypeOK, Kill
<1>3. ~Working(p)' /\ run'[p].pc \notin CallPcs
  BY <1>2 DEF Working, Idle, WorkPcs, CallPcs
<1>4. lost' \in [AllIds -> Nat]
  BY <1>1, LostCalls
<1>5. TypeOK'
  BY <1>1, <1>2, <1>4 DEF TypeOK, Locks
<1>6. Live' = Live \ {p} /\ p \in Live
  BY <1>1, <1>2 DEF Live
<1>7. \A q \in Processes : RunShape(q)'
  <2>1. RunShape(p)'
    BY <1>2, <1>3 DEF RunShape, Idle
  <2>2. ASSUME NEW q \in Processes \ {p} PROVE RunShape(q)'
    BY <1>1, <1>2, RunShapeStays DEF IInv
  <2>3. QED  BY <2>1, <2>2
<1>8. LockShape'
  <2>1. ~overlapped => Live' = {}
    BY <1>6 DEF IInv, LockShape
  <2>2. Locks' = Locks
    BY <1>1 DEF Locks
  <2>3. Locks => lock /\ ~overlapped
    BY <1>6 DEF IInv, LockShape
  <2>4. CASE Locks
    BY <1>1, <2>1, <2>2, <2>3, <2>4 DEF LockShape
  <2>5. CASE ~Locks
    BY <1>1, <2>1, <2>2, <2>5 DEF LockShape
  <2>6. QED  BY <2>4, <2>5
<1>9. FileShape'
  <2>1. faults' \in Nat /\ faults' >= faults /\ faults' > 0
    BY <1>1 DEF TypeOK
  <2>2. QED  BY <1>1, <2>1, FilesStay
<1>10. ~overlapped' => /\ \A q \in Processes : Working(q)' => DiskShape(q)'
                       /\ AccountShape'
  <2>1. SUFFICES ASSUME ~overlapped
                 PROVE  /\ \A q \in Processes : Working(q)' => DiskShape(q)'
                        /\ AccountShape'
    BY <1>1
  <2>2. \A q \in Processes \ {p} : run'[q] = Idle
    BY <1>1, <1>2, <2>1, Alone
  <2>3. \A q \in Processes : ~Working(q)'
    BY <1>3, <2>2 DEF Working, Idle, WorkPcs, CallPcs
  <2>4. AccountShape'
    BY <1>1, <1>2, <1>3, <2>1, LostAccounts
  <2>5. QED  BY <2>3, <2>4
<1>11. \A q \in Processes : Working(q)' => Working(q) /\ run'[q].stage = run[q].stage
  BY <1>2, <1>3 DEF Working
<1>12. (\A q \in Processes : Working(q)' => GateShape(q)') /\ SpendingIsGated'
  BY <1>1, <1>11, QuietGates
<1>13. QED  BY <1>5, <1>7, <1>8, <1>9, <1>10, <1>12 DEF IInv

LEMMA ReleaseKeeps ==
  ASSUME IInv, NEW p \in Processes, Release(p)
  PROVE  IInv'
<1>1. /\ TypeOK /\ run[p] # Idle /\ run[p].pc = "exit" /\ lock' = FALSE
      /\ UNCHANGED <<program, cache, temporary, fullReport, starts, faults, sent, lost, overlapped, killed>>
  BY DEF IInv, Release, bounds, history
<1>2. /\ run' \in [Processes -> {Idle} \cup StartedRuns \cup LoadedRuns]
      /\ run'[p] = Idle /\ \A q \in Processes \ {p} : run'[q] = run[q]
  BY <1>1 DEF TypeOK, Release
<1>3. ~Working(p)' /\ run'[p].pc \notin CallPcs /\ run[p].pc \notin CallPcs
  BY <1>1, <1>2 DEF Working, Idle, WorkPcs, CallPcs
<1>4. TypeOK'
  BY <1>1, <1>2 DEF TypeOK
<1>5. Live' = Live \ {p} /\ p \in Live
  BY <1>1, <1>2 DEF Live
<1>6. \A q \in Processes : RunShape(q)'
  <2>1. RunShape(p)'
    BY <1>2, <1>3 DEF RunShape, Idle
  <2>2. ASSUME NEW q \in Processes \ {p} PROVE RunShape(q)'
    BY <1>1, <1>2, RunShapeStays DEF IInv
  <2>3. QED  BY <2>1, <2>2
<1>7. LockShape'
  <2>1. ~overlapped => Live' = {}
    BY <1>5 DEF IInv, LockShape
  <2>2. Locks' = Locks
    BY <1>1 DEF Locks
  <2>3. Locks => ~killed /\ ~overlapped
    BY <1>5 DEF IInv, LockShape
  <2>4. QED  BY <1>1, <2>1, <2>2, <2>3 DEF LockShape
<1>8. FileShape'
  <2>1. \A q \in Live : run[q].pc = "output" => q \in Live' /\ run'[q].pc = "output"
    BY <1>1, <1>2, <1>5 DEF Live
  <2>2. faults' \in Nat /\ faults' >= faults
    BY <1>1 DEF TypeOK
  <2>3. QED  BY <1>1, <2>1, <2>2, FilesStay
<1>9. ~overlapped' => /\ \A q \in Processes : Working(q)' => DiskShape(q)'
                      /\ AccountShape'
  <2>1. SUFFICES ASSUME ~overlapped
                 PROVE  /\ \A q \in Processes : Working(q)' => DiskShape(q)'
                        /\ AccountShape'
    BY <1>1
  <2>2. \A q \in Processes \ {p} : run'[q] = Idle
    BY <1>1, <1>2, <2>1, Alone
  <2>3. \A q \in Processes : ~Working(q)'
    BY <1>3, <2>2 DEF Working, Idle, WorkPcs, CallPcs
  <2>4. AccountShape'
    BY <1>1, <1>2, <1>3, <2>1, LostAccounts, NothingLost
  <2>5. QED  BY <2>3, <2>4
<1>10. \A q \in Processes : Working(q)' => Working(q) /\ run'[q].stage = run[q].stage
  BY <1>2, <1>3 DEF Working
<1>11. (\A q \in Processes : Working(q)' => GateShape(q)') /\ SpendingIsGated'
  BY <1>1, <1>10, QuietGates
<1>12. QED  BY <1>4, <1>6, <1>7, <1>8, <1>9, <1>11 DEF IInv

LEMMA RemoveStaleLockKeeps ==
  ASSUME IInv, RemoveStaleLock
  PROVE  IInv'
<1>1. /\ TypeOK /\ Live = {} /\ lock' = FALSE /\ killed' = FALSE
      /\ UNCHANGED <<program, cache, temporary, fullReport, run, starts, faults, sent, lost, overlapped>>
  BY DEF IInv, RemoveStaleLock, bounds
<1>2. \A q \in Processes : run[q] = Idle
  BY <1>1 DEF Live
<1>3. TypeOK'
  BY <1>1 DEF TypeOK
<1>4. \A q \in Processes : RunShape(q)'
  BY <1>1, RunShapeStays DEF IInv
<1>5. LockShape'
  <2>1. Live' = {}
    BY <1>1 DEF Live
  <2>2. QED  BY <1>1, <2>1 DEF IInv, LockShape, Locks
<1>6. FileShape'
  BY <1>1, FilesStay DEF TypeOK
<1>7. ~overlapped' => /\ \A q \in Processes : Working(q)' => DiskShape(q)'
                      /\ AccountShape'
  <2>1. \A q \in Processes : ~Working(q)'
    BY <1>1, <1>2 DEF Working, Idle, WorkPcs, CallPcs
  <2>2. ASSUME ~overlapped PROVE AccountShape'
    BY <1>1, <2>2 DEF IInv, AccountShape, RecordsOf, FailuresOf, Completed, Failed, CallsInFlight,
                      InCall, Live
  <2>3. QED  BY <1>1, <2>1, <2>2
<1>8. (\A q \in Processes : Working(q)' => GateShape(q)') /\ SpendingIsGated'
  BY <1>1, QuietGates DEF Working
<1>9. QED  BY <1>3, <1>4, <1>5, <1>6, <1>7, <1>8 DEF IInv

-----------------------------------------------------------------------------
(* Going on with the same cache: reports and temporary files               *)

LEMMA MoveKeeps ==
  ASSUME IInv, NEW p \in Processes, Working(p), NEW pc \in WorkPcs, Goto(p, pc),
         UNCHANGED <<program, lock, cache, starts, faults, sent, lost, overlapped, killed>>,
         temporary' \in CacheRecords \cup {Absent, Torn},
         run[p].pc \in CallPcs <=> pc \in CallPcs,
         FileShape', RunShape(p)', ~overlapped => DiskShape(p)'
  PROVE  IInv'
<1>1. TypeOK
  BY DEF IInv
<1>2. pc \in WorkPcs \cup {"exit"}
  OBVIOUS
<1>3. /\ run' \in [Processes -> {Idle} \cup StartedRuns \cup LoadedRuns]
      /\ run'[p].pc = pc
      /\ run'[p].stage = run[p].stage /\ run'[p].current = run[p].current
      /\ \A q \in Processes \ {p} : run'[q] = run[q]
  BY <1>1, <1>2, Moves
<1>4. run[p] # Idle /\ run'[p].pc # "idle" /\ run'[p] # Idle
  BY <1>1, <1>3, RunKinds DEF WorkPcs, CallPcs, Idle
<1>5. TypeOK'
  BY <1>1, <1>3 DEF TypeOK
<1>6. \A q \in Processes : RunShape(q)'
  <2>1. ASSUME NEW q \in Processes \ {p} PROVE RunShape(q)'
    BY <1>3, RunShapeStays DEF IInv
  <2>2. QED  BY <2>1
<1>7. LockShape'
  <2>1. Live' = Live
    BY <1>1, <1>3, <1>4, LiveIsKept
  <2>2. QED  BY <2>1, LockStays
<1>8. ~overlapped' => /\ \A q \in Processes : Working(q)' => DiskShape(q)'
                      /\ AccountShape'
  <2>1. SUFFICES ASSUME ~overlapped
                 PROVE  /\ \A q \in Processes : Working(q)' => DiskShape(q)'
                        /\ AccountShape'
    OBVIOUS
  <2>2. \A q \in Processes \ {p} : run[q] = Idle /\ run'[q] = Idle
    BY <1>3, <1>4, <2>1, Alone
  <2>3. \A q \in Processes \ {p} : ~Working(q)'
    BY <2>2 DEF Working, Idle, WorkPcs, CallPcs
  <2>4. AccountShape'
    BY <1>3, <1>4, <2>1, <2>2, AccountsStay
  <2>5. QED  BY <2>1, <2>3, <2>4
<1>9. \A q \in Processes : Working(q)' => Working(q) /\ run'[q].stage = run[q].stage
  BY <1>3 DEF Working
<1>10. (\A q \in Processes : Working(q)' => GateShape(q)') /\ SpendingIsGated'
  BY <1>9, QuietGates
<1>11. QED  BY <1>5, <1>6, <1>7, <1>8, <1>10 DEF IInv

\* What the shape of a process says at another await with the same cache.
LEMMA MovedShape ==
  ASSUME IInv, NEW p \in Processes, Working(p), NEW pc \in WorkPcs, Goto(p, pc), program' = program
  PROVE  /\ run'[p].stage \in StagesOf' /\ run'[p].experiment \in Experiments[program]
         /\ run'[p].cache.experiment = run'[p].experiment
         /\ ValidCache(run[p].cache)'
         /\ IdsFor(p)' = IdsFor(p)
         /\ IdsFor(p)' \in Seq(IdsOf') /\ IsInjective(IdsFor(p)')
         /\ program = "staged" => ManifestIsValid(run'[p].experiment.manifest)
         /\ run'[p].pending \subseteq DOMAIN IdsFor(p)'
<1>1. TypeOK /\ pc \in WorkPcs \cup {"exit"}
  BY DEF IInv
<1>2. /\ run'[p].stage = run[p].stage /\ run'[p].experiment = run[p].experiment
      /\ run'[p].cache = run[p].cache /\ run'[p].pending = run[p].pending
  BY <1>1, Moves
<1>3. run[p] # Idle
  BY <1>1, RunKinds
<1>4. StagesOf' = StagesOf /\ IdsOf' = IdsOf
  BY DEF StagesOf, IdsOf
<1>5. ValidCache(run[p].cache)'
  <2>1. ValidCache(run[p].cache)
    BY DEF IInv, RunShape
  <2>2. QED  BY <1>2, <1>4, <2>1 DEF ValidCache, CacheIsValid, CacheShapeIsValid, CompletedIds
<1>6. IdsFor(p)' = IdsFor(p)
  BY <1>2 DEF IdsFor
<1>7. QED  BY <1>2, <1>3, <1>4, <1>5, <1>6 DEF IInv, RunShape, WorklistShape

LEMMA ReportsAreContent ==
  ASSUME NEW p
  PROVE  FullReportOf(p) # Torn /\ Readable(FullReportOf(p))
<1>1. "cases" \in DOMAIN FullReportOf(p)
  BY DEF FullReportOf, FullReport
<1>2. "cases" \notin DOMAIN Absent /\ "cases" \notin DOMAIN Torn
  BY DEF Absent, Torn
<1>3. QED  BY <1>1, <1>2 DEF Readable

LEMMA WriteStageReportKeeps ==
  ASSUME IInv, NEW p \in Processes, WriteStageReport(p)
  PROVE  IInv'
<1>1. /\ TypeOK /\ run[p] # Idle /\ run[p].pc = "next" /\ program # "full"
      /\ UNCHANGED <<program, lock, cache, temporary, fullReport, starts, faults, sent, lost,
                     overlapped, killed>>
  BY DEF IInv, WriteStageReport, Finished, bounds, history
<1>2. Working(p)
  BY <1>1 DEF Working, WorkPcs
<1>3. CASE Finish(p)
  <2>1. LoseCall(p)
    BY <1>1, NothingLost DEF CallPcs
  <2>2. Live' = Live /\ \A q \in Processes \ {p} : run'[q] = run[q]
    BY <1>1, <1>3, Exits, LiveIsKept
  <2>3. FileShape'
    BY <1>1, <2>2, FilesStay DEF TypeOK, Live
  <2>4. QED  BY <1>1, <1>3, <2>1, <2>3, LeaveKeeps DEF TypeOK
<1>4. CASE Goto(p, "full_report") /\ run[p].stage = "full"
  <2>1. "full_report" \in WorkPcs /\ "full_report" \notin CallPcs /\ run[p].pc \notin CallPcs
    BY <1>1 DEF WorkPcs, CallPcs
  <2>2. /\ run'[p].pc = "full_report" /\ run'[p].cache = run[p].cache
        /\ run'[p].experiment = run[p].experiment
        /\ \A q \in Processes \ {p} : run'[q] = run[q]
    BY <1>1, <1>2, <1>4, <2>1, Moves
  <2>3. Live' = Live
    BY <1>1, <2>2, LiveIsKept
  <2>4. FileShape'
    BY <1>1, <2>2, <2>3, FilesStay DEF TypeOK, Live
  <2>5. program = "staged"
    <3>1. program \in {"staged", "candidate"} /\ run[p].stage \in StagesOf
      BY <1>1, EvaluationAssumption DEF IInv, TypeOK, RunShape
    <3>2. QED  BY <1>4, <3>1 DEF StagesOf, CandidateStages
  <2>6. WorklistShape(p)'
    BY <1>1, <1>2, <1>4, <2>1, <2>2, MovedShape DEF WorklistShape, CallPcs
  <2>7. RunShape(p)'
    BY <1>1, <1>2, <1>4, <2>1, <2>2, <2>5, <2>6, MovedShape DEF RunShape
  <2>8. ~overlapped => DiskShape(p)'
    BY <1>1, <1>2, <2>2 DEF IInv, DiskShape, Completed, Failed, Readable
  <2>9. QED  BY <1>1, <1>2, <1>4, <2>1, <2>4, <2>7, <2>8, MoveKeeps DEF TypeOK
<1>5. QED  BY <1>3, <1>4 DEF WriteStageReport, Finish

LEMMA WriteFullReportKeeps ==
  ASSUME IInv, NEW p \in Processes, WriteFullReport(p)
  PROVE  IInv'
<1>1. /\ TypeOK /\ run[p] # Idle /\ run[p].pc = "full_report" /\ Finish(p)
      /\ fullReport' = IF FullReportIsValid(FullReportOf(p)) THEN FullReportOf(p) ELSE fullReport
      /\ UNCHANGED <<program, lock, cache, temporary, starts, faults, sent, lost, overlapped, killed>>
  BY DEF IInv, WriteFullReport, bounds, history
<1>2. LoseCall(p)
  BY <1>1, NothingLost DEF CallPcs
<1>3. Live' = Live /\ \A q \in Processes \ {p} : run'[q] = run[q]
  BY <1>1, Exits, LiveIsKept
<1>4. fullReport' = Torn => fullReport' = fullReport
  BY <1>1, ReportsAreContent
<1>5. FileShape'
  <2>1. IdsOf' = IdsOf
    BY <1>1 DEF IdsOf
  <2>2. /\ Readable(cache)' => ValidCache(cache)'
        /\ Readable(temporary)' => ValidCache(temporary)'
    BY <1>1, <2>1 DEF IInv, FileShape, ValidCache, CacheIsValid, CacheShapeIsValid, CompletedIds, Readable
  <2>3. fullReport' = Torn => faults' > 0 \/ \E q \in Live' : run'[q].pc = "output"
    BY <1>1, <1>3, <1>4 DEF IInv, FileShape, Live
  <2>4. QED  BY <1>1, <2>2, <2>3 DEF IInv, FileShape
<1>6. QED  BY <1>1, <1>2, <1>5, LeaveKeeps DEF TypeOK

LEMMA OpenTemporaryKeeps ==
  ASSUME IInv, NEW p \in Processes, OpenTemporary(p)
  PROVE  IInv'
<1>1. /\ TypeOK /\ run[p] # Idle /\ run[p].pc = "record" /\ Goto(p, "fill") /\ temporary' = Torn
      /\ UNCHANGED <<program, lock, cache, fullReport, starts, faults, sent, lost, overlapped, killed>>
  BY DEF IInv, OpenTemporary, bounds, history
<1>2. Working(p) /\ "fill" \in WorkPcs /\ "fill" \in CallPcs /\ run[p].pc \in CallPcs
  BY <1>1 DEF Working, WorkPcs, CallPcs
<1>3. /\ run'[p].pc = "fill" /\ run'[p].cache = run[p].cache /\ run'[p].pending = run[p].pending
      /\ run'[p].current = run[p].current /\ run'[p].degraded = run[p].degraded
      /\ run'[p].experiment = run[p].experiment
      /\ \A q \in Processes \ {p} : run'[q] = run[q]
  BY <1>1, <1>2, Moves
<1>4. Live' = Live
  BY <1>1, <1>3, LiveIsKept
<1>5. FileShape'
  <2>1. IdsOf' = IdsOf
    BY <1>1 DEF IdsOf
  <2>2. /\ Readable(cache)' => ValidCache(cache)'
        /\ ~Readable(temporary)'
    BY <1>1, <2>1 DEF IInv, FileShape, ValidCache, CacheIsValid, CacheShapeIsValid, CompletedIds, Readable
  <2>3. fullReport' = Torn => faults' > 0 \/ \E q \in Live' : run'[q].pc = "output"
    BY <1>1, <1>3, <1>4 DEF IInv, FileShape, Live
  <2>4. QED  BY <1>1, <2>2, <2>3 DEF IInv, FileShape
<1>6. RunShape(p)'
  <2>1. WorklistShape(p)'
    BY <1>1, <1>2, <1>3, MovedShape DEF IInv, RunShape, WorklistShape, IdsFor, IdsOf
  <2>2. program = "full" => OrderShape(p)'
    BY <1>1, <1>2, <1>3 DEF IInv, RunShape, OrderShape
  <2>3. QED  BY <1>1, <1>2, <1>3, <2>1, <2>2, MovedShape DEF RunShape
<1>7. ~overlapped => DiskShape(p)'
  BY <1>1, <1>2, <1>3 DEF IInv, DiskShape, OneRecordAhead, Completed, Failed, Readable
<1>8. QED  BY <1>1, <1>2, <1>5, <1>6, <1>7, MoveKeeps

LEMMA OpenOutputKeeps ==
  ASSUME IInv, NEW p \in Processes, OpenOutput(p)
  PROVE  IInv'
<1>1. /\ TypeOK /\ run[p] # Idle /\ run[p].pc = "next" /\ program = "full"
      /\ UNCHANGED <<program, lock, cache, temporary, starts, faults, sent, lost, overlapped, killed>>
  BY DEF IInv, OpenOutput, Finished, bounds, history
<1>2. Working(p)
  BY <1>1 DEF Working, WorkPcs
<1>3. CASE UNCHANGED fullReport /\ Finish(p)
  <2>1. LoseCall(p)
    BY <1>1, NothingLost DEF CallPcs
  <2>2. Live' = Live /\ \A q \in Processes \ {p} : run'[q] = run[q]
    BY <1>1, <1>3, Exits, LiveIsKept
  <2>3. FileShape'
    BY <1>1, <1>3, <2>2, FilesStay DEF TypeOK, Live
  <2>4. QED  BY <1>1, <1>3, <2>1, <2>3, LeaveKeeps DEF TypeOK
<1>4. CASE fullReport' = Torn /\ Goto(p, "output") /\ IsCompleteSequence(run[p].cache.completed)
  <2>1. "output" \in WorkPcs /\ "output" \notin CallPcs /\ run[p].pc \notin CallPcs
    BY <1>1 DEF WorkPcs, CallPcs
  <2>2. /\ run'[p].pc = "output" /\ run'[p].cache = run[p].cache
        /\ run'[p].experiment = run[p].experiment
        /\ \A q \in Processes \ {p} : run'[q] = run[q]
    BY <1>1, <1>2, <1>4, <2>1, Moves
  <2>3. Live' = Live /\ p \in Live
    BY <1>1, <2>2, LiveIsKept
  <2>4. FileShape'
    <3>1. IdsOf' = IdsOf
      BY <1>1 DEF IdsOf
    <3>2. /\ Readable(cache)' => ValidCache(cache)'
          /\ Readable(temporary)' => ValidCache(temporary)'
      BY <1>1, <3>1 DEF IInv, FileShape, ValidCache, CacheIsValid, CacheShapeIsValid, CompletedIds, Readable
    <3>3. QED  BY <1>1, <2>2, <2>3, <3>2 DEF IInv, FileShape
  <2>5. WorklistShape(p)'
    BY <1>1, <1>2, <1>4, <2>1, <2>2, MovedShape DEF WorklistShape, CallPcs
  <2>6. program = "full" => OrderShape(p)'
    BY <2>2 DEF OrderShape
  <2>7. RunShape(p)'
    BY <1>1, <1>2, <1>4, <2>1, <2>2, <2>5, <2>6, MovedShape DEF RunShape, IsCompleteSequence
  <2>8. ~overlapped => DiskShape(p)'
    BY <1>1, <1>2, <2>2 DEF IInv, DiskShape, Completed, Failed, Readable
  <2>9. QED  BY <1>1, <1>2, <1>4, <2>1, <2>4, <2>7, <2>8, MoveKeeps DEF TypeOK
<1>5. QED  BY <1>3, <1>4 DEF OpenOutput

LEMMA FillOutputKeeps ==
  ASSUME IInv, NEW p \in Processes, FillOutput(p)
  PROVE  IInv'
<1>1. /\ TypeOK /\ run[p] # Idle /\ run[p].pc = "output" /\ Goto(p, "unlink")
      /\ fullReport' = FullReportOf(p)
      /\ UNCHANGED <<program, lock, cache, temporary, starts, faults, sent, lost, overlapped, killed>>
  BY DEF IInv, FillOutput, bounds, history
<1>2. Working(p) /\ "unlink" \in WorkPcs /\ "unlink" \notin CallPcs /\ run[p].pc \notin CallPcs
  BY <1>1 DEF Working, WorkPcs, CallPcs
<1>3. /\ run'[p].pc = "unlink" /\ run'[p].cache = run[p].cache
      /\ run'[p].experiment = run[p].experiment
      /\ \A q \in Processes \ {p} : run'[q] = run[q]
  BY <1>1, <1>2, Moves
<1>4. FileShape'
  <2>1. IdsOf' = IdsOf
    BY <1>1 DEF IdsOf
  <2>2. /\ Readable(cache)' => ValidCache(cache)'
        /\ Readable(temporary)' => ValidCache(temporary)'
    BY <1>1, <2>1 DEF IInv, FileShape, ValidCache, CacheIsValid, CacheShapeIsValid, CompletedIds, Readable
  <2>3. QED  BY <1>1, <2>2, ReportsAreContent DEF IInv, FileShape
<1>5. program = "full" /\ IsCompleteSequence(run[p].cache.completed)
  BY <1>1 DEF IInv, RunShape
<1>6. WorklistShape(p)'
  BY <1>1, <1>2, <1>3, MovedShape DEF WorklistShape, CallPcs
<1>7. RunShape(p)'
  <2>1. OrderShape(p)'
    BY <1>3 DEF OrderShape
  <2>2. QED  BY <1>1, <1>2, <1>3, <1>5, <1>6, <2>1, MovedShape DEF RunShape, IsCompleteSequence
<1>8. ~overlapped => DiskShape(p)'
  <2>1. FullReportOf(p)' = FullReportOf(p)
    BY <1>3 DEF FullReportOf, CachedCases
  <2>2. QED  BY <1>1, <1>2, <1>3, <2>1 DEF IInv, DiskShape, Completed, Failed, Readable
<1>9. QED  BY <1>1, <1>2, <1>4, <1>7, <1>8, MoveKeeps DEF TypeOK

\* Two processes at once run the full program, which has no gates.
LEMMA OverlappedKeeps ==
  ASSUME TypeOK', \A q \in Processes : RunShape(q)', LockShape', FileShape',
         overlapped', program' = "full"
  PROVE  IInv'
BY DEF IInv, GateShape, SpendingIsGated

LEMMA OverlapIsFull ==
  ASSUME IInv, overlapped
  PROVE  program = "full"
BY DEF IInv, LockShape, Locks

LEMMA FillTemporaryKeeps ==
  ASSUME IInv, NEW p \in Processes, FillTemporary(p)
  PROVE  IInv'
<1>1. /\ TypeOK /\ run[p] # Idle /\ run[p].pc = "fill" /\ Goto(p, "rename")
      /\ temporary' = IF temporary # Absent THEN run[p].cache ELSE Absent
      /\ cache' = IF temporary = Absent /\ cache = Torn THEN run[p].cache ELSE cache
      /\ UNCHANGED <<program, lock, fullReport, starts, faults, sent, lost, overlapped, killed>>
  BY DEF IInv, FillTemporary, bounds, history
<1>2. Working(p) /\ "rename" \in WorkPcs /\ "rename" \in CallPcs /\ run[p].pc \in CallPcs
  BY <1>1 DEF Working, WorkPcs, CallPcs
<1>3. /\ run'[p].pc = "rename" /\ run'[p].cache = run[p].cache /\ run'[p].pending = run[p].pending
      /\ run'[p].current = run[p].current /\ run'[p].degraded = run[p].degraded
      /\ run'[p].experiment = run[p].experiment
      /\ run' \in [Processes -> {Idle} \cup StartedRuns \cup LoadedRuns]
      /\ \A q \in Processes \ {p} : run'[q] = run[q]
  BY <1>1, <1>2, Moves
<1>4. Live' = Live
  BY <1>1, <1>3, LiveIsKept
<1>5. ValidCache(run[p].cache) /\ ValidCache(run[p].cache)'
  <2>1. ValidCache(run[p].cache)
    BY <1>2 DEF IInv, RunShape
  <2>2. QED  BY <1>1, <1>2, <2>1, MovedShape
<1>6. run[p].cache \in CacheRecords /\ temporary' \in CacheRecords \cup {Absent, Torn}
  BY <1>1, <1>5 DEF ValidCache
<1>7. FileShape'
  <2>1. IdsOf' = IdsOf
    BY <1>1 DEF IdsOf
  <2>2. ASSUME cache' # run[p].cache PROVE Readable(cache)' => ValidCache(cache)'
    BY <1>1, <2>1, <2>2 DEF IInv, FileShape, ValidCache, CacheIsValid, CacheShapeIsValid, CompletedIds, Readable
  <2>3. Readable(cache)' => ValidCache(cache)'
    BY <1>5, <1>1, <1>3, <2>1, <2>2 DEF ValidCache, CacheIsValid, CacheShapeIsValid, CompletedIds
  <2>4. Readable(temporary)' => ValidCache(temporary)'
    BY <1>5, <1>1, <1>3, <2>1 DEF ValidCache, CacheIsValid, CacheShapeIsValid, CompletedIds, Readable
  <2>5. fullReport' = Torn => faults' > 0 \/ \E q \in Live' : run'[q].pc = "output"
    BY <1>1, <1>3, <1>4 DEF IInv, FileShape, Live
  <2>6. ~overlapped' => cache' # Torn
    BY <1>1 DEF IInv, FileShape
  <2>7. QED  BY <2>3, <2>4, <2>5, <2>6 DEF FileShape
<1>8. RunShape(p)'
  <2>1. WorklistShape(p)'
    BY <1>1, <1>2, <1>3, MovedShape DEF IInv, RunShape, WorklistShape, IdsFor, IdsOf
  <2>2. program = "full" => OrderShape(p)'
    BY <1>1, <1>2, <1>3 DEF IInv, RunShape, OrderShape
  <2>3. QED  BY <1>1, <1>2, <1>3, <2>1, <2>2, MovedShape DEF RunShape
<1>9. CASE cache' = cache
  <2>1. ~overlapped => DiskShape(p)'
    <3>1. SUFFICES ASSUME ~overlapped PROVE DiskShape(p)'
      OBVIOUS
    <3>2. DiskShape(p)
      BY <3>1, <1>2 DEF IInv
    <3>3. temporary = Torn /\ temporary' = run[p].cache
      BY <1>1, <3>2, FileKinds DEF DiskShape
    <3>4. QED  BY <1>1, <1>3, <1>9, <3>2, <3>3 DEF DiskShape, OneRecordAhead, Completed, Failed, Readable
  <2>2. QED  BY <1>1, <1>2, <1>6, <1>7, <1>8, <1>9, <2>1, MoveKeeps
<1>10. CASE temporary = Absent /\ cache = Torn
  <2>1. overlapped
    BY <1>10 DEF IInv, FileShape
  <2>2. program = "full"
    BY <2>1, OverlapIsFull
  <2>3. TypeOK'
    BY <1>1, <1>3, <1>6 DEF TypeOK
  <2>4. ASSUME NEW q \in Processes \ {p} PROVE RunShape(q)'
    BY <1>1, <1>3, RunShapeStays DEF IInv
  <2>5. LockShape'
    BY <1>1, <1>4, LockStays
  <2>6. QED  BY <1>1, <1>7, <1>8, <2>1, <2>2, <2>3, <2>4, <2>5, OverlappedKeeps
<1>11. QED  BY <1>1, <1>9, <1>10

-----------------------------------------------------------------------------
(* A call                                                                  *)

LEMMA LeastExists ==
  ASSUME NEW T \in SUBSET Nat, T # {}
  PROVE  Min(T) \in T /\ \A n \in T : Min(T) <= n
<1>1. PICK m \in T : \A n \in T : ~ (<<n, m>> \in OpToRel(<, Nat))
  BY NatLessThanWellFounded, WFMin
<1>2. \A n \in T : ~ (n < m)
  BY <1>1 DEF OpToRel
<1>3. \A n \in T : m <= n
  BY <1>2
<1>4. QED  BY <1>1, <1>3 DEF Min

\* The other parts of the invariant while a process goes from one await of a
\* call to the next and the files stay.
LEMMA CallKeeps ==
  ASSUME IInv, NEW p \in Processes, run[p] # Idle, run'[p].pc \in WorkPcs,
         UNCHANGED <<program, lock, cache, temporary, fullReport, starts, faults, lost, overlapped, killed>>,
         \A q \in Processes \ {p} : run'[q] = run[q],
         run' = [run EXCEPT ![p] = run'[p]], run'[p] \in LoadedRuns,
         run[p].pc # "output", sent' \in [AllIds -> Nat],
         RunShape(p)', ~overlapped => DiskShape(p)' /\ AccountShape',
         GateShape(p)', SpendingIsGated'
  PROVE  IInv'
<1>1. TypeOK
  BY DEF IInv
<1>2. run' \in [Processes -> {Idle} \cup StartedRuns \cup LoadedRuns]
  BY <1>1 DEF TypeOK
<1>3. TypeOK'
  BY <1>1, <1>2 DEF TypeOK
<1>4. run'[p].pc # "idle"
  BY DEF WorkPcs, CallPcs
<1>5. Live' = Live
  BY <1>1, <1>4, LiveIsKept
<1>6. \A q \in Processes : RunShape(q)'
  <2>1. ASSUME NEW q \in Processes \ {p} PROVE RunShape(q)'
    BY RunShapeStays DEF IInv
  <2>2. QED  BY <2>1
<1>7. LockShape'
  BY <1>5, LockStays
<1>8. FileShape'
  BY <1>1, <1>5, FilesStay DEF TypeOK, Live
<1>9. ~overlapped' => /\ \A q \in Processes : Working(q)' => DiskShape(q)'
                      /\ AccountShape'
  <2>1. SUFFICES ASSUME ~overlapped
                 PROVE  /\ \A q \in Processes : Working(q)' => DiskShape(q)'
                        /\ AccountShape'
    OBVIOUS
  <2>2. \A q \in Processes \ {p} : run'[q] = Idle
    BY <1>4, <2>1, Alone
  <2>3. \A q \in Processes \ {p} : ~Working(q)'
    BY <2>2 DEF Working, Idle, WorkPcs, CallPcs
  <2>4. QED  BY <2>1, <2>3
<1>10. ASSUME NEW q \in Processes, Working(q)' PROVE GateShape(q)'
  <2>1. CASE q = p
    BY <2>1
  <2>2. CASE q # p
    <3>1. GateShape(q) /\ run'[q].stage = run[q].stage
      BY <1>10, <2>2 DEF IInv, Working
    <3>2. QED  BY <3>1, GatesStay DEF GateShape
  <2>3. QED  BY <2>1, <2>2
<1>11. QED  BY <1>3, <1>6, <1>7, <1>8, <1>9, <1>10 DEF IInv

\* Once a gate has passed there is something on disk.
LEMMA ScreenedIsReadable ==
  ASSUME TypeOK, Screened, BaselineFailures # {}
  PROVE  Readable(cache)
<1>1. PICK id \in BaselineFailures : \E case \in Successes : case.query_id = id
  BY DEF Screened, PaidFor
<1>2. Successes # {}
  BY <1>1
<1>3. Completed(cache) # <<>>
  BY <1>2 DEF Successes, ToSet
<1>4. QED  BY <1>3 DEF Completed

LEMMA FailuresExist ==
  ASSUME NEW manifest, ManifestIsValid(manifest), manifest.failures \in Seq(AllIds)
  PROVE  BaselineFailures # {}
<1>1. Len(manifest.failures) \in Nat \ {0}
  BY ScoringAssumption DEF ManifestIsValid
<1>2. manifest.failures[1] \in ToSet(manifest.failures)
  BY <1>1 DEF ToSet
<1>3. QED  BY <1>2 DEF ManifestIsValid

\* The id of a call is one that the gates passed so far allow.
LEMMA SendIsGated ==
  ASSUME IInv, NEW p \in Processes, Working(p), NEW i \in DOMAIN IdsFor(p)
  PROVE  /\ program = "staged" /\ IdsFor(p)[i] \notin BaselineFailures =>
              Screened /\ (IdsFor(p)[i] \in Guards \/ Guarded)
         /\ program = "candidate" /\ IdsFor(p)[i] \in ToSet(ChallengeIds) => Developed
<1> DEFINE manifest == run[p].experiment.manifest
           id == IdsFor(p)[i]
<1>1. /\ TypeOK /\ GateShape(p) /\ WorklistShape(p) /\ run[p] # Idle
      /\ run[p].stage \in StagesOf /\ run[p].experiment \in Experiments[program]
      /\ program \in Programs
  BY RunKinds DEF IInv, RunShape, TypeOK
<1>2. manifest.failures \in Seq(AllIds) /\ manifest.guards \in Seq(AllIds)
  BY <1>1, EvaluationAssumption
<1>3. ASSUME program = "staged", id \notin BaselineFailures
      PROVE  Screened /\ (id \in Guards \/ Guarded)
  <2>1. ManifestIsValid(manifest)
    BY <1>1, <1>3 DEF WorklistShape
  <2>2. run[p].stage \in {"failures", "guard", "full"}
    BY <1>1, <1>3 DEF StagesOf, StagedStages
  <2>3. run[p].stage # "failures"
    <3>1. run[p].stage = "failures" => id \in ToSet(manifest.failures)
      BY DEF IdsFor, StageIds, ToSet
    <3>2. QED  BY <1>3, <2>1, <3>1 DEF ManifestIsValid
  <2>4. Screened /\ (run[p].stage = "full" => Guarded)
    BY <1>1, <1>3, <2>2, <2>3 DEF GateShape
  <2>5. run[p].stage = "guard" => id \in Guards
    <3>1. SUFFICES ASSUME run[p].stage = "guard" PROVE id \in Guards
      OBVIOUS
    <3>2. IdsFor(p) = manifest.failures \o manifest.guards
      BY <3>1 DEF IdsFor, StageIds
    <3>3. id \in ToSet(manifest.failures) \cup ToSet(manifest.guards)
      <4>1. id \in ToSet(manifest.failures \o manifest.guards)
        BY <3>2 DEF ToSet
      <4> HIDE DEF manifest, id
      <4>2. QED  BY <1>2, <4>1, ConcatenatedIds
    <3>4. id \in ToSet(manifest.guards)
      BY <1>3, <2>1, <3>3 DEF ManifestIsValid
    <3>5. Readable(cache)
      BY <1>1, <1>2, <2>1, <2>4, ScreenedIsReadable, FailuresExist
    <3>6. cache.experiment = run[p].experiment
      BY <1>3, <3>5 DEF IInv, LockShape, Locks, DiskShape
    <3>7. QED  BY <3>4, <3>6 DEF Guards
  <2>6. QED  BY <2>2, <2>3, <2>4, <2>5
<1>4. ASSUME program = "candidate", id \in ToSet(ChallengeIds) PROVE Developed
  <2>1. run[p].stage \in {"development", "challenge"}
    BY <1>1, <1>4 DEF StagesOf, CandidateStages
  <2>2. run[p].stage # "development"
    <3>1. run[p].stage = "development" => id \in ToSet(DevelopmentIds)
      BY DEF IdsFor, StageIds, ToSet
    <3>2. QED  BY <1>4, <3>1, ScoringAssumption
  <2>3. QED  BY <1>1, <1>4, <2>1, <2>2 DEF GateShape
<1>5. QED  BY <1>3, <1>4

LEMMA SendKeeps ==
  ASSUME IInv, NEW p \in Processes, Send(p)
  PROVE  IInv'
<1> DEFINE first == Min(run[p].pending)
           id == IdsFor(p)[first]
           ids == IdsFor(p)
<1>1. /\ TypeOK /\ run[p] # Idle /\ run[p].pc = "next" /\ run[p].pending # {}
      /\ UNCHANGED <<program, lock, cache, temporary, fullReport, starts, faults, lost, overlapped, killed>>
      /\ sent' = [sent EXCEPT ![id] = @ + 1]
  BY DEF IInv, Send, IdsFor, files, bounds
<1>0. run' = [run EXCEPT ![p].pc = "waiting", ![p].pending = @ \ {first}, ![p].current = id]
  BY DEF Send, IdsFor
<1>2. Working(p) /\ run[p].pc \notin CallPcs /\ "waiting" \in CallPcs
  BY <1>1 DEF Working, WorkPcs, CallPcs
<1>3. run[p] \in LoadedRuns /\ RunShape(p) /\ GateShape(p) /\ ValidCache(run[p].cache)
  BY <1>1, <1>2, RunKinds DEF IInv, RunShape
<1>4. /\ ids \in Seq(IdsOf) /\ IsInjective(ids) /\ run[p].pending \subseteq DOMAIN ids
      /\ \A i \in run[p].pending : ids[i] \notin CompletedIds(run[p].cache)
  BY <1>1, <1>2, <1>3 DEF RunShape, WorklistShape
<1>5. run[p].pending \in SUBSET Nat
  BY <1>3 DEF LoadedRuns
<1>6. first \in run[p].pending /\ \A i \in run[p].pending : first <= i
  BY <1>1, <1>5, LeastExists
<1>7. first \in DOMAIN ids /\ id \in IdsOf /\ id \in AllIds
  <2>1. first \in DOMAIN ids
    BY <1>4, <1>6
  <2> HIDE DEF first, ids
  <2>2. ids[first] \in IdsOf
    BY <1>4, <2>1
  <2>3. QED  BY <2>1, <2>2, SequencesOfIds DEF ids
<1> HIDE DEF first, id, ids
<1>8. run'[p] = [run[p] EXCEPT !.pc = "waiting", !.pending = @ \ {first}, !.current = id]
  BY <1>0, <1>1 DEF TypeOK
<1>9. /\ run'[p].pc = "waiting" /\ run'[p].pending = run[p].pending \ {first} /\ run'[p].current = id
      /\ run'[p].stage = run[p].stage /\ run'[p].experiment = run[p].experiment
      /\ run'[p].cache = run[p].cache
  BY <1>3, <1>8 DEF LoadedRuns
<1>10. run'[p] \in LoadedRuns
  BY <1>3, <1>5, <1>7, <1>8 DEF LoadedRuns, WorkPcs, CallPcs
<1>11. \A q \in Processes \ {p} : run'[q] = run[q]
  BY <1>0, <1>1 DEF TypeOK
<1>12. run' = [run EXCEPT ![p] = run'[p]]
  BY <1>0, <1>1, <1>8, <1>11 DEF TypeOK
<1>13. sent' \in [AllIds -> Nat]
  BY <1>1, <1>7 DEF TypeOK
<1>14. IdsFor(p)' = ids /\ IdsOf' = IdsOf /\ StagesOf' = StagesOf
  BY <1>1, <1>9 DEF IdsFor, ids, IdsOf, StagesOf
<1>15. RunShape(p)'
  <2>1. WorklistShape(p)'
    <3>1. \A i \in run'[p].pending : ids[i] # id
      BY <1>4, <1>6, <1>7, <1>9 DEF IsInjective, id, ids
    <3>2. id \notin CompletedIds(run[p].cache)
      BY <1>4, <1>6 DEF id, ids
    <3>3. program' = "staged" => ManifestIsValid(run'[p].experiment.manifest)
      BY <1>1, <1>2, <1>3, <1>9 DEF RunShape, WorklistShape
    <3>4. CompletedIds(run[p].cache)' = CompletedIds(run[p].cache)
      BY <1>9 DEF CompletedIds
    <3>5. IdsFor(p)' \in Seq(IdsOf') /\ IsInjective(IdsFor(p)')
      BY <1>4, <1>14
    <3>6. /\ run'[p].pending \subseteq DOMAIN IdsFor(p)'
          /\ \A i \in run'[p].pending : IdsFor(p)'[i] \notin CompletedIds(run[p].cache)'
      BY <1>4, <1>9, <1>14, <3>4
    <3>7. run'[p].current \in IdsOf' /\ run'[p].current \notin CompletedIds(run[p].cache)'
      BY <1>7, <1>9, <1>14, <3>2, <3>4
    <3>8. \A i \in run'[p].pending : IdsFor(p)'[i] # run'[p].current
      BY <1>9, <1>14, <3>1
    <3>9. QED  BY <3>3, <3>5, <3>6, <3>7, <3>8 DEF WorklistShape
  <2>2. ASSUME program = "full" PROVE OrderShape(p)'
    <3> DEFINE done == Len(run[p].cache.completed)
    <3>1. run[p].pending = (done + 1)..Len(Dataset)
      BY <1>1, <1>2, <1>3, <2>2 DEF RunShape, OrderShape
    <3>2. done \in Nat /\ Len(Dataset) \in Nat /\ DOMAIN Dataset = 1..Len(Dataset)
      BY <1>3, SequencesOfIds DEF LoadedRuns, CacheRecords
    <3> HIDE DEF done
    <3>3. first = done + 1
      <4>1. first \in (done + 1)..Len(Dataset)
        BY <1>6, <3>1
      <4>2. done + 1 \in run[p].pending
        BY <4>1, <3>1, <3>2
      <4>3. first <= done + 1
        BY <4>2, <1>6
      <4>4. QED  BY <4>1, <4>3, <3>2
    <3>4. done + 1 \in DOMAIN Dataset
      BY <1>6, <3>1, <3>2, <3>3
    <3>5. ids = Dataset
      <4>1. run[p].stage = "full"
        BY <1>1, <1>3, <2>2 DEF RunShape, StagesOf
      <4>2. QED  BY <4>1 DEF ids, IdsFor, StageIds
    <3>6. id = Dataset[done + 1]
      BY <3>3, <3>5 DEF id, ids
    <3>7. run'[p].pending = (done + 2)..Len(Dataset)
      BY <1>9, <3>1, <3>2, <3>3
    <3>8. QED  BY <1>9, <3>4, <3>6, <3>7 DEF OrderShape, done
  <2>3. ValidCache(run[p].cache)'
    BY <1>3, <1>1, <1>9, <1>14 DEF ValidCache, CacheIsValid, CacheShapeIsValid, CompletedIds
  <2>4. /\ run'[p].stage \in StagesOf' /\ run'[p].experiment \in Experiments[program']
        /\ run'[p].cache.experiment = run'[p].experiment
    BY <1>1, <1>2, <1>3, <1>9, <1>14 DEF RunShape
  <2>5. program' = "full" => OrderShape(p)'
    BY <1>1, <2>2
  <2>6. QED  BY <1>9, <2>1, <2>3, <2>4, <2>5 DEF RunShape
<1>16. ASSUME ~overlapped PROVE DiskShape(p)' /\ AccountShape'
  <2>1. DiskShape(p)'
    BY <1>1, <1>2, <1>9, <1>16 DEF IInv, DiskShape, Completed, Failed, Readable
  <2>2. \A q \in Processes \ {p} : run[q] = Idle /\ run'[q] = Idle
    BY <1>1, <1>11, <1>16, Alone
  <2>3. ASSUME NEW other \in AllIds
        PROVE  sent'[other] = RecordsOf(other)' + FailuresOf(other)' + lost'[other] + CallsInFlight(other)'
    <3>1. InFlight(run, other) = 0
      BY <1>2, <2>2, InFlightAlone
    <3>2. InFlight(run', other) = IF id = other THEN 1 ELSE 0
      <4>1. run'[p] # Idle
        BY <1>9 DEF Idle
      <4>2. QED  BY <1>2, <1>9, <2>2, <4>1, InFlightAlone
    <3>3. sent[other] = RecordsOf(other) + FailuresOf(other) + lost[other] + CallsInFlight(other)
      BY <1>16 DEF IInv, AccountShape
    <3>4. RecordsOf(other)' = RecordsOf(other) /\ FailuresOf(other)' = FailuresOf(other)
      BY <1>1, RecordsAreCounted
    <3>5. sent'[other] = sent[other] + (IF id = other THEN 1 ELSE 0)
      BY <1>1, <1>7 DEF TypeOK
    <3>6. RecordsOf(other) \in Nat /\ FailuresOf(other) \in Nat /\ lost[other] \in Nat /\ sent[other] \in Nat
      BY <1>1, CountsType
    <3>7. /\ CallsInFlight(other) = 0
          /\ CallsInFlight(other)' = IF id = other THEN 1 ELSE 0
      BY <3>1, <3>2, CallsAreInFlight
    <3>8. lost'[other] = lost[other]
      BY <1>1
    <3>9. QED  BY <3>3, <3>4, <3>5, <3>6, <3>7, <3>8
  <2>4. QED  BY <2>1, <2>3 DEF AccountShape
<1>17. /\ Screened' = Screened /\ Guarded' = Guarded /\ Developed' = Developed /\ Guards' = Guards
  BY <1>1, GatesStay
<1>18. GateShape(p)'
  BY <1>1, <1>3, <1>9, <1>17 DEF GateShape
<1>19. SpendingIsGated'
  <2>1. ASSUME NEW other \in AllIds \ {id} PROVE sent'[other] = sent[other]
    BY <1>1 DEF TypeOK
  <2>2. /\ program = "staged" /\ id \notin BaselineFailures => Screened /\ (id \in Guards \/ Guarded)
        /\ program = "candidate" /\ id \in ToSet(ChallengeIds) => Developed
    BY <1>2, <1>7, SendIsGated DEF id, ids
  <2>3. QED  BY <1>1, <1>17, <2>1, <2>2 DEF IInv, SpendingIsGated
<1>20. run'[p].pc \in WorkPcs /\ run[p].pc # "output"
  BY <1>1, <1>9 DEF WorkPcs, CallPcs
<1>21. QED
  BY <1>1, <1>2, <1>10, <1>11, <1>12, <1>13, <1>15, <1>16, <1>18, <1>19, <1>20, CallKeeps

LEMMA PrefixMeans ==
  ASSUME NEW S, NEW s \in Seq(S), NEW t \in Seq(S)
  PROVE  IsPrefix(s, t) <=> Len(s) <= Len(t) /\ \A i \in 1..Len(s) : s[i] = t[i]
<1>1. Len(s) \in Nat /\ Len(t) \in Nat
  OBVIOUS
<1>2. SubSeq(s, 1, Len(s)) = [i \in 1..Len(s) |-> s[i]]
  BY <1>1
<1>3. SubSeq(t, 1, Len(s)) = [i \in 1..Len(s) |-> t[i]]
  BY <1>1
<1>4. [i \in 1..Len(s) |-> s[i]] = [i \in 1..Len(s) |-> t[i]]
        <=> \A i \in 1..Len(s) : s[i] = t[i]
  <2>1. ASSUME \A i \in 1..Len(s) : s[i] = t[i]
        PROVE  [i \in 1..Len(s) |-> s[i]] = [i \in 1..Len(s) |-> t[i]]
    BY <2>1, Zenon
  <2>2. ASSUME [i \in 1..Len(s) |-> s[i]] = [i \in 1..Len(s) |-> t[i]], NEW i \in 1..Len(s)
        PROVE  s[i] = t[i]
    <3>1. [j \in 1..Len(s) |-> s[j]][i] = s[i] /\ [j \in 1..Len(s) |-> t[j]][i] = t[i]
      OBVIOUS
    <3>2. QED  BY <2>2, <3>1, Zenon
  <2>3. QED  BY <2>1, <2>2
<1>5. QED  BY <1>2, <1>3, <1>4 DEF IsPrefix

LEMMA PrefixGrows ==
  ASSUME NEW S, NEW s \in Seq(S), NEW t \in Seq(S), IsPrefix(s, t), Len(s) + 1 \in DOMAIN t
  PROVE  IsPrefix(Append(s, t[Len(s) + 1]), t)
<1> DEFINE x == t[Len(s) + 1]
           more == Append(s, x)
<1>1. x \in S
  OBVIOUS
<1>2. /\ more \in Seq(S) /\ Len(more) = Len(s) + 1 /\ Len(s) \in Nat
      /\ more[Len(s) + 1] = x /\ \A i \in 1..Len(s) : more[i] = s[i]
  BY <1>1
<1>3. \A i \in 1..Len(s) : s[i] = t[i]
  BY PrefixMeans
<1>4. Len(s) + 1 <= Len(t) /\ t[Len(s) + 1] = x
  OBVIOUS
<1> HIDE DEF x, more
<1>5. \A i \in 1..Len(more) : more[i] = t[i]
  BY <1>2, <1>3, <1>4
<1>6. Len(more) <= Len(t)
  BY <1>2, <1>4
<1>7. IsPrefix(more, t)
  BY <1>2, <1>5, <1>6, PrefixMeans
<1>8. QED  BY <1>7 DEF more, x

\* The result of a call joins the cache in memory.
Recorded(before, id, degraded, after) ==
  /\ after \in CacheRecords /\ after.experiment = before.experiment
  /\ IF degraded THEN after.completed = before.completed /\ after.failed = Append(before.failed, id)
     ELSE /\ after.failed = before.failed
          /\ \E case \in Cases : /\ case.query_id = id
                                 /\ after.completed = Append(before.completed, case)

LEMMA RecordedIsValid ==
  ASSUME NEW before, ValidCache(before), NEW after, NEW id \in IdsOf, NEW degraded \in BOOLEAN,
         Recorded(before, id, degraded, after),
         id \notin CompletedIds(before),
         program = "full" /\ ~degraded =>
           /\ Len(before.completed) + 1 \in DOMAIN Dataset
           /\ id = Dataset[Len(before.completed) + 1]
  PROVE  /\ ValidCache(after)
         /\ CompletedIds(after) = IF degraded THEN CompletedIds(before) ELSE CompletedIds(before) \cup {id}
         /\ Len(after.completed) = IF degraded THEN Len(before.completed) ELSE Len(before.completed) + 1
<1>1. /\ before \in CacheRecords /\ after \in CacheRecords
      /\ before.completed \in Seq(Cases) /\ after.completed \in Seq(Cases)
      /\ before.failed \in Seq(AllIds) /\ after.failed \in Seq(AllIds)
  BY DEF ValidCache, Recorded, CacheRecords
<1>2. \A i \in DOMAIN after.completed : after.completed[i].scores # <<>>
  <2>1. ASSUME NEW i \in DOMAIN after.completed PROVE after.completed[i] \in Cases
    BY <1>1
  <2>2. QED  BY <2>1, ScoresAreKept
<1>3. CASE degraded
  <2>1. after.completed = before.completed /\ after.failed = Append(before.failed, id)
    BY <1>3 DEF Recorded
  <2>2. ToSet(after.failed) \subseteq IdsOf
    <3>1. \A i \in DOMAIN before.failed : before.failed[i] \in IdsOf
      BY DEF ValidCache, CacheIsValid, ToSet
    <3>2. ASSUME NEW i \in DOMAIN after.failed PROVE after.failed[i] \in IdsOf
      <4>1. CASE i = Len(before.failed) + 1
        BY <1>1, <2>1, <4>1
      <4>2. CASE i # Len(before.failed) + 1
        <5>1. i \in DOMAIN before.failed /\ after.failed[i] = before.failed[i]
          BY <1>1, <2>1, <4>2
        <5>2. QED  BY <3>1, <5>1
      <4>3. QED  BY <4>1, <4>2
    <3>3. QED  BY <3>2 DEF ToSet
  <2>3. QED
    BY <1>1, <1>2, <1>3, <2>1, <2>2 DEF ValidCache, CacheIsValid, CacheShapeIsValid, CompletedIds
<1>4. CASE ~degraded
  <2>1. PICK case \in Cases : case.query_id = id /\ after.completed = Append(before.completed, case)
    BY <1>4 DEF Recorded
  <2>2. after.failed = before.failed
    BY <1>4 DEF Recorded
  <2>3. IsInjective(QueryIds(before.completed))
    BY DEF ValidCache, CacheIsValid, CacheShapeIsValid
  <2>4. IsInjective(QueryIds(after.completed))
    BY <1>1, <2>1, <2>3, StaysInjective DEF CompletedIds
  <2>5. /\ CompletedIds(after) = CompletedIds(before) \cup {id}
        /\ QueryIds(after.completed) = Append(QueryIds(before.completed), id)
    <3> DEFINE more == Append(before.completed, case)
    <3>1. /\ {more[i].query_id : i \in DOMAIN more} = CompletedIds(before) \cup {case.query_id}
          /\ QueryIds(more) = Append(QueryIds(before.completed), case.query_id)
      BY <1>1, AppendedIds DEF CompletedIds
    <3>2. more = after.completed
      BY <2>1
    <3> HIDE DEF more
    <3>3. CompletedIds(after) = {more[i].query_id : i \in DOMAIN more}
      BY <3>2, Zenon DEF CompletedIds
    <3>4. QED  BY <2>1, <3>1, <3>2, <3>3, Zenon
  <2>6. Len(after.completed) = Len(before.completed) + 1
    BY <1>1, <2>1
  <2>7. program = "full" => IsPrefix(QueryIds(after.completed), Dataset)
    <3>1. SUFFICES ASSUME program = "full" PROVE IsPrefix(QueryIds(after.completed), Dataset)
      OBVIOUS
    <3>2. QueryIds(before.completed) \in Seq(AllIds) /\ Len(QueryIds(before.completed)) = Len(before.completed)
      <4>1. \A i \in DOMAIN before.completed : before.completed[i].query_id \in AllIds
        BY <1>1, CaseFields
      <4>2. QED  BY <1>1, <4>1 DEF QueryIds
    <3>3. Dataset \in Seq(AllIds)
      BY SequencesOfIds DEF AllIds
    <3>4. IsPrefix(QueryIds(before.completed), Dataset)
      BY <3>1 DEF ValidCache
    <3>5. IsPrefix(Append(QueryIds(before.completed), id), Dataset)
      BY <1>4, <3>1, <3>2, <3>3, <3>4, PrefixGrows
    <3>6. QED  BY <2>5, <3>5
  <2>8. CompletedIds(after) \subseteq IdsOf /\ ToSet(after.failed) \subseteq IdsOf
    BY <2>2, <2>5 DEF ValidCache, CacheIsValid
  <2>9. QED
    BY <1>1, <1>2, <1>4, <2>4, <2>5, <2>6, <2>7, <2>8 DEF ValidCache, CacheIsValid, CacheShapeIsValid
<1>5. QED  BY <1>3, <1>4

LEMMA RecordKeeps ==
  ASSUME IInv, NEW p \in Processes, run[p] # Idle, run[p].pc = "waiting",
         NEW more, NEW degraded \in BOOLEAN, Recorded(run[p].cache, run[p].current, degraded, more),
         run' = [run EXCEPT ![p] = run'[p]],
         run'[p] = [run[p] EXCEPT !.pc = "record", !.degraded = degraded, !.cache = more],
         UNCHANGED <<program, lock, cache, temporary, fullReport, starts, faults, sent, lost,
                     overlapped, killed>>
  PROVE  IInv'
<1> DEFINE ids == IdsFor(p)
           id == run[p].current
<1>1. TypeOK /\ Working(p) /\ run[p].pc \in CallPcs /\ run[p].pc # "output"
  BY DEF IInv, Working, WorkPcs, CallPcs
<1>2. run[p] \in LoadedRuns /\ RunShape(p) /\ GateShape(p) /\ ValidCache(run[p].cache) /\ WorklistShape(p)
  BY <1>1, RunKinds DEF IInv, RunShape
<1>3. more \in CacheRecords
  BY DEF Recorded
<1>4. /\ run'[p].pc = "record" /\ run'[p].pending = run[p].pending /\ run'[p].current = id
      /\ run'[p].stage = run[p].stage /\ run'[p].experiment = run[p].experiment
      /\ run'[p].cache = more /\ run'[p].degraded = degraded
  BY <1>2 DEF LoadedRuns
<1>5. run'[p] \in LoadedRuns /\ run'[p].pc \in WorkPcs /\ run'[p].pc \in CallPcs
  BY <1>2, <1>3 DEF LoadedRuns, WorkPcs, CallPcs
<1>6. \A q \in Processes \ {p} : run'[q] = run[q]
  BY <1>1 DEF TypeOK
<1>7. IdsFor(p)' = ids /\ IdsOf' = IdsOf /\ StagesOf' = StagesOf
  BY <1>4 DEF IdsFor, IdsOf, StagesOf
<1>8. /\ id \in IdsOf /\ id \notin CompletedIds(run[p].cache)
      /\ \A i \in run[p].pending : ids[i] # id /\ ids[i] \notin CompletedIds(run[p].cache)
  BY <1>1, <1>2 DEF WorklistShape
<1>9. ASSUME program = "full"
      PROVE  /\ Len(run[p].cache.completed) + 1 \in DOMAIN Dataset
             /\ id = Dataset[Len(run[p].cache.completed) + 1]
             /\ run[p].pending = (Len(run[p].cache.completed) + 2)..Len(Dataset)
  BY <1>1, <1>2, <1>9 DEF RunShape, OrderShape
<1>10. /\ ValidCache(more)
       /\ CompletedIds(more) =
            IF degraded THEN CompletedIds(run[p].cache) ELSE CompletedIds(run[p].cache) \cup {id}
       /\ Len(more.completed) =
            IF degraded THEN Len(run[p].cache.completed) ELSE Len(run[p].cache.completed) + 1
  <2>1. id \in IdsOf /\ id \notin CompletedIds(run[p].cache) /\ ValidCache(run[p].cache)
    BY <1>2, <1>8
  <2>2. Recorded(run[p].cache, id, degraded, more)
    OBVIOUS
  <2>3. program = "full" /\ ~degraded =>
          /\ Len(run[p].cache.completed) + 1 \in DOMAIN Dataset
          /\ id = Dataset[Len(run[p].cache.completed) + 1]
    BY <1>9
  <2> HIDE DEF id
  <2>4. QED  BY <2>1, <2>2, <2>3, RecordedIsValid
<1>11. RunShape(p)'
  <2>1. ValidCache(run[p].cache)'
    BY <1>4, <1>7, <1>10 DEF ValidCache, CacheIsValid, CacheShapeIsValid, CompletedIds
  <2>2. WorklistShape(p)'
    <3>1. IdsFor(p)' \in Seq(IdsOf') /\ IsInjective(IdsFor(p)')
      BY <1>2, <1>7 DEF WorklistShape
    <3>2. program' = "staged" => ManifestIsValid(run'[p].experiment.manifest)
      BY <1>2, <1>4 DEF WorklistShape
    <3>3. CompletedIds(run[p].cache)' = CompletedIds(more)
      BY <1>4 DEF CompletedIds
    <3>4. \A i \in run[p].pending : ids[i] \notin CompletedIds(more)
      BY <1>8, <1>10
    <3>5. /\ run'[p].pending \subseteq DOMAIN IdsFor(p)'
          /\ \A i \in run'[p].pending : IdsFor(p)'[i] \notin CompletedIds(run[p].cache)'
      BY <1>2, <1>4, <1>7, <3>3, <3>4 DEF WorklistShape
    <3>6. run'[p].current \in IdsOf'
      BY <1>4, <1>7, <1>8
    <3>7. QED  BY <1>4, <3>1, <3>2, <3>5, <3>6 DEF WorklistShape
  <2>3. program' = "full" => OrderShape(p)'
    <3>1. SUFFICES ASSUME program = "full", ~degraded
                   PROVE  run'[p].pending = (Len(more.completed) + 1)..Len(Dataset)
      BY <1>4 DEF OrderShape
    <3>2. Len(run[p].cache.completed) \in Nat
      BY <1>2 DEF LoadedRuns, CacheRecords
    <3>3. QED  BY <1>4, <1>9, <1>10, <3>1, <3>2
  <2>4. /\ run'[p].stage \in StagesOf' /\ run'[p].experiment \in Experiments[program']
        /\ run'[p].cache.experiment = run'[p].experiment
    BY <1>1, <1>2, <1>4, <1>7 DEF RunShape, Recorded
  <2>5. QED  BY <1>4, <2>1, <2>2, <2>3, <2>4 DEF RunShape
<1>12. ASSUME ~overlapped PROVE DiskShape(p)' /\ AccountShape'
  <2>1. DiskShape(p)
    BY <1>1, <1>12 DEF IInv
  <2>2. /\ run[p].cache.completed = Completed(cache) /\ run[p].cache.failed = Failed(cache)
        /\ Readable(cache) => cache.experiment = run[p].experiment
    BY <2>1 DEF DiskShape
  <2>3. Completed(cache)' = Completed(cache) /\ Failed(cache)' = Failed(cache) /\ Readable(cache)' = Readable(cache)
    BY DEF Completed, Failed, Readable
  <2>4. OneRecordAhead(p)'
    <3>1. CASE degraded
      <4>1. more.completed = Completed(cache) /\ more.failed = Append(Failed(cache), id)
        BY <2>2, <3>1 DEF Recorded
      <4>2. QED  BY <1>4, <2>3, <3>1, <4>1 DEF OneRecordAhead
    <3>2. CASE ~degraded
      <4>1. /\ more.failed = Failed(cache)
            /\ \E case \in Cases : case.query_id = id /\ more.completed = Append(Completed(cache), case)
        BY <2>2, <3>2 DEF Recorded
      <4>2. QED  BY <1>4, <2>3, <3>2, <4>1 DEF OneRecordAhead
    <3>3. QED  BY <3>1, <3>2
  <2>5. DiskShape(p)'
    BY <1>4, <2>2, <2>3, <2>4 DEF DiskShape
  <2>6. \A q \in Processes \ {p} : run[q] = Idle /\ run'[q] = Idle
    BY <1>6, <1>12, Alone
  <2>7. run'[p] # Idle
    <3>1. Idle.pc = "idle" /\ run'[p].pc = "record"
      BY <1>4 DEF Idle
    <3>2. QED  BY <3>1
  <2>8. AccountShape'
    BY <1>1, <1>4, <1>5, <1>12, <2>6, <2>7, AccountsStay
  <2>9. QED  BY <2>5, <2>8
<1>13. GateShape(p)'
  BY <1>2, <1>4, GatesStay DEF GateShape
<1>14. SpendingIsGated'
  BY GatesStay DEF IInv, SpendingIsGated
<1>15. sent' \in [AllIds -> Nat]
  BY <1>1 DEF TypeOK
<1>16. QED
  BY <1>1, <1>5, <1>6, <1>11, <1>12, <1>13, <1>14, <1>15, CallKeeps

\* The cache in memory with one entry more.
LEMMA RecordsGrow ==
  ASSUME NEW before \in CacheRecords, NEW done \in Seq(Cases), NEW failures \in Seq(AllIds)
  PROVE  /\ [before EXCEPT !.completed = done] \in CacheRecords
         /\ [before EXCEPT !.completed = done].completed = done
         /\ [before EXCEPT !.completed = done].failed = before.failed
         /\ [before EXCEPT !.completed = done].experiment = before.experiment
         /\ [before EXCEPT !.failed = failures] \in CacheRecords
         /\ [before EXCEPT !.failed = failures].failed = failures
         /\ [before EXCEPT !.failed = failures].completed = before.completed
         /\ [before EXCEPT !.failed = failures].experiment = before.experiment
BY DEF CacheRecords

LEMMA SucceedKeeps ==
  ASSUME IInv, NEW p \in Processes, NEW scores \in Replies[program], Succeed(p, scores)
  PROVE  IInv'
<1> DEFINE case == CaseResult(run[p].current, scores, HighConfidenceThreshold, AmbiguityMargin)
           more == [run[p].cache EXCEPT !.completed = Append(@, case)]
<1>1. /\ TypeOK /\ run[p] # Idle /\ run[p].pc = "waiting"
      /\ UNCHANGED <<program, lock, cache, temporary, fullReport, starts, faults, sent, lost,
                     overlapped, killed>>
      /\ run' = [run EXCEPT ![p].pc = "record", ![p].degraded = FALSE,
                            ![p].cache.completed = Append(@, case)]
  BY DEF IInv, Succeed, files, bounds, history
<1>2. /\ run[p] \in LoadedRuns /\ WorklistShape(p) /\ run[p].pc \in CallPcs
  BY <1>1, RunKinds DEF IInv, RunShape, Working, WorkPcs, CallPcs
<1>3. run[p].current \in AllIds /\ program \in Programs
  BY <1>1, <1>2, SequencesOfIds DEF WorklistShape, TypeOK
<1>4. case \in Cases /\ case.query_id = run[p].current
  BY <1>3, CaseFields DEF Cases, AllReplies
<1> HIDE DEF case
<1>5. /\ run'[p] = [run[p] EXCEPT !.pc = "record", !.degraded = FALSE, !.cache = more]
      /\ run' = [run EXCEPT ![p] = run'[p]]
  BY <1>1, <1>2 DEF TypeOK, LoadedRuns
<1>6. Recorded(run[p].cache, run[p].current, FALSE, more)
  <2>1. run[p].cache \in CacheRecords
    BY <1>2 DEF LoadedRuns
  <2>2. /\ more \in CacheRecords /\ more.experiment = run[p].cache.experiment
        /\ more.failed = run[p].cache.failed
        /\ more.completed = Append(run[p].cache.completed, case)
    <3>1. Append(run[p].cache.completed, case) \in Seq(Cases)
      BY <1>4, <2>1 DEF CacheRecords
    <3>2. Failed(Absent) \in Seq(AllIds)
      BY DEF Failed, Readable
    <3>3. QED  BY <2>1, <3>1, <3>2, RecordsGrow
  <2>3. QED  BY <1>4, <2>2, Zenon DEF Recorded
<1> HIDE DEF more
<1>7. QED  BY <1>1, <1>5, <1>6, RecordKeeps

LEMMA DegradeKeeps ==
  ASSUME IInv, NEW p \in Processes, Degrade(p)
  PROVE  IInv'
<1> DEFINE more == [run[p].cache EXCEPT !.failed = Append(@, run[p].current)]
<1>1. /\ TypeOK /\ run[p] # Idle /\ run[p].pc = "waiting"
      /\ UNCHANGED <<program, lock, cache, temporary, fullReport, starts, faults, sent, lost,
                     overlapped, killed>>
      /\ run' = [run EXCEPT ![p].pc = "record", ![p].degraded = TRUE,
                            ![p].cache.failed = Append(@, run[p].current)]
  BY DEF IInv, Degrade, files, bounds, history
<1>2. /\ run[p] \in LoadedRuns /\ WorklistShape(p) /\ run[p].pc \in CallPcs
  BY <1>1, RunKinds DEF IInv, RunShape, Working, WorkPcs, CallPcs
<1>3. run[p].current \in AllIds
  BY <1>1, <1>2, SequencesOfIds DEF WorklistShape
<1>4. /\ run'[p] = [run[p] EXCEPT !.pc = "record", !.degraded = TRUE, !.cache = more]
      /\ run' = [run EXCEPT ![p] = run'[p]]
  BY <1>1, <1>2 DEF TypeOK, LoadedRuns
<1>5. Recorded(run[p].cache, run[p].current, TRUE, more)
  <2>1. run[p].cache \in CacheRecords
    BY <1>2 DEF LoadedRuns
  <2>2. /\ more \in CacheRecords /\ more.experiment = run[p].cache.experiment
        /\ more.completed = run[p].cache.completed
        /\ more.failed = Append(run[p].cache.failed, run[p].current)
    <3>1. Append(run[p].cache.failed, run[p].current) \in Seq(AllIds)
      BY <1>3, <2>1 DEF CacheRecords
    <3>2. Completed(Absent) \in Seq(Cases)
      BY DEF Completed, Readable
    <3>3. QED  BY <2>1, <3>1, <3>2, RecordsGrow
  <2>3. QED  BY <2>2, Zenon DEF Recorded
<1> HIDE DEF more
<1>6. QED  BY <1>1, <1>4, <1>5, RecordKeeps

-----------------------------------------------------------------------------
(* The rename that puts a record on disk                                   *)

LEMMA SuccessesAreFinite ==
  ASSUME NEW file \in CacheRecords \cup {Absent, Torn}
  PROVE  IsFiniteSet(ToSet(Completed(file))) /\ ToSet(Completed(file)) \subseteq Cases
<1>1. Completed(file) \in Seq(Cases)
  BY DEF Completed, Readable, CacheRecords
<1> DEFINE done == Completed(file)
<1>2. DOMAIN done = 1..Len(done) /\ Len(done) \in Nat
  BY <1>1
<1>3. IsFiniteSet(DOMAIN done)
  BY <1>2, FS_Interval
<1>4. done \in [DOMAIN done -> ToSet(done)]
  <2>1. \A i \in DOMAIN done : done[i] \in ToSet(done)
    BY DEF ToSet
  <2>2. done = [i \in DOMAIN done |-> done[i]]
    BY <1>1
  <2> HIDE DEF done
  <2>3. QED  BY <2>1, <2>2
<1>5. done \in Surjection(DOMAIN done, ToSet(done))
  BY <1>4 DEF Surjection, ToSet
<1>6. IsFiniteSet(ToSet(done))
  <2> HIDE DEF done
  <2>1. QED  BY <1>3, <1>5, FS_Surjection
<1>7. ToSet(done) \subseteq Cases
  BY <1>1 DEF ToSet
<1>8. QED  BY <1>6, <1>7

\* A gate that has passed stays passed while successes for other ids are added.
LEMMA GatesGrow ==
  ASSUME TypeOK, TypeOK', Successes \subseteq Successes',
         \A case \in Successes' \ Successes, other \in Successes : case.query_id # other.query_id,
         Readable(cache) => cache'.experiment = cache.experiment
  PROVE  /\ Screened => Screened'
         /\ Readable(cache) => Guards' = Guards /\ (Guarded => Guarded')
         /\ Developed => Developed'
<1>1. IsFiniteSet(Successes')
  BY SuccessesAreFinite DEF Successes, TypeOK
<1>2. ASSUME NEW ids PROVE /\ RightAmong(ids) \in Nat /\ RightAmong(ids)' \in Nat
                           /\ RightAmong(ids) <= RightAmong(ids)'
  <2> DEFINE Old == {case \in Successes : case.query_id \in ids /\ Correct(case)}
             New == {case \in Successes' : case.query_id \in ids /\ Correct(case)}
  <2>1. IsFiniteSet(New) /\ Old \subseteq New
    BY <1>1, FS_Subset
  <2>2. RightAmong(ids) = Cardinality(Old) /\ RightAmong(ids)' = Cardinality(New)
    BY DEF RightAmong
  <2> HIDE DEF Old, New
  <2>3. QED  BY <2>1, <2>2, FS_Subset, FS_CardinalityType
<1>3. ASSUME NEW ids, PaidFor(ids) PROVE PaidFor(ids)'
  BY <1>3 DEF PaidFor
<1>4. ASSUME NEW ids, PaidFor(ids), NoneMissedAmong(ids) PROVE NoneMissedAmong(ids)'
  BY <1>4 DEF PaidFor, NoneMissedAmong
<1>5. /\ Limits["failure_rag_correct"] \in Nat /\ Limits["failure_no_rag_correct"] \in Nat
      /\ Limits["guard_correct"] \in Nat
  BY ScoringAssumption
<1>6. Screened => Screened'
  BY <1>2, <1>3, <1>4, <1>5 DEF Screened
<1>7. Readable(cache) => Guards' = Guards /\ (Guarded => Guarded')
  <2>1. SUFFICES ASSUME Readable(cache) PROVE Guards' = Guards /\ (Guarded => Guarded')
    OBVIOUS
  <2>2. Guards' = Guards
    BY <2>1 DEF Guards
  <2>3. ASSUME Guarded PROVE Guarded'
    <3>1. PaidFor(Guards)' /\ NoneMissedAmong(Guards)'
      <4>1. PaidFor(Guards) /\ NoneMissedAmong(Guards)
        BY <2>3 DEF Guarded
      <4>2. QED  BY <2>2, <4>1, <1>3, <1>4 DEF PaidFor, NoneMissedAmong
    <3>2. RightAmong(Guards)' >= Limits["guard_correct"]
      <4>1. RightAmong(Guards) >= Limits["guard_correct"]
        BY <2>3 DEF Guarded
      <4>2. RightAmong(Guards) <= RightAmong(Guards)' /\ RightAmong(Guards) \in Nat /\ RightAmong(Guards)' \in Nat
        <5>1. PICK ids : ids = Guards
          OBVIOUS
        <5>2. RightAmong(ids) = RightAmong(Guards) /\ RightAmong(ids)' = RightAmong(Guards)'
          BY <2>2, <5>1 DEF RightAmong
        <5>3. QED  BY <1>2, <5>2
      <4>3. QED  BY <1>5, <4>1, <4>2
    <3>3. QED  BY <3>1, <3>2 DEF Guarded
  <2>4. QED  BY <2>2, <2>3
<1>8. Developed => Developed'
  BY DEF Developed
<1>9. QED  BY <1>6, <1>7, <1>8

\* One record more on disk, as sets of cases and as counts.
LEMMA RecordLands ==
  ASSUME NEW done \in Seq(Cases), NEW case \in Cases, IsInjective(QueryIds(Append(done, case)))
  PROVE  /\ ToSet(Append(done, case)) = ToSet(done) \cup {case}
         /\ \A other \in ToSet(done) : other.query_id # case.query_id
<1> DEFINE more == Append(done, case)
<1>1. /\ DOMAIN more = 1..(Len(done) + 1) /\ DOMAIN done = 1..Len(done) /\ Len(done) \in Nat
      /\ \A i \in 1..Len(done) : more[i] = done[i]
      /\ more[Len(done) + 1] = case
      /\ IsInjective(QueryIds(more))
  OBVIOUS
<1> HIDE DEF more
<1>2. \A i \in DOMAIN done : i \in DOMAIN more /\ more[i] = done[i]
  BY <1>1
<1>3. Len(done) + 1 \in DOMAIN more
  BY <1>1
<1>4. \A i \in DOMAIN more : more[i] \in ToSet(done) \cup {case}
  BY <1>1 DEF ToSet
<1>5. ToSet(more) = ToSet(done) \cup {case}
  BY <1>1, <1>2, <1>3, <1>4 DEF ToSet
<1>6. ASSUME NEW other \in ToSet(done) PROVE other.query_id # case.query_id
  <2>1. PICK i \in DOMAIN done : done[i] = other
    BY DEF ToSet
  <2>2. i \in DOMAIN more /\ more[i] = other /\ i # Len(done) + 1
    BY <1>1, <2>1
  <2>3. QED  BY <1>1, <1>3, <2>2 DEF IsInjective, QueryIds
<1>7. QED  BY <1>5, <1>6 DEF more

LEMMA RecordsBecome ==
  ASSUME NEW id \in AllIds, NEW done \in Seq(Cases), NEW case \in Cases
  PROVE  CountIn(QueryIds(Append(done, case)), id)
           = CountIn(QueryIds(done), id) + (IF case.query_id = id THEN 1 ELSE 0)
<1>1. QueryIds(done) \in Seq(AllIds)
  <2>1. \A i \in DOMAIN done : done[i].query_id \in AllIds
    BY CaseFields
  <2>2. QED  BY <2>1 DEF QueryIds
<1>2. case.query_id \in AllIds
  BY CaseFields
<1>3. QueryIds(Append(done, case)) = Append(QueryIds(done), case.query_id)
  BY AppendedIds
<1> HIDE DEF QueryIds
<1>4. CountIn(Append(QueryIds(done), case.query_id), id)
        = CountIn(QueryIds(done), id) + (IF case.query_id = id THEN 1 ELSE 0)
  BY <1>1, <1>2, CountAppend
<1>5. QED  BY <1>3, <1>4, Zenon

LEMMA RenameMoves ==
  ASSUME IInv, NEW p \in Processes, Rename(p)
  PROVE  /\ Working(p) /\ run[p].pc = "rename" /\ run[p] # Idle
         /\ TypeOK' /\ LockShape' /\ (\A q \in Processes : RunShape(q)')
         /\ \A q \in Processes \ {p} : run'[q] = run[q]
         /\ run'[p].pc = IF run[p].degraded THEN "exit" ELSE "next"
         /\ run'[p].stage = run[p].stage /\ run'[p].experiment = run[p].experiment
         /\ run'[p].cache = run[p].cache
         /\ fullReport' = Torn => faults' > 0 \/ \E q \in Live' : run'[q].pc = "output"
         /\ Readable(cache)' => ValidCache(cache)'
<1> DEFINE pc == IF run[p].degraded THEN "exit" ELSE "next"
<1>1. /\ TypeOK /\ run[p] # Idle /\ run[p].pc = "rename" /\ temporary # Absent /\ Goto(p, pc)
      /\ cache' = temporary /\ temporary' = Absent
      /\ UNCHANGED <<program, lock, fullReport, starts, faults, sent, lost, overlapped, killed>>
  BY DEF IInv, Rename, bounds, history
<1>2. Working(p) /\ pc \in WorkPcs \cup {"exit"} /\ run[p].pc \in CallPcs
  BY <1>1 DEF Working, WorkPcs, CallPcs
<1>3. /\ run' \in [Processes -> {Idle} \cup StartedRuns \cup LoadedRuns]
      /\ run'[p].pc = pc
      /\ run'[p].stage = run[p].stage /\ run'[p].experiment = run[p].experiment
      /\ run'[p].cache = run[p].cache /\ run'[p].pending = run[p].pending
      /\ run'[p].current = run[p].current /\ run'[p].degraded = run[p].degraded
      /\ \A q \in Processes \ {p} : run'[q] = run[q]
  <2> HIDE DEF pc
  <2>1. QED  BY <1>1, <1>2, Moves
<1>4. TypeOK'
  BY <1>1, <1>3 DEF TypeOK
<1>5. Live' = Live
  BY <1>1, <1>3, LiveIsKept
<1>6. LockShape'
  BY <1>1, <1>5, LockStays
<1>7. RunShape(p)'
  <2>1. CASE run[p].degraded
    BY <1>1, <1>3, <2>1, ExitShape DEF IInv
  <2>2. CASE ~run[p].degraded
    <3>1. pc = "next" /\ "next" \in WorkPcs
      BY <2>2 DEF WorkPcs
    <3>2. WorklistShape(p)'
      BY <1>1, <1>2, <1>3, <3>1, MovedShape DEF IInv, RunShape, WorklistShape, IdsFor, IdsOf, CompletedIds, CallPcs
    <3>3. program = "full" => OrderShape(p)'
      BY <1>1, <1>2, <1>3, <2>2, <3>1 DEF IInv, RunShape, OrderShape
    <3>4. ValidCache(run[p].cache)' /\ run'[p].stage \in StagesOf' /\ run'[p].experiment \in Experiments[program]
          /\ run'[p].cache.experiment = run'[p].experiment
      BY <1>1, <1>2, <3>1, MovedShape
    <3>5. QED  BY <1>1, <1>3, <3>1, <3>2, <3>3, <3>4 DEF RunShape
  <2>3. QED  BY <2>1, <2>2
<1>8. \A q \in Processes : RunShape(q)'
  <2>1. ASSUME NEW q \in Processes \ {p} PROVE RunShape(q)'
    BY <1>1, <1>3, RunShapeStays DEF IInv
  <2>2. QED  BY <1>7, <2>1
<1>9. fullReport' = Torn => faults' > 0 \/ \E q \in Live' : run'[q].pc = "output"
  BY <1>1, <1>3, <1>5 DEF IInv, FileShape, Live
<1>10. Readable(cache)' => ValidCache(cache)'
  <2>1. IdsOf' = IdsOf
    BY <1>1 DEF IdsOf
  <2>2. QED
    BY <1>1, <2>1 DEF IInv, FileShape, ValidCache, CacheIsValid, CacheShapeIsValid, CompletedIds, Readable
<1>11. QED  BY <1>1, <1>2, <1>3, <1>4, <1>6, <1>8, <1>9, <1>10

\* On the disk of a process that is alone a rename adds the case of its call.
LEMMA RenameAdds ==
  ASSUME IInv, ~overlapped, NEW p \in Processes, Rename(p)
  PROVE  /\ Successes \subseteq Successes'
         /\ \A case \in Successes' \ Successes, other \in Successes : case.query_id # other.query_id
<1> DEFINE done == Completed(cache)
           held == run[p].cache
<1>1. TypeOK /\ cache' = temporary /\ Working(p) /\ run[p].pc = "rename"
  BY RenameMoves DEF IInv, Rename
<1>2. DiskShape(p) /\ ValidCache(held)
  BY <1>1 DEF IInv, RunShape
<1>3. cache' = held /\ OneRecordAhead(p) /\ held \in CacheRecords
  BY <1>1, <1>2 DEF DiskShape, ValidCache
<1>4. Successes' = ToSet(held.completed) /\ Successes = ToSet(done)
  BY <1>3, FileKinds DEF Successes, Completed
<1>5. done \in Seq(Cases)
  BY <1>1, FileType
<1> HIDE DEF done, held
<1>6. CASE held.completed = done
  BY <1>4, <1>6
<1>7. CASE \E case \in Cases : held.completed = Append(done, case)
  <2>1. PICK case \in Cases : held.completed = Append(done, case)
    BY <1>7
  <2>2. IsInjective(QueryIds(Append(done, case)))
    BY <1>2, <2>1 DEF ValidCache, CacheIsValid, CacheShapeIsValid
  <2>3. /\ ToSet(Append(done, case)) = ToSet(done) \cup {case}
        /\ \A other \in ToSet(done) : other.query_id # case.query_id
    BY <1>5, <2>2, RecordLands
  <2>4. Successes' = Successes \cup {case}
    BY <1>4, <2>1, <2>3, Zenon
  <2>5. QED  BY <1>4, <2>3, <2>4
<1>8. QED  BY <1>3, <1>6, <1>7 DEF OneRecordAhead, held, done

LEMMA RenameKeeps ==
  ASSUME IInv, NEW p \in Processes, Rename(p)
  PROVE  IInv'
<1> DEFINE id == run[p].current
           done == Completed(cache)
           failures == Failed(cache)
           held == run[p].cache
<1>1. /\ TypeOK /\ cache' = temporary /\ temporary' = Absent
      /\ UNCHANGED <<program, fullReport, starts, faults, sent, lost, overlapped, killed>>
  BY DEF IInv, Rename, bounds, history
<1>2. /\ Working(p) /\ run[p].pc = "rename" /\ run[p] # Idle
      /\ TypeOK' /\ LockShape' /\ (\A q \in Processes : RunShape(q)')
      /\ \A q \in Processes \ {p} : run'[q] = run[q]
      /\ run'[p].pc = IF run[p].degraded THEN "exit" ELSE "next"
      /\ run'[p].stage = run[p].stage /\ run'[p].experiment = run[p].experiment
      /\ run'[p].cache = held
      /\ fullReport' = Torn => faults' > 0 \/ \E q \in Live' : run'[q].pc = "output"
      /\ Readable(cache)' => ValidCache(cache)'
  BY RenameMoves
<1>3. CASE overlapped
  <2>1. FileShape'
    BY <1>1, <1>2, <1>3 DEF FileShape, Readable
  <2>2. program' = "full"
    BY <1>1, <1>3, OverlapIsFull
  <2>3. QED  BY <1>1, <1>2, <1>3, <2>1, <2>2, OverlappedKeeps
<1>4. CASE ~overlapped
  <2>1. /\ DiskShape(p) /\ GateShape(p) /\ RunShape(p) /\ ValidCache(held)
        /\ WorklistShape(p)
    BY <1>2, <1>4 DEF IInv, RunShape
  <2>2. cache' = held /\ OneRecordAhead(p) /\ held \in CacheRecords
    BY <1>1, <1>2, <2>1 DEF DiskShape, ValidCache
  <2>3. Readable(cache') /\ Completed(cache') = held.completed /\ Failed(cache') = held.failed
    BY <2>2, FileKinds DEF Completed, Failed
  <2>4. done \in Seq(Cases) /\ failures \in Seq(AllIds) /\ id \in AllIds
    BY <1>1, <1>2, <2>1, FileType, SequencesOfIds DEF WorklistShape, CallPcs
  <2> HIDE DEF id, done, failures, held
  <2>5. FileShape'
    <3>1. cache' # Torn
      BY <2>3 DEF Readable
    <3>2. QED  BY <1>1, <1>2, <3>1 DEF FileShape, Readable
  <2>6. /\ Successes \subseteq Successes'
        /\ \A case \in Successes' \ Successes, other \in Successes : case.query_id # other.query_id
    BY <1>4, RenameAdds
  <2>7. /\ Readable(cache) => cache.experiment = run[p].experiment
        /\ cache'.experiment = run[p].experiment
    BY <1>2, <2>1, <2>2 DEF DiskShape, RunShape, held
  <2>8. /\ Screened => Screened'
        /\ Readable(cache) => Guards' = Guards /\ (Guarded => Guarded')
        /\ Developed => Developed'
    BY <1>1, <1>2, <2>6, <2>7, GatesGrow
  <2>9. program = "staged" /\ Screened => Readable(cache)
    <3>1. SUFFICES ASSUME program = "staged", Screened PROVE Readable(cache)
      OBVIOUS
    <3>2. ManifestIsValid(run[p].experiment.manifest)
      BY <2>1, <3>1 DEF WorklistShape
    <3>3. run[p].experiment.manifest.failures \in Seq(AllIds)
      BY <1>1, <1>2, <2>1, EvaluationAssumption DEF TypeOK, RunShape
    <3>4. QED  BY <1>1, <3>1, <3>2, <3>3, FailuresExist, ScreenedIsReadable
  <2>10. SpendingIsGated'
    BY <1>1, <2>8, <2>9 DEF IInv, SpendingIsGated
  <2>11. GateShape(p)'
    <3>1. program = "staged" /\ run[p].stage \in {"guard", "full"} => Screened /\ Screened'
      BY <2>1, <2>8 DEF GateShape
    <3>2. program = "staged" /\ run[p].stage = "full" => Guarded'
      BY <2>1, <2>8, <2>9, <3>1 DEF GateShape
    <3>3. program = "candidate" /\ run[p].stage = "challenge" => Developed'
      BY <2>1, <2>8 DEF GateShape
    <3>4. QED  BY <1>1, <1>2, <3>1, <3>2, <3>3 DEF GateShape
  <2>12. \A q \in Processes \ {p} : run[q] = Idle /\ run'[q] = Idle
    BY <1>2, <1>4, Alone
  <2>13. \A q \in Processes \ {p} : ~Working(q)'
    BY <2>12 DEF Working, Idle, WorkPcs, CallPcs
  <2>14. Working(p)' => DiskShape(p)'
    <3>1. SUFFICES ASSUME Working(p)' PROVE DiskShape(p)'
      OBVIOUS
    <3>2. run'[p].pc = "next"
      BY <1>2, <3>1 DEF Working, WorkPcs, CallPcs
    <3>3. run'[p].cache.completed = Completed(cache') /\ run'[p].cache.failed = Failed(cache')
      BY <1>2, <2>3
    <3>4. cache'.experiment = run'[p].experiment
      BY <1>2, <2>7
    <3>5. QED  BY <3>2, <3>3, <3>4 DEF DiskShape, Completed, Failed, Readable
  <2>15. ASSUME NEW i \in AllIds
         PROVE  sent'[i] = RecordsOf(i)' + FailuresOf(i)' + lost'[i] + CallsInFlight(i)'
    <3>1. RecordsOf(i)' + FailuresOf(i)' = RecordsOf(i) + FailuresOf(i) + (IF id = i THEN 1 ELSE 0)
      <4>1. /\ RecordsOf(i) = CountIn(QueryIds(done), i) /\ FailuresOf(i) = CountIn(failures, i)
            /\ RecordsOf(i)' = CountIn(QueryIds(held.completed), i)
            /\ FailuresOf(i)' = CountIn(held.failed, i)
        BY <2>3, RecordsAreCounted DEF done, failures
      <4>2. RecordsOf(i) \in Nat /\ FailuresOf(i) \in Nat
        BY <1>1, CountsType
      <4>3. CASE run[p].degraded
        <5>1. held.completed = done /\ held.failed = Append(failures, id)
          BY <2>2, <4>3 DEF OneRecordAhead, held, done, failures, id
        <5>2. CountIn(Append(failures, id), i) = CountIn(failures, i) + (IF id = i THEN 1 ELSE 0)
          BY <2>4, CountAppend
        <5>3. QED  BY <4>1, <4>2, <5>1, <5>2
      <4>4. CASE ~run[p].degraded
        <5>1. PICK case \in Cases : case.query_id = id /\ held.completed = Append(done, case)
          BY <2>2, <4>4 DEF OneRecordAhead, held, done, id
        <5>2. held.failed = failures
          BY <2>2, <4>4 DEF OneRecordAhead, held, failures
        <5>3. CountIn(QueryIds(Append(done, case)), i)
                = CountIn(QueryIds(done), i) + (IF case.query_id = i THEN 1 ELSE 0)
          BY <2>4, RecordsBecome
        <5>4. QED  BY <4>1, <4>2, <5>1, <5>2, <5>3
      <4>5. QED  BY <4>3, <4>4
    <3>2. InFlight(run, i) = IF id = i THEN 1 ELSE 0
      BY <1>2, <2>12, InFlightAlone DEF id, CallPcs
    <3>3. InFlight(run', i) = 0
      BY <1>2, <2>12, InFlightAlone DEF CallPcs
    <3>4. sent[i] = RecordsOf(i) + FailuresOf(i) + lost[i] + CallsInFlight(i)
      BY <1>4 DEF IInv, AccountShape
    <3>5. RecordsOf(i) \in Nat /\ FailuresOf(i) \in Nat /\ lost[i] \in Nat /\ lost'[i] = lost[i]
          /\ sent'[i] = sent[i]
      BY <1>1, CountsType
    <3>6. CallsInFlight(i) = (IF id = i THEN 1 ELSE 0) /\ CallsInFlight(i)' = 0
      BY <3>2, <3>3, CallsAreInFlight
    <3>7. RecordsOf(i)' \in Nat /\ FailuresOf(i)' \in Nat
      <4>1. Completed(cache') \in Seq(Cases) /\ Failed(cache') \in Seq(AllIds)
        BY <2>2, <2>3 DEF CacheRecords
      <4>2. QueryIds(Completed(cache')) \in Seq(AllIds)
        <5>1. \A n \in DOMAIN Completed(cache') : Completed(cache')[n].query_id \in AllIds
          BY <4>1, CaseFields
        <5>2. QED  BY <4>1, <5>1 DEF QueryIds
      <4>3. QED  BY <4>1, <4>2, CountType, RecordsAreCounted
    <3>8. QED  BY <3>1, <3>4, <3>5, <3>6, <3>7
  <2>16. AccountShape'
    BY <2>15 DEF AccountShape
  <2>17. \A q \in Processes : Working(q)' => DiskShape(q)' /\ GateShape(q)'
    BY <2>11, <2>13, <2>14
  <2>18. QED  BY <1>2, <2>5, <2>10, <2>16, <2>17 DEF IInv
<1>5. QED  BY <1>3, <1>4

-----------------------------------------------------------------------------
(* A complete pass drops its checkpoint                                    *)

LEMMA UnlinkKeeps ==
  ASSUME IInv, NEW p \in Processes, Unlink(p)
  PROVE  IInv'
<1>1. /\ TypeOK /\ run[p] # Idle /\ run[p].pc = "unlink" /\ Finish(p) /\ cache' = Absent
      /\ sent' = [id \in AllIds |-> CallsInFlight(id)] /\ lost' = [id \in AllIds |-> 0]
      /\ UNCHANGED <<program, lock, temporary, fullReport, starts, faults, overlapped, killed>>
  BY DEF IInv, Unlink, bounds
<1>2. /\ run' \in [Processes -> {Idle} \cup StartedRuns \cup LoadedRuns]
      /\ run'[p].pc = "exit"
      /\ run'[p].stage = run[p].stage /\ run'[p].experiment = run[p].experiment
      /\ \A q \in Processes \ {p} : run'[q] = run[q]
  BY <1>1, Exits
<1>3. ~Working(p)' /\ run[p].pc \notin CallPcs /\ run'[p].pc \notin CallPcs
  BY <1>1, <1>2 DEF Working, WorkPcs, CallPcs
<1>4. program = "full" /\ program' = "full"
  <2>1. RunShape(p)
    BY DEF IInv
  <2>2. QED  BY <1>1, <2>1 DEF RunShape
<1>5. \A id : CallsInFlight(id) \in Nat
  <2>1. ASSUME NEW id PROVE CallsInFlight(id) \in Nat
    <3> DEFINE callers == {q \in InCall : run[q].current = id}
    <3>1. IsFiniteSet(Processes) /\ callers \subseteq Processes
      BY EvaluationAssumption DEF InCall, Live
    <3>2. CallsInFlight(id) = Cardinality(callers)
      BY DEF CallsInFlight
    <3> HIDE DEF callers
    <3>3. QED  BY <3>1, <3>2, FS_Subset, FS_CardinalityType
  <2>2. QED  BY <2>1
<1>6. TypeOK'
  <2>1. sent' \in [AllIds -> Nat] /\ lost' \in [AllIds -> Nat]
    BY <1>1, <1>5
  <2>2. QED  BY <1>1, <1>2, <2>1 DEF TypeOK
<1>7. \A q \in Processes : RunShape(q)'
  <2>1. RunShape(p)'
    BY <1>1, <1>2, ExitShape DEF IInv
  <2>2. ASSUME NEW q \in Processes \ {p} PROVE RunShape(q)'
    BY <1>1, <1>2, RunShapeStays DEF IInv
  <2>3. QED  BY <2>1, <2>2
<1>8. Live' = Live
  BY <1>1, <1>2, LiveIsKept
<1>9. LockShape'
  BY <1>1, <1>8, LockStays
<1>10. FileShape'
  <2>1. IdsOf' = IdsOf
    BY <1>1 DEF IdsOf
  <2>2. ~Readable(cache)' /\ cache' # Torn
    BY <1>1, FileKinds DEF Readable
  <2>3. Readable(temporary)' => ValidCache(temporary)'
    BY <1>1, <2>1 DEF IInv, FileShape, ValidCache, CacheIsValid, CacheShapeIsValid, CompletedIds, Readable
  <2>4. fullReport' = Torn => faults' > 0 \/ \E q \in Live' : run'[q].pc = "output"
    BY <1>1, <1>2, <1>8 DEF IInv, FileShape, Live
  <2>5. QED  BY <2>2, <2>3, <2>4 DEF FileShape
<1>11. ASSUME ~overlapped
       PROVE  /\ \A q \in Processes : Working(q)' => DiskShape(q)'
              /\ AccountShape'
  <2>1. \A q \in Processes \ {p} : run[q] = Idle /\ run'[q] = Idle
    BY <1>1, <1>2, <1>11, Alone
  <2>2. \A q \in Processes : ~Working(q)'
    BY <1>3, <2>1 DEF Working, Idle, WorkPcs, CallPcs
  <2>3. ASSUME NEW id \in AllIds
        PROVE  sent'[id] = RecordsOf(id)' + FailuresOf(id)' + lost'[id] + CallsInFlight(id)'
    <3>1. CallsInFlight(id) = 0
      BY <1>3, <2>1, InFlightAlone, CallsAreInFlight
    <3>2. CallsInFlight(id)' = 0
      BY <1>3, <2>1, InFlightAlone, CallsAreInFlight
    <3>3. Completed(cache') = <<>> /\ Failed(cache') = <<>>
      BY <1>1 DEF Completed, Failed, Readable
    <3>4. QueryIds(<<>>) = <<>>
      BY DEF QueryIds
    <3>5. CountIn(<<>>, id) = 0
      <4>1. {i \in DOMAIN <<>> : <<>>[i] = id} = {}
        OBVIOUS
      <4>2. QED  BY <4>1, FS_EmptySet DEF CountIn
    <3>6. RecordsOf(id)' = 0 /\ FailuresOf(id)' = 0
      BY <3>3, <3>4, <3>5, RecordsAreCounted
    <3>7. QED  BY <1>1, <3>1, <3>2, <3>6
  <2>4. QED  BY <2>2, <2>3 DEF AccountShape
<1>12. \A q \in Processes : Working(q)' => GateShape(q)'
  BY <1>4 DEF GateShape
<1>13. SpendingIsGated'
  BY <1>4 DEF SpendingIsGated
<1>14. QED
  BY <1>1, <1>6, <1>7, <1>9, <1>10, <1>11, <1>12, <1>13 DEF IInv

-----------------------------------------------------------------------------
(* What a gate that has passed says of the cases on disk                   *)

RightIn(cases, group) == Cardinality({i \in group : Correct(cases[i])})
MissedIn(cases, group) == Cardinality({i \in group : UnderRetrieval(cases[i])})
GroupOf(cases, ids) == {i \in DOMAIN cases : cases[i].query_id \in ToSet(ids)}
RagOf(cases) == {i \in DOMAIN cases : ExpectedRoute(cases[i].query_id) = "knowledge_base"}
DirectOf(cases) == {i \in DOMAIN cases : ExpectedRoute(cases[i].query_id) = "system_direct"}

LEMMA StageGateMeans ==
  ASSUME NEW stage, NEW cases, NEW manifest, StageGate(stage, cases, manifest).passed
  PROVE  /\ RightIn(cases, GroupOf(cases, manifest.failures) \cap RagOf(cases))
              >= Limits["failure_rag_correct"]
         /\ RightIn(cases, GroupOf(cases, manifest.failures) \cap DirectOf(cases))
              >= Limits["failure_no_rag_correct"]
         /\ MissedIn(cases, GroupOf(cases, manifest.failures)) = 0
         /\ stage = "guard" =>
              /\ RightIn(cases, GroupOf(cases, manifest.guards)) >= Limits["guard_correct"]
              /\ MissedIn(cases, GroupOf(cases, manifest.guards)) = 0
<1> DEFINE failures == GroupOf(cases, manifest.failures)
           guards == GroupOf(cases, manifest.guards)
           AtLeast(name, group) == GateCheck(name, "gte", RightIn(cases, group), Limits[name])
           NoneMissed(name, group) == GateCheck(name, "eq", MissedIn(cases, group), 0)
           first == {AtLeast("failure_rag_correct", failures \cap RagOf(cases)),
                     AtLeast("failure_no_rag_correct", failures \cap DirectOf(cases)),
                     NoneMissed("failure_under_retrieval", failures)}
           second == {AtLeast("guard_correct", guards), NoneMissed("guard_under_retrieval", guards)}
           MoreThan(name, group) == GateCheck(name, "gt", RightIn(cases, group), Limits[name])
           third == {MoreThan("full_overall_correct", DOMAIN cases),
                     AtLeast("full_rag_correct", RagOf(cases)),
                     MoreThan("full_no_rag_correct", DirectOf(cases)),
                     NoneMissed("full_under_retrieval", DOMAIN cases)}
           checks == first \cup (IF stage \in {"guard", "full"} THEN second ELSE {})
                           \cup (IF stage = "full" THEN third ELSE {})
<1>1. StageGate(stage, cases, manifest) = Gate(checks)
  BY Zenon DEF StageGate, GroupOf, RagOf, DirectOf, RightIn, MissedIn
<1>2. Gate(checks).passed <=> \A check \in checks : check.passed
  BY DEF Gate
<1>3. \A check \in first \cup (IF stage \in {"guard", "full"} THEN second ELSE {}) : check.passed
  BY <1>1, <1>2
<1>4. \A name, actual, required : /\ GateCheck(name, "gte", actual, required).passed <=> actual >= required
                                  /\ GateCheck(name, "eq", actual, required).passed <=> actual = required
  BY DEF GateCheck
<1>5. /\ AtLeast("failure_rag_correct", failures \cap RagOf(cases)).passed
      /\ AtLeast("failure_no_rag_correct", failures \cap DirectOf(cases)).passed
      /\ NoneMissed("failure_under_retrieval", failures).passed
  BY <1>3
<1>6. ASSUME stage = "guard" PROVE /\ AtLeast("guard_correct", guards).passed
                                   /\ NoneMissed("guard_under_retrieval", guards).passed
  BY <1>3, <1>6
<1>7. QED  BY <1>4, <1>5, <1>6

\* The cached cases of paid ids are those on disk.
LEMMA CasesAreCached ==
  ASSUME NEW S, NEW ids \in Seq(S), NEW file, file.completed \in Seq(Cases),
         IsInjective(QueryIds(file.completed)), ToSet(ids) \subseteq CompletedIds(file)
  PROVE  /\ DOMAIN CachedCases(ids, file) = DOMAIN ids
         /\ \A i \in DOMAIN ids : /\ CachedCases(ids, file)[i] \in ToSet(file.completed)
                                  /\ CachedCases(ids, file)[i].query_id = ids[i]
         /\ \A case, other \in ToSet(file.completed) :
              case.query_id = other.query_id => case = other
<1> DEFINE done == file.completed
<1>1. ASSUME NEW i \in DOMAIN ids PROVE \E case \in ToSet(done) : case.query_id = ids[i]
  <2>1. ids[i] \in CompletedIds(file)
    BY DEF ToSet
  <2>2. PICK j \in DOMAIN done : done[j].query_id = ids[i]
    BY <2>1 DEF CompletedIds
  <2>3. QED  BY <2>2 DEF ToSet
<1>2. ASSUME NEW case \in ToSet(done), NEW other \in ToSet(done), case.query_id = other.query_id
      PROVE  case = other
  <2>1. PICK i \in DOMAIN done : done[i] = case
    BY DEF ToSet
  <2>2. PICK j \in DOMAIN done : done[j] = other
    BY DEF ToSet
  <2>3. QED  BY <1>2, <2>1, <2>2 DEF IsInjective, QueryIds
<1>3. QED  BY <1>1, <1>2 DEF CachedCases

\* A group of a stage has no more right cases than there are on disk ...
LEMMA RightIsOnDisk ==
  ASSUME TypeOK, NEW S, NEW ids \in Seq(S), IsInjective(ids), NEW file,
         file.completed = Completed(cache), IsInjective(QueryIds(file.completed)),
         ToSet(ids) \subseteq CompletedIds(file),
         NEW K, NEW G \in SUBSET DOMAIN ids, \A i \in G : ids[i] \in K,
         NEW limit \in Nat, RightIn(CachedCases(ids, file), G) >= limit
  PROVE  RightAmong(K) >= limit
<1> DEFINE cases == CachedCases(ids, file)
           Some == {i \in G : Correct(cases[i])}
           Right == {case \in Successes : case.query_id \in K /\ Correct(case)}
           f == [i \in Some |-> cases[i]]
<1>1. /\ IsFiniteSet(Successes)
      /\ file.completed \in Seq(Cases) /\ ToSet(file.completed) = Successes
  BY SuccessesAreFinite, FileType DEF Successes, TypeOK
<1>2. \A i \in DOMAIN ids : cases[i] \in Successes /\ cases[i].query_id = ids[i]
  BY <1>1, CasesAreCached
<1>3. IsFiniteSet(Right)
  BY <1>1, FS_Subset
<1> HIDE DEF cases
<1>4. ASSUME NEW i \in Some PROVE f[i] \in Right
  BY <1>2
<1>5. ASSUME NEW i \in Some, NEW j \in Some, f[i] = f[j] PROVE i = j
  BY <1>2, <1>5 DEF IsInjective
<1> HIDE DEF Right
<1>6. f \in [Some -> Right]
  BY <1>4
<1>7. f \in Injection(Some, Right)
  BY <1>5, <1>6 DEF Injection, IsInjective
<1>8. Cardinality(Some) <= Cardinality(Right) /\ Cardinality(Right) \in Nat /\ Cardinality(Some) \in Nat
  <2> HIDE DEF f, Some
  <2>1. QED  BY <1>3, <1>7, FS_Injection, FS_CardinalityType
<1>9. Cardinality(Some) >= limit /\ RightAmong(K) = Cardinality(Right)
  BY DEF RightIn, RightAmong, Right, cases
<1> HIDE DEF f, Some
<1>10. QED  BY <1>8, <1>9

\* ... and none of its cases was missed.
LEMMA NoneIsMissed ==
  ASSUME TypeOK, NEW S, NEW ids \in Seq(S), NEW file,
         file.completed = Completed(cache), IsInjective(QueryIds(file.completed)),
         ToSet(ids) \subseteq CompletedIds(file),
         NEW part, ToSet(part) \subseteq ToSet(ids),
         MissedIn(CachedCases(ids, file), GroupOf(CachedCases(ids, file), part)) = 0
  PROVE  PaidFor(ToSet(part)) /\ NoneMissedAmong(ToSet(part))
<1> DEFINE cases == CachedCases(ids, file)
           Missed == {i \in GroupOf(cases, part) : UnderRetrieval(cases[i])}
<1>1. file.completed \in Seq(Cases) /\ ToSet(file.completed) = Successes
  BY FileType DEF Successes
<1>2. /\ DOMAIN cases = DOMAIN ids
      /\ \A i \in DOMAIN ids : cases[i] \in Successes /\ cases[i].query_id = ids[i]
      /\ \A case, other \in Successes : case.query_id = other.query_id => case = other
  BY <1>1, CasesAreCached
<1> HIDE DEF cases
<1>3. ASSUME NEW id \in ToSet(part) PROVE \E i \in DOMAIN ids : ids[i] = id
  BY DEF ToSet
<1>4. PaidFor(ToSet(part))
  BY <1>2, <1>3 DEF PaidFor
<1>5. Missed = {}
  <2>1. IsFiniteSet(DOMAIN ids)
    BY FS_Interval
  <2>2. Missed \subseteq DOMAIN ids
    BY <1>2 DEF GroupOf
  <2>3. Cardinality(Missed) = 0
    BY DEF MissedIn, cases
  <2> HIDE DEF Missed
  <2>4. QED  BY <2>1, <2>2, <2>3, FS_Subset, FS_EmptySet
<1>6. ASSUME NEW case \in Successes, case.query_id \in ToSet(part) PROVE ~UnderRetrieval(case)
  <2>1. PICK i \in DOMAIN ids : ids[i] = case.query_id
    BY <1>3, <1>6
  <2>2. cases[i] = case
    BY <1>2, <2>1
  <2>3. i \in GroupOf(cases, part)
    BY <1>2, <1>6, <2>2 DEF GroupOf
  <2>4. QED  BY <1>5, <2>2, <2>3
<1>7. QED  BY <1>4, <1>6 DEF NoneMissedAmong

LEMMA InjectiveParts ==
  ASSUME NEW S, NEW s \in Seq(S), NEW t \in Seq(S), IsInjective(s \o t)
  PROVE  IsInjective(s)
<1>1. /\ DOMAIN (s \o t) = 1..(Len(s) + Len(t)) /\ DOMAIN s = 1..Len(s)
      /\ Len(s) \in Nat /\ Len(t) \in Nat
      /\ \A i \in 1..Len(s) : (s \o t)[i] = s[i]
  OBVIOUS
<1>2. ASSUME NEW i \in DOMAIN s, NEW j \in DOMAIN s, s[i] = s[j] PROVE i = j
  <2>1. i \in DOMAIN (s \o t) /\ j \in DOMAIN (s \o t) /\ (s \o t)[i] = (s \o t)[j]
    BY <1>1, <1>2
  <2>2. QED  BY <2>1 DEF IsInjective
<1>3. QED  BY <1>2 DEF IsInjective

\* A manifest that the operator has started with.
Manifest(manifest) ==
  ManifestIsValid(manifest) /\ manifest.failures \in Seq(AllIds) /\ manifest.guards \in Seq(AllIds)

LEMMA ManifestIds ==
  ASSUME NEW manifest, Manifest(manifest)
  PROVE  /\ manifest.failures \o manifest.guards \in Seq(ToSet(Dataset))
         /\ ToSet(manifest.failures \o manifest.guards) = BaselineFailures \cup ToSet(manifest.guards)
         /\ IsInjective(manifest.failures \o manifest.guards)
         /\ manifest.failures \in Seq(ToSet(Dataset)) /\ IsInjective(manifest.failures)
         /\ ToSet(manifest.failures) = BaselineFailures
<1> DEFINE s == manifest.failures
           t == manifest.guards
<1>1. /\ ToSet(s) = BaselineFailures /\ ToSet(t) \subseteq ToSet(Dataset) /\ IsInjective(s \o t)
      /\ s \in Seq(AllIds) /\ t \in Seq(AllIds)
  BY DEF Manifest, ManifestIsValid
<1>2. BaselineFailures \subseteq ToSet(Dataset)
  BY ScoringAssumption
<1> HIDE DEF s, t
<1>3. s \in Seq(ToSet(Dataset)) /\ t \in Seq(ToSet(Dataset))
  <2>1. \A i \in DOMAIN s : s[i] \in ToSet(Dataset)
    BY <1>1, <1>2 DEF ToSet
  <2>2. \A i \in DOMAIN t : t[i] \in ToSet(Dataset)
    BY <1>1 DEF ToSet
  <2>3. QED  BY <1>1, <2>1, <2>2
<1>4. s \o t \in Seq(ToSet(Dataset)) /\ ToSet(s \o t) = BaselineFailures \cup ToSet(t)
  BY <1>1, <1>3, ConcatenatedIds
<1>5. IsInjective(s)
  BY <1>1, InjectiveParts
<1>6. QED  BY <1>1, <1>3, <1>4, <1>5 DEF s, t

LEMMA FailureGateScreens ==
  ASSUME TypeOK, NEW manifest, Manifest(manifest), NEW file,
         file.completed = Completed(cache), IsInjective(QueryIds(file.completed)),
         GatePassed("failures", manifest, file)
  PROVE  Screened
<1> DEFINE ids == manifest.failures
           cases == CachedCases(ids, file)
           rag == GroupOf(cases, ids) \cap RagOf(cases)
           direct == GroupOf(cases, ids) \cap DirectOf(cases)
<1>1. /\ ids \in Seq(ToSet(Dataset)) /\ IsInjective(ids) /\ ToSet(ids) = BaselineFailures
  BY ManifestIds
<1>2. ToSet(ids) \subseteq CompletedIds(file) /\ StageGate("failures", cases, manifest).passed
  BY DEF GatePassed, StageIds, GateOf, CandidateStages
<1>3. /\ RightIn(cases, rag) >= Limits["failure_rag_correct"]
      /\ RightIn(cases, direct) >= Limits["failure_no_rag_correct"]
      /\ MissedIn(cases, GroupOf(cases, ids)) = 0
  <2> HIDE DEF cases
  <2>1. QED  BY <1>2, StageGateMeans
<1>4. /\ Limits["failure_rag_correct"] \in Nat /\ Limits["failure_no_rag_correct"] \in Nat
  BY ScoringAssumption
<1>5. file.completed \in Seq(Cases)
  BY FileType
<1>6. DOMAIN cases = DOMAIN ids /\ \A i \in DOMAIN ids : cases[i].query_id = ids[i]
  <2>1. DOMAIN cases = DOMAIN ids
    BY DEF CachedCases
  <2>2. \A i \in DOMAIN ids : cases[i].query_id = ids[i]
    BY <1>1, <1>2, <1>5, CasesAreCached
  <2>3. QED  BY <2>1, <2>2
<1> HIDE DEF ids
<1>7. rag \in SUBSET DOMAIN ids /\ \A i \in rag : ids[i] \in BaselineFailures \cap RagIds
  <2> HIDE DEF cases
  <2>1. QED  BY <1>1, <1>6 DEF GroupOf, RagOf, ExpectedRoute
<1>8. direct \in SUBSET DOMAIN ids /\ \A i \in direct : ids[i] \in BaselineFailures \ RagIds
  <2> HIDE DEF cases
  <2>1. QED  BY <1>1, <1>6 DEF GroupOf, DirectOf, ExpectedRoute
<1> HIDE DEF rag, direct
<1>9. RightAmong(BaselineFailures \cap RagIds) >= Limits["failure_rag_correct"]
  BY <1>1, <1>2, <1>3, <1>4, <1>7, RightIsOnDisk
<1>10. RightAmong(BaselineFailures \ RagIds) >= Limits["failure_no_rag_correct"]
  BY <1>1, <1>2, <1>3, <1>4, <1>8, RightIsOnDisk
<1>11. PaidFor(ToSet(ids)) /\ NoneMissedAmong(ToSet(ids))
  BY <1>1, <1>2, <1>3, NoneIsMissed
<1>12. QED  BY <1>1, <1>9, <1>10, <1>11 DEF Screened

LEMMA GuardGateGuards ==
  ASSUME TypeOK, NEW manifest, Manifest(manifest), Guards = ToSet(manifest.guards), NEW file,
         file.completed = Completed(cache), IsInjective(QueryIds(file.completed)),
         GatePassed("guard", manifest, file)
  PROVE  Guarded
<1> DEFINE ids == manifest.failures \o manifest.guards
           cases == CachedCases(ids, file)
           group == GroupOf(cases, manifest.guards)
<1>1. /\ ids \in Seq(ToSet(Dataset)) /\ IsInjective(ids) /\ ToSet(manifest.guards) \subseteq ToSet(ids)
  BY ManifestIds
<1>2. ToSet(ids) \subseteq CompletedIds(file) /\ StageGate("guard", cases, manifest).passed
  BY DEF GatePassed, StageIds, GateOf, CandidateStages
<1>3. /\ RightIn(cases, group) >= Limits["guard_correct"]
      /\ MissedIn(cases, group) = 0
  <2> HIDE DEF cases
  <2>1. QED  BY <1>2, StageGateMeans
<1>4. Limits["guard_correct"] \in Nat
  BY ScoringAssumption
<1>5. file.completed \in Seq(Cases)
  BY FileType
<1>6. DOMAIN cases = DOMAIN ids /\ \A i \in DOMAIN ids : cases[i].query_id = ids[i]
  <2>1. DOMAIN cases = DOMAIN ids
    BY DEF CachedCases
  <2> HIDE DEF ids
  <2>2. \A i \in DOMAIN ids : cases[i].query_id = ids[i]
    BY <1>1, <1>2, <1>5, CasesAreCached
  <2>3. QED  BY <2>1, <2>2
<1> HIDE DEF ids
<1>7. group \in SUBSET DOMAIN ids /\ \A i \in group : ids[i] \in Guards
  <2> HIDE DEF cases
  <2>1. QED  BY <1>1, <1>6 DEF GroupOf
<1>8. PaidFor(ToSet(manifest.guards)) /\ NoneMissedAmong(ToSet(manifest.guards))
  BY <1>1, <1>2, <1>3, NoneIsMissed
<1> HIDE DEF group
<1>9. RightAmong(Guards) >= Limits["guard_correct"]
  BY <1>1, <1>2, <1>3, <1>4, <1>7, RightIsOnDisk
<1>10. QED  BY <1>8, <1>9 DEF Guarded, PaidFor, NoneMissedAmong

LEMMA DevelopmentGateDevelops ==
  ASSUME TypeOK, NEW manifest, NEW file,
         file.completed = Completed(cache), IsInjective(QueryIds(file.completed)),
         GatePassed("development", manifest, file)
  PROVE  Developed
<1> DEFINE ids == DevelopmentIds
           cases == CachedCases(ids, file)
           Right == {i \in DOMAIN cases : Correct(cases[i])}
<1>1. ids \in Seq(ToSet(Dataset))
  BY SequencesOfIds
<1>2. ToSet(ids) \subseteq CompletedIds(file) /\ CandidateGate(cases).passed
  BY DEF GatePassed, StageIds, GateOf, CandidateStages
<1>3. file.completed \in Seq(Cases) /\ ToSet(file.completed) = Successes
  BY FileType DEF Successes
<1>4. /\ DOMAIN cases = DOMAIN ids
      /\ \A i \in DOMAIN ids : cases[i] \in Successes /\ cases[i].query_id = ids[i]
  BY <1>1, <1>2, <1>3, CasesAreCached
<1>5. cases = [i \in 1..Len(ids) |-> cases[i]] /\ DOMAIN cases = 1..Len(ids) /\ Len(ids) \in Nat
  BY <1>1 DEF CachedCases
<1>6. Cardinality(Right) = Len(cases)
  <2>1. GateCheck("all_routes_correct", "eq", CountOf(cases, Correct), Len(cases)).passed
    <3> HIDE DEF cases
    <3>1. QED  BY <1>2 DEF CandidateGate, Gate
  <2>2. CountOf(cases, Correct) = Cardinality(Right)
    BY DEF CountOf
  <2> HIDE DEF cases, Right
  <2>3. QED  BY <2>1, <2>2 DEF GateCheck
<1> HIDE DEF cases
<1>7. Len(cases) = Len(ids)
  <2>1. cases \in Seq(Successes)
    <3>1. \A i \in 1..Len(ids) : cases[i] \in Successes
      BY <1>4, <1>5
    <3>2. QED  BY <1>5, <3>1
  <2>2. QED  BY <1>5, <2>1
<1>8. Right = DOMAIN cases
  <2>1. IsFiniteSet(DOMAIN cases) /\ Cardinality(DOMAIN cases) = Len(ids)
    <3>1. \A n \in Nat : IsFiniteSet(1..n) /\ Cardinality(1..n) = n
      BY FS_Interval
    <3>2. IsFiniteSet(1..Len(ids)) /\ Cardinality(1..Len(ids)) = Len(ids)
      BY <1>5, <3>1
    <3>3. QED  BY <1>5, <3>2, Zenon
  <2>2. Right \subseteq DOMAIN cases
    OBVIOUS
  <2> HIDE DEF Right
  <2>3. QED  BY <1>6, <1>7, <2>1, <2>2, FS_Subset
<1>9. ASSUME NEW id \in ToSet(ids) PROVE \E case \in Successes : case.query_id = id /\ Correct(case)
  <2>1. PICK i \in DOMAIN ids : ids[i] = id
    BY DEF ToSet
  <2>2. QED  BY <1>4, <1>8, <2>1
<1>10. QED  BY <1>9 DEF Developed

-----------------------------------------------------------------------------
(* The checks between the lock and the first call                          *)

LEMMA FreshIsValid ==
  ASSUME TypeOK, NEW experiment \in Experiments[program]
  PROVE  /\ ValidCache(FreshCache(experiment))
         /\ FreshCache(experiment).completed = <<>> /\ FreshCache(experiment).failed = <<>>
         /\ FreshCache(experiment).experiment = experiment
<1> DEFINE fresh == FreshCache(experiment)
<1>1. fresh.completed = <<>> /\ fresh.failed = <<>> /\ fresh.experiment = experiment
  BY DEF FreshCache
<1>2. fresh \in CacheRecords
  BY DEF FreshCache, CacheRecords, AllExperiments, TypeOK
<1> HIDE DEF fresh
<1>3. QueryIds(fresh.completed) = <<>>
  BY <1>1 DEF QueryIds
<1>4. CacheIsValid(fresh, IdsOf)
  BY <1>1, <1>3 DEF CacheIsValid, CacheShapeIsValid, CompletedIds, ToSet, IsInjective
<1>5. IsPrefix(QueryIds(fresh.completed), Dataset)
  <2> DEFINE none == QueryIds(fresh.completed)
  <2>1. none \in Seq(ToSet(Dataset)) /\ Len(none) = 0
    BY <1>3
  <2>2. Dataset \in Seq(ToSet(Dataset)) /\ Len(Dataset) \in Nat
    BY SequencesOfIds
  <2> HIDE DEF none
  <2>3. Len(none) <= Len(Dataset) /\ \A i \in 1..Len(none) : none[i] = Dataset[i]
    BY <2>1, <2>2
  <2>4. IsPrefix(none, Dataset)
    BY <2>1, <2>2, <2>3, PrefixMeans
  <2>5. QED  BY <2>4 DEF none
<1>6. ValidCache(fresh)
  BY <1>2, <1>3, <1>4, <1>5 DEF ValidCache
<1>7. QED  BY <1>1, <1>6 DEF fresh

LEMMA FoundIsValid ==
  ASSUME IInv, NEW experiment \in Experiments[program], BelongsTo(CacheFor(experiment), experiment)
  PROVE  /\ ValidCache(CacheFor(experiment)) /\ CacheFor(experiment).experiment = experiment
         /\ CacheFor(experiment).completed = Completed(cache)
         /\ CacheFor(experiment).failed = Failed(cache)
         /\ Readable(cache) => cache.experiment = experiment
<1>1. CASE cache = Absent
  <2>1. CacheFor(experiment) = FreshCache(experiment) /\ ~Readable(cache)
    BY <1>1 DEF CacheFor, Readable
  <2>2. QED  BY <2>1, FreshIsValid DEF IInv, Completed, Failed
<1>2. CASE cache # Absent
  <2>1. CacheFor(experiment) = cache /\ cache # Torn /\ cache.experiment = experiment
    BY <1>2 DEF CacheFor, BelongsTo
  <2>2. Readable(cache)
    BY <1>2, <2>1 DEF Readable
  <2>3. QED  BY <2>1, <2>2 DEF IInv, FileShape, Completed, Failed
<1>3. QED  BY <1>1, <1>2

\* The worklist of a stage: distinct ids of the program.
LEMMA StageIdsShape ==
  ASSUME TypeOK, NEW stage \in StagesOf, NEW manifest,
         program = "staged" => Manifest(manifest)
  PROVE  StageIds(stage, manifest) \in Seq(IdsOf) /\ IsInjective(StageIds(stage, manifest))
<1>1. program \in {"staged", "candidate", "full"}
  BY EvaluationAssumption DEF TypeOK
<1>2. IsInjective(Dataset) /\ IsInjective(DevelopmentIds) /\ IsInjective(ChallengeIds)
  BY ScoringAssumption
<1>3. CASE program = "staged"
  <2>1. stage \in {"failures", "guard", "full"} /\ IdsOf = ToSet(Dataset)
    BY <1>3 DEF StagesOf, StagedStages, IdsOf
  <2>2. QED  BY <1>2, <1>3, <2>1, ManifestIds, SequencesOfIds DEF StageIds
<1>4. CASE program = "candidate"
  <2>1. stage \in {"development", "challenge"} /\ IdsOf = ToSet(DevelopmentIds \o ChallengeIds)
    BY <1>4 DEF StagesOf, CandidateStages, IdsOf
  <2>2. IdsOf = ToSet(DevelopmentIds) \cup ToSet(ChallengeIds)
    <3>1. DevelopmentIds \in Seq(AllIds) /\ ChallengeIds \in Seq(AllIds)
      BY SequencesOfIds DEF AllIds
    <3>2. QED  BY <2>1, <3>1, ConcatenatedIds
  <2>3. DevelopmentIds \in Seq(IdsOf) /\ ChallengeIds \in Seq(IdsOf)
    <3>1. DevelopmentIds \in Seq(ToSet(DevelopmentIds)) /\ ChallengeIds \in Seq(ToSet(ChallengeIds))
      BY ScoringAssumption
    <3>2. QED  BY <2>2, <3>1
  <2>4. QED  BY <1>2, <2>1, <2>3 DEF StageIds
<1>5. CASE program = "full"
  <2>1. stage = "full" /\ IdsOf = ToSet(Dataset)
    BY <1>5 DEF StagesOf, IdsOf
  <2>2. QED  BY <1>2, <2>1, SequencesOfIds DEF StageIds
<1>6. QED  BY <1>1, <1>3, <1>4, <1>5

\* What the full program still has to send is the rest of the dataset.
LEMMA RestOfDataset ==
  ASSUME NEW file, file.completed \in Seq(Cases), IsPrefix(QueryIds(file.completed), Dataset), NEW manifest
  PROVE  Pending("full", manifest, file) = (Len(file.completed) + 1)..Len(Dataset)
<1> DEFINE done == file.completed
           paid == QueryIds(done)
<1>1. /\ paid \in Seq(AllIds) /\ Len(paid) = Len(done) /\ DOMAIN paid = 1..Len(done) /\ Len(done) \in Nat
      /\ DOMAIN done = 1..Len(done)
      /\ \A i \in 1..Len(done) : paid[i] = done[i].query_id
  <2>1. \A i \in DOMAIN done : done[i].query_id \in AllIds
    BY CaseFields
  <2>2. QED  BY <2>1 DEF QueryIds
<1>2. Dataset \in Seq(AllIds) /\ DOMAIN Dataset = 1..Len(Dataset) /\ Len(Dataset) \in Nat
  BY SequencesOfIds DEF AllIds
<1> HIDE DEF paid
<1>3. Len(done) <= Len(Dataset) /\ \A i \in 1..Len(done) : paid[i] = Dataset[i]
  BY <1>1, <1>2, PrefixMeans DEF paid
<1>4. CompletedIds(file) = {Dataset[i] : i \in 1..Len(done)}
  BY <1>1, <1>3 DEF CompletedIds
<1>5. \A i, j \in DOMAIN Dataset : Dataset[i] = Dataset[j] => i = j
  BY ScoringAssumption DEF IsInjective
<1> HIDE DEF done
<1>6. {i \in DOMAIN Dataset : Dataset[i] \notin CompletedIds(file)} = (Len(done) + 1)..Len(Dataset)
  <2>1. ASSUME NEW i \in DOMAIN Dataset PROVE Dataset[i] \in CompletedIds(file) <=> i <= Len(done)
    <3>1. ASSUME i <= Len(done) PROVE Dataset[i] \in CompletedIds(file)
      <4>1. i \in 1..Len(done)
        BY <1>1, <1>2, <3>1
      <4>2. QED  BY <4>1, <1>4
    <3>2. ASSUME Dataset[i] \in CompletedIds(file) PROVE i <= Len(done)
      <4>1. PICK j \in 1..Len(done) : Dataset[i] = Dataset[j]
        BY <3>2, <1>4
      <4>2. j \in DOMAIN Dataset
        BY <1>1, <1>2, <1>3
      <4>3. i = j
        BY <4>1, <4>2, <1>5
      <4>4. QED  BY <1>1, <4>1, <4>3
    <3>3. QED  BY <3>1, <3>2
  <2>2. QED  BY <1>1, <1>2, <2>1
<1>7. QED  BY <1>6 DEF Pending, StageIds, done

LEMMA GateAtLoad ==
  ASSUME IInv, NEW stage \in StagesOf, NEW experiment \in Experiments[program], NEW accepted,
         MayContinue(stage, experiment, CacheFor(experiment), accepted)
  PROVE  /\ BelongsTo(CacheFor(experiment), experiment)
         /\ program = "staged" => Manifest(experiment.manifest)
         /\ program = "staged" /\ stage \in {"guard", "full"} => Screened
         /\ program = "staged" /\ stage = "full" => Guarded
         /\ program = "candidate" /\ stage = "challenge" => Developed
<1> DEFINE found == CacheFor(experiment)
           manifest == experiment.manifest
<1>1. TypeOK /\ program \in Programs
  BY DEF IInv, TypeOK
<1>2. program \in {"staged", "candidate", "full"}
  BY <1>1, EvaluationAssumption
<1>3. manifest.failures \in Seq(AllIds) /\ manifest.guards \in Seq(AllIds)
  BY <1>1, EvaluationAssumption
<1>4. CASE program = "staged"
  <2>1. StagedMayContinue(stage, experiment, found, accepted)
    BY <1>4 DEF MayContinue
  <2>2. Manifest(manifest) /\ BelongsTo(found, experiment) /\ StageUnlocked(stage, manifest, found)
    BY <1>3, <2>1 DEF StagedMayContinue, Manifest
  <2>3. /\ ValidCache(found) /\ found.completed = Completed(cache)
        /\ Readable(cache) => cache.experiment = experiment
    BY <2>2, FoundIsValid
  <2>4. IsInjective(QueryIds(found.completed))
    BY <2>3 DEF ValidCache, CacheIsValid, CacheShapeIsValid
  <2> HIDE DEF found
  <2>5. ASSUME stage \in {"guard", "full"} PROVE Screened
    <3>1. GatePassed("failures", manifest, found)
      BY <2>2, <2>5 DEF StageUnlocked
    <3> HIDE DEF manifest
    <3>2. QED  BY <1>1, <2>2, <2>3, <2>4, <3>1, FailureGateScreens
  <2>6. ASSUME stage = "full" PROVE Guarded
    <3>1. GatePassed("guard", manifest, found)
      BY <2>2, <2>6 DEF StageUnlocked
    <3>2. Screened
      BY <2>5, <2>6
    <3>3. BaselineFailures # {}
      BY <1>3, <2>2, FailuresExist DEF Manifest
    <3>4. Readable(cache)
      BY <1>1, <3>2, <3>3, ScreenedIsReadable
    <3>5. Guards = ToSet(manifest.guards)
      BY <2>3, <3>4 DEF Guards
    <3> HIDE DEF manifest
    <3>6. QED  BY <1>1, <2>2, <2>3, <2>4, <3>1, <3>5, GuardGateGuards
  <2>7. QED  BY <1>4, <2>2, <2>5, <2>6 DEF found
<1>5. CASE program = "candidate"
  <2>1. CandidateMayContinue(stage, experiment, found, accepted)
    BY <1>5 DEF MayContinue
  <2>2. BelongsTo(found, experiment) /\ CandidateStageUnlocked(stage, manifest, found)
    BY <2>1 DEF CandidateMayContinue
  <2>3. ValidCache(found) /\ found.completed = Completed(cache)
    BY <2>2, FoundIsValid
  <2>4. IsInjective(QueryIds(found.completed))
    BY <2>3 DEF ValidCache, CacheIsValid, CacheShapeIsValid
  <2> HIDE DEF found
  <2>5. ASSUME stage = "challenge" PROVE Developed
    <3>1. GatePassed("development", manifest, found)
      BY <2>2, <2>5 DEF CandidateStageUnlocked
    <3> HIDE DEF manifest
    <3>2. QED  BY <1>1, <2>3, <2>4, <3>1, DevelopmentGateDevelops
  <2>6. QED  BY <1>5, <2>2, <2>5 DEF found
<1>6. CASE program = "full"
  BY <1>6 DEF MayContinue, FullMayContinue
<1>7. QED  BY <1>2, <1>4, <1>5, <1>6

LEMMA PendingType ==
  ASSUME NEW S, NEW stage, NEW manifest, StageIds(stage, manifest) \in Seq(S), NEW file
  PROVE  /\ Pending(stage, manifest, file) \subseteq DOMAIN StageIds(stage, manifest)
         /\ Pending(stage, manifest, file) \in SUBSET Nat
         /\ Cardinality(Pending(stage, manifest, file)) \in Nat
         /\ Len(StageIds(stage, manifest)) \in Nat
         /\ \A i \in Pending(stage, manifest, file) : StageIds(stage, manifest)[i] \notin CompletedIds(file)
<1> DEFINE ids == StageIds(stage, manifest)
           pending == Pending(stage, manifest, file)
<1>1. /\ pending \subseteq DOMAIN ids /\ \A i \in pending : ids[i] \notin CompletedIds(file)
  BY DEF Pending
<1>2. DOMAIN ids = 1..Len(ids) /\ Len(ids) \in Nat
  OBVIOUS
<1>3. IsFiniteSet(1..Len(ids))
  BY <1>2, FS_Interval
<1> HIDE DEF pending
<1>4. Cardinality(pending) \in Nat
  BY <1>1, <1>2, <1>3, FS_Subset, FS_CardinalityType
<1>5. pending \in SUBSET Nat
  BY <1>1, <1>2
<1>6. QED  BY <1>1, <1>2, <1>4, <1>5 DEF pending

LEMMA LoadKeeps ==
  ASSUME IInv, NEW p \in Processes, NEW accepted, Load(p, accepted)
  PROVE  IInv'
<1> DEFINE stage == run[p].stage
           experiment == run[p].experiment
           manifest == experiment.manifest
           found == CacheFor(experiment)
           pending == Pending(stage, manifest, found)
           ids == StageIds(stage, manifest)
           loaded == [pc |-> "next", stage |-> stage, experiment |-> experiment, cache |-> found,
                      before |-> Len(ids) - Cardinality(pending),
                      new |-> Cardinality(pending), pending |-> pending, current |-> None,
                      degraded |-> FALSE]
<1>1. /\ TypeOK /\ run[p] # Idle /\ run[p].pc = "load"
      /\ UNCHANGED <<program, lock, cache, temporary, fullReport, starts, faults, sent, lost,
                     overlapped, killed>>
  BY DEF IInv, Load, files, bounds, history
<1>2. stage \in StagesOf /\ experiment \in Experiments[program] /\ run[p] \in StartedRuns
  BY <1>1, RunKinds DEF IInv, RunShape
<1>3. CASE Finish(p)
  <2>1. LoseCall(p)
    BY <1>1, NothingLost DEF CallPcs
  <2>2. Live' = Live /\ \A q \in Processes \ {p} : run'[q] = run[q]
    BY <1>1, <1>3, Exits, LiveIsKept
  <2>3. FileShape'
    BY <1>1, <2>2, FilesStay DEF TypeOK, Live
  <2>4. QED  BY <1>1, <1>3, <2>1, <2>3, LeaveKeeps DEF TypeOK
<1>4. CASE MayContinue(stage, experiment, found, accepted) /\ run' = [run EXCEPT ![p] = loaded]
  <2>1. /\ BelongsTo(found, experiment)
        /\ program = "staged" => Manifest(manifest)
        /\ program = "staged" /\ stage \in {"guard", "full"} => Screened
        /\ program = "staged" /\ stage = "full" => Guarded
        /\ program = "candidate" /\ stage = "challenge" => Developed
    BY <1>2, <1>4, GateAtLoad
  <2>2. /\ ValidCache(found) /\ found.experiment = experiment
        /\ found.completed = Completed(cache) /\ found.failed = Failed(cache)
        /\ Readable(cache) => cache.experiment = experiment
    BY <1>2, <2>1, FoundIsValid
  <2>3. ids \in Seq(IdsOf) /\ IsInjective(ids)
    BY <1>1, <1>2, <2>1, StageIdsShape
  <2>4. /\ pending \subseteq DOMAIN ids /\ pending \in SUBSET Nat /\ Cardinality(pending) \in Nat
        /\ Len(ids) \in Nat /\ \A i \in pending : ids[i] \notin CompletedIds(found)
    BY <2>3, PendingType
  <2>5. program = "full" => pending = (Len(found.completed) + 1)..Len(Dataset)
    <3>1. ASSUME program = "full" PROVE stage = "full"
      BY <1>2, <3>1 DEF StagesOf
    <3>2. found.completed \in Seq(Cases)
      BY <2>2 DEF ValidCache, CacheRecords
    <3>3. program = "full" => IsPrefix(QueryIds(found.completed), Dataset)
      BY <2>2 DEF ValidCache
    <3> HIDE DEF found, manifest
    <3>4. QED  BY <3>1, <3>2, <3>3, RestOfDataset
  <2>6. ids = IdsFor(p)
    BY DEF IdsFor
  <2> HIDE DEF pending, found, ids
  <2>7. loaded \in LoadedRuns
    <3>1. stage \in StageNames /\ experiment \in AllExperiments
      BY <1>2 DEF StartedRuns
    <3>2. found \in CacheRecords
      BY <2>2 DEF ValidCache
    <3>3. Len(ids) - Cardinality(pending) \in Int
      BY <2>4
    <3>4. QED  BY <2>4, <3>1, <3>2, <3>3 DEF LoadedRuns, WorkPcs
  <2>8. run'[p] = loaded /\ \A q \in Processes \ {p} : run'[q] = run[q]
    BY <1>1, <1>4 DEF TypeOK
  <2>9. /\ run'[p].pc = "next" /\ run'[p].stage = stage /\ run'[p].experiment = experiment
        /\ run'[p].cache = found /\ run'[p].pending = pending
    BY <2>8
  <2> HIDE DEF loaded, stage, experiment
  <2>10. IdsFor(p)' = ids /\ IdsOf' = IdsOf /\ StagesOf' = StagesOf
    BY <1>1, <2>6, <2>9 DEF IdsFor, IdsOf, StagesOf, stage, experiment
  <2>11. RunShape(p)'
    <3>1. ValidCache(run[p].cache)'
      BY <1>1, <2>2, <2>9, <2>10 DEF ValidCache, CacheIsValid, CacheShapeIsValid, CompletedIds
    <3>2. WorklistShape(p)'
      <4>1. CompletedIds(run[p].cache)' = CompletedIds(found)
        BY <2>9 DEF CompletedIds
      <4>2. program' = "staged" => ManifestIsValid(run'[p].experiment.manifest)
        BY <1>1, <2>1, <2>9 DEF Manifest
      <4>3. /\ IdsFor(p)' \in Seq(IdsOf') /\ IsInjective(IdsFor(p)')
            /\ run'[p].pending \subseteq DOMAIN IdsFor(p)'
            /\ \A i \in run'[p].pending : IdsFor(p)'[i] \notin CompletedIds(run[p].cache)'
        BY <2>3, <2>4, <2>9, <2>10, <4>1
      <4>4. QED  BY <2>9, <4>2, <4>3 DEF WorklistShape, CallPcs
    <3>3. program' = "full" => OrderShape(p)'
      BY <1>1, <2>5, <2>9 DEF OrderShape
    <3>4. /\ run'[p].stage \in StagesOf' /\ run'[p].experiment \in Experiments[program']
          /\ run'[p].cache.experiment = run'[p].experiment
      BY <1>1, <1>2, <2>2, <2>9, <2>10
    <3>5. QED  BY <2>9, <3>1, <3>2, <3>3, <3>4 DEF RunShape
  <2>12. GateShape(p)'
    BY <1>1, <2>1, <2>9, GatesStay DEF GateShape
  <2>13. SpendingIsGated'
    BY <1>1, GatesStay DEF IInv, SpendingIsGated
  <2>14. ASSUME ~overlapped PROVE DiskShape(p)' /\ AccountShape'
    <3>1. DiskShape(p)'
      BY <1>1, <2>2, <2>9 DEF DiskShape, Completed, Failed, Readable
    <3>2. \A q \in Processes \ {p} : run[q] = Idle /\ run'[q] = Idle
      BY <1>1, <2>8, <2>14, Alone
    <3>3. AccountShape'
      BY <1>1, <2>9, <2>14, <3>2, AccountsStay DEF CallPcs
    <3>4. QED  BY <3>1, <3>3
  <2>15. run'[p] \in LoadedRuns /\ run'[p].pc \in WorkPcs /\ run' = [run EXCEPT ![p] = run'[p]]
    BY <1>4, <2>7, <2>8, <2>9 DEF WorkPcs
  <2>16. sent' \in [AllIds -> Nat] /\ run[p].pc # "output"
    BY <1>1 DEF TypeOK
  <2>17. QED
    BY <1>1, <2>8, <2>11, <2>12, <2>13, <2>14, <2>15, <2>16, CallKeeps
<1>5. QED  BY <1>3, <1>4 DEF Load

-----------------------------------------------------------------------------
(* The invariant                                                           *)

LEMMA InitHolds == IntentInit => IInv
<1> SUFFICES ASSUME IntentInit PROVE IInv
  OBVIOUS
<1>1. /\ program \in Programs /\ lock = FALSE /\ cache = Absent /\ temporary = Absent
      /\ fullReport = Absent /\ run = [p \in Processes |-> Idle]
      /\ starts = 0 /\ faults = 0
      /\ sent = [id \in AllIds |-> 0] /\ lost = [id \in AllIds |-> 0]
      /\ overlapped = FALSE /\ killed = FALSE
  BY DEF IntentInit
<1>2. TypeOK
  BY <1>1 DEF TypeOK
<1>3. \A p \in Processes : run[p] = Idle /\ ~Working(p)
  BY <1>1 DEF Working, Idle, WorkPcs, CallPcs
<1>4. \A p \in Processes : RunShape(p)
  BY <1>3 DEF RunShape, Idle
<1>5. Live = {}
  BY <1>3 DEF Live
<1>6. LockShape
  BY <1>1, <1>5 DEF LockShape
<1>7. FileShape
  BY <1>1, FileKinds DEF FileShape, Readable
<1>8. AccountShape
  <2>1. ASSUME NEW id \in AllIds
        PROVE  sent[id] = RecordsOf(id) + FailuresOf(id) + lost[id] + CallsInFlight(id)
    <3>1. Completed(cache) = <<>> /\ Failed(cache) = <<>>
      BY <1>1 DEF Completed, Failed, Readable
    <3>2. RecordsOf(id) = Cardinality({}) /\ FailuresOf(id) = Cardinality({})
      <4>1. /\ {i \in DOMAIN Completed(cache) : Completed(cache)[i].query_id = id} = {}
            /\ {i \in DOMAIN Failed(cache) : Failed(cache)[i] = id} = {}
        BY <3>1
      <4>2. QED  BY <4>1 DEF RecordsOf, FailuresOf
    <3>3. CallsInFlight(id) = Cardinality({})
      <4>1. {p \in InCall : run[p].current = id} = {}
        BY <1>5 DEF InCall
      <4>2. QED  BY <4>1 DEF CallsInFlight
    <3>4. QED  BY <1>1, <3>2, <3>3, FS_EmptySet
  <2>2. QED  BY <2>1 DEF AccountShape
<1>9. SpendingIsGated
  BY <1>1 DEF SpendingIsGated
<1>10. QED  BY <1>2, <1>3, <1>4, <1>6, <1>7, <1>8, <1>9 DEF IInv

\* Nothing that the invariant reads has changed.
LEMMA StutterKeeps ==
  ASSUME IInv, UNCHANGED intentVars
  PROVE  IInv'
<1>1. /\ UNCHANGED <<program, lock, cache, temporary, fullReport, run, starts, faults, sent, lost,
                     overlapped, killed>>
      /\ TypeOK
  BY DEF IInv, intentVars, files, bounds, history
<1>2. TypeOK'
  BY <1>1 DEF TypeOK
<1>3. \A q \in Processes : RunShape(q)'
  BY <1>1, RunShapeStays DEF IInv
<1>4. Live' = Live
  BY <1>1 DEF Live
<1>5. LockShape'
  BY <1>1, <1>4, LockStays
<1>6. FileShape'
  BY <1>1, <1>4, FilesStay DEF TypeOK
<1>7. ASSUME ~overlapped
      PROVE  /\ \A q \in Processes : Working(q)' => DiskShape(q)'
             /\ AccountShape'
  <2>1. \A q \in Processes : Working(q) => DiskShape(q)
    BY <1>7 DEF IInv
  <2>2. \A q \in Processes : Working(q)' => DiskShape(q)'
    BY <1>1, <2>1 DEF Working, DiskShape, OneRecordAhead, Completed, Failed, Readable, FullReportOf,
                      CachedCases
  <2>3. AccountShape'
    BY <1>1, <1>7 DEF IInv, AccountShape, RecordsOf, FailuresOf, Completed, Failed, CallsInFlight,
                      InCall, Live
  <2>4. QED  BY <2>2, <2>3
<1>8. (\A q \in Processes : Working(q)' => GateShape(q)') /\ SpendingIsGated'
  BY <1>1, QuietGates DEF Working
<1>9. QED  BY <1>1, <1>2, <1>3, <1>5, <1>6, <1>7, <1>8 DEF IInv

LEMMA StepHolds ==
  ASSUME IInv, [IntentNext]_intentVars
  PROVE  IInv'
<1>1. CASE UNCHANGED intentVars
  BY <1>1, StutterKeeps
<1>2. ASSUME NEW p \in Processes, NEW stage \in StagesOf, NEW experiment \in Experiments[program],
             Start(p, stage, experiment)
      PROVE  IInv'
  BY <1>2, StartKeeps
<1>3. ASSUME NEW p \in Processes, NEW accepted \in 0..Len(Dataset), Load(p, accepted)
      PROVE  IInv'
  BY <1>3, LoadKeeps
<1>4. ASSUME NEW p \in Processes, NEW scores \in Replies[program], Succeed(p, scores)
      PROVE  IInv'
  BY <1>4, SucceedKeeps
<1>5. ASSUME NEW p \in Processes, Send(p) \/ Degrade(p) PROVE IInv'
  BY <1>5, SendKeeps, DegradeKeeps
<1>6. ASSUME NEW p \in Processes, OpenTemporary(p) \/ FillTemporary(p) \/ Rename(p) PROVE IInv'
  BY <1>6, OpenTemporaryKeeps, FillTemporaryKeeps, RenameKeeps
<1>7. ASSUME NEW p \in Processes,
             WriteStageReport(p) \/ WriteFullReport(p) \/ OpenOutput(p) \/ FillOutput(p)
      PROVE  IInv'
  BY <1>7, WriteStageReportKeeps, WriteFullReportKeeps, OpenOutputKeeps, FillOutputKeeps
<1>8. ASSUME NEW p \in Processes, Unlink(p) \/ Release(p) \/ Kill(p) PROVE IInv'
  BY <1>8, UnlinkKeeps, ReleaseKeeps, KillKeeps
<1>9. ASSUME NEW p \in Processes, RenameFails(p) \/ Interrupt(p) \/ WriteFails(p) PROVE IInv'
  BY <1>9, FailuresKeep
<1>10. CASE RemoveStaleLock
  BY <1>10, RemoveStaleLockKeeps
<1>11. QED
  BY <1>1, <1>2, <1>3, <1>4, <1>5, <1>6, <1>7, <1>8, <1>9, <1>10 DEF IntentNext

\* In the composed programs the intent programs take their own steps or none.
LEMMA IntentSteps ==
  ASSUME [Next]_vars
  PROVE  [IntentNext]_intentVars
BY DEF Next, vars

\* The inductive invariant: what each process of an intent evaluation holds in
\* memory, what is on disk and what has been spent fit together at every step of
\* every schedule of starts, calls, faults and kills.
THEOREM EvaluationIsConsistent == Spec => []IInv
<1>1. Init => IInv
  BY InitHolds DEF Init
<1>2. IInv /\ [Next]_vars => IInv'
  BY StepHolds, IntentSteps
<1>3. QED  BY <1>1, <1>2, PTL DEF Spec

\* No later stage spends before the earlier gates pass (ensure_stage_unlocked),
\* whatever happens between the starts.
THEOREM StagesAreGated == Spec => []SpendingIsGated
<1>1. IInv => SpendingIsGated
  BY DEF IInv
<1>2. QED  BY <1>1, EvaluationIsConsistent, PTL

\* What an evaluation leaves on disk has a cause and can be used by the next
\* start: the lock file, the cache, the checkpoint and the report.
THEOREM LeftoversAreExplained == Spec => []LeftoversHaveACause
<1>1. IInv => LeftoversHaveACause
  <2> SUFFICES ASSUME IInv PROVE LeftoversHaveACause
    OBVIOUS
  <2>1. ASSUME Locks PROVE (lock = (Live # {} \/ killed)) /\ Cardinality(Live) <= 1
    <3>1. \A p, q \in Live : p = q
      BY <2>1 DEF IInv, LockShape
    <3>2. CASE Live = {}
      BY <2>1, <3>2, FS_EmptySet DEF IInv, LockShape
    <3>3. CASE Live # {}
      <4>1. PICK p \in Live : Live = {p}
        BY <3>1, <3>3
      <4>2. Cardinality(Live) = 1
        BY <4>1, FS_Singleton
      <4>3. QED  BY <2>1, <4>2 DEF IInv, LockShape
    <3>4. QED  BY <3>2, <3>3
  <2>2. overlapped \/ cache # Torn
    BY DEF IInv, FileShape
  <2>3. Readable(cache) =>
          /\ CacheIsValid(cache, IdsOf)
          /\ program = "full" => IsPrefix(QueryIds(cache.completed), Dataset)
    BY DEF IInv, FileShape, ValidCache
  <2>4. fullReport = Torn => faults > 0 \/ \E p \in Live : run[p].pc = "output"
    BY DEF IInv, FileShape
  <2>5. QED  BY <2>1, <2>2, <2>3, <2>4 DEF LeftoversHaveACause
<1>2. QED  BY <1>1, EvaluationIsConsistent, PTL

\* An id has one success on disk, or one call that waits for it, or neither.
LEMMA OneSuccessOrOneCall ==
  ASSUME IInv, ~overlapped, NEW id \in AllIds
  PROVE  RecordsOf(id) + Cardinality({p \in Live : run[p].pc = "waiting" /\ run[p].current = id}) <= 1
<1> DEFINE done == Completed(cache)
           Records == {i \in DOMAIN done : done[i].query_id = id}
           Waiting == {p \in Live : run[p].pc = "waiting" /\ run[p].current = id}
<1>1. TypeOK /\ \A p, q \in Live : p = q
  BY DEF IInv, LockShape
<1>2. done \in Seq(Cases) /\ IsInjective(QueryIds(done))
  <2>1. done \in Seq(Cases)
    BY <1>1, FileType
  <2>2. CASE Readable(cache)
    <3>1. IsInjective(QueryIds(cache.completed))
      BY <2>2 DEF IInv, FileShape, ValidCache, CacheIsValid, CacheShapeIsValid
    <3>2. done = cache.completed
      BY <2>2 DEF Completed
    <3>3. QED  BY <2>1, <3>1, <3>2, Zenon
  <2>3. CASE ~Readable(cache)
    <3>1. QueryIds(<<>>) = <<>>
      BY DEF QueryIds
    <3>2. done = <<>>
      BY <2>3 DEF Completed
    <3>3. QED  BY <2>1, <3>1, <3>2 DEF IsInjective
  <2>4. QED  BY <2>1, <2>2, <2>3
<1>3. \A i, j \in Records : i = j
  BY <1>2 DEF IsInjective, QueryIds
<1>4. Records = {} \/ \E i : Records = {i}
  BY <1>3
<1>5. Waiting = {} \/ \E p : Waiting = {p}
  BY <1>1
<1>6. Waiting = {} \/ Records = {}
  <2>1. SUFFICES ASSUME NEW p \in Waiting PROVE Records = {}
    OBVIOUS
  <2>2. p \in Processes /\ Working(p) /\ run[p].pc = "waiting" /\ run[p].current = id
    BY <2>1 DEF Live, Working, WorkPcs, CallPcs
  <2>3. id \notin CompletedIds(run[p].cache)
    BY <2>2 DEF IInv, RunShape, WorklistShape
  <2>4. run[p].cache.completed = done
    BY <2>2 DEF IInv, DiskShape
  <2>5. QED  BY <2>3, <2>4 DEF CompletedIds
<1>7. RecordsOf(id) = Cardinality(Records)
  BY DEF RecordsOf
<1> HIDE DEF Records, Waiting
<1>8. Cardinality(Records) + Cardinality(Waiting) <= 1
  <2>1. Cardinality(Records) \in {0, 1} /\ (Records = {} => Cardinality(Records) = 0)
    BY <1>4, FS_EmptySet, FS_Singleton
  <2>2. Cardinality(Waiting) \in {0, 1} /\ (Waiting = {} => Cardinality(Waiting) = 0)
    BY <1>5, FS_EmptySet, FS_Singleton
  <2>3. QED  BY <1>6, <2>1, <2>2
<1>9. QED  BY <1>7, <1>8 DEF Waiting

\* A case whose success is on disk is not sent again (pending cases, Send) while
\* no two processes of the program without a lock have run at once.  A case whose
\* calls were degraded or lost is sent again, and each of those calls is paid.
PaidCasesAreNotSentAgain ==
  [][\A id \in AllIds : RecordsOf(id) > 0 /\ ~overlapped => sent'[id] <= sent[id]]_intentVars

LEMMA OnlyTheUnpaidAreSent ==
  ASSUME IInv, [IntentNext]_intentVars, NEW id \in AllIds, RecordsOf(id) > 0, ~overlapped
  PROVE  sent'[id] <= sent[id]
<1>1. TypeOK /\ sent[id] \in Nat
  BY DEF IInv, TypeOK
<1>2. ASSUME NEW p \in Processes, Send(p) PROVE sent'[id] = sent[id]
  <2> DEFINE first == Min(run[p].pending)
             other == IdsFor(p)[first]
  <2>1. /\ run[p] # Idle /\ run[p].pc = "next" /\ run[p].pending # {}
        /\ sent' = [sent EXCEPT ![other] = @ + 1]
    BY <1>2 DEF Send, IdsFor
  <2>2. Working(p) /\ run[p].pc \notin CallPcs
    BY <2>1 DEF Working, WorkPcs, CallPcs
  <2>3. run[p] \in LoadedRuns /\ WorklistShape(p) /\ run[p].cache.completed = Completed(cache)
    BY <1>1, <2>1, <2>2, RunKinds DEF IInv, RunShape, DiskShape, CallPcs
  <2>4. run[p].pending \in SUBSET Nat
    BY <2>3 DEF LoadedRuns
  <2>5. first \in run[p].pending
    BY <2>1, <2>4, LeastExists
  <2>6. other \notin CompletedIds(run[p].cache)
    BY <2>1, <2>3, <2>5 DEF WorklistShape
  <2> HIDE DEF first, other
  <2>7. RecordsOf(other) = 0
    <3>1. \A i \in DOMAIN Completed(cache) : Completed(cache)[i].query_id # other
      BY <2>3, <2>6 DEF CompletedIds
    <3>2. {i \in DOMAIN Completed(cache) : Completed(cache)[i].query_id = other} = {}
      BY <3>1
    <3>3. QED  BY <3>2, FS_EmptySet DEF RecordsOf
  <2>8. id # other
    BY <2>7
  <2>9. QED  BY <1>1, <2>1, <2>8 DEF TypeOK
<1>3. ASSUME NEW p \in Processes, Unlink(p) PROVE sent'[id] = 0
  <2>1. run[p] # Idle /\ run[p].pc = "unlink" /\ sent'[id] = CallsInFlight(id)
    BY <1>3 DEF Unlink
  <2>2. InCall = {}
    BY <2>1 DEF IInv, LockShape, InCall, Live
  <2>3. {q \in InCall : run[q].current = id} = {}
    BY <2>2
  <2>4. QED  BY <2>1, <2>3, FS_EmptySet DEF CallsInFlight
<1>4. ASSUME NEW p \in Processes,
             \/ \E stage \in StagesOf, experiment \in Experiments[program] : Start(p, stage, experiment)
             \/ \E accepted \in 0..Len(Dataset) : Load(p, accepted)
             \/ Degrade(p) \/ (\E scores \in Replies[program] : Succeed(p, scores))
             \/ OpenTemporary(p) \/ FillTemporary(p) \/ Rename(p) \/ RenameFails(p)
             \/ WriteStageReport(p) \/ WriteFullReport(p) \/ OpenOutput(p) \/ FillOutput(p)
             \/ Release(p) \/ Interrupt(p) \/ WriteFails(p) \/ Kill(p)
      PROVE  sent' = sent
  BY <1>4 DEF Start, Load, Degrade, Succeed, OpenTemporary, FillTemporary, Rename, RenameFails,
              WriteStageReport, WriteFullReport, OpenOutput, FillOutput, Release, Interrupt,
              WriteFails, Kill, history
<1>5. ASSUME RemoveStaleLock PROVE sent' = sent
  BY <1>5 DEF RemoveStaleLock
<1>6. ASSUME UNCHANGED intentVars PROVE sent' = sent
  BY <1>6 DEF intentVars, history
<1>7. CASE \E p \in Processes : Send(p) \/ Unlink(p)
  BY <1>1, <1>2, <1>3, <1>7
<1>8. CASE sent' = sent
  BY <1>1, <1>8
<1>9. QED  BY <1>4, <1>5, <1>6, <1>7, <1>8 DEF IntentNext

\* Unless two processes of the program without a lock have run at once, every paid
\* call is a success or a failure on disk, lost to a fault or under way, and no call
\* is paid for a case whose success is on disk or while another call for it waits;
\* a case whose calls were degraded or lost is paid for again (record in the three
\* programs, ADR-0013).
THEOREM AttemptsAreCounted == Spec => []AttemptsAreAccountedFor /\ PaidCasesAreNotSentAgain
<1>1. IInv => AttemptsAreAccountedFor
  BY OneSuccessOrOneCall DEF IInv, AccountShape, AttemptsAreAccountedFor
<1>2. IInv /\ [Next]_vars
        => [\A id \in AllIds : RecordsOf(id) > 0 /\ ~overlapped => sent'[id] <= sent[id]]_intentVars
  BY OnlyTheUnpaidAreSent, IntentSteps
<1>3. QED  BY <1>1, <1>2, EvaluationIsConsistent, PTL DEF Spec, PaidCasesAreNotSentAgain

-----------------------------------------------------------------------------
(* Paid successes                                                          *)

\* The report of a complete pass has every case of the checkpoint.
LEMMA ReportHasEveryCase ==
  ASSUME NEW file \in CacheRecords, IsCompleteSequence(file.completed),
         IsInjective(QueryIds(file.completed)), NEW case \in ToSet(file.completed)
  PROVE  case \in ToSet(CachedCases(Dataset, file))
<1> DEFINE done == file.completed
           cases == CachedCases(Dataset, file)
<1>1. done \in Seq(Cases) /\ QueryIds(done) = Dataset
  BY DEF CacheRecords, IsCompleteSequence
<1>2. PICK i \in DOMAIN done : done[i] = case
  BY DEF ToSet
<1>3. DOMAIN QueryIds(done) = DOMAIN done /\ QueryIds(done)[i] = case.query_id
  BY <1>2 DEF QueryIds
<1>4. i \in DOMAIN Dataset /\ Dataset[i] = case.query_id
  BY <1>1, <1>2, <1>3
<1>5. ToSet(Dataset) \subseteq CompletedIds(file)
  <2>1. ASSUME NEW j \in DOMAIN Dataset PROVE Dataset[j] \in CompletedIds(file)
    <3>1. j \in DOMAIN done /\ Dataset[j] = done[j].query_id
      BY <1>1 DEF QueryIds
    <3>2. QED  BY <3>1 DEF CompletedIds
  <2>2. QED  BY <2>1 DEF ToSet
<1>6. Dataset \in Seq(ToSet(Dataset))
  BY SequencesOfIds
<1>7. /\ DOMAIN cases = DOMAIN Dataset
      /\ cases[i] \in ToSet(done) /\ cases[i].query_id = Dataset[i]
      /\ \A one, other \in ToSet(done) : one.query_id = other.query_id => one = other
  BY <1>1, <1>4, <1>5, <1>6, CasesAreCached
<1>8. cases[i] = case
  BY <1>4, <1>7
<1> HIDE DEF cases
<1>9. QED  BY <1>4, <1>7, <1>8 DEF ToSet, cases

LEMMA SuccessesStay ==
  ASSUME IInv, [IntentNext]_intentVars, NEW case \in Successes
  PROVE  \/ case \in Successes'
         \/ Readable(fullReport) /\ case \in ToSet(fullReport.cases)
         \/ overlapped
<1>1. ASSUME cache' = cache PROVE case \in Successes'
  BY <1>1 DEF Successes, Completed, Readable
<1>2. ASSUME NEW p \in Processes, FillTemporary(p) PROVE cache' = cache
  <2>1. Completed(cache) # <<>>
    BY DEF Successes, ToSet
  <2>2. cache # Torn
    BY <2>1 DEF Completed, Readable
  <2>3. QED  BY <1>2, <2>2 DEF FillTemporary
<1>3. ASSUME NEW p \in Processes, Rename(p) PROVE overlapped \/ case \in Successes'
  BY <1>3, RenameAdds
<1>4. ASSUME NEW p \in Processes, Unlink(p), ~overlapped
      PROVE  Readable(fullReport) /\ case \in ToSet(fullReport.cases)
  <2>1. run[p].pc = "unlink" /\ Working(p)
    BY <1>4 DEF Unlink, Working, WorkPcs
  <2>2. /\ DiskShape(p) /\ ValidCache(run[p].cache) /\ IsCompleteSequence(run[p].cache.completed)
    BY <1>4, <2>1 DEF IInv, RunShape
  <2>3. fullReport = FullReportOf(p) /\ run[p].cache.completed = Completed(cache)
    BY <2>1, <2>2 DEF DiskShape
  <2>4. fullReport.cases = CachedCases(Dataset, run[p].cache)
    BY <2>3 DEF FullReportOf, FullReport
  <2>5. /\ run[p].cache \in CacheRecords /\ IsInjective(QueryIds(run[p].cache.completed))
    BY <2>2 DEF ValidCache, CacheIsValid, CacheShapeIsValid
  <2>6. case \in ToSet(run[p].cache.completed)
    BY <2>3 DEF Successes
  <2>7. case \in ToSet(CachedCases(Dataset, run[p].cache))
    BY <2>2, <2>5, <2>6, ReportHasEveryCase
  <2>8. QED  BY <2>3, <2>4, <2>7, ReportsAreContent
<1>5. ASSUME NEW p \in Processes,
             \/ \E stage \in StagesOf, experiment \in Experiments[program] : Start(p, stage, experiment)
             \/ \E accepted \in 0..Len(Dataset) : Load(p, accepted)
             \/ Send(p) \/ Degrade(p) \/ (\E scores \in Replies[program] : Succeed(p, scores))
             \/ OpenTemporary(p) \/ RenameFails(p)
             \/ WriteStageReport(p) \/ WriteFullReport(p) \/ OpenOutput(p) \/ FillOutput(p)
             \/ Release(p) \/ Interrupt(p) \/ WriteFails(p) \/ Kill(p)
      PROVE  cache' = cache
  BY <1>5 DEF Start, Load, Send, Degrade, Succeed, OpenTemporary, RenameFails, WriteStageReport,
              WriteFullReport, OpenOutput, FillOutput, Release, Interrupt, WriteFails, Kill, files
<1>6. ASSUME RemoveStaleLock PROVE cache' = cache
  BY <1>6 DEF RemoveStaleLock
<1>7. ASSUME UNCHANGED intentVars PROVE cache' = cache
  BY <1>7 DEF intentVars, files
<1>8. QED  BY <1>1, <1>2, <1>3, <1>4, <1>5, <1>6, <1>7 DEF IntentNext

\* A paid success never vanishes from the disk: it stays in the cache file until
\* a complete report that contains it has been written (README, "checkpoint").
THEOREM SuccessesAreKept == Spec => PaidSuccessesAreKept
<1>1. IInv /\ [Next]_vars
        => [\A case \in Successes :
              \/ case \in Successes'
              \/ Readable(fullReport) /\ case \in ToSet(fullReport.cases)
              \/ overlapped]_intentVars
  BY SuccessesStay, IntentSteps
<1>2. QED  BY <1>1, EvaluationIsConsistent, PTL DEF Spec, PaidSuccessesAreKept

-----------------------------------------------------------------------------
(* Importing the corpus                                                    *)

Versions == [hash : Hashes, by : {"import", "client"}]
ChangedByClient(document) ==
  versions[document] # <<>> /\ Last(versions[document]).by = "client"
Settled(document) == ActiveHash(document) = snapshot[document] \/ ChangedByClient(document)
ToBeIngested(document) == ActiveHash(document) # snapshot[document] \/ ChangedByClient(document)

\* Two versions that the import created in a row differ.
NoDuplicate(past) ==
  \A i \in 1..(Len(past) - 1) :
    past[i].by = "import" /\ past[i + 1].by = "import" => past[i].hash # past[i + 1].hash

\* The import has settled the first documents of the corpus and has the others to do.
ImportPosition ==
  LET done == imported + skipped
  IN /\ todo \in Seq(Documents) /\ done + Len(todo) = Len(Corpus)
     /\ \A i \in 1..Len(todo) : todo[i] = Corpus[done + i]
     /\ \A i \in 1..done : Settled(Corpus[i])

ImportInv ==
  /\ imported \in Nat /\ skipped \in Nat
  /\ snapshot \in Snapshots
  /\ versions \in [Documents -> Seq(Versions)]
  /\ \A document \in Documents : NoDuplicate(versions[document])
  /\ phase = "off" => imported = 0 /\ skipped = 0
  /\ phase \in {"import", "ingest"} => ImportPosition
  /\ phase = "ingest" => todo # <<>> /\ ToBeIngested(Head(todo))

LEMMA CorpusIsTyped == Corpus \in Seq(Documents)
BY CorpusAssumption DEF Documents

LEMMA SnapshotHashes ==
  ASSUME NEW hashes \in Snapshots, NEW document \in Documents
  PROVE  hashes[document] \in Hashes
<1>1. hashes[document] \in Range(hashes)
  BY CorpusAssumption DEF Range, Documents
<1>2. QED  BY <1>1 DEF Hashes

\* One version more: the last one, and whether two in a row are alike.
LEMMA AppendVersion ==
  ASSUME NEW past \in Seq(Versions), NEW version \in Versions, NoDuplicate(past),
         \/ version.by = "client"
         \/ past = <<>>
         \/ Last(past).by = "client" \/ Last(past).hash # version.hash
  PROVE  /\ Append(past, version) \in Seq(Versions)
         /\ Append(past, version) # <<>> /\ Last(Append(past, version)) = version
         /\ NoDuplicate(Append(past, version))
<1> DEFINE more == Append(past, version)
           m == Len(past)
<1>1. /\ m \in Nat /\ Len(more) = m + 1 /\ more[m + 1] = version /\ more \in Seq(Versions)
      /\ \A i \in 1..m : more[i] = past[i]
      /\ past # <<>> => m > 0 /\ Last(past) = past[m]
  BY DEF Last
<1>3. m > 0 => version.by = "client" \/ past[m].by = "client" \/ past[m].hash # version.hash
  BY <1>1
<1>4. \A i \in 1..(m - 1) :
        past[i].by = "import" /\ past[i + 1].by = "import" => past[i].hash # past[i + 1].hash
  BY DEF NoDuplicate
<1> HIDE DEF more, m
<1>2. more # <<>> /\ Last(more) = version
  BY <1>1 DEF Last
<1>5. ASSUME NEW i \in 1..(Len(more) - 1), more[i].by = "import", more[i + 1].by = "import"
      PROVE  more[i].hash # more[i + 1].hash
  <2>1. CASE i = m
    BY <1>1, <1>3, <1>5, <2>1
  <2>2. CASE i # m
    <3>1. i \in 1..(m - 1) /\ i \in 1..m /\ i + 1 \in 1..m
      BY <1>1, <2>2
    <3>2. more[i] = past[i] /\ more[i + 1] = past[i + 1]
      BY <1>1, <3>1
    <3>3. QED  BY <1>4, <1>5, <3>1, <3>2
  <2>3. QED  BY <2>1, <2>2
<1>6. QED  BY <1>1, <1>2, <1>5 DEF more, NoDuplicate

LEMMA ImportInit ==
  ASSUME RetrievalInit
  PROVE  ImportInv
<1>1. /\ imported = 0 /\ skipped = 0 /\ snapshot \in Snapshots /\ phase = "off"
      /\ versions = [document \in Documents |-> <<>>]
  BY DEF RetrievalInit
<1>2. NoDuplicate(<<>>)
  BY DEF NoDuplicate
<1>3. QED  BY <1>1, <1>2 DEF ImportInv

\* Steps that leave the corpus alone and are not part of an import.
LEMMA QuietImport ==
  ASSUME ImportInv, UNCHANGED <<snapshot, versions>>,
         imported' \in Nat, skipped' \in Nat,
         phase' \notin {"import", "ingest"},
         phase' = "off" => imported' = 0 /\ skipped' = 0
  PROVE  ImportInv'
BY DEF ImportInv

LEMMA StutterImport ==
  ASSUME ImportInv, UNCHANGED <<snapshot, versions, imported, skipped, todo, phase>>
  PROVE  ImportInv'
BY DEF ImportInv, ImportPosition, Settled, ToBeIngested, ChangedByClient, ActiveHash

LEMMA StartImport ==
  ASSUME ImportInv, NEW arguments, StartEvaluation(arguments)
  PROVE  ImportInv'
<1>1. imported = 0 /\ skipped = 0 /\ UNCHANGED <<snapshot, versions, imported, skipped>>
  BY DEF StartEvaluation, ImportInv
<1>2. CASE phase' = "search"
  BY <1>1, <1>2, QuietImport
<1>3. CASE phase' = "import" /\ todo' = Corpus
  <2>1. ImportPosition'
    BY <1>1, <1>3, CorpusIsTyped DEF ImportPosition
  <2>2. QED  BY <1>1, <1>3, <2>1 DEF ImportInv
<1>4. QED  BY <1>2, <1>3 DEF StartEvaluation

\* The head of the list is settled and leaves it.
LEMMA NextDocument ==
  ASSUME ImportPosition, imported \in Nat, skipped \in Nat, todo # <<>>,
         todo' = Tail(todo), imported' \in Nat, skipped' \in Nat,
         imported' + skipped' = imported + skipped + 1,
         \A document \in Documents : Settled(document) => Settled(document)',
         NEW document, document = Head(todo), Settled(document)'
  PROVE  ImportPosition'
<1>0. PICK done : done = imported + skipped
  OBVIOUS
<1> DEFINE m == Len(todo)
<1>1. /\ todo \in Seq(Documents) /\ done \in Nat /\ m \in Nat /\ done + m = Len(Corpus)
      /\ \A i \in 1..m : todo[i] = Corpus[done + i]
      /\ \A i \in 1..done : Settled(Corpus[i])
  BY <1>0 DEF ImportPosition
<1>2. m > 0 /\ Head(todo) = todo[1]
  BY <1>1
<1>3. /\ todo' \in Seq(Documents) /\ Len(todo') = m - 1
      /\ \A i \in 1..(m - 1) : todo'[i] = todo[i + 1]
  BY <1>1, <1>2
<1>4. \A i \in 1..done : Corpus[i] \in Documents
  BY <1>1, CorpusIsTyped
<1>5. ASSUME NEW i \in 1..done PROVE Settled(Corpus[i])'
  BY <1>1, <1>4
<1>6. document = Corpus[done + 1]
  BY <1>1, <1>2
<1>7. imported' + skipped' = done + 1
  BY <1>0
<1>8. \A i \in 1..(done + 1) : Settled(Corpus[i])'
  <2>1. ASSUME NEW i \in 1..(done + 1) PROVE Settled(Corpus[i])'
    <3>1. i \in 1..done \/ i = done + 1
      BY <1>1
    <3>2. CASE i \in 1..done
      BY <1>5, <3>2
    <3>3. CASE i = done + 1
      <4>1. Corpus[i] = document
        BY <1>6, <3>3
      <4>2. QED  BY <4>1 DEF Settled, ActiveHash, ChangedByClient
    <3>4. QED  BY <3>1, <3>2, <3>3
  <2>2. QED  BY <2>1
<1> HIDE DEF m
<1>9. \A i \in 1..(m - 1) : todo'[i] = Corpus[(done + 1) + i]
  <2>1. ASSUME NEW i \in 1..(m - 1) PROVE todo'[i] = Corpus[(done + 1) + i]
    <3>1. i + 1 \in 1..m /\ done + (i + 1) = (done + 1) + i
      BY <1>1
    <3>2. todo'[i] = todo[i + 1] /\ todo[i + 1] = Corpus[done + (i + 1)]
      BY <1>1, <1>3, <3>1
    <3>3. QED  BY <3>1, <3>2
  <2>2. QED  BY <2>1
<1>10. (done + 1) + Len(todo') = Len(Corpus)
  BY <1>1, <1>3
<1>11. QED  BY <1>3, <1>7, <1>8, <1>9, <1>10 DEF ImportPosition

LEMMA CheckImport ==
  ASSUME ImportInv, CheckDocument
  PROVE  ImportInv'
<1>1. /\ phase = "import" /\ todo # <<>> /\ UNCHANGED <<snapshot, versions, imported>>
      /\ imported \in Nat /\ skipped \in Nat /\ ImportPosition
  BY DEF CheckDocument, ImportInv, corpusVars
<1>2. \A document : Settled(document)' = Settled(document)
  BY <1>1 DEF Settled, ActiveHash, ChangedByClient
<1>3. CASE ActiveHash(Head(todo)) = snapshot[Head(todo)]
  <2>1. todo' = Tail(todo) /\ skipped' = skipped + 1 /\ phase' = "import"
    BY <1>1, <1>3 DEF CheckDocument
  <2>2. PICK document : document = Head(todo) /\ Settled(document)
    BY <1>3 DEF Settled
  <2>3. ImportPosition'
    BY <1>1, <1>2, <2>1, <2>2, NextDocument
  <2>4. QED  BY <1>1, <2>1, <2>3 DEF ImportInv
<1>4. CASE ActiveHash(Head(todo)) # snapshot[Head(todo)]
  <2>1. phase' = "ingest" /\ UNCHANGED <<todo, skipped>>
    BY <1>4 DEF CheckDocument
  <2>2. ImportPosition'
    BY <1>1, <1>2, <2>1 DEF ImportPosition
  <2>3. ToBeIngested(Head(todo))'
    BY <1>1, <1>4, <2>1 DEF ToBeIngested, ActiveHash
  <2>4. QED  BY <1>1, <2>1, <2>2, <2>3 DEF ImportInv
<1>5. QED  BY <1>3, <1>4

LEMMA HeadIsADocument ==
  ASSUME ImportPosition, todo # <<>>
  PROVE  Head(todo) \in Documents
BY DEF ImportPosition

LEMMA IngestImport ==
  ASSUME ImportInv, IngestDocument
  PROVE  ImportInv'
<1>0. PICK document : document = Head(todo)
  OBVIOUS
<1> DEFINE version == [hash |-> snapshot[document], by |-> "import"]
<1>1. /\ phase = "ingest" /\ phase' = "import" /\ UNCHANGED <<snapshot, skipped>>
      /\ todo' = Tail(todo) /\ imported' = imported + 1
      /\ versions' = [versions EXCEPT ![document] = Append(versions[document], version)]
  BY <1>0 DEF IngestDocument
<1>2. /\ imported \in Nat /\ skipped \in Nat /\ snapshot \in Snapshots /\ ImportPosition
      /\ versions \in [Documents -> Seq(Versions)]
      /\ \A d \in Documents : NoDuplicate(versions[d])
      /\ todo # <<>> /\ ToBeIngested(document)
  BY <1>0, <1>1 DEF ImportInv
<1>3. document \in Documents
  BY <1>0, <1>2, HeadIsADocument
<1>4. snapshot[document] \in Hashes
  BY <1>2, <1>3, SnapshotHashes
<1>5. version \in Versions /\ version.hash = snapshot[document] /\ version.by = "import"
  BY <1>4 DEF Versions
<1>6. \/ versions[document] = <<>>
      \/ Last(versions[document]).by = "client"
      \/ Last(versions[document]).hash # snapshot[document]
  BY <1>2 DEF ToBeIngested, ChangedByClient, ActiveHash
<1> HIDE DEF version
<1>7. /\ Append(versions[document], version) \in Seq(Versions)
      /\ Append(versions[document], version) # <<>>
      /\ Last(Append(versions[document], version)) = version
      /\ NoDuplicate(Append(versions[document], version))
  BY <1>2, <1>3, <1>5, <1>6, AppendVersion
<1>8. /\ versions' \in [Documents -> Seq(Versions)]
      /\ versions'[document] = Append(versions[document], version)
      /\ \A d \in Documents \ {document} : versions'[d] = versions[d]
  BY <1>1, <1>2, <1>3, <1>7
<1>9. \A d \in Documents : NoDuplicate(versions'[d])
  BY <1>2, <1>7, <1>8
<1>10. versions'[document] # <<>> /\ Last(versions'[document]).hash = snapshot'[document]
  BY <1>1, <1>5, <1>7, <1>8
<1>11. Settled(document)'
  BY <1>10 DEF Settled, ActiveHash
<1>12. \A d \in Documents : Settled(d) => Settled(d)'
  BY <1>1, <1>8, <1>11 DEF Settled, ActiveHash, ChangedByClient
<1>13. ImportPosition'
  BY <1>0, <1>1, <1>2, <1>11, <1>12, NextDocument
<1>14. QED  BY <1>1, <1>2, <1>8, <1>9, <1>13 DEF ImportInv

LEMMA ChangeImport ==
  ASSUME ImportInv, NEW document \in Documents, NEW hash \in Hashes, ChangeDocument(document, hash)
  PROVE  ImportInv'
<1> DEFINE version == [hash |-> hash, by |-> "client"]
<1>1. /\ UNCHANGED <<snapshot, skipped, imported, todo, phase>>
      /\ versions' = [versions EXCEPT ![document] = Append(versions[document], version)]
  BY DEF ChangeDocument
<1>2. /\ imported \in Nat /\ skipped \in Nat /\ snapshot \in Snapshots
      /\ versions \in [Documents -> Seq(Versions)]
      /\ \A d \in Documents : NoDuplicate(versions[d])
  BY DEF ImportInv
<1>3. version \in Versions /\ version.by = "client"
  BY DEF Versions
<1> HIDE DEF version
<1>4. /\ Append(versions[document], version) \in Seq(Versions)
      /\ Append(versions[document], version) # <<>>
      /\ Last(Append(versions[document], version)) = version
      /\ NoDuplicate(Append(versions[document], version))
  BY <1>2, <1>3, AppendVersion
<1>5. /\ versions' \in [Documents -> Seq(Versions)]
      /\ versions'[document] = Append(versions[document], version)
      /\ \A d \in Documents \ {document} : versions'[d] = versions[d]
  BY <1>1, <1>2, <1>4
<1>6. \A d \in Documents : NoDuplicate(versions'[d])
  BY <1>2, <1>4, <1>5
<1>7. ChangedByClient(document)'
  BY <1>3, <1>4, <1>5 DEF ChangedByClient
<1>8. \A d \in Documents : /\ Settled(d) => Settled(d)'
                           /\ ToBeIngested(d) => ToBeIngested(d)'
  <2>1. ASSUME NEW d \in Documents
        PROVE  /\ Settled(d) => Settled(d)'
               /\ ToBeIngested(d) => ToBeIngested(d)'
    <3>1. CASE d = document
      BY <1>7, <3>1 DEF Settled, ToBeIngested, ChangedByClient
    <3>2. CASE d # document
      BY <1>1, <1>5, <3>2 DEF Settled, ToBeIngested, ChangedByClient, ActiveHash
    <3>3. QED  BY <3>1, <3>2
  <2>2. QED  BY <2>1
<1>9. ASSUME ImportPosition PROVE ImportPosition'
  <2>1. /\ imported + skipped \in Nat /\ Len(todo) \in Nat
        /\ imported + skipped + Len(todo) = Len(Corpus)
    BY <1>2, <1>9 DEF ImportPosition
  <2>2. \A i \in 1..(imported + skipped) : Corpus[i] \in Documents
    BY <2>1, CorpusIsTyped
  <2>3. \A i \in 1..(imported + skipped) : Settled(Corpus[i])'
    <3>1. ASSUME NEW i \in 1..(imported + skipped) PROVE Settled(Corpus[i])'
      <4>1. Settled(Corpus[i]) /\ Corpus[i] \in Documents
        BY <1>9, <2>2 DEF ImportPosition
      <4>2. QED  BY <1>8, <4>1
    <3>2. QED  BY <3>1
  <2>4. QED  BY <1>1, <1>9, <2>3 DEF ImportPosition
<1>10. ASSUME phase = "ingest" PROVE todo' # <<>> /\ ToBeIngested(Head(todo))'
  <2>1. todo # <<>> /\ ToBeIngested(Head(todo)) /\ ImportPosition
    BY <1>10 DEF ImportInv
  <2>2. PICK d \in Documents : d = Head(todo)
    BY <2>1, HeadIsADocument
  <2>3. ToBeIngested(d)' /\ d = Head(todo')
    BY <1>1, <1>8, <2>1, <2>2
  <2>4. QED  BY <1>1, <2>1, <2>3 DEF ToBeIngested, ActiveHash, ChangedByClient
<1>11. QED  BY <1>1, <1>2, <1>5, <1>6, <1>9, <1>10 DEF ImportInv

LEMMA StepImport ==
  ASSUME ImportInv, [RetrievalNext]_retrievalVars
  PROVE  ImportInv'
<1>1. imported \in Nat /\ skipped \in Nat
  BY DEF ImportInv
<1>2. ASSUME End, UNCHANGED corpusVars PROVE ImportInv'
  BY <1>2, QuietImport DEF End, corpusVars
<1>3. ASSUME UNCHANGED retrievalVars PROVE ImportInv'
  BY <1>3, StutterImport DEF retrievalVars
<1>4. ASSUME NEW arguments \in Commands, StartEvaluation(arguments) PROVE ImportInv'
  BY <1>4, StartImport
<1>5. ASSUME CheckDocument \/ IngestDocument PROVE ImportInv'
  BY <1>5, CheckImport, IngestImport
<1>6. ASSUME FinishImport PROVE ImportInv'
  <2>1. CASE command.mode = "none"
    BY <1>2, <1>6, <2>1 DEF FinishImport
  <2>2. CASE command.mode # "none"
    BY <1>1, <1>6, <2>2, QuietImport DEF FinishImport, corpusVars
  <2>3. QED  BY <2>1, <2>2
<1>7. ASSUME Search PROVE ImportInv'
  <2>1. UNCHANGED <<snapshot, versions, imported, skipped>> /\ phase' \in {"search", "rerank"}
    BY <1>7 DEF Search, corpusVars
  <2>2. QED  BY <1>1, <2>1, QuietImport
<1>8. ASSUME SearchFails \/ Rerank \/ SmokeCall PROVE ImportInv'
  <2>1. UNCHANGED <<snapshot, versions, imported, skipped>> /\ phase' = "search"
    BY <1>8 DEF SearchFails, Rerank, SmokeCall, corpusVars
  <2>2. QED  BY <1>1, <2>1, QuietImport
<1>9. ASSUME OpenReport PROVE ImportInv'
  <2>1. UNCHANGED <<snapshot, versions, imported, skipped>> /\ phase' \in {"write", "rejected"}
    BY <1>9 DEF OpenReport, corpusVars
  <2>2. QED  BY <1>1, <2>1, QuietImport
<1>10. ASSUME FillReport \/ Abort \/ KillEvaluation PROVE ImportInv'
  BY <1>2, <1>10 DEF FillReport, Abort, KillEvaluation, Abandon
<1>11. ASSUME NEW document \in Documents, NEW hash \in Hashes, ChangeDocument(document, hash)
       PROVE  ImportInv'
  BY <1>11, ChangeImport
<1>12. ASSUME ChangeSnapshot PROVE ImportInv'
  <2>1. /\ phase = "off" /\ phase' = "off" /\ snapshot' \in Snapshots
        /\ UNCHANGED <<versions, imported, skipped>>
    BY <1>12 DEF ChangeSnapshot
  <2>2. QED  BY <2>1 DEF ImportInv
<1>13. QED
  BY <1>3, <1>4, <1>5, <1>6, <1>7, <1>8, <1>9, <1>10, <1>11, <1>12 DEF RetrievalNext

\* In the composed programs the retrieval programs take their own steps or none.
LEMMA RetrievalSteps ==
  ASSUME [Next]_vars
  PROVE  [RetrievalNext]_retrievalVars
BY DEF Next, vars

\* What an interrupted, repeated or overtaken import leaves of each document.
THEOREM ImportIsConsistent == Spec => []ImportInv
<1>1. Init => ImportInv
  BY ImportInit DEF Init
<1>2. ImportInv /\ [Next]_vars => ImportInv'
  BY StepImport, RetrievalSteps
<1>3. QED  BY <1>1, <1>2, PTL DEF Spec

\* Importing a snapshot again, after any interruption and any client's change,
\* creates no duplicate version and settles every document.
THEOREM ImportsAreIdempotent == Spec => []ImportIsIdempotent
<1>1. ImportInv => ImportIsIdempotent
  <2> SUFFICES ASSUME ImportInv PROVE ImportIsIdempotent
    OBVIOUS
  <2>1. \A document \in Documents : NoDuplicate(versions[document])
    BY DEF ImportInv
  <2>2. ASSUME phase = "import", todo = <<>>
        PROVE  /\ imported + skipped = Len(Corpus)
               /\ \A document \in Documents :
                    ActiveHash(document) = snapshot[document] \/ Last(versions[document]).by = "client"
    <3>1. ImportPosition
      BY <2>2 DEF ImportInv
    <3>2. imported + skipped = Len(Corpus)
      BY <2>2, <3>1 DEF ImportPosition, ImportInv
    <3>3. \A i \in 1..Len(Corpus) : Settled(Corpus[i])
      BY <3>1, <3>2 DEF ImportPosition
    <3>4. \A document \in Documents : \E i \in 1..Len(Corpus) : Corpus[i] = document
      BY CorpusIsTyped DEF Documents, ToSet
    <3>5. \A document \in Documents : Settled(document)
      BY <3>3, <3>4
    <3>6. QED  BY <3>2, <3>5 DEF Settled, ChangedByClient
  <2>3. QED  BY <2>1, <2>2 DEF ImportIsIdempotent, NoDuplicate
<1>2. QED  BY <1>1, ImportIsConsistent, PTL

-----------------------------------------------------------------------------
(* Folds over sequences                                                    *)

\* A set with 0 that is closed under successor holds every natural number.
LEMMA EveryNumber ==
  ASSUME NEW S, 0 \in S, \A n \in Nat : n \in S => n + 1 \in S
  PROVE  \A n \in Nat : n \in S
<1>1. SUFFICES ASSUME Nat \ S # {} PROVE FALSE
  OBVIOUS
<1> DEFINE n == Min(Nat \ S)
<1>2. n \in Nat /\ n \notin S /\ \A m \in Nat \ S : n <= m
  BY <1>1, LeastExists
<1> HIDE DEF n
<1>3. n # 0 /\ n - 1 \in Nat
  BY <1>2
<1>4. n - 1 \in S
  BY <1>2, <1>3
<1>5. (n - 1) + 1 \in S
  BY <1>3, <1>4
<1>6. QED  BY <1>2, <1>5

LEMMA GreatestExists ==
  ASSUME NEW n \in Nat, NEW S \in SUBSET (1..n), S # {}
  PROVE  Max(S) \in S /\ \A x \in S : x <= Max(S)
<1> DEFINE T == {k \in Nat : n - k \in S}
<1>1. PICK x \in S : TRUE
  OBVIOUS
<1>2. n - x \in T
  BY <1>1
<1>3. Min(T) \in T /\ \A k \in T : Min(T) <= k
  BY <1>2, LeastExists
<1> DEFINE m == n - Min(T)
<1>4. m \in S /\ m \in Nat
  BY <1>3
<1>5. \A y \in S : m >= y
  <2>1. ASSUME NEW y \in S PROVE m >= y
    <3>1. y \in Nat /\ n - y \in Nat /\ n - (n - y) = y
      OBVIOUS
    <3>2. n - y \in T
      BY <3>1
    <3>3. Min(T) \in Nat /\ Min(T) <= n - y
      BY <1>3, <3>2
    <3>4. QED  BY <3>1, <3>3
  <2>2. QED  BY <2>1
<1> HIDE DEF m
<1>6. Max(S) \in S /\ \A y \in S : Max(S) >= y
  BY <1>4, <1>5 DEF Max
<1>7. QED
  <2>1. \A y \in S : y \in Nat
    OBVIOUS
  <2>2. QED  BY <1>6, <2>1

LEMMA LastOfInterval ==
  ASSUME NEW i \in Nat \ {0}
  PROVE  Max(1..i) = i /\ (1..i) \ {i} = 1..(i - 1)
<1>1. Max(1..i) \in 1..i /\ i <= Max(1..i)
  <2>1. i \in 1..i /\ 1..i \in SUBSET (1..i)
    OBVIOUS
  <2>2. QED  BY <2>1, GreatestExists
<1>2. QED  BY <1>1

\* The function that a fold over 1..n computes, from the last element down.
IsFold(f, n, T, base, step) ==
  /\ f \in [SUBSET (1..n) -> T]
  /\ f[{}] = base
  /\ \A s \in SUBSET (1..n) : s # {} => f[s] = step[<<Max(s), f[s \ {Max(s)}]>>]

LEMMA FoldExists ==
  ASSUME NEW T, NEW base \in T, NEW n \in Nat, NEW step \in [(1..n) \X T -> T]
  PROVE  \E f : IsFold(f, n, T, base, step)
<1> DEFINE S == {k \in Nat : k <= n => \E f : IsFold(f, k, T, base, step)}
<1>1. 0 \in S
  <2> DEFINE f == [s \in SUBSET (1..0) |-> base]
  <2>1. 1..0 = {}
    OBVIOUS
  <2>2. IsFold(f, 0, T, base, step)
    BY <2>1 DEF IsFold
  <2>3. QED  BY <2>2
<1>2. ASSUME NEW k \in Nat, k \in S, k + 1 <= n
      PROVE  \E f : IsFold(f, k + 1, T, base, step)
  <2>1. PICK f : IsFold(f, k, T, base, step)
    BY <1>2
  <2> DEFINE D == 1..(k + 1)
             g == [s \in SUBSET D |->
                     IF k + 1 \in s THEN step[<<k + 1, f[s \ {k + 1}]>>] ELSE f[s]]
  <2>2. /\ k + 1 \in 1..n
        /\ \A s \in SUBSET D : /\ s \ {k + 1} \in SUBSET (1..k)
                               /\ k + 1 \notin s => s \in SUBSET (1..k)
    BY <1>2
  <2>3. \A s \in SUBSET D : f[s \ {k + 1}] \in T /\ (k + 1 \notin s => f[s] \in T)
    BY <2>1, <2>2 DEF IsFold
  <2>4. g \in [SUBSET D -> T]
    <3>1. ASSUME NEW s \in SUBSET D
          PROVE  (IF k + 1 \in s THEN step[<<k + 1, f[s \ {k + 1}]>>] ELSE f[s]) \in T
      <4>1. <<k + 1, f[s \ {k + 1}]>> \in (1..n) \X T
        BY <2>2, <2>3
      <4>2. step[<<k + 1, f[s \ {k + 1}]>>] \in T
        BY <4>1
      <4>3. QED  BY <2>3, <4>2
    <3>2. QED  BY <3>1
  <2>5. g[{}] = base
    BY <2>1 DEF IsFold
  <2>6. ASSUME NEW s \in SUBSET D, s # {} PROVE g[s] = step[<<Max(s), g[s \ {Max(s)}]>>]
    <3>1. Max(s) \in s /\ \A x \in s : x <= Max(s)
      <4>1. k + 1 \in Nat /\ s \in SUBSET (1..(k + 1))
        OBVIOUS
      <4>2. QED  BY <2>6, <4>1, GreatestExists
    <3>2. CASE k + 1 \in s
      <4>1. Max(s) = k + 1
        <5>1. Max(s) \in 1..(k + 1) /\ k + 1 <= Max(s)
          BY <3>1, <3>2
        <5>2. QED  BY <5>1
      <4>2. s \ {k + 1} \in SUBSET D /\ k + 1 \notin s \ {k + 1}
        OBVIOUS
      <4>3. g[s \ {k + 1}] = f[s \ {k + 1}]
        BY <4>2
      <4>4. QED  BY <3>2, <4>1, <4>3
    <3>3. CASE k + 1 \notin s
      <4>1. s \in SUBSET (1..k) /\ s \ {Max(s)} \in SUBSET D /\ k + 1 \notin s \ {Max(s)}
        BY <2>2, <3>3
      <4>2. g[s] = f[s] /\ g[s \ {Max(s)}] = f[s \ {Max(s)}]
        BY <3>3, <4>1
      <4>3. f[s] = step[<<Max(s), f[s \ {Max(s)}]>>]
        BY <2>1, <2>6, <4>1 DEF IsFold
      <4>4. QED  BY <4>2, <4>3
    <3>4. QED  BY <3>2, <3>3
  <2> HIDE DEF g
  <2>7. IsFold(g, k + 1, T, base, step)
    BY <2>4, <2>5, <2>6 DEF IsFold
  <2>8. QED  BY <2>7
<1>3. \A k \in Nat : k \in S => k + 1 \in S
  <2>1. ASSUME NEW k \in Nat, k \in S PROVE k + 1 \in S
    BY <1>2, <2>1
  <2>2. QED  BY <2>1
<1> HIDE DEF S
<1>4. n \in S
  BY <1>1, <1>3, EveryNumber
<1>5. QED  BY <1>4 DEF S

\* What each step keeps holds of every element.
LEMMA StepByStep ==
  ASSUME NEW T, NEW n \in Nat, NEW part, part[0] \in T,
         \A i \in 1..n : part[i - 1] \in T => part[i] \in T
  PROVE  \A i \in 0..n : part[i] \in T
<1> DEFINE S == {i \in Nat : i <= n => part[i] \in T}
<1>1. ASSUME NEW i \in Nat, i \in S PROVE i + 1 \in S
  <2>1. SUFFICES ASSUME i + 1 <= n PROVE part[i + 1] \in T
    OBVIOUS
  <2>2. i + 1 \in 1..n /\ (i + 1) - 1 = i /\ i <= n
    BY <2>1
  <2>3. part[i] \in T
    BY <1>1, <2>2
  <2>4. QED  BY <2>2, <2>3
<1>2. 0 \in S
  OBVIOUS
<1> HIDE DEF S
<1>3. \A i \in Nat : i \in S
  BY <1>1, <1>2, EveryNumber
<1>4. QED  BY <1>3 DEF S

\* The fold of SumOf, number by number.
LEMMA SumSteps ==
  ASSUME NEW values \in Seq(Nat)
  PROVE  \E total \in [0..Len(values) -> Nat] :
           /\ total[0] = 0 /\ SumOf(values) = total[Len(values)]
           /\ \A i \in 1..Len(values) : total[i] = total[i - 1] + values[i]
<1> DEFINE n == Len(values)
           Body(it, s) == IF s = {} THEN 0 ELSE LET x == Max(s) IN it[s \ {x}] + values[x]
           fold == CHOOSE it : it = [s \in SUBSET DOMAIN values |-> Body(it, s)]
           step == [p \in (1..n) \X Nat |-> p[2] + values[p[1]]]
<1>1. SumOf(values) = fold[DOMAIN values]
  BY Zenon DEF SumOf, FoldLeft, MapThenFoldSet
<1>2. n \in Nat /\ DOMAIN values = 1..n /\ \A i \in 1..n : values[i] \in Nat
  OBVIOUS
<1>3. step \in [(1..n) \X Nat -> Nat]
  BY <1>2
<1>4. PICK f : IsFold(f, n, Nat, 0, step)
  <2> HIDE DEF step, n
  <2>1. QED  BY <1>2, <1>3, FoldExists
<1>5. ASSUME NEW it, NEW s \in SUBSET (1..n), s # {}, it[s \ {Max(s)}] \in Nat
      PROVE  step[<<Max(s), it[s \ {Max(s)}]>>] = it[s \ {Max(s)}] + values[Max(s)]
  <2>1. Max(s) \in 1..n
    BY <1>2, <1>5, GreatestExists
  <2> HIDE DEF n
  <2>2. <<Max(s), it[s \ {Max(s)}]>> \in (1..n) \X Nat
    BY <1>5, <2>1
  <2>3. QED  BY <2>2
<1>6. ASSUME NEW s \in SUBSET (1..n) PROVE f[s] = Body(f, s)
  <2>1. CASE s = {}
    BY <1>4, <2>1 DEF IsFold
  <2>2. CASE s # {}
    <3> HIDE DEF step, n
    <3>1. f[s \ {Max(s)}] \in Nat
      BY <1>4 DEF IsFold
    <3>2. f[s] = step[<<Max(s), f[s \ {Max(s)}]>>]
      BY <1>4, <2>2 DEF IsFold
    <3>3. QED  BY <1>5, <2>2, <3>1, <3>2
  <2>3. QED  BY <2>1, <2>2
<1>7. f = [s \in SUBSET DOMAIN values |-> Body(f, s)]
  <2> HIDE DEF Body, step
  <2>1. f = [s \in SUBSET (1..n) |-> f[s]]
    BY <1>4 DEF IsFold
  <2>2. QED  BY <1>2, <1>6, <2>1
<1>8. fold = [s \in SUBSET DOMAIN values |-> Body(fold, s)]
  <2> HIDE DEF Body, step
  <2>1. QED  BY <1>7
<1> HIDE DEF fold, step
<1> DEFINE total == [i \in 0..n |-> fold[1..i]]
<1>9. total[0] = 0
  <2>1. 1..0 = {} /\ {} \in SUBSET DOMAIN values /\ 0 \in 0..n
    BY <1>2
  <2>2. fold[{}] = 0
    BY <1>8, <2>1
  <2>3. QED  BY <2>1, <2>2
<1>10. ASSUME NEW i \in 1..n PROVE total[i] = total[i - 1] + values[i]
  <2>1. i \in Nat \ {0} /\ i \in 0..n /\ i - 1 \in 0..n /\ 1..i # {} /\ 1..i \in SUBSET DOMAIN values
    <3>1. i \in Nat \ {0} /\ i \in 0..n /\ i - 1 \in 0..n /\ i \in 1..i /\ 1..i \in SUBSET (1..n)
      BY <1>2
    <3>2. QED  BY <1>2, <3>1
  <2>2. Max(1..i) = i /\ (1..i) \ {i} = 1..(i - 1)
    BY <2>1, LastOfInterval
  <2>3. fold[1..i] = Body(fold, 1..i)
    <3> HIDE DEF Body
    <3>1. QED  BY <1>8, <2>1
  <2>4. fold[1..i] = fold[1..(i - 1)] + values[i]
    BY <2>1, <2>2, <2>3
  <2>5. QED  BY <2>1, <2>4
<1>11. total = [i \in 0..n |-> total[i]] /\ SumOf(values) = total[n]
  BY <1>1, <1>2
<1> HIDE DEF total, n
<1>12. \A i \in 0..n : total[i] \in Nat
  <2>1. \A i \in 1..n : total[i - 1] \in Nat => total[i] \in Nat
    BY <1>2, <1>10
  <2>2. n \in Nat /\ total[0] \in Nat
    BY <1>2, <1>9
  <2>3. QED  BY <2>1, <2>2, StepByStep
<1>13. total \in [0..n -> Nat]
  BY <1>11, <1>12
<1>14. QED  BY <1>9, <1>10, <1>11, <1>13 DEF n

\* A gap that grows with each step.
LEMMA GapStays ==
  ASSUME NEW x \in Nat, NEW y \in Nat, NEW p \in Nat, NEW q \in Nat, y - x \in Nat, p <= q
  PROVE  (y + q) - (x + p) \in Nat
OBVIOUS

\* Larger values have a larger sum.
LEMMA SumMonotone ==
  ASSUME NEW a \in Seq(Nat), NEW b \in Seq(Nat), Len(a) = Len(b),
         \A i \in 1..Len(a) : a[i] <= b[i]
  PROVE  SumOf(a) <= SumOf(b)
<1> DEFINE n == Len(a)
<1>1. PICK one \in [0..n -> Nat] :
        /\ one[0] = 0 /\ SumOf(a) = one[n]
        /\ \A i \in 1..n : one[i] = one[i - 1] + a[i]
  BY SumSteps
<1>2. PICK other \in [0..n -> Nat] :
        /\ other[0] = 0 /\ SumOf(b) = other[n]
        /\ \A i \in 1..n : other[i] = other[i - 1] + b[i]
  BY SumSteps
<1>3. n \in Nat /\ (\A i \in 1..n : a[i] \in Nat /\ b[i] \in Nat) /\ n \in 0..n /\ 0 \in 0..n
  OBVIOUS
<1> HIDE DEF n
<1> DEFINE more == [i \in 0..n |-> other[i] - one[i]]
<1>4. ASSUME NEW i \in 1..n, more[i - 1] \in Nat PROVE more[i] \in Nat
  <2>1. i \in 0..n /\ i - 1 \in 0..n /\ one[i - 1] \in Nat /\ other[i - 1] \in Nat
    BY <1>3
  <2>2. a[i] \in Nat /\ b[i] \in Nat /\ a[i] <= b[i]
    BY <1>3 DEF n
  <2>3. other[i - 1] - one[i - 1] \in Nat
    BY <1>4, <2>1
  <2>4. one[i] = one[i - 1] + a[i] /\ other[i] = other[i - 1] + b[i]
    BY <1>1, <1>2
  <2>5. PICK x \in Nat, y \in Nat : x = one[i - 1] /\ y = other[i - 1] /\ y - x \in Nat
    BY <2>1, <2>3
  <2>6. other[i] - one[i] \in Nat
    <3>1. (y + b[i]) - (x + a[i]) \in Nat
      BY <2>2, <2>5, GapStays
    <3>2. QED  BY <2>4, <2>5, <3>1
  <2>7. QED  BY <2>1, <2>6
<1>5. more[0] \in Nat
  BY <1>1, <1>2, <1>3
<1> HIDE DEF more
<1>6. more[n] \in Nat
  BY <1>3, <1>4, <1>5, StepByStep
<1>7. other[n] - one[n] \in Nat /\ other[n] \in Nat /\ one[n] \in Nat
  BY <1>3, <1>6 DEF more
<1>8. QED  BY <1>1, <1>2, <1>7 DEF n

\* A sum with values in some places only.
LEMMA SumBounded ==
  ASSUME NEW a \in Seq(Nat), NEW most \in Nat, NEW I \in SUBSET (1..Len(a)),
         \A i \in 1..Len(a) : a[i] <= most /\ (i \notin I => a[i] = 0)
  PROVE  SumOf(a) <= most * Cardinality(I)
<1> DEFINE n == Len(a)
           Upto(i) == I \cap (1..i)
<1>1. PICK total \in [0..n -> Nat] :
        /\ total[0] = 0 /\ SumOf(a) = total[n]
        /\ \A i \in 1..n : total[i] = total[i - 1] + a[i]
  BY SumSteps
<1>2. n \in Nat /\ (\A i \in 1..n : a[i] \in Nat) /\ n \in 0..n /\ 0 \in 0..n
  OBVIOUS
<1>3. \A i \in Nat : IsFiniteSet(Upto(i)) /\ Cardinality(Upto(i)) \in Nat
  <2>1. ASSUME NEW i \in Nat PROVE IsFiniteSet(Upto(i)) /\ Cardinality(Upto(i)) \in Nat
    <3>1. IsFiniteSet(1..i) /\ Upto(i) \in SUBSET (1..i)
      BY FS_Interval
    <3>2. QED  BY <3>1, FS_Subset, FS_CardinalityType
  <2>2. QED  BY <2>1
<1> DEFINE left == [i \in 0..n |-> most * Cardinality(Upto(i)) - total[i]]
<1>4. ASSUME NEW i \in 1..n, left[i - 1] \in Nat PROVE left[i] \in Nat
  <2> DEFINE c == Cardinality(Upto(i - 1))
             d == Cardinality(Upto(i))
  <2>1. /\ i \in 0..n /\ i - 1 \in 0..n /\ i - 1 \in Nat /\ i \in Nat
        /\ total[i - 1] \in Nat /\ total[i] \in Nat /\ a[i] \in Nat /\ a[i] <= most
    <3>1. i \in 0..n /\ i - 1 \in 0..n /\ i - 1 \in Nat /\ i \in Nat
      BY <1>2
    <3>2. a[i] \in Nat /\ a[i] <= most
      BY <1>2
    <3> HIDE DEF n
    <3>3. QED  BY <3>1, <3>2
  <2>2. c \in Nat /\ d \in Nat /\ IsFiniteSet(Upto(i - 1))
    BY <1>3, <2>1
  <2>3. total[i] = total[i - 1] + a[i]
    BY <1>1
  <2>4. most * c - total[i - 1] \in Nat
    BY <1>4, <2>1
  <2>5. CASE i \in I
    <3>1. Upto(i) = Upto(i - 1) \cup {i} /\ i \notin Upto(i - 1)
      BY <2>1, <2>5
    <3> HIDE DEF Upto
    <3>2. d = c + 1
      BY <2>2, <3>1, FS_AddElement
    <3> HIDE DEF c, d
    <3>3. most * d = most * c + most /\ most * c \in Nat /\ most * d \in Nat
      BY <2>2, <3>2
    <3>4. PICK x \in Nat, y \in Nat : x = total[i - 1] /\ y = most * c /\ y - x \in Nat
      BY <2>1, <2>4, <3>3 DEF c
    <3>5. most * d - total[i] \in Nat
      <4>1. (y + most) - (x + a[i]) \in Nat
        BY <2>1, <3>4, GapStays
      <4>2. QED  BY <2>3, <3>3, <3>4, <4>1
    <3>6. QED  BY <2>1, <3>5 DEF d
  <2>6. CASE i \notin I
    <3>1. Upto(i) = Upto(i - 1) /\ a[i] = 0
      BY <2>1, <2>6
    <3> HIDE DEF Upto
    <3>2. most * d - total[i] \in Nat
      BY <2>1, <2>3, <2>4, <3>1
    <3>3. QED  BY <2>1, <3>2
  <2>7. QED  BY <2>5, <2>6
<1> HIDE DEF n
<1>5. left[0] \in Nat
  <2>1. Upto(0) = {}
    OBVIOUS
  <2>2. Cardinality(Upto(0)) = 0
    BY <2>1, FS_EmptySet
  <2> HIDE DEF Upto
  <2>3. QED  BY <1>1, <1>2, <2>2
<1> HIDE DEF left
<1>6. left[n] \in Nat
  BY <1>2, <1>4, <1>5, StepByStep
<1>7. Upto(n) = I
  BY DEF n
<1>8. most * Cardinality(I) - total[n] \in Nat /\ total[n] \in Nat /\ Cardinality(I) \in Nat
  BY <1>2, <1>3, <1>6, <1>7 DEF left
<1>9. QED  BY <1>1, <1>8
-----------------------------------------------------------------------------
(* Rankings                                                                *)

LEMMA LesserOfTwo ==
  ASSUME NEW a \in Nat, NEW b \in Nat
  PROVE  Min({a, b}) = IF a <= b THEN a ELSE b
<1>1. {a, b} \in SUBSET Nat /\ {a, b} # {}
  OBVIOUS
<1>2. Min({a, b}) \in {a, b} /\ Min({a, b}) <= a /\ Min({a, b}) <= b
  BY <1>1, LeastExists
<1>3. QED  BY <1>2

\* The beginning of a sequence.
LEMMA FirstOnes ==
  ASSUME NEW S, NEW s \in Seq(S), NEW k \in Nat
  PROVE  LET n == Min({k, Len(s)})
             cut == SubSeq(s, 1, n)
         IN  /\ n \in Nat /\ n <= Len(s) /\ n <= k /\ (n = k \/ n = Len(s))
             /\ cut \in Seq(S) /\ Len(cut) = n
             /\ \A i \in 1..n : cut[i] = s[i]
<1> DEFINE n == Min({k, Len(s)})
<1>1. Len(s) \in Nat
  OBVIOUS
<1>2. n \in Nat /\ n <= Len(s) /\ n <= k /\ (n = k \/ n = Len(s))
  BY <1>1, LesserOfTwo
<1> HIDE DEF n
<1> DEFINE cut == SubSeq(s, 1, n)
<1>3. cut \in Seq(S) /\ Len(cut) = n /\ \A i \in 1..n : cut[i] = s[i]
  BY <1>1, <1>2
<1> HIDE DEF cut
<1>4. QED  BY <1>2, <1>3 DEF n, cut

\* The fold of RankDocuments keeps one entry per document.
LEMMA RankedDocuments ==
  ASSUME NEW S, NEW candidates \in Seq(S)
  PROVE  /\ RankDocuments(candidates) \in Seq(S)
         /\ Len(RankDocuments(candidates)) <= TopK
         /\ IsInjective(RankDocuments(candidates))
<1> DEFINE cut == SubSeq(candidates, 1, Min({TopK, Len(candidates)}))
           n == Len(cut)
           Add(ranked, document) == IF Contains(ranked, document) THEN ranked
                                    ELSE Append(ranked, document)
           Body(it, s) == IF s = {} THEN <<>> ELSE LET x == Max(s) IN Add(it[s \ {x}], cut[x])
           fold == CHOOSE it : it = [s \in SUBSET DOMAIN cut |-> Body(it, s)]
           step == [p \in (1..n) \X Seq(S) |-> Add(p[2], cut[p[1]])]
<1>1. RankDocuments(candidates) = fold[DOMAIN cut]
  BY Zenon DEF RankDocuments, FoldLeft, MapThenFoldSet
<1>2. /\ cut \in Seq(S) /\ n \in Nat /\ n <= TopK /\ TopK \in Nat
      /\ DOMAIN cut = 1..n /\ \A i \in 1..n : cut[i] \in S
  <2>1. TopK \in Nat
    BY RetrievalScoringAssumption
  <2>2. cut \in Seq(S) /\ n <= TopK
    BY <2>1, FirstOnes
  <2> HIDE DEF cut
  <2>3. QED  BY <2>1, <2>2
<1> HIDE DEF cut
<1>3. \A ranked \in Seq(S), document \in S : Add(ranked, document) \in Seq(S)
  OBVIOUS
<1> HIDE DEF n, Add
<1>4. step \in [(1..n) \X Seq(S) -> Seq(S)]
  BY <1>2, <1>3
<1>5. PICK f : IsFold(f, n, Seq(S), <<>>, step)
  <2>1. <<>> \in Seq(S)
    OBVIOUS
  <2> HIDE DEF step
  <2>2. QED  BY <1>2, <1>4, <2>1, FoldExists
<1>6. ASSUME NEW s \in SUBSET (1..n) PROVE f[s] = Body(f, s)
  <2>1. CASE s = {}
    BY <1>5, <2>1 DEF IsFold
  <2>2. CASE s # {}
    <3>1. Max(s) \in 1..n
      BY <1>2, <2>2, GreatestExists
    <3>2. f[s \ {Max(s)}] \in Seq(S)
      BY <1>5 DEF IsFold
    <3>3. step[<<Max(s), f[s \ {Max(s)}]>>] = Add(f[s \ {Max(s)}], cut[Max(s)])
      BY <3>1, <3>2
    <3> HIDE DEF step
    <3>4. f[s] = step[<<Max(s), f[s \ {Max(s)}]>>]
      BY <1>5, <2>2 DEF IsFold
    <3>5. QED  BY <2>2, <3>3, <3>4
  <2>3. QED  BY <2>1, <2>2
<1>7. f = [s \in SUBSET DOMAIN cut |-> Body(f, s)]
  <2> HIDE DEF Body, step
  <2>1. f = [s \in SUBSET (1..n) |-> f[s]]
    BY <1>5 DEF IsFold
  <2>2. QED  BY <1>2, <1>6, <2>1
<1>8. fold = [s \in SUBSET DOMAIN cut |-> Body(fold, s)]
  <2> HIDE DEF Body, step
  <2>1. QED  BY <1>7
<1> HIDE DEF fold, step
<1> DEFINE Ranked == {r \in Seq(S) : IsInjective(r)}
           Counted == [i \in 0..n |-> <<i, fold[1..i]>>]
           Lists == {p \in (0..n) \X Ranked : Len(p[2]) <= p[1]}
<1>9. fold[{}] = <<>>
  <2>1. {} \in SUBSET DOMAIN cut
    OBVIOUS
  <2>2. QED  BY <1>8, <2>1
<1>10. ASSUME NEW i \in 1..n PROVE fold[1..i] = Add(fold[1..(i - 1)], cut[i])
  <2>1. i \in Nat \ {0} /\ i \in 1..i /\ 1..i \in SUBSET (1..n)
    BY <1>2
  <2>2. Max(1..i) = i /\ (1..i) \ {i} = 1..(i - 1)
    BY <2>1, LastOfInterval
  <2>3. fold[1..i] = Body(fold, 1..i)
    <3> HIDE DEF Body
    <3>1. QED  BY <1>2, <1>8, <2>1
  <2>4. 1..i # {}
    BY <2>1
  <2>5. QED  BY <2>2, <2>3, <2>4
<1>11. ASSUME NEW r \in Ranked, NEW document \in S
       PROVE  /\ Add(r, document) \in Ranked
              /\ Len(Add(r, document)) \in Nat /\ Len(Add(r, document)) <= Len(r) + 1
  <2>1. CASE Contains(r, document)
    BY <2>1 DEF Add
  <2>2. CASE ~Contains(r, document)
    <3> DEFINE more == Append(r, document)
    <3>1. /\ more \in Seq(S) /\ Len(more) = Len(r) + 1 /\ Len(r) \in Nat
          /\ more[Len(r) + 1] = document /\ (\A i \in 1..Len(r) : more[i] = r[i])
          /\ DOMAIN more = 1..(Len(r) + 1) /\ DOMAIN r = 1..Len(r)
      OBVIOUS
    <3>2. \A i \in 1..Len(r) : r[i] # document
      BY <2>2 DEF Contains
    <3>3. \A i, j \in 1..Len(r) : r[i] = r[j] => i = j
      BY <3>1 DEF IsInjective
    <3> HIDE DEF more
    <3>4. ASSUME NEW i \in DOMAIN more, NEW j \in DOMAIN more, more[i] = more[j] PROVE i = j
      <4>1. i \in 1..Len(r) \/ i = Len(r) + 1
        BY <3>1
      <4>2. j \in 1..Len(r) \/ j = Len(r) + 1
        BY <3>1
      <4>3. QED  BY <3>1, <3>2, <3>3, <3>4, <4>1, <4>2
    <3>5. IsInjective(more)
      BY <3>4 DEF IsInjective
    <3>6. Add(r, document) = more
      BY <2>2 DEF Add, more
    <3>7. QED  BY <3>1, <3>5, <3>6
  <2>3. QED  BY <2>1, <2>2
<1>12. Counted[0] \in Lists
  <2>1. 1..0 = {} /\ 0 \in 0..n /\ <<>> \in Seq(S) /\ Len(<<>>) = 0
    BY <1>2
  <2>2. <<>> \in Ranked
    BY <2>1 DEF IsInjective
  <2>3. Counted[0] = <<0, <<>>>>
    BY <1>9, <2>1
  <2> HIDE DEF Ranked, Counted
  <2>4. <<0, <<>>>> \in Lists
    BY <2>1, <2>2
  <2>5. QED  BY <2>3, <2>4
<1>13. ASSUME NEW i \in 1..n, Counted[i - 1] \in Lists PROVE Counted[i] \in Lists
  <2>1. i \in 0..n /\ i - 1 \in 0..n /\ i - 1 \in Nat
    BY <1>2
  <2> DEFINE r == fold[1..(i - 1)]
  <2>2. r \in Ranked /\ Len(r) <= i - 1 /\ Len(r) \in Nat
    <3>1. Counted[i - 1] = <<i - 1, r>>
      BY <2>1
    <3>2. <<i - 1, r>> \in Lists
      BY <1>13, <3>1
    <3>3. r \in Ranked /\ Len(r) <= i - 1
      BY <3>2
    <3>4. QED  BY <3>3
  <2> HIDE DEF r, Ranked
  <2>3. /\ Add(r, cut[i]) \in Ranked
        /\ Len(Add(r, cut[i])) \in Nat /\ Len(Add(r, cut[i])) <= Len(r) + 1
    BY <1>2, <1>11, <2>2
  <2>4. Counted[i] = <<i, Add(r, cut[i])>>
    BY <1>10, <2>1 DEF r
  <2>5. Len(Add(r, cut[i])) <= i
    BY <2>1, <2>2, <2>3
  <2>6. QED  BY <2>1, <2>3, <2>4, <2>5
<1>14. n \in 0..n /\ 0 \in 0..n
  BY <1>2
<1>15. Counted[n] \in Lists
  <2> HIDE DEF Counted, Lists
  <2>1. QED  BY <1>2, <1>12, <1>13, <1>14, StepByStep
<1>16. fold[1..n] \in Ranked /\ Len(fold[1..n]) <= n
  <2>1. <<n, fold[1..n]>> \in Lists
    BY <1>14, <1>15
  <2> HIDE DEF Ranked
  <2>2. QED  BY <2>1
<1>17. RankDocuments(candidates) = fold[1..n]
  BY <1>1, <1>2
<1>18. Len(fold[1..n]) <= TopK
  <2>1. Len(fold[1..n]) \in Nat
    BY <1>16
  <2>2. QED  BY <1>2, <1>16, <2>1
<1>19. QED  BY <1>16, <1>17, <1>18

\* A rank is the place of the first relevant document.
LEMMA RankMeans ==
  ASSUME NEW S, NEW ranked \in Seq(S), NEW required
  PROVE  LET rank == FirstRelevantRank(ranked, required)
         IN  /\ rank \in Nat /\ rank <= Len(ranked)
             /\ \A i \in 1..Len(ranked) : ranked[i] \in required => rank # 0 /\ rank <= i
<1> DEFINE I == {i \in 1..Len(ranked) : ranked[i] \in required}
           rank == FirstRelevantRank(ranked, required)
<1>1. rank = IF I # {} THEN Min(I) ELSE 0
  BY DEF FirstRelevantRank, SelectInSeq
<1>2. I \in SUBSET Nat /\ Len(ranked) \in Nat /\ \A i \in I : i \in 1..Len(ranked)
  OBVIOUS
<1>3. I # {} => Min(I) \in I /\ \A i \in I : Min(I) <= i
  BY <1>2, LeastExists
<1>4. \A i \in 1..Len(ranked) : ranked[i] \in required => i \in I
  OBVIOUS
<1> HIDE DEF I, rank
<1>5. rank \in Nat /\ rank <= Len(ranked)
  <2>1. CASE I # {}
    <3>1. rank \in 1..Len(ranked)
      BY <1>1, <1>2, <1>3, <2>1
    <3>2. QED  BY <1>2, <3>1
  <2>2. CASE I = {}
    BY <1>1, <1>2, <2>2
  <2>3. QED  BY <2>1, <2>2
<1>6. ASSUME NEW i \in 1..Len(ranked), ranked[i] \in required PROVE rank # 0 /\ rank <= i
  <2>1. i \in I
    BY <1>4, <1>6
  <2>2. rank \in 1..Len(ranked) /\ rank <= i
    BY <1>1, <1>2, <1>3, <2>1
  <2>3. QED  BY <2>2
<1>7. QED  BY <1>5, <1>6 DEF rank

\* Three parts that do not overlap and leave nothing out.
LEMMA ThreeParts ==
  ASSUME NEW n \in Nat, NEW A \in SUBSET (1..n), NEW B \in SUBSET (1..n), NEW C \in SUBSET (1..n),
         A \cap B = {}, A \cap C = {}, B \cap C = {}, \A i \in 1..n : i \in A \/ i \in B \/ i \in C
  PROVE  Cardinality(A) + Cardinality(B) + Cardinality(C) = n
<1>1. IsFiniteSet(1..n) /\ Cardinality(1..n) = n
  <2>1. IsFiniteSet(1..n) /\ Cardinality(1..n) = IF 1 > n THEN 0 ELSE n - 1 + 1
    BY FS_Interval
  <2>2. QED  BY <2>1
<1>2. IsFiniteSet(A) /\ IsFiniteSet(B) /\ IsFiniteSet(C)
  BY <1>1, FS_Subset
<1>3. Cardinality(A) \in Nat /\ Cardinality(B) \in Nat /\ Cardinality(C) \in Nat
  BY <1>2, FS_CardinalityType
<1>4. IsFiniteSet(A \cup B) /\ Cardinality(A \cup B) = Cardinality(A) + Cardinality(B)
  <2>1. Cardinality(A \cap B) = 0
    BY FS_EmptySet
  <2>2. IsFiniteSet(A \cup B) /\ Cardinality(A \cup B)
                                  = Cardinality(A) + Cardinality(B) - Cardinality(A \cap B)
    BY <1>2, FS_Union
  <2>3. QED  BY <1>3, <2>1, <2>2
<1>5. Cardinality((A \cup B) \cup C) = Cardinality(A \cup B) + Cardinality(C)
  <2>1. Cardinality((A \cup B) \cap C) = 0
    <3>1. (A \cup B) \cap C = {}
      OBVIOUS
    <3>2. QED  BY <3>1, FS_EmptySet
  <2>2. Cardinality((A \cup B) \cup C)
           = Cardinality(A \cup B) + Cardinality(C) - Cardinality((A \cup B) \cap C)
    BY <1>2, <1>4, FS_Union
  <2>3. Cardinality(A \cup B) \in Nat
    BY <1>3, <1>4
  <2>4. QED  BY <1>3, <2>1, <2>2, <2>3
<1>6. (A \cup B) \cup C = 1..n
  OBVIOUS
<1>7. QED  BY <1>1, <1>3, <1>4, <1>5, <1>6

\* Division by more gives no more.
LEMMA DivideByMore ==
  ASSUME NEW s \in Nat, NEW a \in Nat \ {0}, NEW b \in Nat \ {0}, a <= b
  PROVE  s \div b \in Nat /\ s \div b <= s \div a
<1> DEFINE x == s \div b
           y == s \div a
<1>1. x \in Nat /\ b * x <= s
  OBVIOUS
<1>2. y \in Nat /\ s < a * (y + 1)
  OBVIOUS
<1> HIDE DEF x, y
<1>3. a * x <= b * x
  BY <1>1
<1>4. a * x < a * (y + 1)
  BY <1>1, <1>2, <1>3
<1>5. x < y + 1
  BY <1>1, <1>2, <1>4
<1>6. QED  BY <1>1, <1>2, <1>5 DEF x, y

\* A part of the whole is no more than the whole.
LEMMA DivideAPart ==
  ASSUME NEW u \in Nat, NEW part \in Nat, NEW whole \in Nat \ {0}, part <= whole
  PROVE  /\ (u * part) \div whole \in Nat /\ (u * part) \div whole <= u
         /\ part = 0 => (u * part) \div whole = 0
<1> DEFINE s == u * part
           x == s \div whole
<1>1. s \in Nat /\ s <= u * whole /\ (part = 0 => s = 0)
  OBVIOUS
<1> HIDE DEF s
<1>2. x \in Nat /\ whole * x <= s
  BY <1>1
<1> HIDE DEF x
<1>3. whole * x <= whole * u
  BY <1>1, <1>2
<1>4. x <= u
  BY <1>2, <1>3
<1>5. s = 0 => x = 0
  <2>1. ASSUME s = 0 PROVE x = 0
    <3>1. whole * x <= 0
      BY <1>2, <2>1
    <3>2. QED  BY <1>2, <3>1
  <2>2. QED  BY <2>1
<1>6. QED  BY <1>1, <1>2, <1>4, <1>5 DEF s, x

-----------------------------------------------------------------------------
(* Cases and metrics                                                       *)

Rankings == {ranked \in Seq(FoundDocuments) : Len(ranked) <= TopK /\ IsInjective(ranked)}

CaseRecords ==
  [query_id : ToSet(RagSamples), off : Rankings, on : Rankings \cup {None},
   retrieval_error : {None, "failed"}, rerank_attempted : BOOLEAN]

\* A case that the validator of FullRetrievalCaseResult accepts.
GoodCases ==
  {case \in CaseRecords : /\ case.retrieval_error # None => case.off = <<>> /\ ~case.rerank_attempted
                          /\ case.rerank_attempted => case.on \in Rankings}

LEMMA NothingIsARanking ==
  /\ <<>> \in Rankings
  /\ None \notin Rankings
  /\ TopK \in Nat
<1>1. TopK \in Nat \ {0} /\ None \notin Seq(FoundDocuments)
  BY RetrievalScoringAssumption, CandidatesAssumption
<1>2. <<>> \in Seq(FoundDocuments) /\ Len(<<>>) = 0 /\ DOMAIN <<>> = {}
  OBVIOUS
<1>3. IsInjective(<<>>)
  BY <1>2 DEF IsInjective
<1>4. QED  BY <1>1, <1>2, <1>3 DEF Rankings

LEMMA GoodCaseMeans ==
  ASSUME NEW case \in GoodCases
  PROVE  /\ case.query_id \in ToSet(RagSamples)
         /\ case.off \in Rankings /\ OnRanking(case) \in Rankings
         /\ CaseIsValid(case)
         /\ case.rerank_attempted \in BOOLEAN
<1>1. /\ case.query_id \in ToSet(RagSamples) /\ case.off \in Rankings
      /\ case.on \in Rankings \cup {None} /\ case.rerank_attempted \in BOOLEAN
  BY DEF GoodCases, CaseRecords
<1>2. OnRanking(case) \in Rankings
  BY <1>1, NothingIsARanking DEF OnRanking
<1>3. CaseIsValid(case)
  <2>1. /\ case.retrieval_error # None => case.off = <<>> /\ ~case.rerank_attempted
        /\ case.rerank_attempted => case.on # None
    BY NothingIsARanking DEF GoodCases
  <2>2. QED  BY <1>1, <1>2, <2>1 DEF CaseIsValid, Rankings
<1>4. QED  BY <1>1, <1>2, <1>3

\* The rank of a relevant document among those scored.
LEMMA RankType ==
  ASSUME NEW ranked \in Rankings, NEW required
  PROVE  LET rank == FirstRelevantRank(ranked, required)
         IN  /\ rank \in Nat /\ rank <= TopK
             /\ \A i \in 1..Len(ranked) : ranked[i] \in required => rank # 0 /\ rank <= i
<1>1. ranked \in Seq(FoundDocuments) /\ Len(ranked) <= TopK /\ Len(ranked) \in Nat /\ TopK \in Nat
  BY NothingIsARanking DEF Rankings
<1> DEFINE rank == FirstRelevantRank(ranked, required)
<1>2. /\ rank \in Nat /\ rank <= Len(ranked)
      /\ \A i \in 1..Len(ranked) : ranked[i] \in required => rank # 0 /\ rank <= i
  BY <1>1, RankMeans
<1> HIDE DEF rank
<1>3. QED  BY <1>1, <1>2 DEF rank

\* Where each rank is at least as good, no hit rate and no reciprocal rank is lower.
LEMMA BetterRanksBetterMetrics ==
  ASSUME NEW cases \in Seq(GoodCases),
         NEW better \in [DOMAIN cases -> Rankings], NEW worse \in [DOMAIN cases -> Rankings],
         \A i \in DOMAIN cases :
           ~Better(FirstRelevantRank(worse[i], Required[cases[i].query_id]),
                   FirstRelevantRank(better[i], Required[cases[i].query_id]))
  PROVE  /\ Metrics(cases, better).mrr >= Metrics(cases, worse).mrr
         /\ \A k \in 1..TopK : Metrics(cases, better).hit_at[k] >= Metrics(cases, worse).hit_at[k]
<1> DEFINE n == Len(cases)
           Ranks(rankings) == [i \in DOMAIN cases |->
                                 FirstRelevantRank(rankings[i], Required[cases[i].query_id])]
           b == Ranks(better)
           w == Ranks(worse)
           Value(rank) == IF rank \in 1..TopK THEN Unit \div rank ELSE 0
           Values(ranks) == [i \in DOMAIN ranks |-> IF ranks[i] \in 1..TopK THEN Unit \div ranks[i] ELSE 0]
<1>1. n \in Nat /\ DOMAIN cases = 1..n /\ Unit \in Nat /\ TopK \in Nat
  BY RetrievalScoringAssumption
<1>2. /\ Metrics(cases, better).mrr = SumOf(Values(b)) /\ Metrics(cases, worse).mrr = SumOf(Values(w))
      /\ \A k \in 1..TopK : /\ Metrics(cases, better).hit_at[k] = HitAt(b, k)
                            /\ Metrics(cases, worse).hit_at[k] = HitAt(w, k)
  BY DEF Metrics
<1>3. ASSUME NEW i \in 1..n
      PROVE  /\ b[i] \in Nat /\ b[i] <= TopK /\ w[i] \in Nat /\ w[i] <= TopK
             /\ ~Better(w[i], b[i])
  <2>1. i \in DOMAIN cases /\ better[i] \in Rankings /\ worse[i] \in Rankings
    BY <1>1, <1>3
  <2>2. /\ b[i] = FirstRelevantRank(better[i], Required[cases[i].query_id])
        /\ w[i] = FirstRelevantRank(worse[i], Required[cases[i].query_id])
    BY <2>1
  <2>3. QED  BY <2>1, <2>2, RankType
<1>4. DOMAIN b = 1..n /\ DOMAIN w = 1..n
  BY <1>1
<1> HIDE DEF b, w, n
<1>5. ASSUME NEW i \in 1..n
      PROVE  w[i] = 0 \/ (b[i] \in 1..TopK /\ w[i] \in 1..TopK /\ b[i] <= w[i])
  <2>1. b[i] \in Nat /\ w[i] \in Nat /\ w[i] <= TopK
    BY <1>3
  <2>2. w[i] = 0 \/ (b[i] # 0 /\ ~(w[i] < b[i]))
    BY <1>3 DEF Better
  <2>3. QED  BY <1>1, <2>1, <2>2
<1>6. \A rank \in Nat : Value(rank) \in Nat
  <2>1. ASSUME NEW rank \in 1..TopK PROVE Unit \div rank \in Nat
    <3>1. rank \in Nat \ {0} /\ rank <= rank
      BY <1>1
    <3> HIDE DEF Value, Values
    <3>2. QED  BY <1>1, <3>1, DivideByMore
  <2>2. QED  BY <2>1
<1>7. ASSUME NEW i \in 1..n PROVE Value(w[i]) <= Value(b[i])
  <2>1. Value(b[i]) \in Nat /\ Value(w[i]) \in Nat
    BY <1>3, <1>6
  <2>2. CASE w[i] = 0
    <3>1. Value(w[i]) = 0
      BY <2>2
    <3> HIDE DEF Value
    <3>2. QED  BY <2>1, <3>1
  <2>3. CASE w[i] # 0
    <3>1. b[i] \in 1..TopK /\ w[i] \in 1..TopK /\ b[i] <= w[i]
      BY <1>5, <2>3
    <3>2. b[i] \in Nat \ {0} /\ w[i] \in Nat \ {0}
      BY <1>1, <3>1
    <3>3. Unit \div w[i] <= Unit \div b[i]
      BY <1>1, <3>1, <3>2, DivideByMore
    <3>4. QED  BY <3>1, <3>3
  <2>4. QED  BY <2>2, <2>3
<1>8. SumOf(Values(w)) <= SumOf(Values(b)) /\ SumOf(Values(w)) \in Nat /\ SumOf(Values(b)) \in Nat
  <2>1. ASSUME NEW ranks, DOMAIN ranks = 1..n, \A i \in 1..n : ranks[i] \in Nat
        PROVE  /\ Values(ranks) \in Seq(Nat) /\ Len(Values(ranks)) = n
               /\ \A i \in 1..n : Values(ranks)[i] = Value(ranks[i])
               /\ SumOf(Values(ranks)) \in Nat
    <3>1. Values(ranks) = [i \in 1..n |-> Value(ranks[i])]
      BY <2>1
    <3>2. \A i \in 1..n : Value(ranks[i]) \in Nat
      BY <1>6, <2>1
    <3> HIDE DEF Value, Values
    <3>3. Values(ranks) \in Seq(Nat) /\ Len(Values(ranks)) = n
      BY <1>1, <3>1, <3>2
    <3>4. SumOf(Values(ranks)) \in Nat
      <4>1. PICK total \in [0..n -> Nat] : SumOf(Values(ranks)) = total[n]
        BY <3>3, SumSteps
      <4>2. n \in 0..n
        BY <1>1
      <4>3. QED  BY <4>1, <4>2
    <3>5. QED  BY <3>1, <3>3, <3>4
  <2>2. (\A i \in 1..n : b[i] \in Nat) /\ (\A i \in 1..n : w[i] \in Nat)
    BY <1>3
  <2> HIDE DEF Value, Values
  <2>3. \A i \in 1..n : Values(w)[i] <= Values(b)[i]
    BY <1>4, <1>7, <2>1, <2>2
  <2>4. QED  BY <1>4, <2>1, <2>2, <2>3, SumMonotone
<1>9. ASSUME NEW k \in 1..TopK
      PROVE  HitAt(b, k) \in Nat /\ HitAt(w, k) \in Nat /\ HitAt(w, k) <= HitAt(b, k)
  <2> DEFINE B == {i \in DOMAIN b : b[i] \in 1..k}
             W == {i \in DOMAIN w : w[i] \in 1..k}
  <2>1. IsFiniteSet(1..n)
    BY <1>1, FS_Interval
  <2>2. B \in SUBSET (1..n) /\ W \in SUBSET B
    <3>1. ASSUME NEW i \in 1..n, w[i] \in 1..k PROVE b[i] \in 1..k
      <4>1. b[i] \in 1..TopK /\ b[i] <= w[i]
        BY <1>5, <3>1
      <4>2. QED  BY <1>1, <3>1, <4>1
    <3>2. QED  BY <1>4, <3>1
  <2> HIDE DEF B, W
  <2>3. IsFiniteSet(B)
    BY <2>1, <2>2, FS_Subset
  <2>4. IsFiniteSet(W) /\ Cardinality(W) <= Cardinality(B)
    BY <2>2, <2>3, FS_Subset
  <2>5. Cardinality(B) \in Nat /\ Cardinality(W) \in Nat
    BY <2>3, <2>4, FS_CardinalityType
  <2>6. QED  BY <2>4, <2>5 DEF HitAt, B, W
<1> HIDE DEF Values
<1>10. QED  BY <1>2, <1>8, <1>9

\* The recall of a case without a hit is nothing, and no case has more than all.
LEMMA RecallNeedsHits ==
  ASSUME NEW cases \in Seq(GoodCases), NEW rankings \in [DOMAIN cases -> Rankings],
         NEW k \in 1..TopK
  PROVE  Metrics(cases, rankings).recall_at[k] <= Unit * Metrics(cases, rankings).hit_at[k]
<1> DEFINE n == Len(cases)
           Needed(i) == Required[cases[i].query_id]
           Cut(i) == SubSeq(rankings[i], 1, Min({k, Len(rankings[i])}))
           Part(i) == ToSet(Cut(i)) \cap Needed(i)
           Value(i) == (Unit * Cardinality(Part(i))) \div Cardinality(Needed(i))
           values == [i \in DOMAIN cases |-> Value(i)]
           ranks == [i \in DOMAIN cases |-> FirstRelevantRank(rankings[i], Needed(i))]
           Hits == {i \in DOMAIN ranks : ranks[i] \in 1..k}
<1>1. n \in Nat /\ DOMAIN cases = 1..n /\ Unit \in Nat /\ TopK \in Nat /\ k \in Nat
  BY RetrievalScoringAssumption
<1>2. /\ Metrics(cases, rankings).recall_at[k] = SumOf(values)
      /\ Metrics(cases, rankings).hit_at[k] = Cardinality(Hits)
  BY Zenon DEF Metrics, RecallAt, HitAt
<1>3. ASSUME NEW i \in 1..n
      PROVE  /\ IsFiniteSet(Needed(i)) /\ Cardinality(Needed(i)) \in Nat \ {0}
             /\ IsFiniteSet(Part(i)) /\ Cardinality(Part(i)) \in Nat
             /\ Cardinality(Part(i)) <= Cardinality(Needed(i))
  <2>1. cases[i].query_id \in ToSet(RagSamples)
    BY <1>1, GoodCaseMeans
  <2>2. IsFiniteSet(Needed(i)) /\ Needed(i) # {}
    BY <2>1, RetrievalScoringAssumption
  <2>3. Part(i) \in SUBSET Needed(i)
    OBVIOUS
  <2> HIDE DEF Part, Needed
  <2>4. Cardinality(Needed(i)) \in Nat /\ Cardinality(Needed(i)) # 0
    BY <2>2, FS_CardinalityType, FS_EmptySet
  <2>5. IsFiniteSet(Part(i)) /\ Cardinality(Part(i)) <= Cardinality(Needed(i))
    BY <2>2, <2>3, FS_Subset
  <2>6. QED  BY <2>2, <2>4, <2>5, FS_CardinalityType
<1>4. ASSUME NEW i \in 1..n, i \notin Hits PROVE Part(i) = {}
  <2>1. rankings[i] \in Rankings /\ i \in DOMAIN cases
    BY <1>1
  <2>2. ~(FirstRelevantRank(rankings[i], Needed(i)) \in 1..k)
    BY <1>4, <2>1
  <2>3. rankings[i] \in Seq(FoundDocuments) /\ Len(rankings[i]) \in Nat
    BY <2>1 DEF Rankings
  <2> DEFINE m == Min({k, Len(rankings[i])})
  <2>4. /\ m \in Nat /\ m <= k /\ m <= Len(rankings[i])
        /\ Len(Cut(i)) = m /\ Cut(i) \in Seq(FoundDocuments)
        /\ \A j \in 1..m : Cut(i)[j] = rankings[i][j]
    BY <1>1, <2>3, FirstOnes
  <2> HIDE DEF m, Needed
  <2>5. ASSUME NEW j \in 1..m, rankings[i][j] \in Needed(i) PROVE FALSE
    <3>1. j \in 1..Len(rankings[i]) /\ j \in Nat /\ j <= k
      BY <1>1, <2>3, <2>4
    <3> DEFINE rank == FirstRelevantRank(rankings[i], Needed(i))
    <3>2. rank \in Nat /\ rank # 0 /\ rank <= j
      BY <2>1, <2>5, <3>1, RankType
    <3> HIDE DEF rank
    <3>3. rank \in 1..k
      BY <1>1, <3>1, <3>2
    <3>4. QED  BY <2>2, <3>3 DEF rank
  <2> HIDE DEF Cut
  <2>6. ASSUME NEW document \in ToSet(Cut(i)) PROVE document \notin Needed(i)
    <3>1. PICK j \in 1..m : document = Cut(i)[j]
      BY <2>4 DEF ToSet
    <3>2. QED  BY <2>4, <2>5, <3>1
  <2>7. QED  BY <2>6
<1>5. ASSUME NEW i \in 1..n
      PROVE  /\ Value(i) \in Nat /\ Value(i) <= Unit
             /\ Cardinality(Part(i)) = 0 => Value(i) = 0
  <2> HIDE DEF Part, Needed
  <2>1. QED  BY <1>1, <1>3, DivideAPart
<1>6. ASSUME NEW i \in 1..n, i \notin Hits PROVE Value(i) = 0
  <2>1. Cardinality(Part(i)) = 0
    BY <1>4, <1>6, FS_EmptySet
  <2> HIDE DEF Value, Part, Hits
  <2>2. QED  BY <1>5, <2>1
<1>7. Hits \in SUBSET (1..n)
  BY <1>1
<1>8. values = [i \in 1..n |-> Value(i)]
  BY <1>1
<1> HIDE DEF Value, Hits, values, n
<1>9. values \in Seq(Nat) /\ Len(values) = n /\ \A i \in 1..n : values[i] = Value(i)
  <2>1. \A i \in 1..n : Value(i) \in Nat
    BY <1>5
  <2>2. values \in Seq(Nat) /\ Len(values) = n
    BY <1>1, <1>8, <2>1
  <2>3. QED  BY <1>8, <2>2
<1>10. \A i \in 1..Len(values) : values[i] <= Unit /\ (i \notin Hits => values[i] = 0)
  BY <1>5, <1>6, <1>9
<1>11. SumOf(values) <= Unit * Cardinality(Hits)
  BY <1>1, <1>7, <1>9, <1>10, SumBounded
<1>12. QED  BY <1>2, <1>11

\* Every sample is a win, a tie or a loss.
LEMMA ComparisonCountsAll ==
  ASSUME NEW cases \in Seq(GoodCases)
  PROVE  LET verdicts == Comparison(cases)
         IN  verdicts.wins + verdicts.ties + verdicts.losses = Len(cases)
<1> DEFINE n == Len(cases)
           Wins == {i \in DOMAIN cases : Better(OnRank(cases[i]), OffRank(cases[i]))}
           Ties == {i \in DOMAIN cases : OnRank(cases[i]) = OffRank(cases[i])}
           Losses == {i \in DOMAIN cases : Better(OffRank(cases[i]), OnRank(cases[i]))}
<1>1. n \in Nat /\ DOMAIN cases = 1..n
  OBVIOUS
<1>2. ASSUME NEW i \in 1..n PROVE OnRank(cases[i]) \in Nat /\ OffRank(cases[i]) \in Nat
  <2>1. cases[i].off \in Rankings /\ OnRanking(cases[i]) \in Rankings
    BY <1>1, GoodCaseMeans
  <2>2. QED  BY <2>1, RankType DEF OnRank, OffRank
<1>3. /\ Comparison(cases).wins = Cardinality(Wins) /\ Comparison(cases).ties = Cardinality(Ties)
      /\ Comparison(cases).losses = Cardinality(Losses)
  BY DEF Comparison
<1>4. /\ Wins \in SUBSET (1..n) /\ Ties \in SUBSET (1..n) /\ Losses \in SUBSET (1..n)
      /\ \A i \in 1..n : i \in Wins \/ i \in Ties \/ i \in Losses
      /\ Wins \cap Ties = {} /\ Wins \cap Losses = {} /\ Ties \cap Losses = {}
  BY <1>1, <1>2 DEF Better
<1> HIDE DEF Wins, Ties, Losses, n
<1>5. Cardinality(Wins) + Cardinality(Ties) + Cardinality(Losses) = n
  BY <1>1, <1>4, ThreeParts
<1>6. QED  BY <1>3, <1>5 DEF n

\* The cases of a run that has answered every sample.
Complete(cases) ==
  cases \in Seq(GoodCases) /\ [i \in DOMAIN cases |-> cases[i].query_id] = RagSamples

LEMMA CompleteMeans ==
  ASSUME NEW cases, Complete(cases)
  PROVE  /\ cases \in Seq(GoodCases)
         /\ Len(RagSamples) \in Nat /\ Len(cases) = Len(RagSamples)
         /\ DOMAIN cases = 1..Len(RagSamples)
         /\ \A i \in 1..Len(RagSamples) : cases[i].query_id = RagSamples[i]
<1>1. cases \in Seq(GoodCases) /\ RagSamples \in Seq(ToSet(RagSamples))
  BY RetrievalScoringAssumption DEF Complete
<1>2. Len(cases) \in Nat /\ DOMAIN cases = 1..Len(cases)
      /\ Len(RagSamples) \in Nat /\ DOMAIN RagSamples = 1..Len(RagSamples)
  BY <1>1
<1>3. DOMAIN RagSamples = DOMAIN cases /\ \A i \in DOMAIN cases : RagSamples[i] = cases[i].query_id
  <2> DEFINE ids == [i \in DOMAIN cases |-> cases[i].query_id]
  <2>1. DOMAIN ids = DOMAIN cases /\ \A i \in DOMAIN cases : ids[i] = cases[i].query_id
    OBVIOUS
  <2>2. ids = RagSamples
    BY DEF Complete
  <2> HIDE DEF ids
  <2>3. QED  BY <2>1, <2>2
<1>4. 1..Len(cases) = 1..Len(RagSamples) => Len(cases) = Len(RagSamples)
  <2>1. ASSUME NEW a \in Nat, NEW b \in Nat, 1..a = 1..b PROVE a = b
    <3>1. Cardinality(1..a) = a /\ Cardinality(1..b) = b
      <4>1. \A c \in Nat : Cardinality(1..c) = IF 1 > c THEN 0 ELSE c - 1 + 1
        BY FS_Interval
      <4>2. QED  BY <4>1
    <3>2. QED  BY <2>1, <3>1
  <2>2. QED  BY <1>2, <2>1
<1>5. QED  BY <1>1, <1>2, <1>3, <1>4

LEMMA CompleteReportsAreValid ==
  ASSUME NEW cases, Complete(cases), NEW enabled \in BOOLEAN
  PROVE  RetrievalReportIsValid(RetrievalReport(cases, enabled))
<1> DEFINE report == RetrievalReport(cases, enabled)
<1>1. /\ report.sample_count = Len(cases) /\ report.cases = cases /\ report.enabled = enabled
      /\ enabled => report.comparison = Comparison(cases)
  BY DEF RetrievalReport
<1>2. cases \in Seq(GoodCases) /\ Len(cases) = Len(RagSamples)
  BY CompleteMeans
<1>3. \A i \in DOMAIN cases : CaseIsValid(cases[i])
  BY <1>2, GoodCaseMeans
<1>4. enabled => report.comparison.wins + report.comparison.ties + report.comparison.losses
                   = report.sample_count
  BY <1>1, <1>2, ComparisonCountsAll
<1> HIDE DEF report
<1>5. QED  BY <1>1, <1>2, <1>3, <1>4 DEF RetrievalReportIsValid, report

\* The verdicts of an ON report agree with its metrics.
LEMMA VerdictsAgree ==
  ASSUME NEW cases, Complete(cases), reports["on"] = RetrievalReport(cases, TRUE)
  PROVE  ComparisonAgreesWithMetrics
<1> DEFINE Off == [i \in DOMAIN cases |-> cases[i].off]
           On == [i \in DOMAIN cases |-> OnRanking(cases[i])]
           report == reports["on"]
<1>1. /\ report.comparison = Comparison(cases)
      /\ report.off_metrics = Metrics(cases, Off) /\ report.on_metrics = Metrics(cases, On)
  BY DEF RetrievalReport
<1>2. cases \in Seq(GoodCases) /\ DOMAIN cases = 1..Len(cases) /\ Len(cases) \in Nat
  BY CompleteMeans
<1>3. Off \in [DOMAIN cases -> Rankings] /\ On \in [DOMAIN cases -> Rankings]
  BY <1>2, GoodCaseMeans
<1>4. \A i \in DOMAIN cases :
        /\ FirstRelevantRank(Off[i], Required[cases[i].query_id]) = OffRank(cases[i])
        /\ FirstRelevantRank(On[i], Required[cases[i].query_id]) = OnRank(cases[i])
  BY DEF OffRank, OnRank
<1> HIDE DEF Off, On
<1>5. ASSUME Comparison(cases).losses = 0
      PROVE  \A i \in DOMAIN cases : ~Better(OffRank(cases[i]), OnRank(cases[i]))
  <2> DEFINE Losses == {i \in DOMAIN cases : Better(OffRank(cases[i]), OnRank(cases[i]))}
  <2>1. Comparison(cases).losses = Cardinality(Losses)
    BY DEF Comparison
  <2>2. IsFiniteSet(Losses)
    <3>1. IsFiniteSet(1..Len(cases)) /\ Losses \in SUBSET (1..Len(cases))
      BY <1>2, FS_Interval
    <3>2. QED  BY <3>1, FS_Subset
  <2> HIDE DEF Losses
  <2>3. Losses = {}
    BY <1>5, <2>1, <2>2, FS_EmptySet
  <2>4. QED  BY <2>3 DEF Losses
<1>6. ASSUME Comparison(cases).wins = 0
      PROVE  \A i \in DOMAIN cases : ~Better(OnRank(cases[i]), OffRank(cases[i]))
  <2> DEFINE Wins == {i \in DOMAIN cases : Better(OnRank(cases[i]), OffRank(cases[i]))}
  <2>1. Comparison(cases).wins = Cardinality(Wins)
    BY DEF Comparison
  <2>2. IsFiniteSet(Wins)
    <3>1. IsFiniteSet(1..Len(cases)) /\ Wins \in SUBSET (1..Len(cases))
      BY <1>2, FS_Interval
    <3>2. QED  BY <3>1, FS_Subset
  <2> HIDE DEF Wins
  <2>3. Wins = {}
    BY <1>6, <2>1, <2>2, FS_EmptySet
  <2>4. QED  BY <2>3 DEF Wins
<1>7. ASSUME Comparison(cases).losses = 0
      PROVE  /\ Metrics(cases, On).mrr >= Metrics(cases, Off).mrr
             /\ \A k \in 1..TopK : Metrics(cases, On).hit_at[k] >= Metrics(cases, Off).hit_at[k]
  BY <1>2, <1>3, <1>4, <1>5, <1>7, BetterRanksBetterMetrics
<1>8. ASSUME Comparison(cases).wins = 0
      PROVE  /\ Metrics(cases, Off).mrr >= Metrics(cases, On).mrr
             /\ \A k \in 1..TopK : Metrics(cases, Off).hit_at[k] >= Metrics(cases, On).hit_at[k]
  BY <1>2, <1>3, <1>4, <1>6, <1>8, BetterRanksBetterMetrics
<1>9. \A k \in 1..TopK :
        /\ Metrics(cases, Off).recall_at[k] <= Unit * Metrics(cases, Off).hit_at[k]
        /\ Metrics(cases, On).recall_at[k] <= Unit * Metrics(cases, On).hit_at[k]
  BY <1>2, <1>3, RecallNeedsHits
<1> HIDE DEF report
<1>10. QED  BY <1>1, <1>7, <1>8, <1>9 DEF ComparisonAgreesWithMetrics, report

OffReport(cases) == RetrievalReport(cases, FALSE)
OnReport(cases) == RetrievalReport(cases, TRUE)

\* Merging a clean OFF report into an ON report leaves what the ON run measured.
LEMMA MergingKeeps ==
  ASSUME NEW one, NEW other, NEW off, NEW live, Complete(one), Complete(other),
         off = OffReport(one), live = OnReport(other), MayMerge(off, live)
  PROVE  /\ RetrievalReportIsValid(MergeReports(off, live))
         /\ MergeReports(off, live).on_metrics = live.on_metrics
         /\ MergeReports(off, live).off_metrics = off.off_metrics
         /\ MergeReports(off, live).live_calls = live.live_calls
<1> DEFINE n == Len(RagSamples)
           Pick(i) == CHOOSE case \in ToSet(one) : case.query_id = other[i].query_id
           both == [i \in DOMAIN other |-> [other[i] EXCEPT !.off = Pick(i).off]]
<1>1. /\ n \in Nat
      /\ one \in Seq(GoodCases) /\ DOMAIN one = 1..n /\ \A i \in 1..n : one[i].query_id = RagSamples[i]
      /\ other \in Seq(GoodCases) /\ DOMAIN other = 1..n /\ \A i \in 1..n : other[i].query_id = RagSamples[i]
  BY CompleteMeans
<1>2. off.cases = one /\ live.cases = other
  BY DEF OffReport, OnReport, RetrievalReport
<1>3. MergeReports(off, live) = RetrievalReport(both, TRUE)
  <2> DEFINE Merged(ours, theirs) ==
               [i \in DOMAIN theirs |->
                  [theirs[i] EXCEPT !.off =
                     (CHOOSE case \in ToSet(ours) : case.query_id = theirs[i].query_id).off]]
  <2>1. MergeReports(off, live) = RetrievalReport(Merged(off.cases, live.cases), TRUE)
    BY Zenon DEF MergeReports
  <2>2. Merged(one, other) = both
    BY Zenon
  <2> HIDE DEF Merged, both
  <2>3. QED  BY <1>2, <2>1, <2>2, Zenon
<1>4. ASSUME NEW i \in 1..n PROVE Pick(i) = one[i]
  <2>1. one[i] \in ToSet(one) /\ one[i].query_id = other[i].query_id
    BY <1>1 DEF ToSet
  <2>2. ASSUME NEW case \in ToSet(one), case.query_id = other[i].query_id PROVE case = one[i]
    <3>1. PICK j \in 1..n : case = one[j]
      BY <1>1 DEF ToSet
    <3>2. RagSamples[j] = RagSamples[i]
      BY <1>1, <2>2, <3>1
    <3>3. j = i
      <4>1. IsInjective(RagSamples) /\ DOMAIN RagSamples = 1..n
        BY RetrievalScoringAssumption
      <4>2. QED  BY <3>2, <4>1 DEF IsInjective
    <3>4. QED  BY <3>1, <3>3
  <2>3. QED  BY <2>1, <2>2
<1> HIDE DEF Pick
<1>5. ASSUME NEW i \in 1..n PROVE other[i].retrieval_error = None
  <2> DEFINE Erring == {j \in DOMAIN other : other[j].retrieval_error # None}
  <2>1. live.retrieval_failures = Cardinality(Erring) /\ live.retrieval_failures = 0
    BY DEF OffReport, OnReport, RetrievalReport, MayMerge
  <2>2. IsFiniteSet(Erring)
    <3>1. IsFiniteSet(1..n) /\ Erring \in SUBSET (1..n)
      BY <1>1, FS_Interval
    <3>2. QED  BY <3>1, FS_Subset
  <2> HIDE DEF Erring
  <2>3. Erring = {}
    BY <2>1, <2>2, FS_EmptySet
  <2>4. QED  BY <1>1, <2>3 DEF Erring
<1>6. ASSUME NEW i \in 1..n
      PROVE  /\ both[i] \in GoodCases
             /\ both[i].off = one[i].off /\ both[i].on = other[i].on
             /\ both[i].query_id = RagSamples[i]
             /\ both[i].rerank_attempted = other[i].rerank_attempted
  <2>1. other[i] \in GoodCases /\ one[i].off \in Rankings
    BY <1>1, GoodCaseMeans
  <2>2. both[i] = [other[i] EXCEPT !.off = one[i].off]
    BY <1>1, <1>4
  <2>3. other[i] \in CaseRecords
    BY <2>1 DEF GoodCases
  <2>4. /\ both[i] \in CaseRecords /\ both[i].off = one[i].off /\ both[i].on = other[i].on
        /\ both[i].query_id = other[i].query_id
        /\ both[i].rerank_attempted = other[i].rerank_attempted
        /\ both[i].retrieval_error = other[i].retrieval_error
    <3> HIDE DEF both
    <3>1. QED  BY <2>1, <2>2, <2>3 DEF CaseRecords
  <2>5. other[i].rerank_attempted => other[i].on \in Rankings
    BY <2>1 DEF GoodCases
  <2> HIDE DEF both
  <2>6. QED  BY <1>1, <1>5, <2>4, <2>5 DEF GoodCases
<1>7. DOMAIN both = 1..n /\ both = [i \in 1..n |-> both[i]]
  BY <1>1
<1> HIDE DEF both
<1>8. both \in Seq(GoodCases) /\ Len(both) = n
  <2>1. \A i \in 1..n : both[i] \in GoodCases
    BY <1>6
  <2>2. QED  BY <1>1, <1>7, <2>1
<1>9. Complete(both)
  <2>1. RagSamples = [i \in 1..n |-> RagSamples[i]]
    BY RetrievalScoringAssumption
  <2>2. [i \in DOMAIN both |-> both[i].query_id] = [i \in 1..n |-> RagSamples[i]]
    BY <1>6, <1>7
  <2>3. QED  BY <1>8, <2>1, <2>2 DEF Complete
<1>10. RetrievalReportIsValid(MergeReports(off, live))
  BY <1>3, <1>9, CompleteReportsAreValid
<1> DEFINE merged == RetrievalReport(both, TRUE)
<1>11. \A i \in 1..n : /\ OnRanking(both[i]) = OnRanking(other[i])
                        /\ Required[both[i].query_id] = Required[other[i].query_id]
                        /\ Required[both[i].query_id] = Required[one[i].query_id]
  BY <1>1, <1>6 DEF OnRanking
<1>12. ASSUME NEW cases, DOMAIN cases = 1..n, NEW rankings,
              \A i \in 1..n : Required[both[i].query_id] = Required[cases[i].query_id]
       PROVE  Metrics(both, rankings) = Metrics(cases, rankings)
  <2>1. [i \in DOMAIN both |-> FirstRelevantRank(rankings[i], Required[both[i].query_id])]
          = [i \in DOMAIN cases |-> FirstRelevantRank(rankings[i], Required[cases[i].query_id])]
    BY <1>7, <1>12
  <2>2. ASSUME NEW k PROVE RecallAt(both, rankings, k) = RecallAt(cases, rankings, k)
    <3> DEFINE Value(needed, i) ==
                 (Unit * Cardinality(ToSet(SubSeq(rankings[i], 1, Min({k, Len(rankings[i])}))) \cap needed))
                    \div Cardinality(needed)
    <3>1. /\ RecallAt(both, rankings, k) = SumOf([i \in DOMAIN both |-> Value(Required[both[i].query_id], i)])
          /\ RecallAt(cases, rankings, k) = SumOf([i \in DOMAIN cases |-> Value(Required[cases[i].query_id], i)])
      BY Zenon DEF RecallAt
    <3> HIDE DEF Value
    <3>2. [i \in DOMAIN both |-> Value(Required[both[i].query_id], i)]
            = [i \in DOMAIN cases |-> Value(Required[cases[i].query_id], i)]
      BY <1>7, <1>12
    <3>3. QED  BY <3>1, <3>2
  <2>3. [k \in 1..TopK |-> RecallAt(both, rankings, k)] = [k \in 1..TopK |-> RecallAt(cases, rankings, k)]
    BY <2>2
  <2>4. QED  BY <2>1, <2>3, Zenon DEF Metrics
<1>13. merged.on_metrics = live.on_metrics
  <2>1. [i \in DOMAIN both |-> OnRanking(both[i])] = [i \in DOMAIN other |-> OnRanking(other[i])]
    BY <1>1, <1>7, <1>11
  <2>2. /\ merged.on_metrics = Metrics(both, [i \in DOMAIN both |-> OnRanking(both[i])])
        /\ live.on_metrics = Metrics(other, [i \in DOMAIN other |-> OnRanking(other[i])])
    BY DEF OffReport, OnReport, RetrievalReport
  <2>3. PICK found : found = [i \in DOMAIN other |-> OnRanking(other[i])]
    OBVIOUS
  <2>4. Metrics(both, found) = Metrics(other, found)
    BY <1>1, <1>11, <1>12
  <2> HIDE DEF merged
  <2>5. QED  BY <2>1, <2>2, <2>3, <2>4, Zenon
<1>14. merged.off_metrics = off.off_metrics
  <2>1. [i \in DOMAIN both |-> both[i].off] = [i \in DOMAIN one |-> one[i].off]
    BY <1>1, <1>6, <1>7
  <2>2. /\ merged.off_metrics = Metrics(both, [i \in DOMAIN both |-> both[i].off])
        /\ off.off_metrics = Metrics(one, [i \in DOMAIN one |-> one[i].off])
    BY DEF OffReport, OnReport, RetrievalReport
  <2>3. PICK found : found = [i \in DOMAIN one |-> one[i].off]
    OBVIOUS
  <2>4. Metrics(both, found) = Metrics(one, found)
    BY <1>1, <1>11, <1>12
  <2> HIDE DEF merged
  <2>5. QED  BY <2>1, <2>2, <2>3, <2>4, Zenon
<1>15. merged.live_calls = live.live_calls
  <2>1. {i \in DOMAIN both : both[i].rerank_attempted} = {i \in DOMAIN other : other[i].rerank_attempted}
    BY <1>1, <1>6, <1>7
  <2>2. /\ merged.live_calls = Cardinality({i \in DOMAIN both : both[i].rerank_attempted})
        /\ live.live_calls = Cardinality({i \in DOMAIN other : other[i].rerank_attempted})
    BY DEF OffReport, OnReport, RetrievalReport
  <2>3. QED  BY <2>1, <2>2
<1> HIDE DEF merged
<1>16. QED  BY <1>3, <1>10, <1>13, <1>14, <1>15 DEF merged
-----------------------------------------------------------------------------
(* What a run of the retrieval programs has measured so far.               *)

Attempted(cases) == {i \in DOMAIN cases : cases[i].rerank_attempted}

\* The results are those of the first samples, in order; the others are to do.
SampleProgress ==
  /\ results \in Seq(GoodCases) /\ todo \in Seq(ToSet(RagSamples))
  /\ Len(results) + Len(todo) = Len(RagSamples)
  /\ \A i \in 1..Len(todo) : todo[i] = RagSamples[Len(results) + i]
  /\ \A i \in 1..Len(results) : results[i].query_id = RagSamples[i]
  /\ calls = Cardinality(Attempted(results)) + (IF phase = "rerank" THEN 1 ELSE 0)

SmokeResults == [off : Nat \ {0}, on : Nat]
SmokeProgress ==
  /\ results \in Seq(SmokeResults) /\ todo \in Seq(DOMAIN SmokeCases)
  /\ Len(results) + Len(todo) = Len(SmokeCases)
  /\ calls \in Nat /\ phase # "rerank"

ReportedRun(report, enabled) ==
  Readable(report) => Complete(report.cases) /\ report = RetrievalReport(report.cases, enabled)

MeasureInv ==
  /\ phase \in {"off", "import", "ingest", "search", "rerank", "write"}
  /\ reports = [mode \in {"off", "on", "smoke"} |-> reports[mode]]
  /\ ReportedRun(reports["off"], FALSE) /\ ReportedRun(reports["on"], TRUE)
  /\ phase \in {"off", "import", "ingest"} => results = <<>> /\ calls = 0
  /\ phase \in {"import", "ingest"} => command.mode \in {"none", "off", "on"}
  /\ phase \in {"search", "rerank", "write"} =>
       (command.mode \in {"off", "on"} /\ SampleProgress) \/ (command.mode = "smoke" /\ SmokeProgress)
  /\ phase = "rerank" => command.mode = "on" /\ todo # <<>> /\ fused \in Seq(FoundDocuments)
  /\ phase = "write" => todo = <<>>

LEMMA CasesAreGood ==
  ASSUME NEW id \in ToSet(RagSamples), NEW candidates \in Seq(FoundDocuments)
  PROVE  /\ FailedCase(id, "failed") \in GoodCases
         /\ FailedCase(id, "failed").query_id = id /\ ~FailedCase(id, "failed").rerank_attempted
         /\ \A enabled \in BOOLEAN : LET case == OffCase(id, candidates, enabled)
                                     IN  case \in GoodCases /\ case.query_id = id
                                         /\ ~case.rerank_attempted
         /\ \A reranked \in Seq(FoundDocuments) : LET case == OnCase(id, candidates, reranked)
                                                  IN  case \in GoodCases /\ case.query_id = id
                                                      /\ case.rerank_attempted
<1>1. \A found \in Seq(FoundDocuments) : RankDocuments(found) \in Rankings
  <2>1. ASSUME NEW found \in Seq(FoundDocuments) PROVE RankDocuments(found) \in Rankings
    BY RankedDocuments DEF Rankings
  <2>2. QED  BY <2>1
<1>2. <<>> \in Rankings
  BY NothingIsARanking
<1>3. FailedCase(id, "failed") \in GoodCases
  <2>1. FailedCase(id, "failed") \in CaseRecords
    BY <1>2 DEF FailedCase, CaseRecords
  <2>2. QED  BY <2>1 DEF FailedCase, GoodCases
<1>4. ASSUME NEW enabled \in BOOLEAN PROVE OffCase(id, candidates, enabled) \in GoodCases
  <2>1. OffCase(id, candidates, enabled) \in CaseRecords
    BY <1>1, <1>2 DEF OffCase, CaseRecords
  <2>2. QED  BY <2>1 DEF OffCase, GoodCases
<1>5. ASSUME NEW reranked \in Seq(FoundDocuments)
      PROVE  OnCase(id, candidates, reranked) \in GoodCases
  <2>1. RankDocuments(candidates) \in Rankings /\ RankDocuments(reranked) \in Rankings
    BY <1>1
  <2>2. OnCase(id, candidates, reranked) \in CaseRecords
    BY <2>1 DEF OnCase, CaseRecords
  <2>3. QED  BY <2>1, <2>2 DEF OnCase, GoodCases
<1>6. QED  BY <1>3, <1>4, <1>5 DEF FailedCase, OffCase, OnCase

LEMMA AttemptedGrows ==
  ASSUME NEW cases \in Seq(GoodCases), NEW case \in GoodCases
  PROVE  /\ Cardinality(Attempted(cases)) \in Nat
         /\ Cardinality(Attempted(Append(cases, case)))
              = Cardinality(Attempted(cases)) + (IF case.rerank_attempted THEN 1 ELSE 0)
<1> DEFINE more == Append(cases, case)
           n == Len(cases)
           Old == {i \in DOMAIN cases : cases[i].rerank_attempted}
           New == {i \in DOMAIN more : more[i].rerank_attempted}
<1>1. /\ n \in Nat /\ DOMAIN more = 1..(n + 1) /\ DOMAIN cases = 1..n
      /\ \A i \in 1..n : more[i] = cases[i]
      /\ more[n + 1] = case
  OBVIOUS
<1>2. IsFiniteSet(Old) /\ Cardinality(Old) \in Nat
  <2>1. IsFiniteSet(1..n) /\ Old \in SUBSET (1..n)
    BY <1>1, FS_Interval
  <2>2. QED  BY <2>1, FS_Subset, FS_CardinalityType
<1>3. CASE case.rerank_attempted
  <2>1. New = Old \cup {n + 1}
    BY <1>1, <1>3
  <2>2. n + 1 \notin Old
    BY <1>1
  <2> HIDE DEF Old, New
  <2>3. Cardinality(New) = Cardinality(Old) + 1
    BY <1>2, <2>1, <2>2, FS_AddElement
  <2>4. QED  BY <1>2, <1>3, <2>3 DEF Attempted, Old, New
<1>4. CASE ~case.rerank_attempted
  <2>1. New = Old
    BY <1>1, <1>4
  <2> HIDE DEF Old, New
  <2>2. Cardinality(New) = Cardinality(Old) + 0
    BY <1>2, <2>1
  <2>3. QED  BY <1>2, <1>4, <2>2 DEF Attempted, Old, New
<1>5. QED  BY <1>3, <1>4

\* A list of work and the results of what is done, when one result more is recorded.
LEMMA OneMoreResult ==
  ASSUME NEW S, results \in Seq(S), NEW T, todo \in Seq(T), todo # <<>>,
         NEW case \in S, Record(case)
  PROVE  /\ results' \in Seq(S) /\ todo' \in Seq(T)
         /\ Head(todo) = todo[1] /\ Head(todo) \in T
         /\ Len(results') = Len(results) + 1 /\ Len(todo') = Len(todo) - 1
         /\ \A i \in 1..Len(results) : results'[i] = results[i]
         /\ results'[Len(results) + 1] = case
         /\ \A i \in 1..Len(todo') : todo'[i] = todo[i + 1]
<1>1. results' = Append(results, case) /\ todo' = Tail(todo)
  BY DEF Record
<1>2. Len(todo) \in Nat /\ Len(todo) # 0 /\ Len(results) \in Nat
  OBVIOUS
<1>3. QED  BY <1>1, <1>2

LEMMA SampleRecorded ==
  ASSUME SampleProgress, todo # <<>>, NEW case \in GoodCases, case.query_id = Head(todo),
         Record(case), phase' # "rerank",
         calls' = Cardinality(Attempted(results)) + (IF case.rerank_attempted THEN 1 ELSE 0)
  PROVE  SampleProgress'
<1> DEFINE n == Len(results)
<1>1. /\ results \in Seq(GoodCases) /\ todo \in Seq(ToSet(RagSamples))
      /\ n + Len(todo) = Len(RagSamples)
      /\ \A i \in 1..Len(todo) : todo[i] = RagSamples[n + i]
      /\ \A i \in 1..n : results[i].query_id = RagSamples[i]
  BY DEF SampleProgress
<1>2. /\ results' \in Seq(GoodCases) /\ todo' \in Seq(ToSet(RagSamples))
      /\ Head(todo) = todo[1]
      /\ Len(results') = n + 1 /\ Len(todo') = Len(todo) - 1
      /\ \A i \in 1..n : results'[i] = results[i]
      /\ results'[n + 1] = case
      /\ \A i \in 1..Len(todo') : todo'[i] = todo[i + 1]
  BY <1>1, OneMoreResult
<1>3. n \in Nat /\ Len(todo) \in Nat /\ Len(todo') \in Nat
  BY <1>1, <1>2
<1> DEFINE m == Len(todo)
<1> HIDE DEF n, m
<1>4. Len(results') + Len(todo') = Len(RagSamples)
  <2>1. /\ n + Len(todo) = Len(RagSamples)
        /\ Len(results') = n + 1 /\ Len(todo') = Len(todo) - 1
    BY <1>1, <1>2
  <2>2. QED  BY <1>3, <2>1
<1>5. ASSUME NEW i \in 1..Len(todo') PROVE todo'[i] = RagSamples[Len(results') + i]
  <2>1. i + 1 \in 1..Len(todo) /\ n + (i + 1) = Len(results') + i
    BY <1>2, <1>3
  <2>2. QED  BY <1>1, <1>2, <2>1
<1>6. ASSUME NEW i \in 1..Len(results') PROVE results'[i].query_id = RagSamples[i]
  <2>1. CASE i = n + 1
    <3>1. 1 \in 1..Len(todo) /\ n + 1 = i
      BY <1>2, <1>3, <2>1
    <3>2. todo[1] = RagSamples[i]
      BY <1>1, <3>1
    <3>3. QED  BY <1>2, <2>1, <3>2
  <2>2. CASE i # n + 1
    <3>1. i \in 1..n
      BY <1>2, <1>3, <2>2
    <3>2. QED  BY <1>1, <1>2, <3>1
  <2>3. QED  BY <2>1, <2>2
<1>7. calls' = Cardinality(Attempted(results')) + 0
  <2>1. results' = Append(results, case)
    BY DEF Record
  <2>2. Cardinality(Attempted(results)) \in Nat
        /\ Cardinality(Attempted(results'))
             = Cardinality(Attempted(results)) + (IF case.rerank_attempted THEN 1 ELSE 0)
    BY <1>1, <2>1, AttemptedGrows
  <2>3. QED  BY <2>2
<1>8. Attempted(results)' = Attempted(results')
  BY DEF Attempted
<1>9. QED  BY <1>2, <1>4, <1>5, <1>6, <1>7, <1>8 DEF SampleProgress

\* A list of candidates has no more and no other documents in another order.
LEMMA ReorderingsAreFound ==
  ASSUME NEW candidates \in Seq(FoundDocuments), NEW reranked \in Reorderings(candidates)
  PROVE  reranked \in Seq(FoundDocuments)
<1>1. PICK order \in [DOMAIN candidates -> DOMAIN candidates] :
        reranked = SubSeq([i \in DOMAIN candidates |-> candidates[order[i]]], 1,
                          Min({ContextTopK, Len(candidates)}))
  BY DEF Reorderings
<1> DEFINE ordered == [i \in DOMAIN candidates |-> candidates[order[i]]]
<1>2. ordered \in Seq(FoundDocuments) /\ Len(ordered) = Len(candidates)
  <2>1. Len(candidates) \in Nat /\ DOMAIN candidates = 1..Len(candidates)
        /\ \A i \in 1..Len(candidates) : candidates[i] \in FoundDocuments
    OBVIOUS
  <2>2. QED  BY <2>1
<1> HIDE DEF ordered
<1>3. SubSeq(ordered, 1, Min({ContextTopK, Len(ordered)})) \in Seq(FoundDocuments)
  BY <1>2, CandidatesAssumption, FirstOnes
<1>4. QED  BY <1>1, <1>2, <1>3 DEF ordered

\* What the smoke test compares: a relevant document is among the candidates.
LEMMA ComparisonsAreTyped ==
  ASSUME NEW i \in DOMAIN SmokeCases,
         NEW order \in [DOMAIN SmokeCases[i].candidates -> DOMAIN SmokeCases[i].candidates]
  PROVE  LET case == SmokeCases[i]
             Rank(ranked) == FirstRelevantRank(ranked, case.relevant)
         IN  /\ Rank(case.candidates) \in Nat \ {0}
             /\ Rank([j \in DOMAIN order |-> case.candidates[order[j]]]) \in Nat
<1> DEFINE case == SmokeCases[i]
           S == ToSet(case.candidates)
           ordered == [j \in DOMAIN order |-> case.candidates[order[j]]]
<1>1. /\ case.candidates \in Seq(S) /\ case.relevant # {} /\ case.relevant \subseteq S
  <2>1. SmokeCases[i] \in ToSet(SmokeCases)
    BY DEF ToSet
  <2>2. QED  BY <2>1, CandidatesAssumption
<1>2. PICK place \in 1..Len(case.candidates) : case.candidates[place] \in case.relevant
  <2>1. PICK document \in case.relevant : document \in S
    BY <1>1
  <2>2. QED  BY <1>1, <2>1 DEF ToSet
<1>3. order \in [DOMAIN case.candidates -> DOMAIN case.candidates]
  OBVIOUS
<1> HIDE DEF case, S
<1>4. FirstRelevantRank(case.candidates, case.relevant) \in Nat \ {0}
  <2> DEFINE rank == FirstRelevantRank(case.candidates, case.relevant)
  <2>1. rank \in Nat /\ rank # 0
    BY <1>1, <1>2, RankMeans
  <2> HIDE DEF rank
  <2>2. QED  BY <2>1 DEF rank
<1>5. ordered \in Seq(S)
  <2>1. Len(case.candidates) \in Nat /\ DOMAIN case.candidates = 1..Len(case.candidates)
        /\ \A k \in 1..Len(case.candidates) : case.candidates[k] \in S
    BY <1>1
  <2>2. PICK m \in Nat : m = Len(case.candidates)
    BY <2>1
  <2>3. DOMAIN order = 1..m /\ \A j \in 1..m : order[j] \in 1..m
    BY <1>3, <2>1, <2>2
  <2>4. ordered = [j \in 1..m |-> case.candidates[order[j]]]
    BY <2>3
  <2>5. \A j \in 1..m : case.candidates[order[j]] \in S
    BY <2>1, <2>2, <2>3
  <2> HIDE DEF ordered
  <2>6. QED  BY <2>2, <2>4, <2>5
<1> HIDE DEF ordered
<1>6. FirstRelevantRank(ordered, case.relevant) \in Nat
  <2> DEFINE rank == FirstRelevantRank(ordered, case.relevant)
  <2>1. rank \in Nat
    BY <1>5, RankMeans
  <2> HIDE DEF rank
  <2>2. QED  BY <2>1 DEF rank
<1>7. QED  BY <1>4, <1>6 DEF case, ordered

\* The report of a complete smoke test passes its validator.
LEMMA SmokeReportsAreValid ==
  ASSUME NEW comparisons \in Seq(SmokeResults), NEW paid \in Nat
  PROVE  SmokeReportIsValid(SmokeReport(comparisons, paid), Len(comparisons))
<1> DEFINE n == Len(comparisons)
           report == SmokeReport(comparisons, paid)
           Won == {i \in DOMAIN comparisons : comparisons[i].on # 0 /\ comparisons[i].on < comparisons[i].off}
           Tied == {i \in DOMAIN comparisons : comparisons[i].on = comparisons[i].off}
           Lost == {i \in DOMAIN comparisons : comparisons[i].on = 0 \/ comparisons[i].on > comparisons[i].off}
           Answered == {i \in DOMAIN comparisons : comparisons[i].on # 0}
<1>1. n \in Nat /\ DOMAIN comparisons = 1..n
      /\ \A i \in 1..n : comparisons[i].off \in Nat \ {0} /\ comparisons[i].on \in Nat
  <2>1. n \in Nat /\ DOMAIN comparisons = 1..n /\ \A i \in 1..n : comparisons[i] \in SmokeResults
    OBVIOUS
  <2>2. ASSUME NEW item \in SmokeResults PROVE item.off \in Nat \ {0} /\ item.on \in Nat
    BY DEF SmokeResults
  <2>3. QED  BY <2>1, <2>2
<1>2. /\ report.cases = comparisons /\ report.live_calls = paid
      /\ report.successful = Cardinality(Answered) /\ report.failed = paid - Cardinality(Answered)
      /\ report.wins = Cardinality(Won) /\ report.ties = Cardinality(Tied)
      /\ report.losses = Cardinality(Lost)
  BY DEF SmokeReport
<1>3. /\ Won \in SUBSET (1..n) /\ Tied \in SUBSET (1..n) /\ Lost \in SUBSET (1..n)
      /\ Won \cap Tied = {} /\ Won \cap Lost = {} /\ Tied \cap Lost = {}
      /\ \A i \in 1..n : i \in Won \/ i \in Tied \/ i \in Lost
  BY <1>1
<1>4. Cardinality(Answered) \in Nat
  <2>1. IsFiniteSet(1..n) /\ Answered \in SUBSET (1..n)
    BY <1>1, FS_Interval
  <2>2. QED  BY <2>1, FS_Subset, FS_CardinalityType
<1> HIDE DEF report, Won, Tied, Lost, Answered, n
<1>5. report.wins + report.ties + report.losses = n
  BY <1>1, <1>2, <1>3, ThreeParts
<1>6. report.live_calls = report.successful + report.failed
  BY <1>2, <1>4
<1>7. QED  BY <1>2, <1>5, <1>6 DEF SmokeReportIsValid, report, n

-----------------------------------------------------------------------------
(* The measuring invariant                                                 *)

LEMMA MeasureInit ==
  ASSUME RetrievalInit
  PROVE  MeasureInv
<1>1. /\ phase = "off" /\ results = <<>> /\ calls = 0
      /\ reports = [mode \in {"off", "on", "smoke"} |-> Absent]
  BY DEF RetrievalInit
<1>2. /\ reports = [mode \in {"off", "on", "smoke"} |-> reports[mode]]
      /\ reports["off"] = Absent /\ reports["on"] = Absent
  BY <1>1
<1>3. ReportedRun(reports["off"], FALSE) /\ ReportedRun(reports["on"], TRUE)
  BY <1>2 DEF ReportedRun, Readable
<1>4. QED  BY <1>1, <1>2, <1>3 DEF MeasureInv

\* What is on disk when no report changes.
LEMMA ReportsStay ==
  ASSUME MeasureInv, reports' = reports
  PROVE  /\ reports' = [mode \in {"off", "on", "smoke"} |-> reports'[mode]]
         /\ ReportedRun(reports["off"], FALSE)' /\ ReportedRun(reports["on"], TRUE)'
<1>1. /\ reports = [mode \in {"off", "on", "smoke"} |-> reports[mode]]
      /\ ReportedRun(reports["off"], FALSE) /\ ReportedRun(reports["on"], TRUE)
  BY DEF MeasureInv
<1>2. /\ ReportedRun(reports["off"], FALSE)' = ReportedRun(reports["off"], FALSE)
      /\ ReportedRun(reports["on"], TRUE)' = ReportedRun(reports["on"], TRUE)
  BY DEF ReportedRun, RetrievalReport, Complete, Readable
<1>3. QED  BY <1>1, <1>2

LEMMA EndMeasure ==
  ASSUME MeasureInv, End,
         reports' = [mode \in {"off", "on", "smoke"} |-> reports'[mode]],
         ReportedRun(reports["off"], FALSE)', ReportedRun(reports["on"], TRUE)'
  PROVE  MeasureInv'
BY DEF MeasureInv, End

\* Steps of the import and of its surroundings.
LEMMA ImportMeasure ==
  ASSUME MeasureInv, phase \in {"off", "import", "ingest"},
         phase' = phase \/ (phase' \in {"import", "ingest"} /\ phase # "off"),
         UNCHANGED <<command, results, calls, reports>>
  PROVE  MeasureInv'
<1>1. /\ reports' = [mode \in {"off", "on", "smoke"} |-> reports'[mode]]
      /\ ReportedRun(reports["off"], FALSE)' /\ ReportedRun(reports["on"], TRUE)'
  BY ReportsStay
<1>2. phase' \in {"off", "import", "ingest"} /\ results' = <<>> /\ calls' = 0
      /\ (phase' \in {"import", "ingest"} => command'.mode \in {"none", "off", "on"})
  BY DEF MeasureInv
<1>3. QED  BY <1>1, <1>2 DEF MeasureInv

\* The search begins.
LEMMA BeginMeasure ==
  ASSUME MeasureInv, phase' = "search", results = <<>>, calls = 0,
         UNCHANGED <<results, calls, reports>>,
         (command'.mode \in {"off", "on"} /\ todo' = RagSamples)
           \/ (command'.mode = "smoke" /\ todo' = SmokeIds)
  PROVE  MeasureInv'
<1>1. /\ reports' = [mode \in {"off", "on", "smoke"} |-> reports'[mode]]
      /\ ReportedRun(reports["off"], FALSE)' /\ ReportedRun(reports["on"], TRUE)'
  BY ReportsStay
<1>2. results' = <<>> /\ calls' = 0
  OBVIOUS
<1>3. ASSUME todo' = RagSamples PROVE SampleProgress'
  <2>1. Attempted(results)' = {}
    BY <1>2 DEF Attempted
  <2>2. Cardinality(Attempted(results)') = 0
    BY <2>1, FS_EmptySet
  <2>3. RagSamples \in Seq(ToSet(RagSamples))
    BY RetrievalScoringAssumption
  <2>4. /\ results' \in Seq(GoodCases) /\ todo' \in Seq(ToSet(RagSamples)) /\ Len(results') = 0
        /\ Len(results') + Len(todo') = Len(RagSamples)
        /\ \A i \in 1..Len(todo') : todo'[i] = RagSamples[Len(results') + i]
    BY <1>2, <1>3, <2>3
  <2>5. calls' = Cardinality(Attempted(results)') + 0
    BY <1>2, <2>2
  <2>6. QED  BY <2>4, <2>5 DEF SampleProgress
<1>4. ASSUME todo' = SmokeIds PROVE SmokeProgress'
  <2>1. Len(SmokeCases) \in Nat /\ DOMAIN SmokeCases = 1..Len(SmokeCases)
    BY CandidatesAssumption
  <2>2. SmokeIds \in Seq(DOMAIN SmokeCases) /\ Len(SmokeIds) = Len(SmokeCases)
    BY <2>1 DEF SmokeIds
  <2>3. QED  BY <1>2, <1>4, <2>1, <2>2 DEF SmokeProgress
<1>5. QED  BY <1>1, <1>3, <1>4 DEF MeasureInv

LEMMA StartMeasure ==
  ASSUME MeasureInv, NEW arguments \in Commands, StartEvaluation(arguments)
  PROVE  MeasureInv'
<1>1. /\ phase = "off" /\ command' = arguments /\ UNCHANGED <<results, calls, reports>>
      /\ results = <<>> /\ calls = 0
      /\ IF arguments.prepare THEN phase' = "import"
         ELSE phase' = "search" /\ todo' = Worklist(arguments.mode)
  BY DEF StartEvaluation, MeasureInv
<1>2. arguments.mode \in {"none", "off", "on"} \/ (arguments.mode = "smoke" /\ ~arguments.prepare)
  BY DEF Commands
<1>3. arguments.mode = "none" => arguments.prepare
  BY DEF Commands, NoCommand
<1>4. CASE arguments.prepare
  <2>1. /\ reports' = [mode \in {"off", "on", "smoke"} |-> reports'[mode]]
        /\ ReportedRun(reports["off"], FALSE)' /\ ReportedRun(reports["on"], TRUE)'
    BY <1>1, ReportsStay
  <2>2. phase' = "import" /\ command'.mode \in {"none", "off", "on"}
        /\ results' = <<>> /\ calls' = 0
    BY <1>1, <1>2, <1>4
  <2>3. QED  BY <2>1, <2>2 DEF MeasureInv
<1>5. CASE ~arguments.prepare
  <2>1. (command'.mode \in {"off", "on"} /\ todo' = RagSamples)
          \/ (command'.mode = "smoke" /\ todo' = SmokeIds)
    BY <1>1, <1>2, <1>3, <1>5 DEF Worklist
  <2>2. QED  BY <1>1, <1>5, <2>1, BeginMeasure
<1>6. QED  BY <1>4, <1>5

LEMMA FinishImportMeasure ==
  ASSUME MeasureInv, FinishImport
  PROVE  MeasureInv'
<1>1. phase = "import" /\ reports' = reports /\ results = <<>> /\ calls = 0
      /\ command.mode \in {"none", "off", "on"}
  BY DEF FinishImport, MeasureInv
<1>2. CASE command.mode = "none"
  <2>1. End
    BY <1>2 DEF FinishImport
  <2>2. QED  BY <1>1, <2>1, EndMeasure, ReportsStay
<1>3. CASE command.mode # "none"
  <2>1. /\ phase' = "search" /\ todo' = RagSamples /\ UNCHANGED <<results, calls, reports>>
        /\ command'.mode \in {"off", "on"}
    BY <1>1, <1>3 DEF FinishImport
  <2>2. QED  BY <1>1, <2>1, BeginMeasure
<1>4. QED  BY <1>2, <1>3

\* One sample more, or the call for the next one.
LEMMA SampleMeasure ==
  ASSUME MeasureInv, command.mode \in {"off", "on"}, SampleProgress',
         UNCHANGED <<command, reports>>,
         phase' = "search"
           \/ (phase' = "rerank" /\ command.mode = "on" /\ todo' # <<>>
                 /\ fused' \in Seq(FoundDocuments))
  PROVE  MeasureInv'
<1>1. /\ reports' = [mode \in {"off", "on", "smoke"} |-> reports'[mode]]
      /\ ReportedRun(reports["off"], FALSE)' /\ ReportedRun(reports["on"], TRUE)'
  BY ReportsStay
<1>2. QED  BY <1>1 DEF MeasureInv

LEMMA SampleToDo ==
  ASSUME MeasureInv, phase \in {"search", "rerank"}, command.mode # "smoke", todo # <<>>
  PROVE  /\ command.mode \in {"off", "on"} /\ SampleProgress
         /\ Head(todo) \in ToSet(RagSamples)
         /\ Cardinality(Attempted(results)) \in Nat
         /\ calls = Cardinality(Attempted(results)) + (IF phase = "rerank" THEN 1 ELSE 0)
<1>1. command.mode \in {"off", "on"} /\ SampleProgress
  BY DEF MeasureInv
<1>2. results \in Seq(GoodCases) /\ todo \in Seq(ToSet(RagSamples))
      /\ calls = Cardinality(Attempted(results)) + (IF phase = "rerank" THEN 1 ELSE 0)
  BY <1>1 DEF SampleProgress
<1>3. Head(todo) \in ToSet(RagSamples)
  BY <1>2
<1>4. Cardinality(Attempted(results)) \in Nat
  <2>1. FailedCase(Head(todo), "failed") \in GoodCases
    <3>1. <<>> \in Seq(FoundDocuments)
      OBVIOUS
    <3>2. QED  BY <1>3, <3>1, CasesAreGood
  <2>2. QED  BY <1>2, <2>1, AttemptedGrows
<1>5. QED  BY <1>1, <1>2, <1>3, <1>4

LEMMA SearchMeasure ==
  ASSUME MeasureInv, Search
  PROVE  MeasureInv'
<1>1. /\ phase = "search" /\ command.mode # "smoke" /\ todo # <<>>
      /\ UNCHANGED <<command, reports>>
  BY DEF Search
<1>2. /\ command.mode \in {"off", "on"} /\ SampleProgress /\ Head(todo) \in ToSet(RagSamples)
      /\ Cardinality(Attempted(results)) \in Nat /\ calls = Cardinality(Attempted(results)) + 0
  BY <1>1, SampleToDo
<1>3. PICK candidates \in Answers[Head(todo)] :
        IF command.mode = "on" /\ candidates # <<>>
        THEN /\ phase' = "rerank" /\ fused' = candidates /\ calls' = calls + 1
             /\ UNCHANGED <<results, todo>>
        ELSE /\ Record(OffCase(Head(todo), candidates, command.mode = "on"))
             /\ UNCHANGED <<phase, fused, calls>>
  BY DEF Search
<1>4. candidates \in Seq(FoundDocuments)
  BY <1>2, CandidatesAssumption
<1>5. CASE command.mode = "on" /\ candidates # <<>>
  <2>1. /\ phase' = "rerank" /\ fused' = candidates /\ calls' = calls + 1
        /\ results' = results /\ todo' = todo
    BY <1>3, <1>5
  <2>2. calls' = Cardinality(Attempted(results)) + 1 /\ Attempted(results)' = Attempted(results)
    BY <1>2, <2>1 DEF Attempted
  <2>3. SampleProgress'
    BY <1>2, <2>1, <2>2 DEF SampleProgress
  <2>4. QED  BY <1>1, <1>2, <1>4, <1>5, <2>1, <2>3, SampleMeasure
<1>6. CASE ~(command.mode = "on" /\ candidates # <<>>)
  <2> DEFINE case == OffCase(Head(todo), candidates, command.mode = "on")
  <2>1. case \in GoodCases /\ case.query_id = Head(todo) /\ ~case.rerank_attempted
    BY <1>2, <1>4, CasesAreGood
  <2>2. Record(case) /\ phase' = "search" /\ calls' = calls
    BY <1>1, <1>3, <1>6
  <2> HIDE DEF case
  <2>3. calls' = Cardinality(Attempted(results)) + (IF case.rerank_attempted THEN 1 ELSE 0)
    BY <1>2, <2>1, <2>2
  <2>4. SampleProgress'
    BY <1>1, <1>2, <2>1, <2>2, <2>3, SampleRecorded
  <2>5. QED  BY <1>1, <1>2, <2>2, <2>4, SampleMeasure
<1>7. QED  BY <1>5, <1>6

LEMMA SearchFailsMeasure ==
  ASSUME MeasureInv, SearchFails
  PROVE  MeasureInv'
<1> DEFINE case == FailedCase(Head(todo), "failed")
<1>1. /\ phase = "search" /\ command.mode # "smoke" /\ todo # <<>>
      /\ Record(case) /\ UNCHANGED <<phase, command, calls, reports>>
  BY DEF SearchFails
<1>2. /\ command.mode \in {"off", "on"} /\ SampleProgress /\ Head(todo) \in ToSet(RagSamples)
      /\ Cardinality(Attempted(results)) \in Nat /\ calls = Cardinality(Attempted(results)) + 0
  BY <1>1, SampleToDo
<1>3. case \in GoodCases /\ case.query_id = Head(todo) /\ ~case.rerank_attempted
  <2>1. <<>> \in Seq(FoundDocuments)
    OBVIOUS
  <2>2. QED  BY <1>2, <2>1, CasesAreGood
<1> HIDE DEF case
<1>4. calls' = Cardinality(Attempted(results)) + (IF case.rerank_attempted THEN 1 ELSE 0)
  BY <1>1, <1>2, <1>3
<1>5. SampleProgress'
  BY <1>1, <1>2, <1>3, <1>4, SampleRecorded
<1>6. QED  BY <1>1, <1>2, <1>5, SampleMeasure

LEMMA RerankMeasure ==
  ASSUME MeasureInv, Rerank
  PROVE  MeasureInv'
<1>1. /\ phase = "rerank" /\ phase' = "search" /\ UNCHANGED <<command, calls, reports>>
      /\ todo # <<>> /\ command.mode = "on" /\ fused \in Seq(FoundDocuments)
  BY DEF Rerank, MeasureInv
<1>2. /\ SampleProgress /\ Head(todo) \in ToSet(RagSamples)
      /\ Cardinality(Attempted(results)) \in Nat /\ calls = Cardinality(Attempted(results)) + 1
  BY <1>1, SampleToDo
<1>3. PICK reranked \in Reorderings(fused) : Record(OnCase(Head(todo), fused, reranked))
  BY DEF Rerank
<1> DEFINE case == OnCase(Head(todo), fused, reranked)
<1>4. case \in GoodCases /\ case.query_id = Head(todo) /\ case.rerank_attempted
  <2>1. reranked \in Seq(FoundDocuments)
    BY <1>1, ReorderingsAreFound
  <2>2. QED  BY <1>1, <1>2, <2>1, CasesAreGood
<1>5. Record(case)
  BY <1>3
<1> HIDE DEF case
<1>6. calls' = Cardinality(Attempted(results)) + (IF case.rerank_attempted THEN 1 ELSE 0)
  BY <1>1, <1>2, <1>4
<1>7. SampleProgress'
  BY <1>1, <1>2, <1>4, <1>5, <1>6, SampleRecorded
<1>8. QED  BY <1>1, <1>7, SampleMeasure

LEMMA SmokeCallMeasure ==
  ASSUME MeasureInv, SmokeCall
  PROVE  MeasureInv'
<1>1. /\ phase = "search" /\ command.mode = "smoke" /\ todo # <<>> /\ calls' = calls + 1
      /\ UNCHANGED <<phase, command, reports>>
  BY DEF SmokeCall
<1>2. /\ results \in Seq(SmokeResults) /\ todo \in Seq(DOMAIN SmokeCases)
      /\ Len(results) + Len(todo) = Len(SmokeCases) /\ calls \in Nat
  BY <1>1 DEF MeasureInv, SmokeProgress
<1> DEFINE case == SmokeCases[Head(todo)]
           Rank(ranked) == FirstRelevantRank(ranked, case.relevant)
           Orders == {f \in [DOMAIN case.candidates -> DOMAIN case.candidates] : IsInjective(f)}
<1>3. Head(todo) \in DOMAIN SmokeCases
  BY <1>1, <1>2
<1>4. \/ \E order \in Orders :
           Record([off |-> Rank(case.candidates),
                   on |-> Rank([i \in DOMAIN order |-> case.candidates[order[i]]])])
      \/ Record([off |-> Rank(case.candidates), on |-> 0])
  BY Zenon DEF SmokeCall
<1>5. ASSUME NEW order \in [DOMAIN case.candidates -> DOMAIN case.candidates]
      PROVE  /\ Rank(case.candidates) \in Nat \ {0}
             /\ Rank([i \in DOMAIN order |-> case.candidates[order[i]]]) \in Nat
  BY <1>3, ComparisonsAreTyped
<1>6. Rank(case.candidates) \in Nat \ {0}
  <2>1. [i \in DOMAIN case.candidates |-> i] \in [DOMAIN case.candidates -> DOMAIN case.candidates]
    OBVIOUS
  <2> HIDE DEF case, Rank
  <2>2. QED  BY <1>5, <2>1
<1>7. PICK item \in SmokeResults : Record(item)
  <2>1. CASE \E order \in Orders :
               Record([off |-> Rank(case.candidates),
                       on |-> Rank([i \in DOMAIN order |-> case.candidates[order[i]]])])
    <3>1. PICK order \in Orders :
            Record([off |-> Rank(case.candidates),
                    on |-> Rank([i \in DOMAIN order |-> case.candidates[order[i]]])])
      BY <2>1
    <3>2. order \in [DOMAIN case.candidates -> DOMAIN case.candidates]
      OBVIOUS
    <3>3. Rank([i \in DOMAIN order |-> case.candidates[order[i]]]) \in Nat
      BY <1>5, <3>2
    <3> HIDE DEF Rank, case, Orders
    <3>4. QED  BY <1>6, <3>1, <3>3 DEF SmokeResults
  <2>2. CASE Record([off |-> Rank(case.candidates), on |-> 0])
    <3> HIDE DEF Rank, case, Orders
    <3>1. [off |-> Rank(case.candidates), on |-> 0] \in SmokeResults
      BY <1>6 DEF SmokeResults
    <3>2. QED  BY <2>2, <3>1
  <2> HIDE DEF Rank, case, Orders
  <2>3. QED  BY <1>4, <2>1, <2>2
<1> HIDE DEF case, Rank, Orders
<1>8. /\ results' \in Seq(SmokeResults) /\ todo' \in Seq(DOMAIN SmokeCases)
      /\ Len(results') = Len(results) + 1 /\ Len(todo') = Len(todo) - 1
  BY <1>1, <1>2, <1>7, OneMoreResult
<1>9. SmokeProgress'
  <2>1. Len(results) \in Nat /\ Len(todo) \in Nat
    BY <1>2
  <2>2. /\ Len(results) + Len(todo) = Len(SmokeCases) /\ calls' = calls + 1 /\ calls \in Nat
        /\ Len(results') = Len(results) + 1 /\ Len(todo') = Len(todo) - 1
    BY <1>1, <1>2, <1>8
  <2>3. Len(results') + Len(todo') = Len(SmokeCases) /\ calls' \in Nat
    BY <2>1, <2>2
  <2>4. QED  BY <1>1, <1>8, <2>3 DEF SmokeProgress
<1>10. /\ reports' = [mode \in {"off", "on", "smoke"} |-> reports'[mode]]
       /\ ReportedRun(reports["off"], FALSE)' /\ ReportedRun(reports["on"], TRUE)'
  BY <1>1, ReportsStay
<1>11. QED  BY <1>1, <1>9, <1>10 DEF MeasureInv

\* A run that has answered every sample is complete and has counted its calls.
LEMMA AllAnswered ==
  ASSUME MeasureInv, phase \in {"search", "write"}, todo = <<>>, command.mode # "smoke"
  PROVE  /\ command.mode \in {"off", "on"} /\ Complete(results)
         /\ [i \in DOMAIN results |-> results[i].query_id] = RagSamples
         /\ calls = Cardinality(Attempted(results))
<1>1. command.mode \in {"off", "on"} /\ SampleProgress
  BY DEF MeasureInv
<1>2. /\ results \in Seq(GoodCases) /\ Len(results) + Len(todo) = Len(RagSamples)
      /\ \A i \in 1..Len(results) : results[i].query_id = RagSamples[i]
      /\ calls = Cardinality(Attempted(results)) + (IF phase = "rerank" THEN 1 ELSE 0)
  BY <1>1 DEF SampleProgress
<1>3. Len(todo) = 0 /\ Len(results) \in Nat
  BY <1>2
<1>4. DOMAIN results = 1..Len(RagSamples) /\ Len(results) = Len(RagSamples)
  BY <1>2, <1>3
<1>5. RagSamples = [i \in 1..Len(RagSamples) |-> RagSamples[i]]
  BY RetrievalScoringAssumption
<1>6. [i \in DOMAIN results |-> results[i].query_id] = RagSamples
  <2>1. \A i \in 1..Len(RagSamples) : results[i].query_id = RagSamples[i]
    BY <1>2, <1>4
  <2>2. [i \in DOMAIN results |-> results[i].query_id] = [i \in 1..Len(RagSamples) |-> RagSamples[i]]
    BY <1>4, <2>1
  <2>3. QED  BY <1>5, <2>2
<1>7. Cardinality(Attempted(results)) \in Nat
  <2>1. IsFiniteSet(1..Len(results))
    BY <1>3, FS_Interval
  <2>2. Attempted(results) \in SUBSET (1..Len(results))
    BY <1>2 DEF Attempted
  <2>3. QED  BY <2>1, <2>2, FS_Subset, FS_CardinalityType
<1>8. QED  BY <1>1, <1>2, <1>6, <1>7 DEF Complete

\* No validator rejects what a finished run has measured.
LEMMA FinishedIsAccepted ==
  ASSUME MeasureInv, phase \in {"search", "write"}, todo = <<>>
  PROVE  ReportIsAccepted /\ ReportOfRun.live_calls = calls
<1>1. CASE command.mode = "smoke"
  <2>1. results \in Seq(SmokeResults) /\ Len(results) + Len(todo) = Len(SmokeCases) /\ calls \in Nat
    BY <1>1 DEF MeasureInv, SmokeProgress
  <2>2. Len(todo) = 0 /\ Len(results) \in Nat
    BY <2>1
  <2>3. Len(results) = Len(SmokeCases)
    BY <2>1, <2>2
  <2>4. SmokeReportIsValid(SmokeReport(results, calls), Len(SmokeCases))
    BY <2>1, <2>3, SmokeReportsAreValid
  <2>5. ReportOfRun = SmokeReport(results, calls)
    BY <1>1 DEF ReportOfRun
  <2>6. SmokeReport(results, calls).live_calls = calls
    BY DEF SmokeReport
  <2>7. QED  BY <1>1, <2>4, <2>5, <2>6 DEF ReportIsAccepted
<1>2. CASE command.mode # "smoke"
  <2>1. Complete(results) /\ calls = Cardinality(Attempted(results))
    BY <1>2, AllAnswered
  <2>2. ReportOfRun = RetrievalReport(results, command.mode = "on")
    BY <1>2 DEF ReportOfRun
  <2>3. RetrievalReportIsValid(RetrievalReport(results, command.mode = "on"))
    BY <2>1, CompleteReportsAreValid
  <2>4. RetrievalReport(results, command.mode = "on").live_calls = Cardinality(Attempted(results))
    BY DEF RetrievalReport, Attempted
  <2>5. QED  BY <1>2, <2>1, <2>2, <2>3, <2>4 DEF ReportIsAccepted
<1>3. QED  BY <1>1, <1>2

LEMMA OpenReportMeasure ==
  ASSUME MeasureInv, OpenReport
  PROVE  MeasureInv'
<1>1. phase = "search" /\ todo = <<>> /\ UNCHANGED <<command, todo, results, calls>>
  BY DEF OpenReport
<1>2. phase' = "write" /\ reports' = [reports EXCEPT ![command.mode] = Torn]
  BY <1>1, FinishedIsAccepted DEF OpenReport
<1>3. /\ reports = [mode \in {"off", "on", "smoke"} |-> reports[mode]]
      /\ ReportedRun(reports["off"], FALSE) /\ ReportedRun(reports["on"], TRUE)
  BY DEF MeasureInv
<1>4. /\ reports' = [mode \in {"off", "on", "smoke"} |-> reports'[mode]]
      /\ \A mode \in {"off", "on"} : reports'[mode] = reports[mode] \/ reports'[mode] = Torn
  BY <1>2, <1>3
<1>5. /\ reports'["off"] = Torn => ReportedRun(reports["off"], FALSE)'
      /\ reports'["on"] = Torn => ReportedRun(reports["on"], TRUE)'
  BY DEF ReportedRun, Readable
<1>6. /\ reports'["off"] = reports["off"] => ReportedRun(reports["off"], FALSE)'
      /\ reports'["on"] = reports["on"] => ReportedRun(reports["on"], TRUE)'
  BY <1>3 DEF ReportedRun, RetrievalReport, Complete, Readable
<1>7. /\ ReportedRun(reports["off"], FALSE)' /\ ReportedRun(reports["on"], TRUE)'
  BY <1>4, <1>5, <1>6
<1>8. /\ SampleProgress => SampleProgress'
      /\ SmokeProgress => SmokeProgress'
  BY <1>1, <1>2 DEF SampleProgress, SmokeProgress, Attempted
<1>9. QED  BY <1>1, <1>2, <1>4, <1>7, <1>8 DEF MeasureInv

LEMMA FillReportMeasure ==
  ASSUME MeasureInv, FillReport
  PROVE  MeasureInv'
<1>1. /\ phase = "write" /\ todo = <<>> /\ End
      /\ reports' = [reports EXCEPT ![command.mode] = ReportOfRun]
  BY DEF FillReport, MeasureInv
<1>2. /\ reports = [mode \in {"off", "on", "smoke"} |-> reports[mode]]
      /\ ReportedRun(reports["off"], FALSE) /\ ReportedRun(reports["on"], TRUE)
      /\ command.mode \in {"off", "on", "smoke"}
  BY <1>1 DEF MeasureInv
<1>3. /\ reports' = [mode \in {"off", "on", "smoke"} |-> reports'[mode]]
      /\ \A mode \in {"off", "on"} : IF mode = command.mode THEN reports'[mode] = ReportOfRun
                                     ELSE reports'[mode] = reports[mode]
  BY <1>1, <1>2
<1>4. /\ reports'["off"] = reports["off"] => ReportedRun(reports["off"], FALSE)'
      /\ reports'["on"] = reports["on"] => ReportedRun(reports["on"], TRUE)'
  BY <1>2 DEF ReportedRun, RetrievalReport, Complete, Readable
<1>5. ASSUME command.mode \in {"off", "on"}
      PROVE  /\ Complete(ReportOfRun.cases)
             /\ ReportOfRun = RetrievalReport(ReportOfRun.cases, command.mode = "on")
  <2>1. Complete(results)
    BY <1>1, <1>5, AllAnswered
  <2>2. ReportOfRun = RetrievalReport(results, command.mode = "on")
    BY <1>5 DEF ReportOfRun
  <2>3. RetrievalReport(results, command.mode = "on").cases = results
    BY DEF RetrievalReport
  <2>4. QED  BY <2>1, <2>2, <2>3
<1>6. /\ command.mode = "off" => ReportedRun(reports["off"], FALSE)'
      /\ command.mode = "on" => ReportedRun(reports["on"], TRUE)'
  <2>1. PICK report : report = ReportOfRun
    OBVIOUS
  <2>2. ASSUME command.mode = "off" PROVE ReportedRun(reports["off"], FALSE)'
    <3>1. /\ reports'["off"] = report /\ Complete(report.cases)
          /\ report = RetrievalReport(report.cases, command.mode = "on")
          /\ (command.mode = "on") = FALSE
      BY <1>3, <1>5, <2>1, <2>2
    <3>2. report = RetrievalReport(report.cases, FALSE)
      BY <3>1, Zenon
    <3>3. ReportedRun(report, FALSE)
      BY <3>1, <3>2 DEF ReportedRun
    <3>4. QED  BY <3>1, <3>3 DEF ReportedRun, RetrievalReport, Complete, Readable
  <2>3. ASSUME command.mode = "on" PROVE ReportedRun(reports["on"], TRUE)'
    <3>1. /\ reports'["on"] = report /\ Complete(report.cases)
          /\ report = RetrievalReport(report.cases, command.mode = "on")
          /\ (command.mode = "on") = TRUE
      BY <1>3, <1>5, <2>1, <2>3
    <3>2. report = RetrievalReport(report.cases, TRUE)
      BY <3>1, Zenon
    <3>3. ReportedRun(report, TRUE)
      BY <3>1, <3>2 DEF ReportedRun
    <3>4. QED  BY <3>1, <3>3 DEF ReportedRun, RetrievalReport, Complete, Readable
  <2>4. QED  BY <2>2, <2>3
<1>7. /\ ReportedRun(reports["off"], FALSE)' /\ ReportedRun(reports["on"], TRUE)'
  BY <1>3, <1>4, <1>6
<1>8. QED  BY <1>1, <1>3, <1>7, EndMeasure

LEMMA StepMeasure ==
  ASSUME MeasureInv, [RetrievalNext]_retrievalVars
  PROVE  MeasureInv'
<1>1. ASSUME UNCHANGED retrievalVars PROVE MeasureInv'
  <2>1. UNCHANGED <<phase, command, todo, fused, results, calls, reports>>
    BY <1>1 DEF retrievalVars
  <2>2. SampleProgress' = SampleProgress /\ SmokeProgress' = SmokeProgress
    BY <2>1 DEF SampleProgress, SmokeProgress, Attempted
  <2>3. /\ reports' = [mode \in {"off", "on", "smoke"} |-> reports'[mode]]
        /\ ReportedRun(reports["off"], FALSE)' /\ ReportedRun(reports["on"], TRUE)'
    BY <2>1, ReportsStay
  <2>4. QED  BY <2>1, <2>2, <2>3 DEF MeasureInv
<1>2. ASSUME CheckDocument \/ IngestDocument PROVE MeasureInv'
  <2>1. /\ phase \in {"import", "ingest"} /\ phase' \in {"import", "ingest"}
        /\ UNCHANGED <<command, results, calls, reports>>
    BY <1>2 DEF CheckDocument, IngestDocument
  <2>2. QED  BY <2>1, ImportMeasure
<1>3. ASSUME Abort \/ KillEvaluation PROVE MeasureInv'
  <2>1. End /\ reports' = reports
    BY <1>3 DEF Abort, KillEvaluation, Abandon
  <2>2. QED  BY <2>1, EndMeasure, ReportsStay
<1>4. ASSUME \/ \E document \in Documents, hash \in Hashes : ChangeDocument(document, hash)
             \/ ChangeSnapshot
      PROVE  MeasureInv'
  <2>1. /\ phase \in {"off", "import", "ingest"} /\ phase' = phase
        /\ UNCHANGED <<command, results, calls, reports>>
    BY <1>4 DEF ChangeDocument, ChangeSnapshot
  <2>2. QED  BY <2>1, ImportMeasure
<1>5. QED
  BY <1>1, <1>2, <1>3, <1>4, StartMeasure, FinishImportMeasure, SearchMeasure, SearchFailsMeasure,
     RerankMeasure, SmokeCallMeasure, OpenReportMeasure, FillReportMeasure DEF RetrievalNext

\* What the retrieval programs have measured at every moment, and what is on disk.
THEOREM MeasuringIsConsistent == Spec => []MeasureInv
<1>1. Init => MeasureInv
  BY MeasureInit DEF Init
<1>2. MeasureInv /\ [Next]_vars => MeasureInv'
  BY StepMeasure, RetrievalSteps
<1>3. QED  BY <1>1, <1>2, PTL DEF Spec

LEMMA EverythingIsCounted ==
  ASSUME MeasureInv
  PROVE  ReportsCountEverything
<1>1. phase # "rejected"
  BY DEF MeasureInv
<1>2. ASSUME phase = "search", todo = <<>>, command.mode \in {"on", "off"}
      PROVE  [i \in DOMAIN results |-> results[i].query_id] = RagSamples
             /\ ReportOfRun.live_calls = calls
  <2>1. command.mode # "smoke"
    BY <1>2
  <2>2. QED  BY <1>2, <2>1, AllAnswered, FinishedIsAccepted
<1>3. ASSUME phase = "write" PROVE ReportOfRun.live_calls = calls
  <2>1. todo = <<>>
    BY <1>3 DEF MeasureInv
  <2>2. QED  BY <1>3, <2>1, FinishedIsAccepted
<1>4. ASSUME Readable(reports["off"]), Readable(reports["on"]), MayMerge(reports["off"], reports["on"])
      PROVE  LET merged == MergeReports(reports["off"], reports["on"])
             IN /\ RetrievalReportIsValid(merged)
                /\ merged.on_metrics = reports["on"].on_metrics
                /\ merged.off_metrics = reports["off"].off_metrics
                /\ merged.live_calls = reports["on"].live_calls
  <2>1. PICK off : off = reports["off"]
    OBVIOUS
  <2>2. PICK live : live = reports["on"]
    OBVIOUS
  <2>3. /\ Complete(off.cases) /\ off = RetrievalReport(off.cases, FALSE)
        /\ Complete(live.cases) /\ live = RetrievalReport(live.cases, TRUE)
        /\ MayMerge(off, live)
    BY <1>4, <2>1, <2>2 DEF MeasureInv, ReportedRun
  <2>4. /\ RetrievalReportIsValid(MergeReports(off, live))
        /\ MergeReports(off, live).on_metrics = live.on_metrics
        /\ MergeReports(off, live).off_metrics = off.off_metrics
        /\ MergeReports(off, live).live_calls = live.live_calls
    <3>1. PICK one : one = off.cases
      OBVIOUS
    <3>2. PICK other : other = live.cases
      OBVIOUS
    <3>3. Complete(one) /\ Complete(other)
      BY <2>3, <3>1, <3>2
    <3>4. off = OffReport(one) /\ live = OnReport(other)
      BY <2>3, <3>1, <3>2, Zenon DEF OffReport, OnReport
    <3>5. MayMerge(off, live)
      BY <2>3
    <3>6. QED  BY <3>3, <3>4, <3>5, MergingKeeps
  <2>5. QED  BY <2>1, <2>2, <2>4
<1>5. QED  BY <1>1, <1>2, <1>3, <1>4, Zenon DEF ReportsCountEverything

\* The retrieval reports count every call and every sample, merge without changing
\* a measured number, and their verdicts agree with their metrics.
THEOREM RetrievalReportsHold == Spec => []RetrievalReportsAreTrue
<1>1. MeasureInv => RetrievalReportsAreTrue
  <2> SUFFICES ASSUME MeasureInv PROVE RetrievalReportsAreTrue
    OBVIOUS
  <2>1. ASSUME Readable(reports["on"]) PROVE ComparisonAgreesWithMetrics
    <3>1. Complete(reports["on"].cases)
          /\ reports["on"] = RetrievalReport(reports["on"].cases, TRUE)
      BY <2>1 DEF MeasureInv, ReportedRun
    <3>2. QED  BY <3>1, VerdictsAgree
  <2>2. ASSUME ~Readable(reports["on"]) PROVE ComparisonAgreesWithMetrics
    BY <2>2 DEF ComparisonAgreesWithMetrics
  <2>3. QED  BY <2>1, <2>2, EverythingIsCounted DEF RetrievalReportsAreTrue
<1>2. QED  BY <1>1, MeasuringIsConsistent, PTL

-----------------------------------------------------------------------------
(* Counting cases                                                          *)

\* However a set is divided by the values of a function, the parts add up to it.
LEMMA CountsAddUp ==
  ASSUME NEW key, IsFiniteSet(DOMAIN key)
  PROVE  SumFunction(CountsBy(key)) = Cardinality(DOMAIN key)
<1> DEFINE D == DOMAIN key
           V == {key[i] : i \in D}
           counts == CountsBy(key)
           Body(it, s) == IF s = {} THEN 0
                          ELSE LET x == CHOOSE y \in s : TRUE IN counts[x] + it[s \ {x}]
           sum == CHOOSE it : it = [s \in SUBSET DOMAIN counts |-> Body(it, s)]
           covered == [s \in SUBSET V |-> Cardinality({i \in D : key[i] \in s})]
<1>1. SumFunction(counts) = sum[DOMAIN counts]
  BY Zenon DEF SumFunction, SumFunctionOnSet, FoldFunctionOnSet, MapThenFoldSet
<1>2. DOMAIN counts = V /\ \A x \in V : counts[x] = Cardinality({i \in D : key[i] = x})
  BY DEF CountsBy
<1>3. IsFiniteSet(V)
  <2>1. [i \in D |-> key[i]] \in Surjection(D, V)
    BY DEF Surjection
  <2>2. QED  BY <2>1, FS_Surjection
<1> HIDE DEF counts, D, V
<1>4. ASSUME NEW s \in SUBSET V PROVE covered[s] = Body(covered, s)
  <2>1. CASE s = {}
    BY <2>1, FS_EmptySet
  <2>2. CASE s # {}
    <3> DEFINE x == CHOOSE y \in s : TRUE
               Here == {i \in D : key[i] = x}
               Rest == {i \in D : key[i] \in s \ {x}}
    <3>1. x \in s
      BY <2>2
    <3>2. /\ Here \cup Rest = {i \in D : key[i] \in s} /\ Here \cap Rest = {}
          /\ IsFiniteSet(Here) /\ IsFiniteSet(Rest)
      BY <3>1, FS_Subset DEF D
    <3>3. covered[s] = Cardinality(Here \cup Rest) /\ covered[s \ {x}] = Cardinality(Rest)
          /\ counts[x] = Cardinality(Here)
      BY <1>2, <3>1, <3>2
    <3> HIDE DEF Here, Rest, covered
    <3>4. Cardinality(Here \cup Rest) = Cardinality(Here) + Cardinality(Rest)
      <4>1. Cardinality(Here \cup Rest)
              = Cardinality(Here) + Cardinality(Rest) - Cardinality(Here \cap Rest)
        BY <3>2, FS_Union
      <4>2. Cardinality(Here \cap Rest) = 0
        BY <3>2, FS_EmptySet
      <4>3. Cardinality(Here) \in Nat /\ Cardinality(Rest) \in Nat
        BY <3>2, FS_CardinalityType
      <4>4. QED  BY <4>1, <4>2, <4>3
    <3>5. QED  BY <2>2, <3>3, <3>4
  <2>3. QED  BY <2>1, <2>2
<1>5. sum = [s \in SUBSET DOMAIN counts |-> Body(sum, s)]
  <2>1. covered = [s \in SUBSET V |-> covered[s]]
    OBVIOUS
  <2> HIDE DEF Body, covered
  <2>2. covered = [s \in SUBSET DOMAIN counts |-> Body(covered, s)]
    BY <1>2, <1>4, <2>1
  <2>3. QED  BY <2>2
<1> HIDE DEF sum
<1> DEFINE T == {n \in Nat : \A s \in SUBSET V : Cardinality(s) = n => sum[s] = covered[s]}
<1>6. \A s \in SUBSET V : sum[s] = Body(sum, s)
  <2> HIDE DEF Body
  <2>1. QED  BY <1>2, <1>5
<1>7. \A s \in SUBSET V : /\ IsFiniteSet(s) /\ Cardinality(s) \in Nat
                          /\ Cardinality(s) = 0 <=> s = {}
  BY <1>3, FS_Subset, FS_CardinalityType, FS_EmptySet
<1>8. 0 \in T
  <2>1. sum[{}] = 0 /\ covered[{}] = 0
    BY <1>4, <1>6
  <2> HIDE DEF covered
  <2>2. QED  BY <1>7, <2>1
<1>9. ASSUME NEW n \in Nat, n \in T PROVE n + 1 \in T
  <2> HIDE DEF covered
  <2>1. SUFFICES ASSUME NEW s \in SUBSET V, Cardinality(s) = n + 1 PROVE sum[s] = covered[s]
    OBVIOUS
  <2> DEFINE x == CHOOSE y \in s : TRUE
  <2>2. s # {}
    BY <1>7, <2>1
  <2>3. x \in s /\ s \ {x} \in SUBSET V
    BY <2>2
  <2>4. Cardinality(s \ {x}) = n
    <3> HIDE DEF x
    <3>1. Cardinality(s \ {x}) = Cardinality(s) - 1
      BY <1>7, <2>3, FS_RemoveElement
    <3>2. QED  BY <2>1, <3>1
  <2>5. sum[s \ {x}] = covered[s \ {x}]
    BY <1>9, <2>3, <2>4
  <2>6. QED  BY <1>4, <1>6, <2>2, <2>5
<1> HIDE DEF T
<1>10. \A n \in Nat : n \in T
  BY <1>8, <1>9, EveryNumber
<1>11. sum[V] = covered[V]
  <2> HIDE DEF covered
  <2>1. Cardinality(V) \in T
    BY <1>7, <1>10
  <2>2. QED  BY <2>1 DEF T
<1>12. {i \in D : key[i] \in V} = D
  BY DEF V
<1>13. covered[V] = Cardinality(D)
  BY <1>12
<1>14. QED  BY <1>1, <1>2, <1>11, <1>13 DEF D, counts

LEMMA FiniteParts ==
  ASSUME NEW S, NEW cases \in Seq(S), NEW part \in SUBSET DOMAIN cases
  PROVE  /\ IsFiniteSet(DOMAIN cases) /\ Cardinality(DOMAIN cases) = Len(cases)
         /\ Len(cases) \in Nat /\ IsFiniteSet(part) /\ Cardinality(part) \in Nat
         /\ Cardinality(part) <= Len(cases)
<1>1. DOMAIN cases = 1..Len(cases) /\ Len(cases) \in Nat
  OBVIOUS
<1>2. IsFiniteSet(1..Len(cases)) /\ Cardinality(1..Len(cases)) = Len(cases)
  <2> DEFINE n == Len(cases)
  <2>1. n \in Nat
    BY <1>1
  <2> HIDE DEF n
  <2>2. IsFiniteSet(1..n) /\ Cardinality(1..n) = n
    BY <2>1, FS_Interval
  <2>3. QED  BY <2>2 DEF n
<1>3. IsFiniteSet(part) /\ Cardinality(part) <= Cardinality(DOMAIN cases)
  BY <1>1, <1>2, FS_Subset
<1>4. QED  BY <1>1, <1>2, <1>3, FS_CardinalityType

\* The slices of a report cover its cases, and one with cases is valid.
LEMMA SlicesAddUp ==
  ASSUME NEW S, NEW cases \in Seq(S)
  PROVE  SumFunction(SampleCounts(ByIntentL1(cases))) = Len(cases)
<1> DEFINE key == [i \in DOMAIN cases |-> IntentL1[cases[i].query_id]]
<1>1. DOMAIN key = DOMAIN cases /\ \A i \in DOMAIN cases : key[i] = IntentL1[cases[i].query_id]
  OBVIOUS
<1>2. SampleCounts(ByIntentL1(cases)) = CountsBy(key)
  BY DEF SampleCounts, ByIntentL1, SliceMetrics, CountsBy
<1> HIDE DEF key
<1>3. IsFiniteSet(DOMAIN cases) /\ Cardinality(DOMAIN cases) = Len(cases)
  BY FiniteParts
<1>4. SumFunction(CountsBy(key)) = Cardinality(DOMAIN key)
  BY <1>1, <1>3, CountsAddUp
<1>5. QED  BY <1>1, <1>2, <1>3, <1>4

LEMMA SlicesAreValid ==
  ASSUME NEW S, NEW cases \in Seq(S), NEW slice \in SUBSET DOMAIN cases, slice # {}
  PROVE  SliceIsValid(SliceMetrics(cases, slice))
<1> DEFINE right == {i \in slice : Correct(cases[i])}
<1>1. IsFiniteSet(slice) /\ Cardinality(slice) \in Nat /\ Cardinality(slice) # 0
  BY FiniteParts, FS_EmptySet
<1>2. right \subseteq slice
  OBVIOUS
<1>3. Cardinality(right) <= Cardinality(slice)
  <2> HIDE DEF right
  <2>1. QED  BY <1>1, <1>2, FS_Subset
<1>4. QED  BY <1>1, <1>3 DEF SliceIsValid, SliceMetrics

-----------------------------------------------------------------------------
(* Verdicts                                                                *)

\* One score ranks before the others, and one of the rest before the last.
LEMMA TopAndSecond ==
  ASSUME NEW scores \in [1..3 -> Nat]
  PROVE  LET top    == CHOOSE i \in 1..3 : \A j \in (1..3) \ {i} : RanksBefore(scores, i, j)
             second == CHOOSE i \in (1..3) \ {top} :
                         \A j \in (1..3) \ {top, i} : RanksBefore(scores, i, j)
         IN  top \in 1..3 /\ second \in 1..3
<1> DEFINE top == CHOOSE i \in 1..3 : \A j \in (1..3) \ {i} : RanksBefore(scores, i, j)
           second == CHOOSE i \in (1..3) \ {top} :
                       \A j \in (1..3) \ {top, i} : RanksBefore(scores, i, j)
<1>1. scores[1] \in Nat /\ scores[2] \in Nat /\ scores[3] \in Nat /\ 1..3 = {1, 2, 3}
  OBVIOUS
<1>2. \E i \in 1..3 : \A j \in (1..3) \ {i} : RanksBefore(scores, i, j)
  <2>1. CASE RanksBefore(scores, 1, 2) /\ RanksBefore(scores, 1, 3)
    BY <1>1, <2>1
  <2>2. CASE RanksBefore(scores, 2, 1) /\ RanksBefore(scores, 2, 3)
    BY <1>1, <2>2
  <2>3. CASE RanksBefore(scores, 3, 1) /\ RanksBefore(scores, 3, 2)
    BY <1>1, <2>3
  <2>4. QED  BY <1>1, <2>1, <2>2, <2>3 DEF RanksBefore
<1>3. top \in 1..3
  BY <1>2
<1> HIDE DEF top
<1>4. \E i \in (1..3) \ {top} : \A j \in (1..3) \ {top, i} : RanksBefore(scores, i, j)
  <2>1. PICK i \in (1..3) \ {top}, j \in (1..3) \ {top} : i # j /\ (1..3) \ {top} = {i, j}
    BY <1>1, <1>3
  <2>2. RanksBefore(scores, i, j) \/ RanksBefore(scores, j, i)
    BY <1>1, <2>1 DEF RanksBefore
  <2>3. (1..3) \ {top, i} = {j} /\ (1..3) \ {top, j} = {i}
    BY <2>1
  <2>4. QED  BY <2>2, <2>3
<1>5. second \in 1..3
  BY <1>4
<1>6. QED  BY <1>3, <1>5 DEF top

\* A verdict is one of the routes; stricter limits give the same or a question.
LEMMA VerdictMeans ==
  ASSUME NEW scores \in [1..3 -> Nat], NEW threshold \in Nat, NEW margin \in Nat
  PROVE  LET loose  == SelectIntentRoute(scores, threshold, margin)[1]
             strict == SelectIntentRoute(scores, threshold + 1, margin + 1)[1]
         IN  /\ loose \in {"system_direct", "knowledge_base", "clarification"}
             /\ strict \in {loose, "clarification"}
<1> DEFINE top == CHOOSE i \in 1..3 : \A j \in (1..3) \ {i} : RanksBefore(scores, i, j)
           second == CHOOSE i \in (1..3) \ {top} :
                       \A j \in (1..3) \ {top, i} : RanksBefore(scores, i, j)
           Verdict(h, m) ==
             CASE scores[top] < h -> <<"clarification", "low_confidence">>
               [] scores[top] >= h /\ scores[top] - scores[second] < m
                    -> <<"clarification", "ambiguous">>
               [] OTHER -> <<Routes[top], IF top = 3 THEN "explicit_clarification"
                                                     ELSE "high_confidence">>
<1>1. \A h, m : SelectIntentRoute(scores, h, m) = Verdict(h, m)
  BY DEF SelectIntentRoute
<1>2. top \in 1..3 /\ second \in 1..3
  BY TopAndSecond
<1> HIDE DEF top, second
<1>3. scores[top] \in Nat /\ scores[second] \in Nat
  BY <1>2
<1>4. Routes[top] \in {"system_direct", "knowledge_base", "clarification"}
  BY <1>2 DEF Routes
<1>5. ASSUME NEW h \in Nat, NEW m \in Nat
      PROVE  /\ scores[top] >= h /\ scores[top] - scores[second] >= m => Verdict(h, m)[1] = Routes[top]
             /\ ~(scores[top] >= h /\ scores[top] - scores[second] >= m)
                  => Verdict(h, m)[1] = "clarification"
  <2>1. CASE scores[top] < h
    BY <1>3, <2>1
  <2>2. CASE scores[top] >= h /\ scores[top] - scores[second] < m
    BY <1>3, <2>2
  <2>3. CASE scores[top] >= h /\ scores[top] - scores[second] >= m
    BY <1>3, <2>3
  <2>4. QED  BY <1>3, <2>1, <2>2, <2>3
<1> HIDE DEF Verdict
<1>6. threshold + 1 \in Nat /\ margin + 1 \in Nat
  OBVIOUS
<1>7. QED  BY <1>1, <1>3, <1>4, <1>5, <1>6

\* A case keeps the scores that its verdict came from.
LEMMA CaseMeans ==
  ASSUME NEW case \in Cases
  PROVE  /\ case = CaseResult(case.query_id, case.scores, HighConfidenceThreshold, AmbiguityMargin)
         /\ case.route \in {"system_direct", "knowledge_base", "clarification"}
         /\ CaseResult(case.query_id, case.scores, HighConfidenceThreshold + 1,
                       AmbiguityMargin + 1).route \in {case.route, "clarification"}
<1>1. PICK id \in AllIds, scores \in AllReplies :
        case = CaseResult(id, scores, HighConfidenceThreshold, AmbiguityMargin)
  BY DEF Cases
<1>2. case.query_id = id /\ case.scores = scores
      /\ case.route = SelectIntentRoute(scores, HighConfidenceThreshold, AmbiguityMargin)[1]
  BY <1>1 DEF CaseResult
<1>3. scores \in [1..3 -> Nat]
  BY EvaluationAssumption DEF AllReplies
<1>4. HighConfidenceThreshold \in Nat /\ AmbiguityMargin \in Nat
  BY ScoringAssumption
<1>5. CaseResult(id, scores, HighConfidenceThreshold + 1, AmbiguityMargin + 1).route
        = SelectIntentRoute(scores, HighConfidenceThreshold + 1, AmbiguityMargin + 1)[1]
  BY DEF CaseResult
<1>6. QED  BY <1>1, <1>2, <1>3, <1>4, <1>5, VerdictMeans

\* A wrong case retrieved what it should not, did not retrieve what it should, or
\* asked back, and only one of them.
LEMMA WrongCases ==
  ASSUME NEW case \in Cases
  PROVE  /\ ~Correct(case) <=> OverRetrieval(case) \/ UnderRetrieval(case) \/ Clarification(case)
         /\ ~(OverRetrieval(case) /\ UnderRetrieval(case))
         /\ ~(OverRetrieval(case) /\ Clarification(case))
         /\ ~(UnderRetrieval(case) /\ Clarification(case))
<1>1. ExpectedRoute(case.query_id) \in {"knowledge_base", "system_direct"}
  BY DEF ExpectedRoute
<1>2. case.route \in {"system_direct", "knowledge_base", "clarification"}
  BY CaseMeans
<1>3. QED  BY <1>1, <1>2 DEF Correct, OverRetrieval, UnderRetrieval, Clarification

LEMMA ThreeWays ==
  ASSUME NEW S, IsFiniteSet(S), NEW A \in SUBSET S, NEW B \in SUBSET S, NEW C \in SUBSET S,
         S = A \cup B \cup C, A \cap B = {}, A \cap C = {}, B \cap C = {}
  PROVE  Cardinality(S) = Cardinality(A) + Cardinality(B) + Cardinality(C)
<1>1. /\ IsFiniteSet(A) /\ IsFiniteSet(B) /\ IsFiniteSet(C) /\ IsFiniteSet(A \cup B)
      /\ Cardinality(A) \in Nat /\ Cardinality(B) \in Nat /\ Cardinality(C) \in Nat
  BY FS_Subset, FS_CardinalityType
<1>2. Cardinality({}) = 0 /\ (A \cup B) \cap C = {}
  BY FS_EmptySet
<1>3. Cardinality(A \cup B) = Cardinality(A) + Cardinality(B) - Cardinality(A \cap B)
  BY <1>1, FS_Union
<1>4. Cardinality((A \cup B) \cup C)
        = Cardinality(A \cup B) + Cardinality(C) - Cardinality((A \cup B) \cap C)
  BY <1>1, FS_Union
<1>5. Cardinality(A \cup B) = Cardinality(A) + Cardinality(B)
  <2>1. Cardinality(A \cap B) = 0
    BY <1>2, Zenon
  <2>2. QED  BY <1>1, <1>3, <2>1
<1>6. Cardinality((A \cup B) \cup C) = Cardinality(A \cup B) + Cardinality(C)
  <2>1. Cardinality((A \cup B) \cap C) = 0
    BY <1>2, Zenon
  <2>2. QED  BY <1>1, <1>4, <1>5, <2>1
<1>7. QED  BY <1>5, <1>6

\* A bucket names each of its cases once.
LEMMA NamesAreCounted ==
  ASSUME NEW cases \in Seq(Cases), IsInjective(QueryIds(cases)), NEW part \in SUBSET DOMAIN cases
  PROVE  Cardinality({cases[i].query_id : i \in part}) = Cardinality(part)
<1> DEFINE names == {cases[i].query_id : i \in part}
           f == [i \in part |-> cases[i].query_id]
<1>1. IsFiniteSet(part)
  BY FiniteParts
<1>2. \A i, j \in part : cases[i].query_id = cases[j].query_id => i = j
  BY DEF IsInjective, QueryIds
<1>3. f \in Bijection(part, names)
  BY <1>2 DEF Bijection, Injection, Surjection, IsInjective
<1> HIDE DEF f, names
<1>4. Cardinality(names) = Cardinality(part)
  BY <1>1, <1>3, FS_Bijection DEF ExistsBijection
<1>5. QED  BY <1>4 DEF names

\* The failure analysis of a full report partitions the wrong cases.
LEMMA AnalysisHolds ==
  ASSUME NEW cases \in Seq(Cases), IsInjective(QueryIds(cases)), NEW report,
         report.cases = cases, report.sample_count = Len(cases),
         report.overall = SliceMetrics(cases, DOMAIN cases)
  PROVE  LET analysis == FailureAnalysis(report)
         IN  /\ AnalysisIsValid(analysis)
             /\ analysis.under + analysis.over + analysis.clarification = analysis.incorrect_count
<1> DEFINE analysis == FailureAnalysis(report)
           D == DOMAIN cases
           wrong == {i \in D : ~Correct(cases[i])}
           right == {i \in D : Correct(cases[i])}
           Key(i) == BucketKey(cases[i])
           Bucket(key) == {i \in wrong : Key(i) = key}
           labels == [i \in wrong |-> IntentL1[cases[i].query_id]]
           reasons == [i \in wrong |-> cases[i].reason]
           keys == [i \in wrong |-> Key(i)]
           buckets == [key \in {Key(i) : i \in wrong} |->
                         [sample_count |-> Cardinality(Bucket(key)),
                          query_ids |-> {cases[i].query_id : i \in Bucket(key)}]]
           over == {i \in wrong : OverRetrieval(cases[i])}
           under == {i \in wrong : UnderRetrieval(cases[i])}
           clarification == {i \in wrong : Clarification(cases[i])}
<1>1. /\ analysis.sample_count = Len(cases)
      /\ analysis.correct_count = Cardinality(right)
      /\ analysis.incorrect_count = Cardinality(wrong)
      /\ analysis.over = Cardinality(over) /\ analysis.under = Cardinality(under)
      /\ analysis.clarification = Cardinality(clarification)
      /\ analysis.by_intent_l1 = CountsBy(labels) /\ analysis.by_reason = CountsBy(reasons)
      /\ analysis.buckets = buckets
  BY DEF FailureAnalysis, SliceMetrics
<1>2. /\ IsFiniteSet(D) /\ Cardinality(D) = Len(cases) /\ IsFiniteSet(wrong) /\ IsFiniteSet(right)
      /\ Cardinality(wrong) \in Nat /\ Cardinality(right) \in Nat
  BY FiniteParts
<1> HIDE DEF analysis
<1>3. Cardinality(right) + Cardinality(wrong) = Len(cases)
  <2>1. D = right \cup wrong \cup {} /\ right \cap wrong = {} /\ {} \in SUBSET D
    OBVIOUS
  <2>2. Cardinality({}) = 0
    BY FS_EmptySet
  <2> HIDE DEF right, wrong, D
  <2>3. right \in SUBSET D /\ wrong \in SUBSET D
    BY DEF right, wrong
  <2>4. Cardinality(D) = Cardinality(right) + Cardinality(wrong) + Cardinality({})
    BY <1>2, <2>1, <2>3, ThreeWays
  <2>5. QED  BY <1>2, <2>2, <2>4
<1>4. SumFunction(CountsBy(labels)) = Cardinality(wrong)
      /\ SumFunction(CountsBy(reasons)) = Cardinality(wrong)
      /\ SumFunction(CountsBy(keys)) = Cardinality(wrong)
  <2>1. DOMAIN labels = wrong /\ DOMAIN reasons = wrong /\ DOMAIN keys = wrong
    OBVIOUS
  <2> HIDE DEF labels, reasons, keys, wrong
  <2>2. QED  BY <1>2, <2>1, CountsAddUp
<1>5. SampleCounts(buckets) = CountsBy(keys)
  BY DEF SampleCounts, CountsBy
<1>6. ASSUME NEW key \in DOMAIN buckets
      PROVE  /\ buckets[key].sample_count >= 1
             /\ Cardinality(buckets[key].query_ids) = buckets[key].sample_count
  <2>1. PICK i \in wrong : key = Key(i)
    OBVIOUS
  <2>2. Bucket(key) # {} /\ Bucket(key) \in SUBSET D
    BY <2>1
  <2>3. buckets[key].sample_count = Cardinality(Bucket(key))
        /\ buckets[key].query_ids = {cases[j].query_id : j \in Bucket(key)}
    OBVIOUS
  <2> HIDE DEF buckets, Bucket
  <2>4. Cardinality(Bucket(key)) \in Nat /\ Cardinality(Bucket(key)) # 0
    BY <2>2, FiniteParts, FS_EmptySet
  <2>5. Cardinality({cases[j].query_id : j \in Bucket(key)}) = Cardinality(Bucket(key))
    BY <2>2, NamesAreCounted
  <2>6. QED  BY <2>3, <2>4, <2>5
<1>7. ASSUME NEW one \in DOMAIN buckets, NEW other \in DOMAIN buckets, one # other
      PROVE  buckets[one].query_ids \cap buckets[other].query_ids = {}
  <2>1. \A i, j \in D : cases[i].query_id = cases[j].query_id => i = j
    BY DEF IsInjective, QueryIds
  <2>2. buckets[one].query_ids = {cases[j].query_id : j \in Bucket(one)}
        /\ buckets[other].query_ids = {cases[j].query_id : j \in Bucket(other)}
    OBVIOUS
  <2> HIDE DEF buckets, D, Key
  <2>3. QED  BY <1>7, <2>1, <2>2
<1>8. AnalysisIsValid(analysis)
  <2> HIDE DEF buckets, wrong, right, labels, reasons, keys
  <2>1. QED  BY <1>1, <1>3, <1>4, <1>5, <1>6, <1>7 DEF AnalysisIsValid
<1>9. Cardinality(wrong) = Cardinality(under) + Cardinality(over) + Cardinality(clarification)
  <2>1. \A i \in D : cases[i] \in Cases
    OBVIOUS
  <2>2. /\ wrong = under \cup over \cup clarification
        /\ under \cap over = {} /\ under \cap clarification = {} /\ over \cap clarification = {}
    BY <2>1, WrongCases
  <2>3. under \in SUBSET wrong /\ over \in SUBSET wrong /\ clarification \in SUBSET wrong
    OBVIOUS
  <2>4. IsFiniteSet(wrong)
    BY <1>2
  <2> HIDE DEF under, over, clarification, wrong
  <2>5. QED  BY <2>2, <2>3, <2>4, ThreeWays
<1>10. QED  BY <1>1, <1>8, <1>9 DEF analysis

\* Replaying the scores at the limits of a report changes nothing, and stricter
\* limits turn routes into clarifications.
LEMMA ReplayMeans ==
  ASSUME NEW cases \in Seq(Cases), NEW report,
         report = FullReport(cases, HighConfidenceThreshold, AmbiguityMargin)
  PROVE  /\ ReplayThresholds(report, HighConfidenceThreshold, AmbiguityMargin) = report
         /\ \A i \in DOMAIN cases :
              ReplayThresholds(report, HighConfidenceThreshold + 1, AmbiguityMargin + 1).cases[i].route
                \in {cases[i].route, "clarification"}
<1> DEFINE Replayed(h, m) == [i \in DOMAIN cases |-> CaseResult(cases[i].query_id, cases[i].scores, h, m)]
<1>1. report.cases = cases
  BY DEF FullReport
<1>2. \A h, m : ReplayThresholds(report, h, m) = FullReport(Replayed(h, m), h, m)
  BY <1>1 DEF ReplayThresholds
<1>3. \A i \in DOMAIN cases : cases[i] \in Cases
  OBVIOUS
<1>4. Replayed(HighConfidenceThreshold, AmbiguityMargin) = cases
  <2>1. \A i \in DOMAIN cases :
          CaseResult(cases[i].query_id, cases[i].scores, HighConfidenceThreshold, AmbiguityMargin)
            = cases[i]
    BY <1>3, CaseMeans
  <2>2. cases = [i \in DOMAIN cases |-> cases[i]]
    OBVIOUS
  <2>3. QED  BY <2>1, <2>2
<1>5. ASSUME NEW h, NEW m PROVE FullReport(Replayed(h, m), h, m).cases = Replayed(h, m)
  BY DEF FullReport
<1>6. ASSUME NEW i \in DOMAIN cases
      PROVE  Replayed(HighConfidenceThreshold + 1, AmbiguityMargin + 1)[i].route
               \in {cases[i].route, "clarification"}
  BY <1>3, CaseMeans
<1> HIDE DEF Replayed
<1>7. QED  BY <1>2, <1>4, <1>5, <1>6

-----------------------------------------------------------------------------
(* The reports of the intent evaluations                                   *)

\* What the process r of a stage has collected towards its report.
Collected(r, name) ==
  LET ids == StageIds(r.stage, r.experiment.manifest)
  IN /\ r.before + r.new = Len(ids)
     /\ r.pc \notin {"record", "fill", "rename"} => ~r.degraded
     /\ \A i \in DOMAIN ids :
          \/ i \in r.pending \/ ids[i] \in CompletedIds(r.cache)
          \/ r.degraded
          \/ r.pc = "waiting" /\ r.current = ids[i]
     /\ r.pc = "full_report" => r.stage = "full" /\ r.pending = {}
     /\ name = "staged" /\ r.stage = "full" =>
          GatePassed("guard", r.experiment.manifest, r.cache)

CollectedShape(p) == Collected(run[p], program)

\* The report of a stage and the cases on disk that it is about.
ReportedStage(stage) ==
  LET report   == stageReports[stage]
      manifest == cache.experiment.manifest
      ids      == StageIds(stage, manifest)
  IN /\ Locks /\ Readable(cache) /\ stage \in StagesOf
     /\ ids \in Seq(IdsOf) /\ IsInjective(ids) /\ ToSet(ids) \subseteq CompletedIds(cache)
     /\ report.cases = CachedCases(ids, cache)
     /\ report.under = CountOf(report.cases, UnderRetrieval)
     /\ report.overall = SliceMetrics(report.cases, DOMAIN report.cases)
     /\ report.gate = GateOf(stage, report.cases, manifest)
     /\ stage = "full" => GatePassed("guard", manifest, cache)

\* The full report is made of one case for each sample, routed at the limits.
FullReportShape ==
  Readable(fullReport) =>
    /\ fullReport.cases \in Seq(Cases) /\ IsCompleteSequence(fullReport.cases)
    /\ fullReport = FullReport(fullReport.cases, HighConfidenceThreshold, AmbiguityMargin)

ReportInv ==
  /\ \A p \in Processes : Working(p) => CollectedShape(p)
  /\ DOMAIN stageReports = Stages
  /\ \A stage \in Stages : stageReports[stage] # Absent => ReportedStage(stage)
  /\ FullReportShape

-----------------------------------------------------------------------------
(* Cases that stay                                                         *)

\* The cases of paid ids are the same in every later state of a cache.
LEMMA CasesStay ==
  ASSUME NEW S, NEW ids \in Seq(S), NEW file, NEW later,
         file.completed \in Seq(Cases), IsInjective(QueryIds(file.completed)),
         later.completed \in Seq(Cases), IsInjective(QueryIds(later.completed)),
         ToSet(file.completed) \subseteq ToSet(later.completed),
         ToSet(ids) \subseteq CompletedIds(file)
  PROVE  /\ ToSet(ids) \subseteq CompletedIds(later)
         /\ CachedCases(ids, later) = CachedCases(ids, file)
<1>1. CompletedIds(file) \subseteq CompletedIds(later)
  <2>1. ASSUME NEW i \in DOMAIN file.completed
        PROVE  file.completed[i].query_id \in CompletedIds(later)
    <3>1. file.completed[i] \in ToSet(later.completed)
      BY DEF ToSet
    <3>2. PICK j \in DOMAIN later.completed : later.completed[j] = file.completed[i]
      BY <3>1 DEF ToSet
    <3>3. QED  BY <3>2 DEF CompletedIds
  <2>2. QED  BY <2>1 DEF CompletedIds
<1>2. ToSet(ids) \subseteq CompletedIds(later)
  BY <1>1
<1>3. /\ \A i \in DOMAIN ids : /\ CachedCases(ids, file)[i] \in ToSet(file.completed)
                               /\ CachedCases(ids, file)[i].query_id = ids[i]
      /\ \A i \in DOMAIN ids : /\ CachedCases(ids, later)[i] \in ToSet(later.completed)
                               /\ CachedCases(ids, later)[i].query_id = ids[i]
      /\ \A case, other \in ToSet(later.completed) : case.query_id = other.query_id => case = other
  BY <1>2, CasesAreCached
<1>4. \A i \in DOMAIN ids : CachedCases(ids, later)[i] = CachedCases(ids, file)[i]
  BY <1>3
<1>5. /\ CachedCases(ids, later) = [i \in DOMAIN ids |-> CachedCases(ids, later)[i]]
      /\ CachedCases(ids, file) = [i \in DOMAIN ids |-> CachedCases(ids, file)[i]]
  BY DEF CachedCases
<1>6. QED  BY <1>2, <1>4, <1>5

\* So a gate that has passed over a cache stays passed.
LEMMA PassedGatesStay ==
  ASSUME NEW S, NEW stage, NEW manifest, StageIds(stage, manifest) \in Seq(S), NEW file, NEW later,
         file.completed \in Seq(Cases), IsInjective(QueryIds(file.completed)),
         later.completed \in Seq(Cases), IsInjective(QueryIds(later.completed)),
         ToSet(file.completed) \subseteq ToSet(later.completed),
         GatePassed(stage, manifest, file)
  PROVE  GatePassed(stage, manifest, later)
<1> DEFINE ids == StageIds(stage, manifest)
<1>1. ids \in Seq(S) /\ ToSet(ids) \subseteq CompletedIds(file)
      /\ GateOf(stage, CachedCases(ids, file), manifest).passed
  BY DEF GatePassed
<1> HIDE DEF ids
<1>2. ToSet(ids) \subseteq CompletedIds(later) /\ CachedCases(ids, later) = CachedCases(ids, file)
  BY <1>1, CasesStay
<1>3. QED  BY <1>1, <1>2 DEF GatePassed, ids

\* A cache as the reports use it.
LEMMA CacheMeans ==
  ASSUME NEW file, ValidCache(file)
  PROVE  /\ file.completed \in Seq(Cases) /\ IsInjective(QueryIds(file.completed))
         /\ CompletedIds(file) \subseteq IdsOf
BY DEF ValidCache, CacheRecords, CacheIsValid, CacheShapeIsValid

\* The sequence of cases of paid ids.
LEMMA CachedSequence ==
  ASSUME NEW S, NEW ids \in Seq(S), NEW file, file.completed \in Seq(Cases),
         IsInjective(QueryIds(file.completed)), ToSet(ids) \subseteq CompletedIds(file)
  PROVE  /\ CachedCases(ids, file) \in Seq(Cases)
         /\ Len(CachedCases(ids, file)) = Len(ids)
         /\ QueryIds(CachedCases(ids, file)) = ids
<1> DEFINE cases == CachedCases(ids, file)
<1>1. /\ DOMAIN cases = DOMAIN ids
      /\ \A i \in DOMAIN ids : cases[i] \in ToSet(file.completed) /\ cases[i].query_id = ids[i]
  BY CasesAreCached
<1>2. cases = [i \in DOMAIN ids |-> cases[i]]
  BY DEF CachedCases
<1>3. ToSet(file.completed) \subseteq Cases
  BY DEF ToSet
<1> HIDE DEF cases
<1>4. ids = [i \in 1..Len(ids) |-> ids[i]] /\ DOMAIN ids = 1..Len(ids) /\ Len(ids) \in Nat
  OBVIOUS
<1>5. cases \in Seq(Cases) /\ Len(cases) = Len(ids)
  BY <1>1, <1>2, <1>3, <1>4
<1>6. QueryIds(cases) = [i \in DOMAIN ids |-> ids[i]]
  BY <1>1 DEF QueryIds
<1>7. QED  BY <1>4, <1>5, <1>6 DEF cases

-----------------------------------------------------------------------------
(* A finished stage can be reported                                        *)

\* Each stage has questions of both routes.
LEMMA BothRoutes ==
  ASSUME TypeOK, NEW stage \in StagesOf, NEW manifest,
         program = "staged" => Manifest(manifest)
  PROVE  program # "full" =>
           /\ \E id \in ToSet(StageIds(stage, manifest)) : ExpectedRoute(id) = "knowledge_base"
           /\ \E id \in ToSet(StageIds(stage, manifest)) : ExpectedRoute(id) = "system_direct"
<1>1. program \in {"staged", "candidate", "full"}
  BY EvaluationAssumption DEF TypeOK
<1>2. ASSUME NEW ids, NEW part \in {BaselineFailures, ToSet(DevelopmentIds), ToSet(ChallengeIds)},
             part \subseteq ids
      PROVE  /\ \E id \in ids : ExpectedRoute(id) = "knowledge_base"
             /\ \E id \in ids : ExpectedRoute(id) = "system_direct"
  <2>1. PICK one, other : one \in part \cap RagIds /\ other \in part \ RagIds
    BY RoutesAssumption
  <2>2. ExpectedRoute(one) = "knowledge_base" /\ ExpectedRoute(other) = "system_direct"
    BY <2>1 DEF ExpectedRoute
  <2>3. one \in ids /\ other \in ids
    BY <1>2, <2>1
  <2>4. QED  BY <2>2, <2>3
<1>3. CASE program = "staged"
  <2>1. /\ ToSet(manifest.failures) = BaselineFailures
        /\ ToSet(manifest.failures \o manifest.guards) = BaselineFailures \cup ToSet(manifest.guards)
        /\ BaselineFailures \subseteq ToSet(Dataset)
    BY <1>3, ManifestIds, ScoringAssumption
  <2>2. stage \in {"failures", "guard", "full"}
    BY <1>3 DEF StagesOf, StagedStages
  <2>3. BaselineFailures \subseteq ToSet(StageIds(stage, manifest))
    BY <2>1, <2>2 DEF StageIds
  <2>4. QED  BY <1>2, <2>3
<1>4. CASE program = "candidate"
  <2>1. stage \in {"development", "challenge"}
    BY <1>4 DEF StagesOf, CandidateStages
  <2>2. \/ StageIds(stage, manifest) = DevelopmentIds
        \/ StageIds(stage, manifest) = ChallengeIds
    BY <2>1 DEF StageIds
  <2>3. QED  BY <1>2, <2>2
<1>5. QED  BY <1>1, <1>3, <1>4

LEMMA SequencesAreFinite ==
  ASSUME NEW S, NEW ids \in Seq(S)
  PROVE  IsFiniteSet(ToSet(ids))
<1>1. IsFiniteSet(DOMAIN ids)
  BY FiniteParts
<1>2. ids \in Surjection(DOMAIN ids, ToSet(ids))
  <2>1. ids = [i \in DOMAIN ids |-> ids[i]]
    OBVIOUS
  <2>2. ToSet(ids) = {ids[i] : i \in DOMAIN ids}
    BY DEF ToSet
  <2>3. QED  BY <2>1, <2>2 DEF Surjection
<1>3. QED  BY <1>1, <1>2, FS_Surjection

\* A cache has one case for each of its ids.
LEMMA CasesAreNamed ==
  ASSUME NEW cases \in Seq(Cases), IsInjective(QueryIds(cases))
  PROVE  /\ IsFiniteSet({cases[i].query_id : i \in DOMAIN cases})
         /\ Cardinality({cases[i].query_id : i \in DOMAIN cases}) = Len(cases)
<1> DEFINE names == {cases[i].query_id : i \in DOMAIN cases}
<1>1. DOMAIN cases \in SUBSET DOMAIN cases
  OBVIOUS
<1>2. Cardinality(names) = Cardinality(DOMAIN cases) /\ Cardinality(DOMAIN cases) = Len(cases)
  BY <1>1, NamesAreCounted, FiniteParts
<1>3. IsFiniteSet(names)
  <2>1. QueryIds(cases) \in Seq(AllIds)
    <3>1. \A i \in DOMAIN cases : cases[i].query_id \in AllIds
      BY CaseFields
    <3>2. QED  BY <3>1 DEF QueryIds
  <2>2. names = ToSet(QueryIds(cases))
    BY DEF QueryIds, ToSet
  <2> HIDE DEF names
  <2>3. QED  BY <2>1, <2>2, SequencesAreFinite
<1>4. QED  BY <1>2, <1>3

LEMMA IdsAreFinite ==
  IsFiniteSet(IdsOf) /\ Cardinality(IdsOf) \in Nat
<1>1. IsFiniteSet(ToSet(DevelopmentIds \o ChallengeIds)) /\ IsFiniteSet(ToSet(Dataset))
  <2>1. DevelopmentIds \o ChallengeIds \in Seq(AllIds) /\ Dataset \in Seq(ToSet(Dataset))
    BY SequencesOfIds
  <2>2. QED  BY <2>1, SequencesAreFinite
<1>2. QED  BY <1>1, FS_CardinalityType DEF IdsOf

\* What a process that has collected its cases reports.
LEMMA CollectedIsComplete ==
  ASSUME IInv, ReportInv, NEW p \in Processes, Finished(p)
  PROVE  /\ Working(p) /\ ValidCache(run[p].cache) /\ run[p].cache.experiment = run[p].experiment
         /\ run[p].stage \in StagesOf /\ IdsFor(p) \in Seq(IdsOf) /\ IsInjective(IdsFor(p))
         /\ ToSet(IdsFor(p)) \subseteq CompletedIds(run[p].cache)
         /\ CollectedShape(p)
         /\ program = "staged" => Manifest(run[p].experiment.manifest)
<1>1. TypeOK /\ Working(p) /\ run[p].pc = "next" /\ run[p].pending = {} /\ run[p] # Idle
  BY DEF IInv, Finished, Working, WorkPcs
<1>2. /\ RunShape(p) /\ CollectedShape(p)
  BY <1>1 DEF IInv, ReportInv
<1>3. ToSet(IdsFor(p)) \subseteq CompletedIds(run[p].cache)
  BY <1>1, <1>2 DEF CollectedShape, Collected, IdsFor, ToSet
<1>4. program = "staged" => Manifest(run[p].experiment.manifest)
  <2>1. ASSUME program = "staged" PROVE Manifest(run[p].experiment.manifest)
    <3>1. run[p].experiment \in Experiments[program] /\ ManifestIsValid(run[p].experiment.manifest)
      BY <1>1, <1>2, <2>1 DEF RunShape, WorklistShape
    <3>2. program \in Programs
      BY <1>1 DEF TypeOK
    <3>3. QED  BY <3>1, <3>2, EvaluationAssumption DEF Manifest
  <2>2. QED  BY <2>1
<1>5. QED  BY <1>1, <1>2, <1>3, <1>4 DEF RunShape, WorklistShape

\* A finished stage can always be reported: no validator refuses its report.
LEMMA FinishedIsReported ==
  ASSUME IInv, ReportInv, NEW p \in Processes, Finished(p), program # "full"
  PROVE  ReportIsValid(ReportOf(p))
<1> DEFINE ids == IdsFor(p)
           file == run[p].cache
           manifest == run[p].experiment.manifest
           cases == CachedCases(ids, file)
           total == Cardinality(IdsOf)
           rag == WithRoute(cases, "knowledge_base")
           direct == WithRoute(cases, "system_direct")
           report == ReportOf(p)
<1>1. /\ TypeOK /\ Working(p) /\ ValidCache(file) /\ run[p].stage \in StagesOf
      /\ ids \in Seq(IdsOf) /\ IsInjective(ids) /\ ToSet(ids) \subseteq CompletedIds(file)
      /\ program = "staged" => Manifest(manifest)
      /\ run[p].before + run[p].new = Len(ids)
  BY CollectedIsComplete DEF IInv, CollectedShape, Collected, IdsFor
<1>2. /\ file.completed \in Seq(Cases) /\ IsInjective(QueryIds(file.completed))
      /\ CompletedIds(file) \subseteq IdsOf
  BY <1>1, CacheMeans
<1>3. /\ cases \in Seq(Cases) /\ Len(cases) = Len(ids) /\ QueryIds(cases) = ids
  <2> HIDE DEF ids, file
  <2>1. QED  BY <1>1, <1>2, CachedSequence
<1>4. /\ report.target = Len(cases) /\ report.cases = cases
      /\ report.cached_before = run[p].before /\ report.new_calls = run[p].new
      /\ report.total_cached = Len(file.completed)
      /\ report.remaining = total - Len(file.completed)
      /\ report.by_intent_l1 = ByIntentL1(cases)
      /\ report.overall = SliceMetrics(cases, DOMAIN cases)
      /\ report.rag = SliceMetrics(cases, rag) /\ report.no_rag = SliceMetrics(cases, direct)
  BY DEF ReportOf, StageReport, IdsFor
<1>5. \A i \in DOMAIN cases : cases[i].query_id = ids[i]
  BY <1>3 DEF QueryIds
<1>6. DOMAIN cases = DOMAIN ids
  BY <1>3
<1> HIDE DEF report, total, cases, file
<1>7. rag # {} /\ direct # {} /\ rag \in SUBSET DOMAIN cases /\ direct \in SUBSET DOMAIN cases
  <2>1. /\ \E id \in ToSet(ids) : ExpectedRoute(id) = "knowledge_base"
        /\ \E id \in ToSet(ids) : ExpectedRoute(id) = "system_direct"
    BY <1>1, BothRoutes DEF IdsFor
  <2>2. \A id \in ToSet(ids) : \E i \in DOMAIN cases : cases[i].query_id = id
    BY <1>5, <1>6 DEF ToSet
  <2> HIDE DEF ids
  <2>3. QED  BY <2>1, <2>2 DEF WithRoute
<1>8. \A slice \in {report.overall, report.rag, report.no_rag} : SliceIsValid(slice)
  <2>1. DOMAIN cases # {} /\ DOMAIN cases \in SUBSET DOMAIN cases
    BY <1>7
  <2> HIDE DEF rag, direct
  <2>2. /\ SliceIsValid(SliceMetrics(cases, DOMAIN cases))
        /\ SliceIsValid(SliceMetrics(cases, rag)) /\ SliceIsValid(SliceMetrics(cases, direct))
    BY <1>3, <1>7, <2>1, SlicesAreValid
  <2>3. QED  BY <1>4, <2>2
<1>9. SumFunction(SampleCounts(report.by_intent_l1)) = Len(report.cases)
  BY <1>3, <1>4, SlicesAddUp
<1>10. Len(file.completed) <= total /\ Len(ids) <= Len(file.completed)
       /\ Len(file.completed) \in Nat /\ total \in Nat
  <2>1. IsFiniteSet(CompletedIds(file)) /\ Cardinality(CompletedIds(file)) = Len(file.completed)
    BY <1>2, CasesAreNamed DEF CompletedIds
  <2>2. Len(file.completed) <= total /\ total \in Nat
    BY <1>2, <2>1, IdsAreFinite, FS_Subset DEF total
  <2>3. {cases[i].query_id : i \in DOMAIN cases} = ToSet(ids)
    BY <1>5, <1>6 DEF ToSet
  <2>4. Cardinality(ToSet(ids)) = Len(ids)
    <3> HIDE DEF ids
    <3>1. Cardinality({cases[i].query_id : i \in DOMAIN cases}) = Len(cases)
      BY <1>1, <1>3, CasesAreNamed
    <3>2. QED  BY <1>3, <2>3, <3>1
  <2>5. Cardinality(ToSet(ids)) <= Cardinality(CompletedIds(file))
    BY <1>1, <2>1, FS_Subset
  <2>6. Len(file.completed) \in Nat
    BY <1>2
  <2> HIDE DEF ids
  <2>7. QED  BY <2>1, <2>2, <2>4, <2>5, <2>6
<1>11. StageCountsAreValid(report, total) /\ report.total_cached >= report.target
  <2>1. Len(ids) \in Nat
    BY <1>1
  <2> HIDE DEF ids, rag, direct
  <2>2. QED  BY <1>1, <1>3, <1>4, <1>8, <1>9, <1>10, <2>1 DEF StageCountsAreValid
<1>12. QED  BY <1>11 DEF ReportIsValid, StageReportIsValid, CandidateReportIsValid, report, total

\* A checkpoint with nothing left to send has every sample in order.
LEMMA FinishedPassIsComplete ==
  ASSUME IInv, NEW p \in Processes, Finished(p), program = "full"
  PROVE  IsCompleteSequence(run[p].cache.completed)
<1> DEFINE done == run[p].cache.completed
           ids == QueryIds(done)
<1>1. Working(p) /\ run[p].pc = "next" /\ run[p].pending = {}
  BY DEF Finished, Working, WorkPcs
<1>2. ValidCache(run[p].cache) /\ run[p].pending = (Len(done) + 1)..Len(Dataset)
  BY <1>1 DEF IInv, RunShape, OrderShape
<1>3. done \in Seq(Cases) /\ IsPrefix(ids, Dataset)
  BY <1>2, CacheMeans DEF ValidCache
<1>4. /\ Dataset \in Seq(ToSet(Dataset)) /\ Len(Dataset) \in Nat /\ Len(done) \in Nat
  BY <1>3, SequencesOfIds
<1>5. Len(ids) = Len(done) /\ ids = [i \in 1..Len(done) |-> ids[i]]
  BY <1>3 DEF QueryIds
<1> HIDE DEF done, ids
<1>6. (Len(done) + 1)..Len(Dataset) = {}
  BY <1>1, <1>2
<1>7. Len(Dataset) <= Len(done)
  <2>1. CASE Len(done) + 1 <= Len(Dataset)
    <3>1. Len(done) + 1 \in (Len(done) + 1)..Len(Dataset)
      BY <1>4, <2>1
    <3>2. QED  BY <1>6, <3>1
  <2>2. QED  BY <1>4, <2>1
<1>8. Len(ids) <= Len(Dataset) /\ \A i \in 1..Len(ids) : ids[i] = Dataset[i]
  <2>1. ids \in Seq(AllIds) /\ Dataset \in Seq(AllIds)
    <3>1. \A i \in DOMAIN done : done[i].query_id \in AllIds
      BY <1>3, CaseFields
    <3>2. ids \in Seq(AllIds)
      BY <1>3, <3>1 DEF QueryIds, ids
    <3>3. ToSet(Dataset) \subseteq AllIds
      BY DEF AllIds
    <3>4. QED  BY <1>4, <3>2, <3>3
  <2>2. QED  BY <1>3, <2>1, PrefixMeans
<1>9. Dataset = [i \in 1..Len(Dataset) |-> Dataset[i]]
  BY <1>4
<1>10. ids = Dataset
  <2>1. Len(done) = Len(Dataset)
    BY <1>4, <1>5, <1>7, <1>8
  <2>2. PICK n \in Nat : n = Len(done)
    BY <1>4
  <2>3. ids = [i \in 1..n |-> ids[i]] /\ Dataset = [i \in 1..n |-> Dataset[i]]
    BY <1>5, <1>9, <2>1, <2>2, Zenon
  <2>4. \A i \in 1..n : ids[i] = Dataset[i]
    BY <1>5, <1>8, <2>2
  <2>5. QED  BY <2>3, <2>4
<1>11. QED  BY <1>10 DEF IsCompleteSequence, ids, done

-----------------------------------------------------------------------------
(* The invariant of the reports, step by step                              *)

LEMMA ReportInit == IntentInit => ReportInv
<1> SUFFICES ASSUME IntentInit PROVE ReportInv
  OBVIOUS
<1>1. /\ \A p \in Processes : ~Working(p)
      /\ stageReports = [stage \in Stages |-> Absent] /\ fullReport = Absent
  BY DEF IntentInit, Working, Idle, WorkPcs, CallPcs
<1>2. FullReportShape
  BY <1>1 DEF FullReportShape, Readable
<1>3. QED  BY <1>1, <1>2 DEF ReportInv

\* Only the process of the step may collect.
LEMMA OthersCollect ==
  ASSUME ReportInv, NEW p \in Processes, program' = program,
         \A q \in Processes \ {p} : run'[q] = run[q],
         Working(p)' => CollectedShape(p)'
  PROVE  \A q \in Processes : Working(q)' => CollectedShape(q)'
<1> SUFFICES ASSUME NEW q \in Processes \ {p}, Working(q)' PROVE CollectedShape(q)'
  OBVIOUS
<1>1. run'[q] = run[q]
  OBVIOUS
<1>2. Working(q)
  BY <1>1 DEF Working
<1>3. Collected(run[q], program)
  BY <1>2 DEF ReportInv, CollectedShape
<1>4. Collected(run'[q], program')
  BY <1>1, <1>3
<1>5. QED  BY <1>4 DEF CollectedShape

\* A report stays true of a cache file that stays.
LEMMA ReportedStays ==
  ASSUME NEW stage, ReportedStage(stage), UNCHANGED <<program, cache>>,
         stageReports'[stage] = stageReports[stage]
  PROVE  ReportedStage(stage)'
<1>1. /\ Locks' = Locks /\ StagesOf' = StagesOf /\ IdsOf' = IdsOf
      /\ Readable(cache)' = Readable(cache)
  BY DEF Locks, StagesOf, IdsOf, Readable
<1>2. PICK file, report : file = cache /\ file = cache' /\ report = stageReports[stage]
                          /\ report = stageReports'[stage]
  OBVIOUS
<1>3. QED  BY <1>1, <1>2 DEF ReportedStage

LEMMA FullReportStays ==
  ASSUME FullReportShape, fullReport' = fullReport
  PROVE  FullReportShape'
BY DEF FullReportShape, Readable

\* A step that changes no file and ends the process or leaves it as it was.
LEMMA FilesKeepReports ==
  ASSUME ReportInv, UNCHANGED <<program, cache, stageReports, fullReport>>,
         \A q \in Processes : Working(q)' => CollectedShape(q)'
  PROVE  ReportInv'
<1>1. \A stage \in Stages : stageReports'[stage] # Absent => ReportedStage(stage)'
  BY ReportedStays DEF ReportInv
<1>2. FullReportShape'
  BY FullReportStays DEF ReportInv
<1>3. DOMAIN stageReports' = Stages
  BY DEF ReportInv
<1>4. QED  BY <1>1, <1>2, <1>3 DEF ReportInv

LEMMA EndsCollect ==
  ASSUME TypeOK, ReportInv, NEW p \in Processes, program' = program,
         \/ run[p] # Idle /\ Finish(p)
         \/ run' = [run EXCEPT ![p] = Idle]
         \/ \E stage, experiment :
              run' = [run EXCEPT ![p] = [pc |-> "load", stage |-> stage, experiment |-> experiment]]
  PROVE  \A q \in Processes : Working(q)' => CollectedShape(q)'
<1>1. \A q \in Processes \ {p} : run'[q] = run[q]
  BY Exits DEF TypeOK
<1>2. run'[p].pc \in {"exit", "idle", "load"}
  BY Exits DEF TypeOK, Idle
<1>3. ~Working(p)'
  BY <1>2 DEF Working, WorkPcs, CallPcs
<1>4. QED  BY <1>1, <1>3, OthersCollect

LEMMA QuietReports ==
  ASSUME IInv, ReportInv, NEW p \in Processes,
         \/ \E stage \in StagesOf, experiment \in Experiments[program] : Start(p, stage, experiment)
         \/ RenameFails(p) \/ Interrupt(p) \/ WriteFails(p) \/ Kill(p) \/ Release(p)
  PROVE  ReportInv'
<1>1. /\ UNCHANGED <<program, cache, stageReports, fullReport>> /\ TypeOK
      /\ \/ run[p] # Idle /\ Finish(p)
         \/ run' = [run EXCEPT ![p] = Idle]
         \/ \E stage, experiment :
              run' = [run EXCEPT ![p] = [pc |-> "load", stage |-> stage, experiment |-> experiment]]
  BY DEF IInv, Start, RenameFails, Interrupt, WriteFails, Kill, Release, files
<1>2. QED  BY <1>1, EndsCollect, FilesKeepReports

\* A process that goes on to another await keeps what it has collected.
LEMMA MovesCollect ==
  ASSUME TypeOK, ReportInv, NEW p \in Processes, Working(p), run[p].pc # "waiting",
         NEW pc \in WorkPcs \ {"waiting"}, Goto(p, pc), program' = program,
         pc \in {"record", "fill", "rename"} \/ ~run[p].degraded,
         pc = "full_report" => run[p].stage = "full" /\ run[p].pending = {}
  PROVE  \A q \in Processes : Working(q)' => CollectedShape(q)'
<1>1. run[p] \in LoadedRuns /\ pc \in WorkPcs \cup {"exit"}
  BY RunKinds
<1>2. /\ run'[p].pc = pc /\ run'[p].stage = run[p].stage /\ run'[p].experiment = run[p].experiment
      /\ run'[p].cache = run[p].cache /\ run'[p].pending = run[p].pending
      /\ run'[p].degraded = run[p].degraded
      /\ \A q \in Processes \ {p} : run'[q] = run[q]
  BY <1>1, Moves
<1>3. run'[p].before = run[p].before /\ run'[p].new = run[p].new
  <2>1. run'[p] = [run[p] EXCEPT !.pc = pc]
    BY DEF Goto, TypeOK
  <2>2. QED  BY <1>1, <2>1 DEF LoadedRuns
<1>4. Collected(run[p], program)
  BY DEF ReportInv, CollectedShape
<1>5. PICK r, s : r = run[p] /\ s = run'[p]
  OBVIOUS
<1>6. /\ s.pc = pc /\ s.stage = r.stage /\ s.experiment = r.experiment
      /\ s.cache = r.cache /\ s.pending = r.pending /\ s.degraded = r.degraded
      /\ s.before = r.before /\ s.new = r.new /\ r.pc # "waiting"
  BY <1>2, <1>3, <1>5
<1>7. Collected(s, program)
  <2>1. Collected(r, program)
    BY <1>4, <1>5
  <2>2. /\ pc \in {"record", "fill", "rename"} \/ ~r.degraded
        /\ pc = "full_report" => r.stage = "full" /\ r.pending = {}
    BY <1>5
  <2>3. /\ s.pc \notin {"record", "fill", "rename"} => ~s.degraded
        /\ s.pc = "full_report" => s.stage = "full" /\ s.pending = {}
        /\ s.before + s.new = Len(StageIds(s.stage, s.experiment.manifest))
    BY <1>6, <2>1, <2>2 DEF Collected
  <2>4. \A i \in DOMAIN StageIds(s.stage, s.experiment.manifest) :
          \/ i \in s.pending
          \/ StageIds(s.stage, s.experiment.manifest)[i] \in CompletedIds(s.cache)
          \/ s.degraded
    BY <1>6, <2>1 DEF Collected
  <2>5. program = "staged" /\ s.stage = "full" => GatePassed("guard", s.experiment.manifest, s.cache)
    BY <1>6, <2>1 DEF Collected
  <2>6. QED  BY <2>3, <2>4, <2>5 DEF Collected
<1>8. CollectedShape(p)'
  BY <1>5, <1>7 DEF CollectedShape
<1>9. QED  BY <1>2, <1>8, OthersCollect

LEMMA SendReports ==
  ASSUME IInv, ReportInv, NEW p \in Processes, Send(p)
  PROVE  ReportInv'
<1> DEFINE ids == IdsFor(p)
           first == Min(run[p].pending)
<1>1. /\ TypeOK /\ run[p] # Idle /\ run[p].pc = "next" /\ run[p].pending # {}
      /\ UNCHANGED <<program, cache, stageReports, fullReport>>
      /\ run' = [run EXCEPT ![p].pc = "waiting", ![p].pending = @ \ {first}, ![p].current = ids[first]]
  BY DEF IInv, Send, files, IdsFor
<1>2. Working(p) /\ run[p] \in LoadedRuns /\ CollectedShape(p)
  BY <1>1, RunKinds DEF Working, WorkPcs, ReportInv
<1> HIDE DEF first
<1>3. /\ \A q \in Processes \ {p} : run'[q] = run[q]
      /\ run'[p] = [run[p] EXCEPT !.pc = "waiting", !.pending = @ \ {first}, !.current = ids[first]]
  BY <1>1 DEF TypeOK
<1>4. /\ run'[p].pc = "waiting" /\ run'[p].stage = run[p].stage
      /\ run'[p].experiment = run[p].experiment /\ run'[p].cache = run[p].cache
      /\ run'[p].pending = run[p].pending \ {first} /\ run'[p].current = ids[first]
      /\ run'[p].degraded = run[p].degraded
      /\ run'[p].before = run[p].before /\ run'[p].new = run[p].new
  BY <1>2, <1>3 DEF LoadedRuns
<1>5. PICK r, s : r = run[p] /\ s = run'[p]
  OBVIOUS
<1>6. Collected(s, program)
  <2>1. /\ s.pc = "waiting" /\ s.stage = r.stage /\ s.experiment = r.experiment
        /\ s.cache = r.cache /\ s.pending = r.pending \ {first}
        /\ s.current = StageIds(r.stage, r.experiment.manifest)[first]
        /\ s.degraded = r.degraded /\ s.before = r.before /\ s.new = r.new /\ r.pc = "next"
    BY <1>1, <1>4, <1>5 DEF IdsFor
  <2>2. Collected(r, program)
    BY <1>2, <1>5 DEF CollectedShape
  <2>3. QED  BY <2>1, <2>2 DEF Collected
<1>7. CollectedShape(p)'
  BY <1>1, <1>5, <1>6 DEF CollectedShape
<1>8. QED  BY <1>1, <1>3, <1>7, OthersCollect, FilesKeepReports

\* A gate looks at the completed cases of a cache.
CasesIn(ids, done) == [i \in DOMAIN ids |-> CHOOSE case \in ToSet(done) : case.query_id = ids[i]]

LEMMA GatesOfCases ==
  ASSUME NEW stage, NEW manifest, NEW file, NEW later, later.completed = file.completed,
         GatePassed(stage, manifest, file)
  PROVE  GatePassed(stage, manifest, later)
<1> DEFINE ids == StageIds(stage, manifest)
<1>1. CompletedIds(later) = CompletedIds(file)
  BY DEF CompletedIds
<1>2. CachedCases(ids, file) = CasesIn(ids, file.completed)
      /\ CachedCases(ids, later) = CasesIn(ids, later.completed)
  BY Zenon DEF CachedCases, CasesIn
<1>3. CachedCases(ids, file) = CachedCases(ids, later)
  BY <1>2
<1> HIDE DEF ids
<1>4. /\ ToSet(ids) \subseteq CompletedIds(file)
      /\ GateOf(stage, CachedCases(ids, file), manifest).passed
  BY DEF GatePassed, ids
<1>5. QED  BY <1>1, <1>3, <1>4 DEF GatePassed, ids

\* The guard gate of a manifest is over ids of the dataset.
LEMMA GuardIds ==
  ASSUME NEW manifest, Manifest(manifest)
  PROVE  StageIds("guard", manifest) \in Seq(ToSet(Dataset))
BY ManifestIds DEF StageIds

LEMMA SucceedReports ==
  ASSUME IInv, IInv', ReportInv, NEW p \in Processes, NEW scores \in Replies[program],
         Succeed(p, scores)
  PROVE  ReportInv'
<1> DEFINE paid == CaseResult(run[p].current, scores, HighConfidenceThreshold, AmbiguityMargin)
<1>1. /\ TypeOK /\ run[p] # Idle /\ run[p].pc = "waiting"
      /\ UNCHANGED <<program, cache, stageReports, fullReport>>
      /\ run' = [run EXCEPT ![p].pc = "record", ![p].degraded = FALSE,
                   ![p].cache.completed = Append(@, paid)]
  BY DEF IInv, Succeed, files
<1>2. Working(p) /\ run[p] \in LoadedRuns /\ CollectedShape(p) /\ ValidCache(run[p].cache)
      /\ WorklistShape(p) /\ run[p].experiment \in Experiments[program]
  BY <1>1, RunKinds DEF Working, WorkPcs, CallPcs, ReportInv, IInv, RunShape
<1>3. paid \in Cases /\ paid.query_id = run[p].current
  <2>1. run[p].current \in IdsOf
    BY <1>1, <1>2 DEF WorklistShape, CallPcs
  <2>2. run[p].current \in AllIds
    BY <1>1, <2>1, SequencesOfIds
  <2>3. program \in Programs /\ scores \in AllReplies
    BY <1>1 DEF TypeOK, AllReplies
  <2>4. paid \in Cases
    BY <2>2, <2>3 DEF Cases
  <2>5. QED  BY <2>4 DEF CaseResult
<1> HIDE DEF paid
<1>4. /\ \A q \in Processes \ {p} : run'[q] = run[q]
      /\ run'[p] = [run[p] EXCEPT !.pc = "record", !.degraded = FALSE,
                      !.cache.completed = Append(@, paid)]
  BY <1>1 DEF TypeOK
<1>5. PICK r, s, done : r = run[p] /\ s = run'[p] /\ done = run[p].cache.completed
  OBVIOUS
<1>6. /\ s.pc = "record" /\ s.stage = r.stage /\ s.experiment = r.experiment
      /\ r.cache.completed = done /\ s.cache.completed = Append(done, paid)
      /\ s.pending = r.pending /\ s.before = r.before /\ s.new = r.new
      /\ r.pc = "waiting" /\ r.current = paid.query_id
  BY <1>1, <1>2, <1>3, <1>4, <1>5 DEF LoadedRuns, CacheRecords
<1>7. Collected(r, program)
  BY <1>2, <1>5 DEF CollectedShape
<1>8. done \in Seq(Cases) /\ IsInjective(QueryIds(done))
  BY <1>2, <1>5, CacheMeans
<1>9. IsInjective(QueryIds(Append(done, paid)))
  <2>1. Working(p)'
    BY <1>5, <1>6 DEF Working, WorkPcs, CallPcs
  <2>2. ValidCache(run[p].cache)'
    BY <2>1 DEF IInv, RunShape
  <2>3. QED  BY <1>5, <1>6, <2>2 DEF ValidCache, CacheIsValid, CacheShapeIsValid
<1>10. /\ Append(done, paid) \in Seq(Cases) /\ ToSet(done) \subseteq ToSet(Append(done, paid))
       /\ CompletedIds(s.cache) = CompletedIds(r.cache) \cup {r.current}
  <2>1. {Append(done, paid)[i].query_id : i \in DOMAIN Append(done, paid)}
          = {done[i].query_id : i \in DOMAIN done} \cup {paid.query_id}
    BY <1>3, <1>8, AppendedIds
  <2>2. QED  BY <1>3, <1>6, <1>8, <1>9, <2>1, RecordLands DEF CompletedIds
<1>11. ASSUME program = "staged", r.stage = "full"
       PROVE  GatePassed("guard", s.experiment.manifest, s.cache)
  <2>1. GatePassed("guard", r.experiment.manifest, r.cache)
    BY <1>7, <1>11 DEF Collected
  <2>2. Manifest(r.experiment.manifest)
    BY <1>1, <1>2, <1>5, <1>11, EvaluationAssumption DEF Manifest, WorklistShape, TypeOK
  <2>3. StageIds("guard", r.experiment.manifest) \in Seq(ToSet(Dataset))
    BY <2>2, GuardIds
  <2>4. QED  BY <1>6, <1>8, <1>9, <1>10, <2>1, <2>3, PassedGatesStay
<1>12. Collected(s, program)
  BY <1>6, <1>7, <1>10, <1>11 DEF Collected
<1>13. CollectedShape(p)'
  BY <1>1, <1>5, <1>12 DEF CollectedShape
<1>14. QED  BY <1>1, <1>4, <1>13, OthersCollect, FilesKeepReports

LEMMA DegradeReports ==
  ASSUME IInv, ReportInv, NEW p \in Processes, Degrade(p)
  PROVE  ReportInv'
<1>1. /\ TypeOK /\ run[p] # Idle /\ run[p].pc = "waiting"
      /\ UNCHANGED <<program, cache, stageReports, fullReport>>
      /\ run' = [run EXCEPT ![p].pc = "record", ![p].degraded = TRUE,
                   ![p].cache.failed = Append(@, run[p].current)]
  BY DEF IInv, Degrade, files
<1>2. Working(p) /\ run[p] \in LoadedRuns /\ CollectedShape(p)
  BY <1>1, RunKinds DEF Working, WorkPcs, CallPcs, ReportInv
<1>3. /\ \A q \in Processes \ {p} : run'[q] = run[q]
      /\ run'[p] = [run[p] EXCEPT !.pc = "record", !.degraded = TRUE,
                      !.cache.failed = Append(@, run[p].current)]
  BY <1>1 DEF TypeOK
<1>4. /\ run'[p].pc = "record" /\ run'[p].stage = run[p].stage
      /\ run'[p].experiment = run[p].experiment
      /\ run'[p].cache.completed = run[p].cache.completed
      /\ run'[p].degraded = TRUE
      /\ run'[p].before = run[p].before /\ run'[p].new = run[p].new
  BY <1>2, <1>3 DEF LoadedRuns, CacheRecords
<1>5. PICK r, s : r = run[p] /\ s = run'[p]
  OBVIOUS
<1>6. Collected(s, program)
  <2>1. /\ s.pc = "record" /\ s.stage = r.stage /\ s.experiment = r.experiment
        /\ s.cache.completed = r.cache.completed /\ s.degraded
        /\ s.before = r.before /\ s.new = r.new
    BY <1>4, <1>5
  <2>2. Collected(r, program)
    BY <1>2, <1>5 DEF CollectedShape
  <2>3. ASSUME NEW manifest, GatePassed("guard", manifest, r.cache)
        PROVE  GatePassed("guard", manifest, s.cache)
    BY <2>1, <2>3, GatesOfCases
  <2>4. QED  BY <2>1, <2>2, <2>3 DEF Collected
<1>7. CollectedShape(p)'
  BY <1>1, <1>5, <1>6 DEF CollectedShape
<1>8. QED  BY <1>1, <1>3, <1>7, OthersCollect, FilesKeepReports

LEMMA LoadReports ==
  ASSUME IInv, ReportInv, NEW p \in Processes, NEW accepted, Load(p, accepted)
  PROVE  ReportInv'
<1> DEFINE stage == run[p].stage
           experiment == run[p].experiment
           manifest == experiment.manifest
           found == CacheFor(experiment)
           pending == Pending(stage, manifest, found)
           ids == StageIds(stage, manifest)
           loaded == [pc |-> "next", stage |-> stage, experiment |-> experiment, cache |-> found,
                      before |-> Len(ids) - Cardinality(pending),
                      new |-> Cardinality(pending), pending |-> pending, current |-> None,
                      degraded |-> FALSE]
<1>1. /\ TypeOK /\ run[p] # Idle /\ run[p].pc = "load"
      /\ UNCHANGED <<program, cache, stageReports, fullReport>>
  BY DEF IInv, Load, files
<1>2. stage \in StagesOf /\ experiment \in Experiments[program]
  BY <1>1 DEF IInv, RunShape
<1>3. CASE Finish(p)
  BY <1>1, <1>3, EndsCollect, FilesKeepReports
<1>4. CASE MayContinue(stage, experiment, found, accepted) /\ run' = [run EXCEPT ![p] = loaded]
  <2>1. program = "staged" => Manifest(manifest)
    BY <1>2, <1>4, GateAtLoad
  <2>2. program = "staged" /\ stage = "full" => GatePassed("guard", manifest, found)
    BY <1>4 DEF MayContinue, StagedMayContinue, StageUnlocked
  <2>3. ids \in Seq(IdsOf)
    BY <1>1, <1>2, <2>1, StageIdsShape
  <2>4. Cardinality(pending) \in Nat /\ Len(ids) \in Nat
    BY <2>3, PendingType
  <2>5. \A i \in DOMAIN ids : i \in pending \/ ids[i] \in CompletedIds(found)
    BY DEF Pending
  <2> HIDE DEF found, pending
  <2>6. PICK s : s = loaded
    OBVIOUS
  <2>7. Len(ids) - Cardinality(pending) + Cardinality(pending) = Len(ids)
    <3> HIDE DEF ids
    <3>1. QED  BY <2>4
  <2>8. Collected(s, program)
    BY <2>2, <2>5, <2>6, <2>7 DEF Collected
  <2>9. run'[p] = s /\ \A q \in Processes \ {p} : run'[q] = run[q]
    BY <1>1, <1>4, <2>6 DEF TypeOK
  <2>10. CollectedShape(p)'
    BY <1>1, <2>8, <2>9 DEF CollectedShape
  <2>11. QED  BY <1>1, <2>9, <2>10, OthersCollect, FilesKeepReports
<1>5. QED  BY <1>3, <1>4 DEF Load

\* Without a lock there are no stages to report.
LEMMA UnlockedReports ==
  ASSUME ReportInv, ~Locks, NEW stage \in Stages
  PROVE  stageReports[stage] = Absent
BY DEF ReportInv, ReportedStage

LEMMA OpenTemporaryReports ==
  ASSUME IInv, ReportInv, NEW p \in Processes, OpenTemporary(p)
  PROVE  ReportInv'
<1>1. /\ TypeOK /\ run[p] # Idle /\ run[p].pc = "record" /\ Goto(p, "fill")
      /\ UNCHANGED <<program, cache, stageReports, fullReport>>
  BY DEF IInv, OpenTemporary
<1>2. Working(p) /\ "fill" \in WorkPcs \ {"waiting"}
  BY <1>1 DEF Working, WorkPcs, CallPcs
<1>3. \A q \in Processes : Working(q)' => CollectedShape(q)'
  BY <1>1, <1>2, MovesCollect
<1>4. QED  BY <1>1, <1>3, FilesKeepReports

\* Where there are stages no other process can have renamed the temporary file.
LEMMA FillTemporaryReports ==
  ASSUME IInv, ReportInv, NEW p \in Processes, FillTemporary(p)
  PROVE  ReportInv'
<1>1. /\ TypeOK /\ run[p] # Idle /\ run[p].pc = "fill" /\ Goto(p, "rename")
      /\ UNCHANGED <<program, stageReports, fullReport>>
      /\ cache' = IF temporary = Absent /\ cache = Torn THEN run[p].cache ELSE cache
  BY DEF IInv, FillTemporary
<1>2. Working(p) /\ "rename" \in WorkPcs \ {"waiting"}
  BY <1>1 DEF Working, WorkPcs, CallPcs
<1>3. \A q \in Processes : Working(q)' => CollectedShape(q)'
  BY <1>1, <1>2, MovesCollect
<1>4. CASE cache' = cache
  BY <1>1, <1>3, <1>4, FilesKeepReports
<1>5. CASE cache = Torn
  <2>1. ~Locks
    BY <1>5 DEF IInv, FileShape, LockShape
  <2>2. \A stage \in Stages : stageReports'[stage] = Absent
    BY <1>1, <2>1, UnlockedReports
  <2>3. FullReportShape' /\ DOMAIN stageReports' = Stages
    BY <1>1, FullReportStays DEF ReportInv
  <2>4. QED  BY <1>3, <2>2, <2>3 DEF ReportInv
<1>6. QED  BY <1>1, <1>4, <1>5

LEMMA RenameReports ==
  ASSUME IInv, IInv', ReportInv, NEW p \in Processes, Rename(p)
  PROVE  ReportInv'
<1>1. /\ TypeOK /\ run[p] # Idle /\ run[p].pc = "rename" /\ temporary # Absent
      /\ Goto(p, IF run[p].degraded THEN "exit" ELSE "next")
      /\ UNCHANGED <<program, stageReports, fullReport>> /\ cache' = temporary
      /\ overlapped' = overlapped
  BY DEF IInv, Rename, history
<1>2. Working(p)
  BY <1>1 DEF Working, WorkPcs, CallPcs
<1>3. \A q \in Processes : Working(q)' => CollectedShape(q)'
  <2>1. CASE run[p].degraded
    BY <1>1, <2>1, EndsCollect DEF Finish
  <2>2. CASE ~run[p].degraded
    <3>1. Goto(p, "next") /\ "next" \in WorkPcs \ {"waiting"}
      BY <1>1, <2>2 DEF WorkPcs, CallPcs
    <3>2. QED  BY <1>1, <1>2, <2>2, <3>1, MovesCollect
  <2>3. QED  BY <2>1, <2>2
<1>4. ASSUME NEW stage \in Stages, stageReports[stage] # Absent PROVE ReportedStage(stage)'
  <2>1. ReportedStage(stage) /\ Locks /\ Readable(cache)
    BY <1>4 DEF ReportInv, ReportedStage
  <2>2. ~overlapped /\ DiskShape(p) /\ ValidCache(cache)
    BY <1>2, <2>1 DEF IInv, LockShape, FileShape
  <2>3. cache' = run[p].cache /\ cache.experiment = run[p].experiment
        /\ run[p].cache.experiment = run[p].experiment
    BY <1>1, <1>2, <2>1, <2>2 DEF DiskShape, IInv, RunShape
  <2>4. Readable(cache)'
    BY <1>1, <1>2, <2>3, FileKinds DEF IInv, RunShape, ValidCache, Readable
  <2>5. ValidCache(cache)'
    BY <2>4 DEF IInv, FileShape
  <2>6. Successes \subseteq Successes'
    BY <2>2, RenameAdds
  <2>7. ToSet(cache.completed) \subseteq ToSet(cache'.completed)
    BY <2>1, <2>4, <2>6 DEF Successes, Completed
  <2>8. /\ cache.completed \in Seq(Cases) /\ IsInjective(QueryIds(cache.completed))
        /\ cache'.completed \in Seq(Cases) /\ IsInjective(QueryIds(cache'.completed))
    BY <2>2, <2>5, CacheMeans DEF ValidCache, CacheRecords, CacheIsValid, CacheShapeIsValid
  <2>9. PICK file, later, report : file = cache /\ later = cache' /\ report = stageReports[stage]
    OBVIOUS
  <2> DEFINE manifest == file.experiment.manifest
             ids == StageIds(stage, manifest)
  <2>10. /\ Locks' = Locks /\ StagesOf' = StagesOf /\ IdsOf' = IdsOf
         /\ later.experiment = file.experiment /\ stageReports'[stage] = report
    BY <1>1, <2>3, <2>9 DEF Locks, StagesOf, IdsOf
  <2>11. /\ stage \in StagesOf
         /\ ids \in Seq(IdsOf) /\ IsInjective(ids) /\ ToSet(ids) \subseteq CompletedIds(file)
         /\ report.cases = CachedCases(ids, file)
         /\ report.under = CountOf(report.cases, UnderRetrieval)
         /\ report.overall = SliceMetrics(report.cases, DOMAIN report.cases)
         /\ report.gate = GateOf(stage, report.cases, manifest)
         /\ stage = "full" => GatePassed("guard", manifest, file)
    BY <2>1, <2>9 DEF ReportedStage
  <2> HIDE DEF ids
  <2>12. ToSet(ids) \subseteq CompletedIds(later) /\ CachedCases(ids, later) = CachedCases(ids, file)
    BY <2>7, <2>8, <2>9, <2>11, CasesStay
  <2>13. ASSUME stage = "full" PROVE GatePassed("guard", manifest, later)
    <3>1. StageIds("guard", manifest) \in Seq(ToSet(Dataset))
      <4>1. program = "staged"
        <5>1. program \in {"staged", "candidate", "full"}
          BY <1>1, EvaluationAssumption DEF TypeOK
        <5>2. QED  BY <2>1, <2>11, <2>13, <5>1 DEF StagesOf, CandidateStages, Locks
      <4>2. Manifest(manifest)
        BY <1>1, <1>2, <2>3, <2>9, <4>1, EvaluationAssumption
           DEF Manifest, IInv, RunShape, WorklistShape, TypeOK
      <4>3. QED  BY <4>2, GuardIds
    <3>2. GatePassed("guard", manifest, file)
      BY <2>11, <2>13
    <3>3. QED  BY <2>7, <2>8, <2>9, <3>1, <3>2, PassedGatesStay
  <2>14. /\ ids \in Seq(IdsOf') /\ stage \in StagesOf' /\ Locks'
    BY <2>1, <2>10, <2>11
  <2>15. QED
    BY <2>4, <2>9, <2>10, <2>11, <2>12, <2>13, <2>14 DEF ReportedStage, ids
<1>5. FullReportShape' /\ DOMAIN stageReports' = Stages
  BY <1>1, FullReportStays DEF ReportInv
<1>6. QED  BY <1>1, <1>3, <1>4, <1>5 DEF ReportInv

\* The cache in memory of a finished stage is the one on disk.
LEMMA FinishedIsOnDisk ==
  ASSUME IInv, ReportInv, NEW p \in Processes, Finished(p), program # "full"
  PROVE  /\ Readable(cache) /\ cache.completed = run[p].cache.completed
         /\ cache.experiment = run[p].experiment
<1>1. /\ Working(p) /\ ValidCache(run[p].cache) /\ run[p].stage \in StagesOf
      /\ ToSet(IdsFor(p)) \subseteq CompletedIds(run[p].cache)
      /\ program = "staged" => Manifest(run[p].experiment.manifest)
      /\ run[p].pc = "next" /\ TypeOK
  BY CollectedIsComplete DEF Finished, IInv
<1>2. ~overlapped /\ DiskShape(p)
  BY <1>1 DEF IInv, LockShape, Locks
<1>3. run[p].cache.completed = Completed(cache) /\ (Readable(cache) => cache.experiment = run[p].experiment)
  BY <1>1, <1>2 DEF DiskShape
<1>4. Readable(cache)
  <2>1. SUFFICES ASSUME ~Readable(cache) PROVE FALSE
    OBVIOUS
  <2>2. run[p].cache.completed = <<>>
    BY <1>3, <2>1 DEF Completed
  <2>3. CompletedIds(run[p].cache) = {}
    BY <2>2 DEF CompletedIds
  <2>4. \E id \in ToSet(IdsFor(p)) : ExpectedRoute(id) = "knowledge_base"
    BY <1>1, BothRoutes DEF IdsFor
  <2>5. QED  BY <1>1, <2>3, <2>4
<1>5. QED  BY <1>3, <1>4 DEF Completed

LEMMA WriteStageReportReports ==
  ASSUME IInv, ReportInv, NEW p \in Processes, WriteStageReport(p)
  PROVE  ReportInv'
<1>1. /\ TypeOK /\ Finished(p) /\ program # "full" /\ run[p] # Idle /\ run[p].pc = "next"
      /\ run[p].pending = {}
      /\ UNCHANGED <<program, cache, fullReport>>
  BY DEF IInv, WriteStageReport, Finished
<1>2. ReportIsValid(ReportOf(p))
  BY <1>1, FinishedIsReported
<1>3. /\ stageReports' = [stageReports EXCEPT ![run[p].stage] = ReportOf(p)]
      /\ Goto(p, IF run[p].stage = "full" THEN "full_report" ELSE "exit")
  BY <1>2 DEF WriteStageReport
<1>4. /\ Working(p) /\ ValidCache(run[p].cache)
      /\ run[p].stage \in StagesOf /\ IdsFor(p) \in Seq(IdsOf) /\ IsInjective(IdsFor(p))
      /\ ToSet(IdsFor(p)) \subseteq CompletedIds(run[p].cache)
      /\ Collected(run[p], program)
  BY <1>1, CollectedIsComplete DEF CollectedShape
<1>5. \A q \in Processes : Working(q)' => CollectedShape(q)'
  <2>1. CASE run[p].stage = "full"
    <3>1. "full_report" \in WorkPcs \ {"waiting"} /\ Goto(p, "full_report")
      BY <1>3, <2>1 DEF WorkPcs, CallPcs
    <3>2. ~run[p].degraded
      BY <1>1, <1>4 DEF Collected
    <3>3. QED  BY <1>1, <1>4, <2>1, <3>1, <3>2, MovesCollect
  <2>2. CASE run[p].stage # "full"
    BY <1>1, <1>3, <2>2, EndsCollect DEF Finish
  <2>3. QED  BY <2>1, <2>2
<1>6. ASSUME NEW stage, stage = run[p].stage PROVE ReportedStage(stage)'
  <2>1. PICK file, held, experiment :
          /\ file = cache /\ held = run[p].cache
          /\ stage = run[p].stage /\ experiment = run[p].experiment
    BY <1>6
  <2> DEFINE manifest == experiment.manifest
             ids == StageIds(stage, manifest)
             report == ReportOf(p)
  <2>2. Readable(file) /\ file.completed = held.completed /\ file.experiment = experiment
    BY <1>1, <2>1, FinishedIsOnDisk
  <2>3. /\ report.cases = CachedCases(ids, held)
        /\ report.under = CountOf(report.cases, UnderRetrieval)
        /\ report.overall = SliceMetrics(report.cases, DOMAIN report.cases)
        /\ report.gate = GateOf(stage, report.cases, manifest)
    BY <2>1 DEF ReportOf, StageReport
  <2>4. CachedCases(ids, held) = CasesIn(ids, held.completed)
        /\ CachedCases(ids, file) = CasesIn(ids, file.completed)
    BY Zenon DEF CachedCases, CasesIn
  <2>5. CompletedIds(file) = CompletedIds(held)
    BY <2>2 DEF CompletedIds
  <2>6. ASSUME stage = "full" PROVE GatePassed("guard", manifest, file)
    <3>1. program = "staged"
      <4>1. program \in {"staged", "candidate", "full"}
        BY <1>1, EvaluationAssumption DEF TypeOK
      <4>2. QED  BY <1>1, <1>4, <2>1, <2>6, <4>1 DEF StagesOf, CandidateStages
    <3>2. GatePassed("guard", manifest, held)
      BY <1>4, <2>1, <2>6, <3>1 DEF Collected
    <3>3. QED  BY <2>2, <3>2, GatesOfCases
  <2>7. /\ Locks' /\ Readable(cache)' /\ stage \in StagesOf' /\ cache' = file
        /\ stageReports'[stage] = report /\ IdsOf' = IdsOf
    <3>1. stage \in Stages
      <4>1. program \in {"staged", "candidate", "full"}
        BY <1>1, EvaluationAssumption DEF TypeOK
      <4>2. QED  BY <1>4, <2>1, <4>1 DEF StagesOf, Stages, StagedStages
    <3>2. DOMAIN stageReports = Stages
      BY DEF ReportInv
    <3>3. stageReports'[stage] = report
      BY <1>3, <2>1, <3>1, <3>2
    <3>4. QED  BY <1>1, <1>4, <2>1, <2>2, <3>3 DEF Locks, StagesOf, IdsOf, Readable
  <2>8. ids \in Seq(IdsOf) /\ IsInjective(ids) /\ ToSet(ids) \subseteq CompletedIds(file)
    BY <1>4, <2>1, <2>5 DEF IdsFor
  <2> HIDE DEF ids, report
  <2>9. QED
    BY <2>2, <2>3, <2>4, <2>6, <2>7, <2>8 DEF ReportedStage, ids
<1>7. ASSUME NEW stage \in Stages, stage # run[p].stage, stageReports'[stage] # Absent
      PROVE  ReportedStage(stage)'
  <2>1. stageReports'[stage] = stageReports[stage] /\ ReportedStage(stage)
    BY <1>3, <1>7 DEF ReportInv
  <2>2. QED  BY <1>1, <2>1, ReportedStays
<1>8. \A stage \in Stages : stageReports'[stage] # Absent => ReportedStage(stage)'
  <2>1. SUFFICES ASSUME NEW stage \in Stages, stageReports'[stage] # Absent
                 PROVE  ReportedStage(stage)'
    OBVIOUS
  <2>2. CASE stage = run[p].stage
    BY <1>6, <2>2
  <2>3. CASE stage # run[p].stage
    BY <1>7, <2>1, <2>3
  <2>4. QED  BY <2>2, <2>3
<1>9. FullReportShape' /\ DOMAIN stageReports' = Stages
  BY <1>1, <1>3, FullReportStays DEF ReportInv
<1>10. QED  BY <1>5, <1>8, <1>9 DEF ReportInv

\* The full report of a cache that has every sample.
LEMMA FullReportIsShaped ==
  ASSUME NEW p \in Processes, ValidCache(run[p].cache),
         ToSet(Dataset) \subseteq CompletedIds(run[p].cache),
         fullReport' = FullReportOf(p)
  PROVE  FullReportShape'
<1>1. PICK held, full : held = run[p].cache /\ full = fullReport'
  OBVIOUS
<1> DEFINE cases == CachedCases(Dataset, held)
<1>2. full = FullReport(cases, HighConfidenceThreshold, AmbiguityMargin)
  BY <1>1 DEF FullReportOf
<1>3. cases \in Seq(Cases) /\ QueryIds(cases) = Dataset
  <2>1. held.completed \in Seq(Cases) /\ IsInjective(QueryIds(held.completed))
    BY <1>1, CacheMeans
  <2>2. Dataset \in Seq(ToSet(Dataset)) /\ ToSet(Dataset) \subseteq CompletedIds(held)
    BY <1>1, SequencesOfIds
  <2>3. QED  BY <2>1, <2>2, CachedSequence
<1> HIDE DEF cases
<1>4. full.cases = cases
  BY <1>2 DEF FullReport
<1>5. /\ full.cases \in Seq(Cases) /\ IsCompleteSequence(full.cases)
      /\ full = FullReport(full.cases, HighConfidenceThreshold, AmbiguityMargin)
  BY <1>2, <1>3, <1>4 DEF IsCompleteSequence
<1>6. QED  BY <1>1, <1>5 DEF FullReportShape

LEMMA WriteFullReportReports ==
  ASSUME IInv, ReportInv, NEW p \in Processes, WriteFullReport(p)
  PROVE  ReportInv'
<1>1. /\ TypeOK /\ run[p] # Idle /\ run[p].pc = "full_report" /\ Finish(p)
      /\ fullReport' = FullReportOf(p) \/ fullReport' = fullReport
      /\ UNCHANGED <<program, cache, stageReports>>
  BY DEF IInv, WriteFullReport
<1>2. /\ Working(p) /\ ValidCache(run[p].cache) /\ Collected(run[p], program)
  BY <1>1 DEF Working, WorkPcs, IInv, RunShape, ReportInv, CollectedShape
<1>3. ToSet(Dataset) \subseteq CompletedIds(run[p].cache)
  <2>1. PICK r : r = run[p]
    OBVIOUS
  <2>2. Collected(r, program) /\ r.pc = "full_report"
    BY <1>1, <1>2, <2>1
  <2>3. \A i \in DOMAIN Dataset : Dataset[i] \in CompletedIds(r.cache)
    BY <2>2 DEF Collected, StageIds
  <2>4. QED  BY <2>1, <2>3 DEF ToSet
<1>4. FullReportShape'
  BY <1>1, <1>2, <1>3, FullReportIsShaped, FullReportStays DEF ReportInv
<1>5. \A q \in Processes : Working(q)' => CollectedShape(q)'
  BY <1>1, EndsCollect
<1>6. \A stage \in Stages : stageReports'[stage] # Absent => ReportedStage(stage)'
  BY <1>1, ReportedStays DEF ReportInv
<1>7. QED  BY <1>1, <1>4, <1>5, <1>6 DEF ReportInv

LEMMA OpenOutputReports ==
  ASSUME IInv, ReportInv, NEW p \in Processes, OpenOutput(p)
  PROVE  ReportInv'
<1>1. /\ TypeOK /\ run[p] # Idle /\ run[p].pc = "next"
      /\ \/ fullReport' = Torn /\ Goto(p, "output")
         \/ fullReport' = fullReport /\ Finish(p)
      /\ UNCHANGED <<program, cache, stageReports>>
  BY DEF IInv, OpenOutput, Finished
<1>2. Working(p) /\ "output" \in WorkPcs \ {"waiting"} /\ Collected(run[p], program)
  BY <1>1 DEF Working, WorkPcs, CallPcs, ReportInv, CollectedShape
<1>3. ~run[p].degraded
  BY <1>1, <1>2 DEF Collected
<1>4. FullReportShape'
  BY <1>1, FullReportStays DEF ReportInv, FullReportShape, Readable
<1>5. \A q \in Processes : Working(q)' => CollectedShape(q)'
  BY <1>1, <1>2, <1>3, EndsCollect, MovesCollect
<1>6. \A stage \in Stages : stageReports'[stage] # Absent => ReportedStage(stage)'
  BY <1>1, ReportedStays DEF ReportInv
<1>7. QED  BY <1>1, <1>4, <1>5, <1>6 DEF ReportInv

LEMMA FillOutputReports ==
  ASSUME IInv, ReportInv, NEW p \in Processes, FillOutput(p)
  PROVE  ReportInv'
<1>1. /\ TypeOK /\ run[p] # Idle /\ run[p].pc = "output" /\ Goto(p, "unlink")
      /\ fullReport' = FullReportOf(p)
      /\ UNCHANGED <<program, cache, stageReports>>
  BY DEF IInv, FillOutput
<1>2. /\ Working(p) /\ "unlink" \in WorkPcs \ {"waiting"} /\ Collected(run[p], program)
      /\ ValidCache(run[p].cache) /\ IsCompleteSequence(run[p].cache.completed)
  BY <1>1 DEF Working, WorkPcs, CallPcs, ReportInv, CollectedShape, IInv, RunShape
<1>3. ToSet(Dataset) \subseteq CompletedIds(run[p].cache)
  <2>1. PICK held : held = run[p].cache
    OBVIOUS
  <2>2. QueryIds(held.completed) = Dataset
    BY <1>2, <2>1 DEF IsCompleteSequence
  <2>3. ToSet(QueryIds(held.completed)) = CompletedIds(held)
    BY DEF ToSet, QueryIds, CompletedIds
  <2>4. QED  BY <2>1, <2>2, <2>3
<1>4. FullReportShape'
  BY <1>1, <1>2, <1>3, FullReportIsShaped
<1>5. \A q \in Processes : Working(q)' => CollectedShape(q)'
  <2>1. ~run[p].degraded
    BY <1>1, <1>2 DEF Collected
  <2>2. QED  BY <1>1, <1>2, <2>1, MovesCollect
<1>6. \A stage \in Stages : stageReports'[stage] # Absent => ReportedStage(stage)'
  BY <1>1, ReportedStays DEF ReportInv
<1>7. QED  BY <1>1, <1>4, <1>5, <1>6 DEF ReportInv

LEMMA UnlinkReports ==
  ASSUME IInv, ReportInv, NEW p \in Processes, Unlink(p)
  PROVE  ReportInv'
<1>1. /\ TypeOK /\ run[p] # Idle /\ run[p].pc = "unlink" /\ Finish(p)
      /\ UNCHANGED <<program, stageReports, fullReport>>
  BY DEF IInv, Unlink
<1>2. ~Locks
  BY <1>1 DEF IInv, RunShape, Locks
<1>3. \A stage \in Stages : stageReports'[stage] = Absent
  BY <1>1, <1>2, UnlockedReports
<1>4. FullReportShape' /\ DOMAIN stageReports' = Stages
  BY <1>1, FullReportStays DEF ReportInv
<1>5. \A q \in Processes : Working(q)' => CollectedShape(q)'
  BY <1>1, EndsCollect
<1>6. QED  BY <1>3, <1>4, <1>5 DEF ReportInv

LEMMA StillReports ==
  ASSUME ReportInv, UNCHANGED <<program, cache, stageReports, fullReport, run>>
  PROVE  ReportInv'
<1>1. ASSUME NEW q \in Processes, Working(q)' PROVE CollectedShape(q)'
  <2>1. Working(q) /\ Collected(run[q], program)
    BY <1>1 DEF Working, ReportInv, CollectedShape
  <2>2. Collected(run'[q], program')
    BY <2>1
  <2>3. QED  BY <2>2 DEF CollectedShape
<1>2. QED  BY <1>1, FilesKeepReports

LEMMA StepReports ==
  ASSUME IInv, IInv', ReportInv, [IntentNext]_intentVars
  PROVE  ReportInv'
<1>1. CASE UNCHANGED intentVars
  BY <1>1, StillReports DEF intentVars, files
<1>2. CASE RemoveStaleLock
  BY <1>2, StillReports DEF RemoveStaleLock
<1>3. ASSUME NEW p \in Processes,
             \/ \E stage \in StagesOf, experiment \in Experiments[program] : Start(p, stage, experiment)
             \/ RenameFails(p) \/ Interrupt(p) \/ WriteFails(p) \/ Kill(p) \/ Release(p)
      PROVE  ReportInv'
  BY <1>3, QuietReports
<1>4. ASSUME NEW p \in Processes, NEW accepted \in 0..Len(Dataset), Load(p, accepted)
      PROVE  ReportInv'
  BY <1>4, LoadReports
<1>5. ASSUME NEW p \in Processes, NEW scores \in Replies[program], Succeed(p, scores)
      PROVE  ReportInv'
  BY <1>5, SucceedReports
<1>6. ASSUME NEW p \in Processes,
             Send(p) \/ Degrade(p) \/ OpenTemporary(p) \/ FillTemporary(p) \/ Rename(p)
      PROVE  ReportInv'
  BY <1>6, SendReports, DegradeReports, OpenTemporaryReports, FillTemporaryReports, RenameReports
<1>7. ASSUME NEW p \in Processes,
             WriteStageReport(p) \/ WriteFullReport(p) \/ OpenOutput(p) \/ FillOutput(p) \/ Unlink(p)
      PROVE  ReportInv'
  BY <1>7, WriteStageReportReports, WriteFullReportReports, OpenOutputReports, FillOutputReports,
     UnlinkReports
<1>8. QED  BY <1>1, <1>2, <1>3, <1>4, <1>5, <1>6, <1>7 DEF IntentNext

\* The reports stay those of the cases on disk, at every step of every schedule.
THEOREM ReportsAreConsistent == Spec => []ReportInv
<1>1. Init => ReportInv
  BY ReportInit DEF Init
<1>2. IInv /\ IInv' /\ ReportInv /\ [Next]_vars => ReportInv'
  BY StepReports, IntentSteps
<1>3. QED  BY <1>1, <1>2, EvaluationIsConsistent, PTL DEF Spec

-----------------------------------------------------------------------------
(* What the reports say                                                    *)

\* Distinct positions have distinct cases.
LEMMA CasesAreDistinct ==
  ASSUME NEW cases \in Seq(Cases), IsInjective(QueryIds(cases)), NEW part \in SUBSET DOMAIN cases
  PROVE  Cardinality({cases[i] : i \in part}) = Cardinality(part)
<1> DEFINE image == {cases[i] : i \in part}
           f == [i \in part |-> cases[i]]
<1>1. IsFiniteSet(part)
  BY FiniteParts
<1>2. \A i, j \in part : cases[i] = cases[j] => i = j
  BY DEF IsInjective, QueryIds
<1>3. f \in Bijection(part, image)
  BY <1>2 DEF Bijection, Injection, Surjection, IsInjective
<1> HIDE DEF f, image
<1>4. Cardinality(image) = Cardinality(part)
  BY <1>1, <1>3, FS_Bijection DEF ExistsBijection
<1>5. QED  BY <1>4 DEF image

\* The gate of the candidate passes exactly when every route is right.
LEMMA CandidateGateMeans ==
  ASSUME NEW cases \in Seq(Cases)
  PROVE  CandidateGate(cases).passed <=> \A i \in DOMAIN cases : Correct(cases[i])
<1> DEFINE Right == {i \in DOMAIN cases : Correct(cases[i])}
           Under == {i \in DOMAIN cases : UnderRetrieval(cases[i])}
           Over == {i \in DOMAIN cases : OverRetrieval(cases[i])}
           Asked == {i \in DOMAIN cases : Clarification(cases[i])}
           checks == {GateCheck("all_routes_correct", "eq", Cardinality(Right), Len(cases)),
                      GateCheck("under_retrieval", "eq", Cardinality(Under), 0),
                      GateCheck("over_retrieval", "eq", Cardinality(Over), 0),
                      GateCheck("clarification", "eq", Cardinality(Asked), 0)}
<1>1. CandidateGate(cases) = Gate(checks)
  BY Zenon DEF CandidateGate, CountOf
<1>2. \A name, actual, required :
        GateCheck(name, "eq", actual, required).passed <=> actual = required
  BY DEF GateCheck
<1>3. Right \in SUBSET DOMAIN cases
  OBVIOUS
<1>4. \A i \in DOMAIN cases : cases[i] \in Cases
  OBVIOUS
<1>5. (\A i \in DOMAIN cases : Correct(cases[i])) => Right = DOMAIN cases /\ Under = {} /\ Over = {} /\ Asked = {}
  BY <1>4, WrongCases
<1>6. Right = DOMAIN cases => \A i \in DOMAIN cases : Correct(cases[i])
  OBVIOUS
<1> HIDE DEF Right, Under, Over, Asked
<1>7. CandidateGate(cases).passed <=> /\ Cardinality(Right) = Len(cases) /\ Cardinality(Under) = 0
                                      /\ Cardinality(Over) = 0 /\ Cardinality(Asked) = 0
  <2>1. Gate(checks).passed <=> \A check \in checks : check.passed
    BY DEF Gate
  <2>2. QED  BY <1>1, <1>2, <2>1
<1>8. Cardinality(DOMAIN cases) = Len(cases) /\ IsFiniteSet(DOMAIN cases)
  BY <1>3, FiniteParts
<1>9. Cardinality(Right) = Len(cases) => Right = DOMAIN cases
  BY <1>3, <1>8, FS_Subset
<1>10. Cardinality({}) = 0
  BY FS_EmptySet
<1>11. QED  BY <1>5, <1>6, <1>7, <1>8, <1>9, <1>10

\* The report of a stage is a true account of the cases on disk.
LEMMA StageReportIsTrue ==
  ASSUME IInv, NEW stage, ReportedStage(stage)
  PROVE  LET report == stageReports[stage]
             cases  == {case \in Successes : case.query_id \in
                          ToSet(StageIds(stage, cache.experiment.manifest))}
         IN /\ ToSet(report.cases) = cases
            /\ QueryIds(report.cases) = StageIds(stage, cache.experiment.manifest)
            /\ report.under = Cardinality({case \in cases :
                   case.query_id \in RagIds /\ case.route = "system_direct"})
            /\ report.overall.correct_count = Cardinality({case \in cases : Correct(case)})
            /\ stage = "challenge" => (report.gate.passed <=> \A case \in cases : Correct(case))
            /\ stage = "full" /\ report.gate.passed =>
                 GatePassed("guard", cache.experiment.manifest, cache)
<1> DEFINE report == stageReports[stage]
           manifest == cache.experiment.manifest
           ids == StageIds(stage, manifest)
           done == cache.completed
           list == report.cases
           cases == {case \in Successes : case.query_id \in ToSet(ids)}
           under == {i \in DOMAIN list : UnderRetrieval(list[i])}
           right == {i \in DOMAIN list : Correct(list[i])}
<1>1. /\ Readable(cache) /\ ids \in Seq(IdsOf) /\ IsInjective(ids) /\ ToSet(ids) \subseteq CompletedIds(cache)
      /\ list = CachedCases(ids, cache)
      /\ report.under = CountOf(list, UnderRetrieval)
      /\ report.overall = SliceMetrics(list, DOMAIN list)
      /\ report.gate = GateOf(stage, list, manifest)
      /\ stage = "full" => GatePassed("guard", manifest, cache)
  BY DEF ReportedStage
<1>2. done \in Seq(Cases) /\ IsInjective(QueryIds(done))
  BY <1>1, CacheMeans DEF IInv, FileShape
<1>3. Successes = ToSet(done)
  BY <1>1 DEF Successes, Completed
<1>4. /\ list \in Seq(Cases) /\ QueryIds(list) = ids
      /\ \A i \in DOMAIN ids : list[i] \in ToSet(done) /\ list[i].query_id = ids[i]
      /\ DOMAIN list = DOMAIN ids
      /\ \A case, other \in ToSet(done) : case.query_id = other.query_id => case = other
  <2>1. PICK file, names : file = cache /\ names = ids
    OBVIOUS
  <2>2. /\ names \in Seq(IdsOf) /\ ToSet(names) \subseteq CompletedIds(file)
        /\ file.completed \in Seq(Cases) /\ IsInjective(QueryIds(file.completed))
        /\ list = CachedCases(names, file)
    BY <1>1, <1>2, <2>1
  <2> HIDE DEF list, ids, done
  <2>3. /\ list \in Seq(Cases) /\ QueryIds(list) = names
        /\ DOMAIN list = DOMAIN names
        /\ \A i \in DOMAIN names : list[i] \in ToSet(file.completed) /\ list[i].query_id = names[i]
        /\ \A case, other \in ToSet(file.completed) : case.query_id = other.query_id => case = other
    BY <2>2, CachedSequence, CasesAreCached
  <2>4. file.completed = done
    BY <2>1 DEF done
  <2>5. QED  BY <2>1, <2>3, <2>4
<1>5. IsInjective(QueryIds(list))
  BY <1>1, <1>4
<1> HIDE DEF report, list, ids, done
<1>6. ToSet(list) = cases
  <2>1. ASSUME NEW i \in DOMAIN list PROVE list[i] \in cases
    BY <1>3, <1>4, <2>1 DEF ToSet
  <2>2. ASSUME NEW case \in cases PROVE \E i \in DOMAIN list : list[i] = case
    <3>1. PICK i \in DOMAIN ids : ids[i] = case.query_id
      BY DEF ToSet
    <3>2. QED  BY <1>3, <1>4, <3>1
  <2> HIDE DEF cases
  <2>3. QED  BY <2>1, <2>2 DEF ToSet
<1> HIDE DEF cases
<1>7. \A case : UnderRetrieval(case) <=> case.query_id \in RagIds /\ case.route = "system_direct"
  BY DEF UnderRetrieval, ExpectedRoute
<1>8. /\ {case \in cases : case.query_id \in RagIds /\ case.route = "system_direct"}
           = {list[i] : i \in under}
      /\ {case \in cases : Correct(case)} = {list[i] : i \in right}
  BY <1>6, <1>7 DEF ToSet
<1>9. report.under = Cardinality(under) /\ report.overall.correct_count = Cardinality(right)
  <2>1. CountOf(list, UnderRetrieval) = Cardinality(under)
    BY DEF CountOf
  <2>2. SliceMetrics(list, DOMAIN list).correct_count = Cardinality(right)
    BY DEF SliceMetrics
  <2>3. QED  BY <1>1, <2>1, <2>2
<1>10. /\ Cardinality({list[i] : i \in under}) = Cardinality(under)
       /\ Cardinality({list[i] : i \in right}) = Cardinality(right)
  <2>1. under \in SUBSET DOMAIN list /\ right \in SUBSET DOMAIN list
    OBVIOUS
  <2> HIDE DEF under, right
  <2>2. QED  BY <1>4, <1>5, <2>1, CasesAreDistinct
<1>11. ASSUME stage = "challenge" PROVE report.gate.passed <=> \A case \in cases : Correct(case)
  <2>1. report.gate = CandidateGate(list)
    BY <1>1, <1>11 DEF GateOf, CandidateStages
  <2>2. report.gate.passed <=> \A i \in DOMAIN list : Correct(list[i])
    BY <1>4, <2>1, CandidateGateMeans
  <2>3. QED  BY <1>6, <2>2 DEF ToSet
<1> HIDE DEF under, right
<1>12. /\ ToSet(list) = cases /\ QueryIds(list) = ids
       /\ report.under = Cardinality({case \in cases :
              case.query_id \in RagIds /\ case.route = "system_direct"})
       /\ report.overall.correct_count = Cardinality({case \in cases : Correct(case)})
  BY <1>4, <1>6, <1>8, <1>9, <1>10
<1>13. stage = "full" => GatePassed("guard", manifest, cache)
  BY <1>1
<1>14. QED  BY <1>11, <1>12, <1>13 DEF report, list, cases, ids

\* The full report, its failure analysis and its replay under stricter limits.
LEMMA FullReportIsTrue ==
  ASSUME FullReportShape, Readable(fullReport)
  PROVE  LET analysis == FailureAnalysis(fullReport)
             stricter == ReplayThresholds(fullReport, HighConfidenceThreshold + 1, AmbiguityMargin + 1)
         IN /\ IsCompleteSequence(fullReport.cases)
            /\ AnalysisIsValid(analysis)
            /\ analysis.under + analysis.over + analysis.clarification = analysis.incorrect_count
            /\ ReplayThresholds(fullReport, HighConfidenceThreshold, AmbiguityMargin) = fullReport
            /\ \A i \in DOMAIN Dataset :
                 stricter.cases[i].route \in {fullReport.cases[i].route, "clarification"}
<1>1. PICK full, cases : full = fullReport /\ cases = fullReport.cases
  OBVIOUS
<1>2. /\ full.cases = cases /\ cases \in Seq(Cases) /\ QueryIds(cases) = Dataset
      /\ full = FullReport(cases, HighConfidenceThreshold, AmbiguityMargin)
  BY <1>1 DEF FullReportShape, IsCompleteSequence
<1>3. DOMAIN Dataset = DOMAIN cases /\ IsInjective(QueryIds(cases))
  <2>1. DOMAIN QueryIds(cases) = DOMAIN cases
    BY DEF QueryIds
  <2>2. QED  BY <1>2, <2>1, ScoringAssumption
<1>4. full.sample_count = Len(cases) /\ full.overall = SliceMetrics(cases, DOMAIN cases)
  BY <1>2 DEF FullReport
<1>5. LET analysis == FailureAnalysis(full)
      IN  /\ AnalysisIsValid(analysis)
          /\ analysis.under + analysis.over + analysis.clarification = analysis.incorrect_count
  BY <1>2, <1>3, <1>4, AnalysisHolds
<1>6. /\ ReplayThresholds(full, HighConfidenceThreshold, AmbiguityMargin) = full
      /\ \A i \in DOMAIN cases :
           ReplayThresholds(full, HighConfidenceThreshold + 1, AmbiguityMargin + 1).cases[i].route
             \in {cases[i].route, "clarification"}
  BY <1>2, ReplayMeans
<1>7. IsCompleteSequence(cases)
  BY <1>2 DEF IsCompleteSequence
<1>8. QED  BY <1>1, <1>2, <1>3, <1>5, <1>6, <1>7

\* A finished stage can always be reported, and what the reports say is true of
\* the paid cases: coverage, verdicts, taxonomy and threshold replay.
THEOREM ReportsHold == Spec => []ReportsAreTrue
<1>1. IInv /\ ReportInv => ReportsAreTrue
  <2> SUFFICES ASSUME IInv, ReportInv PROVE ReportsAreTrue
    OBVIOUS
  <2>1. \A p \in Processes : Finished(p) =>
          IF program = "full" THEN IsCompleteSequence(run[p].cache.completed)
                              ELSE ReportIsValid(ReportOf(p))
    BY FinishedIsReported, FinishedPassIsComplete
  <2>2. ASSUME NEW stage \in Stages, stageReports[stage] # Absent PROVE ReportedStage(stage)
    BY <2>2 DEF ReportInv
  <2>3. FullReportShape
    BY DEF ReportInv
  <2>4. QED  BY <2>1, <2>2, <2>3, StageReportIsTrue, FullReportIsTrue DEF ReportsAreTrue
<1>2. QED  BY <1>1, EvaluationIsConsistent, ReportsAreConsistent, PTL
=============================================================================
