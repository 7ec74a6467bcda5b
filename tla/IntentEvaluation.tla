-------------------------- MODULE IntentEvaluation --------------------------
(***************************************************************************)
(* The three programs that pay for intent classifications, one call per    *)
(* sample, and keep what was paid for on disk:                             *)
(*   "staged"     evaluation/staged_intent_cli.py, gated stages            *)
(*   "candidate"  evaluation/candidate_intent_validation_cli.py            *)
(*   "full"       evaluation/full_intent_cli.py, one resumable pass        *)
(* Processes of one program are started again and again on the same files: *)
(* they may be killed, interrupted or hit a full disk at any step, calls   *)
(* may be degraded, and two may be started at once.  The first two take a  *)
(* lock file; the third has none.                                          *)
(*                                                                         *)
(* A file is written as the code writes it: a temporary file is opened     *)
(* (truncated), filled and renamed; the full program's report is opened    *)
(* and filled in place.  Two processes that fill one temporary file leave  *)
(* the content of the last.                                                *)
(***************************************************************************)
EXTENDS IntentScoring, EvaluationFiles

CONSTANTS
  Programs,       \* programs to consider, of {"staged", "candidate", "full"}
  Processes,
  Experiments,    \* [Programs -> sets of records [configuration, manifest]]: what the
                  \* fingerprints of an experiment cover
  Replies,        \* [Programs -> sets of score triples a classification can return]
  MaxStarts,      \* [Programs -> bound on the processes started]
  MaxFaults

ASSUME EvaluationAssumption ==
  /\ Programs \subseteq {"staged", "candidate", "full"}
  /\ \A name \in Programs :
       /\ MaxStarts[name] \in Nat
       /\ Replies[name] \subseteq [1..3 -> Nat]
       /\ \A experiment \in Experiments[name] :
            /\ experiment.manifest.failures \in Seq(AllIds)
            /\ experiment.manifest.guards \in Seq(AllIds)
  /\ IsFiniteSet(Processes) /\ MaxFaults \in Nat

VARIABLES
  program,        \* the program in use
  lock,           \* the lock file exists
  cache,          \* the cache (staged, candidate) or checkpoint (full) file
  temporary,      \* its .tmp file
  stageReports,   \* the report file of each stage
  fullReport,     \* the full report file
  run,            \* the state of each process
  starts, faults, \* bounds
  sent,           \* calls sent for each id (history, of this cache file)
  lost,           \* of those, calls whose result was never recorded (history)
  overlapped,     \* two processes of the unlocked program ran at once (history)
  killed          \* a process was killed while it held the lock (history)

files == <<lock, cache, temporary, stageReports, fullReport>>
bounds == <<starts, faults>>
history == <<sent, lost, overlapped, killed>>
intentVars == <<program, files, run, bounds, history>>

Stages == StagedStages \cup CandidateStages
StagesOf == CASE program = "staged" -> StagedStages
              [] program = "candidate" -> CandidateStages
              [] program = "full" -> {"full"}
Locks == program # "full"
IdsOf == IF program = "candidate" THEN ToSet(DevelopmentIds \o ChallengeIds) ELSE ToSet(Dataset)

\* The cache of an experiment before its first call: its identity.
FreshCache(experiment) == [experiment |-> experiment, completed |-> <<>>, failed |-> <<>>]
Completed(file) == IF Readable(file) THEN file.completed ELSE <<>>
Failed(file) == IF Readable(file) THEN file.failed ELSE <<>>

Idle == [pc |-> "idle"]
Live == {p \in Processes : run[p] # Idle}
InCall == {p \in Live : run[p].pc \in {"waiting", "record", "fill", "rename"}}
CallsInFlight(id) == Cardinality({p \in InCall : run[p].current = id})

Goto(p, pc) == run' = [run EXCEPT ![p].pc = pc]
Finish(p) == Goto(p, "exit")
LoseCall(p) ==
  lost' = IF p \in InCall THEN [lost EXCEPT ![run[p].current] = @ + 1] ELSE lost

IntentInit ==
  /\ program \in Programs
  /\ lock = FALSE /\ cache = Absent /\ temporary = Absent
  /\ stageReports = [stage \in Stages |-> Absent] /\ fullReport = Absent
  /\ run = [p \in Processes |-> Idle]
  /\ starts = 0 /\ faults = 0
  /\ sent = [id \in AllIds |-> 0] /\ lost = [id \in AllIds |-> 0]
  /\ overlapped = FALSE /\ killed = FALSE

----------------------------------------------------------------------------
(* Starting.                                                               *)

\* Mutant: the lock file is created whether it exists or not.
StartOverLock(p, stage, experiment) ==
  /\ run[p] = Idle /\ starts < MaxStarts[program]
  /\ lock' = Locks
  /\ run' = [run EXCEPT ![p] = [pc |-> "load", stage |-> stage, experiment |-> experiment]]
  /\ starts' = starts + 1
  /\ overlapped' = (overlapped \/ Live # {})
  /\ UNCHANGED <<program, cache, temporary, stageReports, fullReport, faults, sent, lost, killed>>

\* A process that finds the lock file ends at once and changes nothing.
Start(p, stage, experiment) ==
  /\ run[p] = Idle /\ starts < MaxStarts[program]
  /\ Locks => ~lock
  /\ lock' = Locks
  /\ run' = [run EXCEPT ![p] = [pc |-> "load", stage |-> stage, experiment |-> experiment]]
  /\ starts' = starts + 1
  /\ overlapped' = (overlapped \/ Live # {})
  /\ UNCHANGED <<program, cache, temporary, stageReports, fullReport, faults, sent, lost, killed>>

\* A missing file is a fresh cache; one that cannot be parsed or belongs to
\* another experiment ends the run.
CacheFor(experiment) == IF cache = Absent THEN FreshCache(experiment) ELSE cache
BelongsTo(found, experiment) == found # Torn /\ found.experiment = experiment

\* The checks of each program between its lock and its first call; the operator
\* has accepted a number of paid calls on the command line.
StagedMayContinue(stage, experiment, found, accepted) ==
  /\ ManifestIsValid(experiment.manifest)
  /\ BelongsTo(found, experiment) /\ CacheIsValid(found, IdsOf)
  /\ StageUnlocked(stage, experiment.manifest, found)
  /\ accepted = Cardinality(Pending(stage, experiment.manifest, found))
CandidateMayContinue(stage, experiment, found, accepted) ==
  /\ BelongsTo(found, experiment) /\ CacheIsValid(found, IdsOf)
  /\ CandidateStageUnlocked(stage, experiment.manifest, found)
  /\ accepted = Cardinality(Pending(stage, experiment.manifest, found))
FullMayContinue(stage, experiment, found, accepted) ==
  /\ BelongsTo(found, experiment)
  /\ accepted = Len(Dataset) - Len(found.completed)
  /\ IsPrefix(QueryIds(found.completed), Dataset)

MayContinue(stage, experiment, found, accepted) ==
  CASE program = "staged"    -> StagedMayContinue(stage, experiment, found, accepted)
    [] program = "candidate" -> CandidateMayContinue(stage, experiment, found, accepted)
    [] program = "full"      -> FullMayContinue(stage, experiment, found, accepted)

Load(p, accepted) ==
  LET stage      == run[p].stage
      experiment == run[p].experiment
      found      == CacheFor(experiment)
      pending    == Pending(stage, experiment.manifest, found)
  IN /\ run[p] # Idle /\ run[p].pc = "load"
     /\ IF MayContinue(stage, experiment, found, accepted)
        THEN run' = [run EXCEPT ![p] =
               [pc |-> "next", stage |-> stage, experiment |-> experiment, cache |-> found,
                before |-> Len(StageIds(stage, experiment.manifest)) - Cardinality(pending),
                new |-> Cardinality(pending), pending |-> pending, current |-> None,
                degraded |-> FALSE]]
        ELSE Finish(p)
     /\ UNCHANGED <<program, files, bounds, history>>

----------------------------------------------------------------------------
(* One paid call after the other; each result is on disk before the next.  *)

Send(p) ==
  /\ run[p] # Idle /\ run[p].pc = "next" /\ run[p].pending # {}
  /\ LET first == Min(run[p].pending)
         id    == StageIds(run[p].stage, run[p].experiment.manifest)[first]
     IN /\ run' = [run EXCEPT ![p].pc = "waiting", ![p].pending = @ \ {first}, ![p].current = id]
        /\ sent' = [sent EXCEPT ![id] = @ + 1]
  /\ UNCHANGED <<program, files, bounds, lost, overlapped, killed>>

Succeed(p, scores) ==
  /\ run[p] # Idle /\ run[p].pc = "waiting"
  /\ run' = [run EXCEPT ![p].pc = "record", ![p].degraded = FALSE,
       ![p].cache.completed = Append(@, CaseResult(run[p].current, scores,
                                          HighConfidenceThreshold, AmbiguityMargin))]
  /\ UNCHANGED <<program, files, bounds, history>>

\* Mutant: a degraded call ends the run before it is recorded.
DegradeUnrecorded(p) ==
  /\ run[p] # Idle /\ run[p].pc = "waiting"
  /\ Finish(p)
  /\ UNCHANGED <<program, files, bounds, history>>

Degrade(p) ==
  /\ run[p] # Idle /\ run[p].pc = "waiting"
  /\ run' = [run EXCEPT ![p].pc = "record", ![p].degraded = TRUE,
                       ![p].cache.failed = Append(@, run[p].current)]
  /\ UNCHANGED <<program, files, bounds, history>>

\* Mutant: the cache file itself is truncated and rewritten.
OpenInPlace(p) ==
  /\ run[p] # Idle /\ run[p].pc = "record"
  /\ temporary' = Torn /\ cache' = Torn /\ Goto(p, "fill")
  /\ UNCHANGED <<program, lock, stageReports, fullReport, bounds, history>>

OpenTemporary(p) ==
  /\ run[p] # Idle /\ run[p].pc = "record"
  /\ temporary' = Torn /\ Goto(p, "fill")
  /\ UNCHANGED <<program, lock, cache, stageReports, fullReport, bounds, history>>

\* The open file may have been renamed by another process meanwhile.
FillTemporary(p) ==
  /\ run[p] # Idle /\ run[p].pc = "fill"
  /\ temporary' = IF temporary # Absent THEN run[p].cache ELSE Absent
  /\ cache' = IF temporary = Absent /\ cache = Torn THEN run[p].cache ELSE cache
  /\ Goto(p, "rename")
  /\ UNCHANGED <<program, lock, stageReports, fullReport, bounds, history>>

\* A degraded call is recorded and then ends the run.
Rename(p) ==
  /\ run[p] # Idle /\ run[p].pc = "rename" /\ temporary # Absent
  /\ cache' = temporary /\ temporary' = Absent
  /\ Goto(p, IF run[p].degraded THEN "exit" ELSE "next")
  /\ UNCHANGED <<program, lock, stageReports, fullReport, bounds, history>>

\* Another process has renamed the temporary file.
RenameFails(p) ==
  /\ run[p] # Idle /\ run[p].pc = "rename" /\ temporary = Absent
  /\ LoseCall(p) /\ Finish(p)
  /\ UNCHANGED <<program, files, bounds, sent, overlapped, killed>>

----------------------------------------------------------------------------
(* Reports.                                                                *)

Finished(p) == run[p] # Idle /\ run[p].pc = "next" /\ run[p].pending = {}

ReportOf(p) ==
  StageReport(run[p].stage, run[p].experiment.manifest, run[p].cache,
              Cardinality(IdsOf), run[p].before, run[p].new)
ReportIsValid(report) ==
  IF program = "staged" THEN StageReportIsValid(report, Cardinality(IdsOf))
                        ELSE CandidateReportIsValid(report, Cardinality(IdsOf))
FullReportOf(p) ==
  FullReport(CachedCases(Dataset, run[p].cache), HighConfidenceThreshold, AmbiguityMargin)

\* The report of a stage replaces the earlier one by a rename.
WriteStageReport(p) ==
  /\ Finished(p) /\ program # "full"
  /\ IF ReportIsValid(ReportOf(p))
     THEN /\ stageReports' = [stageReports EXCEPT ![run[p].stage] = ReportOf(p)]
          /\ Goto(p, IF run[p].stage = "full" THEN "full_report" ELSE "exit")
     ELSE Finish(p) /\ UNCHANGED stageReports
  /\ UNCHANGED <<program, lock, cache, temporary, fullReport, bounds, history>>

WriteFullReport(p) ==
  /\ run[p] # Idle /\ run[p].pc = "full_report"
  /\ fullReport' = IF FullReportIsValid(FullReportOf(p)) THEN FullReportOf(p) ELSE fullReport
  /\ Finish(p)
  /\ UNCHANGED <<program, lock, cache, temporary, stageReports, bounds, history>>

\* The full program writes its report in place ...
OpenOutput(p) ==
  /\ Finished(p) /\ program = "full"
  /\ IF /\ IsCompleteSequence(run[p].cache.completed)
        /\ FullReportIsValid(FullReportOf(p))
     THEN fullReport' = Torn /\ Goto(p, "output")
     ELSE UNCHANGED fullReport /\ Finish(p)
  /\ UNCHANGED <<program, lock, cache, temporary, stageReports, bounds, history>>

FillOutput(p) ==
  /\ run[p] # Idle /\ run[p].pc = "output"
  /\ fullReport' = FullReportOf(p) /\ Goto(p, "unlink")
  /\ UNCHANGED <<program, lock, cache, temporary, stageReports, bounds, history>>

\* ... and then drops the checkpoint; the next start is a new pass.
Unlink(p) ==
  /\ run[p] # Idle /\ run[p].pc = "unlink"
  /\ cache' = Absent /\ Finish(p)
  /\ sent' = [id \in AllIds |-> CallsInFlight(id)] /\ lost' = [id \in AllIds |-> 0]
  /\ UNCHANGED <<program, lock, temporary, stageReports, fullReport, bounds, overlapped, killed>>

\* The end of the "with" statement: the lock file goes, whatever happened.
Release(p) ==
  /\ run[p] # Idle /\ run[p].pc = "exit"
  /\ lock' = FALSE
  /\ run' = [run EXCEPT ![p] = Idle]
  /\ UNCHANGED <<program, cache, temporary, stageReports, fullReport, bounds, history>>

----------------------------------------------------------------------------
(* Faults and the operator.                                                *)

\* Ctrl-C takes effect where the program awaits: in the call.
Interrupt(p) ==
  /\ run[p] # Idle /\ run[p].pc = "waiting" /\ faults < MaxFaults
  /\ faults' = faults + 1
  /\ LoseCall(p) /\ Finish(p)
  /\ UNCHANGED <<program, files, starts, sent, overlapped, killed>>

\* OSError while a file is opened, filled or renamed.
WriteFails(p) ==
  /\ run[p] # Idle /\ faults < MaxFaults
  /\ \/ run[p].pc \in {"record", "fill", "full_report", "output"}
     \/ run[p].pc = "rename" /\ temporary # Absent
     \/ Finished(p)
  /\ faults' = faults + 1
  /\ LoseCall(p) /\ Finish(p)
  /\ UNCHANGED <<program, files, starts, sent, overlapped, killed>>

Kill(p) ==
  /\ run[p] # Idle /\ faults < MaxFaults
  /\ faults' = faults + 1
  /\ LoseCall(p)
  /\ run' = [run EXCEPT ![p] = Idle]
  /\ killed' = (killed \/ Locks)
  /\ UNCHANGED <<program, files, starts, sent, overlapped>>

\* The operator clears a lock file that no process holds.
RemoveStaleLock ==
  /\ lock /\ Live = {}
  /\ lock' = FALSE /\ killed' = FALSE
  /\ UNCHANGED <<program, cache, temporary, stageReports, fullReport, run, bounds,
                 sent, lost, overlapped>>

IntentNext ==
  \/ \E p \in Processes :
       \/ \E stage \in StagesOf, experiment \in Experiments[program] : Start(p, stage, experiment)
       \/ \E accepted \in 0..Len(Dataset) : Load(p, accepted)
       \/ Send(p) \/ Degrade(p)
       \/ \E scores \in Replies[program] : Succeed(p, scores)
       \/ OpenTemporary(p) \/ FillTemporary(p) \/ Rename(p) \/ RenameFails(p)
       \/ WriteStageReport(p) \/ WriteFullReport(p)
       \/ OpenOutput(p) \/ FillOutput(p) \/ Unlink(p) \/ Release(p)
       \/ Interrupt(p) \/ WriteFails(p) \/ Kill(p)
  \/ RemoveStaleLock

IntentSpec == IntentInit /\ [][IntentNext]_intentVars

----------------------------------------------------------------------------
(* Properties.                                                             *)

Successes == ToSet(Completed(cache))
RecordsOf(id) == Cardinality({i \in DOMAIN Completed(cache) : Completed(cache)[i].query_id = id})
FailuresOf(id) == Cardinality({i \in DOMAIN Failed(cache) : Failed(cache)[i] = id})

\* Every paid call is accounted for (record in the three programs): the calls
\* sent for an id are its success and its failures in the cache file, those lost
\* to a fault and those under way; an id whose success is on disk is not sent
\* again.  Only two unlocked processes may overwrite each other's records.
AttemptsAreAccountedFor ==
  ~overlapped =>
    \A id \in AllIds :
      /\ sent[id] = RecordsOf(id) + FailuresOf(id) + lost[id] + CallsInFlight(id)
      /\ RecordsOf(id) + Cardinality({p \in Live : run[p].pc = "waiting" /\ run[p].current = id}) <= 1

\* The registered limits of a gate, counted from the cases on disk alone.
RightAmong(ids) == Cardinality({case \in Successes : case.query_id \in ids /\ Correct(case)})
NoneMissedAmong(ids) == \A case \in Successes : case.query_id \in ids => ~UnderRetrieval(case)
PaidFor(ids) == ids \subseteq {case.query_id : case \in Successes}
Screened ==
  /\ PaidFor(BaselineFailures) /\ NoneMissedAmong(BaselineFailures)
  /\ RightAmong(BaselineFailures \cap RagIds) >= Limits["failure_rag_correct"]
  /\ RightAmong(BaselineFailures \ RagIds) >= Limits["failure_no_rag_correct"]
Guards == ToSet(cache.experiment.manifest.guards)
Guarded ==
  /\ PaidFor(Guards) /\ NoneMissedAmong(Guards)
  /\ RightAmong(Guards) >= Limits["guard_correct"]
Developed ==
  \A id \in ToSet(DevelopmentIds) : \E case \in Successes : case.query_id = id /\ Correct(case)

\* No later stage spends before the earlier gates pass (ensure_stage_unlocked):
\* a call for an id beyond the failure set or the guards happens only when the
\* cases on disk meet the registered limits.
SpendingIsGated ==
  \A id \in AllIds : sent[id] > 0 =>
    /\ program = "staged" /\ id \notin BaselineFailures =>
         Screened /\ (id \in Guards \/ Guarded)
    /\ program = "candidate" /\ id \in ToSet(ChallengeIds) => Developed

\* A paid success never vanishes from the disk: it stays in the cache file until
\* a complete report that contains it has been written (README, "checkpoint").
PaidSuccessesAreKept ==
  [][\A case \in Successes :
       \/ case \in Successes'
       \/ Readable(fullReport) /\ case \in ToSet(fullReport.cases)
       \/ overlapped]_intentVars

\* What is left on disk has a cause, and the next start can use it: one process
\* at a time holds the lock, only a kill leaves the lock file behind, the cache
\* is never half written, and a checkpoint is a prefix of the dataset.
LeftoversHaveACause ==
  /\ Locks => (lock = (Live # {} \/ killed)) /\ Cardinality(Live) <= 1
  /\ overlapped \/ cache # Torn
  /\ Readable(cache) =>
       /\ CacheIsValid(cache, IdsOf)
       /\ program = "full" => IsPrefix(QueryIds(cache.completed), Dataset)
  /\ fullReport = Torn => faults > 0 \/ \E p \in Live : run[p].pc = "output"

\* A finished stage can always be reported, and what the reports say is true of
\* the paid cases: each covers its stage in order, the gate verdict is that of
\* the cases, the failure taxonomy partitions the wrong ones, and replaying the
\* scores under stricter limits turns routes into clarifications and nothing else.
ReportsAreTrue ==
  /\ \A p \in Processes : Finished(p) /\ ~overlapped =>
       IF program = "full" THEN IsCompleteSequence(run[p].cache.completed)
                           ELSE ReportIsValid(ReportOf(p))
  /\ \A stage \in Stages : stageReports[stage] # Absent =>
       LET report == stageReports[stage]
           cases  == {case \in Successes : case.query_id \in
                        ToSet(StageIds(stage, cache.experiment.manifest))}
       IN /\ ToSet(report.cases) = cases
          /\ QueryIds(report.cases) = StageIds(stage, cache.experiment.manifest)
          /\ report.under = Cardinality({case \in cases :
                 case.query_id \in RagIds /\ case.route = "system_direct"})
          /\ report.overall.correct_count = Cardinality({case \in cases : Correct(case)})
          /\ stage = "challenge" => (report.gate.passed <=> \A case \in cases : Correct(case))
          /\ stage = "full" /\ report.gate.passed =>
               GatePassed("guard", cache.experiment.manifest, cache)
  /\ Readable(fullReport) =>
       LET analysis == FailureAnalysis(fullReport)
           stricter == ReplayThresholds(fullReport, HighConfidenceThreshold + 1, AmbiguityMargin + 1)
       IN /\ IsCompleteSequence(fullReport.cases)
          /\ AnalysisIsValid(analysis)
          /\ analysis.under + analysis.over + analysis.clarification = analysis.incorrect_count
          /\ ReplayThresholds(fullReport, HighConfidenceThreshold, AmbiguityMargin) = fullReport
          /\ \A i \in DOMAIN Dataset :
               stricter.cases[i].route \in {fullReport.cases[i].route, "clarification"}
=============================================================================
