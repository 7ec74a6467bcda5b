-------------------------- MODULE LifecycleProofs --------------------------
(***************************************************************************)
(* Two properties of ApplicationLifecycle for any number of streams,       *)
(* probes, clients, failures and outages.  RetryAdviceIsHonest needs where *)
(* in a stream the timer may still have fired; ReadinessIsHonest needs     *)
(* what each half of a probe has seen when it gives its result.            *)
(***************************************************************************)
EXTENDS ApplicationLifecycle, FiniteSetTheorems, TLAPS

Places == {"idle", "creating", "first", "reading", "yielded", "closing", "done"}
BeforeFirst == {"idle", "creating", "first"}
SdkCodes == {"timeout", "unavailable", "quota_exhausted", "authentication",
             "access_denied", "rate_limited", "protocol"}
Codes == SdkCodes \cup {"first_packet_timeout", "none", "cancelled", "transport",
                        "closed", "complete"}
Endings == [code : Codes, retryable : BOOLEAN]

StreamTypes ==
  /\ at \in [Streams -> Places]
  /\ response \in [Streams -> {"none", "open", "closed", "left"}]
  /\ interrupts \in [Streams -> SUBSET {"timer", "caller"}]
  /\ delivered \in [Streams -> Nat]
  /\ pending \in [Streams -> Endings]
  /\ ending \in [Streams -> Endings]

\* The timer reaches a stream before its first packet only, and the advice it
\* leads to is given there.
TimerShape(s) ==
  /\ at[s] \in BeforeFirst => delivered[s] = 0
  /\ "timer" \in interrupts[s] => at[s] \in {"creating", "first"}
  /\ at[s] = "closing" /\ pending[s] = FirstPacketTimeout => delivered[s] = 0
  /\ ending[s] = FirstPacketTimeout => delivered[s] = 0 /\ response[s] \in {"none", "closed"}
  /\ ending[s] = FirstPacketTimeout => at[s] = "done"
  /\ at[s] # "done" => response[s] # "left"

StreamInv == StreamTypes /\ \A s \in Streams : TimerShape(s)

ProbeStates == {"idle", "pending", "selected", "ok", "no extension", "error"}

ProbeTypes ==
  /\ up \in SUBSET Dependencies
  /\ extension \in BOOLEAN
  /\ probe \in [Probes -> [Dependencies -> ProbeStates]]
  /\ answer \in [Probes -> [postgresql : BOOLEAN, pgvector : BOOLEAN,
                            redis : BOOLEAN, given : BOOLEAN]]
  /\ steady \in [Probes -> SUBSET Dependencies]
  /\ glimpsed \in [Probes -> SUBSET Dependencies]

\* What the two halves of a probe have seen.
ProbeShape(q) ==
  /\ \A d \in Dependencies : probe[q][d] \in {"pending", "selected"} => up \subseteq glimpsed[q]
  /\ \A d \in Dependencies : d \in steady[q] => probe[q][d] # "error"
  /\ probe[q]["database"] \in {"selected", "ok", "no extension"} => "database" \in glimpsed[q]
  /\ probe[q]["database"] = "ok" => extension
  /\ probe[q]["database"] = "no extension" => ~extension
  /\ probe[q]["redis"] \in {"idle", "pending", "ok", "error"}
  /\ probe[q]["redis"] = "ok" => "redis" \in glimpsed[q]
  /\ answer[q].given => Settled(q) /\ answer[q] = Report(q)

ProbeInv == ProbeTypes /\ \A q \in Probes : ProbeShape(q)

-----------------------------------------------------------------------------
(* Errors                                                                  *)

\* What an ending is made of.
LEMMA ErrorFields ==
  ASSUME NEW code \in Codes, NEW retryable \in BOOLEAN
  PROVE  /\ Error(code, retryable) \in Endings
         /\ Error(code, retryable).code = code
         /\ Error(code, retryable).retryable = retryable
BY DEF Error, Endings

\* Only a missed first packet ends with its error.
LEMMA OwnErrors ==
  /\ FirstPacketTimeout \in Endings
  /\ FirstPacketTimeout.code = "first_packet_timeout" /\ FirstPacketTimeout.retryable = TRUE
  /\ ProtocolError \in Endings /\ ProtocolError # FirstPacketTimeout
  /\ NoEnding \in Endings /\ NoEnding # FirstPacketTimeout
<1>1. "first_packet_timeout" \in Codes /\ "protocol" \in Codes /\ "none" \in Codes
  BY DEF Codes, SdkCodes
<1>2. FirstPacketTimeout \in Endings /\ FirstPacketTimeout.code = "first_packet_timeout"
        /\ FirstPacketTimeout.retryable = TRUE
  BY <1>1, ErrorFields DEF FirstPacketTimeout
<1>3. ProtocolError \in Endings /\ ProtocolError.code = "protocol"
  BY <1>1, ErrorFields DEF ProtocolError
<1>4. NoEnding \in Endings /\ NoEnding.code = "none"
  BY <1>1, ErrorFields DEF NoEnding, Plain
<1> QED BY <1>2, <1>3, <1>4

LEMMA PlainEndings ==
  \A code \in {"cancelled", "transport", "closed", "complete"} :
    Plain(code) \in Endings /\ Plain(code).code = code /\ Plain(code).retryable = FALSE
<1> SUFFICES ASSUME NEW code \in {"cancelled", "transport", "closed", "complete"}
             PROVE  /\ Plain(code) \in Endings
                    /\ Plain(code).code = code /\ Plain(code).retryable = FALSE
  OBVIOUS
<1>1. code \in Codes
  BY DEF Codes
<1> QED BY <1>1, ErrorFields DEF Plain

LEMMA PlainEndingsDiffer ==
  \A code \in {"cancelled", "transport", "closed", "complete"} :
    Plain(code) \in Endings /\ Plain(code) # FirstPacketTimeout
BY PlainEndings, OwnErrors

\* No error of the SDK is taken for a missed first packet, and a used-up
\* quota advises no retry.
LEMMA MappedErrorsDiffer ==
  ASSUME NEW error \in Errors
  PROVE  /\ MapError(error) \in Endings
         /\ MapError(error) # FirstPacketTimeout
         /\ error.quota => ~MapError(error).retryable
<1>1. error \in SdkErrors
  BY StreamAssumption
<1>2. error.quota \in BOOLEAN /\ (error.kind # "status" => ~error.quota)
  <2>1. CASE error \in {[kind |-> k, status |-> 0, quota |-> FALSE] :
                          k \in {"timeout", "connection", "other"}}
    <3>1. PICK k \in {"timeout", "connection", "other"} :
            error = [kind |-> k, status |-> 0, quota |-> FALSE]
      BY <2>1
    <3>2. error.quota = FALSE
      BY <3>1
    <3> QED BY <3>2
  <2>2. CASE error \in [kind : {"status"}, status : Statuses, quota : BOOLEAN]
    BY <2>2
  <2> QED BY <1>1, <2>1, <2>2 DEF SdkErrors
<1>3. PICK code \in SdkCodes, retryable \in BOOLEAN :
        MapError(error) = Error(code, retryable) /\ (error.quota => ~retryable)
  <2>1. \E code \in SdkCodes, retryable \in BOOLEAN :
          StatusError(error.status) = Error(code, retryable)
    <3>1. StatusError(error.status) \in
            {Error("authentication", FALSE), Error("access_denied", FALSE),
             Error("timeout", TRUE), Error("rate_limited", TRUE),
             Error("unavailable", TRUE), Error("protocol", FALSE)}
      BY DEF StatusError, ProtocolError
    <3> QED BY <3>1 DEF SdkCodes
  <2>2. CASE error.kind \in {"timeout", "connection"}
    BY <1>2, <2>2 DEF MapError, SdkCodes
  <2>3. CASE error.kind \notin {"timeout", "connection"} /\ error.quota
    BY <2>3 DEF MapError, SdkCodes
  <2>4. CASE error.kind \notin {"timeout", "connection"} /\ ~error.quota
    BY <2>1, <2>4 DEF MapError
  <2> QED BY <2>2, <2>3, <2>4
<1>4. code \in Codes /\ code # "first_packet_timeout"
  BY DEF Codes, SdkCodes
<1> QED
  BY <1>2, <1>3, <1>4, ErrorFields, OwnErrors

-----------------------------------------------------------------------------
(* Streams                                                                 *)

\* A stream that ends keeps the invariant unless it advises a retry wrongly.
LEMMA EndsWithKeeps ==
  ASSUME StreamInv, NEW s \in Streams, NEW how \in Endings,
         NEW left \in {"none", "open", "closed", "left"},
         EndsWith(s, how, left), Passes(s),
         how = FirstPacketTimeout => delivered[s] = 0 /\ left \in {"none", "closed"}
  PROVE  StreamInv'
<1>1. StreamTypes'
  BY DEF StreamInv, StreamTypes, EndsWith, Goto, Passes, Places
<1>2. ASSUME NEW r \in Streams PROVE TimerShape(r)'
  <2>1. TimerShape(r) /\ TimerShape(s)
    BY DEF StreamInv
  <2> QED
    BY <2>1 DEF StreamInv, StreamTypes, TimerShape, EndsWith, Goto, Passes, BeforeFirst
<1> QED BY <1>1, <1>2 DEF StreamInv

LEMMA ClosesThenKeeps ==
  ASSUME StreamInv, NEW s \in Streams, NEW how \in Endings,
         at[s] # "done", ClosesThen(s, how), Passes(s),
         how = FirstPacketTimeout => delivered[s] = 0
  PROVE  StreamInv'
<1>1. StreamTypes'
  BY DEF StreamInv, StreamTypes, ClosesThen, Goto, Passes, Places
<1>2. ASSUME NEW r \in Streams PROVE TimerShape(r)'
  <2>1. TimerShape(r) /\ TimerShape(s)
    BY DEF StreamInv
  <2> QED
    BY <2>1 DEF StreamInv, StreamTypes, TimerShape, ClosesThen, Goto, Passes, BeforeFirst
<1> QED BY <1>1, <1>2 DEF StreamInv

LEMMA HandledKeeps ==
  ASSUME StreamInv, NEW s \in Streams, NEW how \in Endings,
         at[s] \in {"creating", "first"}, HandledBeforeFirst(s, how), Passes(s)
  PROVE  StreamInv'
<1>1. delivered[s] = 0 /\ response[s] \in {"none", "open", "closed"}
  BY DEF StreamInv, StreamTypes, TimerShape, BeforeFirst
<1>2. CASE response[s] = "open"
  <2>1. ClosesThen(s, how)
    BY <1>2 DEF HandledBeforeFirst
  <2> QED BY <1>1, <2>1, ClosesThenKeeps
<1>3. CASE response[s] # "open"
  <2>1. EndsWith(s, how, response[s])
    BY <1>3 DEF HandledBeforeFirst
  <2> QED BY <1>1, <1>3, <2>1, EndsWithKeeps
<1> QED BY <1>2, <1>3

\* Every step of a stream keeps the invariant.
LEMMA StreamStep ==
  ASSUME StreamInv, NEW s \in Streams, Stream(s) \/ Begin(s)
  PROVE  StreamInv'
<1>1. /\ Left(s) \in {"none", "open", "closed", "left"}
      /\ TimerShape(s)
  BY DEF StreamInv, StreamTypes, Left
<1>2. CASE Begin(s) \/ HeadersArrive(s) \/ TimerFires(s) \/ Cancel(s) \/ Pull(s) \/ Abandon(s)
  <2>1. StreamTypes'
    BY <1>2 DEF StreamInv, StreamTypes, Begin, HeadersArrive, TimerFires, Cancel, Pull,
                Abandon, Goto, Places
  <2>2. ASSUME NEW r \in Streams PROVE TimerShape(r)'
    <3>1. TimerShape(r)
      BY DEF StreamInv
    <3> QED
      BY <1>1, <1>2, <3>1 DEF StreamInv, StreamTypes, TimerShape, BeforeFirst, Begin,
           HeadersArrive, TimerFires, Cancel, Pull, Abandon, Goto
  <2> QED BY <2>1, <2>2 DEF StreamInv
<1>3. CASE PacketArrives(s)
  <2>1. PICK packet \in {"text", "empty", "bad"} : Take(s, packet)
    BY <1>3 DEF PacketArrives
  <2>2. CASE packet = "bad"
    <3>1. ClosesThen(s, ProtocolError) /\ Passes(s) /\ at[s] # "done"
      BY <1>3, <2>1, <2>2 DEF Take, PacketArrives
    <3> QED BY <3>1, OwnErrors, ClosesThenKeeps
  <2>3. CASE packet # "bad"
    <3>0. /\ \/ Goto(s, "yielded") /\ delivered' = [delivered EXCEPT ![s] = @ + 1]
             \/ Goto(s, "reading") /\ delivered' = delivered
          /\ UNCHANGED <<response, pending, ending>>
          /\ interrupts' = [interrupts EXCEPT ![s] = {}]
          /\ at[s] \in {"first", "reading"}
      <4>1. CASE packet = "text"
        BY <1>3, <2>1, <4>1 DEF Take, PacketArrives, Passes
      <4>2. CASE packet = "empty"
        BY <1>3, <2>1, <4>2 DEF Take, PacketArrives, Passes
      <4> QED BY <2>3, <4>1, <4>2
    <3>1. StreamTypes'
      BY <3>0 DEF StreamInv, StreamTypes, Goto, Places
    <3>2. ASSUME NEW r \in Streams PROVE TimerShape(r)'
      <4>1. TimerShape(r)
        BY DEF StreamInv
      <4> QED
        BY <1>1, <3>0, <4>1 DEF StreamInv, StreamTypes, TimerShape, BeforeFirst, Goto
    <3> QED BY <3>1, <3>2 DEF StreamInv
  <2> QED BY <2>2, <2>3
<1>4. CASE EmptyResponse(s)
  BY <1>4, OwnErrors, ClosesThenKeeps DEF EmptyResponse
<1>5. CASE FailsBeforeFirst(s)
  <2>1. PICK how \in MappedErrors : HandledBeforeFirst(s, how)
    BY <1>5 DEF FailsBeforeFirst
  <2>2. how \in Endings
    BY MappedErrorsDiffer DEF MappedErrors
  <2> QED BY <1>5, <2>1, <2>2, HandledKeeps DEF FailsBeforeFirst
<1>6. CASE TransportFailsBeforeFirst(s)
  BY <1>1, <1>6, PlainEndingsDiffer, EndsWithKeeps DEF TransportFailsBeforeFirst
<1>7. CASE Interrupted(s)
  <2>1. Passes(s) /\ at[s] # "done"
    BY <1>7 DEF Interrupted
  <2>2. CASE "caller" \notin interrupts[s]
    <3>1. "timer" \in interrupts[s]
      BY <1>7, <2>2 DEF Interrupted, StreamInv, StreamTypes
    <3>2. at[s] \in {"creating", "first"}
      BY <1>1, <3>1 DEF TimerShape
    <3>3. HandledBeforeFirst(s, FirstPacketTimeout)
      BY <1>7, <2>2 DEF Interrupted
    <3> QED BY <2>1, <3>2, <3>3, OwnErrors, HandledKeeps
  <2>3. CASE "caller" \in interrupts[s] /\ at[s] = "reading"
    <3>1. ClosesThen(s, Plain("cancelled"))
      BY <1>7, <2>3 DEF Interrupted
    <3> QED BY <2>1, <3>1, PlainEndingsDiffer, ClosesThenKeeps
  <2>4. CASE "caller" \in interrupts[s] /\ at[s] # "reading"
    <3>1. EndsWith(s, Plain("cancelled"), Left(s))
      BY <1>7, <2>4 DEF Interrupted
    <3> QED BY <1>1, <2>1, <3>1, PlainEndingsDiffer, EndsWithKeeps
  <2> QED BY <2>2, <2>3, <2>4
<1>8. CASE Aclose(s)
  BY <1>8, PlainEndingsDiffer, ClosesThenKeeps DEF Aclose
<1>9. CASE ReadingEnds(s)
  <2>1. PICK how \in MappedErrors \cup {Plain("complete"), Plain("transport")} :
          ClosesThen(s, how)
    BY <1>9 DEF ReadingEnds
  <2>2. how \in Endings /\ how # FirstPacketTimeout
    BY MappedErrorsDiffer, PlainEndingsDiffer DEF MappedErrors
  <2> QED BY <1>9, <2>1, <2>2, ClosesThenKeeps DEF ReadingEnds
<1>10. CASE Closed(s)
  <2>1. pending[s] \in Endings /\ (pending[s] = FirstPacketTimeout => delivered[s] = 0)
    BY <1>1, <1>10 DEF Closed, StreamInv, StreamTypes, TimerShape
  <2> QED BY <1>10, <2>1, EndsWithKeeps DEF Closed
<1>11. CASE CloseFails(s)
  BY <1>1, <1>11, PlainEndingsDiffer, EndsWithKeeps DEF CloseFails
<1> QED
  BY <1>2, <1>3, <1>4, <1>5, <1>6, <1>7, <1>8, <1>9, <1>10, <1>11 DEF Stream

\* Closing a client under its streams keeps it too.
LEMMA ClientStep ==
  ASSUME StreamInv, NEW c, ClientCloses(c)
  PROVE  StreamInv'
<1>1. StreamTypes'
  BY DEF StreamInv, StreamTypes, ClientCloses
<1>2. ASSUME NEW r \in Streams PROVE TimerShape(r)'
  BY DEF StreamInv, StreamTypes, TimerShape, ClientCloses
<1> QED BY <1>1, <1>2 DEF StreamInv

\* So does a step that leaves the streams alone.
LEMMA StreamStutter ==
  ASSUME StreamInv, UNCHANGED streamVars
  PROVE  StreamInv'
BY DEF StreamInv, StreamTypes, TimerShape, streamVars

-----------------------------------------------------------------------------
(* Probes                                                                  *)

\* A step that leaves the probes and the world alone keeps the invariant.
LEMMA ProbeStutter ==
  ASSUME ProbeInv, UNCHANGED <<probeVars, worldVars>>
  PROVE  ProbeInv'
BY DEF ProbeInv, ProbeTypes, ProbeShape, Settled, Report, probeVars, worldVars

\* A half of a probe gives its result.
LEMMA GivingKeeps ==
  ASSUME ProbeInv, NEW q \in Probes,
         NEW d \in Dependencies, NEW result \in ProbeStates,
         probe[q][d] \in {"pending", "selected"}, ProbeGives(q, d, result),
         steady' \in [Probes -> SUBSET Dependencies],
         \A r \in Probes : steady'[r] \subseteq steady[r],
         result = "error" => d \notin steady'[q],
         result \in {"selected", "ok", "no extension"} => d \in up,
         result \in {"selected", "no extension"} => d = "database",
         d = "database" => /\ result = "ok" => extension
                           /\ result = "no extension" => ~extension,
         d = "redis" => result # "pending",
         result # "idle"
  PROVE  ProbeInv'
<1>1. /\ probe' = [probe EXCEPT ![q][d] = result]
      /\ UNCHANGED <<answer, glimpsed, up, extension>>
  BY DEF ProbeGives, worldVars
<1>2. ProbeTypes'
  BY <1>1 DEF ProbeInv, ProbeTypes
<1>3. ASSUME NEW r \in Probes PROVE ProbeShape(r)'
  <2>1. ProbeShape(r) /\ ProbeShape(q) /\ up \subseteq glimpsed[q]
    BY DEF ProbeInv, ProbeShape
  <2>2. ~answer[q].given
    BY <2>1 DEF ProbeShape, Settled
  <2>3. /\ r # q => probe'[r] = probe[r]
        /\ probe'[q][d] = result
        /\ \A e \in Dependencies \ {d} : probe'[q][e] = probe[q][e]
    BY <1>1 DEF ProbeInv, ProbeTypes
  <2>4. CASE r # q
    BY <1>1, <2>1, <2>3, <2>4 DEF ProbeShape, Settled, Report
  <2>5. CASE r = q
    <3>1. CASE d = "database"
      BY <1>1, <2>1, <2>2, <2>3, <2>5, <3>1 DEF ProbeShape, Dependencies
    <3>2. CASE d = "redis"
      <4>1. probe'[q]["redis"] = result /\ probe'[q]["database"] = probe[q]["database"]
        BY <2>3, <3>2 DEF Dependencies
      <4>2. result \in {"ok", "error"} /\ (result = "ok" => "redis" \in glimpsed'[q])
        BY <1>1, <2>1, <3>2 DEF ProbeStates
      <4>3. \A e \in Dependencies : e \in steady'[q] => probe'[q][e] # "error"
        BY <2>1, <3>2, <4>1 DEF ProbeShape, Dependencies
      <4> QED
        BY <1>1, <2>1, <2>2, <2>5, <4>1, <4>2, <4>3 DEF ProbeShape
    <3> QED BY <3>1, <3>2 DEF Dependencies
  <2> QED BY <2>4, <2>5
<1> QED BY <1>2, <1>3 DEF ProbeInv

\* Every step of a probe, and every outage, keeps the invariant.
LEMMA ProbeStep ==
  ASSUME ProbeInv, NEW q \in Probes,
         \/ ProbeBegins(q) \/ DatabaseSelects(q) \/ DatabaseAnswers(q)
         \/ RedisAnswers(q) \/ ProbeReturns(q) \/ \E d \in Dependencies : ProbeFails(q, d)
  PROVE  ProbeInv'
<1> USE DEF ProbeInv
<1>1. CASE ProbeBegins(q)
  <2>1. ProbeTypes'
    BY <1>1 DEF ProbeBegins, ProbeTypes, ProbeStates, worldVars
  <2>2. ASSUME NEW r \in Probes PROVE ProbeShape(r)'
    <3>1. ProbeShape(r) /\ ~Settled(q)
      BY <1>1 DEF ProbeBegins, Settled, Dependencies
    <3>2. CASE r = q
      BY <1>1, <3>1, <3>2 DEF ProbeBegins, ProbeTypes, ProbeShape, worldVars, Dependencies
    <3>3. CASE r # q
      BY <1>1, <3>1, <3>3 DEF ProbeBegins, ProbeTypes, ProbeShape, Settled, Report, worldVars
    <3> QED BY <3>2, <3>3
  <2> QED BY <2>1, <2>2
<1>2. CASE DatabaseSelects(q)
  BY <1>2, GivingKeeps DEF DatabaseSelects, ProbeTypes, ProbeStates, Dependencies
<1>3. CASE DatabaseAnswers(q)
  <2> DEFINE result == IF extension THEN "ok" ELSE "no extension"
  <2>1. /\ result \in {"ok", "no extension"}
        /\ result = "ok" => extension
        /\ result = "no extension" => ~extension
    OBVIOUS
  <2>2. ProbeGives(q, "database", result) /\ UNCHANGED steady
    BY <1>3 DEF DatabaseAnswers
  <2> HIDE DEF result
  <2> QED
    BY <1>3, <2>1, <2>2, GivingKeeps DEF DatabaseAnswers, ProbeTypes, ProbeStates, Dependencies
<1>4. CASE RedisAnswers(q)
  BY <1>4, GivingKeeps DEF RedisAnswers, ProbeTypes, ProbeStates, Dependencies
<1>5. ASSUME NEW d \in Dependencies, ProbeFails(q, d) PROVE ProbeInv'
  <2>1. /\ steady' \in [Probes -> SUBSET Dependencies]
        /\ \A r \in Probes : steady'[r] \subseteq steady[r]
        /\ d \notin steady'[q]
    BY <1>5 DEF ProbeFails, ProbeTypes
  <2> QED
    BY <1>5, <2>1, GivingKeeps DEF ProbeFails, ProbeStates
<1>6. CASE ProbeReturns(q)
  <2>1. Report(q) \in [postgresql : BOOLEAN, pgvector : BOOLEAN, redis : BOOLEAN, given : BOOLEAN]
    BY DEF Report
  <2>2. ProbeTypes'
    BY <1>6, <2>1 DEF ProbeReturns, ProbeTypes, worldVars
  <2>3. ASSUME NEW r \in Probes PROVE ProbeShape(r)'
    BY <1>6 DEF ProbeReturns, ProbeTypes, ProbeShape, Settled, Report, worldVars
  <2> QED BY <2>2, <2>3
<1> QED
  BY <1>1, <1>2, <1>3, <1>4, <1>5, <1>6

LEMMA OutageStep ==
  ASSUME ProbeInv, Outage
  PROVE  ProbeInv'
<1>1. PICK d \in Dependencies : up' = IF d \in up THEN up \ {d} ELSE up \cup {d}
  BY DEF Outage
<1>2. ProbeTypes'
  BY <1>1 DEF Outage, ProbeInv, ProbeTypes
<1>3. ASSUME NEW q \in Probes PROVE ProbeShape(q)'
  <2>1. ProbeShape(q)
    BY DEF ProbeInv
  <2>2. UNCHANGED <<probe, answer, extension>>
    BY DEF Outage
  <2>3. steady'[q] \subseteq steady[q] /\ glimpsed[q] \subseteq glimpsed'[q]
    BY DEF Outage
  <2>4. ~Settled(q) => up' \subseteq glimpsed'[q]
    BY DEF Outage
  <2>5. \A e \in Dependencies : probe[q][e] \in {"pending", "selected"} => ~Settled(q)
    BY DEF Settled
  <2> QED
    BY <2>1, <2>2, <2>3, <2>4, <2>5 DEF ProbeShape, Settled, Report
<1> QED BY <1>2, <1>3 DEF ProbeInv

-----------------------------------------------------------------------------
(* The whole process                                                       *)

LEMMA InitHolds == Init => StreamInv /\ ProbeInv
<1> SUFFICES ASSUME Init PROVE StreamInv /\ ProbeInv
  OBVIOUS
<1>1. StreamInv
  BY OwnErrors DEF Init, StreamInit, StreamInv, StreamTypes, TimerShape, Places
<1>2. ProbeTypes
  BY DEF Init, ProbeTypes, ProbeStates, NoAnswer
<1>3. \A q \in Probes : ProbeShape(q)
  BY DEF Init, ProbeShape, NoAnswer, Dependencies
<1> QED BY <1>1, <1>2, <1>3 DEF ProbeInv

\* The steps of the lifespan touch streams only by closing their client.
LEMMA LifespanStep ==
  ASSUME \/ OpenDatabase \/ OpenRedis \/ BuildClient \/ BuildReturns \/ BuildFails
         \/ Shutdown \/ CloseClient \/ CloseServicesEnds \/ ClosePools
  PROVE  /\ UNCHANGED <<probeVars, worldVars>>
         /\ UNCHANGED streamVars \/ \E c : ClientCloses(c)
BY DEF OpenDatabase, OpenRedis, BuildClient, BuildReturns, BuildFails, Shutdown, CloseClient,
       CloseServicesEnds, ClosePools, ClosePool, Lifespan

LEMMA StepHolds == StreamInv /\ ProbeInv /\ [Next]_vars => StreamInv' /\ ProbeInv'
<1> SUFFICES ASSUME StreamInv, ProbeInv, [Next]_vars PROVE StreamInv' /\ ProbeInv'
  OBVIOUS
<1>1. CASE \/ OpenDatabase \/ OpenRedis \/ BuildClient \/ BuildReturns \/ BuildFails
           \/ Shutdown \/ CloseClient \/ CloseServicesEnds \/ ClosePools
  BY <1>1, LifespanStep, ClientStep, StreamStutter, ProbeStutter
<1>2. ASSUME NEW s \in Streams, StreamBegins(s) \/ StreamGoesOn(s)
      PROVE  StreamInv' /\ ProbeInv'
  BY <1>2, StreamStep, ProbeStutter DEF StreamBegins, StreamGoesOn
<1>3. ASSUME NEW q \in Probes,
             \/ ProbeBegins(q) \/ DatabaseSelects(q) \/ DatabaseAnswers(q)
             \/ RedisAnswers(q) \/ ProbeReturns(q) \/ \E d \in Dependencies : ProbeFails(q, d)
      PROVE  StreamInv' /\ ProbeInv'
  <2>1. UNCHANGED streamVars
    BY <1>3 DEF ProbeBegins, DatabaseSelects, DatabaseAnswers, RedisAnswers, ProbeReturns,
                ProbeFails, ProbeGives
  <2> QED BY <1>3, <2>1, ProbeStep, StreamStutter
<1>4. CASE Outage
  BY <1>4, OutageStep, StreamStutter DEF Outage
<1>5. CASE UNCHANGED vars
  BY <1>5, StreamStutter, ProbeStutter DEF vars
<1> QED
  BY <1>1, <1>2, <1>3, <1>4, <1>5 DEF Next, Quiet

-----------------------------------------------------------------------------

\* An error of OpenAICompatibleChatModel.stream that advises a retry because
\* the first packet did not come is true: nothing was passed on, and nothing
\* is left open.  A used-up quota never advises one.
THEOREM RetryAdvice == Spec => []RetryAdviceIsHonest
<1>1. StreamInv => RetryAdviceIsHonest
  BY MappedErrorsDiffer DEF StreamInv, TimerShape, RetryAdviceIsHonest
<1> QED
  BY InitHolds, StepHolds, <1>1, PTL DEF Spec

\* GET /ready says ok of a dependency only if it answered meanwhile,
\* and says so of every one that answered throughout.
THEOREM Readiness == Spec => []ReadinessIsHonest
<1>1. ASSUME ProbeInv PROVE ReadinessIsHonest
  <2> SUFFICES ASSUME NEW q \in Probes, answer[q].given
               PROVE  /\ answer[q].postgresql => "database" \in glimpsed[q]
                      /\ answer[q].redis => "redis" \in glimpsed[q]
                      /\ "database" \in steady[q] =>
                           answer[q].postgresql /\ (answer[q].pgvector <=> extension)
                      /\ "redis" \in steady[q] => answer[q].redis
    BY DEF ReadinessIsHonest
  <2>1. ProbeShape(q) /\ Settled(q) /\ answer[q] = Report(q)
    BY <1>1 DEF ProbeInv, ProbeShape
  <2>2. /\ answer[q].postgresql <=> probe[q]["database"] # "error"
        /\ answer[q].pgvector <=> probe[q]["database"] = "ok"
        /\ answer[q].redis <=> probe[q]["redis"] = "ok"
    <3>1. /\ Report(q).postgresql = (probe[q]["database"] # "error")
          /\ Report(q).pgvector = (probe[q]["database"] = "ok")
          /\ Report(q).redis = (probe[q]["redis"] = "ok")
      BY DEF Report
    <3> QED BY <2>1, <3>1, Zenon
  <2>3. /\ probe[q]["database"] \in {"ok", "no extension", "error"}
        /\ probe[q]["redis"] \in {"ok", "error"}
    BY <2>1 DEF ProbeShape, Settled, Dependencies
  <2> QED
    BY <1>1, <2>1, <2>2, <2>3 DEF ProbeShape, Dependencies, ProbeInv, ProbeTypes
<1> QED
  BY InitHolds, StepHolds, <1>1, PTL DEF Spec

-----------------------------------------------------------------------------
(* The lifespan                                                            *)

\* What a step of a stream may not do to what is closed.
ResponseShape(s) ==
  /\ s \in abandoned => at[s] \in {"yielded", "closing", "done"}
  /\ response[s] = "left" => at[s] = "done" /\ ending[s].code \in {"cancelled", "transport"}

BeforeServing == {"new", "redis", "rollback", "building"}
AfterServing == {"close services", "close redis", "close database", "stopped"}

LifeTypes ==
  /\ phase \in BeforeServing \cup {"serving"} \cup AfterServing
  /\ pool \in [Dependencies -> {"closed", "open", "leaked"}]
  /\ client \in [ToSet(Clients) -> {"unbuilt", "open", "closed", "leaked"}]
  /\ services \in BOOLEAN
  /\ mishaps \in Nat

\* Where the lifespan is tells which pools are open ...
PoolShape ==
  /\ phase = "new" => pool["database"] = "closed" /\ pool["redis"] = "closed"
  /\ phase \in {"redis", "rollback"} => pool["database"] = "open" /\ pool["redis"] = "closed"
  /\ phase \in {"building", "serving", "close services", "close redis"} =>
       pool["database"] = "open" /\ pool["redis"] = "open"
  /\ phase = "close database" => pool["database"] = "open" /\ pool["redis"] # "open"
  /\ phase = "stopped" => pool["database"] # "open" /\ pool["redis"] # "open"

\* ... which clients are ...
ClientShape ==
  /\ services <=> phase = "serving"
  /\ \A c \in ToSet(Clients) :
       /\ phase \in {"new", "redis", "rollback"} => client[c] = "unbuilt"
       /\ phase = "building" => client[c] \in {"unbuilt", "open"}
       /\ phase = "serving" => client[c] = "open"

\* ... and which streams run: none before the services are there, and none but
\* the abandoned ones after.
RunShape ==
  /\ phase \in BeforeServing => \A s \in Streams : at[s] = "idle"
  /\ phase \in AfterServing => \A s \in Streams : Active(s) => s \in abandoned
  /\ phase \in AfterServing \ {"close services"} /\ (\E c \in ToSet(Clients) : client[c] = "open") =>
       \A s \in Streams : at[s] = "idle"
  /\ client[ChatClient] = "closed" =>
       phase \in AfterServing /\ \A s \in Streams : response[s] \in {"none", "closed"}

LeakedPools == {d \in Dependencies : pool[d] = "leaked"}
LeakedClients == {c \in ToSet(Clients) : client[c] = "leaked"}
LeaksCounted == Cardinality(LeakedPools) + Cardinality(LeakedClients) <= mishaps

LifeInv ==
  /\ LifeTypes /\ PoolShape /\ ClientShape /\ RunShape /\ LeaksCounted
  /\ \A s \in Streams : ResponseShape(s)

LEMMA NamesOfLife ==
  /\ "database" \in Dependencies /\ "redis" \in Dependencies
  /\ \A d \in Dependencies : d = "database" \/ d = "redis"
  /\ \A i \in DOMAIN Clients : Clients[i] \in ToSet(Clients)
  /\ \A c \in ToSet(Clients) : \E i \in DOMAIN Clients : Clients[i] = c
BY DEF Dependencies, ToSet

LEMMA FiniteLife ==
  /\ IsFiniteSet(Dependencies)
  /\ IsFiniteSet(ToSet(Clients))
<1>1. IsFiniteSet({"database"}) /\ IsFiniteSet({"database"} \cup {"redis"})
  BY FS_Singleton, FS_AddElement
<1>2. Dependencies = {"database"} \cup {"redis"}
  BY DEF Dependencies
<1>3. Clients \in Surjection(1 .. Len(Clients), ToSet(Clients))
  <2>1. Clients \in Seq(ToSet(Clients))
    BY LifecycleAssumption
  <2>2. Clients \in [1 .. Len(Clients) -> ToSet(Clients)] /\ DOMAIN Clients = 1 .. Len(Clients)
    BY <2>1
  <2>3. QED  BY <2>2, NamesOfLife DEF Surjection
<1>4. Len(Clients) \in Nat /\ IsFiniteSet(1 .. Len(Clients))
  BY LifecycleAssumption, FS_Interval
<1>5. QED  BY <1>1, <1>2, <1>3, <1>4, FS_Surjection

\* One more leak at the most when a set of leaks grows by one element.
LEMMA OneMoreLeak ==
  ASSUME NEW S, IsFiniteSet(S), NEW T, NEW x, T \subseteq S \cup {x}
  PROVE  /\ Cardinality(T) \in Nat /\ Cardinality(S) \in Nat
         /\ Cardinality(T) <= Cardinality(S) + 1
         /\ T \subseteq S => Cardinality(T) <= Cardinality(S)
<1>1. IsFiniteSet(S \cup {x}) /\ Cardinality(S \cup {x}) <= Cardinality(S) + 1
  <2>1. Cardinality(S) \in Nat
    BY FS_CardinalityType
  <2>2. QED  BY <2>1, FS_AddElement
<1>2. IsFiniteSet(T) /\ Cardinality(T) <= Cardinality(S \cup {x})
  BY <1>1, FS_Subset
<1>3. Cardinality(T) \in Nat /\ Cardinality(S) \in Nat /\ Cardinality(S \cup {x}) \in Nat
  BY <1>1, <1>2, FS_CardinalityType
<1>4. T \subseteq S => Cardinality(T) <= Cardinality(S)
  BY FS_Subset
<1>5. QED  BY <1>1, <1>2, <1>3, <1>4

LEMMA LeaksAreFinite ==
  /\ IsFiniteSet(LeakedPools) /\ IsFiniteSet(LeakedClients)
  /\ Cardinality(LeakedPools) \in Nat /\ Cardinality(LeakedClients) \in Nat
<1>1. LeakedPools \in SUBSET Dependencies /\ LeakedClients \in SUBSET ToSet(Clients)
  BY DEF LeakedPools, LeakedClients
<1>2. IsFiniteSet(LeakedPools) /\ IsFiniteSet(LeakedClients)
  BY <1>1, FiniteLife, FS_Subset
<1>3. QED  BY <1>2, FS_CardinalityType

\* A step leaks nothing, or one pool or one client by a mishap.
LEMMA LeaksStayCounted ==
  ASSUME LifeTypes, LeaksCounted,
         \/ LeakedPools' \subseteq LeakedPools /\ LeakedClients' \subseteq LeakedClients
            /\ mishaps' \in {mishaps, mishaps + 1}
         \/ (\E d : LeakedPools' \subseteq LeakedPools \cup {d})
            /\ LeakedClients' \subseteq LeakedClients /\ mishaps' = mishaps + 1
         \/ (\E c : LeakedClients' \subseteq LeakedClients \cup {c})
            /\ LeakedPools' \subseteq LeakedPools /\ mishaps' = mishaps + 1
  PROVE  LeaksCounted'
<1>1. /\ IsFiniteSet(LeakedPools) /\ IsFiniteSet(LeakedClients)
      /\ Cardinality(LeakedPools) \in Nat /\ Cardinality(LeakedClients) \in Nat /\ mishaps \in Nat
      /\ Cardinality(LeakedPools) + Cardinality(LeakedClients) <= mishaps
  BY LeaksAreFinite DEF LifeTypes, LeaksCounted
<1>2. LeakedPools' \subseteq LeakedPools => Cardinality(LeakedPools') <= Cardinality(LeakedPools)
  BY <1>1, OneMoreLeak
<1>3. LeakedClients' \subseteq LeakedClients => Cardinality(LeakedClients') <= Cardinality(LeakedClients)
  BY <1>1, OneMoreLeak
<1>4. ASSUME NEW d, LeakedPools' \subseteq LeakedPools \cup {d}
      PROVE  Cardinality(LeakedPools') <= Cardinality(LeakedPools) + 1 /\ Cardinality(LeakedPools') \in Nat
  BY <1>1, <1>4, OneMoreLeak
<1>5. ASSUME NEW c, LeakedClients' \subseteq LeakedClients \cup {c}
      PROVE  Cardinality(LeakedClients') <= Cardinality(LeakedClients) + 1 /\ Cardinality(LeakedClients') \in Nat
  BY <1>1, <1>5, OneMoreLeak
<1>6. Cardinality(LeakedPools') \in Nat /\ Cardinality(LeakedClients') \in Nat
  <2>1. (\E d : LeakedPools' \subseteq LeakedPools \cup {d}) /\ (\E c : LeakedClients' \subseteq LeakedClients \cup {c})
    OBVIOUS
  <2>2. QED  BY <1>4, <1>5, <2>1
<1>7. Cardinality(LeakedPools') + Cardinality(LeakedClients') <= mishaps'
  BY <1>1, <1>2, <1>3, <1>4, <1>5, <1>6
<1>8. QED  BY <1>7 DEF LeaksCounted

-----------------------------------------------------------------------------
(* The steps of the lifespan                                               *)

\* A step of the lifespan, but for closing a client, leaves the streams alone.
LEMMA StreamsAlone ==
  ASSUME UNCHANGED streamVars, \A s \in Streams : ResponseShape(s)
  PROVE  /\ \A s \in Streams : ResponseShape(s)'
         /\ \A s \in Streams : at'[s] = at[s] /\ response'[s] = response[s] /\ Active(s)' = Active(s)
         /\ abandoned' = abandoned
BY DEF streamVars, ResponseShape, Active

LEMMA StartStep ==
  ASSUME LifeInv, OpenDatabase \/ OpenRedis \/ BuildClient \/ BuildReturns \/ BuildFails
  PROVE  LifeInv'
<1>0. /\ LifeTypes /\ PoolShape /\ ClientShape /\ RunShape /\ LeaksCounted
      /\ \A s \in Streams : ResponseShape(s)
  BY DEF LifeInv
<1>1. UNCHANGED streamVars
  BY DEF OpenDatabase, OpenRedis, BuildClient, BuildReturns, BuildFails
<1>2. /\ \A s \in Streams : ResponseShape(s)'
      /\ \A s \in Streams : at'[s] = at[s] /\ response'[s] = response[s] /\ Active(s)' = Active(s)
      /\ abandoned' = abandoned
  BY <1>0, <1>1, StreamsAlone
<1>3. /\ phase \in BeforeServing /\ phase' \in BeforeServing \cup {"serving", "close redis", "stopped"}
      /\ phase' = "serving" => phase = "building"
      /\ phase' # "new"
      /\ phase' \in {"redis", "rollback"} => phase \in {"new", "redis"}
  BY DEF OpenDatabase, OpenRedis, BuildClient, BuildReturns, BuildFails, Proceed, BeforeServing
<1>4. PoolShape'
  <2>1. CASE OpenDatabase
    BY <1>0, <2>1, NamesOfLife DEF OpenDatabase, Proceed, Pool, LifeTypes, PoolShape
  <2>2. CASE OpenRedis
    BY <1>0, <2>2, NamesOfLife DEF OpenRedis, Proceed, Pool, LifeTypes, PoolShape
  <2>3. CASE BuildClient \/ BuildReturns \/ BuildFails
    BY <1>0, <2>3 DEF BuildClient, BuildReturns, BuildFails, Proceed, PoolShape
  <2>4. QED  BY <2>1, <2>2, <2>3
<1>4a. /\ pool' \in [Dependencies -> {"closed", "open", "leaked"}]
       /\ services' \in BOOLEAN /\ mishaps' \in Nat
       /\ client' \in [ToSet(Clients) -> {"unbuilt", "open", "closed", "leaked"}]
  <2>1. pool' \in [Dependencies -> {"closed", "open", "leaked"}]
    BY <1>0 DEF OpenDatabase, OpenRedis, BuildClient, BuildReturns, BuildFails, Pool, LifeTypes
  <2>2. client' \in [ToSet(Clients) -> {"unbuilt", "open", "closed", "leaked"}]
    BY <1>0 DEF OpenDatabase, OpenRedis, BuildClient, BuildReturns, BuildFails, Client, LifeTypes
  <2>3. services' \in {services, TRUE}
    BY DEF OpenDatabase, OpenRedis, BuildClient, BuildReturns, BuildFails
  <2>4. mishaps' \in {mishaps, mishaps + 1}
    BY DEF OpenDatabase, OpenRedis, BuildClient, BuildReturns, BuildFails, Mishap, NoMishap
  <2>5. services \in BOOLEAN /\ mishaps \in Nat
    BY <1>0 DEF LifeTypes
  <2>6. services' \in BOOLEAN
    BY <2>3, <2>5, Zenon
  <2>7. QED  BY <2>1, <2>2, <2>4, <2>5, <2>6
<1>4b. LifeTypes'
  BY <1>3, <1>4a DEF LifeTypes, AfterServing
<1>5. /\ \A c \in ToSet(Clients) : client'[c] = client[c] \/ client'[c] = "open"
      /\ phase' # "building" \/ phase # "building" => client' = client
      /\ services' <=> phase' = "serving"
      /\ phase' = "serving" => \A c \in ToSet(Clients) : client[c] # "unbuilt"
  <2>1. CASE BuildClient
    BY <1>0, <2>1 DEF BuildClient, Client, LifeTypes, ClientShape
  <2>2. CASE BuildReturns
    <3>1. phase' = "serving" /\ services' = TRUE /\ client' = client /\ Built = ToSet(Clients)
      BY <2>2 DEF BuildReturns, Proceed
    <3>2. QED  BY <3>1 DEF Built
  <2>3. CASE OpenDatabase \/ OpenRedis \/ BuildFails
    <3>1. client' = client /\ services' = services /\ phase # "serving" /\ phase' # "serving"
      BY <2>3 DEF OpenDatabase, OpenRedis, BuildFails, Proceed
    <3>2. QED  BY <1>0, <3>1 DEF ClientShape
  <2>4. QED  BY <2>1, <2>2, <2>3
<1>6. ClientShape'
  <2>1. ASSUME NEW c \in ToSet(Clients)
        PROVE  /\ phase' \in {"new", "redis", "rollback"} => client'[c] = "unbuilt"
               /\ phase' = "building" => client'[c] \in {"unbuilt", "open"}
               /\ phase' = "serving" => client'[c] = "open"
    <3>1. client[c] \in {"unbuilt", "open"}
      BY <1>0, <1>3 DEF ClientShape, BeforeServing
    <3>2. phase' \in {"new", "redis", "rollback"} => client' = client /\ client[c] = "unbuilt"
      BY <1>0, <1>3, <1>5 DEF ClientShape, BeforeServing
    <3>3. client'[c] = client[c] \/ client'[c] = "open"
      BY <1>5
    <3>4. phase' = "serving" => client[c] # "unbuilt"
      BY <1>5
    <3>5. QED  BY <3>1, <3>2, <3>3, <3>4
  <2>2. QED  BY <1>5, <2>1 DEF ClientShape
<1>7. \A c \in ToSet(Clients) : client[c] \in {"unbuilt", "open"} /\ client'[c] \in {"unbuilt", "open"}
  BY <1>0, <1>3, <1>5 DEF ClientShape, BeforeServing
<1>8. RunShape'
  BY <1>0, <1>2, <1>3, <1>7, LifecycleAssumption DEF RunShape, BeforeServing, AfterServing, Active
<1>9. LeaksCounted'
  <2>1. LeakedClients' \subseteq LeakedClients
    BY <1>7 DEF LeakedClients
  <2>2. LeakedPools' \subseteq LeakedPools
    BY <1>0, NamesOfLife DEF OpenDatabase, OpenRedis, BuildClient, BuildReturns, BuildFails, Pool,
       LifeTypes, LeakedPools
  <2>3. mishaps' \in {mishaps, mishaps + 1}
    BY DEF OpenDatabase, OpenRedis, BuildClient, BuildReturns, BuildFails, Mishap, NoMishap
  <2>4. QED  BY <1>0, <2>1, <2>2, <2>3, LeaksStayCounted
<1>10. QED  BY <1>2, <1>4, <1>4b, <1>6, <1>8, <1>9 DEF LifeInv

LEMMA ShutdownStep ==
  ASSUME LifeInv, Shutdown \/ CloseServicesEnds
  PROVE  LifeInv'
<1>0. /\ LifeTypes /\ PoolShape /\ ClientShape /\ RunShape /\ LeaksCounted
      /\ \A s \in Streams : ResponseShape(s)
  BY DEF LifeInv
<1>1. UNCHANGED streamVars /\ UNCHANGED <<pool, client, mishaps>>
  BY DEF Shutdown, CloseServicesEnds
<1>2. /\ \A s \in Streams : ResponseShape(s)'
      /\ \A s \in Streams : at'[s] = at[s] /\ response'[s] = response[s] /\ Active(s)' = Active(s)
      /\ abandoned' = abandoned
  BY <1>0, <1>1, StreamsAlone
<1>3. /\ phase \in {"serving", "close services"}
      /\ phase = "serving" => phase' = "close services" /\ RequestsAreOver
      /\ phase = "close services" => phase' = "close redis" /\ OpenClients = {}
      /\ services' = FALSE
  BY <1>0 DEF Shutdown, CloseServicesEnds, Proceed, ClientShape, LifeTypes
<1>4. LifeTypes' /\ PoolShape' /\ ClientShape'
  BY <1>0, <1>1, <1>3 DEF LifeTypes, PoolShape, ClientShape, BeforeServing, AfterServing
<1>5. phase = "close services" => \A c \in ToSet(Clients) : client[c] # "open"
  BY <1>3, NamesOfLife DEF OpenClients
<1>6. RunShape'
  BY <1>0, <1>1, <1>2, <1>3, <1>5 DEF RunShape, BeforeServing, AfterServing, RequestsAreOver
<1>7. LeaksCounted'
  BY <1>0, <1>1 DEF LeaksCounted, LeakedPools, LeakedClients
<1>8. QED  BY <1>2, <1>4, <1>6, <1>7 DEF LifeInv

LEMMA CloseClientStep ==
  ASSUME LifeInv, StreamTypes, CloseClient
  PROVE  LifeInv'
<1>0. /\ LifeTypes /\ PoolShape /\ ClientShape /\ RunShape /\ LeaksCounted
      /\ \A s \in Streams : ResponseShape(s)
  BY DEF LifeInv
<1>1. phase = "close services" /\ UNCHANGED <<phase, pool, services>>
  BY DEF CloseClient
<1>2. PICK c : \/ ClientCloses(c) /\ NoMishap
               \/ Client(c, "leaked") /\ Mishap /\ UNCHANGED streamVars
  BY DEF CloseClient
<1>3. /\ at' = at /\ ending' = ending /\ abandoned' = abandoned
      /\ \A s \in Streams : Active(s)' = Active(s)
  BY <1>2 DEF ClientCloses, streamVars, Active
<1>4. \A s \in Streams :
        response'[s] = response[s] \/ response'[s] = "closed"
  BY <1>2 DEF ClientCloses, streamVars, StreamTypes
<1>5. ASSUME NEW s \in Streams PROVE ResponseShape(s)'
  BY <1>0, <1>3, <1>4 DEF ResponseShape
<1>6. LifeTypes' /\ PoolShape' /\ ClientShape'
  <2>1. client' \in [ToSet(Clients) -> {"unbuilt", "open", "closed", "leaked"}] /\ mishaps' \in Nat
    BY <1>0, <1>2 DEF LifeTypes, ClientCloses, Client, Mishap, NoMishap
  <2>2. QED  BY <1>0, <1>1, <2>1 DEF LifeTypes, PoolShape, ClientShape
<1>7. client'[ChatClient] = "closed" => \A s \in Streams : response'[s] \in {"none", "closed"}
  <2>1. CASE ClientCloses(c) /\ c = ChatClient
    BY <2>1 DEF ClientCloses
  <2>2. CASE ~(ClientCloses(c) /\ c = ChatClient)
    <3>1. client'[ChatClient] = client[ChatClient] \/ client'[ChatClient] = "leaked"
      BY <1>0, <1>2, <2>2, LifecycleAssumption DEF ClientCloses, Client, LifeTypes
    <3>2. QED  BY <1>0, <1>4, <3>1 DEF RunShape
  <2>3. QED  BY <2>1, <2>2
<1>8. RunShape'
  BY <1>0, <1>1, <1>3, <1>7 DEF RunShape, BeforeServing, AfterServing
<1>9. LeaksCounted'
  <2>1. LeakedPools' \subseteq LeakedPools
    BY <1>1 DEF LeakedPools
  <2>2. CASE ClientCloses(c) /\ NoMishap
    <3>1. LeakedClients' \subseteq LeakedClients
      BY <1>0, <2>2 DEF ClientCloses, Client, LifeTypes, LeakedClients
    <3>2. QED  BY <1>0, <2>1, <2>2, <3>1, LeaksStayCounted DEF NoMishap
  <2>3. CASE Client(c, "leaked") /\ Mishap
    <3>1. LeakedClients' \subseteq LeakedClients \cup {c}
      BY <1>0, <2>3 DEF Client, LifeTypes, LeakedClients
    <3>2. QED  BY <1>0, <2>1, <2>3, <3>1, LeaksStayCounted DEF Mishap
  <2>4. QED  BY <1>2, <2>2, <2>3
<1>10. QED  BY <1>5, <1>6, <1>8, <1>9 DEF LifeInv

LEMMA ClosePoolsStep ==
  ASSUME LifeInv, ClosePools
  PROVE  LifeInv'
<1>0. /\ LifeTypes /\ PoolShape /\ ClientShape /\ RunShape /\ LeaksCounted
      /\ \A s \in Streams : ResponseShape(s)
  BY DEF LifeInv
<1>1. UNCHANGED streamVars /\ UNCHANGED <<client, services>>
  BY DEF ClosePools, ClosePool
<1>2. /\ \A s \in Streams : ResponseShape(s)'
      /\ \A s \in Streams : at'[s] = at[s] /\ response'[s] = response[s] /\ Active(s)' = Active(s)
      /\ abandoned' = abandoned
  BY <1>0, <1>1, StreamsAlone
<1>3. PICK d \in Dependencies, fate \in {"closed", "leaked"} :
        /\ \/ d = "redis" /\ phase = "close redis" /\ phase' = "close database"
           \/ d = "database" /\ phase \in {"close database", "rollback"} /\ phase' = "stopped"
        /\ pool' = [pool EXCEPT ![d] = fate]
        /\ mishaps' = IF fate = "closed" THEN mishaps ELSE mishaps + 1
  <2>1. PICK d \in Dependencies, here \in {"close redis", "close database", "rollback"},
            next \in {"close database", "stopped"} :
          /\ ClosePool(d, here, next)
          /\ \/ d = "redis" /\ here = "close redis" /\ next = "close database"
             \/ d = "database" /\ here \in {"close database", "rollback"} /\ next = "stopped"
    BY NamesOfLife DEF ClosePools
  <2>2. QED  BY <2>1 DEF ClosePool, Proceed, Pool, Mishap, NoMishap
<1>4. LifeTypes' /\ PoolShape'
  <2>0. pool \in [Dependencies -> {"closed", "open", "leaked"}] /\ mishaps \in Nat
    BY <1>0 DEF LifeTypes
  <2>1. pool' \in [Dependencies -> {"closed", "open", "leaked"}]
    <3>1. pool' = [pool EXCEPT ![d] = fate] /\ fate \in {"closed", "open", "leaked"}
      BY <1>3
    <3>2. QED  BY <2>0, <3>1
  <2>1a. mishaps' \in Nat
    <3>1. mishaps' \in {mishaps, mishaps + 1}
      BY <1>3
    <3>2. QED  BY <2>0, <3>1
  <2>2. phase' \in AfterServing
    BY <1>3 DEF AfterServing
  <2>3. PoolShape'
    <3>1. CASE d = "redis"
      BY <1>0, <1>3, <3>1, NamesOfLife DEF LifeTypes, PoolShape
    <3>2. CASE d = "database"
      BY <1>0, <1>3, <3>2, NamesOfLife DEF LifeTypes, PoolShape
    <3>3. QED  BY <3>1, <3>2, NamesOfLife
  <2>4. QED  BY <1>0, <1>1, <2>1, <2>1a, <2>2, <2>3 DEF LifeTypes
<1>5. ClientShape'
  BY <1>0, <1>1, <1>3 DEF ClientShape
<1>6. RunShape'
  BY <1>0, <1>1, <1>2, <1>3 DEF RunShape, BeforeServing, AfterServing, Active
<1>7. LeaksCounted'
  <2>1. LeakedClients' \subseteq LeakedClients
    BY <1>1 DEF LeakedClients
  <2>2. LeakedPools' \subseteq IF fate = "closed" THEN LeakedPools ELSE LeakedPools \cup {d}
    BY <1>0, <1>3 DEF LifeTypes, LeakedPools
  <2>3. QED  BY <1>0, <1>3, <2>1, <2>2, LeaksStayCounted
<1>8. QED  BY <1>2, <1>4, <1>5, <1>6, <1>7 DEF LifeInv

-----------------------------------------------------------------------------
(* The steps of streams                                                    *)

\* What a step of a stream does to it and to its response.
StreamEffect(s) ==
  /\ \A r \in Streams \ {s} : at'[r] = at[r] /\ response'[r] = response[r] /\ ending'[r] = ending[r]
  /\ at[s] # "done"
  /\ abandoned' \subseteq abandoned \cup {s} /\ abandoned \subseteq abandoned'
  /\ s \in abandoned' => s \in abandoned \/ at'[s] = "yielded"
  /\ at[s] \in {"yielded", "closing"} /\ s \in abandoned => at'[s] \in {"yielded", "closing", "done"}
  /\ at[s] # "creating" /\ response[s] \in {"none", "closed"} => response'[s] \in {"none", "closed"}
  /\ response'[s] = "left" => at'[s] = "done" /\ ending'[s].code \in {"cancelled", "transport"}
  /\ at[s] = "idle" => Begin(s)

LEMMA EndsWithEffect ==
  ASSUME StreamTypes, NEW s \in Streams, NEW how \in Endings, NEW left,
         EndsWith(s, how, left), Passes(s), at[s] \notin {"done", "idle"}, left \in {Left(s), "closed"},
         left = "left" => how.code \in {"cancelled", "transport"}
  PROVE  StreamEffect(s)
BY DEF StreamTypes, EndsWith, Goto, Passes, Left, StreamEffect

LEMMA ClosesThenEffect ==
  ASSUME StreamTypes, NEW s \in Streams, NEW how, response[s] # "left",
         ClosesThen(s, how), Passes(s), at[s] \notin {"done", "idle"}
  PROVE  StreamEffect(s)
BY DEF StreamTypes, ClosesThen, Goto, Passes, StreamEffect

LEMMA HandledEffect ==
  ASSUME StreamTypes, NEW s \in Streams, NEW how \in Endings, response[s] # "left",
         HandledBeforeFirst(s, how), Passes(s), at[s] \notin {"done", "idle"}
  PROVE  StreamEffect(s)
<1>1. CASE response[s] = "open"
  BY <1>1, ClosesThenEffect DEF HandledBeforeFirst
<1>2. CASE response[s] # "open"
  <2>1. EndsWith(s, how, response[s]) /\ response[s] = Left(s)
    BY <1>2 DEF HandledBeforeFirst, Left
  <2>2. QED  BY <2>1, EndsWithEffect
<1>3. QED  BY <1>1, <1>2

LEMMA StreamEffects ==
  ASSUME StreamInv, NEW s \in Streams, ResponseShape(s), Stream(s) \/ Begin(s)
  PROVE  StreamEffect(s)
<1>0. StreamTypes /\ TimerShape(s) /\ (at[s] # "done" => response[s] # "left")
  BY DEF StreamInv, ResponseShape
<1>1. CASE Begin(s) \/ HeadersArrive(s) \/ TimerFires(s) \/ Cancel(s) \/ Pull(s) \/ Abandon(s)
  BY <1>0, <1>1 DEF StreamTypes, Begin, HeadersArrive, TimerFires, Cancel, Pull, Abandon, Goto,
     StreamEffect
<1>2. CASE PacketArrives(s)
  <2>1. PICK packet \in {"text", "empty", "bad"} : Take(s, packet)
    BY <1>2 DEF PacketArrives
  <2>2. at[s] \in {"first", "reading"} /\ Passes(s)
    BY <1>2 DEF PacketArrives
  <2>3. CASE packet = "bad"
    <3>1. ClosesThen(s, ProtocolError)
      BY <2>1, <2>3 DEF Take
    <3>2. QED  BY <1>0, <2>2, <3>1, ClosesThenEffect
  <2>4. CASE packet = "text"
    <3>1. Goto(s, "yielded") /\ UNCHANGED <<response, ending>>
      BY <2>1, <2>4 DEF Take
    <3>2. QED  BY <1>0, <2>2, <3>1 DEF StreamTypes, Goto, Passes, StreamEffect
  <2>5. CASE packet = "empty"
    <3>1. Goto(s, "reading") /\ UNCHANGED <<response, ending>>
      BY <2>1, <2>5 DEF Take
    <3>2. QED  BY <1>0, <2>2, <3>1 DEF StreamTypes, Goto, Passes, StreamEffect
  <2>6. QED  BY <2>3, <2>4, <2>5
<1>3. CASE EmptyResponse(s)
  BY <1>0, <1>3, ClosesThenEffect DEF EmptyResponse
<1>4. CASE FailsBeforeFirst(s)
  <2>1. PICK how \in MappedErrors : HandledBeforeFirst(s, how)
    BY <1>4 DEF FailsBeforeFirst
  <2>2. how \in Endings
    BY MappedErrorsDiffer DEF MappedErrors
  <2>3. QED  BY <1>0, <1>4, <2>1, <2>2, HandledEffect DEF FailsBeforeFirst
<1>5. CASE TransportFailsBeforeFirst(s)
  BY <1>0, <1>5, PlainEndings, EndsWithEffect DEF TransportFailsBeforeFirst
<1>6. CASE Interrupted(s)
  <2>1. Passes(s) /\ at[s] \notin {"done", "idle"}
    BY <1>6 DEF Interrupted
  <2>2. CASE "caller" \notin interrupts[s]
    <3>1. HandledBeforeFirst(s, FirstPacketTimeout)
      BY <1>6, <2>2 DEF Interrupted
    <3>2. QED  BY <1>0, <2>1, <3>1, OwnErrors, HandledEffect
  <2>3. CASE "caller" \in interrupts[s] /\ at[s] = "reading"
    <3>1. ClosesThen(s, Plain("cancelled"))
      BY <1>6, <2>3 DEF Interrupted
    <3>2. QED  BY <1>0, <2>1, <3>1, ClosesThenEffect
  <2>4. CASE "caller" \in interrupts[s] /\ at[s] # "reading"
    <3>1. EndsWith(s, Plain("cancelled"), Left(s))
      BY <1>6, <2>4 DEF Interrupted
    <3>2. QED  BY <1>0, <2>1, <3>1, PlainEndings, EndsWithEffect
  <2>5. QED  BY <2>2, <2>3, <2>4
<1>7. CASE Aclose(s)
  BY <1>0, <1>7, ClosesThenEffect DEF Aclose
<1>8. CASE ReadingEnds(s)
  BY <1>0, <1>8, ClosesThenEffect DEF ReadingEnds
<1>9. CASE Closed(s)
  <2>1. pending[s] \in Endings
    BY <1>0 DEF StreamTypes
  <2>2. QED  BY <1>0, <1>9, <2>1, EndsWithEffect DEF Closed
<1>10. CASE CloseFails(s)
  BY <1>0, <1>10, PlainEndings, EndsWithEffect DEF CloseFails
<1>11. QED
  BY <1>1, <1>2, <1>3, <1>4, <1>5, <1>6, <1>7, <1>8, <1>9, <1>10 DEF Stream

\* Steps of streams keep the lifespan's invariant: after the services are
\* gone only abandoned generators run, and those open no response.
LEMMA StreamsInLife ==
  ASSUME LifeInv, StreamInv, NEW s \in Streams, StreamBegins(s) \/ StreamGoesOn(s)
  PROVE  LifeInv'
<1>0. /\ LifeTypes /\ PoolShape /\ ClientShape /\ RunShape /\ LeaksCounted
      /\ \A r \in Streams : ResponseShape(r)
  BY DEF LifeInv
<1>1. StreamEffect(s) /\ StreamTypes
  BY <1>0, StreamEffects DEF StreamBegins, StreamGoesOn, StreamInv
<1>2. UNCHANGED <<phase, pool, client, services, mishaps>>
  BY DEF StreamBegins, StreamGoesOn, poolVars
<1>3. LifeTypes' /\ PoolShape' /\ ClientShape' /\ LeaksCounted'
  BY <1>0, <1>2 DEF LifeTypes, PoolShape, ClientShape, LeaksCounted, LeakedPools, LeakedClients
<1>4. ASSUME NEW r \in Streams PROVE ResponseShape(r)'
  <2>1. ResponseShape(r)
    BY <1>0
  <2>2. CASE r = s
    <3>1. s \in abandoned => at[s] \in {"yielded", "closing"}
      BY <1>1, <2>1, <2>2 DEF ResponseShape, StreamEffect
    <3>2. QED  BY <1>1, <2>2, <3>1 DEF ResponseShape, StreamEffect
  <2>3. CASE r # s
    BY <1>1, <2>1, <2>3 DEF ResponseShape, StreamEffect
  <2>4. QED  BY <2>2, <2>3
<1>5. at[s] = "idle" => phase = "serving"
  BY DEF StreamBegins, StreamGoesOn, Stream, HeadersArrive, PacketArrives, EmptyResponse,
     FailsBeforeFirst, TransportFailsBeforeFirst, TimerFires, Interrupted, Cancel, Pull, Abandon,
     Aclose, ReadingEnds, Closed, CloseFails
<1>6. Active(s) \/ phase = "serving"
  BY <1>1, <1>5 DEF Active, StreamEffect
<1>7. phase \notin BeforeServing
  BY <1>0, <1>6 DEF RunShape, Active, BeforeServing
<1>8. ~(phase \in AfterServing \ {"close services"} /\ \E c \in ToSet(Clients) : client[c] = "open")
  BY <1>0, <1>6 DEF RunShape, Active, AfterServing
<1>9. phase \in AfterServing => s \in abandoned /\ at[s] \in {"yielded", "closing"}
  <2>1. phase \in AfterServing => s \in abandoned /\ Active(s)
    BY <1>0, <1>6 DEF RunShape, AfterServing
  <2>2. QED  BY <1>0, <2>1 DEF ResponseShape, Active
<1>10. RunShape'
  <2>1. phase \in AfterServing => \A r \in Streams : Active(r)' => r \in abandoned'
    BY <1>0, <1>1, <1>9 DEF RunShape, StreamEffect, Active
  <2>2. client[ChatClient] = "closed" => \A r \in Streams : response'[r] \in {"none", "closed"}
    BY <1>0, <1>1, <1>9 DEF RunShape, StreamEffect
  <2>3. QED  BY <1>0, <1>2, <1>7, <1>8, <2>1, <2>2 DEF RunShape
<1>11. QED  BY <1>3, <1>4, <1>10 DEF LifeInv

LEMMA LifeStep == LifeInv /\ StreamInv /\ [Next]_vars => LifeInv'
<1> SUFFICES ASSUME LifeInv, StreamInv, [Next]_vars PROVE LifeInv'
  OBVIOUS
<1>1. CASE OpenDatabase \/ OpenRedis \/ BuildClient \/ BuildReturns \/ BuildFails
  BY <1>1, StartStep
<1>2. CASE Shutdown \/ CloseServicesEnds
  BY <1>2, ShutdownStep
<1>3. CASE CloseClient
  BY <1>3, CloseClientStep DEF StreamInv
<1>4. CASE ClosePools
  BY <1>4, ClosePoolsStep
<1>5. ASSUME NEW s \in Streams, StreamBegins(s) \/ StreamGoesOn(s) PROVE LifeInv'
  BY <1>5, StreamsInLife
<1>6. CASE UNCHANGED <<streamVars, poolVars>>
  <2>1. /\ LifeTypes /\ PoolShape /\ ClientShape /\ RunShape /\ LeaksCounted
        /\ \A s \in Streams : ResponseShape(s)
    BY DEF LifeInv
  <2>2. /\ \A s \in Streams : ResponseShape(s)'
        /\ \A s \in Streams : at'[s] = at[s] /\ response'[s] = response[s] /\ Active(s)' = Active(s)
        /\ abandoned' = abandoned
    BY <1>6, <2>1, StreamsAlone
  <2>3. UNCHANGED <<phase, pool, client, services, mishaps>>
    BY <1>6 DEF poolVars
  <2>4. LifeTypes' /\ PoolShape' /\ ClientShape' /\ LeaksCounted'
    BY <2>1, <2>3 DEF LifeTypes, PoolShape, ClientShape, LeaksCounted, LeakedPools, LeakedClients
  <2>5. RunShape'
    BY <2>1, <2>2, <2>3 DEF RunShape
  <2>6. QED  BY <2>2, <2>4, <2>5 DEF LifeInv
<1>7. ASSUME \/ \E q \in Probes : ProbeBegins(q) \/ DatabaseSelects(q) \/ DatabaseAnswers(q)
                                    \/ RedisAnswers(q) \/ ProbeReturns(q)
                                    \/ \E d \in Dependencies : ProbeFails(q, d)
             \/ Outage \/ UNCHANGED vars
      PROVE  UNCHANGED <<streamVars, poolVars>>
  BY <1>7 DEF ProbeBegins, DatabaseSelects, DatabaseAnswers, RedisAnswers, ProbeReturns, ProbeFails,
     ProbeGives, Outage, vars
<1>8. QED
  BY <1>1, <1>2, <1>3, <1>4, <1>5, <1>6, <1>7 DEF Next, Quiet

LEMMA LifeBegins == Init => LifeInv
<1> SUFFICES ASSUME Init PROVE LifeInv
  OBVIOUS
<1>1. /\ phase = "new" /\ pool = [d \in Dependencies |-> "closed"]
      /\ client = [c \in ToSet(Clients) |-> "unbuilt"] /\ services = FALSE /\ mishaps = 0
      /\ \A s \in Streams : at[s] = "idle" /\ response[s] = "none"
      /\ abandoned = {}
  BY DEF Init, StreamInit
<1>2. LifeTypes /\ PoolShape /\ ClientShape /\ \A s \in Streams : ResponseShape(s)
  BY <1>1, NamesOfLife DEF LifeTypes, PoolShape, ClientShape, ResponseShape, BeforeServing, AfterServing
<1>3. RunShape
  BY <1>1, LifecycleAssumption DEF RunShape, BeforeServing, AfterServing
<1>4. LeaksCounted
  <2>1. LeakedPools = {} /\ LeakedClients = {}
    BY <1>1 DEF LeakedPools, LeakedClients
  <2>2. QED  BY <1>1, <2>1, FS_EmptySet DEF LeaksCounted
<1>5. QED  BY <1>2, <1>3, <1>4 DEF LifeInv

\* Whatever fails at start-up or shutdown, and whichever generators were
\* abandoned: requests find every pool and client open, the pools outlive the
\* clients, a stopped process has left nothing open but the clients of a
\* failed build, and nothing leaks but by its own failing close.
THEOREM NothingIsLeftOpen == Spec => []NothingLeftOpen
<1>1. ASSUME LifeInv PROVE NothingLeftOpen
  <2>0. LifeTypes /\ PoolShape /\ ClientShape /\ RunShape /\ LeaksCounted
    BY <1>1 DEF LifeInv
  <2>1. services => (\A d \in Dependencies : pool[d] = "open") /\ \A c \in ToSet(Clients) : client[c] = "open"
    BY <2>0, NamesOfLife DEF PoolShape, ClientShape
  <2>2. (\E c \in ToSet(Clients) : client[c] = "open") /\ pool["database"] # "open"
          => phase = "stopped" /\ \A s \in Streams : at[s] = "idle"
    BY <2>0 DEF LifeTypes, PoolShape, ClientShape, RunShape, BeforeServing, AfterServing
  <2>3. phase = "stopped" => \A d \in Dependencies : pool[d] # "open"
    BY <2>0, NamesOfLife DEF PoolShape
  <2>4. client[ChatClient] = "closed" => \A s \in Streams : response[s] \in {"none", "closed"}
    BY <2>0 DEF RunShape
  <2>5. \A s \in Streams : response[s] = "left" => ending[s].code \in {"cancelled", "transport"}
    BY <1>1 DEF LifeInv, ResponseShape
  <2>6. QED
    BY <2>0, <2>1, <2>2, <2>3, <2>4, <2>5 DEF NothingLeftOpen, LeaksCounted, LeakedPools, LeakedClients
<1>2. QED
  BY <1>1, InitHolds, StepHolds, LifeBegins, LifeStep, PTL DEF Spec
=============================================================================
