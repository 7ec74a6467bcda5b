------------------------ MODULE ApplicationLifecycle ------------------------
(***************************************************************************)
(* One life of the server process: the lifespan of main.py opens the two   *)
(* pools (infrastructure/resources.py), builds the services (bootstrap.py) *)
(* and, when it is over, closes the services' clients and the pools        *)
(* (application/services.py).  In between it streams answers through the   *)
(* chat client and answers readiness probes.                               *)
(*                                                                         *)
(* A pool or client whose close failed is "leaked": its owner dropped the  *)
(* reference before it called close, so nobody will call it again.  The    *)
(* server (external: uvicorn) lets requests in when the lifespan has       *)
(* started and ends it when no request is left.  A generator that a        *)
(* request abandoned does not count as one.                                *)
(***************************************************************************)
EXTENDS ModelStreams, Sequences, SequencesExt

CONSTANTS Clients,       \* the closeables of the services, in construction order
          ChatClient,    \* the one of them the streams use
          Probes,        \* readiness requests
          MaxRequests,   \* requests of a life
          MaxMishaps,    \* steps of start-up and shutdown that fail
          MaxOutages     \* changes of a dependency's state

ASSUME LifecycleAssumption ==
  /\ Clients \in Seq(ToSet(Clients)) /\ IsInjective(Clients) /\ ChatClient \in ToSet(Clients)
  /\ {MaxRequests, MaxMishaps, MaxOutages} \subseteq Nat

Dependencies == {"database", "redis"}

VARIABLES
  phase,       \* where the lifespan is
  pool,        \* the pools: "closed", "open", "leaked"
  client,      \* the clients: "unbuilt", "open", "closed", "leaked"
  services,    \* application.state.services is set
  mishaps,
  up,          \* the dependencies that answer
  outages,
  extension,   \* pgvector is installed
  probe,       \* each readiness request's two probes
  answer,      \* and what it answered
  steady,      \* (for the properties) dependencies that answered all through a probe
  glimpsed     \* (for the properties) dependencies that answered at some time of it

poolVars == <<phase, pool, client, services, mishaps>>
probeVars == <<probe, answer, steady, glimpsed>>
worldVars == <<up, outages, extension>>
vars == <<streamVars, poolVars, probeVars, worldVars>>

NoAnswer == [postgresql |-> FALSE, pgvector |-> FALSE, redis |-> FALSE, given |-> FALSE]

Init ==
  /\ StreamInit
  /\ phase = "new"
  /\ pool = [d \in Dependencies |-> "closed"]
  /\ client = [c \in ToSet(Clients) |-> "unbuilt"]
  /\ services = FALSE
  /\ mishaps = 0
  /\ up = Dependencies /\ outages = 0
  /\ extension \in BOOLEAN
  /\ probe = [q \in Probes |-> [d \in Dependencies |-> "idle"]]
  /\ answer = [q \in Probes |-> NoAnswer]
  /\ steady = [q \in Probes |-> {}]
  /\ glimpsed = [q \in Probes |-> {}]

Mishap == mishaps < MaxMishaps /\ mishaps' = mishaps + 1
NoMishap == UNCHANGED mishaps
Proceed(next) == phase' = next
Pool(d, state) == pool' = [pool EXCEPT ![d] = state]
Client(c, state) == client' = [client EXCEPT ![c] = state]
Lifespan == UNCHANGED <<probeVars, worldVars>>

-----------------------------------------------------------------------------
(* Start-up                                                                *)

\* An error of the first pool ends the process with nothing open; one of the second
\* closes the first again, outside the lifespan's own finally.
OpenDatabase ==
  /\ phase = "new"
  /\ \/ Proceed("redis") /\ Pool("database", "open") /\ NoMishap
     \/ Proceed("stopped") /\ UNCHANGED pool /\ Mishap
  /\ UNCHANGED <<client, services, streamVars>> /\ Lifespan

OpenRedis ==
  /\ phase = "redis"
  /\ \/ Proceed("building") /\ Pool("redis", "open") /\ NoMishap
     \/ Proceed("rollback") /\ UNCHANGED pool /\ Mishap
  /\ UNCHANGED <<client, services, streamVars>> /\ Lifespan

Built == {c \in ToSet(Clients) : client[c] # "unbuilt"}

BuildClient ==
  /\ phase = "building" /\ Built # ToSet(Clients)
  /\ Client(Clients[Cardinality(Built) + 1], "open")
  /\ UNCHANGED <<phase, pool, services, mishaps, streamVars>> /\ Lifespan

BuildReturns ==
  /\ phase = "building" /\ Built = ToSet(Clients)
  /\ services' = TRUE
  /\ Proceed("serving")
  /\ UNCHANGED <<pool, client, mishaps, streamVars>> /\ Lifespan

\* A constructor raises: the clients built so far belong to nobody, the pools close.
BuildFails ==
  /\ phase = "building"
  /\ Mishap
  /\ Proceed("close redis")
  /\ UNCHANGED <<pool, client, services, streamVars>> /\ Lifespan

-----------------------------------------------------------------------------
(* Shutdown                                                                *)

RequestsAreOver ==
  /\ \A s \in Streams : Active(s) => s \in abandoned
  /\ \A q \in Probes : probe[q]["database"] # "idle" => answer[q].given

Shutdown ==
  /\ phase = "serving" /\ RequestsAreOver
  /\ services' = FALSE
  /\ Proceed("close services")
  /\ UNCHANGED <<pool, client, mishaps, streamVars>> /\ Lifespan

\* Closing the chat client closes its connections, those of responses included.
ClientCloses(c) ==
  /\ Client(c, "closed")
  /\ IF c = ChatClient
     THEN response' = [s \in Streams |-> IF response[s] = "none" THEN "none" ELSE "closed"]
     ELSE UNCHANGED response
  /\ UNCHANGED <<at, interrupts, delivered, pending, ending, abandoned, cancels>>

\* Where the open ones are; the one to close next is the last one built of them.
OpenClients == {i \in DOMAIN Clients : client[Clients[i]] = "open"}

\* Mutant: the first error ends the closing of the services.
CloseClientUntilError ==
  /\ phase = "close services" /\ OpenClients # {}
  /\ LET c == Clients[Max(OpenClients)] IN
       \/ ClientCloses(c) /\ NoMishap /\ UNCHANGED phase
       \/ Client(c, "leaked") /\ Mishap /\ Proceed("close redis") /\ UNCHANGED streamVars
  /\ UNCHANGED <<pool, services>> /\ Lifespan

\* An error of one is kept for the end, and the others are closed all the same.
CloseClient ==
  /\ phase = "close services" /\ OpenClients # {}
  /\ LET c == Clients[Max(OpenClients)] IN
       \/ ClientCloses(c) /\ NoMishap
       \/ Client(c, "leaked") /\ Mishap /\ UNCHANGED streamVars
  /\ UNCHANGED <<phase, pool, services>> /\ Lifespan

CloseServicesEnds ==
  /\ phase = "close services" /\ OpenClients = {}
  /\ Proceed("close redis")
  /\ UNCHANGED <<pool, client, services, mishaps, streamVars>> /\ Lifespan

\* Each finally goes on to the next pool whatever the last one did.
ClosePool(d, here, next) ==
  /\ phase = here
  /\ Proceed(next)
  /\ \/ Pool(d, "closed") /\ NoMishap
     \/ Pool(d, "leaked") /\ Mishap
  /\ UNCHANGED <<client, services, streamVars>> /\ Lifespan

ClosePools ==
  \/ ClosePool("redis", "close redis", "close database")
  \/ ClosePool("database", "close database", "stopped")
  \/ ClosePool("database", "rollback", "stopped")
-----------------------------------------------------------------------------
(* Requests                                                                *)

Started == Cardinality({s \in Streams : at[s] # "idle"})
             + Cardinality({q \in Probes : probe[q]["database"] # "idle"})

\* Without services a route answers 503 and touches nothing.
StreamBegins(s) ==
  /\ phase = "serving" /\ services /\ Started < MaxRequests
  /\ Begin(s)
  /\ UNCHANGED <<poolVars, probeVars, worldVars>>

StreamGoesOn(s) == Stream(s) /\ UNCHANGED <<poolVars, probeVars, worldVars>>

ProbeBegins(q) ==
  /\ phase = "serving" /\ Started < MaxRequests
  /\ probe[q]["database"] = "idle"
  /\ probe' = [probe EXCEPT ![q] = [d \in Dependencies |-> "pending"]]
  /\ steady' = [steady EXCEPT ![q] = up]
  /\ glimpsed' = [glimpsed EXCEPT ![q] = up]
  /\ UNCHANGED <<answer, streamVars, poolVars, worldVars>>

ProbeGives(q, d, result) ==
  /\ probe' = [probe EXCEPT ![q][d] = result]
  /\ UNCHANGED <<answer, glimpsed, streamVars, poolVars, worldVars>>

\* SELECT 1, then the version of the extension, on one connection.
DatabaseSelects(q) ==
  /\ probe[q]["database"] = "pending" /\ "database" \in up
  /\ ProbeGives(q, "database", "selected")
  /\ UNCHANGED steady

DatabaseAnswers(q) ==
  /\ probe[q]["database"] = "selected" /\ "database" \in up
  /\ ProbeGives(q, "database", IF extension THEN "ok" ELSE "no extension")
  /\ UNCHANGED steady

RedisAnswers(q) ==
  /\ probe[q]["redis"] = "pending" /\ "redis" \in up
  /\ ProbeGives(q, "redis", "ok")
  /\ UNCHANGED steady

\* The dependency is away, or its probe runs out of its own time.
ProbeFails(q, d) ==
  /\ probe[q][d] \in {"pending", "selected"}
  /\ ProbeGives(q, d, "error")
  /\ steady' = [steady EXCEPT ![q] = @ \ {d}]

Settled(q) == \A d \in Dependencies : probe[q][d] \in {"ok", "no extension", "error"}

\* Mutant: an exception of one probe is an exception of both.
ReportOfBoth(q) ==
  LET both == \A d \in Dependencies : probe[q][d] # "error" IN
    [postgresql |-> both, pgvector |-> both /\ probe[q]["database"] = "ok",
     redis |-> both, given |-> TRUE]

Report(q) ==
  [postgresql |-> probe[q]["database"] # "error", pgvector |-> probe[q]["database"] = "ok",
   redis |-> probe[q]["redis"] = "ok", given |-> TRUE]

ProbeReturns(q) ==
  /\ Settled(q) /\ ~answer[q].given
  /\ answer' = [answer EXCEPT ![q] = Report(q)]
  /\ UNCHANGED <<probe, steady, glimpsed, streamVars, poolVars, worldVars>>

\* A dependency goes away or comes back.
Outage ==
  /\ outages < MaxOutages
  /\ outages' = outages + 1
  /\ \E d \in Dependencies : up' = IF d \in up THEN up \ {d} ELSE up \cup {d}
  /\ steady' = [q \in Probes |-> steady[q] \cap up']
  /\ glimpsed' = [q \in Probes |-> IF Settled(q) THEN glimpsed[q] ELSE glimpsed[q] \cup up']
  /\ UNCHANGED <<extension, probe, answer, streamVars, poolVars>>

-----------------------------------------------------------------------------

Quiet == phase = "stopped" /\ UNCHANGED vars

Next ==
  \/ OpenDatabase \/ OpenRedis \/ BuildClient \/ BuildReturns \/ BuildFails
  \/ Shutdown \/ CloseClient \/ CloseServicesEnds \/ ClosePools
  \/ \E s \in Streams : StreamBegins(s) \/ StreamGoesOn(s)
  \/ \E q \in Probes : ProbeBegins(q) \/ DatabaseSelects(q) \/ DatabaseAnswers(q)
                           \/ RedisAnswers(q) \/ ProbeReturns(q)
                           \/ \E d \in Dependencies : ProbeFails(q, d)
  \/ Outage \/ Quiet

Spec == Init /\ [][Next]_vars

-----------------------------------------------------------------------------
(* Properties                                                              *)

\* Requests find everything open.  The pools outlive the clients.  When the process
\* stops, after whichever steps failed, nothing is open but what a failed
\* build had made of clients; a pool or client leaks only by its own failing
\* close, and no response outlives the client it came from.  A response is left to
\* the SDK only by a cancellation or an error of the transport that no
\* handler of the adapter catches.
NothingLeftOpen ==
  /\ services => \A d \in Dependencies : pool[d] = "open"
  /\ services => \A c \in ToSet(Clients) : client[c] = "open"
  /\ (\E c \in ToSet(Clients) : client[c] = "open") /\ pool["database"] # "open"
       => phase = "stopped" /\ \A s \in Streams : at[s] = "idle"
  /\ phase = "stopped" => \A d \in Dependencies : pool[d] # "open"
  /\ client[ChatClient] = "closed" => \A s \in Streams : response[s] \in {"none", "closed"}
  /\ Cardinality({d \in Dependencies : pool[d] = "leaked"})
       + Cardinality({c \in ToSet(Clients) : client[c] = "leaked"}) <= mishaps
  /\ \A s \in Streams : response[s] = "left" => ending[s].code \in {"cancelled", "transport"}

\* A readiness answer says ok of a dependency only if it answered during the
\* request, and does say so of one that answered throughout and in time,
\* whatever became of the other probe.
ReadinessIsHonest ==
  \A q \in Probes : answer[q].given =>
    /\ answer[q].postgresql => "database" \in glimpsed[q]
    /\ answer[q].redis => "redis" \in glimpsed[q]
    /\ "database" \in steady[q] => answer[q].postgresql /\ (answer[q].pgvector <=> extension)
    /\ "redis" \in steady[q] => answer[q].redis
=============================================================================
