---------------------------- MODULE ModelStreams ----------------------------
(***************************************************************************)
(* The streams of the chat model adapter: OpenAICompatibleChatModel.stream *)
(* (infrastructure/models/openai_chat.py), on one shared client.           *)
(*                                                                         *)
(* A stream is an asynchronous generator around one HTTP response.  The    *)
(* request and the first packet are awaited under one timer; what follows  *)
(* is bounded by the caller only.  The timer and a cancellation reach the  *)
(* coroutine the same way, as a cancellation of its await, and it finds    *)
(* out which it was when it runs again (external: asyncio.timeout).        *)
(*                                                                         *)
(* A packet is what _parse_stream_chunk makes of it: "text" (a delta, a    *)
(* finish reason or a usage), "empty" (nothing to pass on) or "bad".  A    *)
(* response that the adapter leaves behind open is "left": releasing it is *)
(* up to the SDK and the connection pool of the client.                    *)
(***************************************************************************)
EXTENDS Naturals, FiniteSets

CONSTANTS Streams,      \* stream() calls
          Errors,       \* errors of the SDK that happen
          MaxChunks,    \* chunks one stream delivers
          MaxCancels    \* cancellations one call receives

Statuses == {400, 401, 403, 408, 429, 500}
\* An error without an HTTP status, or a status, with or without a code of the
\* provider that says the quota is used up.
SdkErrors == {[kind |-> k, status |-> 0, quota |-> FALSE] : k \in {"timeout", "connection", "other"}}
               \cup [kind : {"status"}, status : Statuses, quota : BOOLEAN]

ASSUME StreamAssumption == MaxChunks \in Nat /\ MaxCancels \in Nat /\ Errors \subseteq SdkErrors

VARIABLES
  at,          \* "idle", "creating", "first", "reading", "yielded", "closing", "done"
  response,    \* "none", "open", "closed", "left"
  interrupts,  \* what cancelled the await: subset of {"timer", "caller"}
  delivered,   \* chunks passed on
  pending,     \* how the stream ends once its response is closed
  ending,      \* how it ended
  abandoned,   \* its caller went away at a yield: closing is left to the event loop
  cancels

streamVars == <<at, response, interrupts, delivered, pending, ending, abandoned, cancels>>

-----------------------------------------------------------------------------
(* Errors of the SDK                                                       *)

Error(code, retryable) == [code |-> code, retryable |-> retryable]
ProtocolError == Error("protocol", FALSE)
FirstPacketTimeout == Error("first_packet_timeout", TRUE)

StatusError(status) ==
  CASE status = 401 -> Error("authentication", FALSE)
    [] status = 403 -> Error("access_denied", FALSE)
    [] status = 408 -> Error("timeout", TRUE)
    [] status = 429 -> Error("rate_limited", TRUE)
    [] status = 500 -> Error("unavailable", TRUE)
    [] OTHER -> ProtocolError

\* The first test that applies decides: a used-up quota may come with any status.
MapError(error) ==
  IF error.kind = "timeout" THEN Error("timeout", TRUE)
  ELSE IF error.kind = "connection" THEN Error("unavailable", TRUE)
  ELSE IF error.quota THEN Error("quota_exhausted", FALSE)
  ELSE StatusError(error.status)

MappedErrors == {MapError(error) : error \in Errors}

\* Endings without an error of the adapter: the stream is complete, its caller
\* cancelled or closed it, or an error of the transport passes unmapped.
Plain(code) == Error(code, FALSE)
NoEnding == Plain("none")

StreamInit ==
  /\ at = [s \in Streams |-> "idle"]
  /\ response = [s \in Streams |-> "none"]
  /\ interrupts = [s \in Streams |-> {}]
  /\ delivered = [s \in Streams |-> 0]
  /\ pending = [s \in Streams |-> NoEnding]
  /\ ending = [s \in Streams |-> NoEnding]
  /\ abandoned = {}
  /\ cancels = [s \in Streams |-> 0]

-----------------------------------------------------------------------------
(* Ways out                                                                *)

Goto(s, place) == at' = [at EXCEPT ![s] = place]

\* The stream raises or returns with its response as it is.
EndsWith(s, how, left) ==
  /\ Goto(s, "done")
  /\ ending' = [ending EXCEPT ![s] = how]
  /\ response' = [response EXCEPT ![s] = left]
  /\ UNCHANGED <<pending, delivered>>

\* The stream awaits the close of its response first.
ClosesThen(s, how) ==
  /\ Goto(s, "closing")
  /\ pending' = [pending EXCEPT ![s] = how]
  /\ UNCHANGED <<ending, response, delivered>>

\* A response nobody closed is left to the SDK.
Left(s) == IF response[s] = "open" THEN "left" ELSE response[s]

\* A handler in front of the first packet closes a response it got.
HandledBeforeFirst(s, how) ==
  IF response[s] = "open" THEN ClosesThen(s, how) ELSE EndsWith(s, how, response[s])

Passes(s) == UNCHANGED <<abandoned, cancels>> /\ interrupts' = [interrupts EXCEPT ![s] = {}]

-----------------------------------------------------------------------------
(* Up to the first packet                                                  *)

Begin(s) ==
  /\ at[s] = "idle"
  /\ Goto(s, "creating")
  /\ UNCHANGED <<response, interrupts, delivered, pending, ending, abandoned, cancels>>

HeadersArrive(s) ==
  /\ at[s] = "creating" /\ interrupts[s] = {}
  /\ Goto(s, "first")
  /\ response' = [response EXCEPT ![s] = "open"]
  /\ UNCHANGED <<interrupts, delivered, pending, ending, abandoned, cancels>>

\* What a packet does to the generator, first or not.
Take(s, packet) ==
  CASE packet = "text" -> /\ delivered[s] < MaxChunks
                          /\ delivered' = [delivered EXCEPT ![s] = @ + 1]
                          /\ Goto(s, "yielded")
                          /\ UNCHANGED <<response, pending, ending>>
    [] packet = "empty" -> /\ Goto(s, "reading")
                           /\ UNCHANGED <<response, delivered, pending, ending>>
    [] packet = "bad" -> ClosesThen(s, ProtocolError)

\* The first packet ends the timer, whether there is anything to pass on or not.
PacketArrives(s) ==
  /\ at[s] \in {"first", "reading"} /\ interrupts[s] = {}
  /\ \E packet \in {"text", "empty", "bad"} : Take(s, packet)
  /\ Passes(s)

\* The response ends without a packet: a protocol error.
EmptyResponse(s) ==
  /\ at[s] = "first" /\ interrupts[s] = {}
  /\ ClosesThen(s, ProtocolError)
  /\ Passes(s)

FailsBeforeFirst(s) ==
  /\ at[s] \in {"creating", "first"} /\ interrupts[s] = {}
  /\ \E how \in MappedErrors : HandledBeforeFirst(s, how)
  /\ Passes(s)

\* An error of the transport that is no OpenAIError passes by every handler.
TransportFailsBeforeFirst(s) ==
  /\ at[s] \in {"creating", "first"} /\ interrupts[s] = {}
  /\ EndsWith(s, Plain("transport"), Left(s))
  /\ Passes(s)

\* Mutant: the timer also bounds what follows the first packet.
TimerFiresAnyTime(s) ==
  /\ at[s] \in {"creating", "first", "reading"}
  /\ "timer" \notin interrupts[s]
  /\ interrupts' = [interrupts EXCEPT ![s] = @ \cup {"timer"}]
  /\ UNCHANGED <<at, response, delivered, pending, ending, abandoned, cancels>>

TimerFires(s) ==
  /\ at[s] \in {"creating", "first"}
  /\ "timer" \notin interrupts[s]
  /\ interrupts' = [interrupts EXCEPT ![s] = @ \cup {"timer"}]
  /\ UNCHANGED <<at, response, delivered, pending, ending, abandoned, cancels>>

\* The await of the coroutine was cancelled, by the timer, its caller or both: a
\* cancellation of the caller wins, and no handler in front of the first packet
\* catches it.
Interrupted(s) ==
  /\ at[s] \in {"creating", "first", "reading", "closing"} /\ interrupts[s] # {}
  /\ IF "caller" \notin interrupts[s] THEN HandledBeforeFirst(s, FirstPacketTimeout)
     ELSE IF at[s] = "reading" THEN ClosesThen(s, Plain("cancelled"))
     ELSE EndsWith(s, Plain("cancelled"), Left(s))
  /\ Passes(s)

Cancel(s) ==
  /\ at[s] \in {"creating", "first", "reading", "closing"}
  /\ cancels[s] < MaxCancels
  /\ cancels' = [cancels EXCEPT ![s] = @ + 1]
  /\ interrupts' = [interrupts EXCEPT ![s] = @ \cup {"caller"}]
  /\ UNCHANGED <<at, response, delivered, pending, ending, abandoned>>

-----------------------------------------------------------------------------
(* From the first packet on: every way out closes the response             *)

Pull(s) ==
  /\ at[s] = "yielded" /\ s \notin abandoned
  /\ Goto(s, "reading")
  /\ UNCHANGED <<response, interrupts, delivered, pending, ending, abandoned, cancels>>

\* The caller drops the generator at a yield (its own caller went away): the
\* finalizer of the event loop closes it some time later.
Abandon(s) ==
  /\ at[s] = "yielded"
  /\ abandoned' = abandoned \cup {s}
  /\ UNCHANGED <<at, response, interrupts, delivered, pending, ending, cancels>>

Aclose(s) == at[s] = "yielded" /\ ClosesThen(s, Plain("closed")) /\ Passes(s)

ReadingEnds(s) ==
  /\ at[s] = "reading" /\ interrupts[s] = {}
  /\ \E how \in MappedErrors \cup {Plain("complete"), Plain("transport")} : ClosesThen(s, how)
  /\ Passes(s)

Closed(s) ==
  /\ at[s] = "closing" /\ interrupts[s] = {}
  /\ EndsWith(s, pending[s], "closed")
  /\ Passes(s)

CloseFails(s) ==
  /\ at[s] = "closing" /\ interrupts[s] = {}
  /\ EndsWith(s, Plain("transport"), Left(s))
  /\ Passes(s)

Stream(s) ==
  \/ HeadersArrive(s) \/ PacketArrives(s) \/ EmptyResponse(s)
  \/ FailsBeforeFirst(s) \/ TransportFailsBeforeFirst(s)
  \/ TimerFires(s) \/ Interrupted(s) \/ Cancel(s)
  \/ Pull(s) \/ Abandon(s) \/ Aclose(s) \/ ReadingEnds(s) \/ Closed(s) \/ CloseFails(s)

Active(s) == at[s] \notin {"idle", "done"}

-----------------------------------------------------------------------------
(* Properties                                                              *)

\* "first packet timeout" tells the client that it may ask again: nothing of
\* the answer reached it and the response it gave up is not left open, also when
\* the timer fires while the packet is on its way.  A used-up quota never says
\* so, whatever its HTTP status, because asking again cannot help.
RetryAdviceIsHonest ==
  \A s \in Streams :
    /\ ending[s] = FirstPacketTimeout => delivered[s] = 0 /\ response[s] \in {"none", "closed"}
    /\ \A error \in Errors : error.quota => ~MapError(error).retryable
=============================================================================
