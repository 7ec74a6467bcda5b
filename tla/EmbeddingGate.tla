--------------------------- MODULE EmbeddingGate ---------------------------
(***************************************************************************)
(* Concurrent embed() calls on the one local model:                        *)
(* SentenceTransformerEmbeddingModel (infrastructure/models/               *)
(* sentence_transformer_embedding.py).                                     *)
(*                                                                         *)
(* The coroutine of a call holds an asyncio.Lock while a native thread     *)
(* loads the model, if nobody did, and encodes.  Cancelling the coroutine  *)
(* does not stop the thread.  The lock (external: asyncio) keeps a queue   *)
(* of waiters; releasing it only wakes the first, which takes it when its  *)
(* task runs again, so a waiter can be cancelled between the two.          *)
(***************************************************************************)
EXTENDS Naturals, Sequences, SequencesExt

CONSTANTS Calls,        \* embed() calls
          MaxCancels,   \* cancellations one call may receive
          MaxFailures   \* loads that fail

ASSUME GateAssumption == MaxCancels \in Nat /\ MaxFailures \in Nat

VARIABLES
  locked,     \* the lock is held
  waiters,    \* the calls queued for it, in order
  woken,      \* the waiters whose future is set
  pc,         \* "idle", "waiting", "working" (shielded worker), "draining", "finished"
  thread,     \* the native worker: "none", "queued", "loading", "encoding", "exited"
  loaded,     \* self._backend is set
  cancels,    \* cancellations each call received
  failures    \* failed loads so far

lockVars == <<locked, waiters, woken>>
gateVars == <<lockVars, pc, thread, loaded, cancels, failures>>

GateInit ==
  /\ locked = FALSE
  /\ waiters = <<>>
  /\ woken = {}
  /\ pc = [c \in Calls |-> "idle"]
  /\ thread = [c \in Calls |-> "none"]
  /\ loaded = FALSE
  /\ cancels = [c \in Calls |-> 0]
  /\ failures = 0

-----------------------------------------------------------------------------
(* asyncio.Lock (external)                                                 *)

\* A waiter leaves the queue, from wherever it stands.
Leave(c) == \E i \in DOMAIN waiters : waiters[i] = c /\ waiters' = RemoveAt(waiters, i)

\* The first waiter of the queue is woken, unless it already was.
WakeFirst(queue) == woken' = IF queue = <<>> THEN {} ELSE {Head(queue)}

Release ==
  /\ locked' = FALSE
  /\ WakeFirst(waiters)
  /\ UNCHANGED waiters

Goto(c, p) == pc' = [pc EXCEPT ![c] = p]
Thread(c, state) == thread' = [thread EXCEPT ![c] = state]

-----------------------------------------------------------------------------
(* embed                                                                   *)

StartWorker(c) == Goto(c, "working") /\ Thread(c, "queued")

Embed(c) ==
  /\ pc[c] = "idle"
  /\ IF ~locked /\ waiters = <<>>
     THEN /\ locked' = TRUE
          /\ StartWorker(c)
          /\ UNCHANGED <<waiters, woken>>
     ELSE /\ waiters' = Append(waiters, c)
          /\ Goto(c, "waiting")
          /\ UNCHANGED <<locked, woken, thread>>
  /\ UNCHANGED <<loaded, cancels, failures>>

Acquire(c) ==
  /\ c \in woken
  /\ Leave(c)
  /\ woken' = woken \ {c}
  /\ locked' = TRUE
  /\ StartWorker(c)
  /\ UNCHANGED <<loaded, cancels, failures>>

\* The worker returned or raised, and so does the call; the lock goes.
Return(c) ==
  /\ pc[c] \in {"working", "draining"}
  /\ thread[c] = "exited"
  /\ Goto(c, "finished")
  /\ Release
  /\ UNCHANGED <<thread, loaded, cancels, failures>>

-----------------------------------------------------------------------------
(* The native thread: _embed_sync                                          *)

ThreadStarts(c) ==
  /\ thread[c] = "queued"
  /\ Thread(c, IF loaded THEN "encoding" ELSE "loading")
  /\ UNCHANGED <<lockVars, pc, loaded, cancels, failures>>

Load(c) ==
  /\ thread[c] = "loading"
  /\ loaded' = TRUE
  /\ Thread(c, "encoding")
  /\ UNCHANGED <<lockVars, pc, cancels, failures>>

\* The model cannot be loaded, or its token limit is too small: the next call tries again.
LoadFails(c) ==
  /\ thread[c] = "loading"
  /\ failures < MaxFailures
  /\ failures' = failures + 1
  /\ Thread(c, "exited")
  /\ UNCHANGED <<lockVars, pc, loaded, cancels>>

\* Vectors, an inference error or an invalid batch.
ThreadExits(c) ==
  /\ thread[c] = "encoding"
  /\ Thread(c, "exited")
  /\ UNCHANGED <<lockVars, pc, loaded, cancels, failures>>

-----------------------------------------------------------------------------
(* Cancellation                                                            *)

\* A cancelled waiter leaves the queue; if nobody holds the lock, it was or
\* may have been the one woken, and the next is woken in its place.
CancelWaiting(c) ==
  /\ pc[c] = "waiting"
  /\ Leave(c)
  /\ IF locked THEN woken' = woken \ {c} ELSE WakeFirst(waiters')
  /\ Goto(c, "finished")
  /\ UNCHANGED <<locked, thread>>

\* Mutant: the lock goes at once, without the wait for the worker.
CancelWorkingAtOnce(c) ==
  /\ pc[c] = "working"
  /\ Goto(c, "finished")
  /\ Release
  /\ UNCHANGED thread

\* Mutant: the lock is not released on the way out of a cancelled call.
CancelKeepingLock(c) ==
  /\ pc[c] = "working"
  /\ Goto(c, "finished")
  /\ UNCHANGED <<lockVars, thread>>

\* The shielded worker goes on, and the call keeps the lock and waits for it.
CancelWorking(c) ==
  /\ pc[c] = "working"
  /\ Goto(c, "draining")
  /\ UNCHANGED <<lockVars, thread>>

\* gather() passes a second cancellation on: a worker that has not started
\* never will, one that has goes on, and the lock goes either way.
CancelDraining(c) ==
  /\ pc[c] = "draining"
  /\ Goto(c, "finished")
  /\ IF thread[c] = "queued" THEN Thread(c, "none") ELSE UNCHANGED thread
  /\ Release

Cancel(c) ==
  /\ cancels[c] < MaxCancels
  /\ cancels' = [cancels EXCEPT ![c] = @ + 1]
  /\ CancelWaiting(c) \/ CancelWorking(c) \/ CancelDraining(c)
  /\ UNCHANGED <<loaded, failures>>

-----------------------------------------------------------------------------

Worker(c) == ThreadStarts(c) \/ Load(c) \/ LoadFails(c) \/ ThreadExits(c)

Quiet ==
  /\ \A c \in Calls : pc[c] = "finished" /\ thread[c] \in {"none", "exited"}
  /\ UNCHANGED gateVars

GateNext ==
  \/ \E c \in Calls : Embed(c) \/ Acquire(c) \/ Return(c) \/ Worker(c) \/ Cancel(c)
  \/ Quiet

GateSpec == GateInit /\ [][GateNext]_gateVars

\* The event loop runs what is ready and native code returns.
FairGateSpec ==
  /\ GateSpec
  /\ \A c \in Calls : WF_gateVars(Acquire(c) \/ Return(c)) /\ WF_gateVars(Worker(c))

-----------------------------------------------------------------------------
(* Properties                                                              *)

UsingModel(c) == thread[c] \in {"loading", "encoding"}

\* "Keep ownership until it exits so another request cannot use the same
\* model": no two native threads are inside the model at once, unless one of
\* them was left behind by a call that was cancelled a second time while it
\* waited for its worker.
LeftBehind(c) == pc[c] = "finished" /\ cancels[c] > 1

ModelUsedByOne ==
  \A b, c \in Calls :
    UsingModel(b) /\ UsingModel(c) => b = c \/ LeftBehind(b) \/ LeftBehind(c)

\* Every call ends, whichever calls are cancelled and at whichever await.
EveryCallEnds == \A c \in Calls : pc[c] # "idle" ~> pc[c] = "finished"
=============================================================================
