--------------------------- MODULE RetrievalProofs ---------------------------
(***************************************************************************)
(* The way from a question to the sources of its prompt, for any number of *)
(* calls, searches, chunks and documents: the embedding model is used by   *)
(* one thread at a time (EmbeddingGate), and fusion and reranking keep the *)
(* best candidates (RetrievalRanking).                                     *)
(*                                                                         *)
(* The ranking proofs climb from the sum that scores a chunk, a fold over  *)
(* a set, to the sort order it gives, then through the two loops that drop *)
(* chunks, folds over a sequence, to what fusion selects.  That and what   *)
(* each search read of the catalog make the invariant.                     *)
(***************************************************************************)
EXTENDS EmbeddingGate, RetrievalRanking, FiniteSetTheorems, SequenceTheorems,
        WellFoundedInduction, TLAPS

-----------------------------------------------------------------------------
(* The embedding model                                                     *)

\* ModelUsedByOne is not inductive: it needs that a call has the lock as long as
\* its thread may be inside the model, that nobody is woken while the lock is
\* held, and that only one is woken at a time, also when a woken waiter is
\* cancelled.

Pcs == {"idle", "waiting", "working", "draining", "finished"}
ThreadStates == {"none", "queued", "loading", "encoding", "exited"}

\* The call is between the acquisition and the release of the lock.
Holds(c) == pc[c] \in {"working", "draining"}

\* The executor may still run the worker of the call.
InThread(c) == thread[c] \in {"queued", "loading", "encoding"}

GateTypes ==
  /\ locked \in BOOLEAN
  /\ waiters \in Seq(Calls)
  /\ pc \in [Calls -> Pcs]
  /\ thread \in [Calls -> ThreadStates]
  /\ cancels \in [Calls -> Nat]

\* At most one waiter is woken, only while the lock is free, and it is in the queue.
WakingIsSound ==
  /\ \A a, b \in woken : a = b
  /\ woken # {} => ~locked
  /\ waiters = <<>> => woken = {}

\* The lock has one holder.
HoldingIsSound ==
  /\ \A c \in Calls : Holds(c) => locked
  /\ \A b, c \in Calls : Holds(b) /\ Holds(c) => b = c

\* A thread works for the holder, or for a call cancelled while it drained.
ThreadsAreOwned ==
  \A c \in Calls : /\ InThread(c) => Holds(c) \/ LeftBehind(c)
                   /\ pc[c] = "draining" => cancels[c] > 0

GateInv == GateTypes /\ WakingIsSound /\ HoldingIsSound /\ ThreadsAreOwned

-----------------------------------------------------------------------------

\* Taking one element out of a queue leaves a queue.
LEMMA LeaveType ==
  ASSUME GateTypes, NEW c \in Calls, Leave(c)
  PROVE  waiters' \in Seq(Calls)
<1>1. PICK i \in DOMAIN waiters : waiters' = RemoveAt(waiters, i)
  BY DEF Leave
<1>2. waiters \in Seq(Calls) /\ i \in 1..Len(waiters) /\ Len(waiters) \in Nat
  BY <1>1 DEF GateTypes
<1>3. SubSeq(waiters, 1, i - 1) \in Seq(Calls)
  BY <1>2
<1>4. SubSeq(waiters, i + 1, Len(waiters)) \in Seq(Calls)
  BY <1>2
<1> QED
  BY <1>1, <1>3, <1>4 DEF RemoveAt

\* Releasing the lock wakes at most one waiter, one of the queue.
LEMMA ReleaseWakes ==
  ASSUME GateTypes, Release
  PROVE  WakingIsSound' /\ ~locked'
BY DEF Release, WakeFirst, WakingIsSound, GateTypes

\* The initial states satisfy the invariant.
LEMMA InitGate == GateInit => GateInv
<1> SUFFICES ASSUME GateInit PROVE GateInv
  OBVIOUS
<1>1. GateTypes
  <2>1. waiters \in Seq(Calls)
    BY DEF GateInit
  <2> QED BY <2>1 DEF GateInit, GateTypes, Pcs, ThreadStates
<1>2. WakingIsSound
  BY DEF GateInit, WakingIsSound
<1>3. HoldingIsSound /\ ThreadsAreOwned
  BY DEF GateInit, HoldingIsSound, ThreadsAreOwned, Holds, InThread
<1> QED
  BY <1>1, <1>2, <1>3 DEF GateInv

\* Every step keeps the invariant.
LEMMA StepGate == GateInv /\ [GateNext]_gateVars => GateInv'
<1> SUFFICES ASSUME GateInv, [GateNext]_gateVars PROVE GateInv'
  OBVIOUS
<1> USE DEF GateInv
<1>1. ASSUME NEW c \in Calls, Embed(c) PROVE GateInv'
  <2>1. GateTypes'
    <3>1. waiters' \in Seq(Calls)
      <4>1. waiters \in Seq(Calls) /\ (waiters' = waiters \/ waiters' = Append(waiters, c))
        BY <1>1 DEF Embed, GateTypes
      <4> QED BY <4>1, AppendProperties
    <3>2. locked' \in BOOLEAN
      BY <1>1 DEF Embed, GateTypes
    <3>3. pc' \in [Calls -> Pcs] /\ thread' \in [Calls -> ThreadStates]
      BY <1>1 DEF Embed, StartWorker, Goto, Thread, GateTypes, Pcs, ThreadStates
    <3> QED BY <1>1, <3>1, <3>2, <3>3 DEF Embed, GateTypes
  <2>2. WakingIsSound'
    BY <1>1 DEF Embed, GateTypes, WakingIsSound
  <2>3. HoldingIsSound' /\ ThreadsAreOwned'
    BY <1>1 DEF Embed, StartWorker, Goto, Thread, GateTypes, HoldingIsSound,
                ThreadsAreOwned, Holds, InThread, LeftBehind
  <2> QED BY <2>1, <2>2, <2>3
<1>2. ASSUME NEW c \in Calls, Acquire(c) PROVE GateInv'
  <2>1. ~locked /\ woken' = {} /\ locked'
    BY <1>2 DEF Acquire, WakingIsSound
  <2>2. GateTypes'
    BY <1>2, LeaveType DEF Acquire, StartWorker, Goto, Thread, GateTypes, Pcs, ThreadStates
  <2>3. HoldingIsSound' /\ ThreadsAreOwned'
    BY <1>2, <2>1 DEF Acquire, StartWorker, Goto, Thread, GateTypes, HoldingIsSound,
                ThreadsAreOwned, Holds, InThread, LeftBehind
  <2> QED BY <2>1, <2>2, <2>3 DEF WakingIsSound
<1>3. ASSUME NEW c \in Calls, Return(c) PROVE GateInv'
  <2>1. GateTypes'
    BY <1>3 DEF Return, Release, Goto, GateTypes, Pcs
  <2>2. WakingIsSound' /\ ~locked'
    BY <1>3, ReleaseWakes DEF Return
  <2>3. HoldingIsSound' /\ ThreadsAreOwned'
    BY <1>3 DEF Return, Release, Goto, GateTypes, HoldingIsSound, ThreadsAreOwned,
                Holds, InThread, LeftBehind
  <2> QED BY <2>1, <2>2, <2>3
<1>4. ASSUME NEW c \in Calls, Worker(c) PROVE GateInv'
  <2>1. GateTypes'
    BY <1>4 DEF Worker, ThreadStarts, Load, LoadFails, ThreadExits, Thread, lockVars,
                GateTypes, ThreadStates
  <2>2. WakingIsSound' /\ HoldingIsSound'
    BY <1>4 DEF Worker, ThreadStarts, Load, LoadFails, ThreadExits, lockVars,
                WakingIsSound, HoldingIsSound, Holds
  <2>3. ThreadsAreOwned'
    BY <1>4 DEF Worker, ThreadStarts, Load, LoadFails, ThreadExits, Thread, lockVars,
                GateTypes, ThreadsAreOwned, Holds, InThread, LeftBehind
  <2> QED BY <2>1, <2>2, <2>3
<1>5. ASSUME NEW c \in Calls, Cancel(c) PROVE GateInv'
  <2>0. cancels' = [cancels EXCEPT ![c] = @ + 1]
    BY <1>5 DEF Cancel
  <2>1. CASE CancelWaiting(c)
    <3>1. GateTypes'
      BY <2>0, <2>1, LeaveType DEF CancelWaiting, Goto, GateTypes, Pcs
    <3>2. WakingIsSound'
      BY <2>1, <3>1 DEF CancelWaiting, WakeFirst, WakingIsSound, GateTypes
    <3>3. HoldingIsSound' /\ ThreadsAreOwned'
      BY <2>0, <2>1 DEF CancelWaiting, Goto, GateTypes, HoldingIsSound, ThreadsAreOwned,
                        Holds, InThread, LeftBehind
    <3> QED BY <3>1, <3>2, <3>3
  <2>2. CASE CancelWorking(c)
    <3>1. GateTypes' /\ WakingIsSound'
      BY <2>0, <2>2 DEF CancelWorking, Goto, lockVars, GateTypes, Pcs, WakingIsSound
    <3>2. HoldingIsSound' /\ ThreadsAreOwned'
      BY <2>0, <2>2 DEF CancelWorking, Goto, lockVars, GateTypes, HoldingIsSound,
                        ThreadsAreOwned, Holds, InThread, LeftBehind
    <3> QED BY <3>1, <3>2
  <2>3. CASE CancelDraining(c)
    <3>1. GateTypes'
      <4>1. pc' \in [Calls -> Pcs] /\ thread' \in [Calls -> ThreadStates]
        BY <2>3 DEF CancelDraining, Goto, Thread, GateTypes, Pcs, ThreadStates
      <4>2. cancels' \in [Calls -> Nat]
        BY <2>0 DEF GateTypes
      <4> QED BY <2>3, <4>1, <4>2 DEF CancelDraining, Release, GateTypes
    <3>2. WakingIsSound' /\ ~locked'
      BY <2>3, ReleaseWakes DEF CancelDraining
    <3>3. HoldingIsSound' /\ ThreadsAreOwned'
      BY <2>0, <2>3 DEF CancelDraining, Goto, Thread, Release, GateTypes, HoldingIsSound,
                        ThreadsAreOwned, Holds, InThread, LeftBehind
    <3> QED BY <3>1, <3>2, <3>3
  <2> QED BY <1>5, <2>1, <2>2, <2>3 DEF Cancel
<1>6. CASE UNCHANGED gateVars
  BY <1>6 DEF gateVars, lockVars, GateTypes, WakingIsSound, HoldingIsSound, ThreadsAreOwned,
              Holds, InThread, LeftBehind
<1> QED
  BY <1>1, <1>2, <1>3, <1>4, <1>5, <1>6 DEF GateNext, Quiet

-----------------------------------------------------------------------------

\* No two native threads are inside the model of
\* SentenceTransformerEmbeddingModel at once, unless one of them was left
\* behind by a call that was cancelled again while it waited for its worker.
THEOREM ModelIsExclusive == GateSpec => []ModelUsedByOne
<1>1. GateInv => ModelUsedByOne
  BY DEF GateInv, HoldingIsSound, ThreadsAreOwned, ModelUsedByOne, UsingModel, InThread
<1> QED
  BY InitGate, StepGate, <1>1, PTL DEF GateSpec

-----------------------------------------------------------------------------
(* Induction for sets                                                      *)

\* A set with 0 that is closed under successor holds every natural number.
LEMMA NatSetInduction ==
  ASSUME NEW S, 0 \in S, \A n \in Nat : n \in S => n + 1 \in S
  PROVE  \A n \in Nat : n \in S
<1> SUFFICES ASSUME Nat \ S # {} PROVE FALSE
  OBVIOUS
<1>1. PICK n \in Nat \ S : \A m \in Nat \ S : ~ (<<m, n>> \in OpToRel(<, Nat))
  BY NatLessThanWellFounded, WFMin
<1>2. n \in Nat /\ n \notin S
  OBVIOUS
<1>3. n # 0
  BY <1>2
<1>4. n - 1 \in Nat /\ n - 1 < n
  BY <1>2, <1>3
<1>5. <<n - 1, n>> \in OpToRel(<, Nat)
  BY <1>2, <1>4 DEF OpToRel
<1>6. n - 1 \in S
  BY <1>1, <1>4, <1>5
<1>7. (n - 1) + 1 \in S
  BY <1>4, <1>6
<1> QED
  BY <1>2, <1>7

\* A family that holds a set when it holds its proper subsets holds every
\* subset of a finite set.
LEMMA FiniteSetInduction ==
  ASSUME NEW S, IsFiniteSet(S), NEW G,
         \A s \in SUBSET S : (\A t \in SUBSET s : t # s => t \in G) => s \in G
  PROVE  \A s \in SUBSET S : s \in G
<1> SUFFICES ASSUME (SUBSET S) \ G # {} PROVE FALSE
  OBVIOUS
<1>1. (SUBSET S) \ G \subseteq FiniteSubsetsOf(S)
  <2> SUFFICES ASSUME NEW s \in SUBSET S PROVE s \in FiniteSubsetsOf(S)
    OBVIOUS
  <2> QED
    BY FS_Subset DEF FiniteSubsetsOf
<1>2. PICK s \in (SUBSET S) \ G :
        \A t \in (SUBSET S) \ G : ~ (<<t, s>> \in StrictSubsetOrdering(S))
  <2> DEFINE T == (SUBSET S) \ G
  <2>1. T \subseteq FiniteSubsetsOf(S) /\ T # {}
    BY <1>1
  <2>2. IsWellFoundedOn(StrictSubsetOrdering(S), FiniteSubsetsOf(S))
    BY FS_StrictSubsetOrderingWellFounded
  <2> HIDE DEF T
  <2>3. \E s \in T : \A t \in T : ~ (<<t, s>> \in StrictSubsetOrdering(S))
    BY <2>1, <2>2, WFMin
  <2> QED
    BY <2>3 DEF T
<1>3. \A t \in SUBSET s : t # s => t \in G
  BY <1>2 DEF StrictSubsetOrdering
<1> QED
  BY <1>2, <1>3

-----------------------------------------------------------------------------
(* Folds over sets                                                         *)

\* A function from the subsets of S to the fold of a step over each; the element
\* chosen from a set is the last to be folded in.
IsFold(it, S, choice, X, base, step) ==
  /\ it \in [SUBSET S -> X]
  /\ \A s \in SUBSET S :
       it[s] = IF s = {} THEN base ELSE step[<<choice[s], it[s \ {choice[s]}]>>]

\* The recursion that MapThenFoldSet defines has a solution.
LEMMA SetFoldExists ==
  ASSUME NEW S, IsFiniteSet(S),
         NEW choice, \A s \in SUBSET S : s # {} => choice[s] \in s,
         NEW X, NEW base \in X, NEW step \in [S \X X -> X]
  PROVE  \E it : IsFold(it, S, choice, X, base, step)
<1> DEFINE Upto(n) == {s \in SUBSET S : Cardinality(s) <= n}
<1> DEFINE Solves(it, n) ==
             \A s \in Upto(n) :
               it[s] = IF s = {} THEN base ELSE step[<<choice[s], it[s \ {choice[s]}]>>]
<1> DEFINE T == {n \in Nat : \E it \in [Upto(n) -> X] : Solves(it, n)}
<1>0. \A s \in SUBSET S : /\ IsFiniteSet(s) /\ Cardinality(s) \in Nat
                          /\ Cardinality(s) = 0 <=> s = {}
  BY FS_Subset, FS_CardinalityType, FS_EmptySet
<1>1. 0 \in T
  <2> DEFINE it == [s \in Upto(0) |-> base]
  <2>1. \A s \in Upto(0) : s = {}
    BY <1>0
  <2>2. it \in [Upto(0) -> X] /\ Solves(it, 0)
    BY <2>1
  <2> QED
    BY <2>2
<1>2. ASSUME NEW n \in Nat, n \in T PROVE n + 1 \in T
  <2>1. PICK g \in [Upto(n) -> X] : Solves(g, n)
    BY <1>2
  <2> DEFINE f == [s \in Upto(n + 1) |->
                     IF s \in Upto(n) THEN g[s] ELSE step[<<choice[s], g[s \ {choice[s]}]>>]]
  <2>2. ASSUME NEW s \in Upto(n + 1), s # {}
        PROVE  choice[s] \in S /\ s \ {choice[s]} \in Upto(n) /\ s \ {choice[s]} \in Upto(n + 1)
    <3>1. choice[s] \in s
      BY <2>2
    <3>2. Cardinality(s \ {choice[s]}) = Cardinality(s) - 1
      BY <1>0, <3>1, FS_RemoveElement
    <3>3. Cardinality(s) \in Nat /\ Cardinality(s) <= n + 1
      BY <1>0
    <3> QED
      BY <3>1, <3>2, <3>3
  <2>3. \A s \in Upto(n) : s \in Upto(n + 1)
    BY <1>0
  <2>4. {} \in Upto(n)
    BY FS_EmptySet
  <2>5. f \in [Upto(n + 1) -> X]
    <3> SUFFICES ASSUME NEW s \in Upto(n + 1) PROVE f[s] \in X
      OBVIOUS
    <3>1. CASE s \in Upto(n)
      BY <3>1
    <3>2. CASE s \notin Upto(n)
      <4>1. <<choice[s], g[s \ {choice[s]}]>> \in S \X X
        BY <2>2, <2>4, <3>2
      <4> HIDE DEF Upto
      <4> QED
        BY <3>2, <4>1
    <3> QED
      BY <3>1, <3>2
  <2>6. Solves(f, n + 1)
    <3> SUFFICES ASSUME NEW s \in Upto(n + 1)
                 PROVE  f[s] = IF s = {} THEN base ELSE step[<<choice[s], f[s \ {choice[s]}]>>]
      OBVIOUS
    <3>1. CASE s = {}
      BY <2>1, <2>4, <3>1
    <3>2. CASE s # {}
      <4>1. f[s \ {choice[s]}] = g[s \ {choice[s]}]
        BY <2>2, <3>2
      <4>2. f[s] = IF s \in Upto(n) THEN g[s] ELSE step[<<choice[s], g[s \ {choice[s]}]>>]
        OBVIOUS
      <4>3. CASE s \in Upto(n)
        <5>1. g[s] = step[<<choice[s], g[s \ {choice[s]}]>>]
          BY <2>1, <3>2, <4>3
        <5> QED
          BY <3>2, <4>1, <4>2, <4>3, <5>1
      <4>4. CASE s \notin Upto(n)
        BY <3>2, <4>1, <4>2, <4>4
      <4> HIDE DEF Upto, f
      <4> QED
        BY <4>3, <4>4
    <3> QED
      BY <3>1, <3>2
  <2>7. \E it \in [Upto(n + 1) -> X] : Solves(it, n + 1)
    <3> HIDE DEF f, Solves, Upto
    <3> QED
      BY <2>5, <2>6
  <2> HIDE DEF f, Solves, Upto
  <2> QED
    BY <2>7
<1>3. Cardinality(S) \in T
  <2> HIDE DEF T
  <2> QED
    BY <1>0, <1>1, <1>2, NatSetInduction
<1>4. Upto(Cardinality(S)) = SUBSET S
  BY FS_Subset
<1>5. PICK it \in [Upto(Cardinality(S)) -> X] : Solves(it, Cardinality(S))
  BY <1>3
<1>6. IsFold(it, S, choice, X, base, step)
  BY <1>4, <1>5 DEF IsFold
<1> QED
  BY <1>6

AnyOf(s) == CHOOSE x \in s : TRUE
Anything(S) == [s \in SUBSET S |-> AnyOf(s)]

\* What FoldSet and MapThenSumSet choose.
LEMMA AnythingChooses ==
  ASSUME NEW S
  PROVE  \A s \in SUBSET S : s # {} => Anything(S)[s] \in s
BY DEF Anything, AnyOf

\* A function from every set of a finite S to the sum of f over it, as
\* MapThenSumSet defines it.
IsSum(it, f, S) ==
  /\ it \in [SUBSET S -> Nat]
  /\ \A s \in SUBSET S : it[s] = IF s = {} THEN 0 ELSE f[AnyOf(s)] + it[s \ {AnyOf(s)}]

\* Any element of a set may be added last.
LEMMA SumOfAnyElement ==
  ASSUME NEW S, IsFiniteSet(S), NEW f \in [S -> Nat], NEW it, IsSum(it, f, S)
  PROVE  \A s \in SUBSET S : \A x \in s : it[s] = f[x] + it[s \ {x}]
<1> DEFINE G == {s \in SUBSET S : \A x \in s : it[s] = f[x] + it[s \ {x}]}
<1>1. ASSUME NEW s \in SUBSET S, \A t \in SUBSET s : t # s => t \in G PROVE s \in G
  <2> SUFFICES ASSUME NEW x \in s PROVE it[s] = f[x] + it[s \ {x}]
    OBVIOUS
  <2> DEFINE y == AnyOf(s)
  <2>1. y \in s
    BY DEF AnyOf
  <2>2. it[s] = f[y] + it[s \ {y}]
    BY DEF IsSum
  <2>3. CASE x # y
    <3>1. s \ {x} \in G /\ s \ {y} \in G
      BY <1>1, <2>1
    <3>2. it[s \ {x}] = f[y] + it[(s \ {x}) \ {y}]
      BY <2>1, <2>3, <3>1
    <3>3. it[s \ {y}] = f[x] + it[(s \ {y}) \ {x}]
      BY <2>1, <2>3, <3>1
    <3>4. (s \ {x}) \ {y} = (s \ {y}) \ {x}
      OBVIOUS
    <3>5. f[x] \in Nat /\ f[y] \in Nat /\ it[(s \ {x}) \ {y}] \in Nat
      <4>1. (s \ {x}) \ {y} \in SUBSET S
        OBVIOUS
      <4> QED
        BY <2>1, <4>1 DEF IsSum
    <3> DEFINE rest == it[(s \ {x}) \ {y}]
    <3>6. it[s \ {x}] = f[y] + rest /\ it[s \ {y}] = f[x] + rest /\ rest \in Nat
      BY <3>2, <3>3, <3>4, <3>5
    <3> HIDE DEF y, rest
    <3> QED
      BY <2>2, <3>5, <3>6
  <2> QED
    BY <2>2, <2>3
<1> HIDE DEF G
<1>2. \A s \in SUBSET S : s \in G
  BY <1>1, FiniteSetInduction
<1> QED
  BY <1>2 DEF G

\* A sum over more and larger summands is no smaller.
LEMMA SumMonotone ==
  ASSUME NEW S, IsFiniteSet(S), NEW f \in [S -> Nat], NEW it, IsSum(it, f, S),
         NEW R \in SUBSET S, NEW e \in [R -> Nat], NEW jt, IsSum(jt, e, R),
         \A x \in R : e[x] <= f[x]
  PROVE  jt[R] <= it[S]
<1> DEFINE G == {s \in SUBSET S : jt[s \cap R] <= it[s]}
<1>1. ASSUME NEW s \in SUBSET S, \A t \in SUBSET s : t # s => t \in G PROVE s \in G
  <2>1. it[s] \in Nat /\ jt[s \cap R] \in Nat
    BY DEF IsSum
  <2>2. CASE s = {}
    <3>1. it[s] = 0 /\ jt[{}] = 0 /\ s \cap R = {}
      BY <2>2 DEF IsSum
    <3> QED
      BY <3>1
  <2>3. CASE s # {}
    <3>1. PICK x \in s : TRUE
      BY <2>3
    <3> DEFINE t == s \ {x}
    <3>2. it[s] = f[x] + it[t] /\ f[x] \in Nat /\ it[t] \in Nat
      <4>1. it[s] = f[x] + it[t]
        BY SumOfAnyElement
      <4>2. f[x] \in Nat /\ t \in SUBSET S
        OBVIOUS
      <4> QED
        BY <4>1, <4>2 DEF IsSum
    <3>3. jt[t \cap R] <= it[t] /\ jt[t \cap R] \in Nat
      <4>1. t \in G
        BY <1>1
      <4> QED
        BY <4>1 DEF IsSum
    <3>4. CASE x \in R
      <4>1. IsFiniteSet(R) /\ s \cap R \in SUBSET R /\ x \in s \cap R
        BY <3>4, FS_Subset
      <4>2. jt[s \cap R] = e[x] + jt[(s \cap R) \ {x}]
        BY <4>1, SumOfAnyElement
      <4>3. (s \cap R) \ {x} = t \cap R
        OBVIOUS
      <4>4. e[x] \in Nat /\ e[x] <= f[x]
        BY <3>4
      <4> HIDE DEF t
      <4> QED
        BY <3>2, <3>3, <4>2, <4>3, <4>4
    <3>5. CASE x \notin R
      <4>1. s \cap R = t \cap R
        BY <3>5
      <4> HIDE DEF t
      <4> QED
        BY <2>1, <3>2, <3>3, <4>1
    <3> QED
      BY <3>4, <3>5
  <2> QED
    BY <2>2, <2>3
<1> HIDE DEF G
<1>2. S \in G
  BY <1>1, FiniteSetInduction
<1>3. S \cap R = R
  OBVIOUS
<1> QED
  BY <1>2, <1>3 DEF G

-----------------------------------------------------------------------------
(* Scores                                                                  *)

\* A search returns a list of candidates.
ResultsAreLists == results \in [Queries -> Seq(Candidates) \union {Unanswered}]

AllAnswered == \A q \in Queries : results[q] # Unanswered

\* All searches have returned.
Fusing == ResultsAreLists /\ AllAnswered

\* The parameters are positive numbers.
LEMMA ParametersType ==
  /\ Questions \in Nat \ {0} /\ MaxSimilarity \in Nat \ {0} /\ RecallBudget \in Nat \ {0}
  /\ RrfK \in Nat \ {0} /\ MaxChunksPerDocument \in Nat \ {0}
  /\ RerankCandidateLimit \in Nat \ {0} /\ ContextTopK \in Nat \ {0}
BY RankingAssumption DEF RankingAssumption

\* The place of a chunk in a list is a number, and its candidate is there.
LEMMA RankType ==
  ASSUME Fusing, NEW q \in Queries, NEW c, Ranks(q, c) # {}
  PROVE  /\ Rank(q, c) \in Nat \ {0}
         /\ Candidate(q, c) \in Candidates
         /\ Candidate(q, c).chunk = c
         /\ Candidate(q, c).similarity \in Int
<1>1. results[q] \in Seq(Candidates)
  BY DEF Fusing, ResultsAreLists, AllAnswered
<1>2. Rank(q, c) \in Ranks(q, c)
  BY DEF Rank
<1>3. Rank(q, c) \in 1..Len(results[q]) /\ results[q][Rank(q, c)].chunk = c
  BY <1>1, <1>2 DEF Ranks
<1>4. results[q][Rank(q, c)] \in Candidates
  BY <1>1, <1>3
<1> QED
  BY <1>3, <1>4, ParametersType DEF Candidate, Candidates

\* The product of RrfK + r over all ranks is a number.
LEMMA ScaleType == Scale \in Nat
<1> DEFINE S == 1..RecallBudget
<1> DEFINE Body(it, s) == IF s = {} THEN 1
                          ELSE LET x == CHOOSE x \in s : TRUE IN it[s \ {x}] * (RrfK + x)
<1> DEFINE fold == CHOOSE it : it = [s \in SUBSET S |-> Body(it, s)]
<1>1. Scale = fold[S]
  BY Zenon DEF Scale, FoldSet, MapThenFoldSet
<1> DEFINE step == [p \in S \X Nat |-> p[2] * (RrfK + p[1])]
<1>2. step \in [S \X Nat -> Nat]
  BY ParametersType
<1>3. IsFiniteSet(S)
  BY ParametersType, FS_Interval
<1>4. PICK it : IsFold(it, S, Anything(S), Nat, 1, step)
  <2>1. 1 \in Nat
    OBVIOUS
  <2> HIDE DEF step, S
  <2> QED
    BY <1>2, <1>3, <2>1, AnythingChooses, SetFoldExists
<1>5. \A s \in SUBSET S : it[s] = Body(it, s)
  <2> SUFFICES ASSUME NEW s \in SUBSET S PROVE it[s] = Body(it, s)
    OBVIOUS
  <2>1. CASE s = {}
    BY <1>4, <2>1 DEF IsFold
  <2>2. CASE s # {}
    <3>1. AnyOf(s) \in S /\ it[s \ {AnyOf(s)}] \in Nat
      BY <1>4, <2>2 DEF AnyOf, Anything, IsFold
    <3>2. step[<<AnyOf(s), it[s \ {AnyOf(s)}]>>] = it[s \ {AnyOf(s)}] * (RrfK + AnyOf(s))
      BY <3>1
    <3> QED
      BY <1>4, <2>2, <3>2 DEF AnyOf, Anything, IsFold
  <2> QED
    BY <2>1, <2>2
<1>6. it = [s \in SUBSET S |-> Body(it, s)]
  BY <1>4, <1>5 DEF IsFold
<1>7. fold = [s \in SUBSET S |-> Body(fold, s)]
  <2> HIDE DEF Body, S
  <2> QED
    BY <1>6
<1>8. \A s \in SUBSET S : fold[s] \in Nat
  <2> DEFINE G == {s \in SUBSET S : fold[s] \in Nat}
  <2>1. ASSUME NEW s \in SUBSET S, \A t \in SUBSET s : t # s => t \in G PROVE s \in G
    <3> HIDE DEF fold
    <3>1. fold[s] = Body(fold, s)
      BY <1>7
    <3>2. CASE s = {}
      BY <3>1, <3>2
    <3>3. CASE s # {}
      <4>1. AnyOf(s) \in s
        BY <3>3 DEF AnyOf
      <4>2. AnyOf(s) \in Nat
        <5>1. \A r \in S : r \in Nat
          BY ParametersType
        <5> HIDE DEF S
        <5> QED
          BY <4>1, <5>1
      <4>4. s \ {AnyOf(s)} \in G
        BY <2>1, <4>1
      <4>5. fold[s \ {AnyOf(s)}] \in Nat
        BY <4>4
      <4>3. fold[s] = fold[s \ {AnyOf(s)}] * (RrfK + AnyOf(s))
        BY <3>1, <3>3 DEF AnyOf
      <4> QED
        BY <4>2, <4>3, <4>5, ParametersType
    <3> QED
      BY <3>2, <3>3
  <2> HIDE DEF G, fold, S
  <2>2. \A s \in SUBSET S : s \in G
    BY <1>3, <2>1, FiniteSetInduction
  <2> QED
    BY <2>2 DEF G
<1> QED
  BY <1>1, <1>8

\* Division by more gives no more.
LEMMA DivMonotone ==
  ASSUME NEW s \in Nat, NEW a \in Nat \ {0}, NEW b \in Nat \ {0}, a <= b
  PROVE  s \div b \in Nat /\ s \div b <= s \div a
<1> DEFINE x == s \div b
<1> DEFINE y == s \div a
<1>1. x \in Nat /\ b * x <= s
  OBVIOUS
<1>2. y \in Nat /\ s < a * (y + 1)
  OBVIOUS
<1> HIDE DEF x, y
<1>3. a * x <= b * x
  BY <1>1
<1>4. a * x < a * (y + 1)
  BY <1>1, <1>2, <1>3
<1>5. x < y + 1
  BY <1>1, <1>2, <1>4
<1> QED
  BY <1>1, <1>2, <1>5 DEF x, y

Contribution(q, c) == Scale \div (RrfK + Rank(q, c))
Contributions(c) == [q \in Hits(c) |-> Contribution(q, c)]

\* What one search contributes to a score is a number.
LEMMA ContributionType ==
  ASSUME Fusing, NEW c, NEW q \in Hits(c)
  PROVE  Contribution(q, c) \in Nat
<1>1. Rank(q, c) \in Nat \ {0}
  BY RankType DEF Hits
<1>2. RrfK + Rank(q, c) \in Nat \ {0}
  BY <1>1, ParametersType
<1> QED
  BY <1>2, ScaleType, DivMonotone DEF Contribution

\* Only the questions asked can have hits.
LEMMA HitsAreFinite == \A c : IsFiniteSet(Hits(c)) /\ Hits(c) \subseteq Queries
<1>1. IsFiniteSet(Queries)
  BY ParametersType, FS_Interval DEF Queries
<1> QED
  BY <1>1, FS_Subset DEF Hits

\* The score is the sum of the contributions.
LEMMA ScoreIsSum ==
  ASSUME Fusing, NEW c
  PROVE  \E it : IsSum(it, Contributions(c), Hits(c)) /\ RrfScore(c) = it[Hits(c)]
<1> DEFINE S == Hits(c)
<1> DEFINE Body(it, s) == IF s = {} THEN 0
                          ELSE LET x == CHOOSE x \in s : TRUE
                               IN (Scale \div (RrfK + Rank(x, c))) + it[s \ {x}]
<1> DEFINE fold == CHOOSE it : it = [s \in SUBSET S |-> Body(it, s)]
<1>1. RrfScore(c) = fold[S]
  BY Zenon DEF RrfScore, MapThenSumSet, MapThenFoldSet
<1> DEFINE step == [p \in S \X Nat |-> Contribution(p[1], c) + p[2]]
<1>2. step \in [S \X Nat -> Nat]
  BY ContributionType
<1>3. PICK it : IsFold(it, S, Anything(S), Nat, 0, step)
  <2>1. 0 \in Nat /\ IsFiniteSet(S)
    BY HitsAreFinite
  <2> HIDE DEF step, S
  <2> QED
    BY <1>2, <2>1, AnythingChooses, SetFoldExists
<1>4. \A s \in SUBSET S : it[s] = Body(it, s)
  <2> SUFFICES ASSUME NEW s \in SUBSET S PROVE it[s] = Body(it, s)
    OBVIOUS
  <2>1. CASE s = {}
    BY <1>3, <2>1 DEF IsFold
  <2>2. CASE s # {}
    <3>1. AnyOf(s) \in S /\ it[s \ {AnyOf(s)}] \in Nat
      BY <1>3, <2>2 DEF AnyOf, Anything, IsFold
    <3>2. step[<<AnyOf(s), it[s \ {AnyOf(s)}]>>] = Contribution(AnyOf(s), c) + it[s \ {AnyOf(s)}]
      BY <3>1
    <3>3. it[s] = Contribution(AnyOf(s), c) + it[s \ {AnyOf(s)}]
      BY <1>3, <2>2, <3>2 DEF Anything, IsFold
    <3> QED
      BY <2>2, <3>3 DEF AnyOf, Contribution
  <2> QED
    BY <2>1, <2>2
<1>5. it = [s \in SUBSET S |-> Body(it, s)]
  BY <1>3, <1>4 DEF IsFold
<1>6. fold = [s \in SUBSET S |-> Body(fold, s)]
  <2> HIDE DEF Body, S
  <2> QED
    BY <1>5
<1>7. \A s \in SUBSET S : s # {} =>
        AnyOf(s) \in S /\ fold[s] = Contributions(c)[AnyOf(s)] + fold[s \ {AnyOf(s)}]
  <2> SUFFICES ASSUME NEW s \in SUBSET S, s # {}
               PROVE  AnyOf(s) \in S
                      /\ fold[s] = Contributions(c)[AnyOf(s)] + fold[s \ {AnyOf(s)}]
    OBVIOUS
  <2>1. AnyOf(s) \in S
    BY DEF AnyOf
  <2>2. fold[s] = Body(fold, s)
    <3> HIDE DEF fold, Body
    <3> QED
      BY <1>6
  <2>3. Contributions(c)[AnyOf(s)] = Scale \div (RrfK + Rank(AnyOf(s), c))
    BY <2>1 DEF Contributions, Contribution
  <2> HIDE DEF fold, S
  <2> QED
    BY <2>1, <2>2, <2>3 DEF AnyOf
<1>8. fold[{}] = 0
  <2> HIDE DEF fold
  <2> QED
    BY <1>6
<1>9. \A s \in SUBSET S : fold[s] \in Nat
  <2> DEFINE G == {s \in SUBSET S : fold[s] \in Nat}
  <2>1. ASSUME NEW s \in SUBSET S, \A t \in SUBSET s : t # s => t \in G PROVE s \in G
    <3> HIDE DEF fold
    <3>1. CASE s = {}
      BY <1>8, <3>1
    <3>2. CASE s # {}
      <4>1. AnyOf(s) \in s
        BY <3>2 DEF AnyOf
      <4>2. s \ {AnyOf(s)} \in G
        BY <2>1, <4>1
      <4>3. Contributions(c)[AnyOf(s)] \in Nat
        BY <4>1, ContributionType DEF Contributions
      <4>4. fold[s \ {AnyOf(s)}] \in Nat
        BY <4>2
      <4>5. fold[s] = Contributions(c)[AnyOf(s)] + fold[s \ {AnyOf(s)}]
        BY <1>7, <3>2
      <4>6. fold[s] \in Nat
        BY <4>3, <4>4, <4>5
      <4> QED
        BY <4>6
    <3> QED
      BY <3>1, <3>2
  <2> HIDE DEF G, fold, S
  <2>2. \A s \in SUBSET S : s \in G
    BY <2>1, FiniteSetInduction, HitsAreFinite DEF S
  <2> QED
    BY <2>2 DEF G
<1>10. IsSum(fold, Contributions(c), S)
  <2>1. fold \in [SUBSET S -> Nat]
    <3> HIDE DEF Body, fold
    <3> QED
      BY <1>6, <1>9
  <2> HIDE DEF fold, S
  <2> QED
    BY <1>7, <1>8, <2>1 DEF IsSum
<1> HIDE DEF fold
<1> QED
  BY <1>1, <1>10

\* A score is a number.
LEMMA ScoreType ==
  ASSUME Fusing, NEW c
  PROVE  RrfScore(c) \in Nat
<1>1. PICK it : IsSum(it, Contributions(c), Hits(c)) /\ RrfScore(c) = it[Hits(c)]
  BY ScoreIsSum
<1> QED
  BY <1>1 DEF IsSum

\* A chunk that is found by every search that finds b, and not behind it, has
\* no smaller score.
LEMMA ScoreMonotone ==
  ASSUME Fusing, NEW b, NEW c, \A q \in Hits(b) : q \in Hits(c) /\ Rank(q, c) <= Rank(q, b)
  PROVE  RrfScore(b) <= RrfScore(c)
<1>1. PICK jt : IsSum(jt, Contributions(b), Hits(b)) /\ RrfScore(b) = jt[Hits(b)]
  BY ScoreIsSum
<1>2. PICK it : IsSum(it, Contributions(c), Hits(c)) /\ RrfScore(c) = it[Hits(c)]
  BY ScoreIsSum
<1>3. Contributions(b) \in [Hits(b) -> Nat] /\ Contributions(c) \in [Hits(c) -> Nat]
  BY ContributionType DEF Contributions
<1>4. ASSUME NEW q \in Hits(b) PROVE Contributions(b)[q] <= Contributions(c)[q]
  <2>1. Rank(q, b) \in Nat \ {0} /\ Rank(q, c) \in Nat \ {0} /\ Rank(q, c) <= Rank(q, b)
    BY RankType DEF Hits
  <2>2. RrfK + Rank(q, b) \in Nat \ {0} /\ RrfK + Rank(q, c) \in Nat \ {0}
        /\ RrfK + Rank(q, c) <= RrfK + Rank(q, b)
    BY <2>1, ParametersType
  <2>3. Contribution(q, b) <= Contribution(q, c)
    BY <2>2, DivMonotone, ScaleType DEF Contribution
  <2> QED
    BY <2>3 DEF Contributions
<1>5. Hits(b) \in SUBSET Hits(c)
  OBVIOUS
<1> QED
  BY <1>1, <1>2, <1>3, <1>4, <1>5, HitsAreFinite, SumMonotone

-----------------------------------------------------------------------------
(* The order of fusion                                                     *)

\* The values of a function on a finite set are finitely many.
LEMMA ImageIsFinite ==
  ASSUME NEW S, IsFiniteSet(S), NEW f
  PROVE  IsFiniteSet({f[x] : x \in S})
<1> DEFINE T == {f[x] : x \in S}
<1> DEFINE g == [x \in S |-> f[x]]
<1>1. g \in Surjection(S, T)
  BY DEF Surjection
<1> HIDE DEF g, T
<1>2. IsFiniteSet(T)
  BY <1>1, FS_Surjection
<1> QED
  BY <1>2 DEF T

\* A set of numbers that is finite and not empty has a least and a greatest one.
LEMMA ExtremaExist ==
  ASSUME NEW S \in SUBSET Int, IsFiniteSet(S), S # {}
  PROVE  /\ Min(S) \in S /\ \A x \in S : Min(S) <= x
         /\ Max(S) \in S /\ \A x \in S : x <= Max(S)
<1> DEFINE G == {s \in SUBSET S : s # {} =>
                   /\ \E x \in s : \A y \in s : x <= y
                   /\ \E x \in s : \A y \in s : y <= x}
<1>1. ASSUME NEW s \in SUBSET S, \A t \in SUBSET s : t # s => t \in G PROVE s \in G
  <2> SUFFICES ASSUME s # {}
               PROVE  /\ \E x \in s : \A y \in s : x <= y
                      /\ \E x \in s : \A y \in s : y <= x
    OBVIOUS
  <2>1. PICK z \in s : TRUE
    OBVIOUS
  <2> DEFINE t == s \ {z}
  <2>2. t \in G
    BY <1>1
  <2>3. \A y \in s : y = z \/ y \in t
    OBVIOUS
  <2>4. z \in Int /\ \A y \in t : y \in Int
    OBVIOUS
  <2>5. CASE t = {}
    <3>1. \A y \in s : y = z
      BY <2>3, <2>5
    <3> QED
      BY <2>1, <2>4, <3>1
  <2>6. CASE t # {}
    <3>1. PICK l \in t : \A y \in t : l <= y
      BY <2>2, <2>6
    <3>2. PICK h \in t : \A y \in t : y <= h
      BY <2>2, <2>6
    <3>3. l \in s /\ h \in s /\ l \in Int /\ h \in Int
      OBVIOUS
    <3> HIDE DEF t
    <3>4. \E x \in s : \A y \in s : x <= y
      <4>1. CASE z <= l
        <5>1. \A y \in s : z <= y
          BY <2>3, <2>4, <3>1, <3>3, <4>1
        <5> QED
          BY <5>1
      <4>2. CASE l <= z
        <5>1. \A y \in s : l <= y
          BY <2>3, <2>4, <3>1, <3>3, <4>2
        <5> QED
          BY <3>3, <5>1
      <4> QED
        BY <2>4, <3>3, <4>1, <4>2
    <3>5. \E x \in s : \A y \in s : y <= x
      <4>1. CASE h <= z
        <5>1. \A y \in s : y <= z
          BY <2>3, <2>4, <3>2, <3>3, <4>1
        <5> QED
          BY <5>1
      <4>2. CASE z <= h
        <5>1. \A y \in s : y <= h
          BY <2>3, <2>4, <3>2, <3>3, <4>2
        <5> QED
          BY <3>3, <5>1
      <4> QED
        BY <2>4, <3>3, <4>1, <4>2
    <3> QED
      BY <3>4, <3>5
  <2> QED
    BY <2>5, <2>6
<1> HIDE DEF G
<1>2. S \in G
  BY <1>1, FiniteSetInduction
<1>3. \E x \in S : \A y \in S : x <= y
  BY <1>2 DEF G
<1>4. \E x \in S : \A y \in S : x >= y
  <2>1. PICK x \in S : \A y \in S : y <= x
    BY <1>2 DEF G
  <2>2. \A y \in S : x >= y
    BY <2>1
  <2> QED
    BY <2>2
<1>5. Max(S) \in S /\ \A y \in S : Max(S) >= y
  BY <1>4 DEF Max
<1>6. \A y \in S : y <= Max(S)
  BY <1>5
<1> QED
  BY <1>3, <1>5, <1>6 DEF Min

\* A found chunk has an occurrence that goes before its others.
LEMMA BestOccurrenceType ==
  ASSUME Fusing, NEW c \in Found
  PROVE  BestOccurrence(c) \in Hits(c)
<1> DEFINE H == Hits(c)
<1> DEFINE r(q) == Rank(q, c)
<1> DEFINE s(q) == -Candidate(q, c).similarity
<1>1. H # {} /\ IsFiniteSet(H) /\ \A q \in H : q \in Int
  BY HitsAreFinite, ParametersType DEF Found, Queries
<1>2. \A q \in H : r(q) \in Int /\ s(q) \in Int
  BY RankType DEF Hits
<1> DEFINE R == {r(q) : q \in H}
<1>3. Min(R) \in R /\ \A x \in R : Min(R) <= x
  <2>1. IsFiniteSet(R)
    <3> DEFINE f == [q \in H |-> r(q)]
    <3>1. R = {f[q] : q \in H}
      OBVIOUS
    <3> HIDE DEF f, R, H
    <3> QED
      BY <1>1, <3>1, ImageIsFinite
  <2>2. R # {} /\ R \subseteq Int
    BY <1>1, <1>2
  <2> HIDE DEF R
  <2> QED
    BY <2>1, <2>2, ExtremaExist
<1> DEFINE H1 == {q \in H : r(q) = Min(R)}
<1>4. H1 # {} /\ H1 \subseteq H
  BY <1>3
<1> DEFINE S == {s(q) : q \in H1}
<1>5. Min(S) \in S /\ \A x \in S : Min(S) <= x
  <2>1. IsFiniteSet(H1)
    BY <1>1, <1>4, FS_Subset
  <2>2. S # {} /\ S \subseteq Int
    BY <1>2, <1>4
  <2>3. IsFiniteSet(S)
    <3> DEFINE f == [q \in H1 |-> s(q)]
    <3>1. S = {f[q] : q \in H1}
      OBVIOUS
    <3> HIDE DEF f, S, H1
    <3> QED
      BY <2>1, <3>1, ImageIsFinite
  <2> HIDE DEF S
  <2> QED
    BY <2>2, <2>3, ExtremaExist
<1> DEFINE H2 == {q \in H1 : s(q) = Min(S)}
<1>6. H2 # {} /\ H2 \subseteq H
  BY <1>5
<1> DEFINE best == Min(H2)
<1>7. best \in H2 /\ \A q \in H2 : best <= q
  <2>1. IsFiniteSet(H2) /\ H2 \subseteq Int
    BY <1>1, <1>6, FS_Subset
  <2> HIDE DEF H2
  <2> QED
    BY <1>6, <2>1, ExtremaExist
<1>8. ASSUME NEW p \in H \ {best}
      PROVE  Before(OccurrenceKey(best, c), OccurrenceKey(p, c))
  <2>1. best \in H /\ r(best) = Min(R) /\ s(best) = Min(S)
    BY <1>7
  <2>2. r(best) <= r(p) /\ r(best) \in Int /\ r(p) \in Int
    BY <1>2, <1>3, <2>1
  <2>3. r(p) = r(best) => s(best) <= s(p) /\ s(best) \in Int /\ s(p) \in Int
    BY <1>2, <1>5, <2>1
  <2>4. r(p) = r(best) /\ s(p) = s(best) => best < p
    <3>1. p \in Int /\ best \in Int
      BY <1>1, <2>1
    <3>2. r(p) = r(best) /\ s(p) = s(best) => p \in H2
      BY <2>1
    <3>3. p \in H2 => best <= p
      BY <1>7
    <3> HIDE DEF best, H2
    <3> QED
      BY <3>1, <3>2, <3>3
  <2>5. /\ OccurrenceKey(best, c) = <<r(best), s(best), best>>
        /\ OccurrenceKey(p, c) = <<r(p), s(p), p>>
    BY DEF OccurrenceKey
  <2> HIDE DEF r, s, best, R, S, H, H1, H2
  <2>6. CASE r(best) < r(p)
    BY <2>5, <2>6 DEF Before
  <2>7. CASE r(best) = r(p) /\ s(best) < s(p)
    BY <2>5, <2>7 DEF Before
  <2>8. CASE r(best) = r(p) /\ s(best) = s(p)
    BY <2>4, <2>5, <2>8 DEF Before
  <2> QED
    BY <2>2, <2>3, <2>6, <2>7, <2>8
<1>9. \E q \in Hits(c) : \A p \in Hits(c) \ {q} : Before(OccurrenceKey(q, c), OccurrenceKey(p, c))
  <2>1. best \in H
    BY <1>7
  <2> HIDE DEF best
  <2> QED
    BY <1>8, <2>1
<1> QED
  BY <1>9 DEF BestOccurrence

\* The lexicographic order of keys with five places.
LEMMA BeforeFive ==
  ASSUME NEW k, NEW l, DOMAIN k = {1, 2, 3, 4, 5}
  PROVE  Before(k, l)
         <=> \/ k[1] < l[1]
             \/ k[1] = l[1] /\ k[2] < l[2]
             \/ k[1] = l[1] /\ k[2] = l[2] /\ k[3] < l[3]
             \/ k[1] = l[1] /\ k[2] = l[2] /\ k[3] = l[3] /\ k[4] < l[4]
             \/ k[1] = l[1] /\ k[2] = l[2] /\ k[3] = l[3] /\ k[4] = l[4] /\ k[5] < l[5]
<1> DEFINE At(i) == k[i] < l[i] /\ \A j \in 1..i - 1 : k[j] = l[j]
<1>1. Before(k, l) <=> At(1) \/ At(2) \/ At(3) \/ At(4) \/ At(5)
  BY DEF Before
<1>2. 1..1 - 1 = {} /\ 1..2 - 1 = {1} /\ 1..3 - 1 = {1, 2} /\ 1..4 - 1 = {1, 2, 3}
      /\ 1..5 - 1 = {1, 2, 3, 4}
  OBVIOUS
<1>3. At(1) <=> k[1] < l[1]
  BY Zenon, <1>2
<1>4. At(2) <=> k[1] = l[1] /\ k[2] < l[2]
  BY Zenon, <1>2
<1>5. At(3) <=> k[1] = l[1] /\ k[2] = l[2] /\ k[3] < l[3]
  BY Zenon, <1>2
<1>6. At(4) <=> k[1] = l[1] /\ k[2] = l[2] /\ k[3] = l[3] /\ k[4] < l[4]
  BY Zenon, <1>2
<1>7. At(5) <=> k[1] = l[1] /\ k[2] = l[2] /\ k[3] = l[3] /\ k[4] = l[4] /\ k[5] < l[5]
  BY Zenon, <1>2
<1> HIDE DEF At
<1> QED
  BY <1>1, <1>3, <1>4, <1>5, <1>6, <1>7

BestRank(c) == Min({Rank(q, c) : q \in Hits(c)})
BestSimilarity(c) == Max({Candidate(q, c).similarity : q \in Hits(c)})

\* A found chunk has a sort key of numbers; its second place is a rank it has.
LEMMA KeyType ==
  ASSUME Fusing, NEW c \in Found
  PROVE  /\ AggregateKey(c)
              = <<-RrfScore(c), BestRank(c), -BestSimilarity(c), BestOccurrence(c), c>>
         /\ RrfScore(c) \in Int /\ BestRank(c) \in Int /\ BestSimilarity(c) \in Int
         /\ BestOccurrence(c) \in Int /\ c \in Int
         /\ \E q \in Hits(c) : BestRank(c) = Rank(q, c)
         /\ \A q \in Hits(c) : BestRank(c) <= Rank(q, c)
<1> DEFINE H == Hits(c)
<1> DEFINE R == {Rank(q, c) : q \in H}
<1> DEFINE S == {Candidate(q, c).similarity : q \in H}
<1>1. H # {} /\ IsFiniteSet(H)
  BY HitsAreFinite DEF Found
<1>2. \A q \in H : Rank(q, c) \in Int /\ Candidate(q, c).similarity \in Int
  BY RankType DEF Hits
<1>3. BestRank(c) \in R /\ \A x \in R : BestRank(c) <= x
  <2>1. IsFiniteSet(R)
    <3> DEFINE f == [q \in H |-> Rank(q, c)]
    <3>1. R = {f[q] : q \in H}
      OBVIOUS
    <3> HIDE DEF f, R, H
    <3> QED
      BY <1>1, <3>1, ImageIsFinite
  <2>2. R # {} /\ R \subseteq Int
    BY <1>1, <1>2
  <2>3. BestRank(c) = Min(R)
    BY DEF BestRank
  <2> HIDE DEF R
  <2> QED
    BY <2>1, <2>2, <2>3, ExtremaExist
<1>4. BestSimilarity(c) \in S
  <2>1. IsFiniteSet(S)
    <3> DEFINE f == [q \in H |-> Candidate(q, c).similarity]
    <3>1. S = {f[q] : q \in H}
      OBVIOUS
    <3> HIDE DEF f, S, H
    <3> QED
      BY <1>1, <3>1, ImageIsFinite
  <2>2. S # {} /\ S \subseteq Int
    BY <1>1, <1>2
  <2>3. BestSimilarity(c) = Max(S)
    BY DEF BestSimilarity
  <2> HIDE DEF S
  <2> QED
    BY <2>1, <2>2, <2>3, ExtremaExist
<1>5. BestOccurrence(c) \in Int
  BY BestOccurrenceType, HitsAreFinite, ParametersType DEF Queries
<1>6. c \in Int
  BY RankingAssumption DEF RankingAssumption, Found
<1>7. RrfScore(c) \in Int
  BY ScoreType
<1> QED
  BY <1>2, <1>3, <1>4, <1>5, <1>6, <1>7 DEF AggregateKey, BestRank, BestSimilarity

\* What it takes to go first.
LEMMA BeatsExpanded ==
  ASSUME Fusing, NEW c \in Found, NEW b \in Found
  PROVE  Beats(c, b)
         <=> \/ RrfScore(b) < RrfScore(c)
             \/ /\ RrfScore(c) = RrfScore(b)
                /\ \/ BestRank(c) < BestRank(b)
                   \/ /\ BestRank(c) = BestRank(b)
                      /\ \/ BestSimilarity(b) < BestSimilarity(c)
                         \/ /\ BestSimilarity(c) = BestSimilarity(b)
                            /\ \/ BestOccurrence(c) < BestOccurrence(b)
                               \/ BestOccurrence(c) = BestOccurrence(b) /\ c < b
<1> DEFINE k1 == -RrfScore(c)
<1> DEFINE k2 == BestRank(c)
<1> DEFINE k3 == -BestSimilarity(c)
<1> DEFINE k4 == BestOccurrence(c)
<1> DEFINE l1 == -RrfScore(b)
<1> DEFINE l2 == BestRank(b)
<1> DEFINE l3 == -BestSimilarity(b)
<1> DEFINE l4 == BestOccurrence(b)
<1>1. /\ k1 \in Int /\ k2 \in Int /\ k3 \in Int /\ k4 \in Int /\ c \in Int
      /\ l1 \in Int /\ l2 \in Int /\ l3 \in Int /\ l4 \in Int /\ b \in Int
  BY KeyType
<1>2. Beats(c, b) <=> Before(<<k1, k2, k3, k4, c>>, <<l1, l2, l3, l4, b>>)
  BY KeyType DEF Beats
<1>3. (k1 < l1 <=> RrfScore(b) < RrfScore(c)) /\ (k1 = l1 <=> RrfScore(c) = RrfScore(b))
      /\ (k3 < l3 <=> BestSimilarity(b) < BestSimilarity(c))
      /\ (k3 = l3 <=> BestSimilarity(c) = BestSimilarity(b))
  BY KeyType
<1> HIDE DEF k1, k2, k3, k4, l1, l2, l3, l4
<1>4. Before(<<k1, k2, k3, k4, c>>, <<l1, l2, l3, l4, b>>)
      <=> \/ k1 < l1
          \/ k1 = l1 /\ k2 < l2
          \/ k1 = l1 /\ k2 = l2 /\ k3 < l3
          \/ k1 = l1 /\ k2 = l2 /\ k3 = l3 /\ k4 < l4
          \/ k1 = l1 /\ k2 = l2 /\ k3 = l3 /\ k4 = l4 /\ c < b
  <2> DEFINE k == <<k1, k2, k3, k4, c>>
  <2> DEFINE l == <<l1, l2, l3, l4, b>>
  <2>1. DOMAIN k = {1, 2, 3, 4, 5}
    OBVIOUS
  <2>2. k[1] = k1 /\ k[2] = k2 /\ k[3] = k3 /\ k[4] = k4 /\ k[5] = c
        /\ l[1] = l1 /\ l[2] = l2 /\ l[3] = l3 /\ l[4] = l4 /\ l[5] = b
    OBVIOUS
  <2> HIDE DEF k, l
  <2>3. Before(k, l) <=> \/ k[1] < l[1]
                         \/ k[1] = l[1] /\ k[2] < l[2]
                         \/ k[1] = l[1] /\ k[2] = l[2] /\ k[3] < l[3]
                         \/ k[1] = l[1] /\ k[2] = l[2] /\ k[3] = l[3] /\ k[4] < l[4]
                         \/ k[1] = l[1] /\ k[2] = l[2] /\ k[3] = l[3] /\ k[4] = l[4]
                            /\ k[5] < l[5]
    BY <2>1, BeforeFive
  <2> QED
    BY <2>2, <2>3 DEF k, l
<1> QED
  BY <1>2, <1>3, <1>4 DEF k2, k4, l2, l4

\* The order of fusion is a strict total order of the found chunks.
LEMMA BeatsIsAnOrder ==
  ASSUME Fusing
  PROVE  /\ \A c \in Found : ~Beats(c, c)
         /\ \A a, b, c \in Found : Beats(a, b) /\ Beats(b, c) => Beats(a, c)
         /\ \A b, c \in Found : b # c => Beats(b, c) \/ Beats(c, b)
<1>1. \A c \in Found : RrfScore(c) \in Int /\ BestRank(c) \in Int /\ BestSimilarity(c) \in Int
                       /\ BestOccurrence(c) \in Int /\ c \in Int
  BY KeyType
<1>2. ASSUME NEW c \in Found PROVE ~Beats(c, c)
  BY <1>1, BeatsExpanded
<1>3. ASSUME NEW a \in Found, NEW b \in Found, NEW c \in Found, Beats(a, b), Beats(b, c)
      PROVE  Beats(a, c)
  BY <1>1, <1>3, BeatsExpanded
<1>4. ASSUME NEW b \in Found, NEW c \in Found, b # c
      PROVE  Beats(b, c) \/ Beats(c, b)
  BY <1>1, <1>4, BeatsExpanded
<1> QED
  BY <1>2, <1>3, <1>4

\* A chunk ranked higher by every search that found the other goes first.
LEMMA BetterEverywhereBeats ==
  ASSUME Fusing, NEW b \in Found, NEW c \in Found,
         \A q \in Hits(b) : q \in Hits(c) /\ Rank(q, c) < Rank(q, b)
  PROVE  Beats(c, b)
<1>1. \A q \in Hits(b) : Rank(q, b) \in Int /\ Rank(q, c) \in Int
  BY RankType DEF Hits
<1>2. RrfScore(b) <= RrfScore(c)
  <2>1. \A q \in Hits(b) : q \in Hits(c) /\ Rank(q, c) <= Rank(q, b)
    BY <1>1
  <2> QED
    BY <2>1, ScoreMonotone
<1>3. BestRank(c) < BestRank(b)
  <2>1. PICK q \in Hits(b) : BestRank(b) = Rank(q, b)
    BY KeyType
  <2>2. BestRank(c) <= Rank(q, c) /\ Rank(q, c) < Rank(q, b) /\ BestRank(c) \in Int
    BY KeyType
  <2> QED
    BY <1>1, <2>1, <2>2
<1>4. RrfScore(b) \in Int /\ RrfScore(c) \in Int /\ BestRank(b) \in Int /\ BestRank(c) \in Int
  BY KeyType
<1> QED
  BY <1>2, <1>3, <1>4, BeatsExpanded

-----------------------------------------------------------------------------
(* Sorting                                                                 *)

Behind(S, c) == {b \in S : Beats(b, c)}

\* The searches found finitely many chunks.
LEMMA FoundIsFinite == IsFiniteSet(Found) /\ Found \subseteq Chunks
BY RankingAssumption, FS_Subset DEF RankingAssumption, Found

\* Fewer chunks beat the better of two.
LEMMA PlacesDiffer ==
  ASSUME Fusing, NEW S \in SUBSET Found, NEW b \in S, NEW c \in S, Beats(b, c)
  PROVE  /\ Cardinality(Behind(S, b)) < Cardinality(Behind(S, c))
         /\ Cardinality(Behind(S, b)) \in Nat /\ Cardinality(Behind(S, c)) \in Nat
<1>1. Behind(S, b) \subseteq Behind(S, c) /\ b \in Behind(S, c) /\ b \notin Behind(S, b)
  BY BeatsIsAnOrder DEF Behind
<1>2. IsFiniteSet(Behind(S, c))
  BY FoundIsFinite, FS_Subset DEF Behind
<1>3. IsFiniteSet(Behind(S, b)) /\ Cardinality(Behind(S, b)) <= Cardinality(Behind(S, c))
      /\ Cardinality(Behind(S, b)) # Cardinality(Behind(S, c))
  BY <1>1, <1>2, FS_Subset
<1> QED
  BY <1>2, <1>3, FS_CardinalityType

\* The number of chunks that beat a chunk tells its place.
LEMMA PlaceIsUnique ==
  ASSUME Fusing
  PROVE  \A n \in 1..Cardinality(Found) :
           \E c \in Found : Cardinality(Behind(Found, c)) = n - 1
<1> DEFINE m == Cardinality(Found)
<1> DEFINE T == 0..m - 1
<1> DEFINE f == [c \in Found |-> Cardinality(Behind(Found, c))]
<1>1. m \in Nat
  BY FoundIsFinite, FS_CardinalityType
<1>2. ASSUME NEW c \in Found PROVE f[c] \in T
  <2>1. Behind(Found, c) \subseteq Found /\ c \notin Behind(Found, c)
    BY BeatsIsAnOrder DEF Behind
  <2>2. Cardinality(Behind(Found, c)) <= m /\ Cardinality(Behind(Found, c)) # m
        /\ IsFiniteSet(Behind(Found, c))
    BY <2>1, FoundIsFinite, FS_Subset
  <2>3. Cardinality(Behind(Found, c)) \in Nat
    BY <2>2, FS_CardinalityType
  <2> HIDE DEF m
  <2> QED
    BY <1>1, <2>2, <2>3
<1>3. ASSUME NEW b \in Found, NEW c \in Found, f[b] = f[c] PROVE b = c
  BY <1>3, BeatsIsAnOrder, PlacesDiffer
<1>4. f \in Injection(Found, T)
  <2>1. f \in [Found -> T]
    <3> HIDE DEF T
    <3> QED
      BY <1>2
  <2>2. IsInjective(f)
    <3>1. DOMAIN f = Found
      OBVIOUS
    <3> HIDE DEF f
    <3> QED
      BY <1>3, <3>1 DEF IsInjective
  <2> QED
    BY <2>1, <2>2 DEF Injection
<1>5. IsFiniteSet(T) /\ Cardinality(T) = m
  <2> HIDE DEF m
  <2>1. IsFiniteSet(T) /\ Cardinality(T) = IF 0 > m - 1 THEN 0 ELSE (m - 1) - 0 + 1
    BY <1>1, FS_Interval
  <2> QED
    BY <1>1, <2>1
<1>6. f \in Surjection(Found, T)
  <2> HIDE DEF f, T
  <2> QED
    BY <1>4, <1>5, FS_Injection
<1>7. \A n \in T : \E c \in Found : f[c] = n
  <2> HIDE DEF f, T
  <2> QED
    BY <1>6 DEF Surjection
<1> SUFFICES ASSUME NEW n \in 1..m PROVE \E c \in Found : Cardinality(Behind(Found, c)) = n - 1
  OBVIOUS
<1>8. n - 1 \in T
  <2> HIDE DEF m
  <2> QED
    BY <1>1
<1> QED
  BY <1>7, <1>8

\* The chunks of s stand in the order of fusion.
Sorted(s) == \A i, j \in DOMAIN s : i < j => Beats(s[i], s[j])

\* The fusion order lists every chunk found, best first.
LEMMA OrderedIsSorted ==
  ASSUME Fusing
  PROVE  /\ Ordered \in Seq(Found)
         /\ ToSet(Ordered) = Found
         /\ Sorted(Ordered)
<1> DEFINE m == Cardinality(Found)
<1>1. m \in Nat
  BY FoundIsFinite, FS_CardinalityType
<1>2. ASSUME NEW n \in 1..m
      PROVE  Ordered[n] \in Found /\ Cardinality(Behind(Found, Ordered[n])) = n - 1
  BY PlaceIsUnique DEF Ordered, Behind
<1>3. Ordered \in [1..m -> Found] /\ DOMAIN Ordered = 1..m
  BY <1>2 DEF Ordered
<1> HIDE DEF m
<1>4. Ordered \in Seq(Found)
  BY <1>1, <1>3
<1>5. ASSUME NEW c \in Found PROVE \E n \in 1..m : Ordered[n] = c
  <2> DEFINE k == Cardinality(Behind(Found, c))
  <2>1. Behind(Found, c) \subseteq Found /\ c \notin Behind(Found, c)
    BY BeatsIsAnOrder DEF Behind
  <2>2. k \in Nat /\ k <= m /\ k # m
    BY <2>1, FoundIsFinite, FS_Subset, FS_CardinalityType DEF m
  <2>3. k + 1 \in 1..m /\ (k + 1) - 1 = k
    BY <1>1, <2>2
  <2>4. Ordered[k + 1] \in Found /\ Cardinality(Behind(Found, Ordered[k + 1])) = k
    BY <1>2, <2>3
  <2>5. Ordered[k + 1] = c
    BY <2>4, BeatsIsAnOrder, PlacesDiffer
  <2> QED
    BY <2>3, <2>5
<1>6. ToSet(Ordered) = Found
  BY <1>2, <1>3, <1>5 DEF ToSet
<1>7. ASSUME NEW i \in 1..m, NEW j \in 1..m, i < j PROVE Beats(Ordered[i], Ordered[j])
  <2>1. Ordered[i] \in Found /\ Ordered[j] \in Found
        /\ Cardinality(Behind(Found, Ordered[i])) = i - 1
        /\ Cardinality(Behind(Found, Ordered[j])) = j - 1
    BY <1>2
  <2>2. Ordered[i] # Ordered[j]
    BY <1>1, <1>7, <2>1
  <2>3. ~Beats(Ordered[j], Ordered[i])
    BY <1>1, <1>7, <2>1, PlacesDiffer
  <2> QED
    BY <2>1, <2>2, <2>3, BeatsIsAnOrder
<1> QED
  BY <1>3, <1>4, <1>6, <1>7 DEF Sorted

-----------------------------------------------------------------------------
(* Folds over sequences                                                    *)

Largest(S) == [s \in SUBSET S |-> Max(s)]

\* What FoldLeft chooses.
LEMMA LargestChooses ==
  ASSUME NEW n \in Nat
  PROVE  /\ IsFiniteSet(1..n)
         /\ \A s \in SUBSET (1..n) : s # {} => Max(s) \in s /\ Largest(1..n)[s] = Max(s)
<1>1. IsFiniteSet(1..n)
  BY FS_Interval
<1>2. ASSUME NEW s \in SUBSET (1..n), s # {} PROVE Max(s) \in s
  <2>1. IsFiniteSet(s)
    BY <1>1, FS_Subset
  <2>2. s \in SUBSET Int
    OBVIOUS
  <2> QED
    BY <1>2, <2>1, <2>2, ExtremaExist
<1> QED
  BY <1>1, <1>2 DEF Largest

\* The last of the first i numbers.
LEMMA MaxOfInterval ==
  ASSUME NEW i \in Nat \ {0}
  PROVE  Max(1..i) = i /\ (1..i) \ {i} = 1..i - 1
<1>1. Max(1..i) \in 1..i /\ i <= Max(1..i)
  <2>1. 1..i \in SUBSET Int /\ IsFiniteSet(1..i) /\ i \in 1..i
    BY FS_Interval
  <2> QED
    BY <2>1, ExtremaExist
<1> QED
  BY <1>1

Known(kept) == {ContentOf[b] : b \in ToSet(kept)}

\* The loop of UniqueContent, chunk by chunk.
LEMMA UniqueContentSteps ==
  ASSUME NEW S, NEW chunks \in Seq(S)
  PROVE  \E kept \in [0..Len(chunks) -> Seq(S)] :
           /\ kept[0] = <<>>
           /\ \A i \in 1..Len(chunks) :
                kept[i] = IF ContentOf[chunks[i]] \in Known(kept[i - 1])
                          THEN kept[i - 1] ELSE Append(kept[i - 1], chunks[i])
           /\ UniqueContent(chunks) = kept[Len(chunks)]
<1> DEFINE n == Len(chunks)
<1> DEFINE D == 1..n
<1> DEFINE Keep(kept, c) == IF ContentOf[c] \in {ContentOf[b] : b \in ToSet(kept)}
                            THEN kept ELSE Append(kept, c)
<1> DEFINE Body(it, s) == IF s = {} THEN <<>>
                          ELSE LET x == Max(s) IN Keep(it[s \ {x}], chunks[x])
<1> DEFINE fold == CHOOSE it : it = [s \in SUBSET DOMAIN chunks |-> Body(it, s)]
<1>1. UniqueContent(chunks) = fold[DOMAIN chunks]
  BY Zenon DEF UniqueContent, FoldLeft, MapThenFoldSet
<1>2. n \in Nat /\ DOMAIN chunks = D /\ \A i \in D : chunks[i] \in S
  OBVIOUS
<1>3. \A kept \in Seq(S), c \in S : Keep(kept, c) \in Seq(S)
  OBVIOUS
<1> HIDE DEF Keep
<1> DEFINE step == [p \in D \X Seq(S) |-> Keep(p[2], chunks[p[1]])]
<1>4. step \in [D \X Seq(S) -> Seq(S)]
  <2> HIDE DEF D
  <2> QED
    BY <1>2, <1>3
<1>5. PICK it : IsFold(it, D, Largest(D), Seq(S), <<>>, step)
  <2>1. <<>> \in Seq(S) /\ IsFiniteSet(D) /\ \A s \in SUBSET D : s # {} => Largest(D)[s] \in s
    BY <1>2, LargestChooses
  <2> HIDE DEF step, D
  <2> QED
    BY <1>4, <2>1, SetFoldExists
<1>6. ASSUME NEW s \in SUBSET D PROVE it[s] = Body(it, s)
  <2>1. CASE s = {}
    BY <1>5, <2>1 DEF IsFold
  <2>2. CASE s # {}
    <3>1. Max(s) \in D /\ Largest(D)[s] = Max(s) /\ s \ {Max(s)} \in SUBSET D
      BY <1>2, <2>2, LargestChooses
    <3> HIDE DEF D
    <3>2. it[s \ {Max(s)}] \in Seq(S)
      BY <1>5, <3>1 DEF IsFold
    <3>3. step[<<Max(s), it[s \ {Max(s)}]>>] = Keep(it[s \ {Max(s)}], chunks[Max(s)])
      BY <3>1, <3>2
    <3> HIDE DEF step
    <3>4. it[s] = step[<<Max(s), it[s \ {Max(s)}]>>]
      BY <1>5, <2>2, <3>1 DEF IsFold
    <3> QED
      BY <2>2, <3>3, <3>4
  <2> QED
    BY <2>1, <2>2
<1>7. it = [s \in SUBSET DOMAIN chunks |-> Body(it, s)]
  <2> HIDE DEF Body, D, step
  <2> QED
    BY <1>2, <1>5, <1>6 DEF IsFold
<1>8. fold = [s \in SUBSET DOMAIN chunks |-> Body(fold, s)]
  <2> HIDE DEF Body, D, step
  <2> QED
    BY <1>7
<1> HIDE DEF fold, D, step
<1> DEFINE kept == [i \in 0..n |-> fold[1..i]]
<1>9. kept[0] = <<>>
  <2>1. 1..0 = {} /\ {} \in SUBSET DOMAIN chunks /\ 0 \in 0..n
    BY <1>2
  <2>2. fold[{}] = Body(fold, {})
    BY <1>8, <2>1
  <2> QED
    BY <2>1, <2>2
<1>10. ASSUME NEW i \in 1..n PROVE kept[i] = Keep(kept[i - 1], chunks[i])
  <2>1. i \in Nat \ {0} /\ i \in 0..n /\ i - 1 \in 0..n /\ 1..i \in SUBSET D /\ i \in 1..i
    BY <1>2 DEF D
  <2>2. fold[1..i] = Body(fold, 1..i)
    <3> HIDE DEF Body
    <3> QED
      BY <1>2, <1>8, <2>1
  <2>3. Max(1..i) = i /\ (1..i) \ {i} = 1..i - 1
    BY <2>1, MaxOfInterval
  <2>4. 1..i # {}
    BY <2>1
  <2>5. fold[1..i] = Keep(fold[1..i - 1], chunks[i])
    BY <2>2, <2>3, <2>4
  <2> QED
    BY <2>1, <2>5
<1>11. \A i \in 0..n : kept[i] \in Seq(S)
  <2> DEFINE T == {i \in Nat : i <= n => kept[i] \in Seq(S)}
  <2> HIDE DEF kept
  <2>1. 0 \in T
    <3>1. <<>> \in Seq(S) /\ 0 \in Nat
      OBVIOUS
    <3> QED
      BY <1>9, <3>1
  <2>2. ASSUME NEW i \in Nat, i \in T PROVE i + 1 \in T
    <3> SUFFICES ASSUME i + 1 <= n PROVE kept[i + 1] \in Seq(S)
      OBVIOUS
    <3>1. i + 1 \in 1..n /\ (i + 1) - 1 = i /\ i <= n
      BY <1>2
    <3>2. kept[i] \in Seq(S)
      BY <2>2, <3>1
    <3>3. chunks[i + 1] \in S
      BY <1>2, <3>1 DEF D
    <3> HIDE DEF n
    <3> QED
      BY <1>3, <1>10, <3>1, <3>2, <3>3
  <2> HIDE DEF T
  <2>3. \A i \in Nat : i \in T
    BY <2>1, <2>2, NatSetInduction
  <2> QED
    BY <1>2, <2>3 DEF T
<1>12. UniqueContent(chunks) = kept[n]
  BY <1>1, <1>2 DEF D
<1>13. kept \in [0..n -> Seq(S)]
  <2>1. kept = [i \in 0..n |-> kept[i]]
    OBVIOUS
  <2> HIDE DEF kept
  <2> QED
    BY <1>11, <2>1
<1>14. \A i \in 1..n : kept[i] = IF ContentOf[chunks[i]] \in Known(kept[i - 1])
                                 THEN kept[i - 1] ELSE Append(kept[i - 1], chunks[i])
  <2> HIDE DEF kept
  <2> QED
    BY <1>10 DEF Keep, Known
<1> HIDE DEF kept
<1> QED
  BY <1>9, <1>12, <1>13, <1>14

OfDocument(kept, d) == {b \in ToSet(kept) : DocumentOf[b] = d}
IsFull(kept, d) == Cardinality(OfDocument(kept, d)) >= MaxChunksPerDocument

\* The loop of WithinDocumentCap, chunk by chunk.
LEMMA WithinDocumentCapSteps ==
  ASSUME NEW S, NEW chunks \in Seq(S)
  PROVE  \E kept \in [0..Len(chunks) -> Seq(S)] :
           /\ kept[0] = <<>>
           /\ \A i \in 1..Len(chunks) :
                kept[i] = IF IsFull(kept[i - 1], DocumentOf[chunks[i]])
                          THEN kept[i - 1] ELSE Append(kept[i - 1], chunks[i])
           /\ WithinDocumentCap(chunks) = kept[Len(chunks)]
<1> DEFINE n == Len(chunks)
<1> DEFINE D == 1..n
<1> DEFINE Keep(kept, c) == IF Cardinality({b \in ToSet(kept) : DocumentOf[b] = DocumentOf[c]})
                                 >= MaxChunksPerDocument
                            THEN kept ELSE Append(kept, c)
<1> DEFINE Body(it, s) == IF s = {} THEN <<>>
                          ELSE LET x == Max(s) IN Keep(it[s \ {x}], chunks[x])
<1> DEFINE fold == CHOOSE it : it = [s \in SUBSET DOMAIN chunks |-> Body(it, s)]
<1>1. WithinDocumentCap(chunks) = fold[DOMAIN chunks]
  BY Zenon DEF WithinDocumentCap, FoldLeft, MapThenFoldSet
<1>2. n \in Nat /\ DOMAIN chunks = D /\ \A i \in D : chunks[i] \in S
  OBVIOUS
<1>3. \A kept \in Seq(S), c \in S : Keep(kept, c) \in Seq(S)
  OBVIOUS
<1> HIDE DEF Keep
<1> DEFINE step == [p \in D \X Seq(S) |-> Keep(p[2], chunks[p[1]])]
<1>4. step \in [D \X Seq(S) -> Seq(S)]
  <2> HIDE DEF D
  <2> QED
    BY <1>2, <1>3
<1>5. PICK it : IsFold(it, D, Largest(D), Seq(S), <<>>, step)
  <2>1. <<>> \in Seq(S) /\ IsFiniteSet(D) /\ \A s \in SUBSET D : s # {} => Largest(D)[s] \in s
    BY <1>2, LargestChooses
  <2> HIDE DEF step, D
  <2> QED
    BY <1>4, <2>1, SetFoldExists
<1>6. ASSUME NEW s \in SUBSET D PROVE it[s] = Body(it, s)
  <2>1. CASE s = {}
    BY <1>5, <2>1 DEF IsFold
  <2>2. CASE s # {}
    <3>1. Max(s) \in D /\ Largest(D)[s] = Max(s) /\ s \ {Max(s)} \in SUBSET D
      BY <1>2, <2>2, LargestChooses
    <3> HIDE DEF D
    <3>2. it[s \ {Max(s)}] \in Seq(S)
      BY <1>5, <3>1 DEF IsFold
    <3>3. step[<<Max(s), it[s \ {Max(s)}]>>] = Keep(it[s \ {Max(s)}], chunks[Max(s)])
      BY <3>1, <3>2
    <3> HIDE DEF step
    <3>4. it[s] = step[<<Max(s), it[s \ {Max(s)}]>>]
      BY <1>5, <2>2, <3>1 DEF IsFold
    <3> QED
      BY <2>2, <3>3, <3>4
  <2> QED
    BY <2>1, <2>2
<1>7. it = [s \in SUBSET DOMAIN chunks |-> Body(it, s)]
  <2> HIDE DEF Body, D, step
  <2> QED
    BY <1>2, <1>5, <1>6 DEF IsFold
<1>8. fold = [s \in SUBSET DOMAIN chunks |-> Body(fold, s)]
  <2> HIDE DEF Body, D, step
  <2> QED
    BY <1>7
<1> HIDE DEF fold, D, step
<1> DEFINE kept == [i \in 0..n |-> fold[1..i]]
<1>9. kept[0] = <<>>
  <2>1. 1..0 = {} /\ {} \in SUBSET DOMAIN chunks /\ 0 \in 0..n
    BY <1>2
  <2>2. fold[{}] = Body(fold, {})
    BY <1>8, <2>1
  <2> QED
    BY <2>1, <2>2
<1>10. ASSUME NEW i \in 1..n PROVE kept[i] = Keep(kept[i - 1], chunks[i])
  <2>1. i \in Nat \ {0} /\ i \in 0..n /\ i - 1 \in 0..n /\ 1..i \in SUBSET D /\ i \in 1..i
    BY <1>2 DEF D
  <2>2. fold[1..i] = Body(fold, 1..i)
    <3> HIDE DEF Body
    <3> QED
      BY <1>2, <1>8, <2>1
  <2>3. Max(1..i) = i /\ (1..i) \ {i} = 1..i - 1
    BY <2>1, MaxOfInterval
  <2>4. 1..i # {}
    BY <2>1
  <2>5. fold[1..i] = Keep(fold[1..i - 1], chunks[i])
    BY <2>2, <2>3, <2>4
  <2> QED
    BY <2>1, <2>5
<1>11. \A i \in 0..n : kept[i] \in Seq(S)
  <2> DEFINE T == {i \in Nat : i <= n => kept[i] \in Seq(S)}
  <2> HIDE DEF kept
  <2>1. 0 \in T
    <3>1. <<>> \in Seq(S) /\ 0 \in Nat
      OBVIOUS
    <3> QED
      BY <1>9, <3>1
  <2>2. ASSUME NEW i \in Nat, i \in T PROVE i + 1 \in T
    <3> SUFFICES ASSUME i + 1 <= n PROVE kept[i + 1] \in Seq(S)
      OBVIOUS
    <3>1. i + 1 \in 1..n /\ (i + 1) - 1 = i /\ i <= n
      BY <1>2
    <3>2. kept[i] \in Seq(S)
      BY <2>2, <3>1
    <3>3. chunks[i + 1] \in S
      BY <1>2, <3>1 DEF D
    <3> HIDE DEF n
    <3> QED
      BY <1>3, <1>10, <3>1, <3>2, <3>3
  <2> HIDE DEF T
  <2>3. \A i \in Nat : i \in T
    BY <2>1, <2>2, NatSetInduction
  <2> QED
    BY <1>2, <2>3 DEF T
<1>12. WithinDocumentCap(chunks) = kept[n]
  BY <1>1, <1>2 DEF D
<1>13. kept \in [0..n -> Seq(S)]
  <2>1. kept = [i \in 0..n |-> kept[i]]
    OBVIOUS
  <2> HIDE DEF kept
  <2> QED
    BY <1>11, <2>1
<1>14. \A i \in 1..n : kept[i] = IF IsFull(kept[i - 1], DocumentOf[chunks[i]])
                                 THEN kept[i - 1] ELSE Append(kept[i - 1], chunks[i])
  <2> HIDE DEF kept
  <2> QED
    BY <1>10 DEF Keep, IsFull, OfDocument
<1> HIDE DEF kept
<1> QED
  BY <1>9, <1>12, <1>13, <1>14

-----------------------------------------------------------------------------
(* What fusion selects                                                     *)

\* The first k chunks of s.
Upto(s, k) == {s[i] : i \in 1..k}

\* A chunk that all others beat goes last.
LEMMA AppendLast ==
  ASSUME NEW S, NEW s \in Seq(S), NEW c \in S, Sorted(s), \A b \in ToSet(s) : Beats(b, c)
  PROVE  /\ Append(s, c) \in Seq(S)
         /\ ToSet(Append(s, c)) = ToSet(s) \union {c}
         /\ Sorted(Append(s, c))
<1> DEFINE t == Append(s, c)
<1>1. t \in Seq(S) /\ Len(s) \in Nat /\ DOMAIN s = 1..Len(s) /\ DOMAIN t = 1..Len(s) + 1
      /\ t[Len(s) + 1] = c /\ \A i \in 1..Len(s) : t[i] = s[i]
  OBVIOUS
<1> HIDE DEF t
<1>2. ToSet(t) = ToSet(s) \union {c}
  <2>1. \A i \in 1..Len(s) + 1 : i \in 1..Len(s) \/ i = Len(s) + 1
    BY <1>1
  <2>2. \A i \in 1..Len(s) : i \in 1..Len(s) + 1
    BY <1>1
  <2>3. Len(s) + 1 \in 1..Len(s) + 1
    BY <1>1
  <2> QED
    BY <1>1, <2>1, <2>2, <2>3 DEF ToSet
<1>3. ASSUME NEW i \in DOMAIN t, NEW j \in DOMAIN t, i < j PROVE Beats(t[i], t[j])
  <2>1. i \in 1..Len(s)
    BY <1>1, <1>3
  <2>2. CASE j \in 1..Len(s)
    BY <1>1, <1>3, <2>1, <2>2 DEF Sorted
  <2>3. CASE j = Len(s) + 1
    <3>1. s[i] \in ToSet(s)
      BY <1>1, <2>1 DEF ToSet
    <3> QED
      BY <1>1, <2>1, <2>3, <3>1
  <2> QED
    BY <1>1, <2>2, <2>3
<1> QED
  BY <1>1, <1>2, <1>3 DEF Sorted, t

\* One more chunk of a sorted list: those before it beat it.
LEMMA UptoNext ==
  ASSUME NEW S, NEW s \in Seq(S), Sorted(s), NEW k \in Nat, k + 1 <= Len(s)
  PROVE  /\ Upto(s, k + 1) = Upto(s, k) \union {s[k + 1]}
         /\ s[k + 1] \in S
         /\ \A b \in Upto(s, k) : Beats(b, s[k + 1])
<1>1. \A i \in 1..k : i \in 1..k + 1 /\ i \in 1..Len(s) /\ i < k + 1
  OBVIOUS
<1>2. \A i \in 1..k + 1 : i \in 1..k \/ i = k + 1
  OBVIOUS
<1>3. k + 1 \in 1..Len(s) /\ k + 1 \in 1..k + 1 /\ DOMAIN s = 1..Len(s)
  OBVIOUS
<1>4. Upto(s, k + 1) = Upto(s, k) \union {s[k + 1]}
  BY <1>1, <1>2, <1>3 DEF Upto
<1>5. \A b \in Upto(s, k) : Beats(b, s[k + 1])
  BY <1>1, <1>3 DEF Sorted, Upto
<1> QED
  BY <1>3, <1>4, <1>5

\* The first chunks of a list, from none to all.
LEMMA UptoAll ==
  ASSUME NEW S, NEW s \in Seq(S)
  PROVE  /\ Upto(s, 0) = {}
         /\ Upto(s, Len(s)) = ToSet(s)
         /\ \A k \in 0..Len(s) : Upto(s, k) \subseteq ToSet(s)
         /\ ToSet(s) \subseteq S
<1>1. DOMAIN s = 1..Len(s) /\ 1..0 = {} /\ \A k \in 0..Len(s) : 1..k \subseteq 1..Len(s)
  OBVIOUS
<1>2. \A i \in DOMAIN s : s[i] \in S
  OBVIOUS
<1> QED
  BY <1>1, <1>2 DEF Upto, ToSet

\* The chunk that stands for its text among those of S.
Foremost(S) == {c \in S : ~\E b \in S : ContentOf[b] = ContentOf[c] /\ Beats(b, c)}

\* Of sorted chunks, UniqueContent keeps the one that stands for each text, still
\* sorted.
LEMMA UniqueContentResult ==
  ASSUME Fusing, NEW s \in Seq(Found), Sorted(s)
  PROVE  /\ UniqueContent(s) \in Seq(Found)
         /\ ToSet(UniqueContent(s)) = Foremost(ToSet(s))
         /\ Sorted(UniqueContent(s))
<1> DEFINE n == Len(s)
<1>1. PICK kept \in [0..n -> Seq(Found)] :
        /\ kept[0] = <<>>
        /\ \A i \in 1..n : kept[i] = IF ContentOf[s[i]] \in Known(kept[i - 1])
                                     THEN kept[i - 1] ELSE Append(kept[i - 1], s[i])
        /\ UniqueContent(s) = kept[n]
  BY UniqueContentSteps
<1>2. n \in Nat
  OBVIOUS
<1> HIDE DEF n
<1> DEFINE Good(k) == /\ Sorted(kept[k])
                      /\ ToSet(kept[k]) = Foremost(Upto(s, k))
                      /\ \A c \in Upto(s, k) : ContentOf[c] \in Known(kept[k])
<1> DEFINE T == {k \in Nat : k <= n => Good(k)}
<1>3. 0 \in T
  <2>1. Upto(s, 0) = {} /\ 0 \in Nat
    BY UptoAll
  <2>2. ToSet(<<>>) = {} /\ Sorted(<<>>)
    BY DEF ToSet, Sorted
  <2> QED
    BY <1>1, <2>1, <2>2 DEF Foremost
<1>4. ASSUME NEW k \in Nat, k \in T PROVE k + 1 \in T
  <2> SUFFICES ASSUME k + 1 <= n PROVE Good(k + 1)
    OBVIOUS
  <2> DEFINE c == s[k + 1]
  <2>1. Good(k) /\ k + 1 \in 1..n /\ (k + 1) - 1 = k /\ k \in 0..n
    BY <1>2, <1>4
  <2>2. /\ Upto(s, k + 1) = Upto(s, k) \union {c}
        /\ c \in Found
        /\ \A b \in Upto(s, k) : Beats(b, c)
    BY UptoNext DEF n
  <2>3. Upto(s, k) \subseteq Found
    <3>1. Upto(s, k) \subseteq ToSet(s) /\ ToSet(s) \subseteq Found
      BY <2>1, UptoAll DEF n
    <3> QED
      BY <3>1
  <2>4. kept[k + 1] = IF ContentOf[c] \in Known(kept[k]) THEN kept[k] ELSE Append(kept[k], c)
    BY <1>1, <2>1
  <2>5. \A b \in Upto(s, k) : ~Beats(c, b)
    BY <2>2, <2>3, BeatsIsAnOrder
  <2>6. ~Beats(c, c)
    BY <2>2, BeatsIsAnOrder
  <2> HIDE DEF c
  <2>7. CASE ContentOf[c] \in Known(kept[k])
    <3>1. PICK b \in Upto(s, k) : ContentOf[b] = ContentOf[c]
      BY <2>1, <2>7 DEF Known, Foremost
    <3>2. Foremost(Upto(s, k + 1)) = Foremost(Upto(s, k))
      BY <2>2, <2>5, <3>1 DEF Foremost
    <3> QED
      BY <2>1, <2>2, <2>4, <2>7, <3>2
  <2>8. CASE ContentOf[c] \notin Known(kept[k])
    <3>1. \A b \in Upto(s, k) : ContentOf[b] # ContentOf[c]
      BY <2>1, <2>8
    <3>2. Foremost(Upto(s, k + 1)) = Foremost(Upto(s, k)) \union {c}
      BY <2>2, <2>6, <3>1 DEF Foremost
    <3>3. \A b \in ToSet(kept[k]) : Beats(b, c)
      BY <2>1, <2>2 DEF Foremost
    <3>4. kept[k] \in Seq(Found) /\ kept[k + 1] = Append(kept[k], c)
      BY <1>1, <2>1, <2>4, <2>8
    <3>5. Sorted(kept[k + 1]) /\ ToSet(kept[k + 1]) = ToSet(kept[k]) \union {c}
      BY <2>1, <2>2, <3>3, <3>4, AppendLast
    <3>6. \A b \in Upto(s, k + 1) : ContentOf[b] \in Known(kept[k + 1])
      BY <2>1, <2>2, <3>5 DEF Known
    <3> QED
      BY <2>1, <3>2, <3>5, <3>6
  <2> QED
    BY <2>7, <2>8
<1>5. n \in T
  <2> HIDE DEF T
  <2> QED
    BY <1>2, <1>3, <1>4, NatSetInduction
<1>6. Upto(s, n) = ToSet(s)
  BY UptoAll DEF n
<1>7. kept[n] \in Seq(Found)
  BY <1>1, <1>2
<1> QED
  BY <1>1, <1>2, <1>5, <1>6, <1>7

\* The chunks a cap leaves of sorted ones, and why a chunk is not among them.
LEMMA WithinDocumentCapResult ==
  ASSUME Fusing, NEW s \in Seq(Found), Sorted(s)
  PROVE  LET kept == WithinDocumentCap(s)
         IN  /\ kept \in Seq(Found)
             /\ ToSet(kept) \subseteq ToSet(s)
             /\ Sorted(kept)
             /\ \A d : Cardinality(OfDocument(kept, d)) <= MaxChunksPerDocument
             /\ \A c \in ToSet(s) \ ToSet(kept) :
                  /\ Cardinality(OfDocument(kept, DocumentOf[c])) = MaxChunksPerDocument
                  /\ \A b \in OfDocument(kept, DocumentOf[c]) : Beats(b, c)
<1> DEFINE n == Len(s)
<1> DEFINE M == MaxChunksPerDocument
<1>1. PICK kept \in [0..n -> Seq(Found)] :
        /\ kept[0] = <<>>
        /\ \A i \in 1..n : kept[i] = IF IsFull(kept[i - 1], DocumentOf[s[i]])
                                     THEN kept[i - 1] ELSE Append(kept[i - 1], s[i])
        /\ WithinDocumentCap(s) = kept[n]
  BY WithinDocumentCapSteps
<1>2. n \in Nat /\ M \in Nat
  BY ParametersType
<1> HIDE DEF n, M
<1> DEFINE Good(k) == /\ Sorted(kept[k])
                      /\ ToSet(kept[k]) \subseteq Upto(s, k)
                      /\ \A d : Cardinality(OfDocument(kept[k], d)) <= M
                      /\ \A c \in Upto(s, k) \ ToSet(kept[k]) :
                           /\ Cardinality(OfDocument(kept[k], DocumentOf[c])) = M
                           /\ \A b \in OfDocument(kept[k], DocumentOf[c]) : Beats(b, c)
<1> DEFINE T == {k \in Nat : k <= n => Good(k)}
<1>3. 0 \in T
  <2>1. Upto(s, 0) = {} /\ 0 \in Nat
    BY UptoAll
  <2>2. ToSet(<<>>) = {} /\ Sorted(<<>>) /\ \A d : OfDocument(<<>>, d) = {}
    BY DEF ToSet, Sorted, OfDocument
  <2>3. \A d : Cardinality(OfDocument(kept[0], d)) <= M
    <3> TAKE d
    <3>1. OfDocument(kept[0], d) = {}
      BY <1>1, <2>2
    <3>2. Cardinality({}) <= M
      BY <1>2, FS_EmptySet
    <3> QED
      BY <3>1, <3>2
  <2> QED
    BY <1>1, <2>1, <2>2, <2>3
<1>4. ASSUME NEW k \in Nat, k \in T PROVE k + 1 \in T
  <2> SUFFICES ASSUME k + 1 <= n PROVE Good(k + 1)
    OBVIOUS
  <2> DEFINE c == s[k + 1]
  <2> DEFINE Of(d) == OfDocument(kept[k], d)
  <2>1. Good(k) /\ k + 1 \in 1..n /\ (k + 1) - 1 = k /\ k \in 0..n
    BY <1>2, <1>4
  <2>2. /\ Upto(s, k + 1) = Upto(s, k) \union {c}
        /\ c \in Found
        /\ \A b \in Upto(s, k) : Beats(b, c)
    BY UptoNext DEF n
  <2>3. kept[k] \in Seq(Found) /\ ToSet(kept[k]) \subseteq Found
    <3>1. kept[k] \in Seq(Found)
      BY <1>1, <2>1
    <3> QED
      BY <3>1, UptoAll
  <2>4. kept[k + 1] = IF IsFull(kept[k], DocumentOf[c]) THEN kept[k] ELSE Append(kept[k], c)
    BY <1>1, <2>1
  <2>5. \A d : IsFiniteSet(Of(d)) /\ Cardinality(Of(d)) \in Nat
    <3> TAKE d
    <3>1. IsFiniteSet(Of(d))
      BY <2>3, FoundIsFinite, FS_Subset DEF OfDocument
    <3> QED
      BY <3>1, FS_CardinalityType
  <2> HIDE DEF c
  <2>6. CASE IsFull(kept[k], DocumentOf[c])
    <3>1. Cardinality(Of(DocumentOf[c])) = M
      BY <1>2, <2>1, <2>5, <2>6 DEF IsFull, M
    <3>2. \A b \in Of(DocumentOf[c]) : Beats(b, c)
      BY <2>1, <2>2 DEF OfDocument
    <3> QED
      BY <2>1, <2>2, <2>4, <2>6, <3>1, <3>2
  <2>7. CASE ~IsFull(kept[k], DocumentOf[c])
    <3>1. Cardinality(Of(DocumentOf[c])) < M
      BY <1>2, <2>5, <2>7 DEF IsFull, M
    <3>2. \A b \in ToSet(kept[k]) : Beats(b, c)
      BY <2>1, <2>2
    <3>3. kept[k + 1] = Append(kept[k], c)
      BY <2>4, <2>7
    <3>4. Sorted(kept[k + 1]) /\ ToSet(kept[k + 1]) = ToSet(kept[k]) \union {c}
      BY <2>1, <2>2, <2>3, <3>2, <3>3, AppendLast
    <3>5. ASSUME NEW d PROVE Cardinality(OfDocument(kept[k + 1], d)) <= M
      <4>1. CASE d = DocumentOf[c]
        <5>1. OfDocument(kept[k + 1], d) = Of(d) \union {c}
          BY <3>4, <4>1 DEF OfDocument
        <5>2. Cardinality(Of(d) \union {c}) <= Cardinality(Of(d)) + 1
          <6> DEFINE D == Of(d)
          <6>1. IsFiniteSet(D) /\ Cardinality(D) \in Nat
            BY <2>5
          <6> HIDE DEF D
          <6>2. Cardinality(D \union {c}) = IF c \in D THEN Cardinality(D) ELSE Cardinality(D) + 1
            BY <6>1, FS_AddElement
          <6>3. Cardinality(D \union {c}) <= Cardinality(D) + 1
            BY <6>1, <6>2
          <6> QED
            BY <6>3 DEF D
        <5>3. Cardinality(Of(d) \union {c}) \in Nat
          BY <2>5, FS_AddElement, FS_CardinalityType
        <5> QED
          BY <1>2, <2>5, <3>1, <4>1, <5>1, <5>2, <5>3
      <4>2. CASE d # DocumentOf[c]
        <5>1. OfDocument(kept[k + 1], d) = Of(d)
          BY <3>4, <4>2 DEF OfDocument
        <5> QED
          BY <2>1, <5>1
      <4> QED
        BY <4>1, <4>2
    <3>6. ASSUME NEW b \in Upto(s, k + 1) \ ToSet(kept[k + 1])
          PROVE  /\ Cardinality(OfDocument(kept[k + 1], DocumentOf[b])) = M
                 /\ \A a \in OfDocument(kept[k + 1], DocumentOf[b]) : Beats(a, b)
      <4>1. b \in Upto(s, k) \ ToSet(kept[k])
        BY <2>2, <3>4
      <4>2. /\ Cardinality(Of(DocumentOf[b])) = M
            /\ \A a \in Of(DocumentOf[b]) : Beats(a, b)
        BY <2>1, <4>1
      <4>3. DocumentOf[b] # DocumentOf[c]
        BY <1>2, <3>1, <4>2
      <4>4. OfDocument(kept[k + 1], DocumentOf[b]) = Of(DocumentOf[b])
        BY <3>4, <4>3 DEF OfDocument
      <4> QED
        BY <4>2, <4>4
    <3> QED
      BY <2>1, <2>2, <3>4, <3>5, <3>6
  <2> QED
    BY <2>6, <2>7
<1>5. n \in T
  <2> HIDE DEF T
  <2> QED
    BY <1>2, <1>3, <1>4, NatSetInduction
<1>6. Upto(s, n) = ToSet(s)
  BY UptoAll DEF n
<1>7. kept[n] \in Seq(Found)
  BY <1>1, <1>2
<1> QED
  BY <1>1, <1>2, <1>5, <1>6, <1>7 DEF M

\* The smaller of two numbers.
LEMMA MinOfTwo ==
  ASSUME NEW a \in Int, NEW b \in Int
  PROVE  Min({a, b}) = IF a <= b THEN a ELSE b
<1>1. {a, b} \in SUBSET Int /\ IsFiniteSet({a, b}) /\ {a, b} # {}
  <2>1. IsFiniteSet({a}) /\ {a, b} = {a} \union {b}
    BY FS_Singleton
  <2>2. IsFiniteSet({a, b})
    BY <2>1, FS_AddElement
  <2> QED
    BY <2>2
<1>2. Min({a, b}) \in {a, b} /\ Min({a, b}) <= a /\ Min({a, b}) <= b
  BY <1>1, ExtremaExist
<1> QED
  BY <1>2

\* The beginning of a sequence.
LEMMA CutType ==
  ASSUME NEW S, NEW s \in Seq(S), NEW L \in Nat
  PROVE  LET n == Min({L, Len(s)})
             t == SubSeq(s, 1, n)
         IN  /\ n \in Nat /\ n <= Len(s) /\ n <= L /\ (n = L \/ n = Len(s))
             /\ t \in Seq(S) /\ Len(t) = n /\ DOMAIN t = 1..n
             /\ \A i \in 1..n : t[i] = s[i]
<1> DEFINE n == Min({L, Len(s)})
<1>1. Len(s) \in Nat
  OBVIOUS
<1>2. n \in Nat /\ n <= Len(s) /\ n <= L /\ (n = L \/ n = Len(s))
  BY <1>1, MinOfTwo
<1> HIDE DEF n
<1> DEFINE t == SubSeq(s, 1, n)
<1>3. t \in Seq(S) /\ Len(t) = n
  BY <1>1, <1>2
<1>4. DOMAIN t = 1..n
  BY <1>3
<1>5. \A i \in 1..n : t[i] = s[i]
  BY <1>1, <1>2
<1> QED
  BY <1>2, <1>3, <1>4, <1>5 DEF n

\* Distinct values are as many as their places.
LEMMA DistinctCount ==
  ASSUME NEW s, NEW k \in Nat, \A i, j \in 1..k : s[i] = s[j] => i = j
  PROVE  Cardinality({s[i] : i \in 1..k}) = k
<1> DEFINE T == {s[i] : i \in 1..k}
<1> DEFINE f == [i \in 1..k |-> s[i]]
<1>1. IsFiniteSet(1..k) /\ Cardinality(1..k) = k
  <2>1. IsFiniteSet(1..k) /\ Cardinality(1..k) = IF 1 > k THEN 0 ELSE k - 1 + 1
    BY FS_Interval
  <2> QED
    BY <2>1
<1>2. f \in Surjection(1..k, T)
  BY DEF Surjection
<1>3. f \in Injection(1..k, T)
  <2>1. f \in [1..k -> T] /\ DOMAIN f = 1..k /\ \A i, j \in 1..k : f[i] = f[j] => i = j
    OBVIOUS
  <2> HIDE DEF f, T
  <2> QED
    BY <2>1 DEF Injection, IsInjective
<1> HIDE DEF f, T
<1>4. Cardinality(T) = Cardinality(1..k)
  BY <1>1, <1>2, <1>3, FS_Surjection
<1> QED
  BY <1>1, <1>4 DEF T

\* A sorted list names no chunk twice, and the chunks that beat its i-th one are
\* the i - 1 before it.
LEMMA SortedPlaces ==
  ASSUME Fusing, NEW s \in Seq(Found), Sorted(s)
  PROVE  /\ \A i, j \in DOMAIN s : s[i] = s[j] => i = j
         /\ \A i \in DOMAIN s :
              /\ Behind(ToSet(s), s[i]) = {s[j] : j \in 1..i - 1}
              /\ Cardinality(Behind(ToSet(s), s[i])) = i - 1
<1>1. DOMAIN s = 1..Len(s) /\ Len(s) \in Nat /\ \A i \in 1..Len(s) : s[i] \in Found
  OBVIOUS
<1>2. ASSUME NEW i \in DOMAIN s, NEW j \in DOMAIN s, s[i] = s[j] PROVE i = j
  <2>1. i \in Nat /\ j \in Nat
    BY <1>1
  <2>2. ~(i < j) /\ ~(j < i)
    BY <1>1, <1>2, BeatsIsAnOrder DEF Sorted
  <2> QED
    BY <2>1, <2>2
<1>3. ASSUME NEW i \in DOMAIN s
      PROVE  /\ Behind(ToSet(s), s[i]) = {s[j] : j \in 1..i - 1}
             /\ Cardinality(Behind(ToSet(s), s[i])) = i - 1
  <2>1. i \in Nat \ {0} /\ \A j \in 1..i - 1 : j \in DOMAIN s /\ j < i
    BY <1>1
  <2>2. ASSUME NEW j \in DOMAIN s PROVE Beats(s[j], s[i]) <=> j < i
    <3>1. j < i => Beats(s[j], s[i])
      BY DEF Sorted
    <3>2. i < j => Beats(s[i], s[j])
      BY DEF Sorted
    <3>3. i = j => ~Beats(s[j], s[i])
      BY <1>1, BeatsIsAnOrder
    <3>4. i \in Nat /\ j \in Nat /\ s[i] \in Found /\ s[j] \in Found
      BY <1>1
    <3>5. ~(Beats(s[i], s[j]) /\ Beats(s[j], s[i]))
      BY <3>4, BeatsIsAnOrder
    <3> QED
      BY <3>1, <3>2, <3>3, <3>4, <3>5
  <2>3. Behind(ToSet(s), s[i]) = {s[j] : j \in 1..i - 1}
    <3>1. \A j \in DOMAIN s : j < i => j \in 1..i - 1
      BY <1>1
    <3> QED
      BY <2>1, <2>2, <3>1 DEF Behind, ToSet
  <2>4. Cardinality({s[j] : j \in 1..i - 1}) = i - 1
    <3>1. i - 1 \in Nat /\ \A a, b \in 1..i - 1 : s[a] = s[b] => a = b
      BY <1>2, <2>1
    <3> QED
      BY <3>1, DistinctCount
  <2> QED
    BY <2>3, <2>4
<1> QED
  BY <1>2, <1>3

\* Cutting a sorted list keeps the chunks that few enough others beat.
LEMMA CutResult ==
  ASSUME Fusing, NEW s \in Seq(Found), Sorted(s), NEW L \in Nat
  PROVE  LET t == SubSeq(s, 1, Min({L, Len(s)}))
         IN  /\ Sorted(t)
             /\ ToSet(t) = {c \in ToSet(s) : Cardinality(Behind(ToSet(s), c)) < L}
<1> DEFINE n == Min({L, Len(s)})
<1> DEFINE t == SubSeq(s, 1, n)
<1>1. /\ n \in Nat /\ n <= Len(s) /\ n <= L /\ (n = L \/ n = Len(s))
      /\ t \in Seq(Found) /\ Len(t) = n /\ DOMAIN t = 1..n
      /\ \A i \in 1..n : t[i] = s[i]
  BY CutType
<1>2. DOMAIN s = 1..Len(s) /\ Len(s) \in Nat
  OBVIOUS
<1>0. L \in Nat
  OBVIOUS
<1> HIDE DEF n, t
<1>3. \A i \in 1..n : i \in DOMAIN s /\ i - 1 < L
  <2> DEFINE m == Len(s)
  <2>1. m \in Nat /\ n \in Nat /\ n <= m /\ n <= L /\ DOMAIN s = 1..m
    BY <1>1, <1>2
  <2> HIDE DEF m
  <2> QED
    BY <1>0, <2>1
<1>4. \A i \in DOMAIN s : i - 1 < L => i \in 1..n
  <2> DEFINE m == Len(s)
  <2>1. m \in Nat /\ n \in Nat /\ (n = L \/ n = m) /\ DOMAIN s = 1..m
    BY <1>1, <1>2
  <2> HIDE DEF m
  <2> QED
    BY <1>0, <2>1
<1>5. Sorted(t)
  BY <1>1, <1>3 DEF Sorted
<1>6. \A i \in DOMAIN s : Cardinality(Behind(ToSet(s), s[i])) = i - 1
  BY SortedPlaces
<1>7. ToSet(t) = {c \in ToSet(s) : Cardinality(Behind(ToSet(s), c)) < L}
  BY <1>1, <1>3, <1>4, <1>6 DEF ToSet
<1> QED
  BY <1>5, <1>7 DEF t, n

-----------------------------------------------------------------------------
(* The selection and its reference                                         *)

Representatives == Foremost(Found)
Rivals(c) == {b \in Representatives : DocumentOf[b] = DocumentOf[c] /\ Beats(b, c)}
Kept == {c \in Representatives : Cardinality(Rivals(c)) < MaxChunksPerDocument}
Diverse == WithinDocumentCap(UniqueContent(Ordered))

\* The cap keeps what the reference does; where it drops a representative, the
\* document has all its places, all of them taken by better chunks.
LEMMA DiverseIsKept ==
  ASSUME Fusing
  PROVE  /\ Diverse \in Seq(Found)
         /\ Sorted(Diverse)
         /\ ToSet(Diverse) = Kept
         /\ \A d : Cardinality(OfDocument(Diverse, d)) <= MaxChunksPerDocument
         /\ \A c \in Representatives \ Kept :
              /\ Cardinality(OfDocument(Diverse, DocumentOf[c])) = MaxChunksPerDocument
              /\ \A b \in OfDocument(Diverse, DocumentOf[c]) : Beats(b, c)
<1> DEFINE unique == UniqueContent(Ordered)
<1> DEFINE M == MaxChunksPerDocument
<1>1. unique \in Seq(Found) /\ Sorted(unique) /\ ToSet(unique) = Representatives
  BY OrderedIsSorted, UniqueContentResult DEF Representatives
<1> HIDE DEF unique
<1> DEFINE kept == WithinDocumentCap(unique)
<1>2. /\ kept \in Seq(Found)
      /\ ToSet(kept) \subseteq Representatives
      /\ Sorted(kept)
      /\ \A d : Cardinality(OfDocument(kept, d)) <= M
      /\ \A c \in Representatives \ ToSet(kept) :
           /\ Cardinality(OfDocument(kept, DocumentOf[c])) = M
           /\ \A b \in OfDocument(kept, DocumentOf[c]) : Beats(b, c)
  BY <1>1, WithinDocumentCapResult
<1>3. kept = Diverse
  BY DEF Diverse, unique
<1> HIDE DEF kept, M
<1>4. Representatives \subseteq Found /\ M \in Nat
  BY ParametersType DEF Representatives, Foremost, M
<1>5. ASSUME NEW c \in Representatives
      PROVE  /\ IsFiniteSet(Rivals(c)) /\ Cardinality(Rivals(c)) \in Nat
             /\ IsFiniteSet(OfDocument(kept, DocumentOf[c]))
             /\ Cardinality(OfDocument(kept, DocumentOf[c])) \in Nat
  <2>1. Rivals(c) \subseteq Found /\ OfDocument(kept, DocumentOf[c]) \subseteq Found
    BY <1>2, <1>4 DEF Rivals, OfDocument
  <2>2. IsFiniteSet(Rivals(c)) /\ IsFiniteSet(OfDocument(kept, DocumentOf[c]))
    BY <2>1, FoundIsFinite, FS_Subset
  <2> QED
    BY <2>2, FS_CardinalityType
<1>6. ASSUME NEW c \in ToSet(kept) PROVE Cardinality(Rivals(c)) < M
  <2> DEFINE D == OfDocument(kept, DocumentOf[c])
  <2>1. c \in D /\ c \in Representatives /\ c \in Found
    BY <1>2, <1>4 DEF OfDocument
  <2>2. ASSUME NEW b \in Rivals(c) PROVE b \in D \ {c}
    <3>1. b \in Representatives /\ DocumentOf[b] = DocumentOf[c] /\ Beats(b, c) /\ b \in Found
      BY <1>4 DEF Rivals
    <3>2. b # c /\ ~Beats(c, b)
      BY <2>1, <3>1, BeatsIsAnOrder
    <3>3. b \in ToSet(kept)
      BY <1>2, <2>1, <3>1, <3>2
    <3> QED
      BY <3>1, <3>2, <3>3 DEF OfDocument
  <2>3. IsFiniteSet(D) /\ Cardinality(D) \in Nat /\ Cardinality(D) <= M
    BY <1>2, <1>5, <2>1
  <2>4. Rivals(c) \subseteq D \ {c}
    BY <2>2
  <2> HIDE DEF D
  <2>5. IsFiniteSet(D \ {c}) /\ Cardinality(D \ {c}) = Cardinality(D) - 1
    BY <2>1, <2>3, FS_RemoveElement
  <2>6. Cardinality(Rivals(c)) <= Cardinality(D \ {c})
    BY <2>4, <2>5, FS_Subset
  <2>7. Cardinality(Rivals(c)) \in Nat
    BY <1>5, <2>1
  <2> QED
    BY <1>4, <2>3, <2>5, <2>6, <2>7
<1>7. ASSUME NEW c \in Representatives, c \notin ToSet(kept) PROVE ~(Cardinality(Rivals(c)) < M)
  <2> DEFINE D == OfDocument(kept, DocumentOf[c])
  <2>1. Cardinality(D) = M /\ \A b \in D : Beats(b, c)
    BY <1>2, <1>7
  <2>2. D \subseteq Rivals(c)
    BY <1>2, <2>1 DEF Rivals, OfDocument
  <2>3. Cardinality(D) <= Cardinality(Rivals(c))
    BY <1>5, <2>2, FS_Subset
  <2>4. Cardinality(Rivals(c)) \in Nat
    BY <1>5
  <2> HIDE DEF D
  <2> QED
    BY <1>4, <2>1, <2>3, <2>4
<1>8. ToSet(kept) = Kept
  BY <1>2, <1>6, <1>7 DEF Kept, M
<1> QED
  BY <1>2, <1>3, <1>8 DEF M

Winners == {c \in Kept : Cardinality(Behind(Kept, c)) < RerankCandidateLimit}

\* Fusion selects the candidates of the reference, best first.
LEMMA SelectedResult ==
  ASSUME Fusing
  PROVE  /\ Selected \in Seq(Found)
         /\ Sorted(Selected)
         /\ ToSet(Selected) = Winners
<1>1. Diverse \in Seq(Found) /\ Sorted(Diverse) /\ ToSet(Diverse) = Kept
  BY DiverseIsKept
<1>2. Selected = SubSeq(Diverse, 1, Min({RerankCandidateLimit, Len(Diverse)}))
  BY DEF Selected, Diverse
<1>3. RerankCandidateLimit \in Nat
  BY ParametersType
<1>4. Selected \in Seq(Found)
  BY <1>1, <1>2, <1>3, CutType
<1>5. Sorted(Selected) /\ ToSet(Selected) = Winners
  BY <1>1, <1>2, <1>3, CutResult DEF Winners
<1> QED
  BY <1>4, <1>5

\* The loops of fuse() compute what the reference says in sets.
LEMMA SelectionIsTheReference ==
  ASSUME Fusing, fused = Selected
  PROVE  SelectionMatchesReference
<1>1. Sorted(fused) /\ ToSet(fused) = Winners
  BY SelectedResult
<1> QED
  BY <1>1 DEF SelectionMatchesReference, Sorted, Winners, Behind, Kept, Rivals,
              Representatives, Foremost

\* A chunk better everywhere than a candidate has a representative before that
\* candidate, or one whose document has all its places before that candidate.
LEMMA SelectionIsFair ==
  ASSUME Fusing, fused = Selected
  PROVE  BetterEverywhereComesFirst
<1> SUFFICES ASSUME NEW i \in DOMAIN fused, NEW c \in Found,
                    \A q \in Hits(fused[i]) : q \in Hits(c) /\ Rank(q, c) < Rank(q, fused[i])
             PROVE  \E r \in Found :
                      /\ ContentOf[r] = ContentOf[c]
                      /\ \/ r \in {fused[j] : j \in 1..i - 1}
                         \/ Cardinality({b \in {fused[j] : j \in 1..i - 1} :
                                           DocumentOf[b] = DocumentOf[r]})
                              = MaxChunksPerDocument
  BY DEF BetterEverywhereComesFirst
<1> DEFINE w == fused[i]
<1> DEFINE better == {fused[j] : j \in 1..i - 1}
<1>1. fused \in Seq(Found) /\ Sorted(fused) /\ ToSet(fused) = Winners
  BY SelectedResult
<1>2. w \in Found /\ w \in Winners
  BY <1>1 DEF ToSet
<1>3. Behind(Winners, w) = better
  BY <1>1, SortedPlaces
<1>4. Beats(c, w)
  BY <1>2, BetterEverywhereBeats
<1> HIDE DEF w, better
<1>5. PICK r \in Representatives : ContentOf[r] = ContentOf[c] /\ (r = c \/ Beats(r, c))
  <2> DEFINE S == {b \in Found : ContentOf[b] = ContentOf[c] /\ (b = c \/ Beats(b, c))}
  <2>1. \E r \in S : \A b \in S : ~Beats(b, r)
    <3> DEFINE f == [b \in S |-> Cardinality(Behind(Found, b))]
    <3>1. c \in S /\ S \subseteq Found
      OBVIOUS
    <3>2. \A b \in S : f[b] \in Nat
      <4> SUFFICES ASSUME NEW b \in S PROVE Cardinality(Behind(Found, b)) \in Nat
        OBVIOUS
      <4>1. IsFiniteSet(Behind(Found, b))
        BY FoundIsFinite, FS_Subset DEF Behind
      <4> QED
        BY <4>1, FS_CardinalityType
    <3>3. \A a, b \in S : Beats(a, b) => f[a] < f[b]
      BY <3>1, PlacesDiffer
    <3> DEFINE R == {f[b] : b \in S}
    <3> HIDE DEF f, S
    <3>4. R \in SUBSET Int /\ R # {}
      BY <3>1, <3>2
    <3>5. IsFiniteSet(R)
      BY <3>1, FoundIsFinite, FS_Subset, ImageIsFinite
    <3>6. Min(R) \in R /\ \A x \in R : Min(R) <= x
      <4> HIDE DEF R
      <4> QED
        BY <3>4, <3>5, ExtremaExist
    <3>7. PICK r \in S : f[r] = Min(R)
      BY <3>6
    <3>8. \A b \in S : f[r] <= f[b]
      BY <3>6, <3>7
    <3> HIDE DEF R
    <3> QED
      BY <3>2, <3>3, <3>8
  <2>2. PICK r \in S : \A b \in S : ~Beats(b, r)
    BY <2>1
  <2>3. ASSUME NEW b \in Found, ContentOf[b] = ContentOf[r], Beats(b, r) PROVE FALSE
    <3>1. Beats(b, c)
      BY <2>2, <2>3, BeatsIsAnOrder
    <3> QED
      BY <2>2, <2>3, <3>1
  <2> QED
    BY <2>2, <2>3 DEF Representatives, Foremost
<1>6. r \in Found
  BY <1>5 DEF Representatives, Foremost
<1>7. Beats(r, w)
  BY <1>2, <1>4, <1>5, <1>6, BeatsIsAnOrder
<1>8. CASE r \in Winners
  <2>1. r \in better
    BY <1>3, <1>7, <1>8 DEF Behind
  <2> QED
    BY <1>5, <1>6, <2>1 DEF better
<1>9. CASE r \in Kept \ Winners
  <2>1. Kept \subseteq Found /\ w \in Kept /\ r \in Kept
    BY <1>2, <1>9 DEF Kept, Representatives, Foremost, Winners
  <2>2. Cardinality(Behind(Kept, r)) < Cardinality(Behind(Kept, w))
        /\ Cardinality(Behind(Kept, r)) \in Nat /\ Cardinality(Behind(Kept, w)) \in Nat
    BY <1>7, <2>1, PlacesDiffer
  <2>3. Cardinality(Behind(Kept, w)) < RerankCandidateLimit
        /\ ~(Cardinality(Behind(Kept, r)) < RerankCandidateLimit)
    BY <1>2, <1>9 DEF Winners
  <2> QED
    BY <2>2, <2>3, ParametersType
<1>10. CASE r \notin Kept
  <2> DEFINE D == OfDocument(Diverse, DocumentOf[r])
  <2>1. /\ Cardinality(D) = MaxChunksPerDocument
        /\ \A b \in D : Beats(b, r) /\ b \in Kept /\ DocumentOf[b] = DocumentOf[r]
        /\ \A b \in Kept : DocumentOf[b] = DocumentOf[r] => b \in D
    BY <1>5, <1>10, DiverseIsKept DEF OfDocument
  <2>2. ASSUME NEW b \in D PROVE b \in better
    <3>1. b \in Kept /\ b \in Found /\ w \in Kept /\ Kept \subseteq Found
      BY <1>2, <2>1 DEF Kept, Representatives, Foremost, Winners
    <3>2. Beats(b, w)
      BY <1>2, <1>6, <1>7, <2>1, <3>1, BeatsIsAnOrder
    <3>3. Cardinality(Behind(Kept, b)) < Cardinality(Behind(Kept, w))
          /\ Cardinality(Behind(Kept, b)) \in Nat /\ Cardinality(Behind(Kept, w)) \in Nat
      BY <3>1, <3>2, PlacesDiffer
    <3>4. Cardinality(Behind(Kept, w)) < RerankCandidateLimit
      BY <1>2 DEF Winners
    <3>5. b \in Winners
      BY <3>1, <3>3, <3>4, ParametersType DEF Winners
    <3> QED
      BY <1>3, <3>2, <3>5 DEF Behind
  <2>3. {b \in better : DocumentOf[b] = DocumentOf[r]} = D
    <3>1. \A b \in better : b \in Kept
      BY <1>3 DEF Behind, Winners
    <3> HIDE DEF D
    <3> QED
      BY <2>1, <2>2, <3>1
  <2> QED
    BY <1>5, <1>6, <2>1, <2>3 DEF better
<1> QED
  BY <1>8, <1>9, <1>10

-----------------------------------------------------------------------------
(* Selected depends on the results only                                    *)

\* The hits of a chunk depend on the results only,
LEMMA HitsKept ==
  ASSUME results' = results, NEW c, NEW q
  PROVE  /\ Found' = Found
         /\ Hits(c)' = Hits(c)
         /\ Rank(q, c)' = Rank(q, c)
         /\ Candidate(q, c)' = Candidate(q, c)
BY DEF Hits, Ranks, Found, Rank, Candidate

\* and so does the order of fusion,
LEMMA BeatsKept ==
  ASSUME results' = results
  PROVE  \A b, c : Beats(b, c)' = Beats(b, c)
<1>1. ASSUME NEW c PROVE RrfScore(c)' = RrfScore(c)
  BY DEF RrfScore, Hits, Ranks, Rank, MapThenSumSet, MapThenFoldSet
<1>2. ASSUME NEW c PROVE BestOccurrence(c)' = BestOccurrence(c)
  BY HitsKept DEF BestOccurrence, OccurrenceKey, Candidate, Rank, Hits, Ranks
<1>3. ASSUME NEW c PROVE AggregateKey(c)' = AggregateKey(c)
  BY <1>1, <1>2 DEF AggregateKey, Candidate, Rank, Hits, Ranks
<1> QED
  BY <1>3 DEF Beats

\* and what fusion selects.
LEMMA SelectedKept ==
  ASSUME results' = results
  PROVE  Selected' = Selected
<1>1. Found' = Found /\ \A b, c : Beats(b, c)' = Beats(b, c)
  BY HitsKept, BeatsKept
<1>2. Ordered' = Ordered
  BY <1>1 DEF Ordered
<1> QED
  BY <1>2 DEF Selected

-----------------------------------------------------------------------------
(* The invariant                                                           *)

\* What a search returned is what the catalog still says, but for the documents
\* that an upload changed since.
SnapshotsAreRecent ==
  \A q \in Queries : results[q] # Unanswered =>
    \A i \in DOMAIN results[q] :
      LET hit == results[q][i]
          d == DocumentOf[hit.chunk]
      IN  /\ hit.displayName = name[d] \/ d \in renamed
          /\ VersionOf[hit.chunk] = active[d] \/ d \in republished

CatalogType ==
  /\ active \in [Documents -> 0..2]
  /\ name \in [Documents -> Names]

\* The results are complete when fusion begins and do not change any more, so
\* the candidates stay what they were when they were selected.
StagesInOrder ==
  /\ stage = "retrieving" => fused = <<>>
  /\ stage \in {"fusing", "reranking", "prompting", "generating"} => AllAnswered
  /\ fused # <<>> => AllAnswered /\ fused = Selected
  /\ stage \in {"reranking", "prompting", "generating"} => fused = Selected

RankingInv ==
  /\ CatalogType
  /\ ResultsAreLists
  /\ SnapshotsAreRecent
  /\ StagesInOrder
  /\ error = "result_protocol" => renamed # {}
  /\ RerankKeepsTheSelection

\* The initial states satisfy the invariant.
LEMMA InitRanking == Init => RankingInv
<1> SUFFICES ASSUME Init PROVE RankingInv
  OBVIOUS
<1>1. CatalogType
  BY DEF Init, CatalogType, Names
<1>2. ResultsAreLists /\ SnapshotsAreRecent
  BY DEF Init, ResultsAreLists, SnapshotsAreRecent
<1> QED
  BY <1>1, <1>2 DEF Init, RankingInv, StagesInOrder, RerankKeepsTheSelection

\* Fusion finds two candidates of a chunk that differ only when the document of
\* the chunk was renamed.
LEMMA ConflictHasACause ==
  ASSUME RankingInv, AllAnswered, MetadataConflict
  PROVE  renamed # {}
<1> SUFFICES ASSUME renamed = {} PROVE FALSE
  OBVIOUS
<1>1. PICK c \in Found : \E p, q \in Hits(c) : CandidateMetadata(p, c) # CandidateMetadata(q, c)
  BY DEF MetadataConflict
<1>2. Fusing
  BY DEF Fusing, RankingInv
<1>3. ASSUME NEW q \in Hits(c)
      PROVE  /\ Candidate(q, c) \in Candidates
             /\ Candidate(q, c).chunk = c
             /\ Candidate(q, c).displayName = name[DocumentOf[c]]
  <2>1. q \in Queries /\ Ranks(q, c) # {} /\ results[q] # Unanswered
    BY DEF Hits, AllAnswered
  <2>2. Candidate(q, c) \in Candidates /\ Candidate(q, c).chunk = c
    BY <1>2, <2>1, RankType
  <2>3. Rank(q, c) \in DOMAIN results[q]
    BY <2>1 DEF Rank, Ranks
  <2> QED
    BY <2>1, <2>2, <2>3 DEF RankingInv, SnapshotsAreRecent, Candidate
<1>4. \A q \in Hits(c) :
        CandidateMetadata(q, c)
          = [chunk |-> c, displayName |-> name[DocumentOf[c]], similarity |-> 1]
  BY <1>3 DEF CandidateMetadata, Candidates
<1> QED
  BY <1>1, <1>4

\* A search reads the catalog as it is now.
LEMMA SearchReturnsSnapshot ==
  ASSUME RankingInv, NEW similarity \in [Contents -> 1..MaxSimilarity],
         NEW chunks \in Nearest(similarity)
  PROVE  LET list == [rank \in DOMAIN chunks |->
                        [chunk |-> chunks[rank],
                         displayName |-> name[DocumentOf[chunks[rank]]],
                         similarity |-> similarity[ContentOf[chunks[rank]]]]]
         IN  /\ list \in Seq(Candidates)
             /\ \A i \in DOMAIN list :
                  /\ list[i].displayName = name[DocumentOf[list[i].chunk]]
                  /\ VersionOf[list[i].chunk] = active[DocumentOf[list[i].chunk]]
<1> DEFINE list == [rank \in DOMAIN chunks |->
                      [chunk |-> chunks[rank],
                       displayName |-> name[DocumentOf[chunks[rank]]],
                       similarity |-> similarity[ContentOf[chunks[rank]]]]]
<1>1. PICK s \in SetToSeqs(Retrievable) :
        chunks = SubSeq(s, 1, Min({RecallBudget, Cardinality(Retrievable)}))
  BY DEF Nearest
<1>2. IsFiniteSet(Retrievable) /\ Retrievable \subseteq Chunks
  BY RankingAssumption, FS_Subset DEF RankingAssumption, Retrievable
<1> DEFINE m == Cardinality(Retrievable)
<1>3. m \in Nat /\ RecallBudget \in Nat
  BY <1>2, FS_CardinalityType, ParametersType
<1>4. s \in [1..m -> Retrievable]
  BY <1>1 DEF SetToSeqs
<1> HIDE DEF m
<1>5. s \in Seq(Retrievable) /\ Len(s) = m
  BY <1>3, <1>4
<1>6. chunks \in Seq(Retrievable)
  BY <1>1, <1>3, <1>5, CutType DEF m
<1> DEFINE n == Len(chunks)
<1>7. n \in Nat /\ DOMAIN chunks = 1..n /\ \A i \in 1..n : chunks[i] \in Retrievable
  BY <1>6
<1>8. ASSUME NEW i \in 1..n
      PROVE  /\ chunks[i] \in Chunks
             /\ name[DocumentOf[chunks[i]]] \in Names
             /\ similarity[ContentOf[chunks[i]]] \in 1..MaxSimilarity
             /\ VersionOf[chunks[i]] = active[DocumentOf[chunks[i]]]
  <2>1. chunks[i] \in Chunks /\ active[DocumentOf[chunks[i]]] = VersionOf[chunks[i]]
    BY <1>2, <1>7 DEF Retrievable
  <2>2. DocumentOf[chunks[i]] \in Documents /\ ContentOf[chunks[i]] \in Contents
    BY <2>1, RankingAssumption DEF RankingAssumption
  <2> QED
    BY <2>1, <2>2 DEF RankingInv, CatalogType
<1> HIDE DEF n
<1>9. ASSUME NEW i \in 1..n
      PROVE  /\ list[i] \in Candidates
             /\ list[i].displayName = name[DocumentOf[list[i].chunk]]
             /\ VersionOf[list[i].chunk] = active[DocumentOf[list[i].chunk]]
  BY <1>7, <1>8 DEF Candidates
<1>10. DOMAIN list = 1..n /\ list = [i \in 1..n |-> list[i]]
  BY <1>7
<1> HIDE DEF list
<1>11. list \in Seq(Candidates)
  BY <1>7, <1>9, <1>10
<1> QED
  BY <1>9, <1>10, <1>11 DEF list

\* Reranking returns as many distinct candidates as it was asked for.
LEMMA DegradedRerank ==
  ASSUME Fusing, fused = Selected
  PROVE  /\ Len(FusionOrder) = Min({ContextTopK, Len(fused)})
         /\ Cardinality(ToSet(FusionOrder)) = Len(FusionOrder)
         /\ ToSet(FusionOrder) \subseteq ToSet(fused)
         /\ IsPrefix(FusionOrder, fused)
<1> DEFINE t == SubSeq(fused, 1, Min({ContextTopK, Len(fused)}))
<1>1. fused \in Seq(Found) /\ Sorted(fused)
  BY SelectedResult
<1>2. /\ TopN \in Nat /\ TopN <= Len(fused)
      /\ t \in Seq(Found) /\ Len(t) = TopN /\ DOMAIN t = 1..TopN
      /\ \A i \in 1..TopN : t[i] = fused[i]
  <2>1. ContextTopK \in Nat
    BY ParametersType
  <2> HIDE DEF t
  <2>2. LET n == Min({ContextTopK, Len(fused)})
            s == SubSeq(fused, 1, n)
        IN  /\ n \in Nat /\ n <= Len(fused) /\ n <= ContextTopK
            /\ s \in Seq(Found) /\ Len(s) = n /\ DOMAIN s = 1..n
            /\ \A i \in 1..n : s[i] = fused[i]
    BY <1>1, <2>1, CutType
  <2> QED
    BY <2>2 DEF TopN, t
<1>3. FusionOrder = t
  BY DEF FusionOrder, TopN
<1> HIDE DEF t
<1>4. Len(fused) \in Nat /\ DOMAIN fused = 1..Len(fused)
  BY <1>1
<1>5. \A i \in 1..TopN : i \in DOMAIN fused
  BY <1>2, <1>4
<1>6. \A i, j \in 1..TopN : t[i] = t[j] => i = j
  BY <1>1, <1>2, <1>5, SortedPlaces
<1>7. Cardinality(ToSet(t)) = Len(t)
  <2>1. ToSet(t) = {t[i] : i \in 1..TopN}
    BY <1>2 DEF ToSet
  <2> QED
    BY <1>2, <1>6, <2>1, DistinctCount
<1>8. ToSet(t) \subseteq ToSet(fused)
  BY <1>2, <1>5 DEF ToSet
<1>9. IsPrefix(t, fused)
  <2>1. SubSeq(t, 1, Len(t)) = t
    BY <1>2
  <2> QED
    BY <1>2, <1>3, <2>1 DEF IsPrefix, FusionOrder
<1> QED
  BY <1>2, <1>3, <1>7, <1>8, <1>9 DEF TopN

\* A valid answer of the provider names as many distinct candidates.
LEMMA ValidRerank ==
  ASSUME Fusing, fused = Selected, NEW reply \in Replies, ValidReply(reply)
  PROVE  LET chosen == [i \in DOMAIN reply.indexes |-> fused[reply.indexes[i] + 1]]
         IN  /\ Len(chosen) = Min({ContextTopK, Len(fused)})
             /\ Cardinality(ToSet(chosen)) = Len(chosen)
             /\ ToSet(chosen) \subseteq ToSet(fused)
<1> DEFINE k == reply.indexes
<1> DEFINE chosen == [i \in DOMAIN k |-> fused[k[i] + 1]]
<1>1. fused \in Seq(Found) /\ Sorted(fused)
  BY SelectedResult
<1>2. TopN \in Nat
  <2>1. ContextTopK \in Nat /\ Len(fused) \in Nat
    BY <1>1, ParametersType
  <2> QED
    BY <2>1, MinOfTwo DEF TopN
<1>3. PICK n \in {TopN, TopN + 1} : k \in [1..n -> -1..Len(fused)]
  BY DEF Replies
<1>4. n \in Nat /\ DOMAIN k = 1..n /\ Len(k) = n
  BY <1>2, <1>3
<1>5. /\ n = TopN
      /\ \A i, j \in 1..n : i # j => k[i] # k[j]
      /\ \A i \in 1..n : k[i] \in 0..Len(fused) - 1
  BY <1>4 DEF ValidReply
<1> HIDE DEF k
<1>6. DOMAIN chosen = 1..n /\ Len(chosen) = n /\ \A i \in 1..n : chosen[i] = fused[k[i] + 1]
  BY <1>4
<1>7. DOMAIN fused = 1..Len(fused) /\ Len(fused) \in Nat
  BY <1>1
<1>8. \A i \in 1..n : k[i] + 1 \in DOMAIN fused /\ k[i] \in Int
  BY <1>5, <1>7
<1> HIDE DEF chosen
<1>9. ASSUME NEW i \in 1..n, NEW j \in 1..n, chosen[i] = chosen[j] PROVE i = j
  <2>1. k[i] + 1 = k[j] + 1
    BY <1>1, <1>6, <1>8, <1>9, SortedPlaces
  <2>2. k[i] = k[j]
    BY <1>8, <2>1
  <2> QED
    BY <1>5, <2>2
<1>10. Cardinality(ToSet(chosen)) = n
  <2>1. ToSet(chosen) = {chosen[i] : i \in 1..n}
    BY <1>6 DEF ToSet
  <2> QED
    BY <1>4, <1>9, <2>1, DistinctCount
<1>11. ToSet(chosen) \subseteq ToSet(fused)
  BY <1>6, <1>8 DEF ToSet
<1> QED
  BY <1>5, <1>6, <1>10, <1>11 DEF TopN, chosen, k

\* A step that leaves catalog, results and candidates alone.
LEMMA KeptByLaterSteps ==
  ASSUME RankingInv, UNCHANGED <<catalogVars, results, fused>>
  PROVE  /\ CatalogType' /\ ResultsAreLists' /\ SnapshotsAreRecent'
         /\ Selected' = Selected /\ AllAnswered' = AllAnswered
BY SelectedKept DEF RankingInv, catalogVars, CatalogType, ResultsAreLists, SnapshotsAreRecent,
   AllAnswered

\* Every step keeps the invariant.
LEMMA StepRanking == RankingInv /\ [Next]_vars => RankingInv'
<1> SUFFICES ASSUME RankingInv, [Next]_vars PROVE RankingInv'
  OBVIOUS
<1>0. \A list \in Seq(Candidates) : list # Unanswered
  BY UnansweredAssumption
<1>1. ASSUME NEW d \in Uploaded, CreateBuildingVersion(d) PROVE RankingInv'
  <2> USE <1>1 DEF CreateBuildingVersion
  <2>1. PICK filename \in Names :
          /\ name' = [name EXCEPT ![d] = filename]
          /\ renamed' = IF BetweenSearches /\ filename # name[d]
                        THEN renamed \union {d} ELSE renamed
    OBVIOUS
  <2>2. CatalogType'
    BY <2>1 DEF RankingInv, CatalogType
  <2>3. SnapshotsAreRecent'
    <3> SUFFICES ASSUME NEW q \in Queries, results[q] # Unanswered, NEW i \in DOMAIN results[q]
                 PROVE  LET hit == results[q][i]
                            e == DocumentOf[hit.chunk]
                        IN  /\ hit.displayName = name'[e] \/ e \in renamed'
                            /\ VersionOf[hit.chunk] = active'[e] \/ e \in republished'
      BY DEF SnapshotsAreRecent
    <3> DEFINE hit == results[q][i]
    <3> DEFINE e == DocumentOf[hit.chunk]
    <3>1. /\ hit.displayName = name[e] \/ e \in renamed
          /\ VersionOf[hit.chunk] = active[e] \/ e \in republished
      BY DEF RankingInv, SnapshotsAreRecent
    <3>2. BetweenSearches
      BY DEF BetweenSearches
    <3>3. name[e] = name'[e] \/ e \in renamed'
      BY <2>1, <3>2 DEF RankingInv, CatalogType
    <3> QED
      BY <2>1, <3>1, <3>3
  <2>4. renamed # {} => renamed' # {}
    BY <2>1
  <2> QED
    BY <2>2, <2>3, <2>4 DEF RankingInv, ResultsAreLists, StagesInOrder, RerankKeepsTheSelection
<1>2. ASSUME NEW d \in Uploaded, ActivateVersion(d) PROVE RankingInv'
  <2> USE <1>2 DEF ActivateVersion
  <2>1. CatalogType'
    <3>1. active' = [active EXCEPT ![d] = 2] /\ name' = name
      BY <1>2 DEF ActivateVersion
    <3>2. active \in [Documents -> 0..2]
      BY DEF RankingInv, CatalogType
    <3> DEFINE R == 0..2
    <3>3. 2 \in R /\ active \in [Documents -> R]
      BY <3>2
    <3> HIDE DEF R
    <3>4. active' \in [Documents -> R]
      BY <3>1, <3>3
    <3>5. active' \in [Documents -> 0..2]
      BY <3>4 DEF R
    <3> QED
      BY <3>1, <3>5 DEF RankingInv, CatalogType
  <2>2. SnapshotsAreRecent'
    <3> SUFFICES ASSUME NEW q \in Queries, results[q] # Unanswered, NEW i \in DOMAIN results[q]
                 PROVE  LET hit == results[q][i]
                            e == DocumentOf[hit.chunk]
                        IN  /\ hit.displayName = name'[e] \/ e \in renamed'
                            /\ VersionOf[hit.chunk] = active'[e] \/ e \in republished'
      BY DEF SnapshotsAreRecent
    <3> DEFINE hit == results[q][i]
    <3> DEFINE e == DocumentOf[hit.chunk]
    <3>1. /\ hit.displayName = name[e] \/ e \in renamed
          /\ VersionOf[hit.chunk] = active[e] \/ e \in republished
      BY DEF RankingInv, SnapshotsAreRecent
    <3>2. republished' = republished \union {d}
      BY DEF BetweenSearches
    <3>3. active[e] = active'[e] \/ e \in republished'
      BY <3>2 DEF RankingInv, CatalogType
    <3> QED
      BY <3>1, <3>2, <3>3
  <2> QED
    BY <2>1, <2>2 DEF RankingInv, ResultsAreLists, StagesInOrder, RerankKeepsTheSelection
<1>3. ASSUME NEW q \in Queries, Search(q) PROVE RankingInv'
  <2>0. PICK similarity \in [Contents -> 1..MaxSimilarity] :
          \E chunks \in Nearest(similarity) :
            results' = [results EXCEPT ![q] =
                          [rank \in DOMAIN chunks |->
                             [chunk |-> chunks[rank],
                              displayName |-> name[DocumentOf[chunks[rank]]],
                              similarity |-> similarity[ContentOf[chunks[rank]]]]]]
    BY <1>3 DEF Search
  <2>1. PICK chunks \in Nearest(similarity) :
          results' = [results EXCEPT ![q] =
                        [rank \in DOMAIN chunks |->
                           [chunk |-> chunks[rank],
                            displayName |-> name[DocumentOf[chunks[rank]]],
                            similarity |-> similarity[ContentOf[chunks[rank]]]]]]
    BY <2>0
  <2> DEFINE list == [rank \in DOMAIN chunks |->
                        [chunk |-> chunks[rank],
                         displayName |-> name[DocumentOf[chunks[rank]]],
                         similarity |-> similarity[ContentOf[chunks[rank]]]]]
  <2>2. /\ list \in Seq(Candidates)
        /\ \A i \in DOMAIN list :
             /\ list[i].displayName = name[DocumentOf[list[i].chunk]]
             /\ VersionOf[list[i].chunk] = active[DocumentOf[list[i].chunk]]
    BY SearchReturnsSnapshot
  <2>3. results' = [results EXCEPT ![q] = list]
    BY <2>1
  <2> HIDE DEF list
  <2>4. results'[q] = list /\ \A p \in Queries \ {q} : results'[p] = results[p]
    BY <2>3 DEF RankingInv, ResultsAreLists
  <2>5. ResultsAreLists'
    BY <2>2, <2>3 DEF RankingInv, ResultsAreLists
  <2>6. UNCHANGED <<active, name, renamed, republished>> /\ fused' = fused /\ error' = error
    BY <1>3 DEF Search, catalogVars
  <2>7. SnapshotsAreRecent'
    BY <2>2, <2>4, <2>6 DEF RankingInv, SnapshotsAreRecent
  <2>8. /\ stage = "retrieving"
        /\ stage' = IF \A p \in Queries \ {q} : results[p] # Unanswered THEN "fusing" ELSE stage
    BY <1>3 DEF Search
  <2>9. stage' = "fusing" => AllAnswered'
    BY <1>0, <2>2, <2>4, <2>8 DEF AllAnswered
  <2>10. StagesInOrder'
    BY <2>6, <2>8, <2>9 DEF RankingInv, StagesInOrder
  <2> QED
    BY <2>5, <2>6, <2>7, <2>8, <2>10 DEF RankingInv, CatalogType, RerankKeepsTheSelection
<1>4. CASE Fuse
  <2>1. results' = results /\ catalogVars' = catalogVars /\ error' = error /\ stage = "fusing"
        /\ fused' = Selected /\ stage' \in {"no_context", "reranking"}
    BY <1>4 DEF Fuse
  <2>2. Selected' = Selected
    BY <2>1, SelectedKept
  <2>3. AllAnswered'
    BY <2>1 DEF RankingInv, StagesInOrder, AllAnswered
  <2>4. StagesInOrder'
    BY <2>1, <2>2, <2>3 DEF StagesInOrder
  <2>5. CatalogType' /\ ResultsAreLists' /\ SnapshotsAreRecent'
    BY <2>1 DEF RankingInv, catalogVars, CatalogType, ResultsAreLists, SnapshotsAreRecent
  <2> QED
    BY <2>1, <2>4, <2>5 DEF RankingInv, RerankKeepsTheSelection, catalogVars
<1>5. CASE FuseRefuses
  <2>1. UNCHANGED <<catalogVars, results, fused>> /\ stage = "fusing" /\ stage' = "failed"
        /\ MetadataConflict
    BY <1>5 DEF FuseRefuses
  <2>2. renamed # {}
    BY <2>1, ConflictHasACause DEF RankingInv, StagesInOrder
  <2>3. renamed' = renamed
    BY <2>1 DEF catalogVars
  <2>4. StagesInOrder'
    BY <2>1, KeptByLaterSteps DEF RankingInv, StagesInOrder
  <2> QED
    BY <2>1, <2>2, <2>3, <2>4, KeptByLaterSteps DEF RankingInv, RerankKeepsTheSelection
<1>6. ASSUME NEW chunks, NEW reason, RerankReturns(chunks, reason),
             /\ Len(chunks) = Min({ContextTopK, Len(fused)})
             /\ Cardinality(ToSet(chunks)) = Len(chunks)
             /\ ToSet(chunks) \subseteq ToSet(fused)
             /\ reason # "none" => IsPrefix(chunks, fused)
      PROVE  RankingInv'
  <2>1. UNCHANGED <<catalogVars, results, fused>> /\ stage = "reranking" /\ stage' = "prompting"
        /\ context' = chunks /\ degradation' = reason /\ error' = error
    BY <1>6 DEF RerankReturns
  <2>2. RerankKeepsTheSelection'
    BY <1>6, <2>1 DEF RerankKeepsTheSelection
  <2>3. StagesInOrder'
    BY <2>1, KeptByLaterSteps DEF RankingInv, StagesInOrder
  <2>4. renamed' = renamed
    BY <2>1 DEF catalogVars
  <2> QED
    BY <2>1, <2>2, <2>3, <2>4, KeptByLaterSteps DEF RankingInv
<1>7. ASSUME stage = "reranking" PROVE Fusing /\ fused = Selected
  BY <1>7 DEF RankingInv, StagesInOrder, Fusing
<1>8. CASE Reranked
  <2>1. PICK reply \in Replies :
          \/ /\ ValidReply(reply)
             /\ RerankReturns([i \in DOMAIN reply.indexes |-> fused[reply.indexes[i] + 1]],
                              "none")
          \/ /\ ~ValidReply(reply)
             /\ RerankReturns(FusionOrder, "protocol")
    BY <1>8 DEF Reranked
  <2>2. Fusing /\ fused = Selected
    BY <1>7, <1>8 DEF Reranked
  <2>3. CASE ValidReply(reply)
    BY <1>6, <2>1, <2>2, <2>3, ValidRerank
  <2>4. CASE ~ValidReply(reply)
    BY <1>6, <2>1, <2>2, <2>4, DegradedRerank
  <2> QED
    BY <2>3, <2>4
<1>9. CASE RerankDegrades
  <2>1. PICK reason \in {"disabled", "provider_unavailable", "timeout"} :
          RerankReturns(FusionOrder, reason)
    BY <1>9 DEF RerankDegrades
  <2>2. Fusing /\ fused = Selected
    BY <1>7, <2>1 DEF RerankReturns
  <2> QED
    BY <1>6, <2>1, <2>2, DegradedRerank
<1>10. CASE BuildPrompt
  <2>1. UNCHANGED <<catalogVars, results, fused, context, degradation, error>>
        /\ stage = "prompting" /\ stage' = "generating"
    BY <1>10 DEF BuildPrompt
  <2>2. StagesInOrder'
    BY <2>1, KeptByLaterSteps DEF RankingInv, StagesInOrder
  <2>3. RerankKeepsTheSelection'
    BY <2>1 DEF RankingInv, RerankKeepsTheSelection
  <2>4. renamed' = renamed
    BY <2>1 DEF catalogVars
  <2> QED
    BY <2>1, <2>2, <2>3, <2>4, KeptByLaterSteps DEF RankingInv
<1>11. ASSUME NEW reason \in {"retrieval_failure", "global_timeout"}, Fail(reason)
       PROVE  RankingInv'
  <2>1. UNCHANGED <<catalogVars, results, fused>> /\ stage' = "failed" /\ error' # "result_protocol"
    BY <1>11 DEF Fail
  <2>2. StagesInOrder'
    BY <2>1, KeptByLaterSteps DEF RankingInv, StagesInOrder
  <2> QED
    BY <2>1, <2>2, KeptByLaterSteps DEF RankingInv, RerankKeepsTheSelection
<1>12. CASE UNCHANGED vars
  <2>1. UNCHANGED <<catalogVars, results, fused, context, degradation, error, stage, renamed>>
    BY <1>12 DEF vars, catalogVars
  <2>2. StagesInOrder' /\ RerankKeepsTheSelection'
    BY <2>1, KeptByLaterSteps DEF RankingInv, StagesInOrder, RerankKeepsTheSelection
  <2> QED
    BY <2>1, <2>2, KeptByLaterSteps DEF RankingInv
<1> QED
  BY <1>1, <1>2, <1>3, <1>4, <1>5, <1>8, <1>9, <1>10, <1>11, <1>12 DEF Next, Ended

\* What follows from the invariant in a state.
LEMMA RankingInvImplies ==
  RankingInv => FusionIsCorrect /\ RerankKeepsTheSelection /\ DisagreementsHaveACause
<1> SUFFICES ASSUME RankingInv
             PROVE  FusionIsCorrect /\ RerankKeepsTheSelection /\ DisagreementsHaveACause
  OBVIOUS
<1>1. FusionIsCorrect
  <2>1. CASE stage = "reranking"
    <3>1. Fusing /\ fused = Selected
      BY <2>1 DEF RankingInv, StagesInOrder, Fusing
    <3> QED
      BY <3>1, SelectionIsTheReference, SelectionIsFair DEF FusionIsCorrect
  <2>2. CASE stage # "reranking"
    BY <2>2 DEF FusionIsCorrect, SelectionMatchesReference, BetterEverywhereComesFirst
  <2> QED
    BY <2>1, <2>2
<1>2. ASSUME NEW b \in ToSet(fused)
      PROVE  VersionOf[b] = active[DocumentOf[b]] \/ DocumentOf[b] \in republished
  <2>1. fused # <<>>
    BY DEF ToSet
  <2>2. Fusing /\ fused = Selected
    BY <2>1 DEF RankingInv, StagesInOrder, Fusing
  <2>3. fused \in Seq(Found)
    BY <2>2, SelectedResult
  <2>4. b \in Found
    BY <2>3 DEF ToSet
  <2>5. PICK q \in Queries : Ranks(q, b) # {}
    BY <2>4 DEF Found, Hits
  <2>6. PICK i \in DOMAIN results[q] : results[q][i].chunk = b
    BY <2>5 DEF Ranks
  <2> QED
    BY <2>2, <2>6 DEF RankingInv, SnapshotsAreRecent, Fusing, AllAnswered
<1>3. DisagreementsHaveACause
  BY <1>2 DEF RankingInv, DisagreementsHaveACause
<1> QED
  BY <1>1, <1>3 DEF RankingInv

\* A request fuses the complete results of its searches, each a snapshot that only
\* an upload committed later contradicts, and its candidates stay the ones
\* RetrievalPostProcessor.fuse() selected, whatever its reranking does.
THEOREM RankingInvHolds == Spec => []RankingInv
<1> QED
  BY InitRanking, StepRanking, PTL DEF Spec

\* RetrievalPostProcessor.fuse() selects what the reference without loops does, for
\* any results: each text once, at most MaxChunksPerDocument chunks of a document,
\* the best RerankCandidateLimit of them in the order of their scores; and a chunk
\* that every search ranks higher than a candidate has lost no place to it.
THEOREM FusionSelectsTheBest == Spec => []FusionIsCorrect
<1>1. RankingInv => FusionIsCorrect
  BY RankingInvImplies
<1> QED
  BY <1>1, RankingInvHolds, PTL

\* Whatever the rerank provider answers, and whether it answers at all, reranking
\* passes on as many distinct candidates as it was asked for, the best ones in
\* fusion order when it degrades.
THEOREM RerankingLosesNothing == Spec => []RerankKeepsTheSelection
<1>1. RankingInv => RerankKeepsTheSelection
  BY RankingInvImplies
<1> QED
  BY <1>1, RankingInvHolds, PTL

\* fuse() refuses the results of a request as inconsistent only when a document was
\* renamed between two of its searches, and candidates of two versions of one
\* document mean that an upload activated a version meanwhile.
THEOREM DisagreementsAreExplained == Spec => []DisagreementsHaveACause
<1>1. RankingInv => DisagreementsHaveACause
  BY RankingInvImplies
<1> QED
  BY <1>1, RankingInvHolds, PTL
=============================================================================
