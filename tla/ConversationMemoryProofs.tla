---------------------- MODULE ConversationMemoryProofs ----------------------
(***************************************************************************)
(* The memory of a conversation for any number of turns and any window,    *)
(* trigger and number of failing refreshes.  The argument: turns complete  *)
(* one at a time at the end of the log, so what lies at or below a summary *)
(* boundary never changes again and a summary row, once exact, stays so    *)
(* however late a refresh is that has read it; a refresh may only save     *)
(* over the boundary it has read; and it leaves the recent window out.     *)
(***************************************************************************)
EXTENDS ConversationMemory, FiniteSetTheorems, SequenceTheorems, TLAPS

-----------------------------------------------------------------------------
(* The inductive invariant                                                 *)

Retained == 2 * RecentTurns

\* Of a set of ordinals.
Above(S, n) == {m \in S : m > n}
UpTo(S, n) == {m \in S : m <= n}
Between(S, b, n) == {m \in S : m > b /\ m <= n}

Summaries == [boundary : Nat, count : Nat, covered : SUBSET Nat]
TurnPcs == {"load_summary", "load_window", "answering"}
RefreshPcs == {"prepare_summary", "prepare_messages", "summarizing", "save_summary"}

TypeOK ==
  /\ messages \in Seq([turn : Requests, role : {"user", "assistant"}])
  /\ status \in [Requests -> {"absent", "running", "answered", "unanswered"}]
  /\ summary \in Summaries
  /\ pc \in [Requests -> {"idle", "finished", "dropped"} \union TurnPcs \union RefreshPcs]
  /\ base \in [Requests -> Summaries]
  /\ window \in [Requests -> SUBSET Nat]
  /\ selected \in [Requests -> SUBSET Nat]
  /\ failures \in Nat

\* Where a request is tells what became of its turn.
TurnShape(r) ==
  /\ status[r] = "absent" <=> pc[r] = "idle"
  /\ status[r] = "running" <=> pc[r] \in TurnPcs
  /\ pc[r] \in RefreshPcs \union {"dropped"} => status[r] = "answered"

\* The running turn is the last one and has asked only.
RunningShape ==
  \A r \in Requests : status[r] = "running" =>
    /\ \A q \in Requests : status[q] = "running" => q = r
    /\ Len(messages) > 0
    /\ messages[Len(messages)] = [turn |-> r, role |-> "user"]
    /\ \A n \in 1..(Len(messages) - 1) : messages[n].turn # r

\* A turn has one question, directly followed by its answer if it has one.
LogShape ==
  /\ \A n \in Ordinals : status[messages[n].turn] # "absent"
  /\ \A r \in Requests : status[r] = "answered" =>
       \E n \in Ordinals : n + 1 \in Ordinals
                           /\ messages[n] = [turn |-> r, role |-> "user"]
                           /\ messages[n + 1] = [turn |-> r, role |-> "assistant"]
                           /\ \A m \in Ordinals : messages[m].turn = r => m \in {n, n + 1}

\* A summary, new or outdated, that accounts for the completed messages up to
\* its boundary and was written with the window above it already full.
Exact(C, s) ==
  /\ s.covered = Between(C, 0, s.boundary)
  /\ s.count = Cardinality(s.covered)
  /\ s.boundary # 0 =>
       /\ s.boundary \in C
       /\ Cardinality(Above(C, s.boundary)) >= Retained
       /\ Cardinality(C) \div 2 > TriggerTurns

\* What a refresh has selected over boundary b when n was the last completed
\* message: those up to some m, with exactly the window left above it.
Selection(C, b, S, n) ==
  \E m \in S :
    /\ m > b
    /\ m \in C
    /\ S = Between(C, b, m)
    /\ Cardinality(Between(C, m, n)) = Retained
    /\ Cardinality(Between(C, 0, n)) \div 2 > TriggerTurns

HasSelected(r) ==
  \E n \in CompletedMessages :
    /\ Selection(CompletedMessages, base[r].boundary, selected[r], n)
    /\ \A k \in Ordinals : messages[k].turn = r => k <= n

\* A finished refresh of the turn of message n has left at most a window
\* unsummarised, or the conversation was too short for a first summary.
Settled(C, b, n) ==
  \/ Cardinality(Between(C, b, n)) <= Retained
  \/ b = 0 /\ Cardinality(Between(C, 0, n)) \div 2 <= TriggerTurns

\* The turns and their messages.
LogInv ==
  /\ TypeOK
  /\ \A r \in Requests : TurnShape(r)
  /\ RunningShape
  /\ LogShape

\* The summary, and what the refreshes hold of it.
SummaryInv ==
  /\ Exact(CompletedMessages, summary)
  /\ \A r \in Requests : /\ Exact(CompletedMessages, base[r])
                         /\ base[r].boundary <= summary.boundary
  /\ \A r \in Requests : pc[r] \in {"summarizing", "save_summary"} => HasSelected(r)

\* What the finished refreshes have left.
SettledInv ==
  \A n \in CompletedMessages :
    pc[messages[n].turn] = "finished" => Settled(CompletedMessages, summary.boundary, n)

IInv == LogInv /\ SummaryInv /\ SettledInv

-----------------------------------------------------------------------------
(* Sets of ordinals                                                        *)


LEMMA LeastExists ==
  ASSUME NEW T \in SUBSET Nat, T # {}
  PROVE  \E m \in T : \A n \in T : m <= n
<1>1. PICK m \in T : \A n \in T : ~ (<<n, m>> \in OpToRel(<, Nat))
  BY NatLessThanWellFounded, WFMin
<1>2. \A n \in T : ~ (n < m)
  BY <1>1 DEF OpToRel
<1>3. QED  BY <1>2

LEMMA GreatestExists ==
  ASSUME NEW k \in Nat, NEW T \in SUBSET (1..k), T # {}
  PROVE  \E m \in T : \A n \in T : n <= m
<1> DEFINE D == {k - n : n \in T}
<1>1. D \in SUBSET Nat
  OBVIOUS
<1>2. D # {}
  OBVIOUS
<1> HIDE DEF D
<1>3. PICK d \in D : \A e \in D : d <= e
  BY <1>1, <1>2, LeastExists
<1>4. PICK m \in T : d = k - m
  BY DEF D
<1>5. \A n \in T : k - m <= k - n
  BY <1>3, <1>4 DEF D
<1>6. QED  BY <1>5

LEMMA Counted ==
  ASSUME NEW k \in Nat, NEW S \in SUBSET (1..k)
  PROVE  IsFiniteSet(S) /\ Cardinality(S) \in Nat
<1>1. IsFiniteSet(1..k)
  BY FS_Interval
<1>2. QED  BY <1>1, FS_Subset, FS_CardinalityType

LEMMA Monotone ==
  ASSUME NEW k \in Nat, NEW S \in SUBSET (1..k), NEW T \in SUBSET S
  PROVE  /\ Cardinality(T) <= Cardinality(S)
         /\ T # S => Cardinality(T) < Cardinality(S)
<1>1. T \in SUBSET (1..k)
  OBVIOUS
<1>2. /\ IsFiniteSet(S)
      /\ Cardinality(S) \in Nat
      /\ Cardinality(T) \in Nat
  BY <1>1, Counted
<1>3. /\ Cardinality(T) <= Cardinality(S)
      /\ Cardinality(S) = Cardinality(T) => S = T
  BY <1>2, FS_Subset
<1>4. QED  BY <1>2, <1>3

LEMMA SplitCount ==
  ASSUME NEW k \in Nat, NEW S \in SUBSET (1..k), NEW n \in Nat
  PROVE  Cardinality(S) = Cardinality(UpTo(S, n)) + Cardinality(Above(S, n))
<1>0. UpTo(S, n) \in SUBSET (1..k) /\ Above(S, n) \in SUBSET (1..k)
  BY DEF Above, UpTo
<1>1. \A x \in S : x <= n \/ x > n
  OBVIOUS
<1>2. UpTo(S, n) \union Above(S, n) = S
  BY <1>1 DEF Above, UpTo
<1>3. UpTo(S, n) \intersect Above(S, n) = {}
  <2>1. \A x \in S : ~(x <= n /\ x > n)
    OBVIOUS
  <2>2. QED  BY <2>1 DEF Above, UpTo
<1>4. /\ IsFiniteSet(UpTo(S, n)) /\ Cardinality(UpTo(S, n)) \in Nat
      /\ IsFiniteSet(Above(S, n)) /\ Cardinality(Above(S, n)) \in Nat
  BY <1>0, Counted
<1>5. Cardinality(S) = Cardinality(UpTo(S, n)) + Cardinality(Above(S, n)) - Cardinality({})
  BY <1>2, <1>3, <1>4, FS_Union
<1>6. Cardinality({}) = 0
  BY FS_EmptySet
<1>7. QED  BY <1>4, <1>5, <1>6

\* A set that has more than k elements splits, at one of them, into those that
\* Latest leaves out and the k it keeps.
LEMMA LatestSplit ==
  ASSUME NEW k \in Nat, NEW S \in SUBSET (1..k), NEW c \in Nat, Cardinality(S) > c
  PROVE  \E m \in S : /\ S \ Latest(S, c) = UpTo(S, m)
                      /\ Latest(S, c) = Above(S, m)
                      /\ Cardinality(Above(S, m)) = c
<1> DEFINE D == {n \in S : Cardinality(Above(S, n)) >= c}
<1>a. \A n \in S : n \in Nat /\ Above(S, n) \in SUBSET (1..k)
  <2>1. \A n : Above(S, n) \subseteq S
    BY DEF Above
  <2>2. \A n : Above(S, n) \in SUBSET (1..k)
    BY <2>1, Zenon
  <2>3. \A n \in S : n \in Nat
    OBVIOUS
  <2>4. QED  BY <2>2, <2>3, Zenon
<1>b. \A n \in S : Cardinality(Above(S, n)) \in Nat
  BY <1>a, Counted
<1>0. \A n \in S : n \in Nat /\ Above(S, n) \in SUBSET (1..k) /\ Cardinality(Above(S, n)) \in Nat
  BY <1>a, <1>b
<1>c. Latest(S, c) = {n \in S : Cardinality(Above(S, n)) < c}
  BY DEF Latest, Above
<1>1. S \ Latest(S, c) = D
  <2>1. \A n \in S : Cardinality(Above(S, n)) >= c <=> ~(Cardinality(Above(S, n)) < c)
    BY <1>0
  <2>2. QED  BY <2>1, <1>c, Zenon
<1>2. \A m, n \in S : m < n => Cardinality(Above(S, n)) < Cardinality(Above(S, m))
  <2>1. ASSUME NEW m \in S, NEW n \in S, m < n
        PROVE  Cardinality(Above(S, n)) < Cardinality(Above(S, m))
    <3>1. Above(S, n) \in SUBSET Above(S, m)
      <4>1. \A x \in S : x > n => x > m
        BY <2>1, <1>0
      <4>2. QED  BY <4>1 DEF Above
    <3>2. n \in Above(S, m) /\ n \notin Above(S, n)
      BY <2>1, <1>0 DEF Above
    <3>3. QED  BY <3>1, <3>2, <1>0, Monotone
  <2>2. QED  BY <2>1
<1>3. \E m \in S : \A n \in S : m <= n
  <2>0. Cardinality(S) # 0
    BY Counted
  <2>1. S # {}
    BY <2>0, FS_EmptySet
  <2>2. S \in SUBSET Nat
    OBVIOUS
  <2>3. QED  BY <2>1, <2>2, LeastExists
<1>4. D # {}
  <2>1. PICK m \in S : \A n \in S : m <= n
    BY <1>3
  <2>2. S \ {m} = Above(S, m)
    <3>1. \A n \in S : n # m <=> n > m
      BY <2>1, <1>a
    <3>2. QED  BY <3>1 DEF Above
  <2>c. IsFiniteSet(S) /\ Cardinality(S) \in Nat
    BY Counted
  <2>3. Cardinality(S \ {m}) = Cardinality(S) - 1
    BY <2>c, FS_RemoveElement
  <2>d. Cardinality(Above(S, m)) = Cardinality(S) - 1
    BY <2>2, <2>3, Zenon
  <2>4. Cardinality(Above(S, m)) >= c
    BY <2>d, <2>c
  <2>5. QED  BY <2>4
<1>5. PICK m \in D : \A n \in D : n <= m
  BY <1>4, GreatestExists
<1>6. D = UpTo(S, m)
  <2>1. ASSUME NEW n \in S, n <= m
        PROVE  Cardinality(Above(S, n)) >= c
    BY <2>1, <1>0, <1>2, <1>5
  <2>2. \A n \in S : n \in D <=> n <= m
    BY <2>1, <1>5
  <2>3. QED  BY <2>2 DEF UpTo
<1>7. Latest(S, c) = Above(S, m)
  <2>1. \A n \in S : n \in Latest(S, c) <=> n \notin UpTo(S, m)
    BY <1>1, <1>6
  <2>2. \A n \in S : n \in Latest(S, c) <=> n > m
    BY <2>1, <1>0, <1>5 DEF UpTo
  <2>3. QED  BY <2>2 DEF Above, Latest
<1>8. Cardinality(Above(S, m)) = c
  <2>1. SUFFICES ASSUME Cardinality(Above(S, m)) > c
                 PROVE  FALSE
    BY <1>0, <1>5
  <2>b. Cardinality(Above(S, m)) # 0
    BY <2>1, <1>0, <1>5
  <2>c. IsFiniteSet(Above(S, m))
    BY <1>0, <1>5, Counted
  <2>a. Cardinality(Above(S, m)) # 0 /\ IsFiniteSet(Above(S, m))
    BY <2>b, <2>c
  <2>2. Above(S, m) # {} /\ Above(S, m) \in SUBSET Nat
    BY <2>a, <1>0, <1>5, FS_EmptySet
  <2>3. PICK n \in Above(S, m) : \A x \in Above(S, m) : n <= x
    BY <2>2, LeastExists
  <2>4. n \in S /\ n > m /\ n \in Nat
    BY <2>3, <1>0 DEF Above
  <2>5. Above(S, m) \ {n} = Above(S, n)
    <3>1. \A x \in S : x > m /\ x # n => x > n
      BY <2>3, <1>0 DEF Above
    <3>2. \A x \in S : x > n => x > m /\ x # n
      BY <2>4, <1>0, <1>5
    <3>3. QED  BY <3>1, <3>2 DEF Above
  <2>6. Cardinality(Above(S, m) \ {n}) = Cardinality(Above(S, m)) - 1
    BY <2>a, <2>3, FS_RemoveElement
  <2>d. Cardinality(Above(S, n)) = Cardinality(Above(S, m)) - 1
    BY <2>5, <2>6, Zenon
  <2>7. Cardinality(Above(S, n)) >= c
    BY <2>1, <2>d, <1>0, <1>5
  <2>8. n \in D
    BY <2>4, <2>7
  <2>9. QED  BY <2>8, <2>4, <1>5, <1>0
<1>9. QED  BY <1>1, <1>5, <1>6, <1>7, <1>8

LEMMA HalfMonotone ==
  ASSUME NEW a \in Nat, NEW b \in Nat, a <= b
  PROVE  a \div 2 <= b \div 2 /\ a \div 2 \in Nat /\ b \div 2 \in Nat
OBVIOUS

\* An interval of a set of ordinals, and its size.
LEMMA BetweenCounted ==
  ASSUME NEW k \in Nat, NEW C \in SUBSET (1..k)
  PROVE  /\ \A b, n : Between(C, b, n) \in SUBSET (1..k) /\ Above(C, b) \in SUBSET (1..k)
         /\ \A b, n : IsFiniteSet(Between(C, b, n)) /\ Cardinality(Between(C, b, n)) \in Nat
         /\ \A b : IsFiniteSet(Above(C, b)) /\ Cardinality(Above(C, b)) \in Nat
         /\ IsFiniteSet(C) /\ Cardinality(C) \in Nat
<1>1. \A b, n : Between(C, b, n) \subseteq C /\ Above(C, b) \subseteq C
  BY DEF Between, Above
<1>2. \A b, n : Between(C, b, n) \in SUBSET (1..k) /\ Above(C, b) \in SUBSET (1..k)
  BY <1>1, Zenon
<1>3. \A b, n : IsFiniteSet(Between(C, b, n)) /\ Cardinality(Between(C, b, n)) \in Nat
  BY <1>2, Counted
<1>4. \A b : IsFiniteSet(Above(C, b)) /\ Cardinality(Above(C, b)) \in Nat
  BY <1>2, Counted
<1>5. IsFiniteSet(C) /\ Cardinality(C) \in Nat
  BY Counted
<1>6. QED  BY <1>2, <1>3, <1>4, <1>5, Zenon

LEMMA BetweenUnion ==
  ASSUME NEW k \in Nat, NEW C \in SUBSET (1..k),
         NEW b \in Nat, NEW m \in Nat, NEW n \in Nat, b <= m, m <= n
  PROVE  /\ Between(C, b, n) = Between(C, b, m) \union Between(C, m, n)
         /\ Between(C, b, m) \intersect Between(C, m, n) = {}
<1>1. \A x \in C : x \in Nat
  OBVIOUS
<1>2. \A x \in C : x > b /\ x <= n <=> (x > b /\ x <= m) \/ (x > m /\ x <= n)
  BY <1>1
<1>3. \A x \in C : ~(x > m /\ x <= m)
  BY <1>1
<1>4. QED  BY <1>2, <1>3 DEF Between

LEMMA BetweenCount ==
  ASSUME NEW k \in Nat, NEW C \in SUBSET (1..k),
         NEW b \in Nat, NEW m \in Nat, NEW n \in Nat, b <= m, m <= n
  PROVE  Cardinality(Between(C, b, n))
           = Cardinality(Between(C, b, m)) + Cardinality(Between(C, m, n))
<1>1. /\ Between(C, b, n) = Between(C, b, m) \union Between(C, m, n)
      /\ Between(C, b, m) \intersect Between(C, m, n) = {}
  BY BetweenUnion
<1>2. /\ IsFiniteSet(Between(C, b, m)) /\ Cardinality(Between(C, b, m)) \in Nat
      /\ IsFiniteSet(Between(C, m, n)) /\ Cardinality(Between(C, m, n)) \in Nat
  BY BetweenCounted
<1>3. Cardinality(Between(C, b, m) \union Between(C, m, n))
        = Cardinality(Between(C, b, m)) + Cardinality(Between(C, m, n)) - Cardinality({})
  BY <1>1, <1>2, FS_Union
<1>4. Cardinality({}) = 0
  BY FS_EmptySet
<1>5. Cardinality(Between(C, b, n))
        = Cardinality(Between(C, b, m)) + Cardinality(Between(C, m, n)) - 0
  BY <1>1, <1>3, <1>4, Zenon
<1>6. QED  BY <1>2, <1>5

LEMMA PrefixCount ==
  ASSUME NEW k \in Nat, NEW C \in SUBSET (1..k), NEW b \in Nat, NEW m \in Nat, b <= m
  PROVE  Cardinality(Between(C, 0, m))
           = Cardinality(Between(C, 0, b)) + Cardinality(Between(C, b, m))
<1>1. 0 \in Nat /\ 0 <= b
  OBVIOUS
<1>2. QED  BY <1>1, BetweenCount

LEMMA BetweenShrinks ==
  ASSUME NEW k \in Nat, NEW C \in SUBSET (1..k),
         NEW a \in Nat, NEW b \in Nat, NEW m \in Nat, NEW n \in Nat, a <= b, m <= n
  PROVE  /\ Cardinality(Between(C, b, m)) <= Cardinality(Between(C, a, n))
         /\ Cardinality(Between(C, b, m)) <= Cardinality(Above(C, a))
         /\ Cardinality(Between(C, b, m)) <= Cardinality(C)
<1>1. /\ Between(C, b, m) \subseteq Between(C, a, n)
      /\ Between(C, b, m) \subseteq Above(C, a)
      /\ Between(C, b, m) \subseteq C
  <2>1. \A x \in C : x > b /\ x <= m => x > a /\ x <= n
    OBVIOUS
  <2>2. QED  BY <2>1 DEF Between, Above
<1>2. QED  BY <1>1, BetweenCounted, Monotone

\* Seen from its greatest element a set is bounded.
LEMMA BetweenTop ==
  ASSUME NEW k \in Nat, NEW C \in SUBSET (1..k), NEW t \in Nat,
         \A x \in C : x <= t, NEW b \in Nat
  PROVE  Between(C, b, t) = Above(C, b) /\ Between(C, 0, t) = C
<1>1. \A x \in C : x > 0
  OBVIOUS
<1>2. QED  BY <1>1 DEF Between, Above

LEMMA ZeroBetween ==
  ASSUME NEW k \in Nat, NEW C \in SUBSET (1..k), NEW b \in Nat
  PROVE  /\ Between(C, 0, b) = UpTo(C, b)
         /\ Cardinality(C) = Cardinality(Between(C, 0, b)) + Cardinality(Above(C, b))
<1>1. \A x \in C : x > 0
  OBVIOUS
<1>2. Between(C, 0, b) = UpTo(C, b)
  BY <1>1 DEF Between, UpTo
<1>3. QED  BY <1>2, SplitCount, Zenon

-----------------------------------------------------------------------------
(* Summaries                                                               *)

\* Turns complete at the end of the log: D has grown from C.
GrowsTo(C, D) == C \subseteq D /\ \A n \in C, m \in D : m \notin C => m > n

LEMMA BetweenStays ==
  ASSUME NEW k \in Nat, NEW C \in SUBSET (1..k), NEW D \in SUBSET (1..k), GrowsTo(C, D),
         NEW n \in C
  PROVE  \A b : Between(D, b, n) = Between(C, b, n)
<1>1. \A m \in D : m <= n => m \in C
  BY DEF GrowsTo
<1>2. QED  BY <1>1 DEF Between, GrowsTo

LEMMA ExactStays ==
  ASSUME NEW k \in Nat, NEW C \in SUBSET (1..k), NEW D \in SUBSET (1..k), GrowsTo(C, D),
         NEW s \in Summaries, Exact(C, s)
  PROVE  Exact(D, s)
<1>0. MemoryAssumption
  BY MemoryAssumption
<1>1. CASE s.boundary = 0
  <2>1. \A x \in D : ~(x > 0 /\ x <= 0)
    OBVIOUS
  <2>2. Between(D, 0, 0) = {} /\ Between(C, 0, 0) = {}
    BY <2>1 DEF Between, GrowsTo
  <2>3. QED  BY <1>1, <2>2, Zenon DEF Exact
<1>2. CASE s.boundary # 0
  <2>1. s.boundary \in C /\ s.boundary \in D
    BY <1>2 DEF Exact, GrowsTo
  <2>2. Between(D, 0, s.boundary) = Between(C, 0, s.boundary)
    BY <2>1, BetweenStays
  <2>3. Above(C, s.boundary) \in SUBSET Above(D, s.boundary) /\ C \in SUBSET D
    BY DEF GrowsTo, Above
  <2>4. /\ Cardinality(Above(C, s.boundary)) <= Cardinality(Above(D, s.boundary))
        /\ Cardinality(C) <= Cardinality(D)
    BY <2>3, BetweenCounted, Monotone
  <2>5. /\ Cardinality(Above(C, s.boundary)) \in Nat /\ Cardinality(Above(D, s.boundary)) \in Nat
        /\ Cardinality(C) \in Nat /\ Cardinality(D) \in Nat
    BY BetweenCounted
  <2>6. Cardinality(Above(D, s.boundary)) >= Retained
    <3>1. Cardinality(Above(C, s.boundary)) >= Retained
      BY <1>2 DEF Exact
    <3>2. QED  BY <1>0, <2>4, <2>5, <3>1 DEF Retained, MemoryAssumption
  <2>7. Cardinality(D) \div 2 > TriggerTurns
    <3>1. Cardinality(C) \div 2 > TriggerTurns
      BY <1>2 DEF Exact
    <3>2. Cardinality(C) \div 2 <= Cardinality(D) \div 2
          /\ Cardinality(C) \div 2 \in Nat /\ Cardinality(D) \div 2 \in Nat
      BY <2>4, <2>5, HalfMonotone
    <3>3. QED  BY <1>0, <3>1, <3>2 DEF MemoryAssumption
  <2>8. QED  BY <2>1, <2>2, <2>6, <2>7, Zenon DEF Exact
<1>3. QED  BY <1>1, <1>2

LEMMA SelectionStays ==
  ASSUME NEW k \in Nat, NEW C \in SUBSET (1..k), NEW D \in SUBSET (1..k), GrowsTo(C, D),
         NEW b, NEW S, NEW n \in C, Selection(C, b, S, n)
  PROVE  Selection(D, b, S, n)
<1>1. PICK m \in S : /\ m > b
                     /\ m \in C
                     /\ S = Between(C, b, m)
                     /\ Cardinality(Between(C, m, n)) = Retained
                     /\ Cardinality(Between(C, 0, n)) \div 2 > TriggerTurns
  BY DEF Selection
<1>2. /\ \A a : Between(D, a, m) = Between(C, a, m)
      /\ \A a : Between(D, a, n) = Between(C, a, n)
  BY <1>1, BetweenStays
<1>3. m \in D
  BY <1>1 DEF GrowsTo
<1>4. QED  BY <1>1, <1>2, <1>3, Zenon DEF Selection

LEMMA SettledStays ==
  ASSUME NEW k \in Nat, NEW C \in SUBSET (1..k), NEW D \in SUBSET (1..k), GrowsTo(C, D),
         NEW b, NEW n \in C, Settled(C, b, n)
  PROVE  Settled(D, b, n)
<1>1. \A a : Between(D, a, n) = Between(C, a, n)
  BY BetweenStays
<1>2. QED  BY <1>1, Zenon DEF Settled

\* What a refresh that is due selects.
LEMMA SelectionOfDue ==
  ASSUME NEW k \in Nat, NEW C \in SUBSET (1..k), NEW s \in Summaries, Exact(C, s),
         (s.count + Cardinality(Above(C, s.boundary))) \div 2 > TriggerTurns,
         Cardinality(Above(C, s.boundary)) > Retained
  PROVE  \E t \in C :
           /\ \A n \in C : n <= t
           /\ Selection(C, s.boundary,
                        Above(C, s.boundary) \ Latest(Above(C, s.boundary), Retained), t)
<1> DEFINE b == s.boundary
           A == Above(C, b)
<1>0. b \in Nat /\ Retained \in Nat
  BY MemoryAssumption DEF Summaries, Retained, MemoryAssumption
<1>1. A \in SUBSET (1..k)
  BY BetweenCounted
<1>2. PICK m \in A : /\ A \ Latest(A, Retained) = UpTo(A, m)
                     /\ Cardinality(Above(A, m)) = Retained
  BY <1>0, <1>1, LatestSplit
<1>3. m \in C /\ m > b /\ m \in Nat
  BY <1>2 DEF Above
<1>4. PICK t \in C : \A n \in C : n <= t
  BY <1>3, GreatestExists
<1>5. UpTo(A, m) = Between(C, b, m)
  BY DEF UpTo, Above, Between
<1>6. Above(A, m) = Between(C, m, t)
  <2>1. \A x \in C : x > b /\ x > m <=> x > m /\ x <= t
    BY <1>0, <1>3, <1>4
  <2>2. QED  BY <2>1 DEF Above, Between
<1>7. Cardinality(Between(C, 0, t)) \div 2 > TriggerTurns
  <2>0. t \in Nat
    OBVIOUS
  <2>1. Between(C, 0, t) = C
    BY <2>0, <1>0, <1>4, BetweenTop
  <2>2. Cardinality(C) = Cardinality(Between(C, 0, b)) + Cardinality(A)
    BY <1>0, ZeroBetween
  <2>3. Cardinality(C) = s.count + Cardinality(A)
    BY <2>2, Zenon DEF Exact
  <2>4. QED  BY <2>1, <2>3, Zenon
<1>8. m \in UpTo(A, m)
  BY <1>2, <1>3 DEF UpTo
<1>9. Selection(C, b, A \ Latest(A, Retained), t)
  BY <1>2, <1>3, <1>5, <1>6, <1>7, <1>8, Zenon DEF Selection
<1>10. QED  BY <1>4, <1>9

\* The candidate that a refresh builds from summary s and selection S.
MergeOf(s, S) == [boundary |-> CHOOSE x \in S : \A y \in S : y <= x,
                  count |-> s.count + Cardinality(S),
                  covered |-> s.covered \union S]

\* The candidate that a refresh builds from an exact summary is exact.
LEMMA MergeIsExact ==
  ASSUME NEW k \in Nat, NEW C \in SUBSET (1..k), NEW s \in Summaries, Exact(C, s),
         NEW S, NEW n \in C, Selection(C, s.boundary, S, n)
  PROVE  /\ MergeOf(s, S) \in Summaries
         /\ Exact(C, MergeOf(s, S))
         /\ MergeOf(s, S).boundary \in C
         /\ MergeOf(s, S).boundary > s.boundary
         /\ Cardinality(Between(C, MergeOf(s, S).boundary, n)) = Retained
         /\ Cardinality(Between(C, 0, n)) \div 2 > TriggerTurns
<1> DEFINE c == MergeOf(s, S)
<1>0. s.boundary \in Nat /\ s.count \in Nat /\ s.covered \in SUBSET Nat
      /\ Retained \in Nat /\ TriggerTurns \in Nat
  BY MemoryAssumption DEF Summaries, Retained, MemoryAssumption
<1>1. PICK m \in S : /\ m > s.boundary
                     /\ m \in C
                     /\ S = Between(C, s.boundary, m)
                     /\ Cardinality(Between(C, m, n)) = Retained
                     /\ Cardinality(Between(C, 0, n)) \div 2 > TriggerTurns
  BY DEF Selection
<1>2. (CHOOSE x \in S : \A y \in S : y <= x) = m
  <2>1. \A y \in S : y <= m /\ y \in Nat
    BY <1>1 DEF Between
  <2>2. \A x \in S : (\A y \in S : y <= x) => x = m
    BY <1>1, <2>1
  <2>3. QED  BY <2>1, <2>2
<1>3. /\ c.boundary = m
      /\ c.count = s.count + Cardinality(S)
      /\ c.covered = s.covered \union S
      /\ c = [boundary |-> m, count |-> c.count, covered |-> c.covered]
  BY <1>2 DEF MergeOf
<1> HIDE DEF c
<1>4. m \in Nat /\ 0 <= s.boundary /\ s.boundary <= m
  BY <1>0, <1>1
<1>5. /\ Between(C, 0, m) = Between(C, 0, s.boundary) \union S
      /\ Cardinality(Between(C, 0, m)) = Cardinality(Between(C, 0, s.boundary)) + Cardinality(S)
  <2>1. k \in Nat /\ C \in SUBSET (1..k)
    OBVIOUS
  <2>2. s.boundary \in Nat /\ s.boundary <= m /\ m \in Nat
    BY <1>0, <1>4
  <2>3. Between(C, 0, m) = Between(C, 0, s.boundary) \union Between(C, s.boundary, m)
    <3>1. \A x \in C : x > 0 /\ x <= m
                        <=> (x > 0 /\ x <= s.boundary) \/ (x > s.boundary /\ x <= m)
      BY <2>1, <2>2
    <3>2. QED  BY <3>1 DEF Between
  <2>4. Cardinality(Between(C, 0, m))
          = Cardinality(Between(C, 0, s.boundary)) + Cardinality(Between(C, s.boundary, m))
    BY <2>1, <2>2, PrefixCount
  <2>5. QED  BY <2>3, <2>4, <1>1, Zenon
<1>6. c.covered = Between(C, 0, m) /\ c.count = Cardinality(Between(C, 0, m))
  BY <1>3, <1>5, Zenon DEF Exact
<1>7. Between(C, 0, m) \in SUBSET Nat /\ Cardinality(Between(C, 0, m)) \in Nat
  <2>1. Between(C, 0, m) \in SUBSET (1..k) /\ Cardinality(Between(C, 0, m)) \in Nat
    BY BetweenCounted
  <2>2. QED  BY <2>1
<1>8. c \in Summaries
  BY <1>3, <1>4, <1>6, <1>7 DEF Summaries
<1>9. n \in Nat /\ m <= n
  <2>1. n \in Nat
    OBVIOUS
  <2>2. SUFFICES ASSUME m > n
                 PROVE  FALSE
    BY <2>1, <1>4
  <2>a. \A x \in C : ~(x > m /\ x <= n)
    BY <2>2, <1>4, <2>1
  <2>3. Between(C, m, n) = {}
    BY <2>a DEF Between
  <2>4. Retained = 0
    BY <2>3, <1>1, FS_EmptySet, Zenon
  <2>5. QED  BY <2>4, MemoryAssumption DEF Retained, MemoryAssumption
<1>10. Cardinality(Above(C, m)) >= Retained
  <2>0. m <= m /\ n <= n
    BY <1>4, <1>9
  <2>1. Cardinality(Between(C, m, n)) <= Cardinality(Above(C, m))
    BY <2>0, <1>4, <1>9, BetweenShrinks
  <2>2. Cardinality(Above(C, m)) \in Nat
    BY BetweenCounted
  <2>3. QED  BY <2>1, <2>2, <1>1, <1>0
<1>11. Cardinality(C) \div 2 > TriggerTurns
  <2>0. 0 \in Nat /\ 0 <= 0 /\ n <= n
    BY <1>9
  <2>1. Cardinality(Between(C, 0, n)) <= Cardinality(C)
    BY <2>0, <1>9, BetweenShrinks
  <2>2. Cardinality(C) \in Nat /\ Cardinality(Between(C, 0, n)) \in Nat
    BY BetweenCounted
  <2>3. /\ Cardinality(Between(C, 0, n)) \div 2 <= Cardinality(C) \div 2
        /\ Cardinality(C) \div 2 \in Nat /\ Cardinality(Between(C, 0, n)) \div 2 \in Nat
    BY <2>1, <2>2, HalfMonotone
  <2>4. QED  BY <2>3, <1>0, <1>1
<1>12. Exact(C, c)
  BY <1>1, <1>3, <1>6, <1>10, <1>11, Zenon DEF Exact
<1>13. QED  BY <1>1, <1>3, <1>8, <1>12, Zenon DEF c

-----------------------------------------------------------------------------
(* The log                                                                 *)

Messages == [turn : Requests, role : {"user", "assistant"}]

LEMMA CompletedBounded ==
  ASSUME TypeOK
  PROVE  /\ Len(messages) \in Nat
         /\ CompletedMessages \in SUBSET (1..Len(messages))
         /\ \A n \in Ordinals : messages[n].turn \in Requests
<1>1. messages \in Seq(Messages)
  BY DEF TypeOK, Messages
<1>2. Len(messages) \in Nat /\ \A n \in 1..Len(messages) : messages[n] \in Messages
  BY <1>1
<1>3. QED  BY <1>2 DEF CompletedMessages, Ordinals, Messages

\* Only the turn's own steps touch the log.
LEMMA LogFrame ==
  ASSUME NEW r \in Requests, Turn(r) \/ Refresh(r)
  PROVE  Begin(r) \/ Answer(r) \/ EndUnanswered(r) \/ UNCHANGED <<messages, status>>
BY DEF Turn, Refresh, LoadSummary, LoadWindow, PrepareSummary, PrepareMessages,
       NothingToSummarize, Summarize, SaveSummary, LoseSummary, RefreshFails

LEMMA PcFrame ==
  ASSUME TypeOK, NEW r \in Requests, Turn(r) \/ Refresh(r)
  PROVE  /\ pc' = [pc EXCEPT ![r] = pc'[r]]
         /\ pc'[r] \in {"finished", "dropped"} \union TurnPcs \union RefreshPcs
         /\ \A q \in Requests : q # r => pc'[q] = pc[q]
<1>1. \E to \in {"finished", "dropped"} \union TurnPcs \union RefreshPcs : pc' = [pc EXCEPT ![r] = to]
  BY DEF Turn, Refresh, Begin, LoadSummary, LoadWindow, Answer, EndUnanswered, PrepareSummary,
         PrepareMessages, NothingToSummarize, Summarize, SaveSummary, LoseSummary, RefreshFails,
         Goto, Finish, End, TurnPcs, RefreshPcs
<1>2. QED  BY <1>1 DEF TypeOK

\* What is completed: an answer adds the question and the answer, at the end;
\* no other step changes it.
LEMMA CompletedStep ==
  ASSUME LogInv, NEW r \in Requests, Turn(r) \/ Refresh(r)
  PROVE  /\ \A n \in Ordinals : n \in Ordinals' /\ messages'[n] = messages[n]
         /\ Len(messages') \in Nat /\ Len(messages) <= Len(messages')
         /\ GrowsTo(CompletedMessages, CompletedMessages')
         /\ \A n \in CompletedMessages' : n \notin CompletedMessages =>
              Answer(r) /\ messages'[n].turn = r
<1>0. /\ Len(messages) \in Nat
      /\ CompletedMessages \in SUBSET (1..Len(messages))
      /\ \A n \in Ordinals : messages[n].turn \in Requests
      /\ messages \in Seq(Messages)
      /\ status \in [Requests -> {"absent", "running", "answered", "unanswered"}]
  BY CompletedBounded DEF LogInv, TypeOK, Messages
<1>1. ASSUME messages' = messages,
             \A n \in Ordinals : status'[messages[n].turn] = "answered"
                                   <=> status[messages[n].turn] = "answered"
      PROVE  /\ \A n \in Ordinals : n \in Ordinals' /\ messages'[n] = messages[n]
             /\ Len(messages') \in Nat /\ Len(messages) <= Len(messages')
             /\ CompletedMessages' = CompletedMessages
  BY <1>0, <1>1 DEF CompletedMessages, Ordinals
<1>2. ASSUME CompletedMessages' = CompletedMessages
      PROVE  /\ GrowsTo(CompletedMessages, CompletedMessages')
             /\ \A n \in CompletedMessages' : n \notin CompletedMessages =>
                  Answer(r) /\ messages'[n].turn = r
  BY <1>2 DEF GrowsTo
<1>3. CASE UNCHANGED <<messages, status>>
  BY <1>1, <1>2, <1>3
<1>4. CASE EndUnanswered(r)
  <2>1. status[r] = "running"
    BY <1>4 DEF EndUnanswered, LogInv, TurnShape, TurnPcs
  <2>2. \A q \in Requests : status'[q] = "answered" <=> status[q] = "answered"
    BY <2>1, <1>0, <1>4 DEF EndUnanswered
  <2>3. QED  BY <1>0, <1>1, <1>2, <1>4, <2>2 DEF EndUnanswered
<1>5. CASE Begin(r)
  <2> DEFINE e == [turn |-> r, role |-> "user"]
  <2>1. status[r] = "absent"
    BY <1>5 DEF Begin, Goto, LogInv, TurnShape
  <2>2. \A q \in Requests : status'[q] = "answered" <=> status[q] = "answered"
    BY <2>1, <1>0, <1>5 DEF Begin
  <2>3. /\ Len(messages') = Len(messages) + 1
        /\ messages'[Len(messages) + 1] = e
        /\ \A n \in Ordinals : messages'[n] = messages[n]
    BY <1>0, <1>5 DEF Begin, Ordinals, Messages
  <2>4. status'[r] = "running"
    BY <1>0, <1>5 DEF Begin
  <2>5. CompletedMessages' = CompletedMessages
    <3>1. \A n : n \in Ordinals' <=> n \in Ordinals \/ n = Len(messages) + 1
      BY <1>0, <2>3 DEF Ordinals
    <3>2. Len(messages) + 1 \notin CompletedMessages'
      BY <2>3, <2>4 DEF CompletedMessages
    <3>3. \A n \in Ordinals : n \in CompletedMessages' <=> n \in CompletedMessages
      BY <1>0, <2>2, <2>3, <3>1 DEF CompletedMessages
    <3>4. QED  BY <3>1, <3>2, <3>3 DEF CompletedMessages
  <2>6. QED  BY <1>0, <1>2, <2>3, <2>5 DEF Ordinals
<1>6. CASE Answer(r)
  <2> DEFINE L == Len(messages)
  <2>1. status[r] = "running"
    BY <1>6 DEF Answer, Goto, LogInv, TurnShape, TurnPcs
  <2>2. /\ L > 0
        /\ messages[L].turn = r
        /\ \A n \in 1..(L - 1) : messages[n].turn # r
    <3>1. /\ L > 0
          /\ messages[L] = [turn |-> r, role |-> "user"]
          /\ \A n \in 1..(L - 1) : messages[n].turn # r
      BY <2>1, Zenon DEF LogInv, RunningShape
    <3>2. QED  BY <3>1
  <2>3. /\ Len(messages') = L + 1
        /\ messages'[L + 1].turn = r
        /\ \A n \in Ordinals : messages'[n] = messages[n]
    BY <1>0, <1>6 DEF Answer, Ordinals, Messages
  <2>4. status'[r] = "answered" /\ \A q \in Requests : q # r => status'[q] = status[q]
    BY <1>0, <1>6 DEF Answer
  <2>5. \A n : n \in Ordinals' <=> n \in Ordinals \/ n = L + 1
    BY <1>0, <2>3 DEF Ordinals
  <2>6. \A n \in Ordinals : n # L => n \in 1..(L - 1)
    BY <1>0 DEF Ordinals
  <2>7. L \notin CompletedMessages
    BY <2>1, <2>2 DEF CompletedMessages
  <2>8. \A n \in Ordinals : n # L => (n \in CompletedMessages' <=> n \in CompletedMessages)
    BY <1>0, <2>2, <2>3, <2>4, <2>5, <2>6 DEF CompletedMessages
  <2>9. \A n \in CompletedMessages' : n \notin CompletedMessages => n \in {L, L + 1}
    BY <2>5, <2>8 DEF CompletedMessages
  <2>10. \A n \in CompletedMessages : n \in CompletedMessages' /\ n < L
    <3>1. \A n \in CompletedMessages : n \in Ordinals /\ n # L
      BY <2>7 DEF CompletedMessages
    <3>2. QED  BY <1>0, <3>1, <2>6, <2>8
  <2>11. GrowsTo(CompletedMessages, CompletedMessages')
    <3>1. \A n \in CompletedMessages, m \in {L, L + 1} : m > n
      BY <1>0, <2>10
    <3>2. \A n \in CompletedMessages, m \in CompletedMessages' : m \notin CompletedMessages => m > n
      BY <3>1, <2>9, Zenon
    <3>3. QED  BY <3>2, <2>10, Zenon DEF GrowsTo
  <2>12. messages'[L].turn = r
    BY <1>0, <2>2, <2>3 DEF Ordinals
  <2>13. QED  BY <1>0, <1>6, <2>3, <2>5, <2>9, <2>11, <2>12
<1>7. QED  BY LogFrame, <1>3, <1>4, <1>5, <1>6

LEMMA TypeStep ==
  ASSUME TypeOK, summary' \in Summaries, NEW r \in Requests, Turn(r) \/ Refresh(r)
  PROVE  TypeOK'
<1>1. messages' \in Seq([turn : Requests, role : {"user", "assistant"}])
  <2>1. \/ messages' = messages
        \/ \E e \in Messages : messages' = Append(messages, e)
    <3>1. \A x \in {"user", "assistant"} : [turn |-> r, role |-> x] \in Messages
      BY DEF Messages
    <3>2. QED  BY <3>1, LogFrame DEF Begin, Answer, EndUnanswered
  <2>2. messages \in Seq(Messages)
    BY DEF TypeOK, Messages
  <2>3. messages' \in Seq(Messages)
    BY <2>1, <2>2
  <2>4. QED  BY <2>3 DEF Messages
<1>2. status' \in [Requests -> {"absent", "running", "answered", "unanswered"}]
  BY LogFrame DEF TypeOK, Begin, Answer, EndUnanswered
<1>3. pc' \in [Requests -> {"idle", "finished", "dropped"} \union TurnPcs \union RefreshPcs]
  BY PcFrame DEF TypeOK
<1>4. NoSummary \in Summaries
  BY DEF NoSummary, Summaries
<1>5. base' \in [Requests -> Summaries]
  <2>1. \E s \in Summaries : base' = base \/ base' = [base EXCEPT ![r] = s]
    BY <1>4 DEF Turn, Refresh, Begin, LoadSummary, LoadWindow, Answer, EndUnanswered,
         PrepareSummary, PrepareMessages, NothingToSummarize, Summarize, SaveSummary,
         LoseSummary, RefreshFails, Finish, End, TypeOK
  <2>2. QED  BY <2>1 DEF TypeOK
<1>6. CompletedMessages \in SUBSET Nat
  BY CompletedBounded
<1>7. window' \in [Requests -> SUBSET Nat] /\ selected' \in [Requests -> SUBSET Nat]
  <2>1. Latest(CompletedMessages, 2 * RecentTurns) \in SUBSET Nat /\ SelectOld(r) \in SUBSET Nat
    BY <1>6 DEF Latest, SelectOld, Unsummarized
  <2>2. \E W \in SUBSET Nat : window' = window \/ window' = [window EXCEPT ![r] = W]
    BY <2>1 DEF Turn, Refresh, Begin, LoadSummary, LoadWindow, Answer, EndUnanswered,
         PrepareSummary, PrepareMessages, NothingToSummarize, Summarize, SaveSummary,
         LoseSummary, RefreshFails, Finish, End
  <2>3. \E S \in SUBSET Nat : selected' = selected \/ selected' = [selected EXCEPT ![r] = S]
    BY <2>1 DEF Turn, Refresh, Begin, LoadSummary, LoadWindow, Answer, EndUnanswered,
         PrepareSummary, PrepareMessages, NothingToSummarize, Summarize, SaveSummary,
         LoseSummary, RefreshFails, Finish, End
  <2>4. QED  BY <2>2, <2>3 DEF TypeOK
<1>8. failures' \in Nat
  BY DEF TypeOK, Turn, Refresh, Begin, LoadSummary, LoadWindow, Answer, EndUnanswered,
         PrepareSummary, PrepareMessages, NothingToSummarize, Summarize, SaveSummary,
         LoseSummary, RefreshFails
<1>9. QED  BY <1>1, <1>2, <1>3, <1>5, <1>7, <1>8, Zenon DEF TypeOK

LEMMA ShapeStep ==
  ASSUME TypeOK, \A q \in Requests : TurnShape(q), NEW r \in Requests, Turn(r) \/ Refresh(r)
  PROVE  \A q \in Requests : TurnShape(q)'
<1>1. TurnShape(r)'
  BY DEF TypeOK, TurnShape, TurnPcs, RefreshPcs, Turn, Refresh, Begin, LoadSummary, LoadWindow,
         Answer, EndUnanswered, PrepareSummary, PrepareMessages, NothingToSummarize, Summarize,
         SaveSummary, LoseSummary, RefreshFails, Goto, Finish, End
<1>2. ASSUME NEW q \in Requests, q # r
      PROVE  TurnShape(q)'
  <2>1. status'[q] = status[q]
    BY <1>2, LogFrame DEF TypeOK, Begin, Answer, EndUnanswered
  <2>2. pc'[q] = pc[q]
    BY <1>2, PcFrame
  <2>3. QED  BY <2>1, <2>2 DEF TurnShape
<1>3. QED  BY <1>1, <1>2

LEMMA RunningStep ==
  ASSUME LogInv, NEW r \in Requests, Turn(r) \/ Refresh(r)
  PROVE  RunningShape'
<1>0. /\ Len(messages) \in Nat
      /\ messages \in Seq(Messages)
      /\ status \in [Requests -> {"absent", "running", "answered", "unanswered"}]
  BY CompletedBounded DEF LogInv, TypeOK, Messages
<1>1. CASE UNCHANGED <<messages, status>>
  BY <1>1 DEF LogInv, RunningShape
<1>2. CASE Answer(r) \/ EndUnanswered(r)
  <2>1. status[r] = "running"
    BY <1>2 DEF Answer, EndUnanswered, Goto, LogInv, TurnShape, TurnPcs
  <2>2. \A q \in Requests : status[q] = "running" => q = r
    BY <2>1, Zenon DEF LogInv, RunningShape
  <2>3. status'[r] # "running" /\ \A q \in Requests : q # r => status'[q] = status[q]
    BY <1>0, <1>2 DEF Answer, EndUnanswered
  <2>4. \A q \in Requests : status'[q] # "running"
    BY <2>2, <2>3
  <2>5. QED  BY <2>4 DEF RunningShape
<1>3. CASE Begin(r)
  <2>1. status[r] = "absent" /\ \A q \in Requests : status[q] # "running"
    BY <1>3 DEF Begin, Goto, Running, LogInv, TurnShape
  <2>2. \A q \in Requests : status'[q] = "running" => q = r
    BY <1>0, <1>3, <2>1 DEF Begin
  <2>3. \A n \in Ordinals : messages[n].turn # r
    BY <2>1 DEF LogInv, LogShape
  <2>4. /\ Len(messages') = Len(messages) + 1
        /\ messages'[Len(messages) + 1] = [turn |-> r, role |-> "user"]
        /\ \A n \in Ordinals : messages'[n] = messages[n]
    BY <1>0, <1>3 DEF Begin, Ordinals, Messages
  <2>5. \A n \in 1..(Len(messages') - 1) : messages'[n].turn # r
    BY <1>0, <2>3, <2>4 DEF Ordinals
  <2>6. Len(messages') > 0 /\ messages'[Len(messages')] = [turn |-> r, role |-> "user"]
    BY <1>0, <2>4
  <2>7. QED  BY <2>2, <2>5, <2>6 DEF RunningShape
<1>4. QED  BY LogFrame, <1>1, <1>2, <1>3

LEMMA LogShapeStep ==
  ASSUME LogInv, NEW r \in Requests, Turn(r) \/ Refresh(r)
  PROVE  LogShape'
<1>0. /\ Len(messages) \in Nat
      /\ \A n \in Ordinals : messages[n].turn \in Requests
      /\ messages \in Seq(Messages)
      /\ status \in [Requests -> {"absent", "running", "answered", "unanswered"}]
  BY CompletedBounded DEF LogInv, TypeOK, Messages
<1>a. /\ \A n \in Ordinals : status[messages[n].turn] # "absent"
      /\ \A q \in Requests : status[q] = "answered" =>
           \E n \in Ordinals :
             /\ n + 1 \in Ordinals
             /\ messages[n] = [turn |-> q, role |-> "user"]
             /\ messages[n + 1] = [turn |-> q, role |-> "assistant"]
             /\ \A m \in Ordinals : messages[m].turn = q => m \in {n, n + 1}
  BY Zenon DEF LogInv, LogShape
<1>1. CASE UNCHANGED <<messages, status>>
  BY <1>1, <1>a DEF LogShape, Ordinals
<1>2. CASE EndUnanswered(r)
  <2>1. messages' = messages
    BY <1>2 DEF EndUnanswered
  <2>2. \A q \in Requests : /\ status'[q] = "absent" => status[q] = "absent"
                            /\ status'[q] = "answered" => status[q] = "answered"
    BY <1>0, <1>2 DEF EndUnanswered
  <2>3. QED  BY <2>1, <2>2, <1>0, <1>a DEF LogShape, Ordinals
<1>3. CASE Begin(r)
  <2> DEFINE L == Len(messages)
  <2>1. /\ Len(messages') = L + 1
        /\ messages'[L + 1].turn = r
        /\ \A n \in Ordinals : messages'[n] = messages[n]
    BY <1>0, <1>3 DEF Begin, Ordinals, Messages
  <2>2. status'[r] = "running" /\ \A q \in Requests : q # r => status'[q] = status[q]
    BY <1>0, <1>3 DEF Begin
  <2>3. \A n : n \in Ordinals' <=> n \in Ordinals \/ n = L + 1
    BY <1>0, <2>1 DEF Ordinals
  <2>4. \A n \in Ordinals' : status'[messages'[n].turn] # "absent"
    BY <2>1, <2>2, <2>3, <1>0, <1>a
  <2>5. ASSUME NEW q \in Requests, status'[q] = "answered"
        PROVE  \E n \in Ordinals' :
                 /\ n + 1 \in Ordinals'
                 /\ messages'[n] = [turn |-> q, role |-> "user"]
                 /\ messages'[n + 1] = [turn |-> q, role |-> "assistant"]
                 /\ \A m \in Ordinals' : messages'[m].turn = q => m \in {n, n + 1}
    <3>1. q # r /\ status[q] = "answered"
      BY <2>2, <2>5
    <3>2. PICK n \in Ordinals :
             /\ n + 1 \in Ordinals
             /\ messages[n] = [turn |-> q, role |-> "user"]
             /\ messages[n + 1] = [turn |-> q, role |-> "assistant"]
             /\ \A m \in Ordinals : messages[m].turn = q => m \in {n, n + 1}
      BY <3>1, <1>a, Zenon
    <3>3. n \in Ordinals' /\ n + 1 \in Ordinals'
      BY <3>2, <2>3
    <3>4. /\ messages'[n] = [turn |-> q, role |-> "user"]
          /\ messages'[n + 1] = [turn |-> q, role |-> "assistant"]
      BY <3>2, <2>1
    <3>5. \A m \in Ordinals' : messages'[m].turn = q => m \in {n, n + 1}
      BY <3>1, <3>2, <2>1, <2>3
    <3>6. QED  BY <3>3, <3>4, <3>5, Zenon
  <2>6. QED  BY <2>4, <2>5, Zenon DEF LogShape
<1>4. CASE Answer(r)
  <2> DEFINE L == Len(messages)
  <2>0. status[r] = "running"
    BY <1>4 DEF Answer, Goto, LogInv, TurnShape, TurnPcs
  <2>1. /\ L > 0
        /\ messages[L] = [turn |-> r, role |-> "user"]
        /\ \A n \in 1..(L - 1) : messages[n].turn # r
    BY <2>0, Zenon DEF LogInv, RunningShape
  <2>2. /\ Len(messages') = L + 1
        /\ messages'[L + 1] = [turn |-> r, role |-> "assistant"]
        /\ \A n \in Ordinals : messages'[n] = messages[n]
    BY <1>0, <1>4 DEF Answer, Ordinals, Messages
  <2>3. status'[r] = "answered" /\ \A q \in Requests : q # r => status'[q] = status[q]
    BY <1>0, <1>4 DEF Answer
  <2>4. \A n : n \in Ordinals' <=> n \in Ordinals \/ n = L + 1
    BY <1>0, <2>2 DEF Ordinals
  <2>t. messages'[L + 1].turn = r
    BY <2>2
  <2>5. \A n \in Ordinals' : status'[messages'[n].turn] # "absent"
    BY <2>2, <2>t, <2>3, <2>4, <1>0, <1>a
  <2>6. ASSUME NEW q \in Requests, status'[q] = "answered"
        PROVE  \E n \in Ordinals' :
                 /\ n + 1 \in Ordinals'
                 /\ messages'[n] = [turn |-> q, role |-> "user"]
                 /\ messages'[n + 1] = [turn |-> q, role |-> "assistant"]
                 /\ \A m \in Ordinals' : messages'[m].turn = q => m \in {n, n + 1}
    <3>1. CASE q = r
      <4>1. L \in Ordinals' /\ L + 1 \in Ordinals' /\ L \in Ordinals
        BY <1>0, <2>1, <2>4 DEF Ordinals
      <4>2. /\ messages'[L] = [turn |-> q, role |-> "user"]
            /\ messages'[L + 1] = [turn |-> q, role |-> "assistant"]
        BY <3>1, <4>1, <2>1, <2>2
      <4>3. \A m \in Ordinals : messages'[m].turn = q => m = L
        <5>1. \A m \in Ordinals : m # L => m \in 1..(L - 1)
          BY <1>0 DEF Ordinals
        <5>2. QED  BY <3>1, <5>1, <2>1, <2>2
      <4>4. \A m \in Ordinals' : messages'[m].turn = q => m \in {L, L + 1}
        BY <4>3, <2>4
      <4>5. QED  BY <4>1, <4>2, <4>4, Zenon
    <3>2. CASE q # r
      <4>1. status[q] = "answered"
        BY <3>2, <2>3, <2>6
      <4>2. PICK n \in Ordinals :
               /\ n + 1 \in Ordinals
               /\ messages[n] = [turn |-> q, role |-> "user"]
               /\ messages[n + 1] = [turn |-> q, role |-> "assistant"]
               /\ \A m \in Ordinals : messages[m].turn = q => m \in {n, n + 1}
        BY <4>1, <1>a, Zenon
      <4>3. n \in Ordinals' /\ n + 1 \in Ordinals'
        BY <4>2, <2>4
      <4>4. /\ messages'[n] = [turn |-> q, role |-> "user"]
            /\ messages'[n + 1] = [turn |-> q, role |-> "assistant"]
        BY <4>2, <2>2
      <4>5. \A m \in Ordinals' : messages'[m].turn = q => m \in {n, n + 1}
        BY <3>2, <4>2, <2>2, <2>t, <2>4
      <4>6. QED  BY <4>3, <4>4, <4>5, Zenon
    <3>3. QED  BY <3>1, <3>2
  <2>7. QED  BY <2>5, <2>6, Zenon DEF LogShape
<1>5. QED  BY LogFrame, <1>1, <1>2, <1>3, <1>4

-----------------------------------------------------------------------------
(* The summary                                                             *)

LEMMA EmptyIsExact ==
  ASSUME NEW k \in Nat, NEW C \in SUBSET (1..k)
  PROVE  NoSummary \in Summaries /\ Exact(C, NoSummary)
<1>1. \A x \in C : ~(x > 0 /\ x <= 0)
  OBVIOUS
<1>2. Between(C, 0, 0) = {}
  BY <1>1 DEF Between
<1>3. Cardinality({}) = 0
  BY FS_EmptySet
<1>4. /\ NoSummary.boundary = 0
      /\ NoSummary.count = 0
      /\ NoSummary.covered = {}
  BY DEF NoSummary
<1>5. NoSummary \in Summaries
  BY DEF NoSummary, Summaries
<1>6. QED  BY <1>2, <1>3, <1>4, <1>5, Zenon DEF Exact

\* What SaveSummary writes.
LEMMA SaveStep ==
  ASSUME LogInv, SummaryInv, NEW r \in Requests, SaveSummary(r)
  PROVE  /\ summary' \in Summaries
         /\ Exact(CompletedMessages, summary')
         /\ summary'.boundary > summary.boundary
         /\ \E n \in CompletedMessages :
              /\ \A k \in Ordinals : messages[k].turn = r => k <= n
              /\ summary'.boundary \in CompletedMessages
              /\ Cardinality(Between(CompletedMessages, summary'.boundary, n)) = Retained
              /\ Cardinality(Between(CompletedMessages, 0, n)) \div 2 > TriggerTurns
<1>1. Len(messages) \in Nat /\ CompletedMessages \in SUBSET (1..Len(messages))
  BY CompletedBounded DEF LogInv
<1>2. base[r] \in Summaries /\ Exact(CompletedMessages, base[r])
  BY DEF LogInv, TypeOK, SummaryInv
<1>3. PICK n \in CompletedMessages :
         /\ Selection(CompletedMessages, base[r].boundary, selected[r], n)
         /\ \A k \in Ordinals : messages[k].turn = r => k <= n
  BY DEF SaveSummary, SummaryInv, HasSelected
<1>4. summary' = MergeOf(base[r], selected[r])
  BY Zenon DEF SaveSummary, Merged, MergeOf
<1> DEFINE k == Len(messages)
           C == CompletedMessages
           s == base[r]
           S == selected[r]
<1>a. /\ k \in Nat /\ C \in SUBSET (1..k) /\ s \in Summaries /\ Exact(C, s) /\ n \in C
      /\ Selection(C, s.boundary, S, n)
  BY <1>1, <1>2, <1>3, Zenon
<1> HIDE DEF k, C, s, S
<1>b. /\ MergeOf(s, S) \in Summaries
      /\ Exact(C, MergeOf(s, S))
      /\ MergeOf(s, S).boundary \in C
      /\ MergeOf(s, S).boundary > s.boundary
      /\ Cardinality(Between(C, MergeOf(s, S).boundary, n)) = Retained
      /\ Cardinality(Between(C, 0, n)) \div 2 > TriggerTurns
  BY <1>a, MergeIsExact
<1>5. /\ summary' \in Summaries
      /\ Exact(CompletedMessages, summary')
      /\ summary'.boundary \in CompletedMessages
      /\ summary'.boundary > base[r].boundary
      /\ Cardinality(Between(CompletedMessages, summary'.boundary, n)) = Retained
      /\ Cardinality(Between(CompletedMessages, 0, n)) \div 2 > TriggerTurns
  BY <1>b, <1>4, Zenon DEF k, C, s, S
<1>6. summary.boundary = base[r].boundary
  BY DEF SaveSummary
<1>7. QED  BY <1>3, <1>5, <1>6, Zenon

LEMMA SummaryFrame ==
  ASSUME NEW r \in Requests, Turn(r) \/ Refresh(r), ~SaveSummary(r)
  PROVE  summary' = summary
BY DEF Turn, Refresh, Begin, LoadSummary, LoadWindow, Answer, EndUnanswered, PrepareSummary,
       PrepareMessages, NothingToSummarize, Summarize, LoseSummary, RefreshFails

LEMMA SummaryStep ==
  ASSUME LogInv, SummaryInv, NEW r \in Requests, Turn(r) \/ Refresh(r)
  PROVE  /\ summary' \in Summaries
         /\ summary.boundary \in Nat /\ summary'.boundary \in Nat
         /\ Exact(CompletedMessages, summary')
         /\ summary' # summary => summary'.boundary > summary.boundary
         /\ summary.boundary <= summary'.boundary
<1>0. summary \in Summaries
  BY DEF LogInv, TypeOK
<1>1. CASE SaveSummary(r)
  <2>1. /\ summary' \in Summaries
        /\ Exact(CompletedMessages, summary')
        /\ summary'.boundary > summary.boundary
    BY <1>1, SaveStep
  <2>2. QED  BY <1>0, <2>1 DEF Summaries
<1>2. CASE ~SaveSummary(r)
  <2>1. summary' = summary
    BY <1>2, SummaryFrame
  <2>2. Exact(CompletedMessages, summary)
    BY DEF SummaryInv
  <2>3. Exact(CompletedMessages, summary')
    BY <2>1, <2>2, Zenon
  <2>4. QED  BY <1>0, <2>1, <2>3 DEF Summaries
<1>3. QED  BY <1>1, <1>2

LEMMA BaseStep ==
  ASSUME LogInv, SummaryInv, NEW r \in Requests, Turn(r) \/ Refresh(r), NEW q \in Requests
  PROVE  base'[q] = base[q] \/ base'[q] = NoSummary \/ base'[q] = summary
<1>1. base' = base \/ \E s : base' = [base EXCEPT ![r] = s] /\ s \in {NoSummary, summary}
  BY DEF Turn, Refresh, Begin, LoadSummary, LoadWindow, Answer, EndUnanswered,
       PrepareSummary, PrepareMessages, NothingToSummarize, Summarize, SaveSummary,
       LoseSummary, RefreshFails, Finish, End
<1>2. QED  BY <1>1 DEF LogInv, TypeOK

\* What a refresh has selected stays valid while the conversation goes on.
LEMMA SelectedStep ==
  ASSUME LogInv, SummaryInv, NEW r \in Requests, Turn(r) \/ Refresh(r), NEW q \in Requests,
         pc'[q] \in {"summarizing", "save_summary"}
  PROVE  HasSelected(q)'
<1> DEFINE C == CompletedMessages
           D == CompletedMessages'
<1>0. /\ Len(messages) \in Nat
      /\ C \in SUBSET (1..Len(messages))
      /\ base[r] \in Summaries /\ Exact(C, base[r])
      /\ base \in [Requests -> Summaries] /\ selected \in [Requests -> SUBSET Nat]
      /\ pc \in [Requests -> {"idle", "finished", "dropped"} \union TurnPcs \union RefreshPcs]
  BY CompletedBounded DEF LogInv, TypeOK, SummaryInv
<1>g. /\ \A n \in Ordinals : n \in Ordinals' /\ messages'[n] = messages[n]
      /\ Len(messages') \in Nat /\ Len(messages) <= Len(messages')
      /\ GrowsTo(C, D)
      /\ \A n \in D : n \notin C => Answer(r) /\ messages'[n].turn = r
  BY CompletedStep
<1>1. CASE PrepareMessages(r) /\ q = r
  <2> DEFINE S == Above(C, base[r].boundary) \ Latest(Above(C, base[r].boundary), Retained)
  <2>1. /\ UNCHANGED <<messages, status, base>>
        /\ selected' = [selected EXCEPT ![r] = SelectOld(r)]
        /\ Due(r) /\ pc[r] = "prepare_messages"
    BY <1>1 DEF PrepareMessages, Goto
  <2>2. SelectOld(r) = S
    BY Zenon DEF SelectOld, Unsummarized, Above, Retained
  <2>3. selected'[r] = S
    BY <2>1, <2>2, <1>0
  <2>4. /\ (base[r].count + Cardinality(Above(C, base[r].boundary))) \div 2 > TriggerTurns
        /\ Cardinality(Above(C, base[r].boundary)) > Retained
    BY <2>1, Zenon DEF Due, Unsummarized, Above, Retained
  <2>5. PICK t \in C : (\A n \in C : n <= t) /\ Selection(C, base[r].boundary, S, t)
    BY <1>0, <2>4, SelectionOfDue
  <2>6. status[r] = "answered"
    BY <2>1 DEF LogInv, TurnShape, RefreshPcs
  <2>7. \A k \in Ordinals : messages[k].turn = r => k <= t
    BY <2>5, <2>6 DEF CompletedMessages
  <2>8. D = C /\ Ordinals' = Ordinals
    BY <2>1 DEF CompletedMessages, Ordinals
  <2>9. Selection(D, base'[r].boundary, selected'[r], t)
    BY <2>1, <2>3, <2>5, <2>8, Zenon
  <2>10. QED  BY <1>1, <2>1, <2>5, <2>7, <2>8, <2>9, Zenon DEF HasSelected
<1>2. CASE ~(PrepareMessages(r) /\ q = r)
  <2>1. /\ pc[q] \in {"summarizing", "save_summary"}
        /\ base'[q] = base[q] /\ selected'[q] = selected[q]
    BY <1>0, <1>2 DEF Turn, Refresh, Begin, LoadSummary, LoadWindow, Answer, EndUnanswered,
         PrepareSummary, PrepareMessages, NothingToSummarize, Summarize, SaveSummary,
         LoseSummary, RefreshFails, Goto, Finish, End
  <2>2. PICK n \in C : /\ Selection(C, base[q].boundary, selected[q], n)
                       /\ \A k \in Ordinals : messages[k].turn = q => k <= n
    BY <2>1 DEF SummaryInv, HasSelected
  <2>3. C \in SUBSET (1..Len(messages')) /\ D \in SUBSET (1..Len(messages'))
    <3>1. D \in SUBSET (1..Len(messages'))
      BY DEF CompletedMessages, Ordinals
    <3>2. QED  BY <3>1, <1>g DEF GrowsTo
  <2>4. Selection(D, base[q].boundary, selected[q], n)
    BY <1>g, <2>2, <2>3, SelectionStays
  <2>5. n \in D
    BY <1>g DEF GrowsTo
  <2>6. status[q] = "answered" /\ status[q] # "running"
    BY <2>1 DEF LogInv, TurnShape, RefreshPcs
  <2>7. \A k \in Ordinals' : messages'[k].turn = q => k <= n
    <3>1. \A k \in Ordinals : messages[k].turn = q => k \in C
      BY <2>6 DEF CompletedMessages
    <3>2. Answer(r) \/ Begin(r) => q # r
      BY <2>1 DEF Answer, Begin, Goto
    <3>3. \A k \in Ordinals' : k \notin Ordinals => messages'[k].turn # q
      <4>1. CASE Answer(r) \/ Begin(r)
        <5>1. messages \in Seq(Messages)
          BY DEF LogInv, TypeOK, Messages
        <5>2. \A k \in Ordinals' : k \notin Ordinals => messages'[k].turn = r
          BY <4>1, <5>1, <1>0 DEF Answer, Begin, Ordinals, Messages
        <5>3. QED  BY <4>1, <5>2, <3>2
      <4>2. CASE ~(Answer(r) \/ Begin(r))
        <5>1. messages' = messages
          BY <4>2, LogFrame DEF EndUnanswered
        <5>2. QED  BY <5>1 DEF Ordinals
      <4>3. QED  BY <4>1, <4>2
    <3>4. QED  BY <3>3, <2>2, <1>g
  <2>8. Selection(D, base'[q].boundary, selected'[q], n)
    BY <2>1, <2>4, Zenon
  <2>9. QED  BY <2>5, <2>7, <2>8, Zenon DEF HasSelected
<1>3. QED  BY <1>1, <1>2

LEMMA SummaryInvStep ==
  ASSUME LogInv, SummaryInv, NEW r \in Requests, Turn(r) \/ Refresh(r)
  PROVE  SummaryInv'
<1> DEFINE C == CompletedMessages
           D == CompletedMessages'
<1>0. /\ Len(messages) \in Nat
      /\ summary \in Summaries
      /\ base \in [Requests -> Summaries]
  BY CompletedBounded DEF LogInv, TypeOK
<1>g. Len(messages') \in Nat /\ GrowsTo(C, D)
  BY CompletedStep
<1>1. C \in SUBSET (1..Len(messages')) /\ D \in SUBSET (1..Len(messages'))
  <2>1. D \in SUBSET (1..Len(messages'))
    BY DEF CompletedMessages, Ordinals
  <2>2. QED  BY <2>1, <1>g DEF GrowsTo
<1>2. /\ summary' \in Summaries
      /\ summary.boundary \in Nat /\ summary'.boundary \in Nat
      /\ Exact(C, summary')
      /\ summary.boundary <= summary'.boundary
  BY SummaryStep
<1>3. Exact(D, summary')
  BY <1>1, <1>2, <1>g, ExactStays
<1>4. ASSUME NEW q \in Requests
      PROVE  /\ Exact(D, base'[q])
             /\ base'[q].boundary <= summary'.boundary
  <2>1. /\ Exact(C, base[q]) /\ base[q].boundary <= summary.boundary
        /\ base[q] \in Summaries
        /\ Exact(C, summary)
    BY <1>0 DEF SummaryInv
  <2>2. base'[q] = base[q] \/ base'[q] = NoSummary \/ base'[q] = summary
    BY BaseStep
  <2>3. NoSummary \in Summaries /\ Exact(C, NoSummary) /\ NoSummary.boundary = 0
    BY <1>1, <1>g, EmptyIsExact DEF NoSummary
  <2>4. base'[q] \in Summaries /\ Exact(C, base'[q])
    BY <1>0, <2>1, <2>2, <2>3, Zenon
  <2>5. Exact(D, base'[q])
    BY <1>1, <1>g, <2>4, ExactStays
  <2>6. base'[q].boundary <= summary'.boundary
    BY <1>2, <2>1, <2>2, <2>3 DEF Summaries
  <2>7. QED  BY <2>5, <2>6
<1>5. \A q \in Requests : pc'[q] \in {"summarizing", "save_summary"} => HasSelected(q)'
  BY SelectedStep
<1>6. QED  BY <1>3, <1>4, <1>5, Zenon DEF SummaryInv

-----------------------------------------------------------------------------
(* What finished refreshes leave                                           *)

\* A summary that moves from b to m, with the window between m and n, settles
\* what was settled and everything up to n.
LEMMA MoveSettles ==
  ASSUME NEW k \in Nat, NEW C \in SUBSET (1..k), NEW b \in Nat, NEW m \in Nat, b <= m,
         NEW n \in C, NEW x \in C,
         Cardinality(Between(C, m, n)) = Retained,
         Cardinality(Between(C, 0, n)) \div 2 > TriggerTurns,
         Settled(C, b, x) \/ x <= n
  PROVE  Settled(C, m, x)
<1>0. Retained \in Nat /\ TriggerTurns \in Nat /\ n \in Nat /\ x \in Nat
  BY MemoryAssumption DEF Retained, MemoryAssumption
<1>1. CASE x <= n
  <2>0. m <= m
    OBVIOUS
  <2>1. Cardinality(Between(C, m, x)) <= Cardinality(Between(C, m, n))
    BY <2>0, <1>0, <1>1, BetweenShrinks
  <2>2. QED  BY <2>1 DEF Settled
<1>2. CASE Cardinality(Between(C, b, x)) <= Retained
  <2>0. x <= x
    BY <1>0
  <2>1. Cardinality(Between(C, m, x)) <= Cardinality(Between(C, b, x))
    BY <2>0, <1>0, BetweenShrinks
  <2>2. Cardinality(Between(C, m, x)) \in Nat /\ Cardinality(Between(C, b, x)) \in Nat
    BY BetweenCounted
  <2>3. QED  BY <1>0, <1>2, <2>1, <2>2 DEF Settled
<1>3. CASE x > n /\ b = 0 /\ Cardinality(Between(C, 0, x)) \div 2 <= TriggerTurns
  <2>0. 0 \in Nat /\ 0 <= 0 /\ n <= x
    BY <1>0, <1>3
  <2>1. Cardinality(Between(C, 0, n)) <= Cardinality(Between(C, 0, x))
    BY <2>0, <1>0, BetweenShrinks
  <2>2. Cardinality(Between(C, 0, n)) \in Nat /\ Cardinality(Between(C, 0, x)) \in Nat
    BY BetweenCounted
  <2>3. /\ Cardinality(Between(C, 0, n)) \div 2 <= Cardinality(Between(C, 0, x)) \div 2
        /\ Cardinality(Between(C, 0, n)) \div 2 \in Nat
        /\ Cardinality(Between(C, 0, x)) \div 2 \in Nat
    BY <2>1, <2>2, HalfMonotone
  <2>4. QED  BY <2>3, <1>0, <1>3
<1>4. QED  BY <1>0, <1>1, <1>2, <1>3 DEF Settled

\* A refresh that is not due has nothing to settle.
LEMMA NotDueSettles ==
  ASSUME NEW k \in Nat, NEW C \in SUBSET (1..k), NEW s \in Summaries, NEW old \in Summaries,
         Exact(C, s), Exact(C, old), old.boundary <= s.boundary, NEW x \in C,
         ~ /\ (old.count + Cardinality(Above(C, old.boundary))) \div 2 > TriggerTurns
           /\ Cardinality(Above(C, old.boundary)) > Retained
  PROVE  Settled(C, s.boundary, x)
<1>0. /\ Retained \in Nat /\ TriggerTurns \in Nat /\ x \in Nat
      /\ s.boundary \in Nat /\ old.boundary \in Nat
      /\ old.count \in Nat
  BY MemoryAssumption DEF Retained, MemoryAssumption, Summaries
<1>1. /\ Cardinality(C) \in Nat
      /\ Cardinality(Above(C, old.boundary)) \in Nat
      /\ Cardinality(Between(C, s.boundary, x)) \in Nat
      /\ Cardinality(Between(C, 0, x)) \in Nat
  BY BetweenCounted
<1>2. CASE Cardinality(Above(C, old.boundary)) <= Retained
  <2>0. x <= x
    BY <1>0
  <2>1. Cardinality(Between(C, s.boundary, x)) <= Cardinality(Above(C, old.boundary))
    BY <2>0, <1>0, BetweenShrinks
  <2>2. QED  BY <1>0, <1>1, <1>2, <2>1 DEF Settled
<1>3. CASE ~((old.count + Cardinality(Above(C, old.boundary))) \div 2 > TriggerTurns)
  <2>1. Cardinality(C) = old.count + Cardinality(Above(C, old.boundary))
    <3>1. Cardinality(C) = Cardinality(Between(C, 0, old.boundary))
                             + Cardinality(Above(C, old.boundary))
      BY <1>0, ZeroBetween
    <3>2. QED  BY <3>1, Zenon DEF Exact
  <2>2. ~(Cardinality(C) \div 2 > TriggerTurns)
    BY <2>1, <1>3, Zenon
  <2>3. s.boundary = 0
    BY <2>2, Zenon DEF Exact
  <2>4. 0 \in Nat /\ 0 <= 0 /\ x <= x
    BY <1>0
  <2>5. Cardinality(Between(C, 0, x)) <= Cardinality(C)
    BY <2>4, <1>0, BetweenShrinks
  <2>6. Cardinality(Between(C, 0, x)) \div 2 <= Cardinality(C) \div 2
        /\ Cardinality(Between(C, 0, x)) \div 2 \in Nat /\ Cardinality(C) \div 2 \in Nat
    BY <2>5, <1>1, HalfMonotone
  <2>7. Cardinality(Between(C, 0, x)) \div 2 <= TriggerTurns
    BY <2>2, <2>6, <1>0
  <2>8. QED  BY <2>3, <2>7 DEF Settled
<1>4. QED  BY <1>0, <1>1, <1>2, <1>3

LEMMA SettledStep ==
  ASSUME LogInv, SummaryInv, SettledInv, NEW r \in Requests, Turn(r) \/ Refresh(r)
  PROVE  SettledInv'
<1> DEFINE C == CompletedMessages
           D == CompletedMessages'
<1>0. /\ Len(messages) \in Nat
      /\ C \in SUBSET (1..Len(messages))
      /\ \A n \in Ordinals : messages[n].turn \in Requests
      /\ summary \in Summaries
      /\ base[r] \in Summaries
      /\ pc \in [Requests -> {"idle", "finished", "dropped"} \union TurnPcs \union RefreshPcs]
  BY CompletedBounded DEF LogInv, TypeOK
<1>g. /\ \A n \in Ordinals : n \in Ordinals' /\ messages'[n] = messages[n]
      /\ Len(messages') \in Nat /\ Len(messages) <= Len(messages')
      /\ GrowsTo(C, D)
      /\ \A n \in D : n \notin C => Answer(r) /\ messages'[n].turn = r
  BY CompletedStep
<1>1. C \in SUBSET (1..Len(messages')) /\ D \in SUBSET (1..Len(messages'))
  <2>1. D \in SUBSET (1..Len(messages'))
    BY DEF CompletedMessages, Ordinals
  <2>2. QED  BY <2>1, <1>g DEF GrowsTo
<1>2. SUFFICES ASSUME NEW n \in D, pc'[messages'[n].turn] = "finished"
               PROVE  Settled(D, summary'.boundary, n)
  BY DEF SettledInv
<1>3. n \in C
  <2>1. Answer(r) => pc'[r] = "prepare_summary"
    BY <1>0 DEF Answer, Goto
  <2>2. QED  BY <2>1, <1>2, <1>g
<1>4. n \in Ordinals /\ messages'[n] = messages[n] /\ messages[n].turn \in Requests
      /\ status[messages[n].turn] = "answered"
  BY <1>3, <1>0, <1>g DEF CompletedMessages
<1>5. Settled(C, summary'.boundary, n)
  <2>1. CASE SaveSummary(r)
    <3>1. /\ summary' \in Summaries
          /\ summary'.boundary > summary.boundary
          /\ \E t \in C :
               /\ \A k \in Ordinals : messages[k].turn = r => k <= t
               /\ Cardinality(Between(C, summary'.boundary, t)) = Retained
               /\ Cardinality(Between(C, 0, t)) \div 2 > TriggerTurns
      BY <2>1, SaveStep
    <3>2. PICK t \in C : /\ \A k \in Ordinals : messages[k].turn = r => k <= t
                         /\ Cardinality(Between(C, summary'.boundary, t)) = Retained
                         /\ Cardinality(Between(C, 0, t)) \div 2 > TriggerTurns
      BY <3>1
    <3>3. messages[n].turn # r => pc[messages[n].turn] = "finished"
      BY <1>2, <1>4, PcFrame DEF LogInv
    <3>4. Settled(C, summary.boundary, n) \/ n <= t
      BY <3>2, <3>3, <1>3, <1>4 DEF SettledInv
    <3>5. summary.boundary \in Nat /\ summary'.boundary \in Nat
          /\ summary.boundary <= summary'.boundary
      BY <3>1, <1>0 DEF Summaries
    <3>6. QED  BY <3>2, <3>4, <3>5, <1>0, <1>3, MoveSettles
  <2>2. CASE ~SaveSummary(r)
    <3>1. summary' = summary
      BY <2>2, SummaryFrame
    <3>2. Settled(C, summary.boundary, n)
      <4>1. CASE messages[n].turn # r
        <5>1. pc[messages[n].turn] = "finished"
          BY <4>1, <1>2, <1>4, PcFrame DEF LogInv
        <5>2. QED  BY <5>1, <1>3 DEF SettledInv
      <4>2. CASE messages[n].turn = r
        <5>1. pc'[r] = "finished" /\ status[r] = "answered"
          BY <4>2, <1>2, <1>4
        <5>2. ~EndUnanswered(r)
          BY <5>1 DEF EndUnanswered, LogInv, TurnShape, TurnPcs
        <5>3. NothingToSummarize(r)
          BY <5>1, <5>2, <2>2, <1>0 DEF Turn, Refresh, Begin, LoadSummary, LoadWindow, Answer,
             PrepareSummary, PrepareMessages, Summarize, LoseSummary, RefreshFails,
             Goto, Finish, End
        <5>4. ~ /\ (base[r].count + Cardinality(Above(C, base[r].boundary))) \div 2 > TriggerTurns
                /\ Cardinality(Above(C, base[r].boundary)) > Retained
          BY <5>3, Zenon DEF NothingToSummarize, Due, Unsummarized, Above, Retained
        <5>5. /\ Exact(C, summary) /\ Exact(C, base[r])
              /\ base[r].boundary <= summary.boundary
          BY DEF SummaryInv
        <5>6. QED  BY <5>4, <5>5, <1>0, <1>3, NotDueSettles
      <4>3. QED  BY <4>1, <4>2
    <3>3. QED  BY <3>1, <3>2, Zenon
  <2>3. QED  BY <2>1, <2>2
<1>6. QED  BY <1>1, <1>3, <1>5, <1>g, SettledStays

-----------------------------------------------------------------------------
(* The loaded context                                                      *)

\* Questions that are each directly followed by their answer make twice as
\* many messages.
LEMMA PairsAreEven ==
  ASSUME NEW k \in Nat, NEW U \in SUBSET (1..k), \A u \in U : u + 1 \notin U
  PROVE  Cardinality(U \union {u + 1 : u \in U}) = 2 * Cardinality(U)
<1> DEFINE V == {u + 1 : u \in U}
           f == [u \in U |-> u + 1]
<1>1. f \in Bijection(U, V)
  <2>1. f \in [U -> V]
    OBVIOUS
  <2>2. \A a, b \in U : f[a] = f[b] => a = b
    OBVIOUS
  <2>3. \A v \in V : \E u \in U : f[u] = v
    OBVIOUS
  <2>4. QED  BY <2>1, <2>2, <2>3 DEF Bijection, Injection, Surjection, IsInjective
<1>2. IsFiniteSet(U) /\ Cardinality(U) \in Nat
  BY Counted
<1>3. IsFiniteSet(V) /\ Cardinality(V) = Cardinality(U)
  <2>1. ExistsBijection(U, V)
    BY <1>1 DEF ExistsBijection
  <2>2. QED  BY <2>1, <1>2, FS_Bijection
<1>4. U \intersect V = {}
  OBVIOUS
<1>5. Cardinality(U \union V) = Cardinality(U) + Cardinality(V) - Cardinality({})
  BY <1>2, <1>3, <1>4, FS_Union
<1>6. Cardinality({}) = 0
  BY FS_EmptySet
<1>7. Cardinality(U \union V) = Cardinality(U) + Cardinality(U) - 0
  BY <1>3, <1>5, <1>6, Zenon
<1>8. QED  BY <1>2, <1>7

\* So an even window never separates a question from its answer.
LEMMA WindowKeepsPairs ==
  ASSUME NEW k \in Nat, NEW C \in SUBSET (1..k), NEW U \in SUBSET C,
         \A u \in U : u + 1 \notin U, C = U \union {u + 1 : u \in U}, NEW u \in U
  PROVE  u \in Latest(C, Retained) <=> u + 1 \in Latest(C, Retained)
<1> DEFINE W == Above(U, u + 1)
           A == Above(C, u + 1)
<1>0. /\ RecentTurns \in Nat
      /\ u \in Nat /\ u \in C /\ u + 1 \in C
      /\ \A v \in U : v \in Nat
  BY MemoryAssumption DEF MemoryAssumption
<1>1. W \in SUBSET (1..k) /\ \A v \in W : v + 1 \notin W
  BY DEF Above
<1>2. A = W \union {v + 1 : v \in W}
  <2>1. \A x \in A : x \in W \/ \E v \in W : x = v + 1
    <3>1. SUFFICES ASSUME NEW x \in C, x > u + 1, x \notin U
                   PROVE  \E v \in W : x = v + 1
      BY DEF Above
    <3>2. PICK v \in U : x = v + 1
      BY <3>1
    <3>3. v # u + 1 /\ v > u + 1
      BY <3>1, <3>2, <1>0
    <3>4. QED  BY <3>2, <3>3 DEF Above
  <2>2. \A v \in W : v \in A /\ v + 1 \in A
    BY <1>0 DEF Above
  <2>3. QED  BY <2>1, <2>2, Zenon
<1>3. Cardinality(A) = 2 * Cardinality(W)
  <2>1. Cardinality(W \union {v + 1 : v \in W}) = 2 * Cardinality(W)
    BY <1>1, PairsAreEven
  <2>2. QED  BY <2>1, <1>2, Zenon
<1>4. Above(C, u) = A \union {u + 1}
  <2>1. \A x \in C : x > u <=> x > u + 1 \/ x = u + 1
    BY <1>0
  <2>2. QED  BY <2>1, <1>0 DEF Above
<1>5. /\ IsFiniteSet(A) /\ u + 1 \notin A
      /\ Cardinality(W) \in Nat
  BY <1>0, <1>1, BetweenCounted, Counted DEF Above
<1>6. Cardinality(A \union {u + 1}) = Cardinality(A) + 1
  BY <1>5, FS_AddElement
<1>7. Cardinality(Above(C, u)) = Cardinality(A) + 1
  BY <1>4, <1>6, Zenon
<1>8. Cardinality(Above(C, u)) < Retained <=> Cardinality(A) < Retained
  BY <1>0, <1>3, <1>5, <1>7 DEF Retained
<1>9. \A x \in C : x \in Latest(C, Retained) <=> Cardinality(Above(C, x)) < Retained
  BY DEF Latest, Above
<1>10. QED  BY <1>0, <1>8, <1>9

\* The two messages of an answered turn are in the window or out of it together.
LEMMA WindowHasWholeTurns ==
  ASSUME LogInv, NEW n \in Latest(CompletedMessages, Retained), NEW m \in Ordinals,
         messages[m].turn = messages[n].turn
  PROVE  m \in Latest(CompletedMessages, Retained)
<1> DEFINE C == CompletedMessages
           U == {x \in C : messages[x].role = "user"}
<1>0. /\ Len(messages) \in Nat
      /\ C \in SUBSET (1..Len(messages))
      /\ \A x \in Ordinals : messages[x].turn \in Requests
      /\ n \in C
  BY CompletedBounded DEF LogInv, Latest
<1>1. ASSUME NEW x \in C
      PROVE  \E u \in Ordinals :
               /\ u + 1 \in Ordinals
               /\ messages[u] = [turn |-> messages[x].turn, role |-> "user"]
               /\ messages[u + 1] = [turn |-> messages[x].turn, role |-> "assistant"]
               /\ \A y \in Ordinals : messages[y].turn = messages[x].turn => y \in {u, u + 1}
  <2>1. x \in Ordinals /\ status[messages[x].turn] = "answered" /\ messages[x].turn \in Requests
    BY <1>0 DEF CompletedMessages
  <2>2. QED  BY <2>1, Zenon DEF LogInv, LogShape
<1>2. ASSUME NEW u \in U
      PROVE  u + 1 \in C /\ u + 1 \notin U
             /\ \A y \in Ordinals : messages[y].turn = messages[u].turn => y \in {u, u + 1}
  <2>1. PICK v \in Ordinals :
           /\ v + 1 \in Ordinals
           /\ messages[v] = [turn |-> messages[u].turn, role |-> "user"]
           /\ messages[v + 1] = [turn |-> messages[u].turn, role |-> "assistant"]
           /\ \A y \in Ordinals : messages[y].turn = messages[u].turn => y \in {v, v + 1}
    BY <1>1
  <2>2. u \in Ordinals /\ status[messages[u].turn] = "answered"
    BY DEF CompletedMessages
  <2>3. messages[v + 1].role = "assistant" /\ messages[v + 1].turn = messages[u].turn
    BY <2>1
  <2>4. u = v
    BY <2>1, <2>2, <2>3
  <2>5. QED  BY <2>1, <2>2, <2>3, <2>4 DEF CompletedMessages
<1>3. ASSUME NEW x \in C, x \notin U
      PROVE  \E u \in U : x = u + 1
  <2>1. PICK v \in Ordinals :
           /\ v + 1 \in Ordinals
           /\ messages[v] = [turn |-> messages[x].turn, role |-> "user"]
           /\ messages[v + 1] = [turn |-> messages[x].turn, role |-> "assistant"]
           /\ \A y \in Ordinals : messages[y].turn = messages[x].turn => y \in {v, v + 1}
    BY <1>1
  <2>2. x \in Ordinals /\ status[messages[x].turn] = "answered"
    BY DEF CompletedMessages
  <2>3. messages[v].role = "user" /\ messages[v].turn = messages[x].turn
    BY <2>1
  <2>4. v \in U /\ x \in {v, v + 1}
    BY <2>1, <2>2, <2>3 DEF CompletedMessages
  <2>5. QED  BY <2>4, <1>3
<1>4. C = U \union {u + 1 : u \in U}
  BY <1>2, <1>3
<1>5. \A u \in U : u \in Latest(C, Retained) <=> u + 1 \in Latest(C, Retained)
  <2>1. U \in SUBSET C /\ \A u \in U : u + 1 \notin U
    BY <1>2
  <2> HIDE DEF C, U
  <2>2. QED  BY <2>1, <1>0, <1>4, WindowKeepsPairs
<1>6. PICK u \in U : n \in {u, u + 1}
  BY <1>0, <1>3
<1>7. messages[n].turn = messages[u].turn
  <2>1. PICK v \in Ordinals :
           /\ v + 1 \in Ordinals
           /\ messages[v] = [turn |-> messages[u].turn, role |-> "user"]
           /\ messages[v + 1] = [turn |-> messages[u].turn, role |-> "assistant"]
           /\ \A y \in Ordinals : messages[y].turn = messages[u].turn => y \in {v, v + 1}
    BY <1>1
  <2>2. messages[v].turn = messages[u].turn /\ messages[v + 1].turn = messages[u].turn
        /\ messages[v + 1].role = "assistant"
    BY <2>1
  <2>3. u \in Ordinals
    BY DEF CompletedMessages
  <2>4. u = v
    BY <2>1, <2>2, <2>3
  <2>5. QED  BY <2>2, <2>4, <1>6
<1>8. m \in {u, u + 1}
  BY <1>2, <1>7
<1>9. QED  BY <1>5, <1>6, <1>8

\* What LoadWindow gives a turn, for the summary its request has read.
LEMMA LoadStep ==
  ASSUME IInv, NEW r \in Requests, LoadWindow(r)
  PROVE  LET recent == window'[r]
             gap == CompletedMessages \ (base[r].covered \union recent)
         IN /\ \A n \in recent :
                 /\ messages[n].turn # r
                 /\ \A m \in Ordinals : messages[m].turn = messages[n].turn => m \in recent
            /\ base[r].covered \intersect recent = {}
            /\ base[r].boundary > 0 /\ gap # {} =>
                 \/ summary.boundary # base[r].boundary
                 \/ \E q \in Requests : IsMissingAfter(q, base[r].boundary)
<1> DEFINE C == CompletedMessages
           b == base[r].boundary
           recent == Latest(C, Retained)
<1>0. /\ Len(messages) \in Nat
      /\ C \in SUBSET (1..Len(messages))
      /\ \A n \in Ordinals : messages[n].turn \in Requests
      /\ base[r] \in Summaries /\ b \in Nat
      /\ Exact(C, base[r]) /\ Exact(C, summary)
      /\ Retained \in Nat
      /\ \A n \in C : n \in Nat
  BY CompletedBounded, MemoryAssumption
     DEF IInv, LogInv, SummaryInv, TypeOK, Summaries, Retained, MemoryAssumption
<1>1. window'[r] = recent
  BY DEF LoadWindow, Retained, IInv, LogInv, TypeOK
<1>2. status[r] = "running"
  BY DEF LoadWindow, Goto, IInv, LogInv, TurnShape, TurnPcs
<1>3. \A n \in recent : n \in C /\ messages[n].turn # r
  BY <1>2 DEF Latest, CompletedMessages
<1>4. \A n \in recent :
        \A m \in Ordinals : messages[m].turn = messages[n].turn => m \in recent
  BY WindowHasWholeTurns DEF IInv
<1>5. \A n \in C : n \in recent <=> Cardinality(Above(C, n)) < Retained
  BY DEF Latest, Above
<1>6. base[r].covered \intersect recent = {}
  <2>1. SUFFICES ASSUME NEW n \in C, n > 0, n <= b, n \in recent
                 PROVE  FALSE
    <3>1. base[r].covered = Between(C, 0, b)
      BY <1>0, Zenon DEF Exact
    <3>2. QED  BY <3>1, <1>3 DEF Between
  <2>2. b # 0
    BY <2>1, <1>0
  <2>3. Cardinality(Above(C, b)) >= Retained
    BY <2>2, <1>0, Zenon DEF Exact
  <2>4. Above(C, b) \in SUBSET Above(C, n)
    <3>1. \A x \in C : x > b => x > n
      BY <1>0, <2>1
    <3>2. QED  BY <3>1 DEF Above
  <2>5. Cardinality(Above(C, b)) <= Cardinality(Above(C, n))
        /\ Cardinality(Above(C, b)) \in Nat /\ Cardinality(Above(C, n)) \in Nat
    BY <2>4, <1>0, BetweenCounted, Monotone
  <2>6. QED  BY <2>1, <2>3, <2>5, <1>0, <1>5
<1>7. ASSUME b > 0, summary.boundary = b, NEW x \in C, x \notin base[r].covered, x \notin recent
      PROVE  \E q \in Requests : IsMissingAfter(q, b)
  <2>1. x > b
    <3>1. x \notin Between(C, 0, b)
      BY <1>0, <1>7, Zenon DEF Exact
    <3>2. x > 0
      BY <1>0
    <3>3. QED  BY <3>1, <3>2, <1>0 DEF Between
  <2>2. Cardinality(Above(C, x)) >= Retained /\ Cardinality(Above(C, x)) \in Nat
    <3>1. ~(Cardinality(Above(C, x)) < Retained)
      BY <1>5, <1>7
    <3>2. Cardinality(Above(C, x)) \in Nat
      BY <1>0, BetweenCounted
    <3>3. QED  BY <3>1, <3>2, <1>0
  <2>3. Cardinality(Above(C, b)) > Retained
    <3>1. Above(C, x) \in SUBSET Above(C, b) /\ Above(C, x) # Above(C, b)
      <4>1. \A y \in C : y > x => y > b
        BY <1>0, <2>1
      <4>2. x \in Above(C, b) /\ x \notin Above(C, x)
        BY <1>0, <2>1 DEF Above
      <4>3. Above(C, x) \subseteq Above(C, b)
        BY <4>1 DEF Above
      <4>4. QED  BY <4>2, <4>3
    <3>2. Above(C, b) \in SUBSET (1..Len(messages)) /\ Cardinality(Above(C, b)) \in Nat
      BY <1>0, BetweenCounted
    <3>3. Cardinality(Above(C, x)) < Cardinality(Above(C, b))
      BY <3>1, <3>2, <1>0, Monotone
    <3>4. QED  BY <3>2, <3>3, <2>2, <1>0
  <2>4. PICK t \in C : \A n \in C : n <= t
    BY <1>0, GreatestExists
  <2>5. Between(C, b, t) = Above(C, b)
    BY <2>4, <1>0, BetweenTop
  <2>6. ~Settled(C, summary.boundary, t)
    <3>1. Cardinality(Between(C, b, t)) = Cardinality(Above(C, b))
      BY <2>5, Zenon
    <3>2. Cardinality(Above(C, b)) \in Nat
      BY <1>0, BetweenCounted
    <3>3. ~(Cardinality(Between(C, b, t)) <= Retained) /\ b # 0
      BY <3>1, <3>2, <2>3, <1>0, <1>7
    <3>4. QED  BY <3>3, <1>7, Zenon DEF Settled
  <2>7. pc[messages[t].turn] # "finished"
    BY <2>6 DEF IInv, SettledInv
  <2>8. t \in Ordinals /\ messages[t].turn \in Requests /\ status[messages[t].turn] = "answered"
    BY <1>0 DEF CompletedMessages
  <2>9. pc[messages[t].turn] \in {"prepare_summary", "prepare_messages", "summarizing",
                                  "save_summary", "dropped"}
    BY <2>7, <2>8 DEF IInv, LogInv, TypeOK, TurnShape, TurnPcs, RefreshPcs
  <2>10. t > b
    BY <2>1, <2>4, <1>0
  <2>11. QED  BY <2>8, <2>9, <2>10 DEF IsMissingAfter
<1>8. QED  BY <1>1, <1>3, <1>4, <1>6, <1>7

-----------------------------------------------------------------------------
(* Results                                                                 *)

LEMMA InitInv == Init => IInv
<1>1. SUFFICES ASSUME Init
               PROVE  IInv
  OBVIOUS
<1>2. Len(messages) = 0 /\ Ordinals = {} /\ CompletedMessages = {}
  <2>1. messages = <<>>
    BY <1>1 DEF Init
  <2>2. Len(messages) = 0
    BY <2>1
  <2>3. Ordinals = {}
    BY <2>2 DEF Ordinals
  <2>4. QED  BY <2>2, <2>3 DEF CompletedMessages
<1>3. NoSummary \in Summaries /\ Exact({}, NoSummary)
  <2>1. {} \in SUBSET (1..0) /\ 0 \in Nat
    OBVIOUS
  <2>2. QED  BY <2>1, EmptyIsExact
<1>4. TypeOK
  BY <1>1, <1>3 DEF Init, TypeOK
<1>5. (\A r \in Requests : TurnShape(r)) /\ RunningShape /\ LogShape
  BY <1>1, <1>2 DEF Init, TurnShape, RunningShape, LogShape, TurnPcs, RefreshPcs
<1>6. SummaryInv
  <2>1. Exact(CompletedMessages, summary)
    BY <1>1, <1>2, <1>3, Zenon DEF Init
  <2>2. ASSUME NEW r \in Requests
        PROVE  Exact(CompletedMessages, base[r]) /\ base[r].boundary <= summary.boundary
               /\ pc[r] = "idle"
    <3>1. base[r] = NoSummary /\ summary = NoSummary /\ pc[r] = "idle"
      BY <1>1 DEF Init
    <3>2. Exact(CompletedMessages, base[r])
      BY <3>1, <1>2, <1>3, Zenon
    <3>3. base[r].boundary <= summary.boundary
      BY <3>1 DEF NoSummary
    <3>4. QED  BY <3>1, <3>2, <3>3
  <2>3. QED  BY <2>1, <2>2 DEF SummaryInv
<1>7. SettledInv
  BY <1>2 DEF SettledInv
<1>8. QED  BY <1>4, <1>5, <1>6, <1>7 DEF IInv, LogInv

LEMMA NextInv == IInv /\ [Next]_vars => IInv'
<1>1. SUFFICES ASSUME IInv, [Next]_vars
               PROVE  IInv'
  OBVIOUS
<1>2. ASSUME NEW r \in Requests, Turn(r) \/ Refresh(r)
      PROVE  IInv'
  <2>1. LogInv /\ SummaryInv /\ SettledInv
    BY <1>1 DEF IInv
  <2>2. summary' \in Summaries
    BY <1>2, <2>1, SummaryStep
  <2>3. TypeOK'
    BY <1>2, <2>1, <2>2, TypeStep DEF LogInv
  <2>4. (\A q \in Requests : TurnShape(q))'
    BY <1>2, <2>1, ShapeStep DEF LogInv
  <2>5. RunningShape' /\ LogShape'
    BY <1>2, <2>1, RunningStep, LogShapeStep
  <2>6. SummaryInv' /\ SettledInv'
    BY <1>2, <2>1, SummaryInvStep, SettledStep
  <2>7. QED  BY <2>3, <2>4, <2>5, <2>6 DEF IInv, LogInv
<1>3. CASE UNCHANGED vars
  <2>1. Ordinals' = Ordinals /\ CompletedMessages' = CompletedMessages
    BY <1>3 DEF vars, Ordinals, CompletedMessages
  <2>2. LogInv'
    BY <1>1, <1>3, <2>1 DEF vars, IInv, LogInv, TypeOK, TurnShape, RunningShape, LogShape
  <2>3. SummaryInv'
    BY <1>1, <1>3, <2>1 DEF vars, IInv, SummaryInv, HasSelected
  <2>4. SettledInv'
    BY <1>1, <1>3, <2>1 DEF vars, IInv, SettledInv
  <2>5. QED  BY <2>2, <2>3, <2>4 DEF IInv
<1>4. QED  BY <1>1, <1>2, <1>3 DEF Next, Quiet

\* The inductive invariant holds in every reachable state; with it, every
\* variable of the conversation has its type.
THEOREM MemoryIsConsistent == Spec => []IInv
BY InitInv, NextInv, PTL DEF Spec

\* However late a refresh is, and whatever fails, the summary row accounts for
\* every completed message up to its boundary, once.
THEOREM SummaryStaysExact == Spec => []SummaryIsExact
<1>1. IInv => SummaryIsExact
  <2>1. SUFFICES ASSUME IInv
                 PROVE  SummaryIsExact
    OBVIOUS
  <2>2. Exact(CompletedMessages, summary)
    BY <2>1 DEF IInv, SummaryInv
  <2>3. CompletedMessages \in SUBSET (1..Len(messages))
    BY <2>1, CompletedBounded DEF IInv, LogInv
  <2>4. Between(CompletedMessages, 0, summary.boundary)
          = {n \in CompletedMessages : n <= summary.boundary}
    <3>1. \A n \in CompletedMessages : n > 0
      BY <2>3
    <3>2. QED  BY <3>1 DEF Between
  <2>5. QED  BY <2>2, <2>4, Zenon DEF Exact, SummaryIsExact
<1>2. QED  BY <1>1, MemoryIsConsistent, PTL

\* No refresh takes the boundary back, or rewrites the row without moving it.
THEOREM BoundaryNeverGoesBack == Spec => BoundaryAdvances
<1>1. IInv /\ [Next]_vars => [summary'.boundary > summary.boundary]_summary
  <2>1. SUFFICES ASSUME IInv, [Next]_vars, summary' # summary
                 PROVE  summary'.boundary > summary.boundary
    OBVIOUS
  <2>2. PICK r \in Requests : Turn(r) \/ Refresh(r)
    BY <2>1 DEF Next, Quiet, vars
  <2>3. QED  BY <2>1, <2>2, SummaryStep DEF IInv
<1>2. QED  BY <1>1, MemoryIsConsistent, PTL DEF Spec, BoundaryAdvances

\* What a turn is given to remember is whole, never given twice, and leaves a
\* turn out only for a refresh that is late, was dropped or has just saved.
THEOREM ContextsAreAccountedFor == Spec => ContextIsAccountedFor
<1>1. ASSUME IInv, [Next]_vars, NEW r \in Requests,
             pc[r] = "load_window", pc'[r] = "answering"
      PROVE  LoadWindow(r)
  <2>1. PICK q \in Requests : Turn(q) \/ Refresh(q)
    BY <1>1 DEF Next, Quiet, vars
  <2>2. q = r
    BY <1>1, <2>1, PcFrame DEF IInv, LogInv
  <2>3. QED  BY <1>1, <2>1, <2>2 DEF IInv, LogInv, TypeOK, Turn, Refresh, Begin, LoadSummary, Answer,
        EndUnanswered, PrepareSummary, PrepareMessages, NothingToSummarize, Summarize,
        SaveSummary, LoseSummary, RefreshFails, Goto, Finish, End
<1>2. IInv /\ [Next]_vars =>
        [\A r \in Requests : pc[r] = "load_window" /\ pc'[r] = "answering" =>
           LET recent == window'[r]
               gap == CompletedMessages \ (base[r].covered \union recent)
           IN /\ \A n \in recent :
                   /\ messages[n].turn # r
                   /\ \A m \in Ordinals : messages[m].turn = messages[n].turn => m \in recent
              /\ base[r].covered \intersect recent = {}
              /\ base[r].boundary > 0 /\ gap # {} =>
                   \/ summary.boundary # base[r].boundary
                   \/ \E q \in Requests : IsMissingAfter(q, base[r].boundary)]_vars
  BY <1>1, LoadStep, Zenon
<1>3. QED  BY <1>2, MemoryIsConsistent, PTL DEF Spec, ContextIsAccountedFor
=============================================================================
