------------------------ MODULE DocumentChunkingProofs ------------------------
(***************************************************************************)
(* No token of a document is lost and no chunk spans two places, for any   *)
(* document, budget, overlap and tokenizer.  The argument: the chunks so   *)
(* far are a chain that starts with the first block; while a group is cut  *)
(* the chain ends in its last window, and otherwise with all tokens of the *)
(* last group; and a window that shrinks still ends behind the place where *)
(* the next one starts.  Between two blocks in a row the section path      *)
(* tells whether the place changes, so a group, which is one section and   *)
(* has no heading but its first block, is one place.  It is cut only when  *)
(* it is over the budget and one block, or a heading and its first.        *)
(***************************************************************************)
EXTENDS DocumentChunking, FiniteSetTheorems, SequenceTheorems, TLAPS

Drafts == [first : Nat, last : Nat, from : Nat, to : Nat, tokens : Nat, overlap : Nat]

TypeOK ==
  /\ source \in Sources
  /\ blocks \in Seq(ToSet(blocks))
  /\ \A b \in DOMAIN blocks : blocks[b].tokens \in Nat
  /\ next \in 1..(Len(blocks) + 1)
  /\ pending \in 0..(next - 1)
  /\ chunks \in Seq(Drafts)
  /\ window \in [first : Nat, last : Nat, start : Nat, end : Nat, previous : Nat]

\* Groups follow groups and windows follow windows, from the first block on, and
\* a chunk that has tokens takes some of its group's.
Chain(cs) ==
  /\ cs # <<>> => cs[1].first = 1 /\ cs[1].from = 0 /\ cs[1].overlap = 0
  /\ \A k \in 1..(Len(cs) - 1) : Follows(cs[k], cs[k + 1])
  /\ \A k \in 1..Len(cs) : /\ cs[k].first <= cs[k].last
                           /\ cs[k].tokens > 0 => cs[k].from < cs[k].to

\* The chain takes all tokens of blocks 1 to n.
Reaches(cs, n) ==
  IF cs = <<>> THEN n = 0
  ELSE Last(cs).last = n /\ Last(cs).to = GroupTokens(Last(cs).first, Last(cs).last)

\* The window under way: the first of its group, or behind the last chunk.
WindowShape ==
  /\ window.first \in 1..window.last
  /\ window.last = next - 1
  /\ pending = 0
  /\ CurrentTokens > TargetTokens
  /\ window.start < window.end
  /\ window.end <= window.start + TargetTokens
  /\ window.end <= CurrentTokens
  /\ \/ window.start = 0 /\ window.previous = 0 /\ Reaches(chunks, window.first - 1)
     \/ /\ chunks # <<>>
        /\ Last(chunks).first = window.first
        /\ Last(chunks).last = window.last
        /\ Last(chunks).to = window.previous
        /\ Last(chunks).from < window.start
        /\ window.start <= window.previous
        /\ window.previous - window.start <= OverlapTokens

GroupShape ==
  IF window = NoWindow THEN Reaches(chunks, next - 1 - pending) ELSE WindowShape

OutcomeShape ==
  /\ outcome = "parsing" => blocks = <<>> /\ next = 1 /\ pending = 0 /\ chunks = <<>> /\ window = NoWindow
  /\ outcome = "chunked" =>
       /\ window = NoWindow /\ pending = 0 /\ next = Len(blocks) + 1
       /\ chunks # <<>>
       /\ \A k \in 1..Len(chunks) : chunks[k].tokens \in 1..TargetTokens

IInv == TypeOK /\ Chain(chunks) /\ GroupShape /\ OutcomeShape

-----------------------------------------------------------------------------
(* Induction over sequences, by the least index that fails                 *)

LEMMA LeastExists ==
  ASSUME NEW T \in SUBSET Nat, T # {}
  PROVE  \E m \in T : \A n \in T : m <= n
<1>1. PICK m \in T : \A n \in T : ~ (<<n, m>> \in OpToRel(<, Nat))
  BY NatLessThanWellFounded, WFMin
<1>2. \A n \in T : ~ (n < m)
  BY <1>1 DEF OpToRel
<1>3. QED  BY <1>2

\* The function by which FlattenSeq computes.
FlattensTo(seqs, flat, n) ==
  flat = [i \in 1..n |-> IF i = 1 THEN seqs[i] ELSE flat[i - 1] \o seqs[i]]

LEMMA FlattenExists ==
  ASSUME NEW S, NEW seqs \in Seq(Seq(S)), NEW n \in 1..Len(seqs)
  PROVE  \E flat \in [1..n -> Seq(S)] : FlattensTo(seqs, flat, n)
<1> DEFINE Has(k) == \E flat \in [1..k -> Seq(S)] : FlattensTo(seqs, flat, k)
<1> DEFINE T == {k \in 1..Len(seqs) : ~Has(k)}
<1>1. \A i \in 1..Len(seqs) : seqs[i] \in Seq(S)
  OBVIOUS
<1>2. SUFFICES ASSUME ~Has(n) PROVE FALSE
  OBVIOUS
<1>3. PICK k \in T : \A j \in T : k <= j
  <2>1. T \in SUBSET Nat /\ T # {}
    BY <1>2
  <2> HIDE DEF T
  <2>2. QED  BY <2>1, LeastExists
<1>4. k # 1
  <2>1. SUFFICES ASSUME k = 1 PROVE Has(k)
    BY <1>3
  <2> DEFINE f == [i \in 1..1 |-> seqs[1]]
  <2>2. f \in [1..1 -> Seq(S)]
    BY <1>1
  <2>3. FlattensTo(seqs, f, 1)
    BY DEF FlattensTo
  <2>4. QED  BY <2>1, <2>2, <2>3
<1>5. k - 1 \in 1..Len(seqs) /\ k - 1 \notin T
  <2>1. k \in 1..Len(seqs)
    BY <1>3
  <2>2. k - 1 \in 1..Len(seqs)
    BY <2>1, <1>4
  <2>3. ~(k <= k - 1)
    BY <2>1
  <2>4. QED  BY <2>2, <2>3, <1>3
<1>6. PICK g \in [1..(k - 1) -> Seq(S)] : FlattensTo(seqs, g, k - 1)
  BY <1>5
<1> DEFINE h == [i \in 1..k |-> IF i = k THEN g[k - 1] \o seqs[k] ELSE g[i]]
<1>7. k \in 1..Len(seqs)
  BY <1>3
<1>8. h \in [1..k -> Seq(S)]
  <2>1. g[k - 1] \o seqs[k] \in Seq(S)
    <3>1. g[k - 1] \in Seq(S) /\ seqs[k] \in Seq(S)
      BY <1>1, <1>4, <1>6, <1>7
    <3>2. QED  BY <3>1
  <2>2. QED  BY <2>1, <1>6, <1>7
<1>9. FlattensTo(seqs, h, k)
  <2> DEFINE e == [i \in 1..k |-> IF i = 1 THEN seqs[i] ELSE h[i - 1] \o seqs[i]]
  <2>1. ASSUME NEW i \in 1..k PROVE h[i] = e[i]
    <3>1. CASE i = k
      <4>1. h[i - 1] = g[k - 1]
        BY <3>1, <1>4, <1>7
      <4>2. QED  BY <3>1, <4>1, <1>4, <1>7
    <3>2. CASE i # k
      <4>1. i \in 1..(k - 1) /\ h[i] = g[i]
        BY <3>2, <1>7
      <4>2. g[i] = IF i = 1 THEN seqs[i] ELSE g[i - 1] \o seqs[i]
        BY <1>6, <4>1 DEF FlattensTo
      <4>3. i # 1 => h[i - 1] = g[i - 1]
        BY <4>1, <1>7
      <4>4. QED  BY <4>1, <4>2, <4>3
    <3>3. QED  BY <3>1, <3>2
  <2>2. h = e
    BY <2>1
  <2>3. QED  BY <2>2 DEF FlattensTo
<1>10. QED  BY <1>3, <1>8, <1>9

LEMMA FlattenType ==
  ASSUME NEW S, NEW seqs \in Seq(Seq(S))
  PROVE  FlattenSeq(seqs) \in Seq(S)
<1>1. CASE Len(seqs) = 0
  BY <1>1 DEF FlattenSeq
<1>2. CASE Len(seqs) # 0
  <2> DEFINE n == Len(seqs)
  <2> DEFINE f == CHOOSE flat : FlattensTo(seqs, flat, n)
  <2>1. n \in 1..Len(seqs)
    BY <1>2
  <2>2. FlattensTo(seqs, f, n)
    BY <2>1, FlattenExists
  <2>3. FlattenSeq(seqs) = f[n]
    BY <1>2 DEF FlattenSeq, FlattensTo
  <2> HIDE DEF f
  <2>4. \A i \in 1..n : seqs[i] \in Seq(S)
    OBVIOUS
  <2> DEFINE T == {i \in 1..n : f[i] \notin Seq(S)}
  <2>5. T = {}
    <3>1. SUFFICES ASSUME T # {} PROVE FALSE
      OBVIOUS
    <3>2. PICK i \in T : \A j \in T : i <= j
      <4>1. T \in SUBSET Nat
        OBVIOUS
      <4> HIDE DEF T
      <4>2. QED  BY <4>1, <3>1, LeastExists
    <3>3. i \in 1..n /\ f[i] \notin Seq(S)
      BY <3>2
    <3>4. f[i] = IF i = 1 THEN seqs[i] ELSE f[i - 1] \o seqs[i]
      BY <3>3, <2>2 DEF FlattensTo
    <3>5. i # 1
      BY <3>3, <3>4, <2>4
    <3>6. i - 1 \in 1..n /\ ~(i <= i - 1)
      BY <3>3, <3>5
    <3>7. f[i - 1] \in Seq(S)
      BY <3>6, <3>2
    <3>8. f[i - 1] \o seqs[i] \in Seq(S)
      BY <3>7, <3>3, <2>4
    <3>9. QED  BY <3>3, <3>4, <3>5, <3>8
  <2>6. f[n] \in Seq(S)
    BY <2>1, <2>5
  <2>7. QED  BY <2>3, <2>6
<1>3. QED  BY <1>1, <1>2

-----------------------------------------------------------------------------
(* Blocks and their tokens                                                 *)

LEMMA BlocksType ==
  ASSUME NEW items, items \in Seq(ToSet(items)),
         \A item \in ToSet(items) : item.texts \in Seq(Nat)
  PROVE  /\ Blocks(items) \in Seq(ToSet(Blocks(items)))
         /\ \A b \in DOMAIN Blocks(items) : Blocks(items)[b].tokens \in Nat
<1> DEFINE Made == UNION {ToSet(BlocksOfItem(items, i)) : i \in DOMAIN items}
<1> DEFINE parts == [i \in DOMAIN items |-> BlocksOfItem(items, i)]
<1>1. ASSUME NEW i \in DOMAIN items
      PROVE  /\ BlocksOfItem(items, i) \in Seq(Made)
             /\ \A block \in ToSet(BlocksOfItem(items, i)) : block.tokens \in Nat
  <2>1. items[i].texts \in Seq(Nat)
    BY DEF ToSet
  <2>2. /\ DOMAIN items[i].texts = 1..Len(items[i].texts)
        /\ Len(items[i].texts) \in Nat
    BY <2>1
  <2>3. DOMAIN BlocksOfItem(items, i) = 1..Len(items[i].texts)
    BY <2>2 DEF BlocksOfItem
  <2>4. ASSUME NEW n \in 1..Len(items[i].texts) PROVE BlocksOfItem(items, i)[n] \in Made
    <3>1. BlocksOfItem(items, i)[n] \in ToSet(BlocksOfItem(items, i))
      BY <2>3 DEF ToSet
    <3>2. QED  BY <3>1, Zenon
  <2>5. BlocksOfItem(items, i) = [n \in 1..Len(items[i].texts) |-> BlocksOfItem(items, i)[n]]
    BY <2>2, Zenon DEF BlocksOfItem
  <2> HIDE DEF Made
  <2>6. BlocksOfItem(items, i) \in Seq(Made)
    <3> DEFINE made == BlocksOfItem(items, i)
    <3>1. made = [n \in 1..Len(items[i].texts) |-> made[n]]
      BY <2>5
    <3> HIDE DEF made
    <3>2. made \in [1..Len(items[i].texts) -> Made]
      BY <2>4, <3>1 DEF made
    <3>3. made \in Seq(Made)
      BY <2>2, <3>2, SeqDef
    <3>4. QED  BY <3>3 DEF made
  <2>7. \A n \in 1..Len(items[i].texts) : BlocksOfItem(items, i)[n].tokens = items[i].texts[n]
    BY <2>2 DEF BlocksOfItem
  <2>8. \A n \in 1..Len(items[i].texts) : items[i].texts[n] \in Nat
    BY <2>1
  <2>9. QED  BY <2>3, <2>6, <2>7, <2>8 DEF ToSet
<1>2. parts \in Seq(Seq(Made))
  <2> HIDE DEF Made
  <2>1. DOMAIN items = 1..Len(items) /\ Len(items) \in Nat
    OBVIOUS
  <2>2. parts \in [1..Len(items) -> Seq(Made)]
    BY <2>1, <1>1
  <2>3. QED  BY <2>1, <2>2, SeqDef
<1>3. Blocks(items) \in Seq(Made)
  <2> HIDE DEF Made
  <2>1. FlattenSeq(parts) \in Seq(Made)
    BY <1>2, FlattenType
  <2>2. QED  BY <2>1 DEF Blocks
<1>4. \A block \in Made : block.tokens \in Nat
  BY <1>1
<1> HIDE DEF Made, parts
<1>5. \A b \in DOMAIN Blocks(items) : Blocks(items)[b] \in Made
  BY <1>3
<1>6. Blocks(items) \in Seq(ToSet(Blocks(items)))
  <2> DEFINE bs == Blocks(items)
  <2>1. bs \in Seq(Made) /\ DOMAIN bs = 1..Len(bs) /\ Len(bs) \in Nat
    BY <1>3
  <2> HIDE DEF bs
  <2>2. bs \in [1..Len(bs) -> ToSet(bs)]
    BY <2>1 DEF ToSet
  <2>3. bs \in Seq(ToSet(bs))
    BY <2>1, <2>2, SeqDef
  <2>4. QED  BY <2>3 DEF bs
<1>7. QED  BY <1>4, <1>5, <1>6

LEMMA TokensType ==
  ASSUME NEW S, NEW bs \in Seq(S), \A b \in DOMAIN bs : bs[b].tokens \in Nat
  PROVE  Tokens(bs) \in Nat
<1> DEFINE Of(b) == {b} \X (1..bs[b].tokens)
<1> DEFINE Parts == {Of(b) : b \in DOMAIN bs}
<1>1. DOMAIN bs = 1..Len(bs) /\ Len(bs) \in Nat
  OBVIOUS
<1>2. IsFiniteSet(DOMAIN bs)
  BY <1>1, FS_Interval
<1>3. IsFiniteSet(Parts)
  <2>1. [b \in DOMAIN bs |-> Of(b)] \in Surjection(DOMAIN bs, Parts)
    BY DEF Surjection
  <2>2. QED  BY <1>2, <2>1, FS_Surjection
<1>4. \A b \in DOMAIN bs : IsFiniteSet(Of(b))
  <2>1. TAKE b \in DOMAIN bs
  <2>2. IsFiniteSet(1..bs[b].tokens)
    BY FS_Interval
  <2>3. QED  BY <2>2, FS_Singleton, FS_Product
<1>5. IsFiniteSet(UNION Parts)
  BY <1>3, <1>4, FS_UNION
<1>6. QED  BY <1>5, FS_CardinalityType DEF Tokens

LEMMA GroupTokensType ==
  ASSUME TypeOK, NEW first \in 1..Len(blocks), NEW last \in first..Len(blocks)
  PROVE  GroupTokens(first, last) \in Nat
<1> DEFINE bs == SubSeq(blocks, first, last)
<1>1. bs \in Seq(ToSet(blocks))
  BY DEF TypeOK
<1>2. /\ Len(bs) = last - first + 1
      /\ \A b \in DOMAIN bs : bs[b] = blocks[first + b - 1] /\ first + b - 1 \in DOMAIN blocks
  BY DEF TypeOK
<1>3. \A b \in DOMAIN bs : bs[b].tokens \in Nat
  BY <1>2 DEF TypeOK
<1>4. QED  BY <1>1, <1>3, TokensType DEF GroupTokens

-----------------------------------------------------------------------------
(* Chains of chunks                                                        *)

LEMMA ChainGrows ==
  ASSUME NEW cs \in Seq(Drafts), Chain(cs), NEW d \in Drafts,
         d.first <= d.last, d.tokens > 0 => d.from < d.to,
         cs = <<>> => d.first = 1 /\ d.from = 0 /\ d.overlap = 0,
         cs # <<>> => Follows(Last(cs), d)
  PROVE  /\ Append(cs, d) \in Seq(Drafts)
         /\ Append(cs, d) # <<>>
         /\ Last(Append(cs, d)) = d
         /\ Chain(Append(cs, d))
<1> DEFINE ds == Append(cs, d)
<1>1. /\ ds \in Seq(Drafts) /\ Len(ds) = Len(cs) + 1 /\ Len(cs) \in Nat
      /\ \A k \in 1..Len(cs) : ds[k] = cs[k]
      /\ ds[Len(cs) + 1] = d
  OBVIOUS
<1> HIDE DEF ds
<1>2. ds # <<>> /\ Last(ds) = d
  BY <1>1 DEF Last
<1>3. ds[1].first = 1 /\ ds[1].from = 0 /\ ds[1].overlap = 0
  <2>1. CASE cs = <<>>
    <3>1. Len(cs) = 0
      BY <2>1
    <3>2. QED  BY <3>1, <2>1, <1>1
  <2>2. CASE cs # <<>>
    <3>1. 1 \in 1..Len(cs)
      BY <2>2
    <3>2. QED  BY <3>1, <2>2, <1>1 DEF Chain
  <2>3. QED  BY <2>1, <2>2
<1>4. ASSUME NEW k \in 1..(Len(ds) - 1) PROVE Follows(ds[k], ds[k + 1])
  <2>1. k \in 1..Len(cs) /\ ds[k] = cs[k]
    BY <1>1
  <2>2. CASE k = Len(cs)
    <3>1. cs # <<>> /\ cs[k] = Last(cs) /\ ds[k + 1] = d
      BY <2>1, <2>2, <1>1 DEF Last
    <3>2. QED  BY <3>1, <2>1
  <2>3. CASE k # Len(cs)
    <3>1. k \in 1..(Len(cs) - 1) /\ ds[k + 1] = cs[k + 1]
      BY <2>1, <2>3, <1>1
    <3>2. QED  BY <3>1, <2>1 DEF Chain
  <2>4. QED  BY <2>2, <2>3
<1>5. ASSUME NEW k \in 1..Len(ds)
      PROVE  ds[k].first <= ds[k].last /\ (ds[k].tokens > 0 => ds[k].from < ds[k].to)
  <2>1. CASE k = Len(cs) + 1
    BY <2>1, <1>1
  <2>2. CASE k # Len(cs) + 1
    BY <2>2, <1>1 DEF Chain
  <2>3. QED  BY <2>1, <2>2
<1>6. Chain(ds)
  BY <1>3, <1>4, <1>5 DEF Chain
<1>7. QED  BY <1>1, <1>2, <1>6 DEF ds

LEMMA ChainPrimed ==
  ASSUME blocks' = blocks
  PROVE  /\ Chain(chunks') => Chain(chunks)'
         /\ \A n : Reaches(chunks', n) => Reaches(chunks, n)'
<1>1. \A first, last : GroupTokens(first, last)' = GroupTokens(first, last)
  BY Zenon DEF GroupTokens
<1>2. \A c, d : Follows(c, d) => Follows(c, d)'
  BY <1>1, Zenon DEF Follows
<1>3. Chain(chunks') => Chain(chunks)'
  BY <1>2 DEF Chain
<1>4. \A n : Reaches(chunks', n) => Reaches(chunks, n)'
  BY <1>1, Zenon DEF Reaches
<1>5. QED  BY <1>3, <1>4

\* Emitting the open group lets the chain reach the block before next.
LEMMA EmittedReaches ==
  ASSUME TypeOK, Chain(chunks), Reaches(chunks, next - 1 - pending)
  PROVE  /\ Emitted(pending) \in Seq(Drafts)
         /\ Chain(Emitted(pending))
         /\ Reaches(Emitted(pending), next - 1)
<1>0. /\ next \in 1..(Len(blocks) + 1) /\ pending \in 0..(next - 1) /\ Len(blocks) \in Nat
      /\ chunks \in Seq(Drafts)
  BY DEF TypeOK
<1>1. CASE pending = 0
  BY <1>1, <1>0 DEF Emitted
<1>2. CASE pending # 0
  <2> DEFINE d == WholeGroup(next - pending, next - 1)
  <2>1. next - pending \in 1..Len(blocks) /\ next - 1 \in (next - pending)..Len(blocks)
    BY <1>0, <1>2
  <2>2. GroupTokens(next - pending, next - 1) \in Nat
    BY <2>1, GroupTokensType
  <2>3. /\ d \in Drafts
        /\ d.first = next - pending /\ d.last = next - 1
        /\ d.from = 0 /\ d.overlap = 0
        /\ d.to = GroupTokens(next - pending, next - 1) /\ d.tokens = d.to
    BY <2>1, <2>2 DEF WholeGroup, Draft, Drafts
  <2>4. Emitted(pending) = Append(chunks, d)
    BY <1>2 DEF Emitted
  <2> HIDE DEF d
  <2>5. chunks = <<>> => d.first = 1
    BY <1>0, <2>3 DEF Reaches
  <2>6. ASSUME chunks # <<>> PROVE Follows(Last(chunks), d)
    <3>1. Len(chunks) \in 1..Len(chunks) /\ Last(chunks) = chunks[Len(chunks)]
      BY <1>0, <2>6 DEF Last
    <3>2. Last(chunks).first <= Last(chunks).last /\ Last(chunks) \in Drafts
      BY <3>1, <1>0 DEF Chain
    <3>3. /\ Last(chunks).last = next - 1 - pending
          /\ Last(chunks).to = GroupTokens(Last(chunks).first, Last(chunks).last)
      BY <2>6 DEF Reaches
    <3>4. d.first = Last(chunks).last + 1 /\ d.first # Last(chunks).first
      BY <3>2, <3>3, <2>3, <1>0 DEF Drafts
    <3>5. QED  BY <3>3, <3>4, <2>3 DEF Follows
  <2>7. /\ d.first <= d.last
        /\ d.tokens > 0 => d.from < d.to
    BY <2>1, <2>3
  <2>8. /\ Append(chunks, d) \in Seq(Drafts) /\ Append(chunks, d) # <<>>
        /\ Last(Append(chunks, d)) = d /\ Chain(Append(chunks, d))
    BY <1>0, <2>3, <2>5, <2>6, <2>7, ChainGrows
  <2>9. Reaches(Append(chunks, d), next - 1)
    BY <2>3, <2>8 DEF Reaches
  <2>10. QED  BY <2>4, <2>8, <2>9
<1>3. QED  BY <1>1, <1>2

-----------------------------------------------------------------------------
(* The steps                                                               *)

\* Errors leave everything but the outcome as it was.
LEMMA RaiseKeeps ==
  ASSUME IInv, NEW code, code \notin {"parsing", "chunked"}, Raise(code),
         source' = source, blocks' = blocks
  PROVE  IInv'
<1>1. UNCHANGED <<source, blocks, next, pending, chunks, window>> /\ outcome' = code
  BY DEF Raise
<1>2. OutcomeShape'
  BY <1>1 DEF OutcomeShape
<1>3. TypeOK' /\ Chain(chunks)' /\ GroupShape'
  BY <1>1 DEF IInv, TypeOK, Chain, Follows, GroupShape, WindowShape, CurrentTokens, Reaches, GroupTokens
<1>4. QED  BY <1>2, <1>3 DEF IInv

LEMMA KeepKeeps ==
  ASSUME IInv, outcome = "running", next <= Len(blocks), window = NoWindow,
         NEW emitted \in Seq(Drafts), Chain(emitted), NEW n \in 1..next,
         NEW reached, reached = next - n, Reaches(emitted, reached), Keep(n, emitted), UNCHANGED <<source, blocks>>
  PROVE  IInv'
<1>0. /\ TypeOK
      /\ next \in 1..(Len(blocks) + 1) /\ Len(blocks) \in Nat
  BY DEF IInv, TypeOK
<1>1. /\ chunks' = emitted /\ pending' = n /\ next' = next + 1
      /\ UNCHANGED <<source, blocks, window, outcome>>
  BY DEF Keep
<1>2. TypeOK'
  BY <1>0, <1>1 DEF TypeOK
<1>3. Chain(chunks)' /\ Reaches(chunks, reached)'
  <2>1. Chain(chunks') /\ Reaches(chunks', reached)
    BY <1>1
  <2>2. QED  BY <2>1, <1>1, ChainPrimed
<1>4. GroupShape'
  <2>1. next' - 1 - pending' = reached
    BY <1>0, <1>1
  <2>2. window' = NoWindow
    BY <1>1
  <2>3. QED  BY <2>1, <2>2, <1>3 DEF GroupShape
<1>5. OutcomeShape'
  BY <1>1 DEF OutcomeShape
<1>6. QED  BY <1>2, <1>3, <1>4, <1>5 DEF IInv

LEMMA SplitKeeps ==
  ASSUME IInv, outcome = "running", next <= Len(blocks),
         NEW emitted \in Seq(Drafts), Chain(emitted), NEW first \in 1..next,
         Reaches(emitted, first - 1), ~Fits(first, next), Split(first, emitted),
         UNCHANGED <<source, blocks>>
  PROVE  IInv'
<1>0. /\ TypeOK
      /\ next \in 1..(Len(blocks) + 1) /\ Len(blocks) \in Nat
      /\ TargetTokens \in Nat \ {0}
  BY ChunkingAssumption DEF IInv, TypeOK
<1>1. /\ chunks' = emitted /\ pending' = 0 /\ next' = next + 1
      /\ window' = [first |-> first, last |-> next, start |-> 0, previous |-> 0, end |-> TargetTokens]
      /\ UNCHANGED <<source, blocks, outcome>>
  BY DEF Split
<1>2. TypeOK'
  BY <1>0, <1>1 DEF TypeOK
<1>3. Chain(chunks)' /\ Reaches(chunks, first - 1)'
  <2>1. Chain(chunks') /\ Reaches(chunks', first - 1)
    BY <1>1
  <2>2. QED  BY <2>1, <1>1, ChainPrimed
<1>4. GroupTokens(first, next) \in Nat /\ GroupTokens(first, next) > TargetTokens
  <2>1. GroupTokens(first, next) \in Nat
    BY <1>0, GroupTokensType
  <2>2. QED  BY <2>1, <1>0 DEF Fits
<1>5. CurrentTokens' = GroupTokens(first, next)
  BY <1>1 DEF CurrentTokens, GroupTokens
<1>6. window'.first = first /\ window'.last = next /\ window'.start = 0 /\ window'.previous = 0
      /\ window'.end = TargetTokens
  BY <1>1
<1>7. WindowShape'
  BY <1>0, <1>1, <1>3, <1>4, <1>5, <1>6 DEF WindowShape
<1>8. window' # NoWindow
  BY <1>0, <1>6 DEF NoWindow
<1>9. OutcomeShape'
  BY <1>1 DEF OutcomeShape
<1>10. QED  BY <1>2, <1>3, <1>7, <1>8, <1>9 DEF IInv, GroupShape

LEMMA OpenGroupKeeps ==
  ASSUME IInv, outcome = "running", next <= Len(blocks), window = NoWindow,
         OpenGroup(Emitted(pending)), UNCHANGED <<source, blocks>>
  PROVE  IInv'
<1>0. /\ TypeOK /\ Chain(chunks) /\ Reaches(chunks, next - 1 - pending)
      /\ next \in 1..(Len(blocks) + 1)
  BY DEF IInv, TypeOK, GroupShape
<1>1. /\ Emitted(pending) \in Seq(Drafts) /\ Chain(Emitted(pending))
      /\ Reaches(Emitted(pending), next - 1)
  BY <1>0, EmittedReaches
<1>2. CASE Raise("tokenizer_protocol")
  BY <1>2, RaiseKeeps
<1>3. CASE Keep(1, Emitted(pending))
  <2>1. 1 \in 1..next
    BY <1>0
  <2>2. QED  BY <1>1, <1>3, <2>1, KeepKeeps
<1>4. CASE ~Fits(next, next) /\ Split(next, Emitted(pending))
  <2>1. next \in 1..next
    BY <1>0
  <2>2. QED  BY <1>1, <1>4, <2>1, SplitKeeps
<1>5. QED  BY <1>2, <1>3, <1>4 DEF OpenGroup

LEMMA TakeBlockKeeps ==
  ASSUME IInv, TakeBlock
  PROVE  IInv'
<1>0. /\ TypeOK /\ Chain(chunks) /\ Reaches(chunks, next - 1 - pending)
      /\ next \in 1..(Len(blocks) + 1) /\ pending \in 0..(next - 1) /\ chunks \in Seq(Drafts)
      /\ outcome = "running" /\ next <= Len(blocks) /\ window = NoWindow
      /\ UNCHANGED <<source, blocks>>
  BY DEF IInv, TypeOK, GroupShape, TakeBlock
<1>1. CASE OpenGroup(Emitted(pending))
  BY <1>0, <1>1, OpenGroupKeeps
<1>2. CASE Keep(pending + 1, chunks)
  <2>1. pending + 1 \in 1..next /\ next - (pending + 1) = next - 1 - pending
    BY <1>0
  <2>2. QED  BY <1>0, <1>2, <2>1, KeepKeeps
<1>3. CASE ~Fits(next - pending, next) /\ pending = 1 /\ Split(next - 1, chunks)
  <2>1. next - 1 \in 1..next /\ next - pending = next - 1 /\ next - 1 - pending = (next - 1) - 1
    BY <1>0, <1>3
  <2>2. QED  BY <1>0, <1>3, <2>1, SplitKeeps
<1>4. QED  BY <1>1, <1>2, <1>3 DEF TakeBlock, OnlyHeadingPending

LEMMA CurrentTokensType ==
  ASSUME TypeOK, WindowShape
  PROVE  /\ CurrentTokens \in Nat
         /\ window.first \in Nat /\ window.last \in Nat /\ window.start \in Nat
         /\ window.end \in Nat /\ window.previous \in Nat
         /\ next \in Nat
<1>1. /\ window.first \in Nat /\ window.last \in Nat /\ window.start \in Nat
      /\ window.end \in Nat /\ window.previous \in Nat
      /\ next \in 1..(Len(blocks) + 1) /\ Len(blocks) \in Nat
  BY DEF TypeOK
<1>2. window.first \in 1..Len(blocks) /\ window.last \in window.first..Len(blocks)
  BY <1>1 DEF WindowShape
<1>3. QED  BY <1>1, <1>2, GroupTokensType DEF CurrentTokens

\* The next window starts behind the start of this one and not behind its end.
LEMMA NextStartInside ==
  ASSUME NEW from \in Nat, NEW to \in Nat, from < to
  PROVE  /\ NextStart(from, to) \in Nat
         /\ from < NextStart(from, to)
         /\ NextStart(from, to) <= to
         /\ to - NextStart(from, to) <= OverlapTokens
  BY ChunkingAssumption DEF NextStart

LEMMA ShrinkKeeps ==
  ASSUME IInv, outcome = "running", window # NoWindow, NEW by \in Nat, by > 0, Shrink(by),
         source' = source, blocks' = blocks
  PROVE  IInv'
<1>0. TypeOK /\ WindowShape
  BY DEF IInv, GroupShape
<1>1. CASE Raise("tokenizer_protocol")
  BY <1>1, RaiseKeeps
<1>2. CASE /\ ~(window.end <= window.start + by)
           /\ window' = [window EXCEPT !.end = @ - by]
           /\ UNCHANGED <<next, pending, chunks, outcome>>
  <2>1. /\ CurrentTokens \in Nat /\ window.first \in Nat /\ window.last \in Nat
        /\ window.start \in Nat /\ window.end \in Nat /\ window.previous \in Nat
    BY <1>0, CurrentTokensType
  <2>2. window \in [first : Nat, last : Nat, start : Nat, end : Nat, previous : Nat]
    BY <1>0 DEF TypeOK
  <2>3. /\ window'.first = window.first /\ window'.last = window.last
        /\ window'.start = window.start /\ window'.previous = window.previous
        /\ window'.end = window.end - by
    BY <1>2, <2>2
  <2>4. window.end - by \in Nat
    BY <1>2, <2>1
  <2>5. window' \in [first : Nat, last : Nat, start : Nat, end : Nat, previous : Nat]
    BY <1>2, <2>2, <2>4
  <2>6. TypeOK'
    BY <1>2, <1>0, <2>5 DEF TypeOK
  <2>7. Chain(chunks)'
    <3>1. Chain(chunks')
      BY <1>2 DEF IInv
    <3>2. QED  BY <3>1, ChainPrimed
  <2>8. CurrentTokens' = CurrentTokens
    BY <2>3, Zenon DEF CurrentTokens, GroupTokens
  <2>9. Reaches(chunks, window.first - 1) => Reaches(chunks, window.first - 1)'
    BY <1>2, <2>3, Zenon DEF Reaches, GroupTokens
  <2>10. WindowShape'
    <3>0. next' = next /\ pending' = pending /\ chunks' = chunks
      BY <1>2
    <3>1. /\ window'.first \in 1..window'.last
          /\ window'.last = next' - 1 /\ pending' = 0 /\ CurrentTokens' > TargetTokens
      BY <1>0, <2>3, <2>8, <3>0 DEF WindowShape
    <3>2. /\ window'.start < window'.end
          /\ window'.end <= window'.start + TargetTokens /\ window'.end <= CurrentTokens'
      <4>1. /\ window.end <= window.start + TargetTokens /\ window.end <= CurrentTokens
            /\ TargetTokens \in Nat
        BY <1>0, ChunkingAssumption DEF WindowShape
      <4>2. ~(window.end <= window.start + by)
        BY <1>2
      <4>3. QED  BY <2>1, <2>3, <2>8, <4>1, <4>2
    <3>3. CASE window.start = 0 /\ window.previous = 0 /\ Reaches(chunks, window.first - 1)
      BY <2>3, <2>9, <3>1, <3>2, <3>3 DEF WindowShape
    <3>4. CASE /\ chunks # <<>>
               /\ Last(chunks).first = window.first
               /\ Last(chunks).last = window.last
               /\ Last(chunks).to = window.previous
               /\ Last(chunks).from < window.start
               /\ window.start <= window.previous
               /\ window.previous - window.start <= OverlapTokens
      BY <2>3, <3>0, <3>1, <3>2, <3>4 DEF WindowShape
    <3>5. QED  BY <1>0, <3>3, <3>4 DEF WindowShape
  <2>11. window' # NoWindow
    BY <1>0, <2>1, <2>3 DEF WindowShape, NoWindow
  <2>12. OutcomeShape'
    BY <1>2 DEF OutcomeShape
  <2>13. QED  BY <2>6, <2>7, <2>10, <2>11, <2>12 DEF IInv, GroupShape
<1>3. QED  BY <1>1, <1>2 DEF Shrink

LEMMA AcceptKeeps ==
  ASSUME IInv, outcome = "running", window # NoWindow, NEW tokens \in 1..TargetTokens,
         Accept(tokens), source' = source, blocks' = blocks
  PROVE  IInv'
<1> DEFINE overlap == IF window.previous > window.start THEN window.previous - window.start ELSE 0
<1> DEFINE d == Draft(window.first, window.last, window.start, window.end, tokens, overlap)
<1> DEFINE start == NextStart(window.start, window.end)
<1>0. /\ TypeOK /\ WindowShape /\ Chain(chunks) /\ chunks \in Seq(Drafts)
      /\ TargetTokens \in Nat \ {0}
  BY ChunkingAssumption DEF IInv, GroupShape, TypeOK
<1>1. /\ CurrentTokens \in Nat /\ window.first \in Nat /\ window.last \in Nat
      /\ window.start \in Nat /\ window.end \in Nat /\ window.previous \in Nat /\ next \in Nat
  BY <1>0, CurrentTokensType
<1>2. /\ chunks' = Append(chunks, d)
      /\ window' = IF window.end >= CurrentTokens THEN NoWindow
                   ELSE [window EXCEPT !.start = start, !.end = WindowEnd(start),
                                       !.previous = window.end]
      /\ UNCHANGED <<next, pending, outcome>>
  BY DEF Accept
<1>3. /\ d \in Drafts
      /\ d.first = window.first /\ d.last = window.last /\ d.from = window.start
      /\ d.to = window.end /\ d.tokens = tokens /\ d.overlap = overlap
  BY <1>0, <1>1 DEF Draft, Drafts
<1>4. d.first <= d.last /\ d.from < d.to
  BY <1>0, <1>3 DEF WindowShape
<1>5. ASSUME chunks = <<>> PROVE d.first = 1 /\ d.from = 0 /\ d.overlap = 0
  BY <1>0, <1>1, <1>3, <1>5 DEF WindowShape, Reaches
<1>6. ASSUME chunks # <<>> PROVE Follows(Last(chunks), d)
  <2>1. Len(chunks) \in 1..Len(chunks) /\ Last(chunks) = chunks[Len(chunks)]
    BY <1>0, <1>6 DEF Last
  <2>2. Last(chunks).first <= Last(chunks).last /\ Last(chunks) \in Drafts
    BY <2>1, <1>0 DEF Chain
  <2>3. CASE window.start = 0 /\ window.previous = 0 /\ Reaches(chunks, window.first - 1)
    <3>1. /\ Last(chunks).last = window.first - 1
          /\ Last(chunks).to = GroupTokens(Last(chunks).first, Last(chunks).last)
      BY <1>6, <2>3 DEF Reaches
    <3>2. d.first = Last(chunks).last + 1 /\ d.first # Last(chunks).first
      BY <1>1, <1>3, <2>2, <3>1 DEF Drafts
    <3>3. d.from = 0 /\ d.overlap = 0
      BY <1>3, <2>3
    <3>4. QED  BY <3>1, <3>2, <3>3 DEF Follows
  <2>4. CASE /\ Last(chunks).first = window.first
             /\ Last(chunks).last = window.last
             /\ Last(chunks).to = window.previous
             /\ Last(chunks).from < window.start
             /\ window.start <= window.previous
             /\ window.previous - window.start <= OverlapTokens
    <3>1. d.overlap = window.previous - window.start
      BY <1>1, <1>3, <2>4
    <3>2. QED  BY <1>3, <2>4, <3>1 DEF Follows
  <2>5. QED  BY <1>0, <2>3, <2>4 DEF WindowShape
<1> HIDE DEF d
<1>7. /\ chunks' \in Seq(Drafts) /\ chunks' # <<>> /\ Last(chunks') = d /\ Chain(chunks')
  BY <1>0, <1>2, <1>3, <1>4, <1>5, <1>6, ChainGrows
<1>8. Chain(chunks)'
  BY <1>7, ChainPrimed
<1>9. OutcomeShape'
  BY <1>2 DEF OutcomeShape
<1>10. CASE window.end >= CurrentTokens
  <2>1. window' = NoWindow
    BY <1>2, <1>10
  <2>2. NoWindow \in [first : Nat, last : Nat, start : Nat, end : Nat, previous : Nat]
    BY DEF NoWindow
  <2>3. TypeOK'
    BY <1>0, <1>2, <1>7, <2>1, <2>2 DEF TypeOK
  <2>4. d.to = GroupTokens(d.first, d.last) /\ d.last = next - 1
    BY <1>0, <1>1, <1>3, <1>10 DEF WindowShape, CurrentTokens
  <2>5. Reaches(chunks', next - 1)
    BY <1>7, <2>4 DEF Reaches
  <2>6. next' - 1 - pending' = next - 1 /\ pending' = 0
    BY <1>0, <1>1, <1>2 DEF WindowShape
  <2>7. Reaches(chunks, next - 1 - pending)'
    BY <2>5, <2>6, Zenon DEF Reaches, GroupTokens
  <2>8. QED  BY <1>8, <1>9, <2>1, <2>3, <2>7 DEF IInv, GroupShape
<1>11. CASE ~(window.end >= CurrentTokens)
  <2>1. window' = [window EXCEPT !.start = start, !.end = WindowEnd(start), !.previous = window.end]
    BY <1>2, <1>11
  <2>2. /\ start \in Nat /\ window.start < start /\ start <= window.end
        /\ window.end - start <= OverlapTokens
    BY <1>0, <1>1, NextStartInside DEF WindowShape
  <2> HIDE DEF start
  <2>3. /\ WindowEnd(start) \in Nat /\ start < WindowEnd(start)
        /\ WindowEnd(start) <= start + TargetTokens /\ WindowEnd(start) <= CurrentTokens
    BY <1>0, <1>1, <1>11, <2>2 DEF WindowEnd
  <2>4. window \in [first : Nat, last : Nat, start : Nat, end : Nat, previous : Nat]
    BY <1>0 DEF TypeOK
  <2>5. /\ window'.first = window.first /\ window'.last = window.last
        /\ window'.start = start /\ window'.previous = window.end
        /\ window'.end = WindowEnd(start)
    BY <2>1, <2>4
  <2>6. window' \in [first : Nat, last : Nat, start : Nat, end : Nat, previous : Nat]
    BY <1>1, <2>1, <2>2, <2>3, <2>4
  <2>7. TypeOK'
    BY <1>0, <1>2, <1>7, <2>6 DEF TypeOK
  <2>8. CurrentTokens' = CurrentTokens
    BY <2>5, Zenon DEF CurrentTokens, GroupTokens
  <2>9. WindowShape'
    <3>1. /\ window'.first \in 1..window'.last
          /\ window'.last = next' - 1 /\ pending' = 0 /\ CurrentTokens' > TargetTokens
      BY <1>0, <1>2, <2>5, <2>8 DEF WindowShape
    <3>2. /\ window'.start < window'.end
          /\ window'.end <= window'.start + TargetTokens /\ window'.end <= CurrentTokens'
      BY <2>3, <2>5, <2>8
    <3>3. /\ chunks' # <<>>
          /\ Last(chunks').first = window'.first /\ Last(chunks').last = window'.last
          /\ Last(chunks').to = window'.previous /\ Last(chunks').from < window'.start
          /\ window'.start <= window'.previous
          /\ window'.previous - window'.start <= OverlapTokens
      BY <1>3, <1>7, <2>2, <2>5
    <3>4. QED  BY <3>1, <3>2, <3>3 DEF WindowShape
  <2>10. window' # NoWindow
    BY <1>0, <1>1, <2>5 DEF WindowShape, NoWindow
  <2>11. QED  BY <1>8, <1>9, <2>7, <2>9, <2>10 DEF IInv, GroupShape
<1>12. QED  BY <1>10, <1>11

LEMMA DecodeWindowKeeps ==
  ASSUME IInv, DecodeWindow
  PROVE  IInv'
<1>0. /\ outcome = "running" /\ window # NoWindow /\ source' = source /\ blocks' = blocks
      /\ TargetTokens \in Nat \ {0} /\ MaxGrowth \in Nat
  BY ChunkingAssumption DEF DecodeWindow
<1>1. CASE Raise("invalid_group")
  BY <1>0, <1>1, RaiseKeeps
<1>2. ASSUME NEW tokens \in Recounted(window.end - window.start), tokens = 0, Shrink(1)
      PROVE  IInv'
  BY <1>0, <1>2, ShrinkKeeps
<1>3. ASSUME NEW tokens \in Recounted(window.end - window.start), tokens # 0,
             tokens <= TargetTokens, Accept(tokens)
      PROVE  IInv'
  <2>1. TypeOK /\ WindowShape
    BY <1>0 DEF IInv, GroupShape
  <2>2. window.start \in Nat /\ window.end \in Nat /\ window.start < window.end
    BY <2>1, CurrentTokensType DEF WindowShape
  <2>3. tokens \in 1..TargetTokens
    BY <1>0, <1>3, <2>2 DEF Recounted
  <2>4. QED  BY <1>0, <1>3, <2>3, AcceptKeeps
<1>4. ASSUME NEW tokens \in Recounted(window.end - window.start), tokens # 0,
             ~(tokens <= TargetTokens), Shrink(tokens - TargetTokens)
      PROVE  IInv'
  <2>1. TypeOK /\ WindowShape
    BY <1>0 DEF IInv, GroupShape
  <2>2. window.start \in Nat /\ window.end \in Nat /\ window.start < window.end
    BY <2>1, CurrentTokensType DEF WindowShape
  <2>3. tokens - TargetTokens \in Nat /\ tokens - TargetTokens > 0
    BY <1>0, <1>4, <2>2 DEF Recounted
  <2>4. QED  BY <1>0, <1>4, <2>3, ShrinkKeeps
<1>5. QED  BY <1>1, <1>2, <1>3, <1>4 DEF DecodeWindow

LEMMA ChunkingEndsKeeps ==
  ASSUME IInv, ChunkingEnds
  PROVE  IInv'
<1>0. /\ TypeOK /\ Chain(chunks) /\ Reaches(chunks, next - 1 - pending)
      /\ outcome = "running" /\ window = NoWindow /\ next > Len(blocks)
      /\ next \in 1..(Len(blocks) + 1) /\ Len(blocks) \in Nat
      /\ chunks' = Emitted(pending) /\ pending' = 0
      /\ UNCHANGED <<source, blocks, next, window>>
  BY DEF IInv, TypeOK, GroupShape, ChunkingEnds
<1>1. chunks' \in Seq(Drafts) /\ Chain(chunks') /\ Reaches(chunks', next - 1)
  BY <1>0, EmittedReaches
<1>2. TypeOK'
  BY <1>0, <1>1 DEF TypeOK
<1>3. Chain(chunks)'
  BY <1>0, <1>1, ChainPrimed
<1>4. Reaches(chunks, next - 1 - pending)'
  <2>1. next' - 1 - pending' = next - 1
    BY <1>0
  <2>2. QED  BY <1>0, <1>1, <2>1, Zenon DEF Reaches, GroupTokens
<1>5. OutcomeShape'
  <2>1. outcome' \in {"chunked", "invalid_group"}
    BY DEF ChunkingEnds
  <2>2. ASSUME outcome' = "chunked"
        PROVE  chunks' # <<>> /\ \A k \in 1..Len(chunks') : chunks'[k].tokens \in 1..TargetTokens
    <3>1. chunks' # <<>> /\ \A c \in ToSet(chunks') : c.tokens \in 1..TargetTokens
      BY <2>2 DEF ChunkingEnds
    <3>2. QED  BY <1>1, <3>1 DEF ToSet
  <2>3. next' = Len(blocks') + 1 /\ window' = NoWindow /\ pending' = 0
    BY <1>0
  <2>4. QED  BY <2>1, <2>2, <2>3 DEF OutcomeShape
<1>6. QED  BY <1>0, <1>2, <1>3, <1>4, <1>5 DEF IInv, GroupShape

LEMMA ParseKeeps ==
  ASSUME IInv, Parse
  PROVE  IInv'
<1>0. /\ source \in Sources /\ blocks = <<>> /\ next = 1 /\ pending = 0 /\ chunks = <<>> /\ window = NoWindow
      /\ blocks' = Parsed(source).blocks
      /\ outcome' = IF Parsed(source).code = "parsed" THEN "running" ELSE Parsed(source).code
      /\ UNCHANGED <<source, next, pending, chunks, window>>
  BY DEF IInv, TypeOK, OutcomeShape, Parse
<1>1. blocks' \in Seq(ToSet(blocks')) /\ \A b \in DOMAIN blocks' : blocks'[b].tokens \in Nat
  <2>1. CASE blocks' = <<>>
    <3>1. DOMAIN <<>> = {} /\ ToSet(<<>>) = {} /\ <<>> \in Seq({})
      BY DEF ToSet
    <3>2. QED  BY <2>1, <3>1
  <2>2. CASE blocks' = Blocks(source.items)
    <3>1. /\ source.items \in Seq(ToSet(source.items))
          /\ \A item \in ToSet(source.items) : item.texts \in Seq(Nat)
      BY <1>0, SourcesAssumption
    <3>2. /\ Blocks(source.items) \in Seq(ToSet(Blocks(source.items)))
          /\ \A b \in DOMAIN Blocks(source.items) : Blocks(source.items)[b].tokens \in Nat
      BY <3>1, BlocksType
    <3>3. QED  BY <2>2, <3>2
  <2>3. QED  BY <1>0, <2>1, <2>2 DEF Parsed
<1>2. TypeOK'
  <2>1. Len(blocks') \in Nat
    BY <1>1
  <2>2. QED  BY <1>0, <1>1, <2>1 DEF IInv, TypeOK
<1>3. outcome' \in {"running", "resource_limit_exceeded", "empty_content"}
  BY <1>0 DEF Parsed
<1>4. OutcomeShape'
  BY <1>3 DEF OutcomeShape
<1>5. Chain(chunks)' /\ Reaches(chunks, next - 1 - pending)'
  BY <1>0 DEF Chain, Reaches
<1>6. QED  BY <1>0, <1>2, <1>4, <1>5 DEF IInv, GroupShape

-----------------------------------------------------------------------------
(* The theorems                                                            *)

LEMMA InitHolds == Init => IInv
<1>1. SUFFICES ASSUME Init PROVE IInv
  OBVIOUS
<1>2. TypeOK
  <2>1. DOMAIN <<>> = {} /\ ToSet(<<>>) = {} /\ <<>> \in Seq({}) /\ Len(<<>>) = 0
    BY DEF ToSet
  <2>2. QED  BY <1>1, <2>1 DEF Init, TypeOK, NoWindow
<1>3. Chain(chunks) /\ GroupShape /\ OutcomeShape
  BY <1>1 DEF Init, Chain, GroupShape, Reaches, OutcomeShape
<1>4. QED  BY <1>2, <1>3 DEF IInv

LEMMA StepHolds == IInv /\ [Next]_vars => IInv'
<1>1. SUFFICES ASSUME IInv, [Next]_vars PROVE IInv'
  OBVIOUS
<1>2. CASE Parse
  BY <1>1, <1>2, ParseKeeps
<1>3. CASE ParseFails
  BY <1>1, <1>3, RaiseKeeps DEF ParseFails, Raise
<1>4. CASE TakeBlock
  BY <1>1, <1>4, TakeBlockKeeps
<1>5. CASE DecodeWindow
  BY <1>1, <1>5, DecodeWindowKeeps
<1>6. CASE ChunkingEnds
  BY <1>1, <1>6, ChunkingEndsKeeps
<1>7. CASE TokenizerFails
  BY <1>1, <1>7, RaiseKeeps DEF TokenizerFails
<1>8. CASE UNCHANGED vars
  BY <1>1, <1>8 DEF vars, IInv, TypeOK, Chain, Follows, GroupShape, WindowShape, CurrentTokens,
      Reaches, GroupTokens, OutcomeShape
<1>9. QED
  BY <1>1, <1>2, <1>3, <1>4, <1>5, <1>6, <1>7, <1>8 DEF Next, Ended

\* Where the chunker stands, its drafts are a chain over all blocks before it.
THEOREM ChunkingIsConsistent == Spec => []IInv
<1> QED
  BY InitHolds, StepHolds, PTL DEF Spec

\* No token of a document is in no chunk, windows share what they say, within
\* the overlap, and every chunk keeps the budget, for any document and tokenizer.
THEOREM NoTokenIsLost == Spec => []TokensAreCovered
<1>1. IInv => TokensAreCovered
  <2>1. SUFFICES ASSUME IInv, outcome = "chunked" PROVE TokensAreCovered
    BY DEF TokensAreCovered
  <2>2. /\ chunks # <<>> /\ chunks \in Seq(Drafts) /\ Chain(chunks)
        /\ Len(chunks) \in Nat /\ DOMAIN chunks = 1..Len(chunks)
        /\ \A k \in 1..Len(chunks) : chunks[k].tokens \in 1..TargetTokens
    BY <2>1 DEF IInv, TypeOK, OutcomeShape
  <2>3. Reaches(chunks, Len(blocks))
    <3>1. window = NoWindow /\ pending = 0 /\ next = Len(blocks) + 1 /\ Len(blocks) \in Nat
      BY <2>1 DEF IInv, OutcomeShape, TypeOK
    <3>2. next - 1 - pending = Len(blocks)
      BY <3>1
    <3>3. QED  BY <2>1, <3>1, <3>2 DEF IInv, GroupShape
  <2>4. \A c \in ToSet(chunks) : c.from < c.to /\ c.tokens \in 1..TargetTokens
    BY <2>2, ChunkingAssumption DEF ToSet, Chain
  <2>5. QED  BY <2>2, <2>3, <2>4 DEF TokensAreCovered, Chain, Reaches
<1> QED
  BY ChunkingIsConsistent, <1>1, PTL

-----------------------------------------------------------------------------
(* The order of the blocks                                                 *)

\* A block is one text of its item.
Genuine(items, block) ==
  /\ block.item \in DOMAIN items
  /\ block.kind = items[block.item].kind
  /\ block.section = SectionPath(items, block.item)
  /\ block.page = PageNumber(items, block.item)

\* The items of two blocks in a row: no text is between them.
Neighbours(items, i, j) ==
  /\ i <= j
  /\ i = j => Len(items[i].texts) > 1
  /\ \A k \in (i + 1)..(j - 1) : Len(items[k].texts) = 0

\* All texts of the first n items, in their order.
InOrder(items, flat, n) ==
  /\ \A b \in 1..Len(flat) : Genuine(items, flat[b]) /\ flat[b].item <= n
  /\ \A b \in 1..(Len(flat) - 1) : Neighbours(items, flat[b].item, flat[b + 1].item)
  /\ flat # <<>> => \A k \in (flat[Len(flat)].item + 1)..n : Len(items[k].texts) = 0

ItemsShape(items) ==
  /\ items \in Seq(ToSet(items))
  /\ \A item \in ToSet(items) :
       item.texts \in Seq(Nat) /\ (item.kind = "heading" => Len(item.texts) = 1)
  /\ \E kinds \in {{"page"}, {"record"}, {"heading", "text", "table"}} :
       \A item \in ToSet(items) : item.kind \in kinds

LEMMA ItemTexts ==
  ASSUME NEW items, ItemsShape(items), NEW i \in DOMAIN items
  PROVE  /\ Len(items[i].texts) \in Nat
         /\ DOMAIN items[i].texts = 1..Len(items[i].texts)
         /\ items[i].kind = "heading" => Len(items[i].texts) = 1
<1>1. items[i] \in ToSet(items)
  BY DEF ToSet
<1>2. items[i].texts \in Seq(Nat) /\ (items[i].kind = "heading" => Len(items[i].texts) = 1)
  BY <1>1 DEF ItemsShape
<1>3. QED  BY <1>2

LEMMA PartOfItem ==
  ASSUME NEW items, ItemsShape(items), NEW i \in DOMAIN items
  PROVE  /\ BlocksOfItem(items, i) \in Seq(ToSet(BlocksOfItem(items, i)))
         /\ Len(BlocksOfItem(items, i)) = Len(items[i].texts)
         /\ \A n \in 1..Len(items[i].texts) :
              Genuine(items, BlocksOfItem(items, i)[n]) /\ BlocksOfItem(items, i)[n].item = i
<1> DEFINE part == BlocksOfItem(items, i)
           m == Len(items[i].texts)
<1>1. DOMAIN items[i].texts = 1..m /\ m \in Nat
  BY ItemTexts
<1>2. part = [n \in 1..m |->
        [kind |-> items[i].kind, tokens |-> items[i].texts[n], section |-> SectionPath(items, i),
         page |-> PageNumber(items, i), item |-> i]]
  BY <1>1 DEF BlocksOfItem
<1>3. \A n \in 1..m : Genuine(items, part[n]) /\ part[n].item = i
  BY <1>2 DEF Genuine
<1>4. DOMAIN part = 1..m
  BY <1>2
<1>5. part = [n \in 1..m |-> part[n]]
  BY <1>2, Zenon
<1> HIDE DEF part, m
<1>6. part \in [1..m -> ToSet(part)]
  BY <1>4, <1>5 DEF ToSet
<1>7. part \in Seq(ToSet(part)) /\ Len(part) = m
  BY <1>1, <1>4, <1>6, SeqDef
<1>8. QED  BY <1>3, <1>7 DEF part, m

LEMMA OrderGrows ==
  ASSUME NEW items, ItemsShape(items), NEW S, NEW flat \in Seq(S), NEW n \in 1..Len(items),
         BlocksOfItem(items, n) \in Seq(S), InOrder(items, flat, n - 1)
  PROVE  InOrder(items, flat \o BlocksOfItem(items, n), n)
<1> DEFINE part == BlocksOfItem(items, n)
           m == Len(flat)
           l == Len(part)
           more == flat \o part
<1>0. n \in DOMAIN items /\ Len(items) \in Nat
  BY DEF ItemsShape
<1>1. /\ l = Len(items[n].texts) /\ l \in Nat
      /\ \A k \in 1..l : Genuine(items, part[k]) /\ part[k].item = n
  BY <1>0, PartOfItem, ItemTexts
<1>2. part \in Seq(S)
  OBVIOUS
<1> HIDE DEF part
<1>3. /\ m \in Nat /\ Len(more) = m + l /\ more \in Seq(S)
      /\ \A b \in 1..m : more[b] = flat[b]
      /\ \A b \in (m + 1)..(m + l) : more[b] = part[b - m]
  BY <1>2
<1>4. /\ \A b \in 1..m : Genuine(items, flat[b]) /\ flat[b].item <= n - 1 /\ flat[b].item \in Nat
      /\ \A b \in 1..(m - 1) : Neighbours(items, flat[b].item, flat[b + 1].item)
      /\ m > 0 => \A k \in (flat[m].item + 1)..(n - 1) : Len(items[k].texts) = 0
  <2>1. \A b \in 1..m : Genuine(items, flat[b]) /\ flat[b].item <= n - 1
    BY DEF InOrder
  <2>2. \A b \in 1..m : flat[b].item \in Nat
    BY <2>1, <1>0 DEF Genuine, ItemsShape
  <2>3. m > 0 => flat # <<>>
    OBVIOUS
  <2>4. QED  BY <2>1, <2>2, <2>3 DEF InOrder
<1> HIDE DEF m, l, more
<1>9. m \in Nat /\ l \in Nat /\ Len(more) = m + l
  BY <1>1, <1>3
<1>5. ASSUME NEW b \in 1..Len(more) PROVE Genuine(items, more[b]) /\ more[b].item <= n
  <2>1. CASE b \in 1..m
    BY <1>3, <1>4, <2>1
  <2>2. CASE b \notin 1..m
    <3>1. b \in (m + 1)..(m + l) /\ b - m \in 1..l
      BY <1>9, <2>2
    <3>2. more[b] = part[b - m]
      BY <1>3, <3>1
    <3>3. QED  BY <1>1, <3>1, <3>2
  <2>3. QED  BY <2>1, <2>2
<1>6. ASSUME NEW b \in 1..(Len(more) - 1)
      PROVE  Neighbours(items, more[b].item, more[b + 1].item)
  <2>0. b \in 1..(m + l - 1)
    BY <1>9
  <2>1. CASE b + 1 <= m
    <3>1. b \in 1..(m - 1) /\ b \in 1..m /\ b + 1 \in 1..m
      BY <1>3, <2>1
    <3>2. more[b] = flat[b] /\ more[b + 1] = flat[b + 1]
      BY <1>3, <3>1
    <3>3. QED  BY <1>4, <3>1, <3>2
  <2>2. CASE b = m
    <3>1. b \in 1..m /\ m > 0 /\ m + 1 \in (m + 1)..(m + l) /\ 1 \in 1..l
      BY <1>9, <2>0, <2>2
    <3>2. more[b] = flat[m] /\ more[b + 1] = part[1]
      BY <1>3, <2>2, <3>1
    <3>3. more[b + 1].item = n /\ flat[m].item \in Nat /\ flat[m].item <= n - 1
      BY <1>1, <1>4, <2>2, <3>1, <3>2
    <3>4. \A k \in (flat[m].item + 1)..(n - 1) : Len(items[k].texts) = 0
      BY <1>4, <3>1
    <3>5. QED  BY <3>2, <3>3, <3>4 DEF Neighbours
  <2>3. CASE b > m
    <3>1. /\ b \in (m + 1)..(m + l) /\ b + 1 \in (m + 1)..(m + l)
          /\ b - m \in 1..l /\ (b + 1) - m \in 1..l /\ l > 1
      BY <1>9, <2>0, <2>3
    <3>2. more[b] = part[b - m] /\ more[b + 1] = part[(b + 1) - m]
      BY <1>3, <3>1
    <3>3. more[b].item = n /\ more[b + 1].item = n
      BY <1>1, <3>1, <3>2
    <3>4. (n + 1)..(n - 1) = {}
      OBVIOUS
    <3>5. QED  BY <1>1, <3>1, <3>3, <3>4 DEF Neighbours
  <2>4. QED  BY <1>3, <2>1, <2>2, <2>3
<1>7. ASSUME more # <<>>, NEW k \in (more[Len(more)].item + 1)..n
      PROVE  Len(items[k].texts) = 0
  <2>1. CASE l = 0
    <3>1. Len(more) = m /\ m > 0
      BY <1>1, <1>3, <1>7, <2>1
    <3>2. more[Len(more)] = flat[m] /\ flat[m].item \in Nat
      BY <1>3, <1>4, <3>1
    <3>3. CASE k = n
      BY <1>1, <2>1, <3>3
    <3>4. CASE k # n
      BY <1>4, <1>7, <3>1, <3>2, <3>4
    <3>5. QED  BY <3>3, <3>4
  <2>2. CASE l # 0
    <3>1. Len(more) \in (m + 1)..(m + l) /\ Len(more) - m \in 1..l
      BY <1>9, <2>2
    <3>2. more[Len(more)].item = n
      BY <1>1, <1>3, <3>1
    <3>3. QED  BY <1>7, <3>2
  <2>3. QED  BY <2>1, <2>2
<1>8. InOrder(items, more, n)
  BY <1>5, <1>6, <1>7 DEF InOrder
<1>10. QED  BY <1>8 DEF more, part

LEMMA BlocksInOrder ==
  ASSUME NEW items, ItemsShape(items)
  PROVE  InOrder(items, Blocks(items), Len(items))
<1> DEFINE N == Len(items)
           parts == [i \in DOMAIN items |-> BlocksOfItem(items, i)]
           S == UNION {ToSet(BlocksOfItem(items, i)) : i \in DOMAIN items}
<1>1. N \in Nat /\ DOMAIN items = 1..N
  BY DEF ItemsShape
<1>2. \A i \in 1..N : BlocksOfItem(items, i) \in Seq(S)
  <2>1. ASSUME NEW i \in 1..N PROVE BlocksOfItem(items, i) \in Seq(S)
    <3> DEFINE part == BlocksOfItem(items, i)
    <3>1. part \in Seq(ToSet(part))
      BY <1>1, PartOfItem
    <3>2. ToSet(part) \subseteq S
      BY <1>1
    <3> HIDE DEF part, S
    <3>3. part \in Seq(S)
      BY <3>1, <3>2
    <3>4. QED  BY <3>3 DEF part
  <2>2. QED  BY <2>1
<1> HIDE DEF S
<1>3. parts \in Seq(Seq(S)) /\ Len(parts) = N /\ \A i \in 1..N : parts[i] = BlocksOfItem(items, i)
  BY <1>1, <1>2
<1>4. InOrder(items, <<>>, 0)
  BY DEF InOrder
<1> HIDE DEF parts
<1>5. Blocks(items) = FlattenSeq(parts)
  BY DEF Blocks, parts
<1>6. CASE N = 0
  <2>1. parts = <<>>
    BY <1>3, <1>6
  <2>2. FlattenSeq(parts) = <<>>
    BY <2>1 DEF FlattenSeq
  <2>3. QED  BY <1>4, <1>5, <1>6, <2>2
<1>7. CASE N # 0
  <2> DEFINE f == CHOOSE flat : FlattensTo(parts, flat, N)
  <2>1. N \in 1..Len(parts)
    BY <1>1, <1>3, <1>7
  <2>2. FlattensTo(parts, f, N)
    BY <2>1, <1>3, FlattenExists
  <2>3. FlattenSeq(parts) = f[N]
    BY <1>3, <1>7 DEF FlattenSeq, FlattensTo
  <2> HIDE DEF f
  <2>4. \A i \in 1..N : f[i] = IF i = 1 THEN parts[i] ELSE f[i - 1] \o parts[i]
    BY <2>2 DEF FlattensTo
  <2> DEFINE T == {i \in 1..N : ~(f[i] \in Seq(S) /\ InOrder(items, f[i], i))}
  <2>5. T = {}
    <3>1. SUFFICES ASSUME T # {} PROVE FALSE
      OBVIOUS
    <3>2. PICK i \in T : \A j \in T : i <= j
      <4>1. T \in SUBSET Nat
        BY <1>1
      <4> HIDE DEF T
      <4>2. QED  BY <4>1, <3>1, LeastExists
    <3>3. i \in 1..N /\ ~(f[i] \in Seq(S) /\ InOrder(items, f[i], i))
      BY <3>2
    <3>4. parts[i] = BlocksOfItem(items, i) /\ parts[i] \in Seq(S)
      BY <1>2, <1>3, <3>3
    <3>5. PICK flat \in Seq(S) : f[i] = flat \o parts[i] /\ InOrder(items, flat, i - 1)
      <4>1. CASE i = 1
        <5>1. <<>> \in Seq(S) /\ f[i] = <<>> \o parts[i] /\ i - 1 = 0
          BY <2>4, <3>3, <3>4, <4>1
        <5>2. QED  BY <1>4, <5>1
      <4>2. CASE i # 1
        <5>1. i - 1 \in 1..N /\ ~(i <= i - 1)
          BY <1>1, <3>3, <4>2
        <5>2. f[i - 1] \in Seq(S) /\ InOrder(items, f[i - 1], i - 1)
          BY <3>2, <5>1
        <5>3. f[i] = f[i - 1] \o parts[i]
          BY <2>4, <3>3, <4>2
        <5>4. QED  BY <5>2, <5>3
      <4>3. QED  BY <4>1, <4>2
    <3>6. InOrder(items, f[i], i)
      BY <3>3, <3>4, <3>5, OrderGrows
    <3>7. f[i] \in Seq(S)
      BY <3>4, <3>5
    <3>8. QED  BY <3>3, <3>6, <3>7
  <2>6. N \in 1..N
    BY <1>1, <1>7
  <2>7. InOrder(items, f[N], N)
    BY <2>5, <2>6
  <2>8. QED  BY <1>5, <2>3, <2>7
<1>8. QED  BY <1>6, <1>7

-----------------------------------------------------------------------------
(* Places and sections                                                     *)

HeadingsUpTo(items, i) == {j \in 1..i : items[j].kind = "heading"}
PlaceOf(items, i) ==
  <<IF HeadingsUpTo(items, i) = {} THEN 0 ELSE Max(HeadingsUpTo(items, i)),
    IF items[i].kind \in {"table", "page"} THEN i ELSE 0>>

LEMMA LargestExists ==
  ASSUME NEW n \in Nat, NEW T \in SUBSET (1..n), T # {}
  PROVE  Max(T) \in T /\ \A x \in T : x <= Max(T)
<1> DEFINE Below == {n - x : x \in T}
<1>1. Below \in SUBSET Nat /\ Below # {}
  OBVIOUS
<1> HIDE DEF Below
<1>2. PICK m \in Below : \A y \in Below : m <= y
  BY <1>1, LeastExists
<1>3. PICK x \in T : m = n - x
  BY DEF Below
<1>4. \A y \in T : x >= y
  <2>1. ASSUME NEW y \in T PROVE x >= y
    <3>1. n - y \in Below
      BY DEF Below
    <3>2. m <= n - y
      BY <1>2, <3>1
    <3>3. QED  BY <1>3, <3>2
  <2>2. QED  BY <2>1
<1>5. Max(T) \in T /\ \A y \in T : Max(T) >= y
  BY <1>4 DEF Max
<1>6. QED  BY <1>5

\* The path of titles is a sequence, and only a heading changes it.
LEMMA PathShape ==
  ASSUME NEW items, ItemsShape(items), NEW i \in DOMAIN items
  PROVE  /\ Cardinality(OpenHeadings(items, i)) \in Nat
         /\ DOMAIN HeadingPath(items, i) = 1..Cardinality(OpenHeadings(items, i))
         /\ \E S : HeadingPath(items, i) \in Seq(S)
<1> DEFINE path == HeadingPath(items, i)
           n == Cardinality(OpenHeadings(items, i))
<1>1. n \in Nat
  <2>1. IsFiniteSet(1..i)
    BY FS_Interval DEF ItemsShape
  <2>2. IsFiniteSet(OpenHeadings(items, i))
    BY <2>1, FS_Subset DEF OpenHeadings
  <2>3. QED  BY <2>2, FS_CardinalityType
<1>2. DOMAIN path = 1..n /\ path = [k \in 1..n |-> path[k]]
  <2>1. path = [k \in 1..n |->
                  items[CHOOSE j \in OpenHeadings(items, i) :
                          Cardinality({x \in OpenHeadings(items, i) : x <= j}) = k].title]
    BY Zenon DEF HeadingPath
  <2>2. QED  BY <2>1, Zenon
<1> HIDE DEF path, n
<1>3. path \in [1..n -> {path[k] : k \in 1..n}]
  BY <1>2
<1>4. path \in Seq({path[k] : k \in 1..n})
  BY <1>1, <1>3, SeqDef
<1>5. QED  BY <1>1, <1>2, <1>4 DEF path, n

LEMMA PathStays ==
  ASSUME NEW items, ItemsShape(items), NEW i \in DOMAIN items, NEW j \in DOMAIN items, i <= j,
         \A k \in (i + 1)..j : items[k].kind # "heading"
  PROVE  /\ HeadingPath(items, j) = HeadingPath(items, i)
         /\ HeadingsUpTo(items, j) = HeadingsUpTo(items, i)
<1>1. i \in Nat /\ j \in Nat
  BY DEF ItemsShape
<1>2. \A k \in 1..j : items[k].kind = "heading" => k \in 1..i
  BY <1>1
<1>3. 1..i \subseteq 1..j
  BY <1>1
<1>4. HeadingsUpTo(items, j) = HeadingsUpTo(items, i)
  BY <1>2, <1>3 DEF HeadingsUpTo
<1>5. OpenHeadings(items, j) = OpenHeadings(items, i)
  <2>1. ASSUME NEW h \in 1..i
        PROVE  (\A k \in (h + 1)..j : items[k].kind = "heading" => items[k].level > items[h].level)
           <=> (\A k \in (h + 1)..i : items[k].kind = "heading" => items[k].level > items[h].level)
    BY <1>1, <1>2
  <2>2. QED  BY <1>2, <1>3, <2>1 DEF OpenHeadings
<1>6. QED  BY <1>4, <1>5 DEF HeadingPath

LEMMA TablesAreNumbered ==
  ASSUME NEW items, ItemsShape(items), NEW i \in DOMAIN items, NEW j \in DOMAIN items, i < j,
         items[j].kind = "table"
  PROVE  TableNumber(items, i) # TableNumber(items, j)
<1> DEFINE Upto(k) == {x \in 1..k : items[x].kind = "table"}
<1>1. i \in Nat /\ j \in Nat
  BY DEF ItemsShape
<1>2. IsFiniteSet(Upto(i)) /\ IsFiniteSet(Upto(j))
  <2>1. IsFiniteSet(1..i) /\ IsFiniteSet(1..j)
    BY <1>1, FS_Interval
  <2>2. QED  BY <2>1, FS_Subset
<1>3. Upto(i) \subseteq Upto(j) /\ j \in Upto(j) /\ j \notin Upto(i)
  BY <1>1
<1> HIDE DEF Upto
<1>4. Cardinality(Upto(i)) # Cardinality(Upto(j))
  <2>1. Upto(i) # Upto(j)
    BY <1>3
  <2>2. QED  BY <1>2, <1>3, <2>1, FS_Subset
<1>5. QED  BY <1>4 DEF TableNumber, Upto

\* Between neighbours of which the second is no heading the section path changes
\* with the place and only with it; a heading is a place of its own.
LEMMA PathsTellPlaces ==
  ASSUME NEW items, ItemsShape(items), NEW i \in DOMAIN items, NEW j \in DOMAIN items,
         Neighbours(items, i, j)
  PROVE  /\ items[j].kind = "heading" \/ SectionPath(items, i) # SectionPath(items, j)
              <=> PlaceOf(items, i) # PlaceOf(items, j)
         /\ PlaceOf(items, i) = PlaceOf(items, j) =>
              /\ SectionPath(items, i) = SectionPath(items, j)
              /\ PageNumber(items, i) = PageNumber(items, j)
<1>1. /\ i \in Nat /\ j \in Nat /\ 0 < i /\ 0 < j /\ i <= j /\ DOMAIN items = 1..Len(items)
      /\ Len(items) \in Nat
  BY DEF ItemsShape, Neighbours
<1>2. CASE items[j].kind = "heading"
  <2>1. i < j
    <3>1. Len(items[j].texts) = 1
      BY <1>2, ItemTexts
    <3>2. i # j
      <4>1. i = j => Len(items[i].texts) > 1
        BY DEF Neighbours
      <4>2. i = j => Len(items[i].texts) = 1
        BY <3>1
      <4>3. ~(1 > 1)
        OBVIOUS
      <4>4. QED  BY <4>1, <4>2, <4>3
    <3>3. QED  BY <1>1, <3>2
  <2>2. PlaceOf(items, j)[1] = j
    <3>1. HeadingsUpTo(items, j) \in SUBSET (1..j) /\ j \in HeadingsUpTo(items, j)
      BY <1>1, <1>2 DEF HeadingsUpTo
    <3>2. Max(HeadingsUpTo(items, j)) \in 1..j /\ j <= Max(HeadingsUpTo(items, j))
      BY <1>1, <3>1, LargestExists
    <3>3. QED  BY <1>1, <3>1, <3>2 DEF PlaceOf
  <2>3. PlaceOf(items, i)[1] \in 0..i
    <3>1. HeadingsUpTo(items, i) \in SUBSET (1..i)
      BY DEF HeadingsUpTo
    <3>2. HeadingsUpTo(items, i) # {} => Max(HeadingsUpTo(items, i)) \in 1..i
      BY <1>1, <3>1, LargestExists
    <3>3. QED  BY <1>1, <3>2 DEF PlaceOf
  <2>4. PlaceOf(items, i) # PlaceOf(items, j)
    <3>1. PlaceOf(items, i)[1] # PlaceOf(items, j)[1]
      BY <1>1, <2>1, <2>2, <2>3
    <3>2. QED  BY <3>1
  <2>5. QED  BY <1>2, <2>4
<1>3. CASE items[j].kind # "heading" /\ i = j
  BY <1>3
<1>4. CASE items[j].kind # "heading" /\ i < j
  <2> DEFINE path == HeadingPath(items, i)
  <2>1. \A k \in (i + 1)..j : items[k].kind # "heading"
    <3>1. ASSUME NEW k \in (i + 1)..(j - 1) PROVE items[k].kind # "heading"
      <4>1. k \in DOMAIN items /\ Len(items[k].texts) = 0
        BY <1>1 DEF Neighbours
      <4>2. QED  BY <4>1, ItemTexts
    <3>2. QED  BY <1>1, <1>4, <3>1
  <2>2. HeadingPath(items, j) = path /\ HeadingsUpTo(items, j) = HeadingsUpTo(items, i)
    BY <1>1, <2>1, PathStays
  <2>3. PlaceOf(items, i) = PlaceOf(items, j) <=>
          (IF items[i].kind \in {"table", "page"} THEN i ELSE 0)
            = (IF items[j].kind \in {"table", "page"} THEN j ELSE 0)
    <3> DEFINE h == IF HeadingsUpTo(items, i) = {} THEN 0 ELSE Max(HeadingsUpTo(items, i))
               x == IF items[i].kind \in {"table", "page"} THEN i ELSE 0
               y == IF items[j].kind \in {"table", "page"} THEN j ELSE 0
    <3>1. PlaceOf(items, i) = <<h, x>> /\ PlaceOf(items, j) = <<h, y>>
      BY <2>2, Zenon DEF PlaceOf
    <3> HIDE DEF h, x, y
    <3>2. <<h, x>> = <<h, y>> <=> x = y
      OBVIOUS
    <3>3. PlaceOf(items, i) = PlaceOf(items, j) <=> x = y
      BY <3>1, <3>2
    <3>4. QED  BY <3>3 DEF x, y
  <2>4. PICK kinds \in {{"page"}, {"record"}, {"heading", "text", "table"}} :
          \A item \in ToSet(items) : item.kind \in kinds
    BY DEF ItemsShape
  <2>5. items[i].kind \in kinds /\ items[j].kind \in kinds
    BY <2>4 DEF ToSet
  <2>6. CASE kinds = {"page"}
    <3>1. items[i].kind = "page" /\ items[j].kind = "page"
      BY <2>5, <2>6
    <3>2. SectionPath(items, i) = <<(<<"page", i>>)>> /\ SectionPath(items, j) = <<(<<"page", j>>)>>
      BY <3>1 DEF SectionPath
    <3>3. SectionPath(items, i) # SectionPath(items, j)
      BY <1>1, <1>4, <3>2
    <3>4. QED  BY <1>1, <1>4, <2>3, <3>1, <3>3
  <2>7. CASE kinds = {"record"}
    <3>1. items[i].kind = "record" /\ items[j].kind = "record"
      BY <2>5, <2>7
    <3>2. SectionPath(items, i) = SectionPath(items, j) /\ PageNumber(items, i) = PageNumber(items, j)
      BY <3>1 DEF SectionPath, PageNumber
    <3>3. QED  BY <1>4, <2>3, <3>1, <3>2
  <2>8. CASE kinds = {"heading", "text", "table"}
    <3>1. /\ items[i].kind \in {"heading", "text", "table"} /\ items[j].kind \in {"text", "table"}
          /\ PageNumber(items, i) = 0 /\ PageNumber(items, j) = 0
      BY <1>4, <2>5, <2>8 DEF PageNumber
    <3>2. PICK S : path \in Seq(S)
      BY PathShape
    <3>3. \A x : Append(path, x) # path
      <4>1. \A x : Len(Append(path, x)) = Len(path) + 1 /\ Len(path) \in Nat
        <5> HIDE DEF path
        <5>1. ASSUME NEW x PROVE Len(Append(path, x)) = Len(path) + 1 /\ Len(path) \in Nat
          <6>1. path \in Seq(S \cup {x})
            BY <3>2
          <6>2. QED  BY <6>1
        <5>2. QED  BY <5>1
      <4>2. \A n \in Nat : n + 1 # n
        OBVIOUS
      <4> HIDE DEF path
      <4>3. QED  BY <4>1, <4>2
    <3>4. \A x, y : Append(path, x) = Append(path, y) => x = y
      <4> HIDE DEF path
      <4>1. ASSUME NEW x, NEW y, Append(path, x) = Append(path, y) PROVE x = y
        <5>1. path \in Seq(S \cup {x, y})
          BY <3>2
        <5>2. Append(path, x)[Len(path) + 1] = x /\ Append(path, y)[Len(path) + 1] = y
          BY <5>1
        <5>3. QED  BY <4>1, <5>2
      <4>2. QED  BY <4>1
    <3>5. /\ items[i].kind = "table" => SectionPath(items, i) = Append(path, <<"table", TableNumber(items, i)>>)
          /\ items[i].kind # "table" => SectionPath(items, i) = path
          /\ items[j].kind = "table" => SectionPath(items, j) = Append(path, <<"table", TableNumber(items, j)>>)
          /\ items[j].kind # "table" => SectionPath(items, j) = path
      BY <2>2, <3>1 DEF SectionPath
    <3>6. items[j].kind = "table" => TableNumber(items, i) # TableNumber(items, j)
      BY <1>4, TablesAreNumbered
    <3> HIDE DEF path
    <3>7. CASE items[i].kind = "table" /\ items[j].kind = "table"
      <4>1. <<"table", TableNumber(items, i)>> # <<"table", TableNumber(items, j)>>
        BY <3>6, <3>7
      <4>2. SectionPath(items, i) # SectionPath(items, j)
        BY <3>4, <3>5, <3>7, <4>1
      <4>3. QED  BY <1>1, <1>4, <2>3, <3>7, <4>2
    <3>8. CASE items[i].kind = "table" /\ items[j].kind # "table"
      <4>1. SectionPath(items, i) # SectionPath(items, j)
        BY <3>3, <3>5, <3>8
      <4>2. QED  BY <1>1, <1>4, <2>3, <3>1, <3>8, <4>1
    <3>9. CASE items[i].kind # "table" /\ items[j].kind = "table"
      <4>1. SectionPath(items, i) # SectionPath(items, j)
        BY <3>3, <3>5, <3>9
      <4>2. QED  BY <1>1, <1>4, <2>3, <3>1, <3>9, <4>1
    <3>10. CASE items[i].kind # "table" /\ items[j].kind # "table"
      <4>1. SectionPath(items, i) = SectionPath(items, j)
        BY <3>5, <3>10
      <4>2. QED  BY <1>4, <2>3, <3>1, <3>10, <4>1
    <3>11. QED  BY <3>7, <3>8, <3>9, <3>10
  <2>9. QED  BY <2>6, <2>7, <2>8
<1>5. QED  BY <1>1, <1>2, <1>3, <1>4
-----------------------------------------------------------------------------
(* Groups                                                                  *)

\* Blocks of one place: no heading but the first and one section path.
OneGroup(first, last) ==
  /\ first \in Nat /\ last \in Nat /\ 1 <= first /\ first <= last /\ last <= Len(blocks)
  /\ \A b \in (first + 1)..last :
       blocks[b].kind # "heading" /\ blocks[b].section = blocks[b - 1].section

\* Why a heading is alone: it is too large, the last block, or another place follows.
Explained(first, last) ==
  first = last /\ blocks[first].kind = "heading" =>
    \/ blocks[first].tokens > TargetTokens
    \/ last = Len(blocks)
    \/ /\ last + 1 <= Len(blocks)
       /\ blocks[last + 1].kind = "heading" \/ blocks[last + 1].section # blocks[last].section

WellGrouped(cs) ==
  \A k \in 1..Len(cs) : /\ OneGroup(cs[k].first, cs[k].last)
                        /\ Explained(cs[k].first, cs[k].last)
                        /\ cs[k].tokens \in 1..TargetTokens
                        /\ IsWindow(cs[k]) => IsTooLarge(cs[k].first, cs[k].last)

\* The group that is cut is in one place and has to be cut.
WindowGroup ==
  /\ OneGroup(window.first, window.last) /\ Explained(window.first, window.last)
  /\ IsTooLarge(window.first, window.last)

StructureInv ==
  /\ outcome # "invalid_group"
  /\ outcome \in {"running", "chunked"} => blocks = Blocks(source.items) /\ blocks # <<>>
  /\ outcome = "running" /\ pending > 0 =>
       /\ OneGroup(next - pending, next - 1) /\ Fits(next - pending, next - 1)
       /\ blocks[next - pending].tokens > 0
  /\ outcome = "running" /\ window # NoWindow => WindowGroup
  /\ WellGrouped(chunks)

\* A group has the tokens of each of its blocks, and one block has no others.
LEMMA GroupHasItsBlocks ==
  ASSUME TypeOK, NEW first \in 1..Len(blocks), NEW last \in first..Len(blocks),
         NEW b \in first..last
  PROVE  /\ blocks[b].tokens \in Nat /\ GroupTokens(first, last) \in Nat
         /\ blocks[b].tokens <= GroupTokens(first, last)
         /\ first = last => GroupTokens(first, last) = blocks[b].tokens
<1> DEFINE bs == SubSeq(blocks, first, last)
           Of(k) == {k} \X (1..bs[k].tokens)
           Parts == {Of(k) : k \in DOMAIN bs}
           i == b - first + 1
<1>1. /\ DOMAIN bs = 1..(last - first + 1)
      /\ \A k \in DOMAIN bs : bs[k] = blocks[first + k - 1] /\ first + k - 1 \in DOMAIN blocks
  BY DEF TypeOK
<1>2. i \in DOMAIN bs /\ bs[i] = blocks[b]
  BY <1>1
<1>3. blocks[b].tokens \in Nat /\ GroupTokens(first, last) \in Nat
  BY GroupTokensType DEF TypeOK
<1>4. GroupTokens(first, last) = Cardinality(UNION Parts)
  BY DEF GroupTokens, Tokens
<1> HIDE DEF bs
<1>5. IsFiniteSet(Of(i)) /\ Cardinality(Of(i)) = blocks[b].tokens
  <2>0. bs[i].tokens \in Nat /\ bs[i].tokens = blocks[b].tokens
    BY <1>2, <1>3
  <2>1. IsFiniteSet(1..bs[i].tokens) /\ Cardinality(1..bs[i].tokens) = blocks[b].tokens
    <3>1. \A t \in Nat : IsFiniteSet(1..t) /\ Cardinality(1..t) = t
      <4>1. TAKE t \in Nat
      <4>2. Cardinality(1..t) = IF 1 > t THEN 0 ELSE t - 1 + 1
        BY FS_Interval
      <4>3. QED  BY <4>2, FS_Interval
    <3>2. QED  BY <2>0, <3>1
  <2>2. IsFiniteSet({i}) /\ Cardinality({i}) = 1
    BY FS_Singleton
  <2>3. Cardinality({i} \X (1..bs[i].tokens)) = 1 * blocks[b].tokens
    BY <2>1, <2>2, FS_Product
  <2>4. IsFiniteSet({i} \X (1..bs[i].tokens))
    BY <2>1, <2>2, FS_Product
  <2>5. 1 * blocks[b].tokens = blocks[b].tokens
    BY <1>3
  <2>6. QED  BY <2>3, <2>4, <2>5
<1>6. IsFiniteSet(UNION Parts)
  <2>1. IsFiniteSet(DOMAIN bs)
    BY <1>1, FS_Interval
  <2>2. IsFiniteSet(Parts)
    <3>1. [k \in DOMAIN bs |-> Of(k)] \in Surjection(DOMAIN bs, Parts)
      BY DEF Surjection
    <3>2. QED  BY <2>1, <3>1, FS_Surjection
  <2>3. \A k \in DOMAIN bs : IsFiniteSet(Of(k))
    <3>1. TAKE k \in DOMAIN bs
    <3>2. bs[k].tokens \in Nat
      BY <1>1 DEF TypeOK
    <3>3. IsFiniteSet(1..bs[k].tokens) /\ IsFiniteSet({k})
      <4>1. \A t \in Nat : IsFiniteSet(1..t)
        BY FS_Interval
      <4>2. QED  BY <3>2, <4>1, FS_Singleton
    <3>4. QED  BY <3>3, FS_Product
  <2>4. QED  BY <2>2, <2>3, FS_UNION
<1>7. Of(i) \subseteq UNION Parts
  BY <1>2
<1>8. first = last => UNION Parts = Of(i)
  <2>1. SUFFICES ASSUME first = last PROVE UNION Parts = Of(i)
    OBVIOUS
  <2>2. DOMAIN bs = {i}
    BY <1>1, <2>1
  <2> HIDE DEF Of
  <2>3. QED  BY <2>2
<1> HIDE DEF Of, Parts
<1>9. Cardinality(Of(i)) <= Cardinality(UNION Parts)
  BY <1>6, <1>7, FS_Subset
<1>10. QED  BY <1>3, <1>4, <1>5, <1>8, <1>9

\* The blocks of a group are in one place, one section and on one page, and the
\* block after it is in another when it starts a place.
LEMMA GroupIsOnePlace ==
  ASSUME source \in Sources, blocks = Blocks(source.items), NEW first, NEW last,
         OneGroup(first, last)
  PROVE  /\ \A b \in first..last : Place(b) = Place(first)
         /\ OneSection(first, last)
         /\ last + 1 <= Len(blocks) =>
              (blocks[last + 1].kind = "heading" \/ blocks[last + 1].section # blocks[last].section
                 <=> Place(last + 1) # Place(first))
<1> DEFINE items == source.items
<1>1. ItemsShape(items)
  BY SourcesAssumption DEF ItemsShape
<1>2. InOrder(items, blocks, Len(items))
  BY <1>1, BlocksInOrder
<1>3. /\ first \in Nat /\ last \in Nat /\ 1 <= first /\ first <= last /\ last <= Len(blocks)
      /\ \A b \in (first + 1)..last :
           blocks[b].kind # "heading" /\ blocks[b].section = blocks[b - 1].section
  BY DEF OneGroup
<1>4. Len(blocks) \in Nat
  <2>1. ItemsShape(items) => items \in Seq(ToSet(items)) /\
          \A item \in ToSet(items) : item.texts \in Seq(Nat)
    BY DEF ItemsShape
  <2>2. Blocks(items) \in Seq(ToSet(Blocks(items)))
    BY <1>1, <2>1, BlocksType
  <2>3. QED  BY <2>2
<1>5. \A b \in 1..Len(blocks) : /\ Genuine(items, blocks[b])
                                /\ Place(b) = PlaceOf(items, blocks[b].item)
  <2>1. ASSUME NEW b \in 1..Len(blocks)
        PROVE  Genuine(items, blocks[b]) /\ Place(b) = PlaceOf(items, blocks[b].item)
    <3>1. Genuine(items, blocks[b])
      BY <1>2 DEF InOrder
    <3>2. blocks[b].kind = items[blocks[b].item].kind
      BY <3>1 DEF Genuine
    <3>3. QED  BY <3>1, <3>2 DEF Place, PlaceOf, HeadingsUpTo
  <2>2. QED  BY <2>1
<1>6. ASSUME NEW b \in 1..(Len(blocks) - 1)
      PROVE  /\ blocks[b + 1].kind = "heading" \/ blocks[b].section # blocks[b + 1].section
                  <=> Place(b) # Place(b + 1)
             /\ Place(b) = Place(b + 1) =>
                  blocks[b].section = blocks[b + 1].section /\ blocks[b].page = blocks[b + 1].page
  <2> DEFINE i == blocks[b].item
             j == blocks[b + 1].item
  <2>1. b \in 1..Len(blocks) /\ b + 1 \in 1..Len(blocks)
    BY <1>4
  <2>2. Neighbours(items, i, j)
    BY <1>2 DEF InOrder
  <2>3. /\ Genuine(items, blocks[b]) /\ Genuine(items, blocks[b + 1])
        /\ Place(b) = PlaceOf(items, i) /\ Place(b + 1) = PlaceOf(items, j)
    BY <1>5, <2>1
  <2>4. /\ i \in DOMAIN items /\ j \in DOMAIN items
        /\ blocks[b].section = SectionPath(items, i) /\ blocks[b].page = PageNumber(items, i)
        /\ blocks[b + 1].section = SectionPath(items, j) /\ blocks[b + 1].page = PageNumber(items, j)
        /\ blocks[b + 1].kind = items[j].kind
    BY <2>3 DEF Genuine
  <2> HIDE DEF i, j, items
  <2>5. /\ items[j].kind = "heading" \/ SectionPath(items, i) # SectionPath(items, j)
              <=> PlaceOf(items, i) # PlaceOf(items, j)
        /\ PlaceOf(items, i) = PlaceOf(items, j) =>
              /\ SectionPath(items, i) = SectionPath(items, j)
              /\ PageNumber(items, i) = PageNumber(items, j)
    BY <1>1, <2>2, <2>4, PathsTellPlaces
  <2>6. QED  BY <2>3, <2>4, <2>5
<1> HIDE DEF items
<1> DEFINE Same(b) == /\ Place(b) = Place(first)
                      /\ blocks[b].section = blocks[first].section
                      /\ blocks[b].page = blocks[first].page
           T == {b \in first..last : ~Same(b)}
<1>7. T = {}
  <2>1. SUFFICES ASSUME T # {} PROVE FALSE
    OBVIOUS
  <2>2. PICK b \in T : \A c \in T : b <= c
    <3>1. T \in SUBSET Nat
      BY <1>3
    <3> HIDE DEF T
    <3>2. QED  BY <2>1, <3>1, LeastExists
  <2>3. b \in first..last /\ ~Same(b)
    BY <2>2
  <2>4. b # first
    BY <2>3
  <2>5. /\ b - 1 \in first..last /\ ~(b <= b - 1) /\ b - 1 \in 1..(Len(blocks) - 1)
        /\ b \in (first + 1)..last /\ (b - 1) + 1 = b
    BY <1>3, <1>4, <2>3, <2>4
  <2>6. Same(b - 1)
    BY <2>2, <2>5
  <2>7. blocks[b].kind # "heading" /\ blocks[b].section = blocks[b - 1].section
    BY <1>3, <2>5
  <2>8. Place(b - 1) = Place(b) /\ blocks[b - 1].page = blocks[b].page
    BY <1>6, <2>5, <2>7
  <2>9. QED  BY <2>3, <2>6, <2>7, <2>8
<1>8. \A b \in first..last : Same(b)
  BY <1>7
<1>9. OneSection(first, last)
  BY <1>8 DEF OneSection
<1>10. ASSUME last + 1 <= Len(blocks)
       PROVE  blocks[last + 1].kind = "heading" \/ blocks[last + 1].section # blocks[last].section
                <=> Place(last + 1) # Place(first)
  <2>1. last \in 1..(Len(blocks) - 1) /\ last \in first..last
    BY <1>3, <1>4, <1>10
  <2>2. Place(last) = Place(first)
    BY <1>8, <2>1
  <2>3. QED  BY <1>6, <2>1, <2>2
<1>11. QED  BY <1>8, <1>9, <1>10
-----------------------------------------------------------------------------
(* Steps                                                                   *)

\* What is said of groups stays true while the blocks stay.
LEMMA GroupsPrimed ==
  ASSUME blocks' = blocks
  PROVE  /\ WellGrouped(chunks') => WellGrouped(chunks)'
         /\ \A first, last : IsTooLarge(first, last)' = IsTooLarge(first, last)
<1>1. \A first, last : GroupTokens(first, last)' = GroupTokens(first, last)
  BY Zenon DEF GroupTokens
<1>2. \A first, last : IsTooLarge(first, last)' = IsTooLarge(first, last)
  BY <1>1 DEF IsTooLarge, Fits
<1>3. \A c : IsWindow(c)' = IsWindow(c)
  BY <1>1 DEF IsWindow
<1>4. \A first, last : /\ OneGroup(first, last)' = OneGroup(first, last)
                       /\ Explained(first, last)' = Explained(first, last)
  BY DEF OneGroup, Explained
<1>5. QED  BY <1>2, <1>3, <1>4 DEF WellGrouped

\* An emitted group keeps its structure.
LEMMA EmittedGroup ==
  ASSUME TypeOK, StructureInv, outcome = "running",
         pending = 0 \/ Explained(next - pending, next - 1)
  PROVE  Emitted(pending) \in Seq(Drafts) /\ WellGrouped(Emitted(pending))
<1>1. /\ chunks \in Seq(Drafts) /\ WellGrouped(chunks) /\ Len(chunks) \in Nat
      /\ next \in 1..(Len(blocks) + 1) /\ pending \in 0..(next - 1) /\ Len(blocks) \in Nat
  BY DEF TypeOK, StructureInv
<1>2. CASE pending = 0
  BY <1>1, <1>2 DEF Emitted
<1>3. CASE pending # 0
  <2> DEFINE first == next - pending
             last == next - 1
             c == WholeGroup(first, last)
             more == Append(chunks, c)
  <2>1. /\ OneGroup(first, last) /\ Fits(first, last) /\ blocks[first].tokens > 0
        /\ Explained(first, last)
    BY <1>1, <1>3 DEF StructureInv
  <2>2. first \in 1..Len(blocks) /\ last \in first..Len(blocks) /\ first \in first..last
    BY <1>1, <1>3
  <2>3. GroupTokens(first, last) \in 1..TargetTokens
    <3>1. GroupTokens(first, last) \in Nat /\ blocks[first].tokens \in Nat
          /\ blocks[first].tokens <= GroupTokens(first, last)
      BY <2>2, GroupHasItsBlocks
    <3>2. QED  BY <2>1, <3>1, ChunkingAssumption DEF Fits
  <2>4. /\ c \in Drafts /\ c.first = first /\ c.last = last /\ c.tokens = GroupTokens(first, last)
        /\ c.from = 0 /\ c.to = GroupTokens(first, last)
    BY <1>1, <2>2, <2>3 DEF WholeGroup, Draft, Drafts
  <2>5. Emitted(pending) = more
    BY <1>3 DEF Emitted
  <2> HIDE DEF first, last, c
  <2>6. /\ more \in Seq(Drafts) /\ Len(more) = Len(chunks) + 1
        /\ \A k \in 1..Len(chunks) : more[k] = chunks[k]
        /\ more[Len(chunks) + 1] = c
    BY <1>1, <2>4
  <2> HIDE DEF more
  <2>7. WellGrouped(more)
    <3>1. ~IsWindow(c)
      BY <2>3, <2>4 DEF IsWindow
    <3>2. QED  BY <1>1, <2>1, <2>3, <2>4, <2>6, <3>1 DEF WellGrouped
  <2>8. QED  BY <2>5, <2>6, <2>7
<1>4. QED  BY <1>2, <1>3

LEMMA StructureRaises ==
  ASSUME StructureInv, NEW code, Raise(code), code \notin {"invalid_group", "running", "chunked"},
         blocks' = blocks, source' = source
  PROVE  StructureInv'
BY GroupsPrimed DEF StructureInv, Raise

LEMMA StructureOfOpenGroup ==
  ASSUME TypeOK, StructureInv, outcome = "running", window = NoWindow, next <= Len(blocks),
         NEW emitted, emitted \in Seq(Drafts), WellGrouped(emitted),
         OpenGroup(emitted), blocks' = blocks, source' = source
  PROVE  StructureInv'
<1>1. /\ next \in 1..Len(blocks) /\ Len(blocks) \in Nat /\ blocks[next].tokens \in Nat
      /\ next \in next..Len(blocks) /\ next \in next..next
      /\ blocks = Blocks(source.items) /\ blocks # <<>>
  BY DEF TypeOK, StructureInv
<1>2. OneGroup(next, next)
  BY <1>1 DEF OneGroup
<1>3. GroupTokens(next, next) = blocks[next].tokens /\ GroupTokens(next, next) \in Nat
  BY <1>1, GroupHasItsBlocks
<1>4. CASE blocks[next].tokens = 0
  <2>1. Raise("tokenizer_protocol")
    BY <1>4 DEF OpenGroup
  <2>2. QED  BY <2>1, StructureRaises
<1>5. CASE blocks[next].tokens # 0 /\ Fits(next, next)
  <2>1. /\ chunks' = emitted /\ pending' = 1 /\ next' = next + 1 /\ window' = window
        /\ outcome' = outcome
    BY <1>5 DEF OpenGroup, Keep
  <2>2. next' - pending' = next /\ next' - 1 = next
    BY <1>1, <2>1
  <2>3. OneGroup(next' - pending', next' - 1) /\ Fits(next' - pending', next' - 1)
    BY <1>2, <1>5, <2>2
  <2>4. blocks[next' - pending'].tokens > 0
    BY <1>1, <1>5, <2>2
  <2>5. (OneGroup(next - pending, next - 1) /\ Fits(next - pending, next - 1))'
    BY <2>3 DEF OneGroup, Fits, GroupTokens
  <2>6. WellGrouped(chunks)'
    BY <1>1, <2>1, GroupsPrimed
  <2>7. QED  BY <1>1, <2>1, <2>4, <2>5, <2>6 DEF StructureInv
<1>6. CASE blocks[next].tokens # 0 /\ ~Fits(next, next)
  <2>1. /\ chunks' = emitted /\ pending' = 0 /\ outcome' = outcome
        /\ window'.first = next /\ window'.last = next
    BY <1>6 DEF OpenGroup, Split
  <2>2. blocks[next].tokens > TargetTokens
    BY <1>3, <1>6, ChunkingAssumption DEF Fits
  <2>3. Explained(next, next)
    BY <2>2 DEF Explained
  <2>4. WindowGroup'
    BY <1>1, <1>2, <1>6, <2>1, <2>3 DEF WindowGroup, OneGroup, Explained, IsTooLarge, Fits, GroupTokens
  <2>5. WellGrouped(chunks)'
    BY <1>1, <2>1, GroupsPrimed
  <2>6. QED  BY <1>1, <2>1, <2>4, <2>5 DEF StructureInv
<1>7. QED  BY <1>4, <1>5, <1>6

LEMMA TakeBlockKeepsStructure ==
  ASSUME IInv, StructureInv, TakeBlock
  PROVE  StructureInv'
<1>1. /\ TypeOK /\ outcome = "running" /\ window = NoWindow /\ next <= Len(blocks)
      /\ blocks' = blocks /\ source' = source
      /\ next \in 1..(Len(blocks) + 1) /\ pending \in 0..(next - 1) /\ Len(blocks) \in Nat
      /\ blocks = Blocks(source.items) /\ blocks # <<>> /\ WellGrouped(chunks)
      /\ chunks \in Seq(Drafts)
  BY DEF IInv, TypeOK, StructureInv, TakeBlock
<1>2. pending > 0 => /\ OneGroup(next - pending, next - 1) /\ blocks[next - pending].tokens > 0
  BY <1>1 DEF StructureInv
<1>3. CASE OpenGroup(Emitted(pending)) /\ (StartsNewStructure \/ pending = 0)
  <2>1. pending = 0 \/ Explained(next - pending, next - 1)
    <3>1. (next - 1) + 1 = next
      BY <1>1
    <3>2. QED  BY <1>1, <1>3, <3>1 DEF Explained, StartsNewStructure
  <2>2. Emitted(pending) \in Seq(Drafts) /\ WellGrouped(Emitted(pending))
    BY <1>1, <2>1, EmittedGroup
  <2>3. QED  BY <1>1, <1>3, <2>2, StructureOfOpenGroup
<1>4. CASE OpenGroup(Emitted(pending)) /\ pending # 0 /\ ~OnlyHeadingPending
  <2>1. Explained(next - pending, next - 1)
    BY <1>1, <1>4 DEF Explained, OnlyHeadingPending
  <2>2. Emitted(pending) \in Seq(Drafts) /\ WellGrouped(Emitted(pending))
    BY <1>1, <2>1, EmittedGroup
  <2>3. QED  BY <1>1, <1>4, <2>2, StructureOfOpenGroup
<1>5. ASSUME ~StartsNewStructure, pending # 0
      PROVE  OneGroup(next - pending, next)
  <2>1. blocks[next].kind # "heading" /\ blocks[next].section = blocks[next - 1].section
    BY <1>1, <1>5 DEF StartsNewStructure
  <2>2. OneGroup(next - pending, next - 1)
    BY <1>1, <1>2, <1>5
  <2>3. \A b \in (next - pending + 1)..next : b = next \/ b \in (next - pending + 1)..(next - 1)
    BY <1>1
  <2>4. QED  BY <1>1, <1>5, <2>1, <2>2, <2>3 DEF OneGroup
<1>6. CASE ~StartsNewStructure /\ pending # 0 /\ Fits(next - pending, next) /\ Keep(pending + 1, chunks)
  <2>1. /\ chunks' = chunks /\ pending' = pending + 1 /\ next' = next + 1 /\ window' = window
        /\ outcome' = outcome
    BY <1>6 DEF Keep
  <2>2. next' - pending' = next - pending /\ next' - 1 = next
    BY <1>1, <2>1
  <2>3. OneGroup(next' - pending', next' - 1) /\ Fits(next' - pending', next' - 1)
    BY <1>5, <1>6, <2>2
  <2>4. blocks[next' - pending'].tokens > 0
    BY <1>1, <1>2, <1>6, <2>2
  <2>5. (OneGroup(next - pending, next - 1) /\ Fits(next - pending, next - 1))'
    BY <1>1, <2>3 DEF OneGroup, Fits, GroupTokens
  <2>6. WellGrouped(chunks)'
    BY <1>1, <2>1, GroupsPrimed
  <2>7. QED  BY <1>1, <2>1, <2>4, <2>5, <2>6 DEF StructureInv
<1>7. CASE /\ ~StartsNewStructure /\ OnlyHeadingPending /\ ~Fits(next - pending, next)
           /\ Split(next - 1, chunks)
  <2>1. /\ chunks' = chunks /\ pending' = 0 /\ outcome' = outcome
        /\ window'.first = next - 1 /\ window'.last = next
    BY <1>7 DEF Split
  <2>2. OneGroup(next - 1, next)
    BY <1>5, <1>7 DEF OnlyHeadingPending
  <2>3. Explained(next - 1, next)
    BY <1>1 DEF Explained
  <2>4. WindowGroup'
    BY <1>1, <1>7, <2>1, <2>2, <2>3
       DEF OnlyHeadingPending, WindowGroup, OneGroup, Explained, IsTooLarge, Fits, GroupTokens
  <2>5. WellGrouped(chunks)'
    BY <1>1, <2>1, GroupsPrimed
  <2>6. QED  BY <1>1, <2>1, <2>4, <2>5 DEF StructureInv
<1>8. QED  BY <1>3, <1>4, <1>6, <1>7 DEF TakeBlock, OnlyHeadingPending

LEMMA DecodeWindowKeepsStructure ==
  ASSUME IInv, StructureInv, DecodeWindow
  PROVE  StructureInv'
<1>1. /\ TypeOK /\ outcome = "running" /\ window # NoWindow /\ pending = 0
      /\ blocks' = blocks /\ source' = source /\ source \in Sources
      /\ blocks = Blocks(source.items) /\ blocks # <<>> /\ WellGrouped(chunks)
      /\ chunks \in Seq(Drafts) /\ Len(chunks) \in Nat
      /\ OneGroup(window.first, window.last) /\ Explained(window.first, window.last)
      /\ IsTooLarge(window.first, window.last)
      /\ window \in [first : Nat, last : Nat, start : Nat, end : Nat, previous : Nat]
      /\ window.start < window.end
  BY DEF IInv, TypeOK, StructureInv, DecodeWindow, GroupShape, WindowShape, WindowGroup
<1>2. OneSection(window.first, window.last)
  BY <1>1, GroupIsOnePlace
<1>3. PICK tokens \in Recounted(window.end - window.start) :
        IF tokens = 0 THEN Shrink(1)
        ELSE IF tokens <= TargetTokens THEN Accept(tokens)
        ELSE Shrink(tokens - TargetTokens)
  BY <1>2 DEF DecodeWindow
<1>4. ASSUME NEW by, Shrink(by) PROVE StructureInv'
  <2>1. CASE Raise("tokenizer_protocol")
    BY <1>1, <2>1, StructureRaises
  <2>2. CASE /\ window' = [window EXCEPT !.end = @ - by]
             /\ UNCHANGED <<next, pending, chunks, outcome>>
    <3>1. window'.first = window.first /\ window'.last = window.last
      BY <1>1, <2>2
    <3>2. WindowGroup'
      BY <1>1, <3>1 DEF WindowGroup, OneGroup, Explained, IsTooLarge, Fits, GroupTokens
    <3>3. WellGrouped(chunks)'
      BY <1>1, <2>2, GroupsPrimed
    <3>4. QED  BY <1>1, <2>2, <3>2, <3>3 DEF StructureInv
  <2>3. QED  BY <1>4, <2>1, <2>2 DEF Shrink
<1>5. CASE tokens # 0 /\ tokens <= TargetTokens /\ Accept(tokens)
  <2>0. tokens \in 1..TargetTokens
    BY <1>1, <1>5, ChunkingAssumption DEF Recounted
  <2> DEFINE overlap == IF window.previous > window.start THEN window.previous - window.start ELSE 0
             c == Draft(window.first, window.last, window.start, window.end, tokens, overlap)
             more == Append(chunks, c)
  <2>1. /\ chunks' = more /\ pending' = pending /\ outcome' = outcome
    BY <1>1, <1>5 DEF Accept
  <2>2. window' = NoWindow \/ (window'.first = window.first /\ window'.last = window.last)
    <3> DEFINE start == NextStart(window.start, window.end)
               e == WindowEnd(start)
               moved == [window EXCEPT !.start = start, !.end = e, !.previous = window.end]
    <3>1. window' = NoWindow \/ window' = moved
      BY <1>5 DEF Accept
    <3> HIDE DEF start, e
    <3>2. window \in [first : Nat, last : Nat, start : Nat, end : Nat, previous : Nat]
      BY <1>1
    <3>3. moved.first = window.first /\ moved.last = window.last
      BY <3>2
    <3> HIDE DEF moved
    <3>4. QED  BY <3>1, <3>3
  <2>3. c \in Drafts /\ c.first = window.first /\ c.last = window.last /\ c.tokens = tokens
    BY <1>1, <2>0 DEF Draft, Drafts
  <2> HIDE DEF c
  <2>4. /\ Len(more) = Len(chunks) + 1
        /\ \A k \in 1..Len(chunks) : more[k] = chunks[k]
        /\ more[Len(chunks) + 1] = c
    BY <1>1, <2>3
  <2> HIDE DEF more
  <2>5. WellGrouped(more)
    BY <1>1, <2>0, <2>3, <2>4 DEF WellGrouped
  <2>6. WellGrouped(chunks)'
    BY <1>1, <2>1, <2>5, GroupsPrimed
  <2>7. window' # NoWindow =>
          WindowGroup'
    BY <1>1, <2>2 DEF WindowGroup, OneGroup, Explained, IsTooLarge, Fits, GroupTokens
  <2>8. QED  BY <1>1, <2>1, <2>6, <2>7 DEF StructureInv
<1>6. QED  BY <1>3, <1>4, <1>5

LEMMA ChunkingEndsKeepsStructure ==
  ASSUME IInv, StructureInv, ChunkingEnds
  PROVE  StructureInv'
<1>1. /\ TypeOK /\ outcome = "running" /\ source \in Sources
      /\ blocks = Blocks(source.items) /\ blocks # <<>>
      /\ next \in 1..(Len(blocks) + 1) /\ pending \in 0..(next - 1) /\ Len(blocks) \in Nat
      /\ next > Len(blocks) /\ chunks' = Emitted(pending) /\ pending' = 0
      /\ blocks' = blocks /\ source' = source
      /\ chunks \in Seq(Drafts) /\ Chain(chunks) /\ Reaches(chunks, next - 1 - pending)
  BY DEF IInv, TypeOK, StructureInv, ChunkingEnds, GroupShape
<1>2. next - 1 = Len(blocks) /\ Len(blocks) # 0
  BY <1>1
<1>3. Explained(next - pending, next - 1)
  BY <1>2 DEF Explained
<1>4. chunks' \in Seq(Drafts) /\ WellGrouped(chunks')
  BY <1>1, <1>3, EmittedGroup
<1>5. chunks' # <<>>
  <2>1. Reaches(chunks', next - 1)
    BY <1>1, EmittedReaches
  <2>2. QED  BY <1>2, <2>1 DEF Reaches
<1>6. \A c \in ToSet(chunks') : c.tokens \in 1..TargetTokens /\ OneSection(c.first, c.last)
  <2>1. ASSUME NEW k \in 1..Len(chunks')
        PROVE  chunks'[k].tokens \in 1..TargetTokens /\ OneSection(chunks'[k].first, chunks'[k].last)
    <3>1. OneGroup(chunks'[k].first, chunks'[k].last) /\ chunks'[k].tokens \in 1..TargetTokens
      BY <1>4 DEF WellGrouped
    <3>2. QED  BY <1>1, <3>1, GroupIsOnePlace
  <2>2. QED  BY <1>4, <2>1 DEF ToSet
<1>7. outcome' = "chunked"
  BY <1>5, <1>6 DEF ChunkingEnds
<1>8. WellGrouped(chunks)'
  BY <1>1, <1>4, GroupsPrimed
<1>9. QED  BY <1>1, <1>7, <1>8 DEF StructureInv

LEMMA ParseKeepsStructure ==
  ASSUME IInv, StructureInv, Parse
  PROVE  StructureInv'
<1>1. /\ pending = 0 /\ window = NoWindow /\ chunks = <<>>
      /\ UNCHANGED <<source, next, pending, chunks, window>>
  BY DEF IInv, OutcomeShape, Parse
<1>2. \/ outcome' = "running" /\ blocks' = Blocks(source.items) /\ blocks' # <<>>
      \/ outcome' \in {"resource_limit_exceeded", "empty_content"}
  BY DEF Parse, Parsed
<1>3. WellGrouped(chunks)'
  BY <1>1 DEF WellGrouped
<1>4. QED  BY <1>1, <1>2, <1>3 DEF StructureInv

LEMMA StructureHolds ==
  ASSUME IInv, StructureInv, [Next]_vars
  PROVE  StructureInv'
<1>1. CASE Parse
  BY <1>1, ParseKeepsStructure
<1>2. CASE ParseFails
  BY <1>2, GroupsPrimed DEF ParseFails, StructureInv
<1>3. CASE TakeBlock
  BY <1>3, TakeBlockKeepsStructure
<1>4. CASE DecodeWindow
  BY <1>4, DecodeWindowKeepsStructure
<1>5. CASE ChunkingEnds
  BY <1>5, ChunkingEndsKeepsStructure
<1>6. CASE TokenizerFails
  BY <1>6, StructureRaises DEF TokenizerFails
<1>7. CASE UNCHANGED vars
  <2>1. WellGrouped(chunks)'
    BY <1>7, GroupsPrimed DEF vars, StructureInv
  <2>2. QED
    BY <1>7, <2>1 DEF vars, StructureInv, WindowGroup, OneGroup, Explained, IsTooLarge, Fits, GroupTokens
<1>8. QED  BY <1>1, <1>2, <1>3, <1>4, <1>5, <1>6, <1>7 DEF Next, Ended

\* A group never spans two places, a heading is alone and a group is cut for a
\* reason, at every step of the chunking; its own groups are never refused.
THEOREM StructureIsConsistent == Spec => []StructureInv
<1>1. Init => StructureInv
  BY DEF Init, StructureInv, WellGrouped
<1>2. IInv /\ StructureInv /\ [Next]_vars => StructureInv'
  BY StructureHolds
<1>3. QED  BY <1>1, <1>2, ChunkingIsConsistent, PTL DEF Spec

\* No chunk spans two headings, tables or pages, also of one title, and the section
\* path and page of its first block are those of all its blocks; a heading is a chunk
\* of its own, and a group is cut, only when it must be.  Records of a CSV file may
\* share a chunk, but one that fits is not cut (_chunk_blocks, _chunk_draft).
THEOREM ChunksKeepTheStructure == Spec => []StructureIsKept
<1>1. IInv /\ StructureInv => StructureIsKept
  <2> SUFFICES ASSUME IInv, StructureInv PROVE StructureIsKept
    OBVIOUS
  <2>1. outcome # "invalid_group" /\ WellGrouped(chunks) /\ source \in Sources /\ chunks \in Seq(Drafts)
    BY DEF IInv, TypeOK, StructureInv
  <2>2. ASSUME outcome = "chunked", NEW c \in ToSet(chunks)
        PROVE  /\ \A b \in c.first..c.last : Place(b) = Place(c.first)
               /\ OneSection(c.first, c.last)
               /\ c.first = c.last /\ blocks[c.first].kind = "heading" =>
                    \/ blocks[c.first].tokens > TargetTokens
                    \/ c.last = Len(blocks) \/ Place(c.last + 1) # Place(c.first)
               /\ IsWindow(c) => IsTooLarge(c.first, c.last)
    <3>1. blocks = Blocks(source.items)
      BY <2>2 DEF StructureInv
    <3>2. /\ OneGroup(c.first, c.last) /\ Explained(c.first, c.last)
          /\ IsWindow(c) => IsTooLarge(c.first, c.last)
      BY <2>1, <2>2 DEF WellGrouped, ToSet
    <3>3. /\ \A b \in c.first..c.last : Place(b) = Place(c.first)
          /\ OneSection(c.first, c.last)
          /\ c.last + 1 <= Len(blocks) =>
               (blocks[c.last + 1].kind = "heading" \/ blocks[c.last + 1].section # blocks[c.last].section
                  <=> Place(c.last + 1) # Place(c.first))
      BY <2>1, <3>1, <3>2, GroupIsOnePlace
    <3>4. QED  BY <3>2, <3>3 DEF Explained
  <2>3. QED  BY <2>1, <2>2 DEF StructureIsKept
<1>2. QED  BY <1>1, ChunkingIsConsistent, StructureIsConsistent, PTL
=============================================================================
