-------------------------- MODULE DocumentChunking --------------------------
(***************************************************************************)
(* A document on its way to its chunks: a parser, then                     *)
(* StructureAwareDocumentChunker (application/document_chunking.py).       *)
(*                                                                         *)
(* Consecutive blocks of one section are grouped up to the token budget; a *)
(* group over the budget is cut into windows of its tokens.  A window is   *)
(* decoded to a text and encoded again, and how many tokens that gives is  *)
(* up to the tokenizer (external): a window that starts or ends inside a   *)
(* word, or with tokens that decode to nothing, does not come back as it   *)
(* was.  So the count of each decoded window is a choice, 0 for a blank    *)
(* text.  Joining texts adds no tokens.                                    *)
(***************************************************************************)
EXTENDS DocumentParsing

CONSTANTS Sources,        \* the documents
          TargetTokens,   \* the budget of a chunk
          OverlapTokens,  \* tokens a window shares with the one before
          MaxGrowth       \* tokens by which a window may exceed the budget when encoded again

ASSUME ChunkingAssumption ==
  /\ TargetTokens \in Nat \ {0} /\ OverlapTokens \in 0..(TargetTokens - 1)
  /\ MaxGrowth \in Nat

\* A parser finds pages, or records, or the structure of a text; a heading is one text.
ASSUME SourcesAssumption ==
  \A s \in Sources :
    /\ s.items \in Seq(ToSet(s.items))
    /\ \A item \in ToSet(s.items) :
         item.texts \in Seq(Nat) /\ (item.kind = "heading" => Len(item.texts) = 1)
    /\ \E kinds \in {{"page"}, {"record"}, {"heading", "text", "table"}} :
         \A item \in ToSet(s.items) : item.kind \in kinds

VARIABLES
  source,    \* the document
  blocks,    \* what its parser made of it
  next,      \* the block to look at next
  pending,   \* the blocks of the open group: the number of blocks before next
  chunks,    \* chunk drafts: blocks first..last, tokens from + 1 .. to of the group
  window,    \* the group being cut and where, or NoWindow
  outcome    \* "parsing", "running", "chunked" or an error code

vars == <<source, blocks, next, pending, chunks, window, outcome>>

NoWindow == [first |-> 0, last |-> 0, start |-> 0, end |-> 0, previous |-> 0]

Init ==
  /\ source \in Sources
  /\ blocks = <<>>
  /\ next = 1
  /\ pending = 0
  /\ chunks = <<>>
  /\ window = NoWindow
  /\ outcome = "parsing"

-----------------------------------------------------------------------------
(* Parsing                                                                 *)

Parse ==
  /\ outcome = "parsing"
  /\ blocks' = Parsed(source).blocks
  /\ outcome' = IF Parsed(source).code = "parsed" THEN "running" ELSE Parsed(source).code
  /\ UNCHANGED <<source, next, pending, chunks, window>>

\* The identifier refuses the file (signature, encoding, size, name), or the
\* library cannot read it, whatever it holds: one code stands for all.
ParseFails ==
  /\ outcome = "parsing"
  /\ outcome' = "malformed_document"
  /\ UNCHANGED <<source, blocks, next, pending, chunks, window>>

-----------------------------------------------------------------------------
(* Groups                                                                  *)

GroupTokens(first, last) == Tokens(SubSeq(blocks, first, last))
Fits(first, last) == GroupTokens(first, last) <= TargetTokens

Draft(first, last, from, to, tokens, overlap) ==
  [first |-> first, last |-> last, from |-> from, to |-> to, tokens |-> tokens, overlap |-> overlap]

\* A group within the budget is one chunk.
WholeGroup(first, last) ==
  Draft(first, last, 0, GroupTokens(first, last), GroupTokens(first, last), 0)

\* _chunk_draft refuses a group over several sections or pages.
OneSection(first, last) ==
  \A b \in first..last : blocks[b].section = blocks[first].section /\ blocks[b].page = blocks[first].page

Raise(code) == outcome' = code /\ UNCHANGED <<next, pending, chunks, window>>

\* The open group of n blocks is emitted; it is within the budget, or it would not be open.
Emitted(n) == IF n = 0 THEN chunks ELSE Append(chunks, WholeGroup(next - n, next - 1))

\* Blocks first to next become a chunk of their own, cut into windows.
Split(first, emitted) ==
  /\ chunks' = emitted
  /\ pending' = 0
  /\ next' = next + 1
  /\ window' = [first |-> first, last |-> next, start |-> 0, previous |-> 0,
                end |-> TargetTokens]
  /\ UNCHANGED outcome

Keep(n, emitted) ==
  /\ chunks' = emitted
  /\ pending' = n
  /\ next' = next + 1
  /\ UNCHANGED <<window, outcome>>

\* The next block opens a group, or is too large for one.
OpenGroup(emitted) ==
  IF blocks[next].tokens = 0 THEN Raise("tokenizer_protocol")
  ELSE IF Fits(next, next) THEN Keep(1, emitted) ELSE Split(next, emitted)

\* Mutant: a heading does not end the group before it.
StartsNewSection == pending > 0 /\ blocks[next].section # blocks[next - 1].section

StartsNewStructure ==
  \/ blocks[next].kind = "heading"
  \/ pending > 0 /\ blocks[next].section # blocks[next - 1].section

OnlyHeadingPending == pending = 1 /\ blocks[next - 1].kind = "heading"

\* A block joins the open group if it fits, a heading waits for its first block
\* at any size, and any other group is emitted before the block opens the next.
TakeBlock ==
  /\ outcome = "running" /\ window = NoWindow /\ next <= Len(blocks)
  /\ IF StartsNewStructure \/ pending = 0 THEN OpenGroup(Emitted(pending))
     ELSE IF Fits(next - pending, next) THEN Keep(pending + 1, chunks)
     ELSE IF OnlyHeadingPending THEN Split(next - 1, chunks)
     ELSE OpenGroup(Emitted(pending))
  /\ UNCHANGED <<source, blocks>>

-----------------------------------------------------------------------------
(* Windows                                                                 *)

CurrentTokens == GroupTokens(window.first, window.last)
WindowEnd(start) == IF start + TargetTokens < CurrentTokens THEN start + TargetTokens ELSE CurrentTokens

\* Mutant: the overlap is taken from where the window was to end.
NextStartUncut(from, to) ==
  IF from + TargetTokens - OverlapTokens > from + 1 THEN from + TargetTokens - OverlapTokens ELSE from + 1

\* The next window starts inside this one, and always further on.
NextStart(from, to) == IF to - OverlapTokens > from + 1 THEN to - OverlapTokens ELSE from + 1

Accept(tokens) ==
  LET to == window.end
      overlap == IF window.previous > window.start THEN window.previous - window.start ELSE 0
      start == NextStart(window.start, to)
  IN /\ chunks' = Append(chunks, Draft(window.first, window.last, window.start, to, tokens, overlap))
     /\ window' = IF to >= CurrentTokens THEN NoWindow
                  ELSE [window EXCEPT !.start = start, !.end = WindowEnd(start), !.previous = to]
     /\ UNCHANGED <<next, pending, outcome>>

\* A blank text shrinks the window by one token, one over the budget by the excess;
\* nothing left of it is an error of the tokenizer.
Shrink(by) ==
  IF window.end <= window.start + by THEN Raise("tokenizer_protocol")
  ELSE /\ window' = [window EXCEPT !.end = @ - by]
       /\ UNCHANGED <<next, pending, chunks, outcome>>

\* What n tokens may come back as: nothing, as many as they were, which stands for
\* every number within the budget, or more than the budget.
Recounted(n) == {0, n} \cup ((TargetTokens + 1)..(TargetTokens + MaxGrowth))

DecodeWindow ==
  /\ outcome = "running" /\ window # NoWindow
  /\ IF ~OneSection(window.first, window.last) THEN Raise("invalid_group")
     ELSE \E tokens \in Recounted(window.end - window.start) :
            IF tokens = 0 THEN Shrink(1)
            ELSE IF tokens <= TargetTokens THEN Accept(tokens)
            ELSE Shrink(tokens - TargetTokens)
  /\ UNCHANGED <<source, blocks>>

-----------------------------------------------------------------------------

\* The last group is emitted and the result validated.
ChunkingEnds ==
  /\ outcome = "running" /\ window = NoWindow /\ next > Len(blocks)
  /\ chunks' = Emitted(pending)
  /\ pending' = 0
  /\ outcome' = IF chunks' # <<>> /\ \A c \in ToSet(chunks') :
                     c.tokens \in 1..TargetTokens /\ OneSection(c.first, c.last)
                THEN "chunked" ELSE "invalid_group"
  /\ UNCHANGED <<source, blocks, next, window>>

\* The tokenizer cannot be loaded, or fails.
TokenizerFails ==
  /\ outcome = "running"
  /\ Raise("tokenizer_unavailable")
  /\ UNCHANGED <<source, blocks>>

Ended == outcome \notin {"parsing", "running"} /\ UNCHANGED vars

Next ==
  \/ Parse \/ ParseFails \/ TakeBlock \/ DecodeWindow \/ ChunkingEnds \/ TokenizerFails
  \/ Ended

Spec == Init /\ [][Next]_vars

-----------------------------------------------------------------------------
(* Properties                                                              *)

\* The windows of one group, or the last window of one and the first of the next.
Follows(c, d) ==
  IF d.first = c.first
  THEN /\ d.last = c.last /\ c.from < d.from /\ d.from <= c.to
       /\ d.overlap = c.to - d.from /\ d.overlap <= OverlapTokens
  ELSE /\ c.to = GroupTokens(c.first, c.last)
       /\ d.first = c.last + 1 /\ d.from = 0 /\ d.overlap = 0

\* No token of the document is in no chunk, whatever the tokenizer makes of a
\* window and however often it shrinks: groups follow each other, the windows of
\* a group advance without a gap and share what they say they share, no more than
\* the policy's overlap, and every chunk keeps the budget.
TokensAreCovered ==
  outcome = "chunked" =>
    /\ chunks[1].first = 1 /\ chunks[1].from = 0 /\ chunks[1].overlap = 0
    /\ Last(chunks).last = Len(blocks)
    /\ Last(chunks).to = GroupTokens(Last(chunks).first, Last(chunks).last)
    /\ \A n \in 1..(Len(chunks) - 1) : Follows(chunks[n], chunks[n + 1])
    /\ \A c \in ToSet(chunks) : c.from < c.to /\ c.tokens \in 1..TargetTokens

\* Where a block stands in its document, told without section paths: under which
\* heading, in which table or on which page.
Place(b) ==
  LET i == blocks[b].item
      headings == {j \in 1..i : source.items[j].kind = "heading"}
  IN <<IF headings = {} THEN 0 ELSE Max(headings),
       IF blocks[b].kind \in {"table", "page"} THEN i ELSE 0>>

\* A chunk that has not all tokens of its group.
IsWindow(c) == c.from > 0 \/ c.to < GroupTokens(c.first, c.last)

\* A block over the budget, or a heading that is over it together with its first block.
IsTooLarge(first, last) ==
  /\ ~Fits(first, last)
  /\ \/ first = last
     \/ blocks[first].kind = "heading" /\ last = first + 1

\* No chunk spans two headings, tables or pages, also when two sections have the
\* same title, and the section path and page it carries, its first block's, are
\* those of all its blocks.  A heading is a chunk without text only when it is over
\* the budget or no text of its section follows.  Records of a CSV file are one
\* place and share chunks, but what fits is not cut: windows are cut only from a
\* block over the budget, or from a heading with its first block.  No document
\* makes the chunker refuse its own groups.
StructureIsKept ==
  /\ outcome # "invalid_group"
  /\ outcome = "chunked" =>
       \A c \in ToSet(chunks) :
         /\ \A b \in c.first..c.last : Place(b) = Place(c.first)
         /\ OneSection(c.first, c.last)
         /\ c.first = c.last /\ blocks[c.first].kind = "heading" =>
              \/ blocks[c.first].tokens > TargetTokens
              \/ c.last = Len(blocks) \/ Place(c.last + 1) # Place(c.first)
         /\ IsWindow(c) => IsTooLarge(c.first, c.last)
=============================================================================
