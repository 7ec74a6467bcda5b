--------------------------- MODULE DocumentParsing ---------------------------
(***************************************************************************)
(* What the parsers of infrastructure/documents make of a file: a sequence *)
(* of blocks with the section each belongs to.                             *)
(*                                                                         *)
(* A source is its format and the items the format's library finds in it,  *)
(* in order: headings, texts (paragraphs, list items, code blocks),        *)
(* tables and CSV records as sequences of rows, pages as sequences of      *)
(* paragraphs.  A text is the number of tokens it encodes to, which stands *)
(* for its characters too.  Texts without a printable character are        *)
(* skipped by every parser and do not occur.                               *)
(***************************************************************************)
EXTENDS Naturals, FiniteSets, Sequences, SequencesExt

CONSTANTS MaxExtracted,   \* tokens a source may hold
          MaxPages,       \* pages of a PDF
          MaxRows         \* records of a CSV file

ASSUME ParsingAssumption == {MaxExtracted, MaxPages, MaxRows} \subseteq Nat

Heading(level, title, tokens) == [kind |-> "heading", level |-> level, title |-> title, texts |-> <<tokens>>]
Text(tokens) == [kind |-> "text", level |-> 0, title |-> "", texts |-> <<tokens>>]
Table(rows) == [kind |-> "table", level |-> 0, title |-> "", texts |-> rows]
Page(paragraphs) == [kind |-> "page", level |-> 0, title |-> "", texts |-> paragraphs]
Record(tokens) == [kind |-> "record", level |-> 0, title |-> "", texts |-> <<tokens>>]

-----------------------------------------------------------------------------
(* Sections                                                                *)

\* A heading is open until one of its level or above it follows.
OpenHeadings(items, i) ==
  {j \in 1..i : /\ items[j].kind = "heading"
                /\ \A k \in (j + 1)..i :
                     items[k].kind = "heading" => items[k].level > items[j].level}

\* The titles of the headings that are open after the i-th item, outermost first.
HeadingPath(items, i) ==
  LET open == OpenHeadings(items, i)
      Outermost(n) == CHOOSE j \in open : Cardinality({k \in open : k <= j}) = n
  IN [n \in 1..Cardinality(open) |-> items[Outermost(n)].title]

TableNumber(items, i) == Cardinality({j \in 1..i : items[j].kind = "table"})

\* Only the title of a heading is in the path, so sections of one title look alike.
SectionPath(items, i) ==
  CASE items[i].kind = "table" -> Append(HeadingPath(items, i), <<"table", TableNumber(items, i)>>)
    [] items[i].kind = "page" -> <<(<<"page", i>>)>>
    [] items[i].kind = "record" -> <<"records">>
    [] items[i].kind \in {"heading", "text"} -> HeadingPath(items, i)

PageNumber(items, i) == IF items[i].kind = "page" THEN i ELSE 0

-----------------------------------------------------------------------------
(* Blocks                                                                  *)

BlocksOfItem(items, i) ==
  [n \in DOMAIN items[i].texts |->
     [kind |-> items[i].kind, tokens |-> items[i].texts[n], section |-> SectionPath(items, i),
      page |-> PageNumber(items, i), item |-> i]]

Blocks(items) == FlattenSeq([i \in DOMAIN items |-> BlocksOfItem(items, i)])

\* Each token is a block and a position in it.
Tokens(blocks) == Cardinality(UNION {{b} \X (1..blocks[b].tokens) : b \in DOMAIN blocks})

ExceedsLimits(source) ==
  \/ Tokens(Blocks(source.items)) > MaxExtracted
  \/ source.format = "pdf" /\ Len(source.items) > MaxPages
  \/ source.format = "csv" /\ Len(source.items) > MaxRows

\* A parser refuses or returns every block: there is no part of a document.
Parsed(source) ==
  IF ExceedsLimits(source) THEN [code |-> "resource_limit_exceeded", blocks |-> <<>>]
  ELSE IF Blocks(source.items) = <<>> THEN [code |-> "empty_content", blocks |-> <<>>]
  ELSE [code |-> "parsed", blocks |-> Blocks(source.items)]
=============================================================================
