------------------------ MODULE MCDocumentChunking ------------------------
(* Small documents of every format for TLC.                                 *)
EXTENDS DocumentChunking, TLC

\* Texts within, at and over the budget of 4; one that encodes to nothing.
Sizes == {0, 1, 4, 7}
Texts == {Text(n) : n \in Sizes}
Headings == {Heading(1, "A", 1), Heading(1, "B", 5), Heading(2, "A", 1)}
Tables == {Table(<<1, 2>>), Table(<<6>>), Table(<<>>)}

UpTo(S, n) == UNION {[1..m -> S] : m \in 0..n}
Documents(format, items) == {[format |-> format, items |-> d] : d \in items}

MCSources ==
  Documents("docx", UpTo(Texts \cup Headings \cup Tables, 3))
    \cup Documents("markdown", {<<h>> \o d : h \in Headings, d \in [1..3 -> Texts \cup Headings]})
    \cup Documents("pdf", UpTo({Page(<<1, 1>>), Page(<<2, 5>>), Page(<<>>)}, 3))
    \cup Documents("csv", UpTo({Record(1), Record(6)}, 3))
    \cup Documents("txt", UpTo({Text(1), Text(2), Text(7)}, 3))
============================================================================
