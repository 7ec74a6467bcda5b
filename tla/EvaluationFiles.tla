-------------------------- MODULE EvaluationFiles --------------------------
(* What an evaluation program finds where a file of its own should be, other *)
(* than the content it wrote.                                                *)
CONSTANT None     \* a value the code does not have (None)

Absent == [file |-> "absent"]   \* no file
Torn   == [file |-> "torn"]     \* a file that was truncated and not yet filled

\* A program that reads the file finds content: it exists and it parses.
Readable(file) == file \notin {Absent, Torn}
=============================================================================
