------------------------------ MODULE MCEditor ------------------------------
(* Editor for TLC: three slots, the empty line, one with an unmatched quote,  *)
(* which is an ordinary one while nothing is displayed, and one that does not *)
(* fit.                                                                       *)
EXTENDS Editor

CONSTANTS quote, huge

McKept == [h \in {huge} |-> Empty]
McPreset == <<Empty>>

\* No file, a file with an unmatched quote, one with a line that does not fit,
\* and one with a line too many.
Files == {NoFile, <<quote>>, <<huge, Empty>>, [i \in 1 .. (MAX_LINE_NUMBER + 1) |-> Empty]}

Spec == InitFrom(Files) /\ [][Next]_vars
=============================================================================
