---------------------------- MODULE MCLogParser -----------------------------
(***************************************************************************)
(* Small instances of LogParser: two sources, so that one can be deleted   *)
(* while a row of the other is in a transaction; a window of one row, with *)
(* more rows than fit in it, or of two.                                    *)
(***************************************************************************)
EXTENDS LogParser

CONSTANTS s1, s2
SourcePair == {s1, s2}
OneSource == {s1}
=============================================================================
