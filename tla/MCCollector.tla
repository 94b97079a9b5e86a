---------------------------- MODULE MCCollector -----------------------------
(***************************************************************************)
(* Small instances of Collector: two paths, so that a batch can mix the    *)
(* lines of a live and of a deleted source; a channel and a batch that     *)
(* fill up; enough source ids to delete and recreate a source; one restart.*)
(***************************************************************************)
EXTENDS Collector

CONSTANTS p1, p2
PathPair == {p1, p2}
=============================================================================
