---------------------------- MODULE MCLineReader ----------------------------
(***************************************************************************)
(* A small instance of LineReader: lines shorter and longer than a buffer  *)
(* of three bytes, written in one write or in several.                     *)
(***************************************************************************)
EXTENDS LineReader
=============================================================================
