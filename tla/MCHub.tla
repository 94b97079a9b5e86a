------------------------------- MODULE MCHub --------------------------------
(***************************************************************************)
(* Small instances of Hub: a window and a channel smaller than the tables, *)
(* one connection.                                                         *)
(***************************************************************************)
EXTENDS Hub

CONSTANTS c1
=============================================================================
