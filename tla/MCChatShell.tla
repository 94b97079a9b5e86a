---------------------------- MODULE MCChatShell -----------------------------
(***************************************************************************)
(* A small instance of ChatShell: a chat that exists and one that may come *)
(* to be.                                                                  *)
(***************************************************************************)
EXTENDS ChatShell

CONSTANTS c1, c2
=============================================================================
