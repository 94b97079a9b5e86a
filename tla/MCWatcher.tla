----------------------------- MODULE MCWatcher ------------------------------
(***************************************************************************)
(* Small instances of Watcher: files that are replaced twice and cut once. *)
(***************************************************************************)
EXTENDS Watcher
=============================================================================
