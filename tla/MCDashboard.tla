---------------------------- MODULE MCDashboard -----------------------------
(***************************************************************************)
(* A small instance of Dashboard: a filter that the API knows and one that *)
(* it does not.                                                            *)
(***************************************************************************)
EXTENDS Dashboard

CONSTANTS severity, level
=============================================================================
