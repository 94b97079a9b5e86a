----------------------------- MODULE MCBackend ------------------------------
(***************************************************************************)
(* A small instance of Backend, and the pure operators of LLM over small   *)
(* inputs.                                                                 *)
(***************************************************************************)
EXTENDS Backend

CONSTANTS u1, u2, c1, p1, p2, short, long

TwoUsers == {u1, u2}
OneRegistered == [u \in Users |-> IF u = u1 THEN p1 ELSE NoPassword]
TextChars == [t \in Texts |-> IF t = short THEN 4 ELSE 80]
BaseV1 == <<"v1">>
=============================================================================
