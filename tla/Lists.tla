-------------------------------- MODULE Lists --------------------------------
(***************************************************************************)
(* What is left of a list when a loop keeps some of its elements.          *)
(***************************************************************************)
EXTENDS Naturals, Sequences, FiniteSets

(* The i-th of a set of positions.                                         *)
Nth(kept, i) == CHOOSE k \in kept : Cardinality({j \in kept : j <= k}) = i

(* The elements at these positions, in their order.                        *)
Only(list, kept) == [i \in 1 .. Cardinality(kept) |-> list[Nth(kept, i)]]
=============================================================================
