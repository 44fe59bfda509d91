----------------------------- MODULE MCSessions -----------------------------
(* The slots for requests are interchangeable.                             *)
EXTENDS Sessions, TLC

Symmetry == Permutations(Requests)

=============================================================================
