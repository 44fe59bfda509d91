----------------------------- MODULE MCReviews ------------------------------
(* The slots for requests are interchangeable.                             *)
EXTENDS Reviews, TLC

Symmetry == Permutations(Requests)

=============================================================================
