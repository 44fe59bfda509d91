---------------------------- MODULE MCCatalogue -----------------------------
(* The catalogue and the cached pages for TLC.  They share no state (a page *)
(* counts the writes of a table, whoever makes them), so each runs while    *)
(* the other has nothing to do.                                             *)
EXTENDS Catalogue, PageCaches, TLC

\* Slots and sets of images are each alike.
Symmetry == Permutations(Requests) \cup Permutations(Sets)

\* Of the pages, one that nobody has asked for.
PagesRest == PageInit /\ page = "products"

MCInit == Init /\ PageInit

MCNext ==
    \/ Next /\ PagesRest /\ UNCHANGED pageVars
    \/ PageNext /\ Init /\ UNCHANGED vars

MCSpec == MCInit /\ [][MCNext]_<<vars, pageVars>>

=============================================================================
