---------------------------- MODULE MCPlaceOrder ----------------------------
(* The order assistant and the addresses of the customers for TLC.  They    *)
(* share no state, so each runs while the other has nothing to do.          *)
EXTENDS PlaceOrder, Addresses

\* Of the requests to the assistant, one that has not begun.
AssistantRests == main = "start" /\ aiUp /\ Products = {p \in Products : lookup[p] = "found"}

MCInit == Init /\ AddressInit

MCNext ==
    \/ Next /\ AddressInit /\ UNCHANGED addressVars
    \/ AddressNext /\ AssistantRests /\ UNCHANGED vars

MCSpec == MCInit /\ [][MCNext]_<<vars, addressVars>> /\ OrderFairness

=============================================================================
