-------------------------- MODULE InvoiceLifecycle --------------------------
(***************************************************************************)
(* What the invoice handlers promise for requests that do not overlap:     *)
(* every handler is one atomic step on one row, an open order only moves   *)
(* forward by one status, and the only ways out of that order are delivery *)
(* (which pays) and cancellation (which leaves the payment alone).         *)
(* Module Invoices implements it when one request runs at a time           *)
(* (InvoicesSerial); with overlapping requests it does not.                *)
(***************************************************************************)
EXTENDS Naturals

CONSTANT Ids

VARIABLE row

NoOrder == [status |-> 0, paid |-> FALSE, reason |-> FALSE]

Init == row = [id \in Ids |-> NoOrder]

Becomes(id, status, paid, reason) ==
    row' = [row EXCEPT ![id] = [status |-> status, paid |-> paid, reason |-> reason]]

(* A checkout commits: the order is placed, with whatever status, payment  *)
(* and reason its client sends.                                            *)
Place(id) ==
    /\ row[id] = NoOrder
    /\ \E status \in 1..6, paid \in BOOLEAN, reason \in BOOLEAN :
           Becomes(id, status, paid, reason)

(* An admin names a status other than the order's own, Delivered and       *)
(* Cancelled: one step forward from wherever the order is, even to 6.      *)
Advance(id) ==
    /\ row[id].status \in 1..5
    /\ Becomes(id, row[id].status + 1, row[id].paid, row[id].reason)

Deliver(id) ==
    /\ row[id] # NoOrder
    /\ Becomes(id, 5, TRUE, row[id].reason)

Cancel(id) ==
    /\ row[id] # NoOrder
    /\ \E reason \in BOOLEAN : Becomes(id, 6, row[id].paid, reason)

Next == \E id \in Ids : Place(id) \/ Advance(id) \/ Deliver(id) \/ Cancel(id)

Spec == Init /\ [][Next]_row

=============================================================================
