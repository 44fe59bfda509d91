----------------------------- MODULE MCInvoices -----------------------------
(* Invoices for TLC: requests that overlap, on few invoices, or requests     *)
(* that run one after the other, on all of them.                             *)
EXTENDS Invoices, TLC

CONSTANT MaxOverlapping   \* invoices that requests may overlap on

VARIABLE serial           \* requests run one after the other

\* The slots for requests are interchangeable, and so are the products.
Symmetry == Permutations(Requests) \cup Permutations(Products)

\* What an invoice lists matters to those that overlap: one product will do.
InTurn ==
    /\ \A r, s \in Requests : at'[r] # "idle" /\ at'[s] # "idle" => r = s
    /\ \A id \in Ids : Cardinality(ordered'[id]) <= 1

MCInit == Init /\ serial \in BOOLEAN

MCNext ==
    /\ Next
    /\ IF serial THEN InTurn ELSE nextId' <= MaxOverlapping + 1
    /\ UNCHANGED serial

MCSpec == MCInit /\ [][MCNext]_<<vars, serial>>

(* Requests that run one after the other are atomic: the many steps of     *)
(* InvoicePay, UpdateInvoiceStatus and CancelOrder add up to one step of   *)
(* the lifecycle each, or to nothing when they fail.  Requests that        *)
(* overlap are not: of them no row is shown.                               *)
Shown == IF serial THEN invoice ELSE [id \in Ids |-> NoRow]

Serially == INSTANCE InvoiceLifecycle WITH row <- Shown

RequestsInTurnAreAtomic == Serially!Spec

=============================================================================
