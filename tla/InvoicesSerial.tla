--------------------------- MODULE InvoicesSerial ---------------------------
(***************************************************************************)
(* Module Invoices with requests that do not overlap, shown to implement   *)
(* the atomic InvoiceLifecycle.  A committed row is the abstract row.      *)
(***************************************************************************)
EXTENDS Invoices

Lifecycle == INSTANCE InvoiceLifecycle WITH row <- invoice

(* Requests that run one after the other are atomic: the many steps of     *)
(* InvoicePay, UpdateInvoiceStatus and CancelOrder add up to one step of   *)
(* the lifecycle each, or to nothing when they fail.                       *)
SerialRequestsAreAtomic == Lifecycle!Spec

(* What makes it so: the copy a request is about to write is still the     *)
(* visible row with the rules applied, for nobody wrote in between.        *)
CopyIsFresh ==
    \A r \in Requests :
       at[r] \in Copying =>
          \/ \E target \in Statuses, reason \in BOOLEAN :
                copy[r] = ApplyRules(invoice[on[r]], target, reason)
          \/ copy[r] = CancelledRow(invoice[on[r]])

=============================================================================
