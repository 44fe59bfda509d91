------------------------------ MODULE Invoices ------------------------------
(***************************************************************************)
(* The life of an invoice in the GoodFood back end: the checkout           *)
(* transaction (handlers/invoices.go), the admin's status updates          *)
(* (utils/admin_invoices_helper.go) and the customer's cancellation        *)
(* (handlers/orderhistory.go).                                             *)
(*                                                                         *)
(* Every request runs in a goroutine of its own.  An update or a           *)
(* cancellation reads the whole row, changes the copy, and writes the      *)
(* whole row back without a transaction or a lock; the checkout alone is   *)
(* one database transaction.  So a request is here a little process: the   *)
(* copy it read stays in copy[r] while other requests write.               *)
(***************************************************************************)
EXTENDS Naturals, FiniteSets

CONSTANTS
    Requests,     \* slots for requests that may be in flight together
    Products,     \* products a checkout may list
    MaxInvoices   \* bound: values the invoice sequence may hand out

ASSUME MaxInvoicesAssumption == MaxInvoices \in Nat

VARIABLES
    invoice,   \* table invoice: the committed row of each id, or NoRow
    lines,     \* table invoice_detail: committed products of each invoice
    nextId,    \* the sequence behind the serial invoiceID; never goes back
    at,        \* what each request in flight does next
    on,        \* the invoice it works on
    copy,      \* its copy of the row
    inserted,  \* lines its transaction has inserted so far
    ordered,   \* history: the products the checkout of an id listed
    prepaid,   \* history: ids committed with the paid flag already set
    given      \* history: ids committed with a cancel reason

tables  == <<invoice, lines, nextId>>
request == <<at, on, copy, inserted>>
history == <<ordered, prepaid, given>>
vars    == <<tables, request, history>>

Ids == 1..MaxInvoices

-----------------------------------------------------------------------------
(* Rows.  The status ids are the rows of table invoice_status; status 7 is *)
(* what "+= 1" makes of a cancelled invoice in memory, and the foreign key *)
(* on invoiceStatusID refuses it.  Status 0 stands for "no such row".      *)

Placed    == 1
Delivered == 5
Cancelled == 6

Statuses == Placed..Cancelled

Row   == [status : 0..7, paid : BOOLEAN, reason : BOOLEAN]
NoRow == [status |-> 0, paid |-> FALSE, reason |-> FALSE]

Exists(id) == invoice[id] # NoRow

Stages == {"idle", "paying", "mail", "adminCancel", "advance", "customerCancel"}

(* The stages of a request that holds a copy of a committed row.           *)
Copying == {"mail", "adminCancel", "advance", "customerCancel"}

RequestsOK ==
    /\ at \in [Requests -> Stages]
    /\ on \in [Requests -> 0..MaxInvoices]
    /\ copy \in [Requests -> Row]
    /\ inserted \in [Requests -> SUBSET Products]
    /\ \A r \in Requests :
          /\ at[r] # "idle" => on[r] \in Ids
          /\ at[r] # "advance" => copy[r].status <= Cancelled

TypeOK ==
    /\ RequestsOK
    /\ invoice \in [Ids -> Row]
    /\ \A id \in Ids : invoice[id].status <= Cancelled
    /\ lines \in [Ids -> SUBSET Products]
    /\ nextId \in 1..(MaxInvoices + 1)
    /\ ordered \in [Ids -> SUBSET Products]
    /\ prepaid \in SUBSET Ids
    /\ given \in SUBSET Ids

Init ==
    /\ invoice = [id \in Ids |-> NoRow]
    /\ lines = [id \in Ids |-> {}]
    /\ nextId = 1
    /\ at = [r \in Requests |-> "idle"]
    /\ on = [r \in Requests |-> 0]
    /\ copy = [r \in Requests |-> NoRow]
    /\ inserted = [r \in Requests |-> {}]
    /\ ordered = [id \in Ids |-> {}]
    /\ prepaid = {}
    /\ given = {}

Enter(r, stage, id, row) ==
    /\ at' = [at EXCEPT ![r] = stage]
    /\ on' = [on EXCEPT ![r] = id]
    /\ copy' = [copy EXCEPT ![r] = row]
    /\ inserted' = [inserted EXCEPT ![r] = {}]

Finish(r) == Enter(r, "idle", 0, NoRow)

-----------------------------------------------------------------------------
(* Checkout: InvoicePay.                                                   *)

(* The row is inserted as the client sent it: any status of the table,     *)
(* paid or not, with a cancel reason or without.  An invoiceID of its own  *)
(* the identity column refuses (Fail).                                     *)
ClientRows == [status : Statuses, paid : BOOLEAN, reason : BOOLEAN]

(* Slip: the insert runs outside the transaction and shows at once.        *)
PayBeginUnprotected(r, row, wanted) ==
    /\ at[r] = "idle"
    /\ nextId \in Ids
    /\ nextId' = nextId + 1
    /\ Enter(r, "paying", nextId, row)
    /\ ordered' = [ordered EXCEPT ![nextId] = wanted]
    /\ invoice' = [invoice EXCEPT ![nextId] = row]
    /\ UNCHANGED <<lines, prepaid, given>>

(* The body is parsed, a transaction opened and the client's row inserted  *)
(* in it: the id leaves the sequence at once, the row stays invisible.     *)
PayBegin(r, row, wanted) ==
    /\ at[r] = "idle"
    /\ nextId \in Ids
    /\ nextId' = nextId + 1
    /\ Enter(r, "paying", nextId, row)
    /\ ordered' = [ordered EXCEPT ![nextId] = wanted]
    /\ UNCHANGED <<invoice, lines, prepaid, given>>

(* One turn of the loop over payload.InvoiceDetails.                       *)
PayDetail(r, p) ==
    /\ at[r] = "paying"
    /\ p \in ordered[on[r]] \ inserted[r]
    /\ inserted' = [inserted EXCEPT ![r] = @ \cup {p}]
    /\ UNCHANGED <<tables, at, on, copy, history>>

PayCommit(r) ==
    LET id == on[r] IN
    /\ at[r] = "paying"
    /\ inserted[r] = ordered[id]
    /\ invoice' = [invoice EXCEPT ![id] = copy[r]]
    /\ lines' = [lines EXCEPT ![id] = inserted[r]]
    /\ prepaid' = IF copy[r].paid THEN prepaid \cup {id} ELSE prepaid
    /\ given' = IF copy[r].reason THEN given \cup {id} ELSE given
    /\ Finish(r)
    /\ UNCHANGED <<nextId, ordered>>

-----------------------------------------------------------------------------
(* The admin's update: UpdateInvoice and UpdateInvoiceStatus.              *)

(* Slips: the paid flag follows the target; the status is the target's.    *)
ApplyRulesPaidFromTarget(row, target, reason) ==
    [status |-> target,
     paid   |-> target = Delivered,
     reason |-> IF target = Cancelled THEN reason ELSE row.reason]

ApplyRulesJump(row, target, reason) ==
    [status |-> target,
     paid   |-> row.paid \/ target = Delivered,
     reason |-> IF target = Cancelled THEN reason ELSE row.reason]

(* The business rules applied to the copy, for the status target the       *)
(* request names and the reason (null or not) it carries: one step forward *)
(* whatever the target, except that Delivered and Cancelled are set as     *)
(* they are.                                                               *)
ApplyRules(row, target, reason) ==
    [status |-> IF target \in {Delivered, Cancelled, row.status}
                THEN target
                ELSE row.status + 1,
     paid   |-> row.paid \/ target = Delivered,
     reason |-> IF target = Cancelled THEN reason ELSE row.reason]

(* Find the status record, find the invoice, apply the rules to the copy.  *)
UpdateRead(r, id, target, reason) ==
    /\ at[r] = "idle"
    /\ Exists(id)
    /\ Enter(r, IF target = Cancelled THEN "mail" ELSE "advance",
             id, ApplyRules(invoice[id], target, reason))
    /\ UNCHANGED <<tables, history>>

(* SendOrderCancelEmail succeeds, and nothing undoes the mail; when it     *)
(* fails the request ends (Fail).  An order that "+= 1" cancels is not     *)
(* mailed.                                                                 *)
UpdateMail(r) ==
    /\ at[r] = "mail"
    /\ at' = [at EXCEPT ![r] = "adminCancel"]
    /\ UNCHANGED <<tables, on, copy, inserted, history>>

(* Slip: only the columns the request set are written.                     *)
WriteColumns(r) ==
    invoice' = [invoice EXCEPT ![on[r]] =
                  [status |-> copy[r].status,
                   paid   |-> copy[r].paid \/ @.paid,
                   reason |-> copy[r].reason \/ @.reason]]

(* The UPDATE of every column of the row.                                  *)
WriteRow(r) == invoice' = [invoice EXCEPT ![on[r]] = copy[r]]

(* Slip: no foreign key on invoiceStatusID.                                *)
UpdateWriteUnchecked(r) ==
    /\ at[r] \in {"advance", "adminCancel"}
    /\ WriteRow(r)
    /\ Finish(r)
    /\ UNCHANGED <<lines, nextId, history>>

(* invoice.Update: the foreign key refuses a status that does not exist.   *)
UpdateWrite(r) ==
    /\ at[r] \in {"advance", "adminCancel"}
    /\ IF copy[r].status \in Statuses THEN WriteRow(r) ELSE UNCHANGED invoice
    /\ Finish(r)
    /\ UNCHANGED <<lines, nextId, history>>

-----------------------------------------------------------------------------
(* The customer's cancellation: CancelOrder.  Its ClearCache touches Redis *)
(* only.                                                                   *)

CancelledRow(row) == [status |-> Cancelled, paid |-> row.paid, reason |-> TRUE]

CancelRead(r, id) ==
    /\ at[r] = "idle"
    /\ Exists(id)
    /\ Enter(r, "customerCancel", id, CancelledRow(invoice[id]))
    /\ UNCHANGED <<tables, history>>

CancelWrite(r) ==
    /\ at[r] = "customerCancel"
    /\ WriteRow(r)
    /\ Finish(r)
    /\ UNCHANGED <<lines, nextId, history>>

-----------------------------------------------------------------------------
(* An early return: a body that does not parse, an unknown status name, an *)
(* invoice that does not exist.                                            *)
Refuse(r) ==
    /\ at[r] = "idle"
    /\ UNCHANGED vars

(* A request ends early at any point: a query fails, the mail server       *)
(* refuses, the deferred Rollback runs, or the process dies.  What it      *)
(* already did outside the transaction stays done.                         *)
Fail(r) ==
    /\ at[r] # "idle"
    /\ Finish(r)
    /\ UNCHANGED <<tables, history>>

Pay(r) ==
    \/ \E row \in ClientRows, wanted \in SUBSET Products : PayBegin(r, row, wanted)
    \/ \E p \in Products : PayDetail(r, p)
    \/ PayCommit(r)

Update(r) ==
    \/ \E id \in Ids, target \in Statuses, reason \in BOOLEAN :
           UpdateRead(r, id, target, reason)
    \/ UpdateMail(r)
    \/ UpdateWrite(r)

Cancel(r) ==
    \/ \E id \in Ids : CancelRead(r, id)
    \/ CancelWrite(r)

Next == \E r \in Requests : Pay(r) \/ Update(r) \/ Cancel(r) \/ Refuse(r) \/ Fail(r)

Spec == Init /\ [][Next]_vars

-----------------------------------------------------------------------------
(* Safety.                                                                 *)

(* What every version of a row satisfies, committed or in a request's      *)
(* copy: money taken at checkout stays recorded; an order not paid then is *)
(* recorded as paid only once delivered or cancelled; a cancellation       *)
(* reason the checkout did not bring belongs to a closed order.            *)
KeepsPrepayment(id, row) == id \in prepaid => row.paid
PaidWhenDone(id, row)    == row.paid /\ id \notin prepaid => row.status >= Delivered
ReasonWhenDone(id, row)  == row.reason /\ id \notin given => row.status >= Delivered

(* The paid flag set at checkout (payload.Invoice.Status) survives every   *)
(* interleaving of whole-row writes by UpdateInvoiceStatus and CancelOrder.*)
PrepaymentKept == \A id \in Ids : Exists(id) => KeepsPrepayment(id, invoice[id])

(* An order that was not paid at checkout is marked paid only when it is   *)
(* Delivered, or was before it became Cancelled.  It needs the two columns *)
(* to be written together: an update with a stale copy sets both back.     *)
PaidOnlyOnDelivery == \A id \in Ids : Exists(id) => PaidWhenDone(id, invoice[id])

(* No request leaves a cancellation reason on an order that is still going *)
(* through Placed ... Shipping, whichever requests overlap; a client may   *)
(* place an order that has one (invoices.go:35).                           *)
ReasonOnlyWhenClosed == \A id \in Ids : Exists(id) => ReasonWhenDone(id, invoice[id])

(* InvoicePay is all or nothing: a committed invoice has exactly the lines *)
(* of its payload, and no line exists without its invoice.                 *)
AllLinesOrNothing ==
    \A id \in Ids : lines[id] = IF Exists(id) THEN ordered[id] ELSE {}

(* The inductive strengthenings the proofs rest on (InvoicesProofs).       *)

(* Ids of open checkouts are taken, distinct and not yet visible; a copy   *)
(* is a copy of a visible row; so AllLinesOrNothing is preserved.          *)
CheckoutInv ==
    /\ \A id \in Ids : Exists(id) => id < nextId /\ invoice[id].status >= Placed
    /\ \A r \in Requests :
          at[r] = "paying" =>
             on[r] < nextId /\ ~Exists(on[r]) /\ copy[r] \in ClientRows
    /\ \A r, s \in Requests :
          at[r] = "paying" /\ at[s] = "paying" /\ on[r] = on[s] => r = s
    /\ \A r \in Requests :
          at[r] \in Copying => Exists(on[r]) /\ copy[r].status >= Placed
    /\ AllLinesOrNothing

(* What a stale copy may restore satisfies what the row had to satisfy.    *)
RowInv ==
    /\ \A id \in prepaid \cup given : Exists(id)
    /\ PrepaymentKept
    /\ PaidOnlyOnDelivery
    /\ ReasonOnlyWhenClosed
    /\ \A r \in Requests :
          at[r] \in Copying =>
             /\ KeepsPrepayment(on[r], copy[r])
             /\ PaidWhenDone(on[r], copy[r])
             /\ ReasonWhenDone(on[r], copy[r])

=============================================================================
