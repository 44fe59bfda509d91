--------------------------- MODULE InvoicesProofs ---------------------------
(***************************************************************************)
(* Proofs about module Invoices, for any set of requests, any products and *)
(* any number of invoices.                                                 *)
(***************************************************************************)
EXTENDS InvoicesSerial, TLAPS

-----------------------------------------------------------------------------
(* Type correctness.                                                       *)

(* The rules make a row of a row; only "+= 1" can leave the status table.  *)
LEMMA ApplyRulesType ==
  ASSUME NEW row \in Row, row.status <= Cancelled,
         NEW target \in Statuses, NEW reason \in BOOLEAN
  PROVE  /\ ApplyRules(row, target, reason) \in Row
         /\ target = Cancelled => ApplyRules(row, target, reason).status <= Cancelled
BY DEF ApplyRules, Row, Statuses, Placed, Delivered, Cancelled

LEMMA NoRowType == NoRow \in Row /\ NoRow.status <= Cancelled
BY DEF NoRow, Row, Cancelled

(* A request that takes up an existing invoice keeps the types.            *)
LEMMA EnterType ==
  ASSUME RequestsOK,
         NEW r \in Requests, NEW stage \in Stages, NEW id \in Ids, NEW row \in Row,
         stage # "advance" => row.status <= Cancelled,
         Enter(r, stage, id, row)
  PROVE  RequestsOK'
BY MaxInvoicesAssumption DEF RequestsOK, Enter, Ids

(* What the types say of one request.                                      *)
LEMMA RequestType ==
  ASSUME RequestsOK, NEW r \in Requests
  PROVE  /\ at[r] \in Stages
         /\ copy[r] \in Row
         /\ inserted[r] \in SUBSET Products
         /\ at[r] # "idle" => on[r] \in Ids
         /\ at[r] # "advance" => copy[r].status <= Cancelled
BY DEF RequestsOK

LEMMA FinishType ==
  ASSUME RequestsOK, NEW r \in Requests, Finish(r)
  PROVE  RequestsOK'
BY MaxInvoicesAssumption, NoRowType DEF RequestsOK, Finish, Enter, Ids, Stages

(* What a client may send is a row, and no empty one.                      *)
LEMMA ClientRowFacts ==
  ASSUME NEW row \in ClientRows
  PROVE  /\ row \in Row /\ row # NoRow
         /\ row.status >= Placed /\ row.status <= Cancelled
         /\ row.paid \in BOOLEAN /\ row.reason \in BOOLEAN
BY DEF ClientRows, Row, NoRow, Statuses, Placed, Cancelled

(* Every variable keeps its type; in particular no committed row has a     *)
(* status outside invoice_status, although copies in memory may (7).       *)
THEOREM TypeCorrect == Spec => []TypeOK
<1>1. Init => TypeOK
  <2> SUFFICES ASSUME Init PROVE TypeOK
    OBVIOUS
  <2>1. RequestsOK
    BY MaxInvoicesAssumption, NoRowType DEF Init, RequestsOK, Stages
  <2>q. QED BY <2>1, MaxInvoicesAssumption, NoRowType DEF Init, TypeOK, Ids
<1>2. TypeOK /\ [Next]_vars => TypeOK'
  <2> SUFFICES ASSUME TypeOK, [Next]_vars PROVE TypeOK'
    OBVIOUS
  <2> USE DEF TypeOK, tables, request, history
  <2>1. ASSUME NEW r \in Requests, NEW row \in ClientRows,
               NEW wanted \in SUBSET Products, PayBegin(r, row, wanted)
        PROVE  TypeOK'
    <3>1. row \in Row /\ row.status <= Cancelled
      BY ClientRowFacts
    <3>2. RequestsOK'
      BY <2>1, <3>1, EnterType DEF PayBegin, Stages
    <3>q. QED BY <2>1, <3>2, MaxInvoicesAssumption DEF PayBegin, Ids
  <2>2. ASSUME NEW r \in Requests, NEW p \in Products, PayDetail(r, p)
        PROVE  TypeOK'
    BY <2>2 DEF PayDetail, RequestsOK
  <2>3. ASSUME NEW r \in Requests, PayCommit(r) PROVE TypeOK'
    <3>1. /\ on[r] \in Ids /\ copy[r] \in Row /\ copy[r].status <= Cancelled
          /\ inserted[r] \in SUBSET Products
      <4>1. at[r] = "paying"
        BY <2>3 DEF PayCommit
      <4>q. QED BY <4>1, RequestType
    <3>2. RequestsOK'
      BY <2>3, FinishType DEF PayCommit
    <3>q. QED BY <2>3, <3>1, <3>2 DEF PayCommit
  <2>4. ASSUME NEW r \in Requests, NEW id \in Ids, NEW target \in Statuses,
               NEW reason \in BOOLEAN, UpdateRead(r, id, target, reason)
        PROVE  TypeOK'
    <3> DEFINE row == ApplyRules(invoice[id], target, reason)
    <3>1. invoice[id] \in Row /\ invoice[id].status <= Cancelled
      OBVIOUS
    <3>2. row \in Row /\ (target = Cancelled => row.status <= Cancelled)
      BY <3>1, ApplyRulesType
    <3> HIDE DEF row
    <3>3. RequestsOK'
      BY <2>4, <3>2, EnterType DEF UpdateRead, Stages, row
    <3>q. QED BY <2>4, <3>3 DEF UpdateRead
  <2>5. ASSUME NEW r \in Requests, UpdateMail(r) PROVE TypeOK'
    <3>1. on[r] \in Ids
      <4>1. at[r] = "mail"
        BY <2>5 DEF UpdateMail
      <4>q. QED BY <4>1, RequestType
    <3>2. RequestsOK'
      BY <2>5 DEF UpdateMail, RequestsOK, Stages
    <3>q. QED BY <2>5, <3>1, <3>2 DEF UpdateMail
  <2>6. ASSUME NEW r \in Requests, UpdateWrite(r) PROVE TypeOK'
    <3>1. on[r] \in Ids /\ copy[r] \in Row
      <4>1. at[r] # "idle"
        BY <2>6 DEF UpdateWrite
      <4>q. QED BY <4>1, RequestType
    <3>2. RequestsOK'
      BY <2>6, FinishType DEF UpdateWrite
    <3>3. copy[r].status \in Statuses => copy[r].status <= Cancelled
      BY DEF Statuses, Placed, Cancelled
    <3>q. QED BY <2>6, <3>1, <3>2, <3>3 DEF UpdateWrite, WriteRow
  <2>7. ASSUME NEW r \in Requests, NEW id \in Ids, CancelRead(r, id)
        PROVE  TypeOK'
    <3>1. CancelledRow(invoice[id]) \in Row /\ CancelledRow(invoice[id]).status <= Cancelled
      BY DEF CancelledRow, Row, Cancelled
    <3>2. RequestsOK'
      BY <2>7, <3>1, EnterType DEF CancelRead, Stages
    <3>q. QED BY <2>7, <3>2 DEF CancelRead
  <2>8. ASSUME NEW r \in Requests, CancelWrite(r) PROVE TypeOK'
    <3>1. on[r] \in Ids /\ copy[r] \in Row /\ copy[r].status <= Cancelled
      <4>1. at[r] = "customerCancel"
        BY <2>8 DEF CancelWrite
      <4>q. QED BY <4>1, RequestType
    <3>2. RequestsOK'
      BY <2>8, FinishType DEF CancelWrite
    <3>q. QED BY <2>8, <3>1, <3>2 DEF CancelWrite, WriteRow
  <2>9. ASSUME NEW r \in Requests, Fail(r) PROVE TypeOK'
    <3>1. RequestsOK'
      BY <2>9, FinishType DEF Fail
    <3>q. QED BY <2>9, <3>1 DEF Fail
  <2>10. CASE UNCHANGED vars
    BY <2>10 DEF vars, RequestsOK
  <2> HIDE DEF TypeOK
  <2>q. QED
    BY <2>1, <2>2, <2>3, <2>4, <2>5, <2>6, <2>7, <2>8, <2>9, <2>10
    DEF Next, Pay, Update, Cancel, Refuse
<1>q. QED BY <1>1, <1>2, PTL DEF Spec

-----------------------------------------------------------------------------
(* Checkout.                                                               *)

(* A row with a status of the table is a row.                              *)
LEMMA RealRow ==
  ASSUME NEW row \in Row, row.status >= Placed
  PROVE  row # NoRow
BY DEF Row, NoRow, Placed

LEMMA CheckoutInvInit == Init => CheckoutInv
BY MaxInvoicesAssumption DEF Init, CheckoutInv, AllLinesOrNothing, Exists, Ids, Copying

(* Replacing a visible row by another real row leaves the checkouts alone. *)
LEMMA CheckoutInvWrite ==
  ASSUME TypeOK, CheckoutInv,
         NEW r \in Requests, at[r] \in Copying,
         invoice' = invoice \/ invoice' = [invoice EXCEPT ![on[r]] = copy[r]],
         Finish(r), UNCHANGED <<lines, nextId, history>>
  PROVE  CheckoutInv'
<1>1. at[r] # "idle" /\ at[r] # "paying"
  BY DEF Copying
<1>2. RequestsOK
  BY DEF TypeOK
<1>3. /\ on[r] \in Ids /\ copy[r] \in Row
      /\ Exists(on[r]) /\ copy[r].status >= Placed
  BY <1>1, <1>2, RequestType DEF CheckoutInv
<1>4. copy[r] # NoRow
  BY <1>3, RealRow
<1>5. \A id \in Ids : Exists(id)' <=> Exists(id)
  BY <1>3, <1>4 DEF Exists, TypeOK
<1>6. \A s \in Requests :
         s # r => at'[s] = at[s] /\ on'[s] = on[s] /\ copy'[s] = copy[s]
  BY <1>2 DEF Finish, Enter, RequestsOK
<1>7. at'[r] = "idle" /\ "idle" \notin Copying /\ "idle" # "paying"
  BY <1>2 DEF Finish, Enter, RequestsOK, Copying
<1>8. \A id \in Ids : Exists(id)' => id < nextId' /\ invoice'[id].status >= Placed
  BY <1>3, <1>5 DEF CheckoutInv, TypeOK
<1>9. \A s \in Requests : at[s] # "idle" => on[s] \in Ids
  BY <1>2 DEF RequestsOK
<1>10. AllLinesOrNothing'
  BY <1>5 DEF CheckoutInv, AllLinesOrNothing, history
<1>q. QED
  BY <1>5, <1>6, <1>7, <1>8, <1>9, <1>10 DEF CheckoutInv, Copying

(* A request that takes up a visible row, or ends, leaves the tables be.   *)
LEMMA CheckoutInvEnter ==
  ASSUME TypeOK, CheckoutInv, NEW r \in Requests,
         NEW stage \in Copying \cup {"idle"}, NEW id, NEW row,
         stage \in Copying => /\ id \in Ids
                              /\ Exists(id)
                              /\ row.status >= Placed,
         Enter(r, stage, id, row), UNCHANGED <<tables, history>>
  PROVE  CheckoutInv'
<1>1. RequestsOK
  BY DEF TypeOK
<1>2. \A s \in Requests :
         s # r => at'[s] = at[s] /\ on'[s] = on[s] /\ copy'[s] = copy[s]
  BY <1>1 DEF Enter, RequestsOK
<1>3. at'[r] = stage /\ on'[r] = id /\ copy'[r] = row
  BY <1>1 DEF Enter, RequestsOK
<1>4. stage # "paying" /\ "idle" \notin Copying
  BY DEF Copying
<1>5. \A i \in Ids : Exists(i)' <=> Exists(i)
  BY DEF Exists, tables
<1>6. \A s \in Requests : at[s] # "idle" => on[s] \in Ids
  BY <1>1 DEF RequestsOK
<1>7. AllLinesOrNothing'
  BY <1>5 DEF CheckoutInv, AllLinesOrNothing, history, tables
<1>q. QED
  BY <1>2, <1>3, <1>4, <1>5, <1>6, <1>7 DEF CheckoutInv, Copying, tables

LEMMA CheckoutInvBegin ==
  ASSUME TypeOK, CheckoutInv, NEW r \in Requests, NEW row \in ClientRows,
         NEW wanted \in SUBSET Products, PayBegin(r, row, wanted)
  PROVE  CheckoutInv'
<1>1. RequestsOK /\ nextId \in Ids /\ nextId \in Nat /\ nextId' = nextId + 1
  BY MaxInvoicesAssumption DEF TypeOK, PayBegin, Ids
<1>2. \A s \in Requests :
         s # r => at'[s] = at[s] /\ on'[s] = on[s] /\ copy'[s] = copy[s]
  BY <1>1 DEF PayBegin, Enter, RequestsOK
<1>3. at'[r] = "paying" /\ on'[r] = nextId /\ copy'[r] = row
  BY <1>1 DEF PayBegin, Enter, RequestsOK
<1>4. "paying" \notin Copying
  BY DEF Copying
<1>5. \A i \in Ids : Exists(i)' <=> Exists(i)
  BY DEF Exists, PayBegin
<1>6. ~Exists(nextId) /\ \A i \in Ids : i \in Nat
  BY <1>1, MaxInvoicesAssumption DEF CheckoutInv, Ids
<1>7. \A s \in Requests : at[s] # "idle" => on[s] \in Ids
  BY <1>1 DEF RequestsOK
<1>8. AllLinesOrNothing'
  <2>1. \A i \in Ids : i # nextId => ordered'[i] = ordered[i]
    BY DEF PayBegin, TypeOK
  <2>q. QED
    BY <1>1, <1>5, <1>6, <2>1 DEF CheckoutInv, AllLinesOrNothing, PayBegin, Exists
<1>9. \A i \in Ids : Exists(i)' => i < nextId' /\ invoice'[i].status >= Placed
  <2>1. ASSUME NEW i \in Ids, Exists(i)'
        PROVE  i < nextId' /\ invoice'[i].status >= Placed
    <3>1. invoice' = invoice /\ Exists(i) /\ i \in Nat
      BY <1>5, <1>6, <2>1 DEF PayBegin
    <3>2. i < nextId /\ invoice[i].status >= Placed
      BY <3>1, Zenon DEF CheckoutInv
    <3>q. QED BY <1>1, <3>1, <3>2
  <2>q. QED BY <2>1
<1>10. \A s \in Requests :
          at'[s] = "paying" =>
             /\ on'[s] < nextId'
             /\ ~Exists(on[s])' /\ copy'[s] \in ClientRows
  <2> SUFFICES ASSUME NEW s \in Requests, at'[s] = "paying"
               PROVE  /\ on'[s] < nextId'
                      /\ invoice'[on'[s]] = NoRow
                      /\ copy'[s] \in ClientRows
    BY DEF Exists
  <2>1. invoice' = invoice
    BY DEF PayBegin
  <2>2. CASE s = r
    <3>1. on'[s] = nextId /\ copy'[s] = row
      BY <1>3, <2>2
    <3>2. invoice'[on'[s]] = NoRow
      BY <1>6, <2>1, <3>1 DEF Exists
    <3>3. copy'[s] \in ClientRows
      BY <3>1
    <3>4. on'[s] < nextId'
      BY <1>1, <3>1
    <3>q. QED BY <3>2, <3>3, <3>4
  <2>3. CASE s # r
    <3>1. at[s] = "paying" /\ on'[s] = on[s] /\ copy'[s] = copy[s]
      BY <1>2, <2>3
    <3>2. /\ on[s] < nextId /\ ~Exists(on[s])
          /\ copy[s] \in ClientRows
      BY <3>1, Zenon DEF CheckoutInv
    <3>4. on[s] \in Ids /\ on[s] \in Nat
      BY <1>6, <1>7, <3>1
    <3>3. on'[s] < nextId'
      BY <1>1, <3>1, <3>2, <3>4
    <3>q. QED BY <2>1, <3>1, <3>2, <3>3 DEF Exists
  <2>q. QED BY <2>2, <2>3
<1>11. \A s, t \in Requests :
          at'[s] = "paying" /\ at'[t] = "paying" /\ on'[s] = on'[t] => s = t
  <2>1. \A s \in Requests : s # r /\ at'[s] = "paying" => on'[s] # nextId
    BY <1>1, <1>2, <1>6, <1>7 DEF CheckoutInv
  <2>q. QED BY <1>2, <1>3, <2>1 DEF CheckoutInv
<1>12. \A s \in Requests :
          at'[s] \in Copying => Exists(on[s])' /\ copy'[s].status >= Placed
  BY <1>2, <1>3, <1>4, <1>5, <1>7 DEF CheckoutInv, Copying
<1>q. QED
  BY <1>8, <1>9, <1>10, <1>11, <1>12 DEF CheckoutInv

LEMMA CheckoutInvDetail ==
  ASSUME TypeOK, CheckoutInv, NEW r \in Requests, NEW p \in Products,
         PayDetail(r, p)
  PROVE  CheckoutInv'
BY DEF CheckoutInv, PayDetail, AllLinesOrNothing, Exists, tables, history

LEMMA CheckoutInvCommit ==
  ASSUME TypeOK, CheckoutInv, NEW r \in Requests, PayCommit(r)
  PROVE  CheckoutInv'
<1>1. RequestsOK /\ at[r] = "paying"
  BY DEF TypeOK, PayCommit
<1>2. on[r] \in Ids /\ copy[r] \in Row /\ inserted[r] = ordered[on[r]]
  BY <1>1, RequestType DEF PayCommit
<1>3. /\ on[r] < nextId /\ ~Exists(on[r])
      /\ copy[r] # NoRow /\ copy[r].status >= Placed
  <2>1. on[r] < nextId /\ ~Exists(on[r]) /\ copy[r] \in ClientRows
    BY <1>1, Zenon DEF CheckoutInv
  <2>q. QED BY <2>1, ClientRowFacts
<1>4. \A s \in Requests :
         s # r => at'[s] = at[s] /\ on'[s] = on[s] /\ copy'[s] = copy[s]
  BY <1>1 DEF PayCommit, Finish, Enter, RequestsOK
<1>5. at'[r] = "idle" /\ "idle" \notin Copying
  BY <1>1 DEF PayCommit, Finish, Enter, RequestsOK, Copying
<1>6. /\ \A i \in Ids : i # on[r] => invoice'[i] = invoice[i] /\ lines'[i] = lines[i]
      /\ invoice'[on[r]] = copy[r] /\ lines'[on[r]] = ordered[on[r]]
      /\ ordered' = ordered /\ nextId' = nextId
  BY <1>2 DEF PayCommit, TypeOK
<1>7. \A s \in Requests : at[s] # "idle" => on[s] \in Ids
  BY <1>1 DEF RequestsOK
<1>8. AllLinesOrNothing'
  BY <1>2, <1>3, <1>6 DEF CheckoutInv, AllLinesOrNothing, Exists
<1>9. \A i \in Ids : Exists(i)' => i < nextId' /\ invoice'[i].status >= Placed
  BY <1>2, <1>3, <1>6 DEF CheckoutInv, Exists, Placed
<1>10. \A s \in Requests :
          at'[s] = "paying" =>
             /\ on'[s] < nextId'
             /\ ~Exists(on[s])' /\ copy'[s] \in ClientRows
  BY <1>1, <1>4, <1>5, <1>6, <1>7 DEF CheckoutInv, Exists
<1>11. \A s, t \in Requests :
          at'[s] = "paying" /\ at'[t] = "paying" /\ on'[s] = on'[t] => s = t
  BY <1>4, <1>5 DEF CheckoutInv
<1>12. \A s \in Requests :
          at'[s] \in Copying => Exists(on[s])' /\ copy'[s].status >= Placed
  BY <1>3, <1>4, <1>5, <1>6, <1>7 DEF CheckoutInv, Copying, Exists
<1>q. QED
  BY <1>8, <1>9, <1>10, <1>11, <1>12 DEF CheckoutInv

LEMMA CheckoutInvNext ==
  ASSUME TypeOK, CheckoutInv, [Next]_vars
  PROVE  CheckoutInv'
<1>0. RequestsOK
  BY DEF TypeOK
<1>1. ASSUME NEW r \in Requests, Pay(r) PROVE CheckoutInv'
  BY <1>1, CheckoutInvBegin, CheckoutInvDetail, CheckoutInvCommit DEF Pay
<1>2. ASSUME NEW r \in Requests, Update(r) PROVE CheckoutInv'
  <2>1. ASSUME NEW id \in Ids, NEW target \in Statuses, NEW reason \in BOOLEAN,
               UpdateRead(r, id, target, reason)
        PROVE  CheckoutInv'
    <3> DEFINE row   == ApplyRules(invoice[id], target, reason)
               stage == IF target = Cancelled THEN "mail" ELSE "advance"
    <3>1. Exists(id) /\ invoice[id] \in Row /\ invoice[id].status >= Placed
      BY <2>1 DEF UpdateRead, CheckoutInv, TypeOK
    <3>2. row.status >= Placed
      BY <3>1 DEF ApplyRules, Row, Statuses, Placed, Cancelled, Delivered
    <3>3. stage \in Copying
      BY DEF Copying
    <3>4. Enter(r, stage, id, row) /\ UNCHANGED <<tables, history>>
      BY <2>1 DEF UpdateRead
    <3> HIDE DEF row, stage
    <3>q. QED BY <3>1, <3>2, <3>3, <3>4, CheckoutInvEnter
  <2>2. CASE UpdateMail(r)
    <3>1. /\ at[r] = "mail" /\ at' = [at EXCEPT ![r] = "adminCancel"]
          /\ UNCHANGED <<tables, on, copy, history>>
      BY <2>2 DEF UpdateMail
    <3>2. \A s \in Requests : /\ at'[s] = "paying" <=> at[s] = "paying"
                              /\ at'[s] \in Copying <=> at[s] \in Copying
      BY <1>0, <3>1 DEF RequestsOK, Copying
    <3>q. QED
      BY <3>1, <3>2 DEF CheckoutInv, AllLinesOrNothing, Exists, tables, history
  <2>3. CASE UpdateWrite(r)
    BY <2>3, CheckoutInvWrite DEF UpdateWrite, WriteRow, Copying
  <2>q. QED BY <1>2, <2>1, <2>2, <2>3 DEF Update
<1>3. ASSUME NEW r \in Requests, Cancel(r) PROVE CheckoutInv'
  <2>1. ASSUME NEW id \in Ids, CancelRead(r, id) PROVE CheckoutInv'
    <3> DEFINE row == CancelledRow(invoice[id])
    <3>1. row.status >= Placed
      BY DEF CancelledRow, Placed, Cancelled
    <3>2. "customerCancel" \in Copying
      BY DEF Copying
    <3>3. /\ Exists(id) /\ Enter(r, "customerCancel", id, row)
          /\ UNCHANGED <<tables, history>>
      BY <2>1 DEF CancelRead
    <3> HIDE DEF row
    <3>q. QED BY <3>1, <3>2, <3>3, CheckoutInvEnter
  <2>2. CASE CancelWrite(r)
    BY <2>2, CheckoutInvWrite DEF CancelWrite, WriteRow, Copying
  <2>q. QED BY <1>3, <2>1, <2>2 DEF Cancel
<1>4. ASSUME NEW r \in Requests, Fail(r) PROVE CheckoutInv'
  <2>1. Enter(r, "idle", 0, NoRow) /\ UNCHANGED <<tables, history>>
    BY <1>4 DEF Fail, Finish
  <2>2. "idle" \notin Copying
    BY DEF Copying
  <2>q. QED BY <2>1, <2>2, CheckoutInvEnter
<1>5. CASE UNCHANGED vars
  BY <1>5 DEF CheckoutInv, AllLinesOrNothing, Exists, vars, tables, request, history
<1>q. QED BY <1>1, <1>2, <1>3, <1>4, <1>5 DEF Next, Refuse

(* InvoicePay is atomic towards every other request: at every moment a     *)
(* visible invoice has all the lines of its payload and an invisible one   *)
(* has none.                                                               *)
THEOREM CheckoutAtomic == Spec => []AllLinesOrNothing
<1>1. Init => CheckoutInv
  BY CheckoutInvInit
<1>2. TypeOK /\ CheckoutInv /\ [Next]_vars => CheckoutInv'
  BY CheckoutInvNext
<1>3. CheckoutInv => AllLinesOrNothing
  BY DEF CheckoutInv
<1>q. QED BY <1>1, <1>2, <1>3, TypeCorrect, PTL DEF Spec

-----------------------------------------------------------------------------
(* Rows and their stale copies.                                            *)

Sound(id, row) ==
    KeepsPrepayment(id, row) /\ PaidWhenDone(id, row) /\ ReasonWhenDone(id, row)

LEMMA RowInvMeaning ==
  RowInv <=> /\ \A id \in prepaid \cup given : Exists(id)
             /\ \A id \in Ids : Exists(id) => Sound(id, invoice[id])
             /\ \A r \in Requests : at[r] \in Copying => Sound(on[r], copy[r])
BY DEF RowInv, Sound, PrepaymentKept, PaidOnlyOnDelivery, ReasonOnlyWhenClosed

(* The business rules keep a sound row sound: the paid flag is only ever   *)
(* set, together with status 5, and a status never falls out of 5..7.      *)
LEMMA ApplyRulesSound ==
  ASSUME NEW id, NEW row \in Row, Sound(id, row),
         NEW target \in Statuses, NEW reason \in BOOLEAN
  PROVE  Sound(id, ApplyRules(row, target, reason))
BY DEF Sound, KeepsPrepayment, PaidWhenDone, ReasonWhenDone, ApplyRules,
       Row, Statuses, Placed, Delivered, Cancelled

LEMMA CancelledRowSound ==
  ASSUME NEW id, NEW row \in Row, Sound(id, row)
  PROVE  Sound(id, CancelledRow(row))
BY DEF Sound, KeepsPrepayment, PaidWhenDone, ReasonWhenDone, CancelledRow,
       Row, Delivered, Cancelled

(* A step that moves request r to another stage and leaves the rows alone. *)
LEMMA RowInvEnter ==
  ASSUME TypeOK, RowInv, NEW r \in Requests, NEW stage \in Stages, NEW id, NEW row,
         stage \in Copying => Sound(id, row),
         Enter(r, stage, id, row), UNCHANGED <<invoice, prepaid, given>>
  PROVE  RowInv'
<1>1. RequestsOK
  BY DEF TypeOK
<1>2. \A s \in Requests :
         s # r => at'[s] = at[s] /\ on'[s] = on[s] /\ copy'[s] = copy[s]
  BY <1>1 DEF Enter, RequestsOK
<1>3. at'[r] = stage /\ on'[r] = id /\ copy'[r] = row
  BY <1>1 DEF Enter, RequestsOK
<1>q. QED
  BY <1>2, <1>3
  DEF RowInv, Sound, PrepaymentKept, PaidOnlyOnDelivery, ReasonOnlyWhenClosed,
      KeepsPrepayment, PaidWhenDone, ReasonWhenDone, Exists, Copying

(* Writing a copy back, or not, and ending the request.                    *)
LEMMA RowInvWrite ==
  ASSUME TypeOK, CheckoutInv, RowInv, NEW r \in Requests, at[r] \in Copying,
         invoice' = invoice \/ invoice' = [invoice EXCEPT ![on[r]] = copy[r]],
         Finish(r), prepaid' = prepaid, given' = given
  PROVE  RowInv'
<1>1. RequestsOK /\ at[r] # "idle"
  BY DEF TypeOK, Copying
<1>2. on[r] \in Ids /\ copy[r] \in Row /\ Exists(on[r]) /\ copy[r].status >= Placed
  BY <1>1, RequestType DEF CheckoutInv
<1>3. copy[r] # NoRow
  BY <1>2, RealRow
<1>4. Sound(on[r], copy[r])
  BY RowInvMeaning
<1>5. \A id \in Ids : \/ invoice'[id] = invoice[id]
                      \/ id = on[r] /\ invoice'[id] = copy[r]
  BY <1>2 DEF TypeOK
<1>6. \A s \in Requests :
         s # r => at'[s] = at[s] /\ on'[s] = on[s] /\ copy'[s] = copy[s]
  BY <1>1 DEF Finish, Enter, RequestsOK
<1>7. at'[r] = "idle" /\ "idle" \notin Copying
  BY <1>1 DEF Finish, Enter, RequestsOK, Copying
<1>8. \A id \in prepaid' \cup given' : Exists(id)'
  BY <1>3, <1>5 DEF RowInv, Exists, TypeOK
<1>9. \A id \in Ids : Exists(id)' => Sound(id, invoice[id])'
  BY <1>2, <1>4, <1>5, RowInvMeaning
  DEF Exists, Sound, KeepsPrepayment, PaidWhenDone, ReasonWhenDone
<1>10. \A s \in Requests : at'[s] \in Copying => Sound(on[s], copy[s])'
  BY <1>6, <1>7, RowInvMeaning
  DEF Sound, KeepsPrepayment, PaidWhenDone, ReasonWhenDone, Copying
<1>q. QED
  BY <1>8, <1>9, <1>10
  DEF RowInv, Sound, PrepaymentKept, PaidOnlyOnDelivery, ReasonOnlyWhenClosed,
      Copying

(* A commit says nothing of the other invoices.                            *)
LEMMA OthersStaySound ==
  ASSUME NEW r \in Requests, PayCommit(r), NEW id, NEW row,
         id # on[r], Sound(id, row)
  PROVE  /\ id \in prepaid' => row.paid
         /\ row.paid /\ id \notin prepaid' => row.status >= Delivered
         /\ row.reason /\ id \notin given' => row.status >= Delivered
<1>1. /\ id \in prepaid' => id \in prepaid
      /\ id \in prepaid => id \in prepaid'
      /\ id \in given => id \in given'
  BY DEF PayCommit
<1>q. QED BY <1>1, Zenon DEF Sound, KeepsPrepayment, PaidWhenDone, ReasonWhenDone

LEMMA RowInvCommit ==
  ASSUME TypeOK, CheckoutInv, RowInv, NEW r \in Requests, PayCommit(r)
  PROVE  RowInv'
<1>1. RequestsOK /\ at[r] = "paying"
  BY DEF TypeOK, PayCommit
<1>2. on[r] \in Ids /\ copy[r] \in Row /\ copy[r].paid \in BOOLEAN
  BY <1>1, RequestType DEF Row
<1>3. ~Exists(on[r]) /\ copy[r] \in ClientRows
  BY <1>1, Zenon DEF CheckoutInv
<1>4. copy[r] # NoRow
  BY <1>3, ClientRowFacts
<1>5. on[r] \notin prepaid \cup given
  BY <1>3, Zenon DEF RowInv
<1>6. \A s \in Requests :
         s # r => at'[s] = at[s] /\ on'[s] = on[s] /\ copy'[s] = copy[s]
  BY <1>1 DEF PayCommit, Finish, Enter, RequestsOK
<1>7. at'[r] = "idle" /\ "idle" \notin Copying
  BY <1>1 DEF PayCommit, Finish, Enter, RequestsOK, Copying
<1>8. /\ invoice'[on[r]] = copy[r]
      /\ \A id \in Ids : id # on[r] => invoice'[id] = invoice[id]
  BY <1>2 DEF PayCommit, TypeOK
<1>12. /\ on[r] \in prepaid' => copy[r].paid
       /\ copy[r].paid => on[r] \in prepaid'
       /\ copy[r].reason => on[r] \in given'
  BY <1>5 DEF PayCommit
<1>9. \A id \in prepaid' \cup given' : Exists(id)'
  <2>1. ASSUME NEW id \in prepaid' \cup given' PROVE Exists(id)'
    <3>1. CASE id = on[r]
      BY <1>4, <1>8, <3>1 DEF Exists
    <3>2. CASE id # on[r]
      <4>1. id \in prepaid \cup given
        BY <2>1, <3>2 DEF PayCommit
      <4>2. Exists(id)
        BY <4>1, Zenon DEF RowInv
      <4>3. id \in Ids
        BY <4>1 DEF TypeOK
      <4>q. QED BY <1>8, <3>2, <4>2, <4>3 DEF Exists
    <3>q. QED BY <3>1, <3>2
  <2>q. QED BY <2>1
<1>10. \A id \in Ids : Exists(id)' => Sound(id, invoice[id])'
  <2> SUFFICES ASSUME NEW id \in Ids, Exists(id)'
               PROVE  Sound(id, invoice[id])'
    OBVIOUS
  <2>1. CASE id = on[r]
    <3>1. invoice'[id] = copy[r]
      BY <1>8, <2>1
    <3>q. QED
      BY <1>12, <2>1, <3>1, Zenon
      DEF Sound, KeepsPrepayment, PaidWhenDone, ReasonWhenDone
  <2>2. CASE id # on[r]
    <3>1. invoice'[id] = invoice[id] /\ Exists(id)
      BY <1>8, <2>2 DEF Exists
    <3>2. Sound(id, invoice[id])
      BY <3>1, RowInvMeaning
    <3>q. QED
      BY <2>2, <3>1, <3>2, OthersStaySound
      DEF Sound, KeepsPrepayment, PaidWhenDone, ReasonWhenDone
  <2>q. QED BY <2>1, <2>2
<1>11. \A s \in Requests : at'[s] \in Copying => Sound(on[s], copy[s])'
  <2> SUFFICES ASSUME NEW s \in Requests, at'[s] \in Copying
               PROVE  Sound(on[s], copy[s])'
    BY DEF Copying
  <2>1. at[s] \in Copying /\ on'[s] = on[s] /\ copy'[s] = copy[s]
    BY <1>6, <1>7
  <2>2. on[s] # on[r]
    BY <1>3, <2>1, Zenon DEF CheckoutInv
  <2>3. Sound(on[s], copy[s])
    BY <2>1, RowInvMeaning
  <2>q. QED BY <2>1, <2>2, <2>3, OthersStaySound
           DEF Sound, KeepsPrepayment, PaidWhenDone, ReasonWhenDone
<1>q. QED
  BY <1>9, <1>10, <1>11
  DEF RowInv, Sound, PrepaymentKept, PaidOnlyOnDelivery, ReasonOnlyWhenClosed,
      Copying

LEMMA RowInvInit == Init => RowInv
BY DEF Init, RowInv, PrepaymentKept, PaidOnlyOnDelivery, ReasonOnlyWhenClosed,
       Exists, Copying

LEMMA RowInvNext ==
  ASSUME TypeOK, CheckoutInv, RowInv, [Next]_vars
  PROVE  RowInv'
<1>1. ASSUME NEW r \in Requests, Pay(r) PROVE RowInv'
  <2>1. ASSUME NEW row \in ClientRows, NEW wanted \in SUBSET Products,
               PayBegin(r, row, wanted)
        PROVE  RowInv'
    <3>1. "paying" \in Stages /\ "paying" \notin Copying
      BY DEF Stages, Copying
    <3>q. QED BY <2>1, <3>1, RowInvEnter DEF PayBegin
  <2>2. ASSUME NEW p \in Products, PayDetail(r, p) PROVE RowInv'
    BY <2>2
    DEF PayDetail, RowInv, PrepaymentKept, PaidOnlyOnDelivery, ReasonOnlyWhenClosed,
        KeepsPrepayment, PaidWhenDone, ReasonWhenDone, Exists, tables, history
  <2>q. QED BY <1>1, <2>1, <2>2, RowInvCommit DEF Pay
<1>2. ASSUME NEW r \in Requests, Update(r) PROVE RowInv'
  <2>1. ASSUME NEW id \in Ids, NEW target \in Statuses, NEW reason \in BOOLEAN,
               UpdateRead(r, id, target, reason)
        PROVE  RowInv'
    <3> DEFINE row   == ApplyRules(invoice[id], target, reason)
               stage == IF target = Cancelled THEN "mail" ELSE "advance"
    <3>1. invoice[id] \in Row /\ Sound(id, invoice[id])
      BY <2>1, RowInvMeaning DEF UpdateRead, TypeOK
    <3>2. Sound(id, row)
      BY <3>1, ApplyRulesSound
    <3>3. stage \in Stages
      BY DEF Stages
    <3>4. Enter(r, stage, id, row) /\ UNCHANGED <<invoice, prepaid, given>>
      BY <2>1 DEF UpdateRead, tables, history
    <3> HIDE DEF row, stage
    <3>q. QED BY <3>2, <3>3, <3>4, RowInvEnter
  <2>2. CASE UpdateMail(r)
    <3>1. /\ at[r] = "mail" /\ at' = [at EXCEPT ![r] = "adminCancel"]
          /\ UNCHANGED <<tables, on, copy, history>>
      BY <2>2 DEF UpdateMail
    <3>2. \A s \in Requests : at'[s] \in Copying <=> at[s] \in Copying
      BY <3>1 DEF TypeOK, RequestsOK, Copying
    <3>q. QED
      BY <3>1, <3>2
      DEF RowInv, PrepaymentKept, PaidOnlyOnDelivery, ReasonOnlyWhenClosed,
          KeepsPrepayment, PaidWhenDone, ReasonWhenDone, Exists, tables, history
  <2>3. CASE UpdateWrite(r)
    BY <2>3, RowInvWrite DEF UpdateWrite, WriteRow, Copying, history
  <2>q. QED BY <1>2, <2>1, <2>2, <2>3 DEF Update
<1>3. ASSUME NEW r \in Requests, Cancel(r) PROVE RowInv'
  <2>1. ASSUME NEW id \in Ids, CancelRead(r, id) PROVE RowInv'
    <3> DEFINE row == CancelledRow(invoice[id])
    <3>1. invoice[id] \in Row /\ Sound(id, invoice[id])
      BY <2>1, RowInvMeaning DEF CancelRead, TypeOK
    <3>2. Sound(id, row)
      BY <3>1, CancelledRowSound
    <3>3. "customerCancel" \in Stages
      BY DEF Stages
    <3>4. Enter(r, "customerCancel", id, row) /\ UNCHANGED <<invoice, prepaid, given>>
      BY <2>1 DEF CancelRead, tables, history
    <3> HIDE DEF row
    <3>q. QED BY <3>2, <3>3, <3>4, RowInvEnter
  <2>2. CASE CancelWrite(r)
    BY <2>2, RowInvWrite DEF CancelWrite, WriteRow, Copying, history
  <2>q. QED BY <1>3, <2>1, <2>2 DEF Cancel
<1>4. ASSUME NEW r \in Requests, Fail(r) PROVE RowInv'
  <2>1. "idle" \in Stages /\ "idle" \notin Copying
    BY DEF Stages, Copying
  <2>2. Enter(r, "idle", 0, NoRow) /\ UNCHANGED <<invoice, prepaid, given>>
    BY <1>4 DEF Fail, Finish, tables, history
  <2>q. QED BY <2>1, <2>2, RowInvEnter
<1>5. CASE UNCHANGED vars
  BY <1>5
  DEF RowInv, PrepaymentKept, PaidOnlyOnDelivery, ReasonOnlyWhenClosed, KeepsPrepayment,
      PaidWhenDone, ReasonWhenDone, Exists, vars, tables, request, history
<1>q. QED BY <1>1, <1>2, <1>3, <1>4, <1>5 DEF Next, Refuse

LEMMA RowInvAlways == Spec => []RowInv
<1>1. TypeOK /\ CheckoutInv /\ RowInv /\ [Next]_vars => RowInv'
  BY RowInvNext
<1>2. TypeOK /\ CheckoutInv /\ [Next]_vars => CheckoutInv'
  BY CheckoutInvNext
<1>q. QED BY <1>1, <1>2, CheckoutInvInit, RowInvInit, TypeCorrect, PTL DEF Spec

(* No interleaving of whole-row writes loses a payment made at checkout.   *)
THEOREM PrepaymentNeverLost == Spec => []PrepaymentKept
<1>1. RowInv => PrepaymentKept
  BY DEF RowInv
<1>q. QED BY <1>1, RowInvAlways, PTL

(* No interleaving marks an order paid before it is delivered, except at   *)
(* checkout.                                                               *)
THEOREM PaymentOnlyOnDelivery == Spec => []PaidOnlyOnDelivery
<1>1. RowInv => PaidOnlyOnDelivery
  BY DEF RowInv
<1>q. QED BY <1>1, RowInvAlways, PTL

(* No interleaving of updates and cancellations leaves a reason on an open *)
(* order that was placed without one.                                      *)
THEOREM ReasonOnlyOnClosed == Spec => []ReasonOnlyWhenClosed
<1>1. RowInv => ReasonOnlyWhenClosed
  BY DEF RowInv
<1>q. QED BY <1>1, RowInvAlways, PTL

-----------------------------------------------------------------------------
(* Refinement: requests that do not overlap are atomic.                    *)

OneAtATime == \A r, s \in Requests : r = s

LEMMA CopyIsFreshNext ==
  ASSUME OneAtATime, TypeOK, CopyIsFresh, [Next]_vars
  PROVE  CopyIsFresh'
<1>0. RequestsOK /\ \A r, s \in Requests : r = s
  BY DEF TypeOK, OneAtATime
<1>1. ASSUME NEW r \in Requests, NEW stage, stage \notin Copying, NEW id, NEW row,
             Enter(r, stage, id, row)
      PROVE  CopyIsFresh'
  <2>1. \A s \in Requests : at'[s] \notin Copying
    BY <1>0, <1>1 DEF Enter, RequestsOK
  <2>q. QED BY <2>1 DEF CopyIsFresh, Copying
<1>2. "idle" \notin Copying /\ "paying" \notin Copying
  BY DEF Copying
<1>3. ASSUME NEW r \in Requests, Finish(r) PROVE CopyIsFresh'
  BY <1>1, <1>2, <1>3 DEF Finish
<1>4. ASSUME NEW r \in Requests, Pay(r) PROVE CopyIsFresh'
  <2>1. ASSUME NEW row \in ClientRows, NEW wanted \in SUBSET Products,
               PayBegin(r, row, wanted)
        PROVE  CopyIsFresh'
    BY <1>1, <1>2, <2>1 DEF PayBegin
  <2>2. ASSUME NEW p \in Products, PayDetail(r, p) PROVE CopyIsFresh'
    BY <2>2 DEF PayDetail, CopyIsFresh, tables
  <2>q. QED BY <1>3, <1>4, <2>1, <2>2 DEF Pay, PayCommit
<1>5. ASSUME NEW r \in Requests, Update(r) PROVE CopyIsFresh'
  <2>1. ASSUME NEW id \in Ids, NEW target \in Statuses, NEW reason \in BOOLEAN,
               UpdateRead(r, id, target, reason)
        PROVE  CopyIsFresh'
    <3>1. \A s \in Requests :
             /\ on'[s] = id /\ invoice' = invoice
             /\ copy'[s] = ApplyRules(invoice[id], target, reason)
      BY <1>0, <2>1 DEF UpdateRead, Enter, RequestsOK, tables
    <3>q. QED BY <3>1 DEF CopyIsFresh, Copying
  <2>2. CASE UpdateMail(r)
    <3>1. /\ at[r] = "mail" /\ UNCHANGED <<invoice, on, copy>>
          /\ \A s \in Requests : at[s] = "mail"
      BY <1>0, <2>2 DEF UpdateMail, tables
    <3>2. \A s \in Requests : at[s] \in Copying
      BY <3>1 DEF Copying
    <3>q. QED BY <3>1, <3>2 DEF CopyIsFresh
  <2>q. QED BY <1>3, <1>5, <2>1, <2>2 DEF Update, UpdateWrite
<1>6. ASSUME NEW r \in Requests, Cancel(r) PROVE CopyIsFresh'
  <2>1. ASSUME NEW id \in Ids, CancelRead(r, id) PROVE CopyIsFresh'
    <3>1. \A s \in Requests :
             /\ on'[s] = id /\ invoice' = invoice
             /\ copy'[s] = CancelledRow(invoice[id])
      BY <1>0, <2>1 DEF CancelRead, Enter, RequestsOK, tables
    <3>q. QED BY <3>1 DEF CopyIsFresh, Copying
  <2>q. QED BY <1>3, <1>6, <2>1 DEF Cancel, CancelWrite
<1>7. ASSUME NEW r \in Requests, Fail(r) PROVE CopyIsFresh'
  BY <1>3, <1>7 DEF Fail
<1>8. CASE UNCHANGED vars
  BY <1>8 DEF CopyIsFresh, vars, tables, request
<1>q. QED BY <1>4, <1>5, <1>6, <1>7, <1>8 DEF Next, Refuse

(* Writing a fresh copy is one step of the lifecycle, or leaves the row.   *)
LEMMA WriteIsAtomic ==
  ASSUME TypeOK, CheckoutInv, CopyIsFresh,
         NEW r \in Requests, at[r] \in Copying,
         copy[r].status \in Statuses, WriteRow(r)
  PROVE  Lifecycle!Next \/ invoice' = invoice
<1> DEFINE id  == on[r]
           old == invoice[id]
<1>1. RequestsOK /\ at[r] # "idle"
  BY DEF TypeOK, Copying
<1>2. id \in Ids /\ Exists(id) /\ old \in Row /\ old.status >= Placed
  <2>1. id \in Ids /\ Exists(id)
    BY <1>1, RequestType DEF CheckoutInv
  <2>q. QED BY <2>1 DEF CheckoutInv, TypeOK
<1>3. old # Lifecycle!NoOrder
  BY <1>2 DEF Exists, NoRow, Lifecycle!NoOrder
<1>4. invoice' = [invoice EXCEPT ![id] = copy[r]]
  BY DEF WriteRow
<1>5. ASSUME NEW target \in Statuses, NEW reason \in BOOLEAN,
             copy[r] = ApplyRules(old, target, reason)
      PROVE  Lifecycle!Next \/ invoice' = invoice
  <2>1. CASE target = Delivered
    <3>1. copy[r] = [status |-> 5, paid |-> TRUE, reason |-> old.reason]
      <4>1. copy[r] = [status |-> 5,
                       paid   |-> old.paid \/ target = Delivered,
                       reason |-> old.reason]
        BY <1>2, <1>5, <2>1 DEF ApplyRules, Delivered, Cancelled, Row
      <4>2. (old.paid \/ target = Delivered) = TRUE
        BY <2>1
      <4>q. QED BY <4>1, <4>2, Zenon
    <3>2. Lifecycle!Deliver(id)
      BY <1>3, <1>4, <3>1 DEF Lifecycle!Deliver, Lifecycle!Becomes
    <3>q. QED BY <1>2, <3>2 DEF Lifecycle!Next
  <2>2. CASE target = Cancelled
    <3>1. copy[r] = [status |-> 6, paid |-> old.paid, reason |-> reason]
      BY <1>2, <1>5, <2>2 DEF ApplyRules, Delivered, Cancelled, Row
    <3>2. Lifecycle!Cancel(id)
      BY <1>3, <1>4, <3>1 DEF Lifecycle!Cancel, Lifecycle!Becomes
    <3>q. QED BY <1>2, <3>2 DEF Lifecycle!Next
  <2>3. CASE target \notin {Delivered, Cancelled} /\ target = old.status
    <3>1. copy[r] = old
      BY <1>2, <1>5, <2>3 DEF ApplyRules, Row
    <3>q. QED BY <1>2, <1>4, <3>1 DEF TypeOK
  <2>4. CASE target \notin {Delivered, Cancelled, old.status}
    <3>1. copy[r] = [status |-> old.status + 1, paid |-> old.paid, reason |-> old.reason]
      BY <1>2, <1>5, <2>4 DEF ApplyRules, Row
    <3>2. old.status \in 1..5
      BY <1>2, <3>1 DEF Row, Statuses, Placed, Cancelled
    <3>3. Lifecycle!Advance(id)
      BY <1>4, <3>1, <3>2 DEF Lifecycle!Advance, Lifecycle!Becomes
    <3>q. QED BY <1>2, <3>3 DEF Lifecycle!Next
  <2>q. QED BY <2>1, <2>2, <2>3, <2>4
<1>6. CASE copy[r] = CancelledRow(old)
  <2>1. copy[r] = [status |-> 6, paid |-> old.paid, reason |-> TRUE]
    BY <1>6 DEF CancelledRow, Cancelled
  <2>2. Lifecycle!Cancel(id)
    BY <1>3, <1>4, <2>1 DEF Lifecycle!Cancel, Lifecycle!Becomes
  <2>q. QED BY <1>2, <2>2 DEF Lifecycle!Next
<1>q. QED BY <1>5, <1>6 DEF CopyIsFresh

(* When requests do not overlap, the handlers implement the lifecycle: all *)
(* the steps of one request make one atomic step, or none.                 *)
THEOREM SerialRequestsImplementLifecycle ==
  ASSUME OneAtATime
  PROVE  Spec => SerialRequestsAreAtomic
<1>1. Init => Lifecycle!Init
  BY DEF Init, Lifecycle!Init, NoRow, Lifecycle!NoOrder
<1>2. Init => CopyIsFresh
  BY DEF Init, CopyIsFresh, Copying
<1>3. TypeOK /\ CopyIsFresh /\ [Next]_vars => CopyIsFresh'
  BY CopyIsFreshNext
<1>4. TypeOK /\ CheckoutInv /\ CopyIsFresh /\ [Next]_vars
         => [Lifecycle!Next]_invoice
  <2> SUFFICES ASSUME TypeOK, CheckoutInv, CopyIsFresh, [Next]_vars
               PROVE  Lifecycle!Next \/ invoice' = invoice
    OBVIOUS
  <2>1. ASSUME NEW r \in Requests, PayCommit(r) PROVE Lifecycle!Next
    <3>1. RequestsOK /\ at[r] = "paying"
      BY <2>1 DEF TypeOK, PayCommit
    <3>2. on[r] \in Ids
      BY <3>1, RequestType
    <3>3. ~Exists(on[r]) /\ copy[r] \in ClientRows
      BY <3>1, Zenon DEF CheckoutInv
    <3>4. invoice' = [invoice EXCEPT ![on[r]] = copy[r]]
      BY <2>1 DEF PayCommit
    <3>5. Lifecycle!Place(on[r])
      BY <3>2, <3>3, <3>4
      DEF Lifecycle!Place, Lifecycle!Becomes, Lifecycle!NoOrder, Exists, NoRow,
          ClientRows, Statuses, Placed, Cancelled
    <3>q. QED BY <3>2, <3>5 DEF Lifecycle!Next
  <2>2. ASSUME NEW r \in Requests, UpdateWrite(r)
        PROVE  Lifecycle!Next \/ invoice' = invoice
    BY <2>2, WriteIsAtomic DEF UpdateWrite, Copying
  <2>3. ASSUME NEW r \in Requests, CancelWrite(r)
        PROVE  Lifecycle!Next \/ invoice' = invoice
    <3>1. at[r] = "customerCancel" /\ WriteRow(r)
      BY <2>3 DEF CancelWrite
    <3>2. at[r] \in Copying
      BY <3>1 DEF Copying
    <3>3. copy[r] \in Row /\ copy[r].status <= Cancelled /\ copy[r].status >= Placed
      <4>1. RequestsOK
        BY DEF TypeOK
      <4>2. copy[r] \in Row /\ copy[r].status <= Cancelled
        BY <3>1, <4>1, RequestType
      <4>q. QED BY <3>2, <4>2, Zenon DEF CheckoutInv
    <3>4. copy[r].status \in Statuses
      BY <3>3 DEF Row, Statuses, Placed, Cancelled
    <3>q. QED BY <3>1, <3>2, <3>4, WriteIsAtomic
  <2>q. QED
    BY <2>1, <2>2, <2>3
    DEF Next, Pay, Update, Cancel, Fail, Refuse, PayBegin, PayDetail, UpdateRead,
        UpdateMail, CancelRead, vars, tables
<1>5. TypeOK /\ CheckoutInv /\ [Next]_vars => CheckoutInv'
  BY CheckoutInvNext
<1>q. QED
  BY <1>1, <1>2, <1>3, <1>4, <1>5, CheckoutInvInit, TypeCorrect, PTL
  DEF Spec, SerialRequestsAreAtomic, Lifecycle!Spec

=============================================================================
