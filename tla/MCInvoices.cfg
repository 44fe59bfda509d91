\* Three slots.  Requests that overlap do so on one invoice: one can hold a
\* stale copy while two others write, and checkouts race for the last id of
\* the sequence.  Requests that run in turn have two invoices.
SPECIFICATION MCSpec
CONSTANTS
  Requests = {r1, r2, r3}
  Products = {p1, p2}
  MaxInvoices = 2
  MaxOverlapping = 1
SYMMETRY Symmetry
INVARIANTS
  TypeOK
  PrepaymentKept
  PaidOnlyOnDelivery
  AllLinesOrNothing
  ReasonOnlyWhenClosed
PROPERTIES
  RequestsInTurnAreAtomic
