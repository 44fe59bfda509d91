\* Two concurrent requests, one product, two lines.
SPECIFICATION Spec
CONSTANTS
  Requests = {r1, r2}
  Products = {p1}
  MaxQuantity = 1
  MaxLines = 2
INVARIANTS
  StaleHasReason
  OneLinePerProduct
