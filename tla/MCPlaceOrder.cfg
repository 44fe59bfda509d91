\* Three products, every combination of lookups, the assistant up or down.
\* The handler ends, and with two unknown products it blocks for ever.
\* Two requests on the addresses of two accounts, three addresses in all.
SPECIFICATION MCSpec
CONSTANTS
  Products = {p1, p2, p3}
  Nobody = Nobody
  Requests = {r1, r2}
  Accounts = {a1, a2}
  MaxAddresses = 3
  PageSize = 2
INVARIANTS
  OrderIsComplete
  NoSendAfterClose
  SomeoneRuns
  AddressTypeOK
  OneDefault
  PagesPartition
PROPERTIES
  AnswersOneUnknown
  DefaultKept
CHECK_DEADLOCK FALSE
