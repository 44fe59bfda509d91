\* Two concurrent requests; two accounts, one of them perhaps by OAuth.
SPECIFICATION Spec
CONSTANTS
  Requests = {r1, r2}
  Names = {n1}
  Subs = {s1}
  Emails = {e1, e2}
  Passwords = {p1, p2}
  Ids = {i1, i2}
SYMMETRY Symmetry
INVARIANTS
  ColumnsAsMeant
  NamesDistinct
