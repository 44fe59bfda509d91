\* Two requests on two products, one of them perhaps new.
\* Two types may want one name.
\* Two requests on one page; three writes: all those of an update of a review.
SPECIFICATION MCSpec
CONSTANTS
  Requests = {r1, r2}
  MaxProducts = 2
  Types = {t1, t2}
  Names = {n1}
  Covers = {c1, c2}
  Sets = {s1, s2, s3}
  Calls = {r1, r2}
  MaxWrites = 3
SYMMETRY Symmetry
INVARIANTS
  ImagesOfOneUpdate
  PageIsOfOneMoment
PROPERTIES
  CoverKept
