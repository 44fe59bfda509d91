\* Two concurrent requests, at most two images each; three objects in all,
\* one of them perhaps of another review.
SPECIFICATION Spec
CONSTANTS
  Requests = {r1, r2}
  MaxImages = 2
  MaxFiles = 3
  MaxOthers = 1
SYMMETRY Symmetry
INVARIANTS
  FilesMatchRows
  ImagesReplaced
PROPERTIES
  NoRowRevived
