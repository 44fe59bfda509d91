\* Two concurrent requests, three tokens: a login and two rotations, or two
\* logins and a rotation.
SPECIFICATION Spec
CONSTANTS
  Requests = {r1, r2}
  MaxTokens = 3
SYMMETRY Symmetry
INVARIANTS
  RevokedStaysRevoked
  EndsForAReason
  OneTokenPerLogin
  ListedOnceSaved
