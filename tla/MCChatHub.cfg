\* A user with two connections, an admin with one.
\* Connections close and are not reused: the system stops.
SPECIFICATION FairSpec
CONSTANTS
  user = user
  admin = admin
  None = None
  UserConns = {u1, u2}
  AdminConns = {a1}
  Ids <- MCIds
  Account <- MCAccount
INVARIANTS
  WritesToLive
  OnlineIsRegistered
  SomeoneProceeds
PROPERTIES
  MapStillWhileRead
  GoneIsClosed
CHECK_DEADLOCK FALSE
