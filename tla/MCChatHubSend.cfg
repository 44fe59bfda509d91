\* Two connections of a user write to one admin at the same time.
SPECIFICATION FairSpec
CONSTANTS
  user = user
  admin = admin
  None = None
  UserConns = {u1, u2}
  AdminConns = {a1}
  Ids <- MCIds
  Account <- MCAccount
PROPERTIES
  MessagesGetThrough
CHECK_DEADLOCK FALSE
