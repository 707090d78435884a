SPECIFICATION Spec
CONSTANTS
  Users = {u1, u2}
  Sessions = {s1, s2, s3}
  Tokens = {t1, t2}
  Handlers <- MCHandlers
  SqlMayFail = TRUE
  NoUser = NoUser
  NoSession = NoSession
SYMMETRY Symmetry
INVARIANTS EntryIsLive SessionFound
PROPERTY EntryLostToOwnUserOnly
