SPECIFICATION FairSpec
CONSTANTS
  u1 = u1
  u2 = u2
  u3 = u3
  c1 = c1
  c2 = c2
  s1 = s1
  s2 = s2
  s3 = s3
  Users = {u1, u2}
  Channels = {c1}
  Sessions = {s1, s2}
  CallIds = {k1, k2, k3}
  NoChannel = NoChannel
  NoCall = NoCall
  NoSession = NoSession
  Members <- AllMembers
  UserOf <- Reconnected
  SqlMayFail = FALSE
PROPERTY JoinReturns
CHECK_DEADLOCK FALSE
