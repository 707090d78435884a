SPECIFICATION FairSpec
CONSTANTS
  Users = {u1, u2}
  Clients = {c1}
  Workers = {w1, w2}
  Endpoints = {e1, e2}
  VoiceSessions = {v1, v2}
  Requests = {r1, r2}
  Worlds <- MCWorlds
  Accounts <- AllAccounts
  NoUser = NoUser
  NoEndpoint = NoEndpoint
  NoSession = NoSession
  NoRequest = NoRequest
  EmptyId = EmptyId
INVARIANT VoiceDecrypts
PROPERTY EndpointLearned
