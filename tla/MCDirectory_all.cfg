SPECIFICATION Spec
CONSTANTS
  u1 = u1
  u2 = u2
  u3 = u3
  Users = {u1, u2, u3}
  Channels = {c1, c2}
  Messages = {m1}
  NoUser = NoUser
  NoChannel = NoChannel
  NoMessage = NoMessage
  Worlds <- MCWorlds
INVARIANTS
  OnePerPair
  ViewsAgree
  ChannelIsWhole
  MessagesReachMembers
PROPERTIES
  ApprovedByRecipient
CHECK_DEADLOCK FALSE
