SPECIFICATION FairSpec
CONSTANTS
  Senders = {t1, t2}
  KeepAlive = KeepAlive
  Receiver = Receiver
  EventsThread = EventsThread
  Requests = {r1, r2}
  Ping = Ping
  Events = {e1}
  NoThread = NoThread
  NoPacket = NoPacket
  MaxConnections = 1
  Faults = {"break"}
PROPERTY SendAlwaysReturns
CHECK_DEADLOCK FALSE
