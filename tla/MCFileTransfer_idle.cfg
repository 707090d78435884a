SPECIFICATION Spec
CONSTANTS
  Files = {u, d}
  Stored = {d}
  Conns = {c1}
  Chains = {k1}
  NumChunks = 2
  MaxShutdowns = 2
  NoFile = NoFile
  NoConn = NoConn
  Worlds <- MCWorlds
  Workers = {w1}
PROPERTIES
  IdleCleansNothing
CHECK_DEADLOCK FALSE
