SPECIFICATION Spec
CONSTANTS
  Files = {u}
  Stored = {}
  Conns = {c1, c2}
  Chains = {k1, k2}
  NumChunks = 2
  MaxShutdowns = 1
  NoFile = NoFile
  NoConn = NoConn
  Worlds <- MCWorlds
INVARIANTS
  TypeOK
  TableMatchesDisk
  OneChainSendsAll
PROPERTIES
  StoppedStaysStopped
  RowGetsContent
  EntryGoes
CHECK_DEADLOCK FALSE
