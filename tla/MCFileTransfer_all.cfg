SPECIFICATION Spec
CONSTANTS
  Files = {u, d}
  Stored = {d}
  Conns = {c1, c2}
  Chains = {k1}
  NumChunks = 2
  MaxShutdowns = 2
  NoFile = NoFile
  NoConn = NoConn
  Worlds <- MCWorlds
  Workers = {w1, w2}
INVARIANTS
  DownloadedToLastChunk
  UploadInStep
PROPERTIES
  CallsReturn
  
CHECK_DEADLOCK FALSE
