SPECIFICATION Spec
CONSTANTS
  Users = {me, peer}
  Me = me
  Workers = {w1, w2}
  MaxCalls = 2
  MaxQueue = 1
  Worlds <- MCWorlds
INVARIANTS
  QueueIsOfThisCall
  
  SafeTeardown
  MicrophoneOff
PROPERTIES
  VoiceGoesQuiet
  DestroyReturns
CHECK_DEADLOCK FALSE
