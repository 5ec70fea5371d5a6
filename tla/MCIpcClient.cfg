SPECIFICATION Spec
CONSTANTS
  Owner = owner
  Heart = heart
  Callers = {c1}
  Peers = {p1}
  FailOpen = FALSE
  MaxConns = 2
  MaxIds = 2
  MaxCalls = 1
  MaxFrames = 1
  CacheSize = 1
  None = none
INVARIANTS AllowedByDaemon InStep ClosedForGood 
PROPERTIES CallsReturn
