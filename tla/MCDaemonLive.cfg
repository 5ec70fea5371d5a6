SPECIFICATION Spec
CONSTANTS
  w1 = w1
  Workers = {w1}
  Descendants = {}
  Enforced = FALSE
  HeartbeatAction = "kill"
  IpcLostAction = "quarantine"
  SessionTimeout = TRUE
  MaxRequests = 1
INVARIANT KillAccountedOnce
PROPERTIES FrozenAfterSeal RunReturns
