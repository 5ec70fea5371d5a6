SPECIFICATION Spec
CONSTANTS
  w1 = w1
  Workers = {w1}
  Descendants = {"child"}
  Enforced = TRUE
  HeartbeatAction = "record"
  IpcLostAction = "kill"
  SessionTimeout = FALSE
  MaxRequests = 1
INVARIANT NoUnflaggedSurvivor
PROPERTY ImplementsSession
