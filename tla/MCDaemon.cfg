SPECIFICATION Spec
CONSTANTS
  w1 = w1
  w2 = w2
  Workers = {w1, w2}
  Descendants = {}
  Enforced = FALSE
  HeartbeatAction = "quarantine"
  IpcLostAction = "kill"
  SessionTimeout = FALSE
  MaxRequests = 1
SYMMETRY Connections
INVARIANTS SealedCountExact KillAccountedOnce CompletedIsVoluntary LostClientRecorded
