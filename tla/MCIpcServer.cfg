SPECIFICATION Spec
CONSTANTS
  Conns <- MCConns
  MaxConnections = 2
  MaxRequests = 1
  MaxDrains = 1
  AcceptMayStall = FALSE
INVARIANTS NoFrameCut StoppedIsQuiet ServedWithinCapacity
PROPERTY DrainReturns
