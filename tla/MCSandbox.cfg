SPECIFICATION Spec
CONSTANTS
  Pids = {1, 2, 3}
  MaxBorn = 4
  NetworkOpen = TRUE
  MayHang = TRUE
  Nestings <- MCNestings
  None = None
INVARIANTS
  
  EmptyIsEmpty
PROPERTIES
  HuntSparesStrangers
  TerminateReturns
CHECK_DEADLOCK FALSE
