SPECIFICATION Spec
CONSTANTS
  Callers = {c1}
  Owner = owner
  MaxCalls = 1
INVARIANT NothingLeftByKill
