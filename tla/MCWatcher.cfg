SPECIFICATION Spec
CONSTANTS
  Callers = {c1, c2}
  Owner = owner
  MaxCalls = 1
SYMMETRY CallerSymmetry
INVARIANTS CompletedIsVoluntary KillOnRecord NothingLeft
PROPERTIES KilledAuthorisesNothing QuarantineEscalates
