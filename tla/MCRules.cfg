SPECIFICATION Spec
CONSTANTS
  MaxSegments = 3
  MaxRules = 2
  None = None
  Null = Null
  WrongType = WrongType
  Base <- MCBase
  Matches <- MCMatches
  Sources <- MCSources
  Flags <- MCFlags
  Asks <- MCAsks
  Claims <- MCClaims
INVARIANTS MatchIsExact StepsBounded DeclaredIsEnforced ClaimsNeverUnblock ObservedDecides
CHECK_DEADLOCK FALSE
