SPECIFICATION Spec
CONSTANTS
  MaxSegments = 3
  MaxRules = 2
  None = None
  Null = Null
  WrongType = WrongType
  Base <- MCBase
  Matches <- MCMatches
  Sources <- MCSources
  Flags <- MCFlags
  Asks <- MCAsks
  Claims <- MCClaims
INVARIANTS ClaimsOnlyRestrict
CHECK_DEADLOCK FALSE
