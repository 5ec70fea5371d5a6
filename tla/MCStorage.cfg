SPECIFICATION Spec
CONSTANTS
  Name <- MCName
  Root <- MCRoot
  Cwds <- MCCwds
  MaxRuns = 2
  MaxLosses = 1
  MaxDeletes = 1
  None = None
INVARIANTS
  NeverTruncated
  OutOfReach
  MetadataHasTrace
  CleanIsStored
