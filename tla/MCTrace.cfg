SPECIFICATION Spec
CONSTANTS
  Data = {"a", "b"}
  Times = {0, 1}
  MaxEvents = 3
  MaxEdits = 2
INVARIANTS HonestVerifies EvidenceExact ChainFixesPrefix AlterationDetected
