SPECIFICATION Spec
CONSTANTS
  MaxSeq = 5
  DeltaSeqs = {3, 5}
  TurnStart <- NoEvidence
  Inferred = {}
  FencedRun = {}
  Migrated = 0
  ExitedSeqs = {}
  DisposedSeqs = {}
  FaultKinds = {"loss"}
  MaxFaults = 2
CHECK_DEADLOCK FALSE
INVARIANTS RefusedDeltaIsARealGap
