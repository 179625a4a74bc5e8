SPECIFICATION Spec
CONSTANTS
  MaxSeq = 3
  DeltaSeqs = {}
  TurnStart <- NoEvidence
  Inferred = {2}
  FencedRun = {}
  Migrated = 0
  ExitedSeqs = {}
  DisposedSeqs = {}
  FaultKinds = {"busy"}
  MaxFaults = 1
CHECK_DEADLOCK FALSE
INVARIANTS RetryNeverConflicts
