SPECIFICATION Spec
CONSTANTS
  MaxSeq = 3
  DeltaSeqs = {}
  TurnStart <- TurnStartAt2
  Inferred = {}
  FencedRun = {}
  Migrated = 0
  ExitedSeqs = {}
  DisposedSeqs = {}
  FaultKinds = {"loss", "crash"}
  MaxFaults = 2
CHECK_DEADLOCK FALSE
INVARIANTS ReplayNeverConflicts
