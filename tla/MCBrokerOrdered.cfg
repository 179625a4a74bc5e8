SPECIFICATION Spec
CONSTANTS
  MaxSeq = 5
  DeltaSeqs = {4, 5}
  TurnStart <- TurnStartAt2
  Inferred = {2, 3}
  FencedRun = {}
  Migrated = 0
  ExitedSeqs = {}
  DisposedSeqs = {}
  FaultKinds = {"crash", "close", "rpc", "busy", "prune"}
  MaxFaults = 2
CHECK_DEADLOCK FALSE
INVARIANTS OrderedStreamIsClean RefusedDeltaIsARealGap ReplayNeverConflicts
