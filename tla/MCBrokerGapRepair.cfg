SPECIFICATION FairSpec
CONSTANTS
  MaxSeq = 5
  DeltaSeqs = {3}
  TurnStart <- NoEvidence
  Inferred = {1, 4}
  FencedRun = {}
  Migrated = 0
  ExitedSeqs = {}
  DisposedSeqs = {}
  FaultKinds = {"loss", "prune"}
  MaxFaults = 3
CHECK_DEADLOCK FALSE
PROPERTIES GapRepaired
