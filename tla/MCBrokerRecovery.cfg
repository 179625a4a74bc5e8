SPECIFICATION FairSpec
CONSTANTS
  MaxSeq = 5
  DeltaSeqs = {}
  TurnStart <- TurnStartAt2
  Inferred = {2}
  FencedRun = {2, 3}
  Migrated = 2
  ExitedSeqs = {4}
  DisposedSeqs = {5}
  FaultKinds = {"crash", "prune", "reorder"}
  MaxFaults = 2
CHECK_DEADLOCK FALSE
PROPERTIES ImplementsLedger PublishedIsCaughtUp ExitEndsRuntime
