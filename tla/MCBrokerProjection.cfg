SPECIFICATION Spec
CONSTANTS
  MaxSeq = 5
  DeltaSeqs = {2, 4}
  TurnStart <- NoEvidence
  Inferred = {3}
  FencedRun = {3}
  Migrated = 0
  ExitedSeqs = {5}
  DisposedSeqs = {}
  FaultKinds = {"crash", "close", "rpc", "busy", "loss", "reorder"}
  MaxFaults = 2
CHECK_DEADLOCK FALSE
INVARIANTS TypeOK CursorCoversOnlySettled AckedIsSettled ProjectedAtMostOnce
PROPERTIES DurableProgress PublishedIsCaughtUp
