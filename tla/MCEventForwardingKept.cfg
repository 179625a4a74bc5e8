SPECIFICATION Spec
CONSTANTS
  MaxRows <- FourAndTwo
  BatchSize = 3
  Oversized <- HugeRow
  Foreign <- ForeignThird
  Unstable <- UnstableSecond
  Retained <- RetainedBroker
  AcceptsV2 = FALSE
  Spilled <- SpilledOdd
  HugeBlobs <- HugeThird
  Parts = 2
  RuntimeOf <- OwnRuntime
  Hazards = {"lost", "late", "crash", "receiver_crash", "refuse", "write", "prune"}
  MaxFaults = 1
CHECK_DEADLOCK FALSE
INVARIANTS BlobIsNotLost
PROPERTIES CursorsOnlyGrow
