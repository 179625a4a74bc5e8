SPECIFICATION Spec
CONSTANTS
  MaxRows <- TwoEach
  BatchSize = 3
  Oversized <- Nothing
  Foreign <- Nothing
  Unstable <- Nothing
  Retained <- RetainedBroker
  AcceptsV2 = FALSE
  Spilled <- SpilledTwo
  HugeBlobs <- Nothing
  Parts = 2
  RuntimeOf <- OwnRuntime
  Hazards = {"prune"}
  MaxFaults = 1
CHECK_DEADLOCK FALSE
INVARIANTS NoBlobIsPassed
