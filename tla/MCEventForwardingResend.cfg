SPECIFICATION Spec
CONSTANTS
  MaxRows <- TwoEach
  BatchSize = 3
  Oversized <- Nothing
  Foreign <- Nothing
  Unstable <- UnstableSecond
  Retained <- RetainedBroker
  AcceptsV2 = FALSE
  Spilled <- Nothing
  HugeBlobs <- Nothing
  Parts = 2
  RuntimeOf <- OwnRuntime
  Hazards = {"lost"}
  MaxFaults = 1
CHECK_DEADLOCK FALSE
INVARIANTS ArrivedIsNotParked
