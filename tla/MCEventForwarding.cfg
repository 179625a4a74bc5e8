SPECIFICATION FairSpec
CONSTANTS
  MaxRows <- FourAndTwo
  BatchSize = 3
  Oversized <- HugeRow
  Foreign <- ForeignThird
  Unstable <- UnstableSecond
  Retained <- RetainedBroker
  AcceptsV2 = FALSE
  Spilled <- SpilledOdd
  HugeBlobs <- HugeThird
  Parts = 2
  RuntimeOf <- OwnRuntime
  Hazards = {"lost", "late", "crash", "receiver_crash", "refuse", "write", "unreadable", "prune"}
  MaxFaults = 1
CHECK_DEADLOCK FALSE
INVARIANTS TypeOK CursorNeverSkips OnlyPoisonIsParked AnnouncedOnce
PROPERTIES EveryRowSettles BlobFollowsRow InOrder
