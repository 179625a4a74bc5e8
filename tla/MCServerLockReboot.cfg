SPECIFICATION FairSpec
CONSTANTS
  Procs = {p1, p2, p3, p4}
  NoFile = NoFile
  Overlap = FALSE
  MaxCrashes = 3
  MaxReboots = 1
  MaxFailures = 1
CHECK_DEADLOCK FALSE
PROPERTIES StaleClaimIsCleared
