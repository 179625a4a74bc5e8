SPECIFICATION Spec
CONSTANTS
  Procs = {p1, p2, p3}
  NoFile = NoFile
  Overlap = TRUE
  MaxCrashes = 1
  MaxReboots = 0
  MaxFailures = 0
CHECK_DEADLOCK FALSE
INVARIANTS OneServer
