SPECIFICATION Spec
CONSTANTS
  Turns = {1, 2, 3}
  SessionOf <- ByParity
  Hazards = {"boot_join"}
  MaxOps = 2
  MaxFaults = 2
CHECK_DEADLOCK FALSE
INVARIANTS CleanStaysClean
