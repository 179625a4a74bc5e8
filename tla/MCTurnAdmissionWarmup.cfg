SPECIFICATION Spec
CONSTANTS
  Turns = {1, 2}
  SessionOf <- ByParity
  Hazards = {"warmup_drain"}
  MaxOps = 2
  MaxFaults = 2
CHECK_DEADLOCK FALSE
INVARIANTS CleanStaysClean
