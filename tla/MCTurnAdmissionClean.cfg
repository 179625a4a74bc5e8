SPECIFICATION FairSpec
CONSTANTS
  Turns = {1, 2, 3}
  SessionOf <- ByParity
  Hazards = {"crash", "persist"}
  MaxOps = 2
  MaxFaults = 2
CHECK_DEADLOCK FALSE
INVARIANTS CleanStaysClean
PROPERTIES EveryClosureEnds
