SPECIFICATION Spec
CONSTANTS
  Turns = {1, 2, 3}
  SessionOf <- ByParity
  Hazards = {"crash", "persist", "boot_join", "aging", "ask", "unclaimed"}
  MaxOps = 2
  MaxFaults = 2
CHECK_DEADLOCK FALSE
INVARIANTS ClosureHasOwner
