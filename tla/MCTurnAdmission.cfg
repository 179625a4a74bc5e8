SPECIFICATION Spec
CONSTANTS
  Turns = {1, 2, 3}
  SessionOf <- ByParity
  Hazards = {"crash", "persist", "executor", "drain_error", "boot_join", "aging", "ask", "unclaimed"}
  MaxOps = 2
  MaxFaults = 1
CHECK_DEADLOCK FALSE
INVARIANTS TypeOK FenceHolds DrainSeesSettledAdmissions
