CONSTANTS
  a = a
  b = b
  ka = ka
  ra = ra
  xb = xb
  Nodes = {a, b}
  Calls = {ka, ra, xb}
  NodeOf <- MCNodeOf
  KindsOf <- MCKindsTeardown
  Seats = {a}
  Legacy = {a}
  Declared = {}
  Hazards = {"crash", "lost", "late"}
  MaxFaults = 1
  None = None
  Pending = Pending
  Refused = Refused
SPECIFICATION Spec
PROPERTIES TeardownSparesTheHome
CHECK_DEADLOCK FALSE
