CONSTANTS
  a = a
  b = b
  ka = ka
  ra = ra
  xb = xb
  Nodes = {a, b}
  Calls = {ka, ra, xb}
  NodeOf <- MCNodeOf
  KindsOf <- MCKindsOf
  Seats = {a}
  Legacy = {a}
  Declared = {b}
  Hazards = {"crash", "lost", "late"}
  MaxFaults = 1
  None = None
  Pending = Pending
  Refused = Refused
SPECIFICATION Spec
INVARIANTS RetirementIsAlone
CHECK_DEADLOCK FALSE
PROPERTIES NobodyIsOvertaken
