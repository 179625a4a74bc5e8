CONSTANTS
    MaxEpoch = 2
    MaxTries = 2
    MaxFaults = 1
    Faults = {"crash", "drop", "call", "probe", "hosting"}
SPECIFICATION Spec
INVARIANTS OneLiveBinding
PROPERTIES BindingsMoveOn
CHECK_DEADLOCK FALSE
