CONSTANTS
    MaxEpoch = 2
    MaxTries = 1
    MaxFaults = 1
    Faults = {"call"}
SPECIFICATION Spec
INVARIANT AttachedHasClient
CHECK_DEADLOCK FALSE
