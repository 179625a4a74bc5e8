CONSTANTS
    MaxEpoch = 2
    MaxTries = 2
    MaxFaults = 1
    Faults = {"crash"}
SPECIFICATION Spec
INVARIANT ConvergedMeansHeld
CHECK_DEADLOCK FALSE
