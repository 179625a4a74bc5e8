CONSTANTS
    MaxEpoch = 2
    MaxTries = 2
    MaxFaults = 1
    Faults = {"drop"}
SPECIFICATION Spec
PROPERTY TerminatedIsFinal
CHECK_DEADLOCK FALSE
