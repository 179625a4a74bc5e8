CONSTANTS
    MaxEpoch = 2
    MaxTries = 2
    MaxFaults = 0
    Faults = {}
SPECIFICATION Spec
INVARIANT BridgeRuntimeIsLive
CHECK_DEADLOCK FALSE
