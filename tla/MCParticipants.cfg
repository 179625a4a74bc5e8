CONSTANTS
    MaxEpoch = 2
    MaxTries = 2
    MaxFaults = 1
    Faults = {"crash", "drop", "call", "probe", "hosting"}
SPECIFICATION FairSpec
INVARIANTS TypeOK SoleWriter CompletedMeansActive
PROPERTIES TerminatedStaysTerminated AttemptIsNeverReborn OperationEnds DeadHostIsSettled
CHECK_DEADLOCK FALSE
