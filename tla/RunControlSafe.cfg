SPECIFICATION LiveSpec
CONSTANTS
    NTargets = 2
    Ops <- MCOps
    TargetOf <- MCTargetOf
    Controls = {"PAUSE", "RESUME", "STOP"}
    Faults = {"CRASH", "OFFLINE", "DENIED", "STAGING", "DECISION"}
    MaxControls = 3
    MaxFaults = 2
    MaxStagingAttempts = 2
INVARIANTS
    PausedHoldsNoLease
    CompletedMeansCopied
    StoppedAtBoundary
PROPERTIES
    RunsMoveOn
CHECK_DEADLOCK FALSE
