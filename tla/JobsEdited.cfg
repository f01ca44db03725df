SPECIFICATION EditedSpec
CONSTANTS
    MaxCommands = 2
    MaxOccurrences = 1
    MaxGen = 3
    MaxTaskFaults = 0
    MaxCrashes = 0
    MaxRescans = 0
    MaxAnRevs = 1
    MaxAnEvents = 1
    MaxTries = 1
    MaxCacheRows = 0
    WorkBatch = 1
    MaxDuEvents = 0
INVARIANT EditedNeedsCheck
CHECK_DEADLOCK FALSE
