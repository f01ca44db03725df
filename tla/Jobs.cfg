SPECIFICATION LiveSpec
CONSTANTS
    MaxCommands = 2
    MaxOccurrences = 1
    MaxGen = 3
    MaxTaskFaults = 2
    MaxCrashes = 1
    MaxRescans = 1
    MaxAnRevs = 2
    MaxAnEvents = 1
    MaxTries = 2
    MaxCacheRows = 4
    WorkBatch = 2
    MaxDuEvents = 1
INVARIANTS
    JobsSound
    InSyncIsRegistered
    ArchivedIsQuiet
    RunsCurrentContent
    NoChangesIsTrue
    SavingsLeaveACopy
PROPERTIES
    JobsSettle
CHECK_DEADLOCK FALSE
