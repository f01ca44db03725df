SPECIFICATION LiveSpec
CONSTANTS
    MaxEpochs = 2
    KeepEpochs = 1
    MaxStFaults = 1
    ActKinds = {"CREATE", "EDIT", "CHECK", "SCAN", "REVIEW", "SCHEDULE", "LIFECYCLE", "PROTECT", "RESTORE", "UNDO", "CONTROL", "REGISTER", "TAKEOVER"}
    MaxKeys = 4
    MaxEdits = 2
    MaxActs = 2
    MaxCmFaults = 2
    MaxCloses = 1
    Lists = {"HISTORY", "CHANGES", "OPERATIONS", "JOBS", "GROUPS", "MEMBERS", "DETAIL", "PREVIEW", "REPORT", "MERGE"}
    PageLimit = 1
    MaxPending = 1
    MaxReportRows = 3
    MaxPgActs = 2
    MaxPgTrouble = 1
    MaxHosts = 2
    Seekers = {1, 2}
    Company <- MCCompany
    MaxBeats = 1
    MaxHsFaults = 1
    Clients = {"a", "b"}
    MaxAccepted = 1
    GlobalFrames = 2
    ClientFrames = 1
    Window = 1
    Idle = 2
    MaxClock = 2
    MaxFrames = 3
    MaxSsFaults = 1
INVARIANTS
    HostSound
    ReceiptTellsEffect
    OneHostWorks
PROPERTIES
    HostStepsAreSound
    HostSettles
CHECK_DEADLOCK FALSE
