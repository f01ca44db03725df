\* ReplaceFileW may refuse, so that MoveFileEx replaces the file; one crash
\* and one fault of any kind.
CONSTANTS
    Precondition = "MATCH_FINGERPRINT"
    Edits = {"edit1", "absent"}
    ReplaceMayRefuse = TRUE
    Faults = {"PAUSE", "STOP", "CAPACITY", "DATABASE_ERROR"}
    MaxCrashes = 1
    MaxFaults = 1
SPECIFICATION FairSpec
INVARIANTS JournalAhead AppliedMeansInstalled StoresAgree
PROPERTIES PreservedCarriedOn
CHECK_DEADLOCK FALSE
