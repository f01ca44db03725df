\* A file is replaced; ReplaceFileW either works or damages; one crash, one
\* fault and two user edits at any step.
CONSTANTS
    Precondition = "MATCH_FINGERPRINT"
    Edits = {"edit1", "edit2", "absent"}
    ReplaceMayRefuse = FALSE
    Faults = {"PAUSE", "STOP", "CAPACITY", "DATABASE_ERROR"}
    MaxCrashes = 1
    MaxFaults = 1
SPECIFICATION Spec
INVARIANTS
    UserBytesKept
PROPERTIES
    JournalFollowsProtocol
    KeepsPromise
CHECK_DEADLOCK FALSE
