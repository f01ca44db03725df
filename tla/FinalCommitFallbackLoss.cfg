\* The MoveFileEx fallback against a concurrent edit.
CONSTANTS
    Precondition = "MATCH_FINGERPRINT"
    Edits = {"edit1", "absent"}
    ReplaceMayRefuse = TRUE
    Faults = {}
    MaxCrashes = 0
    MaxFaults = 0
SPECIFICATION Spec
INVARIANT UserBytesKept
CHECK_DEADLOCK FALSE
