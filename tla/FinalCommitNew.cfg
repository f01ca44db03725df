\* A new file; the user may create one at the same path first.  Crashes and
\* no other interruption, so that the operation must reach the catalog.
CONSTANTS
    Precondition = "ABSENT"
    Edits = {"edit1", "edit2", "absent"}
    ReplaceMayRefuse = FALSE
    Faults = {}
    MaxCrashes = 2
    MaxFaults = 0
SPECIFICATION FairSpec
PROPERTIES
    AppliedReachesCatalog
CHECK_DEADLOCK FALSE
