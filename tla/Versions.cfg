SPECIFICATION FairSpec
CONSTANTS
  Versions <- MCVersionSet
  Jobs = {"j1", "j2"}
  JobOf <- MCJobOf
  Restores = {1}
  MaxFaults = 2
  MaxEdits = 1
INVARIANTS
    VersionsSound
    RetainedHasBytes
    HeldIsRetained
    RollbackKept
PROPERTIES
    ReplacesAsJournaled
    RestoresSettle
CHECK_DEADLOCK FALSE
