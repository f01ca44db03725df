SPECIFICATION LiveSpec
CONSTANTS
    SgOps = {1, 2}
    MaxSeq = 2
    MaxSgLeases = 2
    MaxSgFaults = 2
    TfOps = {1, 2, 3}
    DirOps = {1}
    StagingAttempts = 2
    BatchLimit = 2
    MaxTrouble = 2
    DirKinds = {"CREATE", "QUARANTINE", "METADATA"}
    MaxDirEvents = 2
    MaxDirFaults = 2
    Inst = {1, 2}
    MaxRev = 2
    MaxTokens = 2
    MaxEpFaults = 2
    MaxRounds = 1
INVARIANTS
    TargetSound
    WriterOwnsMarker
    StartIsSafe
    VerifiedIsJournaled
PROPERTIES
    TargetNeverLoses
    TargetSettles
CHECK_DEADLOCK FALSE
