-------------------------- MODULE FinalCommitProofs --------------------------
(***************************************************************************)
(* Proofs about FinalCommit, for every set of edits, every set of faults   *)
(* and every bound on crashes and faults.                                  *)
(***************************************************************************)
EXTENDS FinalCommit, TLAPS

USE DEF Old, New, Absent, Tokens

\* The phases this part of the protocol moves through.
HerePhases == {"COMMIT_INTENT_RECORDED", "COMMIT_PRECONDITIONS_REVALIDATED",
               "OLD_TARGET_PRESERVED", "FAILED_RETRYABLE",
               "USER_DECISION_REQUIRED"} \cup AppliedPhases

\* What the executor may rely on at each of its steps: the phase it will
\* compare with, and evidence that no other actor can take away.
ExecutorKnows ==
    /\ seen \in HerePhases
    /\ pc = "PRECONDITIONS" => seen = "COMMIT_INTENT_RECORDED"
    /\ pc \in {"PRESERVE", "COPY", "MANIFEST", "PRESERVED", "LINK"}
         => /\ seen = "COMMIT_PRECONDITIONS_REVALIDATED"
            /\ phase # "COMMIT_INTENT_RECORDED"
    /\ pc = "LINK" => Precondition = "ABSENT"
    /\ pc \in {"MANIFEST", "PRESERVED"} => version = Old
    /\ pc = "PRESERVED" => manifest
    /\ pc \in {"APPLY", "REPLACE", "REPLACED", "REFUSED", "FALLBACK", "INSERT"}
         => /\ seen = "OLD_TARGET_PRESERVED"
            /\ phase \notin {"COMMIT_INTENT_RECORDED",
                             "COMMIT_PRECONDITIONS_REVALIDATED"}
            /\ version = Old /\ manifest
    /\ pc \in {"FLUSH", "APPLIED", "FAIL"}
         => seen \in {"COMMIT_PRECONDITIONS_REVALIDATED", "OLD_TARGET_PRESERVED"}
    /\ pc \in {"FLUSH", "APPLIED", "DURABLE", "VERIFIED"} => installed
    /\ pc = "DURABLE" => seen = "FILESYSTEM_APPLIED"
    /\ pc = "VERIFIED" => seen = "FINAL_DURABLE"
    /\ pc = "RECORD" => seen = "FINAL_VERIFIED" /\ handoff
    /\ pc = "CLEANED" => seen = "CATALOG_RECORDED"

\* What a startup resume may rely on.
ResumeKnows ==
    /\ rpc \in {"VERIFY", "JOURNAL"} => rseen \in ResumePhases
    /\ rpc = "JOURNAL" => installed
    /\ rpc = "RECORD" => handoff

\* How the three stores stand to one another.
Evidence ==
    /\ phase \in HerePhases
    /\ phase = "OLD_TARGET_PRESERVED" => version = Old /\ manifest
    /\ version \in {Absent, Old}
    /\ final = New => installed
    /\ phase \in {"CATALOG_RECORDED", "CLEANED"} => handoff
    /\ JournalAhead
    /\ AppliedMeansInstalled
    /\ StoresAgree

\* The inductive invariant of the journal, the catalog and the filesystem.
IInv == TypeOK /\ ExecutorKnows /\ ResumeKnows /\ Evidence

\* Without a ReplaceFileW that refuses, the MoveFileEx fallback is never
\* reached, and nothing displaces a content that is not kept.
NoFallback ==
    /\ pc # "FALLBACK"
    /\ pc = "REFUSED" => final # Old

UserInv == NoFallback /\ UserBytesKept
-----------------------------------------------------------------------------
USE DEF vars, journal, catalog, files, executor, resume, user, budget

\* Every step keeps the variables in their types.
LEMMA TypeStep ==
    ASSUME IInv, [Next]_vars
    PROVE  TypeOK'
<1> USE DEF Slot, Contents, Phases, PreCommitPhases, CommitPhases,
        TerminalPhases, ExecutorSteps, JournalSteps, ResumeSteps, TargetStates,
        ResumePhases, TypeOK
<1>0. TypeOK BY DEF IInv
<1>1. CASE AcquireLease
    BY <1>0, <1>1 DEF AcquireLease, At
<1>2. CASE RecordTargetLease
    BY <1>0, <1>2 DEF RecordTargetLease, At
<1>3. CASE RefreshCommitIntent
    BY <1>0, <1>3 DEF RefreshCommitIntent, Ready, At
<1>4. CASE PreserveOldTarget
    BY <1>0, <1>4 DEF PreserveOldTarget, Goto, Raise, FilesystemStep, At
<1>5. CASE PreserveVersionPayload
    BY <1>0, <1>5 DEF PreserveVersionPayload, Goto, Raise, FilesystemStep, At
<1>6. CASE WriteVersionManifest
    <2>1. manifest' \in BOOLEAN
        BY <1>0, <1>6, Zenon DEF WriteVersionManifest
    <2> QED
        BY <1>0, <1>6, <2>1 DEF WriteVersionManifest, Goto, Raise,
          FilesystemStep, At
<1>7. CASE CheckFinalTarget
    BY <1>0, <1>7 DEF CheckFinalTarget, Goto, Raise, FilesystemStep, At
<1>8. CASE ReplaceFileW
    <2>1. installed' \in BOOLEAN
        BY <1>0, <1>8, Zenon DEF ReplaceFileW, Goto, Install, FilesystemStep, At
    <2> QED
        BY <1>0, <1>8, <2>1 DEF ReplaceFileW, Goto, Install, FilesystemStep, At
<1>9. CASE CheckReplaced
    BY <1>0, <1>9 DEF CheckReplaced, Replaced, Goto, Raise, DropBackup, FilesystemStep, At
<1>10. CASE CheckRefused
    BY <1>0, <1>10 DEF CheckRefused, Replaced, Untouched, Goto, Raise, DropBackup, FilesystemStep, At
<1>11. CASE MoveReplacingExisting
    <2>1. installed' \in BOOLEAN
        BY <1>0, <1>11, Zenon DEF MoveReplacingExisting, Goto, Raise, Install, FilesystemStep, At
    <2> QED
        BY <1>0, <1>11, <2>1 DEF MoveReplacingExisting, Goto, Raise, Install, FilesystemStep, At
<1>12. CASE InsertReplacementPayload
    <2>1. installed' \in BOOLEAN
        BY <1>0, <1>12, Zenon DEF InsertReplacementPayload, MoveWithoutOverwrite, Goto, Raise, Install, FilesystemStep, At
    <2> QED
        BY <1>0, <1>12, <2>1 DEF InsertReplacementPayload, MoveWithoutOverwrite, Goto, Raise, Install, FilesystemStep, At
<1>13. CASE LinkLocalPayload
    <2>1. installed' \in BOOLEAN
        BY <1>0, <1>13, Zenon DEF LinkLocalPayload, MoveWithoutOverwrite, Goto, Raise, Install, FilesystemStep, At
    <2> QED
        BY <1>0, <1>13, <2>1 DEF LinkLocalPayload, MoveWithoutOverwrite, Goto, Raise, Install, FilesystemStep, At
<1>14. CASE FlushCommittedFile
    BY <1>0, <1>14 DEF FlushCommittedFile, Goto, Raise, FilesystemStep, At
<1>15. CASE RecordPreconditions
    BY <1>0, <1>15 DEF RecordPreconditions, JournalWrite, At
<1>16. CASE RecordPreserved
    BY <1>0, <1>16 DEF RecordPreserved, JournalWrite, At
<1>17. CASE RecordApplied
    BY <1>0, <1>17 DEF RecordApplied, JournalWrite, At
<1>18. CASE RecordDurable
    BY <1>0, <1>18 DEF RecordDurable, JournalWrite, At
<1>19. CASE RecordVerified
    BY <1>0, <1>19 DEF RecordVerified, JournalWrite, At
<1>20. CASE RecordFailure
    BY <1>0, <1>20 DEF RecordFailure, FailurePhase, JournalWrite, At
<1>21. CASE RecordCataloged
    BY <1>0, <1>21 DEF RecordCataloged, JournalWrite, At
<1>22. CASE RecordCleaned
    BY <1>0, <1>22 DEF RecordCleaned, JournalWrite, At
<1>23. CASE BeginCommit
    BY <1>0, <1>23 DEF BeginCommit, Ready, At
<1>24. CASE RecordCatalogHandoff
    BY <1>0, <1>24 DEF RecordCatalogHandoff, Ready, At
<1>25. CASE CleanupStagingObject
    <2>1. staged' \in BOOLEAN
        BY <1>0, <1>25, Zenon DEF CleanupStagingObject, Ready, At
    <2> QED
        BY <1>0, <1>25, <2>1 DEF CleanupStagingObject, Ready, At
<1>26. CASE CompleteTarget
    BY <1>0, <1>26 DEF CompleteTarget, Ready, At
<1>27. CASE ReleaseFinishedTarget
    BY <1>0, <1>27 DEF ReleaseFinishedTarget, At
<1>28. CASE ResumeFinalVerification
    BY <1>0, <1>28 DEF ResumeFinalVerification, ResumeAt, TargetBound
<1>29. CASE VerifyFinalArtifact
    BY <1>0, <1>29 DEF VerifyFinalArtifact, ResumeAt
<1>30. CASE TransitionToFinalVerified
    <2>1. rpc = "JOURNAL" /\ rseen \in ResumePhases
        BY <1>30 DEF TransitionToFinalVerified, ResumeAt, IInv, ResumeKnows
    <2>2. ResumeNext[rseen] \in Phases
        BY <2>1 DEF ResumeNext
    <2> QED
        BY <1>0, <1>30, <2>2 DEF TransitionToFinalVerified
<1>31. CASE ResumeCatalogHandoffScan
    BY <1>0, <1>31 DEF ResumeCatalogHandoffScan, ResumeAt, TargetBound
<1>32. CASE ResumeCatalogHandoff
    <2>1. handoff' \in BOOLEAN
        BY <1>0, <1>32, Zenon DEF ResumeCatalogHandoff, ResumeAt
    <2> QED
        BY <1>0, <1>32, <2>1 DEF ResumeCatalogHandoff, ResumeAt
<1>33. CASE ResumeRecordCataloged
    BY <1>0, <1>33 DEF ResumeRecordCataloged, ResumeAt
<1>34. CASE ResumeCatalogRecordedTarget
    BY <1>0, <1>34 DEF ResumeCatalogRecordedTarget, ResumeAt, TargetBound
<1>35. CASE Crash
    BY <1>0, <1>35, BoundsAssumption DEF Crash, ProcessGone
<1>36. CASE StopHost
    BY <1>0, <1>36, BoundsAssumption DEF StopHost, ReleaseAll, Fault, At
<1>37. CASE CapacityBlock
    BY <1>0, <1>37, BoundsAssumption DEF CapacityBlock, ReleaseAll, Fault
<1>38. CASE JournalError
    BY <1>0, <1>38, BoundsAssumption DEF JournalError, Fault
<1>39. CASE PauseRun
    BY <1>0, <1>39, BoundsAssumption DEF PauseRun, ReleaseAll, Fault, At
<1>40. CASE UserStep
    BY <1>0, <1>40 DEF UserStep
<1>41. CASE StartHost
    BY <1>0, <1>41 DEF StartHost
<1>42. CASE BuildMaintenanceRuntime
    <2>1. unbuilt' \in 0 .. 2
        BY <1>0, <1>42 DEF BuildMaintenanceRuntime
    <2> QED
        BY <1>0, <1>42, <2>1 DEF BuildMaintenanceRuntime
<1>43. CASE ResumeRun
    BY <1>0, <1>43 DEF ResumeRun
<1>44. CASE UNCHANGED vars
    BY <1>0, <1>44
<1> QED
    BY <1>0, <1>1, <1>2, <1>3, <1>4, <1>5, <1>6, <1>7, <1>8, <1>9, <1>10, <1>11,
      <1>12, <1>13, <1>14, <1>15, <1>16, <1>17, <1>18, <1>19, <1>20, <1>21,
      <1>22, <1>23, <1>24, <1>25, <1>26, <1>27, <1>28, <1>29, <1>30, <1>31,
      <1>32, <1>33, <1>34, <1>35, <1>36, <1>37, <1>38, <1>39, <1>40, <1>41,
      <1>42, <1>43, <1>44 DEF Next, ExecutorStep, LeaseStep, PreserveStep,
      ApplyStep, RecordStep, CycleStep, ResumeStep, FaultStep

\* Every step keeps what the actors know and how the stores stand.
LEMMA KnowledgeStep ==
    ASSUME IInv, [Next]_vars
    PROVE  ExecutorKnows' /\ ResumeKnows' /\ Evidence'
<1> USE DEF IInv, TypeOK, ExecutorKnows, ResumeKnows, Evidence, JournalAhead,
        AppliedMeansInstalled, StoresAgree, HerePhases, AppliedPhases,
        ResumePhases
<1>1. CASE AcquireLease
    BY <1>1 DEF AcquireLease, At
<1>2. CASE RecordTargetLease
    BY <1>2 DEF RecordTargetLease, At
<1>3. CASE RefreshCommitIntent
    BY <1>3 DEF RefreshCommitIntent, Ready, At
<1>4. CASE PreserveOldTarget
    BY <1>4 DEF PreserveOldTarget, Goto, Raise, FilesystemStep, At
<1>5. CASE PreserveVersionPayload
    BY <1>5 DEF PreserveVersionPayload, Goto, Raise, FilesystemStep, At
<1>6. CASE WriteVersionManifest
    BY <1>6 DEF WriteVersionManifest, Goto, Raise, FilesystemStep, At
<1>7. CASE CheckFinalTarget
    BY <1>7 DEF CheckFinalTarget, Goto, Raise, FilesystemStep, At
<1>8. CASE ReplaceFileW
    BY <1>8 DEF ReplaceFileW, Goto, Install, FilesystemStep, At
<1>9. CASE CheckReplaced
    BY <1>9 DEF CheckReplaced, Replaced, Goto, Raise, DropBackup, FilesystemStep, At
<1>10. CASE CheckRefused
    BY <1>10 DEF CheckRefused, Replaced, Untouched, Goto, Raise, DropBackup, FilesystemStep, At
<1>11. CASE MoveReplacingExisting
    BY <1>11 DEF MoveReplacingExisting, Goto, Raise, Install,
      FilesystemStep, At
<1>12. CASE InsertReplacementPayload
    BY <1>12 DEF InsertReplacementPayload, MoveWithoutOverwrite, Goto,
      Raise, Install, FilesystemStep, At
<1>13. CASE LinkLocalPayload
    BY <1>13 DEF LinkLocalPayload, MoveWithoutOverwrite, Goto, Raise,
      Install, FilesystemStep, At
<1>14. CASE FlushCommittedFile
    BY <1>14 DEF FlushCommittedFile, Goto, Raise, FilesystemStep, At
<1>15. CASE RecordPreconditions
    BY <1>15, PreconditionAssumption DEF RecordPreconditions, JournalWrite,
      At
<1>16. CASE RecordPreserved
    BY <1>16 DEF RecordPreserved, JournalWrite, At
<1>17. CASE RecordApplied
    BY <1>17 DEF RecordApplied, JournalWrite, At
<1>18. CASE RecordDurable
    BY <1>18 DEF RecordDurable, JournalWrite, At
<1>19. CASE RecordVerified
    BY <1>19 DEF RecordVerified, JournalWrite, At
<1>20. CASE RecordFailure
    BY <1>20 DEF RecordFailure, FailurePhase, JournalWrite, At
<1>21. CASE RecordCataloged
    BY <1>21 DEF RecordCataloged, JournalWrite, At
<1>22. CASE RecordCleaned
    BY <1>22 DEF RecordCleaned, JournalWrite, At
<1>23. CASE BeginCommit
    BY <1>23 DEF BeginCommit, Ready, At
<1>24. CASE RecordCatalogHandoff
    BY <1>24 DEF RecordCatalogHandoff, Ready, At
<1>25. CASE CleanupStagingObject
    BY <1>25 DEF CleanupStagingObject, Ready, At
<1>26. CASE CompleteTarget
    BY <1>26 DEF CompleteTarget, Ready, At
<1>27. CASE ReleaseFinishedTarget
    BY <1>27 DEF ReleaseFinishedTarget, At
<1>28. CASE ResumeFinalVerification
    BY <1>28 DEF ResumeFinalVerification, ResumeAt, TargetBound
<1>29. CASE VerifyFinalArtifact
    BY <1>29 DEF VerifyFinalArtifact, ResumeAt
<1>30. CASE TransitionToFinalVerified
    BY <1>30 DEF TransitionToFinalVerified, ResumeNext, ResumeAt
<1>31. CASE ResumeCatalogHandoffScan
    BY <1>31 DEF ResumeCatalogHandoffScan, ResumeAt, TargetBound
<1>32. CASE ResumeCatalogHandoff
    BY <1>32 DEF ResumeCatalogHandoff, ResumeAt
<1>33. CASE ResumeRecordCataloged
    BY <1>33 DEF ResumeRecordCataloged, ResumeAt
<1>34. CASE ResumeCatalogRecordedTarget
    BY <1>34 DEF ResumeCatalogRecordedTarget, ResumeAt, TargetBound
<1>35. CASE Crash
    BY <1>35 DEF Crash, ProcessGone
<1>36. CASE StopHost
    BY <1>36 DEF StopHost, ReleaseAll, Fault, At
<1>37. CASE CapacityBlock
    BY <1>37 DEF CapacityBlock, ReleaseAll, Fault, JournalSteps
<1>38. CASE JournalError
    BY <1>38 DEF JournalError, Fault, JournalSteps
<1>39. CASE PauseRun
    BY <1>39 DEF PauseRun, ReleaseAll, Fault, At
<1>40. CASE UserStep
    BY <1>40, EditsAssumption DEF UserStep
<1>41. CASE StartHost
    BY <1>41 DEF StartHost
<1>42. CASE BuildMaintenanceRuntime
    BY <1>42 DEF BuildMaintenanceRuntime
<1>43. CASE ResumeRun
    BY <1>43 DEF ResumeRun
<1>44. CASE UNCHANGED vars
    BY <1>44
<1> QED
    BY <1>1, <1>2, <1>3, <1>4, <1>5, <1>6, <1>7, <1>8, <1>9, <1>10, <1>11,
      <1>12, <1>13, <1>14, <1>15, <1>16, <1>17, <1>18, <1>19, <1>20, <1>21,
      <1>22, <1>23, <1>24, <1>25, <1>26, <1>27, <1>28, <1>29, <1>30, <1>31,
      <1>32, <1>33, <1>34, <1>35, <1>36, <1>37, <1>38, <1>39, <1>40, <1>41,
      <1>42, <1>43, <1>44 DEF Next, ExecutorStep, LeaseStep, PreserveStep,
      ApplyStep, RecordStep, CycleStep, ResumeStep, FaultStep

\* The initial state satisfies the invariant.
LEMMA InitInv == Init => IInv
<1> SUFFICES ASSUME Init PROVE IInv
    OBVIOUS
<1>1. TypeOK
    <2>1. /\ handoff \in BOOLEAN /\ manifest \in BOOLEAN /\ staged \in BOOLEAN
          /\ installed \in BOOLEAN
        BY Zenon DEF Init
    <2>2. 0 \in 0 .. MaxCrashes /\ 0 \in 0 .. MaxFaults
        BY BoundsAssumption
    <2>3. final \in Slot
        BY DEF Init, Slot
    <2> QED
        BY <2>1, <2>2, <2>3 DEF Init, TypeOK, Slot, Phases, CommitPhases,
          ExecutorSteps, ResumeSteps, TargetStates
<1>2. ExecutorKnows /\ ResumeKnows /\ Evidence
    BY PreconditionAssumption DEF Init, ExecutorKnows, ResumeKnows, Evidence,
      HerePhases, AppliedPhases, JournalAhead, AppliedMeansInstalled, StoresAgree
<1> QED
    BY <1>1, <1>2 DEF IInv

\* The invariant holds in every reachable state.
THEOREM Invariance == Spec => []IInv
<1>1. IInv /\ [Next]_vars => IInv'
    BY TypeStep, KnowledgeStep DEF IInv
<1> QED
    BY InitInv, <1>1, PTL DEF Spec

\* Every variable keeps its type.
THEOREM TypeCorrect == Spec => []TypeOK
<1>1. IInv => TypeOK
    BY DEF IInv
<1> QED
    BY Invariance, <1>1, PTL

\* No artifact reaches the final path before the journal record and the
\* version object that make its installation recoverable.
THEOREM JournalIsAhead == Spec => []JournalAhead
<1>1. IInv => JournalAhead
    BY DEF IInv, Evidence
<1> QED
    BY Invariance, <1>1, PTL

\* No actor journals an effect that did not happen.
THEOREM NoFalseClaim == Spec => []AppliedMeansInstalled
<1>1. IInv => AppliedMeansInstalled
    BY DEF IInv, Evidence
<1> QED
    BY Invariance, <1>1, PTL

\* Journal, catalog and staging agree about success in every state.
THEOREM StoresAlwaysAgree == Spec => []StoresAgree
<1>1. IInv => StoresAgree
    BY DEF IInv, Evidence
<1> QED
    BY Invariance, <1>1, PTL

\* A step of either writer of the journal is an allowed transition.
LEMMA ProtocolStep ==
    ASSUME IInv, [Next]_vars
    PROVE  phase' # phase => PhaseTransitionAllowed(phase, phase')
<1> USE DEF IInv, ExecutorKnows, ResumeKnows, HerePhases, AppliedPhases,
        ResumePhases, PhaseTransitionAllowed, TerminalPhases, SuccessTransitions
<1>1. CASE AcquireLease
    BY <1>1 DEF AcquireLease, At
<1>2. CASE RecordTargetLease
    BY <1>2 DEF RecordTargetLease, At
<1>3. CASE RefreshCommitIntent
    BY <1>3 DEF RefreshCommitIntent, Ready, At
<1>4. CASE PreserveOldTarget
    BY <1>4 DEF PreserveOldTarget, Goto, Raise, FilesystemStep, At
<1>5. CASE PreserveVersionPayload
    BY <1>5 DEF PreserveVersionPayload, Goto, Raise, FilesystemStep, At
<1>6. CASE WriteVersionManifest
    BY <1>6 DEF WriteVersionManifest, Goto, Raise, FilesystemStep, At
<1>7. CASE CheckFinalTarget
    BY <1>7 DEF CheckFinalTarget, Goto, Raise, FilesystemStep, At
<1>8. CASE ReplaceFileW
    BY <1>8 DEF ReplaceFileW, Goto, Install, FilesystemStep, At
<1>9. CASE CheckReplaced
    BY <1>9 DEF CheckReplaced, Replaced, Goto, Raise, DropBackup,
      FilesystemStep, At
<1>10. CASE CheckRefused
    BY <1>10 DEF CheckRefused, Replaced, Untouched, Goto, Raise, DropBackup,
      FilesystemStep, At
<1>11. CASE MoveReplacingExisting
    BY <1>11 DEF MoveReplacingExisting, Goto, Raise, Install, FilesystemStep,
      At
<1>12. CASE InsertReplacementPayload
    BY <1>12 DEF InsertReplacementPayload, MoveWithoutOverwrite, Goto, Raise,
      Install, FilesystemStep, At
<1>13. CASE LinkLocalPayload
    BY <1>13 DEF LinkLocalPayload, MoveWithoutOverwrite, Goto, Raise, Install,
      FilesystemStep, At
<1>14. CASE FlushCommittedFile
    BY <1>14 DEF FlushCommittedFile, Goto, Raise, FilesystemStep, At
<1>15. CASE RecordPreconditions
    BY <1>15, PreconditionAssumption DEF RecordPreconditions, JournalWrite, At
<1>16. CASE RecordPreserved
    BY <1>16 DEF RecordPreserved, JournalWrite, At
<1>17. CASE RecordApplied
    BY <1>17 DEF RecordApplied, JournalWrite, At
<1>18. CASE RecordDurable
    BY <1>18 DEF RecordDurable, JournalWrite, At
<1>19. CASE RecordVerified
    BY <1>19 DEF RecordVerified, JournalWrite, At
<1>20. CASE RecordFailure
    BY <1>20 DEF RecordFailure, FailurePhase, JournalWrite, At
<1>21. CASE RecordCataloged
    BY <1>21 DEF RecordCataloged, JournalWrite, At
<1>22. CASE RecordCleaned
    BY <1>22 DEF RecordCleaned, JournalWrite, At
<1>23. CASE BeginCommit
    BY <1>23 DEF BeginCommit, Ready, At
<1>24. CASE RecordCatalogHandoff
    BY <1>24 DEF RecordCatalogHandoff, Ready, At
<1>25. CASE CleanupStagingObject
    BY <1>25 DEF CleanupStagingObject, Ready, At
<1>26. CASE CompleteTarget
    BY <1>26 DEF CompleteTarget, Ready, At
<1>27. CASE ReleaseFinishedTarget
    BY <1>27 DEF ReleaseFinishedTarget, At
<1>28. CASE ResumeFinalVerification
    BY <1>28 DEF ResumeFinalVerification, ResumeAt, TargetBound
<1>29. CASE VerifyFinalArtifact
    BY <1>29 DEF VerifyFinalArtifact, ResumeAt
<1>30. CASE TransitionToFinalVerified
    BY <1>30 DEF TransitionToFinalVerified, ResumeNext, ResumeAt
<1>31. CASE ResumeCatalogHandoffScan
    BY <1>31 DEF ResumeCatalogHandoffScan, ResumeAt, TargetBound
<1>32. CASE ResumeCatalogHandoff
    BY <1>32 DEF ResumeCatalogHandoff, ResumeAt
<1>33. CASE ResumeRecordCataloged
    BY <1>33 DEF ResumeRecordCataloged, ResumeAt
<1>34. CASE ResumeCatalogRecordedTarget
    BY <1>34 DEF ResumeCatalogRecordedTarget, ResumeAt, TargetBound
<1>35. CASE Crash
    BY <1>35 DEF Crash, ProcessGone
<1>36. CASE StopHost
    BY <1>36 DEF StopHost, ReleaseAll, Fault, At
<1>37. CASE CapacityBlock
    BY <1>37 DEF CapacityBlock, ReleaseAll, Fault, JournalSteps
<1>38. CASE JournalError
    BY <1>38 DEF JournalError, Fault, JournalSteps
<1>39. CASE PauseRun
    BY <1>39 DEF PauseRun, ReleaseAll, Fault, At
<1>40. CASE UserStep
    BY <1>40, EditsAssumption DEF UserStep
<1>41. CASE StartHost
    BY <1>41 DEF StartHost
<1>42. CASE BuildMaintenanceRuntime
    BY <1>42 DEF BuildMaintenanceRuntime
<1>43. CASE ResumeRun
    BY <1>43 DEF ResumeRun
<1>44. CASE UNCHANGED vars
    BY <1>44
<1> QED
    BY <1>1, <1>2, <1>3, <1>4, <1>5, <1>6, <1>7, <1>8, <1>9, <1>10, <1>11,
      <1>12, <1>13, <1>14, <1>15, <1>16, <1>17, <1>18, <1>19, <1>20, <1>21,
      <1>22, <1>23, <1>24, <1>25, <1>26, <1>27, <1>28, <1>29, <1>30, <1>31,
      <1>32, <1>33, <1>34, <1>35, <1>36, <1>37, <1>38, <1>39, <1>40, <1>41,
      <1>42, <1>43, <1>44 DEF Next, ExecutorStep, LeaseStep, PreserveStep,
      ApplyStep, RecordStep, CycleStep, ResumeStep, FaultStep

\* Executor and startup resume, however they interleave, move the journal
\* only along allowed transitions.
THEOREM ProtocolFollowed == Spec => JournalFollowsProtocol
<1>1. IInv /\ [Next]_vars => [phase' # phase => PhaseTransitionAllowed(phase, phase')]_vars
    BY ProtocolStep
<1> QED
    BY Invariance, <1>1, PTL DEF Spec, JournalFollowsProtocol

\* When ReplaceFileW never refuses, a step destroys nothing the user left.
LEMMA UserInvStep ==
    ASSUME IInv, UserInv, ~ReplaceMayRefuse, [Next]_vars
    PROVE  UserInv'
<1> USE DEF IInv, TypeOK, Slot, Contents, ExecutorKnows, Evidence, UserInv,
        NoFallback, UserBytesKept, Kept
<1>1. CASE AcquireLease
    BY <1>1 DEF AcquireLease, At
<1>2. CASE RecordTargetLease
    BY <1>2 DEF RecordTargetLease, At
<1>3. CASE RefreshCommitIntent
    BY <1>3 DEF RefreshCommitIntent, Ready, At
<1>4. CASE PreserveOldTarget
    BY <1>4 DEF PreserveOldTarget, Goto, Raise, FilesystemStep, At
<1>5. CASE PreserveVersionPayload
    BY <1>5 DEF PreserveVersionPayload, Goto, Raise, FilesystemStep, At
<1>6. CASE WriteVersionManifest
    BY <1>6 DEF WriteVersionManifest, Goto, Raise, FilesystemStep, At
<1>7. CASE CheckFinalTarget
    BY <1>7 DEF CheckFinalTarget, Goto, Raise, FilesystemStep, At
<1>8. CASE ReplaceFileW
    BY <1>8 DEF ReplaceFileW, Goto, Install, FilesystemStep, At
<1>9. CASE CheckReplaced
    BY <1>9 DEF CheckReplaced, Replaced, Goto, Raise, DropBackup,
      FilesystemStep, At
<1>10. CASE CheckRefused
    BY <1>10 DEF CheckRefused, Replaced, Untouched, Goto, Raise, DropBackup,
      FilesystemStep, At
<1>11. CASE MoveReplacingExisting
    BY <1>11 DEF MoveReplacingExisting, Goto, Raise, Install, FilesystemStep,
      At
<1>12. CASE InsertReplacementPayload
    BY <1>12 DEF InsertReplacementPayload, MoveWithoutOverwrite, Goto, Raise,
      Install, FilesystemStep, At
<1>13. CASE LinkLocalPayload
    BY <1>13 DEF LinkLocalPayload, MoveWithoutOverwrite, Goto, Raise, Install,
      FilesystemStep, At
<1>14. CASE FlushCommittedFile
    BY <1>14 DEF FlushCommittedFile, Goto, Raise, FilesystemStep, At
<1>15. CASE RecordPreconditions
    BY <1>15, PreconditionAssumption DEF RecordPreconditions, JournalWrite, At
<1>16. CASE RecordPreserved
    BY <1>16 DEF RecordPreserved, JournalWrite, At
<1>17. CASE RecordApplied
    BY <1>17 DEF RecordApplied, JournalWrite, At
<1>18. CASE RecordDurable
    BY <1>18 DEF RecordDurable, JournalWrite, At
<1>19. CASE RecordVerified
    BY <1>19 DEF RecordVerified, JournalWrite, At
<1>20. CASE RecordFailure
    BY <1>20 DEF RecordFailure, FailurePhase, JournalWrite, At
<1>21. CASE RecordCataloged
    BY <1>21 DEF RecordCataloged, JournalWrite, At
<1>22. CASE RecordCleaned
    BY <1>22 DEF RecordCleaned, JournalWrite, At
<1>23. CASE BeginCommit
    BY <1>23 DEF BeginCommit, Ready, At
<1>24. CASE RecordCatalogHandoff
    BY <1>24 DEF RecordCatalogHandoff, Ready, At
<1>25. CASE CleanupStagingObject
    BY <1>25 DEF CleanupStagingObject, Ready, At
<1>26. CASE CompleteTarget
    BY <1>26 DEF CompleteTarget, Ready, At
<1>27. CASE ReleaseFinishedTarget
    BY <1>27 DEF ReleaseFinishedTarget, At
<1>28. CASE ResumeFinalVerification
    BY <1>28 DEF ResumeFinalVerification, ResumeAt, TargetBound
<1>29. CASE VerifyFinalArtifact
    BY <1>29 DEF VerifyFinalArtifact, ResumeAt
<1>30. CASE TransitionToFinalVerified
    BY <1>30 DEF TransitionToFinalVerified, ResumeNext, ResumeAt
<1>31. CASE ResumeCatalogHandoffScan
    BY <1>31 DEF ResumeCatalogHandoffScan, ResumeAt, TargetBound
<1>32. CASE ResumeCatalogHandoff
    BY <1>32 DEF ResumeCatalogHandoff, ResumeAt
<1>33. CASE ResumeRecordCataloged
    BY <1>33 DEF ResumeRecordCataloged, ResumeAt
<1>34. CASE ResumeCatalogRecordedTarget
    BY <1>34 DEF ResumeCatalogRecordedTarget, ResumeAt, TargetBound
<1>35. CASE Crash
    BY <1>35 DEF Crash, ProcessGone
<1>36. CASE StopHost
    BY <1>36 DEF StopHost, ReleaseAll, Fault, At
<1>37. CASE CapacityBlock
    BY <1>37 DEF CapacityBlock, ReleaseAll, Fault, JournalSteps
<1>38. CASE JournalError
    BY <1>38 DEF JournalError, Fault, JournalSteps
<1>39. CASE PauseRun
    BY <1>39 DEF PauseRun, ReleaseAll, Fault, At
<1>40. CASE UserStep
    BY <1>40, EditsAssumption DEF UserStep
<1>41. CASE StartHost
    BY <1>41 DEF StartHost
<1>42. CASE BuildMaintenanceRuntime
    BY <1>42 DEF BuildMaintenanceRuntime
<1>43. CASE ResumeRun
    BY <1>43 DEF ResumeRun
<1>44. CASE UNCHANGED vars
    BY <1>44
<1> QED
    BY <1>1, <1>2, <1>3, <1>4, <1>5, <1>6, <1>7, <1>8, <1>9, <1>10, <1>11,
      <1>12, <1>13, <1>14, <1>15, <1>16, <1>17, <1>18, <1>19, <1>20, <1>21,
      <1>22, <1>23, <1>24, <1>25, <1>26, <1>27, <1>28, <1>29, <1>30, <1>31,
      <1>32, <1>33, <1>34, <1>35, <1>36, <1>37, <1>38, <1>39, <1>40, <1>41,
      <1>42, <1>43, <1>44 DEF Next, ExecutorStep, LeaseStep, PreserveStep,
      ApplyStep, RecordStep, CycleStep, ResumeStep, FaultStep

\* When ReplaceFileW never refuses, what the user last left is never lost.
THEOREM UserBytesSafe == ~ReplaceMayRefuse => (Spec => []UserBytesKept)
<1> SUFFICES ASSUME ~ReplaceMayRefuse PROVE Spec => []UserBytesKept
    OBVIOUS
<1>1. Init => UserInv
    BY DEF Init, UserInv, NoFallback, UserBytesKept
<1>2. IInv /\ UserInv /\ [Next]_vars => UserInv'
    BY UserInvStep
<1>3. UserInv => UserBytesKept
    BY DEF UserInv
<1> QED
    BY Invariance, <1>1, <1>2, <1>3, PTL DEF Spec
-----------------------------------------------------------------------------
(***************************************************************************)
(* The commit implements SafeReplace.                                      *)
(***************************************************************************)
\* A program step that leaves the files alone and concludes at most once is a
\* step of the promise.
LEMMA JournalSimulates ==
    ASSUME Verdict \in {"OPEN", "SUCCESS", "HANDED_BACK"},
           UNCHANGED <<final, owed, Kept, installed>>,
           \/ Verdict' = Verdict
           \/ Verdict = "OPEN" /\ Verdict' = "HANDED_BACK"
           \/ Verdict = "OPEN" /\ Verdict' = "SUCCESS" /\ installed
    PROVE  [Promise!Next]_(Promise!promiseVars)
BY DEF Promise!Next, Promise!Conclude, Promise!promiseVars

\* The steps that write neither the phase nor a content on the target.
QuietStep ==
    \/ AcquireLease \/ RecordTargetLease \/ RefreshCommitIntent
    \/ PreserveOldTarget \/ WriteVersionManifest \/ CheckFinalTarget
    \/ FlushCommittedFile \/ BeginCommit \/ RecordCatalogHandoff
    \/ CleanupStagingObject \/ CompleteTarget \/ ReleaseFinishedTarget
    \/ ResumeFinalVerification \/ VerifyFinalArtifact
    \/ ResumeCatalogHandoffScan \/ ResumeCatalogHandoff
    \/ ResumeCatalogRecordedTarget \/ Crash \/ StopHost \/ CapacityBlock
    \/ JournalError \/ PauseRun \/ StartHost \/ BuildMaintenanceRuntime
    \/ ResumeRun \/ UNCHANGED vars

\* The steps that write the phase.
PhaseStep ==
    \/ RecordPreconditions \/ RecordPreserved \/ RecordApplied
    \/ RecordDurable \/ RecordVerified \/ RecordFailure \/ RecordCataloged
    \/ RecordCleaned \/ TransitionToFinalVerified \/ ResumeRecordCataloged

\* The steps that write a content on the target.
ContentStep ==
    \/ PreserveVersionPayload \/ ReplaceFileW \/ CheckReplaced
    \/ CheckRefused \/ MoveReplacingExisting \/ InsertReplacementPayload
    \/ LinkLocalPayload \/ UserStep

\* Every step is of one of the three kinds.
LEMMA StepKinds == [Next]_vars => QuietStep \/ PhaseStep \/ ContentStep
BY DEF QuietStep, PhaseStep, ContentStep, Next, ExecutorStep, LeaseStep,
  PreserveStep, ApplyStep, RecordStep, CycleStep, ResumeStep, FaultStep

\* A quiet step is invisible to the owner of the target folder.
LEMMA QuietSimulates ==
    ASSUME QuietStep
    PROVE  UNCHANGED Promise!promiseVars
<1>1. UNCHANGED <<phase, final, owed, version, backups, installed>>
    BY DEF QuietStep, AcquireLease, At, RecordTargetLease,
      RefreshCommitIntent, Ready, PreserveOldTarget, Goto, Raise,
      FilesystemStep, WriteVersionManifest, CheckFinalTarget,
      FlushCommittedFile, BeginCommit, RecordCatalogHandoff,
      CleanupStagingObject, CompleteTarget, ReleaseFinishedTarget,
      ResumeFinalVerification, ResumeAt, TargetBound, VerifyFinalArtifact,
      ResumeCatalogHandoffScan, ResumeCatalogHandoff,
      ResumeCatalogRecordedTarget, Crash, ProcessGone, StopHost, ReleaseAll,
      Fault, CapacityBlock, JournalSteps, JournalError, PauseRun, StartHost,
      BuildMaintenanceRuntime, ResumeRun
<1> QED
    BY <1>1 DEF Promise!promiseVars, Kept, Verdict

\* A phase step concludes at most once, with success only after installation.
LEMMA PhaseSimulates ==
    ASSUME IInv, PhaseStep
    PROVE  [Promise!Next]_(Promise!promiseVars)
<1> USE DEF IInv, ExecutorKnows, ResumeKnows, Evidence, AppliedMeansInstalled,
        AppliedPhases, HerePhases, ResumePhases
<1>1. UNCHANGED <<final, owed, version, backups, installed>>
    BY DEF PhaseStep, RecordPreconditions, JournalWrite, At, RecordPreserved,
      RecordApplied, RecordDurable, RecordVerified, RecordFailure,
      FailurePhase, RecordCataloged, RecordCleaned, TransitionToFinalVerified,
      ResumeNext, ResumeAt, ResumeRecordCataloged
<1>2. \/ phase' = phase
      \/ /\ phase \notin TerminalPhases \cup {"CATALOG_RECORDED"}
         /\ phase' \notin TerminalPhases \cup {"CATALOG_RECORDED"}
      \/ /\ phase \in {"COMMIT_PRECONDITIONS_REVALIDATED", "OLD_TARGET_PRESERVED"}
         /\ phase' \in {"FAILED_RETRYABLE", "USER_DECISION_REQUIRED"}
      \/ phase = "FINAL_VERIFIED" /\ phase' = "CATALOG_RECORDED"
      \/ phase = "CATALOG_RECORDED" /\ phase' = "CLEANED"
    BY DEF PhaseStep, TerminalPhases, RecordPreconditions, JournalWrite, At,
      RecordPreserved, RecordApplied, RecordDurable, RecordVerified,
      RecordFailure, FailurePhase, RecordCataloged, RecordCleaned,
      TransitionToFinalVerified, ResumeNext, ResumeAt, ResumeRecordCataloged
<1>3. UNCHANGED <<final, owed, Kept, installed>>
    BY <1>1 DEF Kept
<1>4. \/ Verdict' = Verdict
      \/ Verdict = "OPEN" /\ Verdict' = "HANDED_BACK"
      \/ Verdict = "OPEN" /\ Verdict' = "SUCCESS" /\ installed
    BY <1>2 DEF Verdict, TerminalPhases
<1> QED
    BY <1>3, <1>4, JournalSimulates DEF Verdict

\* A content step keeps a copy, displaces what it keeps, or is the user's.
LEMMA ContentSimulates ==
    ASSUME IInv, UserInv, ~ReplaceMayRefuse, ContentStep
    PROVE  [Promise!Next]_(Promise!promiseVars)
<1> USE DEF IInv, TypeOK, Slot, Contents, ExecutorKnows, Evidence, Kept,
        Promise!Next, Promise!promiseVars
<1>1. Verdict' = Verdict
    BY DEF ContentStep, Verdict, PreserveVersionPayload, Goto, Raise,
      FilesystemStep, At, ReplaceFileW, Install, CheckReplaced, Replaced,
      DropBackup, CheckRefused, Untouched, MoveReplacingExisting,
      InsertReplacementPayload, MoveWithoutOverwrite, LinkLocalPayload,
      UserStep
<1>2. CASE PreserveVersionPayload
    BY <1>1, <1>2 DEF PreserveVersionPayload, Goto, Raise, FilesystemStep, At,
      Promise!Keep
<1>3. CASE ReplaceFileW
    BY <1>1, <1>3 DEF ReplaceFileW, Goto, Install, FilesystemStep, At,
      Promise!Displace
<1>4. CASE CheckReplaced
    BY <1>1, <1>4 DEF CheckReplaced, Replaced, Goto, Raise, DropBackup,
      FilesystemStep, At
<1>5. CASE CheckRefused
    BY <1>1, <1>5 DEF CheckRefused, Replaced, Untouched, Goto, Raise,
      DropBackup, FilesystemStep, At, UserInv, NoFallback
<1>6. CASE MoveReplacingExisting
    BY <1>1, <1>6 DEF MoveReplacingExisting, Goto, Raise, Install,
      FilesystemStep, At, UserInv, NoFallback
<1>7. CASE InsertReplacementPayload
    BY <1>1, <1>7 DEF InsertReplacementPayload, MoveWithoutOverwrite, Goto,
      Raise, Install, FilesystemStep, At, Promise!Displace
<1>8. CASE LinkLocalPayload
    BY <1>1, <1>8 DEF LinkLocalPayload, MoveWithoutOverwrite, Goto, Raise,
      Install, FilesystemStep, At, Promise!Displace
<1>9. CASE UserStep
    BY <1>1, <1>9, EditsAssumption DEF UserStep, Promise!UserActs
<1> QED
    BY <1>2, <1>3, <1>4, <1>5, <1>6, <1>7, <1>8, <1>9 DEF ContentStep

\* The whole commit implements the promise: when ReplaceFileW never refuses,
\* no interleaving of executor, startup resume, crashes, faults and user edits
\* loses a displaced content, reports twice, or reports a success that was
\* not installed.
THEOREM CommitKeepsPromise == ~ReplaceMayRefuse => (Spec => KeepsPromise)
<1> SUFFICES ASSUME ~ReplaceMayRefuse PROVE Spec => KeepsPromise
    OBVIOUS
<1>1. Init => UserInv
    BY DEF Init, UserInv, NoFallback, UserBytesKept
<1>2. IInv /\ UserInv /\ [Next]_vars => UserInv'
    BY UserInvStep
<1>3. Init => Promise!Init
    BY PreconditionAssumption DEF Init, Promise!Init, Kept, Verdict, Slot,
      TerminalPhases
<1>4. IInv /\ UserInv /\ [Next]_vars => [Promise!Next]_(Promise!promiseVars)
    BY StepKinds, QuietSimulates, PhaseSimulates, ContentSimulates
<1> QED
    BY Invariance, <1>1, <1>2, <1>3, <1>4, PTL
      DEF Spec, KeepsPromise, Promise!Spec
=============================================================================
