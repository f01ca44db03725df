----------------------------- MODULE FinalCommit -----------------------------
(***************************************************************************)
(* The final commit of one backup file, from its durable commit intent to  *)
(* the completed run target, with everything that can interrupt it.        *)
(*                                                                         *)
(* Three stores fail independently of the process and of one another: the  *)
(* recovery journal (recovery.sqlite), the run catalog (catalog.sqlite)    *)
(* and the target filesystem.  Three actors work on them at once: the      *)
(* executor thread, the startup resume that each runtime of the host       *)
(* process performs while it is being built, and the user, who owns the    *)
(* target folder and may edit it at any moment.                            *)
(*                                                                         *)
(* Each journal write is one transaction guarded by the expected phase and *)
(* by the operation's lease row; each filesystem call is one step.         *)
(***************************************************************************)
EXTENDS Naturals, FiniteSets, RecoveryPhases

CONSTANTS
    Precondition,     \* what the sealed plan requires of the target file
    Edits,            \* what the user may make of the target file ("absent"
                      \* deletes it), each once
    ReplaceMayRefuse, \* may ReplaceFileW fail and leave the target in place?
    Faults,           \* the interruptions explored besides crashes
    MaxCrashes,       \* how many crashes
    MaxFaults         \* how many other interruptions

Old == "old"          \* the content the plan's target fingerprint names
New == "new"          \* the verified staging artifact
Absent == "absent"    \* no file

ASSUME PreconditionAssumption == Precondition \in {"ABSENT", "MATCH_FINGERPRINT"}
ASSUME EditsAssumption == Edits \cap {Old, New} = {}
ASSUME RefuseAssumption == ReplaceMayRefuse \in BOOLEAN
ASSUME FaultsAssumption ==
    Faults \subseteq {"PAUSE", "STOP", "CAPACITY", "DATABASE_ERROR"}
ASSUME BoundsAssumption == MaxCrashes \in Nat /\ MaxFaults \in Nat

VARIABLES
    \* recovery.sqlite
    phase,            \* the operation's journaled phase
    bound,            \* fencing token of the lease the operation is bound to
    lease,            \* token of the ACQUIRED resource lease row, 0 if none
    issued,           \* highest fencing token allocated
    \* catalog.sqlite
    target,           \* run target state
    targetLease,      \* the target's last fencing token, 0 if cleared
    handoff,          \* is the final file recorded in the catalog?
    \* target filesystem
    final,            \* content at the final path
    version,          \* content of the version object's payload
    manifest,         \* does the version object have its manifest?
    backups,          \* contents of ReplaceFileW backup files
    staged,           \* is the verified staging object present?
    \* host process
    host,             \* DOWN, STARTING (main runtime resumes) or RUNNING
    unbuilt,          \* runtimes the maintenance threads have yet to build
    held,             \* token of the lease the executor retains, 0 if none
    pc, seen, code,   \* executor: step, phase it read, error it raised
    backup,           \* content of the backup this replacement made
    rpc, rseen,       \* startup resume: step and phase it read
    \* history and bounds
    owed,             \* what the user last left at the final path
    installed,        \* has the artifact ever been put at the final path?
    unused,           \* edits the user has not made yet
    crashes, faults

journal  == <<phase, bound, lease, issued>>
catalog  == <<target, targetLease, handoff>>
files    == <<final, version, manifest, backups, staged, installed>>
executor == <<held, pc, seen, code, backup>>
resume   == <<rpc, rseen, unbuilt>>
user     == <<owed, unused>>
budget   == <<crashes, faults>>
vars == <<journal, catalog, files, executor, resume, user, budget, host>>

Slot == Edits \cup {Old, New, Absent}
Contents == Slot \ {Absent}
Tokens == Nat

\* Steps at which the executor is about to write the recovery journal.
JournalSteps == {"PRECONDITIONS", "PRESERVED", "APPLIED", "DURABLE", "VERIFIED",
                 "FAIL", "RECORD", "CLEANED"}
ExecutorSteps == JournalSteps \cup
    {"IDLE", "BIND", "PRESERVE", "COPY", "MANIFEST", "APPLY", "REPLACE",
     "REPLACED", "REFUSED", "FALLBACK", "INSERT", "LINK", "FLUSH"}
ResumeSteps == {"OFF", "SCAN", "VERIFY", "JOURNAL", "HANDOFF_SCAN", "HANDOFF",
                "RECORD", "COMPLETE"}
TargetStates == {"EXECUTING", "PAUSED", "PENDING", "SUCCEEDED",
                 "RECOVERY_REQUIRED"}

\* The state type of every variable.
TypeOK ==
    /\ phase \in Phases
    /\ bound \in Tokens /\ lease \in Tokens /\ issued \in Tokens
    /\ target \in TargetStates /\ targetLease \in Tokens /\ handoff \in BOOLEAN
    /\ final \in Slot /\ version \in Slot /\ manifest \in BOOLEAN
    /\ backups \subseteq Contents /\ staged \in BOOLEAN
    /\ host \in {"DOWN", "STARTING", "RUNNING"} /\ unbuilt \in 0 .. 2
    /\ held \in Tokens /\ pc \in ExecutorSteps /\ seen \in Phases
    /\ code \in {"NONE", "PLAIN", "AMBIGUOUS"} /\ backup \in Slot
    /\ rpc \in ResumeSteps /\ rseen \in Phases
    /\ owed \in Slot /\ installed \in BOOLEAN /\ unused \subseteq Edits
    /\ crashes \in 0 .. MaxCrashes /\ faults \in 0 .. MaxFaults

\* The operation's commit intent has just been journaled under lease 1.
Init ==
    /\ phase = "COMMIT_INTENT_RECORDED"
    /\ bound = 1 /\ lease = 1 /\ issued = 1
    /\ target = "EXECUTING" /\ targetLease = 1 /\ handoff = FALSE
    /\ final = (IF Precondition = "ABSENT" THEN Absent ELSE Old)
    /\ version = Absent /\ manifest = FALSE /\ backups = {} /\ staged = TRUE
    /\ host = "RUNNING" /\ unbuilt = 1
    /\ held = 1 /\ pc = "IDLE" /\ seen = phase /\ code = "NONE"
    /\ backup = Absent
    /\ rpc = "OFF" /\ rseen = phase
    /\ owed = final /\ installed = FALSE /\ unused = Edits
    /\ crashes = 0 /\ faults = 0
-----------------------------------------------------------------------------
(***************************************************************************)
(* The executor.  Every step of a cycle needs the running process; a cycle *)
(* starts from IDLE with a retained lease on an executing target.          *)
(***************************************************************************)
At(step) == host = "RUNNING" /\ pc = step

Ready == At("IDLE") /\ held # 0 /\ target = "EXECUTING"

\* Mutant of JournalWrite: the expected phase is not compared.
JournalWriteUnguarded(next, step) ==
    /\ IF lease = bound
       THEN phase' = next /\ seen' = next /\ pc' = step
       ELSE UNCHANGED <<phase, seen>> /\ pc' = "IDLE"
    /\ UNCHANGED <<bound, lease, issued, catalog, files, held, code, backup,
                   resume, user, budget, host>>

\* record_operation_phase_transition, called by the executor: compare the
\* phase it read, require the operation's lease row, write; a conflict or a
\* lease mismatch raises and ends the cycle.
JournalWrite(next, step) ==
    /\ IF phase = seen /\ lease = bound
       THEN phase' = next /\ seen' = next /\ pc' = step
       ELSE UNCHANGED <<phase, seen>> /\ pc' = "IDLE"
    /\ UNCHANGED <<bound, lease, issued, catalog, files, held, code, backup,
                   resume, user, budget, host>>

\* A step of the executor that touches only the target filesystem.
Goto(step) == pc' = step /\ UNCHANGED <<seen, held, code>>
Raise(kind) == pc' = "FAIL" /\ code' = kind /\ UNCHANGED <<seen, held>>
FilesystemStep ==
    UNCHANGED <<journal, catalog, resume, user, budget, host>>
-----------------------------------------------------------------------------
\* Lease acquisition: a stale ACQUIRED row is released and the next token is
\* registered in recovery.sqlite ...
AcquireLease ==
    /\ At("IDLE") /\ held = 0 /\ target \in {"EXECUTING", "PENDING"}
    /\ issued' = issued + 1
    /\ lease' = issued' /\ held' = issued' /\ pc' = "BIND"
    /\ UNCHANGED <<phase, bound, catalog, files, seen, code, backup, resume,
                   user, budget, host>>

\* ... then recorded on the run target in catalog.sqlite.
RecordTargetLease ==
    /\ At("BIND")
    /\ IF target \in {"EXECUTING", "PENDING"}
       THEN /\ targetLease' = held /\ target' = "EXECUTING"
            /\ UNCHANGED <<held, lease>>
       ELSE /\ held' = 0 /\ lease' = 0
            /\ UNCHANGED <<targetLease, target>>
    /\ pc' = "IDLE"
    /\ UNCHANGED <<phase, bound, issued, handoff, files, seen, code, backup,
                   resume, user, budget, host>>

\* Mutant of RefreshCommitIntent: preserved operations are not rebound.
RefreshUnpreservedOnly ==
    /\ Ready /\ phase = "COMMIT_INTENT_RECORDED"
    /\ bound # held /\ lease = held
    /\ bound' = held
    /\ UNCHANGED <<phase, lease, issued, catalog, files, executor, resume, user,
                   budget, host>>

\* A commit intent bound to an earlier lease is rebound to the current one.
RefreshCommitIntent ==
    /\ Ready /\ phase \in {"COMMIT_INTENT_RECORDED", "OLD_TARGET_PRESERVED"}
    /\ bound # held /\ lease = held
    /\ bound' = held
    /\ UNCHANGED <<phase, lease, issued, catalog, files, executor, resume, user,
                   budget, host>>

\* commit_next_run_target_verified_artifact picks the operation up.
BeginCommit ==
    /\ Ready /\ bound = held
    /\ \/ phase = "COMMIT_INTENT_RECORDED" /\ pc' = "PRECONDITIONS"
       \/ phase = "OLD_TARGET_PRESERVED" /\ pc' = "APPLY"
    /\ seen' = phase
    /\ UNCHANGED <<journal, catalog, files, held, code, backup, resume, user,
                   budget, host>>

\* Mutant of RecordPreconditions: a replacement skips the preservation.
RecordThenApply ==
    /\ At("PRECONDITIONS")
    /\ JournalWrite("COMMIT_PRECONDITIONS_REVALIDATED",
                    IF Precondition = "ABSENT" THEN "LINK" ELSE "APPLY")

RecordPreconditions ==
    /\ At("PRECONDITIONS")
    /\ JournalWrite("COMMIT_PRECONDITIONS_REVALIDATED",
                    IF Precondition = "ABSENT" THEN "LINK" ELSE "PRESERVE")
-----------------------------------------------------------------------------
(***************************************************************************)
(* Preserving the old target as a version object.  A filesystem call may   *)
(* fail at any time, and the mutation permit may no longer be current.     *)
(***************************************************************************)
PreserveOldTarget ==
    /\ At("PRESERVE")
    /\ (final = Old /\ Goto("COPY")) \/ Raise("PLAIN")
    /\ UNCHANGED <<files, backup>> /\ FilesystemStep

\* The copy is fingerprinted before it gets the payload's name.
PreserveVersionPayload ==
    /\ At("COPY")
    /\ \/ /\ version = Old \/ final = Old
          /\ version' = Old /\ Goto("MANIFEST")
       \/ UNCHANGED version /\ Raise("PLAIN")
    /\ UNCHANGED <<final, manifest, backups, staged, installed, backup>>
    /\ FilesystemStep

WriteVersionManifest ==
    /\ At("MANIFEST")
    /\ \/ manifest' = TRUE /\ Goto("PRESERVED")
       \/ UNCHANGED manifest /\ Raise("PLAIN")
    /\ UNCHANGED <<final, version, backups, staged, installed, backup>>
    /\ FilesystemStep

RecordPreserved ==
    At("PRESERVED") /\ JournalWrite("OLD_TARGET_PRESERVED", "APPLY")
-----------------------------------------------------------------------------
(***************************************************************************)
(* Putting the artifact at the final path.  Between the check of the final *)
(* file and the call that changes it the user may write.                   *)
(***************************************************************************)
CheckFinalTarget ==
    /\ At("APPLY")
    /\ \/ final = Old /\ Goto("REPLACE")
       \/ final = Absent /\ Goto("INSERT")
       \/ final \notin {Old, Absent} /\ Raise("AMBIGUOUS")
       \/ Raise("PLAIN")
    /\ backup' = Absent /\ UNCHANGED files /\ FilesystemStep

\* The artifact displaces whatever is at the final path.
Install == final' = New /\ installed' = TRUE

\* ReplaceFileW moves the file at the final path to the backup name and the
\* artifact to the final path.  It may report an error after doing so, or
\* after the first of the two moves, or without any effect.
ReplaceFileW ==
    /\ At("REPLACE")
    /\ \/ /\ final # Absent
          /\ Install
          /\ backup' = final /\ backups' = backups \cup {final}
          /\ Goto("REPLACED") \/ Goto("REFUSED")
       \/ /\ final # Absent
          /\ final' = Absent /\ UNCHANGED installed
          /\ backup' = final /\ backups' = backups \cup {final}
          /\ Goto("REFUSED")
       \/ /\ final = Absent \/ ReplaceMayRefuse
          /\ Goto("REFUSED") /\ UNCHANGED <<final, installed, backup, backups>>
    /\ UNCHANGED <<version, manifest, staged>> /\ FilesystemStep

\* The backup is removed only when it is a second copy of the old target.
DropBackup == backups' = backups \ {backup} /\ backup' = Absent

\* Mutant of Replaced: the backup's content is not checked.
ReplacedUnchecked == final = New

\* The two unambiguous states of final file and backup after the call.
Replaced  == final = New /\ backup = Old
Untouched == final = Old /\ backup \in {Absent, Old}

CheckReplaced ==
    /\ At("REPLACED")
    /\ IF Replaced
       THEN DropBackup /\ Goto("FLUSH")
       ELSE UNCHANGED <<backup, backups>> /\ Raise("AMBIGUOUS")
    /\ UNCHANGED <<final, version, manifest, staged, installed>>
    /\ FilesystemStep

CheckRefused ==
    /\ At("REFUSED")
    /\ \/ Replaced /\ DropBackup /\ Goto("FLUSH")
       \/ Untouched /\ DropBackup /\ Goto("FALLBACK")
       \/ /\ ~Replaced /\ ~Untouched
          /\ UNCHANGED <<backup, backups>> /\ Raise("AMBIGUOUS")
    /\ UNCHANGED <<final, version, manifest, staged, installed>>
    /\ FilesystemStep

\* MoveFileEx with MOVEFILE_REPLACE_EXISTING keeps no backup.
MoveReplacingExisting ==
    /\ At("FALLBACK")
    /\ \/ Install /\ Goto("FLUSH")
       \/ UNCHANGED <<final, installed>> /\ Raise("PLAIN")
    /\ UNCHANGED <<version, manifest, backups, staged, backup>>
    /\ FilesystemStep

\* A move without overwrite: into the gap left by a deleted old target
\* (error code ambiguous) or to a new path (plain).
MoveWithoutOverwrite(step, exists) ==
    /\ At(step)
    /\ \/ final = Absent /\ Install /\ Goto("FLUSH")
       \/ final # Absent /\ UNCHANGED <<final, installed>> /\ Raise(exists)
       \/ UNCHANGED <<final, installed>> /\ Raise("PLAIN")
    /\ UNCHANGED <<version, manifest, backups, staged, backup>>
    /\ FilesystemStep

InsertReplacementPayload == MoveWithoutOverwrite("INSERT", "AMBIGUOUS")

LinkLocalPayload == MoveWithoutOverwrite("LINK", "PLAIN")

\* The receipt needs the final file flushed; its content is not read again.
FlushCommittedFile ==
    /\ At("FLUSH")
    /\ \/ final # Absent /\ Goto("APPLIED")
       \/ Raise("PLAIN")
    /\ UNCHANGED <<files, backup>> /\ FilesystemStep

RecordApplied == At("APPLIED") /\ JournalWrite("FILESYSTEM_APPLIED", "DURABLE")

RecordDurable == At("DURABLE") /\ JournalWrite("FINAL_DURABLE", "VERIFIED")

RecordVerified == At("VERIFIED") /\ JournalWrite("FINAL_VERIFIED", "IDLE")

\* recovery_phase_for_commit_failure.
FailurePhase ==
    IF seen = "OLD_TARGET_PRESERVED" /\ code = "AMBIGUOUS"
    THEN "USER_DECISION_REQUIRED"
    ELSE "FAILED_RETRYABLE"

RecordFailure == At("FAIL") /\ JournalWrite(FailurePhase, "IDLE")
-----------------------------------------------------------------------------
(***************************************************************************)
(* Catalog handoff, cleanup and completion.                                *)
(***************************************************************************)
RecordCatalogHandoff ==
    /\ Ready /\ phase = "FINAL_VERIFIED" /\ bound = held
    /\ handoff' = TRUE /\ seen' = phase /\ pc' = "RECORD"
    /\ UNCHANGED <<journal, target, targetLease, files, held, code, backup,
                   resume, user, budget, host>>

RecordCataloged == At("RECORD") /\ JournalWrite("CATALOG_RECORDED", "IDLE")

CleanupStagingObject ==
    /\ Ready /\ phase = "CATALOG_RECORDED" /\ bound = held
    /\ staged' = FALSE /\ seen' = phase /\ pc' = "CLEANED"
    /\ UNCHANGED <<journal, catalog, final, version, manifest, backups,
                   installed, held, code, backup, resume, user, budget, host>>

RecordCleaned == At("CLEANED") /\ JournalWrite("CLEANED", "IDLE")

\* Completion releases the retained lease.
CompleteTarget ==
    /\ Ready /\ targetLease = held
    /\ \/ phase = "CLEANED" /\ target' = "SUCCEEDED"
       \/ phase = "USER_DECISION_REQUIRED" /\ target' = "RECOVERY_REQUIRED"
    /\ held' = 0 /\ lease' = 0
    /\ UNCHANGED <<phase, bound, issued, targetLease, handoff, files, pc, seen,
                   code, backup, resume, user, budget, host>>

\* A target that another actor completed gives its lease back.
ReleaseFinishedTarget ==
    /\ At("IDLE") /\ held # 0 /\ target \notin {"EXECUTING", "PENDING"}
    /\ held' = 0 /\ lease' = 0
    /\ UNCHANGED <<phase, bound, issued, catalog, files, pc, seen, code, backup,
                   resume, user, budget, host>>
-----------------------------------------------------------------------------
(***************************************************************************)
(* Startup resume: re-verify, hand off to the catalog, complete.  A step   *)
(* that cannot go on leaves a finding and passes to the next part.         *)
(***************************************************************************)
\* Mutant of ResumePhases: an operation found durable is not picked up.
ResumePhasesWithoutDurable ==
    {"COMMIT_PRECONDITIONS_REVALIDATED", "OLD_TARGET_PRESERVED",
     "FILESYSTEM_APPLIED"}

ResumePhases == {"COMMIT_PRECONDITIONS_REVALIDATED", "OLD_TARGET_PRESERVED",
                 "FILESYSTEM_APPLIED", "FINAL_DURABLE"}

ResumeAt(step) == host \in {"STARTING", "RUNNING"} /\ rpc = step

\* The operation is bound to the executing target's last lease.
TargetBound == target = "EXECUTING" /\ bound = targetLease

\* The journal writes of _transition_to_final_verified, in order.
ResumeNext == [p \in ResumePhases |->
    IF p = "FILESYSTEM_APPLIED" THEN "FINAL_DURABLE"
    ELSE IF p = "FINAL_DURABLE" THEN "FINAL_VERIFIED"
    ELSE "FILESYSTEM_APPLIED"]

ResumeFinalVerification ==
    /\ ResumeAt("SCAN")
    /\ rseen' = phase
    /\ rpc' = IF phase \in ResumePhases /\ TargetBound
              THEN "VERIFY" ELSE "HANDOFF_SCAN"
    /\ UNCHANGED <<journal, catalog, files, executor, unbuilt, user, budget,
                   host>>

\* Mutant of VerifyFinalArtifact: any final file is accepted.
VerifyFinalExists ==
    /\ ResumeAt("VERIFY")
    /\ rpc' = IF final # Absent THEN "JOURNAL" ELSE "HANDOFF_SCAN"
    /\ UNCHANGED <<journal, catalog, files, executor, rseen, unbuilt, user,
                   budget, host>>

VerifyFinalArtifact ==
    /\ ResumeAt("VERIFY")
    /\ rpc' = IF final = New THEN "JOURNAL" ELSE "HANDOFF_SCAN"
    /\ UNCHANGED <<journal, catalog, files, executor, rseen, unbuilt, user,
                   budget, host>>

TransitionToFinalVerified ==
    /\ ResumeAt("JOURNAL")
    /\ IF phase = rseen /\ lease = bound
       THEN /\ phase' = ResumeNext[rseen] /\ rseen' = phase'
            /\ rpc' = IF phase' \in ResumePhases THEN "JOURNAL" ELSE "HANDOFF_SCAN"
       ELSE UNCHANGED <<phase, rseen>> /\ rpc' = "HANDOFF_SCAN"
    /\ UNCHANGED <<bound, lease, issued, catalog, files, executor, unbuilt,
                   user, budget, host>>

ResumeCatalogHandoffScan ==
    /\ ResumeAt("HANDOFF_SCAN")
    /\ rpc' = IF phase = "FINAL_VERIFIED" /\ TargetBound
              THEN "HANDOFF" ELSE "COMPLETE"
    /\ UNCHANGED <<journal, catalog, files, executor, rseen, unbuilt, user,
                   budget, host>>

\* The operation is loaded again before the catalog row is written.
ResumeCatalogHandoff ==
    /\ ResumeAt("HANDOFF")
    /\ IF phase \in {"FINAL_VERIFIED", "CATALOG_RECORDED"}
       THEN handoff' = TRUE
       ELSE UNCHANGED handoff
    /\ rpc' = IF phase = "FINAL_VERIFIED" THEN "RECORD" ELSE "COMPLETE"
    /\ UNCHANGED <<journal, target, targetLease, files, executor, rseen,
                   unbuilt, user, budget, host>>

ResumeRecordCataloged ==
    /\ ResumeAt("RECORD")
    /\ IF phase = "FINAL_VERIFIED" /\ lease = bound
       THEN phase' = "CATALOG_RECORDED"
       ELSE UNCHANGED phase
    /\ rpc' = "COMPLETE"
    /\ UNCHANGED <<bound, lease, issued, catalog, files, executor, rseen,
                   unbuilt, user, budget, host>>

\* Mutant of ResumeCatalogRecordedTarget: a verified operation is taken for a
\* cataloged one.
ResumeVerifiedTarget ==
    /\ ResumeAt("COMPLETE")
    /\ target' = IF phase \in {"FINAL_VERIFIED", "CATALOG_RECORDED"} /\ TargetBound
                 THEN "SUCCEEDED" ELSE target
    /\ rpc' = "OFF" /\ host' = "RUNNING"
    /\ UNCHANGED <<journal, targetLease, handoff, files, executor, rseen,
                   unbuilt, user, budget>>

\* The pass ends; the main runtime's pass lets the maintenance threads start.
ResumeCatalogRecordedTarget ==
    /\ ResumeAt("COMPLETE")
    /\ target' = IF phase = "CATALOG_RECORDED" /\ TargetBound
                 THEN "SUCCEEDED" ELSE target
    /\ rpc' = "OFF" /\ host' = "RUNNING"
    /\ UNCHANGED <<journal, targetLease, handoff, files, executor, rseen,
                   unbuilt, user, budget>>
-----------------------------------------------------------------------------
(***************************************************************************)
(* The host process.                                                       *)
(***************************************************************************)
ProcessGone ==
    /\ host' = "DOWN" /\ held' = 0 /\ pc' = "IDLE" /\ rpc' = "OFF"
    /\ UNCHANGED <<seen, code, backup, rseen, unbuilt>>

\* A crash leaves the three stores, the lease row included, as they are.
Crash ==
    /\ host # "DOWN" /\ crashes < MaxCrashes
    /\ crashes' = crashes + 1
    /\ ProcessGone
    /\ UNCHANGED <<journal, catalog, files, user, faults>>

\* The main runtime is built first and resumes before any thread starts.
StartHost ==
    /\ host = "DOWN"
    /\ host' = "STARTING" /\ rpc' = "SCAN" /\ unbuilt' = 2
    /\ UNCHANGED <<journal, catalog, files, executor, rseen, user, budget>>

\* The executor thread and the task-scheduler thread each build a runtime of
\* their own, which resumes again, the latter while the executor is at work.
BuildMaintenanceRuntime ==
    /\ host = "RUNNING" /\ rpc = "OFF" /\ unbuilt > 0
    /\ rpc' = "SCAN" /\ unbuilt' = unbuilt - 1
    /\ UNCHANGED <<journal, catalog, files, executor, rseen, user, budget, host>>

Fault(kind) ==
    kind \in Faults /\ faults < MaxFaults /\ faults' = faults + 1

\* HeldRunTargetLeaseRegistry.release_all at a cycle boundary.
ReleaseAll == held' = 0 /\ lease' = (IF held # 0 THEN 0 ELSE lease)

\* close(): a stop of the serve loop releases the leases and ends the process.
StopHost ==
    /\ At("IDLE") /\ Fault("STOP")
    /\ ReleaseAll /\ host' = "DOWN" /\ rpc' = "OFF"
    /\ UNCHANGED <<phase, bound, issued, catalog, files, pc, seen, code, backup,
                   rseen, unbuilt, user, crashes>>

\* The state volume is too full for a cycle, or a journal write reports that
\* the database is full: all leases are released.
CapacityBlock ==
    /\ host = "RUNNING" /\ pc \in JournalSteps \cup {"IDLE"}
    /\ held # 0 /\ Fault("CAPACITY")
    /\ ReleaseAll /\ pc' = "IDLE"
    /\ UNCHANGED <<phase, bound, issued, catalog, files, seen, code, backup,
                   resume, user, crashes, host>>

\* Any other database error ends the cycle and keeps the lease.
JournalError ==
    /\ host = "RUNNING" /\ pc \in JournalSteps /\ Fault("DATABASE_ERROR")
    /\ pc' = "IDLE"
    /\ UNCHANGED <<journal, catalog, files, held, seen, code, backup, resume,
                   user, crashes, host>>

\* A requested pause takes effect between two cycles: leases are released
\* and the target's lease evidence is cleared.
PauseRun ==
    /\ At("IDLE") /\ target = "EXECUTING" /\ Fault("PAUSE")
    /\ ReleaseAll /\ target' = "PAUSED" /\ targetLease' = 0
    /\ UNCHANGED <<phase, bound, issued, handoff, files, pc, seen, code, backup,
                   resume, user, crashes, host>>

\* RESUME_RUN makes the target runnable again; preflight must acquire a lease.
ResumeRun ==
    /\ host = "RUNNING" /\ target = "PAUSED"
    /\ target' = "PENDING"
    /\ UNCHANGED <<journal, targetLease, handoff, files, executor, resume, user,
                   budget, host>>
-----------------------------------------------------------------------------
(***************************************************************************)
(* The user writes or deletes the file at the final path.                  *)
(***************************************************************************)
UserStep ==
    \E edit \in unused :
        /\ edit # final
        /\ final' = edit /\ owed' = edit /\ unused' = unused \ {edit}
        /\ UNCHANGED <<version, manifest, backups, staged, installed, journal,
                       catalog, executor, resume, budget, host>>
-----------------------------------------------------------------------------
LeaseStep == AcquireLease \/ RecordTargetLease \/ RefreshCommitIntent
PreserveStep == \/ PreserveOldTarget \/ PreserveVersionPayload
                \/ WriteVersionManifest
ApplyStep == \/ CheckFinalTarget \/ ReplaceFileW \/ CheckReplaced
             \/ CheckRefused \/ MoveReplacingExisting
             \/ InsertReplacementPayload \/ LinkLocalPayload
             \/ FlushCommittedFile
RecordStep == \/ RecordPreconditions \/ RecordPreserved \/ RecordApplied
              \/ RecordDurable \/ RecordVerified \/ RecordFailure
              \/ RecordCataloged \/ RecordCleaned
CycleStep == \/ BeginCommit \/ RecordCatalogHandoff \/ CleanupStagingObject
             \/ CompleteTarget \/ ReleaseFinishedTarget
ExecutorStep == LeaseStep \/ PreserveStep \/ ApplyStep \/ RecordStep \/ CycleStep

ResumeStep == \/ ResumeFinalVerification \/ VerifyFinalArtifact
              \/ TransitionToFinalVerified \/ ResumeCatalogHandoffScan
              \/ ResumeCatalogHandoff \/ ResumeRecordCataloged
              \/ ResumeCatalogRecordedTarget

FaultStep == Crash \/ StopHost \/ CapacityBlock \/ JournalError \/ PauseRun

Next == \/ ExecutorStep \/ ResumeStep \/ FaultStep \/ UserStep
        \/ StartHost \/ BuildMaintenanceRuntime \/ ResumeRun

Spec == Init /\ [][Next]_vars

\* The maintenance loop keeps running cycles while the process lives, a
\* startup pass runs to its end, and the user restarts the app and resumes a
\* paused run.  Faults and edits are never forced.
Fairness == /\ WF_vars(ExecutorStep) /\ WF_vars(ResumeStep)
            /\ WF_vars(StartHost) /\ WF_vars(ResumeRun)

FairSpec == Spec /\ Fairness
-----------------------------------------------------------------------------
(***************************************************************************)
(* Properties.                                                             *)
(***************************************************************************)
AppliedPhases == {"FILESYSTEM_APPLIED", "FINAL_DURABLE", "FINAL_VERIFIED",
                  "CATALOG_RECORDED", "CLEANED"}

\* Everything on the target from which a displaced content can be recovered.
Kept == (backups \cup {version}) \ {Absent}

\* What the user last left at the final path - the file the plan replaces, or
\* an edit made at any moment since - is still there, in the version object
\* or in a retained ReplaceFileW backup: the check-then-replace of
\* LocalReplaceFinalCommit never destroys bytes it did not check.
UserBytesKept == owed \in {Absent, final} \cup Kept

\* The journal runs ahead of the filesystem: the artifact reaches the final
\* path only after COMMIT_PRECONDITIONS_REVALIDATED is durable and, when it
\* replaces a file, only after OLD_TARGET_PRESERVED is durable with a complete
\* version object of the old content.
JournalAhead ==
    /\ installed => phase # "COMMIT_INTENT_RECORDED"
    /\ installed /\ Precondition = "MATCH_FINGERPRINT"
         => /\ phase # "COMMIT_PRECONDITIONS_REVALIDATED"
            /\ version = Old /\ manifest

\* The journal never claims more than happened: an operation journaled as
\* applied, durable, verified or cataloged did put the artifact at the final
\* path, whether the executor or a startup resume wrote the claim.
AppliedMeansInstalled == phase \in AppliedPhases => installed

\* The stores agree on success: a succeeded target has a catalog row and an
\* operation journaled as cataloged, a catalog row exists only for a verified
\* operation, and the staging object outlives the operation's catalog record.
StoresAgree ==
    /\ target = "SUCCEEDED" => handoff /\ phase \in {"CATALOG_RECORDED", "CLEANED"}
    /\ handoff => phase \in {"FINAL_VERIFIED", "CATALOG_RECORDED", "CLEANED"}
    /\ ~staged => phase \in {"CATALOG_RECORDED", "CLEANED"}

\* However executor and startup resume interleave, the journal moves only
\* along transitions validate_recovery_phase_transition accepts and no actor
\* overwrites what the other one recorded.
JournalFollowsProtocol ==
    [][phase' # phase => PhaseTransitionAllowed(phase, phase')]_vars

\* What the journal tells the owner of the operation about its outcome.
Verdict ==
    IF phase \in {"CATALOG_RECORDED", "CLEANED"} THEN "SUCCESS"
    ELSE IF phase \in TerminalPhases THEN "HANDED_BACK"
    ELSE "OPEN"

Promise == INSTANCE SafeReplace WITH kept <- Kept, verdict <- Verdict

\* The whole commit, with its crashes, races and leases, implements the
\* promise of SafeReplace: each program step either leaves the file alone or
\* keeps what it displaces, keeps it for good, and concludes once.
KeepsPromise == Promise!Spec

\* A replacement whose old target is preserved is always carried on: after
\* any crash or fault the operation leaves OLD_TARGET_PRESERVED.
PreservedCarriedOn ==
    (phase = "OLD_TARGET_PRESERVED") ~> (phase # "OLD_TARGET_PRESERVED")

\* Once the artifact is journaled as applied, crashes alone cannot keep it
\* out of the catalog: it is cataloged unless the user changed the final file.
AppliedReachesCatalog ==
    (phase \in AppliedPhases) ~>
        (phase \in {"CATALOG_RECORDED", "CLEANED"} \/ final # New)
=============================================================================
