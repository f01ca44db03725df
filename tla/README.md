# MediaSync Home: a TLA+ verification project

MediaSync Home is a local-first Windows backup program. A background process,
the *Engine Host*, copies files from a source folder to up to three target
folders; a window, a launcher and a trigger client talk to it over a named pipe.
Its state is in two SQLite databases (`catalog.sqlite`, `recovery.sqlite`) and in
the target folders. None of the three can be changed atomically with another,
the folders belong to the user, who may edit them at any moment, Windows fires
the daily task on its own, and the process may die at any step. What makes the
program correct is a set of protocols: journals, sagas, receipts, leases and
their reconciliation at every start. This project models those protocols, checks
them with TLC and proves the most important of their properties with TLAPS.

Source paths below are relative to `src/src/mediasync_home/`. `PROJECT.json` maps
the definitions to the lines they stand for. What it leaves out are sets of values,
abbreviations and parts whose lines lie within those of the definitions that use
them, and the acts of the program's surroundings (a crash, an edit by the user,
what Windows answers).

## Inventory

| Component | Modules | Hard behaviour | What makes it correct |
|---|---|---|---|
| Recovery operation journal (`application/recovery_operations.py`) | `RecoveryPhases`, `FinalCommit`, `Staging` | two writers, stale reads | transitions follow the protocol, no lost update |
| Final commit (`application/journaled_commit.py`, `adapters/final_commit.py`) | `FinalCommit`, `SafeReplace` | check-then-act on the user's folder, half-done ReplaceFileW, crash between effect and record | user bytes are never lost, journal before effect, no false claim |
| Startup recovery (`application/recovery_resume.py`) | `FinalCommit` | runs in every runtime, beside a working executor | idempotent, interrupted work is carried on |
| Intent refresh and lease rebind (`run_commit_intent_refresh.py`, `run_preserved_commit_refresh.py`) | `FinalCommit`, `Segments` | bindings outlive leases | every live operation can be rebound |
| Catalog handoff and cleanup (`catalog_handoff.py`, `run_recovery_object_cleanup.py`) | `FinalCommit` | two databases | row before record before cleanup |
| Run executor cycle, run catalog (`run_executor_cycle.py`, `run_stop.py`, `run_completion.py`, `adapters/sqlite/runs.py`) | `RunControl` | pause, stop, absent endpoints, retries between any two transactions | a finished run has every file, a paused run has no lease |
| Run start saga (`cross_store_handoffs.py`, `runs.py`) | `RunStart` | five transactions in two databases, three reconcilers | both stores end alike, no false alarm |
| Engine Host process (`composition/engine_host.py`, `host_lifecycle.py`, `adapters/host_mutex.py`, `local_host_locator.py`) | `HostLife`, `FinalCommit` | several processes start at once, heartbeat and publication race | one host works, a shutdown is quiet, no process is left over |
| Endpoint leases, registration, takeover (`writable_endpoint_registration.py`, `adapters/endpoint_takeover.py`, `adapters/sqlite/lease_tokens.py`) | `Endpoints` | two installations on one folder, marker and row apart | one owner, whose tokens only grow |
| Recovery intent segments (`target_recovery_intents.py`, `run_intent_segments.py`) | `Segments` | document and row disagree after a crash | a started commit has its evidence on the target |
| Planning and staging (`run_operation_planning.py`, `run_staging.py`, `adapters/robocopy.py`) | `Staging`, `RunControl` | batches, a child that cannot be stopped, outages | only verified bytes are journaled as verified |
| Directory recovery (`directory_recovery.py`, `directory_reconciliation.py`, `directory_metadata.py`) | `Directories` | a second journal, three observers | what the user put into a directory stays |
| Versions, restore, rollback (`version_retention.py`, `version_restore.py`, `version_restore_rollback.py`) | `VersionRetention`, `VersionRestore` | expiry racing holds, restores and undos | no offered version without bytes, undo stays possible |
| Schedules, Task Scheduler (`task_scheduler.py`, `external_resources.py`) | `Schedules` | stale pages, expired claims, a task changed by others | a row marked in sync is what Windows has |
| Jobs, triggers, checks (`job_lifecycle.py`, `trigger_runs.py`, `backup_analysis.py`) | `Jobs` | commands between any two steps of a check | archived is quiet, runs copy what the job is |
| Snapshots, hashing, plans (`adapters/sqlite/job_snapshots.py`, `current_read_hash.py`, `initial_backup_planning.py`) | `Analysis` | folders change while they are read | a snapshot is of one moment, a plan makes a copy |
| Duplicates and hash cache (`duplicate_scanning.py`, `adapters/sqlite/duplicates.py`) | `Duplicates` | evidence grows while files change | deleting what is offered leaves a copy |
| State backup and migration (`adapters/sqlite/state_backup.py`, `migrations.py`) | `StateStores` | crash between renames of two stores | the host opens one pair only |
| Commands and receipts (`ipc/server.py`, `command_receipts.py`, `presentation/`) | `Commands` | lost answers, retries, a window that closes | a receipt tells the truth about the effect |
| Paging and background queries (`presentation/background_queries.py`, `main_window.py`) | `Paging` | late answers, changing lists | what is shown is what was asked for |
| IPC sessions (`ipc/server.py`, `ipc/win32_named_pipe.py`) | `Sessions` | silent clients, rate limits at their boundary | a promised retry is not refused |
| Operation audit | - | derived rows that no decision reads | not modelled |

Every component, with what is left out of it, is listed in `PROJECT.json`.

## Conventions

One action is one transaction of one database, one call to the filesystem, or one
message; everything else may happen between two of them. A thread is a record or
a function with a place (`pc`, `at`) and what it has read so far. An exception
leads to the place where the code catches it. A crash resets everything in memory
and nothing else. Counters that could grow without end (crashes, faults, user
edits, commands) have a bound named `Max...` in the action's guard. Operators
commented "Mutant:" are faulty variants of the definition that follows them; the
specifications do not use them.

## The modules

### The commit of one file

`RecoveryPhases` is the phase enumeration and
`validate_recovery_phase_transition`. `SafeReplace` is the abstract promise to the
owner of the target: a step of the program changes the file only by putting the
artifact there or moving the file away, keeps what it displaces, and reports one
verdict, success only for an artifact that was installed. `FinalCommit` is one
operation from its durable commit intent to the completed run target:

| Variables | Code |
|---|---|
| `phase`, `bound` | the operation row of `recovery.sqlite`: phase and fencing token |
| `lease`, `issued` | the ACQUIRED row of `resource_leases` and the token counter |
| `target`, `targetLease`, `handoff` | run target row and catalog handoff row of `catalog.sqlite` |
| `final`, `version`, `manifest`, `backups`, `staged` | the file, the version object's payload and manifest, ReplaceFileW backups, the staging object |
| `host`, `unbuilt` | the process and the runtimes its threads still have to build |
| `held`, `pc`, `seen`, `code`, `backup` | the executor thread |
| `rpc`, `rseen` | a startup resume pass |
| `owed`, `installed`, `unused`, `crashes`, `faults` | history (what the user last left, whether the artifact was ever there) and bounds |

The cycle takes the operation through `BeginCommit`, `RecordPreconditions`, the
preservation steps, `CheckFinalTarget`, replacement or insertion, `Flush` and the
journal records. `ReplaceFileW` has the outcomes the code tells apart when it
inspects final file and backup; `ReplaceMayRefuse` says whether it may fail
without any effect on a healthy file, the only way to the MoveFileEx fallback.
Every runtime runs `resume_recovery_operations_after_startup` while it is built,
so a resume pass and the executor work on the same operation at the same time.

### The run

`RunControl` is the executor cycle for several targets and files: the cycle looks
at stop, pause, retained targets, reacquisition, start and preflight in the order
of `run_executor_cycle.py`, and the user's pause, resume and stop commands, absent
or refused endpoints, staging failures and decisions fall between any two of its
transactions. `run`, `tgt`, `stop`, `boundary` are catalog rows; `phase`, `fresh`,
`fails` the journal of each file; `held`, `pc`, `cur`, `from` the executor.

`RunStart` is the saga that creates a run: create (catalog), bind (recovery),
release and settle (catalog), complete both sides. Starts come from `START_RUN`
commands, with their replays, and from checks; three threads reconcile pending
handoffs when their runtime is built. A database may be busy, and, while the host
is down, replaced by an older copy (`LoseCatalog`, `LoseRecovery`).

### Versions

`VersionRetention` follows expiring versions through listing, planning, the delete
intent, the deletion of payload and manifest, and the close of the journal, with
holds and job lifecycle commands at any time. `VersionRestore` extends it with
restore, undo and the expiry of rollback objects, in the order in which one
maintenance round runs them. `at`, `on`, `loaded`, `seen` are what the thread
holds of a row; `final` is the user's file.

### The job

`Schedules` is the daily schedule, its external resource row and the Windows task:
the reconciler stages a page, claims a row, observes, applies, marks, and removes
orphans; it is owned first by the start and then by the maintenance thread. `Jobs`
adds the job's lifecycle and revisions, its commands with their receipts, trigger
occurrences, and the analysis requests that a maintenance thread works on.
`JobsSpec` is the interleaving of all of that. `Analysis` looks inside a check:
snapshot of both folders directory by directory (with rescans), sealing, hashing
of files of equal size, the planner and the save, by two passes at once, while
people edit the folders. `Duplicates` is the duplicate scan of one analysis with
its requests, cache, evidence, groups and relations.

### The target

`Endpoints` is the control area of one target folder and the installations that
write to it: classification, registration, takeover, leases. `Segments` is the
recovery intent documents of one run target with their rows and bindings.
`Staging` takes operations from PLANNED to STAGING_VERIFIED, with Robocopy batches
in a Job Object. `Directories` is the directory journal (create, quarantine,
restore, metadata) with the executor and the three threads that observe it.

### The host and its clients

`StateStores` is the pair of databases as files: restore and migration epochs with
their renames and control files. `Commands` is a mutating command from the window
to its receipt and back, the setup autosave, closing and leaving. `Paging` is how
the window reads long lists through latest-wins workers. `HostLife` is the host
process: mutex, publication and heartbeat, the launchers, trigger clients and
uninstaller that look for it, and its shutdown. `Sessions` is the pipe: hello,
session table, frame limits, timeouts and acknowledgements.

### Composition for TLC

`MCFinalCommit`, `MCRunControl`, `MCRunStart` and `MCVersions` instantiate one
specification each. `MCJobs`, `MCTarget` and `MCHost` put several modules under one
specification (the parts of a target, of the host and of a job are put together in
`Target`, `Host` and `JobWork`, which the proofs use too): a variable `part` says which of them a behaviour is about, and the
variables of the others rest in a state the program can be in (`AnRest`, `DuRest`,
`TfRest`, `DirRest`, ...). Schedules and Jobs share their variables; the other
parts of one composite meet only through data that each of them abstracts, so
their interleaving would add nothing but states. The fairness of each part (the
`...Fairness` definitions) is merged: `OfPart(a, b, ...)` names a step of each part
under one fairness condition, which for a behaviour of one part is the condition
of that part. Invariants and liveness properties of the parts are named in
aggregates (`JobsSound`, `JobsSettle`, `TargetSound`, `TargetNeverLoses`,
`TargetSettles`, `HostSound`, `HostStepsAreSound`, `HostSettles`, `VersionsSound`,
`RestoresSettle`, `RunsMoveOn`); each conjunct is stated and commented in the
module of its part, and holds trivially in the others.

## Runs

| Run | Instance | Shows |
|---|---|---|
| `commit_replace` | replacement; two edits and a deletion, one crash, one fault | `UserBytesKept`, `JournalFollowsProtocol`, and the refinement `KeepsPromise` of `SafeReplace` |
| `commit_new` | new file; three user acts, two crashes | `AppliedReachesCatalog`: an applied artifact reaches the catalog |
| `commit_fallback` | ReplaceFileW may refuse; one crash, one fault | `JournalAhead`, `AppliedMeansInstalled`, `StoresAgree`, `PreservedCarriedOn` also on the fallback path |
| `fallback_overwrites_edit` | the same, nothing else fails | *violation*: the fallback destroys an edit |
| `run_control` | two targets, three files, three commands, two faults | `PausedHoldsNoLease`, `CompletedMeansCopied`, `StoppedAtBoundary`; pauses and runs come to their end and ended runs stay (`RunsMoveOn`) |
| `run_start` | one command with replays against one check, one crash, one busy or lost database | `SettledIsBound`, `NoFalseAmbiguity`, `DivergenceBlocksCommands`, `StartsComplete` |
| `run_start_released` | one busy database | *violation*: pause and resume queue a run that was never bound |
| `versions` | two versions of two jobs, one restore, two faults, one edit | `RetainedHasBytes`, `HeldIsRetained`, `RollbackKept`, `ReplacesAsJournaled`, `VersionsSound`, `RestoresSettle` |
| `jobs` | the four parts of `MCJobs`; two commands, one occurrence, three generations, one crash; one edit or fault in the contents of a check; one in a duplicate scan | `InSyncIsRegistered`, `ArchivedIsQuiet`, `RunsCurrentContent`, `NoChangesIsTrue`, `SavingsLeaveACopy`, `JobsSound`, `JobsSettle` |
| `edited_without_check` | commands and windows only | *violation*: a plan sealed before an edit is started after it |
| `target` | the parts of `MCTarget`; two crashes, faults or edits in each | `WriterOwnsMarker`, `StartIsSafe`, `VerifiedIsJournaled`, `TargetSound`, `TargetNeverLoses`, `TargetSettles` |
| `host` | the parts of `MCHost`; one or two faults in each | `ReceiptTellsEffect`, `OneHostWorks`, `HostSound`, `HostStepsAreSound`, `HostSettles` |

The violation runs state what the repository's documents say of the program; the
quotations are in `PROJECT.json` under "findings".

**Bounds.** They are chosen so that each hazard can happen in one behaviour with
the recovery from it. One operation suffices in `FinalCommit`: operations of a
target share only the lease, whose changes are all explored. Two distinct edits
and a deletion let the user act before a check, between check and replacement, and
after it. One crash hits every step and, with the resume passes of three runtimes,
every interleaving of recovery with work; a second crash, where the state space
allows it, hits the recovery of the first. Two targets, one with two files, give
every mixture of outcomes that `run_completion` tells apart. Two commands and a
trigger around one check cover every pair of a command with a step of the check,
and a third generation of the schedule lets a reconciler be late twice. In
`MCJobs` a crash uses up a command, and a crash that interrupts nothing is left
out. Two installations, two hosts and two clients are the smallest numbers that
contend; there is no third role. The proofs below remove the bounds from the
properties they state.

Deadlock checking is off everywhere: a finished run, an idle host and a closed
window rest, and liveness says what must not rest.

**Fairness.** Weak fairness for the steps of threads whose loop catches exceptions
and begins again after its interval (`ExecutorMaintenanceLoop._run`,
`TaskSchedulerMaintenanceLoop._run`), for the serving thread, for the window's
event loop and its workers, and for the start of a host that went down (launcher,
trigger client or user). Strong fairness only where time passes independently of a
loop: a launcher's deadline (`GivesUp`) and a client's turn on a pipe that others
use as well. No fairness for crashes, faults, edits, pauses and other acts of the
user.

## Proofs

TLAPS checks eight modules, each for every value of the constants: sets of any size,
any bounds, any number of interleaved commands and crashes. The assumptions are the
named ones of the modules (bounds are natural numbers, identifiers of different
kinds differ, a plan assigns every file to a target). Each proof has the same
shape: an inductive invariant `IInv`, the lemma that `Init` establishes it, one
lemma per part and one step per action that an action preserves it, and theorems
that follow from it. The lemma `Moves` splits the next-state relation into its
actions once; frame lemmas (`OnlyWork`, `ScheduleMoves`, ...) say which actions can
disturb a conjunct at all. The inductive invariants were first checked by TLC.

| Module | Theorems | What the inductive invariant adds |
|---|---|---|
| `FinalCommitProofs` | `JournalIsAhead`, `NoFalseClaim`, `StoresAlwaysAgree`, `ProtocolFollowed`; under `~ReplaceMayRefuse` `UserBytesSafe` and the refinement `CommitKeepsPromise` | what the executor and a resume pass know at each step: the phase they will compare with, and evidence (a version object, an installed artifact) that nobody takes away |
| `RunStartProofs` | `Settled`, `NeverFalselyAmbiguous`, `NeverTwoRuns`, `DivergenceNoticed` | how the two databases stand to one another (`Agreement`), what a thread inside the saga knows (`Knows`), that main builds alone (`Shape`), and that a build that reports no disagreement has met none (`BuildIsHonest`) |
| `CommandProofs`, runs | `PausesRelease`, `CompletedIsCopied`, `StopsAtBoundary`, `EndedRunsAreFinal`, `JournalMovesOn` | what the executor knows in each step of a cycle (`CycleShape`), what the outcome of a target says of its files (`Outcomes`), that a cancelled run has nothing being planned (`CancelledShape`), that a file still to be staged has an attempt left |
| `VersionProofs` | `OffersBytes`, `HoldsKeep`, `DeletionInOrder`, `RollbackStays`, `OpenKeepsVersion`, `CompletedCanBeUndone`, `VersionsAreSound`, `ReplacesFollowJournal` | row, item and files of a version agree (`ItemsAgree`), only the first open item is journaled (`HeadOfLine`), what retention and restore know at each step, that a version serves one open restore at a time (`OneRestoreEach`) |
| `JobProofs` | `InSyncIsTrue`, `NoGenerationBack`, `ArchivedStaysQuiet`, `RunsAreCurrent`, `ScheduleIsCurrent`, `StartsAreRecorded`, `OccurrencesAreFinal` | that a claim lasts until a newer generation is asked for (`ClaimShape`), that keys are used in order (`KeysInOrder`), and how request, run, analysis and occurrence stand to one another (`AnalysisShape`, `RequestShape`) |
| `ContentProofs`, contents | `ContentsTypes`, `NoChangesIsRight`, `SnapshotsAreTrue`, `PlansMakeCopies`, `FoldersComeFirst`, `PlansAreCurrent` | what a scan has found or will still come to (`ScanFinds`), that what it has behind it was so at one moment and what it is reading is as it is unless marked dirty (`ScanIsTrue`), that sealed snapshots stay true of what was seen (`SealedIsTrue`), what the plan of a first check has become of the two trees (`CopyInv`), that nothing a check may plan from is older than its own snapshots (`CheckedLast`), that evidence is of what files were since the check began (`EvidenceIsNew`, `ReadingIsNew`), the shape of plans (`PlansShape`) |
| `ContentProofs`, copies | `CopiesTypes`, `SavingsLeave`, `EveryCopyIsFound` | members of a group are known to hold its content and rows were counted from members that are still there (`MembersAreKnown`, `RowsAreCounted`), how far requests are in each stage (`StagesInOrder`) and how often they can have been tried (`TriedEnough`), what the worker knows of the file in its hands (`WorkerKnows`) |
| `HostProofs`, processes | `OnlyOneWorks`, `QuietUntilReleased`, `ServingIsFindable`, `CleanedUp` | what the mutex lets others infer (`HostShape`), that processes are numbered in order and nothing is published twice (`Numbered`, `PubShape`), what a seeker with an old publication in hand knows (`Sees`), what it has done (`DoneBy`) |
| `HostProofs`, pipe | `SessionTypes`, `RetriesAreExact`, `SessionsAreUsed`, `RefusalsAreReal` | a client between connect and hello has an accepted connection (`AcceptedShape`), a session in the table was opened and last used no later than now (`UseShape`), and what a refused client was told about the time to wait, for its own rate and for the common one (`OwnRefusals`, `CommonRefusals`) |
| `HostProofs`, stores | `StoreTypes`, `ReplacedPairIsKept`, `PairIsOpened`, `ChangesAreBackedUp` | which files an epoch has in each phase (`EpochShape`, `AsideShape`), that catalog and recovery are exchanged together (`PairShape`), what the start, a migration and a restore know between their steps (`StartShape`, `MigShape`, `OpShape`), and what an epoch whose failed swap deleted a live database leaves behind (`LostShape`) |
| `CommandProofs`, receipts | `ReceiptsTell`, `EffectsHappenOnce`, `ReceiptsComeToAnEnd`, `AnswersTell`, `SavedIsReallyHeld`, `ReceiptsAreFinal` | who keeps which key (`Keepers`), that a key serves one kind of command (`OneUse`), what a kept key can still be answered with (`Kept`), the command in the host's hands (`SagaShape`, `OpenReceipts`), what window and host know of the draft (`DraftShape`) |
| `TargetProofs`, segments | `SegmentTypes`, `RestartIsSafe`, `IntentsAreEvidenced`, `DocumentsAgree`, `EvidenceOutlivesWork` | rows are a prefix of the sequence and chain (`RowsInOrder`, `RowShape`); a document without a row is the next one and names operations that are bound to no segment (`LooseShape`); what executor and reconciliation know between their steps (`ExecShape`, `SeenShape`, `ScanShape`) |
| `TargetProofs`, staging | `StagingTypes`, `HandedOnIsJournaled`, `PlanOrderIsKept`, `OutagesAreCheap` | a batch belongs to the first operation not staged and all its files wait for their transfer (`BatchShape`); everything past PLANNED has its hash (`HashShape`); an inbox has one entry per file (`InboxShape`), a child somebody who waits for it (`ChildShape`) |
| `TargetProofs`, directories | `DirectoryTypes`, `JournalOwnsItsWork`, `ConflictsAreCaused`, `ListedIsOnDisk`, `UserDataIsKept` | what the row, the marker, the manifest and the quarantine say of one another in each phase, and what executor and observers know of a directory they have looked at (`DirInv`) |
| `TargetProofs`, endpoints | `EndpointTypes`, `WriterIsOwner`, `EvidenceIsReal`, `LeasesAreFenced`, `OwnershipIsMoved` | what a thread inside a registration or takeover knows of its intent, the lock and the marker (`ActShape`); how an intent records what it replaces (`IntentShape`); that no lease is ahead of the marker (`GrantShape`) |

The type invariant of each module is proved as well. `TargetIsSound` and
`NothingIsLost` put the parts of `TargetProofs` together as the run `target` checks
them (module `Target`, `TargetSpec`), `VersionsAreSound` those of `VersionProofs`;
`HostStepsSound` does so for the databases and the pipe (module `Host`,
`StoresAndPipe`). `JobProofs` is about `JobsSpec`, all interleavings of commands,
triggers, analysis, reconciler and crashes, of which the run `jobs` explores two
parts separately. `NeverFalselyAmbiguous` and `Settled` are conditional on no
database having been replaced, as the documents are; `DivergenceNoticed` is what
holds otherwise, whichever of the two databases it was. `ReplacedPairIsKept` says of a
pair that an epoch replaced that it is still there, with one exception, an epoch
that lost a database when its swap failed (`lost`, see Observed behaviours);
`UserDataIsKept` that what the user made is still on the target, under its name or
in quarantine; `JournalOwnsItsWork` excepts a file of the user that was moved as the
directory; and `ConflictsAreCaused` names every cause a conflict can have: the
user, a move left without its manifest by a crash or a failed write, a race of the
program's own threads, or an undo. `UserBytesSafe` needs `~ReplaceMayRefuse` because without it the
property is false (`fallback_overwrites_edit`).

The theorems about a part are about its own specification (`AnSpec`, `DuSpec`,
`HsSpec`, `SsSpec`, `StSpec`, `SgSpec`, `TfSpec`, `DirSpec`, `EpSpec`), from its
initial states on; the runs put the parts under one specification. In `EpSpec`
every installation may register and take over, while the run lets one register,
and starts the takeover from a target in use to stay small. In `DuSpec` the
groups of a content promise what their rows say (`SavedBy` adds the rows of the
six groups a content can have), so that the theorem about savings needs no
induction over sets. The invariants of the larger parts were checked by TLC on
475,000 states (`StInv`), 180,000 (`AnInv`) and 1,100,000
(`DuInv`).

**Only model-checked.** Liveness under fairness and everything that depends on
ENABLED are beyond the prover: `AppliedReachesCatalog`, `PreservedCarriedOn`,
`StartsComplete`, the liveness in `RunsMoveOn`, `RestoresSettle`, `JobsSettle`,
`TargetSettles`, `HostSettles`. Two aggregates keep a part that is not proved:
`HostSound` those of `Paging` (merged lists); its other conjuncts are proved.

## Observed behaviours

While modelling we met the following. They are what the code does; the models
contain them, and the invariants are stated so that they say exactly what holds.

**Commit and recovery.**
An operation in COMMIT_PRECONDITIONS_REVALIDATED whose old file is still in place
is blocked by every startup resume (`application/recovery_resume.py:430`), while
`RECOVERY_PROTOCOL.md:106` lets it go on. After a pause and resume a
FINAL_VERIFIED operation stays bound to its old lease and is refused for good
(`run_catalog_handoffs.py:86`; compare `RECOVERY_PROTOCOL.md:108`). An edit that
ReplaceFileW displaced is kept, but reported as success
(`recovery_resume.py:384`). A crash after a target is claimed and before its lease
is recorded leaves ACQUIRING_LEASE (`adapters/sqlite/runs.py:1143`); a crash
between two planned operations leaves a partial plan that
`_has_any_operation` takes for a complete one (`run_operation_planning.py:168`).
A stop with two started files is refused for good (`run_stop.py:106`), and files
are begun while a stop is bound (`run_executor_cycle.py:370`).

**Commands.** A second START_RUN is answered accepted while its receipt stays
EFFECT_PREPARED (`ipc/server.py:3622`); one that finds a run past CREATED raises
outside the handler's `try` and ends the pipe loop (`server.py:3714`). The worker
of the window discards its client on any error and
`ensure_idempotency_compatible` compares the client instance, so a retry after a
lost answer is answered COMMAND_IDEMPOTENCY_CONFLICT although the effect took
place (`application/command_receipts.py:112`; compare `ARCHITECTURE.md:776`); an
autosave is then never acknowledged for that revision. A create that was rejected
keeps its key and locks the wizard until the window is restarted; the key of START
is not bound to the plan (`main_window.py:9728`).

**Versions.** An item whose job was archived after its delete intent is neither
blocked nor completed and stays at the head of the line
(`adapters/sqlite/version_retention.py:1826`). An edit between the check and
`os.replace` of a restore is lost (`adapters/version_restore.py:1103`);
`ReplacesAsJournaled` states what is guaranteed instead.

**Jobs and schedules.** An automatic start does not look at the job's lifecycle
(`application/backup_analysis.py:452`): an analysis claimed before an archive
can start a run of the archived job. An archive while a check is queued, or a
crash between completing an analysis and reconciling its trigger, leaves the
occurrence RECEIVED; a failing saga makes occurrence and request FAILED while the
run becomes active. A change of the name alone blocks a queued check. A Task
Scheduler error leaves a row CLAIMED until the next start of the host, and a task
the user changed is not repaired before the next generation.

**Checks and duplicates.** The snapshot is consistent per directory, not per tree;
hashing compares sizes, not the identity fingerprint of the snapshot; the start
pass plans without evidence that hashing refused. A duplicate request whose write
fails in the full-hash stage stays RUNNING and makes the cycle loop
(`duplicate_scanning.py:396`, the `jammed` exception of the liveness property);
groups are written once, so counts and savings become stale (`Late` in
`SavingsLeaveACopy`); hard links count as copies where file ids are not stable.

**The target.** A crash between document and row in a refresh of a commit intent
blocks the executor with TARGET_RECOVERY_INTENT_RECONCILIATION_REQUIRED; a
finalization based on an old scan leaves documents that conflict at the next start
(`target_recovery_intents.py:185`). A registration reconciled while its handler
works may be blocked by an error of a step the other thread has done already, and
the target is then owned and not registrable; a takeover of an old job revision
replaces the marker before it looks at the revision
(`writable_endpoint_registration.py:352`); a staging file torn by a crash blocks
its intent. A stray Robocopy child is not stopped from writing
(`adapters/robocopy.py:512`, `Torn` in the staging invariants), and a file removed
during a batch costs the head of the batch an attempt. A file put in place of a directory between the check that it
is empty and `os.replace` is moved to quarantine with the manifest of an empty
directory, and the journal goes on to SOURCE_PATH_REMOVED
(`adapters/final_commit.py:279`): the user's bytes are kept in quarantine
(`UserDataSurvives`), but the journal claims a directory the program never moved,
which `JournalClaimsOwnWork` names as its exception. A crash between the move of
a directory into quarantine and its manifest turns mutations off for good, and so
does a scheduler thread that looks in that window; a crash between the removal of
the marker and CLEANED reports a mismatch in each cycle.
`LocalEndpointLease.release` closes its handle before it marks the row, so a
second runtime may replace the row in between.

**State stores.** The epoch directory of a restore is made before its files are
copied: a crash leaves an epoch without intent that stops every later start
(`adapters/sqlite/state_backup.py:947`). Control files are written in place and
can be torn; a marker whose flush fails stays while its stores are rolled back
(`LeftBehind`). If the first rename of a swap fails (the database is held open, say),
its undoing unlinks the database that is still live and has no copy to bring back
(`adapters/sqlite/state_backup.py:2604`, `:2739`): a failed restore or compaction then
deletes one of the two databases, and no later start comes up. `DeletesLive` is that
step; `OldPairSurvives` and `ComesUpAgain` except the epoch it happened in, so that
they say what holds of every other failure. Compaction and retention have no production caller.

**Host, window and pipe.** A host whose publication was cleared while its heartbeat
was old ends its heartbeat for good and keeps the mutex; later launchers fail until
it ends. A launcher whose time is up can kill a host that another one has just
found. A host whose pipe loop failed gives up the mutex after a join of five
seconds although a maintenance round may go on, and that round may start a run
while a later host grants a shutdown. A page request that fails leaves the index
moved under the old page, so that the next one skips or repeats
(`main_window.py:2170`, `:2604`, `:5788`). A RuntimeError in a handler, and a
response too large for a client that is gone, end the pipe loop.

## What is not modelled

- Operation audit: derived rows that no decision reads. Presentation beyond what
  `Commands` and `Paging` follow; localization, packaging, tools and tests.
- Of the tables, the columns that no decision of the modelled code reads;
  `row_version` is abstracted by comparing the states themselves.
- Filters, named streams, reparse points, capacity, hard-link profiles and case
  modes of folders. A target folder's control area is not deleted by the user.
- One source and one target in `Analysis`, one analysis in `Duplicates`, one final
  path in the version modules, where `ARCHIVED` stands for a deleted job too.
- `Staging` abstracts the comparison of a target entry to `met`; `Directories`
  folds FINAL_DURABLE into FILESYSTEM_APPLIED, and leaves lease checks to
  `FinalCommit`.
- Older backup sets, a downgrade of the program, and the counters that admit a restore.
- `HostLife` follows maintenance rounds and runs only where a shutdown asks for
  them; a heartbeat's join is assumed to end. `Sessions` assumes that the rate
  window is not longer than the idle timeout, as the defaults are (1 s, 300 s).
- `Commands` leaves out the confirmation of job edits in `closeEvent`.

## What is left

Not proved are the merged lists of `Paging`.
