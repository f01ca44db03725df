----------------------------- MODULE StateStores -----------------------------
(***************************************************************************)
(* The two databases of an installation, catalog and recovery, as files:   *)
(* restored together from a backup set, compacted together, migrated       *)
(* together when the host starts.  A restore or a compaction is an epoch:  *)
(* a directory with an intent, then renames of both stores, then a         *)
(* committed marker.  The host rolls an epoch without marker back before   *)
(* it opens the files, and then resumes or begins a migration epoch.       *)
(*                                                                         *)
(* A file is "none", "live" (the data the host worked on), "bak" (copied   *)
(* from the backup set) or "vac" (the output of VACUUM INTO).  The sidecar *)
(* (-wal, -shm, -journal) of a live file stands for committed data that is *)
(* not in the file yet.                                                    *)
(***************************************************************************)
EXTENDS Integers, FiniteSets

CONSTANTS MaxEpochs,    \* bound: restore and compaction epochs
          KeepEpochs,   \* policy: epochs of each kind that are kept
          MaxStFaults   \* bound: crashes, failed renames, failed writes

ASSUME StateStoresAssumption == {MaxEpochs, KeepEpochs, MaxStFaults} \subseteq Nat

Stores == {"catalog", "recovery"}
Epochs == 1..MaxEpochs

(* The last schema version of each store in the two releases. *)
CatalogPlan(a) == IF a = 1 THEN 1 ELSE 3
RecoveryPlan(a) == a
Plan(a) == [s \in Stores |-> IF s = "catalog" THEN CatalogPlan(a) ELSE RecoveryPlan(a)]

VARIABLES
    main,   \* store -> its file and schema version
    wal,    \* store -> is there a sidecar of the live file?
    ep,     \* epoch -> its control files and the files it put aside
    mig,    \* the last migration epoch
    bk,     \* the backup set of that epoch
    host,   \* what the host is doing
    op,     \* the restore or compaction under way
    app,    \* the release that is installed
    busy,   \* the stores in which work is open
    newer,  \* intent documents on a target newer than the backup set
    stFaults

stVars == <<main, wal, ep, mig, bk, host, op, app, busy, newer, stFaults>>
fileVars == <<main, wal, ep>>

Absent == [f |-> "none", v |-> 0]
NoFiles == [s \in Stores |-> "none"]
NoEpoch == [k |-> "restore", intent |-> "none", marker |-> "none", dir |-> FALSE, left |-> FALSE,
            lost |-> {}, temp |-> NoFiles, rb |-> [s \in Stores |-> Absent], walrb |-> {}, side |-> {}]
NoMig == [st |-> "none", before |-> Plan(1), target |-> Plan(1), backup |-> "NOT_REQUIRED",
          verified |-> {}]
NoBk == [st |-> "none", v |-> Plan(1)]
IdleOp == [pc |-> "idle", e |-> 0, swapped |-> {}]

StInit ==
    /\ main = [s \in Stores |-> Absent] /\ wal = {} /\ ep = [e \in Epochs |-> NoEpoch]
    /\ mig = NoMig /\ bk = NoBk /\ host = "down" /\ op = IdleOp
    /\ app = 1 /\ busy = {} /\ newer = FALSE /\ stFaults = 0

StFault == stFaults < MaxStFaults /\ stFaults' = stFaults + 1

-----------------------------------------------------------------------------
(* Control files.                                                          *)

Terminal(e) == ep[e].marker # "none"
Incomplete(k) == {e \in Epochs : ep[e].dir /\ ep[e].k = k /\ ~Terminal(e)}
SetEpoch(e, r) == ep' = [ep EXCEPT ![e] = r]

(* Maintenance is admitted when no run, receipt or outbox message is open   *)
(* in the catalog, no lease or intent segment in the recovery database, and *)
(* no epoch is unfinished.                                                  *)
CatalogOpen == "catalog" \in busy
RecoveryOpen == "recovery" \in busy
Blockers ==
    {b \in {"catalog", "recovery", "restore", "compaction"} :
        CASE b = "catalog" -> CatalogOpen [] b = "recovery" -> RecoveryOpen [] OTHER -> Incomplete(b) # {}}
Admitted == Blockers = {}

-----------------------------------------------------------------------------
(* A restore or a compaction.                                              *)

(* Both close the host's databases; only a restart opens them again.       *)
(* Epochs are numbered in the order of their names, which are times.       *)
Begin(e, k) ==
    /\ host = "up" /\ Admitted /\ host' = "closed"
    /\ \A x \in Epochs : ep[x].dir = (x < e)
    /\ SetEpoch(e, [NoEpoch EXCEPT !.k = k])
    /\ wal' \in SUBSET wal
    /\ op' = [pc |-> "plan", e |-> e, swapped |-> {}]
    /\ UNCHANGED <<main, mig, bk, app, busy, newer, stFaults>>
RestoreState(e) == Begin(e, "restore")
CompactState(e) == Begin(e, "compaction")

Quit == op' = IdleOp
InOp(pc) == op.pc = pc
Keeping == UNCHANGED <<mig, bk, app, busy, newer, host>>

(* A restore is refused while a target holds intents the backup set does    *)
(* not know of; its directory is made before the files are copied.          *)
PlanRestore ==
    /\ InOp("plan") /\ ep[op.e].k = "restore"
    /\ IF bk.st # "manifest" \/ newer THEN Quit /\ UNCHANGED ep
       ELSE op' = [op EXCEPT !.pc = "prepare"] /\ SetEpoch(op.e, [ep[op.e] EXCEPT !.dir = TRUE])
    /\ Keeping /\ UNCHANGED <<main, wal, stFaults>>
(* A compaction writes its files first. *)
PlanCompaction ==
    /\ InOp("plan") /\ ep[op.e].k = "compaction" /\ op' = [op EXCEPT !.pc = "prepare"]
    /\ Keeping /\ UNCHANGED <<fileVars, stFaults>>

Prepared == {s \in Stores : ep[op.e].temp[s] # "none"}
PrepareAs(s, f) ==
    /\ SetEpoch(op.e, [ep[op.e] EXCEPT !.temp[s] = f, !.side = IF s \in wal THEN @ \cup {s} ELSE @])
    /\ op' = [op EXCEPT !.pc = IF Prepared \cup {s} = Stores THEN "intent" ELSE "prepare"]
PrepareRestoreFile(s) ==
    /\ InOp("prepare") /\ ep[op.e].k = "restore" /\ s \notin Prepared /\ PrepareAs(s, "bak")
    /\ Keeping /\ UNCHANGED <<main, wal, stFaults>>
PrepareCompactionFile(s) ==
    /\ InOp("prepare") /\ ep[op.e].k = "compaction" /\ s \notin Prepared /\ PrepareAs(s, "vac")
    /\ Keeping /\ UNCHANGED <<main, wal, stFaults>>

(* A copy that fails removes the copies again, not the directory. *)
PrepareFails ==
    /\ InOp("prepare") /\ StFault /\ Quit /\ SetEpoch(op.e, [ep[op.e] EXCEPT !.temp = NoFiles])
    /\ Keeping /\ UNCHANGED <<main, wal>>

WriteIntent ==
    /\ InOp("intent") /\ SetEpoch(op.e, [ep[op.e] EXCEPT !.dir = TRUE, !.intent = "ok"])
    /\ op' = [op EXCEPT !.pc = "swap"] /\ Keeping /\ UNCHANGED <<main, wal, stFaults>>

(* One store after the other, the catalog first: the live file and its      *)
(* sidecar are put aside, the new file takes the name.                      *)
Swapping == IF "catalog" \in op.swapped THEN "recovery" ELSE "catalog"
VersionOf(f, s) == IF f = "bak" THEN bk.v[s] ELSE ep[op.e].rb[s].v
PutAside(s) ==
    /\ InOp("swap") /\ s = Swapping /\ main[s].f # "none" /\ ep[op.e].rb[s].f = "none"
    /\ main' = [main EXCEPT ![s] = Absent] /\ SetEpoch(op.e, [ep[op.e] EXCEPT !.rb[s] = main[s]])
    /\ Keeping /\ UNCHANGED <<wal, op, stFaults>>
PutSidecarAside(s) ==
    /\ InOp("swap") /\ s = Swapping /\ ep[op.e].rb[s].f # "none" /\ s \in wal \cap ep[op.e].side
    /\ wal' = wal \ {s} /\ SetEpoch(op.e, [ep[op.e] EXCEPT !.walrb = @ \cup {s}])
    /\ Keeping /\ UNCHANGED <<main, op, stFaults>>
TakeName(s) ==
    /\ main' = [main EXCEPT ![s] = [f |-> ep[op.e].temp[s], v |-> VersionOf(ep[op.e].temp[s], s)]]
    /\ SetEpoch(op.e, [ep[op.e] EXCEPT !.temp[s] = "none"])
    /\ op' = [op EXCEPT !.swapped = @ \cup {s}, !.pc = IF op.swapped \cup {s} = Stores THEN "commit" ELSE "swap"]
SwapRestoreFile(s) ==
    /\ InOp("swap") /\ ep[op.e].k = "restore" /\ s = Swapping
    /\ ep[op.e].rb[s].f # "none" /\ s \notin wal \cap ep[op.e].side /\ TakeName(s)
    /\ Keeping /\ UNCHANGED <<wal, stFaults>>
SwapCompactionFile(s) ==
    /\ InOp("swap") /\ ep[op.e].k = "compaction" /\ s = Swapping
    /\ ep[op.e].rb[s].f # "none" /\ s \notin wal \cap ep[op.e].side /\ TakeName(s)
    /\ Keeping /\ UNCHANGED <<wal, stFaults>>

(* Both files are verified under their names before the marker is written. *)
WriteCommitted ==
    /\ InOp("commit") /\ SetEpoch(op.e, [ep[op.e] EXCEPT !.marker = "committed"]) /\ Quit
    /\ Keeping /\ UNCHANGED <<main, wal, stFaults>>

(* A rename, a check or the write of the marker fails: what was swapped is  *)
(* undone at once.  A marker that could not be flushed stays behind.  The   *)
(* undoing of a store whose first rename failed unlinks the live file, which *)
(* nothing brings back ("lost"); if the unlink fails too, the file stays.   *)
DeletesLive(s) ==
    /\ InOp("swap") /\ s = Swapping /\ main[s].f # "none" /\ ep[op.e].rb[s].f = "none"
    /\ main' = [main EXCEPT ![s] = Absent] /\ SetEpoch(op.e, [ep[op.e] EXCEPT !.lost = @ \cup {s}])
LeavesMarker(m) == InOp("commit") /\ SetEpoch(op.e, [ep[op.e] EXCEPT !.marker = m, !.left = TRUE]) /\ UNCHANGED main
SwapFails ==
    /\ op.pc \in {"swap", "commit"} /\ StFault /\ op' = [op EXCEPT !.pc = "undo"]
    /\ \/ UNCHANGED <<main, ep>>
       \/ \E s \in Stores : DeletesLive(s)
       \/ \E m \in {"torn", "committed"} : LeavesMarker(m)
    /\ Keeping /\ UNCHANGED wal

(* What an epoch put aside comes back: the file, then its sidecar. *)
ToUndo(e) == {s \in Stores : ep[e].rb[s].f # "none" \/ s \in ep[e].walrb}
UndoMain(e, s) ==
    /\ ep[e].rb[s].f # "none"
    /\ IF main[s].f # "none" THEN main' = [main EXCEPT ![s] = Absent] /\ UNCHANGED ep
       ELSE main' = [main EXCEPT ![s] = ep[e].rb[s]] /\ SetEpoch(e, [ep[e] EXCEPT !.rb[s] = Absent])
    /\ UNCHANGED wal
UndoSidecar(e, s) ==
    /\ ep[e].rb[s].f = "none" /\ s \in ep[e].walrb
    /\ wal' = wal \cup {s} /\ SetEpoch(e, [ep[e] EXCEPT !.walrb = @ \ {s}]) /\ UNCHANGED main
UndoOrder(e, s) == s \in ToUndo(e) /\ (s = "recovery" \/ "recovery" \notin ToUndo(e))
UndoStep ==
    /\ InOp("undo")
    /\ \/ \E s \in Stores : UndoOrder(op.e, s) /\ (UndoMain(op.e, s) \/ UndoSidecar(op.e, s)) /\ UNCHANGED op
       \/ ToUndo(op.e) = {} /\ Quit /\ UNCHANGED fileVars
    /\ Keeping /\ UNCHANGED stFaults

-----------------------------------------------------------------------------
(* Starting the host.                                                      *)

Starting == UNCHANGED <<op, app, busy, newer, stFaults>>
StartHost ==
    /\ host = "down" /\ host' = "restores" /\ Starting /\ UNCHANGED <<fileVars, mig, bk>>

(* An unfinished epoch without a readable intent ends the start. *)
Refuse == host' = "down" /\ UNCHANGED <<fileVars, mig, bk>>
UnreadableRestore == \E e \in Incomplete("restore") : ep[e].intent # "ok"
UnreadableCompaction == \E e \in Incomplete("compaction") : ep[e].intent # "ok"
Unreadable(k) == IF k = "restore" THEN UnreadableRestore ELSE UnreadableCompaction
\* Mutant: an epoch without a marker is left as it is.
SkipRollback(k) ==
    /\ Incomplete(k) # {} /\ ~Unreadable(k)
    /\ LET e == CHOOSE x \in Incomplete(k) : TRUE IN SetEpoch(e, [ep[e] EXCEPT !.marker = "rolled_back"])
    /\ UNCHANGED <<main, wal, mig, bk, host>>
RollBackEpoch(k) ==
    /\ Incomplete(k) # {} /\ ~Unreadable(k) /\ UNCHANGED <<mig, bk, host>>
    /\ LET e == CHOOSE x \in Incomplete(k) : \A y \in Incomplete(k) : x <= y IN
       \/ ep[e].temp # NoFiles /\ SetEpoch(e, [ep[e] EXCEPT !.temp = NoFiles]) /\ UNCHANGED <<main, wal>>
       \/ /\ ep[e].temp = NoFiles
          /\ \E s \in Stores : UndoOrder(e, s) /\ (UndoMain(e, s) \/ UndoSidecar(e, s))
       \/ /\ ep[e].temp = NoFiles /\ ToUndo(e) = {}
          /\ SetEpoch(e, [ep[e] EXCEPT !.marker = "rolled_back"]) /\ UNCHANGED <<main, wal>>
RollBackRestore == RollBackEpoch("restore")
RollBackCompaction == RollBackEpoch("compaction")
RecoverRestoreEpochs ==
    /\ host = "restores"
    /\ \/ Unreadable("restore") /\ Refuse
       \/ RollBackRestore
       \/ Incomplete("restore") = {} /\ host' = "compactions" /\ UNCHANGED <<fileVars, mig, bk>>
    /\ Starting
RecoverCompactionEpochs ==
    /\ host = "compactions"
    /\ \/ Unreadable("compaction") /\ Refuse
       \/ RollBackCompaction
       \/ Incomplete("compaction") = {} /\ host' = "reconcile" /\ UNCHANGED <<fileVars, mig, bk>>
    /\ Starting

(* The markers of restore epochs must be readable. *)
TornRestore == \E e \in Epochs : ep[e].k = "restore" /\ ep[e].marker = "torn"
ReconcileCommitted ==
    /\ host = "reconcile" /\ Starting
    /\ IF TornRestore THEN Refuse ELSE host' = "scan" /\ UNCHANGED <<fileVars, mig, bk>>

PendingEpoch == mig.st = "intent"
SettledEpoch == mig.st \in {"none", "committed"}
Versions == [s \in Stores |-> main[s].v]
Initialized == {s \in Stores : main[s].v > 0}
AtTarget == Versions = Plan(app)

(* A migration epoch whose intent was never published is removed; a pending *)
(* one is resumed; a new one begins when a store is behind.                 *)
ScanEpochs ==
    /\ host = "scan" /\ Starting
    /\ \/ mig.st = "dir" /\ mig' = NoMig /\ UNCHANGED <<fileVars, bk, host>>
       \/ PendingEpoch /\ host' = "backup" /\ UNCHANGED <<fileVars, mig, bk>>
       \/ SettledEpoch /\ AtTarget /\ host' = "open" /\ UNCHANGED <<fileVars, mig, bk>>
       \/ /\ SettledEpoch /\ ~AtTarget
          /\ IF Initialized \in {{}, Stores}
             THEN /\ mig' = [NoMig EXCEPT !.st = "dir"] /\ bk' = NoBk /\ host' = "intent"
                  /\ UNCHANGED fileVars
             ELSE Refuse

CreateEpochIntent ==
    /\ host = "intent" /\ host' = "backup" /\ Starting /\ UNCHANGED <<fileVars, bk>>
    /\ mig' = [st |-> "intent", before |-> Versions, target |-> Plan(app),
               backup |-> IF Initialized = {} THEN "NOT_REQUIRED" ELSE "PENDING",
               verified |-> {s \in Stores : main[s].v = Plan(app)[s]}]

InRange == \A s \in Stores : mig.before[s] <= main[s].v /\ main[s].v <= mig.target[s]
(* No store of an initialised pair is touched before both are backed up: a  *)
(* set without manifest is made anew.                                       *)
EnsureBackup ==
    /\ host = "backup" /\ Starting /\ UNCHANGED fileVars
    /\ \/ /\ ~InRange \/ (mig.backup = "PENDING" /\ Versions # mig.before)
          /\ host' = "down" /\ UNCHANGED <<mig, bk>>
       \/ InRange /\ mig.backup # "PENDING" /\ host' = "apply" /\ UNCHANGED <<mig, bk>>
       \/ /\ mig.backup = "PENDING" /\ Versions = mig.before /\ bk.st = "none"
          /\ bk' = [st |-> "partial", v |-> Versions] /\ host' = "manifest" /\ UNCHANGED mig
       \/ /\ mig.backup = "PENDING" /\ Versions = mig.before /\ bk.st = "partial"
          /\ bk' = NoBk /\ UNCHANGED <<mig, host>>
       \/ /\ mig.backup = "PENDING" /\ Versions = mig.before /\ bk.st = "manifest"
          /\ mig' = [mig EXCEPT !.backup = "VERIFIED"] /\ host' = "apply" /\ UNCHANGED bk
CreateBackupSet ==
    /\ host = "manifest" /\ bk' = [bk EXCEPT !.st = "manifest"] /\ host' = "backup"
    /\ Starting /\ UNCHANGED <<fileVars, mig>>

(* Stores are migrated in order, one transaction per version. *)
NextStore == IF "catalog" \in mig.verified THEN "recovery" ELSE "catalog"
MigrateOneStore ==
    /\ host = "apply" /\ mig.verified # Stores /\ main[NextStore].v < mig.target[NextStore]
    /\ main' = [main EXCEPT ![NextStore] = [f |-> IF @.f = "none" THEN "live" ELSE @.f, v |-> @.v + 1]]
    /\ Starting /\ UNCHANGED <<wal, ep, mig, bk, host>>
MarkStoreVerified ==
    /\ host = "apply" /\ mig.verified # Stores /\ main[NextStore].v = mig.target[NextStore]
    /\ mig' = [mig EXCEPT !.verified = @ \cup {NextStore}] /\ Starting /\ UNCHANGED <<fileVars, bk, host>>
CommitMigration ==
    /\ host = "apply" /\ mig.verified = Stores
    /\ mig' = [mig EXCEPT !.st = "committed"] /\ host' = "scan" /\ Starting /\ UNCHANGED <<fileVars, bk>>

(* From here on the files are the live ones. *)
OpenStores ==
    /\ host = "open" /\ host' = "up"
    /\ main' = [s \in Stores |-> [main[s] EXCEPT !.f = "live"]]
    /\ UNCHANGED <<wal, ep, mig, bk, op, app, busy, newer, stFaults>>

-----------------------------------------------------------------------------
(* The running host, and its end.                                          *)

(* Work is accepted and finished; a write leaves a sidecar. *)
WorkOn ==
    /\ host = "up" /\ busy' \in SUBSET Stores /\ wal' = Stores
    /\ newer' \in (IF bk.st = "manifest" THEN BOOLEAN ELSE {FALSE})
    /\ UNCHANGED <<main, ep, mig, bk, host, op, app, stFaults>>

(* Finished epochs beyond the newest of their kind go, with what they put   *)
(* aside; unfinished and unreadable ones stay.                              *)
Readable(e) == ep[e].marker \in {"committed", "rolled_back"}
FinishedRestores == {e \in Epochs : ep[e].k = "restore" /\ Readable(e)}
FinishedCompactions == {e \in Epochs : ep[e].k = "compaction" /\ Readable(e)}
Older(E) == {e \in E : Cardinality({x \in E : x > e}) >= KeepEpochs}
Disposable == Older(FinishedRestores) \cup Older(FinishedCompactions)
PruneEpochs ==
    /\ host = "up" /\ Admitted /\ Disposable # {}
    /\ ep' = [e \in Epochs |-> IF e \in Disposable THEN NoEpoch ELSE ep[e]]
    /\ UNCHANGED <<main, wal, mig, bk, host, op, app, busy, newer, stFaults>>

(* A stop of the host tears the control file it is writing, except those of *)
(* a migration, which are renamed into place.                               *)
StCrash ==
    /\ host # "down" /\ StFault /\ host' = "down" /\ op' = IdleOp
    /\ \/ UNCHANGED ep
       \/ /\ op.pc \in {"intent", "commit"}
          /\ SetEpoch(op.e, IF InOp("intent") THEN [ep[op.e] EXCEPT !.dir = TRUE, !.intent = "torn"]
                            ELSE [ep[op.e] EXCEPT !.marker = "torn"])
    /\ UNCHANGED <<main, wal, mig, bk, app, busy, newer>>

(* The operator restarts a host that closed its stores, with the work done. *)
CloseHost ==
    /\ host \in {"up", "closed"} /\ op = IdleOp /\ busy = {} /\ host' = "down"
    /\ wal' = (IF host = "up" THEN {} ELSE wal)
    /\ UNCHANGED <<main, ep, mig, bk, op, app, busy, newer, stFaults>>
UpgradeApp ==
    /\ host = "down" /\ app = 1 /\ app' = 2 /\ UNCHANGED <<fileVars, mig, bk, host, op, busy, newer, stFaults>>

OpStep ==
    \/ PlanRestore \/ PlanCompaction \/ WriteIntent \/ WriteCommitted \/ UndoStep
    \/ \E s \in Stores : PrepareRestoreFile(s) \/ PrepareCompactionFile(s) \/ PutAside(s)
                         \/ PutSidecarAside(s) \/ SwapRestoreFile(s) \/ SwapCompactionFile(s)
StartStep ==
    \/ StartHost \/ RecoverRestoreEpochs \/ RecoverCompactionEpochs \/ ReconcileCommitted
    \/ ScanEpochs \/ CreateEpochIntent \/ EnsureBackup \/ CreateBackupSet
    \/ MigrateOneStore \/ MarkStoreVerified \/ CommitMigration \/ OpenStores
StNext ==
    \/ OpStep \/ StartStep \/ PrepareFails \/ SwapFails
    \/ \E e \in Epochs : RestoreState(e) \/ CompactState(e)
    \/ WorkOn \/ PruneEpochs \/ StCrash \/ CloseHost \/ UpgradeApp

StSpec == StInit /\ [][StNext]_stVars

(* The launcher starts a host that is not running. *)
StFairness == WF_stVars(StartStep) /\ WF_stVars(OpStep) /\ WF_stVars(CloseHost)

-----------------------------------------------------------------------------
(* Properties.                                                             *)

(* Values of the variables. *)
StTypeOK ==
    /\ \A s \in Stores : main[s].f \in {"none", "live", "bak", "vac"} /\ (main[s].f = "none") = (main[s].v = 0)
    /\ wal \subseteq Stores /\ busy \subseteq Stores /\ app \in 1..2
    /\ mig.verified \subseteq Stores /\ op.swapped \subseteq Stores

(* The host opens one pair: both stores as they were, or both as an epoch   *)
(* with a marker left them, at the schema of the installed release, and   *)
(* no file beside the sidecar of another.  Not so after a marker whose      *)
(* write failed stayed behind and a stop then cut the undoing short.        *)
LeftBehind == \E e \in Epochs : ep[e].left
OpensOnePair ==
    [][(host = "open" /\ host' = "up" /\ ~LeftBehind) =>
         /\ main["catalog"].f = main["recovery"].f /\ Versions = Plan(app)
         /\ main["catalog"].f # "live" => /\ wal = {}
                                          /\ \E e \in Epochs : ep[e].marker \in {"committed", "torn"}]_stVars

(* Until an epoch is committed, the pair it replaces still exists, under    *)
(* its names or put aside: with one exception, a store that the undoing of  *)
(* a failed first rename unlinked (state_backup.py:2605, 2740), and that is *)
(* then absent, never replaced by the half of another pair.                 *)
OldPairSurvives ==
    \A s \in Stores : main[s].f \in {"none", "bak", "vac"} /\ Initialized # {} =>
        \/ \E e \in Epochs : ep[e].rb[s].f = "live"
        \/ \E e \in Epochs : ep[e].marker \in {"committed", "torn"}
        \/ main[s].f = "none" /\ \E e \in Epochs : s \in ep[e].lost
        \/ mig.st = "intent" /\ mig.backup = "NOT_REQUIRED"

(* The schema of an initialised store only changes once both stores are in  *)
(* a complete backup set, as they were before the epoch.                    *)
BackedUpBeforeChange ==
    [][\A s \in Stores : (main[s].v > 0 /\ main[s].f = main'[s].f /\ main'[s].v > main[s].v) =>
          \/ mig.backup = "NOT_REQUIRED" /\ mig.before[s] = 0
          \/ bk.st = "manifest" /\ bk.v = mig.before]_stVars

(* However often it is stopped, the host comes up again, unless a stop or a *)
(* failure left an epoch without an intent, with a torn control file or     *)
(* with a marker whose write had failed, or a failed first rename led the   *)
(* program to unlink a live database: the other store alone is refused.     *)
StartRefused == TornRestore \/ Unreadable("restore") \/ Unreadable("compaction")
LiveLost == \E e \in Epochs : ep[e].lost # {}
ComesUpAgain == []<>(host = "up" \/ StartRefused \/ LeftBehind \/ LiveLost)
=============================================================================
