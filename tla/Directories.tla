---------------------------- MODULE Directories ----------------------------
(***************************************************************************)
(* Directory mutations on a target and their own journal.  One operation   *)
(* of one kind is followed:                                                *)
(*   CREATE      a directory staged with a marker is moved to its place    *)
(*   QUARANTINE  an empty directory is moved aside and replaced by a file; *)
(*               the explicit RESTORE puts an empty directory back         *)
(*   METADATA    the planned modified time is given to a directory         *)
(* Every kind has a success path; a journal entry moves along it one state *)
(* at a time, or to the conflict state of its kind.  The executor commits  *)
(* while the task scheduler thread may still be in the reconciliation that *)
(* every runtime begins with: three threads run that pass at each start.   *)
(*                                                                         *)
(* What stands at the final path:                                          *)
(*   absent, empty, full     nothing, an empty directory, a directory with *)
(*                           entries of the user                           *)
(*   marked, shared          a directory with our marker only, with our    *)
(*                           marker and entries of the user                *)
(*   ours, alien             the committed file, a file of the user        *)
(***************************************************************************)
EXTENDS Integers

CONSTANTS DirKinds,      \* kinds of operation explored
          MaxDirEvents,  \* bound: edits of the user
          MaxDirFaults   \* bound: crashes and failed calls

ASSUME DirAssumption ==
    /\ DirKinds \subseteq {"CREATE", "QUARANTINE", "METADATA"}
    /\ MaxDirEvents \in Nat /\ MaxDirFaults \in Nat

VARIABLES
    dkind,    \* kind of the operation
    dph,      \* phase of the recovery operation; FINAL_DURABLE is part of APPLIED
    dj,       \* its directory journal entry: index on the success path, or Conflict
    rj,       \* journal entry of the explicit restore, or Unrecorded
    fin,      \* what stands at the final path
    staged,   \* the verified payload is in staging
    qp, qm,   \* what is in quarantine, and whether its manifest is there
    mtime,    \* modified time of the directory
    mcat,     \* the catalog holds the applied metadata
    dpc,      \* where the executor is inside an operation
    held,     \* the journal index the executor believes in
    rec,      \* the reconciliation pass of each thread
    open,     \* the executor may mutate: its pass found no conflict
    made,     \* the directory change was really carried out
    trouble,  \* what has come in the way so far
    devents, dfaults

dirStore == <<dph, dj, rj, mcat>>
dirDisk == <<fin, staged, qp, qm, mtime>>
dirHost == <<dpc, held, rec, open>>
dirSeen == <<made, trouble, devents, dfaults>>
dirVars == <<dkind, dirStore, dirDisk, dirHost, dirSeen>>

Conflict == 9
Unrecorded == -1
DirThreads == {"main", "executor", "scheduler"}

\* SUCCESS_PATH_BY_KIND: index of the last state; the one before it is reached
\* when the change was verified
Last(k) == IF k = "METADATA" THEN 6 ELSE 5
\* _reconciliation_indexes: the state that records the intent
IntentIndex(k) == IF k = "METADATA" THEN 3 ELSE 2
VerifiedIndex(k) == Last(k) - 1

Pass(at, from, cat, goal) == [at |-> at, from |-> from, cat |-> cat, goal |-> goal]
PassDue == Pass("due", 0, FALSE, 0)
PassOver == Pass("over", 0, FALSE, 0)

-----------------------------------------------------------------------------
(* The directory journal *)

\* transition_directory_recovery_operation: answered when the row holds the
\* expected state, or the next one already
Moves(row, from, next) == row \in {from, next}
\* validate_directory_recovery_transition: one step along the path, or the
\* conflict state; a terminal state is left by neither
Lawful(k, from, next) == from < Last(k) /\ next \in {from + 1, Conflict}

Troubled(t) == trouble' = trouble \cup t
DirFault == dfaults < MaxDirFaults /\ dfaults' = dfaults + 1

-----------------------------------------------------------------------------
(* What is on the disk *)

\* directory_artifact_matches: the directory holds the marker and nothing else
Matches == fin = "marked"
IsDirectory == fin \in {"empty", "full", "marked", "shared"}

\* Mutant: any directory at the path counts as the created one.
ObserveCreateByPath ==
    IF fin = "absent" THEN "not" ELSE "applied"

\* Evidence of the reconciler: "applied", "not", "conflict"
ObserveCreate ==
    IF fin = "absent" THEN "not" ELSE IF Matches THEN "applied" ELSE "conflict"

QuarantineEvidence ==
    IF qp = "none" /\ ~qm THEN "not"
    ELSE IF qp = "empty" /\ qm THEN "applied" ELSE "conflict"

ObserveQuarantine ==
    CASE QuarantineEvidence = "not" -> IF fin = "empty" THEN "not" ELSE "conflict"
      [] QuarantineEvidence = "applied" -> IF IsDirectory THEN "conflict" ELSE "applied"
      [] OTHER -> "conflict"

ObserveRestore ==
    IF QuarantineEvidence # "applied" THEN "conflict"
    ELSE IF fin = "absent" THEN "not" ELSE IF fin = "empty" THEN "applied" ELSE "conflict"

ObserveMetadata ==
    IF ~IsDirectory THEN "conflict" ELSE IF mtime = "want" THEN "applied" ELSE "not"

Observe == [CREATE |-> ObserveCreate, QUARANTINE |-> ObserveQuarantine,
            METADATA |-> ObserveMetadata][dkind]

-----------------------------------------------------------------------------
(* Reconciliation after startup *)

\* _catalog_terminal
CatalogTerminal == IF dkind = "METADATA" THEN mcat ELSE dph \in {"CATALOGED", "CLEANED"}

\* the decision of _reconcile_one: the index to advance to, or Conflict
Goal(k, from, cat, evidence) ==
    IF from < IntentIndex(k) THEN from
    ELSE IF from = VerifiedIndex(k) /\ cat THEN Last(k)
    ELSE IF evidence = "unavailable" THEN from
    ELSE IF evidence = "conflict" THEN Conflict
    ELSE IF evidence = "not" THEN IF from = IntentIndex(k) THEN from ELSE Conflict
    ELSE IF from > VerifiedIndex(k) THEN from ELSE VerifiedIndex(k)

\* a pass over the restore entry is folded into the listing: it is the only
\* other entry, and nothing but an explicit restore moves it
RestoreGoal(seen) == Goal("RESTORE", rj, dph = "CANCELLED", seen)

\* the endpoint's root cannot be resolved, or its entry not read
Unseen(seen) == seen = "unavailable"

\* list_conflicted first: a conflict found there makes the pass unsafe; then
\* the unresolved entries are listed
ListEntries(t) ==
    /\ rec[t].at = "due"
    /\ t # "main" => rec["main"].at = "over"
    /\ \E seen \in {ObserveRestore, "unavailable"} :
         /\ IF Unseen(seen) THEN rj \in 0 .. 4 /\ DirFault ELSE UNCHANGED dfaults
         /\ rj' = IF rj \in 0 .. 4 THEN RestoreGoal(seen) ELSE rj
    /\ rec' = [rec EXCEPT ![t] =
                  IF dj < Last(dkind) THEN Pass("listed", dj, FALSE, 0)
                  ELSE Pass("resume", 0, FALSE, 0)]
    /\ open' = IF t = "executor" THEN dj # Conflict /\ rj' # Conflict ELSE open
    /\ UNCHANGED <<dkind, dph, dj, mcat, dirDisk, dpc, held, made, trouble, devents>>

\* the observer loads the recovery operation, then looks at the disk
LoadGeneric(t) ==
    /\ rec[t].at = "listed"
    /\ rec' = [rec EXCEPT ![t].at = "loaded", ![t].cat = CatalogTerminal]
    /\ UNCHANGED <<dkind, dirStore, dirDisk, dpc, held, open, dirSeen>>

\* a directory caught between its move and its manifest looks incomplete;
\* without evidence the entry stays where it is, and the pass counts as safe
LookAtDisk(t) ==
    /\ rec[t].at = "loaded"
    /\ \E seen \in {Observe, "unavailable"} :
         LET goal == Goal(dkind, rec[t].from, rec[t].cat, seen) IN
         /\ IF Unseen(seen) THEN DirFault ELSE UNCHANGED dfaults
         /\ rec' = [rec EXCEPT ![t].at = "moving", ![t].goal = goal]
         /\ Troubled(IF Unseen(seen) THEN {"failed"}
                     ELSE IF goal = Conflict /\ dpc = "moved" THEN {"race"} ELSE {})
    /\ UNCHANGED <<dkind, dirStore, dirDisk, dpc, held, open, made, devents>>

\* one step of _advance_to, or _record_conflict; a row that has moved on ends
\* the thread: its runtime cannot be built
AdvanceEntry(t) ==
    LET r == rec[t]
        next == IF r.goal = Conflict THEN Conflict ELSE r.from + 1
    IN
    /\ r.at = "moving" /\ r.from # r.goal
    /\ Lawful(dkind, r.from, next)
    /\ IF Moves(dj, r.from, next)
       THEN /\ dj' = next
            /\ rec' = [rec EXCEPT ![t] = IF next = Conflict THEN Pass("resume", 0, FALSE, 0)
                                         ELSE [r EXCEPT !.from = next]]
            /\ open' = IF t = "executor" /\ next = Conflict THEN FALSE ELSE open
            /\ UNCHANGED trouble
       ELSE /\ rec' = [rec EXCEPT ![t] = Pass("dead", 0, FALSE, 0)]
            /\ Troubled({"race"})
            /\ UNCHANGED <<dj, open>>
    /\ UNCHANGED <<dkind, dph, rj, mcat, dirDisk, dpc, held, made, devents, dfaults>>

EndEntries(t) ==
    /\ rec[t].at = "moving" /\ rec[t].from = rec[t].goal
    /\ rec' = [rec EXCEPT ![t] = Pass("resume", 0, FALSE, 0)]
    /\ UNCHANGED <<dkind, dirStore, dirDisk, dpc, held, open, dirSeen>>

\* verify_final_artifact
FinalIsThere == IF dkind = "CREATE" THEN Matches ELSE fin = "ours"

\* _record_directory_catalog_terminal: in the transaction that records the
\* catalog, the journal entry is moved from verified to terminal
CatalogJournaled ==
    /\ dj \in {VerifiedIndex(dkind), Last(dkind)}
    /\ dj' = Last(dkind)

\* resume_recovery_operations_after_startup: first the operations whose file
\* system work may be done, then the catalog handoff
Resume(t) ==
    /\ rec[t].at = "resume"
    /\ rec' = [rec EXCEPT ![t].at = "handoff"]
    /\ dph' = IF dph \in {"PRECOND", "PRESERVED", "APPLIED"} /\ FinalIsThere
              THEN "VERIFIED" ELSE dph
    /\ UNCHANGED <<dkind, dj, rj, mcat, dirDisk, dpc, held, open, dirSeen>>

ResumeHandoff(t) ==
    /\ rec[t].at = "handoff"
    /\ rec' = [rec EXCEPT ![t] = PassOver]
    /\ \/ dph = "VERIFIED" /\ CatalogJournaled /\ dph' = "CATALOGED"
       \/ (dph # "VERIFIED" \/ dj < VerifiedIndex(dkind) \/ dj = Conflict) /\ UNCHANGED <<dph, dj>>
    /\ UNCHANGED <<dkind, rj, mcat, dirDisk, dpc, held, open, dirSeen>>

Reconciler(t) ==
    \/ ListEntries(t) \/ LoadGeneric(t) \/ LookAtDisk(t) \/ AdvanceEntry(t)
    \/ EndEntries(t) \/ Resume(t) \/ ResumeHandoff(t)

-----------------------------------------------------------------------------
(* The executor: commit *)

Running == rec["executor"].at = "over" /\ open

\* prepare_directory_create: absent with the marker still staged, or done before
CreatePrepared == IF fin = "absent" THEN staged ELSE Matches
\* prepare_directory_quarantine and _validate_existing_quarantine_payload
QuarantinePrepared ==
    IF qp = "none" THEN fin = "empty" ELSE qp = "empty" /\ fin = "absent"
DirPrepared(k) == IF k = "CREATE" THEN CreatePrepared ELSE QuarantinePrepared

\* _record_failure: recovery_phase_for_commit_failure
CommitFails(phase) == dph' = phase /\ dpc' = "idle" /\ Troubled({"failed"})

\* _load_and_validate_operation, then _prepare_directory_mutation up to the
\* evidence; an entry in conflict, or contrary evidence, fails the operation
BeginCommit ==
    /\ Running /\ dpc = "idle" /\ dph = "INTENT"
    /\ \/ /\ DirPrepared(dkind) /\ dj # Conflict
          /\ dpc' = "prepared" /\ held' = dj
          /\ UNCHANGED <<dph, trouble>>
       \/ /\ ~DirPrepared(dkind) \/ dj = Conflict
          /\ CommitFails("FAILED") /\ UNCHANGED held
    /\ UNCHANGED <<dkind, dj, rj, mcat, dirDisk, rec, open, made, devents, dfaults>>

\* one transition of _advance_directory_to from the index the executor holds;
\* an entry that is ahead already is left alone
Forward(target) ==
    /\ held < target /\ Moves(dj, held, held + 1)
    /\ dj' = held + 1 /\ held' = held + 1
Displaced(target) == held < target /\ ~Moves(dj, held, held + 1)

\* the transitions before the intent are inside the handler that records a failure
RecordIntent ==
    /\ dpc = "prepared"
    /\ \/ Forward(2) /\ UNCHANGED <<dph, dpc, trouble>>
       \/ /\ held >= 2 /\ dph = "INTENT"
          /\ dph' = "PRECOND" /\ dpc' = "allowed"
          /\ UNCHANGED <<dj, held, trouble>>
       \/ Displaced(2) /\ CommitFails("FAILED") /\ UNCHANGED <<dj, held>>
    /\ UNCHANGED <<dkind, rj, mcat, dirDisk, rec, open, made, devents, dfaults>>

\* _commit_new_directory
CreateDirectory ==
    /\ dpc = "allowed" /\ dkind = "CREATE"
    /\ \/ /\ fin = "absent" /\ staged
          /\ fin' = "marked" /\ staged' = FALSE /\ made' = TRUE
          /\ dpc' = "applied" /\ UNCHANGED <<dph, trouble>>
       \/ /\ Matches /\ dpc' = "applied"
          /\ UNCHANGED <<dph, fin, staged, made, trouble>>
       \/ /\ ~Matches /\ ~(fin = "absent" /\ staged)
          /\ CommitFails("FAILED") /\ UNCHANGED <<fin, staged, made>>
    /\ UNCHANGED <<dkind, dj, rj, mcat, qp, qm, mtime, held, rec, open, devents, dfaults>>

\* _preserve_empty_directory_target up to its last check
CheckQuarantine ==
    /\ dpc = "allowed" /\ dkind = "QUARANTINE"
    /\ \/ QuarantinePrepared /\ dpc' = (IF qp = "none" THEN "checked" ELSE "moved")
          /\ UNCHANGED <<dph, trouble>>
       \/ ~QuarantinePrepared /\ CommitFails("FAILED")
    /\ UNCHANGED <<dkind, dj, rj, mcat, dirDisk, held, rec, open, made, devents, dfaults>>

\* os.replace of whatever is there by now: a file that has taken the place of
\* the directory since the check is put into quarantine in its stead
MoveToQuarantine ==
    /\ dpc = "checked"
    /\ \/ /\ fin # "absent"
          /\ qp' = (IF fin = "empty" THEN "empty" ELSE IF IsDirectory THEN "full" ELSE "file")
          /\ fin' = "absent" /\ made' = (made \/ IsDirectory)
          /\ dpc' = "moved" /\ UNCHANGED <<dph, trouble>>
       \/ fin = "absent" /\ CommitFails("FAILED") /\ UNCHANGED <<fin, qp, made>>
    /\ UNCHANGED <<dkind, dj, rj, mcat, staged, qm, mtime, held, rec, open, devents, dfaults>>

\* _write_quarantine_manifest: one that is there already has another creation
\* time and is refused
WriteManifest ==
    /\ dpc = "moved"
    /\ IF qm THEN CommitFails("FAILED") /\ UNCHANGED qm
       ELSE qm' = TRUE /\ dpc' = "kept" /\ UNCHANGED <<dph, trouble>>
    /\ UNCHANGED <<dkind, dj, rj, mcat, fin, staged, qp, mtime, held, rec, open,
                   made, devents, dfaults>>

\* the preserved phase is journaled by compare-and-set, then the entry is
\* advanced to SOURCE_PATH_REMOVED outside any handler
RecordPreserved ==
    /\ dpc = "kept"
    /\ \/ /\ dph = "PRECOND" /\ dph' = "PRESERVED"
          /\ UNCHANGED <<dj, held, dpc, trouble>>
       \/ /\ dph = "PRESERVED" /\ Forward(4) /\ UNCHANGED <<dph, dpc, trouble>>
       \/ /\ dph = "PRESERVED" /\ held >= 4
          /\ dpc' = "replacing" /\ UNCHANGED <<dph, dj, held, trouble>>
       \/ /\ dph \notin {"PRECOND", "PRESERVED"} \/ Displaced(4)
          /\ dpc' = "idle" /\ Troubled({"race"}) /\ UNCHANGED <<dph, dj, held>>
    /\ UNCHANGED <<dkind, rj, mcat, dirDisk, rec, open, made, devents, dfaults>>

\* commit_next_run_target_verified_artifact of an operation found PRESERVED:
\* _reconcile_preserved_directory_quarantine, whose errors record nothing
ResumePreserved ==
    /\ Running /\ dpc = "idle" /\ dph = "PRESERVED" /\ dj # Conflict
    /\ QuarantinePrepared /\ dpc' = "kept" /\ held' = dj
    /\ UNCHANGED <<dkind, dirStore, dirDisk, rec, open, dirSeen>>

\* _commit_new_file
PlaceFile ==
    /\ dpc = "replacing"
    /\ IF fin = "absent" /\ staged
       THEN fin' = "ours" /\ staged' = FALSE /\ dpc' = "applied" /\ UNCHANGED <<dph, trouble>>
       ELSE CommitFails(IF fin = "absent" THEN "FAILED" ELSE "DECIDE")
            /\ UNCHANGED <<fin, staged>>
    /\ UNCHANGED <<dkind, dj, rj, mcat, qp, qm, mtime, held, rec, open, made, devents, dfaults>>

\* FILESYSTEM_APPLIED and the verified phase; a CREATE entry is advanced to
\* CREATED before and to IDENTITY_VERIFIED after the former
RecordApplied ==
    /\ dpc = "applied"
    /\ LET before == IF dkind = "CREATE" THEN 3 ELSE 0
           after == IF dkind = "CREATE" THEN 4 ELSE 0
           source == IF dkind = "CREATE" THEN "PRECOND" ELSE "PRESERVED"
       IN
       \/ /\ dph = source /\ Forward(before) /\ UNCHANGED <<dph, dpc, trouble>>
       \/ /\ dph = source /\ held >= before
          /\ dph' = "APPLIED" /\ UNCHANGED <<dj, held, dpc, trouble>>
       \/ /\ dph = "APPLIED" /\ Forward(after) /\ UNCHANGED <<dph, dpc, trouble>>
       \/ /\ dph = "APPLIED" /\ held >= after
          /\ dph' = "VERIFIED" /\ dpc' = "idle" /\ UNCHANGED <<dj, held, trouble>>
       \/ /\ \/ dph \notin {source, "APPLIED"}
             \/ dph = source /\ Displaced(before)
             \/ dph = "APPLIED" /\ Displaced(after)
          /\ dpc' = "idle" /\ Troubled({"race"}) /\ UNCHANGED <<dph, dj, held>>
    /\ UNCHANGED <<dkind, rj, mcat, dirDisk, rec, open, made, devents, dfaults>>

-----------------------------------------------------------------------------
(* The executor: catalog, cleanup *)

\* record_next_run_target_catalog_handoff
RecordCatalog ==
    /\ Running /\ dpc = "idle" /\ dph = "VERIFIED"
    /\ CatalogJournaled /\ dph' = "CATALOGED"
    /\ UNCHANGED <<dkind, rj, mcat, dirDisk, dirHost, dirSeen>>

\* _cleanup_staging_object: whatever of the payload is left
StagingRemoved == staged' = FALSE

\* cleanup_recovery_objects, _cleanup_created_directory_marker
RemoveMarker ==
    /\ Running /\ dpc = "idle" /\ dph = "CATALOGED"
    /\ dkind = "CREATE" => Matches
    /\ StagingRemoved
    /\ fin' = IF dkind = "CREATE" THEN "empty" ELSE fin
    /\ dpc' = "cleaned"
    /\ UNCHANGED <<dkind, dirStore, qp, qm, mtime, held, rec, open, dirSeen>>

RecordCleaned ==
    /\ dpc = "cleaned"
    /\ dpc' = "idle" /\ dph' = "CLEANED"
    /\ UNCHANGED <<dkind, dj, rj, mcat, dirDisk, held, rec, open, dirSeen>>

-----------------------------------------------------------------------------
(* Explicit restore of a quarantined directory *)

\* _prepare_empty_directory_restore_state
RestorePrepared == qp = "empty" /\ qm /\ fin \in {"absent", "empty"}

\* _prepare_directory_restore: the entry is recorded, then the evidence checked
BeginRestore ==
    /\ Running /\ dpc = "idle" /\ dph = "PRESERVED" /\ rj # Conflict
    /\ rj' = IF rj = Unrecorded THEN 0 ELSE rj
    /\ held' = rj'
    /\ dpc' = IF RestorePrepared THEN "restoring" ELSE "idle"
    /\ Troubled({"undone"})
    /\ UNCHANGED <<dkind, dph, dj, mcat, dirDisk, rec, open, made, devents, dfaults>>

\* _advance_directory_restore_to around restore_old_target and the CANCELLED
\* phase; the entries are moved by compare-and-set
StepRestore ==
    /\ dpc = "restoring"
    /\ \/ /\ held < 2 /\ Moves(rj, held, held + 1)
          /\ rj' = held + 1 /\ held' = held + 1 /\ UNCHANGED <<dph, fin, dpc>>
       \/ /\ held \in 2 .. 4 /\ dph = "PRESERVED" /\ RestorePrepared
          /\ fin' = "empty" /\ dpc' = "restored" /\ UNCHANGED <<dph, rj, held>>
       \/ /\ IF held < 2 THEN ~Moves(rj, held, held + 1) ELSE ~RestorePrepared
          /\ dpc' = "idle" /\ UNCHANGED <<dph, rj, held, fin>>
    /\ UNCHANGED <<dkind, dj, mcat, staged, qp, qm, mtime, rec, open, dirSeen>>

EndRestore ==
    /\ dpc = "restored"
    /\ \/ /\ held < 4 /\ Moves(rj, held, held + 1)
          /\ rj' = held + 1 /\ held' = held + 1 /\ UNCHANGED <<dph, dpc>>
       \/ /\ held = 4 /\ dph = "PRESERVED" /\ dph' = "CANCELLED" /\ UNCHANGED <<rj, held, dpc>>
       \/ /\ dph = "CANCELLED" /\ Moves(rj, 4, 5)
          /\ rj' = 5 /\ held' = 5 /\ dpc' = "idle" /\ UNCHANGED dph
       \/ /\ \/ held < 4 /\ ~Moves(rj, held, held + 1)
             \/ held >= 4 /\ dph # "PRESERVED" /\ ~(dph = "CANCELLED" /\ Moves(rj, 4, 5))
          /\ dpc' = "idle" /\ UNCHANGED <<dph, rj, held>>
    /\ UNCHANGED <<dkind, dj, mcat, dirDisk, rec, open, dirSeen>>

-----------------------------------------------------------------------------
(* Directory metadata: apply_directory_metadata_lifecycle *)

\* children_are_terminal, prepare_directory_metadata and the intent
PrepareMetadata ==
    /\ Running /\ dpc = "idle" /\ dkind = "METADATA" /\ dj < 3
    /\ dj = 1 => IsDirectory
    /\ dj' = dj + 1
    /\ UNCHANGED <<dkind, dph, rj, mcat, dirDisk, dirHost, dirSeen>>

\* os.utime
ApplyMetadata ==
    /\ Running /\ dpc = "idle" /\ dkind = "METADATA" /\ dj = 3 /\ IsDirectory
    /\ mtime' = "want" /\ made' = TRUE /\ dpc' = "timed"
    /\ UNCHANGED <<dkind, dirStore, fin, staged, qp, qm, held, rec, open, trouble, devents, dfaults>>

RecordMetadataApplied ==
    /\ dpc = "timed"
    /\ dpc' = "idle"
    /\ IF Moves(dj, 3, 4) THEN dj' = 4 /\ UNCHANGED trouble
       ELSE UNCHANGED dj /\ Troubled({"race"})
    /\ UNCHANGED <<dkind, dph, rj, mcat, dirDisk, held, rec, open, made, devents, dfaults>>

\* record_directory_metadata: once, then answered with the record that is there
RecordMetadata == mcat' = TRUE

\* verify_directory_metadata, twice; then the catalog, then the last state
VerifyMetadata ==
    /\ Running /\ dpc = "idle" /\ dkind = "METADATA" /\ IsDirectory /\ mtime = "want"
    /\ \/ dj = 4 /\ dj' = 5 /\ UNCHANGED mcat
       \/ dj = 5 /\ ~mcat /\ RecordMetadata /\ UNCHANGED dj
       \/ dj = 5 /\ mcat /\ dj' = 6 /\ UNCHANGED mcat
    /\ UNCHANGED <<dkind, dph, rj, dirDisk, dirHost, dirSeen>>

-----------------------------------------------------------------------------
(* Crashes, failed calls, the user *)

\* a file system call of the executor fails inside its handler
CallFails ==
    /\ DirFault
    /\ \/ dpc \in {"allowed", "checked", "moved", "replacing"} /\ dph' = "FAILED"
          /\ Troubled(IF dpc = "moved" /\ ~qm THEN {"failed", "torn"} ELSE {"failed"})
    /\ dpc' = "idle"
    /\ UNCHANGED <<dkind, dj, rj, mcat, dirDisk, held, rec, open, made, devents>>

\* what a crash leaves behind that no later start can finish: a quarantined
\* directory without manifest, a revalidated operation whose change is not
\* there, a cleaned directory not journaled
CrashLeaves ==
    (IF dpc = "moved" /\ ~qm THEN {"torn", "gap"} ELSE {})
    \cup (IF \/ dpc = "cleaned" /\ dkind = "CREATE"
             \/ dph = "PRECOND" /\ ~FinalIsThere THEN {"gap"} ELSE {})

CrashHost ==
    /\ DirFault
    /\ Troubled(CrashLeaves)
    /\ dpc' = "idle" /\ held' = 0 /\ open' = FALSE
    /\ rec' = [t \in DirThreads |-> PassDue]
    /\ UNCHANGED <<dkind, dirStore, dirDisk, made, devents>>

EditTarget ==
    /\ devents < MaxDirEvents
    /\ devents' = devents + 1 /\ Troubled({"edit"})
    /\ fin' \in CASE fin = "absent" -> {"empty", "full", "alien"}
                  [] fin = "empty" -> {"full", "absent"}
                  [] fin = "marked" -> {"shared", "absent"}
                  [] OTHER -> {fin}
    /\ fin' # fin
    /\ mtime' = "other"
    /\ UNCHANGED <<dkind, dirStore, staged, qp, qm, dirHost, made, dfaults>>

DirExecutor ==
    \/ BeginCommit \/ RecordIntent \/ CreateDirectory \/ CheckQuarantine
    \/ MoveToQuarantine \/ WriteManifest \/ RecordPreserved \/ ResumePreserved
    \/ PlaceFile \/ RecordApplied \/ RecordCatalog \/ RemoveMarker \/ RecordCleaned
    \/ StepRestore \/ EndRestore
    \/ PrepareMetadata \/ ApplyMetadata \/ RecordMetadataApplied \/ VerifyMetadata

\* record_directory_recovery_operation: the first event of the chain
PlannedEntry == dj = 0

\* _record_directory_recovery_if_applicable: the entry is planned together
\* with the operation; here the operation has its commit intent
DirInit ==
    /\ dkind \in DirKinds
    /\ dph = (IF dkind = "METADATA" THEN "NONE" ELSE "INTENT")
    /\ PlannedEntry /\ rj = Unrecorded /\ mcat = FALSE
    /\ fin = (IF dkind = "CREATE" THEN "absent" ELSE "empty")
    /\ staged = (dkind # "METADATA")
    /\ qp = "none" /\ qm = FALSE /\ mtime = "old"
    /\ dpc = "idle" /\ held = 0 /\ open = FALSE
    /\ rec = [t \in DirThreads |-> PassDue]
    /\ made = FALSE /\ trouble = {} /\ devents = 0 /\ dfaults = 0

DirNext ==
    \/ DirExecutor \/ BeginRestore
    \/ \E t \in DirThreads : Reconciler(t)
    \/ CallFails \/ CrashHost \/ EditTarget

DirSpec == DirInit /\ [][DirNext]_dirVars

DirFairness ==
    /\ WF_dirVars(DirExecutor)
    /\ \A t \in DirThreads : WF_dirVars(Reconciler(t))

-----------------------------------------------------------------------------
(* Properties *)

\* Every variable of the directory operation keeps its type.
DirTypeOK ==
    /\ dph \in {"NONE", "INTENT", "PRECOND", "PRESERVED", "APPLIED", "VERIFIED",
                "CATALOGED", "CLEANED", "CANCELLED", "FAILED", "DECIDE"}
    /\ dj \in 0 .. Last(dkind) \cup {Conflict}
    /\ rj \in -1 .. 5 \cup {Conflict}
    /\ fin \in {"absent", "empty", "full", "marked", "shared", "ours", "alien"}
    /\ qp \in {"none", "empty", "full", "file"} /\ mtime \in {"old", "want", "other"}
    /\ {staged, qm, mcat, open, made} \subseteq BOOLEAN
    /\ dpc \in {"idle", "prepared", "allowed", "checked", "moved", "kept", "replacing",
                "applied", "cleaned", "restoring", "restored", "timed"}
    /\ held \in 0 .. 6
    /\ \A t \in DirThreads : rec[t].at \in {"due", "listed", "loaded", "moving", "resume",
                                            "handoff", "over", "dead"}
    /\ trouble \subseteq {"edit", "torn", "race", "gap", "failed", "undone"}

UserFile == fin \in {"full", "shared", "alien"} \/ qp \in {"full", "file"}

\* Nothing the user has put at the final path is lost by the operation: a
\* directory that got an entry after it was found empty is moved aside with its
\* entry, and so is a file that took its place, the cleanup of a created
\* directory takes only the marker away, and neither the commit nor a restore
\* writes over a file or over the quarantined object (os.replace and
\* _validate_existing_quarantine_payload, move_path_write_through).
UserDataSurvives == [][UserFile => UserFile']_dirVars

\* The journal says that the directory was created, moved or dated only when
\* the program did that: a directory of the user at the planned path is never
\* taken for the created one, whoever advances the entry, the executor or a
\* reconciler that only sees the disk.  The one exception is the code's own:
\* the move of a quarantine takes a file of the user that has replaced the
\* directory, and journals it as the directory (final_commit.py:280-288).
JournalClaimsOwnWork ==
    dj \in (IntentIndex(dkind) + 1) .. Last(dkind) => made \/ qp = "file"

\* The conflict state, which disables mutations at every later start, is
\* recorded only when the user changed the target, a directory was left
\* without its manifest, or a restore or another thread came in between.
ConflictHasACause == dj = Conflict => trouble \cap {"edit", "torn", "race", "undone"} # {}

\* An operation recorded in the catalog is on the disk as long as the user
\* leaves it alone: its directory entry is terminal, the new file stands where
\* the quarantined directory stood and the quarantine object is complete; a
\* cleaned directory no longer holds the marker.
CatalogIsOnDisk ==
    (dph \in {"CATALOGED", "CLEANED"}) =>
        /\ dj = Last(dkind)
        /\ dkind = "QUARANTINE" => qp # "none" /\ qm
        /\ "edit" \notin trouble =>
             IF dkind = "QUARANTINE" THEN fin = "ours"
             ELSE fin \in (IF dph = "CLEANED" THEN {"empty"} ELSE {"marked", "empty"})

Finished == dph = "CLEANED" \/ (dkind = "METADATA" /\ dj = Last(dkind))

\* Through any crash outside the named windows the operation is finished, with
\* the startup passes and the executor taking turns; what may stop it is an
\* edit, a failed call, a lost race or a restore.
DirectoryFinishes == []<>(Finished \/ trouble # {})
=============================================================================
