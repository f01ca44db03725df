--------------------------- MODULE VersionRestore ---------------------------
(***************************************************************************)
(* Restoring a retained version to its final path, undoing a restore, and  *)
(* the expiry of the rollback object an undo needs.  All versions belong   *)
(* to one final path.  A restore copies the current final to a rollback    *)
(* object, replaces the final, verifies it and releases the hold; every    *)
(* step is journaled, and a crash resumes from the journal.  The final     *)
(* belongs to the user, who may change or delete it at any time.           *)
(*                                                                         *)
(* A fingerprint is the content itself: v > 0 is that of version v, -1 is  *)
(* what the final held first, each edit a new negative number, 0 no file.  *)
(***************************************************************************)
EXTENDS VersionRetention

CONSTANTS Restores,    \* restore commands, in the order of their creation
          MaxEdits     \* bound: changes of the final by the user

ASSUME RestoreAssumption ==
    Restores \subseteq Nat \ {0} /\ MaxEdits \in Nat

Missing == 0    \* no file

VARIABLES
    op, source, current,   \* restore operations: state, version, fingerprint
    rb, rbDue, asked,      \* rollback rows, their expiry, undo requests on the way
    copy, proof,           \* rollback payload (its content) and manifest
    final,                 \* the user's file
    loaded, seen,          \* the thread: state of the loaded row, content seen
    edits

journal == <<op, source, current, rb, rbDue>>
rollbackFiles == <<copy, proof>>
retention == <<objects, files>>
vars == <<retention, thread, faults, journal, asked, rollbackFiles, final,
          loaded, seen, edits>>

RestoreStates == {"none", "REQUESTED", "INTENT_RECORDED", "CURRENT_FINAL_PRESERVED",
                  "HISTORICAL_APPLIED", "FINAL_VERIFIED", "COMPLETED", "FAILED_BLOCKED"}
UndoStates == {"UNDO_REQUESTED", "UNDO_INTENT_RECORDED", "UNDO_APPLIED", "UNDO_VERIFIED"}
RollbackStates == UndoStates \cup
    {"none", "AVAILABLE", "UNDONE", "EXPIRY_INTENT_RECORDED", "EXPIRED", "FAILED_BLOCKED"}

Init ==
    /\ RetInit
    /\ op = [r \in Restores |-> "none"] /\ source = [r \in Restores |-> 0]
    /\ current = [r \in Restores |-> Missing]
    /\ rb = [r \in Restores |-> "none"] /\ rbDue = {} /\ asked = {}
    /\ copy = [r \in Restores |-> Missing] /\ proof = {}
    /\ final = -1 /\ loaded = "none" /\ seen = Missing
    /\ edits = 0

-----------------------------------------------------------------------------
(* Shared steps of the thread *)

\* The cycle is done with its row and passes on to the next part of the round.
PassOn(l) ==
    /\ Goto(l) /\ on' = 0 /\ loaded' = "none" /\ seen' = Missing
    /\ UNCHANGED <<resuming, listed>>
NewRound == EndRound /\ loaded' = "none" /\ seen' = Missing
Stay(l) == Goto(l) /\ UNCHANGED <<on, resuming, listed, loaded, seen>>

Holds(r) == hold[source[r]] /\ obj[source[r]] = "RETAINED"

\* A restore row moves on only from the loaded state, and while the version is
\* retained and on hold; a rollback row only from the loaded state.
MoveRestore(r, from, to) ==
    /\ op[r] \in from /\ Holds(r) /\ op' = [op EXCEPT ![r] = to]
MoveRollback(r, from, to) ==
    /\ rb[r] \in from /\ rb' = [rb EXCEPT ![r] = to]

HistoricalIntact(r) == source[r] \in payload /\ source[r] \in manifest
RollbackIntact(r) == copy[r] = current[r] /\ r \in proof

-----------------------------------------------------------------------------
(* Restore *)

\* RESTORE_RETAINED_VERSION: one restore per hold.
Restorable(v) == /\ obj[v] = "RETAINED" /\ hold[v]
                 /\ \A r \in Restores : source[r] = v => op[r] = "COMPLETED"
RequestRestore(r, v) ==
    /\ op[r] = "none" /\ \A q \in Restores : q < r => op[q] # "none"
    /\ Restorable(v)
    /\ op' = [op EXCEPT ![r] = "REQUESTED"] /\ source' = [source EXCEPT ![r] = v]
    /\ UNCHANGED <<retention, thread, faults, current, rb, rbDue, asked,
                   rollbackFiles, final, loaded, seen, edits>>

\* Mutant: a verified restore counts as done.
RestoresBeforeVerified == {r \in Restores :
    op[r] \notin {"none", "FINAL_VERIFIED", "COMPLETED", "FAILED_BLOCKED"}}
OpenRestores == {r \in Restores : op[r] \notin {"none", "COMPLETED", "FAILED_BLOCKED"}}
NextRestore == CHOOSE r \in OpenRestores : \A q \in OpenRestores : r <= q

RestoreIdle ==
    /\ at = "restore" /\ OpenRestores = {} /\ PassOn("retain")
    /\ UNCHANGED <<retention, faults, journal, asked, rollbackFiles, final, edits>>

RestoreWithoutLease ==
    /\ at = "restore" /\ OpenRestores # {} /\ op[NextRestore] # "FINAL_VERIFIED"
    /\ Fault /\ PassOn("retain")
    /\ UNCHANGED <<retention, journal, asked, rollbackFiles, final, edits>>

\* The row is loaded under a new lease; a journaled restore is bound to it.
LoadRestore ==
    /\ at = "restore" /\ OpenRestores # {}
    /\ on' = NextRestore
    /\ at' = CASE op[NextRestore] = "REQUESTED" -> "inspect"
               [] op[NextRestore] = "INTENT_RECORDED" -> "preservePayload"
               [] op[NextRestore] = "CURRENT_FINAL_PRESERVED" -> "applyCheck"
               [] op[NextRestore] = "HISTORICAL_APPLIED" -> "verify"
               [] op[NextRestore] = "FINAL_VERIFIED" -> "completeRestore"
    /\ UNCHANGED <<retention, faults, resuming, listed, journal, asked,
                   rollbackFiles, final, loaded, seen, edits>>

ReleaseHold(v) == hold' = [hold EXCEPT ![v] = FALSE]

\* The final already is the version: the restore completes without rollback.
RestoreAlreadyCurrent ==
    /\ at = "inspect" /\ HistoricalIntact(on) /\ final = source[on]
    /\ MoveRestore(on, {"REQUESTED"}, "COMPLETED") /\ ReleaseHold(source[on])
    /\ PassOn("retain")
    /\ UNCHANGED <<job, obj, item, due, files, faults, source, current,
                   rb, rbDue, asked, rollbackFiles, final, edits>>

\* The fingerprint of the final is journaled before anything is written.
RecordRestoreIntent ==
    /\ at = "inspect" /\ HistoricalIntact(on) /\ final \notin {source[on], Missing}
    /\ MoveRestore(on, {"REQUESTED"}, "INTENT_RECORDED")
    /\ current' = [current EXCEPT ![on] = final] /\ Stay("preservePayload")
    /\ UNCHANGED <<retention, faults, source, rb, rbDue, asked, rollbackFiles,
                   final, edits>>

\* Mutant: the final is copied whatever it has become since the intent.
PreserveAnything ==
    /\ at = "preservePayload" /\ HistoricalIntact(on) /\ final # Missing
    /\ copy' = [copy EXCEPT ![on] = IF @ = Missing THEN final ELSE @]
    /\ Stay("preserveManifest")
    /\ UNCHANGED <<retention, faults, journal, asked, proof, final, edits>>

PreservePayload ==
    /\ at = "preservePayload" /\ HistoricalIntact(on) /\ final = current[on]
    /\ copy' = [copy EXCEPT ![on] = IF @ = Missing THEN final ELSE @]
    /\ Stay("preserveManifest")
    /\ UNCHANGED <<retention, faults, journal, asked, proof, final, edits>>

PreserveManifest ==
    /\ at = "preserveManifest" /\ proof' = proof \cup {on} /\ Stay("preserved")
    /\ UNCHANGED <<retention, faults, journal, asked, copy, final, edits>>

RecordPreserved ==
    /\ at = "preserved"
    /\ MoveRestore(on, {"INTENT_RECORDED"}, "CURRENT_FINAL_PRESERVED")
    /\ Stay("applyCheck")
    /\ UNCHANGED <<retention, faults, source, current, rb, rbDue, asked,
                   rollbackFiles, final, edits>>

\* The final is looked at once more; a final that already is the version was
\* replaced before a crash.
\* Mutant: any final is taken for the one that was preserved.
ApplyCheckAny ==
    /\ at = "applyCheck" /\ HistoricalIntact(on) /\ RollbackIntact(on)
    /\ seen' = final
    /\ Goto(IF final = source[on] THEN "applied" ELSE "replace")
    /\ UNCHANGED <<retention, faults, on, resuming, listed, loaded, journal, asked,
                   rollbackFiles, final, edits>>

ApplyCheck ==
    /\ at = "applyCheck" /\ HistoricalIntact(on) /\ RollbackIntact(on)
    /\ final \in {source[on], current[on]}
    /\ seen' = final
    /\ Goto(IF final = source[on] THEN "applied" ELSE "replace")
    /\ UNCHANGED <<retention, faults, on, resuming, listed, loaded, journal, asked,
                   rollbackFiles, final, edits>>

\* os.replace takes whatever is at the path by then.
ReplaceFinal ==
    /\ at = "replace" /\ final' = source[on] /\ Stay("applied")
    /\ UNCHANGED <<retention, faults, journal, asked, rollbackFiles, edits>>

RecordApplied ==
    /\ at = "applied"
    /\ MoveRestore(on, {"CURRENT_FINAL_PRESERVED"}, "HISTORICAL_APPLIED")
    /\ Stay("verify")
    /\ UNCHANGED <<retention, faults, source, current, rb, rbDue, asked,
                   rollbackFiles, final, edits>>

VerifyRestored ==
    /\ at = "verify" /\ HistoricalIntact(on) /\ final = source[on]
    /\ MoveRestore(on, {"HISTORICAL_APPLIED"}, "FINAL_VERIFIED")
    /\ Stay("completeRestore")
    /\ UNCHANGED <<retention, faults, source, current, rb, rbDue, asked,
                   rollbackFiles, final, edits>>

\* The operation, the hold and the rollback row in one transaction.
\* Mutant: the rollback row is left for later.
CompleteWithoutRollback ==
    /\ at = "completeRestore"
    /\ MoveRestore(on, {"FINAL_VERIFIED"}, "COMPLETED")
    /\ PassOn("retain")
    /\ UNCHANGED <<job, obj, hold, item, due, files, faults, source, current,
                   rb, rbDue, asked, rollbackFiles, final, edits>>

CompleteRestore ==
    /\ at = "completeRestore"
    /\ MoveRestore(on, {"FINAL_VERIFIED"}, "COMPLETED") /\ ReleaseHold(source[on])
    /\ rb' = [rb EXCEPT ![on] = "AVAILABLE"]
    /\ PassOn("retain")
    /\ UNCHANGED <<job, obj, item, due, files, faults, source, current,
                   rbDue, asked, rollbackFiles, final, edits>>

\* A check fails: the restore waits for a review, hold and rollback are kept.
RestoreRefused ==
    \/ at = "inspect" /\ (~HistoricalIntact(on) \/ final = Missing)
    \/ at = "preservePayload" /\ (~HistoricalIntact(on) \/ final # current[on])
    \/ at = "applyCheck" /\ ~(HistoricalIntact(on) /\ RollbackIntact(on)
                               /\ final \in {source[on], current[on]})
    \/ at = "verify" /\ (~HistoricalIntact(on) \/ final # source[on])
BlockRestore ==
    /\ RestoreRefused
    /\ MoveRestore(on, {op[on]}, "FAILED_BLOCKED") /\ PassOn("retain")
    /\ UNCHANGED <<retention, faults, source, current, rb, rbDue, asked,
                   rollbackFiles, final, edits>>

\* A retryable file error leaves the journal where it is.
RestoreRetry ==
    /\ at \in {"preservePayload", "preserveManifest", "replace"}
    /\ Fault /\ PassOn("retain")
    /\ UNCHANGED <<retention, journal, asked, rollbackFiles, final, edits>>

RestoreThread ==
    \/ RestoreIdle \/ LoadRestore \/ RestoreAlreadyCurrent \/ RecordRestoreIntent
    \/ PreservePayload \/ PreserveManifest \/ RecordPreserved \/ ApplyCheck
    \/ ReplaceFinal \/ RecordApplied \/ VerifyRestored \/ CompleteRestore \/ BlockRestore

-----------------------------------------------------------------------------
(* Undo *)

\* UNDO_RETAINED_VERSION_RESTORE: the clock is read when the command arrives,
\* the window is compared with it in the transaction.
UndoArrives(r) ==
    /\ rb[r] = "AVAILABLE" /\ r \notin rbDue /\ r \notin asked
    /\ asked' = asked \cup {r}
    /\ UNCHANGED <<retention, thread, faults, journal, rollbackFiles, final,
                   loaded, seen, edits>>

RequestUndo(r) ==
    /\ r \in asked /\ asked' = asked \ {r}
    /\ rb' = IF rb[r] = "AVAILABLE" THEN [rb EXCEPT ![r] = "UNDO_REQUESTED"] ELSE rb
    /\ UNCHANGED <<retention, thread, faults, op, source, current, rbDue,
                   rollbackFiles, final, loaded, seen, edits>>

OpenUndos == {r \in Restores : rb[r] \in UndoStates}

UndoIdle ==
    /\ at = "undo" /\ OpenUndos = {} /\ PassOn("expire")
    /\ UNCHANGED <<retention, faults, journal, asked, rollbackFiles, final, edits>>

UndoWithoutLease ==
    /\ at = "undo" /\ OpenUndos # {} /\ Fault /\ PassOn("expire")
    /\ UNCHANGED <<retention, journal, asked, rollbackFiles, final, edits>>

LoadUndo(r) ==
    /\ at = "undo" /\ r \in OpenUndos /\ on' = r
    /\ at' = CASE rb[r] = "UNDO_REQUESTED" -> "undoInspect"
               [] rb[r] = "UNDO_INTENT_RECORDED" -> "undoCheck"
               [] rb[r] = "UNDO_APPLIED" -> "undoVerify"
               [] rb[r] = "UNDO_VERIFIED" -> "undoComplete"
    /\ UNCHANGED <<retention, faults, resuming, listed, journal, asked,
                   rollbackFiles, final, loaded, seen, edits>>

\* The final must be what the restore left or what the undo would install.
Undoable(r) == RollbackIntact(r) /\ final \in {source[r], current[r]}

RecordUndoIntent ==
    /\ at = "undoInspect" /\ Undoable(on)
    /\ MoveRollback(on, {"UNDO_REQUESTED"}, "UNDO_INTENT_RECORDED") /\ Stay("undoCheck")
    /\ UNCHANGED <<retention, faults, op, source, current, rbDue, asked,
                   rollbackFiles, final, edits>>

\* Unlike the inspection, this check accepts a final that is gone.
UndoCheck ==
    /\ at = "undoCheck" /\ (Undoable(on) \/ (RollbackIntact(on) /\ final = Missing))
    /\ seen' = final
    /\ Goto(IF final = current[on] THEN "undoApplied" ELSE "undoReplace")
    /\ UNCHANGED <<retention, faults, on, resuming, listed, loaded, journal, asked,
                   rollbackFiles, final, edits>>

UndoReplace ==
    /\ at = "undoReplace" /\ final' = copy[on] /\ Stay("undoApplied")
    /\ UNCHANGED <<retention, faults, journal, asked, rollbackFiles, edits>>

RecordUndoApplied ==
    /\ at = "undoApplied"
    /\ MoveRollback(on, {"UNDO_INTENT_RECORDED"}, "UNDO_APPLIED") /\ Stay("undoVerify")
    /\ UNCHANGED <<retention, faults, op, source, current, rbDue, asked,
                   rollbackFiles, final, edits>>

VerifyUndo ==
    /\ at = "undoVerify" /\ final = current[on]
    /\ MoveRollback(on, {"UNDO_APPLIED"}, "UNDO_VERIFIED") /\ Stay("undoComplete")
    /\ UNCHANGED <<retention, faults, op, source, current, rbDue, asked,
                   rollbackFiles, final, edits>>

CompleteUndo ==
    /\ at = "undoComplete"
    /\ MoveRollback(on, {"UNDO_VERIFIED"}, "UNDONE") /\ PassOn("expire")
    /\ UNCHANGED <<retention, faults, op, source, current, rbDue, asked,
                   rollbackFiles, final, edits>>

UndoRefused ==
    \/ at = "undoInspect" /\ ~Undoable(on)
    \/ at = "undoCheck" /\ ~Undoable(on) /\ ~(RollbackIntact(on) /\ final = Missing)
    \/ at = "undoVerify" /\ final # current[on]
BlockUndo ==
    /\ UndoRefused
    /\ MoveRollback(on, {rb[on]}, "FAILED_BLOCKED") /\ PassOn("expire")
    /\ UNCHANGED <<retention, faults, op, source, current, rbDue, asked,
                   rollbackFiles, final, edits>>

UndoRetry ==
    /\ at = "undoReplace" /\ Fault /\ PassOn("expire")
    /\ UNCHANGED <<retention, journal, asked, rollbackFiles, final, edits>>

UndoThread ==
    \/ UndoIdle \/ RecordUndoIntent \/ UndoCheck \/ UndoReplace
    \/ RecordUndoApplied \/ VerifyUndo \/ CompleteUndo \/ BlockUndo
    \/ \E r \in Restores : LoadUndo(r)

-----------------------------------------------------------------------------
(* Expiry of rollback objects *)

Expirable == {r \in Restores : \/ rb[r] = "EXPIRY_INTENT_RECORDED"
                               \/ rb[r] \in {"AVAILABLE", "UNDONE"} /\ r \in rbDue}

ExpiryIdle ==
    /\ at = "expire" /\ Expirable = {} /\ PassOn("restore")
    /\ UNCHANGED <<retention, faults, journal, asked, rollbackFiles, final, edits>>

ExpiryWithoutLease ==
    /\ at = "expire" /\ Expirable # {} /\ Fault /\ PassOn("restore")
    /\ UNCHANGED <<retention, journal, asked, rollbackFiles, final, edits>>

\* A journaled expiry goes first.
LoadExpiry(r) ==
    /\ at = "expire" /\ r \in Expirable
    /\ (\E q \in Restores : rb[q] = "EXPIRY_INTENT_RECORDED")
         => rb[r] = "EXPIRY_INTENT_RECORDED"
    /\ on' = r /\ loaded' = rb[r] /\ resuming' = (rb[r] = "EXPIRY_INTENT_RECORDED")
    /\ Goto("expiryIntent")
    /\ UNCHANGED <<retention, faults, listed, journal, asked, rollbackFiles, final,
                   seen, edits>>

RecordExpiryIntent ==
    /\ at = "expiryIntent" /\ (resuming \/ RollbackIntact(on))
    /\ MoveRollback(on, {loaded}, "EXPIRY_INTENT_RECORDED") /\ Stay("expirePayload")
    /\ UNCHANGED <<retention, faults, op, source, current, rbDue, asked,
                   rollbackFiles, final, edits>>

\* An undo came first: neither the intent nor its failure can be recorded, and
\* the exception ends the round.
ExpiryConflict ==
    /\ at = "expiryIntent" /\ rb[on] # loaded /\ NewRound
    /\ UNCHANGED <<retention, faults, journal, asked, rollbackFiles, final, edits>>

ExpirePayload ==
    /\ at = "expirePayload" /\ copy' = [copy EXCEPT ![on] = Missing]
    /\ Stay("expireManifest")
    /\ UNCHANGED <<retention, faults, journal, asked, proof, final, edits>>

ExpireManifest ==
    /\ at = "expireManifest" /\ proof' = proof \ {on} /\ Stay("expired")
    /\ UNCHANGED <<retention, faults, journal, asked, copy, final, edits>>

\* A retryable deletion error keeps the journaled intent.
ExpiryRetry ==
    /\ at \in {"expirePayload", "expireManifest"} /\ Fault /\ PassOn("restore")
    /\ UNCHANGED <<retention, journal, asked, rollbackFiles, final, edits>>

CompleteExpiry ==
    /\ at = "expired"
    /\ MoveRollback(on, {"EXPIRY_INTENT_RECORDED"}, "EXPIRED") /\ PassOn("restore")
    /\ UNCHANGED <<retention, faults, op, source, current, rbDue, asked,
                   rollbackFiles, final, edits>>

ExpiryThread ==
    \/ ExpiryIdle \/ RecordExpiryIntent \/ ExpiryConflict \/ ExpirePayload
    \/ ExpireManifest \/ CompleteExpiry
    \/ \E r \in Restores : LoadExpiry(r)

-----------------------------------------------------------------------------
(* The user's file, time and crashes *)

\* The file is changed, deleted, or put back to an old content.
EditFinal(c) ==
    /\ edits < MaxEdits /\ edits' = edits + 1 /\ final # c /\ final' = c
    /\ UNCHANGED <<retention, thread, faults, journal, asked, rollbackFiles,
                   loaded, seen>>

RollbackBecomesDue(r) ==
    /\ rb[r] # "none" /\ r \notin rbDue /\ rbDue' = rbDue \cup {r}
    /\ UNCHANGED <<retention, thread, faults, op, source, current, rb, asked,
                   rollbackFiles, final, loaded, seen, edits>>

\* The thread and the commands on the way are gone, leases with them.
Crash ==
    /\ Fault /\ NewRound /\ asked' = {}
    /\ UNCHANGED <<retention, journal, rollbackFiles, final, edits>>

-----------------------------------------------------------------------------
\* What the retention module leaves alone here.
restoreVars == <<journal, asked, rollbackFiles, final, loaded, seen, edits>>

Retention == RetThread /\ UNCHANGED restoreVars
RetentionFault == (ItemWithoutLease \/ UnlinkFails) /\ UNCHANGED restoreVars
Thread == Retention \/ RestoreThread \/ UndoThread \/ ExpiryThread
ThreadFault == RetentionFault \/ RestoreWithoutLease \/ RestoreRetry \/ UndoWithoutLease
               \/ UndoRetry \/ ExpiryWithoutLease \/ ExpiryRetry
Versioning ==
    /\ \/ \E v \in Versions : ProtectVersion(v) \/ BecomesDue(v)
       \/ \E j \in Jobs : ToggleJob(j)
    /\ UNCHANGED restoreVars
Commands ==
    \E r \in Restores : \/ UndoArrives(r) \/ RequestUndo(r) \/ RollbackBecomesDue(r)
                        \/ \E v \in Versions : RequestRestore(r, v)

Next == \/ Thread \/ ThreadFault \/ Versioning \/ Commands \/ Crash
        \/ EditFinal(Missing) \/ EditFinal(-(edits + 2))
        \/ \E r \in Restores : source[r] # 0 /\ EditFinal(source[r])

Spec == Init /\ [][Next]_vars

\* The maintenance loop runs for as long as the host does, a received command
\* is executed, and time passes.
FairSpec == /\ Spec /\ WF_vars(Thread)
            /\ \A r \in Restores : WF_vars(RequestUndo(r))

-----------------------------------------------------------------------------
(* Properties *)

\* Every variable keeps its type: the states of version_restore_operations and
\* version_restore_rollbacks, and contents of the files.
TypeOK ==
    /\ RetTypeOK
    /\ op \in [Restores -> RestoreStates] /\ source \in [Restores -> Versions \cup {0}]
    /\ current \in [Restores -> Int] /\ copy \in [Restores -> Int] /\ final \in Int
    /\ rb \in [Restores -> RollbackStates] /\ proof \subseteq Restores
    /\ asked \subseteq Restores /\ rbDue \subseteq Restores
    /\ edits \in 0..MaxEdits

\* While a restore may still be undone, and once the final may have been
\* replaced, the rollback object holds exactly what the final held when the
\* restore began; an expiry never takes it from under a requested undo
\* (request_restore_undo, record_version_restore_rollback_expiry_intent).
RollbackKept ==
    \A r \in Restores :
        (\/ op[r] \in {"CURRENT_FINAL_PRESERVED", "HISTORICAL_APPLIED", "FINAL_VERIFIED"}
         \/ rb[r] \in {"AVAILABLE", "UNDO_REQUESTED", "UNDO_INTENT_RECORDED"})
        => RollbackIntact(r)

\* A restore in progress keeps its version: the hold is released only with
\* the operation that used it (complete_version_restore).
RestoreKeepsHold == \A r \in OpenRestores : Holds(r) /\ HistoricalIntact(r)

\* A completed restore that replaced the final can be undone: it has a
\* rollback row, and its hold is free again for the next one.
CompletedIsUndoable ==
    \A r \in Restores : op[r] = "COMPLETED" /\ current[r] # Missing => rb[r] # "none"

\* The types, and what restore, undo and expiry of one version rely on: a
\* payload is deleted before its manifest and its row, a restore under way holds
\* its version, and a finished restore can be undone.
VersionsSound == TypeOK /\ DeletionOrdered /\ RestoreKeepsHold /\ CompletedIsUndoable

\* The program replaces the final only as its journal says.  A restore whose
\* row says that the final is preserved replaces what its complete rollback
\* object holds by the version it holds.  An undo whose intent is journaled
\* replaces what that restore installed, or nothing, by exactly what the final
\* held before; what it takes away may be kept nowhere by then, if the version
\* has expired since.  Both speak of what the last look at the final saw: only
\* an edit between that look and the replace is lost.
RestoreReplaces(r) ==
    /\ op[r] = "CURRENT_FINAL_PRESERVED" /\ Holds(r) /\ HistoricalIntact(r)
    /\ r \in proof /\ seen = copy[r] /\ final' = source[r]
UndoReplaces(r) ==
    /\ rb[r] = "UNDO_INTENT_RECORDED"
    /\ seen \in {source[r], Missing} /\ final' = current[r]
ReplacesAsJournaled ==
    [][(final' # final /\ edits' = edits)
         => \E r \in Restores : RestoreReplaces(r) \/ UndoReplaces(r)]_vars

\* A requested restore comes to an end, through crashes, refused leases and
\* changes of the final.
RestoreSettles ==
    \A r \in Restores : op[r] = "REQUESTED" ~> op[r] \in {"COMPLETED", "FAILED_BLOCKED"}

\* An accepted undo is carried out or left for a review, never dropped in
\* favour of an expiry that had loaded the row before.
UndoSettles ==
    \A r \in Restores : rb[r] = "UNDO_REQUESTED" ~> rb[r] \in {"UNDONE", "FAILED_BLOCKED"}
=============================================================================
