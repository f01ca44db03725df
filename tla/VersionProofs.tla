---------------------------- MODULE VersionProofs ----------------------------
(***************************************************************************)
(* Proofs about VersionRetention and VersionRestore, for every set of      *)
(* versions, jobs and restores, and every bound on faults and edits.       *)
(***************************************************************************)
EXTENDS VersionRestore, WellFoundedInduction, TLAPS

Journaled == {"DELETE_INTENT_RECORDED", "FILESYSTEM_DELETED"}

\* What the state of a version and of its plan item say of its two files.
ItemsAgree ==
    \A v \in Versions :
        /\ obj[v] = "DELETE_PENDING" <=> v \in OpenItems
        /\ obj[v] = "DELETED" <=> item[v] = "DELETED"
        /\ obj[v] = "RETAINED" \/ item[v] = "PLANNED" => v \in payload /\ v \in manifest
        /\ item[v] \in {"FILESYSTEM_DELETED", "DELETED"} => v \notin payload /\ v \notin manifest
        /\ v \in payload => v \in manifest
        /\ hold[v] => obj[v] = "RETAINED"

\* Only the first open item is ever journaled: the head of the line.
HeadOfLine ==
    \A v \in Versions : item[v] \in Journaled => \A u \in OpenItems : v <= u

\* What the retention part of the thread knows at each of its steps.
RetentionShape ==
    /\ at = "plan" => OpenItems = {}
    /\ at = "intent" =>
         /\ on \in OpenItems /\ \A u \in OpenItems : on <= u
         /\ item[on] = IF resuming THEN "DELETE_INTENT_RECORDED" ELSE "PLANNED"
    /\ at \in {"unlinkPayload", "unlinkManifest", "deleted"} =>
         on \in Versions /\ item[on] = "DELETE_INTENT_RECORDED"
    /\ at \in {"unlinkManifest", "deleted", "complete"} => on \notin payload
    /\ at \in {"deleted", "complete"} => on \notin manifest
    /\ at = "complete" => on \in Versions /\ item[on] = "FILESYSTEM_DELETED"

\* The restore operation, its hold and its rollback object.
RestoreAgrees(r) ==
    /\ op[r] = "none" <=> source[r] = 0
    /\ r \in OpenRestores => Holds(r)
    /\ op[r] \in {"none", "REQUESTED"} => current[r] = Missing /\ copy[r] = Missing
    /\ op[r] \in {"INTENT_RECORDED", "CURRENT_FINAL_PRESERVED", "HISTORICAL_APPLIED",
                  "FINAL_VERIFIED"} => current[r] # Missing
    /\ copy[r] \in {Missing, current[r]}
    /\ op[r] \in {"CURRENT_FINAL_PRESERVED", "HISTORICAL_APPLIED", "FINAL_VERIFIED"}
         => RollbackIntact(r)
    /\ rb[r] \in {"AVAILABLE", "UNDO_REQUESTED", "UNDO_INTENT_RECORDED"} => RollbackIntact(r)
    /\ rb[r] # "none" => op[r] = "COMPLETED"
    /\ op[r] = "COMPLETED" /\ current[r] # Missing => rb[r] # "none"

\* A version serves one restore at a time, for a hold is one restore's.
OneRestoreEach ==
    \A r, q \in Restores : r # q /\ source[r] = source[q] /\ source[r] # 0
        => op[r] = "COMPLETED" \/ op[q] = "COMPLETED"

RestoreSteps ==
    {"inspect", "preservePayload", "preserveManifest", "preserved", "applyCheck",
     "replace", "applied", "verify", "completeRestore"}
UndoSteps ==
    {"undoInspect", "undoCheck", "undoReplace", "undoApplied", "undoVerify", "undoComplete"}
ExpirySteps == {"expiryIntent", "expirePayload", "expireManifest", "expired"}

\* What the other parts of the thread know at each of their steps.
RestoreShape ==
    /\ at \in RestoreSteps \cup UndoSteps \cup ExpirySteps => on \in Restores
    /\ at = "inspect" => op[on] = "REQUESTED"
    /\ at \in {"preservePayload", "preserveManifest", "preserved"}
         => op[on] = "INTENT_RECORDED"
    /\ at \in {"preserveManifest", "preserved"} => copy[on] = current[on]
    /\ at = "preserved" => on \in proof
    /\ at \in {"applyCheck", "replace", "applied"} => op[on] = "CURRENT_FINAL_PRESERVED"
    /\ at = "replace" => seen = current[on]
    /\ at = "verify" => op[on] = "HISTORICAL_APPLIED"
    /\ at = "completeRestore" => op[on] = "FINAL_VERIFIED"
    /\ at = "undoInspect" => rb[on] = "UNDO_REQUESTED"
    /\ at \in {"undoCheck", "undoReplace", "undoApplied"} => rb[on] = "UNDO_INTENT_RECORDED"
    /\ at = "undoReplace" => seen \in {source[on], Missing}
    /\ at = "undoVerify" => rb[on] = "UNDO_APPLIED"
    /\ at = "undoComplete" => rb[on] = "UNDO_VERIFIED"
    /\ at = "expiryIntent" =>
         loaded \in {"EXPIRY_INTENT_RECORDED", "AVAILABLE", "UNDONE"}
    /\ at \in {"expirePayload", "expireManifest", "expired"}
         => rb[on] = "EXPIRY_INTENT_RECORDED"

\* The inductive invariant.
IInv ==
    /\ TypeOK /\ ItemsAgree /\ HeadOfLine /\ RetentionShape
    /\ (\A r \in Restores : RestoreAgrees(r)) /\ OneRestoreEach /\ RestoreShape

-----------------------------------------------------------------------------
USE DEF Missing

\* What is assumed of versions, restores and bounds.
LEMMA Bounds ==
    /\ Versions \subseteq Nat \ {0} /\ Restores \subseteq Nat \ {0}
    /\ MaxFaults \in Nat /\ MaxEdits \in Nat /\ JobOf \in [Versions -> Jobs]
  BY VersionAssumption, RestoreAssumption

\* The steps one by one.
Moved ==
    \/ /\ UNCHANGED restoreVars
       /\ \/ ListDue \/ CreatePlan \/ FinishDeleted \/ LoadItem
          \/ RecordDeleteIntent \/ RefuseIntent \/ UnlinkPayload
          \/ UnlinkManifest \/ RecordDeleted \/ CompleteRetentionItem
          \/ ItemWithoutLease \/ UnlinkFails
    \/ RestoreIdle \/ LoadRestore \/ RestoreAlreadyCurrent
    \/ RecordRestoreIntent \/ PreservePayload \/ PreserveManifest
    \/ RecordPreserved \/ ApplyCheck \/ ReplaceFinal \/ RecordApplied
    \/ VerifyRestored \/ CompleteRestore \/ BlockRestore \/ RestoreWithoutLease
    \/ RestoreRetry \/ UndoIdle \/ RecordUndoIntent \/ UndoCheck \/ UndoReplace
    \/ RecordUndoApplied \/ VerifyUndo \/ CompleteUndo \/ BlockUndo
    \/ UndoWithoutLease \/ UndoRetry \/ ExpiryIdle \/ RecordExpiryIntent
    \/ ExpiryConflict \/ ExpirePayload \/ ExpireManifest \/ CompleteExpiry
    \/ ExpiryWithoutLease \/ ExpiryRetry
    \/ \E r \in Restores : LoadUndo(r) \/ LoadExpiry(r)
    \/ /\ UNCHANGED restoreVars
       /\ \/ \E v \in Versions : ProtectVersion(v) \/ BecomesDue(v)
          \/ \E j \in Jobs : ToggleJob(j)
    \/ \E r \in Restores : \/ UndoArrives(r) \/ RequestUndo(r) \/ RollbackBecomesDue(r)
                           \/ \E v \in Versions : RequestRestore(r, v)
    \/ Crash
    \/ \E c \in Int : EditFinal(c)
    \/ UNCHANGED vars

\* The steps one by one.
LEMMA Moves == TypeOK /\ [Next]_vars => Moved
<1> SUFFICES ASSUME TypeOK, [Next]_vars PROVE Moved
    OBVIOUS
<1>1. /\ Missing \in Int /\ -(edits + 2) \in Int
      /\ \A r \in Restores : source[r] \in Int
    <2>1. source \in [Restores -> Versions \cup {0}] /\ edits \in 0..MaxEdits
        BY DEF TypeOK
    <2>2. Versions \cup {0} \subseteq Int /\ edits \in Nat
        BY <2>1, Bounds
    <2>3. \A r \in Restores : source[r] \in Versions \cup {0}
        BY <2>1
    <2> QED
        BY <2>2, <2>3
<1> QED
    BY <1>1 DEF Next, Thread, ThreadFault, Retention, RetentionFault, RestoreThread,
       UndoThread, ExpiryThread, RetThread, Versioning, Commands, Moved

\* Faults stay within their bound.
LEMMA FaultType == TypeOK /\ Fault => faults' \in 0..MaxFaults
<1>1. TypeOK => faults \in 0..MaxFaults
    BY DEF TypeOK, RetTypeOK
<1> QED
    BY <1>1, Bounds DEF Fault

\* A nonempty set of numbers has a least one.
LEMMA LeastExists ==
    ASSUME NEW W \in SUBSET Nat, W # {}
    PROVE  \E x \in W : \A y \in W : x <= y
<1>1. PICK x \in W : \A y \in W : ~ (<<y, x>> \in OpToRel(<, Nat))
    BY NatLessThanWellFounded, WFMin, Zenon
<1>2. ASSUME NEW y \in W, y < x PROVE FALSE
    <2>1. <<y, x>> \in {ss \in Nat \X Nat : ss[1] < ss[2]}
        BY <1>2
    <2> QED
        BY <1>1, <2>1, Zenon DEF OpToRel
<1>3. \A y \in W : x <= y
    BY <1>2
<1> QED
    BY <1>3

\* The next item is the oldest that is open.
LEMMA NextItemIsFirst ==
    ASSUME OpenItems # {}
    PROVE  NextItem \in OpenItems /\ \A u \in OpenItems : NextItem <= u
<1>1. OpenItems \subseteq Nat
    BY Bounds DEF OpenItems
<1> QED
    BY <1>1, LeastExists DEF NextItem

\* The next restore is one that is open.
LEMMA NextRestoreIsOpen ==
    ASSUME OpenRestores # {}
    PROVE  NextRestore \in OpenRestores
<1>1. OpenRestores \subseteq Nat
    BY Bounds DEF OpenRestores
<1> QED
    BY <1>1, LeastExists DEF NextRestore

USE Bounds

\* Every step keeps the types.
LEMMA TypeStep ==
    ASSUME TypeOK, RetentionShape, RestoreShape, [Next]_vars
    PROVE  TypeOK'
<1> USE DEF TypeOK, RetTypeOK, ObjectStates, ItemStates, RestoreStates, RollbackStates, UndoStates,
           objects, files, retention, thread, journal, rollbackFiles, restoreVars, Goto,
           EndRound, Fault, PassOn, NewRound, Stay, MoveRestore, MoveRollback, RetentionShape,
           RestoreShape, RestoreSteps, UndoSteps, ExpirySteps, OpenItems
<1>1. CASE ListDue /\ UNCHANGED restoreVars
    BY <1>1 DEF ListDue
<1>2. CASE CreatePlan /\ UNCHANGED restoreVars
    <2>1. obj' \in [Versions -> ObjectStates] /\ item' \in [Versions -> ItemStates]
        BY <1>2 DEF CreatePlan
    <2> QED
        BY <1>2, <2>1 DEF CreatePlan
<1>3. CASE FinishDeleted /\ UNCHANGED restoreVars
    <2>1. NextItem \in Versions
        BY <1>3, NextItemIsFirst DEF FinishDeleted, OpenItems
    <2> QED
        BY <1>3, <2>1 DEF FinishDeleted, CompleteItem
<1>4. CASE LoadItem /\ UNCHANGED restoreVars
    BY <1>4 DEF LoadItem
<1>5. CASE RecordDeleteIntent /\ UNCHANGED restoreVars
    BY <1>5 DEF RecordDeleteIntent
<1>6. CASE RefuseIntent /\ UNCHANGED restoreVars
    <2>1. obj' \in [Versions -> ObjectStates] /\ item' \in [Versions -> ItemStates]
        BY <1>6 DEF RefuseIntent, BlockPlan
    <2> QED
        BY <1>6, <2>1 DEF RefuseIntent
<1>7. CASE UnlinkPayload /\ UNCHANGED restoreVars
    BY <1>7 DEF UnlinkPayload
<1>8. CASE UnlinkManifest /\ UNCHANGED restoreVars
    BY <1>8 DEF UnlinkManifest
<1>9. CASE RecordDeleted /\ UNCHANGED restoreVars
    BY <1>9 DEF RecordDeleted
<1>10. CASE CompleteRetentionItem /\ UNCHANGED restoreVars
    BY <1>10 DEF CompleteRetentionItem, CompleteItem
<1>11. CASE ItemWithoutLease /\ UNCHANGED restoreVars
    <2>1. faults' \in 0..MaxFaults
        BY <1>11, FaultType DEF ItemWithoutLease
    <2> QED
        BY <1>11, <2>1 DEF ItemWithoutLease
<1>12. CASE UnlinkFails /\ UNCHANGED restoreVars
    <2>1. faults' \in 0..MaxFaults
        BY <1>12, FaultType DEF UnlinkFails
    <2> QED
        BY <1>12, <2>1 DEF UnlinkFails
<1>13. CASE RestoreIdle
    BY <1>13 DEF RestoreIdle
<1>14. CASE LoadRestore
    BY <1>14 DEF LoadRestore
<1>15. CASE RestoreAlreadyCurrent
    BY <1>15 DEF RestoreAlreadyCurrent, ReleaseHold
<1>16. CASE RecordRestoreIntent
    BY <1>16 DEF RecordRestoreIntent
<1>17. CASE PreservePayload
    BY <1>17 DEF PreservePayload
<1>18. CASE PreserveManifest
    BY <1>18 DEF PreserveManifest
<1>19. CASE RecordPreserved
    BY <1>19 DEF RecordPreserved
<1>20. CASE ApplyCheck
    BY <1>20 DEF ApplyCheck
<1>21. CASE ReplaceFinal
    BY <1>21 DEF ReplaceFinal
<1>22. CASE RecordApplied
    BY <1>22 DEF RecordApplied
<1>23. CASE VerifyRestored
    BY <1>23 DEF VerifyRestored
<1>24. CASE CompleteRestore
    BY <1>24 DEF CompleteRestore, ReleaseHold
<1>25. CASE BlockRestore
    BY <1>25 DEF BlockRestore, RestoreRefused
<1>26. CASE RestoreWithoutLease
    BY <1>26 DEF RestoreWithoutLease
<1>27. CASE RestoreRetry
    BY <1>27 DEF RestoreRetry
<1>28. CASE UndoIdle
    BY <1>28 DEF UndoIdle
<1>29. CASE RecordUndoIntent
    BY <1>29 DEF RecordUndoIntent
<1>30. CASE UndoCheck
    BY <1>30 DEF UndoCheck
<1>31. CASE UndoReplace
    BY <1>31 DEF UndoReplace
<1>32. CASE RecordUndoApplied
    BY <1>32 DEF RecordUndoApplied
<1>33. CASE VerifyUndo
    BY <1>33 DEF VerifyUndo
<1>34. CASE CompleteUndo
    BY <1>34 DEF CompleteUndo
<1>35. CASE BlockUndo
    BY <1>35 DEF BlockUndo, UndoRefused
<1>36. CASE UndoWithoutLease
    BY <1>36 DEF UndoWithoutLease
<1>37. CASE UndoRetry
    BY <1>37 DEF UndoRetry
<1>38. ASSUME NEW r \in Restores, LoadUndo(r) PROVE TypeOK'
    BY <1>38 DEF LoadUndo
<1>39. CASE ExpiryIdle
    BY <1>39 DEF ExpiryIdle
<1>40. CASE RecordExpiryIntent
    BY <1>40 DEF RecordExpiryIntent
<1>41. CASE ExpiryConflict
    BY <1>41 DEF ExpiryConflict
<1>42. CASE ExpirePayload
    BY <1>42 DEF ExpirePayload
<1>43. CASE ExpireManifest
    BY <1>43 DEF ExpireManifest
<1>44. CASE CompleteExpiry
    BY <1>44 DEF CompleteExpiry
<1>45. CASE ExpiryWithoutLease
    BY <1>45 DEF ExpiryWithoutLease
<1>46. CASE ExpiryRetry
    BY <1>46 DEF ExpiryRetry
<1>47. ASSUME NEW r \in Restores, LoadExpiry(r) PROVE TypeOK'
    BY <1>47 DEF LoadExpiry
<1>48. ASSUME NEW v \in Versions, ProtectVersion(v), UNCHANGED restoreVars PROVE TypeOK'
    BY <1>48 DEF ProtectVersion
<1>49. ASSUME NEW v \in Versions, BecomesDue(v), UNCHANGED restoreVars PROVE TypeOK'
    BY <1>49 DEF BecomesDue
<1>50. ASSUME NEW j \in Jobs, ToggleJob(j), UNCHANGED restoreVars PROVE TypeOK'
    BY <1>50 DEF ToggleJob
<1>51. ASSUME NEW r \in Restores, UndoArrives(r) PROVE TypeOK'
    BY <1>51 DEF UndoArrives
<1>52. ASSUME NEW r \in Restores, RequestUndo(r) PROVE TypeOK'
    BY <1>52 DEF RequestUndo
<1>53. ASSUME NEW r \in Restores, RollbackBecomesDue(r) PROVE TypeOK'
    BY <1>53 DEF RollbackBecomesDue
<1>54. ASSUME NEW r \in Restores, NEW v \in Versions, RequestRestore(r, v) PROVE TypeOK'
    BY <1>54 DEF RequestRestore
<1>55. CASE Crash
    <2>1. faults' \in 0..MaxFaults
        BY <1>55, FaultType DEF Crash
    <2> QED
        BY <1>55, <2>1 DEF Crash
<1>56. ASSUME NEW c \in Int, EditFinal(c) PROVE TypeOK'
    BY <1>56 DEF EditFinal
<1>57. CASE UNCHANGED vars
    BY <1>57 DEF vars
<1> HIDE DEF TypeOK, RetentionShape, RestoreShape
<1> QED
    BY <1>1, <1>2, <1>3, <1>4, <1>5, <1>6, <1>7, <1>8, <1>9, <1>10, <1>11, <1>12,
       <1>13, <1>14, <1>15, <1>16, <1>17, <1>18, <1>19, <1>20, <1>21, <1>22,
       <1>23, <1>24, <1>25, <1>26, <1>27, <1>28, <1>29, <1>30, <1>31, <1>32,
       <1>33, <1>34, <1>35, <1>36, <1>37, <1>38, <1>39, <1>40, <1>41, <1>42,
       <1>43, <1>44, <1>45, <1>46, <1>47, <1>48, <1>49, <1>50, <1>51, <1>52,
       <1>53, <1>54, <1>55, <1>56, <1>57, Moves DEF Moved

\* What every step but the retention part's own does to versions and items:
\* at most a hold is set or released.
RetentionSteps ==
    {"plan", "intent", "unlinkPayload", "unlinkManifest", "deleted", "complete"}
RetentionQuiet ==
    /\ UNCHANGED <<obj, item, payload, manifest>>
    /\ \A v \in Versions : hold'[v] => hold[v] \/ obj[v] = "RETAINED"
    /\ UNCHANGED <<at, on, resuming>> \/ at' \notin RetentionSteps
RetentionStep ==
    \/ ListDue \/ CreatePlan \/ FinishDeleted \/ LoadItem \/ RecordDeleteIntent
    \/ RefuseIntent \/ UnlinkPayload \/ UnlinkManifest \/ RecordDeleted
    \/ CompleteRetentionItem

\* Where a loaded row is taken up.
LEMMA LoadedRestore ==
    ASSUME TypeOK, LoadRestore
    PROVE  /\ on' = NextRestore /\ on' \in Restores /\ op[on'] = op'[on']
           /\ \/ op[on'] = "REQUESTED" /\ at' = "inspect"
              \/ op[on'] = "INTENT_RECORDED" /\ at' = "preservePayload"
              \/ op[on'] = "CURRENT_FINAL_PRESERVED" /\ at' = "applyCheck"
              \/ op[on'] = "HISTORICAL_APPLIED" /\ at' = "verify"
              \/ op[on'] = "FINAL_VERIFIED" /\ at' = "completeRestore"
           /\ UNCHANGED <<retention, resuming, journal, rollbackFiles, final, loaded, seen>>
<1> DEFINE r == NextRestore
<1>1. /\ r \in Restores
      /\ op[r] \in {"REQUESTED", "INTENT_RECORDED", "CURRENT_FINAL_PRESERVED",
                    "HISTORICAL_APPLIED", "FINAL_VERIFIED"}
    BY NextRestoreIsOpen DEF LoadRestore, OpenRestores, TypeOK, RestoreStates
<1>2. /\ on' = r
      /\ at' = CASE op[r] = "REQUESTED" -> "inspect"
                 [] op[r] = "INTENT_RECORDED" -> "preservePayload"
                 [] op[r] = "CURRENT_FINAL_PRESERVED" -> "applyCheck"
                 [] op[r] = "HISTORICAL_APPLIED" -> "verify"
                 [] op[r] = "FINAL_VERIFIED" -> "completeRestore"
    BY DEF LoadRestore
<1>3. UNCHANGED <<retention, resuming, journal, rollbackFiles, final, loaded, seen>>
    BY DEF LoadRestore
<1> HIDE DEF r
<1>4. op'[r] = op[r]
    BY <1>3 DEF journal
<1> QED
    BY <1>1, <1>2, <1>3, <1>4 DEF r

\* Where an undo continues, by what its journal says.
LEMMA LoadedUndo ==
    ASSUME TypeOK, NEW r \in Restores, LoadUndo(r)
    PROVE  /\ on' = r
           /\ \/ rb[r] = "UNDO_REQUESTED" /\ at' = "undoInspect"
              \/ rb[r] = "UNDO_INTENT_RECORDED" /\ at' = "undoCheck"
              \/ rb[r] = "UNDO_APPLIED" /\ at' = "undoVerify"
              \/ rb[r] = "UNDO_VERIFIED" /\ at' = "undoComplete"
           /\ UNCHANGED <<retention, resuming, journal, rollbackFiles, final, loaded, seen>>
<1>1. rb[r] \in UndoStates
    BY DEF LoadUndo, OpenUndos
<1> QED
    BY <1>1 DEF LoadUndo, UndoStates

\* Which steps those are.
LEMMA QuietStep ==
    ASSUME TypeOK, RestoreShape, (\A r \in Restores : RestoreAgrees(r)), [Next]_vars
    PROVE  RetentionQuiet \/ RetentionStep
<1> USE DEF TypeOK, RetTypeOK, RetentionQuiet, RetentionSteps, RestoreShape, RestoreSteps,
           UndoSteps, ExpirySteps, OpenRestores, objects, files, retention, thread, journal, rollbackFiles, restoreVars, Goto,
           EndRound, Fault, PassOn, NewRound, Stay, MoveRestore, MoveRollback
<1>1. CASE ListDue /\ UNCHANGED restoreVars
    BY <1>1 DEF RetentionStep
<1>2. CASE CreatePlan /\ UNCHANGED restoreVars
    BY <1>2 DEF RetentionStep
<1>3. CASE FinishDeleted /\ UNCHANGED restoreVars
    BY <1>3 DEF RetentionStep
<1>4. CASE LoadItem /\ UNCHANGED restoreVars
    BY <1>4 DEF RetentionStep
<1>5. CASE RecordDeleteIntent /\ UNCHANGED restoreVars
    BY <1>5 DEF RetentionStep
<1>6. CASE RefuseIntent /\ UNCHANGED restoreVars
    BY <1>6 DEF RetentionStep
<1>7. CASE UnlinkPayload /\ UNCHANGED restoreVars
    BY <1>7 DEF RetentionStep
<1>8. CASE UnlinkManifest /\ UNCHANGED restoreVars
    BY <1>8 DEF RetentionStep
<1>9. CASE RecordDeleted /\ UNCHANGED restoreVars
    BY <1>9 DEF RetentionStep
<1>10. CASE CompleteRetentionItem /\ UNCHANGED restoreVars
    BY <1>10 DEF RetentionStep
<1>11. CASE ItemWithoutLease /\ UNCHANGED restoreVars
    BY <1>11 DEF ItemWithoutLease
<1>12. CASE UnlinkFails /\ UNCHANGED restoreVars
    BY <1>12 DEF UnlinkFails
<1>13. CASE RestoreIdle
    BY <1>13 DEF RestoreIdle
<1>14. CASE LoadRestore
    BY <1>14, LoadedRestore
<1>15. CASE RestoreAlreadyCurrent
    BY <1>15 DEF RestoreAlreadyCurrent, ReleaseHold
<1>16. CASE RecordRestoreIntent
    BY <1>16 DEF RecordRestoreIntent
<1>17. CASE PreservePayload
    BY <1>17 DEF PreservePayload
<1>18. CASE PreserveManifest
    BY <1>18 DEF PreserveManifest
<1>19. CASE RecordPreserved
    BY <1>19 DEF RecordPreserved
<1>20. CASE ApplyCheck
    BY <1>20 DEF ApplyCheck
<1>21. CASE ReplaceFinal
    BY <1>21 DEF ReplaceFinal
<1>22. CASE RecordApplied
    BY <1>22 DEF RecordApplied
<1>23. CASE VerifyRestored
    BY <1>23 DEF VerifyRestored
<1>24. CASE CompleteRestore
    BY <1>24 DEF CompleteRestore, ReleaseHold
<1>25. CASE BlockRestore
    BY <1>25 DEF BlockRestore, RestoreRefused
<1>26. CASE RestoreWithoutLease
    BY <1>26 DEF RestoreWithoutLease
<1>27. CASE RestoreRetry
    BY <1>27 DEF RestoreRetry
<1>28. CASE UndoIdle
    BY <1>28 DEF UndoIdle
<1>29. CASE RecordUndoIntent
    BY <1>29 DEF RecordUndoIntent
<1>30. CASE UndoCheck
    BY <1>30 DEF UndoCheck
<1>31. CASE UndoReplace
    BY <1>31 DEF UndoReplace
<1>32. CASE RecordUndoApplied
    BY <1>32 DEF RecordUndoApplied
<1>33. CASE VerifyUndo
    BY <1>33 DEF VerifyUndo
<1>34. CASE CompleteUndo
    BY <1>34 DEF CompleteUndo
<1>35. CASE BlockUndo
    BY <1>35 DEF BlockUndo, UndoRefused
<1>36. CASE UndoWithoutLease
    BY <1>36 DEF UndoWithoutLease
<1>37. CASE UndoRetry
    BY <1>37 DEF UndoRetry
<1>38. ASSUME NEW r \in Restores, LoadUndo(r) PROVE RetentionQuiet \/ RetentionStep
    BY <1>38, LoadedUndo
<1>39. CASE ExpiryIdle
    BY <1>39 DEF ExpiryIdle
<1>40. CASE RecordExpiryIntent
    BY <1>40 DEF RecordExpiryIntent
<1>41. CASE ExpiryConflict
    BY <1>41 DEF ExpiryConflict
<1>42. CASE ExpirePayload
    BY <1>42 DEF ExpirePayload
<1>43. CASE ExpireManifest
    BY <1>43 DEF ExpireManifest
<1>44. CASE CompleteExpiry
    BY <1>44 DEF CompleteExpiry
<1>45. CASE ExpiryWithoutLease
    BY <1>45 DEF ExpiryWithoutLease
<1>46. CASE ExpiryRetry
    BY <1>46 DEF ExpiryRetry
<1>47. ASSUME NEW r \in Restores, LoadExpiry(r) PROVE RetentionQuiet \/ RetentionStep
    BY <1>47 DEF LoadExpiry
<1>48. ASSUME NEW v \in Versions, ProtectVersion(v), UNCHANGED restoreVars PROVE RetentionQuiet \/ RetentionStep
    BY <1>48 DEF ProtectVersion, Protectable
<1>49. ASSUME NEW v \in Versions, BecomesDue(v), UNCHANGED restoreVars PROVE RetentionQuiet \/ RetentionStep
    BY <1>49 DEF BecomesDue
<1>50. ASSUME NEW j \in Jobs, ToggleJob(j), UNCHANGED restoreVars PROVE RetentionQuiet \/ RetentionStep
    BY <1>50 DEF ToggleJob
<1>51. ASSUME NEW r \in Restores, UndoArrives(r) PROVE RetentionQuiet \/ RetentionStep
    BY <1>51 DEF UndoArrives
<1>52. ASSUME NEW r \in Restores, RequestUndo(r) PROVE RetentionQuiet \/ RetentionStep
    BY <1>52 DEF RequestUndo
<1>53. ASSUME NEW r \in Restores, RollbackBecomesDue(r) PROVE RetentionQuiet \/ RetentionStep
    BY <1>53 DEF RollbackBecomesDue
<1>54. ASSUME NEW r \in Restores, NEW v \in Versions, RequestRestore(r, v) PROVE RetentionQuiet \/ RetentionStep
    BY <1>54 DEF RequestRestore
<1>55. CASE Crash
    BY <1>55 DEF Crash
<1>56. ASSUME NEW c \in Int, EditFinal(c) PROVE RetentionQuiet \/ RetentionStep
    BY <1>56 DEF EditFinal
<1>57. CASE UNCHANGED vars
    BY <1>57 DEF vars
<1> HIDE DEF TypeOK, RestoreShape, RetentionQuiet, RetentionStep
<1> QED
    BY <1>1, <1>2, <1>3, <1>4, <1>5, <1>6, <1>7, <1>8, <1>9, <1>10, <1>11, <1>12,
       <1>13, <1>14, <1>15, <1>16, <1>17, <1>18, <1>19, <1>20, <1>21, <1>22,
       <1>23, <1>24, <1>25, <1>26, <1>27, <1>28, <1>29, <1>30, <1>31, <1>32,
       <1>33, <1>34, <1>35, <1>36, <1>37, <1>38, <1>39, <1>40, <1>41, <1>42,
       <1>43, <1>44, <1>45, <1>46, <1>47, <1>48, <1>49, <1>50, <1>51, <1>52,
       <1>53, <1>54, <1>55, <1>56, <1>57, Moves DEF Moved

\* The files of a version go only while its item is journaled.
LEMMA ItemsStep ==
    ASSUME TypeOK, RestoreShape, (\A r \in Restores : RestoreAgrees(r)),
           ItemsAgree, HeadOfLine, RetentionShape, [Next]_vars
    PROVE  ItemsAgree'
<1> USE DEF TypeOK, RetTypeOK, ItemsAgree, OpenItems, Journaled, RetentionShape,
           ObjectStates, ItemStates, objects, files, thread, Goto, EndRound
<1>1. CASE ListDue
    BY <1>1 DEF ListDue
<1>2. CASE CreatePlan
    <2>1. CASE \A v \in listed : Due(v)
        <3>1. \A v \in listed : obj[v] = "RETAINED" /\ ~hold[v]
            BY <2>1 DEF Due
        <3> QED
            BY <1>2, <2>1, <3>1 DEF CreatePlan
    <2>2. CASE ~ \A v \in listed : Due(v)
        BY <1>2, <2>2 DEF CreatePlan
    <2> QED
        BY <2>1, <2>2
<1>3. CASE FinishDeleted
    <2> DEFINE i == NextItem
    <2>1. /\ i \in Versions /\ item[i] = "FILESYSTEM_DELETED"
          /\ obj' = [obj EXCEPT ![i] = "DELETED"] /\ item' = [item EXCEPT ![i] = "DELETED"]
          /\ UNCHANGED <<hold, payload, manifest>> /\ at' = "undo"
        BY <1>3, NextItemIsFirst DEF FinishDeleted, CompleteItem
    <2> HIDE DEF i
    <2> QED
        BY <2>1
<1>4. CASE LoadItem
    BY <1>4 DEF LoadItem
<1>5. CASE RecordDeleteIntent
    BY <1>5 DEF RecordDeleteIntent, MayDelete
<1>6. CASE RefuseIntent
    <2>1. CASE resuming
        BY <1>6, <2>1 DEF RefuseIntent
    <2>2. CASE ~resuming
        <3>0. /\ on \in OpenItems /\ on \in Versions /\ item[on] = "PLANNED"
              /\ \A u \in OpenItems : on <= u
            BY <1>6, <2>2 DEF RefuseIntent
        <3>1. ASSUME NEW v \in OpenItems PROVE item[v] = "PLANNED"
            <4>1. CASE item[v] \in Journaled
                <5>1. v \in Versions /\ v <= on /\ on <= v
                    BY <3>0, <3>1, <4>1 DEF HeadOfLine
                <5>2. v = on
                    BY <3>0, <5>1, Bounds
                <5> QED
                    BY <3>0, <5>2
            <4>2. CASE item[v] \notin Journaled
                BY <4>2
            <4> QED
                BY <4>1, <4>2
        <3>2. PairVerified(on)
            BY <3>0 DEF PairVerified
        <3>3. /\ obj' = [u \in Versions |-> IF obj[u] = "DELETE_PENDING" THEN "RETAINED"
                                            ELSE obj[u]]
              /\ item' = [u \in Versions |-> IF u \in OpenItems THEN "BLOCKED" ELSE item[u]]
            BY <1>6, <2>2, <3>0, <3>1, <3>2 DEF RefuseIntent, BlockPlan
        <3> QED
            BY <1>6, <3>0, <3>1, <3>3 DEF RefuseIntent
    <2> QED
        BY <2>1, <2>2
<1>7. CASE UnlinkPayload
    BY <1>7 DEF UnlinkPayload
<1>8. CASE UnlinkManifest
    BY <1>8 DEF UnlinkManifest
<1>9. CASE RecordDeleted
    BY <1>9 DEF RecordDeleted
<1>10. CASE CompleteRetentionItem
    BY <1>10 DEF CompleteRetentionItem, CompleteItem
<1>11. CASE RetentionQuiet
    BY <1>11 DEF RetentionQuiet
<1> HIDE DEF TypeOK, ItemsAgree, RetentionShape
<1> QED
    BY <1>1, <1>2, <1>3, <1>4, <1>5, <1>6, <1>7, <1>8, <1>9, <1>10, <1>11,
       QuietStep DEF RetentionStep

\* No item overtakes the one at the head of the line.
LEMMA HeadStep ==
    ASSUME TypeOK, RestoreShape, (\A r \in Restores : RestoreAgrees(r)),
           ItemsAgree, HeadOfLine, RetentionShape, [Next]_vars
    PROVE  HeadOfLine'
<1> USE DEF TypeOK, RetTypeOK, ItemsAgree, HeadOfLine, OpenItems, Journaled, RetentionShape,
           ObjectStates, ItemStates, objects, files, thread, Goto, EndRound
<1>1. CASE ListDue
    BY <1>1 DEF ListDue
<1>2. CASE CreatePlan
    <2>1. CASE \A v \in listed : Due(v)
        <3>1. \A v \in listed : obj[v] = "RETAINED" /\ ~hold[v]
            BY <2>1 DEF Due
        <3> QED
            BY <1>2, <2>1, <3>1 DEF CreatePlan
    <2>2. CASE ~ \A v \in listed : Due(v)
        BY <1>2, <2>2 DEF CreatePlan
    <2> QED
        BY <2>1, <2>2
<1>3. CASE FinishDeleted
    <2> DEFINE i == NextItem
    <2>1. /\ i \in Versions /\ item[i] = "FILESYSTEM_DELETED"
          /\ obj' = [obj EXCEPT ![i] = "DELETED"] /\ item' = [item EXCEPT ![i] = "DELETED"]
          /\ UNCHANGED <<hold, payload, manifest>> /\ at' = "undo"
        BY <1>3, NextItemIsFirst DEF FinishDeleted, CompleteItem
    <2> HIDE DEF i
    <2> QED
        BY <2>1
<1>4. CASE LoadItem
    BY <1>4 DEF LoadItem
<1>5. CASE RecordDeleteIntent
    BY <1>5 DEF RecordDeleteIntent
<1>6. CASE RefuseIntent
    <2>1. CASE resuming
        BY <1>6, <2>1 DEF RefuseIntent
    <2>2. CASE ~resuming
        <3>0. /\ on \in OpenItems /\ on \in Versions /\ item[on] = "PLANNED"
              /\ \A u \in OpenItems : on <= u
            BY <1>6, <2>2 DEF RefuseIntent
        <3>1. ASSUME NEW v \in OpenItems PROVE item[v] = "PLANNED"
            <4>1. CASE item[v] \in Journaled
                <5>1. v \in Versions /\ v <= on /\ on <= v
                    BY <3>0, <3>1, <4>1 DEF HeadOfLine
                <5>2. v = on
                    BY <3>0, <5>1, Bounds
                <5> QED
                    BY <3>0, <5>2
            <4>2. CASE item[v] \notin Journaled
                BY <4>2
            <4> QED
                BY <4>1, <4>2
        <3>2. PairVerified(on)
            BY <3>0 DEF PairVerified
        <3>3. /\ obj' = [u \in Versions |-> IF obj[u] = "DELETE_PENDING" THEN "RETAINED"
                                            ELSE obj[u]]
              /\ item' = [u \in Versions |-> IF u \in OpenItems THEN "BLOCKED" ELSE item[u]]
            BY <1>6, <2>2, <3>0, <3>1, <3>2 DEF RefuseIntent, BlockPlan
        <3> QED
            BY <1>6, <3>0, <3>1, <3>3 DEF RefuseIntent
    <2> QED
        BY <2>1, <2>2
<1>7. CASE UnlinkPayload
    BY <1>7 DEF UnlinkPayload
<1>8. CASE UnlinkManifest
    BY <1>8 DEF UnlinkManifest
<1>9. CASE RecordDeleted
    BY <1>9 DEF RecordDeleted
<1>10. CASE CompleteRetentionItem
    BY <1>10 DEF CompleteRetentionItem, CompleteItem
<1>11. CASE RetentionQuiet
    BY <1>11 DEF RetentionQuiet
<1> HIDE DEF TypeOK, ItemsAgree, HeadOfLine, RetentionShape
<1> QED
    BY <1>1, <1>2, <1>3, <1>4, <1>5, <1>6, <1>7, <1>8, <1>9, <1>10, <1>11,
       QuietStep DEF RetentionStep

\* The retention part's own steps.
LEMMA RetentionShapeStep ==
    ASSUME TypeOK, RestoreShape, (\A r \in Restores : RestoreAgrees(r)),
           ItemsAgree, HeadOfLine, RetentionShape, [Next]_vars
    PROVE  RetentionShape'
<1> USE DEF TypeOK, RetTypeOK, ItemsAgree, OpenItems, Journaled, RetentionShape, HeadOfLine,
           ObjectStates, ItemStates, objects, files, thread, Goto, EndRound
<1>1. CASE ListDue
    BY <1>1 DEF ListDue
<1>2. CASE CreatePlan
    BY <1>2 DEF CreatePlan
<1>3. CASE FinishDeleted
    <2> DEFINE i == NextItem
    <2>1. /\ i \in Versions /\ item[i] = "FILESYSTEM_DELETED"
          /\ obj' = [obj EXCEPT ![i] = "DELETED"] /\ item' = [item EXCEPT ![i] = "DELETED"]
          /\ UNCHANGED <<hold, payload, manifest>> /\ at' = "undo"
        BY <1>3, NextItemIsFirst DEF FinishDeleted, CompleteItem
    <2> HIDE DEF i
    <2> QED
        BY <2>1
<1>4. CASE LoadItem
    <2> DEFINE i == NextItem
    <2>1. i \in OpenItems /\ \A u \in OpenItems : i <= u
        BY <1>4, NextItemIsFirst DEF LoadItem
    <2>2. /\ on' = i /\ resuming' = (item[i] = "DELETE_INTENT_RECORDED") /\ at' = "intent"
          /\ item[i] # "FILESYSTEM_DELETED" /\ item' = item
        BY <1>4 DEF LoadItem
    <2> HIDE DEF i
    <2> QED
        BY <2>1, <2>2
<1>5. CASE RecordDeleteIntent
    BY <1>5 DEF RecordDeleteIntent
<1>6. CASE RefuseIntent
    BY <1>6 DEF RefuseIntent
<1>7. CASE UnlinkPayload
    BY <1>7 DEF UnlinkPayload
<1>8. CASE UnlinkManifest
    BY <1>8 DEF UnlinkManifest
<1>9. CASE RecordDeleted
    BY <1>9 DEF RecordDeleted
<1>10. CASE CompleteRetentionItem
    BY <1>10 DEF CompleteRetentionItem, CompleteItem
<1>11. CASE RetentionQuiet
    BY <1>11 DEF RetentionQuiet, RetentionSteps
<1> HIDE DEF TypeOK, ItemsAgree, RetentionShape, HeadOfLine
<1> QED
    BY <1>1, <1>2, <1>3, <1>4, <1>5, <1>6, <1>7, <1>8, <1>9, <1>10, <1>11,
       QuietStep DEF RetentionStep

\* What every step does that is not one of a restore, an undo or an expiry.
RestoreQuiet ==
    /\ UNCHANGED <<op, source, current, rb, copy, proof>>
    /\ \A v \in Versions : hold[v] /\ obj[v] = "RETAINED" => hold'[v] /\ obj'[v] = "RETAINED"
    /\ \/ UNCHANGED <<at, on, seen, loaded>>
       \/ at' \notin RestoreSteps \cup UndoSteps \cup ExpirySteps
RestoreStep ==
    \/ LoadRestore \/ RestoreAlreadyCurrent \/ RecordRestoreIntent
    \/ PreservePayload \/ PreserveManifest \/ RecordPreserved \/ ApplyCheck
    \/ ReplaceFinal \/ RecordApplied \/ VerifyRestored \/ CompleteRestore
    \/ BlockRestore \/ RecordUndoIntent \/ UndoCheck \/ UndoReplace
    \/ RecordUndoApplied \/ VerifyUndo \/ CompleteUndo \/ BlockUndo
    \/ RecordExpiryIntent \/ ExpirePayload \/ ExpireManifest \/ CompleteExpiry
    \/ \E r \in Restores : LoadUndo(r) \/ LoadExpiry(r) \/ RequestUndo(r)
    \/ \E r \in Restores, v \in Versions : RequestRestore(r, v)

\* Which steps those are: the retention part leaves a version on hold alone.
LEMMA RestoreQuietStep ==
    ASSUME TypeOK, ItemsAgree, RetentionShape, [Next]_vars
    PROVE  RestoreQuiet \/ RestoreStep
<1> USE DEF TypeOK, RetTypeOK, ItemsAgree, OpenItems, RestoreQuiet, RestoreSteps, UndoSteps,
           ExpirySteps, RetentionShape, objects, files, retention, thread, journal, rollbackFiles, restoreVars, Goto,
           EndRound, Fault, PassOn, NewRound, Stay, MoveRestore, MoveRollback
<1>1. CASE ListDue /\ UNCHANGED restoreVars
    BY <1>1 DEF ListDue
<1>2. CASE CreatePlan /\ UNCHANGED restoreVars
    <2>1. CASE \A w \in listed : Due(w)
        <3>1. \A w \in listed : ~hold[w]
            BY <2>1 DEF Due
        <3> QED
            BY <1>2, <2>1, <3>1 DEF CreatePlan
    <2>2. CASE ~ \A w \in listed : Due(w)
        BY <1>2, <2>2 DEF CreatePlan
    <2> QED
        BY <2>1, <2>2
<1>3. CASE FinishDeleted /\ UNCHANGED restoreVars
    <2> DEFINE i == NextItem
    <2>1. /\ i \in Versions /\ item[i] = "FILESYSTEM_DELETED"
          /\ obj' = [obj EXCEPT ![i] = "DELETED"] /\ item' = [item EXCEPT ![i] = "DELETED"]
          /\ UNCHANGED <<hold, payload, manifest>> /\ at' = "undo"
        BY <1>3, NextItemIsFirst DEF FinishDeleted, CompleteItem
    <2> HIDE DEF i
    <2>2. obj[i] # "RETAINED"
        BY <2>1
    <2> QED
        BY <1>3, <2>1, <2>2
<1>4. CASE LoadItem /\ UNCHANGED restoreVars
    BY <1>4 DEF LoadItem
<1>5. CASE RecordDeleteIntent /\ UNCHANGED restoreVars
    BY <1>5 DEF RecordDeleteIntent
<1>6. CASE RefuseIntent /\ UNCHANGED restoreVars
    BY <1>6 DEF RefuseIntent, BlockPlan
<1>7. CASE UnlinkPayload /\ UNCHANGED restoreVars
    BY <1>7 DEF UnlinkPayload
<1>8. CASE UnlinkManifest /\ UNCHANGED restoreVars
    BY <1>8 DEF UnlinkManifest
<1>9. CASE RecordDeleted /\ UNCHANGED restoreVars
    BY <1>9 DEF RecordDeleted
<1>10. CASE CompleteRetentionItem /\ UNCHANGED restoreVars
    BY <1>10 DEF CompleteRetentionItem, CompleteItem
<1>11. CASE ItemWithoutLease /\ UNCHANGED restoreVars
    BY <1>11 DEF ItemWithoutLease
<1>12. CASE UnlinkFails /\ UNCHANGED restoreVars
    BY <1>12 DEF UnlinkFails
<1>13. CASE RestoreIdle
    BY <1>13 DEF RestoreIdle
<1>14. CASE LoadRestore
    BY <1>14 DEF RestoreStep
<1>15. CASE RestoreAlreadyCurrent
    BY <1>15 DEF RestoreStep
<1>16. CASE RecordRestoreIntent
    BY <1>16 DEF RestoreStep
<1>17. CASE PreservePayload
    BY <1>17 DEF RestoreStep
<1>18. CASE PreserveManifest
    BY <1>18 DEF RestoreStep
<1>19. CASE RecordPreserved
    BY <1>19 DEF RestoreStep
<1>20. CASE ApplyCheck
    BY <1>20 DEF RestoreStep
<1>21. CASE ReplaceFinal
    BY <1>21 DEF RestoreStep
<1>22. CASE RecordApplied
    BY <1>22 DEF RestoreStep
<1>23. CASE VerifyRestored
    BY <1>23 DEF RestoreStep
<1>24. CASE CompleteRestore
    BY <1>24 DEF RestoreStep
<1>25. CASE BlockRestore
    BY <1>25 DEF RestoreStep
<1>26. CASE RestoreWithoutLease
    BY <1>26 DEF RestoreWithoutLease
<1>27. CASE RestoreRetry
    BY <1>27 DEF RestoreRetry
<1>28. CASE UndoIdle
    BY <1>28 DEF UndoIdle
<1>29. CASE RecordUndoIntent
    BY <1>29 DEF RestoreStep
<1>30. CASE UndoCheck
    BY <1>30 DEF RestoreStep
<1>31. CASE UndoReplace
    BY <1>31 DEF RestoreStep
<1>32. CASE RecordUndoApplied
    BY <1>32 DEF RestoreStep
<1>33. CASE VerifyUndo
    BY <1>33 DEF RestoreStep
<1>34. CASE CompleteUndo
    BY <1>34 DEF RestoreStep
<1>35. CASE BlockUndo
    BY <1>35 DEF RestoreStep
<1>36. CASE UndoWithoutLease
    BY <1>36 DEF UndoWithoutLease
<1>37. CASE UndoRetry
    BY <1>37 DEF UndoRetry
<1>38. ASSUME NEW r \in Restores, LoadUndo(r) PROVE RestoreQuiet \/ RestoreStep
    BY <1>38 DEF RestoreStep
<1>39. CASE ExpiryIdle
    BY <1>39 DEF ExpiryIdle
<1>40. CASE RecordExpiryIntent
    BY <1>40 DEF RestoreStep
<1>41. CASE ExpiryConflict
    BY <1>41 DEF ExpiryConflict
<1>42. CASE ExpirePayload
    BY <1>42 DEF RestoreStep
<1>43. CASE ExpireManifest
    BY <1>43 DEF RestoreStep
<1>44. CASE CompleteExpiry
    BY <1>44 DEF RestoreStep
<1>45. CASE ExpiryWithoutLease
    BY <1>45 DEF ExpiryWithoutLease
<1>46. CASE ExpiryRetry
    BY <1>46 DEF ExpiryRetry
<1>47. ASSUME NEW r \in Restores, LoadExpiry(r) PROVE RestoreQuiet \/ RestoreStep
    BY <1>47 DEF RestoreStep
<1>48. ASSUME NEW v \in Versions, ProtectVersion(v), UNCHANGED restoreVars PROVE RestoreQuiet \/ RestoreStep
    BY <1>48 DEF ProtectVersion
<1>49. ASSUME NEW v \in Versions, BecomesDue(v), UNCHANGED restoreVars PROVE RestoreQuiet \/ RestoreStep
    BY <1>49 DEF BecomesDue
<1>50. ASSUME NEW j \in Jobs, ToggleJob(j), UNCHANGED restoreVars PROVE RestoreQuiet \/ RestoreStep
    BY <1>50 DEF ToggleJob
<1>51. ASSUME NEW r \in Restores, UndoArrives(r) PROVE RestoreQuiet \/ RestoreStep
    BY <1>51 DEF UndoArrives
<1>52. ASSUME NEW r \in Restores, RequestUndo(r) PROVE RestoreQuiet \/ RestoreStep
    BY <1>52 DEF RestoreStep
<1>53. ASSUME NEW r \in Restores, RollbackBecomesDue(r) PROVE RestoreQuiet \/ RestoreStep
    BY <1>53 DEF RollbackBecomesDue
<1>54. ASSUME NEW r \in Restores, NEW v \in Versions, RequestRestore(r, v) PROVE RestoreQuiet \/ RestoreStep
    BY <1>54 DEF RestoreStep
<1>55. CASE Crash
    BY <1>55 DEF Crash
<1>56. ASSUME NEW c \in Int, EditFinal(c) PROVE RestoreQuiet \/ RestoreStep
    BY <1>56 DEF EditFinal
<1>57. CASE UNCHANGED vars
    BY <1>57 DEF vars
<1> HIDE DEF TypeOK, ItemsAgree, RetentionShape, RestoreQuiet, RestoreStep
<1> QED
    BY <1>1, <1>2, <1>3, <1>4, <1>5, <1>6, <1>7, <1>8, <1>9, <1>10, <1>11, <1>12,
       <1>13, <1>14, <1>15, <1>16, <1>17, <1>18, <1>19, <1>20, <1>21, <1>22,
       <1>23, <1>24, <1>25, <1>26, <1>27, <1>28, <1>29, <1>30, <1>31, <1>32,
       <1>33, <1>34, <1>35, <1>36, <1>37, <1>38, <1>39, <1>40, <1>41, <1>42,
       <1>43, <1>44, <1>45, <1>46, <1>47, <1>48, <1>49, <1>50, <1>51, <1>52,
       <1>53, <1>54, <1>55, <1>56, <1>57, Moves DEF Moved

\* The journal of a restore stays true of its hold and its rollback object.
LEMMA AgreesStep ==
    ASSUME TypeOK, ItemsAgree, RetentionShape, RestoreShape, OneRestoreEach,
           (\A r \in Restores : RestoreAgrees(r)), [Next]_vars, NEW d \in Restores
    PROVE  RestoreAgrees(d)'
<1> USE DEF TypeOK, RetTypeOK, ObjectStates, RestoreStates, RollbackStates, UndoStates,
           RestoreShape, RestoreSteps, UndoSteps, ExpirySteps, RestoreAgrees,
           RollbackIntact, Holds, OpenRestores, OneRestoreEach, objects, files, retention, thread, journal, rollbackFiles, restoreVars, Goto,
           EndRound, Fault, PassOn, NewRound, Stay, MoveRestore, MoveRollback
<1>1. CASE LoadRestore
    BY <1>1, LoadedRestore
<1>2. CASE RestoreAlreadyCurrent
    <2>1. /\ on \in Restores /\ on \in OpenRestores
        BY <1>2 DEF RestoreAlreadyCurrent
    <2>2. CASE d = on
        BY <1>2, <2>1, <2>2 DEF RestoreAlreadyCurrent, ReleaseHold
    <2>3. CASE d # on
        <3>1. d \in OpenRestores => source[d] # source[on]
            BY <2>1, <2>3
        <3> QED
            BY <1>2, <2>1, <2>3, <3>1 DEF RestoreAlreadyCurrent, ReleaseHold
    <2> QED
        BY <2>2, <2>3
<1>3. CASE RecordRestoreIntent
    BY <1>3 DEF RecordRestoreIntent
<1>4. CASE PreservePayload
    BY <1>4 DEF PreservePayload
<1>5. CASE PreserveManifest
    BY <1>5 DEF PreserveManifest
<1>6. CASE RecordPreserved
    BY <1>6 DEF RecordPreserved
<1>7. CASE ApplyCheck
    BY <1>7 DEF ApplyCheck
<1>8. CASE ReplaceFinal
    BY <1>8 DEF ReplaceFinal
<1>9. CASE RecordApplied
    BY <1>9 DEF RecordApplied
<1>10. CASE VerifyRestored
    BY <1>10 DEF VerifyRestored
<1>11. CASE CompleteRestore
    <2>1. /\ on \in Restores /\ on \in OpenRestores
        BY <1>11 DEF CompleteRestore
    <2>2. CASE d = on
        BY <1>11, <2>1, <2>2 DEF CompleteRestore, ReleaseHold
    <2>3. CASE d # on
        <3>1. d \in OpenRestores => source[d] # source[on]
            BY <2>1, <2>3
        <3> QED
            BY <1>11, <2>1, <2>3, <3>1 DEF CompleteRestore, ReleaseHold
    <2> QED
        BY <2>2, <2>3
<1>12. CASE BlockRestore
    BY <1>12 DEF BlockRestore, RestoreRefused
<1>13. CASE RecordUndoIntent
    BY <1>13 DEF RecordUndoIntent
<1>14. CASE UndoCheck
    BY <1>14 DEF UndoCheck
<1>15. CASE UndoReplace
    BY <1>15 DEF UndoReplace
<1>16. CASE RecordUndoApplied
    BY <1>16 DEF RecordUndoApplied
<1>17. CASE VerifyUndo
    BY <1>17 DEF VerifyUndo
<1>18. CASE CompleteUndo
    BY <1>18 DEF CompleteUndo
<1>19. CASE BlockUndo
    BY <1>19 DEF BlockUndo, UndoRefused
<1>20. ASSUME NEW r \in Restores, LoadUndo(r) PROVE RestoreAgrees(d)'
    BY <1>20, LoadedUndo
<1>21. CASE RecordExpiryIntent
    BY <1>21 DEF RecordExpiryIntent
<1>22. CASE ExpirePayload
    BY <1>22 DEF ExpirePayload
<1>23. CASE ExpireManifest
    BY <1>23 DEF ExpireManifest
<1>24. CASE CompleteExpiry
    BY <1>24 DEF CompleteExpiry
<1>25. ASSUME NEW r \in Restores, LoadExpiry(r) PROVE RestoreAgrees(d)'
    BY <1>25 DEF LoadExpiry
<1>26. ASSUME NEW r \in Restores, RequestUndo(r) PROVE RestoreAgrees(d)'
    BY <1>26 DEF RequestUndo
<1>27. ASSUME NEW r \in Restores, NEW v \in Versions, RequestRestore(r, v) PROVE RestoreAgrees(d)'
    BY <1>27 DEF RequestRestore, Restorable
<1>28. CASE RestoreQuiet
    BY <1>28 DEF RestoreQuiet
<1> HIDE DEF TypeOK, RestoreShape, OneRestoreEach, RestoreAgrees, RestoreQuiet
<1> QED
    BY <1>1, <1>2, <1>3, <1>4, <1>5, <1>6, <1>7, <1>8, <1>9, <1>10, <1>11, <1>12,
       <1>13, <1>14, <1>15, <1>16, <1>17, <1>18, <1>19, <1>20, <1>21, <1>22,
       <1>23, <1>24, <1>25, <1>26, <1>27, <1>28, RestoreQuietStep DEF RestoreStep

\* A hold serves one restore.
LEMMA OneEachStep ==
    ASSUME TypeOK, ItemsAgree, RetentionShape, RestoreShape, OneRestoreEach,
           (\A r \in Restores : RestoreAgrees(r)), [Next]_vars
    PROVE  OneRestoreEach'
<1> USE DEF TypeOK, RetTypeOK, ObjectStates, RestoreStates, RollbackStates, UndoStates,
           RestoreShape, RestoreSteps, UndoSteps, ExpirySteps, RestoreAgrees,
           RollbackIntact, Holds, OpenRestores, OneRestoreEach, objects, files, retention, thread, journal, rollbackFiles, restoreVars, Goto,
           EndRound, Fault, PassOn, NewRound, Stay, MoveRestore, MoveRollback
<1>1. CASE LoadRestore
    BY <1>1, LoadedRestore
<1>2. CASE RestoreAlreadyCurrent
    BY <1>2 DEF RestoreAlreadyCurrent, ReleaseHold
<1>3. CASE RecordRestoreIntent
    BY <1>3 DEF RecordRestoreIntent
<1>4. CASE PreservePayload
    BY <1>4 DEF PreservePayload
<1>5. CASE PreserveManifest
    BY <1>5 DEF PreserveManifest
<1>6. CASE RecordPreserved
    BY <1>6 DEF RecordPreserved
<1>7. CASE ApplyCheck
    BY <1>7 DEF ApplyCheck
<1>8. CASE ReplaceFinal
    BY <1>8 DEF ReplaceFinal
<1>9. CASE RecordApplied
    BY <1>9 DEF RecordApplied
<1>10. CASE VerifyRestored
    BY <1>10 DEF VerifyRestored
<1>11. CASE CompleteRestore
    BY <1>11 DEF CompleteRestore, ReleaseHold
<1>12. CASE BlockRestore
    BY <1>12 DEF BlockRestore, RestoreRefused
<1>13. CASE RecordUndoIntent
    BY <1>13 DEF RecordUndoIntent
<1>14. CASE UndoCheck
    BY <1>14 DEF UndoCheck
<1>15. CASE UndoReplace
    BY <1>15 DEF UndoReplace
<1>16. CASE RecordUndoApplied
    BY <1>16 DEF RecordUndoApplied
<1>17. CASE VerifyUndo
    BY <1>17 DEF VerifyUndo
<1>18. CASE CompleteUndo
    BY <1>18 DEF CompleteUndo
<1>19. CASE BlockUndo
    BY <1>19 DEF BlockUndo, UndoRefused
<1>20. ASSUME NEW r \in Restores, LoadUndo(r) PROVE OneRestoreEach'
    BY <1>20, LoadedUndo
<1>21. CASE RecordExpiryIntent
    BY <1>21 DEF RecordExpiryIntent
<1>22. CASE ExpirePayload
    BY <1>22 DEF ExpirePayload
<1>23. CASE ExpireManifest
    BY <1>23 DEF ExpireManifest
<1>24. CASE CompleteExpiry
    BY <1>24 DEF CompleteExpiry
<1>25. ASSUME NEW r \in Restores, LoadExpiry(r) PROVE OneRestoreEach'
    BY <1>25 DEF LoadExpiry
<1>26. ASSUME NEW r \in Restores, RequestUndo(r) PROVE OneRestoreEach'
    BY <1>26 DEF RequestUndo
<1>27. ASSUME NEW r \in Restores, NEW v \in Versions, RequestRestore(r, v) PROVE OneRestoreEach'
    BY <1>27 DEF RequestRestore, Restorable
<1>28. CASE RestoreQuiet
    BY <1>28 DEF RestoreQuiet
<1> HIDE DEF TypeOK, RestoreShape, OneRestoreEach, RestoreAgrees
<1> QED
    BY <1>1, <1>2, <1>3, <1>4, <1>5, <1>6, <1>7, <1>8, <1>9, <1>10, <1>11, <1>12,
       <1>13, <1>14, <1>15, <1>16, <1>17, <1>18, <1>19, <1>20, <1>21, <1>22,
       <1>23, <1>24, <1>25, <1>26, <1>27, <1>28, RestoreQuietStep DEF RestoreStep

\* The steps of a restore, an undo or an expiry.
LEMMA RestoreShapeStep ==
    ASSUME TypeOK, ItemsAgree, RetentionShape, RestoreShape, OneRestoreEach,
           (\A r \in Restores : RestoreAgrees(r)), [Next]_vars
    PROVE  RestoreShape'
<1> USE DEF TypeOK, RetTypeOK, ObjectStates, RestoreStates, RollbackStates, UndoStates,
           RestoreShape, RestoreSteps, UndoSteps, ExpirySteps, RestoreAgrees,
           RollbackIntact, Holds, OpenRestores, OneRestoreEach, objects, files, retention, thread, journal, rollbackFiles, restoreVars, Goto,
           EndRound, Fault, PassOn, NewRound, Stay, MoveRestore, MoveRollback
<1>1. CASE LoadRestore
    BY <1>1, LoadedRestore
<1>2. CASE RestoreAlreadyCurrent
    BY <1>2 DEF RestoreAlreadyCurrent, ReleaseHold
<1>3. CASE RecordRestoreIntent
    BY <1>3 DEF RecordRestoreIntent
<1>4. CASE PreservePayload
    <2>1. on \in Restores /\ RestoreAgrees(on)
        BY <1>4 DEF PreservePayload
    <2>2. copy[on] \in {Missing, current[on]} /\ copy'[on] = current[on]
        BY <1>4, <2>1 DEF PreservePayload
    <2> QED
        BY <1>4, <2>1, <2>2 DEF PreservePayload
<1>5. CASE PreserveManifest
    BY <1>5 DEF PreserveManifest
<1>6. CASE RecordPreserved
    BY <1>6 DEF RecordPreserved
<1>7. CASE ApplyCheck
    BY <1>7 DEF ApplyCheck
<1>8. CASE ReplaceFinal
    BY <1>8 DEF ReplaceFinal
<1>9. CASE RecordApplied
    BY <1>9 DEF RecordApplied
<1>10. CASE VerifyRestored
    BY <1>10 DEF VerifyRestored
<1>11. CASE CompleteRestore
    BY <1>11 DEF CompleteRestore, ReleaseHold
<1>12. CASE BlockRestore
    BY <1>12 DEF BlockRestore, RestoreRefused
<1>13. CASE RecordUndoIntent
    BY <1>13 DEF RecordUndoIntent
<1>14. CASE UndoCheck
    BY <1>14 DEF UndoCheck, Undoable
<1>15. CASE UndoReplace
    BY <1>15 DEF UndoReplace
<1>16. CASE RecordUndoApplied
    BY <1>16 DEF RecordUndoApplied
<1>17. CASE VerifyUndo
    BY <1>17 DEF VerifyUndo
<1>18. CASE CompleteUndo
    BY <1>18 DEF CompleteUndo
<1>19. CASE BlockUndo
    BY <1>19 DEF BlockUndo, UndoRefused
<1>20. ASSUME NEW r \in Restores, LoadUndo(r) PROVE RestoreShape'
    BY <1>20, LoadedUndo
<1>21. CASE RecordExpiryIntent
    BY <1>21 DEF RecordExpiryIntent
<1>22. CASE ExpirePayload
    BY <1>22 DEF ExpirePayload
<1>23. CASE ExpireManifest
    BY <1>23 DEF ExpireManifest
<1>24. CASE CompleteExpiry
    BY <1>24 DEF CompleteExpiry
<1>25. ASSUME NEW r \in Restores, LoadExpiry(r) PROVE RestoreShape'
    BY <1>25 DEF LoadExpiry, Expirable
<1>26. ASSUME NEW r \in Restores, RequestUndo(r) PROVE RestoreShape'
    BY <1>26 DEF RequestUndo
<1>27. ASSUME NEW r \in Restores, NEW v \in Versions, RequestRestore(r, v) PROVE RestoreShape'
    BY <1>27 DEF RequestRestore, Restorable
<1>28. CASE RestoreQuiet
    BY <1>28 DEF RestoreQuiet
<1> HIDE DEF TypeOK, RestoreShape, OneRestoreEach, RestoreAgrees
<1> QED
    BY <1>1, <1>2, <1>3, <1>4, <1>5, <1>6, <1>7, <1>8, <1>9, <1>10, <1>11, <1>12,
       <1>13, <1>14, <1>15, <1>16, <1>17, <1>18, <1>19, <1>20, <1>21, <1>22,
       <1>23, <1>24, <1>25, <1>26, <1>27, <1>28, RestoreQuietStep DEF RestoreStep

-----------------------------------------------------------------------------
\* The initial states satisfy the invariant.
LEMMA InitInv == Init => IInv
<1> SUFFICES ASSUME Init PROVE IInv
    OBVIOUS
<1> USE Bounds
<1> USE DEF Init, RetInit
<1>1. TypeOK
    <2>1. RetTypeOK
        <3>1. hold \in [Versions -> BOOLEAN] /\ resuming \in BOOLEAN
            BY Zenon
        <3>2. /\ job \in [Jobs -> {"ACTIVE", "ARCHIVED"}]
              /\ obj \in [Versions -> ObjectStates] /\ item \in [Versions -> ItemStates]
            BY DEF ObjectStates, ItemStates
        <3>3. /\ due \subseteq Versions /\ payload \subseteq Versions
              /\ manifest \subseteq Versions /\ listed \subseteq Versions
              /\ faults \in 0..MaxFaults
            OBVIOUS
        <3> QED
            BY <3>1, <3>2, <3>3 DEF RetTypeOK
    <2>2. /\ op \in [Restores -> RestoreStates] /\ source \in [Restores -> Versions \cup {0}]
          /\ rb \in [Restores -> RollbackStates]
        BY DEF RestoreStates, RollbackStates
    <2>3. current \in [Restores -> Int] /\ copy \in [Restores -> Int] /\ final \in Int
        BY DEF Missing
    <2> QED
        BY <2>1, <2>2, <2>3 DEF TypeOK
<1>2. ItemsAgree /\ HeadOfLine
    BY DEF ItemsAgree, HeadOfLine, OpenItems, Journaled
<1>3. RetentionShape /\ RestoreShape
    BY DEF RetentionShape, RestoreShape, RestoreSteps, UndoSteps, ExpirySteps
<1>4. (\A r \in Restores : RestoreAgrees(r)) /\ OneRestoreEach
    BY DEF RestoreAgrees, OneRestoreEach, OpenRestores
<1> QED
    BY <1>1, <1>2, <1>3, <1>4 DEF IInv

\* Every step keeps the invariant.
LEMMA InvStep == IInv /\ [Next]_vars => IInv'
<1> SUFFICES ASSUME IInv, [Next]_vars PROVE IInv'
    OBVIOUS
<1>1. TypeOK /\ ItemsAgree /\ HeadOfLine /\ RetentionShape
    BY DEF IInv
<1>2. (\A r \in Restores : RestoreAgrees(r)) /\ OneRestoreEach /\ RestoreShape
    BY DEF IInv
<1>3. TypeOK'
    BY <1>1, <1>2, TypeStep
<1>4. ItemsAgree' /\ HeadOfLine'
    BY <1>1, <1>2, ItemsStep, HeadStep
<1>5. RetentionShape' /\ RestoreShape'
    BY <1>1, <1>2, RetentionShapeStep, RestoreShapeStep
<1>6. OneRestoreEach'
    BY <1>1, <1>2, OneEachStep
<1>7. ASSUME NEW r \in Restores PROVE RestoreAgrees(r)'
    BY <1>1, <1>2, AgreesStep
<1> QED
    BY <1>3, <1>4, <1>5, <1>6, <1>7 DEF IInv

\* The invariant: what the journals say of the files, and what the thread
\* knows at each of its steps.
THEOREM Invariance == Spec => []IInv
<1>1. Init => IInv
    BY InitInv
<1>2. IInv /\ [Next]_vars => IInv'
    BY InvStep
<1> QED
    BY <1>1, <1>2, PTL DEF Spec

\* Every variable keeps its type, whatever the schedule, the faults and the
\* edits: catalog rows in their states, files with contents.
THEOREM TypeCorrect == Spec => []TypeOK
<1>1. IInv => TypeOK
    BY DEF IInv
<1> QED
    BY <1>1, Invariance, PTL

\* A version that is offered for a restore has its payload and its manifest
\* (version_retention.py records the intent to delete before it unlinks).
THEOREM OffersBytes == Spec => []RetainedHasBytes
<1>1. IInv => RetainedHasBytes
    BY DEF IInv, ItemsAgree, RetainedHasBytes
<1> QED
    BY <1>1, Invariance, PTL

\* A version on hold is a retained version: no plan of a deletion, made before
\* or after the hold, takes it.
THEOREM HoldsKeep == Spec => []HeldIsRetained
<1>1. IInv => HeldIsRetained
    BY DEF IInv, ItemsAgree, HeldIsRetained
<1> QED
    BY <1>1, Invariance, PTL

\* Files go in their order: payload, manifest, row; and only versions with a
\* journaled deletion lose any.
THEOREM DeletionInOrder == Spec => []DeletionOrdered
<1>1. IInv => DeletionOrdered
    BY DEF IInv, ItemsAgree, DeletionOrdered, TypeOK, RetTypeOK
<1> QED
    BY <1>1, Invariance, PTL

\* While a restore can be undone its rollback object holds what the final
\* held when the restore began (complete_version_restore,
\* record_version_restore_rollback_expiry_intent).
THEOREM RollbackStays == Spec => []RollbackKept
<1>1. IInv => RollbackKept
    BY DEF IInv, RestoreAgrees, RollbackKept
<1> QED
    BY <1>1, Invariance, PTL

\* An open restore keeps the hold and the files of its version.
THEOREM OpenKeepsVersion == Spec => []RestoreKeepsHold
<1>1. ASSUME IInv, NEW r \in OpenRestores PROVE Holds(r) /\ HistoricalIntact(r)
    <2>1. r \in Restores /\ op[r] # "none" /\ RestoreAgrees(r)
        BY <1>1 DEF IInv, OpenRestores
    <2>2. Holds(r) /\ source[r] \in Versions
        BY <1>1, <2>1 DEF RestoreAgrees, IInv, TypeOK
    <2> QED
        BY <1>1, <2>2 DEF IInv, ItemsAgree, Holds, HistoricalIntact
<1>2. IInv => RestoreKeepsHold
    BY <1>1 DEF RestoreKeepsHold
<1> QED
    BY <1>2, Invariance, PTL

\* A completed restore that replaced the final has a rollback row.
THEOREM CompletedCanBeUndone == Spec => []CompletedIsUndoable
<1>1. IInv => CompletedIsUndoable
    BY DEF IInv, RestoreAgrees, CompletedIsUndoable
<1> QED
    BY <1>1, Invariance, PTL

\* Restore, undo and expiry may rely on one another: the four facts above hold
\* together in every reachable state (version_retention.py, version_restore.py and
\* version_restore_rollback.py work on the same rows and files).
THEOREM VersionsAreSound == Spec => []VersionsSound
<1> QED
    BY TypeCorrect, DeletionInOrder, OpenKeepsVersion, CompletedCanBeUndone, PTL DEF VersionsSound

-----------------------------------------------------------------------------
\* Apart from the user, only two steps change the final.
LEMMA OnlyReplaces ==
    ASSUME TypeOK, [Next]_vars, final' # final, edits' = edits
    PROVE  ReplaceFinal \/ UndoReplace
<1>1. \A c \in Int : ~EditFinal(c)
    <2>1. edits \in Nat
        BY Bounds DEF TypeOK
    <2> QED
        BY <2>1 DEF EditFinal
<1>2. restoreVars' # restoreVars
    BY DEF restoreVars
<1>3. \A r \in Restores : ~LoadUndo(r) /\ ~LoadExpiry(r)
    BY DEF LoadUndo, LoadExpiry
<1>4. \A r \in Restores :
        /\ ~UndoArrives(r) /\ ~RequestUndo(r) /\ ~RollbackBecomesDue(r)
        /\ \A v \in Versions : ~RequestRestore(r, v)
    BY DEF UndoArrives, RequestUndo, RollbackBecomesDue, RequestRestore
<1>5. ~UNCHANGED vars /\ ~Crash
    BY DEF vars, Crash
<1>6. /\ ~RestoreIdle /\ ~LoadRestore /\ ~RestoreAlreadyCurrent /\ ~RecordRestoreIntent
      /\ ~PreservePayload /\ ~PreserveManifest /\ ~RecordPreserved /\ ~ApplyCheck
      /\ ~RecordApplied /\ ~VerifyRestored /\ ~CompleteRestore /\ ~BlockRestore
      /\ ~RestoreWithoutLease /\ ~RestoreRetry
    BY DEF RestoreIdle, LoadRestore, RestoreAlreadyCurrent, RecordRestoreIntent, PreservePayload,
       PreserveManifest, RecordPreserved, ApplyCheck, RecordApplied, VerifyRestored,
       CompleteRestore, BlockRestore, RestoreWithoutLease, RestoreRetry
<1>7. /\ ~UndoIdle /\ ~RecordUndoIntent /\ ~UndoCheck /\ ~RecordUndoApplied /\ ~VerifyUndo
      /\ ~CompleteUndo /\ ~BlockUndo /\ ~UndoWithoutLease /\ ~UndoRetry
    BY DEF UndoIdle, RecordUndoIntent, UndoCheck, RecordUndoApplied, VerifyUndo, CompleteUndo,
       BlockUndo, UndoWithoutLease, UndoRetry
<1>8. /\ ~ExpiryIdle /\ ~RecordExpiryIntent /\ ~ExpiryConflict /\ ~ExpirePayload
      /\ ~ExpireManifest /\ ~CompleteExpiry /\ ~ExpiryWithoutLease /\ ~ExpiryRetry
    BY DEF ExpiryIdle, RecordExpiryIntent, ExpiryConflict, ExpirePayload, ExpireManifest,
       CompleteExpiry, ExpiryWithoutLease, ExpiryRetry
<1> QED
    BY <1>1, <1>2, <1>3, <1>4, <1>5, <1>6, <1>7, <1>8, Moves DEF Moved

\* The replace of a restore comes after its rollback object is complete, and
\* while its version is whole.
LEMMA RestoreReplaceStep ==
    ASSUME IInv, ReplaceFinal
    PROVE  \E r \in Restores : RestoreReplaces(r)
<1>1. on \in Restores /\ op[on] = "CURRENT_FINAL_PRESERVED" /\ seen = current[on]
    BY DEF IInv, RestoreShape, RestoreSteps, ReplaceFinal
<1>2. copy[on] = current[on] /\ on \in proof /\ on \in OpenRestores
    BY <1>1 DEF IInv, RestoreAgrees, RollbackIntact, OpenRestores
<1>3. Holds(on) /\ source[on] \in Versions
    BY <1>1, <1>2 DEF IInv, TypeOK, RestoreAgrees
<1>4. HistoricalIntact(on)
    BY <1>3 DEF IInv, ItemsAgree, Holds, HistoricalIntact
<1> QED
    BY <1>1, <1>2, <1>3, <1>4 DEF RestoreReplaces, ReplaceFinal

\* The replace of an undo gives back what the rollback object holds, which is
\* what the final held when the restore began.
LEMMA UndoReplaceStep ==
    ASSUME IInv, UndoReplace
    PROVE  \E r \in Restores : UndoReplaces(r)
<1>1. /\ on \in Restores /\ rb[on] = "UNDO_INTENT_RECORDED"
      /\ seen \in {source[on], Missing}
    BY DEF IInv, RestoreShape, UndoSteps, UndoReplace
<1>2. copy[on] = current[on]
    BY <1>1 DEF IInv, RestoreAgrees, RollbackIntact
<1> QED
    BY <1>1, <1>2 DEF UndoReplaces, UndoReplace

\* The program replaces the final only as its journal says, by the version a
\* restore holds or by what the final held before, and what a restore takes
\* away is in its rollback object (apply_historical_version, apply_restore_undo).
THEOREM ReplacesFollowJournal == Spec => ReplacesAsJournaled
<1>1. ASSUME IInv, [Next]_vars, final' # final, edits' = edits
      PROVE  \E r \in Restores : RestoreReplaces(r) \/ UndoReplaces(r)
    BY <1>1, OnlyReplaces, RestoreReplaceStep, UndoReplaceStep DEF IInv
<1>2. IInv /\ [Next]_vars
        => ((final' # final /\ edits' = edits)
              => \E r \in Restores : RestoreReplaces(r) \/ UndoReplaces(r))
    BY <1>1
<1> QED
    BY <1>2, Invariance, PTL DEF Spec, ReplacesAsJournaled
=============================================================================
