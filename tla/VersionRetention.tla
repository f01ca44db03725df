-------------------------- MODULE VersionRetention --------------------------
(***************************************************************************)
(* The life of retained versions: the copies of replaced files that a      *)
(* backup keeps in the control area of a target endpoint, each a payload   *)
(* and an ownership manifest.  A version that is due is put on a plan,     *)
(* its deletion is journaled, its two files are deleted and the journal    *)
(* is closed.  The user may put a hold on a version, to restore it, at     *)
(* any time; a job that is not ACTIVE keeps its versions.                  *)
(*                                                                         *)
(* The maintenance thread is one sequential process: `at' is its next      *)
(* step, `on' the row it has loaded.  The states of a row stand for its    *)
(* row_version: a loaded row is stale exactly when its state has changed.  *)
(* A version is due when its time is over and recovery has released it; as *)
(* neither is ever taken back, the second look at the release when an item *)
(* is applied is not repeated here.                                        *)
(***************************************************************************)
EXTENDS Integers, FiniteSets

CONSTANTS Versions,    \* retained versions, in the order they become due
          Jobs, JobOf,
          MaxFaults    \* bound: refused leases, failed file operations, job
                       \* lifecycle commands and crashes, together

ASSUME VersionAssumption ==
    /\ Versions \subseteq Nat \ {0} /\ IsFiniteSet(Versions)
    /\ JobOf \in [Versions -> Jobs] /\ MaxFaults \in Nat

VARIABLES
    job, obj, hold, item,    \* catalog: jobs, version objects, holds, plan items
    due,                     \* retention time reached, operation CLEANED
    payload, manifest,       \* the two files of each version
    at, on, resuming,        \* the maintenance thread
    listed,                  \* the due versions it has read
    faults

objects == <<job, obj, hold, item, due>>
files == <<payload, manifest>>
thread == <<at, on, resuming, listed>>

ObjectStates == {"RETAINED", "DELETE_PENDING", "DELETED", "BLOCKED"}
ItemStates == {"none", "PLANNED", "DELETE_INTENT_RECORDED",
               "FILESYSTEM_DELETED", "DELETED", "BLOCKED"}

RetInit ==
    /\ job = [j \in Jobs |-> "ACTIVE"]
    /\ obj = [v \in Versions |-> "RETAINED"]
    /\ hold = [v \in Versions |-> FALSE]
    /\ item = [v \in Versions |-> "none"]
    /\ due = {}
    /\ payload = Versions /\ manifest = Versions
    /\ at = "undo" /\ on = 0 /\ resuming = FALSE /\ listed = {}
    /\ faults = 0

-----------------------------------------------------------------------------
(* The thread.  A round is undo, rollback expiry, restore, retention; an   *)
(* exception ends the round, and the next one begins with undo.            *)

Goto(l) == at' = l
EndRound == at' = "undo" /\ on' = 0 /\ resuming' = FALSE /\ listed' = {}
Fault == faults < MaxFaults /\ faults' = faults + 1

OpenItems == {v \in Versions : item[v] \in
                {"PLANNED", "DELETE_INTENT_RECORDED", "FILESYSTEM_DELETED"}}
NextItem == CHOOSE v \in OpenItems : \A u \in OpenItems : v <= u

\* What makes a version due: both the listing and the plan's transaction ask.
Due(v) == obj[v] = "RETAINED" /\ v \in due /\ job[JobOf[v]] = "ACTIVE" /\ ~hold[v]

\* Blocking a plan gives its other objects back; the object itself stays
\* BLOCKED unless the reason may pass.
BlockPlan(v, mayPass) ==
    /\ obj' = [u \in Versions |->
                 IF obj[u] # "DELETE_PENDING" THEN obj[u]
                 ELSE IF u = v /\ ~mayPass THEN "BLOCKED" ELSE "RETAINED"]
    /\ item' = [u \in Versions |->
                 IF item[u] \in {"PLANNED", "DELETE_INTENT_RECORDED"}
                   THEN "BLOCKED" ELSE item[u]]

CompleteItem(v) ==
    /\ item' = [item EXCEPT ![v] = "DELETED"]
    /\ obj' = [obj EXCEPT ![v] = "DELETED"]

-----------------------------------------------------------------------------
(* Planning *)

ListDue ==
    /\ at = "retain" /\ OpenItems = {}
    /\ listed' = {v \in Versions : Due(v)}
    /\ IF listed' = {} THEN at' = "undo" ELSE at' = "plan"
    /\ UNCHANGED <<objects, files, on, resuming, faults>>

\* One transaction for all candidates; one that is no longer due refuses the
\* plan, an exception for the round.
CreatePlan ==
    /\ at = "plan"
    /\ IF \A v \in listed : Due(v)
         THEN /\ obj' = [v \in Versions |->
                           IF v \in listed THEN "DELETE_PENDING" ELSE obj[v]]
              /\ item' = [v \in Versions |->
                            IF v \in listed THEN "PLANNED" ELSE item[v]]
              /\ Goto("retain") /\ listed' = {} /\ UNCHANGED <<on, resuming>>
         ELSE EndRound /\ UNCHANGED <<obj, item>>
    /\ UNCHANGED <<job, hold, due, files, faults>>

-----------------------------------------------------------------------------
(* Applying the next item *)

\* A deletion that only has to be closed needs no lease.
FinishDeleted ==
    /\ at = "retain" /\ OpenItems # {}
    /\ item[NextItem] = "FILESYSTEM_DELETED" /\ CompleteItem(NextItem)
    /\ EndRound
    /\ UNCHANGED <<job, hold, due, files, faults>>

\* The endpoint lease is refused, as during a run: nothing changes.
ItemWithoutLease ==
    /\ at = "retain" /\ OpenItems # {}
    /\ item[NextItem] # "FILESYSTEM_DELETED"
    /\ Fault /\ EndRound
    /\ UNCHANGED <<objects, files>>

LoadItem ==
    /\ at = "retain" /\ OpenItems # {}
    /\ item[NextItem] # "FILESYSTEM_DELETED"
    /\ on' = NextItem /\ resuming' = (item[NextItem] = "DELETE_INTENT_RECORDED")
    /\ Goto("intent")
    /\ UNCHANGED <<objects, files, listed, faults>>

\* The object pair is verified unless the deletion is resumed.
PairVerified(v) == resuming \/ (v \in payload /\ v \in manifest)

\* The intent is recorded only while the version may still be deleted.
MayDelete(v) == obj[v] = "DELETE_PENDING" /\ job[JobOf[v]] = "ACTIVE" /\ ~hold[v]

RecordDeleteIntent ==
    /\ at = "intent" /\ PairVerified(on) /\ MayDelete(on)
    /\ item' = [item EXCEPT ![on] = "DELETE_INTENT_RECORDED"]
    /\ Goto("unlinkPayload")
    /\ UNCHANGED <<job, obj, hold, due, files, on, resuming, listed, faults>>

\* A failure before the first deletion blocks the plan; a resumed deletion
\* stays journaled.
\* Mutant: a resumed deletion is blocked too.
RefuseIntentAlways ==
    /\ at = "intent" /\ ~(PairVerified(on) /\ MayDelete(on))
    /\ BlockPlan(on, PairVerified(on))
    /\ EndRound
    /\ UNCHANGED <<job, hold, due, files, faults>>

RefuseIntent ==
    /\ at = "intent" /\ ~(PairVerified(on) /\ MayDelete(on))
    /\ IF resuming THEN UNCHANGED <<obj, item>> ELSE BlockPlan(on, PairVerified(on))
    /\ EndRound
    /\ UNCHANGED <<job, hold, due, files, faults>>

\* The payload goes first, so that what is left is always owned by a manifest.
UnlinkPayload ==
    /\ at = "unlinkPayload"
    /\ payload' = payload \ {on} /\ Goto("unlinkManifest")
    /\ UNCHANGED <<objects, manifest, on, resuming, listed, faults>>

UnlinkManifest ==
    /\ at = "unlinkManifest"
    /\ manifest' = manifest \ {on} /\ Goto("deleted")
    /\ UNCHANGED <<objects, payload, on, resuming, listed, faults>>

\* A file operation fails: the deletion stays journaled.
UnlinkFails ==
    /\ at \in {"unlinkPayload", "unlinkManifest"} /\ Fault /\ EndRound
    /\ UNCHANGED <<objects, files>>

RecordDeleted ==
    /\ at = "deleted" /\ item' = [item EXCEPT ![on] = "FILESYSTEM_DELETED"]
    /\ Goto("complete")
    /\ UNCHANGED <<job, obj, hold, due, files, on, resuming, listed, faults>>

CompleteRetentionItem ==
    /\ at = "complete" /\ CompleteItem(on) /\ EndRound
    /\ UNCHANGED <<job, hold, due, files, faults>>

RetThread ==
    \/ ListDue \/ CreatePlan \/ FinishDeleted
    \/ LoadItem \/ RecordDeleteIntent \/ RefuseIntent
    \/ UnlinkPayload \/ UnlinkManifest \/ RecordDeleted \/ CompleteRetentionItem

-----------------------------------------------------------------------------
(* Commands and time *)

\* Mutant: the state of the version is not checked.
ProtectAny(v) ==
    /\ ~hold[v] /\ hold' = [hold EXCEPT ![v] = TRUE]
    /\ UNCHANGED <<job, obj, item, due, files, thread, faults>>

\* PROTECT_RETAINED_VERSION_FOR_RESTORE
Protectable(v) == obj[v] = "RETAINED" /\ ~hold[v]
ProtectVersion(v) ==
    /\ Protectable(v)
    /\ hold' = [hold EXCEPT ![v] = TRUE]
    /\ UNCHANGED <<job, obj, item, due, files, thread, faults>>

\* The job is archived or activated again; one deleted for good is an archived
\* one that is never activated.
ToggleJob(j) ==
    /\ Fault /\ job' = [job EXCEPT ![j] = IF @ = "ACTIVE" THEN "ARCHIVED" ELSE "ACTIVE"]
    /\ UNCHANGED <<obj, hold, item, due, files, thread>>

BecomesDue(v) ==
    /\ v \notin due /\ due' = due \cup {v}
    /\ UNCHANGED <<job, obj, hold, item, files, thread, faults>>

-----------------------------------------------------------------------------
(* Properties *)

\* Every variable keeps its type: the states of version_objects and of the items
\* of a retention plan.
RetTypeOK ==
    /\ job \in [Jobs -> {"ACTIVE", "ARCHIVED"}]
    /\ obj \in [Versions -> ObjectStates] /\ hold \in [Versions -> BOOLEAN]
    /\ item \in [Versions -> ItemStates]
    /\ due \subseteq Versions
    /\ payload \subseteq Versions /\ manifest \subseteq Versions
    /\ resuming \in BOOLEAN /\ listed \subseteq Versions /\ faults \in 0..MaxFaults

\* A version the catalog offers as RETAINED has its payload and its manifest:
\* no blocked plan, crash or failed deletion gives back a version whose files
\* are already gone (block_version_retention_plan, delete_retained_version).
RetainedHasBytes ==
    \A v \in Versions : obj[v] = "RETAINED" => v \in payload /\ v \in manifest

\* A version on hold is never on its way to deletion, whenever the hold comes
\* in between listing, planning and deleting (create_version_retention_plan,
\* record_version_delete_intent).
HeldIsRetained == \A v \in Versions : hold[v] => obj[v] = "RETAINED"

\* Whatever is left of a version has its manifest, and a version is recorded
\* as deleted only when both files are gone.
DeletionOrdered ==
    /\ payload \subseteq manifest
    /\ \A v \in Versions : obj[v] = "DELETED" => v \notin payload /\ v \notin manifest
=============================================================================
