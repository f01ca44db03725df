------------------------------ MODULE JobWork ------------------------------
(* The four parts of a job together: its contents, schedule and queue, the    *)
(* inside of a check, and the duplicate scan; and what they promise.           *)
EXTENDS Jobs, Analysis, Duplicates

(* Each part by its own specification: the order of their steps is free.       *)
WorkSpec == JobsSpec /\ AnSpec /\ DuSpec

(* The types of the four parts, and what the parts rely on among themselves:  *)
(* a task is never ahead of its schedule, an enabled schedule belongs to the   *)
(* contents that were checked, a run that a check started is recorded, a       *)
(* snapshot is of one moment of each folder, a plan makes a copy and folders   *)
(* come first in it, the counts of a scan can be loaded, a hash is stored      *)
(* under the identity that was read, and a finished scan has found every copy. *)
JobsSound ==
    /\ SchedTypeOK /\ JobTypeOK /\ AnTypeOK /\ DuTypeOK
    /\ GenerationsOrdered /\ ScheduleMatchesContent /\ StartIsRecorded
    /\ SnapshotIsTrue /\ PlanMakesCopy /\ ParentsFirst
    /\ StatusLoads /\ EvidenceIsOfSnapshot /\ FindsEveryCopy
=============================================================================
