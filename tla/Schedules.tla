----------------------------- MODULE Schedules ------------------------------
(***************************************************************************)
(* The daily schedule of a backup job and the Windows task that fires it.  *)
(* The catalog holds the schedule and, beside it, an external resource row *)
(* that says which generation of the task is wanted.  A reconciler copies  *)
(* schedules to resource rows, claims a PENDING row, compares the task     *)
(* registered in Windows with the schedule, registers the task and marks   *)
(* the row; then it deletes tasks whose schedule is gone.                  *)
(*                                                                         *)
(* The reconciler runs once when the host starts (owner "startup", before  *)
(* any command is served) and then in a thread of its own (owner           *)
(* "maintenance").  The definition hash covers the generation, so the      *)
(* generation stands for the hash.  One schedule is modelled: every row is *)
(* handled by itself.                                                      *)
(***************************************************************************)
EXTENDS Integers

CONSTANTS MaxGen,       \* bound: generations of the schedule
          MaxTaskFaults \* bound: Task Scheduler errors, expired claims, changes
                        \* of the task from outside, crashes, together

ASSUME ScheduleAssumption == MaxGen \in Nat \ {0} /\ MaxTaskFaults \in Nat

VARIABLES
    sched,      \* the schedule row: generation (0: none), enabled, plan revision
    res,        \* the external resource row: state, generation, claim owner
    task,       \* what Windows has registered at the task's path
    touched,    \* the task was changed by someone else since it was applied
    mt,         \* the reconciler: next step, owner, what it has read
    taskFaults

schedVars == <<sched, res, task, touched, mt, taskFaults>>

ResourceStates == {"none", "PENDING", "CLAIMED", "IN_SYNC", "BLOCKED"}
Owners == {"startup", "maintenance"}
NoTask == [kind |-> "none", gen |-> 0, on |-> FALSE]
NoSchedule == [gen |-> 0, on |-> FALSE, plan |-> 0]
RoundSteps == {"down", "list", "stage", "claim", "load", "observe", "apply",
               "mark", "orphans", "delete"}

Schedule == [gen : 0..MaxGen, on : BOOLEAN, plan : Nat]
Resource == [st : ResourceStates, gen : 0..MaxGen, owner : Owners \cup {"none"}]
Task == [kind : {"none", "ours", "foreign"}, gen : 0..MaxGen, on : BOOLEAN]
Reconciler == [pc : RoundSteps, owner : Owners, seen : Schedule]

Idle(o) == [pc |-> "list", owner |-> o, seen |-> NoSchedule]

(* A task may be there before its schedule: left by an earlier installation *)
(* whose catalog is gone, or somebody else's.                               *)
SchedInit ==
    /\ sched = NoSchedule
    /\ res = [st |-> "none", gen |-> 0, owner |-> "none"]
    /\ task \in {NoTask, [kind |-> "ours", gen |-> 0, on |-> TRUE],
                 [kind |-> "foreign", gen |-> 0, on |-> TRUE]}
    /\ touched = FALSE /\ mt = Idle("startup") /\ taskFaults = 0

TaskFault == taskFaults < MaxTaskFaults /\ taskFaults' = taskFaults + 1

-----------------------------------------------------------------------------
(* The resource row.                                                       *)

(* What becomes of row r when generation g is wanted of it. *)
Upserted(r, g) ==
    IF r.st = "none" \/ g > r.gen
    THEN [st |-> "PENDING", gen |-> g, owner |-> "none"] ELSE r

Released(r, st) == [r EXCEPT !.st = st, !.owner = "none"]

(* The claim a reconciler works under is still the one in the row.  A newer *)
(* generation clears the claim, and nobody else claims meanwhile.           *)
ClaimHeld == res.st = "CLAIMED" /\ res.owner = mt.owner

(* Marking a row IN_SYNC also compares the generation that was applied. *)
CompletionMatches == ClaimHeld /\ res.gen = mt.seen.gen

(* A round that ends, normally or by an exception: the startup round hands *)
(* over to the maintenance thread, which begins again after its interval.  *)
RoundEnds == mt' = Idle("maintenance")

(* An exception in the startup round stops the host; in the thread it only *)
(* ends the round.  The row keeps the claim.                               *)
RoundFails == mt' = IF mt.owner = "startup" THEN [Idle("startup") EXCEPT !.pc = "down"]
                    ELSE Idle("maintenance")

-----------------------------------------------------------------------------
(* The round.                                                              *)

ListSchedules ==
    /\ mt.pc = "list"
    /\ mt' = [mt EXCEPT !.pc = IF sched.gen = 0 THEN "claim" ELSE "stage", !.seen = sched]
    /\ UNCHANGED <<sched, res, task, touched, taskFaults>>

(* The page was read before the row: a command may have changed both since. *)
StageResource ==
    /\ mt.pc = "stage"
    /\ IF res.gen > mt.seen.gen THEN RoundFails /\ UNCHANGED res
       ELSE res' = Upserted(res, mt.seen.gen) /\ mt' = [mt EXCEPT !.pc = "claim"]
    /\ UNCHANGED <<sched, task, touched, taskFaults>>

ClaimResource ==
    /\ mt.pc = "claim"
    /\ IF res.st = "PENDING"
       THEN /\ res' = [res EXCEPT !.st = "CLAIMED", !.owner = mt.owner]
            /\ mt' = [mt EXCEPT !.pc = "load", !.seen = [NoSchedule EXCEPT !.gen = res.gen]]
       ELSE UNCHANGED res /\ mt' = [mt EXCEPT !.pc = "orphans"]
    /\ UNCHANGED <<sched, task, touched, taskFaults>>

(* The row is given up as BLOCKED when the claim is still held; otherwise   *)
(* the refused update ends the round.                                       *)
BlockClaim ==
    IF ClaimHeld THEN res' = Released(res, "BLOCKED") /\ mt' = [mt EXCEPT !.pc = "claim"]
    ELSE UNCHANGED res /\ RoundFails

LoadSchedule ==
    /\ mt.pc = "load"
    /\ IF sched.gen # mt.seen.gen THEN BlockClaim
       ELSE mt' = [mt EXCEPT !.pc = "observe", !.seen = sched] /\ UNCHANGED res
    /\ UNCHANGED <<sched, task, touched, taskFaults>>

(* What the registered task asks for: nothing, a block, or an update. *)
TaskMatches == task.kind = "ours" /\ task.gen = mt.seen.gen /\ task.on = mt.seen.on
ObserveTask ==
    /\ mt.pc = "observe"
    /\ IF task.kind = "foreign" THEN BlockClaim
       ELSE /\ mt' = [mt EXCEPT !.pc = IF TaskMatches THEN "mark" ELSE "apply"]
            /\ UNCHANGED res
    /\ UNCHANGED <<sched, task, touched, taskFaults>>

ApplyTask ==
    /\ mt.pc = "apply"
    /\ task' = [kind |-> "ours", gen |-> mt.seen.gen, on |-> mt.seen.on]
    /\ touched' = FALSE
    /\ mt' = [mt EXCEPT !.pc = "mark"]
    /\ UNCHANGED <<sched, res, taskFaults>>

\* Mutant: the row is marked without comparing claim and generation.
MarkAny ==
    /\ mt.pc = "mark"
    /\ res' = Released(res, "IN_SYNC")
    /\ mt' = [mt EXCEPT !.pc = "claim"]
    /\ UNCHANGED <<sched, task, touched, taskFaults>>

MarkInSync ==
    /\ mt.pc = "mark"
    /\ IF CompletionMatches
       THEN res' = Released(res, "IN_SYNC") /\ mt' = [mt EXCEPT !.pc = "claim"]
       ELSE UNCHANGED res /\ RoundFails
    /\ UNCHANGED <<sched, task, touched, taskFaults>>

(* The monotonic claim window ends: the row goes back to PENDING. *)
ClaimExpires ==
    /\ mt.pc \in {"load", "observe", "apply", "mark"} /\ TaskFault
    /\ IF ClaimHeld THEN res' = Released(res, "PENDING") /\ mt' = [mt EXCEPT !.pc = "orphans"]
       ELSE UNCHANGED res /\ RoundFails
    /\ UNCHANGED <<sched, task, touched>>

(* Windows refuses to load, register or list: the claim stays in the row. *)
TaskSchedulerError ==
    /\ mt.pc \in {"observe", "apply", "orphans", "delete"} /\ TaskFault
    /\ RoundFails /\ UNCHANGED <<sched, res, task, touched>>

(* An owned task without a schedule is deleted, in a step after the look. *)
FindOrphan ==
    /\ mt.pc = "orphans"
    /\ IF task.kind = "ours" /\ sched.gen = 0 THEN mt' = [mt EXCEPT !.pc = "delete"] ELSE RoundEnds
    /\ UNCHANGED <<sched, res, task, touched, taskFaults>>

DeleteOrphan ==
    /\ mt.pc = "delete"
    /\ task' = NoTask /\ touched' = FALSE
    /\ RoundEnds /\ UNCHANGED <<sched, res, taskFaults>>

-----------------------------------------------------------------------------
(* The schedule as commands change it.                                     *)

Configured(on, plan) == [gen |-> sched.gen + 1, on |-> on, plan |-> plan]

(* Every enabled schedule of a job is disabled as a new generation; the    *)
(* resource row follows when the reconciler stages it.                     *)
Disabled(s) == IF s.on THEN [s EXCEPT !.on = FALSE, !.gen = @ + 1] ELSE s

-----------------------------------------------------------------------------
(* The rest of the world.                                                  *)

(* Somebody disables, deletes or replaces the task in Windows. *)
TouchTask ==
    /\ mt.pc # "down" /\ TaskFault
    /\ task' \in {NoTask, [kind |-> "foreign", gen |-> 0, on |-> TRUE]} \cup
                 (IF task.kind = "ours" THEN {[task EXCEPT !.on = ~@]} ELSE {})
    /\ task' # task /\ touched' = TRUE
    /\ UNCHANGED <<sched, res, mt>>

(* A start: claims of the maintenance thread's owner id are known to be    *)
(* dead and are requeued; the id of the startup round is the host's own    *)
(* and is never taken back.                                                *)
RequeueClaims == res' = IF res.st = "CLAIMED" /\ res.owner = "maintenance"
                        THEN Released(res, "PENDING") ELSE res

RoundStep == \/ ListSchedules \/ StageResource \/ ClaimResource \/ LoadSchedule
             \/ ObserveTask \/ ApplyTask \/ MarkInSync \/ FindOrphan \/ DeleteOrphan
ScheduleFault == ClaimExpires \/ TaskSchedulerError \/ TouchTask

-----------------------------------------------------------------------------
(* Properties.                                                             *)

(* Every variable keeps its type: rows of schedules and of                  *)
(* external_resource_states, a task, and the reconciler with what it read.  *)
SchedTypeOK ==
    /\ sched \in Schedule /\ res \in Resource /\ task \in Task /\ touched \in BOOLEAN
    /\ mt \in Reconciler /\ taskFaults \in 0..MaxTaskFaults

(* IN_SYNC is what Windows has: unless someone else changed the task, a row *)
(* marked IN_SYNC (mark_external_resource_in_sync) has its generation       *)
(* registered, even when commands changed the schedule between the read of  *)
(* the page, the claim, the registration and the mark.                      *)
InSyncIsRegistered ==
    (res.st = "IN_SYNC" /\ ~touched) => (task.kind = "ours" /\ task.gen = res.gen)

(* The wanted generation never falls behind what Windows has, and never     *)
(* runs ahead of the schedule (upsert_desired_resource_state refuses a      *)
(* regression): a late reconciler cannot bring an older task back for good. *)
GenerationsOrdered ==
    /\ res.gen <= sched.gen
    /\ (task.kind = "ours" /\ task.gen > 0) => task.gen <= res.gen

(* A wanted generation is registered or given up as BLOCKED, whatever       *)
(* commands come in between, except in two cases: after a Task Scheduler    *)
(* error the claim waits for the next start, and a claim of a startup round *)
(* that crashed waits for the next change of the schedule                   *)
(* (reconcile_next_pending_task_scheduler_resource).                        *)
ResourceSettles ==
    []<>(\/ res.st \in {"none", "IN_SYNC", "BLOCKED"}
         \/ res.st = "CLAIMED" /\ (taskFaults > 0 \/ res.owner = "startup"))
=============================================================================
