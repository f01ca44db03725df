-------------------------------- MODULE Jobs --------------------------------
(***************************************************************************)
(* One backup job: its lifecycle, its revisions, the checks (backup        *)
(* analysis requests) queued for it, the triggers of its daily schedule    *)
(* and the runs that checks start by themselves.                           *)
(*                                                                         *)
(* Commands are served by one thread, each in one catalog transaction that *)
(* also holds its receipt.  A command may be stale when it arrives, and it *)
(* may be sent again.  The maintenance                                     *)
(* thread takes one queued check at a time through snapshots, plan and     *)
(* automatic start; between any two of its steps commands are served.      *)
(***************************************************************************)
EXTENDS Schedules

CONSTANTS MaxCommands, \* bound: commands, numbered in the order they arrive
          MaxOccurrences, \* bound: firings of the daily task
          MaxCrashes      \* bound: stops of the host

ASSUME JobAssumption == MaxCommands \in Nat /\ MaxOccurrences \in Nat /\ MaxCrashes \in Nat

VARIABLES
    job,     \* lifecycle state, active revision and content revision (the last
             \* one that changed more than the name)
    snap,    \* the active revision's latest snapshot materialization is SEALED
    plans,   \* revisions whose latest plan materialization is SEALED and runnable
    req,     \* request id -> backup analysis request
    run,     \* request id -> the run it started (Window: started from the window);
             \* the revision is kept while it is active
    occ,     \* occurrence -> state
    rcpt,    \* key -> receipt
    post,    \* the edit whose follow-up check is still to be queued, or none
    ana,     \* the analysis in the maintenance thread
    raced,   \* active runs started after their request was blocked or the revision changed
    crashes

jobVars == <<job, snap, plans, req, run, occ, rcpt, post, ana, raced, crashes>>
boundVars == <<raced, crashes>>

Keys == 1..MaxCommands
Revs == 1..(MaxCommands + 1)
Occs == (MaxCommands + 1)..(MaxCommands + MaxOccurrences)
Ids == Keys \cup Occs
Window == 0
Kinds == {"archive", "reactivate", "delete", "edit", "rename", "check", "on", "off"}
TerminalRequest == {"SUCCEEDED", "NO_CHANGES", "BLOCKED", "FAILED"}
TerminalOccurrence == {"SUCCEEDED", "FAILED", "REJECTED"}

Job == [st : {"ACTIVE", "ARCHIVED", "DELETED"}, rev : Revs, content : Revs]
Request == [st : {"none", "QUEUED", "RUNNING"} \cup TerminalRequest,
            rev : Revs \cup {0}, auto : BOOLEAN, run : BOOLEAN]
Run == [st : {"none", "ACTIVE", "ENDED"}, rev : Revs \cup {0}]
AnaState == [pc : {"idle", "runs", "scan", "plan", "seal", "start", "complete", "occurrence"},
             q : Ids \cup {0}, rev : Revs \cup {0},
             out : TerminalRequest \cup {"none"}, run : BOOLEAN]

NoReq == [st |-> "none", rev |-> 0, auto |-> FALSE, run |-> FALSE]
NoRun == [st |-> "none", rev |-> 0]
NoAna == [pc |-> "idle", q |-> 0, rev |-> 0, out |-> "none", run |-> FALSE]

JobInit ==
    /\ job = [st |-> "ACTIVE", rev |-> 1, content |-> 1]
    /\ snap = FALSE /\ plans = {}
    /\ req = [i \in Ids |-> NoReq] /\ run = [i \in Ids \cup {Window} |-> NoRun]
    /\ occ = [o \in Occs |-> "none"]
    /\ rcpt = [k \in Keys |-> "none"]
    /\ post = 0 /\ ana = NoAna /\ raced = {} /\ crashes = 0

ActiveRuns == {i \in DOMAIN run : run[i].st = "ACTIVE"}
Active == job.st = "ACTIVE"

-----------------------------------------------------------------------------
(* Requests.                                                               *)

(* The row a request would be, and whether one with this id contradicts it. *)
NewReq(auto) == [st |-> "QUEUED", rev |-> job.rev, auto |-> auto, run |-> FALSE]
Conflicts(i, auto) == req[i].st # "none" /\ <<req[i].rev, req[i].auto>> # <<job.rev, auto>>
Enqueued(i, auto) == IF req[i].st = "none" THEN [req EXCEPT ![i] = NewReq(auto)] ELSE req

(* Archiving or deleting a job ends its checks, the claimed one too. *)
BlockedRequests == [i \in Ids |-> IF req[i].st \in {"QUEUED", "RUNNING"}
                                  THEN [req[i] EXCEPT !.st = "BLOCKED"] ELSE req[i]]

-----------------------------------------------------------------------------
(* Commands.                                                               *)

(* The host serves commands between the startup round and a crash, and one *)
(* at a time: an edit's follow-up runs before the next command.            *)
Serving == mt.pc # "down" /\ mt.owner = "maintenance" /\ post = 0

(* A command carries the versions its client has read (revision, lifecycle *)
(* row version, schedule row version).  A version that is passed never     *)
(* comes back, so all stale commands are alike: "fresh" says that every    *)
(* version is the current one.                                             *)

\* Mutant: archiving does not look at runs.
ArchiveAllowedAnyRun(fresh) == Active /\ fresh
ArchiveAllowed(fresh) == Active /\ fresh /\ ActiveRuns = {}
DeleteAllowed(fresh) == job.st # "DELETED" /\ fresh /\ ActiveRuns = {}
ReactivateAllowed(fresh) == job.st = "ARCHIVED" /\ fresh
\* Mutant: an edit does not look at runs.
EditAllowedAnyRun(kind, fresh) == Active /\ fresh
EditAllowed(kind, fresh) == Active /\ fresh /\ (kind = "rename" \/ ActiveRuns = {})
CheckAllowed == Active /\ ActiveRuns = {}
ScheduleAllowed(kind, fresh) ==
    /\ Active /\ fresh
    /\ (kind = "off" /\ sched.on) \/ (kind = "on" /\ job.rev \in plans)

Allowed(kind, fresh) ==
    CASE kind = "archive" -> ArchiveAllowed(fresh)
      [] kind = "delete" -> DeleteAllowed(fresh)
      [] kind = "reactivate" -> ReactivateAllowed(fresh)
      [] kind \in {"edit", "rename"} -> EditAllowed(kind, fresh)
      [] kind = "check" -> CheckAllowed
      [] OTHER -> ScheduleAllowed(kind, fresh)

(* The bound on generations of the schedule. *)
SchedBound(kind) == sched.gen < MaxGen \/ kind \in {"reactivate", "rename", "check"}

ArchiveJob(kind) ==
    /\ kind = "archive"
    /\ job' = [job EXCEPT !.st = "ARCHIVED"]
    /\ sched' = Disabled(sched) /\ req' = BlockedRequests /\ UNCHANGED post

DeleteJob(kind) ==
    /\ kind = "delete"
    /\ job' = [job EXCEPT !.st = "DELETED"]
    /\ sched' = Disabled(sched) /\ req' = BlockedRequests /\ UNCHANGED post

ReactivateJob(k, kind) ==
    /\ kind = "reactivate"
    /\ job' = [job EXCEPT !.st = "ACTIVE"]
    /\ req' = Enqueued(k, FALSE) /\ UNCHANGED <<sched, post>>

(* A changed name keeps the schedule and needs no check. *)
UpdateJob(k, kind) ==
    /\ kind \in {"edit", "rename"}
    /\ job' = [job EXCEPT !.rev = @ + 1, !.content = IF kind = "edit" THEN job.rev + 1 ELSE @]
    /\ sched' = IF kind = "edit" THEN Disabled(sched) ELSE sched
    /\ post' = IF kind = "edit" THEN k ELSE 0
    /\ UNCHANGED req

CheckBackup(k, kind) ==
    /\ kind = "check"
    /\ \E startWhenSafe \in BOOLEAN : req' = Enqueued(k, startWhenSafe)
    /\ UNCHANGED <<job, sched, post>>

ConfigureSchedule(kind) ==
    /\ kind \in {"on", "off"}
    /\ sched' = Configured(kind = "on", IF kind = "on" THEN job.content ELSE sched.plan)
    /\ UNCHANGED <<job, req, post>>

Apply(k, kind) ==
    \/ ArchiveJob(kind) \/ DeleteJob(kind) \/ ReactivateJob(k, kind)
    \/ UpdateJob(k, kind) \/ CheckBackup(k, kind) \/ ConfigureSchedule(kind)

(* The schedule command also writes the row of the wanted task. *)
Wanted(kind) == IF kind \in {"on", "off"} THEN Upserted(res, sched'.gen) ELSE res

NextKey(k) == rcpt[k] = "none" /\ \A j \in 1..(k - 1) : rcpt[j] # "none"

Accept(k, kind, fresh) ==
    /\ Serving /\ NextKey(k) /\ Allowed(kind, fresh) /\ SchedBound(kind)
    /\ Apply(k, kind) /\ res' = Wanted(kind)
    /\ snap' = (snap /\ job'.rev = job.rev)
    /\ rcpt' = [rcpt EXCEPT ![k] = IF kind = "edit" THEN "EDITED" ELSE "SUCCEEDED"]
    /\ UNCHANGED <<plans, run, occ, ana, boundVars, task, touched, mt, taskFaults>>

Refuse(k, kind, fresh) ==
    /\ Serving /\ NextKey(k) /\ ~Allowed(kind, fresh)
    /\ rcpt' = [rcpt EXCEPT ![k] = "REJECTED"]
    /\ UNCHANGED <<job, snap, plans, req, run, occ, post, ana, boundVars, schedVars>>

(* A command sent again is answered from its receipt; only an edit repeats *)
(* a step, the one that follows its transaction.                           *)
Resend(k) ==
    /\ Serving /\ rcpt[k] = "EDITED" /\ post' = k
    /\ UNCHANGED <<job, snap, plans, req, run, occ, rcpt, ana, boundVars, schedVars>>

(* The check after an edit is queued in a transaction of its own, for the  *)
(* revision that is active then; a conflict with an earlier one, targets   *)
(* that could not be registered and a client that wants no check leave it  *)
(* out.  Nothing here looks at the lifecycle.                              *)
EnqueueAfterEdit ==
    /\ mt.pc # "down" /\ post # 0 /\ post' = 0
    /\ req' \in {req, IF Conflicts(post, FALSE) THEN req ELSE Enqueued(post, FALSE)}
    /\ UNCHANGED <<job, snap, plans, run, occ, rcpt, ana, boundVars, schedVars>>

-----------------------------------------------------------------------------
(* Triggers.                                                               *)

(* The schedule the trigger names by its hash is the current one, enabled, *)
(* and its job is active.                                                  *)
TriggerReady == task.gen = sched.gen /\ sched.gen > 0 /\ sched.on /\ Active

\* Mutant: a redelivered occurrence is received anew.
DeliverAnew(o) ==
    /\ Serving /\ task.kind = "ours" /\ (task.on \/ occ[o] # "none")
    /\ TriggerReady /\ ~Conflicts(o, TRUE)
    /\ occ' = [occ EXCEPT ![o] = "RECEIVED"] /\ req' = Enqueued(o, TRUE)
    /\ UNCHANGED <<job, snap, plans, run, rcpt, post, ana, boundVars, schedVars>>

(* The task fires and its client delivers the occurrence, perhaps again.   *)
(* An occurrence that is over queues nothing; a request of an earlier      *)
(* revision is a conflict that undoes the whole transaction.               *)
DeliverTrigger(o) ==
    /\ Serving /\ task.kind = "ours" /\ (task.on \/ occ[o] # "none")
    /\ TriggerReady
    /\ IF occ[o] = "none" THEN occ' = [occ EXCEPT ![o] = "RECEIVED"] ELSE UNCHANGED occ
    /\ occ[o] \notin TerminalOccurrence /\ ~Conflicts(o, TRUE)
    /\ req' = Enqueued(o, TRUE)
    /\ UNCHANGED <<job, snap, plans, run, rcpt, post, ana, boundVars, schedVars>>

-----------------------------------------------------------------------------
(* The analysis in the maintenance thread.                                 *)

AnaUp == mt.pc # "down" /\ mt.owner = "maintenance"
Done(q, st, started) == [pc |-> "complete", q |-> q, rev |-> 0, out |-> st, run |-> started]
AnaFrame == UNCHANGED <<job, occ, rcpt, post, crashes, schedVars>>

Claimable == {i \in Ids : req[i].st = "QUEUED" /\ Active}
ClaimAnalysis(i) ==
    /\ AnaUp /\ ana.pc = "idle" /\ i \in Claimable
    /\ req' = [req EXCEPT ![i].st = "RUNNING"]
    /\ ana' = [NoAna EXCEPT !.pc = "runs", !.q = i]
    /\ AnaFrame /\ UNCHANGED <<snap, plans, run, raced>>

(* A run that this very request started before a crash is adopted.  With   *)
(* no run active the candidate is read: the job's active revision.         *)
LookAtRuns ==
    /\ ana.pc = "runs"
    /\ ana' = IF ActiveRuns = {} THEN [ana EXCEPT !.pc = "scan", !.rev = job.rev]
              ELSE IF ana.q \in ActiveRuns /\ req[ana.q].auto THEN Done(ana.q, "SUCCEEDED", TRUE)
              ELSE Done(ana.q, "BLOCKED", FALSE)
    /\ AnaFrame /\ UNCHANGED <<snap, plans, req, run, raced>>

(* The endpoints are scanned inside the transaction that seals the        *)
(* snapshots of the candidate's revision: they are sealed all or none.    *)
ScanAndSeal ==
    /\ ana.pc = "scan"
    /\ \E result \in {"SEALED", "BLOCKED", "FAILED"} :
         /\ snap' = IF ana.rev = job.rev /\ result # "FAILED" THEN result = "SEALED" ELSE snap
         /\ ana' = IF result # "SEALED" THEN Done(ana.q, result, FALSE)
                   ELSE IF ana.rev # req[ana.q].rev THEN Done(ana.q, "BLOCKED", FALSE)
                   ELSE [ana EXCEPT !.pc = "plan"]
    /\ AnaFrame /\ UNCHANGED <<plans, req, run, raced>>

(* The contents are hashed; the planner then takes the revision that is    *)
(* active now, which needs a sealed snapshot of its own.                   *)
HashBlocks == ana' = Done(ana.q, "BLOCKED", FALSE) /\ UNCHANGED plans
PlanCandidate ==
    \/ snap /\ ana' = [ana EXCEPT !.pc = "seal", !.rev = job.rev] /\ UNCHANGED plans
    \/ ~snap /\ ana' = Done(ana.q, "BLOCKED", FALSE) /\ plans' = plans \ {job.rev}
HashAndPlan ==
    /\ ana.pc = "plan" /\ (HashBlocks \/ PlanCandidate)
    /\ AnaFrame /\ UNCHANGED <<snap, req, run, raced>>

(* Sealing the plan looks again whether the revision is still the active   *)
(* one; a plan whose every change is deferred or blocked is not runnable.  *)
SealPlan ==
    /\ ana.pc = "seal"
    /\ \E result \in {"READY", "NOT_RUNNABLE", "NO_CHANGES", "BLOCKED", "FAILED"} :
         /\ (result \in {"READY", "NOT_RUNNABLE"}) => (job.rev = ana.rev)
         /\ plans' = IF result = "READY" THEN plans \cup {ana.rev} ELSE plans \ {ana.rev}
         /\ ana' = IF result = "READY" /\ req[ana.q].auto THEN [ana EXCEPT !.pc = "start"]
                   ELSE IF result \in {"READY", "NOT_RUNNABLE"} THEN Done(ana.q, "SUCCEEDED", FALSE)
                   ELSE Done(ana.q, result, FALSE)
    /\ AnaFrame /\ UNCHANGED <<snap, req, run, raced>>

(* A plan that is safe starts a run in one transaction; the run is bound   *)
(* to the request, so a request that is worked on again finds it.  Neither *)
(* the lifecycle nor the revision is looked at here.  After the            *)
(* transaction the start is carried into the recovery journal, which may   *)
(* fail: the run exists all the same.                                      *)
SafeStart ==
    /\ ana.pc = "start"
    /\ \/ /\ ana' = Done(ana.q, "SUCCEEDED", FALSE) /\ UNCHANGED <<run, raced>>
       \/ /\ run[ana.q].st = "none" /\ ActiveRuns = {}
          /\ run' = [run EXCEPT ![ana.q] = [st |-> "ACTIVE", rev |-> ana.rev]]
          /\ raced' = IF req[ana.q].st = "RUNNING" /\ job.rev = ana.rev THEN raced ELSE raced \cup {ana.q}
          /\ ana' \in {Done(ana.q, "SUCCEEDED", TRUE), Done(ana.q, "FAILED", FALSE)}
       \/ /\ run[ana.q].st # "none"
          /\ ana' = Done(ana.q, "SUCCEEDED", TRUE) /\ UNCHANGED <<run, raced>>
       \/ /\ run[ana.q].st = "none" /\ ActiveRuns # {}
          /\ ana' = Done(ana.q, "BLOCKED", FALSE) /\ UNCHANGED <<run, raced>>
    /\ AnaFrame /\ UNCHANGED <<snap, plans, req>>

(* Only a RUNNING request is completed: one that was blocked meanwhile     *)
(* makes the round fail, and nothing tells the occurrence.                 *)
CompleteAnalysis ==
    /\ ana.pc = "complete"
    /\ IF req[ana.q].st = "RUNNING"
       THEN /\ req' = [req EXCEPT ![ana.q].st = ana.out, ![ana.q].run = ana.run]
            /\ ana' = IF ana.q \in Occs THEN [ana EXCEPT !.pc = "occurrence"] ELSE NoAna
       ELSE UNCHANGED req /\ ana' = NoAna
    /\ AnaFrame /\ UNCHANGED <<snap, plans, run, raced>>

OccurrenceOutcome == IF ana.run THEN "RUN_ENQUEUED"
                     ELSE IF ana.out = "NO_CHANGES" THEN "SUCCEEDED"
                     ELSE IF ana.out = "FAILED" THEN "FAILED"
                     ELSE "REJECTED"

(* An occurrence that is over already refuses the binding of a run. *)
TellOccurrence ==
    /\ ana.pc = "occurrence"
    /\ occ' = IF ana.run /\ occ[ana.q] \in TerminalOccurrence THEN occ
              ELSE [occ EXCEPT ![ana.q] = OccurrenceOutcome]
    /\ ana' = NoAna
    /\ UNCHANGED <<job, snap, plans, req, run, rcpt, post, boundVars, schedVars>>

(* The executor cycle carries the outcome of a run to its occurrence. *)
TellRunEnded(o) ==
    /\ AnaUp /\ ana.pc = "idle"
    /\ occ[o] = "RUN_ENQUEUED" /\ run[o].st = "ENDED"
    /\ \E st \in {"SUCCEEDED", "FAILED"} : occ' = [occ EXCEPT ![o] = st]
    /\ UNCHANGED <<job, snap, plans, req, run, rcpt, post, ana, boundVars, schedVars>>

-----------------------------------------------------------------------------
(* The rest of the world.                                                  *)

(* The user starts a sealed plan from the window (module RunStart); the    *)
(* window may have read it before the job was edited.                      *)
StartFromWindow ==
    /\ Serving /\ Active /\ ActiveRuns = {} /\ run[Window].st = "none"
    /\ \E r \in plans :
         /\ run' = [run EXCEPT ![Window] = [st |-> "ACTIVE", rev |-> r]]
         /\ raced' = IF r = job.rev THEN raced ELSE raced \cup {Window}
    /\ UNCHANGED <<job, snap, plans, req, occ, rcpt, post, ana, crashes, schedVars>>

(* The executor ends a run; it shares the thread with the analysis. *)
RunEnds(i) ==
    /\ AnaUp /\ ana.pc = "idle" /\ run[i].st = "ACTIVE"
    /\ run' = [run EXCEPT ![i] = [st |-> "ENDED", rev |-> 0]] /\ raced' = raced \ {i}
    /\ UNCHANGED <<job, snap, plans, req, occ, rcpt, post, ana, crashes, schedVars>>

(* Registering a target refreshes snapshots and plans that are missing. *)
RefreshMaterials ==
    /\ Serving /\ job.rev \notin plans
    /\ snap' = TRUE
    /\ plans' = plans \cup {job.rev}
    /\ UNCHANGED <<job, req, run, occ, rcpt, post, ana, boundVars, schedVars>>

(* A start gives interrupted checks back to the queue. *)
Requeued == [i \in Ids |-> IF req[i].st = "RUNNING" THEN [req[i] EXCEPT !.st = "QUEUED"] ELSE req[i]]

(* What a start does to the job: an edit's follow-up is lost with the host. *)
JobRestart ==
    /\ post' = 0 /\ ana' = NoAna /\ req' = Requeued
    /\ UNCHANGED <<job, snap, plans, run, occ, rcpt, raced>>
(* What it does to the schedule: the startup round begins. *)
ScheduleRestart ==
    /\ mt' = Idle("startup") /\ RequeueClaims
    /\ UNCHANGED <<sched, task, touched, taskFaults>>
HostStops == crashes < MaxCrashes /\ crashes' = crashes + 1 /\ JobRestart

AnaStep == \/ \E i \in Ids : ClaimAnalysis(i)
           \/ LookAtRuns \/ ScanAndSeal \/ HashAndPlan
           \/ SealPlan \/ SafeStart \/ CompleteAnalysis \/ TellOccurrence

-----------------------------------------------------------------------------
(* The whole of a job with its task: every interleaving of the parts.      *)

JobCommand(k) ==
    \/ \E kind \in Kinds, fresh \in BOOLEAN : Accept(k, kind, fresh) \/ Refuse(k, kind, fresh)
    \/ Resend(k)

JobsInit == JobInit /\ SchedInit
JobsNext ==
    \/ (RoundStep \/ ScheduleFault) /\ UNCHANGED jobVars
    \/ (\E k \in Keys : JobCommand(k)) \/ EnqueueAfterEdit
    \/ AnaStep \/ StartFromWindow \/ RefreshMaterials
    \/ (\E o \in Occs : DeliverTrigger(o) \/ TellRunEnded(o))
    \/ (\E i \in DOMAIN run : RunEnds(i))
    \/ HostStops /\ ScheduleRestart
    \/ mt.pc = "down" /\ JobRestart /\ ScheduleRestart /\ UNCHANGED crashes
JobsSpec == JobsInit /\ [][JobsNext]_<<jobVars, schedVars>>

-----------------------------------------------------------------------------
(* Properties.                                                             *)

(* Every variable keeps its type: rows of jobs, requests, runs, occurrences *)
(* and receipts, and the analysis with its position.                        *)
JobTypeOK ==
    /\ job \in Job /\ snap \in BOOLEAN /\ plans \subseteq Revs
    /\ req \in [Ids -> Request] /\ run \in [Ids \cup {Window} -> Run]
    /\ occ \in [Occs -> {"none", "RECEIVED", "RUN_ENQUEUED"} \cup TerminalOccurrence]
    /\ rcpt \in [Keys -> {"none", "SUCCEEDED", "EDITED", "REJECTED"}]
    /\ post \in Keys \cup {0} /\ ana \in AnaState
    /\ raced \subseteq DOMAIN run /\ crashes \in 0..MaxCrashes

(* A job that is archived or deleted is quiet: its schedule is off, no      *)
(* check of it is claimed, and no run of it is active except one whose      *)
(* check was past its last look at the job when the job was archived        *)
(* (archive_standard_backup_job, delete_standard_backup_job against the     *)
(* maintenance thread).                                                     *)
ArchivedIsQuiet ==
    ~Active => /\ ~sched.on /\ ActiveRuns \subseteq raced
               /\ \A i \in Ids : req[i].st # "RUNNING"

(* A backup works on the contents the job has: an edit that needs a check   *)
(* is refused while a run is active, so only a start that overtook the edit *)
(* copies to what the job was before.                                       *)
RunsCurrentContent ==
    \A i \in ActiveRuns \ raced : run[i].rev >= job.content

(* "A full check must complete before the edited backup can run."           *)
(* (_next_action of job_editing): no run works on a plan of an earlier      *)
(* content.                                                                 *)
EditedNeedsCheck == \A i \in ActiveRuns : run[i].rev >= job.content

(* The daily schedule is enabled only for a plan of what the job now backs  *)
(* up: edits disable it (disable_enabled_schedules) and a stale command     *)
(* cannot enable it again, whatever is edited and renamed in between.       *)
ScheduleMatchesContent == sched.on => sched.plan = job.content

(* A backup that runs is not lost: the request that started it says so, or  *)
(* is still open and will find it after a restart, or the step that follows *)
(* the start failed, or the request was blocked before the start            *)
(* (execute_next_backup_analysis, _complete_after_safe_start).              *)
StartIsRecorded ==
    \A i \in ActiveRuns \ (raced \cup {Window}) :
        req[i].run \/ req[i].st \in {"QUEUED", "RUNNING", "FAILED"}

(* The end of an occurrence is final: no redelivery, restart or late        *)
(* reconciliation changes it (mark_run_enqueued, mark_terminal).            *)
OccurrenceEndsOnce ==
    [][\A o \in Occs : occ[o] \in TerminalOccurrence => occ'[o] = occ[o]]_<<jobVars, schedVars>>

(* Every check of an active job ends, even when the host stops while it is  *)
(* worked on, or the job is archived: the queue is worked off.              *)
OpenChecks == {i \in Ids : req[i].st \in {"QUEUED", "RUNNING"}}
ChecksSettle == []<>(OpenChecks = {} \/ ~Active)
=============================================================================
