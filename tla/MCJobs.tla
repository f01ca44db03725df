------------------------------- MODULE MCJobs -------------------------------
(* A job.  Part "tasks" explores the reconciler of its Windows task against  *)
(* commands that change the schedule; part "jobs" explores commands,         *)
(* triggers and checks while the task is registered; part "contents" is what *)
(* a check does inside: scan, hash and plan; part "copies" is the duplicate  *)
(* scan of one analysis.  What a behaviour is not about is at rest.          *)
EXTENDS JobWork

VARIABLE part
mcVars == <<schedVars, jobVars, anVars, duVars, part>>
OfJob == part \in {"tasks", "jobs"}

AnRest ==
    /\ tree = LiveTree /\ mode = "INSENSITIVE" /\ policy = "NEW_AND_CHANGED_WITH_VERSIONS"
    /\ rev = 1 /\ sc = NoScan /\ dirty = FALSE /\ snaps = <<>> /\ proofs = <<>> /\ rows = <<>>
    /\ mater = [r \in 1..MaxAnRevs |-> [an |-> 0, state |-> "NONE"]]
    /\ pass = [a \in Passes |-> Fresh("done")]
    /\ events = 0 /\ seen = [s \in Sides |-> {LiveTree[s]}]
DuRest == DuInit /\ orig = [e \in Entries |-> 1] /\ stable

(* The task is registered as the schedule says. *)
TaskInSync ==
    /\ sched = [gen |-> 1, on |-> TRUE, plan |-> 1]
    /\ res = [st |-> "IN_SYNC", gen |-> 1, owner |-> "none"]
    /\ task = [kind |-> "ours", gen |-> 1, on |-> TRUE]
    /\ touched = FALSE /\ mt = Idle("maintenance") /\ taskFaults = 0

Init ==
    /\ part \in {"tasks", "jobs", "contents", "copies"}
    /\ JobInit
    /\ IF part = "tasks" THEN SchedInit ELSE TaskInSync
    /\ IF part = "contents" THEN AnInit ELSE AnRest
    /\ IF part = "copies" THEN DuInit ELSE DuRest

Reconcile == part = "tasks" /\ RoundStep /\ UNCHANGED jobVars
TaskPart == Reconcile \/ (part = "tasks" /\ ScheduleFault /\ UNCHANGED jobVars)

KindsOf(p) == IF p = "tasks" THEN {"on", "off", "archive", "edit", "rename"}
              ELSE Kinds \ {"on", "off"}
CommandPart ==
    \E k \in Keys :
       \/ /\ part = "jobs" => (k + crashes <= MaxCommands) \* a crash uses up a command
          /\ \E kind \in KindsOf(part), fresh \in BOOLEAN :
                Accept(k, kind, fresh) \/ Refuse(k, kind, fresh)
       \/ Resend(k)

(* No check is worked on in part "tasks", so none is queued there. *)
FollowUp == OfJob /\ EnqueueAfterEdit /\ (part = "tasks" => req' = req)

JobPart ==
    /\ part = "jobs"
    /\ AnaStep \/ StartFromWindow
       \/ (\E o \in Occs : DeliverTrigger(o) \/ TellRunEnded(o))
       \/ (\E i \in DOMAIN run : RunEnds(i))

(* In part "jobs" the schedule only ever changes to disabled, and then no   *)
(* trigger is ready whatever the task is: the startup round is left out,    *)
(* and so is a crash that interrupts nothing.                               *)
Crash ==
    /\ HostStops
    /\ \/ part = "tasks" /\ ScheduleRestart
       \/ /\ part = "jobs" /\ (ana.pc # "idle" \/ post # 0) /\ rcpt[MaxCommands] = "none"
          /\ UNCHANGED schedVars
HostRestarts == OfJob /\ mt.pc = "down" /\ JobRestart /\ ScheduleRestart /\ UNCHANGED crashes

JobNext ==
    /\ OfJob
    /\ TaskPart \/ CommandPart \/ FollowUp \/ JobPart \/ (part = "tasks" /\ RefreshMaterials)
       \/ Crash \/ HostRestarts

(* A step of the part the behaviour is about. *)
OfPart(jobStep, contents, copies) ==
    \/ jobStep /\ UNCHANGED <<anVars, duVars, part>>
    \/ part = "contents" /\ contents /\ UNCHANGED <<schedVars, jobVars, duVars, part>>
    \/ part = "copies" /\ copies /\ UNCHANGED <<schedVars, jobVars, anVars, part>>

Next == OfPart(JobNext, AnNext, DuNext)

(* Windows and commands only: the behaviours of part "jobs". *)
EditedSpec == (Init /\ part = "jobs") /\ [][Next]_mcVars

(* The maintenance threads and the serving thread go on, and a host that     *)
(* stopped is started again.                                                 *)
LiveSpec ==
    /\ Init /\ [][Next]_mcVars
    /\ WF_mcVars(OfPart(Reconcile, ScanStep, Worker))
    /\ WF_mcVars(OfPart(part = "jobs" /\ AnaStep, PassStep("check"), BackupEnds))
    /\ WF_mcVars(OfPart(FollowUp, PassStep("start"), StartScan))
    /\ WF_mcVars(OfPart(HostRestarts, FALSE, FALSE))

(* What was begun ends, and what ended stays: the queue of checks is worked    *)
(* off, the task is brought in line, a check and a duplicate scan end, an      *)
(* occurrence ends once, and a plan is sealed for the revision and snapshots   *)
(* that are current, whatever edits, faults and crashes fall between.          *)
JobsSettle ==
    /\ OccurrenceEndsOnce /\ SealedForCurrent
    /\ ChecksSettle /\ ResourceSettles /\ CheckEnds /\ ScanCompletes
=============================================================================
