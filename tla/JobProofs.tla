------------------------------ MODULE JobProofs ------------------------------
(***************************************************************************)
(* Proofs about Schedules and Jobs: any number of commands, occurrences,   *)
(* generations, faults and crashes, and every interleaving of the          *)
(* reconciler, the serving thread and the analysis.                        *)
(***************************************************************************)
EXTENDS Jobs, TLAPS

WholeVars == <<jobVars, schedVars>>
Claimed == {"load", "observe", "apply", "mark"}

\* A round works on the generation it read.  The claim of a row lasts until a
\* command asks for a newer generation; a row that is to be deleted was never
\* claimed.
ClaimShape ==
    /\ mt.seen.gen <= sched.gen
    /\ mt.pc = "stage" => mt.seen.gen > 0
    /\ res.st = "none" <=> res.gen = 0
    /\ mt.pc \in Claimed =>
         \/ ClaimHeld /\ res.gen = mt.seen.gen
         \/ res.st = "PENDING" /\ res.gen > mt.seen.gen
    /\ mt.pc = "mark" => touched \/ (task.kind = "ours" /\ task.gen = mt.seen.gen)
    /\ mt.pc = "delete" => res.st \in {"none", "PENDING"}

\* Keys are used in order, and a key makes at most one revision.
KeysInOrder ==
    /\ job.content <= job.rev
    /\ \A k \in Keys : rcpt[k] = "none" =>
         job.rev <= k /\ \A l \in Keys : k <= l => rcpt[l] = "none"

\* The analysis and its request: the run a request has started is found again,
\* and an occurrence is told once.
AnalysisShape ==
    /\ ana.pc # "idle" => ana.q \in Ids
    /\ ana.pc \in {"scan", "plan", "seal", "start"} => run[ana.q].st # "ACTIVE"
    /\ ana.pc \in {"seal", "start"} => ana.rev \in Revs
    /\ ana.pc = "start" => req[ana.q].auto
    /\ ana.pc \in {"runs", "scan", "plan", "seal", "start"} => req[ana.q].st # "none"
    /\ ana.pc = "complete" =>
         /\ ana.out \in TerminalRequest
         /\ run[ana.q].st = "ACTIVE" => ana.run \/ ana.out = "FAILED"
    /\ ana.pc = "occurrence" =>
         ana.q \in Occs /\ req[ana.q].st \in TerminalRequest /\ occ[ana.q] \in {"none", "RECEIVED"}

\* Only an automatic request has a run, and only one that is over has told
\* its occurrence.
RequestShape ==
    /\ \A i \in Ids : run[i].st # "none" => req[i].st # "none" /\ req[i].auto
    /\ \A o \in Occs : occ[o] \notin {"none", "RECEIVED"} => req[o].st \in TerminalRequest

\* The inductive invariant.
IInv ==
    /\ SchedTypeOK /\ JobTypeOK
    /\ ClaimShape /\ GenerationsOrdered /\ InSyncIsRegistered
    /\ KeysInOrder /\ AnalysisShape /\ RequestShape
    /\ ArchivedIsQuiet /\ RunsCurrentContent /\ ScheduleMatchesContent /\ StartIsRecorded

-----------------------------------------------------------------------------
(* The steps one by one.                                                   *)

Restart == JobRestart /\ ScheduleRestart /\ crashes' \in 0..MaxCrashes
Moved ==
    \/ \E k \in Keys, kind \in Kinds, fresh \in BOOLEAN :
          \/ /\ Accept(k, kind, fresh)
             /\ \/ ArchiveJob(kind) \/ DeleteJob(kind) \/ ReactivateJob(k, kind)
                \/ UpdateJob(k, kind) \/ CheckBackup(k, kind) \/ ConfigureSchedule(kind)
          \/ Refuse(k, kind, fresh)
    \/ \E k \in Keys : Resend(k)
    \/ \E i \in Ids : ClaimAnalysis(i)
    \/ EnqueueAfterEdit \/ LookAtRuns \/ ScanAndSeal \/ HashAndPlan \/ SealPlan
    \/ SafeStart \/ CompleteAnalysis \/ TellOccurrence \/ StartFromWindow \/ RefreshMaterials
    \/ \E o \in Occs : DeliverTrigger(o) \/ TellRunEnded(o)
    \/ \E i \in DOMAIN run : RunEnds(i)
    \/ Restart \/ UNCHANGED <<jobVars, sched>>

\* What is assumed of the bounds.
LEMMA Bounds ==
    /\ MaxGen \in Nat \ {0} /\ MaxTaskFaults \in Nat /\ MaxCommands \in Nat /\ MaxCrashes \in Nat
    /\ Keys \subseteq Ids /\ Occs \subseteq Ids /\ Window \notin Ids
    /\ Revs \subseteq Nat \ {0} /\ 1 \in Revs /\ \A k \in Keys : k \in Revs /\ k + 1 \in Revs
  BY ScheduleAssumption, JobAssumption DEF Keys, Occs, Ids, Window, Revs

\* The steps one by one.
LEMMA Moves == JobTypeOK /\ [JobsNext]_WholeVars => Moved
<1> SUFFICES ASSUME JobTypeOK, [JobsNext]_WholeVars PROVE Moved
    OBVIOUS
<1>1. CASE HostStops /\ ScheduleRestart
    <2>1. crashes \in 0..MaxCrashes /\ crashes < MaxCrashes /\ crashes' = crashes + 1
        BY <1>1 DEF HostStops, JobTypeOK
    <2>2. crashes' \in 0..MaxCrashes
        BY <2>1, Bounds
    <2> QED
        BY <1>1, <2>2 DEF HostStops, Moved, Restart
<1>2. CASE mt.pc = "down" /\ JobRestart /\ ScheduleRestart /\ UNCHANGED crashes
    BY <1>2 DEF JobTypeOK, Moved, Restart
<1>3. CASE \E k \in Keys : JobCommand(k)
    <2>1. PICK k \in Keys : JobCommand(k)
        BY <1>3
    <2>2. CASE Resend(k)
        BY <2>2 DEF Moved
    <2>3. ASSUME NEW kind \in Kinds, NEW fresh \in BOOLEAN,
                 Accept(k, kind, fresh) \/ Refuse(k, kind, fresh)
          PROVE  Moved
        <3>1. Accept(k, kind, fresh) => Apply(k, kind)
            BY DEF Accept
        <3> QED
            BY <2>3, <3>1 DEF Apply, Moved
    <2> QED
        BY <2>1, <2>2, <2>3 DEF JobCommand
<1>4. CASE (RoundStep \/ ScheduleFault) /\ UNCHANGED jobVars
    BY <1>4 DEF RoundStep, ScheduleFault, ListSchedules, StageResource, ClaimResource,
       LoadSchedule, ObserveTask, ApplyTask, MarkInSync, FindOrphan, DeleteOrphan,
       ClaimExpires, TaskSchedulerError, TouchTask, Moved
<1> QED
    BY <1>1, <1>2, <1>3, <1>4 DEF JobsNext, AnaStep, WholeVars, schedVars, Moved

\* Rows and the reconciler keep their types under the updates of the module.
LEMMA ScheduleTyped ==
    /\ \A s \in Schedule : s.gen < MaxGen => Disabled(s) \in Schedule
    /\ \A s \in Schedule : \/ Disabled(s) = s
                           \/ (Disabled(s).gen = s.gen + 1 /\ ~Disabled(s).on)
    /\ \A g \in 0..MaxGen : /\ [NoSchedule EXCEPT !.gen = g] \in Schedule
                            /\ [NoSchedule EXCEPT !.gen = g].gen = g
    /\ \A g \in 0..MaxGen, on \in BOOLEAN, plan \in Nat :
          [gen |-> g, on |-> on, plan |-> plan] \in Schedule
<1>1. ASSUME NEW s \in Schedule, s.gen < MaxGen PROVE Disabled(s) \in Schedule
    <2>1. s.gen + 1 \in 0..MaxGen
        BY <1>1, Bounds DEF Schedule
    <2> QED
        BY <2>1, Zenon DEF Schedule, Disabled
<1>2. ASSUME NEW g \in 0..MaxGen PROVE [NoSchedule EXCEPT !.gen = g] \in Schedule
    <2>1. 0 \in Nat
        OBVIOUS
    <2> QED
        BY <2>1, Zenon DEF NoSchedule, Schedule
<1>3. ASSUME NEW g \in 0..MaxGen, NEW on \in BOOLEAN, NEW plan \in Nat
      PROVE  [gen |-> g, on |-> on, plan |-> plan] \in Schedule
    BY DEF Schedule
<1>4. \A s \in Schedule : \/ Disabled(s) = s
                         \/ (Disabled(s).gen = s.gen + 1 /\ ~Disabled(s).on)
    BY DEF Schedule, Disabled
<1>5. \A g \in 0..MaxGen : [NoSchedule EXCEPT !.gen = g].gen = g
    BY DEF NoSchedule
<1> QED
    BY <1>1, <1>2, <1>3, <1>4, <1>5

\* A resource that is claimed, released or rewritten is a resource.
LEMMA ResourceTyped ==
    /\ \A r \in Resource, st \in ResourceStates : Released(r, st) \in Resource
    /\ \A r \in Resource, g \in 0..MaxGen : Upserted(r, g) \in Resource
    /\ \A r \in Resource, st \in ResourceStates, o \in Owners :
          [r EXCEPT !.st = st, !.owner = o] \in Resource
<1>1. \A r \in Resource, st \in ResourceStates : Released(r, st) \in Resource
    BY Zenon DEF Resource, Released
<1>2. \A r \in Resource, g \in 0..MaxGen : Upserted(r, g) \in Resource
    BY DEF Resource, Upserted, ResourceStates
<1>3. \A r \in Resource, st \in ResourceStates, o \in Owners :
          [r EXCEPT !.st = st, !.owner = o] \in Resource
    BY Zenon DEF Resource
<1> QED
    BY <1>1, <1>2, <1>3

\* A reconciler that goes on is a reconciler.
LEMMA ReconcilerTyped ==
    /\ \A m \in Reconciler, l \in RoundSteps : [m EXCEPT !.pc = l] \in Reconciler
    /\ \A m \in Reconciler, l \in RoundSteps, s \in Schedule :
          [m EXCEPT !.pc = l, !.seen = s] \in Reconciler
    /\ \A o \in Owners : Idle(o) \in Reconciler
<1>1. \A m \in Reconciler, l \in RoundSteps : [m EXCEPT !.pc = l] \in Reconciler
    BY Zenon DEF Reconciler
<1>2. \A m \in Reconciler, l \in RoundSteps, s \in Schedule :
          [m EXCEPT !.pc = l, !.seen = s] \in Reconciler
    BY Zenon DEF Reconciler
<1>3. NoSchedule \in Schedule
    BY Bounds DEF NoSchedule, Schedule
<1>4. \A o \in Owners : Idle(o) \in Reconciler
    BY <1>3 DEF Idle, Reconciler, RoundSteps
<1> QED
    BY <1>1, <1>2, <1>4

\* The fields of a schedule, of its resource and its task.
LEMMA ScheduleFields ==
    ASSUME SchedTypeOK
    PROVE  /\ sched \in Schedule /\ res \in Resource /\ task \in Task /\ mt \in Reconciler
           /\ sched.gen \in 0..MaxGen /\ sched.on \in BOOLEAN /\ sched.plan \in Nat
           /\ mt.seen \in Schedule /\ mt.owner \in Owners /\ mt.pc \in RoundSteps
           /\ mt.seen.gen \in 0..MaxGen /\ mt.seen.on \in BOOLEAN
           /\ res.gen \in 0..MaxGen /\ res.st \in ResourceStates
           /\ task.gen \in 0..MaxGen /\ task.on \in BOOLEAN
           /\ touched \in BOOLEAN /\ taskFaults \in 0..MaxTaskFaults
<1>1. sched \in Schedule /\ mt.seen \in Schedule
    BY DEF SchedTypeOK, Reconciler
<1> QED
    BY <1>1 DEF SchedTypeOK, Schedule, Resource, Task, Reconciler

\* The steps of a round and the states of a resource.
LEMMA RoundTyped ==
    /\ {"down", "list", "stage", "claim", "load", "observe", "apply", "mark",
        "orphans", "delete"} \subseteq RoundSteps
    /\ {"none", "PENDING", "CLAIMED", "IN_SYNC", "BLOCKED"} \subseteq ResourceStates
    /\ {"startup", "maintenance"} \subseteq Owners /\ NoTask \in Task
    /\ SchedTypeOK /\ (RoundFails \/ RoundEnds) => mt' \in Reconciler
<1>1. /\ {"down", "list", "stage", "claim", "load", "observe", "apply", "mark",
          "orphans", "delete"} \subseteq RoundSteps
      /\ {"none", "PENDING", "CLAIMED", "IN_SYNC", "BLOCKED"} \subseteq ResourceStates
      /\ {"startup", "maintenance"} \subseteq Owners
    BY DEF RoundSteps, ResourceStates, Owners
<1>2. NoTask \in Task
    BY Bounds DEF NoTask, Task
<1>3. Idle("maintenance") \in Reconciler /\ [Idle("startup") EXCEPT !.pc = "down"] \in Reconciler
    BY <1>1, ReconcilerTyped
<1> QED
    BY <1>1, <1>2, <1>3 DEF RoundFails, RoundEnds

\* What a command does to the schedule and to the row of its task.
Commanded ==
    /\ sched' \in Schedule /\ sched'.gen \in {sched.gen, sched.gen + 1}
    /\ res' \in {res, Upserted(res, sched'.gen)} /\ (sched'.gen = sched.gen => res' = res)
    /\ UNCHANGED <<task, touched, mt, taskFaults>>

\* What an accepted command does to the schedule.
LEMMA CommandsSchedule ==
    ASSUME SchedTypeOK, JobTypeOK, NEW k \in Keys, NEW kind \in Kinds, NEW fresh \in BOOLEAN,
           Accept(k, kind, fresh)
    PROVE  Commanded
<1> USE Bounds, ScheduleFields, ScheduleTyped DEF Accept, Commanded, Wanted, SchedBound, Allowed
<1>1. CASE ArchiveJob(kind)
    BY <1>1 DEF ArchiveJob
<1>2. CASE DeleteJob(kind)
    BY <1>2 DEF DeleteJob
<1>3. CASE ReactivateJob(k, kind)
    BY <1>3 DEF ReactivateJob
<1>4. CASE UpdateJob(k, kind)
    BY <1>4 DEF UpdateJob
<1>5. CASE CheckBackup(k, kind)
    BY <1>5 DEF CheckBackup
<1>6. CASE ConfigureSchedule(kind)
    <2>1. job.content \in Nat
        BY DEF JobTypeOK, Job
    <2>2. sched.gen + 1 \in 0..MaxGen
        BY <1>6 DEF ConfigureSchedule
    <2>3. PICK on \in BOOLEAN, plan \in Nat :
              sched' = [gen |-> sched.gen + 1, on |-> on, plan |-> plan]
        BY <1>6, <2>1 DEF ConfigureSchedule, Configured
    <2>4. sched' \in Schedule /\ sched'.gen = sched.gen + 1
        BY <2>2, <2>3
    <2> QED
        BY <1>6, <2>4 DEF ConfigureSchedule
<1> QED
    BY <1>1, <1>2, <1>3, <1>4, <1>5, <1>6 DEF Apply

\* The steps as the schedule and its task see them.
Scheduling ==
    \/ ListSchedules \/ StageResource \/ ClaimResource \/ LoadSchedule
    \/ ObserveTask \/ ApplyTask \/ MarkInSync \/ FindOrphan \/ DeleteOrphan
    \/ ClaimExpires \/ TaskSchedulerError \/ TouchTask
    \/ Commanded \/ ScheduleRestart \/ UNCHANGED schedVars

\* What any step does to the schedule.
LEMMA ScheduleMoves == SchedTypeOK /\ JobTypeOK /\ [JobsNext]_WholeVars => Scheduling
<1> SUFFICES ASSUME SchedTypeOK, JobTypeOK, [JobsNext]_WholeVars PROVE Scheduling
    OBVIOUS
<1>1. ASSUME NEW k \in Keys, NEW kind \in Kinds, NEW fresh \in BOOLEAN, Accept(k, kind, fresh)
      PROVE  Scheduling
    BY <1>1, CommandsSchedule DEF Scheduling
<1>2. ASSUME NEW k \in Keys, NEW kind \in Kinds, NEW fresh \in BOOLEAN,
             Refuse(k, kind, fresh) \/ Resend(k)
      PROVE  Scheduling
    BY <1>2 DEF Refuse, Resend, Scheduling
<1>3. CASE AnaStep
    BY <1>3 DEF AnaStep, ClaimAnalysis, LookAtRuns, ScanAndSeal, HashAndPlan, SealPlan,
       SafeStart, CompleteAnalysis, TellOccurrence, AnaFrame, Scheduling
<1>4. CASE EnqueueAfterEdit \/ StartFromWindow \/ RefreshMaterials
    BY <1>4 DEF EnqueueAfterEdit, StartFromWindow, RefreshMaterials, Scheduling
<1>5. ASSUME NEW o \in Occs, DeliverTrigger(o) \/ TellRunEnded(o) PROVE Scheduling
    BY <1>5 DEF DeliverTrigger, TellRunEnded, Scheduling
<1>6. ASSUME NEW i \in DOMAIN run, RunEnds(i) PROVE Scheduling
    BY <1>6 DEF RunEnds, Scheduling
<1>7. CASE RoundStep \/ ScheduleFault \/ ScheduleRestart
    BY <1>7 DEF RoundStep, ScheduleFault, Scheduling
<1>8. CASE UNCHANGED WholeVars
    BY <1>8 DEF WholeVars, Scheduling
<1>9. ASSUME NEW k \in Keys, JobCommand(k) PROVE Scheduling
    <2>1. CASE Resend(k)
        BY <2>1 DEF Resend, Scheduling
    <2>2. ASSUME NEW kind \in Kinds, NEW fresh \in BOOLEAN,
                 Accept(k, kind, fresh) \/ Refuse(k, kind, fresh)
          PROVE  Scheduling
        BY <1>1, <1>2, <2>2
    <2> QED
        BY <1>9, <2>1, <2>2 DEF JobCommand
<1> QED
    BY <1>3, <1>4, <1>5, <1>6, <1>7, <1>8, <1>9 DEF JobsNext

\* The schedule, the row, the task and the reconciler keep their types.
LEMMA SchedTypeStep ==
    ASSUME SchedTypeOK, JobTypeOK, [JobsNext]_WholeVars
    PROVE  SchedTypeOK'
<1> USE Bounds, ScheduleFields
<1>1. CASE ListSchedules
    <2>1. mt' \in Reconciler
        BY <1>1, RoundTyped, ReconcilerTyped, ScheduleTyped DEF ListSchedules
    <2>2. res' \in Resource /\ task' \in Task
        BY <1>1, RoundTyped, ResourceTyped DEF ListSchedules
    <2> QED
        BY <1>1, <2>1, <2>2 DEF ListSchedules, SchedTypeOK
<1>2. CASE StageResource
    <2>1. mt' \in Reconciler
            <3>1. RoundFails \/ mt' = [mt EXCEPT !.pc = "claim"]
                BY <1>2 DEF StageResource
            <3>2. CASE RoundFails
                BY <3>2, RoundTyped
            <3>3. CASE ~RoundFails
                BY <3>1, <3>3, RoundTyped, ReconcilerTyped
            <3> QED
                BY <3>2, <3>3
    <2>2. res' \in Resource /\ task' \in Task
        BY <1>2, RoundTyped, ResourceTyped DEF StageResource
    <2> QED
        BY <1>2, <2>1, <2>2 DEF StageResource, SchedTypeOK
<1>3. CASE ClaimResource
    <2>1. CASE res.st = "PENDING"
        <3>1. [NoSchedule EXCEPT !.gen = res.gen] \in Schedule
            BY ScheduleTyped
        <3>2. mt' = [mt EXCEPT !.pc = "load", !.seen = [NoSchedule EXCEPT !.gen = res.gen]]
            BY <1>3, <2>1 DEF ClaimResource
        <3>3. mt' \in Reconciler
            BY <3>1, <3>2, RoundTyped, ReconcilerTyped
        <3>4. res' = [res EXCEPT !.st = "CLAIMED", !.owner = mt.owner]
            BY <1>3, <2>1 DEF ClaimResource
        <3>5. res' \in Resource
            BY <3>4, RoundTyped, ResourceTyped
        <3> QED
            BY <1>3, <3>3, <3>5 DEF ClaimResource, SchedTypeOK
    <2>2. CASE res.st # "PENDING"
        BY <1>3, <2>2, RoundTyped, ReconcilerTyped DEF ClaimResource, SchedTypeOK
    <2> QED
        BY <2>1, <2>2
<1>4. CASE LoadSchedule
    <2>1. mt' \in Reconciler
        <3>1. CASE sched.gen # mt.seen.gen
                <4>1. RoundFails \/ mt' = [mt EXCEPT !.pc = "claim"]
                    BY <1>4, <3>1 DEF LoadSchedule, BlockClaim
                <4>2. CASE RoundFails
                    BY <4>2, RoundTyped
                <4>3. CASE ~RoundFails
                    BY <4>1, <4>3, RoundTyped, ReconcilerTyped
                <4> QED
                    BY <4>2, <4>3
        <3>2. CASE ~(sched.gen # mt.seen.gen)
                <4>1. mt' = [mt EXCEPT !.pc = "observe", !.seen = sched]
                    BY <1>4, <3>2 DEF LoadSchedule
                <4> QED
                    BY <4>1, RoundTyped, ReconcilerTyped, ScheduleTyped
        <3> QED
            BY <3>1, <3>2
    <2>2. res' \in Resource /\ task' \in Task
        BY <1>4, RoundTyped, ResourceTyped DEF LoadSchedule, BlockClaim
    <2> QED
        BY <1>4, <2>1, <2>2 DEF LoadSchedule, SchedTypeOK
<1>5. CASE ObserveTask
    <2>1. mt' \in Reconciler
        <3>1. CASE task.kind = "foreign"
                <4>1. RoundFails \/ mt' = [mt EXCEPT !.pc = "claim"]
                    BY <1>5, <3>1 DEF ObserveTask, BlockClaim
                <4>2. CASE RoundFails
                    BY <4>2, RoundTyped
                <4>3. CASE ~RoundFails
                    BY <4>1, <4>3, RoundTyped, ReconcilerTyped
                <4> QED
                    BY <4>2, <4>3
        <3>2. CASE ~(task.kind = "foreign")
            <4>1. \/ mt' = [mt EXCEPT !.pc = "mark"] \/ mt' = [mt EXCEPT !.pc = "apply"]
                BY <1>5, <3>2 DEF ObserveTask
            <4> QED
                BY <4>1, RoundTyped, ReconcilerTyped
        <3> QED
            BY <3>1, <3>2
    <2>2. res' \in Resource /\ task' \in Task
        BY <1>5, RoundTyped, ResourceTyped DEF ObserveTask, BlockClaim, TaskMatches
    <2> QED
        BY <1>5, <2>1, <2>2 DEF ObserveTask, SchedTypeOK
<1>6. CASE ApplyTask
    <2>1. mt' \in Reconciler
        BY <1>6, RoundTyped, ReconcilerTyped, ScheduleTyped DEF ApplyTask
    <2>2. res' \in Resource /\ task' \in Task
        BY <1>6 DEF ApplyTask, Task
    <2> QED
        BY <1>6, <2>1, <2>2 DEF ApplyTask, SchedTypeOK
<1>7. CASE MarkInSync
    <2>1. mt' \in Reconciler
            <3>1. RoundFails \/ mt' = [mt EXCEPT !.pc = "claim"]
                BY <1>7 DEF MarkInSync
            <3>2. CASE RoundFails
                BY <3>2, RoundTyped
            <3>3. CASE ~RoundFails
                BY <3>1, <3>3, RoundTyped, ReconcilerTyped
            <3> QED
                BY <3>2, <3>3
    <2>2. res' \in Resource /\ task' \in Task
        BY <1>7, RoundTyped, ResourceTyped DEF MarkInSync, CompletionMatches
    <2> QED
        BY <1>7, <2>1, <2>2 DEF MarkInSync, SchedTypeOK
<1>8. CASE FindOrphan
    <2>1. mt' \in Reconciler
        <3>1. CASE task.kind = "ours" /\ sched.gen = 0
                <4>1. mt' = [mt EXCEPT !.pc = "delete"]
                    BY <1>8, <3>1 DEF FindOrphan
                <4> QED
                    BY <4>1, RoundTyped, ReconcilerTyped, ScheduleTyped
        <3>2. CASE ~(task.kind = "ours" /\ sched.gen = 0)
            BY <1>8, <3>2, RoundTyped, ReconcilerTyped, ScheduleTyped DEF FindOrphan
        <3> QED
            BY <3>1, <3>2
    <2>2. res' \in Resource /\ task' \in Task
        BY <1>8, RoundTyped, ResourceTyped DEF FindOrphan
    <2> QED
        BY <1>8, <2>1, <2>2 DEF FindOrphan, SchedTypeOK
<1>9. CASE DeleteOrphan
    <2>1. mt' \in Reconciler
        BY <1>9, RoundTyped, ReconcilerTyped, ScheduleTyped DEF DeleteOrphan
    <2>2. res' \in Resource /\ task' \in Task
        BY <1>9, RoundTyped, ResourceTyped DEF DeleteOrphan
    <2> QED
        BY <1>9, <2>1, <2>2 DEF DeleteOrphan, SchedTypeOK
<1>10. CASE ClaimExpires
    <2>1. mt' \in Reconciler
        <3>1. CASE ClaimHeld
                <4>1. mt' = [mt EXCEPT !.pc = "orphans"]
                    BY <1>10, <3>1 DEF ClaimExpires
                <4> QED
                    BY <4>1, RoundTyped, ReconcilerTyped, ScheduleTyped
        <3>2. CASE ~(ClaimHeld)
            BY <1>10, <3>2, RoundTyped, ReconcilerTyped, ScheduleTyped DEF ClaimExpires, TaskFault
        <3> QED
            BY <3>1, <3>2
    <2>2. res' \in Resource /\ task' \in Task
        BY <1>10, RoundTyped, ResourceTyped DEF ClaimExpires, TaskFault
    <2>3. taskFaults' \in 0..MaxTaskFaults
        BY <1>10 DEF ClaimExpires, TaskFault
    <2> QED
        BY <1>10, <2>1, <2>2, <2>3 DEF ClaimExpires, SchedTypeOK
<1>11. CASE TaskSchedulerError
    <2>1. mt' \in Reconciler
        BY <1>11, RoundTyped, ReconcilerTyped, ScheduleTyped DEF TaskSchedulerError, TaskFault
    <2>2. res' \in Resource /\ task' \in Task
        BY <1>11, RoundTyped, ResourceTyped DEF TaskSchedulerError, TaskFault
    <2>3. taskFaults' \in 0..MaxTaskFaults
        BY <1>11 DEF TaskSchedulerError, TaskFault
    <2> QED
        BY <1>11, <2>1, <2>2, <2>3 DEF TaskSchedulerError, SchedTypeOK
<1>12. CASE TouchTask
    <2>1. mt' \in Reconciler
        BY <1>12, RoundTyped, ReconcilerTyped, ScheduleTyped DEF TouchTask, TaskFault
    <2>2. res' \in Resource /\ task' \in Task
        <3>1. [task EXCEPT !.on = ~@] \in Task
            BY Zenon DEF Task
        <3>2. [kind |-> "foreign", gen |-> 0, on |-> TRUE] \in Task
            BY DEF Task
        <3> QED
            BY <1>12, <3>1, <3>2, RoundTyped DEF TouchTask
    <2>3. taskFaults' \in 0..MaxTaskFaults
        BY <1>12 DEF TouchTask, TaskFault
    <2> QED
        BY <1>12, <2>1, <2>2, <2>3 DEF TouchTask, SchedTypeOK
<1>13. CASE Commanded
    <2>1. sched'.gen \in 0..MaxGen
        BY <1>13 DEF Commanded, Schedule
    <2>2. res' \in Resource
        BY <1>13, <2>1, ResourceTyped DEF Commanded
    <2> QED
        BY <1>13, <2>2 DEF Commanded, SchedTypeOK
<1>14. CASE ScheduleRestart
    BY <1>14, RoundTyped, ReconcilerTyped, ResourceTyped DEF ScheduleRestart, RequeueClaims, SchedTypeOK
<1>15. CASE UNCHANGED schedVars
    BY <1>15 DEF schedVars, SchedTypeOK
<1> HIDE DEF SchedTypeOK
<1> QED
    BY <1>1, <1>2, <1>3, <1>4, <1>5, <1>6, <1>7, <1>8, <1>9, <1>10, <1>11, <1>12,
       <1>13, <1>14, <1>15, ScheduleMoves DEF Scheduling

\* The claim, the generations and the registered task.
LEMMA ClaimStep ==
    ASSUME SchedTypeOK, JobTypeOK, ClaimShape, GenerationsOrdered, InSyncIsRegistered, [JobsNext]_WholeVars
    PROVE  ClaimShape' /\ GenerationsOrdered' /\ InSyncIsRegistered'
<1> USE DEF SchedTypeOK, Schedule, Resource, Task, Reconciler, Owners,
           ResourceStates, ClaimShape, GenerationsOrdered, InSyncIsRegistered,
           ClaimHeld, Claimed, Idle, NoSchedule, Released, Upserted, RoundEnds,
           RoundFails, NoTask
<1> USE Bounds
<1>a. ASSUME RoundFails \/ RoundEnds, UNCHANGED <<sched, res, task, touched>>
      PROVE  ClaimShape' /\ GenerationsOrdered' /\ InSyncIsRegistered'
    <2>1. mt'.pc \in {"down", "list"} /\ mt'.seen.gen = 0
        BY <1>a
    <2> QED
        BY <1>a, <2>1
<1>b. ASSUME NEW st \in {"PENDING", "BLOCKED"}, NEW l \in {"claim", "orphans"}, ClaimHeld,
             res' = Released(res, st), mt' = [mt EXCEPT !.pc = l], UNCHANGED <<sched, task, touched>>
      PROVE  ClaimShape' /\ GenerationsOrdered' /\ InSyncIsRegistered'
    <2>1. mt'.pc = l /\ mt'.seen = mt.seen /\ res'.st = st /\ res'.gen = res.gen
        BY <1>b
    <2> QED
        BY <1>b, <2>1
<1>c. ASSUME BlockClaim, UNCHANGED <<sched, task, touched>>
      PROVE  ClaimShape' /\ GenerationsOrdered' /\ InSyncIsRegistered'
    <2> HIDE DEF SchedTypeOK, ClaimShape, GenerationsOrdered, InSyncIsRegistered,
                 ClaimHeld, Released, RoundFails, RoundEnds
    <2> QED
        BY <1>a, <1>b, <1>c DEF BlockClaim
<1>1. CASE ListSchedules
    BY <1>1 DEF ListSchedules
<1>2. CASE StageResource
    <2>1. CASE res.gen > mt.seen.gen
        BY <1>2, <2>1, <1>a DEF StageResource
    <2>2. CASE ~(res.gen > mt.seen.gen)
        BY <1>2, <2>2 DEF StageResource
    <2> QED
        BY <2>1, <2>2
<1>3. CASE ClaimResource
    <2>1. CASE res.st = "PENDING"
        <3>1. /\ mt' = [mt EXCEPT !.pc = "load", !.seen = [NoSchedule EXCEPT !.gen = res.gen]]
              /\ res' = [res EXCEPT !.st = "CLAIMED", !.owner = mt.owner]
              /\ UNCHANGED <<sched, task, touched>>
            BY <1>3, <2>1 DEF ClaimResource
        <3> HIDE DEF NoSchedule
        <3>2. mt'.pc = "load" /\ mt'.owner = mt.owner /\ mt'.seen.gen = res.gen
            BY <3>1, ScheduleTyped
        <3>3. res'.st = "CLAIMED" /\ res'.owner = mt.owner /\ res'.gen = res.gen
            BY <3>1
        <3> QED
            BY <2>1, <3>1, <3>2, <3>3
    <2>2. CASE res.st # "PENDING"
        BY <1>3, <2>2 DEF ClaimResource
    <2> QED
        BY <2>1, <2>2
<1>4. CASE LoadSchedule
    <2>1. CASE sched.gen = mt.seen.gen
        <3>1. mt' = [mt EXCEPT !.pc = "observe", !.seen = sched] /\ UNCHANGED <<sched, res, task, touched>>
            BY <1>4, <2>1 DEF LoadSchedule
        <3>2. mt'.pc = "observe" /\ mt'.seen = sched /\ mt'.owner = mt.owner
            BY <3>1
        <3> QED
            BY <1>4, <2>1, <3>1, <3>2 DEF LoadSchedule
    <2>2. CASE sched.gen # mt.seen.gen
        <3> HIDE DEF ClaimShape, GenerationsOrdered, InSyncIsRegistered, RoundFails
        <3> QED
            BY <1>4, <2>2, <1>c DEF LoadSchedule
    <2> QED
        BY <2>1, <2>2
<1>5. CASE ObserveTask
    <2>1. CASE task.kind = "foreign"
        <3> HIDE DEF ClaimShape, GenerationsOrdered, InSyncIsRegistered, RoundFails
        <3> QED
            BY <1>5, <2>1, <1>c DEF ObserveTask
    <2>2. CASE task.kind # "foreign"
        <3>1. \/ mt' = [mt EXCEPT !.pc = "mark"] /\ TaskMatches
              \/ mt' = [mt EXCEPT !.pc = "apply"]
            BY <1>5, <2>2 DEF ObserveTask
        <3>2. UNCHANGED <<sched, res, task, touched>>
            BY <1>5, <2>2 DEF ObserveTask
        <3> QED
            BY <1>5, <3>1, <3>2 DEF ObserveTask, TaskMatches
    <2> QED
        BY <2>1, <2>2
<1>6. CASE ApplyTask
    BY <1>6 DEF ApplyTask
<1>7. CASE MarkInSync
    <2>1. CASE CompletionMatches
        <3>1. mt' = [mt EXCEPT !.pc = "claim"] /\ res' = Released(res, "IN_SYNC")
            BY <1>7, <2>1 DEF MarkInSync
        <3>2. UNCHANGED <<sched, task, touched>>
            BY <1>7 DEF MarkInSync
        <3> QED
            BY <1>7, <2>1, <3>1, <3>2 DEF MarkInSync, CompletionMatches, Released
    <2>2. CASE ~CompletionMatches
        <3> HIDE DEF ClaimShape, GenerationsOrdered, InSyncIsRegistered, RoundFails
        <3> QED
            BY <1>7, <2>2, <1>a DEF MarkInSync
    <2> QED
        BY <2>1, <2>2
<1>8. CASE FindOrphan
    BY <1>8 DEF FindOrphan, RoundEnds
<1>9. CASE DeleteOrphan
    BY <1>9 DEF DeleteOrphan, RoundEnds
<1>10. CASE ClaimExpires
    <2> HIDE DEF ClaimShape, GenerationsOrdered, InSyncIsRegistered, RoundFails, ClaimHeld, Released
    <2> QED
        BY <1>10, <1>a, <1>b DEF ClaimExpires
<1>11. CASE TaskSchedulerError
    BY <1>11, <1>a DEF TaskSchedulerError
<1>12. CASE TouchTask
    BY <1>12 DEF TouchTask, TaskFault
<1>13. CASE Commanded
    BY <1>13 DEF Commanded, Upserted
<1>14. CASE ScheduleRestart
    BY <1>14 DEF ScheduleRestart, RequeueClaims, Idle
<1>15. CASE UNCHANGED schedVars
    BY <1>15 DEF schedVars
<1> HIDE DEF SchedTypeOK, ClaimShape, GenerationsOrdered, InSyncIsRegistered
<1> QED
    BY <1>1, <1>2, <1>3, <1>4, <1>5, <1>6, <1>7, <1>8, <1>9, <1>10, <1>11, <1>12,
       <1>13, <1>14, <1>15, ScheduleMoves DEF Scheduling

-----------------------------------------------------------------------------
(* The job, its requests, its runs and the analysis.                       *)

RequestStates == {"none", "QUEUED", "RUNNING"} \cup TerminalRequest
AnaSteps == {"idle", "runs", "scan", "plan", "seal", "start", "complete", "occurrence"}

\* Requests, runs and the analysis keep their types under the updates of the
\* module.
LEMMA RequestsTyped ==
    ASSUME JobTypeOK
    PROVE  /\ \A i \in Ids, st \in RequestStates : [req EXCEPT ![i].st = st] \in [Ids -> Request]
           /\ \A i \in Ids, st \in RequestStates, b \in BOOLEAN :
                 [req EXCEPT ![i].st = st, ![i].run = b] \in [Ids -> Request]
           /\ \A i \in Ids, auto \in BOOLEAN : Enqueued(i, auto) \in [Ids -> Request]
           /\ BlockedRequests \in [Ids -> Request] /\ Requeued \in [Ids -> Request]
<1>1. req \in [Ids -> Request] /\ job.rev \in Revs
    BY DEF JobTypeOK, Job
<1>2. ASSUME NEW i \in Ids, NEW st \in RequestStates
      PROVE  [req[i] EXCEPT !.st = st] \in Request
    BY <1>1, <1>2, Zenon DEF Request, RequestStates
<1>3. \A i \in Ids, st \in RequestStates : [req EXCEPT ![i].st = st] \in [Ids -> Request]
    BY <1>1, <1>2
<1>4. ASSUME NEW i \in Ids, NEW st \in RequestStates, NEW b \in BOOLEAN
      PROVE  [req EXCEPT ![i].st = st, ![i].run = b] \in [Ids -> Request]
    <2>1. [req[i] EXCEPT !.st = st, !.run = b] \in Request
        BY <1>1, <1>4, Zenon DEF Request, RequestStates
    <2> QED
        BY <1>1, <2>1
<1>5. ASSUME NEW i \in Ids, NEW auto \in BOOLEAN PROVE Enqueued(i, auto) \in [Ids -> Request]
    <2>1. NewReq(auto) \in Request
        BY <1>1, <1>5 DEF NewReq, Request
    <2> QED
        BY <1>1, <2>1 DEF Enqueued
<1>6. {"BLOCKED", "QUEUED"} \subseteq RequestStates
    BY DEF RequestStates, TerminalRequest
<1>7. BlockedRequests \in [Ids -> Request] /\ Requeued \in [Ids -> Request]
    BY <1>1, <1>2, <1>6 DEF BlockedRequests, Requeued
<1> QED
    BY <1>3, <1>4, <1>5, <1>7

\* An analysis that goes on is an analysis.
LEMMA AnalysisTyped ==
    /\ \A l \in AnaSteps : \A a \in AnaState : [a EXCEPT !.pc = l] \in AnaState
    /\ \A l \in AnaSteps : \A a \in AnaState : \A r \in Revs \cup {0} :
          [a EXCEPT !.pc = l, !.rev = r] \in AnaState
    /\ \A q \in Ids : [NoAna EXCEPT !.pc = "runs", !.q = q] \in AnaState
    /\ \A q \in Ids : \A st \in TerminalRequest : \A b \in BOOLEAN : Done(q, st, b) \in AnaState
    /\ NoAna \in AnaState
<1>1. \A l \in AnaSteps : \A a \in AnaState : [a EXCEPT !.pc = l] \in AnaState
    BY Zenon DEF AnaState, AnaSteps
<1>2. \A l \in AnaSteps : \A a \in AnaState : \A r \in Revs \cup {0} :
          [a EXCEPT !.pc = l, !.rev = r] \in AnaState
    BY Zenon DEF AnaState, AnaSteps
<1>3. NoAna \in AnaState
    BY DEF NoAna, AnaState
<1>4. ASSUME NEW q \in Ids PROVE [NoAna EXCEPT !.pc = "runs", !.q = q] \in AnaState
    BY <1>3, Zenon DEF AnaState
<1>5. ASSUME NEW q \in Ids, NEW st \in TerminalRequest, NEW b \in BOOLEAN
      PROVE  Done(q, st, b) \in AnaState
    BY DEF AnaState, Done
<1> QED
    BY <1>1, <1>2, <1>3, <1>4, <1>5

\* The fields of a job.
LEMMA JobFields ==
    ASSUME JobTypeOK
    PROVE  /\ job \in Job /\ job.rev \in Revs /\ job.content \in Revs
           /\ job.st \in {"ACTIVE", "ARCHIVED", "DELETED"}
           /\ snap \in BOOLEAN /\ plans \in SUBSET Revs
           /\ req \in [Ids -> Request] /\ run \in [Ids \cup {Window} -> Run]
           /\ ana \in AnaState /\ ana.q \in Ids \cup {0} /\ ana.rev \in Revs \cup {0}
           /\ ana.pc \in AnaSteps /\ ana.out \in TerminalRequest \cup {"none"}
           /\ ana.run \in BOOLEAN
           /\ \A i \in Ids : req[i].st \in RequestStates /\ req[i].auto \in BOOLEAN
           /\ DOMAIN run = Ids \cup {Window}
<1>1. ana \in AnaState /\ job \in Job /\ req \in [Ids -> Request]
    BY DEF JobTypeOK
<1>2. \A i \in Ids : req[i] \in Request
    BY <1>1
<1>3. \A i \in Ids : req[i].st \in RequestStates /\ req[i].auto \in BOOLEAN
    BY <1>2 DEF Request, RequestStates
<1> QED
    BY <1>1, <1>3 DEF JobTypeOK, Job, AnaState, AnaSteps

JobFieldsOK ==
    /\ job \in Job /\ snap \in BOOLEAN /\ plans \subseteq Revs
    /\ rcpt \in [Keys -> {"none", "SUCCEEDED", "EDITED", "REJECTED"}]
    /\ post \in Keys \cup {0} /\ crashes \in 0..MaxCrashes

\* The job, its plans and its receipts keep their types.
LEMMA JobFieldsStep ==
    ASSUME JobTypeOK, KeysInOrder, AnalysisShape, [JobsNext]_WholeVars
    PROVE  JobFieldsOK'
<1> USE Bounds DEF JobFieldsOK, JobTypeOK, boundVars, AnaFrame
<1>1. ASSUME NEW k \in Keys, NEW kind \in Kinds, NEW fresh \in BOOLEAN,
             Accept(k, kind, fresh), ArchiveJob(kind)
      PROVE  JobFieldsOK'
    <2>1. job' = [job EXCEPT !.st = "ARCHIVED"]
        BY <1>1 DEF ArchiveJob
    <2>2. job' \in Job
        BY <2>1, JobFields, Zenon DEF Job
    <2> QED
        BY <1>1, <2>2 DEF ArchiveJob, Accept
<1>2. ASSUME NEW k \in Keys, NEW kind \in Kinds, NEW fresh \in BOOLEAN,
             Accept(k, kind, fresh), DeleteJob(kind)
      PROVE  JobFieldsOK'
    <2>1. job' = [job EXCEPT !.st = "DELETED"]
        BY <1>2 DEF DeleteJob
    <2>2. job' \in Job
        BY <2>1, JobFields, Zenon DEF Job
    <2> QED
        BY <1>2, <2>2 DEF DeleteJob, Accept
<1>3. ASSUME NEW k \in Keys, NEW kind \in Kinds, NEW fresh \in BOOLEAN,
             Accept(k, kind, fresh), ReactivateJob(k, kind)
      PROVE  JobFieldsOK'
    <2>1. job' = [job EXCEPT !.st = "ACTIVE"]
        BY <1>3 DEF ReactivateJob
    <2>2. job' \in Job
        BY <2>1, JobFields, Zenon DEF Job
    <2> QED
        BY <1>3, <2>2 DEF ReactivateJob, Accept
<1>4. ASSUME NEW k \in Keys, NEW kind \in Kinds, NEW fresh \in BOOLEAN,
             Accept(k, kind, fresh), UpdateJob(k, kind)
      PROVE  JobFieldsOK'
    <2>1. job.rev + 1 \in Revs
        <3>1. job.rev \in Revs /\ job.rev <= k
            BY <1>4, JobFields DEF Accept, NextKey, KeysInOrder
        <3> QED
            BY <3>1 DEF Revs, Keys
    <2>2. job' \in Job
        BY <1>4, <2>1, JobFields, Zenon DEF UpdateJob, Job
    <2> QED
        BY <1>4, <2>2 DEF UpdateJob, Accept
<1>5. ASSUME NEW k \in Keys, NEW kind \in Kinds, NEW fresh \in BOOLEAN,
             Accept(k, kind, fresh), CheckBackup(k, kind)
      PROVE  JobFieldsOK'
    BY <1>5 DEF Accept, Wanted, Allowed, CheckBackup, CheckAllowed
<1>6. ASSUME NEW k \in Keys, NEW kind \in Kinds, NEW fresh \in BOOLEAN,
             Accept(k, kind, fresh), ConfigureSchedule(kind)
      PROVE  JobFieldsOK'
    BY <1>6 DEF Accept, Wanted, Allowed, ConfigureSchedule, ScheduleAllowed,
       Configured
<1>7. ASSUME NEW k \in Keys, NEW kind \in Kinds, NEW fresh \in BOOLEAN,
             Refuse(k, kind, fresh)
      PROVE  JobFieldsOK'
    BY <1>7 DEF Refuse
<1>8. ASSUME NEW k \in Keys,
             Resend(k)
      PROVE  JobFieldsOK'
    BY <1>8 DEF Resend
<1>9. CASE EnqueueAfterEdit
    BY <1>9 DEF EnqueueAfterEdit
<1>10. ASSUME NEW i \in Ids,
              ClaimAnalysis(i)
       PROVE  JobFieldsOK'
    BY <1>10 DEF ClaimAnalysis
<1>11. CASE LookAtRuns
    BY <1>11 DEF LookAtRuns
<1>12. CASE ScanAndSeal
    BY <1>12 DEF ScanAndSeal
<1>13. CASE HashAndPlan
    BY <1>13 DEF HashAndPlan, HashBlocks, PlanCandidate
<1>14. CASE SealPlan
    <2>1. ana.rev \in Revs
        BY <1>14 DEF SealPlan, AnalysisShape
    <2> QED
        BY <1>14, <2>1 DEF SealPlan
<1>15. CASE SafeStart
    BY <1>15 DEF SafeStart
<1>16. CASE CompleteAnalysis
    BY <1>16 DEF CompleteAnalysis
<1>17. CASE TellOccurrence
    BY <1>17 DEF TellOccurrence, OccurrenceOutcome
<1>18. CASE StartFromWindow
    BY <1>18 DEF StartFromWindow
<1>19. CASE RefreshMaterials
    BY <1>19, JobFields DEF RefreshMaterials
<1>20. ASSUME NEW o \in Occs,
              DeliverTrigger(o)
       PROVE  JobFieldsOK'
    BY <1>20 DEF DeliverTrigger
<1>21. ASSUME NEW o \in Occs,
              TellRunEnded(o)
       PROVE  JobFieldsOK'
    BY <1>21 DEF TellRunEnded
<1>22. ASSUME NEW i \in DOMAIN run,
              RunEnds(i)
       PROVE  JobFieldsOK'
    BY <1>22 DEF RunEnds
<1>23. CASE Restart
    BY <1>23 DEF Restart, JobRestart, ScheduleRestart, RequeueClaims, Requeued
<1>24. CASE UNCHANGED <<jobVars, sched>>
    BY <1>24 DEF jobVars
<1> HIDE DEF JobTypeOK, JobFieldsOK
<1> QED
    BY <1>1, <1>2, <1>3, <1>4, <1>5, <1>6, <1>7, <1>8, <1>9, <1>10, <1>11, <1>12,
       <1>13, <1>14, <1>15, <1>16, <1>17, <1>18, <1>19, <1>20, <1>21, <1>22,
       <1>23, <1>24, Moves DEF Moved

\* So do the requests,
LEMMA RequestTypeStep ==
    ASSUME JobTypeOK, AnalysisShape, [JobsNext]_WholeVars
    PROVE  req' \in [Ids -> Request]
<1> USE Bounds
<1>1. ASSUME NEW k \in Keys, NEW kind \in Kinds, NEW fresh \in BOOLEAN,
             Accept(k, kind, fresh), ArchiveJob(kind)
      PROVE  req' \in [Ids -> Request]
    BY <1>1, RequestsTyped DEF ArchiveJob
<1>2. ASSUME NEW k \in Keys, NEW kind \in Kinds, NEW fresh \in BOOLEAN,
             Accept(k, kind, fresh), DeleteJob(kind)
      PROVE  req' \in [Ids -> Request]
    BY <1>2, RequestsTyped DEF DeleteJob
<1>3. ASSUME NEW k \in Keys, NEW kind \in Kinds, NEW fresh \in BOOLEAN,
             Accept(k, kind, fresh), ReactivateJob(k, kind)
      PROVE  req' \in [Ids -> Request]
    BY <1>3, JobFields, RequestsTyped DEF ReactivateJob
<1>4. ASSUME NEW k \in Keys, NEW kind \in Kinds, NEW fresh \in BOOLEAN,
             Accept(k, kind, fresh), UpdateJob(k, kind)
      PROVE  req' \in [Ids -> Request]
    BY <1>4, JobFields DEF UpdateJob
<1>5. ASSUME NEW k \in Keys, NEW kind \in Kinds, NEW fresh \in BOOLEAN,
             Accept(k, kind, fresh), CheckBackup(k, kind)
      PROVE  req' \in [Ids -> Request]
    BY <1>5, RequestsTyped DEF CheckBackup
<1>6. ASSUME NEW k \in Keys, NEW kind \in Kinds, NEW fresh \in BOOLEAN,
             Accept(k, kind, fresh), ConfigureSchedule(kind)
      PROVE  req' \in [Ids -> Request]
    BY <1>6, JobFields DEF ConfigureSchedule
<1>7. ASSUME NEW k \in Keys, NEW kind \in Kinds, NEW fresh \in BOOLEAN,
             Refuse(k, kind, fresh)
      PROVE  req' \in [Ids -> Request]
    BY <1>7, JobFields DEF Refuse
<1>8. ASSUME NEW k \in Keys, Resend(k) PROVE req' \in [Ids -> Request]
    BY <1>8, JobFields DEF Resend
<1>9. CASE EnqueueAfterEdit
    <2>1. post \in Ids
        BY <1>9 DEF EnqueueAfterEdit, JobTypeOK
    <2> QED
        <3>1. req' = req \/ req' = Enqueued(post, FALSE)
            BY <1>9 DEF EnqueueAfterEdit
        <3>2. CASE req' = req
            BY <3>2, JobFields
        <3>3. CASE req' = Enqueued(post, FALSE)
            BY <2>1, <3>3, RequestsTyped
        <3> QED
            BY <3>1, <3>2, <3>3
<1>10. ASSUME NEW i \in Ids, ClaimAnalysis(i) PROVE req' \in [Ids -> Request]
    <2>1. "RUNNING" \in RequestStates
        BY DEF RequestStates
    <2> QED
        BY <1>10, <2>1, RequestsTyped DEF ClaimAnalysis
<1>11. CASE LookAtRuns
    BY <1>11, JobFields DEF LookAtRuns
<1>12. CASE ScanAndSeal
    BY <1>12, JobFields DEF ScanAndSeal
<1>13. CASE HashAndPlan
    BY <1>13, JobFields DEF HashAndPlan
<1>14. CASE SealPlan
    BY <1>14, JobFields DEF SealPlan
<1>15. CASE SafeStart
    BY <1>15, JobFields DEF SafeStart
<1>16. CASE CompleteAnalysis
    <2>1. ana.q \in Ids /\ ana.out \in RequestStates /\ ana.run \in BOOLEAN
        BY <1>16, JobFields DEF CompleteAnalysis, AnalysisShape, RequestStates
    <2> QED
        <3>1. req' = req \/ req' = [req EXCEPT ![ana.q].st = ana.out, ![ana.q].run = ana.run]
            BY <1>16 DEF CompleteAnalysis
        <3>2. CASE req' = req
            BY <3>2, JobFields
        <3>3. CASE req' = [req EXCEPT ![ana.q].st = ana.out, ![ana.q].run = ana.run]
            BY <2>1, <3>3, RequestsTyped
        <3> QED
            BY <3>1, <3>2, <3>3
<1>17. CASE TellOccurrence
    BY <1>17, JobFields DEF TellOccurrence
<1>18. CASE StartFromWindow
    BY <1>18, JobFields DEF StartFromWindow
<1>19. CASE RefreshMaterials
    BY <1>19, JobFields DEF RefreshMaterials
<1>20. ASSUME NEW o \in Occs, DeliverTrigger(o) PROVE req' \in [Ids -> Request]
    BY <1>20, RequestsTyped DEF DeliverTrigger
<1>21. ASSUME NEW o \in Occs, TellRunEnded(o) PROVE req' \in [Ids -> Request]
    BY <1>21, JobFields DEF TellRunEnded
<1>22. ASSUME NEW i \in DOMAIN run, RunEnds(i) PROVE req' \in [Ids -> Request]
    BY <1>22, JobFields DEF RunEnds
<1>23. CASE Restart
    BY <1>23, RequestsTyped DEF Restart, JobRestart
<1>24. CASE UNCHANGED <<jobVars, sched>>
    BY <1>24, JobFields DEF jobVars
<1> QED
    BY <1>1, <1>2, <1>3, <1>4, <1>5, <1>6, <1>7, <1>8, <1>9, <1>10, <1>11, <1>12,
       <1>13, <1>14, <1>15, <1>16, <1>17, <1>18, <1>19, <1>20, <1>21, <1>22,
       <1>23, <1>24, Moves DEF Moved

\* the runs and
LEMMA RunTypeStep ==
    ASSUME JobTypeOK, AnalysisShape, [JobsNext]_WholeVars
    PROVE  run' \in [Ids \cup {Window} -> Run] /\ raced' \subseteq DOMAIN run'
<1> USE DEF JobTypeOK, boundVars, AnaFrame
<1> USE Bounds
<1>1. ASSUME NEW k \in Keys, NEW kind \in Kinds, NEW fresh \in BOOLEAN,
             Accept(k, kind, fresh), ArchiveJob(kind)
      PROVE  run' \in [Ids \cup {Window} -> Run] /\ raced' \subseteq DOMAIN run'
    BY <1>1 DEF Accept
<1>2. ASSUME NEW k \in Keys, NEW kind \in Kinds, NEW fresh \in BOOLEAN,
             Accept(k, kind, fresh), DeleteJob(kind)
      PROVE  run' \in [Ids \cup {Window} -> Run] /\ raced' \subseteq DOMAIN run'
    BY <1>2 DEF Accept
<1>3. ASSUME NEW k \in Keys, NEW kind \in Kinds, NEW fresh \in BOOLEAN,
             Accept(k, kind, fresh), ReactivateJob(k, kind)
      PROVE  run' \in [Ids \cup {Window} -> Run] /\ raced' \subseteq DOMAIN run'
    BY <1>3 DEF Accept
<1>4. ASSUME NEW k \in Keys, NEW kind \in Kinds, NEW fresh \in BOOLEAN,
             Accept(k, kind, fresh), UpdateJob(k, kind)
      PROVE  run' \in [Ids \cup {Window} -> Run] /\ raced' \subseteq DOMAIN run'
    BY <1>4 DEF Accept
<1>5. ASSUME NEW k \in Keys, NEW kind \in Kinds, NEW fresh \in BOOLEAN,
             Accept(k, kind, fresh), CheckBackup(k, kind)
      PROVE  run' \in [Ids \cup {Window} -> Run] /\ raced' \subseteq DOMAIN run'
    BY <1>5 DEF Accept
<1>6. ASSUME NEW k \in Keys, NEW kind \in Kinds, NEW fresh \in BOOLEAN,
             Accept(k, kind, fresh), ConfigureSchedule(kind)
      PROVE  run' \in [Ids \cup {Window} -> Run] /\ raced' \subseteq DOMAIN run'
    BY <1>6 DEF Accept
<1>7. ASSUME NEW k \in Keys, NEW kind \in Kinds, NEW fresh \in BOOLEAN,
             Refuse(k, kind, fresh)
      PROVE  run' \in [Ids \cup {Window} -> Run] /\ raced' \subseteq DOMAIN run'
    BY <1>7 DEF Refuse
<1>8. ASSUME NEW k \in Keys,
             Resend(k)
      PROVE  run' \in [Ids \cup {Window} -> Run] /\ raced' \subseteq DOMAIN run'
    BY <1>8 DEF Resend
<1>9. CASE EnqueueAfterEdit
    BY <1>9 DEF EnqueueAfterEdit
<1>10. ASSUME NEW i \in Ids,
              ClaimAnalysis(i)
       PROVE  run' \in [Ids \cup {Window} -> Run] /\ raced' \subseteq DOMAIN run'
    BY <1>10 DEF ClaimAnalysis
<1>11. CASE LookAtRuns
    BY <1>11 DEF LookAtRuns
<1>12. CASE ScanAndSeal
    BY <1>12 DEF ScanAndSeal
<1>13. CASE HashAndPlan
    BY <1>13 DEF HashAndPlan
<1>14. CASE SealPlan
    BY <1>14 DEF SealPlan
<1>15. CASE SafeStart
    <2>1. ana.q \in Ids /\ ana.rev \in Revs
        BY <1>15 DEF SafeStart, AnalysisShape
    <2>2. [st |-> "ACTIVE", rev |-> ana.rev] \in Run
        BY <2>1 DEF Run
    <2> QED
        <3>1. \/ UNCHANGED <<run, raced>>
              \/ /\ run' = [run EXCEPT ![ana.q] = [st |-> "ACTIVE", rev |-> ana.rev]]
                 /\ raced' \in {raced, raced \cup {ana.q}}
            BY <1>15 DEF SafeStart
        <3> QED
            BY <2>1, <2>2, <3>1
<1>16. CASE CompleteAnalysis
    BY <1>16 DEF CompleteAnalysis
<1>17. CASE TellOccurrence
    BY <1>17 DEF TellOccurrence
<1>18. CASE StartFromWindow
    <2>1. PICK r \in plans : /\ run' = [run EXCEPT ![Window] = [st |-> "ACTIVE", rev |-> r]]
                             /\ raced' = IF r = job.rev THEN raced ELSE raced \cup {Window}
        BY <1>18 DEF StartFromWindow
    <2>2. [st |-> "ACTIVE", rev |-> r] \in Run
        BY <2>1 DEF Run
    <2> QED
        BY <2>1, <2>2
<1>19. CASE RefreshMaterials
    BY <1>19 DEF RefreshMaterials
<1>20. ASSUME NEW o \in Occs,
              DeliverTrigger(o)
       PROVE  run' \in [Ids \cup {Window} -> Run] /\ raced' \subseteq DOMAIN run'
    BY <1>20 DEF DeliverTrigger
<1>21. ASSUME NEW o \in Occs,
              TellRunEnded(o)
       PROVE  run' \in [Ids \cup {Window} -> Run] /\ raced' \subseteq DOMAIN run'
    BY <1>21 DEF TellRunEnded
<1>22. ASSUME NEW i \in DOMAIN run,
              RunEnds(i)
       PROVE  run' \in [Ids \cup {Window} -> Run] /\ raced' \subseteq DOMAIN run'
    <2>1. [st |-> "ENDED", rev |-> 0] \in Run
        BY DEF Run
    <2> QED
        BY <1>22, <2>1 DEF RunEnds
<1>23. CASE Restart
    BY <1>23 DEF Restart, JobRestart
<1>24. CASE UNCHANGED <<jobVars, sched>>
    BY <1>24 DEF jobVars
<1> HIDE DEF JobTypeOK
<1> QED
    BY <1>1, <1>2, <1>3, <1>4, <1>5, <1>6, <1>7, <1>8, <1>9, <1>10, <1>11, <1>12,
       <1>13, <1>14, <1>15, <1>16, <1>17, <1>18, <1>19, <1>20, <1>21, <1>22,
       <1>23, <1>24, Moves DEF Moved

\* the occurrences,
LEMMA OccurrenceTypeStep ==
    ASSUME JobTypeOK, [JobsNext]_WholeVars
    PROVE  occ' \in [Occs -> {"none", "RECEIVED", "RUN_ENQUEUED"} \cup TerminalOccurrence]
<1> USE DEF JobTypeOK, boundVars, AnaFrame
<1> USE Bounds
<1>1. ASSUME NEW k \in Keys, NEW kind \in Kinds, NEW fresh \in BOOLEAN,
             Accept(k, kind, fresh), ArchiveJob(kind)
      PROVE  occ' \in [Occs -> {"none", "RECEIVED", "RUN_ENQUEUED"} \cup TerminalOccurrence]
    BY <1>1 DEF Accept
<1>2. ASSUME NEW k \in Keys, NEW kind \in Kinds, NEW fresh \in BOOLEAN,
             Accept(k, kind, fresh), DeleteJob(kind)
      PROVE  occ' \in [Occs -> {"none", "RECEIVED", "RUN_ENQUEUED"} \cup TerminalOccurrence]
    BY <1>2 DEF Accept
<1>3. ASSUME NEW k \in Keys, NEW kind \in Kinds, NEW fresh \in BOOLEAN,
             Accept(k, kind, fresh), ReactivateJob(k, kind)
      PROVE  occ' \in [Occs -> {"none", "RECEIVED", "RUN_ENQUEUED"} \cup TerminalOccurrence]
    BY <1>3 DEF Accept
<1>4. ASSUME NEW k \in Keys, NEW kind \in Kinds, NEW fresh \in BOOLEAN,
             Accept(k, kind, fresh), UpdateJob(k, kind)
      PROVE  occ' \in [Occs -> {"none", "RECEIVED", "RUN_ENQUEUED"} \cup TerminalOccurrence]
    BY <1>4 DEF Accept
<1>5. ASSUME NEW k \in Keys, NEW kind \in Kinds, NEW fresh \in BOOLEAN,
             Accept(k, kind, fresh), CheckBackup(k, kind)
      PROVE  occ' \in [Occs -> {"none", "RECEIVED", "RUN_ENQUEUED"} \cup TerminalOccurrence]
    BY <1>5 DEF Accept
<1>6. ASSUME NEW k \in Keys, NEW kind \in Kinds, NEW fresh \in BOOLEAN,
             Accept(k, kind, fresh), ConfigureSchedule(kind)
      PROVE  occ' \in [Occs -> {"none", "RECEIVED", "RUN_ENQUEUED"} \cup TerminalOccurrence]
    BY <1>6 DEF Accept
<1>7. ASSUME NEW k \in Keys, NEW kind \in Kinds, NEW fresh \in BOOLEAN,
             Refuse(k, kind, fresh)
      PROVE  occ' \in [Occs -> {"none", "RECEIVED", "RUN_ENQUEUED"} \cup TerminalOccurrence]
    BY <1>7 DEF Refuse
<1>8. ASSUME NEW k \in Keys,
             Resend(k)
      PROVE  occ' \in [Occs -> {"none", "RECEIVED", "RUN_ENQUEUED"} \cup TerminalOccurrence]
    BY <1>8 DEF Resend
<1>9. CASE EnqueueAfterEdit
    BY <1>9 DEF EnqueueAfterEdit
<1>10. ASSUME NEW i \in Ids,
              ClaimAnalysis(i)
       PROVE  occ' \in [Occs -> {"none", "RECEIVED", "RUN_ENQUEUED"} \cup TerminalOccurrence]
    BY <1>10 DEF ClaimAnalysis
<1>11. CASE LookAtRuns
    BY <1>11 DEF LookAtRuns
<1>12. CASE ScanAndSeal
    BY <1>12 DEF ScanAndSeal
<1>13. CASE HashAndPlan
    BY <1>13 DEF HashAndPlan
<1>14. CASE SealPlan
    BY <1>14 DEF SealPlan
<1>15. CASE SafeStart
    BY <1>15 DEF SafeStart
<1>16. CASE CompleteAnalysis
    BY <1>16 DEF CompleteAnalysis
<1>17. CASE TellOccurrence
    <2>1. OccurrenceOutcome \in {"none", "RECEIVED", "RUN_ENQUEUED"} \cup TerminalOccurrence
        BY DEF OccurrenceOutcome, TerminalOccurrence
    <2> QED
        BY <1>17, <2>1 DEF TellOccurrence
<1>18. CASE StartFromWindow
    BY <1>18 DEF StartFromWindow
<1>19. CASE RefreshMaterials
    BY <1>19 DEF RefreshMaterials
<1>20. ASSUME NEW o \in Occs,
              DeliverTrigger(o)
       PROVE  occ' \in [Occs -> {"none", "RECEIVED", "RUN_ENQUEUED"} \cup TerminalOccurrence]
    BY <1>20 DEF DeliverTrigger
<1>21. ASSUME NEW o \in Occs,
              TellRunEnded(o)
       PROVE  occ' \in [Occs -> {"none", "RECEIVED", "RUN_ENQUEUED"} \cup TerminalOccurrence]
    BY <1>21 DEF TellRunEnded, TerminalOccurrence
<1>22. ASSUME NEW i \in DOMAIN run,
              RunEnds(i)
       PROVE  occ' \in [Occs -> {"none", "RECEIVED", "RUN_ENQUEUED"} \cup TerminalOccurrence]
    BY <1>22 DEF RunEnds
<1>23. CASE Restart
    BY <1>23 DEF Restart, JobRestart
<1>24. CASE UNCHANGED <<jobVars, sched>>
    BY <1>24 DEF jobVars
<1> HIDE DEF JobTypeOK
<1> QED
    BY <1>1, <1>2, <1>3, <1>4, <1>5, <1>6, <1>7, <1>8, <1>9, <1>10, <1>11, <1>12,
       <1>13, <1>14, <1>15, <1>16, <1>17, <1>18, <1>19, <1>20, <1>21, <1>22,
       <1>23, <1>24, Moves DEF Moved

\* and the analysis.
LEMMA AnalysisTypeStep ==
    ASSUME JobTypeOK, AnalysisShape, [JobsNext]_WholeVars
    PROVE  ana' \in AnaState
<1> USE DEF jobVars, boundVars, AnaFrame
<1> USE Bounds
<1>1. ASSUME NEW k \in Keys, NEW kind \in Kinds, NEW fresh \in BOOLEAN,
             Accept(k, kind, fresh), ArchiveJob(kind)
      PROVE  ana' \in AnaState
    BY <1>1, JobFields DEF Accept
<1>2. ASSUME NEW k \in Keys, NEW kind \in Kinds, NEW fresh \in BOOLEAN,
             Accept(k, kind, fresh), DeleteJob(kind)
      PROVE  ana' \in AnaState
    BY <1>2, JobFields DEF Accept
<1>3. ASSUME NEW k \in Keys, NEW kind \in Kinds, NEW fresh \in BOOLEAN,
             Accept(k, kind, fresh), ReactivateJob(k, kind)
      PROVE  ana' \in AnaState
    BY <1>3, JobFields DEF Accept
<1>4. ASSUME NEW k \in Keys, NEW kind \in Kinds, NEW fresh \in BOOLEAN,
             Accept(k, kind, fresh), UpdateJob(k, kind)
      PROVE  ana' \in AnaState
    BY <1>4, JobFields DEF Accept
<1>5. ASSUME NEW k \in Keys, NEW kind \in Kinds, NEW fresh \in BOOLEAN,
             Accept(k, kind, fresh), CheckBackup(k, kind)
      PROVE  ana' \in AnaState
    BY <1>5, JobFields DEF Accept
<1>6. ASSUME NEW k \in Keys, NEW kind \in Kinds, NEW fresh \in BOOLEAN,
             Accept(k, kind, fresh), ConfigureSchedule(kind)
      PROVE  ana' \in AnaState
    BY <1>6, JobFields DEF Accept
<1>7. ASSUME NEW k \in Keys, NEW kind \in Kinds, NEW fresh \in BOOLEAN,
             Refuse(k, kind, fresh)
      PROVE  ana' \in AnaState
    BY <1>7, JobFields DEF Refuse
<1>8. ASSUME NEW k \in Keys, Resend(k) PROVE ana' \in AnaState
    BY <1>8, JobFields DEF Resend
<1>9. CASE EnqueueAfterEdit
    BY <1>9, JobFields DEF EnqueueAfterEdit
<1>10. ASSUME NEW i \in Ids, ClaimAnalysis(i) PROVE ana' \in AnaState
    BY <1>10, AnalysisTyped DEF ClaimAnalysis
<1>11. CASE LookAtRuns
    <2>1. ana.q \in Ids
        BY <1>11 DEF LookAtRuns, AnalysisShape
    <2>2. \/ ana' = [ana EXCEPT !.pc = "scan", !.rev = job.rev]
          \/ ana' = Done(ana.q, "SUCCEEDED", TRUE)
          \/ ana' = Done(ana.q, "BLOCKED", FALSE)
        BY <1>11 DEF LookAtRuns
    <2>3. ASSUME NEW st \in TerminalRequest, NEW b \in BOOLEAN, ana' = Done(ana.q, st, b)
          PROVE  ana' \in AnaState
        BY <2>1, <2>3, AnalysisTyped
    <2>4. CASE ana' = [ana EXCEPT !.pc = "scan", !.rev = job.rev]
        BY <2>4, AnalysisTyped, JobFields DEF AnaSteps
    <2> QED
        BY <2>2, <2>3, <2>4 DEF TerminalRequest
<1>12. CASE ScanAndSeal
    <2>1. ana.q \in Ids
        BY <1>12 DEF ScanAndSeal, AnalysisShape
    <2>2. \/ \E st \in {"BLOCKED", "FAILED"} : ana' = Done(ana.q, st, FALSE)
          \/ ana' = [ana EXCEPT !.pc = "plan"]
        BY <1>12 DEF ScanAndSeal
    <2>3. ASSUME NEW st \in TerminalRequest, ana' = Done(ana.q, st, FALSE) PROVE ana' \in AnaState
        BY <2>1, <2>3, AnalysisTyped
    <2>4. CASE ana' = [ana EXCEPT !.pc = "plan"]
        BY <2>4, AnalysisTyped, JobFields DEF AnaSteps
    <2> QED
        BY <2>2, <2>3, <2>4 DEF TerminalRequest
<1>13. CASE HashAndPlan
    <2>1. ana.q \in Ids
        BY <1>13 DEF HashAndPlan, AnalysisShape
    <2>2. \/ ana' = Done(ana.q, "BLOCKED", FALSE)
          \/ ana' = [ana EXCEPT !.pc = "seal", !.rev = job.rev]
        BY <1>13 DEF HashAndPlan, HashBlocks, PlanCandidate
    <2>3. ASSUME NEW st \in TerminalRequest, NEW b \in BOOLEAN, ana' = Done(ana.q, st, b)
          PROVE  ana' \in AnaState
        BY <2>1, <2>3, AnalysisTyped
    <2>4. CASE ana' = [ana EXCEPT !.pc = "seal", !.rev = job.rev]
        BY <2>4, AnalysisTyped, JobFields DEF AnaSteps
    <2> QED
        BY <2>2, <2>3, <2>4 DEF TerminalRequest
<1>14. CASE SealPlan
    <2>1. ana.q \in Ids
        BY <1>14 DEF SealPlan, AnalysisShape
    <2>2. \/ \E st \in {"SUCCEEDED", "NO_CHANGES", "BLOCKED", "FAILED"} : ana' = Done(ana.q, st, FALSE)
          \/ ana' = [ana EXCEPT !.pc = "start"]
        BY <1>14 DEF SealPlan
    <2>3. ASSUME NEW st \in TerminalRequest, ana' = Done(ana.q, st, FALSE) PROVE ana' \in AnaState
        BY <2>1, <2>3, AnalysisTyped
    <2>4. CASE ana' = [ana EXCEPT !.pc = "start"]
        BY <2>4, AnalysisTyped, JobFields DEF AnaSteps
    <2> QED
        BY <2>2, <2>3, <2>4 DEF TerminalRequest
<1>15. CASE SafeStart
    <2>1. ana.q \in Ids
        BY <1>15 DEF SafeStart, AnalysisShape
    <2>2. \E st \in {"SUCCEEDED", "FAILED", "BLOCKED"}, b \in BOOLEAN : ana' = Done(ana.q, st, b)
        BY <1>15 DEF SafeStart
    <2>3. ASSUME NEW st \in TerminalRequest, NEW b \in BOOLEAN, ana' = Done(ana.q, st, b)
          PROVE  ana' \in AnaState
        BY <2>1, <2>3, AnalysisTyped
    <2> QED
        BY <2>2, <2>3 DEF TerminalRequest
<1>16. CASE CompleteAnalysis
    <2>1. \/ ana' = [ana EXCEPT !.pc = "occurrence"] \/ ana' = NoAna
        BY <1>16 DEF CompleteAnalysis
    <2>2. CASE ana' = [ana EXCEPT !.pc = "occurrence"]
        BY <2>2, AnalysisTyped, JobFields DEF AnaSteps
    <2> QED
        BY <2>1, <2>2, AnalysisTyped
<1>17. CASE TellOccurrence
    BY <1>17, AnalysisTyped DEF TellOccurrence
<1>18. CASE StartFromWindow
    BY <1>18, JobFields DEF StartFromWindow
<1>19. CASE RefreshMaterials
    BY <1>19, JobFields DEF RefreshMaterials
<1>20. ASSUME NEW o \in Occs, DeliverTrigger(o) PROVE ana' \in AnaState
    BY <1>20, JobFields DEF DeliverTrigger
<1>21. ASSUME NEW o \in Occs, TellRunEnded(o) PROVE ana' \in AnaState
    BY <1>21, JobFields DEF TellRunEnded
<1>22. ASSUME NEW i \in DOMAIN run, RunEnds(i) PROVE ana' \in AnaState
    BY <1>22, JobFields DEF RunEnds
<1>23. CASE Restart
    BY <1>23, AnalysisTyped DEF Restart, JobRestart
<1>24. CASE UNCHANGED <<jobVars, sched>>
    BY <1>24, JobFields DEF jobVars
<1> HIDE DEF AnaFrame
<1> QED
    BY <1>1, <1>2, <1>3, <1>4, <1>5, <1>6, <1>7, <1>8, <1>9, <1>10, <1>11, <1>12,
       <1>13, <1>14, <1>15, <1>16, <1>17, <1>18, <1>19, <1>20, <1>21, <1>22,
       <1>23, <1>24, Moves DEF Moved

\* Every step keeps the variables of Jobs in their types.
LEMMA JobTypeStep ==
    JobTypeOK /\ KeysInOrder /\ AnalysisShape /\ [JobsNext]_WholeVars => JobTypeOK'
<1> SUFFICES ASSUME JobTypeOK, KeysInOrder, AnalysisShape, [JobsNext]_WholeVars
             PROVE  JobTypeOK'
    OBVIOUS
<1>1. JobFieldsOK'
    BY JobFieldsStep
<1>2. req' \in [Ids -> Request] /\ ana' \in AnaState
    BY RequestTypeStep, AnalysisTypeStep
<1>3. run' \in [Ids \cup {Window} -> Run] /\ raced' \subseteq DOMAIN run'
    BY RunTypeStep
<1>4. occ' \in [Occs -> {"none", "RECEIVED", "RUN_ENQUEUED"} \cup TerminalOccurrence]
    BY OccurrenceTypeStep
<1> QED
    BY <1>1, <1>2, <1>3, <1>4 DEF JobFieldsOK, JobTypeOK

-----------------------------------------------------------------------------
(* The invariants of the job, one by one.                                  *)

\* Only a command changes the job, its receipts and its schedule.
CommandMoved ==
    \E k \in Keys, kind \in Kinds, fresh \in BOOLEAN :
       \/ /\ Accept(k, kind, fresh)
          /\ \/ ArchiveJob(kind) \/ DeleteJob(kind) \/ ReactivateJob(k, kind)
             \/ UpdateJob(k, kind) \/ CheckBackup(k, kind) \/ ConfigureSchedule(kind)
       \/ Refuse(k, kind, fresh)
\* Only commands change the job, the receipts and the schedule.
LEMMA OnlyCommands ==
    JobTypeOK /\ [JobsNext]_WholeVars => CommandMoved \/ UNCHANGED <<job, rcpt, sched>>
  BY Moves DEF Moved, CommandMoved, Resend, EnqueueAfterEdit, ClaimAnalysis, LookAtRuns,
     ScanAndSeal, HashAndPlan, SealPlan, SafeStart, CompleteAnalysis, TellOccurrence,
     AnaFrame, StartFromWindow, RefreshMaterials, DeliverTrigger, TellRunEnded, RunEnds,
     Restart, JobRestart, ScheduleRestart, schedVars, jobVars

\* The next key is the first one without a receipt.
LEMMA ReceiptsGrow ==
    ASSUME JobTypeOK, KeysInOrder,
           \E k \in Keys : /\ (\E kind \in Kinds, fresh \in BOOLEAN :
                                  Accept(k, kind, fresh) \/ Refuse(k, kind, fresh))
                           /\ job'.rev \in {job.rev, job.rev + 1}
                           /\ job'.content <= job'.rev
    PROVE  KeysInOrder'
<1>1. PICK k \in Keys : /\ NextKey(k) /\ rcpt'[k] # "none"
                        /\ \A l \in Keys \ {k} : rcpt'[l] = rcpt[l]
                        /\ job'.rev \in {job.rev, job.rev + 1} /\ job'.content <= job'.rev
    BY DEF Accept, Refuse, JobTypeOK
<1>2. job.rev \in Nat /\ job.rev <= k /\ k \in Nat
    BY <1>1, JobFields, Bounds DEF KeysInOrder, NextKey, Keys
<1>3. ASSUME NEW m \in Keys, rcpt'[m] = "none" PROVE m > k /\ rcpt[m] = "none"
    <2>1. m # k /\ rcpt[m] = "none"
        BY <1>1, <1>3
    <2>2. \A j \in 1..(k - 1) : rcpt[j] # "none"
        BY <1>1 DEF NextKey
    <2> QED
        BY <1>2, <2>1, <2>2 DEF Keys
<1>4. ASSUME NEW m \in Keys, rcpt'[m] = "none", NEW l \in Keys, m <= l PROVE rcpt'[l] = "none"
    <2>1. m > k /\ rcpt[m] = "none"
        BY <1>3, <1>4
    <2>2. rcpt[l] = "none"
        BY <1>4, <2>1 DEF KeysInOrder
    <2>3. l # k
        BY <1>2, <1>4, <2>1 DEF Keys
    <2> QED
        BY <1>1, <2>2, <2>3
<1>5. ASSUME NEW m \in Keys, rcpt'[m] = "none" PROVE job'.rev <= m
    <2>1. m > k /\ m \in Nat
        BY <1>3, <1>5 DEF Keys
    <2> QED
        BY <1>1, <1>2, <2>1
<1> QED
    BY <1>1, <1>4, <1>5 DEF KeysInOrder

\* Each key makes at most one revision.
LEMMA KeysStep ==
    ASSUME JobTypeOK, KeysInOrder, [JobsNext]_WholeVars
    PROVE  KeysInOrder'
<1>1. ASSUME NEW k \in Keys, NEW kind \in Kinds, NEW fresh \in BOOLEAN,
             Accept(k, kind, fresh), ArchiveJob(kind)
      PROVE  KeysInOrder'
    <2>1. job'.rev \in {job.rev, job.rev + 1} /\ job'.content <= job'.rev
        BY <1>1, JobFields DEF ArchiveJob, Job, Revs, KeysInOrder
    <2> QED
        BY <1>1, <2>1, ReceiptsGrow
<1>2. ASSUME NEW k \in Keys, NEW kind \in Kinds, NEW fresh \in BOOLEAN,
             Accept(k, kind, fresh), DeleteJob(kind)
      PROVE  KeysInOrder'
    <2>1. job'.rev \in {job.rev, job.rev + 1} /\ job'.content <= job'.rev
        BY <1>2, JobFields DEF DeleteJob, Job, Revs, KeysInOrder
    <2> QED
        BY <1>2, <2>1, ReceiptsGrow
<1>3. ASSUME NEW k \in Keys, NEW kind \in Kinds, NEW fresh \in BOOLEAN,
             Accept(k, kind, fresh), ReactivateJob(k, kind)
      PROVE  KeysInOrder'
    <2>1. job'.rev \in {job.rev, job.rev + 1} /\ job'.content <= job'.rev
        BY <1>3, JobFields DEF ReactivateJob, Job, Revs, KeysInOrder
    <2> QED
        BY <1>3, <2>1, ReceiptsGrow
<1>4. ASSUME NEW k \in Keys, NEW kind \in Kinds, NEW fresh \in BOOLEAN,
             Accept(k, kind, fresh), UpdateJob(k, kind)
      PROVE  KeysInOrder'
    <2>1. job'.rev \in {job.rev, job.rev + 1} /\ job'.content <= job'.rev
        BY <1>4, JobFields DEF UpdateJob, Job, Revs, KeysInOrder
    <2> QED
        BY <1>4, <2>1, ReceiptsGrow
<1>5. ASSUME NEW k \in Keys, NEW kind \in Kinds, NEW fresh \in BOOLEAN,
             Accept(k, kind, fresh), CheckBackup(k, kind)
      PROVE  KeysInOrder'
    <2>1. job'.rev \in {job.rev, job.rev + 1} /\ job'.content <= job'.rev
        BY <1>5, JobFields DEF CheckBackup, Job, Revs, KeysInOrder
    <2> QED
        BY <1>5, <2>1, ReceiptsGrow
<1>6. ASSUME NEW k \in Keys, NEW kind \in Kinds, NEW fresh \in BOOLEAN,
             Accept(k, kind, fresh), ConfigureSchedule(kind)
      PROVE  KeysInOrder'
    <2>1. job'.rev \in {job.rev, job.rev + 1} /\ job'.content <= job'.rev
        BY <1>6, JobFields DEF ConfigureSchedule, Job, Revs, KeysInOrder
    <2> QED
        BY <1>6, <2>1, ReceiptsGrow
<1>7. ASSUME NEW k \in Keys, NEW kind \in Kinds, NEW fresh \in BOOLEAN,
             Refuse(k, kind, fresh)
      PROVE  KeysInOrder'
    <2>1. job'.rev \in {job.rev, job.rev + 1} /\ job'.content <= job'.rev
        BY <1>7, JobFields DEF Refuse, Job, Revs, KeysInOrder
    <2> QED
        BY <1>7, <2>1, ReceiptsGrow
<1>8. CASE UNCHANGED <<job, rcpt, sched>>
    BY <1>8 DEF KeysInOrder
<1> QED
    BY <1>1, <1>2, <1>3, <1>4, <1>5, <1>6, <1>7, <1>8,
       OnlyCommands DEF CommandMoved

\* A disabled schedule is off.
LEMMA DisabledOff == SchedTypeOK => ~Disabled(sched).on
  BY DEF SchedTypeOK, Schedule, Disabled

\* An enabled schedule is for what the job backs up now.
LEMMA MatchesStep ==
    ASSUME SchedTypeOK, JobTypeOK, ScheduleMatchesContent, [JobsNext]_WholeVars
    PROVE  ScheduleMatchesContent'
<1> USE DEF ScheduleMatchesContent
<1>1. ASSUME NEW k \in Keys, NEW kind \in Kinds, NEW fresh \in BOOLEAN,
             Accept(k, kind, fresh), ArchiveJob(kind)
      PROVE  ScheduleMatchesContent'
    BY <1>1, JobFields, ScheduleFields, DisabledOff DEF ArchiveJob, Job
<1>2. ASSUME NEW k \in Keys, NEW kind \in Kinds, NEW fresh \in BOOLEAN,
             Accept(k, kind, fresh), DeleteJob(kind)
      PROVE  ScheduleMatchesContent'
    BY <1>2, JobFields, ScheduleFields, DisabledOff DEF DeleteJob, Job
<1>3. ASSUME NEW k \in Keys, NEW kind \in Kinds, NEW fresh \in BOOLEAN,
             Accept(k, kind, fresh), ReactivateJob(k, kind)
      PROVE  ScheduleMatchesContent'
    BY <1>3, JobFields, ScheduleFields, DisabledOff DEF ReactivateJob, Job
<1>4. ASSUME NEW k \in Keys, NEW kind \in Kinds, NEW fresh \in BOOLEAN,
             Accept(k, kind, fresh), UpdateJob(k, kind)
      PROVE  ScheduleMatchesContent'
    BY <1>4, JobFields, ScheduleFields, DisabledOff DEF UpdateJob, Job
<1>5. ASSUME NEW k \in Keys, NEW kind \in Kinds, NEW fresh \in BOOLEAN,
             Accept(k, kind, fresh), CheckBackup(k, kind)
      PROVE  ScheduleMatchesContent'
    BY <1>5, JobFields, ScheduleFields, DisabledOff DEF CheckBackup, Job
<1>6. ASSUME NEW k \in Keys, NEW kind \in Kinds, NEW fresh \in BOOLEAN,
             Accept(k, kind, fresh), ConfigureSchedule(kind)
      PROVE  ScheduleMatchesContent'
    BY <1>6, JobFields DEF ConfigureSchedule, Configured, Accept, Allowed, ScheduleAllowed
<1>7. ASSUME NEW k \in Keys, NEW kind \in Kinds, NEW fresh \in BOOLEAN,
             Refuse(k, kind, fresh)
      PROVE  ScheduleMatchesContent'
    BY <1>7 DEF Refuse, schedVars
<1>8. CASE UNCHANGED <<job, rcpt, sched>>
    BY <1>8
<1> HIDE DEF ScheduleMatchesContent
<1> QED
    BY <1>1, <1>2, <1>3, <1>4, <1>5, <1>6, <1>7, <1>8,
       OnlyCommands DEF CommandMoved

\* A request that was made stays made, and one that has ended stays as it is.
RequestsOnward ==
    \A i \in Ids : /\ req[i].st # "none" => req'[i].st # "none" /\ req'[i].auto = req[i].auto
                   /\ req[i].st \in TerminalRequest => req'[i] = req[i]

\* Enqueueing and blocking move requests forward only.
LEMMA RequestsForward ==
    ASSUME JobTypeOK
    PROVE  /\ \A i \in Ids, auto \in BOOLEAN : req' = Enqueued(i, auto) => RequestsOnward
           /\ req' = BlockedRequests => RequestsOnward
           /\ req' = Requeued => RequestsOnward
<1>1. ASSUME NEW i \in Ids, NEW auto \in BOOLEAN, req' = Enqueued(i, auto) PROVE RequestsOnward
    <2>1. CASE req[i].st = "none"
        <3>1. \A l \in Ids \ {i} : req'[l] = req[l]
            BY <1>1, <2>1 DEF Enqueued, JobTypeOK
        <3> QED
            BY <2>1, <3>1 DEF RequestsOnward, TerminalRequest
    <2>2. CASE req[i].st # "none"
        BY <1>1, <2>2 DEF Enqueued, RequestsOnward
    <2> QED
        BY <2>1, <2>2
<1>2. ASSUME req' = BlockedRequests PROVE RequestsOnward
    BY <1>2 DEF BlockedRequests, JobTypeOK, Request, TerminalRequest, RequestsOnward
<1>3. ASSUME req' = Requeued PROVE RequestsOnward
    BY <1>3 DEF Requeued, JobTypeOK, Request, TerminalRequest, RequestsOnward
<1> QED
    BY <1>1, <1>2, <1>3

\* Every step does so.
LEMMA RequestsMove ==
    ASSUME JobTypeOK, AnalysisShape, [JobsNext]_WholeVars
    PROVE  RequestsOnward
<1> USE DEF AnaFrame
<1>1. ASSUME NEW k \in Keys, NEW kind \in Kinds, NEW fresh \in BOOLEAN,
             Accept(k, kind, fresh), ArchiveJob(kind)
      PROVE  RequestsOnward
    BY <1>1, RequestsForward DEF ArchiveJob
<1>2. ASSUME NEW k \in Keys, NEW kind \in Kinds, NEW fresh \in BOOLEAN,
             Accept(k, kind, fresh), DeleteJob(kind)
      PROVE  RequestsOnward
    BY <1>2, RequestsForward DEF DeleteJob
<1>3. ASSUME NEW k \in Keys, NEW kind \in Kinds, NEW fresh \in BOOLEAN,
             Accept(k, kind, fresh), ReactivateJob(k, kind)
      PROVE  RequestsOnward
    BY <1>3, Bounds, RequestsForward DEF ReactivateJob
<1>4. ASSUME NEW k \in Keys, NEW kind \in Kinds, NEW fresh \in BOOLEAN,
             Accept(k, kind, fresh), UpdateJob(k, kind)
      PROVE  RequestsOnward
    BY <1>4 DEF RequestsOnward, UpdateJob
<1>5. ASSUME NEW k \in Keys, NEW kind \in Kinds, NEW fresh \in BOOLEAN,
             Accept(k, kind, fresh), CheckBackup(k, kind)
      PROVE  RequestsOnward
    BY <1>5, Bounds, RequestsForward DEF CheckBackup
<1>6. ASSUME NEW k \in Keys, NEW kind \in Kinds, NEW fresh \in BOOLEAN,
             Accept(k, kind, fresh), ConfigureSchedule(kind)
      PROVE  RequestsOnward
    BY <1>6 DEF RequestsOnward, ConfigureSchedule
<1>7. ASSUME NEW k \in Keys, NEW kind \in Kinds, NEW fresh \in BOOLEAN,
             Refuse(k, kind, fresh)
      PROVE  RequestsOnward
    BY <1>7 DEF RequestsOnward, Refuse
<1>8. ASSUME NEW k \in Keys, Resend(k) PROVE RequestsOnward
    BY <1>8 DEF RequestsOnward, Resend
<1>9. CASE EnqueueAfterEdit
    <2>1. post \in Ids
        BY <1>9, Bounds DEF EnqueueAfterEdit, JobTypeOK
    <2>2. CASE req' = req
        BY <2>2 DEF RequestsOnward
    <2>3. CASE req' = Enqueued(post, FALSE)
        BY <2>1, <2>3, RequestsForward
    <2> QED
        BY <1>9, <2>2, <2>3 DEF EnqueueAfterEdit
<1>10. ASSUME NEW i \in Ids, ClaimAnalysis(i) PROVE RequestsOnward
    BY <1>10 DEF RequestsOnward, ClaimAnalysis, Claimable, JobTypeOK, Request, TerminalRequest
<1>11. CASE LookAtRuns
    BY <1>11 DEF RequestsOnward, LookAtRuns
<1>12. CASE ScanAndSeal
    BY <1>12 DEF RequestsOnward, ScanAndSeal
<1>13. CASE HashAndPlan
    BY <1>13 DEF RequestsOnward, HashAndPlan
<1>14. CASE SealPlan
    BY <1>14 DEF RequestsOnward, SealPlan
<1>15. CASE SafeStart
    BY <1>15 DEF RequestsOnward, SafeStart
<1>16. CASE CompleteAnalysis
    <2>1. ana.q \in Ids /\ ana.out \in TerminalRequest
        BY <1>16 DEF CompleteAnalysis, AnalysisShape
    <2> QED
        BY <1>16, <2>1 DEF RequestsOnward, CompleteAnalysis, JobTypeOK, Request, TerminalRequest
<1>17. CASE TellOccurrence
    BY <1>17 DEF RequestsOnward, TellOccurrence
<1>18. CASE StartFromWindow
    BY <1>18 DEF RequestsOnward, StartFromWindow
<1>19. CASE RefreshMaterials
    BY <1>19 DEF RequestsOnward, RefreshMaterials
<1>20. ASSUME NEW o \in Occs, DeliverTrigger(o) PROVE RequestsOnward
    BY <1>20, Bounds, RequestsForward DEF DeliverTrigger
<1>21. ASSUME NEW o \in Occs, TellRunEnded(o) PROVE RequestsOnward
    BY <1>21 DEF RequestsOnward, TellRunEnded
<1>22. ASSUME NEW i \in DOMAIN run, RunEnds(i) PROVE RequestsOnward
    BY <1>22 DEF RequestsOnward, RunEnds
<1>23. CASE Restart
    BY <1>23, RequestsForward DEF Restart, JobRestart
<1>24. CASE UNCHANGED <<jobVars, sched>>
    BY <1>24 DEF RequestsOnward, jobVars
<1> HIDE DEF AnaFrame
<1> QED
    BY <1>1, <1>2, <1>3, <1>4, <1>5, <1>6, <1>7, <1>8, <1>9, <1>10, <1>11, <1>12,
       <1>13, <1>14, <1>15, <1>16, <1>17, <1>18, <1>19, <1>20, <1>21, <1>22,
       <1>23, <1>24, Moves DEF Moved

\* What works on checks, runs and occurrences.
AnaWork ==
    \/ \E i \in Ids : ClaimAnalysis(i)
    \/ LookAtRuns \/ ScanAndSeal \/ HashAndPlan \/ SealPlan
    \/ SafeStart \/ CompleteAnalysis \/ TellOccurrence \/ StartFromWindow
    \/ \E o \in Occs : DeliverTrigger(o) \/ TellRunEnded(o)
    \/ \E i \in DOMAIN run : RunEnds(i)
    \/ Restart
\* Only the work on requests changes runs, occurrences and the analysis.
LEMMA OnlyWork ==
    JobTypeOK /\ [JobsNext]_WholeVars => AnaWork \/ UNCHANGED <<run, occ, ana, raced>>
<1> SUFFICES ASSUME Moved PROVE AnaWork \/ UNCHANGED <<run, occ, ana, raced>>
    BY Moves
<1>1. ASSUME NEW k \in Keys, NEW kind \in Kinds, NEW fresh \in BOOLEAN,
             Accept(k, kind, fresh)
      PROVE  UNCHANGED <<run, occ, ana, raced>>
    BY <1>1 DEF Accept, boundVars
<1>2. ASSUME NEW k \in Keys, NEW kind \in Kinds, NEW fresh \in BOOLEAN,
             Refuse(k, kind, fresh)
      PROVE  UNCHANGED <<run, occ, ana, raced>>
    BY <1>2 DEF Refuse, boundVars
<1>3. ASSUME NEW k \in Keys, Resend(k) PROVE UNCHANGED <<run, occ, ana, raced>>
    BY <1>3 DEF Resend, boundVars
<1>4. EnqueueAfterEdit \/ RefreshMaterials => UNCHANGED <<run, occ, ana, raced>>
    BY DEF EnqueueAfterEdit, RefreshMaterials, boundVars
<1>5. UNCHANGED jobVars => UNCHANGED <<run, occ, ana, raced>>
    BY DEF jobVars
<1> QED
    BY <1>1, <1>2, <1>3, <1>4, <1>5 DEF Moved, AnaWork

\* An analysis that is done leaves a request that says so.
LEMMA ShapeWhenDone ==
    ASSUME JobTypeOK, ana.q \in Ids, NEW st \in TerminalRequest, NEW b \in BOOLEAN,
           ana' = Done(ana.q, st, b), run'[ana.q].st = "ACTIVE" => b \/ st = "FAILED"
    PROVE  AnalysisShape'
<1>1. ana'.pc = "complete" /\ ana'.q = ana.q /\ ana'.out = st /\ ana'.run = b
    BY DEF Done
<1> QED
    BY <1>1 DEF AnalysisShape

\* An analysis on its way has an open request and no active run.
LEMMA ShapeOnTheWay ==
    ASSUME ana.q \in Ids, ana'.q = ana.q, ana'.pc \in {"scan", "plan", "seal", "start"},
           run[ana.q].st # "ACTIVE", req[ana.q].st # "none", UNCHANGED <<req, run>>,
           ana'.pc \in {"seal", "start"} => ana'.rev \in Revs,
           ana'.pc = "start" => req[ana.q].auto
    PROVE  AnalysisShape'
  BY DEF AnalysisShape

\* The analysis and its request.
LEMMA AnalysisShapeStep ==
    ASSUME JobTypeOK, AnalysisShape, RequestShape, RequestsOnward, [JobsNext]_WholeVars
    PROVE  AnalysisShape'
<1> USE DEF AnalysisShape, RequestShape, RequestsOnward, JobTypeOK, AnaState,
           Request, Run, AnaFrame, NoAna, ActiveRuns, boundVars
<1> USE Bounds
<1>1. ASSUME NEW i \in Ids, ClaimAnalysis(i) PROVE AnalysisShape'
    BY <1>1 DEF ClaimAnalysis
<1>2. CASE LookAtRuns
    <2>1. /\ ana.q \in Ids /\ req[ana.q].st # "none" /\ UNCHANGED <<req, run>>
          /\ run[ana.q].st = "ACTIVE" => ana.q \in ActiveRuns /\ req[ana.q].auto
        BY <1>2 DEF LookAtRuns
    <2>2. CASE ActiveRuns = {}
        <3>1. ana' = [ana EXCEPT !.pc = "scan", !.rev = job.rev]
            BY <1>2, <2>2 DEF LookAtRuns
        <3>2. ana'.pc = "scan" /\ ana'.q = ana.q
            BY <3>1
        <3>3. run[ana.q].st # "ACTIVE"
            BY <2>1, <2>2
        <3> HIDE DEF AnalysisShape
        <3> QED
            BY <2>1, <3>2, <3>3, ShapeOnTheWay
    <2>3. CASE ActiveRuns # {}
        <3>1. \/ ana' = Done(ana.q, "SUCCEEDED", TRUE)
              \/ ana' = Done(ana.q, "BLOCKED", FALSE) /\ run[ana.q].st # "ACTIVE"
            BY <1>2, <2>1, <2>3 DEF LookAtRuns
        <3>2. "SUCCEEDED" \in TerminalRequest /\ "BLOCKED" \in TerminalRequest
            BY DEF TerminalRequest
        <3> HIDE DEF AnalysisShape
        <3>3. CASE ana' = Done(ana.q, "SUCCEEDED", TRUE)
            BY <2>1, <3>2, <3>3, ShapeWhenDone
        <3>4. CASE ana' = Done(ana.q, "BLOCKED", FALSE) /\ run[ana.q].st # "ACTIVE"
            BY <2>1, <3>2, <3>4, ShapeWhenDone
        <3> QED
            BY <3>1, <3>3, <3>4
    <2> QED
        BY <2>2, <2>3
<1>3. CASE ScanAndSeal
    <2>1. ASSUME NEW st \in TerminalRequest, NEW b \in BOOLEAN, ana' = Done(ana.q, st, b),
                 run[ana.q].st = "ACTIVE" => b \/ st = "FAILED", run' = run
          PROVE  AnalysisShape'
        <3>1. ana.q \in Ids
            BY <1>3 DEF ScanAndSeal
        <3> QED
            BY <2>1, <3>1, ShapeWhenDone
    <2>2. ASSUME ana' = [ana EXCEPT !.pc = "plan"] PROVE AnalysisShape'
        <3>1. ana'.pc = "plan" /\ ana'.q = ana.q /\ ana'.rev = ana.rev
            BY <2>2
        <3>2. /\ ana.q \in Ids /\ UNCHANGED <<req, run>> /\ run[ana.q].st # "ACTIVE"
              /\ req[ana.q].st # "none"
            BY <1>3 DEF ScanAndSeal
        <3> HIDE DEF AnalysisShape
        <3> QED
            BY <3>1, <3>2, JobFields, ShapeOnTheWay
    <2>3. run' = run /\ run[ana.q].st # "ACTIVE"
        BY <1>3 DEF ScanAndSeal
    <2>4. {"SUCCEEDED", "NO_CHANGES", "BLOCKED", "FAILED"} \subseteq TerminalRequest
        BY DEF TerminalRequest
    <2>5. \/ \E st \in {"SUCCEEDED", "NO_CHANGES", "BLOCKED", "FAILED"} : ana' = Done(ana.q, st, FALSE)
          \/ ana' = [ana EXCEPT !.pc = "plan"]
        BY <1>3 DEF ScanAndSeal
    <2> HIDE DEF AnalysisShape
    <2> QED
        BY <2>1, <2>2, <2>3, <2>4, <2>5
<1>4. CASE HashAndPlan
    <2>1. ASSUME NEW st \in TerminalRequest, NEW b \in BOOLEAN, ana' = Done(ana.q, st, b),
                 run[ana.q].st = "ACTIVE" => b \/ st = "FAILED", run' = run
          PROVE  AnalysisShape'
        <3>1. ana.q \in Ids
            BY <1>4 DEF HashAndPlan
        <3> QED
            BY <2>1, <3>1, ShapeWhenDone
    <2>2. ASSUME ana' = [ana EXCEPT !.pc = "seal", !.rev = job.rev] PROVE AnalysisShape'
        <3>1. ana'.pc = "seal" /\ ana'.q = ana.q /\ ana'.rev = job.rev
            BY <2>2
        <3>2. /\ ana.q \in Ids /\ UNCHANGED <<req, run>> /\ run[ana.q].st # "ACTIVE"
              /\ req[ana.q].st # "none"
            BY <1>4 DEF HashAndPlan
        <3> HIDE DEF AnalysisShape
        <3> QED
            BY <3>1, <3>2, JobFields, ShapeOnTheWay
    <2>3. run' = run /\ run[ana.q].st # "ACTIVE"
        BY <1>4 DEF HashAndPlan
    <2>4. {"SUCCEEDED", "NO_CHANGES", "BLOCKED", "FAILED"} \subseteq TerminalRequest
        BY DEF TerminalRequest
    <2>5. \/ \E st \in {"SUCCEEDED", "NO_CHANGES", "BLOCKED", "FAILED"} : ana' = Done(ana.q, st, FALSE)
          \/ ana' = [ana EXCEPT !.pc = "seal", !.rev = job.rev]
        BY <1>4 DEF HashAndPlan, HashBlocks, PlanCandidate
    <2> HIDE DEF AnalysisShape
    <2> QED
        BY <2>1, <2>2, <2>3, <2>4, <2>5
<1>5. CASE SealPlan
    <2>1. ASSUME NEW st \in TerminalRequest, NEW b \in BOOLEAN, ana' = Done(ana.q, st, b),
                 run[ana.q].st = "ACTIVE" => b \/ st = "FAILED", run' = run
          PROVE  AnalysisShape'
        <3>1. ana.q \in Ids
            BY <1>5 DEF SealPlan
        <3> QED
            BY <2>1, <3>1, ShapeWhenDone
    <2>2. ASSUME ana' = [ana EXCEPT !.pc = "start"] PROVE AnalysisShape'
        <3>1. ana'.pc = "start" /\ ana'.q = ana.q /\ ana'.rev = ana.rev
            BY <2>2
        <3>2. \A st \in TerminalRequest : ana' # Done(ana.q, st, FALSE)
            BY <3>1 DEF Done
        <3>3. ana.q \in Ids /\ UNCHANGED <<req, run>> /\ run[ana.q].st # "ACTIVE"
            BY <1>5 DEF SealPlan
        <3>4. req[ana.q].st # "none" /\ ana.rev \in Revs
            BY <1>5 DEF SealPlan
        <3>5. req[ana.q].auto
            BY <1>5, <3>2 DEF SealPlan, TerminalRequest
        <3> HIDE DEF AnalysisShape
        <3> QED
            BY <3>1, <3>3, <3>4, <3>5, ShapeOnTheWay
    <2>3. run' = run /\ run[ana.q].st # "ACTIVE"
        BY <1>5 DEF SealPlan
    <2>4. {"SUCCEEDED", "NO_CHANGES", "BLOCKED", "FAILED"} \subseteq TerminalRequest
        BY DEF TerminalRequest
    <2>5. \/ \E st \in {"SUCCEEDED", "NO_CHANGES", "BLOCKED", "FAILED"} : ana' = Done(ana.q, st, FALSE)
          \/ ana' = [ana EXCEPT !.pc = "start"]
        BY <1>5 DEF SealPlan
    <2> HIDE DEF AnalysisShape
    <2> QED
        BY <2>1, <2>2, <2>3, <2>4, <2>5
<1>6. CASE SafeStart
    <2>1. ASSUME NEW st \in TerminalRequest, NEW b \in BOOLEAN, ana' = Done(ana.q, st, b),
                 run'[ana.q].st = "ACTIVE" => b \/ st = "FAILED"
          PROVE  AnalysisShape'
        <3>1. ana.q \in Ids
            BY <1>6 DEF SafeStart
        <3> QED
            BY <2>1, <3>1, ShapeWhenDone
    <2>2. ana.q \in Ids /\ run[ana.q].st # "ACTIVE"
        BY <1>6 DEF SafeStart
    <2>3. {"SUCCEEDED", "BLOCKED", "FAILED"} \subseteq TerminalRequest
        BY DEF TerminalRequest
    <2> HIDE DEF AnalysisShape
    <2> QED
        BY <1>6, <2>1, <2>2, <2>3 DEF SafeStart
<1>7. CASE CompleteAnalysis
    <2>1. ana.q \in Ids /\ UNCHANGED <<run, occ>>
        BY <1>7 DEF CompleteAnalysis
    <2>2. CASE ana' = NoAna
        BY <2>2
    <2>3. CASE ana' = [ana EXCEPT !.pc = "occurrence"] /\ ana' # NoAna
        <3>1. ana'.pc = "occurrence" /\ ana'.q = ana.q
            BY <2>3
        <3>2. req[ana.q].st = "RUNNING" /\ ana.q \in Occs
            BY <1>7, <2>3 DEF CompleteAnalysis
        <3>3. req'[ana.q].st = ana.out /\ ana.out \in TerminalRequest
            BY <1>7, <2>1, <3>2 DEF CompleteAnalysis
        <3>4. occ[ana.q] \in {"none", "RECEIVED"}
            BY <3>2 DEF TerminalRequest
        <3> QED
            BY <2>1, <3>1, <3>2, <3>3, <3>4
    <2> QED
        BY <1>7, <2>2, <2>3 DEF CompleteAnalysis
<1>8. CASE TellOccurrence
    BY <1>8 DEF TellOccurrence, OccurrenceOutcome
<1>9. CASE StartFromWindow
    BY <1>9 DEF StartFromWindow
<1>10. ASSUME NEW o \in Occs, DeliverTrigger(o) PROVE AnalysisShape'
    <2>1. UNCHANGED <<run, ana>>
        BY <1>10 DEF DeliverTrigger
    <2>2. \A p \in Occs : occ[p] \in {"none", "RECEIVED"} => occ'[p] \in {"none", "RECEIVED"}
        BY <1>10 DEF DeliverTrigger
    <2> QED
        BY <2>1, <2>2
<1>11. ASSUME NEW o \in Occs, TellRunEnded(o) PROVE AnalysisShape'
    BY <1>11 DEF TellRunEnded
<1>12. ASSUME NEW i \in DOMAIN run, RunEnds(i) PROVE AnalysisShape'
    BY <1>12 DEF RunEnds
<1>13. CASE Restart
    BY <1>13 DEF Restart, JobRestart, ScheduleRestart, RequeueClaims, Requeued
<1>14. CASE UNCHANGED <<run, occ, ana, raced>>
    BY <1>14
<1> HIDE DEF AnalysisShape, RequestShape, RequestsOnward, JobTypeOK
<1> QED
    BY <1>1, <1>2, <1>3, <1>4, <1>5, <1>6, <1>7, <1>8, <1>9, <1>10, <1>11, <1>12,
       <1>13, <1>14, OnlyWork DEF AnaWork

\* Requests, their runs and their occurrences.
LEMMA RequestShapeStep ==
    ASSUME JobTypeOK, AnalysisShape, RequestShape, RequestsOnward, [JobsNext]_WholeVars
    PROVE  RequestShape'
<1> USE DEF AnalysisShape, RequestShape, RequestsOnward, JobTypeOK, Request,
           Run, AnaFrame, Done, ActiveRuns, boundVars
<1> USE Bounds
<1>1. ASSUME NEW i \in Ids, ClaimAnalysis(i) PROVE RequestShape'
    BY <1>1 DEF ClaimAnalysis
<1>2. CASE LookAtRuns
    BY <1>2 DEF LookAtRuns
<1>3. CASE ScanAndSeal
    BY <1>3 DEF ScanAndSeal
<1>4. CASE HashAndPlan
    BY <1>4 DEF HashAndPlan, HashBlocks, PlanCandidate
<1>5. CASE SealPlan
    BY <1>5 DEF SealPlan
<1>6. CASE SafeStart
    BY <1>6 DEF SafeStart
<1>7. CASE CompleteAnalysis
    BY <1>7 DEF CompleteAnalysis
<1>8. CASE TellOccurrence
    BY <1>8 DEF TellOccurrence, OccurrenceOutcome
<1>9. CASE StartFromWindow
    BY <1>9 DEF StartFromWindow
<1>10. ASSUME NEW o \in Occs, DeliverTrigger(o) PROVE RequestShape'
    <2>1. \A p \in Occs : occ'[p] \notin {"none", "RECEIVED"} => occ[p] = occ'[p]
        BY <1>10 DEF DeliverTrigger
    <2> QED
        BY <1>10, <2>1 DEF DeliverTrigger
<1>11. ASSUME NEW o \in Occs, TellRunEnded(o) PROVE RequestShape'
    BY <1>11 DEF TellRunEnded
<1>12. ASSUME NEW i \in DOMAIN run, RunEnds(i) PROVE RequestShape'
    BY <1>12 DEF RunEnds
<1>13. CASE Restart
    BY <1>13 DEF Restart, JobRestart, ScheduleRestart, RequeueClaims, Requeued
<1>14. CASE UNCHANGED <<run, occ, ana, raced>>
    BY <1>14
<1> HIDE DEF AnalysisShape, RequestShape, RequestsOnward, JobTypeOK
<1> QED
    BY <1>1, <1>2, <1>3, <1>4, <1>5, <1>6, <1>7, <1>8, <1>9, <1>10, <1>11, <1>12,
       <1>13, <1>14, OnlyWork DEF AnaWork

\* An archived job stays quiet.
LEMMA ArchivedStep ==
    ASSUME JobTypeOK, SchedTypeOK, AnalysisShape, ArchivedIsQuiet, [JobsNext]_WholeVars
    PROVE  ArchivedIsQuiet'
<1> USE DEF ArchivedIsQuiet, schedVars, JobTypeOK, Job, Request, Run, Active,
           ActiveRuns, AnaFrame, boundVars
<1> USE Bounds
<1>1. ASSUME NEW k \in Keys, NEW kind \in Kinds, NEW fresh \in BOOLEAN,
             Accept(k, kind, fresh), ArchiveJob(kind)
      PROVE  ArchivedIsQuiet'
    BY <1>1, DisabledOff DEF ArchiveJob, BlockedRequests, Accept, Allowed, ArchiveAllowed
<1>2. ASSUME NEW k \in Keys, NEW kind \in Kinds, NEW fresh \in BOOLEAN,
             Accept(k, kind, fresh), DeleteJob(kind)
      PROVE  ArchivedIsQuiet'
    BY <1>2, DisabledOff DEF DeleteJob, BlockedRequests, Accept, Allowed, DeleteAllowed
<1>3. ASSUME NEW k \in Keys, NEW kind \in Kinds, NEW fresh \in BOOLEAN,
             Accept(k, kind, fresh), ReactivateJob(k, kind)
      PROVE  ArchivedIsQuiet'
    BY <1>3 DEF Accept, Wanted, Allowed, ReactivateJob, ReactivateAllowed,
       Enqueued, NewReq
<1>4. ASSUME NEW k \in Keys, NEW kind \in Kinds, NEW fresh \in BOOLEAN,
             Accept(k, kind, fresh), UpdateJob(k, kind)
      PROVE  ArchivedIsQuiet'
    BY <1>4 DEF Accept, Wanted, Allowed, UpdateJob, EditAllowed
<1>5. ASSUME NEW k \in Keys, NEW kind \in Kinds, NEW fresh \in BOOLEAN,
             Accept(k, kind, fresh), CheckBackup(k, kind)
      PROVE  ArchivedIsQuiet'
    BY <1>5 DEF Accept, Wanted, Allowed, CheckBackup, CheckAllowed, Enqueued,
       NewReq
<1>6. ASSUME NEW k \in Keys, NEW kind \in Kinds, NEW fresh \in BOOLEAN,
             Accept(k, kind, fresh), ConfigureSchedule(kind)
      PROVE  ArchivedIsQuiet'
    BY <1>6 DEF Accept, Wanted, Allowed, ConfigureSchedule, ScheduleAllowed,
       Configured
<1>7. ASSUME NEW k \in Keys, NEW kind \in Kinds, NEW fresh \in BOOLEAN,
             Refuse(k, kind, fresh)
      PROVE  ArchivedIsQuiet'
    BY <1>7 DEF Refuse, schedVars
<1>8. ASSUME NEW k \in Keys, Resend(k) PROVE ArchivedIsQuiet'
    BY <1>8 DEF Resend, schedVars
<1>9. CASE EnqueueAfterEdit
    <2>1. post \in Ids
        BY <1>9 DEF EnqueueAfterEdit
    <2>2. CASE req' = req
        BY <1>9, <2>2 DEF EnqueueAfterEdit
    <2>3. CASE req' = Enqueued(post, FALSE)
        BY <1>9, <2>1, <2>3 DEF EnqueueAfterEdit, Enqueued, NewReq
    <2> QED
        BY <1>9, <2>2, <2>3 DEF EnqueueAfterEdit
<1>10. ASSUME NEW i \in Ids, ClaimAnalysis(i) PROVE ArchivedIsQuiet'
    BY <1>10 DEF ClaimAnalysis, Claimable
<1>11. CASE LookAtRuns
    BY <1>11 DEF LookAtRuns
<1>12. CASE ScanAndSeal
    BY <1>12 DEF ScanAndSeal
<1>13. CASE HashAndPlan
    BY <1>13 DEF HashAndPlan, HashBlocks, PlanCandidate
<1>14. CASE SealPlan
    BY <1>14 DEF SealPlan
<1>15. CASE SafeStart
    <2>1. ana.q \in Ids /\ UNCHANGED <<req, job, sched>>
        BY <1>15 DEF SafeStart, AnalysisShape
    <2>2. CASE UNCHANGED <<run, raced>>
        BY <2>1, <2>2
    <2>3. CASE /\ run' = [run EXCEPT ![ana.q] = [st |-> "ACTIVE", rev |-> ana.rev]]
               /\ raced' = IF req[ana.q].st = "RUNNING" /\ job.rev = ana.rev
                           THEN raced ELSE raced \cup {ana.q}
        <3>1. ~Active => ActiveRuns' \subseteq ActiveRuns \cup {ana.q} /\ raced' = raced \cup {ana.q}
            BY <2>1, <2>3
        <3> QED
            BY <2>1, <3>1
    <2> QED
        BY <1>15, <2>2, <2>3 DEF SafeStart
<1>16. CASE CompleteAnalysis
    <2>1. ana.q \in Ids /\ ana.out # "RUNNING"
        BY <1>16 DEF CompleteAnalysis, AnalysisShape, TerminalRequest
    <2>2. \A i \in Ids : req'[i].st = "RUNNING" => req[i].st = "RUNNING"
        BY <1>16, <2>1 DEF CompleteAnalysis
    <2> QED
        BY <1>16, <2>2 DEF CompleteAnalysis
<1>17. CASE TellOccurrence
    BY <1>17 DEF TellOccurrence, OccurrenceOutcome
<1>18. CASE StartFromWindow
    BY <1>18 DEF StartFromWindow, schedVars
<1>19. CASE RefreshMaterials
    BY <1>19 DEF RefreshMaterials
<1>20. ASSUME NEW o \in Occs, DeliverTrigger(o) PROVE ArchivedIsQuiet'
    BY <1>20 DEF DeliverTrigger, Enqueued, NewReq, TriggerReady
<1>21. ASSUME NEW o \in Occs, TellRunEnded(o) PROVE ArchivedIsQuiet'
    BY <1>21 DEF TellRunEnded
<1>22. ASSUME NEW i \in DOMAIN run, RunEnds(i) PROVE ArchivedIsQuiet'
    BY <1>22 DEF RunEnds, schedVars
<1>23. CASE Restart
    BY <1>23 DEF Restart, JobRestart, ScheduleRestart, RequeueClaims, Requeued,
       Requeued, schedVars
<1>24. CASE UNCHANGED <<jobVars, sched>>
    BY <1>24 DEF jobVars
<1> HIDE DEF ArchivedIsQuiet, JobTypeOK
<1> QED
    BY <1>1, <1>2, <1>3, <1>4, <1>5, <1>6, <1>7, <1>8, <1>9, <1>10, <1>11, <1>12,
       <1>13, <1>14, <1>15, <1>16, <1>17, <1>18, <1>19, <1>20, <1>21, <1>22,
       <1>23, <1>24, Moves DEF Moved

\* A run works on what the job is.
LEMMA ContentStep ==
    ASSUME JobTypeOK, KeysInOrder, RunsCurrentContent, AnalysisShape, [JobsNext]_WholeVars
    PROVE  RunsCurrentContent'
<1> USE DEF RunsCurrentContent, JobTypeOK, Job, Request, Run, Active,
           ActiveRuns, AnaFrame, boundVars
<1> USE Bounds
<1>1. ASSUME NEW k \in Keys, NEW kind \in Kinds, NEW fresh \in BOOLEAN,
             Accept(k, kind, fresh), ArchiveJob(kind)
      PROVE  RunsCurrentContent'
    BY <1>1 DEF Accept, Wanted, Allowed, ArchiveJob, ArchiveAllowed
<1>2. ASSUME NEW k \in Keys, NEW kind \in Kinds, NEW fresh \in BOOLEAN,
             Accept(k, kind, fresh), DeleteJob(kind)
      PROVE  RunsCurrentContent'
    BY <1>2 DEF Accept, Wanted, Allowed, DeleteJob, DeleteAllowed
<1>3. ASSUME NEW k \in Keys, NEW kind \in Kinds, NEW fresh \in BOOLEAN,
             Accept(k, kind, fresh), ReactivateJob(k, kind)
      PROVE  RunsCurrentContent'
    BY <1>3 DEF Accept, Wanted, Allowed, ReactivateJob, ReactivateAllowed
<1>4. ASSUME NEW k \in Keys, NEW kind \in Kinds, NEW fresh \in BOOLEAN,
             Accept(k, kind, fresh), UpdateJob(k, kind)
      PROVE  RunsCurrentContent'
    BY <1>4 DEF Accept, Wanted, Allowed, UpdateJob, EditAllowed
<1>5. ASSUME NEW k \in Keys, NEW kind \in Kinds, NEW fresh \in BOOLEAN,
             Accept(k, kind, fresh), CheckBackup(k, kind)
      PROVE  RunsCurrentContent'
    BY <1>5 DEF Accept, Wanted, Allowed, CheckBackup, CheckAllowed
<1>6. ASSUME NEW k \in Keys, NEW kind \in Kinds, NEW fresh \in BOOLEAN,
             Accept(k, kind, fresh), ConfigureSchedule(kind)
      PROVE  RunsCurrentContent'
    BY <1>6 DEF Accept, Wanted, Allowed, ConfigureSchedule, ScheduleAllowed,
       Configured
<1>7. ASSUME NEW k \in Keys, NEW kind \in Kinds, NEW fresh \in BOOLEAN,
             Refuse(k, kind, fresh)
      PROVE  RunsCurrentContent'
    BY <1>7 DEF Refuse
<1>8. ASSUME NEW k \in Keys, Resend(k) PROVE RunsCurrentContent'
    BY <1>8 DEF Resend
<1>9. CASE EnqueueAfterEdit
    BY <1>9 DEF EnqueueAfterEdit
<1>10. ASSUME NEW i \in Ids, ClaimAnalysis(i) PROVE RunsCurrentContent'
    BY <1>10 DEF ClaimAnalysis
<1>11. CASE LookAtRuns
    BY <1>11 DEF LookAtRuns
<1>12. CASE ScanAndSeal
    BY <1>12 DEF ScanAndSeal
<1>13. CASE HashAndPlan
    BY <1>13 DEF HashAndPlan, HashBlocks, PlanCandidate
<1>14. CASE SealPlan
    BY <1>14 DEF SealPlan
<1>15. CASE SafeStart
    <2>1. ana.q \in Ids /\ ana.rev \in Revs /\ job.content <= job.rev
        BY <1>15 DEF SafeStart, AnalysisShape, KeysInOrder
    <2>2. CASE UNCHANGED <<run, raced>>
        BY <1>15, <2>2 DEF SafeStart
    <2>3. CASE /\ run' = [run EXCEPT ![ana.q] = [st |-> "ACTIVE", rev |-> ana.rev]]
               /\ raced' = IF req[ana.q].st = "RUNNING" /\ job.rev = ana.rev
                           THEN raced ELSE raced \cup {ana.q}
        <3>1. job' = job
            BY <1>15 DEF SafeStart
        <3>2. \A i \in ActiveRuns' : i = ana.q \/ (i \in ActiveRuns /\ run'[i] = run[i])
            BY <2>1, <2>3
        <3>3. run'[ana.q].rev = ana.rev
            BY <2>1, <2>3
        <3> QED
            BY <2>1, <2>3, <3>1, <3>2, <3>3
    <2> QED
        BY <1>15, <2>2, <2>3 DEF SafeStart
<1>16. CASE CompleteAnalysis
    BY <1>16 DEF CompleteAnalysis
<1>17. CASE TellOccurrence
    BY <1>17 DEF TellOccurrence, OccurrenceOutcome
<1>18. CASE StartFromWindow
    BY <1>18 DEF StartFromWindow, KeysInOrder, Revs
<1>19. CASE RefreshMaterials
    BY <1>19 DEF RefreshMaterials
<1>20. ASSUME NEW o \in Occs, DeliverTrigger(o) PROVE RunsCurrentContent'
    BY <1>20 DEF DeliverTrigger
<1>21. ASSUME NEW o \in Occs, TellRunEnded(o) PROVE RunsCurrentContent'
    BY <1>21 DEF TellRunEnded
<1>22. ASSUME NEW i \in DOMAIN run, RunEnds(i) PROVE RunsCurrentContent'
    BY <1>22 DEF RunEnds
<1>23. CASE Restart
    BY <1>23 DEF Restart, JobRestart, ScheduleRestart, RequeueClaims, Requeued
<1>24. CASE UNCHANGED <<jobVars, sched>>
    BY <1>24 DEF jobVars
<1> HIDE DEF RunsCurrentContent, JobTypeOK
<1> QED
    BY <1>1, <1>2, <1>3, <1>4, <1>5, <1>6, <1>7, <1>8, <1>9, <1>10, <1>11, <1>12,
       <1>13, <1>14, <1>15, <1>16, <1>17, <1>18, <1>19, <1>20, <1>21, <1>22,
       <1>23, <1>24, Moves DEF Moved

\* A run that a check has started is found again.
LEMMA RecordedStep ==
    ASSUME JobTypeOK, AnalysisShape, RequestShape, RequestsOnward, StartIsRecorded, [JobsNext]_WholeVars
    PROVE  StartIsRecorded'
<1> USE DEF StartIsRecorded, TerminalRequest, JobTypeOK, Job, Request, Run,
           Active, ActiveRuns, AnaFrame, boundVars
<1> USE Bounds
<1>1. ASSUME NEW k \in Keys, NEW kind \in Kinds, NEW fresh \in BOOLEAN,
             Accept(k, kind, fresh), ArchiveJob(kind)
      PROVE  StartIsRecorded'
    BY <1>1 DEF Accept, Wanted, Allowed, ArchiveJob, ArchiveAllowed,
       BlockedRequests
<1>2. ASSUME NEW k \in Keys, NEW kind \in Kinds, NEW fresh \in BOOLEAN,
             Accept(k, kind, fresh), DeleteJob(kind)
      PROVE  StartIsRecorded'
    BY <1>2 DEF Accept, Wanted, Allowed, DeleteJob, DeleteAllowed,
       BlockedRequests
<1>3. ASSUME NEW k \in Keys, NEW kind \in Kinds, NEW fresh \in BOOLEAN,
             Accept(k, kind, fresh), ReactivateJob(k, kind)
      PROVE  StartIsRecorded'
    BY <1>3 DEF Accept, Wanted, Allowed, ReactivateJob, ReactivateAllowed,
       Enqueued, NewReq
<1>4. ASSUME NEW k \in Keys, NEW kind \in Kinds, NEW fresh \in BOOLEAN,
             Accept(k, kind, fresh), UpdateJob(k, kind)
      PROVE  StartIsRecorded'
    BY <1>4 DEF Accept, Wanted, Allowed, UpdateJob, EditAllowed
<1>5. ASSUME NEW k \in Keys, NEW kind \in Kinds, NEW fresh \in BOOLEAN,
             Accept(k, kind, fresh), CheckBackup(k, kind)
      PROVE  StartIsRecorded'
    BY <1>5 DEF Accept, Wanted, Allowed, CheckBackup, CheckAllowed, Enqueued,
       NewReq
<1>6. ASSUME NEW k \in Keys, NEW kind \in Kinds, NEW fresh \in BOOLEAN,
             Accept(k, kind, fresh), ConfigureSchedule(kind)
      PROVE  StartIsRecorded'
    BY <1>6 DEF Accept, Wanted, Allowed, ConfigureSchedule, ScheduleAllowed,
       Configured
<1>7. ASSUME NEW k \in Keys, NEW kind \in Kinds, NEW fresh \in BOOLEAN,
             Refuse(k, kind, fresh)
      PROVE  StartIsRecorded'
    BY <1>7 DEF Refuse
<1>8. ASSUME NEW k \in Keys, Resend(k) PROVE StartIsRecorded'
    BY <1>8 DEF Resend
<1>9. CASE EnqueueAfterEdit
    <2>1. post \in Ids
        BY <1>9 DEF EnqueueAfterEdit
    <2>2. CASE req' = req
        BY <1>9, <2>2 DEF EnqueueAfterEdit
    <2>3. CASE req' = Enqueued(post, FALSE)
        BY <1>9, <2>1, <2>3 DEF EnqueueAfterEdit, Enqueued, NewReq
    <2> QED
        BY <1>9, <2>2, <2>3 DEF EnqueueAfterEdit
<1>10. ASSUME NEW i \in Ids, ClaimAnalysis(i) PROVE StartIsRecorded'
    BY <1>10 DEF ClaimAnalysis, RequestShape, AnalysisShape
<1>11. CASE LookAtRuns
    BY <1>11 DEF LookAtRuns
<1>12. CASE ScanAndSeal
    BY <1>12 DEF ScanAndSeal
<1>13. CASE HashAndPlan
    BY <1>13 DEF HashAndPlan, HashBlocks, PlanCandidate
<1>14. CASE SealPlan
    BY <1>14 DEF SealPlan
<1>15. CASE SafeStart
    <2>1. ana.q \in Ids /\ req' = req
        BY <1>15 DEF SafeStart, AnalysisShape
    <2>2. CASE UNCHANGED <<run, raced>>
        BY <2>1, <2>2
    <2>3. CASE /\ run' = [run EXCEPT ![ana.q] = [st |-> "ACTIVE", rev |-> ana.rev]]
               /\ raced' = IF req[ana.q].st = "RUNNING" /\ job.rev = ana.rev
                           THEN raced ELSE raced \cup {ana.q}
        <3>1. \A i \in ActiveRuns' : i = ana.q \/ i \in ActiveRuns
            BY <2>1, <2>3
        <3>2. ana.q \notin raced' => req[ana.q].st = "RUNNING"
            BY <2>3
        <3> QED
            BY <2>1, <2>3, <3>1, <3>2
    <2> QED
        BY <1>15, <2>2, <2>3 DEF SafeStart
<1>16. CASE CompleteAnalysis
    <2>1. ana.q \in Ids /\ UNCHANGED <<run, raced>>
        BY <1>16 DEF CompleteAnalysis, AnalysisShape
    <2>2. CASE req' = req
        BY <2>1, <2>2
    <2>3. CASE req' = [req EXCEPT ![ana.q].st = ana.out, ![ana.q].run = ana.run]
        <3>1. /\ req'[ana.q].st = ana.out /\ req'[ana.q].run = ana.run
              /\ \A i \in Ids \ {ana.q} : req'[i] = req[i]
            BY <2>1, <2>3
        <3>2. run[ana.q].st = "ACTIVE" => ana.run \/ ana.out = "FAILED"
            BY <1>16 DEF CompleteAnalysis, AnalysisShape
        <3> QED
            BY <2>1, <3>1, <3>2
    <2> QED
        BY <1>16, <2>2, <2>3 DEF CompleteAnalysis
<1>17. CASE TellOccurrence
    BY <1>17 DEF TellOccurrence, OccurrenceOutcome
<1>18. CASE StartFromWindow
    BY <1>18 DEF StartFromWindow
<1>19. CASE RefreshMaterials
    BY <1>19 DEF RefreshMaterials
<1>20. ASSUME NEW o \in Occs, DeliverTrigger(o) PROVE StartIsRecorded'
    BY <1>20 DEF DeliverTrigger, Enqueued, NewReq
<1>21. ASSUME NEW o \in Occs, TellRunEnded(o) PROVE StartIsRecorded'
    BY <1>21 DEF TellRunEnded
<1>22. ASSUME NEW i \in DOMAIN run, RunEnds(i) PROVE StartIsRecorded'
    BY <1>22 DEF RunEnds
<1>23. CASE Restart
    BY <1>23 DEF Restart, JobRestart, ScheduleRestart, RequeueClaims, Requeued
<1>24. CASE UNCHANGED <<jobVars, sched>>
    BY <1>24 DEF jobVars
<1> HIDE DEF StartIsRecorded, JobTypeOK, RequestsOnward
<1> QED
    BY <1>1, <1>2, <1>3, <1>4, <1>5, <1>6, <1>7, <1>8, <1>9, <1>10, <1>11, <1>12,
       <1>13, <1>14, <1>15, <1>16, <1>17, <1>18, <1>19, <1>20, <1>21, <1>22,
       <1>23, <1>24, Moves DEF Moved

-----------------------------------------------------------------------------
\* The initial states satisfy the invariant.
LEMMA InitInv == JobsInit => IInv
<1> SUFFICES ASSUME JobsInit PROVE IInv
    OBVIOUS
<1> USE Bounds
<1> USE DEF JobsInit, JobInit, SchedInit
<1>1. SchedTypeOK
    <2>1. sched \in Schedule /\ res \in Resource
        BY DEF NoSchedule, Schedule, Resource, ResourceStates
    <2>2. [kind |-> "ours", gen |-> 0, on |-> TRUE] \in Task
        BY DEF Task
    <2>3. [kind |-> "foreign", gen |-> 0, on |-> TRUE] \in Task
        BY DEF Task
    <2>4. NoTask \in Task
        BY RoundTyped
    <2>5. task \in Task
        BY <2>2, <2>3, <2>4 DEF JobsInit, SchedInit
    <2>6. mt \in Reconciler
        BY RoundTyped, ReconcilerTyped
    <2>7. touched \in BOOLEAN
        BY Zenon
    <2>8. taskFaults \in 0..MaxTaskFaults
        OBVIOUS
    <2> QED
        BY <2>1, <2>5, <2>6, <2>7, <2>8 DEF SchedTypeOK
<1>2. JobTypeOK
    <2>1. job \in Job /\ NoReq \in Request /\ NoRun \in Run
        BY DEF Job, NoReq, Request, NoRun, Run
    <2>2. req \in [Ids -> Request] /\ run \in [Ids \cup {Window} -> Run]
        BY <2>1
    <2>3. /\ occ \in [Occs -> {"none", "RECEIVED", "RUN_ENQUEUED"} \cup TerminalOccurrence]
          /\ rcpt \in [Keys -> {"none", "SUCCEEDED", "EDITED", "REJECTED"}]
        OBVIOUS
    <2>4. ana \in AnaState
        BY AnalysisTyped
    <2>5. snap \in BOOLEAN
        BY Zenon
    <2>6. plans \subseteq Revs /\ post \in Keys \cup {0}
        OBVIOUS
    <2>7. raced \subseteq DOMAIN run
        OBVIOUS
    <2>8. crashes \in 0..MaxCrashes
        OBVIOUS
    <2> QED
        BY <2>1, <2>2, <2>3, <2>4, <2>5, <2>6, <2>7, <2>8 DEF JobTypeOK
<1>3. ClaimShape /\ GenerationsOrdered /\ InSyncIsRegistered
    BY DEF ClaimShape, GenerationsOrdered, InSyncIsRegistered, NoSchedule, NoTask, Idle, Claimed
<1>4. KeysInOrder
    BY DEF KeysInOrder, Keys
<1>5. AnalysisShape /\ RequestShape
    BY DEF AnalysisShape, RequestShape, NoAna, NoRun
<1>6. ActiveRuns = {}
    BY DEF ActiveRuns, NoRun
<1>7. ArchivedIsQuiet /\ RunsCurrentContent /\ ScheduleMatchesContent /\ StartIsRecorded
    BY <1>6 DEF ArchivedIsQuiet, Active, RunsCurrentContent, ScheduleMatchesContent,
       StartIsRecorded, NoSchedule
<1> QED
    BY <1>1, <1>2, <1>3, <1>4, <1>5, <1>7 DEF IInv

\* Every step keeps the invariant.
LEMMA InvStep == IInv /\ [JobsNext]_WholeVars => IInv'
<1> SUFFICES ASSUME IInv, [JobsNext]_WholeVars PROVE IInv'
    OBVIOUS
<1>1. /\ SchedTypeOK /\ JobTypeOK /\ ClaimShape /\ GenerationsOrdered /\ InSyncIsRegistered
      /\ KeysInOrder /\ AnalysisShape /\ RequestShape
      /\ ArchivedIsQuiet /\ RunsCurrentContent /\ ScheduleMatchesContent /\ StartIsRecorded
    BY DEF IInv
<1>2. RequestsOnward
    BY <1>1, RequestsMove
<1>3. SchedTypeOK' /\ JobTypeOK'
    BY <1>1, SchedTypeStep, JobTypeStep
<1>4. ClaimShape' /\ GenerationsOrdered' /\ InSyncIsRegistered'
    BY <1>1, ClaimStep
<1>5. KeysInOrder' /\ AnalysisShape' /\ RequestShape'
    BY <1>1, <1>2, KeysStep, AnalysisShapeStep, RequestShapeStep
<1>6. ArchivedIsQuiet' /\ RunsCurrentContent'
    BY <1>1, ArchivedStep, ContentStep
<1>7. ScheduleMatchesContent' /\ StartIsRecorded'
    BY <1>1, <1>2, MatchesStep, RecordedStep
<1> QED
    BY <1>3, <1>4, <1>5, <1>6, <1>7 DEF IInv

\* The invariant: what a round of the reconciler and an analysis know of the
\* rows they work on, whatever commands do in between.
THEOREM Invariance == JobsSpec => []IInv
<1>1. JobsInit => IInv
    BY InitInv
<1>2. IInv /\ [JobsNext]_WholeVars => IInv'
    BY InvStep
<1> QED
    BY <1>1, <1>2, PTL DEF JobsSpec, WholeVars

\* Every variable of the job and of its schedule keeps its type.
THEOREM TypeCorrect == JobsSpec => [](SchedTypeOK /\ JobTypeOK)
<1>1. IInv => SchedTypeOK /\ JobTypeOK
    BY DEF IInv
<1> QED
    BY <1>1, Invariance, PTL

\* A row marked IN_SYNC is what Windows has registered, unless somebody else
\* changed the task (mark_external_resource_in_sync compares claim and
\* generation).
THEOREM InSyncIsTrue == JobsSpec => []InSyncIsRegistered
<1>1. IInv => InSyncIsRegistered
    BY DEF IInv
<1> QED
    BY <1>1, Invariance, PTL

\* No reconciler, however late, registers a generation that the row has not
\* asked for, and no row runs ahead of its schedule.
THEOREM NoGenerationBack == JobsSpec => []GenerationsOrdered
<1>1. IInv => GenerationsOrdered
    BY DEF IInv
<1> QED
    BY <1>1, Invariance, PTL

\* An archived or deleted job has no enabled schedule, no claimed check, and
\* no active run but one whose start overtook the command
\* (archive_standard_backup_job, delete_standard_backup_job).
THEOREM ArchivedStaysQuiet == JobsSpec => []ArchivedIsQuiet
<1>1. IInv => ArchivedIsQuiet
    BY DEF IInv
<1> QED
    BY <1>1, Invariance, PTL

\* A run works on the contents its job has now, unless its start overtook an
\* edit.
THEOREM RunsAreCurrent == JobsSpec => []RunsCurrentContent
<1>1. IInv => RunsCurrentContent
    BY DEF IInv
<1> QED
    BY <1>1, Invariance, PTL

\* An enabled schedule is for what the job backs up now (disable_enabled_schedules).
THEOREM ScheduleIsCurrent == JobsSpec => []ScheduleMatchesContent
<1>1. IInv => ScheduleMatchesContent
    BY DEF IInv
<1> QED
    BY <1>1, Invariance, PTL

\* A run that a check has started is known to the check's request or will be
\* found by it (execute_next_backup_analysis).
THEOREM StartsAreRecorded == JobsSpec => []StartIsRecorded
<1>1. IInv => StartIsRecorded
    BY DEF IInv
<1> QED
    BY <1>1, Invariance, PTL

\* An occurrence that is over stays as it is.
LEMMA OccurrencesEnd ==
    ASSUME JobTypeOK, AnalysisShape, [JobsNext]_WholeVars, NEW p \in Occs, occ[p] \in TerminalOccurrence
    PROVE  occ'[p] = occ[p]
<1> USE DEF JobTypeOK, TerminalOccurrence, AnaFrame
<1>1. ASSUME NEW i \in Ids, ClaimAnalysis(i) PROVE occ'[p] = occ[p]
    BY <1>1 DEF ClaimAnalysis
<1>2. CASE LookAtRuns
    BY <1>2 DEF LookAtRuns
<1>3. CASE ScanAndSeal
    BY <1>3 DEF ScanAndSeal
<1>4. CASE HashAndPlan
    BY <1>4 DEF HashAndPlan, HashBlocks, PlanCandidate
<1>5. CASE SealPlan
    BY <1>5 DEF SealPlan
<1>6. CASE SafeStart
    BY <1>6 DEF SafeStart
<1>7. CASE CompleteAnalysis
    BY <1>7 DEF CompleteAnalysis
<1>8. CASE TellOccurrence
    BY <1>8 DEF TellOccurrence, OccurrenceOutcome, AnalysisShape
<1>9. CASE StartFromWindow
    BY <1>9 DEF StartFromWindow
<1>10. ASSUME NEW o \in Occs, DeliverTrigger(o) PROVE occ'[p] = occ[p]
    BY <1>10 DEF DeliverTrigger
<1>11. ASSUME NEW o \in Occs, TellRunEnded(o) PROVE occ'[p] = occ[p]
    BY <1>11 DEF TellRunEnded
<1>12. ASSUME NEW i \in DOMAIN run, RunEnds(i) PROVE occ'[p] = occ[p]
    BY <1>12 DEF RunEnds
<1>13. CASE Restart
    BY <1>13 DEF Restart, JobRestart
<1>14. CASE UNCHANGED <<run, occ, ana, raced>>
    BY <1>14
<1> HIDE DEF JobTypeOK
<1> QED
    BY <1>1, <1>2, <1>3, <1>4, <1>5, <1>6, <1>7, <1>8, <1>9, <1>10, <1>11, <1>12,
       <1>13, <1>14, OnlyWork DEF AnaWork

\* The end of an occurrence is final: redelivered triggers, restarts and late
\* reconciliations leave it alone (mark_run_enqueued, mark_terminal).
THEOREM OccurrencesAreFinal == JobsSpec => OccurrenceEndsOnce
<1>1. IInv /\ [JobsNext]_WholeVars =>
        \A o \in Occs : occ[o] \in TerminalOccurrence => occ'[o] = occ[o]
    BY OccurrencesEnd DEF IInv
<1> QED
    BY <1>1, Invariance, PTL DEF JobsSpec, OccurrenceEndsOnce, WholeVars
=============================================================================
