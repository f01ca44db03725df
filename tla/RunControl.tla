----------------------------- MODULE RunControl -----------------------------
(***************************************************************************)
(* One backup run with its targets, driven by the executor thread while    *)
(* the user pauses, resumes and stops it through the IPC thread.           *)
(*                                                                         *)
(* catalog.sqlite holds the run, its targets and the stop request;         *)
(* recovery.sqlite holds the phase of every file operation; the retained   *)
(* endpoint leases live in the host process and are lost with it.  Every   *)
(* store method is one transaction, and a user command may fall between    *)
(* any two of them.  Operations are COPY_NEW files, and the journal phases *)
(* between two phases the executor's scheduling tells apart are one step.  *)
(***************************************************************************)
EXTENDS Naturals, FiniteSets, FiniteSetsExt

CONSTANTS
    NTargets,           \* run targets, numbered in row-id order
    Ops,                \* file operations, numbered in plan order
    TargetOf,           \* the target of each operation
    Controls,           \* the user's commands: PAUSE, RESUME, STOP
    Faults,             \* CRASH, OFFLINE, DENIED, STAGING, DECISION
    MaxControls,        \* bound on user commands
    MaxFaults,          \* bound on faults
    MaxStagingAttempts  \* staging attempts before a file is skipped

Targets == 1..NTargets

ASSUME TargetsAssumption == NTargets \in Nat \ {0}
ASSUME OpsAssumption == Ops \subseteq Nat \ {0} /\ IsFiniteSet(Ops)
ASSUME TargetOfAssumption == TargetOf \in [Ops -> Targets]
ASSUME ControlsAssumption == Controls \subseteq {"PAUSE", "RESUME", "STOP"}
ASSUME FaultsAssumption ==
    Faults \subseteq {"CRASH", "OFFLINE", "DENIED", "STAGING", "DECISION"}
ASSUME BoundsAssumption ==
    /\ MaxControls \in Nat
    /\ MaxFaults \in Nat
    /\ MaxStagingAttempts \in Nat \ {0}

VARIABLES
    run,       \* runs.state
    tgt,       \* run_targets.state
    stop,      \* run_stop_requests.state, NONE without a row
    boundary,  \* the operation the stop request is bound to, or NoOp
    phase,     \* recovery_operations.phase, NONE without a row
    fresh,     \* is the operation bound to its target's current lease?
    fails,     \* staging_failure_count
    held,      \* targets whose endpoint lease the executor retains
    pc, cur,   \* executor: step inside a cycle, target it works on
    from,      \* target state a lease acquisition started from
    controls, faults

catalog  == <<run, tgt, stop, boundary>>
journal  == <<phase, fresh, fails>>
executor == <<held, pc, cur, from>>
vars == <<catalog, journal, executor, controls, faults>>

NoOp == 0
NoTarget == 0

RunStates ==
    {"CREATED", "QUEUED", "PREFLIGHT", "EXECUTING", "PAUSING", "PAUSED",
     "RECOVERY_REQUIRED", "COMPLETED", "COMPLETED_WITH_WARNINGS",
     "PARTIAL_FAILURE", "CANCELLED"}
TargetStates ==
    {"PENDING", "ACQUIRING_LEASE", "REVALIDATING", "EXECUTING", "PAUSED",
     "WAITING_FOR_ENDPOINT", "SUCCEEDED", "SUCCEEDED_WITH_WARNINGS",
     "RECOVERY_REQUIRED", "CANCELLED"}
OpPhases ==
    {"NONE", "PLANNED", "STAGING_ALLOCATED", "STAGING_VERIFIED",
     "CATALOG_RECORDED", "CLEANED", "SKIPPED", "USER_DECISION_REQUIRED",
     "CANCELLED"}

Runnable == {"QUEUED", "PREFLIGHT", "EXECUTING"}
Stoppable == Runnable \cup {"CREATED", "PAUSING", "PAUSED"}
Ended == {"COMPLETED", "COMPLETED_WITH_WARNINGS", "PARTIAL_FAILURE", "CANCELLED"}
Open == {"PENDING", "ACQUIRING_LEASE", "REVALIDATING", "EXECUTING", "PAUSED",
         "WAITING_FOR_ENDPOINT"}
Started == {"STAGING_ALLOCATED", "STAGING_VERIFIED", "CATALOG_RECORDED"}
Done == {"CATALOG_RECORDED", "CLEANED"}

In(S) == {t \in Targets : tgt[t] \in S}
OpsOf(t) == {o \in Ops : TargetOf[o] = t}
OpsIn(t, S) == {o \in OpsOf(t) : phase[o] \in S}
StartedOps == {o \in Ops : phase[o] \in Started}

\* A run as save_started_run leaves it while the start saga is unfinished.
Init ==
    /\ run = "CREATED"
    /\ tgt = [t \in Targets |-> "PENDING"]
    /\ stop = "NONE" /\ boundary = NoOp
    /\ phase = [o \in Ops |-> "NONE"]
    /\ fresh = [o \in Ops |-> FALSE]
    /\ fails = [o \in Ops |-> 0]
    /\ held = {} /\ pc = "top" /\ cur = NoTarget /\ from = "NONE"
    /\ controls = 0 /\ faults = [f \in Faults |-> 0]

FaultsSoFar == MapThenSumSet(LAMBDA g : faults[g], Faults)
Fault(f) ==
    /\ f \in Faults /\ FaultsSoFar < MaxFaults
    /\ faults' = [faults EXCEPT ![f] = @ + 1]
Command(c) == c \in Controls /\ controls < MaxControls /\ controls' = controls + 1
NoFault == UNCHANGED faults
Back == pc' = "top" /\ cur' = NoTarget /\ from' = "NONE"

-----------------------------------------------------------------------------
(* Commands of the IPC thread: application checks, then one transaction.   *)

ReleaseCreatedRun ==
    /\ run = "CREATED" /\ run' = "QUEUED"
    /\ UNCHANGED <<tgt, stop, boundary, journal, executor, controls, faults>>

StorePause == /\ run \in Runnable \cup {"CREATED"}
              /\ stop # "PENDING"
              /\ run' = "PAUSING"

PauseRun ==
    /\ Command("PAUSE") /\ StorePause
    /\ UNCHANGED <<tgt, stop, boundary, journal, executor, faults>>

StoreResume ==
    /\ stop # "PENDING"
    /\ tgt' = [t \in Targets |-> IF tgt[t] = "PAUSED" THEN "PENDING" ELSE tgt[t]]
    /\ \E t \in Targets : tgt'[t] = "PENDING"
    /\ run' = "QUEUED"

ResumeRun ==
    /\ Command("RESUME") /\ run = "PAUSED" /\ StoreResume
    /\ UNCHANGED <<stop, boundary, journal, executor, faults>>

StoreStop == stop = "NONE" /\ stop' = "PENDING"

StopRun ==
    /\ Command("STOP") /\ run \in Stoppable /\ StoreStop
    /\ UNCHANGED <<run, tgt, boundary, journal, executor, faults>>

-----------------------------------------------------------------------------
(* Executor cycle, first part: the pending stop request.                   *)

\* Mutant: a verified staging file already counts as a boundary.
BoundarySafeEarly ==
    boundary \in Ops /\ phase[boundary] \notin {"PLANNED", "STAGING_ALLOCATED"}

BoundarySafe ==
    /\ boundary \in Ops
    /\ phase[boundary] \in Done \cup {"SKIPPED", "USER_DECISION_REQUIRED", "CANCELLED"}

\* One active file: the request is bound to it.  With more than one the cycle
\* reports RUN_STOP_MULTIPLE_ACTIVE_OPERATIONS and ends.
BindStop ==
    /\ pc = "top" /\ stop = "PENDING" /\ boundary = NoOp
    /\ Cardinality(StartedOps) = 1
    /\ boundary' \in StartedOps
    /\ pc' = "activate"
    /\ UNCHANGED <<run, tgt, stop, journal, held, cur, from, controls, faults>>

ActivatedRun ==
    IF In({"EXECUTING"}) # {} THEN "EXECUTING"
    ELSE IF In({"REVALIDATING", "ACQUIRING_LEASE"}) # {} THEN "PREFLIGHT"
    ELSE "QUEUED"

\* A paused run is queued again for the boundary's target alone; a pausing one
\* goes back to work.
StoreActivateStop ==
    \/ /\ run = "PAUSED"
       /\ tgt[TargetOf[boundary]] = "PAUSED"
       /\ tgt' = [tgt EXCEPT ![TargetOf[boundary]] = "PENDING"]
       /\ run' = "QUEUED"
    \/ run = "PAUSING" /\ run' = ActivatedRun /\ UNCHANGED tgt

ActivateStop ==
    /\ \/ pc = "activate"
       \/ pc = "top" /\ stop = "PENDING" /\ boundary # NoOp /\ ~BoundarySafe
    /\ \/ StoreActivateStop
       \/ pc = "activate" /\ run \notin {"PAUSED", "PAUSING"} /\ UNCHANGED <<run, tgt>>
    /\ pc' = "top"
    /\ UNCHANGED <<stop, boundary, journal, held, cur, from, controls, faults>>

\* RUN_STOP_ACTIVATION_STATE_CONFLICT ends the cycle.
ActivateConflict ==
    /\ pc = "activate" /\ run = "PAUSED" /\ tgt[TargetOf[boundary]] # "PAUSED"
    /\ pc' = "top"
    /\ UNCHANGED <<catalog, journal, held, cur, from, controls, faults>>

\* No file is active besides the boundary, which is safe.
StopMayFinish ==
    /\ pc = "top" /\ stop = "PENDING"
    /\ boundary = NoOp \/ BoundarySafe
    /\ StartedOps \subseteq {boundary}

PlannedOps == {o \in Ops \ {boundary} : phase[o] = "PLANNED"}

\* Untouched files are cancelled in bounded batches.
CancelPlanned ==
    /\ StopMayFinish
    /\ \E batch \in SUBSET PlannedOps \ {{}} :
           phase' = [o \in Ops |-> IF o \in batch THEN "CANCELLED" ELSE phase[o]]
    /\ UNCHANGED <<catalog, fresh, fails, executor, controls, faults>>

ReleaseForStop ==
    /\ StopMayFinish /\ PlannedOps = {}
    /\ held' = {} /\ pc' = "finalizeStop"
    /\ UNCHANGED <<catalog, journal, cur, from, controls, faults>>

\* Mutant: the run row is updated whatever its state.
StoreFinalizeAnyStop ==
    /\ tgt' = [t \in Targets |-> IF tgt[t] \in Open THEN "CANCELLED" ELSE tgt[t]]
    /\ run' = "CANCELLED"
    /\ stop' = "APPLIED"

StoreFinalizeStop ==
    /\ run \in Stoppable
    /\ tgt' = [t \in Targets |-> IF tgt[t] \in Open THEN "CANCELLED" ELSE tgt[t]]
    /\ run' = "CANCELLED"
    /\ stop' = "APPLIED"

FinalizeStop ==
    /\ pc = "finalizeStop" /\ Back
    /\ \/ StoreFinalizeStop
       \/ run \notin Stoppable /\ UNCHANGED <<run, tgt, stop>>
    /\ UNCHANGED <<boundary, journal, held, controls, faults>>

-----------------------------------------------------------------------------
(* Second part: a requested pause.                                         *)

\* Mutant: only leases of executing targets are handed back.
ReleaseExecutingForPause ==
    /\ pc = "top" /\ run = "PAUSING" /\ stop # "PENDING"
    /\ held' = held \ In({"EXECUTING"}) /\ pc' = "finalizePause"
    /\ UNCHANGED <<catalog, journal, cur, from, controls, faults>>

ReleaseForPause ==
    /\ pc = "top" /\ run = "PAUSING" /\ stop # "PENDING"
    /\ held' = {} /\ pc' = "finalizePause"
    /\ UNCHANGED <<catalog, journal, cur, from, controls, faults>>

StoreFinalizePause ==
    /\ run = "PAUSING"
    /\ run' = "PAUSED"
    /\ tgt' = [t \in Targets |->
                 IF tgt[t] \in Open \ {"PENDING"} THEN "PAUSED" ELSE tgt[t]]

FinalizePause ==
    /\ pc = "finalizePause" /\ Back /\ StoreFinalizePause
    /\ UNCHANGED <<stop, boundary, journal, held, controls, faults>>

-----------------------------------------------------------------------------
(* Third part: work.  A cycle that found no stop and no pause goes on even *)
(* if one is requested meanwhile; with a bound stop it goes on as well.    *)

ChecksPass ==
    /\ run # "PAUSING"
    /\ stop # "PENDING" \/ (boundary # NoOp /\ ~BoundarySafe /\ run # "PAUSED")

PassChecks ==
    /\ pc = "top" /\ ChecksPass /\ pc' = "work"
    /\ UNCHANGED <<catalog, journal, held, cur, from, controls, faults>>

EndCycle ==
    /\ pc = "work" /\ Back
    /\ UNCHANGED <<catalog, journal, held, controls, faults>>

Working == pc = "work" \/ (pc = "top" /\ ChecksPass)

\* Leases of targets that are neither revalidating nor executing are released
\* on the way.
Live == {t \in held : tgt[t] \in {"REVALIDATING", "EXECUTING"}}
Retained == {t \in Live : tgt[t] = "EXECUTING" /\ run = "EXECUTING"}

\* The next file to stage: the first in plan order, except that copies are
\* brought to STAGING_ALLOCATED one after the other so that they can be
\* transferred as one batch.
NextStaging(t) ==
    LET head == Min(OpsIn(t, {"PLANNED", "STAGING_ALLOCATED"}))
    IN  IF phase[head] = "STAGING_ALLOCATED" /\ OpsIn(t, {"PLANNED"}) # {}
        THEN Min(OpsIn(t, {"PLANNED"})) ELSE head

TerminalReady(t) == OpsIn(t, {"USER_DECISION_REQUIRED"}) # {}
Stale(t) == {o \in OpsIn(t, {"PLANNED", "STAGING_ALLOCATED", "STAGING_VERIFIED"}) :
               ~fresh[o]}
\* Mutant: one file short.
CatalogAlmostComplete(t) ==
    OpsOf(t) # {} /\ Cardinality(OpsIn(t, Done)) + 1 >= Cardinality(OpsOf(t))
CatalogComplete(t) == Cardinality(OpsIn(t, Done)) >= Cardinality(OpsOf(t))
SkippedReady(t) ==
    /\ OpsIn(t, {"SKIPPED"}) # {}
    /\ Cardinality(OpsIn(t, Done \cup {"SKIPPED"})) >= Cardinality(OpsOf(t))
NeedsCleanup(t) == OpsIn(t, {"CATALOG_RECORDED"}) # {}

\* What _advance_retained_target does next for a target, in its order.
StepKind(t) ==
    CASE TerminalReady(t) -> "decision"
      [] ~TerminalReady(t) /\ Stale(t) # {} -> "rebind"
      [] OTHER ->
         CASE OpsIn(t, {"STAGING_VERIFIED"}) # {} -> "commit"
           [] OpsIn(t, {"STAGING_VERIFIED"}) = {} /\ OpsIn(t, {"NONE"}) = OpsOf(t)
                -> IF OpsOf(t) = {} THEN "success" ELSE "plan"
           [] OTHER ->
              CASE NeedsCleanup(t) -> "cleanup"
                [] ~NeedsCleanup(t) /\ SkippedReady(t) -> "warnings"
                [] ~NeedsCleanup(t) /\ CatalogComplete(t) -> "success"
                [] OTHER -> IF OpsIn(t, {"PLANNED", "STAGING_ALLOCATED"}) # {}
                            THEN "staging" ELSE "blocked"

Deferrable(t) == StepKind(t) = "staging" /\ fails[NextStaging(t)] > 0

\* The retained target this cycle advances: the first one, or a later one while
\* the earlier ones wait for a staging retry.
Advances(t) ==
    /\ Working /\ t \in Retained
    /\ \A u \in Retained : u < t => Deferrable(u)

\* recovery.sqlite only, the catalog is left alone.
Journaled(t) == /\ held' = Live /\ Back
                /\ UNCHANGED <<catalog, controls>>

RebindOp(t) ==
    /\ Advances(t) /\ StepKind(t) = "rebind" /\ Journaled(t) /\ NoFault
    /\ fresh' = [fresh EXCEPT ![Min(Stale(t))] = TRUE]
    /\ UNCHANGED <<phase, fails>>

\* Publish the intent, commit, verify and hand over to the catalog; a changed
\* target file leaves the operation for the user to decide.
CommitOp(t) ==
    /\ Advances(t) /\ StepKind(t) = "commit" /\ Journaled(t)
    /\ LET o == Min(OpsIn(t, {"STAGING_VERIFIED"})) IN
         \/ NoFault /\ phase' = [phase EXCEPT ![o] = "CATALOG_RECORDED"]
         \/ Fault("DECISION") /\ phase' = [phase EXCEPT ![o] = "USER_DECISION_REQUIRED"]
    /\ UNCHANGED <<fresh, fails>>

\* The planned operations are journaled one transaction each.
PlanOps(t) ==
    /\ \/ Advances(t) /\ StepKind(t) = "plan" /\ held' = Live
       \/ pc = "plan" /\ cur = t /\ OpsIn(t, {"NONE"}) # {} /\ held' = held
    /\ LET o == Min(OpsIn(t, {"NONE"})) IN
         /\ phase' = [phase EXCEPT ![o] = "PLANNED"]
         /\ fresh' = [fresh EXCEPT ![o] = TRUE]
    /\ pc' = "plan" /\ cur' = t /\ from' = "NONE"
    /\ UNCHANGED <<catalog, fails, controls, faults>>

PlanDone ==
    /\ pc = "plan" /\ OpsIn(cur, {"NONE"}) = {} /\ Back
    /\ UNCHANGED <<catalog, journal, held, controls, faults>>

\* Cleanup needs the lease the operation is bound to.
CleanupOp(t) ==
    /\ Advances(t) /\ StepKind(t) = "cleanup" /\ Journaled(t) /\ NoFault
    /\ LET o == Min(OpsIn(t, {"CATALOG_RECORDED"})) IN
         fresh[o] /\ phase' = [phase EXCEPT ![o] = "CLEANED"]
    /\ UNCHANGED <<fresh, fails>>

Exhausted(n) == n >= MaxStagingAttempts

StageOp(t) ==
    /\ Advances(t) /\ StepKind(t) = "staging" /\ Journaled(t)
    /\ LET o == NextStaging(t) IN
         \/ /\ NoFault
            /\ phase' = [phase EXCEPT ![o] =
                 IF @ = "PLANNED" THEN "STAGING_ALLOCATED" ELSE "STAGING_VERIFIED"]
            /\ UNCHANGED fails
         \/ /\ Fault("STAGING")
            /\ fails' = [fails EXCEPT ![o] = @ + 1]
            /\ phase' = IF Exhausted(fails'[o])
                        THEN [phase EXCEPT ![o] = "SKIPPED"] ELSE phase
    /\ UNCHANGED fresh

\* The endpoint disappeared during a transfer: the target waits and the lease
\* is released, unless the run left EXECUTING meanwhile.
StageOffline(t) ==
    /\ Advances(t) /\ StepKind(t) = "staging" /\ Fault("OFFLINE") /\ Back
    /\ tgt' = [tgt EXCEPT ![t] = "WAITING_FOR_ENDPOINT"]
    /\ held' = Live \ {t}
    /\ UNCHANGED <<run, stop, boundary, journal, controls>>

\* The outcome of the run once no target is open, for a plan whose summary
\* requires no action of the user.
FinishedRun(states) ==
    IF \A t \in Targets : states[t] = "SUCCEEDED" THEN "COMPLETED"
    ELSE IF \A t \in Targets : states[t] \in {"SUCCEEDED", "SUCCEEDED_WITH_WARNINGS"}
    THEN "COMPLETED_WITH_WARNINGS" ELSE "PARTIAL_FAILURE"

FinishIfLast(states) ==
    run' = IF \E t \in Targets : states[t] \in Open THEN run ELSE FinishedRun(states)

StoreSucceeded(t) ==
    tgt' = [tgt EXCEPT ![t] = "SUCCEEDED"] /\ FinishIfLast(tgt')

StoreSucceededWithWarnings(t) ==
    tgt' = [tgt EXCEPT ![t] = "SUCCEEDED_WITH_WARNINGS"] /\ FinishIfLast(tgt')

StoreRecoveryRequired(t) ==
    tgt' = [tgt EXCEPT ![t] = "RECOVERY_REQUIRED"] /\ run' = "RECOVERY_REQUIRED"

CompleteSuccess(t) == StepKind(t) = "success" /\ StoreSucceeded(t)
CompleteWithWarnings(t) == StepKind(t) = "warnings" /\ StoreSucceededWithWarnings(t)
CompleteRecoveryRequired(t) == StepKind(t) = "decision" /\ StoreRecoveryRequired(t)

CompleteTarget(t) ==
    /\ Advances(t) /\ Back
    /\ held' = Live \ {t}
    /\ CompleteSuccess(t) \/ CompleteWithWarnings(t) \/ CompleteRecoveryRequired(t)
    /\ UNCHANGED <<stop, boundary, journal, controls, faults>>

NothingRetained == Working /\ Retained = {}
FirstIn(s) == Min(In({s}))

\* After the retained targets: an executing target without a lease.
NeedsReacquire ==
    run = "EXECUTING" /\ In({"EXECUTING"}) # {} /\ FirstIn("EXECUTING") \notin held

BeginReacquire ==
    /\ NothingRetained /\ NeedsReacquire
    /\ cur' = FirstIn("EXECUTING") /\ from' = "EXECUTING" /\ pc' = "acquire"
    /\ held' = Live
    /\ UNCHANGED <<catalog, journal, controls, faults>>

\* Then a revalidating target, reacquiring its lease if it has none.
NeedsStart == run \in {"PREFLIGHT", "EXECUTING"} /\ In({"REVALIDATING"}) # {}

BeginStart ==
    /\ NothingRetained /\ ~NeedsReacquire /\ NeedsStart
    /\ cur' = FirstIn("REVALIDATING")
    /\ held' = Live
    /\ \/ cur' \in held /\ pc' = "start" /\ from' = "NONE"
       \/ cur' \notin held /\ pc' = "acquire" /\ from' = "REVALIDATING"
    /\ UNCHANGED <<catalog, journal, controls, faults>>

StoreExecutionStarted(t) ==
    /\ run \in {"PREFLIGHT", "EXECUTING"} /\ tgt[t] = "REVALIDATING"
    /\ tgt' = [tgt EXCEPT ![t] = "EXECUTING"]
    /\ run' = "EXECUTING"

StartExecution ==
    /\ pc = "start" /\ Back
    /\ \/ StoreExecutionStarted(cur) /\ held' = held
       \/ /\ run \notin {"PREFLIGHT", "EXECUTING"}
          /\ held' = held \ {cur} /\ UNCHANGED <<run, tgt>>
    /\ UNCHANGED <<stop, boundary, journal, controls, faults>>

\* Last a pending target, claimed for preflight.
StoreBeginPreflight(t) ==
    /\ tgt' = [tgt EXCEPT ![t] = "ACQUIRING_LEASE"]
    /\ run' = IF run = "EXECUTING" THEN run ELSE "PREFLIGHT"

BeginPreflight ==
    /\ NothingRetained /\ ~NeedsReacquire /\ ~NeedsStart
    /\ run \in Runnable /\ In({"PENDING"}) # {}
    /\ cur' = FirstIn("PENDING") /\ from' = "ACQUIRING_LEASE" /\ pc' = "acquire"
    /\ StoreBeginPreflight(cur')
    /\ held' = Live
    /\ UNCHANGED <<stop, boundary, journal, controls, faults>>

\* The lease authority grants the lease, finds the endpoint absent or busy, or
\* refuses for a reason that waiting does not cure.
AcquireLease ==
    /\ pc = "acquire"
    /\ \/ NoFault /\ pc' = "record" /\ UNCHANGED <<cur, from>>
       \/ Fault("OFFLINE") /\ pc' = "wait" /\ UNCHANGED <<cur, from>>
       \/ Fault("DENIED") /\ Back
       \/ NoFault /\ from = "ACQUIRING_LEASE" /\ run \notin {"PREFLIGHT", "EXECUTING"} /\ Back
    /\ UNCHANGED <<catalog, journal, held, controls>>

Rebound(t) == [o \in Ops |-> fresh[o] /\ TargetOf[o] # t]
LeaseRecordable == run \in {"PREFLIGHT", "EXECUTING"} /\ tgt[cur] = from

StoreLeaseRecorded ==
    /\ LeaseRecordable
    /\ tgt' = [tgt EXCEPT ![cur] = IF from = "ACQUIRING_LEASE" THEN "REVALIDATING" ELSE @]

\* A new lease, so every operation of the target is bound to an older one.  If
\* the run changed meanwhile the lease is released again.
RecordLease ==
    /\ pc = "record"
    /\ \/ /\ StoreLeaseRecorded
          /\ held' = held \cup {cur} /\ fresh' = Rebound(cur)
          /\ IF from = "REVALIDATING" THEN pc' = "start" /\ UNCHANGED <<cur, from>> ELSE Back
       \/ ~LeaseRecordable /\ Back /\ UNCHANGED <<tgt, held, fresh>>
    /\ UNCHANGED <<run, stop, boundary, phase, fails, controls, faults>>

StoreWaiting ==
    LeaseRecordable /\ tgt' = [tgt EXCEPT ![cur] = "WAITING_FOR_ENDPOINT"]

RecordWait ==
    /\ pc = "wait" /\ Back
    /\ StoreWaiting \/ (~LeaseRecordable /\ UNCHANGED tgt)
    /\ UNCHANGED <<run, stop, boundary, journal, held, controls, faults>>

\* At the start of each pump a target whose retry is due is queued again.
RequeueWaiting ==
    /\ pc = "top" /\ run \in Runnable
    /\ \E t \in In({"WAITING_FOR_ENDPOINT"}) : tgt' = [tgt EXCEPT ![t] = "PENDING"]
    /\ UNCHANGED <<run, stop, boundary, journal, executor, controls, faults>>

\* The host process ends: only the retained leases are lost.
Crash ==
    /\ Fault("CRASH") /\ held' = {} /\ Back
    /\ UNCHANGED <<catalog, journal, controls>>

-----------------------------------------------------------------------------
StopStep == BindStop \/ ActivateStop \/ ActivateConflict \/ CancelPlanned
            \/ ReleaseForStop \/ FinalizeStop
PauseStep == ReleaseForPause \/ FinalizePause
TargetStep(t) == RebindOp(t) \/ CommitOp(t) \/ PlanOps(t) \/ CleanupOp(t)
                 \/ StageOp(t) \/ StageOffline(t) \/ CompleteTarget(t)
LeaseStep == BeginReacquire \/ BeginStart \/ StartExecution \/ BeginPreflight
             \/ AcquireLease \/ RecordLease \/ RecordWait \/ RequeueWaiting
             \/ PlanDone
ExecutorStep == StopStep \/ PauseStep \/ LeaseStep \/ \E t \in Targets : TargetStep(t)

Next ==
    \/ ReleaseCreatedRun \/ PauseRun \/ ResumeRun \/ StopRun
    \/ ExecutorStep \/ PassChecks \/ EndCycle \/ Crash

Spec == Init /\ [][Next]_vars

\* The executor's maintenance loop runs for ever and the start saga is retried;
\* users, faults and crashes owe nothing.
LiveSpec ==
    /\ Spec
    /\ WF_vars(ExecutorStep) /\ WF_vars(EndCycle) /\ WF_vars(ReleaseCreatedRun)
    /\ SF_vars(RequeueWaiting)

-----------------------------------------------------------------------------
\* Every variable keeps its type: the states of runs.state, run_targets.state and
\* recovery_operations.phase, and attempts within their budget.
TypeOK ==
    /\ run \in RunStates
    /\ tgt \in [Targets -> TargetStates]
    /\ stop \in {"NONE", "PENDING", "APPLIED"}
    /\ boundary \in Ops \cup {NoOp}
    /\ phase \in [Ops -> OpPhases]
    /\ fresh \in [Ops -> BOOLEAN]
    /\ fails \in [Ops -> 0..MaxStagingAttempts]
    /\ held \subseteq Targets
    /\ pc \in {"top", "activate", "finalizeStop", "finalizePause", "work", "plan",
               "acquire", "start", "record", "wait"}
    /\ cur \in Targets \cup {NoTarget}
    /\ from \in {"NONE", "ACQUIRING_LEASE", "REVALIDATING", "EXECUTING"}
    /\ controls \in 0..MaxControls /\ faults \in [Faults -> Nat]

\* Pausing hands the endpoints back: a paused run retains no lease, whatever
\* acquisition the pause request fell into (run_executor_cycle.py, RUN_PAUSED).
PausedHoldsNoLease == run = "PAUSED" => held = {}

\* A run reported COMPLETED has every file in the catalog, and one completed
\* with warnings has every file in the catalog or journaled as skipped
\* (record_run_target_succeeded against the recovery journal).
CompletedMeansCopied ==
    /\ run = "COMPLETED" => \A o \in Ops : phase[o] \in Done
    /\ run = "COMPLETED_WITH_WARNINGS" => \A o \in Ops : phase[o] \in Done \cup {"SKIPPED"}

\* A stop never leaves a file half way: in a cancelled run no operation is
\* between its first step and its safe boundary (run_stop.py, _boundary_is_safe).
StoppedAtBoundary ==
    run = "CANCELLED" =>
        \A o \in Ops : phase[o] \notin {"PLANNED", "STAGING_ALLOCATED", "STAGING_VERIFIED"}

\* Nothing revives a run that ended: run and target rows stay as they are, even
\* for an executor step that began before the run ended.
EndedRunsStay == [][(run \in Ended) => (run' = run /\ tgt' = tgt)]_vars

\* The executor reaches the safe boundary of a requested pause, unless a stop
\* is requested as well (a stop may wait for its file for ever).
PauseReached == (run = "PAUSING") ~> (run # "PAUSING" \/ stop = "PENDING")

\* Without user commands, crashes and refused leases every started run ends or
\* asks the user to decide, however often endpoints disappear or staging fails.
Undisturbed == controls = 0 /\ \A f \in Faults \cap {"CRASH", "DENIED"} : faults[f] = 0
RunSettles == <>(run \in Ended \cup {"RECOVERY_REQUIRED"} \/ ~Undisturbed)
=============================================================================
