------------------------------ MODULE RunStart ------------------------------
(***************************************************************************)
(* The start of a backup run, a saga over two databases.  One catalog      *)
(* transaction creates the run in the state CREATED, its receipt in        *)
(* EFFECT_PREPARED and the source handoff; a recovery transaction binds    *)
(* the run and writes the peer handoff; a second catalog transaction       *)
(* releases the run to QUEUED, confirms the source and settles the         *)
(* receipt; two more transactions complete the two handoffs.               *)
(*                                                                         *)
(* A start is either a START_RUN command, named by its idempotency key,    *)
(* or the automatic start of a backup check.  The run it creates has its   *)
(* name.  All starts are of one job.  Three threads advance the saga: the  *)
(* IPC loop ("main"), the executor maintenance loop, which also performs   *)
(* the checks, and the task scheduler loop; each of them reconciles all    *)
(* pending handoffs when its runtime is built, main before the other two   *)
(* are started.                                                            *)
(***************************************************************************)
EXTENDS Naturals, FiniteSets

CONSTANTS Keys,        \* idempotency keys of START_RUN commands
          Checks,      \* backup checks that start a run when it is safe
          NoStart,
          MaxCrashes,  \* bound: process crashes
          MaxFaults    \* bound: transactions refused by a busy database and
                       \* databases replaced by an older copy, together

ASSUME StartAssumption ==
    /\ Keys \cap Checks = {} /\ NoStart \notin Keys \cup Checks
    /\ MaxCrashes \in Nat /\ MaxFaults \in Nat

Starts == Keys \cup Checks
Threads == {"main", "executor", "scheduler"}

VARIABLES
    run, source, receipt, entity, outbox, request,   \* catalog database
    peer, bound,                                     \* recovery database
    pc, cur, todo, seen, reconciling,                \* threads
    writable, ambiguous,                             \* status of main, of a build
    answer,                                          \* last answer to each key
    crashes, busy, losses

catalog == <<run, source, receipt, entity, outbox, request>>
recovery == <<peer, bound>>
threads == <<pc, cur, todo, seen, reconciling>>
status == <<writable, ambiguous>>
faults == <<crashes, busy, losses>>
vars == <<catalog, recovery, threads, status, answer, faults>>

RunStates == {"none", "CREATED", "QUEUED", "PAUSING", "PAUSED", "DONE"}
SourceStates == {"none", "PREPARED", "SOURCE_CONFIRMED", "COMPLETED"}
PeerStates == {"none", "PEER_COMMITTED", "COMPLETED", "AMBIGUOUS"}
ReceiptStates == {"none", "EFFECT_PREPARED", "SUCCEEDED", "REJECTED"}
RequestStates == {"QUEUED", "RUNNING", "SUCCEEDED", "BLOCKED", "FAILED"}

Init ==
    /\ run = [s \in Starts |-> "none"] /\ source = [s \in Starts |-> "none"]
    /\ receipt = [k \in Keys |-> "none"] /\ entity = [k \in Keys |-> NoStart]
    /\ outbox = {} /\ request = [c \in Checks |-> "QUEUED"]
    /\ peer = [s \in Starts |-> "none"] /\ bound = {}
    /\ pc = [t \in Threads |-> "off"] /\ cur = [t \in Threads |-> NoStart]
    /\ todo = [t \in Threads |-> {}]
    /\ seen = [t \in Threads |-> <<"none", "none">>]
    /\ reconciling = [t \in Threads |-> FALSE]
    /\ writable = TRUE /\ ambiguous = [t \in Threads |-> FALSE]
    /\ answer = [k \in Keys |-> "none"]
    /\ crashes = 0 /\ busy = 0 /\ losses = 0

Active == {s \in Starts : run[s] \in {"CREATED", "QUEUED", "PAUSING", "PAUSED"}}
Up == pc["main"] # "off"
Serving == pc["main"] = "idle"

Goto(t, l) == pc' = [pc EXCEPT ![t] = l]
Answer(k, a) == answer' = [answer EXCEPT ![k] = a]

\* The process ends: threads and their memory are gone.
HostDown ==
    /\ pc' = [t \in Threads |-> "off"] /\ cur' = [t \in Threads |-> NoStart]
    /\ todo' = [t \in Threads |-> {}]
    /\ seen' = [t \in Threads |-> <<"none", "none">>]
    /\ reconciling' = [t \in Threads |-> FALSE]

\* A run that was never seen before: its idempotency key has no run, and a
\* lost one is not created again under its old identifier.
Unused(s) == run[s] = "none" /\ peer[s] = "none"

CreateRun(s) ==
    /\ Active = {} /\ Unused(s)
    /\ run' = [run EXCEPT ![s] = "CREATED"]
    /\ source' = [source EXCEPT ![s] = "PREPARED"]

\* The stores' idempotent writes: an existing row is kept, a row moves on only
\* from the expected state.
RecordHandoff(row, state) == IF row = "none" THEN state ELSE row
TransitionHandoff(row, expected, next) == IF row = expected THEN next ELSE row
ReleaseCreatedRun(row) == IF row = "CREATED" THEN "QUEUED" ELSE row

Advance(t, s) ==
    /\ Goto(t, "peer") /\ cur' = [cur EXCEPT ![t] = s]
    /\ UNCHANGED <<todo, seen, reconciling>>

-----------------------------------------------------------------------------
(* START_RUN *)

\* A new key: the run, the receipt and the source handoff in one transaction.
StartRun(k) ==
    /\ Serving /\ writable /\ receipt[k] = "none"
    /\ CreateRun(k)
    /\ receipt' = [receipt EXCEPT ![k] = "EFFECT_PREPARED"]
    /\ entity' = [entity EXCEPT ![k] = k]
    /\ Advance("main", k)
    /\ UNCHANGED <<outbox, request, recovery, status, answer, faults>>

\* The job already has an active run and it is still CREATED.  The same source
\* handoff is recorded again; that of a check differs in its payload.
StartRunOnCreated(k) ==
    /\ Serving /\ writable /\ receipt[k] = "none"
    /\ \E s \in Active : run[s] = "CREATED" /\
         IF s \in Keys
           THEN /\ receipt' = [receipt EXCEPT ![k] = "EFFECT_PREPARED"]
                /\ entity' = [entity EXCEPT ![k] = s]
                /\ Answer(k, "accepted")
           ELSE Answer(k, "rejected") /\ UNCHANGED <<receipt, entity>>
    /\ UNCHANGED <<run, source, outbox, request, recovery, threads, status, faults>>

\* The active run is past CREATED: preparing its handoff raises, the
\* transaction is rolled back and the error ends the pipe loop.
StartRunOnActive(k) ==
    /\ Serving /\ writable /\ receipt[k] = "none"
    /\ \E s \in Active : run[s] # "CREATED"
    /\ HostDown
    /\ UNCHANGED <<catalog, recovery, status, answer, faults>>

\* A failed precondition, or commands are disabled.
RejectStart(k) ==
    /\ Serving /\ receipt[k] = "none" /\ (writable => Active = {})
    /\ receipt' = [receipt EXCEPT ![k] = "REJECTED"] /\ Answer(k, "rejected")
    /\ UNCHANGED <<run, source, entity, outbox, request, recovery, threads, status, faults>>

\* The same command again.
ReplayStart(k) ==
    /\ Serving /\ receipt[k] # "none"
    /\ IF writable /\ receipt[k] # "REJECTED" /\ run[k] # "none"
         THEN Advance("main", k) /\ UNCHANGED answer
         ELSE /\ Answer(k, IF writable /\ receipt[k] # "REJECTED" THEN "accepted" ELSE "rejected")
              /\ UNCHANGED threads
    /\ UNCHANGED <<catalog, recovery, status, faults>>

-----------------------------------------------------------------------------
(* A backup check that starts a run when it is safe *)

Settle(c, s) == request' = [request EXCEPT ![c] = s]

ClaimCheck(c) ==
    /\ pc["executor"] = "idle" /\ request[c] = "QUEUED"
    /\ \/ Active = {c} /\ Settle(c, "SUCCEEDED") /\ UNCHANGED threads
       \/ Active \ {c} # {} /\ Settle(c, "BLOCKED") /\ UNCHANGED threads
       \/ /\ Active = {} /\ Settle(c, "RUNNING")
          /\ Goto("executor", "analyse") /\ cur' = [cur EXCEPT !["executor"] = c]
          /\ UNCHANGED <<todo, seen, reconciling>>
    /\ UNCHANGED <<run, source, receipt, entity, outbox, recovery, status, answer, faults>>

\* The analysis and the plan are ready.  A run that exists already, or that
\* another command started meanwhile, makes the handoff fail.
StartWhenSafe ==
    LET c == cur["executor"] IN
    /\ pc["executor"] = "analyse"
    /\ IF Active = {} /\ Unused(c)
         THEN CreateRun(c) /\ Advance("executor", c) /\ UNCHANGED request
         ELSE /\ Settle(c, "FAILED") /\ Goto("executor", "idle")
              /\ UNCHANGED <<run, source, cur, todo, seen, reconciling>>
    /\ UNCHANGED <<receipt, entity, outbox, recovery, status, answer, faults>>

\* The analysis ends without a run to start.
CheckWithoutRun ==
    /\ pc["executor"] = "analyse" /\ Goto("executor", "idle")
    /\ \E s \in {"SUCCEEDED", "BLOCKED", "FAILED"} : Settle(cur["executor"], s)
    /\ UNCHANGED <<run, source, receipt, entity, outbox, recovery, cur, todo, seen,
                   reconciling, status, answer, faults>>

-----------------------------------------------------------------------------
(* advance_run_start *)

\* Mutant: the peer row is written without the binding of the run.
CommitPeerUnbound(t) ==
    /\ pc[t] = "peer" /\ Goto(t, "confirm")
    /\ bound' = bound
    /\ peer' = [peer EXCEPT ![cur[t]] = RecordHandoff(@, "PEER_COMMITTED")]
    /\ UNCHANGED <<catalog, cur, todo, seen, reconciling, status, answer, faults>>

CommitPeer(t) ==
    /\ pc[t] = "peer" /\ Goto(t, "confirm")
    /\ bound' = bound \cup {cur[t]}
    /\ peer' = [peer EXCEPT ![cur[t]] = RecordHandoff(@, "PEER_COMMITTED")]
    /\ UNCHANGED <<catalog, cur, todo, seen, reconciling, status, answer, faults>>

\* The receipt and its outbox message, in the transaction that releases the run.
AcceptReceipt(s) ==
    IF s \in Keys
      THEN /\ receipt' = [receipt EXCEPT ![s] = "SUCCEEDED"] /\ outbox' = outbox \cup {s}
      ELSE UNCHANGED <<receipt, outbox>>

\* Mutant: the source is complete as soon as it is confirmed.
ConfirmCompletes(t) ==
    LET s == cur[t] IN
    /\ pc[t] = "confirm" /\ Goto(t, "load")
    /\ IF source[s] = "PREPARED"
         THEN /\ run' = [run EXCEPT ![s] = ReleaseCreatedRun(@)]
              /\ source' = [source EXCEPT ![s] = "COMPLETED"]
         ELSE UNCHANGED <<run, source>>
    /\ AcceptReceipt(s)
    /\ UNCHANGED <<entity, request, recovery, cur, todo, seen, reconciling, status, answer, faults>>

ConfirmSource(t) ==
    LET s == cur[t] IN
    /\ pc[t] = "confirm" /\ Goto(t, "load")
    /\ IF source[s] = "PREPARED"
         THEN /\ run' = [run EXCEPT ![s] = ReleaseCreatedRun(@)]
              /\ source' = [source EXCEPT ![s] = "SOURCE_CONFIRMED"]
         ELSE UNCHANGED <<run, source>>
    /\ AcceptReceipt(s)
    /\ UNCHANGED <<entity, request, recovery, cur, todo, seen, reconciling, status, answer, faults>>

\* complete_run_start reads both rows before it writes either.
LoadHandoffs(t) ==
    LET s == cur[t] IN
    /\ pc[t] = "load" /\ Goto(t, IF source[s] = "COMPLETED" THEN "done" ELSE "completePeer")
    /\ seen' = [seen EXCEPT ![t] = <<source[s], peer[s]>>]
    /\ UNCHANGED <<catalog, recovery, cur, todo, reconciling, status, answer, faults>>

CompletePeer(t) ==
    /\ pc[t] = "completePeer" /\ Goto(t, "completeSource")
    /\ peer' = [peer EXCEPT ![cur[t]] =
                   IF seen[t][2] = "PEER_COMMITTED"
                     THEN TransitionHandoff(@, "PEER_COMMITTED", "COMPLETED") ELSE @]
    /\ UNCHANGED <<catalog, bound, cur, todo, seen, reconciling, status, answer, faults>>

CompleteSource(t) ==
    /\ pc[t] = "completeSource" /\ Goto(t, "done")
    /\ source' = [source EXCEPT ![cur[t]] = TransitionHandoff(@, "SOURCE_CONFIRMED", "COMPLETED")]
    /\ UNCHANGED <<run, receipt, entity, outbox, request, recovery, cur, todo, seen,
                   reconciling, status, answer, faults>>

\* The caller's last step: an answer, the end of the check, or the next handoff.
Advanced(t) ==
    /\ pc[t] = "done" /\ cur' = [cur EXCEPT ![t] = NoStart]
    /\ Goto(t, IF reconciling[t] THEN "reconcile" ELSE "idle")
    /\ IF reconciling[t] \/ t # "main" THEN UNCHANGED answer ELSE Answer(cur[t], "accepted")
    /\ IF reconciling[t] \/ t # "executor" THEN UNCHANGED request ELSE Settle(cur[t], "SUCCEEDED")
    /\ UNCHANGED <<run, source, receipt, entity, outbox, recovery, todo, seen,
                   reconciling, status, faults>>

\* A transaction of the saga meets a busy database and is rolled back.  The
\* error leaves a runtime build unfinished; it ends a check as FAILED; it is
\* an error answer to a command, except that the confirming transaction's
\* storage failure is of a class no handler catches and ends the pipe loop.
Busy(t) ==
    /\ pc[t] \in {"peer", "confirm", "completePeer", "completeSource"}
    /\ busy + losses < MaxFaults /\ busy' = busy + 1
    /\ \/ t = "main" /\ (reconciling[t] \/ pc[t] = "confirm")
          /\ HostDown /\ UNCHANGED <<answer, request>>
       \/ t # "main" /\ reconciling[t]
          /\ Goto(t, "dead") /\ cur' = [cur EXCEPT ![t] = NoStart]
          /\ todo' = [todo EXCEPT ![t] = {}] /\ reconciling' = [reconciling EXCEPT ![t] = FALSE]
          /\ UNCHANGED <<seen, answer, request>>
       \/ /\ ~reconciling[t] /\ ~(t = "main" /\ pc[t] = "confirm")
          /\ Goto(t, "idle") /\ cur' = [cur EXCEPT ![t] = NoStart]
          /\ IF t = "main" THEN Answer(cur[t], "rejected") ELSE UNCHANGED answer
          /\ IF t = "executor" THEN Settle(cur[t], "FAILED") ELSE UNCHANGED request
          /\ UNCHANGED <<todo, seen, reconciling>>
    /\ UNCHANGED <<run, source, receipt, entity, outbox, recovery, status, crashes, losses>>

-----------------------------------------------------------------------------
(* reconcile_pending, while a runtime is built *)

\* A handoff of the run is in one of the databases at least.
Known(s) == source[s] # "none" \/ peer[s] # "none"

BuildRuntime(t) ==
    /\ pc[t] = "off" /\ (t = "main" \/ Serving)
    /\ Goto(t, "reconcile") /\ reconciling' = [reconciling EXCEPT ![t] = TRUE]
    /\ todo' = [todo EXCEPT ![t] = {s \in Starts : Known(s)}]
    /\ ambiguous' = [ambiguous EXCEPT ![t] = FALSE]
    /\ UNCHANGED <<catalog, recovery, cur, seen, writable, answer, faults>>

Diverged(s) == source[s] = "none" \/ (source[s] = "COMPLETED" /\ peer[s] # "COMPLETED")

\* Mutant: the disagreement is recorded but not reported.
ReconcileAmbiguousSilent(t) ==
    /\ pc[t] = "reconcile"
    /\ \E s \in todo[t] :
         /\ Diverged(s) \/ peer[s] = "AMBIGUOUS"
         /\ todo' = [todo EXCEPT ![t] = @ \ {s}]
         /\ peer' = [peer EXCEPT ![s] = TransitionHandoff(@, "PEER_COMMITTED", "AMBIGUOUS")]
    /\ UNCHANGED <<catalog, bound, pc, cur, seen, reconciling, status, answer, faults>>

\* The stores disagree: the peer, if it is not settled, becomes AMBIGUOUS.
ReconcileAmbiguous(t) ==
    /\ pc[t] = "reconcile"
    /\ \E s \in todo[t] :
         /\ Diverged(s) \/ peer[s] = "AMBIGUOUS"
         /\ todo' = [todo EXCEPT ![t] = @ \ {s}]
         /\ peer' = [peer EXCEPT ![s] = TransitionHandoff(@, "PEER_COMMITTED", "AMBIGUOUS")]
    /\ ambiguous' = [ambiguous EXCEPT ![t] = TRUE]
    /\ UNCHANGED <<catalog, bound, pc, cur, seen, reconciling, writable, answer, faults>>

\* Mutant: a source row that is already confirmed is taken for complete.
ReconcileConfirmedSkipped(t) ==
    /\ pc[t] = "reconcile"
    /\ \E s \in todo[t] :
         /\ ~Diverged(s) /\ peer[s] # "AMBIGUOUS"
         /\ todo' = [todo EXCEPT ![t] = @ \ {s}]
         /\ IF source[s] \in {"SOURCE_CONFIRMED", "COMPLETED"}
              THEN UNCHANGED <<pc, cur>>
              ELSE Goto(t, "peer") /\ cur' = [cur EXCEPT ![t] = s]
    /\ UNCHANGED <<catalog, recovery, seen, reconciling, status, answer, faults>>

ReconcileHandoff(t) ==
    /\ pc[t] = "reconcile"
    /\ \E s \in todo[t] :
         /\ ~Diverged(s) /\ peer[s] # "AMBIGUOUS"
         /\ todo' = [todo EXCEPT ![t] = @ \ {s}]
         /\ IF source[s] = "COMPLETED"
              THEN UNCHANGED <<pc, cur>>
              ELSE Goto(t, "peer") /\ cur' = [cur EXCEPT ![t] = s]
    /\ UNCHANGED <<catalog, recovery, seen, reconciling, status, answer, faults>>

\* The rest of the build.  Only main's build requeues interrupted checks.
RuntimeBuilt(t) ==
    /\ pc[t] = "reconcile" /\ todo[t] = {} /\ Goto(t, "idle")
    /\ reconciling' = [reconciling EXCEPT ![t] = FALSE]
    /\ IF t = "main"
         THEN /\ writable' = ~ambiguous[t]
              /\ request' = [c \in Checks |->
                     IF request[c] = "RUNNING" THEN "QUEUED" ELSE request[c]]
         ELSE UNCHANGED <<writable, request>>
    /\ UNCHANGED <<run, source, receipt, entity, outbox, recovery, cur, todo, seen,
                   ambiguous, answer, faults>>

-----------------------------------------------------------------------------
(* Run control, execution and faults *)

\* Pause and resume commands; the executor ends the pause and the run.
PauseRun(s) ==
    /\ Serving /\ writable /\ run[s] \in {"CREATED", "QUEUED"}
    /\ run' = [run EXCEPT ![s] = "PAUSING"]
    /\ UNCHANGED <<source, receipt, entity, outbox, request, recovery, threads, status, answer, faults>>

ResumeRun(s) ==
    /\ Serving /\ writable /\ run[s] = "PAUSED"
    /\ run' = [run EXCEPT ![s] = "QUEUED"]
    /\ UNCHANGED <<source, receipt, entity, outbox, request, recovery, threads, status, answer, faults>>

Execute(s) ==
    /\ pc["executor"] = "idle"
    /\ \/ run[s] = "PAUSING" /\ run' = [run EXCEPT ![s] = "PAUSED"]
       \/ run[s] = "QUEUED" /\ run' = [run EXCEPT ![s] = "DONE"]
    /\ UNCHANGED <<source, receipt, entity, outbox, request, recovery, threads, status, answer, faults>>

Crash ==
    /\ Up /\ crashes < MaxCrashes /\ crashes' = crashes + 1 /\ HostDown
    /\ UNCHANGED <<catalog, recovery, status, answer, busy, losses>>

\* While the host is down a database file is replaced by a copy made before
\* the run existed.
LoseCatalog(s) ==
    /\ ~Up /\ busy + losses < MaxFaults /\ losses' = losses + 1 /\ run[s] # "none"
    /\ run' = [run EXCEPT ![s] = "none"] /\ source' = [source EXCEPT ![s] = "none"]
    /\ receipt' = [k \in Keys |-> IF entity[k] = s THEN "none" ELSE receipt[k]]
    /\ entity' = [k \in Keys |-> IF entity[k] = s THEN NoStart ELSE entity[k]]
    /\ outbox' = outbox \ {s}
    /\ request' = [c \in Checks |-> IF c = s THEN "QUEUED" ELSE request[c]]
    /\ UNCHANGED <<recovery, threads, status, answer, crashes, busy>>

LoseRecovery(s) ==
    /\ ~Up /\ busy + losses < MaxFaults /\ losses' = losses + 1 /\ peer[s] # "none"
    /\ peer' = [peer EXCEPT ![s] = "none"] /\ bound' = bound \ {s}
    /\ UNCHANGED <<catalog, threads, status, answer, crashes, busy>>

-----------------------------------------------------------------------------
SagaStep(t) ==
    \/ CommitPeer(t) \/ ConfirmSource(t) \/ LoadHandoffs(t)
    \/ CompletePeer(t) \/ CompleteSource(t) \/ Advanced(t)

Build(t) ==
    BuildRuntime(t) \/ ReconcileAmbiguous(t) \/ ReconcileHandoff(t) \/ RuntimeBuilt(t)

Command(k) ==
    \/ StartRun(k) \/ StartRunOnCreated(k) \/ StartRunOnActive(k)
    \/ RejectStart(k) \/ ReplayStart(k)

Next ==
    \/ \E t \in Threads : SagaStep(t) \/ Build(t) \/ Busy(t)
    \/ \E k \in Keys : Command(k)
    \/ \E c \in Checks : ClaimCheck(c)
    \/ StartWhenSafe \/ CheckWithoutRun
    \/ \E s \in Starts : PauseRun(s) \/ ResumeRun(s) \/ Execute(s)
    \/ \E s \in Starts : LoseCatalog(s) \/ LoseRecovery(s)
    \/ Crash

Spec == Init /\ [][Next]_vars

\* The threads run and the host is started again after a crash; users,
\* crashes and busy databases owe nothing.
LiveSpec == Spec /\ \A t \in Threads : WF_vars(SagaStep(t) \/ Build(t))

-----------------------------------------------------------------------------
\* Every variable of the saga, its callers and its databases keeps its type.
TypeOK ==
    /\ run \in [Starts -> RunStates] /\ source \in [Starts -> SourceStates]
    /\ receipt \in [Keys -> ReceiptStates] /\ entity \in [Keys -> Starts \cup {NoStart}]
    /\ outbox \subseteq Keys /\ request \in [Checks -> RequestStates]
    /\ peer \in [Starts -> PeerStates] /\ bound \subseteq Starts
    /\ pc \in [Threads -> {"off", "reconcile", "idle", "analyse", "peer", "confirm", "load",
                           "completePeer", "completeSource", "done", "dead"}]
    /\ cur \in [Threads -> Starts \cup {NoStart}] /\ todo \in [Threads -> SUBSET Starts]
    /\ seen \in [Threads -> SourceStates \X PeerStates]
    /\ reconciling \in [Threads -> BOOLEAN]
    /\ writable \in BOOLEAN /\ ambiguous \in [Threads -> BOOLEAN]
    /\ answer \in [Keys -> {"none", "accepted", "rejected"}]
    /\ crashes \in 0..MaxCrashes /\ busy \in 0..MaxFaults /\ losses \in 0..MaxFaults

\* ARCHITECTURE.md: a receipt is never lifted without the matching recovery
\* binding; and its outbox message is written with it.  While no database was
\* lost, a settled start has its binding, its confirmed source and its message.
SettledIsBound ==
    losses = 0 =>
      \A k \in Keys : receipt[k] = "SUCCEEDED" =>
          k \in bound /\ source[k] \in {"SOURCE_CONFIRMED", "COMPLETED"} /\ k \in outbox

\* Threads that complete the same handoffs at the same time, crashes and busy
\* databases never make the reconciler believe that the stores diverged:
\* without a lost database the source completes after its peer and commands
\* stay enabled.
NoFalseAmbiguity ==
    losses = 0 =>
      /\ writable
      /\ \A s \in Starts : source[s] = "COMPLETED" => peer[s] = "COMPLETED"

\* A database that was lost is noticed, whichever of the two it was: while the
\* stores disagree about a run, the source gone beside a peer, or complete
\* beside a peer that is gone or was never completed, the serving host that was
\* started in that state accepts no commands.
DivergenceBlocksCommands ==
    [][(Serving' /\ ~Serving /\ reconciling["main"] /\ \E s \in Starts : Diverged(s)' /\ Known(s)')
       => ~writable']_vars

\* The job never has two active runs, whichever of commands, checks and
\* replays race to start one.
OneActiveRun == Cardinality(Active) <= 1

\* ARCHITECTURE.md, run start, step 4: only after the source is confirmed may
\* the run be executed.
QueuedIsReleased ==
    \A s \in Starts : run[s] = "QUEUED" => source[s] \in {"SOURCE_CONFIRMED", "COMPLETED"}

\* Whatever transaction a crash falls between, every prepared start is completed
\* in both databases, unless a database was lost or refused a transaction.
StartsComplete ==
    \A s \in Starts :
        source[s] = "PREPARED" ~> (source[s] = "COMPLETED" \/ losses > 0 \/ busy > 0)
=============================================================================
