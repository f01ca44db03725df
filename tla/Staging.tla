------------------------------ MODULE Staging ------------------------------
(***************************************************************************)
(* Staging of one run target: the executor takes the operations journaled  *)
(* as PLANNED one phase at a time, in plan order, to STAGING_VERIFIED.     *)
(* Files of one folder are transferred together by a Robocopy child that   *)
(* works in a Job Object and copies into an inbox; the inbox is checked    *)
(* against the batch manifest and its files are linked as payloads.        *)
(* The user may edit source and target at any time, the endpoints may go   *)
(* away, steps may fail, and the host may crash between any two steps.     *)
(*                                                                         *)
(* The state of a file is abstracted to where it stands to the plan:       *)
(*   plan     the planned bytes                                            *)
(*   twin     other bytes with the planned size and identity               *)
(*   edit     other bytes, another identity                                *)
(*   part     a copy that was cut off                                      *)
(*   marker   the marker of a staged directory                             *)
(***************************************************************************)
EXTENDS Integers, FiniteSets, FiniteSetsExt

CONSTANTS TfOps,          \* the operations, numbered in plan order
          DirOps,         \* those that create a directory; the others copy
          StagingAttempts,\* failures of one operation before it is skipped
          BatchLimit,     \* files a batch may hold
          MaxTrouble      \* bound: failed calls, crashes, user edits and outages

ASSUME TfAssumption ==
    /\ TfOps \subseteq Nat \ {0} /\ IsFiniteSet(TfOps) /\ DirOps \subseteq TfOps
    /\ StagingAttempts \in Nat \ {0} /\ BatchLimit \in Nat \ {0}
    /\ MaxTrouble \in Nat

VARIABLES
    sphase,   \* phase journaled for each operation
    sfails,   \* staging_failure_count
    timer,    \* operations whose retry is not due yet
    fp,       \* expected_source_fingerprint_json
    src,      \* the source file
    met,      \* operations whose target precondition holds
    payload,  \* the staging payload
    inbox,    \* inbox of each batch head: what each file of it holds
    at,       \* where the executor is inside a batch transfer
    batch,    \* the files of that transfer; its least element is the head
    child,    \* state of the transfer child
    stray,    \* head of a batch whose child could not be stopped, Never or Over
    waits,    \* the run target waits for its endpoint
    recent,   \* operations this process published in a batch
    online,   \* both endpoints are reachable
    tfaults, tevents

tfJournal == <<sphase, sfails, timer, fp>>
tfDisk == <<src, met, payload, inbox>>
tfHost == <<waits, at, batch, child, stray, recent>>
tfEnv == <<online, tfaults, tevents>>
tfVars == <<tfJournal, tfDisk, tfHost, tfEnv>>

None == "none"
Never == 0                \* every child could be stopped
Over == -1                \* one could not, and has ended
Phases == <<"PLANNED", "SOURCE_VALIDATED", "SOURCE_STABILITY_BOUND",
            "TARGET_PRECONDITION_VALIDATED", "STAGING_ALLOCATED", "TRANSFERRED",
            "STAGING_DURABLE", "STAGING_VERIFIED">>
Rank(o) == CHOOSE i \in DOMAIN Phases : Phases[i] = sphase[o]
Allocated == 5
Staged(o) == sphase[o] \in {"STAGING_VERIFIED", "SKIPPED"}
Files == TfOps \ DirOps

TfInit ==
    /\ sphase = [o \in TfOps |-> "PLANNED"]
    /\ sfails = [o \in TfOps |-> 0] /\ timer = {}
    /\ fp = [o \in TfOps |-> None]
    /\ src = [o \in TfOps |-> IF o \in DirOps THEN None ELSE "plan"]
    /\ met = TfOps
    /\ payload = [o \in TfOps |-> None]
    /\ inbox = [o \in TfOps |-> {}]
    /\ waits = FALSE
    /\ at = "idle" /\ batch = {} /\ child = None /\ stray = Never /\ recent = {}
    /\ online = TRUE /\ tfaults = 0 /\ tevents = 0

-----------------------------------------------------------------------------
(* Which operation is next, and what becomes of a failed step.             *)

TfPending == {o \in TfOps : ~Staged(o)}

\* While the head waits for its transfer and its batch is not full, later files
\* are prepared first, so that they travel with it.
NextStaging ==
    LET head == Min(TfPending)
        preparing == {o \in TfPending : Rank(o) < Allocated}
        waiting == {o \in TfPending : Rank(o) = Allocated}
        full == Cardinality(waiting) >= BatchLimit
    IN  IF Rank(head) # Allocated \/ head \in DirOps \/ full \/ preparing = {}
        THEN head
        ELSE IF Min(preparing) \in DirOps THEN head ELSE Min(preparing)

StagingDue(o) == o \notin timer

Takes(o, phase) ==
    /\ at = "idle" /\ ~waits /\ TfPending # {} /\ o = NextStaging /\ StagingDue(o)
    /\ sphase[o] = phase

TfFault == tfaults + tevents < MaxTrouble /\ tfaults' = tfaults + 1

Advance(o) ==
    /\ sphase' = [sphase EXCEPT ![o] = Phases[Rank(o) + 1]]
    /\ UNCHANGED <<sfails, timer>>

StagingExhausted(attempts) == attempts >= StagingAttempts

\* A retryable failure is counted and waits for its back-off; the last one
\* gives the file up.
RecordStagingFailure(o) ==
    /\ sfails' = [sfails EXCEPT ![o] = @ + 1]
    /\ IF StagingExhausted(sfails'[o])
       THEN sphase' = [sphase EXCEPT ![o] = "SKIPPED"] /\ timer' = timer \ {o}
       ELSE UNCHANGED sphase /\ timer' = timer \cup {o}
    /\ UNCHANGED fp

\* While an endpoint cannot be reached every failure becomes a wait.
CountFailure(o) ==
    IF online THEN RecordStagingFailure(o) /\ UNCHANGED waits
    ELSE waits' = TRUE /\ UNCHANGED tfJournal

\* The waiting target is queued again once its endpoint answers.
Requeue ==
    /\ waits /\ online /\ waits' = FALSE
    /\ UNCHANGED <<tfJournal, tfDisk, at, batch, child, stray, recent, tfEnv>>

Due(o) ==
    /\ o \in timer /\ timer' = timer \ {o}
    /\ UNCHANGED <<sphase, sfails, fp, tfDisk, tfHost, tfEnv>>

-----------------------------------------------------------------------------
(* The phases before the transfer.                                         *)

\* Size and identity are the planned ones: twin bytes pass.
SameIdentity(o) == src[o] \in {"plan", "twin"}

ValidateSource(o) ==
    /\ Takes(o, "PLANNED") /\ online
    /\ o \in DirOps \/ SameIdentity(o)
    /\ fp' = [fp EXCEPT ![o] = IF o \in DirOps THEN "marker" ELSE src[o]]
    /\ Advance(o)
    /\ UNCHANGED <<tfDisk, tfHost, tfEnv>>

BindStability(o) ==
    /\ Takes(o, "SOURCE_VALIDATED")
    /\ Advance(o)
    /\ UNCHANGED <<fp, tfDisk, tfHost, tfEnv>>

ValidateTarget(o) ==
    /\ Takes(o, "SOURCE_STABILITY_BOUND") /\ online
    /\ o \in met
    /\ Advance(o)
    /\ UNCHANGED <<fp, tfDisk, tfHost, tfEnv>>

AllocateStaging(o) ==
    /\ Takes(o, "TARGET_PRECONDITION_VALIDATED") /\ online
    /\ Advance(o)
    /\ UNCHANGED <<fp, tfDisk, tfHost, tfEnv>>

\* The phases whose reads and writes may fail in a way that is retried.
FailStep(o) ==
    /\ \E ph \in {"PLANNED", "TARGET_PRECONDITION_VALIDATED", "TRANSFERRED",
                  "STAGING_DURABLE"} : Takes(o, ph)
    /\ IF online THEN TfFault ELSE UNCHANGED tfaults
    /\ CountFailure(o)
    /\ UNCHANGED <<tfDisk, at, batch, child, stray, recent, online, tevents>>

-----------------------------------------------------------------------------
(* The transfer.                                                           *)

\* A directory is a marker in a temporary directory that is renamed.
TransferDirectory(o) ==
    /\ Takes(o, "STAGING_ALLOCATED") /\ online /\ o \in DirOps
    /\ payload[o] \in {None, fp[o]}
    /\ payload' = [payload EXCEPT ![o] = fp[o]]
    /\ Advance(o)
    /\ UNCHANGED <<fp, src, met, inbox, tfHost, tfEnv>>

SameSize(a, b) == a = b \/ {a, b} \subseteq {"plan", "twin"}

\* A payload this process published in an earlier batch is only measured.
TransferExisting(o) ==
    /\ Takes(o, "STAGING_ALLOCATED") /\ online /\ o \in Files
    /\ payload[o] # None
    /\ \/ o \in recent /\ SameSize(payload[o], fp[o])
       \/ payload[o] = fp[o]
    /\ Advance(o)
    /\ UNCHANGED <<fp, tfDisk, tfHost, tfEnv>>

\* The files that travel with the head: prepared, due, not staged, unchanged.
Selected(o) ==
    LET fit == {f \in Files : /\ sphase[f] = "STAGING_ALLOCATED" /\ StagingDue(f)
                              /\ payload[f] = None /\ SameIdentity(f)}
    IN  CHOOSE B \in SUBSET (fit \cup {o}) :
          /\ o \in B /\ Cardinality(B) <= BatchLimit
          /\ \/ B = fit \cup {o}
             \/ /\ Cardinality(B) = BatchLimit
                /\ \A f \in B \ {o}, g \in fit \ B : f < g

\* A file a stray child holds open can neither be deleted nor renamed.
InUse(b) == stray = b /\ \E f \in inbox[b] : f.holds = "part"

\* Mutant: a stale inbox is not moved away.
NeedsNoInbox(o) ==
    /\ Takes(o, "STAGING_ALLOCATED") /\ online /\ o \in Files
    /\ payload[o] = None /\ SameIdentity(o) /\ inbox[o] = {}
    /\ batch' = Selected(o) /\ at' = "launch" /\ child' = "suspended"
    /\ UNCHANGED <<tfJournal, tfDisk, waits, stray, recent, tfEnv>>
\* A stale inbox is moved to quarantine, the batch is selected, its manifests
\* are written, the inbox is made, and the child is created suspended.
BeginBatch(o) ==
    /\ Takes(o, "STAGING_ALLOCATED") /\ online /\ o \in Files
    /\ payload[o] = None /\ SameIdentity(o) /\ ~InUse(o)
    /\ batch' = Selected(o)
    /\ inbox' = [inbox EXCEPT ![o] = {}]
    /\ at' = "launch" /\ child' = "suspended"
    /\ UNCHANGED <<tfJournal, src, met, payload, waits, stray, recent, tfEnv>>

Head == Min(batch)

\* Leaves the transfer. The inbox is emptied, unless something in it is open.
EndBatch(discard) ==
    /\ at' = "idle" /\ batch' = {}
    /\ inbox' = IF discard /\ online /\ ~InUse(Head)
                THEN [inbox EXCEPT ![Head] = {}] ELSE inbox

AssignToJob ==
    /\ at = "launch" /\ child = "suspended"
    /\ child' = "assigned"
    /\ UNCHANGED <<waits, tfJournal, tfDisk, at, batch, stray, recent, tfEnv>>

ResumeChild ==
    /\ at = "launch" /\ child = "assigned"
    /\ child' = "running" /\ at' = "wait"
    /\ UNCHANGED <<waits, tfJournal, tfDisk, batch, stray, recent, tfEnv>>

\* A child that cannot be contained is ended; the failure is not counted.
ContainmentFails ==
    /\ at = "launch" /\ TfFault
    /\ child' = None /\ EndBatch(TRUE)
    /\ UNCHANGED <<waits, tfJournal, src, met, payload, stray, recent, online, tevents>>

\* A running child copies the batch file by file.
Copies(b, files) ==
    LET held == inbox[b]
        open == {e \in held : e.holds = "part"}
        left == {f \in files : \A e \in held : e.file # f}
    IN  \/ /\ open = {} /\ left # {} /\ src[Min(left)] # None
           /\ inbox' = [inbox EXCEPT ![b] = @ \cup {[file |-> Min(left), holds |-> "part"]}]
        \/ \E e \in open :
             /\ src[e.file] # None
             /\ inbox' = [inbox EXCEPT ![b] =
                            (@ \ {e}) \cup {[file |-> e.file, holds |-> src[e.file]]}]

ChildCopies ==
    /\ child = "running" /\ online /\ Copies(Head, batch)
    /\ UNCHANGED <<tfJournal, src, met, payload, tfHost, tfEnv>>

ChildExits ==
    /\ child = "running"
    /\ \/ /\ batch \subseteq {e.file : e \in inbox[Head]}
          /\ \A e \in inbox[Head] : e.holds # "part"
          /\ child' = "copied" /\ UNCHANGED tfaults
       \/ /\ ~online \/ \E f \in batch : src[f] = None
          /\ child' = "failed" /\ UNCHANGED tfaults
       \/ TfFault /\ child' = "failed"
    /\ UNCHANGED <<waits, tfJournal, tfDisk, at, batch, stray, recent, online, tevents>>

\* The wait ends: every source of the batch must still be the planned one, and
\* only then does the exit code count. A source that is gone is a failed read
\* of the head's.
WaitReturns ==
    LET changed == {f \in batch : ~SameIdentity(f)} IN
    /\ at = "wait" /\ child \in {"copied", "failed"}
    /\ child' = None
    /\ \/ /\ online /\ child = "copied" /\ changed = {}
          /\ at' = "publish"
          /\ UNCHANGED <<tfJournal, waits, batch, inbox>>
       \/ /\ online /\ changed # {} /\ src[Min(changed)] # None
          /\ \E discard \in BOOLEAN : EndBatch(discard)
          /\ UNCHANGED <<tfJournal, waits>>
       \/ /\ changed # {} /\ src[Min(changed)] = None
          /\ CountFailure(Head) /\ EndBatch(FALSE)
       \/ /\ ~online \/ (child = "failed" /\ changed = {})
          /\ CountFailure(Head) /\ EndBatch(TRUE)
    /\ UNCHANGED <<src, met, payload, stray, recent, tfEnv>>

\* A child that takes too long is ended through its job, and the failure counts;
\* one whose handles can neither be used nor closed goes on.
WaitTimesOut ==
    /\ at = "wait" /\ child = "running" /\ online /\ TfFault
    /\ child' = None
    /\ \/ /\ RecordStagingFailure(Head) /\ EndBatch(TRUE) /\ UNCHANGED stray
       \/ /\ stray = Never /\ stray' = Head
          /\ at' = "idle" /\ batch' = {}
          /\ inbox' = IF \E e \in inbox[Head] : e.holds = "part"
                      THEN inbox ELSE [inbox EXCEPT ![Head] = {}]
          /\ UNCHANGED tfJournal
    /\ UNCHANGED <<waits, src, met, payload, recent, online, tevents>>

\* A child nobody waits for goes on copying its files into its inbox, and may
\* write again what it finds there; a payload linked meanwhile is the same file.
StrayCopies ==
    /\ stray \in TfOps /\ online
    /\ \/ Copies(stray, {f \in Files : f >= stray})
       \/ /\ ~InUse(stray)
          /\ \E e \in inbox[stray] :
               inbox' = [inbox EXCEPT ![stray] =
                           (@ \ {e}) \cup {[file |-> e.file, holds |-> "part"]}]
    /\ payload' = [o \in TfOps |->
         IF payload[o] = "part" /\ [file |-> o, holds |-> src[o]] \in inbox'[stray]
         THEN src[o] ELSE payload[o]]
    /\ UNCHANGED <<tfJournal, src, met, tfHost, tfEnv>>

StrayEnds ==
    /\ stray \in TfOps /\ stray' = Over
    /\ UNCHANGED <<waits, tfJournal, tfDisk, at, batch, child, recent, tfEnv>>

\* The inbox holds exactly the files of the manifest, each with its hash.
AsManifest ==
    /\ {e.file : e \in inbox[Head]} = batch
    /\ \A e \in inbox[Head] : e.holds = fp[e.file]

CheckInbox ==
    /\ at = "publish"
    /\ IF online /\ AsManifest
       THEN at' = "link" /\ UNCHANGED <<tfJournal, batch, inbox>>
       ELSE EndBatch(TRUE) /\ IF online /\ InUse(Head) THEN RecordStagingFailure(Head)
                             ELSE UNCHANGED tfJournal
    /\ UNCHANGED <<waits, src, met, payload, child, stray, recent, tfEnv>>

\* One file of the inbox becomes the payload of its operation, never over
\* another one. A copy that is open cannot be unlinked: the failure is counted
\* and the payload stays.
Unlinked == {f \in batch : payload[f] = None}
LinkPayload ==
    /\ at = "link" /\ online /\ Unlinked # {}
    /\ \E e \in inbox[Head] :
         /\ e.file = Min(Unlinked)
         /\ payload' = [payload EXCEPT ![e.file] = e.holds]
         /\ IF e.holds = "part"
            THEN RecordStagingFailure(Head) /\ EndBatch(TRUE)
            ELSE /\ inbox' = [inbox EXCEPT ![Head] = @ \ {e}]
                 /\ UNCHANGED <<tfJournal, at, batch>>
    /\ UNCHANGED <<waits, src, met, child, stray, recent, tfEnv>>

\* A failed link leaves the inbox to the quarantine and is not counted.
LinkFails ==
    /\ at = "link"
    /\ IF online THEN TfFault ELSE UNCHANGED tfaults
    /\ EndBatch(FALSE)
    /\ UNCHANGED <<waits, tfJournal, src, met, payload, child, stray, recent, online, tevents>>

\* Only the head advances; the others find their payload when they are next.
EndTransfer ==
    /\ at = "link" /\ online /\ Unlinked = {}
    /\ recent' = recent \cup batch
    /\ Advance(Head)
    /\ at' = "idle" /\ batch' = {}
    /\ UNCHANGED <<waits, fp, tfDisk, child, stray, tfEnv>>

-----------------------------------------------------------------------------
(* The phases after the transfer.                                          *)

EnsureDurable(o) ==
    /\ Takes(o, "TRANSFERRED") /\ online
    /\ payload[o] # None
    /\ Advance(o)
    /\ UNCHANGED <<fp, tfDisk, tfHost, tfEnv>>

\* Mutant: the hashes of the transfer are taken on trust.
TrustsTransfer(o) ==
    /\ Takes(o, "STAGING_DURABLE") /\ online
    /\ Advance(o)
    /\ UNCHANGED <<fp, tfDisk, tfHost, tfEnv>>
\* The payload is read back and the source read once more.
VerifyStaging(o) ==
    /\ Takes(o, "STAGING_DURABLE") /\ online
    /\ payload[o] = fp[o]
    /\ o \in DirOps \/ (SameIdentity(o) /\ src[o] = fp[o])
    /\ Advance(o)
    /\ UNCHANGED <<fp, tfDisk, tfHost, tfEnv>>

\* A source that is gone by now counts as one that could not be read.
SourceGone(o) ==
    /\ Takes(o, "STAGING_DURABLE") /\ o \in Files
    /\ payload[o] = fp[o] /\ src[o] = None
    /\ CountFailure(o)
    /\ UNCHANGED <<tfDisk, at, batch, child, stray, recent, tfEnv>>

-----------------------------------------------------------------------------
(* The world around the executor.                                          *)

TfEvent == tfaults + tevents < MaxTrouble /\ tevents' = tevents + 1

EditSource ==
    /\ TfEvent
    /\ \E o \in Files, v \in {"twin", "edit", None} :
         src[o] \notin {v, None} /\ src' = [src EXCEPT ![o] = v]
    /\ UNCHANGED <<tfJournal, met, payload, inbox, tfHost, online, tfaults>>

ChangeTarget ==
    /\ TfEvent
    /\ \E o \in met : ~Staged(o) /\ met' = met \ {o}
    /\ UNCHANGED <<tfJournal, src, payload, inbox, tfHost, online, tfaults>>

Disconnect ==
    /\ TfEvent /\ online /\ online' = FALSE
    /\ UNCHANGED <<tfJournal, tfDisk, tfHost, tfaults>>

Reconnect ==
    /\ ~online /\ online' = TRUE
    /\ UNCHANGED <<tfJournal, tfDisk, tfHost, tfaults, tevents>>

\* The host dies, and with it the job and every child in it; a child that was
\* not yet in the job stays suspended for good and writes nothing.
TfCrash ==
    /\ TfFault
    /\ at' = "idle" /\ batch' = {} /\ child' = None /\ recent' = {}
    /\ stray' = IF stray = Never THEN Never ELSE Over
    /\ UNCHANGED <<waits, tfJournal, tfDisk, online, tevents>>

TfPrepare == \E o \in TfOps : \/ ValidateSource(o) \/ BindStability(o)
                              \/ ValidateTarget(o) \/ AllocateStaging(o)
TfBegin == \E o \in TfOps : \/ TransferDirectory(o) \/ TransferExisting(o) \/ BeginBatch(o)
TfFinish == \E o \in TfOps : EnsureDurable(o) \/ VerifyStaging(o) \/ SourceGone(o)
TfBatchStep == \/ AssignToJob \/ ResumeChild \/ WaitReturns \/ CheckInbox
               \/ LinkPayload \/ EndTransfer
TfExecutor == TfPrepare \/ TfBegin \/ TfFinish \/ TfBatchStep
TfChild == ChildCopies \/ ChildExits

TfNext ==
    \/ TfPrepare \/ TfBegin \/ TfFinish \/ TfBatchStep
    \/ \E o \in TfOps : FailStep(o) \/ Due(o)
    \/ Requeue
    \/ ContainmentFails \/ WaitTimesOut \/ LinkFails
    \/ ChildCopies \/ ChildExits \/ StrayCopies \/ StrayEnds
    \/ EditSource \/ ChangeTarget \/ Disconnect \/ Reconnect \/ TfCrash

TfSpec == TfInit /\ [][TfNext]_tfVars

\* The maintenance loop calls the executor for ever, a child copies or exits, a
\* back-off runs out and endpoints come back.
TfFairness ==
    /\ WF_tfVars(TfExecutor) /\ WF_tfVars(LinkFails) /\ WF_tfVars(TfChild)
    /\ WF_tfVars(StrayEnds) /\ WF_tfVars(Reconnect) /\ WF_tfVars(Requeue)
    /\ \A o \in TfOps : WF_tfVars(Due(o))

-----------------------------------------------------------------------------
(* Properties.                                                             *)

TfContents == {None, "plan", "twin", "edit", "part", "marker"}
ChildStates == {None, "suspended", "assigned", "running", "copied", "failed"}

\* Type invariant: a child exists exactly while the executor launches it or waits
\* for it (process_supervisor.py, robocopy.py _run_robocopy), and what an inbox
\* holds is one entry per file.
TfTypeOK ==
    /\ sphase \in [TfOps -> {Phases[i] : i \in DOMAIN Phases} \cup {"SKIPPED"}]
    /\ sfails \in [TfOps -> 0..StagingAttempts]
    /\ timer \subseteq TfPending /\ fp \in [TfOps -> TfContents]
    /\ src \in [TfOps -> TfContents] /\ met \subseteq TfOps
    /\ payload \in [TfOps -> TfContents]
    /\ \A b \in TfOps : /\ inbox[b] \subseteq [file : Files, holds : TfContents \ {None}]
                         /\ \A d, e \in inbox[b] : d.file = e.file => d = e
    /\ at \in {"idle", "launch", "wait", "publish", "link"}
    /\ batch \subseteq Files /\ Cardinality(batch) <= BatchLimit
    /\ child \in ChildStates /\ (child # None <=> at \in {"launch", "wait"})
    /\ stray \in TfOps \cup {Never, Over} /\ recent \subseteq Files /\ {online, waits} \subseteq BOOLEAN

\* What is handed to the commit is the object whose hash the journal holds
\* (adapters/staging.py verify_staging_artifact), whatever happened to the source
\* while it was copied, and although a child that could not be stopped may have
\* written to the inbox between the check and the link.
VerifiedIsJournaled ==
    \A o \in TfOps : sphase[o] = "STAGING_VERIFIED" => payload[o] = fp[o]

\* Content is transferred in plan order, so a folder is there before its files,
\* although later files are prepared early to fill a batch
\* (application/run_staging.py _next_staging_operation).
InPlanOrder ==
    \A o, p \in TfOps :
      (o < p /\ sphase[p] \in {"TRANSFERRED", "STAGING_DURABLE", "STAGING_VERIFIED"})
        => Staged(o)

\* The attempts of staging that were counted against an operation.
Attempts == {a \in TfOps \X (1..StagingAttempts) : a[2] <= sfails[a[1]]}

\* However long an endpoint is away and however often the executor tries again, an
\* outage costs one attempt at most: the one a child fails in it whose end is
\* noticed only when the endpoint is back (adapters/staging.py
\* _raise_endpoint_wait_if_unavailable). Otherwise only failed calls cost attempts,
\* sources that are gone and a child that could not be stopped.
OutageCostsOneAttempt ==
    \/ stray # Never \/ \E f \in Files : src[f] = None
    \/ Cardinality(Attempts) <= tfaults + tevents

Untouched == met = TfOps /\ \A f \in Files : src[f] = "plan"
Torn == \E o \in TfOps : payload[o] = "part"

\* Every operation is staged or given up in the end, through crashes, failures,
\* outages and stale inboxes and manifests (robocopy.py transfer_batch_to_staging),
\* unless the user changed a source or a target, or a child that could not be
\* stopped left a torn payload.
Settles == []<>((\A o \in TfOps : Staged(o)) \/ ~Untouched \/ Torn)
=============================================================================
