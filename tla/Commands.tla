------------------------------ MODULE Commands ------------------------------
(***************************************************************************)
(* A command from the window to the engine host and back: the identity the *)
(* window keeps for a command until it hears of it (main_window), the one  *)
(* command worker and its client (background_queries, engine_client), the  *)
(* durable receipt and its effect in one transaction (ipc/server,          *)
(* command_receipts), the two-transaction commands that register targets,  *)
(* the reconciliation of receipts at start, and the window's own use of    *)
(* all this: the autosaved setup draft, closing the window and leaving the *)
(* host.                                                                   *)
(*                                                                         *)
(* "DRAFT" is the autosave of the setup draft; the other kinds are the     *)
(* user's commands, one handler each; "EXIT" asks for the host's shutdown  *)
(* and has no receipt.  START_RUN, whose receipt spans two stores, is in   *)
(* RunStart.                                                               *)
(***************************************************************************)
EXTENDS Naturals, FiniteSets

CONSTANTS
    ActKinds,     \* the commands the user gives, besides the autosave
    MaxKeys,      \* idempotency keys the window makes
    MaxEdits,     \* edits of the setup draft
    MaxActs,      \* commands the user gives
    MaxCmFaults,  \* lost answers, busy databases, expired sessions, crashes
    MaxCloses     \* times the user closes the window or asks to exit

ASSUME CmAssumption ==
    /\ ActKinds \subseteq
         {"CREATE", "EDIT", "CHECK", "SCAN", "REVIEW", "SCHEDULE", "LIFECYCLE",
          "PROTECT", "RESTORE", "UNDO", "CONTROL", "REGISTER", "TAKEOVER"}
    /\ {MaxKeys, MaxEdits, MaxActs, MaxCmFaults, MaxCloses} \subseteq Nat

VARIABLES
    rc,      \* the receipt of each key
    done,    \* times the effect of each key took place
    posted,  \* keys with an outbox message
    draft,   \* revision of the setup draft the host holds
    hindered,\* what stands in the way: "WORK" makes the store refuse the
             \* command, "TARGET" leaves a target unregistered
    hs,      \* the host: up, writable, the saga in its hands, the session
    wk,      \* the window's command worker
    issued,  \* keys made so far
    ui,      \* the window's autosave and closing state
    act,     \* the user's command and the identity kept for it
    acts,    \* commands given, closes asked for
    cfaults  \* faults so far

cmVars == <<rc, done, posted, draft, hindered, hs, wk, issued, ui,
            act, acts, cfaults>>

CmKeys == 1..MaxKeys
NoKey == 0
NoReceipt == [st |-> "NONE", mine |-> FALSE, kind |-> "DRAFT", val |-> 0]
IdleWorker == [at |-> "idle", kind |-> "DRAFT", key |-> NoKey, val |-> 0,
               ans |-> "NONE"]
NoSaga == [at |-> "idle", key |-> NoKey, here |-> FALSE, out |-> "NONE"]

\* Commands that have the host touch targets after their receipt is durable.
TargetKinds == {"CREATE", "REGISTER", "TAKEOVER"}

\* Commands named together with the row version on the screen.
VersionedKinds == {"SCHEDULE", "LIFECYCLE", "PROTECT", "RESTORE", "UNDO"}

\* _SETUP_AUTOSAVE_RETRY_DELAYS_MS has two entries.
AutosaveRetries == 2

CmTypeOK ==
    /\ rc \in [CmKeys -> [st : {"NONE", "RECEIVED", "REJECTED", "SUCCEEDED"},
                          mine : BOOLEAN,
                          kind : ActKinds \union {"DRAFT"}, val : 0..MaxEdits]]
    /\ done \in [CmKeys -> 0..2]
    /\ posted \subseteq CmKeys
    /\ draft \in 0..MaxEdits + 1
    /\ hindered \in {"NO", "WORK", "TARGET"}
    /\ hs \in [up : BOOLEAN, writable : BOOLEAN,
               saga : [at : {"idle", "effect", "finish", "targets"},
                       key : 0..MaxKeys, here : BOOLEAN,
                       out : {"NONE", "ACCEPTED", "INCOMPLETE", "REJECTED"}],
               known : BOOLEAN]
    /\ wk \in [at : {"idle", "send", "hello", "resend", "answered", "failed"},
               kind : ActKinds \union {"DRAFT", "EXIT"}, key : 0..MaxKeys,
               val : 0..MaxEdits,
               ans : {"NONE", "ACCEPTED", "INCOMPLETE", "REJECTED", "DISABLED",
                      "CONFLICT", "BUSY", "HANDSHAKE_REQUIRED"}]
    /\ issued \in 0..MaxKeys
    /\ ui \in [rev : 0..MaxEdits + 1, saved : 0..MaxEdits + 1, key : 0..MaxKeys,
               tries : 0..AutosaveRetries, timer : BOOLEAN, wish : BOOLEAN,
               reclose : BOOLEAN, attempted : BOOLEAN,
               exit : {"NO", "WANTED", "ASKED", "GRANTED"},
               closed : BOOLEAN, warned : BOOLEAN]
    /\ act \in [kind : ActKinds \union {"DRAFT"}, key : 0..MaxKeys]
    /\ acts \in [given : 0..MaxActs, closes : 0..MaxCloses]
    /\ cfaults \in 0..MaxCmFaults

\* Two kinds of behaviour are looked at, each from a state the window can be
\* in: with the user's commands of one kind after all edits were saved, and
\* with edits and closes after all commands were given.
CmInit ==
    /\ acts \in {[given |-> 0, closes |-> MaxCloses],
                 [given |-> MaxActs, closes |-> 0]}
    /\ act \in [kind : IF acts.given = 0 THEN ActKinds ELSE {"DRAFT"}, key : {NoKey}]
    /\ draft = IF acts.given = 0 THEN MaxEdits ELSE 0
    /\ rc = [k \in CmKeys |-> NoReceipt]
    /\ done = [k \in CmKeys |-> 0]
    /\ posted = {}
    /\ hindered \in {"NO", "WORK"}
    /\ hs \in [up : {TRUE}, writable : BOOLEAN, saga : {NoSaga}, known : {FALSE}]
    /\ wk = IdleWorker
    /\ issued = 0
    /\ ui = [rev |-> draft, saved |-> draft, key |-> NoKey, tries |-> 0,
             timer |-> FALSE, wish |-> FALSE, reclose |-> FALSE,
             attempted |-> FALSE, exit |-> "NO", closed |-> FALSE, warned |-> FALSE]
    /\ cfaults = 0

CmFault == cfaults < MaxCmFaults /\ cfaults' = cfaults + 1

-----------------------------------------------------------------------------
(* The host's side of a command.                                           *)

\* A key that is known must come from the same client, for the same command
\* with the same payload.
Compatible(k, kind, val) ==
    rc[k].mine /\ rc[k].kind = kind /\ rc[k].val = val

\* The precondition of the command's effect, as its store decides.
Applicable(kind) == kind = "DRAFT" \/ hindered # "WORK"

\* What the effect does to the catalog; the setup draft of a created job is
\* replaced by an empty one, the window's next revision.
Effect(k, kind, val) ==
    /\ done' = [done EXCEPT ![k] = @ + 1]
    /\ draft' = CASE kind = "DRAFT" -> val
                 [] kind = "CREATE" -> val + 1
                 [] OTHER -> draft

NoEffect == UNCHANGED <<done, draft, posted>>

\* The receipt passes VALIDATED, EFFECT_PREPARED and ACCEPTED in the same
\* transaction and is seen SUCCEEDED, with its outbox message.
Succeed(k, kind, val) ==
    /\ rc' = [rc EXCEPT ![k] = [st |-> "SUCCEEDED", mine |-> TRUE, kind |-> kind,
                                val |-> val]]
    /\ posted' = posted \union {k}

\* A terminal rejection and nothing else.
Reject(k, kind, val) ==
    /\ rc' = [rc EXCEPT ![k] = [st |-> "REJECTED", mine |-> TRUE, kind |-> kind,
                                val |-> val]]
    /\ NoEffect

\* The answer reaches the worker.
Answer(a) == wk' = [wk EXCEPT !.at = "answered", !.ans = a]

\* The worker's request is with the host: the single pipe instance serves one
\* client at a time.
Served ==
    /\ wk.at \in {"send", "resend"}
    /\ hs.up
    /\ hs.saga = NoSaga

Known == hs.known

\* The command is refused before it is looked at: no session.  The client
\* shakes hands and sends it once more.
HandshakeRequired ==
    /\ Served
    /\ ~Known
    /\ IF wk.at = "send" THEN wk' = [wk EXCEPT !.at = "hello"]
                         ELSE Answer("HANDSHAKE_REQUIRED")
    /\ UNCHANGED <<rc, done, posted, draft, hindered, hs, issued, ui,
                   act, acts, cfaults>>

Handshake ==
    /\ wk.at = "hello"
    /\ hs.up
    /\ hs.saga = NoSaga
    /\ hs' = [hs EXCEPT !.known = TRUE]
    /\ wk' = [wk EXCEPT !.at = "resend"]
    /\ UNCHANGED <<rc, done, posted, draft, hindered, issued, ui, act,
                   acts, cfaults>>

\* The command is with its handler.
Handling(kind) ==
    /\ Served /\ Known /\ wk.kind = kind
    /\ UNCHANGED <<hindered, issued, ui, act, acts>>

\* A host that may not change state records the rejection; a key that has
\* its receipt keeps it, and the answer is the same.
RefuseReadOnly ==
    /\ ~hs.writable
    /\ IF rc[wk.key].st = "NONE"
         THEN /\ Reject(wk.key, wk.kind, wk.val)
              /\ Answer("DISABLED")
         ELSE /\ UNCHANGED rc
              /\ NoEffect
              /\ Answer(IF Compatible(wk.key, wk.kind, wk.val)
                          THEN "DISABLED" ELSE "CONFLICT")
    /\ UNCHANGED <<hs, cfaults>>

\* Mutant: the receipt is not looked up before the effect.
EveryTimeIsFirst ==
    /\ IF Applicable(wk.kind)
         THEN /\ Effect(wk.key, wk.kind, wk.val)
              /\ Succeed(wk.key, wk.kind, wk.val)
              /\ Answer("ACCEPTED")
         ELSE /\ Reject(wk.key, wk.kind, wk.val)
              /\ Answer("REJECTED")
    /\ UNCHANGED <<hs, cfaults>>

\* The key is new: the effect and its receipt, or the rejection.
FirstTime ==
    /\ rc[wk.key].st = "NONE"
    /\ IF Applicable(wk.kind)
         THEN /\ Effect(wk.key, wk.kind, wk.val)
              /\ Succeed(wk.key, wk.kind, wk.val)
              /\ Answer("ACCEPTED")
         ELSE /\ Reject(wk.key, wk.kind, wk.val)
              /\ Answer("REJECTED")
    /\ UNCHANGED <<hs, cfaults>>

\* A known key is answered from its receipt and changes nothing.
FromReceipt == UNCHANGED <<rc, posted, done, draft>>

\* The lifecycle handler asks its store again, which knows the key only when
\* the first time was applied.
ReplayLifecycle ==
    /\ IF rc[wk.key].st = "REJECTED" /\ done[wk.key] = 0 /\ Applicable(wk.kind)
         THEN Effect(wk.key, wk.kind, wk.val)
         ELSE UNCHANGED <<done, draft>>
    /\ UNCHANGED <<rc, posted>>

\* The other replays load the run, the schedule or the job for the answer.
ReplayControl == FromReceipt
ReplaySchedule == FromReceipt
ReplayCreate == FromReceipt

ReplayAnswer ==
    Answer(IF rc[wk.key].st = "REJECTED" THEN "REJECTED" ELSE "ACCEPTED")

Conflicting ==
    /\ rc[wk.key].st # "NONE"
    /\ ~Compatible(wk.key, wk.kind, wk.val)
    /\ FromReceipt
    /\ Answer("CONFLICT")
    /\ UNCHANGED <<hs, cfaults>>

SecondTime(Replayed) ==
    /\ rc[wk.key].st \in {"REJECTED", "SUCCEEDED"}
    /\ Compatible(wk.key, wk.kind, wk.val)
    /\ Replayed
    /\ ReplayAnswer
    /\ UNCHANGED <<hs, cfaults>>

\* The transaction is rolled back: the database is busy, or the draft could
\* not be written.
StorageFailure ==
    /\ rc[wk.key].st = "NONE"
    /\ CmFault
    /\ Answer("BUSY")
    /\ UNCHANGED <<rc, done, posted, draft, hs>>

\* One catalog transaction from the receipt to the answer.
Dispatch(Replayed) ==
    /\ hs.writable
    /\ FirstTime \/ SecondTime(Replayed) \/ Conflicting \/ StorageFailure

DispatchDraft == Dispatch(FromReceipt)
DispatchScan == Dispatch(FromReceipt)
DispatchReview == Dispatch(FromReceipt)
DispatchControl == Dispatch(ReplayControl)

\* The transaction that creates a job, or finds it created by this command.
CreateJob ==
    \/ /\ rc[wk.key].st = "NONE" /\ Applicable("CREATE")
       /\ Effect(wk.key, wk.kind, wk.val)
       /\ Succeed(wk.key, wk.kind, wk.val)
    \/ /\ rc[wk.key].st = "SUCCEEDED"
       /\ Compatible(wk.key, wk.kind, wk.val)
       /\ ReplayCreate

\* Creating a job: the transaction, and after it the targets of the job that
\* was created, now or by an earlier delivery of the same command.
DispatchCreate ==
    /\ hs.writable
    /\ \/ /\ CreateJob
          /\ hs' = [hs EXCEPT !.saga = [at |-> "targets", key |-> wk.key,
                                        here |-> TRUE, out |-> "NONE"]]
          /\ UNCHANGED <<wk, cfaults>>
       \/ ~Applicable("CREATE") /\ FirstTime
       \/ rc[wk.key].st = "REJECTED" /\ SecondTime(ReplayCreate)
       \/ Conflicting \/ StorageFailure

\* register_job_targets for the new job; a failure is part of an answer that
\* still says the job was created.
RegisterAfterCreate ==
    /\ hs.up /\ hs.saga.at = "targets"
    /\ IF hs.saga.here
         THEN Answer(IF hindered = "TARGET" THEN "INCOMPLETE" ELSE "ACCEPTED")
         ELSE UNCHANGED wk
    /\ hs' = [hs EXCEPT !.saga = NoSaga]
    /\ UNCHANGED <<rc, done, posted, draft, hindered, issued, ui, act, acts,
                   cfaults>>

\* Registering targets or taking one over: the receipt is committed first,
\* the marker and its intent next, the receipt's end in a transaction of its
\* own.  A receipt that succeeded starts the work again.
DispatchSaga ==
    /\ hs.writable
    /\ \/ /\ rc[wk.key].st \in {"NONE", "RECEIVED", "SUCCEEDED"}
          /\ rc[wk.key].st = "NONE" \/ Compatible(wk.key, wk.kind, wk.val)
          /\ rc' = IF rc[wk.key].st = "NONE"
                     THEN [rc EXCEPT ![wk.key] =
                             [st |-> "RECEIVED", mine |-> TRUE,
                              kind |-> wk.kind, val |-> wk.val]]
                     ELSE rc
          /\ hs' = [hs EXCEPT !.saga = [at |-> "effect", key |-> wk.key,
                                        here |-> TRUE, out |-> "NONE"]]
          /\ NoEffect
          /\ UNCHANGED <<wk, cfaults>>
       \/ rc[wk.key].st = "REJECTED" /\ SecondTime(FromReceipt)
       \/ Conflicting

DispatchRegister == DispatchSaga
DispatchTakeover == DispatchSaga

\* The intent carries the key, so the work is done once; with a target away
\* the intent stays open.
SagaEffect ==
    /\ hs.up /\ hs.saga.at = "effect"
    /\ done' = [done EXCEPT ![hs.saga.key] =
                  IF Applicable(rc[hs.saga.key].kind) THEN 1 ELSE @]
    /\ hs' = [hs EXCEPT !.saga.at = "finish",
                        !.saga.out = CASE hindered = "NO" -> "ACCEPTED"
                                       [] hindered = "TARGET" -> "INCOMPLETE"
                                       [] hindered = "WORK" -> "REJECTED"]
    /\ UNCHANGED <<rc, posted, draft, hindered, wk, issued, ui, act,
                   acts, cfaults>>

FinishAnswer ==
    /\ IF hs.saga.here THEN Answer(hs.saga.out) ELSE UNCHANGED wk
    /\ hs' = [hs EXCEPT !.saga = NoSaga]
    /\ UNCHANGED <<done, draft, hindered, issued, ui, act, acts, cfaults>>

\* The end of a receipt that is still open.
AcceptSaga(kind) ==
    /\ hs.up /\ hs.saga.at = "finish" /\ rc[hs.saga.key].kind = kind
    /\ hs.saga.out # "REJECTED"
    /\ rc' = [rc EXCEPT ![hs.saga.key].st = "SUCCEEDED"]
    /\ posted' = posted \union {hs.saga.key}
    /\ FinishAnswer

RejectSaga(kind) ==
    /\ hs.up /\ hs.saga.at = "finish" /\ rc[hs.saga.key].kind = kind
    /\ hs.saga.out = "REJECTED"
    /\ rc' = [rc EXCEPT ![hs.saga.key].st =
                IF @ = "RECEIVED" THEN "REJECTED" ELSE @]
    /\ UNCHANGED posted
    /\ FinishAnswer

AcceptRegistration == AcceptSaga("REGISTER")
RejectRegistration == RejectSaga("REGISTER")
AcceptTakeover == AcceptSaga("TAKEOVER")
RejectTakeover == RejectSaga("TAKEOVER")

HandleDraft == Handling("DRAFT") /\ (RefuseReadOnly \/ DispatchDraft)
HandleCreate == Handling("CREATE") /\ (RefuseReadOnly \/ DispatchCreate)
HandleEdit == Handling("EDIT") /\ (RefuseReadOnly \/ Dispatch(FromReceipt))
HandleCheck == Handling("CHECK") /\ (RefuseReadOnly \/ Dispatch(FromReceipt))
HandleScan == Handling("SCAN") /\ (RefuseReadOnly \/ DispatchScan)
HandleReview == Handling("REVIEW") /\ (RefuseReadOnly \/ DispatchReview)
HandleSchedule == Handling("SCHEDULE") /\ (RefuseReadOnly \/ Dispatch(ReplaySchedule))
HandleLifecycle == Handling("LIFECYCLE") /\ (RefuseReadOnly \/ Dispatch(ReplayLifecycle))
HandleProtect == Handling("PROTECT") /\ (RefuseReadOnly \/ Dispatch(FromReceipt))
HandleRestore == Handling("RESTORE") /\ (RefuseReadOnly \/ Dispatch(FromReceipt))
HandleUndo == Handling("UNDO") /\ (RefuseReadOnly \/ Dispatch(FromReceipt))
HandleControl == Handling("CONTROL") /\ (RefuseReadOnly \/ DispatchControl)
HandleRegister == Handling("REGISTER") /\ (RefuseReadOnly \/ DispatchRegister)
HandleTakeover == Handling("TAKEOVER") /\ (RefuseReadOnly \/ DispatchTakeover)

HandleCommand ==
    \/ HandleDraft \/ HandleCreate \/ HandleEdit \/ HandleCheck \/ HandleScan
    \/ HandleReview \/ HandleSchedule \/ HandleLifecycle \/ HandleProtect
    \/ HandleRestore \/ HandleUndo \/ HandleControl \/ HandleRegister
    \/ HandleTakeover

\* A grant stops the host; it is refused while work is under way.
ShutdownAsked ==
    /\ Served /\ Known
    /\ wk.kind = "EXIT"
    /\ IF hindered = "WORK"
         THEN Answer("REJECTED") /\ UNCHANGED hs
         ELSE /\ Answer("ACCEPTED")
              /\ hs' = [hs EXCEPT !.up = FALSE, !.known = FALSE]
    /\ UNCHANGED <<rc, done, posted, draft, hindered, issued, ui, act,
                   acts, cfaults>>

-----------------------------------------------------------------------------
(* The host stops and starts.                                              *)

\* An idle client is forgotten, or the limit of clients pushed it out.
ExpireSession ==
    /\ Known /\ CmFault
    /\ hs' = [hs EXCEPT !.known = FALSE]
    /\ UNCHANGED <<rc, done, posted, draft, hindered, wk, issued, ui,
                   act, acts>>

HostCrash ==
    /\ hs.up /\ CmFault
    /\ hs' = [hs EXCEPT !.up = FALSE, !.saga = NoSaga, !.known = FALSE]
    /\ UNCHANGED <<rc, done, posted, draft, hindered, wk, issued, ui,
                   act, acts>>

\* Receipts that did not get as far as an effect are rejected.
Reconciled ==
    [k \in CmKeys |-> IF rc[k].st = "RECEIVED"
                        THEN [rc[k] EXCEPT !.st = "REJECTED"] ELSE rc[k]]

HostStart ==
    /\ ~hs.up
    /\ \E w \in BOOLEAN : hs' = [hs EXCEPT !.up = TRUE, !.writable = w]
    /\ rc' = Reconciled
    /\ UNCHANGED <<done, posted, draft, hindered, wk, issued, ui, act,
                   acts, cfaults>>

\* A run starts or ends, a drive is taken away: what stands in the way
\* changes.
WorldChanges ==
    /\ acts.given > 0 /\ CmFault
    /\ hindered' \in {"NO", "WORK"} \union
                     (IF act.kind \in TargetKinds THEN {"TARGET"} ELSE {})
    /\ hindered' # hindered
    /\ UNCHANGED <<rc, done, posted, draft, hs, wk, issued, ui, act,
                   acts>>

-----------------------------------------------------------------------------
(* The worker of the window.                                               *)

Waiting == wk.at \in {"send", "hello", "resend"}

\* The worker drops its client after an error; the factory's next one has an
\* instance of its own, so no receipt is its own and it has no session.
NextClient == [k \in CmKeys |-> [rc[k] EXCEPT !.mine = FALSE]]

\* The time is up or the pipe is broken, before or after the host's work.
LoseAnswer ==
    /\ Waiting \/ wk.at = "answered"
    /\ IF hs.up THEN CmFault ELSE Waiting /\ UNCHANGED cfaults
    /\ rc' = NextClient
    /\ wk' = [wk EXCEPT !.at = "failed", !.ans = "NONE"]
    /\ hs' = [hs EXCEPT !.saga.here = FALSE, !.known = FALSE]
    /\ UNCHANGED <<done, posted, draft, hindered, issued, ui, act, acts>>

Send(kind, key, val) ==
    /\ wk.at = "idle"
    /\ wk' = [at |-> "send", kind |-> kind, key |-> key, val |-> val,
              ans |-> "NONE"]

WorkerDone == wk' = IdleWorker

\* A key that is kept, or the next new one.
KeyFor(kept) == IF kept # NoKey THEN kept ELSE issued + 1
CanName(kept) == kept # NoKey \/ issued < MaxKeys
Named(kept) == issued' = IF kept # NoKey THEN issued ELSE issued + 1

-----------------------------------------------------------------------------
(* The setup draft of the window.                                          *)

\* A new revision, a new identity, the debounce timer again.
Queued == [ui EXCEPT !.rev = @ + 1, !.key = NoKey, !.tries = 0, !.timer = TRUE]

EditSetup ==
    /\ ~ui.closed
    /\ ui.rev < MaxEdits
    /\ ~(act.kind = "CREATE" /\ act.key # NoKey)
    /\ ui' = Queued
    /\ UNCHANGED <<rc, done, posted, draft, hindered, hs, wk, issued,
                   act, acts, cfaults>>

Pending == wk.at # "idle" /\ wk.kind = "DRAFT"

\* The draft of the current revision goes to the worker.
StartSave(u) ==
    /\ CanName(u.key)
    /\ Send("DRAFT", KeyFor(u.key), u.rev)
    /\ Named(u.key)
    /\ ui' = [u EXCEPT !.key = KeyFor(u.key), !.timer = FALSE]

\* The timer: nothing to save, or the worker has to be free first.
SaveSetupDraft ==
    /\ ~ui.closed /\ ui.timer
    /\ \/ /\ Pending \/ ui.saved >= ui.rev
          /\ ui' = [ui EXCEPT !.timer = FALSE]
          /\ UNCHANGED <<wk, issued>>
       \/ /\ ~Pending /\ ui.saved < ui.rev
          /\ StartSave(ui)
    /\ UNCHANGED <<rc, done, posted, draft, hindered, hs, act, acts,
                   cfaults>>

\* The revision the answer is about.
SavedRevision(u, r) == r

\* Saved: the close that waited goes on; a newer revision is saved next.
AcceptSave(u, r) ==
    [u EXCEPT !.saved = IF @ > SavedRevision(u, r) THEN @ ELSE SavedRevision(u, r),
              !.key = IF r = u.rev THEN NoKey ELSE @,
              !.tries = IF r = u.rev THEN 0 ELSE @,
              !.timer = IF r = u.rev THEN @ ELSE TRUE,
              !.attempted = @ \/ (r = u.rev /\ u.wish),
              !.reclose = @ \/ (r = u.rev /\ u.wish),
              !.warned = FALSE]

\* Not saved: two more tries with the same identity, then a warning; a newer
\* revision starts over with its own identity.
RetrySave(u, r) ==
    IF r # u.rev
      THEN [u EXCEPT !.key = NoKey, !.tries = 0, !.timer = TRUE]
      ELSE IF u.tries < AutosaveRetries
        THEN [u EXCEPT !.tries = @ + 1, !.timer = TRUE]
        ELSE [u EXCEPT !.warned = TRUE, !.wish = FALSE]

SaveAnswered ==
    /\ wk.at \in {"answered", "failed"} /\ wk.kind = "DRAFT" /\ ~ui.closed
    /\ ui' = IF wk.ans = "ACCEPTED" THEN AcceptSave(ui, wk.val)
                                    ELSE RetrySave(ui, wk.val)
    /\ WorkerDone
    /\ UNCHANGED <<rc, done, posted, draft, hindered, hs, issued, act,
                   acts, cfaults>>

\* The status is refreshed: an unsaved draft is tried again.
RefreshStatus ==
    /\ ~ui.closed /\ hs.up /\ ui.warned
    /\ ui.saved < ui.rev /\ ~Pending /\ ~ui.timer
    /\ CmFault
    /\ ui' = [ui EXCEPT !.timer = TRUE]
    /\ UNCHANGED <<rc, done, posted, draft, hindered, hs, wk, issued,
                   act, acts>>

-----------------------------------------------------------------------------
(* The user's commands.                                                    *)

\* The identity made for the command is used again until an answer ends it.
Submit(kind) ==
    /\ ~ui.closed
    /\ act.kind = kind
    /\ acts.given < MaxActs
    /\ CanName(act.key)
    /\ Send(kind, KeyFor(act.key), IF kind = "CREATE" THEN ui.rev ELSE 0)
    /\ Named(act.key)
    /\ act' = [act EXCEPT !.key = KeyFor(act.key)]
    /\ acts' = [acts EXCEPT !.given = @ + 1]
    /\ UNCHANGED <<rc, done, posted, draft, hindered, hs, ui, cfaults>>

SubmitCreate == ui.rev <= MaxEdits /\ Submit("CREATE")
SubmitEdit == Submit("EDIT")
SubmitCheck == Submit("CHECK")
SubmitScan == Submit("SCAN")
SubmitReview == Submit("REVIEW")
SubmitSchedule == Submit("SCHEDULE")
SubmitLifecycle == Submit("LIFECYCLE")
SubmitProtect == Submit("PROTECT")
SubmitRestore == Submit("RESTORE")
SubmitUndo == Submit("UNDO")
SubmitControl == Submit("CONTROL")
SubmitRegister == Submit("REGISTER")
SubmitTakeover == Submit("TAKEOVER")

SubmitAct ==
    \/ SubmitCreate \/ SubmitEdit \/ SubmitCheck \/ SubmitScan \/ SubmitReview
    \/ SubmitSchedule \/ SubmitLifecycle \/ SubmitProtect \/ SubmitRestore
    \/ SubmitUndo \/ SubmitControl \/ SubmitRegister \/ SubmitTakeover

\* The worker reports an answer, or an error, after which the identity is
\* always kept for the retry.
Reported(kind) ==
    /\ wk.at \in {"answered", "failed"}
    /\ wk.kind = kind /\ ~ui.closed
    /\ WorkerDone
    /\ UNCHANGED <<rc, done, posted, draft, hindered, hs, issued, acts, cfaults>>

ForgetWhen(ends) ==
    act' = IF wk.at = "answered" /\ ends THEN [act EXCEPT !.key = NoKey] ELSE act

\* Most commands end with any answer.
AnyAnswer(kind) == Reported(kind) /\ ForgetWhen(TRUE) /\ UNCHANGED ui

EditAnswered == AnyAnswer("EDIT")
CheckAnswered == AnyAnswer("CHECK")
ScheduleAnswered == AnyAnswer("SCHEDULE")
LifecycleAnswered == AnyAnswer("LIFECYCLE")
ProtectAnswered == AnyAnswer("PROTECT")
RestoreAnswered == AnyAnswer("RESTORE")
UndoAnswered == AnyAnswer("UNDO")
ControlAnswered == AnyAnswer("CONTROL")

\* A rejection does not end these.
ScanAnswered ==
    Reported("SCAN") /\ ForgetWhen(wk.ans = "ACCEPTED") /\ UNCHANGED ui
ReviewAnswered ==
    Reported("REVIEW") /\ ForgetWhen(wk.ans = "ACCEPTED") /\ UNCHANGED ui

\* An answer that leaves a target open does not end these.
RegisterAnswered ==
    Reported("REGISTER") /\ ForgetWhen(wk.ans # "INCOMPLETE") /\ UNCHANGED ui
TakeoverAnswered ==
    Reported("TAKEOVER") /\ ForgetWhen(wk.ans # "INCOMPLETE") /\ UNCHANGED ui

\* The setup is cleared, as the host cleared its draft, when the job is there
\* with all its targets; else the wizard stays locked on the same command.
CreateAnswered ==
    /\ Reported("CREATE")
    /\ ForgetWhen(wk.ans = "ACCEPTED")
    /\ ui' = IF wk.ans = "ACCEPTED"
               THEN [ui EXCEPT !.rev = @ + 1, !.saved = ui.rev + 1,
                               !.key = NoKey, !.tries = 0, !.timer = FALSE]
               ELSE ui

ActAnswered ==
    \/ CreateAnswered \/ EditAnswered \/ CheckAnswered \/ ScanAnswered
    \/ ReviewAnswered \/ ScheduleAnswered \/ LifecycleAnswered \/ ProtectAnswered
    \/ RestoreAnswered \/ UndoAnswered \/ ControlAnswered \/ RegisterAnswered
    \/ TakeoverAnswered

\* The screen shows the row version the lost answer was about: the next
\* command is another one.
ReloadDetail ==
    /\ ~ui.closed /\ wk.at = "idle"
    /\ act.kind \in VersionedKinds /\ act.key # NoKey
    /\ done[act.key] = 1
    /\ act' = [act EXCEPT !.key = NoKey]
    /\ UNCHANGED <<rc, done, posted, draft, hindered, hs, wk, issued, ui, acts,
                   cfaults>>

-----------------------------------------------------------------------------
(* Closing the window and leaving the host.                                *)

\* The close is put off until the newest revision is saved.
FlushFirst(u) == ~u.attempted /\ u.saved < u.rev

\* closeEvent, for a window state u: flush the draft, ask the host to stop
\* when the user wants to leave, or close.
CloseEvent(u) ==
    \/ /\ FlushFirst(u)
       /\ IF Pending
            THEN /\ ui' = [u EXCEPT !.wish = TRUE, !.timer = FALSE]
                 /\ UNCHANGED <<wk, issued>>
            ELSE IF wk.at # "idle"
              THEN /\ ui' = [u EXCEPT !.wish = TRUE, !.timer = TRUE]
                   /\ UNCHANGED <<wk, issued>>
              ELSE StartSave([u EXCEPT !.wish = TRUE])
    \/ /\ ~FlushFirst(u)
       /\ u.exit = "WANTED"
       /\ IF wk.at # "idle"
            THEN ui' = [u EXCEPT !.exit = "NO"] /\ UNCHANGED wk
            ELSE ui' = [u EXCEPT !.exit = "ASKED"] /\ Send("EXIT", NoKey, 0)
       /\ UNCHANGED issued
    \/ /\ ~FlushFirst(u)
       /\ u.exit = "ASKED"
       /\ ui' = u
       /\ UNCHANGED <<wk, issued>>
    \/ /\ ~FlushFirst(u)
       /\ u.exit \in {"NO", "GRANTED"}
       /\ ui' = [u EXCEPT !.closed = TRUE, !.timer = FALSE]
       /\ UNCHANGED <<wk, issued>>

\* The user closes the window, or confirms that the host shall stop too.
CloseWindow ==
    /\ ~ui.closed
    /\ acts.closes < MaxCloses
    /\ acts' = [acts EXCEPT !.closes = @ + 1]
    /\ \/ CloseEvent(ui)
       \/ ui.exit = "NO" /\ CloseEvent([ui EXCEPT !.exit = "WANTED"])
    /\ UNCHANGED <<rc, done, posted, draft, hindered, hs, act, cfaults>>

\* A posted close comes back: after the save it waited for, or after the host
\* agreed to stop.
CloseAgain ==
    /\ ~ui.closed /\ ui.reclose
    /\ CloseEvent([ui EXCEPT !.reclose = FALSE])
    /\ UNCHANGED <<rc, done, posted, draft, hindered, hs, act, acts,
                   cfaults>>

\* Granted: the window closes next.  Refused or failed: it stays.
ExitAnswered ==
    /\ wk.at \in {"answered", "failed"} /\ wk.kind = "EXIT" /\ ~ui.closed
    /\ WorkerDone
    /\ ui' = IF wk.ans = "ACCEPTED"
               THEN [ui EXCEPT !.exit = "GRANTED", !.reclose = TRUE]
               ELSE [ui EXCEPT !.exit = "NO"]
    /\ UNCHANGED <<rc, done, posted, draft, hindered, hs, issued, act,
                   acts, cfaults>>

-----------------------------------------------------------------------------
HostSteps ==
    \/ HandshakeRequired \/ Handshake \/ HandleCommand \/ RegisterAfterCreate
    \/ SagaEffect \/ AcceptRegistration \/ RejectRegistration
    \/ AcceptTakeover \/ RejectTakeover \/ ShutdownAsked

WindowSteps == SaveSetupDraft \/ SaveAnswered \/ ActAnswered \/ ExitAnswered
               \/ CloseAgain

GiveUpOnDeadHost == ~hs.up /\ LoseAnswer

CmNext ==
    \/ HostSteps \/ WindowSteps \/ LoseAnswer
    \/ ExpireSession \/ HostCrash \/ HostStart \/ WorldChanges
    \/ EditSetup \/ RefreshStatus \/ SubmitAct \/ ReloadDetail \/ CloseWindow

CmSpec == CmInit /\ [][CmNext]_cmVars

\* The host serves what it is asked and a client does not wait for ever; the
\* window's event loop runs its timers and answers.
CmFairness ==
    /\ WF_cmVars(HostSteps)
    /\ WF_cmVars(GiveUpOnDeadHost)
    /\ WF_cmVars(WindowSteps)

-----------------------------------------------------------------------------
\* A registration or takeover was cut off by a crash: its receipt was
\* rejected at start although the work may have been done.
CutOff(k) == rc[k].kind \in {"REGISTER", "TAKEOVER"} /\ rc[k].st = "REJECTED"

\* A command that succeeded was asked for again because a target was open.
AskedAgain(k) == rc[k].kind \in TargetKinds /\ rc[k].st = "SUCCEEDED"

\* A receipt tells what became of its command: the effect took place once if
\* it succeeded, with its outbox message, and never if it was rejected, even
\* when answers are lost, the command is sent again and the host restarts.
\* Only a registration that a crash cut off may be rejected after its effect.
ReceiptTellsEffect ==
    \A k \in CmKeys :
        /\ rc[k].st = "SUCCEEDED" <=> k \in posted
        /\ rc[k].st = "SUCCEEDED" => done[k] = 1
        /\ rc[k].st \in {"NONE", "REJECTED"} /\ ~CutOff(k) => done[k] = 0

\* When no command is in the host's hands every receipt is final, so no
\* command stays half-received after a crash (startup reconciliation).
ReceiptsEnd ==
    hs.up /\ hs.saga = NoSaga => \A k \in CmKeys : rc[k].st # "RECEIVED"

\* The window calls a revision saved only when the host holds it or a newer
\* one, however late the answers come and whatever was edited meanwhile.
SavedIsHeld == ui.saved <= draft

\* An answer the user sees is true: accepted means the effect took place,
\* rejected, disabled or busy means that it did not, though answers are lost,
\* databases are busy and commands are sent again; only a conflict says
\* nothing, and a registration that a crash cut off, or a command that was
\* accepted with a target open and is asked for a second time.
AnswersAreTrue ==
    wk.at = "answered" /\ wk.key # NoKey =>
        /\ wk.ans \in {"ACCEPTED", "INCOMPLETE"} => done[wk.key] = 1
        /\ wk.ans \in {"REJECTED", "DISABLED", "BUSY"}
             => done[wk.key] = 0 \/ CutOff(wk.key) \/ AskedAgain(wk.key)

\* An edit is saved, or the user is told that it is not, or the window is
\* gone; a save is never forgotten between timer, worker and answer.
EditsSettle ==
    []<>(ui.saved = ui.rev \/ ui.warned \/ ui.closed)

=============================================================================
