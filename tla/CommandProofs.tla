--------------------------- MODULE CommandProofs ---------------------------
(***************************************************************************)
(* Proofs about commands.  The first part is about Commands, for every set *)
(* of commands and every bound on keys, edits, faults and closes.  The     *)
(* second is about RunControl, what commands do to a run that executes:    *)
(* for every number of targets, every plan of files and every bound on     *)
(* commands, faults and staging attempts.                                  *)
(***************************************************************************)
EXTENDS Commands, RunControl, FiniteSetTheorems, WellFoundedInduction, TLAPS

Kinds == ActKinds \union {"DRAFT"}
SagaKinds == {"REGISTER", "TAKEOVER"}
InSaga == {"effect", "finish"}

\* The sets CmTypeOK is made of.
Receipt ==
    [st : {"NONE", "RECEIVED", "REJECTED", "SUCCEEDED"}, mine : BOOLEAN,
     kind : Kinds, val : 0..MaxEdits]
Saga ==
    [at : {"idle", "effect", "finish", "targets"}, key : 0..MaxKeys,
     here : BOOLEAN, out : {"NONE", "ACCEPTED", "INCOMPLETE", "REJECTED"}]
HostState == [up : BOOLEAN, writable : BOOLEAN, saga : Saga, known : BOOLEAN]
Answers ==
    {"NONE", "ACCEPTED", "INCOMPLETE", "REJECTED", "DISABLED", "CONFLICT",
     "BUSY", "HANDSHAKE_REQUIRED"}
Worker ==
    [at : {"idle", "send", "hello", "resend", "answered", "failed"},
     kind : ActKinds \union {"DRAFT", "EXIT"}, key : 0..MaxKeys,
     val : 0..MaxEdits, ans : Answers]
Window ==
    [rev : 0..MaxEdits + 1, saved : 0..MaxEdits + 1, key : 0..MaxKeys,
     tries : 0..AutosaveRetries, timer : BOOLEAN, wish : BOOLEAN,
     reclose : BOOLEAN, attempted : BOOLEAN,
     exit : {"NO", "WANTED", "ASKED", "GRANTED"},
     closed : BOOLEAN, warned : BOOLEAN]

\* Where the receipt of a key can be.
ReceiptShape ==
    \A k \in CmKeys :
        /\ done[k] \in {0, 1}
        /\ rc[k].st = "RECEIVED" => rc[k].kind \in SagaKinds
        /\ rc[k].mine => rc[k].st # "NONE"
        /\ k > issued => rc[k].st = "NONE"

\* The command whose receipt is committed and whose work is under way.
SagaShape ==
    /\ ~hs.up => hs.saga = NoSaga
    /\ hs.saga.at = "idle" => hs.saga = NoSaga
    /\ hs.saga.at # "idle" => hs.saga.key \in CmKeys
    /\ hs.saga.at \in InSaga =>
         /\ rc[hs.saga.key].st \in {"RECEIVED", "SUCCEEDED"}
         /\ rc[hs.saga.key].kind \in SagaKinds
    /\ hs.saga.at = "finish" =>
         hs.saga.out # "NONE" /\ (hs.saga.out # "REJECTED" => done[hs.saga.key] = 1)
    /\ hs.saga.at = "targets" =>
         rc[hs.saga.key].st = "SUCCEEDED" /\ rc[hs.saga.key].kind = "CREATE"
    /\ hs.saga.here => hs.saga.key = wk.key /\ wk.at \in {"send", "resend"}
    /\ wk.at = "answered" => hs.saga = NoSaga

\* An open receipt is in the host's hands, or waits for its start.
OpenReceipts ==
    \A k \in CmKeys :
        rc[k].st = "RECEIVED" => ~hs.up \/ (hs.saga.at \in InSaga /\ hs.saga.key = k)

\* Who keeps a key: the user's command, the draft, the worker.
Busy == wk.at # "idle"
Keepers ==
    /\ {act.key, ui.key, wk.key} \subseteq 0..issued
    /\ act.key # NoKey => act.key # ui.key /\ act.kind # "DRAFT"
    /\ ~Busy => wk = IdleWorker
    /\ wk.at # "answered" => wk.ans = "NONE"
    /\ Busy => wk.kind \in {"DRAFT", "EXIT", act.kind}
    /\ Busy /\ wk.kind = "EXIT" => wk.key = NoKey
    /\ Busy /\ wk.kind = "DRAFT" =>
         /\ wk.key # NoKey /\ wk.key # act.key
         /\ ui.key # NoKey => ui.key = wk.key /\ wk.val = ui.rev
    /\ Busy /\ wk.kind \notin {"DRAFT", "EXIT"} =>
         wk.key # NoKey /\ wk.key = act.key

\* A key is used for one kind of command only.
UsedFor(k, kind) == k # NoKey /\ rc[k].st # "NONE" => rc[k].kind = kind
OneUse ==
    /\ UsedFor(act.key, act.kind)
    /\ UsedFor(ui.key, "DRAFT")
    /\ Busy => UsedFor(wk.key, wk.kind)

\* A key that is kept has no receipt this client could be answered from, but
\* for a rejection or a command that is asked for again.
Retryable(k) ==
    k # NoKey /\ rc[k].mine /\ rc[k].kind \notin TargetKinds
        => rc[k].st = "REJECTED" /\ rc[k].kind # "LIFECYCLE"
Answering(k) == wk.at = "answered" /\ wk.key = k
Kept ==
    /\ \A k \in {act.key, ui.key, wk.key} : Retryable(k) \/ Answering(k)
    /\ wk.at = "answered" /\ wk.key # NoKey /\ rc[wk.key].mine
         /\ rc[wk.key].kind \notin TargetKinds /\ rc[wk.key].st = "SUCCEEDED"
         => wk.ans = "ACCEPTED"

\* What the window and the host know of the setup draft.
DraftShape ==
    /\ act.kind = "DRAFT" => ui.rev <= MaxEdits
    /\ act.kind # "DRAFT" =>
         /\ ui.saved = ui.rev /\ ui.key = NoKey /\ ui.rev >= MaxEdits
         /\ Busy => wk.kind # "DRAFT"
    /\ Busy /\ wk.kind = "DRAFT" => ui.saved <= wk.val
    /\ Busy /\ wk.kind = "DRAFT" /\ wk.ans = "ACCEPTED" => wk.val <= draft
    /\ act.kind = "CREATE" /\ act.key # NoKey => ui.rev <= MaxEdits
    /\ Busy /\ wk.kind = "CREATE" => wk.val = ui.rev
    /\ act.kind = "CREATE" /\ act.key # NoKey /\ rc[act.key].st = "SUCCEEDED"
         => ui.rev < draft

\* The inductive invariant.
IInv ==
    /\ CmTypeOK /\ ReceiptShape /\ ReceiptTellsEffect /\ SagaShape /\ OpenReceipts
    /\ Keepers /\ OneUse /\ Kept /\ AnswersAreTrue /\ DraftShape /\ SavedIsHeld
-----------------------------------------------------------------------------
\* Steps by what they have in common.  A command is with its handler.
Handled ==
    /\ Served /\ Known /\ wk.kind \in Kinds
    /\ UNCHANGED <<hindered, issued, ui, act, acts>>

RefusedReadOnly == Handled /\ RefuseReadOnly
Performed ==
    /\ Handled /\ FirstTime /\ wk.kind \notin SagaKinds
    /\ wk.kind = "CREATE" => ~Applicable("CREATE")
Replayed ==
    /\ Handled
    /\ rc[wk.key].st \in {"REJECTED", "SUCCEEDED"}
    /\ Compatible(wk.key, wk.kind, wk.val)
    /\ \/ UNCHANGED <<done, draft>>
       \/ /\ wk.kind = "LIFECYCLE" /\ rc[wk.key].st = "REJECTED"
          /\ Effect(wk.key, wk.kind, wk.val)
    /\ ReplayAnswer
    /\ UNCHANGED <<rc, posted, hs, cfaults>>
Conflicted == Handled /\ Conflicting
Hampered == Handled /\ StorageFailure
JobCreated ==
    /\ Handled /\ wk.kind = "CREATE" /\ CreateJob
    /\ hs' = [hs EXCEPT !.saga = [at |-> "targets", key |-> wk.key, here |-> TRUE,
                                  out |-> "NONE"]]
    /\ UNCHANGED <<wk, cfaults>>
SagaBegun ==
    /\ Handled /\ wk.kind \in SagaKinds
    /\ \/ /\ rc[wk.key].st = "NONE"
          /\ rc' = [rc EXCEPT ![wk.key] = [st |-> "RECEIVED", mine |-> TRUE,
                                           kind |-> wk.kind, val |-> wk.val]]
       \/ /\ rc[wk.key].st \in {"RECEIVED", "SUCCEEDED"}
          /\ Compatible(wk.key, wk.kind, wk.val)
          /\ UNCHANGED rc
    /\ hs' = [hs EXCEPT !.saga = [at |-> "effect", key |-> wk.key, here |-> TRUE,
                                  out |-> "NONE"]]
    /\ UNCHANGED <<done, draft, posted, wk, cfaults>>
SagaAccepted == \E kind \in SagaKinds : AcceptSaga(kind)
SagaRejected == \E kind \in SagaKinds : RejectSaga(kind)

\* The window moves on and its draft is what it was.
SameDraft(u) == u \in Window /\ u.rev = ui.rev /\ u.saved = ui.saved /\ u.key = ui.key
HostRests == UNCHANGED <<rc, done, posted, draft, hindered, hs, cfaults>>
ActsTyped == acts' \in [given : 0..MaxActs, closes : 0..MaxCloses]
WindowMoves ==
    /\ HostRests \/ RefreshStatus
    /\ SameDraft(ui') /\ ActsTyped
    /\ UNCHANGED <<rc, done, posted, draft, hindered, hs, wk, issued, act>>
SaveBegins ==
    /\ HostRests /\ UNCHANGED act /\ ActsTyped
    /\ \E u \in Window : SameDraft(u) /\ u.saved < u.rev /\ StartSave(u)
ExitBegins ==
    /\ HostRests /\ SameDraft(ui') /\ ActsTyped
    /\ Send("EXIT", NoKey, 0)
    /\ UNCHANGED <<issued, act>>
ActBegins ==
    \E kind \in ActKinds :
        Submit(kind) /\ (kind = "CREATE" => ui.rev <= MaxEdits)
ActEnds ==
    /\ wk.at \in {"answered", "failed"} /\ wk.kind \notin {"DRAFT", "EXIT"}
    /\ WorkerDone
    /\ UNCHANGED <<rc, done, posted, draft, hindered, hs, issued, acts, cfaults>>
    /\ \/ act' = [act EXCEPT !.key = NoKey]
       \/ /\ act' = act
          /\ \/ wk.at = "failed"
             \/ wk.kind \in {"SCAN", "REVIEW"} /\ wk.ans # "ACCEPTED"
             \/ wk.kind \in TargetKinds
    /\ \/ UNCHANGED ui
       \/ /\ wk.kind = "CREATE" /\ wk.ans = "ACCEPTED"
          /\ wk.at = "answered" => act' = [act EXCEPT !.key = NoKey]
          /\ ui' = [ui EXCEPT !.rev = @ + 1, !.saved = ui.rev + 1, !.key = NoKey,
                              !.tries = 0, !.timer = FALSE]

\* The steps one by one.
Moved ==
    \/ HandshakeRequired \/ Handshake
    \/ RefusedReadOnly \/ Performed \/ Replayed \/ Conflicted \/ Hampered
    \/ JobCreated \/ SagaBegun
    \/ RegisterAfterCreate \/ SagaEffect \/ SagaAccepted \/ SagaRejected
    \/ ShutdownAsked \/ ExpireSession \/ HostCrash \/ HostStart \/ WorldChanges
    \/ LoseAnswer \/ EditSetup \/ WindowMoves \/ SaveBegins \/ SaveAnswered
    \/ ActBegins \/ ActEnds \/ ReloadDetail \/ ExitBegins \/ ExitAnswered
    \/ UNCHANGED cmVars

\* What is assumed of the bounds and the kinds of commands.
LEMMA Bounds ==
    /\ MaxKeys \in Nat /\ MaxEdits \in Nat /\ MaxActs \in Nat
    /\ MaxCmFaults \in Nat /\ MaxCloses \in Nat
    /\ "DRAFT" \notin ActKinds /\ "EXIT" \notin ActKinds
  BY CmAssumption

\* The type invariant, with each set under its name.
LEMMA Types ==
    CmTypeOK <=>
      /\ rc \in [CmKeys -> Receipt]
      /\ done \in [CmKeys -> 0..2]
      /\ posted \subseteq CmKeys
      /\ draft \in 0..MaxEdits + 1
      /\ hindered \in {"NO", "WORK", "TARGET"}
      /\ hs \in HostState
      /\ wk \in Worker
      /\ issued \in 0..MaxKeys
      /\ ui \in Window
      /\ act \in [kind : Kinds, key : 0..MaxKeys]
      /\ acts \in [given : 0..MaxActs, closes : 0..MaxCloses]
      /\ cfaults \in 0..MaxCmFaults
  BY Zenon DEF CmTypeOK, Receipt, Kinds, HostState, Saga, Worker, Answers, Window

\* The ways a command can be handled, one by one.
LEMMA OneHandler ==
    ASSUME HandleCommand, wk.kind \in ActKinds \union {"DRAFT", "EXIT"}
    PROVE  \/ RefusedReadOnly \/ Performed \/ Replayed \/ Conflicted \/ Hampered
           \/ JobCreated \/ SagaBegun
<1> DEFINE Plain == \/ RefusedReadOnly \/ Performed \/ Replayed \/ Conflicted
                    \/ Hampered
<1>1. CASE HandleDraft
    BY <1>1 DEF HandleDraft, DispatchDraft, Dispatch, FromReceipt, SecondTime,
       Handling, Kinds, SagaKinds, Handled, RefusedReadOnly, Performed, Replayed,
       Conflicted, Hampered
<1>2. CASE HandleEdit
    BY <1>2 DEF HandleEdit, Dispatch, FromReceipt, SecondTime, Handling, Kinds,
       SagaKinds, Handled, RefusedReadOnly, Performed, Replayed, Conflicted,
       Hampered
<1>3. CASE HandleCheck
    BY <1>3 DEF HandleCheck, Dispatch, FromReceipt, SecondTime, Handling, Kinds,
       SagaKinds, Handled, RefusedReadOnly, Performed, Replayed, Conflicted,
       Hampered
<1>4. CASE HandleScan
    BY <1>4 DEF HandleScan, DispatchScan, Dispatch, FromReceipt, SecondTime,
       Handling, Kinds, SagaKinds, Handled, RefusedReadOnly, Performed, Replayed,
       Conflicted, Hampered
<1>5. CASE HandleReview
    BY <1>5 DEF HandleReview, DispatchReview, Dispatch, FromReceipt, SecondTime,
       Handling, Kinds, SagaKinds, Handled, RefusedReadOnly, Performed, Replayed,
       Conflicted, Hampered
<1>6. CASE HandleSchedule
    BY <1>6 DEF HandleSchedule, Dispatch, ReplaySchedule, FromReceipt, SecondTime,
       Handling, Kinds, SagaKinds, Handled, RefusedReadOnly, Performed, Replayed,
       Conflicted, Hampered
<1>7. CASE HandleLifecycle
    BY <1>7 DEF HandleLifecycle, Dispatch, ReplayLifecycle, FromReceipt, SecondTime,
       Handling, Kinds, SagaKinds, Handled, RefusedReadOnly, Performed, Replayed,
       Conflicted, Hampered
<1>8. CASE HandleProtect
    BY <1>8 DEF HandleProtect, Dispatch, FromReceipt, SecondTime, Handling, Kinds,
       SagaKinds, Handled, RefusedReadOnly, Performed, Replayed, Conflicted,
       Hampered
<1>9. CASE HandleRestore
    BY <1>9 DEF HandleRestore, Dispatch, FromReceipt, SecondTime, Handling, Kinds,
       SagaKinds, Handled, RefusedReadOnly, Performed, Replayed, Conflicted,
       Hampered
<1>10. CASE HandleUndo
    BY <1>10 DEF HandleUndo, Dispatch, FromReceipt, SecondTime, Handling, Kinds,
       SagaKinds, Handled, RefusedReadOnly, Performed, Replayed, Conflicted,
       Hampered
<1>11. CASE HandleControl
    BY <1>11 DEF HandleControl, DispatchControl, Dispatch, ReplayControl,
       FromReceipt, SecondTime, Handling, Kinds, SagaKinds, Handled, RefusedReadOnly,
       Performed, Replayed, Conflicted, Hampered
<1>12. CASE HandleCreate
    BY <1>12 DEF HandleCreate, DispatchCreate, ReplayCreate,
       FromReceipt, SecondTime, Handling, Kinds, SagaKinds, Handled, RefusedReadOnly,
       Performed, Replayed, Conflicted, Hampered, JobCreated
<1>13. CASE HandleRegister
    BY <1>13 DEF HandleRegister, DispatchRegister,
       DispatchSaga, NoEffect, FromReceipt, SecondTime, Handling, Kinds, SagaKinds,
       Handled, RefusedReadOnly, Replayed, Conflicted, SagaBegun
<1>14. CASE HandleTakeover
    BY <1>14 DEF HandleTakeover, DispatchTakeover,
       DispatchSaga, NoEffect, FromReceipt, SecondTime, Handling, Kinds, SagaKinds,
       Handled, RefusedReadOnly, Replayed, Conflicted, SagaBegun
<1> QED
    BY <1>1, <1>2, <1>3, <1>4, <1>5, <1>6, <1>7, <1>8, <1>9, <1>10, <1>11, <1>12,
       <1>13, <1>14 DEF HandleCommand

\* What closing the window does.
LEMMA CloseFacts ==
    ASSUME NEW u \in Window, CloseEvent(u)
    PROVE  \/ /\ ui' \in Window /\ ui'.rev = u.rev /\ ui'.saved = u.saved
              /\ ui'.key = u.key
              /\ UNCHANGED <<wk, issued>>
           \/ /\ u.saved < u.rev
              /\ \E v \in Window : /\ v.rev = u.rev /\ v.saved = u.saved /\ v.key = u.key
                                   /\ StartSave(v)
           \/ /\ ui' \in Window /\ ui'.rev = u.rev /\ ui'.saved = u.saved
              /\ ui'.key = u.key
              /\ Send("EXIT", NoKey, 0) /\ UNCHANGED issued
<1>1. /\ [u EXCEPT !.wish = TRUE] \in Window
      /\ [u EXCEPT !.wish = TRUE, !.timer = FALSE] \in Window
      /\ [u EXCEPT !.wish = TRUE, !.timer = TRUE] \in Window
      /\ [u EXCEPT !.exit = "NO"] \in Window
      /\ [u EXCEPT !.exit = "ASKED"] \in Window
      /\ [u EXCEPT !.closed = TRUE, !.timer = FALSE] \in Window
    BY DEF Window
<1>2. CASE FlushFirst(u)
    <2>1. u.saved < u.rev
        BY <1>2 DEF FlushFirst
    <2>2. [u EXCEPT !.wish = TRUE].rev = u.rev /\ [u EXCEPT !.wish = TRUE].saved = u.saved
          /\ [u EXCEPT !.wish = TRUE].key = u.key
        BY DEF Window
    <2>3. CASE Pending
        BY <1>1, <1>2, <2>3 DEF CloseEvent, Window
    <2>4. CASE ~Pending /\ wk.at # "idle"
        BY <1>1, <1>2, <2>4 DEF CloseEvent, Window
    <2>5. CASE ~Pending /\ wk.at = "idle"
        <3>1. StartSave([u EXCEPT !.wish = TRUE])
            BY <1>2, <2>5 DEF CloseEvent
        <3> QED
            BY <1>1, <2>1, <2>2, <3>1
    <2> QED
        BY <2>3, <2>4, <2>5
<1>3. CASE ~FlushFirst(u)
    <2>1. CASE u.exit = "WANTED" /\ wk.at # "idle"
        BY <1>1, <1>3, <2>1 DEF CloseEvent, Window
    <2>2. CASE u.exit = "WANTED" /\ wk.at = "idle"
        BY <1>1, <1>3, <2>2 DEF CloseEvent, Window
    <2>3. CASE u.exit = "ASKED"
        BY <1>3, <2>3 DEF CloseEvent, Window
    <2>4. CASE u.exit \in {"NO", "GRANTED"}
        BY <1>1, <1>3, <2>4 DEF CloseEvent, Window
    <2> QED
        BY <2>1, <2>2, <2>3, <2>4 DEF Window
<1> QED
    BY <1>2, <1>3

\* The steps one by one.
LEMMA Moves == CmTypeOK /\ [CmNext]_cmVars => Moved
<1> SUFFICES ASSUME CmTypeOK, [CmNext]_cmVars PROVE Moved
    OBVIOUS
<1> USE DEF HostRests
<1>1. /\ wk \in Worker /\ ui \in Window
      /\ acts \in [given : 0..MaxActs, closes : 0..MaxCloses]
    BY Types
<1>2. CASE HandleCommand
    BY <1>1, <1>2, OneHandler DEF Worker, Moved
<1>3. CASE \/ AcceptRegistration \/ RejectRegistration \/ AcceptTakeover
           \/ RejectTakeover
    BY <1>3 DEF AcceptRegistration, RejectRegistration, AcceptTakeover, RejectTakeover,
       SagaAccepted, SagaRejected, SagaKinds, Moved
<1>4. CASE SaveSetupDraft
    <2>1. CASE ui' = [ui EXCEPT !.timer = FALSE] /\ UNCHANGED <<wk, issued>>
        <3>1. SameDraft(ui')
            BY <1>1, <2>1 DEF SameDraft, Window
        <3> QED
            BY <1>1, <1>4, <2>1, <3>1 DEF SaveSetupDraft, WindowMoves, ActsTyped, Moved
    <2>2. CASE ui.saved < ui.rev /\ StartSave(ui)
        BY <1>1, <1>4, <2>2 DEF SaveSetupDraft, SaveBegins, SameDraft, ActsTyped, Moved
    <2> QED
        BY <1>4, <2>1, <2>2 DEF SaveSetupDraft
<1>5. CASE RefreshStatus
    <2>1. SameDraft(ui')
        BY <1>1, <1>5 DEF RefreshStatus, SameDraft, Window
    <2> QED
        BY <1>1, <1>5, <2>1 DEF RefreshStatus, WindowMoves, ActsTyped, Moved
<1>6. CASE CloseAgain
    <2>1. [ui EXCEPT !.reclose = FALSE] \in Window
        BY <1>1 DEF Window
    <2>2. SameDraft([ui EXCEPT !.reclose = FALSE])
        BY <1>1, <2>1 DEF SameDraft, Window
    <2>3. ActsTyped /\ HostRests /\ UNCHANGED act
        BY <1>1, <1>6 DEF CloseAgain, ActsTyped
    <2> QED
        BY <1>6, <2>1, <2>2, <2>3, CloseFacts
           DEF CloseAgain, SameDraft, WindowMoves, SaveBegins, ExitBegins, Moved
<1>7. CASE CloseWindow
    <2>1. PICK u \in {ui, [ui EXCEPT !.exit = "WANTED"]} : CloseEvent(u)
        BY <1>7 DEF CloseWindow
    <2>2. SameDraft(u)
        BY <1>1 DEF SameDraft, Window
    <2>3. ActsTyped /\ HostRests /\ UNCHANGED act
        BY <1>1, <1>7, Bounds DEF CloseWindow, ActsTyped
    <2> QED
        BY <2>1, <2>2, <2>3, CloseFacts
           DEF SameDraft, WindowMoves, SaveBegins, ExitBegins, Moved
<1>8. CASE SubmitAct
    <2>1. PICK kind : /\ Submit(kind) /\ kind # "DRAFT"
                      /\ kind = "CREATE" => ui.rev <= MaxEdits
        BY <1>8 DEF SubmitAct, SubmitCreate, SubmitEdit, SubmitCheck, SubmitScan,
           SubmitReview, SubmitSchedule, SubmitLifecycle, SubmitProtect, SubmitRestore,
           SubmitUndo, SubmitControl, SubmitRegister, SubmitTakeover
    <2>2. kind = act.kind /\ act.kind \in Kinds
        BY <2>1, Types DEF Submit
    <2> QED
        BY <2>1, <2>2 DEF Kinds, ActBegins, Moved
<1>9. CASE ActAnswered
    BY <1>1, <1>9 DEF ActAnswered, CreateAnswered, EditAnswered, CheckAnswered,
       ScanAnswered, ReviewAnswered, ScheduleAnswered, LifecycleAnswered,
       ProtectAnswered, RestoreAnswered, UndoAnswered, ControlAnswered,
       RegisterAnswered, TakeoverAnswered, AnyAnswer, Reported, ForgetWhen, ActEnds,
       TargetKinds, Moved
<1>10. CASE \/ HandshakeRequired \/ Handshake \/ RegisterAfterCreate \/ SagaEffect
            \/ ShutdownAsked \/ ExpireSession \/ HostCrash \/ HostStart
            \/ WorldChanges \/ LoseAnswer \/ EditSetup \/ SaveAnswered
            \/ ReloadDetail \/ ExitAnswered \/ UNCHANGED cmVars
    BY <1>10 DEF Moved
<1> QED
    BY <1>2, <1>3, <1>4, <1>5, <1>6, <1>7, <1>8, <1>9, <1>10
       DEF CmNext, HostSteps, WindowSteps
-----------------------------------------------------------------------------
\* Types.
LEMMA Constants ==
    /\ NoKey \in 0..MaxKeys /\ CmKeys \subseteq 0..MaxKeys
    /\ NoSaga \in Saga /\ IdleWorker \in Worker
    /\ NoReceipt \in Receipt
  BY Bounds DEF NoKey, CmKeys, NoSaga, Saga, IdleWorker, Worker, Answers, NoReceipt,
     Receipt, Kinds

\* The command in the host's hands.
LEMMA AtHand ==
    ASSUME CmTypeOK, SagaShape, OpenReceipts, Keepers, Handled
    PROVE  /\ wk.key \in CmKeys /\ wk.at \in {"send", "resend"} /\ hs.up
           /\ hs.saga = NoSaga /\ wk.kind \in Kinds /\ wk.val \in 0..MaxEdits
           /\ rc[wk.key].st # "RECEIVED"
           /\ wk.kind # "DRAFT" => wk.kind = act.kind /\ wk.key = act.key
<1> USE DEF Handled, Served
<1>1. wk.key \in CmKeys
    <2>1. wk.kind # "EXIT" /\ wk.at # "idle"
        BY Bounds DEF Kinds
    <2>2. wk.key # NoKey /\ wk.key \in 0..MaxKeys
        BY <2>1, Types DEF Keepers, Busy, Worker
    <2> QED
        BY <2>2 DEF NoKey, CmKeys
<1>2. wk.val \in 0..MaxEdits
    BY Types DEF Worker
<1>3. rc[wk.key].st # "RECEIVED"
    BY <1>1 DEF OpenReceipts, NoSaga, InSaga
<1>4. wk.kind # "DRAFT" => wk.kind = act.kind /\ wk.key = act.key
    BY Bounds DEF Keepers, Busy, Kinds
<1> QED
    BY <1>1, <1>2, <1>3, <1>4

\* An answered worker is a worker.
LEMMA AnswerTyped ==
    \A a \in Answers : wk \in Worker => [wk EXCEPT !.at = "answered", !.ans = a] \in Worker
  BY DEF Worker

\* A worker that goes on, or fails, is a worker.
LEMMA WorkerTyped ==
    ASSUME wk \in Worker
    PROVE  /\ \A x \in {"hello", "resend"} : [wk EXCEPT !.at = x] \in Worker
           /\ [wk EXCEPT !.at = "failed", !.ans = "NONE"] \in Worker
  BY DEF Worker, Answers

\* A host keeps its type when its saga moves and when it stops.
LEMMA HostTyped ==
    ASSUME hs \in HostState
    PROVE  /\ \A g \in Saga : [hs EXCEPT !.saga = g] \in HostState
           /\ [hs EXCEPT !.up = FALSE, !.saga = NoSaga, !.known = FALSE] \in HostState
           /\ [hs EXCEPT !.up = FALSE, !.known = FALSE] \in HostState
           /\ \A w \in BOOLEAN : [hs EXCEPT !.up = TRUE, !.writable = w] \in HostState
           /\ [hs EXCEPT !.saga.here = FALSE, !.known = FALSE] \in HostState
           /\ \A b \in BOOLEAN : [hs EXCEPT !.known = b] \in HostState
           /\ \A o \in {"NONE", "ACCEPTED", "INCOMPLETE", "REJECTED"} :
                 [hs EXCEPT !.saga.at = "finish", !.saga.out = o] \in HostState
<1>1. NoSaga \in Saga /\ hs.saga \in Saga
    BY Constants DEF HostState
<1>2. [hs.saga EXCEPT !.here = FALSE] \in Saga
    BY <1>1 DEF Saga
<1>3. \A o \in {"NONE", "ACCEPTED", "INCOMPLETE", "REJECTED"} :
         [hs.saga EXCEPT !.at = "finish", !.out = o] \in Saga
    BY <1>1 DEF Saga
<1> HIDE DEF NoSaga, Saga
<1> QED
    BY <1>1, <1>2, <1>3 DEF HostState

\* The receipts that are written are receipts.
LEMMA ReceiptTyped ==
    /\ \A st \in {"NONE", "RECEIVED", "REJECTED", "SUCCEEDED"}, k \in Kinds,
          v \in 0..MaxEdits :
          [st |-> st, mine |-> TRUE, kind |-> k, val |-> v] \in Receipt
    /\ \A r \in Receipt, st \in {"NONE", "RECEIVED", "REJECTED", "SUCCEEDED"} :
          [r EXCEPT !.st = st] \in Receipt
    /\ \A r \in Receipt : [r EXCEPT !.mine = FALSE] \in Receipt
  BY DEF Receipt

\* A window that waits for its retry is a window.
LEMMA RetryTyped ==
    ASSUME NEW u \in Window, NEW n \in 0..AutosaveRetries
    PROVE  [u EXCEPT !.tries = n, !.timer = TRUE] \in Window
  BY Zenon DEF Window

\* A window whose draft is saved is a window.
LEMMA ClearTyped ==
    ASSUME NEW u \in Window, NEW v \in 0..MaxEdits + 1, NEW s \in 0..MaxEdits + 1,
           NEW k \in 0..MaxKeys, NEW n \in 0..AutosaveRetries
    PROVE  [u EXCEPT !.rev = v, !.saved = s, !.key = k, !.tries = n, !.timer = FALSE]
             \in Window
  BY Zenon DEF Window

\* Every step keeps the types.
LEMMA TypeStep ==
    ASSUME CmTypeOK, ReceiptShape, SagaShape, OpenReceipts, Keepers, DraftShape, Moved
    PROVE  CmTypeOK'
<1> USE Bounds, Constants
<1>a. /\ rc \in [CmKeys -> Receipt] /\ done \in [CmKeys -> {0, 1}]
      /\ posted \subseteq CmKeys /\ draft \in 0..MaxEdits + 1
      /\ hindered \in {"NO", "WORK", "TARGET"} /\ hs \in HostState /\ wk \in Worker
      /\ issued \in 0..MaxKeys /\ ui \in Window
      /\ act \in [kind : Kinds, key : 0..MaxKeys]
      /\ acts \in [given : 0..MaxActs, closes : 0..MaxCloses]
      /\ cfaults \in 0..MaxCmFaults
    BY Types DEF ReceiptShape
<1>b. SUFFICES /\ rc' \in [CmKeys -> Receipt] /\ done' \in [CmKeys -> 0..2]
               /\ posted' \subseteq CmKeys /\ draft' \in 0..MaxEdits + 1
               /\ hindered' \in {"NO", "WORK", "TARGET"} /\ hs' \in HostState
               /\ wk' \in Worker
               /\ issued' \in 0..MaxKeys /\ ui' \in Window
               /\ act' \in [kind : Kinds, key : 0..MaxKeys]
               /\ acts' \in [given : 0..MaxActs, closes : 0..MaxCloses]
               /\ cfaults' \in 0..MaxCmFaults
    BY Zenon DEF CmTypeOK, Receipt, Kinds, HostState, Saga, Worker, Answers, Window
<1>c. done \in [CmKeys -> 0..2]
    BY <1>a
<1>d. ASSUME Handled
      PROVE  /\ wk.key \in CmKeys /\ wk.kind \in Kinds /\ wk.val \in 0..MaxEdits
             /\ hs.saga = NoSaga
             /\ \A st \in {"NONE", "RECEIVED", "REJECTED", "SUCCEEDED"} :
                  [rc EXCEPT ![wk.key] = [st |-> st, mine |-> TRUE, kind |-> wk.kind,
                                          val |-> wk.val]] \in [CmKeys -> Receipt]
             /\ \A a \in Answers : [wk EXCEPT !.at = "answered", !.ans = a] \in Worker
             /\ UNCHANGED <<hindered, issued, ui, act, acts>>
    <2>1. wk.key \in CmKeys /\ wk.kind \in Kinds /\ wk.val \in 0..MaxEdits /\ hs.saga = NoSaga
        BY <1>d, AtHand
    <2>2. \A a \in Answers : [wk EXCEPT !.at = "answered", !.ans = a] \in Worker
        BY <1>a, AnswerTyped
    <2>3. \A st \in {"NONE", "RECEIVED", "REJECTED", "SUCCEEDED"} :
             [st |-> st, mine |-> TRUE, kind |-> wk.kind, val |-> wk.val] \in Receipt
        BY <2>1, ReceiptTyped
    <2> HIDE DEF Receipt, Worker
    <2> QED
        BY <1>d, <1>a, <2>1, <2>2, <2>3 DEF Handled
<1>e. ASSUME Handled, Effect(wk.key, wk.kind, wk.val)
      PROVE  done' \in [CmKeys -> 0..2] /\ draft' \in 0..MaxEdits + 1
    <2>1. wk.key \in CmKeys /\ wk.val \in 0..MaxEdits
        BY <1>d, <1>e, Zenon
    <2>2. done' \in [CmKeys -> 0..2]
        <3>1. done[wk.key] \in {0, 1}
            BY <1>a, <2>1, Zenon
        <3>2. done[wk.key] + 1 \in 0..2
            BY <3>1
        <3> QED
            BY <1>c, <1>e, <3>2 DEF Effect
    <2>3. wk.val + 1 \in 0..MaxEdits + 1 /\ wk.val \in 0..MaxEdits + 1
        BY <2>1
    <2>4. draft' \in {wk.val, wk.val + 1, draft}
        BY <1>e DEF Effect
    <2> QED
        BY <1>a, <2>2, <2>3, <2>4
<1>g. ASSUME Handled
      PROVE  \A at \in {"targets", "effect"} :
                [hs EXCEPT !.saga = [at |-> at, key |-> wk.key, here |-> TRUE,
                                     out |-> "NONE"]] \in HostState
    <2>1. \A at \in {"targets", "effect"} :
             [at |-> at, key |-> wk.key, here |-> TRUE, out |-> "NONE"] \in Saga
        BY <1>d, <1>g DEF Saga
    <2> HIDE DEF Saga, HostState
    <2> QED
        BY <1>a, <2>1, HostTyped
<1>f. ASSUME CmFault PROVE cfaults' \in 0..MaxCmFaults
    BY <1>f, <1>a DEF CmFault
<1>1. CASE HandshakeRequired
    BY <1>1, <1>a, <1>c, AnswerTyped, WorkerTyped, HostTyped DEF HandshakeRequired,
       Served, Answer, Answers
<1>2. CASE Handshake
    BY <1>2, <1>a, <1>c, WorkerTyped, HostTyped DEF Handshake
<1>3. CASE RefusedReadOnly
    BY <1>3, <1>a, <1>c, <1>d, <1>e, <1>f, <1>g DEF RefusedReadOnly, RefuseReadOnly,
       Reject, NoEffect, Answer, Answers
<1>4. CASE Performed
    BY <1>4, <1>a, <1>c, <1>d, <1>e, <1>f, <1>g DEF Performed, FirstTime, Succeed,
       Reject, NoEffect, Answer, Answers
<1>5. CASE Replayed
    BY <1>5, <1>a, <1>c, <1>d, <1>e, <1>f, <1>g DEF Replayed, ReplayAnswer, Answer,
       Answers
<1>6. CASE Conflicted
    BY <1>6, <1>a, <1>c, <1>d, <1>e, <1>f, <1>g DEF Conflicted, Conflicting, FromReceipt,
       Answer, Answers
<1>7. CASE Hampered
    BY <1>7, <1>a, <1>c, <1>d, <1>e, <1>f, <1>g DEF Hampered, StorageFailure, Answer,
       Answers
<1>8. CASE JobCreated
    BY <1>8, <1>a, <1>c, <1>d, <1>e, <1>f, <1>g DEF JobCreated, CreateJob, Succeed,
       ReplayCreate, FromReceipt, Answers
<1>9. CASE SagaBegun
    BY <1>9, <1>a, <1>c, <1>d, <1>e, <1>f, <1>g DEF SagaBegun, Answers
<1>10. CASE RegisterAfterCreate
    BY <1>10, <1>a, <1>c, AnswerTyped, HostTyped DEF RegisterAfterCreate, Answer, Answers
<1>11. CASE SagaEffect
    <2>1. hs.saga.key \in CmKeys
        BY <1>11 DEF SagaEffect, SagaShape
    <2>2. done' \in [CmKeys -> 0..2]
        BY <1>11, <1>a, <1>c, <2>1 DEF SagaEffect
    <2>3. \E o \in {"ACCEPTED", "INCOMPLETE", "REJECTED"} :
             hs' = [hs EXCEPT !.saga.at = "finish", !.saga.out = o]
        <3>1. CASE hindered = "NO"
            BY <1>11, <3>1 DEF SagaEffect
        <3>2. CASE hindered = "TARGET"
            BY <1>11, <3>2 DEF SagaEffect
        <3>3. CASE hindered = "WORK"
            BY <1>11, <3>3 DEF SagaEffect
        <3> QED
            BY <1>a, <3>1, <3>2, <3>3
    <2>4. hs' \in HostState
        BY <1>a, <2>3, HostTyped
    <2> QED
        BY <1>11, <1>a, <2>2, <2>4 DEF SagaEffect
<1>12. CASE SagaAccepted
    <2>1. PICK kind \in SagaKinds : AcceptSaga(kind)
        BY <1>12 DEF SagaAccepted
    <2>2. hs.saga.key \in CmKeys /\ hs.saga.out \in Answers
        BY <1>a, <2>1 DEF AcceptSaga, SagaShape, HostState, Saga, Answers
    <2>3. wk' \in Worker /\ hs' \in HostState
        BY <1>a, <2>1, <2>2, AnswerTyped, HostTyped DEF AcceptSaga, FinishAnswer, Answer
    <2>4. rc[hs.saga.key] \in Receipt
        BY <1>a, <2>2
    <2>5. \A st \in {"RECEIVED", "NONE", "REJECTED", "SUCCEEDED"} :
             [rc EXCEPT ![hs.saga.key].st = st] \in [CmKeys -> Receipt]
        <3>1. \A st \in {"RECEIVED", "NONE", "REJECTED", "SUCCEEDED"} :
                 [rc[hs.saga.key] EXCEPT !.st = st] \in Receipt
            BY <2>4, ReceiptTyped
        <3> HIDE DEF Receipt
        <3> QED
            BY <1>a, <3>1
    <2>6. rc' \in [CmKeys -> Receipt]
        BY <2>1, <2>4, <2>5 DEF AcceptSaga, Receipt
    <2> QED
        BY <1>a, <1>c, <2>1, <2>2, <2>3, <2>6 DEF AcceptSaga, FinishAnswer
<1>13. CASE SagaRejected
    <2>1. PICK kind \in SagaKinds : RejectSaga(kind)
        BY <1>13 DEF SagaRejected
    <2>2. hs.saga.key \in CmKeys /\ hs.saga.out \in Answers
        BY <1>a, <2>1 DEF RejectSaga, SagaShape, HostState, Saga, Answers
    <2>3. wk' \in Worker /\ hs' \in HostState
        BY <1>a, <2>1, <2>2, AnswerTyped, HostTyped DEF RejectSaga, FinishAnswer, Answer
    <2>4. rc[hs.saga.key] \in Receipt
        BY <1>a, <2>2
    <2>5. \A st \in {"RECEIVED", "NONE", "REJECTED", "SUCCEEDED"} :
             [rc EXCEPT ![hs.saga.key].st = st] \in [CmKeys -> Receipt]
        <3>1. \A st \in {"RECEIVED", "NONE", "REJECTED", "SUCCEEDED"} :
                 [rc[hs.saga.key] EXCEPT !.st = st] \in Receipt
            BY <2>4, ReceiptTyped
        <3> HIDE DEF Receipt
        <3> QED
            BY <1>a, <3>1
    <2>6. rc' \in [CmKeys -> Receipt]
        BY <2>1, <2>4, <2>5 DEF RejectSaga, Receipt
    <2> QED
        BY <1>a, <1>c, <2>1, <2>2, <2>3, <2>6 DEF RejectSaga, FinishAnswer
<1>14. CASE ShutdownAsked
    BY <1>14, <1>a, <1>c, AnswerTyped, WorkerTyped, HostTyped DEF ShutdownAsked, Served,
       Answer, Answers
<1>15. CASE ExpireSession
    BY <1>15, <1>a, <1>c, <1>f, HostTyped DEF ExpireSession
<1>16. CASE HostCrash
    BY <1>16, <1>a, <1>c, <1>f, HostTyped DEF HostCrash
<1>17. CASE HostStart
    BY <1>17, <1>a, <1>c, HostTyped, ReceiptTyped DEF HostStart, Reconciled
<1>18. CASE WorldChanges
    BY <1>18, <1>a, <1>c, <1>f DEF WorldChanges
<1>19. CASE LoseAnswer
    BY <1>19, <1>a, <1>c, <1>f, HostTyped, WorkerTyped, ReceiptTyped DEF LoseAnswer,
       NextClient, Waiting
<1>20. CASE EditSetup
    <2>1. ui.rev + 1 \in 0..MaxEdits + 1
        BY <1>20, <1>a DEF EditSetup, Window
    <2>2. Queued \in Window
        <3>1. NoKey \in 0..MaxKeys /\ 0 \in 0..AutosaveRetries /\ TRUE \in BOOLEAN
            BY DEF AutosaveRetries
        <3> QED
            BY <1>a, <2>1, <3>1, Zenon DEF Queued, Window
    <2> QED
        BY <1>20, <1>a, <1>c, <2>2 DEF EditSetup
<1>21. CASE WindowMoves
    BY <1>21, <1>a, <1>c DEF WindowMoves, SameDraft, ActsTyped, HostRests, RefreshStatus,
       CmFault
<1>22. CASE SaveBegins
    <2>1. PICK u \in Window : SameDraft(u) /\ u.saved < u.rev /\ StartSave(u)
        BY <1>22 DEF SaveBegins
    <2>2. u.rev \in 0..MaxEdits /\ KeyFor(u.key) \in 0..MaxKeys /\ issued' \in 0..MaxKeys
        BY <1>a, <2>1 DEF SameDraft, StartSave, KeyFor, CanName, Named, Window, DraftShape, Kinds
    <2>3. wk' \in Worker /\ ui' \in Window
        BY <1>a, <2>1, <2>2 DEF StartSave, Send, Worker, Answers, Window
    <2> QED
        BY <1>22, <1>a, <1>c, <2>2, <2>3 DEF SaveBegins, HostRests, ActsTyped
<1>23. CASE SaveAnswered
    <2>1. AcceptSave(ui, wk.val) \in Window
        <3>1. wk.val \in 0..MaxEdits + 1
            BY <1>a DEF Worker
        <3>2. (IF ui.saved > wk.val THEN ui.saved ELSE wk.val) \in 0..MaxEdits + 1
            BY <1>a, <3>1 DEF Window
        <3>3. (IF wk.val = ui.rev THEN ui.timer ELSE TRUE) \in BOOLEAN
            BY <1>a, Zenon DEF Window
        <3>5. (ui.attempted \/ (wk.val = ui.rev /\ ui.wish)) \in BOOLEAN
              /\ (ui.reclose \/ (wk.val = ui.rev /\ ui.wish)) \in BOOLEAN
            BY DEF Window
        <3>4. (IF wk.val = ui.rev THEN NoKey ELSE ui.key) \in 0..MaxKeys
              /\ (IF wk.val = ui.rev THEN 0 ELSE ui.tries) \in 0..AutosaveRetries
            BY <1>a DEF Window, AutosaveRetries
        <3> DEFINE saved == IF ui.saved > wk.val THEN ui.saved ELSE wk.val
                   key == IF wk.val = ui.rev THEN NoKey ELSE ui.key
                   tries == IF wk.val = ui.rev THEN 0 ELSE ui.tries
                   timer == IF wk.val = ui.rev THEN ui.timer ELSE TRUE
                   attempted == ui.attempted \/ (wk.val = ui.rev /\ ui.wish)
                   reclose == ui.reclose \/ (wk.val = ui.rev /\ ui.wish)
        <3>6. AcceptSave(ui, wk.val) =
                [ui EXCEPT !.saved = saved, !.key = key, !.tries = tries, !.timer = timer,
                           !.attempted = attempted, !.reclose = reclose,
                           !.warned = FALSE]
            BY DEF AcceptSave, SavedRevision
        <3>7. /\ saved \in 0..MaxEdits + 1 /\ key \in 0..MaxKeys
              /\ tries \in 0..AutosaveRetries /\ timer \in BOOLEAN
              /\ attempted \in BOOLEAN /\ reclose \in BOOLEAN
            BY <3>2, <3>3, <3>4, <3>5
        <3> HIDE DEF saved, key, tries, timer, attempted, reclose
        <3>8. [ui EXCEPT !.saved = saved, !.key = key, !.tries = tries, !.timer = timer,
                         !.attempted = attempted, !.reclose = reclose,
                         !.warned = FALSE] \in Window
            BY <1>a, <3>7, Zenon DEF Window
        <3> QED
            BY <3>6, <3>8, Zenon
    <2>2. RetrySave(ui, wk.val) \in Window
        <3>1. [ui EXCEPT !.key = NoKey, !.tries = 0, !.timer = TRUE] \in Window
            <4>1. NoKey \in 0..MaxKeys /\ 0 \in 0..AutosaveRetries /\ TRUE \in BOOLEAN
                BY DEF AutosaveRetries
            <4> QED
                BY <1>a, <4>1, Zenon DEF Window
        <3>2. ui.tries < AutosaveRetries =>
                [ui EXCEPT !.tries = ui.tries + 1, !.timer = TRUE] \in Window
            <4>1. ui.tries < AutosaveRetries => ui.tries + 1 \in 0..AutosaveRetries
                BY <1>a DEF Window, AutosaveRetries
            <4> QED
                BY <1>a, <4>1, RetryTyped, Zenon
        <3>3. [ui EXCEPT !.warned = TRUE, !.wish = FALSE] \in Window
            BY <1>a DEF Window
        <3> QED
            BY <3>1, <3>2, <3>3, Zenon DEF RetrySave
    <2>3. ui' \in Window
        BY <1>23, <2>1, <2>2 DEF SaveAnswered
    <2> QED
        BY <1>23, <1>a, <1>c, <2>3 DEF SaveAnswered, WorkerDone
<1>24. CASE ActBegins
    <2>1. PICK kind \in ActKinds : Submit(kind) /\ (kind = "CREATE" => ui.rev <= MaxEdits)
        BY <1>24 DEF ActBegins
    <2>2. KeyFor(act.key) \in 0..MaxKeys /\ issued' \in 0..MaxKeys
        BY <1>a, <2>1 DEF Submit, KeyFor, CanName, Named
    <2>3. wk' \in Worker
        BY <1>a, <2>1, <2>2 DEF Submit, Send, Worker, Answers, Window
    <2>4. act' \in [kind : Kinds, key : 0..MaxKeys]
        BY <1>a, <2>1, <2>2 DEF Submit
    <2>5. acts' \in [given : 0..MaxActs, closes : 0..MaxCloses]
        BY <1>a, <2>1 DEF Submit
    <2> QED
        BY <1>a, <1>c, <2>1, <2>2, <2>3, <2>4, <2>5 DEF Submit
<1>25. CASE ActEnds
    <2>1. ui' \in Window
        <3>1. CASE UNCHANGED ui
            BY <1>a, <3>1
        <3>2. CASE wk.kind = "CREATE" /\ wk.ans = "ACCEPTED" /\ ~UNCHANGED ui
            <4>1. ui.rev \in 0..MaxEdits
                BY <1>25, <1>a, <3>2 DEF ActEnds, Keepers, Busy, DraftShape, Window, Worker
            <4>2. ui.rev + 1 \in 0..MaxEdits + 1
                BY <4>1
            <4>3. ui' = [ui EXCEPT !.rev = ui.rev + 1, !.saved = ui.rev + 1, !.key = NoKey,
                                   !.tries = 0, !.timer = FALSE]
                BY <1>25, <3>2 DEF ActEnds
            <4>4. NoKey \in 0..MaxKeys /\ 0 \in 0..AutosaveRetries /\ FALSE \in BOOLEAN
                BY DEF AutosaveRetries
            <4> QED
                BY <1>a, <4>2, <4>3, <4>4, ClearTyped, Zenon
        <3> QED
            BY <1>25, <3>1, <3>2 DEF ActEnds
    <2>2. act' \in [kind : Kinds, key : 0..MaxKeys]
        BY <1>25, <1>a DEF ActEnds
    <2> QED
        BY <1>25, <1>a, <1>c, <2>1, <2>2 DEF ActEnds, WorkerDone
<1>26. CASE ReloadDetail
    BY <1>26, <1>a, <1>c DEF ReloadDetail
<1>27. CASE ExitBegins
    <2>1. wk' \in Worker
        BY <1>27 DEF ExitBegins, Send, Worker, Answers
    <2> QED
        BY <1>27, <1>a, <1>c, <2>1 DEF ExitBegins, HostRests, ActsTyped, SameDraft
<1>28. CASE ExitAnswered
    <2>1. ui' \in Window
        BY <1>28, <1>a DEF ExitAnswered, Window
    <2> QED
        BY <1>28, <1>a, <1>c, <2>1 DEF ExitAnswered, WorkerDone
<1>29. CASE UNCHANGED cmVars
    BY <1>29, <1>a, <1>c DEF cmVars
<1> QED
    BY <1>1, <1>2, <1>3, <1>4, <1>5, <1>6, <1>7, <1>8, <1>9, <1>10, <1>11, <1>12,
       <1>13, <1>14, <1>15, <1>16, <1>17, <1>18, <1>19, <1>20, <1>21, <1>22, <1>23,
       <1>24, <1>25, <1>26, <1>27, <1>28, <1>29 DEF Moved

-----------------------------------------------------------------------------
\* Which steps change the stores.
StoreSteps ==
    \/ RefusedReadOnly \/ Performed \/ Replayed \/ JobCreated \/ SagaBegun
    \/ SagaEffect \/ SagaAccepted \/ SagaRejected \/ HostStart \/ LoseAnswer

\* Receipts, effects and posted commands change only in steps of the store.
LEMMA StoreFrame ==
    ASSUME CmTypeOK, Moved
    PROVE  /\ StoreSteps \/ UNCHANGED <<rc, done, posted>>
           /\ issued' \in Nat /\ issued <= issued'
           /\ StoreSteps => UNCHANGED issued
<1>0. issued \in Nat
    BY Types, Bounds
<1>1. ASSUME StoreSteps PROVE UNCHANGED issued
    <2>1. CASE RefusedReadOnly \/ Performed \/ Replayed \/ JobCreated \/ SagaBegun
        BY <2>1 DEF RefusedReadOnly, Performed, Replayed, JobCreated, SagaBegun, Handled
    <2>2. CASE SagaEffect \/ SagaAccepted \/ SagaRejected \/ HostStart \/ LoseAnswer
        BY <2>2 DEF SagaEffect, SagaAccepted, SagaRejected, AcceptSaga, RejectSaga,
           FinishAnswer, HostStart, LoseAnswer
    <2> QED
        BY <1>1, <2>1, <2>2 DEF StoreSteps
<1>2. CASE HandshakeRequired \/ Handshake \/ Conflicted \/ Hampered \/ RegisterAfterCreate
           \/ ShutdownAsked \/ ExpireSession \/ HostCrash \/ WorldChanges \/ EditSetup
    BY <1>0, <1>2 DEF HandshakeRequired, Handshake, Conflicted, Conflicting, FromReceipt,
       Hampered, StorageFailure, Handled, RegisterAfterCreate, ShutdownAsked,
       ExpireSession, HostCrash, WorldChanges, EditSetup
<1>3. CASE WindowMoves \/ SaveAnswered \/ ActEnds \/ ReloadDetail \/ ExitBegins
           \/ ExitAnswered \/ UNCHANGED cmVars
    BY <1>0, <1>3 DEF WindowMoves, SaveAnswered, ActEnds, ReloadDetail, ExitBegins,
       HostRests, ExitAnswered, cmVars
<1>4. ASSUME SaveBegins
      PROVE  /\ UNCHANGED <<rc, done, posted>>
             /\ issued' = issued \/ issued' = issued + 1
    BY <1>4 DEF SaveBegins, HostRests, StartSave, Named
<1>5. ASSUME ActBegins
      PROVE  /\ UNCHANGED <<rc, done, posted>>
             /\ issued' = issued \/ issued' = issued + 1
    BY <1>5 DEF ActBegins, Submit, Named
<1> QED
    BY <1>0, <1>1, <1>2, <1>3, <1>4, <1>5 DEF Moved, StoreSteps

\* A receipt tells what became of its command.
LEMMA ReceiptStep ==
    ASSUME CmTypeOK, ReceiptShape, ReceiptTellsEffect, SagaShape, OpenReceipts, Keepers,
           Kept, Moved
    PROVE  ReceiptShape' /\ ReceiptTellsEffect'
<1> SUFFICES ASSUME NEW k \in CmKeys
             PROVE  /\ done'[k] \in {0, 1}
                    /\ rc'[k].st = "RECEIVED" => rc'[k].kind \in SagaKinds
                    /\ rc'[k].mine => rc'[k].st # "NONE"
                    /\ k > issued' => rc'[k].st = "NONE"
                    /\ rc'[k].st = "SUCCEEDED" <=> k \in posted'
                    /\ rc'[k].st = "SUCCEEDED" => done'[k] = 1
                    /\ rc'[k].st \in {"NONE", "REJECTED"}
                         /\ ~(rc'[k].kind \in SagaKinds /\ rc'[k].st = "REJECTED")
                         => done'[k] = 0
    BY DEF ReceiptShape, ReceiptTellsEffect, CutOff, SagaKinds
<1>a. /\ rc \in [CmKeys -> Receipt] /\ done \in [CmKeys -> 0..2]
      /\ posted \subseteq CmKeys /\ issued \in 0..MaxKeys /\ k \in Nat /\ issued' \in Nat
      /\ issued <= issued'
    BY Types, StoreFrame, Bounds DEF CmKeys
<1>b. \A m \in CmKeys :
        /\ rc[m] \in Receipt
        /\ done[m] \in {0, 1}
        /\ rc[m].st = "RECEIVED" => rc[m].kind \in SagaKinds
        /\ rc[m].mine => rc[m].st # "NONE"
        /\ m > issued => rc[m].st = "NONE"
        /\ rc[m].st = "SUCCEEDED" <=> m \in posted
        /\ rc[m].st = "SUCCEEDED" => done[m] = 1
        /\ rc[m].st \in {"NONE", "REJECTED"}
             /\ ~(rc[m].kind \in SagaKinds /\ rc[m].st = "REJECTED") => done[m] = 0
    BY <1>a DEF ReceiptShape, ReceiptTellsEffect, CutOff, SagaKinds
<1>c. ASSUME Handled
      PROVE  /\ wk.key \in CmKeys /\ wk.key <= issued /\ wk.kind \in Kinds
             /\ wk.val \in 0..MaxEdits /\ hs.saga = NoSaga /\ rc[wk.key].st # "RECEIVED"
             /\ issued' = issued
    BY <1>a, <1>c, AtHand DEF Keepers, Handled, NoKey
<1>1. CASE RefusedReadOnly
    BY <1>1, <1>a, <1>b, <1>c DEF RefusedReadOnly, RefuseReadOnly, Reject, NoEffect,
       Answer, Receipt
<1>2. CASE Performed
    BY <1>2, <1>a, <1>b, <1>c DEF Performed, FirstTime, Effect, Succeed, Reject,
       NoEffect, Answer, Receipt
<1>3. CASE Replayed
    <2>1. ~(wk.kind = "LIFECYCLE" /\ rc[wk.key].st = "REJECTED")
        BY <1>3, <1>c, Bounds DEF Replayed, Handled, Served, Compatible, Kept, Retryable,
           Answering, TargetKinds, NoKey, CmKeys
    <2> QED
        BY <1>3, <1>a, <1>b, <2>1 DEF Replayed, Handled
<1>4. CASE JobCreated
    BY <1>4, <1>a, <1>b, <1>c DEF JobCreated, CreateJob, Effect, Succeed, ReplayCreate,
       FromReceipt, Receipt
<1>5. CASE SagaBegun
    BY <1>5, <1>a, <1>b, <1>c DEF SagaBegun, Receipt
<1>6. CASE SagaEffect
    <2>1. hs.saga.key \in CmKeys /\ rc[hs.saga.key].st \in {"RECEIVED", "SUCCEEDED"}
        BY <1>6 DEF SagaEffect, SagaShape, InSaga
    <2> QED
        BY <1>6, <1>a, <1>b, <2>1 DEF SagaEffect
<1>7. CASE SagaAccepted
    <2>1. PICK kind \in SagaKinds : AcceptSaga(kind)
        BY <1>7 DEF SagaAccepted
    <2>2. /\ hs.saga.key \in CmKeys /\ hs.saga.key <= issued
          /\ rc[hs.saga.key].st \in {"RECEIVED", "SUCCEEDED"}
          /\ rc[hs.saga.key].kind = kind
          /\ hs.saga.out # "REJECTED" => done[hs.saga.key] = 1
        BY <1>a, <1>b, <2>1, Bounds DEF AcceptSaga, SagaShape, InSaga, CmKeys
    <2> QED
        BY <1>a, <1>b, <2>1, <2>2 DEF AcceptSaga, FinishAnswer, Receipt
<1>8. CASE SagaRejected
    <2>1. PICK kind \in SagaKinds : RejectSaga(kind)
        BY <1>8 DEF SagaRejected
    <2>2. /\ hs.saga.key \in CmKeys /\ hs.saga.key <= issued
          /\ rc[hs.saga.key].st \in {"RECEIVED", "SUCCEEDED"}
          /\ rc[hs.saga.key].kind = kind
          /\ hs.saga.out # "REJECTED" => done[hs.saga.key] = 1
        BY <1>a, <1>b, <2>1, Bounds DEF RejectSaga, SagaShape, InSaga, CmKeys
    <2> QED
        BY <1>a, <1>b, <2>1, <2>2 DEF RejectSaga, FinishAnswer, Receipt
<1>9. CASE HostStart
    BY <1>9, <1>a, <1>b, <1>c DEF HostStart, Reconciled, Receipt
<1>10. CASE LoseAnswer
    BY <1>10, <1>a, <1>b, <1>c DEF LoseAnswer, NextClient, Waiting, CmFault, Receipt
<1>11. CASE UNCHANGED <<rc, done, posted>>
    BY <1>11, <1>a, <1>b
<1> QED
    BY <1>1, <1>2, <1>3, <1>4, <1>5, <1>6, <1>7, <1>8, <1>9, <1>10, <1>11,
       StoreFrame DEF StoreSteps

\* What the host has in its hands.
LEMMA SagaStep ==
    ASSUME CmTypeOK, ReceiptShape, ReceiptTellsEffect, SagaShape, OpenReceipts, Keepers, Moved
    PROVE  SagaShape' /\ OpenReceipts'
<1>a. /\ rc \in [CmKeys -> Receipt] /\ done \in [CmKeys -> 0..2]
      /\ hs \in HostState /\ wk \in Worker /\ IdleWorker \in Worker
    BY Types, Constants
<1>b. \A m \in CmKeys : rc[m].st # "SUCCEEDED" \/ done[m] = 1
    BY DEF ReceiptTellsEffect
<1>c. ASSUME Handled
      PROVE  /\ wk.key \in CmKeys /\ wk.at \in {"send", "resend"} /\ hs.up
             /\ hs.saga = NoSaga /\ rc[wk.key].st # "RECEIVED"
    BY <1>c, AtHand
<1>d. NoSaga.at = "idle" /\ ~NoSaga.here /\ IdleWorker.at = "idle"
    BY DEF NoSaga, IdleWorker
<1>e. UNCHANGED <<rc, done>> \/ StoreSteps
    BY StoreFrame
<1> USE DEF InSaga
<1>1. CASE HandshakeRequired
    BY <1>1, <1>a, <1>b, <1>d DEF HandshakeRequired, Served, Answer, SagaShape,
       OpenReceipts, HostState, Saga, Worker
<1>2. CASE Handshake
    BY <1>2, <1>a, <1>b, <1>d DEF Handshake, SagaShape, OpenReceipts, HostState, Saga,
       Worker
<1>3. CASE RefusedReadOnly
    BY <1>3, <1>a, <1>b, <1>d, <1>c DEF RefusedReadOnly, RefuseReadOnly, Reject,
       NoEffect, Answer, SagaShape, OpenReceipts, HostState, Saga, Worker
<1>4. CASE Performed
    BY <1>4, <1>a, <1>b, <1>d, <1>c DEF Performed, FirstTime, Effect, Succeed, Reject,
       NoEffect, Answer, SagaShape, OpenReceipts, HostState, Saga, Worker
<1>5. CASE Replayed
    BY <1>5, <1>a, <1>b, <1>d, <1>c DEF Replayed, ReplayAnswer, Answer, SagaShape,
       OpenReceipts, HostState, Saga, Worker
<1>6. CASE Conflicted
    BY <1>6, <1>a, <1>b, <1>d, <1>c DEF Conflicted, Conflicting, FromReceipt, Answer,
       SagaShape, OpenReceipts, HostState, Saga, Worker
<1>7. CASE Hampered
    BY <1>7, <1>a, <1>b, <1>d, <1>c DEF Hampered, StorageFailure, CmFault, Answer,
       SagaShape, OpenReceipts, HostState, Saga, Worker
<1>8. CASE JobCreated
    <2>1. /\ rc'[wk.key].st = "SUCCEEDED" /\ rc'[wk.key].kind = "CREATE"
          /\ \A m \in CmKeys : m # wk.key => rc'[m] = rc[m]
        BY <1>8, <1>a, <1>c DEF JobCreated, CreateJob, Succeed, ReplayCreate, FromReceipt,
           Compatible
    <2>2. /\ hs'.saga.at = "targets" /\ hs'.saga.key = wk.key /\ hs'.up
          /\ wk' = wk /\ wk.at \in {"send", "resend"}
        BY <1>8, <1>a, <1>c DEF JobCreated, HostState, Saga
    <2>3. \A m \in CmKeys : rc[m].st # "RECEIVED"
        BY <1>8, <1>c, <1>d DEF JobCreated, OpenReceipts
    <2> QED
        BY <1>8, <1>c, <2>1, <2>2, <2>3 DEF JobCreated, SagaShape, OpenReceipts
<1>9. CASE SagaBegun
    <2>1. /\ rc'[wk.key].st \in {"RECEIVED", "SUCCEEDED"} /\ rc'[wk.key].kind \in SagaKinds
          /\ \A m \in CmKeys : m # wk.key => rc'[m] = rc[m]
        BY <1>9, <1>a, <1>c DEF SagaBegun, Compatible, SagaKinds
    <2>2. /\ hs'.saga.at = "effect" /\ hs'.saga.key = wk.key /\ hs'.up
          /\ wk' = wk /\ wk.at \in {"send", "resend"}
        BY <1>9, <1>a, <1>c DEF SagaBegun, HostState, Saga
    <2>3. \A m \in CmKeys : rc[m].st # "RECEIVED"
        BY <1>9, <1>c, <1>d DEF SagaBegun, OpenReceipts
    <2> QED
        BY <1>9, <1>c, <2>1, <2>2, <2>3 DEF SagaBegun, SagaShape, OpenReceipts
<1>10. CASE RegisterAfterCreate
    BY <1>10, <1>a, <1>b, <1>d DEF RegisterAfterCreate, Answer, SagaShape, OpenReceipts,
       HostState, Saga, Worker
<1>11. CASE SagaEffect
    <2>1. /\ hs.up /\ hs.saga.key \in CmKeys
          /\ rc[hs.saga.key].st \in {"RECEIVED", "SUCCEEDED"}
          /\ rc[hs.saga.key].kind \in SagaKinds
          /\ rc' = rc /\ wk' = wk
        BY <1>11 DEF SagaEffect, SagaShape
    <2>2. /\ hs'.up /\ hs'.saga.at = "finish" /\ hs'.saga.key = hs.saga.key
          /\ hs'.saga.here = hs.saga.here
          /\ hs'.saga.out = CASE hindered = "NO" -> "ACCEPTED"
                              [] hindered = "TARGET" -> "INCOMPLETE"
                              [] hindered = "WORK" -> "REJECTED"
        BY <1>11, <1>a DEF SagaEffect, HostState, Saga
    <2>3. hindered \in {"NO", "WORK", "TARGET"}
        BY Types
    <2>4. /\ hs'.saga.out # "NONE"
          /\ hs'.saga.out # "REJECTED" => hindered # "WORK"
        BY <2>2, <2>3
    <2>5. hindered # "WORK" => done'[hs.saga.key] = 1
        BY <1>11, <1>a, <2>1 DEF SagaEffect, Applicable
    <2>6. hs.saga.at = "effect" /\ hs.saga # NoSaga
        BY <1>11, <1>d DEF SagaEffect
    <2>7. SagaShape'
        BY <2>1, <2>2, <2>4, <2>5, <2>6 DEF SagaShape
    <2>8. OpenReceipts'
        BY <2>1, <2>2, <2>6 DEF OpenReceipts
    <2> QED
        BY <2>7, <2>8
<1>12. CASE SagaAccepted
    BY <1>12, <1>a, <1>b, <1>d DEF SagaAccepted, AcceptSaga, FinishAnswer, Answer,
       SagaShape, OpenReceipts, HostState, Saga, Worker
<1>13. CASE SagaRejected
    BY <1>13, <1>a, <1>b, <1>d DEF SagaRejected, RejectSaga, FinishAnswer, Answer,
       SagaShape, OpenReceipts, HostState, Saga, Worker
<1>14. CASE ShutdownAsked
    BY <1>14, <1>a, <1>b, <1>d DEF ShutdownAsked, Served, Answer, SagaShape, OpenReceipts,
       HostState, Saga, Worker
<1>15. CASE ExpireSession
    BY <1>15, <1>a, <1>b, <1>d DEF ExpireSession, CmFault, SagaShape, OpenReceipts,
       HostState, Saga, Worker
<1>16. CASE HostCrash
    BY <1>16, <1>a, <1>b, <1>d DEF HostCrash, CmFault, SagaShape, OpenReceipts, HostState,
       Saga, Worker
<1>17. CASE HostStart
    BY <1>17, <1>a, <1>b, <1>d DEF HostStart, Reconciled, SagaShape, OpenReceipts,
       HostState, Saga, Worker
<1>18. CASE WorldChanges
    BY <1>18, <1>a, <1>b, <1>d DEF WorldChanges, CmFault, SagaShape, OpenReceipts,
       HostState, Saga, Worker
<1>19. CASE LoseAnswer
    <2>1. \A m \in CmKeys : rc'[m].st = rc[m].st /\ rc'[m].kind = rc[m].kind
        BY <1>19, <1>a DEF LoseAnswer, NextClient, Receipt
    <2>2. /\ hs'.saga = [hs.saga EXCEPT !.here = FALSE] /\ hs'.up = hs.up
          /\ wk'.at = "failed" /\ done' = done
        BY <1>19, <1>a DEF LoseAnswer, HostState, Worker
    <2>3. /\ hs'.saga.at = hs.saga.at /\ hs'.saga.key = hs.saga.key
          /\ hs'.saga.out = hs.saga.out /\ ~hs'.saga.here
        BY <1>a, <2>2 DEF HostState, Saga
    <2>4. hs.saga = NoSaga => hs'.saga = NoSaga
        <3>1. [NoSaga EXCEPT !.here = FALSE] = NoSaga
            <4>1. NoSaga \in [at : {"idle"}, key : {NoKey}, here : {FALSE}, out : {"NONE"}]
                BY DEF NoSaga
            <4> QED
                BY <4>1
        <3> QED
            BY <2>2, <3>1
    <2> QED
        BY <2>1, <2>2, <2>3, <2>4 DEF SagaShape, OpenReceipts
<1>20. CASE EditSetup
    BY <1>20, <1>a, <1>b, <1>d DEF EditSetup, Queued, SagaShape, OpenReceipts, HostState,
       Saga, Worker
<1>21. CASE WindowMoves
    BY <1>21, <1>a, <1>b, <1>d DEF WindowMoves, SameDraft, SagaShape, OpenReceipts,
       HostState, Saga, Worker
<1>22. CASE SaveBegins
    BY <1>22, <1>a, <1>b, <1>d DEF SaveBegins, SameDraft, HostRests, StartSave, Send,
       KeyFor, Named, CanName, SagaShape, OpenReceipts, HostState, Saga, Worker
<1>23. CASE SaveAnswered
    BY <1>23, <1>a, <1>b, <1>d DEF SaveAnswered, AcceptSave, RetrySave, SavedRevision,
       WorkerDone, SagaShape, OpenReceipts, HostState, Saga, Worker
<1>24. CASE ActBegins
    BY <1>24, <1>a, <1>b, <1>d DEF ActBegins, Submit, Send, KeyFor, Named, CanName,
       SagaShape, OpenReceipts, HostState, Saga, Worker
<1>25. CASE ActEnds
    BY <1>25, <1>a, <1>b, <1>d DEF ActEnds, WorkerDone, SagaShape, OpenReceipts,
       HostState, Saga, Worker
<1>26. CASE ReloadDetail
    BY <1>26, <1>a, <1>b, <1>d DEF ReloadDetail, SagaShape, OpenReceipts, HostState, Saga,
       Worker
<1>27. CASE ExitBegins
    BY <1>27, <1>a, <1>b, <1>d DEF ExitBegins, SameDraft, HostRests, Send, SagaShape,
       OpenReceipts, HostState, Saga, Worker
<1>28. CASE ExitAnswered
    BY <1>28, <1>a, <1>b, <1>d DEF ExitAnswered, WorkerDone, SagaShape, OpenReceipts,
       HostState, Saga, Worker
<1>29. CASE UNCHANGED cmVars
    BY <1>29, <1>a, <1>b, <1>d DEF cmVars, SagaShape, OpenReceipts, HostState, Saga,
       Worker
<1> QED
    BY <1>1, <1>2, <1>3, <1>4, <1>5, <1>6, <1>7, <1>8, <1>9, <1>10, <1>11, <1>12,
       <1>13, <1>14, <1>15, <1>16, <1>17, <1>18, <1>19, <1>20, <1>21, <1>22, <1>23,
       <1>24, <1>25, <1>26, <1>27, <1>28, <1>29 DEF Moved

\* Who keeps which key.
\* An answer changes no keeper.
LEMMA AnswerKeeps ==
    ASSUME NEW a, Keepers, wk \in Worker, wk.at \in {"send", "resend"}, Answer(a),
           UNCHANGED <<issued, ui, act>>
    PROVE  Keepers'
<1>1. /\ wk'.at = "answered" /\ wk'.kind = wk.kind /\ wk'.key = wk.key
      /\ wk'.val = wk.val
    BY DEF Answer, Worker
<1> QED
    BY <1>1 DEF Keepers, Busy

\* Every step respects who keeps a key.
LEMMA KeepersStep ==
    ASSUME CmTypeOK, SagaShape, OpenReceipts, Keepers, DraftShape, Moved
    PROVE  Keepers'
<1>a. /\ rc \in [CmKeys -> Receipt] /\ hs \in HostState /\ wk \in Worker
      /\ issued \in 0..MaxKeys /\ ui \in Window /\ act \in [kind : Kinds, key : 0..MaxKeys]
    BY Types
<1>c. ASSUME Handled
      PROVE  /\ wk.key \in CmKeys /\ wk.at \in {"send", "resend"}
             /\ UNCHANGED <<issued, ui, act>>
    BY <1>c, AtHand DEF Handled
<1> USE Bounds DEF NoKey
<1>1. CASE HandshakeRequired
    <2>1. CASE wk.at = "send"
        BY <1>1, <1>a, <2>1 DEF HandshakeRequired, Keepers, Busy, Worker
    <2>2. CASE wk.at # "send"
        BY <1>1, <1>a, <2>2, AnswerKeeps DEF HandshakeRequired, Served
    <2> QED
        BY <2>1, <2>2
<1>2. CASE Handshake
    BY <1>2, <1>a DEF Handshake, Keepers, Busy, Worker
<1>3. CASE RefusedReadOnly
    BY <1>3, <1>a, <1>c, AnswerKeeps DEF RefusedReadOnly, RefuseReadOnly, Reject, NoEffect
<1>4. CASE Performed
    BY <1>4, <1>a, <1>c, AnswerKeeps DEF Performed, FirstTime, Effect, Succeed, Reject,
       NoEffect
<1>5. CASE Replayed
    BY <1>5, <1>a, <1>c, AnswerKeeps DEF Replayed, ReplayAnswer
<1>6. CASE Conflicted
    BY <1>6, <1>a, <1>c, AnswerKeeps DEF Conflicted, Conflicting, FromReceipt
<1>7. CASE Hampered
    BY <1>7, <1>a, <1>c DEF Hampered, StorageFailure, CmFault, Answer, Keepers, Busy,
       Worker
<1>8. CASE JobCreated
    BY <1>8, <1>a, <1>c DEF JobCreated, CreateJob, Effect, Succeed, ReplayCreate,
       FromReceipt, Keepers, Busy, Worker
<1>9. CASE SagaBegun
    BY <1>9, <1>a, <1>c DEF SagaBegun, Keepers, Busy, Worker
<1>10. CASE RegisterAfterCreate
    <2>1. \/ UNCHANGED wk
          \/ wk.at \in {"send", "resend"} /\ \E a \in Answers : Answer(a)
        BY <1>10 DEF RegisterAfterCreate, SagaShape, Answers
    <2>2. UNCHANGED <<issued, ui, act>>
        BY <1>10 DEF RegisterAfterCreate
    <2> QED
        BY <1>a, <2>1, <2>2, AnswerKeeps DEF Keepers, Busy
<1>11. CASE SagaEffect
    BY <1>11, <1>a DEF SagaEffect, Keepers, Busy, Worker
<1>12. CASE SagaAccepted
    <2>1. PICK kind \in SagaKinds : AcceptSaga(kind)
        BY <1>12 DEF SagaAccepted
    <2>2. \/ UNCHANGED wk
          \/ wk.at \in {"send", "resend"} /\ Answer(hs.saga.out)
        BY <2>1 DEF AcceptSaga, FinishAnswer, SagaShape
    <2>3. UNCHANGED <<issued, ui, act>>
        BY <2>1 DEF AcceptSaga, FinishAnswer
    <2> QED
        BY <1>a, <2>2, <2>3, AnswerKeeps DEF Keepers, Busy
<1>13. CASE SagaRejected
    <2>1. PICK kind \in SagaKinds : RejectSaga(kind)
        BY <1>13 DEF SagaRejected
    <2>2. \/ UNCHANGED wk
          \/ wk.at \in {"send", "resend"} /\ Answer(hs.saga.out)
        BY <2>1 DEF RejectSaga, FinishAnswer, SagaShape
    <2>3. UNCHANGED <<issued, ui, act>>
        BY <2>1 DEF RejectSaga, FinishAnswer
    <2> QED
        BY <1>a, <2>2, <2>3, AnswerKeeps DEF Keepers, Busy
<1>14. CASE ShutdownAsked
    BY <1>14, <1>a, AnswerKeeps DEF ShutdownAsked, Served
<1>15. CASE ExpireSession
    BY <1>15, <1>a DEF ExpireSession, CmFault, Keepers, Busy, Worker
<1>16. CASE HostCrash
    BY <1>16, <1>a DEF HostCrash, CmFault, Keepers, Busy, Worker
<1>17. CASE HostStart
    BY <1>17, <1>a DEF HostStart, Reconciled, Keepers, Busy, Worker
<1>18. CASE WorldChanges
    BY <1>18, <1>a DEF WorldChanges, CmFault, Keepers, Busy, Worker
<1>19. CASE LoseAnswer
    BY <1>19, <1>a DEF LoseAnswer, NextClient, Waiting, CmFault, Keepers, Busy, Worker
<1>20. CASE EditSetup
    BY <1>20, <1>a DEF EditSetup, Queued, Keepers, Busy, Worker, Window
<1>21. CASE WindowMoves
    BY <1>21, <1>a DEF WindowMoves, SameDraft, Keepers, Busy, Worker, Window
<1>22. CASE SaveBegins
    BY <1>22, <1>a DEF SaveBegins, SameDraft, HostRests, StartSave, Send, KeyFor, Named,
       CanName, Keepers, Busy, Worker, Window
<1>23. CASE SaveAnswered
    BY <1>23, <1>a DEF SaveAnswered, AcceptSave, RetrySave, SavedRevision, WorkerDone,
       Keepers, Busy, Worker, IdleWorker, Window
<1>24. CASE ActBegins
    BY <1>24, <1>a DEF ActBegins, Submit, Send, KeyFor, Named, CanName, Keepers, Busy,
       Worker
<1>25. CASE ActEnds
    <2>1. wk' = IdleWorker /\ issued' = issued
        BY <1>25 DEF ActEnds, WorkerDone
    <2>2. act'.kind = act.kind /\ act'.key \in {act.key, NoKey}
        BY <1>25, <1>a DEF ActEnds
    <2>3. ui'.key \in {ui.key, NoKey}
        BY <1>25, <1>a DEF ActEnds, Window
    <2>4. /\ IdleWorker.at = "idle" /\ IdleWorker.key = NoKey /\ IdleWorker.ans = "NONE"
        BY DEF IdleWorker
    <2> QED
        BY <1>a, <2>1, <2>2, <2>3, <2>4 DEF Keepers, Busy
<1>26. CASE ReloadDetail
    BY <1>26, <1>a DEF ReloadDetail, Keepers, Busy, Worker
<1>27. CASE ExitBegins
    BY <1>27, <1>a DEF ExitBegins, SameDraft, HostRests, Send, Keepers, Busy, Worker,
       Window
<1>28. CASE ExitAnswered
    BY <1>28, <1>a DEF ExitAnswered, WorkerDone, Keepers, Busy, Worker, IdleWorker, Window
<1>29. CASE UNCHANGED cmVars
    BY <1>29, <1>a DEF cmVars, Keepers, Busy, Worker
<1> QED
    BY <1>1, <1>2, <1>3, <1>4, <1>5, <1>6, <1>7, <1>8, <1>9, <1>10, <1>11, <1>12,
       <1>13, <1>14, <1>15, <1>16, <1>17, <1>18, <1>19, <1>20, <1>21, <1>22, <1>23,
       <1>24, <1>25, <1>26, <1>27, <1>28, <1>29 DEF Moved

\* What each key is used for.
LEMMA KeyTypes ==
    ASSUME CmTypeOK
    PROVE  /\ rc \in [CmKeys -> Receipt] /\ hs \in HostState /\ wk \in Worker
           /\ issued \in 0..MaxKeys /\ ui \in Window
           /\ act \in [kind : Kinds, key : 0..MaxKeys]
           /\ \A k \in {act.key, ui.key, wk.key, hs.saga.key} : k # NoKey => k \in CmKeys
           /\ \A k \in CmKeys : rc[k] \in Receipt
<1>1. /\ rc \in [CmKeys -> Receipt] /\ hs \in HostState /\ wk \in Worker
      /\ issued \in 0..MaxKeys /\ ui \in Window
      /\ act \in [kind : Kinds, key : 0..MaxKeys]
    BY Types
<1>2. {act.key, ui.key, wk.key, hs.saga.key} \subseteq 0..MaxKeys
    BY <1>1 DEF Window, Worker, HostState, Saga
<1> QED
    BY <1>1, <1>2, Bounds DEF NoKey, CmKeys

\* A key made for a command has no receipt.
LEMMA NewKey ==
    ASSUME CmTypeOK, ReceiptShape, Keepers, issued < MaxKeys
    PROVE  /\ issued + 1 \in CmKeys /\ rc[issued + 1].st = "NONE" /\ ~rc[issued + 1].mine
           /\ issued + 1 \notin {act.key, ui.key, wk.key, NoKey}
<1>1. issued \in 0..MaxKeys /\ {act.key, ui.key, wk.key} \subseteq 0..issued
    BY Types DEF Keepers
<1>2. issued + 1 \in CmKeys /\ issued + 1 > issued
      /\ issued + 1 \notin {act.key, ui.key, wk.key, NoKey}
    BY <1>1, Bounds DEF CmKeys, NoKey
<1> QED
    BY <1>2, KeyTypes DEF ReceiptShape, Receipt

\* No step uses a key for a second kind of command.
LEMMA UseStep ==
    ASSUME CmTypeOK, ReceiptShape, SagaShape, OpenReceipts, Keepers, OneUse, Moved
    PROVE  OneUse'
<1>a. /\ rc \in [CmKeys -> Receipt] /\ wk \in Worker /\ ui \in Window /\ hs \in HostState
      /\ act \in [kind : Kinds, key : 0..MaxKeys]
      /\ \A k \in {act.key, ui.key, wk.key, hs.saga.key} : k # NoKey => k \in CmKeys
      /\ \A k \in CmKeys : rc[k] \in Receipt
    BY KeyTypes
<1>c. ASSUME Handled
      PROVE  /\ wk.key \in CmKeys /\ wk.at \in {"send", "resend"} /\ wk.kind \in Kinds
             /\ UNCHANGED <<issued, ui, act>>
             /\ wk.kind # "DRAFT" => wk.kind = act.kind /\ wk.key = act.key
             /\ wk.kind = "DRAFT" => wk.key # act.key
             /\ wk.key = ui.key => wk.kind = "DRAFT"
    <2>1. /\ wk.key \in CmKeys /\ wk.at \in {"send", "resend"} /\ wk.kind \in Kinds
          /\ wk.kind # "DRAFT" => wk.kind = act.kind /\ wk.key = act.key
        BY <1>c, AtHand
    <2>2. wk.key # NoKey
        BY <2>1 DEF CmKeys, NoKey
    <2> QED
        BY <1>c, <2>1, <2>2 DEF Handled, Keepers, Busy
<1>d. NoKey \notin CmKeys
    BY Bounds DEF NoKey, CmKeys
<1>1. CASE HandshakeRequired
    BY <1>1, <1>a, <1>d DEF HandshakeRequired, Served, Answer, OneUse, UsedFor, Busy,
       Worker
<1>2. CASE Handshake
    BY <1>2, <1>a, <1>d DEF Handshake, OneUse, UsedFor, Busy, Worker
<1>3. CASE RefusedReadOnly
    <2>1. \A m \in CmKeys : rc'[m] = rc[m] \/ (m = wk.key /\ rc'[m].kind = wk.kind)
        BY <1>3, <1>a, <1>c DEF RefusedReadOnly, RefuseReadOnly, Reject, NoEffect, Answer
    <2>2. wk'.key = wk.key /\ wk'.kind = wk.kind
        BY <1>3, <1>a DEF RefusedReadOnly, RefuseReadOnly, Reject, NoEffect, Answer,
           Worker
    <2> QED
        BY <1>3, <1>a, <1>c, <1>d, <2>1, <2>2 DEF RefusedReadOnly, OneUse, UsedFor, Busy
<1>4. CASE Performed
    <2>1. \A m \in CmKeys : rc'[m] = rc[m] \/ (m = wk.key /\ rc'[m].kind = wk.kind)
        BY <1>4, <1>a, <1>c DEF Performed, FirstTime, Effect, Succeed, Reject, NoEffect,
           Answer
    <2>2. wk'.key = wk.key /\ wk'.kind = wk.kind
        BY <1>4, <1>a DEF Performed, FirstTime, Effect, Succeed, Reject, NoEffect,
           Answer, Worker
    <2> QED
        BY <1>4, <1>a, <1>c, <1>d, <2>1, <2>2 DEF Performed, OneUse, UsedFor, Busy
<1>5. CASE Replayed
    BY <1>5, <1>a, <1>d, <1>c DEF Replayed, ReplayAnswer, Answer, OneUse, UsedFor, Busy,
       Worker
<1>6. CASE Conflicted
    BY <1>6, <1>a, <1>d, <1>c DEF Conflicted, Conflicting, FromReceipt, Answer, OneUse,
       UsedFor, Busy, Worker
<1>7. CASE Hampered
    BY <1>7, <1>a, <1>d, <1>c DEF Hampered, StorageFailure, CmFault, Answer, OneUse,
       UsedFor, Busy, Worker
<1>8. CASE JobCreated
    BY <1>8, <1>a, <1>d, <1>c DEF JobCreated, CreateJob, Effect, Succeed, ReplayCreate,
       FromReceipt, OneUse, UsedFor, Busy, Worker
<1>9. CASE SagaBegun
    BY <1>9, <1>a, <1>d, <1>c DEF SagaBegun, OneUse, UsedFor, Busy, Worker
<1>10. CASE RegisterAfterCreate
    <2>1. wk'.key = wk.key /\ wk'.kind = wk.kind /\ (wk'.at # "idle" => wk.at # "idle")
        BY <1>10, <1>a DEF RegisterAfterCreate, SagaShape, Answer, Worker
    <2> QED
        BY <1>10, <1>a, <2>1 DEF RegisterAfterCreate, OneUse, UsedFor, Busy
<1>11. CASE SagaEffect
    BY <1>11, <1>a, <1>d DEF SagaEffect, OneUse, UsedFor, Busy, Worker
<1>12. CASE SagaAccepted
    <2>1. PICK kind \in SagaKinds : AcceptSaga(kind)
        BY <1>12 DEF SagaAccepted
    <2>2. wk'.key = wk.key /\ wk'.kind = wk.kind /\ (wk'.at # "idle" => wk.at # "idle")
        BY <1>a, <2>1 DEF AcceptSaga, FinishAnswer, SagaShape, Answer, Worker
    <2>3. \A m \in CmKeys : rc'[m].kind = rc[m].kind /\ (rc'[m].st = "NONE" <=> rc[m].st = "NONE")
        BY <1>a, <1>d, <2>1 DEF AcceptSaga, SagaShape, InSaga, Receipt
    <2> QED
        BY <1>a, <2>1, <2>2, <2>3 DEF AcceptSaga, FinishAnswer, OneUse, UsedFor, Busy
<1>13. CASE SagaRejected
    <2>1. PICK kind \in SagaKinds : RejectSaga(kind)
        BY <1>13 DEF SagaRejected
    <2>2. wk'.key = wk.key /\ wk'.kind = wk.kind /\ (wk'.at # "idle" => wk.at # "idle")
        BY <1>a, <2>1 DEF RejectSaga, FinishAnswer, SagaShape, Answer, Worker
    <2>3. \A m \in CmKeys : rc'[m].kind = rc[m].kind /\ (rc'[m].st = "NONE" <=> rc[m].st = "NONE")
        BY <1>a, <1>d, <2>1 DEF RejectSaga, SagaShape, InSaga, Receipt
    <2> QED
        BY <1>a, <2>1, <2>2, <2>3 DEF RejectSaga, FinishAnswer, OneUse, UsedFor, Busy
<1>14. CASE ShutdownAsked
    BY <1>14, <1>a, <1>d DEF ShutdownAsked, Served, Answer, OneUse, UsedFor, Busy, Worker
<1>15. CASE ExpireSession
    BY <1>15, <1>a, <1>d DEF ExpireSession, CmFault, OneUse, UsedFor, Busy, Worker
<1>16. CASE HostCrash
    BY <1>16, <1>a, <1>d DEF HostCrash, CmFault, OneUse, UsedFor, Busy, Worker
<1>17. CASE HostStart
    BY <1>17, <1>a, <1>d DEF HostStart, Reconciled, OneUse, UsedFor, Busy, Worker, Receipt
<1>18. CASE WorldChanges
    BY <1>18, <1>a, <1>d DEF WorldChanges, CmFault, OneUse, UsedFor, Busy, Worker
<1>19. CASE LoseAnswer
    BY <1>19, <1>a, <1>d DEF LoseAnswer, NextClient, Waiting, CmFault, OneUse, UsedFor,
       Busy, Worker, Receipt
<1>20. CASE EditSetup
    BY <1>20, <1>a, <1>d DEF EditSetup, Queued, OneUse, UsedFor, Busy, Worker, Window
<1>21. CASE WindowMoves
    BY <1>21, <1>a, <1>d DEF WindowMoves, SameDraft, OneUse, UsedFor, Busy, Worker
<1>22. CASE SaveBegins
    BY <1>22, <1>a, <1>d, NewKey DEF SaveBegins, SameDraft, HostRests, StartSave, Send,
       KeyFor, Named, CanName, OneUse, UsedFor, Busy, Worker, Window
<1>23. CASE SaveAnswered
    BY <1>23, <1>a, <1>d DEF SaveAnswered, AcceptSave, RetrySave, SavedRevision,
       WorkerDone, OneUse, UsedFor, Busy, Worker, IdleWorker, Window
<1>24. CASE ActBegins
    BY <1>24, <1>a, <1>d, NewKey DEF ActBegins, Submit, Send, KeyFor, Named, CanName,
       OneUse, UsedFor, Busy, Worker
<1>25. CASE ActEnds
    BY <1>25, <1>a, <1>d DEF ActEnds, WorkerDone, OneUse, UsedFor, Busy, Worker,
       IdleWorker, Window
<1>26. CASE ReloadDetail
    BY <1>26, <1>a, <1>d DEF ReloadDetail, OneUse, UsedFor, Busy, Worker
<1>27. CASE ExitBegins
    BY <1>27, <1>a, <1>d DEF ExitBegins, SameDraft, HostRests, Send, OneUse, UsedFor,
       Busy, Worker
<1>28. CASE ExitAnswered
    BY <1>28, <1>a, <1>d DEF ExitAnswered, WorkerDone, OneUse, UsedFor, Busy, Worker,
       IdleWorker
<1>29. CASE UNCHANGED cmVars
    BY <1>29, <1>a, <1>d DEF cmVars, OneUse, UsedFor, Busy, Worker
<1> QED
    BY <1>1, <1>2, <1>3, <1>4, <1>5, <1>6, <1>7, <1>8, <1>9, <1>10, <1>11, <1>12,
       <1>13, <1>14, <1>15, <1>16, <1>17, <1>18, <1>19, <1>20, <1>21, <1>22, <1>23,
       <1>24, <1>25, <1>26, <1>27, <1>28, <1>29 DEF Moved

\* What a key that is kept can be answered with.
LEMMA KeptStep ==
    ASSUME CmTypeOK, ReceiptShape, SagaShape, OpenReceipts, Keepers, OneUse, Kept, Moved
    PROVE  Kept'
<1>a. /\ rc \in [CmKeys -> Receipt] /\ wk \in Worker /\ ui \in Window /\ hs \in HostState
      /\ act \in [kind : Kinds, key : 0..MaxKeys]
      /\ \A k \in {act.key, ui.key, wk.key, hs.saga.key} : k # NoKey => k \in CmKeys
      /\ \A k \in CmKeys : rc[k] \in Receipt
    BY KeyTypes
<1>c. ASSUME Handled
      PROVE  /\ wk.key \in CmKeys /\ wk.at \in {"send", "resend"} /\ wk.kind \in Kinds
             /\ UNCHANGED <<issued, ui, act>>
             /\ Retryable(wk.key) /\ Retryable(act.key) /\ Retryable(ui.key)
    BY <1>c, AtHand DEF Handled, Kept, Answering
<1>d. NoKey \notin CmKeys /\ IdleWorker.key = NoKey
    BY Bounds DEF NoKey, CmKeys, IdleWorker
<1> USE DEF Answering
<1>g. ASSUME Handled, wk'.at = "answered", wk'.key = wk.key,
             \A m \in CmKeys \ {wk.key} : rc'[m] = rc[m],
             rc'[wk.key] = rc[wk.key] \/ wk'.ans = "ACCEPTED" \/ rc'[wk.key].st = "REJECTED"
      PROVE  Kept'
    <2>1. \A k \in {act.key, ui.key} : Retryable(k)' \/ k = wk.key
        BY <1>a, <1>c, <1>d, <1>g DEF Retryable
    <2> QED
        BY <1>a, <1>c, <1>d, <1>g, <2>1 DEF Kept, Retryable
<1>h. ASSUME Handled, UNCHANGED wk, \A m \in CmKeys \ {wk.key} : rc'[m] = rc[m],
             rc'[wk.key] = rc[wk.key] \/ rc'[wk.key].kind \in TargetKinds
      PROVE  Kept'
    <2>1. \A k \in {act.key, ui.key, wk.key} : Retryable(k)'
        BY <1>a, <1>c, <1>d, <1>h DEF Retryable
    <2> QED
        BY <1>c, <1>h, <2>1 DEF Kept
<1>i. ASSUME UNCHANGED <<act, ui>>, wk'.key = wk.key, wk.at # "answered",
             \A m \in CmKeys : rc'[m] = rc[m] \/ rc'[m].kind \in TargetKinds
      PROVE  Kept'
    <2>1. \A k \in {act.key, ui.key, wk.key} : Retryable(k) /\ Retryable(k)'
        BY <1>a, <1>d, <1>i DEF Kept, Retryable
    <2> QED
        BY <1>a, <1>d, <1>i, <2>1 DEF Kept, Retryable
<1>1. CASE HandshakeRequired
    BY <1>1, <1>a, <1>d DEF HandshakeRequired, Served, Answer, Kept, Retryable, Worker
<1>2. CASE Handshake
    BY <1>2, <1>a, <1>d DEF Handshake, Kept, Retryable, Worker
<1>3. CASE RefusedReadOnly
    <2>1. wk'.at = "answered" /\ wk'.key = wk.key
        BY <1>3, <1>a DEF RefusedReadOnly, RefuseReadOnly, Reject, NoEffect, Answer,
           Worker
    <2>2. \/ rc' = rc
          \/ \E r \in {"REJECTED", "SUCCEEDED"} :
                /\ rc' = [rc EXCEPT ![wk.key] = [st |-> r, mine |-> TRUE, kind |-> wk.kind,
                                                 val |-> wk.val]]
                /\ r = "SUCCEEDED" => wk'.ans = "ACCEPTED"
        BY <1>3, <1>a DEF RefusedReadOnly, RefuseReadOnly, Reject, NoEffect, Answer,
           Worker
    <2>3. /\ \A m \in CmKeys \ {wk.key} : rc'[m] = rc[m]
          /\ \/ rc'[wk.key] = rc[wk.key] \/ wk'.ans = "ACCEPTED"
             \/ rc'[wk.key].st = "REJECTED"
        BY <1>3, <1>a, <1>c, <2>2 DEF RefusedReadOnly
    <2> QED
        BY <1>3, <1>g, <2>1, <2>3 DEF RefusedReadOnly
<1>4. CASE Performed
    <2>1. wk'.at = "answered" /\ wk'.key = wk.key
        BY <1>4, <1>a DEF Performed, FirstTime, Effect, Succeed, Reject, NoEffect,
           Answer, Worker
    <2>2. \/ rc' = rc
          \/ \E r \in {"REJECTED", "SUCCEEDED"} :
                /\ rc' = [rc EXCEPT ![wk.key] = [st |-> r, mine |-> TRUE, kind |-> wk.kind,
                                                 val |-> wk.val]]
                /\ r = "SUCCEEDED" => wk'.ans = "ACCEPTED"
        BY <1>4, <1>a DEF Performed, FirstTime, Effect, Succeed, Reject, NoEffect,
           Answer, Worker
    <2>3. /\ \A m \in CmKeys \ {wk.key} : rc'[m] = rc[m]
          /\ \/ rc'[wk.key] = rc[wk.key] \/ wk'.ans = "ACCEPTED"
             \/ rc'[wk.key].st = "REJECTED"
        BY <1>4, <1>a, <1>c, <2>2 DEF Performed
    <2> QED
        BY <1>4, <1>g, <2>1, <2>3 DEF Performed
<1>5. CASE Replayed
    BY <1>5, <1>a, <1>d, <1>c DEF Replayed, ReplayAnswer, Answer, Kept, Retryable, Worker
<1>6. CASE Conflicted
    BY <1>6, <1>a, <1>d, <1>c DEF Conflicted, Conflicting, FromReceipt, Answer, Kept,
       Retryable, Worker
<1>7. CASE Hampered
    BY <1>7, <1>a, <1>d, <1>c DEF Hampered, StorageFailure, CmFault, Answer, Kept,
       Retryable, Worker
<1>8. CASE JobCreated
    <2>1. /\ \A m \in CmKeys \ {wk.key} : rc'[m] = rc[m]
          /\ rc'[wk.key] = rc[wk.key] \/ rc'[wk.key].kind \in TargetKinds
        BY <1>8, <1>a, <1>c DEF JobCreated, CreateJob, Succeed, ReplayCreate,
           FromReceipt, TargetKinds
    <2> QED
        BY <1>8, <1>h, <2>1 DEF JobCreated
<1>9. CASE SagaBegun
    <2>1. /\ \A m \in CmKeys \ {wk.key} : rc'[m] = rc[m]
          /\ rc'[wk.key] = rc[wk.key] \/ rc'[wk.key].kind \in TargetKinds
        BY <1>9, <1>a, <1>c DEF SagaBegun, SagaKinds, TargetKinds
    <2> QED
        BY <1>9, <1>h, <2>1 DEF SagaBegun
<1>10. CASE RegisterAfterCreate
    <2>1. hs.saga # NoSaga
        BY <1>10 DEF RegisterAfterCreate, NoSaga
    <2>2. wk.at # "answered" /\ wk'.key = wk.key
        BY <1>10, <1>a, <2>1 DEF RegisterAfterCreate, SagaShape, Answer, Worker
    <2> QED
        BY <1>10, <1>i, <2>2 DEF RegisterAfterCreate
<1>11. CASE SagaEffect
    BY <1>11, <1>a, <1>d DEF SagaEffect, Kept, Retryable, Worker
<1>12. CASE SagaAccepted
    <2>1. PICK kind \in SagaKinds : AcceptSaga(kind)
        BY <1>12 DEF SagaAccepted
    <2>2. hs.saga # NoSaga /\ hs.saga.key \in CmKeys
        BY <2>1 DEF AcceptSaga, SagaShape, NoSaga
    <2>3. wk.at # "answered" /\ wk'.key = wk.key
        BY <1>a, <2>1, <2>2 DEF AcceptSaga, FinishAnswer, SagaShape, Answer, Worker
    <2>4. \A m \in CmKeys : rc'[m] = rc[m] \/ rc'[m].kind \in TargetKinds
        BY <1>a, <2>1, <2>2 DEF AcceptSaga, SagaKinds, TargetKinds, Receipt
    <2> QED
        BY <1>i, <2>1, <2>3, <2>4 DEF AcceptSaga, FinishAnswer
<1>13. CASE SagaRejected
    <2>1. PICK kind \in SagaKinds : RejectSaga(kind)
        BY <1>13 DEF SagaRejected
    <2>2. hs.saga # NoSaga /\ hs.saga.key \in CmKeys
        BY <2>1 DEF RejectSaga, SagaShape, NoSaga
    <2>3. wk.at # "answered" /\ wk'.key = wk.key
        BY <1>a, <2>1, <2>2 DEF RejectSaga, FinishAnswer, SagaShape, Answer, Worker
    <2>4. \A m \in CmKeys : rc'[m] = rc[m] \/ rc'[m].kind \in TargetKinds
        BY <1>a, <2>1, <2>2 DEF RejectSaga, SagaKinds, TargetKinds, Receipt
    <2> QED
        BY <1>i, <2>1, <2>3, <2>4 DEF RejectSaga, FinishAnswer
<1>14. CASE ShutdownAsked
    BY <1>14, <1>a, <1>d DEF ShutdownAsked, Served, Answer, Kept, Retryable, Worker
<1>15. CASE ExpireSession
    BY <1>15, <1>a, <1>d DEF ExpireSession, CmFault, Kept, Retryable, Worker
<1>16. CASE HostCrash
    BY <1>16, <1>a, <1>d DEF HostCrash, CmFault, Kept, Retryable, Worker
<1>17. CASE HostStart
    BY <1>17, <1>a, <1>d DEF HostStart, Reconciled, Kept, Retryable, Worker, Receipt
<1>18. CASE WorldChanges
    BY <1>18, <1>a, <1>d DEF WorldChanges, CmFault, Kept, Retryable, Worker
<1>19. CASE LoseAnswer
    BY <1>19, <1>a, <1>d DEF LoseAnswer, NextClient, Waiting, CmFault, Kept, Retryable,
       Worker, Receipt
<1>20. CASE EditSetup
    BY <1>20, <1>a, <1>d DEF EditSetup, Queued, Kept, Retryable, Worker, Window
<1>21. CASE WindowMoves
    BY <1>21, <1>a, <1>d DEF WindowMoves, SameDraft, Kept, Retryable, Worker
<1>22. CASE SaveBegins
    BY <1>22, <1>a, <1>d, NewKey DEF SaveBegins, SameDraft, HostRests, StartSave, Send,
       KeyFor, Named, CanName, Kept, Retryable, Worker, Window
<1>23. CASE SaveAnswered
    <2>1. /\ wk.kind = "DRAFT" /\ wk.at # "idle" /\ wk.key # NoKey /\ wk.key # act.key
          /\ ui.key # NoKey => ui.key = wk.key /\ wk.val = ui.rev
        BY <1>23 DEF SaveAnswered, Keepers, Busy
    <2>2. Retryable(act.key)
        BY <2>1 DEF Kept
    <2>3. ui'.key # NoKey => ui'.key = ui.key /\ ui.key = wk.key /\ wk.ans # "ACCEPTED"
        BY <1>23, <1>a, <2>1 DEF SaveAnswered, AcceptSave, RetrySave, SavedRevision, Window
    <2>4. ui'.key # NoKey => Retryable(ui.key)
        <3>1. ASSUME ui'.key # NoKey, rc[ui.key].mine PROVE rc[ui.key].st = "REJECTED"
            <4>1. ui.key = wk.key /\ ui.key \in CmKeys /\ wk.ans # "ACCEPTED"
                BY <1>a, <2>3, <3>1
            <4>2. rc[ui.key].st # "NONE" /\ rc[ui.key].kind = "DRAFT"
                BY <2>1, <3>1, <4>1 DEF ReceiptShape, OneUse, UsedFor, Busy
            <4>3. rc[ui.key].st # "RECEIVED"
                BY <4>1, <4>2 DEF ReceiptShape, SagaKinds
            <4>4. rc[ui.key].st # "SUCCEEDED"
                BY <2>1, <3>1, <4>1, <4>2 DEF Kept, Retryable, TargetKinds
            <4> QED
                BY <1>a, <4>1, <4>2, <4>3, <4>4 DEF Receipt
        <3>2. rc[ui.key].st # "NONE" /\ ui.key # NoKey => rc[ui.key].kind = "DRAFT"
            BY DEF OneUse, UsedFor
        <3> QED
            BY <3>1, <3>2 DEF Retryable
    <2>5. UNCHANGED <<rc, act>> /\ wk' = IdleWorker
        BY <1>23 DEF SaveAnswered, WorkerDone
    <2>6. IdleWorker.at # "answered"
        BY DEF IdleWorker
    <2> QED
        BY <1>d, <2>2, <2>3, <2>4, <2>5, <2>6 DEF Kept, Retryable
<1>24. CASE ActBegins
    BY <1>24, <1>a, <1>d, NewKey DEF ActBegins, Submit, Send, KeyFor, Named, CanName,
       Kept, Retryable, Worker
<1>25. CASE ActEnds
    <2>1. wk.at # "idle" /\ wk.key # NoKey /\ wk.key = act.key /\ wk.key # ui.key
        BY <1>25 DEF ActEnds, Keepers, Busy
    <2>2. Retryable(ui.key)
        BY <2>1 DEF Kept
    <2>3. UNCHANGED rc /\ wk' = IdleWorker /\ ui'.key \in {ui.key, NoKey}
        BY <1>25, <1>a DEF ActEnds, WorkerDone, Window
    <2>4. ASSUME act'.key # NoKey PROVE act'.key = act.key /\ Retryable(act.key)
        <3>1. /\ act' = act
              /\ \/ wk.at = "failed"
                 \/ wk.kind \in {"SCAN", "REVIEW"} /\ wk.ans # "ACCEPTED"
                 \/ wk.kind \in TargetKinds
            BY <1>25, <1>a, <2>4 DEF ActEnds
        <3>2. ASSUME rc[act.key].mine
              PROVE  /\ rc[act.key].kind = wk.kind
                     /\ wk.kind \notin SagaKinds => rc[act.key].st \in {"REJECTED", "SUCCEEDED"}
            <4>1. act.key \in CmKeys /\ rc[act.key].st # "NONE"
                BY <1>a, <2>1, <3>2 DEF ReceiptShape
            <4>2. rc[act.key].kind = wk.kind
                BY <2>1, <4>1 DEF OneUse, UsedFor, Busy
            <4> QED
                BY <1>a, <4>1, <4>2 DEF ReceiptShape, Receipt
        <3>3. CASE wk.at = "failed"
            BY <2>1, <3>1, <3>3 DEF Kept
        <3>4. CASE wk.kind \in {"SCAN", "REVIEW"} /\ wk.ans # "ACCEPTED"
            BY <2>1, <3>1, <3>2, <3>4 DEF Kept, Retryable, TargetKinds, SagaKinds
        <3>5. CASE wk.kind \in TargetKinds
            BY <3>1, <3>2, <3>5 DEF Retryable
        <3> QED
            BY <3>1, <3>3, <3>4, <3>5
    <2>5. IdleWorker.at # "answered"
        BY DEF IdleWorker
    <2> QED
        BY <1>d, <2>2, <2>3, <2>4, <2>5 DEF Kept, Retryable
<1>26. CASE ReloadDetail
    BY <1>26, <1>a, <1>d DEF ReloadDetail, Kept, Retryable, Worker
<1>27. CASE ExitBegins
    BY <1>27, <1>a, <1>d DEF ExitBegins, SameDraft, HostRests, Send, Kept, Retryable,
       Worker
<1>28. CASE ExitAnswered
    <2>1. wk.key = NoKey /\ ui'.key = ui.key /\ UNCHANGED <<rc, act>> /\ wk' = IdleWorker
        BY <1>28, <1>a DEF ExitAnswered, Keepers, Busy, Window, WorkerDone
    <2>2. IdleWorker.at # "answered"
        BY DEF IdleWorker
    <2> QED
        BY <1>d, <2>1, <2>2 DEF Kept, Retryable
<1>29. CASE UNCHANGED cmVars
    BY <1>29, <1>a, <1>d DEF cmVars, Kept, Retryable, Worker
<1> QED
    BY <1>1, <1>2, <1>3, <1>4, <1>5, <1>6, <1>7, <1>8, <1>9, <1>10, <1>11, <1>12,
       <1>13, <1>14, <1>15, <1>16, <1>17, <1>18, <1>19, <1>20, <1>21, <1>22, <1>23,
       <1>24, <1>25, <1>26, <1>27, <1>28, <1>29 DEF Moved

\* Answers are true.
LEMMA AnswersStep ==
    ASSUME CmTypeOK, ReceiptShape, ReceiptTellsEffect, SagaShape, OpenReceipts, Keepers,
           OneUse, Kept, AnswersAreTrue, Moved
    PROVE  AnswersAreTrue'
<1>a. /\ rc \in [CmKeys -> Receipt] /\ wk \in Worker /\ ui \in Window /\ hs \in HostState
      /\ act \in [kind : Kinds, key : 0..MaxKeys]
      /\ \A k \in {act.key, ui.key, wk.key, hs.saga.key} : k # NoKey => k \in CmKeys
      /\ \A k \in CmKeys : rc[k] \in Receipt
    BY KeyTypes
<1>c. ASSUME Handled
      PROVE  /\ wk.key \in CmKeys /\ wk.at \in {"send", "resend"} /\ wk.kind \in Kinds
             /\ UNCHANGED <<issued, ui, act>>
             /\ Retryable(wk.key) /\ Retryable(act.key) /\ Retryable(ui.key)
    BY <1>c, AtHand DEF Handled, Kept, Answering
<1>d. NoKey \notin CmKeys /\ IdleWorker.key = NoKey
    BY Bounds DEF NoKey, CmKeys, IdleWorker
<1>e. ASSUME Handled
      PROVE  /\ rc[wk.key].st \in {"NONE", "REJECTED", "SUCCEEDED"}
             /\ rc[wk.key].st = "NONE" => done[wk.key] = 0
             /\ rc[wk.key].st = "REJECTED" => done[wk.key] = 0 \/ CutOff(wk.key)
             /\ rc[wk.key].st = "SUCCEEDED" => done[wk.key] = 1
             /\ rc[wk.key].st = "SUCCEEDED" /\ rc[wk.key].mine => AskedAgain(wk.key)
             /\ rc[wk.key].mine => rc[wk.key].kind # "LIFECYCLE" \/ rc[wk.key].st # "REJECTED"
    <2>1. rc[wk.key].st \in {"NONE", "REJECTED", "SUCCEEDED"}
        BY <1>a, <1>c, <1>e, AtHand DEF Receipt
    <2> QED
        BY <1>c, <1>d, <1>e, <2>1 DEF ReceiptTellsEffect, CutOff, Retryable, AskedAgain,
           TargetKinds
<1>f. done \in [CmKeys -> {0, 1}] /\ done \in [CmKeys -> 0..2]
    BY Types DEF ReceiptShape
<1>1. CASE HandshakeRequired
    BY <1>1, <1>a, <1>d, <1>f DEF HandshakeRequired, Served, Answer, AnswersAreTrue,
       CutOff, AskedAgain, Worker
<1>2. CASE Handshake
    BY <1>2, <1>a, <1>d, <1>f DEF Handshake, AnswersAreTrue, CutOff, AskedAgain, Worker
<1>3. CASE RefusedReadOnly
    <2>1. wk'.key = wk.key /\ wk'.ans \in {"DISABLED", "CONFLICT"} /\ done' = done
        BY <1>3, <1>a DEF RefusedReadOnly, RefuseReadOnly, Reject, NoEffect, Answer, Worker
    <2>2. CASE rc[wk.key].st = "NONE"
        BY <1>3, <1>c, <1>e, <2>1, <2>2 DEF RefusedReadOnly, AnswersAreTrue
    <2>3. CASE rc[wk.key].st # "NONE"
        <3>1. rc' = rc /\ (wk'.ans = "DISABLED" => rc[wk.key].mine)
            BY <1>3, <1>a, <2>3 DEF RefusedReadOnly, RefuseReadOnly, Compatible, Answer, Worker
        <3> QED
            BY <1>3, <1>c, <1>e, <2>1, <2>3, <3>1 DEF RefusedReadOnly, AnswersAreTrue, CutOff,
               AskedAgain
    <2> QED
        BY <2>2, <2>3
<1>4. CASE Performed
    <2>1. /\ wk'.key = wk.key /\ wk'.ans \in {"ACCEPTED", "REJECTED"}
          /\ wk'.ans = "ACCEPTED" => done'[wk.key] = done[wk.key] + 1
          /\ wk'.ans = "REJECTED" => done' = done
          /\ rc[wk.key].st = "NONE"
        BY <1>4, <1>a, <1>c, <1>f DEF Performed, FirstTime, Effect, Succeed, Reject, NoEffect,
           Answer, Worker
    <2>2. done[wk.key] = 0
        BY <1>4, <1>e, <2>1 DEF Performed
    <2> QED
        BY <2>1, <2>2 DEF AnswersAreTrue
<1>5. CASE Replayed
    <2>1. /\ wk'.key = wk.key /\ rc' = rc /\ done' = done
          /\ wk'.ans = IF rc[wk.key].st = "REJECTED" THEN "REJECTED" ELSE "ACCEPTED"
        BY <1>5, <1>a, <1>e DEF Replayed, Compatible, ReplayAnswer, Answer, Worker
    <2> QED
        BY <1>5, <1>e, <2>1 DEF Replayed, AnswersAreTrue, CutOff
<1>6. CASE Conflicted
    BY <1>6, <1>a, <1>d, <1>f, <1>c, <1>e DEF Conflicted, Conflicting, FromReceipt,
       Answer, AnswersAreTrue, CutOff, AskedAgain, Worker
<1>7. CASE Hampered
    BY <1>7, <1>a, <1>d, <1>f, <1>c, <1>e DEF Hampered, StorageFailure, CmFault, Answer,
       AnswersAreTrue, CutOff, AskedAgain, Worker
<1>8. CASE JobCreated
    BY <1>8, <1>a, <1>d, <1>f, <1>c, <1>e DEF JobCreated, CreateJob, Effect, Succeed,
       ReplayCreate, FromReceipt, AnswersAreTrue, CutOff, AskedAgain, Worker
<1>9. CASE SagaBegun
    BY <1>9, <1>a, <1>d, <1>f, <1>c, <1>e DEF SagaBegun, AnswersAreTrue, CutOff,
       AskedAgain, Worker
<1>10. CASE RegisterAfterCreate
    <2>1. hs.saga # NoSaga
        BY <1>10 DEF RegisterAfterCreate, NoSaga
    <2>2. wk.at # "answered" /\ wk'.key = wk.key
        BY <1>10, <1>a, <2>1 DEF RegisterAfterCreate, SagaShape, Answer, Worker
    <2>3. CASE hs.saga.here
        <3>1. rc[wk.key].st = "SUCCEEDED" /\ wk.key \in CmKeys
            BY <1>10, <2>3 DEF RegisterAfterCreate, SagaShape
        <3>2. done[wk.key] = 1
            BY <3>1 DEF ReceiptTellsEffect
        <3>3. wk'.ans \in {"INCOMPLETE", "ACCEPTED"}
            BY <1>10, <1>a, <2>3 DEF RegisterAfterCreate, Answer, Worker
        <3> QED
            BY <1>10, <2>2, <3>2, <3>3 DEF RegisterAfterCreate, AnswersAreTrue
    <2>4. CASE ~hs.saga.here
        BY <1>10, <2>2, <2>4 DEF RegisterAfterCreate, AnswersAreTrue
    <2> QED
        BY <2>3, <2>4
<1>11. CASE SagaEffect
    <2>1. hs.saga # NoSaga /\ wk' = wk
        BY <1>11 DEF SagaEffect, NoSaga
    <2> QED
        BY <2>1 DEF SagaShape, AnswersAreTrue
<1>12. CASE SagaAccepted
    <2>1. PICK kind \in SagaKinds : AcceptSaga(kind)
        BY <1>12 DEF SagaAccepted
    <2>2. hs.saga # NoSaga /\ hs.saga.key \in CmKeys /\ done' = done
        BY <2>1 DEF AcceptSaga, FinishAnswer, SagaShape, NoSaga
    <2>3. CASE UNCHANGED wk
        BY <2>2, <2>3 DEF SagaShape, AnswersAreTrue
    <2>4. CASE hs.saga.here /\ Answer(hs.saga.out)
        <3>1. wk'.key = hs.saga.key /\ wk'.ans = hs.saga.out
            BY <1>a, <2>4 DEF SagaShape, Answer, Worker
        <3>2. done[hs.saga.key] = 1 /\ hs.saga.out \in {"ACCEPTED", "INCOMPLETE"}
            BY <1>a, <2>1 DEF AcceptSaga, SagaShape, HostState, Saga
        <3> QED
            BY <2>2, <3>1, <3>2 DEF AnswersAreTrue
    <2> QED
        BY <2>1, <2>3, <2>4 DEF AcceptSaga, FinishAnswer
<1>13. CASE SagaRejected
    <2>1. PICK kind \in SagaKinds : RejectSaga(kind)
        BY <1>13 DEF SagaRejected
    <2>2. hs.saga # NoSaga /\ hs.saga.key \in CmKeys /\ done' = done
        BY <2>1 DEF RejectSaga, FinishAnswer, SagaShape, NoSaga
    <2>3. CASE UNCHANGED wk
        BY <2>2, <2>3 DEF SagaShape, AnswersAreTrue
    <2>4. CASE hs.saga.here /\ Answer(hs.saga.out)
        <3>1. wk'.key = hs.saga.key /\ wk'.ans = hs.saga.out
            BY <1>a, <2>4 DEF SagaShape, Answer, Worker
        <3>2. hs.saga.out = "REJECTED"
            BY <2>1 DEF RejectSaga
        <3>3. /\ rc'[hs.saga.key].kind \in SagaKinds
              /\ rc'[hs.saga.key].st \in {"REJECTED", "SUCCEEDED"}
            <4>1. rc[hs.saga.key].st \in {"RECEIVED", "SUCCEEDED"} /\ rc[hs.saga.key].kind = kind
                BY <2>1 DEF RejectSaga, SagaShape, InSaga
            <4> QED
                BY <1>a, <2>1, <2>2, <4>1 DEF RejectSaga, Receipt
        <3> QED
            BY <2>2, <3>1, <3>2, <3>3 DEF AnswersAreTrue, CutOff, AskedAgain, SagaKinds,
               TargetKinds
    <2> QED
        BY <2>1, <2>3, <2>4 DEF RejectSaga, FinishAnswer
<1>14. CASE ShutdownAsked
    <2>1. wk'.key = NoKey
        BY <1>14, <1>a DEF ShutdownAsked, Served, Keepers, Busy, Answer, Worker
    <2> QED
        BY <2>1 DEF AnswersAreTrue
<1>15. CASE ExpireSession
    BY <1>15, <1>a, <1>d, <1>f DEF ExpireSession, CmFault, AnswersAreTrue, CutOff,
       AskedAgain, Worker
<1>16. CASE HostCrash
    BY <1>16, <1>a, <1>d, <1>f DEF HostCrash, CmFault, AnswersAreTrue, CutOff, AskedAgain,
       Worker
<1>17. CASE HostStart
    BY <1>17, <1>a, <1>d, <1>f DEF HostStart, Reconciled, AnswersAreTrue, CutOff,
       AskedAgain, Worker, Receipt
<1>18. CASE WorldChanges
    BY <1>18, <1>a, <1>d, <1>f DEF WorldChanges, CmFault, AnswersAreTrue, CutOff,
       AskedAgain, Worker
<1>19. CASE LoseAnswer
    BY <1>19, <1>a, <1>d, <1>f DEF LoseAnswer, NextClient, Waiting, CmFault,
       AnswersAreTrue, CutOff, AskedAgain, Worker, Receipt
<1>20. CASE EditSetup
    BY <1>20, <1>a, <1>d, <1>f DEF EditSetup, Queued, AnswersAreTrue, CutOff, AskedAgain,
       Worker
<1>21. CASE WindowMoves
    BY <1>21, <1>a, <1>d, <1>f DEF WindowMoves, SameDraft, AnswersAreTrue, CutOff,
       AskedAgain, Worker
<1>22. CASE SaveBegins
    BY <1>22, <1>a, <1>d, <1>f DEF SaveBegins, SameDraft, HostRests, StartSave, Send,
       KeyFor, Named, CanName, AnswersAreTrue, CutOff, AskedAgain, Worker
<1>23. CASE SaveAnswered
    BY <1>23, <1>a, <1>d, <1>f DEF SaveAnswered, AcceptSave, RetrySave, SavedRevision,
       WorkerDone, AnswersAreTrue, CutOff, AskedAgain, Worker
<1>24. CASE ActBegins
    BY <1>24, <1>a, <1>d, <1>f DEF ActBegins, Submit, Send, KeyFor, Named, CanName,
       AnswersAreTrue, CutOff, AskedAgain, Worker
<1>25. CASE ActEnds
    BY <1>25, <1>a, <1>d, <1>f DEF ActEnds, WorkerDone, AnswersAreTrue, CutOff,
       AskedAgain, Worker
<1>26. CASE ReloadDetail
    BY <1>26, <1>a, <1>d, <1>f DEF ReloadDetail, AnswersAreTrue, CutOff, AskedAgain,
       Worker
<1>27. CASE ExitBegins
    BY <1>27, <1>a, <1>d, <1>f DEF ExitBegins, SameDraft, HostRests, Send, AnswersAreTrue,
       CutOff, AskedAgain, Worker
<1>28. CASE ExitAnswered
    BY <1>28, <1>a, <1>d, <1>f DEF ExitAnswered, WorkerDone, AnswersAreTrue, CutOff,
       AskedAgain, Worker
<1>29. CASE UNCHANGED cmVars
    BY <1>29, <1>a, <1>d, <1>f DEF cmVars, AnswersAreTrue, CutOff, AskedAgain, Worker
<1> QED
    BY <1>1, <1>2, <1>3, <1>4, <1>5, <1>6, <1>7, <1>8, <1>9, <1>10, <1>11, <1>12,
       <1>13, <1>14, <1>15, <1>16, <1>17, <1>18, <1>19, <1>20, <1>21, <1>22, <1>23,
       <1>24, <1>25, <1>26, <1>27, <1>28, <1>29 DEF Moved

\* What the window and the host know of the setup draft.
LEMMA DraftStep ==
    ASSUME CmTypeOK, ReceiptShape, ReceiptTellsEffect, SagaShape, OpenReceipts, Keepers,
           OneUse, Kept, AnswersAreTrue, DraftShape, SavedIsHeld, Moved
    PROVE  DraftShape' /\ SavedIsHeld'
<1>a. /\ rc \in [CmKeys -> Receipt] /\ wk \in Worker /\ ui \in Window /\ hs \in HostState
      /\ act \in [kind : Kinds, key : 0..MaxKeys]
      /\ \A k \in {act.key, ui.key, wk.key, hs.saga.key} : k # NoKey => k \in CmKeys
      /\ \A k \in CmKeys : rc[k] \in Receipt
    BY KeyTypes
<1>b. ui.rev \in Nat /\ ui.saved \in Nat /\ wk.val \in Nat /\ draft \in Nat
    BY <1>a, Types, Bounds DEF Window, Worker
<1>c. ASSUME Handled
      PROVE  /\ wk.key \in CmKeys /\ wk.at \in {"send", "resend"} /\ wk.kind \in Kinds
             /\ UNCHANGED <<issued, ui, act>>
             /\ wk.kind # "DRAFT" => wk.kind = act.kind /\ wk.key = act.key
             /\ wk.kind = "DRAFT" => wk.key # act.key
    <2>1. /\ wk.key \in CmKeys /\ wk.at \in {"send", "resend"} /\ wk.kind \in Kinds
          /\ wk.kind # "DRAFT" => wk.kind = act.kind /\ wk.key = act.key
        BY <1>c, AtHand
    <2>2. wk.key # NoKey
        BY <2>1, Bounds DEF CmKeys, NoKey
    <2> QED
        BY <1>c, <2>1, <2>2 DEF Handled, Keepers, Busy
<1>d. NoKey \notin CmKeys /\ IdleWorker.at = "idle"
    BY Bounds DEF NoKey, CmKeys, IdleWorker
<1> USE Bounds
<1>g. ASSUME UNCHANGED <<act, ui>>, wk'.kind = wk.kind, wk'.val = wk.val, Busy,
             draft' \in Nat, ui.saved <= draft',
             wk.kind = "DRAFT" /\ wk'.ans = "ACCEPTED" => wk.val <= draft',
             act.kind = "CREATE" /\ act.key # NoKey /\ rc'[act.key].st = "SUCCEEDED"
               => ui.rev < draft'
      PROVE  DraftShape' /\ SavedIsHeld'
    BY <1>a, <1>b, <1>g DEF DraftShape, SavedIsHeld, Busy
<1>1. CASE HandshakeRequired
    BY <1>1, <1>a, <1>b, <1>d DEF HandshakeRequired, Served, Answer, DraftShape,
       SavedIsHeld, Busy, Worker
<1>2. CASE Handshake
    BY <1>2, <1>a, <1>b, <1>d DEF Handshake, DraftShape, SavedIsHeld, Busy, Worker
<1>3. CASE RefusedReadOnly
    <2>1. /\ wk'.kind = wk.kind /\ wk'.val = wk.val /\ draft' = draft
          /\ wk'.ans # "ACCEPTED"
        BY <1>3, <1>a DEF RefusedReadOnly, RefuseReadOnly, Reject, NoEffect, Answer, Worker
    <2>2. \A k \in CmKeys : rc'[k].st = "SUCCEEDED" => rc[k].st = "SUCCEEDED"
        BY <1>3, <1>a DEF RefusedReadOnly, RefuseReadOnly, Reject
    <2> QED
        BY <1>3, <1>a, <1>b, <1>c, <1>g, <2>1, <2>2 DEF RefusedReadOnly, DraftShape,
           SavedIsHeld, Busy
<1>4. CASE Performed
    <2>1. wk'.kind = wk.kind /\ wk'.val = wk.val /\ Handled
        BY <1>4, <1>a DEF Performed, FirstTime, Answer, Worker
    <2>2. CASE wk.kind = "DRAFT"
        <3>1. draft' = wk.val /\ act.kind # "CREATE" /\ ui.saved <= wk.val
            BY <1>4, <1>c, <2>1, <2>2 DEF Performed, FirstTime, Applicable, Effect, DraftShape,
               Busy
        <3> QED
            BY <1>b, <1>c, <1>g, <2>1, <3>1 DEF Busy
    <2>3. CASE wk.kind # "DRAFT"
        <3>1. draft' = draft
            BY <1>4, <2>3 DEF Performed, FirstTime, Effect, Reject, NoEffect
        <3>2. act.kind = "CREATE" => rc'[act.key].st # "SUCCEEDED"
            BY <1>4, <1>a, <1>c, <2>1, <2>3 DEF Performed, FirstTime, Reject
        <3> QED
            BY <1>b, <1>c, <1>g, <2>1, <2>3, <3>1, <3>2 DEF Busy, SavedIsHeld
    <2> QED
        BY <2>2, <2>3
<1>5. CASE Replayed
    <2>1. /\ wk'.kind = wk.kind /\ wk'.val = wk.val /\ rc' = rc /\ Handled
          /\ rc[wk.key].mine /\ rc[wk.key].kind = wk.kind
        BY <1>5, <1>a DEF Replayed, ReplayAnswer, Compatible, Answer, Worker
    <2>2. draft' = draft
        BY <1>5 DEF Replayed, Effect
    <2>3. Retryable(wk.key)
        BY <1>c, <2>1 DEF Kept, Answering
    <2>4. wk.kind = "DRAFT" => wk'.ans = "REJECTED"
        BY <1>5, <1>a, <1>c, <1>d, <2>1, <2>3 DEF Replayed, ReplayAnswer, Answer, Worker, Retryable,
           TargetKinds
    <2> QED
        BY <1>b, <1>c, <1>g, <2>1, <2>2, <2>4 DEF Busy, SavedIsHeld, DraftShape
<1>6. CASE Conflicted
    BY <1>6, <1>a, <1>b, <1>d, <1>c DEF Conflicted, Conflicting, FromReceipt, Answer,
       DraftShape, SavedIsHeld, Busy, Worker
<1>7. CASE Hampered
    BY <1>7, <1>a, <1>b, <1>d, <1>c DEF Hampered, StorageFailure, CmFault, Answer,
       DraftShape, SavedIsHeld, Busy, Worker
<1>8. CASE JobCreated
    BY <1>8, <1>a, <1>b, <1>d, <1>c DEF JobCreated, CreateJob, Effect, Succeed,
       ReplayCreate, FromReceipt, DraftShape, SavedIsHeld, Busy, Worker
<1>9. CASE SagaBegun
    BY <1>9, <1>a, <1>b, <1>d, <1>c DEF SagaBegun, DraftShape, SavedIsHeld, Busy, Worker
<1>10. CASE RegisterAfterCreate
    <2>1. CASE ~hs.saga.here
        BY <1>10, <2>1 DEF RegisterAfterCreate, DraftShape, SavedIsHeld, Busy
    <2>2. CASE hs.saga.here
        <3>1. /\ wk.at \in {"send", "resend"} /\ hs.saga.key = wk.key /\ wk.key \in CmKeys
              /\ rc[wk.key].kind = "CREATE" /\ rc[wk.key].st = "SUCCEEDED"
            BY <1>10, <2>2 DEF RegisterAfterCreate, SagaShape
        <3>2. wk.kind = "CREATE"
            BY <1>d, <3>1 DEF OneUse, UsedFor, Busy
        <3>3. wk'.kind = wk.kind /\ wk'.val = wk.val
            BY <1>10, <1>a, <2>2 DEF RegisterAfterCreate, Answer, Worker
        <3> QED
            BY <1>10, <1>b, <1>g, <3>1, <3>2, <3>3 DEF RegisterAfterCreate, Busy, SavedIsHeld,
               DraftShape
    <2> QED
        BY <2>1, <2>2
<1>11. CASE SagaEffect
    BY <1>11, <1>a, <1>b, <1>d DEF SagaEffect, DraftShape, SavedIsHeld, Busy, Worker
<1>12. CASE SagaAccepted
    <2>1. PICK kind \in SagaKinds : AcceptSaga(kind)
        BY <1>12 DEF SagaAccepted
    <2>2. /\ hs.saga.key \in CmKeys /\ rc[hs.saga.key].st # "NONE"
          /\ rc[hs.saga.key].kind \in SagaKinds
        BY <2>1 DEF AcceptSaga, SagaShape, InSaga
    <2>3. act.kind = "CREATE" /\ act.key # NoKey => rc'[act.key] = rc[act.key]
        <3>1. act.kind = "CREATE" /\ act.key # NoKey => act.key # hs.saga.key
            BY <1>d, <2>2 DEF OneUse, UsedFor, SagaKinds
        <3> QED
            BY <1>a, <2>1, <3>1 DEF AcceptSaga
    <2>4. CASE UNCHANGED wk
        BY <2>1, <2>3, <2>4 DEF AcceptSaga, FinishAnswer, DraftShape, SavedIsHeld, Busy
    <2>5. CASE hs.saga.here /\ Answer(hs.saga.out)
        <3>1. wk.at \in {"send", "resend"} /\ wk.key = hs.saga.key
            BY <2>5 DEF SagaShape
        <3>2. wk.kind # "DRAFT"
            BY <1>d, <2>2, <3>1 DEF OneUse, UsedFor, Busy, SagaKinds
        <3>3. wk'.kind = wk.kind /\ wk'.val = wk.val
            BY <1>a, <2>5 DEF Answer, Worker
        <3> QED
            BY <1>b, <1>g, <2>1, <2>3, <3>1, <3>2, <3>3 DEF AcceptSaga, FinishAnswer, Busy,
               SavedIsHeld, DraftShape
    <2> QED
        BY <2>1, <2>4, <2>5 DEF AcceptSaga, FinishAnswer
<1>13. CASE SagaRejected
    <2>1. PICK kind \in SagaKinds : RejectSaga(kind)
        BY <1>13 DEF SagaRejected
    <2>2. /\ hs.saga.key \in CmKeys /\ rc[hs.saga.key].st # "NONE"
          /\ rc[hs.saga.key].kind \in SagaKinds
        BY <2>1 DEF RejectSaga, SagaShape, InSaga
    <2>3. act.kind = "CREATE" /\ act.key # NoKey => rc'[act.key] = rc[act.key]
        <3>1. act.kind = "CREATE" /\ act.key # NoKey => act.key # hs.saga.key
            BY <1>d, <2>2 DEF OneUse, UsedFor, SagaKinds
        <3> QED
            BY <1>a, <2>1, <3>1 DEF RejectSaga
    <2>4. CASE UNCHANGED wk
        BY <2>1, <2>3, <2>4 DEF RejectSaga, FinishAnswer, DraftShape, SavedIsHeld, Busy
    <2>5. CASE hs.saga.here /\ Answer(hs.saga.out)
        <3>1. wk.at \in {"send", "resend"} /\ wk.key = hs.saga.key
            BY <2>5 DEF SagaShape
        <3>2. wk.kind # "DRAFT"
            BY <1>d, <2>2, <3>1 DEF OneUse, UsedFor, Busy, SagaKinds
        <3>3. wk'.kind = wk.kind /\ wk'.val = wk.val
            BY <1>a, <2>5 DEF Answer, Worker
        <3> QED
            BY <1>b, <1>g, <2>1, <2>3, <3>1, <3>2, <3>3 DEF RejectSaga, FinishAnswer, Busy,
               SavedIsHeld, DraftShape
    <2> QED
        BY <2>1, <2>4, <2>5 DEF RejectSaga, FinishAnswer
<1>14. CASE ShutdownAsked
    BY <1>14, <1>a, <1>b, <1>d DEF ShutdownAsked, Served, Answer, DraftShape, SavedIsHeld,
       Busy, Worker
<1>15. CASE ExpireSession
    BY <1>15, <1>a, <1>b, <1>d DEF ExpireSession, CmFault, DraftShape, SavedIsHeld, Busy,
       Worker
<1>16. CASE HostCrash
    BY <1>16, <1>a, <1>b, <1>d DEF HostCrash, CmFault, DraftShape, SavedIsHeld, Busy,
       Worker
<1>17. CASE HostStart
    BY <1>17, <1>a, <1>b, <1>d DEF HostStart, Reconciled, DraftShape, SavedIsHeld, Busy,
       Worker, Receipt
<1>18. CASE WorldChanges
    BY <1>18, <1>a, <1>b, <1>d DEF WorldChanges, CmFault, DraftShape, SavedIsHeld, Busy,
       Worker
<1>19. CASE LoseAnswer
    BY <1>19, <1>a, <1>b, <1>d DEF LoseAnswer, NextClient, Waiting, CmFault, DraftShape,
       SavedIsHeld, Busy, Worker, Receipt
<1>20. CASE EditSetup
    <2>1. ui.rev < MaxEdits /\ ui' = Queued /\ UNCHANGED <<rc, wk, act, draft>>
        BY <1>20 DEF EditSetup
    <2>2. act.kind = "DRAFT"
        BY <1>b, <2>1 DEF DraftShape
    <2>3. ui'.rev = ui.rev + 1 /\ ui'.saved = ui.saved
        BY <1>a, <2>1 DEF Queued, Window
    <2>4. Busy => wk.kind # "CREATE"
        BY <2>2 DEF Keepers
    <2> QED
        BY <1>b, <2>1, <2>2, <2>3, <2>4 DEF DraftShape, SavedIsHeld, Busy
<1>21. CASE WindowMoves
    BY <1>21, <1>a, <1>b, <1>d DEF WindowMoves, SameDraft, DraftShape, SavedIsHeld, Busy,
       Worker, Window
<1>22. CASE SaveBegins
    BY <1>22, <1>a, <1>b, <1>d, NewKey DEF SaveBegins, SameDraft, HostRests, StartSave,
       Send, KeyFor, Named, CanName, DraftShape, SavedIsHeld, Busy, Worker, Window
<1>23. CASE SaveAnswered
    BY <1>23, <1>a, <1>b, <1>d DEF SaveAnswered, AcceptSave, RetrySave, SavedRevision,
       WorkerDone, DraftShape, SavedIsHeld, Busy, Worker, Window
<1>24. CASE ActBegins
    BY <1>24, <1>a, <1>b, <1>d, NewKey DEF ActBegins, Submit, Send, KeyFor, Named,
       CanName, DraftShape, SavedIsHeld, Busy, Worker
<1>25. CASE ActEnds
    <2>1. /\ wk' = IdleWorker /\ UNCHANGED <<rc, draft>> /\ act'.kind = act.kind
          /\ act'.key \in {act.key, NoKey}
        BY <1>25, <1>a DEF ActEnds, WorkerDone
    <2>2. wk.kind = act.kind /\ wk.key = act.key /\ wk.key \in CmKeys
        BY <1>25, <1>a DEF ActEnds, Keepers, Busy
    <2>3. CASE UNCHANGED ui
        BY <1>a, <1>d, <2>1, <2>3 DEF DraftShape, SavedIsHeld, Busy
    <2>4. CASE ~UNCHANGED ui
        <3>1. /\ wk.kind = "CREATE" /\ wk.ans = "ACCEPTED" /\ wk.at = "answered"
              /\ act' = [act EXCEPT !.key = NoKey]
              /\ ui' = [ui EXCEPT !.rev = ui.rev + 1, !.saved = ui.rev + 1, !.key = NoKey,
                                  !.tries = 0, !.timer = FALSE]
            BY <1>25, <2>4 DEF ActEnds, Keepers
        <3>2. done[wk.key] = 1
            BY <1>d, <2>2, <3>1 DEF AnswersAreTrue
        <3>3. rc[wk.key].kind = "CREATE" \/ rc[wk.key].st = "NONE"
            BY <1>d, <2>2, <3>1 DEF OneUse, UsedFor
        <3>4. rc[wk.key].st = "SUCCEEDED"
            BY <1>a, <2>2, <3>2, <3>3 DEF ReceiptShape, ReceiptTellsEffect, CutOff, Receipt,
               SagaKinds
        <3>5. ui.rev < draft /\ ui.rev >= MaxEdits
            BY <1>d, <2>2, <3>1, <3>4 DEF DraftShape
        <3>6. ui'.rev = ui.rev + 1 /\ ui'.saved = ui.rev + 1 /\ ui'.key = NoKey
            BY <1>a, <3>1 DEF Window
        <3>7. act'.kind = "CREATE" /\ act'.key = NoKey
            BY <1>a, <2>2, <3>1
        <3> QED
            BY <1>b, <1>d, <2>1, <3>5, <3>6, <3>7 DEF DraftShape, SavedIsHeld, Busy
    <2> QED
        BY <2>3, <2>4
<1>26. CASE ReloadDetail
    BY <1>26, <1>a, <1>b, <1>d DEF ReloadDetail, DraftShape, SavedIsHeld, Busy, Worker
<1>27. CASE ExitBegins
    BY <1>27, <1>a, <1>b, <1>d DEF ExitBegins, SameDraft, HostRests, Send, DraftShape,
       SavedIsHeld, Busy, Worker, Window
<1>28. CASE ExitAnswered
    BY <1>28, <1>a, <1>b, <1>d DEF ExitAnswered, WorkerDone, DraftShape, SavedIsHeld,
       Busy, Worker, Window
<1>29. CASE UNCHANGED cmVars
    BY <1>29, <1>a, <1>b, <1>d DEF cmVars, DraftShape, SavedIsHeld, Busy, Worker
<1> QED
    BY <1>1, <1>2, <1>3, <1>4, <1>5, <1>6, <1>7, <1>8, <1>9, <1>10, <1>11, <1>12,
       <1>13, <1>14, <1>15, <1>16, <1>17, <1>18, <1>19, <1>20, <1>21, <1>22, <1>23,
       <1>24, <1>25, <1>26, <1>27, <1>28, <1>29 DEF Moved
-----------------------------------------------------------------------------
\* The invariant and what follows from it.
LEMMA InitInv == CmInit => IInv
<1> SUFFICES ASSUME CmInit PROVE IInv
    OBVIOUS
<1> USE Bounds DEF CmInit, NoKey
<1>1. /\ act \in [kind : Kinds, key : 0..MaxKeys] /\ act.key = NoKey
      /\ acts \in [given : 0..MaxActs, closes : 0..MaxCloses]
      /\ draft \in 0..MaxEdits /\ (act.kind = "DRAFT" \/ draft = MaxEdits)
    BY DEF Kinds
<1>2. /\ hs \in HostState /\ hs.saga = NoSaga /\ hs.up
    BY Constants DEF HostState
<1>3. /\ ui \in Window /\ ui.rev = draft /\ ui.saved = draft /\ ui.key = NoKey
    BY <1>1 DEF Window, AutosaveRetries
<1>4. wk \in Worker /\ wk.at = "idle" /\ wk.key = NoKey /\ wk.ans = "NONE" /\ wk = IdleWorker
    BY Constants DEF IdleWorker
<1>5. /\ rc \in [CmKeys -> Receipt]
      /\ \A k \in CmKeys : rc[k].st = "NONE" /\ ~rc[k].mine /\ done[k] = 0
    BY Constants DEF NoReceipt
<1>6. done \in [CmKeys -> 0..2]
    OBVIOUS
<1>7. CmTypeOK
    BY <1>1, <1>2, <1>3, <1>4, <1>5, <1>6, Types
<1>8. ReceiptShape /\ ReceiptTellsEffect /\ OpenReceipts
    BY <1>5 DEF ReceiptShape, ReceiptTellsEffect, OpenReceipts
<1>9. SagaShape
    BY <1>2, <1>4 DEF SagaShape, NoSaga, InSaga
<1>10. Keepers /\ OneUse /\ Kept /\ AnswersAreTrue
    BY <1>1, <1>3, <1>4 DEF Keepers, Busy, OneUse, UsedFor, Kept, Retryable, AnswersAreTrue
<1>11. DraftShape /\ SavedIsHeld
    BY <1>1, <1>3, <1>4 DEF DraftShape, SavedIsHeld, Busy
<1> QED
    BY <1>7, <1>8, <1>9, <1>10, <1>11 DEF IInv

\* Every step keeps the invariant.
LEMMA Step == IInv /\ [CmNext]_cmVars => IInv'
<1> SUFFICES ASSUME IInv, [CmNext]_cmVars PROVE IInv'
    OBVIOUS
<1>1. Moved
    BY Moves DEF IInv
<1> QED
    BY <1>1, TypeStep, ReceiptStep, SagaStep, KeepersStep, UseStep, KeptStep, AnswersStep,
       DraftStep DEF IInv

\* The invariant holds in every state of every behaviour.
THEOREM Invariance == CmSpec => []IInv
<1> QED
    BY InitInv, Step, PTL DEF CmSpec

\* Every variable keeps its type.
THEOREM TypeCorrect == CmSpec => []CmTypeOK
<1>1. IInv => CmTypeOK
    BY DEF IInv
<1> QED
    BY <1>1, Invariance, PTL

\* However answers are lost, commands are sent again and the host restarts, a
\* receipt that succeeded stands for exactly one effect and one outbox message,
\* and a rejected one for none, but for a registration that a crash cut off
\* (command_receipts, the handlers of ipc/server).
THEOREM ReceiptsTell == CmSpec => []ReceiptTellsEffect
<1>1. IInv => ReceiptTellsEffect
    BY DEF IInv
<1> QED
    BY <1>1, Invariance, PTL

\* No command is carried out a second time, whatever is retried.
AtMostOnce == \A k \in CmKeys : done[k] <= 1

\* An effect takes place at most once for each key (ensure_idempotency_compatible
\* and the replays of the handlers).
THEOREM EffectsHappenOnce == CmSpec => []AtMostOnce
<1>1. IInv => AtMostOnce
    BY DEF IInv, ReceiptShape, AtMostOnce
<1> QED
    BY <1>1, Invariance, PTL

\* While the host holds no command every receipt has its end: a crash leaves
\* none half-received once the host is up (reconciliation of receipts at start).
THEOREM ReceiptsComeToAnEnd == CmSpec => []ReceiptsEnd
<1>1. IInv => ReceiptsEnd
    BY DEF IInv, OpenReceipts, ReceiptsEnd, NoSaga, InSaga
<1> QED
    BY <1>1, Invariance, PTL

\* What the window is answered is true of the command it asked for.
THEOREM AnswersTell == CmSpec => []AnswersAreTrue
<1>1. IInv => AnswersAreTrue
    BY DEF IInv
<1> QED
    BY <1>1, Invariance, PTL

\* The window never calls a revision of the draft saved that the host does not
\* hold (autosave of the setup draft, main_window).
THEOREM SavedIsReallyHeld == CmSpec => []SavedIsHeld
<1>1. IInv => SavedIsHeld
    BY DEF IInv
<1> QED
    BY <1>1, Invariance, PTL

\* A receipt that has its end keeps it, and an effect is never undone by the
\* handling of commands.
FinalStays ==
    \A k \in CmKeys :
        /\ rc[k].st \in {"REJECTED", "SUCCEEDED"} => rc'[k].st = rc[k].st
        /\ done[k] = 1 => done'[k] = 1

\* What a receipt says in the end it says for good.
LEMMA FinalStep == IInv /\ Moved => FinalStays
<1> SUFFICES ASSUME IInv, Moved, NEW k \in CmKeys
             PROVE  /\ rc[k].st \in {"REJECTED", "SUCCEEDED"} => rc'[k].st = rc[k].st
                    /\ done[k] = 1 => done'[k] = 1
    BY DEF FinalStays
<1>a. /\ rc \in [CmKeys -> Receipt] /\ done \in [CmKeys -> {0, 1}]
      /\ done' \in [CmKeys -> {0, 1}]
    <2>1. IInv'
        BY TypeStep, ReceiptStep, SagaStep, KeepersStep, UseStep, KeptStep, AnswersStep,
           DraftStep DEF IInv
    <2> QED
        BY <2>1, Types DEF IInv, ReceiptShape, CmTypeOK
<1>b. ASSUME Handled
      PROVE  wk.key \in CmKeys /\ (rc[wk.key].st = "NONE" => done[wk.key] = 0)
    BY <1>b, AtHand DEF IInv, ReceiptTellsEffect, CutOff
<1>1. CASE RefusedReadOnly
    BY <1>1, <1>a, <1>b DEF RefusedReadOnly, RefuseReadOnly, Reject, NoEffect
<1>2. CASE Performed
    BY <1>2, <1>a, <1>b DEF Performed, FirstTime, Effect, Succeed, Reject, NoEffect
<1>3. CASE Replayed
    <2>1. Retryable(wk.key)
        BY <1>3, AtHand DEF Replayed, IInv, Kept, Answering
    <2>2. wk.key # NoKey
        BY <1>3, <1>b, Bounds DEF Replayed, NoKey, CmKeys
    <2> QED
        BY <1>3, <2>1, <2>2 DEF Replayed, Retryable, Compatible, TargetKinds
<1>4. CASE JobCreated
    BY <1>4, <1>a, <1>b DEF JobCreated, CreateJob, Effect, Succeed, ReplayCreate,
       FromReceipt
<1>5. CASE SagaBegun
    BY <1>5, <1>a, <1>b DEF SagaBegun
<1>6. CASE SagaEffect
    <2>1. hs.saga.key \in CmKeys
        BY <1>6 DEF SagaEffect, IInv, SagaShape
    <2> QED
        BY <1>6, <1>a, <2>1 DEF SagaEffect
<1>7. CASE SagaAccepted
    <2>1. PICK kind \in SagaKinds : AcceptSaga(kind)
        BY <1>7 DEF SagaAccepted
    <2>2. hs.saga.key \in CmKeys /\ rc[hs.saga.key].st \in {"RECEIVED", "SUCCEEDED"}
        BY <2>1 DEF AcceptSaga, IInv, SagaShape, InSaga
    <2> QED
        BY <1>a, <2>1, <2>2 DEF AcceptSaga, FinishAnswer, Receipt
<1>8. CASE SagaRejected
    <2>1. PICK kind \in SagaKinds : RejectSaga(kind)
        BY <1>8 DEF SagaRejected
    <2>2. hs.saga.key \in CmKeys /\ rc[hs.saga.key].st \in {"RECEIVED", "SUCCEEDED"}
        BY <2>1 DEF RejectSaga, IInv, SagaShape, InSaga
    <2> QED
        BY <1>a, <2>1, <2>2 DEF RejectSaga, FinishAnswer, Receipt
<1>9. CASE HostStart
    BY <1>9, <1>a, <1>b DEF HostStart, Reconciled, Receipt
<1>10. CASE LoseAnswer
    BY <1>10, <1>a, <1>b DEF LoseAnswer, NextClient, Receipt
<1>11. CASE UNCHANGED <<rc, done, posted>>
    BY <1>11
<1>12. CmTypeOK
    BY DEF IInv
<1> QED
    BY <1>1, <1>2, <1>3, <1>4, <1>5, <1>6, <1>7, <1>8, <1>9, <1>10, <1>11, <1>12,
       StoreFrame DEF StoreSteps

\* Receipts that succeeded or were rejected are final, and effects stay: no
\* replay, restart or reconciliation turns one into the other.
THEOREM ReceiptsAreFinal == CmSpec => [][FinalStays]_cmVars
<1>1. IInv /\ [CmNext]_cmVars => FinalStays
    BY Moves, FinalStep DEF IInv
<1> QED
    BY <1>1, Invariance, PTL DEF CmSpec
-----------------------------------------------------------------------------
(* Commands and a run that executes.                                       *)

\* No file is between its first step and its safe boundary.
AtBoundary ==
    \A o \in Ops : phase[o] \notin {"PLANNED", "STAGING_ALLOCATED", "STAGING_VERIFIED"}

\* What the executor knows at each step of a cycle, whatever commands fall
\* between two of its transactions.
CycleShape ==
    /\ pc \in {"plan", "acquire", "start", "record", "wait"} => cur \in Targets
    /\ pc \in {"acquire", "record", "wait"} => from # "NONE"
    /\ pc = "activate" => boundary # NoOp
    /\ pc = "finalizePause" => held = {}
    /\ pc = "finalizeStop" => AtBoundary

\* A paused run has handed its endpoints back.
PauseShape == run = "PAUSED" => held = {}

\* A file that may still be staged has an attempt left.
AttemptLeft ==
    \A o \in Ops : phase[o] \in {"NONE", "PLANNED", "STAGING_ALLOCATED"}
                     => fails[o] < MaxStagingAttempts

\* What the outcome of a target says of its files, and the outcome of the run of
\* its targets.
Outcomes ==
    /\ \A t \in Targets :
         /\ tgt[t] = "SUCCEEDED" => \A o \in OpsOf(t) : phase[o] \in Done
         /\ tgt[t] = "SUCCEEDED_WITH_WARNINGS"
              => \A o \in OpsOf(t) : phase[o] \in Done \cup {"SKIPPED"}
    /\ run = "COMPLETED" => \A t \in Targets : tgt[t] = "SUCCEEDED"
    /\ run = "COMPLETED_WITH_WARNINGS"
         => \A t \in Targets : tgt[t] \in {"SUCCEEDED", "SUCCEEDED_WITH_WARNINGS"}

\* A cancelled run stands at its boundary, and nothing is being planned for it.
CancelledShape == run = "CANCELLED" => AtBoundary /\ pc # "plan"

\* The inductive invariant.
RunInv ==
    TypeOK /\ CycleShape /\ PauseShape /\ AttemptLeft /\ Outcomes /\ CancelledShape

-----------------------------------------------------------------------------
USE DEF NoOp, NoTarget

\* What is assumed of the bounds and the plan.
LEMMA RunBounds ==
    /\ MaxControls \in Nat /\ MaxFaults \in Nat /\ MaxStagingAttempts \in Nat \ {0}
    /\ Ops \subseteq Nat \ {0} /\ IsFiniteSet(Ops) /\ TargetOf \in [Ops -> Targets]
    /\ NTargets \in Nat \ {0}
  BY BoundsAssumption, OpsAssumption, TargetOfAssumption, TargetsAssumption

\* The steps one by one.
RunMoved ==
    \/ ReleaseCreatedRun \/ PauseRun \/ ResumeRun \/ StopRun
    \/ BindStop \/ ActivateStop \/ ActivateConflict \/ CancelPlanned \/ ReleaseForStop
    \/ FinalizeStop \/ ReleaseForPause \/ FinalizePause
    \/ PassChecks \/ EndCycle
    \/ BeginReacquire \/ BeginStart \/ StartExecution \/ BeginPreflight \/ AcquireLease
    \/ RecordLease \/ RecordWait \/ RequeueWaiting \/ PlanDone \/ Crash
    \/ \E t \in Targets :
         \/ RebindOp(t) \/ CommitOp(t) \/ PlanOps(t) \/ CleanupOp(t) \/ StageOp(t)
         \/ StageOffline(t) \/ CompleteTarget(t)
    \/ UNCHANGED vars

\* The steps one by one.
LEMMA RunMoves == [Next]_vars => RunMoved
  BY DEF Next, ExecutorStep, StopStep, PauseStep, LeaseStep, TargetStep, RunMoved

\* The first in plan or row order: a nonempty set of numbers has a least one.
LEMMA MinIsLeast ==
    ASSUME NEW S \in SUBSET Nat, S # {}
    PROVE  Min(S) \in S /\ \A y \in S : Min(S) <= y
<1>1. PICK x \in S : \A y \in S : ~ (<<y, x>> \in OpToRel(<, Nat))
    BY NatLessThanWellFounded, WFMin, Zenon
<1>2. ASSUME NEW y \in S, y < x PROVE FALSE
    <2>1. <<y, x>> \in {ss \in Nat \X Nat : ss[1] < ss[2]}
        BY <1>2
    <2> QED
        BY <1>1, <2>1, Zenon DEF OpToRel
<1>3. \A y \in S : x <= y
    BY <1>2
<1> QED
    BY <1>3 DEF Min

\* The first target in a state is one of those in it.
LEMMA FirstInIsIn ==
    ASSUME NEW s, In({s}) # {}
    PROVE  FirstIn(s) \in Targets /\ tgt[FirstIn(s)] = s
<1>1. In({s}) \subseteq Nat
    BY DEF In, Targets
<1> QED
    BY <1>1, MinIsLeast DEF FirstIn, In

\* The first file of a target in some phases is one of those in them.
LEMMA FirstOpIsIn ==
    ASSUME NEW t, NEW S, OpsIn(t, S) # {}
    PROVE  Min(OpsIn(t, S)) \in Ops /\ phase[Min(OpsIn(t, S))] \in S
<1>1. OpsIn(t, S) \subseteq Nat
    BY RunBounds DEF OpsIn, OpsOf
<1> QED
    BY <1>1, MinIsLeast DEF OpsIn, OpsOf

\* The file a staging step works on is planned or has its staging file.
LEMMA NextStagingIsStaging ==
    ASSUME NEW t, OpsIn(t, {"PLANNED", "STAGING_ALLOCATED"}) # {}
    PROVE  /\ NextStaging(t) \in Ops
           /\ phase[NextStaging(t)] \in {"PLANNED", "STAGING_ALLOCATED"}
  BY FirstOpIsIn DEF NextStaging

\* What the order of _advance_retained_target says of a target.
LEMMA StepKinds ==
    ASSUME NEW t
    PROVE  /\ StepKind(t) = "success" => OpsOf(t) = {} \/ CatalogComplete(t)
           /\ StepKind(t) = "warnings" => SkippedReady(t)
           /\ StepKind(t) = "commit" => OpsIn(t, {"STAGING_VERIFIED"}) # {}
           /\ StepKind(t) = "cleanup" => OpsIn(t, {"CATALOG_RECORDED"}) # {}
           /\ StepKind(t) = "plan" => OpsIn(t, {"NONE"}) # {}
           /\ StepKind(t) = "staging" => OpsIn(t, {"PLANNED", "STAGING_ALLOCATED"}) # {}
           /\ StepKind(t) = "rebind" => Stale(t) # {}
  BY DEF StepKind, NeedsCleanup

\* A complete catalog has every file of the target.
LEMMA CompleteIsAll ==
    ASSUME NEW t, NEW S, Cardinality(OpsIn(t, S)) >= Cardinality(OpsOf(t))
    PROVE  \A o \in OpsOf(t) : phase[o] \in S
<1>1. IsFiniteSet(OpsOf(t)) /\ OpsIn(t, S) \in SUBSET OpsOf(t)
    BY RunBounds, FS_Subset DEF OpsOf, OpsIn
<1>2. /\ Cardinality(OpsIn(t, S)) = Cardinality(OpsOf(t))
    BY <1>1, FS_Subset, FS_CardinalityType
<1>3. OpsIn(t, S) = OpsOf(t)
    BY <1>1, <1>2, FS_Subset
<1> QED
    BY <1>3 DEF OpsIn

USE RunBounds

\* Every step keeps the types.
LEMMA RunTypeStep ==
    ASSUME TypeOK, CycleShape, AttemptLeft, [Next]_vars
    PROVE  TypeOK'
<1> USE DEF TypeOK, CycleShape, RunStates, TargetStates, OpPhases, catalog, journal, executor
<1>1. CASE ReleaseCreatedRun
    BY <1>1 DEF ReleaseCreatedRun
<1>2. CASE PauseRun
    BY <1>2 DEF PauseRun, Command, StorePause
<1>3. CASE ResumeRun
    BY <1>3 DEF ResumeRun, Command, StoreResume
<1>4. CASE StopRun
    BY <1>4 DEF StopRun, Command, StoreStop
<1>5. CASE BindStop
    BY <1>5 DEF BindStop, StartedOps
<1>6. CASE ActivateStop
    BY <1>6 DEF ActivateStop, StoreActivateStop, ActivatedRun
<1>7. CASE ActivateConflict
    BY <1>7 DEF ActivateConflict
<1>8. CASE CancelPlanned
    BY <1>8 DEF CancelPlanned, StopMayFinish, PlannedOps, StartedOps
<1>9. CASE ReleaseForStop
    BY <1>9 DEF ReleaseForStop, StopMayFinish, PlannedOps, StartedOps
<1>10. CASE FinalizeStop
    BY <1>10 DEF FinalizeStop, Back, StoreFinalizeStop
<1>11. CASE ReleaseForPause
    BY <1>11 DEF ReleaseForPause
<1>12. CASE FinalizePause
    BY <1>12 DEF FinalizePause, Back, StoreFinalizePause
<1>13. CASE PassChecks
    BY <1>13 DEF PassChecks, ChecksPass
<1>14. CASE EndCycle
    BY <1>14 DEF EndCycle, Back
<1>15. CASE BeginReacquire
    <2>1. FirstIn("EXECUTING") \in Targets
        BY <1>15, FirstInIsIn DEF BeginReacquire, NeedsReacquire
    <2> QED
        BY <1>15, <2>1 DEF BeginReacquire, Live
<1>16. CASE BeginStart
    <2>1. FirstIn("REVALIDATING") \in Targets
        BY <1>16, FirstInIsIn DEF BeginStart, NeedsStart
    <2> QED
        BY <1>16, <2>1 DEF BeginStart, Live
<1>17. CASE StartExecution
    BY <1>17 DEF StartExecution, Back, StoreExecutionStarted
<1>18. CASE BeginPreflight
    <2>1. FirstIn("PENDING") \in Targets
        BY <1>18, FirstInIsIn DEF BeginPreflight
    <2> QED
        BY <1>18, <2>1 DEF BeginPreflight, StoreBeginPreflight, Live
<1>19. CASE AcquireLease
    BY <1>19 DEF AcquireLease, NoFault, Fault, Back
<1>20. CASE RecordLease
    BY <1>20 DEF RecordLease, Back, StoreLeaseRecorded, LeaseRecordable, Rebound
<1>21. CASE RecordWait
    BY <1>21 DEF RecordWait, Back, StoreWaiting, LeaseRecordable
<1>22. CASE RequeueWaiting
    BY <1>22 DEF RequeueWaiting, In
<1>23. CASE PlanDone
    BY <1>23 DEF PlanDone, Back
<1>24. CASE Crash
    BY <1>24 DEF Crash, Fault, Back
<1>25. ASSUME NEW t \in Targets, RebindOp(t) PROVE TypeOK'
    <2>1. Stale(t) # {}
        BY <1>25, StepKinds DEF RebindOp
    <2> QED
        BY <1>25, <2>1 DEF RebindOp, Journaled, Back, NoFault, Live
<1>26. ASSUME NEW t \in Targets, CommitOp(t) PROVE TypeOK'
    <2> DEFINE o == Min(OpsIn(t, {"STAGING_VERIFIED"}))
    <2>1. o \in Ops
        BY <1>26, StepKinds, FirstOpIsIn DEF CommitOp
    <2> HIDE DEF o
    <2> QED
        BY <1>26, <2>1 DEF CommitOp, o, Journaled, Back, NoFault, Fault, Live
<1>27. ASSUME NEW t \in Targets, PlanOps(t) PROVE TypeOK'
    <2> DEFINE o == Min(OpsIn(t, {"NONE"}))
    <2>1. o \in Ops
        BY <1>27, StepKinds, FirstOpIsIn DEF PlanOps
    <2> HIDE DEF o
    <2> QED
        BY <1>27, <2>1 DEF PlanOps, o, Live
<1>28. ASSUME NEW t \in Targets, CleanupOp(t) PROVE TypeOK'
    <2> DEFINE o == Min(OpsIn(t, {"CATALOG_RECORDED"}))
    <2>1. o \in Ops
        BY <1>28, StepKinds, FirstOpIsIn DEF CleanupOp
    <2> HIDE DEF o
    <2> QED
        BY <1>28, <2>1 DEF CleanupOp, o, Journaled, Back, NoFault, Live
<1>29. ASSUME NEW t \in Targets, StageOp(t) PROVE TypeOK'
    <2> DEFINE o == NextStaging(t)
    <2>1. o \in Ops /\ phase[o] \in {"PLANNED", "STAGING_ALLOCATED"}
        BY <1>29, StepKinds, NextStagingIsStaging DEF StageOp
    <2> HIDE DEF o
    <2>2. fails[o] + 1 \in 0..MaxStagingAttempts
        BY <2>1, RunBounds DEF AttemptLeft
    <2>3. fails' \in [Ops -> 0..MaxStagingAttempts]
        BY <1>29, <2>1, <2>2 DEF StageOp, o
    <2>4. phase' \in [Ops -> OpPhases]
        BY <1>29, <2>1 DEF StageOp, o
    <2> QED
        BY <1>29, <2>3, <2>4 DEF StageOp, Journaled, Back, NoFault, Fault, Live
<1>30. ASSUME NEW t \in Targets, StageOffline(t) PROVE TypeOK'
    BY <1>30 DEF StageOffline, Fault, Back, Live
<1>31. ASSUME NEW t \in Targets, CompleteTarget(t) PROVE TypeOK'
    <2>1. tgt' \in [Targets -> TargetStates] /\ run' \in RunStates
        BY <1>31 DEF CompleteTarget, CompleteSuccess, CompleteWithWarnings,
                 CompleteRecoveryRequired, StoreSucceeded, StoreSucceededWithWarnings,
                 StoreRecoveryRequired, FinishIfLast, FinishedRun
    <2> QED
        BY <1>31, <2>1 DEF CompleteTarget, Back, Live
<1>32. CASE UNCHANGED vars
    BY <1>32 DEF vars, catalog, journal, executor
<1> HIDE DEF TypeOK, CycleShape
<1> QED
    BY <1>1, <1>2, <1>3, <1>4, <1>5, <1>6, <1>7, <1>8, <1>9, <1>10, <1>11, <1>12,
       <1>13, <1>14, <1>15, <1>16, <1>17, <1>18, <1>19, <1>20, <1>21, <1>22, <1>23,
       <1>24, <1>25, <1>26, <1>27, <1>28, <1>29, <1>30, <1>31, <1>32,
       RunMoves DEF RunMoved

\* A file's journal only moves on: from its plan through staging, commit and
\* catalog, or aside to a skip, a decision or a cancellation.
Forward(o) ==
    \/ phase'[o] = phase[o]
    \/ <<phase[o], phase'[o]>> \in
         {<<"NONE", "PLANNED">>, <<"PLANNED", "CANCELLED">>,
          <<"PLANNED", "STAGING_ALLOCATED">>, <<"PLANNED", "SKIPPED">>,
          <<"STAGING_ALLOCATED", "STAGING_VERIFIED">>, <<"STAGING_ALLOCATED", "SKIPPED">>,
          <<"STAGING_VERIFIED", "CATALOG_RECORDED">>,
          <<"STAGING_VERIFIED", "USER_DECISION_REQUIRED">>,
          <<"CATALOG_RECORDED", "CLEANED">>}

\* Only a target at work, or one being planned, begins anything new.
Quiet ==
    \/ run = "EXECUTING" \/ pc = "plan"
    \/ \A o \in Ops : \/ phase'[o] = phase[o]
                      \/ phase[o] = "PLANNED" /\ phase'[o] = "CANCELLED"

JournalFrame == Quiet /\ \A o \in Ops : Forward(o)

\* Every step keeps to that.
LEMMA JournalStep ==
    ASSUME TypeOK, [Next]_vars
    PROVE  JournalFrame
<1> USE DEF TypeOK, OpPhases, catalog, journal, JournalFrame
<1>1. CASE ReleaseCreatedRun
    BY <1>1 DEF ReleaseCreatedRun, Quiet, Forward
<1>2. CASE PauseRun
    BY <1>2 DEF PauseRun, Quiet, Forward
<1>3. CASE ResumeRun
    BY <1>3 DEF ResumeRun, Quiet, Forward
<1>4. CASE StopRun
    BY <1>4 DEF StopRun, Quiet, Forward
<1>5. CASE BindStop
    BY <1>5 DEF BindStop, Quiet, Forward
<1>6. CASE ActivateStop
    BY <1>6 DEF ActivateStop, Quiet, Forward
<1>7. CASE ActivateConflict
    BY <1>7 DEF ActivateConflict, Quiet, Forward
<1>8. CASE CancelPlanned
    BY <1>8 DEF CancelPlanned, PlannedOps, Quiet, Forward
<1>9. CASE ReleaseForStop
    BY <1>9 DEF ReleaseForStop, Quiet, Forward
<1>10. CASE FinalizeStop
    BY <1>10 DEF FinalizeStop, Quiet, Forward
<1>11. CASE ReleaseForPause
    BY <1>11 DEF ReleaseForPause, Quiet, Forward
<1>12. CASE FinalizePause
    BY <1>12 DEF FinalizePause, Quiet, Forward
<1>13. CASE PassChecks
    BY <1>13 DEF PassChecks, Quiet, Forward
<1>14. CASE EndCycle
    BY <1>14 DEF EndCycle, Quiet, Forward
<1>15. CASE BeginReacquire
    BY <1>15 DEF BeginReacquire, Quiet, Forward
<1>16. CASE BeginStart
    BY <1>16 DEF BeginStart, Quiet, Forward
<1>17. CASE StartExecution
    BY <1>17 DEF StartExecution, Quiet, Forward
<1>18. CASE BeginPreflight
    BY <1>18 DEF BeginPreflight, Quiet, Forward
<1>19. CASE AcquireLease
    BY <1>19 DEF AcquireLease, Quiet, Forward
<1>20. CASE RecordLease
    BY <1>20 DEF RecordLease, Quiet, Forward
<1>21. CASE RecordWait
    BY <1>21 DEF RecordWait, Quiet, Forward
<1>22. CASE RequeueWaiting
    BY <1>22 DEF RequeueWaiting, Quiet, Forward
<1>23. CASE PlanDone
    BY <1>23 DEF PlanDone, Quiet, Forward
<1>24. CASE Crash
    BY <1>24 DEF Crash, Quiet, Forward
<1>25. ASSUME NEW t \in Targets, RebindOp(t) PROVE JournalFrame
    BY <1>25 DEF RebindOp, Quiet, Forward
<1>26. ASSUME NEW t \in Targets, CommitOp(t) PROVE JournalFrame
    <2> DEFINE o == Min(OpsIn(t, {"STAGING_VERIFIED"}))
    <2>1. o \in Ops /\ phase[o] = "STAGING_VERIFIED"
        BY <1>26, StepKinds, FirstOpIsIn DEF CommitOp
    <2>2. run = "EXECUTING"
        BY <1>26 DEF CommitOp, Advances, Retained
    <2> HIDE DEF o
    <2> QED
        BY <1>26, <2>1, <2>2 DEF CommitOp, o, Fault, NoFault, Quiet, Forward
<1>27. ASSUME NEW t \in Targets, PlanOps(t) PROVE JournalFrame
    <2> DEFINE o == Min(OpsIn(t, {"NONE"}))
    <2>1. o \in Ops /\ phase[o] = "NONE"
        BY <1>27, StepKinds, FirstOpIsIn DEF PlanOps
    <2>2. run = "EXECUTING" \/ pc = "plan"
        BY <1>27 DEF PlanOps, Advances, Retained
    <2> HIDE DEF o
    <2> QED
        BY <1>27, <2>1, <2>2 DEF PlanOps, o, Quiet, Forward
<1>28. ASSUME NEW t \in Targets, CleanupOp(t) PROVE JournalFrame
    <2> DEFINE o == Min(OpsIn(t, {"CATALOG_RECORDED"}))
    <2>1. o \in Ops /\ phase[o] = "CATALOG_RECORDED"
        BY <1>28, StepKinds, FirstOpIsIn DEF CleanupOp
    <2>2. run = "EXECUTING"
        BY <1>28 DEF CleanupOp, Advances, Retained
    <2> HIDE DEF o
    <2> QED
        BY <1>28, <2>1, <2>2 DEF CleanupOp, o, Quiet, Forward
<1>29. ASSUME NEW t \in Targets, StageOp(t) PROVE JournalFrame
    <2> DEFINE o == NextStaging(t)
    <2>1. o \in Ops /\ phase[o] \in {"PLANNED", "STAGING_ALLOCATED"}
        BY <1>29, StepKinds, NextStagingIsStaging DEF StageOp
    <2>2. run = "EXECUTING"
        BY <1>29 DEF StageOp, Advances, Retained
    <2> HIDE DEF o
    <2> QED
        BY <1>29, <2>1, <2>2 DEF StageOp, o, Quiet, Forward
<1>30. ASSUME NEW t \in Targets, StageOffline(t) PROVE JournalFrame
    BY <1>30 DEF StageOffline, Quiet, Forward
<1>31. ASSUME NEW t \in Targets, CompleteTarget(t) PROVE JournalFrame
    BY <1>31 DEF CompleteTarget, Quiet, Forward
<1>32. CASE UNCHANGED vars
    BY <1>32 DEF vars, Quiet, Forward
<1> HIDE DEF TypeOK, JournalFrame
<1> QED
    BY <1>1, <1>2, <1>3, <1>4, <1>5, <1>6, <1>7, <1>8, <1>9, <1>10, <1>11, <1>12,
       <1>13, <1>14, <1>15, <1>16, <1>17, <1>18, <1>19, <1>20, <1>21, <1>22, <1>23,
       <1>24, <1>25, <1>26, <1>27, <1>28, <1>29, <1>30, <1>31, <1>32,
       RunMoves DEF RunMoved

\* The executor's own steps.
LEMMA CycleStep ==
    ASSUME TypeOK, CycleShape, [Next]_vars
    PROVE  CycleShape'
<1> USE DEF TypeOK, CycleShape, AtBoundary, catalog, journal, executor
<1>1. CASE ReleaseCreatedRun
    BY <1>1 DEF ReleaseCreatedRun
<1>2. CASE PauseRun
    BY <1>2 DEF PauseRun, Command, StorePause
<1>3. CASE ResumeRun
    BY <1>3 DEF ResumeRun, Command, StoreResume
<1>4. CASE StopRun
    BY <1>4 DEF StopRun, Command, StoreStop
<1>5. CASE BindStop
    BY <1>5 DEF BindStop, StartedOps
<1>6. CASE ActivateStop
    BY <1>6 DEF ActivateStop, StoreActivateStop
<1>7. CASE ActivateConflict
    BY <1>7 DEF ActivateConflict
<1>8. CASE CancelPlanned
    BY <1>8 DEF CancelPlanned, StopMayFinish, PlannedOps, StartedOps
<1>9. CASE ReleaseForStop
    BY <1>9 DEF ReleaseForStop, StopMayFinish, BoundarySafe, PlannedOps, StartedOps,
             Started, Done
<1>10. CASE FinalizeStop
    BY <1>10 DEF FinalizeStop, Back
<1>11. CASE ReleaseForPause
    BY <1>11 DEF ReleaseForPause
<1>12. CASE FinalizePause
    BY <1>12 DEF FinalizePause, Back
<1>13. CASE PassChecks
    BY <1>13 DEF PassChecks, ChecksPass
<1>14. CASE EndCycle
    BY <1>14 DEF EndCycle, Back
<1>15. CASE BeginReacquire
    <2>1. FirstIn("EXECUTING") \in Targets
        BY <1>15, FirstInIsIn DEF BeginReacquire, NeedsReacquire
    <2> QED
        BY <1>15, <2>1 DEF BeginReacquire, Live
<1>16. CASE BeginStart
    <2>1. FirstIn("REVALIDATING") \in Targets
        BY <1>16, FirstInIsIn DEF BeginStart, NeedsStart
    <2> QED
        BY <1>16, <2>1 DEF BeginStart, Live
<1>17. CASE StartExecution
    BY <1>17 DEF StartExecution, Back, StoreExecutionStarted
<1>18. CASE BeginPreflight
    <2>1. FirstIn("PENDING") \in Targets
        BY <1>18, FirstInIsIn DEF BeginPreflight
    <2> QED
        BY <1>18, <2>1 DEF BeginPreflight, StoreBeginPreflight, Live
<1>19. CASE AcquireLease
    BY <1>19 DEF AcquireLease, NoFault, Fault, Back
<1>20. CASE RecordLease
    BY <1>20 DEF RecordLease, Back, StoreLeaseRecorded, LeaseRecordable, Rebound
<1>21. CASE RecordWait
    BY <1>21 DEF RecordWait, Back, StoreWaiting, LeaseRecordable
<1>22. CASE RequeueWaiting
    BY <1>22 DEF RequeueWaiting, In
<1>23. CASE PlanDone
    BY <1>23 DEF PlanDone, Back
<1>24. CASE Crash
    BY <1>24 DEF Crash, Back
<1>25. ASSUME NEW t \in Targets, RebindOp(t) PROVE CycleShape'
    BY <1>25 DEF RebindOp, Journaled, Back
<1>26. ASSUME NEW t \in Targets, CommitOp(t) PROVE CycleShape'
    BY <1>26 DEF CommitOp, Journaled, Back
<1>27. ASSUME NEW t \in Targets, PlanOps(t) PROVE CycleShape'
    BY <1>27 DEF PlanOps
<1>28. ASSUME NEW t \in Targets, CleanupOp(t) PROVE CycleShape'
    BY <1>28 DEF CleanupOp, Journaled, Back
<1>29. ASSUME NEW t \in Targets, StageOp(t) PROVE CycleShape'
    BY <1>29 DEF StageOp, Journaled, Back
<1>30. ASSUME NEW t \in Targets, StageOffline(t) PROVE CycleShape'
    BY <1>30 DEF StageOffline, Back
<1>31. ASSUME NEW t \in Targets, CompleteTarget(t) PROVE CycleShape'
    BY <1>31 DEF CompleteTarget, Back
<1>32. CASE UNCHANGED vars
    BY <1>32 DEF vars, executor
<1> HIDE DEF TypeOK, CycleShape, AtBoundary
<1> QED
    BY <1>1, <1>2, <1>3, <1>4, <1>5, <1>6, <1>7, <1>8, <1>9, <1>10, <1>11, <1>12,
       <1>13, <1>14, <1>15, <1>16, <1>17, <1>18, <1>19, <1>20, <1>21, <1>22, <1>23,
       <1>24, <1>25, <1>26, <1>27, <1>28, <1>29, <1>30, <1>31, <1>32,
       RunMoves DEF RunMoved

\* No lease is recorded for a run that was paused.
LEMMA PauseShapeStep ==
    ASSUME TypeOK, CycleShape, PauseShape, [Next]_vars
    PROVE  PauseShape'
<1> USE DEF TypeOK, CycleShape, PauseShape, catalog, journal, executor
<1>1. CASE ReleaseCreatedRun
    BY <1>1 DEF ReleaseCreatedRun
<1>2. CASE PauseRun
    BY <1>2 DEF PauseRun, Command, StorePause
<1>3. CASE ResumeRun
    BY <1>3 DEF ResumeRun, Command, StoreResume
<1>4. CASE StopRun
    BY <1>4 DEF StopRun, Command, StoreStop
<1>5. CASE BindStop
    BY <1>5 DEF BindStop
<1>6. CASE ActivateStop
    BY <1>6 DEF ActivateStop, StoreActivateStop, ActivatedRun
<1>7. CASE ActivateConflict
    BY <1>7 DEF ActivateConflict
<1>8. CASE CancelPlanned
    BY <1>8 DEF CancelPlanned, StopMayFinish, PlannedOps, StartedOps
<1>9. CASE ReleaseForStop
    BY <1>9 DEF ReleaseForStop, StopMayFinish, PlannedOps, StartedOps
<1>10. CASE FinalizeStop
    BY <1>10 DEF FinalizeStop, Back, StoreFinalizeStop
<1>11. CASE ReleaseForPause
    BY <1>11 DEF ReleaseForPause
<1>12. CASE FinalizePause
    BY <1>12 DEF FinalizePause, Back, StoreFinalizePause
<1>13. CASE PassChecks
    BY <1>13 DEF PassChecks, ChecksPass
<1>14. CASE EndCycle
    BY <1>14 DEF EndCycle, Back
<1>15. CASE BeginReacquire
    BY <1>15 DEF BeginReacquire, Live
<1>16. CASE BeginStart
    BY <1>16 DEF BeginStart, Live
<1>17. CASE StartExecution
    BY <1>17 DEF StartExecution, Back, StoreExecutionStarted
<1>18. CASE BeginPreflight
    BY <1>18 DEF BeginPreflight, StoreBeginPreflight, Live, Runnable
<1>19. CASE AcquireLease
    BY <1>19 DEF AcquireLease, NoFault, Fault, Back
<1>20. CASE RecordLease
    BY <1>20 DEF RecordLease, Back, StoreLeaseRecorded, LeaseRecordable
<1>21. CASE RecordWait
    BY <1>21 DEF RecordWait, Back, StoreWaiting, LeaseRecordable
<1>22. CASE RequeueWaiting
    BY <1>22 DEF RequeueWaiting, In
<1>23. CASE PlanDone
    BY <1>23 DEF PlanDone, Back
<1>24. CASE Crash
    BY <1>24 DEF Crash, Fault, Back
<1>25. ASSUME NEW t \in Targets, RebindOp(t) PROVE PauseShape'
    BY <1>25 DEF RebindOp, Journaled, Live
<1>26. ASSUME NEW t \in Targets, CommitOp(t) PROVE PauseShape'
    BY <1>26 DEF CommitOp, Journaled, Live
<1>27. ASSUME NEW t \in Targets, PlanOps(t) PROVE PauseShape'
    BY <1>27 DEF PlanOps, Live
<1>28. ASSUME NEW t \in Targets, CleanupOp(t) PROVE PauseShape'
    BY <1>28 DEF CleanupOp, Journaled, Live
<1>29. ASSUME NEW t \in Targets, StageOp(t) PROVE PauseShape'
    BY <1>29 DEF StageOp, Journaled, Live
<1>30. ASSUME NEW t \in Targets, StageOffline(t) PROVE PauseShape'
    BY <1>30 DEF StageOffline, Advances, Retained
<1>31. ASSUME NEW t \in Targets, CompleteTarget(t) PROVE PauseShape'
    <2>1. run = "EXECUTING"
        BY <1>31 DEF CompleteTarget, Advances, Retained
    <2> QED
        BY <1>31, <2>1 DEF CompleteTarget, CompleteSuccess, CompleteWithWarnings,
           CompleteRecoveryRequired, StoreSucceeded, StoreSucceededWithWarnings,
           StoreRecoveryRequired, FinishIfLast, FinishedRun
<1>32. CASE UNCHANGED vars
    BY <1>32 DEF vars
<1> HIDE DEF TypeOK, CycleShape, PauseShape
<1> QED
    BY <1>1, <1>2, <1>3, <1>4, <1>5, <1>6, <1>7, <1>8, <1>9, <1>10, <1>11, <1>12,
       <1>13, <1>14, <1>15, <1>16, <1>17, <1>18, <1>19, <1>20, <1>21, <1>22, <1>23,
       <1>24, <1>25, <1>26, <1>27, <1>28, <1>29, <1>30, <1>31, <1>32,
       RunMoves DEF RunMoved

\* One more attempt counted.
LEMMA Counted ==
    ASSUME NEW f \in [Ops -> 0..MaxStagingAttempts], NEW g, NEW o \in Ops,
           g = [f EXCEPT ![o] = f[o] + 1]
    PROVE  f[o] \in Nat /\ g[o] = f[o] + 1
<1>1. f[o] \in Nat
    BY RunBounds
<1> QED
    BY <1>1

\* The last failed attempt skips the file.
LEMMA AttemptStep ==
    ASSUME TypeOK, AttemptLeft, JournalFrame, [Next]_vars
    PROVE  AttemptLeft'
<1> USE DEF TypeOK, AttemptLeft, catalog, journal
<1>0. \A o \in Ops : Forward(o)
    BY DEF JournalFrame
<1>1. CASE ReleaseCreatedRun
    BY <1>1 DEF ReleaseCreatedRun
<1>2. CASE PauseRun
    BY <1>2 DEF PauseRun
<1>3. CASE ResumeRun
    BY <1>3 DEF ResumeRun
<1>4. CASE StopRun
    BY <1>4 DEF StopRun
<1>5. CASE BindStop
    BY <1>5 DEF BindStop
<1>6. CASE ActivateStop
    BY <1>6 DEF ActivateStop
<1>7. CASE ActivateConflict
    BY <1>7 DEF ActivateConflict
<1>8. CASE CancelPlanned
    BY <1>8, <1>0 DEF CancelPlanned, Forward
<1>9. CASE ReleaseForStop
    BY <1>9 DEF ReleaseForStop
<1>10. CASE FinalizeStop
    BY <1>10 DEF FinalizeStop
<1>11. CASE ReleaseForPause
    BY <1>11 DEF ReleaseForPause
<1>12. CASE FinalizePause
    BY <1>12 DEF FinalizePause
<1>13. CASE PassChecks
    BY <1>13 DEF PassChecks
<1>14. CASE EndCycle
    BY <1>14 DEF EndCycle
<1>15. CASE BeginReacquire
    BY <1>15 DEF BeginReacquire
<1>16. CASE BeginStart
    BY <1>16 DEF BeginStart
<1>17. CASE StartExecution
    BY <1>17 DEF StartExecution
<1>18. CASE BeginPreflight
    BY <1>18 DEF BeginPreflight
<1>19. CASE AcquireLease
    BY <1>19 DEF AcquireLease
<1>20. CASE RecordLease
    BY <1>20 DEF RecordLease
<1>21. CASE RecordWait
    BY <1>21 DEF RecordWait
<1>22. CASE RequeueWaiting
    BY <1>22 DEF RequeueWaiting
<1>23. CASE PlanDone
    BY <1>23 DEF PlanDone
<1>24. CASE Crash
    BY <1>24 DEF Crash
<1>25. ASSUME NEW t \in Targets, RebindOp(t) PROVE AttemptLeft'
    BY <1>25 DEF RebindOp
<1>26. ASSUME NEW t \in Targets, CommitOp(t) PROVE AttemptLeft'
    BY <1>26, <1>0 DEF CommitOp, Forward
<1>27. ASSUME NEW t \in Targets, PlanOps(t) PROVE AttemptLeft'
    BY <1>27, <1>0 DEF PlanOps, Forward
<1>28. ASSUME NEW t \in Targets, CleanupOp(t) PROVE AttemptLeft'
    BY <1>28, <1>0 DEF CleanupOp, Forward
<1>29. ASSUME NEW t \in Targets, StageOp(t) PROVE AttemptLeft'
    <2> DEFINE o == NextStaging(t)
    <2>1. o \in Ops /\ phase[o] \in {"PLANNED", "STAGING_ALLOCATED"}
        BY <1>29, StepKinds, NextStagingIsStaging DEF StageOp
    <2>2. CASE fails' = fails
        BY <2>2, <1>0 DEF Forward
    <2>3. CASE /\ fails' = [fails EXCEPT ![o] = fails[o] + 1]
               /\ phase' = IF fails'[o] >= MaxStagingAttempts
                           THEN [phase EXCEPT ![o] = "SKIPPED"] ELSE phase
        <3> HIDE DEF o
        <3>0. fails[o] \in Nat /\ fails'[o] = fails[o] + 1
            BY <2>1, <2>3, Counted
        <3>1. CASE fails'[o] >= MaxStagingAttempts
            <4>1. phase' = [phase EXCEPT ![o] = "SKIPPED"]
                BY <2>3, <3>1
            <4> QED
                BY <2>1, <2>3, <4>1
        <3>2. CASE ~ (fails'[o] >= MaxStagingAttempts)
            <4>1. phase' = phase /\ fails'[o] < MaxStagingAttempts
                BY <2>3, <3>0, <3>2
            <4> QED
                BY <2>1, <2>3, <4>1
        <3> QED
            BY <3>1, <3>2
    <2> QED
        BY <1>29, <2>2, <2>3 DEF StageOp, Exhausted
<1>30. ASSUME NEW t \in Targets, StageOffline(t) PROVE AttemptLeft'
    BY <1>30 DEF StageOffline
<1>31. ASSUME NEW t \in Targets, CompleteTarget(t) PROVE AttemptLeft'
    BY <1>31 DEF CompleteTarget
<1>32. CASE UNCHANGED vars
    BY <1>32 DEF vars
<1> HIDE DEF TypeOK, AttemptLeft
<1> QED
    BY <1>1, <1>2, <1>3, <1>4, <1>5, <1>6, <1>7, <1>8, <1>9, <1>10, <1>11, <1>12,
       <1>13, <1>14, <1>15, <1>16, <1>17, <1>18, <1>19, <1>20, <1>21, <1>22, <1>23,
       <1>24, <1>25, <1>26, <1>27, <1>28, <1>29, <1>30, <1>31, <1>32,
       RunMoves DEF RunMoved

\* Nothing changes a run that ended.
LEMMA EndedStep ==
    ASSUME run \in Ended, [Next]_vars
    PROVE  run' = run /\ tgt' = tgt
<1> USE DEF Ended, Runnable, Stoppable, catalog
<1>1. CASE ReleaseCreatedRun
    BY <1>1 DEF ReleaseCreatedRun
<1>2. CASE PauseRun
    BY <1>2 DEF PauseRun, Command, StorePause
<1>3. CASE ResumeRun
    BY <1>3 DEF ResumeRun, Command, StoreResume
<1>4. CASE StopRun
    BY <1>4 DEF StopRun, Command, StoreStop
<1>5. CASE BindStop
    BY <1>5 DEF BindStop
<1>6. CASE ActivateStop
    BY <1>6 DEF ActivateStop, StoreActivateStop
<1>7. CASE ActivateConflict
    BY <1>7 DEF ActivateConflict
<1>8. CASE CancelPlanned
    BY <1>8 DEF CancelPlanned
<1>9. CASE ReleaseForStop
    BY <1>9 DEF ReleaseForStop
<1>10. CASE FinalizeStop
    BY <1>10 DEF FinalizeStop, StoreFinalizeStop
<1>11. CASE ReleaseForPause
    BY <1>11 DEF ReleaseForPause
<1>12. CASE FinalizePause
    BY <1>12 DEF FinalizePause, StoreFinalizePause
<1>13. CASE PassChecks
    BY <1>13 DEF PassChecks
<1>14. CASE EndCycle
    BY <1>14 DEF EndCycle
<1>15. CASE BeginReacquire
    BY <1>15 DEF BeginReacquire
<1>16. CASE BeginStart
    BY <1>16 DEF BeginStart
<1>17. CASE StartExecution
    BY <1>17 DEF StartExecution, StoreExecutionStarted
<1>18. CASE BeginPreflight
    BY <1>18 DEF BeginPreflight
<1>19. CASE AcquireLease
    BY <1>19 DEF AcquireLease
<1>20. CASE RecordLease
    BY <1>20 DEF RecordLease, StoreLeaseRecorded, LeaseRecordable
<1>21. CASE RecordWait
    BY <1>21 DEF RecordWait, StoreWaiting, LeaseRecordable
<1>22. CASE RequeueWaiting
    BY <1>22 DEF RequeueWaiting
<1>23. CASE PlanDone
    BY <1>23 DEF PlanDone
<1>24. CASE Crash
    BY <1>24 DEF Crash
<1>25. ASSUME NEW t \in Targets, RebindOp(t) PROVE run' = run /\ tgt' = tgt
    BY <1>25 DEF RebindOp, Journaled
<1>26. ASSUME NEW t \in Targets, CommitOp(t) PROVE run' = run /\ tgt' = tgt
    BY <1>26 DEF CommitOp, Journaled
<1>27. ASSUME NEW t \in Targets, PlanOps(t) PROVE run' = run /\ tgt' = tgt
    BY <1>27 DEF PlanOps
<1>28. ASSUME NEW t \in Targets, CleanupOp(t) PROVE run' = run /\ tgt' = tgt
    BY <1>28 DEF CleanupOp, Journaled
<1>29. ASSUME NEW t \in Targets, StageOp(t) PROVE run' = run /\ tgt' = tgt
    BY <1>29 DEF StageOp, Journaled
<1>30. ASSUME NEW t \in Targets, StageOffline(t) PROVE run' = run /\ tgt' = tgt
    BY <1>30 DEF StageOffline, Advances, Retained
<1>31. ASSUME NEW t \in Targets, CompleteTarget(t) PROVE run' = run /\ tgt' = tgt
    BY <1>31 DEF CompleteTarget, Advances, Retained
<1>32. CASE UNCHANGED vars
    BY <1>32 DEF vars
<1> HIDE DEF Ended, Runnable, Stoppable, catalog
<1> QED
    BY <1>1, <1>2, <1>3, <1>4, <1>5, <1>6, <1>7, <1>8, <1>9, <1>10, <1>11, <1>12,
       <1>13, <1>14, <1>15, <1>16, <1>17, <1>18, <1>19, <1>20, <1>21, <1>22, <1>23,
       <1>24, <1>25, <1>26, <1>27, <1>28, <1>29, <1>30, <1>31, <1>32,
       RunMoves DEF RunMoved

\* Only the completion of a target reports an outcome.
OutcomeFrame ==
    /\ \A u \in Targets :
         tgt'[u] \in {"SUCCEEDED", "SUCCEEDED_WITH_WARNINGS"} => tgt'[u] = tgt[u]
    /\ run' \in {"COMPLETED", "COMPLETED_WITH_WARNINGS"} => run' = run

\* Only the completion of a target gives it an outcome.
LEMMA OutcomeFrameStep ==
    ASSUME TypeOK, CycleShape, [Next]_vars
    PROVE  OutcomeFrame \/ \E t \in Targets : CompleteTarget(t)
<1> USE DEF TypeOK, CycleShape, OutcomeFrame, catalog
<1>1. CASE ReleaseCreatedRun
    BY <1>1 DEF ReleaseCreatedRun
<1>2. CASE PauseRun
    BY <1>2 DEF PauseRun, Command, StorePause
<1>3. CASE ResumeRun
    BY <1>3 DEF ResumeRun, Command, StoreResume
<1>4. CASE StopRun
    BY <1>4 DEF StopRun, Command, StoreStop
<1>5. CASE BindStop
    BY <1>5 DEF BindStop
<1>6. CASE ActivateStop
    BY <1>6 DEF ActivateStop, StoreActivateStop, ActivatedRun
<1>7. CASE ActivateConflict
    BY <1>7 DEF ActivateConflict
<1>8. CASE CancelPlanned
    BY <1>8 DEF CancelPlanned
<1>9. CASE ReleaseForStop
    BY <1>9 DEF ReleaseForStop
<1>10. CASE FinalizeStop
    BY <1>10 DEF FinalizeStop, StoreFinalizeStop, Open
<1>11. CASE ReleaseForPause
    BY <1>11 DEF ReleaseForPause
<1>12. CASE FinalizePause
    BY <1>12 DEF FinalizePause, StoreFinalizePause
<1>13. CASE PassChecks
    BY <1>13 DEF PassChecks
<1>14. CASE EndCycle
    BY <1>14 DEF EndCycle
<1>15. CASE BeginReacquire
    BY <1>15 DEF BeginReacquire
<1>16. CASE BeginStart
    BY <1>16 DEF BeginStart
<1>17. CASE StartExecution
    BY <1>17 DEF StartExecution, StoreExecutionStarted
<1>18. CASE BeginPreflight
    BY <1>18 DEF BeginPreflight, StoreBeginPreflight
<1>19. CASE AcquireLease
    BY <1>19 DEF AcquireLease
<1>20. CASE RecordLease
    BY <1>20 DEF RecordLease, StoreLeaseRecorded, LeaseRecordable
<1>21. CASE RecordWait
    BY <1>21 DEF RecordWait, StoreWaiting, LeaseRecordable
<1>22. CASE RequeueWaiting
    BY <1>22 DEF RequeueWaiting
<1>23. CASE PlanDone
    BY <1>23 DEF PlanDone
<1>24. CASE Crash
    BY <1>24 DEF Crash
<1>25. ASSUME NEW t \in Targets, RebindOp(t) PROVE OutcomeFrame \/ \E x \in Targets : CompleteTarget(x)
    BY <1>25 DEF RebindOp, Journaled
<1>26. ASSUME NEW t \in Targets, CommitOp(t) PROVE OutcomeFrame \/ \E x \in Targets : CompleteTarget(x)
    BY <1>26 DEF CommitOp, Journaled
<1>27. ASSUME NEW t \in Targets, PlanOps(t) PROVE OutcomeFrame \/ \E x \in Targets : CompleteTarget(x)
    BY <1>27 DEF PlanOps
<1>28. ASSUME NEW t \in Targets, CleanupOp(t) PROVE OutcomeFrame \/ \E x \in Targets : CompleteTarget(x)
    BY <1>28 DEF CleanupOp, Journaled
<1>29. ASSUME NEW t \in Targets, StageOp(t) PROVE OutcomeFrame \/ \E x \in Targets : CompleteTarget(x)
    BY <1>29 DEF StageOp, Journaled
<1>30. ASSUME NEW t \in Targets, StageOffline(t) PROVE OutcomeFrame \/ \E x \in Targets : CompleteTarget(x)
    BY <1>30 DEF StageOffline, Advances, Retained
<1>31. ASSUME NEW t \in Targets, CompleteTarget(t) PROVE OutcomeFrame \/ \E x \in Targets : CompleteTarget(x)
    BY <1>31
<1>32. CASE UNCHANGED vars
    BY <1>32 DEF vars
<1> HIDE DEF TypeOK, CycleShape, OutcomeFrame
<1> QED
    BY <1>1, <1>2, <1>3, <1>4, <1>5, <1>6, <1>7, <1>8, <1>9, <1>10, <1>11, <1>12,
       <1>13, <1>14, <1>15, <1>16, <1>17, <1>18, <1>19, <1>20, <1>21, <1>22, <1>23,
       <1>24, <1>25, <1>26, <1>27, <1>28, <1>29, <1>30, <1>31, <1>32,
       RunMoves DEF RunMoved

\* The outcome of a target is true of its files, that of the run of its targets.
LEMMA OutcomeStep ==
    ASSUME TypeOK, CycleShape, Outcomes, JournalFrame, [Next]_vars
    PROVE  Outcomes'
<1>1. \A o \in Ops :
         /\ phase[o] \in Done => phase'[o] \in Done
         /\ phase[o] \in Done \cup {"SKIPPED"} => phase'[o] \in Done \cup {"SKIPPED"}
    BY DEF JournalFrame, Forward, Done
<1>2. CASE OutcomeFrame
    <2>1. run' \in {"COMPLETED", "COMPLETED_WITH_WARNINGS"} => run' = run /\ tgt' = tgt
        BY <1>2, EndedStep DEF OutcomeFrame, Ended
    <2>2. ASSUME NEW t \in Targets
          PROVE  /\ tgt'[t] = "SUCCEEDED" => \A o \in OpsOf(t) : phase'[o] \in Done
                 /\ tgt'[t] = "SUCCEEDED_WITH_WARNINGS"
                      => \A o \in OpsOf(t) : phase'[o] \in Done \cup {"SKIPPED"}
        BY <1>1, <1>2, <2>2 DEF OutcomeFrame, Outcomes, OpsOf
    <2> QED
        BY <2>1, <2>2 DEF Outcomes, OpsOf
<1>3. ASSUME NEW t \in Targets, CompleteTarget(t) PROVE Outcomes'
    <2>1. run = "EXECUTING" /\ phase' = phase
        BY <1>3 DEF CompleteTarget, Advances, Retained, journal
    <2>2. CASE CompleteSuccess(t)
        <3>1. \A o \in OpsOf(t) : phase[o] \in Done
            BY <2>2, StepKinds, CompleteIsAll DEF CompleteSuccess, CatalogComplete
        <3>2. tgt' = [tgt EXCEPT ![t] = "SUCCEEDED"] /\ FinishIfLast(tgt')
            BY <2>2 DEF CompleteSuccess, StoreSucceeded
        <3> QED
            BY <2>1, <3>1, <3>2 DEF FinishIfLast, FinishedRun, Outcomes, OpsOf, TypeOK
    <2>3. CASE CompleteWithWarnings(t)
        <3>1. \A o \in OpsOf(t) : phase[o] \in Done \cup {"SKIPPED"}
            BY <2>3, StepKinds, CompleteIsAll DEF CompleteWithWarnings, SkippedReady
        <3>2. tgt' = [tgt EXCEPT ![t] = "SUCCEEDED_WITH_WARNINGS"] /\ FinishIfLast(tgt')
            BY <2>3 DEF CompleteWithWarnings, StoreSucceededWithWarnings
        <3> QED
            BY <2>1, <3>1, <3>2 DEF FinishIfLast, FinishedRun, Outcomes, OpsOf, TypeOK
    <2>4. CASE CompleteRecoveryRequired(t)
        BY <2>1, <2>4
        DEF CompleteRecoveryRequired, StoreRecoveryRequired, Outcomes, OpsOf, TypeOK
    <2> QED
        BY <1>3, <2>2, <2>3, <2>4 DEF CompleteTarget
<1> QED
    BY <1>2, <1>3, OutcomeFrameStep

\* A stop ends at the boundary, and nothing is begun for a cancelled run.
LEMMA CancelledStep ==
    ASSUME TypeOK, CycleShape, CancelledShape, [Next]_vars
    PROVE  CancelledShape'
<1> USE DEF TypeOK, CycleShape, CancelledShape, AtBoundary, catalog, journal, executor
<1>1. CASE ReleaseCreatedRun
    BY <1>1 DEF ReleaseCreatedRun
<1>2. CASE PauseRun
    BY <1>2 DEF PauseRun, StorePause
<1>3. CASE ResumeRun
    BY <1>3 DEF ResumeRun, StoreResume
<1>4. CASE StopRun
    BY <1>4 DEF StopRun
<1>5. CASE BindStop
    BY <1>5 DEF BindStop
<1>6. CASE ActivateStop
    BY <1>6 DEF ActivateStop, StoreActivateStop, ActivatedRun
<1>7. CASE ActivateConflict
    BY <1>7 DEF ActivateConflict
<1>8. CASE CancelPlanned
    BY <1>8 DEF CancelPlanned, executor
<1>9. CASE ReleaseForStop
    BY <1>9 DEF ReleaseForStop
<1>10. CASE FinalizeStop
    BY <1>10 DEF FinalizeStop, Back, StoreFinalizeStop
<1>11. CASE ReleaseForPause
    BY <1>11 DEF ReleaseForPause
<1>12. CASE FinalizePause
    BY <1>12 DEF FinalizePause, StoreFinalizePause
<1>13. CASE PassChecks
    BY <1>13 DEF PassChecks
<1>14. CASE EndCycle
    BY <1>14 DEF EndCycle, Back
<1>15. CASE BeginReacquire
    BY <1>15 DEF BeginReacquire
<1>16. CASE BeginStart
    BY <1>16 DEF BeginStart
<1>17. CASE StartExecution
    BY <1>17 DEF StartExecution, StoreExecutionStarted, Back
<1>18. CASE BeginPreflight
    BY <1>18 DEF BeginPreflight, StoreBeginPreflight
<1>19. CASE AcquireLease
    BY <1>19 DEF AcquireLease, Back
<1>20. CASE RecordLease
    BY <1>20 DEF RecordLease, Back
<1>21. CASE RecordWait
    BY <1>21 DEF RecordWait, Back
<1>22. CASE RequeueWaiting
    BY <1>22 DEF RequeueWaiting
<1>23. CASE PlanDone
    BY <1>23 DEF PlanDone, Back
<1>24. CASE Crash
    BY <1>24 DEF Crash, Back
<1>25. ASSUME NEW t \in Targets, RebindOp(t) PROVE CancelledShape'
    BY <1>25 DEF RebindOp, Advances, Retained, Journaled
<1>26. ASSUME NEW t \in Targets, CommitOp(t) PROVE CancelledShape'
    BY <1>26 DEF CommitOp, Advances, Retained, Journaled
<1>27. ASSUME NEW t \in Targets, PlanOps(t) PROVE CancelledShape'
    BY <1>27 DEF PlanOps, Advances, Retained
<1>28. ASSUME NEW t \in Targets, CleanupOp(t) PROVE CancelledShape'
    BY <1>28 DEF CleanupOp, Advances, Retained, Journaled
<1>29. ASSUME NEW t \in Targets, StageOp(t) PROVE CancelledShape'
    BY <1>29 DEF StageOp, Advances, Retained, Journaled
<1>30. ASSUME NEW t \in Targets, StageOffline(t) PROVE CancelledShape'
    BY <1>30 DEF StageOffline, Advances, Retained
<1>31. ASSUME NEW t \in Targets, CompleteTarget(t) PROVE CancelledShape'
    <2>1. run = "EXECUTING"
        BY <1>31 DEF CompleteTarget, Advances, Retained
    <2> QED
        BY <1>31, <2>1 DEF CompleteTarget, CompleteSuccess, CompleteWithWarnings,
           CompleteRecoveryRequired, StoreSucceeded, StoreSucceededWithWarnings,
           StoreRecoveryRequired, FinishIfLast, FinishedRun
<1>32. CASE UNCHANGED vars
    BY <1>32 DEF vars, executor
<1> HIDE DEF TypeOK, CycleShape, CancelledShape, AtBoundary
<1> QED
    BY <1>1, <1>2, <1>3, <1>4, <1>5, <1>6, <1>7, <1>8, <1>9, <1>10, <1>11, <1>12,
       <1>13, <1>14, <1>15, <1>16, <1>17, <1>18, <1>19, <1>20, <1>21, <1>22, <1>23,
       <1>24, <1>25, <1>26, <1>27, <1>28, <1>29, <1>30, <1>31, <1>32,
       RunMoves DEF RunMoved

-----------------------------------------------------------------------------
\* The initial states satisfy the invariant.
LEMMA RunInitInv == Init => RunInv
  BY DEF Init, RunInv, TypeOK, CycleShape, PauseShape, AttemptLeft, Outcomes,
         CancelledShape, RunStates, TargetStates, OpPhases

\* Every step keeps the invariant.
LEMMA InvStep == RunInv /\ [Next]_vars => RunInv'
  BY RunTypeStep, CycleStep, PauseShapeStep, JournalStep, AttemptStep, OutcomeStep,
     CancelledStep DEF RunInv

\* The invariant of the executor, the journal and the two user threads.
THEOREM RunInvariance == Spec => []RunInv
  BY RunInitInv, InvStep, PTL DEF Spec

\* Every variable keeps its type, and no file is tried more often than its budget
\* of staging attempts allows.
THEOREM RunTypeCorrect == Spec => []TypeOK
<1>1. RunInv => TypeOK
    BY DEF RunInv
<1> QED
    BY RunInvariance, <1>1, PTL

\* Whatever lease acquisition a pause falls into, a paused run retains no lease
\* (run_executor_cycle.py, RUN_PAUSED).
THEOREM PausesRelease == Spec => []PausedHoldsNoLease
<1>1. RunInv => PausedHoldsNoLease
    BY DEF RunInv, PauseShape, PausedHoldsNoLease
<1> QED
    BY RunInvariance, <1>1, PTL

\* However many targets and files there are, a run reported COMPLETED has all of
\* them in the catalog (record_run_target_succeeded).
THEOREM CompletedIsCopied == Spec => []CompletedMeansCopied
<1>1. RunInv => CompletedMeansCopied
    <2> SUFFICES ASSUME RunInv PROVE CompletedMeansCopied
        OBVIOUS
    <2>1. \A o \in Ops : TargetOf[o] \in Targets /\ o \in OpsOf(TargetOf[o])
        BY DEF OpsOf
    <2> QED
        BY <2>1 DEF RunInv, Outcomes, CompletedMeansCopied
<1> QED
    BY RunInvariance, <1>1, PTL

\* A stop leaves no file half way, whatever it fell into (run_stop.py,
\* _boundary_is_safe).
THEOREM StopsAtBoundary == Spec => []StoppedAtBoundary
<1>1. RunInv => StoppedAtBoundary
    BY DEF RunInv, CancelledShape, AtBoundary, StoppedAtBoundary
<1> QED
    BY RunInvariance, <1>1, PTL

\* No executor step that began before a run ended changes its rows afterwards.
THEOREM EndedRunsAreFinal == Spec => EndedRunsStay
<1>1. ASSUME [Next]_vars PROVE (run \in Ended) => (run' = run /\ tgt' = tgt)
    BY <1>1, EndedStep
<1> QED
    BY <1>1, PTL DEF Spec, EndedRunsStay

\* The journal of a file never goes back: no crash, pause or retry makes a file
\* that was verified, recorded or skipped one that is still to be staged
\* (recovery_operations.phase).
THEOREM JournalMovesOn == Spec => [][\A o \in Ops : Forward(o)]_vars
<1>1. ASSUME RunInv, [Next]_vars PROVE \A o \in Ops : Forward(o)
    BY <1>1, JournalStep DEF RunInv, JournalFrame
<1> QED
    BY RunInvariance, <1>1, PTL DEF Spec
=============================================================================
