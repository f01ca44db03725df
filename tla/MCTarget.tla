------------------------------ MODULE MCTarget ------------------------------
(* What the host does to a target, one side of it in each behaviour: recovery *)
(* intent segments, staging, directories, and the ownership of the target     *)
(* (its first registration, and a takeover by a second installation).  What a *)
(* behaviour is not about is at rest.                                         *)
EXTENDS Target

VARIABLE part
mcVars == <<sgVars, tfVars, dirVars, epVars, part>>

(* Everything is staged and verified. *)
TfRest ==
    /\ sphase = [o \in TfOps |-> "STAGING_VERIFIED"]
    /\ sfails = [o \in TfOps |-> 0] /\ timer = {}
    /\ payload = [o \in TfOps |-> IF o \in DirOps THEN "marker" ELSE "plan"] /\ fp = payload
    /\ src = [o \in TfOps |-> IF o \in DirOps THEN None ELSE "plan"]
    /\ met = TfOps /\ inbox = [o \in TfOps |-> {}] /\ waits = FALSE
    /\ at = "idle" /\ batch = {} /\ child = None /\ stray = Never /\ recent = {}
    /\ online = TRUE /\ tfaults = 0 /\ tevents = 0

(* A metadata change is finished. *)
DirRest ==
    /\ dkind = "METADATA" /\ dph = "NONE" /\ dj = Last(dkind) /\ rj = Unrecorded
    /\ mcat = TRUE /\ fin = "empty" /\ staged = FALSE /\ qp = "none" /\ qm = FALSE
    /\ mtime = "want" /\ dpc = "idle" /\ held = 0 /\ open = FALSE
    /\ rec = [t \in DirThreads |-> PassDue]
    /\ made = TRUE /\ trouble = {} /\ devents = 0 /\ dfaults = 0

(* The target is installation 1's, which has used it; installation 2 may     *)
(* take it over.                                                             *)
Registered == [owner |-> 1, epoch |-> 1, by |-> 1]
TakeoverInit ==
    /\ area = "ok" /\ marker = Registered /\ staging = [i \in Inst |-> "none"]
    /\ recov = {} /\ lock = Free
    /\ ejob = [i \in Inst |-> [rev |-> MaxRev, on |-> TRUE]]
    /\ bind = [i \in Inst |-> IF i = 1 THEN "WRITABLE_READY" ELSE "READ_ONLY_READY"]
    /\ obs = [i \in Inst |-> [saw |-> IF i = 1 THEN "VALID_OWNED" ELSE "VALID_FOREIGN", m |-> Registered]]
    /\ ev = [i \in Inst |-> IF i = 1 THEN Registered ELSE NoMarker]
    /\ intent = [i \in Inst |-> [k \in EpKinds |-> [r \in Revs |-> NoIntent]]]
    /\ act = [i \in Inst |-> [a \in Actors |-> IdleAct]] /\ cls = [i \in Inst |-> NoCls]
    /\ lease = [i \in Inst |-> NoLease]
    /\ ctr = [i \in Inst |-> [epoch |-> IF i = 1 THEN 1 ELSE 0, tok |-> 1]]
    /\ granted = [epoch |-> 1, tok |-> 1]
    /\ epFaults = MaxEpFaults - 1 /\ rounds = MaxRounds

Init ==
    /\ part \in {"segments", "staging", "directories", "register", "takeover"}
    /\ SgInit
    /\ IF part = "staging" THEN TfInit ELSE TfRest
    /\ IF part = "directories" THEN DirInit ELSE DirRest
    /\ IF part = "takeover" THEN TakeoverInit ELSE EpInit

(* A step of the part the behaviour is about. *)
OfPart(segment, stage, directory, endpoint) ==
    \/ part = "segments" /\ segment /\ UNCHANGED <<tfVars, dirVars, epVars, part>>
    \/ part = "staging" /\ stage /\ UNCHANGED <<sgVars, dirVars, epVars, part>>
    \/ part = "directories" /\ directory /\ UNCHANGED <<sgVars, tfVars, epVars, part>>
    \/ part \in {"register", "takeover"} /\ endpoint /\ UNCHANGED <<sgVars, tfVars, dirVars, part>>

(* Only installation 1 registers. *)
Installations == IF part = "takeover" THEN Inst ELSE {1}
EpSide == (\E i \in Installations : EpInst(i)) \/ ForeignArea

Next == OfPart(SgNext, TfNext, DirNext, EpSide)

(* The fairness of each module, for the behaviours that are about it.  A     *)
(* behaviour is about one part, so a condition may name a step of each part. *)
LiveSpec ==
    /\ Init /\ [][Next]_mcVars
    /\ WF_mcVars(OfPart(ExecStep, TfExecutor, DirExecutor, NextIntent(1)))
    /\ WF_mcVars(OfPart(ScanStep("exec"), LinkFails, Reconciler("main"), SaveIntent(1)))
    /\ WF_mcVars(OfPart(ScanStep("other"), TfChild, Reconciler("executor"), EpStep(1, "cmd")))
    /\ WF_mcVars(OfPart(FALSE, StrayEnds, Reconciler("scheduler"), EpStep(1, "rec")))
    /\ WF_mcVars(OfPart(FALSE, Reconnect, FALSE, NextIntent(2)))
    /\ WF_mcVars(OfPart(FALSE, Requeue, FALSE, SaveIntent(2)))
    /\ WF_mcVars(OfPart(FALSE, Due(1), FALSE, EpStep(2, "cmd")))
    /\ WF_mcVars(OfPart(FALSE, Due(2), FALSE, EpStep(2, "rec")))
    /\ WF_mcVars(OfPart(FALSE, Due(3), FALSE, FALSE))

(* What was begun on a target ends: segments, staging, directories, intents. *)
TargetSettles == SegmentsSettle /\ Settles /\ DirectoryFinishes /\ IntentSettles
=============================================================================
