------------------------------ MODULE Endpoints ------------------------------
(***************************************************************************)
(* The control area of one target folder and the installations that write  *)
(* to it.  Registering creates the area where there is none; a controlled  *)
(* takeover replaces the marker of another installation; a lease lets its  *)
(* holder change files.  Every installation has a catalog of its own: the  *)
(* binding of the target in the job's active revision, the last            *)
(* classification of the folder, intents, and the evidence of ownership.   *)
(*                                                                         *)
(* An intent is a small saga: PREPARED in the catalog, applied to the      *)
(* folder, FILESYSTEM_APPLIED, COMMITTED together with a new revision of   *)
(* job and endpoint.  Actor "cmd" is the thread that serves commands;      *)
(* actor "rec" is the reconciliation of open intents that runs when the    *)
(* host starts and again in its maintenance threads, while commands are    *)
(* served.  A marker is [owner, epoch, by]: by is the revision its intent  *)
(* was made for, and stands for control area id and checksum.              *)
(***************************************************************************)
EXTENDS Integers, FiniteSets

CONSTANTS Inst,         \* installations
          MaxRev,       \* bound: job revisions an intent is made for
          MaxTokens,    \* bound: leases granted per installation
          MaxEpFaults,  \* bound: failed operations, stops of a host, changes of a job
          MaxRounds     \* bound: reconciliations after the start

ASSUME EndpointAssumption == {MaxRev, MaxTokens, MaxEpFaults, MaxRounds} \subseteq Nat

VARIABLES
    area,    \* the control area: "absent", "ok" (marker valid) or "unknown"
    marker,  \* the marker in it
    staging, \* installation -> its private staging directory
    recov,   \* installations with recovery data in the area
    lock,    \* who holds mutation.lock
    ejob,    \* installation -> job: active revision and lifecycle
    bind,    \* installation -> registration state of the active binding
    obs,     \* installation -> last classification of the endpoint revision
    ev,      \* installation -> the marker its catalog has evidence of owning
    intent,  \* installation -> kind, source revision -> intent
    act,     \* installation -> actor -> what it is doing
    cls,     \* installation -> a classification read and not yet stored
    lease,   \* installation -> the lease its executor holds
    ctr,     \* installation -> its lease counter: epoch, last token
    granted, \* the last lease granted by anyone: epoch, token
    epFaults, rounds

epVars == <<area, marker, staging, recov, lock, ejob, bind, obs, ev, intent, act,
            cls, lease, ctr, granted, epFaults, rounds>>
fsVars == <<area, marker, staging>>
leaseVars == <<recov, lease, ctr, granted>>
catVars == <<ejob, bind, obs, ev, intent>>

Revs == 1..MaxRev
EpKinds == {"register", "takeover"}
Actors == {"cmd", "rec"}
NoMarker == [owner |-> 0, epoch |-> 0, by |-> 0]
NoIntent == [st |-> "none", old |-> NoMarker, err |-> FALSE]
IdleAct == [pc |-> "idle", k |-> "register", r |-> 0, old |-> NoMarker, todo |-> {}]
NoCls == [pc |-> "idle", saw |-> "none", m |-> NoMarker, gen |-> 0]
NoLease == [st |-> "none", epoch |-> 0]
NoObs == [saw |-> "none", m |-> NoMarker]
Free == <<0, "none">>

EpInit ==
    /\ area = "absent" /\ marker = NoMarker /\ staging = [i \in Inst |-> "none"]
    /\ recov = {} /\ lock = Free
    /\ ejob = [i \in Inst |-> [rev |-> 1, on |-> TRUE]]
    /\ bind = [i \in Inst |-> "REGISTRATION_PENDING"] /\ obs = [i \in Inst |-> NoObs]
    /\ ev = [i \in Inst |-> NoMarker]
    /\ intent = [i \in Inst |-> [k \in EpKinds |-> [r \in Revs |-> NoIntent]]]
    /\ act = [i \in Inst |-> [a \in Actors |-> IdleAct]] /\ cls = [i \in Inst |-> NoCls]
    /\ lease = [i \in Inst |-> NoLease]
    /\ ctr = [i \in Inst |-> [epoch |-> 0, tok |-> 0]]
    /\ granted = [epoch |-> 0, tok |-> 0] /\ epFaults = 0 /\ rounds = 0

EpFault == epFaults < MaxEpFaults /\ epFaults' = epFaults + 1

-----------------------------------------------------------------------------
(* Classification.                                                         *)

(* What the folder is to installation i. *)
Classified(i) == IF area = "absent" THEN "ABSENT"
                 ELSE IF area = "unknown" THEN "UNKNOWN"
                 ELSE IF marker.owner = i THEN "VALID_OWNED"
                 ELSE "VALID_FOREIGN"

(* What a classification makes of the target's binding.  A valid area of   *)
(* our own without evidence waits for a probe that only registering does.  *)
Decided(i, saw, m) ==
    CASE saw = "VALID_OWNED" /\ ev[i] = m -> "WRITABLE_READY"
      [] saw = "ABSENT" \/ (saw = "VALID_OWNED" /\ ev[i] # m) -> "REGISTRATION_PENDING"
      [] saw = "VALID_FOREIGN" -> "READ_ONLY_READY"
      [] OTHER -> "BLOCKED"

(* Classifying reads the folder outside a transaction; what was seen is     *)
(* stored for the endpoint revision it was read for, so a revision that was *)
(* committed meanwhile keeps what its commit said.                          *)
Classify(i) ==
    /\ cls[i].pc = "idle"
    /\ obs[i].saw # Classified(i) \/ obs[i].m # marker \/ bind[i] # Decided(i, obs[i].saw, obs[i].m)
    /\ cls' = [cls EXCEPT ![i] = [pc |-> "store", saw |-> Classified(i),
                                  m |-> IF area = "ok" THEN marker ELSE NoMarker, gen |-> ev[i].epoch]]
    /\ UNCHANGED <<fsVars, leaseVars, catVars, lock, act, epFaults, rounds>>

(* The folder cannot be read: the binding is blocked. *)
ClassifyFails(i) ==
    /\ cls[i].pc = "idle" /\ EpFault
    /\ cls' = [cls EXCEPT ![i] = [pc |-> "store", saw |-> "FAILED", m |-> NoMarker, gen |-> ev[i].epoch]]
    /\ UNCHANGED <<fsVars, leaseVars, catVars, lock, act, rounds>>

StoreClassification(i) ==
    /\ cls[i].pc = "store" /\ cls' = [cls EXCEPT ![i] = NoCls]
    /\ IF cls[i].gen = ev[i].epoch
       THEN /\ obs' = [obs EXCEPT ![i] = [saw |-> cls[i].saw, m |-> cls[i].m]]
            /\ bind' = [bind EXCEPT ![i] = Decided(i, cls[i].saw, cls[i].m)]
       ELSE UNCHANGED <<obs, bind>>
    /\ UNCHANGED <<fsVars, leaseVars, ejob, ev, intent, lock, act, epFaults, rounds>>

-----------------------------------------------------------------------------
(* Intents.                                                                *)

Goto(i, a, pc) == act' = [act EXCEPT ![i][a].pc = pc]
EndAct(i, a) == act' = [act EXCEPT ![i][a] =
                           IF a = "rec" THEN [IdleAct EXCEPT !.pc = "next", !.todo = act[i][a].todo]
                           ELSE IdleAct]
Mine(i, a) == intent[i][act[i][a].k][act[i][a].r]
Prepared(i, a) ==
    LET w == act[i][a] IN
    IF w.k = "register" THEN [owner |-> i, epoch |-> 1, by |-> w.r]
    ELSE [owner |-> i, epoch |-> w.old.epoch + 1, by |-> w.r]
Current(i, r) == ejob[i].on /\ ejob[i].rev = r
SetIntent(i, a, rec) == intent' = [intent EXCEPT ![i][act[i][a].k][act[i][a].r] = rec]

(* A registration is wanted for a pending target whose folder has no area; *)
(* a takeover for a target that a known other installation owns.           *)
RegisterCandidate(i, r) ==
    Current(i, r) /\ bind[i] = "REGISTRATION_PENDING" /\ obs[i].saw = "ABSENT"
TakeoverCandidate(i, r) ==
    Current(i, r) /\ bind[i] = "READ_ONLY_READY" /\ obs[i].saw = "VALID_FOREIGN" /\ lease[i].st = "none"

(* Preparing looks at the folder itself; for a takeover under the lock. *)
PrepareRegister(i) == area = "absent"
PrepareTakeover(i) == lock = Free /\ area = "ok" /\ marker = obs[i].m /\ marker.owner \notin recov

(* A command for revision r: an intent that exists is resumed. *)
StartCommand(i, k, r) ==
    /\ act[i]["cmd"].pc = "idle" /\ ejob[i].on
    /\ \/ /\ intent[i][k][r].st \in {"PREPARED", "FILESYSTEM_APPLIED"}
          /\ act' = [act EXCEPT ![i]["cmd"] = [IdleAct EXCEPT !.k = k, !.r = r, !.old = intent[i][k][r].old,
                        !.pc = IF intent[i][k][r].st = "PREPARED" THEN "apply" ELSE "commit"]]
       \/ /\ intent[i][k][r].st = "none"
          /\ CASE k = "register" -> RegisterCandidate(i, r) /\ PrepareRegister(i)
               [] k = "takeover" -> TakeoverCandidate(i, r) /\ PrepareTakeover(i)
          /\ act' = [act EXCEPT ![i]["cmd"] = [IdleAct EXCEPT !.k = k, !.r = r, !.pc = "save",
                        !.old = IF k = "takeover" THEN marker ELSE NoMarker]]
    /\ UNCHANGED <<fsVars, leaseVars, catVars, lock, cls, epFaults, rounds>>

(* The intent is stored when the binding is still what it was. *)
RegisterStill(i, r) == Current(i, r) /\ bind[i] = "REGISTRATION_PENDING"
TakeoverStill(i, r) == Current(i, r) /\ bind[i] = "READ_ONLY_READY" /\ lease[i].st = "none"

SaveIntent(i) ==
    LET w == act[i]["cmd"] IN
    /\ w.pc = "save"
    /\ IF IF w.k = "register" THEN RegisterStill(i, w.r) ELSE TakeoverStill(i, w.r)
       THEN SetIntent(i, "cmd", [st |-> "PREPARED", old |-> w.old, err |-> FALSE]) /\ Goto(i, "cmd", "apply")
       ELSE EndAct(i, "cmd") /\ UNCHANGED intent
    /\ UNCHANGED <<fsVars, leaseVars, ejob, bind, obs, ev, lock, cls, epFaults, rounds>>

(* A reconciliation takes the open intents of an active job one by one. *)
Open(i) == {kr \in EpKinds \X Revs : intent[i][kr[1]][kr[2]].st \in {"PREPARED", "FILESYSTEM_APPLIED"}}
BeginRound(i) ==
    /\ act[i]["rec"].pc = "idle" /\ rounds < MaxRounds /\ rounds' = rounds + 1
    /\ act' = [act EXCEPT ![i]["rec"].pc = "next", ![i]["rec"].todo = IF ejob[i].on THEN Open(i) ELSE {}]
    /\ UNCHANGED <<fsVars, leaseVars, catVars, lock, cls, epFaults>>

NextIntent(i) ==
    /\ act[i]["rec"].pc = "next"
    /\ \/ act[i]["rec"].todo = {} /\ act' = [act EXCEPT ![i]["rec"] = IdleAct]
       \/ \E kr \in act[i]["rec"].todo :
             act' = [act EXCEPT ![i]["rec"] =
                 [pc |-> IF intent[i][kr[1]][kr[2]].st = "PREPARED" THEN "apply" ELSE "commit",
                  k |-> kr[1], r |-> kr[2], old |-> intent[i][kr[1]][kr[2]].old, todo |-> act[i]["rec"].todo \ {kr}]]
    /\ UNCHANGED <<fsVars, leaseVars, catVars, lock, cls, epFaults, rounds>>

(* A failure is noted on an intent that is still open: one that a retry     *)
(* cannot mend blocks it, even if another thread has carried it on.         *)
Noted(in, blocked) ==
    IF in.st \in {"COMMITTED", "BLOCKED"} THEN in
    ELSE IF blocked THEN [NoIntent EXCEPT !.st = "BLOCKED"] ELSE [in EXCEPT !.err = TRUE]
Failed(i, a, blocked) == SetIntent(i, a, Noted(Mine(i, a), blocked)) /\ EndAct(i, a)
-----------------------------------------------------------------------------
(* Registering.                                                            *)

(* The revision and the roots are looked at before the folder is. *)
ApplyRegister(i, a) ==
    /\ act[i][a].pc = "apply" /\ act[i][a].k = "register"
    /\ IF ~Current(i, act[i][a].r) THEN Failed(i, a, TRUE) /\ UNCHANGED staging
       ELSE IF Classified(i) = "VALID_OWNED" /\ marker = Prepared(i, a)
            THEN Goto(i, a, "verify") /\ staging' = [staging EXCEPT ![i] = "none"] /\ UNCHANGED intent
       ELSE IF Classified(i) = "ABSENT" THEN Goto(i, a, "stage") /\ UNCHANGED <<intent, staging>>
       ELSE Failed(i, a, TRUE) /\ UNCHANGED staging
    /\ UNCHANGED <<area, marker, leaseVars, ejob, bind, obs, ev, lock, cls, epFaults, rounds>>

(* Files are created exclusively and compared when they are there already: *)
(* a file torn by a stop of the host is refused for good.                  *)
MaterializeStaging(i, a) ==
    /\ act[i][a].pc = "stage"
    /\ IF staging[i] = "torn" THEN Failed(i, a, TRUE) /\ UNCHANGED staging
       ELSE staging' = [staging EXCEPT ![i] = "complete"] /\ Goto(i, a, "publish") /\ UNCHANGED intent
    /\ UNCHANGED <<area, marker, leaseVars, ejob, bind, obs, ev, lock, cls, epFaults, rounds>>

(* One rename publishes the area where there is none. *)
PublishArea(i, a) ==
    /\ act[i][a].pc = "publish"
    /\ IF area # "absent" THEN Failed(i, a, TRUE) /\ UNCHANGED fsVars
       ELSE IF staging[i] # "complete" THEN Failed(i, a, FALSE) /\ UNCHANGED fsVars
       ELSE /\ area' = "ok" /\ marker' = Prepared(i, a)
            /\ staging' = [staging EXCEPT ![i] = "none"]
            /\ Goto(i, a, "verify") /\ UNCHANGED intent
    /\ UNCHANGED <<leaseVars, ejob, bind, obs, ev, lock, cls, epFaults, rounds>>

(* The published area is classified again and probed. *)
VerifyArea(i, a) ==
    /\ act[i][a].pc = "verify" /\ act[i][a].k = "register"
    /\ IF area = "ok" /\ marker = Prepared(i, a) THEN Goto(i, a, "mark") /\ UNCHANGED intent
       ELSE Failed(i, a, TRUE)
    /\ UNCHANGED <<fsVars, leaseVars, ejob, bind, obs, ev, lock, cls, epFaults, rounds>>

-----------------------------------------------------------------------------
(* Taking over.                                                            *)

(* Under the lock: no recovery data of the other installation, and the      *)
(* marker is the one that was confirmed, or our own from an earlier try.    *)
\* Mutant: the lock is not asked for.
ApplyTakeoverUnlocked(i, a) ==
    /\ act[i][a].pc = "apply" /\ act[i][a].k = "takeover"
    /\ IF act[i][a].old.owner \in recov THEN Failed(i, a, TRUE) /\ UNCHANGED lock
       ELSE IF area = "ok" /\ marker = Prepared(i, a)
            THEN UNCHANGED lock /\ Goto(i, a, "verify") /\ UNCHANGED intent
       ELSE IF area = "ok" /\ marker = act[i][a].old
            THEN UNCHANGED lock /\ Goto(i, a, "replace") /\ UNCHANGED intent
       ELSE Failed(i, a, TRUE) /\ UNCHANGED lock
    /\ UNCHANGED <<fsVars, leaseVars, ejob, bind, obs, ev, cls, epFaults, rounds>>
ApplyTakeover(i, a) ==
    /\ act[i][a].pc = "apply" /\ act[i][a].k = "takeover"
    /\ IF lock # Free THEN Failed(i, a, FALSE) /\ UNCHANGED lock
       ELSE IF act[i][a].old.owner \in recov THEN Failed(i, a, TRUE) /\ UNCHANGED lock
       ELSE IF area = "ok" /\ marker = Prepared(i, a)
            THEN lock' = <<i, a>> /\ Goto(i, a, "verify") /\ UNCHANGED intent
       ELSE IF area = "ok" /\ marker = act[i][a].old
            THEN lock' = <<i, a>> /\ Goto(i, a, "replace") /\ UNCHANGED intent
       ELSE Failed(i, a, TRUE) /\ UNCHANGED lock
    /\ UNCHANGED <<fsVars, leaseVars, ejob, bind, obs, ev, cls, epFaults, rounds>>

ReplaceMarker(i, a) ==
    /\ act[i][a].pc = "replace" /\ marker' = Prepared(i, a)
    /\ Goto(i, a, "verify")
    /\ UNCHANGED <<area, staging, leaseVars, catVars, lock, cls, epFaults, rounds>>

VerifyTakeover(i, a) ==
    /\ act[i][a].pc = "verify" /\ act[i][a].k = "takeover"
    /\ lock' = (IF lock = <<i, a>> THEN Free ELSE lock) /\ Goto(i, a, "mark")
    /\ UNCHANGED <<fsVars, leaseVars, catVars, cls, epFaults, rounds>>

-----------------------------------------------------------------------------
(* Both sagas.                                                             *)

MarkApplied(i, a) ==
    /\ act[i][a].pc = "mark"
    /\ IF Mine(i, a).st = "FILESYSTEM_APPLIED" THEN Goto(i, a, "commit") /\ UNCHANGED intent
       ELSE IF Mine(i, a).st # "PREPARED" THEN Failed(i, a, FALSE)
       ELSE IF ~Current(i, act[i][a].r) THEN Failed(i, a, TRUE)
       ELSE SetIntent(i, a, [Mine(i, a) EXCEPT !.st = "FILESYSTEM_APPLIED"]) /\ Goto(i, a, "commit")
    /\ UNCHANGED <<fsVars, leaseVars, ejob, bind, obs, ev, lock, cls, epFaults, rounds>>

(* A commit makes a revision of the endpoint, with its evidence, and of the *)
(* job, with a writable binding.                                            *)
NewEndpointRevision(i, a) == ev' = [ev EXCEPT ![i] = Prepared(i, a)] /\ obs' = [obs EXCEPT ![i] = NoObs]
NewJobRevision(i) == ejob' = [ejob EXCEPT ![i].rev = @ + 1] /\ bind' = [bind EXCEPT ![i] = "WRITABLE_READY"]
CommitReady(i, a) == Mine(i, a).st = "FILESYSTEM_APPLIED"

(* One transaction for both revisions and the intent.  The job's revision   *)
(* must still be the one the intent was made for.                           *)
CommitIntent(i, a) ==
    /\ act[i][a].pc = "commit"
    /\ IF Mine(i, a).st = "COMMITTED" THEN EndAct(i, a) /\ UNCHANGED <<ejob, bind, obs, ev, intent>>
       ELSE IF ~CommitReady(i, a) THEN Failed(i, a, FALSE) /\ UNCHANGED <<ejob, bind, obs, ev>>
       ELSE IF ~Current(i, act[i][a].r) THEN Failed(i, a, TRUE) /\ UNCHANGED <<ejob, bind, obs, ev>>
       ELSE /\ NewEndpointRevision(i, a) /\ NewJobRevision(i)
            /\ SetIntent(i, a, [NoIntent EXCEPT !.st = "COMMITTED"]) /\ EndAct(i, a)
    /\ UNCHANGED <<fsVars, leaseVars, lock, cls, epFaults, rounds>>

(* A file operation, or the catalog, fails: to be retried by another        *)
(* command or the next start.                                               *)
StepFails(i, a) ==
    /\ act[i][a].pc \in {"apply", "stage", "publish", "replace", "verify", "mark", "commit"} /\ EpFault
    /\ Failed(i, a, FALSE)
    /\ lock' = IF lock = <<i, a>> THEN Free ELSE lock
    /\ staging' \in {staging, IF act[i][a].pc = "stage" /\ staging[i] = "none"
                              THEN [staging EXCEPT ![i] = "partial"] ELSE staging}
    /\ UNCHANGED <<area, marker, leaseVars, ejob, bind, obs, ev, cls, rounds>>

(* The thread that serves commands edits the job, archives or reactivates   *)
(* it between two other commands.  A new revision keeps the endpoint        *)
(* revision and waits for the next classification.                          *)
EditJob(i) ==
    /\ act[i]["cmd"].pc = "idle" /\ ejob[i].on /\ ejob[i].rev < MaxRev /\ EpFault
    /\ ejob' = [ejob EXCEPT ![i].rev = @ + 1]
    /\ bind' = [bind EXCEPT ![i] = "REGISTRATION_PENDING"]
    /\ UNCHANGED <<fsVars, leaseVars, obs, ev, intent, lock, act, cls, rounds>>

ToggleJob(i) ==
    /\ act[i]["cmd"].pc = "idle" /\ EpFault
    /\ ejob' = [ejob EXCEPT ![i].on = ~@]
    /\ UNCHANGED <<fsVars, leaseVars, bind, obs, ev, intent, lock, act, cls, rounds>>

(* Somebody else puts a directory where the control area would go. *)
ForeignArea ==
    /\ area = "absent" /\ EpFault /\ area' = "unknown"
    /\ UNCHANGED <<marker, staging, leaseVars, catVars, lock, act, cls, rounds>>

-----------------------------------------------------------------------------
(* Leases.                                                                 *)

(* The token a lease of the given epoch gets, 0 when it is refused: the     *)
(* counter of this installation never goes back to an older epoch.          *)
Token(i, epoch) ==
    CASE ctr[i].epoch > epoch -> 0
      [] ctr[i].epoch < epoch -> 1
      [] OTHER -> ctr[i].tok + 1

(* Under the lock the marker must be the one the catalog has evidence of.   *)
MarkerIdentity(i) == area = "ok" /\ ev[i] # NoMarker /\ marker = ev[i]

(* The lease is granted under the lock, for the epoch of the marker. *)
AcquireLease(i) ==
    /\ lease[i].st = "none" /\ lock = Free /\ bind[i] = "WRITABLE_READY" /\ MarkerIdentity(i)
    /\ LET t == Token(i, marker.epoch) IN
       /\ t \in 1..MaxTokens
       /\ ctr' = [ctr EXCEPT ![i] = [epoch |-> marker.epoch, tok |-> t]]
       /\ granted' = [epoch |-> marker.epoch, tok |-> t]
    /\ lock' = <<i, "run">> 
    /\ lease' = [lease EXCEPT ![i] = [st |-> "held", epoch |-> marker.epoch]]
    /\ UNCHANGED <<fsVars, recov, catVars, act, cls, epFaults, rounds>>

(* A release closes the lock; a row that a stop of the host leaves behind   *)
(* ACQUIRED is released by the next acquisition, under the lock.            *)
ReleaseLease(i) ==
    /\ lease[i].st = "held" /\ lock' = Free /\ lease' = [lease EXCEPT ![i] = NoLease]
    /\ UNCHANGED <<fsVars, recov, ctr, granted, catVars, act, cls, epFaults, rounds>>

(* The executor leaves recovery data in the area and removes it when the    *)
(* operation is settled.                                                    *)
TouchRecovery(i) ==
    /\ lease[i].st = "held"
    /\ recov' = IF i \in recov THEN recov \ {i} ELSE recov \cup {i}
    /\ UNCHANGED <<fsVars, lease, ctr, granted, catVars, lock, act, cls, epFaults, rounds>>

(* The host stops and starts: handles are gone, a file it was writing may   *)
(* be torn, the row stays; open intents are reconciled.                     *)
HostStops(i) ==
    /\ EpFault
    /\ act' = [act EXCEPT ![i] = [a \in Actors |->
           IF a = "rec" THEN [IdleAct EXCEPT !.pc = "next", !.todo = IF ejob[i].on THEN Open(i) ELSE {}]
           ELSE IdleAct]]
    /\ staging' \in {[staging EXCEPT ![i] = s] :
           s \in {staging[i]} \cup (IF staging[i] = "none" /\ \E a \in Actors : act[i][a].pc = "stage"
                                   THEN {"partial", "torn", "complete"} ELSE {})}
    /\ lock' = IF lock[1] = i THEN Free ELSE lock
    /\ lease' = [lease EXCEPT ![i] = NoLease] /\ cls' = [cls EXCEPT ![i] = NoCls]
    /\ UNCHANGED <<area, marker, recov, ctr, granted, catVars, rounds>>

EpStep(i, a) ==
    \/ ApplyRegister(i, a) \/ MaterializeStaging(i, a) \/ PublishArea(i, a) \/ VerifyArea(i, a)
    \/ ApplyTakeover(i, a) \/ ReplaceMarker(i, a) \/ VerifyTakeover(i, a)
    \/ MarkApplied(i, a) \/ CommitIntent(i, a)

EpInst(i) ==
    \/ Classify(i) \/ ClassifyFails(i) \/ StoreClassification(i)
    \/ \E k \in EpKinds, r \in Revs : StartCommand(i, k, r)
    \/ SaveIntent(i) \/ BeginRound(i) \/ NextIntent(i)
    \/ \E a \in Actors : EpStep(i, a) \/ StepFails(i, a)
    \/ EditJob(i) \/ ToggleJob(i)
    \/ AcquireLease(i) \/ ReleaseLease(i) \/ TouchRecovery(i)
    \/ HostStops(i)

EpNext == (\E i \in Inst : EpInst(i)) \/ ForeignArea
EpSpec == EpInit /\ [][EpNext]_epVars

(* Both threads of a running host go on with what they have begun. *)
EpFairness ==
    \A i \in Inst : /\ WF_epVars(NextIntent(i)) /\ WF_epVars(SaveIntent(i))
                    /\ \A a \in Actors : WF_epVars(EpStep(i, a))

-----------------------------------------------------------------------------
(* Properties.                                                             *)

(* Values of the variables. *)
EpTypeOK ==
    /\ area \in {"absent", "ok", "unknown"} /\ (area = "ok") = (marker # NoMarker)
    /\ \A i \in Inst : /\ staging[i] \in {"none", "partial", "torn", "complete"}
                       /\ bind[i] \in {"REGISTRATION_PENDING", "WRITABLE_READY", "READ_ONLY_READY", "BLOCKED"}
                       /\ ejob[i].rev \in 1..(MaxRev + 1) /\ lease[i].st \in {"none", "held"}
                       /\ \A k \in EpKinds, r \in Revs :
                             intent[i][k][r].st \in {"none", "PREPARED", "FILESYSTEM_APPLIED", "COMMITTED", "BLOCKED"}
    /\ recov \subseteq Inst /\ lock[1] \in Inst \cup {0}

(* Whoever holds a lease is named by the marker in the folder, with the     *)
(* epoch of the lease, for as long as it holds it: no registration, retry   *)
(* or takeover by anyone replaces the marker of a writer.                   *)
WriterOwnsMarker ==
    \A i \in Inst : lease[i].st = "held" => /\ area = "ok" /\ marker.owner = i /\ marker.epoch = lease[i].epoch
                                            /\ lock = <<i, "run">>

(* Leases of one folder are ordered whoever grants them: a later lease has  *)
(* a later epoch, or the same epoch and a higher token, although every      *)
(* installation counts in a database of its own.                            *)
GrantsFenced ==
    [][(\E i \in Inst : lease[i].st # "held" /\ lease'[i].st = "held") =>
       \/ granted'.epoch > granted.epoch
       \/ granted'.epoch = granted.epoch /\ granted'.tok > granted.tok]_epVars

(* The marker changes in two ways only: an area appears where there was     *)
(* none, in epoch 1; or a confirmed takeover replaces the marker of an      *)
(* owner that has left no recovery data behind, with the next epoch.        *)
OwnershipMoves ==
    [][(marker' # marker) =>
       \/ area = "absent" /\ marker'.epoch = 1
       \/ /\ area = "ok" /\ marker.owner \notin recov /\ marker'.owner # marker.owner
          /\ marker'.epoch = marker.epoch + 1]_epVars

(* The evidence in a catalog is of a marker that was really published, and  *)
(* only a takeover of a later epoch can have replaced it.                   *)
EvidenceWasPublished ==
    \A i \in Inst : ev[i] # NoMarker =>
        /\ ev[i].owner = i /\ area = "ok"
        /\ marker = ev[i] \/ marker.epoch > ev[i].epoch

(* An intent that was stored is carried to an end: it is committed, or      *)
(* blocked, or an error that a retry may mend is on record, or the job is   *)
(* archived; no thread leaves it open without a word.  (Stated of a         *)
(* registration by the first installation and a takeover by the second.)    *)
Concludes(i, k, r) ==
    []<>(intent[i][k][r].st \in {"none", "COMMITTED", "BLOCKED"} \/ intent[i][k][r].err \/ ~ejob[i].on)
IntentSettles == \A i \in Inst : Concludes(i, IF i = 1 THEN "register" ELSE "takeover", i)
=============================================================================
