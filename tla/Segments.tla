------------------------------ MODULE Segments -------------------------------
(***************************************************************************)
(* Recovery intent segments of one run target.  Before the executor moves  *)
(* staged files to their place it publishes a document in the target's     *)
(* control area, then a row in the recovery database, and then binds the   *)
(* operations to it one by one.  When all operations are terminal it       *)
(* removes the documents again.  Every thread that builds a runtime first  *)
(* reconciles documents with rows; the executor only works if its own      *)
(* reconciliation found nothing it could not explain.                      *)
(*                                                                         *)
(* The hash of a segment covers its operations and the lease it was made   *)
(* under, so a segment is [ops, lease, prev] with prev the hash of the     *)
(* segment before it.                                                      *)
(***************************************************************************)
EXTENDS Integers, FiniteSets

CONSTANTS SgOps,       \* the operations of the run target
          MaxSeq,      \* bound: last sequence number
          MaxSgLeases, \* bound: leases acquired
          MaxSgFaults  \* bound: crashes, database errors and lost documents

ASSUME SegmentAssumption == {MaxSeq, MaxSgLeases, MaxSgFaults} \subseteq Nat

VARIABLES
    ph,      \* operation -> "EARLY", "STAGED", "INTENT" or "TERMINAL"
    bound,   \* operation -> sequence of the segment it is bound to, or -1
    olease,  \* operation -> the lease it is bound to
    doc,     \* sequence -> the document on the target
    srow,    \* sequence -> the row in the recovery database
    holds,   \* does the executor hold a lease?
    leaseNo, \* the last lease acquired
    exec,    \* the executor: what it does, for which segment
    scan,    \* thread -> what its reconciliation has seen and found
    safe,    \* may the executor work?
    lost,    \* documents that disappeared from the target
    sgFaults

sgVars == <<ph, bound, olease, doc, srow, holds, leaseNo, exec, scan, safe, lost, sgFaults>>
opVars == <<ph, bound, olease>>

Seqs == 0..MaxSeq
SgThreads == {"exec", "other"}
NoHash == [ops |-> {}, lease |-> 0]
NoSeg == [ops |-> {}, lease |-> 0, prev |-> NoHash]
NoRow == [seg |-> NoSeg, st |-> "none"]
HashOf(seg) == [ops |-> seg.ops, lease |-> seg.lease]
IdleExec == [pc |-> "idle", s |-> 0, seg |-> NoSeg, ops |-> {}]
NewScan == [pc |-> "scan", seen |-> {}, found |-> {}, ok |-> TRUE]
AllTerminal == \A o \in SgOps : ph[o] = "TERMINAL"

SgInit ==
    /\ ph = [o \in SgOps |-> "EARLY"] /\ bound = [o \in SgOps |-> -1] /\ olease = [o \in SgOps |-> 1]
    /\ doc = [s \in Seqs |-> NoSeg] /\ srow = [s \in Seqs |-> NoRow]
    /\ holds = TRUE /\ leaseNo = 1 /\ exec = IdleExec
    /\ scan = [t \in SgThreads |-> [NewScan EXCEPT !.pc = IF t = "exec" THEN "done" ELSE "scan"]]
    /\ safe = TRUE /\ lost = {} /\ sgFaults = 0

SgFault == sgFaults < MaxSgFaults /\ sgFaults' = sgFaults + 1

-----------------------------------------------------------------------------
(* The store.                                                              *)

(* The next segment of this run target follows the latest row. *)
Latest == {s \in Seqs : srow[s].st # "none" /\ \A u \in Seqs : srow[u].st # "none" => u <= s}
NextSeq == IF Latest = {} THEN 0 ELSE 1 + (CHOOSE s \in Latest : TRUE)
LatestHash == IF Latest = {} THEN NoHash ELSE HashOf(srow[CHOOSE s \in Latest : TRUE].seg)
Chained(s, seg) ==
    IF s = 0 THEN seg.prev = NoHash ELSE srow[s - 1].st # "none" /\ seg.prev = HashOf(srow[s - 1].seg)

(* A row is published under the lease that is held, imported under any      *)
(* lease there ever was.                                                    *)
MayPublish(s, seg) ==
    \/ srow[s] = [seg |-> seg, st |-> "DURABLE"]
    \/ srow[s].st = "none" /\ holds /\ seg.lease = leaseNo /\ Chained(s, seg)
\* Mutant: an import asks for an active lease.
MayImportActive(s, seg) == srow[s].st = "none" /\ holds /\ seg.lease = leaseNo /\ Chained(s, seg)
MayImport(s, seg) ==
    \/ srow[s] = [seg |-> seg, st |-> "DURABLE"]
    \/ srow[s].st = "none" /\ seg.lease \in 1..leaseNo /\ Chained(s, seg)

\* Mutant: only the operations of the segment count.
ReadyOwn(s) == srow[s].st = "DURABLE" /\ \A o \in srow[s].seg.ops : ph[o] = "TERMINAL"
(* A segment is reconciled when every operation of the run target is       *)
(* terminal, and some operation is bound to it or a later segment follows. *)
ReconciliationReady(s) ==
    /\ srow[s].st = "DURABLE" /\ AllTerminal
    /\ \/ \E o \in SgOps : bound[o] = s
       \/ \E u \in Seqs : u > s /\ srow[u].st # "none" /\ srow[u].seg.prev = HashOf(srow[s].seg)

(* A document that is gone is no loss once all operations are terminal. *)
FinalizesMissing(s) ==
    srow[s].st \in {"DURABLE", "RECONCILED"} /\ AllTerminal /\ \E o \in SgOps : bound[o] = s

-----------------------------------------------------------------------------
(* The executor.                                                           *)

Working == safe /\ scan["exec"].pc = "done" /\ holds /\ exec.pc = "idle"
StagedOps == {o \in SgOps : ph[o] = "STAGED"}
InPhase(p) == {o \in SgOps : ph[o] = p}

(* The first segment whose row is not CLEANED is cleaned up step by step. *)
Lifecycle == {s \in Seqs : srow[s].st \in {"DURABLE", "RECONCILED", "CLEANUP_ELIGIBLE"}}
FirstOf(S) == CHOOSE s \in S : \A u \in S : s <= u
SetRow(s, st) == srow' = [srow EXCEPT ![s].st = st]

(* The document is only removed if it is the one the row describes; that   *)
(* it is gone is seen in the next cycle.                                   *)
RemoveDocument(s) ==
    IF doc[s] = NoSeg THEN SetRow(s, "CLEANED") /\ UNCHANGED doc
    ELSE /\ doc[s] = srow[s].seg /\ doc' = [doc EXCEPT ![s] = NoSeg] /\ UNCHANGED srow

CleanupStep ==
    /\ Working /\ Lifecycle # {}
    /\ LET s == FirstOf(Lifecycle) IN
       \/ ReconciliationReady(s) /\ SetRow(s, "RECONCILED") /\ UNCHANGED doc
       \/ srow[s].st = "RECONCILED" /\ SetRow(s, "CLEANUP_ELIGIBLE") /\ UNCHANGED doc
       \/ srow[s].st = "CLEANUP_ELIGIBLE" /\ RemoveDocument(s)
    /\ UNCHANGED <<opVars, holds, leaseNo, exec, scan, safe, lost, sgFaults>>

(* A bound operation is committed under the lease it is bound to. *)
CommitOperation(o) ==
    /\ Working /\ ph[o] = "INTENT" /\ olease[o] = leaseNo /\ ph' = [ph EXCEPT ![o] = "TERMINAL"]
    /\ UNCHANGED <<bound, olease, doc, srow, holds, leaseNo, exec, scan, safe, lost, sgFaults>>

(* A segment is fixed before it is written anywhere. *)
Building(ops) == [ops |-> ops, lease |-> leaseNo, prev |-> LatestHash]
Publishing(ops) == [pc |-> "document", s |-> NextSeq, seg |-> Building(ops), ops |-> ops]

(* A bound operation of an older lease gets a segment of its own. *)
RefreshIntent(o) ==
    /\ Working /\ ph[o] = "INTENT" /\ olease[o] # leaseNo
    /\ srow[bound[o]].st # "none" /\ o \in srow[bound[o]].seg.ops /\ NextSeq \in Seqs
    /\ exec' = Publishing({o})
    /\ UNCHANGED <<opVars, doc, srow, holds, leaseNo, scan, safe, lost, sgFaults>>

(* An operation that is not bound yet takes the new lease. *)
RebindLease(o) ==
    /\ Working /\ ph[o] \in {"EARLY", "STAGED"} /\ olease[o] # leaseNo /\ InPhase("INTENT") = {}
    /\ olease' = [olease EXCEPT ![o] = leaseNo]
    /\ UNCHANGED <<ph, bound, doc, srow, holds, leaseNo, exec, scan, safe, lost, sgFaults>>

(* All staged operations go into one segment. *)
PublishSegment ==
    /\ Working /\ InPhase("INTENT") = {} /\ StagedOps # {} /\ NextSeq \in Seqs
    /\ \A o \in SgOps : ph[o] \in {"EARLY", "STAGED"} => olease[o] = leaseNo
    /\ exec' = Publishing(StagedOps)
    /\ UNCHANGED <<opVars, doc, srow, holds, leaseNo, scan, safe, lost, sgFaults>>

StageOperation(o) ==
    /\ Working /\ ph[o] = "EARLY" /\ olease[o] = leaseNo /\ InPhase("INTENT") = {} /\ StagedOps = {}
    /\ ph' = [ph EXCEPT ![o] = "STAGED"]
    /\ UNCHANGED <<bound, olease, doc, srow, holds, leaseNo, exec, scan, safe, lost, sgFaults>>

(* The document is renamed into place without overwriting: one that is      *)
(* there already must be the same.                                          *)
PublishDocument ==
    /\ exec.pc = "document"
    /\ IF doc[exec.s] = NoSeg \/ doc[exec.s] = exec.seg
       THEN doc' = [doc EXCEPT ![exec.s] = exec.seg] /\ exec' = [exec EXCEPT !.pc = "row"]
       ELSE exec' = IdleExec /\ UNCHANGED doc
    /\ UNCHANGED <<opVars, srow, holds, leaseNo, scan, safe, lost, sgFaults>>

PublishRow ==
    /\ exec.pc = "row"
    /\ IF MayPublish(exec.s, exec.seg)
       THEN srow' = [srow EXCEPT ![exec.s] = [seg |-> exec.seg, st |-> "DURABLE"]]
            /\ exec' = [exec EXCEPT !.pc = "bind"]
       ELSE exec' = IdleExec /\ UNCHANGED srow
    /\ UNCHANGED <<opVars, doc, holds, leaseNo, scan, safe, lost, sgFaults>>

BindOperation ==
    /\ exec.pc = "bind" /\ exec.ops # {}
    /\ \E o \in exec.ops :
          /\ bound' = [bound EXCEPT ![o] = exec.s]
          /\ ph' = [ph EXCEPT ![o] = "INTENT"] /\ olease' = [olease EXCEPT ![o] = leaseNo]
          /\ exec' = IF exec.ops = {o} THEN IdleExec ELSE [exec EXCEPT !.ops = @ \ {o}]
    /\ UNCHANGED <<doc, srow, holds, leaseNo, scan, safe, lost, sgFaults>>

(* The target's disk or the database fails: the step is tried again. *)
StepFailsSg ==
    /\ exec.pc # "idle" /\ SgFault /\ exec' = IdleExec
    /\ UNCHANGED <<opVars, doc, srow, holds, leaseNo, scan, safe, lost>>

(* A pause gives the lease back; a resumed run acquires another. *)
PauseLease ==
    /\ Working /\ leaseNo < MaxSgLeases /\ holds' = FALSE
    /\ UNCHANGED <<opVars, doc, srow, leaseNo, exec, scan, safe, lost, sgFaults>>
ResumeLease ==
    /\ ~holds /\ safe /\ scan["exec"].pc = "done" /\ leaseNo < MaxSgLeases
    /\ holds' = TRUE /\ leaseNo' = leaseNo + 1
    /\ UNCHANGED <<opVars, doc, srow, exec, scan, safe, lost, sgFaults>>

-----------------------------------------------------------------------------
(* Reconciliation.                                                         *)

ScanTarget(t) ==
    /\ scan[t].pc = "scan"
    /\ scan' = [scan EXCEPT ![t] = [pc |-> "rows", ok |-> TRUE,
                    seen |-> {<<s, doc[s]>> : s \in {u \in Seqs : doc[u] # NoSeg}},
                    found |-> {u \in Seqs : doc[u] # NoSeg}]]
    /\ UNCHANGED <<opVars, doc, srow, holds, leaseNo, exec, safe, lost, sgFaults>>

(* An unknown document is imported if its operations are staged: then no    *)
(* operation can be bound to it yet.                                        *)
Importable(sd) == (\A o \in sd[2].ops : ph[o] = "STAGED") /\ MayImport(sd[1], sd[2])
Explained(sd) ==
    IF srow[sd[1]].st # "none"
    THEN srow[sd[1]].st # "CLEANED" /\ srow[sd[1]].seg = sd[2]
    ELSE Importable(sd)

ReconcileDocument(t) ==
    /\ scan[t].pc = "rows" /\ scan[t].seen # {}
    /\ LET sd == CHOOSE x \in scan[t].seen : \A y \in scan[t].seen : x[1] <= y[1] IN
       /\ scan' = [scan EXCEPT ![t].seen = @ \ {sd}, ![t].ok = @ /\ Explained(sd)]
       /\ srow' = IF srow[sd[1]].st = "none" /\ Importable(sd)
                  THEN [srow EXCEPT ![sd[1]] = [seg |-> sd[2], st |-> "DURABLE"]] ELSE srow
    /\ UNCHANGED <<opVars, doc, holds, leaseNo, exec, safe, lost, sgFaults>>

(* Rows whose document is missing are finalized, or reported. *)
Missing(t) == {s \in Seqs : srow[s].st \in {"DURABLE", "RECONCILED"} /\ s \notin scan[t].found}
FinishScan(t) ==
    /\ scan[t].pc = "rows" /\ scan[t].seen = {}
    /\ LET gone == Missing(t)
           final == {s \in gone : scan[t].ok /\ FinalizesMissing(s)}
           verdict == scan[t].ok /\ gone = final IN
       /\ srow' = [s \in Seqs |-> IF s \in final THEN [srow[s] EXCEPT !.st = "CLEANED"] ELSE srow[s]]
       /\ scan' = [scan EXCEPT ![t] = [NewScan EXCEPT !.pc = "done", !.ok = TRUE]]
       /\ safe' = IF t = "exec" THEN verdict ELSE safe
    /\ UNCHANGED <<opVars, doc, holds, leaseNo, exec, lost, sgFaults>>

(* A document disappears from the target. *)
LoseDocument(s) ==
    /\ doc[s] # NoSeg /\ SgFault /\ doc' = [doc EXCEPT ![s] = NoSeg] /\ lost' = lost \cup {s}
    /\ UNCHANGED <<opVars, srow, holds, leaseNo, exec, scan, safe>>

SgCrash ==
    /\ SgFault /\ leaseNo < MaxSgLeases
    /\ holds' = FALSE /\ exec' = IdleExec /\ safe' = TRUE
    /\ scan' = [t \in SgThreads |-> NewScan]
    /\ UNCHANGED <<opVars, doc, srow, leaseNo, lost>>

ExecStep ==
    \/ CleanupStep \/ PublishSegment \/ PublishDocument \/ PublishRow \/ BindOperation
    \/ \E o \in SgOps : CommitOperation(o) \/ RefreshIntent(o) \/ RebindLease(o) \/ StageOperation(o)
    \/ ResumeLease
ScanStep(t) == ScanTarget(t) \/ ReconcileDocument(t) \/ FinishScan(t)

SgNext ==
    \/ ExecStep \/ StepFailsSg \/ PauseLease \/ SgCrash
    \/ \E t \in SgThreads : ScanStep(t)
    \/ \E s \in Seqs : LoseDocument(s)

SgSpec == SgInit /\ [][SgNext]_sgVars

(* A running host works on, and its threads finish their reconciliation. *)
SgFairness == WF_sgVars(ExecStep) /\ \A t \in SgThreads : WF_sgVars(ScanStep(t))

-----------------------------------------------------------------------------
(* Properties.                                                             *)

(* Values of the variables. *)
SgTypeOK ==
    /\ ph \in [SgOps -> {"EARLY", "STAGED", "INTENT", "TERMINAL"}]
    /\ bound \in [SgOps -> Seqs \cup {-1}] /\ olease \in [SgOps -> 1..leaseNo]
    /\ \A s \in Seqs : srow[s].st \in {"none", "DURABLE", "RECONCILED", "CLEANUP_ELIGIBLE", "CLEANED"}
    /\ exec.pc \in {"idle", "document", "row", "bind"} /\ holds \in BOOLEAN /\ safe \in BOOLEAN

(* An operation that may be committed is backed twice: by a durable row     *)
(* that names it, and by the same document on the target, unless somebody   *)
(* removed that.  No crash, retry, refresh or other thread comes between.   *)
IntentIsEvidenced ==
    \A o \in SgOps : ph[o] = "INTENT" =>
        /\ bound[o] \in Seqs /\ srow[bound[o]].st = "DURABLE" /\ o \in srow[bound[o]].seg.ops
        /\ doc[bound[o]] = srow[bound[o]].seg \/ bound[o] \in lost

(* A document and the row of the same sequence number never disagree,      *)
(* unless somebody removed a document, and rows form a chain.              *)
DocumentsMatchRows ==
    \A s \in Seqs : srow[s].st # "none" =>
        /\ Chained(s, srow[s].seg)
        /\ doc[s] \in {NoSeg, srow[s].seg} \/ s \in lost

(* Evidence outlives the work it is about: while any operation of the run   *)
(* target is unfinished, no step removes a document.                        *)
DocumentsOutliveWork ==
    [][(\E s \in Seqs : doc[s] # NoSeg /\ doc'[s] = NoSeg /\ s \notin lost') => AllTerminal]_sgVars

(* Whatever the host was doing when it stopped, its next reconciliation     *)
(* explains what it finds and the executor works on.  Three things it       *)
(* cannot explain: a document somebody removed, the document of a refreshed *)
(* intent that has no row yet, and a document whose row a thread finalized  *)
(* because its scan was older than the document.                            *)
RefreshLeftBehind == \E s \in Seqs : doc[s] # NoSeg /\ srow[s].st = "none" /\ \E o \in doc[s].ops : ph[o] = "INTENT"
Contradicted ==
    \E s \in Seqs : doc[s] # NoSeg /\ (srow[s].st = "CLEANED" \/ (srow[s].st # "none" /\ doc[s] # srow[s].seg))
StartIsSafe == safe \/ lost # {} \/ RefreshLeftBehind \/ Contradicted

(* A staged operation is committed and all evidence of it is cleaned up,    *)
(* unless reconciliation stopped the executor, a document contradicts its   *)
(* row because it was finalized early or replaced after it was removed, or  *)
(* a document of an older lease is in the way of the next segment: its row  *)
(* was not written before the lease was lost, and only the next start       *)
(* imports it.                                                              *)
InTheWay == \E s \in Seqs : s = NextSeq /\ doc[s] # NoSeg /\ doc[s].lease # leaseNo
SegmentsSettle ==
    []<>(\/ \A o \in SgOps : ph[o] = "EARLY"
         \/ AllTerminal /\ Lifecycle = {} /\ \A s \in Seqs : doc[s] = NoSeg
         \/ ~safe \/ Contradicted \/ InTheWay \/ NextSeq \notin Seqs)
=============================================================================
