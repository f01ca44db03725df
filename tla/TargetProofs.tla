---------------------------- MODULE TargetProofs ----------------------------
(***************************************************************************)
(* Proofs about what the host keeps with a target folder.  The recovery    *)
(* intent segments of a run target, for any number of operations, leases   *)
(* and faults.  The staging of its operations, for any plan, any batch     *)
(* limit and any trouble.  The directories it creates, replaces and dates, *)
(* for any user and any crash.  And who owns the control area of the folder and *)
(* may write to it, for any number of installations and job revisions.     *)
(***************************************************************************)
EXTENDS Target, FiniteSetTheorems, WellFoundedInduction, TLAPS

-----------------------------------------------------------------------------
(* Recovery intent segments: the inductive invariant.  Rows form a prefix    *)
(* of the sequence and chain; a document without a row is the next one and   *)
(* names operations that are not bound to it yet; a row that is not past     *)
(* RECONCILED has its document; and only what nobody can explain, or a loss, *)
(* stops the executor.                                                       *)

Hashes == [ops : SUBSET SgOps, lease : Nat]
Segs == [ops : SUBSET SgOps, lease : Nat, prev : Hashes]
RowStates == {"none", "DURABLE", "RECONCILED", "CLEANUP_ELIGIBLE", "CLEANED"}
Rows == [seg : Segs, st : RowStates]
SgPhases == {"EARLY", "STAGED", "INTENT", "TERMINAL"}
Execs == [pc : {"idle", "document", "row", "bind"}, s : Seqs, seg : Segs, ops : SUBSET SgOps]
Scans == [pc : {"scan", "rows", "done"}, seen : SUBSET (Seqs \X Segs), found : SUBSET Seqs,
          ok : BOOLEAN]

SgTypes ==
    /\ ph \in [SgOps -> SgPhases] /\ bound \in [SgOps -> Seqs \cup {-1}]
    /\ leaseNo \in Nat \ {0} /\ olease \in [SgOps -> 1..leaseNo]
    /\ doc \in [Seqs -> Segs] /\ srow \in [Seqs -> Rows]
    /\ holds \in BOOLEAN /\ exec \in Execs /\ scan \in [SgThreads -> Scans]
    /\ safe \in BOOLEAN /\ lost \in SUBSET Seqs

HasRow(s) == srow[s].st # "none"
Loose(s) == doc[s] # NoSeg /\ ~HasRow(s)

\* Operations a segment that is being published may name.
Unbound(ops) ==
    /\ ops # {}
    /\ \/ \A o \in ops : ph[o] = "STAGED"
       \/ \E o \in SgOps : ops = {o} /\ ph[o] = "INTENT" /\ olease[o] # leaseNo

RowsInOrder == \E n \in 0..(MaxSeq + 1) : \A s \in Seqs : HasRow(s) <=> s < n
RowShape ==
    \A s \in Seqs : HasRow(s) =>
        /\ Chained(s, srow[s].seg) /\ srow[s].seg.lease \in 1..leaseNo
        /\ srow[s].st # "DURABLE" => AllTerminal
        /\ srow[s].st \in {"DURABLE", "RECONCILED"} => doc[s] = srow[s].seg \/ s \in lost
        /\ doc[s] \in {NoSeg, srow[s].seg} \/ s \in lost
LooseShape ==
    \A s \in Seqs : Loose(s) =>
        Chained(s, doc[s]) /\ doc[s].lease \in 1..leaseNo /\ Unbound(doc[s].ops)
IntentRow ==
    \A o \in SgOps : ph[o] = "INTENT" =>
        bound[o] \in Seqs /\ HasRow(bound[o]) /\ o \in srow[bound[o]].seg.ops
ExecShape ==
    exec.pc # "idle" =>
        /\ holds /\ safe /\ scan["exec"].pc = "done"
        /\ exec.ops \subseteq exec.seg.ops /\ Unbound(exec.ops) /\ exec.seg.lease = leaseNo
        /\ \A s \in Seqs : Loose(s) => s = exec.s
        /\ exec.pc # "bind" => /\ exec.ops = exec.seg.ops
                               /\ HasRow(exec.s) \/ Chained(exec.s, exec.seg)
        /\ exec.pc # "document" => doc[exec.s] = exec.seg \/ exec.s \in lost
        /\ exec.pc = "bind" => srow[exec.s] = [seg |-> exec.seg, st |-> "DURABLE"]
SeenShape ==
    \A t \in SgThreads : \A sd \in scan[t].seen :
        sd[2] # NoSeg /\ (HasRow(sd[1]) \/ doc[sd[1]] = sd[2] \/ sd[1] \in lost)
ScanShape ==
    scan["exec"].pc = "rows" =>
        /\ \A sd \in scan["exec"].seen : doc[sd[1]] = sd[2] \/ sd[1] \in lost
        /\ \A s \in Seqs : doc[s] # NoSeg => s \in scan["exec"].found
Excused == lost # {} \/ RefreshLeftBehind \/ Contradicted
SafeShape ==
    /\ ~safe => Excused
    /\ ~scan["exec"].ok => scan["exec"].pc = "rows" /\ Excused

SgInv ==
    /\ SgTypes /\ RowsInOrder /\ RowShape /\ LooseShape /\ IntentRow
    /\ ExecShape /\ SeenShape /\ ScanShape /\ SafeShape

\* The resting values and the bounds are in their sets.
LEMMA SgConstants ==
    /\ MaxSeq \in Nat /\ 0 \in Seqs /\ Seqs \subseteq Nat
    /\ "exec" \in SgThreads /\ "other" \in SgThreads
    /\ NoHash \in Hashes /\ NoSeg \in Segs /\ NoSeg.lease = 0 /\ NoRow \in Rows
    /\ NoRow.st = "none" /\ IdleExec \in Execs /\ IdleExec.pc = "idle"
<1>1. MaxSeq \in Nat
    BY SegmentAssumption
<1>2. NoHash \in Hashes /\ NoSeg \in Segs /\ NoSeg.lease = 0
    BY DEF NoHash, Hashes, NoSeg, Segs
<1> QED
    BY <1>1, <1>2 DEF Seqs, SgThreads, NoRow, Rows, RowStates, IdleExec, Execs

\* The rows are the first n of the sequence, and the next segment is number n.
LEMMA NextSeqIs ==
    ASSUME NEW n \in 0..(MaxSeq + 1), \A s \in Seqs : HasRow(s) <=> s < n
    PROVE  /\ NextSeq = n
           /\ LatestHash = IF n = 0 THEN NoHash ELSE HashOf(srow[n - 1].seg)
<1>1. MaxSeq \in Nat /\ Seqs = 0..MaxSeq
    BY SgConstants DEF Seqs
<1>2. CASE n = 0
    <2>1. Latest = {}
        BY <1>1, <1>2 DEF Latest, HasRow
    <2> QED
        BY <1>2, <2>1 DEF NextSeq, LatestHash
<1>3. CASE n # 0
    <2>1. Latest = {n - 1}
        BY <1>1, <1>3 DEF Latest, HasRow
    <2>2. (CHOOSE s \in Latest : TRUE) = n - 1 /\ Latest # {}
        BY <2>1
    <2>3. NextSeq = 1 + (n - 1) /\ LatestHash = HashOf(srow[n - 1].seg)
        BY <2>2, Zenon DEF NextSeq, LatestHash
    <2> QED
        BY <1>3, <2>3
<1> QED
    BY <1>2, <1>3

\* What is built for the next number follows the last row.
LEMMA NextIsFree ==
    ASSUME SgTypes, RowsInOrder, NextSeq \in Seqs, NEW ops \in SUBSET SgOps
    PROVE  /\ ~HasRow(NextSeq) /\ Chained(NextSeq, Building(ops))
           /\ Building(ops) \in Segs /\ Building(ops).lease = leaseNo /\ Building(ops).ops = ops
<1>1. PICK n \in 0..(MaxSeq + 1) : \A s \in Seqs : HasRow(s) <=> s < n
    BY DEF RowsInOrder
<1>2. /\ NextSeq = n /\ n \in 0..MaxSeq
      /\ LatestHash = IF n = 0 THEN NoHash ELSE HashOf(srow[n - 1].seg)
    BY <1>1, NextSeqIs DEF Seqs
<1>3. ~HasRow(n)
    BY <1>1, <1>2, SgConstants DEF Seqs
<1>4. Chained(n, Building(ops)) /\ LatestHash \in Hashes
    <2>1. CASE n = 0
        BY <1>2, <2>1, SgConstants DEF Chained, Building
    <2>2. CASE n # 0
        <3>1. n - 1 \in Seqs /\ HasRow(n - 1)
            BY <1>1, <1>2, <2>2, SgConstants DEF Seqs
        <3>2. HashOf(srow[n - 1].seg) \in Hashes
            BY <3>1 DEF SgTypes, Rows, Segs, HashOf, Hashes
        <3> QED
            BY <1>2, <2>2, <3>1, <3>2 DEF Chained, Building, HasRow
    <2> QED
        BY <2>1, <2>2
<1>5. Building(ops) \in Segs
    BY <1>4 DEF Building, Segs, SgTypes
<1> QED
    BY <1>2, <1>3, <1>4, <1>5 DEF Building

\* Only one number can be next.
LEMMA OneNext ==
    ASSUME RowsInOrder, NEW s \in Seqs, NEW u \in Seqs, NEW x, NEW y,
           ~HasRow(s), ~HasRow(u), Chained(s, x), Chained(u, y)
    PROVE  s = u
<1>1. PICK n \in 0..(MaxSeq + 1) : \A v \in Seqs : HasRow(v) <=> v < n
    BY DEF RowsInOrder
<1>2. ASSUME NEW v \in Seqs, NEW z, ~HasRow(v), Chained(v, z) PROVE v = n
    <2>1. v \in Nat /\ ~(v < n)
        BY <1>1, <1>2, SgConstants
    <2>2. CASE v = 0
        BY <2>1, <2>2, SgConstants
    <2>3. CASE v # 0
        <3>1. v - 1 \in Seqs /\ HasRow(v - 1)
            BY <1>2, <2>1, <2>3, SgConstants DEF Chained, HasRow, Seqs
        <3> QED
            BY <1>1, <2>1, <3>1
    <2> QED
        BY <2>2, <2>3
<1> QED
    BY <1>2

\* A row that is added next leaves the rows in order and the chain as it was.
LEMMA RowAdded ==
    ASSUME SgTypes, RowsInOrder, NEW s \in Seqs, NEW seg \in Segs, ~HasRow(s), Chained(s, seg),
           srow' = [srow EXCEPT ![s] = [seg |-> seg, st |-> "DURABLE"]]
    PROVE  /\ RowsInOrder' /\ srow' \in [Seqs -> Rows]
           /\ HasRow(s)' /\ srow'[s] = [seg |-> seg, st |-> "DURABLE"]
           /\ \A u \in Seqs : u # s => srow'[u] = srow[u] /\ (HasRow(u)' <=> HasRow(u))
           /\ \A u \in Seqs : HasRow(u) => HasRow(u)' /\ srow'[u] = srow[u]
<1>1. /\ srow' \in [Seqs -> Rows] /\ srow'[s] = [seg |-> seg, st |-> "DURABLE"]
      /\ \A u \in Seqs : u # s => srow'[u] = srow[u]
    BY DEF SgTypes, Rows, RowStates
<1>2. /\ HasRow(s)' /\ \A u \in Seqs : u # s => (HasRow(u)' <=> HasRow(u))
      /\ \A u \in Seqs : HasRow(u) => HasRow(u)' /\ srow'[u] = srow[u]
    BY <1>1 DEF HasRow
<1>3. PICK n \in 0..(MaxSeq + 1) : \A v \in Seqs : HasRow(v) <=> v < n
    BY DEF RowsInOrder
<1>4. s = n
    <2>1. s \in Nat /\ ~(s < n)
        BY <1>3, SgConstants
    <2>2. CASE s = 0
        BY <2>1, <2>2
    <2>3. CASE s # 0
        <3>1. s - 1 \in Seqs /\ HasRow(s - 1)
            BY <2>1, <2>3, SgConstants DEF Chained, HasRow, Seqs
        <3> QED
            BY <1>3, <2>1, <3>1
    <2> QED
        BY <2>2, <2>3
<1>5. n + 1 \in 0..(MaxSeq + 1) /\ \A v \in Seqs : HasRow(v)' <=> v < n + 1
    <2>1. n + 1 \in 0..(MaxSeq + 1)
        BY <1>4, SgConstants DEF Seqs
    <2>2. ASSUME NEW v \in Seqs PROVE HasRow(v)' <=> v < n + 1
        BY <1>2, <1>3, <1>4, SgConstants DEF Seqs
    <2> QED
        BY <2>1, <2>2
<1>6. RowsInOrder'
    BY <1>5 DEF RowsInOrder
<1> QED
    BY <1>1, <1>2, <1>6

\* Rows that keep their segments keep their order and their chain.
LEMMA RowsKept ==
    ASSUME RowsInOrder, \A u \in Seqs : HasRow(u)' <=> HasRow(u)
    PROVE  RowsInOrder'
<1>1. PICK n \in 0..(MaxSeq + 1) : \A v \in Seqs : HasRow(v) <=> v < n
    BY DEF RowsInOrder
<1>2. \A v \in Seqs : HasRow(v)' <=> v < n
    BY <1>1
<1> QED
    BY <1>2 DEF RowsInOrder

\* A segment stays chained while the rows keep what they say.
LEMMA ChainKept ==
    ASSUME NEW s \in Seqs, NEW seg, Chained(s, seg),
           \A u \in Seqs : HasRow(u) => HasRow(u)' /\ srow'[u].seg = srow[u].seg
    PROVE  Chained(s, seg)'
<1>1. CASE s = 0
    BY <1>1 DEF Chained
<1>2. CASE s # 0
    <2>1. s - 1 \in Seqs
        BY <1>2, SgConstants DEF Seqs
    <2> QED
        BY <1>2, <2>1 DEF Chained, HasRow
<1> QED
    BY <1>1, <1>2

\* A thread that commits, rebinds or binds one operation changes Unbound only
\* for a set that names it.
LEMMA UnboundKept ==
    ASSUME NEW ops \in SUBSET SgOps, Unbound(ops), NEW o \in SgOps,
           ph' \in [SgOps -> SgPhases],
           \A q \in SgOps \ {o} : ph'[q] = ph[q] /\ olease'[q] = olease[q],
           leaseNo' = leaseNo, o \notin ops
    PROVE  Unbound(ops)'
    BY DEF Unbound

\* What a step of the executor that starts something knows.
LEMMA WorkingIdle == ASSUME SgInv, Working PROVE exec.pc = "idle" /\ scan["exec"].pc = "done" /\ safe /\ holds
    BY DEF Working

\* Steps that leave documents, rows, the executor and the scans alone, and
\* change one operation that is not part of a document without a row.
LEMMA OperationMoves ==
    ASSUME SgInv, NEW o \in SgOps, exec.pc = "idle", safe, scan["exec"].pc = "done",
           ph' \in [SgOps -> SgPhases], olease' \in [SgOps -> 1..leaseNo],
           \A q \in SgOps \ {o} : ph'[q] = ph[q] /\ olease'[q] = olease[q],
           ph[o] # "TERMINAL",
           ph'[o] = "STAGED" \/ o \notin UNION {doc[s].ops : s \in {u \in Seqs : Loose(u)}},
           ph'[o] = "INTENT" => ph[o] = "INTENT",
           UNCHANGED <<bound, doc, srow, holds, leaseNo, exec, scan, safe, lost>>
    PROVE  SgInv'
<1>1. SgTypes' /\ SgTypes
    BY DEF SgInv, SgTypes
<1>2. \A s \in Seqs : HasRow(s)' = HasRow(s) /\ Loose(s)' = Loose(s)
    BY DEF HasRow, Loose
<1>3. RowsInOrder' /\ IntentRow' /\ SeenShape' /\ ExecShape' /\ ScanShape'
    <2>1. RowsInOrder'
        BY <1>2 DEF SgInv, RowsInOrder
    <2>2. IntentRow'
        BY <1>2 DEF SgInv, IntentRow, HasRow
    <2>3. SeenShape'
        BY <1>2 DEF SgInv, SeenShape, HasRow
    <2>4. ExecShape' /\ ScanShape'
        BY DEF ExecShape, ScanShape
    <2> QED
        BY <2>1, <2>2, <2>3, <2>4
<1>4. RowShape'
    <2>1. ~AllTerminal
        BY DEF AllTerminal
    <2> QED
        BY <1>2, <2>1 DEF SgInv, RowShape, HasRow, Chained, HashOf
<1>5. LooseShape'
    <2>1. ASSUME NEW s \in Seqs, Loose(s) PROVE Unbound(doc[s].ops)'
        <3>1. Unbound(doc[s].ops) /\ doc[s].ops \in SUBSET SgOps
            BY <1>1, <2>1 DEF SgInv, LooseShape, SgTypes, Segs
        <3>2. CASE o \notin doc[s].ops
            BY <3>1, <3>2, UnboundKept
        <3>3. CASE o \in doc[s].ops
            <4>1. ph'[o] = "STAGED"
                BY <2>1, <3>3
            <4>2. CASE \A q \in doc[s].ops : ph[q] = "STAGED"
                BY <3>1, <4>1, <4>2 DEF Unbound
            <4>3. CASE doc[s].ops = {o}
                BY <4>1, <4>3 DEF Unbound
            <4> QED
                BY <3>1, <3>3, <4>2, <4>3 DEF Unbound
        <3> QED
            BY <3>2, <3>3
    <2>2. ASSUME NEW s \in Seqs, Loose(s) PROVE Chained(s, doc[s])' /\ doc'[s].lease \in 1..leaseNo'
        BY <2>2 DEF SgInv, LooseShape, Chained, HashOf
    <2> QED
        BY <1>2, <2>1, <2>2 DEF LooseShape
<1>6. SafeShape'
    BY DEF SgInv, SafeShape
<1> QED
    BY <1>1, <1>3, <1>4, <1>5, <1>6 DEF SgInv

\* A commit makes an operation terminal: one more that may be cleaned up.
LEMMA CommitStepSg ==
    ASSUME SgInv, NEW o \in SgOps, CommitOperation(o)
    PROVE  SgInv'
<1>1. /\ SgTypes /\ ph[o] = "INTENT" /\ olease[o] = leaseNo /\ ph' = [ph EXCEPT ![o] = "TERMINAL"]
      /\ exec.pc = "idle" /\ safe /\ scan["exec"].pc = "done"
      /\ UNCHANGED <<bound, olease, doc, srow, holds, leaseNo, exec, scan, safe, lost>>
    BY DEF CommitOperation, Working, SgInv
<1>2. ph' \in [SgOps -> SgPhases] /\ ph'[o] = "TERMINAL" /\ \A q \in SgOps \ {o} : ph'[q] = ph[q]
    BY <1>1 DEF SgTypes, SgPhases
<1>3. o \notin UNION {doc[s].ops : s \in {u \in Seqs : Loose(u)}}
    <2>1. ASSUME NEW s \in Seqs, Loose(s) PROVE o \notin doc[s].ops
        <3>1. Unbound(doc[s].ops)
            BY <2>1 DEF SgInv, LooseShape
        <3> QED
            BY <1>1, <3>1 DEF Unbound
    <2> QED
        BY <2>1
<1>4. olease' \in [SgOps -> 1..leaseNo]
    BY <1>1 DEF SgTypes
<1> QED
    BY <1>1, <1>2, <1>3, <1>4, OperationMoves

\* A rebind concerns an operation that no segment names yet.
LEMMA RebindStepSg ==
    ASSUME SgInv, NEW o \in SgOps, RebindLease(o)
    PROVE  SgInv'
<1>1. /\ SgTypes /\ ph[o] \in {"EARLY", "STAGED"} /\ olease' = [olease EXCEPT ![o] = leaseNo]
      /\ exec.pc = "idle" /\ safe /\ scan["exec"].pc = "done"
      /\ UNCHANGED <<ph, bound, doc, srow, holds, leaseNo, exec, scan, safe, lost>>
    BY DEF RebindLease, Working, SgInv
<1>2. olease' \in [SgOps -> 1..leaseNo] /\ \A q \in SgOps \ {o} : olease'[q] = olease[q]
    BY <1>1 DEF SgTypes
<1>3. ph'[o] = "STAGED" \/ o \notin UNION {doc[s].ops : s \in {u \in Seqs : Loose(u)}}
    <2>1. ASSUME NEW s \in Seqs, Loose(s), ph[o] # "STAGED" PROVE o \notin doc[s].ops
        <3>1. Unbound(doc[s].ops)
            BY <2>1 DEF SgInv, LooseShape
        <3> QED
            BY <1>1, <2>1, <3>1 DEF Unbound
    <2> QED
        BY <1>1, <2>1
<1>4. ph' \in [SgOps -> SgPhases]
    BY <1>1 DEF SgTypes
<1> QED
    BY <1>1, <1>2, <1>3, <1>4, OperationMoves

\* Staging concerns an operation that no segment names yet.
LEMMA StageStepSg ==
    ASSUME SgInv, NEW o \in SgOps, StageOperation(o)
    PROVE  SgInv'
<1>1. /\ SgTypes /\ ph[o] = "EARLY" /\ ph' = [ph EXCEPT ![o] = "STAGED"]
      /\ exec.pc = "idle" /\ safe /\ scan["exec"].pc = "done"
      /\ UNCHANGED <<bound, olease, doc, srow, holds, leaseNo, exec, scan, safe, lost>>
    BY DEF StageOperation, Working, SgInv
<1>2. ph' \in [SgOps -> SgPhases] /\ ph'[o] = "STAGED" /\ \A q \in SgOps \ {o} : ph'[q] = ph[q]
    BY <1>1 DEF SgTypes, SgPhases
<1>3. olease' \in [SgOps -> 1..leaseNo]
    BY <1>1 DEF SgTypes
<1> QED
    BY <1>1, <1>2, <1>3, OperationMoves

\* The executor fixes the next segment: nothing is in the way but a document
\* that no row describes yet.
LEMMA PublishingStarts ==
    ASSUME SgInv, NEW ops \in SUBSET SgOps, Unbound(ops), NextSeq \in Seqs,
           safe, holds, scan["exec"].pc = "done", exec' = Publishing(ops),
           UNCHANGED <<ph, bound, olease, doc, srow, holds, leaseNo, scan, safe, lost>>
    PROVE  SgInv'
<1>1. SgTypes /\ RowsInOrder
    BY DEF SgInv
<1>2. PICK n \in Seqs, seg \in Segs : n = NextSeq /\ seg = Building(ops)
    BY <1>1, NextIsFree
<1>3. ~HasRow(n) /\ Chained(n, seg) /\ seg.lease = leaseNo /\ seg.ops = ops
    BY <1>1, <1>2, NextIsFree
<1>4. /\ exec' \in Execs /\ exec'.pc = "document" /\ exec'.s = n /\ exec'.seg = seg
      /\ exec'.ops = ops
    BY <1>2 DEF Publishing, Execs
<1>5. \A s \in Seqs : Loose(s) => s = n
    BY <1>1, <1>3, OneNext DEF SgInv, LooseShape, Loose
<1>6. SgTypes' /\ ExecShape'
    <2>1. SgTypes'
        BY <1>1, <1>4 DEF SgTypes
    <2>2. Chained(n, seg)' /\ Unbound(ops)' /\ \A s \in Seqs : Loose(s)' = Loose(s)
        BY <1>3 DEF Chained, HashOf, Unbound, Loose, HasRow
    <2> QED
        BY <1>3, <1>4, <1>5, <2>1, <2>2 DEF ExecShape, Chained, HashOf, Unbound
<1>7. RowsInOrder' /\ RowShape' /\ LooseShape' /\ IntentRow' /\ SeenShape' /\ ScanShape' /\ SafeShape'
    <2>1. RowsInOrder' /\ IntentRow' /\ SeenShape' /\ ScanShape'
        BY DEF SgInv, RowsInOrder, HasRow, IntentRow, SeenShape, ScanShape
    <2>2. RowShape'
        BY DEF SgInv, RowShape, HasRow, Chained, HashOf, AllTerminal
    <2>3. LooseShape'
        BY DEF SgInv, LooseShape, Loose, HasRow, Chained, HashOf, Unbound
    <2>4. SafeShape'
        BY DEF SgInv, SafeShape, Excused, RefreshLeftBehind, Contradicted
    <2> QED
        BY <2>1, <2>2, <2>3, <2>4
<1> QED
    BY <1>6, <1>7 DEF SgInv

\* A first segment names staged operations, none of them bound.
LEMMA PublishSegmentStep ==
    ASSUME SgInv, PublishSegment
    PROVE  SgInv'
<1>1. StagedOps \in SUBSET SgOps /\ Unbound(StagedOps)
    BY DEF PublishSegment, StagedOps, Unbound
<1> QED
    BY <1>1, PublishingStarts DEF PublishSegment, Working, opVars

\* A refreshed intent names one operation, which is unbound again.
LEMMA RefreshIntentStep ==
    ASSUME SgInv, NEW o \in SgOps, RefreshIntent(o)
    PROVE  SgInv'
<1>1. {o} \in SUBSET SgOps /\ Unbound({o})
    BY DEF RefreshIntent, Unbound
<1> QED
    BY <1>1, PublishingStarts DEF RefreshIntent, Working, opVars

\* The executor gives up what it was doing, or nothing but its lease changes.
LEMMA ExecutorRests ==
    ASSUME SgInv, exec'.pc = "idle", exec' \in Execs, holds' \in BOOLEAN,
           leaseNo' \in Nat, leaseNo' >= leaseNo,
           UNCHANGED <<ph, bound, olease, doc, srow, scan, safe, lost>>
    PROVE  SgInv'
<1>1. SgTypes
    BY DEF SgInv
<1>2. SgTypes' /\ \A x \in 1..leaseNo : x \in 1..leaseNo'
    <2>1. \A x \in 1..leaseNo : x \in 1..leaseNo'
        BY <1>1 DEF SgTypes
    <2>2. olease' \in [SgOps -> 1..leaseNo'] /\ leaseNo' \in Nat \ {0}
        BY <1>1, <2>1 DEF SgTypes
    <2> QED
        BY <1>1, <2>1, <2>2 DEF SgTypes
<1>3. RowsInOrder' /\ IntentRow' /\ SeenShape' /\ ScanShape'
    BY DEF SgInv, RowsInOrder, HasRow, IntentRow, SeenShape, ScanShape
<1>4. RowShape'
    BY <1>2 DEF SgInv, RowShape, HasRow, Chained, HashOf, AllTerminal
<1>5. LooseShape'
    <2>1. ASSUME NEW s \in Seqs, Loose(s) PROVE Unbound(doc[s].ops)'
        <3>1. Unbound(doc[s].ops)
            BY <2>1 DEF SgInv, LooseShape
        <3>2. \A o \in SgOps : olease[o] # leaseNo => olease[o] # leaseNo'
            BY <1>1 DEF SgTypes
        <3> QED
            BY <3>1, <3>2 DEF Unbound
    <2> QED
        BY <1>2, <2>1 DEF SgInv, LooseShape, Loose, HasRow, Chained, HashOf
<1>6. SafeShape'
    BY DEF SgInv, SafeShape, Excused, RefreshLeftBehind, Contradicted
<1>7. ExecShape'
    BY DEF ExecShape
<1> QED
    BY <1>2, <1>3, <1>4, <1>5, <1>6, <1>7 DEF SgInv

\* A failed step leaves at most a document without its row.
LEMMA StepFailsSgStep ==
    ASSUME SgInv, StepFailsSg
    PROVE  SgInv'
<1>1. exec' = IdleExec /\ UNCHANGED <<ph, bound, olease, doc, srow, holds, leaseNo, scan, safe, lost>>
    BY DEF StepFailsSg, opVars
<1> QED
    BY <1>1, ExecutorRests, SgConstants DEF SgInv, SgTypes

\* A lease is paused or resumed between two publications.
LEMMA LeaseStep ==
    ASSUME SgInv, PauseLease \/ ResumeLease
    PROVE  SgInv'
<1>1. SgTypes /\ exec' = exec /\ exec.pc = "idle" /\ holds' \in BOOLEAN
      /\ leaseNo' \in {leaseNo, leaseNo + 1}
      /\ UNCHANGED <<ph, bound, olease, doc, srow, scan, safe, lost>>
    BY DEF SgInv, ExecShape, PauseLease, ResumeLease, Working, opVars
<1>2. leaseNo' \in Nat /\ leaseNo' >= leaseNo /\ exec' \in Execs
    BY <1>1 DEF SgTypes
<1> QED
    BY <1>1, <1>2, ExecutorRests

\* A stop of the host: the executor and the scans begin again.
LEMMA SgCrashStep ==
    ASSUME SgInv, SgCrash
    PROVE  SgInv'
<1>1. /\ SgTypes /\ exec' = IdleExec /\ holds' = FALSE /\ safe' = TRUE
      /\ scan' = [t \in SgThreads |-> NewScan]
      /\ UNCHANGED <<ph, bound, olease, doc, srow, leaseNo, lost>>
    BY DEF SgInv, SgCrash, opVars
<1>2. /\ NewScan \in Scans /\ NewScan.pc = "scan" /\ NewScan.seen = {} /\ NewScan.ok = TRUE
    BY DEF NewScan, Scans
<1>3. SgTypes' /\ \A t \in SgThreads : scan'[t] = NewScan
    BY <1>1, <1>2, SgConstants DEF SgTypes
<1>4. RowsInOrder' /\ IntentRow'
    BY <1>1 DEF SgInv, RowsInOrder, HasRow, IntentRow
<1>5. RowShape'
    BY <1>1 DEF SgInv, RowShape, HasRow, Chained, HashOf, AllTerminal
<1>6. LooseShape'
    BY <1>1 DEF SgInv, LooseShape, Loose, HasRow, Chained, HashOf, Unbound
<1>7. ExecShape' /\ SeenShape' /\ ScanShape' /\ SafeShape'
    BY <1>1, <1>2, <1>3, SgConstants DEF ExecShape, SeenShape, ScanShape, SafeShape
<1> QED
    BY <1>3, <1>4, <1>5, <1>6, <1>7 DEF SgInv

\* What is known while the executor is about a segment.
LEMMA BusyFacts ==
    ASSUME SgInv, exec.pc # "idle"
    PROVE  /\ safe /\ scan["exec"].ok /\ scan["exec"].pc = "done" /\ ~AllTerminal
           /\ exec.s \in Seqs /\ exec.seg \in Segs /\ exec.ops \in SUBSET SgOps /\ exec.seg # NoSeg
           /\ \A s \in Seqs : HasRow(s) => srow[s].st = "DURABLE" /\ srow[s].seg # NoSeg
<1>1. /\ SgTypes /\ safe /\ scan["exec"].pc = "done" /\ Unbound(exec.ops) /\ exec.seg.lease = leaseNo
    BY DEF SgInv, ExecShape
<1>2. exec.s \in Seqs /\ exec.seg \in Segs /\ exec.ops \in SUBSET SgOps
    BY <1>1 DEF SgTypes, Execs
<1>3. ~AllTerminal
    BY <1>1, <1>2 DEF Unbound, AllTerminal
<1>4. scan["exec"].ok
    BY <1>1 DEF SgInv, SafeShape
<1>5. exec.seg # NoSeg
    BY <1>1, SgConstants DEF SgTypes
<1>6. \A s \in Seqs : HasRow(s) => srow[s].st = "DURABLE" /\ srow[s].seg # NoSeg
    BY <1>3, SgConstants DEF SgInv, RowShape
<1> QED
    BY <1>1, <1>2, <1>3, <1>4, <1>5, <1>6

\* The document comes first: it is the next one, and loose.
LEMMA PublishDocumentStep ==
    ASSUME SgInv, PublishDocument
    PROVE  SgInv'
<1>1. CASE exec' = IdleExec /\ UNCHANGED doc
    <2>1. UNCHANGED <<ph, bound, olease, srow, holds, leaseNo, scan, safe, lost>>
        BY DEF PublishDocument, opVars
    <2> QED
        BY <1>1, <2>1, ExecutorRests, SgConstants DEF SgInv, SgTypes
<1>2. CASE /\ doc[exec.s] = NoSeg \/ doc[exec.s] = exec.seg
           /\ doc' = [doc EXCEPT ![exec.s] = exec.seg] /\ exec' = [exec EXCEPT !.pc = "row"]
    <2>1. /\ exec.pc = "document"
          /\ UNCHANGED <<ph, bound, olease, srow, holds, leaseNo, scan, safe, lost>>
        BY DEF PublishDocument, opVars
    <2>2. PICK s \in Seqs, seg \in Segs : s = exec.s /\ seg = exec.seg
        BY <2>1, BusyFacts
    <2>3. /\ SgTypes /\ safe /\ scan["exec"].ok /\ scan["exec"].pc = "done" /\ ~AllTerminal
          /\ exec.ops \in SUBSET SgOps /\ seg # NoSeg
          /\ \A u \in Seqs : HasRow(u) => srow[u].st = "DURABLE" /\ srow[u].seg # NoSeg
        BY <2>1, <2>2, BusyFacts DEF SgInv
    <2>4. /\ holds /\ exec.ops = seg.ops /\ Unbound(exec.ops) /\ seg.lease = leaseNo
          /\ \A u \in Seqs : Loose(u) => u = s
          /\ HasRow(s) \/ Chained(s, seg)
        BY <2>1, <2>2 DEF SgInv, ExecShape
    <2>5. /\ exec' \in Execs /\ exec'.pc = "row" /\ exec'.s = s /\ exec'.seg = seg /\ exec'.ops = exec.ops
          /\ doc' \in [Seqs -> Segs] /\ doc'[s] = seg
          /\ \A u \in Seqs : u # s => doc'[u] = doc[u]
          /\ doc[s] # seg => doc[s] = NoSeg
        <3>1. exec' \in Execs
            BY <1>2, <2>3, Zenon DEF SgTypes, Execs
        <3> QED
            BY <1>2, <2>2, <2>3, <3>1 DEF SgTypes, Execs
    <2>6. SgTypes' /\ leaseNo \in 1..leaseNo
        BY <2>1, <2>3, <2>5 DEF SgTypes
    <2>7. RowsInOrder' /\ IntentRow' /\ ScanShape' /\ SafeShape'
        BY <2>1, <2>3 DEF SgInv, RowsInOrder, HasRow, IntentRow, ScanShape, SafeShape
    <2>8. \A u \in Seqs : HasRow(u)' = HasRow(u)
        BY <2>1 DEF HasRow
    <2>9. RowShape'
        <3>1. ASSUME NEW u \in Seqs, HasRow(u)
              PROVE  /\ Chained(u, srow[u].seg)' /\ srow'[u].seg.lease \in 1..leaseNo'
                     /\ srow'[u].st = "DURABLE"
            BY <2>1, <2>3, <3>1 DEF SgInv, RowShape, Chained, HashOf
        <3>2. ASSUME NEW u \in Seqs, HasRow(u) PROVE doc'[u] = srow'[u].seg \/ u \in lost'
            <4>1. doc[u] = srow[u].seg \/ u \in lost
                BY <2>3, <3>2 DEF SgInv, RowShape
            <4> QED
                BY <2>1, <2>3, <2>5, <3>2, <4>1
        <3> QED
            BY <2>8, <3>1, <3>2 DEF RowShape
    <2>10. LooseShape'
        <3>1. ASSUME NEW u \in Seqs, Loose(u)' PROVE u = s /\ ~HasRow(s)
            BY <2>4, <2>5, <2>8, <3>1 DEF Loose
        <3>2. ASSUME ~HasRow(s)
              PROVE  Chained(s, doc[s])' /\ doc'[s].lease \in 1..leaseNo' /\ Unbound(doc[s].ops)'
            BY <2>1, <2>4, <2>5, <2>6, <3>2 DEF Chained, HashOf, Unbound
        <3> QED
            BY <3>1, <3>2 DEF LooseShape
    <2>11. ExecShape'
        <3>1. (HasRow(s) \/ Chained(s, seg))' /\ Unbound(exec.ops)' /\ \A u \in Seqs : Loose(u)' => u = s
            BY <2>1, <2>4, <2>5, <2>8 DEF Chained, HashOf, Unbound, Loose, HasRow
        <3> QED
            BY <2>1, <2>3, <2>4, <2>5, <3>1 DEF ExecShape, HasRow, Chained, HashOf
    <2>12. SeenShape'
        <3>1. ASSUME NEW t \in SgThreads, NEW sd \in scan[t].seen
              PROVE  sd[2] # NoSeg /\ (HasRow(sd[1])' \/ doc'[sd[1]] = sd[2] \/ sd[1] \in lost')
            <4>1. sd[2] # NoSeg /\ (HasRow(sd[1]) \/ doc[sd[1]] = sd[2] \/ sd[1] \in lost)
                BY <3>1 DEF SgInv, SeenShape
            <4>2. sd[1] \in Seqs
                BY <2>3, <3>1 DEF SgTypes, Scans
            <4> QED
                BY <2>1, <2>5, <2>8, <4>1, <4>2
        <3> QED
            BY <2>1, <3>1 DEF SeenShape, HasRow
    <2> QED
        BY <2>6, <2>7, <2>9, <2>10, <2>11, <2>12 DEF SgInv
<1> QED
    BY <1>1, <1>2 DEF PublishDocument

\* The row follows its document and carries the same segment.
LEMMA PublishRowStep ==
    ASSUME SgInv, PublishRow
    PROVE  SgInv'
<1>1. CASE exec' = IdleExec /\ UNCHANGED srow
    <2>1. UNCHANGED <<ph, bound, olease, doc, holds, leaseNo, scan, safe, lost>>
        BY DEF PublishRow, opVars
    <2> QED
        BY <1>1, <2>1, ExecutorRests, SgConstants DEF SgInv, SgTypes
<1>2. CASE /\ MayPublish(exec.s, exec.seg)
           /\ srow' = [srow EXCEPT ![exec.s] = [seg |-> exec.seg, st |-> "DURABLE"]]
           /\ exec' = [exec EXCEPT !.pc = "bind"]
    <2>1. /\ exec.pc = "row"
          /\ UNCHANGED <<ph, bound, olease, doc, holds, leaseNo, scan, safe, lost>>
        BY DEF PublishRow, opVars
    <2>2. PICK s \in Seqs, seg \in Segs : s = exec.s /\ seg = exec.seg
        BY <2>1, BusyFacts
    <2>3. /\ SgTypes /\ RowsInOrder /\ safe /\ scan["exec"].ok /\ scan["exec"].pc = "done"
          /\ exec.ops \in SUBSET SgOps
        BY <2>1, <2>2, BusyFacts DEF SgInv
    <2>4. /\ holds /\ exec.ops = seg.ops /\ Unbound(exec.ops) /\ seg.lease = leaseNo
          /\ \A u \in Seqs : Loose(u) => u = s
          /\ doc[s] = seg \/ s \in lost
        BY <2>1, <2>2 DEF SgInv, ExecShape
    <2>5. exec' \in Execs /\ exec'.pc = "bind" /\ exec'.s = s /\ exec'.seg = seg /\ exec'.ops = exec.ops
        <3>1. exec' \in Execs
            BY <1>2, <2>3, Zenon DEF SgTypes, Execs
        <3> QED
            BY <1>2, <2>2, <2>3, <3>1 DEF SgTypes, Execs
    <2>6. /\ RowsInOrder' /\ srow' \in [Seqs -> Rows]
          /\ HasRow(s)' /\ srow'[s] = [seg |-> seg, st |-> "DURABLE"]
          /\ \A u \in Seqs : u # s => srow'[u] = srow[u] /\ (HasRow(u)' <=> HasRow(u))
          /\ \A u \in Seqs : HasRow(u) => HasRow(u)' /\ srow'[u] = srow[u]
        <3>1. CASE srow[s] = [seg |-> seg, st |-> "DURABLE"]
            <4>1. srow' = srow
                BY <1>2, <2>2, <2>3, <3>1 DEF SgTypes
            <4> QED
                BY <2>3, <3>1, <4>1 DEF SgTypes, HasRow, RowsInOrder
        <3>2. CASE srow[s].st = "none" /\ Chained(s, seg)
            BY <1>2, <2>2, <2>3, <3>2, RowAdded DEF HasRow
        <3> QED
            BY <1>2, <2>2, <3>1, <3>2 DEF MayPublish
    <2>7. SgTypes' /\ leaseNo \in 1..leaseNo
        BY <2>1, <2>3, <2>5, <2>6 DEF SgTypes
    <2>8. Chained(s, seg)'
        <3>1. Chained(s, seg)
            BY <1>2, <2>2 DEF MayPublish, SgInv, RowShape, HasRow
        <3> QED
            BY <2>6, <3>1, ChainKept
    <2>9. RowShape'
        <3>1. ASSUME NEW u \in Seqs, HasRow(u), u # s
              PROVE  /\ Chained(u, srow[u].seg)' /\ srow'[u].seg.lease \in 1..leaseNo'
                     /\ srow'[u].st # "DURABLE" => AllTerminal'
                     /\ srow'[u].st \in {"DURABLE", "RECONCILED"} => doc'[u] = srow'[u].seg \/ u \in lost'
                     /\ doc'[u] \in {NoSeg, srow'[u].seg} \/ u \in lost'
            <4>1. PICK x \in Segs : x = srow[u].seg /\ x = srow'[u].seg
                BY <2>3, <2>6, <3>1 DEF SgTypes, Rows
            <4>2. Chained(u, x)'
                BY <2>6, <3>1, <4>1, ChainKept DEF SgInv, RowShape
            <4> QED
                BY <2>1, <2>6, <3>1, <4>1, <4>2 DEF SgInv, RowShape, AllTerminal, Chained, HashOf
        <3>2. /\ Chained(s, srow[s].seg)' /\ srow'[s].seg.lease \in 1..leaseNo'
              /\ srow'[s].st = "DURABLE" /\ (doc'[s] = srow'[s].seg \/ s \in lost')
            BY <2>1, <2>4, <2>6, <2>7, <2>8 DEF Chained, HashOf
        <3> QED
            BY <2>6, <3>1, <3>2 DEF RowShape
    <2>10. \A u \in Seqs : ~Loose(u)'
        BY <2>1, <2>4, <2>6 DEF Loose
    <2>11. IntentRow' /\ LooseShape' /\ ScanShape' /\ SafeShape'
        <3>1. IntentRow'
            BY <2>1, <2>6 DEF SgInv, IntentRow
        <3> QED
            BY <2>1, <2>3, <2>10, <3>1 DEF LooseShape, ScanShape, SafeShape
    <2>12. ExecShape'
        BY <2>1, <2>3, <2>4, <2>5, <2>6, <2>10 DEF ExecShape, Unbound
    <2>13. SeenShape'
        <3>1. ASSUME NEW t \in SgThreads, NEW sd \in scan[t].seen
              PROVE  sd[2] # NoSeg /\ (HasRow(sd[1])' \/ doc'[sd[1]] = sd[2] \/ sd[1] \in lost')
            <4>1. sd[2] # NoSeg /\ (HasRow(sd[1]) \/ doc[sd[1]] = sd[2] \/ sd[1] \in lost)
                BY <3>1 DEF SgInv, SeenShape
            <4>2. sd[1] \in Seqs
                BY <2>3, <3>1 DEF SgTypes, Scans
            <4> QED
                BY <2>1, <2>6, <4>1, <4>2
        <3> QED
            BY <2>1, <3>1 DEF SeenShape, HasRow
    <2> QED
        BY <2>6, <2>7, <2>9, <2>11, <2>12, <2>13 DEF SgInv
<1> QED
    BY <1>1, <1>2 DEF PublishRow

\* Operations are bound one by one to a segment that has both.
LEMMA BindOperationStep ==
    ASSUME SgInv, BindOperation
    PROVE  SgInv'
<1>1. PICK o \in exec.ops :
          /\ bound' = [bound EXCEPT ![o] = exec.s]
          /\ ph' = [ph EXCEPT ![o] = "INTENT"] /\ olease' = [olease EXCEPT ![o] = leaseNo]
          /\ exec' = IF exec.ops = {o} THEN IdleExec ELSE [exec EXCEPT !.ops = @ \ {o}]
    BY DEF BindOperation
<1>2. exec.pc = "bind" /\ UNCHANGED <<doc, srow, holds, leaseNo, scan, safe, lost>>
    BY DEF BindOperation
<1>3. /\ SgTypes /\ safe /\ scan["exec"].ok /\ scan["exec"].pc = "done" /\ ~AllTerminal
      /\ exec.s \in Seqs /\ exec.seg \in Segs /\ exec.ops \in SUBSET SgOps /\ o \in SgOps
      /\ \A s \in Seqs : HasRow(s) => srow[s].st = "DURABLE"
    BY <1>2, BusyFacts DEF SgInv
<1>4. /\ holds /\ exec.ops \subseteq exec.seg.ops /\ Unbound(exec.ops) /\ exec.seg.lease = leaseNo
      /\ \A u \in Seqs : Loose(u) => u = exec.s
      /\ doc[exec.s] = exec.seg \/ exec.s \in lost
      /\ srow[exec.s] = [seg |-> exec.seg, st |-> "DURABLE"]
    BY <1>2 DEF SgInv, ExecShape
<1>5. /\ ph' \in [SgOps -> SgPhases] /\ bound' \in [SgOps -> Seqs \cup {-1}]
      /\ olease' \in [SgOps -> 1..leaseNo]
      /\ ph'[o] = "INTENT" /\ bound'[o] = exec.s
      /\ \A q \in SgOps : q # o => ph'[q] = ph[q] /\ bound'[q] = bound[q]
    BY <1>1, <1>3 DEF SgTypes, SgPhases
<1>6. ASSUME exec.ops = {o} PROVE SgTypes' /\ ExecShape'
    <2>1. exec' = IdleExec
        BY <1>1, <1>6
    <2>2. SgTypes' /\ ExecShape'
        BY <1>2, <1>3, <1>5, <2>1, SgConstants DEF SgTypes, ExecShape
    <2> QED
        BY <2>2
<1>7. HasRow(exec.s) /\ \A u \in Seqs : HasRow(u)' = HasRow(u) /\ ~Loose(u)'
    BY <1>2, <1>3, <1>4 DEF HasRow, Loose
<1>8. ASSUME exec.ops # {o} PROVE SgTypes' /\ ExecShape'
    <2>1. exec' = [exec EXCEPT !.ops = exec.ops \ {o}]
        BY <1>1, <1>8
    <2>2. /\ exec' \in Execs /\ exec'.pc = "bind" /\ exec'.s = exec.s /\ exec'.seg = exec.seg
          /\ exec'.ops = exec.ops \ {o}
        <3>1. exec' \in Execs
            BY <1>3, <2>1, Zenon DEF SgTypes, Execs
        <3> QED
            BY <1>2, <1>3, <2>1, <3>1 DEF SgTypes, Execs
    <2>3. Unbound(exec.ops \ {o})'
        <3>1. \A q \in exec.ops : ph[q] = "STAGED"
            BY <1>4, <1>8 DEF Unbound
        <3>2. \A q \in exec.ops \ {o} : ph'[q] = "STAGED"
            BY <1>3, <1>5, <3>1
        <3> QED
            BY <1>3, <1>8, <2>2, <3>2 DEF Unbound
    <2>4. SgTypes'
        BY <1>2, <1>3, <1>5, <2>2 DEF SgTypes
    <2>5. ExecShape'
        BY <1>2, <1>3, <1>4, <1>7, <2>2, <2>3 DEF ExecShape, Unbound
    <2> QED
        BY <2>4, <2>5
<1>9. RowsInOrder' /\ SeenShape' /\ ScanShape' /\ SafeShape' /\ LooseShape'
    BY <1>2, <1>3, <1>7 DEF SgInv, RowsInOrder, HasRow, SeenShape, ScanShape, SafeShape, LooseShape
<1>10. RowShape'
    BY <1>2, <1>3, <1>7 DEF SgInv, RowShape, Chained, HashOf
<1>11. IntentRow'
    <2>1. ASSUME NEW q \in SgOps, ph'[q] = "INTENT"
          PROVE  bound'[q] \in Seqs /\ HasRow(bound'[q]) /\ q \in srow[bound'[q]].seg.ops
        BY <1>3, <1>4, <1>5, <1>7, <2>1 DEF SgInv, IntentRow
    <2> QED
        BY <1>2, <2>1 DEF IntentRow, HasRow
<1> QED
    BY <1>6, <1>8, <1>9, <1>10, <1>11 DEF SgInv

\* A scan records what is there; what it records stays, gets a row or is lost.
LEMMA ScanTargetStep ==
    ASSUME SgInv, NEW t \in SgThreads, ScanTarget(t)
    PROVE  SgInv'
<1> DEFINE now == [pc |-> "rows", ok |-> TRUE,
                   seen |-> {<<s, doc[s]>> : s \in {u \in Seqs : doc[u] # NoSeg}},
                   found |-> {u \in Seqs : doc[u] # NoSeg}]
<1>1. /\ SgTypes /\ scan[t].pc = "scan" /\ scan' = [scan EXCEPT ![t] = now]
      /\ UNCHANGED <<ph, bound, olease, doc, srow, holds, leaseNo, exec, safe, lost>>
    BY DEF SgInv, ScanTarget, opVars
<1>2. /\ now \in Scans /\ now.pc = "rows" /\ now.ok /\ now.found = {u \in Seqs : doc[u] # NoSeg}
      /\ \A sd \in now.seen : sd[1] \in Seqs /\ sd[2] = doc[sd[1]] /\ sd[2] # NoSeg
    <2>1. now.seen \in SUBSET (Seqs \X Segs)
        BY <1>1 DEF SgTypes
    <2> QED
        BY <2>1 DEF Scans
<1> HIDE DEF now
<1>3. scan' \in [SgThreads -> Scans] /\ scan'[t] = now /\ \A v \in SgThreads : v # t => scan'[v] = scan[v]
    BY <1>1, <1>2 DEF SgTypes
<1>4. SgTypes' /\ RowsInOrder' /\ IntentRow'
    BY <1>1, <1>3 DEF SgInv, SgTypes, RowsInOrder, HasRow, IntentRow
<1>5. RowShape' /\ LooseShape'
    <2>1. RowShape'
        BY <1>1 DEF SgInv, RowShape, HasRow, Chained, HashOf, AllTerminal
    <2>2. LooseShape'
        BY <1>1 DEF SgInv, LooseShape, Loose, HasRow, Chained, HashOf, Unbound
    <2> QED
        BY <2>1, <2>2
<1>6. ExecShape'
    <2>1. exec.pc # "idle" => t # "exec"
        BY <1>1 DEF SgInv, ExecShape
    <2>2. exec.pc # "idle" => scan'["exec"] = scan["exec"]
        BY <1>3, <2>1, SgConstants
    <2> QED
        BY <1>1, <2>2 DEF SgInv, ExecShape, Unbound, Loose, HasRow, Chained, HashOf
<1>7. SeenShape'
    <2>1. ASSUME NEW v \in SgThreads, NEW sd \in scan'[v].seen
          PROVE  sd[2] # NoSeg /\ (HasRow(sd[1]) \/ doc[sd[1]] = sd[2] \/ sd[1] \in lost)
        <3>1. CASE v = t
            BY <1>2, <1>3, <2>1, <3>1
        <3>2. CASE v # t
            BY <1>3, <2>1, <3>2 DEF SgInv, SeenShape
        <3> QED
            BY <3>1, <3>2
    <2> QED
        BY <1>1, <2>1 DEF SeenShape, HasRow
<1>8. ScanShape' /\ SafeShape'
    <2>1. CASE t = "exec"
        BY <1>1, <1>2, <1>3, <2>1
           DEF SgInv, ScanShape, SafeShape, Excused, RefreshLeftBehind, Contradicted
    <2>2. CASE t # "exec"
        <3>1. scan'["exec"] = scan["exec"]
            BY <1>3, <2>2, SgConstants
        <3> QED
            BY <1>1, <3>1
               DEF SgInv, ScanShape, SafeShape, Excused, RefreshLeftBehind, Contradicted
    <2> QED
        BY <2>1, <2>2
<1> QED
    BY <1>4, <1>5, <1>6, <1>7, <1>8 DEF SgInv

\* A document disappears: from now on it is among the lost ones.
LEMMA LoseDocumentStep ==
    ASSUME SgInv, NEW s \in Seqs, LoseDocument(s)
    PROVE  SgInv'
<1>1. /\ SgTypes /\ doc' = [doc EXCEPT ![s] = NoSeg] /\ lost' = lost \cup {s}
      /\ UNCHANGED <<ph, bound, olease, srow, holds, leaseNo, exec, scan, safe>>
    BY DEF SgInv, LoseDocument, opVars
<1>2. /\ doc' \in [Seqs -> Segs] /\ doc'[s] = NoSeg /\ s \in lost' /\ lost \subseteq lost'
      /\ \A u \in Seqs : u # s => doc'[u] = doc[u]
    BY <1>1, SgConstants DEF SgTypes
<1>3. SgTypes' /\ RowsInOrder' /\ IntentRow'
    BY <1>1, <1>2 DEF SgInv, SgTypes, RowsInOrder, HasRow, IntentRow
<1>4. \A u \in Seqs : HasRow(u)' = HasRow(u) /\ (Loose(u)' => Loose(u) /\ u # s)
    BY <1>1, <1>2 DEF HasRow, Loose
<1>5. RowShape'
    <2>1. ASSUME NEW u \in Seqs, HasRow(u)
          PROVE  /\ srow[u].st \in {"DURABLE", "RECONCILED"} => doc'[u] = srow[u].seg \/ u \in lost'
                 /\ doc'[u] \in {NoSeg, srow[u].seg} \/ u \in lost'
        BY <1>2, <2>1 DEF SgInv, RowShape
    <2>2. ASSUME NEW u \in Seqs, HasRow(u)
          PROVE  /\ Chained(u, srow[u].seg)' /\ srow'[u].seg.lease \in 1..leaseNo'
                 /\ srow'[u].st # "DURABLE" => AllTerminal'
        BY <1>1, <2>2 DEF SgInv, RowShape, Chained, HashOf, AllTerminal
    <2> QED
        BY <1>1, <1>4, <2>1, <2>2 DEF RowShape
<1>6. LooseShape'
    <2>1. ASSUME NEW u \in Seqs, Loose(u)'
          PROVE  Chained(u, doc[u])' /\ doc'[u].lease \in 1..leaseNo' /\ Unbound(doc[u].ops)'
        BY <1>1, <1>2, <1>4, <2>1 DEF SgInv, LooseShape, Chained, HashOf, Unbound
    <2> QED
        BY <2>1 DEF LooseShape
<1>7. ExecShape'
    <2>1. ASSUME exec.pc # "idle"
          PROVE  /\ exec.pc # "document" => doc'[exec.s] = exec.seg \/ exec.s \in lost'
                 /\ \A u \in Seqs : Loose(u)' => u = exec.s
                 /\ Unbound(exec.ops)'
                 /\ exec.pc # "bind" => HasRow(exec.s)' \/ Chained(exec.s, exec.seg)'
        <3>1. exec.s \in Seqs
            BY <2>1, BusyFacts
        <3> QED
            BY <1>1, <1>2, <1>4, <2>1, <3>1
               DEF SgInv, ExecShape, Unbound, HasRow, Chained, HashOf
    <2> QED
        BY <1>1, <2>1 DEF SgInv, ExecShape
<1>8. SeenShape' /\ ScanShape'
    <2>1. ASSUME NEW v \in SgThreads, NEW sd \in scan[v].seen
          PROVE  /\ sd[2] # NoSeg /\ (HasRow(sd[1])' \/ doc'[sd[1]] = sd[2] \/ sd[1] \in lost')
                 /\ (doc[sd[1]] = sd[2] \/ sd[1] \in lost) => (doc'[sd[1]] = sd[2] \/ sd[1] \in lost')
        <3>1. sd[1] \in Seqs
            BY <1>1, <2>1 DEF SgTypes, Scans
        <3> QED
            BY <1>2, <1>4, <2>1, <3>1 DEF SgInv, SeenShape
    <2>2. SeenShape'
        BY <1>1, <2>1 DEF SeenShape, HasRow
    <2>3. ScanShape'
        BY <1>1, <1>2, <2>1, SgConstants DEF SgInv, ScanShape
    <2> QED
        BY <2>2, <2>3
<1>9. SafeShape'
    BY <1>1, <1>2 DEF SgInv, SafeShape, Excused
<1> QED
    BY <1>3, <1>5, <1>6, <1>7, <1>8, <1>9 DEF SgInv

\* A nonempty set of numbers has a least one.
LEMMA LeastElement ==
    ASSUME NEW S \in SUBSET Nat, S # {}
    PROVE  \E x \in S : \A y \in S : x <= y
<1> DEFINE R == OpToRel(<, Nat)
<1>1. \A x, y \in Nat : <<y, x>> \in R <=> y < x
    BY DEF OpToRel
<1>2. IsWellFoundedOn(R, Nat)
    BY NatLessThanWellFounded, Zenon
<1> HIDE DEF R
<1>3. PICK x \in S : \A y \in S : ~ (<<y, x>> \in R)
    BY <1>2, WFMin, Zenon
<1>4. ASSUME NEW y \in S PROVE x <= y
    <2>1. ~(y < x)
        BY <1>1, <1>3
    <2> QED
        BY <2>1
<1> QED
    BY <1>4

\* The document a reconciliation looks at next is one it has seen.
LEMMA NextSeen ==
    ASSUME NEW seen \in SUBSET (Seqs \X Segs), seen # {}
    PROVE  (CHOOSE x \in seen : \A y \in seen : x[1] <= y[1]) \in seen
<1> DEFINE S == {x[1] : x \in seen}
<1>1. S \in SUBSET Nat /\ S # {}
    BY SgConstants
<1>2. PICK n \in S : \A m \in S : n <= m
    BY <1>1, LeastElement
<1>3. \E x \in seen : \A y \in seen : x[1] <= y[1]
    BY <1>2
<1> QED
    BY <1>3

\* The first of a nonempty set of segments is one of them.
LEMMA FirstIn == ASSUME NEW S \in SUBSET Seqs, S # {} PROVE FirstOf(S) \in S
<1>1. S \in SUBSET Nat
    BY SgConstants
<1>2. \E x \in S : \A y \in S : x <= y
    BY <1>1, LeastElement
<1> QED
    BY <1>2 DEF FirstOf

\* A reconciliation that imports no document.
LEMMA DocumentExplained ==
    ASSUME SgInv, NEW t \in SgThreads, scan[t].pc = "rows",
           NEW sd \in scan[t].seen, NEW ok \in BOOLEAN,
           scan' = [scan EXCEPT ![t] = [scan[t] EXCEPT !.seen = scan[t].seen \ {sd}, !.ok = ok]],
           ~ok /\ t = "exec" => Excused,
           UNCHANGED <<ph, bound, olease, doc, srow, holds, leaseNo, exec, safe, lost>>
    PROVE  SgInv'
<1>1. SgTypes
    BY DEF SgInv
<1>2. /\ scan' \in [SgThreads -> Scans] /\ scan'[t].pc = "rows" /\ scan'[t].ok = ok
      /\ scan'[t].seen = scan[t].seen \ {sd} /\ scan'[t].found = scan[t].found
      /\ \A v \in SgThreads : v # t => scan'[v] = scan[v]
    <2>1. [scan[t] EXCEPT !.seen = scan[t].seen \ {sd}, !.ok = ok] \in Scans
        BY <1>1 DEF SgTypes, Scans
    <2> QED
        BY <1>1, <2>1 DEF SgTypes, Scans
<1>3. SgTypes' /\ RowsInOrder' /\ IntentRow'
    BY <1>1, <1>2 DEF SgInv, SgTypes, RowsInOrder, HasRow, IntentRow
<1>4. RowShape' /\ LooseShape'
    <2>1. RowShape'
        BY DEF SgInv, RowShape, HasRow, Chained, HashOf, AllTerminal
    <2>2. LooseShape'
        BY DEF SgInv, LooseShape, Loose, HasRow, Chained, HashOf, Unbound
    <2> QED
        BY <2>1, <2>2
<1>5. ExecShape'
    <2>1. exec.pc # "idle" => scan'["exec"] = scan["exec"]
        BY <1>2, SgConstants DEF SgInv, ExecShape
    <2> QED
        BY <2>1 DEF SgInv, ExecShape, Unbound, Loose, HasRow, Chained, HashOf
<1>6. SeenShape' /\ ScanShape'
    <2>1. \A v \in SgThreads : /\ scan'[v].seen \subseteq scan[v].seen /\ scan'[v].pc = scan[v].pc
                               /\ scan'[v].found = scan[v].found
        BY <1>2
    <2>2. SeenShape'
        BY <2>1 DEF SgInv, SeenShape, HasRow
    <2>3. ScanShape'
        BY <2>1, SgConstants DEF SgInv, ScanShape
    <2> QED
        BY <2>2, <2>3
<1>7. SafeShape'
    <2>1. Excused' = Excused
        BY DEF Excused, RefreshLeftBehind, Contradicted
    <2>2. CASE t = "exec"
        BY <1>2, <2>1, <2>2 DEF SgInv, SafeShape
    <2>3. CASE t # "exec"
        <3>1. scan'["exec"] = scan["exec"]
            BY <1>2, <2>3, SgConstants
        <3> QED
            BY <2>1, <3>1 DEF SgInv, SafeShape
    <2> QED
        BY <2>2, <2>3
<1> QED
    BY <1>3, <1>4, <1>5, <1>6, <1>7 DEF SgInv

\* What the executor's own reconciliation cannot explain is excused.
LEMMA UnexplainedIsExcused ==
    ASSUME SgInv, scan["exec"].pc = "rows", NEW sd \in scan["exec"].seen, ~Explained(sd)
    PROVE  Excused
<1>1. PICK s \in Seqs, d \in Segs : sd = <<s, d>>
    <2>1. scan["exec"] \in Scans
        BY SgConstants DEF SgInv, SgTypes
    <2>2. sd \in Seqs \X Segs
        BY <2>1 DEF Scans
    <2> QED
        BY <2>2
<1>2. d # NoSeg /\ (doc[s] = d \/ s \in lost)
    BY <1>1, SgConstants DEF SgInv, SeenShape, ScanShape
<1>3. CASE s \in lost
    BY <1>3 DEF Excused
<1>4. CASE doc[s] = d /\ srow[s].st # "none"
    <2>1. srow[s].st = "CLEANED" \/ srow[s].seg # d
        BY <1>1, <1>4 DEF Explained
    <2> QED
        BY <1>2, <1>4, <2>1 DEF Excused, Contradicted
<1>5. CASE doc[s] = d /\ srow[s].st = "none"
    <2>1. Loose(s)
        BY <1>2, <1>5 DEF Loose, HasRow
    <2>2. MayImport(s, d) /\ Unbound(d.ops)
        BY <1>5, <2>1 DEF SgInv, LooseShape, MayImport
    <2>3. PICK o \in d.ops : ph[o] # "STAGED"
        BY <1>1, <1>5, <2>2 DEF Explained, Importable
    <2>4. ph[o] = "INTENT"
        BY <2>2, <2>3 DEF Unbound
    <2> QED
        BY <1>2, <1>5, <2>3, <2>4 DEF Excused, RefreshLeftBehind
<1> QED
    BY <1>2, <1>3, <1>4, <1>5

\* A reconciliation gives a loose document its row, or finds fault with it.
LEMMA ReconcileDocumentStep ==
    ASSUME SgInv, NEW t \in SgThreads, ReconcileDocument(t)
    PROVE  SgInv'
<1>1. SgTypes /\ RowsInOrder /\ scan[t] \in Scans /\ scan[t].pc = "rows"
    BY DEF SgInv, SgTypes, ReconcileDocument
<1>2. PICK sd \in scan[t].seen :
          /\ scan' = [scan EXCEPT ![t].seen = @ \ {sd}, ![t].ok = @ /\ Explained(sd)]
          /\ srow' = IF srow[sd[1]].st = "none" /\ Importable(sd)
                     THEN [srow EXCEPT ![sd[1]] = [seg |-> sd[2], st |-> "DURABLE"]] ELSE srow
    <2>1. scan[t].seen \in SUBSET (Seqs \X Segs) /\ scan[t].seen # {}
        BY <1>1 DEF Scans, ReconcileDocument
    <2> QED
        BY <2>1, NextSeen DEF ReconcileDocument
<1>3. UNCHANGED <<ph, bound, olease, doc, holds, leaseNo, exec, safe, lost>>
    BY DEF ReconcileDocument, opVars
<1>4. PICK s \in Seqs, d \in Segs : sd = <<s, d>>
    BY <1>1, <1>2 DEF Scans
<1>5. PICK ok \in BOOLEAN : ok = (scan[t].ok /\ Explained(sd))
    OBVIOUS
<1>6. scan' = [scan EXCEPT ![t] = [scan[t] EXCEPT !.seen = scan[t].seen \ {sd}, !.ok = ok]]
    BY <1>1, <1>2, <1>5 DEF SgTypes, Scans
<1>7. CASE ~(srow[s].st = "none" /\ Importable(sd))
    <2>1. srow' = srow
        BY <1>2, <1>4, <1>7
    <2>2. ~ok /\ t = "exec" => Excused
        BY <1>1, <1>5, UnexplainedIsExcused DEF SgInv, SafeShape
    <2> QED
        BY <1>1, <1>3, <1>6, <2>1, <2>2, DocumentExplained
<1>8. CASE srow[s].st = "none" /\ Importable(sd)
    <2>1. /\ ~HasRow(s) /\ Chained(s, d) /\ d.lease \in 1..leaseNo
          /\ \A o \in d.ops : ph[o] = "STAGED"
          /\ srow' = [srow EXCEPT ![s] = [seg |-> d, st |-> "DURABLE"]]
        BY <1>2, <1>4, <1>8 DEF HasRow, Importable, MayImport
    <2>2. /\ RowsInOrder' /\ srow' \in [Seqs -> Rows]
          /\ HasRow(s)' /\ srow'[s] = [seg |-> d, st |-> "DURABLE"]
          /\ \A u \in Seqs : u # s => srow'[u] = srow[u] /\ (HasRow(u)' <=> HasRow(u))
          /\ \A u \in Seqs : HasRow(u) => HasRow(u)' /\ srow'[u] = srow[u]
        BY <1>1, <2>1, RowAdded
    <2>3. d # NoSeg /\ (doc[s] = d \/ s \in lost)
        BY <1>4, <2>1 DEF SgInv, SeenShape
    <2>4. ok = scan[t].ok
        BY <1>4, <1>5, <1>8, <1>1 DEF Explained, Scans
    <2>5. /\ scan' \in [SgThreads -> Scans]
          /\ \A v \in SgThreads : /\ scan'[v].seen \subseteq scan[v].seen /\ scan'[v].pc = scan[v].pc
                                  /\ scan'[v].found = scan[v].found /\ scan'[v].ok = scan[v].ok
        <3>1. [scan[t] EXCEPT !.seen = scan[t].seen \ {sd}, !.ok = ok] \in Scans
            BY <1>1 DEF Scans
        <3>2. /\ scan' \in [SgThreads -> Scans] /\ \A v \in SgThreads : v # t => scan'[v] = scan[v]
              /\ scan'[t] = [scan[t] EXCEPT !.seen = scan[t].seen \ {sd}, !.ok = ok]
            BY <1>1, <1>6, <3>1 DEF SgTypes
        <3>3. /\ scan'[t].seen \subseteq scan[t].seen /\ scan'[t].pc = scan[t].pc
              /\ scan'[t].found = scan[t].found /\ scan'[t].ok = scan[t].ok
            BY <1>1, <2>4, <3>2 DEF Scans
        <3> QED
            BY <3>2, <3>3
    <2>6. SgTypes'
        BY <1>1, <1>3, <2>2, <2>5 DEF SgTypes
    <2>7. \A u \in Seqs : ~Loose(u)'
        <3>1. ASSUME NEW u \in Seqs, Loose(u) PROVE u = s
            BY <1>1, <2>1, <3>1, OneNext DEF SgInv, LooseShape, Loose
        <3> QED
            BY <1>3, <2>2, <3>1 DEF Loose
    <2>8. RowShape'
        <3>1. ASSUME NEW u \in Seqs, HasRow(u), u # s
              PROVE  /\ Chained(u, srow[u].seg)' /\ srow'[u].seg.lease \in 1..leaseNo'
                     /\ srow'[u].st # "DURABLE" => AllTerminal'
                     /\ srow'[u].st \in {"DURABLE", "RECONCILED"} => doc'[u] = srow'[u].seg \/ u \in lost'
                     /\ doc'[u] \in {NoSeg, srow'[u].seg} \/ u \in lost'
            <4>1. PICK x \in Segs : x = srow[u].seg /\ x = srow'[u].seg
                BY <1>1, <2>2, <3>1 DEF SgTypes, Rows
            <4>2. Chained(u, x)'
                BY <2>2, <3>1, <4>1, ChainKept DEF SgInv, RowShape
            <4> QED
                BY <1>3, <2>2, <3>1, <4>1, <4>2 DEF SgInv, RowShape, AllTerminal, Chained, HashOf
        <3>2. Chained(s, d)'
            BY <2>1, <2>2, ChainKept
        <3>3. /\ Chained(s, srow[s].seg)' /\ srow'[s].seg.lease \in 1..leaseNo'
              /\ srow'[s].st = "DURABLE" /\ (doc'[s] = srow'[s].seg \/ s \in lost')
            BY <1>3, <2>1, <2>2, <2>3, <3>2 DEF Chained, HashOf
        <3> QED
            BY <2>2, <3>1, <3>3 DEF RowShape
    <2>9. IntentRow' /\ LooseShape'
        BY <1>3, <2>2, <2>7 DEF SgInv, IntentRow, LooseShape
    <2>10. ExecShape'
        <3>1. ASSUME exec.pc # "idle"
              PROVE  /\ Unbound(exec.ops)'
                     /\ exec.pc # "bind" => HasRow(exec.s)' \/ Chained(exec.s, exec.seg)'
                     /\ exec.pc = "bind" => srow'[exec.s] = srow[exec.s]
            <4>1. PICK e \in Seqs, x \in Segs : e = exec.s /\ x = exec.seg
                BY <3>1, BusyFacts
            <4>2. Unbound(exec.ops)'
                BY <1>3, <3>1 DEF SgInv, ExecShape, Unbound
            <4>3. exec.pc # "bind" => HasRow(e)' \/ Chained(e, x)'
                BY <2>2, <3>1, <4>1, ChainKept DEF SgInv, ExecShape
            <4>4. exec.pc = "bind" => srow'[e] = srow[e]
                BY <2>2, <3>1, <4>1 DEF SgInv, ExecShape, HasRow
            <4> QED
                BY <1>3, <4>1, <4>2, <4>3, <4>4 DEF HasRow, Chained, HashOf
        <3> QED
            BY <1>3, <2>5, <2>7, <3>1, SgConstants DEF SgInv, ExecShape
    <2>11. SeenShape' /\ ScanShape'
        <3>1. ASSUME NEW v \in SgThreads, NEW x \in scan'[v].seen
              PROVE  x[2] # NoSeg /\ (HasRow(x[1])' \/ doc'[x[1]] = x[2] \/ x[1] \in lost')
            <4>1. x \in scan[v].seen /\ x[1] \in Seqs
                BY <1>1, <2>5, <3>1 DEF SgTypes, Scans
            <4> QED
                BY <1>3, <2>2, <4>1 DEF SgInv, SeenShape
        <3>2. SeenShape'
            BY <3>1 DEF SeenShape, HasRow
        <3>3. ScanShape'
            BY <1>3, <2>5, SgConstants DEF SgInv, ScanShape
        <3> QED
            BY <3>2, <3>3
    <2>12. SafeShape'
        <3>1. ASSUME Excused PROVE Excused'
            <4>1. CASE lost # {}
                BY <1>3, <4>1 DEF Excused
            <4>2. CASE lost = {} /\ RefreshLeftBehind
                <5>1. PICK u \in Seqs : Loose(u) /\ \E o \in doc[u].ops : ph[o] = "INTENT"
                    BY <4>2 DEF RefreshLeftBehind, Loose, HasRow
                <5>2. u = s
                    BY <1>3, <2>7, <2>2, <5>1 DEF Loose
                <5> QED
                    BY <2>1, <2>3, <4>2, <5>1, <5>2
            <4>3. CASE Contradicted
                <5>1. PICK u \in Seqs : doc[u] # NoSeg /\ HasRow(u)
                                        /\ (srow[u].st = "CLEANED" \/ doc[u] # srow[u].seg)
                    BY <4>3 DEF Contradicted, HasRow
                <5> QED
                    BY <1>3, <2>2, <5>1 DEF Excused, Contradicted, HasRow
            <4> QED
                BY <3>1, <4>1, <4>2, <4>3 DEF Excused
        <3> QED
            BY <1>3, <2>5, <3>1, SgConstants DEF SgInv, SafeShape
    <2> QED
        BY <2>2, <2>6, <2>8, <2>9, <2>10, <2>11, <2>12 DEF SgInv
<1> QED
    BY <1>7, <1>8

\* Rows that move on: they keep their segments, and a row that leaves DURABLE
\* does so when all operations are terminal.
LEMMA RowsMoveOn ==
    ASSUME SgInv, srow' \in [Seqs -> Rows],
           \A u \in Seqs : /\ srow'[u].seg = srow[u].seg /\ (HasRow(u)' <=> HasRow(u))
                           /\ srow'[u].st \in {"DURABLE", "RECONCILED"} =>
                                 srow[u].st \in {"DURABLE", "RECONCILED"},
           srow' = srow \/ AllTerminal,
           UNCHANGED <<ph, bound, olease, doc, leaseNo, exec, lost>>
    PROVE  RowsInOrder' /\ RowShape' /\ LooseShape' /\ IntentRow'
<1>1. RowsInOrder'
    BY RowsKept DEF SgInv
<1>2. RowShape'
    <2>1. ASSUME NEW u \in Seqs, HasRow(u)
          PROVE  /\ Chained(u, srow[u].seg)' /\ srow'[u].seg.lease \in 1..leaseNo'
                 /\ srow'[u].st # "DURABLE" => AllTerminal'
                 /\ srow'[u].st \in {"DURABLE", "RECONCILED"} => doc'[u] = srow'[u].seg \/ u \in lost'
                 /\ doc'[u] \in {NoSeg, srow'[u].seg} \/ u \in lost'
        <3>1. PICK x \in Segs : x = srow[u].seg /\ x = srow'[u].seg
            BY <2>1 DEF SgInv, SgTypes, Rows
        <3>2. Chained(u, x)'
            BY <2>1, <3>1, ChainKept DEF SgInv, RowShape
        <3>3. srow'[u].st # "DURABLE" => AllTerminal'
            BY <2>1 DEF SgInv, RowShape, AllTerminal
        <3> QED
            BY <2>1, <3>1, <3>2, <3>3 DEF SgInv, RowShape, Chained, HashOf
    <2> QED
        BY <2>1 DEF RowShape
<1>3. LooseShape'
    <2>1. ASSUME NEW u \in Seqs, Loose(u)
          PROVE  Chained(u, doc[u])' /\ doc'[u].lease \in 1..leaseNo' /\ Unbound(doc[u].ops)'
        <3>1. PICK x \in Segs : x = doc[u]
            BY DEF SgInv, SgTypes
        <3>2. Chained(u, x)'
            BY <2>1, <3>1, ChainKept DEF SgInv, LooseShape
        <3>3. Unbound(doc[u].ops)'
            BY <2>1 DEF SgInv, LooseShape, Unbound
        <3> QED
            BY <2>1, <3>1, <3>2, <3>3 DEF SgInv, LooseShape, Chained, HashOf
    <2> QED
        BY <2>1 DEF LooseShape, Loose
<1>4. IntentRow'
    BY DEF SgInv, IntentRow
<1> QED
    BY <1>1, <1>2, <1>3, <1>4

\* What the scan of the rows says holds for the executor from then on.
LEMMA FinishScanStep ==
    ASSUME SgInv, NEW t \in SgThreads, FinishScan(t)
    PROVE  SgInv'
<1> DEFINE gone == Missing(t)
           final == {s \in gone : scan[t].ok /\ FinalizesMissing(s)}
           verdict == scan[t].ok /\ gone = final
           done == [NewScan EXCEPT !.pc = "done", !.ok = TRUE]
<1>1. /\ SgTypes /\ scan[t].pc = "rows"
      /\ srow' = [s \in Seqs |-> IF s \in final THEN [srow[s] EXCEPT !.st = "CLEANED"] ELSE srow[s]]
      /\ scan' = [scan EXCEPT ![t] = done] /\ safe' = IF t = "exec" THEN verdict ELSE safe
      /\ UNCHANGED <<ph, bound, olease, doc, holds, leaseNo, exec, lost>>
    BY DEF SgInv, FinishScan, opVars
<1>2. /\ scan[t].ok \in BOOLEAN /\ verdict \in BOOLEAN /\ safe' \in BOOLEAN
    BY <1>1 DEF SgTypes, Scans
<1>3. /\ \A s \in final : AllTerminal /\ srow[s].st \in {"DURABLE", "RECONCILED"}
      /\ final \subseteq Seqs
    BY DEF Missing, FinalizesMissing
<1>4. ~verdict => \/ ~scan[t].ok
                  \/ \E s \in Seqs : srow[s].st \in {"DURABLE", "RECONCILED"} /\ s \notin scan[t].found
    BY <1>2 DEF Missing
<1> HIDE DEF final, verdict, gone
<1>5. /\ srow' \in [Seqs -> Rows]
      /\ \A u \in Seqs : /\ u \notin final => srow'[u] = srow[u]
                         /\ u \in final => srow'[u].seg = srow[u].seg /\ srow'[u].st = "CLEANED"
    <2>1. ASSUME NEW u \in Seqs PROVE [srow[u] EXCEPT !.st = "CLEANED"] \in Rows
        BY <1>1 DEF SgTypes, Rows, RowStates
    <2> QED
        BY <1>1, <2>1 DEF SgTypes, Rows
<1>6. \A u \in Seqs : /\ srow'[u].seg = srow[u].seg /\ (HasRow(u)' <=> HasRow(u))
                      /\ srow'[u].st \in {"DURABLE", "RECONCILED"} =>
                            srow[u].st \in {"DURABLE", "RECONCILED"}
    BY <1>3, <1>5 DEF HasRow
<1>7. srow' = srow \/ AllTerminal
    BY <1>1, <1>3, <1>5 DEF SgTypes
<1>8. RowsInOrder' /\ RowShape' /\ LooseShape' /\ IntentRow'
    BY <1>1, <1>5, <1>6, <1>7, RowsMoveOn
<1>9. /\ done \in Scans /\ done.pc = "done" /\ done.ok /\ done.seen = {}
    BY DEF NewScan, Scans
<1> HIDE DEF done
<1>10. /\ scan' \in [SgThreads -> Scans] /\ scan'[t] = done
       /\ \A v \in SgThreads : v # t => scan'[v] = scan[v]
    BY <1>1, <1>9 DEF SgTypes
<1>11. SgTypes'
    BY <1>1, <1>2, <1>5, <1>10 DEF SgTypes
<1>12. ExecShape'
    <2>1. ASSUME exec.pc # "idle"
          PROVE  srow' = srow /\ t # "exec" /\ scan'["exec"] = scan["exec"] /\ safe'
        <3>1. t # "exec"
            BY <1>1, <2>1 DEF SgInv, ExecShape
        <3> QED
            BY <1>1, <1>7, <1>10, <2>1, <3>1, BusyFacts, SgConstants
    <2> QED
        BY <1>1, <2>1 DEF SgInv, ExecShape, Unbound, Loose, HasRow, Chained, HashOf
<1>13. SeenShape' /\ ScanShape'
    <2>1. ASSUME NEW v \in SgThreads, NEW x \in scan'[v].seen
          PROVE  x[2] # NoSeg /\ (HasRow(x[1])' \/ doc'[x[1]] = x[2] \/ x[1] \in lost')
        <3>1. v # t /\ x \in scan[v].seen /\ x[1] \in Seqs
            BY <1>1, <1>9, <1>10, <2>1 DEF SgTypes, Scans
        <3> QED
            BY <1>1, <1>6, <3>1 DEF SgInv, SeenShape
    <2>2. SeenShape'
        BY <2>1 DEF SeenShape, HasRow
    <2>3. ScanShape'
        <3>1. CASE t = "exec"
            BY <1>9, <1>10, <3>1 DEF ScanShape
        <3>2. CASE t # "exec"
            BY <1>1, <1>10, <3>2, SgConstants DEF SgInv, ScanShape
        <3> QED
            BY <3>1, <3>2
    <2> QED
        BY <2>2, <2>3
<1>14. SafeShape'
    <2>1. ASSUME Excused PROVE Excused'
        <3>1. CASE lost # {}
            BY <1>1, <3>1 DEF Excused
        <3>2. CASE RefreshLeftBehind
            BY <1>1, <1>6, <3>2 DEF Excused, RefreshLeftBehind, HasRow
        <3>3. CASE Contradicted
            <4>1. PICK u \in Seqs : doc[u] # NoSeg /\ HasRow(u)
                                    /\ (srow[u].st = "CLEANED" \/ doc[u] # srow[u].seg)
                BY <3>3 DEF Contradicted, HasRow
            <4>2. doc'[u] # NoSeg /\ HasRow(u)' /\ (srow'[u].st = "CLEANED" \/ doc'[u] # srow'[u].seg)
                BY <1>1, <1>5, <1>6, <4>1
            <4> QED
                BY <4>2 DEF Excused, Contradicted, HasRow
        <3> QED
            BY <2>1, <3>1, <3>2, <3>3 DEF Excused
    <2>2. CASE t # "exec"
        <3>1. scan'["exec"] = scan["exec"] /\ safe' = safe
            BY <1>1, <1>10, <2>2, SgConstants
        <3> QED
            BY <2>1, <3>1 DEF SgInv, SafeShape
    <2>3. CASE t = "exec"
        <3>1. ASSUME ~verdict PROVE Excused
            <4>1. CASE ~scan[t].ok
                BY <2>3, <4>1 DEF SgInv, SafeShape
            <4>2. ASSUME NEW s \in Seqs, srow[s].st \in {"DURABLE", "RECONCILED"}, s \notin scan[t].found
                  PROVE  Excused
                <5>1. doc[s] = NoSeg
                    BY <1>1, <2>3, <4>2 DEF SgInv, ScanShape
                <5>2. HasRow(s) /\ srow[s].seg # NoSeg
                    BY <4>2, SgConstants DEF SgInv, RowShape, HasRow
                <5>3. s \in lost
                    BY <4>2, <5>1, <5>2 DEF SgInv, RowShape
                <5> QED
                    BY <5>3 DEF Excused
            <4> QED
                BY <1>4, <3>1, <4>1, <4>2
        <3> QED
            BY <1>1, <1>9, <1>10, <2>1, <2>3, <3>1 DEF SafeShape
    <2> QED
        BY <2>2, <2>3
<1> QED
    BY <1>8, <1>11, <1>12, <1>13, <1>14 DEF SgInv

\* A row of a segment goes on, or its document is removed: all operations are
\* terminal.
LEMMA CleanupStepSg ==
    ASSUME SgInv, CleanupStep
    PROVE  SgInv' /\ AllTerminal
<1>1. PICK s \in Seqs :
          /\ s = FirstOf(Lifecycle)
          /\ \/ ReconciliationReady(s) /\ SetRow(s, "RECONCILED") /\ UNCHANGED doc
             \/ srow[s].st = "RECONCILED" /\ SetRow(s, "CLEANUP_ELIGIBLE") /\ UNCHANGED doc
             \/ srow[s].st = "CLEANUP_ELIGIBLE" /\ RemoveDocument(s)
    <2>1. FirstOf(Lifecycle) \in Seqs
        BY FirstIn DEF CleanupStep, Lifecycle
    <2> QED
        BY <2>1 DEF CleanupStep
<1>2. /\ SgTypes /\ safe /\ holds /\ scan["exec"].pc = "done" /\ exec.pc = "idle"
      /\ UNCHANGED <<ph, bound, olease, holds, leaseNo, exec, scan, safe, lost>>
    BY DEF SgInv, CleanupStep, Working, opVars
<1>3. AllTerminal /\ HasRow(s)
    BY <1>1 DEF SgInv, RowShape, HasRow, ReconciliationReady
<1>4. scan["exec"].ok
    BY <1>2 DEF SgInv, SafeShape
<1>5. ScanShape' /\ SafeShape' /\ ExecShape'
    BY <1>2, <1>4 DEF ScanShape, SafeShape, ExecShape
<1>6. ASSUME NEW st \in {"RECONCILED", "CLEANUP_ELIGIBLE", "CLEANED"}, SetRow(s, st), UNCHANGED doc,
             st = "RECONCILED" => srow[s].st = "DURABLE"
      PROVE  SgInv'
    <2>1. /\ srow' \in [Seqs -> Rows]
          /\ \A u \in Seqs : /\ srow'[u].seg = srow[u].seg
                             /\ srow'[u].st = IF u = s THEN st ELSE srow[u].st
        <3>1. [srow[s] EXCEPT !.st = st] \in Rows
            BY <1>2 DEF SgTypes, Rows, RowStates
        <3>2. srow' = [srow EXCEPT ![s] = [srow[s] EXCEPT !.st = st]]
            BY <1>6 DEF SetRow
        <3>3. srow' \in [Seqs -> Rows] /\ srow'[s] = [srow[s] EXCEPT !.st = st]
              /\ \A u \in Seqs : u # s => srow'[u] = srow[u]
            BY <1>2, <3>1, <3>2 DEF SgTypes
        <3> QED
            BY <1>2, <3>3 DEF SgTypes, Rows
    <2>2. \A u \in Seqs : /\ (HasRow(u)' <=> HasRow(u))
                          /\ srow'[u].st \in {"DURABLE", "RECONCILED"} =>
                                srow[u].st \in {"DURABLE", "RECONCILED"}
        BY <1>3, <1>6, <2>1 DEF HasRow
    <2>3. RowsInOrder' /\ RowShape' /\ LooseShape' /\ IntentRow'
        BY <1>2, <1>3, <1>6, <2>1, <2>2, RowsMoveOn
    <2>4. SgTypes'
        BY <1>2, <1>6, <2>1 DEF SgTypes
    <2>5. SeenShape'
        <3>1. ASSUME NEW v \in SgThreads, NEW x \in scan[v].seen
              PROVE  x[2] # NoSeg /\ (HasRow(x[1])' \/ doc'[x[1]] = x[2] \/ x[1] \in lost')
            <4>1. x[1] \in Seqs
                BY <1>2, <3>1 DEF SgTypes, Scans
            <4> QED
                BY <1>2, <1>6, <2>2, <3>1, <4>1 DEF SgInv, SeenShape
        <3> QED
            BY <1>2, <3>1 DEF SeenShape, HasRow
    <2> QED
        BY <1>5, <2>3, <2>4, <2>5 DEF SgInv
<1>7. ASSUME srow[s].st = "CLEANUP_ELIGIBLE", doc' = [doc EXCEPT ![s] = NoSeg], UNCHANGED srow
      PROVE  SgInv'
    <2>1. doc' \in [Seqs -> Segs] /\ doc'[s] = NoSeg /\ \A u \in Seqs : u # s => doc'[u] = doc[u]
        BY <1>2, <1>7, SgConstants DEF SgTypes
    <2>2. SgTypes' /\ RowsInOrder' /\ IntentRow'
        BY <1>2, <1>7, <2>1 DEF SgInv, SgTypes, RowsInOrder, HasRow, IntentRow
    <2>3. RowShape'
        <3>1. ASSUME NEW u \in Seqs, HasRow(u)
              PROVE  /\ srow[u].st \in {"DURABLE", "RECONCILED"} => doc'[u] = srow[u].seg \/ u \in lost
                     /\ doc'[u] \in {NoSeg, srow[u].seg} \/ u \in lost
            BY <1>7, <2>1, <3>1 DEF SgInv, RowShape
        <3>2. ASSUME NEW u \in Seqs, HasRow(u)
              PROVE  /\ Chained(u, srow[u].seg)' /\ srow'[u].seg.lease \in 1..leaseNo'
                     /\ srow'[u].st # "DURABLE" => AllTerminal'
            BY <1>2, <1>7, <3>2 DEF SgInv, RowShape, Chained, HashOf, AllTerminal
        <3> QED
            BY <1>2, <1>7, <3>1, <3>2 DEF RowShape, HasRow
    <2>4. LooseShape'
        <3>1. ASSUME NEW u \in Seqs, Loose(u)'
              PROVE  Chained(u, doc[u])' /\ doc'[u].lease \in 1..leaseNo' /\ Unbound(doc[u].ops)'
            <4>1. Loose(u) /\ doc'[u] = doc[u]
                BY <1>3, <1>7, <2>1, <3>1 DEF Loose, HasRow
            <4> QED
                BY <1>2, <1>7, <4>1 DEF SgInv, LooseShape, Chained, HashOf, Unbound
        <3> QED
            BY <3>1 DEF LooseShape
    <2>5. SeenShape'
        <3>1. ASSUME NEW v \in SgThreads, NEW x \in scan[v].seen
              PROVE  x[2] # NoSeg /\ (HasRow(x[1]) \/ doc'[x[1]] = x[2] \/ x[1] \in lost)
            <4>1. x[1] \in Seqs
                BY <1>2, <3>1 DEF SgTypes, Scans
            <4> QED
                BY <1>3, <2>1, <3>1, <4>1 DEF SgInv, SeenShape
        <3> QED
            BY <1>2, <1>7, <3>1 DEF SeenShape, HasRow
    <2> QED
        BY <1>5, <2>2, <2>3, <2>4, <2>5 DEF SgInv
<1> QED
    BY <1>1, <1>3, <1>6, <1>7 DEF ReconciliationReady, RemoveDocument

\* Nothing is published at first.
LEMMA SgInitInv == SgInit => SgInv
<1> SUFFICES ASSUME SgInit PROVE SgInv
    OBVIOUS
<1>1. /\ \A s \in Seqs : srow[s].st = "none" /\ doc[s] = NoSeg
      /\ \A o \in SgOps : ph[o] = "EARLY"
      /\ \A t \in SgThreads : scan[t].seen = {} /\ scan[t].ok /\ scan[t].pc \in {"scan", "done"}
    BY SgConstants DEF SgInit, NewScan
<1>2. SgTypes
    <2>1. scan \in [SgThreads -> Scans]
        BY DEF SgInit, NewScan, Scans
    <2> QED
        BY <2>1, SgConstants DEF SgInit, SgTypes, SgPhases
<1>3. RowsInOrder
    <2>1. 0 \in 0..(MaxSeq + 1) /\ \A s \in Seqs : ~(s < 0)
        BY SgConstants DEF Seqs
    <2> QED
        BY <1>1, <2>1 DEF RowsInOrder, HasRow
<1>4. RowShape /\ LooseShape /\ IntentRow /\ SeenShape
    BY <1>1 DEF RowShape, LooseShape, IntentRow, SeenShape, HasRow, Loose
<1>5. ExecShape /\ ScanShape /\ SafeShape
    BY <1>1, SgConstants DEF SgInit, ExecShape, ScanShape, SafeShape
<1> QED
    BY <1>2, <1>3, <1>4, <1>5 DEF SgInv

\* Every step keeps the invariant.
LEMMA SgStepInv == SgInv /\ [SgNext]_sgVars => SgInv'
<1> SUFFICES ASSUME SgInv, [SgNext]_sgVars PROVE SgInv'
    OBVIOUS
<1>1. CASE \/ CleanupStep \/ PublishSegment \/ PublishDocument \/ PublishRow \/ BindOperation
           \/ ResumeLease \/ PauseLease \/ StepFailsSg \/ SgCrash
    BY <1>1, CleanupStepSg, PublishSegmentStep, PublishDocumentStep, PublishRowStep,
       BindOperationStep, LeaseStep, StepFailsSgStep, SgCrashStep
<1>2. CASE \E o \in SgOps : CommitOperation(o) \/ RefreshIntent(o) \/ RebindLease(o) \/ StageOperation(o)
    BY <1>2, CommitStepSg, RefreshIntentStep, RebindStepSg, StageStepSg
<1>3. CASE \E t \in SgThreads : ScanStep(t)
    BY <1>3, ScanTargetStep, ReconcileDocumentStep, FinishScanStep DEF ScanStep
<1>4. CASE \E s \in Seqs : LoseDocument(s)
    BY <1>4, LoseDocumentStep
<1>5. CASE UNCHANGED sgVars
    <2>1. SgTypes' /\ RowsInOrder' /\ IntentRow' /\ SeenShape' /\ ScanShape'
        BY <1>5 DEF sgVars, SgInv, SgTypes, RowsInOrder, HasRow, IntentRow, SeenShape, ScanShape
    <2>2. RowShape'
        BY <1>5 DEF sgVars, SgInv, RowShape, HasRow, Chained, HashOf, AllTerminal
    <2>3. LooseShape'
        BY <1>5 DEF sgVars, SgInv, LooseShape, Loose, HasRow, Chained, HashOf, Unbound
    <2>4. ExecShape'
        BY <1>5 DEF sgVars, SgInv, ExecShape, Loose, HasRow, Chained, HashOf, Unbound
    <2>5. SafeShape'
        BY <1>5 DEF sgVars, SgInv, SafeShape, Excused, RefreshLeftBehind, Contradicted
    <2> QED
        BY <2>1, <2>2, <2>3, <2>4, <2>5 DEF SgInv
<1> QED
    BY <1>1, <1>2, <1>3, <1>4, <1>5 DEF SgNext, ExecStep

\* The invariant of the segments holds.
LEMMA SgInvariance == SgSpec => []SgInv
<1> QED
    BY SgInitInv, SgStepInv, PTL DEF SgSpec

\* Operations, segments, rows and the executor keep their types.
THEOREM SegmentTypes == SgSpec => []SgTypeOK
<1>1. SgInv => SgTypeOK
    BY DEF SgInv, SgTypes, SgTypeOK, SgPhases, Rows, RowStates, Execs
<1> QED
    BY <1>1, SgInvariance, PTL

\* Whatever the host was doing when it stopped, its next reconciliation explains
\* what it finds, except the three things it cannot (recovery_intent_reconciliation):
\* for any number of operations, leases, threads' orders and crashes.
THEOREM RestartIsSafe == SgSpec => []StartIsSafe
<1>1. SgInv => StartIsSafe
    BY DEF SgInv, SafeShape, Excused, StartIsSafe
<1> QED
    BY <1>1, SgInvariance, PTL

\* An operation that may be committed is backed by a durable row that names it and
\* by the same document on the target, unless somebody removed that.
THEOREM IntentsAreEvidenced == SgSpec => []IntentIsEvidenced
<1>1. SgInv => IntentIsEvidenced
    <2> SUFFICES ASSUME SgInv, NEW o \in SgOps, ph[o] = "INTENT"
                 PROVE  /\ bound[o] \in Seqs /\ srow[bound[o]].st = "DURABLE"
                        /\ o \in srow[bound[o]].seg.ops
                        /\ doc[bound[o]] = srow[bound[o]].seg \/ bound[o] \in lost
        BY DEF IntentIsEvidenced
    <2>1. bound[o] \in Seqs /\ HasRow(bound[o]) /\ o \in srow[bound[o]].seg.ops
        BY DEF SgInv, IntentRow
    <2>2. ~AllTerminal
        BY DEF AllTerminal
    <2> QED
        BY <2>1, <2>2 DEF SgInv, RowShape
<1> QED
    BY <1>1, SgInvariance, PTL

\* A document and the row of its number never disagree, unless somebody removed a
\* document, and the rows form a chain.
THEOREM DocumentsAgree == SgSpec => []DocumentsMatchRows
<1>1. SgInv => DocumentsMatchRows
    BY DEF SgInv, RowShape, HasRow, DocumentsMatchRows
<1> QED
    BY <1>1, SgInvariance, PTL

\* While an operation of the run target is unfinished, no step of the program
\* removes a document.
THEOREM EvidenceOutlivesWork == SgSpec => DocumentsOutliveWork
<1> DEFINE A == (\E s \in Seqs : doc[s] # NoSeg /\ doc'[s] = NoSeg /\ s \notin lost') => AllTerminal
<1>1. ASSUME SgInv, CleanupStep PROVE A
    BY <1>1, CleanupStepSg
<1>2. ASSUME SgInv, PublishDocument PROVE A
    <2>1. exec.s \in Seqs /\ exec.seg # NoSeg /\ doc \in [Seqs -> Segs]
        BY <1>2, BusyFacts DEF PublishDocument, SgInv, SgTypes
    <2>2. \A s \in Seqs : doc'[s] = NoSeg => doc[s] = NoSeg
        BY <1>2, <2>1 DEF PublishDocument
    <2> QED
        BY <2>2
<1>3. ASSUME SgInv, NEW s \in Seqs, LoseDocument(s) PROVE A
    <2>1. /\ doc \in [Seqs -> Segs] /\ doc' = [doc EXCEPT ![s] = NoSeg] /\ s \in lost'
        BY <1>3 DEF SgInv, SgTypes, LoseDocument
    <2> QED
        BY <2>1
<1>4. ASSUME UNCHANGED doc PROVE A
    BY <1>4
<1>5. SgInv /\ [SgNext]_sgVars => A
    <2> SUFFICES ASSUME SgInv, [SgNext]_sgVars PROVE A
        OBVIOUS
    <2> HIDE DEF A
    <2>1. CASE UNCHANGED sgVars
        BY <1>4, <2>1 DEF sgVars
    <2>2. CASE CleanupStep \/ PublishDocument \/ \E s \in Seqs : LoseDocument(s)
        BY <1>1, <1>2, <1>3, <2>2
    <2>3. CASE \/ PublishSegment \/ PublishRow \/ BindOperation \/ ResumeLease
               \/ StepFailsSg \/ PauseLease \/ SgCrash
        BY <1>4, <2>3 DEF PublishSegment, PublishRow, BindOperation, ResumeLease, StepFailsSg,
           PauseLease, SgCrash
    <2>4. CASE \E o \in SgOps :
                  CommitOperation(o) \/ RefreshIntent(o) \/ RebindLease(o) \/ StageOperation(o)
        BY <1>4, <2>4 DEF CommitOperation, RefreshIntent, RebindLease, StageOperation
    <2>5. CASE \E t \in SgThreads : ScanStep(t)
        BY <1>4, <2>5 DEF ScanStep, ScanTarget, ReconcileDocument, FinishScan
    <2> QED
        BY <2>1, <2>2, <2>3, <2>4, <2>5 DEF SgNext, ExecStep
<1> QED
    BY <1>5, SgInvariance, PTL DEF SgSpec, DocumentsOutliveWork

-----------------------------------------------------------------------------
(* Staging: the inductive invariant.  The files of a batch wait for their    *)
(* transfer and its head is the first operation that is not staged; the      *)
(* journal holds the hash of everything past PLANNED, never of a torn copy.  *)

PhaseNames ==
    {"PLANNED", "SOURCE_VALIDATED", "SOURCE_STABILITY_BOUND", "TARGET_PRECONDITION_VALIDATED",
     "STAGING_ALLOCATED", "TRANSFERRED", "STAGING_DURABLE", "STAGING_VERIFIED", "SKIPPED"}
Copied == {"TRANSFERRED", "STAGING_DURABLE", "STAGING_VERIFIED"}
Entries == [file : Files, holds : TfContents \ {None}]
OneEachFile(es) == \A d, e \in es : d.file = e.file => d = e
TfTypes ==
    /\ sphase \in [TfOps -> PhaseNames] /\ sfails \in [TfOps -> 0..StagingAttempts]
    /\ fp \in [TfOps -> {None, "plan", "twin", "marker"}]
    /\ src \in [TfOps -> TfContents] /\ met \subseteq TfOps
    /\ payload \in [TfOps -> TfContents] /\ inbox \in [TfOps -> SUBSET Entries]
    /\ at \in {"idle", "launch", "wait", "publish", "link"} /\ batch \in SUBSET Files
    /\ stray \in TfOps \cup {Never, Over} /\ recent \in SUBSET Files
    /\ online \in BOOLEAN /\ waits \in BOOLEAN
InboxShape == \A b \in TfOps : OneEachFile(inbox[b])
TimerShape == timer \subseteq TfPending
FailShape == \A o \in TfOps : sphase[o] # "SKIPPED" => sfails[o] < StagingAttempts
HashShape == \A o \in TfOps : sphase[o] \notin {"PLANNED", "SKIPPED"} => fp[o] # None
ChildShape ==
    /\ at = "launch" => child \in {"suspended", "assigned"}
    /\ at = "wait" => child \in {"running", "copied", "failed"}
    /\ at \notin {"launch", "wait"} => child = None
BatchShape ==
    /\ at = "idle" => batch = {}
    /\ at # "idle" =>
         /\ Head \in batch /\ Cardinality(batch) <= BatchLimit
         /\ \A f \in batch : sphase[f] = "STAGING_ALLOCATED"
         /\ \A o \in TfOps : o < Head => Staged(o)

TfInv ==
    /\ TfTypes /\ InboxShape /\ TimerShape /\ FailShape /\ HashShape /\ ChildShape
    /\ BatchShape /\ InPlanOrder /\ VerifiedIsJournaled

\* What is assumed of the plan, and of the files in it.
LEMMA StConstants ==
    /\ TfOps \subseteq Nat /\ IsFiniteSet(TfOps) /\ Files \subseteq TfOps /\ DirOps \subseteq TfOps
    /\ StagingAttempts \in Nat \ {0} /\ BatchLimit \in Nat \ {0} /\ TfPending \subseteq TfOps
    BY TfAssumption DEF Files, TfPending

\* The least of a nonempty set of operations is one of them.
LEMMA LeastIn ==
    ASSUME NEW S \in SUBSET Nat, S # {}
    PROVE  Min(S) \in S /\ \A x \in S : Min(S) <= x
<1>1. \E x \in S : \A y \in S : x <= y
    BY LeastElement
<1> QED
    BY <1>1 DEF Min

\* The rank of an operation is the place of its phase.
LEMMA RankIs ==
    ASSUME NEW o, NEW i \in 1..8, sphase[o] = Phases[i]
    PROVE  Rank(o) = i
<1>1. DOMAIN Phases = 1..8
    BY DEF Phases
<1>2. \A j, k \in 1..8 : Phases[j] = Phases[k] => j = k
    BY DEF Phases
<1>3. \E k \in DOMAIN Phases : Phases[k] = sphase[o]
    BY <1>1
<1>4. Rank(o) \in DOMAIN Phases /\ Phases[Rank(o)] = sphase[o]
    BY <1>3, Zenon DEF Rank
<1> QED
    BY <1>1, <1>2, <1>4

\* The phases in order.
LEMMA Ranks ==
    ASSUME NEW o
    PROVE  /\ sphase[o] = "PLANNED" => Rank(o) = 1 /\ Phases[Rank(o) + 1] = "SOURCE_VALIDATED"
           /\ sphase[o] = "SOURCE_VALIDATED" => Rank(o) = 2 /\ Phases[Rank(o) + 1] = "SOURCE_STABILITY_BOUND"
           /\ sphase[o] = "SOURCE_STABILITY_BOUND" =>
                Rank(o) = 3 /\ Phases[Rank(o) + 1] = "TARGET_PRECONDITION_VALIDATED"
           /\ sphase[o] = "TARGET_PRECONDITION_VALIDATED" => Rank(o) = 4 /\ Phases[Rank(o) + 1] = "STAGING_ALLOCATED"
           /\ sphase[o] = "STAGING_ALLOCATED" => Rank(o) = 5 /\ Phases[Rank(o) + 1] = "TRANSFERRED"
           /\ sphase[o] = "TRANSFERRED" => Rank(o) = 6 /\ Phases[Rank(o) + 1] = "STAGING_DURABLE"
           /\ sphase[o] = "STAGING_DURABLE" => Rank(o) = 7 /\ Phases[Rank(o) + 1] = "STAGING_VERIFIED"
<1>1. /\ Phases[1] = "PLANNED" /\ Phases[2] = "SOURCE_VALIDATED" /\ Phases[3] = "SOURCE_STABILITY_BOUND"
      /\ Phases[4] = "TARGET_PRECONDITION_VALIDATED" /\ Phases[5] = "STAGING_ALLOCATED"
      /\ Phases[6] = "TRANSFERRED" /\ Phases[7] = "STAGING_DURABLE" /\ Phases[8] = "STAGING_VERIFIED"
    BY DEF Phases
<1> QED
    BY <1>1, RankIs

\* An operation whose transfer is next, or past, is the first that is not staged.
LEMMA TakesFirst ==
    ASSUME TfTypes, NEW o \in TfOps, NEW phase \in PhaseNames \ {"STAGING_VERIFIED", "SKIPPED"},
           Takes(o, phase)
    PROVE  /\ at = "idle" /\ sphase[o] = phase /\ o \in TfPending /\ o \notin timer
           /\ phase \in {"STAGING_ALLOCATED", "TRANSFERRED", "STAGING_DURABLE"} =>
                \A p \in TfOps : p < o => Staged(p)
<1>1. at = "idle" /\ sphase[o] = phase /\ o \in TfPending /\ o \notin timer /\ o = NextStaging
    BY DEF Takes, TfPending, Staged, StagingDue
<1>2. ASSUME phase \in {"STAGING_ALLOCATED", "TRANSFERRED", "STAGING_DURABLE"}
      PROVE  o = Min(TfPending)
    <2> DEFINE preparing == {p \in TfPending : Rank(p) < Allocated}
    <2>1. Rank(o) \in {5, 6, 7}
        BY <1>1, <1>2, Ranks
    <2>2. o \notin preparing
        BY <2>1 DEF Allocated
    <2>3. preparing # {} => Min(preparing) \in preparing
        BY LeastIn, StConstants
    <2>4. NextStaging = Min(TfPending) \/ (preparing # {} /\ NextStaging = Min(preparing))
        BY Zenon DEF NextStaging
    <2> QED
        BY <1>1, <2>2, <2>3, <2>4
<1>3. ASSUME o = Min(TfPending), NEW p \in TfOps, p < o PROVE Staged(p)
    <2>1. p \in TfPending => o <= p
        BY <1>1, <1>3, LeastIn, StConstants
    <2>2. o \in Nat /\ p \in Nat
        BY StConstants
    <2> QED
        BY <1>3, <2>1, <2>2 DEF TfPending
<1> QED
    BY <1>1, <1>2, <1>3

\* Every finite set of numbers has a first part of every size.
LEMMA FirstPart ==
    ASSUME NEW F \in SUBSET Nat, IsFiniteSet(F), NEW n \in Nat, n <= Cardinality(F)
    PROVE  \E B \in SUBSET F : Cardinality(B) = n /\ \A f \in B, g \in F \ B : f < g
<1> DEFINE Has(m) == \E B \in SUBSET F : Cardinality(B) = m /\ \A f \in B, g \in F \ B : f < g
           Lacks == {m \in Nat : m <= Cardinality(F) /\ ~Has(m)}
<1>1. Cardinality(F) \in Nat
    BY FS_CardinalityType
<1>2. ASSUME Lacks # {} PROVE FALSE
    <2>1. PICK m \in Lacks : \A k \in Lacks : m <= k
        BY <1>2, LeastElement
    <2>2. m # 0
        <3>1. Cardinality({}) = 0
            BY FS_EmptySet
        <3>2. Has(0)
            BY <3>1
        <3> QED
            BY <2>1, <3>2
    <2>3. m \in Nat /\ m - 1 \in Nat /\ m <= Cardinality(F) /\ ~Has(m) /\ m - 1 <= Cardinality(F)
        BY <1>1, <2>1, <2>2
    <2>4. Has(m - 1)
        <3>1. m - 1 \notin Lacks
            BY <2>1, <2>3
        <3> QED
            BY <2>3, <3>1
    <2>5. PICK B \in SUBSET F : Cardinality(B) = m - 1 /\ \A f \in B, g \in F \ B : f < g
        BY <2>4
    <2>6. F \ B # {}
        <3>1. B # F
            BY <1>1, <2>3, <2>5
        <3> QED
            BY <3>1
    <2>7. PICK x \in F \ B : \A y \in F \ B : x <= y
        BY <2>6, LeastElement
    <2>8. IsFiniteSet(B)
        BY FS_Subset
    <2>9. Cardinality(B \cup {x}) = m
        <3>1. x \notin B /\ Cardinality(B \cup {x}) = Cardinality(B) + 1
            BY <2>7, <2>8, FS_AddElement
        <3> QED
            BY <2>3, <2>5, <3>1
    <2>10. \A f \in B \cup {x}, g \in F \ (B \cup {x}) : f < g
        BY <2>5, <2>7
    <2> QED
        BY <2>3, <2>9, <2>10
<1> QED
    BY <1>2

\* A batch of the files that wait: the head is in it, and it is not too large.
LEMMA SelectedIs ==
    ASSUME TfTypes, NEW o \in TfOps, o \in Files, sphase[o] = "STAGING_ALLOCATED"
    PROVE  /\ o \in Selected(o) /\ Selected(o) \in SUBSET Files
           /\ Cardinality(Selected(o)) <= BatchLimit
           /\ \A f \in Selected(o) : sphase[f] = "STAGING_ALLOCATED"
<1> DEFINE fit == {f \in Files : /\ sphase[f] = "STAGING_ALLOCATED" /\ StagingDue(f)
                                 /\ payload[f] = None /\ SameIdentity(f)}
           Fits(B) == /\ o \in B /\ Cardinality(B) <= BatchLimit
                      /\ \/ B = fit \cup {o}
                         \/ /\ Cardinality(B) = BatchLimit
                            /\ \A f \in B \ {o}, g \in fit \ B : f < g
<1>1. /\ fit \in SUBSET Files /\ \A f \in fit \cup {o} : sphase[f] = "STAGING_ALLOCATED"
      /\ Files \in SUBSET Nat /\ IsFiniteSet(Files)
    BY StConstants, FS_Subset
<1>2. Selected(o) = CHOOSE B \in SUBSET (fit \cup {o}) : Fits(B)
    BY Zenon DEF Selected
<1> HIDE DEF fit
<1>3. \E B \in SUBSET (fit \cup {o}) : Fits(B)
    <2>1. IsFiniteSet(fit \cup {o}) /\ IsFiniteSet(fit \ {o})
        BY <1>1, FS_Subset
    <2>2. Cardinality(fit \cup {o}) \in Nat /\ Cardinality(fit \ {o}) \in Nat /\ BatchLimit \in Nat \ {0}
        BY <2>1, FS_CardinalityType, StConstants
    <2>3. CASE Cardinality(fit \cup {o}) <= BatchLimit
        BY <2>3
    <2>4. CASE ~(Cardinality(fit \cup {o}) <= BatchLimit)
        <3>1. Cardinality((fit \ {o}) \cup {o}) = Cardinality(fit \ {o}) + 1
            BY <2>1, FS_AddElement
        <3>2. (fit \ {o}) \cup {o} = fit \cup {o}
            OBVIOUS
        <3>3. BatchLimit - 1 \in Nat /\ BatchLimit - 1 <= Cardinality(fit \ {o})
            BY <2>2, <2>4, <3>1, <3>2
        <3>4. fit \ {o} \in SUBSET Nat
            BY <1>1
        <3>5. PICK B \in SUBSET (fit \ {o}) :
                  Cardinality(B) = BatchLimit - 1 /\ \A f \in B, g \in (fit \ {o}) \ B : f < g
            <4> DEFINE F == fit \ {o}
                       n == BatchLimit - 1
            <4>1. F \in SUBSET Nat /\ IsFiniteSet(F) /\ n \in Nat /\ n <= Cardinality(F)
                BY <2>1, <3>3, <3>4
            <4> HIDE DEF F, n
            <4>2. \E B \in SUBSET F : Cardinality(B) = n /\ \A f \in B, g \in F \ B : f < g
                BY <4>1, FirstPart
            <4> QED
                BY <4>2, Zenon DEF F, n
        <3>6. IsFiniteSet(B) /\ o \notin B
            BY <2>1, <3>5, FS_Subset
        <3>7. Cardinality(B \cup {o}) = Cardinality(B) + 1
            BY <3>6, FS_AddElement
        <3>8. Cardinality(B \cup {o}) = BatchLimit
            BY <2>2, <3>5, <3>7
        <3>9. \A f \in (B \cup {o}) \ {o}, g \in fit \ (B \cup {o}) : f < g
            BY <3>5, <3>6
        <3>10. B \cup {o} \in SUBSET (fit \cup {o}) /\ o \in B \cup {o} /\ BatchLimit <= BatchLimit
            BY <2>2, <3>5
        <3> QED
            BY <3>8, <3>9, <3>10
    <2> QED
        BY <2>3, <2>4
<1> HIDE DEF Fits
<1>4. Selected(o) \in SUBSET (fit \cup {o}) /\ Fits(Selected(o))
    BY <1>2, <1>3, Zenon
<1> QED
    BY <1>1, <1>4 DEF Fits

\* The part of the invariant that is about the journal.
JournalTypes ==
    /\ sphase \in [TfOps -> PhaseNames] /\ sfails \in [TfOps -> 0..StagingAttempts]
    /\ fp \in [TfOps -> {None, "plan", "twin", "marker"}]
JournalInv == JournalTypes /\ TimerShape /\ FailShape /\ HashShape /\ InPlanOrder

\* The journal has its part of the invariant.
LEMMA JournalHolds == TfInv => JournalInv
    BY DEF TfInv, TfTypes, JournalTypes, JournalInv

\* The parts that make up the invariant.
LEMMA TfParts ==
    ASSUME JournalInv', VerifiedIsJournaled', BatchShape', ChildShape', InboxShape',
           src' \in [TfOps -> TfContents], met' \in SUBSET TfOps,
           payload' \in [TfOps -> TfContents], inbox' \in [TfOps -> SUBSET Entries],
           at' \in {"idle", "launch", "wait", "publish", "link"}, batch' \in SUBSET Files,
           stray' \in TfOps \cup {Never, Over}, recent' \in SUBSET Files,
           online' \in BOOLEAN, waits' \in BOOLEAN
    PROVE  TfInv'
    BY DEF TfInv, TfTypes, JournalTypes, JournalInv

\* A step that leaves the journal alone.
LEMMA JournalStays ==
    ASSUME JournalInv, UNCHANGED <<sphase, sfails, timer, fp>>
    PROVE  JournalInv' /\ \A o \in TfOps : Staged(o)' = Staged(o)
<1>1. \A o \in TfOps : Staged(o)' = Staged(o)
    BY DEF Staged
<1>2. TimerShape'
    BY DEF JournalInv, TimerShape, TfPending, Staged
<1> QED
    BY <1>1, <1>2 DEF JournalInv, JournalTypes, FailShape, HashShape, InPlanOrder

\* A batch that no step touches stays as it is.
LEMMA BatchStays ==
    ASSUME BatchShape, UNCHANGED <<sphase, at, batch>>
    PROVE  BatchShape'
    BY DEF BatchShape, Head, Staged

\* Nothing is required of a batch that has ended.
LEMMA BatchEnds ==
    ASSUME at' = "idle", batch' = {}, child' = None
    PROVE  BatchShape' /\ ChildShape'
    BY DEF BatchShape, ChildShape

\* One operation goes to its next phase.
LEMMA OneAdvances ==
    ASSUME JournalInv, NEW o \in TfOps, ~Staged(o), NEW q \in PhaseNames \ {"PLANNED", "SKIPPED"},
           sphase' = [sphase EXCEPT ![o] = q], UNCHANGED <<sfails, timer>>,
           fp' \in [TfOps -> {None, "plan", "twin", "marker"}], fp'[o] # None,
           \A p \in TfOps : p # o => fp'[p] = fp[p],
           q = "STAGING_VERIFIED" => o \notin timer,
           q \in Copied => \A p \in TfOps : p < o => Staged(p)
    PROVE  /\ JournalInv' /\ \A p \in TfOps : Staged(p) => Staged(p)'
           /\ sphase'[o] = q /\ \A p \in TfOps : p # o => sphase'[p] = sphase[p]
<1>1. /\ sphase' \in [TfOps -> PhaseNames] /\ sphase'[o] = q
      /\ \A p \in TfOps : p # o => sphase'[p] = sphase[p]
    BY DEF JournalInv, JournalTypes
<1>2. \A p \in TfOps : /\ Staged(p) => Staged(p)'
                       /\ p # o => Staged(p)' = Staged(p)
    BY <1>1 DEF Staged
<1>3. TimerShape'
    <2>1. ASSUME NEW p \in timer PROVE p \in TfOps /\ ~Staged(p)'
        <3>1. p \in TfOps /\ ~Staged(p)
            BY <2>1 DEF JournalInv, TimerShape, TfPending
        <3>2. p = o => q # "STAGING_VERIFIED"
            BY <2>1
        <3> QED
            BY <1>1, <1>2, <3>1, <3>2 DEF Staged
    <2> QED
        BY <2>1 DEF TimerShape, TfPending
<1>4. FailShape' /\ HashShape'
    <2>1. FailShape'
        BY <1>1 DEF JournalInv, FailShape, Staged
    <2>2. HashShape'
        BY <1>1 DEF JournalInv, HashShape
    <2> QED
        BY <2>1, <2>2
<1>5. InPlanOrder'
    <2> SUFFICES ASSUME NEW p \in TfOps, NEW r \in TfOps, p < r, sphase'[r] \in Copied
                 PROVE  Staged(p)'
        BY DEF InPlanOrder, Copied
    <2>1. CASE r = o
        BY <1>1, <1>2, <2>1
    <2>2. CASE r # o
        BY <1>1, <1>2, <2>2 DEF JournalInv, InPlanOrder, Copied
    <2> QED
        BY <2>1, <2>2
<1> QED
    BY <1>1, <1>2, <1>3, <1>4, <1>5 DEF JournalInv, JournalTypes

\* A failure is counted, or the last one gives the file up.
LEMMA OneFails ==
    ASSUME JournalInv, NEW o \in TfOps, ~Staged(o), RecordStagingFailure(o)
    PROVE  /\ JournalInv' /\ \A p \in TfOps : Staged(p) => Staged(p)'
           /\ \A p \in TfOps : sphase'[p] = sphase[p] \/ (p = o /\ sphase'[p] = "SKIPPED")
<1>1. /\ sfails[o] \in Nat /\ sfails[o] < StagingAttempts /\ StagingAttempts \in Nat \ {0}
      /\ fp' = fp
    BY StConstants DEF JournalInv, JournalTypes, FailShape, Staged, RecordStagingFailure
<1>2. /\ sfails' \in [TfOps -> 0..StagingAttempts] /\ sfails'[o] = sfails[o] + 1
      /\ \A p \in TfOps : p # o => sfails'[p] = sfails[p]
    BY <1>1 DEF JournalInv, JournalTypes, RecordStagingFailure
<1>3. CASE StagingExhausted(sfails'[o])
    <2>1. sphase' = [sphase EXCEPT ![o] = "SKIPPED"] /\ timer' = timer \ {o}
        BY <1>3 DEF RecordStagingFailure
    <2>2. /\ sphase' \in [TfOps -> PhaseNames] /\ sphase'[o] = "SKIPPED"
          /\ \A p \in TfOps : p # o => sphase'[p] = sphase[p]
        BY <2>1 DEF JournalInv, JournalTypes, PhaseNames
    <2>3. \A p \in TfOps : /\ Staged(p) => Staged(p)'
                           /\ p # o => Staged(p)' = Staged(p)
        BY <2>2 DEF Staged
    <2>4. TimerShape'
        BY <2>1, <2>3 DEF JournalInv, TimerShape, TfPending
    <2>5. FailShape' /\ HashShape'
        BY <1>1, <1>2, <2>2 DEF JournalInv, FailShape, HashShape
    <2>6. InPlanOrder'
        BY <2>2, <2>3 DEF JournalInv, InPlanOrder
    <2> QED
        BY <1>1, <1>2, <2>2, <2>3, <2>4, <2>5, <2>6 DEF JournalInv, JournalTypes
<1>4. CASE ~StagingExhausted(sfails'[o])
    <2>1. sphase' = sphase /\ timer' = timer \cup {o}
        BY <1>4 DEF RecordStagingFailure
    <2>2. \A p \in TfOps : Staged(p)' = Staged(p)
        BY <2>1 DEF Staged
    <2>3. TimerShape'
        BY <2>1, <2>2 DEF JournalInv, TimerShape, TfPending
    <2>4. sfails'[o] < StagingAttempts
        BY <1>1, <1>2, <1>4 DEF StagingExhausted
    <2>5. FailShape' /\ HashShape' /\ InPlanOrder'
        BY <1>1, <1>2, <2>1, <2>2, <2>4 DEF JournalInv, FailShape, HashShape, InPlanOrder
    <2> QED
        BY <1>1, <1>2, <2>1, <2>2, <2>3, <2>5 DEF JournalInv, JournalTypes
<1> QED
    BY <1>3, <1>4

\* A failure while an endpoint is away is a wait instead.
LEMMA OneCounts ==
    ASSUME JournalInv, NEW o \in TfOps, ~Staged(o), CountFailure(o), waits \in BOOLEAN
    PROVE  /\ JournalInv' /\ \A p \in TfOps : Staged(p) => Staged(p)'
           /\ \A p \in TfOps : sphase'[p] = sphase[p] \/ (p = o /\ sphase'[p] = "SKIPPED")
           /\ waits' \in BOOLEAN
<1>1. CASE online
    BY <1>1, OneFails DEF CountFailure
<1>2. CASE ~online
    <2>1. UNCHANGED <<sphase, sfails, timer, fp>> /\ waits' = TRUE
        BY <1>2 DEF CountFailure, tfJournal
    <2> QED
        BY <2>1, JournalStays
<1> QED
    BY <1>1, <1>2

\* What is verified keeps its payload.
LEMMA VerifiedStays ==
    ASSUME VerifiedIsJournaled, UNCHANGED fp,
           \A p \in TfOps : sphase'[p] = "STAGING_VERIFIED" => sphase[p] = "STAGING_VERIFIED",
           \A p \in TfOps : sphase[p] = "STAGING_VERIFIED" => payload'[p] = payload[p]
    PROVE  VerifiedIsJournaled'
    BY DEF VerifiedIsJournaled

\* What the inboxes hold.
LEMMA CopiesShape ==
    ASSUME inbox \in [TfOps -> SUBSET Entries], InboxShape, src \in [TfOps -> TfContents],
           NEW b \in TfOps, NEW files \in SUBSET Files, Copies(b, files)
    PROVE  inbox' \in [TfOps -> SUBSET Entries] /\ InboxShape'
<1> DEFINE left == {f \in files : \A e \in inbox[b] : e.file # f}
<1>0. \A e \in inbox[b] : e \in Entries
    OBVIOUS
<1>1. CASE left # {} /\ inbox' = [inbox EXCEPT ![b] = @ \cup {[file |-> Min(left), holds |-> "part"]}]
    <2>1. Min(left) \in left
        BY <1>1, LeastIn, StConstants
    <2>2. PICK new : new = [file |-> Min(left), holds |-> "part"]
        OBVIOUS
    <2>3. new \in Entries /\ new.file = Min(left)
        BY <2>1, <2>2 DEF Entries, TfContents, None
    <2>4. /\ inbox' \in [TfOps -> SUBSET Entries] /\ inbox'[b] = inbox[b] \cup {new}
          /\ \A c \in TfOps : c # b => inbox'[c] = inbox[c]
        BY <1>1, <2>2, <2>3
    <2>5. OneEachFile(inbox'[b])
        BY <2>1, <2>3, <2>4 DEF InboxShape, OneEachFile
    <2> QED
        BY <2>4, <2>5 DEF InboxShape
<1>2. ASSUME NEW e \in inbox[b], src[e.file] # None,
             inbox' = [inbox EXCEPT ![b] = (@ \ {e}) \cup {[file |-> e.file, holds |-> src[e.file]]}]
      PROVE  inbox' \in [TfOps -> SUBSET Entries] /\ InboxShape'
    <2>1. PICK new : new = [file |-> e.file, holds |-> src[e.file]]
        OBVIOUS
    <2>2. new \in Entries /\ new.file = e.file
        <3>1. e.file \in Files /\ e.file \in TfOps
            BY <1>0, <1>2, StConstants DEF Entries
        <3> QED
            BY <1>2, <2>1, <3>1 DEF Entries
    <2>3. /\ inbox' \in [TfOps -> SUBSET Entries] /\ inbox'[b] = (inbox[b] \ {e}) \cup {new}
          /\ \A c \in TfOps : c # b => inbox'[c] = inbox[c]
        BY <1>2, <2>1, <2>2
    <2>4. OneEachFile(inbox'[b])
        BY <1>2, <2>2, <2>3 DEF InboxShape, OneEachFile
    <2> QED
        BY <2>3, <2>4 DEF InboxShape
<1> QED
    BY <1>1, <1>2 DEF Copies

\* The inbox a transfer leaves behind.
LEMMA InboxEmptied ==
    ASSUME inbox \in [TfOps -> SUBSET Entries], InboxShape, NEW b \in TfOps,
           inbox' \in {inbox, [inbox EXCEPT ![b] = {}]}
    PROVE  inbox' \in [TfOps -> SUBSET Entries] /\ InboxShape'
    BY DEF InboxShape, OneEachFile

\* A step of the executor that takes one operation to its next phase.
LEMMA TakenStep ==
    ASSUME TfInv, NEW o \in TfOps, NEW phase \in PhaseNames \ {"STAGING_VERIFIED", "SKIPPED"},
           Takes(o, phase), Advance(o),
           fp' \in [TfOps -> {None, "plan", "twin", "marker"}], fp'[o] # None,
           \A p \in TfOps : p # o => fp'[p] = fp[p] /\ payload'[p] = payload[p],
           payload' \in [TfOps -> TfContents],
           phase = "STAGING_DURABLE" => payload'[o] = fp'[o],
           UNCHANGED <<src, met, inbox, at, batch, child, stray, recent, online, waits>>
    PROVE  TfInv'
<1> DEFINE q == Phases[Rank(o) + 1]
<1>1. /\ at = "idle" /\ sphase[o] = phase /\ ~Staged(o) /\ o \notin timer
      /\ phase \in {"STAGING_ALLOCATED", "TRANSFERRED", "STAGING_DURABLE"} =>
                \A p \in TfOps : p < o => Staged(p)
    BY TakesFirst DEF TfInv, TfPending
<1>2. /\ q \in PhaseNames \ {"PLANNED", "SKIPPED"}
      /\ q \in Copied => phase \in {"STAGING_ALLOCATED", "TRANSFERRED", "STAGING_DURABLE"}
      /\ q = "STAGING_VERIFIED" => phase = "STAGING_DURABLE"
    <2>1. phase \in {"PLANNED", "SOURCE_VALIDATED", "SOURCE_STABILITY_BOUND",
                     "TARGET_PRECONDITION_VALIDATED", "STAGING_ALLOCATED", "TRANSFERRED", "STAGING_DURABLE"}
        BY DEF PhaseNames
    <2> QED
        BY <1>1, <2>1, Ranks DEF PhaseNames, Copied
<1> HIDE DEF q
<1>3. sphase' = [sphase EXCEPT ![o] = q] /\ UNCHANGED <<sfails, timer>>
    BY DEF Advance, q
<1>4. /\ JournalInv' /\ sphase'[o] = q /\ \A p \in TfOps : p # o => sphase'[p] = sphase[p]
    <2>1. q \in Copied => \A p \in TfOps : p < o => Staged(p)
        BY <1>1, <1>2
    <2>2. JournalInv /\ ~Staged(o) /\ o \notin timer
        BY <1>1, JournalHolds
    <2>3. \A p \in TfOps : p # o => fp'[p] = fp[p]
        OBVIOUS
    <2> QED
        BY <1>2, <1>3, <2>1, <2>2, <2>3, OneAdvances
<1>5. VerifiedIsJournaled'
    BY <1>2, <1>4 DEF TfInv, VerifiedIsJournaled
<1>6. BatchShape' /\ ChildShape' /\ InboxShape'
    BY <1>1 DEF TfInv, BatchShape, ChildShape, InboxShape
<1> QED
    BY <1>4, <1>5, <1>6, TfParts DEF TfInv, TfTypes

\* The steps before the transfer advance one operation.
LEMMA PrepareStep ==
    ASSUME TfInv, NEW o \in TfOps,
           ValidateSource(o) \/ BindStability(o) \/ ValidateTarget(o) \/ AllocateStaging(o)
    PROVE  TfInv'
<1>1. /\ sphase \in [TfOps -> PhaseNames] /\ fp \in [TfOps -> {None, "plan", "twin", "marker"}]
      /\ payload \in [TfOps -> TfContents]
      /\ sphase[o] \notin {"PLANNED", "SKIPPED"} => fp[o] # None
    BY DEF TfInv, TfTypes, HashShape
<1>2. CASE ValidateSource(o)
    <2>1. PICK v \in {"plan", "twin", "marker"} : fp' = [fp EXCEPT ![o] = v]
        BY <1>2 DEF ValidateSource, SameIdentity
    <2>2. /\ fp' \in [TfOps -> {None, "plan", "twin", "marker"}] /\ fp'[o] # None
          /\ \A p \in TfOps : p # o => fp'[p] = fp[p]
        BY <1>1, <2>1 DEF None
    <2>3. /\ Takes(o, "PLANNED") /\ Advance(o)
          /\ UNCHANGED <<payload, src, met, inbox, at, batch, child, stray, recent, online, waits>>
        BY <1>2 DEF ValidateSource, tfDisk, tfHost, tfEnv
    <2>4. "PLANNED" \in PhaseNames \ {"STAGING_VERIFIED", "SKIPPED"}
        BY DEF PhaseNames
    <2> QED
        BY <1>1, <2>2, <2>3, <2>4, TakenStep
<1>3. CASE BindStability(o) \/ ValidateTarget(o) \/ AllocateStaging(o)
    <2>1. PICK phase \in {"SOURCE_VALIDATED", "SOURCE_STABILITY_BOUND", "TARGET_PRECONDITION_VALIDATED"} :
              Takes(o, phase)
        BY <1>3 DEF BindStability, ValidateTarget, AllocateStaging
    <2>2. /\ Advance(o)
          /\ UNCHANGED <<fp, payload, src, met, inbox, at, batch, child, stray, recent, online, waits>>
        BY <1>3 DEF BindStability, ValidateTarget, AllocateStaging, tfDisk, tfHost, tfEnv
    <2>3. fp[o] # None
        BY <1>1, <2>1 DEF Takes
    <2>4. phase \in PhaseNames \ {"STAGING_VERIFIED", "SKIPPED"} /\ phase # "STAGING_DURABLE"
        BY <2>1 DEF PhaseNames
    <2> QED
        BY <1>1, <2>1, <2>2, <2>3, <2>4, TakenStep
<1> QED
    BY <1>2, <1>3

\* A transfer that finds its payload there advances one operation.
LEMMA TransferStep ==
    ASSUME TfInv, NEW o \in TfOps, TransferDirectory(o) \/ TransferExisting(o)
    PROVE  TfInv'
<1>1. /\ Takes(o, "STAGING_ALLOCATED") /\ Advance(o)
      /\ payload' = payload \/ payload' = [payload EXCEPT ![o] = fp[o]]
      /\ UNCHANGED <<fp, src, met, inbox, at, batch, child, stray, recent, online, waits>>
    BY DEF TransferDirectory, TransferExisting, tfDisk, tfHost, tfEnv
<1>2. /\ fp \in [TfOps -> {None, "plan", "twin", "marker"}] /\ payload \in [TfOps -> TfContents]
      /\ fp[o] # None
    BY <1>1 DEF TfInv, TfTypes, HashShape, Takes
<1>3. payload' \in [TfOps -> TfContents] /\ \A p \in TfOps : p # o => payload'[p] = payload[p]
    <2>1. fp[o] \in TfContents
        BY <1>2 DEF TfContents
    <2> QED
        BY <1>1, <1>2, <2>1
<1>4. "STAGING_ALLOCATED" \in PhaseNames \ {"STAGING_VERIFIED", "SKIPPED"}
    BY DEF PhaseNames
<1> QED
    BY <1>1, <1>2, <1>3, <1>4, TakenStep

\* A payload is made durable and verified against the hash in the journal.
LEMMA FinishStep ==
    ASSUME TfInv, NEW o \in TfOps, EnsureDurable(o) \/ VerifyStaging(o)
    PROVE  TfInv'
<1>1. PICK phase \in {"TRANSFERRED", "STAGING_DURABLE"} :
          Takes(o, phase) /\ (phase = "STAGING_DURABLE" => payload[o] = fp[o])
    BY DEF EnsureDurable, VerifyStaging
<1>2. /\ Advance(o)
      /\ UNCHANGED <<fp, payload, src, met, inbox, at, batch, child, stray, recent, online, waits>>
    BY DEF EnsureDurable, VerifyStaging, tfDisk, tfHost, tfEnv
<1>3. /\ fp \in [TfOps -> {None, "plan", "twin", "marker"}] /\ payload \in [TfOps -> TfContents]
      /\ fp[o] # None
    BY <1>1 DEF TfInv, TfTypes, HashShape, Takes
<1>4. phase \in PhaseNames \ {"STAGING_VERIFIED", "SKIPPED"}
    BY <1>1 DEF PhaseNames
<1> QED
    BY <1>1, <1>2, <1>3, <1>4, TakenStep

\* A failure that is counted while the executor is idle.
LEMMA FailureStep ==
    ASSUME TfInv, NEW o \in TfOps, FailStep(o) \/ SourceGone(o)
    PROVE  TfInv'
<1>1. PICK phase \in {"PLANNED", "TARGET_PRECONDITION_VALIDATED", "TRANSFERRED", "STAGING_DURABLE"} :
          Takes(o, phase)
    BY DEF FailStep, SourceGone
<1>2. /\ CountFailure(o)
      /\ UNCHANGED <<payload, src, met, inbox, at, batch, child, stray, recent, online>>
    BY DEF FailStep, SourceGone, tfDisk, tfEnv
<1>3. at = "idle" /\ ~Staged(o)
    <2>1. phase \in PhaseNames \ {"STAGING_VERIFIED", "SKIPPED"}
        BY <1>1 DEF PhaseNames
    <2> QED
        BY <1>1, <2>1, TakesFirst DEF TfInv, TfPending
<1>4. /\ JournalInv' /\ waits' \in BOOLEAN
      /\ \A p \in TfOps : sphase'[p] = sphase[p] \/ (p = o /\ sphase'[p] = "SKIPPED")
    BY <1>2, <1>3, OneCounts, JournalHolds DEF TfInv, TfTypes
<1>5. VerifiedIsJournaled'
    <2>1. fp' = fp
        BY <1>2 DEF CountFailure, RecordStagingFailure, tfJournal
    <2> QED
        BY <1>2, <1>4, <2>1, VerifiedStays DEF TfInv
<1>6. BatchShape' /\ ChildShape' /\ InboxShape'
    BY <1>2, <1>3 DEF TfInv, BatchShape, ChildShape, InboxShape
<1> QED
    BY <1>2, <1>4, <1>5, <1>6, TfParts DEF TfInv, TfTypes

\* The head of a batch.
LEMMA HeadIs ==
    ASSUME TfInv, at # "idle"
    PROVE  /\ Head \in batch /\ Head \in TfOps /\ sphase[Head] = "STAGING_ALLOCATED" /\ ~Staged(Head)
           /\ \A f \in batch : sphase[f] = "STAGING_ALLOCATED" /\ f \in TfOps
           /\ \A p \in TfOps : p < Head => Staged(p)
    BY StConstants DEF TfInv, TfTypes, BatchShape, Staged

\* A transfer that ends without its head: a failure is counted or not.
LEMMA TransferEnds ==
    ASSUME TfInv, at # "idle", at' = "idle", batch' = {}, child' = None,
           \/ UNCHANGED <<sphase, sfails, timer, fp, waits>>
           \/ RecordStagingFailure(Head) /\ UNCHANGED waits
           \/ CountFailure(Head),
           payload' \in [TfOps -> TfContents],
           \A p \in TfOps : sphase[p] = "STAGING_VERIFIED" => payload'[p] = payload[p],
           inbox' \in {inbox, [inbox EXCEPT ![Head] = {}]},
           stray' \in TfOps \cup {Never, Over},
           UNCHANGED <<src, met, recent, online>>
    PROVE  TfInv'
<1>1. PICK h \in TfOps : h = Head /\ ~Staged(h)
    BY HeadIs
<1>2. /\ JournalInv' /\ waits' \in BOOLEAN
      /\ \A p \in TfOps : sphase'[p] = sphase[p] \/ sphase'[p] = "SKIPPED"
    <2>1. CASE UNCHANGED <<sphase, sfails, timer, fp, waits>>
        BY <2>1, JournalStays, JournalHolds DEF TfInv, TfTypes
    <2>2. CASE RecordStagingFailure(h) /\ UNCHANGED waits
        BY <1>1, <2>2, OneFails, JournalHolds DEF TfInv, TfTypes
    <2>3. CASE CountFailure(h)
        BY <1>1, <2>3, OneCounts, JournalHolds DEF TfInv, TfTypes
    <2> QED
        BY <1>1, <2>1, <2>2, <2>3
<1>3. fp' = fp
    BY DEF CountFailure, RecordStagingFailure, tfJournal
<1>4. VerifiedIsJournaled'
    BY <1>2, <1>3, VerifiedStays DEF TfInv
<1>5. inbox' \in [TfOps -> SUBSET Entries] /\ InboxShape'
    BY <1>1, InboxEmptied DEF TfInv, TfTypes
<1>6. BatchShape' /\ ChildShape'
    BY BatchEnds
<1> QED
    BY <1>2, <1>4, <1>5, <1>6, TfParts DEF TfInv, TfTypes

\* A step that leaves the journal alone, and what a verified operation has.
LEMMA JournalAside ==
    ASSUME TfInv, UNCHANGED <<sphase, sfails, timer, fp>>,
           BatchShape', ChildShape', InboxShape',
           src' \in [TfOps -> TfContents], met' \in SUBSET TfOps,
           payload' \in [TfOps -> TfContents], inbox' \in [TfOps -> SUBSET Entries],
           \A p \in TfOps : sphase[p] = "STAGING_VERIFIED" => payload'[p] = payload[p],
           at' \in {"idle", "launch", "wait", "publish", "link"}, batch' \in SUBSET Files,
           stray' \in TfOps \cup {Never, Over}, recent' \in SUBSET Files,
           online' \in BOOLEAN, waits' \in BOOLEAN
    PROVE  TfInv'
<1>1. JournalInv'
    BY JournalStays, JournalHolds
<1>2. VerifiedIsJournaled'
    BY VerifiedStays DEF TfInv
<1> QED
    BY <1>1, <1>2, TfParts

\* A batch starts with the first operation that is not staged.
LEMMA BeginBatchStep ==
    ASSUME TfInv, NEW o \in TfOps, BeginBatch(o)
    PROVE  TfInv'
<1>1. /\ Takes(o, "STAGING_ALLOCATED") /\ o \in Files /\ batch' = Selected(o)
      /\ inbox' = [inbox EXCEPT ![o] = {}] /\ at' = "launch" /\ child' = "suspended"
      /\ UNCHANGED <<sphase, sfails, timer, fp, src, met, payload, waits, stray, recent, online>>
    BY DEF BeginBatch, tfJournal, tfEnv
<1>2. sphase[o] = "STAGING_ALLOCATED" /\ \A p \in TfOps : p < o => Staged(p)
    <2>1. "STAGING_ALLOCATED" \in PhaseNames \ {"STAGING_VERIFIED", "SKIPPED"}
        BY DEF PhaseNames
    <2> QED
        BY <1>1, <2>1, TakesFirst DEF TfInv
<1>3. PICK B \in SUBSET Files : /\ B = batch' /\ o \in B /\ Cardinality(B) <= BatchLimit
                                /\ \A f \in B : sphase[f] = "STAGING_ALLOCATED"
    BY <1>1, <1>2, SelectedIs DEF TfInv
<1>4. Min(B) = o
    <2>1. B \in SUBSET Nat /\ B # {} /\ B \subseteq TfOps
        BY <1>3, StConstants
    <2>2. Min(B) \in B /\ Min(B) <= o
        BY <1>3, <2>1, LeastIn
    <2>3. ~Staged(Min(B))
        BY <1>3, <2>2 DEF Staged
    <2>4. ~(Min(B) < o)
        BY <1>2, <2>1, <2>2, <2>3
    <2>5. Min(B) \in Nat /\ o \in Nat
        BY <1>3, <2>1, <2>2
    <2> QED
        BY <2>2, <2>4, <2>5
<1>5. BatchShape'
    <2>1. \A p \in TfOps : Staged(p)' = Staged(p)
        BY <1>1 DEF Staged
    <2>2. /\ Head' = o /\ at' # "idle" /\ sphase' = sphase
        BY <1>1, <1>3, <1>4 DEF Head
    <2>3. \A f \in batch' : sphase'[f] = "STAGING_ALLOCATED"
        BY <1>3, <2>2
    <2>4. \A p \in TfOps : p < Head' => Staged(p)'
        BY <1>2, <2>1, <2>2
    <2>5. Head' \in batch' /\ Cardinality(batch') <= BatchLimit
        BY <1>3, <2>2
    <2> QED
        BY <2>2, <2>3, <2>4, <2>5 DEF BatchShape
<1>6. inbox' \in [TfOps -> SUBSET Entries] /\ InboxShape'
    BY <1>1, InboxEmptied DEF TfInv, TfTypes
<1>7. ChildShape'
    BY <1>1 DEF ChildShape
<1> QED
    BY <1>1, <1>3, <1>5, <1>6, <1>7, JournalAside DEF TfInv, TfTypes

\* Steps of a transfer that change where it is and its child only.
LEMMA ChildStep ==
    ASSUME TfInv, AssignToJob \/ ResumeChild \/ ChildExits
    PROVE  TfInv'
<1>1. /\ at # "idle" /\ at' # "idle" /\ ChildShape'
      /\ at' \in {"launch", "wait"}
      /\ UNCHANGED <<sphase, sfails, timer, fp, src, met, payload, inbox, batch, waits, stray,
                     recent, online>>
    BY DEF AssignToJob, ResumeChild, ChildExits, TfInv, TfTypes, ChildShape, tfJournal, tfDisk,
       tfEnv, None
<1>2. BatchShape'
    BY <1>1 DEF TfInv, BatchShape, Head, Staged
<1>3. InboxShape'
    BY <1>1 DEF TfInv, InboxShape
<1> QED
    BY <1>1, <1>2, <1>3, JournalAside DEF TfInv, TfTypes

\* A batch that ends early leaves the journal alone.
LEMMA EndsStep ==
    ASSUME TfInv, ContainmentFails \/ LinkFails
    PROVE  TfInv'
<1>1. /\ at # "idle" /\ at' = "idle" /\ batch' = {} /\ child' = None
      /\ inbox' \in {inbox, [inbox EXCEPT ![Head] = {}]}
      /\ UNCHANGED <<sphase, sfails, timer, fp, src, met, payload, waits, stray, recent, online>>
    BY DEF ContainmentFails, LinkFails, EndBatch, tfJournal, TfInv, ChildShape
<1> QED
    BY <1>1, TransferEnds DEF TfInv, TfTypes

\* The child puts the files of its batch into the inbox, one entry each.
LEMMA ChildCopiesStep ==
    ASSUME TfInv, ChildCopies
    PROVE  TfInv'
<1>1. /\ at # "idle" /\ Copies(Head, batch)
      /\ UNCHANGED <<sphase, sfails, timer, fp, src, met, payload, at, batch, child, waits, stray,
                     recent, online>>
    BY DEF ChildCopies, tfJournal, tfHost, tfEnv, TfInv, TfTypes, ChildShape, None
<1>2. PICK h \in TfOps : h = Head
    BY <1>1, HeadIs
<1>3. inbox' \in [TfOps -> SUBSET Entries] /\ InboxShape'
    BY <1>1, <1>2, CopiesShape DEF TfInv, TfTypes
<1>4. BatchShape' /\ ChildShape'
    BY <1>1 DEF TfInv, BatchShape, Head, Staged, ChildShape
<1> QED
    BY <1>1, <1>3, <1>4, JournalAside DEF TfInv, TfTypes

\* The child has ended: its batch is checked, or the head has failed.
LEMMA WaitReturnsStep ==
    ASSUME TfInv, WaitReturns
    PROVE  TfInv'
<1>1. /\ at = "wait" /\ child' = None
      /\ UNCHANGED <<src, met, payload, stray, recent, online>>
    BY DEF WaitReturns, tfEnv
<1>2. CASE at' = "publish" /\ UNCHANGED <<sphase, sfails, timer, fp, waits, batch, inbox>>
    <2>1. BatchShape' /\ ChildShape' /\ InboxShape'
        BY <1>1, <1>2 DEF TfInv, BatchShape, Head, Staged, ChildShape, InboxShape
    <2> QED
        BY <1>1, <1>2, <2>1, JournalAside DEF TfInv, TfTypes
<1>3. CASE /\ at' = "idle" /\ batch' = {} /\ inbox' \in {inbox, [inbox EXCEPT ![Head] = {}]}
           /\ UNCHANGED <<sphase, sfails, timer, fp, waits>> \/ CountFailure(Head)
    BY <1>1, <1>3, TransferEnds DEF TfInv, TfTypes
<1> QED
    BY <1>2, <1>3 DEF WaitReturns, EndBatch, tfJournal

\* A child that is stopped, or cannot be, ends the batch.
LEMMA WaitTimesOutStep ==
    ASSUME TfInv, WaitTimesOut
    PROVE  TfInv'
<1>1. /\ at = "wait" /\ child' = None /\ at' = "idle" /\ batch' = {}
      /\ inbox' \in {inbox, [inbox EXCEPT ![Head] = {}]}
      /\ stray' \in {stray, Head}
      /\ UNCHANGED <<sphase, sfails, timer, fp>> \/ RecordStagingFailure(Head)
      /\ UNCHANGED <<src, met, payload, recent, online, waits>>
    BY DEF WaitTimesOut, EndBatch, tfJournal
<1>2. stray' \in TfOps \cup {Never, Over}
    BY <1>1, HeadIs DEF TfInv, TfTypes
<1> QED
    BY <1>1, <1>2, TransferEnds DEF TfInv, TfTypes

\* A child nobody waits for writes to its inbox, and through it to a payload
\* that is torn; nothing that is verified is.
LEMMA StrayCopiesStep ==
    ASSUME TfInv, StrayCopies
    PROVE  TfInv'
<1>1. /\ stray \in TfOps
      /\ UNCHANGED <<sphase, sfails, timer, fp, src, met, at, batch, child, waits, stray, recent, online>>
      /\ payload' = [o \in TfOps |->
           IF payload[o] = "part" /\ [file |-> o, holds |-> src[o]] \in inbox'[stray]
           THEN src[o] ELSE payload[o]]
    BY DEF StrayCopies, tfJournal, tfHost, tfEnv
<1>2. PICK b \in TfOps : b = stray
    BY <1>1
<1>3. inbox' \in [TfOps -> SUBSET Entries] /\ InboxShape'
    <2>1. CASE Copies(b, {f \in Files : f >= b})
        BY <2>1, CopiesShape DEF TfInv, TfTypes
    <2>2. ASSUME NEW e \in inbox[b],
                 inbox' = [inbox EXCEPT ![b] = (@ \ {e}) \cup {[file |-> e.file, holds |-> "part"]}]
          PROVE  inbox' \in [TfOps -> SUBSET Entries] /\ InboxShape'
        <3>1. PICK new : new = [file |-> e.file, holds |-> "part"]
            OBVIOUS
        <3>2. new \in Entries /\ new.file = e.file
            BY <2>2, <3>1 DEF TfInv, TfTypes, Entries, TfContents, None
        <3>3. /\ inbox' \in [TfOps -> SUBSET Entries] /\ inbox'[b] = (inbox[b] \ {e}) \cup {new}
              /\ \A c \in TfOps : c # b => inbox'[c] = inbox[c]
            BY <2>2, <3>1, <3>2 DEF TfInv, TfTypes
        <3>4. OneEachFile(inbox'[b])
            BY <2>2, <3>2, <3>3 DEF TfInv, InboxShape, OneEachFile
        <3> QED
            BY <3>3, <3>4 DEF TfInv, InboxShape
    <2> QED
        BY <1>2, <2>1, <2>2 DEF StrayCopies
<1>4. payload' \in [TfOps -> TfContents]
    BY <1>1 DEF TfInv, TfTypes
<1>5. ASSUME NEW p \in TfOps, sphase[p] = "STAGING_VERIFIED" PROVE payload'[p] = payload[p]
    <2>1. payload[p] = fp[p] /\ fp[p] # "part"
        BY <1>5 DEF TfInv, TfTypes, VerifiedIsJournaled, None
    <2> QED
        BY <1>1, <2>1
<1>6. BatchShape' /\ ChildShape'
    BY <1>1 DEF TfInv, BatchShape, Head, Staged, ChildShape
<1> QED
    BY <1>1, <1>3, <1>4, <1>5, <1>6, JournalAside DEF TfInv, TfTypes

\* A torn or incomplete inbox counts as a failure of the head.
LEMMA CheckInboxStep ==
    ASSUME TfInv, CheckInbox
    PROVE  TfInv'
<1>1. at = "publish" /\ child = None /\ UNCHANGED <<waits, src, met, payload, child, stray, recent, online>>
    BY DEF CheckInbox, tfEnv, TfInv, ChildShape
<1>2. CASE at' = "link" /\ UNCHANGED <<sphase, sfails, timer, fp, batch, inbox>>
    <2>1. BatchShape' /\ ChildShape' /\ InboxShape'
        BY <1>1, <1>2 DEF TfInv, BatchShape, Head, Staged, ChildShape, InboxShape
    <2> QED
        BY <1>1, <1>2, <2>1, JournalAside DEF TfInv, TfTypes
<1>3. CASE /\ at' = "idle" /\ batch' = {} /\ inbox' \in {inbox, [inbox EXCEPT ![Head] = {}]}
           /\ UNCHANGED <<sphase, sfails, timer, fp>> \/ RecordStagingFailure(Head)
    BY <1>1, <1>3, TransferEnds DEF TfInv, TfTypes
<1> QED
    BY <1>2, <1>3 DEF CheckInbox, EndBatch, tfJournal

\* A file of the batch becomes a payload; none of them is verified yet.
LEMMA LinkPayloadStep ==
    ASSUME TfInv, LinkPayload
    PROVE  TfInv'
<1>1. /\ at = "link" /\ child = None /\ Unlinked # {}
      /\ UNCHANGED <<waits, src, met, child, stray, recent, online>>
    BY DEF LinkPayload, tfEnv, TfInv, ChildShape
<1>2. PICK h \in TfOps : h = Head
    BY <1>1, HeadIs
<1>3. PICK e \in inbox[h] :
          /\ e.file = Min(Unlinked) /\ payload' = [payload EXCEPT ![e.file] = e.holds]
          /\ IF e.holds = "part"
             THEN RecordStagingFailure(Head) /\ EndBatch(TRUE)
             ELSE inbox' = [inbox EXCEPT ![Head] = @ \ {e}] /\ UNCHANGED <<tfJournal, at, batch>>
    BY <1>2 DEF LinkPayload
<1>4. e.file \in Unlinked
    <2>1. Unlinked \in SUBSET Nat
        BY StConstants DEF Unlinked, TfInv, TfTypes
    <2> QED
        BY <1>1, <1>3, <2>1, LeastIn
<1>5. e.file \in TfOps /\ payload[e.file] = None /\ e.holds \in TfContents
    <2>1. e.file \in batch /\ payload[e.file] = None
        BY <1>4 DEF Unlinked
    <2>2. e.file \in TfOps
        BY <2>1, StConstants DEF TfInv, TfTypes
    <2>3. inbox[h] \in SUBSET Entries
        BY DEF TfInv, TfTypes
    <2>4. e \in Entries
        BY <1>3, <2>3
    <2>5. e.holds \in TfContents
        BY <2>4 DEF Entries
    <2> QED
        BY <2>1, <2>2, <2>5
<1>6. /\ payload' \in [TfOps -> TfContents]
      /\ \A p \in TfOps : p # e.file => payload'[p] = payload[p]
    BY <1>3, <1>5 DEF TfInv, TfTypes
<1>7. \A p \in TfOps : sphase[p] = "STAGING_VERIFIED" => payload'[p] = payload[p]
    <2>1. sphase[e.file] # "STAGING_VERIFIED"
        BY <1>5 DEF TfInv, VerifiedIsJournaled, HashShape
    <2> QED
        BY <1>6, <2>1
<1>8. CASE e.holds = "part"
    <2>1. /\ RecordStagingFailure(Head) /\ at' = "idle" /\ batch' = {}
          /\ inbox' \in {inbox, [inbox EXCEPT ![Head] = {}]}
        BY <1>3, <1>8 DEF EndBatch
    <2> QED
        BY <1>1, <1>6, <1>7, <2>1, TransferEnds DEF TfInv, TfTypes
<1>9. CASE e.holds # "part"
    <2>1. /\ inbox' = [inbox EXCEPT ![h] = inbox[h] \ {e}]
          /\ UNCHANGED <<sphase, sfails, timer, fp, at, batch>>
        BY <1>2, <1>3, <1>9 DEF tfJournal
    <2>2. inbox' \in [TfOps -> SUBSET Entries] /\ InboxShape'
        BY <2>1 DEF TfInv, TfTypes, InboxShape, OneEachFile
    <2>3. BatchShape' /\ ChildShape'
        BY <1>1, <2>1 DEF TfInv, BatchShape, Head, Staged, ChildShape
    <2> QED
        BY <1>1, <1>6, <1>7, <2>1, <2>2, <2>3, JournalAside DEF TfInv, TfTypes
<1> QED
    BY <1>8, <1>9

\* When everything is linked the head advances and the batch ends.
LEMMA EndTransferStep ==
    ASSUME TfInv, EndTransfer
    PROVE  TfInv'
<1>1. /\ at = "link" /\ child = None /\ recent' = recent \cup batch /\ Advance(Head)
      /\ at' = "idle" /\ batch' = {}
      /\ UNCHANGED <<waits, fp, src, met, payload, inbox, child, stray, online>>
    BY DEF EndTransfer, tfDisk, tfEnv, TfInv, ChildShape
<1>2. PICK h \in TfOps :
          h = Head /\ sphase[h] = "STAGING_ALLOCATED" /\ ~Staged(h) /\ \A p \in TfOps : p < h => Staged(p)
    BY <1>1, HeadIs
<1>3. sphase' = [sphase EXCEPT ![h] = "TRANSFERRED"] /\ UNCHANGED <<sfails, timer>>
    BY <1>1, <1>2, Ranks DEF Advance
<1>4. /\ fp \in [TfOps -> {None, "plan", "twin", "marker"}] /\ fp[h] # None
      /\ "TRANSFERRED" \in PhaseNames \ {"PLANNED", "SKIPPED"}
    BY <1>2 DEF TfInv, TfTypes, HashShape, PhaseNames
<1>5. /\ JournalInv' /\ sphase'[h] = "TRANSFERRED" /\ \A p \in TfOps : p # h => sphase'[p] = sphase[p]
    BY <1>1, <1>2, <1>3, <1>4, OneAdvances, JournalHolds
<1>6. VerifiedIsJournaled'
    BY <1>1, <1>5 DEF TfInv, VerifiedIsJournaled
<1>7. BatchShape' /\ ChildShape' /\ InboxShape'
    BY <1>1, BatchEnds DEF TfInv, InboxShape
<1> QED
    BY <1>1, <1>5, <1>6, <1>7, TfParts DEF TfInv, TfTypes

\* What happens around the executor, and a crash of the host.
LEMMA WorldStep ==
    ASSUME TfInv,
           \/ EditSource \/ ChangeTarget \/ Disconnect \/ Reconnect \/ Requeue \/ StrayEnds
           \/ UNCHANGED tfVars
    PROVE  TfInv'
<1>1. /\ UNCHANGED <<sphase, sfails, timer, fp, payload, inbox, at, batch, child, recent>>
      /\ src' \in [TfOps -> TfContents] /\ met' \in SUBSET TfOps /\ stray' \in TfOps \cup {Never, Over}
      /\ online' \in BOOLEAN /\ waits' \in BOOLEAN
    <2>1. CASE EditSource
        <3>1. /\ UNCHANGED <<sphase, sfails, timer, fp, payload, inbox, at, batch, child, recent,
                             met, stray, online, waits>>
              /\ \E o \in Files, v \in {"twin", "edit", None} : src' = [src EXCEPT ![o] = v]
            BY <2>1 DEF EditSource, tfJournal, tfHost
        <3> QED
            BY <3>1 DEF TfInv, TfTypes, TfContents
    <2>2. CASE ChangeTarget
        BY <2>2 DEF ChangeTarget, tfJournal, tfHost, TfInv, TfTypes
    <2>3. CASE Disconnect \/ Reconnect
        BY <2>3 DEF Disconnect, Reconnect, tfJournal, tfHost, tfDisk, TfInv, TfTypes
    <2>4. CASE Requeue \/ StrayEnds
        BY <2>4 DEF Requeue, StrayEnds, tfJournal, tfDisk, tfEnv, TfInv, TfTypes
    <2>5. CASE UNCHANGED tfVars
        BY <2>5 DEF tfVars, tfJournal, tfHost, tfDisk, tfEnv, TfInv, TfTypes
    <2> QED
        BY <2>1, <2>2, <2>3, <2>4, <2>5
<1>2. BatchShape' /\ ChildShape' /\ InboxShape'
    BY <1>1 DEF TfInv, BatchShape, Head, Staged, ChildShape, InboxShape
<1> QED
    BY <1>1, <1>2, JournalAside DEF TfInv, TfTypes

\* A crash ends the batch and keeps the journal.
LEMMA TfCrashStep ==
    ASSUME TfInv, TfCrash
    PROVE  TfInv'
<1>1. /\ at' = "idle" /\ batch' = {} /\ child' = None /\ recent' = {} /\ stray' \in {Never, Over}
      /\ UNCHANGED <<sphase, sfails, timer, fp, src, met, payload, inbox, waits, online>>
    BY DEF TfCrash, tfJournal, tfDisk
<1>2. BatchShape' /\ ChildShape' /\ InboxShape'
    BY <1>1, BatchEnds DEF TfInv, InboxShape
<1> QED
    BY <1>1, <1>2, JournalAside DEF TfInv, TfTypes

\* A retry that is due has no timer any more.
LEMMA DueStep ==
    ASSUME TfInv, NEW o \in TfOps, Due(o)
    PROVE  TfInv'
<1>1. /\ timer' = timer \ {o}
      /\ UNCHANGED <<sphase, sfails, fp, src, met, payload, inbox, waits, at, batch, child, stray,
                     recent, online>>
    BY DEF Due, tfDisk, tfHost, tfEnv
<1>2. TimerShape' /\ FailShape' /\ HashShape' /\ InPlanOrder' /\ VerifiedIsJournaled'
    <2>1. \A p \in TfOps : Staged(p)' = Staged(p)
        BY <1>1 DEF Staged
    <2>2. TimerShape' /\ InPlanOrder'
        BY <1>1, <2>1 DEF TfInv, TimerShape, TfPending, InPlanOrder
    <2>3. FailShape' /\ HashShape' /\ VerifiedIsJournaled'
        BY <1>1 DEF TfInv, FailShape, HashShape, VerifiedIsJournaled
    <2> QED
        BY <2>2, <2>3
<1>3. BatchShape' /\ ChildShape' /\ InboxShape'
    BY <1>1 DEF TfInv, BatchShape, Head, Staged, ChildShape, InboxShape
<1> QED
    BY <1>1, <1>2, <1>3 DEF TfInv, TfTypes

\* Nothing is staged at first.
LEMMA TfInitInv == TfInit => TfInv
<1> SUFFICES ASSUME TfInit PROVE TfInv
    OBVIOUS
<1>1. TfTypes
    <2>1. /\ sphase \in [TfOps -> PhaseNames]
          /\ fp \in [TfOps -> {None, "plan", "twin", "marker"}]
          /\ met \subseteq TfOps
        BY DEF TfInit, PhaseNames
    <2>2. 0 \in 0..StagingAttempts
        BY StConstants
    <2>3. sfails \in [TfOps -> 0..StagingAttempts]
        BY <2>2 DEF TfInit
    <2>4. None \in TfContents /\ "plan" \in TfContents
        BY DEF TfContents
    <2>5. src \in [TfOps -> TfContents]
        BY <2>4 DEF TfInit
    <2>6. payload \in [TfOps -> TfContents]
        BY <2>4 DEF TfInit
    <2>7. inbox \in [TfOps -> SUBSET Entries]
        BY DEF TfInit
    <2>8. /\ at \in {"idle", "launch", "wait", "publish", "link"} /\ batch \in SUBSET Files
          /\ stray \in TfOps \cup {Never, Over} /\ recent \in SUBSET Files
          /\ online \in BOOLEAN /\ waits \in BOOLEAN
        BY DEF TfInit
    <2> QED
        BY <2>1, <2>3, <2>5, <2>6, <2>7, <2>8 DEF TfTypes
<1>2. InboxShape /\ TimerShape /\ FailShape /\ HashShape
    BY StConstants DEF TfInit, InboxShape, OneEachFile, TimerShape, FailShape, HashShape
<1>3. ChildShape /\ BatchShape
    BY DEF TfInit, ChildShape, BatchShape
<1>4. InPlanOrder /\ VerifiedIsJournaled
    BY DEF TfInit, InPlanOrder, VerifiedIsJournaled
<1> QED
    BY <1>1, <1>2, <1>3, <1>4 DEF TfInv

\* Every step keeps the invariant.
LEMMA TfStepInv == TfInv /\ [TfNext]_tfVars => TfInv'
<1> SUFFICES ASSUME TfInv, [TfNext]_tfVars PROVE TfInv'
    OBVIOUS
<1>1. CASE TfPrepare \/ TfBegin \/ TfFinish
    BY <1>1, PrepareStep, TransferStep, BeginBatchStep, FinishStep, FailureStep
       DEF TfPrepare, TfBegin, TfFinish
<1>2. CASE TfBatchStep
    BY <1>2, ChildStep, WaitReturnsStep, CheckInboxStep, LinkPayloadStep, EndTransferStep
       DEF TfBatchStep
<1>3. CASE \E o \in TfOps : FailStep(o) \/ Due(o)
    BY <1>3, FailureStep, DueStep
<1>4. CASE \/ ContainmentFails \/ WaitTimesOut \/ LinkFails
           \/ ChildCopies \/ ChildExits \/ StrayCopies \/ TfCrash
    BY <1>4, EndsStep, WaitTimesOutStep, ChildCopiesStep, ChildStep, StrayCopiesStep, TfCrashStep
<1>5. CASE \/ EditSource \/ ChangeTarget \/ Disconnect \/ Reconnect \/ Requeue \/ StrayEnds
           \/ UNCHANGED tfVars
    BY <1>5, WorldStep
<1> QED
    BY <1>1, <1>2, <1>3, <1>4, <1>5 DEF TfNext

\* The invariant of the staging holds.
LEMMA TfInvariance == TfSpec => []TfInv
<1> QED
    BY TfInitInv, TfStepInv, PTL DEF TfSpec

\* The journal, the payloads, the inboxes and the executor keep their types: a
\* batch never exceeds its limit, an inbox holds one entry per file, and a child
\* exists exactly while somebody launches it or waits for it.
THEOREM StagingTypes == TfSpec => []TfTypeOK
<1>1. TfInv => TfTypeOK
    <2> SUFFICES ASSUME TfInv PROVE TfTypeOK
        OBVIOUS
    <2>1. PhaseNames = {Phases[i] : i \in DOMAIN Phases} \cup {"SKIPPED"}
        <3>1. {Phases[i] : i \in 1..8} =
                {Phases[1], Phases[2], Phases[3], Phases[4], Phases[5], Phases[6], Phases[7], Phases[8]}
            <4>1. \A i \in 1..8 : i \in {1, 2, 3, 4, 5, 6, 7, 8}
                OBVIOUS
            <4> QED
                BY <4>1
        <3>2. DOMAIN Phases = 1..8
            BY DEF Phases
        <3> QED
            BY <3>1, <3>2 DEF PhaseNames, Phases
    <2>2. Cardinality(batch) <= BatchLimit
        <3>1. Cardinality({}) = 0
            BY FS_EmptySet
        <3> QED
            BY <3>1, StConstants DEF TfInv, BatchShape
    <2>3. child \in ChildStates /\ (child # None <=> at \in {"launch", "wait"})
        BY DEF TfInv, ChildShape, ChildStates, None
    <2> QED
        BY <2>1, <2>2, <2>3 DEF TfInv, TfTypes, TfTypeOK, TfContents, InboxShape, OneEachFile,
           TimerShape, Entries
<1> QED
    BY <1>1, TfInvariance, PTL

\* What is handed to the commit is the object whose hash the journal holds,
\* whatever happened to the source while it was copied, and although a child that
\* could not be stopped goes on writing: for any number of files and batches, and
\* any order of crashes, edits and outages (verify_staging_artifact).
THEOREM HandedOnIsJournaled == TfSpec => []VerifiedIsJournaled
<1>1. TfInv => VerifiedIsJournaled
    BY DEF TfInv
<1> QED
    BY <1>1, TfInvariance, PTL

\* Content is transferred in plan order, although later files are prepared early
\* to fill a batch (_next_staging_operation).
THEOREM PlanOrderIsKept == TfSpec => []InPlanOrder
<1>1. TfInv => InPlanOrder
    BY DEF TfInv
<1> QED
    BY <1>1, TfInvariance, PTL

-----------------------------------------------------------------------------
(* What an outage costs.  An outage that is under way, and a child that       *)
(* failed and was not waited for yet, have their attempt paid for already.    *)

\* What ends the account of the attempts: a child that could not be stopped, or
\* a source that is gone.  Both are for good.
Forgiven == stray # Never \/ \E f \in Files : src[f] = None

\* An outage under way, and a child that failed and was not waited for yet, have
\* their attempt paid for already; and nothing torn is linked.
Prepaid == IF ~online \/ child = "failed" THEN 1 ELSE 0
AttemptsPaid ==
    /\ tfaults \in Nat /\ tevents \in Nat
    /\ Forgiven \/ /\ at = "link" => \A e \in inbox[Head] : e.holds # "part"
                   /\ Cardinality(Attempts) + Prepaid <= tfaults + tevents

\* The attempts are finitely many.
LEMMA AttemptsFinite ==
    ASSUME TfInv
    PROVE  IsFiniteSet(Attempts) /\ Cardinality(Attempts) \in Nat
<1>1. IsFiniteSet(TfOps \X (1..StagingAttempts))
  <2>1. IsFiniteSet(1..StagingAttempts)
      BY StConstants, FS_Interval
  <2> QED
      BY <2>1, StConstants, FS_Product
<1>2. IsFiniteSet(Attempts)
    BY <1>1, FS_Subset DEF Attempts
<1> QED
    BY <1>2, FS_CardinalityType

\* A counted failure is one more attempt.
LEMMA OneMoreAttempt ==
    ASSUME TfInv, NEW o \in TfOps, RecordStagingFailure(o)
    PROVE  Cardinality(Attempts)' <= Cardinality(Attempts) + 1 /\ Cardinality(Attempts)' \in Nat
<1> DEFINE one == <<o, sfails[o] + 1>>
<1>1. sfails \in [TfOps -> 0..StagingAttempts] /\ sfails' = [sfails EXCEPT ![o] = sfails[o] + 1]
    BY DEF TfInv, TfTypes, RecordStagingFailure
<1>2. Attempts' \subseteq Attempts \cup {one}
  <2> SUFFICES ASSUME NEW a \in Attempts', a \notin Attempts PROVE a = one
      OBVIOUS
  <2>1. a \in TfOps \X (1..StagingAttempts) /\ a[2] <= sfails'[a[1]] /\ ~(a[2] <= sfails[a[1]])
      BY DEF Attempts
  <2>2. PICK p \in TfOps, n \in 1..StagingAttempts : a = <<p, n>>
      BY <2>1
  <2>3. p = o
      BY <1>1, <2>1, <2>2
  <2>4. n = sfails[o] + 1
      BY <1>1, <2>1, <2>2, <2>3, StConstants
  <2> QED
      BY <2>2, <2>3, <2>4
<1>3. IsFiniteSet(Attempts) /\ IsFiniteSet(Attempts \cup {one})
    BY AttemptsFinite, FS_AddElement
<1>4. Cardinality(Attempts \cup {one}) <= Cardinality(Attempts) + 1
  <2>1. Cardinality(Attempts \cup {one})
          = IF one \in Attempts THEN Cardinality(Attempts) ELSE Cardinality(Attempts) + 1
      BY AttemptsFinite, FS_AddElement, Zenon
  <2> HIDE DEF one
  <2> QED
      BY <2>1, AttemptsFinite
<1>5. IsFiniteSet(Attempts') /\ Cardinality(Attempts') <= Cardinality(Attempts \cup {one})
    BY <1>2, <1>3, FS_Subset
<1> QED
    BY <1>4, <1>5, AttemptsFinite, <1>3, FS_CardinalityType

\* Nothing counted is no attempt more.
LEMMA NoAttempt ==
    ASSUME TfInv, sfails' = sfails
    PROVE  Cardinality(Attempts)' = Cardinality(Attempts) /\ Cardinality(Attempts)' \in Nat
<1>1. Attempts' = Attempts
    BY DEF Attempts
<1> QED
    BY <1>1, AttemptsFinite

\* The account's arithmetic.
LEMMA Settled ==
    ASSUME NEW a \in 0..1, NEW b \in 0..1, NEW f \in Nat, NEW e \in Nat, NEW g \in {f, f + 1}, b <= a
    PROVE  b + f + e <= a + g + e
OBVIOUS

\* What excuses stays.
LEMMA ExcuseStays ==
    ASSUME TfInv, [TfNext]_tfVars, Forgiven
    PROVE  Forgiven'
<1>1. Never \notin TfOps /\ Over # Never
    BY TfAssumption DEF Never, Over
<1>2. CASE stray # Never
  <2>1. ASSUME stray' = stray PROVE Forgiven'
      BY <1>2, <2>1 DEF Forgiven
  <2>2. CASE StrayEnds
      BY <1>1, <2>2 DEF StrayEnds, Forgiven
  <2>3. CASE TfCrash
      BY <1>1, <1>2, <2>3 DEF TfCrash, Forgiven
  <2>4. CASE WaitTimesOut
      BY <1>2, <2>1, <2>4 DEF WaitTimesOut
  <2> HIDE DEF Forgiven
  <2>5. CASE TfPrepare
      BY <2>1, <2>5 DEF TfPrepare, ValidateSource, BindStability, ValidateTarget, AllocateStaging, tfHost
  <2>6. CASE TfBegin
      BY <2>1, <2>6 DEF TfBegin, TransferDirectory, TransferExisting, BeginBatch, tfHost
  <2>7. CASE TfFinish
      BY <2>1, <2>7 DEF TfFinish, EnsureDurable, VerifyStaging, SourceGone, tfHost
  <2>8. CASE TfBatchStep
      BY <2>1, <2>8 DEF TfBatchStep, AssignToJob, ResumeChild, WaitReturns, CheckInbox, LinkPayload, EndTransfer
  <2>9. CASE \E o \in TfOps : FailStep(o) \/ Due(o)
      BY <2>1, <2>9 DEF FailStep, Due, tfHost
  <2>10. CASE ContainmentFails \/ LinkFails \/ ChildCopies \/ ChildExits \/ StrayCopies
      BY <2>1, <2>10 DEF ContainmentFails, LinkFails, ChildCopies, ChildExits, StrayCopies, tfHost
  <2>11. CASE EditSource \/ ChangeTarget \/ Disconnect \/ Reconnect \/ Requeue \/ UNCHANGED tfVars
      BY <2>1, <2>11 DEF EditSource, ChangeTarget, Disconnect, Reconnect, Requeue, tfVars, tfHost
  <2> QED
      BY <2>2, <2>3, <2>4, <2>5, <2>6, <2>7, <2>8, <2>9, <2>10, <2>11 DEF TfNext
<1>3. CASE \E f \in Files : src[f] = None
  <2>1. ASSUME src' = src PROVE Forgiven'
      BY <1>3, <2>1 DEF Forgiven
  <2>2. CASE EditSource
    <3>1. PICK f \in Files : src[f] = None
        BY <1>3
    <3>2. PICK o \in Files, v \in {"twin", "edit", None} : src[o] \notin {v, None} /\ src' = [src EXCEPT ![o] = v]
        BY <2>2 DEF EditSource
    <3>3. src'[f] = None
        BY <3>1, <3>2, StConstants DEF TfInv, TfTypes
    <3> QED
        BY <3>1, <3>3 DEF Forgiven
  <2> HIDE DEF Forgiven
  <2>5. CASE TfPrepare
      BY <2>1, <2>5 DEF TfPrepare, ValidateSource, BindStability, ValidateTarget, AllocateStaging, tfDisk
  <2>6. CASE TfBegin
      BY <2>1, <2>6 DEF TfBegin, TransferDirectory, TransferExisting, BeginBatch, tfDisk
  <2>7. CASE TfFinish
      BY <2>1, <2>7 DEF TfFinish, EnsureDurable, VerifyStaging, SourceGone, tfDisk
  <2>8. CASE TfBatchStep
      BY <2>1, <2>8 DEF TfBatchStep, AssignToJob, ResumeChild, WaitReturns, CheckInbox, LinkPayload, EndTransfer, tfDisk
  <2>9. CASE \E o \in TfOps : FailStep(o) \/ Due(o)
      BY <2>1, <2>9 DEF FailStep, Due, tfDisk
  <2>10. CASE \/ ContainmentFails \/ LinkFails \/ ChildCopies \/ ChildExits \/ StrayCopies
              \/ WaitTimesOut \/ StrayEnds \/ TfCrash
      BY <2>1, <2>10 DEF ContainmentFails, LinkFails, ChildCopies, ChildExits, StrayCopies, WaitTimesOut,
         StrayEnds, TfCrash, tfDisk
  <2>11. CASE ChangeTarget \/ Disconnect \/ Reconnect \/ Requeue \/ UNCHANGED tfVars
      BY <2>1, <2>11 DEF ChangeTarget, Disconnect, Reconnect, Requeue, tfVars, tfDisk
  <2> QED
      BY <2>2, <2>5, <2>6, <2>7, <2>8, <2>9, <2>10, <2>11 DEF TfNext
<1> QED
    BY <1>2, <1>3 DEF Forgiven

\* A step that counts nothing leaves the account balanced when it pays for what
\* it makes fail.
LEMMA PaidAside ==
    ASSUME TfInv, AttemptsPaid, ~Forgiven, sfails' = sfails,
           tfaults' \in {tfaults, tfaults + 1}, tevents' \in {tevents, tevents + 1},
           Prepaid' + tfaults + tevents <= Prepaid + tfaults' + tevents',
           at' = "link" => \A e \in inbox'[Head'] : e.holds # "part"
    PROVE  AttemptsPaid'
<1>1. Prepaid \in 0..1 /\ Prepaid' \in 0..1
    BY DEF Prepaid
<1>2. tfaults' \in Nat /\ tevents' \in Nat
    BY DEF AttemptsPaid
<1>4. /\ Cardinality(Attempts)' = Cardinality(Attempts) /\ Cardinality(Attempts) \in Nat
      /\ tfaults \in Nat /\ tevents \in Nat
      /\ Cardinality(Attempts) + Prepaid <= tfaults + tevents
      /\ Prepaid' + tfaults + tevents <= Prepaid + tfaults' + tevents'
    BY NoAttempt, AttemptsFinite DEF AttemptsPaid
<1> HIDE DEF Attempts, Prepaid
<1>3. Cardinality(Attempts)' + Prepaid' <= tfaults' + tevents'
    BY <1>1, <1>2, <1>4
<1> QED
    BY <1>2, <1>3 DEF AttemptsPaid

\* A step that changes neither the journal's counts nor what is reachable.
LEMMA PaidBefore ==
    ASSUME TfInv, AttemptsPaid, ~Forgiven,
           \/ TfPrepare \/ TfBegin
           \/ \E o \in TfOps : EnsureDurable(o) \/ VerifyStaging(o) \/ Due(o)
           \/ AssignToJob \/ ResumeChild \/ EndTransfer
           \/ EditSource \/ ChangeTarget \/ Disconnect \/ Reconnect \/ Requeue \/ StrayEnds
           \/ LinkFails \/ ContainmentFails \/ TfCrash \/ ChildExits \/ UNCHANGED tfVars
    PROVE  AttemptsPaid' \/ Forgiven'
<1> DEFINE Fair == /\ sfails' = sfails
                   /\ tfaults' \in {tfaults, tfaults + 1} /\ tevents' \in {tevents, tevents + 1}
                   /\ Prepaid' + tfaults + tevents <= Prepaid + tfaults' + tevents'
           Whole == at' = "link" => at = "link" /\ batch' = batch /\ inbox' = inbox
<1>1. ASSUME Fair, Whole PROVE AttemptsPaid'
  <2>1. at' = "link" => \A e \in inbox'[Head'] : e.holds # "part"
      BY <1>1 DEF AttemptsPaid, Head
  <2> QED
      BY <1>1, <2>1, PaidAside
<1>2. tfaults \in Nat /\ tevents \in Nat
    BY DEF AttemptsPaid
<1> HIDE DEF Whole
<1>3. CASE TfPrepare
  <2>1. Fair
      BY <1>2, <1>3 DEF TfPrepare, ValidateSource, BindStability, ValidateTarget, AllocateStaging, Advance,
         tfHost, tfEnv, tfDisk, Prepaid
  <2>2. Whole
      BY <1>3 DEF Whole, TfPrepare, ValidateSource, BindStability, ValidateTarget, AllocateStaging, tfHost, tfDisk
  <2> QED
      BY <1>1, <2>1, <2>2
<1>4. CASE TfBegin
  <2>1. Fair
      BY <1>2, <1>4 DEF TfBegin, TransferDirectory, TransferExisting, BeginBatch, Advance, tfJournal,
         tfHost, tfEnv, tfDisk, Prepaid, TfInv, ChildShape, Takes
  <2>2. Whole
      BY <1>4 DEF Whole, TfBegin, TransferDirectory, TransferExisting, BeginBatch, tfHost, tfDisk, Takes
  <2> QED
      BY <1>1, <2>1, <2>2
<1>5. CASE \E o \in TfOps : EnsureDurable(o) \/ VerifyStaging(o) \/ Due(o)
  <2>1. Fair
      BY <1>2, <1>5 DEF EnsureDurable, VerifyStaging, Due, Advance, tfHost, tfEnv, tfDisk, Prepaid
  <2>2. Whole
      BY <1>5 DEF Whole, EnsureDurable, VerifyStaging, Due, tfHost, tfDisk
  <2> QED
      BY <1>1, <2>1, <2>2
<1>6. CASE AssignToJob \/ ResumeChild \/ EndTransfer
  <2>1. Fair
      BY <1>2, <1>6 DEF AssignToJob, ResumeChild, EndTransfer, Advance, tfJournal, tfHost, tfEnv, tfDisk, Prepaid,
         TfInv, ChildShape
  <2>2. Whole
      BY <1>6 DEF Whole, AssignToJob, ResumeChild, EndTransfer
  <2> QED
      BY <1>1, <2>1, <2>2
<1>7. CASE \/ EditSource \/ ChangeTarget \/ Disconnect \/ Reconnect \/ Requeue \/ StrayEnds
           \/ UNCHANGED tfVars
  <2>1. Fair
      BY <1>2, <1>7 DEF EditSource, ChangeTarget, Disconnect, Reconnect, Requeue, StrayEnds, tfVars, TfEvent,
         tfJournal, tfHost, tfEnv, tfDisk, Prepaid
  <2>2. Whole
      BY <1>7 DEF Whole, EditSource, ChangeTarget, Disconnect, Reconnect, Requeue, StrayEnds, tfVars, tfHost, tfDisk
  <2> QED
      BY <1>1, <2>1, <2>2
<1>8. CASE LinkFails \/ ContainmentFails \/ TfCrash
  <2>1. /\ UNCHANGED <<sfails, online, tevents>> /\ tfaults' \in {tfaults, tfaults + 1}
        /\ child' = child \/ child' = None
      BY <1>8 DEF LinkFails, ContainmentFails, TfCrash, TfFault, tfJournal
  <2>3. Prepaid' <= Prepaid /\ Prepaid \in 0..1 /\ Prepaid' \in 0..1
      BY <2>1 DEF Prepaid, None
  <2>4. Fair
    <3>1. Prepaid' + tfaults + tevents <= Prepaid + tfaults' + tevents
        BY <1>2, <2>1, <2>3, Settled
    <3> QED
        BY <2>1, <3>1
  <2>2. Whole
      BY <1>8 DEF Whole, LinkFails, ContainmentFails, TfCrash, EndBatch
  <2> QED
      BY <1>1, <2>2, <2>4
<1>9. CASE ChildExits
  <2>1. Whole /\ UNCHANGED <<src, online, tevents, sfails>> /\ child = "running"
      BY <1>9 DEF Whole, ChildExits, tfDisk, tfJournal
  <2>2. \A f \in batch : src[f] # None
      BY DEF Forgiven, TfInv, TfTypes
  <2>3. Fair
      BY <1>2, <1>9, <2>1, <2>2 DEF ChildExits, TfFault, Prepaid
  <2> QED
      BY <1>1, <2>1, <2>3
<1> QED
    BY <1>3, <1>4, <1>5, <1>6, <1>7, <1>8, <1>9

\* What a step counts.
LEMMA PaidCounted ==
    ASSUME TfInv, AttemptsPaid, ~Forgiven, NEW o \in TfOps, RecordStagingFailure(o),
           tfaults' \in Nat, tevents' \in Nat,
           Prepaid' + 1 + tfaults + tevents <= Prepaid + tfaults' + tevents',
           at' # "link"
    PROVE  AttemptsPaid'
<1>1. Prepaid \in 0..1 /\ Prepaid' \in 0..1
    BY DEF Prepaid
<1> QED
    BY <1>1, OneMoreAttempt, AttemptsFinite DEF AttemptsPaid

\* A failed step is paid for, or becomes a wait.
LEMMA PaidFailStep ==
    ASSUME TfInv, AttemptsPaid, ~Forgiven, NEW o \in TfOps, FailStep(o)
    PROVE  AttemptsPaid'
<1>1. /\ at = "idle" /\ UNCHANGED <<at, batch, child, online, tevents, inbox>>
      /\ child = None /\ tfaults \in Nat /\ tevents \in Nat
    BY DEF FailStep, Takes, tfDisk, TfInv, ChildShape, AttemptsPaid
<1>2. CASE online
  <2>1. RecordStagingFailure(o) /\ tfaults' = tfaults + 1
      BY <1>2 DEF FailStep, CountFailure, TfFault
  <2> QED
      BY <1>1, <1>2, <2>1, PaidCounted DEF Prepaid
<1>3. CASE ~online
  <2>1. UNCHANGED <<sfails, tfaults>>
      BY <1>3 DEF FailStep, CountFailure, tfJournal
  <2> QED
      BY <1>1, <1>3, <2>1, PaidAside DEF Prepaid
<1> QED
    BY <1>2, <1>3

\* The wait for a child ends: a failure of the child was paid for when it failed.
LEMMA PaidWait ==
    ASSUME TfInv, AttemptsPaid, ~Forgiven, WaitReturns
    PROVE  AttemptsPaid'
<1>1. /\ UNCHANGED <<src, online, tfaults, tevents>> /\ child' = None /\ at = "wait"
      /\ tfaults \in Nat /\ tevents \in Nat
    BY DEF WaitReturns, tfEnv, AttemptsPaid
<1>2. \A f \in Files : src[f] # None
    BY DEF Forgiven
<1>3. Prepaid' <= Prepaid /\ Prepaid \in 0..1 /\ Prepaid' \in 0..1
    BY <1>1 DEF Prepaid, None
<1>4. ASSUME at' # "link", UNCHANGED tfJournal PROVE AttemptsPaid'
  <2>1. sfails' = sfails
      BY <1>4 DEF tfJournal
  <2>2. Prepaid' + tfaults + tevents <= Prepaid + tfaults' + tevents'
    <3>1. tfaults' = tfaults /\ tevents' = tevents /\ tfaults \in Nat /\ tevents \in Nat
        BY <1>1
    <3>2. Prepaid' + tfaults + tevents <= Prepaid + tfaults + tevents
        BY <1>3, <3>1, Settled
    <3> QED
        BY <3>1, <3>2
  <2> QED
      BY <1>1, <1>4, <2>1, <2>2, PaidAside
<1>5. CASE at' \in {"publish", "idle"} /\ UNCHANGED tfJournal
    BY <1>4, <1>5
<1>6. CASE at' = "idle" /\ CountFailure(Head) /\ (~online \/ child = "failed")
  <2>1. CASE online
    <3>1. RecordStagingFailure(Head) /\ Head \in TfOps
        BY <1>1, <1>6, <2>1, HeadIs DEF CountFailure
    <3>2. Prepaid = 1 /\ Prepaid' = 0
        BY <1>1, <1>6, <2>1 DEF Prepaid, None
    <3> QED
        BY <1>1, <1>6, <3>1, <3>2, PaidCounted
  <2>2. CASE ~online
    <3>1. UNCHANGED tfJournal
        BY <1>6, <2>2 DEF CountFailure
    <3> QED
        BY <1>4, <1>6, <3>1
  <2> QED
      BY <2>1, <2>2
<1>7. \A f \in batch : src[Min({g \in batch : ~SameIdentity(g)})] # None
        \/ {g \in batch : ~SameIdentity(g)} = {}
  <2> SUFFICES ASSUME {g \in batch : ~SameIdentity(g)} # {}
               PROVE src[Min({g \in batch : ~SameIdentity(g)})] # None
      OBVIOUS
  <2>1. {g \in batch : ~SameIdentity(g)} \in SUBSET Nat /\ batch \subseteq Files
      BY StConstants DEF TfInv, TfTypes
  <2>2. Min({g \in batch : ~SameIdentity(g)}) \in Files
      BY <2>1, LeastIn
  <2> QED
      BY <1>2, <2>2
<1>8. batch # {}
    BY <1>1 DEF TfInv, BatchShape
<1> QED
    BY <1>1, <1>5, <1>6, <1>7, <1>8 DEF WaitReturns, EndBatch

\* A child that takes too long costs what it is: a failed call.
LEMMA PaidTimeout ==
    ASSUME TfInv, AttemptsPaid, ~Forgiven, WaitTimesOut
    PROVE  AttemptsPaid' \/ Forgiven'
<1>1. /\ UNCHANGED <<online, tevents>> /\ tfaults' = tfaults + 1 /\ child' = None /\ at = "wait"
      /\ child = "running" /\ online /\ tfaults \in Nat /\ tevents \in Nat
    BY DEF WaitTimesOut, TfFault, AttemptsPaid
<1>2. CASE RecordStagingFailure(Head) /\ at' = "idle"
    BY <1>1, <1>2, HeadIs, PaidCounted DEF Prepaid, None
<1>3. CASE stray = Never /\ stray' = Head
  <2>1. Head \in TfOps
      BY <1>1, HeadIs
  <2> QED
      BY <1>3, <2>1, TfAssumption DEF Forgiven, Never
<1> QED
    BY <1>2, <1>3 DEF WaitTimesOut, EndBatch

\* Nothing is written to an inbox whose files are linked, and none is torn.
LEMMA PaidInbox ==
    ASSUME TfInv, AttemptsPaid, ~Forgiven,
           \/ CheckInbox \/ LinkPayload \/ ChildCopies \/ StrayCopies
           \/ \E o \in TfOps : SourceGone(o)
    PROVE  AttemptsPaid'
<1>1. stray = Never /\ Never \notin TfOps /\ \A f \in Files : src[f] # None
    BY TfAssumption DEF Forgiven, Never
<1>2. tfaults \in Nat /\ tevents \in Nat /\ Prepaid \in 0..1
    BY DEF AttemptsPaid, Prepaid
<1>3. CASE CheckInbox
  <2>1. at = "publish" /\ UNCHANGED <<child, tfaults, tevents, online>>
      BY <1>3 DEF CheckInbox, tfEnv
  <2>2. Head \in TfOps
      BY <2>1, HeadIs
  <2>3. ~InUse(Head)
      BY <1>1, <2>2 DEF InUse
  <2>4. CASE online /\ AsManifest
    <3>1. at' = "link" /\ UNCHANGED <<sfails, batch, inbox>>
        BY <1>3, <2>4 DEF CheckInbox, tfJournal
    <3>2. \A e \in inbox[Head] : e.holds # "part"
      <4> SUFFICES ASSUME NEW e \in inbox[Head] PROVE e.holds # "part"
          OBVIOUS
      <4>1. e.holds = fp[e.file] /\ e.file \in TfOps
          BY <2>2, <2>4, StConstants DEF AsManifest, TfInv, TfTypes, Entries
      <4> QED
          BY <4>1 DEF TfInv, TfTypes, None
    <3> QED
        BY <1>2, <2>1, <3>1, <3>2, PaidAside DEF Prepaid, Head
  <2>5. CASE ~(online /\ AsManifest)
    <3>1. at' = "idle" /\ UNCHANGED sfails
        BY <1>3, <2>3, <2>5 DEF CheckInbox, EndBatch, tfJournal
    <3> QED
        BY <1>2, <2>1, <3>1, PaidAside DEF Prepaid
  <2> QED
      BY <2>4, <2>5
<1>4. CASE LinkPayload
  <2>1. at = "link" /\ UNCHANGED <<child, tfaults, tevents, online>>
      BY <1>4 DEF LinkPayload, tfEnv
  <2>2. \A e \in inbox[Head] : e.holds # "part"
      BY <2>1 DEF AttemptsPaid
  <2>3. PICK e \in inbox[Head] : inbox' = [inbox EXCEPT ![Head] = inbox[Head] \ {e}]
                                 /\ UNCHANGED <<sfails, at, batch>>
      BY <1>4, <2>2 DEF LinkPayload, tfJournal
  <2>4. Head \in TfOps /\ inbox \in [TfOps -> SUBSET Entries] /\ Head' = Head
      BY <2>1, <2>3, HeadIs DEF TfInv, TfTypes, Head
  <2>5. \A d \in inbox'[Head'] : d.holds # "part"
      BY <2>2, <2>3, <2>4
  <2> QED
      BY <1>2, <2>1, <2>3, <2>5, PaidAside DEF Prepaid
<1>5. CASE ChildCopies
  <2>1. child = "running" /\ UNCHANGED <<sfails, at, batch, child, tfaults, tevents, online>> /\ at # "link"
      BY <1>5 DEF ChildCopies, tfJournal, tfHost, tfEnv, TfInv, ChildShape, None
  <2> QED
      BY <1>2, <2>1, PaidAside DEF Prepaid
<1>6. CASE StrayCopies
    BY <1>1, <1>6 DEF StrayCopies
<1>7. CASE \E o \in TfOps : SourceGone(o)
    BY <1>1, <1>7 DEF SourceGone
<1> QED
    BY <1>3, <1>4, <1>5, <1>6, <1>7

\* No fault and no outage at first, and no attempt.
LEMMA PaidInit ==
    ASSUME TfInit PROVE AttemptsPaid
<1>1. \A o \in TfOps : sfails[o] = 0
    BY DEF TfInit
<1>2. Attempts = {}
  <2> SUFFICES ASSUME NEW a \in Attempts PROVE FALSE
      OBVIOUS
  <2>1. PICK p \in TfOps, n \in 1..StagingAttempts : a = <<p, n>> /\ n <= sfails[p]
      BY DEF Attempts
  <2> QED
      BY <1>1, <2>1, StConstants
<1>3. Cardinality(Attempts) = 0
    BY <1>2, FS_EmptySet
<1> QED
    BY <1>3 DEF TfInit, AttemptsPaid, Prepaid, None

\* Faults and events are counted up.
LEMMA TroubleCounted ==
    ASSUME [TfNext]_tfVars, tfaults \in Nat, tevents \in Nat
    PROVE  tfaults' \in Nat /\ tevents' \in Nat
<1>1. CASE TfPrepare \/ TfBegin \/ TfFinish \/ TfBatchStep
    BY <1>1 DEF TfPrepare, ValidateSource, BindStability, ValidateTarget, AllocateStaging, TfBegin,
       TransferDirectory, TransferExisting, BeginBatch, TfFinish, EnsureDurable, VerifyStaging, SourceGone,
       TfBatchStep, AssignToJob, ResumeChild, WaitReturns, CheckInbox, LinkPayload, EndTransfer, tfEnv
<1>2. CASE \/ \E o \in TfOps : FailStep(o) \/ Due(o)
           \/ ContainmentFails \/ WaitTimesOut \/ LinkFails \/ ChildExits \/ TfCrash
  <2>1. tevents' = tevents /\ (tfaults' = tfaults \/ tfaults' = tfaults + 1)
    <3>1. CASE \E o \in TfOps : FailStep(o) \/ Due(o)
        BY <3>1 DEF FailStep, Due, TfFault, tfEnv
    <3>2. CASE ContainmentFails \/ WaitTimesOut
        BY <3>2 DEF ContainmentFails, WaitTimesOut, TfFault, tfEnv
    <3>3. CASE LinkFails \/ TfCrash
        BY <3>3 DEF LinkFails, TfCrash, TfFault, tfEnv
    <3>4. CASE ChildExits
        BY <3>4 DEF ChildExits, TfFault, tfEnv
    <3> QED
        BY <1>2, <3>1, <3>2, <3>3, <3>4
  <2> QED
      BY <2>1
<1>3. CASE \/ Requeue \/ ChildCopies \/ StrayCopies \/ StrayEnds
           \/ EditSource \/ ChangeTarget \/ Disconnect \/ Reconnect \/ UNCHANGED tfVars
    BY <1>3 DEF Requeue, ChildCopies, StrayCopies, StrayEnds, EditSource, ChangeTarget, Disconnect,
       Reconnect, TfEvent, tfEnv, tfVars
<1> QED
    BY <1>1, <1>2, <1>3 DEF TfNext

\* Every step keeps the account.
LEMMA PaidStep == TfInv /\ AttemptsPaid /\ [TfNext]_tfVars => AttemptsPaid'
<1> SUFFICES ASSUME TfInv, AttemptsPaid, [TfNext]_tfVars PROVE AttemptsPaid'
    OBVIOUS
<1>1. tfaults' \in Nat /\ tevents' \in Nat
    BY TroubleCounted DEF AttemptsPaid
<1>2. Forgiven' => AttemptsPaid'
    BY <1>1 DEF AttemptsPaid
<1>3. CASE Forgiven
    BY <1>2, <1>3, ExcuseStays
<1>4. CASE ~Forgiven
  <2>1. AttemptsPaid' \/ Forgiven'
      BY <1>4, PaidBefore, PaidFailStep, PaidWait, PaidTimeout, PaidInbox
         DEF TfNext, TfFinish, TfBatchStep
  <2> QED
      BY <1>2, <2>1
<1> QED
    BY <1>3, <1>4

\* An outage costs one attempt at most, however long it lasts and however often
\* the executor tries again (_raise_endpoint_wait_if_unavailable): for any number
\* of operations and any order of outages, failures and crashes.
THEOREM OutagesAreCheap == TfSpec => []OutageCostsOneAttempt
<1>1. TfInv /\ AttemptsPaid => OutageCostsOneAttempt
  <2> SUFFICES ASSUME TfInv, AttemptsPaid, ~Forgiven PROVE Cardinality(Attempts) <= tfaults + tevents
      BY DEF OutageCostsOneAttempt, Forgiven
  <2> QED
      BY AttemptsFinite DEF AttemptsPaid, Prepaid
<1> QED
    BY <1>1, TfInvariance, PaidInit, PaidStep, PTL DEF TfSpec

-----------------------------------------------------------------------------
(* Directories: the inductive invariant.  A change that was made is on the   *)
(* disk in one of the forms the observers look for; what a pass has read is  *)
(* behind the journal; and only a user, a torn quarantine, a restore or a    *)
(* lost race makes the evidence contradict the journal.                      *)

DirStates == {"due", "listed", "loaded", "moving", "resume", "handoff", "over", "dead"}
DirPhases == {"NONE", "INTENT", "PRECOND", "PRESERVED", "APPLIED", "VERIFIED",
              "CATALOGED", "CLEANED", "CANCELLED", "FAILED", "DECIDE"}
DirPlaces == {"idle", "prepared", "allowed", "checked", "moved", "kept", "replacing",
              "applied", "cleaned", "restoring", "restored", "timed"}
DirPasses == [at : DirStates, from : 0..6, cat : BOOLEAN, goal : 0..6 \cup {Conflict}]

DirTypes ==
    /\ dkind \in {"CREATE", "QUARANTINE", "METADATA"}
    /\ dph \in DirPhases /\ dj \in 0..Last(dkind) \cup {Conflict}
    /\ rj \in -1..5 \cup {Conflict}
    /\ fin \in {"absent", "empty", "full", "marked", "shared", "ours", "alien"}
    /\ qp \in {"none", "empty", "full", "file"} /\ mtime \in {"old", "want", "other"}
    /\ staged \in BOOLEAN /\ qm \in BOOLEAN /\ mcat \in BOOLEAN
    /\ open \in BOOLEAN /\ made \in BOOLEAN
    /\ dpc \in DirPlaces /\ held \in 0..6
    /\ rec \in [DirThreads -> DirPasses]
    /\ trouble \subseteq {"edit", "torn", "race", "gap", "failed", "undone"}

\* The phases and places of each kind, and what each kind never does to the disk.
KindShape ==
    /\ dkind = "METADATA" => /\ dph = "NONE" /\ dpc \in {"idle", "timed"}
                             /\ fin \notin {"marked", "shared", "ours"} /\ qp = "none"
    /\ dkind = "CREATE" => /\ dph \notin {"NONE", "PRESERVED"}
                           /\ dpc \in {"idle", "prepared", "allowed", "applied", "cleaned"}
                           /\ fin # "ours" /\ qp = "none"
    /\ dkind = "QUARANTINE" => /\ dph # "NONE" /\ dpc # "timed"
                               /\ fin \notin {"marked", "shared"}

\* The program made the change, or took a file of the user for its directory.
MadeOrTaken == made \/ qp = "file"

\* What was made shows on the disk, in the journal's phases and in the executor's place.
MadeShows ==
    /\ fin \in {"marked", "shared"} \/ mtime = "want" => made
    /\ qp # "none" => MadeOrTaken
    /\ dpc \in {"applied", "timed"} \/ dph \in {"APPLIED", "VERIFIED"} => MadeOrTaken
    /\ dj \in (IntentIndex(dkind) + 1)..Last(dkind) => MadeOrTaken

\* How far the quarantine of a directory is.
QuarantineShape ==
    /\ qm => qp # "none"
    /\ dpc = "checked" => qp = "none"
    /\ dpc \in {"moved", "kept", "replacing"} => qp # "none"
    /\ dpc \in {"kept", "replacing"} \/ dph = "PRESERVED" \/ fin = "ours" => qm
    /\ dkind = "QUARANTINE" /\ (dpc = "applied" \/ dph \in {"APPLIED", "VERIFIED", "CATALOGED", "CLEANED"})
         => fin = "ours"
    /\ dpc \in {"restoring", "restored"} => "undone" \in trouble

\* The catalog comes after the journal's last state, the cleanup after the catalog.
CatalogShape ==
    /\ dph \in {"CATALOGED", "CLEANED"} => dj = Last(dkind)
    /\ dpc = "cleaned" => dph = "CATALOGED"

\* What the disk looks like when nobody but this program worked on it.
Undisturbed ==
    /\ dkind = "CREATE" /\ "edit" \notin trouble =>
         /\ fin \in {"absent", "marked", "empty"} /\ (made => fin # "absent")
         /\ fin = "empty" => dph \in {"CATALOGED", "CLEANED"} /\ dpc \in {"idle", "cleaned"}
         /\ dph = "CLEANED" \/ dpc = "cleaned" => fin = "empty"
    /\ dkind = "QUARANTINE" /\ trouble \cap {"edit", "undone"} = {} =>
         /\ qp = "none" => fin = "empty"
         /\ qp # "none" => qp = "empty" /\ fin \in {"absent", "ours"}
    /\ dkind = "QUARANTINE" /\ "torn" \notin trouble => (qp # "none" /\ ~qm => dpc = "moved")
    /\ dkind = "QUARANTINE" => (made => qp # "none")
    /\ dkind = "METADATA" /\ "edit" \notin trouble => fin = "empty" /\ (made => mtime = "want")

Caused == trouble \cap {"edit", "torn", "race", "undone"} # {}

\* A pass reads the journal, then the disk; the journal may be ahead of it by then.
PassBehind(t) ==
    LET r == rec[t] IN
    /\ r.at \in {"listed", "loaded", "moving"} =>
         /\ r.from <= dj /\ r.from <= Last(dkind)
         /\ r.from > IntentIndex(dkind) => MadeOrTaken
    /\ r.at \in {"listed", "loaded"} => r.from < Last(dkind)
    /\ r.at = "moving" =>
         /\ r.goal \in 0..Last(dkind) \cup {Conflict} /\ r.from <= r.goal
         /\ r.goal \in (IntentIndex(dkind) + 1)..Last(dkind) => MadeOrTaken
         /\ r.goal = Conflict /\ dj = r.from => Caused

DirInv ==
    /\ DirTypes /\ KindShape /\ MadeShows /\ QuarantineShape /\ CatalogShape /\ Undisturbed
    /\ dj = Conflict => Caused
    /\ \A t \in DirThreads : PassBehind(t)

\* What the steps of everybody do to what a pass has read.
DirGrows ==
    /\ dkind' = dkind /\ dj' \in 0..9 /\ dj' >= dj /\ (made => made') /\ (MadeOrTaken => MadeOrTaken') /\ trouble \subseteq trouble'

\* A pass stays behind the journal while others work.
LEMMA PassesStay ==
    ASSUME DirInv, DirGrows, NEW t \in DirThreads, rec'[t] = rec[t]
    PROVE  PassBehind(t)'
<1>1. PassBehind(t) /\ rec[t] \in DirPasses
    BY DEF DirInv, DirTypes
<1>2. rec[t].from \in 0..6 /\ rec[t].goal \in 0..6 \cup {Conflict} /\ dj \in 0..9 /\ Last(dkind) \in 5..6
    BY <1>1 DEF DirPasses, DirInv, DirTypes, Last, Conflict
<1>3. dj' \in Int
    BY DEF DirGrows
<1> QED
    BY <1>1, <1>2, <1>3 DEF PassBehind, DirGrows, Caused, IntentIndex


\* The executor takes the operation up: nothing on the disk changes.
LEMMA BeginCommitInv ==
    ASSUME DirInv, BeginCommit PROVE DirInv'
<1>1. rec' = rec /\ DirGrows
    BY DEF DirGrows, DirInv, DirTypes, DirPhases, DirPlaces, DirThreads, KindShape, MadeShows, MadeOrTaken, QuarantineShape, CatalogShape, Undisturbed, Caused, Last, IntentIndex, VerifiedIndex, Conflict, Unrecorded, Moves, Lawful, Troubled, dirStore, dirDisk, dirHost, dirSeen, BeginCommit, Running, DirPrepared, CreatePrepared, QuarantinePrepared, CommitFails, Matches
<1>2. DirTypes'
    BY <1>1 DEF DirGrows, DirInv, DirTypes, DirPhases, DirPlaces, DirThreads, KindShape, MadeShows, MadeOrTaken, QuarantineShape, CatalogShape, Undisturbed, Caused, Last, IntentIndex, VerifiedIndex, Conflict, Unrecorded, Moves, Lawful, Troubled, dirStore, dirDisk, dirHost, dirSeen, BeginCommit, Running, DirPrepared, CreatePrepared, QuarantinePrepared, CommitFails, Matches
<1>3. KindShape' /\ CatalogShape'
    BY <1>1 DEF DirGrows, DirInv, DirTypes, DirPhases, DirPlaces, DirThreads, KindShape, MadeShows, MadeOrTaken, QuarantineShape, CatalogShape, Undisturbed, Caused, Last, IntentIndex, VerifiedIndex, Conflict, Unrecorded, Moves, Lawful, Troubled, dirStore, dirDisk, dirHost, dirSeen, BeginCommit, Running, DirPrepared, CreatePrepared, QuarantinePrepared, CommitFails, Matches
<1>4. MadeShows' /\ QuarantineShape'
    BY <1>1 DEF DirGrows, DirInv, DirTypes, DirPhases, DirPlaces, DirThreads, KindShape, MadeShows, MadeOrTaken, QuarantineShape, CatalogShape, Undisturbed, Caused, Last, IntentIndex, VerifiedIndex, Conflict, Unrecorded, Moves, Lawful, Troubled, dirStore, dirDisk, dirHost, dirSeen, BeginCommit, Running, DirPrepared, CreatePrepared, QuarantinePrepared, CommitFails, Matches
<1>5. Undisturbed'
    BY <1>1 DEF DirGrows, DirInv, DirTypes, DirPhases, DirPlaces, DirThreads, KindShape, MadeShows, MadeOrTaken, QuarantineShape, CatalogShape, Undisturbed, Caused, Last, IntentIndex, VerifiedIndex, Conflict, Unrecorded, Moves, Lawful, Troubled, dirStore, dirDisk, dirHost, dirSeen, BeginCommit, Running, DirPrepared, CreatePrepared, QuarantinePrepared, CommitFails, Matches
<1>6. dj' = Conflict => Caused'
    BY <1>1 DEF DirGrows, DirInv, DirTypes, DirPhases, DirPlaces, DirThreads, KindShape, MadeShows, MadeOrTaken, QuarantineShape, CatalogShape, Undisturbed, Caused, Last, IntentIndex, VerifiedIndex, Conflict, Unrecorded, Moves, Lawful, Troubled, dirStore, dirDisk, dirHost, dirSeen, BeginCommit, Running, DirPrepared, CreatePrepared, QuarantinePrepared, CommitFails, Matches
<1>7. \A t \in DirThreads : PassBehind(t)'
    BY <1>1, PassesStay
<1> QED
    BY <1>2, <1>3, <1>4, <1>5, <1>6, <1>7 DEF DirInv


\* The intent is journaled before anything is made.
LEMMA RecordIntentInv ==
    ASSUME DirInv, RecordIntent PROVE DirInv'
<1>1. rec' = rec /\ DirGrows
    BY DEF DirGrows, DirInv, DirTypes, DirPhases, DirPlaces, DirThreads, KindShape, MadeShows, MadeOrTaken, QuarantineShape, CatalogShape, Undisturbed, Caused, Last, IntentIndex, VerifiedIndex, Conflict, Unrecorded, Moves, Lawful, Troubled, dirStore, dirDisk, dirHost, dirSeen, RecordIntent, Forward, Displaced, CommitFails
<1>2. DirTypes'
    BY <1>1 DEF DirGrows, DirInv, DirTypes, DirPhases, DirPlaces, DirThreads, KindShape, MadeShows, MadeOrTaken, QuarantineShape, CatalogShape, Undisturbed, Caused, Last, IntentIndex, VerifiedIndex, Conflict, Unrecorded, Moves, Lawful, Troubled, dirStore, dirDisk, dirHost, dirSeen, RecordIntent, Forward, Displaced, CommitFails
<1>3. KindShape' /\ CatalogShape'
    BY <1>1 DEF DirGrows, DirInv, DirTypes, DirPhases, DirPlaces, DirThreads, KindShape, MadeShows, MadeOrTaken, QuarantineShape, CatalogShape, Undisturbed, Caused, Last, IntentIndex, VerifiedIndex, Conflict, Unrecorded, Moves, Lawful, Troubled, dirStore, dirDisk, dirHost, dirSeen, RecordIntent, Forward, Displaced, CommitFails
<1>4. MadeShows' /\ QuarantineShape'
    BY <1>1 DEF DirGrows, DirInv, DirTypes, DirPhases, DirPlaces, DirThreads, KindShape, MadeShows, MadeOrTaken, QuarantineShape, CatalogShape, Undisturbed, Caused, Last, IntentIndex, VerifiedIndex, Conflict, Unrecorded, Moves, Lawful, Troubled, dirStore, dirDisk, dirHost, dirSeen, RecordIntent, Forward, Displaced, CommitFails
<1>5. Undisturbed'
    BY <1>1 DEF DirGrows, DirInv, DirTypes, DirPhases, DirPlaces, DirThreads, KindShape, MadeShows, MadeOrTaken, QuarantineShape, CatalogShape, Undisturbed, Caused, Last, IntentIndex, VerifiedIndex, Conflict, Unrecorded, Moves, Lawful, Troubled, dirStore, dirDisk, dirHost, dirSeen, RecordIntent, Forward, Displaced, CommitFails
<1>6. dj' = Conflict => Caused'
    BY <1>1 DEF DirGrows, DirInv, DirTypes, DirPhases, DirPlaces, DirThreads, KindShape, MadeShows, MadeOrTaken, QuarantineShape, CatalogShape, Undisturbed, Caused, Last, IntentIndex, VerifiedIndex, Conflict, Unrecorded, Moves, Lawful, Troubled, dirStore, dirDisk, dirHost, dirSeen, RecordIntent, Forward, Displaced, CommitFails
<1>7. \A t \in DirThreads : PassBehind(t)'
    BY <1>1, PassesStay
<1> QED
    BY <1>2, <1>3, <1>4, <1>5, <1>6, <1>7 DEF DirInv


\* Creating the directory: what exists afterwards is ours, or somebody was first.
LEMMA CreateDirectoryInv ==
    ASSUME DirInv, CreateDirectory PROVE DirInv'
<1>1. rec' = rec /\ DirGrows
    BY DEF DirGrows, DirInv, DirTypes, DirPhases, DirPlaces, DirThreads, KindShape, MadeShows, MadeOrTaken, QuarantineShape, CatalogShape, Undisturbed, Caused, Last, IntentIndex, VerifiedIndex, Conflict, Unrecorded, Moves, Lawful, Troubled, dirStore, dirDisk, dirHost, dirSeen, CreateDirectory, Matches, CommitFails
<1>2. DirTypes'
  <2>1. staged' \in BOOLEAN /\ made' \in BOOLEAN
    BY Zenon DEF CreateDirectory, DirInv, DirTypes, RecordMetadata
  <2>2. UNCHANGED <<qm, mcat, open>>
    BY DEF DirInv, DirTypes, DirPhases, DirPlaces, DirThreads, KindShape, MadeShows, MadeOrTaken, QuarantineShape, CatalogShape, Undisturbed, Caused, Last, IntentIndex, VerifiedIndex, Conflict, Unrecorded, Moves, Lawful, Troubled, dirStore, dirDisk, dirHost, dirSeen, CreateDirectory, Matches, CommitFails
  <2> QED
    BY <1>1, <2>1, <2>2 DEF DirGrows, DirInv, DirTypes, DirPhases, DirPlaces, DirThreads, KindShape, MadeShows, MadeOrTaken, QuarantineShape, CatalogShape, Undisturbed, Caused, Last, IntentIndex, VerifiedIndex, Conflict, Unrecorded, Moves, Lawful, Troubled, dirStore, dirDisk, dirHost, dirSeen, CreateDirectory, Matches, CommitFails
<1>3. KindShape' /\ CatalogShape'
    BY <1>1 DEF DirGrows, DirInv, DirTypes, DirPhases, DirPlaces, DirThreads, KindShape, MadeShows, MadeOrTaken, QuarantineShape, CatalogShape, Undisturbed, Caused, Last, IntentIndex, VerifiedIndex, Conflict, Unrecorded, Moves, Lawful, Troubled, dirStore, dirDisk, dirHost, dirSeen, CreateDirectory, Matches, CommitFails
<1>4. MadeShows' /\ QuarantineShape'
    BY <1>1 DEF DirGrows, DirInv, DirTypes, DirPhases, DirPlaces, DirThreads, KindShape, MadeShows, MadeOrTaken, QuarantineShape, CatalogShape, Undisturbed, Caused, Last, IntentIndex, VerifiedIndex, Conflict, Unrecorded, Moves, Lawful, Troubled, dirStore, dirDisk, dirHost, dirSeen, CreateDirectory, Matches, CommitFails
<1>5. Undisturbed'
    BY <1>1 DEF DirGrows, DirInv, DirTypes, DirPhases, DirPlaces, DirThreads, KindShape, MadeShows, MadeOrTaken, QuarantineShape, CatalogShape, Undisturbed, Caused, Last, IntentIndex, VerifiedIndex, Conflict, Unrecorded, Moves, Lawful, Troubled, dirStore, dirDisk, dirHost, dirSeen, CreateDirectory, Matches, CommitFails
<1>6. dj' = Conflict => Caused'
    BY <1>1 DEF DirGrows, DirInv, DirTypes, DirPhases, DirPlaces, DirThreads, KindShape, MadeShows, MadeOrTaken, QuarantineShape, CatalogShape, Undisturbed, Caused, Last, IntentIndex, VerifiedIndex, Conflict, Unrecorded, Moves, Lawful, Troubled, dirStore, dirDisk, dirHost, dirSeen, CreateDirectory, Matches, CommitFails
<1>7. \A t \in DirThreads : PassBehind(t)'
    BY <1>1, PassesStay
<1> QED
    BY <1>2, <1>3, <1>4, <1>5, <1>6, <1>7 DEF DirInv


\* The quarantine place is found free.
LEMMA CheckQuarantineInv ==
    ASSUME DirInv, CheckQuarantine PROVE DirInv'
<1>1. rec' = rec /\ DirGrows
    BY DEF DirGrows, DirInv, DirTypes, DirPhases, DirPlaces, DirThreads, KindShape, MadeShows, MadeOrTaken, QuarantineShape, CatalogShape, Undisturbed, Caused, Last, IntentIndex, VerifiedIndex, Conflict, Unrecorded, Moves, Lawful, Troubled, dirStore, dirDisk, dirHost, dirSeen, CheckQuarantine, QuarantinePrepared, CommitFails
<1>2. DirTypes'
    BY <1>1 DEF DirGrows, DirInv, DirTypes, DirPhases, DirPlaces, DirThreads, KindShape, MadeShows, MadeOrTaken, QuarantineShape, CatalogShape, Undisturbed, Caused, Last, IntentIndex, VerifiedIndex, Conflict, Unrecorded, Moves, Lawful, Troubled, dirStore, dirDisk, dirHost, dirSeen, CheckQuarantine, QuarantinePrepared, CommitFails
<1>3. KindShape' /\ CatalogShape'
    BY <1>1 DEF DirGrows, DirInv, DirTypes, DirPhases, DirPlaces, DirThreads, KindShape, MadeShows, MadeOrTaken, QuarantineShape, CatalogShape, Undisturbed, Caused, Last, IntentIndex, VerifiedIndex, Conflict, Unrecorded, Moves, Lawful, Troubled, dirStore, dirDisk, dirHost, dirSeen, CheckQuarantine, QuarantinePrepared, CommitFails
<1>4. MadeShows' /\ QuarantineShape'
    BY <1>1 DEF DirGrows, DirInv, DirTypes, DirPhases, DirPlaces, DirThreads, KindShape, MadeShows, MadeOrTaken, QuarantineShape, CatalogShape, Undisturbed, Caused, Last, IntentIndex, VerifiedIndex, Conflict, Unrecorded, Moves, Lawful, Troubled, dirStore, dirDisk, dirHost, dirSeen, CheckQuarantine, QuarantinePrepared, CommitFails
<1>5. Undisturbed'
    BY <1>1 DEF DirGrows, DirInv, DirTypes, DirPhases, DirPlaces, DirThreads, KindShape, MadeShows, MadeOrTaken, QuarantineShape, CatalogShape, Undisturbed, Caused, Last, IntentIndex, VerifiedIndex, Conflict, Unrecorded, Moves, Lawful, Troubled, dirStore, dirDisk, dirHost, dirSeen, CheckQuarantine, QuarantinePrepared, CommitFails
<1>6. dj' = Conflict => Caused'
    BY <1>1 DEF DirGrows, DirInv, DirTypes, DirPhases, DirPlaces, DirThreads, KindShape, MadeShows, MadeOrTaken, QuarantineShape, CatalogShape, Undisturbed, Caused, Last, IntentIndex, VerifiedIndex, Conflict, Unrecorded, Moves, Lawful, Troubled, dirStore, dirDisk, dirHost, dirSeen, CheckQuarantine, QuarantinePrepared, CommitFails
<1>7. \A t \in DirThreads : PassBehind(t)'
    BY <1>1, PassesStay
<1> QED
    BY <1>2, <1>3, <1>4, <1>5, <1>6, <1>7 DEF DirInv


\* The directory goes into quarantine with all that is in it.
LEMMA MoveToQuarantineInv ==
    ASSUME DirInv, MoveToQuarantine PROVE DirInv'
<1>1. rec' = rec /\ DirGrows
    BY DEF DirGrows, DirInv, DirTypes, DirPhases, DirPlaces, DirThreads, KindShape, MadeShows, MadeOrTaken, QuarantineShape, CatalogShape, Undisturbed, Caused, Last, IntentIndex, VerifiedIndex, Conflict, Unrecorded, Moves, Lawful, Troubled, dirStore, dirDisk, dirHost, dirSeen, MoveToQuarantine, IsDirectory, CommitFails
<1>2. DirTypes'
  <2>1. made' \in BOOLEAN
    BY Zenon DEF MoveToQuarantine, DirInv, DirTypes, RecordMetadata
  <2>2. UNCHANGED <<staged, qm, mcat, open>>
    BY DEF DirInv, DirTypes, DirPhases, DirPlaces, DirThreads, KindShape, MadeShows, MadeOrTaken, QuarantineShape, CatalogShape, Undisturbed, Caused, Last, IntentIndex, VerifiedIndex, Conflict, Unrecorded, Moves, Lawful, Troubled, dirStore, dirDisk, dirHost, dirSeen, MoveToQuarantine, IsDirectory, CommitFails
  <2> QED
    BY <1>1, <2>1, <2>2 DEF DirGrows, DirInv, DirTypes, DirPhases, DirPlaces, DirThreads, KindShape, MadeShows, MadeOrTaken, QuarantineShape, CatalogShape, Undisturbed, Caused, Last, IntentIndex, VerifiedIndex, Conflict, Unrecorded, Moves, Lawful, Troubled, dirStore, dirDisk, dirHost, dirSeen, MoveToQuarantine, IsDirectory, CommitFails
<1>3. KindShape' /\ CatalogShape'
    BY <1>1 DEF DirGrows, DirInv, DirTypes, DirPhases, DirPlaces, DirThreads, KindShape, MadeShows, MadeOrTaken, QuarantineShape, CatalogShape, Undisturbed, Caused, Last, IntentIndex, VerifiedIndex, Conflict, Unrecorded, Moves, Lawful, Troubled, dirStore, dirDisk, dirHost, dirSeen, MoveToQuarantine, IsDirectory, CommitFails
<1>4. MadeShows' /\ QuarantineShape'
    BY <1>1 DEF DirGrows, DirInv, DirTypes, DirPhases, DirPlaces, DirThreads, KindShape, MadeShows, MadeOrTaken, QuarantineShape, CatalogShape, Undisturbed, Caused, Last, IntentIndex, VerifiedIndex, Conflict, Unrecorded, Moves, Lawful, Troubled, dirStore, dirDisk, dirHost, dirSeen, MoveToQuarantine, IsDirectory, CommitFails
<1>5. Undisturbed'
    BY <1>1 DEF DirGrows, DirInv, DirTypes, DirPhases, DirPlaces, DirThreads, KindShape, MadeShows, MadeOrTaken, QuarantineShape, CatalogShape, Undisturbed, Caused, Last, IntentIndex, VerifiedIndex, Conflict, Unrecorded, Moves, Lawful, Troubled, dirStore, dirDisk, dirHost, dirSeen, MoveToQuarantine, IsDirectory, CommitFails
<1>6. dj' = Conflict => Caused'
    BY <1>1 DEF DirGrows, DirInv, DirTypes, DirPhases, DirPlaces, DirThreads, KindShape, MadeShows, MadeOrTaken, QuarantineShape, CatalogShape, Undisturbed, Caused, Last, IntentIndex, VerifiedIndex, Conflict, Unrecorded, Moves, Lawful, Troubled, dirStore, dirDisk, dirHost, dirSeen, MoveToQuarantine, IsDirectory, CommitFails
<1>7. \A t \in DirThreads : PassBehind(t)'
    BY <1>1, PassesStay
<1> QED
    BY <1>2, <1>3, <1>4, <1>5, <1>6, <1>7 DEF DirInv


\* The manifest that tells what is in quarantine.
LEMMA WriteManifestInv ==
    ASSUME DirInv, WriteManifest PROVE DirInv'
<1>1. rec' = rec /\ DirGrows
    BY DEF DirGrows, DirInv, DirTypes, DirPhases, DirPlaces, DirThreads, KindShape, MadeShows, MadeOrTaken, QuarantineShape, CatalogShape, Undisturbed, Caused, Last, IntentIndex, VerifiedIndex, Conflict, Unrecorded, Moves, Lawful, Troubled, dirStore, dirDisk, dirHost, dirSeen, WriteManifest, CommitFails
<1>2. DirTypes'
  <2>1. qm' \in BOOLEAN
    BY Zenon DEF WriteManifest, DirInv, DirTypes, RecordMetadata
  <2>2. UNCHANGED <<staged, mcat, open, made>>
    BY DEF DirInv, DirTypes, DirPhases, DirPlaces, DirThreads, KindShape, MadeShows, MadeOrTaken, QuarantineShape, CatalogShape, Undisturbed, Caused, Last, IntentIndex, VerifiedIndex, Conflict, Unrecorded, Moves, Lawful, Troubled, dirStore, dirDisk, dirHost, dirSeen, WriteManifest, CommitFails
  <2> QED
    BY <1>1, <2>1, <2>2 DEF DirGrows, DirInv, DirTypes, DirPhases, DirPlaces, DirThreads, KindShape, MadeShows, MadeOrTaken, QuarantineShape, CatalogShape, Undisturbed, Caused, Last, IntentIndex, VerifiedIndex, Conflict, Unrecorded, Moves, Lawful, Troubled, dirStore, dirDisk, dirHost, dirSeen, WriteManifest, CommitFails
<1>3. KindShape' /\ CatalogShape'
    BY <1>1 DEF DirGrows, DirInv, DirTypes, DirPhases, DirPlaces, DirThreads, KindShape, MadeShows, MadeOrTaken, QuarantineShape, CatalogShape, Undisturbed, Caused, Last, IntentIndex, VerifiedIndex, Conflict, Unrecorded, Moves, Lawful, Troubled, dirStore, dirDisk, dirHost, dirSeen, WriteManifest, CommitFails
<1>4. MadeShows' /\ QuarantineShape'
    BY <1>1 DEF DirGrows, DirInv, DirTypes, DirPhases, DirPlaces, DirThreads, KindShape, MadeShows, MadeOrTaken, QuarantineShape, CatalogShape, Undisturbed, Caused, Last, IntentIndex, VerifiedIndex, Conflict, Unrecorded, Moves, Lawful, Troubled, dirStore, dirDisk, dirHost, dirSeen, WriteManifest, CommitFails
<1>5. Undisturbed'
    BY <1>1 DEF DirGrows, DirInv, DirTypes, DirPhases, DirPlaces, DirThreads, KindShape, MadeShows, MadeOrTaken, QuarantineShape, CatalogShape, Undisturbed, Caused, Last, IntentIndex, VerifiedIndex, Conflict, Unrecorded, Moves, Lawful, Troubled, dirStore, dirDisk, dirHost, dirSeen, WriteManifest, CommitFails
<1>6. dj' = Conflict => Caused'
    BY <1>1 DEF DirGrows, DirInv, DirTypes, DirPhases, DirPlaces, DirThreads, KindShape, MadeShows, MadeOrTaken, QuarantineShape, CatalogShape, Undisturbed, Caused, Last, IntentIndex, VerifiedIndex, Conflict, Unrecorded, Moves, Lawful, Troubled, dirStore, dirDisk, dirHost, dirSeen, WriteManifest, CommitFails
<1>7. \A t \in DirThreads : PassBehind(t)'
    BY <1>1, PassesStay
<1> QED
    BY <1>2, <1>3, <1>4, <1>5, <1>6, <1>7 DEF DirInv


\* The quarantine is journaled once its manifest is written.
LEMMA RecordPreservedInv ==
    ASSUME DirInv, RecordPreserved PROVE DirInv'
<1>1. rec' = rec /\ DirGrows
    BY DEF DirGrows, DirInv, DirTypes, DirPhases, DirPlaces, DirThreads, KindShape, MadeShows, MadeOrTaken, QuarantineShape, CatalogShape, Undisturbed, Caused, Last, IntentIndex, VerifiedIndex, Conflict, Unrecorded, Moves, Lawful, Troubled, dirStore, dirDisk, dirHost, dirSeen, RecordPreserved, Forward, Displaced
<1>2. DirTypes'
    BY <1>1 DEF DirGrows, DirInv, DirTypes, DirPhases, DirPlaces, DirThreads, KindShape, MadeShows, MadeOrTaken, QuarantineShape, CatalogShape, Undisturbed, Caused, Last, IntentIndex, VerifiedIndex, Conflict, Unrecorded, Moves, Lawful, Troubled, dirStore, dirDisk, dirHost, dirSeen, RecordPreserved, Forward, Displaced
<1>3. KindShape' /\ CatalogShape'
    BY <1>1 DEF DirGrows, DirInv, DirTypes, DirPhases, DirPlaces, DirThreads, KindShape, MadeShows, MadeOrTaken, QuarantineShape, CatalogShape, Undisturbed, Caused, Last, IntentIndex, VerifiedIndex, Conflict, Unrecorded, Moves, Lawful, Troubled, dirStore, dirDisk, dirHost, dirSeen, RecordPreserved, Forward, Displaced
<1>4. MadeShows' /\ QuarantineShape'
    BY <1>1 DEF DirGrows, DirInv, DirTypes, DirPhases, DirPlaces, DirThreads, KindShape, MadeShows, MadeOrTaken, QuarantineShape, CatalogShape, Undisturbed, Caused, Last, IntentIndex, VerifiedIndex, Conflict, Unrecorded, Moves, Lawful, Troubled, dirStore, dirDisk, dirHost, dirSeen, RecordPreserved, Forward, Displaced
<1>5. Undisturbed'
    BY <1>1 DEF DirGrows, DirInv, DirTypes, DirPhases, DirPlaces, DirThreads, KindShape, MadeShows, MadeOrTaken, QuarantineShape, CatalogShape, Undisturbed, Caused, Last, IntentIndex, VerifiedIndex, Conflict, Unrecorded, Moves, Lawful, Troubled, dirStore, dirDisk, dirHost, dirSeen, RecordPreserved, Forward, Displaced
<1>6. dj' = Conflict => Caused'
    BY <1>1 DEF DirGrows, DirInv, DirTypes, DirPhases, DirPlaces, DirThreads, KindShape, MadeShows, MadeOrTaken, QuarantineShape, CatalogShape, Undisturbed, Caused, Last, IntentIndex, VerifiedIndex, Conflict, Unrecorded, Moves, Lawful, Troubled, dirStore, dirDisk, dirHost, dirSeen, RecordPreserved, Forward, Displaced
<1>7. \A t \in DirThreads : PassBehind(t)'
    BY <1>1, PassesStay
<1> QED
    BY <1>2, <1>3, <1>4, <1>5, <1>6, <1>7 DEF DirInv


\* A preserved directory is taken up again where the journal left it.
LEMMA ResumePreservedInv ==
    ASSUME DirInv, ResumePreserved PROVE DirInv'
<1>1. rec' = rec /\ DirGrows
    BY DEF DirGrows, DirInv, DirTypes, DirPhases, DirPlaces, DirThreads, KindShape, MadeShows, MadeOrTaken, QuarantineShape, CatalogShape, Undisturbed, Caused, Last, IntentIndex, VerifiedIndex, Conflict, Unrecorded, Moves, Lawful, Troubled, dirStore, dirDisk, dirHost, dirSeen, ResumePreserved, Running, QuarantinePrepared
<1>2. DirTypes'
    BY <1>1 DEF DirGrows, DirInv, DirTypes, DirPhases, DirPlaces, DirThreads, KindShape, MadeShows, MadeOrTaken, QuarantineShape, CatalogShape, Undisturbed, Caused, Last, IntentIndex, VerifiedIndex, Conflict, Unrecorded, Moves, Lawful, Troubled, dirStore, dirDisk, dirHost, dirSeen, ResumePreserved, Running, QuarantinePrepared
<1>3. KindShape' /\ CatalogShape'
    BY <1>1 DEF DirGrows, DirInv, DirTypes, DirPhases, DirPlaces, DirThreads, KindShape, MadeShows, MadeOrTaken, QuarantineShape, CatalogShape, Undisturbed, Caused, Last, IntentIndex, VerifiedIndex, Conflict, Unrecorded, Moves, Lawful, Troubled, dirStore, dirDisk, dirHost, dirSeen, ResumePreserved, Running, QuarantinePrepared
<1>4. MadeShows' /\ QuarantineShape'
    BY <1>1 DEF DirGrows, DirInv, DirTypes, DirPhases, DirPlaces, DirThreads, KindShape, MadeShows, MadeOrTaken, QuarantineShape, CatalogShape, Undisturbed, Caused, Last, IntentIndex, VerifiedIndex, Conflict, Unrecorded, Moves, Lawful, Troubled, dirStore, dirDisk, dirHost, dirSeen, ResumePreserved, Running, QuarantinePrepared
<1>5. Undisturbed'
    BY <1>1 DEF DirGrows, DirInv, DirTypes, DirPhases, DirPlaces, DirThreads, KindShape, MadeShows, MadeOrTaken, QuarantineShape, CatalogShape, Undisturbed, Caused, Last, IntentIndex, VerifiedIndex, Conflict, Unrecorded, Moves, Lawful, Troubled, dirStore, dirDisk, dirHost, dirSeen, ResumePreserved, Running, QuarantinePrepared
<1>6. dj' = Conflict => Caused'
    BY <1>1 DEF DirGrows, DirInv, DirTypes, DirPhases, DirPlaces, DirThreads, KindShape, MadeShows, MadeOrTaken, QuarantineShape, CatalogShape, Undisturbed, Caused, Last, IntentIndex, VerifiedIndex, Conflict, Unrecorded, Moves, Lawful, Troubled, dirStore, dirDisk, dirHost, dirSeen, ResumePreserved, Running, QuarantinePrepared
<1>7. \A t \in DirThreads : PassBehind(t)'
    BY <1>1, PassesStay
<1> QED
    BY <1>2, <1>3, <1>4, <1>5, <1>6, <1>7 DEF DirInv


\* The file takes the place of the directory that left it.
LEMMA PlaceFileInv ==
    ASSUME DirInv, PlaceFile PROVE DirInv'
<1>1. rec' = rec /\ DirGrows
    BY DEF DirGrows, DirInv, DirTypes, DirPhases, DirPlaces, DirThreads, KindShape, MadeShows, MadeOrTaken, QuarantineShape, CatalogShape, Undisturbed, Caused, Last, IntentIndex, VerifiedIndex, Conflict, Unrecorded, Moves, Lawful, Troubled, dirStore, dirDisk, dirHost, dirSeen, PlaceFile, CommitFails
<1>2. DirTypes'
  <2>1. staged' \in BOOLEAN
    BY Zenon DEF PlaceFile, DirInv, DirTypes, RecordMetadata
  <2>2. UNCHANGED <<qm, mcat, open, made>>
    BY DEF DirInv, DirTypes, DirPhases, DirPlaces, DirThreads, KindShape, MadeShows, MadeOrTaken, QuarantineShape, CatalogShape, Undisturbed, Caused, Last, IntentIndex, VerifiedIndex, Conflict, Unrecorded, Moves, Lawful, Troubled, dirStore, dirDisk, dirHost, dirSeen, PlaceFile, CommitFails
  <2> QED
    BY <1>1, <2>1, <2>2 DEF DirGrows, DirInv, DirTypes, DirPhases, DirPlaces, DirThreads, KindShape, MadeShows, MadeOrTaken, QuarantineShape, CatalogShape, Undisturbed, Caused, Last, IntentIndex, VerifiedIndex, Conflict, Unrecorded, Moves, Lawful, Troubled, dirStore, dirDisk, dirHost, dirSeen, PlaceFile, CommitFails
<1>3. KindShape' /\ CatalogShape'
    BY <1>1 DEF DirGrows, DirInv, DirTypes, DirPhases, DirPlaces, DirThreads, KindShape, MadeShows, MadeOrTaken, QuarantineShape, CatalogShape, Undisturbed, Caused, Last, IntentIndex, VerifiedIndex, Conflict, Unrecorded, Moves, Lawful, Troubled, dirStore, dirDisk, dirHost, dirSeen, PlaceFile, CommitFails
<1>4. MadeShows' /\ QuarantineShape'
    BY <1>1 DEF DirGrows, DirInv, DirTypes, DirPhases, DirPlaces, DirThreads, KindShape, MadeShows, MadeOrTaken, QuarantineShape, CatalogShape, Undisturbed, Caused, Last, IntentIndex, VerifiedIndex, Conflict, Unrecorded, Moves, Lawful, Troubled, dirStore, dirDisk, dirHost, dirSeen, PlaceFile, CommitFails
<1>5. Undisturbed'
    BY <1>1 DEF DirGrows, DirInv, DirTypes, DirPhases, DirPlaces, DirThreads, KindShape, MadeShows, MadeOrTaken, QuarantineShape, CatalogShape, Undisturbed, Caused, Last, IntentIndex, VerifiedIndex, Conflict, Unrecorded, Moves, Lawful, Troubled, dirStore, dirDisk, dirHost, dirSeen, PlaceFile, CommitFails
<1>6. dj' = Conflict => Caused'
    BY <1>1 DEF DirGrows, DirInv, DirTypes, DirPhases, DirPlaces, DirThreads, KindShape, MadeShows, MadeOrTaken, QuarantineShape, CatalogShape, Undisturbed, Caused, Last, IntentIndex, VerifiedIndex, Conflict, Unrecorded, Moves, Lawful, Troubled, dirStore, dirDisk, dirHost, dirSeen, PlaceFile, CommitFails
<1>7. \A t \in DirThreads : PassBehind(t)'
    BY <1>1, PassesStay
<1> QED
    BY <1>2, <1>3, <1>4, <1>5, <1>6, <1>7 DEF DirInv


\* What was made is journaled as made.
LEMMA RecordAppliedInv ==
    ASSUME DirInv, RecordApplied PROVE DirInv'
<1>1. rec' = rec /\ DirGrows
    BY DEF DirGrows, DirInv, DirTypes, DirPhases, DirPlaces, DirThreads, KindShape, MadeShows, MadeOrTaken, QuarantineShape, CatalogShape, Undisturbed, Caused, Last, IntentIndex, VerifiedIndex, Conflict, Unrecorded, Moves, Lawful, Troubled, dirStore, dirDisk, dirHost, dirSeen, RecordApplied, Forward, Displaced
<1>2. DirTypes'
    BY <1>1 DEF DirGrows, DirInv, DirTypes, DirPhases, DirPlaces, DirThreads, KindShape, MadeShows, MadeOrTaken, QuarantineShape, CatalogShape, Undisturbed, Caused, Last, IntentIndex, VerifiedIndex, Conflict, Unrecorded, Moves, Lawful, Troubled, dirStore, dirDisk, dirHost, dirSeen, RecordApplied, Forward, Displaced
<1>3. KindShape' /\ CatalogShape'
    BY <1>1 DEF DirGrows, DirInv, DirTypes, DirPhases, DirPlaces, DirThreads, KindShape, MadeShows, MadeOrTaken, QuarantineShape, CatalogShape, Undisturbed, Caused, Last, IntentIndex, VerifiedIndex, Conflict, Unrecorded, Moves, Lawful, Troubled, dirStore, dirDisk, dirHost, dirSeen, RecordApplied, Forward, Displaced
<1>4. MadeShows' /\ QuarantineShape'
    BY <1>1 DEF DirGrows, DirInv, DirTypes, DirPhases, DirPlaces, DirThreads, KindShape, MadeShows, MadeOrTaken, QuarantineShape, CatalogShape, Undisturbed, Caused, Last, IntentIndex, VerifiedIndex, Conflict, Unrecorded, Moves, Lawful, Troubled, dirStore, dirDisk, dirHost, dirSeen, RecordApplied, Forward, Displaced
<1>5. Undisturbed'
    BY <1>1 DEF DirGrows, DirInv, DirTypes, DirPhases, DirPlaces, DirThreads, KindShape, MadeShows, MadeOrTaken, QuarantineShape, CatalogShape, Undisturbed, Caused, Last, IntentIndex, VerifiedIndex, Conflict, Unrecorded, Moves, Lawful, Troubled, dirStore, dirDisk, dirHost, dirSeen, RecordApplied, Forward, Displaced
<1>6. dj' = Conflict => Caused'
    BY <1>1 DEF DirGrows, DirInv, DirTypes, DirPhases, DirPlaces, DirThreads, KindShape, MadeShows, MadeOrTaken, QuarantineShape, CatalogShape, Undisturbed, Caused, Last, IntentIndex, VerifiedIndex, Conflict, Unrecorded, Moves, Lawful, Troubled, dirStore, dirDisk, dirHost, dirSeen, RecordApplied, Forward, Displaced
<1>7. \A t \in DirThreads : PassBehind(t)'
    BY <1>1, PassesStay
<1> QED
    BY <1>2, <1>3, <1>4, <1>5, <1>6, <1>7 DEF DirInv


\* The catalog follows the journal.
LEMMA RecordCatalogInv ==
    ASSUME DirInv, RecordCatalog PROVE DirInv'
<1>1. rec' = rec /\ DirGrows
    BY DEF DirGrows, DirInv, DirTypes, DirPhases, DirPlaces, DirThreads, KindShape, MadeShows, MadeOrTaken, QuarantineShape, CatalogShape, Undisturbed, Caused, Last, IntentIndex, VerifiedIndex, Conflict, Unrecorded, Moves, Lawful, Troubled, dirStore, dirDisk, dirHost, dirSeen, RecordCatalog, Running, CatalogJournaled
<1>2. DirTypes'
    BY <1>1 DEF DirGrows, DirInv, DirTypes, DirPhases, DirPlaces, DirThreads, KindShape, MadeShows, MadeOrTaken, QuarantineShape, CatalogShape, Undisturbed, Caused, Last, IntentIndex, VerifiedIndex, Conflict, Unrecorded, Moves, Lawful, Troubled, dirStore, dirDisk, dirHost, dirSeen, RecordCatalog, Running, CatalogJournaled
<1>3. KindShape' /\ CatalogShape'
    BY <1>1 DEF DirGrows, DirInv, DirTypes, DirPhases, DirPlaces, DirThreads, KindShape, MadeShows, MadeOrTaken, QuarantineShape, CatalogShape, Undisturbed, Caused, Last, IntentIndex, VerifiedIndex, Conflict, Unrecorded, Moves, Lawful, Troubled, dirStore, dirDisk, dirHost, dirSeen, RecordCatalog, Running, CatalogJournaled
<1>4. MadeShows' /\ QuarantineShape'
    BY <1>1 DEF DirGrows, DirInv, DirTypes, DirPhases, DirPlaces, DirThreads, KindShape, MadeShows, MadeOrTaken, QuarantineShape, CatalogShape, Undisturbed, Caused, Last, IntentIndex, VerifiedIndex, Conflict, Unrecorded, Moves, Lawful, Troubled, dirStore, dirDisk, dirHost, dirSeen, RecordCatalog, Running, CatalogJournaled
<1>5. Undisturbed'
    BY <1>1 DEF DirGrows, DirInv, DirTypes, DirPhases, DirPlaces, DirThreads, KindShape, MadeShows, MadeOrTaken, QuarantineShape, CatalogShape, Undisturbed, Caused, Last, IntentIndex, VerifiedIndex, Conflict, Unrecorded, Moves, Lawful, Troubled, dirStore, dirDisk, dirHost, dirSeen, RecordCatalog, Running, CatalogJournaled
<1>6. dj' = Conflict => Caused'
    BY <1>1 DEF DirGrows, DirInv, DirTypes, DirPhases, DirPlaces, DirThreads, KindShape, MadeShows, MadeOrTaken, QuarantineShape, CatalogShape, Undisturbed, Caused, Last, IntentIndex, VerifiedIndex, Conflict, Unrecorded, Moves, Lawful, Troubled, dirStore, dirDisk, dirHost, dirSeen, RecordCatalog, Running, CatalogJournaled
<1>7. \A t \in DirThreads : PassBehind(t)'
    BY <1>1, PassesStay
<1> QED
    BY <1>2, <1>3, <1>4, <1>5, <1>6, <1>7 DEF DirInv


\* The marker of a created directory goes only after the catalog.
LEMMA RemoveMarkerInv ==
    ASSUME DirInv, RemoveMarker PROVE DirInv'
<1>1. rec' = rec /\ DirGrows
    BY DEF DirGrows, DirInv, DirTypes, DirPhases, DirPlaces, DirThreads, KindShape, MadeShows, MadeOrTaken, QuarantineShape, CatalogShape, Undisturbed, Caused, Last, IntentIndex, VerifiedIndex, Conflict, Unrecorded, Moves, Lawful, Troubled, dirStore, dirDisk, dirHost, dirSeen, RemoveMarker, Running, Matches, StagingRemoved
<1>2. DirTypes'
    BY <1>1 DEF DirGrows, DirInv, DirTypes, DirPhases, DirPlaces, DirThreads, KindShape, MadeShows, MadeOrTaken, QuarantineShape, CatalogShape, Undisturbed, Caused, Last, IntentIndex, VerifiedIndex, Conflict, Unrecorded, Moves, Lawful, Troubled, dirStore, dirDisk, dirHost, dirSeen, RemoveMarker, Running, Matches, StagingRemoved
<1>3. KindShape' /\ CatalogShape'
    BY <1>1 DEF DirGrows, DirInv, DirTypes, DirPhases, DirPlaces, DirThreads, KindShape, MadeShows, MadeOrTaken, QuarantineShape, CatalogShape, Undisturbed, Caused, Last, IntentIndex, VerifiedIndex, Conflict, Unrecorded, Moves, Lawful, Troubled, dirStore, dirDisk, dirHost, dirSeen, RemoveMarker, Running, Matches, StagingRemoved
<1>4. MadeShows' /\ QuarantineShape'
    BY <1>1 DEF DirGrows, DirInv, DirTypes, DirPhases, DirPlaces, DirThreads, KindShape, MadeShows, MadeOrTaken, QuarantineShape, CatalogShape, Undisturbed, Caused, Last, IntentIndex, VerifiedIndex, Conflict, Unrecorded, Moves, Lawful, Troubled, dirStore, dirDisk, dirHost, dirSeen, RemoveMarker, Running, Matches, StagingRemoved
<1>5. Undisturbed'
    BY <1>1 DEF DirGrows, DirInv, DirTypes, DirPhases, DirPlaces, DirThreads, KindShape, MadeShows, MadeOrTaken, QuarantineShape, CatalogShape, Undisturbed, Caused, Last, IntentIndex, VerifiedIndex, Conflict, Unrecorded, Moves, Lawful, Troubled, dirStore, dirDisk, dirHost, dirSeen, RemoveMarker, Running, Matches, StagingRemoved
<1>6. dj' = Conflict => Caused'
    BY <1>1 DEF DirGrows, DirInv, DirTypes, DirPhases, DirPlaces, DirThreads, KindShape, MadeShows, MadeOrTaken, QuarantineShape, CatalogShape, Undisturbed, Caused, Last, IntentIndex, VerifiedIndex, Conflict, Unrecorded, Moves, Lawful, Troubled, dirStore, dirDisk, dirHost, dirSeen, RemoveMarker, Running, Matches, StagingRemoved
<1>7. \A t \in DirThreads : PassBehind(t)'
    BY <1>1, PassesStay
<1> QED
    BY <1>2, <1>3, <1>4, <1>5, <1>6, <1>7 DEF DirInv


\* The cleanup is journaled.
LEMMA RecordCleanedInv ==
    ASSUME DirInv, RecordCleaned PROVE DirInv'
<1>1. rec' = rec /\ DirGrows
    BY DEF DirGrows, DirInv, DirTypes, DirPhases, DirPlaces, DirThreads, KindShape, MadeShows, MadeOrTaken, QuarantineShape, CatalogShape, Undisturbed, Caused, Last, IntentIndex, VerifiedIndex, Conflict, Unrecorded, Moves, Lawful, Troubled, dirStore, dirDisk, dirHost, dirSeen, RecordCleaned
<1>2. DirTypes'
    BY <1>1 DEF DirGrows, DirInv, DirTypes, DirPhases, DirPlaces, DirThreads, KindShape, MadeShows, MadeOrTaken, QuarantineShape, CatalogShape, Undisturbed, Caused, Last, IntentIndex, VerifiedIndex, Conflict, Unrecorded, Moves, Lawful, Troubled, dirStore, dirDisk, dirHost, dirSeen, RecordCleaned
<1>3. KindShape' /\ CatalogShape'
    BY <1>1 DEF DirGrows, DirInv, DirTypes, DirPhases, DirPlaces, DirThreads, KindShape, MadeShows, MadeOrTaken, QuarantineShape, CatalogShape, Undisturbed, Caused, Last, IntentIndex, VerifiedIndex, Conflict, Unrecorded, Moves, Lawful, Troubled, dirStore, dirDisk, dirHost, dirSeen, RecordCleaned
<1>4. MadeShows' /\ QuarantineShape'
    BY <1>1 DEF DirGrows, DirInv, DirTypes, DirPhases, DirPlaces, DirThreads, KindShape, MadeShows, MadeOrTaken, QuarantineShape, CatalogShape, Undisturbed, Caused, Last, IntentIndex, VerifiedIndex, Conflict, Unrecorded, Moves, Lawful, Troubled, dirStore, dirDisk, dirHost, dirSeen, RecordCleaned
<1>5. Undisturbed'
    BY <1>1 DEF DirGrows, DirInv, DirTypes, DirPhases, DirPlaces, DirThreads, KindShape, MadeShows, MadeOrTaken, QuarantineShape, CatalogShape, Undisturbed, Caused, Last, IntentIndex, VerifiedIndex, Conflict, Unrecorded, Moves, Lawful, Troubled, dirStore, dirDisk, dirHost, dirSeen, RecordCleaned
<1>6. dj' = Conflict => Caused'
    BY <1>1 DEF DirGrows, DirInv, DirTypes, DirPhases, DirPlaces, DirThreads, KindShape, MadeShows, MadeOrTaken, QuarantineShape, CatalogShape, Undisturbed, Caused, Last, IntentIndex, VerifiedIndex, Conflict, Unrecorded, Moves, Lawful, Troubled, dirStore, dirDisk, dirHost, dirSeen, RecordCleaned
<1>7. \A t \in DirThreads : PassBehind(t)'
    BY <1>1, PassesStay
<1> QED
    BY <1>2, <1>3, <1>4, <1>5, <1>6, <1>7 DEF DirInv


\* A quarantined directory is moved back.
LEMMA StepRestoreInv ==
    ASSUME DirInv, StepRestore PROVE DirInv'
<1>1. rec' = rec /\ DirGrows
    BY DEF DirGrows, DirInv, DirTypes, DirPhases, DirPlaces, DirThreads, KindShape, MadeShows, MadeOrTaken, QuarantineShape, CatalogShape, Undisturbed, Caused, Last, IntentIndex, VerifiedIndex, Conflict, Unrecorded, Moves, Lawful, Troubled, dirStore, dirDisk, dirHost, dirSeen, StepRestore, RestorePrepared
<1>2. DirTypes'
    BY <1>1 DEF DirGrows, DirInv, DirTypes, DirPhases, DirPlaces, DirThreads, KindShape, MadeShows, MadeOrTaken, QuarantineShape, CatalogShape, Undisturbed, Caused, Last, IntentIndex, VerifiedIndex, Conflict, Unrecorded, Moves, Lawful, Troubled, dirStore, dirDisk, dirHost, dirSeen, StepRestore, RestorePrepared
<1>3. KindShape' /\ CatalogShape'
    BY <1>1 DEF DirGrows, DirInv, DirTypes, DirPhases, DirPlaces, DirThreads, KindShape, MadeShows, MadeOrTaken, QuarantineShape, CatalogShape, Undisturbed, Caused, Last, IntentIndex, VerifiedIndex, Conflict, Unrecorded, Moves, Lawful, Troubled, dirStore, dirDisk, dirHost, dirSeen, StepRestore, RestorePrepared
<1>4. MadeShows' /\ QuarantineShape'
    BY <1>1 DEF DirGrows, DirInv, DirTypes, DirPhases, DirPlaces, DirThreads, KindShape, MadeShows, MadeOrTaken, QuarantineShape, CatalogShape, Undisturbed, Caused, Last, IntentIndex, VerifiedIndex, Conflict, Unrecorded, Moves, Lawful, Troubled, dirStore, dirDisk, dirHost, dirSeen, StepRestore, RestorePrepared
<1>5. Undisturbed'
    BY <1>1 DEF DirGrows, DirInv, DirTypes, DirPhases, DirPlaces, DirThreads, KindShape, MadeShows, MadeOrTaken, QuarantineShape, CatalogShape, Undisturbed, Caused, Last, IntentIndex, VerifiedIndex, Conflict, Unrecorded, Moves, Lawful, Troubled, dirStore, dirDisk, dirHost, dirSeen, StepRestore, RestorePrepared
<1>6. dj' = Conflict => Caused'
    BY <1>1 DEF DirGrows, DirInv, DirTypes, DirPhases, DirPlaces, DirThreads, KindShape, MadeShows, MadeOrTaken, QuarantineShape, CatalogShape, Undisturbed, Caused, Last, IntentIndex, VerifiedIndex, Conflict, Unrecorded, Moves, Lawful, Troubled, dirStore, dirDisk, dirHost, dirSeen, StepRestore, RestorePrepared
<1>7. \A t \in DirThreads : PassBehind(t)'
    BY <1>1, PassesStay
<1> QED
    BY <1>2, <1>3, <1>4, <1>5, <1>6, <1>7 DEF DirInv


\* The end of a restore: the journal says that nothing was changed.
LEMMA EndRestoreInv ==
    ASSUME DirInv, EndRestore PROVE DirInv'
<1>1. rec' = rec /\ DirGrows
    BY DEF DirGrows, DirInv, DirTypes, DirPhases, DirPlaces, DirThreads, KindShape, MadeShows, MadeOrTaken, QuarantineShape, CatalogShape, Undisturbed, Caused, Last, IntentIndex, VerifiedIndex, Conflict, Unrecorded, Moves, Lawful, Troubled, dirStore, dirDisk, dirHost, dirSeen, EndRestore
<1>2. DirTypes'
    BY <1>1 DEF DirGrows, DirInv, DirTypes, DirPhases, DirPlaces, DirThreads, KindShape, MadeShows, MadeOrTaken, QuarantineShape, CatalogShape, Undisturbed, Caused, Last, IntentIndex, VerifiedIndex, Conflict, Unrecorded, Moves, Lawful, Troubled, dirStore, dirDisk, dirHost, dirSeen, EndRestore
<1>3. KindShape' /\ CatalogShape'
    BY <1>1 DEF DirGrows, DirInv, DirTypes, DirPhases, DirPlaces, DirThreads, KindShape, MadeShows, MadeOrTaken, QuarantineShape, CatalogShape, Undisturbed, Caused, Last, IntentIndex, VerifiedIndex, Conflict, Unrecorded, Moves, Lawful, Troubled, dirStore, dirDisk, dirHost, dirSeen, EndRestore
<1>4. MadeShows' /\ QuarantineShape'
    BY <1>1 DEF DirGrows, DirInv, DirTypes, DirPhases, DirPlaces, DirThreads, KindShape, MadeShows, MadeOrTaken, QuarantineShape, CatalogShape, Undisturbed, Caused, Last, IntentIndex, VerifiedIndex, Conflict, Unrecorded, Moves, Lawful, Troubled, dirStore, dirDisk, dirHost, dirSeen, EndRestore
<1>5. Undisturbed'
    BY <1>1 DEF DirGrows, DirInv, DirTypes, DirPhases, DirPlaces, DirThreads, KindShape, MadeShows, MadeOrTaken, QuarantineShape, CatalogShape, Undisturbed, Caused, Last, IntentIndex, VerifiedIndex, Conflict, Unrecorded, Moves, Lawful, Troubled, dirStore, dirDisk, dirHost, dirSeen, EndRestore
<1>6. dj' = Conflict => Caused'
    BY <1>1 DEF DirGrows, DirInv, DirTypes, DirPhases, DirPlaces, DirThreads, KindShape, MadeShows, MadeOrTaken, QuarantineShape, CatalogShape, Undisturbed, Caused, Last, IntentIndex, VerifiedIndex, Conflict, Unrecorded, Moves, Lawful, Troubled, dirStore, dirDisk, dirHost, dirSeen, EndRestore
<1>7. \A t \in DirThreads : PassBehind(t)'
    BY <1>1, PassesStay
<1> QED
    BY <1>2, <1>3, <1>4, <1>5, <1>6, <1>7 DEF DirInv


\* The goal of a metadata change is read from the plan.
LEMMA PrepareMetadataInv ==
    ASSUME DirInv, PrepareMetadata PROVE DirInv'
<1>1. rec' = rec /\ DirGrows
    BY DEF DirGrows, DirInv, DirTypes, DirPhases, DirPlaces, DirThreads, KindShape, MadeShows, MadeOrTaken, QuarantineShape, CatalogShape, Undisturbed, Caused, Last, IntentIndex, VerifiedIndex, Conflict, Unrecorded, Moves, Lawful, Troubled, dirStore, dirDisk, dirHost, dirSeen, PrepareMetadata, Running, IsDirectory
<1>2. DirTypes'
    BY <1>1 DEF DirGrows, DirInv, DirTypes, DirPhases, DirPlaces, DirThreads, KindShape, MadeShows, MadeOrTaken, QuarantineShape, CatalogShape, Undisturbed, Caused, Last, IntentIndex, VerifiedIndex, Conflict, Unrecorded, Moves, Lawful, Troubled, dirStore, dirDisk, dirHost, dirSeen, PrepareMetadata, Running, IsDirectory
<1>3. KindShape' /\ CatalogShape'
    BY <1>1 DEF DirGrows, DirInv, DirTypes, DirPhases, DirPlaces, DirThreads, KindShape, MadeShows, MadeOrTaken, QuarantineShape, CatalogShape, Undisturbed, Caused, Last, IntentIndex, VerifiedIndex, Conflict, Unrecorded, Moves, Lawful, Troubled, dirStore, dirDisk, dirHost, dirSeen, PrepareMetadata, Running, IsDirectory
<1>4. MadeShows' /\ QuarantineShape'
    BY <1>1 DEF DirGrows, DirInv, DirTypes, DirPhases, DirPlaces, DirThreads, KindShape, MadeShows, MadeOrTaken, QuarantineShape, CatalogShape, Undisturbed, Caused, Last, IntentIndex, VerifiedIndex, Conflict, Unrecorded, Moves, Lawful, Troubled, dirStore, dirDisk, dirHost, dirSeen, PrepareMetadata, Running, IsDirectory
<1>5. Undisturbed'
    BY <1>1 DEF DirGrows, DirInv, DirTypes, DirPhases, DirPlaces, DirThreads, KindShape, MadeShows, MadeOrTaken, QuarantineShape, CatalogShape, Undisturbed, Caused, Last, IntentIndex, VerifiedIndex, Conflict, Unrecorded, Moves, Lawful, Troubled, dirStore, dirDisk, dirHost, dirSeen, PrepareMetadata, Running, IsDirectory
<1>6. dj' = Conflict => Caused'
    BY <1>1 DEF DirGrows, DirInv, DirTypes, DirPhases, DirPlaces, DirThreads, KindShape, MadeShows, MadeOrTaken, QuarantineShape, CatalogShape, Undisturbed, Caused, Last, IntentIndex, VerifiedIndex, Conflict, Unrecorded, Moves, Lawful, Troubled, dirStore, dirDisk, dirHost, dirSeen, PrepareMetadata, Running, IsDirectory
<1>7. \A t \in DirThreads : PassBehind(t)'
    BY <1>1, PassesStay
<1> QED
    BY <1>2, <1>3, <1>4, <1>5, <1>6, <1>7 DEF DirInv


\* The time is set.
LEMMA ApplyMetadataInv ==
    ASSUME DirInv, ApplyMetadata PROVE DirInv'
<1>1. rec' = rec /\ DirGrows
    BY DEF DirGrows, DirInv, DirTypes, DirPhases, DirPlaces, DirThreads, KindShape, MadeShows, MadeOrTaken, QuarantineShape, CatalogShape, Undisturbed, Caused, Last, IntentIndex, VerifiedIndex, Conflict, Unrecorded, Moves, Lawful, Troubled, dirStore, dirDisk, dirHost, dirSeen, ApplyMetadata, Running, IsDirectory
<1>2. DirTypes'
    BY <1>1 DEF DirGrows, DirInv, DirTypes, DirPhases, DirPlaces, DirThreads, KindShape, MadeShows, MadeOrTaken, QuarantineShape, CatalogShape, Undisturbed, Caused, Last, IntentIndex, VerifiedIndex, Conflict, Unrecorded, Moves, Lawful, Troubled, dirStore, dirDisk, dirHost, dirSeen, ApplyMetadata, Running, IsDirectory
<1>3. KindShape' /\ CatalogShape'
    BY <1>1 DEF DirGrows, DirInv, DirTypes, DirPhases, DirPlaces, DirThreads, KindShape, MadeShows, MadeOrTaken, QuarantineShape, CatalogShape, Undisturbed, Caused, Last, IntentIndex, VerifiedIndex, Conflict, Unrecorded, Moves, Lawful, Troubled, dirStore, dirDisk, dirHost, dirSeen, ApplyMetadata, Running, IsDirectory
<1>4. MadeShows' /\ QuarantineShape'
    BY <1>1 DEF DirGrows, DirInv, DirTypes, DirPhases, DirPlaces, DirThreads, KindShape, MadeShows, MadeOrTaken, QuarantineShape, CatalogShape, Undisturbed, Caused, Last, IntentIndex, VerifiedIndex, Conflict, Unrecorded, Moves, Lawful, Troubled, dirStore, dirDisk, dirHost, dirSeen, ApplyMetadata, Running, IsDirectory
<1>5. Undisturbed'
    BY <1>1 DEF DirGrows, DirInv, DirTypes, DirPhases, DirPlaces, DirThreads, KindShape, MadeShows, MadeOrTaken, QuarantineShape, CatalogShape, Undisturbed, Caused, Last, IntentIndex, VerifiedIndex, Conflict, Unrecorded, Moves, Lawful, Troubled, dirStore, dirDisk, dirHost, dirSeen, ApplyMetadata, Running, IsDirectory
<1>6. dj' = Conflict => Caused'
    BY <1>1 DEF DirGrows, DirInv, DirTypes, DirPhases, DirPlaces, DirThreads, KindShape, MadeShows, MadeOrTaken, QuarantineShape, CatalogShape, Undisturbed, Caused, Last, IntentIndex, VerifiedIndex, Conflict, Unrecorded, Moves, Lawful, Troubled, dirStore, dirDisk, dirHost, dirSeen, ApplyMetadata, Running, IsDirectory
<1>7. \A t \in DirThreads : PassBehind(t)'
    BY <1>1, PassesStay
<1> QED
    BY <1>2, <1>3, <1>4, <1>5, <1>6, <1>7 DEF DirInv


\* The change of the time is journaled.
LEMMA RecordMetadataAppliedInv ==
    ASSUME DirInv, RecordMetadataApplied PROVE DirInv'
<1>1. rec' = rec /\ DirGrows
    BY DEF DirGrows, DirInv, DirTypes, DirPhases, DirPlaces, DirThreads, KindShape, MadeShows, MadeOrTaken, QuarantineShape, CatalogShape, Undisturbed, Caused, Last, IntentIndex, VerifiedIndex, Conflict, Unrecorded, Moves, Lawful, Troubled, dirStore, dirDisk, dirHost, dirSeen, RecordMetadataApplied
<1>2. DirTypes'
    BY <1>1 DEF DirGrows, DirInv, DirTypes, DirPhases, DirPlaces, DirThreads, KindShape, MadeShows, MadeOrTaken, QuarantineShape, CatalogShape, Undisturbed, Caused, Last, IntentIndex, VerifiedIndex, Conflict, Unrecorded, Moves, Lawful, Troubled, dirStore, dirDisk, dirHost, dirSeen, RecordMetadataApplied
<1>3. KindShape' /\ CatalogShape'
    BY <1>1 DEF DirGrows, DirInv, DirTypes, DirPhases, DirPlaces, DirThreads, KindShape, MadeShows, MadeOrTaken, QuarantineShape, CatalogShape, Undisturbed, Caused, Last, IntentIndex, VerifiedIndex, Conflict, Unrecorded, Moves, Lawful, Troubled, dirStore, dirDisk, dirHost, dirSeen, RecordMetadataApplied
<1>4. MadeShows' /\ QuarantineShape'
    BY <1>1 DEF DirGrows, DirInv, DirTypes, DirPhases, DirPlaces, DirThreads, KindShape, MadeShows, MadeOrTaken, QuarantineShape, CatalogShape, Undisturbed, Caused, Last, IntentIndex, VerifiedIndex, Conflict, Unrecorded, Moves, Lawful, Troubled, dirStore, dirDisk, dirHost, dirSeen, RecordMetadataApplied
<1>5. Undisturbed'
    BY <1>1 DEF DirGrows, DirInv, DirTypes, DirPhases, DirPlaces, DirThreads, KindShape, MadeShows, MadeOrTaken, QuarantineShape, CatalogShape, Undisturbed, Caused, Last, IntentIndex, VerifiedIndex, Conflict, Unrecorded, Moves, Lawful, Troubled, dirStore, dirDisk, dirHost, dirSeen, RecordMetadataApplied
<1>6. dj' = Conflict => Caused'
    BY <1>1 DEF DirGrows, DirInv, DirTypes, DirPhases, DirPlaces, DirThreads, KindShape, MadeShows, MadeOrTaken, QuarantineShape, CatalogShape, Undisturbed, Caused, Last, IntentIndex, VerifiedIndex, Conflict, Unrecorded, Moves, Lawful, Troubled, dirStore, dirDisk, dirHost, dirSeen, RecordMetadataApplied
<1>7. \A t \in DirThreads : PassBehind(t)'
    BY <1>1, PassesStay
<1> QED
    BY <1>2, <1>3, <1>4, <1>5, <1>6, <1>7 DEF DirInv


\* The change of the time is seen on the disk.
LEMMA VerifyMetadataInv ==
    ASSUME DirInv, VerifyMetadata PROVE DirInv'
<1>1. rec' = rec /\ DirGrows
    BY DEF DirGrows, DirInv, DirTypes, DirPhases, DirPlaces, DirThreads, KindShape, MadeShows, MadeOrTaken, QuarantineShape, CatalogShape, Undisturbed, Caused, Last, IntentIndex, VerifiedIndex, Conflict, Unrecorded, Moves, Lawful, Troubled, dirStore, dirDisk, dirHost, dirSeen, VerifyMetadata, Running, IsDirectory, RecordMetadata
<1>2. DirTypes'
  <2>1. mcat' \in BOOLEAN
    BY Zenon DEF VerifyMetadata, DirInv, DirTypes, RecordMetadata
  <2>2. UNCHANGED <<staged, qm, open, made>>
    BY DEF DirInv, DirTypes, DirPhases, DirPlaces, DirThreads, KindShape, MadeShows, MadeOrTaken, QuarantineShape, CatalogShape, Undisturbed, Caused, Last, IntentIndex, VerifiedIndex, Conflict, Unrecorded, Moves, Lawful, Troubled, dirStore, dirDisk, dirHost, dirSeen, VerifyMetadata, Running, IsDirectory, RecordMetadata
  <2> QED
    BY <1>1, <2>1, <2>2 DEF DirGrows, DirInv, DirTypes, DirPhases, DirPlaces, DirThreads, KindShape, MadeShows, MadeOrTaken, QuarantineShape, CatalogShape, Undisturbed, Caused, Last, IntentIndex, VerifiedIndex, Conflict, Unrecorded, Moves, Lawful, Troubled, dirStore, dirDisk, dirHost, dirSeen, VerifyMetadata, Running, IsDirectory, RecordMetadata
<1>3. KindShape' /\ CatalogShape'
    BY <1>1 DEF DirGrows, DirInv, DirTypes, DirPhases, DirPlaces, DirThreads, KindShape, MadeShows, MadeOrTaken, QuarantineShape, CatalogShape, Undisturbed, Caused, Last, IntentIndex, VerifiedIndex, Conflict, Unrecorded, Moves, Lawful, Troubled, dirStore, dirDisk, dirHost, dirSeen, VerifyMetadata, Running, IsDirectory, RecordMetadata
<1>4. MadeShows' /\ QuarantineShape'
    BY <1>1 DEF DirGrows, DirInv, DirTypes, DirPhases, DirPlaces, DirThreads, KindShape, MadeShows, MadeOrTaken, QuarantineShape, CatalogShape, Undisturbed, Caused, Last, IntentIndex, VerifiedIndex, Conflict, Unrecorded, Moves, Lawful, Troubled, dirStore, dirDisk, dirHost, dirSeen, VerifyMetadata, Running, IsDirectory, RecordMetadata
<1>5. Undisturbed'
    BY <1>1 DEF DirGrows, DirInv, DirTypes, DirPhases, DirPlaces, DirThreads, KindShape, MadeShows, MadeOrTaken, QuarantineShape, CatalogShape, Undisturbed, Caused, Last, IntentIndex, VerifiedIndex, Conflict, Unrecorded, Moves, Lawful, Troubled, dirStore, dirDisk, dirHost, dirSeen, VerifyMetadata, Running, IsDirectory, RecordMetadata
<1>6. dj' = Conflict => Caused'
    BY <1>1 DEF DirGrows, DirInv, DirTypes, DirPhases, DirPlaces, DirThreads, KindShape, MadeShows, MadeOrTaken, QuarantineShape, CatalogShape, Undisturbed, Caused, Last, IntentIndex, VerifiedIndex, Conflict, Unrecorded, Moves, Lawful, Troubled, dirStore, dirDisk, dirHost, dirSeen, VerifyMetadata, Running, IsDirectory, RecordMetadata
<1>7. \A t \in DirThreads : PassBehind(t)'
    BY <1>1, PassesStay
<1> QED
    BY <1>2, <1>3, <1>4, <1>5, <1>6, <1>7 DEF DirInv


\* A failure after the quarantine begins a restore.
LEMMA BeginRestoreInv ==
    ASSUME DirInv, BeginRestore PROVE DirInv'
<1>1. rec' = rec /\ DirGrows
    BY DEF DirGrows, DirInv, DirTypes, DirPhases, DirPlaces, DirThreads, KindShape, MadeShows, MadeOrTaken, QuarantineShape, CatalogShape, Undisturbed, Caused, Last, IntentIndex, VerifiedIndex, Conflict, Unrecorded, Moves, Lawful, Troubled, dirStore, dirDisk, dirHost, dirSeen, BeginRestore, Running, RestorePrepared
<1>2. DirTypes'
    BY <1>1 DEF DirGrows, DirInv, DirTypes, DirPhases, DirPlaces, DirThreads, KindShape, MadeShows, MadeOrTaken, QuarantineShape, CatalogShape, Undisturbed, Caused, Last, IntentIndex, VerifiedIndex, Conflict, Unrecorded, Moves, Lawful, Troubled, dirStore, dirDisk, dirHost, dirSeen, BeginRestore, Running, RestorePrepared
<1>3. KindShape' /\ CatalogShape'
    BY <1>1 DEF DirGrows, DirInv, DirTypes, DirPhases, DirPlaces, DirThreads, KindShape, MadeShows, MadeOrTaken, QuarantineShape, CatalogShape, Undisturbed, Caused, Last, IntentIndex, VerifiedIndex, Conflict, Unrecorded, Moves, Lawful, Troubled, dirStore, dirDisk, dirHost, dirSeen, BeginRestore, Running, RestorePrepared
<1>4. MadeShows' /\ QuarantineShape'
    BY <1>1 DEF DirGrows, DirInv, DirTypes, DirPhases, DirPlaces, DirThreads, KindShape, MadeShows, MadeOrTaken, QuarantineShape, CatalogShape, Undisturbed, Caused, Last, IntentIndex, VerifiedIndex, Conflict, Unrecorded, Moves, Lawful, Troubled, dirStore, dirDisk, dirHost, dirSeen, BeginRestore, Running, RestorePrepared
<1>5. Undisturbed'
    BY <1>1 DEF DirGrows, DirInv, DirTypes, DirPhases, DirPlaces, DirThreads, KindShape, MadeShows, MadeOrTaken, QuarantineShape, CatalogShape, Undisturbed, Caused, Last, IntentIndex, VerifiedIndex, Conflict, Unrecorded, Moves, Lawful, Troubled, dirStore, dirDisk, dirHost, dirSeen, BeginRestore, Running, RestorePrepared
<1>6. dj' = Conflict => Caused'
    BY <1>1 DEF DirGrows, DirInv, DirTypes, DirPhases, DirPlaces, DirThreads, KindShape, MadeShows, MadeOrTaken, QuarantineShape, CatalogShape, Undisturbed, Caused, Last, IntentIndex, VerifiedIndex, Conflict, Unrecorded, Moves, Lawful, Troubled, dirStore, dirDisk, dirHost, dirSeen, BeginRestore, Running, RestorePrepared
<1>7. \A t \in DirThreads : PassBehind(t)'
    BY <1>1, PassesStay
<1> QED
    BY <1>2, <1>3, <1>4, <1>5, <1>6, <1>7 DEF DirInv


\* A call that fails leaves what is on the disk.
LEMMA CallFailsInv ==
    ASSUME DirInv, CallFails PROVE DirInv'
<1>1. rec' = rec /\ DirGrows
    BY DEF DirGrows, DirInv, DirTypes, DirPhases, DirPlaces, DirThreads, KindShape, MadeShows, MadeOrTaken, QuarantineShape, CatalogShape, Undisturbed, Caused, Last, IntentIndex, VerifiedIndex, Conflict, Unrecorded, Moves, Lawful, Troubled, dirStore, dirDisk, dirHost, dirSeen, CallFails, DirFault
<1>2. DirTypes'
    BY <1>1 DEF DirGrows, DirInv, DirTypes, DirPhases, DirPlaces, DirThreads, KindShape, MadeShows, MadeOrTaken, QuarantineShape, CatalogShape, Undisturbed, Caused, Last, IntentIndex, VerifiedIndex, Conflict, Unrecorded, Moves, Lawful, Troubled, dirStore, dirDisk, dirHost, dirSeen, CallFails, DirFault
<1>3. KindShape' /\ CatalogShape'
    BY <1>1 DEF DirGrows, DirInv, DirTypes, DirPhases, DirPlaces, DirThreads, KindShape, MadeShows, MadeOrTaken, QuarantineShape, CatalogShape, Undisturbed, Caused, Last, IntentIndex, VerifiedIndex, Conflict, Unrecorded, Moves, Lawful, Troubled, dirStore, dirDisk, dirHost, dirSeen, CallFails, DirFault
<1>4. MadeShows' /\ QuarantineShape'
    BY <1>1 DEF DirGrows, DirInv, DirTypes, DirPhases, DirPlaces, DirThreads, KindShape, MadeShows, MadeOrTaken, QuarantineShape, CatalogShape, Undisturbed, Caused, Last, IntentIndex, VerifiedIndex, Conflict, Unrecorded, Moves, Lawful, Troubled, dirStore, dirDisk, dirHost, dirSeen, CallFails, DirFault
<1>5. Undisturbed'
    BY <1>1 DEF DirGrows, DirInv, DirTypes, DirPhases, DirPlaces, DirThreads, KindShape, MadeShows, MadeOrTaken, QuarantineShape, CatalogShape, Undisturbed, Caused, Last, IntentIndex, VerifiedIndex, Conflict, Unrecorded, Moves, Lawful, Troubled, dirStore, dirDisk, dirHost, dirSeen, CallFails, DirFault
<1>6. dj' = Conflict => Caused'
    BY <1>1 DEF DirGrows, DirInv, DirTypes, DirPhases, DirPlaces, DirThreads, KindShape, MadeShows, MadeOrTaken, QuarantineShape, CatalogShape, Undisturbed, Caused, Last, IntentIndex, VerifiedIndex, Conflict, Unrecorded, Moves, Lawful, Troubled, dirStore, dirDisk, dirHost, dirSeen, CallFails, DirFault
<1>7. \A t \in DirThreads : PassBehind(t)'
    BY <1>1, PassesStay
<1> QED
    BY <1>2, <1>3, <1>4, <1>5, <1>6, <1>7 DEF DirInv


\* The user works in the directory, and the edit is remembered as trouble.
LEMMA EditTargetInv ==
    ASSUME DirInv, EditTarget PROVE DirInv'
<1>1. rec' = rec /\ DirGrows
    BY DEF DirGrows, DirInv, DirTypes, DirPhases, DirPlaces, DirThreads, KindShape, MadeShows, MadeOrTaken, QuarantineShape, CatalogShape, Undisturbed, Caused, Last, IntentIndex, VerifiedIndex, Conflict, Unrecorded, Moves, Lawful, Troubled, dirStore, dirDisk, dirHost, dirSeen, EditTarget
<1>2. DirTypes'
    BY <1>1 DEF DirGrows, DirInv, DirTypes, DirPhases, DirPlaces, DirThreads, KindShape, MadeShows, MadeOrTaken, QuarantineShape, CatalogShape, Undisturbed, Caused, Last, IntentIndex, VerifiedIndex, Conflict, Unrecorded, Moves, Lawful, Troubled, dirStore, dirDisk, dirHost, dirSeen, EditTarget
<1>3. KindShape' /\ CatalogShape'
    BY <1>1 DEF DirGrows, DirInv, DirTypes, DirPhases, DirPlaces, DirThreads, KindShape, MadeShows, MadeOrTaken, QuarantineShape, CatalogShape, Undisturbed, Caused, Last, IntentIndex, VerifiedIndex, Conflict, Unrecorded, Moves, Lawful, Troubled, dirStore, dirDisk, dirHost, dirSeen, EditTarget
<1>4. MadeShows' /\ QuarantineShape'
    BY <1>1 DEF DirGrows, DirInv, DirTypes, DirPhases, DirPlaces, DirThreads, KindShape, MadeShows, MadeOrTaken, QuarantineShape, CatalogShape, Undisturbed, Caused, Last, IntentIndex, VerifiedIndex, Conflict, Unrecorded, Moves, Lawful, Troubled, dirStore, dirDisk, dirHost, dirSeen, EditTarget
<1>5. Undisturbed'
    BY <1>1 DEF DirGrows, DirInv, DirTypes, DirPhases, DirPlaces, DirThreads, KindShape, MadeShows, MadeOrTaken, QuarantineShape, CatalogShape, Undisturbed, Caused, Last, IntentIndex, VerifiedIndex, Conflict, Unrecorded, Moves, Lawful, Troubled, dirStore, dirDisk, dirHost, dirSeen, EditTarget
<1>6. dj' = Conflict => Caused'
    BY <1>1 DEF DirGrows, DirInv, DirTypes, DirPhases, DirPlaces, DirThreads, KindShape, MadeShows, MadeOrTaken, QuarantineShape, CatalogShape, Undisturbed, Caused, Last, IntentIndex, VerifiedIndex, Conflict, Unrecorded, Moves, Lawful, Troubled, dirStore, dirDisk, dirHost, dirSeen, EditTarget
<1>7. \A t \in DirThreads : PassBehind(t)'
    BY <1>1, PassesStay
<1> QED
    BY <1>2, <1>3, <1>4, <1>5, <1>6, <1>7 DEF DirInv


\* The step of one pass leaves what the others have read behind the journal.
LEMMA OtherPassesStay ==
    ASSUME DirInv, DirGrows, NEW t \in DirThreads, NEW r, rec' = [rec EXCEPT ![t] = r],
           PassBehind(t)'
    PROVE  \A u \in DirThreads : PassBehind(u)'
<1>1. SUFFICES ASSUME NEW u \in DirThreads PROVE PassBehind(u)'
    OBVIOUS
<1>2. CASE u = t
    BY <1>2
<1>3. CASE u # t
  <2>1. rec'[u] = rec[u]
      BY <1>3 DEF DirInv, DirTypes
  <2> QED
      BY <2>1, PassesStay
<1> QED
    BY <1>2, <1>3

\* The journal of an explicit restore stays on its path.
LEMMA RestoreGoalTyped ==
    ASSUME rj \in 0..4, NEW seen PROVE RestoreGoal(seen) \in 0..5 \cup {Conflict}
<1> QED
    BY DEF RestoreGoal, Goal, IntentIndex, VerifiedIndex, Last, Conflict

\* list_conflicted and list_unresolved read the journal as it is.
LEMMA ListEntriesInv ==
    ASSUME DirInv, NEW t \in DirThreads, ListEntries(t) PROVE DirInv'
<1>1. DirGrows
    BY DEF ListEntries, DirInv, DirTypes, DirPhases, DirPlaces, DirThreads, KindShape, MadeShows, MadeOrTaken, QuarantineShape, CatalogShape, Undisturbed, Caused, Last, IntentIndex, VerifiedIndex, Conflict, Unrecorded, Moves, Lawful, Troubled, dirStore, dirDisk, dirHost, dirSeen, DirGrows, Pass
<1>2. rj' \in -1..5 \cup {Conflict}
    BY RestoreGoalTyped DEF ListEntries, DirInv, DirTypes
<1>3. PICK r : /\ rec' = [rec EXCEPT ![t] = r]
               /\ \/ r = Pass("listed", dj, FALSE, 0) /\ dj < Last(dkind)
                  \/ r = Pass("resume", 0, FALSE, 0)
  <2>1. CASE dj < Last(dkind)
      BY <2>1 DEF ListEntries
  <2>2. CASE ~(dj < Last(dkind))
      BY <2>2 DEF ListEntries
  <2> QED
      BY <2>1, <2>2
<1>4. r \in DirPasses
  <2>1. dj < Last(dkind) => dj \in 0..6
      BY DEF DirInv, DirTypes, Last, Conflict
  <2>2. CASE r = Pass("listed", dj, FALSE, 0) /\ dj < Last(dkind)
      BY <2>1, <2>2 DEF Pass, DirPasses, DirStates
  <2>3. CASE r = Pass("resume", 0, FALSE, 0)
      BY <2>3 DEF Pass, DirPasses, DirStates
  <2> QED
      BY <1>3, <2>2, <2>3
<1>5. rec' \in [DirThreads -> DirPasses] /\ rec'[t] = r
    BY <1>3, <1>4 DEF DirInv, DirTypes
<1>6. open' \in BOOLEAN
  <2>1. (dj # Conflict /\ rj' # Conflict) \in BOOLEAN
      OBVIOUS
  <2> QED
      BY Zenon, <2>1 DEF ListEntries, DirInv, DirTypes
<1>7. DirTypes'
    BY <1>2, <1>5, <1>6 DEF ListEntries, DirInv, DirTypes, DirPhases, DirPlaces, DirThreads, KindShape, MadeShows, MadeOrTaken, QuarantineShape, CatalogShape, Undisturbed, Caused, Last, IntentIndex, VerifiedIndex, Conflict, Unrecorded, Moves, Lawful, Troubled, dirStore, dirDisk, dirHost, dirSeen, DirGrows, Pass
<1>8. KindShape' /\ MadeShows' /\ QuarantineShape' /\ CatalogShape' /\ Undisturbed' /\ (dj' = Conflict => Caused')
    BY <1>1 DEF ListEntries, DirInv, DirTypes, DirPhases, DirPlaces, DirThreads, KindShape, MadeShows, MadeOrTaken, QuarantineShape, CatalogShape, Undisturbed, Caused, Last, IntentIndex, VerifiedIndex, Conflict, Unrecorded, Moves, Lawful, Troubled, dirStore, dirDisk, dirHost, dirSeen, DirGrows, Pass
<1>9. PassBehind(t)'
    BY <1>1, <1>3, <1>5 DEF ListEntries, PassBehind, DirInv, DirTypes, DirPhases, DirPlaces, DirThreads, KindShape, MadeShows, MadeOrTaken, QuarantineShape, CatalogShape, Undisturbed, Caused, Last, IntentIndex, VerifiedIndex, Conflict, Unrecorded, Moves, Lawful, Troubled, dirStore, dirDisk, dirHost, dirSeen, DirGrows, Pass
<1> QED
    BY <1>1, <1>3, <1>7, <1>8, <1>9, OtherPassesStay DEF DirInv

\* The recovery operation is loaded.
LEMMA LoadGenericInv ==
    ASSUME DirInv, NEW t \in DirThreads, LoadGeneric(t) PROVE DirInv'
<1>1. DirGrows
    BY DEF LoadGeneric, DirInv, DirTypes, DirPhases, DirPlaces, DirThreads, KindShape, MadeShows, MadeOrTaken, QuarantineShape, CatalogShape, Undisturbed, Caused, Last, IntentIndex, VerifiedIndex, Conflict, Unrecorded, Moves, Lawful, Troubled, dirStore, dirDisk, dirHost, dirSeen, DirGrows, Pass
<1>2. CatalogTerminal \in BOOLEAN
  <2>1. (dph \in {"CATALOGED", "CLEANED"}) \in BOOLEAN
      OBVIOUS
  <2> QED
      BY Zenon, <2>1 DEF CatalogTerminal, DirInv, DirTypes
<1>3. rec' = [rec EXCEPT ![t] = [rec[t] EXCEPT !.at = "loaded", !.cat = CatalogTerminal]]
    BY DEF LoadGeneric, DirInv, DirTypes
<1>4. [rec[t] EXCEPT !.at = "loaded", !.cat = CatalogTerminal] \in DirPasses
    BY <1>2 DEF DirInv, DirTypes, DirPasses, DirStates
<1>5. rec' \in [DirThreads -> DirPasses]
    BY <1>3, <1>4 DEF DirInv, DirTypes
<1>6. rec'[t].at = "loaded" /\ rec'[t].from = rec[t].from
    BY <1>3 DEF DirInv, DirTypes, DirPasses
<1>7. DirTypes'
    BY <1>5 DEF LoadGeneric, DirInv, DirTypes, DirPhases, DirPlaces, DirThreads, KindShape, MadeShows, MadeOrTaken, QuarantineShape, CatalogShape, Undisturbed, Caused, Last, IntentIndex, VerifiedIndex, Conflict, Unrecorded, Moves, Lawful, Troubled, dirStore, dirDisk, dirHost, dirSeen, DirGrows, Pass
<1>8. KindShape' /\ MadeShows' /\ QuarantineShape' /\ CatalogShape' /\ Undisturbed' /\ (dj' = Conflict => Caused')
    BY <1>1 DEF LoadGeneric, DirInv, DirTypes, DirPhases, DirPlaces, DirThreads, KindShape, MadeShows, MadeOrTaken, QuarantineShape, CatalogShape, Undisturbed, Caused, Last, IntentIndex, VerifiedIndex, Conflict, Unrecorded, Moves, Lawful, Troubled, dirStore, dirDisk, dirHost, dirSeen, DirGrows, Pass
<1>9. PassBehind(t)'
    BY <1>1, <1>6 DEF LoadGeneric, PassBehind, DirInv, DirTypes, DirPhases, DirPlaces, DirThreads, KindShape, MadeShows, MadeOrTaken, QuarantineShape, CatalogShape, Undisturbed, Caused, Last, IntentIndex, VerifiedIndex, Conflict, Unrecorded, Moves, Lawful, Troubled, dirStore, dirDisk, dirHost, dirSeen, DirGrows, Pass
<1> QED
    BY <1>1, <1>3, <1>7, <1>8, <1>9, OtherPassesStay DEF DirInv

\* What the disk says of a journal entry that has not moved on: without a cause
\* it never contradicts it, and it says "applied" only of what was made.
LEMMA EvidenceIsTrue ==
    ASSUME DirInv
    PROVE  /\ Observe \in {"applied", "not", "conflict"}
           /\ Observe = "applied" => made
           /\ dj \in IntentIndex(dkind)..(Last(dkind) - 1) /\ ~Caused /\ dpc # "moved" =>
                /\ Observe # "conflict"
                /\ Observe = "not" => dj = IntentIndex(dkind)
<1>1. CASE dkind = "CREATE"
  <2>1. Observe = ObserveCreate
      BY <1>1 DEF Observe
  <2> QED
      BY <1>1, <2>1 DEF ObserveCreate, Matches, DirInv, DirTypes, DirPhases, DirPlaces, DirThreads, KindShape, MadeShows, MadeOrTaken, QuarantineShape, CatalogShape, Undisturbed, Caused, Last, IntentIndex, VerifiedIndex, Conflict, Unrecorded, Moves, Lawful, Troubled, dirStore, dirDisk, dirHost, dirSeen, DirGrows, Pass
<1>2. CASE dkind = "QUARANTINE"
  <2>1. Observe = ObserveQuarantine
      BY <1>2 DEF Observe
  <2> QED
      BY <1>2, <2>1 DEF ObserveQuarantine, QuarantineEvidence, IsDirectory, DirInv, DirTypes, DirPhases, DirPlaces, DirThreads, KindShape, MadeShows, MadeOrTaken, QuarantineShape, CatalogShape, Undisturbed, Caused, Last, IntentIndex, VerifiedIndex, Conflict, Unrecorded, Moves, Lawful, Troubled, dirStore, dirDisk, dirHost, dirSeen, DirGrows, Pass
<1>3. CASE dkind = "METADATA"
  <2>1. Observe = ObserveMetadata
      BY <1>3 DEF Observe
  <2> QED
      BY <1>3, <2>1 DEF ObserveMetadata, IsDirectory, DirInv, DirTypes, DirPhases, DirPlaces, DirThreads, KindShape, MadeShows, MadeOrTaken, QuarantineShape, CatalogShape, Undisturbed, Caused, Last, IntentIndex, VerifiedIndex, Conflict, Unrecorded, Moves, Lawful, Troubled, dirStore, dirDisk, dirHost, dirSeen, DirGrows, Pass
<1> QED
    BY <1>1, <1>2, <1>3 DEF DirInv, DirTypes

\* The disk is compared with what was read before.
LEMMA LookAtDiskInv ==
    ASSUME DirInv, NEW t \in DirThreads, LookAtDisk(t) PROVE DirInv'
<1>0. PICK seen \in {Observe, "unavailable"} :
        LET goal == Goal(dkind, rec[t].from, rec[t].cat, seen) IN
        /\ rec' = [rec EXCEPT ![t].at = "moving", ![t].goal = goal]
        /\ Troubled(IF Unseen(seen) THEN {"failed"}
                    ELSE IF goal = Conflict /\ dpc = "moved" THEN {"race"} ELSE {})
    BY DEF LookAtDisk
<1> DEFINE goal == Goal(dkind, rec[t].from, rec[t].cat, seen)
<1>1. DirGrows
    BY DEF LookAtDisk, DirInv, DirTypes, DirPhases, DirPlaces, DirThreads, KindShape, MadeShows, MadeOrTaken, QuarantineShape, CatalogShape, Undisturbed, Caused, Last, IntentIndex, VerifiedIndex, Conflict, Unrecorded, Moves, Lawful, Troubled, dirStore, dirDisk, dirHost, dirSeen, DirGrows, Pass
<1>2. rec[t].at = "loaded" /\ rec[t] \in DirPasses /\ PassBehind(t)
    BY DEF LookAtDisk, DirInv, DirTypes
<1>3. rec[t].from \in 0..6 /\ rec[t].from <= dj /\ rec[t].from < Last(dkind)
      /\ (rec[t].from > IntentIndex(dkind) => MadeOrTaken)
    BY <1>2 DEF PassBehind, DirPasses
<1>4. Last(dkind) \in 5..6 /\ IntentIndex(dkind) \in 2..3 /\ dj \in 0..9
      /\ VerifiedIndex(dkind) = Last(dkind) - 1 /\ IntentIndex(dkind) <= Last(dkind) - 3
    BY DEF DirInv, DirTypes, DirPhases, DirPlaces, DirThreads, KindShape, MadeShows, MadeOrTaken, QuarantineShape, CatalogShape, Undisturbed, Caused, Last, IntentIndex, VerifiedIndex, Conflict, Unrecorded, Moves, Lawful, Troubled, dirStore, dirDisk, dirHost, dirSeen, DirGrows, Pass
<1>5. /\ goal \in 0..Last(dkind) \cup {Conflict} /\ rec[t].from <= goal
      /\ goal \in (IntentIndex(dkind) + 1)..Last(dkind) => MadeOrTaken
      /\ goal = Conflict /\ dj = rec[t].from /\ dpc # "moved" => Caused
  <2>1. /\ Observe \in {"applied", "not", "conflict"} /\ (Observe = "applied" => made)
        /\ (dj \in IntentIndex(dkind)..(Last(dkind) - 1) /\ ~Caused /\ dpc # "moved" =>
              Observe # "conflict" /\ (Observe = "not" => dj = IntentIndex(dkind)))
      BY EvidenceIsTrue
  <2>2. CASE rec[t].from < IntentIndex(dkind)
    <3>1. goal = rec[t].from
        BY <2>2 DEF Goal
    <3> QED
        BY <1>3, <1>4, <2>2, <3>1 DEF Conflict
  <2>3. CASE ~(rec[t].from < IntentIndex(dkind)) /\ rec[t].from = VerifiedIndex(dkind) /\ rec[t].cat
    <3>1. goal = Last(dkind)
        BY <2>3 DEF Goal
    <3>2. rec[t].from = Last(dkind) - 1
        BY <1>4, <2>3
    <3> QED
        BY <1>3, <1>4, <3>1, <3>2 DEF Conflict
  <2>4. CASE ~(rec[t].from < IntentIndex(dkind)) /\ ~(rec[t].from = VerifiedIndex(dkind) /\ rec[t].cat)
    <3>0. CASE seen = "unavailable"
      <4>1. goal = rec[t].from
          BY <2>4, <3>0 DEF Goal
      <4> QED
          BY <1>3, <1>4, <4>1 DEF Conflict
    <3>1. CASE seen = Observe /\ Observe = "conflict"
      <4>1. goal = Conflict
          BY <2>4, <3>1 DEF Goal
      <4> QED
          BY <1>3, <1>4, <2>1, <2>4, <3>1, <4>1 DEF Conflict
    <3>2. CASE seen = Observe /\ Observe = "not"
      <4>1. goal = IF rec[t].from = IntentIndex(dkind) THEN rec[t].from ELSE Conflict
          BY <2>4, <3>2 DEF Goal
      <4> QED
          BY <1>3, <1>4, <2>1, <2>4, <3>2, <4>1 DEF Conflict
    <3>3. CASE seen = Observe /\ Observe = "applied"
      <4>1. goal = IF rec[t].from > VerifiedIndex(dkind) THEN rec[t].from ELSE VerifiedIndex(dkind)
          BY <2>4, <3>3 DEF Goal
      <4> QED
          BY <1>3, <1>4, <2>1, <2>4, <3>3, <4>1 DEF Conflict, MadeOrTaken
    <3> QED
        BY <1>0, <2>1, <3>0, <3>1, <3>2, <3>3
  <2> QED
      BY <2>2, <2>3, <2>4
<1>6. rec' = [rec EXCEPT ![t] = [rec[t] EXCEPT !.at = "moving", !.goal = goal]]
    BY <1>0 DEF DirInv, DirTypes
<1>7. [rec[t] EXCEPT !.at = "moving", !.goal = goal] \in DirPasses
  <2>1. goal \in 0..6 \cup {Conflict}
      BY <1>4, <1>5
  <2> HIDE DEF goal
  <2> QED
      BY <1>2, <2>1 DEF DirPasses, DirStates
<1>8. rec' \in [DirThreads -> DirPasses]
    BY <1>6, <1>7 DEF DirInv, DirTypes
<1>9. rec'[t].at = "moving" /\ rec'[t].from = rec[t].from /\ rec'[t].goal = goal
    BY <1>2, <1>6 DEF DirInv, DirTypes, DirPasses
<1>10. DirTypes'
    BY <1>8 DEF LookAtDisk, DirInv, DirTypes, DirPhases, DirPlaces, DirThreads, KindShape, MadeShows, MadeOrTaken, QuarantineShape, CatalogShape, Undisturbed, Caused, Last, IntentIndex, VerifiedIndex, Conflict, Unrecorded, Moves, Lawful, Troubled, dirStore, dirDisk, dirHost, dirSeen, DirGrows, Pass
<1>11. KindShape' /\ MadeShows' /\ QuarantineShape' /\ CatalogShape' /\ Undisturbed' /\ (dj' = Conflict => Caused')
    BY <1>1 DEF LookAtDisk, DirInv, DirTypes, DirPhases, DirPlaces, DirThreads, KindShape, MadeShows, MadeOrTaken, QuarantineShape, CatalogShape, Undisturbed, Caused, Last, IntentIndex, VerifiedIndex, Conflict, Unrecorded, Moves, Lawful, Troubled, dirStore, dirDisk, dirHost, dirSeen, DirGrows, Pass
<1>12. goal = Conflict /\ dpc = "moved" => Caused'
  <2>1. goal = Conflict => ~Unseen(seen)
      BY <1>3, <1>4 DEF Goal, Unseen, Conflict
  <2> QED
      BY <1>0, <2>1 DEF Caused, Troubled
<1>13. UNCHANGED <<dkind, dj, qp, made>> /\ (Caused => Caused')
    BY <1>1 DEF LookAtDisk, DirInv, DirTypes, DirPhases, DirPlaces, DirThreads, KindShape, MadeShows, MadeOrTaken, QuarantineShape, CatalogShape, Undisturbed, Caused, Last, IntentIndex, VerifiedIndex, Conflict, Unrecorded, Moves, Lawful, Troubled, dirStore, dirDisk, dirHost, dirSeen, DirGrows, Pass
<1>14. PassBehind(t)'
    BY <1>3, <1>4, <1>5, <1>9, <1>12, <1>13 DEF PassBehind, MadeOrTaken, IntentIndex, Last
<1> QED
    BY <1>1, <1>6, <1>10, <1>11, <1>14, OtherPassesStay DEF DirInv

\* The journal moves one state towards the goal, or the pass ends.
LEMMA AdvanceEntryInv ==
    ASSUME DirInv, NEW t \in DirThreads, AdvanceEntry(t) PROVE DirInv'
<1> DEFINE r == rec[t]
           next == IF r.goal = Conflict THEN Conflict ELSE r.from + 1
<1>1. r \in DirPasses /\ r.at = "moving" /\ PassBehind(t) /\ r.from # r.goal
    BY DEF AdvanceEntry, DirInv, DirTypes
<1>2. Last(dkind) \in 5..6 /\ IntentIndex(dkind) \in 2..3 /\ dj \in 0..9 /\ dkind' = dkind
    BY DEF AdvanceEntry, DirInv, DirTypes, DirPhases, DirPlaces, DirThreads, KindShape, MadeShows, MadeOrTaken, QuarantineShape, CatalogShape, Undisturbed, Caused, Last, IntentIndex, VerifiedIndex, Conflict, Unrecorded, Moves, Lawful, Troubled, dirStore, dirDisk, dirHost, dirSeen, DirGrows, Pass
<1>3. /\ r.from \in 0..6 /\ r.goal \in 0..Last(dkind) \cup {Conflict} /\ r.from < Last(dkind)
      /\ r.from <= dj /\ r.from <= r.goal
      /\ r.goal \in (IntentIndex(dkind) + 1)..Last(dkind) => MadeOrTaken
      /\ r.goal = Conflict /\ dj = r.from => Caused
      /\ r.from > IntentIndex(dkind) => MadeOrTaken
    BY <1>1, <1>2 DEF PassBehind, DirPasses, AdvanceEntry, Lawful
<1>4. CASE Moves(dj, r.from, next)
  <2>1. dj' = next /\ trouble' = trouble /\ UNCHANGED <<dkind, dph, rj, mcat, dirDisk, dpc, held, made>>
      BY <1>4 DEF AdvanceEntry
  <2>2. dj \in {r.from, next}
      BY <1>4 DEF Moves
  <2>3. next = Conflict => Caused
      BY <1>1, <1>2, <1>3, <2>2 DEF Conflict, DirInv
  <2>4. next # Conflict => r.goal # Conflict /\ next = r.from + 1 /\ next <= r.goal
                           /\ (next > IntentIndex(dkind) => MadeOrTaken)
      BY <1>1, <1>2, <1>3 DEF Conflict
  <2>5. DirGrows
      BY <1>2, <1>3, <2>1, <2>2, <2>4 DEF DirGrows, MadeOrTaken, dirDisk, Conflict
  <2>6. PICK q : /\ rec' = [rec EXCEPT ![t] = q]
                 /\ q = IF next = Conflict THEN Pass("resume", 0, FALSE, 0) ELSE [r EXCEPT !.from = next]
      BY <1>4 DEF AdvanceEntry
  <2>7. next \in 0..6 \/ next = Conflict
      BY <1>2, <1>3, <2>4
  <2>8. q \in DirPasses
    <3>1. CASE next = Conflict
        BY <2>6, <3>1 DEF Pass, DirPasses, DirStates
    <3>2. CASE next # Conflict
        BY <1>1, <2>6, <2>7, <3>2 DEF DirPasses
    <3> QED
        BY <3>1, <3>2
  <2>9. rec' \in [DirThreads -> DirPasses] /\ rec'[t] = q
      BY <2>6, <2>8 DEF DirInv, DirTypes
  <2>10. open' \in BOOLEAN
      BY Zenon, <1>4 DEF AdvanceEntry, DirInv, DirTypes
  <2>11. dj' \in 0..Last(dkind) \cup {Conflict}
      BY <1>2, <1>3, <2>1, <2>4 DEF Conflict
  <2>12. DirTypes'
      BY <1>2, <2>1, <2>9, <2>10, <2>11 DEF DirInv, DirTypes, DirPhases, DirPlaces, DirThreads, KindShape, MadeShows, MadeOrTaken, QuarantineShape, CatalogShape, Undisturbed, Caused, Last, IntentIndex, VerifiedIndex, Conflict, Unrecorded, Moves, Lawful, Troubled, dirStore, dirDisk, dirHost, dirSeen, DirGrows, Pass
  <2>13. KindShape' /\ QuarantineShape' /\ Undisturbed'
      BY <2>1 DEF DirInv, DirTypes, DirPhases, DirPlaces, DirThreads, KindShape, MadeShows, MadeOrTaken, QuarantineShape, CatalogShape, Undisturbed, Caused, Last, IntentIndex, VerifiedIndex, Conflict, Unrecorded, Moves, Lawful, Troubled, dirStore, dirDisk, dirHost, dirSeen, DirGrows, Pass
  <2>14. MadeShows'
      BY <1>2, <2>1, <2>4 DEF DirInv, DirTypes, DirPhases, DirPlaces, DirThreads, KindShape, MadeShows, MadeOrTaken, QuarantineShape, CatalogShape, Undisturbed, Caused, Last, IntentIndex, VerifiedIndex, Conflict, Unrecorded, Moves, Lawful, Troubled, dirStore, dirDisk, dirHost, dirSeen, DirGrows, Pass
  <2>15. CatalogShape'
    <3>1. dj = Last(dkind) => dj' = dj
        BY <1>2, <1>3, <2>1, <2>2 DEF Conflict
    <3> QED
        BY <2>1, <3>1 DEF DirInv, DirTypes, DirPhases, DirPlaces, DirThreads, KindShape, MadeShows, MadeOrTaken, QuarantineShape, CatalogShape, Undisturbed, Caused, Last, IntentIndex, VerifiedIndex, Conflict, Unrecorded, Moves, Lawful, Troubled, dirStore, dirDisk, dirHost, dirSeen, DirGrows, Pass
  <2>16. dj' = Conflict => Caused'
      BY <2>1, <2>3 DEF Caused
  <2>17. PassBehind(t)'
    <3>1. CASE next = Conflict
        BY <2>6, <2>9, <3>1 DEF PassBehind, Pass
    <3>2. CASE next # Conflict
      <4>1. rec'[t].at = "moving" /\ rec'[t].from = next /\ rec'[t].goal = r.goal
          BY <1>1, <2>6, <2>9, <3>2 DEF DirPasses
      <4> QED
          BY <1>2, <1>3, <2>1, <2>4, <3>2, <4>1 DEF PassBehind, MadeOrTaken, dirDisk, IntentIndex, Last
    <3> QED
        BY <3>1, <3>2
  <2> QED
      BY <2>5, <2>6, <2>12, <2>13, <2>14, <2>15, <2>16, <2>17, OtherPassesStay DEF DirInv
<1>5. CASE ~Moves(dj, r.from, next)
  <2>1. /\ UNCHANGED <<dkind, dph, dj, rj, mcat, dirDisk, dpc, held, open, made>>
        /\ rec' = [rec EXCEPT ![t] = Pass("dead", 0, FALSE, 0)] /\ trouble' = trouble \cup {"race"}
      BY <1>5 DEF AdvanceEntry, Troubled
  <2>2. DirGrows
      BY <1>2, <2>1 DEF DirGrows, MadeOrTaken, dirDisk
  <2>3. Pass("dead", 0, FALSE, 0) \in DirPasses
      BY DEF Pass, DirPasses, DirStates
  <2>4. rec' \in [DirThreads -> DirPasses] /\ rec'[t] = Pass("dead", 0, FALSE, 0)
      BY <2>1, <2>3 DEF DirInv, DirTypes
  <2>5. DirTypes'
      BY <2>1, <2>4 DEF DirInv, DirTypes, DirPhases, DirPlaces, DirThreads, KindShape, MadeShows, MadeOrTaken, QuarantineShape, CatalogShape, Undisturbed, Caused, Last, IntentIndex, VerifiedIndex, Conflict, Unrecorded, Moves, Lawful, Troubled, dirStore, dirDisk, dirHost, dirSeen, DirGrows, Pass
  <2>6. KindShape' /\ MadeShows' /\ QuarantineShape' /\ CatalogShape' /\ Undisturbed' /\ (dj' = Conflict => Caused')
      BY <2>1 DEF DirInv, DirTypes, DirPhases, DirPlaces, DirThreads, KindShape, MadeShows, MadeOrTaken, QuarantineShape, CatalogShape, Undisturbed, Caused, Last, IntentIndex, VerifiedIndex, Conflict, Unrecorded, Moves, Lawful, Troubled, dirStore, dirDisk, dirHost, dirSeen, DirGrows, Pass
  <2>7. PassBehind(t)'
      BY <2>4 DEF PassBehind, Pass
  <2> QED
      BY <2>1, <2>2, <2>5, <2>6, <2>7, OtherPassesStay DEF DirInv
<1> QED
    BY <1>4, <1>5


\* The goal is reached.
LEMMA EndEntriesInv ==
    ASSUME DirInv, NEW t \in DirThreads, EndEntries(t) PROVE DirInv'
<1>1. DirGrows
    BY DEF DirInv, DirTypes, DirPhases, DirPlaces, DirThreads, KindShape, MadeShows, MadeOrTaken, QuarantineShape, CatalogShape, Undisturbed, Caused, Last, IntentIndex, VerifiedIndex, Conflict, Unrecorded, Moves, Lawful, Troubled, dirStore, dirDisk, dirHost, dirSeen, DirGrows, Pass, EndEntries
<1>2. rec' = [rec EXCEPT ![t] = Pass("resume", 0, FALSE, 0)]
    BY DEF EndEntries, DirInv, DirTypes
<1>3. Pass("resume", 0, FALSE, 0) \in DirPasses
    BY DEF Pass, DirPasses, DirStates, PassOver
<1>4. rec' \in [DirThreads -> DirPasses] /\ rec'[t] = Pass("resume", 0, FALSE, 0)
    BY <1>2, <1>3 DEF DirInv, DirTypes
<1>5. DirTypes'
    BY <1>4 DEF DirInv, DirTypes, DirPhases, DirPlaces, DirThreads, KindShape, MadeShows, MadeOrTaken, QuarantineShape, CatalogShape, Undisturbed, Caused, Last, IntentIndex, VerifiedIndex, Conflict, Unrecorded, Moves, Lawful, Troubled, dirStore, dirDisk, dirHost, dirSeen, DirGrows, Pass, EndEntries
<1>6. KindShape' /\ CatalogShape'
    BY DEF DirInv, DirTypes, DirPhases, DirPlaces, DirThreads, KindShape, MadeShows, MadeOrTaken, QuarantineShape, CatalogShape, Undisturbed, Caused, Last, IntentIndex, VerifiedIndex, Conflict, Unrecorded, Moves, Lawful, Troubled, dirStore, dirDisk, dirHost, dirSeen, DirGrows, Pass, EndEntries
<1>7. MadeShows' /\ QuarantineShape'
    BY DEF DirInv, DirTypes, DirPhases, DirPlaces, DirThreads, KindShape, MadeShows, MadeOrTaken, QuarantineShape, CatalogShape, Undisturbed, Caused, Last, IntentIndex, VerifiedIndex, Conflict, Unrecorded, Moves, Lawful, Troubled, dirStore, dirDisk, dirHost, dirSeen, DirGrows, Pass, EndEntries
<1>8. Undisturbed' /\ (dj' = Conflict => Caused')
    BY DEF DirInv, DirTypes, DirPhases, DirPlaces, DirThreads, KindShape, MadeShows, MadeOrTaken, QuarantineShape, CatalogShape, Undisturbed, Caused, Last, IntentIndex, VerifiedIndex, Conflict, Unrecorded, Moves, Lawful, Troubled, dirStore, dirDisk, dirHost, dirSeen, DirGrows, Pass, EndEntries
<1>9. PassBehind(t)'
    BY <1>4 DEF PassBehind, Pass, PassOver, DirInv, DirTypes, DirPasses
<1> QED
    BY <1>1, <1>2, <1>5, <1>6, <1>7, <1>8, <1>9, OtherPassesStay DEF DirInv


\* An operation whose work is on the disk is verified.
LEMMA ResumeInv ==
    ASSUME DirInv, NEW t \in DirThreads, Resume(t) PROVE DirInv'
<1>1. DirGrows
    BY DEF DirInv, DirTypes, DirPhases, DirPlaces, DirThreads, KindShape, MadeShows, MadeOrTaken, QuarantineShape, CatalogShape, Undisturbed, Caused, Last, IntentIndex, VerifiedIndex, Conflict, Unrecorded, Moves, Lawful, Troubled, dirStore, dirDisk, dirHost, dirSeen, DirGrows, Pass, FinalIsThere, Matches, Resume
<1>2. rec' = [rec EXCEPT ![t] = [rec[t] EXCEPT !.at = "handoff"]]
    BY DEF Resume, DirInv, DirTypes
<1>3. [rec[t] EXCEPT !.at = "handoff"] \in DirPasses
    BY DEF DirInv, DirTypes, DirPasses, DirStates
<1>4. rec' \in [DirThreads -> DirPasses] /\ rec'[t] = [rec[t] EXCEPT !.at = "handoff"]
    BY <1>2, <1>3 DEF DirInv, DirTypes
<1>5. DirTypes'
    BY <1>4 DEF DirInv, DirTypes, DirPhases, DirPlaces, DirThreads, KindShape, MadeShows, MadeOrTaken, QuarantineShape, CatalogShape, Undisturbed, Caused, Last, IntentIndex, VerifiedIndex, Conflict, Unrecorded, Moves, Lawful, Troubled, dirStore, dirDisk, dirHost, dirSeen, DirGrows, Pass, FinalIsThere, Matches, Resume
<1>6. KindShape' /\ CatalogShape'
    BY DEF DirInv, DirTypes, DirPhases, DirPlaces, DirThreads, KindShape, MadeShows, MadeOrTaken, QuarantineShape, CatalogShape, Undisturbed, Caused, Last, IntentIndex, VerifiedIndex, Conflict, Unrecorded, Moves, Lawful, Troubled, dirStore, dirDisk, dirHost, dirSeen, DirGrows, Pass, FinalIsThere, Matches, Resume
<1>7. MadeShows' /\ QuarantineShape'
    BY DEF DirInv, DirTypes, DirPhases, DirPlaces, DirThreads, KindShape, MadeShows, MadeOrTaken, QuarantineShape, CatalogShape, Undisturbed, Caused, Last, IntentIndex, VerifiedIndex, Conflict, Unrecorded, Moves, Lawful, Troubled, dirStore, dirDisk, dirHost, dirSeen, DirGrows, Pass, FinalIsThere, Matches, Resume
<1>8. Undisturbed' /\ (dj' = Conflict => Caused')
    BY DEF DirInv, DirTypes, DirPhases, DirPlaces, DirThreads, KindShape, MadeShows, MadeOrTaken, QuarantineShape, CatalogShape, Undisturbed, Caused, Last, IntentIndex, VerifiedIndex, Conflict, Unrecorded, Moves, Lawful, Troubled, dirStore, dirDisk, dirHost, dirSeen, DirGrows, Pass, FinalIsThere, Matches, Resume
<1>9. PassBehind(t)'
    BY <1>4 DEF PassBehind, Pass, PassOver, DirInv, DirTypes, DirPasses
<1> QED
    BY <1>1, <1>2, <1>5, <1>6, <1>7, <1>8, <1>9, OtherPassesStay DEF DirInv


\* A verified operation reaches the catalog with its journal entry.
LEMMA ResumeHandoffInv ==
    ASSUME DirInv, NEW t \in DirThreads, ResumeHandoff(t) PROVE DirInv'
<1>1. DirGrows
    BY DEF DirInv, DirTypes, DirPhases, DirPlaces, DirThreads, KindShape, MadeShows, MadeOrTaken, QuarantineShape, CatalogShape, Undisturbed, Caused, Last, IntentIndex, VerifiedIndex, Conflict, Unrecorded, Moves, Lawful, Troubled, dirStore, dirDisk, dirHost, dirSeen, DirGrows, Pass, CatalogJournaled, ResumeHandoff
<1>2. rec' = [rec EXCEPT ![t] = PassOver]
    BY DEF ResumeHandoff, DirInv, DirTypes
<1>3. PassOver \in DirPasses
    BY DEF Pass, DirPasses, DirStates, PassOver
<1>4. rec' \in [DirThreads -> DirPasses] /\ rec'[t] = PassOver
    BY <1>2, <1>3 DEF DirInv, DirTypes
<1>5. DirTypes'
    BY <1>4 DEF DirInv, DirTypes, DirPhases, DirPlaces, DirThreads, KindShape, MadeShows, MadeOrTaken, QuarantineShape, CatalogShape, Undisturbed, Caused, Last, IntentIndex, VerifiedIndex, Conflict, Unrecorded, Moves, Lawful, Troubled, dirStore, dirDisk, dirHost, dirSeen, DirGrows, Pass, CatalogJournaled, ResumeHandoff
<1>6. KindShape' /\ CatalogShape'
    BY DEF DirInv, DirTypes, DirPhases, DirPlaces, DirThreads, KindShape, MadeShows, MadeOrTaken, QuarantineShape, CatalogShape, Undisturbed, Caused, Last, IntentIndex, VerifiedIndex, Conflict, Unrecorded, Moves, Lawful, Troubled, dirStore, dirDisk, dirHost, dirSeen, DirGrows, Pass, CatalogJournaled, ResumeHandoff
<1>7. MadeShows' /\ QuarantineShape'
    BY DEF DirInv, DirTypes, DirPhases, DirPlaces, DirThreads, KindShape, MadeShows, MadeOrTaken, QuarantineShape, CatalogShape, Undisturbed, Caused, Last, IntentIndex, VerifiedIndex, Conflict, Unrecorded, Moves, Lawful, Troubled, dirStore, dirDisk, dirHost, dirSeen, DirGrows, Pass, CatalogJournaled, ResumeHandoff
<1>8. Undisturbed' /\ (dj' = Conflict => Caused')
    BY DEF DirInv, DirTypes, DirPhases, DirPlaces, DirThreads, KindShape, MadeShows, MadeOrTaken, QuarantineShape, CatalogShape, Undisturbed, Caused, Last, IntentIndex, VerifiedIndex, Conflict, Unrecorded, Moves, Lawful, Troubled, dirStore, dirDisk, dirHost, dirSeen, DirGrows, Pass, CatalogJournaled, ResumeHandoff
<1>9. PassBehind(t)'
    BY <1>4 DEF PassBehind, Pass, PassOver, DirInv, DirTypes, DirPasses
<1> QED
    BY <1>1, <1>2, <1>5, <1>6, <1>7, <1>8, <1>9, OtherPassesStay DEF DirInv


\* A crash forgets what every thread has read.
LEMMA CrashHostInv ==
    ASSUME DirInv, CrashHost PROVE DirInv'
<1>1. PassDue \in DirPasses
    BY DEF Pass, DirPasses, DirStates, PassDue
<1>2. rec' \in [DirThreads -> DirPasses] /\ \A t \in DirThreads : rec'[t] = PassDue
    BY <1>1 DEF CrashHost
<1>3. CrashLeaves \subseteq {"torn", "gap"}
    BY DEF CrashLeaves
<1>4. DirTypes'
  <2>1. open' \in BOOLEAN
      BY Zenon DEF CrashHost
  <2> QED
      BY <1>2, <1>3, <2>1 DEF CrashHost, DirInv, DirTypes, DirPhases, DirPlaces, DirThreads, KindShape, MadeShows, MadeOrTaken, QuarantineShape, CatalogShape, Undisturbed, Caused, Last, IntentIndex, VerifiedIndex, Conflict, Unrecorded, Moves, Lawful, Troubled, dirStore, dirDisk, dirHost, dirSeen, DirGrows, Pass
<1>5. KindShape' /\ MadeShows' /\ QuarantineShape' /\ CatalogShape' /\ (dj' = Conflict => Caused')
    BY DEF CrashHost, DirInv, DirTypes, DirPhases, DirPlaces, DirThreads, KindShape, MadeShows, MadeOrTaken, QuarantineShape, CatalogShape, Undisturbed, Caused, Last, IntentIndex, VerifiedIndex, Conflict, Unrecorded, Moves, Lawful, Troubled, dirStore, dirDisk, dirHost, dirSeen, DirGrows, Pass
<1>6. Undisturbed'
  <2>1. /\ UNCHANGED <<dkind, dph, fin, qp, qm, mtime, made>> /\ dpc' = "idle"
        /\ trouble \subseteq trouble' /\ (dpc = "moved" /\ ~qm => "torn" \in trouble')
      BY DEF CrashHost, CrashLeaves, Troubled, dirStore, dirDisk
  <2>2. DirTypes /\ Undisturbed /\ CatalogShape /\ KindShape
      BY DEF DirInv
  <2>3. CASE dkind = "CREATE"
      BY <2>1, <2>2, <2>3 DEF Undisturbed
  <2>4. CASE dkind = "QUARANTINE"
      BY <2>1, <2>2, <2>4 DEF Undisturbed
  <2>5. CASE dkind = "METADATA"
      BY <2>1, <2>2, <2>5 DEF Undisturbed
  <2> QED
      BY <2>2, <2>3, <2>4, <2>5 DEF DirTypes
<1>7. \A t \in DirThreads : PassBehind(t)'
    BY <1>2 DEF PassBehind, PassDue, Pass
<1> QED
    BY <1>4, <1>5, <1>6, <1>7 DEF DirInv

\* Before the first start nothing is made and nothing is read.
LEMMA DirInitInv == DirInit => DirInv
<1> SUFFICES ASSUME DirInit PROVE DirInv
    OBVIOUS
<1>1. PassDue \in DirPasses
    BY DEF Pass, DirPasses, DirStates, PassDue
<1>2. rec \in [DirThreads -> DirPasses] /\ \A t \in DirThreads : rec[t] = PassDue
    BY <1>1 DEF DirInit
<1>3. dkind \in {"CREATE", "QUARANTINE", "METADATA"}
    BY DirAssumption DEF DirInit
<1>4. staged \in BOOLEAN
  <2>1. (dkind # "METADATA") \in BOOLEAN
      OBVIOUS
  <2> QED
      BY Zenon, <2>1 DEF DirInit
<1>5. DirTypes
  <2>1. qm \in BOOLEAN /\ mcat \in BOOLEAN /\ open \in BOOLEAN /\ made \in BOOLEAN
      BY Zenon DEF DirInit
  <2> QED
    BY <1>2, <1>3, <1>4, <2>1 DEF DirInit, PlannedEntry, DirInv, DirTypes, DirPhases, DirPlaces, DirThreads, KindShape, MadeShows, MadeOrTaken, QuarantineShape, CatalogShape, Undisturbed, Caused, Last, IntentIndex, VerifiedIndex, Conflict, Unrecorded, Moves, Lawful, Troubled, dirStore, dirDisk, dirHost, dirSeen, DirGrows, Pass
<1>6. KindShape /\ MadeShows /\ QuarantineShape /\ CatalogShape /\ Undisturbed /\ (dj = Conflict => Caused)
    BY <1>3 DEF DirInit, PlannedEntry, DirInv, DirTypes, DirPhases, DirPlaces, DirThreads, KindShape, MadeShows, MadeOrTaken, QuarantineShape, CatalogShape, Undisturbed, Caused, Last, IntentIndex, VerifiedIndex, Conflict, Unrecorded, Moves, Lawful, Troubled, dirStore, dirDisk, dirHost, dirSeen, DirGrows, Pass
<1>7. \A t \in DirThreads : PassBehind(t)
    BY <1>2 DEF PassBehind, PassDue, Pass
<1> QED
    BY <1>5, <1>6, <1>7 DEF DirInv


\* A step of the executor.
LEMMA DirExecutorInv ==
    ASSUME DirInv, DirExecutor PROVE DirInv'
<1> QED
    BY BeginCommitInv, RecordIntentInv, CreateDirectoryInv, CheckQuarantineInv, MoveToQuarantineInv, WriteManifestInv, RecordPreservedInv, ResumePreservedInv, PlaceFileInv, RecordAppliedInv, RecordCatalogInv, RemoveMarkerInv, RecordCleanedInv, StepRestoreInv, EndRestoreInv, PrepareMetadataInv, ApplyMetadataInv, RecordMetadataAppliedInv, VerifyMetadataInv DEF DirExecutor

\* A step of a reconciliation pass.
LEMMA ReconcilerInv ==
    ASSUME DirInv, NEW t \in DirThreads, Reconciler(t) PROVE DirInv'
<1> QED
    BY ListEntriesInv, LoadGenericInv, LookAtDiskInv, AdvanceEntryInv, EndEntriesInv,
       ResumeInv, ResumeHandoffInv DEF Reconciler

\* Nothing but a step changes anything.
LEMMA DirStutter ==
    ASSUME DirInv, UNCHANGED dirVars PROVE DirInv'
<1>1. UNCHANGED <<dkind, dph, dj, rj, mcat, fin, staged, qp, qm, mtime, dpc, held, rec, open, made, trouble>>
    BY DEF dirVars, dirStore, dirDisk, dirHost, dirSeen
<1>2. DirTypes' /\ KindShape' /\ MadeShows' /\ QuarantineShape' /\ CatalogShape' /\ Undisturbed'
      /\ (dj' = Conflict => Caused')
    BY <1>1 DEF DirInv, DirTypes, DirPhases, DirPlaces, DirThreads, KindShape, MadeShows, MadeOrTaken, QuarantineShape, CatalogShape, Undisturbed, Caused, Last, IntentIndex, VerifiedIndex, Conflict, Unrecorded, Moves, Lawful, Troubled, dirStore, dirDisk, dirHost, dirSeen, DirGrows, Pass
<1>3. \A t \in DirThreads : PassBehind(t)'
    BY <1>1 DEF DirInv, PassBehind, Caused, MadeOrTaken
<1> QED
    BY <1>2, <1>3 DEF DirInv

\* Every step of a directory operation and its journal keeps the invariant.
LEMMA DirStepInv == DirInv /\ [DirNext]_dirVars => DirInv'
<1> SUFFICES ASSUME DirInv, [DirNext]_dirVars PROVE DirInv'
    OBVIOUS
<1>1. CASE DirExecutor
    BY <1>1, DirExecutorInv
<1>2. CASE BeginRestore
    BY <1>2, BeginRestoreInv
<1>3. CASE \E t \in DirThreads : Reconciler(t)
    BY <1>3, ReconcilerInv
<1>4. CASE CallFails
    BY <1>4, CallFailsInv
<1>5. CASE CrashHost
    BY <1>5, CrashHostInv
<1>6. CASE EditTarget
    BY <1>6, EditTargetInv
<1>7. CASE UNCHANGED dirVars
    BY <1>7, DirStutter
<1> QED
    BY <1>1, <1>2, <1>3, <1>4, <1>5, <1>6, <1>7 DEF DirNext

\* The inductive invariant of directory operations holds in every reachable state.
THEOREM DirInvariance == DirSpec => []DirInv
<1> QED
    BY DirInitInv, DirStepInv, PTL DEF DirSpec

\* Every variable of a directory operation keeps its type (directory_recovery.py).
THEOREM DirectoryTypes == DirSpec => []DirTypeOK
<1>1. DirInv => DirTypeOK
    BY DEF DirInv, DirTypes, DirPhases, DirPlaces, DirPasses, DirStates, DirTypeOK
<1> QED
    BY <1>1, DirInvariance, PTL

\* The directory journal claims only what this program did, or a user's file that
\* the move of a quarantine took for the directory (final_commit.py:280-288), for
\* whatever a user, a crash or a second thread does between the looks of an
\* observer at the disk (directory_reconciliation.py).
THEOREM JournalOwnsItsWork == DirSpec => []JournalClaimsOwnWork
<1>1. DirInv => JournalClaimsOwnWork
    BY DEF DirInv, MadeShows, MadeOrTaken, JournalClaimsOwnWork
<1> QED
    BY <1>1, DirInvariance, PTL

\* The conflict that disables mutations has a cause: a user changed the target, a
\* crash left a directory without its manifest, a restore took the quarantined
\* directory back, or two threads worked on the entry at once.
THEOREM ConflictsAreCaused == DirSpec => []ConflictHasACause
<1>1. DirInv => ConflictHasACause
    BY DEF DirInv, Caused, ConflictHasACause
<1> QED
    BY <1>1, DirInvariance, PTL

\* What the catalog lists is on the disk as long as the user leaves it alone.
THEOREM ListedIsOnDisk == DirSpec => []CatalogIsOnDisk
<1>1. ASSUME DirInv PROVE CatalogIsOnDisk
    BY <1>1 DEF DirInv, DirTypes, DirPhases, DirPlaces, DirThreads, KindShape, MadeShows, MadeOrTaken, QuarantineShape, CatalogShape, Undisturbed, Caused, Last, IntentIndex, VerifiedIndex, Conflict, Unrecorded, Moves, Lawful, Troubled, dirStore, dirDisk, dirHost, dirSeen, DirGrows, Pass, MadeShows, MadeOrTaken, CatalogIsOnDisk
<1> QED
    BY <1>1, DirInvariance, PTL

\* No step of the program takes away what the user has put at the path: the check
\* before the move may be outdated, but the move takes the entries, and a file that
\* replaced the directory, along into the quarantine (final_commit.py:280-288).
THEOREM UserDataIsKept == DirSpec => UserDataSurvives
<1>1. DirInv /\ [DirNext]_dirVars => [UserFile => UserFile']_dirVars
  <2> SUFFICES ASSUME DirInv, [DirNext]_dirVars, UserFile PROVE UserFile' \/ UNCHANGED dirVars
      OBVIOUS
  <2>1. CASE DirExecutor
      BY <2>1 DEF UserFile, DirExecutor, BeginCommit, RecordIntent, CreateDirectory, CheckQuarantine, MoveToQuarantine, WriteManifest, RecordPreserved, ResumePreserved, PlaceFile, RecordApplied, RecordCatalog, RemoveMarker, RecordCleaned, StepRestore, EndRestore, PrepareMetadata, ApplyMetadata, RecordMetadataApplied, VerifyMetadata, Running, DirPrepared, CreatePrepared, QuarantinePrepared, CommitFails, Matches, Forward, Displaced, IsDirectory, CatalogJournaled, StagingRemoved, RestorePrepared, RecordMetadata, DirFault, DirInv, DirTypes, DirPhases, DirPlaces, DirThreads, KindShape, MadeShows, MadeOrTaken, QuarantineShape, CatalogShape, Undisturbed, Caused, Last, IntentIndex, VerifiedIndex, Conflict, Unrecorded, Moves, Lawful, Troubled, dirStore, dirDisk, dirHost, dirSeen, DirGrows, Pass
  <2>2. CASE BeginRestore
      BY <2>2 DEF BeginRestore, UserFile, dirDisk
  <2>3. CASE \E t \in DirThreads : Reconciler(t)
      BY <2>3 DEF Reconciler, ListEntries, LoadGeneric, LookAtDisk, AdvanceEntry, EndEntries, Resume,
                  ResumeHandoff, UserFile, dirDisk
  <2>4. CASE CallFails
      BY <2>4 DEF CallFails, UserFile, dirDisk
  <2>5. CASE CrashHost
      BY <2>5 DEF CrashHost, UserFile, dirDisk
  <2>6. CASE EditTarget
      BY <2>6 DEF EditTarget, UserFile, DirInv, DirTypes
  <2> QED
      BY <2>1, <2>2, <2>3, <2>4, <2>5, <2>6 DEF DirNext
<1> QED
    BY <1>1, DirInvariance, PTL DEF DirSpec, UserDataSurvives

-----------------------------------------------------------------------------
(* Endpoints: who owns the control area of a target.                         *)

\* The sets the variables of Endpoints range over.
Markers == [owner : Inst \cup {0}, epoch : Nat, by : 0..MaxRev]
Seen == {"none", "ABSENT", "UNKNOWN", "VALID_OWNED", "VALID_FOREIGN", "FAILED"}
IntentStates == {"none", "PREPARED", "FILESYSTEM_APPLIED", "COMMITTED", "BLOCKED"}
OpenStates == {"PREPARED", "FILESYSTEM_APPLIED"}
Intents == [st : IntentStates, old : Markers, err : BOOLEAN]
EpPcs == {"idle", "next", "save", "apply", "stage", "publish", "replace", "verify",
          "mark", "commit"}
Acts == [pc : EpPcs, k : EpKinds, r : 0..MaxRev, old : Markers,
         todo : SUBSET (EpKinds \X Revs)]
Jobs == [rev : 1..(MaxRev + 1), on : BOOLEAN]
Observations == [saw : Seen, m : Markers]
Classifications == [pc : {"idle", "store"}, saw : Seen, m : Markers, gen : Nat]
Leases == [st : {"none", "held"}, epoch : Nat]
Counters == [epoch : Nat, tok : Nat]
Bindings == {"REGISTRATION_PENDING", "WRITABLE_READY", "READ_ONLY_READY", "BLOCKED"}
Areas == {"absent", "ok", "unknown"}
Stagings == {"none", "partial", "torn", "complete"}
Holders == {Free} \cup (Inst \X {"cmd", "rec", "run"})
EpTypes ==
    /\ area \in Areas /\ marker \in Markers
    /\ staging \in [Inst -> Stagings]
    /\ recov \in SUBSET Inst /\ lock \in Holders
    /\ ejob \in [Inst -> Jobs] /\ bind \in [Inst -> Bindings]
    /\ obs \in [Inst -> Observations] /\ ev \in [Inst -> Markers]
    /\ intent \in [Inst -> [EpKinds -> [Revs -> Intents]]]
    /\ act \in [Inst -> [Actors -> Acts]] /\ cls \in [Inst -> Classifications]
    /\ lease \in [Inst -> Leases] /\ ctr \in [Inst -> Counters] /\ granted \in Counters
    /\ epFaults \in 0..MaxEpFaults /\ rounds \in 0..MaxRounds

\* There is a marker exactly in a valid area.
AreaShape ==
    /\ area # "ok" => marker = NoMarker
    /\ area = "ok" => marker.owner \in Inst /\ marker.epoch >= 1

\* The marker an intent publishes, and that it has been: it is in the folder, or
\* a takeover has moved the epoch past it.
MarkerFor(i, k, r, old) ==
    IF k = "register" THEN [owner |-> i, epoch |-> 1, by |-> r]
    ELSE [owner |-> i, epoch |-> old.epoch + 1, by |-> r]
Published(m) == area = "ok" /\ (marker = m \/ marker.epoch > m.epoch)

\* An open takeover replaces the marker of somebody else; an intent that says it
\* was applied has published its marker.
IntentFits(i, k, r) ==
    /\ intent[i][k][r].st \in OpenStates /\ k = "takeover" => intent[i][k][r].old.owner # i
    /\ intent[i][k][r].st = "FILESYSTEM_APPLIED" =>
         Published(MarkerFor(i, k, r, intent[i][k][r].old))
IntentShape == \A i \in Inst, k \in EpKinds, r \in Revs : IntentFits(i, k, r)

\* What a thread knows at each step of a saga: the intent it works on, and while
\* it replaces a marker, that it holds the lock and the marker is the one it saw.
Resting == {"idle", "next"}
KnowsIntent(i, a) ==
    LET w == act[i][a] IN
    /\ w.r \in Revs
    /\ w.pc = "save" <=> intent[i][w.k][w.r].st = "none"
    /\ intent[i][w.k][w.r].st \in OpenStates => intent[i][w.k][w.r].old = w.old
    /\ w.pc # "commit" /\ w.k = "takeover" => w.old.owner # i
ActFits(i, a) ==
    LET w == act[i][a] IN
    /\ w.pc = "next" => a = "rec"
    /\ w.pc = "save" => a = "cmd"
    /\ \A kr \in w.todo : intent[i][kr[1]][kr[2]].st # "none"
    /\ w.pc \notin Resting => KnowsIntent(i, a)
    /\ w.pc \in {"stage", "publish"} => w.k = "register"
    /\ w.pc = "replace" =>
         /\ w.k = "takeover" /\ lock = <<i, a>>
         /\ area = "ok" /\ marker = w.old /\ w.old.owner \notin recov
    /\ w.pc = "verify" /\ w.k = "takeover" =>
         lock = <<i, a>> /\ area = "ok" /\ marker = Prepared(i, a)
    /\ w.pc = "mark" => Published(Prepared(i, a))
ActShape == \A i \in Inst, a \in Actors : ActFits(i, a)

\* What was classified as foreign is somebody else's.
ObsShape ==
    \A i \in Inst : /\ obs[i].saw = "VALID_FOREIGN" => obs[i].m.owner # i
                    /\ cls[i].saw = "VALID_FOREIGN" => cls[i].m.owner # i

\* The last lease granted by anyone is not ahead of the marker, and is the last
\* one of its owner if it is of the marker's epoch.
GrantShape ==
    /\ granted.epoch <= marker.epoch
    /\ area = "ok" /\ granted.epoch = marker.epoch => ctr[marker.owner] = granted

\* The inductive invariant of Endpoints.
EpInv ==
    /\ EpTypes /\ AreaShape /\ IntentShape /\ ActShape /\ ObsShape /\ GrantShape
    /\ WriterOwnsMarker /\ EvidenceWasPublished

\* How steps may move intents and the marker.
IntentsMove ==
    \A i \in Inst, k \in EpKinds, r \in Revs :
        /\ intent'[i][k][r].st = "none" <=> intent[i][k][r].st = "none"
        /\ intent'[i][k][r].st \in OpenStates =>
             /\ intent[i][k][r].st \in OpenStates
             /\ intent'[i][k][r].old = intent[i][k][r].old
IntentsGrow ==
    \A i \in Inst, k \in EpKinds, r \in Revs : intent[i][k][r].st # "none" =>
        /\ intent'[i][k][r].st # "none"
        /\ intent'[i][k][r].st \in OpenStates =>
             /\ intent[i][k][r].st \in OpenStates
             /\ intent'[i][k][r].old = intent[i][k][r].old
MarkerMoves ==
    area = "ok" => area' = "ok" /\ (marker' = marker \/ marker'.epoch > marker.epoch)
LocksStay(i, a) ==
    lock = <<i, a>> /\ area = "ok" =>
        lock' = lock /\ area' = area /\ marker' = marker /\ recov' = recov
OnlyActor(i, a) ==
    \A j \in Inst, b \in Actors : <<j, b>> # <<i, a>> => act'[j][b] = act[j][b]

\* What is assumed of the bounds.
LEMMA EpBounds ==
    /\ MaxRev \in Nat /\ MaxTokens \in Nat /\ MaxEpFaults \in Nat /\ MaxRounds \in Nat
    /\ Revs \subseteq 0..MaxRev
  BY EndpointAssumption DEF Revs

\* The resting values are in their sets.
LEMMA EpConstants ==
    /\ NoMarker \in Markers /\ NoIntent \in Intents /\ IdleAct \in Acts
    /\ NoCls \in Classifications /\ NoLease \in Leases /\ NoObs \in Observations
    /\ NoMarker.owner = 0 /\ NoMarker.epoch = 0 /\ NoIntent.st = "none"
    /\ IdleAct.pc = "idle" /\ IdleAct.todo = {} /\ NoCls.saw = "none" /\ NoObs.saw = "none"
    /\ NoCls.pc = "idle" /\ NoLease.st = "none"
  BY EpBounds DEF Markers, Intents, Acts, Classifications, Leases, Observations, NoMarker,
     NoIntent, IdleAct, NoCls, NoLease, NoObs, IntentStates, EpPcs, EpKinds, Seen

\* One thread moves to another state.
LEMMA ActPut ==
    ASSUME EpTypes, NEW i \in Inst, NEW a \in Actors, NEW w \in Acts,
           act' = [act EXCEPT ![i][a] = w]
    PROVE  /\ act' \in [Inst -> [Actors -> Acts]] /\ act'[i][a] = w
           /\ OnlyActor(i, a)
  BY DEF EpTypes, OnlyActor

\* A thread goes on to another step of the same intent.
LEMMA GotoPut ==
    ASSUME EpTypes, NEW i \in Inst, NEW a \in Actors, NEW pc \in EpPcs, Goto(i, a, pc)
    PROVE  /\ act' \in [Inst -> [Actors -> Acts]] /\ OnlyActor(i, a)
           /\ act'[i][a] = [act[i][a] EXCEPT !.pc = pc]
           /\ act'[i][a].pc = pc /\ act'[i][a].k = act[i][a].k
           /\ act'[i][a].r = act[i][a].r /\ act'[i][a].old = act[i][a].old
           /\ act'[i][a].todo = act[i][a].todo
<1> DEFINE w == [act[i][a] EXCEPT !.pc = pc]
<1>1. act[i][a] \in Acts
    BY DEF EpTypes
<1>2. /\ w \in Acts /\ w.pc = pc /\ w.k = act[i][a].k /\ w.r = act[i][a].r
      /\ w.old = act[i][a].old /\ w.todo = act[i][a].todo
    BY <1>1 DEF Acts
<1>3. act' = [act EXCEPT ![i][a] = w]
    BY DEF Goto
<1> HIDE DEF w
<1> QED
    BY <1>2, <1>3, ActPut DEF w

\* A thread that ends goes on with its list, or rests.
LEMMA EndPut ==
    ASSUME EpTypes, NEW i \in Inst, NEW a \in Actors, EndAct(i, a)
    PROVE  /\ act' \in [Inst -> [Actors -> Acts]] /\ OnlyActor(i, a)
           /\ act'[i][a].pc \in Resting /\ (act'[i][a].pc = "next" => a = "rec")
           /\ act'[i][a].todo \subseteq act[i][a].todo
<1> DEFINE w == IF a = "rec"
                  THEN [IdleAct EXCEPT !.pc = "next", !.todo = act[i][a].todo] ELSE IdleAct
<1>1. act[i][a] \in Acts
    BY DEF EpTypes
<1>2. /\ w \in Acts /\ w.pc \in Resting /\ (w.pc = "next" => a = "rec")
      /\ w.todo \subseteq act[i][a].todo
    BY <1>1, EpConstants DEF Acts, IdleAct, Resting, EpPcs
<1>3. act' = [act EXCEPT ![i][a] = w]
    BY DEF EndAct, Actors
<1> HIDE DEF w
<1>4. /\ act' \in [Inst -> [Actors -> Acts]] /\ act'[i][a] = w
      /\ OnlyActor(i, a)
    BY <1>2, <1>3, ActPut
<1> QED
    BY <1>2, <1>4

\* One intent is written.
NothingApplied ==
    \A j \in Inst, k \in EpKinds, r \in Revs :
        intent'[j][k][r].st = "FILESYSTEM_APPLIED" => intent[j][k][r].st = "FILESYSTEM_APPLIED"
\* One intent is rewritten.
LEMMA IntentPut ==
    ASSUME EpTypes, NEW i \in Inst, NEW k \in EpKinds, NEW r \in Revs, NEW in \in Intents,
           intent' = [intent EXCEPT ![i][k][r] = in]
    PROVE  /\ intent' \in [Inst -> [EpKinds -> [Revs -> Intents]]]
           /\ intent'[i][k][r] = in
           /\ \A j \in Inst, l \in EpKinds, s \in Revs :
                <<j, l, s>> # <<i, k, r>> => intent'[j][l][s] = intent[j][l][s]
  BY DEF EpTypes

\* The intent a busy thread works on.
LEMMA AtWork ==
    ASSUME EpTypes, NEW i \in Inst, NEW a \in Actors, ActFits(i, a),
           act[i][a].pc \notin Resting
    PROVE  /\ act[i][a] \in Acts /\ act[i][a].k \in EpKinds /\ act[i][a].r \in Revs
           /\ Mine(i, a) \in Intents
           /\ act[i][a].pc # "save" => Mine(i, a).st # "none"
           /\ Mine(i, a).st \in OpenStates => Mine(i, a).old = act[i][a].old
           /\ Prepared(i, a) \in Markers
           /\ Prepared(i, a) = MarkerFor(i, act[i][a].k, act[i][a].r, act[i][a].old)
<1>1. act[i][a] \in Acts
    BY DEF EpTypes
<1>2. act[i][a].k \in EpKinds /\ act[i][a].r \in Revs
    BY <1>1 DEF Acts, ActFits, KnowsIntent
<1>3. Mine(i, a) \in Intents
    BY <1>2 DEF EpTypes, Mine
<1>4. act[i][a].old \in Markers
    BY <1>1 DEF Acts
<1>5. Prepared(i, a) \in Markers
    <2>1. CASE act[i][a].k = "register"
        BY <1>2, <2>1, EpBounds DEF Prepared, Markers
    <2>2. CASE act[i][a].k # "register"
        <3>1. /\ act[i][a].old.epoch + 1 \in Nat /\ act[i][a].r \in 0..MaxRev
              /\ i \in Inst \cup {0}
            <4>1. act[i][a].old.epoch \in Nat
                BY <1>4 DEF Markers
            <4>2. act[i][a].r \in 0..MaxRev
                BY <1>2, EpBounds
            <4> QED
                BY <4>1, <4>2
        <3> QED
            BY <2>2, <3>1 DEF Prepared, Markers
    <2> QED
        BY <2>1, <2>2
<1> QED
    BY <1>1, <1>2, <1>3, <1>5 DEF ActFits, KnowsIntent, Mine, Prepared, MarkerFor

\* An error that is noted may block an intent and never reopens one.
LEMMA NotedShape ==
    ASSUME NEW in \in Intents, NEW b \in BOOLEAN
    PROVE  /\ Noted(in, b) \in Intents
           /\ Noted(in, b).st = "none" => in.st = "none"
           /\ Noted(in, b).st \in OpenStates =>
                in.st \notin {"COMMITTED", "BLOCKED"} /\ Noted(in, b).old = in.old
           /\ Noted(in, b).st = "FILESYSTEM_APPLIED" => in.st = "FILESYSTEM_APPLIED"
  BY EpConstants DEF Noted, NoIntent, Intents, IntentStates, OpenStates

\* A failed step notes its error and ends the attempt.
LEMMA FailedShape ==
    ASSUME EpTypes, NEW i \in Inst, NEW a \in Actors, ActFits(i, a), NEW b \in BOOLEAN,
           act[i][a].pc \notin Resting, act[i][a].pc # "save", Failed(i, a, b)
    PROVE  /\ intent' \in [Inst -> [EpKinds -> [Revs -> Intents]]]
           /\ IntentsMove /\ NothingApplied /\ EndAct(i, a)
<1> DEFINE k == act[i][a].k  r == act[i][a].r  in == Noted(Mine(i, a), b)
<1>1. k \in EpKinds /\ r \in Revs /\ Mine(i, a) \in Intents /\ Mine(i, a).st # "none"
    BY AtWork
<1>2. /\ in \in Intents /\ in.st # "none"
      /\ in.st \in OpenStates => Mine(i, a).st \in OpenStates /\ in.old = Mine(i, a).old
      /\ in.st = "FILESYSTEM_APPLIED" => Mine(i, a).st = "FILESYSTEM_APPLIED"
    BY <1>1, NotedShape DEF Intents, IntentStates, OpenStates
<1>3. intent' = [intent EXCEPT ![i][k][r] = in] /\ EndAct(i, a)
    BY DEF Failed, SetIntent
<1>4. Mine(i, a) = intent[i][k][r]
    BY DEF Mine
<1> HIDE DEF k, r, in
<1>5. /\ intent' \in [Inst -> [EpKinds -> [Revs -> Intents]]] /\ intent'[i][k][r] = in
      /\ \A j \in Inst, l \in EpKinds, s \in Revs :
           <<j, l, s>> # <<i, k, r>> => intent'[j][l][s] = intent[j][l][s]
    BY <1>1, <1>2, <1>3 DEF EpTypes
<1>6. ASSUME NEW j \in Inst, NEW l \in EpKinds, NEW s \in Revs
      PROVE  /\ intent'[j][l][s].st = "none" <=> intent[j][l][s].st = "none"
             /\ intent'[j][l][s].st \in OpenStates =>
                  /\ intent[j][l][s].st \in OpenStates
                  /\ intent'[j][l][s].old = intent[j][l][s].old
             /\ intent'[j][l][s].st = "FILESYSTEM_APPLIED"
                  => intent[j][l][s].st = "FILESYSTEM_APPLIED"
    BY <1>1, <1>2, <1>4, <1>5
<1> QED
    BY <1>3, <1>5, <1>6 DEF IntentsMove, NothingApplied

\* A published marker stays published.
LEMMA PublishedStays ==
    ASSUME EpTypes, EpTypes', MarkerMoves, NEW m \in Markers, Published(m)
    PROVE  Published(m)'
  BY DEF EpTypes, Markers, MarkerMoves, Published

\* A step of somebody else leaves a thread's knowledge true.
LEMMA KnowledgeStays ==
    ASSUME EpTypes, EpTypes', NEW j \in Inst, NEW b \in Actors, ActFits(j, b),
           act'[j][b] = act[j][b], IntentsGrow, MarkerMoves, LocksStay(j, b),
           act[j][b].pc = "save" => intent'[j][act[j][b].k][act[j][b].r].st = "none"
    PROVE  ActFits(j, b)'
<1> DEFINE w == act[j][b]
<1>1. w \in Acts /\ act'[j][b] = w
    BY DEF EpTypes
<1>2. Prepared(j, b)' = Prepared(j, b)
    BY <1>1 DEF Prepared
<1>3. w.pc \notin Resting => KnowsIntent(j, b)'
    <2>1. SUFFICES ASSUME w.pc \notin Resting PROVE KnowsIntent(j, b)'
        OBVIOUS
    <2>2. KnowsIntent(j, b)
        BY <2>1 DEF ActFits
    <2>3. w.k \in EpKinds /\ w.r \in Revs
        BY <1>1, <2>2 DEF Acts, KnowsIntent
    <2>4. intent[j][w.k][w.r].st # "none" =>
          /\ intent'[j][w.k][w.r].st # "none"
          /\ intent'[j][w.k][w.r].st \in OpenStates =>
               /\ intent[j][w.k][w.r].st \in OpenStates
               /\ intent'[j][w.k][w.r].old = intent[j][w.k][w.r].old
        BY <2>3 DEF IntentsGrow
    <2>5. w.pc = "save" <=> intent'[j][w.k][w.r].st = "none"
        <3>1. w.pc = "save" <=> intent[j][w.k][w.r].st = "none"
            BY <2>2 DEF KnowsIntent
        <3> QED
            BY <2>4, <3>1
    <2>6. intent'[j][w.k][w.r].st \in OpenStates => intent'[j][w.k][w.r].old = w.old
        <3>1. CASE w.pc = "save"
            BY <2>5, <3>1 DEF OpenStates
        <3>2. CASE w.pc # "save"
            BY <2>2, <2>4, <3>2 DEF KnowsIntent
        <3> QED
            BY <3>1, <3>2
    <2> QED
        BY <1>1, <2>2, <2>3, <2>5, <2>6 DEF KnowsIntent
<1>4. \A kr \in w.todo : intent'[j][kr[1]][kr[2]].st # "none"
    BY <1>1 DEF Acts, ActFits, IntentsGrow
<1>5. w.pc = "mark" => Published(Prepared(j, b))'
    BY <1>1, <1>2, AtWork, PublishedStays DEF ActFits, Resting
<1> QED
    BY <1>1, <1>2, <1>3, <1>4, <1>5 DEF ActFits, LocksStay

\* A thread that does not move keeps what it knows while others do.
LEMMA FitsStay ==
    ASSUME EpTypes, EpTypes', NEW j \in Inst, NEW b \in Actors, ActFits(j, b),
           act'[j][b] = act[j][b], IntentsMove, MarkerMoves, LocksStay(j, b)
    PROVE  ActFits(j, b)'
<1>1. IntentsGrow
    BY DEF IntentsMove, IntentsGrow
<1>2. act[j][b].pc = "save" => intent'[j][act[j][b].k][act[j][b].r].st = "none"
    <2>1. SUFFICES ASSUME act[j][b].pc = "save"
                   PROVE  intent'[j][act[j][b].k][act[j][b].r].st = "none"
        OBVIOUS
    <2>2. KnowsIntent(j, b)
        BY <2>1 DEF ActFits, Resting
    <2>3. act[j][b].k \in EpKinds /\ act[j][b].r \in Revs
        BY <2>2 DEF EpTypes, Acts, KnowsIntent
    <2> QED
        BY <2>1, <2>2, <2>3 DEF KnowsIntent, IntentsMove
<1> QED
    BY <1>1, <1>2, KnowledgeStays

\* A thread that goes on, or ends what it did, knows what it should.
LEMMA GotoFits ==
    ASSUME EpTypes, NEW i \in Inst, NEW a \in Actors, ActFits(i, a),
           NEW pc \in {"stage", "publish", "replace", "verify", "mark", "commit"},
           act[i][a].pc \notin Resting, act[i][a].pc \notin {"save", "commit"},
           Goto(i, a, pc), IntentsMove,
           pc \in {"stage", "publish"} => act[i][a].k = "register",
           pc = "replace" =>
             /\ act[i][a].k = "takeover" /\ lock' = <<i, a>>
             /\ area' = "ok" /\ marker' = act[i][a].old /\ act[i][a].old.owner \notin recov',
           pc = "verify" /\ act[i][a].k = "takeover" =>
             lock' = <<i, a>> /\ area' = "ok" /\ marker' = Prepared(i, a),
           pc = "mark" =>
             area' = "ok" /\ (marker' = Prepared(i, a) \/ marker'.epoch > Prepared(i, a).epoch)
    PROVE  /\ ActFits(i, a)' /\ OnlyActor(i, a)
           /\ act' \in [Inst -> [Actors -> Acts]]
<1> DEFINE w == act[i][a]  v == act'[i][a]
<1>1. /\ act' \in [Inst -> [Actors -> Acts]] /\ OnlyActor(i, a)
      /\ v.pc = pc /\ v.k = w.k /\ v.r = w.r /\ v.old = w.old /\ v.todo = w.todo
    <2>1. pc \in EpPcs
        BY DEF EpPcs
    <2> QED
        BY <2>1, GotoPut
<1>2. /\ w \in Acts /\ w.k \in EpKinds /\ w.r \in Revs
      /\ intent[i][w.k][w.r].st # "none"
      /\ intent[i][w.k][w.r].st \in OpenStates => intent[i][w.k][w.r].old = w.old
    BY AtWork DEF Mine
<1>3. w.k = "takeover" => w.old.owner # i
    BY DEF ActFits, KnowsIntent
<1>4. /\ intent'[i][w.k][w.r].st # "none"
      /\ intent'[i][w.k][w.r].st \in OpenStates => intent'[i][w.k][w.r].old = w.old
    BY <1>2 DEF IntentsMove
<1>5. \A kr \in w.todo : intent'[i][kr[1]][kr[2]].st # "none"
    <2>1. w.todo \subseteq EpKinds \X Revs
        BY <1>2 DEF Acts
    <2>2. \A kr \in w.todo : intent[i][kr[1]][kr[2]].st # "none"
        BY DEF ActFits
    <2>3. \A kr \in w.todo : kr[1] \in EpKinds /\ kr[2] \in Revs
        BY <2>1
    <2> QED
        BY <2>2, <2>3 DEF IntentsMove
<1>6. Prepared(i, a)' = Prepared(i, a)
    BY <1>1 DEF Prepared
<1>7. KnowsIntent(i, a)'
    BY <1>1, <1>2, <1>3, <1>4 DEF KnowsIntent
<1> QED
    BY <1>1, <1>5, <1>6, <1>7 DEF ActFits, Published

\* A thread at rest knows enough.
LEMMA EndFits ==
    ASSUME EpTypes, NEW i \in Inst, NEW a \in Actors, ActFits(i, a), EndAct(i, a), IntentsMove
    PROVE  /\ ActFits(i, a)' /\ OnlyActor(i, a)
           /\ act' \in [Inst -> [Actors -> Acts]]
<1> DEFINE w == act[i][a]  v == act'[i][a]
<1>1. /\ act' \in [Inst -> [Actors -> Acts]] /\ OnlyActor(i, a)
      /\ v.pc \in Resting /\ (v.pc = "next" => a = "rec") /\ v.todo \subseteq w.todo
    BY EndPut
<1>2. w \in Acts
    BY DEF EpTypes
<1>3. \A kr \in v.todo : intent'[i][kr[1]][kr[2]].st # "none"
    BY <1>1, <1>2 DEF Acts, ActFits, IntentsMove
<1> QED
    BY <1>1, <1>3 DEF ActFits, Resting

\* What a step of one thread leaves true of the sagas.
LEMMA SagasStay ==
    ASSUME EpTypes, EpTypes', IntentShape, ActShape, NEW i \in Inst, NEW a \in Actors,
           ActFits(i, a)', OnlyActor(i, a), IntentsMove, NothingApplied, MarkerMoves,
           \A j \in Inst, b \in Actors : <<j, b>> # <<i, a>> => LocksStay(j, b)
    PROVE  IntentShape' /\ ActShape'
<1>1. ASSUME NEW j \in Inst, NEW b \in Actors PROVE ActFits(j, b)'
    <2>1. CASE <<j, b>> = <<i, a>>
        BY <2>1
    <2>2. CASE <<j, b>> # <<i, a>>
        BY <2>2, FitsStay DEF ActShape, OnlyActor
    <2> QED
        BY <2>1, <2>2
<1>2. ASSUME NEW j \in Inst, NEW k \in EpKinds, NEW r \in Revs PROVE IntentFits(j, k, r)'
    <2>1. IntentFits(j, k, r)
        BY DEF IntentShape
    <2>2. /\ intent'[j][k][r].st \in OpenStates =>
               intent[j][k][r].st \in OpenStates /\ intent'[j][k][r].old = intent[j][k][r].old
          /\ intent'[j][k][r].st = "FILESYSTEM_APPLIED"
               => intent[j][k][r].st = "FILESYSTEM_APPLIED"
        BY DEF IntentsMove, NothingApplied
    <2>3. intent[j][k][r].old \in Markers
        BY DEF EpTypes, Intents
    <2>4. PICK m \in Markers : m = MarkerFor(j, k, r, intent[j][k][r].old)
        <3>1. intent[j][k][r].old.epoch + 1 \in Nat /\ r \in 0..MaxRev /\ j \in Inst \cup {0}
            <4>1. intent[j][k][r].old.epoch \in Nat
                BY <2>3 DEF Markers
            <4>2. r \in 0..MaxRev
                BY EpBounds
            <4> QED
                BY <4>1, <4>2
        <3>2. /\ [owner |-> j, epoch |-> 1, by |-> r] \in Markers
              /\ [owner |-> j, epoch |-> intent[j][k][r].old.epoch + 1, by |-> r] \in Markers
            BY <3>1 DEF Markers
        <3>3. MarkerFor(j, k, r, intent[j][k][r].old) \in Markers
            BY <3>2 DEF MarkerFor
        <3> QED
            BY <3>2, <3>3
    <2>5. CASE intent'[j][k][r].st = "FILESYSTEM_APPLIED"
        <3>1. Published(m)
            BY <2>1, <2>2, <2>4, <2>5 DEF IntentFits
        <3>2. Published(m)'
            BY <3>1, PublishedStays
        <3>3. m = MarkerFor(j, k, r, intent'[j][k][r].old)
            BY <2>2, <2>4, <2>5 DEF OpenStates
        <3> QED
            BY <2>1, <2>2, <3>2, <3>3 DEF IntentFits, Published
    <2>6. CASE intent'[j][k][r].st # "FILESYSTEM_APPLIED"
        BY <2>1, <2>2, <2>6 DEF IntentFits
    <2> QED
        BY <2>5, <2>6
<1> QED
    BY <1>1, <1>2 DEF ActShape, IntentShape

\* The conjuncts a step that grants, publishes and classifies nothing leaves true.
Still ==
    /\ UNCHANGED <<area, marker, obs, cls, granted, ctr, lease, ev>>
    /\ \A j \in Inst : lock = <<j, "run">> => lock' = lock
\* Parts that only the marker, the leases and the catalogs can break.
LEMMA StillHolds ==
    ASSUME EpInv, Still
    PROVE  (AreaShape /\ ObsShape /\ GrantShape /\ WriterOwnsMarker /\ EvidenceWasPublished)'
<1>1. AreaShape'
    BY DEF EpInv, AreaShape, Still
<1>2. ObsShape'
    BY DEF EpInv, ObsShape, Still
<1>3. GrantShape'
    BY DEF EpInv, GrantShape, Still
<1>4. WriterOwnsMarker'
    BY DEF EpInv, WriterOwnsMarker, Still
<1>5. EvidenceWasPublished'
    BY DEF EpInv, EvidenceWasPublished, Still
<1> QED
    BY <1>1, <1>2, <1>3, <1>4, <1>5
\* An unchanged marker is a move.
LEMMA StillMoves ==
    ASSUME UNCHANGED <<area, marker>>
    PROVE  MarkerMoves
  BY DEF MarkerMoves
\* Unchanged intents are a move, and apply nothing.
LEMMA Unwritten ==
    ASSUME intent' = intent
    PROVE  IntentsMove /\ NothingApplied
  BY DEF IntentsMove, NothingApplied

\* A step of one thread that leaves the folder and the catalog as they are, but
\* for the staging directory, the lock and one intent.
Aside(i, a) ==
    /\ UNCHANGED <<area, marker, recov, ejob, bind, obs, ev, cls, lease, ctr, granted>>
    /\ epFaults' \in 0..MaxEpFaults /\ rounds' \in 0..MaxRounds
    /\ staging' \in [Inst -> Stagings] /\ lock' \in Holders
    /\ lock' = lock \/ lock = Free \/ lock = <<i, a>>
\* Such a step keeps the invariant if the thread still knows enough.
LEMMA QuietStep ==
    ASSUME EpInv, NEW i \in Inst, NEW a \in Actors, Aside(i, a),
           act' \in [Inst -> [Actors -> Acts]], ActFits(i, a)', OnlyActor(i, a),
           intent' \in [Inst -> [EpKinds -> [Revs -> Intents]]], IntentsMove, NothingApplied
    PROVE  EpInv'
<1>1. EpTypes'
    BY DEF EpInv, EpTypes, Aside
<1>2. Still
    BY DEF Still, Aside, Actors, Free
<1>3. MarkerMoves
    BY StillMoves DEF Aside
<1>4. \A j \in Inst, b \in Actors : <<j, b>> # <<i, a>> => LocksStay(j, b)
    BY DEF LocksStay, Aside, Actors, Free
<1>5. IntentShape' /\ ActShape'
    BY <1>1, <1>3, <1>4, SagasStay DEF EpInv
<1> QED
    BY <1>1, <1>2, <1>5, StillHolds DEF EpInv

\* So does a failure.
LEMMA QuietFail ==
    ASSUME EpInv, NEW i \in Inst, NEW a \in Actors, Aside(i, a), NEW b \in BOOLEAN,
           act[i][a].pc \notin Resting, act[i][a].pc # "save", Failed(i, a, b)
    PROVE  EpInv'
<1>1. EpTypes /\ ActFits(i, a)
    BY DEF EpInv, ActShape
<1>2. /\ intent' \in [Inst -> [EpKinds -> [Revs -> Intents]]]
      /\ IntentsMove /\ NothingApplied /\ EndAct(i, a)
    BY <1>1, FailedShape
<1>3. ActFits(i, a)' /\ OnlyActor(i, a) /\ act' \in [Inst -> [Actors -> Acts]]
    BY <1>1, <1>2, EndFits
<1> QED
    BY <1>2, <1>3, QuietStep

\* So does an end.
LEMMA QuietEnd ==
    ASSUME EpInv, NEW i \in Inst, NEW a \in Actors, Aside(i, a), EndAct(i, a),
           UNCHANGED intent
    PROVE  EpInv'
<1>1. EpTypes /\ ActFits(i, a) /\ intent' \in [Inst -> [EpKinds -> [Revs -> Intents]]]
    BY DEF EpInv, ActShape, EpTypes
<1>2. IntentsMove /\ NothingApplied
    BY Unwritten
<1>3. ActFits(i, a)' /\ OnlyActor(i, a) /\ act' \in [Inst -> [Actors -> Acts]]
    BY <1>1, <1>2, EndFits
<1> QED
    BY <1>1, <1>2, <1>3, QuietStep

\* So does going on, to a step whose needs are met.
LEMMA QuietGoto ==
    ASSUME EpInv, NEW i \in Inst, NEW a \in Actors, Aside(i, a),
           NEW pc \in {"stage", "publish", "replace", "verify", "mark", "commit"},
           act[i][a].pc \notin Resting, act[i][a].pc \notin {"save", "commit"},
           Goto(i, a, pc), UNCHANGED intent,
           pc \in {"stage", "publish"} => act[i][a].k = "register",
           pc = "replace" =>
             /\ act[i][a].k = "takeover" /\ lock' = <<i, a>>
             /\ area = "ok" /\ marker = act[i][a].old /\ act[i][a].old.owner \notin recov,
           pc = "verify" /\ act[i][a].k = "takeover" =>
             lock' = <<i, a>> /\ area = "ok" /\ marker = Prepared(i, a),
           pc = "mark" => Published(Prepared(i, a))
    PROVE  EpInv'
<1>1. EpTypes /\ ActFits(i, a) /\ intent' \in [Inst -> [EpKinds -> [Revs -> Intents]]]
    BY DEF EpInv, ActShape, EpTypes
<1>2. IntentsMove /\ NothingApplied
    BY Unwritten
<1>3. area' = area /\ marker' = marker /\ recov' = recov
    BY DEF Aside
<1>4. ActFits(i, a)' /\ OnlyActor(i, a) /\ act' \in [Inst -> [Actors -> Acts]]
    BY <1>1, <1>2, <1>3, GotoFits DEF Published
<1> QED
    BY <1>1, <1>2, <1>4, QuietStep

\* Registering.
LEMMA ApplyRegisterStep ==
    ASSUME EpInv, NEW i \in Inst, NEW a \in Actors, ApplyRegister(i, a)
    PROVE  EpInv'
<1>1. /\ act[i][a].pc \notin Resting /\ act[i][a].pc \notin {"save", "commit"}
      /\ act[i][a].k = "register"
    BY DEF ApplyRegister, Resting
<1>2. Aside(i, a)
    BY DEF ApplyRegister, Aside, EpInv, EpTypes, leaseVars, Stagings
<1>3. CASE Failed(i, a, TRUE)
    BY <1>1, <1>2, <1>3, QuietFail
<1>4. CASE Goto(i, a, "verify") /\ UNCHANGED intent
    BY <1>1, <1>2, <1>4, QuietGoto
<1>5. CASE Goto(i, a, "stage") /\ UNCHANGED intent
    BY <1>1, <1>2, <1>5, QuietGoto
<1> QED
    BY <1>3, <1>4, <1>5 DEF ApplyRegister

\* The staged area is nobody's yet.
LEMMA MaterializeStep ==
    ASSUME EpInv, NEW i \in Inst, NEW a \in Actors, MaterializeStaging(i, a)
    PROVE  EpInv'
<1>1. /\ act[i][a].pc \notin Resting /\ act[i][a].pc \notin {"save", "commit"}
      /\ act[i][a].k = "register"
    BY DEF MaterializeStaging, Resting, EpInv, ActShape, ActFits
<1>2. Aside(i, a)
    BY DEF MaterializeStaging, Aside, EpInv, EpTypes, leaseVars, Stagings
<1>3. CASE Failed(i, a, TRUE)
    BY <1>1, <1>2, <1>3, QuietFail
<1>4. CASE Goto(i, a, "publish") /\ UNCHANGED intent
    BY <1>1, <1>2, <1>4, QuietGoto
<1> QED
    BY <1>3, <1>4 DEF MaterializeStaging

\* A published area is verified, or the attempt ends.
LEMMA VerifyAreaStep ==
    ASSUME EpInv, NEW i \in Inst, NEW a \in Actors, VerifyArea(i, a)
    PROVE  EpInv'
<1>1. act[i][a].pc \notin Resting /\ act[i][a].pc \notin {"save", "commit"}
    BY DEF VerifyArea, Resting
<1>2. Aside(i, a)
    BY DEF VerifyArea, Aside, EpInv, EpTypes, leaseVars, fsVars
<1>3. CASE Failed(i, a, TRUE)
    BY <1>1, <1>2, <1>3, QuietFail
<1>4. CASE Goto(i, a, "mark") /\ UNCHANGED intent /\ area = "ok" /\ marker = Prepared(i, a)
    BY <1>1, <1>2, <1>4, QuietGoto DEF Published
<1> QED
    BY <1>3, <1>4 DEF VerifyArea

\* Taking over.
LEMMA ApplyTakeoverStep ==
    ASSUME EpInv, NEW i \in Inst, NEW a \in Actors, ApplyTakeover(i, a)
    PROVE  EpInv'
<1>1. /\ act[i][a].pc \notin Resting /\ act[i][a].pc \notin {"save", "commit"}
      /\ act[i][a].k = "takeover"
    BY DEF ApplyTakeover, Resting
<1>2. Aside(i, a)
    <2>1. <<i, a>> \in Holders
        BY DEF Holders, Actors
    <2>2. lock' = lock \/ (lock = Free /\ lock' = <<i, a>>)
        BY DEF ApplyTakeover
    <2> QED
        BY <2>1, <2>2 DEF ApplyTakeover, Aside, EpInv, EpTypes, leaseVars, fsVars
<1>3. CASE Failed(i, a, TRUE) \/ Failed(i, a, FALSE)
    BY <1>1, <1>2, <1>3, QuietFail
<1>4. CASE /\ Goto(i, a, "verify") /\ UNCHANGED intent
           /\ lock' = <<i, a>> /\ area = "ok" /\ marker = Prepared(i, a)
    BY <1>1, <1>2, <1>4, QuietGoto
<1>5. CASE /\ Goto(i, a, "replace") /\ UNCHANGED intent
           /\ lock' = <<i, a>> /\ area = "ok" /\ marker = act[i][a].old
           /\ act[i][a].old.owner \notin recov
    BY <1>1, <1>2, <1>5, QuietGoto
<1> QED
    BY <1>3, <1>4, <1>5 DEF ApplyTakeover

\* A verified takeover gives the lock of the folder back.
LEMMA VerifyTakeoverStep ==
    ASSUME EpInv, NEW i \in Inst, NEW a \in Actors, VerifyTakeover(i, a)
    PROVE  EpInv'
<1>1. act[i][a].pc \notin Resting /\ act[i][a].pc \notin {"save", "commit"}
    BY DEF VerifyTakeover, Resting
<1>2. Aside(i, a)
    BY DEF VerifyTakeover, Aside, EpInv, EpTypes, leaseVars, fsVars, catVars, Holders
<1>3. Published(Prepared(i, a))
    BY DEF VerifyTakeover, EpInv, ActShape, ActFits, Published
<1> QED
    BY <1>1, <1>2, <1>3, QuietGoto DEF VerifyTakeover, catVars

\* The marker is replaced under the lock, and nobody holds a lease of it.
LEMMA ReplaceStep ==
    ASSUME EpInv, NEW i \in Inst, NEW a \in Actors, ReplaceMarker(i, a)
    PROVE  EpInv'
<1> DEFINE w == act[i][a]
<1>1. /\ EpTypes /\ ActFits(i, a) /\ w.pc = "replace" /\ Goto(i, a, "verify")
      /\ marker' = Prepared(i, a)
      /\ UNCHANGED <<area, staging, leaseVars, catVars, lock, cls, epFaults, rounds>>
    BY DEF ReplaceMarker, EpInv, ActShape
<1>2. /\ w.k = "takeover" /\ lock = <<i, a>> /\ area = "ok" /\ marker = w.old
      /\ w.pc \notin Resting /\ w.pc \notin {"save", "commit"}
    BY <1>1 DEF ActFits, Resting
<1>3. /\ w \in Acts /\ Prepared(i, a) \in Markers
      /\ marker'.owner = i /\ marker'.epoch = marker.epoch + 1 /\ marker.epoch \in Nat
    <2>1. w \in Acts /\ Prepared(i, a) \in Markers
        BY <1>1, <1>2, AtWork
    <2>2. marker.epoch \in Nat
        BY <1>1 DEF EpTypes, Markers
    <2> QED
        BY <1>1, <1>2, <2>1, <2>2 DEF Prepared
<1>4. IntentsMove /\ NothingApplied /\ MarkerMoves
    BY <1>1, <1>2, <1>3, Unwritten DEF catVars, MarkerMoves
<1>5. ActFits(i, a)' /\ OnlyActor(i, a) /\ act' \in [Inst -> [Actors -> Acts]]
    BY <1>1, <1>2, <1>4, GotoFits
<1>6. EpTypes'
    BY <1>1, <1>3, <1>5 DEF EpTypes, leaseVars, catVars
<1>7. IntentShape' /\ ActShape'
    <2>1. \A j \in Inst, b \in Actors : <<j, b>> # <<i, a>> => LocksStay(j, b)
        BY <1>2 DEF LocksStay
    <2> QED
        BY <1>1, <1>4, <1>5, <1>6, <2>1, SagasStay DEF EpInv
<1>8. AreaShape' /\ ObsShape'
    BY <1>1, <1>2, <1>3 DEF EpInv, AreaShape, ObsShape, catVars
<1>9. GrantShape'
    BY <1>1, <1>3 DEF EpInv, GrantShape, leaseVars, EpTypes, Counters
<1>10. WriterOwnsMarker'
    BY <1>1, <1>2 DEF EpInv, WriterOwnsMarker, leaseVars, Actors
<1>11. EvidenceWasPublished'
    <2>1. ASSUME NEW j \in Inst, ev'[j] # NoMarker
          PROVE  ev'[j].owner = j /\ area' = "ok"
                 /\ (marker' = ev'[j] \/ marker'.epoch > ev'[j].epoch)
        <3>1. /\ ev'[j] = ev[j] /\ ev[j].owner = j /\ ev[j].epoch \in Nat
              /\ marker = ev[j] \/ marker.epoch > ev[j].epoch
            BY <1>1, <2>1 DEF EpInv, EvidenceWasPublished, catVars, EpTypes, Markers
        <3> QED
            BY <1>1, <1>2, <1>3, <3>1
    <2> QED
        BY <2>1 DEF EvidenceWasPublished
<1> QED
    BY <1>6, <1>7, <1>8, <1>9, <1>10, <1>11 DEF EpInv

\* An area is published where there was none, so nobody holds a lease.
LEMMA PublishStep ==
    ASSUME EpInv, NEW i \in Inst, NEW a \in Actors, PublishArea(i, a)
    PROVE  EpInv'
<1> DEFINE w == act[i][a]
<1>1. /\ EpTypes /\ ActFits(i, a) /\ w.k = "register"
      /\ w.pc \notin Resting /\ w.pc \notin {"save", "commit"}
    BY DEF PublishArea, EpInv, ActShape, ActFits, Resting
<1>2. CASE \E b \in BOOLEAN : Failed(i, a, b) /\ UNCHANGED fsVars
    <2>1. Aside(i, a)
        BY <1>2 DEF PublishArea, Aside, EpInv, EpTypes, leaseVars, fsVars
    <2> QED
        BY <1>1, <1>2, <2>1, QuietFail
<1>3. CASE /\ area = "absent" /\ area' = "ok" /\ marker' = Prepared(i, a)
           /\ staging' = [staging EXCEPT ![i] = "none"]
           /\ Goto(i, a, "verify") /\ UNCHANGED intent
    <2>1. UNCHANGED <<leaseVars, catVars, lock, cls, epFaults, rounds>>
        BY <1>3 DEF PublishArea, catVars
    <2>2. /\ Prepared(i, a) \in Markers /\ marker'.owner = i /\ marker'.epoch = 1
          /\ marker = NoMarker
        BY <1>1, <1>3, AtWork DEF Prepared, EpInv, AreaShape
    <2>3. IntentsMove /\ NothingApplied /\ MarkerMoves
        BY <1>3, Unwritten DEF MarkerMoves
    <2>4. ActFits(i, a)' /\ OnlyActor(i, a) /\ act' \in [Inst -> [Actors -> Acts]]
        BY <1>1, <1>3, <2>3, GotoFits
    <2>5. EpTypes'
        BY <1>1, <1>3, <2>1, <2>2, <2>4 DEF EpTypes, leaseVars, catVars, Areas, Stagings
    <2>6. IntentShape' /\ ActShape'
        <3>1. \A j \in Inst, b \in Actors : <<j, b>> # <<i, a>> => LocksStay(j, b)
            BY <1>3 DEF LocksStay
        <3> QED
            BY <1>1, <2>3, <2>4, <2>5, <3>1, SagasStay DEF EpInv
    <2>7. AreaShape' /\ ObsShape'
        BY <1>3, <2>1, <2>2 DEF EpInv, AreaShape, ObsShape, catVars
    <2>8. GrantShape'
        BY <1>1, <2>1, <2>2, EpConstants DEF EpInv, GrantShape, leaseVars, EpTypes, Counters
    <2>9. WriterOwnsMarker'
        BY <1>3, <2>1 DEF EpInv, WriterOwnsMarker, leaseVars
    <2>10. EvidenceWasPublished'
        BY <1>3, <2>1 DEF EpInv, EvidenceWasPublished, catVars
    <2> QED
        BY <2>5, <2>6, <2>7, <2>8, <2>9, <2>10 DEF EpInv
<1> QED
    BY <1>2, <1>3 DEF PublishArea

\* Both sagas.
LEMMA MarkStep ==
    ASSUME EpInv, NEW i \in Inst, NEW a \in Actors, MarkApplied(i, a)
    PROVE  EpInv'
<1> DEFINE w == act[i][a]
<1>1. /\ EpTypes /\ ActFits(i, a) /\ w.pc = "mark"
      /\ w.pc \notin Resting /\ w.pc \notin {"save", "commit"}
    BY DEF MarkApplied, EpInv, ActShape, ActFits, Resting
<1>2. Aside(i, a)
    BY DEF MarkApplied, Aside, EpInv, EpTypes, leaseVars, fsVars
<1>3. CASE \E b \in BOOLEAN : Failed(i, a, b)
    BY <1>1, <1>2, <1>3, QuietFail
<1>4. CASE Goto(i, a, "commit") /\ UNCHANGED intent
    BY <1>1, <1>2, <1>4, QuietGoto
<1>5. CASE /\ Mine(i, a).st = "PREPARED" /\ Goto(i, a, "commit")
           /\ SetIntent(i, a, [Mine(i, a) EXCEPT !.st = "FILESYSTEM_APPLIED"])
    <2> DEFINE in == [intent[i][w.k][w.r] EXCEPT !.st = "FILESYSTEM_APPLIED"]
    <2>1. /\ w.k \in EpKinds /\ w.r \in Revs /\ intent[i][w.k][w.r] \in Intents
          /\ intent[i][w.k][w.r].st = "PREPARED" /\ intent[i][w.k][w.r].old = w.old
          /\ Prepared(i, a) = MarkerFor(i, w.k, w.r, w.old)
        BY <1>1, <1>5, AtWork DEF Mine, OpenStates
    <2>2. /\ in \in Intents /\ in.st = "FILESYSTEM_APPLIED" /\ in.old = w.old
        BY <2>1 DEF Intents, IntentStates
    <2>3. intent' = [intent EXCEPT ![i][w.k][w.r] = in]
        BY <1>5 DEF SetIntent, Mine
    <2> HIDE DEF in
    <2>4. /\ intent' \in [Inst -> [EpKinds -> [Revs -> Intents]]]
          /\ intent'[i][w.k][w.r] = in
          /\ \A j \in Inst, l \in EpKinds, s \in Revs :
               <<j, l, s>> # <<i, w.k, w.r>> => intent'[j][l][s] = intent[j][l][s]
        <3>1. PICK k \in EpKinds, r \in Revs : k = w.k /\ r = w.r
            BY <2>1
        <3>2. intent' = [intent EXCEPT ![i][k][r] = in]
            BY <2>3, <3>1
        <3>3. /\ intent' \in [Inst -> [EpKinds -> [Revs -> Intents]]]
              /\ intent'[i][k][r] = in
              /\ \A j \in Inst, l \in EpKinds, s \in Revs :
                   <<j, l, s>> # <<i, k, r>> => intent'[j][l][s] = intent[j][l][s]
            BY <1>1, <2>2, <3>2 DEF EpTypes
        <3> QED
            BY <3>1, <3>3
    <2>5. IntentsMove
        <3>1. ASSUME NEW j \in Inst, NEW l \in EpKinds, NEW s \in Revs
              PROVE  /\ intent'[j][l][s].st = "none" <=> intent[j][l][s].st = "none"
                     /\ intent'[j][l][s].st \in OpenStates =>
                          /\ intent[j][l][s].st \in OpenStates
                          /\ intent'[j][l][s].old = intent[j][l][s].old
            BY <2>1, <2>2, <2>4 DEF OpenStates
        <3> QED
            BY <3>1 DEF IntentsMove
    <2>6. MarkerMoves /\ area' = area /\ marker' = marker
        BY <1>2, StillMoves DEF Aside
    <2>7. ActFits(i, a)' /\ OnlyActor(i, a) /\ act' \in [Inst -> [Actors -> Acts]]
        BY <1>1, <1>5, <2>5, GotoFits
    <2>8. EpTypes'
        BY <1>1, <1>2, <2>4, <2>7 DEF EpTypes, Aside
    <2>9. ActShape'
        <3>1. ASSUME NEW j \in Inst, NEW b \in Actors PROVE ActFits(j, b)'
            <4>1. CASE <<j, b>> = <<i, a>>
                BY <2>7, <4>1
            <4>2. CASE <<j, b>> # <<i, a>>
                <5>1. LocksStay(j, b)
                    BY <1>2, <4>2 DEF LocksStay, Aside, Actors, Free
                <5>2. act'[j][b] = act[j][b] /\ ActFits(j, b)
                    BY <2>7, <4>2 DEF OnlyActor, EpInv, ActShape
                <5> QED
                    BY <1>1, <2>5, <2>6, <2>8, <5>1, <5>2, FitsStay
            <4> QED
                BY <4>1, <4>2
        <3> QED
            BY <3>1 DEF ActShape
    <2>10. IntentShape'
        <3>1. ASSUME NEW j \in Inst, NEW l \in EpKinds, NEW s \in Revs
              PROVE  IntentFits(j, l, s)'
            <4>1. IntentFits(j, l, s)
                BY DEF EpInv, IntentShape
            <4>2. CASE <<j, l, s>> = <<i, w.k, w.r>>
                <5>1. Published(MarkerFor(i, w.k, w.r, w.old))
                    BY <1>1, <2>1 DEF ActFits
                <5>2. /\ j = i /\ l = w.k /\ s = w.r
                      /\ intent'[j][l][s].old = w.old
                    BY <2>2, <2>4, <4>2
                <5>3. l = "takeover" => w.old.owner # i
                    BY <2>1, <4>1, <5>2 DEF IntentFits, OpenStates
                <5> QED
                    BY <2>6, <5>1, <5>2, <5>3 DEF IntentFits, Published, MarkerFor
            <4>3. CASE <<j, l, s>> # <<i, w.k, w.r>>
                BY <2>4, <2>6, <4>1, <4>3 DEF IntentFits, Published, MarkerFor
            <4> QED
                BY <4>2, <4>3
        <3> QED
            BY <3>1 DEF IntentShape
    <2>11. Still
        BY <1>2 DEF Still, Aside, Actors, Free
    <2> QED
        BY <2>8, <2>9, <2>10, <2>11, StillHolds DEF EpInv
<1> QED
    BY <1>3, <1>4, <1>5 DEF MarkApplied

\* A committed intent becomes the evidence of its installation.
LEMMA CommitStep ==
    ASSUME EpInv, NEW i \in Inst, NEW a \in Actors, CommitIntent(i, a)
    PROVE  EpInv'
<1> DEFINE w == act[i][a]
<1>1. /\ EpTypes /\ ActFits(i, a) /\ w.pc = "commit" /\ w.pc \notin Resting
      /\ UNCHANGED <<fsVars, leaseVars, lock, cls, epFaults, rounds>>
    BY DEF CommitIntent, EpInv, ActShape, Resting
<1>2. CASE \/ EndAct(i, a) /\ UNCHANGED <<ejob, bind, obs, ev, intent>>
           \/ \E b \in BOOLEAN : Failed(i, a, b) /\ UNCHANGED <<ejob, bind, obs, ev>>
    <2>1. Aside(i, a)
        BY <1>1, <1>2 DEF Aside, EpTypes, leaseVars, fsVars
    <2> QED
        BY <1>1, <1>2, <2>1, QuietFail, QuietEnd
<1>3. CASE /\ Mine(i, a).st = "FILESYSTEM_APPLIED" /\ Current(i, w.r)
           /\ NewEndpointRevision(i, a) /\ NewJobRevision(i)
           /\ SetIntent(i, a, [NoIntent EXCEPT !.st = "COMMITTED"]) /\ EndAct(i, a)
    <2> DEFINE in == [NoIntent EXCEPT !.st = "COMMITTED"]
    <2>1. PICK k \in EpKinds, r \in Revs : k = w.k /\ r = w.r
        BY <1>1, AtWork
    <2>2. /\ intent[i][k][r] \in Intents /\ intent[i][k][r].st = "FILESYSTEM_APPLIED"
          /\ intent[i][k][r].old = w.old /\ Prepared(i, a) \in Markers
          /\ Prepared(i, a) = MarkerFor(i, k, r, w.old)
        BY <1>1, <1>3, <2>1, AtWork DEF Mine, OpenStates
    <2>3. in \in Intents /\ in.st = "COMMITTED"
        BY EpConstants DEF NoIntent, Intents, IntentStates
    <2>4. intent' = [intent EXCEPT ![i][k][r] = in]
        BY <1>3, <2>1 DEF SetIntent
    <2> HIDE DEF in
    <2>5. /\ intent' \in [Inst -> [EpKinds -> [Revs -> Intents]]]
          /\ intent'[i][k][r] = in
          /\ \A j \in Inst, l \in EpKinds, s \in Revs :
               <<j, l, s>> # <<i, k, r>> => intent'[j][l][s] = intent[j][l][s]
        BY <1>1, <2>3, <2>4 DEF EpTypes
    <2>6. IntentsMove /\ NothingApplied
        <3>1. ASSUME NEW j \in Inst, NEW l \in EpKinds, NEW s \in Revs
              PROVE  /\ intent'[j][l][s].st = "none" <=> intent[j][l][s].st = "none"
                     /\ intent'[j][l][s].st \in OpenStates =>
                          /\ intent[j][l][s].st \in OpenStates
                          /\ intent'[j][l][s].old = intent[j][l][s].old
                     /\ intent'[j][l][s].st = "FILESYSTEM_APPLIED"
                          => intent[j][l][s].st = "FILESYSTEM_APPLIED"
            BY <2>2, <2>3, <2>5 DEF OpenStates
        <3> QED
            BY <3>1 DEF IntentsMove, NothingApplied
    <2>7. ActFits(i, a)' /\ OnlyActor(i, a) /\ act' \in [Inst -> [Actors -> Acts]]
        BY <1>1, <1>3, <2>6, EndFits
    <2>8. MarkerMoves
        BY <1>1, StillMoves DEF fsVars
    <2>9. /\ ejob' \in [Inst -> Jobs] /\ bind' \in [Inst -> Bindings]
          /\ obs' \in [Inst -> Observations] /\ ev' \in [Inst -> Markers]
        <3>1. ejob[i].rev \in 1..MaxRev /\ ejob[i] \in Jobs
            BY <1>1, <1>3, <2>1 DEF Current, EpTypes, Revs
        <3>2. [ejob[i] EXCEPT !.rev = ejob[i].rev + 1] \in Jobs
            BY <3>1, EpBounds DEF Jobs
        <3>3. ejob' = [ejob EXCEPT ![i] = [ejob[i] EXCEPT !.rev = ejob[i].rev + 1]]
            BY <1>3 DEF NewJobRevision
        <3> QED
            BY <1>1, <1>3, <2>2, <3>2, <3>3, EpConstants
               DEF NewEndpointRevision, NewJobRevision, EpTypes, Bindings
    <2>10. EpTypes'
        BY <1>1, <2>5, <2>7, <2>9 DEF EpTypes, fsVars, leaseVars
    <2>11. IntentShape' /\ ActShape'
        <3>1. \A j \in Inst, b \in Actors : <<j, b>> # <<i, a>> => LocksStay(j, b)
            BY <1>1 DEF LocksStay, fsVars, leaseVars
        <3> QED
            BY <1>1, <2>6, <2>7, <2>8, <2>10, <3>1, SagasStay DEF EpInv
    <2>12. AreaShape' /\ GrantShape' /\ WriterOwnsMarker'
        BY <1>1 DEF EpInv, AreaShape, GrantShape, WriterOwnsMarker, fsVars, leaseVars
    <2>13. ObsShape'
        BY <1>1, <1>3, EpConstants DEF EpInv, ObsShape, NewEndpointRevision, EpTypes
    <2>14. EvidenceWasPublished'
        <3>1. Published(Prepared(i, a)) /\ Prepared(i, a).owner = i
            BY <2>2 DEF EpInv, IntentShape, IntentFits, MarkerFor
        <3>2. ev'[i] = Prepared(i, a) /\ \A j \in Inst \ {i} : ev'[j] = ev[j]
            BY <1>1, <1>3 DEF NewEndpointRevision, EpTypes
        <3> QED
            BY <1>1, <3>1, <3>2 DEF EpInv, EvidenceWasPublished, Published, fsVars
    <2> QED
        BY <2>10, <2>11, <2>12, <2>13, <2>14 DEF EpInv
<1> QED
    BY <1>2, <1>3 DEF CommitIntent, CommitReady

\* A step fails and its intent is retried or blocked.
LEMMA StepFailsStep ==
    ASSUME EpInv, NEW i \in Inst, NEW a \in Actors, StepFails(i, a)
    PROVE  EpInv'
<1>1. act[i][a].pc \notin Resting /\ act[i][a].pc # "save"
    BY DEF StepFails, Resting
<1>2. epFaults' \in 0..MaxEpFaults
    BY EpBounds DEF StepFails, EpFault, EpInv, EpTypes
<1>3. staging' \in [Inst -> Stagings]
    BY DEF StepFails, EpInv, EpTypes, Stagings
<1>4. Aside(i, a)
    BY <1>2, <1>3 DEF StepFails, Aside, EpInv, EpTypes, leaseVars, Holders
<1> QED
    BY <1>1, <1>4, QuietFail DEF StepFails

\* Beginning a saga.
LEMMA StartStep ==
    ASSUME EpInv, NEW i \in Inst, NEW k \in EpKinds, NEW r \in Revs, StartCommand(i, k, r)
    PROVE  EpInv'
<1> DEFINE w == act'[i]["cmd"]
<1>1. /\ EpTypes /\ intent' = intent /\ intent[i][k][r] \in Intents
      /\ intent' \in [Inst -> [EpKinds -> [Revs -> Intents]]]
      /\ r \in 0..MaxRev /\ marker \in Markers /\ NoMarker \in Markers
    BY EpBounds, EpConstants DEF StartCommand, EpInv, EpTypes, catVars
<1>2. Aside(i, "cmd")
    BY DEF StartCommand, Aside, EpInv, EpTypes, leaseVars, catVars, fsVars
<1>3. IntentsMove /\ NothingApplied
    BY <1>1, Unwritten
<1>4. CASE /\ intent[i][k][r].st \in OpenStates
           /\ act' = [act EXCEPT ![i]["cmd"] = [IdleAct EXCEPT !.k = k, !.r = r,
                        !.old = intent[i][k][r].old,
                        !.pc = IF intent[i][k][r].st = "PREPARED" THEN "apply" ELSE "commit"]]
    <2> DEFINE v == [IdleAct EXCEPT !.k = k, !.r = r, !.old = intent[i][k][r].old,
                        !.pc = IF intent[i][k][r].st = "PREPARED" THEN "apply" ELSE "commit"]
    <2>1. /\ v \in Acts /\ v.k = k /\ v.r = r /\ v.old = intent[i][k][r].old
          /\ v.pc \in {"apply", "commit"} /\ v.todo = {}
        BY <1>1, EpConstants DEF IdleAct, Acts, EpPcs, Intents
    <2>2. act' = [act EXCEPT ![i]["cmd"] = v]
        BY <1>4
    <2> HIDE DEF v
    <2>3. act' \in [Inst -> [Actors -> Acts]] /\ w = v /\ OnlyActor(i, "cmd")
        BY <1>1, <2>1, <2>2, ActPut DEF Actors
    <2>4. k = "takeover" => intent[i][k][r].old.owner # i
        BY <1>4 DEF EpInv, IntentShape, IntentFits
    <2>5. KnowsIntent(i, "cmd")'
        BY <1>1, <1>4, <2>1, <2>3, <2>4 DEF KnowsIntent, OpenStates
    <2>6. ActFits(i, "cmd")'
        BY <2>1, <2>3, <2>5 DEF ActFits
    <2> QED
        BY <1>1, <1>2, <1>3, <2>3, <2>6, QuietStep DEF Actors
<1>5. CASE /\ intent[i][k][r].st = "none"
           /\ \/ k = "register"
              \/ k = "takeover" /\ TakeoverCandidate(i, r) /\ PrepareTakeover(i)
           /\ act' = [act EXCEPT ![i]["cmd"] = [IdleAct EXCEPT !.k = k, !.r = r, !.pc = "save",
                        !.old = IF k = "takeover" THEN marker ELSE NoMarker]]
    <2> DEFINE v == [IdleAct EXCEPT !.k = k, !.r = r, !.pc = "save",
                        !.old = IF k = "takeover" THEN marker ELSE NoMarker]
    <2>1. /\ v \in Acts /\ v.k = k /\ v.r = r /\ v.pc = "save" /\ v.todo = {}
          /\ k = "takeover" => v.old = marker
        BY <1>1, EpConstants DEF IdleAct, Acts, EpPcs
    <2>2. act' = [act EXCEPT ![i]["cmd"] = v]
        BY <1>5
    <2> HIDE DEF v
    <2>3. act' \in [Inst -> [Actors -> Acts]] /\ w = v /\ OnlyActor(i, "cmd")
        BY <1>1, <2>1, <2>2, ActPut DEF Actors
    <2>4. k = "takeover" => marker.owner # i
        BY <1>5 DEF EpInv, ObsShape, TakeoverCandidate, PrepareTakeover
    <2>5. KnowsIntent(i, "cmd")'
        BY <1>1, <1>5, <2>1, <2>3, <2>4 DEF KnowsIntent, OpenStates
    <2>6. ActFits(i, "cmd")'
        BY <2>1, <2>3, <2>5 DEF ActFits
    <2> QED
        BY <1>1, <1>2, <1>3, <2>3, <2>6, QuietStep DEF Actors
<1> QED
    BY <1>4, <1>5 DEF StartCommand, EpKinds, OpenStates

\* A round lists the intents that are open.
LEMMA BeginStep ==
    ASSUME EpInv, NEW i \in Inst, BeginRound(i)
    PROVE  EpInv'
<1> DEFINE v == [act[i]["rec"] EXCEPT !.pc = "next", !.todo = IF ejob[i].on THEN Open(i) ELSE {}]
<1>1. /\ EpTypes /\ intent' = intent /\ act[i]["rec"] \in Acts
      /\ intent' \in [Inst -> [EpKinds -> [Revs -> Intents]]]
    BY DEF BeginRound, EpInv, EpTypes, catVars, Actors
<1>2. Aside(i, "rec")
    <2>1. rounds' \in 0..MaxRounds
        BY EpBounds DEF BeginRound, EpInv, EpTypes
    <2> QED
        BY <2>1 DEF BeginRound, Aside, EpInv, EpTypes, leaseVars, catVars, fsVars
<1>3. IntentsMove /\ NothingApplied
    BY <1>1, Unwritten
<1>4. /\ v \in Acts /\ v.pc = "next" /\ v.todo \subseteq Open(i)
    BY <1>1 DEF Acts, EpPcs, Open
<1>5. act' = [act EXCEPT ![i]["rec"] = v]
    BY <1>1 DEF BeginRound, EpTypes, Acts, Actors
<1> HIDE DEF v
<1>6. act' \in [Inst -> [Actors -> Acts]] /\ act'[i]["rec"] = v /\ OnlyActor(i, "rec")
    BY <1>1, <1>4, <1>5, ActPut DEF Actors
<1>7. ActFits(i, "rec")'
    BY <1>1, <1>4, <1>6 DEF ActFits, Open, Resting
<1> QED
    BY <1>1, <1>2, <1>3, <1>6, <1>7, QuietStep DEF Actors

\* A round takes the next of its intents.
LEMMA NextStep ==
    ASSUME EpInv, NEW i \in Inst, NextIntent(i)
    PROVE  EpInv'
<1>1. /\ EpTypes /\ ActFits(i, "rec") /\ intent' = intent /\ act[i]["rec"] \in Acts
      /\ intent' \in [Inst -> [EpKinds -> [Revs -> Intents]]]
    BY DEF NextIntent, EpInv, EpTypes, ActShape, catVars, Actors
<1>2. Aside(i, "rec")
    BY DEF NextIntent, Aside, EpInv, EpTypes, leaseVars, catVars, fsVars
<1>3. IntentsMove /\ NothingApplied
    BY <1>1, Unwritten
<1>4. CASE act' = [act EXCEPT ![i]["rec"] = IdleAct]
    <2>1. act' \in [Inst -> [Actors -> Acts]] /\ act'[i]["rec"] = IdleAct /\ OnlyActor(i, "rec")
        BY <1>1, <1>4, EpConstants, ActPut DEF Actors
    <2>2. ActFits(i, "rec")'
        BY <2>1, EpConstants DEF ActFits, Resting
    <2> QED
        BY <1>1, <1>2, <1>3, <2>1, <2>2, QuietStep DEF Actors
<1>5. ASSUME NEW kr \in act[i]["rec"].todo,
             act' = [act EXCEPT ![i]["rec"] =
                 [pc |-> IF intent[i][kr[1]][kr[2]].st = "PREPARED" THEN "apply" ELSE "commit",
                  k |-> kr[1], r |-> kr[2], old |-> intent[i][kr[1]][kr[2]].old,
                  todo |-> act[i]["rec"].todo \ {kr}]]
      PROVE  EpInv'
    <2>1. PICK k \in EpKinds, r \in Revs : k = kr[1] /\ r = kr[2]
        BY <1>1 DEF Acts
    <2> DEFINE v == [pc |-> IF intent[i][k][r].st = "PREPARED" THEN "apply" ELSE "commit",
                     k |-> k, r |-> r, old |-> intent[i][k][r].old,
                     todo |-> act[i]["rec"].todo \ {kr}]
    <2>2. intent[i][k][r] \in Intents /\ intent[i][k][r].st # "none" /\ r \in 0..MaxRev
        BY <1>1, <2>1, EpBounds DEF EpTypes, ActFits
    <2>3. v \in Acts
        BY <1>1, <2>2 DEF Acts, EpPcs, Intents
    <2>4. act' = [act EXCEPT ![i]["rec"] = v]
        BY <1>5, <2>1
    <2>5. /\ v.k = k /\ v.r = r /\ v.old = intent[i][k][r].old
          /\ v.todo = act[i]["rec"].todo \ {kr}
          /\ v.pc \in {"apply", "commit"}
          /\ v.pc = "apply" => intent[i][k][r].st = "PREPARED"
        OBVIOUS
    <2> HIDE DEF v
    <2>6. act' \in [Inst -> [Actors -> Acts]] /\ act'[i]["rec"] = v /\ OnlyActor(i, "rec")
        BY <1>1, <2>3, <2>4, ActPut DEF Actors
    <2>7. v.pc = "apply" /\ k = "takeover" => intent[i][k][r].old.owner # i
        BY <2>5 DEF EpInv, IntentShape, IntentFits, OpenStates
    <2>8. KnowsIntent(i, "rec")'
        BY <1>1, <2>2, <2>5, <2>6, <2>7 DEF KnowsIntent
    <2>9. ActFits(i, "rec")'
        BY <1>1, <2>5, <2>6, <2>8 DEF ActFits
    <2> QED
        BY <1>1, <1>2, <1>3, <2>6, <2>9, QuietStep DEF Actors
<1> QED
    BY <1>4, <1>5 DEF NextIntent

\* A command saves its intent before it touches the folder.
LEMMA SaveStep ==
    ASSUME EpInv, NEW i \in Inst, SaveIntent(i)
    PROVE  EpInv'
<1> DEFINE w == act[i]["cmd"]
<1>1. /\ EpTypes /\ ActFits(i, "cmd") /\ w.pc = "save" /\ w.pc \notin Resting
      /\ KnowsIntent(i, "cmd")
    BY DEF SaveIntent, EpInv, ActShape, ActFits, Resting, Actors
<1>2. Aside(i, "cmd")
    BY DEF SaveIntent, Aside, EpInv, EpTypes, leaseVars, fsVars
<1>3. CASE EndAct(i, "cmd") /\ UNCHANGED intent
    BY <1>2, <1>3, QuietEnd DEF Actors
<1>4. CASE /\ SetIntent(i, "cmd", [st |-> "PREPARED", old |-> w.old, err |-> FALSE])
           /\ Goto(i, "cmd", "apply")
    <2> DEFINE in == [st |-> "PREPARED", old |-> w.old, err |-> FALSE]
    <2>1. PICK k \in EpKinds, r \in Revs : k = w.k /\ r = w.r
        BY <1>1, AtWork DEF Actors
    <2>2. /\ w \in Acts /\ intent[i][k][r].st = "none" /\ (k = "takeover" => w.old.owner # i)
        BY <1>1, <2>1 DEF KnowsIntent, EpTypes, Actors
    <2>3. /\ in \in Intents /\ in.st = "PREPARED" /\ in.old = w.old
        BY <2>2 DEF Intents, IntentStates, Acts
    <2>4. intent' = [intent EXCEPT ![i][k][r] = in]
        BY <1>4, <2>1 DEF SetIntent
    <2> HIDE DEF in
    <2>5. /\ intent' \in [Inst -> [EpKinds -> [Revs -> Intents]]]
          /\ intent'[i][k][r] = in
          /\ \A j \in Inst, l \in EpKinds, s \in Revs :
               <<j, l, s>> # <<i, k, r>> => intent'[j][l][s] = intent[j][l][s]
        BY <1>1, <2>3, <2>4 DEF EpTypes
    <2>6. IntentsGrow
        <3>1. ASSUME NEW j \in Inst, NEW l \in EpKinds, NEW s \in Revs,
                     intent[j][l][s].st # "none"
              PROVE  intent'[j][l][s] = intent[j][l][s]
            BY <2>2, <2>5, <3>1
        <3> QED
            BY <3>1 DEF IntentsGrow
    <2>7. MarkerMoves /\ area' = area /\ marker' = marker
        BY <1>2, StillMoves DEF Aside
    <2>8. /\ act' \in [Inst -> [Actors -> Acts]] /\ OnlyActor(i, "cmd")
          /\ act'[i]["cmd"].pc = "apply" /\ act'[i]["cmd"].k = k /\ act'[i]["cmd"].r = r
          /\ act'[i]["cmd"].old = w.old /\ act'[i]["cmd"].todo = w.todo
        BY <1>1, <1>4, <2>1, GotoPut DEF Actors, EpPcs
    <2>9. EpTypes'
        BY <1>1, <1>2, <2>5, <2>8 DEF EpTypes, Aside
    <2>10. ActFits(i, "cmd")'
        <3>1. KnowsIntent(i, "cmd")'
            BY <2>2, <2>3, <2>5, <2>8 DEF KnowsIntent
        <3>2. \A kr \in w.todo : intent'[i][kr[1]][kr[2]].st # "none"
            BY <1>1, <2>2, <2>6 DEF ActFits, IntentsGrow, Acts
        <3> QED
            BY <2>8, <3>1, <3>2 DEF ActFits
    <2>11. ActShape'
        <3>1. ASSUME NEW j \in Inst, NEW b \in Actors PROVE ActFits(j, b)'
            <4>1. CASE <<j, b>> = <<i, "cmd">>
                BY <2>10, <4>1
            <4>2. CASE <<j, b>> # <<i, "cmd">>
                <5>1. LocksStay(j, b)
                    BY <1>2, <4>2 DEF LocksStay, Aside, Actors, Free
                <5>2. act'[j][b] = act[j][b] /\ ActFits(j, b)
                    BY <2>8, <4>2 DEF OnlyActor, EpInv, ActShape
                <5>3. ASSUME act[j][b].pc = "save"
                      PROVE  intent'[j][act[j][b].k][act[j][b].r].st = "none"
                    <6>1. b = "cmd" /\ j # i
                        BY <4>2, <5>2, <5>3 DEF ActFits
                    <6>2. /\ act[j][b].k \in EpKinds /\ act[j][b].r \in Revs
                          /\ intent[j][act[j][b].k][act[j][b].r].st = "none"
                        BY <1>1, <5>2, <5>3 DEF ActFits, KnowsIntent, EpTypes, Acts, Resting
                    <6> QED
                        BY <2>5, <6>1, <6>2
                <5> QED
                    BY <1>1, <2>6, <2>7, <2>9, <5>1, <5>2, <5>3, KnowledgeStays
            <4> QED
                BY <4>1, <4>2
        <3> QED
            BY <3>1 DEF ActShape
    <2>12. IntentShape'
        <3>1. ASSUME NEW j \in Inst, NEW l \in EpKinds, NEW s \in Revs
              PROVE  IntentFits(j, l, s)'
            <4>1. IntentFits(j, l, s)
                BY DEF EpInv, IntentShape
            <4>2. CASE <<j, l, s>> = <<i, k, r>>
                BY <2>2, <2>3, <2>5, <4>2 DEF IntentFits
            <4>3. CASE <<j, l, s>> # <<i, k, r>>
                BY <2>5, <2>7, <4>1, <4>3 DEF IntentFits, Published, MarkerFor
            <4> QED
                BY <4>2, <4>3
        <3> QED
            BY <3>1 DEF IntentShape
    <2>13. Still
        BY <1>2 DEF Still, Aside, Actors, Free
    <2> QED
        BY <2>9, <2>11, <2>12, <2>13, StillHolds DEF EpInv
<1> QED
    BY <1>3, <1>4 DEF SaveIntent

\* Steps that are of no saga.
LEMMA OthersStay ==
    ASSUME EpInv, EpTypes', UNCHANGED <<act, intent>>, MarkerMoves,
           \A j \in Inst, b \in Actors : LocksStay(j, b)
    PROVE  IntentShape' /\ ActShape'
<1>1. ASSUME NEW j \in Inst, NEW b \in Actors PROVE ActFits(j, b)'
    BY Unwritten, FitsStay DEF EpInv, ActShape
<1>2. ASSUME NEW j \in Inst, NEW l \in EpKinds, NEW s \in Revs PROVE IntentFits(j, l, s)'
    <2>1. IntentFits(j, l, s) /\ intent[j][l][s].old \in Markers
        BY DEF EpInv, IntentShape, EpTypes, Intents
    <2>2. MarkerFor(j, l, s, intent[j][l][s].old).epoch \in Nat
        BY <2>1 DEF MarkerFor, Markers
    <2> QED
        BY <2>1, <2>2 DEF IntentFits, MarkerFor, Published, MarkerMoves, EpInv, EpTypes,
           Markers
<1> QED
    BY <1>1, <1>2 DEF ActShape, IntentShape

\* A host that stops drops its locks and leases, and keeps its catalog.
LEMMA HostStopsStep ==
    ASSUME EpInv, NEW i \in Inst, HostStops(i)
    PROVE  EpInv'
<1>1. /\ EpTypes /\ UNCHANGED <<area, marker, recov, ctr, granted, catVars, rounds>>
      /\ MarkerMoves /\ IntentsMove /\ NothingApplied
    BY Unwritten, StillMoves DEF HostStops, EpInv, catVars
<1> DEFINE v == [IdleAct EXCEPT !.pc = "next", !.todo = IF ejob[i].on THEN Open(i) ELSE {}]
<1>2. v \in Acts /\ v.pc = "next" /\ v.todo \subseteq Open(i)
    BY EpConstants DEF Acts, EpPcs, Open, IdleAct
<1>3. act' = [act EXCEPT ![i] = [a \in Actors |-> IF a = "rec" THEN v ELSE IdleAct]]
    BY DEF HostStops
<1> HIDE DEF v
<1>4. /\ act' \in [Inst -> [Actors -> Acts]] /\ act'[i]["rec"] = v /\ act'[i]["cmd"] = IdleAct
      /\ \A j \in Inst \ {i} : act'[j] = act[j]
    BY <1>1, <1>2, <1>3, EpConstants DEF EpTypes, Actors
<1>5. staging' \in [Inst -> Stagings]
    BY DEF HostStops, EpInv, EpTypes, Stagings
<1>6. epFaults' \in 0..MaxEpFaults
    BY EpBounds DEF HostStops, EpFault, EpInv, EpTypes
<1>7. EpTypes'
    BY <1>1, <1>4, <1>5, <1>6, EpConstants DEF HostStops, EpTypes, catVars, Holders
<1>8. ActShape'
    <2>1. ASSUME NEW j \in Inst, NEW b \in Actors PROVE ActFits(j, b)'
        <3>1. CASE j # i
            <4>1. LocksStay(j, b)
                BY <1>1, <3>1 DEF LocksStay, HostStops
            <4> QED
                BY <1>1, <1>4, <1>7, <3>1, <4>1, FitsStay DEF EpInv, ActShape
        <3>2. CASE j = i /\ b = "cmd"
            BY <1>4, <3>2, EpConstants DEF ActFits, Resting
        <3>3. CASE j = i /\ b = "rec"
            BY <1>1, <1>2, <1>4, <3>3 DEF ActFits, Open, Resting, catVars
        <3> QED
            BY <3>1, <3>2, <3>3 DEF Actors
    <2> QED
        BY <2>1 DEF ActShape
<1>9. IntentShape' /\ AreaShape' /\ GrantShape' /\ EvidenceWasPublished'
    BY <1>1 DEF EpInv, IntentShape, IntentFits, Published, AreaShape, GrantShape,
       EvidenceWasPublished, catVars
<1>10. ObsShape'
    BY <1>1, EpConstants DEF EpInv, ObsShape, HostStops, EpTypes, catVars
<1>11. WriterOwnsMarker'
    <2>1. ASSUME NEW j \in Inst, lease'[j].st = "held"
          PROVE  /\ area' = "ok" /\ marker'.owner = j /\ marker'.epoch = lease'[j].epoch
                 /\ lock' = <<j, "run">>
        <3>1. j # i /\ lease'[j] = lease[j]
            BY <1>1, <2>1, EpConstants DEF HostStops, EpTypes
        <3> QED
            BY <1>1, <2>1, <3>1 DEF EpInv, WriterOwnsMarker, HostStops
    <2> QED
        BY <2>1 DEF WriterOwnsMarker
<1> QED
    BY <1>7, <1>8, <1>9, <1>10, <1>11 DEF EpInv

\* Classifying and editing.
LEMMA LookStep ==
    ASSUME EpInv, NEW i \in Inst,
           \/ Classify(i) \/ ClassifyFails(i) \/ StoreClassification(i)
           \/ EditJob(i) \/ ToggleJob(i)
    PROVE  EpInv'
<1>1. /\ EpTypes /\ UNCHANGED <<area, marker, staging, recov, lock, lease, ctr, granted,
                                ev, intent, act, rounds>>
    BY DEF EpInv, Classify, ClassifyFails, StoreClassification, EditJob, ToggleJob, fsVars,
       leaseVars, catVars
<1>2. epFaults' \in 0..MaxEpFaults
    BY EpBounds DEF EpInv, EpTypes, Classify, ClassifyFails, StoreClassification, EditJob,
       ToggleJob, EpFault
<1>3. /\ cls' \in [Inst -> Classifications]
      /\ \A j \in Inst : cls'[j].saw = "VALID_FOREIGN" => cls'[j].m.owner # j
    <2>1. CASE cls' = [cls EXCEPT ![i] = [pc |-> "store", saw |-> Classified(i),
                          m |-> IF area = "ok" THEN marker ELSE NoMarker, gen |-> ev[i].epoch]]
        <3> DEFINE c == [pc |-> "store", saw |-> Classified(i),
                         m |-> IF area = "ok" THEN marker ELSE NoMarker, gen |-> ev[i].epoch]
        <3>1. Classified(i) \in Seen /\ (Classified(i) = "VALID_FOREIGN" =>
                  area = "ok" /\ marker.owner # i)
            BY <1>1 DEF Classified, Seen, EpTypes, Areas
        <3>2. c \in Classifications /\ (c.saw = "VALID_FOREIGN" => c.m.owner # i)
            BY <1>1, <3>1, EpConstants DEF Classifications, EpTypes, Markers
        <3>3. cls' = [cls EXCEPT ![i] = c]
            BY <2>1
        <3> HIDE DEF c
        <3> QED
            BY <1>1, <3>2, <3>3 DEF EpInv, EpTypes, ObsShape
    <2>2. CASE cls' = [cls EXCEPT ![i] = [pc |-> "store", saw |-> "FAILED", m |-> NoMarker,
                                          gen |-> ev[i].epoch]]
        <3> DEFINE c == [pc |-> "store", saw |-> "FAILED", m |-> NoMarker, gen |-> ev[i].epoch]
        <3>1. c \in Classifications /\ c.saw # "VALID_FOREIGN"
            BY <1>1, EpConstants DEF Classifications, EpTypes, Markers, Seen
        <3>2. cls' = [cls EXCEPT ![i] = c]
            BY <2>2
        <3> HIDE DEF c
        <3> QED
            BY <1>1, <3>1, <3>2 DEF EpInv, EpTypes, ObsShape
    <2>3. CASE cls' = cls \/ cls' = [cls EXCEPT ![i] = NoCls]
        <3>1. /\ cls \in [Inst -> Classifications]
              /\ \A j \in Inst : cls[j].saw = "VALID_FOREIGN" => cls[j].m.owner # j
            BY DEF EpInv, EpTypes, ObsShape
        <3>2. NoCls \in Classifications /\ NoCls.saw # "VALID_FOREIGN"
            BY EpConstants
        <3> QED
            BY <2>3, <3>1, <3>2
    <2> QED
        BY <2>1, <2>2, <2>3 DEF Classify, ClassifyFails, StoreClassification, EditJob,
           ToggleJob
<1>4. /\ obs' \in [Inst -> Observations]
      /\ \A j \in Inst : obs'[j].saw = "VALID_FOREIGN" => obs'[j].m.owner # j
    <2>1. CASE obs' = obs
        BY <1>1, <2>1 DEF EpInv, EpTypes, ObsShape
    <2>2. CASE obs' = [obs EXCEPT ![i] = [saw |-> cls[i].saw, m |-> cls[i].m]]
        <3>1. [saw |-> cls[i].saw, m |-> cls[i].m] \in Observations
            BY <1>1 DEF EpTypes, Classifications, Observations
        <3> QED
            BY <1>1, <2>2, <3>1 DEF EpInv, EpTypes, ObsShape
    <2> QED
        BY <2>1, <2>2 DEF Classify, ClassifyFails, StoreClassification, EditJob, ToggleJob,
           catVars
<1>5. bind' \in [Inst -> Bindings]
    BY <1>1 DEF EpTypes, Bindings, Decided, Classify, ClassifyFails, StoreClassification,
       EditJob, ToggleJob, catVars
<1>6. ejob' \in [Inst -> Jobs]
    <2>1. ejob[i] \in Jobs
        BY <1>1 DEF EpTypes
    <2>2. CASE EditJob(i)
        <3>1. [ejob[i] EXCEPT !.rev = ejob[i].rev + 1] \in Jobs
            BY <2>1, <2>2, EpBounds DEF EditJob, Jobs
        <3>2. ejob' = [ejob EXCEPT ![i] = [ejob[i] EXCEPT !.rev = ejob[i].rev + 1]]
            BY <2>2 DEF EditJob
        <3> QED
            BY <1>1, <3>1, <3>2 DEF EpTypes
    <2>3. CASE ToggleJob(i)
        <3>1. [ejob[i] EXCEPT !.on = ~ejob[i].on] \in Jobs
            BY <2>1 DEF Jobs
        <3>2. ejob' = [ejob EXCEPT ![i] = [ejob[i] EXCEPT !.on = ~ejob[i].on]]
            BY <2>3 DEF ToggleJob
        <3> QED
            BY <1>1, <3>1, <3>2 DEF EpTypes
    <2>4. CASE ejob' = ejob
        BY <1>1, <2>4 DEF EpTypes
    <2> QED
        BY <2>2, <2>3, <2>4 DEF Classify, ClassifyFails, StoreClassification, catVars
<1>7. EpTypes'
    BY <1>1, <1>2, <1>3, <1>4, <1>5, <1>6 DEF EpTypes
<1>8. IntentShape' /\ ActShape'
    BY <1>1, <1>7, OthersStay, StillMoves DEF LocksStay
<1>9. ObsShape'
    BY <1>3, <1>4 DEF ObsShape
<1> QED
    BY <1>1, <1>7, <1>8, <1>9 DEF EpInv, AreaShape, GrantShape, WriterOwnsMarker,
       EvidenceWasPublished

\* Leases.
LEMMA AcquireStep ==
    ASSUME EpInv, NEW i \in Inst, AcquireLease(i)
    PROVE  EpInv'
<1> DEFINE t == Token(i, marker.epoch)
           grant == [epoch |-> marker.epoch, tok |-> t]
<1>1. /\ EpTypes /\ lease[i].st = "none" /\ lock = Free /\ lock' = <<i, "run">>
      /\ area = "ok" /\ marker = ev[i] /\ ev[i] # NoMarker
      /\ t \in 1..MaxTokens
      /\ ctr' = [ctr EXCEPT ![i] = grant] /\ granted' = grant
      /\ lease' = [lease EXCEPT ![i] = [st |-> "held", epoch |-> marker.epoch]]
      /\ UNCHANGED <<area, marker, staging, recov, ejob, bind, obs, ev, intent, act, cls,
                     epFaults, rounds>>
    BY DEF AcquireLease, MarkerIdentity, EpInv, fsVars, catVars
<1>2. marker.epoch \in Nat /\ t \in Nat /\ grant \in Counters /\ grant.epoch = marker.epoch
    BY <1>1, EpBounds DEF EpTypes, Markers, Counters
<1>3. marker.owner = i
    BY <1>1 DEF EpInv, EvidenceWasPublished
<1>4. /\ ctr' \in [Inst -> Counters] /\ granted' \in Counters /\ ctr'[i] = grant
      /\ lease' \in [Inst -> Leases] /\ lock' \in Holders
    BY <1>1, <1>2 DEF EpTypes, Leases, Holders
<1>5. EpTypes'
    BY <1>1, <1>4 DEF EpTypes
<1>6. IntentShape' /\ ActShape'
    BY <1>1, <1>5, OthersStay, StillMoves DEF LocksStay, Free, Actors
<1>7. AreaShape' /\ ObsShape' /\ EvidenceWasPublished'
    BY <1>1 DEF EpInv, AreaShape, ObsShape, EvidenceWasPublished
<1>8. GrantShape'
    BY <1>1, <1>2, <1>3, <1>4 DEF GrantShape
<1>9. WriterOwnsMarker'
    <2>1. ASSUME NEW j \in Inst, lease'[j].st = "held" PROVE j = i
        BY <1>1, <2>1 DEF EpInv, WriterOwnsMarker, EpTypes, Free
    <2> QED
        BY <1>1, <1>3, <2>1 DEF WriterOwnsMarker, EpTypes
<1> QED
    BY <1>5, <1>6, <1>7, <1>8, <1>9 DEF EpInv

\* A lease is given back with its lock.
LEMMA ReleaseStep ==
    ASSUME EpInv, NEW i \in Inst, ReleaseLease(i)
    PROVE  EpInv'
<1>1. /\ EpTypes /\ lock = <<i, "run">> /\ lock' = Free /\ lease' = [lease EXCEPT ![i] = NoLease]
      /\ UNCHANGED <<area, marker, staging, recov, ejob, bind, obs, ev, intent, act, cls,
                     ctr, granted, epFaults, rounds>>
    BY DEF ReleaseLease, EpInv, WriterOwnsMarker, fsVars, catVars
<1>2. EpTypes'
    BY <1>1, EpConstants DEF EpTypes, Holders
<1>3. IntentShape' /\ ActShape'
    BY <1>1, <1>2, OthersStay, StillMoves DEF LocksStay, Actors
<1>4. AreaShape' /\ ObsShape' /\ EvidenceWasPublished' /\ GrantShape'
    BY <1>1 DEF EpInv, AreaShape, ObsShape, EvidenceWasPublished, GrantShape
<1>5. \A j \in Inst : lease'[j].st # "held"
    BY <1>1, EpConstants DEF EpInv, WriterOwnsMarker, EpTypes
<1> QED
    BY <1>2, <1>3, <1>4, <1>5 DEF EpInv, WriterOwnsMarker

\* Recovery data appears and goes under the lock of a run.
LEMMA TouchStep ==
    ASSUME EpInv, NEW i \in Inst, TouchRecovery(i)
    PROVE  EpInv'
<1>1. /\ EpTypes /\ lock = <<i, "run">> /\ recov' \in SUBSET Inst
      /\ UNCHANGED <<area, marker, staging, lock, lease, ejob, bind, obs, ev, intent, act,
                     cls, ctr, granted, epFaults, rounds>>
    BY DEF TouchRecovery, EpInv, EpTypes, WriterOwnsMarker, fsVars, catVars
<1>2. EpTypes'
    BY <1>1 DEF EpTypes
<1>3. IntentShape' /\ ActShape'
    BY <1>1, <1>2, OthersStay, StillMoves DEF LocksStay, Actors
<1> QED
    BY <1>1, <1>2, <1>3 DEF EpInv, AreaShape, ObsShape, EvidenceWasPublished, GrantShape,
       WriterOwnsMarker

\* Something else may appear where there was no area.
LEMMA ForeignStep ==
    ASSUME EpInv, ForeignArea
    PROVE  EpInv'
<1>1. /\ EpTypes /\ area = "absent" /\ area' = "unknown" /\ epFaults' \in 0..MaxEpFaults
      /\ UNCHANGED <<marker, staging, recov, lock, lease, ejob, bind, obs, ev, intent, act,
                     cls, ctr, granted, rounds>>
    BY EpBounds DEF ForeignArea, EpFault, EpInv, EpTypes, leaseVars, catVars
<1>2. EpTypes' /\ MarkerMoves
    BY <1>1 DEF EpTypes, Areas, MarkerMoves
<1>3. IntentShape' /\ ActShape'
    BY <1>1, <1>2, OthersStay DEF LocksStay
<1> QED
    BY <1>1, <1>2, <1>3 DEF EpInv, AreaShape, ObsShape, EvidenceWasPublished, GrantShape,
       WriterOwnsMarker

\* Nobody has registered at first.
LEMMA EpInitInv == EpInit => EpInv
<1> SUFFICES ASSUME EpInit PROVE EpInv
    OBVIOUS
<1>1. EpTypes
    BY EpBounds, EpConstants DEF EpInit, EpTypes, Areas, Stagings, Holders, Jobs, Bindings,
       Counters
<1>2. AreaShape /\ ObsShape /\ GrantShape /\ WriterOwnsMarker /\ EvidenceWasPublished
    BY EpConstants DEF EpInit, AreaShape, ObsShape, GrantShape, WriterOwnsMarker,
       EvidenceWasPublished, NoMarker
<1>3. IntentShape
    BY EpConstants DEF EpInit, IntentShape, IntentFits, OpenStates
<1>4. ActShape
    BY EpConstants DEF EpInit, ActShape, ActFits, Resting
<1> QED
    BY <1>1, <1>2, <1>3, <1>4 DEF EpInv

\* Every step keeps the invariant.
LEMMA EpStepInv == EpInv /\ [EpNext]_epVars => EpInv'
<1> SUFFICES ASSUME EpInv, [EpNext]_epVars PROVE EpInv'
    OBVIOUS
<1>1. CASE ForeignArea
    BY <1>1, ForeignStep
<1>2. ASSUME NEW i \in Inst, EpInst(i) PROVE EpInv'
    <2>1. CASE \/ Classify(i) \/ ClassifyFails(i) \/ StoreClassification(i)
               \/ EditJob(i) \/ ToggleJob(i)
        BY <2>1, LookStep
    <2>2. CASE \E k \in EpKinds, r \in Revs : StartCommand(i, k, r)
        BY <2>2, StartStep
    <2>3. CASE SaveIntent(i) \/ BeginRound(i) \/ NextIntent(i)
        BY <2>3, SaveStep, BeginStep, NextStep
    <2>4. ASSUME NEW a \in Actors, EpStep(i, a) \/ StepFails(i, a) PROVE EpInv'
        BY <2>4, ApplyRegisterStep, MaterializeStep, PublishStep, VerifyAreaStep,
           ApplyTakeoverStep, ReplaceStep, VerifyTakeoverStep, MarkStep, CommitStep,
           StepFailsStep DEF EpStep
    <2>5. CASE AcquireLease(i) \/ ReleaseLease(i) \/ TouchRecovery(i) \/ HostStops(i)
        BY <2>5, AcquireStep, ReleaseStep, TouchStep, HostStopsStep
    <2> QED
        BY <1>2, <2>1, <2>2, <2>3, <2>4, <2>5 DEF EpInst
<1>3. CASE UNCHANGED epVars
    <2>1. EpTypes /\ MarkerMoves
        BY <1>3 DEF EpInv, MarkerMoves, epVars
    <2>2. EpTypes'
        BY <1>3, <2>1 DEF EpTypes, epVars
    <2>3. AreaShape' /\ GrantShape' /\ EvidenceWasPublished' /\ WriterOwnsMarker'
        BY <1>3 DEF EpInv, AreaShape, GrantShape, EvidenceWasPublished, WriterOwnsMarker, epVars
    <2>4. ObsShape'
        BY <1>3 DEF EpInv, ObsShape, epVars
    <2>5. IntentShape' /\ ActShape'
        BY <1>3, <2>1, <2>2, OthersStay DEF LocksStay, epVars
    <2> QED
        BY <2>2, <2>3, <2>4, <2>5 DEF EpInv
<1> QED
    BY <1>1, <1>2, <1>3 DEF EpNext

\* The invariant of the endpoints holds.
LEMMA EpInvariance == EpSpec => []EpInv
<1> QED
    BY EpInitInv, EpStepInv, PTL DEF EpSpec

\* The control area, the catalogs and the threads of every installation keep
\* their types.
THEOREM EndpointTypes == EpSpec => []EpTypeOK
<1>1. EpInv => EpTypeOK
    <2> SUFFICES ASSUME EpInv PROVE EpTypeOK
        OBVIOUS
    <2>1. EpTypes /\ AreaShape
        BY DEF EpInv
    <2>2. (area = "ok") = (marker # NoMarker)
        BY <2>1, EpConstants DEF AreaShape
    <2>3. lock[1] \in Inst \cup {0}
        BY <2>1 DEF EpTypes, Holders, Free
    <2> QED
        BY <2>1, <2>2, <2>3 DEF EpTypeOK, EpTypes, Areas, Stagings, Bindings, Jobs, Leases,
           Intents, IntentStates
<1> QED
    BY <1>1, EpInvariance, PTL

\* Whoever holds a lease is named by the marker in the folder for as long as it
\* holds it: for any number of installations, no registration, retry, crash or
\* takeover replaces the marker of a writer (endpoint_leases, endpoint_takeover).
THEOREM WriterIsOwner == EpSpec => []WriterOwnsMarker
<1>1. EpInv => WriterOwnsMarker
    BY DEF EpInv
<1> QED
    BY <1>1, EpInvariance, PTL

\* The evidence of ownership in a catalog is of a marker that was published, and
\* only a takeover of a later epoch can have replaced it (commit of an intent).
THEOREM EvidenceIsReal == EpSpec => []EvidenceWasPublished
<1>1. EpInv => EvidenceWasPublished
    BY DEF EpInv
<1> QED
    BY <1>1, EpInvariance, PTL

\* Leases of one folder are ordered by epoch and token whoever grants them,
\* although every installation counts in a database of its own.
THEOREM LeasesAreFenced == EpSpec => GrantsFenced
<1> DEFINE A == (\E i \in Inst : lease[i].st # "held" /\ lease'[i].st = "held") =>
                   \/ granted'.epoch > granted.epoch
                   \/ granted'.epoch = granted.epoch /\ granted'.tok > granted.tok
<1>1. ASSUME EpInv, NEW i \in Inst, AcquireLease(i) PROVE A
    <2> DEFINE t == Token(i, marker.epoch)
    <2>1. /\ granted' = [epoch |-> marker.epoch, tok |-> t] /\ t \in 1..MaxTokens
          /\ area = "ok" /\ marker = ev[i] /\ ev[i] # NoMarker
        BY <1>1 DEF AcquireLease, MarkerIdentity
    <2>2. marker.owner = i
        BY <1>1, <2>1 DEF EpInv, EvidenceWasPublished
    <2>3. /\ marker.epoch \in Nat /\ granted \in Counters /\ granted.epoch <= marker.epoch
          /\ granted.epoch = marker.epoch => ctr[i] = granted
        BY <1>1, <2>1, <2>2 DEF EpInv, EpTypes, GrantShape, Markers
    <2>4. CASE granted.epoch = marker.epoch
        <3>1. t = granted.tok + 1
            BY <2>3, <2>4 DEF Token, Counters
        <3> QED
            BY <2>1, <2>3, <2>4, <3>1 DEF Counters
    <2>5. CASE granted.epoch # marker.epoch
        BY <2>1, <2>3, <2>5 DEF Counters
    <2> QED
        BY <2>4, <2>5
<1>2. ASSUME EpInv, NEW i \in Inst, ReleaseLease(i) \/ HostStops(i) PROVE A
    BY <1>2, EpConstants DEF ReleaseLease, HostStops, EpInv, EpTypes
<1>3. ASSUME UNCHANGED lease PROVE A
    BY <1>3
<1>4. EpInv /\ [EpNext]_epVars => A
    <2> SUFFICES ASSUME EpInv, [EpNext]_epVars PROVE A
        OBVIOUS
    <2> HIDE DEF A
    <2>1. CASE ForeignArea
        BY <1>3, <2>1 DEF ForeignArea, leaseVars
    <2>2. CASE UNCHANGED epVars
        BY <1>3, <2>2 DEF epVars
    <2>3. ASSUME NEW i \in Inst, EpInst(i) PROVE A
        <3>1. CASE \/ Classify(i) \/ ClassifyFails(i) \/ StoreClassification(i)
                   \/ EditJob(i) \/ ToggleJob(i) \/ TouchRecovery(i)
            BY <1>3, <3>1 DEF Classify, ClassifyFails, StoreClassification, EditJob, ToggleJob,
               TouchRecovery, leaseVars
        <3>2. CASE \E k \in EpKinds, r \in Revs : StartCommand(i, k, r)
            BY <1>3, <3>2 DEF StartCommand, leaseVars
        <3>3. CASE SaveIntent(i) \/ BeginRound(i) \/ NextIntent(i)
            BY <1>3, <3>3 DEF SaveIntent, BeginRound, NextIntent, leaseVars
        <3>4. ASSUME NEW a \in Actors, EpStep(i, a) \/ StepFails(i, a) PROVE A
            <4>1. UNCHANGED leaseVars
                BY <3>4 DEF EpStep, StepFails, ApplyRegister, MaterializeStaging, PublishArea,
                   VerifyArea, ApplyTakeover, ReplaceMarker, VerifyTakeover, MarkApplied,
                   CommitIntent
            <4> QED
                BY <1>3, <4>1 DEF leaseVars
        <3>5. CASE AcquireLease(i) \/ ReleaseLease(i) \/ HostStops(i)
            BY <1>1, <1>2, <3>5
        <3> QED
            BY <2>3, <3>1, <3>2, <3>3, <3>4, <3>5 DEF EpInst
    <2> QED
        BY <2>1, <2>2, <2>3 DEF EpNext
<1> QED
    BY <1>4, EpInvariance, PTL DEF EpSpec, GrantsFenced

\* The marker changes in two ways only: an area appears where there was none, or
\* a confirmed takeover replaces an owner that left no recovery data behind.
THEOREM OwnershipIsMoved == EpSpec => OwnershipMoves
<1> DEFINE A == (marker' # marker) =>
                   \/ area = "absent" /\ marker'.epoch = 1
                   \/ /\ area = "ok" /\ marker.owner \notin recov /\ marker'.owner # marker.owner
                      /\ marker'.epoch = marker.epoch + 1
<1>1. ASSUME EpInv, NEW i \in Inst, NEW a \in Actors, PublishArea(i, a) PROVE A
    <2>1. act[i][a].k = "register"
        BY <1>1 DEF EpInv, ActShape, ActFits, PublishArea
    <2>2. CASE UNCHANGED marker
        BY <2>2
    <2>3. CASE marker' # marker
        <3>1. area = "absent" /\ marker' = Prepared(i, a)
            BY <1>1, <2>3 DEF PublishArea, fsVars
        <3>2. Prepared(i, a).epoch = 1
            BY <2>1 DEF Prepared
        <3> QED
            BY <3>1, <3>2
    <2> QED
        BY <2>2, <2>3
<1>2. ASSUME EpInv, NEW i \in Inst, NEW a \in Actors, ReplaceMarker(i, a) PROVE A
    <2>1. /\ act[i][a].k = "takeover" /\ area = "ok" /\ marker = act[i][a].old
          /\ marker.owner \notin recov /\ marker.owner # i
        <3>1. ActFits(i, a) /\ act[i][a].pc = "replace"
            BY <1>2 DEF EpInv, ActShape, ReplaceMarker
        <3>2. /\ act[i][a].k = "takeover" /\ area = "ok" /\ marker = act[i][a].old
              /\ act[i][a].old.owner \notin recov
            BY <3>1 DEF ActFits
        <3>3. KnowsIntent(i, a)
            BY <3>1 DEF ActFits, Resting
        <3>4. act[i][a].old.owner # i
            BY <3>1, <3>2, <3>3 DEF KnowsIntent
        <3> QED
            BY <3>2, <3>4
    <2> QED
        BY <1>2, <2>1 DEF ReplaceMarker, Prepared
<1>3. ASSUME UNCHANGED marker PROVE A
    BY <1>3
<1>4. EpInv /\ [EpNext]_epVars => A
    <2> SUFFICES ASSUME EpInv, [EpNext]_epVars PROVE A
        OBVIOUS
    <2> HIDE DEF A
    <2>1. CASE ForeignArea
        BY <1>3, <2>1 DEF ForeignArea
    <2>2. CASE UNCHANGED epVars
        BY <1>3, <2>2 DEF epVars
    <2>3. ASSUME NEW i \in Inst, EpInst(i) PROVE A
        <3>1. CASE \/ Classify(i) \/ ClassifyFails(i) \/ StoreClassification(i)
                   \/ EditJob(i) \/ ToggleJob(i)
            BY <1>3, <3>1 DEF Classify, ClassifyFails, StoreClassification, EditJob, ToggleJob,
               fsVars
        <3>2. CASE \E k \in EpKinds, r \in Revs : StartCommand(i, k, r)
            BY <1>3, <3>2 DEF StartCommand, fsVars
        <3>3. CASE SaveIntent(i) \/ BeginRound(i) \/ NextIntent(i)
            BY <1>3, <3>3 DEF SaveIntent, BeginRound, NextIntent, fsVars
        <3>4. ASSUME NEW a \in Actors, EpStep(i, a) \/ StepFails(i, a) PROVE A
            <4>1. CASE PublishArea(i, a) \/ ReplaceMarker(i, a)
                BY <1>1, <1>2, <4>1
            <4>2. CASE \/ ApplyRegister(i, a) \/ MaterializeStaging(i, a) \/ VerifyArea(i, a)
                       \/ ApplyTakeover(i, a) \/ VerifyTakeover(i, a) \/ MarkApplied(i, a)
                       \/ CommitIntent(i, a) \/ StepFails(i, a)
                <5>1. UNCHANGED marker
                    BY <4>2 DEF ApplyRegister, MaterializeStaging, VerifyArea, ApplyTakeover,
                       VerifyTakeover, MarkApplied, CommitIntent, StepFails, fsVars
                <5> QED
                    BY <1>3, <5>1
            <4> QED
                BY <3>4, <4>1, <4>2 DEF EpStep
        <3>5. CASE \/ AcquireLease(i) \/ ReleaseLease(i) \/ TouchRecovery(i) \/ HostStops(i)
            BY <1>3, <3>5 DEF AcquireLease, ReleaseLease, TouchRecovery, HostStops, fsVars
        <3> QED
            BY <2>3, <3>1, <3>2, <3>3, <3>4, <3>5 DEF EpInst
    <2> QED
        BY <2>1, <2>2, <2>3 DEF EpNext
<1> QED
    BY <1>4, EpInvariance, PTL DEF EpSpec, OwnershipMoves

-----------------------------------------------------------------------------
(* The four sides together.                                                  *)

\* What the sides of a target rely on holds when all four work at once, in any
\* order of their steps (run_intent_segments.py, run_staging.py, directory_recovery.py,
\* writable_endpoint_registration.py).
THEOREM TargetIsSound == TargetSpec => []TargetSound
<1>1. TargetSpec => [](SgTypeOK /\ IntentIsEvidenced /\ DocumentsMatchRows)
    BY SegmentTypes, IntentsAreEvidenced, DocumentsAgree, PTL DEF TargetSpec
<1>2. TargetSpec => [](TfTypeOK /\ InPlanOrder /\ OutageCostsOneAttempt)
    BY StagingTypes, PlanOrderIsKept, OutagesAreCheap, PTL DEF TargetSpec
<1>3. TargetSpec => [](DirTypeOK /\ JournalClaimsOwnWork /\ ConflictHasACause /\ CatalogIsOnDisk)
    BY DirectoryTypes, JournalOwnsItsWork, ConflictsAreCaused, ListedIsOnDisk, PTL DEF TargetSpec
<1>4. TargetSpec => [](EpTypeOK /\ EvidenceWasPublished)
    BY EndpointTypes, EvidenceIsReal, PTL DEF TargetSpec
<1> QED
    BY <1>1, <1>2, <1>3, <1>4, PTL DEF TargetSound

\* No step of any side takes from the target what somebody still needs: the
\* user's data in a directory, the documents of unfinished operations, the
\* ownership of a working owner, the order of the granted leases.
THEOREM NothingIsLost == TargetSpec => TargetNeverLoses
<1>1. SgSpec => DocumentsOutliveWork
    BY EvidenceOutlivesWork
<1>2. DirSpec => UserDataSurvives
    BY UserDataIsKept
<1>3. EpSpec => OwnershipMoves /\ GrantsFenced
    BY OwnershipIsMoved, LeasesAreFenced
<1> QED
    BY <1>1, <1>2, <1>3 DEF TargetSpec, TargetNeverLoses
=============================================================================
