----------------------------- MODULE Duplicates -----------------------------
(***************************************************************************)
(* The duplicate scan of one analysis.  A user starts, pauses and resumes  *)
(* it over IPC; the executor-maintenance thread works on it file by file:  *)
(* a quick signature of every file whose size occurs twice, the full hash  *)
(* of the files whose signatures agree, then the groups.  Meanwhile the    *)
(* hash pass of an analysis or of a start reads the pairs of equal path    *)
(* and builds groups from what is known so far, another thread's start     *)
(* returns running requests to the queue, files are edited, writes fail    *)
(* and the host stops.                                                     *)
(*                                                                         *)
(* Entries: 1 is source "a", 2 is source "b", 3 is a hard link to 2 or is  *)
(* absent, 4 is target "a", 5 is target "d".  Contents 1 and 2 have one    *)
(* size and one quick signature, 3 has their size, 4 has another size.     *)
(***************************************************************************)
EXTENDS Integers, FiniteSets, FiniteSetsExt

CONSTANTS MaxTries,      \* attempts of a file before it fails
          MaxCacheRows,  \* active rows of the hash cache
          WorkBatch,     \* files of one cycle, and rows of one enqueue
          MaxDuEvents    \* bound: edits, faults, starts and pauses of a behaviour

ASSUME DuplicatesAssumption == /\ MaxTries \in Nat \ {0} /\ MaxCacheRows \in Nat
                               /\ WorkBatch \in Nat \ {0} /\ MaxDuEvents \in Nat

VARIABLES orig,     \* what each entry held when the snapshot was sealed
          disk,     \* what it holds now
          changed,  \* entries whose identity changed since the snapshot
          stable,   \* the endpoints report stable file ids
          dups,     \* the scan's row
          reqs,     \* the scan's hash requests
          cached,   \* the hash cache
          known,    \* current-read hash evidence of the analysis
          groups,   \* the duplicate groups: what their rows count
          members,  \* and their members
          wk,       \* the maintenance thread
          backup,   \* a run is executing or pausing
          duLeft,   \* events left
          jammed    \* a request was left running by a failed write

duVars == <<orig, disk, changed, stable, dups, reqs, cached, known, groups, members,
            wk, backup, duLeft, jammed>>

Entries == 1..5
Absent == 0
DuContents == 1..4
DuSide(e) == IF e \in 1..3 THEN "src" ELSE "tgt"
PathKey(e) == CASE e \in {1, 4} -> "a" [] e = 2 -> "b" [] e = 3 -> "c" [] OTHER -> "d"
DuSize(c) == IF c = 4 THEN 2 ELSE 1
Quick(c) == IF c = 2 THEN 1 ELSE c
Present == {e \in Entries : orig[e] # Absent}

NoScanRow == [state |-> "NONE", stage |-> "QUICK_SIGNATURE", why |-> "", cand |-> 0, quick |-> 0,
              full |-> 0, fullDone |-> 0, issues |-> 0, listed |-> FALSE, cursor |-> 0]
NoRequest == [state |-> "NONE", stage |-> "QUICK_SIGNATURE", tries |-> 0, quick |-> 0]
NoRecord == [kind |-> "NONE", quick |-> 0, full |-> 0]
NoProof == [full |-> 0, same |-> TRUE]
IdleWorker == [pc |-> "idle", item |-> 0, stage |-> "QUICK_SIGNATURE", tries |-> 0, got |-> 0,
               same |-> TRUE, n |-> 0]

-----------------------------------------------------------------------------
(* Relations between files: aliases, replicas and duplicates.              *)

\* The first path of an object stands for it, when file ids are stable.
Physical(e) == IF stable /\ e = 3 THEN 2 ELSE e
SameObject(e) == {f \in Present : Physical(f) = Physical(e)}
Canonical == {Physical(e) : e \in Present}
DuCandidates == {e \in Canonical : \E f \in Canonical \ {e} : DuSize(orig[f]) = DuSize(orig[e])}

Hashed(k) == {e \in Present : k[e].full # 0}

\* A source file and the file at its path in the target, read with one content.
ExpectedMatches(k) == {p \in Hashed(k) \X Hashed(k) :
                         /\ DuSide(p[1]) = "src" /\ DuSide(p[2]) = "tgt"
                         /\ PathKey(p[1]) = PathKey(p[2]) /\ k[p[1]].full = k[p[2]].full}

ObjectsOf(es) == {Physical(e) : e \in es}

\* Rows of the expected replicas, one group for each source file.
ExpectedKeys(k) == {<<"expected", p[1], k[p[1]].full>> : p \in ExpectedMatches(k)}
ExpectedTargets(k, key) == {p[2] : p \in {q \in ExpectedMatches(k) : q[1] = key[2]}}
ExpectedRow(k, key) == [count |-> 1 + Cardinality(ExpectedTargets(k, key)),
                        objects |-> 1 + Cardinality(ObjectsOf(ExpectedTargets(k, key))),
                        saves |-> 0]
ExpectedMembers(k) == UNION {{<<key, key[2], "SOURCE_ORIGIN">>} \cup
                             {<<key, e, "EXPECTED_REPLICA">> : e \in ExpectedTargets(k, key)}
                               : key \in ExpectedKeys(k)}

Replicas(ms) == {m[2] : m \in {x \in ms : x[3] = "EXPECTED_REPLICA"}}

\* A replica the job made is not a duplicate.
Eligible(k, ms) == Hashed(k) \ Replicas(ms)

\* Duplicates inside an endpoint: two or more objects with one content.
InternalEntries(k, ms, s, c) == {e \in Eligible(k, ms) : DuSide(e) = s /\ k[e].full = c}

InternalGroups(k, ms) == {g \in {"src", "tgt"} \X DuContents :
                            Cardinality(ObjectsOf(InternalEntries(k, ms, g[1], g[2]))) >= 2}

\* Mutant: every path counts as a copy.
InternalRowByPath(k, ms, g) ==
    LET es == InternalEntries(k, ms, g[1], g[2]) IN
    [count |-> Cardinality(es), objects |-> Cardinality(ObjectsOf(es)), saves |-> DuSize(g[2]) * (Cardinality(es) - 1)]

InternalRow(k, ms, g) ==
    LET es == InternalEntries(k, ms, g[1], g[2]) IN
    [count |-> Cardinality(es), objects |-> Cardinality(ObjectsOf(es)),
     saves |-> DuSize(g[2]) * (Cardinality(ObjectsOf(es)) - 1)]
InternalMembers(k, ms) ==
    UNION {{<<<<"internal", g[1], g[2]>>, e, "DUPLICATE">> : e \in InternalEntries(k, ms, g[1], g[2])}
             : g \in InternalGroups(k, ms)}

\* Duplicates between endpoints: one object of each endpoint stands for it.
Representatives(k, ms, c) ==
    LET of(s) == InternalEntries(k, ms, s, c)
        first(s) == {e \in of(s) : Physical(e) = Min(ObjectsOf(of(s)))} IN
    first("src") \cup first("tgt")
CrossGroups(k, ms) == {c \in DuContents : {DuSide(e) : e \in Representatives(k, ms, c)} = {"src", "tgt"}}
CrossRow(k, ms, c) == [count |-> Cardinality(Representatives(k, ms, c)), objects |-> 2, saves |-> DuSize(c)]
CrossMembers(k, ms) ==
    UNION {{<<<<"cross", "both", c>>, e, "DUPLICATE">> : e \in Representatives(k, ms, c)} : c \in CrossGroups(k, ms)}

\* A group's row is written once; later files only add members.
AddGroups(gs, more) == [key \in DOMAIN gs \cup DOMAIN more |-> IF key \in DOMAIN gs THEN gs[key] ELSE more[key]]

\* The whole of it, in one transaction.  Aliases come first.
Materialize(k) ==
    LET m1 == members \cup ExpectedMembers(k)
        m2 == m1 \cup InternalMembers(k, m1)
        m3 == m2 \cup CrossMembers(k, m2)
        g1 == AddGroups(groups, [key \in ExpectedKeys(k) |-> ExpectedRow(k, key)])
        g2 == AddGroups(g1, [key \in {<<"internal", g[1], g[2]>> : g \in InternalGroups(k, m1)}
                               |-> InternalRow(k, m1, <<key[2], key[3]>>)])
        g3 == AddGroups(g2, [key \in {<<"cross", "both", c>> : c \in CrossGroups(k, m2)} |-> CrossRow(k, m2, key[3])])
    IN members' = m3 /\ groups' = g3

-----------------------------------------------------------------------------
(* The hash cache.                                                         *)

\* Quick signatures are weaker evidence than full hashes.
Strength(kind) == CASE kind = "NONE" -> 0 [] kind = "QUICK" -> 1 [] OTHER -> 2
CacheRows == {e \in Entries : cached[e].kind # "NONE"}
CacheFull(e) == cached[e].kind = "NONE" /\ Cardinality(CacheRows) >= MaxCacheRows
CacheConflict(e, r) == cached[e] # r /\ Strength(cached[e].kind) = Strength(r.kind)

\* Stronger evidence replaces the active record; weaker goes to the history.
PersistCache(e, r) ==
    cached' = IF Strength(r.kind) > Strength(cached[e].kind) THEN [cached EXCEPT ![e] = r] ELSE cached

\* A signature is reused for the identity the snapshot recorded.
Reusable(e) == cached[e].quick # 0

-----------------------------------------------------------------------------
(* The user's commands, each one transaction of the IPC thread.            *)

Spend == duLeft > 0 /\ duLeft' = duLeft - 1

\* Known relations are materialized, then the row is written.
StartScan ==
    /\ dups.state = "NONE"
    /\ Materialize(known)
    /\ dups' = [NoScanRow EXCEPT !.state = "QUEUED", !.cand = Cardinality(DuCandidates)]
    /\ UNCHANGED <<orig, disk, changed, stable, reqs, cached, known, wk, backup, duLeft, jammed>>

PauseScan ==
    /\ dups.state \in {"QUEUED", "RUNNING"} /\ Spend
    /\ dups' = [dups EXCEPT !.state = "PAUSED", !.why = "USER_REQUESTED"]
    /\ UNCHANGED <<orig, disk, changed, stable, reqs, cached, known, groups, members, wk, backup, jammed>>

ResumeScan ==
    /\ dups.state = "PAUSED" /\ dups' = [dups EXCEPT !.state = "RUNNING", !.why = ""]
    /\ UNCHANGED <<orig, disk, changed, stable, reqs, cached, known, groups, members, wk, backup, duLeft, jammed>>

-----------------------------------------------------------------------------
(* The maintenance thread.                                                 *)

sources == <<orig, disk, changed, stable, backup>>
With(st, sg) == {e \in Entries : reqs[e].state \in st /\ reqs[e].stage = sg}
Pending(sg) == With({"PENDING"}, sg)
Rest == {e \in DuCandidates : e > dups.cursor}
Working == wk.pc = "loop" /\ wk.n < WorkBatch /\ duLeft' = duLeft /\ jammed' = jammed

\* A scan paused for a backup goes first; then the scan that waits or runs.
LoadNextCycleScan ==
    \/ dups.state = "PAUSED" /\ dups.why = "ACTIVE_BACKUP"
    \/ dups.state \in {"QUEUED", "RUNNING"}

\* A cycle begins; while a backup runs the scan is paused instead.
BeginCycle ==
    /\ wk.pc = "idle" /\ LoadNextCycleScan
    /\ IF backup THEN dups' = [dups EXCEPT !.state = "PAUSED", !.why = "ACTIVE_BACKUP"] /\ UNCHANGED wk
       ELSE dups' = [dups EXCEPT !.state = "RUNNING", !.why = ""] /\ wk' = [IdleWorker EXCEPT !.pc = "loop"]
    /\ UNCHANGED <<sources, reqs, cached, known, groups, members, duLeft, jammed>>

EndCycle ==
    /\ wk.pc = "loop" /\ (wk.n >= WorkBatch \/ dups.stage = "DONE") /\ wk' = IdleWorker
    /\ UNCHANGED <<sources, dups, reqs, cached, known, groups, members, duLeft, jammed>>

\* The next request of the stage is taken, with one more attempt.
ClaimNext ==
    /\ Working /\ dups.stage \in {"QUICK_SIGNATURE", "FULL_HASH"} /\ Pending(dups.stage) # {}
    /\ LET e == Min(Pending(dups.stage)) IN
       /\ reqs' = [reqs EXCEPT ![e].state = "RUNNING", ![e].tries = @ + 1]
       /\ wk' = [wk EXCEPT !.pc = "claimed", !.item = e, !.stage = dups.stage, !.tries = reqs[e].tries + 1, !.n = @ + 1]
    /\ UNCHANGED <<sources, dups, cached, known, groups, members>>

\* Mutant: the cursor moves past the files of a full batch.
EnqueueSkips ==
    /\ Working /\ dups.stage = "QUICK_SIGNATURE" /\ Pending("QUICK_SIGNATURE") = {} /\ Rest # {}
    /\ LET batch == {e \in Rest : Cardinality({f \in Rest : f < e}) < WorkBatch} IN
       /\ reqs' = [e \in Entries |-> IF e \in batch THEN [NoRequest EXCEPT !.state = "PENDING"] ELSE reqs[e]]
       /\ dups' = [dups EXCEPT !.cursor = Max(batch) + 1]
    /\ UNCHANGED <<sources, wk, cached, known, groups, members>>

\* The next candidates become requests, and the cursor moves behind them.
EnqueueQuick ==
    /\ Working /\ dups.stage = "QUICK_SIGNATURE" /\ Pending("QUICK_SIGNATURE") = {} /\ Rest # {}
    /\ LET batch == {e \in Rest : Cardinality({f \in Rest : f < e}) < WorkBatch} IN
       /\ reqs' = [e \in Entries |-> IF e \in batch /\ reqs[e].state = "NONE"
                                     THEN [NoRequest EXCEPT !.state = "PENDING"] ELSE reqs[e]]
       /\ dups' = [dups EXCEPT !.cursor = Max(batch),
                               !.listed = @ \/ Cardinality({e \in Entries : reqs'[e].state # "NONE"}) >= dups.cand]
    /\ UNCHANGED <<sources, wk, cached, known, groups, members>>

QuickStageComplete == With({"PENDING", "RUNNING"}, "QUICK_SIGNATURE") = {}

\* The files whose size and signature another file has.
QuickTwins(r) ==
    LET done == {e \in Entries : r[e].state = "SUCCEEDED" /\ r[e].stage = "QUICK_SIGNATURE" /\ r[e].quick # 0} IN
    {e \in done : \E f \in done \ {e} : DuSize(orig[f]) = DuSize(orig[e]) /\ r[f].quick = r[e].quick}

\* Every file has its signature: twins go on, the others are done.
AdvanceToFullHash ==
    /\ Working /\ dups.stage = "QUICK_SIGNATURE" /\ Pending("QUICK_SIGNATURE") = {} /\ Rest = {}
    /\ IF QuickStageComplete
       THEN /\ reqs' = [e \in Entries |->
                          IF e \in QuickTwins(reqs) THEN [reqs[e] EXCEPT !.stage = "FULL_HASH", !.state = "PENDING"]
                          ELSE IF reqs[e].state = "SUCCEEDED" THEN [reqs[e] EXCEPT !.stage = "DONE"] ELSE reqs[e]]
            /\ dups' = [dups EXCEPT !.stage = "FULL_HASH", !.listed = TRUE, !.quick = dups.cand,
                                    !.full = Cardinality(QuickTwins(reqs))]
            /\ UNCHANGED wk
       ELSE wk' = IdleWorker /\ dups' = [dups EXCEPT !.listed = TRUE] /\ UNCHANGED reqs
    /\ UNCHANGED <<sources, cached, known, groups, members>>

\* No request waits and none runs.  One left running keeps the thread in its loop.
AdvanceToMaterialization ==
    /\ Working /\ dups.stage = "FULL_HASH" /\ With({"PENDING", "RUNNING"}, "FULL_HASH") = {}
    /\ dups' = [dups EXCEPT !.stage = "MATERIALIZE"]
    /\ UNCHANGED <<sources, reqs, wk, cached, known, groups, members>>

BuildRelations ==
    /\ Working /\ dups.stage = "MATERIALIZE" /\ Materialize(known)
    /\ wk' = [wk EXCEPT !.pc = "closing"]
    /\ UNCHANGED <<sources, dups, reqs, cached, known>>

\* Failed requests are counted as issues, then all requests are deleted.
CompleteScan ==
    /\ wk.pc = "closing"
    /\ dups' = [dups EXCEPT !.state = "COMPLETED", !.stage = "DONE", !.why = "", !.quick = dups.cand, !.fullDone = dups.full,
                            !.issues = Cardinality({e \in Entries : reqs[e].state = "FAILED"})]
    /\ reqs' = [e \in Entries |-> NoRequest]
    /\ wk' = IdleWorker
    /\ UNCHANGED <<sources, cached, known, groups, members, duLeft, jammed>>

\* The counts the status shows, from the requests.
Progress(r) ==
    [dups EXCEPT !.quick = Min({dups.cand, Cardinality({e \in Entries : r[e].quick # 0 \/ (r[e].stage = "DONE" /\ r[e].state = "FAILED")})}),
                 !.fullDone = Min({dups.full, Cardinality({e \in Entries : r[e].stage = "FULL_HASH" /\ r[e].state \in {"SUCCEEDED", "FAILED"}})}),
                 !.issues = Cardinality({e \in Entries : r[e].state = "FAILED"})]

BackToLoop == wk' = [IdleWorker EXCEPT !.pc = "loop", !.n = wk.n]
Finish(r) == reqs' = r /\ dups' = Progress(r) /\ BackToLoop

\* A failed attempt is tried again until the limit.
RetryOrFail(e, tries, sg) ==
    IF reqs[e].state # "RUNNING" THEN reqs
    ELSE IF tries < MaxTries THEN [reqs EXCEPT ![e].state = "PENDING"]
    ELSE [reqs EXCEPT ![e].state = "FAILED", ![e].stage = IF sg = "QUICK_SIGNATURE" THEN "DONE" ELSE sg]

CompleteQuick(e, q) ==
    IF reqs[e].state = "RUNNING" /\ reqs[e].stage = "QUICK_SIGNATURE"
    THEN [reqs EXCEPT ![e].state = "SUCCEEDED", ![e].quick = q] ELSE reqs

CompleteFull(e) ==
    IF reqs[e].state = "RUNNING" /\ reqs[e].stage = "FULL_HASH" THEN [reqs EXCEPT ![e].state = "SUCCEEDED"] ELSE reqs

GiveUp == Finish(RetryOrFail(wk.item, wk.tries, wk.stage))
NothingElse == UNCHANGED <<sources, cached, known, groups, members, duLeft, jammed>>

\* A signature of this identity is in the cache.
ReuseQuick ==
    /\ wk.pc = "claimed" /\ wk.stage = "QUICK_SIGNATURE" /\ Reusable(wk.item)
    /\ Finish(CompleteQuick(wk.item, cached[wk.item].quick)) /\ NothingElse

\* A full hash needs the signature's record; evidence read before is used.
HasSignature(e) == cached[e].quick # 0 /\ cached[e].quick = reqs[e].quick
MustRead == IF wk.stage = "QUICK_SIGNATURE" THEN ~Reusable(wk.item) ELSE HasSignature(wk.item) /\ known[wk.item].full = 0

\* The file is opened, read and compared with its size.
ReadItem ==
    /\ wk.pc = "claimed" /\ MustRead /\ DuSize(disk[wk.item]) = DuSize(orig[wk.item])
    /\ wk' = [wk EXCEPT !.pc = "read", !.got = disk[wk.item], !.same = wk.item \notin changed]
    /\ UNCHANGED <<dups, reqs>> /\ NothingElse

LoadEvidence ==
    /\ wk.pc = "claimed" /\ wk.stage = "FULL_HASH" /\ HasSignature(wk.item) /\ known[wk.item].full # 0
    /\ wk' = [wk EXCEPT !.pc = "read", !.got = known[wk.item].full, !.same = known[wk.item].same]
    /\ UNCHANGED <<dups, reqs>> /\ NothingElse

\* The size differs, or the file cannot be read, or the signature's record changed.
ReadFails ==
    /\ wk.pc = "claimed"
    /\ \/ MustRead /\ DuSize(disk[wk.item]) # DuSize(orig[wk.item]) /\ UNCHANGED duLeft
       \/ MustRead /\ Spend
       \/ wk.stage = "FULL_HASH" /\ ~HasSignature(wk.item) /\ UNCHANGED duLeft
    /\ GiveUp /\ UNCHANGED <<sources, cached, known, groups, members, jammed>>

\* What was read must be the file the snapshot saw.
SnapshotIdentity == wk.same

IdentityChanged == wk.pc = "read" /\ ~SnapshotIdentity /\ GiveUp /\ NothingElse

\* The evidence is kept for every path of the object, unless it contradicts what is there.
Contradicts(e) == \E f \in SameObject(e) : known[f].full # 0 /\ known[f] # [full |-> wk.got, same |-> wk.same]
KeepEvidence ==
    /\ wk.pc = "read" /\ SnapshotIdentity /\ wk.stage = "FULL_HASH"
    /\ IF Contradicts(wk.item) THEN GiveUp /\ UNCHANGED known
       ELSE /\ known' = [f \in Entries |-> IF f \in SameObject(wk.item) THEN [full |-> wk.got, same |-> wk.same] ELSE known[f]]
            /\ wk' = [wk EXCEPT !.pc = "kept"] /\ UNCHANGED <<dups, reqs>>
    /\ UNCHANGED <<sources, cached, groups, members, duLeft, jammed>>

NewRecord == IF wk.stage = "QUICK_SIGNATURE" THEN [kind |-> "QUICK", quick |-> Quick(wk.got), full |-> 0]
             ELSE [kind |-> "FULL", quick |-> reqs[wk.item].quick, full |-> wk.got]

\* The cache takes the record, refuses it at its limit, or finds a contradiction.
SaveToCache ==
    /\ \/ wk.pc = "read" /\ SnapshotIdentity /\ wk.stage = "QUICK_SIGNATURE"
       \/ wk.pc = "kept"
    /\ IF CacheFull(wk.item) \/ CacheConflict(wk.item, NewRecord) THEN GiveUp /\ UNCHANGED cached
       ELSE PersistCache(wk.item, NewRecord) /\ wk' = [wk EXCEPT !.pc = "cached"] /\ UNCHANGED <<dups, reqs>>
    /\ UNCHANGED <<sources, known, groups, members, duLeft, jammed>>

CompleteItem ==
    /\ wk.pc = "cached"
    /\ Finish(IF wk.stage = "QUICK_SIGNATURE" THEN CompleteQuick(wk.item, Quick(wk.got)) ELSE CompleteFull(wk.item))
    /\ NothingElse

\* The catalog refuses the write: the error leaves the cycle, the request stays running.
WriteFails ==
    /\ wk.pc \in {"claimed", "cached"} /\ Spend
    /\ wk' = IdleWorker /\ jammed' = TRUE
    /\ UNCHANGED <<sources, dups, reqs, cached, known, groups, members>>

-----------------------------------------------------------------------------
(* Everybody else.                                                         *)

Recover(r) == [e \in Entries |-> IF r[e].state = "RUNNING" THEN [r[e] EXCEPT !.state = "PENDING"] ELSE r[e]]

\* A thread starts: what runs is taken for interrupted, though the worker may have it.
RecoverInterrupted ==
    /\ Spend /\ reqs' = Recover(reqs) /\ jammed' = FALSE
    /\ UNCHANGED <<sources, dups, cached, known, groups, members, wk>>

DuStops ==
    /\ Spend /\ reqs' = Recover(reqs) /\ wk' = IdleWorker /\ jammed' = FALSE
    /\ UNCHANGED <<sources, dups, cached, known, groups, members>>

\* The pass that plans a backup reads the files of equal path and size, and
\* builds the groups.  It does not ask for the snapshot's identity.
PathPairs == {e \in Present : \E f \in Present : /\ DuSide(e) # DuSide(f) /\ PathKey(e) = PathKey(f)
                                                 /\ DuSize(orig[e]) = DuSize(orig[f])}
HashPass ==
    /\ Spend /\ \A e \in PathPairs : known[e].full # 0 \/ DuSize(disk[e]) = DuSize(orig[e])
    /\ \E k \in {[e \in Entries |-> IF e \in PathPairs /\ known[e].full = 0
                                   THEN [full |-> disk[e], same |-> e \notin changed] ELSE known[e]]} :
         known' = k /\ Materialize(k)
    /\ UNCHANGED <<sources, dups, reqs, cached, wk, jammed>>

EditEntry(e, c) ==
    /\ Spend /\ e \in Present /\ c # disk[e]
    /\ LET o == IF e \in {2, 3} THEN {2, 3} \cap Present ELSE {e} IN
       disk' = [f \in Entries |-> IF f \in o THEN c ELSE disk[f]] /\ changed' = changed \cup o
    /\ UNCHANGED <<orig, stable, backup, dups, reqs, cached, known, groups, members, wk, jammed>>

BackupBegins == /\ ~backup /\ Spend /\ backup' = TRUE
                /\ UNCHANGED <<orig, disk, changed, stable, dups, reqs, cached, known, groups, members, wk, jammed>>
BackupEnds == /\ backup /\ backup' = FALSE
              /\ UNCHANGED <<orig, disk, changed, stable, dups, reqs, cached, known, groups, members, wk, duLeft, jammed>>

-----------------------------------------------------------------------------
NoGroups == [key \in {} |-> 0]

\* Behaviours with events start from files that are all equal, or all but one.
Eventful == stable /\ (orig = [e \in Entries |-> 1] \/ orig = [e \in Entries |-> CASE e = 2 -> 2 [] e = 3 -> Absent [] OTHER -> 1])

\* Entry 1 holds content 1; the others anything.  A hard link may be there.
DuInit ==
    /\ orig \in {[e \in Entries |-> CASE e = 1 -> 1 [] e = 2 -> x[1] [] e = 3 -> IF x[4] THEN x[1] ELSE Absent
                                      [] e = 4 -> x[2] [] OTHER -> x[3]]
                   : x \in DuContents \X DuContents \X DuContents \X BOOLEAN}
    /\ disk = orig /\ changed = {} /\ stable \in BOOLEAN
    /\ dups = NoScanRow /\ reqs = [e \in Entries |-> NoRequest]
    /\ cached = [e \in Entries |-> NoRecord] /\ known = [e \in Entries |-> NoProof]
    /\ groups = NoGroups /\ members = {} /\ wk = IdleWorker /\ backup = FALSE
    /\ duLeft = (IF Eventful THEN MaxDuEvents ELSE 0) /\ jammed = FALSE

Worker == BeginCycle \/ EndCycle \/ ClaimNext \/ EnqueueQuick \/ AdvanceToFullHash \/ AdvanceToMaterialization
          \/ BuildRelations \/ CompleteScan \/ ReuseQuick \/ ReadItem \/ LoadEvidence \/ ReadFails
          \/ IdentityChanged \/ KeepEvidence \/ SaveToCache \/ CompleteItem
Others == StartScan \/ PauseScan \/ ResumeScan \/ WriteFails \/ RecoverInterrupted \/ DuStops \/ HashPass
          \/ (\E e \in Entries, c \in DuContents : EditEntry(e, c)) \/ BackupBegins \/ BackupEnds
DuNext == Worker \/ Others
DuSpec == DuInit /\ [][DuNext]_duVars
DuFairness == WF_duVars(Worker) /\ WF_duVars(BackupEnds) /\ WF_duVars(StartScan)

-----------------------------------------------------------------------------
(* Properties.                                                             *)

\* Every variable of the duplicate scan keeps its type; attempts stay bounded.
DuTypeOK ==
    /\ orig \in [Entries -> DuContents \cup {Absent}] /\ disk \in [Entries -> DuContents \cup {Absent}]
    /\ changed \subseteq Entries /\ stable \in BOOLEAN /\ backup \in BOOLEAN /\ jammed \in BOOLEAN
    /\ \A e \in Entries : /\ reqs[e].state \in {"NONE", "PENDING", "RUNNING", "SUCCEEDED", "FAILED"}
                          /\ reqs[e].stage \in {"QUICK_SIGNATURE", "FULL_HASH", "DONE"}
                          /\ reqs[e].tries \in 0..(MaxTries + MaxDuEvents + 1) /\ reqs[e].quick \in DuContents \cup {0}
                          /\ cached[e].kind \in {"NONE", "QUICK", "FULL"} /\ known[e].full \in DuContents \cup {0}
    /\ Cardinality(CacheRows) <= MaxCacheRows
    /\ wk.pc \in {"idle", "loop", "claimed", "read", "kept", "cached", "closing"} /\ wk.n \in 0..WorkBatch
    /\ duLeft \in 0..MaxDuEvents

\* The row of a scan always loads: its counts never exceed each other, and the
\* stage DONE is a completed scan's (DuplicateScanStatus.__post_init__ raises
\* otherwise, and with it every cycle and every request for the status).
StatusLoads ==
    /\ dups.quick <= dups.cand /\ dups.full <= dups.cand /\ dups.fullDone <= dups.full
    /\ dups.issues <= dups.cand /\ (dups.stage = "DONE" <=> dups.state = "COMPLETED")

\* Evidence the scan uses is of the file its snapshot saw: what a cache record
\* or evidence with the snapshot's identity says is what the snapshot held, and
\* nothing read after an edit is taken for it.
EvidenceIsOfSnapshot ==
    \A e \in Present : /\ cached[e].quick # 0 => cached[e].quick = Quick(orig[e])
                       /\ cached[e].full # 0 => cached[e].full = orig[e]
                       /\ (known[e].full # 0 /\ known[e].same) => known[e].full = orig[e]

\* A scan that completes without issues has found every copy: two different
\* objects the snapshot saw with one content are each in some group, whatever
\* was paused, interrupted, reused or tried again on the way.
FindsEveryCopy ==
    (dups.state = "COMPLETED" /\ dups.issues = 0) =>
        \A e \in Present : (\E f \in Present : Physical(f) # Physical(e) /\ orig[f] = orig[e])
                             => \E m \in members : Physical(m[2]) = Physical(e)

\* What the rows of a content's groups promise: of its replicas, of each
\* endpoint, and between the endpoints.
Promised(key) == IF key \in DOMAIN groups THEN groups[key].saves ELSE 0
SavedBy(c) == Promised(<<"expected", 1, c>>) + Promised(<<"expected", 2, c>>) + Promised(<<"expected", 3, c>>)
              + Promised(<<"internal", "src", c>>) + Promised(<<"internal", "tgt", c>>) + Promised(<<"cross", "both", c>>)
Removable(c) == ObjectsOf({e \in Present : known[e].full = c} \ Replicas(members))

\* A replica was first counted as a duplicate: its source's hash came later.
Late == \E m \in members : m[1][1] # "expected" /\ m[2] \in Replicas(members)

\* The savings promised never touch the last copy: over all groups of a content
\* they are at most the objects that are no replicas of the job, less one.
\* Hard links and the job's own replicas save nothing.
SavingsLeaveACopy ==
    Late \/ \A c \in DuContents : SavedBy(c) > 0 => SavedBy(c) <= DuSize(c) * (Cardinality(Removable(c)) - 1)

\* A scan ends: a scan that was started completes, unless the user paused it
\* or a failed write left a request running for the rest of the host's life.
ScanCompletes ==
    []<>(\/ dups.state \in {"NONE", "COMPLETED"} \/ jammed
         \/ dups.state = "PAUSED" /\ dups.why = "USER_REQUESTED")
=============================================================================
