------------------------------ MODULE Analysis ------------------------------
(***************************************************************************)
(* How a job's folders become a plan: the scanner snapshots the source and *)
(* the target directory by directory, both snapshots are sealed in one     *)
(* transaction, files of equal size are read and hashed, and the planner   *)
(* compares the snapshots and saves a plan.  Two passes do this on their   *)
(* own connections: the check a user or a trigger asked for ("check",      *)
(* always a new analysis) and the pass every start and every maintenance   *)
(* round makes ("start", which reuses what is sealed).  Meanwhile people   *)
(* edit the folders and the job.                                           *)
(*                                                                         *)
(* Paths: 1 is a folder or a file "d", 2 is "d/f", 3 is "g" and 4 is "G",  *)
(* the same name as 3 in a folder that ignores case.                       *)
(***************************************************************************)
EXTENDS Integers, Sequences, FiniteSets

CONSTANTS MaxRescans,   \* rescans of a directory that changes while it is read
          MaxAnRevs,    \* bound: revisions of the job
          MaxAnEvents   \* bound: edits, faults and crashes of one behaviour

ASSUME AnalysisAssumption == /\ MaxRescans \in Nat
                             /\ MaxAnRevs \in Nat \ {0} /\ MaxAnEvents \in Nat \ {0}

VARIABLES tree,    \* the folders: what is at each path of each side
          mode,    \* whether the target tells g from G
          policy,  \* the job's automation policy
          rev,     \* the job's active revision
          sc,      \* the scan in progress; it holds the catalog's write lock
          dirty,   \* the directory being read changed since its first signature
          snaps,   \* the sealed snapshots of each analysis
          proofs,  \* the hash evidence of each analysis
          mater,   \* the snapshot materialization of each revision
          pass,    \* the two passes
          rows,    \* the plan results saved, the newest last
          events,  \* events left
          seen     \* the trees each side has been since the check began

anVars == <<tree, mode, policy, rev, sc, dirty, snaps, proofs, mater, pass, rows, events, seen>>

Sides == {"src", "tgt"}
Paths == 1..4
Folder == 9
Contents == 1..3
Objects == {0, Folder} \cup Contents
Parent(p) == IF p = 2 THEN 1 ELSE 0
SizeOf(c) == IF c = 3 THEN 2 ELSE 1
IsFile(o) == o \in Contents

\* What a snapshot keeps of an object: its type and, of a file, its size.
Entry(o) == IF IsFile(o) THEN SizeOf(o) ELSE o

\* A tree: every object's folder is there, and a folder that ignores case has one g.
Tree(t, m) == /\ t[2] # 0 => t[1] = Folder
              /\ t[2] # Folder /\ t[4] # Folder
              /\ m = "INSENSITIVE" => (t[3] = 0 \/ t[4] = 0)

Policies == {"ANALYZE_ONLY", "NEW_FILES_ONLY", "NEW_AND_CHANGED_WITH_VERSIONS"}
Passes == {"check", "start"}
Empty == [p \in Paths |-> 0]
NoScan == [by |-> "none", side |-> "src", queue |-> <<>>, at |-> "open", names |-> {}, part |-> Empty,
           holes |-> FALSE, try |-> 0, got |-> [s \in Sides |-> Empty], whole |-> TRUE]
NoOut == [state |-> "NONE", rev |-> 0, an |-> 0, ops |-> {}]
Fresh(pc) == [pc |-> pc, rev |-> 0, an |-> 0, read |-> [s \in Sides |-> Empty], file |-> <<>>,
              cur |-> 0, torn |-> FALSE, out |-> NoOut]

-----------------------------------------------------------------------------
(* Planning: the operations that make the target a copy of the source.     *)

\* The name of a path in the target.
Key(p, m) == IF m = "INSENSITIVE" /\ p = 4 THEN 3 ELSE p
Held(snap) == {p \in Paths : snap[p] # 0}

\* Two entries of a snapshot have one name in the target: nothing is planned.
Collides(snap, m) == \E p, q \in Held(snap) : p # q /\ Key(p, m) = Key(q, m)
AtKey(snap, k, m) == {q \in Held(snap) : Key(q, m) = k}

\* The pairs of files whose contents have to be compared.
CandidatePairs(s, t, m) ==
    {pr \in Held(s) \X Held(t) :
        Key(pr[1], m) = Key(pr[2], m) /\ s[pr[1]] # Folder /\ t[pr[2]] # Folder /\ s[pr[1]] = t[pr[2]]}

\* Both files were read for these snapshots, and the hashes agree.
SameByHash(ev, p, q) == ev["src"][p] # 0 /\ ev["src"][p] = ev["tgt"][q]

DescendantCount(t, q) == Cardinality({r \in Held(t) : Parent(r) = q})

Operation(p, kind, pre, risk) == [path |-> p, kind |-> kind, pre |-> pre, risk |-> risk]
Blocked(p) == Operation(p, "BLOCKED", "ABSENT", "BLOCKED")

\* The operation one source entry needs, if any.
PlanEntry(s, t, ev, p, m) ==
    LET twin == AtKey(t, Key(p, m), m)
        q == CHOOSE r \in twin : TRUE IN
    IF twin = {} THEN {Operation(p, IF s[p] = Folder THEN "CREATE_DIRECTORY" ELSE "COPY_NEW", "ABSENT", "LOW")}
    ELSE IF s[p] = Folder THEN IF t[q] = Folder THEN {} ELSE {Blocked(p)}
    ELSE IF t[q] # Folder
         THEN IF s[p] = t[q] /\ SameByHash(ev, p, q) THEN {}
              ELSE {Operation(p, "COPY_NEW", "MATCH_FINGERPRINT", "MEDIUM")}
    ELSE IF DescendantCount(t, q) = 0 THEN {Operation(p, "COPY_NEW", "DIRECTORY_EMPTY", "HIGH")}
    ELSE {Blocked(p)}

Allows(pol, op) ==
    /\ pol # "ANALYZE_ONLY"
    /\ \/ op.kind = "CREATE_DIRECTORY" /\ op.risk = "LOW"
       \/ op.kind = "COPY_NEW" /\ op.pre = "ABSENT" /\ op.risk = "LOW"
       \/ /\ op.kind = "COPY_NEW" /\ op.pre = "MATCH_FINGERPRINT" /\ op.risk = "MEDIUM"
          /\ pol = "NEW_AND_CHANGED_WITH_VERSIONS"

\* What the policy does not allow is kept in the plan and not done.
ApplyPolicy(pol, op) ==
    IF op.risk = "BLOCKED" \/ Allows(pol, op) THEN op
    ELSE [op EXCEPT !.kind = "DEFER_AUTOMATION_POLICY"]

PlanTarget(s, t, ev, m, pol) ==
    UNION {{ApplyPolicy(pol, op) : op \in PlanEntry(s, t, ev, p, m)} : p \in Held(s)}

\* The operations that must come before op: the one that makes its folder.
DirectoryDependencies(ops, op) ==
    {before \in ops : before.kind = "CREATE_DIRECTORY" /\ before.path = Parent(op.path)}

\* What sealing demands of the operations and of their dependencies.
Sealable(ops) == /\ ops # {}
                 /\ \A op \in ops : op.kind # "BLOCKED" => op.pre \in {"ABSENT", "MATCH_FINGERPRINT", "DIRECTORY_EMPTY"}
Acyclic(ops) == \A op \in ops : \A b \in DirectoryDependencies(ops, op) :
                    b # op /\ op \notin DirectoryDependencies(ops, b)

Runnable(ops) == /\ \A op \in ops : op.risk # "BLOCKED"
                 /\ \E op \in ops : op.kind \in {"COPY_NEW", "CREATE_DIRECTORY"}

-----------------------------------------------------------------------------
(* The scan.                                                               *)

Locked == sc # NoScan
Dir == Head(sc.queue)
Gone == Dir # 0 /\ tree[sc.side][Dir] # Folder

ActiveRow == mater[rev]

\* The pass without force takes the sealed snapshots of the active revision.
ReuseSnapshots(a) ==
    /\ a = "start" /\ pass[a].pc = "begin" /\ ActiveRow.state = "SEALED"
    /\ pass' = [pass EXCEPT ![a] = [Fresh("hash") EXCEPT !.rev = rev, !.an = ActiveRow.an,
                                                       !.read = proofs[ActiveRow.an]]]
    /\ UNCHANGED <<tree, mode, policy, rev, sc, dirty, snaps, proofs, mater, rows, events, seen>>

\* BEGIN IMMEDIATE, the parent rows, and the source is scanned first.
BeginScan(a) ==
    /\ pass[a].pc = "begin" /\ ~Locked
    /\ a = "start" => ActiveRow.state # "SEALED"
    /\ sc' = [NoScan EXCEPT !.by = a, !.queue = <<0>>]
    /\ pass' = [pass EXCEPT ![a] = [Fresh("scan") EXCEPT !.rev = rev]]
    /\ seen' = IF a = "check" THEN [s \in Sides |-> {tree[s]}] ELSE seen
    /\ UNCHANGED <<tree, mode, policy, rev, dirty, snaps, proofs, mater, rows, events>>

\* The next directory is inspected and its first signature taken.
OpenDirectory ==
    /\ Locked /\ sc.at = "open" /\ sc.queue # <<>>
    /\ IF Gone THEN /\ sc' = [sc EXCEPT !.queue = Tail(@), !.whole = FALSE, !.try = 0]
                    /\ UNCHANGED dirty
               ELSE sc' = [sc EXCEPT !.at = "list"] /\ dirty' = FALSE
    /\ UNCHANGED <<tree, mode, policy, rev, snaps, proofs, mater, pass, rows, events, seen>>

ListDirectory ==
    /\ Locked /\ sc.at = "list"
    /\ IF Gone THEN sc' = [sc EXCEPT !.queue = Tail(@), !.at = "open", !.whole = FALSE, !.try = 0]
               ELSE sc' = [sc EXCEPT !.at = "stat",
                                     !.names = {p \in Held(tree[sc.side]) : Parent(p) = Dir}]
    /\ UNCHANGED <<tree, mode, policy, rev, dirty, snaps, proofs, mater, pass, rows, events, seen>>

\* Every name is inspected; one that is gone by now is an issue that blocks.
StatChildren ==
    /\ Locked /\ sc.at = "stat"
    /\ sc' = [sc EXCEPT !.at = "close",
                        !.part = [p \in Paths |-> IF p \in sc.names THEN Entry(tree[sc.side][p]) ELSE 0],
                        !.holes = \E p \in sc.names : tree[sc.side][p] = 0]
    /\ UNCHANGED <<tree, mode, policy, rev, dirty, snaps, proofs, mater, pass, rows, events, seen>>

Folders(part) == (IF part[1] = Folder THEN <<1>> ELSE <<>>) \o (IF part[3] = Folder THEN <<3>> ELSE <<>>)

\* The batch of this directory is released into the snapshot.
AcceptScan(complete) ==
    [sc EXCEPT !.at = "open", !.names = {}, !.part = Empty, !.holes = FALSE, !.try = 0,
               !.queue = Tail(@) \o Folders(sc.part),
               !.got[sc.side] = [p \in Paths |-> IF sc.part[p] # 0 THEN sc.part[p] ELSE @[p]],
               !.whole = @ /\ complete /\ ~sc.holes]

\* The batch is rolled back to the savepoint and the directory is read again.
Rescan == [sc EXCEPT !.at = "open", !.names = {}, !.part = Empty, !.holes = FALSE, !.try = @ + 1]

\* The second signature: a directory that changed is read again, at most
\* MaxRescans times, and is then VOLATILE.
CloseDirectory ==
    /\ Locked /\ sc.at = "close"
    /\ sc' = IF ~Gone /\ dirty /\ sc.try < MaxRescans THEN Rescan ELSE AcceptScan(~Gone /\ ~dirty)
    /\ UNCHANGED <<tree, mode, policy, rev, dirty, snaps, proofs, mater, pass, rows, events, seen>>

ScanTarget ==
    /\ Locked /\ sc.at = "open" /\ sc.queue = <<>> /\ sc.side = "src"
    /\ sc' = [sc EXCEPT !.side = "tgt", !.queue = <<0>>]
    /\ UNCHANGED <<tree, mode, policy, rev, dirty, snaps, proofs, mater, pass, rows, events, seen>>

\* A snapshot is sealed when its coverage is complete and nothing blocks.
ReadyForSeal == sc.whole

\* Mutant: hashes are kept from one analysis to the next.
SealWithOldHashes ==
    LET a == sc.by
        n == Len(snaps) + 1 IN
    /\ Locked /\ sc.at = "open" /\ sc.queue = <<>> /\ sc.side = "tgt"
    /\ sc' = NoScan
    /\ snaps' = Append(snaps, IF ReadyForSeal THEN sc.got ELSE NoScan.got)
    /\ proofs' = Append(proofs, IF proofs = <<>> THEN [s \in Sides |-> Empty] ELSE proofs[n - 1])
    /\ mater' = [mater EXCEPT ![pass[a].rev] = [an |-> n, state |-> IF ReadyForSeal THEN "SEALED" ELSE "BLOCKED"]]
    /\ pass' = [pass EXCEPT ![a] = IF ReadyForSeal THEN [@ EXCEPT !.pc = "hash", !.an = n, !.read = proofs'[n]]
                                   ELSE [Fresh("done") EXCEPT !.out.state = "BLOCKED"]]
    /\ UNCHANGED <<tree, mode, policy, rev, dirty, rows, events, seen>>

\* The row of the revision that was the candidate, whether it is still active or not.
Upsert(r, n, state) == [mater EXCEPT ![r] = [an |-> n, state |-> state]]

\* Both snapshots are sealed, or neither, with the materialization row.
SealSnapshots ==
    LET a == sc.by
        n == Len(snaps) + 1 IN
    /\ Locked /\ sc.at = "open" /\ sc.queue = <<>> /\ sc.side = "tgt"
    /\ sc' = NoScan
    /\ snaps' = Append(snaps, IF ReadyForSeal THEN sc.got ELSE NoScan.got)
    /\ proofs' = Append(proofs, [s \in Sides |-> Empty])
    /\ mater' = Upsert(pass[a].rev, n, IF ReadyForSeal THEN "SEALED" ELSE "BLOCKED")
    /\ pass' = [pass EXCEPT ![a] = IF ReadyForSeal THEN [@ EXCEPT !.pc = "hash", !.an = n]
                                   ELSE IF a = "check" THEN [Fresh("done") EXCEPT !.out.state = "BLOCKED"]
                                   ELSE Fresh("plan")]
    /\ UNCHANGED <<tree, mode, policy, rev, dirty, rows, events, seen>>

\* A root that cannot be read, or a limit: the transaction is rolled back and
\* the revision's row says BLOCKED.
ScanFails ==
    /\ Locked /\ events > 0
    /\ events' = events - 1 /\ sc' = NoScan
    /\ mater' = Upsert(pass[sc.by].rev, 0, "BLOCKED")
    /\ pass' = [pass EXCEPT ![sc.by] = IF sc.by = "check" THEN [Fresh("done") EXCEPT !.out.state = "BLOCKED"]
                                       ELSE Fresh("plan")]
    /\ UNCHANGED <<tree, mode, policy, rev, dirty, snaps, proofs, rows, seen>>

-----------------------------------------------------------------------------
(* Hash evidence.                                                          *)

Snap(a) == snaps[pass[a].an]
Pairs(a) == CandidatePairs(Snap(a)["src"], Snap(a)["tgt"], mode)
Needed(a) == {<<"src", pr[1]>> : pr \in Pairs(a)} \cup {<<"tgt", pr[2]>> : pr \in Pairs(a)}
Unread(a) == {f \in Needed(a) : pass[a].read[f[1]][f[2]] = 0}

\* Where a pass goes when its evidence is refused: the check ends BLOCKED, the
\* start pass plans all the same.
NoEvidence(a) == IF a = "check" THEN [Fresh("done") EXCEPT !.out.state = "BLOCKED"] ELSE Fresh("plan")

HashCollision(a) == \E s \in Sides : Collides(Snap(a)[s], mode)

RefuseHashing(a) ==
    /\ pass[a].pc = "hash" /\ HashCollision(a)
    /\ pass' = [pass EXCEPT ![a] = NoEvidence(a)]
    /\ UNCHANGED <<tree, mode, policy, rev, sc, dirty, snaps, proofs, mater, rows, events, seen>>

\* A file is opened: it must still be a file of the snapshot's size.
OpenFile(a) ==
    LET f == CHOOSE g \in Unread(a) : TRUE
        o == tree[f[1]][f[2]] IN
    /\ pass[a].pc = "hash" /\ ~HashCollision(a) /\ pass[a].file = <<>> /\ Unread(a) # {}
    /\ pass' = [pass EXCEPT ![a] = IF IsFile(o) /\ SizeOf(o) = Snap(a)[f[1]][f[2]]
                                   THEN [@ EXCEPT !.file = f, !.cur = o, !.torn = FALSE]
                                   ELSE NoEvidence(a)]
    /\ UNCHANGED <<tree, mode, policy, rev, sc, dirty, snaps, proofs, mater, rows, events, seen>>

\* The handle's fingerprint at the end is the one at the start, or the hash is not used.
ReadFile(a) ==
    LET f == pass[a].file IN
    /\ pass[a].pc = "hash" /\ f # <<>>
    /\ pass' = [pass EXCEPT ![a] = IF pass[a].torn THEN NoEvidence(a)
                                   ELSE [@ EXCEPT !.read[f[1]][f[2]] = pass[a].cur, !.file = <<>>, !.cur = 0]]
    /\ UNCHANGED <<tree, mode, policy, rev, sc, dirty, snaps, proofs, mater, rows, events, seen>>

\* Another pass recorded different evidence for the same entry.
EvidenceConflict(a) ==
    \E s \in Sides, p \in Paths : /\ pass[a].read[s][p] # 0 /\ proofs[pass[a].an][s][p] # 0
                                  /\ pass[a].read[s][p] # proofs[pass[a].an][s][p]

\* A row that is there is kept; evidence is added and never changed.
Recorded(old, read) == [s \in Sides |-> [p \in Paths |-> IF old[s][p] # 0 THEN old[s][p] ELSE read[s][p]]]

\* One transaction; a conflict raises and ends the pass.
PersistEvidence(a) ==
    LET n == pass[a].an IN
    /\ pass[a].pc = "hash" /\ ~HashCollision(a) /\ pass[a].file = <<>> /\ Unread(a) = {} /\ ~Locked
    /\ IF EvidenceConflict(a)
       THEN /\ pass' = [pass EXCEPT ![a] = [Fresh("done") EXCEPT !.out.state = "FAILED"]]
            /\ UNCHANGED proofs
       ELSE /\ proofs' = [proofs EXCEPT ![n] = Recorded(@, pass[a].read)]
            /\ pass' = [pass EXCEPT ![a] = [Fresh("plan") EXCEPT !.an = n]]
    /\ UNCHANGED <<tree, mode, policy, rev, sc, dirty, snaps, mater, rows, events, seen>>

-----------------------------------------------------------------------------
(* Building and saving the plan.                                           *)

TerminalRows == {i \in DOMAIN rows : rows[i].rev = rev /\ rows[i].state \in {"SEALED", "NO_CHANGES"}}

\* Without force the newest SEALED or NO_CHANGES result of the revision is the answer.
KeepResult(a) ==
    /\ pass[a].pc = "plan" /\ a = "start" /\ TerminalRows # {}
    /\ pass' = [pass EXCEPT ![a] = Fresh("done")]
    /\ UNCHANGED <<tree, mode, policy, rev, sc, dirty, snaps, proofs, mater, rows, events, seen>>

\* Both snapshots of the candidate's analysis are sealed and no names collide.
CanPlan(row) == /\ row.state = "SEALED"
                /\ \A s \in Sides : ~Collides(snaps[row.an][s], mode)

Result(state, row, ops) == [state |-> state, rev |-> rev, an |-> row.an, ops |-> ops]

SealResult(row, ops) ==
    IF ops = {} THEN Result("NO_CHANGES", row, {})
    ELSE IF Sealable(ops) /\ Acyclic(ops) THEN Result("SEALED", row, ops)
    ELSE Result("FAILED", row, {})

Build(row) ==
    IF CanPlan(row)
    THEN SealResult(row, PlanTarget(snaps[row.an]["src"], snaps[row.an]["tgt"], proofs[row.an], mode, policy))
    ELSE Result("BLOCKED", row, {})

\* The active revision and its materialization are read again here.
BuildPlan(a) ==
    /\ pass[a].pc = "plan" /\ (a = "start" => TerminalRows = {})
    /\ pass' = [pass EXCEPT ![a] = [Fresh("save") EXCEPT !.out = Build(ActiveRow)]]
    /\ UNCHANGED <<tree, mode, policy, rev, sc, dirty, snaps, proofs, mater, rows, events, seen>>

\* Inside the transaction: still the active revision, still these snapshots.
StillCandidate(out) == out.rev = rev /\ ActiveRow.an = out.an /\ ActiveRow.state = "SEALED"

\* A plan is saved with its result row; a candidate that changed is a FAILED result.
SavedAs(out) == IF out.state = "SEALED" /\ ~StillCandidate(out)
              THEN [out EXCEPT !.state = "FAILED", !.ops = {}] ELSE out

SaveResult(a) ==
    LET kept == SavedAs(pass[a].out) IN
    /\ pass[a].pc = "save" /\ ~Locked
    /\ rows' = Append(rows, kept)
    /\ pass' = [pass EXCEPT ![a] = [Fresh("done") EXCEPT !.out = IF a = "check" THEN kept ELSE NoOut]]
    /\ UNCHANGED <<tree, mode, policy, rev, sc, dirty, snaps, proofs, mater, events, seen>>

-----------------------------------------------------------------------------
(* What happens around the passes.                                         *)

RequestCheck ==
    /\ pass["check"].pc = "idle"
    /\ pass' = [pass EXCEPT !["check"] = Fresh("begin")]
    /\ UNCHANGED <<tree, mode, policy, rev, sc, dirty, snaps, proofs, mater, rows, events, seen>>

\* The next maintenance round builds the runtime again.
RunAgain ==
    /\ pass["start"].pc = "done" /\ events > 0
    /\ events' = events - 1
    /\ pass' = [pass EXCEPT !["start"] = Fresh("begin")]
    /\ UNCHANGED <<tree, mode, policy, rev, sc, dirty, snaps, proofs, mater, rows, seen>>

EditJob ==
    /\ rev < MaxAnRevs /\ events > 0
    /\ events' = events - 1 /\ rev' = rev + 1
    /\ UNCHANGED <<tree, mode, policy, sc, dirty, snaps, proofs, mater, pass, rows, seen>>

\* Someone writes, replaces, adds or removes an object.  Writing in place
\* changes the file's fingerprint and not its directory's signature; a handle
\* that is already open keeps reading a file that was replaced.
EditTree(s, p, o, inPlace) ==
    LET new == [tree[s] EXCEPT ![p] = o] IN
    /\ events > 0 /\ o # tree[s][p]
    /\ inPlace => IsFile(o) /\ IsFile(tree[s][p])
    /\ Tree(new, IF s = "src" THEN "SENSITIVE" ELSE mode)
    /\ events' = events - 1
    /\ tree' = [tree EXCEPT ![s] = new]
    /\ dirty' = IF Locked /\ sc.side = s /\ sc.queue # <<>> /\ (p = Dir \/ (~inPlace /\ Parent(p) = Dir))
                THEN TRUE ELSE dirty
    /\ pass' = [a \in Passes |-> IF inPlace /\ pass[a].file = <<s, p>>
                                 THEN [pass[a] EXCEPT !.torn = TRUE] ELSE pass[a]]
    /\ seen' = [seen EXCEPT ![s] = @ \cup {new}]
    /\ UNCHANGED <<mode, policy, rev, sc, snaps, proofs, mater, rows>>

\* The process ends: the scan's transaction is rolled back.  The next host
\* makes its start pass and puts an unfinished check back in the queue.
AnStops ==
    /\ events > 0 /\ \E a \in Passes : pass[a].pc \notin {"idle", "begin", "done"}
    /\ events' = events - 1 /\ sc' = NoScan
    /\ pass' = [a \in Passes |-> IF a = "start" THEN Fresh("begin")
                                 ELSE IF pass[a].pc \in {"idle", "done"} THEN pass[a] ELSE Fresh("begin")]
    /\ UNCHANGED <<tree, mode, policy, rev, dirty, snaps, proofs, mater, rows, seen>>

PassStep(a) ==
    \/ ReuseSnapshots(a) \/ BeginScan(a)
    \/ RefuseHashing(a) \/ OpenFile(a) \/ ReadFile(a) \/ PersistEvidence(a)
    \/ KeepResult(a) \/ BuildPlan(a) \/ SaveResult(a)

ScanStep == OpenDirectory \/ ListDirectory \/ StatChildren \/ CloseDirectory \/ ScanTarget \/ SealSnapshots

\* The trees the model starts from: every pair the planner can tell apart when
\* nothing happens to them, and one pair when edits, faults and stops may come.
SourceTrees == {t \in [Paths -> {0, 1, Folder}] : Tree(t, "SENSITIVE")}
TargetTrees(m) == {t \in [Paths -> Objects] : Tree(t, m) /\ t[1] \in {0, 2, Folder} /\ t[3] # 3 /\ (t[2] = 3 => t[3] = 0) /\ t[4] \in {0, 2}}
LiveTree == [s \in Sides |-> [p \in Paths |-> CASE p = 1 -> Folder [] p = 2 -> 1
                                                [] p = 3 -> 1 [] OTHER -> 0]]

AnInit ==
    /\ mode \in {"SENSITIVE", "INSENSITIVE"} /\ policy \in Policies
    /\ \/ /\ events = 0 /\ (mode = "SENSITIVE" => policy = "NEW_AND_CHANGED_WITH_VERSIONS")
          /\ \E s \in SourceTrees, t \in TargetTrees(mode) : tree = [x \in Sides |-> IF x = "src" THEN s ELSE t]
          /\ pass = [a \in Passes |-> Fresh(IF a = "check" THEN "begin" ELSE "done")]
       \/ /\ tree = LiveTree /\ mode = "INSENSITIVE" /\ policy = "NEW_AND_CHANGED_WITH_VERSIONS"
          /\ \/ events = MaxAnEvents /\ pass = [a \in Passes |-> Fresh(IF a = "check" THEN "begin" ELSE "idle")]
             \/ events = 1 /\ pass = [a \in Passes |-> Fresh(IF a = "check" THEN "idle" ELSE "begin")]
    /\ rev = 1 /\ sc = NoScan /\ dirty = FALSE /\ snaps = <<>> /\ proofs = <<>>
    /\ mater = [r \in 1..MaxAnRevs |-> [an |-> 0, state |-> "NONE"]]
    /\ rows = <<>>
    /\ seen = [s \in Sides |-> {tree[s]}]

AnNext == \/ \E a \in Passes : PassStep(a)
          \/ ScanStep \/ ScanFails
          \/ RequestCheck \/ RunAgain \/ EditJob \/ AnStops
          \/ \E s \in Sides, p \in Paths, o \in Objects, inPlace \in BOOLEAN : EditTree(s, p, o, inPlace)

AnSpec == AnInit /\ [][AnNext]_anVars

AnFairness == WF_anVars(ScanStep) /\ \A a \in Passes : WF_anVars(PassStep(a))

-----------------------------------------------------------------------------
(* Properties.                                                             *)

\* The state is well formed, and a plan that was saved has operations.
AnTypeOK ==
    /\ \A s \in Sides : Tree(tree[s], IF s = "src" THEN "SENSITIVE" ELSE mode)
    /\ rev \in 1..MaxAnRevs /\ events \in 0..MaxAnEvents /\ dirty \in BOOLEAN
    /\ sc.by \in Passes \cup {"none"} /\ sc.try \in 0..MaxRescans
    /\ Len(proofs) = Len(snaps)
    /\ \A a \in Passes : /\ pass[a].pc \in {"idle", "begin", "scan", "hash", "plan", "save", "done"}
                         /\ pass[a].pc = "scan" <=> sc.by = a
    /\ \A i \in DOMAIN rows : /\ rows[i].state \in {"SEALED", "NO_CHANGES", "BLOCKED", "FAILED"}
                             /\ (rows[i].state = "SEALED") <=> (rows[i].ops # {})

\* What stands in a folder: names and kinds, of a tree and of a snapshot.
Listing(t, d) == [p \in {x \in Paths : Parent(x) = d} |-> IF IsFile(t[p]) THEN 1 ELSE t[p]]
Listed(e, d) == [p \in {x \in Paths : Parent(x) = d} |-> IF e[p] = 2 THEN 1 ELSE e[p]]

\* The snapshots a check seals are true: the listing of every directory in them
\* is one the directory had at some single moment of the check, though names are
\* read before the objects, and a file's size is one it had.
SnapshotIsTrue ==
    LET me == pass["check"] IN
    (me.pc = "hash") =>
        \A s \in Sides :
            /\ \A d \in {0, 1} : \E t \in seen[s] : Listing(t, d) = Listed(snaps[me.an][s], d)
            /\ \A p \in Paths : \E t \in seen[s] : snaps[me.an][s][p] = Entry(t[p])

\* The objects a path had since the check began.
Had(s, p) == {t[p] : t \in seen[s]}

\* A check that answers NO_CHANGES is right: each file that the source kept had,
\* at some moment of the check, a content its twin in the target also had, however
\* old the snapshots are whose evidence another pass recorded.
NoChangesIsTrue ==
    (pass["check"].pc = "done" /\ pass["check"].out.state = "NO_CHANGES") =>
        \A p \in Paths :
            (Had("src", p) \subseteq Contents) =>
                \E q \in Paths : Key(q, mode) = Key(p, mode) /\ Had("src", p) \cap Had("tgt", q) # {}

\* What stands at a target name, and what is left out of a plan on purpose.
TargetAt(k) == {tree["tgt"][q] : q \in AtKey(tree["tgt"], k, mode)}
LeftOut(p) == \/ policy = "ANALYZE_ONLY"
              \/ TargetAt(Key(p, mode)) # {} /\ policy = "NEW_FILES_ONLY"
              \/ TargetAt(Key(p, mode)) = {Folder} /\ tree["src"][p] # Folder

\* The only analysis made, and nobody edits the folders meanwhile.
Calm == Len(snaps) = 1 /\ \A s \in Sides : seen[s] = {tree[s]}

\* Of a job's first check, on folders at rest: doing its plan makes every name of
\* the source's tree hold the source's object in the target, but for what the job's
\* policy leaves out, and NO_CHANGES means it holds it already.  No two of its
\* operations write the same name.
PlanMakesCopy ==
    LET out == pass["check"].out IN
    (Calm /\ (out.state = "NO_CHANGES" \/ Runnable(out.ops))) =>
        /\ \A op1, op2 \in out.ops : Key(op1.path, mode) = Key(op2.path, mode) => op1 = op2
        /\ \A p \in Held(tree["src"]) :
            \/ \E op \in out.ops : op.path = p /\ op.kind \in {"COPY_NEW", "CREATE_DIRECTORY"}
            \/ TargetAt(Key(p, mode)) = {tree["src"][p]}
            \/ LeftOut(p) /\ \E op \in out.ops : op.path = p

\* No order the dependencies allow does an operation before its folder is there,
\* and none replaces what the policy protects.
ParentsFirst ==
    \A i \in DOMAIN rows : Runnable(rows[i].ops) =>
        \A op \in rows[i].ops : (op.kind \in {"COPY_NEW", "CREATE_DIRECTORY"}) =>
            /\ \/ Parent(op.path) = 0
               \/ snaps[rows[i].an]["tgt"][Parent(op.path)] = Folder
               \/ \E b \in DirectoryDependencies(rows[i].ops, op) : b.path = Parent(op.path)
            /\ op.pre # "ABSENT" => policy = "NEW_AND_CHANGED_WITH_VERSIONS"

\* A plan is saved only for the revision that is active at that moment and from
\* the snapshots that are then the revision's newest, though it was built before.
SealedForCurrent ==
    [][(Len(rows') > Len(rows) /\ rows'[Len(rows')].state = "SEALED") =>
          (rows'[Len(rows')].rev = rev /\ mater[rev] = [an |-> rows'[Len(rows')].an, state |-> "SEALED"])]_anVars

\* A check that was asked for ends, however often directories change or the host stops.
CheckEnds == []<>(pass["check"].pc \in {"idle", "done"})
=============================================================================
