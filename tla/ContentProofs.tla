---------------------------- MODULE ContentProofs ----------------------------
(***************************************************************************)
(* Proofs about what a check reads.  The first part is about Analysis: any *)
(* edits of the folders and the job while two passes scan, hash and plan.  *)
(* The second is about Duplicates: any batch, cache and number of          *)
(* attempts, edits, faults and stops.                                      *)
(***************************************************************************)
EXTENDS JobWork, JobProofs, SequenceTheorems, FiniteSetTheorems, TLAPS

(* The contents of a check: the inductive invariant.                       *)

\* What a snapshot says of an object, trees, snapshots, evidence, results.
AnEntries == {0, 1, 2, Folder}
AnTrees == [Paths -> Objects]
Snapshots == [Sides -> [Paths -> AnEntries]]
Hashes == [Sides -> [Paths -> {0} \cup Contents]]
PlannedOps == [path : Paths,
               kind : {"BLOCKED", "CREATE_DIRECTORY", "COPY_NEW", "DEFER_AUTOMATION_POLICY"},
               pre : {"ABSENT", "MATCH_FINGERPRINT", "DIRECTORY_EMPTY"},
               risk : {"LOW", "MEDIUM", "HIGH", "BLOCKED"}]
Outs == [state : {"NONE", "SEALED", "NO_CHANGES", "BLOCKED", "FAILED"}, rev : Nat, an : Nat,
         ops : SUBSET PlannedOps]
PassForms == [pc : {"idle", "begin", "scan", "hash", "plan", "save", "done"}, rev : Nat, an : Nat,
              read : Hashes, file : {<<>>} \cup (Sides \X Paths), cur : {0} \cup Contents,
              torn : BOOLEAN, out : Outs]

\* The directories a scan has before it: the root, or folders found in it.
Queues == {<<>>, << 0 >>, << 1 >>, << 3 >>, <<1, 3>>}
ScanForms == [by : Passes \cup {"none"}, side : Sides, queue : Queues,
              at : {"open", "list", "stat", "close"}, names : SUBSET Paths, part : [Paths -> AnEntries],
              holes : BOOLEAN, try : 0..MaxRescans, got : Snapshots, whole : BOOLEAN]
MaterForms == [an : Nat, state : {"NONE", "SEALED", "BLOCKED"}]

\* The state is well formed, and the trees are among those that were seen.
AnTypes ==
    /\ tree \in [Sides -> AnTrees] /\ mode \in {"SENSITIVE", "INSENSITIVE"} /\ policy \in Policies
    /\ \A s \in Sides : Tree(tree[s], IF s = "src" THEN "SENSITIVE" ELSE mode)
    /\ rev \in 1..MaxAnRevs /\ events \in 0..MaxAnEvents /\ dirty \in BOOLEAN
    /\ sc \in ScanForms /\ pass \in [Passes -> PassForms]
    /\ snaps \in Seq(Snapshots) /\ proofs \in Seq(Hashes) /\ Len(proofs) = Len(snaps)
    /\ mater \in [1..MaxAnRevs -> MaterForms] /\ rows \in Seq(Outs)
    /\ seen \in [Sides -> SUBSET AnTrees] /\ \A s \in Sides : tree[s] \in seen[s]
    /\ \A t \in seen["src"] : Tree(t, "SENSITIVE")

\* A scan is the work of one pass; what it has read of a directory is of its
\* children, and what it has of the folder's children comes after the folder.
ScanShape ==
    /\ sc.by = "none" => sc = NoScan
    /\ \A a \in Passes : pass[a].pc = "scan" <=> sc.by = a
    /\ sc.at # "open" => sc.queue # <<>>
    /\ sc.at \in {"stat", "close"} => \A p \in sc.names : Parent(p) = Dir
    /\ sc.at = "close" => \A p \in Paths : sc.part[p] # 0 => Parent(p) = Dir
    /\ sc.got["src"][2] # 0 => sc.got["src"][1] = Folder
    /\ (sc.side = "src" /\ sc.queue = << 0 >>) => sc.got["src"][2] = 0
    /\ (sc.side = "src" /\ sc.queue \in {<< 1 >>, <<1, 3>>}) => sc.got["src"][1] = Folder

\* A file the source has kept since the check began.
Stayed(p) == Had("src", p) \subseteq Contents
Found(e) == e \in {1, 2}

\* A scan that has missed nothing has such a file, or will come to it.
WillFind(p) ==
    \/ Found(sc.got["src"][p])
    \/ /\ p # 2 /\ sc.side = "src" /\ sc.queue = << 0 >>
       /\ sc.at = "stat" => p \in sc.names
       /\ sc.at = "close" => Found(sc.part[p])
    \/ /\ p = 2 /\ sc.side = "src" /\ sc.queue = << 0 >>
       /\ sc.at = "stat" => 1 \in sc.names
       /\ sc.at = "close" => sc.part[1] = Folder
    \/ /\ p = 2 /\ sc.side = "src" /\ sc.queue \in {<< 1 >>, <<1, 3>>}
       /\ sc.at = "stat" => 2 \in sc.names
       /\ sc.at = "close" => Found(sc.part[2])
ReadRight(p) == (sc.side = "src" /\ sc.at = "close" /\ sc.part[p] # 0) => Found(sc.part[p])
ScanFinds ==
    sc.by # "none" => \A p \in Paths : Stayed(p) => (sc.whole => WillFind(p)) /\ ReadRight(p)

\* A sealed snapshot is of a revision there is, and has the folder of each file.
SealedShape ==
    \A r \in 1..MaxAnRevs : mater[r].state = "SEALED" =>
        /\ r <= rev /\ mater[r].an \in 1..Len(snaps)
        /\ snaps[mater[r].an]["src"][2] # 0 => snaps[mater[r].an]["src"][1] = Folder

\* Where a pass stands.
PassStands ==
    \A a \in Passes :
        /\ pass[a].an <= Len(snaps)
        /\ pass[a].pc = "scan" => /\ pass[a].rev \in 1..rev /\ pass[a].file = <<>>
                                  /\ pass[a].read = [s \in Sides |-> Empty]
        /\ (pass[a].pc = "hash" \/ (a = "check" /\ pass[a].pc = "plan")) => pass[a].an >= 1

\* Evidence of what a file was at some moment of the check.
EvidenceIn(ev) == \A s \in Sides, p \in Paths : ev[s][p] # 0 => ev[s][p] \in Had(s, p)

\* While a check scans, no later revision is sealed; from then on whatever it
\* may plan from is not older than its own snapshots.
Since == pass["check"].an
CheckedLast ==
    /\ pass["check"].pc = "scan" =>
        \A r \in 1..MaxAnRevs : r > pass["check"].rev => mater[r].state # "SEALED"
    /\ pass["check"].pc \in {"hash", "plan"} =>
        \A r \in 1..MaxAnRevs : (r >= rev /\ mater[r].state = "SEALED") => mater[r].an >= Since
SnapshotsFind ==
    pass["check"].pc \in {"hash", "plan"} =>
        \A r \in 1..MaxAnRevs : (mater[r].state = "SEALED" /\ mater[r].an >= Since) =>
            \A p \in Paths : Stayed(p) => Found(snaps[mater[r].an]["src"][p])
EvidenceIsNew ==
    pass["check"].pc \in {"hash", "plan"} =>
        \A m \in 1..Len(proofs) : m >= Since => EvidenceIn(proofs[m])
ReadingIsNew ==
    pass["check"].pc \in {"hash", "plan"} =>
        \A a \in Passes : (pass[a].pc = "hash" /\ pass[a].an >= Since) =>
            /\ EvidenceIn(pass[a].read)
            /\ pass[a].file # <<>> => pass[a].cur \in Had(pass[a].file[1], pass[a].file[2])

\* The two sides had a common content at each file that stayed.
SameAtSomeMoment ==
    \A p \in Paths : Stayed(p) =>
        \E q \in Paths : Key(q, mode) = Key(p, mode) /\ Had("src", p) \cap Had("tgt", q) # {}
AnswerIsTrue == pass["check"].out.state = "NO_CHANGES" => SameAtSomeMoment

\* What a plan that can be run owes to its snapshots.
ParentsOf(out, ss) ==
    \A op \in out.ops : (op.kind \in {"COPY_NEW", "CREATE_DIRECTORY"}) =>
        /\ \/ Parent(op.path) = 0
           \/ ss[out.an]["tgt"][Parent(op.path)] = Folder
           \/ \E b \in DirectoryDependencies(out.ops, op) : b.path = Parent(op.path)
        /\ op.pre # "ABSENT" => policy = "NEW_AND_CHANGED_WITH_VERSIONS"
OutFits(out, ss) ==
    /\ out.state = "SEALED" <=> out.ops # {}
    /\ out.ops # {} => out.an \in 1..Len(ss)
    /\ Runnable(out.ops) => ParentsOf(out, ss)
OutShape(out) == OutFits(out, snaps)
PlansShape ==
    /\ \A a \in Passes : OutShape(pass[a].out) /\ (pass[a].pc = "save" => pass[a].out.state # "NONE")
    /\ \A i \in DOMAIN rows : OutShape(rows[i]) /\ rows[i].state # "NONE"

AnInv ==
    /\ AnTypes /\ ScanShape /\ ScanFinds /\ SealedShape /\ PassStands /\ CheckedLast
    /\ SnapshotsFind /\ EvidenceIsNew /\ ReadingIsNew /\ AnswerIsTrue /\ PlansShape

\* The paths, the sides and what stands at them.
LEMMA AnConstants ==
    /\ Sides = {"src", "tgt"} /\ Passes = {"check", "start"} /\ Paths = {1, 2, 3, 4}
    /\ Folder = 9 /\ Contents = {1, 2, 3} /\ Objects = {0, 9, 1, 2, 3}
    /\ MaxRescans \in Nat /\ MaxAnRevs \in Nat \ {0} /\ MaxAnEvents \in Nat \ {0}
BY AnalysisAssumption DEF Sides, Passes, Paths, Folder, Contents, Objects

\* The folder of a path.
LEMMA Parents ==
    /\ Parent(1) = 0 /\ Parent(2) = 1 /\ Parent(3) = 0 /\ Parent(4) = 0
    /\ \A p \in Paths : Parent(p) \in {0, 1} /\ (Parent(p) = 1 <=> p = 2)
BY AnConstants DEF Parent

\* What a snapshot keeps of an object.
LEMMA EntryForms ==
    /\ \A o \in Objects : Entry(o) \in AnEntries /\ (Entry(o) = 0 <=> o = 0)
    /\ \A o \in Contents : Entry(o) \in {1, 2}
    /\ Entry(Folder) = Folder
BY AnConstants DEF Entry, IsFile, SizeOf, AnEntries

\* The queues a scan has.
LEMMA QueueForms ==
    /\ \A q \in Queues : q # <<>> =>
         /\ Head(q) \in {0, 1, 3} /\ (Head(q) = 0 <=> q = << 0 >>)
         /\ Head(q) = 1 <=> q \in {<< 1 >>, <<1, 3>>}
         /\ Tail(q) \in {<<>>, << 3 >>} /\ (Head(q) = 0 => Tail(q) = <<>>)
    /\ << 0 >> # <<>> /\ << 1 >> # <<>> /\ <<1, 3>> # <<>> /\ << 3 >> # <<>>
    /\ << 0 >> \notin {<< 1 >>, <<1, 3>>, << 3 >>} /\ << 3 >> \notin {<< 1 >>, <<1, 3>>}
<1>1. Head(<< 0 >>) = 0 /\ Tail(<< 0 >>) = <<>> /\ Head(<< 1 >>) = 1 /\ Tail(<< 1 >>) = <<>>
    OBVIOUS
<1>2. Head(<< 3 >>) = 3 /\ Tail(<< 3 >>) = <<>> /\ Head(<<1, 3>>) = 1 /\ Tail(<<1, 3>>) = << 3 >>
    OBVIOUS
<1>3. << 0 >> # <<>> /\ << 1 >> # <<>> /\ <<1, 3>> # <<>> /\ << 3 >> # <<>>
    OBVIOUS
<1>4. << 0 >> \notin {<< 1 >>, <<1, 3>>, << 3 >>} /\ << 3 >> \notin {<< 1 >>, <<1, 3>>}
    BY <1>1, <1>2
<1> QED
    BY <1>1, <1>2, <1>3, <1>4 DEF Queues

\* What the folders of a directory add to the queue, and none to a used one.
LEMMA FolderForms ==
    ASSUME NEW part \in [Paths -> AnEntries]
    PROVE  /\ Folders(part) \in {<<>>, << 1 >>, << 3 >>, <<1, 3>>}
           /\ part[1] = Folder => Folders(part) \in {<< 1 >>, <<1, 3>>}
           /\ Folders(part) \in {<< 1 >>, <<1, 3>>} => part[1] = Folder
           /\ (part[1] = 0 /\ part[3] = 0) => Folders(part) = <<>>
<1>1. << 1 >> \o << 3 >> = <<1, 3>> /\ << 1 >> \o <<>> = << 1 >> /\ <<>> \o << 3 >> = << 3 >> /\ <<>> \o <<>> = <<>>
  <2>1. << 1 >> \o << 3 >> \in Seq(Nat) /\ <<1, 3>> \in Seq(Nat) /\ << 1 >> \in Seq(Nat) /\ << 3 >> \in Seq(Nat)
      OBVIOUS
  <2>2. /\ Len(<< 1 >> \o << 3 >>) = 2 /\ Len(<<1, 3>>) = 2
        /\ \A i \in 1..2 : (<< 1 >> \o << 3 >>)[i] = <<1, 3>>[i]
      OBVIOUS
  <2>3. << 1 >> \o << 3 >> = <<1, 3>>
      BY <2>1, <2>2, SeqEqual
  <2> QED
      BY <2>1, <2>3, ConcatEmptySeq
<1>2. Folder # 0
    BY DEF Folder
<1>3. CASE part[1] = Folder /\ part[3] = Folder
    BY <1>1, <1>2, <1>3 DEF Folders
<1>4. CASE part[1] = Folder /\ part[3] # Folder
    BY <1>1, <1>2, <1>4 DEF Folders
<1>5. CASE part[1] # Folder /\ part[3] = Folder
    BY <1>1, <1>2, <1>5, QueueForms DEF Folders
<1>6. CASE part[1] # Folder /\ part[3] # Folder
    BY <1>1, <1>2, <1>6, QueueForms DEF Folders
<1> QED
    BY <1>3, <1>4, <1>5, <1>6

\* A pass that begins anew.
LEMMA FreshForms ==
    ASSUME NEW pc \in {"idle", "begin", "scan", "hash", "plan", "save", "done"}
    PROVE  /\ Fresh(pc) \in PassForms
           /\ Fresh(pc).pc = pc /\ Fresh(pc).rev = 0 /\ Fresh(pc).an = 0 /\ Fresh(pc).file = <<>>
           /\ Fresh(pc).out = NoOut /\ Fresh(pc).read = [s \in Sides |-> Empty]
<1>1. NoOut \in Outs
    BY DEF NoOut, Outs
<1>2. Empty \in [Paths -> {0} \cup Contents]
    BY DEF Empty
<1>3. [s \in Sides |-> Empty] \in Hashes
    BY <1>2 DEF Hashes
<1> QED
    BY <1>1, <1>3 DEF Fresh, PassForms

\* Nothing scanned.
LEMMA NoScanForms ==
    /\ NoScan \in ScanForms /\ NoScan.by = "none" /\ NoScan.at = "open" /\ NoScan.queue = <<>>
    /\ NoScan.got = [s \in Sides |-> Empty] /\ NoScan.side = "src" /\ NoScan.whole /\ NoScan.try = 0
    /\ NoScan.got["src"][2] = 0 /\ NoScan.names = {}
<1>1. Empty \in [Paths -> AnEntries] /\ Empty[2] = 0
    BY AnConstants DEF Empty, AnEntries
<1>2. [s \in Sides |-> Empty] \in Snapshots
    BY <1>1 DEF Snapshots
<1>3. 0 \in 0..MaxRescans
    BY AnConstants
<1>4. "src" \in Sides
    BY AnConstants
<1> QED
    BY <1>1, <1>2, <1>3, <1>4 DEF NoScan, ScanForms, Queues

\* No result yet.
LEMMA NoOutForms == NoOut \in Outs /\ NoOut.state = "NONE" /\ NoOut.ops = {} /\ OutShape(NoOut)
<1>1. NoOut \in Outs /\ NoOut.state = "NONE" /\ NoOut.ops = {}
    BY DEF NoOut, Outs
<1>2. ~Runnable({})
    BY DEF Runnable
<1> QED
    BY <1>1, <1>2 DEF OutShape, OutFits

-----------------------------------------------------------------------------
(* What a step leaves as it is.                                            *)

\* What was there, was there: the seen trees of a check only become more.
LEMMA MoreSeen ==
    ASSUME AnTypes, \A s \in Sides : seen[s] \subseteq seen'[s]
    PROVE  /\ \A s \in Sides, p \in Paths : Had(s, p) \subseteq Had(s, p)'
           /\ \A p \in Paths : Stayed(p)' => Stayed(p)
<1>1. \A s \in Sides, p \in Paths : Had(s, p) \subseteq Had(s, p)'
    BY DEF Had
<1> QED
    BY <1>1, AnConstants DEF Stayed

\* A result keeps its shape while snapshots are only added.
LEMMA OutsStay ==
    ASSUME NEW out \in Outs, NEW ss \in Seq(Snapshots), NEW more \in Seq(Snapshots), OutFits(out, ss),
           Len(more) >= Len(ss), \A i \in 1..Len(ss) : more[i] = ss[i]
    PROVE  OutFits(out, more)
<1>1. Len(ss) \in Nat /\ Len(more) \in Nat
    OBVIOUS
<1>2. out.ops # {} => out.an \in 1..Len(ss) /\ more[out.an] = ss[out.an]
    BY DEF OutFits
<1>3. Runnable(out.ops) => ParentsOf(out, ss) /\ out.ops # {}
    BY DEF OutFits, Runnable
<1>4. Runnable(out.ops) => ParentsOf(out, more)
    BY <1>2, <1>3 DEF ParentsOf
<1> QED
    BY <1>1, <1>2, <1>4 DEF OutFits, Runnable

\* A step of the scan's own reading disturbs nothing else.
LEMMA ScanOnly ==
    ASSUME AnInv, UNCHANGED <<tree, mode, policy, rev, snaps, proofs, mater, pass, rows, events, seen>>,
           dirty' \in BOOLEAN, sc' \in ScanForms, sc'.by = sc.by, ScanShape', ScanFinds'
    PROVE  AnInv'
<1>1. AnTypes'
    BY DEF AnInv, AnTypes
<1>2. SealedShape' /\ CheckedLast'
    BY DEF AnInv, SealedShape, CheckedLast, Since
<1>3. PassStands'
    BY DEF AnInv, PassStands
<1>4. SnapshotsFind' /\ EvidenceIsNew' /\ ReadingIsNew'
    BY DEF AnInv, SnapshotsFind, EvidenceIsNew, ReadingIsNew, Since, Stayed, Had, EvidenceIn
<1>5. AnswerIsTrue'
    BY DEF AnInv, AnswerIsTrue, SameAtSomeMoment, Stayed, Had
<1>6. PlansShape'
    BY DEF AnInv, PlansShape, OutShape, OutFits, ParentsOf
<1> QED
    BY <1>1, <1>2, <1>3, <1>4, <1>5, <1>6 DEF AnInv

-----------------------------------------------------------------------------
(* The steps of a scan.                                                    *)

\* A scan in progress is somebody's, and has the fields of one.
LEMMA InScan ==
    ASSUME AnInv, Locked
    PROVE  /\ sc \in ScanForms /\ sc.by # "none" /\ sc.by \in Passes /\ sc.queue \in Queues
           /\ pass[sc.by].pc = "scan"
<1>1. sc \in ScanForms
    BY DEF AnInv, AnTypes
<1>2. sc.by # "none" /\ sc.by \in Passes
    BY <1>1 DEF AnInv, ScanShape, Locked, ScanForms
<1>3. pass[sc.by].pc = "scan"
    BY <1>2 DEF AnInv, ScanShape
<1> QED
    BY <1>1, <1>2, <1>3 DEF ScanForms

\* A directory is opened.
LEMMA OpenKeeps ==
    ASSUME AnInv, OpenDirectory
    PROVE  AnInv'
<1> DEFINE gone == [sc EXCEPT !.queue = Tail(@), !.whole = FALSE, !.try = 0]
           next == [sc EXCEPT !.at = "list"]
<1>1. UNCHANGED <<tree, mode, policy, rev, snaps, proofs, mater, pass, rows, events, seen>>
    BY DEF OpenDirectory
<1>2. sc \in ScanForms /\ sc.by # "none" /\ sc.queue # <<>> /\ sc.at = "open" /\ sc.queue \in Queues
    BY InScan DEF OpenDirectory
<1>3. dirty' \in BOOLEAN
    BY DEF OpenDirectory, AnInv, AnTypes
<1>4. CASE Gone
  <2>1. sc' = gone
      BY <1>4 DEF OpenDirectory
  <2>2. Tail(sc.queue) \in {<<>>, << 3 >>}
      BY <1>2, QueueForms
  <2>3. 0 \in 0..MaxRescans
      BY AnConstants
  <2>4. sc' \in ScanForms
      BY <1>2, <2>1, <2>2, <2>3 DEF ScanForms, Queues
  <2>5. /\ sc'.by = sc.by /\ sc'.at = "open" /\ sc'.queue \in {<<>>, << 3 >>} /\ sc'.got = sc.got
        /\ sc'.side = sc.side /\ ~sc'.whole
      BY <1>2, <2>1, <2>2 DEF ScanForms
  <2>6. ScanShape'
      BY <1>1, <1>2, <2>5, QueueForms DEF AnInv, ScanShape
  <2>7. ScanFinds'
      BY <2>5 DEF ScanFinds, ReadRight
  <2> QED
      BY <1>1, <1>3, <2>4, <2>5, <2>6, <2>7, ScanOnly
<1>5. CASE ~Gone
  <2>1. sc' = next
      BY <1>5 DEF OpenDirectory
  <2>2. sc' \in ScanForms
      BY <1>2, <2>1 DEF ScanForms
  <2>3. /\ sc'.by = sc.by /\ sc'.at = "list" /\ sc'.queue = sc.queue /\ sc'.got = sc.got
        /\ sc'.side = sc.side /\ sc'.whole = sc.whole
      BY <1>2, <2>1 DEF ScanForms
  <2>4. ScanShape'
      BY <1>1, <1>2, <2>3 DEF AnInv, ScanShape
  <2>5. ScanFinds'
      BY <1>1, <1>2, <2>3 DEF AnInv, ScanFinds, ReadRight, Stayed, Had, WillFind
  <2> QED
      BY <1>1, <1>3, <2>2, <2>3, <2>4, <2>5, ScanOnly
<1> QED
    BY <1>4, <1>5

\* A file that stayed is in the tree, in the folder where it was.
LEMMA StayedIsThere ==
    ASSUME AnInv, NEW p \in Paths, Stayed(p)
    PROVE  tree["src"][p] \in Contents /\ (p = 2 => tree["src"][1] = Folder)
<1>1. tree["src"] \in seen["src"]
    BY AnConstants DEF AnInv, AnTypes
<1>2. tree["src"][p] \in Contents
    BY <1>1 DEF Stayed, Had
<1>3. Tree(tree["src"], "SENSITIVE")
    BY <1>1 DEF AnInv, AnTypes
<1> QED
    BY <1>2, <1>3, AnConstants DEF Tree

\* Its names are read: a file that stayed is among them.
LEMMA ListKeeps ==
    ASSUME AnInv, ListDirectory
    PROVE  AnInv'
<1> DEFINE gone == [sc EXCEPT !.queue = Tail(@), !.at = "open", !.whole = FALSE, !.try = 0]
           names == {p \in Held(tree[sc.side]) : Parent(p) = Dir}
           next == [sc EXCEPT !.at = "stat", !.names = names]
<1>1. UNCHANGED <<tree, mode, policy, rev, snaps, proofs, mater, pass, rows, events, seen>>
    BY DEF ListDirectory
<1>2. sc \in ScanForms /\ sc.by # "none" /\ sc.at = "list" /\ sc.queue \in Queues
    BY InScan DEF ListDirectory
<1>3. dirty' \in BOOLEAN /\ sc.queue # <<>>
    BY <1>2 DEF ListDirectory, AnInv, AnTypes, ScanShape
<1>4. CASE Gone
  <2>1. sc' = gone
      BY <1>4 DEF ListDirectory
  <2>2. Tail(sc.queue) \in {<<>>, << 3 >>}
      BY <1>2, <1>3, QueueForms
  <2>3. 0 \in 0..MaxRescans
      BY AnConstants
  <2>4. sc' \in ScanForms
      BY <1>2, <2>1, <2>2, <2>3 DEF ScanForms, Queues
  <2>5. /\ sc'.by = sc.by /\ sc'.at = "open" /\ sc'.queue \in {<<>>, << 3 >>} /\ sc'.got = sc.got
        /\ sc'.side = sc.side /\ ~sc'.whole
      BY <1>2, <2>1, <2>2 DEF ScanForms
  <2>6. ScanShape'
      BY <1>1, <1>2, <2>5, QueueForms DEF AnInv, ScanShape
  <2>7. ScanFinds'
      BY <2>5 DEF ScanFinds, ReadRight
  <2> QED
      BY <1>1, <1>3, <2>4, <2>5, <2>6, <2>7, ScanOnly
<1>5. CASE ~Gone
  <2>1. sc' = next
      BY <1>5 DEF ListDirectory
  <2>2. names \in SUBSET Paths
      BY DEF Held
  <2>3. sc' \in ScanForms
      BY <1>2, <2>1, <2>2 DEF ScanForms
  <2>4. /\ sc'.by = sc.by /\ sc'.at = "stat" /\ sc'.queue = sc.queue /\ sc'.got = sc.got
        /\ sc'.side = sc.side /\ sc'.whole = sc.whole /\ sc'.names = names
      BY <1>2, <2>1 DEF ScanForms
  <2>5. ScanShape'
      BY <1>1, <1>2, <1>3, <2>4 DEF AnInv, ScanShape, Dir
  <2>6. ASSUME NEW p \in Paths, Stayed(p), WillFind(p) PROVE WillFind(p)'
    <3>1. tree["src"][p] \in Contents /\ (p = 2 => tree["src"][1] = Folder)
        BY <2>6, StayedIsThere
    <3>2. CASE Found(sc.got["src"][p])
        BY <2>4, <3>2 DEF WillFind
    <3>3. CASE sc.side = "src" /\ sc.queue = << 0 >>
      <4>1. Dir = 0
          BY <1>3, <3>3, QueueForms, <1>2 DEF Dir
      <4>2. p # 2 => p \in names
          BY <3>1, <3>3, <4>1, Parents, AnConstants DEF Held
      <4>3. p = 2 => 1 \in names
          BY <3>1, <3>3, <4>1, Parents, AnConstants DEF Held
      <4> HIDE DEF names
      <4> QED
          BY <2>4, <3>3, <4>2, <4>3 DEF WillFind
    <3>4. CASE p = 2 /\ sc.side = "src" /\ sc.queue \in {<< 1 >>, <<1, 3>>}
      <4>1. Dir = 1
          BY <1>3, <3>4, QueueForms, <1>2 DEF Dir
      <4>2. 2 \in names
          BY <3>1, <3>4, <4>1, Parents, AnConstants DEF Held
      <4> HIDE DEF names
      <4> QED
          BY <2>4, <3>4, <4>2 DEF WillFind
    <3> QED
        BY <2>6, <3>2, <3>3, <3>4 DEF WillFind
  <2>7. \A p \in Paths : Stayed(p)' => Stayed(p)
      BY <1>1 DEF Stayed, Had
  <2>8. ScanFinds'
      BY <1>2, <2>4, <2>6, <2>7 DEF AnInv, ScanFinds, ReadRight
  <2> QED
      BY <1>1, <1>3, <2>3, <2>4, <2>5, <2>8, ScanOnly
<1> QED
    BY <1>4, <1>5

\* Its objects are inspected.
LEMMA StatKeeps ==
    ASSUME AnInv, StatChildren
    PROVE  AnInv'
<1> DEFINE part == [p \in Paths |-> IF p \in sc.names THEN Entry(tree[sc.side][p]) ELSE 0]
           holes == \E p \in sc.names : tree[sc.side][p] = 0
<1>1. UNCHANGED <<tree, mode, policy, rev, dirty, snaps, proofs, mater, pass, rows, events, seen>>
    BY DEF StatChildren
<1>2. sc \in ScanForms /\ sc.by # "none" /\ sc.at = "stat" /\ sc.queue \in Queues
    BY InScan DEF StatChildren
<1>3. dirty' \in BOOLEAN /\ sc.queue # <<>>
    BY <1>1, <1>2 DEF AnInv, AnTypes, ScanShape
<1>4. sc' = [sc EXCEPT !.at = "close", !.part = part, !.holes = holes]
    BY DEF StatChildren
<1>5. \A s \in Sides, p \in Paths : tree[s][p] \in Objects
    BY DEF AnInv, AnTypes, AnTrees
<1>6. part \in [Paths -> AnEntries]
  <2>1. 0 \in AnEntries /\ sc.side \in Sides
      BY <1>2 DEF AnEntries, ScanForms
  <2> QED
      BY <2>1, <1>5, EntryForms
<1>7. sc' \in ScanForms
    BY <1>2, <1>4, <1>6 DEF ScanForms
<1>8. /\ sc'.by = sc.by /\ sc'.at = "close" /\ sc'.queue = sc.queue /\ sc'.got = sc.got
      /\ sc'.side = sc.side /\ sc'.whole = sc.whole /\ sc'.names = sc.names /\ sc'.part = part
    BY <1>2, <1>4 DEF ScanForms
<1>9. \A p \in Paths : part[p] # 0 => p \in sc.names
    OBVIOUS
<1>10. ScanShape'
    BY <1>1, <1>2, <1>3, <1>8, <1>9 DEF AnInv, ScanShape, Dir
<1>11. ASSUME NEW p \in Paths, Stayed(p), WillFind(p) PROVE WillFind(p)'
  <2>1. tree["src"][p] \in Contents /\ (p = 2 => tree["src"][1] = Folder)
      BY <1>11, StayedIsThere
  <2>2. sc.side = "src" /\ p \in sc.names => Found(part[p])
      BY <2>1, EntryForms DEF Found
  <2>3. sc.side = "src" /\ p = 2 /\ 1 \in sc.names => part[1] = Folder
      BY <2>1, EntryForms, AnConstants
  <2> HIDE DEF part
  <2> QED
      BY <1>11, <1>2, <1>8, <2>2, <2>3 DEF WillFind
<1>12. \A p \in Paths : Stayed(p)' => Stayed(p)
    BY <1>1 DEF Stayed, Had
<1>13. ASSUME NEW p \in Paths, Stayed(p) PROVE ReadRight(p)'
  <2>1. tree["src"][p] \in Contents
      BY <1>13, StayedIsThere
  <2>2. sc.side = "src" /\ part[p] # 0 => Found(part[p])
      BY <2>1, EntryForms DEF Found
  <2> HIDE DEF part
  <2> QED
      BY <1>8, <2>2 DEF ReadRight
<1>14. ScanFinds'
    BY <1>2, <1>8, <1>11, <1>12, <1>13 DEF AnInv, ScanFinds
<1> QED
    BY <1>1, <1>3, <1>7, <1>8, <1>10, <1>14, ScanOnly

\* A directory is read again.
LEMMA RescanKeeps ==
    ASSUME AnInv, CloseDirectory, sc' = Rescan, sc.try < MaxRescans
    PROVE  AnInv'
<1>1. UNCHANGED <<tree, mode, policy, rev, dirty, snaps, proofs, mater, pass, rows, events, seen>>
    BY DEF CloseDirectory
<1>2. sc \in ScanForms /\ sc.by # "none" /\ sc.at = "close" /\ sc.queue \in Queues
    BY InScan DEF CloseDirectory
<1>3. dirty' \in BOOLEAN
    BY <1>1 DEF AnInv, AnTypes
<1>4. Empty \in [Paths -> AnEntries]
    BY DEF Empty, AnEntries
<1>5. sc.try + 1 \in 0..MaxRescans
    BY <1>2, AnConstants DEF ScanForms
<1>6. sc' \in ScanForms
    BY <1>2, <1>4, <1>5 DEF Rescan, ScanForms
<1>7. /\ sc'.by = sc.by /\ sc'.at = "open" /\ sc'.queue = sc.queue /\ sc'.got = sc.got
      /\ sc'.side = sc.side /\ sc'.whole = sc.whole
    BY <1>2 DEF Rescan, ScanForms
<1>8. ScanShape'
    BY <1>1, <1>2, <1>7 DEF AnInv, ScanShape
<1>9. ScanFinds'
    BY <1>1, <1>2, <1>7 DEF AnInv, ScanFinds, ReadRight, Stayed, Had, WillFind
<1> QED
    BY <1>1, <1>3, <1>6, <1>7, <1>8, <1>9, ScanOnly

\* What a directory that is accepted leaves of a scan.
LEMMA Accepted ==
    ASSUME AnInv, Locked, sc.at = "close", NEW complete \in BOOLEAN, NEW new, new = AcceptScan(complete)
    PROVE  /\ new \in ScanForms /\ new.by = sc.by /\ new.at = "open" /\ new.side = sc.side
           /\ sc.queue = << 0 >> => new.queue = Folders(sc.part)
           /\ sc.queue # << 0 >> => new.queue \in {<<>>, << 3 >>}
           /\ \A s \in Sides, p \in Paths : new.got[s][p] =
                 IF s = sc.side /\ sc.part[p] # 0 THEN sc.part[p] ELSE sc.got[s][p]
           /\ new.whole => sc.whole /\ complete
<1> DEFINE got == [p \in Paths |-> IF sc.part[p] # 0 THEN sc.part[p] ELSE sc.got[sc.side][p]]
           queue == Tail(sc.queue) \o Folders(sc.part)
           whole == sc.whole /\ complete /\ ~sc.holes
<1>1. sc \in ScanForms /\ sc.queue \in Queues /\ sc.queue # <<>>
    BY InScan DEF AnInv, ScanShape
<1>2. /\ sc.part \in [Paths -> AnEntries] /\ sc.got \in [Sides -> [Paths -> AnEntries]]
      /\ sc.side \in Sides
    BY <1>1 DEF ScanForms, Snapshots
<1>3. got \in [Paths -> AnEntries]
    BY <1>2
<1>4. new = [sc EXCEPT !.at = "open", !.names = {}, !.part = Empty, !.holes = FALSE, !.try = 0,
               !.queue = queue, !.got = [sc.got EXCEPT ![sc.side] = got], !.whole = whole]
    BY <1>1 DEF AcceptScan, ScanForms
<1>5. /\ Folders(sc.part) \in {<<>>, << 1 >>, << 3 >>, <<1, 3>>}
      /\ sc.part[1] = 0 /\ sc.part[3] = 0 => Folders(sc.part) = <<>>
    BY <1>2, FolderForms
<1>6. sc.queue = << 0 >> => queue = Folders(sc.part)
  <2>1. ASSUME sc.queue = << 0 >> PROVE Tail(sc.queue) = <<>>
      BY <2>1, <1>1, QueueForms
  <2>2. \A q \in {<<>>, << 1 >>, << 3 >>, <<1, 3>>} : <<>> \o q = q
      BY ConcatEmptySeq
  <2> QED
      BY <2>1, <2>2, <1>5
<1>7. sc.queue # << 0 >> => queue \in {<<>>, << 3 >>}
  <2> SUFFICES ASSUME sc.queue # << 0 >> PROVE queue \in {<<>>, << 3 >>}
      OBVIOUS
  <2>1. Dir # 0 /\ Tail(sc.queue) \in {<<>>, << 3 >>}
      BY <1>1, QueueForms DEF Dir
  <2>2. sc.part[1] = 0 /\ sc.part[3] = 0
      BY <2>1, Parents, AnConstants DEF AnInv, ScanShape
  <2>3. \A q \in {<<>>, << 3 >>} : q \o <<>> = q
      BY ConcatEmptySeq
  <2> QED
      BY <2>1, <2>2, <2>3, <1>5
<1>8. queue \in Queues
    BY <1>5, <1>6, <1>7 DEF Queues
<1>9. [sc.got EXCEPT ![sc.side] = got] \in Snapshots
    BY <1>2, <1>3 DEF Snapshots
<1>10. Empty \in [Paths -> AnEntries] /\ 0 \in 0..MaxRescans /\ whole \in BOOLEAN
    BY <1>1, AnConstants DEF Empty, AnEntries, ScanForms
<1>11. new \in ScanForms
  <2> HIDE DEF got, queue, whole
  <2> QED
      BY <1>1, <1>4, <1>8, <1>9, <1>10 DEF ScanForms
<1>12. /\ new.by = sc.by /\ new.at = "open" /\ new.side = sc.side /\ new.queue = queue
       /\ new.got = [sc.got EXCEPT ![sc.side] = got] /\ new.whole = whole
  <2> HIDE DEF got, queue, whole
  <2> QED
      BY <1>1, <1>4 DEF ScanForms
<1>13. \A s \in Sides, p \in Paths : new.got[s][p] =
          IF s = sc.side /\ sc.part[p] # 0 THEN sc.part[p] ELSE sc.got[s][p]
    BY <1>2, <1>12
<1> QED
    BY <1>6, <1>7, <1>11, <1>12, <1>13

\* A directory is accepted: its files are in the snapshot, its folders in the queue.
LEMMA AcceptKeeps ==
    ASSUME AnInv, CloseDirectory, NEW complete \in BOOLEAN, sc' = AcceptScan(complete)
    PROVE  AnInv'
<1>1. UNCHANGED <<tree, mode, policy, rev, dirty, snaps, proofs, mater, pass, rows, events, seen>>
    BY DEF CloseDirectory
<1>2. /\ sc \in ScanForms /\ sc.by # "none" /\ sc.at = "close" /\ sc.queue \in Queues /\ Locked
      /\ sc.queue # <<>>
    BY InScan DEF CloseDirectory, AnInv, ScanShape
<1>3. dirty' \in BOOLEAN
    BY <1>1 DEF AnInv, AnTypes
<1>a. PICK new : new = AcceptScan(complete)
    OBVIOUS
<1>b. /\ new \in ScanForms /\ new.by = sc.by /\ new.at = "open" /\ new.side = sc.side
      /\ sc.queue = << 0 >> => new.queue = Folders(sc.part)
      /\ sc.queue # << 0 >> => new.queue \in {<<>>, << 3 >>}
      /\ \A s \in Sides, p \in Paths : new.got[s][p] =
            IF s = sc.side /\ sc.part[p] # 0 THEN sc.part[p] ELSE sc.got[s][p]
      /\ new.whole => sc.whole /\ complete
  <2>1. AnInv /\ Locked /\ sc.at = "close"
      BY <1>2
  <2> QED
      BY <2>1, <1>a, Accepted
<1>c. sc' = new
    BY <1>a
<1>4. /\ sc' \in ScanForms /\ sc'.by = sc.by /\ sc'.at = "open" /\ sc'.side = sc.side
      /\ sc.queue = << 0 >> => sc'.queue = Folders(sc.part)
      /\ sc.queue # << 0 >> => sc'.queue \in {<<>>, << 3 >>}
      /\ sc'.whole => sc.whole
    BY <1>b, <1>c
<1>5. \A s \in Sides, p \in Paths : sc'.got[s][p] =
         IF s = sc.side /\ sc.part[p] # 0 THEN sc.part[p] ELSE sc.got[s][p]
    BY <1>b, <1>c
<1>6. sc.part \in [Paths -> AnEntries] /\ "src" \in Sides /\ 1 \in Paths /\ 2 \in Paths /\ 3 \in Paths
    BY <1>2, AnConstants DEF ScanForms
<1>7. /\ Folders(sc.part) \in {<<>>, << 1 >>, << 3 >>, <<1, 3>>}
      /\ sc.part[1] = Folder => Folders(sc.part) \in {<< 1 >>, <<1, 3>>}
      /\ Folders(sc.part) \in {<< 1 >>, <<1, 3>>} => sc.part[1] = Folder
    BY <1>6, FolderForms
<1>8. \A p \in Paths : sc.part[p] # 0 => Parent(p) = Dir
    BY <1>2 DEF AnInv, ScanShape
<1>9. /\ sc.queue = << 0 >> <=> Dir = 0
      /\ sc.queue \in {<< 1 >>, <<1, 3>>} <=> Dir = 1
    BY <1>2, QueueForms DEF Dir
<1>10. sc'.queue # << 0 >>
    BY <1>4, <1>7, QueueForms
<1>11. ScanShape'
  <2>1. sc'.got["src"][2] # 0 => sc'.got["src"][1] = Folder
    <3>1. CASE sc.side # "src"
        BY <3>1, <1>5, <1>6 DEF AnInv, ScanShape
    <3>2. CASE sc.side = "src" /\ Dir = 0
      <4>1. sc.part[2] = 0 /\ sc.got["src"][2] = 0
          BY <3>2, <1>6, <1>8, <1>9, Parents DEF AnInv, ScanShape
      <4> QED
          BY <4>1, <1>5, <1>6
    <3>3. CASE sc.side = "src" /\ Dir # 0
      <4>1. sc.part[1] = 0 /\ (Dir # 1 => sc.part[2] = 0)
          BY <3>3, <1>6, <1>8, Parents
      <4>2. Dir = 1 => sc.got["src"][1] = Folder
          BY <3>3, <1>9 DEF AnInv, ScanShape
      <4>3. sc'.got["src"][1] = sc.got["src"][1] /\ (Dir # 1 => sc'.got["src"][2] = sc.got["src"][2])
          BY <4>1, <1>5, <1>6
      <4> QED
          BY <4>2, <4>3 DEF AnInv, ScanShape
    <3> QED
        BY <3>1, <3>2, <3>3
  <2>2. (sc'.side = "src" /\ sc'.queue \in {<< 1 >>, <<1, 3>>}) => sc'.got["src"][1] = Folder
    <3>1. ASSUME sc'.side = "src", sc'.queue \in {<< 1 >>, <<1, 3>>} PROVE sc.part[1] = Folder
        BY <3>1, <1>4, <1>7, QueueForms
    <3>2. Folder # 0
        BY AnConstants
    <3> QED
        BY <3>1, <3>2, <1>4, <1>5, <1>6
  <2> QED
      BY <2>1, <2>2, <1>1, <1>2, <1>4, <1>10 DEF AnInv, ScanShape
<1>12. ASSUME NEW p \in Paths, Stayed(p), WillFind(p) PROVE WillFind(p)'
  <2>1. ASSUME Found(sc.got["src"][p]) PROVE Found(sc'.got["src"][p]) \/ (sc.side = "src" /\ sc.part[p] # 0)
      BY <2>1, <1>5, <1>6
  <2>2. CASE Found(sc.got["src"][p]) /\ ~(sc.side = "src" /\ sc.part[p] # 0)
      BY <2>1, <2>2 DEF WillFind
  <2>3. CASE sc.side = "src" /\ Found(sc.part[p])
    <3>1. sc'.got["src"][p] = sc.part[p]
        BY <2>3, <1>5, <1>6 DEF Found
    <3> QED
        BY <3>1, <2>3 DEF WillFind
  <2>4. CASE p = 2 /\ sc.side = "src" /\ sc.queue = << 0 >> /\ sc.part[1] = Folder
      BY <2>4, <1>4, <1>7 DEF WillFind
  <2>5. sc.side = "src" /\ sc.part[p] # 0 => Found(sc.part[p])
      BY <1>2, <1>12 DEF AnInv, ScanFinds, ReadRight
  <2> QED
      BY <2>2, <2>3, <2>4, <2>5, <1>2, <1>12 DEF WillFind
<1>13. \A p \in Paths : Stayed(p)' => Stayed(p)
    BY <1>1 DEF Stayed, Had
<1>14. ScanFinds'
    BY <1>2, <1>4, <1>12, <1>13 DEF AnInv, ScanFinds, ReadRight
<1> QED
    BY <1>1, <1>3, <1>4, <1>11, <1>14, ScanOnly

\* A directory is closed.
LEMMA CloseKeeps ==
    ASSUME AnInv, CloseDirectory
    PROVE  AnInv'
<1>1. (sc' = Rescan /\ sc.try < MaxRescans) \/ sc' = AcceptScan(~Gone /\ ~dirty)
    BY DEF CloseDirectory
<1>2. (~Gone /\ ~dirty) \in BOOLEAN
    OBVIOUS
<1> QED
    BY <1>1, <1>2, RescanKeeps, AcceptKeeps

\* The target is scanned after the source.
LEMMA TargetKeeps ==
    ASSUME AnInv, ScanTarget
    PROVE  AnInv'
<1>1. UNCHANGED <<tree, mode, policy, rev, dirty, snaps, proofs, mater, pass, rows, events, seen>>
    BY DEF ScanTarget
<1>2. /\ sc \in ScanForms /\ sc.by # "none" /\ sc.queue = <<>> /\ sc.at = "open"
      /\ sc' = [sc EXCEPT !.side = "tgt", !.queue = << 0 >>]
    BY InScan DEF ScanTarget
<1>3. dirty' \in BOOLEAN
    BY <1>1 DEF AnInv, AnTypes
<1>4. sc' \in ScanForms
    BY <1>2, AnConstants DEF ScanForms, Queues
<1>5. /\ sc'.by = sc.by /\ sc'.at = "open" /\ sc'.queue = << 0 >> /\ sc'.got = sc.got
      /\ sc'.side = "tgt" /\ sc'.whole = sc.whole
    BY <1>2 DEF ScanForms
<1>6. ScanShape'
    BY <1>1, <1>2, <1>5 DEF AnInv, ScanShape
<1>7. \A p \in Paths : WillFind(p) => WillFind(p)'
    BY <1>2, <1>5, QueueForms DEF WillFind
<1>8. \A p \in Paths : Stayed(p)' => Stayed(p)
    BY <1>1 DEF Stayed, Had
<1>9. ScanFinds'
    BY <1>2, <1>5, <1>7, <1>8 DEF AnInv, ScanFinds, ReadRight
<1> QED
    BY <1>1, <1>3, <1>4, <1>5, <1>6, <1>9, ScanOnly

-----------------------------------------------------------------------------
(* The steps of a pass on its own.                                         *)

\* A pass that was refused, and one whose evidence was refused.
LEMMA RefusedForms ==
    ASSUME NEW st \in {"BLOCKED", "FAILED"}
    PROVE  LET new == [Fresh("done") EXCEPT !.out.state = st] IN
           /\ new \in PassForms /\ new.pc = "done" /\ new.an = 0 /\ new.rev = 0 /\ new.file = <<>>
           /\ new.out.state = st /\ new.out.ops = {} /\ OutShape(new.out)
<1> DEFINE new == [Fresh("done") EXCEPT !.out.state = st]
<1>1. Fresh("done") \in PassForms /\ Fresh("done").pc = "done" /\ Fresh("done").an = 0
      /\ Fresh("done").rev = 0 /\ Fresh("done").file = <<>> /\ Fresh("done").out = NoOut
    BY FreshForms
<1>2. NoOut \in Outs /\ NoOut.ops = {}
    BY NoOutForms
<1>3. [NoOut EXCEPT !.state = st] \in Outs
    BY <1>2 DEF Outs
<1>4. [NoOut EXCEPT !.state = st].state = st /\ [NoOut EXCEPT !.state = st].ops = {}
    BY <1>2 DEF Outs
<1>5. new = [Fresh("done") EXCEPT !.out = [NoOut EXCEPT !.state = st]]
    BY <1>1 DEF PassForms
<1>6. /\ new \in PassForms /\ new.pc = "done" /\ new.an = 0 /\ new.rev = 0 /\ new.file = <<>>
      /\ new.out = [NoOut EXCEPT !.state = st]
    BY <1>1, <1>3, <1>5 DEF PassForms
<1>7. OutShape(new.out)
    BY <1>4, <1>6 DEF OutShape, OutFits, Runnable
<1> QED
    BY <1>4, <1>6, <1>7

\* Where a pass goes whose evidence is refused.
LEMMA NoEvidenceForms ==
    ASSUME NEW a \in Passes
    PROVE  /\ NoEvidence(a) \in PassForms /\ NoEvidence(a).pc \in {"done", "plan"}
           /\ a = "check" => NoEvidence(a).pc = "done"
           /\ NoEvidence(a).an = 0 /\ NoEvidence(a).out.state # "NO_CHANGES"
           /\ OutShape(NoEvidence(a).out)
<1>1. CASE a = "check"
    BY <1>1, RefusedForms DEF NoEvidence
<1>2. CASE a # "check"
    BY <1>2, FreshForms, NoOutForms DEF NoEvidence
<1> QED
    BY <1>1, <1>2

\* A pass moves, outside of a scan; it reads and leaves only evidence of the check.
LEMMA PassMoves ==
    ASSUME AnInv, NEW a \in Passes, NEW new \in PassForms, pass' = [pass EXCEPT ![a] = new],
           UNCHANGED <<tree, mode, policy, rev, sc, dirty, snaps, mater, seen>>,
           events' \in 0..MaxAnEvents, proofs' \in Seq(Hashes), Len(proofs') = Len(proofs),
           rows' \in Seq(Outs),
           pass[a].pc # "scan", new.pc # "scan", new.an <= Len(snaps),
           (new.pc = "hash" \/ (a = "check" /\ new.pc = "plan")) => new.an >= 1,
           (a = "check" /\ new.pc \in {"hash", "plan"}) =>
               pass[a].pc \in {"hash", "plan"} /\ new.an = pass[a].an,
           OutShape(new.out), new.pc = "save" => new.out.state # "NONE",
           (a = "check" /\ new.out.state = "NO_CHANGES") => SameAtSomeMoment,
           (new.pc = "hash" /\ pass'["check"].pc \in {"hash", "plan"} /\ new.an >= pass'["check"].an) =>
               /\ EvidenceIn(new.read)
               /\ new.file # <<>> => new.cur \in Had(new.file[1], new.file[2]),
           pass'["check"].pc \in {"hash", "plan"} =>
               \A m \in 1..Len(proofs) : m >= pass'["check"].an =>
                   proofs'[m] = proofs[m] \/ EvidenceIn(proofs'[m]),
           \A i \in DOMAIN rows' : OutShape(rows'[i]) /\ rows'[i].state # "NONE"
    PROVE  AnInv'
<1>1. pass \in [Passes -> PassForms] /\ "check" \in Passes
    BY AnConstants DEF AnInv, AnTypes
<1>2. /\ pass' \in [Passes -> PassForms] /\ pass'[a] = new
      /\ \A b \in Passes : b # a => pass'[b] = pass[b]
    BY <1>1
<1>3. /\ pass'["check"].pc \in {"hash", "plan"} => pass["check"].pc \in {"hash", "plan"}
      /\ pass'["check"].pc \in {"hash", "plan"} => pass'["check"].an = pass["check"].an
      /\ pass'["check"].pc = "scan" => pass'["check"] = pass["check"]
    BY <1>1, <1>2
<1>4. AnTypes'
    BY <1>2 DEF AnInv, AnTypes
<1>5. ScanShape'
    BY <1>2 DEF AnInv, ScanShape, Dir
<1>6. ScanFinds'
    BY DEF AnInv, ScanFinds, ReadRight, WillFind, Stayed, Had
<1>7. SealedShape'
    BY DEF AnInv, SealedShape
<1>8. PassStands'
  <2> SUFFICES ASSUME NEW b \in Passes
               PROVE  /\ pass'[b].an <= Len(snaps')
                      /\ pass'[b].pc = "scan" => /\ pass'[b].rev \in 1..rev' /\ pass'[b].file = <<>>
                                                  /\ pass'[b].read = [s \in Sides |-> Empty]
                      /\ (pass'[b].pc = "hash" \/ (b = "check" /\ pass'[b].pc = "plan")) => pass'[b].an >= 1
      BY DEF PassStands
  <2>1. CASE b = a
      BY <2>1, <1>2
  <2>2. CASE b # a
      BY <2>2, <1>2 DEF AnInv, PassStands
  <2> QED
      BY <2>1, <2>2
<1>9. CheckedLast'
    BY <1>3 DEF AnInv, CheckedLast, Since
<1>10. SnapshotsFind'
    BY <1>3 DEF AnInv, SnapshotsFind, Since, Stayed, Had
<1>11. EvidenceIsNew'
  <2> SUFFICES ASSUME pass'["check"].pc \in {"hash", "plan"}, NEW m \in 1..Len(proofs'), m >= pass'["check"].an,
                      NEW s \in Sides, NEW p \in Paths, proofs'[m][s][p] # 0
               PROVE  proofs'[m][s][p] \in Had(s, p)'
      BY DEF EvidenceIsNew, Since, EvidenceIn
  <2>1. m \in 1..Len(proofs) /\ m >= pass["check"].an /\ pass["check"].pc \in {"hash", "plan"}
      BY <1>3
  <2>2. EvidenceIn(proofs[m])
      BY <2>1 DEF AnInv, EvidenceIsNew, Since
  <2>3. EvidenceIn(proofs'[m])
      BY <2>1, <2>2
  <2>4. proofs'[m][s][p] \in Had(s, p)
      BY <2>3 DEF EvidenceIn
  <2> QED
      BY <2>4 DEF Had
<1>12. ReadingIsNew'
  <2> SUFFICES ASSUME pass'["check"].pc \in {"hash", "plan"}, NEW b \in Passes, pass'[b].pc = "hash",
                      pass'[b].an >= pass'["check"].an
               PROVE  /\ \A s \in Sides, p \in Paths : pass'[b].read[s][p] # 0 => pass'[b].read[s][p] \in Had(s, p)'
                      /\ pass'[b].file # <<>> => pass'[b].cur \in {t[pass'[b].file[2]] : t \in seen'[pass'[b].file[1]]}
      BY DEF ReadingIsNew, Since, EvidenceIn, Had
  <2>1. CASE b = a
    <3>1. EvidenceIn(new.read) /\ (new.file # <<>> => new.cur \in Had(new.file[1], new.file[2]))
        BY <2>1, <1>2
    <3> QED
        BY <2>1, <3>1, <1>2 DEF EvidenceIn, Had
  <2>2. CASE b # a
    <3>1. pass[b].pc = "hash" /\ pass[b].an >= pass["check"].an /\ pass["check"].pc \in {"hash", "plan"}
        BY <2>2, <1>2, <1>3
    <3>2. EvidenceIn(pass[b].read) /\ (pass[b].file # <<>> => pass[b].cur \in Had(pass[b].file[1], pass[b].file[2]))
        BY <3>1 DEF AnInv, ReadingIsNew, Since
    <3> QED
        BY <2>2, <3>2, <1>2 DEF EvidenceIn, Had
  <2> QED
      BY <2>1, <2>2
<1>13. AnswerIsTrue'
  <2>1. pass'["check"].out.state = "NO_CHANGES" => SameAtSomeMoment
    <3>1. CASE a = "check"
        BY <3>1, <1>2
    <3>2. CASE a # "check"
        BY <3>2, <1>1, <1>2 DEF AnInv, AnswerIsTrue
    <3> QED
        BY <3>1, <3>2
  <2> QED
      BY <2>1 DEF AnswerIsTrue, SameAtSomeMoment, Stayed, Had
<1>14. PlansShape'
  <2>1. \A out : OutShape(out) => OutShape(out)'
      BY DEF OutShape, OutFits, ParentsOf
  <2>2. \A b \in Passes : OutShape(pass'[b].out) /\ (pass'[b].pc = "save" => pass'[b].out.state # "NONE")
      BY <1>2 DEF AnInv, PlansShape
  <2> QED
      BY <2>2 DEF PlansShape, OutShape, OutFits, ParentsOf
<1> QED
    BY <1>4, <1>5, <1>6, <1>7, <1>8, <1>9, <1>10, <1>11, <1>12, <1>13, <1>14 DEF AnInv

\* A pass that ends its reading, whose results and evidence stay as they are.
LEMMA PassRests ==
    ASSUME AnInv, NEW a \in Passes, NEW new \in PassForms, pass' = [pass EXCEPT ![a] = new],
           UNCHANGED <<tree, mode, policy, rev, sc, dirty, snaps, proofs, mater, rows, seen>>,
           events' \in 0..MaxAnEvents, pass[a].pc # "scan", new.pc \notin {"scan", "hash"}, new.an <= Len(snaps),
           (a = "check") => new.pc # "plan",
           OutShape(new.out), new.pc = "save" => new.out.state # "NONE",
           (a = "check" /\ new.out.state = "NO_CHANGES") => SameAtSomeMoment
    PROVE  AnInv'
<1>1. rows \in Seq(Outs) /\ proofs \in Seq(Hashes)
    BY DEF AnInv, AnTypes
<1>2. \A i \in DOMAIN rows : OutShape(rows[i]) /\ rows[i].state # "NONE"
    BY DEF AnInv, PlansShape
<1> QED
    BY <1>1, <1>2, PassMoves

\* Evidence that is refused ends the reading.
LEMMA NoEvidenceKeeps ==
    ASSUME AnInv, NEW a \in Passes, pass[a].pc = "hash", pass' = [pass EXCEPT ![a] = NoEvidence(a)],
           UNCHANGED <<tree, mode, policy, rev, sc, dirty, snaps, proofs, mater, rows, events, seen>>
    PROVE  AnInv'
<1> DEFINE new == NoEvidence(a)
<1>1. events' \in 0..MaxAnEvents /\ Len(snaps) \in Nat
    BY DEF AnInv, AnTypes
<1>2. /\ new \in PassForms /\ new.pc \in {"done", "plan"} /\ (a = "check" => new.pc = "done")
      /\ new.an = 0 /\ new.out.state # "NO_CHANGES" /\ OutShape(new.out)
    BY NoEvidenceForms
<1>3. pass' = [pass EXCEPT ![a] = new]
    OBVIOUS
<1>4. /\ pass[a].pc # "scan" /\ new.pc \notin {"scan", "hash"} /\ new.an <= Len(snaps)
      /\ (a = "check") => new.pc # "plan"
      /\ new.pc = "save" => new.out.state # "NONE"
      /\ (a = "check" /\ new.out.state = "NO_CHANGES") => SameAtSomeMoment
    BY <1>1, <1>2
<1> HIDE DEF new
<1> QED
    BY <1>1, <1>2, <1>3, <1>4, PassRests

\* Hashing is refused for names that collide.
LEMMA RefuseKeeps ==
    ASSUME AnInv, NEW a \in Passes, RefuseHashing(a)
    PROVE  AnInv'
BY NoEvidenceKeeps DEF RefuseHashing

\* A file is opened: what it is was seen at this moment.
LEMMA FileKeeps ==
    ASSUME AnInv, NEW a \in Passes, OpenFile(a)
    PROVE  AnInv'
<1> DEFINE f == CHOOSE g \in Unread(a) : TRUE
           o == tree[f[1]][f[2]]
           new == [pass[a] EXCEPT !.file = f, !.cur = o, !.torn = FALSE]
<1>1. /\ pass[a].pc = "hash" /\ Unread(a) # {} /\ pass[a] \in PassForms /\ Len(snaps) \in Nat
      /\ rows \in Seq(Outs) /\ proofs \in Seq(Hashes) /\ events \in 0..MaxAnEvents
    BY DEF OpenFile, AnInv, AnTypes
<1>2. f \in Sides \X Paths /\ f # <<>>
  <2>1. f \in Unread(a)
      BY <1>1
  <2>2. Unread(a) \subseteq Sides \X Paths
      BY AnConstants DEF Unread, Needed, Pairs, CandidatePairs, Held
  <2> HIDE DEF f
  <2> QED
      BY <2>1, <2>2
<1> HIDE DEF f
<1>3. o \in Had(f[1], f[2]) /\ o \in Objects
    BY <1>2 DEF AnInv, AnTypes, AnTrees, Had
<1>4. CASE pass' = [pass EXCEPT ![a] = NoEvidence(a)]
    BY <1>1, <1>4, NoEvidenceKeeps DEF OpenFile
<1>5. CASE IsFile(o) /\ pass' = [pass EXCEPT ![a] = new]
  <2>1. /\ new \in PassForms /\ new.pc = "hash" /\ new.an = pass[a].an /\ new.read = pass[a].read
        /\ new.file = f /\ new.cur = o /\ new.out = pass[a].out
    <3>1. o \in Contents
        BY <1>5 DEF IsFile
    <3> HIDE DEF o
    <3> QED
        BY <1>1, <1>2, <3>1 DEF PassForms
  <2>2. /\ new.an >= 1 /\ new.an <= Len(snaps) /\ OutShape(new.out)
        /\ (a = "check" /\ new.out.state = "NO_CHANGES") => SameAtSomeMoment
      BY <1>1, <2>1 DEF AnInv, PassStands, PlansShape, AnswerIsTrue
  <2>3. pass'["check"].pc = pass["check"].pc /\ pass'["check"].an = pass["check"].an
      BY <1>1, <1>5, <2>1 DEF AnInv, AnTypes
  <2>4. (pass'["check"].pc \in {"hash", "plan"} /\ new.an >= pass'["check"].an) => EvidenceIn(new.read)
      BY <1>1, <2>1, <2>3 DEF AnInv, ReadingIsNew, Since
  <2>5. \A i \in DOMAIN rows : OutShape(rows[i]) /\ rows[i].state # "NONE"
      BY DEF AnInv, PlansShape
  <2>6. UNCHANGED <<tree, mode, policy, rev, sc, dirty, snaps, proofs, mater, rows, events, seen>>
      BY DEF OpenFile
  <2> HIDE DEF new, o
  <2> QED
      BY <1>1, <1>3, <1>5, <2>1, <2>2, <2>4, <2>5, <2>6, PassMoves
<1> QED
  <2>1. pass' = [pass EXCEPT ![a] = IF IsFile(o) /\ SizeOf(o) = Snap(a)[f[1]][f[2]] THEN new ELSE NoEvidence(a)]
      BY DEF OpenFile, f
  <2> QED
      BY <2>1, <1>4, <1>5

\* A file has been read: its hash is of what it was when it was opened.
LEMMA ReadKeeps ==
    ASSUME AnInv, NEW a \in Passes, ReadFile(a)
    PROVE  AnInv'
<1> DEFINE f == pass[a].file
           ev == [pass[a].read EXCEPT ![f[1]] = [pass[a].read[f[1]] EXCEPT ![f[2]] = pass[a].cur]]
           new == [pass[a] EXCEPT !.read = ev, !.file = <<>>, !.cur = 0]
<1>1. /\ pass[a].pc = "hash" /\ f # <<>> /\ pass[a] \in PassForms /\ Len(snaps) \in Nat
      /\ rows \in Seq(Outs) /\ proofs \in Seq(Hashes) /\ events \in 0..MaxAnEvents
    BY DEF ReadFile, AnInv, AnTypes
<1>2. UNCHANGED <<tree, mode, policy, rev, sc, dirty, snaps, proofs, mater, rows, events, seen>>
    BY DEF ReadFile
<1>3. CASE pass' = [pass EXCEPT ![a] = NoEvidence(a)]
    BY <1>1, <1>2, <1>3, NoEvidenceKeeps
<1>4. CASE pass' = [pass EXCEPT ![a] = new]
  <2>1. f \in Sides \X Paths /\ pass[a].read \in Hashes /\ pass[a].cur \in {0} \cup Contents
      BY <1>1 DEF PassForms
  <2>2. ev \in Hashes
      BY <2>1 DEF Hashes
  <2>3. \A s \in Sides, p \in Paths : ev[s][p] = IF s = f[1] /\ p = f[2] THEN pass[a].cur ELSE pass[a].read[s][p]
      BY <2>1 DEF Hashes
  <2>4. /\ new \in PassForms /\ new.pc = "hash" /\ new.an = pass[a].an /\ new.read = ev
        /\ new.file = <<>> /\ new.out = pass[a].out
    <3> HIDE DEF ev
    <3> QED
        BY <1>1, <2>2 DEF PassForms
  <2>5. /\ new.an >= 1 /\ new.an <= Len(snaps) /\ OutShape(new.out)
        /\ (a = "check" /\ new.out.state = "NO_CHANGES") => SameAtSomeMoment
      BY <1>1, <2>4 DEF AnInv, PassStands, PlansShape, AnswerIsTrue
  <2>6. pass'["check"].pc = pass["check"].pc /\ pass'["check"].an = pass["check"].an
      BY <1>1, <1>4, <2>4 DEF AnInv, AnTypes
  <2>7. (pass'["check"].pc \in {"hash", "plan"} /\ new.an >= pass'["check"].an) => EvidenceIn(new.read)
    <3>1. SUFFICES ASSUME pass["check"].pc \in {"hash", "plan"}, pass[a].an >= pass["check"].an
                   PROVE  EvidenceIn(ev)
        BY <2>4, <2>6
    <3>2. EvidenceIn(pass[a].read) /\ pass[a].cur \in Had(f[1], f[2])
        BY <1>1, <3>1 DEF AnInv, ReadingIsNew, Since
    <3> HIDE DEF f, ev
    <3> QED
        BY <2>3, <3>2 DEF EvidenceIn
  <2>8. \A i \in DOMAIN rows : OutShape(rows[i]) /\ rows[i].state # "NONE"
      BY DEF AnInv, PlansShape
  <2> HIDE DEF new, ev
  <2> QED
      BY <1>1, <1>2, <1>4, <2>4, <2>5, <2>7, <2>8, PassMoves
<1> QED
  <2>1. pass' = [pass EXCEPT ![a] = IF pass[a].torn THEN NoEvidence(a) ELSE new]
      BY <1>1 DEF ReadFile, PassForms, Hashes
  <2> QED
      BY <2>1, <1>3, <1>4

\* The start pass takes what is sealed, with the evidence kept for it.
LEMMA ReuseKeeps ==
    ASSUME AnInv, NEW a \in Passes, ReuseSnapshots(a)
    PROVE  AnInv'
<1> DEFINE n == ActiveRow.an
           new == [Fresh("hash") EXCEPT !.rev = rev, !.an = n, !.read = proofs[n]]
<1>1. /\ a = "start" /\ pass[a].pc = "begin" /\ mater[rev].state = "SEALED" /\ rev \in 1..MaxAnRevs
      /\ rows \in Seq(Outs) /\ proofs \in Seq(Hashes) /\ events \in 0..MaxAnEvents
      /\ Len(proofs) = Len(snaps) /\ Len(snaps) \in Nat /\ pass \in [Passes -> PassForms]
      /\ pass' = [pass EXCEPT ![a] = new]
    BY DEF ReuseSnapshots, ActiveRow, AnInv, AnTypes
<1>2. n \in 1..Len(snaps) /\ proofs[n] \in Hashes
    BY <1>1 DEF ActiveRow, AnInv, SealedShape
<1>3. rev \in Nat /\ n \in Nat
    BY <1>1, <1>2, AnConstants
<1>4. /\ Fresh("hash") \in PassForms /\ Fresh("hash").pc = "hash" /\ Fresh("hash").file = <<>>
      /\ Fresh("hash").out = NoOut
    BY FreshForms
<1>5. /\ new \in PassForms /\ new.pc = "hash" /\ new.an = n /\ new.read = proofs[n]
      /\ new.file = <<>> /\ new.out = NoOut
  <2> HIDE DEF n
  <2> QED
      BY <1>2, <1>3, <1>4 DEF PassForms
<1>6. pass'["check"] = pass["check"]
    BY <1>1
<1>7. (pass'["check"].pc \in {"hash", "plan"} /\ new.an >= pass'["check"].an) => EvidenceIn(new.read)
    BY <1>1, <1>2, <1>5, <1>6 DEF AnInv, EvidenceIsNew, Since
<1>8. \A i \in DOMAIN rows : OutShape(rows[i]) /\ rows[i].state # "NONE"
    BY DEF AnInv, PlansShape
<1>9. UNCHANGED <<tree, mode, policy, rev, sc, dirty, snaps, proofs, mater, rows, events, seen>>
    BY DEF ReuseSnapshots
<1>10. OutShape(new.out) /\ new.an >= 1 /\ new.an <= Len(snaps)
    BY <1>2, <1>5, NoOutForms
<1> HIDE DEF new, n
<1> QED
    BY <1>1, <1>5, <1>7, <1>8, <1>9, <1>10, PassMoves

\* The evidence a pass has read is kept, beside what is there.
LEMMA PersistKeeps ==
    ASSUME AnInv, NEW a \in Passes, PersistEvidence(a)
    PROVE  AnInv'
<1> DEFINE n == pass[a].an
           ev == Recorded(proofs[n], pass[a].read)
           new == [Fresh("plan") EXCEPT !.an = n]
           out == [Fresh("done") EXCEPT !.out.state = "FAILED"]
<1>1. /\ pass[a].pc = "hash" /\ pass[a] \in PassForms /\ Len(proofs) = Len(snaps) /\ Len(snaps) \in Nat
      /\ rows \in Seq(Outs) /\ proofs \in Seq(Hashes) /\ events \in 0..MaxAnEvents
      /\ pass \in [Passes -> PassForms] /\ "check" \in Passes
    BY AnConstants DEF PersistEvidence, AnInv, AnTypes
<1>2. UNCHANGED <<tree, mode, policy, rev, sc, dirty, snaps, mater, rows, events, seen>>
    BY DEF PersistEvidence
<1>3. n \in 1..Len(snaps)
    BY <1>1 DEF AnInv, PassStands, PassForms
<1>4. \A i \in DOMAIN rows : OutShape(rows[i]) /\ rows[i].state # "NONE"
    BY DEF AnInv, PlansShape
<1>5. CASE proofs' = proofs /\ pass' = [pass EXCEPT ![a] = out]
  <2>1. /\ out \in PassForms /\ out.pc = "done" /\ out.an = 0 /\ out.out.state = "FAILED"
        /\ OutShape(out.out)
      BY RefusedForms
  <2>2. /\ pass[a].pc # "scan" /\ out.pc \notin {"scan", "hash"} /\ out.an <= Len(snaps)
        /\ (a = "check") => out.pc # "plan"
        /\ out.pc = "save" => out.out.state # "NONE"
        /\ (a = "check" /\ out.out.state = "NO_CHANGES") => SameAtSomeMoment
      BY <1>1, <2>1
  <2> HIDE DEF out
  <2> QED
      BY <1>1, <1>2, <1>5, <2>1, <2>2, PassRests
<1>6. CASE proofs' = [proofs EXCEPT ![n] = ev] /\ pass' = [pass EXCEPT ![a] = new]
  <2>1. proofs[n] \in Hashes /\ pass[a].read \in Hashes
      BY <1>1, <1>3 DEF PassForms
  <2>2. ev \in Hashes
      BY <2>1 DEF Recorded, Hashes
  <2>3. \A s \in Sides, p \in Paths : ev[s][p] = IF proofs[n][s][p] # 0 THEN proofs[n][s][p] ELSE pass[a].read[s][p]
      BY DEF Recorded
  <2>4. /\ proofs' \in Seq(Hashes) /\ Len(proofs') = Len(proofs)
        /\ \A m \in 1..Len(proofs) : proofs'[m] = IF m = n THEN ev ELSE proofs[m]
    <3>1. proofs' = [proofs EXCEPT ![n] = ev] /\ proofs \in Seq(Hashes) /\ n \in 1..Len(proofs)
        BY <1>1, <1>3, <1>6
    <3> HIDE DEF ev, n
    <3> QED
        BY <2>2, <3>1
  <2>5. /\ Fresh("plan") \in PassForms /\ Fresh("plan").pc = "plan" /\ Fresh("plan").out = NoOut
      BY FreshForms
  <2>6. new \in PassForms /\ new.pc = "plan" /\ new.an = n /\ new.out = NoOut
      BY <1>3, <2>5, <1>1 DEF PassForms
  <2>7. /\ pass'["check"].pc \in {"hash", "plan"} => pass["check"].pc \in {"hash", "plan"}
        /\ pass'["check"].pc \in {"hash", "plan"} => pass'["check"].an = pass["check"].an
    <3>1. CASE a = "check"
        BY <3>1, <1>1, <1>6, <2>6
    <3>2. CASE a # "check"
        BY <3>2, <1>1, <1>6
    <3> QED
        BY <3>1, <3>2
  <2>8. ASSUME pass'["check"].pc \in {"hash", "plan"}, n >= pass'["check"].an PROVE EvidenceIn(ev)
    <3>1. pass["check"].pc \in {"hash", "plan"} /\ n >= pass["check"].an
        BY <2>7, <2>8
    <3>2. EvidenceIn(pass[a].read)
        BY <1>1, <3>1 DEF AnInv, ReadingIsNew, Since
    <3>3. EvidenceIn(proofs[n])
        BY <1>1, <1>3, <3>1 DEF AnInv, EvidenceIsNew, Since
    <3> HIDE DEF ev, n
    <3> QED
        BY <2>3, <3>2, <3>3 DEF EvidenceIn
  <2>9. pass'["check"].pc \in {"hash", "plan"} =>
            \A m \in 1..Len(proofs) : m >= pass'["check"].an => proofs'[m] = proofs[m] \/ EvidenceIn(proofs'[m])
      BY <2>4, <2>8
  <2>10. OutShape(new.out) /\ new.out.state = "NONE" /\ new.an >= 1 /\ new.an <= Len(snaps)
      BY <1>3, <2>6, NoOutForms
  <2> HIDE DEF new, n, ev
  <2> QED
      BY <1>1, <1>2, <1>4, <1>6, <2>4, <2>6, <2>9, <2>10, PassMoves DEF n
<1> QED
    BY <1>5, <1>6 DEF PersistEvidence

-----------------------------------------------------------------------------
(* Plans.                                                                  *)

\* What is planned for an entry is planned at its path.
LEMMA EntryOps ==
    ASSUME NEW s, NEW t, NEW ev, NEW m, NEW p \in Paths
    PROVE  PlanEntry(s, t, ev, p, m) \subseteq {o \in PlannedOps : o.path = p}
<1>1. /\ Blocked(p) \in PlannedOps /\ Blocked(p).path = p
      /\ \A kind \in {"CREATE_DIRECTORY", "COPY_NEW"}, pre \in {"ABSENT", "MATCH_FINGERPRINT", "DIRECTORY_EMPTY"},
            risk \in {"LOW", "MEDIUM", "HIGH"} :
            Operation(p, kind, pre, risk) \in PlannedOps /\ Operation(p, kind, pre, risk).path = p
    BY DEF Blocked, Operation, PlannedOps
<1> HIDE DEF Blocked, Operation
<1> QED
    BY <1>1 DEF PlanEntry

\* The policy defers an operation or leaves it as it is.
LEMMA PolicyOps ==
    ASSUME NEW pol, NEW o \in PlannedOps
    PROVE  LET op == ApplyPolicy(pol, o) IN
           /\ op \in PlannedOps /\ op.path = o.path
           /\ op.kind # "DEFER_AUTOMATION_POLICY" => op = o
           /\ (op # o) => ~Allows(pol, o) /\ o.risk # "BLOCKED"
           /\ op = o => o.risk = "BLOCKED" \/ Allows(pol, o) \/ o.kind = "DEFER_AUTOMATION_POLICY"
<1> DEFINE kept == [o EXCEPT !.kind = "DEFER_AUTOMATION_POLICY"]
<1>1. kept \in PlannedOps /\ kept.path = o.path /\ kept.kind = "DEFER_AUTOMATION_POLICY"
    BY DEF PlannedOps
<1>2. ApplyPolicy(pol, o) = IF o.risk = "BLOCKED" \/ Allows(pol, o) THEN o ELSE kept
    BY DEF ApplyPolicy
<1> HIDE DEF kept
<1> QED
    BY <1>1, <1>2

\* What a plan is made of.
LEMMA PlanOps ==
    ASSUME NEW s, NEW t, NEW ev, NEW m, NEW pol
    PROVE  /\ PlanTarget(s, t, ev, m, pol) \subseteq PlannedOps
           /\ \A p \in Held(s) : \A o \in PlanEntry(s, t, ev, p, m) :
                 ApplyPolicy(pol, o) \in PlanTarget(s, t, ev, m, pol)
           /\ \A op \in PlanTarget(s, t, ev, m, pol) :
                 \E p \in Held(s) : \E o \in PlanEntry(s, t, ev, p, m) : op = ApplyPolicy(pol, o)
<1>1. Held(s) \subseteq Paths
    BY DEF Held
<1> QED
    BY <1>1, EntryOps, PolicyOps DEF PlanTarget

\* A file of the source for which nothing is planned has a twin with its hash.
LEMMA NothingToDo ==
    ASSUME NEW s, NEW t, NEW ev, NEW m, NEW p \in Paths, Found(s[p]), PlanEntry(s, t, ev, p, m) = {}
    PROVE  \E q \in Paths : Key(q, m) = Key(p, m) /\ ev["src"][p] # 0 /\ ev["src"][p] = ev["tgt"][q]
<1> DEFINE twin == AtKey(t, Key(p, m), m)
           q == CHOOSE r \in twin : TRUE
<1>1. s[p] # Folder
    BY AnConstants DEF Found
<1>2. twin # {}
    BY DEF PlanEntry
<1>3. q \in twin
    BY <1>2
<1>4. t[q] # Folder /\ SameByHash(ev, p, q)
    BY <1>1, <1>2 DEF PlanEntry
<1>5. q \in Paths /\ Key(q, m) = Key(p, m)
    BY <1>3 DEF AtKey, Held
<1> HIDE DEF q
<1> QED
    BY <1>4, <1>5 DEF SameByHash

\* An answer that nothing changed is true of the time since the check began.
LEMMA BuildIsTrue ==
    ASSUME AnInv, pass["check"].pc = "plan", Build(ActiveRow).state = "NO_CHANGES"
    PROVE  SameAtSomeMoment
<1> DEFINE n == mater[rev].an
           s == snaps[n]["src"]
           t == snaps[n]["tgt"]
           ops == PlanTarget(s, t, proofs[n], mode, policy)
<1>1. CanPlan(ActiveRow) /\ SealResult(ActiveRow, ops).state = "NO_CHANGES"
    BY DEF Build, Result, ActiveRow
<1>2. ops = {}
  <2> HIDE DEF ops
  <2> QED
      BY <1>1 DEF SealResult, Result
<1>3. rev \in 1..MaxAnRevs /\ mater[rev].state = "SEALED"
    BY <1>1 DEF CanPlan, ActiveRow, AnInv, AnTypes
<1>4. n >= Since /\ n \in 1..Len(proofs)
    BY <1>3, AnConstants DEF AnInv, CheckedLast, SealedShape, AnTypes
<1>5. \A p \in Paths : Stayed(p) => Found(s[p])
    BY <1>3, <1>4 DEF AnInv, SnapshotsFind
<1>6. EvidenceIn(proofs[n])
    BY <1>4 DEF AnInv, EvidenceIsNew
<1> SUFFICES ASSUME NEW p \in Paths, Stayed(p)
             PROVE  \E q \in Paths : Key(q, mode) = Key(p, mode) /\ Had("src", p) \cap Had("tgt", q) # {}
    BY DEF SameAtSomeMoment
<1>7. Found(s[p]) /\ p \in Held(s)
    BY <1>5 DEF Found, Held
<1>8. PlanEntry(s, t, proofs[n], p, mode) = {}
    BY <1>2, <1>7, PlanOps
<1>9. PICK q \in Paths : /\ Key(q, mode) = Key(p, mode) /\ proofs[n]["src"][p] # 0
                         /\ proofs[n]["src"][p] = proofs[n]["tgt"][q]
    BY <1>7, <1>8, NothingToDo
<1>10. proofs[n]["src"][p] \in Had("src", p) /\ proofs[n]["tgt"][q] \in Had("tgt", q)
    BY <1>6, <1>9, AnConstants DEF EvidenceIn
<1> QED
    BY <1>9, <1>10

\* A plan that can be run makes the folder of a file, or finds it.
LEMMA PlanParents ==
    ASSUME NEW s, NEW t, NEW ev, NEW m, NEW pol, s[2] # 0 => s[1] = Folder,
           Runnable(PlanTarget(s, t, ev, m, pol)), NEW op \in PlanTarget(s, t, ev, m, pol),
           op.kind \in {"COPY_NEW", "CREATE_DIRECTORY"}
    PROVE  /\ \/ Parent(op.path) = 0
              \/ t[Parent(op.path)] = Folder
              \/ \E b \in DirectoryDependencies(PlanTarget(s, t, ev, m, pol), op) : b.path = Parent(op.path)
           /\ op.pre # "ABSENT" => pol = "NEW_AND_CHANGED_WITH_VERSIONS"
<1> DEFINE ops == PlanTarget(s, t, ev, m, pol)
<1>1. PICK p \in Held(s) : \E o \in PlanEntry(s, t, ev, p, m) : op = ApplyPolicy(pol, o)
    BY PlanOps
<1>2. PICK o \in PlanEntry(s, t, ev, p, m) : op = ApplyPolicy(pol, o)
    BY <1>1
<1>3. p \in Paths /\ s[p] # 0
    BY DEF Held
<1>4. o \in PlannedOps /\ o.path = p
    BY <1>3, EntryOps
<1>5. op = o /\ op.path = p /\ op.risk # "BLOCKED"
    BY <1>2, <1>4, PolicyOps DEF Runnable
<1>6. Allows(pol, op)
    BY <1>2, <1>4, <1>5, PolicyOps
<1>7. op.pre # "ABSENT" => pol = "NEW_AND_CHANGED_WITH_VERSIONS"
  <2>1. op.kind = "CREATE_DIRECTORY" => op.pre = "ABSENT"
    <3>1. /\ Blocked(p).kind = "BLOCKED"
          /\ \A kind, pre, risk : Operation(p, kind, pre, risk).kind = kind /\ Operation(p, kind, pre, risk).pre = pre
        BY DEF Blocked, Operation
    <3> HIDE DEF Blocked, Operation
    <3> QED
        BY <3>1, <1>5 DEF PlanEntry
  <2> QED
      BY <2>1, <1>6 DEF Allows
<1>8. CASE p # 2
    BY <1>3, <1>5, <1>7, <1>8, Parents
<1>9. CASE p = 2 /\ t[1] # Folder
  <2>1. 1 \in Held(s) /\ s[1] = Folder /\ 1 \in Paths
      BY <1>3, <1>9, AnConstants DEF Held
  <2>2. Key(1, m) = 1 /\ (\A q \in Paths : Key(q, m) = 1 => q = 1)
      BY AnConstants DEF Key
  <2>3. CASE t[1] = 0
    <3> DEFINE make == Operation(1, "CREATE_DIRECTORY", "ABSENT", "LOW")
    <3>1. AtKey(t, Key(1, m), m) = {}
        BY <2>2, <2>3 DEF AtKey, Held
    <3>2. make \in PlanEntry(s, t, ev, 1, m)
        BY <2>1, <3>1 DEF PlanEntry
    <3>3. make.kind = "CREATE_DIRECTORY" /\ make.risk = "LOW" /\ make.path = 1
        BY DEF Operation
    <3>4. pol # "ANALYZE_ONLY"
        BY <1>6 DEF Allows
    <3>5. ApplyPolicy(pol, make) = make
        BY <3>3, <3>4 DEF ApplyPolicy, Allows
    <3>6. make \in ops
        BY <2>1, <3>2, <3>5, PlanOps
    <3> HIDE DEF make, ops
    <3>7. make \in DirectoryDependencies(ops, op) /\ make.path = Parent(op.path)
        BY <1>5, <1>9, <3>3, <3>6, Parents DEF DirectoryDependencies
    <3> QED
        BY <3>7, <1>7 DEF ops
  <2>4. CASE t[1] # 0
    <3>1. AtKey(t, Key(1, m), m) = {1}
        BY <2>1, <2>2, <2>4 DEF AtKey, Held
    <3>2. (CHOOSE r \in AtKey(t, Key(1, m), m) : TRUE) = 1
        BY <3>1
    <3>3. Blocked(1) \in PlanEntry(s, t, ev, 1, m)
        BY <1>9, <2>1, <3>1, <3>2 DEF PlanEntry
    <3>4. Blocked(1).risk = "BLOCKED"
        BY DEF Blocked, Operation
    <3>5. ApplyPolicy(pol, Blocked(1)) = Blocked(1)
        BY <3>4 DEF ApplyPolicy
    <3>6. Blocked(1) \in ops
        BY <2>1, <3>3, <3>5, PlanOps
    <3> QED
        BY <3>4, <3>6 DEF Runnable
  <2> QED
      BY <2>3, <2>4
<1>10. CASE p = 2 /\ t[1] = Folder
    BY <1>5, <1>7, <1>10, Parents
<1> QED
    BY <1>7, <1>8, <1>9, <1>10

\* A plan that is built is a result of its snapshots.
LEMMA BuildShape ==
    ASSUME AnInv
    PROVE  Build(ActiveRow) \in Outs /\ OutShape(Build(ActiveRow)) /\ Build(ActiveRow).state # "NONE"
<1> DEFINE n == mater[rev].an
           s == snaps[n]["src"]
           t == snaps[n]["tgt"]
           ops == PlanTarget(s, t, proofs[n], mode, policy)
<1>1. rev \in 1..MaxAnRevs /\ mater[rev] \in MaterForms /\ rev \in Nat
    BY AnConstants DEF AnInv, AnTypes
<1>2. n \in Nat
    BY <1>1 DEF MaterForms
<1>3. \A st, set : /\ Result(st, ActiveRow, set).state = st /\ Result(st, ActiveRow, set).ops = set
                   /\ Result(st, ActiveRow, set).an = n
    BY DEF Result, ActiveRow
<1>4. ops \in SUBSET PlannedOps
    BY PlanOps
<1>5. \A st \in {"SEALED", "NO_CHANGES", "BLOCKED", "FAILED"}, set \in SUBSET PlannedOps :
          Result(st, ActiveRow, set) \in Outs
    BY <1>1, <1>2 DEF Result, ActiveRow, Outs
<1>6. ~Runnable({})
    BY DEF Runnable
<1>7. ASSUME CanPlan(ActiveRow), ops # {} PROVE OutShape(Result("SEALED", ActiveRow, ops))
  <2>1. mater[rev].state = "SEALED"
      BY <1>7 DEF CanPlan, ActiveRow
  <2>2. n \in 1..Len(snaps) /\ (s[2] # 0 => s[1] = Folder)
      BY <1>1, <2>1 DEF AnInv, SealedShape
  <2>3. ASSUME Runnable(ops), NEW op \in ops, op.kind \in {"COPY_NEW", "CREATE_DIRECTORY"}
        PROVE  /\ \/ Parent(op.path) = 0
                  \/ t[Parent(op.path)] = Folder
                  \/ \E b \in DirectoryDependencies(ops, op) : b.path = Parent(op.path)
               /\ op.pre # "ABSENT" => policy = "NEW_AND_CHANGED_WITH_VERSIONS"
      BY <2>2, <2>3, PlanParents
  <2> HIDE DEF ops
  <2> QED
      BY <1>3, <1>7, <2>2, <2>3 DEF OutShape, OutFits, ParentsOf
<1>8. \A st \in {"NO_CHANGES", "BLOCKED", "FAILED"} : OutShape(Result(st, ActiveRow, {}))
    BY <1>3, <1>6 DEF OutShape, OutFits
<1>9. Build(ActiveRow) = IF CanPlan(ActiveRow) THEN SealResult(ActiveRow, ops) ELSE Result("BLOCKED", ActiveRow, {})
    BY DEF Build, ActiveRow
<1> HIDE DEF ops
<1> QED
    BY <1>3, <1>4, <1>5, <1>7, <1>8, <1>9 DEF SealResult

-----------------------------------------------------------------------------
(* Results, and what happens around the passes.                            *)

\* A pass that is set back, or has its answer.
LEMMA FreshKeeps ==
    ASSUME AnInv, NEW a \in Passes, NEW pc \in {"begin", "done"}, pass[a].pc # "scan",
           pass' = [pass EXCEPT ![a] = Fresh(pc)], events' \in 0..MaxAnEvents,
           UNCHANGED <<tree, mode, policy, rev, sc, dirty, snaps, proofs, mater, rows, seen>>
    PROVE  AnInv'
<1> DEFINE new == Fresh(pc)
<1>1. new \in PassForms /\ new.pc = pc /\ new.an = 0 /\ new.out = NoOut
    BY FreshForms
<1>2. OutShape(new.out) /\ new.out.state = "NONE"
    BY <1>1, NoOutForms
<1>3. Len(snaps) \in Nat
    BY DEF AnInv, AnTypes
<1>4. /\ new.pc \notin {"scan", "hash"} /\ new.an <= Len(snaps)
      /\ (a = "check") => new.pc # "plan"
      /\ new.pc = "save" => new.out.state # "NONE"
      /\ (a = "check" /\ new.out.state = "NO_CHANGES") => SameAtSomeMoment
    BY <1>1, <1>2, <1>3
<1>5. pass' = [pass EXCEPT ![a] = new]
    OBVIOUS
<1> HIDE DEF new
<1> QED
    BY <1>1, <1>2, <1>4, <1>5, PassRests

\* The answer there is is kept.
LEMMA KeepKeeps ==
    ASSUME AnInv, NEW a \in Passes, KeepResult(a)
    PROVE  AnInv'
<1>1. events' \in 0..MaxAnEvents
    BY DEF KeepResult, AnInv, AnTypes
<1> QED
    BY <1>1, FreshKeeps DEF KeepResult

\* A check is asked for.
LEMMA RequestKeeps ==
    ASSUME AnInv, RequestCheck
    PROVE  AnInv'
<1>1. events' \in 0..MaxAnEvents /\ "check" \in Passes
    BY AnConstants DEF RequestCheck, AnInv, AnTypes
<1> QED
    BY <1>1, FreshKeeps DEF RequestCheck

\* The start pass runs again.
LEMMA AgainKeeps ==
    ASSUME AnInv, RunAgain
    PROVE  AnInv'
<1>1. events' \in 0..MaxAnEvents /\ "start" \in Passes
    BY AnConstants DEF RunAgain, AnInv, AnTypes
<1> QED
    BY <1>1, FreshKeeps DEF RunAgain

\* A plan is built.
LEMMA BuildKeeps ==
    ASSUME AnInv, NEW a \in Passes, BuildPlan(a)
    PROVE  AnInv'
<1> DEFINE out == Build(ActiveRow)
           new == [Fresh("save") EXCEPT !.out = out]
<1>1. /\ pass[a].pc = "plan" /\ pass' = [pass EXCEPT ![a] = new]
      /\ events' \in 0..MaxAnEvents /\ Len(snaps) \in Nat
    BY DEF BuildPlan, AnInv, AnTypes
<1>2. out \in Outs /\ OutShape(out) /\ out.state # "NONE"
    BY BuildShape
<1>3. (a = "check" /\ out.state = "NO_CHANGES") => SameAtSomeMoment
    BY <1>1, BuildIsTrue
<1>4. UNCHANGED <<tree, mode, policy, rev, sc, dirty, snaps, proofs, mater, rows, events, seen>>
    BY DEF BuildPlan
<1>5. Fresh("save") \in PassForms /\ Fresh("save").pc = "save" /\ Fresh("save").an = 0
    BY FreshForms
<1> HIDE DEF out
<1>6. new \in PassForms /\ new.pc = "save" /\ new.an = 0 /\ new.out = out
    BY <1>2, <1>5 DEF PassForms
<1>7. /\ new.pc \notin {"scan", "hash"} /\ new.an <= Len(snaps)
      /\ (a = "check") => new.pc # "plan"
      /\ new.pc = "save" => new.out.state # "NONE"
      /\ (a = "check" /\ new.out.state = "NO_CHANGES") => SameAtSomeMoment
      /\ OutShape(new.out)
    BY <1>1, <1>2, <1>3, <1>6
<1> HIDE DEF new
<1> QED
    BY <1>1, <1>4, <1>6, <1>7, PassRests

\* A plan is saved, or refused as outdated.
LEMMA SaveKeeps ==
    ASSUME AnInv, NEW a \in Passes, SaveResult(a)
    PROVE  AnInv'
<1> DEFINE kept == SavedAs(pass[a].out)
           out == IF a = "check" THEN kept ELSE NoOut
           new == [Fresh("done") EXCEPT !.out = out]
<1>1. /\ pass[a].pc = "save" /\ pass' = [pass EXCEPT ![a] = new] /\ rows' = Append(rows, kept)
      /\ events' \in 0..MaxAnEvents /\ Len(snaps) \in Nat /\ rows \in Seq(Outs) /\ proofs \in Seq(Hashes)
      /\ pass[a].out \in Outs
    BY DEF SaveResult, AnInv, AnTypes, PassForms
<1>2. OutShape(pass[a].out) /\ pass[a].out.state # "NONE"
    BY <1>1 DEF AnInv, PlansShape
<1>3. /\ kept \in Outs /\ OutShape(kept) /\ kept.state # "NONE"
      /\ kept.state = "NO_CHANGES" => pass[a].out.state = "NO_CHANGES"
  <2>1. CASE kept = pass[a].out
      BY <2>1, <1>1, <1>2
  <2>2. CASE kept = [pass[a].out EXCEPT !.state = "FAILED", !.ops = {}]
    <3>1. kept \in Outs /\ kept.state = "FAILED" /\ kept.ops = {}
        BY <2>2, <1>1 DEF Outs
    <3> HIDE DEF kept
    <3> QED
        BY <3>1 DEF OutShape, OutFits, Runnable
  <2> QED
      BY <2>1, <2>2 DEF SavedAs
<1> HIDE DEF kept
<1>4. out \in Outs /\ OutShape(out) /\ (a = "check" /\ out.state = "NO_CHANGES" => SameAtSomeMoment)
    BY <1>3, NoOutForms DEF AnInv, AnswerIsTrue
<1>5. UNCHANGED <<tree, mode, policy, rev, sc, dirty, snaps, mater, proofs, events, seen>>
    BY DEF SaveResult
<1>6. Fresh("done") \in PassForms /\ Fresh("done").pc = "done" /\ Fresh("done").an = 0
    BY FreshForms
<1>7. new \in PassForms /\ new.pc = "done" /\ new.an = 0 /\ new.out = out
  <2> HIDE DEF out
  <2> QED
      BY <1>4, <1>6 DEF PassForms
<1>8. rows' \in Seq(Outs) /\ \A i \in DOMAIN rows' : OutShape(rows'[i]) /\ rows'[i].state # "NONE"
  <2>1. /\ rows' \in Seq(Outs) /\ DOMAIN rows' = 1..(Len(rows) + 1) /\ Len(rows) \in Nat
        /\ rows'[Len(rows) + 1] = kept /\ \A i \in 1..Len(rows) : rows'[i] = rows[i]
      BY <1>1, <1>3
  <2>2. \A i \in 1..Len(rows) : OutShape(rows[i]) /\ rows[i].state # "NONE"
      BY <1>1 DEF AnInv, PlansShape
  <2>3. \A i \in DOMAIN rows' : i \in 1..Len(rows) \/ i = Len(rows) + 1
      BY <2>1
  <2> QED
      BY <1>3, <2>1, <2>2, <2>3
<1>9. /\ pass[a].pc # "scan" /\ new.pc \notin {"scan", "hash", "plan", "save"} /\ new.an <= Len(snaps)
      /\ OutShape(new.out) /\ ((a = "check" /\ new.out.state = "NO_CHANGES") => SameAtSomeMoment)
    BY <1>1, <1>4, <1>7
<1> HIDE DEF new, out
<1> QED
    BY <1>1, <1>5, <1>7, <1>8, <1>9, PassMoves

\* The job is edited.
LEMMA JobKeeps ==
    ASSUME AnInv, EditJob
    PROVE  AnInv'
<1>1. /\ UNCHANGED <<tree, mode, policy, sc, dirty, snaps, proofs, mater, pass, rows, seen>>
      /\ rev' = rev + 1 /\ rev' \in 1..MaxAnRevs /\ events' \in 0..MaxAnEvents /\ rev \in Nat
    BY AnConstants DEF EditJob, AnInv, AnTypes
<1>2. AnTypes'
    BY <1>1 DEF AnInv, AnTypes
<1>3. ScanShape' /\ ScanFinds'
    BY <1>1 DEF AnInv, ScanShape, ScanFinds, ReadRight, WillFind, Stayed, Had, Dir
<1>4. SealedShape' /\ PassStands' /\ CheckedLast'
    BY <1>1 DEF AnInv, SealedShape, PassStands, CheckedLast, Since
<1>5. SnapshotsFind' /\ EvidenceIsNew' /\ ReadingIsNew'
    BY <1>1 DEF AnInv, SnapshotsFind, EvidenceIsNew, ReadingIsNew, Since, Stayed, Had, EvidenceIn
<1>6. AnswerIsTrue' /\ PlansShape'
    BY <1>1 DEF AnInv, AnswerIsTrue, SameAtSomeMoment, Stayed, Had, PlansShape, OutShape, OutFits, ParentsOf
<1> QED
    BY <1>2, <1>3, <1>4, <1>5, <1>6 DEF AnInv

\* What is being read has changed.
LEMMA TornForms == \A r \in PassForms : [r EXCEPT !.torn = TRUE] \in PassForms
BY DEF PassForms

\* Somebody edits a folder: it is one more tree that was seen.
LEMMA EditKeeps ==
    ASSUME AnInv, NEW s \in Sides, NEW p \in Paths, NEW o \in Objects, NEW inPlace \in BOOLEAN,
           EditTree(s, p, o, inPlace)
    PROVE  AnInv'
<1> DEFINE new == [tree[s] EXCEPT ![p] = o]
<1>1. /\ UNCHANGED <<mode, policy, rev, sc, snaps, proofs, mater, rows>>
      /\ tree' = [tree EXCEPT ![s] = new] /\ seen' = [seen EXCEPT ![s] = @ \cup {new}]
      /\ Tree(new, IF s = "src" THEN "SENSITIVE" ELSE mode) /\ events' \in 0..MaxAnEvents /\ dirty' \in BOOLEAN
  <2>1. /\ UNCHANGED <<mode, policy, rev, sc, snaps, proofs, mater, rows>>
        /\ tree' = [tree EXCEPT ![s] = new] /\ seen' = [seen EXCEPT ![s] = @ \cup {new}]
        /\ Tree(new, IF s = "src" THEN "SENSITIVE" ELSE mode) /\ events > 0 /\ events' = events - 1
      BY DEF EditTree
  <2>2. events' \in 0..MaxAnEvents
      BY <2>1, AnConstants DEF AnInv, AnTypes
  <2>3. dirty' \in BOOLEAN
    <3>1. dirty' = TRUE \/ dirty' = dirty
        BY DEF EditTree
    <3> QED
        BY <3>1 DEF AnInv, AnTypes
  <2> QED
      BY <2>1, <2>2, <2>3
<1>2. pass' = [a \in Passes |-> IF inPlace /\ pass[a].file = <<s, p>> THEN [pass[a] EXCEPT !.torn = TRUE] ELSE pass[a]]
    BY DEF EditTree
<1>3. /\ tree \in [Sides -> AnTrees] /\ seen \in [Sides -> SUBSET AnTrees] /\ pass \in [Passes -> PassForms]
      /\ "check" \in Passes /\ "src" \in Sides
    BY AnConstants DEF AnInv, AnTypes
<1>4. new \in AnTrees
    BY <1>3 DEF AnTrees
<1> HIDE DEF new
<1>5. /\ tree' \in [Sides -> AnTrees] /\ seen' \in [Sides -> SUBSET AnTrees]
      /\ \A x \in Sides : seen[x] \subseteq seen'[x]
      /\ \A x \in Sides : tree'[x] = IF x = s THEN new ELSE tree[x]
      /\ \A x \in Sides : seen'[x] = IF x = s THEN seen[x] \cup {new} ELSE seen[x]
    BY <1>1, <1>3, <1>4
<1>6. /\ pass' \in [Passes -> PassForms]
      /\ \A a \in Passes : /\ pass'[a].pc = pass[a].pc /\ pass'[a].rev = pass[a].rev /\ pass'[a].an = pass[a].an
                           /\ pass'[a].read = pass[a].read /\ pass'[a].file = pass[a].file
                           /\ pass'[a].cur = pass[a].cur /\ pass'[a].out = pass[a].out
  <2>1. \A a \in Passes : [pass[a] EXCEPT !.torn = TRUE] \in PassForms
      BY <1>3, TornForms
  <2>2. \A a \in Passes : LET r == [pass[a] EXCEPT !.torn = TRUE] IN
                           /\ r.pc = pass[a].pc /\ r.rev = pass[a].rev /\ r.an = pass[a].an
                           /\ r.read = pass[a].read /\ r.file = pass[a].file
                           /\ r.cur = pass[a].cur /\ r.out = pass[a].out
      BY <1>3 DEF PassForms
  <2> QED
      BY <1>2, <1>3, <2>1, <2>2
<1>7. /\ \A x \in Sides, q \in Paths : Had(x, q) \subseteq Had(x, q)'
      /\ \A q \in Paths : Stayed(q)' => Stayed(q)
    BY <1>5, MoreSeen DEF AnInv
<1>8. AnTypes'
  <2>1. \A x \in Sides : Tree(tree'[x], IF x = "src" THEN "SENSITIVE" ELSE mode') /\ tree'[x] \in seen'[x]
      BY <1>1, <1>5 DEF AnInv, AnTypes
  <2>2. \A t \in seen'["src"] : Tree(t, "SENSITIVE")
      BY <1>1, <1>3, <1>5 DEF AnInv, AnTypes
  <2> QED
      BY <1>1, <1>5, <1>6, <2>1, <2>2 DEF AnInv, AnTypes
<1>9. ScanShape'
    BY <1>1, <1>6 DEF AnInv, ScanShape, Dir
<1>10. ScanFinds'
    BY <1>1, <1>7 DEF AnInv, ScanFinds, ReadRight, WillFind
<1>11. SealedShape' /\ PassStands' /\ CheckedLast'
    BY <1>1, <1>3, <1>6 DEF AnInv, SealedShape, PassStands, CheckedLast, Since
<1>12. SnapshotsFind'
    BY <1>1, <1>3, <1>6, <1>7 DEF AnInv, SnapshotsFind, Since
<1>13. \A ev : EvidenceIn(ev) => \A x \in Sides, q \in Paths : ev[x][q] # 0 => ev[x][q] \in Had(x, q)'
    BY <1>7 DEF EvidenceIn
<1>14. EvidenceIsNew'
    BY <1>1, <1>3, <1>6, <1>13 DEF AnInv, EvidenceIsNew, Since, EvidenceIn
<1>15. ReadingIsNew'
  <2> SUFFICES ASSUME pass'["check"].pc \in {"hash", "plan"}, NEW b \in Passes, pass'[b].pc = "hash",
                      pass'[b].an >= pass'["check"].an
               PROVE  /\ \A x \in Sides, q \in Paths : pass'[b].read[x][q] # 0 => pass'[b].read[x][q] \in Had(x, q)'
                      /\ pass'[b].file # <<>> => pass'[b].cur \in {t[pass'[b].file[2]] : t \in seen'[pass'[b].file[1]]}
      BY DEF ReadingIsNew, Since, EvidenceIn, Had
  <2>1. /\ EvidenceIn(pass[b].read)
        /\ pass[b].file # <<>> => pass[b].cur \in Had(pass[b].file[1], pass[b].file[2])
      BY <1>3, <1>6 DEF AnInv, ReadingIsNew, Since
  <2>2. pass[b].file # <<>> => pass[b].file[1] \in Sides
      BY <1>3 DEF PassForms
  <2> QED
      BY <1>5, <1>6, <1>13, <2>1, <2>2 DEF Had
<1>16. AnswerIsTrue'
  <2>1. SameAtSomeMoment => SameAtSomeMoment'
    <3> SUFFICES ASSUME SameAtSomeMoment, NEW x \in Paths, Stayed(x)'
                 PROVE  \E q \in Paths : Key(q, mode') = Key(x, mode') /\ Had("src", x)' \cap Had("tgt", q)' # {}
        BY DEF SameAtSomeMoment
    <3>1. PICK q \in Paths : Key(q, mode) = Key(x, mode) /\ Had("src", x) \cap Had("tgt", q) # {}
        BY <1>7 DEF SameAtSomeMoment
    <3>2. Had("src", x)' \cap Had("tgt", q)' # {}
        BY <3>1, <1>7, AnConstants
    <3> QED
        BY <1>1, <3>1, <3>2
  <2> QED
      BY <1>3, <1>6, <2>1 DEF AnInv, AnswerIsTrue
<1>17. PlansShape'
    BY <1>1, <1>6 DEF AnInv, PlansShape, OutShape, OutFits, ParentsOf
<1> QED
    BY <1>8, <1>9, <1>10, <1>11, <1>12, <1>14, <1>15, <1>16, <1>17 DEF AnInv

\* Nobody scans: no pass is in one.
LEMMA NoScanNoPass ==
    ASSUME AnInv, ~Locked
    PROVE  sc = NoScan /\ sc.by = "none" /\ \A b \in Passes : pass[b].pc # "scan"
<1>1. sc = NoScan /\ sc.by = "none"
    BY NoScanForms DEF Locked
<1> QED
    BY <1>1, AnConstants DEF AnInv, ScanShape

\* A scan begins; that of a check begins to see anew.
LEMMA BeginKeeps ==
    ASSUME AnInv, NEW a \in Passes, BeginScan(a)
    PROVE  AnInv'
<1> DEFINE new == [Fresh("scan") EXCEPT !.rev = rev]
<1>1. /\ UNCHANGED <<tree, mode, policy, rev, dirty, snaps, proofs, mater, rows, events>>
      /\ ~Locked /\ sc' = [NoScan EXCEPT !.by = a, !.queue = << 0 >>]
      /\ pass' = [pass EXCEPT ![a] = new]
      /\ seen' = IF a = "check" THEN [s \in Sides |-> {tree[s]}] ELSE seen
    BY DEF BeginScan
<1>2. /\ pass \in [Passes -> PassForms] /\ rev \in 1..MaxAnRevs /\ rev \in Nat /\ Len(snaps) \in Nat
      /\ "check" \in Passes /\ "src" \in Sides /\ "tgt" \in Sides /\ tree \in [Sides -> AnTrees]
      /\ seen \in [Sides -> SUBSET AnTrees]
    BY AnConstants DEF AnInv, AnTypes
<1>3. \A b \in Passes : pass[b].pc # "scan"
    BY <1>1, NoScanNoPass
<1>4. /\ new \in PassForms /\ new.pc = "scan" /\ new.rev = rev /\ new.an = 0 /\ new.file = <<>> /\ new.out = NoOut
      /\ new.read = [s \in Sides |-> Empty]
  <2>1. /\ Fresh("scan") \in PassForms /\ Fresh("scan").pc = "scan" /\ Fresh("scan").an = 0
        /\ Fresh("scan").file = <<>> /\ Fresh("scan").out = NoOut
        /\ Fresh("scan").read = [s \in Sides |-> Empty]
      BY FreshForms
  <2> QED
      BY <1>2, <2>1 DEF PassForms
<1> HIDE DEF new
<1>5. /\ pass' \in [Passes -> PassForms] /\ pass'[a] = new /\ \A b \in Passes : b # a => pass'[b] = pass[b]
    BY <1>1, <1>2, <1>4
<1>6. /\ sc' \in ScanForms /\ sc'.by = a /\ sc'.queue = << 0 >> /\ sc'.at = "open" /\ sc'.side = "src"
      /\ sc'.got["src"][2] = 0
    BY <1>1, NoScanForms DEF ScanForms, Queues
<1>7. /\ seen' \in [Sides -> SUBSET AnTrees] /\ \A s \in Sides : tree'[s] \in seen'[s]
      /\ \A t \in seen'["src"] : Tree(t, "SENSITIVE")
  <2>1. CASE a = "check"
      BY <2>1, <1>1, <1>2 DEF AnInv, AnTypes
  <2>2. CASE a # "check"
      BY <2>2, <1>1, <1>2 DEF AnInv, AnTypes
  <2> QED
      BY <2>1, <2>2
<1>8. AnTypes'
    BY <1>1, <1>5, <1>6, <1>7 DEF AnInv, AnTypes
<1>9. ScanShape'
  <2>1. \A b \in Passes : pass'[b].pc = "scan" <=> sc'.by = b
      BY <1>3, <1>4, <1>5, <1>6
  <2>2. sc'.by # "none" /\ sc'.queue # <<>> /\ sc'.queue \notin {<< 1 >>, <<1, 3>>}
    <3>1. a # "none"
        BY AnConstants
    <3> QED
        BY <1>6, <3>1, QueueForms
  <2> QED
      BY <1>6, <2>1, <2>2 DEF ScanShape
<1>10. ScanFinds'
    BY <1>6 DEF ScanFinds, ReadRight, WillFind
<1>11. SealedShape'
    BY <1>1 DEF AnInv, SealedShape
<1>12. PassStands'
  <2> SUFFICES ASSUME NEW b \in Passes
               PROVE  /\ pass'[b].an <= Len(snaps')
                      /\ pass'[b].pc = "scan" => /\ pass'[b].rev \in 1..rev' /\ pass'[b].file = <<>>
                                                  /\ pass'[b].read = [s \in Sides |-> Empty]
                      /\ (pass'[b].pc = "hash" \/ (b = "check" /\ pass'[b].pc = "plan")) => pass'[b].an >= 1
      BY DEF PassStands
  <2>1. CASE b = a
      BY <2>1, <1>1, <1>2, <1>4, <1>5
  <2>2. CASE b # a
      BY <2>2, <1>1, <1>5 DEF AnInv, PassStands
  <2> QED
      BY <2>1, <2>2
<1>13. PlansShape'
  <2>1. \A b \in Passes : OutShape(pass'[b].out) /\ (pass'[b].pc = "save" => pass'[b].out.state # "NONE")
      BY <1>4, <1>5, NoOutForms DEF AnInv, PlansShape
  <2> QED
      BY <1>1, <2>1 DEF AnInv, PlansShape, OutShape, OutFits, ParentsOf
<1>14. CASE a = "check"
  <2>1. pass'["check"].pc = "scan" /\ pass'["check"].rev = rev /\ pass'["check"].out = NoOut
      BY <1>4, <1>5, <1>14
  <2>2. CheckedLast'
      BY <1>1, <1>2, <2>1 DEF AnInv, SealedShape, CheckedLast
  <2>3. SnapshotsFind' /\ EvidenceIsNew' /\ ReadingIsNew' /\ AnswerIsTrue'
      BY <2>1, NoOutForms DEF SnapshotsFind, EvidenceIsNew, ReadingIsNew, AnswerIsTrue
  <2> QED
      BY <1>8, <1>9, <1>10, <1>11, <1>12, <1>13, <2>2, <2>3 DEF AnInv
<1>15. CASE a # "check"
  <2>1. pass'["check"] = pass["check"] /\ UNCHANGED seen
      BY <1>1, <1>2, <1>5, <1>15
  <2>2. CheckedLast' /\ SnapshotsFind' /\ EvidenceIsNew' /\ AnswerIsTrue'
      BY <1>1, <2>1 DEF AnInv, CheckedLast, SnapshotsFind, EvidenceIsNew, AnswerIsTrue, Since, Stayed, Had,
                        EvidenceIn, SameAtSomeMoment
  <2>3. \A b \in Passes : pass'[b].pc = "hash" => pass'[b] = pass[b]
      BY <1>4, <1>5
  <2>4. ReadingIsNew'
      BY <2>1, <2>3 DEF AnInv, ReadingIsNew, Since, EvidenceIn, Had
  <2> QED
      BY <1>8, <1>9, <1>10, <1>11, <1>12, <1>13, <2>2, <2>4 DEF AnInv
<1> QED
    BY <1>14, <1>15

\* The results stay what they are when snapshots are added.
LEMMA PlansStay ==
    ASSUME AnInv, UNCHANGED <<rows, policy>>, snaps' \in Seq(Snapshots), Len(snaps') >= Len(snaps),
           \A i \in 1..Len(snaps) : snaps'[i] = snaps[i], pass' \in [Passes -> PassForms],
           \A b \in Passes : OutShape(pass'[b].out) /\ (pass'[b].pc = "save" => pass'[b].out.state # "NONE")
    PROVE  PlansShape'
<1>1. /\ \A b \in Passes : pass'[b].out \in Outs
      /\ \A i \in DOMAIN rows : rows[i] \in Outs /\ OutShape(rows[i]) /\ rows[i].state # "NONE"
      /\ snaps \in Seq(Snapshots)
    BY DEF PassForms, AnInv, AnTypes, PlansShape
<1>2. \A out \in Outs : OutShape(out) => OutFits(out, snaps')
    BY <1>1, OutsStay DEF OutShape
<1>3. /\ \A b \in Passes : OutFits(pass'[b].out, snaps') /\ (pass'[b].pc = "save" => pass'[b].out.state # "NONE")
      /\ \A i \in DOMAIN rows : OutFits(rows[i], snaps') /\ rows[i].state # "NONE"
    BY <1>1, <1>2
<1> QED
    BY <1>3 DEF PlansShape, OutShape, OutFits, ParentsOf

\* A scan ends without a snapshot: the revision's row says so.
LEMMA ScanBlocked ==
    ASSUME AnInv, Locked, NEW new \in PassForms, NEW row \in MaterForms, row.state = "BLOCKED",
           sc' = NoScan, pass' = [pass EXCEPT ![sc.by] = new], mater' = [mater EXCEPT ![pass[sc.by].rev] = row],
           UNCHANGED <<tree, mode, policy, rev, dirty, rows, seen>>, events' \in 0..MaxAnEvents,
           snaps' \in Seq(Snapshots), proofs' \in Seq(Hashes), Len(proofs') = Len(snaps'),
           Len(snaps') >= Len(snaps),
           \A m \in 1..Len(snaps) : snaps'[m] = snaps[m] /\ proofs'[m] = proofs[m],
           \A m \in 1..Len(snaps') : m > Len(snaps) => proofs'[m] = [s \in Sides |-> Empty],
           new.pc \in {"done", "plan"}, (sc.by = "check") => new.pc = "done",
           new.an = 0, new.out.state # "NO_CHANGES", OutShape(new.out)
    PROVE  AnInv'
<1> DEFINE a == sc.by
<1>1. /\ a \in Passes /\ pass[a].pc = "scan" /\ pass \in [Passes -> PassForms] /\ "check" \in Passes
      /\ mater \in [1..MaxAnRevs -> MaterForms] /\ Len(snaps) \in Nat /\ Len(snaps') \in Nat
      /\ Len(proofs) = Len(snaps) /\ rows \in Seq(Outs)
    BY InScan, AnConstants DEF AnInv, AnTypes
<1> HIDE DEF a
<1>2. /\ pass' \in [Passes -> PassForms] /\ pass'[a] = new /\ \A b \in Passes : b # a => pass'[b] = pass[b]
      /\ \A b \in Passes : b # a => pass[b].pc # "scan"
    BY <1>1 DEF AnInv, ScanShape, a
<1>3. /\ mater' \in [1..MaxAnRevs -> MaterForms]
      /\ \A r \in 1..MaxAnRevs : mater'[r].state = "SEALED" => mater'[r] = mater[r]
    BY <1>1 DEF a
<1>4. \A b \in Passes : pass'[b].pc # "scan"
    BY <1>2
<1>5. /\ pass'["check"].pc # "scan"
      /\ pass'["check"].pc \in {"hash", "plan"} => pass'["check"] = pass["check"]
      /\ pass'["check"].out.state = "NO_CHANGES" => pass'["check"] = pass["check"]
    BY <1>1, <1>2, <1>4 DEF a
<1>6. AnTypes'
    BY <1>1, <1>2, <1>3, NoScanForms DEF AnInv, AnTypes
<1>7. ScanShape'
  <2>1. "none" \notin Passes
      BY AnConstants
  <2> QED
      BY <1>4, <2>1, NoScanForms, QueueForms DEF ScanShape
<1>8. ScanFinds'
    BY NoScanForms DEF ScanFinds
<1>9. SealedShape'
    BY <1>1, <1>3 DEF AnInv, SealedShape
<1>10. PassStands'
  <2> SUFFICES ASSUME NEW b \in Passes
               PROVE  /\ pass'[b].an <= Len(snaps')
                      /\ (pass'[b].pc = "hash" \/ (b = "check" /\ pass'[b].pc = "plan")) => pass'[b].an >= 1
      BY <1>4 DEF PassStands
  <2>1. CASE b = a
      BY <2>1, <1>1, <1>2 DEF a
  <2>2. CASE b # a
      BY <2>2, <1>1, <1>2 DEF AnInv, PassStands, AnTypes, PassForms
  <2> QED
      BY <2>1, <2>2
<1>11. CheckedLast'
    BY <1>3, <1>5 DEF AnInv, CheckedLast, Since
<1>12. SnapshotsFind'
  <2>1. \A r \in 1..MaxAnRevs : mater'[r].state = "SEALED" => snaps'[mater'[r].an] = snaps[mater[r].an]
      BY <1>3 DEF AnInv, SealedShape
  <2> QED
      BY <1>3, <1>5, <2>1 DEF AnInv, SnapshotsFind, Since, Stayed, Had
<1>13. EvidenceIsNew'
  <2> SUFFICES ASSUME pass'["check"].pc \in {"hash", "plan"}, NEW m \in 1..Len(proofs'), m >= pass'["check"].an,
                      NEW s \in Sides, NEW p \in Paths, proofs'[m][s][p] # 0
               PROVE  proofs'[m][s][p] \in Had(s, p)
      BY DEF EvidenceIsNew, Since, EvidenceIn, Had
  <2>1. CASE m <= Len(snaps)
    <3>1. m \in 1..Len(proofs) /\ proofs'[m] = proofs[m] /\ pass'["check"] = pass["check"]
        BY <2>1, <1>1, <1>5
    <3> QED
        BY <3>1 DEF AnInv, EvidenceIsNew, Since, EvidenceIn
  <2>2. CASE m > Len(snaps)
      BY <2>2 DEF Empty
  <2> QED
      BY <2>1, <2>2, <1>1
<1>14. ReadingIsNew'
  <2>1. \A b \in Passes : pass'[b].pc = "hash" => pass'[b] = pass[b]
      BY <1>2
  <2> QED
      BY <1>5, <2>1 DEF AnInv, ReadingIsNew, Since, EvidenceIn, Had
<1>15. AnswerIsTrue'
    BY <1>5 DEF AnInv, AnswerIsTrue, SameAtSomeMoment, Stayed, Had
<1>16. PlansShape'
  <2>1. \A b \in Passes : OutShape(pass'[b].out) /\ (pass'[b].pc = "save" => pass'[b].out.state # "NONE")
      BY <1>2 DEF AnInv, PlansShape
  <2> QED
      BY <1>2, <2>1, PlansStay
<1> QED
    BY <1>6, <1>7, <1>8, <1>9, <1>10, <1>11, <1>12, <1>13, <1>14, <1>15, <1>16 DEF AnInv

\* A pass goes on to hashing.
LEMMA HashForms ==
    ASSUME NEW r \in PassForms, NEW m \in Nat
    PROVE  LET x == [r EXCEPT !.pc = "hash", !.an = m] IN
           /\ x \in PassForms /\ x.pc = "hash" /\ x.an = m /\ x.read = r.read /\ x.file = r.file /\ x.out = r.out
BY DEF PassForms

\* Both snapshots are sealed: they have what stayed, and are newer than any other.
LEMMA ScanSealed ==
    ASSUME AnInv, Locked, NEW n, n = Len(snaps) + 1, NEW new, new = [pass[sc.by] EXCEPT !.pc = "hash", !.an = n],
           sc.whole, sc.side = "tgt", sc.queue = <<>>,
           sc' = NoScan, pass' = [pass EXCEPT ![sc.by] = new],
           mater' = [mater EXCEPT ![pass[sc.by].rev] = [an |-> n, state |-> "SEALED"]],
           snaps' = Append(snaps, sc.got), proofs' = Append(proofs, [s \in Sides |-> Empty]),
           UNCHANGED <<tree, mode, policy, rev, dirty, rows, seen, events>>
    PROVE  AnInv'
<1> DEFINE a == sc.by
           R == pass[a].rev
<1>1. /\ a \in Passes /\ pass[a].pc = "scan" /\ pass \in [Passes -> PassForms] /\ "check" \in Passes
      /\ mater \in [1..MaxAnRevs -> MaterForms] /\ Len(snaps) \in Nat /\ snaps \in Seq(Snapshots)
      /\ Len(proofs) = Len(snaps) /\ proofs \in Seq(Hashes) /\ rev \in 1..MaxAnRevs /\ rev \in Nat
      /\ sc.got \in Snapshots
    BY InScan, AnConstants DEF AnInv, AnTypes, ScanForms
<1>2. /\ R \in 1..rev /\ R \in 1..MaxAnRevs /\ pass[a].file = <<>> /\ pass[a].read = [s \in Sides |-> Empty]
      /\ n \in Nat /\ n >= 1
    BY <1>1, AnConstants DEF AnInv, PassStands
<1>3. [s \in Sides |-> Empty] \in Hashes /\ (\A s \in Sides, p \in Paths : [x \in Sides |-> Empty][s][p] = 0)
    BY DEF Empty, Hashes
<1>4. /\ new \in PassForms /\ new.pc = "hash" /\ new.an = n /\ new.read = [s \in Sides |-> Empty]
      /\ new.file = <<>> /\ new.out = pass[a].out
  <2>1. pass[a] \in PassForms
      BY <1>1
  <2> QED
      BY <2>1, <1>2, HashForms
<1> HIDE DEF a, R
<1>5. /\ pass' \in [Passes -> PassForms] /\ pass'[a] = new /\ \A b \in Passes : b # a => pass'[b] = pass[b]
      /\ \A b \in Passes : b # a => pass[b].pc # "scan"
    BY <1>1, <1>4 DEF AnInv, ScanShape, a
<1>6. /\ mater' \in [1..MaxAnRevs -> MaterForms]
      /\ mater'[R] = [an |-> n, state |-> "SEALED"]
      /\ \A r \in 1..MaxAnRevs : r # R => mater'[r] = mater[r]
    BY <1>1, <1>2 DEF R, a, MaterForms
<1>7. /\ snaps' \in Seq(Snapshots) /\ Len(snaps') = n /\ snaps'[n] = sc.got
      /\ \A i \in 1..Len(snaps) : snaps'[i] = snaps[i]
      /\ proofs' \in Seq(Hashes) /\ Len(proofs') = n /\ proofs'[n] = [s \in Sides |-> Empty]
      /\ \A i \in 1..Len(snaps) : proofs'[i] = proofs[i]
    BY <1>1, <1>3
<1>8. \A b \in Passes : pass'[b].pc # "scan"
    BY <1>4, <1>5
<1>9. AnTypes'
    BY <1>5, <1>6, <1>7, NoScanForms DEF AnInv, AnTypes
<1>10. ScanShape'
  <2>1. "none" \notin Passes
      BY AnConstants
  <2> QED
      BY <1>8, <2>1, NoScanForms, QueueForms DEF ScanShape
<1>11. ScanFinds'
    BY NoScanForms DEF ScanFinds
<1>12. \A r \in 1..MaxAnRevs : (r # R /\ mater'[r].state = "SEALED") =>
          /\ mater[r].state = "SEALED" /\ mater'[r].an = mater[r].an /\ mater[r].an \in 1..Len(snaps)
          /\ snaps'[mater[r].an] = snaps[mater[r].an]
    BY <1>6, <1>7 DEF AnInv, SealedShape
<1>13. SealedShape'
  <2> SUFFICES ASSUME NEW r \in 1..MaxAnRevs, mater'[r].state = "SEALED"
               PROVE  /\ r <= rev /\ mater'[r].an \in 1..Len(snaps')
                      /\ snaps'[mater'[r].an]["src"][2] # 0 => snaps'[mater'[r].an]["src"][1] = Folder
      BY DEF SealedShape
  <2>1. CASE r = R
    <3>1. mater'[r].an = n /\ snaps'[n] = sc.got
        BY <2>1, <1>6, <1>7
    <3> QED
        BY <2>1, <3>1, <1>1, <1>2, <1>7 DEF AnInv, ScanShape
  <2>2. CASE r # R
      BY <2>2, <1>1, <1>7, <1>12 DEF AnInv, SealedShape
  <2> QED
      BY <2>1, <2>2
<1>14. PassStands'
  <2> SUFFICES ASSUME NEW b \in Passes
               PROVE  /\ pass'[b].an <= Len(snaps')
                      /\ (pass'[b].pc = "hash" \/ (b = "check" /\ pass'[b].pc = "plan")) => pass'[b].an >= 1
      BY <1>8 DEF PassStands
  <2>1. CASE b = a
    <3>1. pass'[b].an = n /\ Len(snaps') = n
        BY <2>1, <1>4, <1>5, <1>7
    <3> QED
        BY <3>1, <1>2
  <2>2. CASE b # a
      BY <2>2, <1>1, <1>5, <1>7 DEF AnInv, PassStands, PassForms
  <2> QED
      BY <2>1, <2>2
<1>15. PlansShape'
  <2>1. \A b \in Passes : OutShape(pass'[b].out) /\ (pass'[b].pc = "save" => pass'[b].out.state # "NONE")
      BY <1>4, <1>5 DEF AnInv, PlansShape
  <2> QED
      BY <1>1, <1>5, <1>7, <2>1, PlansStay
<1>16. AnswerIsTrue'
  <2>1. pass'["check"].out = pass["check"].out
      BY <1>1, <1>4, <1>5
  <2> QED
      BY <2>1 DEF AnInv, AnswerIsTrue, SameAtSomeMoment, Stayed, Had
<1>17. pass'["check"].pc \in {"hash", "plan"} =>
          /\ a = "check" => pass'["check"].an = n
          /\ a # "check" => /\ pass'["check"] = pass["check"] /\ pass["check"].an <= Len(snaps)
                            /\ pass["check"].an \in Nat
    BY <1>1, <1>4, <1>5 DEF AnInv, PassStands, PassForms
<1>18. CheckedLast'
  <2> SUFFICES ASSUME pass'["check"].pc \in {"hash", "plan"}, NEW r \in 1..MaxAnRevs, r >= rev,
                      mater'[r].state = "SEALED"
               PROVE  mater'[r].an >= pass'["check"].an
      BY <1>1, <1>8 DEF CheckedLast, Since
  <2>1. CASE r = R
      BY <2>1, <1>1, <1>2, <1>6, <1>17
  <2>2. CASE r # R /\ a = "check"
    <3>1. r > pass["check"].rev /\ pass["check"].pc = "scan"
        BY <2>2, <1>1, <1>2 DEF R
    <3> QED
        BY <2>2, <3>1, <1>6 DEF AnInv, CheckedLast
  <2>3. CASE r # R /\ a # "check"
      BY <2>3, <1>12, <1>17 DEF AnInv, CheckedLast, Since
  <2> QED
      BY <2>1, <2>2, <2>3
<1>19. SnapshotsFind'
  <2> SUFFICES ASSUME pass'["check"].pc \in {"hash", "plan"}, NEW r \in 1..MaxAnRevs, mater'[r].state = "SEALED",
                      mater'[r].an >= pass'["check"].an, NEW p \in Paths, Stayed(p)
               PROVE  Found(snaps'[mater'[r].an]["src"][p])
      BY DEF SnapshotsFind, Since, Stayed, Had
  <2>1. CASE r = R
    <3>1. WillFind(p)
        BY InScan DEF AnInv, ScanFinds
    <3>2. Found(sc.got["src"][p])
        BY <3>1 DEF WillFind
    <3> QED
        BY <2>1, <3>2, <1>6, <1>7
  <2>2. CASE r # R /\ a = "check"
      BY <2>2, <1>1, <1>12, <1>17
  <2>3. CASE r # R /\ a # "check"
      BY <2>3, <1>12, <1>17 DEF AnInv, SnapshotsFind, Since
  <2> QED
      BY <2>1, <2>2, <2>3
<1>20. EvidenceIsNew'
  <2> SUFFICES ASSUME pass'["check"].pc \in {"hash", "plan"}, NEW m \in 1..Len(proofs'), m >= pass'["check"].an,
                      NEW s \in Sides, NEW p \in Paths, proofs'[m][s][p] # 0
               PROVE  proofs'[m][s][p] \in Had(s, p)
      BY DEF EvidenceIsNew, Since, EvidenceIn, Had
  <2>1. m # n
      BY <1>3, <1>7
  <2>2. m \in 1..Len(snaps) /\ proofs'[m] = proofs[m]
      BY <2>1, <1>1, <1>7
  <2>3. a # "check"
      BY <2>2, <1>1, <1>17
  <2> QED
      BY <2>2, <2>3, <1>1, <1>17 DEF AnInv, EvidenceIsNew, Since, EvidenceIn
<1>21. ReadingIsNew'
  <2> SUFFICES ASSUME pass'["check"].pc \in {"hash", "plan"}, NEW b \in Passes, pass'[b].pc = "hash",
                      pass'[b].an >= pass'["check"].an
               PROVE  /\ EvidenceIn(pass'[b].read)
                      /\ pass'[b].file # <<>> => pass'[b].cur \in Had(pass'[b].file[1], pass'[b].file[2])
      BY DEF ReadingIsNew, Since, EvidenceIn, Had
  <2>1. CASE b = a
      BY <2>1, <1>3, <1>4, <1>5 DEF EvidenceIn
  <2>2. CASE b # a
    <3>1. pass'[b] = pass[b] /\ pass[b].an <= Len(snaps) /\ pass[b].an \in Nat
        BY <2>2, <1>1, <1>5 DEF AnInv, PassStands, PassForms
    <3>2. ASSUME a = "check" PROVE FALSE
      <4>1. pass'["check"].an = n
          BY <1>17, <3>2
      <4>2. pass[b].an >= n
          BY <3>1, <4>1
      <4> QED
          BY <3>1, <4>2, <1>1
    <3> QED
        BY <3>1, <3>2, <1>17 DEF AnInv, ReadingIsNew, Since
  <2> QED
      BY <2>1, <2>2
<1> QED
    BY <1>9, <1>10, <1>11, <1>13, <1>14, <1>15, <1>16, <1>18, <1>19, <1>20, <1>21 DEF AnInv

\* The pass whose scan found nothing it may seal.
LEMMA BlockedForms ==
    ASSUME NEW a
    PROVE  LET new == IF a = "check" THEN [Fresh("done") EXCEPT !.out.state = "BLOCKED"] ELSE Fresh("plan") IN
           /\ new \in PassForms /\ new.pc \in {"done", "plan"} /\ (a = "check" => new.pc = "done")
           /\ new.an = 0 /\ new.out.state # "NO_CHANGES" /\ OutShape(new.out)
<1>1. CASE a = "check"
    BY <1>1, RefusedForms
<1>2. CASE a # "check"
    BY <1>2, FreshForms, NoOutForms
<1> QED
    BY <1>1, <1>2

\* Both snapshots are sealed, or the scan is refused.
LEMMA SealKeeps ==
    ASSUME AnInv, SealSnapshots
    PROVE  AnInv'
<1> DEFINE a == sc.by
           n == Len(snaps) + 1
           sealed == [pass[a] EXCEPT !.pc = "hash", !.an = n]
           refused == IF a = "check" THEN [Fresh("done") EXCEPT !.out.state = "BLOCKED"] ELSE Fresh("plan")
           row == [an |-> n, state |-> "BLOCKED"]
<1>1. /\ Locked /\ sc.queue = <<>> /\ sc.side = "tgt" /\ sc' = NoScan
      /\ UNCHANGED <<tree, mode, policy, rev, dirty, rows, events, seen>>
      /\ proofs' = Append(proofs, [s \in Sides |-> Empty])
    BY DEF SealSnapshots
<1>2. /\ snaps \in Seq(Snapshots) /\ proofs \in Seq(Hashes) /\ Len(proofs) = Len(snaps)
      /\ Len(snaps) \in Nat /\ events' \in 0..MaxAnEvents
    BY <1>1 DEF AnInv, AnTypes
<1>3. CASE sc.whole
  <2>1. /\ pass' = [pass EXCEPT ![sc.by] = sealed] /\ snaps' = Append(snaps, sc.got)
        /\ mater' = [mater EXCEPT ![pass[sc.by].rev] = [an |-> n, state |-> "SEALED"]]
      BY <1>3 DEF SealSnapshots, ReadyForSeal, Upsert
  <2>2. PICK m : m = n
      OBVIOUS
  <2>3. PICK new : new = sealed
      OBVIOUS
  <2> HIDE DEF sealed
  <2> QED
      BY <1>1, <1>3, <2>1, ScanSealed DEF sealed
<1>4. CASE ~sc.whole
  <2>1. /\ pass' = [pass EXCEPT ![sc.by] = refused] /\ snaps' = Append(snaps, NoScan.got)
        /\ mater' = [mater EXCEPT ![pass[sc.by].rev] = row]
      BY <1>4 DEF SealSnapshots, ReadyForSeal, Upsert
  <2>2. /\ refused \in PassForms /\ refused.pc \in {"done", "plan"} /\ (sc.by = "check" => refused.pc = "done")
        /\ refused.an = 0 /\ refused.out.state # "NO_CHANGES" /\ OutShape(refused.out)
      BY BlockedForms
  <2>3. row \in MaterForms /\ row.state = "BLOCKED"
      BY <1>2 DEF MaterForms
  <2>4. [s \in Sides |-> Empty] \in Hashes /\ NoScan.got \in Snapshots
      BY NoScanForms DEF Empty, Hashes, ScanForms
  <2>5. /\ snaps' \in Seq(Snapshots) /\ proofs' \in Seq(Hashes) /\ Len(proofs') = Len(snaps')
        /\ Len(snaps') >= Len(snaps)
        /\ \A m \in 1..Len(snaps) : snaps'[m] = snaps[m] /\ proofs'[m] = proofs[m]
        /\ \A m \in 1..Len(snaps') : m > Len(snaps) => proofs'[m] = [s \in Sides |-> Empty]
    <3>1. /\ snaps' \in Seq(Snapshots) /\ Len(snaps') = Len(snaps) + 1
          /\ \A m \in 1..Len(snaps) : snaps'[m] = snaps[m]
        BY <1>2, <2>1, <2>4
    <3>2. /\ proofs' \in Seq(Hashes) /\ Len(proofs') = Len(snaps) + 1
          /\ \A m \in 1..Len(snaps) : proofs'[m] = proofs[m]
          /\ proofs'[Len(snaps) + 1] = [s \in Sides |-> Empty]
        BY <1>1, <1>2, <2>4
    <3>3. \A m \in 1..Len(snaps') : m > Len(snaps) => m = Len(snaps) + 1
        BY <1>2, <3>1
    <3> QED
        BY <1>2, <3>1, <3>2, <3>3
  <2> HIDE DEF refused, row
  <2> QED
      BY <1>1, <1>2, <2>1, <2>2, <2>3, <2>5, ScanBlocked
<1> QED
    BY <1>3, <1>4

\* A scan fails.
LEMMA FailsKeeps ==
    ASSUME AnInv, ScanFails
    PROVE  AnInv'
<1> DEFINE a == sc.by
           refused == IF a = "check" THEN [Fresh("done") EXCEPT !.out.state = "BLOCKED"] ELSE Fresh("plan")
           row == [an |-> 0, state |-> "BLOCKED"]
<1>1. /\ Locked /\ sc' = NoScan /\ UNCHANGED <<tree, mode, policy, rev, dirty, snaps, proofs, rows, seen>>
      /\ pass' = [pass EXCEPT ![sc.by] = refused] /\ mater' = [mater EXCEPT ![pass[sc.by].rev] = row]
    BY DEF ScanFails, Upsert
<1>2. /\ snaps \in Seq(Snapshots) /\ proofs \in Seq(Hashes) /\ Len(proofs) = Len(snaps)
      /\ Len(snaps) \in Nat /\ events' \in 0..MaxAnEvents
    BY AnConstants DEF ScanFails, AnInv, AnTypes
<1>3. /\ refused \in PassForms /\ refused.pc \in {"done", "plan"} /\ (sc.by = "check" => refused.pc = "done")
      /\ refused.an = 0 /\ refused.out.state # "NO_CHANGES" /\ OutShape(refused.out)
    BY BlockedForms
<1>4. row \in MaterForms /\ row.state = "BLOCKED"
    BY DEF MaterForms
<1>5. /\ snaps' \in Seq(Snapshots) /\ proofs' \in Seq(Hashes) /\ Len(proofs') = Len(snaps')
      /\ Len(snaps') >= Len(snaps)
      /\ \A m \in 1..Len(snaps) : snaps'[m] = snaps[m] /\ proofs'[m] = proofs[m]
      /\ \A m \in 1..Len(snaps') : m > Len(snaps) => proofs'[m] = [s \in Sides |-> Empty]
    BY <1>1, <1>2
<1> HIDE DEF refused, row
<1> QED
    BY <1>1, <1>2, <1>3, <1>4, <1>5, ScanBlocked

\* The process ends: no pass is at work, and an answer given stays.
LEMMA StopsKeeps ==
    ASSUME AnInv, AnStops
    PROVE  AnInv'
<1>1. /\ sc' = NoScan /\ UNCHANGED <<tree, mode, policy, rev, dirty, snaps, proofs, mater, rows, seen>>
      /\ pass' = [a \in Passes |-> IF a = "start" THEN Fresh("begin")
                                   ELSE IF pass[a].pc \in {"idle", "done"} THEN pass[a] ELSE Fresh("begin")]
    BY DEF AnStops
<1>2. /\ pass \in [Passes -> PassForms] /\ "check" \in Passes /\ events' \in 0..MaxAnEvents
      /\ Len(snaps) \in Nat /\ snaps \in Seq(Snapshots)
    BY AnConstants DEF AnStops, AnInv, AnTypes
<1>3. /\ Fresh("begin") \in PassForms /\ Fresh("begin").pc = "begin" /\ Fresh("begin").an = 0
      /\ Fresh("begin").out = NoOut
    BY FreshForms
<1>4. /\ pass' \in [Passes -> PassForms]
      /\ \A b \in Passes : pass'[b] = Fresh("begin") \/ (pass'[b] = pass[b] /\ pass[b].pc \in {"idle", "done"})
    BY <1>1, <1>2, <1>3
<1>5. \A b \in Passes : pass'[b].pc \in {"begin", "idle", "done"}
    BY <1>3, <1>4
<1>6. AnTypes'
    BY <1>1, <1>2, <1>4, NoScanForms DEF AnInv, AnTypes
<1>7. ScanShape'
  <2>1. "none" \notin Passes
      BY AnConstants
  <2> QED
      BY <1>1, <1>5, <2>1, NoScanForms, QueueForms DEF ScanShape
<1>8. ScanFinds' /\ SealedShape'
    BY <1>1, NoScanForms DEF ScanFinds, AnInv, SealedShape
<1>9. PassStands'
  <2>1. \A b \in Passes : pass'[b].an <= Len(snaps)
      BY <1>2, <1>3, <1>4 DEF AnInv, PassStands
  <2> QED
      BY <1>1, <1>5, <2>1 DEF PassStands
<1>10. CheckedLast' /\ SnapshotsFind' /\ EvidenceIsNew' /\ ReadingIsNew'
    BY <1>2, <1>5 DEF CheckedLast, SnapshotsFind, EvidenceIsNew, ReadingIsNew
<1>11. AnswerIsTrue'
    BY <1>1, <1>2, <1>3, <1>4, NoOutForms DEF AnInv, AnswerIsTrue, SameAtSomeMoment, Stayed, Had
<1>12. PlansShape'
  <2>1. \A b \in Passes : OutShape(pass'[b].out) /\ (pass'[b].pc = "save" => pass'[b].out.state # "NONE")
      BY <1>3, <1>4, <1>5, NoOutForms DEF AnInv, PlansShape
  <2>2. Len(snaps') >= Len(snaps) /\ snaps' \in Seq(Snapshots) /\ \A i \in 1..Len(snaps) : snaps'[i] = snaps[i]
      BY <1>1, <1>2
  <2> QED
      BY <1>1, <1>4, <2>1, <2>2, PlansStay
<1> QED
    BY <1>6, <1>7, <1>8, <1>9, <1>10, <1>11, <1>12 DEF AnInv

-----------------------------------------------------------------------------
(* The theorems about the contents of a check.                             *)

\* The trees a behaviour starts from.
LEMMA AnInitTypes ==
    ASSUME AnInit
    PROVE  AnTypes
<1>1. /\ mode \in {"SENSITIVE", "INSENSITIVE"} /\ policy \in Policies /\ rev = 1 /\ sc = NoScan /\ dirty = FALSE
      /\ snaps = <<>> /\ proofs = <<>> /\ rows = <<>> /\ seen = [s \in Sides |-> {tree[s]}]
      /\ mater = [r \in 1..MaxAnRevs |-> [an |-> 0, state |-> "NONE"]]
    BY DEF AnInit
<1>2. tree \in [Sides -> AnTrees] /\ \A s \in Sides : Tree(tree[s], IF s = "src" THEN "SENSITIVE" ELSE mode)
  <2>1. CASE \E s \in SourceTrees, t \in TargetTrees(mode) : tree = [x \in Sides |-> IF x = "src" THEN s ELSE t]
    <3>1. PICK s \in SourceTrees, t \in TargetTrees(mode) : tree = [x \in Sides |-> IF x = "src" THEN s ELSE t]
        BY <2>1
    <3>2. s \in [Paths -> {0, 1, Folder}] /\ Tree(s, "SENSITIVE") /\ t \in AnTrees /\ Tree(t, mode)
        BY DEF SourceTrees, TargetTrees, AnTrees
    <3>3. s \in AnTrees
        BY <3>2, AnConstants DEF AnTrees
    <3> QED
        BY <3>1, <3>2, <3>3, AnConstants
  <2>2. CASE tree = LiveTree
    <3> DEFINE t == [p \in Paths |-> CASE p = 1 -> Folder [] p = 2 -> 1 [] p = 3 -> 1 [] OTHER -> 0]
    <3>1. t \in AnTrees /\ t[1] = Folder /\ t[2] = 1 /\ t[3] = 1 /\ t[4] = 0
        BY AnConstants DEF AnTrees
    <3>2. tree = [s \in Sides |-> t]
        BY <2>2 DEF LiveTree
    <3> HIDE DEF t
    <3>3. \A m : Tree(t, m)
        BY <3>1, AnConstants DEF Tree
    <3> QED
        BY <3>1, <3>2, <3>3
  <2> QED
      BY <2>1, <2>2 DEF AnInit
<1>3. pass \in [Passes -> PassForms] /\ events \in 0..MaxAnEvents
  <2>1. \A pc \in {"idle", "begin", "done"} : Fresh(pc) \in PassForms
      BY FreshForms
  <2>2. pass \in [Passes -> PassForms]
    <3>1. \A p1, p2 \in {"idle", "begin", "done"} :
              [a \in Passes |-> Fresh(IF a = "check" THEN p1 ELSE p2)] \in [Passes -> PassForms]
        BY <2>1
    <3> QED
        BY <3>1 DEF AnInit
  <2>3. events \in 0..MaxAnEvents
      BY AnConstants DEF AnInit
  <2> QED
      BY <2>2, <2>3
<1>4. /\ mater \in [1..MaxAnRevs -> MaterForms] /\ rev \in 1..MaxAnRevs
      /\ snaps \in Seq(Snapshots) /\ proofs \in Seq(Hashes) /\ rows \in Seq(Outs) /\ Len(proofs) = Len(snaps)
    BY <1>1, AnConstants DEF MaterForms
<1>5. /\ seen \in [Sides -> SUBSET AnTrees] /\ \A s \in Sides : tree[s] \in seen[s]
      /\ \A t \in seen["src"] : Tree(t, "SENSITIVE")
    BY <1>1, <1>2, AnConstants
<1> QED
    BY <1>1, <1>2, <1>3, <1>4, <1>5, NoScanForms DEF AnTypes

\* The invariant holds to begin with.
LEMMA AnInitInv ==
    ASSUME AnInit
    PROVE  AnInv
<1>1. AnTypes
    BY AnInitTypes
<1>2. \A a \in Passes : /\ pass[a].pc \in {"idle", "begin", "done"} /\ pass[a].an = 0 /\ pass[a].out = NoOut
  <2>1. \A pc \in {"idle", "begin", "done"} : Fresh(pc).pc = pc /\ Fresh(pc).an = 0 /\ Fresh(pc).out = NoOut
      BY FreshForms
  <2> QED
      BY <2>1 DEF AnInit
<1>3. /\ sc = NoScan /\ snaps = <<>> /\ proofs = <<>> /\ rows = <<>> /\ Len(snaps) = 0
      /\ \A r \in 1..MaxAnRevs : mater[r].state = "NONE"
    BY DEF AnInit
<1>4. ScanShape
  <2>1. "none" \notin Passes
      BY AnConstants
  <2> QED
      BY <1>2, <1>3, <2>1, NoScanForms, QueueForms DEF ScanShape
<1>5. ScanFinds /\ SealedShape /\ PassStands /\ CheckedLast
    BY <1>2, <1>3, NoScanForms, AnConstants DEF ScanFinds, SealedShape, PassStands, CheckedLast
<1>6. SnapshotsFind /\ EvidenceIsNew /\ ReadingIsNew /\ AnswerIsTrue
    BY <1>2, AnConstants, NoOutForms DEF SnapshotsFind, EvidenceIsNew, ReadingIsNew, AnswerIsTrue
<1>7. PlansShape
    BY <1>2, <1>3, NoOutForms DEF PlansShape
<1> QED
    BY <1>1, <1>4, <1>5, <1>6, <1>7 DEF AnInv

\* Every step keeps the invariant.
THEOREM AnInvariance == AnSpec => []AnInv
<1>1. ASSUME AnInv, [AnNext]_anVars PROVE AnInv'
  <2>1. CASE OpenDirectory
      BY <1>1, <2>1, OpenKeeps
  <2>2. CASE ListDirectory
      BY <1>1, <2>2, ListKeeps
  <2>3. CASE StatChildren
      BY <1>1, <2>3, StatKeeps
  <2>4. CASE CloseDirectory
      BY <1>1, <2>4, CloseKeeps
  <2>5. CASE ScanTarget
      BY <1>1, <2>5, TargetKeeps
  <2>6. CASE SealSnapshots
      BY <1>1, <2>6, SealKeeps
  <2>7. CASE ScanFails
      BY <1>1, <2>7, FailsKeeps
  <2>8. CASE RequestCheck
      BY <1>1, <2>8, RequestKeeps
  <2>9. CASE RunAgain
      BY <1>1, <2>9, AgainKeeps
  <2>10. CASE EditJob
      BY <1>1, <2>10, JobKeeps
  <2>11. CASE AnStops
      BY <1>1, <2>11, StopsKeeps
  <2>12. ASSUME NEW s \in Sides, NEW p \in Paths, NEW o \in Objects, NEW inPlace \in BOOLEAN,
                EditTree(s, p, o, inPlace)
         PROVE  AnInv'
      BY <1>1, <2>12, EditKeeps
  <2>13. ASSUME NEW a \in Passes, PassStep(a) PROVE AnInv'
      BY <1>1, <2>13, ReuseKeeps, BeginKeeps, RefuseKeeps, FileKeeps, ReadKeeps, PersistKeeps, KeepKeeps,
         BuildKeeps, SaveKeeps DEF PassStep
  <2>14. CASE UNCHANGED anVars
    <3>1. UNCHANGED <<tree, mode, policy, rev, snaps, proofs, mater, pass, rows, events, seen>>
          /\ sc' = sc /\ dirty' = dirty
        BY <2>14 DEF anVars
    <3>2. ScanShape' /\ ScanFinds' /\ dirty' \in BOOLEAN /\ sc' \in ScanForms
        BY <1>1, <3>1 DEF AnInv, AnTypes, ScanShape, ScanFinds, ReadRight, WillFind, Stayed, Had, Dir
    <3> QED
        BY <1>1, <3>1, <3>2, ScanOnly
  <2> QED
      BY <1>1, <2>1, <2>2, <2>3, <2>4, <2>5, <2>6, <2>7, <2>8, <2>9, <2>10, <2>11, <2>12, <2>13, <2>14
      DEF AnNext, ScanStep
<1> QED
    BY <1>1, AnInitInv, PTL DEF AnSpec

\* Every variable of scans, passes and plans keeps its type, for any revisions,
\* rescans, edits and crashes.
THEOREM ContentsTypes == AnSpec => []AnTypeOK
<1>1. AnInv => AnTypeOK
  <2> SUFFICES ASSUME AnInv PROVE AnTypeOK
      OBVIOUS
  <2>1. sc.by \in Passes \cup {"none"} /\ sc.try \in 0..MaxRescans
      BY DEF AnInv, AnTypes, ScanForms
  <2>2. \A a \in Passes : /\ pass[a].pc \in {"idle", "begin", "scan", "hash", "plan", "save", "done"}
                          /\ pass[a].pc = "scan" <=> sc.by = a
      BY DEF AnInv, AnTypes, ScanShape, PassForms
  <2>3. \A i \in DOMAIN rows : /\ rows[i].state \in {"SEALED", "NO_CHANGES", "BLOCKED", "FAILED"}
                              /\ (rows[i].state = "SEALED") <=> (rows[i].ops # {})
      BY DEF AnInv, AnTypes, PlansShape, OutShape, OutFits, Outs
  <2> QED
      BY <2>1, <2>2, <2>3 DEF AnInv, AnTypes, AnTypeOK
<1> QED
    BY <1>1, AnInvariance, PTL

\* A check that answers NO_CHANGES is right, although snapshots and evidence may be
\* another pass's and the folders are edited meanwhile (BackupAnalysisService,
\* plan building): each file the source kept had a content its twin had as well.
THEOREM NoChangesIsRight == AnSpec => []NoChangesIsTrue
<1>1. AnInv => NoChangesIsTrue
    BY DEF AnInv, AnswerIsTrue, SameAtSomeMoment, Stayed, NoChangesIsTrue
<1> QED
    BY <1>1, AnInvariance, PTL

\* A plan that can be run makes every folder before what stands in it, and replaces
\* a file only under the policy that keeps versions.
THEOREM FoldersComeFirst == AnSpec => []ParentsFirst
<1>1. AnInv => ParentsFirst
    BY DEF AnInv, PlansShape, OutShape, OutFits, ParentsOf, ParentsFirst
<1> QED
    BY <1>1, AnInvariance, PTL

\* A plan is sealed only for the revision and the snapshots that are current when it
\* is saved, although it was built from those that were current before.
THEOREM PlansAreCurrent == AnSpec => SealedForCurrent
<1> DEFINE A == (Len(rows') > Len(rows) /\ rows'[Len(rows')].state = "SEALED") =>
                (rows'[Len(rows')].rev = rev /\ mater[rev] = [an |-> rows'[Len(rows')].an, state |-> "SEALED"])
<1>1. ASSUME AnInv, [AnNext]_anVars PROVE A
  <2>1. rows \in Seq(Outs) /\ rev \in 1..MaxAnRevs /\ mater \in [1..MaxAnRevs -> MaterForms]
      BY <1>1, AnConstants DEF AnInv, AnTypes
  <2>2. CASE rows' = rows
      BY <2>1, <2>2
  <2>3. ASSUME NEW a \in Passes, SaveResult(a) PROVE A
    <3> DEFINE kept == SavedAs(pass[a].out)
    <3>1. rows' = Append(rows, kept) /\ pass[a].out \in Outs
        BY <1>1, <2>3 DEF SaveResult, AnInv, AnTypes, PassForms
    <3>2. Len(rows') = Len(rows) + 1 /\ rows'[Len(rows')] = kept
        BY <2>1, <3>1
    <3>3. ASSUME kept.state = "SEALED" PROVE kept = pass[a].out /\ StillCandidate(pass[a].out)
      <4>1. [pass[a].out EXCEPT !.state = "FAILED", !.ops = {}].state = "FAILED"
          BY <3>1 DEF Outs
      <4> QED
          BY <3>3, <4>1 DEF SavedAs
    <3>4. \A row \in MaterForms : row = [an |-> row.an, state |-> row.state]
        BY DEF MaterForms
    <3> HIDE DEF kept
    <3> QED
        BY <2>1, <3>2, <3>3, <3>4 DEF StillCandidate, ActiveRow
  <2>4. ASSUME NEW a \in Passes, PassStep(a) PROVE rows' = rows \/ SaveResult(a)
      BY <2>4 DEF PassStep, ReuseSnapshots, BeginScan, RefuseHashing, OpenFile, ReadFile,
                  PersistEvidence, KeepResult, BuildPlan
  <2>5. ScanStep => rows' = rows
      BY DEF ScanStep, OpenDirectory, ListDirectory, StatChildren, CloseDirectory, ScanTarget, SealSnapshots
  <2>6. ScanFails \/ RequestCheck \/ RunAgain \/ EditJob \/ AnStops => rows' = rows
      BY DEF ScanFails, RequestCheck, RunAgain, EditJob, AnStops
  <2>7. ASSUME NEW s \in Sides, NEW p \in Paths, NEW o \in Objects, NEW inPlace \in BOOLEAN,
               EditTree(s, p, o, inPlace)
        PROVE  rows' = rows
      BY <2>7 DEF EditTree
  <2>8. UNCHANGED anVars => rows' = rows
      BY DEF anVars
  <2>9. rows' = rows \/ \E a \in Passes : SaveResult(a)
      BY <1>1, <2>4, <2>5, <2>6, <2>7, <2>8 DEF AnNext
  <2> HIDE DEF A
  <2> QED
      BY <2>2, <2>3, <2>9
<1>2. AnInv /\ [AnNext]_anVars => [A]_anVars
    BY <1>1
<1> QED
    BY <1>2, AnInvariance, PTL DEF AnSpec, SealedForCurrent

-----------------------------------------------------------------------------
(* That snapshots are true: the inductive invariant.                       *)

\* What the entries say of a directory was so at one moment, and of each of
\* its children at some moment.
TrueOf(past, e, d) ==
    /\ \E t \in past : Listing(t, d) = Listed(e, d)
    /\ \A p \in Paths : Parent(p) = d => \E t \in past : e[p] = Entry(t[p])

\* What a scan has of the directories of a side it has behind it, and has not
\* of those before it.
RootDone(s) == IF s = sc.side THEN sc.queue # << 0 >> ELSE s = "src"
InnerDone(s) == RootDone(s) /\ (s = sc.side => sc.queue \notin {<< 1 >>, <<1, 3>>})
ScannedIsTrue(s) ==
    /\ ~RootDone(s) => sc.got[s] = Empty
    /\ RootDone(s) => TrueOf(seen[s], sc.got[s], 0)
    /\ (RootDone(s) /\ ~InnerDone(s)) => sc.got[s][2] = 0
    /\ InnerDone(s) => TrueOf(seen[s], sc.got[s], 1)

\* A directory that did not change while it is read is read as it is.
ReadingIsTrue ==
    ~dirty =>
        /\ sc.at # "open" => ~Gone
        /\ sc.at = "stat" => sc.names = {p \in Held(tree[sc.side]) : Parent(p) = Dir}
        /\ sc.at = "close" =>
              /\ Listing(tree[sc.side], Dir) = Listed(sc.part, Dir)
              /\ \A p \in Paths : Parent(p) = Dir => \E t \in seen[sc.side] : sc.part[p] = Entry(t[p])

\* A check's scan that has missed nothing, and the snapshots a check has sealed.
ScanIsTrue == (sc.by = "check" /\ sc.whole) => ReadingIsTrue /\ \A s \in Sides : ScannedIsTrue(s)
SealedIsTrue ==
    pass["check"].pc \in {"hash", "plan"} =>
        \A s \in Sides, d \in {0, 1} : TrueOf(seen[s], snaps[Since][s], d)

\* A tree and the entries of its objects have one listing.
LEMMA ListingOfEntries ==
    ASSUME NEW t \in AnTrees, NEW e, NEW d, \A p \in Paths : Parent(p) = d => e[p] = Entry(t[p])
    PROVE  Listing(t, d) = Listed(e, d)
<1>1. \A o \in Objects : (IF IsFile(o) THEN 1 ELSE o) = (IF Entry(o) = 2 THEN 1 ELSE Entry(o))
    BY AnConstants DEF Entry, IsFile, SizeOf
<1>2. \A p \in Paths : t[p] \in Objects
    BY DEF AnTrees
<1>3. \A p \in {x \in Paths : Parent(x) = d} :
          (IF IsFile(t[p]) THEN 1 ELSE t[p]) = (IF e[p] = 2 THEN 1 ELSE e[p])
    BY <1>1, <1>2
<1> QED
    BY <1>3 DEF Listing, Listed

\* What was true stays true of more, and of entries that agree.
LEMMA TrueOfMore ==
    ASSUME NEW past, NEW more, NEW e, NEW f, NEW d, past \subseteq more, TrueOf(past, e, d),
           \A p \in Paths : Parent(p) = d => f[p] = e[p]
    PROVE  TrueOf(more, f, d)
<1>1. Listed(f, d) = Listed(e, d)
    BY DEF Listed
<1> QED
    BY <1>1 DEF TrueOf

\* Entries of a tree that was seen.
LEMMA TrueOfTree ==
    ASSUME NEW past, NEW t \in AnTrees, NEW e, NEW d, t \in past, \A p \in Paths : Parent(p) = d => e[p] = Entry(t[p])
    PROVE  TrueOf(past, e, d)
BY ListingOfEntries DEF TrueOf

\* The check's snapshots are there, and stay what they are.
LEMMA SealedStays ==
    ASSUME AnInv, SealedIsTrue,
           pass'["check"].pc \in {"hash", "plan"} =>
               /\ pass["check"].pc \in {"hash", "plan"} /\ pass'["check"].an = pass["check"].an
               /\ \A s \in Sides : seen[s] \subseteq seen'[s],
           \A m \in 1..Len(snaps) : snaps'[m] = snaps[m]
    PROVE  SealedIsTrue'
<1> SUFFICES ASSUME pass'["check"].pc \in {"hash", "plan"}, NEW s \in Sides, NEW d \in {0, 1}
             PROVE  TrueOf(seen'[s], snaps'[Since'][s], d)
    BY DEF SealedIsTrue
<1>1. Since' = Since /\ seen[s] \subseteq seen'[s] /\ TrueOf(seen[s], snaps[Since][s], d)
    BY DEF SealedIsTrue, Since
<1>2. Since \in 1..Len(snaps)
  <2>1. "check" \in Passes /\ pass["check"].an \in Nat /\ Len(snaps) \in Nat
      BY AnConstants DEF AnInv, AnTypes, PassForms
  <2> QED
      BY <2>1, AnConstants DEF AnInv, PassStands, Since
<1> QED
    BY <1>1, <1>2, TrueOfMore

\* A scan that is not a check's, or has missed something, promises nothing.
LEMMA NoPromise ==
    ASSUME sc'.by # "check" \/ ~sc'.whole
    PROVE  ScanIsTrue'
BY DEF ScanIsTrue

-----------------------------------------------------------------------------
(* That snapshots are true: the steps.                                     *)

\* What the scan's own steps leave as it is.
LEMMA ScanStepOnly ==
    ASSUME AnInv, SealedIsTrue, UNCHANGED <<pass, snaps, seen>>
    PROVE  SealedIsTrue'
BY SealedStays

\* A directory is opened.
LEMMA OpenIsTrue ==
    ASSUME AnInv, ScanIsTrue, OpenDirectory
    PROVE  ScanIsTrue'
<1>1. /\ sc \in ScanForms /\ sc.at = "open" /\ tree' = tree /\ seen' = seen
    BY InScan DEF OpenDirectory
<1>2. CASE Gone
  <2>1. ~sc'.whole
      BY <1>1, <1>2 DEF OpenDirectory, ScanForms
  <2> QED
      BY <2>1, NoPromise
<1>3. CASE ~Gone
  <2>1. sc' = [sc EXCEPT !.at = "list"]
      BY <1>3 DEF OpenDirectory
  <2>2. /\ sc'.by = sc.by /\ sc'.at = "list" /\ sc'.queue = sc.queue /\ sc'.got = sc.got
        /\ sc'.side = sc.side /\ sc'.whole = sc.whole
      BY <1>1, <2>1 DEF ScanForms
  <2>3. ReadingIsTrue'
      BY <1>1, <1>3, <2>2 DEF ReadingIsTrue, Gone, Dir
  <2>4. \A s \in Sides : ScannedIsTrue(s) => ScannedIsTrue(s)'
      BY <1>1, <2>2 DEF ScannedIsTrue, RootDone, InnerDone
  <2> QED
      BY <2>2, <2>3, <2>4 DEF ScanIsTrue
<1> QED
    BY <1>2, <1>3

\* Its names are read.
LEMMA ListIsTrue ==
    ASSUME AnInv, ScanIsTrue, ListDirectory
    PROVE  ScanIsTrue'
<1>1. /\ sc \in ScanForms /\ sc.at = "list" /\ tree' = tree /\ seen' = seen /\ dirty' = dirty
    BY InScan DEF ListDirectory
<1>2. CASE Gone
  <2>1. ~sc'.whole
      BY <1>1, <1>2 DEF ListDirectory, ScanForms
  <2> QED
      BY <2>1, NoPromise
<1>3. CASE ~Gone
  <2> DEFINE names == {p \in Held(tree[sc.side]) : Parent(p) = Dir}
  <2>1. sc' = [sc EXCEPT !.at = "stat", !.names = names]
      BY <1>3 DEF ListDirectory
  <2>2. /\ sc'.by = sc.by /\ sc'.at = "stat" /\ sc'.queue = sc.queue /\ sc'.got = sc.got
        /\ sc'.side = sc.side /\ sc'.whole = sc.whole /\ sc'.names = names
    <3> HIDE DEF names
    <3> QED
        BY <1>1, <2>1 DEF ScanForms
  <2>3. ReadingIsTrue'
      BY <1>1, <1>3, <2>2 DEF ReadingIsTrue, Gone, Dir
  <2>4. \A s \in Sides : ScannedIsTrue(s) => ScannedIsTrue(s)'
      BY <1>1, <2>2 DEF ScannedIsTrue, RootDone, InnerDone
  <2> HIDE DEF names
  <2> QED
      BY <2>2, <2>3, <2>4 DEF ScanIsTrue
<1> QED
    BY <1>2, <1>3

\* Its objects are inspected: those of a directory that did not change are all there.
LEMMA StatIsTrue ==
    ASSUME AnInv, ScanIsTrue, StatChildren
    PROVE  ScanIsTrue'
<1> DEFINE part == [p \in Paths |-> IF p \in sc.names THEN Entry(tree[sc.side][p]) ELSE 0]
           holes == \E p \in sc.names : tree[sc.side][p] = 0
<1>1. /\ sc \in ScanForms /\ sc.at = "stat" /\ tree' = tree /\ seen' = seen /\ dirty' = dirty
      /\ sc' = [sc EXCEPT !.at = "close", !.part = part, !.holes = holes]
    BY InScan DEF StatChildren
<1>2. /\ sc'.by = sc.by /\ sc'.at = "close" /\ sc'.queue = sc.queue /\ sc'.got = sc.got
      /\ sc'.side = sc.side /\ sc'.whole = sc.whole /\ sc'.part = part
  <2> HIDE DEF part, holes
  <2> QED
      BY <1>1 DEF ScanForms
<1>3. sc.side \in Sides /\ tree[sc.side] \in seen[sc.side] /\ tree[sc.side] \in AnTrees
    BY <1>1 DEF ScanForms, AnInv, AnTypes
<1>4. ASSUME ~dirty, ReadingIsTrue, NEW p \in Paths, Parent(p) = Dir PROVE part[p] = Entry(tree[sc.side][p])
  <2>1. p \in sc.names <=> tree[sc.side][p] # 0
      BY <1>1, <1>4 DEF ReadingIsTrue, Held
  <2>2. tree[sc.side][p] \in Objects
      BY <1>3 DEF AnTrees
  <2> QED
      BY <2>1, <2>2, EntryForms
<1>5. ReadingIsTrue => ReadingIsTrue'
  <2> SUFFICES ASSUME ReadingIsTrue, ~dirty
               PROVE  /\ ~Gone' /\ Listing(tree[sc.side], Dir) = Listed(part, Dir)
                      /\ \A p \in Paths : Parent(p) = Dir => \E t \in seen[sc.side] : part[p] = Entry(t[p])
    <3>1. sc'.at # "stat" /\ Dir' = Dir
        BY <1>2 DEF Dir
    <3> HIDE DEF part
    <3> QED
        BY <1>1, <1>2, <3>1 DEF ReadingIsTrue
  <2>1. ~Gone'
      BY <1>1, <1>2 DEF ReadingIsTrue, Gone, Dir
  <2>2. \A p \in Paths : Parent(p) = Dir => part[p] = Entry(tree[sc.side][p])
      BY <1>4
  <2> HIDE DEF part
  <2> QED
      BY <1>3, <2>1, <2>2, ListingOfEntries
<1>6. \A s \in Sides : ScannedIsTrue(s) => ScannedIsTrue(s)'
    BY <1>1, <1>2 DEF ScannedIsTrue, RootDone, InnerDone
<1> HIDE DEF part, holes
<1> QED
    BY <1>2, <1>5, <1>6 DEF ScanIsTrue

\* A directory is accepted without a change: what was read of it is in the snapshot.
LEMMA AcceptIsTrue ==
    ASSUME AnInv, ScanIsTrue, CloseDirectory, sc.by = "check", sc.whole, ~Gone, ~dirty,
           sc' = AcceptScan(~Gone /\ ~dirty)
    PROVE  \A s \in Sides : ScannedIsTrue(s)'
<1>1. /\ sc \in ScanForms /\ sc.at = "close" /\ tree' = tree /\ seen' = seen /\ Locked
      /\ sc.queue # <<>> /\ sc.queue \in Queues
    BY InScan DEF CloseDirectory, AnInv, ScanShape
<1>2. /\ sc' \in ScanForms /\ sc'.side = sc.side
      /\ sc.queue = << 0 >> => sc'.queue = Folders(sc.part)
      /\ sc.queue # << 0 >> => sc'.queue \in {<<>>, << 3 >>}
      /\ \A s \in Sides, p \in Paths : sc'.got[s][p] =
            IF s = sc.side /\ sc.part[p] # 0 THEN sc.part[p] ELSE sc.got[s][p]
  <2>1. (~Gone /\ ~dirty) \in BOOLEAN
      OBVIOUS
  <2>2. PICK complete \in BOOLEAN : complete = (~Gone /\ ~dirty)
      BY <2>1
  <2>3. PICK new : new = AcceptScan(complete)
      OBVIOUS
  <2>4. sc' = new
      BY <2>2, <2>3
  <2>5. /\ new \in ScanForms /\ new.side = sc.side
        /\ sc.queue = << 0 >> => new.queue = Folders(sc.part)
        /\ sc.queue # << 0 >> => new.queue \in {<<>>, << 3 >>}
        /\ \A s \in Sides, p \in Paths : new.got[s][p] =
              IF s = sc.side /\ sc.part[p] # 0 THEN sc.part[p] ELSE sc.got[s][p]
      BY <1>1, <2>3, Accepted
  <2> QED
      BY <2>4, <2>5
<1>3. /\ sc.got \in [Sides -> [Paths -> AnEntries]] /\ sc'.got \in [Sides -> [Paths -> AnEntries]]
      /\ sc.part \in [Paths -> AnEntries] /\ sc.side \in Sides
    BY <1>1, <1>2 DEF ScanForms, Snapshots
<1>4. /\ tree[sc.side] \in seen[sc.side] /\ tree[sc.side] \in AnTrees
      /\ \E m \in {"SENSITIVE", "INSENSITIVE"} : Tree(tree[sc.side], m)
    BY <1>3 DEF AnInv, AnTypes
<1>5. /\ Listing(tree[sc.side], Dir) = Listed(sc.part, Dir)
      /\ \A p \in Paths : Parent(p) = Dir => \E t \in seen[sc.side] : sc.part[p] = Entry(t[p])
      /\ \A s \in Sides : ScannedIsTrue(s)
    BY <1>1 DEF ScanIsTrue, ReadingIsTrue
<1>6. TrueOf(seen[sc.side], sc.part, Dir) /\ \A p \in Paths : sc.part[p] # 0 => Parent(p) = Dir
  <2>1. \E t \in seen[sc.side] : Listing(t, Dir) = Listed(sc.part, Dir)
      BY <1>4, <1>5
  <2> QED
      BY <1>1, <1>5, <2>1 DEF TrueOf, AnInv, ScanShape
<1>7. ASSUME NEW s \in Sides, s # sc.side PROVE ScannedIsTrue(s)'
  <2>1. sc'.got[s] = sc.got[s]
      BY <1>2, <1>3, <1>7
  <2>2. ScannedIsTrue(s)
      BY <1>5
  <2> QED
      BY <1>1, <1>2, <1>7, <2>1, <2>2 DEF ScannedIsTrue, RootDone, InnerDone
<1>8. ScannedIsTrue(sc.side)
    BY <1>3, <1>5
<1> DEFINE got == sc'.got[sc.side]
           past == seen[sc.side]
<1>9. \A p \in Paths : got[p] = IF sc.part[p] # 0 THEN sc.part[p] ELSE sc.got[sc.side][p]
    BY <1>2, <1>3
<1>10. SUFFICES /\ sc'.queue # << 0 >> /\ TrueOf(past, got, 0)
                /\ sc'.queue \in {<< 1 >>, <<1, 3>>} => got[2] = 0
                /\ sc'.queue \notin {<< 1 >>, <<1, 3>>} => TrueOf(past, got, 1)
  <2>1. ASSUME NEW s \in Sides, s = sc.side,
               /\ sc'.queue # << 0 >> /\ TrueOf(past, got, 0)
               /\ sc'.queue \in {<< 1 >>, <<1, 3>>} => got[2] = 0
               /\ sc'.queue \notin {<< 1 >>, <<1, 3>>} => TrueOf(past, got, 1)
        PROVE  ScannedIsTrue(s)'
      BY <1>1, <1>2, <2>1 DEF ScannedIsTrue, RootDone, InnerDone
  <2> QED
      BY <1>7, <2>1
<1>11. CASE sc.queue = << 0 >>
  <2>1. Dir = 0 /\ sc.got[sc.side] = Empty
      BY <1>1, <1>8, <1>11, QueueForms DEF Dir, ScannedIsTrue, RootDone
  <2>2. \A p \in Paths : got[p] = sc.part[p]
      BY <1>9, <2>1 DEF Empty
  <2>3. TrueOf(past, got, 0)
      BY <1>6, <2>1, <2>2, TrueOfMore
  <2>4. got[2] = 0
      BY <1>6, <2>1, <2>2, Parents, AnConstants
  <2>5. /\ sc'.queue \in {<<>>, << 1 >>, << 3 >>, <<1, 3>>}
        /\ sc.part[1] = Folder => sc'.queue \in {<< 1 >>, <<1, 3>>}
      BY <1>2, <1>3, <1>11, FolderForms
  <2>6. ASSUME sc.part[1] # Folder PROVE TrueOf(past, got, 1)
    <3>1. tree[sc.side][1] # Folder
      <4>1. 1 \in {x \in Paths : Parent(x) = 0}
          BY Parents, AnConstants
      <4>2. Listing(tree[sc.side], 0)[1] = Listed(sc.part, 0)[1]
          BY <1>5, <2>1
      <4>3. (IF IsFile(tree[sc.side][1]) THEN 1 ELSE tree[sc.side][1]) = (IF sc.part[1] = 2 THEN 1 ELSE sc.part[1])
          BY <4>1, <4>2 DEF Listing, Listed
      <4> QED
          BY <2>6, <4>3, AnConstants DEF IsFile
    <3>2. tree[sc.side][2] = 0
        BY <1>4, <3>1, AnConstants DEF Tree
    <3>3. \A p \in Paths : Parent(p) = 1 => got[p] = Entry(tree[sc.side][p])
        BY <2>4, <3>2, Parents, EntryForms, AnConstants
    <3> HIDE DEF got, past
    <3> QED
        BY <1>4, <3>3, TrueOfTree DEF past
  <2> QED
      BY <2>3, <2>4, <2>5, <2>6, QueueForms
<1>12. CASE sc.queue # << 0 >>
  <2>1. sc'.queue \in {<<>>, << 3 >>} /\ Dir \in {1, 3} /\ (Dir = 1 <=> sc.queue \in {<< 1 >>, <<1, 3>>})
      BY <1>1, <1>2, <1>12, QueueForms DEF Dir
  <2>2. sc'.queue # << 0 >> /\ sc'.queue \notin {<< 1 >>, <<1, 3>>}
      BY <2>1, QueueForms
  <2>3. TrueOf(past, sc.got[sc.side], 0)
      BY <1>8, <1>12 DEF ScannedIsTrue, RootDone
  <2>4. \A p \in Paths : Parent(p) = 0 => got[p] = sc.got[sc.side][p]
      BY <1>6, <1>9, <2>1
  <2>5. TrueOf(past, got, 0)
      BY <2>3, <2>4, TrueOfMore
  <2>6. CASE Dir = 1
    <3>1. sc.got[sc.side][2] = 0
        BY <1>8, <1>12, <2>1, <2>6 DEF ScannedIsTrue, RootDone, InnerDone
    <3>2. \A p \in Paths : Parent(p) = 1 => got[p] = sc.part[p]
        BY <1>9, <3>1, Parents
    <3> QED
        BY <1>6, <2>2, <2>5, <2>6, <3>2, TrueOfMore
  <2>7. CASE Dir = 3
    <3>1. TrueOf(past, sc.got[sc.side], 1)
        BY <1>8, <1>12, <2>1, <2>7 DEF ScannedIsTrue, RootDone, InnerDone
    <3>2. \A p \in Paths : Parent(p) = 1 => got[p] = sc.got[sc.side][p]
        BY <1>6, <1>9, <2>7
    <3> QED
        BY <2>2, <2>5, <3>1, <3>2, TrueOfMore
  <2> QED
      BY <2>1, <2>6, <2>7
<1> QED
    BY <1>11, <1>12

\* A directory is closed: accepted, or read again.
LEMMA CloseIsTrue ==
    ASSUME AnInv, ScanIsTrue, CloseDirectory
    PROVE  ScanIsTrue'
<1>1. /\ sc \in ScanForms /\ Locked /\ sc.at = "close" /\ tree' = tree /\ seen' = seen /\ dirty' = dirty
    BY InScan DEF CloseDirectory
<1>2. CASE sc' = Rescan
  <2>1. /\ sc'.by = sc.by /\ sc'.at = "open" /\ sc'.queue = sc.queue /\ sc'.got = sc.got
        /\ sc'.side = sc.side /\ sc'.whole = sc.whole
      BY <1>1, <1>2 DEF Rescan, ScanForms
  <2>2. ReadingIsTrue'
      BY <2>1 DEF ReadingIsTrue
  <2>3. \A s \in Sides : ScannedIsTrue(s) => ScannedIsTrue(s)'
      BY <1>1, <2>1 DEF ScannedIsTrue, RootDone, InnerDone
  <2> QED
      BY <2>1, <2>2, <2>3 DEF ScanIsTrue
<1>3. CASE sc' = AcceptScan(~Gone /\ ~dirty)
  <2>1. sc'.by = sc.by /\ sc'.at = "open" /\ (sc'.whole => sc.whole /\ ~Gone /\ ~dirty)
    <3>1. PICK complete \in BOOLEAN : complete = (~Gone /\ ~dirty)
        OBVIOUS
    <3>2. PICK new : new = AcceptScan(complete)
        OBVIOUS
    <3>3. sc' = new
        BY <1>3, <3>1, <3>2
    <3>4. new.by = sc.by /\ new.at = "open" /\ (new.whole => sc.whole /\ complete)
        BY <1>1, <3>2, Accepted
    <3> QED
        BY <3>1, <3>3, <3>4
  <2>2. ReadingIsTrue'
      BY <2>1 DEF ReadingIsTrue
  <2>3. CASE sc'.by = "check" /\ sc'.whole
      BY <1>3, <2>1, <2>2, <2>3, AcceptIsTrue DEF ScanIsTrue
  <2>4. CASE ~(sc'.by = "check" /\ sc'.whole)
      BY <2>4 DEF ScanIsTrue
  <2> QED
      BY <2>3, <2>4
<1> QED
    BY <1>2, <1>3 DEF CloseDirectory

\* The target is scanned after the source.
LEMMA TargetIsTrue ==
    ASSUME AnInv, ScanIsTrue, ScanTarget
    PROVE  ScanIsTrue'
<1>1. /\ sc \in ScanForms /\ sc.queue = <<>> /\ sc.side = "src" /\ sc.at = "open" /\ seen' = seen
      /\ sc' = [sc EXCEPT !.side = "tgt", !.queue = << 0 >>]
    BY InScan DEF ScanTarget
<1>2. /\ sc'.by = sc.by /\ sc'.at = "open" /\ sc'.queue = << 0 >> /\ sc'.got = sc.got
      /\ sc'.side = "tgt" /\ sc'.whole = sc.whole
    BY <1>1 DEF ScanForms
<1>3. ReadingIsTrue'
    BY <1>2 DEF ReadingIsTrue
<1>4. ASSUME NEW s \in Sides, ScannedIsTrue(s) PROVE ScannedIsTrue(s)'
  <2>1. CASE s = "src"
      BY <1>1, <1>2, <1>4, <2>1, QueueForms DEF ScannedIsTrue, RootDone, InnerDone
  <2>2. CASE s = "tgt"
      BY <1>1, <1>2, <1>4, <2>2 DEF ScannedIsTrue, RootDone, InnerDone
  <2> QED
      BY <2>1, <2>2, AnConstants
<1> QED
    BY <1>2, <1>3, <1>4 DEF ScanIsTrue

\* A scan begins with nothing.
LEMMA BeginIsTrue ==
    ASSUME AnInv, NEW a \in Passes, BeginScan(a)
    PROVE  ScanIsTrue'
<1>1. sc' = [NoScan EXCEPT !.by = a, !.queue = << 0 >>]
    BY DEF BeginScan
<1>2. /\ sc'.at = "open" /\ sc'.queue = << 0 >> /\ sc'.side = "src" /\ sc'.got = [s \in Sides |-> Empty]
    BY <1>1, NoScanForms DEF ScanForms
<1>3. ReadingIsTrue'
    BY <1>2 DEF ReadingIsTrue
<1>4. \A s \in Sides : ScannedIsTrue(s)'
  <2>1. ASSUME NEW s \in Sides PROVE ScannedIsTrue(s)'
    <3>1. sc'.got[s] = Empty /\ ~RootDone(s)'
        BY <1>2, AnConstants DEF RootDone
    <3> QED
        BY <3>1 DEF ScannedIsTrue, InnerDone
  <2> QED
      BY <2>1
<1> QED
    BY <1>3, <1>4 DEF ScanIsTrue

\* Somebody edits a folder: what is being read is dirty, or is read as it is.
LEMMA EditIsTrue ==
    ASSUME AnInv, ScanIsTrue, NEW s \in Sides, NEW p \in Paths, NEW o \in Objects, NEW inPlace \in BOOLEAN,
           EditTree(s, p, o, inPlace)
    PROVE  ScanIsTrue'
<1> DEFINE new == [tree[s] EXCEPT ![p] = o]
<1>1. /\ sc' = sc /\ tree' = [tree EXCEPT ![s] = new] /\ seen' = [seen EXCEPT ![s] = @ \cup {new}]
      /\ inPlace => IsFile(o) /\ IsFile(tree[s][p])
      /\ dirty' = IF Locked /\ sc.side = s /\ sc.queue # <<>> /\ (p = Dir \/ (~inPlace /\ Parent(p) = Dir))
                  THEN TRUE ELSE dirty
    BY DEF EditTree
<1>2. /\ tree \in [Sides -> AnTrees] /\ seen \in [Sides -> SUBSET AnTrees] /\ sc \in ScanForms
    BY DEF AnInv, AnTypes
<1>3. /\ new \in AnTrees /\ new[p] = o /\ \A q \in Paths : q # p => new[q] = tree[s][q]
      /\ tree[s] \in AnTrees
    BY <1>2 DEF AnTrees
<1> HIDE DEF new
<1>4. /\ \A x \in Sides : seen[x] \subseteq seen'[x]
      /\ \A x \in Sides : tree'[x] = IF x = s THEN new ELSE tree[x]
    BY <1>1, <1>2, <1>3
<1>5. SUFFICES ASSUME sc.by = "check", sc.whole, ReadingIsTrue, \A x \in Sides : ScannedIsTrue(x)
               PROVE  ReadingIsTrue' /\ \A x \in Sides : ScannedIsTrue(x)'
    BY <1>1 DEF ScanIsTrue
<1>6. ASSUME NEW x \in Sides PROVE ScannedIsTrue(x)'
  <2>1. \A d : TrueOf(seen[x], sc.got[x], d) => TrueOf(seen'[x], sc.got[x], d)
      BY <1>4, TrueOfMore
  <2>2. ScannedIsTrue(x)
      BY <1>5
  <2> QED
      BY <1>1, <2>1, <2>2 DEF ScannedIsTrue, RootDone, InnerDone
<1>7. ReadingIsTrue'
  <2> SUFFICES ASSUME ~dirty', sc.at # "open"
               PROVE  /\ ~Gone'
                      /\ sc.at = "stat" => sc.names = {q \in Held(tree'[sc.side]) : Parent(q) = Dir}
                      /\ sc.at = "close" =>
                            /\ Listing(tree'[sc.side], Dir) = Listed(sc.part, Dir)
                            /\ \A q \in Paths : Parent(q) = Dir => \E t \in seen'[sc.side] : sc.part[q] = Entry(t[q])
    <3>1. Dir' = Dir
        BY <1>1 DEF Dir
    <3> QED
        BY <1>1, <3>1 DEF ReadingIsTrue
  <2>1. Locked /\ sc.queue # <<>> /\ sc.side \in Sides /\ sc.queue \in Queues
    <3>1. Locked
        BY NoScanForms DEF Locked
    <3> QED
        BY <1>2, <3>1 DEF ScanForms, AnInv, ScanShape
  <2>2. ~dirty /\ (sc.side = s => p # Dir /\ (Parent(p) = Dir => inPlace))
      BY <1>1, <2>1
  <2>3. /\ ~Gone
        /\ sc.at = "stat" => sc.names = {q \in Held(tree[sc.side]) : Parent(q) = Dir}
        /\ sc.at = "close" =>
              /\ Listing(tree[sc.side], Dir) = Listed(sc.part, Dir)
              /\ \A q \in Paths : Parent(q) = Dir => \E t \in seen[sc.side] : sc.part[q] = Entry(t[q])
      BY <1>5, <2>2 DEF ReadingIsTrue
  <2>4. Dir \in {0} \cup Paths
      BY <2>1, QueueForms, AnConstants DEF Dir
  <2>5. ~Gone'
    <3>1. Dir' = Dir /\ sc'.side = sc.side
        BY <1>1 DEF Dir
    <3>2. Dir # 0 => tree'[sc.side][Dir] = tree[sc.side][Dir]
        BY <1>3, <1>4, <2>1, <2>2, <2>4
    <3> QED
        BY <2>3, <3>1, <3>2 DEF Gone
  <2>6. ASSUME NEW q \in Paths, Parent(q) = Dir
        PROVE  /\ tree'[sc.side][q] # 0 <=> tree[sc.side][q] # 0
               /\ (IF IsFile(tree'[sc.side][q]) THEN 1 ELSE tree'[sc.side][q])
                  = (IF IsFile(tree[sc.side][q]) THEN 1 ELSE tree[sc.side][q])
    <3>1. CASE tree'[sc.side][q] = tree[sc.side][q]
        BY <3>1
    <3>2. CASE tree'[sc.side][q] # tree[sc.side][q]
      <4>1. sc.side = s /\ q = p /\ tree'[sc.side][q] = o
          BY <1>3, <1>4, <2>1, <3>2
      <4>2. IsFile(o) /\ IsFile(tree[s][p])
          BY <1>1, <2>2, <2>6, <4>1
      <4> QED
          BY <4>1, <4>2, AnConstants DEF IsFile
    <3> QED
        BY <3>1, <3>2
  <2>7. {q \in Held(tree'[sc.side]) : Parent(q) = Dir} = {q \in Held(tree[sc.side]) : Parent(q) = Dir}
      BY <2>6 DEF Held
  <2>8. Listing(tree'[sc.side], Dir) = Listing(tree[sc.side], Dir)
    <3>1. \A q \in {x \in Paths : Parent(x) = Dir} :
              (IF IsFile(tree'[sc.side][q]) THEN 1 ELSE tree'[sc.side][q])
              = (IF IsFile(tree[sc.side][q]) THEN 1 ELSE tree[sc.side][q])
        BY <2>6
    <3> QED
        BY <3>1 DEF Listing
  <2>9. seen[sc.side] \subseteq seen'[sc.side]
      BY <1>4, <2>1
  <2> QED
      BY <2>3, <2>5, <2>7, <2>8, <2>9
<1> QED
    BY <1>6, <1>7

\* Both snapshots are sealed: those of a check are what its scan has read.
LEMMA SealIsTrue ==
    ASSUME AnInv, ScanIsTrue, SealedIsTrue, SealSnapshots
    PROVE  SealedIsTrue'
<1> DEFINE n == Len(snaps) + 1
           sealed == [pass[sc.by] EXCEPT !.pc = "hash", !.an = n]
           refused == IF sc.by = "check" THEN [Fresh("done") EXCEPT !.out.state = "BLOCKED"] ELSE Fresh("plan")
           got == IF sc.whole THEN sc.got ELSE NoScan.got
<1>1. /\ Locked /\ sc.queue = <<>> /\ sc.side = "tgt" /\ seen' = seen /\ snaps' = Append(snaps, got)
      /\ pass' = [pass EXCEPT ![sc.by] = IF sc.whole THEN sealed ELSE refused]
    BY DEF SealSnapshots, ReadyForSeal
<1>2. /\ sc \in ScanForms /\ sc.by \in Passes /\ snaps \in Seq(Snapshots) /\ pass \in [Passes -> PassForms]
      /\ "check" \in Passes
    BY <1>1, InScan, AnConstants DEF AnInv, AnTypes
<1>3. got \in Snapshots
    BY <1>2, NoScanForms DEF ScanForms
<1>4. sealed.pc = "hash" /\ sealed.an = n /\ (sc.by = "check" => refused.pc = "done")
    BY <1>2, BlockedForms DEF PassForms
<1> HIDE DEF sealed, refused, got
<1>5. /\ snaps'[n] = got /\ \A m \in 1..Len(snaps) : snaps'[m] = snaps[m]
    BY <1>1, <1>2, <1>3
<1>6. CASE sc.by = "check" /\ sc.whole
  <2>1. pass'["check"].an = n /\ snaps'[n] = sc.got
      BY <1>1, <1>2, <1>4, <1>5, <1>6 DEF got
  <2>2. ASSUME NEW s \in Sides PROVE TrueOf(seen[s], sc.got[s], 0) /\ TrueOf(seen[s], sc.got[s], 1)
    <3>1. ScannedIsTrue(s)
        BY <1>6 DEF ScanIsTrue
    <3>2. InnerDone(s) /\ RootDone(s)
        BY <1>1, AnConstants, QueueForms DEF InnerDone, RootDone
    <3> QED
        BY <3>1, <3>2 DEF ScannedIsTrue
  <2>3. \A s \in Sides, d \in {0, 1} : TrueOf(seen[s], sc.got[s], d)
      BY <2>2
  <2> QED
      BY <1>1, <2>1, <2>3 DEF SealedIsTrue, Since
<1>7. CASE ~(sc.by = "check" /\ sc.whole)
  <2>1. pass'["check"].pc \in {"hash", "plan"} => pass'["check"] = pass["check"]
      BY <1>1, <1>2, <1>4, <1>7
  <2> QED
      BY <1>1, <1>5, <2>1, SealedStays
<1> QED
    BY <1>6, <1>7

\* An answer that promises nothing.
Silent(out) == out.state # "NO_CHANGES" /\ out.ops = {}

\* A pass whose evidence is refused has no answer.
LEMMA SilentForms ==
    /\ NoOut.state # "NO_CHANGES" /\ Silent(NoOut)
    /\ \A st \in {"BLOCKED", "FAILED"} : Silent([Fresh("done") EXCEPT !.out.state = st].out)
    /\ Silent(NoEvidence("check").out)
<1>1. \A st \in {"BLOCKED", "FAILED"} :
          /\ [Fresh("done") EXCEPT !.out.state = st].out.state = st
          /\ [Fresh("done") EXCEPT !.out.state = st].out.ops = {}
    BY RefusedForms
<1>2. \A st \in {"BLOCKED", "FAILED"} : Silent([Fresh("done") EXCEPT !.out.state = st].out)
    BY <1>1 DEF Silent
<1> QED
    BY <1>2, NoOutForms DEF Silent, NoEvidence

\* What a pass does with the check: it goes on with its snapshots, or leaves them,
\* and only the planner gives it an answer.
LEMMA CheckGoesOn ==
    ASSUME AnInv, NEW a \in Passes, PassStep(a), ~BeginScan(a)
    PROVE  /\ pass'["check"].pc \in {"hash", "plan"} =>
                  pass["check"].pc \in {"hash", "plan"} /\ pass'["check"].an = pass["check"].an
           /\ \/ pass'["check"].out = pass["check"].out \/ Silent(pass'["check"].out)
              \/ pass["check"].pc = "plan" /\ pass'["check"].out = Build(ActiveRow)
           /\ UNCHANGED <<tree, mode, policy, sc, dirty, snaps, seen>>
<1>1. pass \in [Passes -> PassForms] /\ "check" \in Passes
    BY AnConstants DEF AnInv, AnTypes
<1> DEFINE goal == /\ pass'["check"].pc \in {"hash", "plan"} =>
                         pass["check"].pc \in {"hash", "plan"} /\ pass'["check"].an = pass["check"].an
                   /\ \/ pass'["check"].out = pass["check"].out \/ Silent(pass'["check"].out)
                      \/ pass["check"].pc = "plan" /\ pass'["check"].out = Build(ActiveRow)
<1>2. UNCHANGED <<tree, mode, policy, sc, dirty, snaps, seen>>
    BY DEF PassStep, ReuseSnapshots, RefuseHashing, OpenFile, ReadFile, PersistEvidence, KeepResult,
           BuildPlan, SaveResult
<1>3. ASSUME NEW new, pass' = [pass EXCEPT ![a] = new],
             a = "check" => /\ new.pc \in {"hash", "plan"} =>
                                   pass["check"].pc \in {"hash", "plan"} /\ new.an = pass["check"].an
                            /\ \/ new.out = pass["check"].out \/ Silent(new.out)
                               \/ pass["check"].pc = "plan" /\ new.out = Build(ActiveRow)
      PROVE  goal
  <2>1. CASE a = "check"
      BY <1>1, <1>3, <2>1
  <2>2. CASE a # "check"
      BY <1>1, <1>3, <2>2
  <2> QED
      BY <2>1, <2>2
<1>4. NoEvidence("check").pc = "done" /\ Silent(NoEvidence("check").out)
    BY NoEvidenceForms, SilentForms, AnConstants
<1> SUFFICES goal
    BY <1>2
<1> HIDE DEF goal
<1>5. CASE ReuseSnapshots(a)
  <2>1. a # "check" /\ pass' = [pass EXCEPT ![a] = [Fresh("hash") EXCEPT !.rev = rev, !.an = ActiveRow.an,
                                                       !.read = proofs[ActiveRow.an]]]
      BY <1>5 DEF ReuseSnapshots
  <2> QED
      BY <2>1, <1>3
<1>6. CASE RefuseHashing(a)
  <2>1. pass' = [pass EXCEPT ![a] = NoEvidence(a)]
      BY <1>6 DEF RefuseHashing
  <2> QED
      BY <2>1, <1>3, <1>4
<1>7. CASE OpenFile(a)
  <2> DEFINE f == CHOOSE g \in Unread(a) : TRUE
             o == tree[f[1]][f[2]]
             open == [pass[a] EXCEPT !.file = f, !.cur = o, !.torn = FALSE]
  <2>1. /\ pass[a].pc = "hash"
        /\ (pass' = [pass EXCEPT ![a] = open] \/ pass' = [pass EXCEPT ![a] = NoEvidence(a)])
      BY <1>7 DEF OpenFile
  <2>2. open.pc = pass[a].pc /\ open.an = pass[a].an /\ open.out = pass[a].out
    <3> HIDE DEF f, o
    <3> QED
        BY <1>1 DEF PassForms
  <2> HIDE DEF open
  <2> QED
      BY <2>1, <2>2, <1>3, <1>4
<1>8. CASE ReadFile(a)
  <2> DEFINE f == pass[a].file
             read == [pass[a] EXCEPT !.read[f[1]][f[2]] = pass[a].cur, !.file = <<>>, !.cur = 0]
  <2>1. /\ pass[a].pc = "hash"
        /\ (pass' = [pass EXCEPT ![a] = read] \/ pass' = [pass EXCEPT ![a] = NoEvidence(a)])
      BY <1>8 DEF ReadFile
  <2>2. read.pc = pass[a].pc /\ read.an = pass[a].an /\ read.out = pass[a].out
    <3> HIDE DEF f
    <3> QED
        BY <1>1 DEF PassForms
  <2> HIDE DEF read
  <2> QED
      BY <2>1, <2>2, <1>3, <1>4
<1>9. CASE PersistEvidence(a)
  <2> DEFINE failed == [Fresh("done") EXCEPT !.out.state = "FAILED"]
             kept == [Fresh("plan") EXCEPT !.an = pass[a].an]
  <2>1. pass[a].pc = "hash" /\ (pass' = [pass EXCEPT ![a] = failed] \/ pass' = [pass EXCEPT ![a] = kept])
      BY <1>9 DEF PersistEvidence
  <2>2. failed.pc = "done" /\ Silent(failed.out)
      BY RefusedForms, SilentForms
  <2>3. kept.pc = "plan" /\ kept.an = pass[a].an /\ Silent(kept.out)
    <3>1. Fresh("plan") \in PassForms /\ Fresh("plan").pc = "plan" /\ Fresh("plan").out = NoOut
        BY FreshForms
    <3> QED
        BY <3>1, SilentForms DEF PassForms
  <2> HIDE DEF failed, kept
  <2> QED
      BY <2>1, <2>2, <2>3, <1>3
<1>10. CASE KeepResult(a)
    BY <1>3, <1>10 DEF KeepResult
<1>11. CASE BuildPlan(a)
  <2> DEFINE out == Build(ActiveRow)
             new == [Fresh("save") EXCEPT !.out = out]
  <2>1. pass[a].pc = "plan" /\ pass' = [pass EXCEPT ![a] = new]
      BY <1>11 DEF BuildPlan
  <2>2. new.pc = "save" /\ new.out = out
    <3>1. Fresh("save") \in PassForms /\ Fresh("save").pc = "save"
        BY FreshForms
    <3> HIDE DEF out
    <3> QED
        BY <3>1 DEF PassForms
  <2> HIDE DEF new
  <2> QED
      BY <2>1, <2>2, <1>3
<1>12. CASE SaveResult(a)
  <2> DEFINE kept == SavedAs(pass[a].out)
             out == IF a = "check" THEN kept ELSE NoOut
             new == [Fresh("done") EXCEPT !.out = out]
  <2>1. pass' = [pass EXCEPT ![a] = new]
      BY <1>12 DEF SaveResult
  <2>2. kept = pass[a].out \/ Silent(kept)
    <3>1. pass[a].out \in Outs
        BY <1>1 DEF PassForms
    <3>2. Silent([pass[a].out EXCEPT !.state = "FAILED", !.ops = {}])
        BY <3>1 DEF Silent, Outs
    <3> QED
        BY <3>2 DEF SavedAs
  <2>3. new.pc = "done" /\ new.out = out
    <3>1. Fresh("done") \in PassForms /\ Fresh("done").pc = "done"
        BY FreshForms
    <3> HIDE DEF out
    <3> QED
        BY <3>1 DEF PassForms
  <2> HIDE DEF new, kept
  <2> QED
      BY <2>1, <2>2, <2>3, <1>3
<1> QED
    BY <1>5, <1>6, <1>7, <1>8, <1>9, <1>10, <1>11, <1>12 DEF PassStep

\* Every step keeps the snapshots true.
LEMMA SnapStep ==
    ASSUME AnInv, ScanIsTrue, SealedIsTrue, [AnNext]_anVars
    PROVE  ScanIsTrue' /\ SealedIsTrue'
<1>1. CASE OpenDirectory \/ ListDirectory \/ StatChildren \/ CloseDirectory \/ ScanTarget
  <2>1. UNCHANGED <<pass, snaps, seen>>
      BY <1>1 DEF OpenDirectory, ListDirectory, StatChildren, CloseDirectory, ScanTarget
  <2> QED
      BY <1>1, <2>1, ScanStepOnly, OpenIsTrue, ListIsTrue, StatIsTrue, CloseIsTrue, TargetIsTrue
<1>2. ASSUME sc' = NoScan PROVE ScanIsTrue'
    BY <1>2, NoScanForms, NoPromise
<1>3. CASE SealSnapshots
    BY <1>2, <1>3, SealIsTrue DEF SealSnapshots
<1>4. ASSUME UNCHANGED <<tree, sc, dirty, seen>> PROVE ScanIsTrue'
    BY <1>4 DEF ScanIsTrue, ReadingIsTrue, ScannedIsTrue, RootDone, InnerDone, Gone, Dir
<1>5. CASE ScanFails
  <2> DEFINE refused == IF sc.by = "check" THEN [Fresh("done") EXCEPT !.out.state = "BLOCKED"] ELSE Fresh("plan")
  <2>1. /\ Locked /\ sc' = NoScan /\ UNCHANGED <<snaps, seen>> /\ pass' = [pass EXCEPT ![sc.by] = refused]
      BY <1>5 DEF ScanFails
  <2>2. sc.by = "check" => refused.pc = "done"
      BY BlockedForms
  <2> HIDE DEF refused
  <2>3. pass'["check"].pc \in {"hash", "plan"} => pass'["check"] = pass["check"]
      BY <2>1, <2>2, AnConstants DEF AnInv, AnTypes
  <2> QED
      BY <1>2, <2>1, <2>3, SealedStays
<1>6. ASSUME NEW a \in Passes, PassStep(a), ~BeginScan(a) PROVE ScanIsTrue' /\ SealedIsTrue'
    BY <1>4, <1>6, CheckGoesOn, SealedStays
<1>7. ASSUME NEW a \in Passes, BeginScan(a) PROVE ScanIsTrue' /\ SealedIsTrue'
  <2>1. /\ pass' = [pass EXCEPT ![a] = [Fresh("scan") EXCEPT !.rev = rev]] /\ snaps' = snaps
        /\ a # "check" => seen' = seen
      BY <1>7 DEF BeginScan
  <2>2. [Fresh("scan") EXCEPT !.rev = rev].pc = "scan"
      BY FreshForms DEF PassForms
  <2>3. pass'["check"].pc \in {"hash", "plan"} => pass'["check"] = pass["check"] /\ seen' = seen
      BY <2>1, <2>2, AnConstants DEF AnInv, AnTypes
  <2> QED
      BY <1>7, <2>1, <2>3, BeginIsTrue, SealedStays
<1>8. CASE RequestCheck \/ RunAgain
  <2>1. /\ UNCHANGED <<tree, sc, dirty, snaps, seen>>
        /\ \E a \in Passes : pass' = [pass EXCEPT ![a] = Fresh("begin")]
      BY <1>8, AnConstants DEF RequestCheck, RunAgain
  <2>2. pass'["check"].pc \in {"hash", "plan"} => pass'["check"] = pass["check"]
      BY <2>1, FreshForms, AnConstants DEF AnInv, AnTypes
  <2> QED
      BY <1>4, <2>1, <2>2, SealedStays
<1>9. CASE EditJob \/ UNCHANGED anVars
  <2>1. UNCHANGED <<tree, sc, dirty, snaps, seen, pass>>
      BY <1>9 DEF EditJob, anVars
  <2> QED
      BY <1>4, <2>1, SealedStays
<1>10. CASE AnStops
  <2>1. /\ sc' = NoScan /\ UNCHANGED <<snaps, seen>>
        /\ pass' = [a \in Passes |-> IF a = "start" THEN Fresh("begin")
                                     ELSE IF pass[a].pc \in {"idle", "done"} THEN pass[a] ELSE Fresh("begin")]
      BY <1>10 DEF AnStops
  <2>2. pass'["check"].pc \notin {"hash", "plan"}
      BY <2>1, FreshForms, AnConstants
  <2> QED
      BY <1>2, <2>1, <2>2, SealedStays
<1>11. ASSUME NEW s \in Sides, NEW p \in Paths, NEW o \in Objects, NEW inPlace \in BOOLEAN,
              EditTree(s, p, o, inPlace)
       PROVE  ScanIsTrue' /\ SealedIsTrue'
  <2>1. /\ snaps' = snaps /\ seen' = [seen EXCEPT ![s] = @ \cup {[tree[s] EXCEPT ![p] = o]}]
        /\ pass' = [a \in Passes |-> IF inPlace /\ pass[a].file = <<s, p>>
                                     THEN [pass[a] EXCEPT !.torn = TRUE] ELSE pass[a]]
      BY <1>11 DEF EditTree
  <2>2. pass'["check"].pc = pass["check"].pc /\ pass'["check"].an = pass["check"].an
      BY <2>1, AnConstants DEF AnInv, AnTypes, PassForms
  <2>3. \A x \in Sides : seen[x] \subseteq seen'[x]
      BY <2>1 DEF AnInv, AnTypes
  <2> QED
      BY <1>11, <2>1, <2>2, <2>3, EditIsTrue, SealedStays
<1> QED
    BY <1>1, <1>3, <1>5, <1>6, <1>7, <1>8, <1>9, <1>10, <1>11 DEF AnNext, ScanStep

\* Nothing is scanned or sealed to begin with.
LEMMA SnapInit ==
    ASSUME AnInit
    PROVE  ScanIsTrue /\ SealedIsTrue
<1>1. sc.by = "none"
    BY NoScanForms DEF AnInit
<1>2. pass["check"].pc \notin {"hash", "plan"}
    BY FreshForms, AnConstants DEF AnInit
<1> QED
    BY <1>1, <1>2 DEF ScanIsTrue, SealedIsTrue

\* The snapshots a check seals are true (LocalFilesystemSnapshotScanner, seal of both snapshots in one
\* transaction), for any edits, rescans, faults and stops while it scans: what they
\* say of each directory was so at one moment, and of each file at some moment.
THEOREM SnapshotsAreTrue == AnSpec => []SnapshotIsTrue
<1>1. SealedIsTrue => SnapshotIsTrue
    BY Parents DEF SealedIsTrue, SnapshotIsTrue, TrueOf, Since
<1>2. ASSUME AnInit PROVE ScanIsTrue /\ SealedIsTrue
    BY <1>2, SnapInit
<1>3. ASSUME AnInv, ScanIsTrue, SealedIsTrue, [AnNext]_anVars PROVE ScanIsTrue' /\ SealedIsTrue'
    BY <1>3, SnapStep
<1> QED
    BY <1>1, <1>2, <1>3, AnInvariance, PTL DEF AnSpec

-----------------------------------------------------------------------------
(* That a plan makes a copy.                                               *)

\* One name of the target is one object, where names do not collide.
LEMMA OneTwin ==
    ASSUME NEW t, NEW k, NEW m, ~Collides(t, m), AtKey(t, k, m) # {}
    PROVE  AtKey(t, k, m) = {CHOOSE r \in AtKey(t, k, m) : TRUE}
<1>1. \A q, r \in AtKey(t, k, m) : q = r
    BY DEF AtKey, Collides
<1> QED
    BY <1>1

\* The operation a plan has at a path, or what stands there.
Copies(s, t, ev, m, pol, p) ==
    LET twin == AtKey(t, Key(p, m), m)
        q == CHOOSE r \in twin : TRUE
        done == \E o \in PlanEntry(s, t, ev, p, m) :
                   LET op == ApplyPolicy(pol, o) IN
                   op.path = p /\ op.kind \in {"COPY_NEW", "CREATE_DIRECTORY"}
        kept == \E o \in PlanEntry(s, t, ev, p, m) : ApplyPolicy(pol, o).path = p IN
    \/ done
    \/ pol = "ANALYZE_ONLY" /\ kept
    \/ twin # {} /\ twin = {q} /\ s[p] = Folder /\ t[q] = Folder
    \/ /\ twin # {} /\ twin = {q} /\ s[p] # Folder /\ t[q] # Folder
       /\ ev["src"][p] # 0 /\ ev["src"][p] = ev["tgt"][q]
    \/ twin # {} /\ pol = "NEW_FILES_ONLY" /\ kept
    \/ twin # {} /\ twin = {q} /\ s[p] # Folder /\ t[q] = Folder /\ kept

\* A plan that nothing blocks copies what is at a path, or has a reason not to.
LEMMA EntryMakesCopy ==
    ASSUME NEW s, NEW t, NEW ev, NEW m, NEW pol \in Policies, NEW p \in Paths, s[p] # 0, ~Collides(t, m),
           \A o \in PlanEntry(s, t, ev, p, m) : o.risk # "BLOCKED"
    PROVE  Copies(s, t, ev, m, pol, p)
<1> DEFINE twin == AtKey(t, Key(p, m), m)
           q == CHOOSE r \in twin : TRUE
           entry == PlanEntry(s, t, ev, p, m)
<1> USE DEF Copies
<1>1. twin # {} => twin = {q}
    BY OneTwin
<1>2. \A kind \in {"CREATE_DIRECTORY", "COPY_NEW"}, pre \in {"ABSENT", "MATCH_FINGERPRINT", "DIRECTORY_EMPTY"},
         risk \in {"LOW", "MEDIUM", "HIGH"} :
         /\ Operation(p, kind, pre, risk) \in PlannedOps /\ Operation(p, kind, pre, risk).path = p
         /\ Operation(p, kind, pre, risk).kind = kind /\ Operation(p, kind, pre, risk).pre = pre
         /\ Operation(p, kind, pre, risk).risk = risk
    BY DEF Operation, PlannedOps
<1>3. Blocked(p).risk = "BLOCKED"
    BY DEF Blocked, Operation
<1>4. \A o \in PlannedOps : o.path = p =>
          /\ ApplyPolicy(pol, o).path = p
          /\ Allows(pol, o) => ApplyPolicy(pol, o) = o
  <2>1. \A o \in PlannedOps : ApplyPolicy(pol, o).path = o.path
      BY PolicyOps
  <2> QED
      BY <2>1 DEF ApplyPolicy
<1>5. pol \in {"ANALYZE_ONLY", "NEW_FILES_ONLY", "NEW_AND_CHANGED_WITH_VERSIONS"}
    BY DEF Policies
<1> HIDE DEF twin, q
<1>6. CASE twin = {}
  <2> DEFINE o == Operation(p, IF s[p] = Folder THEN "CREATE_DIRECTORY" ELSE "COPY_NEW", "ABSENT", "LOW")
  <2>1. entry = {o}
      BY <1>6 DEF PlanEntry, twin
  <2>2. /\ o \in PlannedOps /\ o.path = p /\ o.kind \in {"CREATE_DIRECTORY", "COPY_NEW"} /\ o.pre = "ABSENT"
        /\ o.risk = "LOW"
      BY <1>2
  <2> HIDE DEF o, entry
  <2>3. pol # "ANALYZE_ONLY" => Allows(pol, o)
      BY <2>2 DEF Allows
  <2>4. ApplyPolicy(pol, o).path = p /\ (pol # "ANALYZE_ONLY" => ApplyPolicy(pol, o) = o)
      BY <1>4, <2>2, <2>3
  <2> QED
      BY <2>1, <2>2, <2>4 DEF entry
<1>7. CASE twin # {} /\ s[p] = Folder
  <2>1. t[q] # Folder => entry = {Blocked(p)}
      BY <1>7 DEF PlanEntry, twin, q
  <2>2. t[q] = Folder
      BY <1>3, <2>1
  <2> QED
      BY <1>1, <1>7, <2>2 DEF twin, q
<1>8. CASE twin # {} /\ s[p] # Folder /\ t[q] # Folder
  <2> DEFINE o == Operation(p, "COPY_NEW", "MATCH_FINGERPRINT", "MEDIUM")
  <2>1. CASE s[p] = t[q] /\ SameByHash(ev, p, q)
      BY <1>1, <1>8, <2>1 DEF SameByHash, twin, q
  <2>2. CASE ~(s[p] = t[q] /\ SameByHash(ev, p, q))
    <3>1. entry = {o}
        BY <1>8, <2>2 DEF PlanEntry, twin, q
    <3>2. /\ o \in PlannedOps /\ o.path = p /\ o.kind = "COPY_NEW" /\ o.pre = "MATCH_FINGERPRINT"
          /\ o.risk = "MEDIUM"
        BY <1>2
    <3> HIDE DEF o, entry
    <3>3. pol = "NEW_AND_CHANGED_WITH_VERSIONS" => Allows(pol, o)
        BY <3>2 DEF Allows
    <3>4. ApplyPolicy(pol, o).path = p /\ (pol = "NEW_AND_CHANGED_WITH_VERSIONS" => ApplyPolicy(pol, o) = o)
        BY <1>4, <3>2, <3>3
    <3> QED
        BY <1>5, <1>8, <3>1, <3>2, <3>4 DEF entry, twin
  <2> QED
      BY <2>1, <2>2
<1>9. CASE twin # {} /\ s[p] # Folder /\ t[q] = Folder
  <2> DEFINE o == Operation(p, "COPY_NEW", "DIRECTORY_EMPTY", "HIGH")
  <2>1. entry = {o} \/ entry = {Blocked(p)}
      BY <1>9 DEF PlanEntry, twin, q
  <2>2. entry = {o}
      BY <1>3, <2>1
  <2>3. o \in PlannedOps /\ o.path = p
      BY <1>2
  <2> HIDE DEF o, entry
  <2>4. ApplyPolicy(pol, o).path = p
      BY <1>4, <2>3
  <2> QED
      BY <1>1, <1>9, <2>2, <2>4 DEF entry, twin, q
<1> QED
    BY <1>6, <1>7, <1>8, <1>9

\* A path has one operation.
LEMMA OneOperation ==
    ASSUME NEW s, NEW t, NEW ev, NEW m, NEW p, NEW o1 \in PlanEntry(s, t, ev, p, m), NEW o2 \in PlanEntry(s, t, ev, p, m)
    PROVE  o1 = o2
<1> DEFINE q == CHOOSE r \in AtKey(t, Key(p, m), m) : TRUE
<1> HIDE DEF q
<1>1. PlanEntry(s, t, ev, p, m) = {} \/ \E o : PlanEntry(s, t, ev, p, m) = {o}
    BY DEF PlanEntry, q
<1> QED
    BY <1>1

\* What a plan does not change.
CopyInv ==
    /\ PlanMakesCopy
    /\ (pass["check"].out.state = "NO_CHANGES" \/ pass["check"].out.ops # {}) => Len(snaps) >= 1

\* What a plan of true snapshots of folders at rest does.
LEMMA BuildMakesCopy ==
    ASSUME AnInv, SealedIsTrue, Calm, pass["check"].pc = "plan",
           Build(ActiveRow).state = "NO_CHANGES" \/ Runnable(Build(ActiveRow).ops)
    PROVE  LET out == Build(ActiveRow) IN
           /\ \A op1, op2 \in out.ops : Key(op1.path, mode) = Key(op2.path, mode) => op1 = op2
           /\ \A p \in Held(tree["src"]) :
                \/ \E op \in out.ops : op.path = p /\ op.kind \in {"COPY_NEW", "CREATE_DIRECTORY"}
                \/ TargetAt(Key(p, mode)) = {tree["src"][p]}
                \/ LeftOut(p) /\ \E op \in out.ops : op.path = p
<1> DEFINE out == Build(ActiveRow)
           n == mater[rev].an
           s == snaps[n]["src"]
           t == snaps[n]["tgt"]
           ev == proofs[n]
           ops == PlanTarget(s, t, ev, mode, policy)
<1>1. CanPlan(ActiveRow) /\ out = SealResult(ActiveRow, ops)
  <2>1. Result("BLOCKED", ActiveRow, {}).state = "BLOCKED" /\ Result("BLOCKED", ActiveRow, {}).ops = {}
      BY DEF Result
  <2>2. ~CanPlan(ActiveRow) => out = Result("BLOCKED", ActiveRow, {})
      BY DEF Build
  <2>3. CanPlan(ActiveRow)
      BY <2>1, <2>2 DEF Runnable
  <2> QED
      BY <2>3 DEF Build, ActiveRow
<1>2. out.ops = ops /\ \A op \in ops : op.risk # "BLOCKED"
  <2>1. \A st, o : Result(st, ActiveRow, o).state = st /\ Result(st, ActiveRow, o).ops = o
      BY DEF Result
  <2> HIDE DEF ops, out
  <2>2. \/ ops = {} /\ out = Result("NO_CHANGES", ActiveRow, {})
        \/ out = Result("SEALED", ActiveRow, ops) \/ out = Result("FAILED", ActiveRow, {})
      BY <1>1 DEF SealResult
  <2>3. out.state = "NO_CHANGES" \/ Runnable(out.ops)
      BY DEF out
  <2>4. out.ops = ops /\ (ops = {} \/ Runnable(ops))
    <3>1. ~Runnable({})
        BY DEF Runnable
    <3>2. CASE ops = {} /\ out = Result("NO_CHANGES", ActiveRow, {})
        BY <2>1, <3>2
    <3>3. CASE out = Result("SEALED", ActiveRow, ops)
      <4>1. out.ops = ops /\ out.state = "SEALED"
          BY <2>1, <3>3
      <4> QED
          BY <2>3, <4>1
    <3>4. CASE out = Result("FAILED", ActiveRow, {})
      <4>1. out.ops = {} /\ out.state = "FAILED"
          BY <2>1, <3>4
      <4> QED
          BY <2>3, <3>1, <4>1
    <3> QED
        BY <2>2, <3>2, <3>3, <3>4
  <2> QED
      BY <2>4 DEF Runnable
<1>3. /\ n = 1 /\ Since = 1 /\ Len(snaps) = 1 /\ Len(proofs) = 1 /\ 1 \in 1..1
      /\ ~Collides(s, mode) /\ ~Collides(t, mode)
  <2>1. rev \in 1..MaxAnRevs /\ mater[rev].state = "SEALED" /\ \A x \in Sides : ~Collides(snaps[n][x], mode)
      BY <1>1 DEF CanPlan, ActiveRow, AnInv, AnTypes
  <2>2. Len(snaps) = 1 /\ Len(proofs) = 1
      BY DEF Calm, AnInv, AnTypes
  <2>3. n \in 1..1
      BY <2>1, <2>2 DEF AnInv, SealedShape
  <2>4. "check" \in Passes /\ pass["check"].an \in Nat
      BY AnConstants DEF AnInv, AnTypes, PassForms
  <2>5. Since <= 1 /\ Since >= 1 /\ Since \in Nat
      BY <2>2, <2>4 DEF AnInv, PassStands, Since
  <2> QED
      BY <2>1, <2>2, <2>3, <2>5, AnConstants
<1>4. /\ \A x \in Sides : seen[x] = {tree[x]} /\ tree[x] \in AnTrees
      /\ \A p \in Paths : s[p] = Entry(tree["src"][p]) /\ t[p] = Entry(tree["tgt"][p])
  <2>1. \A x \in Sides : seen[x] = {tree[x]} /\ tree[x] \in AnTrees
      BY DEF Calm, AnInv, AnTypes
  <2>2. \A x \in Sides, d \in {0, 1} : TrueOf({tree[x]}, snaps[1][x], d)
      BY <1>3, <2>1 DEF SealedIsTrue
  <2>3. \A x \in Sides, p \in Paths : snaps[1][x][p] = Entry(tree[x][p])
      BY <2>2, Parents DEF TrueOf
  <2> QED
      BY <1>3, <2>1, <2>3, AnConstants
<1>5. \A x \in Sides, p \in Paths : ev[x][p] # 0 => ev[x][p] = tree[x][p]
  <2>1. EvidenceIn(proofs[1])
      BY <1>3 DEF AnInv, EvidenceIsNew
  <2> QED
      BY <1>3, <1>4, <2>1 DEF EvidenceIn, Had
<1>6. \A x \in Sides, p \in Paths : tree[x][p] \in Objects
    BY <1>4 DEF AnTrees
<1>7. /\ Held(s) = Held(tree["src"]) /\ Held(t) = Held(tree["tgt"])
      /\ \A p \in Paths : (s[p] = Folder <=> tree["src"][p] = Folder) /\ (t[p] = Folder <=> tree["tgt"][p] = Folder)
  <2>1. \A o \in Objects : (Entry(o) = 0 <=> o = 0) /\ (Entry(o) = Folder <=> o = Folder)
      BY AnConstants DEF Entry, IsFile, SizeOf
  <2> HIDE DEF s, t
  <2> QED
      BY <1>4, <1>6, <2>1, AnConstants DEF Held
<1>8. policy \in Policies
    BY DEF AnInv, AnTypes
<1> HIDE DEF out, n, s, t, ev
<1>9. ASSUME NEW op1 \in ops, NEW op2 \in ops, Key(op1.path, mode) = Key(op2.path, mode)
      PROVE  op1 = op2
  <2>1. PICK p1 \in Held(s) : \E o \in PlanEntry(s, t, ev, p1, mode) : op1 = ApplyPolicy(policy, o)
      BY PlanOps
  <2>a. PICK o1 \in PlanEntry(s, t, ev, p1, mode) : op1 = ApplyPolicy(policy, o1)
      BY <2>1
  <2>2. PICK p2 \in Held(s) : \E o \in PlanEntry(s, t, ev, p2, mode) : op2 = ApplyPolicy(policy, o)
      BY PlanOps
  <2>b. PICK o2 \in PlanEntry(s, t, ev, p2, mode) : op2 = ApplyPolicy(policy, o2)
      BY <2>2
  <2>3. p1 \in Paths /\ p2 \in Paths
      BY DEF Held
  <2>4. o1 \in PlannedOps /\ o1.path = p1 /\ o2 \in PlannedOps /\ o2.path = p2
      BY <2>3, EntryOps
  <2>5. op1.path = p1 /\ op2.path = p2
      BY <2>a, <2>b, <2>4, PolicyOps
  <2>6. p1 = p2
      BY <1>3, <1>9, <2>5 DEF Collides
  <2>7. o1 = o2
      BY <2>6, OneOperation
  <2> QED
      BY <2>a, <2>b, <2>7
<1>10. ASSUME NEW p \in Held(tree["src"])
       PROVE  \/ \E op \in ops : op.path = p /\ op.kind \in {"COPY_NEW", "CREATE_DIRECTORY"}
              \/ TargetAt(Key(p, mode)) = {tree["src"][p]}
              \/ LeftOut(p) /\ \E op \in ops : op.path = p
  <2> DEFINE twin == AtKey(t, Key(p, mode), mode)
             q == CHOOSE r \in twin : TRUE
             entry == PlanEntry(s, t, ev, p, mode)
             done == \E o \in entry :
                        LET op == ApplyPolicy(policy, o) IN
                        op.path = p /\ op.kind \in {"COPY_NEW", "CREATE_DIRECTORY"}
             kept == \E o \in entry : ApplyPolicy(policy, o).path = p
  <2>1. p \in Paths /\ p \in Held(s) /\ s[p] # 0
      BY <1>7 DEF Held
  <2>2. \A o \in entry : ApplyPolicy(policy, o) \in ops
      BY <2>1, PlanOps
  <2>3. \A o \in entry : o.risk # "BLOCKED"
    <3>1. \A o \in entry : o.risk = "BLOCKED" => ApplyPolicy(policy, o) = o
        BY DEF ApplyPolicy
    <3> HIDE DEF entry, ops
    <3> QED
        BY <1>2, <2>2, <3>1
  <2>4. \/ done
        \/ policy = "ANALYZE_ONLY" /\ kept
        \/ twin # {} /\ twin = {q} /\ s[p] = Folder /\ t[q] = Folder
        \/ /\ twin # {} /\ twin = {q} /\ s[p] # Folder /\ t[q] # Folder
           /\ ev["src"][p] # 0 /\ ev["src"][p] = ev["tgt"][q]
        \/ twin # {} /\ policy = "NEW_FILES_ONLY" /\ kept
        \/ twin # {} /\ twin = {q} /\ s[p] # Folder /\ t[q] = Folder /\ kept
    <3>1. Copies(s, t, ev, mode, policy, p)
        BY <1>3, <1>8, <2>1, <2>3, EntryMakesCopy
    <3> QED
        BY <3>1 DEF Copies
  <2>5. done => \E op \in ops : op.path = p /\ op.kind \in {"COPY_NEW", "CREATE_DIRECTORY"}
    <3> HIDE DEF entry, ops
    <3> QED
        BY <2>2
  <2>6. kept => \E op \in ops : op.path = p
    <3> HIDE DEF entry, ops
    <3> QED
        BY <2>2
  <2>7. twin \subseteq Paths /\ twin = AtKey(tree["tgt"], Key(p, mode), mode)
      BY <1>7 DEF AtKey, Held
  <2> HIDE DEF done, kept, entry, twin, q, ops
  <2>8. /\ (twin = {q}) => TargetAt(Key(p, mode)) = {tree["tgt"][q]} /\ q \in Paths
        /\ twin # {} => TargetAt(Key(p, mode)) # {}
      BY <2>7 DEF TargetAt
  <2>9. CASE policy = "ANALYZE_ONLY" /\ kept
      BY <2>6, <2>9 DEF LeftOut
  <2>10. CASE twin # {} /\ twin = {q} /\ s[p] = Folder /\ t[q] = Folder
    <3>1. tree["src"][p] = Folder /\ tree["tgt"][q] = Folder
        BY <1>7, <2>1, <2>8, <2>10
    <3> QED
        BY <2>8, <2>10, <3>1
  <2>11. CASE /\ twin # {} /\ twin = {q} /\ s[p] # Folder /\ t[q] # Folder
              /\ ev["src"][p] # 0 /\ ev["src"][p] = ev["tgt"][q]
    <3>1. tree["src"][p] = ev["src"][p] /\ tree["tgt"][q] = ev["tgt"][q]
        BY <1>5, <2>1, <2>8, <2>11, AnConstants
    <3> QED
        BY <2>8, <2>11, <3>1
  <2>12. CASE twin # {} /\ policy = "NEW_FILES_ONLY" /\ kept
      BY <2>6, <2>8, <2>12 DEF LeftOut
  <2>13. CASE twin # {} /\ twin = {q} /\ s[p] # Folder /\ t[q] = Folder /\ kept
    <3>1. tree["src"][p] # Folder /\ tree["tgt"][q] = Folder
        BY <1>7, <2>1, <2>8, <2>13
    <3> QED
        BY <2>6, <2>8, <2>13, <3>1 DEF LeftOut
  <2> QED
      BY <2>4, <2>5, <2>9, <2>10, <2>11, <2>12, <2>13
<1> HIDE DEF ops
<1> QED
    BY <1>2, <1>9, <1>10 DEF out

\* An answer that promises nothing owes nothing.
LEMMA SilentCopy ==
    ASSUME Silent(pass'["check"].out)
    PROVE  CopyInv'
<1>1. ~Runnable({})
    BY DEF Runnable
<1>2. ~Runnable(pass'["check"].out.ops)
    BY <1>1 DEF Silent
<1>3. PlanMakesCopy'
    BY <1>2 DEF PlanMakesCopy, Silent
<1> QED
    BY <1>3 DEF CopyInv, Silent

\* The check's answer stays, on the same folders and snapshots.
LEMMA CopyStays ==
    ASSUME CopyInv, UNCHANGED <<tree, mode, policy, snaps, seen>>,
           pass'["check"].out = pass["check"].out \/ Silent(pass'["check"].out)
    PROVE  CopyInv'
<1>1. CASE pass'["check"].out = pass["check"].out
  <2>1. PlanMakesCopy'
      BY <1>1 DEF CopyInv, PlanMakesCopy, Calm, TargetAt, LeftOut
  <2> QED
      BY <1>1, <2>1 DEF CopyInv
<1> QED
    BY <1>1, SilentCopy

\* The answer stays, but the folders or the snapshots are not what they were.
LEMMA CopyNotCalm ==
    ASSUME CopyInv, ~Calm', pass'["check"].out = pass["check"].out, Len(snaps) >= 1 => Len(snaps') >= 1
    PROVE  CopyInv'
<1>1. PlanMakesCopy'
    BY DEF PlanMakesCopy
<1> QED
    BY <1>1 DEF CopyInv

\* Every step keeps what a plan promises.
LEMMA CopyStep ==
    ASSUME AnInv, SealedIsTrue, CopyInv, [AnNext]_anVars
    PROVE  CopyInv'
<1>1. /\ pass \in [Passes -> PassForms] /\ "check" \in Passes /\ tree \in [Sides -> AnTrees]
      /\ seen \in [Sides -> SUBSET AnTrees] /\ snaps \in Seq(Snapshots) /\ Len(snaps) \in Nat
    BY AnConstants DEF AnInv, AnTypes
<1>2. \A pc \in {"begin", "scan", "plan"} : Silent(Fresh(pc).out)
    BY FreshForms, SilentForms
<1>3. CASE \/ OpenDirectory \/ ListDirectory \/ StatChildren \/ CloseDirectory \/ ScanTarget
           \/ EditJob \/ UNCHANGED anVars
  <2>1. UNCHANGED <<tree, mode, policy, snaps, seen, pass>>
      BY <1>3 DEF OpenDirectory, ListDirectory, StatChildren, CloseDirectory, ScanTarget, EditJob, anVars
  <2> QED
      BY <2>1, CopyStays
<1> DEFINE refused == IF sc.by = "check" THEN [Fresh("done") EXCEPT !.out.state = "BLOCKED"] ELSE Fresh("plan")
<1>4. sc.by = "check" => Silent(refused.out)
    BY SilentForms
<1>5. CASE ScanFails
  <2>1. /\ UNCHANGED <<tree, mode, policy, snaps, seen>> /\ pass' = [pass EXCEPT ![sc.by] = refused]
      BY <1>5 DEF ScanFails
  <2> HIDE DEF refused
  <2>2. pass'["check"] = pass["check"] \/ Silent(pass'["check"].out)
      BY <1>1, <1>4, <2>1
  <2> QED
      BY <2>1, <2>2, CopyStays
<1>6. CASE SealSnapshots
  <2> DEFINE sealed == [pass[sc.by] EXCEPT !.pc = "hash", !.an = Len(snaps) + 1]
             got == IF sc.whole THEN sc.got ELSE NoScan.got
  <2>1. /\ Locked /\ snaps' = Append(snaps, got)
        /\ pass' = [pass EXCEPT ![sc.by] = IF sc.whole THEN sealed ELSE refused]
      BY <1>6 DEF SealSnapshots, ReadyForSeal
  <2>2. got \in Snapshots
      BY <2>1, InScan, NoScanForms DEF ScanForms
  <2>3. sealed.out = pass[sc.by].out
      BY <1>1, <2>1, InScan DEF PassForms
  <2> HIDE DEF sealed, refused, got
  <2>4. Len(snaps') = Len(snaps) + 1
      BY <1>1, <2>1, <2>2
  <2>5. pass'["check"].out = pass["check"].out \/ Silent(pass'["check"].out)
      BY <1>1, <1>4, <2>1, <2>3
  <2>6. CASE Silent(pass["check"].out)
      BY <2>5, <2>6, SilentCopy
  <2>7. CASE ~Silent(pass["check"].out) /\ ~Silent(pass'["check"].out)
    <3>1. Len(snaps) >= 1
        BY <2>7 DEF CopyInv, Silent
    <3>2. ~Calm' /\ Len(snaps') >= 1
        BY <1>1, <2>4, <3>1 DEF Calm
    <3> QED
        BY <2>5, <2>7, <3>2, CopyNotCalm
  <2> QED
      BY <2>6, <2>7, SilentCopy
<1> HIDE DEF refused
<1>7. ASSUME NEW a \in Passes, PassStep(a), ~BeginScan(a) PROVE CopyInv'
  <2>1. /\ UNCHANGED <<tree, mode, policy, snaps, seen>>
        /\ \/ pass'["check"].out = pass["check"].out \/ Silent(pass'["check"].out)
           \/ pass["check"].pc = "plan" /\ pass'["check"].out = Build(ActiveRow)
      BY <1>7, CheckGoesOn
  <2>2. CASE pass["check"].pc = "plan" /\ pass'["check"].out = Build(ActiveRow)
    <3>1. PlanMakesCopy'
      <4> SUFFICES ASSUME Calm', Build(ActiveRow).state = "NO_CHANGES" \/ Runnable(Build(ActiveRow).ops)
                   PROVE  PlanMakesCopy'
          BY <2>2 DEF PlanMakesCopy
      <4>1. Calm
          BY <2>1 DEF Calm
      <4>2. PICK out : out = Build(ActiveRow)
          OBVIOUS
      <4>3. /\ \A op1, op2 \in out.ops : Key(op1.path, mode) = Key(op2.path, mode) => op1 = op2
            /\ \A p \in Held(tree["src"]) :
                 \/ \E op \in out.ops : op.path = p /\ op.kind \in {"COPY_NEW", "CREATE_DIRECTORY"}
                 \/ TargetAt(Key(p, mode)) = {tree["src"][p]}
                 \/ LeftOut(p) /\ \E op \in out.ops : op.path = p
          BY <2>2, <4>1, <4>2, BuildMakesCopy
      <4> QED
          BY <2>1, <2>2, <4>2, <4>3 DEF PlanMakesCopy, TargetAt, LeftOut
    <3>2. Len(snaps') >= 1
      <4>1. pass["check"].an \in Nat /\ pass["check"].an >= 1 /\ pass["check"].an <= Len(snaps)
          BY <1>1, <2>2 DEF AnInv, PassStands, PassForms
      <4> QED
          BY <1>1, <2>1, <4>1
    <3> QED
        BY <3>1, <3>2 DEF CopyInv
  <2> QED
      BY <2>1, <2>2, CopyStays
<1>8. ASSUME NEW a \in Passes, BeginScan(a) PROVE CopyInv'
  <2>1. /\ UNCHANGED <<tree, mode, policy, snaps>> /\ pass' = [pass EXCEPT ![a] = [Fresh("scan") EXCEPT !.rev = rev]]
        /\ a # "check" => seen' = seen
      BY <1>8 DEF BeginScan
  <2>2. Silent([Fresh("scan") EXCEPT !.rev = rev].out)
      BY FreshForms, SilentForms DEF PassForms
  <2>3. CASE a = "check"
      BY <1>1, <2>1, <2>2, <2>3, SilentCopy
  <2>4. CASE a # "check"
      BY <1>1, <2>1, <2>4, CopyStays
  <2> QED
      BY <2>3, <2>4
<1>9. CASE RequestCheck \/ RunAgain
  <2>1. /\ UNCHANGED <<tree, mode, policy, snaps, seen>>
        /\ \E a \in Passes : pass' = [pass EXCEPT ![a] = Fresh("begin")]
      BY <1>9, AnConstants DEF RequestCheck, RunAgain
  <2>2. pass'["check"] = pass["check"] \/ Silent(pass'["check"].out)
      BY <1>1, <1>2, <2>1
  <2> QED
      BY <2>1, <2>2, CopyStays
<1>10. CASE AnStops
  <2>1. /\ UNCHANGED <<tree, mode, policy, snaps, seen>>
        /\ pass' = [a \in Passes |-> IF a = "start" THEN Fresh("begin")
                                     ELSE IF pass[a].pc \in {"idle", "done"} THEN pass[a] ELSE Fresh("begin")]
      BY <1>10 DEF AnStops
  <2>2. pass'["check"] = pass["check"] \/ Silent(pass'["check"].out)
      BY <1>1, <1>2, <2>1
  <2> QED
      BY <2>1, <2>2, CopyStays
<1>11. ASSUME NEW s \in Sides, NEW p \in Paths, NEW o \in Objects, NEW inPlace \in BOOLEAN,
              EditTree(s, p, o, inPlace)
       PROVE  CopyInv'
  <2> DEFINE new == [tree[s] EXCEPT ![p] = o]
  <2>1. /\ snaps' = snaps /\ o # tree[s][p] /\ tree' = [tree EXCEPT ![s] = new]
        /\ seen' = [seen EXCEPT ![s] = @ \cup {new}]
        /\ pass' = [a \in Passes |-> IF inPlace /\ pass[a].file = <<s, p>>
                                     THEN [pass[a] EXCEPT !.torn = TRUE] ELSE pass[a]]
      BY <1>11 DEF EditTree
  <2>2. pass'["check"].out = pass["check"].out
      BY <1>1, <2>1 DEF PassForms
  <2>3. new # tree[s]
    <3>1. new[p] = o
        BY <1>1 DEF AnTrees
    <3> QED
        BY <2>1, <3>1
  <2> HIDE DEF new
  <2>4. tree[s] \in seen'[s] /\ tree'[s] = new
      BY <1>1, <2>1 DEF AnInv, AnTypes
  <2>5. ~Calm'
      BY <2>3, <2>4 DEF Calm
  <2> QED
      BY <2>1, <2>2, <2>5, CopyNotCalm
<1> QED
    BY <1>3, <1>5, <1>6, <1>7, <1>8, <1>9, <1>10, <1>11 DEF AnNext, ScanStep

\* The plan of a job's first check on folders at rest makes the target a copy of the
\* source, but for what the policy leaves out (plan_backup, apply_automation_policy), and
\* NO_CHANGES is answered only when it is one: for every pair of trees.
THEOREM PlansMakeCopies == AnSpec => []PlanMakesCopy
<1>1. ASSUME AnInit PROVE CopyInv
  <2>1. pass["check"].out = NoOut
      BY <1>1, FreshForms, AnConstants DEF AnInit
  <2>2. ~Runnable({})
      BY DEF Runnable
  <2> QED
      BY <2>1, <2>2, NoOutForms DEF CopyInv, PlanMakesCopy
<1>2. ASSUME AnInit PROVE ScanIsTrue /\ SealedIsTrue
    BY <1>2, SnapInit
<1>3. ASSUME AnInv, ScanIsTrue, SealedIsTrue, CopyInv, [AnNext]_anVars PROVE ScanIsTrue' /\ SealedIsTrue' /\ CopyInv'
    BY <1>3, SnapStep, CopyStep
<1>4. CopyInv => PlanMakesCopy
    BY DEF CopyInv
<1> QED
    BY <1>1, <1>2, <1>3, <1>4, AnInvariance, PTL DEF AnSpec

-----------------------------------------------------------------------------
(* The duplicate scan: the inductive invariant.                            *)

Bytes == {0} \cup DuContents
Stages == {"QUICK_SIGNATURE", "FULL_HASH"}
HashRequests == [state : {"NONE", "PENDING", "RUNNING", "SUCCEEDED", "FAILED"},
                 stage : {"QUICK_SIGNATURE", "FULL_HASH", "DONE"}, tries : Nat, quick : Bytes]
CacheRecords == [kind : {"NONE", "QUICK", "FULL"}, quick : Bytes, full : Bytes]
HashProofs == [full : Bytes, same : BOOLEAN]
WorkerForms == [pc : {"idle", "loop", "claimed", "read", "kept", "cached", "closing"}, item : {0} \cup Entries,
                stage : Stages, tries : Nat, got : Bytes, same : BOOLEAN, n : 0..WorkBatch]
ScanRows == [state : {"NONE", "QUEUED", "RUNNING", "PAUSED", "COMPLETED"},
             stage : {"QUICK_SIGNATURE", "FULL_HASH", "MATERIALIZE", "DONE"},
             why : {"", "USER_REQUESTED", "ACTIVE_BACKUP"}, cand : Nat, quick : Nat, full : Nat,
             fullDone : Nat, issues : Nat, listed : BOOLEAN, cursor : {0} \cup Entries]

\* The state is well formed; a hard link is to what the second file holds.
DuTypes ==
    /\ orig \in [Entries -> Bytes] /\ disk \in [Entries -> Bytes] /\ changed \subseteq Entries
    /\ stable \in BOOLEAN /\ backup \in BOOLEAN /\ jammed \in BOOLEAN /\ duLeft \in 0..MaxDuEvents
    /\ dups \in ScanRows /\ reqs \in [Entries -> HashRequests] /\ cached \in [Entries -> CacheRecords]
    /\ known \in [Entries -> HashProofs] /\ wk \in WorkerForms
    /\ {1, 2, 4, 5} \subseteq Present /\ orig[3] \in {orig[2], Absent}
    /\ \A e \in Entries : e \notin changed => disk[e] = orig[e]
    /\ Cardinality(CacheRows) <= MaxCacheRows

\* What is stored of a file is of the file the snapshot saw.
StoredIsOfSnapshot ==
    \A e \in Entries : /\ cached[e].quick # 0 => cached[e].quick = Quick(orig[e])
                       /\ cached[e].full # 0 => cached[e].full = orig[e]
                       /\ (known[e].full # 0 /\ known[e].same) => known[e].full = orig[e]
                       /\ reqs[e].quick # 0 => reqs[e].quick = Quick(orig[e])
                       /\ known[e].full # 0 => e \in Present

\* A request is of a candidate, and how often it can have been tried.
TriedEnough ==
    \A e \in Entries :
        /\ reqs[e].state # "NONE" => e \in DuCandidates
        /\ reqs[e].state = "NONE" => reqs[e] = NoRequest
        /\ reqs[e].tries <= MaxTries + (MaxDuEvents - duLeft) + (IF reqs[e].stage = "FULL_HASH" THEN 1 ELSE 0)
        /\ reqs[e].state = "PENDING" =>
              reqs[e].tries < MaxTries + (MaxDuEvents - duLeft) + (IF reqs[e].stage = "FULL_HASH" THEN 1 ELSE 0)
        /\ reqs[e].state = "SUCCEEDED" \/ reqs[e].stage = "FULL_HASH" => reqs[e].quick # 0
        /\ (reqs[e].stage = "FULL_HASH" /\ reqs[e].state = "SUCCEEDED") => known[e].full = orig[e]
        /\ reqs[e].stage = "DONE" => reqs[e].state \in {"SUCCEEDED", "FAILED"}
        /\ reqs[e].state = "FAILED" => reqs[e].stage # "QUICK_SIGNATURE"

\* Two files that only their full hashes can tell apart.
Alike(e, f) == e # f /\ DuSize(orig[f]) = DuSize(orig[e]) /\ Quick(orig[f]) = Quick(orig[e])
Lost(e) == reqs[e].state = "FAILED" /\ reqs[e].stage = "DONE"

\* How far the requests are in each stage of the scan.
StagesInOrder ==
    /\ dups.state # "NONE" => dups.cand = Cardinality(DuCandidates)
    /\ (dups.state = "NONE" \/ dups.stage = "DONE") => reqs = [e \in Entries |-> NoRequest]
    /\ dups.state = "NONE" => dups = NoScanRow /\ wk.pc = "idle"
    /\ dups.stage = "QUICK_SIGNATURE" =>
          /\ \A e \in Entries : reqs[e].stage = "FULL_HASH" => FALSE
          /\ \A e \in Entries : reqs[e].stage = "DONE" => reqs[e].state = "FAILED"
          /\ \A e \in DuCandidates : e <= dups.cursor => reqs[e].state # "NONE"
          /\ dups.full = 0
    /\ dups.stage \in {"FULL_HASH", "MATERIALIZE"} =>
          /\ \A e \in DuCandidates : reqs[e].stage \in {"FULL_HASH", "DONE"}
          /\ \A e, f \in DuCandidates : Alike(e, f) => reqs[e].stage = "FULL_HASH" \/ Lost(e) \/ Lost(f)
    /\ dups.stage = "MATERIALIZE" => \A e \in Entries : reqs[e].state \notin {"PENDING", "RUNNING"}

\* What the thread knows of the file it has in hand.
WorkerKnows ==
    /\ wk.pc \in {"claimed", "read", "kept", "cached"} =>
          /\ wk.item \in DuCandidates /\ wk.stage = dups.stage /\ wk.stage = reqs[wk.item].stage
          /\ reqs[wk.item].state \in {"PENDING", "RUNNING"} /\ wk.tries = reqs[wk.item].tries
    /\ (wk.pc \in {"read", "kept", "cached"} /\ wk.same) => wk.got = orig[wk.item]
    /\ wk.pc \in {"kept", "cached"} => wk.same
    /\ (wk.pc \in {"kept", "cached"} /\ wk.stage = "FULL_HASH") => known[wk.item].full = orig[wk.item]
    /\ wk.pc = "kept" => wk.stage = "FULL_HASH"
    /\ wk.pc = "closing" => dups.stage = "MATERIALIZE"
    /\ wk.pc # "idle" => dups.stage # "DONE"

\* A group is of files that are known to hold its content, and what its row
\* promises was counted from members it still has.
GroupKeys == ({"expected"} \X {1, 2, 3} \X DuContents) \cup ({"internal"} \X {"src", "tgt"} \X DuContents)
             \cup ({"cross"} \X {"both"} \X DuContents)
MembersOf(key) == {m[2] : m \in {x \in members : x[1] = key}}
MembersAreKnown ==
    /\ members \subseteq GroupKeys \X Entries \X {"SOURCE_ORIGIN", "EXPECTED_REPLICA", "DUPLICATE"}
    /\ \A m \in members : m[2] \in Present /\ known[m[2]].full = m[1][3]
    /\ \A m \in members : m[1][1] = "internal" => DuSide(m[2]) = m[1][2]
    /\ \A m \in members : m[3] = "EXPECTED_REPLICA" => <<m[1][2], m[2]>> \in ExpectedMatches(known)
RowsAreCounted ==
    /\ DOMAIN groups \subseteq GroupKeys
    /\ \A key \in DOMAIN groups :
          /\ key[1] = "expected" => groups[key].saves = 0
          /\ key[1] = "internal" => \E es \in SUBSET MembersOf(key) :
                es # {} /\ groups[key].saves = DuSize(key[3]) * (Cardinality(ObjectsOf(es)) - 1)
          /\ key[1] = "cross" => /\ groups[key].saves = DuSize(key[3])
                                 /\ \A s \in {"src", "tgt"} : \E e \in MembersOf(key) : DuSide(e) = s

\* Every copy is in a group, unless some file could not be read.
CopiesFound ==
    \A e \in Present : (\E f \in Present : Physical(f) # Physical(e) /\ orig[f] = orig[e])
                         => \E m \in members : Physical(m[2]) = Physical(e)
NoneMissed ==
    /\ (wk.pc = "closing" /\ \A e \in Entries : reqs[e].state # "FAILED") => CopiesFound
    /\ (dups.state = "COMPLETED" /\ dups.issues = 0) => CopiesFound

DuInv ==
    /\ DuTypes /\ StoredIsOfSnapshot /\ TriedEnough /\ StagesInOrder /\ WorkerKnows
    /\ MembersAreKnown /\ RowsAreCounted /\ NoneMissed /\ StatusLoads

\* The entries of a scan and sets of them.
LEMMA EntriesFinite ==
    /\ Entries = {1, 2, 3, 4, 5} /\ DuContents = {1, 2, 3, 4} /\ Bytes = {0, 1, 2, 3, 4}
    /\ \A T \in SUBSET Entries : IsFiniteSet(T) /\ Cardinality(T) \in Nat
    /\ \A T \in SUBSET Entries : \A S \in SUBSET T : Cardinality(S) <= Cardinality(T)
<1>1. IsFiniteSet(Entries)
  <2>1. 1 \in Int /\ 5 \in Int
      OBVIOUS
  <2> QED
      BY <2>1, FS_Interval DEF Entries
<1>2. \A T \in SUBSET Entries : IsFiniteSet(T) /\ Cardinality(T) \in Nat
    BY <1>1, FS_Subset, FS_CardinalityType
<1>3. \A T \in SUBSET Entries : \A S \in SUBSET T : Cardinality(S) <= Cardinality(T)
    BY <1>2, FS_Subset
<1> QED
    BY <1>2, <1>3 DEF Entries, DuContents, Bytes

\* The smaller of two numbers.
LEMMA MinOfTwo ==
    ASSUME NEW a \in Nat, NEW b \in Nat
    PROVE  Min({a, b}) \in Nat /\ Min({a, b}) <= a /\ Min({a, b}) <= b
<1>1. \E x \in {a, b} : \A y \in {a, b} : x <= y
    OBVIOUS
<1> QED
    BY <1>1 DEF Min

\* The first and the last of some entries.
LEMMA EndsOfEntries ==
    ASSUME NEW S \in SUBSET Entries, S # {}
    PROVE  /\ Min(S) \in S /\ \A y \in S : Min(S) <= y
           /\ Max(S) \in S /\ \A y \in S : y <= Max(S)
<1> DEFINE first == IF 1 \in S THEN 1 ELSE IF 2 \in S THEN 2 ELSE IF 3 \in S THEN 3 ELSE IF 4 \in S THEN 4 ELSE 5
           last == IF 5 \in S THEN 5 ELSE IF 4 \in S THEN 4 ELSE IF 3 \in S THEN 3 ELSE IF 2 \in S THEN 2 ELSE 1
<1>0. \A y \in S : y = 1 \/ y = 2 \/ y = 3 \/ y = 4 \/ y = 5
    BY DEF Entries
<1>1. \E x \in S : \A y \in S : x <= y
  <2>1. first \in S /\ \A y \in S : first <= y
      BY <1>0
  <2> QED
      BY <2>1
<1>2. \E x \in S : \A y \in S : x >= y
  <2>1. last \in S /\ \A y \in S : last >= y
      BY <1>0
  <2> QED
      BY <2>1
<1>3. Min(S) \in S /\ \A y \in S : Min(S) <= y
    BY <1>1 DEF Min
<1>4. Max(S) \in S /\ \A y \in S : Max(S) >= y
    BY <1>2 DEF Max
<1> QED
    BY <1>0, <1>3, <1>4

\* Candidates are files the snapshot saw, and the first paths of their objects.
LEMMA CandidatesAreFiles ==
    ASSUME DuTypes
    PROVE  /\ Present \subseteq Entries /\ Canonical \subseteq Present /\ DuCandidates \subseteq Canonical
           /\ \A e \in Present : Physical(e) \in Present /\ orig[Physical(e)] = orig[e]
                                 /\ DuSide(Physical(e)) = DuSide(e) /\ Physical(Physical(e)) = Physical(e)
           /\ \A e \in Canonical : Physical(e) = e
           /\ \A e \in Present : orig[e] \in DuContents /\ Quick(orig[e]) \in DuContents
           /\ \A e \in Present : e \in SameObject(e)
           /\ \A e \in Present : \A f \in SameObject(e) : f \in Present /\ orig[f] = orig[e]
<1>1. Present \subseteq Entries /\ {1, 2, 4, 5} \subseteq Present /\ orig \in [Entries -> Bytes]
      /\ orig[3] \in {orig[2], Absent}
    BY DEF DuTypes, Present
<1>2. \A e \in Present : orig[e] \in DuContents /\ Quick(orig[e]) \in DuContents
    BY <1>1, EntriesFinite DEF Present, Absent, Quick
<1>3. 3 \in Present => orig[3] = orig[2]
    BY <1>1 DEF Present
<1>4. \A e \in Present : Physical(e) \in Present /\ orig[Physical(e)] = orig[e]
                         /\ DuSide(Physical(e)) = DuSide(e) /\ Physical(Physical(e)) = Physical(e)
    BY <1>1, <1>3, EntriesFinite DEF Physical, DuSide
<1>5. \A e \in Present : \A f \in SameObject(e) : f \in Present /\ orig[f] = orig[e]
    <2> SUFFICES ASSUME NEW e \in Present, NEW f \in Present, Physical(f) = Physical(e) PROVE orig[f] = orig[e]
        BY DEF SameObject
    <2> QED
        BY <1>4
<1>6. Canonical \subseteq Present /\ DuCandidates \subseteq Canonical /\ \A e \in Canonical : Physical(e) = e
    BY <1>4 DEF Canonical, DuCandidates
<1> QED
    BY <1>1, <1>2, <1>4, <1>5, <1>6 DEF SameObject

\* The files of the snapshot are fixed.
LEMMA FilesStay ==
    ASSUME UNCHANGED <<orig, stable>>
    PROVE  /\ Present' = Present /\ Canonical' = Canonical /\ DuCandidates' = DuCandidates
           /\ \A e \in Entries : Physical(e)' = Physical(e) /\ SameObject(e)' = SameObject(e)
           /\ \A S : ObjectsOf(S)' = ObjectsOf(S)
           /\ \A e, f : Alike(e, f)' <=> Alike(e, f)
<1>1. Present' = Present
    BY DEF Present
<1>2. \A e : Physical(e)' = Physical(e)
    BY DEF Physical
<1>3. Canonical' = Canonical
    BY <1>1, <1>2 DEF Canonical
<1>4. DuCandidates' = DuCandidates
    BY <1>3 DEF DuCandidates
<1>5. \A e \in Entries : SameObject(e)' = SameObject(e)
    BY <1>1, <1>2 DEF SameObject
<1>6. \A S : ObjectsOf(S)' = ObjectsOf(S)
    BY <1>2 DEF ObjectsOf
<1> QED
    BY <1>1, <1>2, <1>3, <1>4, <1>5, <1>6 DEF Alike

-----------------------------------------------------------------------------
(* Groups.                                                                 *)

MemberForms == GroupKeys \X Entries \X {"SOURCE_ORIGIN", "EXPECTED_REPLICA", "DUPLICATE"}
RowSaves(key, saves, ms) ==
    /\ key[1] = "expected" => saves = 0
    /\ key[1] = "internal" => \E es \in SUBSET {m[2] : m \in {x \in ms : x[1] = key}} :
          es # {} /\ saves = DuSize(key[3]) * (Cardinality(ObjectsOf(es)) - 1)
    /\ key[1] = "cross" =>
          /\ saves = DuSize(key[3])
          /\ \A s \in {"src", "tgt"} : \E e \in {m[2] : m \in {x \in ms : x[1] = key}} : DuSide(e) = s

\* A member is known to hold its group's content.
KnownMember(k, m) ==
    /\ m[2] \in Present /\ k[m[2]].full = m[1][3]
    /\ m[1][1] = "internal" => DuSide(m[2]) = m[1][2]
    /\ m[3] = "EXPECTED_REPLICA" => <<m[1][2], m[2]>> \in ExpectedMatches(k)

\* The keys of groups and their parts.
LEMMA KeyForms ==
    /\ \A e \in {1, 2, 3}, c \in DuContents : <<"expected", e, c>> \in GroupKeys
    /\ \A s \in {"src", "tgt"}, c \in DuContents : <<"internal", s, c>> \in GroupKeys
    /\ \A c \in DuContents : <<"cross", "both", c>> \in GroupKeys
    /\ \A key \in GroupKeys : key[1] \in {"expected", "internal", "cross"} /\ key[3] \in DuContents
    /\ \A key \in GroupKeys : key = <<key[1], key[2], key[3]>>
<1>1. /\ \A e \in {1, 2, 3}, c \in DuContents : <<"expected", e, c>> \in {"expected"} \X {1, 2, 3} \X DuContents
      /\ \A s \in {"src", "tgt"}, c \in DuContents : <<"internal", s, c>> \in {"internal"} \X {"src", "tgt"} \X DuContents
      /\ \A c \in DuContents : <<"cross", "both", c>> \in {"cross"} \X {"both"} \X DuContents
    OBVIOUS
<1>2. ASSUME NEW key \in GroupKeys
      PROVE  /\ key[1] \in {"expected", "internal", "cross"} /\ key[3] \in DuContents
             /\ key = <<key[1], key[2], key[3]>>
  <2>1. CASE key \in {"expected"} \X {1, 2, 3} \X DuContents
      BY <2>1
  <2>2. CASE key \in {"internal"} \X {"src", "tgt"} \X DuContents
      BY <2>2
  <2>3. CASE key \in {"cross"} \X {"both"} \X DuContents
      BY <2>3
  <2> QED
      BY <2>1, <2>2, <2>3 DEF GroupKeys
<1> QED
    BY <1>1, <1>2 DEF GroupKeys

\* Files that were read.
LEMMA HashedForms ==
    ASSUME DuTypes, NEW k \in [Entries -> HashProofs]
    PROVE  /\ Hashed(k) \subseteq Present
           /\ \A e \in Hashed(k) : k[e].full \in DuContents /\ e \in Entries
           /\ \A e \in Entries : DuSide(e) = "src" => e \in {1, 2, 3}
           /\ \A e \in Entries : DuSide(e) \in {"src", "tgt"}
    BY EntriesFinite, CandidatesAreFiles DEF Hashed, HashProofs, Bytes, DuSide

\* A pair that matches goes on matching as more is known.
LEMMA MatchesStay ==
    ASSUME NEW k, NEW l, Present \subseteq Entries,
           \A e \in Entries : k[e].full # 0 => l[e].full = k[e].full
    PROVE  ExpectedMatches(k) \subseteq ExpectedMatches(l)
    BY DEF ExpectedMatches, Hashed

\* The replicas of a plan: rows promise nothing, members are as read.
LEMMA ExpectedForms ==
    ASSUME DuTypes, NEW k \in [Entries -> HashProofs]
    PROVE  /\ \A key \in ExpectedKeys(k) : key \in GroupKeys /\ key[1] = "expected"
           /\ \A m \in ExpectedMembers(k) : m \in MemberForms /\ KnownMember(k, m)
           /\ \A key \in ExpectedKeys(k) : ExpectedRow(k, key).saves = 0
<1>1. \A p \in ExpectedMatches(k) :
          /\ p[1] \in Hashed(k) /\ p[2] \in Hashed(k) /\ p[1] \in {1, 2, 3} /\ k[p[1]].full = k[p[2]].full
          /\ p[1] \in Present /\ p[2] \in Present /\ k[p[1]].full \in DuContents
    BY HashedForms DEF ExpectedMatches
<1>2. ASSUME NEW key \in ExpectedKeys(k)
      PROVE  /\ key \in GroupKeys /\ key[1] = "expected" /\ key[2] \in Present /\ k[key[2]].full = key[3]
             /\ \A e \in ExpectedTargets(k, key) : e \in Present /\ k[e].full = key[3]
  <2>1. PICK p \in ExpectedMatches(k) : key = <<"expected", p[1], k[p[1]].full>>
      BY DEF ExpectedKeys
  <2>2. key[1] = "expected" /\ key[2] = p[1] /\ key[3] = k[p[1]].full
      BY <2>1
  <2>3. key \in GroupKeys
      BY <1>1, <2>1, KeyForms
  <2>4. ASSUME NEW e \in ExpectedTargets(k, key) PROVE e \in Present /\ k[e].full = key[3]
    <3>1. PICK q \in ExpectedMatches(k) : q[1] = key[2] /\ q[2] = e
        BY DEF ExpectedTargets
    <3> QED
        BY <3>1, <1>1, <2>2
  <2> QED
      BY <1>1, <2>2, <2>3, <2>4
<1>3. ASSUME NEW m \in ExpectedMembers(k) PROVE m \in MemberForms /\ KnownMember(k, m)
  <2>1. PICK key \in ExpectedKeys(k) :
            \/ m = <<key, key[2], "SOURCE_ORIGIN">>
            \/ \E e \in ExpectedTargets(k, key) : m = <<key, e, "EXPECTED_REPLICA">>
      BY DEF ExpectedMembers
  <2>2. m[1] = key /\ m[2] \in Present /\ k[m[2]].full = key[3] /\ key \in GroupKeys /\ key[1] = "expected"
        /\ m = <<m[1], m[2], m[3]>> /\ m[3] \in {"SOURCE_ORIGIN", "EXPECTED_REPLICA"}
      BY <2>1, <1>2
  <2>3. m[2] \in Entries
      BY <2>2, CandidatesAreFiles
  <2>4. m[3] = "EXPECTED_REPLICA" => <<m[1][2], m[2]>> \in ExpectedMatches(k)
    <3> SUFFICES ASSUME m[3] = "EXPECTED_REPLICA" PROVE <<m[1][2], m[2]>> \in ExpectedMatches(k)
        OBVIOUS
    <3>1. PICK e \in ExpectedTargets(k, key) : m = <<key, e, "EXPECTED_REPLICA">>
        BY <2>1
    <3>2. PICK q \in ExpectedMatches(k) : q[1] = key[2] /\ q[2] = e
        BY DEF ExpectedTargets
    <3>3. q = <<q[1], q[2]>> /\ m[1][2] = key[2] /\ m[2] = e
        BY <3>1 DEF ExpectedMatches
    <3> QED
        BY <3>2, <3>3
  <2> QED
      BY <2>2, <2>3, <2>4 DEF KnownMember, MemberForms
<1>4. \A key \in ExpectedKeys(k) : ExpectedRow(k, key).saves = 0
    BY DEF ExpectedRow
<1> QED
    BY <1>2, <1>3, <1>4

\* Duplicates inside an endpoint.
LEMMA InternalForms ==
    ASSUME DuTypes, NEW k \in [Entries -> HashProofs], NEW ms
    PROVE  /\ \A s \in {"src", "tgt"}, c \in DuContents : InternalEntries(k, ms, s, c) \subseteq
                  {e \in Present : DuSide(e) = s /\ k[e].full = c /\ e \notin Replicas(ms)}
           /\ \A m \in InternalMembers(k, ms) : m \in MemberForms /\ KnownMember(k, m)
           /\ \A g \in InternalGroups(k, ms) :
                 /\ g \in {"src", "tgt"} \X DuContents
                 /\ \A all : InternalMembers(k, ms) \subseteq all =>
                       RowSaves(<<"internal", g[1], g[2]>>, InternalRow(k, ms, g).saves, all)
<1>1. \A s \in {"src", "tgt"}, c \in DuContents : InternalEntries(k, ms, s, c) \subseteq
          {e \in Present : DuSide(e) = s /\ k[e].full = c /\ e \notin Replicas(ms)}
    BY HashedForms DEF InternalEntries, Eligible
<1>2. ASSUME NEW m \in InternalMembers(k, ms) PROVE m \in MemberForms /\ KnownMember(k, m)
  <2>1. PICK g \in {"src", "tgt"} \X DuContents : \E e \in InternalEntries(k, ms, g[1], g[2]) :
            m = <<<<"internal", g[1], g[2]>>, e, "DUPLICATE">>
      BY DEF InternalMembers, InternalGroups
  <2>2. PICK e \in InternalEntries(k, ms, g[1], g[2]) : m = <<<<"internal", g[1], g[2]>>, e, "DUPLICATE">>
      BY <2>1
  <2>3. g[1] \in {"src", "tgt"} /\ g[2] \in DuContents
      OBVIOUS
  <2>4. e \in Present /\ DuSide(e) = g[1] /\ k[e].full = g[2]
      BY <1>1, <2>3
  <2>5. <<"internal", g[1], g[2]>> \in GroupKeys /\ e \in Entries
      BY <2>3, <2>4, KeyForms, CandidatesAreFiles
  <2>6. m[1] = <<"internal", g[1], g[2]>> /\ m[1][2] = g[1] /\ m[1][3] = g[2] /\ m[2] = e /\ m[3] = "DUPLICATE"
      BY <2>2
  <2> QED
      BY <2>2, <2>4, <2>5, <2>6 DEF KnownMember, MemberForms
<1>3. ASSUME NEW g \in InternalGroups(k, ms), NEW all, InternalMembers(k, ms) \subseteq all
      PROVE  g \in {"src", "tgt"} \X DuContents /\ RowSaves(<<"internal", g[1], g[2]>>, InternalRow(k, ms, g).saves, all)
  <2> DEFINE es == InternalEntries(k, ms, g[1], g[2])
             key == <<"internal", g[1], g[2]>>
             of == {m[2] : m \in {x \in all : x[1] = key}}
  <2>1. g \in {"src", "tgt"} \X DuContents /\ Cardinality(ObjectsOf(es)) >= 2
      BY <1>3 DEF InternalGroups
  <2>2. es # {}
    <3>1. ObjectsOf({}) = {}
        BY DEF ObjectsOf
    <3> HIDE DEF es
    <3> QED
        BY <2>1, <3>1, FS_EmptySet
  <2>3. es \subseteq of
    <3> SUFFICES ASSUME NEW e \in es PROVE e \in of
        OBVIOUS
    <3>1. <<key, e, "DUPLICATE">> \in InternalMembers(k, ms)
        BY <1>3 DEF InternalMembers
    <3>2. <<key, e, "DUPLICATE">> \in all /\ <<key, e, "DUPLICATE">>[1] = key /\ <<key, e, "DUPLICATE">>[2] = e
        BY <3>1, <1>3
    <3> HIDE DEF key
    <3> QED
        BY <3>2
  <2>4. InternalRow(k, ms, g).saves = DuSize(g[2]) * (Cardinality(ObjectsOf(es)) - 1)
      BY DEF InternalRow
  <2>5. key[1] = "internal" /\ key[3] = g[2]
      OBVIOUS
  <2> HIDE DEF es, key
  <2>6. RowSaves(key, InternalRow(k, ms, g).saves, all)
      BY <2>2, <2>3, <2>4, <2>5 DEF RowSaves
  <2> QED
      BY <2>1, <2>6 DEF key
<1> QED
    BY <1>1, <1>2, <1>3

\* Duplicates between the endpoints.
LEMMA CrossForms ==
    ASSUME DuTypes, NEW k \in [Entries -> HashProofs], NEW ms
    PROVE  /\ \A c \in DuContents : \A e \in Representatives(k, ms, c) :
                  e \in Present /\ k[e].full = c /\ e \notin Replicas(ms)
           /\ \A m \in CrossMembers(k, ms) : m \in MemberForms /\ KnownMember(k, m)
           /\ \A c \in CrossGroups(k, ms) :
                 /\ c \in DuContents
                 /\ \A all : CrossMembers(k, ms) \subseteq all =>
                       RowSaves(<<"cross", "both", c>>, CrossRow(k, ms, c).saves, all)
<1>1. \A c \in DuContents : \A e \in Representatives(k, ms, c) :
          e \in Present /\ k[e].full = c /\ e \notin Replicas(ms) /\ e \in Entries
  <2> SUFFICES ASSUME NEW c \in DuContents, NEW e \in Representatives(k, ms, c)
               PROVE  e \in Present /\ k[e].full = c /\ e \notin Replicas(ms) /\ e \in Entries
      OBVIOUS
  <2>1. e \in InternalEntries(k, ms, "src", c) \/ e \in InternalEntries(k, ms, "tgt", c)
      BY DEF Representatives
  <2> QED
      BY <2>1, InternalForms, CandidatesAreFiles
<1>2. ASSUME NEW m \in CrossMembers(k, ms) PROVE m \in MemberForms /\ KnownMember(k, m)
  <2>1. PICK c \in DuContents : \E e \in Representatives(k, ms, c) : m = <<<<"cross", "both", c>>, e, "DUPLICATE">>
      BY DEF CrossMembers, CrossGroups
  <2>2. PICK e \in Representatives(k, ms, c) : m = <<<<"cross", "both", c>>, e, "DUPLICATE">>
      BY <2>1
  <2>3. <<"cross", "both", c>> \in GroupKeys
      BY KeyForms
  <2>4. m[1] = <<"cross", "both", c>> /\ m[1][1] = "cross" /\ m[1][3] = c /\ m[2] = e /\ m[3] = "DUPLICATE"
      BY <2>2
  <2> QED
      BY <1>1, <2>2, <2>3, <2>4 DEF KnownMember, MemberForms
<1>3. ASSUME NEW c \in CrossGroups(k, ms), NEW all, CrossMembers(k, ms) \subseteq all
      PROVE  c \in DuContents /\ RowSaves(<<"cross", "both", c>>, CrossRow(k, ms, c).saves, all)
  <2> DEFINE key == <<"cross", "both", c>>
             of == {m[2] : m \in {x \in all : x[1] = key}}
  <2>1. c \in DuContents /\ {DuSide(e) : e \in Representatives(k, ms, c)} = {"src", "tgt"}
      BY DEF CrossGroups
  <2>2. CrossRow(k, ms, c).saves = DuSize(c) /\ key[1] = "cross" /\ key[3] = c
      BY DEF CrossRow
  <2>3. ASSUME NEW s \in {"src", "tgt"} PROVE \E e \in of : DuSide(e) = s
    <3>1. PICK e \in Representatives(k, ms, c) : DuSide(e) = s
        BY <2>1
    <3>2. <<key, e, "DUPLICATE">> \in CrossMembers(k, ms)
        BY <1>3 DEF CrossMembers
    <3>3. <<key, e, "DUPLICATE">> \in all /\ <<key, e, "DUPLICATE">>[1] = key /\ <<key, e, "DUPLICATE">>[2] = e
        BY <3>2, <1>3
    <3> HIDE DEF key
    <3> QED
        BY <3>1, <3>3
  <2> HIDE DEF key
  <2>4. RowSaves(key, CrossRow(k, ms, c).saves, all)
      BY <2>2, <2>3 DEF RowSaves
  <2> QED
      BY <2>1, <2>4 DEF key
<1> QED
    BY <1>1, <1>2, <1>3

\* What a row promises stands when members are added.
LEMMA PromisesStay ==
    ASSUME NEW key, NEW saves, NEW ms, NEW more, ms \subseteq more, RowSaves(key, saves, ms)
    PROVE  RowSaves(key, saves, more)
<1> DEFINE of(x) == {m[2] : m \in {y \in x : y[1] = key}}
<1>1. of(ms) \subseteq of(more)
    OBVIOUS
<1> HIDE DEF of
<1> QED
    BY <1>1 DEF RowSaves, of

\* A member of the state is known, in the words of the lemmas above.
LEMMA MembersInWords ==
    /\ MembersAreKnown <=> (members \subseteq MemberForms /\ \A m \in members : KnownMember(known, m))
    /\ RowsAreCounted <=> (/\ DOMAIN groups \subseteq GroupKeys
                           /\ \A key \in DOMAIN groups : RowSaves(key, groups[key].saves, members))
    BY DEF MembersAreKnown, RowsAreCounted, MemberForms, KnownMember, RowSaves, MembersOf

\* What is built from the hashes known keeps the groups in order.
LEMMA BuiltFromKnown ==
    ASSUME DuTypes, MembersAreKnown, RowsAreCounted, NEW k \in [Entries -> HashProofs], Materialize(k),
           \A e \in Entries : known[e].full # 0 => k[e].full = known[e].full
    PROVE  /\ members \subseteq members' /\ members' \subseteq MemberForms
           /\ \A m \in members' : KnownMember(k, m)
           /\ DOMAIN groups' \subseteq GroupKeys
           /\ \A key \in DOMAIN groups' : RowSaves(key, groups'[key].saves, members')
<1> DEFINE m1 == members \cup ExpectedMembers(k)
           m2 == m1 \cup InternalMembers(k, m1)
           m3 == m2 \cup CrossMembers(k, m2)
           e1 == [key \in ExpectedKeys(k) |-> ExpectedRow(k, key)]
           e2 == [key \in {<<"internal", g[1], g[2]>> : g \in InternalGroups(k, m1)}
                               |-> InternalRow(k, m1, <<key[2], key[3]>>)]
           e3 == [key \in {<<"cross", "both", c>> : c \in CrossGroups(k, m2)} |-> CrossRow(k, m2, key[3])]
           g1 == AddGroups(groups, e1)
           g2 == AddGroups(g1, e2)
           g3 == AddGroups(g2, e3)
           Good(gs) == /\ DOMAIN gs \subseteq GroupKeys
                       /\ \A key \in DOMAIN gs : RowSaves(key, gs[key].saves, m3)
<1>1. members' = m3 /\ groups' = g3
    BY DEF Materialize
<1>2. \A m \in members : KnownMember(k, m)
  <2> SUFFICES ASSUME NEW m \in members PROVE KnownMember(k, m)
      OBVIOUS
  <2>1. m[2] \in Present /\ known[m[2]].full = m[1][3] /\ (m[1][1] = "internal" => DuSide(m[2]) = m[1][2])
        /\ m \in GroupKeys \X Entries \X {"SOURCE_ORIGIN", "EXPECTED_REPLICA", "DUPLICATE"}
      BY DEF MembersAreKnown
  <2>2. m[1] \in GroupKeys /\ m[2] \in Entries
      BY <2>1
  <2>3. m[1][3] \in DuContents
      BY <2>2, KeyForms
  <2>4. known[m[2]].full # 0
      BY <2>1, <2>3, EntriesFinite
  <2>5. m[3] = "EXPECTED_REPLICA" => <<m[1][2], m[2]>> \in ExpectedMatches(k)
      BY MatchesStay, CandidatesAreFiles DEF MembersAreKnown
  <2> QED
      BY <2>1, <2>2, <2>4, <2>5 DEF KnownMember
<1>3. members \subseteq MemberForms /\ DOMAIN groups \subseteq GroupKeys
      /\ \A key \in DOMAIN groups : RowSaves(key, groups[key].saves, members)
    BY MembersInWords
<1>4. /\ members \subseteq m3 /\ m3 \subseteq MemberForms
      /\ \A m \in m3 : KnownMember(k, m)
    BY <1>2, <1>3, ExpectedForms, InternalForms, CrossForms
<1>5. ASSUME NEW gs, NEW more, Good(gs), Good(more) PROVE Good(AddGroups(gs, more))
    BY <1>5 DEF AddGroups
<1>6. Good(groups)
    BY <1>3, <1>4, PromisesStay
<1>7. Good(e1)
  <2>1. \A key \in ExpectedKeys(k) : key \in GroupKeys /\ key[1] = "expected" /\ e1[key].saves = 0
      BY ExpectedForms
  <2>2. \A key \in ExpectedKeys(k) : RowSaves(key, e1[key].saves, m3)
      BY <2>1 DEF RowSaves
  <2> QED
      BY <2>1, <2>2
<1>8. Good(e2)
  <2> SUFFICES ASSUME NEW g \in InternalGroups(k, m1)
               PROVE  /\ <<"internal", g[1], g[2]>> \in GroupKeys
                      /\ RowSaves(<<"internal", g[1], g[2]>>, e2[<<"internal", g[1], g[2]>>].saves, m3)
      OBVIOUS
  <2>1. InternalMembers(k, m1) \subseteq m3
      OBVIOUS
  <2>2. g \in {"src", "tgt"} \X DuContents
        /\ RowSaves(<<"internal", g[1], g[2]>>, InternalRow(k, m1, g).saves, m3)
    <3> HIDE DEF m1, m3
    <3> QED
        BY <2>1, InternalForms
  <2>3. e2[<<"internal", g[1], g[2]>>] = InternalRow(k, m1, <<g[1], g[2]>>) /\ g = <<g[1], g[2]>>
    <3>1. g = <<g[1], g[2]>> /\ g[1] \in {"src", "tgt"} /\ g[2] \in DuContents
        BY <2>2
    <3> HIDE DEF m1
    <3>2. e2[<<"internal", g[1], g[2]>>] = InternalRow(k, m1, <<g[1], g[2]>>)
        OBVIOUS
    <3> QED
        BY <3>1, <3>2
  <2> QED
      BY <2>2, <2>3, KeyForms
<1>9. Good(e3)
  <2> SUFFICES ASSUME NEW c \in CrossGroups(k, m2)
               PROVE  /\ <<"cross", "both", c>> \in GroupKeys
                      /\ RowSaves(<<"cross", "both", c>>, e3[<<"cross", "both", c>>].saves, m3)
      OBVIOUS
  <2>1. c \in DuContents /\ RowSaves(<<"cross", "both", c>>, CrossRow(k, m2, c).saves, m3)
      BY CrossForms
  <2>2. e3[<<"cross", "both", c>>] = CrossRow(k, m2, c)
      OBVIOUS
  <2> QED
      BY <2>1, <2>2, KeyForms
<1>10. Good(g3)
  <2> HIDE DEF Good, e1, e2, e3
  <2>1. Good(g1)
      BY <1>5, <1>6, <1>7
  <2>2. Good(g2)
      BY <1>5, <1>8, <2>1
  <2> QED
      BY <1>5, <1>9, <2>2
<1> QED
  <2> HIDE DEF m3, g3
  <2> QED
      BY <1>1, <1>4, <1>10

\* Savings are counted from objects that are no replicas, of which one is left.
LEMMA SavingsAreLeft ==
    ASSUME DuTypes, MembersAreKnown, RowsAreCounted
    PROVE  SavingsLeaveACopy
<1> SUFFICES ASSUME ~Late, NEW c \in DuContents, SavedBy(c) > 0
             PROVE  SavedBy(c) <= DuSize(c) * (Cardinality(Removable(c)) - 1)
    BY DEF SavingsLeaveACopy
<1> DEFINE left == {e \in Present : known[e].full = c} \ Replicas(members)
           of(s) == {e \in left : DuSide(e) = s}
           n(s) == Cardinality(ObjectsOf(of(s)))
<1>1. left \subseteq Present /\ Present \subseteq Entries /\ \A e \in Present : DuSide(e) \in {"src", "tgt"}
    BY CandidatesAreFiles, EntriesFinite DEF DuSide
<1>2. \A es \in SUBSET left : /\ ObjectsOf(es) \in SUBSET Entries /\ Cardinality(ObjectsOf(es)) \in Nat
                              /\ IsFiniteSet(ObjectsOf(es))
  <2> SUFFICES ASSUME NEW es \in SUBSET left PROVE ObjectsOf(es) \in SUBSET Entries
      BY EntriesFinite
  <2>1. \A e \in es : e \in Present
      BY <1>1
  <2> HIDE DEF left
  <2> QED
      BY <2>1, CandidatesAreFiles DEF ObjectsOf
<1>3. \A s \in {"src", "tgt"} : \A es \in SUBSET of(s) : Cardinality(ObjectsOf(es)) <= n(s)
  <2> SUFFICES ASSUME NEW s \in {"src", "tgt"}, NEW es \in SUBSET of(s) PROVE Cardinality(ObjectsOf(es)) <= n(s)
      OBVIOUS
  <2>1. of(s) \in SUBSET left /\ ObjectsOf(es) \subseteq ObjectsOf(of(s))
      BY DEF ObjectsOf
  <2> HIDE DEF left, of
  <2>2. ObjectsOf(of(s)) \in SUBSET Entries
      BY <2>1, <1>2
  <2> QED
      BY <2>1, <2>2, EntriesFinite
<1>4. \A s \in {"src", "tgt"} : \A es \in SUBSET of(s) : es # {} => Cardinality(ObjectsOf(es)) >= 1
  <2> SUFFICES ASSUME NEW s \in {"src", "tgt"}, NEW es \in SUBSET of(s), es # {} PROVE Cardinality(ObjectsOf(es)) >= 1
      OBVIOUS
  <2>1. es \in SUBSET left
      OBVIOUS
  <2>2. ObjectsOf(es) # {}
      BY DEF ObjectsOf
  <2> HIDE DEF left, of
  <2> QED
      BY <2>1, <2>2, <1>2, FS_EmptySet
<1>5. \A m \in members : m[1] \in GroupKeys /\ m[2] \in Present /\ known[m[2]].full = m[1][3]
                         /\ (m[1][1] = "internal" => DuSide(m[2]) = m[1][2])
    BY DEF MembersAreKnown
<1>6. \A m \in members : (m[1][1] # "expected" /\ m[1][3] = c) => m[2] \in left
    BY <1>5 DEF Late
<1>7. \A e \in {1, 2, 3} : Promised(<<"expected", e, c>>) = 0
  <2> SUFFICES ASSUME NEW e \in {1, 2, 3} PROVE Promised(<<"expected", e, c>>) = 0
      OBVIOUS
  <2>1. <<"expected", e, c>>[1] = "expected"
      OBVIOUS
  <2> QED
      BY <2>1 DEF Promised, RowsAreCounted
<1>8. DuSize(c) \in {1, 2} /\ \A s \in {"src", "tgt"} : n(s) \in Nat
  <2>1. \A s \in {"src", "tgt"} : of(s) \in SUBSET left
      OBVIOUS
  <2> HIDE DEF left, of
  <2> QED
      BY <2>1, <1>2 DEF DuSize
<1>9. ASSUME NEW s \in {"src", "tgt"}
      PROVE  \/ Promised(<<"internal", s, c>>) = 0
             \/ \E i \in 1..n(s) : Promised(<<"internal", s, c>>) = DuSize(c) * (i - 1)
  <2> DEFINE key == <<"internal", s, c>>
  <2>1. CASE key \notin DOMAIN groups
      BY <2>1 DEF Promised
  <2>2. CASE key \in DOMAIN groups
    <3>1. key[1] = "internal" /\ key[2] = s /\ key[3] = c
        OBVIOUS
    <3> HIDE DEF key
    <3>2. PICK es \in SUBSET MembersOf(key) :
              es # {} /\ groups[key].saves = DuSize(key[3]) * (Cardinality(ObjectsOf(es)) - 1)
        BY <2>2, <3>1 DEF RowsAreCounted
    <3>3. es \in SUBSET of(s)
        BY <3>1, <1>5, <1>6 DEF MembersOf
    <3>4. es \in SUBSET left
        BY <3>3
    <3> HIDE DEF left, of
    <3>5. Cardinality(ObjectsOf(es)) \in 1..n(s)
        BY <3>2, <3>3, <3>4, <1>2, <1>3, <1>4, <1>8
    <3> HIDE DEF n
    <3>6. Promised(key) = DuSize(c) * (Cardinality(ObjectsOf(es)) - 1)
        BY <2>2, <3>1, <3>2 DEF Promised
    <3> QED
        BY <3>5, <3>6 DEF key
  <2> QED
      BY <2>1, <2>2
<1>10. \/ Promised(<<"cross", "both", c>>) = 0
       \/ Promised(<<"cross", "both", c>>) = DuSize(c) /\ \A s \in {"src", "tgt"} : n(s) >= 1
  <2> DEFINE key == <<"cross", "both", c>>
  <2>1. CASE key \notin DOMAIN groups
      BY <2>1 DEF Promised
  <2>2. CASE key \in DOMAIN groups
    <3>1. key[1] = "cross" /\ key[3] = c
        OBVIOUS
    <3> HIDE DEF key
    <3>2. groups[key].saves = DuSize(c) /\ \A s \in {"src", "tgt"} : \E e \in MembersOf(key) : DuSide(e) = s
        BY <2>2, <3>1 DEF RowsAreCounted
    <3>3. \A s \in {"src", "tgt"} : of(s) # {}
        BY <3>1, <3>2, <1>6 DEF MembersOf
    <3>4. \A s \in {"src", "tgt"} : n(s) >= 1
      <4> SUFFICES ASSUME NEW s \in {"src", "tgt"} PROVE n(s) >= 1
          OBVIOUS
      <4>1. of(s) \in SUBSET of(s) /\ of(s) # {}
          BY <3>3
      <4> HIDE DEF of
      <4> QED
          BY <4>1, <1>4
    <3> QED
        BY <3>2, <3>4, <2>2 DEF Promised, key
  <2> QED
      BY <2>1, <2>2
<1>11. Cardinality(Removable(c)) = n("src") + n("tgt")
  <2>1. of("src") \in SUBSET left /\ of("tgt") \in SUBSET left
      OBVIOUS
  <2>2. Removable(c) = ObjectsOf(of("src")) \cup ObjectsOf(of("tgt"))
      BY <1>1 DEF Removable, ObjectsOf
  <2>3. ObjectsOf(of("src")) \cap ObjectsOf(of("tgt")) = {}
    <3>1. \A e \in of("src"), f \in of("tgt") : Physical(e) # Physical(f)
        BY <1>1, CandidatesAreFiles
    <3> HIDE DEF of
    <3> QED
        BY <3>1 DEF ObjectsOf
  <2>4. Cardinality(ObjectsOf(of("src")) \cap ObjectsOf(of("tgt"))) = 0
      BY <2>3, FS_EmptySet
  <2> HIDE DEF left, of
  <2>5. Cardinality(ObjectsOf(of("src")) \cup ObjectsOf(of("tgt"))) = n("src") + n("tgt") - 0
    <3>1. IsFiniteSet(ObjectsOf(of("src"))) /\ IsFiniteSet(ObjectsOf(of("tgt")))
        BY <2>1, <1>2
    <3> QED
        BY <3>1, <2>4, FS_Union
  <2>6. n("src") \in Nat /\ n("tgt") \in Nat
      BY <1>8
  <2> HIDE DEF n
  <2> QED
      BY <2>2, <2>5, <2>6
<1>12. SavedBy(c) = Promised(<<"internal", "src", c>>) + Promised(<<"internal", "tgt", c>>)
                    + Promised(<<"cross", "both", c>>)
  <2>1. \A s \in {"src", "tgt"} : Promised(<<"internal", s, c>>) \in Nat
    <3> HIDE DEF n
    <3> QED
        BY <1>8, <1>9
  <2>2. Promised(<<"cross", "both", c>>) \in Nat
      BY <1>8, <1>10
  <2> QED
      BY <1>7, <2>1, <2>2 DEF SavedBy
<1> DEFINE a == Promised(<<"internal", "src", c>>)
           b == Promised(<<"internal", "tgt", c>>)
           x == Promised(<<"cross", "both", c>>)
           N == n("src")
           M == n("tgt")
<1>13. /\ a = 0 \/ \E i \in 1..N : a = DuSize(c) * (i - 1)
       /\ b = 0 \/ \E i \in 1..M : b = DuSize(c) * (i - 1)
       /\ x = 0 \/ (x = DuSize(c) /\ N >= 1 /\ M >= 1)
       /\ N \in Nat /\ M \in Nat /\ DuSize(c) \in {1, 2}
       /\ SavedBy(c) = a + b + x /\ a + b + x > 0 /\ Cardinality(Removable(c)) = N + M
  <2> HIDE DEF n
  <2> QED
      BY <1>8, <1>9, <1>10, <1>11, <1>12
<1> HIDE DEF a, b, x, N, M
<1>14. a + b + x <= DuSize(c) * (N + M - 1)
  <2>1. CASE DuSize(c) = 1
      BY <1>13, <2>1
  <2>2. CASE DuSize(c) = 2
      BY <1>13, <2>2
  <2> QED
      BY <1>13, <2>1, <2>2
<1> QED
    BY <1>13, <1>14

-----------------------------------------------------------------------------
(* Steps.                                                                  *)

\* Steps that leave the groups keep what they say.
LEMMA GroupsStay ==
    ASSUME DuTypes, MembersAreKnown, RowsAreCounted, UNCHANGED <<orig, stable, groups, members>>,
           \A e \in Entries : known[e].full # 0 => known'[e].full = known[e].full
    PROVE  MembersAreKnown' /\ RowsAreCounted'
<1>1. Present' = Present /\ \A S : ObjectsOf(S)' = ObjectsOf(S)
    BY FilesStay
<1>2. \A m \in members : m[2] \in Present /\ known'[m[2]].full = m[1][3]
  <2> SUFFICES ASSUME NEW m \in members PROVE m[2] \in Present /\ known'[m[2]].full = m[1][3]
      OBVIOUS
  <2>1. m[2] \in Present /\ known[m[2]].full = m[1][3]
        /\ m \in GroupKeys \X Entries \X {"SOURCE_ORIGIN", "EXPECTED_REPLICA", "DUPLICATE"}
      BY DEF MembersAreKnown
  <2>2. m[1] \in GroupKeys /\ m[2] \in Entries
      BY <2>1
  <2>3. m[1][3] # 0
      BY <2>2, KeyForms, EntriesFinite
  <2> QED
      BY <2>1, <2>2, <2>3
<1>3. MembersAreKnown'
  <2>1. ExpectedMatches(known) \subseteq ExpectedMatches(known')
      BY MatchesStay, CandidatesAreFiles
  <2>2. ExpectedMatches(known)' = ExpectedMatches(known')
      BY <1>1 DEF ExpectedMatches, Hashed
  <2> QED
      BY <1>1, <1>2, <2>1, <2>2 DEF MembersAreKnown
<1>4. RowsAreCounted'
  <2>1. \A key : MembersOf(key)' = MembersOf(key)
      BY DEF MembersOf
  <2> QED
      BY <1>1, <2>1 DEF RowsAreCounted
<1> QED
    BY <1>3, <1>4

\* Building the groups keeps them in order, and what was found.
LEMMA GroupsAreBuilt ==
    ASSUME DuTypes, MembersAreKnown, RowsAreCounted, NEW k \in [Entries -> HashProofs], Materialize(k),
           \A e \in Entries : known[e].full # 0 => k[e].full = known[e].full,
           known' = k, UNCHANGED <<orig, stable>>
    PROVE  MembersAreKnown' /\ RowsAreCounted' /\ members \subseteq members'
<1>1. /\ members \subseteq members' /\ members' \subseteq MemberForms
      /\ \A m \in members' : KnownMember(k, m)
      /\ DOMAIN groups' \subseteq GroupKeys
      /\ \A key \in DOMAIN groups' : RowSaves(key, groups'[key].saves, members')
    BY BuiltFromKnown
<1>2. Present' = Present /\ \A S : ObjectsOf(S)' = ObjectsOf(S)
    BY FilesStay
<1>3. MembersAreKnown'
  <2>1. ExpectedMatches(known)' = ExpectedMatches(k)
      BY <1>2 DEF ExpectedMatches, Hashed
  <2> QED
      BY <1>1, <1>2, <2>1 DEF MembersAreKnown, MemberForms, KnownMember
<1>4. RowsAreCounted'
  <2>1. \A key : MembersOf(key)' = {m[2] : m \in {x \in members' : x[1] = key}}
      BY DEF MembersOf
  <2> QED
      BY <1>1, <1>2, <2>1 DEF RowsAreCounted, RowSaves
<1> QED
    BY <1>1, <1>3, <1>4

\* Two entries are at least two.
LEMMA TwoEntries ==
    ASSUME NEW T \in SUBSET Entries, NEW a \in T, NEW b \in T, a # b
    PROVE  Cardinality(T) >= 2
<1>1. IsFiniteSet({a}) /\ Cardinality({a}) = 1
    BY FS_Singleton
<1>2. Cardinality({a} \cup {b}) = 2
    BY <1>1, FS_AddElement
<1>3. {a} \cup {b} \in SUBSET T /\ Cardinality(T) \in Nat
    BY EntriesFinite
<1> QED
    BY <1>2, <1>3, EntriesFinite

\* A scan whose files are read has found every copy when it builds the groups.
LEMMA BuildFinds ==
    ASSUME DuTypes, StoredIsOfSnapshot, TriedEnough, StagesInOrder, dups.stage = "MATERIALIZE",
           \A e \in Entries : reqs[e].state # "FAILED", Materialize(known),
           MembersAreKnown, RowsAreCounted
    PROVE  \A e \in Present : (\E f \in Present : Physical(f) # Physical(e) /\ orig[f] = orig[e])
                                => \E m \in members' : Physical(m[2]) = Physical(e)
<1> SUFFICES ASSUME NEW e0 \in Present, NEW f0 \in Present, Physical(f0) # Physical(e0), orig[f0] = orig[e0]
             PROVE  \E m \in members' : Physical(m[2]) = Physical(e0)
    OBVIOUS
<1> DEFINE e == Physical(e0)
           f == Physical(f0)
           c == orig[e0]
           m1 == members \cup ExpectedMembers(known)
           m2 == m1 \cup InternalMembers(known, m1)
           m3 == m2 \cup CrossMembers(known, m2)
<1>1. members' = m3
    BY DEF Materialize
<1>2. /\ e \in Canonical /\ f \in Canonical /\ e # f /\ orig[e] = c /\ orig[f] = c /\ Physical(e) = e
      /\ Physical(f) = f /\ c \in DuContents /\ e \in Present /\ f \in Present /\ e \in Entries /\ f \in Entries
    BY CandidatesAreFiles DEF Canonical
<1>3. e \in DuCandidates /\ f \in DuCandidates
  <2> HIDE DEF e, f, c
  <2> QED
      BY <1>2 DEF DuCandidates
<1>4. \A a, b \in DuCandidates : (a # b /\ orig[a] = orig[b]) => known[a].full = orig[a]
  <2> SUFFICES ASSUME NEW a \in DuCandidates, NEW b \in DuCandidates, a # b, orig[a] = orig[b]
               PROVE  known[a].full = orig[a]
      OBVIOUS
  <2>1. Alike(a, b) /\ a \in Entries /\ b \in Entries
      BY CandidatesAreFiles DEF Alike
  <2>2. reqs[a].stage = "FULL_HASH" /\ reqs[a].state \notin {"PENDING", "RUNNING", "FAILED"}
      BY <2>1 DEF StagesInOrder, Lost
  <2>3. reqs[a] \in HashRequests /\ (reqs[a].state = "NONE" => reqs[a] = NoRequest)
      BY <2>1 DEF DuTypes, TriedEnough
  <2>4. reqs[a].state = "SUCCEEDED"
      BY <2>2, <2>3 DEF HashRequests, NoRequest
  <2> QED
      BY <2>1, <2>2, <2>4 DEF TriedEnough
<1>5. known[e].full = c /\ known[f].full = c /\ e \in Hashed(known) /\ f \in Hashed(known)
  <2>1. known[e].full = c /\ known[f].full = c
      BY <1>2, <1>3, <1>4
  <2>2. c # 0
      BY <1>2, EntriesFinite
  <2> QED
      BY <2>1, <2>2, <1>2 DEF Hashed
<1> DEFINE R == Replicas(m1)
           ok(g) == g \in Hashed(known) /\ g \notin R /\ known[g].full = c
<1>6. /\ \A m \in m3 : m \in MemberForms /\ KnownMember(known, m)
      /\ \A m \in ExpectedMembers(known) : m \in m3
  <2>1. known \in [Entries -> HashProofs]
      BY DEF DuTypes
  <2>2. members' \subseteq MemberForms /\ \A m \in members' : KnownMember(known, m)
      BY <2>1, BuiltFromKnown
  <2> QED
      BY <1>1, <2>2
<1>7. Replicas(m2) = R
  <2>1. \A m \in InternalMembers(known, m1) : m[3] = "DUPLICATE"
      BY DEF InternalMembers
  <2> QED
      BY <2>1 DEF Replicas
<1>8. ASSUME NEW g \in R
      PROVE  /\ \E m \in m3 : m[2] = g
             /\ \E p \in Hashed(known) :
                   /\ DuSide(p) = "src" /\ known[p].full = known[g].full /\ DuSide(g) = "tgt"
                   /\ \E m \in m3 : m[2] = p
  <2>1. PICK m \in m1 : m[3] = "EXPECTED_REPLICA" /\ m[2] = g
      BY DEF Replicas
  <2>2. m \in m3
      OBVIOUS
  <2> HIDE DEF m1, m3
  <2>3. <<m[1][2], g>> \in ExpectedMatches(known)
      BY <2>1, <2>2, <1>6 DEF KnownMember
  <2> DEFINE p == m[1][2]
             pair == <<p, g>>
             key == <<"expected", p, known[p].full>>
  <2>4. p \in Hashed(known) /\ DuSide(p) = "src" /\ DuSide(g) = "tgt" /\ known[p].full = known[g].full
      BY <2>3 DEF ExpectedMatches
  <2>5. key \in ExpectedKeys(known)
    <3>1. key = <<"expected", pair[1], known[pair[1]].full>>
        OBVIOUS
    <3> HIDE DEF key
    <3> QED
        BY <2>3, <3>1 DEF ExpectedKeys
  <2>6. <<key, key[2], "SOURCE_ORIGIN">> \in ExpectedMembers(known) /\ key[2] = p
      BY <2>5 DEF ExpectedMembers
  <2> HIDE DEF key, p
  <2>7. \E x \in m3 : x[2] = p
      BY <2>6, <1>6
  <2> QED
      BY <2>1, <2>2, <2>4, <2>7
<1>9. ASSUME NEW g, NEW h, ok(g), ok(h), DuSide(g) = DuSide(h), Physical(g) # Physical(h)
      PROVE  \E m \in m3 : m[2] = g
  <2> DEFINE s == DuSide(g)
             es == InternalEntries(known, m1, s, c)
             key == <<s, c>>
  <2>1. g \in Present /\ h \in Present /\ s \in {"src", "tgt"} /\ c \in DuContents /\ g \in Entries
      BY <1>9, HashedForms, <1>2 DEF DuTypes, Hashed
  <2>2. g \in es /\ h \in es
      BY <1>9 DEF InternalEntries, Eligible
  <2>3. Cardinality(ObjectsOf(es)) >= 2
    <3>1. Physical(g) \in ObjectsOf(es) /\ Physical(h) \in ObjectsOf(es)
        BY <2>2 DEF ObjectsOf
    <3>2. ObjectsOf(es) \in SUBSET Entries
      <4>1. \A x \in es : x \in Present
        <5>1. known \in [Entries -> HashProofs]
            BY DEF DuTypes
        <5> HIDE DEF m1, s, c
        <5> QED
            BY <2>1, <5>1, InternalForms
      <4> HIDE DEF es
      <4> QED
          BY <4>1, CandidatesAreFiles DEF ObjectsOf
    <3> HIDE DEF es
    <3> QED
        BY <3>1, <3>2, <1>9, TwoEntries
  <2>4. key \in InternalGroups(known, m1)
    <3>1. key[1] = s /\ key[2] = c /\ key \in {"src", "tgt"} \X DuContents
        BY <2>1
    <3> HIDE DEF key, s
    <3> QED
        BY <2>3, <3>1 DEF InternalGroups
  <2>5. <<<<"internal", key[1], key[2]>>, g, "DUPLICATE">> \in InternalMembers(known, m1)
    <3>1. key[1] = s /\ key[2] = c
        OBVIOUS
    <3> HIDE DEF key, s
    <3> QED
        BY <2>2, <2>4, <3>1 DEF InternalMembers
  <2>6. <<<<"internal", key[1], key[2]>>, g, "DUPLICATE">> \in m3
      BY <2>5
  <2> HIDE DEF m3, key
  <2> QED
      BY <2>6
<1>10. ASSUME NEW g, NEW h, ok(g), ok(h), DuSide(g) # DuSide(h), Physical(g) = g
       PROVE  \E m \in m3 : m[2] = g
  <2> DEFINE s == DuSide(g)
             t == DuSide(h)
             es(x) == InternalEntries(known, m2, x, c)
             first(x) == {a \in es(x) : Physical(a) = Min(ObjectsOf(es(x)))}
  <2>1. /\ g \in Present /\ h \in Present /\ s \in {"src", "tgt"} /\ t \in {"src", "tgt"} /\ s # t
        /\ c \in DuContents /\ g \in Entries
      BY <1>10, HashedForms, <1>2 DEF DuTypes, Hashed
  <2>2. g \in es(s) /\ h \in es(t)
      BY <1>10, <1>7 DEF InternalEntries, Eligible
  <2>3. \A x \in {"src", "tgt"} : \A a \in es(x) : a \in Present /\ ok(a) /\ DuSide(a) = x
      BY <1>7, CandidatesAreFiles DEF InternalEntries, Eligible, Hashed
  <2>4. CASE \E a \in es(s) : Physical(a) # g
      BY <2>4, <2>1, <2>3, <1>9, <1>10
  <2>5. CASE \A a \in es(s) : Physical(a) = g
    <3>1. \A x \in {"src", "tgt"} : ObjectsOf(es(x)) \in SUBSET Entries
      <4> SUFFICES ASSUME NEW x \in {"src", "tgt"} PROVE ObjectsOf(es(x)) \in SUBSET Entries
          OBVIOUS
      <4>1. \A a \in es(x) : a \in Present
          BY <2>3
      <4> HIDE DEF es
      <4> QED
          BY <4>1, CandidatesAreFiles DEF ObjectsOf
    <3>2. g \in first(s)
      <4>1. ObjectsOf(es(s)) = {g}
        <5> HIDE DEF es
        <5> QED
            BY <2>2, <2>5 DEF ObjectsOf
      <4>2. Min(ObjectsOf(es(s))) = g
        <5>1. {g} \in SUBSET Entries /\ {g} # {}
            BY <2>1
        <5>2. Min({g}) = g
            BY <5>1, EndsOfEntries
        <5> HIDE DEF es
        <5> QED
            BY <4>1, <5>2
      <4> HIDE DEF es
      <4> QED
          BY <2>2, <4>2, <1>10
    <3>3. PICK b \in es(t) : b \in first(t)
      <4>1. ObjectsOf(es(t)) # {}
        <5> HIDE DEF es
        <5> QED
            BY <2>2 DEF ObjectsOf
      <4>2. Min(ObjectsOf(es(t))) \in ObjectsOf(es(t))
        <5> HIDE DEF es, t
        <5> QED
            BY <2>1, <3>1, <4>1, EndsOfEntries
      <4> HIDE DEF es
      <4> QED
          BY <4>2 DEF ObjectsOf
    <3>4. Representatives(known, m2, c) = first("src") \cup first("tgt")
        BY DEF Representatives
    <3>5. g \in Representatives(known, m2, c) /\ b \in Representatives(known, m2, c)
      <4> HIDE DEF first
      <4> QED
          BY <2>1, <3>2, <3>3, <3>4
    <3>6. \A a \in Representatives(known, m2, c) : DuSide(a) \in {"src", "tgt"}
      <4>1. \A x \in {"src", "tgt"} : \A a \in first(x) : DuSide(a) \in {"src", "tgt"}
          BY <2>3
      <4> HIDE DEF first
      <4> QED
          BY <3>4, <4>1
    <3>7. DuSide(b) = t
        BY <2>1, <2>3, <3>3
    <3>8. c \in CrossGroups(known, m2)
      <4> HIDE DEF m2, c
      <4> QED
          BY <2>1, <3>5, <3>6, <3>7 DEF CrossGroups
    <3>9. <<<<"cross", "both", c>>, g, "DUPLICATE">> \in CrossMembers(known, m2)
      <4> HIDE DEF m2, c
      <4> QED
          BY <3>5, <3>8 DEF CrossMembers
    <3>10. <<<<"cross", "both", c>>, g, "DUPLICATE">> \in m3
        BY <3>9
    <3> HIDE DEF m3, c
    <3> QED
        BY <3>10
  <2> QED
      BY <2>4, <2>5
<1>11. CASE e \in R
  <2>1. \E m \in m3 : Physical(m[2]) = e
    <3> HIDE DEF m3, R, e
    <3> QED
        BY <1>2, <1>8, <1>11
  <2> HIDE DEF m3
  <2> QED
      BY <1>1, <2>1
<1>12. CASE e \notin R /\ f \notin R
  <2>1. ok(e) /\ ok(f) /\ Physical(e) # Physical(f)
      BY <1>2, <1>5, <1>12
  <2>2. \E m \in m3 : m[2] = e
    <3> HIDE DEF m3, R, e, f, ok
    <3> QED
        BY <2>1, <1>2, <1>9, <1>10
  <2>3. \E m \in m3 : Physical(m[2]) = e
    <3> HIDE DEF m3, e
    <3> QED
        BY <1>2, <2>2
  <2> HIDE DEF m3
  <2> QED
      BY <1>1, <2>3
<1>13. CASE e \notin R /\ f \in R
  <2>1. PICK p \in Hashed(known) :
            /\ DuSide(p) = "src" /\ known[p].full = c /\ DuSide(f) = "tgt" /\ \E m \in m3 : m[2] = p
    <3> HIDE DEF m3, R, f, c
    <3> QED
        BY <1>5, <1>8, <1>13
  <2>2. p \notin R
    <3> HIDE DEF R, m3
    <3> QED
        BY <2>1, <1>8
  <2>3. ok(e) /\ ok(p)
      BY <1>5, <1>13, <2>1, <2>2
  <2>4. \E m \in m3 : Physical(m[2]) = e
    <3> HIDE DEF m3, R, e, f, ok, c
    <3>1. CASE Physical(p) = e
        BY <2>1, <3>1
    <3>2. CASE Physical(p) # e /\ DuSide(e) = "src"
        BY <1>2, <1>9, <2>1, <2>3, <3>2
    <3>3. CASE DuSide(e) # "src"
        BY <1>2, <1>10, <2>1, <2>3, <3>3
    <3> QED
        BY <3>1, <3>2, <3>3
  <2> HIDE DEF m3
  <2> QED
      BY <1>1, <2>4
<1> QED
    BY <1>11, <1>12, <1>13

\* The first state: nothing was asked for, and nothing is known.
LEMMA DuInitInv == DuInit => DuInv
<1> SUFFICES ASSUME DuInit PROVE DuInv
    OBVIOUS
<1>1. PICK x \in DuContents \X DuContents \X DuContents \X BOOLEAN :
          orig = [e \in Entries |-> CASE e = 1 -> 1 [] e = 2 -> x[1] [] e = 3 -> IF x[4] THEN x[1] ELSE Absent
                                      [] e = 4 -> x[2] [] OTHER -> x[3]]
    BY DEF DuInit
<1>2. x[1] \in DuContents /\ x[2] \in DuContents /\ x[3] \in DuContents /\ x[4] \in BOOLEAN
    OBVIOUS
<1>3. /\ orig[1] = 1 /\ orig[2] = x[1] /\ orig[3] \in {orig[2], Absent} /\ orig[4] = x[2] /\ orig[5] = x[3]
      /\ orig \in [Entries -> Bytes]
    BY <1>1, <1>2, EntriesFinite DEF Absent
<1>4. {1, 2, 4, 5} \subseteq Present
    BY <1>2, <1>3, EntriesFinite DEF Present, Absent
<1>5. CacheRows = {} /\ Cardinality({}) = 0
    BY FS_EmptySet DEF DuInit, CacheRows, NoRecord
<1>6. DuTypes
  <2>1. /\ NoScanRow \in ScanRows /\ NoRequest \in HashRequests /\ NoRecord \in CacheRecords
        /\ NoProof \in HashProofs /\ IdleWorker \in WorkerForms
      BY DuplicatesAssumption, EntriesFinite
         DEF NoScanRow, ScanRows, NoRequest, HashRequests, NoRecord, CacheRecords, NoProof, HashProofs,
             IdleWorker, WorkerForms, Stages
  <2>2. /\ disk = orig /\ changed = {} /\ stable \in BOOLEAN /\ backup = FALSE /\ jammed = FALSE
        /\ duLeft \in 0..MaxDuEvents
      BY DuplicatesAssumption DEF DuInit
  <2>3. /\ dups \in ScanRows /\ reqs \in [Entries -> HashRequests] /\ cached \in [Entries -> CacheRecords]
        /\ known \in [Entries -> HashProofs] /\ wk \in WorkerForms
      BY <2>1 DEF DuInit
  <2>4. Cardinality(CacheRows) <= MaxCacheRows
      BY <1>5, DuplicatesAssumption
  <2> QED
      BY <1>3, <1>4, <2>2, <2>3, <2>4 DEF DuTypes
<1>7. StoredIsOfSnapshot
    BY EntriesFinite DEF DuInit, StoredIsOfSnapshot, NoRecord, NoProof, NoRequest
<1>8. TriedEnough
    BY DuplicatesAssumption DEF DuInit, TriedEnough, NoRequest
<1>9. StagesInOrder
  <2>1. dups = NoScanRow /\ reqs = [e \in Entries |-> NoRequest] /\ wk = IdleWorker
      BY DEF DuInit
  <2>2. NoScanRow.state = "NONE" /\ NoScanRow.stage = "QUICK_SIGNATURE" /\ NoScanRow.full = 0
        /\ NoScanRow.cursor = 0 /\ IdleWorker.pc = "idle" /\ NoRequest.stage = "QUICK_SIGNATURE"
      BY DEF NoScanRow, IdleWorker, NoRequest
  <2>3. \A e \in DuCandidates : e \in Entries /\ ~(e <= 0)
      BY <1>6, CandidatesAreFiles, EntriesFinite
  <2> QED
      BY <2>1, <2>2, <2>3 DEF StagesInOrder
<1>10. WorkerKnows
    BY DEF DuInit, WorkerKnows, IdleWorker
<1>11. MembersAreKnown /\ RowsAreCounted
    BY DEF DuInit, MembersAreKnown, RowsAreCounted, NoGroups
<1>12. NoneMissed /\ StatusLoads
  <2>1. /\ dups.state = "NONE" /\ dups.stage = "QUICK_SIGNATURE" /\ wk.pc = "idle"
        /\ dups.cand = 0 /\ dups.quick = 0 /\ dups.full = 0 /\ dups.fullDone = 0 /\ dups.issues = 0
      BY DEF DuInit, NoScanRow, IdleWorker
  <2> QED
      BY <2>1 DEF NoneMissed, StatusLoads
<1> QED
    BY <1>6, <1>7, <1>8, <1>9, <1>10, <1>11, <1>12 DEF DuInv

\* Steps that do not touch requests, evidence or groups.
LEMMA WorkGoesOn ==
    ASSUME DuInv, UNCHANGED <<orig, stable, reqs, cached, known, groups, members>>,
           DuTypes', duLeft' <= duLeft
    PROVE  StoredIsOfSnapshot' /\ TriedEnough' /\ MembersAreKnown' /\ RowsAreCounted'
<1>1. StoredIsOfSnapshot'
    BY FilesStay DEF DuInv, StoredIsOfSnapshot
<1>2. TriedEnough'
  <2>1. duLeft \in Nat /\ duLeft' \in Nat /\ MaxDuEvents \in Nat /\ MaxTries \in Nat
        /\ \A e \in Entries : reqs[e].tries \in Nat
      BY DuplicatesAssumption DEF DuInv, DuTypes, HashRequests
  <2>2. DuCandidates' = DuCandidates
      BY FilesStay
  <2> QED
      BY <2>1, <2>2 DEF DuInv, TriedEnough
<1>3. MembersAreKnown' /\ RowsAreCounted'
    BY GroupsStay DEF DuInv
<1> QED
    BY <1>1, <1>2, <1>3

\* The thread between its cycles, and at the beginning of one.
LEMMA FreshWorker ==
    /\ IdleWorker \in WorkerForms /\ IdleWorker.pc = "idle"
    /\ [IdleWorker EXCEPT !.pc = "loop"] \in WorkerForms /\ [IdleWorker EXCEPT !.pc = "loop"].pc = "loop"
<1>1. 0 \in 0..WorkBatch /\ 0 \in {0} \cup Entries /\ 0 \in Bytes
    BY DuplicatesAssumption, EntriesFinite
<1> QED
    BY <1>1 DEF IdleWorker, WorkerForms, Stages

\* A scan is paused or resumed, or its cycle is put off.
LEMMA ScanIsHeld ==
    ASSUME DuInv, NEW st \in {"QUEUED", "RUNNING", "PAUSED"}, NEW why \in {"", "USER_REQUESTED", "ACTIVE_BACKUP"},
           dups.state \in {"QUEUED", "RUNNING", "PAUSED"}, dups' = [dups EXCEPT !.state = st, !.why = why],
           wk' \in {wk, IdleWorker, [IdleWorker EXCEPT !.pc = "loop"]},
           UNCHANGED <<orig, disk, changed, stable, reqs, cached, known, groups, members, backup, jammed>>,
           duLeft' \in 0..MaxDuEvents, duLeft' <= duLeft
    PROVE  DuInv'
<1>1. /\ dups \in ScanRows /\ dups' \in ScanRows /\ dups'.state = st /\ dups'.stage = dups.stage
      /\ dups'.cand = dups.cand /\ dups'.quick = dups.quick /\ dups'.full = dups.full
      /\ dups'.fullDone = dups.fullDone /\ dups'.issues = dups.issues /\ dups'.cursor = dups.cursor
      /\ dups.stage # "DONE"
    BY DEF DuInv, DuTypes, ScanRows, StatusLoads
<1>2. wk \in WorkerForms /\ wk' \in WorkerForms
    BY FreshWorker DEF DuInv, DuTypes
<1>3. wk' = wk \/ wk'.pc \in {"idle", "loop"}
    BY FreshWorker
<1>4. DuTypes'
  <2>1. Present' = Present /\ CacheRows' = CacheRows
      BY FilesStay DEF CacheRows
  <2> QED
      BY <1>1, <1>2, <2>1 DEF DuInv, DuTypes
<1>5. StoredIsOfSnapshot' /\ TriedEnough' /\ MembersAreKnown' /\ RowsAreCounted'
    BY <1>4, WorkGoesOn
<1>6. Present' = Present /\ DuCandidates' = DuCandidates /\ (\A e \in Entries : Physical(e)' = Physical(e))
      /\ (\A e, f : Alike(e, f)' <=> Alike(e, f)) /\ (\A e : Lost(e)' <=> Lost(e))
    BY FilesStay DEF Lost
<1>7. StagesInOrder'
    BY <1>1, <1>6 DEF DuInv, StagesInOrder
<1>8. WorkerKnows'
    BY <1>1, <1>3, <1>6 DEF DuInv, WorkerKnows
<1>9. NoneMissed'
  <2>1. \A e : Physical(e)' = Physical(e)
      BY DEF Physical
  <2>2. orig' = orig /\ members' = members /\ Present' = Present
      BY <1>6
  <2>3. CopiesFound => CopiesFound'
      BY <2>1, <2>2 DEF CopiesFound
  <2> QED
      BY <1>1, <1>3, <2>3 DEF DuInv, NoneMissed
<1>10. StatusLoads'
    BY <1>1 DEF DuInv, StatusLoads
<1> QED
    BY <1>4, <1>5, <1>7, <1>8, <1>9, <1>10 DEF DuInv

\* A step that leaves row and requests of the scan alone.
LEMMA ScanIsLeft ==
    ASSUME DuInv, UNCHANGED <<orig, stable, dups, reqs>>, duLeft' <= duLeft, members \subseteq members',
           \A e \in Entries : known[e].full # 0 => known'[e].full = known[e].full,
           wk'.pc = "closing" => wk.pc = "closing", dups.state = "NONE" => wk'.pc = "idle",
           DuTypes', StoredIsOfSnapshot', WorkerKnows', MembersAreKnown', RowsAreCounted'
    PROVE  DuInv'
<1>1. Present' = Present /\ DuCandidates' = DuCandidates /\ (\A e \in Entries : Physical(e)' = Physical(e))
      /\ (\A e, f : Alike(e, f)' <=> Alike(e, f)) /\ (\A e : Lost(e)' <=> Lost(e))
    BY FilesStay DEF Lost
<1>2. TriedEnough'
  <2>1. duLeft \in Nat /\ duLeft' \in Nat /\ MaxDuEvents \in Nat /\ MaxTries \in Nat
        /\ \A e \in Entries : reqs[e].tries \in Nat
      BY DuplicatesAssumption DEF DuInv, DuTypes, HashRequests
  <2>2. \A e \in DuCandidates : e \in Entries /\ orig[e] # 0
      BY CandidatesAreFiles, EntriesFinite DEF DuInv
  <2>3. ASSUME NEW e \in Entries, reqs[e].stage = "FULL_HASH", reqs[e].state = "SUCCEEDED"
        PROVE  known'[e].full = orig[e]
      BY <2>2, <2>3 DEF DuInv, TriedEnough
  <2> QED
      BY <2>1, <2>3, <1>1 DEF DuInv, TriedEnough
<1>3. StagesInOrder'
    BY <1>1 DEF DuInv, StagesInOrder
<1>4. NoneMissed' /\ StatusLoads'
  <2>1. CopiesFound => CopiesFound'
    <3> SUFFICES ASSUME CopiesFound, NEW e \in Present, \E f \in Present : Physical(f)' # Physical(e)' /\ orig[f] = orig[e]
                 PROVE  \E m \in members' : Physical(m[2])' = Physical(e)'
        BY <1>1 DEF CopiesFound
    <3>1. Present \subseteq Entries
        BY CandidatesAreFiles DEF DuInv
    <3>2. PICK m \in members : Physical(m[2]) = Physical(e)
        BY <1>1, <3>1 DEF CopiesFound
    <3>3. Physical(m[2])' = Physical(m[2]) /\ Physical(e)' = Physical(e)
        BY DEF Physical
    <3> QED
        BY <3>2, <3>3
  <2> QED
      BY <2>1 DEF DuInv, NoneMissed, StatusLoads
<1> QED
    BY <1>2, <1>3, <1>4 DEF DuInv

\* A step of the thread, or of the user's files, that only the thread can tell.
LEMMA OnlyTheThread ==
    ASSUME DuInv, UNCHANGED <<orig, stable, dups, reqs, cached, known, groups, members>>, duLeft' <= duLeft,
           wk'.pc = "closing" => wk.pc = "closing", dups.state = "NONE" => wk'.pc = "idle",
           disk' \in [Entries -> Bytes], changed' \subseteq Entries, backup' \in BOOLEAN, jammed' \in BOOLEAN,
           duLeft' \in 0..MaxDuEvents, wk' \in WorkerForms, WorkerKnows',
           \A e \in Entries : e \notin changed' => disk'[e] = orig[e]
    PROVE  DuInv'
<1>1. DuTypes'
  <2>1. Present' = Present /\ CacheRows' = CacheRows
      BY FilesStay DEF CacheRows
  <2> QED
      BY <2>1 DEF DuInv, DuTypes
<1>2. StoredIsOfSnapshot' /\ MembersAreKnown' /\ RowsAreCounted'
    BY <1>1, WorkGoesOn
<1> QED
    BY <1>1, <1>2, ScanIsLeft

\* What the thread does without the catalog.
LEMMA ThreadSteps ==
    ASSUME DuInv, EndCycle \/ ReadItem \/ LoadEvidence \/ WriteFails
    PROVE  DuInv'
<1>1. /\ disk \in [Entries -> Bytes] /\ changed \subseteq Entries /\ backup \in BOOLEAN /\ jammed \in BOOLEAN
      /\ duLeft \in 0..MaxDuEvents /\ wk \in WorkerForms /\ known \in [Entries -> HashProofs]
      /\ \A e \in Entries : e \notin changed => disk[e] = orig[e]
      /\ MaxDuEvents \in Nat
    BY DuplicatesAssumption DEF DuInv, DuTypes
<1>2. dups.state = "NONE" => wk.pc = "idle"
    BY DEF DuInv, StagesInOrder
<1>4. CASE EndCycle \/ WriteFails
  <2>1. wk' = IdleWorker /\ UNCHANGED <<orig, disk, changed, stable, backup, dups, reqs, cached, known, groups, members>>
        /\ duLeft' \in 0..MaxDuEvents /\ duLeft' <= duLeft /\ jammed' \in BOOLEAN
    <3>1. CASE EndCycle
        BY <1>1, <3>1 DEF EndCycle, sources
    <3>2. CASE WriteFails
        BY <1>1, <3>2 DEF WriteFails, Spend, sources
    <3> QED
        BY <1>4, <3>1, <3>2
  <2>2. WorkerKnows'
      BY <2>1, FreshWorker DEF WorkerKnows
  <2> QED
      BY <1>1, <2>1, <2>2, FreshWorker, OnlyTheThread
<1>5. CASE ReadItem \/ LoadEvidence
  <2>1. /\ UNCHANGED <<orig, disk, changed, stable, backup, dups, reqs, cached, known, groups, members, duLeft, jammed>>
        /\ wk.pc = "claimed" /\ wk.item \in DuCandidates /\ wk.item \in Entries
      BY <1>5, CandidatesAreFiles DEF ReadItem, LoadEvidence, NothingElse, sources, DuInv, WorkerKnows
  <2>2. PICK got \in Bytes, same \in BOOLEAN :
            wk' = [wk EXCEPT !.pc = "read", !.got = got, !.same = same] /\ (same => got = orig[wk.item])
    <3>1. CASE ReadItem
        BY <1>1, <2>1, <3>1 DEF ReadItem
    <3>2. CASE LoadEvidence
      <4>1. known[wk.item] \in HashProofs /\ known[wk.item].full # 0
          BY <1>1, <2>1, <3>2 DEF LoadEvidence
      <4>2. known[wk.item].same => known[wk.item].full = orig[wk.item]
          BY <2>1, <4>1 DEF DuInv, StoredIsOfSnapshot
      <4>3. known[wk.item].full \in Bytes /\ known[wk.item].same \in BOOLEAN
          BY <4>1 DEF HashProofs
      <4> QED
          BY <4>2, <4>3, <3>2 DEF LoadEvidence
    <3> QED
        BY <1>5, <3>1, <3>2
  <2>3. /\ wk' \in WorkerForms /\ wk'.pc = "read" /\ wk'.got = got /\ wk'.same = same /\ wk'.item = wk.item
        /\ wk'.stage = wk.stage /\ wk'.tries = wk.tries
      BY <1>1, <2>2 DEF WorkerForms
  <2>4. DuCandidates' = DuCandidates
      BY <2>1, FilesStay
  <2>5. WorkerKnows'
      BY <2>1, <2>2, <2>3, <2>4 DEF DuInv, WorkerKnows
  <2>6. dups.state # "NONE"
      BY <1>2, <2>1
  <2> QED
      BY <1>1, <2>1, <2>3, <2>5, <2>6, OnlyTheThread
<1> QED
    BY <1>4, <1>5

\* What the user does to files, and runs that come and go.
LEMMA UserSteps ==
    ASSUME DuInv, (\E e \in Entries, c \in DuContents : EditEntry(e, c)) \/ BackupBegins \/ BackupEnds
    PROVE  DuInv'
<1>1. /\ disk \in [Entries -> Bytes] /\ changed \subseteq Entries /\ backup \in BOOLEAN /\ jammed \in BOOLEAN
      /\ duLeft \in 0..MaxDuEvents /\ wk \in WorkerForms
      /\ (\A e \in Entries : e \notin changed => disk[e] = orig[e])
      /\ MaxDuEvents \in Nat
    BY DuplicatesAssumption DEF DuInv, DuTypes
<1>2. dups.state = "NONE" => wk.pc = "idle"
    BY DEF DuInv, StagesInOrder
<1>3. /\ UNCHANGED <<orig, stable, dups, reqs, cached, known, groups, members, wk, jammed>>
      /\ duLeft' \in 0..MaxDuEvents /\ duLeft' <= duLeft /\ backup' \in BOOLEAN
  <2>1. CASE BackupBegins
      BY <1>1, <2>1 DEF BackupBegins, Spend
  <2>2. CASE BackupEnds
    <3>1. /\ backup' = FALSE
          /\ UNCHANGED <<orig, disk, changed, stable, dups, reqs, cached, known, groups, members, wk, duLeft, jammed>>
        BY <2>2, Zenon DEF BackupEnds
    <3>2. backup' \in BOOLEAN
        BY <3>1, Zenon
    <3>3. duLeft' \in 0..MaxDuEvents /\ duLeft' <= duLeft
      <4>1. duLeft' = duLeft
          BY <3>1, Zenon
      <4> QED
          BY <1>1, <4>1
    <3>4. UNCHANGED <<orig, stable, dups, reqs, cached, known, groups, members, wk, jammed>>
        BY <3>1, Zenon
    <3> QED
        BY <3>2, <3>3, <3>4, Zenon
  <2>3. ASSUME NEW e \in Entries, NEW c \in DuContents, EditEntry(e, c)
        PROVE  /\ UNCHANGED <<orig, stable, dups, reqs, cached, known, groups, members, wk, jammed>>
               /\ duLeft' \in 0..MaxDuEvents /\ duLeft' <= duLeft /\ backup' \in BOOLEAN
      BY <1>1, <2>3 DEF EditEntry, Spend
  <2> QED
      BY <2>1, <2>2, <2>3
<1>4. DuCandidates' = DuCandidates
    BY <1>3, FilesStay
<1>5. WorkerKnows'
    BY <1>3, <1>4 DEF DuInv, WorkerKnows
<1>6. disk' \in [Entries -> Bytes] /\ changed' \subseteq Entries /\ \A e \in Entries : e \notin changed' => disk'[e] = orig[e]
  <2>1. CASE BackupBegins \/ BackupEnds
      BY <1>1, <2>1 DEF BackupBegins, BackupEnds
  <2>2. ASSUME NEW e \in Entries, NEW c \in DuContents, EditEntry(e, c)
        PROVE  disk' \in [Entries -> Bytes] /\ changed' \subseteq Entries
               /\ \A x \in Entries : x \notin changed' => disk'[x] = orig[x]
    <3> DEFINE o == IF e \in {2, 3} THEN {2, 3} \cap Present ELSE {e}
    <3>1. disk' = [f \in Entries |-> IF f \in o THEN c ELSE disk[f]] /\ changed' = changed \cup o
        BY <2>2 DEF EditEntry
    <3>2. o \subseteq Entries
        BY EntriesFinite
    <3> HIDE DEF o
    <3> QED
        BY <1>1, <3>1, <3>2, EntriesFinite
  <2> QED
      BY <2>1, <2>2
<1> QED
    BY <1>1, <1>2, <1>3, <1>5, <1>6, OnlyTheThread

\* What the counts say of requests.
LEMMA CountsLoad ==
    ASSUME DuInv, NEW r \in [Entries -> HashRequests], dups.state # "NONE",
           \A e \in Entries : r[e].state # "NONE" => e \in DuCandidates
    PROVE  /\ Progress(r) \in ScanRows /\ Progress(r).state = dups.state /\ Progress(r).stage = dups.stage
           /\ Progress(r).cand = dups.cand /\ Progress(r).full = dups.full /\ Progress(r).cursor = dups.cursor
           /\ Progress(r).quick <= dups.cand /\ Progress(r).fullDone <= dups.full /\ Progress(r).issues <= dups.cand
<1> DEFINE q == Min({dups.cand, Cardinality({e \in Entries : r[e].quick # 0 \/ (r[e].stage = "DONE" /\ r[e].state = "FAILED")})})
           d == Min({dups.full, Cardinality({e \in Entries : r[e].stage = "FULL_HASH" /\ r[e].state \in {"SUCCEEDED", "FAILED"}})})
           i == Cardinality({e \in Entries : r[e].state = "FAILED"})
<1>1. dups \in ScanRows /\ dups.cand \in Nat /\ dups.full \in Nat
    BY DEF DuInv, DuTypes, ScanRows
<1>2. q \in Nat /\ q <= dups.cand
  <2>1. Cardinality({e \in Entries : r[e].quick # 0 \/ (r[e].stage = "DONE" /\ r[e].state = "FAILED")}) \in Nat
      BY EntriesFinite
  <2> QED
      BY <1>1, <2>1, MinOfTwo
<1>3. d \in Nat /\ d <= dups.full
  <2>1. Cardinality({e \in Entries : r[e].stage = "FULL_HASH" /\ r[e].state \in {"SUCCEEDED", "FAILED"}}) \in Nat
      BY EntriesFinite
  <2> QED
      BY <1>1, <2>1, MinOfTwo
<1>4. i \in Nat /\ i <= dups.cand
  <2>1. dups.cand = Cardinality(DuCandidates) /\ DuCandidates \in SUBSET Entries
      BY CandidatesAreFiles DEF DuInv, StagesInOrder
  <2>2. {e \in Entries : r[e].state = "FAILED"} \in SUBSET DuCandidates
      OBVIOUS
  <2> QED
      BY <2>1, <2>2, EntriesFinite
<1>5. Progress(r) = [dups EXCEPT !.quick = q, !.fullDone = d, !.issues = i]
    BY DEF Progress
<1> HIDE DEF q, d, i
<1> QED
    BY <1>1, <1>2, <1>3, <1>4, <1>5 DEF ScanRows

\* A step of the thread on requests: what it has to keep of them.
RequestsKept(r) ==
    /\ r \in [Entries -> HashRequests]
    /\ \A e \in Entries :
        /\ r[e].quick # 0 => r[e].quick = Quick(orig[e])
        /\ r[e].state # "NONE" => e \in DuCandidates
        /\ r[e].state = "NONE" => r[e] = NoRequest
        /\ r[e].tries <= MaxTries + (MaxDuEvents - duLeft) + (IF r[e].stage = "FULL_HASH" THEN 1 ELSE 0)
        /\ r[e].state = "PENDING" =>
              r[e].tries < MaxTries + (MaxDuEvents - duLeft) + (IF r[e].stage = "FULL_HASH" THEN 1 ELSE 0)
        /\ r[e].state = "SUCCEEDED" \/ r[e].stage = "FULL_HASH" => r[e].quick # 0
        /\ (r[e].stage = "FULL_HASH" /\ r[e].state = "SUCCEEDED") => known[e].full = orig[e]
        /\ r[e].stage = "DONE" => r[e].state \in {"SUCCEEDED", "FAILED"}
        /\ r[e].state = "FAILED" => r[e].stage # "QUICK_SIGNATURE"

\* The thread writes requests and row.
LEMMA ThreadWrites ==
    ASSUME DuInv, RequestsKept(reqs'), StatusLoads', StagesInOrder', WorkerKnows', NoneMissed',
           UNCHANGED <<orig, disk, changed, stable, backup, cached, known, groups, members>>,
           duLeft' \in 0..MaxDuEvents, duLeft' <= duLeft, jammed' \in BOOLEAN,
           dups' \in ScanRows, wk' \in WorkerForms
    PROVE  DuInv'
<1>1. Present' = Present /\ DuCandidates' = DuCandidates /\ CacheRows' = CacheRows
    BY FilesStay DEF CacheRows
<1>2. DuTypes'
    BY <1>1 DEF DuInv, DuTypes, RequestsKept
<1>3. StoredIsOfSnapshot'
    BY <1>1 DEF DuInv, StoredIsOfSnapshot, RequestsKept
<1>4. TriedEnough'
  <2>1. duLeft \in Nat /\ duLeft' \in Nat /\ MaxDuEvents \in Nat /\ MaxTries \in Nat
        /\ \A e \in Entries : reqs'[e].tries \in Nat
      BY DuplicatesAssumption DEF DuInv, DuTypes, HashRequests, RequestsKept
  <2> QED
      BY <1>1, <2>1 DEF TriedEnough, RequestsKept
<1>5. MembersAreKnown' /\ RowsAreCounted'
    BY GroupsStay DEF DuInv
<1> QED
    BY <1>2, <1>3, <1>4, <1>5 DEF DuInv

\* The requests of a state are kept as they are.
LEMMA RequestsAreKept == DuInv => RequestsKept(reqs)
    BY DEF DuInv, DuTypes, StoredIsOfSnapshot, TriedEnough, RequestsKept

\* What an answer may make of the request in hand.
Answer(q) ==
    LET e == wk.item IN
    /\ q \in HashRequests /\ q.tries = reqs[e].tries /\ (q.quick # 0 => q.quick = Quick(orig[e]))
    /\ q.state \in {"PENDING", "SUCCEEDED", "FAILED"}
    /\ q.state # "FAILED" => q.stage = wk.stage
    /\ q.state = "FAILED" => q.stage = (IF wk.stage = "QUICK_SIGNATURE" THEN "DONE" ELSE wk.stage)
    /\ q.state = "SUCCEEDED" \/ q.stage = "FULL_HASH" => q.quick # 0
    /\ q.state = "PENDING" =>
          q.tries < MaxTries + (MaxDuEvents - duLeft) + (IF q.stage = "FULL_HASH" THEN 1 ELSE 0)
    /\ (q.state = "SUCCEEDED" /\ q.stage = "FULL_HASH") => known[e].full = orig[e]

\* The request in hand is answered: the row is counted, and the thread goes on.
LEMMA AnswerKeeps ==
    ASSUME DuInv, wk.pc \in {"claimed", "read", "kept", "cached"}, NEW q, Answer(q),
           Finish([reqs EXCEPT ![wk.item] = q]),
           UNCHANGED <<orig, disk, changed, stable, backup, cached, known, groups, members, jammed>>,
           duLeft' \in 0..MaxDuEvents, duLeft' <= duLeft
    PROVE  DuInv'
<1> DEFINE e == wk.item
           r == [reqs EXCEPT ![e] = q]
<1>1. /\ e \in DuCandidates /\ e \in Entries /\ wk.stage = dups.stage /\ wk.stage = reqs[e].stage
      /\ wk.stage \in Stages /\ wk.n \in 0..WorkBatch /\ dups.state # "NONE" /\ dups.stage \in Stages
    BY CandidatesAreFiles DEF DuInv, WorkerKnows, DuTypes, WorkerForms, StagesInOrder
<1>2. /\ r \in [Entries -> HashRequests] /\ r[e] = q /\ \A x \in Entries : x # e => r[x] = reqs[x]
    BY <1>1 DEF DuInv, DuTypes, Answer
<1>3. reqs' = r /\ dups' = Progress(r) /\ wk' = [IdleWorker EXCEPT !.pc = "loop", !.n = wk.n]
    BY DEF Finish, BackToLoop
<1>4. wk' \in WorkerForms /\ wk'.pc = "loop"
  <2>1. 0 \in {0} \cup Entries /\ 0 \in Bytes
      BY EntriesFinite
  <2> QED
      BY <1>1, <1>3, <2>1 DEF IdleWorker, WorkerForms, Stages
<1>5. RequestsKept(r)
  <2> HIDE DEF r, e
  <2>1. RequestsKept(reqs)
      BY RequestsAreKept
  <2>2. MaxTries \in Nat /\ duLeft \in Nat /\ MaxDuEvents \in Nat
      BY DuplicatesAssumption DEF DuInv, DuTypes
  <2>3. q.tries <= MaxTries + (MaxDuEvents - duLeft) + (IF q.stage = "FULL_HASH" THEN 1 ELSE 0)
    <3>1. q.tries = reqs[e].tries /\ (q.stage = reqs[e].stage \/ (reqs[e].stage = "QUICK_SIGNATURE" /\ q.stage = "DONE"))
        BY <1>1 DEF Answer, e
    <3>2. reqs[e].tries <= MaxTries + (MaxDuEvents - duLeft) + (IF reqs[e].stage = "FULL_HASH" THEN 1 ELSE 0)
        BY <1>1, <2>1 DEF RequestsKept
    <3> QED
        BY <3>1, <3>2
  <2>4. /\ q.stage = "DONE" => q.state \in {"SUCCEEDED", "FAILED"}
        /\ q.state = "FAILED" => q.stage # "QUICK_SIGNATURE"
      BY <1>1 DEF Answer, Stages
  <2>5. /\ q.quick # 0 => q.quick = Quick(orig[e])
        /\ q.state # "NONE"
        /\ q.state = "PENDING" =>
              q.tries < MaxTries + (MaxDuEvents - duLeft) + (IF q.stage = "FULL_HASH" THEN 1 ELSE 0)
        /\ q.state = "SUCCEEDED" \/ q.stage = "FULL_HASH" => q.quick # 0
        /\ (q.stage = "FULL_HASH" /\ q.state = "SUCCEEDED") => known[e].full = orig[e]
      BY DEF Answer, e
  <2> QED
      BY <1>1, <1>2, <2>1, <2>3, <2>4, <2>5 DEF RequestsKept
<1>6. /\ dups' \in ScanRows /\ dups'.state = dups.state /\ dups'.stage = dups.stage
      /\ dups'.cand = dups.cand /\ dups'.full = dups.full /\ dups'.cursor = dups.cursor
      /\ dups'.quick <= dups.cand /\ dups'.fullDone <= dups.full /\ dups'.issues <= dups.cand
    BY <1>1, <1>3, <1>5, CountsLoad DEF RequestsKept
<1>7. StatusLoads'
    BY <1>6 DEF DuInv, StatusLoads
<1>8. StagesInOrder'
  <2>1. DuCandidates' = DuCandidates /\ \A a, b : Alike(a, b)' <=> Alike(a, b)
      BY FilesStay
  <2>2. q.state # "NONE" /\ q.stage \in {wk.stage, "DONE"} /\ (q.stage = "DONE" => q.state = "FAILED")
        /\ (wk.stage = "FULL_HASH" => q.stage = "FULL_HASH")
      BY <1>1 DEF Answer, Stages
  <2>3. \A a \in Entries : Lost(a) => a # e \/ wk.stage = "QUICK_SIGNATURE"
      BY <1>1 DEF Lost, Stages
  <2> HIDE DEF r, e
  <2>4. dups.stage = "FULL_HASH" => \A a \in Entries : Lost(a) => Lost(a)'
      BY <1>1, <1>2, <1>3, <2>3 DEF Lost
  <2>5. DuCandidates \subseteq Entries
      BY CandidatesAreFiles DEF DuInv
  <2>6. CASE dups.stage = "QUICK_SIGNATURE"
    <3>1. /\ \A a \in Entries : reqs[a].stage # "FULL_HASH"
          /\ \A a \in Entries : reqs[a].stage = "DONE" => reqs[a].state = "FAILED"
          /\ \A a \in DuCandidates : a <= dups.cursor => reqs[a].state # "NONE"
          /\ dups.full = 0 /\ dups.cand = Cardinality(DuCandidates)
        BY <1>1, <2>6 DEF DuInv, StagesInOrder
    <3>2. \A a \in Entries : reqs'[a] = reqs[a] \/ (reqs'[a].stage = q.stage /\ reqs'[a].state = q.state)
        BY <1>1, <1>2, <1>3
    <3>3. q.stage # "FULL_HASH" /\ q.state # "NONE" /\ (q.stage = "DONE" => q.state = "FAILED")
        BY <1>1, <2>2, <2>6
    <3>4. /\ \A a \in Entries : reqs'[a].stage # "FULL_HASH"
          /\ \A a \in Entries : reqs'[a].stage = "DONE" => reqs'[a].state = "FAILED"
          /\ \A a \in DuCandidates : a <= dups.cursor => reqs'[a].state # "NONE"
        BY <2>5, <3>1, <3>2, <3>3
    <3> QED
        BY <1>1, <1>6, <2>1, <2>6, <3>1, <3>4 DEF StagesInOrder
  <2>7. CASE dups.stage = "FULL_HASH"
    <3>1. \A a \in DuCandidates : reqs'[a].stage \in {"FULL_HASH", "DONE"}
        BY <1>1, <1>2, <1>3, <2>2, <2>5, <2>7 DEF DuInv, StagesInOrder
    <3>2. \A a, b \in DuCandidates : Alike(a, b) => reqs'[a].stage = "FULL_HASH" \/ Lost(a)' \/ Lost(b)'
        BY <1>1, <1>2, <1>3, <2>2, <2>4, <2>5, <2>7 DEF DuInv, StagesInOrder
    <3> QED
        BY <1>1, <1>6, <2>1, <2>7, <3>1, <3>2 DEF DuInv, StagesInOrder
  <2> QED
      BY <1>1, <2>6, <2>7 DEF Stages
<1>9. WorkerKnows' /\ NoneMissed'
    BY <1>1, <1>4, <1>6 DEF WorkerKnows, NoneMissed, DuInv, StatusLoads, Stages
<1> QED
    BY <1>3, <1>4, <1>5, <1>6, <1>7, <1>8, <1>9, ThreadWrites DEF DuInv, DuTypes

\* An attempt that fails is left for another, or was the last.
LEMMA GivingUpKeeps ==
    ASSUME DuInv, wk.pc \in {"claimed", "read", "kept", "cached"}, GiveUp,
           UNCHANGED <<orig, disk, changed, stable, backup, cached, known, groups, members, jammed>>,
           duLeft' \in 0..MaxDuEvents, duLeft' <= duLeft
    PROVE  DuInv'
<1> DEFINE e == wk.item
           again == [reqs[e] EXCEPT !.state = "PENDING"]
           failed == [reqs[e] EXCEPT !.state = "FAILED", !.stage = IF wk.stage = "QUICK_SIGNATURE" THEN "DONE" ELSE wk.stage]
           q == IF reqs[e].state # "RUNNING" THEN reqs[e] ELSE IF wk.tries < MaxTries THEN again ELSE failed
<1>1. /\ e \in Entries /\ wk.stage = reqs[e].stage /\ wk.stage \in Stages /\ reqs[e] \in HashRequests
      /\ reqs[e].state \in {"PENDING", "RUNNING"} /\ wk.tries = reqs[e].tries
      /\ reqs \in [Entries -> HashRequests]
    BY CandidatesAreFiles DEF DuInv, WorkerKnows, DuTypes, WorkerForms
<1>2. RetryOrFail(e, wk.tries, wk.stage) = [reqs EXCEPT ![e] = q]
    BY <1>1 DEF RetryOrFail
<1>3. /\ MaxTries \in Nat /\ duLeft \in Nat /\ MaxDuEvents \in Nat /\ duLeft <= MaxDuEvents
    BY DuplicatesAssumption DEF DuInv, DuTypes
<1>4. /\ q \in HashRequests /\ q.tries = reqs[e].tries /\ q.quick = reqs[e].quick
      /\ q.state \in {"PENDING", "FAILED"}
      /\ q.state = "PENDING" => q.stage = wk.stage /\ (reqs[e].state = "PENDING" \/ wk.tries < MaxTries)
      /\ q.state = "FAILED" => q.stage = (IF wk.stage = "QUICK_SIGNATURE" THEN "DONE" ELSE wk.stage)
    BY <1>1 DEF HashRequests, Stages
<1> HIDE DEF q
<1>5. Answer(q)
  <2>1. /\ reqs[e].quick # 0 => reqs[e].quick = Quick(orig[e])
        /\ reqs[e].stage = "FULL_HASH" => reqs[e].quick # 0
        /\ reqs[e].state = "PENDING" =>
              reqs[e].tries < MaxTries + (MaxDuEvents - duLeft) + (IF reqs[e].stage = "FULL_HASH" THEN 1 ELSE 0)
      BY <1>1 DEF DuInv, StoredIsOfSnapshot, TriedEnough
  <2>2. q.state = "PENDING" =>
            q.tries < MaxTries + (MaxDuEvents - duLeft) + (IF q.stage = "FULL_HASH" THEN 1 ELSE 0)
    <3>1. CASE reqs[e].state = "PENDING"
        BY <1>1, <1>4, <2>1, <3>1
    <3>2. CASE wk.tries < MaxTries
      <4>1. reqs[e].tries \in Nat
          BY <1>1 DEF HashRequests
      <4> QED
          BY <1>1, <1>3, <1>4, <3>2, <4>1
    <3> QED
        BY <1>4, <3>1, <3>2
  <2>3. q.stage = "FULL_HASH" => q.quick # 0
      BY <1>1, <1>4, <2>1 DEF Stages
  <2> QED
      BY <1>1, <1>4, <2>1, <2>2, <2>3 DEF Answer
<1>6. Finish([reqs EXCEPT ![wk.item] = q])
    BY <1>2 DEF GiveUp
<1> QED
    BY <1>5, <1>6, AnswerKeeps

\* A signature or a hash comes in.
LEMMA SuccessKeeps ==
    ASSUME DuInv, ReuseQuick \/ CompleteItem
    PROVE  DuInv'
<1> DEFINE e == wk.item
<1>1. /\ e \in Entries /\ wk.stage = reqs[e].stage /\ wk.stage \in Stages /\ reqs[e] \in HashRequests
      /\ reqs[e].state \in {"PENDING", "RUNNING"} /\ e \in Present
      /\ reqs \in [Entries -> HashRequests] /\ wk.pc \in {"claimed", "cached"}
    BY CandidatesAreFiles DEF DuInv, WorkerKnows, DuTypes, WorkerForms, ReuseQuick, CompleteItem
<1>2. /\ UNCHANGED <<orig, disk, changed, stable, backup, cached, known, groups, members, jammed, duLeft>>
      /\ duLeft' \in 0..MaxDuEvents /\ duLeft' <= duLeft
  <2>1. UNCHANGED <<orig, disk, changed, stable, backup, cached, known, groups, members, jammed, duLeft>>
      BY DEF ReuseQuick, CompleteItem, NothingElse, sources
  <2>2. duLeft \in 0..MaxDuEvents /\ MaxDuEvents \in Nat
      BY DuplicatesAssumption DEF DuInv, DuTypes
  <2> QED
      BY <2>1, <2>2
<1>3. Quick(orig[e]) \in DuContents /\ Quick(orig[e]) # 0 /\ Quick(orig[e]) \in Bytes
    BY <1>1, CandidatesAreFiles, EntriesFinite DEF DuInv
<1>4. Answer(reqs[e]) \/ reqs[e].state = "RUNNING"
    BY <1>1 DEF Answer, DuInv, StoredIsOfSnapshot, TriedEnough
<1>5. ASSUME wk.stage = "QUICK_SIGNATURE", Finish(CompleteQuick(e, Quick(orig[e]))) PROVE DuInv'
  <2> DEFINE done == [reqs[e] EXCEPT !.state = "SUCCEEDED", !.quick = Quick(orig[e])]
             q == IF reqs[e].state = "RUNNING" THEN done ELSE reqs[e]
  <2>1. CompleteQuick(e, Quick(orig[e])) = [reqs EXCEPT ![e] = q]
      BY <1>1, <1>5 DEF CompleteQuick
  <2>2. Answer(q)
    <3>1. CASE reqs[e].state # "RUNNING"
        BY <1>4, <3>1
    <3>2. CASE reqs[e].state = "RUNNING"
        BY <1>1, <1>3, <1>5, <3>2 DEF Answer, HashRequests
    <3> QED
        BY <3>1, <3>2
  <2> HIDE DEF q
  <2>3. Finish([reqs EXCEPT ![wk.item] = q])
      BY <1>5, <2>1
  <2> QED
      BY <1>1, <1>2, <2>2, <2>3, AnswerKeeps
<1>6. ASSUME wk.stage = "FULL_HASH", Finish(CompleteFull(e)), wk.pc = "cached" PROVE DuInv'
  <2> DEFINE done == [reqs[e] EXCEPT !.state = "SUCCEEDED"]
             q == IF reqs[e].state = "RUNNING" THEN done ELSE reqs[e]
  <2>1. CompleteFull(e) = [reqs EXCEPT ![e] = q]
      BY <1>1, <1>6 DEF CompleteFull
  <2>2. Answer(q)
    <3>1. CASE reqs[e].state # "RUNNING"
        BY <1>4, <3>1
    <3>2. CASE reqs[e].state = "RUNNING"
      <4>1. known[e].full = orig[e] /\ reqs[e].quick # 0 /\ (reqs[e].quick # 0 => reqs[e].quick = Quick(orig[e]))
          BY <1>1, <1>6 DEF DuInv, WorkerKnows, TriedEnough, StoredIsOfSnapshot
      <4> QED
          BY <1>1, <1>6, <3>2, <4>1 DEF Answer, HashRequests
    <3> QED
        BY <3>1, <3>2
  <2> HIDE DEF q
  <2>3. Finish([reqs EXCEPT ![wk.item] = q])
      BY <1>6, <2>1
  <2> QED
      BY <1>1, <1>2, <2>2, <2>3, AnswerKeeps
<1>7. CASE ReuseQuick
  <2>1. cached[e].quick = Quick(orig[e])
      BY <1>1, <1>7 DEF ReuseQuick, Reusable, DuInv, StoredIsOfSnapshot
  <2> QED
      BY <1>5, <1>7, <2>1 DEF ReuseQuick
<1>8. CASE CompleteItem
  <2>1. wk.pc = "cached" /\ wk.got = orig[e]
      BY <1>8 DEF CompleteItem, DuInv, WorkerKnows
  <2> QED
      BY <1>1, <1>5, <1>6, <1>8, <2>1 DEF CompleteItem, Stages
<1> QED
    BY <1>7, <1>8

\* What was read is stored, or cannot be.
LEMMA StoringKeeps ==
    ASSUME DuInv, KeepEvidence \/ SaveToCache \/ IdentityChanged \/ ReadFails
    PROVE  DuInv'
<1>1. /\ wk.pc \in {"claimed", "read", "kept"}
      /\ UNCHANGED <<orig, disk, changed, stable, backup, groups, members, jammed>>
    BY DEF KeepEvidence, SaveToCache, IdentityChanged, ReadFails, NothingElse, sources
<1>2. /\ wk.item \in DuCandidates /\ wk.item \in Entries /\ wk.item \in Present /\ wk.stage \in Stages
      /\ wk \in WorkerForms /\ wk.stage = reqs[wk.item].stage
      /\ (wk.pc \in {"read", "kept"} /\ wk.same) => wk.got = orig[wk.item]
    BY <1>1, CandidatesAreFiles DEF DuInv, WorkerKnows, DuTypes, WorkerForms
<1>3. duLeft \in 0..MaxDuEvents /\ MaxDuEvents \in Nat
    BY DuplicatesAssumption DEF DuInv, DuTypes
<1>4. dups.state # "NONE"
    BY <1>1 DEF DuInv, StagesInOrder
<1>5. ASSUME GiveUp, UNCHANGED <<cached, known>>, duLeft' \in 0..MaxDuEvents, duLeft' <= duLeft PROVE DuInv'
    BY <1>1, <1>5, GivingUpKeeps
<1>6. CASE IdentityChanged
    BY <1>3, <1>5, <1>6 DEF IdentityChanged, NothingElse
<1>7. CASE ReadFails
  <2>1. duLeft' \in 0..MaxDuEvents /\ duLeft' <= duLeft
      BY <1>3, <1>7 DEF ReadFails, Spend
  <2> QED
      BY <1>5, <1>7, <2>1 DEF ReadFails
<1>8. DuCandidates' = DuCandidates /\ Present' = Present
    BY <1>1, FilesStay
<1>9. CASE KeepEvidence
  <2>1. CASE Contradicts(wk.item)
      BY <1>3, <1>5, <1>9, <2>1 DEF KeepEvidence
  <2>2. CASE ~Contradicts(wk.item)
    <3>1. /\ known' = [f \in Entries |-> IF f \in SameObject(wk.item) THEN [full |-> wk.got, same |-> wk.same] ELSE known[f]]
          /\ wk' = [wk EXCEPT !.pc = "kept"] /\ UNCHANGED <<dups, reqs, cached, duLeft>>
          /\ wk.same /\ wk.pc = "read" /\ wk.stage = "FULL_HASH"
        BY <1>9, <2>2 DEF KeepEvidence, SnapshotIdentity
    <3>2. wk.got = orig[wk.item] /\ wk.got \in Bytes /\ wk.same \in BOOLEAN
        BY <1>2, <3>1 DEF WorkerForms
    <3>3. \A f \in SameObject(wk.item) : f \in Present /\ f \in Entries /\ orig[f] = orig[wk.item]
        BY <1>2, CandidatesAreFiles DEF DuInv
    <3>4. \A f \in SameObject(wk.item) : known[f].full # 0 => known[f] = [full |-> wk.got, same |-> wk.same]
        BY <2>2 DEF Contradicts
    <3>5. known' \in [Entries -> HashProofs] /\ \A e \in Entries : known[e].full # 0 => known'[e].full = known[e].full
      <4>1. known \in [Entries -> HashProofs] /\ [full |-> wk.got, same |-> wk.same] \in HashProofs
          BY <3>2 DEF HashProofs, DuInv, DuTypes
      <4>2. \A e \in Entries : known'[e] = IF e \in SameObject(wk.item) THEN [full |-> wk.got, same |-> wk.same] ELSE known[e]
          BY <3>1
      <4>3. known' \in [Entries -> HashProofs]
          BY <3>1, <4>1
      <4> QED
          BY <3>4, <4>2, <4>3
    <3>6. wk' \in WorkerForms /\ wk'.pc = "kept" /\ wk'.item = wk.item /\ wk'.stage = wk.stage /\ wk'.tries = wk.tries
          /\ wk'.got = wk.got /\ wk'.same = wk.same
        BY <1>2, <3>1 DEF WorkerForms
    <3>7. DuTypes'
      <4>1. CacheRows' = CacheRows
          BY <3>1 DEF CacheRows
      <4> QED
          BY <1>1, <1>8, <3>1, <3>5, <3>6, <4>1 DEF DuInv, DuTypes
    <3>8. StoredIsOfSnapshot'
      <4>1. \A e \in Entries : /\ (known'[e].full # 0 /\ known'[e].same) => known'[e].full = orig[e]
                               /\ known'[e].full # 0 => e \in Present
        <5> SUFFICES ASSUME NEW e \in Entries
                     PROVE  /\ (known'[e].full # 0 /\ known'[e].same) => known'[e].full = orig[e]
                            /\ known'[e].full # 0 => e \in Present
            OBVIOUS
        <5>1. CASE e \in SameObject(wk.item)
            BY <3>1, <3>2, <3>3, <5>1
        <5>2. CASE e \notin SameObject(wk.item)
            BY <3>1, <5>2 DEF DuInv, StoredIsOfSnapshot
        <5> QED
            BY <5>1, <5>2
      <4> QED
          BY <1>1, <1>8, <3>1, <4>1 DEF DuInv, StoredIsOfSnapshot
    <3>9. WorkerKnows'
      <4>1. wk.item \in SameObject(wk.item)
          BY <1>2, CandidatesAreFiles DEF DuInv
      <4>2. known'[wk.item].full = orig[wk.item]
          BY <1>2, <3>1, <3>2, <4>1
      <4> QED
          BY <1>1, <1>8, <3>1, <3>2, <3>6, <4>2 DEF DuInv, WorkerKnows
    <3>10. MembersAreKnown' /\ RowsAreCounted'
        BY <1>1, <3>5, GroupsStay DEF DuInv
    <3> QED
        BY <1>1, <1>3, <1>4, <3>1, <3>5, <3>6, <3>7, <3>8, <3>9, <3>10, ScanIsLeft
  <2> QED
      BY <2>1, <2>2
<1>10. CASE SaveToCache
  <2>1. CASE CacheFull(wk.item) \/ CacheConflict(wk.item, NewRecord)
      BY <1>3, <1>5, <1>10, <2>1 DEF SaveToCache
  <2>2. CASE ~CacheFull(wk.item) /\ ~CacheConflict(wk.item, NewRecord)
    <3>1. /\ PersistCache(wk.item, NewRecord) /\ wk' = [wk EXCEPT !.pc = "cached"]
          /\ UNCHANGED <<dups, reqs, known, duLeft>>
          /\ wk.same /\ (wk.pc = "kept" \/ (wk.pc = "read" /\ wk.stage = "QUICK_SIGNATURE"))
        BY <1>10, <2>2 DEF SaveToCache, SnapshotIdentity, DuInv, WorkerKnows
    <3>2. wk.got = orig[wk.item] /\ wk.got \in DuContents
        BY <1>2, <3>1, CandidatesAreFiles DEF DuInv
    <3>3. /\ NewRecord \in CacheRecords
          /\ NewRecord.quick # 0 => NewRecord.quick = Quick(orig[wk.item])
          /\ NewRecord.full # 0 => NewRecord.full = orig[wk.item]
      <4>1. reqs[wk.item] \in HashRequests /\ (reqs[wk.item].quick # 0 => reqs[wk.item].quick = Quick(orig[wk.item]))
          BY <1>2 DEF DuInv, DuTypes, StoredIsOfSnapshot
      <4>2. reqs[wk.item].quick \in Bytes /\ wk.got \in Bytes /\ Quick(wk.got) \in Bytes /\ 0 \in Bytes
          BY <4>1, <3>2, EntriesFinite DEF HashRequests, Quick
      <4>3. CASE wk.stage = "QUICK_SIGNATURE"
          BY <3>2, <4>2, <4>3 DEF NewRecord, CacheRecords
      <4>4. CASE wk.stage # "QUICK_SIGNATURE"
          BY <3>2, <4>1, <4>2, <4>4 DEF NewRecord, CacheRecords
      <4> QED
          BY <4>3, <4>4
    <3>4. PICK rec \in CacheRecords : rec = NewRecord
        BY <3>3
    <3>5. /\ cached \in [Entries -> CacheRecords] /\ cached' \in [Entries -> CacheRecords]
          /\ \A e \in Entries : cached'[e] = cached[e] \/ (e = wk.item /\ cached'[e] = rec)
        BY <1>2, <3>1, <3>4 DEF PersistCache, DuInv, DuTypes
    <3>6. wk' \in WorkerForms /\ wk'.pc = "cached" /\ wk'.item = wk.item /\ wk'.stage = wk.stage /\ wk'.tries = wk.tries
          /\ wk'.got = wk.got /\ wk'.same = wk.same
        BY <1>2, <3>1 DEF WorkerForms
    <3>7. Cardinality(CacheRows') <= MaxCacheRows
      <4>1. CacheRows \in SUBSET Entries /\ Cardinality(CacheRows) \in Nat /\ Cardinality(CacheRows) <= MaxCacheRows
            /\ IsFiniteSet(CacheRows)
          BY EntriesFinite DEF CacheRows, DuInv, DuTypes
      <4>2. CASE cached[wk.item].kind = "NONE"
        <5>1. Cardinality(CacheRows) < MaxCacheRows
            BY <2>2, <4>1, <4>2, DuplicatesAssumption DEF CacheFull
        <5>2. CacheRows' \in SUBSET (CacheRows \cup {wk.item}) /\ CacheRows \cup {wk.item} \in SUBSET Entries
            BY <1>2, <3>5, <4>1 DEF CacheRows
        <5>3. Cardinality(CacheRows \cup {wk.item}) <= Cardinality(CacheRows) + 1
          <6>1. Cardinality(CacheRows \cup {wk.item}) =
                    IF wk.item \in CacheRows THEN Cardinality(CacheRows) ELSE Cardinality(CacheRows) + 1
              BY <4>1, FS_AddElement
          <6> QED
              BY <4>1, <6>1
        <5>4. /\ Cardinality(CacheRows') <= Cardinality(CacheRows \cup {wk.item})
              /\ Cardinality(CacheRows') \in Nat /\ Cardinality(CacheRows \cup {wk.item}) \in Nat
          <6>1. CacheRows' \in SUBSET Entries
              BY <5>2
          <6> QED
              BY <5>2, <6>1, EntriesFinite
        <5> QED
            BY <4>1, <5>1, <5>3, <5>4, DuplicatesAssumption
      <4>3. CASE cached[wk.item].kind # "NONE"
        <5>1. CacheRows' \in SUBSET CacheRows
            BY <1>2, <3>5, <4>3 DEF CacheRows
        <5>2. Cardinality(CacheRows') <= Cardinality(CacheRows) /\ Cardinality(CacheRows') \in Nat
          <6>1. CacheRows' \in SUBSET Entries
              BY <4>1, <5>1
          <6> QED
              BY <4>1, <5>1, <6>1, EntriesFinite
        <5> QED
            BY <4>1, <5>2, DuplicatesAssumption
      <4> QED
          BY <4>2, <4>3
    <3>8. DuTypes'
        BY <1>1, <1>8, <3>1, <3>5, <3>6, <3>7 DEF DuInv, DuTypes
    <3>9. StoredIsOfSnapshot'
      <4>1. \A e \in Entries : /\ cached'[e].quick # 0 => cached'[e].quick = Quick(orig[e])
                               /\ cached'[e].full # 0 => cached'[e].full = orig[e]
          BY <3>3, <3>4, <3>5 DEF DuInv, StoredIsOfSnapshot
      <4> QED
          BY <1>1, <1>8, <3>1, <4>1 DEF DuInv, StoredIsOfSnapshot
    <3>10. WorkerKnows'
        BY <1>1, <1>8, <3>1, <3>2, <3>6 DEF DuInv, WorkerKnows
    <3>11. MembersAreKnown' /\ RowsAreCounted'
        BY <1>1, <3>1, GroupsStay DEF DuInv
    <3> QED
        BY <1>1, <1>3, <1>4, <3>1, <3>6, <3>8, <3>9, <3>10, <3>11, ScanIsLeft
  <2> QED
      BY <2>1, <2>2
<1> QED
    BY <1>6, <1>7, <1>9, <1>10

\* The thread takes the next file of its stage.
LEMMA ClaimKeeps ==
    ASSUME DuInv, ClaimNext
    PROVE  DuInv'
<1> DEFINE e == Min(Pending(dups.stage))
<1>1. /\ e \in Entries /\ reqs[e].state = "PENDING" /\ reqs[e].stage = dups.stage
      /\ dups.stage \in {"QUICK_SIGNATURE", "FULL_HASH"}
  <2>1. Pending(dups.stage) \in SUBSET Entries /\ Pending(dups.stage) # {} /\ dups.stage \in {"QUICK_SIGNATURE", "FULL_HASH"}
      BY DEF ClaimNext, Pending, With
  <2>2. e \in Pending(dups.stage)
      BY <2>1, EndsOfEntries
  <2> QED
      BY <2>1, <2>2 DEF Pending, With
<1>2. /\ reqs' = [reqs EXCEPT ![e].state = "RUNNING", ![e].tries = @ + 1]
      /\ wk' = [wk EXCEPT !.pc = "claimed", !.item = e, !.stage = dups.stage, !.tries = reqs[e].tries + 1, !.n = @ + 1]
      /\ UNCHANGED <<orig, disk, changed, stable, backup, dups, cached, known, groups, members, duLeft, jammed>>
      /\ wk.pc = "loop" /\ wk.n < WorkBatch
    BY DEF ClaimNext, Working, sources
<1> HIDE DEF e
<1>3. /\ reqs \in [Entries -> HashRequests] /\ wk \in WorkerForms /\ dups \in ScanRows
      /\ WorkBatch \in Nat /\ MaxTries \in Nat /\ MaxDuEvents \in Nat /\ duLeft \in 0..MaxDuEvents
    BY DuplicatesAssumption DEF DuInv, DuTypes
<1>4. PICK q : q = [reqs[e] EXCEPT !.state = "RUNNING", !.tries = @ + 1]
    OBVIOUS
<1>5. /\ q \in HashRequests /\ q.state = "RUNNING" /\ q.stage = reqs[e].stage /\ q.quick = reqs[e].quick
      /\ q.tries = reqs[e].tries + 1 /\ reqs[e].tries \in Nat
  <2>1. PICK x \in HashRequests : x = reqs[e]
      BY <1>1, <1>3
  <2>2. x.tries \in Nat /\ x.tries + 1 \in Nat
      BY DEF HashRequests
  <2>3. q = [x EXCEPT !.state = "RUNNING", !.tries = x.tries + 1]
      BY <1>4, <2>1
  <2>4. q \in HashRequests /\ q.state = "RUNNING" /\ q.stage = x.stage /\ q.quick = x.quick /\ q.tries = x.tries + 1
      BY <2>2, <2>3 DEF HashRequests
  <2> QED
      BY <2>1, <2>2, <2>4
<1>6. reqs'[e] = q /\ (\A x \in Entries : x # e => reqs'[x] = reqs[x]) /\ reqs' \in [Entries -> HashRequests]
  <2>1. reqs' = [reqs EXCEPT ![e] = q]
      BY <1>1, <1>2, <1>3, <1>4
  <2> QED
      BY <1>1, <1>3, <1>5, <2>1
<1>7. /\ wk' \in WorkerForms /\ wk'.pc = "claimed" /\ wk'.item = e /\ wk'.stage = dups.stage
      /\ wk'.tries = reqs[e].tries + 1
  <2>1. PICK t \in Nat : t = reqs[e].tries + 1
      BY <1>5
  <2>2. PICK n \in 0..WorkBatch : n = wk.n + 1
      BY <1>2, <1>3 DEF WorkerForms
  <2>3. PICK i \in {0} \cup Entries : i = e
      BY <1>1
  <2>4. PICK sg \in Stages : sg = dups.stage
      BY <1>1 DEF Stages
  <2>5. wk' = [wk EXCEPT !.pc = "claimed", !.item = i, !.stage = sg, !.tries = t, !.n = n]
      BY <1>2, <2>1, <2>2, <2>3, <2>4
  <2> QED
      BY <1>3, <2>1, <2>3, <2>4, <2>5 DEF WorkerForms
<1>8. RequestsKept(reqs')
  <2>1. RequestsKept(reqs)
      BY RequestsAreKept
  <2>2. q.tries <= MaxTries + (MaxDuEvents - duLeft) + (IF q.stage = "FULL_HASH" THEN 1 ELSE 0)
    <3>1. reqs[e].tries < MaxTries + (MaxDuEvents - duLeft) + (IF reqs[e].stage = "FULL_HASH" THEN 1 ELSE 0)
        BY <1>1, <2>1 DEF RequestsKept
    <3> QED
        BY <1>3, <1>5, <3>1
  <2>3. /\ q.quick # 0 => q.quick = Quick(orig[e])
        /\ e \in DuCandidates /\ q.stage # "DONE" /\ (q.stage = "FULL_HASH" => q.quick # 0)
      BY <1>1, <1>5, <2>1 DEF RequestsKept
  <2> QED
      BY <1>1, <1>5, <1>6, <2>1, <2>2, <2>3 DEF RequestsKept
<1>9. StatusLoads' /\ dups' \in ScanRows /\ dups.state # "NONE" /\ duLeft' <= duLeft
    BY <1>2, <1>3 DEF DuInv, StatusLoads, StagesInOrder
<1>10. DuCandidates' = DuCandidates /\ (\A a, b : Alike(a, b)' <=> Alike(a, b)) /\ DuCandidates \subseteq Entries
    BY <1>2, FilesStay, CandidatesAreFiles DEF DuInv
<1>11. StagesInOrder'
  <2>1. \A a \in Entries : reqs'[a].stage = reqs[a].stage /\ (Lost(a) => Lost(a)')
        /\ (reqs[a].state # "NONE" => reqs'[a].state # "NONE")
        /\ (reqs[a].stage = "DONE" => reqs'[a].state = reqs[a].state)
      BY <1>1, <1>5, <1>6 DEF Lost
  <2>2. \A a \in DuCandidates : a \in Entries
      BY <1>10
  <2>3. CASE dups.stage = "QUICK_SIGNATURE"
    <3>1. /\ \A a \in Entries : reqs[a].stage # "FULL_HASH"
          /\ \A a \in Entries : reqs[a].stage = "DONE" => reqs[a].state = "FAILED"
          /\ \A a \in DuCandidates : a <= dups.cursor => reqs[a].state # "NONE"
          /\ dups.full = 0 /\ dups.cand = Cardinality(DuCandidates)
        BY <1>9, <2>3 DEF DuInv, StagesInOrder
    <3>2. /\ \A a \in Entries : reqs'[a].stage # "FULL_HASH"
          /\ \A a \in Entries : reqs'[a].stage = "DONE" => reqs'[a].state = "FAILED"
          /\ \A a \in DuCandidates : a <= dups.cursor => reqs'[a].state # "NONE"
        BY <2>1, <2>2, <3>1
    <3> QED
        BY <1>2, <1>9, <1>10, <2>3, <3>1, <3>2 DEF StagesInOrder
  <2>4. CASE dups.stage = "FULL_HASH"
    <3>1. \A a, b \in DuCandidates : Alike(a, b) => reqs'[a].stage = "FULL_HASH" \/ Lost(a)' \/ Lost(b)'
        BY <2>1, <2>2, <2>4 DEF DuInv, StagesInOrder
    <3>2. \A a \in DuCandidates : reqs'[a].stage \in {"FULL_HASH", "DONE"}
        BY <2>1, <2>2, <2>4 DEF DuInv, StagesInOrder
    <3> QED
        BY <1>2, <1>9, <1>10, <2>4, <3>1, <3>2 DEF DuInv, StagesInOrder
  <2> QED
      BY <1>1, <2>3, <2>4
<1>12. WorkerKnows'
  <2>1. e \in DuCandidates
      BY <1>1 DEF DuInv, TriedEnough
  <2> QED
      BY <1>1, <1>2, <1>5, <1>6, <1>7, <1>10, <2>1 DEF WorkerKnows
<1>13. NoneMissed'
    BY <1>1, <1>2, <1>7, <1>9 DEF DuInv, NoneMissed, StatusLoads
<1> QED
    BY <1>2, <1>3, <1>7, <1>8, <1>9, <1>11, <1>12, <1>13, ThreadWrites DEF DuInv, DuTypes

\* The next candidates get their requests, and the cursor moves behind them.
LEMMA EnqueueKeeps ==
    ASSUME DuInv, EnqueueQuick
    PROVE  DuInv'
<1> DEFINE batch == {e \in Rest : Cardinality({f \in Rest : f < e}) < WorkBatch}
           listed == dups.listed \/ Cardinality({e \in Entries : reqs'[e].state # "NONE"}) >= dups.cand
           first == [NoRequest EXCEPT !.state = "PENDING"]
<1>1. /\ reqs' = [e \in Entries |-> IF e \in batch /\ reqs[e].state = "NONE" THEN first ELSE reqs[e]]
      /\ dups' = [dups EXCEPT !.cursor = Max(batch), !.listed = listed]
      /\ UNCHANGED <<orig, disk, changed, stable, backup, wk, cached, known, groups, members, duLeft, jammed>>
      /\ wk.pc = "loop" /\ dups.stage = "QUICK_SIGNATURE" /\ Rest # {}
    BY DEF EnqueueQuick, Working, sources
<1>2. /\ reqs \in [Entries -> HashRequests] /\ wk \in WorkerForms /\ dups \in ScanRows
      /\ WorkBatch \in Nat \ {0} /\ MaxTries \in Nat \ {0} /\ MaxDuEvents \in Nat /\ duLeft \in 0..MaxDuEvents
    BY DuplicatesAssumption DEF DuInv, DuTypes
<1>3. DuCandidates' = DuCandidates /\ (\A a, b : Alike(a, b)' <=> Alike(a, b)) /\ DuCandidates \subseteq Entries
      /\ Rest \in SUBSET Entries /\ Rest \subseteq DuCandidates
    BY <1>1, FilesStay, CandidatesAreFiles DEF DuInv, Rest
<1>4. batch \in SUBSET Rest /\ batch # {} /\ \A e \in Rest : e <= Max(batch) => e \in batch
  <2>1. Min(Rest) \in Rest /\ \A y \in Rest : Min(Rest) <= y
      BY <1>1, <1>3, EndsOfEntries
  <2>2. {f \in Rest : f < Min(Rest)} = {}
    <3>1. \A f \in Entries : f \in Int
        BY DEF Entries
    <3>2. Min(Rest) \in Int /\ \A f \in Rest : f \in Int
        BY <1>3, <2>1, <3>1
    <3>3. \A f \in Rest : ~(f < Min(Rest))
        BY <2>1, <3>2
    <3> QED
        BY <3>3
  <2>3. Min(Rest) \in batch
      BY <1>2, <2>1, <2>2, FS_EmptySet
  <2>4. Max(batch) \in batch
      BY <1>3, <2>3, EndsOfEntries
  <2>5. ASSUME NEW e \in Rest, e <= Max(batch) PROVE e \in batch
    <3> DEFINE mx == Max(batch)
               before(x) == {f \in Rest : f < x}
    <3>1. mx \in Rest /\ Cardinality(before(mx)) < WorkBatch
        BY <2>4
    <3> HIDE DEF mx
    <3>2. before(e) \in SUBSET before(mx) /\ before(mx) \in SUBSET Entries /\ before(e) \in SUBSET Entries
      <4>1. \A f \in Rest : f \in Int
        <5>1. \A f \in Entries : f \in Int
            BY DEF Entries
        <5> QED
            BY <1>3, <5>1
      <4>2. e <= mx
          BY <2>5 DEF mx
      <4> QED
          BY <1>3, <3>1, <4>1, <4>2
    <3>3. Cardinality(before(e)) <= Cardinality(before(mx)) /\ Cardinality(before(e)) \in Nat
          /\ Cardinality(before(mx)) \in Nat
        BY <3>2, EntriesFinite
    <3>4. Cardinality(before(e)) < WorkBatch
        BY <1>2, <3>1, <3>3
    <3> QED
        BY <3>4
  <2> QED
      BY <2>3, <2>5
<1>5. Max(batch) \in Entries /\ listed \in BOOLEAN
  <2>1. Max(batch) \in batch
    <3> HIDE DEF batch
    <3> QED
        BY <1>3, <1>4, EndsOfEntries
  <2> QED
      BY <1>3, <1>4, <2>1
<1>6. first \in HashRequests /\ first.state = "PENDING" /\ first.stage = "QUICK_SIGNATURE" /\ first.tries = 0
      /\ first.quick = 0
    BY EntriesFinite DEF NoRequest, HashRequests
<1> HIDE DEF batch, listed, first
<1>7. /\ dups' \in ScanRows /\ dups'.cursor = Max(batch) /\ dups'.state = dups.state /\ dups'.stage = dups.stage
      /\ dups'.cand = dups.cand /\ dups'.quick = dups.quick /\ dups'.full = dups.full
      /\ dups'.fullDone = dups.fullDone /\ dups'.issues = dups.issues
    BY <1>1, <1>2, <1>5 DEF ScanRows
<1>8. \A e \in Entries : reqs'[e] = reqs[e] \/ (e \in DuCandidates /\ reqs[e].state = "NONE" /\ reqs'[e] = first)
    BY <1>1, <1>3, <1>4
<1>9. RequestsKept(reqs')
  <2>1. RequestsKept(reqs)
      BY RequestsAreKept
  <2>2. reqs' \in [Entries -> HashRequests]
      BY <1>1, <1>2, <1>6
  <2>3. 0 < MaxTries + (MaxDuEvents - duLeft) + 0
      BY <1>2
  <2>4. \A e \in Entries : reqs'[e] = first => first.tries = 0 /\ first.state = "PENDING" /\ first.stage = "QUICK_SIGNATURE"
                                            /\ first.quick = 0
      BY <1>6
  <2> SUFFICES ASSUME NEW e \in Entries
               PROVE  /\ reqs'[e].quick # 0 => reqs'[e].quick = Quick(orig[e])
                      /\ reqs'[e].state # "NONE" => e \in DuCandidates
                      /\ reqs'[e].state = "NONE" => reqs'[e] = NoRequest
                      /\ reqs'[e].tries <= MaxTries + (MaxDuEvents - duLeft) + (IF reqs'[e].stage = "FULL_HASH" THEN 1 ELSE 0)
                      /\ reqs'[e].state = "PENDING" =>
                            reqs'[e].tries < MaxTries + (MaxDuEvents - duLeft) + (IF reqs'[e].stage = "FULL_HASH" THEN 1 ELSE 0)
                      /\ reqs'[e].state = "SUCCEEDED" \/ reqs'[e].stage = "FULL_HASH" => reqs'[e].quick # 0
                      /\ (reqs'[e].stage = "FULL_HASH" /\ reqs'[e].state = "SUCCEEDED") => known[e].full = orig[e]
                      /\ reqs'[e].stage = "DONE" => reqs'[e].state \in {"SUCCEEDED", "FAILED"}
                      /\ reqs'[e].state = "FAILED" => reqs'[e].stage # "QUICK_SIGNATURE"
      BY <2>2 DEF RequestsKept
  <2>5. CASE reqs'[e] = reqs[e]
      BY <2>1, <2>5 DEF RequestsKept
  <2>6. CASE e \in DuCandidates /\ reqs'[e] = first
    <3>1. 0 <= MaxTries + (MaxDuEvents - duLeft) + 0
        BY <1>2
    <3> QED
        BY <1>6, <2>3, <2>6, <3>1
  <2> QED
      BY <1>8, <2>5, <2>6
<1>10. StatusLoads' /\ dups.state # "NONE"
    BY <1>1, <1>7 DEF DuInv, StatusLoads, StagesInOrder
<1>11. StagesInOrder'
  <2>1. \A a \in DuCandidates : a <= Max(batch) => reqs'[a].state # "NONE"
    <3> SUFFICES ASSUME NEW a \in DuCandidates, a <= Max(batch) PROVE reqs'[a].state # "NONE"
        OBVIOUS
    <3>1. CASE a <= dups.cursor
        BY <1>1, <1>3, <1>6, <1>8, <3>1 DEF DuInv, StagesInOrder
    <3>2. CASE ~(a <= dups.cursor)
      <4>1. a > dups.cursor
        <5>1. \A x \in {0} \cup Entries : x \in Int
            BY DEF Entries
        <5>2. a \in Int /\ dups.cursor \in Int
            BY <1>2, <1>3, <5>1 DEF ScanRows
        <5> QED
            BY <3>2, <5>2
      <4>2. a \in batch
          BY <1>4, <4>1 DEF Rest
      <4> QED
          BY <1>1, <1>3, <1>6, <4>2
    <3> QED
        BY <3>1, <3>2
  <2> QED
      BY <1>1, <1>3, <1>6, <1>7, <1>8, <1>10, <2>1 DEF DuInv, StagesInOrder
<1>12. WorkerKnows' /\ NoneMissed'
    BY <1>1, <1>7 DEF DuInv, WorkerKnows, NoneMissed, StatusLoads
<1> QED
    BY <1>1, <1>2, <1>7, <1>9, <1>10, <1>11, <1>12, ThreadWrites DEF DuInv, DuTypes

\* Every file has its signature or was given up.
LEMMA FullHashKeeps ==
    ASSUME DuInv, AdvanceToFullHash
    PROVE  DuInv'
<1>1. /\ dups.stage = "QUICK_SIGNATURE" /\ wk.pc = "loop" /\ Rest = {}
      /\ UNCHANGED <<orig, disk, changed, stable, backup, cached, known, groups, members, duLeft, jammed>>
    BY DEF AdvanceToFullHash, Working, sources
<1>2. /\ dups \in ScanRows /\ wk \in WorkerForms /\ reqs \in [Entries -> HashRequests]
      /\ MaxTries \in Nat /\ MaxDuEvents \in Nat /\ duLeft \in 0..MaxDuEvents /\ jammed' \in BOOLEAN
    BY <1>1, DuplicatesAssumption DEF DuInv, DuTypes
<1>3. /\ dups.state # "NONE" /\ DuCandidates' = DuCandidates /\ DuCandidates \in SUBSET Entries
      /\ (\A a, b : Alike(a, b)' <=> Alike(a, b))
    BY <1>1, FilesStay, CandidatesAreFiles DEF DuInv, StagesInOrder
<1>4. /\ \A e \in Entries : reqs[e].stage # "FULL_HASH"
      /\ \A e \in Entries : reqs[e].stage = "DONE" => reqs[e].state = "FAILED"
      /\ \A e \in DuCandidates : e <= dups.cursor => reqs[e].state # "NONE"
      /\ dups.full = 0 /\ dups.cand = Cardinality(DuCandidates)
    BY <1>1, <1>3 DEF DuInv, StagesInOrder
<1>5. RequestsKept(reqs)
    BY RequestsAreKept
<1>6. CASE ~QuickStageComplete
  <2>1. wk' = IdleWorker /\ dups' = [dups EXCEPT !.listed = TRUE] /\ reqs' = reqs
      BY <1>6 DEF AdvanceToFullHash
  <2>2. wk' \in WorkerForms /\ wk'.pc = "idle"
      BY <2>1, FreshWorker
  <2>3. /\ dups' \in ScanRows /\ dups'.state = dups.state /\ dups'.stage = dups.stage /\ dups'.cursor = dups.cursor
        /\ dups'.cand = dups.cand /\ dups'.quick = dups.quick /\ dups'.full = dups.full
        /\ dups'.fullDone = dups.fullDone /\ dups'.issues = dups.issues
      BY <1>2, <2>1 DEF ScanRows
  <2>4. StatusLoads' /\ WorkerKnows' /\ NoneMissed'
      BY <1>1, <2>2, <2>3 DEF DuInv, StatusLoads, WorkerKnows, NoneMissed
  <2>5. StagesInOrder'
      BY <1>1, <1>3, <1>4, <2>1, <2>3 DEF StagesInOrder, DuInv, StatusLoads
  <2>6. RequestsKept(reqs')
      BY <1>5, <2>1
  <2>7. duLeft' \in 0..MaxDuEvents /\ duLeft' <= duLeft
      BY <1>1, <1>2
  <2> QED
      BY <1>1, <1>2, <2>2, <2>3, <2>4, <2>5, <2>6, <2>7, ThreadWrites
<1>7. CASE QuickStageComplete
  <2> DEFINE twins == QuickTwins(reqs)
             on(e) == [reqs[e] EXCEPT !.stage = "FULL_HASH", !.state = "PENDING"]
             off(e) == [reqs[e] EXCEPT !.stage = "DONE"]
  <2>1. /\ reqs' = [e \in Entries |-> IF e \in twins THEN on(e) ELSE IF reqs[e].state = "SUCCEEDED" THEN off(e) ELSE reqs[e]]
        /\ dups' = [dups EXCEPT !.stage = "FULL_HASH", !.listed = TRUE, !.quick = dups.cand, !.full = Cardinality(twins)]
        /\ wk' = wk
      BY <1>7 DEF AdvanceToFullHash
  <2>2. /\ twins \in SUBSET DuCandidates
        /\ \A e \in twins : reqs[e].state = "SUCCEEDED" /\ reqs[e].stage = "QUICK_SIGNATURE" /\ reqs[e].quick # 0
    <3>1. \A e \in twins : e \in Entries /\ reqs[e].state = "SUCCEEDED" /\ reqs[e].stage = "QUICK_SIGNATURE" /\ reqs[e].quick # 0
        BY DEF QuickTwins
    <3> HIDE DEF twins
    <3>2. \A e \in Entries : reqs[e].state # "NONE" => e \in DuCandidates
        BY <1>5 DEF RequestsKept
    <3> QED
        BY <3>1, <3>2
  <2>3. \A e, f \in Entries : (/\ Alike(e, f) /\ reqs[e].state = "SUCCEEDED" /\ reqs[f].state = "SUCCEEDED"
                               /\ reqs[e].stage = "QUICK_SIGNATURE" /\ reqs[f].stage = "QUICK_SIGNATURE") => e \in twins
    <3> SUFFICES ASSUME NEW e \in Entries, NEW f \in Entries, Alike(e, f), reqs[e].state = "SUCCEEDED", reqs[f].state = "SUCCEEDED",
                        reqs[e].stage = "QUICK_SIGNATURE", reqs[f].stage = "QUICK_SIGNATURE"
                 PROVE  e \in twins
        OBVIOUS
    <3>1. reqs[e].quick # 0 /\ reqs[f].quick # 0 /\ reqs[e].quick = Quick(orig[e]) /\ reqs[f].quick = Quick(orig[f])
        BY <1>5 DEF RequestsKept
    <3> QED
        BY <3>1 DEF QuickTwins, Alike
  <2> HIDE DEF twins
  <2>4. twins \in SUBSET Entries /\ Cardinality(twins) \in Nat /\ Cardinality(twins) <= dups.cand
    <3>1. twins \in SUBSET Entries
        BY <1>3, <2>2
    <3> QED
        BY <1>3, <1>4, <2>2, <3>1, EntriesFinite
  <2>5. /\ dups' \in ScanRows /\ dups'.state = dups.state /\ dups'.stage = "FULL_HASH"
        /\ dups'.cand = dups.cand /\ dups'.quick = dups.cand /\ dups'.full = Cardinality(twins)
        /\ dups'.fullDone = dups.fullDone /\ dups'.issues = dups.issues
      BY <1>2, <2>1, <2>4 DEF ScanRows
  <2>6. StatusLoads'
    <3>1. dups.fullDone \in Nat /\ dups.fullDone <= dups.full /\ dups.issues <= dups.cand /\ dups.cand \in Nat
          /\ (dups.stage = "DONE" <=> dups.state = "COMPLETED")
        BY <1>2 DEF DuInv, StatusLoads, ScanRows
    <3> QED
        BY <1>1, <1>4, <2>4, <2>5, <3>1 DEF StatusLoads
  <2>7. \A e \in Entries :
           \/ e \in twins /\ reqs'[e] = on(e)
           \/ e \notin twins /\ reqs[e].state = "SUCCEEDED" /\ reqs'[e] = off(e)
           \/ reqs[e].state # "SUCCEEDED" /\ reqs'[e] = reqs[e]
      BY <2>1, <2>2
  <2>8. /\ \A e \in Entries : on(e) \in HashRequests /\ on(e).state = "PENDING" /\ on(e).stage = "FULL_HASH"
                              /\ on(e).tries = reqs[e].tries /\ on(e).quick = reqs[e].quick
        /\ \A e \in Entries : off(e) \in HashRequests /\ off(e).state = reqs[e].state /\ off(e).stage = "DONE"
                              /\ off(e).tries = reqs[e].tries /\ off(e).quick = reqs[e].quick
    <3> SUFFICES ASSUME NEW e \in Entries
                 PROVE  /\ on(e) \in HashRequests /\ on(e).state = "PENDING" /\ on(e).stage = "FULL_HASH"
                        /\ on(e).tries = reqs[e].tries /\ on(e).quick = reqs[e].quick
                        /\ off(e) \in HashRequests /\ off(e).state = reqs[e].state /\ off(e).stage = "DONE"
                        /\ off(e).tries = reqs[e].tries /\ off(e).quick = reqs[e].quick
        OBVIOUS
    <3>1. reqs[e] \in HashRequests
        BY <1>2
    <3> QED
        BY <3>1 DEF HashRequests
  <2> HIDE DEF on, off
  <2>9. RequestsKept(reqs')
    <3>1. reqs' \in [Entries -> HashRequests]
      <4>1. \A e \in Entries : reqs'[e] \in HashRequests
          BY <1>2, <2>7, <2>8
      <4>2. reqs' = [e \in Entries |-> reqs'[e]]
          BY <2>1
      <4> QED
          BY <4>1, <4>2
    <3> SUFFICES ASSUME NEW e \in Entries
                 PROVE  /\ reqs'[e].quick # 0 => reqs'[e].quick = Quick(orig[e])
                        /\ reqs'[e].state # "NONE" => e \in DuCandidates
                        /\ reqs'[e].state = "NONE" => reqs'[e] = NoRequest
                        /\ reqs'[e].tries <= MaxTries + (MaxDuEvents - duLeft) + (IF reqs'[e].stage = "FULL_HASH" THEN 1 ELSE 0)
                        /\ reqs'[e].state = "PENDING" =>
                              reqs'[e].tries < MaxTries + (MaxDuEvents - duLeft) + (IF reqs'[e].stage = "FULL_HASH" THEN 1 ELSE 0)
                        /\ reqs'[e].state = "SUCCEEDED" \/ reqs'[e].stage = "FULL_HASH" => reqs'[e].quick # 0
                        /\ (reqs'[e].stage = "FULL_HASH" /\ reqs'[e].state = "SUCCEEDED") => known[e].full = orig[e]
                        /\ reqs'[e].stage = "DONE" => reqs'[e].state \in {"SUCCEEDED", "FAILED"}
                        /\ reqs'[e].state = "FAILED" => reqs'[e].stage # "QUICK_SIGNATURE"
        BY <3>1 DEF RequestsKept
    <3>2. reqs[e].tries <= MaxTries + (MaxDuEvents - duLeft) + 0 /\ reqs[e].tries \in Nat
        BY <1>2, <1>4, <1>5 DEF RequestsKept, HashRequests
    <3>3. CASE e \in twins /\ reqs'[e] = on(e)
      <4>1. reqs[e].tries < MaxTries + (MaxDuEvents - duLeft) + 1
          BY <1>2, <3>2
      <4> QED
          BY <1>2, <1>5, <2>2, <2>8, <3>2, <3>3, <4>1 DEF RequestsKept
    <3>4. CASE reqs[e].state = "SUCCEEDED" /\ reqs'[e] = off(e)
        BY <1>5, <2>8, <3>2, <3>4 DEF RequestsKept
    <3>5. CASE reqs'[e] = reqs[e]
        BY <1>5, <3>5 DEF RequestsKept
    <3> QED
        BY <2>7, <3>3, <3>4, <3>5
  <2>10. \A e \in DuCandidates : /\ reqs[e].stage \in {"QUICK_SIGNATURE", "DONE"}
                                 /\ reqs[e].stage = "QUICK_SIGNATURE" => reqs[e].state = "SUCCEEDED"
                                 /\ reqs[e].stage = "DONE" => reqs[e].state = "FAILED"
    <3> SUFFICES ASSUME NEW e \in DuCandidates
                 PROVE  /\ reqs[e].stage \in {"QUICK_SIGNATURE", "DONE"}
                        /\ reqs[e].stage = "QUICK_SIGNATURE" => reqs[e].state = "SUCCEEDED"
                        /\ reqs[e].stage = "DONE" => reqs[e].state = "FAILED"
        OBVIOUS
    <3>1. e \in Entries /\ reqs[e] \in HashRequests
        BY <1>2, <1>3
    <3>2. e <= dups.cursor
      <4>1. \A x \in {0} \cup Entries : x \in Int
          BY DEF Entries
      <4>2. e \in Int /\ dups.cursor \in Int
          BY <1>2, <3>1, <4>1 DEF ScanRows
      <4>3. ~(e > dups.cursor)
          BY <1>1 DEF Rest
      <4> QED
          BY <4>2, <4>3
    <3>3. reqs[e].state # "NONE"
        BY <1>4, <3>2
    <3>4. reqs[e].stage = "QUICK_SIGNATURE" => reqs[e].state \notin {"PENDING", "RUNNING", "FAILED"}
        BY <1>5, <1>7, <3>1 DEF QuickStageComplete, With, RequestsKept
    <3> QED
        BY <1>4, <3>1, <3>3, <3>4 DEF HashRequests
  <2>11. StagesInOrder'
    <3>1. \A e \in DuCandidates : reqs'[e].stage \in {"FULL_HASH", "DONE"}
      <4> SUFFICES ASSUME NEW e \in DuCandidates PROVE reqs'[e].stage \in {"FULL_HASH", "DONE"}
          OBVIOUS
      <4>1. e \in Entries
          BY <1>3
      <4> QED
          BY <2>7, <2>8, <2>10, <4>1
    <3>2. \A e, f \in DuCandidates : Alike(e, f) => reqs'[e].stage = "FULL_HASH" \/ Lost(e)' \/ Lost(f)'
      <4> SUFFICES ASSUME NEW e \in DuCandidates, NEW f \in DuCandidates, Alike(e, f)
                   PROVE  reqs'[e].stage = "FULL_HASH" \/ Lost(e)' \/ Lost(f)'
          OBVIOUS
      <4>1. e \in Entries /\ f \in Entries
          BY <1>3
      <4>2. \A x \in {e, f} : reqs[x].stage = "DONE" => Lost(x)'
          BY <2>2, <2>7, <2>10, <4>1 DEF Lost
      <4>3. CASE reqs[e].stage = "QUICK_SIGNATURE" /\ reqs[f].stage = "QUICK_SIGNATURE"
          BY <2>3, <2>7, <2>8, <2>10, <4>1, <4>3
      <4> QED
          BY <2>10, <4>2, <4>3
    <3> QED
        BY <1>1, <1>3, <1>4, <2>5, <3>1, <3>2 DEF StagesInOrder, DuInv, StatusLoads
  <2>12. WorkerKnows' /\ NoneMissed' /\ wk' \in WorkerForms
    <3>1. dups.state # "COMPLETED"
        BY <1>1 DEF DuInv, StatusLoads
    <3> QED
        BY <1>1, <1>2, <2>1, <2>5, <3>1 DEF WorkerKnows, NoneMissed
  <2>13. duLeft' \in 0..MaxDuEvents /\ duLeft' <= duLeft
      BY <1>1, <1>2
  <2> QED
      BY <1>1, <1>2, <2>5, <2>6, <2>9, <2>11, <2>12, <2>13, ThreadWrites
<1> QED
    BY <1>6, <1>7

\* Every twin has its hash or was given up.
LEMMA GroupingKeeps ==
    ASSUME DuInv, AdvanceToMaterialization
    PROVE  DuInv'
<1>1. /\ dups.stage = "FULL_HASH" /\ wk.pc = "loop" /\ With({"PENDING", "RUNNING"}, "FULL_HASH") = {}
      /\ dups' = [dups EXCEPT !.stage = "MATERIALIZE"]
      /\ UNCHANGED <<orig, disk, changed, stable, backup, reqs, wk, cached, known, groups, members, duLeft, jammed>>
    BY DEF AdvanceToMaterialization, Working, sources
<1>2. /\ dups \in ScanRows /\ wk \in WorkerForms /\ reqs \in [Entries -> HashRequests]
      /\ MaxDuEvents \in Nat /\ duLeft \in 0..MaxDuEvents /\ jammed' \in BOOLEAN
    BY <1>1, DuplicatesAssumption DEF DuInv, DuTypes
<1>3. /\ dups.state # "NONE" /\ dups.state # "COMPLETED" /\ DuCandidates' = DuCandidates /\ DuCandidates \in SUBSET Entries
      /\ (\A a, b : Alike(a, b)' <=> Alike(a, b))
    BY <1>1, FilesStay, CandidatesAreFiles DEF DuInv, StagesInOrder, StatusLoads
<1>4. /\ dups' \in ScanRows /\ dups'.state = dups.state /\ dups'.stage = "MATERIALIZE"
      /\ dups'.cand = dups.cand /\ dups'.quick = dups.quick /\ dups'.full = dups.full
      /\ dups'.fullDone = dups.fullDone /\ dups'.issues = dups.issues
    BY <1>1, <1>2 DEF ScanRows
<1>5. RequestsKept(reqs)
    BY RequestsAreKept
<1>6. \A e \in Entries : reqs[e].state \notin {"PENDING", "RUNNING"}
  <2> SUFFICES ASSUME NEW e \in Entries, reqs[e].state \in {"PENDING", "RUNNING"} PROVE FALSE
      OBVIOUS
  <2>1. e \in DuCandidates
      BY <1>5 DEF RequestsKept
  <2>2. reqs[e].stage \in {"FULL_HASH", "DONE"}
      BY <1>1, <2>1 DEF DuInv, StagesInOrder
  <2>3. reqs[e].stage # "FULL_HASH"
      BY <1>1 DEF With
  <2> QED
      BY <1>5, <2>2, <2>3 DEF RequestsKept
<1>7. StagesInOrder'
    BY <1>1, <1>3, <1>4, <1>6 DEF DuInv, StagesInOrder, Lost
<1>8. StatusLoads' /\ WorkerKnows' /\ NoneMissed'
    BY <1>1, <1>3, <1>4 DEF DuInv, StatusLoads, WorkerKnows, NoneMissed
<1>9. duLeft' \in 0..MaxDuEvents /\ duLeft' <= duLeft /\ wk' \in WorkerForms /\ RequestsKept(reqs')
    BY <1>1, <1>2, <1>5
<1> QED
    BY <1>1, <1>2, <1>4, <1>7, <1>8, <1>9, ThreadWrites

\* The groups are built of what was hashed.
LEMMA BuildingKeeps ==
    ASSUME DuInv, BuildRelations
    PROVE  DuInv'
<1>1. /\ dups.stage = "MATERIALIZE" /\ wk.pc = "loop" /\ Materialize(known) /\ wk' = [wk EXCEPT !.pc = "closing"]
      /\ UNCHANGED <<orig, disk, changed, stable, backup, dups, reqs, cached, known, duLeft, jammed>>
    BY DEF BuildRelations, Working, sources
<1>2. /\ dups \in ScanRows /\ wk \in WorkerForms /\ known \in [Entries -> HashProofs]
      /\ MaxDuEvents \in Nat /\ duLeft \in 0..MaxDuEvents
    BY DuplicatesAssumption DEF DuInv, DuTypes
<1>3. wk' \in WorkerForms /\ wk'.pc = "closing"
    BY <1>1, <1>2 DEF WorkerForms
<1>4. DuTypes /\ StoredIsOfSnapshot /\ TriedEnough /\ StagesInOrder /\ WorkerKnows /\ MembersAreKnown
      /\ RowsAreCounted /\ NoneMissed /\ StatusLoads
    BY DEF DuInv
<1>5. MembersAreKnown' /\ RowsAreCounted' /\ members \subseteq members'
    BY <1>1, <1>2, <1>4, GroupsAreBuilt
<1>6. /\ Present' = Present /\ DuCandidates' = DuCandidates /\ CacheRows' = CacheRows
      /\ (\A a, b : Alike(a, b)' <=> Alike(a, b)) /\ \A e : Physical(e)' = Physical(e)
    BY <1>1, FilesStay DEF CacheRows, Physical
<1>7. DuTypes'
    BY <1>1, <1>3, <1>4, <1>6 DEF DuTypes
<1>8. StoredIsOfSnapshot' /\ TriedEnough'
    BY <1>1, <1>4, <1>6 DEF StoredIsOfSnapshot, TriedEnough
<1>9. StagesInOrder'
    BY <1>1, <1>3, <1>4, <1>6 DEF StagesInOrder, Lost
<1>10. WorkerKnows' /\ StatusLoads'
    BY <1>1, <1>3, <1>4, <1>6 DEF WorkerKnows, StatusLoads
<1>11. NoneMissed'
  <2>1. dups.state # "COMPLETED"
      BY <1>1, <1>4 DEF StatusLoads
  <2>2. ASSUME \A e \in Entries : reqs[e].state # "FAILED" PROVE CopiesFound'
    <3>1. \A e \in Present : (\E f \in Present : Physical(f) # Physical(e) /\ orig[f] = orig[e])
                                => \E m \in members' : Physical(m[2]) = Physical(e)
        BY <1>1, <1>4, <2>2, BuildFinds
    <3> QED
        BY <1>1, <1>6, <3>1 DEF CopiesFound
  <2> QED
      BY <1>1, <2>1, <2>2 DEF NoneMissed
<1> QED
    BY <1>5, <1>7, <1>8, <1>9, <1>10, <1>11 DEF DuInv

\* The scan is closed and its requests are deleted.
LEMMA ClosingKeeps ==
    ASSUME DuInv, CompleteScan
    PROVE  DuInv'
<1> DEFINE failed == {e \in Entries : reqs[e].state = "FAILED"}
<1>1. /\ wk.pc = "closing" /\ wk' = IdleWorker /\ reqs' = [e \in Entries |-> NoRequest]
      /\ dups' = [dups EXCEPT !.state = "COMPLETED", !.stage = "DONE", !.why = "", !.quick = dups.cand,
                              !.fullDone = dups.full, !.issues = Cardinality(failed)]
      /\ UNCHANGED <<orig, disk, changed, stable, backup, cached, known, groups, members, duLeft, jammed>>
    BY DEF CompleteScan, sources
<1>2. /\ dups \in ScanRows /\ reqs \in [Entries -> HashRequests] /\ MaxTries \in Nat \ {0}
      /\ MaxDuEvents \in Nat /\ duLeft \in 0..MaxDuEvents /\ jammed' \in BOOLEAN
    BY <1>1, DuplicatesAssumption DEF DuInv, DuTypes
<1>3. /\ dups.stage = "MATERIALIZE" /\ dups.state # "NONE" /\ dups.cand = Cardinality(DuCandidates)
      /\ DuCandidates' = DuCandidates /\ DuCandidates \in SUBSET Entries /\ dups.full <= dups.cand
    BY <1>1, FilesStay, CandidatesAreFiles DEF DuInv, StagesInOrder, WorkerKnows, StatusLoads
<1>4. RequestsKept(reqs)
    BY RequestsAreKept
<1>5. failed \in SUBSET Entries /\ IsFiniteSet(failed) /\ Cardinality(failed) \in Nat /\ Cardinality(failed) <= dups.cand
  <2>1. failed \in SUBSET DuCandidates /\ failed \in SUBSET Entries
      BY <1>4 DEF RequestsKept
  <2> QED
      BY <1>3, <2>1, EntriesFinite
<1>6. Cardinality(failed) = 0 => \A e \in Entries : reqs[e].state # "FAILED"
  <2>1. Cardinality(failed) = 0 => failed = {}
      BY <1>5, FS_EmptySet
  <2> QED
      BY <2>1
<1> HIDE DEF failed
<1>7. /\ dups' \in ScanRows /\ dups'.state = "COMPLETED" /\ dups'.stage = "DONE"
      /\ dups'.cand = dups.cand /\ dups'.quick = dups.cand /\ dups'.full = dups.full
      /\ dups'.fullDone = dups.full /\ dups'.issues = Cardinality(failed)
    BY <1>1, <1>2, <1>5 DEF ScanRows
<1>8. StatusLoads'
  <2>1. dups.cand \in Nat /\ dups.full \in Nat
      BY <1>2 DEF ScanRows
  <2> QED
      BY <1>3, <1>5, <1>7, <2>1 DEF StatusLoads
<1>9. NoRequest \in HashRequests /\ NoRequest.state = "NONE" /\ NoRequest.stage = "QUICK_SIGNATURE" /\ NoRequest.quick = 0
      /\ NoRequest.tries = 0
    BY EntriesFinite DEF NoRequest, HashRequests
<1>10. RequestsKept(reqs')
  <2>1. reqs' \in [Entries -> HashRequests] /\ \A e \in Entries : reqs'[e] = NoRequest
      BY <1>1, <1>9
  <2>2. 0 <= MaxTries + (MaxDuEvents - duLeft) + 0
      BY <1>2
  <2> QED
      BY <1>9, <2>1, <2>2 DEF RequestsKept
<1>11. StagesInOrder'
    BY <1>1, <1>3, <1>7 DEF StagesInOrder
<1>12. wk' \in WorkerForms /\ wk'.pc = "idle" /\ WorkerKnows'
  <2>1. wk' \in WorkerForms /\ wk'.pc = "idle"
      BY <1>1, FreshWorker
  <2> QED
      BY <2>1 DEF WorkerKnows
<1>13. NoneMissed'
  <2>1. Present' = Present /\ \A e : Physical(e)' = Physical(e)
      BY <1>1, FilesStay DEF Physical
  <2>2. dups'.issues = 0 => CopiesFound
      BY <1>1, <1>6, <1>7 DEF DuInv, NoneMissed
  <2>3. CopiesFound => CopiesFound'
      BY <1>1, <2>1 DEF CopiesFound
  <2> QED
      BY <1>12, <2>2, <2>3 DEF NoneMissed
<1>14. duLeft' \in 0..MaxDuEvents /\ duLeft' <= duLeft
    BY <1>1, <1>2
<1> QED
    BY <1>1, <1>2, <1>7, <1>8, <1>10, <1>11, <1>12, <1>13, <1>14, ThreadWrites

\* A scan is asked for.
LEMMA StartKeeps ==
    ASSUME DuInv, StartScan
    PROVE  DuInv'
<1>1. /\ dups.state = "NONE" /\ Materialize(known)
      /\ dups' = [NoScanRow EXCEPT !.state = "QUEUED", !.cand = Cardinality(DuCandidates)]
      /\ UNCHANGED <<orig, disk, changed, stable, backup, reqs, cached, known, wk, duLeft, jammed>>
    BY DEF StartScan
<1>2. DuTypes /\ StoredIsOfSnapshot /\ TriedEnough /\ StagesInOrder /\ WorkerKnows /\ MembersAreKnown
      /\ RowsAreCounted /\ NoneMissed /\ StatusLoads
    BY DEF DuInv
<1>3. reqs = [e \in Entries |-> NoRequest] /\ wk.pc = "idle" /\ known \in [Entries -> HashProofs] /\ wk \in WorkerForms
    BY <1>1, <1>2 DEF StagesInOrder, DuTypes
<1>4. MembersAreKnown' /\ RowsAreCounted' /\ members \subseteq members'
    BY <1>1, <1>2, <1>3, GroupsAreBuilt
<1>5. /\ Present' = Present /\ DuCandidates' = DuCandidates /\ CacheRows' = CacheRows /\ DuCandidates \in SUBSET Entries
      /\ (\A a, b : Alike(a, b)' <=> Alike(a, b))
    BY <1>1, <1>2, FilesStay, CandidatesAreFiles DEF CacheRows
<1>6. /\ dups' \in ScanRows /\ dups'.state = "QUEUED" /\ dups'.stage = "QUICK_SIGNATURE" /\ dups'.quick = 0 /\ dups'.full = 0
      /\ dups'.fullDone = 0 /\ dups'.issues = 0 /\ dups'.cursor = 0 /\ dups'.cand = Cardinality(DuCandidates)
      /\ dups'.cand \in Nat
  <2>1. Cardinality(DuCandidates) \in Nat
      BY <1>5, EntriesFinite
  <2> QED
      BY <1>1, <2>1 DEF NoScanRow, ScanRows
<1>7. DuTypes'
    BY <1>1, <1>2, <1>5, <1>6 DEF DuTypes
<1>8. StoredIsOfSnapshot' /\ TriedEnough'
    BY <1>1, <1>2, <1>5 DEF StoredIsOfSnapshot, TriedEnough
<1>9. StagesInOrder'
  <2>1. \A e \in DuCandidates : ~(e <= 0)
    <3>1. \A e \in Entries : ~(e <= 0)
        BY DEF Entries
    <3> QED
        BY <1>5, <3>1
  <2>2. \A e \in Entries : reqs'[e].stage = "QUICK_SIGNATURE"
      BY <1>1, <1>3 DEF NoRequest
  <2> QED
      BY <1>5, <1>6, <2>1, <2>2 DEF StagesInOrder
<1>10. WorkerKnows' /\ NoneMissed' /\ StatusLoads'
    BY <1>1, <1>3, <1>6 DEF WorkerKnows, NoneMissed, StatusLoads
<1> QED
    BY <1>4, <1>7, <1>8, <1>9, <1>10 DEF DuInv

\* A scan is paused, goes on, or its next cycle begins.
LEMMA HoldingKeeps ==
    ASSUME DuInv, PauseScan \/ ResumeScan \/ BeginCycle
    PROVE  DuInv'
<1>1. duLeft \in 0..MaxDuEvents /\ MaxDuEvents \in Nat
    BY DuplicatesAssumption DEF DuInv, DuTypes
<1>2. CASE PauseScan
  <2>1. duLeft' \in 0..MaxDuEvents /\ duLeft' <= duLeft
      BY <1>1, <1>2 DEF PauseScan, Spend
  <2>2. /\ dups.state \in {"QUEUED", "RUNNING", "PAUSED"} /\ dups' = [dups EXCEPT !.state = "PAUSED", !.why = "USER_REQUESTED"]
        /\ UNCHANGED <<orig, disk, changed, stable, reqs, cached, known, groups, members, wk, backup, jammed>>
      BY <1>2 DEF PauseScan
  <2> QED
      BY <2>1, <2>2, ScanIsHeld
<1>3. CASE ResumeScan
  <2>1. /\ dups.state \in {"QUEUED", "RUNNING", "PAUSED"} /\ dups' = [dups EXCEPT !.state = "RUNNING", !.why = ""]
        /\ UNCHANGED <<orig, disk, changed, stable, reqs, cached, known, groups, members, wk, backup, duLeft, jammed>>
      BY <1>3 DEF ResumeScan
  <2> QED
      BY <1>1, <2>1, ScanIsHeld
<1>4. CASE BeginCycle
  <2>1. /\ dups.state \in {"QUEUED", "RUNNING", "PAUSED"}
        /\ UNCHANGED <<orig, disk, changed, stable, reqs, cached, known, groups, members, backup, duLeft, jammed>>
      BY <1>4 DEF BeginCycle, LoadNextCycleScan, sources
  <2>2. CASE backup
    <3>1. dups' = [dups EXCEPT !.state = "PAUSED", !.why = "ACTIVE_BACKUP"] /\ wk' = wk
        BY <1>4, <2>2 DEF BeginCycle
    <3> QED
        BY <1>1, <2>1, <3>1, ScanIsHeld
  <2>3. CASE ~backup
    <3>1. dups' = [dups EXCEPT !.state = "RUNNING", !.why = ""] /\ wk' = [IdleWorker EXCEPT !.pc = "loop"]
        BY <1>4, <2>3 DEF BeginCycle
    <3> QED
        BY <1>1, <2>1, <3>1, ScanIsHeld
  <2> QED
      BY <2>2, <2>3
<1> QED
    BY <1>2, <1>3, <1>4

\* Requests that run are returned to the queue, at the cost of an event.
LEMMA RecoveryKeeps ==
    ASSUME DuInv, RecoverInterrupted \/ DuStops
    PROVE  DuInv'
<1>1. /\ duLeft > 0 /\ duLeft' = duLeft - 1 /\ reqs' = Recover(reqs) /\ jammed' = FALSE
      /\ wk' = wk \/ wk' = IdleWorker
      /\ UNCHANGED <<orig, disk, changed, stable, backup, dups, cached, known, groups, members>>
    BY DEF RecoverInterrupted, DuStops, Spend, sources
<1>2. DuTypes /\ StoredIsOfSnapshot /\ TriedEnough /\ StagesInOrder /\ WorkerKnows /\ MembersAreKnown
      /\ RowsAreCounted /\ NoneMissed /\ StatusLoads
    BY DEF DuInv
<1>3. /\ reqs \in [Entries -> HashRequests] /\ duLeft \in 0..MaxDuEvents /\ duLeft' \in 0..MaxDuEvents
      /\ MaxDuEvents \in Nat /\ MaxTries \in Nat /\ wk \in WorkerForms
    BY <1>1, <1>2, DuplicatesAssumption DEF DuTypes
<1>4. \A e \in Entries : /\ reqs'[e] \in HashRequests /\ reqs'[e].stage = reqs[e].stage /\ reqs'[e].tries = reqs[e].tries
                         /\ reqs'[e].quick = reqs[e].quick
                         /\ \/ reqs[e].state # "RUNNING" /\ reqs'[e] = reqs[e]
                            \/ reqs[e].state = "RUNNING" /\ reqs'[e].state = "PENDING"
  <2> SUFFICES ASSUME NEW e \in Entries
               PROVE  /\ reqs'[e] \in HashRequests /\ reqs'[e].stage = reqs[e].stage /\ reqs'[e].tries = reqs[e].tries
                      /\ reqs'[e].quick = reqs[e].quick
                      /\ \/ reqs[e].state # "RUNNING" /\ reqs'[e] = reqs[e]
                         \/ reqs[e].state = "RUNNING" /\ reqs'[e].state = "PENDING"
      OBVIOUS
  <2>1. PICK q \in HashRequests : q = reqs[e]
      BY <1>3
  <2>2. reqs'[e] = IF q.state = "RUNNING" THEN [q EXCEPT !.state = "PENDING"] ELSE q
      BY <1>1, <2>1 DEF Recover
  <2> QED
      BY <2>1, <2>2 DEF HashRequests
<1>5. reqs' \in [Entries -> HashRequests]
  <2>1. reqs' = [e \in Entries |-> reqs'[e]]
      BY <1>1 DEF Recover
  <2> QED
      BY <1>4, <2>1
<1>6. /\ Present' = Present /\ DuCandidates' = DuCandidates /\ CacheRows' = CacheRows /\ DuCandidates \in SUBSET Entries
      /\ (\A a, b : Alike(a, b)' <=> Alike(a, b)) /\ \A e : Physical(e)' = Physical(e)
    BY <1>1, <1>2, FilesStay, CandidatesAreFiles DEF CacheRows, Physical
<1>7. wk' \in WorkerForms /\ jammed' \in BOOLEAN
    BY <1>1, <1>3, FreshWorker
<1>8. DuTypes'
    BY <1>1, <1>2, <1>3, <1>5, <1>6, <1>7 DEF DuTypes
<1>9. StoredIsOfSnapshot'
    BY <1>1, <1>2, <1>4, <1>6 DEF StoredIsOfSnapshot
<1>10. TriedEnough'
  <2> SUFFICES ASSUME NEW e \in Entries
               PROVE  /\ reqs'[e].state # "NONE" => e \in DuCandidates
                      /\ reqs'[e].state = "NONE" => reqs'[e] = NoRequest
                      /\ reqs'[e].tries <= MaxTries + (MaxDuEvents - duLeft') + (IF reqs'[e].stage = "FULL_HASH" THEN 1 ELSE 0)
                      /\ reqs'[e].state = "PENDING" =>
                            reqs'[e].tries < MaxTries + (MaxDuEvents - duLeft') + (IF reqs'[e].stage = "FULL_HASH" THEN 1 ELSE 0)
                      /\ reqs'[e].state = "SUCCEEDED" \/ reqs'[e].stage = "FULL_HASH" => reqs'[e].quick # 0
                      /\ (reqs'[e].stage = "FULL_HASH" /\ reqs'[e].state = "SUCCEEDED") => known[e].full = orig[e]
                      /\ reqs'[e].stage = "DONE" => reqs'[e].state \in {"SUCCEEDED", "FAILED"}
                      /\ reqs'[e].state = "FAILED" => reqs'[e].stage # "QUICK_SIGNATURE"
      BY <1>1, <1>6 DEF TriedEnough
  <2>1. reqs[e].tries < MaxTries + (MaxDuEvents - duLeft') + (IF reqs[e].stage = "FULL_HASH" THEN 1 ELSE 0)
    <3>1. reqs[e].tries <= MaxTries + (MaxDuEvents - duLeft) + (IF reqs[e].stage = "FULL_HASH" THEN 1 ELSE 0)
        BY <1>2 DEF TriedEnough
    <3>2. reqs[e].tries \in Nat
        BY <1>3 DEF HashRequests
    <3> QED
        BY <1>1, <1>3, <3>1, <3>2
  <2>2. reqs[e].tries \in Nat
      BY <1>3 DEF HashRequests
  <2>3. reqs'[e].tries <= MaxTries + (MaxDuEvents - duLeft') + (IF reqs'[e].stage = "FULL_HASH" THEN 1 ELSE 0)
      BY <1>3, <1>4, <2>1, <2>2
  <2>4. reqs'[e].tries < MaxTries + (MaxDuEvents - duLeft') + (IF reqs'[e].stage = "FULL_HASH" THEN 1 ELSE 0)
      BY <1>4, <2>1
  <2> QED
      BY <1>2, <1>4, <2>3, <2>4 DEF TriedEnough
<1>11. StagesInOrder'
  <2>1. \A e \in Entries : Lost(e) => Lost(e)'
      BY <1>4 DEF Lost
  <2>2. \A e \in DuCandidates : e \in Entries
      BY <1>6
  <2>3. /\ \A e \in Entries : reqs'[e].state = reqs[e].state \/ (reqs[e].state = "RUNNING" /\ reqs'[e].state = "PENDING")
        /\ \A e \in Entries : reqs'[e].stage = reqs[e].stage
      BY <1>4
  <2>4. (dups.state = "NONE" \/ dups.stage = "DONE") => reqs' = [e \in Entries |-> NoRequest]
    <3>1. ASSUME dups.state = "NONE" \/ dups.stage = "DONE" PROVE \A e \in Entries : reqs'[e] = NoRequest
        BY <1>2, <1>4, <3>1 DEF StagesInOrder, NoRequest
    <3>2. reqs' = [e \in Entries |-> reqs'[e]]
        BY <1>1 DEF Recover
    <3> QED
        BY <3>1, <3>2
  <2>5. dups.state = "NONE" => wk'.pc = "idle"
      BY <1>1, <1>2, FreshWorker DEF StagesInOrder
  <2>6. dups.stage = "QUICK_SIGNATURE" =>
          /\ \A e \in Entries : reqs'[e].stage # "FULL_HASH"
          /\ \A e \in Entries : reqs'[e].stage = "DONE" => reqs'[e].state = "FAILED"
          /\ \A e \in DuCandidates : e <= dups.cursor => reqs'[e].state # "NONE"
    <3> SUFFICES ASSUME dups.stage = "QUICK_SIGNATURE"
                 PROVE  /\ \A e \in Entries : reqs'[e].stage # "FULL_HASH"
                        /\ \A e \in Entries : reqs'[e].stage = "DONE" => reqs'[e].state = "FAILED"
                        /\ \A e \in DuCandidates : e <= dups.cursor => reqs'[e].state # "NONE"
        OBVIOUS
    <3> QED
        BY <1>2, <2>2, <2>3 DEF StagesInOrder
  <2>7. dups.stage \in {"FULL_HASH", "MATERIALIZE"} =>
          /\ \A e \in DuCandidates : reqs'[e].stage \in {"FULL_HASH", "DONE"}
          /\ \A e, f \in DuCandidates : Alike(e, f) => reqs'[e].stage = "FULL_HASH" \/ Lost(e)' \/ Lost(f)'
      BY <1>2, <2>1, <2>2, <2>3 DEF StagesInOrder
  <2>8. dups.stage = "MATERIALIZE" => \A e \in Entries : reqs'[e].state \notin {"PENDING", "RUNNING"}
      BY <1>2, <2>3 DEF StagesInOrder
  <2> QED
      BY <1>1, <1>2, <1>6, <2>4, <2>5, <2>6, <2>7, <2>8 DEF StagesInOrder
<1>12. WorkerKnows'
  <2>1. CASE wk' = IdleWorker
      BY <2>1, FreshWorker DEF WorkerKnows
  <2>2. CASE wk' = wk
    <3>1. wk.pc \in {"claimed", "read", "kept", "cached"} => wk.item \in Entries
        BY <1>2, <1>6 DEF WorkerKnows
    <3> QED
        BY <1>1, <1>2, <1>4, <1>6, <2>2, <3>1 DEF WorkerKnows
  <2> QED
      BY <1>1, <2>1, <2>2
<1>13. NoneMissed' /\ StatusLoads'
  <2>1. CopiesFound => CopiesFound'
      BY <1>1, <1>6 DEF CopiesFound
  <2>2. wk'.pc = "closing" => wk.pc = "closing"
      BY <1>1, FreshWorker
  <2>3. (\A e \in Entries : reqs'[e].state # "FAILED") => \A e \in Entries : reqs[e].state # "FAILED"
      BY <1>4
  <2> QED
      BY <1>1, <1>2, <2>1, <2>2, <2>3 DEF NoneMissed, StatusLoads
<1>14. MembersAreKnown' /\ RowsAreCounted'
    BY <1>1, <1>2, GroupsStay
<1> QED
    BY <1>8, <1>9, <1>10, <1>11, <1>12, <1>13, <1>14 DEF DuInv

\* The hash pass of an analysis knows more, and builds groups of it.
LEMMA HashPassKeeps ==
    ASSUME DuInv, HashPass
    PROVE  DuInv'
<1> DEFINE k == [e \in Entries |-> IF e \in PathPairs /\ known[e].full = 0
                                   THEN [full |-> disk[e], same |-> e \notin changed] ELSE known[e]]
<1>1. /\ known' = k /\ Materialize(k) /\ duLeft > 0 /\ duLeft' = duLeft - 1
      /\ UNCHANGED <<orig, disk, changed, stable, backup, dups, reqs, cached, wk, jammed>>
    BY DEF HashPass, Spend, sources
<1>2. DuTypes /\ StoredIsOfSnapshot /\ TriedEnough /\ StagesInOrder /\ WorkerKnows /\ MembersAreKnown
      /\ RowsAreCounted /\ NoneMissed /\ StatusLoads
    BY DEF DuInv
<1>3. /\ known \in [Entries -> HashProofs] /\ disk \in [Entries -> Bytes]
      /\ \A e \in Entries : e \notin changed => disk[e] = orig[e]
      /\ duLeft' \in 0..MaxDuEvents /\ duLeft' <= duLeft
    BY <1>1, <1>2, DuplicatesAssumption DEF DuTypes
<1>4. \A e \in Entries : [full |-> disk[e], same |-> e \notin changed] \in HashProofs
  <2> SUFFICES ASSUME NEW e \in Entries PROVE [full |-> disk[e], same |-> e \notin changed] \in HashProofs
      OBVIOUS
  <2>1. disk[e] \in Bytes
      BY <1>3
  <2>2. (e \notin changed) \in BOOLEAN
      OBVIOUS
  <2>3. PICK b \in BOOLEAN : b = (e \notin changed)
      BY <2>2
  <2>4. [full |-> disk[e], same |-> b] \in HashProofs
      BY <2>1, <2>3 DEF HashProofs
  <2> QED
      BY <2>3, <2>4
<1>5. k \in [Entries -> HashProofs]
    BY <1>3, <1>4
<1>6. \A e \in Entries : /\ known[e].full # 0 => k[e] = known[e]
                         /\ k[e] = known[e] \/ (/\ e \in Present /\ k[e].full = disk[e] /\ (k[e].same <=> e \notin changed))
  <2>1. \A e \in PathPairs : e \in Present
      BY DEF PathPairs
  <2> QED
      BY <2>1
<1> HIDE DEF k
<1>7. MembersAreKnown' /\ RowsAreCounted' /\ members \subseteq members'
    BY <1>1, <1>2, <1>5, <1>6, GroupsAreBuilt
<1>8. /\ Present' = Present /\ DuCandidates' = DuCandidates /\ CacheRows' = CacheRows /\ DuCandidates \subseteq Present
    BY <1>1, <1>2, FilesStay, CandidatesAreFiles DEF CacheRows
<1>9. DuTypes'
    BY <1>1, <1>2, <1>3, <1>5, <1>8 DEF DuTypes
<1>10. StoredIsOfSnapshot'
    BY <1>1, <1>2, <1>3, <1>6, <1>8 DEF StoredIsOfSnapshot
<1>11. WorkerKnows'
  <2>1. (wk.pc \in {"kept", "cached"} /\ wk.stage = "FULL_HASH") => k[wk.item].full = orig[wk.item]
    <3> SUFFICES ASSUME wk.pc \in {"kept", "cached"}, wk.stage = "FULL_HASH" PROVE k[wk.item].full = orig[wk.item]
        OBVIOUS
    <3>1. wk.item \in Present /\ wk.item \in Entries /\ known[wk.item].full = orig[wk.item]
        BY <1>2, <1>8, CandidatesAreFiles DEF WorkerKnows
    <3>2. known[wk.item].full # 0
        BY <3>1 DEF Present, Absent
    <3> QED
        BY <1>6, <3>1, <3>2
  <2> QED
      BY <1>1, <1>2, <1>8, <2>1 DEF WorkerKnows
<1>12. \A e \in Entries : known[e].full # 0 => known'[e].full = known[e].full
    BY <1>1, <1>6
<1>13. dups.state = "NONE" => wk'.pc = "idle"
    BY <1>1, <1>2 DEF StagesInOrder
<1> QED
    BY <1>1, <1>3, <1>7, <1>9, <1>10, <1>11, <1>12, <1>13, ScanIsLeft

\* Every step keeps the invariant.
LEMMA CopiesStep == DuInv /\ [DuNext]_duVars => DuInv'
<1> SUFFICES ASSUME DuInv, [DuNext]_duVars PROVE DuInv'
    OBVIOUS
<1>1. CASE Worker
    BY <1>1, HoldingKeeps, ThreadSteps, ClaimKeeps, EnqueueKeeps, FullHashKeeps, GroupingKeeps, BuildingKeeps,
       ClosingKeeps, SuccessKeeps, StoringKeeps DEF Worker
<1>2. CASE Others
    BY <1>2, StartKeeps, HoldingKeeps, ThreadSteps, RecoveryKeeps, HashPassKeeps, UserSteps DEF Others
<1>3. CASE UNCHANGED duVars
  <2>1. UNCHANGED <<orig, disk, changed, stable, dups, reqs, cached, known, groups, members, wk, backup, duLeft, jammed>>
      BY <1>3 DEF duVars
  <2>2. /\ disk \in [Entries -> Bytes] /\ changed \subseteq Entries /\ backup \in BOOLEAN /\ jammed \in BOOLEAN
        /\ duLeft \in 0..MaxDuEvents /\ wk \in WorkerForms /\ MaxDuEvents \in Nat
        /\ \A e \in Entries : e \notin changed => disk[e] = orig[e]
        /\ (dups.state = "NONE" => wk.pc = "idle") /\ WorkerKnows
      BY DuplicatesAssumption DEF DuInv, DuTypes, StagesInOrder
  <2>3. WorkerKnows' /\ duLeft' <= duLeft
    <3>1. DuCandidates' = DuCandidates
        BY <2>1, FilesStay
    <3> QED
        BY <2>1, <2>2, <3>1 DEF WorkerKnows
  <2> QED
      BY <2>1, <2>2, <2>3, OnlyTheThread
<1> QED
    BY <1>1, <1>2, <1>3 DEF DuNext

\* The invariant of the duplicate scan holds of every behaviour.
THEOREM CopiesInvariance == DuSpec => []DuInv
    BY DuInitInv, CopiesStep, PTL DEF DuSpec

\* The savings shown (potential_savings_bytes of the group rows) never reach the
\* last copy: over all groups of a content they are at most the objects that are
\* no replicas of the job, less one, unless a replica was counted before its
\* source was hashed.
THEOREM SavingsLeave == DuSpec => []SavingsLeaveACopy
<1>1. DuInv => SavingsLeaveACopy
    BY SavingsAreLeft DEF DuInv
<1> QED
    BY <1>1, CopiesInvariance, PTL

\* A scan that completes without an issue has found every copy, whatever was
\* paused, interrupted, reused or tried again on the way.
THEOREM EveryCopyIsFound == DuSpec => [](FindsEveryCopy /\ EvidenceIsOfSnapshot /\ StatusLoads)
<1>1. DuInv => FindsEveryCopy
    BY DEF DuInv, NoneMissed, CopiesFound, FindsEveryCopy
<1>2. DuInv => EvidenceIsOfSnapshot
  <2>1. \A e \in Present : e \in Entries
      BY DEF Present
  <2> QED
      BY <2>1 DEF DuInv, StoredIsOfSnapshot, EvidenceIsOfSnapshot
<1>3. DuInv => StatusLoads
    BY DEF DuInv
<1> QED
    BY <1>1, <1>2, <1>3, CopiesInvariance, PTL

\* The scan's types, and the bound on how often a file is tried.
THEOREM CopiesTypes == DuSpec => []DuTypeOK
<1>1. DuInv => DuTypeOK
  <2> SUFFICES ASSUME DuInv PROVE DuTypeOK
      OBVIOUS
  <2>1. DuTypes /\ TriedEnough
      BY DEF DuInv
  <2>2. Bytes = DuContents \cup {Absent} /\ Bytes = DuContents \cup {0}
      BY DEF Bytes, Absent
  <2>3. \A e \in Entries : /\ reqs[e].state \in {"NONE", "PENDING", "RUNNING", "SUCCEEDED", "FAILED"}
                           /\ reqs[e].stage \in {"QUICK_SIGNATURE", "FULL_HASH", "DONE"}
                           /\ reqs[e].tries \in 0..(MaxTries + MaxDuEvents + 1) /\ reqs[e].quick \in DuContents \cup {0}
                           /\ cached[e].kind \in {"NONE", "QUICK", "FULL"} /\ known[e].full \in DuContents \cup {0}
    <3> SUFFICES ASSUME NEW e \in Entries
                 PROVE  /\ reqs[e].state \in {"NONE", "PENDING", "RUNNING", "SUCCEEDED", "FAILED"}
                        /\ reqs[e].stage \in {"QUICK_SIGNATURE", "FULL_HASH", "DONE"}
                        /\ reqs[e].tries \in 0..(MaxTries + MaxDuEvents + 1) /\ reqs[e].quick \in DuContents \cup {0}
                        /\ cached[e].kind \in {"NONE", "QUICK", "FULL"} /\ known[e].full \in DuContents \cup {0}
        OBVIOUS
    <3>1. reqs[e] \in HashRequests /\ cached[e] \in CacheRecords /\ known[e] \in HashProofs
        BY <2>1 DEF DuTypes
    <3>2. reqs[e].tries \in 0..(MaxTries + MaxDuEvents + 1)
      <4>1. reqs[e].tries <= MaxTries + (MaxDuEvents - duLeft) + (IF reqs[e].stage = "FULL_HASH" THEN 1 ELSE 0)
          BY <2>1 DEF TriedEnough
      <4>2. reqs[e].tries \in Nat /\ duLeft \in 0..MaxDuEvents /\ MaxTries \in Nat /\ MaxDuEvents \in Nat
          BY <2>1, <3>1, DuplicatesAssumption DEF HashRequests, DuTypes
      <4> QED
          BY <4>1, <4>2
    <3> QED
        BY <2>2, <3>1, <3>2 DEF HashRequests, CacheRecords, HashProofs
  <2>4. /\ orig \in [Entries -> DuContents \cup {Absent}] /\ disk \in [Entries -> DuContents \cup {Absent}]
        /\ changed \subseteq Entries /\ stable \in BOOLEAN /\ backup \in BOOLEAN /\ jammed \in BOOLEAN
        /\ Cardinality(CacheRows) <= MaxCacheRows /\ duLeft \in 0..MaxDuEvents
      BY <2>1, <2>2 DEF DuTypes
  <2>5. wk.pc \in {"idle", "loop", "claimed", "read", "kept", "cached", "closing"} /\ wk.n \in 0..WorkBatch
      BY <2>1 DEF DuTypes, WorkerForms
  <2> QED
      BY <2>3, <2>4, <2>5 DEF DuTypeOK
<1> QED
    BY <1>1, CopiesInvariance, PTL

-----------------------------------------------------------------------------
(* The four parts together.                                                  *)

\* What the parts of a job rely on holds when all four work at once, in any order of
\* their steps (job_reconciliation.py, backup_analysis.py, duplicate_scanning.py).
THEOREM JobWorkIsSound == WorkSpec => []JobsSound
<1>1. WorkSpec => [](SchedTypeOK /\ JobTypeOK)
    BY TypeCorrect DEF WorkSpec
<1>2. WorkSpec => [](GenerationsOrdered /\ ScheduleMatchesContent /\ StartIsRecorded)
    BY NoGenerationBack, ScheduleIsCurrent, StartsAreRecorded, PTL DEF WorkSpec
<1>3. WorkSpec => [](AnTypeOK /\ SnapshotIsTrue /\ PlanMakesCopy /\ ParentsFirst)
    BY ContentsTypes, SnapshotsAreTrue, PlansMakeCopies, FoldersComeFirst, PTL DEF WorkSpec
<1>4. WorkSpec => [](DuTypeOK /\ FindsEveryCopy /\ EvidenceIsOfSnapshot /\ StatusLoads)
    BY CopiesTypes, EveryCopyIsFound, PTL DEF WorkSpec
<1> QED
    BY <1>1, <1>2, <1>3, <1>4, PTL DEF JobsSound
=============================================================================
