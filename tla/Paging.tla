------------------------------- MODULE Paging -------------------------------
(***************************************************************************)
(* How the window reads long lists: a screen asks for one page at a time   *)
(* through a latest-wins worker, the host answers from the catalog with a  *)
(* keyset (or, for jobs, an offset) query, answers pass a coalescer, the    *)
(* next page is fetched ahead, and the rows change meanwhile.  One list is  *)
(* followed per behaviour.  The report of identical files is read the same  *)
(* way, page after page, into a file.                                       *)
(***************************************************************************)
EXTENDS Naturals, Sequences, FiniteSets

CONSTANTS
    Lists,          \* the lists to follow, a subset of ListKinds
    PageLimit,      \* rows per page
    MaxPending,     \* queries a worker keeps waiting (max_pending)
    MaxReportRows,  \* DUPLICATE_REPORT_MAX_ROWS
    MaxPgActs,      \* bound: what the user does
    MaxPgTrouble    \* bound: changes of the rows, other queries, failing reads

ListKinds == {"HISTORY", "CHANGES", "OPERATIONS", "JOBS", "GROUPS", "MEMBERS",
              "DETAIL", "PREVIEW", "REPORT", "MERGE"}

ASSUME PgAssumption ==
    /\ Lists \subseteq ListKinds
    /\ PageLimit \in Nat \ {0} /\ MaxPending \in Nat \ {0}
    /\ {MaxReportRows, MaxPgActs, MaxPgTrouble} \subseteq Nat

VARIABLES
    list,   \* the list this behaviour is about
    rows,   \* first key of each row in the catalog, 0 for a row that is not there
    win,    \* the screen: what is asked for, which page, what is shown
    lane,   \* the worker and its queue
    box,    \* the answer waiting in the coalescer
    pf,     \* the worker that reads ahead
    cache,  \* the page read ahead
    ghost,  \* what the user saw since the list was opened
    ex,     \* the export of the report
    scan,   \* the duplicate scan as its last status said
    pgc     \* bounds used up

pgVars == <<list, rows, win, lane, box, pf, cache, ghost, ex, scan, pgc>>

Rows == 1..4
Contexts == 1..3
MaxTime == 4
NoCursor == <<0, 0, 0>>
NoReq == [ctx |-> 0, index |-> 0, cursor |-> NoCursor]
NoPage == [req |-> NoReq, ids |-> {}, more |-> FALSE, next |-> NoCursor,
           there |-> {}]

Coalesced == {"HISTORY", "CHANGES", "OPERATIONS", "JOBS", "DETAIL", "PREVIEW"}
Guarded == {"GROUPS", "MEMBERS"}
OnePage == {"DETAIL", "PREVIEW"}

----------------------------------------------------------------------------
\* The catalog.  A history row is an initial control, a requested control or a
\* backup; BACKUP sorts before CONTROL.

InitialControls == {1}
RequestedControls == {2}
Backups == {3, 4}
KindOf(r) == IF r \in Backups THEN 1 ELSE 2
KeyIn(R, r) == <<R[r], KindOf(r), r>>

Less(a, b) ==
    \/ a[1] < b[1]
    \/ a[1] = b[1] /\ a[2] < b[2]
    \/ a[1] = b[1] /\ a[2] = b[2] /\ a[3] < b[3]

\* History is read newest first, every other list upwards.
Newest(R, S, n) ==
    {r \in S : Cardinality({q \in S : Less(KeyIn(R, r), KeyIn(R, q))}) < n}
Lowest(R, S, n) ==
    {r \in S : Cardinality({q \in S : Less(KeyIn(R, q), KeyIn(R, r))}) < n}

\* _history_scope: the rows of one kind below a cursor that may be of another.
HistoryScope(R, kind, S, after) ==
    {r \in S : \/ after = NoCursor
               \/ R[r] < after[1]
               \/ kind = after[2] /\ R[r] = after[1] /\ r < after[3]
               \/ kind < after[2] /\ R[r] = after[1]}

Present(R) == {r \in Rows : R[r] # 0}

\* The three queries, each with its own limit.
InitialControlRows(R, after, n) ==
    Newest(R, HistoryScope(R, 2, InitialControls \intersect Present(R), after), n)
RequestedControlRows(R, after, n) ==
    Newest(R, HistoryScope(R, 2, RequestedControls \intersect Present(R), after), n)
BackupRows(R, after, n) ==
    Newest(R, HistoryScope(R, 1, Backups \intersect Present(R), after), n)

\* Filter 1 is ALL, 2 CONTROLS, 3 BACKUPS.
HistoryRows(R, filter, after, n) ==
    Newest(R, (IF filter = 3 THEN {}
                 ELSE InitialControlRows(R, after, n)
                        \union RequestedControlRows(R, after, n))
              \union (IF filter = 2 THEN {} ELSE BackupRows(R, after, n)), n)

\* The rows of a keyset query in the order of its three keys.
KeysetRows(S, after, n) ==
    Lowest(rows, {r \in S : after = NoCursor \/ Less(after, KeyIn(rows, r))}, n)

\* A plan is sealed: all operations, those of one risk, those of another plan.
Operations(ctx) ==
    {r \in Present(rows) : CASE ctx = 1 -> TRUE [] ctx = 2 -> r # 2 [] ctx = 3 -> r < 3}
OperationRows(ctx, after, n) == KeysetRows(Operations(ctx), after, n)

\* Groups of an analysis, members of a group; the report joins both.
Found(ctx) == {r \in Present(rows) : ctx = 1 \/ r # 2}
GroupRows(ctx, after, n) == KeysetRows(Found(ctx), after, n)
MemberRows(ctx, after, n) == KeysetRows(Found(ctx), after, n)
ReportRows(after, n) == KeysetRows(Present(rows), after, n)

\* Jobs of one lifecycle state by position.
JobsOf(ctx) == {r \in Rows : rows[r] = ctx}
JobRows(ctx, offset, n) ==
    {r \in JobsOf(ctx) : LET before == Cardinality({q \in JobsOf(ctx) : q < r})
                         IN  before >= offset /\ before < offset + n}

\* Every row of the list, to compare a walk through its pages with.
Everything(ctx) ==
    CASE list = "HISTORY" -> HistoryRows(rows, ctx, NoCursor, Cardinality(Rows))
      [] list \in {"CHANGES", "OPERATIONS"} -> Operations(ctx)
      [] list = "JOBS" -> JobsOf(ctx)
      [] list \in Guarded -> Found(ctx)
      [] OTHER -> {}

LastOf(S) ==
    CHOOSE r \in S : \A q \in S :
        q = r \/ IF list = "HISTORY" THEN Less(KeyIn(rows, r), KeyIn(rows, q))
                                     ELSE Less(KeyIn(rows, q), KeyIn(rows, r))

\* The cursor of the last row of the page, when there is more.
NextCursor(page, more) == IF more THEN KeyIn(rows, LastOf(page)) ELSE NoCursor

\* One row more than the page holds tells whether there is another page.
PageOf(req, S) ==
    LET page == IF list = "HISTORY" THEN Newest(rows, S, PageLimit)
                                    ELSE Lowest(rows, S, PageLimit)
        more == Cardinality(S) > PageLimit
    IN  [req |-> req, ids |-> page, more |-> more,
         next |-> NextCursor(page, more),
         there |-> IF req.index = 1 THEN Everything(req.ctx) ELSE {}]

ReadHistory(req) == PageOf(req, HistoryRows(rows, req.ctx, req.cursor, PageLimit + 1))

\* Operations of a plan: its changes, or what a run did.
ReadOperations(req) == PageOf(req, OperationRows(req.ctx, req.cursor, PageLimit + 1))

ReadGroups(req) == PageOf(req, GroupRows(req.ctx, req.cursor, PageLimit + 1))
ReadMembers(req) == PageOf(req, MemberRows(req.ctx, req.cursor, PageLimit + 1))
ReadReport(cursor) ==
    PageOf([NoReq EXCEPT !.cursor = cursor], ReportRows(cursor, PageLimit + 1))
ReadJobs(req) ==
    LET from == (req.index - 1) * PageLimit
    IN  [NoPage EXCEPT !.req = req, !.ids = JobRows(req.ctx, from, PageLimit),
                       !.more = Cardinality(JobsOf(req.ctx)) > from + PageLimit,
                       !.there = IF req.index = 1 THEN JobsOf(req.ctx) ELSE {}]
\* The detail of one job, and the first rows of everything a plan was made of.
ReadDetail(req) == [NoPage EXCEPT !.req = req, !.ids = {req.ctx}]
ReadPreviews(req) == [PageOf(req, Operations(req.ctx)) EXCEPT !.more = FALSE,
                                                            !.next = NoCursor]

Read(req) ==
    CASE list = "HISTORY" -> ReadHistory(req)
      [] list \in {"CHANGES", "OPERATIONS"} -> ReadOperations(req)
      [] list = "JOBS" -> ReadJobs(req)
      [] list = "GROUPS" -> ReadGroups(req)
      [] list = "MEMBERS" -> ReadMembers(req)
      [] list = "DETAIL" -> ReadDetail(req)
      [] list = "PREVIEW" -> ReadPreviews(req)

----------------------------------------------------------------------------
\* The worker.  Keys "A" (the scan's status) and "B" are other queries.

IdleLane == [key |-> "NONE", req |-> NoReq, out |-> "RUNNING", page |-> NoPage,
             latest |-> TRUE, order |-> <<>>, pend |-> NoReq]

Without(order, key) == SelectSeq(order, LAMBDA k : k # key)
Waits(l, key) == key \in {l.order[i] : i \in 1..Len(l.order)}

Started(l, key, req) ==
    [l EXCEPT !.key = key, !.req = req, !.out = "RUNNING", !.page = NoPage,
              !.latest = TRUE, !.order = Without(@, key),
              !.pend = IF key = "LIST" THEN NoReq ELSE @]

\* A full queue takes no further key.
Refused(l, key) ==
    l.key # "NONE" /\ ~Waits(l, key) /\ Len(l.order) >= MaxPending

\* submit: start at once, or wait, replacing an older question of the key.
Submitted(l, key, req) ==
    IF l.key = "NONE" THEN Started(l, key, req)
    ELSE [l EXCEPT !.order = IF Waits(l, key) THEN @ ELSE Append(@, key),
                   !.pend = IF key = "LIST" THEN req ELSE @,
                   !.latest = @ /\ l.key # key]

\* cancel: nothing of this key is delivered any more.
Cancelled(l, key) ==
    [l EXCEPT !.latest = @ /\ l.key # key, !.order = Without(@, key),
              !.pend = IF key = "LIST" THEN NoReq ELSE @]

StartNext(l) ==
    LET free == [l EXCEPT !.key = "NONE"]
    IN  IF l.order = <<>> THEN [IdleLane EXCEPT !.order = <<>>]
        ELSE Started(free, Head(l.order), IF Head(l.order) = "LIST" THEN l.pend ELSE NoReq)

----------------------------------------------------------------------------
\* The screen.

Place(w) == [ctx |-> w.ctx, index |-> w.index, cursor |-> w.cursors[w.index]]

\* Mutant: an answer is taken for the list, whatever page it is of.
SameList(w, req) == req.ctx = w.ctx

\* An answer is for the screen as it is now: filters, page and cursor.
HistoryContextMatches(w, req) == req = Place(w)
ChangesContextMatches(w, req) == req = Place(w)
OperationContextMatches(w, req) == req = Place(w)
\* Jobs: offset and lifecycle filter.  One page: the job or the plan.
JobsContextMatches(w, req) == req.ctx = w.ctx /\ req.index = w.index
DetailMatches(w, req) == req.ctx = w.ctx
\* Groups and members: the page number is read when the answer comes, so only
\* the analysis or the group is compared.
GroupMatches(w, req) == req.ctx = w.ctx

Matches(w, req) ==
    CASE list = "HISTORY" -> HistoryContextMatches(w, req)
      [] list = "CHANGES" -> ChangesContextMatches(w, req)
      [] list = "OPERATIONS" -> OperationContextMatches(w, req)
      [] list = "JOBS" -> JobsContextMatches(w, req)
      [] list \in OnePage -> DetailMatches(w, req)
      [] list \in Guarded -> GroupMatches(w, req)

NoAhead == [at |-> "NONE", req |-> NoReq, page |-> NoPage, good |-> FALSE,
            next |-> NoReq, nextGood |-> FALSE]

\* Ask for the page the screen w is at; a full queue refuses.
Ask(w, l, g) ==
    \/ /\ Refused(l, "LIST")
       /\ win' = [w EXCEPT !.pending = FALSE]
       /\ lane' = l
       /\ ghost' = [g EXCEPT !.lost = TRUE]
    \/ /\ ~Refused(l, "LIST")
       /\ win' = [w EXCEPT !.pending = TRUE]
       /\ lane' = Submitted(l, "LIST", Place(w))
       /\ ghost' = g

\* A group or member list that still waits asks nothing.
AskUnlessWaiting(w, l, g) ==
    \/ w.pending /\ win' = w /\ lane' = l /\ ghost' = g
    \/ ~w.pending /\ Ask(w, l, g)

RefreshHistory(w, l, g) == list = "HISTORY" /\ Ask(w, l, g)
RefreshChanges(w, l, g) == list = "CHANGES" /\ Ask(w, l, g)
RefreshOperations(w, l, g) == list = "OPERATIONS" /\ Ask(w, l, g)
RefreshJobs(w, l, g) == list = "JOBS" /\ Ask(w, l, g)
RefreshDetail(w, l, g) == list = "DETAIL" /\ Ask(w, l, g)
RefreshPreviews(w, l, g) == list = "PREVIEW" /\ Ask(w, l, g)
RefreshGroups(w, l, g) == list = "GROUPS" /\ AskUnlessWaiting(w, l, g)
RefreshMembers(w, l, g) == list = "MEMBERS" /\ AskUnlessWaiting(w, l, g)

Refresh(w, l, g) ==
    \/ RefreshHistory(w, l, g) \/ RefreshChanges(w, l, g) \/ RefreshOperations(w, l, g)
    \/ RefreshJobs(w, l, g) \/ RefreshDetail(w, l, g) \/ RefreshPreviews(w, l, g)
    \/ RefreshGroups(w, l, g) \/ RefreshMembers(w, l, g)

\* The page after the one shown, as the screen would ask for it.
NextPlace(w) ==
    [ctx |-> w.ctx, index |-> w.index + 1, cursor |-> w.shown.next]

AheadCancelled == [pf EXCEPT !.good = FALSE, !.next = NoReq, !.nextGood = FALSE]

\* Read the following page ahead, unless one is waiting to be read already;
\* what was asked for the page shown before is of no use any more.
ReadAhead(w) ==
    LET stale == [pf EXCEPT !.good = FALSE, !.nextGood = FALSE]
    IN  IF ~w.shown.more \/ pf.next # NoReq THEN stale
        ELSE IF pf.at = "NONE"
          THEN [NoAhead EXCEPT !.at = "RUNNING", !.req = NextPlace(w), !.good = TRUE]
          ELSE [stale EXCEPT !.next = NextPlace(w), !.nextGood = TRUE]

ScheduledHistory(w) == ReadAhead(w)
ScheduledChanges(w) == ReadAhead(w)
ScheduledOperations(w) == ReadAhead(w)

Scheduled(w) ==
    CASE list = "HISTORY" -> ScheduledHistory(w)
      [] list = "CHANGES" -> ScheduledChanges(w)
      [] list = "OPERATIONS" -> ScheduledOperations(w)
      [] OTHER -> pf

\* A page is put on the screen w.
Install(w, page) ==
    /\ win' = [w EXCEPT !.shown = page, !.pending = FALSE]
    /\ pf' = Scheduled([w EXCEPT !.shown = page])
    /\ cache' = NoPage
    /\ ghost' = IF page.req.index = 1 /\ w.index = 1
                  THEN [seen |-> page.ids, since |-> page.there, lost |-> FALSE]
                  ELSE [ghost EXCEPT !.seen = @ \union page.ids]

\* An answer that is not for the screen as it is now is dropped.
Accept(page) ==
    IF Matches(win, page.req) THEN Install(win, page)
    ELSE UNCHANGED <<win, pf, cache, ghost>>

AcceptHistory(page) == list = "HISTORY" /\ Accept(page)
AcceptChanges(page) == list = "CHANGES" /\ Accept(page)
AcceptOperations(page) == list = "OPERATIONS" /\ Accept(page)
AcceptJobs(page) == list = "JOBS" /\ Accept(page)
AcceptDetail(page) == list = "DETAIL" /\ Accept(page)
AcceptPreviews(page) == list = "PREVIEW" /\ Accept(page)
AcceptGroups(page) == list = "GROUPS" /\ Accept(page)
AcceptMembers(page) == list = "MEMBERS" /\ Accept(page)

\* A failed read of what the screen is at ends the wait.
EndWait(shown) ==
    IF Matches(win, lane.req)
      THEN /\ win' = [win EXCEPT !.pending = FALSE, !.shown = shown]
           /\ ghost' = [ghost EXCEPT !.lost = TRUE]
      ELSE UNCHANGED <<win, ghost>>

\* The old page stays; groups and members show an empty page instead.
RejectHistory == list = "HISTORY" /\ EndWait(win.shown)
RejectChanges == list = "CHANGES" /\ EndWait(win.shown)
RejectOperations == list = "OPERATIONS" /\ EndWait(win.shown)
RejectJobs == list = "JOBS" /\ EndWait(win.shown)
RejectDetail == list = "DETAIL" /\ EndWait(win.shown)
RejectPreviews == list = "PREVIEW" /\ EndWait(win.shown)
RejectGroups == list = "GROUPS" /\ EndWait(NoPage)
RejectMembers == list = "MEMBERS" /\ EndWait(NoPage)

RejectPage ==
    \/ RejectHistory \/ RejectChanges \/ RejectOperations \/ RejectJobs
    \/ RejectDetail \/ RejectPreviews \/ RejectGroups \/ RejectMembers

Following == list \notin {"REPORT", "MERGE"}
UserActs == Following /\ pgc.acts < MaxPgActs /\ pgc' = [pgc EXCEPT !.acts = @ + 1]
EventHappens == pgc.trouble < MaxPgTrouble /\ pgc' = [pgc EXCEPT !.trouble = @ + 1]

\* The next page: the one read ahead if it is exactly that page, or a query.
ShowNext ==
    /\ UserActs
    /\ ~win.pending /\ win.shown.more
    /\ LET w == [win EXCEPT !.index = @ + 1,
                            !.cursors = Append(SubSeq(@, 1, win.index), win.shown.next)]
       IN  IF cache.req = NextPlace(win)
             THEN Install(w, cache) /\ UNCHANGED lane
             ELSE /\ pf' = AheadCancelled /\ cache' = NoPage
                  /\ Refresh(w, lane, ghost)
    /\ UNCHANGED <<list, rows, box, ex, scan>>

NextHistory == list = "HISTORY" /\ ShowNext
NextChanges == list = "CHANGES" /\ ShowNext
NextOperations == list = "OPERATIONS" /\ ShowNext
NextJobs == list = "JOBS" /\ ShowNext
NextGroups == list = "GROUPS" /\ ShowNext
NextMembers == list = "MEMBERS" /\ ShowNext

ShowPrevious ==
    /\ UserActs
    /\ ~win.pending /\ win.index > 1
    /\ pf' = AheadCancelled /\ cache' = NoPage
    /\ Refresh([win EXCEPT !.index = @ - 1], lane, ghost)
    /\ UNCHANGED <<list, rows, box, ex, scan>>

PreviousHistory == list = "HISTORY" /\ ShowPrevious
PreviousChanges == list = "CHANGES" /\ ShowPrevious
PreviousOperations == list = "OPERATIONS" /\ ShowPrevious
PreviousJobs == list = "JOBS" /\ ShowPrevious
PreviousGroups == list = "GROUPS" /\ ShowPrevious
PreviousMembers == list = "MEMBERS" /\ ShowPrevious

AtStart(w, c) == [w EXCEPT !.ctx = c, !.index = 1, !.cursors = <<NoCursor>>]

\* Another filter: back to the first page; the question under way is overtaken.
SetFilter ==
    /\ UserActs
    /\ \E c \in Contexts \ {win.ctx} :
          /\ list = "JOBS" => c # 3
          /\ Refresh(AtStart(win, c), lane, ghost)
    /\ pf' = AheadCancelled /\ cache' = NoPage
    /\ UNCHANGED <<list, rows, box, ex, scan>>

SetHistoryFilter == list = "HISTORY" /\ SetFilter
SetChangesFilter == list = "CHANGES" /\ SetFilter
SetJobsFilter == list = "JOBS" /\ ~win.pending /\ SetFilter

\* Another activity, job, plan or group: its list starts anew.
Select(blank, cancel) ==
    /\ UserActs
    /\ \E c \in 1..2 \ {win.ctx} :
         Refresh([AtStart(win, c) EXCEPT !.shown = IF blank THEN NoPage ELSE @,
                                         !.pending = @ /\ ~cancel],
                 IF cancel THEN Cancelled(lane, "LIST") ELSE lane, ghost)
    /\ pf' = AheadCancelled /\ cache' = NoPage
    /\ box' = IF cancel THEN NoPage ELSE box
    /\ UNCHANGED <<list, rows, ex, scan>>

SelectActivity == list = "OPERATIONS" /\ Select(FALSE, TRUE)
SelectJob == list = "DETAIL" /\ Select(TRUE, FALSE)
SelectPlan == list = "PREVIEW" /\ Select(TRUE, TRUE)
SelectGroup == list = "MEMBERS" /\ Select(TRUE, TRUE)

\* Another analysis: everything is cancelled, the scan's status is asked for,
\* and its answer asks for the groups.
SelectAnalysis ==
    /\ list = "GROUPS" /\ UserActs
    /\ \E c \in 1..2 \ {win.ctx} :
          win' = [AtStart(win, c) EXCEPT !.shown = NoPage, !.pending = FALSE]
    /\ LET l == Cancelled(Cancelled(lane, "LIST"), "A")
       IN  /\ lane' = IF Refused(l, "A") THEN l ELSE Submitted(l, "A", NoReq)
           /\ scan' = [state |-> "ACTIVE", ask |-> ~Refused(l, "A")]
    /\ UNCHANGED <<list, rows, box, pf, cache, ghost, ex>>

\* The status refresh, or the end of a command, asks for the page again.
RefreshAgain ==
    /\ UserActs
    /\ Refresh(win, lane, ghost)
    /\ UNCHANGED <<list, rows, box, pf, cache, ex, scan>>

\* Other screens use the same worker.
OtherQuery ==
    /\ Following /\ EventHappens
    /\ \E k \in {"A", "B"} :
          /\ ~Refused(lane, k)
          /\ lane' = Submitted(lane, k, NoReq)
    /\ UNCHANGED <<list, rows, win, box, pf, cache, ghost, ex, scan>>

----------------------------------------------------------------------------
\* The worker's side.

WorkerReads ==
    /\ lane.key = "LIST" /\ lane.out = "RUNNING" /\ lane.latest
    /\ \/ lane' = [lane EXCEPT !.out = "READ", !.page = Read(lane.req)] /\ UNCHANGED pgc
       \/ lane' = [lane EXCEPT !.out = "FAILED"] /\ EventHappens
    /\ UNCHANGED <<list, rows, win, box, pf, cache, ghost, ex, scan>>

\* _on_worker_finished: only the newest question of its key is answered.
WorkerFinished ==
    /\ lane.key = "LIST" /\ (lane.latest => lane.out # "RUNNING")
    /\ lane' = StartNext(lane)
    /\ \/ ~lane.latest /\ UNCHANGED <<win, box, pf, cache, ghost>>
       \/ /\ lane.latest /\ lane.out = "FAILED" /\ RejectPage
          /\ UNCHANGED <<box, pf, cache>>
       \/ /\ lane.latest /\ lane.out = "READ" /\ list \in Coalesced
          /\ box' = lane.page
          /\ UNCHANGED <<win, pf, cache, ghost>>
       \/ /\ lane.latest /\ lane.out = "READ"
          /\ AcceptGroups(lane.page) \/ AcceptMembers(lane.page)
          /\ UNCHANGED box
    /\ UNCHANGED <<list, rows, ex, scan, pgc>>

\* The scan's status: its end sends the group list back to its first page,
\* which is asked for unless another page is still awaited.
ScanStatus(ended) ==
    LET w == IF ended THEN AtStart(win, win.ctx) ELSE win
        g == [ghost EXCEPT !.lost = @ \/ (ended /\ win.pending /\ win.index # 1)]
    IN  /\ scan' = [state |-> IF ended THEN "ENDED" ELSE scan.state, ask |-> FALSE]
        /\ IF (ended \/ scan.ask) /\ ~win.pending
             THEN Refresh(w, [lane EXCEPT !.key = "NONE"], g)
             ELSE win' = w /\ lane' = StartNext(lane) /\ ghost' = g

OtherFinished ==
    /\ lane.key \in {"A", "B"}
    /\ IF list = "GROUPS" /\ lane.key = "A" /\ lane.latest
         THEN ScanStatus(FALSE) \/ (scan.state = "ACTIVE" /\ ScanStatus(TRUE))
         ELSE lane' = StartNext(lane) /\ UNCHANGED <<win, ghost, scan>>
    /\ UNCHANGED <<list, rows, box, pf, cache, ex, pgc>>

\* The coalescer's timer.
Flush ==
    /\ box # NoPage
    /\ box' = NoPage
    /\ \/ AcceptHistory(box) \/ AcceptChanges(box) \/ AcceptOperations(box)
       \/ AcceptJobs(box) \/ AcceptDetail(box) \/ AcceptPreviews(box)
    /\ UNCHANGED <<list, rows, lane, ex, scan, pgc>>

AheadReads ==
    /\ pf.at = "RUNNING"
    /\ \/ pf' = [pf EXCEPT !.at = "READ",
                           !.page = IF pf.good THEN Read(pf.req) ELSE NoPage]
          /\ UNCHANGED pgc
       \/ pf' = [pf EXCEPT !.at = "FAILED"] /\ EventHappens
    /\ UNCHANGED <<list, rows, win, lane, box, cache, ghost, ex, scan>>

\* It is kept if it still is the page after the one shown.
KeepAhead == pf.at = "READ" /\ pf.good /\ win.shown.more /\ pf.req = NextPlace(win)

AheadFinished ==
    /\ pf.at \in {"READ", "FAILED"}
    /\ cache' = IF KeepAhead THEN pf.page ELSE cache
    /\ pf' = IF pf.next = NoReq THEN NoAhead
             ELSE [NoAhead EXCEPT !.at = "RUNNING", !.req = pf.next, !.good = pf.nextGood]
    /\ UNCHANGED <<list, rows, win, lane, box, ghost, ex, scan, pgc>>

----------------------------------------------------------------------------
\* The rows change.

Latest == CHOOSE t \in 0..MaxTime : (\E r \in Rows : rows[r] = t)
                                    /\ \A r \in Rows : rows[r] <= t

\* Rows whose place in the list changed are not promised any more.
Forget(S) ==
    /\ ghost' = [ghost EXCEPT !.since = @ \ S]
    /\ lane' = [lane EXCEPT !.page.there = @ \ S]
    /\ box' = [box EXCEPT !.there = @ \ S]

\* A control or a backup begins, or a requested control that was waiting is
\* started and takes the time of its start.
HistoryGrows ==
    /\ list = "HISTORY" /\ EventHappens
    /\ \E r \in Rows, t \in {Latest, Latest + 1} :
          /\ t <= MaxTime
          /\ rows[r] = 0 \/ (r \in RequestedControls /\ rows[r] < t)
          /\ rows' = [rows EXCEPT ![r] = t]
          /\ Forget({r})
    /\ UNCHANGED <<list, win, pf, cache, ex, scan>>

\* The scan finds another group or member, anywhere in the order.
GroupsGrow ==
    /\ list \in {"GROUPS", "MEMBERS", "REPORT"} /\ EventHappens
    /\ \E r \in Rows : rows[r] = 0 /\ rows' = [rows EXCEPT ![r] = 1]
    /\ UNCHANGED <<list, win, lane, box, pf, cache, ghost, ex, scan>>

\* A job is created, archived or taken back: positions shift.
JobsChange ==
    /\ list = "JOBS" /\ EventHappens
    /\ \E r \in Rows, c \in 1..2 : rows[r] # c /\ rows' = [rows EXCEPT ![r] = c]
    /\ Forget(Rows)
    /\ UNCHANGED <<list, win, pf, cache, ex, scan>>

----------------------------------------------------------------------------
\* export_duplicate_report_csv.

ExportBegins ==
    /\ list = "REPORT" /\ ex.at = "IDLE"
    /\ ex' = [ex EXCEPT !.at = "READING", !.tmp = TRUE]
    /\ ghost' = [ghost EXCEPT !.since = Present(rows)]
    /\ UNCHANGED <<list, rows, win, lane, box, pf, cache, scan, pgc>>

ExportGivenUp == [ex EXCEPT !.at = "FAILED", !.tmp = FALSE, !.got = {}]

\* A page is added to the temporary file.
Written(page) ==
    [ex EXCEPT !.cursor = page.next, !.got = @ \union page.ids,
               !.count = @ + Cardinality(page.ids),
               !.at = IF page.more THEN "READING" ELSE "WRITTEN"]

ExportPage ==
    /\ ex.at = "READING"
    /\ LET page == ReadReport(ex.cursor)
       IN  ex' = IF ex.count + Cardinality(page.ids) > MaxReportRows
                      \/ (page.more /\ page.next = ex.cursor)
                   THEN ExportGivenUp
                   ELSE Written(page)
    /\ UNCHANGED <<list, rows, win, lane, box, pf, cache, ghost, scan, pgc>>

\* The temporary file takes the place of the destination.
ExportReplaces ==
    /\ ex.at = "WRITTEN"
    /\ ex' = [ex EXCEPT !.at = "DONE", !.tmp = FALSE, !.new = TRUE, !.file = ex.got]
    /\ UNCHANGED <<list, rows, win, lane, box, pf, cache, ghost, scan, pgc>>

\* A read, a write or the cancellation fails; or the window's process ends.
ExportFails ==
    /\ ex.at \in {"READING", "WRITTEN"} /\ EventHappens
    /\ ex' = ExportGivenUp \/ ex' = [ex EXCEPT !.at = "CUT", !.got = {}]
    /\ UNCHANGED <<list, rows, win, lane, box, pf, cache, ghost, scan>>

----------------------------------------------------------------------------
FirstScreen == [ctx |-> 1, index |-> 1, cursors |-> <<NoCursor>>,
                pending |-> TRUE, shown |-> NoPage]

\* The rows a list may start with.
Seeds(l) ==
    CASE l = "HISTORY" -> {<<1, 2, 2, 0>>}
      [] l = "MERGE" -> [Rows -> 0..2]
      [] l = "JOBS" -> {<<1, 1, 2, 1>>}
      [] l \in {"GROUPS", "MEMBERS", "REPORT"} -> {<<1, 1, 0, 1>>}
      [] OTHER -> {<<2, 1, 1, 2>>}

PgInit ==
    /\ list \in Lists
    /\ rows \in Seeds(list)
    /\ win = IF Following THEN FirstScreen ELSE [FirstScreen EXCEPT !.pending = FALSE]
    /\ lane = IF Following THEN Started(IdleLane, "LIST", Place(FirstScreen)) ELSE IdleLane
    /\ box = NoPage /\ pf = NoAhead /\ cache = NoPage
    /\ ghost = [seen |-> {}, since |-> {}, lost |-> FALSE]
    /\ ex = [at |-> "IDLE", cursor |-> NoCursor, got |-> {}, count |-> 0,
             tmp |-> FALSE, new |-> FALSE, file |-> {}]
    /\ scan = [state |-> "ACTIVE", ask |-> FALSE]
    /\ pgc = [acts |-> 0, trouble |-> 0]

UserSteps ==
    \/ NextHistory \/ NextChanges \/ NextOperations \/ NextJobs \/ NextGroups
    \/ NextMembers \/ PreviousHistory \/ PreviousChanges \/ PreviousOperations
    \/ PreviousJobs \/ PreviousGroups \/ PreviousMembers \/ SetHistoryFilter
    \/ SetChangesFilter \/ SetJobsFilter \/ SelectActivity \/ SelectJob
    \/ SelectPlan \/ SelectGroup \/ SelectAnalysis \/ RefreshAgain

WorkerSteps == WorkerReads \/ WorkerFinished \/ OtherFinished
ExportSteps == ExportBegins \/ ExportPage \/ ExportReplaces

PgNext ==
    \/ UserSteps \/ OtherQuery \/ WorkerSteps \/ Flush
    \/ AheadReads \/ AheadFinished
    \/ HistoryGrows \/ GroupsGrow \/ JobsChange
    \/ ExportSteps \/ ExportFails

\* The worker's thread and the event loop run on.
PgFairness ==
    /\ WF_pgVars(WorkerSteps)
    /\ WF_pgVars(Flush)

----------------------------------------------------------------------------
\* The type invariant; the queue keeps its bound and holds no key twice.
PgTypeOK ==
    /\ list \in Lists /\ rows \in [Rows -> 0..MaxTime]
    /\ win.ctx \in Contexts /\ win.index \in 1..Len(win.cursors)
    /\ win.pending \in BOOLEAN /\ win.shown.ids \subseteq Rows
    /\ lane.key \in {"NONE", "LIST", "A", "B"}
    /\ lane.out \in {"RUNNING", "READ", "FAILED"}
    /\ Len(lane.order) <= MaxPending
    /\ Cardinality({lane.order[i] : i \in 1..Len(lane.order)}) = Len(lane.order)
    /\ Waits(lane, "LIST") <=> lane.pend # NoReq
    /\ ex.at \in {"IDLE", "READING", "WRITTEN", "DONE", "FAILED", "CUT"}

\* The rows of a filter below a cursor, in the order of the whole timeline.
Timeline(R, filter, after) ==
    {r \in Present(R) : /\ filter = 2 => r \notin Backups
                        /\ filter = 3 => r \in Backups
                        /\ after = NoCursor \/ Less(KeyIn(R, r), after)}

\* The page merged from the three limited queries of the history
\* (list_recent_history_activities) is the next page of the whole timeline, for
\* every filter, every cursor and every number of rows.
MergeIsTimeline ==
    list = "MERGE" =>
        \A filter \in 1..3, n \in 1..3,
           after \in {NoCursor} \union ((1..2) \X (1..2) \X Rows) :
            HistoryRows(rows, filter, after, n)
                = Newest(rows, Timeline(rows, filter, after), n)

\* What a screen shows while it waits for nothing is the page it says it is at:
\* no late answer, no page read ahead and no overtaken question is taken for
\* another page.  A page request that failed or was refused may leave the old
\* page, and the end of a scan may find another page on its way.
ShownIsPlace ==
    Following /\ ~win.pending /\ ~ghost.lost /\ win.shown # NoPage
        => win.shown.req = Place(win)

\* Paging forward to the end shows every row that was there when the first page
\* was read and kept its key, unless a page request was lost on the way.
NothingSkipped ==
    Following /\ ~win.pending /\ ~ghost.lost /\ win.shown # NoPage /\ ~win.shown.more
        => ghost.since \subseteq ghost.seen

\* The cursors of the pages gone through only move forward and a page lies
\* beyond its cursor, so that no row appears on two pages; after a page request
\* that was lost the same cursor may be gone through again.
PagesAdvance ==
    ~ghost.lost /\ list \in {"HISTORY", "CHANGES", "OPERATIONS", "GROUPS", "MEMBERS"} =>
        \A i \in 2..win.index :
            IF list = "HISTORY"
              THEN i > 2 => Less(win.cursors[i], win.cursors[i - 1])
              ELSE Less(win.cursors[i - 1], win.cursors[i])

\* The exported report is whole or not there: the destination is only ever
\* replaced by a report with every row found before the export began, no row
\* twice, and a failed export leaves neither a part nor its temporary file.
ExportIsWhole ==
    /\ ~ex.new => ex.file = {}
    /\ ex.new => ghost.since \subseteq ex.file /\ ex.count = Cardinality(ex.file)
    /\ ex.at = "FAILED" => ~ex.new /\ ~ex.tmp

\* Every wait of a screen ends, whatever is cancelled, overtaken or refused.
QueriesEnd == []<>~win.pending
=============================================================================
