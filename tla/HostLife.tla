------------------------------ MODULE HostLife ------------------------------
(***************************************************************************)
(* Host processes and those who look for them.  A host takes the mutex,    *)
(* builds its runtime, publishes itself in a file, beats, serves one        *)
(* request at a time, runs maintenance rounds in threads and leaves.        *)
(* Launchers, trigger clients and the shutdown tool find it through the     *)
(* file, clear a publication they take for dead and start a host.           *)
(***************************************************************************)
EXTENDS Naturals, FiniteSets

CONSTANTS
    MaxHosts,   \* bound: host processes ever started
    Seekers,    \* launchers, trigger clients and shutdown tools
    Company,    \* what each of them wants of a host
    MaxBeats,   \* bound: heartbeats of one host
    MaxHsFaults \* bound: crashes, failures, slept-through heartbeats

ASSUME HsAssumption ==
    /\ {MaxHosts, MaxBeats, MaxHsFaults} \subseteq Nat
    /\ Company \subseteq [Seekers -> {"open", "send", "stop"}]

VARIABLES
    hosts,   \* the processes
    mutex,   \* the process that holds the named mutex, 0 if none
    pub,     \* the publication file
    aged,    \* its heartbeat is older than its readers accept
    seek,    \* the seekers
    running, \* the catalog has an active run
    hsc      \* faults so far

hsVars == <<hosts, mutex, pub, aged, seek, running, hsc>>

Pids == 1..MaxHosts
NoPub == [pid |-> 0, beat |-> 0]
NoHost == [st |-> "none", maint |-> "off", hb |-> "off", beat |-> 0,
           quit |-> FALSE, failed |-> FALSE, excused |-> FALSE]

Alive(p) == hosts[p].st \notin {"none", "gone"}
Fault == hsc < MaxHsFaults /\ hsc' = hsc + 1

\* Bound: rounds and runs are followed where a shutdown is asked for.
RoundsFollowed == \E c \in Seekers : seek[c].goal = "stop"

----------------------------------------------------------------------------
\* run_engine_host.

\* Mutant: a second host goes on without the mutex.
LocksAnyway(p) ==
    /\ hosts[p].st = "new"
    /\ mutex' = p /\ hosts' = [hosts EXCEPT ![p].st = "building"]
    /\ UNCHANGED <<pub, aged, seek, running, hsc>>

\* _acquire_host_mutex: the second host ends.
HostLocks(p) ==
    /\ hosts[p].st = "new"
    /\ IF mutex = 0
         THEN mutex' = p /\ hosts' = [hosts EXCEPT ![p].st = "building"]
         ELSE hosts' = [hosts EXCEPT ![p].st = "gone"] /\ UNCHANGED mutex
    /\ UNCHANGED <<pub, aged, seek, running, hsc>>

\* Someone is about to unlink what was the publication a moment ago.
Raced == \E c \in Seekers : seek[c].pc = "unlink"

\* The runtime is built and the host published.
HostPublishes(p) ==
    /\ hosts[p].st = "building"
    /\ pub' = [pid |-> p, beat |-> 0] /\ aged' = FALSE
    /\ hosts' = [hosts EXCEPT ![p].st = "published", ![p].excused = Raced]
    /\ UNCHANGED <<mutex, seek, running, hsc>>

\* The threads are started and the pipe loop begins.
HostServes(p) ==
    /\ hosts[p].st = "published"
    /\ hosts' = [hosts EXCEPT ![p].st = "serving", ![p].maint = "idle", ![p].hb = "idle"]
    /\ UNCHANGED <<mutex, pub, aged, seek, running, hsc>>

\* Building, the first schedule round or the pipe loop raises.
HostFails(p) ==
    /\ hosts[p].st \in {"building", "published", "serving"} /\ ~hosts[p].quit
    /\ Fault
    /\ hosts' = [hosts EXCEPT ![p].st = "leaving", ![p].failed = TRUE]
    /\ UNCHANGED <<mutex, pub, aged, seek, running>>

\* The loop ends after the request that was granted the shutdown.
LoopEnds(p) ==
    /\ hosts[p].st = "serving" /\ hosts[p].quit
    /\ hosts' = [hosts EXCEPT ![p].st = "leaving"]
    /\ UNCHANGED <<mutex, pub, aged, seek, running, hsc>>

\* On the way out: first the heartbeat is stopped ...
StopHeartbeat(p) ==
    /\ hosts[p].st = "leaving" /\ hosts[p].hb # "read"
    /\ hosts' = [hosts EXCEPT ![p].st = "joining", ![p].hb = "off"]
    /\ UNCHANGED <<mutex, pub, aged, seek, running, hsc>>

\* ... then the maintenance threads, which are waited for a few seconds only ...
StopMaintenance(p) ==
    /\ hosts[p].st = "joining"
    /\ hosts' = [hosts EXCEPT ![p].st = "closing",
                              ![p].maint = IF @ = "busy" THEN @ ELSE "off"]
    /\ UNCHANGED <<mutex, pub, aged, seek, running, hsc>>

\* ... then the publication is withdrawn if it still is this host's last one ...
Withdraw(p) ==
    /\ hosts[p].st = "closing"
    /\ hosts' = [hosts EXCEPT ![p].st = "withdrawn"]
    /\ pub' = IF pub = [pid |-> p, beat |-> hosts[p].beat] THEN NoPub ELSE pub
    /\ aged' = (aged /\ pub' # NoPub)
    /\ UNCHANGED <<mutex, seek, running, hsc>>

\* ... then the mutex is closed, and the process ends with its threads.
ReleaseMutex(p) ==
    /\ hosts[p].st = "withdrawn"
    /\ hosts' = [hosts EXCEPT ![p].st = "released"]
    /\ mutex' = IF mutex = p THEN 0 ELSE mutex
    /\ UNCHANGED <<pub, aged, seek, running, hsc>>

ProcessEnds(p) ==
    /\ hosts[p].st = "released"
    /\ hosts' = [hosts EXCEPT ![p].st = "gone", ![p].maint = "off"]
    /\ UNCHANGED <<mutex, pub, aged, seek, running, hsc>>

\* A process that is killed takes its threads and its mutex with it.
Killed(p) == [hosts EXCEPT ![p].st = "gone", ![p].maint = "off", ![p].hb = "off"]

FreedBy(p) == IF mutex = p THEN 0 ELSE mutex

HostCrashes(p) ==
    /\ Alive(p) /\ Fault
    /\ hosts' = Killed(p) /\ mutex' = FreedBy(p)
    /\ UNCHANGED <<pub, aged, seek, running>>

----------------------------------------------------------------------------
\* Its threads.

\* try_begin_maintenance: no round begins once the shutdown was granted; the
\* thread ends.
RoundBegins(p) ==
    /\ hosts[p].maint = "idle" /\ RoundsFollowed
    /\ hosts[p].st \in {"serving", "leaving", "joining"}
    /\ hosts' = [hosts EXCEPT ![p].maint = IF hosts[p].quit THEN "off" ELSE "busy"]
    /\ UNCHANGED <<mutex, pub, aged, seek, running, hsc>>

\* A round may start a due backup or finish the one that runs.  One round of a
\* host is followed.
RoundEnds(p) ==
    /\ hosts[p].maint = "busy"
    /\ hosts' = [hosts EXCEPT ![p].maint = "off"]
    /\ running' \in BOOLEAN
    /\ UNCHANGED <<mutex, pub, aged, seek, hsc>>

\* The heartbeat rewrites the publication only if it is the one it wrote last;
\* otherwise the loop ends.
BeatReads(p) ==
    /\ hosts[p].hb = "idle" /\ hosts[p].st = "serving"
    /\ hosts[p].beat < MaxBeats
    /\ hosts' = [hosts EXCEPT ![p].hb =
                    IF pub = [pid |-> p, beat |-> hosts[p].beat] THEN "read" ELSE "ended"]
    /\ UNCHANGED <<mutex, pub, aged, seek, running, hsc>>

BeatPublishes(p) ==
    /\ hosts[p].hb = "read"
    /\ pub' = [pid |-> p, beat |-> hosts[p].beat + 1] /\ aged' = FALSE
    /\ hosts' = [hosts EXCEPT ![p].hb = "idle", ![p].beat = @ + 1,
                              ![p].excused = @ \/ Raced]
    /\ UNCHANGED <<mutex, seek, running, hsc>>

\* The machine slept, the clock jumped or the disk was slow.
HeartbeatAges ==
    /\ pub # NoPub /\ ~aged /\ Fault
    /\ aged' = TRUE
    /\ UNCHANGED <<hosts, mutex, pub, seek, running>>

----------------------------------------------------------------------------
\* Those who look for a host.

NewSeeker(goal) ==
    [goal |-> goal, pc |-> "load", saw |-> NoPub, child |-> 0, boots |-> 0, sent |-> 0,
     lost |-> FALSE, end |-> "none"]

At(c, pc) == seek[c].pc = pc /\ seek[c].end = "none"
Goes(c, pc) ==
    seek' = [seek EXCEPT ![c].pc = pc, ![c].saw = IF pc \in {"absent", "load"} THEN NoPub ELSE @]
Ends(c, how) == seek' = [seek EXCEPT ![c].end = how, ![c].saw = NoPub]

\* load_matching_live_local_engine_host_publication: a publication of a dead
\* process, or with an old heartbeat, is cleared.
Load(c) ==
    /\ At(c, "load")
    /\ seek' = [seek EXCEPT ![c].saw = pub,
                            ![c].pc = IF pub = NoPub THEN "absent"
                                      ELSE IF Alive(pub.pid) /\ ~aged THEN "contact"
                                      ELSE "clear"]
    /\ UNCHANGED <<hosts, mutex, pub, aged, running, hsc>>

\* clear_stale_local_engine_host_publication: only if it is still the same ...
Clear(c) ==
    /\ At(c, "clear")
    /\ Goes(c, IF pub = seek[c].saw THEN "unlink" ELSE "absent")
    /\ UNCHANGED <<hosts, mutex, pub, aged, running, hsc>>

\* ... and the file is unlinked, whatever it holds by now.
Unlink(c) ==
    /\ At(c, "unlink")
    /\ pub' = NoPub /\ aged' = FALSE
    /\ hosts' = IF pub # NoPub /\ aged THEN [hosts EXCEPT ![pub.pid].excused = TRUE]
                                       ELSE hosts
    /\ Goes(c, "absent")
    /\ UNCHANGED <<mutex, running, hsc>>

Spawned == {p \in Pids : hosts[p].st # "none"}

\* run_local_preview_desktop: without a host, one is started once ...
Spawn(c) ==
    /\ At(c, "absent") /\ seek[c].goal \in {"open", "boot"} /\ seek[c].child = 0
    /\ Cardinality(Spawned) < MaxHosts
    /\ LET p == Cardinality(Spawned) + 1
       IN  /\ hosts' = [hosts EXCEPT ![p].st = "new"]
           /\ seek' = [seek EXCEPT ![c].child = p, ![c].pc = "load"]
    /\ UNCHANGED <<mutex, pub, aged, running, hsc>>

\* ... and looked for until it is there ...
PollAgain(c) ==
    /\ At(c, "absent") /\ seek[c].goal \in {"open", "boot"} /\ seek[c].child # 0
    /\ Goes(c, "load")
    /\ UNCHANGED <<hosts, mutex, pub, aged, running, hsc>>

\* ... or the time is up and the started process is killed.
GivesUp(c) ==
    /\ At(c, "absent") /\ seek[c].goal \in {"open", "boot"}
    /\ seek[c].child # 0 \/ Cardinality(Spawned) = MaxHosts
    /\ LET p == seek[c].child
           hit == p # 0 /\ Alive(p)
       IN  /\ hosts' = IF hit THEN Killed(p) ELSE hosts
           /\ mutex' = IF hit THEN FreedBy(p) ELSE mutex
    /\ Ends(c, "failed")
    /\ UNCHANGED <<pub, aged, running, hsc>>

\* No host answers within the time limit.
Unanswered(c) == At(c, "contact") /\ \A p \in Pids : hosts[p].st # "serving"
Server == {p \in Pids : hosts[p].st = "serving" /\ ~hosts[p].quit}

\* _probe_local_preview_desktop_host
ProbeAnswered(c) ==
    /\ At(c, "contact") /\ seek[c].goal \in {"open", "boot"} /\ Server # {}
    /\ seek' = [seek EXCEPT ![c].end = IF seek[c].goal = "open" THEN "ready" ELSE "none",
                            ![c].goal = IF @ = "boot" THEN "send" ELSE @,
                            ![c].pc = "load", ![c].saw = NoPub,
                            ![c].child = IF seek[c].goal = "open" THEN 0 ELSE @]
    /\ UNCHANGED <<hosts, mutex, pub, aged, running, hsc>>

ProbeFails(c) ==
    /\ Unanswered(c) /\ seek[c].goal \in {"open", "boot"}
    /\ Goes(c, "absent")
    /\ UNCHANGED <<hosts, mutex, pub, aged, running, hsc>>

\* The window that found its host starts a backup.
WindowStartsRun(c) ==
    /\ seek[c].end = "ready" /\ Server # {} /\ ~running /\ RoundsFollowed
    /\ running' = TRUE
    /\ seek' = [seek EXCEPT ![c].end = "used"]
    /\ UNCHANGED <<hosts, mutex, pub, aged, hsc>>

\* run_trigger_client: without a host one is started, once per attempt ...
Boot(c) ==
    /\ At(c, "absent") /\ seek[c].goal = "send"
    /\ seek' = IF seek[c].boots = 0
                 THEN [seek EXCEPT ![c].goal = "boot", ![c].pc = "load", ![c].boots = 1]
                 ELSE [seek EXCEPT ![c].end = "failed"]
    /\ UNCHANGED <<hosts, mutex, pub, aged, running, hsc>>

\* ... the occurrence is handed over and answered ...
Deliver(c) ==
    /\ At(c, "contact") /\ seek[c].goal = "send" /\ Server # {}
    /\ seek' = [seek EXCEPT ![c].sent = @ + 1, ![c].end = "accepted",
                            ![c].saw = NoPub, ![c].child = 0]
    /\ UNCHANGED <<hosts, mutex, pub, aged, running, hsc>>

\* ... or no host is there, or the answer is lost after it was taken ...
DeliveryUnanswered(c) ==
    /\ Unanswered(c) /\ seek[c].goal = "send"
    /\ Goes(c, "missed")
    /\ UNCHANGED <<hosts, mutex, pub, aged, running, hsc>>

DeliveryLost(c) ==
    /\ At(c, "contact") /\ seek[c].goal = "send" /\ Server # {} /\ Fault
    /\ seek' = [seek EXCEPT ![c].sent = @ + 1, ![c].pc = "missed"]
    /\ UNCHANGED <<hosts, mutex, pub, aged, running>>

\* clear_unreachable_local_engine_host_publication: the process is gone or its
\* heartbeat old.
Unreachable(c) == pub = seek[c].saw /\ (~Alive(pub.pid) \/ aged)

\* ... and it is tried once more with another host, under a new delivery id.
RetryDelivery(c) ==
    /\ At(c, "missed")
    /\ seek' = IF ~seek[c].lost /\ Unreachable(c)
                 THEN [seek EXCEPT ![c].lost = TRUE, ![c].goal = "boot", ![c].boots = 1,
                                   ![c].child = 0, ![c].pc = "clear"]
                 ELSE [seek EXCEPT ![c].end = "failed"]
    /\ UNCHANGED <<hosts, mutex, pub, aged, running, hsc>>

----------------------------------------------------------------------------
\* The shutdown tool and EngineHostShutdownCoordinator.

Blocked(p) == hosts[p].maint = "busy" \/ running

AskShutdown(c) ==
    /\ At(c, "contact") /\ seek[c].goal = "stop"
    /\ \E p \in Server :
         \/ /\ Blocked(p) /\ Ends(c, "refused") /\ UNCHANGED hosts
         \/ /\ ~Blocked(p) /\ Goes(c, "watch")
            /\ hosts' = [hosts EXCEPT ![p].quit = TRUE]
    /\ UNCHANGED <<mutex, pub, aged, running, hsc>>

NothingToStop(c) ==
    /\ At(c, "absent") /\ seek[c].goal = "stop"
    /\ Ends(c, "stopped")
    /\ UNCHANGED <<hosts, mutex, pub, aged, running, hsc>>

StopUnanswered(c) ==
    /\ Unanswered(c) /\ seek[c].goal = "stop"
    /\ Ends(c, "failed")
    /\ UNCHANGED <<hosts, mutex, pub, aged, running, hsc>>

\* The publication is gone or its process is; a dead or old one is cleared.
SeesStopped(c) ==
    /\ At(c, "watch")
    /\ pub = NoPub \/ ~Alive(seek[c].saw.pid) \/ aged
    /\ IF pub # NoPub /\ (aged \/ ~Alive(pub.pid))
         THEN /\ pub' = NoPub /\ aged' = FALSE
              /\ hosts' = [hosts EXCEPT ![pub.pid].excused = TRUE]
         ELSE UNCHANGED <<pub, aged, hosts>>
    /\ Ends(c, "stopped")
    /\ UNCHANGED <<mutex, running, hsc>>

StopTimesOut(c) ==
    /\ At(c, "watch")
    /\ Ends(c, "failed")
    /\ UNCHANGED <<hosts, mutex, pub, aged, running, hsc>>

----------------------------------------------------------------------------
HsInit ==
    /\ hosts = [p \in Pids |-> NoHost] /\ mutex = 0
    /\ pub = NoPub /\ aged = FALSE
    /\ \E goals \in Company : seek = [c \in Seekers |-> NewSeeker(goals[c])]
    /\ running = FALSE /\ hsc = 0

ProcessSteps(p) ==
    \/ HostLocks(p) \/ HostPublishes(p) \/ HostServes(p) \/ LoopEnds(p)
    \/ StopHeartbeat(p) \/ StopMaintenance(p) \/ Withdraw(p) \/ ReleaseMutex(p)
    \/ ProcessEnds(p)
Beats(p) == BeatReads(p) \/ BeatPublishes(p)

SeekerSteps(c) ==
    \/ Load(c) \/ Clear(c) \/ Unlink(c) \/ Spawn(c) \/ PollAgain(c) \/ GivesUp(c)
    \/ ProbeAnswered(c) \/ ProbeFails(c) \/ Boot(c) \/ Deliver(c)
    \/ DeliveryUnanswered(c) \/ RetryDelivery(c)
    \/ AskShutdown(c) \/ NothingToStop(c) \/ StopUnanswered(c) \/ SeesStopped(c) \/ StopTimesOut(c)

HsNext ==
    \/ \E p \in Pids : ProcessSteps(p) \/ Beats(p) \/ RoundBegins(p) \/ RoundEnds(p)
                       \/ HostFails(p) \/ HostCrashes(p)
    \/ \E c \in Seekers : SeekerSteps(c) \/ DeliveryLost(c) \/ WindowStartsRun(c)
    \/ HeartbeatAges

HsSpec == HsInit /\ [][HsNext]_hsVars

\* The serving thread, the heartbeat and the seekers go on; a seeker's deadline
\* passes.
HsFairness ==
    /\ \A p \in Pids : WF_hsVars(ProcessSteps(p)) /\ WF_hsVars(BeatPublishes(p))
    /\ \A c \in Seekers : WF_hsVars(SeekerSteps(c)) /\ SF_hsVars(GivesUp(c))

----------------------------------------------------------------------------
Process ==
    [st : {"none", "new", "building", "published", "serving", "leaving", "joining",
           "closing", "withdrawn", "released", "gone"},
     maint : {"off", "idle", "busy"}, hb : {"off", "idle", "read", "ended"},
     beat : 0..MaxBeats, quit : BOOLEAN, failed : BOOLEAN, excused : BOOLEAN]
Publication == [pid : {0} \union Pids, beat : 0..MaxBeats]
Seeker ==
    [goal : {"open", "boot", "send", "stop"},
     pc : {"load", "absent", "contact", "clear", "unlink", "missed", "watch"},
     saw : Publication, child : {0} \union Pids, boots : {0, 1}, sent : 0..2,
     lost : BOOLEAN,
     end : {"none", "ready", "used", "accepted", "refused", "stopped", "failed"}]

\* The type invariant.
HsTypeOK ==
    /\ hosts \in [Pids -> Process] /\ seek \in [Seekers -> Seeker]
    /\ mutex \in {0} \union Pids /\ pub \in Publication
    /\ aged \in BOOLEAN /\ running \in BOOLEAN /\ hsc \in 0..MaxHsFaults

Works(p) ==
    \/ hosts[p].maint = "busy"
    \/ hosts[p].st \in {"building", "published", "serving", "leaving", "joining", "closing"}

\* Two processes never work on the same state, however many launchers and
\* triggers start a host at once: building, serving and maintenance are one
\* process's at a time.  Only a host whose pipe loop failed may let go of the
\* mutex with a round under way.
OneHostWorks ==
    \A p, q \in Pids :
        p # q /\ Works(p) /\ Works(q) => hosts[p].failed \/ hosts[q].failed

\* A granted shutdown is quiet: from the answer until the mutex is released no
\* maintenance round of that host runs and no backup is active, unless an
\* earlier host failed and let go of the mutex with a round under way.
ShutdownIsQuiet ==
    \A p \in Pids :
        hosts[p].quit /\ mutex = p
            => /\ hosts[p].maint # "busy"
               /\ running => \E q \in Pids \ {p} : hosts[q].failed

\* A host that serves can be found: its last publication is in the file, unless
\* it was cleared with an old heartbeat or unlinked in a race with its writing.
HostIsFindable ==
    \A p \in Pids :
        hosts[p].st = "serving" /\ ~hosts[p].excused
            => pub = [pid |-> p, beat |-> hosts[p].beat]

\* Whoever gives up leaves no host of its own behind, and a trigger is
\* delivered a second time only after the host of the first was gone or its
\* heartbeat old.
SeekersCleanUp ==
    \A c \in Seekers :
        /\ seek[c].end = "failed" /\ seek[c].goal \in {"open", "boot"} /\ seek[c].child # 0
             => ~Alive(seek[c].child)
        /\ seek[c].sent = 2 => seek[c].lost

\* Everyone who looks for a host comes to an end, and a shutdown that was granted
\* ends the process.
LifeGoesOn ==
    <>[](/\ \A c \in Seekers : seek[c].end # "none"
         /\ \A p \in Pids : hosts[p].quit => hosts[p].st = "gone")
=============================================================================
