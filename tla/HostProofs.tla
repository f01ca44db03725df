----------------------------- MODULE HostProofs -----------------------------
(***************************************************************************)
(* Proofs about HostLife, for every number of host processes, every set of *)
(* seekers with any goals and every bound on heartbeats and faults; about  *)
(* Sessions, for any clients, limits and clock; and about StateStores, for *)
(* any number of epochs and faults.                                        *)
(***************************************************************************)
EXTENDS Host, FiniteSetTheorems, SequenceTheorems, WellFoundedInduction, TLAPS

-----------------------------------------------------------------------------
(* HostLife.                                                               *)

\* From its lock to its release a process holds the mutex.
Holding == {"building", "published", "serving", "leaving", "joining", "closing", "withdrawn"}
Findable == {"published", "serving"}

\* What a process does at each stage of its life, and what the others may infer
\* from the mutex.
HostShape ==
    \A p \in Pids :
        /\ hosts[p].st \in Holding <=> mutex = p
        /\ hosts[p].st \in {"none", "new", "building", "published"} =>
             /\ hosts[p].maint = "off" /\ hosts[p].hb = "off" /\ hosts[p].beat = 0
             /\ ~hosts[p].quit /\ ~hosts[p].failed
        /\ hosts[p].maint = "idle" => hosts[p].st \in {"serving", "leaving", "joining"}
        /\ hosts[p].maint = "busy" =>
             /\ ~hosts[p].quit
             /\ hosts[p].st \in {"serving", "leaving", "joining", "closing", "withdrawn",
                                 "released"}
        /\ hosts[p].st \in {"leaving", "joining", "closing", "withdrawn", "released"}
             => hosts[p].quit \/ hosts[p].failed
        /\ hosts[p].hb = "read" =>
             hosts[p].st \in {"serving", "leaving"} /\ hosts[p].beat < MaxBeats

\* Processes are numbered in the order in which they are started.
Numbered == \E n \in 0..MaxHosts : Spawned = 1..n

\* A publication in the file, or in a reader's hands, was written by a process
\* that has got so far: no publication is ever written twice.
PubWritten(b) ==
    b # NoPub =>
        /\ b.pid \in Pids /\ b.beat <= hosts[b.pid].beat
        /\ hosts[b.pid].st \notin {"none", "new", "building"}

\* What a seeker that holds a publication knows of it.
Sees(c) ==
    /\ PubWritten(seek[c].saw)
    /\ seek[c].pc \in {"contact", "clear", "unlink", "missed", "watch"}
         /\ seek[c].end = "none" => seek[c].saw # NoPub
    /\ seek[c].pc = "clear" /\ seek[c].end = "none" /\ pub = seek[c].saw
         => ~Alive(pub.pid) \/ aged
    /\ seek[c].pc = "unlink"
         => \A p \in Pids : hosts[p].st \in Findable /\ ~hosts[p].excused => aged

PubShape ==
    /\ PubWritten(pub) /\ (aged => pub # NoPub)
    /\ \A c \in Seekers : Sees(c)

\* A process that was published is in the file until it leaves.
HasFound ==
    \A p \in Pids :
        hosts[p].st \in Findable /\ ~hosts[p].excused
            => pub = [pid |-> p, beat |-> hosts[p].beat]

\* What a seeker has done so far.
DoneBy(c) ==
    /\ seek[c].child # 0 => hosts[seek[c].child].st # "none"
    /\ seek[c].end = "failed" /\ seek[c].goal \in {"open", "boot"} /\ seek[c].child # 0
         => ~Alive(seek[c].child)
    /\ seek[c].end = "none" /\ seek[c].pc = "missed" => seek[c].goal = "send"
    /\ seek[c].pc = "watch" => seek[c].goal = "stop"
    /\ seek[c].sent = 2 => seek[c].lost
    /\ seek[c].end = "none" /\ seek[c].pc # "missed"
         => seek[c].sent = 0 \/ (seek[c].sent = 1 /\ seek[c].lost)

SeekShape == \A c \in Seekers : DoneBy(c)

\* The inductive invariant.
IInv ==
    /\ HsTypeOK /\ HostShape /\ Numbered /\ PubShape /\ HasFound /\ SeekShape
    /\ ShutdownIsQuiet
-----------------------------------------------------------------------------
\* What is assumed of the bounds.
LEMMA Bounds == MaxHosts \in Nat /\ MaxBeats \in Nat /\ MaxHsFaults \in Nat
  BY HsAssumption

\* The steps one by one.
Moved ==
    \/ \E p \in Pids :
         \/ HostLocks(p) \/ HostPublishes(p) \/ HostServes(p) \/ LoopEnds(p)
         \/ StopHeartbeat(p) \/ StopMaintenance(p) \/ Withdraw(p) \/ ReleaseMutex(p)
         \/ ProcessEnds(p) \/ BeatReads(p) \/ BeatPublishes(p) \/ RoundBegins(p)
         \/ RoundEnds(p) \/ HostFails(p) \/ HostCrashes(p)
    \/ \E c \in Seekers :
         \/ Load(c) \/ Clear(c) \/ Unlink(c) \/ Spawn(c) \/ PollAgain(c) \/ GivesUp(c)
         \/ ProbeAnswered(c) \/ ProbeFails(c) \/ Boot(c) \/ Deliver(c)
         \/ DeliveryUnanswered(c) \/ RetryDelivery(c) \/ AskShutdown(c)
         \/ NothingToStop(c) \/ StopUnanswered(c) \/ SeesStopped(c) \/ StopTimesOut(c)
         \/ DeliveryLost(c) \/ WindowStartsRun(c)
    \/ HeartbeatAges
    \/ UNCHANGED hsVars

\* Every step is one of these.
LEMMA Moves == [HsNext]_hsVars => Moved
  BY Zenon DEF HsNext, ProcessSteps, Beats, SeekerSteps, Moved

\* The process that is started next has not been started before.
LEMMA NextNumber ==
    ASSUME Numbered, Cardinality(Spawned) < MaxHosts
    PROVE  /\ Cardinality(Spawned) + 1 \in Pids
           /\ hosts[Cardinality(Spawned) + 1].st = "none"
           /\ Spawned = 1..Cardinality(Spawned)
<1>1. PICK n \in 0..MaxHosts : Spawned = 1..n
    BY DEF Numbered
<1>2. Cardinality(Spawned) = n
    BY <1>1, FS_Interval, Bounds
<1>3. n + 1 \in Pids /\ n + 1 \notin Spawned
    BY <1>1, <1>2, Bounds DEF Pids
<1> QED
    BY <1>1, <1>2, <1>3 DEF Spawned

\* Types of what the steps have in common.
LEMMA FaultType == HsTypeOK /\ Fault => hsc' \in 0..MaxHsFaults
  BY Bounds DEF HsTypeOK, Fault

\* No publication is a publication too.
LEMMA NoPubType == NoPub \in Publication
  BY Bounds DEF NoPub, Publication

\* A seeker that goes on is a seeker.
LEMMA GoesType ==
    ASSUME HsTypeOK, NEW c \in Seekers, Goes(c, "load") \/ Goes(c, "absent")
             \/ Goes(c, "unlink") \/ Goes(c, "missed") \/ Goes(c, "watch")
    PROVE  seek' \in [Seekers -> Seeker]
<1>1. seek[c] \in Seeker /\ NoPub \in Publication
    BY NoPubType DEF HsTypeOK
<1>2. seek'[c] \in Seeker
    BY <1>1 DEF Goes, HsTypeOK, Seeker
<1> QED
    BY <1>2 DEF Goes, HsTypeOK

\* A seeker that ends is a seeker.
LEMMA EndsType ==
    ASSUME HsTypeOK, NEW c \in Seekers,
           Ends(c, "failed") \/ Ends(c, "stopped") \/ Ends(c, "refused")
    PROVE  seek' \in [Seekers -> Seeker]
<1>1. seek[c] \in Seeker /\ NoPub \in Publication
    BY NoPubType DEF HsTypeOK
<1>2. seek'[c] \in Seeker
    BY <1>1 DEF Ends, HsTypeOK, Seeker
<1> QED
    BY <1>2 DEF Ends, HsTypeOK

\* A killed process is a process, and frees what it held.
LEMMA KilledType ==
    ASSUME HsTypeOK, NEW p \in Pids
    PROVE  Killed(p) \in [Pids -> Process] /\ FreedBy(p) \in {0} \union Pids
<1>1. hosts \in [Pids -> Process]
    BY DEF HsTypeOK
<1>2. Killed(p)[p] \in Process
    BY <1>1, ZenonT(60) DEF Killed, Process
<1> QED
    BY <1>1, <1>2 DEF Killed, FreedBy, HsTypeOK

\* A launcher whose time is up kills the process it started, or none is left.
LEMMA GivesUpKills ==
    ASSUME HsTypeOK, NEW c \in Seekers, GivesUp(c)
    PROVE  \/ UNCHANGED <<hosts, mutex>>
           \/ \E p \in Pids : /\ Alive(p)
                             /\ hosts' = Killed(p) /\ mutex' = FreedBy(p)
<1>1. seek[c].child \in {0} \union Pids
    BY DEF HsTypeOK, Seeker
<1> QED
    BY <1>1 DEF GivesUp

\* An excused process is a process.
LEMMA ExcusedType ==
    ASSUME HsTypeOK, NEW p \in Pids
    PROVE  [hosts EXCEPT ![p].excused = TRUE] \in [Pids -> Process]
<1>1. hosts \in [Pids -> Process]
    BY DEF HsTypeOK
<1>2. [hosts EXCEPT ![p].excused = TRUE][p] \in Process
    BY <1>1 DEF Process
<1> QED
    BY <1>1, <1>2

\* Every step keeps the variables in their types.
LEMMA TypeStep ==
    ASSUME HsTypeOK, HostShape, Numbered, SeekShape, PubShape, [HsNext]_hsVars
    PROVE  HsTypeOK'
<1>0. /\ hosts \in [Pids -> Process] /\ seek \in [Seekers -> Seeker]
      /\ pub \in Publication
    BY DEF HsTypeOK
<1>1. ASSUME NEW p \in Pids, HostLocks(p) PROVE HsTypeOK'
    <2>1. hosts'[p] \in Process
        BY <1>0, <1>1 DEF HostLocks, Process
    <2> QED
        BY <1>1, <2>1 DEF HostLocks, HsTypeOK
<1>2. ASSUME NEW p \in Pids, HostPublishes(p) PROVE HsTypeOK'
    <2>1. [pid |-> p, beat |-> 0] \in Publication /\ Raced \in BOOLEAN
        BY Bounds DEF Publication, Raced
    <2>2. hosts'[p] \in Process
        BY <1>0, <2>1, <1>2 DEF HostPublishes, Process
    <2> QED
        BY <1>2, <2>1, <2>2 DEF HostPublishes, HsTypeOK
<1>3. ASSUME NEW p \in Pids, HostServes(p) PROVE HsTypeOK'
    <2>1. hosts'[p] \in Process
        BY <1>0, <1>3, ZenonT(60) DEF HostServes, Process
    <2> QED
        BY <1>3, <2>1 DEF HostServes, HsTypeOK
<1>4. ASSUME NEW p \in Pids, LoopEnds(p) PROVE HsTypeOK'
    <2>1. hosts'[p] \in Process
        BY <1>0, <1>4 DEF LoopEnds, Process
    <2> QED
        BY <1>4, <2>1 DEF LoopEnds, HsTypeOK
<1>5. ASSUME NEW p \in Pids, StopHeartbeat(p) PROVE HsTypeOK'
    <2>1. hosts'[p] \in Process
        BY <1>0, <1>5 DEF StopHeartbeat, Process
    <2> QED
        BY <1>5, <2>1 DEF StopHeartbeat, HsTypeOK
<1>6. ASSUME NEW p \in Pids, StopMaintenance(p) PROVE HsTypeOK'
    <2>1. hosts'[p] \in Process
        BY <1>0, <1>6 DEF StopMaintenance, Process
    <2> QED
        BY <1>6, <2>1 DEF StopMaintenance, HsTypeOK
<1>7. ASSUME NEW p \in Pids, Withdraw(p) PROVE HsTypeOK'
    <2>1. hosts'[p] \in Process
        BY <1>0, <1>7 DEF Withdraw, Process
    <2>2. pub' \in Publication /\ aged' \in BOOLEAN
        BY <1>0, <1>7, NoPubType DEF Withdraw
    <2> QED
        BY <1>7, <2>1, <2>2 DEF Withdraw, HsTypeOK
<1>8. ASSUME NEW p \in Pids, ReleaseMutex(p) PROVE HsTypeOK'
    <2>1. hosts'[p] \in Process
        BY <1>0, <1>8 DEF ReleaseMutex, Process
    <2> QED
        BY <1>8, <2>1 DEF ReleaseMutex, HsTypeOK
<1>9. ASSUME NEW p \in Pids, ProcessEnds(p) PROVE HsTypeOK'
    <2>1. hosts'[p] \in Process
        BY <1>0, <1>9, ZenonT(60) DEF ProcessEnds, Process
    <2> QED
        BY <1>9, <2>1 DEF ProcessEnds, HsTypeOK
<1>10. ASSUME NEW p \in Pids, BeatReads(p) PROVE HsTypeOK'
    <2>1. hosts'[p] \in Process
        BY <1>0, <1>10 DEF BeatReads, Process
    <2> QED
        BY <1>10, <2>1 DEF BeatReads, HsTypeOK
<1>11. ASSUME NEW p \in Pids, BeatPublishes(p) PROVE HsTypeOK'
    <2>1. hosts[p].beat + 1 \in 0..MaxBeats
        BY <1>0, <1>11, Bounds DEF BeatPublishes, HostShape, Process
    <2>2. [pid |-> p, beat |-> hosts[p].beat + 1] \in Publication
        BY <2>1 DEF Publication
    <2>3. hosts'[p] \in Process
        <3>1. (hosts[p].excused \/ Raced) \in BOOLEAN
            OBVIOUS
        <3> QED
            BY <1>0, <2>1, <3>1, <1>11 DEF BeatPublishes, Process
    <2> QED
        BY <1>11, <2>2, <2>3 DEF BeatPublishes, HsTypeOK
<1>12. ASSUME NEW p \in Pids, RoundBegins(p) PROVE HsTypeOK'
    <2>1. hosts'[p] \in Process
        BY <1>0, <1>12 DEF RoundBegins, Process
    <2> QED
        BY <1>12, <2>1 DEF RoundBegins, HsTypeOK
<1>13. ASSUME NEW p \in Pids, RoundEnds(p) PROVE HsTypeOK'
    <2>1. hosts'[p] \in Process
        BY <1>0, <1>13 DEF RoundEnds, Process
    <2> QED
        BY <1>13, <2>1 DEF RoundEnds, HsTypeOK
<1>14. ASSUME NEW p \in Pids, HostFails(p) PROVE HsTypeOK'
    <2>1. hosts'[p] \in Process
        BY <1>0, <1>14 DEF HostFails, Fault, Process
    <2> QED
        BY <1>14, <2>1, FaultType DEF HostFails, HsTypeOK
<1>15. ASSUME NEW p \in Pids, HostCrashes(p) PROVE HsTypeOK'
    BY <1>15, KilledType, FaultType DEF HostCrashes, HsTypeOK
<1>16. ASSUME NEW c \in Seekers, Load(c) PROVE HsTypeOK'
    <2>1. seek'[c] \in Seeker
        BY <1>0, <1>16 DEF Load, At, Seeker
    <2> QED
        BY <1>16, <2>1 DEF Load, At, HsTypeOK
<1>17. ASSUME NEW c \in Seekers, Clear(c) PROVE HsTypeOK'
    BY <1>17, GoesType DEF Clear, At, HsTypeOK
<1>18. ASSUME NEW c \in Seekers, Unlink(c) PROVE HsTypeOK'
    <2>1. hosts' \in [Pids -> Process]
        BY <1>18, ExcusedType DEF Unlink, PubShape, PubWritten, HsTypeOK
    <2> QED
        BY <1>18, <2>1, GoesType, NoPubType DEF Unlink, HsTypeOK
<1>19. ASSUME NEW c \in Seekers, Spawn(c) PROVE HsTypeOK'
    <2> DEFINE p == Cardinality(Spawned) + 1
    <2>1. p \in Pids
        BY <1>19, NextNumber DEF Spawn
    <2>2. hosts'[p] \in Process /\ hosts' \in [Pids -> Process]
        <3>1. hosts'[p] \in Process
            BY <1>0, <2>1, <1>19 DEF Spawn, Process
        <3> QED
            BY <1>0, <2>1, <3>1, <1>19 DEF Spawn
    <2>3. seek'[c] \in Seeker
        <3>1. seek' = [seek EXCEPT ![c].child = p, ![c].pc = "load"]
            BY <1>19 DEF Spawn
        <3> HIDE DEF p
        <3> QED
            BY <1>0, <2>1, <3>1, ZenonT(60) DEF Seeker
    <2> QED
        BY <1>19, <2>2, <2>3 DEF Spawn, HsTypeOK
<1>20. ASSUME NEW c \in Seekers, PollAgain(c) PROVE HsTypeOK'
    BY <1>20, GoesType DEF PollAgain, At, HsTypeOK
<1>21. ASSUME NEW c \in Seekers, GivesUp(c) PROVE HsTypeOK'
    <2>1. seek[c].child \in {0} \union Pids
        BY <1>0 DEF Seeker
    <2>2. hosts' \in [Pids -> Process] /\ mutex' \in {0} \union Pids
        BY <1>21, <2>1, KilledType DEF GivesUp, HsTypeOK
    <2> QED
        BY <1>21, <2>2, EndsType DEF GivesUp, HsTypeOK
<1>22. ASSUME NEW c \in Seekers, ProbeAnswered(c) PROVE HsTypeOK'
    <2>1. seek'[c] \in Seeker
        BY <1>0, <1>22 DEF ProbeAnswered, At, Seeker
    <2> QED
        BY <1>22, <2>1 DEF ProbeAnswered, At, HsTypeOK
<1>23. ASSUME NEW c \in Seekers, ProbeFails(c) PROVE HsTypeOK'
    BY <1>23, GoesType DEF ProbeFails, HsTypeOK
<1>24. ASSUME NEW c \in Seekers, Boot(c) PROVE HsTypeOK'
    <2>1. seek'[c] \in Seeker
        BY <1>0, <1>24 DEF Boot, At, Seeker
    <2> QED
        BY <1>24, <2>1 DEF Boot, At, HsTypeOK
<1>25. ASSUME NEW c \in Seekers, Deliver(c) PROVE HsTypeOK'
    <2>1. seek'[c] \in Seeker
        BY <1>0, <1>25 DEF Deliver, At, SeekShape, DoneBy, Seeker
    <2> QED
        BY <1>25, <2>1 DEF Deliver, At, SeekShape, DoneBy, HsTypeOK
<1>26. ASSUME NEW c \in Seekers, DeliveryUnanswered(c) PROVE HsTypeOK'
    BY <1>26, GoesType DEF DeliveryUnanswered, HsTypeOK
<1>27. ASSUME NEW c \in Seekers, RetryDelivery(c) PROVE HsTypeOK'
    <2>1. seek'[c] \in Seeker
        BY <1>0, <1>27 DEF RetryDelivery, At, Seeker
    <2> QED
        BY <1>27, <2>1 DEF RetryDelivery, At, HsTypeOK
<1>28. ASSUME NEW c \in Seekers, AskShutdown(c) PROVE HsTypeOK'
    <2>1. seek' \in [Seekers -> Seeker]
        BY <1>28, GoesType, EndsType DEF AskShutdown
    <2>2. hosts' \in [Pids -> Process]
        <3>1. ASSUME NEW p \in Server, hosts' = [hosts EXCEPT ![p].quit = TRUE]
              PROVE  hosts' \in [Pids -> Process]
            <4>1. hosts'[p] \in Process
                BY <1>0, <3>1, ZenonT(60) DEF Server, Process
            <4> QED
                BY <1>0, <3>1, <4>1 DEF Server
        <3> QED
            BY <1>0, <1>28, <3>1 DEF AskShutdown
    <2> QED
        BY <1>28, <2>1, <2>2 DEF AskShutdown, HsTypeOK
<1>29. ASSUME NEW c \in Seekers, NothingToStop(c) PROVE HsTypeOK'
    BY <1>29, EndsType DEF NothingToStop, HsTypeOK
<1>30. ASSUME NEW c \in Seekers, StopUnanswered(c) PROVE HsTypeOK'
    BY <1>30, EndsType DEF StopUnanswered, HsTypeOK
<1>31. ASSUME NEW c \in Seekers, SeesStopped(c) PROVE HsTypeOK'
    <2>1. hosts' \in [Pids -> Process]
        BY <1>31, ExcusedType DEF SeesStopped, PubShape, PubWritten, HsTypeOK
    <2> QED
        BY <1>31, <2>1, EndsType, NoPubType DEF SeesStopped, HsTypeOK
<1>32. ASSUME NEW c \in Seekers, StopTimesOut(c) PROVE HsTypeOK'
    BY <1>32, EndsType DEF StopTimesOut, HsTypeOK
<1>33. ASSUME NEW c \in Seekers, DeliveryLost(c) PROVE HsTypeOK'
    <2>1. seek'[c] \in Seeker
        BY <1>0, <1>33 DEF DeliveryLost, At, SeekShape, DoneBy, Seeker
    <2> QED
        BY <1>33, <2>1, FaultType DEF DeliveryLost, HsTypeOK
<1>34. ASSUME NEW c \in Seekers, WindowStartsRun(c) PROVE HsTypeOK'
    <2>1. seek'[c] \in Seeker
        BY <1>0, <1>34 DEF WindowStartsRun, Seeker
    <2> QED
        BY <1>34, <2>1 DEF WindowStartsRun, HsTypeOK
<1>35. CASE HeartbeatAges
    BY <1>35, FaultType DEF HeartbeatAges, HsTypeOK
<1>36. CASE UNCHANGED hsVars
    BY <1>36 DEF HsTypeOK, hsVars
<1> QED
    BY <1>1, <1>2, <1>3, <1>4, <1>5, <1>6, <1>7, <1>8, <1>9, <1>10, <1>11, <1>12,
       <1>13, <1>14, <1>15, <1>16, <1>17, <1>18, <1>19, <1>20, <1>21, <1>22, <1>23, <1>24,
       <1>25, <1>26, <1>27, <1>28, <1>29, <1>30, <1>31, <1>32, <1>33, <1>34, <1>35, <1>36, Moves DEF Moved

USE Bounds
USE DEF hsVars, Pids

\* The mutex orders the lives of the processes.
LEMMA HostStep ==
    ASSUME HsTypeOK, HostShape, Numbered, PubShape, [HsNext]_hsVars
    PROVE  HostShape'
<1> USE DEF HsTypeOK, Process, HostShape, Holding, NoPub, NoHost
<1>1. ASSUME NEW p \in Pids, HostLocks(p) PROVE HostShape'
    BY <1>1 DEF HostLocks
<1>2. ASSUME NEW p \in Pids, HostPublishes(p) PROVE HostShape'
    BY <1>2 DEF HostPublishes
<1>3. ASSUME NEW p \in Pids, HostServes(p) PROVE HostShape'
    BY <1>3 DEF HostServes
<1>4. ASSUME NEW p \in Pids, LoopEnds(p) PROVE HostShape'
    BY <1>4 DEF LoopEnds
<1>5. ASSUME NEW p \in Pids, StopHeartbeat(p) PROVE HostShape'
    BY <1>5 DEF StopHeartbeat
<1>6. ASSUME NEW p \in Pids, StopMaintenance(p) PROVE HostShape'
    BY <1>6 DEF StopMaintenance
<1>7. ASSUME NEW p \in Pids, Withdraw(p) PROVE HostShape'
    BY <1>7 DEF Withdraw
<1>8. ASSUME NEW p \in Pids, ReleaseMutex(p) PROVE HostShape'
    BY <1>8 DEF ReleaseMutex
<1>9. ASSUME NEW p \in Pids, ProcessEnds(p) PROVE HostShape'
    BY <1>9 DEF ProcessEnds
<1>10. ASSUME NEW p \in Pids, BeatReads(p) PROVE HostShape'
    BY <1>10 DEF BeatReads
<1>11. ASSUME NEW p \in Pids, BeatPublishes(p) PROVE HostShape'
    BY <1>11 DEF BeatPublishes
<1>12. ASSUME NEW p \in Pids, RoundBegins(p) PROVE HostShape'
    BY <1>12 DEF RoundBegins
<1>13. ASSUME NEW p \in Pids, RoundEnds(p) PROVE HostShape'
    BY <1>13 DEF RoundEnds
<1>14. ASSUME NEW p \in Pids, HostFails(p) PROVE HostShape'
    BY <1>14 DEF HostFails, Fault
<1>15. ASSUME NEW p \in Pids, HostCrashes(p) PROVE HostShape'
    BY <1>15 DEF HostCrashes, Killed, FreedBy, Fault
<1>16. ASSUME NEW c \in Seekers, Load(c) PROVE HostShape'
    BY <1>16 DEF Load, At
<1>17. ASSUME NEW c \in Seekers, Clear(c) PROVE HostShape'
    BY <1>17 DEF Clear, At, Goes
<1>18. ASSUME NEW c \in Seekers, Unlink(c) PROVE HostShape'
    BY <1>18 DEF Unlink, PubShape, PubWritten
<1>19. ASSUME NEW c \in Seekers, Spawn(c) PROVE HostShape'
    BY <1>19, NextNumber DEF Spawn, At
<1>20. ASSUME NEW c \in Seekers, PollAgain(c) PROVE HostShape'
    BY <1>20 DEF PollAgain, At, Goes
<1>21. ASSUME NEW c \in Seekers, GivesUp(c) PROVE HostShape'
    <2>1. CASE UNCHANGED <<hosts, mutex>>
        BY <1>21, <2>1 DEF GivesUp, At, Ends
    <2>2. UNCHANGED <<pub, aged, running>>
        BY <1>21 DEF GivesUp
    <2>3. ASSUME NEW p \in Pids, Alive(p), hosts' = Killed(p), mutex' = FreedBy(p)
          PROVE  HostShape'
        BY <2>2, <2>3 DEF Alive, Killed, FreedBy
    <2> QED
        BY <1>21, <2>1, <2>3, GivesUpKills
<1>22. ASSUME NEW c \in Seekers, ProbeAnswered(c) PROVE HostShape'
    BY <1>22 DEF ProbeAnswered, At
<1>23. ASSUME NEW c \in Seekers, ProbeFails(c) PROVE HostShape'
    BY <1>23 DEF ProbeFails, Unanswered, At, Goes
<1>24. ASSUME NEW c \in Seekers, Boot(c) PROVE HostShape'
    BY <1>24 DEF Boot, At
<1>25. ASSUME NEW c \in Seekers, Deliver(c) PROVE HostShape'
    BY <1>25 DEF Deliver, At
<1>26. ASSUME NEW c \in Seekers, DeliveryUnanswered(c) PROVE HostShape'
    BY <1>26 DEF DeliveryUnanswered, Unanswered, At, Goes
<1>27. ASSUME NEW c \in Seekers, RetryDelivery(c) PROVE HostShape'
    BY <1>27 DEF RetryDelivery
<1>28. ASSUME NEW c \in Seekers, AskShutdown(c) PROVE HostShape'
    <2>1. CASE UNCHANGED hosts
        BY <1>28, <2>1 DEF AskShutdown
    <2>2. ASSUME NEW p \in Server, ~Blocked(p), hosts' = [hosts EXCEPT ![p].quit = TRUE]
          PROVE  HostShape'
        BY <1>28, <2>2 DEF AskShutdown, Server, Blocked
    <2> QED
        BY <1>28, <2>1, <2>2 DEF AskShutdown
<1>29. ASSUME NEW c \in Seekers, NothingToStop(c) PROVE HostShape'
    BY <1>29 DEF NothingToStop, At, Ends
<1>30. ASSUME NEW c \in Seekers, StopUnanswered(c) PROVE HostShape'
    BY <1>30 DEF StopUnanswered, Unanswered, At, Ends
<1>31. ASSUME NEW c \in Seekers, SeesStopped(c) PROVE HostShape'
    <2>1. CASE UNCHANGED hosts
        BY <1>31, <2>1 DEF SeesStopped
    <2>2. CASE pub # NoPub /\ hosts' = [hosts EXCEPT ![pub.pid].excused = TRUE]
        BY <1>31, <2>2 DEF SeesStopped, PubShape, PubWritten
    <2> QED
        BY <1>31, <2>1, <2>2 DEF SeesStopped
<1>32. ASSUME NEW c \in Seekers, StopTimesOut(c) PROVE HostShape'
    BY <1>32 DEF StopTimesOut, At, Ends
<1>33. ASSUME NEW c \in Seekers, DeliveryLost(c) PROVE HostShape'
    BY <1>33 DEF DeliveryLost, At, Fault
<1>34. ASSUME NEW c \in Seekers, WindowStartsRun(c) PROVE HostShape'
    BY <1>34 DEF WindowStartsRun
<1>35. CASE HeartbeatAges
    BY <1>35 DEF HeartbeatAges, Fault
<1>36. CASE UNCHANGED hsVars
    BY <1>36
<1> HIDE DEF HsTypeOK, HostShape
<1> QED
    BY <1>1, <1>2, <1>3, <1>4, <1>5, <1>6, <1>7, <1>8, <1>9, <1>10, <1>11, <1>12,
       <1>13, <1>14, <1>15, <1>16, <1>17, <1>18, <1>19, <1>20, <1>21, <1>22, <1>23, <1>24,
       <1>25, <1>26, <1>27, <1>28, <1>29, <1>30, <1>31, <1>32, <1>33, <1>34, <1>35, <1>36, Moves DEF Moved

\* A publication is taken out of the file only when its process is leaving, dead
\* or excused.
LEMMA FoundStep ==
    ASSUME HsTypeOK, HostShape, Numbered, PubShape, HasFound, SeekShape,
           ShutdownIsQuiet, [HsNext]_hsVars
    PROVE  HasFound'
<1> USE DEF HsTypeOK, Process, HostShape, Holding, HasFound, Findable, NoPub, NoHost
<1>1. ASSUME NEW p \in Pids, HostLocks(p) PROVE HasFound'
    BY <1>1 DEF HostLocks
<1>2. ASSUME NEW p \in Pids, HostPublishes(p) PROVE HasFound'
    BY <1>2 DEF HostPublishes
<1>3. ASSUME NEW p \in Pids, HostServes(p) PROVE HasFound'
    BY <1>3 DEF HostServes
<1>4. ASSUME NEW p \in Pids, LoopEnds(p) PROVE HasFound'
    BY <1>4 DEF LoopEnds
<1>5. ASSUME NEW p \in Pids, StopHeartbeat(p) PROVE HasFound'
    BY <1>5 DEF StopHeartbeat
<1>6. ASSUME NEW p \in Pids, StopMaintenance(p) PROVE HasFound'
    BY <1>6 DEF StopMaintenance
<1>7. ASSUME NEW p \in Pids, Withdraw(p) PROVE HasFound'
    BY <1>7 DEF Withdraw
<1>8. ASSUME NEW p \in Pids, ReleaseMutex(p) PROVE HasFound'
    BY <1>8 DEF ReleaseMutex
<1>9. ASSUME NEW p \in Pids, ProcessEnds(p) PROVE HasFound'
    BY <1>9 DEF ProcessEnds
<1>10. ASSUME NEW p \in Pids, BeatReads(p) PROVE HasFound'
    BY <1>10 DEF BeatReads
<1>11. ASSUME NEW p \in Pids, BeatPublishes(p) PROVE HasFound'
    BY <1>11 DEF BeatPublishes
<1>12. ASSUME NEW p \in Pids, RoundBegins(p) PROVE HasFound'
    BY <1>12 DEF RoundBegins
<1>13. ASSUME NEW p \in Pids, RoundEnds(p) PROVE HasFound'
    BY <1>13 DEF RoundEnds
<1>14. ASSUME NEW p \in Pids, HostFails(p) PROVE HasFound'
    BY <1>14 DEF HostFails, Fault
<1>15. ASSUME NEW p \in Pids, HostCrashes(p) PROVE HasFound'
    BY <1>15 DEF HostCrashes, Killed, FreedBy, Fault
<1>16. ASSUME NEW c \in Seekers, Load(c) PROVE HasFound'
    BY <1>16 DEF Load, At
<1>17. ASSUME NEW c \in Seekers, Clear(c) PROVE HasFound'
    BY <1>17 DEF Clear, At, Goes
<1>18. ASSUME NEW c \in Seekers, Unlink(c) PROVE HasFound'
    BY <1>18 DEF Unlink, At, PubShape, PubWritten, Sees
<1>19. ASSUME NEW c \in Seekers, Spawn(c) PROVE HasFound'
    BY <1>19, NextNumber DEF Spawn, At
<1>20. ASSUME NEW c \in Seekers, PollAgain(c) PROVE HasFound'
    BY <1>20 DEF PollAgain, At, Goes
<1>21. ASSUME NEW c \in Seekers, GivesUp(c) PROVE HasFound'
    BY <1>21 DEF GivesUp, At, Ends, Killed, FreedBy
<1>22. ASSUME NEW c \in Seekers, ProbeAnswered(c) PROVE HasFound'
    BY <1>22 DEF ProbeAnswered, At
<1>23. ASSUME NEW c \in Seekers, ProbeFails(c) PROVE HasFound'
    BY <1>23 DEF ProbeFails, Unanswered, At, Goes
<1>24. ASSUME NEW c \in Seekers, Boot(c) PROVE HasFound'
    BY <1>24 DEF Boot, At
<1>25. ASSUME NEW c \in Seekers, Deliver(c) PROVE HasFound'
    BY <1>25 DEF Deliver, At
<1>26. ASSUME NEW c \in Seekers, DeliveryUnanswered(c) PROVE HasFound'
    BY <1>26 DEF DeliveryUnanswered, Unanswered, At, Goes
<1>27. ASSUME NEW c \in Seekers, RetryDelivery(c) PROVE HasFound'
    BY <1>27 DEF RetryDelivery, At
<1>28. ASSUME NEW c \in Seekers, AskShutdown(c) PROVE HasFound'
    <2>1. CASE UNCHANGED hosts
        BY <1>28, <2>1 DEF AskShutdown
    <2>2. ASSUME NEW p \in Pids, hosts' = [hosts EXCEPT ![p].quit = TRUE]
          PROVE  HasFound'
        BY <1>28, <2>2 DEF AskShutdown
    <2> QED
        BY <1>28, <2>1, <2>2 DEF AskShutdown, Server
<1>29. ASSUME NEW c \in Seekers, NothingToStop(c) PROVE HasFound'
    BY <1>29 DEF NothingToStop, At, Ends
<1>30. ASSUME NEW c \in Seekers, StopUnanswered(c) PROVE HasFound'
    BY <1>30 DEF StopUnanswered, Unanswered, At, Ends
<1>31. ASSUME NEW c \in Seekers, SeesStopped(c) PROVE HasFound'
    BY <1>31 DEF SeesStopped, At, Ends
<1>32. ASSUME NEW c \in Seekers, StopTimesOut(c) PROVE HasFound'
    BY <1>32 DEF StopTimesOut, At, Ends
<1>33. ASSUME NEW c \in Seekers, DeliveryLost(c) PROVE HasFound'
    BY <1>33 DEF DeliveryLost, At, Fault
<1>34. ASSUME NEW c \in Seekers, WindowStartsRun(c) PROVE HasFound'
    BY <1>34 DEF WindowStartsRun
<1>35. CASE HeartbeatAges
    BY <1>35 DEF HeartbeatAges, Fault
<1>36. CASE UNCHANGED hsVars
    BY <1>36
<1> HIDE DEF HsTypeOK, HostShape, HasFound
<1> QED
    BY <1>1, <1>2, <1>3, <1>4, <1>5, <1>6, <1>7, <1>8, <1>9, <1>10, <1>11, <1>12,
       <1>13, <1>14, <1>15, <1>16, <1>17, <1>18, <1>19, <1>20, <1>21, <1>22, <1>23, <1>24,
       <1>25, <1>26, <1>27, <1>28, <1>29, <1>30, <1>31, <1>32, <1>33, <1>34, <1>35, <1>36, Moves DEF Moved

\* A step that grants no shutdown and starts no run keeps the quiet.
Kept ==
    /\ \A p \in Pids : hosts[p].failed => hosts'[p].failed
    /\ running' => running
    /\ \A p \in Pids :
         hosts'[p].quit /\ mutex' = p =>
           /\ hosts[p].quit /\ mutex = p
           /\ hosts'[p].maint = "busy" => hosts[p].maint = "busy"

\* A step that keeps the processes keeps the shutdown quiet.
LEMMA KeptQuiet == Kept /\ ShutdownIsQuiet => ShutdownIsQuiet'
  BY DEF Kept, ShutdownIsQuiet

\* Between the grant and the release nothing starts a run but a round of a host
\* that failed.
LEMMA QuietStep ==
    ASSUME HsTypeOK, HostShape, Numbered, PubShape, HasFound, SeekShape,
           ShutdownIsQuiet, [HsNext]_hsVars
    PROVE  ShutdownIsQuiet'
<1> USE DEF HsTypeOK, Process, HostShape, Holding, NoPub, NoHost
<1>1. ASSUME NEW p \in Pids, HostLocks(p) PROVE ShutdownIsQuiet'
    <2>1. CASE mutex = 0
        <3>1. Kept
            BY <1>1, <2>1, SMTT(30) DEF HostLocks, Kept
        <3> QED
            BY <3>1, KeptQuiet
    <2>2. CASE mutex # 0
        <3>1. Kept
            BY <1>1, <2>2, ZenonT(60) DEF HostLocks, Kept
        <3> QED
            BY <3>1, KeptQuiet
    <2> QED
        BY <2>1, <2>2
<1>2. ASSUME NEW p \in Pids, HostPublishes(p) PROVE ShutdownIsQuiet'
    <2>1. Kept
        BY <1>2 DEF HostPublishes, Kept
    <2> QED
        BY <2>1, KeptQuiet
<1>3. ASSUME NEW p \in Pids, HostServes(p) PROVE ShutdownIsQuiet'
    <2>1. Kept
        BY <1>3 DEF HostServes, Kept
    <2> QED
        BY <2>1, KeptQuiet
<1>4. ASSUME NEW p \in Pids, LoopEnds(p) PROVE ShutdownIsQuiet'
    <2>1. Kept
        BY <1>4 DEF LoopEnds, Kept
    <2> QED
        BY <2>1, KeptQuiet
<1>5. ASSUME NEW p \in Pids, StopHeartbeat(p) PROVE ShutdownIsQuiet'
    <2>1. Kept
        BY <1>5 DEF StopHeartbeat, Kept
    <2> QED
        BY <2>1, KeptQuiet
<1>6. ASSUME NEW p \in Pids, StopMaintenance(p) PROVE ShutdownIsQuiet'
    <2>1. Kept
        BY <1>6 DEF StopMaintenance, Kept
    <2> QED
        BY <2>1, KeptQuiet
<1>7. ASSUME NEW p \in Pids, Withdraw(p) PROVE ShutdownIsQuiet'
    <2>1. Kept
        BY <1>7 DEF Withdraw, Kept
    <2> QED
        BY <2>1, KeptQuiet
<1>8. ASSUME NEW p \in Pids, ReleaseMutex(p) PROVE ShutdownIsQuiet'
    <2>1. Kept
        BY <1>8 DEF ReleaseMutex, Kept
    <2> QED
        BY <2>1, KeptQuiet
<1>9. ASSUME NEW p \in Pids, ProcessEnds(p) PROVE ShutdownIsQuiet'
    <2>1. Kept
        BY <1>9 DEF ProcessEnds, Kept
    <2> QED
        BY <2>1, KeptQuiet
<1>10. ASSUME NEW p \in Pids, BeatReads(p) PROVE ShutdownIsQuiet'
    <2>1. Kept
        BY <1>10 DEF BeatReads, Kept
    <2> QED
        BY <2>1, KeptQuiet
<1>11. ASSUME NEW p \in Pids, BeatPublishes(p) PROVE ShutdownIsQuiet'
    <2>1. Kept
        BY <1>11 DEF BeatPublishes, Kept
    <2> QED
        BY <2>1, KeptQuiet
<1>12. ASSUME NEW p \in Pids, RoundBegins(p) PROVE ShutdownIsQuiet'
    <2>1. Kept
        BY <1>12 DEF RoundBegins, Kept
    <2> QED
        BY <2>1, KeptQuiet
<1>13. ASSUME NEW p \in Pids, RoundEnds(p) PROVE ShutdownIsQuiet'
    <2>1. hosts'[p].maint = "off" /\ mutex' = mutex
        BY <1>13 DEF RoundEnds
    <2>2. ASSUME NEW r \in Pids, hosts'[r].quit, mutex' = r
          PROVE  /\ hosts'[r].maint # "busy"
                 /\ \E q \in Pids \ {r} : hosts'[q].failed
        <3>1. hosts[r].quit /\ mutex = r /\ p # r /\ hosts'[r].maint = hosts[r].maint
            BY <1>13, <2>2 DEF RoundEnds
        <3>2. hosts[p].failed /\ hosts'[p].failed
            BY <1>13, <3>1 DEF RoundEnds
        <3>3. hosts[r].maint # "busy"
            BY <3>1
        <3> QED
            BY <3>1, <3>2, <3>3
    <2> QED
        BY <2>2 DEF ShutdownIsQuiet
<1>14. ASSUME NEW p \in Pids, HostFails(p) PROVE ShutdownIsQuiet'
    <2>1. Kept
        BY <1>14 DEF HostFails, Fault, Kept
    <2> QED
        BY <2>1, KeptQuiet
<1>15. ASSUME NEW p \in Pids, HostCrashes(p) PROVE ShutdownIsQuiet'
    <2>1. Kept
        BY <1>15 DEF HostCrashes, Killed, FreedBy, Fault, Kept
    <2> QED
        BY <2>1, KeptQuiet
<1>16. ASSUME NEW c \in Seekers, Load(c) PROVE ShutdownIsQuiet'
    <2>1. Kept
        BY <1>16 DEF Load, At, Kept
    <2> QED
        BY <2>1, KeptQuiet
<1>17. ASSUME NEW c \in Seekers, Clear(c) PROVE ShutdownIsQuiet'
    <2>1. Kept
        BY <1>17 DEF Clear, At, Goes, Kept
    <2> QED
        BY <2>1, KeptQuiet
<1>18. ASSUME NEW c \in Seekers, Unlink(c) PROVE ShutdownIsQuiet'
    <2>1. Kept
        BY <1>18 DEF Unlink, PubShape, PubWritten, Kept
    <2> QED
        BY <2>1, KeptQuiet
<1>19. ASSUME NEW c \in Seekers, Spawn(c) PROVE ShutdownIsQuiet'
    <2>1. Kept
        BY <1>19, NextNumber DEF Spawn, At, Kept
    <2> QED
        BY <2>1, KeptQuiet
<1>20. ASSUME NEW c \in Seekers, PollAgain(c) PROVE ShutdownIsQuiet'
    <2>1. Kept
        BY <1>20 DEF PollAgain, At, Goes, Kept
    <2> QED
        BY <2>1, KeptQuiet
<1>21. ASSUME NEW c \in Seekers, GivesUp(c) PROVE ShutdownIsQuiet'
    <2>1. Kept
        <3>1. CASE UNCHANGED <<hosts, mutex>>
            BY <1>21, <3>1 DEF GivesUp, Kept
        <3>2. UNCHANGED <<pub, aged, running>>
            BY <1>21 DEF GivesUp
        <3>3. ASSUME NEW p \in Pids, Alive(p), hosts' = Killed(p), mutex' = FreedBy(p)
              PROVE  Kept
            BY <3>2, <3>3 DEF Alive, Killed, FreedBy, Kept
        <3> QED
            BY <1>21, <3>1, <3>3, GivesUpKills
    <2> QED
        BY <2>1, KeptQuiet
<1>22. ASSUME NEW c \in Seekers, ProbeAnswered(c) PROVE ShutdownIsQuiet'
    <2>1. Kept
        BY <1>22 DEF ProbeAnswered, At, Kept
    <2> QED
        BY <2>1, KeptQuiet
<1>23. ASSUME NEW c \in Seekers, ProbeFails(c) PROVE ShutdownIsQuiet'
    <2>1. Kept
        BY <1>23 DEF ProbeFails, Unanswered, At, Goes, Kept
    <2> QED
        BY <2>1, KeptQuiet
<1>24. ASSUME NEW c \in Seekers, Boot(c) PROVE ShutdownIsQuiet'
    <2>1. Kept
        BY <1>24 DEF Boot, At, Kept
    <2> QED
        BY <2>1, KeptQuiet
<1>25. ASSUME NEW c \in Seekers, Deliver(c) PROVE ShutdownIsQuiet'
    <2>1. Kept
        BY <1>25 DEF Deliver, At, Kept
    <2> QED
        BY <2>1, KeptQuiet
<1>26. ASSUME NEW c \in Seekers, DeliveryUnanswered(c) PROVE ShutdownIsQuiet'
    <2>1. Kept
        BY <1>26 DEF DeliveryUnanswered, Unanswered, At, Goes, Kept
    <2> QED
        BY <2>1, KeptQuiet
<1>27. ASSUME NEW c \in Seekers, RetryDelivery(c) PROVE ShutdownIsQuiet'
    <2>1. Kept
        BY <1>27 DEF RetryDelivery, At, Kept
    <2> QED
        BY <2>1, KeptQuiet
<1>28. ASSUME NEW c \in Seekers, AskShutdown(c) PROVE ShutdownIsQuiet'
    <2>1. CASE UNCHANGED hosts
        <3>1. Kept
            BY <1>28, <2>1 DEF AskShutdown, Kept
        <3> QED
            BY <3>1, KeptQuiet
    <2>2. ASSUME NEW p \in Server, ~Blocked(p), hosts' = [hosts EXCEPT ![p].quit = TRUE]
          PROVE  ShutdownIsQuiet'
        <3>1. p \in Pids /\ mutex = p /\ hosts[p].maint # "busy" /\ ~running
            BY <2>2 DEF Server, Blocked
        <3>2. UNCHANGED <<mutex, running>> /\ hosts'[p].maint = hosts[p].maint
            BY <1>28, <2>2, <3>1 DEF AskShutdown
        <3> QED
            BY <3>1, <3>2 DEF ShutdownIsQuiet
    <2> QED
        BY <1>28, <2>1, <2>2 DEF AskShutdown
<1>29. ASSUME NEW c \in Seekers, NothingToStop(c) PROVE ShutdownIsQuiet'
    <2>1. Kept
        BY <1>29 DEF NothingToStop, At, Ends, Kept
    <2> QED
        BY <2>1, KeptQuiet
<1>30. ASSUME NEW c \in Seekers, StopUnanswered(c) PROVE ShutdownIsQuiet'
    <2>1. Kept
        BY <1>30 DEF StopUnanswered, Unanswered, At, Ends, Kept
    <2> QED
        BY <2>1, KeptQuiet
<1>31. ASSUME NEW c \in Seekers, SeesStopped(c) PROVE ShutdownIsQuiet'
    <2>1. CASE UNCHANGED hosts
        <3>1. Kept
            BY <1>31, <2>1 DEF SeesStopped, Kept
        <3> QED
            BY <3>1, KeptQuiet
    <2>2. CASE pub # NoPub /\ hosts' = [hosts EXCEPT ![pub.pid].excused = TRUE]
        <3>1. Kept
            BY <1>31, <2>2 DEF SeesStopped, PubShape, PubWritten, Kept
        <3> QED
            BY <3>1, KeptQuiet
    <2> QED
        BY <1>31, <2>1, <2>2 DEF SeesStopped
<1>32. ASSUME NEW c \in Seekers, StopTimesOut(c) PROVE ShutdownIsQuiet'
    <2>1. Kept
        BY <1>32 DEF StopTimesOut, At, Ends, Kept
    <2> QED
        BY <2>1, KeptQuiet
<1>33. ASSUME NEW c \in Seekers, DeliveryLost(c) PROVE ShutdownIsQuiet'
    <2>1. Kept
        BY <1>33 DEF DeliveryLost, At, Fault, Kept
    <2> QED
        BY <2>1, KeptQuiet
<1>34. ASSUME NEW c \in Seekers, WindowStartsRun(c) PROVE ShutdownIsQuiet'
    <2>1. PICK p \in Pids : hosts[p].st = "serving" /\ ~hosts[p].quit
        BY <1>34 DEF WindowStartsRun, Server
    <2>2. mutex = p /\ UNCHANGED <<hosts, mutex>>
        BY <1>34, <2>1 DEF WindowStartsRun
    <2> QED
        BY <2>1, <2>2 DEF ShutdownIsQuiet
<1>35. CASE HeartbeatAges
    BY <1>35, KeptQuiet DEF HeartbeatAges, Kept
<1>36. CASE UNCHANGED hsVars
    BY <1>36, KeptQuiet DEF Kept
<1> HIDE DEF HsTypeOK, HostShape
<1> QED
    BY <1>1, <1>2, <1>3, <1>4, <1>5, <1>6, <1>7, <1>8, <1>9, <1>10, <1>11, <1>12,
       <1>13, <1>14, <1>15, <1>16, <1>17, <1>18, <1>19, <1>20, <1>21, <1>22, <1>23, <1>24,
       <1>25, <1>26, <1>27, <1>28, <1>29, <1>30, <1>31, <1>32, <1>33, <1>34, <1>35, <1>36, Moves DEF Moved

\* Processes grow older: none starts twice, comes back or takes a beat back.
Lives ==
    \A q \in Pids :
        /\ hosts'[q].st = "none" => hosts[q].st = "none"
        /\ Alive(q)' => Alive(q) \/ hosts[q].st = "none"
        /\ hosts[q].st \notin {"none", "new", "building"}
             => hosts'[q].st \notin {"none", "new", "building"}
        /\ hosts[q].beat <= hosts'[q].beat

\* Every step of everyone.
LEMMA LivesStep ==
    ASSUME HsTypeOK, HostShape, Numbered, PubShape, [HsNext]_hsVars
    PROVE  Lives
<1> USE DEF HsTypeOK, Process, HostShape, Lives, Alive, NoPub, NoHost
<1>1. ASSUME NEW p \in Pids, HostLocks(p) PROVE Lives
    <2>1. CASE mutex = 0
        BY <1>1, <2>1, SMTT(30) DEF HostLocks
    <2>2. CASE mutex # 0
        BY <1>1, <2>2, SMTT(30) DEF HostLocks
    <2> QED
        BY <2>1, <2>2
<1>2. ASSUME NEW p \in Pids, HostPublishes(p) PROVE Lives
    BY <1>2 DEF HostPublishes
<1>3. ASSUME NEW p \in Pids, HostServes(p) PROVE Lives
    BY <1>3 DEF HostServes
<1>4. ASSUME NEW p \in Pids, LoopEnds(p) PROVE Lives
    BY <1>4 DEF LoopEnds
<1>5. ASSUME NEW p \in Pids, StopHeartbeat(p) PROVE Lives
    BY <1>5 DEF StopHeartbeat
<1>6. ASSUME NEW p \in Pids, StopMaintenance(p) PROVE Lives
    BY <1>6 DEF StopMaintenance
<1>7. ASSUME NEW p \in Pids, Withdraw(p) PROVE Lives
    BY <1>7 DEF Withdraw
<1>8. ASSUME NEW p \in Pids, ReleaseMutex(p) PROVE Lives
    BY <1>8 DEF ReleaseMutex
<1>9. ASSUME NEW p \in Pids, ProcessEnds(p) PROVE Lives
    BY <1>9 DEF ProcessEnds
<1>10. ASSUME NEW p \in Pids, BeatReads(p) PROVE Lives
    BY <1>10 DEF BeatReads
<1>11. ASSUME NEW p \in Pids, BeatPublishes(p) PROVE Lives
    BY <1>11 DEF BeatPublishes
<1>12. ASSUME NEW p \in Pids, RoundBegins(p) PROVE Lives
    BY <1>12 DEF RoundBegins
<1>13. ASSUME NEW p \in Pids, RoundEnds(p) PROVE Lives
    BY <1>13 DEF RoundEnds
<1>14. ASSUME NEW p \in Pids, HostFails(p) PROVE Lives
    BY <1>14 DEF HostFails, Fault
<1>15. ASSUME NEW p \in Pids, HostCrashes(p) PROVE Lives
    BY <1>15 DEF HostCrashes, Killed, FreedBy, Fault
<1>16. ASSUME NEW c \in Seekers, Load(c) PROVE Lives
    BY <1>16 DEF Load, At
<1>17. ASSUME NEW c \in Seekers, Clear(c) PROVE Lives
    BY <1>17 DEF Clear, At, Goes
<1>18. ASSUME NEW c \in Seekers, Unlink(c) PROVE Lives
    BY <1>18 DEF Unlink, PubShape, PubWritten
<1>19. ASSUME NEW c \in Seekers, Spawn(c) PROVE Lives
    BY <1>19, NextNumber DEF Spawn, At
<1>20. ASSUME NEW c \in Seekers, PollAgain(c) PROVE Lives
    BY <1>20 DEF PollAgain, At, Goes
<1>21. ASSUME NEW c \in Seekers, GivesUp(c) PROVE Lives
    <2>1. CASE UNCHANGED <<hosts, mutex>>
        BY <1>21, <2>1 DEF GivesUp, At, Ends
    <2>2. UNCHANGED <<pub, aged, running>>
        BY <1>21 DEF GivesUp
    <2>3. ASSUME NEW p \in Pids, Alive(p), hosts' = Killed(p), mutex' = FreedBy(p)
          PROVE  Lives
        BY <2>2, <2>3 DEF Alive, Killed, FreedBy
    <2> QED
        BY <1>21, <2>1, <2>3, GivesUpKills
<1>22. ASSUME NEW c \in Seekers, ProbeAnswered(c) PROVE Lives
    BY <1>22 DEF ProbeAnswered, At
<1>23. ASSUME NEW c \in Seekers, ProbeFails(c) PROVE Lives
    BY <1>23 DEF ProbeFails, Unanswered, At, Goes
<1>24. ASSUME NEW c \in Seekers, Boot(c) PROVE Lives
    BY <1>24 DEF Boot, At
<1>25. ASSUME NEW c \in Seekers, Deliver(c) PROVE Lives
    BY <1>25 DEF Deliver, At
<1>26. ASSUME NEW c \in Seekers, DeliveryUnanswered(c) PROVE Lives
    BY <1>26 DEF DeliveryUnanswered, Unanswered, At, Goes
<1>27. ASSUME NEW c \in Seekers, RetryDelivery(c) PROVE Lives
    BY <1>27 DEF RetryDelivery, At
<1>28. ASSUME NEW c \in Seekers, AskShutdown(c) PROVE Lives
    <2>1. CASE UNCHANGED hosts
        BY <1>28, <2>1 DEF AskShutdown
    <2>2. ASSUME NEW p \in Pids, hosts' = [hosts EXCEPT ![p].quit = TRUE]
          PROVE  Lives
        BY <1>28, <2>2 DEF AskShutdown
    <2> QED
        BY <1>28, <2>1, <2>2 DEF AskShutdown, Server
<1>29. ASSUME NEW c \in Seekers, NothingToStop(c) PROVE Lives
    BY <1>29 DEF NothingToStop, At, Ends
<1>30. ASSUME NEW c \in Seekers, StopUnanswered(c) PROVE Lives
    BY <1>30 DEF StopUnanswered, Unanswered, At, Ends
<1>31. ASSUME NEW c \in Seekers, SeesStopped(c) PROVE Lives
    <2>1. CASE UNCHANGED hosts
        BY <1>31, <2>1
    <2>2. CASE pub # NoPub /\ hosts' = [hosts EXCEPT ![pub.pid].excused = TRUE]
        BY <1>31, <2>2 DEF PubShape, PubWritten
    <2> QED
        BY <1>31, <2>1, <2>2 DEF SeesStopped
<1>32. ASSUME NEW c \in Seekers, StopTimesOut(c) PROVE Lives
    BY <1>32 DEF StopTimesOut, At, Ends
<1>33. ASSUME NEW c \in Seekers, DeliveryLost(c) PROVE Lives
    BY <1>33 DEF DeliveryLost, At, Fault
<1>34. ASSUME NEW c \in Seekers, WindowStartsRun(c) PROVE Lives
    BY <1>34 DEF WindowStartsRun
<1>35. CASE HeartbeatAges
    BY <1>35 DEF HeartbeatAges, Fault
<1>36. CASE UNCHANGED hsVars
    BY <1>36
<1> HIDE DEF HsTypeOK, HostShape, Lives
<1> QED
    BY <1>1, <1>2, <1>3, <1>4, <1>5, <1>6, <1>7, <1>8, <1>9, <1>10, <1>11, <1>12,
       <1>13, <1>14, <1>15, <1>16, <1>17, <1>18, <1>19, <1>20, <1>21, <1>22, <1>23, <1>24,
       <1>25, <1>26, <1>27, <1>28, <1>29, <1>30, <1>31, <1>32, <1>33, <1>34, <1>35, <1>36, Moves DEF Moved

\* What was written stays written.
LEMMA WrittenStays ==
    ASSUME Lives, HsTypeOK, HsTypeOK'
    PROVE  \A b \in Publication :
             (b # NoPub => /\ b.pid \in Pids /\ b.beat <= hosts[b.pid].beat
                           /\ hosts[b.pid].st \notin {"none", "new", "building"})
             => (b # NoPub => /\ b.pid \in Pids /\ b.beat <= hosts'[b.pid].beat
                              /\ hosts'[b.pid].st \notin {"none", "new", "building"})
  BY DEF Lives, Publication, HsTypeOK, Process

\* What a seeker that does not move has done stays done.
LEMMA DoneByFrame ==
    ASSUME HsTypeOK, Lives, NEW d \in Seekers, DoneBy(d), seek'[d] = seek[d]
    PROVE  DoneBy(d)'
<1>1. seek[d].child \in {0} \union Pids
    BY DEF HsTypeOK, Seeker
<1> QED
    BY <1>1 DEF Lives, DoneBy, Alive

\* What a seeker has done stays done.
LEMMA SeekStep ==
    ASSUME HsTypeOK, HostShape, Numbered, PubShape, SeekShape, [HsNext]_hsVars,
           NEW d \in Seekers
    PROVE  DoneBy(d)'
<1> Lives
    BY LivesStep
<1> DoneBy(d)
    BY DEF SeekShape
<1>0. seek[d].child \in {0} \union Pids /\ seek \in [Seekers -> Seeker]
    BY DEF HsTypeOK, Seeker
<1>1. ASSUME NEW p \in Pids, HostLocks(p) PROVE DoneBy(d)'
    BY <1>1, DoneByFrame DEF HostLocks
<1>2. ASSUME NEW p \in Pids, HostPublishes(p) PROVE DoneBy(d)'
    BY <1>2, DoneByFrame DEF HostPublishes
<1>3. ASSUME NEW p \in Pids, HostServes(p) PROVE DoneBy(d)'
    BY <1>3, DoneByFrame DEF HostServes
<1>4. ASSUME NEW p \in Pids, LoopEnds(p) PROVE DoneBy(d)'
    BY <1>4, DoneByFrame DEF LoopEnds
<1>5. ASSUME NEW p \in Pids, StopHeartbeat(p) PROVE DoneBy(d)'
    BY <1>5, DoneByFrame DEF StopHeartbeat
<1>6. ASSUME NEW p \in Pids, StopMaintenance(p) PROVE DoneBy(d)'
    BY <1>6, DoneByFrame DEF StopMaintenance
<1>7. ASSUME NEW p \in Pids, Withdraw(p) PROVE DoneBy(d)'
    BY <1>7, DoneByFrame DEF Withdraw
<1>8. ASSUME NEW p \in Pids, ReleaseMutex(p) PROVE DoneBy(d)'
    BY <1>8, DoneByFrame DEF ReleaseMutex
<1>9. ASSUME NEW p \in Pids, ProcessEnds(p) PROVE DoneBy(d)'
    BY <1>9, DoneByFrame DEF ProcessEnds
<1>10. ASSUME NEW p \in Pids, BeatReads(p) PROVE DoneBy(d)'
    BY <1>10, DoneByFrame DEF BeatReads
<1>11. ASSUME NEW p \in Pids, BeatPublishes(p) PROVE DoneBy(d)'
    BY <1>11, DoneByFrame DEF BeatPublishes
<1>12. ASSUME NEW p \in Pids, RoundBegins(p) PROVE DoneBy(d)'
    BY <1>12, DoneByFrame DEF RoundBegins
<1>13. ASSUME NEW p \in Pids, RoundEnds(p) PROVE DoneBy(d)'
    BY <1>13, DoneByFrame DEF RoundEnds
<1>14. ASSUME NEW p \in Pids, HostFails(p) PROVE DoneBy(d)'
    BY <1>14, DoneByFrame DEF HostFails
<1>15. ASSUME NEW p \in Pids, HostCrashes(p) PROVE DoneBy(d)'
    BY <1>15, DoneByFrame DEF HostCrashes
<1>16. ASSUME NEW c \in Seekers, Load(c) PROVE DoneBy(d)'
    <2>1. CASE c # d
        <3>1. seek'[d] = seek[d]
            BY <1>16, <2>1 DEF Load, At, HsTypeOK
        <3> QED
            BY <3>1, DoneByFrame
    <2>2. CASE c = d
        BY <1>16, <2>2, <1>0 DEF Load, At, DoneBy, Seeker
    <2> QED
        BY <2>1, <2>2
<1>17. ASSUME NEW c \in Seekers, Clear(c) PROVE DoneBy(d)'
    <2>1. CASE c # d
        <3>1. seek'[d] = seek[d]
            BY <1>17, <2>1 DEF Clear, At, Goes, HsTypeOK
        <3> QED
            BY <3>1, DoneByFrame
    <2>2. CASE c = d
        BY <1>17, <2>2, <1>0 DEF Clear, At, Goes, DoneBy, Seeker
    <2> QED
        BY <2>1, <2>2
<1>18. ASSUME NEW c \in Seekers, Unlink(c) PROVE DoneBy(d)'
    <2>1. CASE c # d
        <3>1. seek'[d] = seek[d]
            BY <1>18, <2>1 DEF Unlink, At, Goes, HsTypeOK
        <3> QED
            BY <3>1, DoneByFrame
    <2>2. CASE c = d
        BY <1>18, <2>2, <1>0 DEF Unlink, At, Goes, DoneBy, Seeker
    <2> QED
        BY <2>1, <2>2
<1>19. ASSUME NEW c \in Seekers, Spawn(c) PROVE DoneBy(d)'
    <2>1. CASE c # d
        <3>1. seek'[d] = seek[d]
            BY <1>19, <2>1 DEF Spawn, At, HsTypeOK
        <3> QED
            BY <3>1, DoneByFrame
    <2>2. CASE c = d
        BY <1>19, <2>2, <1>0 DEF Spawn, At, DoneBy, Seeker
    <2> QED
        BY <2>1, <2>2
<1>20. ASSUME NEW c \in Seekers, PollAgain(c) PROVE DoneBy(d)'
    <2>1. CASE c # d
        <3>1. seek'[d] = seek[d]
            BY <1>20, <2>1 DEF PollAgain, At, Goes, HsTypeOK
        <3> QED
            BY <3>1, DoneByFrame
    <2>2. CASE c = d
        BY <1>20, <2>2, <1>0 DEF PollAgain, At, Goes, DoneBy, Seeker
    <2> QED
        BY <2>1, <2>2
<1>21. ASSUME NEW c \in Seekers, GivesUp(c) PROVE DoneBy(d)'
    <2>1. CASE c # d
        <3>1. seek'[d] = seek[d]
            BY <1>21, <2>1 DEF GivesUp, At, Ends, HsTypeOK
        <3> QED
            BY <3>1, DoneByFrame
    <2>2. CASE c = d
        <3>1. /\ seek' = [seek EXCEPT ![d].end = "failed", ![d].saw = NoPub]
              /\ seek[d].end = "none" /\ seek[d].pc = "absent"
            BY <1>21, <2>2 DEF GivesUp, At, Ends
        <3>2. seek[d].child # 0 => hosts'[seek[d].child].st \in {"none", "gone"}
            <4>1. CASE seek[d].child # 0 /\ Alive(seek[d].child)
                <5>1. seek[d].child \in Pids /\ hosts' = Killed(seek[d].child)
                    BY <1>21, <2>2, <1>0, <4>1 DEF GivesUp
                <5> QED
                    BY <5>1 DEF Killed, HsTypeOK, Process
            <4>2. CASE seek[d].child # 0 /\ ~Alive(seek[d].child)
                <5>1. hosts' = hosts
                    BY <1>21, <2>2, <4>2 DEF GivesUp
                <5> QED
                    BY <5>1, <4>2 DEF Alive
            <4> QED
                BY <4>1, <4>2
        <3> QED
            BY <1>0, <3>1, <3>2 DEF DoneBy, Seeker, Lives, Alive
    <2> QED
        BY <2>1, <2>2
<1>22. ASSUME NEW c \in Seekers, ProbeAnswered(c) PROVE DoneBy(d)'
    <2>1. CASE c # d
        <3>1. seek'[d] = seek[d]
            BY <1>22, <2>1 DEF ProbeAnswered, At, HsTypeOK
        <3> QED
            BY <3>1, DoneByFrame
    <2>2. CASE c = d
        BY <1>22, <2>2, <1>0, SMTT(30) DEF ProbeAnswered, At, DoneBy, Seeker
    <2> QED
        BY <2>1, <2>2
<1>23. ASSUME NEW c \in Seekers, ProbeFails(c) PROVE DoneBy(d)'
    <2>1. CASE c # d
        <3>1. seek'[d] = seek[d]
            BY <1>23, <2>1 DEF ProbeFails, Unanswered, At, Goes, HsTypeOK
        <3> QED
            BY <3>1, DoneByFrame
    <2>2. CASE c = d
        BY <1>23, <2>2, <1>0 DEF ProbeFails, Unanswered, At, Goes, DoneBy, Seeker
    <2> QED
        BY <2>1, <2>2
<1>24. ASSUME NEW c \in Seekers, Boot(c) PROVE DoneBy(d)'
    <2>1. CASE c # d
        <3>1. seek'[d] = seek[d]
            BY <1>24, <2>1 DEF Boot, At, HsTypeOK
        <3> QED
            BY <3>1, DoneByFrame
    <2>2. CASE c = d
        BY <1>24, <2>2, <1>0 DEF Boot, At, DoneBy, Seeker
    <2> QED
        BY <2>1, <2>2
<1>25. ASSUME NEW c \in Seekers, Deliver(c) PROVE DoneBy(d)'
    <2>1. CASE c # d
        <3>1. seek'[d] = seek[d]
            BY <1>25, <2>1 DEF Deliver, At, HsTypeOK
        <3> QED
            BY <3>1, DoneByFrame
    <2>2. CASE c = d
        BY <1>25, <2>2, <1>0 DEF Deliver, At, DoneBy, Seeker
    <2> QED
        BY <2>1, <2>2
<1>26. ASSUME NEW c \in Seekers, DeliveryUnanswered(c) PROVE DoneBy(d)'
    <2>1. CASE c # d
        <3>1. seek'[d] = seek[d]
            BY <1>26, <2>1 DEF DeliveryUnanswered, Unanswered, At, Goes, HsTypeOK
        <3> QED
            BY <3>1, DoneByFrame
    <2>2. CASE c = d
        BY <1>26, <2>2, <1>0 DEF DeliveryUnanswered, Unanswered, At, Goes, DoneBy, Seeker
    <2> QED
        BY <2>1, <2>2
<1>27. ASSUME NEW c \in Seekers, RetryDelivery(c) PROVE DoneBy(d)'
    <2>1. CASE c # d
        <3>1. seek'[d] = seek[d]
            BY <1>27, <2>1 DEF RetryDelivery, At, HsTypeOK
        <3> QED
            BY <3>1, DoneByFrame
    <2>2. CASE c = d
        BY <1>27, <2>2, <1>0 DEF RetryDelivery, At, DoneBy, Seeker
    <2> QED
        BY <2>1, <2>2
<1>28. ASSUME NEW c \in Seekers, AskShutdown(c) PROVE DoneBy(d)'
    <2>1. CASE c # d
        <3>1. seek'[d] = seek[d]
            BY <1>28, <2>1 DEF AskShutdown, At, Goes, Ends, HsTypeOK
        <3> QED
            BY <3>1, DoneByFrame
    <2>2. CASE c = d
        <3>1. /\ \/ seek' = [seek EXCEPT ![d].end = "refused", ![d].saw = NoPub]
                 \/ seek' = [seek EXCEPT ![d].pc = "watch", ![d].saw = seek[d].saw]
              /\ seek[d].goal = "stop" /\ seek[d].end = "none" /\ seek[d].pc = "contact"
            BY <1>0, <1>28, <2>2 DEF AskShutdown, At, Ends, Goes
        <3> QED
            BY <1>0, <3>1 DEF DoneBy, Seeker, Lives
    <2> QED
        BY <2>1, <2>2
<1>29. ASSUME NEW c \in Seekers, NothingToStop(c) PROVE DoneBy(d)'
    <2>1. CASE c # d
        <3>1. seek'[d] = seek[d]
            BY <1>29, <2>1 DEF NothingToStop, At, Ends, HsTypeOK
        <3> QED
            BY <3>1, DoneByFrame
    <2>2. CASE c = d
        BY <1>29, <2>2, <1>0 DEF NothingToStop, At, Ends, DoneBy, Seeker
    <2> QED
        BY <2>1, <2>2
<1>30. ASSUME NEW c \in Seekers, StopUnanswered(c) PROVE DoneBy(d)'
    <2>1. CASE c # d
        <3>1. seek'[d] = seek[d]
            BY <1>30, <2>1 DEF StopUnanswered, Unanswered, At, Ends, HsTypeOK
        <3> QED
            BY <3>1, DoneByFrame
    <2>2. CASE c = d
        BY <1>30, <2>2, <1>0 DEF StopUnanswered, Unanswered, At, Ends, DoneBy, Seeker
    <2> QED
        BY <2>1, <2>2
<1>31. ASSUME NEW c \in Seekers, SeesStopped(c) PROVE DoneBy(d)'
    <2>1. CASE c # d
        <3>1. seek'[d] = seek[d]
            BY <1>31, <2>1 DEF SeesStopped, At, Ends, HsTypeOK
        <3> QED
            BY <3>1, DoneByFrame
    <2>2. CASE c = d
        <3>1. /\ seek' = [seek EXCEPT ![d].end = "stopped", ![d].saw = NoPub]
              /\ seek[d].end = "none" /\ seek[d].pc = "watch"
            BY <1>31, <2>2 DEF SeesStopped, At, Ends
        <3> QED
            BY <1>0, <3>1 DEF DoneBy, Seeker, Lives
    <2> QED
        BY <2>1, <2>2
<1>32. ASSUME NEW c \in Seekers, StopTimesOut(c) PROVE DoneBy(d)'
    <2>1. CASE c # d
        <3>1. seek'[d] = seek[d]
            BY <1>32, <2>1 DEF StopTimesOut, At, Ends, HsTypeOK
        <3> QED
            BY <3>1, DoneByFrame
    <2>2. CASE c = d
        <3>1. /\ seek' = [seek EXCEPT ![d].end = "failed", ![d].saw = NoPub]
              /\ seek[d].end = "none" /\ seek[d].pc = "watch"
            BY <1>32, <2>2 DEF StopTimesOut, At, Ends
        <3> QED
            BY <1>0, <3>1 DEF DoneBy, Seeker, Lives
    <2> QED
        BY <2>1, <2>2
<1>33. ASSUME NEW c \in Seekers, DeliveryLost(c) PROVE DoneBy(d)'
    <2>1. CASE c # d
        <3>1. seek'[d] = seek[d]
            BY <1>33, <2>1 DEF DeliveryLost, At, HsTypeOK
        <3> QED
            BY <3>1, DoneByFrame
    <2>2. CASE c = d
        BY <1>33, <2>2, <1>0 DEF DeliveryLost, At, DoneBy, Seeker
    <2> QED
        BY <2>1, <2>2
<1>34. ASSUME NEW c \in Seekers, WindowStartsRun(c) PROVE DoneBy(d)'
    <2>1. CASE c # d
        <3>1. seek'[d] = seek[d]
            BY <1>34, <2>1 DEF WindowStartsRun, HsTypeOK
        <3> QED
            BY <3>1, DoneByFrame
    <2>2. CASE c = d
        BY <1>34, <2>2, <1>0 DEF WindowStartsRun, DoneBy, Seeker
    <2> QED
        BY <2>1, <2>2
<1>35. CASE HeartbeatAges
    BY <1>35, DoneByFrame DEF HeartbeatAges
<1>36. CASE UNCHANGED hsVars
    BY <1>36, DoneByFrame
<1> QED
    BY <1>1, <1>2, <1>3, <1>4, <1>5, <1>6, <1>7, <1>8, <1>9, <1>10, <1>11, <1>12,
       <1>13, <1>14, <1>15, <1>16, <1>17, <1>18, <1>19, <1>20, <1>21, <1>22, <1>23, <1>24,
       <1>25, <1>26, <1>27, <1>28, <1>29, <1>30, <1>31, <1>32, <1>33, <1>34, <1>35, <1>36, Moves DEF Moved

\* A step that leaves the file alone and publishes nobody.
Frame ==
    /\ UNCHANGED <<pub, aged>>
    /\ \A q \in Pids :
         hosts'[q].st \in Findable /\ ~hosts'[q].excused
           => hosts[q].st \in Findable /\ ~hosts[q].excused

\* The steps that write, clear or age the file.
Rewrites ==
    \/ \E p \in Pids : HostPublishes(p) \/ Withdraw(p) \/ BeatPublishes(p)
    \/ \E c \in Seekers : Unlink(c) \/ SeesStopped(c)
    \/ HeartbeatAges

\* All others do.
LEMMA FrameStep ==
    ASSUME HsTypeOK, HostShape, Numbered, [HsNext]_hsVars
    PROVE  Frame \/ Rewrites
<1> USE DEF HsTypeOK, Process, HostShape, Findable, NoPub, NoHost
<1>1. ASSUME NEW p \in Pids, HostLocks(p) PROVE Frame \/ Rewrites
    <2>1. CASE mutex = 0
        BY <1>1, <2>1 DEF HostLocks, Frame
    <2>2. CASE mutex # 0
        BY <1>1, <2>2 DEF HostLocks, Frame
    <2> QED
        BY <2>1, <2>2
<1>2. ASSUME NEW p \in Pids, HostPublishes(p) PROVE Frame \/ Rewrites
    BY <1>2 DEF Rewrites
<1>3. ASSUME NEW p \in Pids, HostServes(p) PROVE Frame \/ Rewrites
    BY <1>3 DEF HostServes, Frame
<1>4. ASSUME NEW p \in Pids, LoopEnds(p) PROVE Frame \/ Rewrites
    BY <1>4 DEF LoopEnds, Frame
<1>5. ASSUME NEW p \in Pids, StopHeartbeat(p) PROVE Frame \/ Rewrites
    BY <1>5 DEF StopHeartbeat, Frame
<1>6. ASSUME NEW p \in Pids, StopMaintenance(p) PROVE Frame \/ Rewrites
    BY <1>6 DEF StopMaintenance, Frame
<1>7. ASSUME NEW p \in Pids, Withdraw(p) PROVE Frame \/ Rewrites
    BY <1>7 DEF Rewrites
<1>8. ASSUME NEW p \in Pids, ReleaseMutex(p) PROVE Frame \/ Rewrites
    BY <1>8 DEF ReleaseMutex, Frame
<1>9. ASSUME NEW p \in Pids, ProcessEnds(p) PROVE Frame \/ Rewrites
    BY <1>9 DEF ProcessEnds, Frame
<1>10. ASSUME NEW p \in Pids, BeatReads(p) PROVE Frame \/ Rewrites
    BY <1>10 DEF BeatReads, Frame
<1>11. ASSUME NEW p \in Pids, BeatPublishes(p) PROVE Frame \/ Rewrites
    BY <1>11 DEF Rewrites
<1>12. ASSUME NEW p \in Pids, RoundBegins(p) PROVE Frame \/ Rewrites
    BY <1>12 DEF RoundBegins, Frame
<1>13. ASSUME NEW p \in Pids, RoundEnds(p) PROVE Frame \/ Rewrites
    BY <1>13 DEF RoundEnds, Frame
<1>14. ASSUME NEW p \in Pids, HostFails(p) PROVE Frame \/ Rewrites
    BY <1>14 DEF HostFails, Frame
<1>15. ASSUME NEW p \in Pids, HostCrashes(p) PROVE Frame \/ Rewrites
    BY <1>15 DEF HostCrashes, Killed, Frame
<1>16. ASSUME NEW c \in Seekers, Load(c) PROVE Frame \/ Rewrites
    BY <1>16 DEF Load, Frame
<1>17. ASSUME NEW c \in Seekers, Clear(c) PROVE Frame \/ Rewrites
    BY <1>17 DEF Clear, Frame
<1>18. ASSUME NEW c \in Seekers, Unlink(c) PROVE Frame \/ Rewrites
    BY <1>18 DEF Rewrites
<1>19. ASSUME NEW c \in Seekers, Spawn(c) PROVE Frame \/ Rewrites
    BY <1>19, NextNumber DEF Spawn, Frame
<1>20. ASSUME NEW c \in Seekers, PollAgain(c) PROVE Frame \/ Rewrites
    BY <1>20 DEF PollAgain, Frame
<1>21. ASSUME NEW c \in Seekers, GivesUp(c) PROVE Frame \/ Rewrites
    <2>1. CASE UNCHANGED <<hosts, mutex>>
        BY <1>21, <2>1 DEF GivesUp, At, Ends, Frame
    <2>2. UNCHANGED <<pub, aged, running>>
        BY <1>21 DEF GivesUp
    <2>3. ASSUME NEW p \in Pids, Alive(p), hosts' = Killed(p), mutex' = FreedBy(p)
          PROVE  Frame \/ Rewrites
        BY <2>2, <2>3 DEF Alive, Killed, FreedBy, Frame
    <2> QED
        BY <1>21, <2>1, <2>3, GivesUpKills
<1>22. ASSUME NEW c \in Seekers, ProbeAnswered(c) PROVE Frame \/ Rewrites
    BY <1>22 DEF ProbeAnswered, Frame
<1>23. ASSUME NEW c \in Seekers, ProbeFails(c) PROVE Frame \/ Rewrites
    BY <1>23 DEF ProbeFails, Frame
<1>24. ASSUME NEW c \in Seekers, Boot(c) PROVE Frame \/ Rewrites
    BY <1>24 DEF Boot, Frame
<1>25. ASSUME NEW c \in Seekers, Deliver(c) PROVE Frame \/ Rewrites
    BY <1>25 DEF Deliver, Frame
<1>26. ASSUME NEW c \in Seekers, DeliveryUnanswered(c) PROVE Frame \/ Rewrites
    BY <1>26 DEF DeliveryUnanswered, Frame
<1>27. ASSUME NEW c \in Seekers, RetryDelivery(c) PROVE Frame \/ Rewrites
    BY <1>27 DEF RetryDelivery, Frame
<1>28. ASSUME NEW c \in Seekers, AskShutdown(c) PROVE Frame \/ Rewrites
    <2>1. CASE UNCHANGED hosts
        BY <1>28, <2>1 DEF AskShutdown, Frame
    <2>2. ASSUME NEW p \in Pids, hosts' = [hosts EXCEPT ![p].quit = TRUE]
          PROVE  Frame
        BY <1>28, <2>2 DEF AskShutdown, Frame
    <2> QED
        BY <1>28, <2>1, <2>2 DEF AskShutdown, Server
<1>29. ASSUME NEW c \in Seekers, NothingToStop(c) PROVE Frame \/ Rewrites
    BY <1>29 DEF NothingToStop, Frame
<1>30. ASSUME NEW c \in Seekers, StopUnanswered(c) PROVE Frame \/ Rewrites
    BY <1>30 DEF StopUnanswered, Frame
<1>31. ASSUME NEW c \in Seekers, SeesStopped(c) PROVE Frame \/ Rewrites
    BY <1>31 DEF Rewrites
<1>32. ASSUME NEW c \in Seekers, StopTimesOut(c) PROVE Frame \/ Rewrites
    BY <1>32 DEF StopTimesOut, Frame
<1>33. ASSUME NEW c \in Seekers, DeliveryLost(c) PROVE Frame \/ Rewrites
    BY <1>33 DEF DeliveryLost, Frame
<1>34. ASSUME NEW c \in Seekers, WindowStartsRun(c) PROVE Frame \/ Rewrites
    BY <1>34 DEF WindowStartsRun, Frame
<1>35. CASE HeartbeatAges
    BY <1>35 DEF Rewrites
<1>36. CASE UNCHANGED hsVars
    BY <1>36 DEF Frame
<1> HIDE DEF HsTypeOK, HostShape, Findable
<1> QED
    BY <1>1, <1>2, <1>3, <1>4, <1>5, <1>6, <1>7, <1>8, <1>9, <1>10, <1>11, <1>12,
       <1>13, <1>14, <1>15, <1>16, <1>17, <1>18, <1>19, <1>20, <1>21, <1>22, <1>23, <1>24,
       <1>25, <1>26, <1>27, <1>28, <1>29, <1>30, <1>31, <1>32, <1>33, <1>34, <1>35, <1>36, Moves DEF Moved

\* A seeker that looks on knows what it knew ...
LEMMA SeesFrame ==
    ASSUME HsTypeOK, HsTypeOK', Lives, Frame, NEW d \in Seekers, Sees(d), seek'[d] = seek[d]
    PROVE  Sees(d)'
<1>1. seek[d].saw \in Publication /\ pub \in Publication
    BY DEF HsTypeOK, Seeker
<1>2. PubWritten(seek[d].saw)'
    BY <1>1, WrittenStays DEF Sees, PubWritten
<1>3. seek'[d].pc = "clear" /\ seek'[d].end = "none" /\ pub' = seek'[d].saw
        => ~Alive(pub.pid)' \/ aged'
    <2> SUFFICES ASSUME seek[d].pc = "clear", seek[d].end = "none", pub = seek[d].saw, ~aged
                 PROVE  ~Alive(pub.pid)'
        BY DEF Frame
    <2>1. pub # NoPub /\ PubWritten(pub) /\ ~Alive(pub.pid) /\ pub' = pub
        BY DEF Sees, Frame
    <2> QED
        BY <2>1 DEF Lives, PubWritten, Alive
<1> QED
    BY <1>2, <1>3 DEF Sees, Frame

\* ... and one that has put its publication to use or away has nothing more to
\* know.
LEMMA SeesAfter ==
    ASSUME HsTypeOK, HsTypeOK', Lives, NEW d \in Seekers, Sees(d),
           seek'[d].saw \in {NoPub, seek[d].saw}, seek'[d].pc # "unlink",
           \/ seek'[d].end # "none"
           \/ seek'[d].pc \in {"load", "absent"}
           \/ seek'[d].pc \in {"contact", "missed", "watch"} /\ seek'[d].saw # NoPub
    PROVE  Sees(d)'
<1>1. seek[d].saw \in Publication
    BY DEF HsTypeOK, Seeker
<1> QED
    BY <1>1, WrittenStays DEF Sees, PubWritten

\* The steps that leave the file alone.
LEMMA SeesQuietly ==
    ASSUME HsTypeOK, HsTypeOK', HostShape, Numbered, PubShape, HasFound, SeekShape,
           [HsNext]_hsVars, Frame, NEW d \in Seekers
    PROVE  Sees(d)'
<1> Lives
    BY LivesStep
<1> Sees(d)
    BY DEF PubShape
<1>0. seek \in [Seekers -> Seeker]
    BY DEF HsTypeOK
<1>1. ASSUME NEW p \in Pids, HostLocks(p) PROVE Sees(d)'
    BY <1>1, SeesFrame DEF HostLocks
<1>2. ASSUME NEW p \in Pids, HostPublishes(p) PROVE Sees(d)'
    BY <1>2, SeesFrame DEF HostPublishes
<1>3. ASSUME NEW p \in Pids, HostServes(p) PROVE Sees(d)'
    BY <1>3, SeesFrame DEF HostServes
<1>4. ASSUME NEW p \in Pids, LoopEnds(p) PROVE Sees(d)'
    BY <1>4, SeesFrame DEF LoopEnds
<1>5. ASSUME NEW p \in Pids, StopHeartbeat(p) PROVE Sees(d)'
    BY <1>5, SeesFrame DEF StopHeartbeat
<1>6. ASSUME NEW p \in Pids, StopMaintenance(p) PROVE Sees(d)'
    BY <1>6, SeesFrame DEF StopMaintenance
<1>7. ASSUME NEW p \in Pids, Withdraw(p) PROVE Sees(d)'
    BY <1>7, SeesFrame DEF Withdraw
<1>8. ASSUME NEW p \in Pids, ReleaseMutex(p) PROVE Sees(d)'
    BY <1>8, SeesFrame DEF ReleaseMutex
<1>9. ASSUME NEW p \in Pids, ProcessEnds(p) PROVE Sees(d)'
    BY <1>9, SeesFrame DEF ProcessEnds
<1>10. ASSUME NEW p \in Pids, BeatReads(p) PROVE Sees(d)'
    BY <1>10, SeesFrame DEF BeatReads
<1>11. ASSUME NEW p \in Pids, BeatPublishes(p) PROVE Sees(d)'
    BY <1>11, SeesFrame DEF BeatPublishes
<1>12. ASSUME NEW p \in Pids, RoundBegins(p) PROVE Sees(d)'
    BY <1>12, SeesFrame DEF RoundBegins
<1>13. ASSUME NEW p \in Pids, RoundEnds(p) PROVE Sees(d)'
    BY <1>13, SeesFrame DEF RoundEnds
<1>14. ASSUME NEW p \in Pids, HostFails(p) PROVE Sees(d)'
    BY <1>14, SeesFrame DEF HostFails
<1>15. ASSUME NEW p \in Pids, HostCrashes(p) PROVE Sees(d)'
    BY <1>15, SeesFrame DEF HostCrashes
<1>16. ASSUME NEW c \in Seekers, Load(c) PROVE Sees(d)'
    <2>1. CASE c # d
        BY <1>16, <2>1, <1>0, SeesFrame DEF Load, At
    <2>2. CASE c = d
        BY <1>16, <2>2, <1>0, SeesAfter DEF Load, At, Seeker, Sees
    <2> QED
        BY <2>1, <2>2
<1>17. ASSUME NEW c \in Seekers, Clear(c) PROVE Sees(d)'
    <2>1. CASE c # d
        BY <1>17, <2>1, <1>0, SeesFrame DEF Clear, At, Goes
    <2>2. CASE c = d
        <3>1. CASE pub = seek[d].saw
            <4>1. seek'[d].saw = seek[d].saw /\ seek'[d].pc = "unlink"
                BY <1>17, <2>2, <1>0, <3>1 DEF Clear, Goes, Seeker
            <4>2. pub # NoPub /\ (~Alive(pub.pid) \/ aged)
                BY <1>17, <2>2, <3>1 DEF Clear, At, Sees
            <4>3. ASSUME NEW p \in Pids, hosts'[p].st \in Findable, ~hosts'[p].excused
                  PROVE  aged'
                <5>1. hosts[p].st \in Findable /\ pub = [pid |-> p, beat |-> hosts[p].beat]
                    BY <4>3 DEF Frame, HasFound
                <5> QED
                    BY <4>2, <5>1 DEF Alive, Findable, Frame
            <4>4. seek[d].saw \in Publication
                BY <1>0 DEF Seeker
            <4>5. PubWritten(seek[d].saw)'
                BY <4>1, <4>4, WrittenStays DEF Sees, PubWritten
            <4> QED
                BY <4>1, <4>2, <4>3, <4>5, <3>1 DEF Sees
        <3>2. CASE pub # seek[d].saw
            BY <1>17, <2>2, <1>0, <3>2, SeesAfter DEF Clear, Goes, Seeker
        <3> QED
            BY <3>1, <3>2
    <2> QED
        BY <2>1, <2>2
<1>18. ASSUME NEW c \in Seekers, Unlink(c) PROVE Sees(d)'
    <2>1. CASE c # d
        BY <1>18, <2>1, <1>0, SeesFrame DEF Unlink, At, Goes
    <2>2. CASE c = d
        BY <1>18, <2>2, <1>0, SeesAfter DEF Unlink, At, Goes, Seeker, Sees
    <2> QED
        BY <2>1, <2>2
<1>19. ASSUME NEW c \in Seekers, Spawn(c) PROVE Sees(d)'
    <2>1. CASE c # d
        BY <1>19, <2>1, <1>0, SeesFrame DEF Spawn, At
    <2>2. CASE c = d
        BY <1>19, <2>2, <1>0, SeesAfter DEF Spawn, At, Seeker, Sees
    <2> QED
        BY <2>1, <2>2
<1>20. ASSUME NEW c \in Seekers, PollAgain(c) PROVE Sees(d)'
    <2>1. CASE c # d
        BY <1>20, <2>1, <1>0, SeesFrame DEF PollAgain, At, Goes
    <2>2. CASE c = d
        BY <1>20, <2>2, <1>0, SeesAfter DEF PollAgain, At, Goes, Seeker, Sees
    <2> QED
        BY <2>1, <2>2
<1>21. ASSUME NEW c \in Seekers, GivesUp(c) PROVE Sees(d)'
    <2>1. CASE c # d
        BY <1>21, <2>1, <1>0, SeesFrame DEF GivesUp, At, Ends
    <2>2. CASE c = d
        BY <1>21, <2>2, <1>0, SeesAfter DEF GivesUp, At, Ends, Seeker, Sees
    <2> QED
        BY <2>1, <2>2
<1>22. ASSUME NEW c \in Seekers, ProbeAnswered(c) PROVE Sees(d)'
    <2>1. CASE c # d
        BY <1>22, <2>1, <1>0, SeesFrame DEF ProbeAnswered, At
    <2>2. CASE c = d
        <3>1. seek'[d].saw = NoPub /\ seek'[d].pc = "load"
            BY <1>22, <2>2, <1>0 DEF ProbeAnswered, Seeker
        <3> QED
            BY <3>1, SeesAfter
    <2> QED
        BY <2>1, <2>2
<1>23. ASSUME NEW c \in Seekers, ProbeFails(c) PROVE Sees(d)'
    <2>1. CASE c # d
        BY <1>23, <2>1, <1>0, SeesFrame DEF ProbeFails, Unanswered, At, Goes
    <2>2. CASE c = d
        BY <1>23, <2>2, <1>0, SeesAfter DEF ProbeFails, Unanswered, At, Goes, Seeker, Sees
    <2> QED
        BY <2>1, <2>2
<1>24. ASSUME NEW c \in Seekers, Boot(c) PROVE Sees(d)'
    <2>1. CASE c # d
        BY <1>24, <2>1, <1>0, SeesFrame DEF Boot, At
    <2>2. CASE c = d
        BY <1>24, <2>2, <1>0, SeesAfter DEF Boot, At, Seeker, Sees
    <2> QED
        BY <2>1, <2>2
<1>25. ASSUME NEW c \in Seekers, Deliver(c) PROVE Sees(d)'
    <2>1. CASE c # d
        BY <1>25, <2>1, <1>0, SeesFrame DEF Deliver, At
    <2>2. CASE c = d
        <3>1. /\ seek'[d].pc = "contact" /\ seek'[d].end = "accepted"
              /\ seek'[d].saw = NoPub
            BY <1>25, <2>2, <1>0 DEF Deliver, At, Seeker, HsTypeOK
        <3> QED
            BY <1>0, <3>1, SeesAfter
    <2> QED
        BY <2>1, <2>2
<1>26. ASSUME NEW c \in Seekers, DeliveryUnanswered(c) PROVE Sees(d)'
    <2>1. CASE c # d
        BY <1>26, <2>1, <1>0, SeesFrame DEF DeliveryUnanswered, Unanswered, At, Goes
    <2>2. CASE c = d
        BY <1>26, <2>2, <1>0, SeesAfter DEF DeliveryUnanswered, Unanswered, At, Goes, Seeker, Sees
    <2> QED
        BY <2>1, <2>2
<1>27. ASSUME NEW c \in Seekers, RetryDelivery(c) PROVE Sees(d)'
    <2>1. CASE c # d
        BY <1>27, <2>1, <1>0, SeesFrame DEF RetryDelivery, At
    <2>2. CASE c = d
        <3>1. CASE seek'[d].end = "failed" /\ seek'[d].pc = "missed"
                     /\ seek'[d].saw = seek[d].saw
            BY <1>0, <3>1, SeesAfter
        <3>2. CASE /\ seek'[d].end = "none" /\ seek'[d].pc = "clear"
                   /\ seek'[d].saw = seek[d].saw /\ UNCHANGED <<hosts, pub, aged>>
                   /\ pub = seek[d].saw /\ (~Alive(pub.pid) \/ aged)
            <4>1. seek[d].saw # NoPub
                BY <1>27, <2>2, <1>0 DEF RetryDelivery, At, Sees
            <4>2. PubWritten(seek[d].saw)'
                BY <1>0, <3>2 DEF Sees, PubWritten
            <4>3. ~Alive(pub.pid)' \/ aged'
                BY <3>2 DEF Alive
            <4> QED
                BY <3>2, <4>1, <4>2, <4>3 DEF Sees
        <3> QED
            BY <1>27, <2>2, <1>0, <3>1, <3>2
            DEF RetryDelivery, Unreachable, At, Seeker, HsTypeOK
    <2> QED
        BY <2>1, <2>2
<1>28. ASSUME NEW c \in Seekers, AskShutdown(c) PROVE Sees(d)'
    <2>1. CASE c # d
        BY <1>28, <2>1, <1>0, SeesFrame DEF AskShutdown, At, Goes, Ends
    <2>2. CASE c = d
        BY <1>28, <2>2, <1>0, SeesAfter DEF AskShutdown, At, Goes, Ends, Seeker, Sees
    <2> QED
        BY <2>1, <2>2
<1>29. ASSUME NEW c \in Seekers, NothingToStop(c) PROVE Sees(d)'
    <2>1. CASE c # d
        BY <1>29, <2>1, <1>0, SeesFrame DEF NothingToStop, At, Ends
    <2>2. CASE c = d
        BY <1>29, <2>2, <1>0, SeesAfter DEF NothingToStop, At, Ends, Seeker, Sees
    <2> QED
        BY <2>1, <2>2
<1>30. ASSUME NEW c \in Seekers, StopUnanswered(c) PROVE Sees(d)'
    <2>1. CASE c # d
        BY <1>30, <2>1, <1>0, SeesFrame DEF StopUnanswered, Unanswered, At, Ends
    <2>2. CASE c = d
        BY <1>30, <2>2, <1>0, SeesAfter DEF StopUnanswered, Unanswered, At, Ends, Seeker, Sees
    <2> QED
        BY <2>1, <2>2
<1>31. ASSUME NEW c \in Seekers, SeesStopped(c) PROVE Sees(d)'
    <2>1. CASE c # d
        BY <1>31, <2>1, <1>0, SeesFrame DEF SeesStopped, At, Ends
    <2>2. CASE c = d
        BY <1>31, <2>2, <1>0, SeesAfter DEF SeesStopped, At, Ends, Seeker, Sees
    <2> QED
        BY <2>1, <2>2
<1>32. ASSUME NEW c \in Seekers, StopTimesOut(c) PROVE Sees(d)'
    <2>1. CASE c # d
        BY <1>32, <2>1, <1>0, SeesFrame DEF StopTimesOut, At, Ends
    <2>2. CASE c = d
        BY <1>32, <2>2, <1>0, SeesAfter DEF StopTimesOut, At, Ends, Seeker, Sees
    <2> QED
        BY <2>1, <2>2
<1>33. ASSUME NEW c \in Seekers, DeliveryLost(c) PROVE Sees(d)'
    <2>1. CASE c # d
        BY <1>33, <2>1, <1>0, SeesFrame DEF DeliveryLost, At
    <2>2. CASE c = d
        BY <1>33, <2>2, <1>0, SeesAfter DEF DeliveryLost, At, Seeker, Sees
    <2> QED
        BY <2>1, <2>2
<1>34. ASSUME NEW c \in Seekers, WindowStartsRun(c) PROVE Sees(d)'
    <2>1. CASE c # d
        BY <1>34, <2>1, <1>0, SeesFrame DEF WindowStartsRun
    <2>2. CASE c = d
        <3>1. /\ seek'[d].saw = seek[d].saw /\ seek'[d].pc = seek[d].pc
              /\ seek'[d].end = "used"
            BY <1>34, <2>2, <1>0 DEF WindowStartsRun, Seeker
        <3>2. seek[d].saw \in Publication
            BY <1>0 DEF Seeker
        <3>3. PubWritten(seek[d].saw)'
            BY <3>1, <3>2, WrittenStays DEF Sees, PubWritten
        <3> QED
            BY <3>1, <3>3 DEF Sees, Frame
    <2> QED
        BY <2>1, <2>2
<1>35. CASE HeartbeatAges
    BY <1>35, SeesFrame DEF HeartbeatAges
<1>36. CASE UNCHANGED hsVars
    BY <1>36, SeesFrame
<1> QED
    BY <1>1, <1>2, <1>3, <1>4, <1>5, <1>6, <1>7, <1>8, <1>9, <1>10, <1>11, <1>12,
       <1>13, <1>14, <1>15, <1>16, <1>17, <1>18, <1>19, <1>20, <1>21, <1>22, <1>23, <1>24,
       <1>25, <1>26, <1>27, <1>28, <1>29, <1>30, <1>31, <1>32, <1>33, <1>34, <1>35, <1>36, Moves DEF Moved

\* The steps that write, clear or age it.
LEMMA SeesRewrite ==
    ASSUME HsTypeOK, HsTypeOK', HostShape, Numbered, PubShape, HasFound, HasFound', SeekShape,
           [HsNext]_hsVars, Rewrites, NEW d \in Seekers
    PROVE  Sees(d)'
<1> Lives
    BY LivesStep
<1> Sees(d)
    BY DEF PubShape
<1>0. /\ seek \in [Seekers -> Seeker] /\ seek[d].saw \in Publication
      /\ pub \in Publication /\ hosts \in [Pids -> Process]
    BY DEF HsTypeOK, Seeker
<1>1. ASSUME seek' = seek,
             seek[d].saw # NoPub /\ pub' = seek[d].saw => pub' = pub /\ aged' = aged,
             seek[d].pc = "unlink" =>
               \A p \in Pids : hosts'[p].st \in Findable /\ ~hosts'[p].excused => aged'
      PROVE  Sees(d)'
    <2>1. PubWritten(seek[d].saw)'
        BY <1>0, <1>1, WrittenStays DEF Sees, PubWritten
    <2>2. seek[d].pc = "clear" /\ seek[d].end = "none" /\ pub' = seek[d].saw
            => ~Alive(pub.pid)' \/ aged'
        <3> SUFFICES ASSUME seek[d].pc = "clear", seek[d].end = "none", pub' = seek[d].saw
                     PROVE  ~Alive(pub.pid)' \/ aged'
            OBVIOUS
        <3>1. pub' = pub /\ aged' = aged /\ pub # NoPub /\ PubWritten(pub)
            BY <1>1 DEF Sees
        <3> QED
            BY <3>1 DEF Sees, Lives, PubWritten, Alive
    <2> QED
        BY <1>1, <2>1, <2>2 DEF Sees
<1>2. ASSUME NEW p \in Pids, HostPublishes(p)
      PROVE  Sees(d)'
    <2>1. seek' = seek /\ pub' = [pid |-> p, beat |-> 0] /\ hosts[p].st = "building"
        BY <1>2 DEF HostPublishes
    <2>2. seek[d].saw # NoPub => pub' # seek[d].saw
        BY <2>1 DEF Sees, PubWritten
    <2>3. ASSUME NEW q \in Pids, hosts'[q].st \in Findable, ~hosts'[q].excused,
                 seek[d].pc = "unlink"
          PROVE  FALSE
        <3>1. Raced
            BY <2>3 DEF Raced
        <3>2. hosts'[p].excused
            BY <1>0, <1>2, <3>1 DEF HostPublishes, Process
        <3>3. q # p
            BY <2>3, <3>2
        <3>4. hosts'[q].st = hosts[q].st
            BY <1>0, <1>2, <3>3 DEF HostPublishes
        <3> QED
            BY <2>1, <2>3, <3>3, <3>4 DEF HostShape, Holding, Findable
    <2> QED
        BY <1>1, <2>1, <2>2, <2>3
<1>3. ASSUME NEW p \in Pids, Withdraw(p)
      PROVE  Sees(d)'
    <2>1. /\ seek' = seek /\ hosts[p].st = "closing"
          /\ \/ pub' = pub /\ aged' = aged
             \/ pub' = NoPub
        BY <1>3 DEF Withdraw, HsTypeOK, PubShape
    <2>2. ASSUME NEW q \in Pids, hosts'[q].st \in Findable, ~hosts'[q].excused,
                 seek[d].pc = "unlink"
          PROVE  aged'
        <3>1. hosts[q].st \in Findable /\ ~hosts[q].excused
            BY <1>0, <1>3, <2>2 DEF Withdraw, Findable, Process
        <3> QED
            BY <2>1, <2>2, <3>1 DEF HostShape, Holding, Findable
    <2> QED
        BY <1>1, <2>1, <2>2
<1>4. ASSUME NEW p \in Pids, BeatPublishes(p)
      PROVE  Sees(d)'
    <2>1. seek' = seek /\ pub' = [pid |-> p, beat |-> hosts[p].beat + 1]
        BY <1>4 DEF BeatPublishes
    <2>2. seek[d].saw # NoPub => pub' # seek[d].saw
        BY <1>0, <2>1 DEF Sees, PubWritten, Process
    <2>3. ASSUME NEW q \in Pids, hosts'[q].st \in Findable, ~hosts'[q].excused,
                 seek[d].pc = "unlink"
          PROVE  FALSE
        <3>1. Raced
            BY <2>3 DEF Raced
        <3>2. hosts'[p].excused
            BY <1>0, <1>4, <3>1 DEF BeatPublishes, Process
        <3>3. q # p
            BY <2>3, <3>2
        <3>4. hosts'[q].st = hosts[q].st /\ hosts[p].st \in {"serving", "leaving"}
            BY <1>0, <1>4, <3>3 DEF BeatPublishes, HostShape
        <3> QED
            BY <2>3, <3>3, <3>4 DEF HostShape, Holding, Findable
    <2> QED
        BY <1>1, <2>1, <2>2, <2>3
<1>5. ASSUME NEW c \in Seekers, Unlink(c)
      PROVE  Sees(d)'
    <2>1. pub' = NoPub
        BY <1>5 DEF Unlink
    <2>2. ASSUME NEW q \in Pids, hosts'[q].st \in Findable, ~hosts'[q].excused
          PROVE  FALSE
        <3>1. pub'.pid = 0
            BY <2>1 DEF NoPub
        <3>2. pub'.pid = q
            BY <2>2 DEF HasFound
        <3> QED
            BY <3>1, <3>2
    <2>3. CASE c # d
        <3>1. seek'[d] = seek[d]
            BY <1>0, <1>5, <2>3 DEF Unlink, Goes
        <3>2. PubWritten(seek[d].saw)'
            BY <1>0, <3>1, WrittenStays DEF Sees, PubWritten
        <3> QED
            BY <2>1, <2>2, <3>1, <3>2 DEF Sees
    <2>4. CASE c = d
        <3>1. seek'[d].saw = NoPub /\ seek'[d].pc = "absent"
            BY <1>0, <1>5, <2>4 DEF Unlink, Goes, Seeker
        <3> QED
            BY <3>1, SeesAfter
    <2> QED
        BY <2>3, <2>4
<1>6. ASSUME NEW c \in Seekers, SeesStopped(c)
      PROVE  Sees(d)'
    <2>0. CASE UNCHANGED <<pub, aged, hosts>>
        BY <1>6, <2>0, SeesQuietly DEF Frame
    <2>1. CASE pub' = NoPub
        <3>1. ASSUME NEW q \in Pids, hosts'[q].st \in Findable, ~hosts'[q].excused
              PROVE  FALSE
            <4>1. pub'.pid = 0
                BY <2>1 DEF NoPub
            <4>2. pub'.pid = q
                BY <3>1 DEF HasFound
            <4> QED
                BY <4>1, <4>2
        <3>2. CASE c # d
            <4>1. seek'[d] = seek[d]
                BY <1>0, <1>6, <3>2 DEF SeesStopped, Ends
            <4>2. PubWritten(seek[d].saw)'
                BY <1>0, <4>1, WrittenStays DEF Sees, PubWritten
            <4> QED
                BY <2>1, <3>1, <4>1, <4>2 DEF Sees
        <3>3. CASE c = d
            <4>1. seek'[d].saw = NoPub /\ seek'[d].pc = "watch" /\ seek'[d].end = "stopped"
                BY <1>0, <1>6, <3>3 DEF SeesStopped, Ends, At, Seeker
            <4> QED
                BY <4>1, SeesAfter
        <3> QED
            BY <3>2, <3>3
    <2> QED
        BY <1>6, <2>0, <2>1 DEF SeesStopped
<1>7. CASE HeartbeatAges
    BY <1>7, <1>0, WrittenStays DEF HeartbeatAges, Sees, PubWritten, Alive
<1> QED
    BY <1>2, <1>3, <1>4, <1>5, <1>6, <1>7 DEF Rewrites

\* A publication was written by the process it names.
LEMMA WrittenPub ==
    ASSUME HsTypeOK, HsTypeOK', HostShape, Numbered, PubShape, [HsNext]_hsVars
    PROVE  PubWritten(pub)' /\ (aged => pub # NoPub)'
<1> Lives
    BY LivesStep
<1>0. /\ pub \in Publication /\ hosts \in [Pids -> Process] /\ PubWritten(pub)
      /\ aged => pub # NoPub
    BY DEF HsTypeOK, PubShape
<1>1. CASE UNCHANGED <<pub, aged>>
    BY <1>0, <1>1, WrittenStays DEF PubWritten
<1>2. CASE pub' = NoPub /\ ~aged'
    BY <1>2 DEF PubWritten
<1>3. CASE HeartbeatAges
    BY <1>0, <1>3, WrittenStays DEF HeartbeatAges, PubWritten
<1>4. ASSUME NEW p \in Pids, HostPublishes(p)
      PROVE  PubWritten(pub)' /\ ~aged'
    <2>1. /\ pub' = [pid |-> p, beat |-> 0] /\ ~aged'
          /\ hosts'[p].st = "published" /\ hosts'[p].beat = hosts[p].beat
        BY <1>0, <1>4 DEF HostPublishes, Process
    <2> QED
        BY <1>0, <2>1 DEF PubWritten, Process
<1>5. ASSUME NEW p \in Pids, BeatPublishes(p)
      PROVE  PubWritten(pub)' /\ ~aged'
    <2>1. /\ pub' = [pid |-> p, beat |-> hosts[p].beat + 1] /\ ~aged'
          /\ hosts'[p].st = hosts[p].st /\ hosts'[p].beat = hosts[p].beat + 1
          /\ hosts[p].st \in {"serving", "leaving"}
        BY <1>0, <1>5 DEF BeatPublishes, HostShape, Process
    <2> QED
        BY <1>0, <2>1 DEF PubWritten, Process
<1>6. ASSUME NEW p \in Pids, Withdraw(p)
      PROVE  UNCHANGED <<pub, aged>> \/ (pub' = NoPub /\ ~aged')
    BY <1>0, <1>6 DEF Withdraw, HsTypeOK
<1>7. ASSUME NEW c \in Seekers, Unlink(c) \/ SeesStopped(c)
      PROVE  UNCHANGED <<pub, aged>> \/ (pub' = NoPub /\ ~aged')
    BY <1>7 DEF Unlink, SeesStopped
<1>8. Frame \/ Rewrites
    BY FrameStep
<1> QED
    BY <1>1, <1>2, <1>3, <1>4, <1>5, <1>6, <1>7, <1>8 DEF Frame, Rewrites

\* Only a launcher or a trigger client starts a process.
Unborn == \A q \in Pids : hosts[q].st = "none" => hosts'[q].st = "none"

\* No other step does.
LEMMA UnbornStep ==
    ASSUME HsTypeOK, HostShape, Numbered, PubShape, [HsNext]_hsVars
    PROVE  Unborn \/ \E c \in Seekers : Spawn(c)
<1> USE DEF HsTypeOK, Process, HostShape, Unborn, NoPub, NoHost
<1>1. ASSUME NEW p \in Pids, HostLocks(p) PROVE Unborn \/ \E c \in Seekers : Spawn(c)
    <2>1. CASE mutex = 0
        BY <1>1, <2>1 DEF HostLocks
    <2>2. CASE mutex # 0
        BY <1>1, <2>2 DEF HostLocks
    <2> QED
        BY <2>1, <2>2
<1>2. ASSUME NEW p \in Pids, HostPublishes(p) PROVE Unborn \/ \E c \in Seekers : Spawn(c)
    BY <1>2 DEF HostPublishes
<1>3. ASSUME NEW p \in Pids, HostServes(p) PROVE Unborn \/ \E c \in Seekers : Spawn(c)
    BY <1>3 DEF HostServes
<1>4. ASSUME NEW p \in Pids, LoopEnds(p) PROVE Unborn \/ \E c \in Seekers : Spawn(c)
    BY <1>4 DEF LoopEnds
<1>5. ASSUME NEW p \in Pids, StopHeartbeat(p) PROVE Unborn \/ \E c \in Seekers : Spawn(c)
    BY <1>5 DEF StopHeartbeat
<1>6. ASSUME NEW p \in Pids, StopMaintenance(p) PROVE Unborn \/ \E c \in Seekers : Spawn(c)
    BY <1>6 DEF StopMaintenance
<1>7. ASSUME NEW p \in Pids, Withdraw(p) PROVE Unborn \/ \E c \in Seekers : Spawn(c)
    BY <1>7 DEF Withdraw
<1>8. ASSUME NEW p \in Pids, ReleaseMutex(p) PROVE Unborn \/ \E c \in Seekers : Spawn(c)
    BY <1>8 DEF ReleaseMutex
<1>9. ASSUME NEW p \in Pids, ProcessEnds(p) PROVE Unborn \/ \E c \in Seekers : Spawn(c)
    BY <1>9 DEF ProcessEnds
<1>10. ASSUME NEW p \in Pids, BeatReads(p) PROVE Unborn \/ \E c \in Seekers : Spawn(c)
    BY <1>10 DEF BeatReads
<1>11. ASSUME NEW p \in Pids, BeatPublishes(p) PROVE Unborn \/ \E c \in Seekers : Spawn(c)
    BY <1>11 DEF BeatPublishes
<1>12. ASSUME NEW p \in Pids, RoundBegins(p) PROVE Unborn \/ \E c \in Seekers : Spawn(c)
    BY <1>12 DEF RoundBegins
<1>13. ASSUME NEW p \in Pids, RoundEnds(p) PROVE Unborn \/ \E c \in Seekers : Spawn(c)
    BY <1>13 DEF RoundEnds
<1>14. ASSUME NEW p \in Pids, HostFails(p) PROVE Unborn \/ \E c \in Seekers : Spawn(c)
    BY <1>14 DEF HostFails
<1>15. ASSUME NEW p \in Pids, HostCrashes(p) PROVE Unborn \/ \E c \in Seekers : Spawn(c)
    BY <1>15 DEF HostCrashes, Killed, Alive
<1>16. ASSUME NEW c \in Seekers, Load(c) PROVE Unborn \/ \E x \in Seekers : Spawn(x)
    BY <1>16 DEF Load
<1>17. ASSUME NEW c \in Seekers, Clear(c) PROVE Unborn \/ \E x \in Seekers : Spawn(x)
    BY <1>17 DEF Clear
<1>18. ASSUME NEW c \in Seekers, Unlink(c) PROVE Unborn \/ \E x \in Seekers : Spawn(x)
    BY <1>18 DEF Unlink, PubShape, PubWritten
<1>19. ASSUME NEW c \in Seekers, Spawn(c) PROVE Unborn \/ \E x \in Seekers : Spawn(x)
    BY <1>19
<1>20. ASSUME NEW c \in Seekers, PollAgain(c) PROVE Unborn \/ \E x \in Seekers : Spawn(x)
    BY <1>20 DEF PollAgain
<1>21. ASSUME NEW c \in Seekers, GivesUp(c) PROVE Unborn \/ \E x \in Seekers : Spawn(x)
    <2>1. CASE UNCHANGED hosts
        BY <1>21, <2>1
    <2>2. ASSUME NEW p \in Pids, Alive(p), hosts' = Killed(p)
          PROVE  Unborn
        BY <1>21, <2>2 DEF Killed, Alive
    <2>3. seek[c].child \in {0} \union Pids
        BY <1>21 DEF Seeker
    <2> QED
        BY <1>21, <2>1, <2>2, <2>3 DEF GivesUp
<1>22. ASSUME NEW c \in Seekers, ProbeAnswered(c) PROVE Unborn \/ \E x \in Seekers : Spawn(x)
    BY <1>22 DEF ProbeAnswered
<1>23. ASSUME NEW c \in Seekers, ProbeFails(c) PROVE Unborn \/ \E x \in Seekers : Spawn(x)
    BY <1>23 DEF ProbeFails
<1>24. ASSUME NEW c \in Seekers, Boot(c) PROVE Unborn \/ \E x \in Seekers : Spawn(x)
    BY <1>24 DEF Boot
<1>25. ASSUME NEW c \in Seekers, Deliver(c) PROVE Unborn \/ \E x \in Seekers : Spawn(x)
    BY <1>25 DEF Deliver
<1>26. ASSUME NEW c \in Seekers, DeliveryUnanswered(c) PROVE Unborn \/ \E x \in Seekers : Spawn(x)
    BY <1>26 DEF DeliveryUnanswered
<1>27. ASSUME NEW c \in Seekers, RetryDelivery(c) PROVE Unborn \/ \E x \in Seekers : Spawn(x)
    BY <1>27 DEF RetryDelivery
<1>28. ASSUME NEW c \in Seekers, AskShutdown(c) PROVE Unborn \/ \E x \in Seekers : Spawn(x)
    <2>1. CASE UNCHANGED hosts
        BY <1>28, <2>1
    <2>2. ASSUME NEW p \in Pids, hosts' = [hosts EXCEPT ![p].quit = TRUE]
          PROVE  Unborn
        BY <1>28, <2>2
    <2> QED
        BY <1>28, <2>1, <2>2 DEF AskShutdown, Server
<1>29. ASSUME NEW c \in Seekers, NothingToStop(c) PROVE Unborn \/ \E x \in Seekers : Spawn(x)
    BY <1>29 DEF NothingToStop
<1>30. ASSUME NEW c \in Seekers, StopUnanswered(c) PROVE Unborn \/ \E x \in Seekers : Spawn(x)
    BY <1>30 DEF StopUnanswered
<1>31. ASSUME NEW c \in Seekers, SeesStopped(c) PROVE Unborn \/ \E x \in Seekers : Spawn(x)
    <2>1. CASE UNCHANGED hosts
        BY <1>31, <2>1
    <2>2. CASE pub # NoPub /\ hosts' = [hosts EXCEPT ![pub.pid].excused = TRUE]
        BY <1>31, <2>2 DEF PubShape, PubWritten
    <2> QED
        BY <1>31, <2>1, <2>2 DEF SeesStopped
<1>32. ASSUME NEW c \in Seekers, StopTimesOut(c) PROVE Unborn \/ \E x \in Seekers : Spawn(x)
    BY <1>32 DEF StopTimesOut
<1>33. ASSUME NEW c \in Seekers, DeliveryLost(c) PROVE Unborn \/ \E x \in Seekers : Spawn(x)
    BY <1>33 DEF DeliveryLost
<1>34. ASSUME NEW c \in Seekers, WindowStartsRun(c) PROVE Unborn \/ \E x \in Seekers : Spawn(x)
    BY <1>34 DEF WindowStartsRun
<1>35. CASE HeartbeatAges
    BY <1>35 DEF HeartbeatAges
<1>36. CASE UNCHANGED hsVars
    BY <1>36
<1> HIDE DEF HsTypeOK, HostShape, Unborn
<1> QED
    BY <1>1, <1>2, <1>3, <1>4, <1>5, <1>6, <1>7, <1>8, <1>9, <1>10, <1>11, <1>12,
       <1>13, <1>14, <1>15, <1>16, <1>17, <1>18, <1>19, <1>20, <1>21, <1>22, <1>23, <1>24,
       <1>25, <1>26, <1>27, <1>28, <1>29, <1>30, <1>31, <1>32, <1>33, <1>34, <1>35, <1>36, Moves DEF Moved

\* The numbering of the processes.
LEMMA NumberStep ==
    ASSUME HsTypeOK, HostShape, Numbered, PubShape, [HsNext]_hsVars
    PROVE  Numbered'
<1>1. CASE \E c \in Seekers : Spawn(c)
    <2>1. PICK c \in Seekers : Spawn(c)
        BY <1>1
    <2> DEFINE n == Cardinality(Spawned)
    <2>2. /\ n + 1 \in Pids /\ hosts[n + 1].st = "none" /\ Spawned = 1..n
        BY <2>1, NextNumber DEF Spawn
    <2>3. n \in Nat
        <3>1. PICK m \in 0..MaxHosts : Spawned = 1..m
            BY DEF Numbered
        <3> QED
            BY <3>1, FS_Interval
    <2>4. hosts' = [hosts EXCEPT ![n + 1].st = "new"]
        BY <2>1 DEF Spawn
    <2> HIDE DEF n
    <2>5. Spawned' = Spawned \cup {n + 1}
        BY <2>2, <2>4 DEF Spawned, HsTypeOK, Process
    <2>6. Spawned' = 1..(n + 1) /\ n + 1 \in 0..MaxHosts
        BY <2>2, <2>3, <2>5
    <2> QED
        BY <2>6 DEF Numbered
<1>2. CASE ~ \E c \in Seekers : Spawn(c)
    <2>1. Spawned' = Spawned
        BY <1>2, UnbornStep, LivesStep DEF Unborn, Lives, Spawned
    <2> QED
        BY <2>1 DEF Numbered
<1> QED
    BY <1>1, <1>2

-----------------------------------------------------------------------------
\* No process runs at first.
LEMMA InitInv == HsInit => IInv
<1> SUFFICES ASSUME HsInit PROVE IInv
    OBVIOUS
<1>1. PICK goals \in Company : seek = [c \in Seekers |-> NewSeeker(goals[c])]
    BY DEF HsInit
<1>2. /\ \A c \in Seekers : goals[c] \in {"open", "send", "stop"}
    BY HsAssumption
<1>3. HsTypeOK
    <2>1. hosts \in [Pids -> Process]
        BY DEF HsInit, NoHost, Process
    <2>2. seek \in [Seekers -> Seeker]
        BY <1>1, <1>2, NoPubType DEF NewSeeker, Seeker
    <2>3. hsc \in 0..MaxHsFaults
        BY Bounds DEF HsInit
    <2>4. mutex = 0 /\ pub = NoPub /\ aged = FALSE /\ running = FALSE
        BY DEF HsInit
    <2> QED
        BY <2>1, <2>2, <2>3, <2>4, NoPubType DEF HsTypeOK
<1>4. HostShape /\ HasFound /\ ShutdownIsQuiet
    BY DEF HsInit, NoHost, HostShape, HasFound, ShutdownIsQuiet, Holding, Findable
<1>5. Numbered
    <2>1. Spawned = {}
        BY DEF HsInit, NoHost, Spawned
    <2>2. Spawned = 1..0 /\ 0 \in 0..MaxHosts
        BY <2>1
    <2> QED
        BY <2>2 DEF Numbered
<1>6. PubShape
    BY <1>1 DEF HsInit, PubShape, Sees, PubWritten, NewSeeker
<1>7. SeekShape
    BY <1>1 DEF SeekShape, DoneBy, NewSeeker
<1> QED
    BY <1>3, <1>4, <1>5, <1>6, <1>7 DEF IInv

\* The inductive invariant of the processes, their file and their seekers.
THEOREM Invariance == HsSpec => []IInv
<1>1. ASSUME IInv, [HsNext]_hsVars PROVE IInv'
    <2>1. /\ HsTypeOK /\ HostShape /\ Numbered /\ PubShape /\ HasFound /\ SeekShape
          /\ ShutdownIsQuiet
        BY <1>1 DEF IInv
    <2>2. HsTypeOK'
        BY <1>1, <2>1, TypeStep
    <2>3. HostShape' /\ Numbered' /\ HasFound' /\ ShutdownIsQuiet'
        BY <1>1, <2>1, HostStep, NumberStep, FoundStep, QuietStep
    <2>4. SeekShape'
        BY <1>1, <2>1, <2>2, SeekStep DEF SeekShape
    <2>5. PubShape'
        <3>1. \A d \in Seekers : Sees(d)'
            BY <1>1, <2>1, <2>2, <2>3, FrameStep, SeesQuietly, SeesRewrite
        <3>2. PubWritten(pub)' /\ (aged => pub # NoPub)'
            BY <1>1, <2>1, <2>2, WrittenPub
        <3> QED
            BY <3>1, <3>2 DEF PubShape
    <2> QED
        BY <2>2, <2>3, <2>4, <2>5 DEF IInv
<1> QED
    BY InitInv, <1>1, PTL DEF HsSpec

\* Every variable keeps its type (the publication file's fields, the host's
\* stages and the seekers' steps).
THEOREM TypeCorrect == HsSpec => []HsTypeOK
<1>1. IInv => HsTypeOK
    BY DEF IInv
<1> QED
    BY Invariance, <1>1, PTL

\* The named mutex keeps two processes from working on the same state, however
\* many are started (_acquire_host_mutex in engine_host.py).
THEOREM OnlyOneWorks == HsSpec => []OneHostWorks
<1>1. IInv => OneHostWorks
    <2> SUFFICES ASSUME HsTypeOK, HostShape, NEW p \in Pids, NEW q \in Pids, p # q,
                        Works(p), Works(q)
                 PROVE  hosts[p].failed \/ hosts[q].failed
        BY DEF IInv, OneHostWorks
    <2> QED
        BY DEF HsTypeOK, Process, HostShape, Works, Holding
<1> QED
    BY Invariance, <1>1, PTL

\* From a granted shutdown to the release of the mutex nothing runs, but for a
\* round of a host that failed (EngineHostShutdownCoordinator).
THEOREM QuietUntilReleased == HsSpec => []ShutdownIsQuiet
<1>1. IInv => ShutdownIsQuiet
    BY DEF IInv
<1> QED
    BY Invariance, <1>1, PTL

\* A serving host is in the file unless it was cleared with an old heartbeat or
\* in a race (clear_stale_local_engine_host_publication).
THEOREM ServingIsFindable == HsSpec => []HostIsFindable
<1>1. IInv => HostIsFindable
    BY DEF IInv, HasFound, Findable, HostIsFindable
<1> QED
    BY Invariance, <1>1, PTL

\* Whoever gives up has killed what it started, and no trigger is delivered
\* twice while the host of its first delivery is alive with a fresh heartbeat
\* (run_local_preview_desktop, run_trigger_client).
THEOREM CleanedUp == HsSpec => []SeekersCleanUp
<1>1. IInv => SeekersCleanUp
    BY DEF IInv, SeekShape, DoneBy, SeekersCleanUp
<1> QED
    BY Invariance, <1>1, PTL

-----------------------------------------------------------------------------
(* Sessions: the inductive invariant.  A session is there as long as it was  *)
(* used within the idle time; a client that was refused for its own frames   *)
(* still has them all, one refused for all frames still sees them or others  *)
(* that came after the time it was told.                                     *)

PipeStates == {"none", "listening", "reading", "writing", "acking"}
ClientPlaces == {"idle", "opening", "opened", "sent", "answered", "stalled"}
Requests == {"none", "hello", "ask", "bad", "foreign"}
Verdicts == {"none", "ok", "unknown", "refused", "full", "client", "global"}

\* A log of admitted frames, in the order of their times.
FrameLog(ts) ==
    /\ ts \in Seq(Nat)
    /\ \A i, j \in 1..Len(ts) : ts[i] <= clock /\ (i <= j => ts[i] <= ts[j])

SsTypes ==
    /\ clock \in Start..(Start + MaxClock)
    /\ FrameLog(frames) /\ Len(frames) <= GlobalFrames
    /\ pipe \in [st : PipeStates, who : Clients \cup {"nobody"}]
    /\ cl \in [Clients -> [pc : ClientPlaces, req : Requests]]
    /\ res \in [Clients -> [what : Verdicts, at : Nat]]
    /\ used \in [Clients -> {Never} \cup Start..clock]

\* The accepted clients.
AcceptedShape ==
    /\ acc = [c \in DOMAIN acc |-> acc[c]] /\ DOMAIN acc \subseteq Clients
    /\ IsFiniteSet(DOMAIN acc) /\ Cardinality(DOMAIN acc) <= MaxAccepted
    /\ \A c \in DOMAIN acc :
         /\ acc[c] \in [seen : Nat, times : Seq(Nat)]
         /\ FrameLog(acc[c].times) /\ Len(acc[c].times) \in 1..ClientFrames
         /\ acc[c].seen = acc[c].times[Len(acc[c].times)]

\* Whose turn it is on the pipe.
PipeShape ==
    /\ pipe.who \in Clients <=> pipe.st \in {"reading", "writing", "acking"}
    /\ \A c \in Clients :
         /\ cl[c].pc = "opened" => pipe.who = c /\ pipe.st = "reading"
         /\ cl[c].pc = "answered" => pipe.who = c /\ pipe.st = "acking"

\* Sessions follow use.
UseShape ==
    \A c \in Clients : IF c \in DOMAIN acc THEN acc[c].seen = used[c] ELSE used[c] + Idle <= clock

\* What a client was told that was refused for its own frames, or for all.
OwnRefusals ==
    \A c \in Clients : res[c].what = "client" =>
        IF c \in DOMAIN acc
        THEN Len(acc[c].times) = ClientFrames /\ res[c].at = acc[c].times[1] + Window
        ELSE res[c].at <= clock
CommonRefusals ==
    \A c \in Clients : res[c].what = "global" =>
        /\ Len(frames) > 0
        /\ \/ Len(frames) = GlobalFrames /\ res[c].at = frames[1] + Window
           \/ frames[Len(frames)] >= res[c].at

SsInv ==
    SsTypes /\ AcceptedShape /\ PipeShape /\ UseShape /\ OwnRefusals /\ CommonRefusals

\* The constants.
LEMMA SsConstants ==
    /\ {MaxAccepted, GlobalFrames, ClientFrames, Window, Idle} \subseteq Nat \ {0}
    /\ Window <= Idle /\ MaxClock \in Nat /\ "nobody" \notin Clients
    /\ Start = Idle + 1 /\ Never = 0
BY SsAssumption DEF Start, Never

\* Frames are numbered, so there is a first one of any that there are.
LEMMA LeastFrame ==
    ASSUME NEW S \in SUBSET Nat, S # {}
    PROVE  \E x \in S : \A y \in S : x <= y
<1> DEFINE R == OpToRel(<, Nat)
<1>1. \A x, y \in Nat : <<y, x>> \in R <=> y < x
    BY DEF OpToRel
<1>2. IsWellFoundedOn(R, Nat)
    BY NatLessThanWellFounded, Zenon
<1> HIDE DEF R
<1>3. PICK x \in S : \A y \in S : ~ (<<y, x>> \in R)
    BY <1>2, WFMin, Zenon
<1>4. ASSUME NEW y \in S PROVE x <= y
  <2>1. ~(y < x)
      BY <1>1, <1>3
  <2> QED
      BY <2>1
<1> QED
    BY <1>4

\* There is a first frame that is not expired, or none.
LEMMA StaleIs ==
    ASSUME clock \in Nat, NEW ts \in Seq(Nat)
    PROVE  /\ Stale(ts) \in 0..Len(ts)
           /\ \A i \in 1..Stale(ts) : ts[i] + Window <= clock
           /\ Stale(ts) < Len(ts) => ts[Stale(ts) + 1] + Window > clock
<1> DEFINE P(n) == /\ \A i \in 1..n : ts[i] + Window <= clock
                   /\ n < Len(ts) => ts[n + 1] + Window > clock
           S == {i \in 1..Len(ts) : ts[i] + Window > clock}
<1>1. Len(ts) \in Nat /\ \A i \in 1..Len(ts) : ts[i] \in Nat
    BY LenProperties
<1>2. Window \in Nat
    BY SsConstants
<1>3. \E n \in 0..Len(ts) : P(n)
  <2>1. CASE S = {}
    <3>1. P(Len(ts))
        BY <1>1, <1>2, <2>1
    <3> QED
        BY <1>1, <3>1
  <2>2. CASE S # {}
    <3>1. S \in SUBSET Nat
        OBVIOUS
    <3>2. PICK x \in S : \A y \in S : x <= y
        BY <2>2, <3>1, LeastFrame
    <3>3. x - 1 \in 0..Len(ts) /\ (x - 1) + 1 = x
        BY <1>1, <3>2
    <3>4. ASSUME NEW i \in 1..(x - 1) PROVE ts[i] + Window <= clock
      <4>1. i \in 1..Len(ts) /\ ~(x <= i) /\ i \in Nat
          BY <1>1, <3>2
      <4>2. i \notin S
          BY <3>2, <4>1
      <4> QED
          BY <1>1, <1>2, <4>1, <4>2
    <3>5. ts[(x - 1) + 1] + Window > clock
        BY <3>2, <3>3
    <3> QED
        BY <3>3, <3>4, <3>5
  <2> QED
      BY <2>1, <2>2
<1>4. Stale(ts) = CHOOSE n \in 0..Len(ts) : P(n)
    BY Zenon DEF Stale
<1> HIDE DEF P
<1>5. Stale(ts) \in 0..Len(ts) /\ P(Stale(ts))
    BY <1>3, <1>4, Zenon
<1> QED
    BY <1>5 DEF P

\* What is left of a log when the expired frames are gone from its front.
LEMMA LiveAre ==
    ASSUME clock \in Nat, NEW ts, FrameLog(ts)
    PROVE  /\ FrameLog(LiveFrames(ts))
           /\ Len(LiveFrames(ts)) \in 0..Len(ts)
           /\ Len(ts) > 0 /\ ts[1] + Window > clock => LiveFrames(ts) = ts
           /\ Len(ts) > 0 /\ ts[1] + Window <= clock => Len(LiveFrames(ts)) < Len(ts)
           /\ Len(LiveFrames(ts)) > 0 => LiveFrames(ts)[Len(LiveFrames(ts))] = ts[Len(ts)]
<1> DEFINE n == Stale(ts)
           L == LiveFrames(ts)
<1>1. ts \in Seq(Nat) /\ Len(ts) \in Nat /\ \A i \in 1..Len(ts) : ts[i] \in Nat
    BY LenProperties DEF FrameLog
<1>2. /\ n \in 0..Len(ts) /\ \A i \in 1..n : ts[i] + Window <= clock
      /\ n < Len(ts) => ts[n + 1] + Window > clock
    BY <1>1, StaleIs
<1>3. L = SubSeq(ts, n + 1, Len(ts))
    BY DEF LiveFrames
<1> HIDE DEF n, L
<1>4. /\ L \in Seq(Nat) /\ Len(L) = Len(ts) - n
      /\ \A i \in 1..Len(L) : L[i] = ts[n + i]
  <2>1. n + 1 \in Int /\ Len(ts) \in Int /\ \A i \in (n + 1)..Len(ts) : ts[i] \in Nat
      BY <1>1, <1>2
  <2>2. /\ L \in Seq(Nat)
        /\ Len(L) = IF n + 1 <= Len(ts) THEN Len(ts) - (n + 1) + 1 ELSE 0
        /\ \A i \in 1..(Len(ts) - (n + 1) + 1) : L[i] = ts[(n + 1) + i - 1]
    <3> DEFINE m == n + 1
    <3>1. /\ SubSeq(ts, m, Len(ts)) \in Seq(Nat)
          /\ Len(SubSeq(ts, m, Len(ts))) = IF m <= Len(ts) THEN Len(ts) - m + 1 ELSE 0
          /\ \A i \in 1..(Len(ts) - m + 1) : SubSeq(ts, m, Len(ts))[i] = ts[m + i - 1]
      <4> HIDE DEF m
      <4> QED
          BY <2>1, SubSeqProperties DEF m
    <3> QED
        BY <1>3, <3>1
  <2>3. Len(L) = Len(ts) - n
      BY <1>1, <1>2, <2>2
  <2>4. ASSUME NEW i \in 1..Len(L) PROVE L[i] = ts[n + i]
    <3>1. i \in 1..(Len(ts) - (n + 1) + 1) /\ (n + 1) + i - 1 = n + i
        BY <1>1, <1>2, <2>3
    <3> QED
        BY <2>2, <3>1
  <2> QED
      BY <2>2, <2>3, <2>4
<1>5. FrameLog(L)
  <2>1. ASSUME NEW i \in 1..Len(L), NEW j \in 1..Len(L)
        PROVE  L[i] <= clock /\ (i <= j => L[i] <= L[j])
    <3>1. n + i \in 1..Len(ts) /\ n + j \in 1..Len(ts) /\ (i <= j => n + i <= n + j)
        BY <1>1, <1>2, <1>4
    <3> QED
        BY <1>4, <3>1 DEF FrameLog
  <2> QED
      BY <1>4, <2>1 DEF FrameLog
<1>6. Len(L) \in 0..Len(ts)
    BY <1>1, <1>2, <1>4
<1>7. ASSUME Len(ts) > 0, ts[1] + Window > clock PROVE L = ts
  <2>1. Window \in Nat /\ n = 0
      BY <1>1, <1>2, <1>7, SsConstants
  <2> QED
      BY <1>1, <1>3, <2>1, SubSeqFull
<1>8. ASSUME Len(ts) > 0, ts[1] + Window <= clock PROVE Len(L) < Len(ts)
  <2>1. Window \in Nat /\ n # 0
      BY <1>1, <1>2, <1>8, SsConstants
  <2> QED
      BY <1>1, <1>2, <1>4, <2>1
<1>9. ASSUME Len(L) > 0 PROVE L[Len(L)] = ts[Len(ts)]
  <2>1. Len(L) \in 1..Len(L) /\ n + Len(L) = Len(ts)
      BY <1>1, <1>2, <1>4, <1>9
  <2> QED
      BY <1>4, <2>1
<1> QED
    BY <1>5, <1>6, <1>7, <1>8, <1>9 DEF L

\* A frame that is admitted is the last of its log.
LEMMA LogGrows ==
    ASSUME clock \in Nat, NEW ts, FrameLog(ts)
    PROVE  /\ FrameLog(Append(ts, clock)) /\ Len(Append(ts, clock)) = Len(ts) + 1
           /\ Append(ts, clock)[Len(ts) + 1] = clock /\ Len(ts) \in Nat
<1> DEFINE A == Append(ts, clock)
<1>1. ts \in Seq(Nat) /\ Len(ts) \in Nat /\ \A i \in 1..Len(ts) : ts[i] \in Nat
    BY LenProperties DEF FrameLog
<1>2. /\ A \in Seq(Nat) /\ Len(A) = Len(ts) + 1
      /\ \A i \in 1..Len(ts) : A[i] = ts[i]
      /\ A[Len(ts) + 1] = clock
    BY <1>1, AppendProperties
<1> HIDE DEF A
<1>3. ASSUME NEW i \in 1..Len(A), NEW j \in 1..Len(A)
      PROVE  A[i] <= clock /\ (i <= j => A[i] <= A[j])
  <2>1. CASE j \in 1..Len(ts) /\ i \in 1..Len(ts)
      BY <1>2, <2>1 DEF FrameLog
  <2>2. CASE j = Len(ts) + 1 /\ i \in 1..Len(ts)
      BY <1>1, <1>2, <2>2 DEF FrameLog
  <2>3. CASE i = Len(ts) + 1
      BY <1>1, <1>2, <2>3
  <2> QED
      BY <1>1, <1>2, <2>1, <2>2, <2>3
<1> QED
    BY <1>1, <1>2, <1>3 DEF A, FrameLog

\* The sessions that are not idle for too long.
LEMMA SessionsAre ==
    ASSUME SsInv
    PROVE  /\ DOMAIN Sessions = Unexpired /\ Unexpired \subseteq DOMAIN acc
           /\ \A c \in Unexpired : Sessions[c] = acc[c] /\ acc[c].seen + Idle > clock
           /\ Sessions = [c \in DOMAIN Sessions |-> Sessions[c]]
           /\ \A c \in Clients : c \in Unexpired <=> Within(c)
<1>1. /\ DOMAIN Sessions = Unexpired /\ Unexpired \subseteq DOMAIN acc
      /\ \A c \in Unexpired : Sessions[c] = acc[c] /\ acc[c].seen + Idle > clock
      /\ Sessions = [c \in DOMAIN Sessions |-> Sessions[c]]
    BY DEF Sessions, Unexpired
<1>2. ASSUME NEW c \in Clients PROVE c \in Unexpired <=> Within(c)
  <2>1. Idle \in Nat /\ used[c] \in Nat /\ clock \in Nat /\ Idle < clock /\ Never = 0
      BY SsConstants DEF SsInv, SsTypes
  <2>2. CASE c \in DOMAIN acc
      BY <2>1, <2>2 DEF Unexpired, Within, SsInv, UseShape
  <2>3. CASE c \notin DOMAIN acc
      BY <2>1, <2>3 DEF Unexpired, Within, SsInv, UseShape
  <2> QED
      BY <2>2, <2>3
<1> QED
    BY <1>1, <1>2

Session == [seen : Nat, times : Seq(Nat)]
\* What the host keeps of an accepted client.
LogKept(a) ==
    /\ a \in Session /\ FrameLog(a.times) /\ Len(a.times) \in 1..ClientFrames
    /\ a.seen = a.times[Len(a.times)]

\* A request of one client changes its session and lets those go that are idle
\* for too long.
LEMMA OneSession ==
    ASSUME SsInv, NEW c \in Clients, clock' = clock,
           acc' = [d \in DOMAIN acc' |-> acc'[d]],
           \A d \in Clients \ {c} : res'[d] = res[d] /\ used'[d] = used[d],
           DOMAIN acc' \subseteq Unexpired \cup {c}, Unexpired \ {c} \subseteq DOMAIN acc',
           \A d \in Unexpired \ {c} : acc'[d] = acc[d],
           IsFiniteSet(DOMAIN acc'), Cardinality(DOMAIN acc') <= MaxAccepted,
           c \in DOMAIN acc' => LogKept(acc'[c]) /\ acc'[c].seen = used'[c],
           c \notin DOMAIN acc' => used'[c] + Idle <= clock,
           res'[c].what = "client" =>
               c \in DOMAIN acc' /\ Len(acc'[c].times) = ClientFrames
               /\ res'[c].at = acc'[c].times[1] + Window
    PROVE  AcceptedShape' /\ UseShape' /\ OwnRefusals'
<1>1. Unexpired \subseteq DOMAIN acc /\ DOMAIN acc \subseteq Clients
    BY DEF Unexpired, SsInv, AcceptedShape
<1>2. \A ts : FrameLog(ts)' <=> FrameLog(ts)
    BY DEF FrameLog
<1>3. AcceptedShape'
  <2>1. ASSUME NEW d \in DOMAIN acc' PROVE LogKept(acc'[d])
      BY <1>1, <2>1 DEF SsInv, AcceptedShape, LogKept, Session
  <2>2. ASSUME NEW d \in DOMAIN acc' PROVE FrameLog(acc[d].times)'
    <3>1. FrameLog(acc'[d].times)
        BY <2>1 DEF LogKept
    <3> QED
        BY <3>1 DEF FrameLog
  <2>3. DOMAIN acc' \subseteq Clients
      BY <1>1
  <2> QED
    <3>1. \A d \in DOMAIN acc' :
            /\ acc'[d] \in [seen : Nat, times : Seq(Nat)] /\ Len(acc'[d].times) \in 1..ClientFrames
            /\ acc'[d].seen = acc'[d].times[Len(acc'[d].times)]
        BY <2>1 DEF LogKept, Session
    <3> QED
        BY <2>2, <2>3, <3>1 DEF AcceptedShape
<1>4. ASSUME NEW d \in Clients, d # c, d \notin DOMAIN acc'
      PROVE  /\ used[d] + Idle <= clock
             /\ res[d].what = "client" => res[d].at <= clock
  <2>1. d \notin Unexpired
      BY <1>4
  <2>2. CASE d \notin DOMAIN acc
      BY <2>2 DEF SsInv, UseShape, OwnRefusals
  <2>3. CASE d \in DOMAIN acc
    <3>1. acc[d].seen \in Nat /\ Idle \in Nat /\ Window \in Nat /\ Window <= Idle /\ clock \in Nat
          /\ acc[d].times[1] \in Nat
      <4>1. acc[d].times \in Seq(Nat) /\ 1 \in 1..Len(acc[d].times)
          BY <2>3 DEF SsInv, AcceptedShape, Session
      <4>2. acc[d].times[1] \in Nat
          BY <4>1, ElementOfSeq
      <4> QED
          BY <2>3, <4>2, SsConstants DEF SsInv, AcceptedShape, SsTypes
    <3>2. acc[d].seen + Idle <= clock
        BY <2>1, <2>3, <3>1 DEF Unexpired
    <3>3. acc[d].times[1] <= acc[d].seen
      <4>1. /\ FrameLog(acc[d].times) /\ Len(acc[d].times) \in 1..ClientFrames /\ ClientFrames \in Nat
            /\ acc[d].seen = acc[d].times[Len(acc[d].times)]
          BY <2>3, SsConstants DEF SsInv, AcceptedShape
      <4>2. 1 \in 1..Len(acc[d].times) /\ Len(acc[d].times) \in 1..Len(acc[d].times) /\ 1 <= Len(acc[d].times)
          BY <4>1
      <4> QED
          BY <4>1, <4>2 DEF FrameLog
    <3>4. used[d] = acc[d].seen
        BY <2>3 DEF SsInv, UseShape
    <3>5. res[d].what = "client" => res[d].at = acc[d].times[1] + Window
        BY <2>3 DEF SsInv, OwnRefusals
    <3>6. acc[d].times[1] + Window <= clock
      <4>1. PICK y, z \in Nat : y = acc[d].times[1] /\ z = acc[d].seen
          BY <3>1
      <4>2. y + Window <= clock
          BY <3>1, <3>2, <3>3, <4>1
      <4> QED
          BY <4>1, <4>2
    <3> QED
        BY <3>2, <3>4, <3>5, <3>6
  <2> QED
      BY <2>2, <2>3
<1>5. UseShape'
  <2>1. ASSUME NEW d \in Clients
        PROVE  IF d \in DOMAIN acc' THEN acc'[d].seen = used'[d] ELSE used'[d] + Idle <= clock'
    <3>1. CASE d = c
        BY <3>1
    <3>2. CASE d # c /\ d \in DOMAIN acc'
        BY <1>1, <3>2 DEF SsInv, UseShape
    <3>3. CASE d # c /\ d \notin DOMAIN acc'
        BY <1>4, <3>3
    <3> QED
        BY <3>1, <3>2, <3>3
  <2> QED
      BY <2>1 DEF UseShape
<1>6. OwnRefusals'
  <2>1. ASSUME NEW d \in Clients, res'[d].what = "client"
        PROVE  IF d \in DOMAIN acc'
               THEN Len(acc'[d].times) = ClientFrames /\ res'[d].at = acc'[d].times[1] + Window
               ELSE res'[d].at <= clock'
    <3>1. CASE d = c
        BY <2>1, <3>1
    <3>2. CASE d # c /\ d \in DOMAIN acc'
      <4>1. d \in DOMAIN acc /\ acc'[d] = acc[d] /\ res'[d] = res[d]
          BY <1>1, <3>2
      <4> QED
          BY <2>1, <3>2, <4>1 DEF SsInv, OwnRefusals
    <3>3. CASE d # c /\ d \notin DOMAIN acc'
      <4>1. res'[d] = res[d]
          BY <3>3
      <4> QED
          BY <1>4, <2>1, <3>3, <4>1
    <3> QED
        BY <3>1, <3>2, <3>3
  <2> QED
      BY <2>1 DEF OwnRefusals
<1> QED
    BY <1>3, <1>5, <1>6

\* A frame of a session that is there.
LEMMA AdmitInv ==
    ASSUME SsInv, NEW c \in Unexpired, c \in Clients, clock' = clock, Admit(c, Sessions)
    PROVE  /\ AcceptedShape' /\ UseShape' /\ OwnRefusals'
           /\ res' \in [Clients -> [what : Verdicts, at : Nat]]
           /\ used' \in [Clients -> {Never} \cup Start..clock]
           /\ \A d \in Clients : res'[d] = res[d] \/ res'[d].what \in {"ok", "client"}
<1> DEFINE ss == Sessions
           a == acc[c]
           L == LiveFrames(a.times)
<1>1. /\ DOMAIN ss = Unexpired /\ Unexpired \subseteq DOMAIN acc /\ ss[c] = a
      /\ \A d \in Unexpired : ss[d] = acc[d]
      /\ ss = [d \in DOMAIN ss |-> ss[d]]
    BY SessionsAre
<1>2. /\ LogKept(a) /\ clock \in Nat /\ clock \in Start..clock /\ ClientFrames \in Nat \ {0}
      /\ Window \in Nat /\ a.seen = used[c]
  <2>1. c \in DOMAIN acc /\ a = acc[c]
      BY <1>1
  <2>2. clock \in Start..(Start + MaxClock) /\ ClientFrames \in Nat \ {0} /\ Window \in Nat
      BY SsConstants DEF SsInv, SsTypes
  <2>3. Start \in Nat /\ MaxClock \in Nat
      BY SsConstants
  <2>4. clock \in Nat /\ clock \in Start..clock
      BY <2>2, <2>3
  <2> HIDE DEF a
  <2>5. a \in Session /\ FrameLog(a.times) /\ Len(a.times) \in 1..ClientFrames /\ a.seen = a.times[Len(a.times)]
      BY <2>1 DEF SsInv, AcceptedShape, Session
  <2>6. a.seen = used[c]
      BY <2>1 DEF SsInv, UseShape
  <2> QED
      BY <2>2, <2>4, <2>5, <2>6 DEF LogKept
<1>3. IsFiniteSet(Unexpired) /\ Cardinality(Unexpired) <= MaxAccepted
  <2>1. IsFiniteSet(DOMAIN acc) /\ Cardinality(DOMAIN acc) <= MaxAccepted /\ MaxAccepted \in Nat
      BY SsConstants DEF SsInv, AcceptedShape
  <2>2. IsFiniteSet(Unexpired) /\ Cardinality(Unexpired) <= Cardinality(DOMAIN acc)
      BY <1>1, <2>1, FS_Subset
  <2> QED
      BY <2>1, <2>2, FS_CardinalityType
<1>4. /\ FrameLog(L) /\ Len(L) \in 0..Len(a.times)
      /\ Len(L) > 0 => L[Len(L)] = a.times[Len(a.times)]
    BY <1>2, LiveAre DEF LogKept
<1>5. res \in [Clients -> [what : Verdicts, at : Nat]] /\ used \in [Clients -> {Never} \cup Start..clock]
    BY DEF SsInv, SsTypes
<1>6. L \in Seq(Nat)
    BY <1>4 DEF FrameLog
<1>7. CASE Len(L) >= ClientFrames
  <2>1. /\ acc' = [ss EXCEPT ![c].times = L] /\ res' = [res EXCEPT ![c] = Limited("client", L)]
        /\ used' = used
      BY <1>1, <1>7 DEF Admit
  <2>2. Len(L) = ClientFrames /\ Len(L) > 0 /\ Len(L) = Len(a.times)
      BY <1>2, <1>4, <1>7 DEF LogKept
  <2>3. L[1] \in Nat /\ Head(L) = L[1]
      BY <1>6, <2>2, ElementOfSeq
  <2> HIDE DEF L, ss
  <2>4. res'[c] = [what |-> "client", at |-> L[1] + Window]
      BY <1>5, <2>1, <2>3 DEF Limited
  <2>5. res' \in [Clients -> [what : Verdicts, at : Nat]] /\ \A d \in Clients \ {c} : res'[d] = res[d]
    <3>1. [what |-> "client", at |-> L[1] + Window] \in [what : Verdicts, at : Nat]
        BY <1>2, <2>3 DEF Verdicts
    <3> QED
        BY <1>5, <2>1, <2>3, <3>1 DEF Limited
  <2>6. /\ DOMAIN acc' = Unexpired /\ acc'[c] = [a EXCEPT !.times = L]
        /\ \A d \in Unexpired \ {c} : acc'[d] = acc[d]
        /\ acc' = [d \in DOMAIN acc' |-> acc'[d]]
      BY <1>1, <2>1
  <2>7. acc'[c].times = L /\ acc'[c].seen = a.seen /\ acc'[c] \in Session
      BY <1>2, <1>6, <2>6 DEF LogKept, Session
  <2>8. LogKept(acc'[c]) /\ acc'[c].seen = used'[c]
      BY <1>2, <1>4, <2>1, <2>2, <2>7 DEF LogKept
  <2>9. AcceptedShape' /\ UseShape' /\ OwnRefusals'
    <3>1. /\ res'[c].what = "client" /\ res'[c].at = L[1] + Window
          /\ Len(acc'[c].times) = ClientFrames /\ acc'[c].times[1] = L[1]
        BY <2>2, <2>4, <2>7
    <3>2. c \in DOMAIN acc' /\ \A d \in Clients \ {c} : res'[d] = res[d] /\ used'[d] = used[d]
        BY <2>1, <2>5, <2>6
    <3> QED
        BY <1>3, <2>6, <2>8, <3>1, <3>2, OneSession
  <2> QED
      BY <1>5, <2>1, <2>4, <2>5, <2>9
<1>8. CASE ~(Len(L) >= ClientFrames)
  <2>1. /\ acc' = [ss EXCEPT ![c] = [seen |-> clock, times |-> Append(L, clock)]]
        /\ res' = [res EXCEPT ![c] = [what |-> "ok", at |-> 0]]
        /\ used' = [used EXCEPT ![c] = clock]
      BY <1>1, <1>8 DEF Admit, Answered, Used
  <2> DEFINE A == Append(L, clock)
  <2>2. /\ FrameLog(A) /\ Len(A) = Len(L) + 1 /\ A[Len(L) + 1] = clock /\ Len(L) \in Nat
      BY <1>2, <1>4, LogGrows
  <2> HIDE DEF L, ss, A
  <2>3. LogKept([seen |-> clock, times |-> A])
    <3>1. Len(A) \in 1..ClientFrames
        BY <1>2, <1>8, <2>2
    <3>2. A \in Seq(Nat)
        BY <2>2 DEF FrameLog
    <3> QED
        BY <1>2, <2>2, <3>1, <3>2 DEF LogKept, Session
  <2>4. /\ DOMAIN acc' = Unexpired /\ acc'[c] = [seen |-> clock, times |-> A]
        /\ \A d \in Unexpired \ {c} : acc'[d] = acc[d]
        /\ acc' = [d \in DOMAIN acc' |-> acc'[d]]
      BY <1>1, <2>1 DEF A
  <2>5. /\ res'[c] = [what |-> "ok", at |-> 0] /\ used'[c] = clock
        /\ \A d \in Clients \ {c} : res'[d] = res[d] /\ used'[d] = used[d]
        /\ res' \in [Clients -> [what : Verdicts, at : Nat]]
        /\ used' \in [Clients -> {Never} \cup Start..clock]
      BY <1>2, <1>5, <2>1 DEF Verdicts
  <2>6. AcceptedShape' /\ UseShape' /\ OwnRefusals'
      BY <1>3, <2>3, <2>4, <2>5, OneSession
  <2> QED
      BY <2>5, <2>6
<1> QED
    BY <1>7, <1>8

\* A client that is accepted, one that is turned away, one that is not known.
LEMMA HelloAskInv ==
    ASSUME SsInv, NEW c \in Clients, clock' = clock, Hello(c) \/ Authorize(c)
    PROVE  /\ AcceptedShape' /\ UseShape' /\ OwnRefusals'
           /\ res' \in [Clients -> [what : Verdicts, at : Nat]]
           /\ used' \in [Clients -> {Never} \cup Start..clock]
           /\ \A d \in Clients : res'[d] = res[d] \/ res'[d].what # "global"
<1> DEFINE ss == Sessions
<1>1. /\ DOMAIN ss = Unexpired /\ Unexpired \subseteq DOMAIN acc
      /\ \A d \in Unexpired : ss[d] = acc[d] /\ acc[d].seen + Idle > clock
      /\ ss = [d \in DOMAIN ss |-> ss[d]]
      /\ \A d \in Clients : d \in Unexpired <=> Within(d)
    BY SessionsAre
<1>2. /\ clock \in Nat /\ clock \in Start..clock /\ ClientFrames \in Nat \ {0} /\ MaxAccepted \in Nat
      /\ Window \in Nat /\ Idle \in Nat
    BY SsConstants DEF SsInv, SsTypes
<1>3. IsFiniteSet(Unexpired) /\ Cardinality(Unexpired) <= MaxAccepted /\ Cardinality(Unexpired) \in Nat
  <2>1. IsFiniteSet(DOMAIN acc) /\ Cardinality(DOMAIN acc) <= MaxAccepted
      BY DEF SsInv, AcceptedShape
  <2>2. IsFiniteSet(Unexpired) /\ Cardinality(Unexpired) <= Cardinality(DOMAIN acc)
      BY <1>1, <2>1, FS_Subset
  <2>3. Cardinality(Unexpired) \in Nat /\ Cardinality(DOMAIN acc) \in Nat
      BY <2>1, <2>2, FS_CardinalityType
  <2> QED
      BY <1>2, <2>1, <2>2, <2>3
<1>4. /\ res \in [Clients -> [what : Verdicts, at : Nat]] /\ used \in [Clients -> {Never} \cup Start..clock]
      /\ Never = 0
    BY SsConstants DEF SsInv, SsTypes
<1>5. CASE c \in Unexpired
  <2>1. Admit(c, Sessions)
      BY <1>1, <1>5 DEF Hello, Authorize
  <2> QED
      BY <1>5, <2>1, AdmitInv
<1>6. ASSUME c \notin Unexpired, acc' = ss, used' = used, NEW v \in [what : Verdicts, at : Nat],
             res' = [res EXCEPT ![c] = v], v.what \notin {"client", "global"}
      PROVE  /\ AcceptedShape' /\ UseShape' /\ OwnRefusals'
             /\ res' \in [Clients -> [what : Verdicts, at : Nat]]
             /\ used' \in [Clients -> {Never} \cup Start..clock]
             /\ \A d \in Clients : res'[d] = res[d] \/ res'[d].what # "global"
  <2>1. /\ DOMAIN acc' = Unexpired /\ acc' = [d \in DOMAIN acc' |-> acc'[d]]
        /\ \A d \in Unexpired : acc'[d] = acc[d]
      BY <1>1, <1>6
  <2>2. /\ res'[c] = v /\ \A d \in Clients \ {c} : res'[d] = res[d] /\ used'[d] = used[d]
        /\ res' \in [Clients -> [what : Verdicts, at : Nat]]
      BY <1>4, <1>6
  <2>3. used'[c] + Idle <= clock
    <3>1. used[c] \in Nat /\ used[c] = Never => Idle <= clock
        BY <1>2, <1>4 DEF Start
    <3>2. ~Within(c)
        BY <1>1, <1>6
    <3> QED
        BY <1>2, <1>4, <1>6, <3>1, <3>2 DEF Within, Start
  <2>4. AcceptedShape' /\ UseShape' /\ OwnRefusals'
    <3>1. c \notin DOMAIN acc' /\ res'[c].what # "client"
        BY <1>6, <2>1, <2>2
    <3> QED
        BY <1>3, <2>1, <2>2, <2>3, <3>1, OneSession
  <2> QED
      BY <1>4, <1>6, <2>2, <2>4
<1>7. CASE c \notin Unexpired /\ acc' = ss /\ used' = used /\ res' = [res EXCEPT ![c] = [what |-> "unknown", at |-> 0]]
  <2>1. [what |-> "unknown", at |-> 0] \in [what : Verdicts, at : Nat]
      BY DEF Verdicts
  <2> QED
      BY <1>6, <1>7, <2>1
<1>8. CASE c \notin Unexpired /\ acc' = ss /\ used' = used /\ res' = [res EXCEPT ![c] = Full(ss)]
           /\ Cardinality(DOMAIN ss) >= MaxAccepted
  <2>1. DOMAIN ss # {}
    <3>1. MaxAccepted # 0
        BY SsConstants
    <3> QED
        BY <1>2, <1>8, <3>1, FS_EmptySet
  <2>2. {ss[d].seen : d \in DOMAIN ss} \in SUBSET Nat /\ {ss[d].seen : d \in DOMAIN ss} # {}
      BY <1>1, <2>1 DEF SsInv, AcceptedShape
  <2>3. \E t \in {ss[d].seen : d \in DOMAIN ss} : \A d \in DOMAIN ss : t <= ss[d].seen
    <3>1. PICK t \in {ss[d].seen : d \in DOMAIN ss} : \A y \in {ss[d].seen : d \in DOMAIN ss} : t <= y
        BY <2>2, LeastFrame
    <3> QED
        BY <3>1
  <2>4. PICK t \in Nat : Full(ss) = [what |-> "full", at |-> t + Idle]
    <3> DEFINE m == CHOOSE x \in {ss[d].seen : d \in DOMAIN ss} : \A d \in DOMAIN ss : x <= ss[d].seen
    <3>1. m \in {ss[d].seen : d \in DOMAIN ss}
        BY <2>3
    <3>2. Full(ss) = [what |-> "full", at |-> m + Idle]
        BY Zenon DEF Full
    <3> HIDE DEF m
    <3> QED
        BY <2>2, <3>1, <3>2
  <2>5. Full(ss) \in [what : Verdicts, at : Nat] /\ Full(ss).what = "full"
      BY <1>2, <2>4 DEF Verdicts
  <2> QED
      BY <1>6, <1>8, <2>5
<1>9. CASE /\ c \notin Unexpired /\ Cardinality(DOMAIN ss) < MaxAccepted
           /\ acc' = [d \in DOMAIN ss \cup {c} |-> IF d = c THEN [seen |-> clock, times |-> <<clock>>] ELSE ss[d]]
           /\ res' = [res EXCEPT ![c] = [what |-> "ok", at |-> 0]] /\ used' = [used EXCEPT ![c] = clock]
  <2>1. /\ DOMAIN acc' = Unexpired \cup {c} /\ acc'[c] = [seen |-> clock, times |-> <<clock>>]
        /\ \A d \in Unexpired \ {c} : acc'[d] = acc[d]
        /\ acc' = [d \in DOMAIN acc' |-> acc'[d]]
      BY <1>1, <1>9
  <2>2. IsFiniteSet(Unexpired \cup {c}) /\ Cardinality(Unexpired \cup {c}) <= MaxAccepted
    <3>1. IsFiniteSet(Unexpired \cup {c}) /\ Cardinality(Unexpired \cup {c}) = Cardinality(Unexpired) + 1
        BY <1>3, <1>9, FS_AddElement
    <3> QED
        BY <1>1, <1>2, <1>3, <1>9, <3>1
  <2>3. LogKept([seen |-> clock, times |-> <<clock>>])
    <3>1. <<clock>> \in Seq(Nat) /\ Len(<<clock>>) = 1 /\ <<clock>>[1] = clock
        BY <1>2
    <3> QED
        BY <1>2, <3>1 DEF LogKept, Session, FrameLog
  <2>4. /\ res'[c] = [what |-> "ok", at |-> 0] /\ used'[c] = clock
        /\ \A d \in Clients \ {c} : res'[d] = res[d] /\ used'[d] = used[d]
        /\ res' \in [Clients -> [what : Verdicts, at : Nat]]
        /\ used' \in [Clients -> {Never} \cup Start..clock]
      BY <1>2, <1>4, <1>9 DEF Verdicts
  <2>5. AcceptedShape' /\ UseShape' /\ OwnRefusals'
    <3>1. c \in DOMAIN acc' /\ LogKept(acc'[c]) /\ acc'[c].seen = used'[c] /\ res'[c].what # "client"
        BY <2>1, <2>3, <2>4
    <3> QED
        BY <2>1, <2>2, <2>4, <3>1, OneSession
  <2> QED
      BY <2>4, <2>5
<1> QED
  <2>1. CASE c \notin Unexpired /\ Authorize(c)
      BY <1>1, <1>7, <2>1 DEF Authorize, Answered
  <2>2. CASE c \notin Unexpired /\ Hello(c)
    <3>1. Cardinality(DOMAIN ss) \in Nat
        BY <1>1, <1>3
    <3> QED
        BY <1>1, <1>2, <1>8, <1>9, <2>2, <3>1 DEF Hello, Answered, Used
  <2> QED
      BY <1>5, <2>1, <2>2

\* The frames of all clients, and what was told when they were too many.
LEMMA CommonInv ==
    ASSUME SsInv, clock' = clock, NEW c \in Clients,
           \/ frames' = frames /\ \A d \in Clients : res'[d] = res[d] \/ res'[d].what # "global"
           \/ /\ Len(LiveFrames(frames)) >= GlobalFrames /\ frames' = LiveFrames(frames)
              /\ res' = [res EXCEPT ![c] = Limited("global", LiveFrames(frames))]
           \/ /\ Len(LiveFrames(frames)) < GlobalFrames /\ frames' = Append(LiveFrames(frames), clock)
              /\ \A d \in Clients : res'[d] = res[d] \/ res'[d].what # "global"
    PROVE  FrameLog(frames)' /\ Len(frames') <= GlobalFrames /\ CommonRefusals'
<1> DEFINE L == LiveFrames(frames)
<1>1. /\ clock \in Nat /\ FrameLog(frames) /\ Len(frames) <= GlobalFrames /\ Len(frames) \in Nat
      /\ GlobalFrames \in Nat \ {0} /\ Window \in Nat /\ frames \in Seq(Nat)
      /\ res \in [Clients -> [what : Verdicts, at : Nat]]
  <2>1. frames \in Seq(Nat) /\ FrameLog(frames)
      BY DEF SsInv, SsTypes, FrameLog
  <2>2. Len(frames) \in Nat
      BY <2>1, LenProperties
  <2>3. clock \in Nat
      BY SsConstants DEF SsInv, SsTypes
  <2> QED
      BY <2>1, <2>2, <2>3, SsConstants DEF SsInv, SsTypes
<1>2. /\ FrameLog(L) /\ Len(L) \in 0..Len(frames)
      /\ Len(frames) > 0 /\ frames[1] + Window > clock => L = frames
      /\ Len(frames) > 0 /\ frames[1] + Window <= clock => Len(L) < Len(frames)
      /\ Len(L) > 0 => L[Len(L)] = frames[Len(frames)]
    BY <1>1, LiveAre
<1>3. \A ts : FrameLog(ts)' <=> FrameLog(ts)
    BY DEF FrameLog
<1>4. CASE frames' = frames /\ \A d \in Clients : res'[d] = res[d] \/ res'[d].what # "global"
  <2>1. FrameLog(frames)'
      BY <1>1, <1>4 DEF FrameLog
  <2> QED
      BY <1>1, <1>4, <2>1 DEF SsInv, CommonRefusals
<1>5. CASE Len(L) >= GlobalFrames /\ frames' = L /\ res' = [res EXCEPT ![c] = Limited("global", L)]
  <2>1. Len(L) = GlobalFrames /\ Len(L) = Len(frames) /\ Len(L) > 0
      BY <1>1, <1>2, <1>5
  <2>2. L = frames
    <3>1. frames[1] \in Nat
        BY <1>1, <2>1, ElementOfSeq
    <3>2. ~(frames[1] + Window <= clock)
        BY <1>2, <2>1
    <3> QED
        BY <1>1, <1>2, <2>1, <3>1, <3>2
  <2>3. res'[c].at = frames[1] + Window /\ \A d \in Clients \ {c} : res'[d] = res[d]
      BY <1>1, <1>5, <2>2 DEF Limited
  <2>4. FrameLog(frames)'
      BY <1>1, <1>5, <2>2 DEF FrameLog
  <2>5. Len(frames') = GlobalFrames /\ frames' = frames
      BY <1>5, <2>1, <2>2
  <2> HIDE DEF L
  <2> QED
      BY <1>1, <2>1, <2>3, <2>4, <2>5 DEF SsInv, CommonRefusals
<1>6. CASE /\ Len(L) < GlobalFrames /\ frames' = Append(L, clock)
           /\ \A d \in Clients : res'[d] = res[d] \/ res'[d].what # "global"
  <2>1. /\ FrameLog(frames') /\ Len(frames') = Len(L) + 1 /\ frames'[Len(L) + 1] = clock
      BY <1>1, <1>2, <1>6, LogGrows
  <2>2. FrameLog(frames)'
      BY <2>1 DEF FrameLog
  <2>3. Len(frames') > 0 /\ Len(frames') <= GlobalFrames /\ frames'[Len(frames')] = clock
      BY <1>1, <1>2, <1>6, <2>1
  <2>4. ASSUME NEW d \in Clients, res'[d].what = "global" PROVE clock >= res'[d].at
    <3>1. res'[d] = res[d] /\ res[d].what = "global" /\ res[d].at \in Nat
        BY <1>1, <1>6, <2>4
    <3>2. Len(frames) > 0
        BY <3>1 DEF SsInv, CommonRefusals
    <3>3. frames[1] \in Nat /\ frames[Len(frames)] \in Nat /\ frames[Len(frames)] <= clock
      <4>1. 1 \in 1..Len(frames) /\ Len(frames) \in 1..Len(frames)
          BY <1>1, <3>2
      <4> QED
          BY <1>1, <4>1, ElementOfSeq DEF FrameLog
    <3>4. CASE Len(frames) = GlobalFrames /\ res[d].at = frames[1] + Window
      <4>1. frames[1] + Window <= clock
          BY <1>1, <1>2, <1>6, <3>2, <3>3, <3>4
      <4> QED
          BY <3>1, <3>4, <4>1
    <3>5. CASE frames[Len(frames)] >= res[d].at
        BY <1>1, <3>1, <3>3, <3>5
    <3> QED
        BY <3>1, <3>4, <3>5 DEF SsInv, CommonRefusals
  <2> QED
      BY <2>2, <2>3, <2>4 DEF CommonRefusals
<1> QED
    BY <1>4, <1>5, <1>6

\* What every step keeps that is no request and takes no time.
LEMMA ElsewhereInv ==
    ASSUME SsInv, UNCHANGED <<clock, frames, acc, used>>,
           res' \in [Clients -> [what : Verdicts, at : Nat]],
           \A c \in Clients : res'[c] = res[c] \/ res'[c].what \notin {"client", "global"},
           pipe' \in [st : PipeStates, who : Clients \cup {"nobody"}],
           cl' \in [Clients -> [pc : ClientPlaces, req : Requests]], PipeShape'
    PROVE  SsInv'
<1>1. SsTypes'
    BY DEF SsInv, SsTypes, FrameLog
<1>2. AcceptedShape' /\ UseShape'
    BY DEF SsInv, AcceptedShape, UseShape, FrameLog
<1>3. OwnRefusals' /\ CommonRefusals'
    BY DEF SsInv, OwnRefusals, CommonRefusals
<1> QED
    BY <1>1, <1>2, <1>3 DEF SsInv

\* A request: the common log first, then the client's own.
LEMMA ServeInv ==
    ASSUME SsInv, NEW c \in Clients, NEW kind \in Requests, clock' = clock, Serve(c, kind)
    PROVE  /\ FrameLog(frames)' /\ Len(frames') <= GlobalFrames
           /\ res' \in [Clients -> [what : Verdicts, at : Nat]]
           /\ used' \in [Clients -> {Never} \cup Start..clock]
           /\ AcceptedShape' /\ UseShape' /\ OwnRefusals' /\ CommonRefusals'
<1> DEFINE L == LiveFrames(frames)
<1>1. /\ res \in [Clients -> [what : Verdicts, at : Nat]] /\ used \in [Clients -> {Never} \cup Start..clock]
      /\ FrameLog(frames) /\ clock \in Nat /\ Window \in Nat /\ GlobalFrames \in Nat \ {0}
    BY SsConstants DEF SsInv, SsTypes
<1>2. FrameLog(L) /\ L \in Seq(Nat) /\ Len(L) \in Nat
  <2>1. FrameLog(L)
      BY <1>1, LiveAre
  <2>2. L \in Seq(Nat)
      BY <2>1 DEF FrameLog
  <2> QED
      BY <2>1, <2>2, LenProperties
<1>3. ASSUME UNCHANGED <<acc, used>>, NEW v \in [what : Verdicts, at : Nat], v.what # "client",
             res' = [res EXCEPT ![c] = v]
      PROVE  /\ res' \in [Clients -> [what : Verdicts, at : Nat]]
             /\ used' \in [Clients -> {Never} \cup Start..clock]
             /\ AcceptedShape' /\ UseShape' /\ OwnRefusals'
  <2>1. AcceptedShape' /\ UseShape'
      BY <1>3 DEF SsInv, AcceptedShape, UseShape, FrameLog
  <2>2. OwnRefusals'
      BY <1>1, <1>3 DEF SsInv, OwnRefusals
  <2> QED
      BY <1>1, <1>3, <2>1, <2>2
<1>4. [what |-> "refused", at |-> 0] \in [what : Verdicts, at : Nat]
    BY DEF Verdicts
<1>5. CASE kind = "bad"
  <2>1. UNCHANGED <<frames, acc, used>> /\ res' = [res EXCEPT ![c] = [what |-> "refused", at |-> 0]]
      BY <1>5 DEF Serve, Answered
  <2>2. \A d \in Clients : res'[d] = res[d] \/ res'[d].what # "global"
      BY <1>1, <2>1
  <2> QED
      BY <1>3, <1>4, <2>1, <2>2, CommonInv
<1>6. CASE kind # "bad" /\ Len(L) >= GlobalFrames
  <2>1. /\ frames' = L /\ res' = [res EXCEPT ![c] = Limited("global", L)] /\ UNCHANGED <<acc, used>>
      BY <1>6 DEF Serve
  <2>2. Limited("global", L) \in [what : Verdicts, at : Nat] /\ Limited("global", L).what = "global"
    <3>1. Head(L) \in Nat
        BY <1>1, <1>2, <1>6, HeadTailProperties, EmptySeq
    <3> QED
        BY <1>1, <3>1 DEF Limited, Verdicts
  <2> QED
      BY <1>3, <1>6, <2>1, <2>2, CommonInv
<1>7. CASE kind # "bad" /\ Len(L) < GlobalFrames /\ kind = "foreign"
  <2>1. /\ frames' = Append(L, clock) /\ UNCHANGED <<acc, used>>
        /\ res' = [res EXCEPT ![c] = [what |-> "refused", at |-> 0]]
      BY <1>1, <1>2, <1>7 DEF Serve, Answered
  <2>2. \A d \in Clients : res'[d] = res[d] \/ res'[d].what # "global"
      BY <1>1, <2>1
  <2> QED
      BY <1>3, <1>4, <1>7, <2>1, <2>2, CommonInv
<1>8. CASE kind # "bad" /\ Len(L) < GlobalFrames /\ kind # "foreign"
  <2>1. frames' = Append(L, clock) /\ (Hello(c) \/ Authorize(c))
      BY <1>1, <1>2, <1>8 DEF Serve
  <2> QED
      BY <1>8, <2>1, HelloAskInv, CommonInv
<1> QED
    BY <1>1, <1>2, <1>5, <1>6, <1>7, <1>8

\* The steps that are no request.
LEMMA QuietStepsInv ==
    ASSUME SsInv,
           \/ ServerListens \/ ServerWrites \/ ServerAcknowledged \/ ServerGivesUp
           \/ AnswerTooLarge \/ ServerTooEarly
           \/ \E c \in Clients :
                \/ ClientSteps(c) \/ ClientTimesOut(c) \/ ClientCancelled(c) \/ ClientStalls(c)
                \/ \E kind \in {"hello", "ask", "bad", "foreign"} : ClientAsks(c, kind)
    PROVE  SsInv'
<1> DEFINE CT == [pc : ClientPlaces, req : Requests]
           RT == [what : Verdicts, at : Nat]
           PT == [st : PipeStates, who : Clients \cup {"nobody"}]
<1>1. /\ pipe \in PT /\ cl \in [Clients -> CT] /\ res \in [Clients -> RT] /\ "nobody" \notin Clients
      /\ PipeShape
    BY SsConstants DEF SsInv, SsTypes
<1>2. ASSUME UNCHANGED <<clock, frames, acc, used>>, res' = res, pipe' \in PT, cl' \in [Clients -> CT], PipeShape'
      PROVE  SsInv'
    BY <1>1, <1>2, ElsewhereInv
<1>3. CASE ServerListens \/ ServerAcknowledged \/ ServerGivesUp
  <2>1. UNCHANGED <<clock, frames, acc, used, res, cl>> /\ pipe' \in PT
        /\ pipe'.who = "nobody" /\ pipe'.st \in {"none", "listening"}
      BY <1>3 DEF ServerListens, ServerAcknowledged, ServerGivesUp, Closed, PipeStates
  <2>2. \A c \in Clients : cl[c].pc \notin {"opened", "answered"}
      BY <1>1, <1>3 DEF ServerListens, ServerAcknowledged, ServerGivesUp, PipeShape, Is
  <2>3. PipeShape'
      BY <1>1, <2>1, <2>2 DEF PipeShape
  <2> QED
      BY <1>1, <1>2, <2>1, <2>3
<1>4. CASE ServerWrites \/ AnswerTooLarge
  <2>1. /\ pipe.who \in Clients /\ UNCHANGED <<clock, frames, acc, used>>
        /\ pipe' = [pipe EXCEPT !.st = "acking"] /\ cl' = [cl EXCEPT ![pipe.who].pc = "answered"]
        /\ pipe.st = "writing"
      BY <1>1, <1>4 DEF ServerWrites, AnswerTooLarge, PipeShape, Comes
  <2>2. pipe' \in PT /\ cl' \in [Clients -> CT] /\ pipe'.st = "acking" /\ pipe'.who = pipe.who
        /\ cl'[pipe.who].pc = "answered" /\ \A c \in Clients \ {pipe.who} : cl'[c] = cl[c]
      BY <1>1, <2>1 DEF PipeStates, ClientPlaces
  <2>3. PipeShape'
      BY <1>1, <2>1, <2>2 DEF PipeShape
  <2>4. res' \in [Clients -> RT] /\ \A c \in Clients : res'[c] = res[c] \/ res'[c].what = "refused"
    <3>1. res' = res \/ res' = [res EXCEPT ![pipe.who] = [what |-> "refused", at |-> 0]]
        BY <1>4 DEF ServerWrites, AnswerTooLarge, Answered
    <3>2. [what |-> "refused", at |-> 0] \in RT
        BY DEF Verdicts
    <3> QED
        BY <1>1, <3>1, <3>2
  <2> QED
      BY <2>1, <2>2, <2>3, <2>4, ElsewhereInv
<1>5. ASSUME NEW c \in Clients, NEW pc \in {"idle", "stalled", "sent"}, Comes(c, pc),
             UNCHANGED <<clock, frames, acc, used, res>>,
             pipe' = pipe \/ (pipe' = Closed /\ c = pipe.who)
      PROVE  SsInv'
  <2>1. PICK q \in Requests : cl' = [cl EXCEPT ![c].pc = pc, ![c].req = q]
      BY <1>1, <1>5 DEF Comes, Requests
  <2>2. cl' \in [Clients -> CT] /\ cl'[c].pc = pc /\ \A d \in Clients \ {c} : cl'[d] = cl[d]
      BY <1>1, <2>1 DEF ClientPlaces
  <2>3. pipe' \in PT /\ pipe'.who \in {pipe.who, "nobody"}
      BY <1>1, <1>5 DEF Closed, PipeStates
  <2>4. PipeShape'
      BY <1>1, <1>5, <2>2 DEF PipeShape, Closed
  <2> QED
      BY <1>2, <1>5, <2>2, <2>3, <2>4
<1>6. CASE ServerTooEarly
  <2>1. pipe.who \in Clients
      BY <1>1, <1>6 DEF ServerTooEarly, PipeShape
  <2> QED
      BY <1>5, <1>6, <2>1 DEF ServerTooEarly
<1>7. ASSUME NEW c \in Clients,
             ClientWrites(c) \/ ClientAcknowledges(c) \/ ClientTimesOut(c) \/ ClientCancelled(c) \/ ClientStalls(c)
      PROVE  SsInv'
    BY <1>5, <1>7 DEF ClientWrites, ClientAcknowledges, ClientTimesOut, ClientCancelled, ClientStalls
<1>8. ASSUME NEW c \in Clients, ClientOpens(c) PROVE SsInv'
  <2>1. /\ UNCHANGED <<clock, frames, acc, used, res>> /\ pipe' = [st |-> "reading", who |-> c]
        /\ cl' = [cl EXCEPT ![c].pc = "opened", ![c].req = cl[c].req] /\ pipe.st = "listening"
      BY <1>1, <1>8 DEF ClientOpens, Comes
  <2>2. cl' \in [Clients -> CT] /\ cl'[c].pc = "opened" /\ \A d \in Clients \ {c} : cl'[d] = cl[d]
      BY <1>1, <2>1 DEF ClientPlaces
  <2>3. pipe' \in PT
      BY <2>1 DEF PipeStates
  <2>4. PipeShape'
      BY <1>1, <2>1, <2>2 DEF PipeShape
  <2> QED
      BY <1>2, <2>1, <2>2, <2>3, <2>4
<1>9. ASSUME NEW c \in Clients, NEW kind \in {"hello", "ask", "bad", "foreign"}, ClientAsks(c, kind)
      PROVE  SsInv'
  <2>1. /\ UNCHANGED <<clock, frames, acc, used, res, pipe>>
        /\ cl' = [cl EXCEPT ![c] = [pc |-> "opening", req |-> kind]]
      BY <1>9 DEF ClientAsks
  <2>2. cl' \in [Clients -> CT] /\ cl'[c].pc = "opening" /\ \A d \in Clients \ {c} : cl'[d] = cl[d]
      BY <1>1, <2>1 DEF ClientPlaces, Requests
  <2>3. PipeShape'
      BY <1>1, <2>1, <2>2 DEF PipeShape
  <2> QED
      BY <1>1, <1>2, <2>1, <2>2, <2>3
<1> QED
    BY <1>3, <1>4, <1>6, <1>7, <1>8, <1>9 DEF ClientSteps

\* A request is served.
LEMMA ServerReadsInv ==
    ASSUME SsInv, ServerReads
    PROVE  SsInv'
<1>1. /\ pipe \in [st : PipeStates, who : Clients \cup {"nobody"}]
      /\ cl \in [Clients -> [pc : ClientPlaces, req : Requests]] /\ PipeShape
    BY DEF SsInv, SsTypes
<1>2. /\ pipe.who \in Clients /\ pipe.st = "reading" /\ cl[pipe.who].pc = "sent"
      /\ UNCHANGED <<clock, cl>> /\ pipe' = [pipe EXCEPT !.st = "writing"]
      /\ Serve(pipe.who, cl[pipe.who].req) /\ cl[pipe.who].req \in Requests
    BY <1>1 DEF ServerReads, PipeShape, Is
<1>3. /\ FrameLog(frames)' /\ Len(frames') <= GlobalFrames
      /\ res' \in [Clients -> [what : Verdicts, at : Nat]]
      /\ used' \in [Clients -> {Never} \cup Start..clock]
      /\ AcceptedShape' /\ UseShape' /\ OwnRefusals' /\ CommonRefusals'
    BY <1>2, ServeInv
<1>4. pipe' \in [st : PipeStates, who : Clients \cup {"nobody"}] /\ pipe'.st = "writing" /\ pipe'.who = pipe.who
    BY <1>1, <1>2 DEF PipeStates
<1>5. PipeShape'
    BY <1>1, <1>2, <1>4 DEF PipeShape
<1>6. SsTypes'
    BY <1>1, <1>2, <1>3, <1>4 DEF SsInv, SsTypes
<1> QED
    BY <1>3, <1>5, <1>6 DEF SsInv

\* Time passes.
LEMMA TickInv ==
    ASSUME SsInv, Tick
    PROVE  SsInv'
<1>1. /\ clock \in Nat /\ clock' = clock + 1 /\ UNCHANGED <<frames, acc, pipe, cl, res, used>>
      /\ clock' \in Start..(Start + MaxClock) /\ Idle \in Nat /\ Never = 0
    BY SsConstants DEF Tick, SsInv, SsTypes
<1>2. ASSUME NEW ts, FrameLog(ts) PROVE FrameLog(ts)'
  <2>1. \A i \in 1..Len(ts) : ts[i] \in Nat
      BY <1>2, ElementOfSeq DEF FrameLog
  <2> QED
      BY <1>1, <1>2, <2>1 DEF FrameLog
<1>3. SsTypes'
  <2>1. FrameLog(frames)'
    <3>1. PICK ts : ts = frames
        OBVIOUS
    <3>2. FrameLog(ts)'
        BY <1>2, <3>1 DEF SsInv, SsTypes
    <3> QED
        BY <1>1, <3>1, <3>2 DEF FrameLog
  <2>2. used' \in [Clients -> {Never} \cup Start..clock']
      BY <1>1, SsConstants DEF SsInv, SsTypes
  <2> QED
      BY <1>1, <2>1, <2>2 DEF SsInv, SsTypes
<1>4. AcceptedShape'
  <2>1. ASSUME NEW d \in DOMAIN acc PROVE FrameLog(acc[d].times)'
    <3>1. PICK ts : ts = acc[d].times
        OBVIOUS
    <3>2. FrameLog(ts)'
        BY <1>2, <3>1 DEF SsInv, AcceptedShape
    <3> QED
        BY <1>1, <3>1, <3>2 DEF FrameLog
  <2> QED
      BY <1>1, <2>1 DEF SsInv, AcceptedShape
<1>5. UseShape'
  <2>1. ASSUME NEW c \in Clients, c \notin DOMAIN acc
        PROVE  used[c] + Idle <= clock'
    <3>1. used[c] \in Nat /\ used[c] + Idle <= clock
        BY <1>1, <2>1, SsConstants DEF SsInv, SsTypes, UseShape
    <3> QED
        BY <1>1, <3>1
  <2> QED
      BY <1>1, <2>1 DEF SsInv, UseShape
<1>6. OwnRefusals' /\ CommonRefusals'
    BY <1>1 DEF SsInv, SsTypes, OwnRefusals, CommonRefusals
<1> QED
    BY <1>1, <1>3, <1>4, <1>5, <1>6 DEF SsInv, PipeShape

\* The beginning.
LEMMA SsInitInv == SsInit => SsInv
<1> SUFFICES ASSUME SsInit PROVE SsInv
    OBVIOUS
<1>1. clock = Start /\ frames = <<>> /\ DOMAIN acc = {} /\ Start \in Nat /\ MaxClock \in Nat
    BY SsConstants DEF SsInit
<1>2. SsTypes
  <2>1. FrameLog(frames) /\ Len(frames) <= GlobalFrames
      BY <1>1, SsConstants DEF FrameLog
  <2>2. /\ pipe \in [st : PipeStates, who : Clients \cup {"nobody"}]
        /\ cl \in [Clients -> [pc : ClientPlaces, req : Requests]]
        /\ res \in [Clients -> [what : Verdicts, at : Nat]]
      BY DEF SsInit, PipeStates, ClientPlaces, Requests, Verdicts, Closed, NoAnswer
  <2>3. used \in [Clients -> {Never} \cup Start..clock] /\ clock \in Start..(Start + MaxClock)
      BY <1>1 DEF SsInit
  <2> QED
      BY <2>1, <2>2, <2>3 DEF SsTypes
<1>3. AcceptedShape
  <2>1. IsFiniteSet({}) /\ Cardinality({}) = 0
      BY FS_EmptySet
  <2> QED
      BY <1>1, <2>1, SsConstants DEF SsInit, AcceptedShape
<1>4. PipeShape /\ UseShape
    BY <1>1, SsConstants DEF SsInit, PipeShape, UseShape, Closed
<1>5. OwnRefusals /\ CommonRefusals
    BY DEF SsInit, OwnRefusals, CommonRefusals, NoAnswer
<1> QED
    BY <1>2, <1>3, <1>4, <1>5 DEF SsInv

\* Every step keeps it.
LEMMA SsStepInv == SsInv /\ [SsNext]_ssVars => SsInv'
<1> SUFFICES ASSUME SsInv, [SsNext]_ssVars PROVE SsInv'
    OBVIOUS
<1>1. CASE UNCHANGED ssVars
    BY <1>1 DEF ssVars, SsInv, SsTypes, AcceptedShape, PipeShape, UseShape, OwnRefusals, CommonRefusals, FrameLog
<1> QED
    BY <1>1, QuietStepsInv, ServerReadsInv, TickInv DEF SsNext, ServerSteps

\* The invariant of the pipe and its sessions, along every behaviour.
THEOREM SsInvariance == SsSpec => []SsInv
<1> QED
    BY SsInitInv, SsStepInv, PTL DEF SsSpec

\* The variables of the pipe and its sessions keep their types.
THEOREM SessionTypes == SsSpec => []SsTypeOK
<1>1. SsInv => SsTypeOK
  <2> SUFFICES ASSUME SsInv PROVE SsTypeOK
      OBVIOUS
  <2>1. \A c \in Clients : cl[c].pc \in ClientPlaces /\ (cl[c].pc \in {"opened", "answered"} => pipe.who = c)
                           /\ used[c] \in {Never} \cup Start..clock
      BY DEF SsInv, SsTypes, PipeShape
  <2>2. pipe.st \in PipeStates
      BY DEF SsInv, SsTypes
  <2> QED
      BY <2>1, <2>2 DEF SsInv, SsTypes, AcceptedShape, PipeShape, SsTypeOK, ClientPlaces, PipeStates
<1> QED
    BY <1>1, SsInvariance, PTL

\* A client that was refused and comes back after the time it was told is not refused for the same frames.
THEOREM RetriesAreExact == SsSpec => []RetryIsExact
<1>1. SsInv => RetryIsExact
  <2> SUFFICES ASSUME SsInv, NEW c \in Clients
               PROVE  /\ res[c].what = "client" => (Room(c) <=> clock >= res[c].at)
                      /\ res[c].what = "global" /\ clock < res[c].at => ~RoomForAll
                      /\ res[c].what = "global" /\ clock >= res[c].at
                           => RoomForAll \/ frames[Len(frames)] >= res[c].at
      BY DEF RetryIsExact
  <2>1. clock \in Nat /\ Window \in Nat /\ Idle \in Nat /\ Window <= Idle /\ ClientFrames \in Nat \ {0}
        /\ GlobalFrames \in Nat \ {0} /\ FrameLog(frames)
      BY SsConstants DEF SsInv, SsTypes
  <2>2. ASSUME NEW ts, FrameLog(ts), Len(ts) > 0
        PROVE  /\ clock < ts[1] + Window => LiveFrames(ts) = ts
               /\ clock >= ts[1] + Window => Len(LiveFrames(ts)) < Len(ts)
               /\ ts[1] \in Nat /\ ts[Len(ts)] \in Nat /\ ts[1] <= ts[Len(ts)] /\ ts[Len(ts)] <= clock
               /\ Len(ts) \in Nat /\ Len(LiveFrames(ts)) \in Nat
    <3>1. ts \in Seq(Nat) /\ Len(ts) \in Nat
        BY <2>2, LenProperties DEF FrameLog
    <3>2. 1 \in 1..Len(ts) /\ Len(ts) \in 1..Len(ts) /\ 1 <= Len(ts)
        BY <2>2, <3>1
    <3>3. ts[1] \in Nat /\ ts[Len(ts)] \in Nat
        BY <3>1, <3>2, ElementOfSeq
    <3>4. ts[1] <= ts[Len(ts)] /\ ts[Len(ts)] <= clock
        BY <2>2, <3>2 DEF FrameLog
    <3>5. /\ Len(ts) > 0 /\ ts[1] + Window > clock => LiveFrames(ts) = ts
          /\ Len(ts) > 0 /\ ts[1] + Window <= clock => Len(LiveFrames(ts)) < Len(ts)
          /\ Len(LiveFrames(ts)) \in 0..Len(ts)
        BY <2>1, <2>2, LiveAre
    <3> QED
        BY <2>1, <2>2, <3>1, <3>3, <3>4, <3>5
  <2>3. ASSUME res[c].what = "client" PROVE Room(c) <=> clock >= res[c].at
    <3>1. CASE c \notin DOMAIN acc
        BY <2>3, <3>1 DEF Room, Unexpired, SsInv, OwnRefusals
    <3>2. CASE c \in DOMAIN acc
      <4> DEFINE ts == acc[c].times
      <4>1. /\ FrameLog(ts) /\ Len(ts) = ClientFrames /\ res[c].at = ts[1] + Window
            /\ acc[c].seen = ts[Len(ts)]
          BY <2>3, <3>2 DEF SsInv, OwnRefusals, AcceptedShape
      <4>2. /\ clock < ts[1] + Window => LiveFrames(ts) = ts
            /\ clock >= ts[1] + Window => Len(LiveFrames(ts)) < Len(ts)
            /\ ts[1] \in Nat /\ ts[Len(ts)] \in Nat /\ ts[1] <= ts[Len(ts)]
          BY <2>1, <2>2, <4>1
      <4> HIDE DEF ts
      <4>3. clock < ts[1] + Window => c \in Unexpired
          BY <2>1, <3>2, <4>1, <4>2 DEF Unexpired
      <4>4. Room(c) <=> (c \in Unexpired => Len(LiveFrames(ts)) < ClientFrames)
          BY DEF Room, ts
      <4> QED
          BY <2>1, <4>1, <4>2, <4>3, <4>4
    <3> QED
        BY <3>1, <3>2
  <2>4. ASSUME res[c].what = "global"
        PROVE  /\ clock < res[c].at => ~RoomForAll
               /\ clock >= res[c].at => RoomForAll \/ frames[Len(frames)] >= res[c].at
    <3>1. /\ Len(frames) > 0
          /\ \/ Len(frames) = GlobalFrames /\ res[c].at = frames[1] + Window
             \/ frames[Len(frames)] >= res[c].at
          /\ res[c].at \in Nat
        BY <2>4 DEF SsInv, CommonRefusals, SsTypes
    <3>2. /\ clock < frames[1] + Window => LiveFrames(frames) = frames
          /\ clock >= frames[1] + Window => Len(LiveFrames(frames)) < Len(frames)
          /\ frames[1] \in Nat /\ frames[Len(frames)] \in Nat /\ frames[Len(frames)] <= clock
          /\ Len(frames) \in Nat /\ Len(LiveFrames(frames)) \in Nat
        BY <2>1, <2>2, <3>1
    <3>3. CASE frames[Len(frames)] >= res[c].at
        BY <2>1, <3>1, <3>2, <3>3
    <3>4. CASE Len(frames) = GlobalFrames /\ res[c].at = frames[1] + Window
        BY <2>1, <3>1, <3>2, <3>4 DEF RoomForAll
    <3> QED
        BY <3>1, <3>3, <3>4
  <2> QED
      BY <2>3, <2>4
<1> QED
    BY <1>1, SsInvariance, PTL

\* A dispatched request was served by this host.
LEMMA DispatchIsServe ==
    ASSUME SsInv, [SsNext]_ssVars, NEW c \in Clients, Dispatched(c)
    PROVE  clock' = clock /\ Serve(c, cl[c].req)
<1>1. pipe.st = "reading" /\ pipe.who = c /\ pipe'.st = "writing" /\ pipe \in [st : PipeStates, who : Clients \cup {"nobody"}]
    BY DEF Dispatched, SsInv, SsTypes
<1>2. CASE ServerReads
    BY <1>1, <1>2 DEF ServerReads
<1>3. CASE ServerListens \/ ServerWrites \/ ServerAcknowledged \/ ServerGivesUp \/ AnswerTooLarge \/ ServerTooEarly
    BY <1>1, <1>3 DEF ServerListens, ServerWrites, ServerAcknowledged, ServerGivesUp, AnswerTooLarge, ServerTooEarly, Closed
<1>4. CASE Tick \/ UNCHANGED ssVars
    BY <1>1, <1>4 DEF Tick, ssVars
<1>5. ASSUME NEW d \in Clients,
             \/ ClientSteps(d) \/ ClientTimesOut(d) \/ ClientCancelled(d) \/ ClientStalls(d)
             \/ \E kind \in {"hello", "ask", "bad", "foreign"} : ClientAsks(d, kind)
      PROVE  FALSE
    BY <1>1, <1>5 DEF ClientSteps, ClientOpens, ClientWrites, ClientAcknowledges, ClientTimesOut, ClientCancelled,
       ClientStalls, ClientAsks
<1> QED
    BY <1>2, <1>3, <1>4, <1>5 DEF SsNext, ServerSteps

\* A session is gone only after its client was idle, and is there as long as it is not.
THEOREM SessionsAreUsed == SsSpec => SessionsFollowUse
<1>1. ASSUME SsInv, [SsNext]_ssVars, NEW c \in Clients, Dispatched(c), cl[c].req = "ask"
      PROVE  /\ res'[c].what = "ok" => Within(c)
             /\ res'[c].what = "unknown" => ~Within(c)
  <2>1. Serve(c, "ask") /\ (c \in Unexpired <=> Within(c)) /\ DOMAIN Sessions = Unexpired
        /\ res \in [Clients -> [what : Verdicts, at : Nat]]
      BY <1>1, DispatchIsServe, SessionsAre DEF SsInv, SsTypes
  <2>2. CASE Authorize(c) /\ c \in Unexpired
    <3>1. \/ res' = [res EXCEPT ![c] = Limited("client", LiveFrames(Sessions[c].times))]
          \/ Answered(c, "ok")
        BY <2>1, <2>2 DEF Authorize, Admit
    <3>2. res'[c].what \in {"client", "ok"}
        BY <1>1, <2>1, <3>1 DEF Answered, Limited
    <3> QED
        BY <2>1, <2>2, <3>2
  <2>3. CASE Authorize(c) /\ c \notin Unexpired
    <3>1. res'[c].what = "unknown"
        BY <1>1, <2>1, <2>3 DEF Authorize, Answered
    <3> QED
        BY <2>1, <2>3, <3>1
  <2>4. CASE res' = [res EXCEPT ![c] = Limited("global", LiveFrames(frames))]
    <3>1. res'[c].what = "global"
        BY <1>1, <2>1, <2>4 DEF Limited
    <3> QED
        BY <3>1
  <2>5. Authorize(c) \/ res' = [res EXCEPT ![c] = Limited("global", LiveFrames(frames))]
      BY <2>1 DEF Serve
  <2> QED
      BY <2>2, <2>3, <2>4, <2>5
<1>2. SsInv /\ [SsNext]_ssVars =>
        [\A c \in Clients : Dispatched(c) /\ cl[c].req = "ask"
             => /\ res'[c].what = "ok" => Within(c)
                /\ res'[c].what = "unknown" => ~Within(c)]_ssVars
    BY <1>1
<1> QED
    BY <1>2, SsInvariance, PTL DEF SsSpec, SessionsFollowUse

\* A client is turned away only while the places, or the frames, are really taken.
THEOREM RefusalsAreReal == SsSpec => CapacityIsReal
<1>1. ASSUME SsInv, [SsNext]_ssVars, NEW c \in Clients, Dispatched(c), res'[c].what = "full"
      PROVE  Cardinality({d \in Clients \ {c} : Within(d)}) >= MaxAccepted
  <2>1. /\ clock' = clock /\ Serve(c, cl[c].req) /\ \A d \in Clients : d \in Unexpired <=> Within(d)
        /\ DOMAIN Sessions = Unexpired /\ Unexpired \subseteq Clients
        /\ res \in [Clients -> [what : Verdicts, at : Nat]]
      BY <1>1, DispatchIsServe, SessionsAre DEF SsInv, SsTypes, AcceptedShape
  <2>2. ASSUME NEW ss, Admit(c, ss) PROVE FALSE
    <3>1. \/ res' = [res EXCEPT ![c] = Limited("client", LiveFrames(ss[c].times))]
          \/ Answered(c, "ok")
        BY <2>2 DEF Admit
    <3> QED
        BY <1>1, <2>1, <3>1 DEF Answered, Limited
  <2>3. CASE Hello(c)
    <3>1. c \notin DOMAIN Sessions
        BY <2>2, <2>3 DEF Hello
    <3>2. Cardinality(DOMAIN Sessions) >= MaxAccepted
      <4>1. ~Answered(c, "ok")
          BY <1>1, <2>1 DEF Answered
      <4> QED
          BY <2>3, <3>1, <4>1 DEF Hello
    <3>3. {d \in Clients \ {c} : Within(d)} = Unexpired
        BY <2>1, <3>1
    <3> QED
        BY <2>1, <3>2, <3>3
  <2>4. ~Hello(c) => res'[c].what # "full"
    <3>1. ASSUME ~Hello(c)
          PROVE  \/ Answered(c, "refused") \/ Answered(c, "unknown") \/ Admit(c, Sessions)
                 \/ res' = [res EXCEPT ![c] = Limited("global", LiveFrames(frames))]
        BY <2>1, <3>1 DEF Serve, Authorize
    <3> QED
        BY <1>1, <2>1, <2>2, <3>1 DEF Answered, Limited
  <2> QED
      BY <1>1, <2>3, <2>4
<1>2. SsInv /\ [SsNext]_ssVars =>
        [\A c \in Clients : Dispatched(c) /\ res'[c].what = "full"
             => Cardinality({d \in Clients \ {c} : Within(d)}) >= MaxAccepted]_ssVars
    BY <1>1
<1> QED
    BY <1>2, SsInvariance, PTL DEF SsSpec, CapacityIsReal

-----------------------------------------------------------------------------
(* StateStores: the inductive invariant.  At most one epoch is unfinished, *)
(* and what it put aside is the live pair; without one the files are a     *)
(* pair: live, not there yet, or what a committed epoch left.              *)

MigSteps == {"intent", "backup", "manifest", "apply"}
HostStates == {"down", "restores", "compactions", "reconcile", "scan", "open", "up", "closed"} \cup MigSteps
FileForms == {"none", "live", "bak", "vac"}
OldFiles == [f : {"none", "live"}, v : Nat]
EpochForms ==
    [k : {"restore", "compaction"}, intent : {"none", "ok", "torn"},
     marker : {"none", "committed", "torn", "rolled_back"}, dir : BOOLEAN, left : BOOLEAN,
     lost : SUBSET Stores, temp : [Stores -> {"none", "bak", "vac"}], rb : [Stores -> OldFiles],
     walrb : SUBSET Stores, side : SUBSET Stores]
Files == [f : FileForms, v : Nat]
BackupNeeds == {"NOT_REQUIRED", "PENDING", "VERIFIED"}
OpSteps == {"plan", "prepare", "intent", "swap", "commit", "undo"}

MigForms ==
    [st : {"none", "dir", "intent", "committed"}, before : [Stores -> Nat],
     target : [Stores -> Nat], backup : BackupNeeds, verified : SUBSET Stores]
BkForms == [st : {"none", "partial", "manifest"}, v : [Stores -> Nat]]
OpForms == [pc : {"idle"} \cup OpSteps, e : {0} \cup Epochs, swapped : SUBSET Stores]

StTypes ==
    /\ main \in [Stores -> Files] /\ wal \subseteq Stores /\ ep \in [Epochs -> EpochForms]
    /\ mig \in MigForms /\ bk \in BkForms /\ host \in HostStates /\ op \in OpForms
    /\ app \in 1..2 /\ busy \subseteq Stores /\ newer \in BOOLEAN

\* A file is there exactly when it has a version.
FileShape ==
    /\ \A s \in Stores : (main[s].f = "none") <=> (main[s].v = 0)
    /\ \A e \in Epochs, s \in Stores : (ep[e].rb[s].f = "none") <=> (ep[e].rb[s].v = 0)
    /\ bk.st # "none" => \A s \in Stores : bk.v[s] > 0

Unfinished(e) == ep[e].dir /\ ep[e].marker = "none"
NoneUnfinished == \A e \in Epochs : ~Unfinished(e)
AllLive == \A s \in Stores : main[s].f = "live"
Evidence == \E e \in Epochs : ep[e].marker \in {"committed", "torn"}

\* What an epoch put aside is gone from its name; the rest is in its place,
\* but for a store that the undoing of a failed first rename unlinked.
AsideShape(e) ==
    \A s \in Stores :
        \/ ep[e].rb[s].f = "none" /\ main[s].f = "live"
        \/ ep[e].rb[s].f = "live" /\ main[s].f # "live"
        \/ ep[e].rb[s].f = "none" /\ main[s].f = "none" /\ s \in ep[e].lost

\* At most one epoch is unfinished; a marker stays behind only with its mark.
EpochShape ==
    /\ \A e \in Epochs : Unfinished(e) => AsideShape(e)
    /\ \A e, x \in Epochs : Unfinished(e) /\ Unfinished(x) => e = x
    /\ \A e \in Epochs : ep[e].left => ep[e].marker \in {"committed", "torn"}

\* The pair when no epoch is unfinished.
Fresh == mig.st = "intent" /\ mig.backup = "NOT_REQUIRED"
Pair ==
    \/ /\ \A s \in Stores : main[s].f \in {"none", "live"}
       /\ \A s \in Stores : main[s].f = "none" => Initialized = {} \/ Fresh
    \/ /\ main["catalog"].f = main["recovery"].f /\ main["catalog"].f \in {"bak", "vac"}
       /\ wal = {} /\ Evidence
PairShape == NoneUnfinished /\ ~LeftBehind /\ ~LiveLost => Pair

\* A store that was unlinked stays absent, the other one is there or put
\* aside, and no start gets as far as to migrate or open what is left.
Lost(e) == ep[e].lost # {}
LostShape ==
    /\ \A e \in Epochs : \A s \in ep[e].lost : main[s].f = "none" /\ ep[e].rb[s].f = "none"
    /\ \A e \in Epochs : Lost(e) =>
          /\ ep[e].lost # Stores /\ AsideShape(e)
          /\ Unfinished(e) \/ \A s \in Stores : ep[e].rb[s].f = "none"
          /\ host \in {"down", "restores", "compactions", "reconcile", "scan", "closed"}
          /\ mig.st \notin {"dir", "intent"}
          /\ op.pc = "idle" \/ (op.pc = "undo" /\ op.e = e /\ Unfinished(e))
    /\ \A e, x \in Epochs : Lost(e) /\ (Unfinished(x) \/ Lost(x)) => x = e

\* How far the host is.
StartShape ==
    /\ host \in {"up", "open", "reconcile", "scan"} \cup MigSteps => NoneUnfinished
    /\ host = "compactions" => \A e \in Epochs : Unfinished(e) => ep[e].k = "compaction"
    /\ host \in {"open", "up"} => AtTarget
    /\ host = "up" => AllLive
    /\ op.pc # "idle" => host = "closed"
    /\ host \in MigSteps \ {"intent"} => mig.st = "intent"
    /\ host = "intent" => mig.st = "dir" /\ Initialized \in {{}, Stores}
    /\ host = "manifest" => mig.backup = "PENDING" /\ bk.st = "partial"
    /\ host = "apply" => mig.backup # "PENDING"

\* How far a migration is.
MigShape ==
    /\ mig.st \in {"dir", "intent"} => host \notin {"up", "open", "closed"} /\ NoneUnfinished
    /\ mig.st = "intent" =>
         \A s \in Stores :
            /\ mig.target[s] > 0 /\ main[s].v >= mig.before[s]
            /\ s \in mig.verified => main[s].v = mig.target[s]
            /\ mig.backup = "NOT_REQUIRED" => mig.before[s] = 0
            /\ mig.backup # "NOT_REQUIRED" => mig.before[s] > 0
    /\ mig.st = "dir" => bk.st = "none"
    /\ mig.st = "intent" /\ bk.st # "none" => bk.v = mig.before
    /\ mig.st = "intent" /\ mig.backup = "VERIFIED" => bk.st = "manifest"

\* How far a restore or a compaction is.
FormOf(e) == IF ep[e].k = "restore" THEN "bak" ELSE "vac"
OpShape ==
    LET e == op.e IN
    /\ op.pc = "idle" => op = IdleOp
    /\ op.pc # "idle" => e \in Epochs /\ \A x \in Epochs \ {e} : ~Unfinished(x)
    /\ op.pc \in {"plan", "prepare", "intent"} =>
         /\ AllLive /\ ep[e].marker = "none" /\ op.swapped = {}
         /\ \A s \in Stores : ep[e].rb[s].f = "none"
    /\ op.pc = "plan" => ep[e].temp = NoFiles
    /\ op.pc \in {"prepare", "intent", "swap", "commit"} =>
         /\ ep[e].k = "restore" => bk.st = "manifest"
         /\ \A s \in Stores \ op.swapped :
              /\ ep[e].temp[s] \in {FormOf(e), "none"}
              /\ ep[e].temp[s] # "none" => (s \in wal => s \in ep[e].side)
    /\ op.pc \in {"intent", "swap"} => \A s \in Stores \ op.swapped : ep[e].temp[s] # "none"
    /\ op.pc \in {"swap", "commit"} =>
         /\ Unfinished(e) /\ op.swapped \in {{}, {"catalog"}, Stores}
         /\ (op.pc = "commit") <=> (op.swapped = Stores)
         /\ \A s \in op.swapped : main[s].f = FormOf(e) /\ ep[e].rb[s].f = "live" /\ s \notin wal
         /\ \A s \in Stores \ op.swapped : main[s].f \in {"live", "none"}
    /\ op.pc = "undo" => AsideShape(e) /\ (Unfinished(e) \/ ep[e].left)

StInv ==
    StTypes /\ FileShape /\ EpochShape /\ PairShape /\ LostShape /\ StartShape /\ MigShape /\ OpShape

\* The two stores, the release's versions, and what is not there.
LEMMA StConstants ==
    /\ Stores = {"catalog", "recovery"} /\ "catalog" # "recovery"
    /\ \A a \in 1..2 : Plan(a) \in [Stores -> Nat \ {0}]
    /\ NoFiles \in [Stores -> {"none", "bak", "vac"}] /\ \A s \in Stores : NoFiles[s] = "none"
    /\ NoEpoch \in EpochForms /\ NoMig \in MigForms /\ NoBk \in BkForms /\ IdleOp \in OpForms
    /\ Absent \in OldFiles /\ Absent \in Files
<1>1. \A a \in 1..2 : Plan(a) \in [Stores -> Nat \ {0}]
    BY DEF Plan, CatalogPlan, RecoveryPlan, Stores
<1>2. NoFiles \in [Stores -> {"none", "bak", "vac"}] /\ Absent \in OldFiles /\ Absent \in Files
    BY DEF NoFiles, OldFiles, Absent, Files, FileForms
<1>3. NoEpoch \in EpochForms
  <2>1. [s \in Stores |-> Absent] \in [Stores -> OldFiles]
      BY <1>2
  <2> QED
      BY <1>2, <2>1 DEF NoEpoch, EpochForms
<1>4. Plan(1) \in [Stores -> Nat]
    BY <1>1
<1> HIDE DEF Plan
<1>5. NoMig \in MigForms /\ NoBk \in BkForms /\ IdleOp \in OpForms
    BY <1>4 DEF NoMig, MigForms, NoBk, BkForms, BackupNeeds, IdleOp, OpForms
<1> QED
    BY <1>1, <1>2, <1>3, <1>5 DEF Stores, NoFiles

\* What the fields are.
LEMMA StFields ==
    ASSUME StTypes
    PROVE  /\ \A s \in Stores : main[s].f \in FileForms /\ main[s].v \in Nat
           /\ mig.verified \subseteq Stores /\ mig.backup \in BackupNeeds
           /\ \A s \in Stores : mig.before[s] \in Nat /\ mig.target[s] \in Nat /\ bk.v[s] \in Nat
           /\ mig.before \in [Stores -> Nat] /\ mig.target \in [Stores -> Nat] /\ bk.v \in [Stores -> Nat]
           /\ op.pc \in {"idle"} \cup OpSteps /\ op.e \in {0} \cup Epochs /\ op.swapped \subseteq Stores
           /\ Versions \in [Stores -> Nat] /\ \A s \in Stores : Versions[s] = main[s].v
BY DEF StTypes, Files, MigForms, BkForms, OpForms, Versions

\* No store was unlinked: there is nothing to say of one.
LEMMA NoneLost ==
    ~LiveLost => LostShape
BY DEF LiveLost, LostShape, Lost

\* Where the host is up, or migrates, no store was unlinked.
LEMMA NoLossHere ==
    ASSUME LostShape,
           \/ host \notin {"down", "restores", "compactions", "reconcile", "scan", "closed"}
           \/ mig.st \in {"dir", "intent"} \/ op.pc \notin {"idle", "undo"}
    PROVE  ~LiveLost
BY DEF LiveLost, LostShape, Lost

\* With the files as they are, a loss stays one, as long as the start does not get further.
LEMMA LossStays ==
    ASSUME LostShape, UNCHANGED <<main, ep>>,
           LiveLost => /\ host' \in {"down", "restores", "compactions", "reconcile", "scan", "closed"}
                       /\ mig'.st \notin {"dir", "intent"} /\ (op'.pc = "idle" \/ op' = op)
    PROVE  LostShape'
<1>1. CASE ~LiveLost
  <2>1. (~LiveLost)'
      BY <1>1 DEF LiveLost
  <2> QED
      BY <2>1 DEF LiveLost, LostShape, Lost
<1>2. CASE LiveLost
  <2>1. \A e \in Epochs : /\ Lost(e)' = Lost(e) /\ Unfinished(e)' = Unfinished(e) /\ AsideShape(e)' = AsideShape(e)
                          /\ ep'[e] = ep[e]
      BY DEF Lost, Unfinished, AsideShape
  <2> QED
      BY <1>2, <2>1 DEF LostShape
<1> QED
    BY <1>1, <1>2

\* The start begins.
LEMMA StartHostInv ==
    ASSUME StInv, StartHost
    PROVE  StInv'
<1>1. StTypes'
    BY StConstants, StFields DEF StInv, StTypes, HostStates, MigSteps, Starting, fileVars, StartHost
<1>2. FileShape'
    BY DEF StInv, StTypes, FileShape, StartShape, MigShape, Stores, StartHost, Starting, fileVars
<1>3. EpochShape'
    BY DEF StInv, StTypes, FileShape, StartShape, MigShape, Stores, EpochShape, StartHost, Starting, fileVars, Unfinished, AsideShape
<1>4. PairShape'
    BY DEF StInv, StTypes, FileShape, StartShape, MigShape, Stores, PairShape, StartHost, Starting, fileVars, Unfinished, NoneUnfinished, LeftBehind, LiveLost, Pair, Evidence, Initialized, Fresh
<1>5. StartShape'
    BY DEF StInv, StTypes, FileShape, StartShape, MigShape, Stores, StartHost, Starting, fileVars, Unfinished, NoneUnfinished, AllLive, AtTarget, Versions, Initialized, MigSteps, OpSteps
<1>6. MigShape'
    BY DEF StInv, StTypes, FileShape, StartShape, MigShape, Stores, StartHost, Starting, fileVars, Unfinished, NoneUnfinished
<1>7. OpShape'
    BY DEF StInv, StTypes, FileShape, StartShape, MigShape, Stores, OpShape, StartHost, Starting, fileVars, Unfinished, AllLive, AsideShape, FormOf
<1>8. LostShape'
    BY LossStays DEF StInv, LostShape, LiveLost, Lost, StartHost, Starting, fileVars, IdleOp
<1> QED
    BY <1>1, <1>2, <1>3, <1>4, <1>5, <1>6, <1>7, <1>8 DEF StInv

\* Readable markers let the start go on.
LEMMA ReconcileCommittedInv ==
    ASSUME StInv, ReconcileCommitted
    PROVE  StInv'
<1>1. StTypes'
    BY StConstants, StFields DEF StInv, StTypes, HostStates, MigSteps, Starting, fileVars, ReconcileCommitted, Refuse
<1>2. FileShape'
    BY DEF StInv, StTypes, FileShape, StartShape, MigShape, Stores, ReconcileCommitted, Starting, fileVars, Refuse
<1>3. EpochShape'
    BY DEF StInv, StTypes, FileShape, StartShape, MigShape, Stores, EpochShape, ReconcileCommitted, Starting, fileVars, Refuse, Unfinished, AsideShape
<1>4. PairShape'
    BY DEF StInv, StTypes, FileShape, StartShape, MigShape, Stores, PairShape, ReconcileCommitted, Starting, fileVars, Refuse, Unfinished, NoneUnfinished, LeftBehind, LiveLost, Pair, Evidence, Initialized, Fresh
<1>5. StartShape'
    BY DEF StInv, StTypes, FileShape, StartShape, MigShape, Stores, ReconcileCommitted, Starting, fileVars, Refuse, Unfinished, NoneUnfinished, AllLive, AtTarget, Versions, Initialized, MigSteps, OpSteps
<1>6. MigShape'
    BY DEF StInv, StTypes, FileShape, StartShape, MigShape, Stores, ReconcileCommitted, Starting, fileVars, Refuse, Unfinished, NoneUnfinished
<1>7. OpShape'
    BY DEF StInv, StTypes, FileShape, StartShape, MigShape, Stores, OpShape, ReconcileCommitted, Starting, fileVars, Refuse, Unfinished, AllLive, AsideShape, FormOf
<1>8. LostShape'
    BY LossStays DEF StInv, LostShape, LiveLost, Lost, ReconcileCommitted, Refuse, Starting, fileVars, IdleOp
<1> QED
    BY <1>1, <1>2, <1>3, <1>4, <1>5, <1>6, <1>7, <1>8 DEF StInv

\* The versions of an initialised pair, and of none.
LEMMA InitializedIs ==
    ASSUME StTypes
    PROVE  /\ Initialized = {} <=> \A s \in Stores : main[s].v = 0
           /\ Initialized = Stores <=> \A s \in Stores : main[s].v > 0
           /\ (\A s \in Stores : main[s].v = 0) => Initialized = {}
BY StFields DEF Initialized

\* A migration is resumed, cleared or begun.
LEMMA ScanEpochsInv ==
    ASSUME StInv, ScanEpochs
    PROVE  StInv'
<1>1. StTypes'
  <2>1. [NoMig EXCEPT !.st = "dir"] \in MigForms
      BY StConstants DEF MigForms
  <2>2. mig' \in {mig, NoMig, [NoMig EXCEPT !.st = "dir"]} /\ bk' \in {bk, NoBk}
        /\ host' \in {host, "backup", "open", "intent", "down"} /\ UNCHANGED <<main, wal, ep, op, app, busy, newer>>
      BY DEF ScanEpochs, Starting, fileVars, Refuse
  <2> QED
      BY <2>1, <2>2, StConstants DEF StInv, StTypes, HostStates, MigSteps
<1>2. FileShape'
    BY DEF StInv, FileShape, ScanEpochs, Starting, fileVars, Refuse, NoBk
<1>3. EpochShape'
    BY DEF StInv, StTypes, FileShape, StartShape, MigShape, Stores, EpochShape, ScanEpochs, Starting, fileVars, Refuse, PendingEpoch, SettledEpoch, Unfinished, AsideShape
<1>4. PairShape'
    BY DEF StInv, StTypes, FileShape, StartShape, MigShape, Stores, PairShape, ScanEpochs, Starting, fileVars, Refuse, PendingEpoch, SettledEpoch, Unfinished, NoneUnfinished, LeftBehind, LiveLost, Pair, Evidence, Initialized, Fresh
<1>5. StartShape'
  <2>0. UNCHANGED <<fileVars, op, app>> /\ host = "scan" /\ NoneUnfinished /\ op.pc = "idle"
      BY DEF StInv, StartShape, ScanEpochs, Starting, fileVars, Refuse
  <2>1. NoneUnfinished' /\ AtTarget' = AtTarget /\ Initialized' = Initialized
      BY <2>0 DEF NoneUnfinished, Unfinished, fileVars, AtTarget, Versions, Initialized
  <2>2. \/ host' = "scan"
        \/ host' = "backup" /\ mig' = mig /\ mig.st = "intent"
        \/ host' = "open" /\ AtTarget
        \/ host' = "down"
        \/ host' = "intent" /\ mig'.st = "dir" /\ Initialized \in {{}, Stores}
    <3>1. [NoMig EXCEPT !.st = "dir"].st = "dir"
        BY DEF NoMig
    <3> QED
        BY <2>0, <3>1 DEF ScanEpochs, Refuse, PendingEpoch
  <2> QED
      BY <2>0, <2>1, <2>2 DEF StartShape, MigSteps
<1>6. MigShape'
  <2>0. UNCHANGED <<fileVars, op, app>> /\ host = "scan" /\ NoneUnfinished
      BY DEF StInv, StartShape, ScanEpochs, Starting, fileVars, Refuse
  <2>1. NoneUnfinished'
      BY <2>0 DEF NoneUnfinished, Unfinished, fileVars
  <2>2. \/ mig' = mig /\ bk' = bk /\ (mig.st \notin {"dir", "intent"} \/ host' \in {"backup", "down"})
        \/ mig'.st = "none"
        \/ mig'.st = "dir" /\ host' = "intent" /\ bk'.st = "none"
      BY <2>0 DEF ScanEpochs, Refuse, PendingEpoch, SettledEpoch, NoMig, NoBk
  <2> QED
      BY <2>0, <2>1, <2>2 DEF StInv, MigShape, fileVars
<1>7. OpShape'
    BY DEF StInv, StTypes, FileShape, StartShape, MigShape, Stores, OpShape, ScanEpochs, Starting, fileVars, Refuse, PendingEpoch, SettledEpoch, Unfinished, AllLive, AsideShape, FormOf
<1>8. LostShape'
  <2>1. CASE ~LiveLost
      BY <2>1, LossStays DEF StInv, ScanEpochs, Starting, fileVars, Refuse
  <2>2. CASE LiveLost
    <3>1. PICK e \in Epochs : Lost(e)
        BY <2>2 DEF LiveLost, Lost
    <3>2. NoneUnfinished /\ host = "scan" /\ mig.st \notin {"dir", "intent"}
        BY <3>1 DEF StInv, StartShape, LostShape, ScanEpochs
    <3>3. /\ ep[e].lost \subseteq Stores /\ ep[e].lost # Stores
          /\ \A t \in ep[e].lost : main[t].f = "none"
          /\ \A t \in Stores \ ep[e].lost : main[t].f = "live"
      <4>1. ep[e].lost \subseteq Stores
          BY DEF StInv, StTypes, EpochForms
      <4> QED
          BY <3>1, <3>2, <4>1 DEF StInv, LostShape, AsideShape, NoneUnfinished
    <3>4. PICK t \in Stores, u \in Stores : main[t].v = 0 /\ main[u].v > 0
      <4>1. PICK t \in ep[e].lost : TRUE
          BY <3>1 DEF Lost
      <4>2. PICK u \in Stores : u \notin ep[e].lost
          BY <3>3
      <4>3. main[t].v = 0 /\ main[u].v # 0 /\ main[u].v \in Nat /\ t \in Stores
          BY <3>3, <4>1, <4>2, StFields DEF StInv, FileShape
      <4> QED
          BY <4>2, <4>3
    <3>5. Initialized \notin {{}, Stores}
        BY <3>4, InitializedIs DEF StInv
    <3>6. ~AtTarget
        BY <3>4, StFields, StConstants DEF StInv, StTypes, AtTarget
    <3>7. host' \in {"scan", "down"} /\ mig' = mig /\ UNCHANGED <<main, ep, op>>
        BY <3>2, <3>5, <3>6 DEF ScanEpochs, Starting, fileVars, Refuse, PendingEpoch
    <3> QED
        BY <3>2, <3>7, LossStays DEF StInv
  <2> QED
      BY <2>1, <2>2
<1> QED
    BY <1>1, <1>2, <1>3, <1>4, <1>5, <1>6, <1>7, <1>8 DEF StInv

\* The intent of a migration names the versions found.
LEMMA CreateEpochIntentInv ==
    ASSUME StInv, CreateEpochIntent
    PROVE  StInv'
<1>1. StTypes'
  <2>1. mig' \in MigForms
    <3>1. /\ Versions \in [Stores -> Nat] /\ Plan(app) \in [Stores -> Nat]
          /\ {s \in Stores : main[s].v = Plan(app)[s]} \in SUBSET Stores
        BY StConstants, StFields DEF StInv, StTypes
    <3> QED
        BY <3>1 DEF CreateEpochIntent, MigForms, BackupNeeds
  <2> QED
      BY <2>1, StConstants DEF StInv, StTypes, HostStates, MigSteps, Starting, fileVars, CreateEpochIntent
<1>2. FileShape'
    BY DEF StInv, StTypes, FileShape, StartShape, MigShape, Stores, CreateEpochIntent, Starting, fileVars
<1>3. EpochShape'
    BY DEF StInv, StTypes, FileShape, StartShape, MigShape, Stores, EpochShape, CreateEpochIntent, Starting, fileVars, Unfinished, AsideShape
<1>4. PairShape'
    BY DEF StInv, StTypes, FileShape, StartShape, MigShape, Stores, PairShape, CreateEpochIntent, Starting, fileVars, Unfinished, NoneUnfinished, LeftBehind, LiveLost, Pair, Evidence, Initialized, Fresh
<1>5. StartShape'
    BY DEF StInv, StTypes, FileShape, StartShape, MigShape, Stores, CreateEpochIntent, Starting, fileVars, Unfinished, NoneUnfinished, AllLive, AtTarget, Versions, Initialized, MigSteps, OpSteps
<1>6. MigShape'
  <2>1. /\ UNCHANGED <<main, ep, bk>> /\ NoneUnfinished /\ host' = "backup" /\ mig'.st = "intent"
        /\ mig'.before = Versions /\ mig'.target = Plan(app)
        /\ mig'.backup = IF Initialized = {} THEN "NOT_REQUIRED" ELSE "PENDING"
        /\ mig'.verified = {s \in Stores : main[s].v = Plan(app)[s]} /\ Initialized \in {{}, Stores}
        /\ bk.st = "none"
      BY DEF StInv, StartShape, MigShape, MigSteps, CreateEpochIntent, Starting, fileVars
  <2>2. NoneUnfinished'
      BY <2>1 DEF NoneUnfinished, Unfinished
  <2>3. ASSUME NEW s \in Stores
        PROVE  /\ mig'.target[s] > 0 /\ main'[s].v >= mig'.before[s]
               /\ s \in mig'.verified => main'[s].v = mig'.target[s]
               /\ mig'.backup = "NOT_REQUIRED" => mig'.before[s] = 0
               /\ mig'.backup # "NOT_REQUIRED" => mig'.before[s] > 0
      BY <2>1, StConstants, StFields, InitializedIs DEF StInv, StTypes
  <2> QED
      BY <2>1, <2>2, <2>3 DEF MigShape
<1>7. OpShape'
    BY DEF StInv, StTypes, FileShape, StartShape, MigShape, Stores, OpShape, CreateEpochIntent, Starting, fileVars, Unfinished, AllLive, AsideShape, FormOf
<1>8. LostShape'
    BY NoLossHere, LossStays DEF StInv, CreateEpochIntent, Starting, fileVars
<1> QED
    BY <1>1, <1>2, <1>3, <1>4, <1>5, <1>6, <1>7, <1>8 DEF StInv

\* The backup set is what the intent found.
LEMMA EnsureBackupInv ==
    ASSUME StInv, EnsureBackup
    PROVE  StInv'
<1>1. StTypes'
  <2>1. mig' \in {mig, [mig EXCEPT !.backup = "VERIFIED"]} /\ bk' \in {bk, NoBk, [st |-> "partial", v |-> Versions]}
        /\ host' \in {host, "down", "apply", "manifest"} /\ UNCHANGED <<main, wal, ep, op, app, busy, newer>>
      BY DEF EnsureBackup, Starting, fileVars
  <2>2. [mig EXCEPT !.backup = "VERIFIED"] \in MigForms
      BY DEF StInv, StTypes, MigForms, BackupNeeds
  <2>3. [st |-> "partial", v |-> Versions] \in BkForms
      BY StFields DEF StInv, BkForms
  <2> QED
      BY <2>1, <2>2, <2>3, StConstants DEF StInv, StTypes, HostStates, MigSteps
<1>2. FileShape'
  <2>1. \/ bk' = bk \/ bk' = NoBk
        \/ bk' = [st |-> "partial", v |-> Versions] /\ Versions = mig.before /\ mig.backup = "PENDING" /\ mig.st = "intent"
      BY DEF EnsureBackup, StInv, StartShape, MigSteps
  <2>2. UNCHANGED <<main, ep>>
      BY DEF EnsureBackup, fileVars
  <2> QED
      BY <2>1, <2>2 DEF StInv, FileShape, NoBk, MigShape
<1>3. EpochShape'
    BY DEF StInv, StTypes, FileShape, StartShape, MigShape, Stores, EpochShape, EnsureBackup, Starting, fileVars, InRange, Unfinished, AsideShape
<1>4. PairShape'
    BY DEF StInv, StTypes, FileShape, StartShape, MigShape, Stores, PairShape, EnsureBackup, Starting, fileVars, InRange, Unfinished, NoneUnfinished, LeftBehind, LiveLost, Pair, Evidence, Initialized, Fresh
<1>5. StartShape'
  <2>1. /\ UNCHANGED <<fileVars, op, app>> /\ mig'.st = "intent" /\ NoneUnfinished /\ op.pc = "idle"
        /\ \/ host' = "down"
           \/ host' = "apply" /\ mig'.backup # "PENDING"
           \/ host' = "manifest" /\ mig'.backup = "PENDING" /\ bk'.st = "partial"
           \/ host' = "backup"
      BY DEF StInv, StTypes, MigForms, StartShape, MigSteps, EnsureBackup, Starting, fileVars
  <2>2. NoneUnfinished'
      BY <2>1 DEF NoneUnfinished, Unfinished, fileVars
  <2> QED
      BY <2>1, <2>2 DEF StartShape, MigSteps
<1>6. MigShape'
  <2>1. /\ UNCHANGED <<main, ep>> /\ mig.st = "intent" /\ NoneUnfinished /\ host' \in {"down", "apply", "manifest", "backup"}
        /\ \/ mig' = mig /\ (bk' = bk \/ mig.backup = "PENDING")
           \/ mig' = [mig EXCEPT !.backup = "VERIFIED"] /\ bk' = bk /\ bk.st = "manifest" /\ Versions = mig.before
              /\ mig.backup = "PENDING"
        /\ bk' = bk \/ bk'.st = "none" \/ bk'.v = mig.before
      BY DEF StInv, StartShape, MigSteps, EnsureBackup, fileVars, NoBk
  <2>2. NoneUnfinished'
      BY <2>1 DEF NoneUnfinished, Unfinished
  <2>3. /\ mig'.st = "intent" /\ mig'.before = mig.before /\ mig'.target = mig.target /\ mig'.verified = mig.verified
        /\ mig'.backup = "NOT_REQUIRED" <=> mig.backup = "NOT_REQUIRED"
        /\ mig'.backup = "VERIFIED" => bk' = bk /\ (mig.backup = "VERIFIED" \/ bk.st = "manifest")
      BY <2>1 DEF StInv, StTypes, MigForms
  <2>4. bk'.st # "none" => bk'.v = mig'.before
      BY <2>1, <2>3 DEF StInv, MigShape
  <2>5. mig'.backup = "VERIFIED" => bk'.st = "manifest"
      BY <2>1, <2>3 DEF StInv, MigShape
  <2>6. ASSUME NEW s \in Stores
        PROVE  /\ mig'.target[s] > 0 /\ main'[s].v >= mig'.before[s]
               /\ s \in mig'.verified => main'[s].v = mig'.target[s]
               /\ mig'.backup = "NOT_REQUIRED" => mig'.before[s] = 0
               /\ mig'.backup # "NOT_REQUIRED" => mig'.before[s] > 0
      BY <2>1, <2>3 DEF StInv, MigShape
  <2> QED
      BY <2>1, <2>2, <2>3, <2>4, <2>5, <2>6 DEF MigShape
<1>7. OpShape'
    BY DEF StInv, StTypes, FileShape, StartShape, MigShape, Stores, OpShape, EnsureBackup, Starting, fileVars, InRange, Unfinished, AllLive, AsideShape, FormOf
<1>8. LostShape'
    BY NoLossHere, LossStays DEF StInv, EnsureBackup, Starting, fileVars
<1> QED
    BY <1>1, <1>2, <1>3, <1>4, <1>5, <1>6, <1>7, <1>8 DEF StInv

\* The manifest completes the backup set.
LEMMA CreateBackupSetInv ==
    ASSUME StInv, CreateBackupSet
    PROVE  StInv'
<1>1. StTypes'
  <2>1. [bk EXCEPT !.st = "manifest"] \in BkForms
      BY DEF StInv, StTypes, BkForms
  <2> QED
      BY <2>1 DEF StInv, StTypes, HostStates, MigSteps, Starting, fileVars, CreateBackupSet
<1>2. FileShape'
    BY DEF StInv, StTypes, FileShape, StartShape, MigShape, Stores, CreateBackupSet, Starting, fileVars
<1>3. EpochShape'
    BY DEF StInv, StTypes, FileShape, StartShape, MigShape, Stores, EpochShape, CreateBackupSet, Starting, fileVars, Unfinished, AsideShape
<1>4. PairShape'
    BY DEF StInv, StTypes, FileShape, StartShape, MigShape, Stores, PairShape, CreateBackupSet, Starting, fileVars, Unfinished, NoneUnfinished, LeftBehind, LiveLost, Pair, Evidence, Initialized, Fresh
<1>5. StartShape'
    BY DEF StInv, StTypes, FileShape, StartShape, MigShape, Stores, CreateBackupSet, Starting, fileVars, Unfinished, NoneUnfinished, AllLive, AtTarget, Versions, Initialized, MigSteps, OpSteps
<1>6. MigShape'
    BY DEF StInv, StTypes, FileShape, StartShape, MigShape, Stores, CreateBackupSet, Starting, fileVars, Unfinished, NoneUnfinished
<1>7. OpShape'
    BY DEF StInv, StTypes, FileShape, StartShape, MigShape, Stores, OpShape, CreateBackupSet, Starting, fileVars, Unfinished, AllLive, AsideShape, FormOf
<1>8. LostShape'
    BY NoLossHere, LossStays DEF StInv, CreateBackupSet, Starting, fileVars
<1> QED
    BY <1>1, <1>2, <1>3, <1>4, <1>5, <1>6, <1>7, <1>8 DEF StInv

\* A store at its target is verified.
LEMMA MarkStoreVerifiedInv ==
    ASSUME StInv, MarkStoreVerified
    PROVE  StInv'
<1>1. StTypes'
  <2>1. [mig EXCEPT !.verified = @ \cup {NextStore}] \in MigForms
      BY DEF StInv, StTypes, MigForms, NextStore, Stores
  <2> QED
      BY <2>1 DEF StInv, StTypes, Starting, fileVars, MarkStoreVerified
<1>2. FileShape'
    BY DEF StInv, StTypes, FileShape, StartShape, MigShape, Stores, MarkStoreVerified, Starting, fileVars, NextStore
<1>3. EpochShape'
    BY DEF StInv, StTypes, FileShape, StartShape, MigShape, Stores, EpochShape, MarkStoreVerified, Starting, fileVars, NextStore, Unfinished, AsideShape
<1>4. PairShape'
    BY DEF StInv, StTypes, FileShape, StartShape, MigShape, Stores, PairShape, MarkStoreVerified, Starting, fileVars, NextStore, Unfinished, NoneUnfinished, LeftBehind, LiveLost, Pair, Evidence, Initialized, Fresh
<1>5. StartShape'
    BY DEF StInv, StTypes, FileShape, StartShape, MigShape, Stores, MarkStoreVerified, Starting, fileVars, NextStore, Unfinished, NoneUnfinished, AllLive, AtTarget, Versions, Initialized, MigSteps, OpSteps
<1>6. MigShape'
    BY DEF StInv, StTypes, FileShape, StartShape, MigShape, Stores, MarkStoreVerified, Starting, fileVars, NextStore, Unfinished, NoneUnfinished
<1>7. OpShape'
    BY DEF StInv, StTypes, FileShape, StartShape, MigShape, Stores, OpShape, MarkStoreVerified, Starting, fileVars, NextStore, Unfinished, AllLive, AsideShape, FormOf
<1>8. LostShape'
    BY NoLossHere, LossStays DEF StInv, MarkStoreVerified, Starting, fileVars
<1> QED
    BY <1>1, <1>2, <1>3, <1>4, <1>5, <1>6, <1>7, <1>8 DEF StInv

\* A migration ends.
LEMMA CommitMigrationInv ==
    ASSUME StInv, CommitMigration
    PROVE  StInv'
<1>1. StTypes'
  <2>1. [mig EXCEPT !.st = "committed"] \in MigForms
      BY DEF StInv, StTypes, MigForms
  <2> QED
      BY <2>1 DEF StInv, StTypes, HostStates, MigSteps, Starting, fileVars, CommitMigration
<1>2. FileShape'
    BY DEF StInv, StTypes, FileShape, StartShape, MigShape, Stores, CommitMigration, Starting, fileVars
<1>3. EpochShape'
    BY DEF StInv, StTypes, FileShape, StartShape, MigShape, Stores, EpochShape, CommitMigration, Starting, fileVars, Unfinished, AsideShape
<1>4. PairShape'
    BY DEF StInv, StTypes, FileShape, StartShape, MigShape, Stores, PairShape, CommitMigration, Starting, fileVars, Unfinished, NoneUnfinished, LeftBehind, LiveLost, Pair, Evidence, Initialized, Fresh
<1>5. StartShape'
    BY DEF StInv, StTypes, FileShape, StartShape, MigShape, Stores, CommitMigration, Starting, fileVars, Unfinished, NoneUnfinished, AllLive, AtTarget, Versions, Initialized, MigSteps, OpSteps
<1>6. MigShape'
    BY DEF StInv, StTypes, FileShape, StartShape, MigShape, Stores, CommitMigration, Starting, fileVars, Unfinished, NoneUnfinished
<1>7. OpShape'
    BY DEF StInv, StTypes, FileShape, StartShape, MigShape, Stores, OpShape, CommitMigration, Starting, fileVars, Unfinished, AllLive, AsideShape, FormOf
<1>8. LostShape'
    BY NoLossHere, LossStays DEF StInv, CommitMigration, Starting, fileVars
<1> QED
    BY <1>1, <1>2, <1>3, <1>4, <1>5, <1>6, <1>7, <1>8 DEF StInv

\* Another release is installed.
LEMMA UpgradeAppInv ==
    ASSUME StInv, UpgradeApp
    PROVE  StInv'
<1>1. StTypes'
    BY DEF StInv, StTypes, FileShape, StartShape, MigShape, Stores, UpgradeApp, Starting, fileVars
<1>2. FileShape'
    BY DEF StInv, StTypes, FileShape, StartShape, MigShape, Stores, UpgradeApp, Starting, fileVars
<1>3. EpochShape'
    BY DEF StInv, StTypes, FileShape, StartShape, MigShape, Stores, EpochShape, UpgradeApp, Starting, fileVars, Unfinished, AsideShape
<1>4. PairShape'
    BY DEF StInv, StTypes, FileShape, StartShape, MigShape, Stores, PairShape, UpgradeApp, Starting, fileVars, Unfinished, NoneUnfinished, LeftBehind, LiveLost, Pair, Evidence, Initialized, Fresh
<1>5. StartShape'
    BY DEF StInv, StTypes, FileShape, StartShape, MigShape, Stores, UpgradeApp, Starting, fileVars, Unfinished, NoneUnfinished, AllLive, AtTarget, Versions, Initialized, MigSteps, OpSteps
<1>6. MigShape'
    BY DEF StInv, StTypes, FileShape, StartShape, MigShape, Stores, UpgradeApp, Starting, fileVars, Unfinished, NoneUnfinished
<1>7. OpShape'
    BY DEF StInv, StTypes, FileShape, StartShape, MigShape, Stores, OpShape, UpgradeApp, Starting, fileVars, Unfinished, AllLive, AsideShape, FormOf
<1>8. LostShape'
    BY LossStays DEF StInv, LostShape, LiveLost, Lost, UpgradeApp, Starting, fileVars, IdleOp
<1> QED
    BY <1>1, <1>2, <1>3, <1>4, <1>5, <1>6, <1>7, <1>8 DEF StInv

\* The host closes.
LEMMA CloseHostInv ==
    ASSUME StInv, CloseHost
    PROVE  StInv'
<1>1. StTypes'
    BY DEF StInv, StTypes, HostStates, CloseHost
<1>2. FileShape'
    BY DEF StInv, StTypes, FileShape, StartShape, MigShape, Stores, CloseHost, Starting, fileVars
<1>3. EpochShape'
    BY DEF StInv, StTypes, FileShape, StartShape, MigShape, Stores, EpochShape, CloseHost, Starting, fileVars, Unfinished, AsideShape
<1>4. PairShape'
    BY DEF StInv, StTypes, FileShape, StartShape, MigShape, Stores, PairShape, CloseHost, Starting, fileVars, Unfinished, NoneUnfinished, LeftBehind, LiveLost, Pair, Evidence, Initialized, Fresh
<1>5. StartShape'
  <2>1. host' = "down" /\ op'.pc = "idle"
      BY DEF CloseHost, IdleOp
  <2> QED
      BY <2>1 DEF StartShape, MigSteps
<1>6. MigShape'
    BY DEF StInv, StTypes, FileShape, StartShape, MigShape, Stores, CloseHost, Starting, fileVars, Unfinished, NoneUnfinished
<1>7. OpShape'
    BY DEF StInv, StTypes, FileShape, StartShape, MigShape, Stores, OpShape, CloseHost, Starting, fileVars, Unfinished, AllLive, AsideShape, FormOf
<1>8. LostShape'
    BY LossStays DEF StInv, LostShape, LiveLost, Lost, CloseHost, Starting, fileVars, IdleOp
<1> QED
    BY <1>1, <1>2, <1>3, <1>4, <1>5, <1>6, <1>7, <1>8 DEF StInv

\* The host works.
LEMMA WorkOnInv ==
    ASSUME StInv, WorkOn
    PROVE  StInv'
<1>1. StTypes'
    BY DEF StInv, StTypes, FileShape, StartShape, MigShape, Stores, WorkOn, Starting, fileVars
<1>2. FileShape'
    BY DEF StInv, StTypes, FileShape, StartShape, MigShape, Stores, WorkOn, Starting, fileVars
<1>3. EpochShape'
    BY DEF StInv, StTypes, FileShape, StartShape, MigShape, Stores, EpochShape, WorkOn, Starting, fileVars, Unfinished, AsideShape
<1>4. PairShape'
  <2>1. AllLive /\ UNCHANGED main
      BY DEF StInv, StartShape, WorkOn
  <2> QED
      BY <2>1 DEF AllLive, PairShape, Pair
<1>5. StartShape'
    BY DEF StInv, StTypes, FileShape, StartShape, MigShape, Stores, WorkOn, Starting, fileVars, Unfinished, NoneUnfinished, AllLive, AtTarget, Versions, Initialized, MigSteps, OpSteps
<1>6. MigShape'
    BY DEF StInv, StTypes, FileShape, StartShape, MigShape, Stores, WorkOn, Starting, fileVars, Unfinished, NoneUnfinished
<1>7. OpShape'
    BY DEF StInv, StTypes, FileShape, StartShape, MigShape, Stores, OpShape, WorkOn, Starting, fileVars, Unfinished, AllLive, AsideShape, FormOf
<1>8. LostShape'
    BY NoLossHere, LossStays DEF StInv, WorkOn, Starting, fileVars
<1> QED
    BY <1>1, <1>2, <1>3, <1>4, <1>5, <1>6, <1>7, <1>8 DEF StInv

\* An epoch's record, and writing it.
LEMMA EpochFields ==
    ASSUME StTypes, NEW e \in Epochs
    PROVE  /\ ep[e] \in EpochForms /\ ep[e].k \in {"restore", "compaction"}
           /\ ep[e].marker \in {"none", "committed", "torn", "rolled_back"} /\ ep[e].dir \in BOOLEAN
           /\ ep[e].temp \in [Stores -> {"none", "bak", "vac"}] /\ ep[e].rb \in [Stores -> OldFiles]
           /\ \A s \in Stores : ep[e].rb[s].f \in {"none", "live"} /\ ep[e].rb[s].v \in Nat
           /\ ep[e].walrb \subseteq Stores /\ ep[e].side \subseteq Stores /\ ep[e].lost \subseteq Stores
BY DEF StTypes, EpochForms, OldFiles

\* The other epochs stay as they are.
LEMMA EpochSet ==
    ASSUME StTypes, NEW e \in Epochs, NEW r \in EpochForms, SetEpoch(e, r)
    PROVE  /\ ep' \in [Epochs -> EpochForms] /\ ep'[e] = r
           /\ \A x \in Epochs \ {e} : ep'[x] = ep[x]
BY DEF StTypes, SetEpoch

\* Only one epoch may be unfinished: the one that is written.
LEMMA OneEpoch ==
    ASSUME EpochShape, NEW e \in Epochs, \A x \in Epochs \ {e} : ~Unfinished(x) /\ ep'[x] = ep[x],
           Unfinished(e)' => AsideShape(e)', ep'[e].left => ep'[e].marker \in {"committed", "torn"}
    PROVE  EpochShape' /\ \A x \in Epochs \ {e} : ~Unfinished(x)'
BY DEF EpochShape, Unfinished

\* While an epoch is unfinished, or left its marker behind, no pair is promised.
LEMMA UnfinishedIsNoPair ==
    ASSUME NEW e \in Epochs, Unfinished(e)' \/ ep'[e].left
    PROVE  PairShape'
BY DEF PairShape, NoneUnfinished, LeftBehind

\* Two live files are a pair.
LEMMA LiveIsPair ==
    ASSUME AllLive'
    PROVE  PairShape'
BY DEF PairShape, Pair, AllLive

\* The host and the migration are out of it while an epoch is under way.
LEMMA OpFrame ==
    ASSUME StInv, op.pc # "idle", UNCHANGED mig, host' \in {"closed", "down"}, op'.pc # "idle" => host' = "closed"
    PROVE  /\ StartShape' /\ MigShape' /\ host = "closed"
           /\ op.e \in Epochs /\ \A x \in Epochs \ {op.e} : ~Unfinished(x)
<1>1. host = "closed" /\ mig.st \notin {"dir", "intent"}
    BY DEF StInv, StartShape, MigShape
<1> QED
    BY <1>1 DEF StInv, OpShape, StartShape, MigShape, MigSteps

\* Without an operation nothing is said of one.
LEMMA IdleIsShaped ==
    ASSUME op' = IdleOp
    PROVE  OpShape'
BY DEF OpShape, IdleOp

\* A step of the operation, told by what it writes: the shapes follow.
LEMMA OpWrites ==
    ASSUME StInv, op.pc # "idle", Keeping, NEW r \in EpochForms, SetEpoch(op.e, r) \/ (UNCHANGED ep /\ r = ep[op.e]),
           main' \in [Stores -> Files], wal' \subseteq Stores, op' \in OpForms, op'.e = op.e \/ op' = IdleOp,
           \A s \in Stores : (main'[s].f = "none") <=> (main'[s].v = 0),
           \A s \in Stores : (r.rb[s].f = "none") <=> (r.rb[s].v = 0),
           r.dir /\ r.marker = "none" =>
               \A s \in Stores :
                   \/ r.rb[s].f = "none" /\ main'[s].f = "live"
                   \/ r.rb[s].f = "live" /\ main'[s].f # "live"
                   \/ r.rb[s].f = "none" /\ main'[s].f = "none" /\ s \in r.lost,
           \A s \in r.lost : main'[s].f = "none" /\ r.rb[s].f = "none",
           r.lost # {} => r.lost # Stores /\ r.dir /\ r.marker = "none" /\ op'.pc \in {"idle", "undo"},
           r.left => r.marker \in {"committed", "torn"},
           AllLive' \/ r.left \/ (r.dir /\ r.marker = "none") \/ Pair'
    PROVE  /\ StTypes' /\ FileShape' /\ EpochShape' /\ PairShape' /\ LostShape' /\ StartShape' /\ MigShape'
           /\ ep'[op.e] = r /\ op.e \in Epochs /\ \A x \in Epochs \ {op.e} : ~Unfinished(x)'
<1>1. /\ StartShape' /\ MigShape' /\ host = "closed" /\ op.e \in Epochs /\ \A x \in Epochs \ {op.e} : ~Unfinished(x)
      /\ UNCHANGED <<mig, bk, app, busy, newer, host>>
    BY OpFrame DEF Keeping, StInv, StartShape
<1>2. ep' \in [Epochs -> EpochForms] /\ ep'[op.e] = r /\ \A x \in Epochs \ {op.e} : ep'[x] = ep[x]
  <2>1. CASE SetEpoch(op.e, r)
      BY <2>1, <1>1, EpochSet DEF StInv
  <2>2. CASE UNCHANGED ep /\ r = ep[op.e]
      BY <2>2, <1>1 DEF StInv, StTypes
  <2> QED
      BY <2>1, <2>2
<1>3. StTypes'
    BY <1>1, <1>2 DEF StInv, StTypes
<1>4. FileShape'
    BY <1>1, <1>2 DEF StInv, FileShape
<1>5. PICK e \in Epochs : e = op.e
    BY <1>1
<1>6. EpochShape' /\ \A x \in Epochs \ {e} : ~Unfinished(x)'
  <2>1. Unfinished(e)' => AsideShape(e)'
      BY <1>2, <1>5 DEF Unfinished, AsideShape
  <2> QED
      BY <1>1, <1>2, <1>5, <2>1, OneEpoch DEF StInv
<1>7. PairShape'
  <2>1. CASE AllLive'
      BY <2>1, LiveIsPair
  <2>2. CASE r.left \/ (r.dir /\ r.marker = "none")
      BY <2>2, <1>1, <1>2, UnfinishedIsNoPair DEF Unfinished
  <2>3. CASE Pair'
      BY <2>3 DEF PairShape
  <2> QED
      BY <2>1, <2>2, <2>3
<1>8. LostShape'
  <2>1. op'.pc = "idle" \/ (op'.pc \in OpSteps /\ op'.e = e)
      BY <1>5 DEF OpForms, IdleOp
  <2>2. \A x \in Epochs \ {e} : ~Lost(x)' /\ ~Unfinished(x)'
      BY <1>2, <1>5, <1>6 DEF StInv, LostShape, Lost
  <2>3. CASE r.lost = {}
    <3>1. \A x \in Epochs : ~Lost(x)'
        BY <1>2, <1>5, <2>2, <2>3 DEF Lost
    <3> QED
        BY <3>1 DEF LostShape, Lost
  <2>4. CASE r.lost # {}
    <3>1. ep'[e] = r /\ r.lost # Stores /\ r.dir /\ r.marker = "none" /\ op'.pc \in {"idle", "undo"}
        BY <1>2, <1>5, <2>4
    <3>2. Unfinished(e)' /\ AsideShape(e)'
        BY <1>6, <3>1 DEF Unfinished, EpochShape
    <3>3. host' = "closed" /\ mig'.st \notin {"dir", "intent"}
        BY <1>1 DEF StInv, MigShape
    <3>5. \A t \in r.lost : main'[t].f = "none" /\ r.rb[t].f = "none"
        OBVIOUS
    <3>6. \A x \in Epochs : Lost(x)' \/ Unfinished(x)' => x = e
        BY <2>2
    <3>7. \A x \in Epochs : x # e => ep'[x].lost = {}
        BY <2>2 DEF Lost
    <3>8. \A x \in Epochs : \A t \in ep'[x].lost : main'[t].f = "none" /\ ep'[x].rb[t].f = "none"
        BY <3>1, <3>5, <3>7
    <3> QED
        BY <2>1, <3>1, <3>2, <3>3, <3>6, <3>8 DEF LostShape
  <2> QED
      BY <2>3, <2>4
<1> QED
    BY <1>1, <1>2, <1>3, <1>4, <1>5, <1>6, <1>7, <1>8

\* What is known when an operation stands at a step.
LEMMA OpStands ==
    ASSUME StInv, op.pc # "idle"
    PROVE  /\ op.e \in Epochs /\ ep[op.e] \in EpochForms /\ op \in OpForms /\ op.swapped \subseteq Stores
           /\ main \in [Stores -> Files] /\ wal \subseteq Stores
           /\ \A s \in Stores : (main[s].f = "none") <=> (main[s].v = 0)
           /\ \A s \in Stores : (ep[op.e].rb[s].f = "none") <=> (ep[op.e].rb[s].v = 0)
           /\ Unfinished(op.e) => AsideShape(op.e)
           /\ ep[op.e].left => ep[op.e].marker \in {"committed", "torn"}
           /\ op.pc # "undo" => ep[op.e].lost = {}
           /\ \A s \in ep[op.e].lost : main[s].f = "none" /\ ep[op.e].rb[s].f = "none"
           /\ ep[op.e].lost # {} => ep[op.e].lost # Stores /\ Unfinished(op.e)
<1>1. op.e \in Epochs
    BY DEF StInv, OpShape
<1> QED
    BY <1>1, EpochFields DEF StInv, StTypes, FileShape, EpochShape, OpForms, LostShape, Lost

\* What is known before the swap, and what an epoch is then left as.
LEMMA BeforeSwap ==
    ASSUME StInv, op.pc \in {"plan", "prepare", "intent"}
    PROVE  /\ AllLive /\ ep[op.e].marker = "none" /\ op.swapped = {} /\ \A s \in Stores : main[s].f = "live"
           /\ \A s \in Stores : ep[op.e].rb[s].f = "none"
           /\ op.pc = "plan" => \A s \in Stores : ep[op.e].temp[s] = "none"
           /\ op.pc # "plan" /\ ep[op.e].k = "restore" => bk.st = "manifest"
           /\ op.pc # "plan" =>
                \A s \in Stores : /\ ep[op.e].temp[s] \in {FormOf(op.e), "none"}
                                  /\ ep[op.e].temp[s] # "none" => (s \in wal => s \in ep[op.e].side)
           /\ op.pc = "intent" => \A s \in Stores : ep[op.e].temp[s] # "none"
BY DEF StInv, OpShape, AllLive, NoFiles

\* What is written before the swap leaves the live pair alone.
LEMMA EarlyWrites ==
    ASSUME StInv, op.pc \in {"plan", "prepare", "intent"}, Keeping, UNCHANGED <<main, wal>>, NEW r \in EpochForms,
           SetEpoch(op.e, r) \/ (UNCHANGED ep /\ r = ep[op.e]), r.rb = ep[op.e].rb, r.marker = ep[op.e].marker,
           r.left = ep[op.e].left, r.lost = ep[op.e].lost, op' \in OpForms, op'.e = op.e \/ op' = IdleOp
    PROVE  /\ StTypes' /\ FileShape' /\ EpochShape' /\ PairShape' /\ LostShape' /\ StartShape' /\ MigShape'
           /\ ep'[op.e] = r /\ op.e \in Epochs /\ \A x \in Epochs \ {op.e} : ~Unfinished(x)'
           /\ AllLive' /\ r.marker = "none" /\ \A s \in Stores : r.rb[s].f = "none"
<1>1. op.pc # "idle" /\ AllLive'
    BY BeforeSwap DEF AllLive
<1>2. /\ main' \in [Stores -> Files] /\ wal' \subseteq Stores
      /\ \A s \in Stores : (main'[s].f = "none") <=> (main'[s].v = 0)
      /\ \A s \in Stores : (r.rb[s].f = "none") <=> (r.rb[s].v = 0)
      /\ r.left => r.marker \in {"committed", "torn"}
    BY <1>1, OpStands
<1>3. /\ \A s \in Stores : r.rb[s].f = "none" /\ main'[s].f = "live"
      /\ r.marker = "none" /\ r.lost = {}
    BY BeforeSwap, OpStands
<1> QED
    BY <1>1, <1>2, <1>3, OpWrites

\* A restore is refused, or gets its directory.
LEMMA PlanRestoreInv ==
    ASSUME StInv, PlanRestore
    PROVE  StInv'
<1> DEFINE e == op.e
           r == [ep[e] EXCEPT !.dir = TRUE]
<1>1. op.pc = "plan" /\ ep[e].k = "restore" /\ Keeping /\ UNCHANGED <<main, wal>>
    BY DEF PlanRestore, InOp
<1>2. ep[e] \in EpochForms /\ op \in OpForms
    BY <1>1, OpStands
<1>3. CASE op' = IdleOp /\ UNCHANGED ep
    BY <1>1, <1>2, <1>3, StConstants, EarlyWrites, IdleIsShaped DEF StInv
<1>4. CASE op' = [op EXCEPT !.pc = "prepare"] /\ SetEpoch(e, r) /\ bk.st = "manifest"
  <2>1. /\ r \in EpochForms /\ r.rb = ep[e].rb /\ r.marker = ep[e].marker /\ r.left = ep[e].left /\ r.lost = ep[e].lost
        /\ r.temp = ep[e].temp /\ r.k = ep[e].k
      BY <1>2 DEF EpochForms
  <2>2. op' \in OpForms /\ op'.pc = "prepare" /\ op'.e = e /\ op'.swapped = op.swapped
      BY <1>2, <1>4 DEF OpForms, OpSteps
  <2> HIDE DEF r
  <2>3. /\ StTypes' /\ FileShape' /\ EpochShape' /\ PairShape' /\ LostShape' /\ StartShape' /\ MigShape'
        /\ ep'[e] = r /\ e \in Epochs /\ \A x \in Epochs \ {e} : ~Unfinished(x)'
        /\ AllLive' /\ r.marker = "none" /\ \A s \in Stores : r.rb[s].f = "none"
      BY <1>1, <1>4, <2>1, <2>2, EarlyWrites
  <2>4. bk' = bk /\ \A s \in Stores : r.temp[s] = "none"
      BY <1>1, <2>1, BeforeSwap DEF Keeping
  <2>5. OpShape'
      BY <1>1, <1>4, <2>1, <2>2, <2>3, <2>4, BeforeSwap DEF OpShape
  <2> QED
      BY <2>3, <2>5 DEF StInv
<1> QED
    BY <1>3, <1>4 DEF PlanRestore, Quit

\* A compaction goes on to its files.
LEMMA PlanCompactionInv ==
    ASSUME StInv, PlanCompaction
    PROVE  StInv'
<1> DEFINE e == op.e
           r == ep[e]
<1>1. op.pc = "plan" /\ ep[e].k = "compaction" /\ Keeping /\ UNCHANGED <<main, wal, ep>>
      /\ op' = [op EXCEPT !.pc = "prepare"]
    BY DEF PlanCompaction, InOp, fileVars
<1>2. r \in EpochForms /\ op \in OpForms
    BY <1>1, OpStands
<1>3. op' \in OpForms /\ op'.pc = "prepare" /\ op'.e = e /\ op'.swapped = op.swapped
    BY <1>1, <1>2 DEF OpForms, OpSteps
<1>4. /\ StTypes' /\ FileShape' /\ EpochShape' /\ PairShape' /\ LostShape' /\ StartShape' /\ MigShape'
      /\ ep'[e] = r /\ e \in Epochs /\ \A x \in Epochs \ {e} : ~Unfinished(x)'
      /\ AllLive' /\ r.marker = "none" /\ \A s \in Stores : r.rb[s].f = "none"
    BY <1>1, <1>2, <1>3, EarlyWrites
<1>5. OpShape'
    BY <1>1, <1>3, <1>4, BeforeSwap DEF OpShape
<1> QED
    BY <1>4, <1>5 DEF StInv

\* One store more is copied.
LEMMA PrepareAsInv ==
    ASSUME StInv, op.pc = "prepare", NEW s \in Stores, NEW f \in {"bak", "vac"}, f = FormOf(op.e),
           s \notin Prepared, PrepareAs(s, f), Keeping, UNCHANGED <<main, wal>>
    PROVE  StInv'
<1> DEFINE e == op.e
           r == [ep[e] EXCEPT !.temp[s] = f, !.side = IF s \in wal THEN @ \cup {s} ELSE @]
<1>2. ep[e] \in EpochForms /\ op \in OpForms /\ e \in Epochs
    BY OpStands
<1>3. /\ r \in EpochForms /\ r.rb = ep[e].rb /\ r.marker = ep[e].marker /\ r.left = ep[e].left /\ r.lost = ep[e].lost
      /\ r.temp = [ep[e].temp EXCEPT ![s] = f] /\ r.k = ep[e].k /\ ep[e].side \subseteq r.side
      /\ s \in wal => s \in r.side
  <2>1. [ep[e].temp EXCEPT ![s] = f] \in [Stores -> {"none", "bak", "vac"}]
        /\ (IF s \in wal THEN ep[e].side \cup {s} ELSE ep[e].side) \in SUBSET Stores
      BY <1>2 DEF EpochForms
  <2> QED
      BY <1>2, <2>1 DEF EpochForms
<1>4. /\ op' \in OpForms /\ op'.e = e /\ op'.swapped = op.swapped
      /\ op'.pc = IF Prepared \cup {s} = Stores THEN "intent" ELSE "prepare"
    BY <1>2 DEF PrepareAs, OpForms, OpSteps
<1>5. SetEpoch(e, r) /\ ep[e].temp \in [Stores -> {"none", "bak", "vac"}]
    BY <1>2, EpochFields DEF PrepareAs, StInv
<1> HIDE DEF r
<1>6. /\ StTypes' /\ FileShape' /\ EpochShape' /\ PairShape' /\ LostShape' /\ StartShape' /\ MigShape'
      /\ ep'[e] = r /\ e \in Epochs /\ \A x \in Epochs \ {e} : ~Unfinished(x)'
      /\ AllLive' /\ r.marker = "none" /\ \A t \in Stores : r.rb[t].f = "none"
    BY <1>3, <1>4, <1>5, EarlyWrites
<1>7. \A t \in Stores : /\ r.temp[t] \in {f, "none"}
                        /\ r.temp[t] # "none" => (t \in wal => t \in r.side)
    BY <1>3, <1>5, BeforeSwap
<1>8. op'.pc = "intent" => \A t \in Stores : r.temp[t] # "none"
    BY <1>3, <1>4, <1>5 DEF Prepared
<1>9. OpShape'
  <2>1. op.swapped = {} /\ (ep[e].k = "restore" => bk.st = "manifest") /\ bk' = bk /\ wal' = wal
      BY BeforeSwap DEF Keeping
  <2>2. FormOf(e)' = f
      BY <1>2, <1>3, <1>4, <1>6 DEF FormOf
  <2>3. op'.pc \in {"prepare", "intent"} /\ op'.e = e /\ op'.swapped = {}
      BY <1>4, <2>1
  <2>4. /\ ep'[op'.e] = r /\ op'.swapped = {} /\ op'.e \in Epochs /\ r.marker = "none"
        /\ \A x \in Epochs \ {op'.e} : ~Unfinished(x)'
        /\ r.k = "restore" => bk'.st = "manifest"
        /\ \A t \in Stores : /\ r.temp[t] \in {f, "none"}
                               /\ r.temp[t] # "none" => (t \in wal' => t \in r.side)
      BY <1>3, <1>4, <1>6, <1>7, <2>1, <2>2, <2>3
  <2> QED
    <3>1. op'.pc # "idle" => op'.e \in Epochs /\ \A x \in Epochs \ {op'.e} : ~Unfinished(x)'
        BY <2>4
    <3>2. AllLive' /\ ep'[op'.e].marker = "none" /\ op'.swapped = {}
        BY <1>6, <2>4
    <3>3. \A t \in Stores : ep'[op'.e].rb[t].f = "none"
        BY <1>6, <2>4
    <3>4. ep'[op'.e].k = "restore" => bk'.st = "manifest"
        BY <2>4
    <3>5. ASSUME NEW t \in Stores \ op'.swapped
          PROVE  /\ ep'[op'.e].temp[t] \in {f, "none"}
                 /\ ep'[op'.e].temp[t] # "none" => (t \in wal' => t \in ep'[op'.e].side)
      <4>1. ep'[op'.e] = r
          BY <2>4
      <4>2. /\ r.temp[t] \in {f, "none"}
            /\ r.temp[t] # "none" => (t \in wal' => t \in r.side)
          BY <1>7, <2>1
      <4> QED
          BY <4>1, <4>2
    <3>6. op'.pc \in {"intent", "swap"} => \A t \in Stores \ op'.swapped : ep'[op'.e].temp[t] # "none"
        BY <1>8, <2>3, <2>4
    <3> QED
        BY <2>2, <2>3, <3>1, <3>2, <3>3, <3>4, <3>5, <3>6 DEF OpShape
<1> QED
    BY <1>6, <1>9 DEF StInv

\* A file of the backup set is copied.
LEMMA PrepareRestoreFileInv ==
    ASSUME StInv, NEW s \in Stores, PrepareRestoreFile(s)
    PROVE  StInv'
BY PrepareAsInv DEF PrepareRestoreFile, InOp, FormOf

\* A file is compacted.
LEMMA PrepareCompactionFileInv ==
    ASSUME StInv, NEW s \in Stores, PrepareCompactionFile(s)
    PROVE  StInv'
BY PrepareAsInv DEF PrepareCompactionFile, InOp, FormOf

\* A copy that fails takes the copies away.
LEMMA PrepareFailsInv ==
    ASSUME StInv, PrepareFails
    PROVE  StInv'
<1> DEFINE e == op.e
           r == [ep[e] EXCEPT !.temp = NoFiles]
<1>1. op.pc = "prepare" /\ Keeping /\ UNCHANGED <<main, wal>> /\ SetEpoch(e, r) /\ op' = IdleOp
    BY DEF PrepareFails, InOp, Quit
<1>2. ep[e] \in EpochForms
    BY <1>1, OpStands
<1>3. r \in EpochForms /\ r.rb = ep[e].rb /\ r.marker = ep[e].marker /\ r.left = ep[e].left /\ r.lost = ep[e].lost
    BY <1>2, StConstants DEF EpochForms
<1> HIDE DEF r
<1>4. StTypes' /\ FileShape' /\ EpochShape' /\ PairShape' /\ LostShape' /\ StartShape' /\ MigShape'
    BY <1>1, <1>3, EarlyWrites, StConstants
<1> QED
    BY <1>1, <1>4, IdleIsShaped DEF StInv

\* From its intent on the epoch is unfinished.
LEMMA WriteIntentInv ==
    ASSUME StInv, WriteIntent
    PROVE  StInv'
<1> DEFINE e == op.e
           r == [ep[e] EXCEPT !.dir = TRUE, !.intent = "ok"]
<1>1. op.pc = "intent" /\ Keeping /\ UNCHANGED <<main, wal>> /\ SetEpoch(e, r) /\ op' = [op EXCEPT !.pc = "swap"]
    BY DEF WriteIntent, InOp
<1>2. ep[e] \in EpochForms /\ op \in OpForms /\ e \in Epochs
    BY <1>1, OpStands
<1>3. /\ r \in EpochForms /\ r.rb = ep[e].rb /\ r.marker = ep[e].marker /\ r.left = ep[e].left /\ r.lost = ep[e].lost
      /\ r.temp = ep[e].temp /\ r.k = ep[e].k /\ r.side = ep[e].side /\ r.dir
    BY <1>2 DEF EpochForms
<1>4. op' \in OpForms /\ op'.pc = "swap" /\ op'.e = e /\ op'.swapped = op.swapped
    BY <1>1, <1>2 DEF OpForms, OpSteps
<1> HIDE DEF r
<1>5. /\ StTypes' /\ FileShape' /\ EpochShape' /\ PairShape' /\ LostShape' /\ StartShape' /\ MigShape'
      /\ ep'[e] = r /\ e \in Epochs /\ \A x \in Epochs \ {e} : ~Unfinished(x)'
      /\ AllLive' /\ r.marker = "none" /\ \A s \in Stores : r.rb[s].f = "none"
    BY <1>1, <1>3, <1>4, EarlyWrites
<1>6. OpShape'
  <2>1. /\ op.swapped = {} /\ (ep[e].k = "restore" => bk.st = "manifest") /\ bk' = bk /\ wal' = wal
        /\ \A s \in Stores : /\ ep[e].temp[s] \in {FormOf(e), "none"} /\ ep[e].temp[s] # "none"
                             /\ s \in wal => s \in ep[e].side
      BY <1>1, BeforeSwap DEF Keeping
  <2>2. FormOf(e)' = FormOf(e) /\ Unfinished(e)' /\ \A s \in Stores : main'[s].f = "live"
      BY <1>3, <1>4, <1>5 DEF FormOf, Unfinished, AllLive
  <2>3. Stores # {}
      BY DEF Stores
  <2> QED
      BY <1>3, <1>4, <1>5, <2>1, <2>2, <2>3 DEF OpShape
<1> QED
    BY <1>5, <1>6 DEF StInv

\* What is known during the swap.
LEMMA DuringSwap ==
    ASSUME StInv, op.pc \in {"swap", "commit"}
    PROVE  /\ ep[op.e].dir /\ ep[op.e].marker = "none" /\ AsideShape(op.e) /\ ep[op.e].lost = {}
           /\ op.swapped \in {{}, {"catalog"}, Stores} /\ ((op.pc = "commit") <=> (op.swapped = Stores))
           /\ ep[op.e].k = "restore" => bk.st = "manifest"
           /\ \A s \in op.swapped : main[s].f = FormOf(op.e) /\ ep[op.e].rb[s].f = "live" /\ s \notin wal
           /\ \A s \in Stores \ op.swapped :
                /\ main[s].f \in {"live", "none"} /\ ep[op.e].temp[s] \in {FormOf(op.e), "none"}
                /\ ep[op.e].temp[s] # "none" => (s \in wal => s \in ep[op.e].side)
                /\ op.pc = "swap" => ep[op.e].temp[s] # "none"
<1>1. op.pc # "idle" /\ OpShape
    BY DEF StInv
<1>2. Unfinished(op.e) /\ AsideShape(op.e) /\ ep[op.e].lost = {}
    BY <1>1, OpStands DEF OpShape
<1> QED
    BY <1>1, <1>2 DEF OpShape, Unfinished

\* What is written during the swap: the epoch stays unfinished.
LEMMA SwapWrites ==
    ASSUME StInv, op.pc = "swap", Keeping, NEW r \in EpochForms, SetEpoch(op.e, r),
           r.dir = ep[op.e].dir, r.marker = ep[op.e].marker, r.left = ep[op.e].left, r.lost = ep[op.e].lost,
           main' \in [Stores -> Files], wal' \subseteq Stores, op' \in OpForms, op'.e = op.e,
           \A s \in Stores : (main'[s].f = "none") <=> (main'[s].v = 0),
           \A s \in Stores : (r.rb[s].f = "none") <=> (r.rb[s].v = 0),
           \A s \in Stores : \/ r.rb[s].f = "none" /\ main'[s].f = "live"
                             \/ r.rb[s].f = "live" /\ main'[s].f # "live"
    PROVE  /\ StTypes' /\ FileShape' /\ EpochShape' /\ PairShape' /\ LostShape' /\ StartShape' /\ MigShape'
           /\ ep'[op.e] = r /\ op.e \in Epochs /\ \A x \in Epochs \ {op.e} : ~Unfinished(x)'
           /\ r.dir /\ r.marker = "none"
<1>1. op.pc # "idle" /\ r.dir /\ r.marker = "none" /\ r.lost = {}
    BY DuringSwap
<1>2. r.left => r.marker \in {"committed", "torn"}
    BY <1>1, OpStands
<1> QED
    BY <1>1, <1>2, OpWrites

\* The store at which the swap stands.
LEMMA SwappingIs ==
    ASSUME StInv, op.pc = "swap"
    PROVE  Swapping \in Stores \ op.swapped /\ op.swapped \in {{}, {"catalog"}}
           /\ (op.swapped \cup {Swapping} = Stores \/ op.swapped \cup {Swapping} = {"catalog"})
BY DuringSwap DEF Swapping, Stores

\* The operation's shape during the swap, from what a step leaves.
LEMMA SwapShape ==
    ASSUME op'.pc \in {"swap", "commit"}, op'.e \in Epochs, \A x \in Epochs \ {op'.e} : ~Unfinished(x)',
           ep'[op'.e].dir, ep'[op'.e].marker = "none", op'.swapped \in {{}, {"catalog"}, Stores},
           (op'.pc = "commit") <=> (op'.swapped = Stores), NEW f, f = IF ep'[op'.e].k = "restore" THEN "bak" ELSE "vac",
           ep'[op'.e].k = "restore" => bk'.st = "manifest",
           \A s \in op'.swapped : main'[s].f = f /\ ep'[op'.e].rb[s].f = "live" /\ s \notin wal',
           \A s \in Stores \ op'.swapped :
                /\ main'[s].f \in {"live", "none"} /\ ep'[op'.e].temp[s] \in {f, "none"}
                /\ ep'[op'.e].temp[s] # "none" => (s \in wal' => s \in ep'[op'.e].side)
                /\ op'.pc = "swap" => ep'[op'.e].temp[s] # "none"
    PROVE  OpShape'
<1>1. FormOf(op.e)' = f
    BY DEF FormOf
<1>2. Unfinished(op.e)'
    BY DEF Unfinished
<1> QED
    BY <1>1, <1>2 DEF OpShape

\* The live file is put aside.
LEMMA PutAsideInv ==
    ASSUME StInv, NEW s \in Stores, PutAside(s)
    PROVE  StInv'
<1> DEFINE e == op.e
           r == [ep[e] EXCEPT !.rb[s] = main[s]]
<1>1. /\ op.pc = "swap" /\ s = Swapping /\ main[s].f # "none" /\ ep[e].rb[s].f = "none" /\ Keeping
      /\ main' = [main EXCEPT ![s] = Absent] /\ SetEpoch(e, r) /\ UNCHANGED <<wal, op>>
    BY DEF PutAside, InOp
<1>2. /\ ep[e] \in EpochForms /\ op \in OpForms /\ main \in [Stores -> Files] /\ wal \subseteq Stores
      /\ \A t \in Stores : (main[t].f = "none") <=> (main[t].v = 0)
      /\ \A t \in Stores : (ep[e].rb[t].f = "none") <=> (ep[e].rb[t].v = 0)
    BY <1>1, OpStands
<1>3. main[s].f = "live" /\ main[s] \in OldFiles /\ s \notin op.swapped
  <2>1. main[s].f = "live" /\ s \notin op.swapped
      BY <1>1, SwappingIs, DuringSwap
  <2> QED
      BY <1>2, <2>1 DEF Files, OldFiles
<1>4. ep[e].rb \in [Stores -> OldFiles] /\ [ep[e].rb EXCEPT ![s] = main[s]] \in [Stores -> OldFiles]
    BY <1>2, <1>3 DEF EpochForms
<1>5. /\ r \in EpochForms /\ r.rb = [ep[e].rb EXCEPT ![s] = main[s]] /\ r.marker = ep[e].marker /\ r.left = ep[e].left /\ r.lost = ep[e].lost
      /\ r.temp = ep[e].temp /\ r.k = ep[e].k /\ r.side = ep[e].side /\ r.dir = ep[e].dir
    BY <1>2, <1>4 DEF EpochForms
<1> HIDE DEF r
<1>6. main' \in [Stores -> Files] /\ main'[s].f = "none" /\ main'[s].v = 0
      /\ \A t \in Stores \ {s} : main'[t] = main[t]
    BY <1>1, <1>2, StConstants DEF Absent
<1>7. /\ r.rb[s] = main[s] /\ \A t \in Stores \ {s} : r.rb[t] = ep[e].rb[t]
    BY <1>4, <1>5
<1>8. /\ \A t \in Stores : \/ r.rb[t].f = "none" /\ main'[t].f = "live"
                           \/ r.rb[t].f = "live" /\ main'[t].f # "live"
      /\ \A t \in Stores : (main'[t].f = "none") <=> (main'[t].v = 0)
      /\ \A t \in Stores : (r.rb[t].f = "none") <=> (r.rb[t].v = 0)
  <2>1. AsideShape(e) /\ ep[e].lost = {}
      BY <1>1, DuringSwap
  <2> QED
      BY <1>2, <1>3, <1>6, <1>7, <2>1 DEF AsideShape
<1>9. /\ StTypes' /\ FileShape' /\ EpochShape' /\ PairShape' /\ LostShape' /\ StartShape' /\ MigShape'
      /\ ep'[e] = r /\ e \in Epochs /\ \A x \in Epochs \ {e} : ~Unfinished(x)'
      /\ r.dir /\ r.marker = "none"
    BY <1>1, <1>2, <1>5, <1>6, <1>8, SwapWrites
<1>10. OpShape'
  <2>1. op' = op /\ bk' = bk /\ wal' = wal
      BY <1>1 DEF Keeping
  <2>2. /\ \A t \in op.swapped : main'[t] = main[t] /\ r.rb[t] = ep[e].rb[t]
        /\ \A t \in Stores : main'[t].f \in {main[t].f, "none"}
      BY <1>3, <1>6, <1>7, SwappingIs, <1>1, OpStands
  <2>3. FormOf(e) = IF r.k = "restore" THEN "bak" ELSE "vac"
      BY <1>5 DEF FormOf
  <2>4. /\ op.swapped \in {{}, {"catalog"}, Stores} /\ ((op.pc = "commit") <=> (op.swapped = Stores))
        /\ r.k = "restore" => bk'.st = "manifest"
      BY <1>1, <1>5, <2>1, DuringSwap
  <2>5. \A t \in op.swapped : main'[t].f = FormOf(e) /\ r.rb[t].f = "live" /\ t \notin wal'
      BY <1>1, <2>1, <2>2, DuringSwap
  <2>6. \A t \in Stores \ op.swapped :
                /\ main'[t].f \in {"live", "none"} /\ r.temp[t] \in {FormOf(e), "none"}
                /\ r.temp[t] # "none" => (t \in wal' => t \in r.side)
                /\ op.pc = "swap" => r.temp[t] # "none"
      BY <1>1, <1>5, <2>1, <2>2, DuringSwap
  <2> QED
      BY <1>1, <1>9, <2>1, <2>3, <2>4, <2>5, <2>6, SwapShape
<1> QED
    BY <1>9, <1>10 DEF StInv

\* Its sidecar is put aside.
LEMMA PutSidecarAsideInv ==
    ASSUME StInv, NEW s \in Stores, PutSidecarAside(s)
    PROVE  StInv'
<1> DEFINE e == op.e
           r == [ep[e] EXCEPT !.walrb = @ \cup {s}]
<1>1. /\ op.pc = "swap" /\ s = Swapping /\ Keeping /\ wal' = wal \ {s} /\ SetEpoch(e, r) /\ UNCHANGED <<main, op>>
    BY DEF PutSidecarAside, InOp
<1>2. /\ ep[e] \in EpochForms /\ op \in OpForms /\ main \in [Stores -> Files] /\ wal \subseteq Stores
      /\ \A t \in Stores : (main[t].f = "none") <=> (main[t].v = 0)
      /\ \A t \in Stores : (ep[e].rb[t].f = "none") <=> (ep[e].rb[t].v = 0)
    BY <1>1, OpStands
<1>5. /\ r \in EpochForms /\ r.rb = ep[e].rb /\ r.marker = ep[e].marker /\ r.left = ep[e].left /\ r.lost = ep[e].lost
      /\ r.temp = ep[e].temp /\ r.k = ep[e].k /\ r.side = ep[e].side /\ r.dir = ep[e].dir
    BY <1>2 DEF EpochForms
<1> HIDE DEF r
<1>8. \A t \in Stores : \/ r.rb[t].f = "none" /\ main'[t].f = "live"
                        \/ r.rb[t].f = "live" /\ main'[t].f # "live"
    BY <1>1, <1>5, DuringSwap DEF AsideShape
<1>9. /\ StTypes' /\ FileShape' /\ EpochShape' /\ PairShape' /\ LostShape' /\ StartShape' /\ MigShape'
      /\ ep'[e] = r /\ e \in Epochs /\ \A x \in Epochs \ {e} : ~Unfinished(x)'
      /\ r.dir /\ r.marker = "none"
  <2>1. /\ main' \in [Stores -> Files] /\ wal' \subseteq Stores /\ op' \in OpForms /\ op'.e = op.e
        /\ \A t \in Stores : (main'[t].f = "none") <=> (main'[t].v = 0)
        /\ \A t \in Stores : (r.rb[t].f = "none") <=> (r.rb[t].v = 0)
      BY <1>1, <1>2, <1>5
  <2> QED
      BY <1>1, <1>5, <1>8, <2>1, SwapWrites
<1>10. OpShape'
  <2>1. op' = op /\ bk' = bk /\ main' = main
      BY <1>1 DEF Keeping
  <2>3. FormOf(e) = IF r.k = "restore" THEN "bak" ELSE "vac"
      BY <1>5 DEF FormOf
  <2>4. /\ op.swapped \in {{}, {"catalog"}, Stores} /\ ((op.pc = "commit") <=> (op.swapped = Stores))
        /\ r.k = "restore" => bk'.st = "manifest"
      BY <1>1, <1>5, <2>1, DuringSwap
  <2>5. \A t \in op.swapped : main'[t].f = FormOf(e) /\ r.rb[t].f = "live" /\ t \notin wal'
      BY <1>1, <1>5, <2>1, DuringSwap
  <2>6. \A t \in Stores \ op.swapped :
                /\ main'[t].f \in {"live", "none"} /\ r.temp[t] \in {FormOf(e), "none"}
                /\ r.temp[t] # "none" => (t \in wal' => t \in r.side)
                /\ op.pc = "swap" => r.temp[t] # "none"
      BY <1>1, <1>5, <2>1, DuringSwap
  <2> QED
      BY <1>1, <1>9, <2>1, <2>3, <2>4, <2>5, <2>6, SwapShape
<1> QED
    BY <1>9, <1>10 DEF StInv

\* The new file takes the name; its version is that of the backup set or of the file it replaces.
LEMMA TakeNameInv ==
    ASSUME StInv, op.pc = "swap", NEW s \in Stores, s = Swapping, ep[op.e].rb[s].f # "none",
           s \notin wal \cap ep[op.e].side, TakeName(s), Keeping, UNCHANGED wal
    PROVE  StInv'
<1> DEFINE e == op.e
           f == ep[e].temp[s]
           n == [f |-> f, v |-> VersionOf(f, s)]
           r == [ep[e] EXCEPT !.temp[s] = "none"]
<1>1. /\ main' = [main EXCEPT ![s] = n] /\ SetEpoch(e, r)
      /\ op' = [op EXCEPT !.swapped = @ \cup {s}, !.pc = IF op.swapped \cup {s} = Stores THEN "commit" ELSE "swap"]
    BY DEF TakeName
<1>2. /\ ep[e] \in EpochForms /\ op \in OpForms /\ main \in [Stores -> Files] /\ wal \subseteq Stores /\ e \in Epochs
      /\ \A t \in Stores : (main[t].f = "none") <=> (main[t].v = 0)
      /\ \A t \in Stores : (ep[e].rb[t].f = "none") <=> (ep[e].rb[t].v = 0)
    BY OpStands
<1>3. /\ f = FormOf(e) /\ f \in {"bak", "vac"} /\ s \notin wal /\ s \notin op.swapped /\ (f = "bak" => bk.st # "none")
      /\ ep[e].rb[s].f = "live"
  <2>1. f = FormOf(e) /\ s \notin wal /\ s \notin op.swapped
      BY SwappingIs, DuringSwap
  <2>2. FormOf(e) \in {"bak", "vac"} /\ (FormOf(e) = "bak" => bk.st # "none")
      BY DuringSwap DEF FormOf
  <2> QED
      BY <1>2, <2>1, <2>2, DuringSwap DEF AsideShape
<1>4. n \in Files /\ n.f = f /\ n.v > 0
  <2>1. VersionOf(f, s) \in Nat /\ VersionOf(f, s) > 0
    <3>1. CASE f = "bak"
        BY <1>3, <3>1, StFields DEF VersionOf, StInv, FileShape
    <3>2. CASE f # "bak"
      <4>1. ep[e].rb[s].v \in Nat /\ ep[e].rb[s].v # 0
          BY <1>2, <1>3, EpochFields DEF StInv
      <4> QED
          BY <3>2, <4>1 DEF VersionOf
    <3> QED
        BY <3>1, <3>2
  <2> QED
      BY <1>3, <2>1 DEF Files, FileForms
<1>5. /\ r \in EpochForms /\ r.rb = ep[e].rb /\ r.marker = ep[e].marker /\ r.left = ep[e].left /\ r.lost = ep[e].lost
      /\ r.temp = [ep[e].temp EXCEPT ![s] = "none"] /\ r.k = ep[e].k /\ r.side = ep[e].side /\ r.dir = ep[e].dir
      /\ ep[e].temp \in [Stores -> {"none", "bak", "vac"}]
  <2>1. [ep[e].temp EXCEPT ![s] = "none"] \in [Stores -> {"none", "bak", "vac"}]
        /\ ep[e].temp \in [Stores -> {"none", "bak", "vac"}]
      BY <1>2 DEF EpochForms
  <2> QED
      BY <1>2, <2>1 DEF EpochForms
<1>6. /\ op' \in OpForms /\ op'.e = e /\ op'.swapped = op.swapped \cup {s}
      /\ op'.pc = IF op.swapped \cup {s} = Stores THEN "commit" ELSE "swap"
    BY <1>1, <1>2 DEF OpForms, OpSteps
<1> HIDE DEF r, n
<1>7. /\ main' \in [Stores -> Files] /\ main'[s] = n /\ \A t \in Stores \ {s} : main'[t] = main[t]
    BY <1>1, <1>2, <1>4
<1>8. /\ \A t \in Stores : \/ r.rb[t].f = "none" /\ main'[t].f = "live"
                           \/ r.rb[t].f = "live" /\ main'[t].f # "live"
      /\ \A t \in Stores : (main'[t].f = "none") <=> (main'[t].v = 0)
      /\ \A t \in Stores : (r.rb[t].f = "none") <=> (r.rb[t].v = 0)
  <2>1. AsideShape(e) /\ ep[e].lost = {}
      BY DuringSwap
  <2> QED
      BY <1>2, <1>3, <1>4, <1>5, <1>7, <2>1 DEF AsideShape
<1>9. /\ StTypes' /\ FileShape' /\ EpochShape' /\ PairShape' /\ LostShape' /\ StartShape' /\ MigShape'
      /\ ep'[e] = r /\ e \in Epochs /\ \A x \in Epochs \ {e} : ~Unfinished(x)'
      /\ r.dir /\ r.marker = "none"
  <2>1. wal' \subseteq Stores
      BY <1>2
  <2> QED
      BY <1>1, <1>5, <1>6, <1>7, <1>8, <2>1, SwapWrites
<1>10. OpShape'
  <2>1. bk' = bk /\ wal' = wal
      BY DEF Keeping
  <2>2. \A t \in op.swapped : t # s /\ t \in Stores /\ main'[t] = main[t]
      BY <1>2, <1>3, <1>7, OpStands
  <2>3. FormOf(e) = IF r.k = "restore" THEN "bak" ELSE "vac"
      BY <1>5 DEF FormOf
  <2>4. /\ op'.pc \in {"swap", "commit"} /\ op'.swapped \in {{}, {"catalog"}, Stores}
        /\ ((op'.pc = "commit") <=> (op'.swapped = Stores))
        /\ r.k = "restore" => bk'.st = "manifest"
    <3>1. op'.swapped = Stores \/ op'.swapped = {"catalog"}
        BY <1>6, SwappingIs
    <3> QED
        BY <1>5, <1>6, <2>1, <3>1, DuringSwap
  <2>5. \A t \in op'.swapped : main'[t].f = FormOf(e) /\ r.rb[t].f = "live" /\ t \notin wal'
    <3>1. \A t \in op.swapped : main'[t].f = FormOf(e) /\ r.rb[t].f = "live" /\ t \notin wal'
        BY <1>5, <2>1, <2>2, DuringSwap
    <3>2. main'[s].f = FormOf(e) /\ r.rb[s].f = "live" /\ s \notin wal'
        BY <1>3, <1>4, <1>5, <1>7, <2>1
    <3> QED
        BY <1>6, <3>1, <3>2
  <2>6. \A t \in Stores \ op'.swapped :
                /\ main'[t].f \in {"live", "none"} /\ r.temp[t] \in {FormOf(e), "none"}
                /\ r.temp[t] # "none" => (t \in wal' => t \in r.side)
                /\ op'.pc = "swap" => r.temp[t] # "none"
    <3>1. ASSUME NEW t \in Stores \ op'.swapped
          PROVE  /\ main'[t] = main[t] /\ r.temp[t] = ep[e].temp[t] /\ r.side = ep[e].side /\ wal' = wal
                 /\ t \in Stores \ op.swapped
        BY <1>5, <1>6, <1>7, <2>1
    <3> QED
        BY <3>1, DuringSwap
  <2> QED
      BY <1>6, <1>9, <2>3, <2>4, <2>5, <2>6, SwapShape
<1> QED
    BY <1>9, <1>10 DEF StInv

\* A copied file takes the name.
LEMMA SwapRestoreFileInv ==
    ASSUME StInv, NEW s \in Stores, SwapRestoreFile(s)
    PROVE  StInv'
BY TakeNameInv DEF SwapRestoreFile, InOp

\* A compacted file takes the name.
LEMMA SwapCompactionFileInv ==
    ASSUME StInv, NEW s \in Stores, SwapCompactionFile(s)
    PROVE  StInv'
BY TakeNameInv DEF SwapCompactionFile, InOp

\* When both stores are swapped, the pair is the new one.
LEMMA SwappedPair ==
    ASSUME StInv, op.pc = "commit"
    PROVE  /\ main["catalog"].f = main["recovery"].f /\ main["catalog"].f \in {"bak", "vac"} /\ wal = {}
           /\ ep[op.e].dir /\ ep[op.e].marker = "none"
<1>1. op.swapped = Stores /\ \A s \in Stores : main[s].f = FormOf(op.e) /\ s \notin wal
    BY DuringSwap
<1>2. FormOf(op.e) \in {"bak", "vac"} /\ "catalog" \in Stores /\ "recovery" \in Stores /\ wal \subseteq Stores
    BY OpStands DEF FormOf, Stores
<1> QED
    BY <1>1, <1>2, DuringSwap

\* The marker makes the new pair the pair.
LEMMA WriteCommittedInv ==
    ASSUME StInv, WriteCommitted
    PROVE  StInv'
<1> DEFINE e == op.e
           r == [ep[e] EXCEPT !.marker = "committed"]
<1>1. op.pc = "commit" /\ Keeping /\ UNCHANGED <<main, wal>> /\ SetEpoch(e, r) /\ op' = IdleOp
    BY DEF WriteCommitted, InOp, Quit
<1>2. /\ ep[e] \in EpochForms /\ main \in [Stores -> Files] /\ wal \subseteq Stores /\ e \in Epochs
      /\ \A t \in Stores : (main[t].f = "none") <=> (main[t].v = 0)
      /\ \A t \in Stores : (ep[e].rb[t].f = "none") <=> (ep[e].rb[t].v = 0)
    BY <1>1, OpStands
<1>3. /\ r \in EpochForms /\ r.rb = ep[e].rb /\ r.marker = "committed" /\ r.lost = {}
    BY <1>1, <1>2, OpStands DEF EpochForms
<1>4. Pair'
  <2>1. ep'[e].marker = "committed"
      BY <1>1, <1>2, <1>3, EpochSet DEF StInv
  <2> QED
      BY <1>1, <1>2, <2>1, SwappedPair DEF Pair, Evidence
<1> HIDE DEF r
<1>5. StTypes' /\ FileShape' /\ EpochShape' /\ PairShape' /\ LostShape' /\ StartShape' /\ MigShape'
  <2>1. /\ main' \in [Stores -> Files] /\ wal' \subseteq Stores /\ op' \in OpForms /\ op.pc # "idle"
        /\ \A t \in Stores : (main'[t].f = "none") <=> (main'[t].v = 0)
        /\ \A t \in Stores : (r.rb[t].f = "none") <=> (r.rb[t].v = 0)
        /\ r.marker # "none" /\ r.marker \in {"committed", "torn"}
      BY <1>1, <1>2, <1>3, StConstants
  <2> QED
      BY <1>1, <1>3, <1>4, <2>1, OpWrites
<1> QED
    BY <1>1, <1>5, IdleIsShaped DEF StInv

\* A live file that the undoing unlinks: only the file and the record of the loss change.
LEMMA DeletesLiveWrites ==
    ASSUME StInv, NEW s \in Stores, DeletesLive(s)
    PROVE  \E r \in EpochForms :
             /\ SetEpoch(op.e, r) /\ r.rb = ep[op.e].rb /\ r.dir = ep[op.e].dir /\ r.marker = ep[op.e].marker
             /\ r.left = ep[op.e].left /\ r.lost = {s} /\ r.lost # Stores
             /\ main' \in [Stores -> Files] /\ main'[s].f = "none" /\ main'[s].v = 0 /\ ep[op.e].rb[s].f = "none"
             /\ \A t \in Stores \ {s} : main'[t] = main[t]
<1> DEFINE e == op.e
           r == [ep[e] EXCEPT !.lost = @ \cup {s}]
<1>1. /\ op.pc = "swap" /\ main' = [main EXCEPT ![s] = Absent] /\ SetEpoch(e, r) /\ ep[e].rb[s].f = "none"
    BY DEF DeletesLive, InOp
<1>2. ep[e] \in EpochForms /\ ep[e].lost = {} /\ main \in [Stores -> Files]
    BY <1>1, OpStands
<1>3. /\ r \in EpochForms /\ r.rb = ep[e].rb /\ r.dir = ep[e].dir /\ r.marker = ep[e].marker /\ r.left = ep[e].left
      /\ r.lost = {s}
    BY <1>2 DEF EpochForms
<1> HIDE DEF r
<1>4. main' \in [Stores -> Files] /\ main'[s] = Absent /\ \A t \in Stores \ {s} : main'[t] = main[t]
    BY <1>1, <1>2, StConstants
<1>5. {s} # Stores
    BY DEF Stores
<1> QED
    BY <1>1, <1>3, <1>4, <1>5 DEF Absent

\* A swap that fails is undone from where it stands.
LEMMA SwapFailsInv ==
    ASSUME StInv, SwapFails
    PROVE  StInv'
<1> DEFINE e == op.e
<1>1. op.pc \in {"swap", "commit"} /\ Keeping /\ UNCHANGED wal /\ op' = [op EXCEPT !.pc = "undo"]
    BY DEF SwapFails
<1>2. /\ main \in [Stores -> Files] /\ wal \subseteq Stores /\ e \in Epochs /\ op \in OpForms /\ ep[e] \in EpochForms
      /\ \A t \in Stores : (main[t].f = "none") <=> (main[t].v = 0)
      /\ \A t \in Stores : (ep[e].rb[t].f = "none") <=> (ep[e].rb[t].v = 0)
      /\ ep[e].dir /\ ep[e].marker = "none" /\ AsideShape(e) /\ ~ep[e].left /\ ep[e].lost = {}
    BY <1>1, OpStands, DuringSwap
<1>3. PICK r \in EpochForms :
          /\ SetEpoch(e, r) \/ (UNCHANGED ep /\ r = ep[e])
          /\ r.rb = ep[e].rb /\ r.dir = ep[e].dir
          /\ \/ r.marker = "none" /\ r.left = ep[e].left
             \/ r.marker \in {"committed", "torn"} /\ r.left /\ r.lost = {}
          /\ r.lost # Stores /\ \A t \in r.lost : main'[t].f = "none" /\ r.rb[t].f = "none"
          /\ \A t \in Stores : \/ r.rb[t].f = "none" /\ main'[t].f = "live"
                               \/ r.rb[t].f = "live" /\ main'[t].f # "live"
                               \/ r.rb[t].f = "none" /\ main'[t].f = "none" /\ t \in r.lost
          /\ main' \in [Stores -> Files]
          /\ \A t \in Stores : (main'[t].f = "none") <=> (main'[t].v = 0)
  <2>0. Stores # {}
      BY DEF Stores
  <2>1. CASE UNCHANGED <<main, ep>>
    <3>1. main' = main /\ UNCHANGED ep
        BY <2>1
    <3> QED
        BY <1>2, <2>0, <3>1 DEF AsideShape
  <2>2. CASE \E s \in Stores : DeletesLive(s)
    <3>1. PICK s \in Stores : DeletesLive(s)
        BY <2>2
    <3>2. PICK r \in EpochForms :
             /\ SetEpoch(e, r) /\ r.rb = ep[e].rb /\ r.dir = ep[e].dir /\ r.marker = ep[e].marker
             /\ r.left = ep[e].left /\ r.lost = {s} /\ r.lost # Stores
             /\ main' \in [Stores -> Files] /\ main'[s].f = "none" /\ main'[s].v = 0 /\ ep[e].rb[s].f = "none"
             /\ \A t \in Stores \ {s} : main'[t] = main[t]
        BY <3>1, DeletesLiveWrites
    <3>3. \A t \in Stores : (main'[t].f = "none") <=> (main'[t].v = 0)
        BY <1>2, <3>2
    <3>4. \A t \in Stores : \/ r.rb[t].f = "none" /\ main'[t].f = "live"
                            \/ r.rb[t].f = "live" /\ main'[t].f # "live"
                            \/ r.rb[t].f = "none" /\ main'[t].f = "none" /\ t \in r.lost
        BY <1>2, <3>2 DEF AsideShape
    <3>5. \A t \in r.lost : main'[t].f = "none" /\ r.rb[t].f = "none"
        BY <3>2
    <3> QED
        BY <1>2, <3>2, <3>3, <3>4, <3>5
  <2>3. CASE \E m \in {"torn", "committed"} : LeavesMarker(m)
    <3>1. PICK m \in {"torn", "committed"} : LeavesMarker(m)
        BY <2>3
    <3> DEFINE r == [ep[e] EXCEPT !.marker = m, !.left = TRUE]
    <3>2. r \in EpochForms /\ r.rb = ep[e].rb /\ r.dir = ep[e].dir /\ r.marker = m /\ r.left /\ r.lost = {}
        BY <1>2 DEF EpochForms
    <3>3. SetEpoch(e, r) /\ main' = main
        BY <3>1 DEF LeavesMarker
    <3> HIDE DEF r
    <3> QED
        BY <1>2, <2>0, <3>2, <3>3 DEF AsideShape
  <2> QED
      BY <2>1, <2>2, <2>3 DEF SwapFails
<1>4. op' \in OpForms /\ op'.pc = "undo" /\ op'.e = e
    BY <1>1, <1>2 DEF OpForms, OpSteps
<1>6. /\ StTypes' /\ FileShape' /\ EpochShape' /\ PairShape' /\ LostShape' /\ StartShape' /\ MigShape'
      /\ ep'[e] = r /\ \A x \in Epochs \ {e} : ~Unfinished(x)'
  <2>1. /\ op.pc # "idle" /\ wal' \subseteq Stores
        /\ \A t \in Stores : (r.rb[t].f = "none") <=> (r.rb[t].v = 0)
        /\ r.left => r.marker \in {"committed", "torn"}
        /\ r.left \/ (r.dir /\ r.marker = "none")
        /\ r.lost # {} => r.dir /\ r.marker = "none"
      BY <1>1, <1>2, <1>3
  <2> QED
      BY <1>1, <1>3, <1>4, <2>1, OpWrites
<1>7. OpShape'
  <2>1. AsideShape(op.e)'
      BY <1>3, <1>4, <1>6 DEF AsideShape
  <2>2. Unfinished(op.e)' \/ ep'[op'.e].left
      BY <1>2, <1>3, <1>4, <1>6 DEF Unfinished
  <2> QED
      BY <1>2, <1>4, <1>6, <2>1, <2>2 DEF OpShape
<1> QED
    BY <1>6, <1>7 DEF StInv

\* Undoing one store: what was put aside is either aside or in its place.
LEMMA UndoKeepsAside ==
    ASSUME StTypes, FileShape, NEW e \in Epochs, NEW s \in Stores, AsideShape(e),
           \A t \in ep[e].lost : main[t].f = "none" /\ ep[e].rb[t].f = "none",
           UndoMain(e, s) \/ UndoSidecar(e, s)
    PROVE  /\ main' \in [Stores -> Files] /\ wal' \subseteq Stores
           /\ \A t \in Stores : (main'[t].f = "none") <=> (main'[t].v = 0)
           /\ \E r \in EpochForms :
                /\ SetEpoch(e, r) \/ (UNCHANGED ep /\ r = ep[e])
                /\ r.dir = ep[e].dir /\ r.marker = ep[e].marker /\ r.left = ep[e].left /\ r.lost = ep[e].lost /\ r.k = ep[e].k
                /\ \A t \in Stores : (r.rb[t].f = "none") <=> (r.rb[t].v = 0)
                /\ \A t \in r.lost : main'[t].f = "none" /\ r.rb[t].f = "none"
                /\ \A t \in Stores : \/ r.rb[t].f = "none" /\ main'[t].f = "live"
                                     \/ r.rb[t].f = "live" /\ main'[t].f # "live"
                                     \/ r.rb[t].f = "none" /\ main'[t].f = "none" /\ t \in r.lost
<1>1. /\ ep[e] \in EpochForms /\ ep[e].rb \in [Stores -> OldFiles] /\ main \in [Stores -> Files] /\ wal \subseteq Stores
      /\ \A t \in Stores : (main[t].f = "none") <=> (main[t].v = 0)
      /\ \A t \in Stores : (ep[e].rb[t].f = "none") <=> (ep[e].rb[t].v = 0)
      /\ \A t \in Stores : \/ ep[e].rb[t].f = "none" /\ main[t].f = "live"
                           \/ ep[e].rb[t].f = "live" /\ main[t].f # "live"
                           \/ ep[e].rb[t].f = "none" /\ main[t].f = "none" /\ t \in ep[e].lost
      /\ \A t \in ep[e].lost : main[t].f = "none" /\ ep[e].rb[t].f = "none"
    BY EpochFields DEF StTypes, FileShape, AsideShape
<1>2. CASE UndoMain(e, s) /\ main[s].f # "none"
  <2>1. main' = [main EXCEPT ![s] = Absent] /\ UNCHANGED <<ep, wal>> /\ ep[e].rb[s].f = "live"
      BY <1>1, <1>2 DEF UndoMain
  <2>2. main' \in [Stores -> Files] /\ main'[s].f = "none" /\ main'[s].v = 0 /\ \A t \in Stores \ {s} : main'[t] = main[t]
      BY <1>1, <2>1, StConstants DEF Absent
  <2> QED
      BY <1>1, <2>1, <2>2
<1>3. CASE UndoMain(e, s) /\ main[s].f = "none"
  <2> DEFINE r == [ep[e] EXCEPT !.rb[s] = Absent]
  <2>1. main' = [main EXCEPT ![s] = ep[e].rb[s]] /\ UNCHANGED wal /\ SetEpoch(e, r) /\ ep[e].rb[s].f = "live"
      BY <1>1, <1>3 DEF UndoMain
  <2>2. ep[e].rb[s] \in Files
      BY <1>1 DEF OldFiles, Files, FileForms
  <2>3. main' \in [Stores -> Files] /\ main'[s] = ep[e].rb[s] /\ \A t \in Stores \ {s} : main'[t] = main[t]
      BY <1>1, <2>1, <2>2
  <2>4. [ep[e].rb EXCEPT ![s] = Absent] \in [Stores -> OldFiles]
      BY <1>1, StConstants
  <2>5. /\ r \in EpochForms /\ r.rb = [ep[e].rb EXCEPT ![s] = Absent]
        /\ r.dir = ep[e].dir /\ r.marker = ep[e].marker /\ r.left = ep[e].left /\ r.lost = ep[e].lost /\ r.k = ep[e].k
      BY <1>1, <2>4 DEF EpochForms
  <2> HIDE DEF r
  <2>6. r.rb[s].f = "none" /\ r.rb[s].v = 0 /\ \A t \in Stores \ {s} : r.rb[t] = ep[e].rb[t]
      BY <1>1, <2>5 DEF Absent
  <2>7. /\ \A t \in Stores : (main'[t].f = "none") <=> (main'[t].v = 0)
        /\ \A t \in Stores : (r.rb[t].f = "none") <=> (r.rb[t].v = 0)
        /\ \A t \in r.lost : main'[t].f = "none" /\ r.rb[t].f = "none"
        /\ \A t \in Stores : \/ r.rb[t].f = "none" /\ main'[t].f = "live"
                             \/ r.rb[t].f = "live" /\ main'[t].f # "live"
                             \/ r.rb[t].f = "none" /\ main'[t].f = "none" /\ t \in r.lost
    <3>1. r.lost = ep[e].lost /\ \A u \in r.lost : u # s
        BY <1>1, <2>1, <2>5
    <3>2. main'[s].f = "live" /\ main'[s].v # 0
        BY <1>1, <2>1, <2>3
    <3>3. \A u \in r.lost : u \in Stores
        BY <1>1, <3>1, EpochFields
    <3> QED
        BY <1>1, <2>3, <2>6, <3>1, <3>2, <3>3
  <2> QED
      BY <1>1, <2>1, <2>3, <2>5, <2>7
<1>4. CASE UndoSidecar(e, s)
  <2> DEFINE r == [ep[e] EXCEPT !.walrb = @ \ {s}]
  <2>1. wal' = wal \cup {s} /\ SetEpoch(e, r) /\ UNCHANGED main
      BY <1>4 DEF UndoSidecar
  <2>2. /\ r \in EpochForms /\ r.rb = ep[e].rb
        /\ r.dir = ep[e].dir /\ r.marker = ep[e].marker /\ r.left = ep[e].left /\ r.lost = ep[e].lost /\ r.k = ep[e].k
      BY <1>1 DEF EpochForms
  <2> HIDE DEF r
  <2> QED
      BY <1>1, <2>1, <2>2
<1> QED
    BY <1>2, <1>3, <1>4

\* Undoing at once.
LEMMA UndoStepInv ==
    ASSUME StInv, UndoStep
    PROVE  StInv'
<1> DEFINE e == op.e
<1>1. op.pc = "undo" /\ Keeping
    BY DEF UndoStep, InOp
<1>2. /\ op.e \in Epochs /\ op \in OpForms /\ main \in [Stores -> Files] /\ wal \subseteq Stores
      /\ AsideShape(e) /\ (Unfinished(e) \/ ep[e].left) /\ StTypes /\ FileShape
      /\ ep[e].left => ep[e].marker \in {"committed", "torn"}
      /\ ep[e] \in EpochForms /\ (ep[e].lost # {} => ep[e].lost # Stores /\ ep[e].dir /\ ep[e].marker = "none")
      /\ \A t \in ep[e].lost : main[t].f = "none" /\ ep[e].rb[t].f = "none"
      /\ \A t \in Stores : (main[t].f = "none") <=> (main[t].v = 0)
      /\ \A t \in Stores : (ep[e].rb[t].f = "none") <=> (ep[e].rb[t].v = 0)
    BY <1>1, OpStands DEF StInv, OpShape, Unfinished
<1>3. ASSUME NEW s \in Stores, UndoMain(op.e, s) \/ UndoSidecar(op.e, s), UNCHANGED op
      PROVE  StInv'
  <2>1. PICK r \in EpochForms :
                /\ SetEpoch(e, r) \/ (UNCHANGED ep /\ r = ep[e])
                /\ r.dir = ep[e].dir /\ r.marker = ep[e].marker /\ r.left = ep[e].left /\ r.lost = ep[e].lost /\ r.k = ep[e].k
                /\ \A t \in Stores : (r.rb[t].f = "none") <=> (r.rb[t].v = 0)
                /\ \A t \in r.lost : main'[t].f = "none" /\ r.rb[t].f = "none"
                /\ \A t \in Stores : \/ r.rb[t].f = "none" /\ main'[t].f = "live"
                                     \/ r.rb[t].f = "live" /\ main'[t].f # "live"
                                     \/ r.rb[t].f = "none" /\ main'[t].f = "none" /\ t \in r.lost
      BY <1>2, <1>3, UndoKeepsAside
  <2>2. /\ main' \in [Stores -> Files] /\ wal' \subseteq Stores
        /\ \A t \in Stores : (main'[t].f = "none") <=> (main'[t].v = 0)
      BY <1>2, <1>3, UndoKeepsAside
  <2>3. r.left \/ (r.dir /\ r.marker = "none")
      BY <1>2, <2>1 DEF Unfinished
  <2>4. /\ StTypes' /\ FileShape' /\ EpochShape' /\ PairShape' /\ LostShape' /\ StartShape' /\ MigShape'
        /\ ep'[e] = r /\ \A x \in Epochs \ {e} : ~Unfinished(x)'
      BY <1>1, <1>2, <1>3, <2>1, <2>2, <2>3, OpWrites
  <2>5. OpShape'
    <3>1. AsideShape(op.e)'
        BY <1>3, <2>1, <2>4 DEF AsideShape
    <3>2. Unfinished(op.e)' \/ ep'[op'.e].left
        BY <1>3, <2>3, <2>4 DEF Unfinished
    <3> QED
        BY <1>1, <1>2, <1>3, <2>4, <3>1, <3>2 DEF OpShape
  <2> QED
      BY <2>4, <2>5 DEF StInv
<1>4. CASE op' = IdleOp /\ UNCHANGED fileVars
  <2>1. StTypes' /\ FileShape' /\ EpochShape' /\ PairShape' /\ LostShape' /\ StartShape' /\ MigShape'
    <3>1. /\ main' = main /\ wal' = wal /\ ep' = ep /\ op' \in OpForms
          /\ ep[e].left \/ (ep[e].dir /\ ep[e].marker = "none")
        BY <1>2, <1>4, StConstants DEF fileVars, Unfinished
    <3>2. \A t \in Stores : \/ ep[e].rb[t].f = "none" /\ main'[t].f = "live"
                            \/ ep[e].rb[t].f = "live" /\ main'[t].f # "live"
                            \/ ep[e].rb[t].f = "none" /\ main'[t].f = "none" /\ t \in ep[e].lost
        BY <1>2, <3>1 DEF AsideShape
    <3>3. /\ op'.pc = "idle" /\ op.pc # "idle" /\ op' = IdleOp
          /\ \A t \in ep[e].lost : main'[t].f = "none" /\ ep[e].rb[t].f = "none"
          /\ ep[e].lost # {} => ep[e].lost # Stores /\ ep[e].dir /\ ep[e].marker = "none"
          /\ \A t \in Stores : (main'[t].f = "none") <=> (main'[t].v = 0)
          /\ main' \in [Stores -> Files] /\ wal' \subseteq Stores
        BY <1>1, <1>2, <1>4, <3>1 DEF IdleOp
    <3> QED
        BY <1>1, <1>2, <1>4, <3>1, <3>2, <3>3, OpWrites DEF IdleOp
  <2> QED
      BY <1>4, <2>1, IdleIsShaped DEF StInv
<1> QED
    BY <1>3, <1>4 DEF UndoStep, Quit

\* The host rolls an unfinished epoch back: the oldest of its kind.
LEMMA RollBackInv ==
    ASSUME StInv, NEW k \in {"restore", "compaction"}, RollBackEpoch(k), Starting,
           host \in {"restores", "compactions"}
    PROVE  StInv'
<1>1. PICK e \in Epochs :
          /\ ep[e].dir /\ ep[e].marker = "none"
          /\ \/ SetEpoch(e, [ep[e] EXCEPT !.temp = NoFiles]) /\ UNCHANGED <<main, wal>>
             \/ \E s \in Stores : UndoMain(e, s) \/ UndoSidecar(e, s)
             \/ ToUndo(e) = {} /\ SetEpoch(e, [ep[e] EXCEPT !.marker = "rolled_back"]) /\ UNCHANGED <<main, wal>>
  <2> DEFINE oldest == CHOOSE x \in Incomplete(k) : \A y \in Incomplete(k) : x <= y
  <2>1. \A x \in Incomplete(k) : x \in Epochs /\ ep[x].dir /\ ep[x].marker = "none" /\ Unfinished(x)
      BY EpochFields DEF Incomplete, Terminal, StInv, Unfinished
  <2>2. PICK x \in Incomplete(k) : TRUE
      BY DEF RollBackEpoch
  <2>3. \A y \in Incomplete(k) : y = x /\ x <= y
    <3>1. x \in Epochs /\ x <= x
        BY <2>1 DEF Epochs
    <3>2. \A y \in Incomplete(k) : y = x
        BY <2>1, <2>2 DEF StInv, EpochShape
    <3> QED
        BY <3>1, <3>2
  <2>4. oldest \in Incomplete(k)
      BY <2>2, <2>3
  <2>5. \/ SetEpoch(oldest, [ep[oldest] EXCEPT !.temp = NoFiles]) /\ UNCHANGED <<main, wal>>
        \/ \E s \in Stores : UndoMain(oldest, s) \/ UndoSidecar(oldest, s)
        \/ ToUndo(oldest) = {} /\ SetEpoch(oldest, [ep[oldest] EXCEPT !.marker = "rolled_back"]) /\ UNCHANGED <<main, wal>>
      BY DEF RollBackEpoch
  <2> QED
      BY <2>1, <2>4, <2>5
<1>2. UNCHANGED <<mig, bk, host, op, app, busy, newer>>
    BY DEF RollBackEpoch, Starting
<1>3. /\ StTypes /\ FileShape /\ EpochShape /\ Unfinished(e) /\ AsideShape(e) /\ op = IdleOp
      /\ ep[e] \in EpochForms /\ \A x \in Epochs \ {e} : ~Unfinished(x)
      /\ main \in [Stores -> Files] /\ wal \subseteq Stores
      /\ \A t \in Stores : (main[t].f = "none") <=> (main[t].v = 0)
      /\ \A t \in Stores : (ep[e].rb[t].f = "none") <=> (ep[e].rb[t].v = 0)
      /\ mig.st \notin {"dir", "intent"} /\ LostShape
      /\ \A t \in ep[e].lost : main[t].f = "none" /\ ep[e].rb[t].f = "none"
  <2>1. Unfinished(e) /\ op = IdleOp
      BY <1>1 DEF Unfinished, StInv, StartShape, OpShape
  <2>2. mig.st \notin {"dir", "intent"}
      BY <2>1 DEF StInv, MigShape, NoneUnfinished
  <2> QED
      BY <1>1, <2>1, <2>2, EpochFields DEF StInv, FileShape, EpochShape, StTypes, LostShape
\* What a step of it writes.
<1>4. PICK r \in EpochForms :
          /\ SetEpoch(e, r) \/ (UNCHANGED ep /\ r = ep[e])
          /\ r.dir = ep[e].dir /\ r.left = ep[e].left /\ r.lost = ep[e].lost /\ r.k = ep[e].k
          /\ \A t \in Stores : (r.rb[t].f = "none") <=> (r.rb[t].v = 0)
          /\ \A t \in r.lost : main'[t].f = "none" /\ r.rb[t].f = "none"
          /\ \A t \in Stores : \/ r.rb[t].f = "none" /\ main'[t].f = "live"
                               \/ r.rb[t].f = "live" /\ main'[t].f # "live"
                               \/ r.rb[t].f = "none" /\ main'[t].f = "none" /\ t \in r.lost
          /\ \/ r.marker = "none"
             \/ r.marker = "rolled_back" /\ \A t \in Stores : r.rb[t].f = "none"
          /\ main' \in [Stores -> Files] /\ wal' \subseteq Stores
          /\ \A t \in Stores : (main'[t].f = "none") <=> (main'[t].v = 0)
  <2>1. CASE SetEpoch(e, [ep[e] EXCEPT !.temp = NoFiles]) /\ UNCHANGED <<main, wal>>
    <3> DEFINE r == [ep[e] EXCEPT !.temp = NoFiles]
    <3>1. /\ r \in EpochForms /\ r.rb = ep[e].rb /\ r.marker = ep[e].marker /\ r.left = ep[e].left /\ r.lost = ep[e].lost
          /\ r.dir = ep[e].dir /\ r.k = ep[e].k
        BY <1>3, StConstants DEF EpochForms
    <3> HIDE DEF r
    <3>2. main' = main /\ wal' = wal /\ SetEpoch(e, r)
        BY <2>1 DEF r
    <3>9. /\ SetEpoch(e, r) \/ (UNCHANGED ep /\ r = ep[e])
          /\ r.dir = ep[e].dir /\ r.left = ep[e].left /\ r.lost = ep[e].lost /\ r.k = ep[e].k
          /\ \A t \in Stores : (r.rb[t].f = "none") <=> (r.rb[t].v = 0)
          /\ \A t \in r.lost : main'[t].f = "none" /\ r.rb[t].f = "none"
          /\ \A t \in Stores : \/ r.rb[t].f = "none" /\ main'[t].f = "live"
                               \/ r.rb[t].f = "live" /\ main'[t].f # "live"
                               \/ r.rb[t].f = "none" /\ main'[t].f = "none" /\ t \in r.lost
          /\ \/ r.marker = "none"
             \/ r.marker = "rolled_back" /\ \A t \in Stores : r.rb[t].f = "none"
          /\ main' \in [Stores -> Files] /\ wal' \subseteq Stores
          /\ \A t \in Stores : (main'[t].f = "none") <=> (main'[t].v = 0)
        BY <1>1, <1>3, <3>1, <3>2 DEF AsideShape
    <3> QED
        BY <3>1, <3>9
  <2>2. CASE \E s \in Stores : UndoMain(e, s) \/ UndoSidecar(e, s)
    <3>1. PICK s \in Stores : UndoMain(e, s) \/ UndoSidecar(e, s)
        BY <2>2
    <3>2. PICK r \in EpochForms :
                /\ SetEpoch(e, r) \/ (UNCHANGED ep /\ r = ep[e])
                /\ r.dir = ep[e].dir /\ r.marker = ep[e].marker /\ r.left = ep[e].left /\ r.lost = ep[e].lost /\ r.k = ep[e].k
                /\ \A t \in Stores : (r.rb[t].f = "none") <=> (r.rb[t].v = 0)
                /\ \A t \in r.lost : main'[t].f = "none" /\ r.rb[t].f = "none"
                /\ \A t \in Stores : \/ r.rb[t].f = "none" /\ main'[t].f = "live"
                                     \/ r.rb[t].f = "live" /\ main'[t].f # "live"
                                     \/ r.rb[t].f = "none" /\ main'[t].f = "none" /\ t \in r.lost
        BY <1>3, <3>1, UndoKeepsAside
    <3>9. /\ SetEpoch(e, r) \/ (UNCHANGED ep /\ r = ep[e])
          /\ r.dir = ep[e].dir /\ r.left = ep[e].left /\ r.lost = ep[e].lost /\ r.k = ep[e].k
          /\ \A t \in Stores : (r.rb[t].f = "none") <=> (r.rb[t].v = 0)
          /\ \A t \in r.lost : main'[t].f = "none" /\ r.rb[t].f = "none"
          /\ \A t \in Stores : \/ r.rb[t].f = "none" /\ main'[t].f = "live"
                               \/ r.rb[t].f = "live" /\ main'[t].f # "live"
                               \/ r.rb[t].f = "none" /\ main'[t].f = "none" /\ t \in r.lost
          /\ \/ r.marker = "none"
             \/ r.marker = "rolled_back" /\ \A t \in Stores : r.rb[t].f = "none"
          /\ main' \in [Stores -> Files] /\ wal' \subseteq Stores
          /\ \A t \in Stores : (main'[t].f = "none") <=> (main'[t].v = 0)
      <4>1. /\ main' \in [Stores -> Files] /\ wal' \subseteq Stores
            /\ \A t \in Stores : (main'[t].f = "none") <=> (main'[t].v = 0)
          BY <1>3, <3>1, UndoKeepsAside
      <4> QED
          BY <1>1, <3>2, <4>1
    <3> QED
        BY <3>2, <3>9
  <2>3. CASE ToUndo(e) = {} /\ SetEpoch(e, [ep[e] EXCEPT !.marker = "rolled_back"]) /\ UNCHANGED <<main, wal>>
    <3> DEFINE r == [ep[e] EXCEPT !.marker = "rolled_back"]
    <3>1. /\ r \in EpochForms /\ r.rb = ep[e].rb /\ r.marker = "rolled_back" /\ r.left = ep[e].left /\ r.lost = ep[e].lost
          /\ r.dir = ep[e].dir /\ r.k = ep[e].k
        BY <1>3 DEF EpochForms
    <3>2. \A t \in Stores : ep[e].rb[t].f = "none"
        BY <2>3 DEF ToUndo
    <3> HIDE DEF r
    <3>3. main' = main /\ wal' = wal /\ SetEpoch(e, r)
        BY <2>3 DEF r
    <3>9. /\ SetEpoch(e, r) \/ (UNCHANGED ep /\ r = ep[e])
          /\ r.dir = ep[e].dir /\ r.left = ep[e].left /\ r.lost = ep[e].lost /\ r.k = ep[e].k
          /\ \A t \in Stores : (r.rb[t].f = "none") <=> (r.rb[t].v = 0)
          /\ \A t \in r.lost : main'[t].f = "none" /\ r.rb[t].f = "none"
          /\ \A t \in Stores : \/ r.rb[t].f = "none" /\ main'[t].f = "live"
                               \/ r.rb[t].f = "live" /\ main'[t].f # "live"
                               \/ r.rb[t].f = "none" /\ main'[t].f = "none" /\ t \in r.lost
          /\ \/ r.marker = "none"
             \/ r.marker = "rolled_back" /\ \A t \in Stores : r.rb[t].f = "none"
          /\ main' \in [Stores -> Files] /\ wal' \subseteq Stores
          /\ \A t \in Stores : (main'[t].f = "none") <=> (main'[t].v = 0)
        BY <1>1, <1>3, <3>1, <3>2, <3>3 DEF AsideShape
    <3> QED
        BY <3>1, <3>9
  <2> QED
      BY <1>1, <2>1, <2>2, <2>3
<1>5. ep' \in [Epochs -> EpochForms] /\ ep'[e] = r /\ \A x \in Epochs \ {e} : ep'[x] = ep[x]
  <2>1. CASE SetEpoch(e, r)
      BY <1>3, <2>1, EpochSet
  <2>2. CASE UNCHANGED ep /\ r = ep[e]
      BY <1>3, <2>2 DEF StTypes
  <2> QED
      BY <1>4, <2>1, <2>2
<1>6. StTypes'
    BY <1>2, <1>3, <1>4, <1>5 DEF StTypes
<1>7. FileShape'
    BY <1>2, <1>3, <1>4, <1>5 DEF FileShape
<1>8. EpochShape' /\ \A x \in Epochs \ {e} : ~Unfinished(x)'
  <2>1. Unfinished(e)' => AsideShape(e)'
      BY <1>4, <1>5 DEF Unfinished, AsideShape
  <2>2. ~ep'[e].left
      BY <1>1, <1>3, <1>4, <1>5 DEF EpochShape
  <2> QED
      BY <1>3, <1>5, <2>1, <2>2, OneEpoch
<1>9. PairShape'
  <2>1. CASE r.marker = "none"
      BY <1>1, <1>4, <1>5, <2>1, UnfinishedIsNoPair DEF Unfinished
  <2>2. CASE r.lost = {} /\ \A t \in Stores : r.rb[t].f = "none"
    <3>1. AllLive'
        BY <1>4, <2>2 DEF AllLive
    <3> QED
        BY <3>1, LiveIsPair
  <2>3. CASE r.lost # {}
      BY <1>5, <2>3 DEF PairShape, LiveLost
  <2> QED
      BY <1>4, <2>1, <2>2, <2>3
<1>10. StartShape'
  <2>1. \A x \in Epochs : Unfinished(x)' => Unfinished(x) /\ ep'[x].k = ep[x].k
      BY <1>1, <1>4, <1>5, <1>8 DEF Unfinished
  <2> QED
      BY <1>2, <1>3, <2>1 DEF StInv, StartShape, MigSteps, IdleOp
<1>11. MigShape'
    BY <1>2, <1>3 DEF MigShape
<1>12. OpShape'
    BY <1>2, <1>3, IdleIsShaped
<1>13. LostShape'
  <2>1. r.lost = ep[e].lost /\ \A x \in Epochs \ {e} : ~Lost(x)' = ~Lost(x) /\ ep'[x] = ep[x]
      BY <1>4, <1>5 DEF Lost
  <2>2. CASE ~Lost(e)
    <3>1. \A x \in Epochs : ~Lost(x)
        BY <1>3, <2>2 DEF LostShape
    <3>2. \A x \in Epochs : ~Lost(x)'
        BY <1>5, <2>1, <2>2, <3>1 DEF Lost
    <3> QED
        BY <3>2 DEF LostShape, Lost
  <2>3. CASE Lost(e)
    <3>1. \A x \in Epochs \ {e} : ~Lost(x)' /\ ~Unfinished(x)'
        BY <1>3, <1>5, <1>8, <2>1, <2>3 DEF LostShape
    <3>2. AsideShape(e)' /\ ep'[e].lost # Stores
      <4>1. ep'[e].lost # Stores
          BY <1>3, <1>5, <2>1, <2>3 DEF LostShape
      <4>2. AsideShape(e)'
          BY <1>4, <1>5 DEF AsideShape
      <4> QED
          BY <4>1, <4>2
    <3>3. Unfinished(e)' \/ \A t \in Stores : ep'[e].rb[t].f = "none"
        BY <1>1, <1>4, <1>5 DEF Unfinished
    <3>4. host' \in {"restores", "compactions"} /\ mig'.st \notin {"dir", "intent"} /\ op'.pc = "idle"
        BY <1>2, <1>3 DEF IdleOp
    <3>5. \A x \in Epochs : \A t \in ep'[x].lost : main'[t].f = "none" /\ ep'[x].rb[t].f = "none"
        BY <1>4, <1>5, <3>1 DEF Lost
    <3>6. \A x \in Epochs : Lost(x)' \/ Unfinished(x)' => x = e
        BY <3>1
    <3> QED
        BY <3>2, <3>3, <3>4, <3>5, <3>6 DEF LostShape
  <2> QED
      BY <2>2, <2>3
<1> QED
    BY <1>6, <1>7, <1>8, <1>9, <1>10, <1>11, <1>12, <1>13 DEF StInv

\* A start that goes on or ends, with nothing written.
LEMMA HostOnly ==
    ASSUME StInv, UNCHANGED <<main, wal, ep, mig, bk, op, app, busy, newer>>, op.pc = "idle",
           \/ host' = "down"
           \/ host = "restores" /\ host' = "compactions" /\ \A e \in Epochs : Unfinished(e) => ep[e].k = "compaction"
           \/ host = "compactions" /\ host' = "reconcile" /\ NoneUnfinished
    PROVE  StInv'
<1>1. StTypes'
    BY DEF StInv, StTypes, HostStates, MigSteps
<1>2. FileShape'
    BY DEF StInv, FileShape
<1>3. EpochShape' /\ NoneUnfinished' = NoneUnfinished /\ (\A e \in Epochs : Unfinished(e)' = Unfinished(e))
    BY DEF StInv, EpochShape, Unfinished, AsideShape, NoneUnfinished
<1>4. PairShape'
    BY <1>3 DEF StInv, PairShape, LeftBehind, LiveLost, Pair, Evidence, Initialized, Fresh
<1>5. StartShape'
    BY <1>3 DEF StInv, StartShape, MigSteps
<1>6. MigShape'
    BY <1>3 DEF StInv, MigShape
<1>7. OpShape'
    BY <1>3 DEF StInv, OpShape, AllLive
<1>8. LostShape'
    BY LossStays DEF StInv, LostShape, LiveLost, Lost
<1> QED
    BY <1>1, <1>2, <1>3, <1>4, <1>5, <1>6, <1>7, <1>8 DEF StInv

\* The start rolls restore epochs back.
LEMMA RecoverRestoreEpochsInv ==
    ASSUME StInv, RecoverRestoreEpochs
    PROVE  StInv'
<1>1. host = "restores" /\ Starting /\ op.pc = "idle"
    BY DEF RecoverRestoreEpochs, StInv, StartShape
<1>2. CASE RollBackRestore
    BY <1>1, <1>2, RollBackInv DEF RollBackRestore
<1>3. CASE Unreadable("restore") /\ Refuse
    BY <1>1, <1>3, HostOnly DEF Refuse, Starting, fileVars
<1>4. CASE Incomplete("restore") = {} /\ host' = "compactions" /\ UNCHANGED <<fileVars, mig, bk>>
  <2>1. \A e \in Epochs : Unfinished(e) => ep[e].k = "compaction"
      BY <1>4, EpochFields DEF Incomplete, Terminal, Unfinished, StInv
  <2> QED
      BY <1>1, <1>4, <2>1, HostOnly DEF Starting, fileVars
<1> QED
    BY <1>2, <1>3, <1>4 DEF RecoverRestoreEpochs

\* The start rolls compaction epochs back.
LEMMA RecoverCompactionEpochsInv ==
    ASSUME StInv, RecoverCompactionEpochs
    PROVE  StInv'
<1>1. host = "compactions" /\ Starting /\ op.pc = "idle"
    BY DEF RecoverCompactionEpochs, StInv, StartShape
<1>2. CASE RollBackCompaction
    BY <1>1, <1>2, RollBackInv DEF RollBackCompaction
<1>3. CASE Unreadable("compaction") /\ Refuse
    BY <1>1, <1>3, HostOnly DEF Refuse, Starting, fileVars
<1>4. CASE Incomplete("compaction") = {} /\ host' = "reconcile" /\ UNCHANGED <<fileVars, mig, bk>>
  <2>1. NoneUnfinished
      BY <1>1, <1>4, EpochFields DEF Incomplete, Terminal, Unfinished, NoneUnfinished, StInv, StartShape
  <2> QED
      BY <1>1, <1>4, <2>1, HostOnly DEF Starting, fileVars
<1> QED
    BY <1>2, <1>3, <1>4 DEF RecoverCompactionEpochs

\* A restore or a compaction begins: its epoch is empty.
LEMMA BeginInv ==
    ASSUME StInv, NEW e \in Epochs, NEW k \in {"restore", "compaction"}, Begin(e, k)
    PROVE  StInv'
<1> DEFINE r == [NoEpoch EXCEPT !.k = k]
<1>1. /\ host = "up" /\ host' = "closed" /\ SetEpoch(e, r) /\ wal' \in SUBSET wal
      /\ op' = [pc |-> "plan", e |-> e, swapped |-> {}]
      /\ UNCHANGED <<main, mig, bk, app, busy, newer>>
    BY DEF Begin
<1>2. /\ StTypes /\ FileShape /\ EpochShape /\ AllLive /\ mig.st \notin {"dir", "intent"}
      /\ \A x \in Epochs : ~Unfinished(x)
    BY <1>1 DEF StInv, StartShape, MigShape, NoneUnfinished
<1>3. /\ r \in EpochForms /\ r.k = k /\ ~r.dir /\ r.marker = "none" /\ ~r.left /\ r.lost = {}
      /\ \A s \in Stores : r.rb[s].f = "none" /\ r.rb[s].v = 0
      /\ r.temp = NoFiles
    BY StConstants DEF NoEpoch, EpochForms, Absent
<1> HIDE DEF r
<1>4. ep' \in [Epochs -> EpochForms] /\ ep'[e] = r /\ \A x \in Epochs \ {e} : ep'[x] = ep[x]
    BY <1>1, <1>2, <1>3, EpochSet
<1>5. StTypes'
  <2>1. op' \in OpForms
      BY <1>1 DEF OpForms, OpSteps
  <2> QED
      BY <1>1, <1>2, <1>4, <2>1 DEF StTypes, HostStates
<1>6. FileShape'
    BY <1>1, <1>2, <1>3, <1>4 DEF FileShape
<1>7. EpochShape' /\ \A x \in Epochs : ~Unfinished(x)'
  <2>1. ~Unfinished(e)' /\ ~ep'[e].left
      BY <1>3, <1>4 DEF Unfinished
  <2> QED
      BY <1>2, <1>4, <2>1, OneEpoch
<1>8. AllLive'
    BY <1>1, <1>2 DEF AllLive
<1>9. PairShape' /\ MigShape'
    BY <1>1, <1>2, <1>8, LiveIsPair DEF MigShape
<1>10. StartShape'
    BY <1>1 DEF StartShape, MigSteps
<1>11. OpShape'
  <2>1. /\ op'.pc = "plan" /\ op'.e = e /\ op'.swapped = {}
        /\ ep'[op'.e].marker = "none" /\ ep'[op'.e].temp = NoFiles
        /\ \A s \in Stores : ep'[op'.e].rb[s].f = "none"
      BY <1>1, <1>3, <1>4
  <2> QED
      BY <1>7, <1>8, <2>1 DEF OpShape
<1>12. LostShape'
  <2>1. ~LiveLost
      BY <1>1, NoLossHere DEF StInv
  <2>2. (~LiveLost)'
      BY <1>3, <1>4, <2>1 DEF LiveLost
  <2> QED
      BY <2>2 DEF LiveLost, LostShape, Lost
<1> QED
    BY <1>5, <1>6, <1>7, <1>9, <1>10, <1>11, <1>12 DEF StInv

\* Only finished epochs are pruned.
LEMMA PruneEpochsInv ==
    ASSUME StInv, PruneEpochs
    PROVE  StInv'
<1>1. /\ host = "up" /\ ep' = [e \in Epochs |-> IF e \in Disposable THEN NoEpoch ELSE ep[e]]
      /\ UNCHANGED <<main, wal, mig, bk, host, op, app, busy, newer>>
    BY DEF PruneEpochs
<1>2. /\ StTypes /\ FileShape /\ EpochShape /\ AllLive /\ mig.st \notin {"dir", "intent"} /\ op = IdleOp
      /\ \A x \in Epochs : ~Unfinished(x)
    BY <1>1 DEF StInv, StartShape, MigShape, NoneUnfinished, OpShape
<1>3. /\ ~NoEpoch.dir /\ ~NoEpoch.left /\ \A s \in Stores : NoEpoch.rb[s].f = "none" /\ NoEpoch.rb[s].v = 0
      /\ NoEpoch \in EpochForms /\ NoEpoch.lost = {}
    BY StConstants DEF NoEpoch, Absent
<1>4. ep' \in [Epochs -> EpochForms] /\ \A x \in Epochs : ep'[x] = ep[x] \/ ep'[x] = NoEpoch
    BY <1>1, <1>2, <1>3 DEF StTypes
<1>5. \A x \in Epochs : ~Unfinished(x)' /\ (ep'[x].left => ep'[x].marker \in {"committed", "torn"})
    BY <1>2, <1>3, <1>4 DEF Unfinished, EpochShape
<1>6. StTypes' /\ FileShape' /\ EpochShape'
    BY <1>1, <1>2, <1>3, <1>4, <1>5 DEF StTypes, FileShape, EpochShape
<1>7. AllLive'
    BY <1>1, <1>2 DEF AllLive
<1>8. PairShape' /\ MigShape' /\ OpShape'
    BY <1>1, <1>2, <1>7, LiveIsPair, IdleIsShaped DEF MigShape
<1>9. StartShape'
    BY <1>1, <1>2, <1>5, <1>7 DEF StInv, StartShape, NoneUnfinished, MigSteps, IdleOp, AtTarget, Versions
<1>10. LostShape'
  <2>1. ~LiveLost
      BY <1>1, NoLossHere DEF StInv
  <2>2. (~LiveLost)'
      BY <1>3, <1>4, <2>1 DEF LiveLost
  <2> QED
      BY <2>2 DEF LiveLost, LostShape, Lost
<1> QED
    BY <1>6, <1>8, <1>9, <1>10 DEF StInv

\* The host stops anywhere.
LEMMA StCrashInv ==
    ASSUME StInv, StCrash
    PROVE  StInv'
<1>1. host' = "down" /\ op' = IdleOp /\ UNCHANGED <<main, wal, mig, bk, app, busy, newer>>
    BY DEF StCrash
<1>2. StartShape' /\ OpShape'
    BY <1>1, IdleIsShaped DEF StartShape, MigSteps, IdleOp
<1>3. CASE UNCHANGED ep
  <2>1. StTypes' /\ FileShape'
      BY <1>1, <1>3, StConstants DEF StInv, StTypes, FileShape, HostStates
  <2>2. EpochShape' /\ NoneUnfinished' = NoneUnfinished
      BY <1>1, <1>3 DEF StInv, EpochShape, Unfinished, AsideShape, NoneUnfinished
  <2>3. PairShape' /\ MigShape'
      BY <1>1, <1>3, <2>2 DEF StInv, PairShape, LeftBehind, LiveLost, Pair, Evidence, Initialized, Fresh, MigShape
  <2>4. LostShape'
    <3>1. \A e \in Epochs : /\ Lost(e)' = Lost(e) /\ Unfinished(e)' = Unfinished(e) /\ AsideShape(e)' = AsideShape(e)
                            /\ ep'[e] = ep[e]
        BY <1>1, <1>3 DEF Lost, Unfinished, AsideShape
    <3> QED
        BY <1>1, <3>1 DEF StInv, LostShape, IdleOp
  <2> QED
      BY <1>2, <2>1, <2>2, <2>3, <2>4 DEF StInv
<1>4. CASE op.pc = "intent" /\ SetEpoch(op.e, [ep[op.e] EXCEPT !.dir = TRUE, !.intent = "torn"])
  <2> DEFINE r == [ep[op.e] EXCEPT !.dir = TRUE, !.intent = "torn"]
  <2>1. PICK e \in Epochs : e = op.e
      BY <1>4, OpStands
  <2>2. ep[e] \in EpochForms /\ AllLive /\ ep[e].marker = "none" /\ StTypes /\ FileShape /\ EpochShape
        /\ \A s \in Stores : ep[e].rb[s].f = "none" /\ main[s].f = "live"
      BY <1>4, <2>1, OpStands, BeforeSwap DEF StInv
  <2>3. r \in EpochForms /\ r.rb = ep[e].rb /\ r.dir /\ r.marker = "none" /\ r.left = ep[e].left /\ r.lost = ep[e].lost
      BY <2>1, <2>2 DEF EpochForms
  <2> HIDE DEF r
  <2>4. SetEpoch(e, r)
      BY <1>4, <2>1 DEF r
  <2>5. ep' \in [Epochs -> EpochForms] /\ ep'[e] = r /\ \A x \in Epochs \ {e} : ep'[x] = ep[x]
      BY <2>2, <2>3, <2>4, EpochSet
  <2>6. mig.st \notin {"dir", "intent"} /\ \A x \in Epochs \ {e} : ~Unfinished(x)
      BY <1>1, <1>2, <1>4, <2>1 DEF StInv, StartShape, MigShape, OpShape
  <2>7. EpochShape' /\ PairShape'
    <3>1. Unfinished(e)' /\ AsideShape(e)'
        BY <1>1, <2>2, <2>3, <2>5 DEF Unfinished, AsideShape
    <3>2. ~ep'[e].left
        BY <2>2, <2>3, <2>5 DEF EpochShape
    <3> QED
        BY <2>2, <2>5, <2>6, <3>1, <3>2, OneEpoch, UnfinishedIsNoPair
  <2>8. StTypes' /\ FileShape' /\ MigShape'
      BY <1>1, <2>2, <2>3, <2>5, <2>6, StConstants DEF StTypes, FileShape, HostStates, MigShape
  <2>10. LostShape'
    <3>1. ~LiveLost
        BY <1>4, NoLossHere DEF StInv
    <3>2. r.lost = {}
        BY <2>1, <2>2, <3>1 DEF LiveLost, EpochForms, r
    <3>3. (~LiveLost)'
        BY <2>5, <3>1, <3>2 DEF LiveLost
    <3> QED
        BY <3>3 DEF LiveLost, LostShape, Lost
  <2> QED
      BY <1>2, <2>7, <2>8, <2>10 DEF StInv
<1>5. CASE op.pc = "commit" /\ SetEpoch(op.e, [ep[op.e] EXCEPT !.marker = "torn"])
  <2> DEFINE r == [ep[op.e] EXCEPT !.marker = "torn"]
  <2>1. PICK e \in Epochs : e = op.e
      BY <1>5, OpStands
  <2>2. ep[e] \in EpochForms /\ StTypes /\ FileShape /\ EpochShape
      BY <1>5, <2>1, OpStands DEF StInv
  <2>3. r \in EpochForms /\ r.rb = ep[e].rb /\ r.marker = "torn"
      BY <2>1, <2>2 DEF EpochForms
  <2> HIDE DEF r
  <2>4. SetEpoch(e, r)
      BY <1>5, <2>1 DEF r
  <2>5. ep' \in [Epochs -> EpochForms] /\ ep'[e] = r /\ \A x \in Epochs \ {e} : ep'[x] = ep[x]
      BY <2>2, <2>3, <2>4, EpochSet
  <2>6. mig.st \notin {"dir", "intent"} /\ \A x \in Epochs \ {e} : ~Unfinished(x)
      BY <1>5, <2>1 DEF StInv, StartShape, MigShape, OpShape
  <2>7. EpochShape'
    <3>1. ~Unfinished(e)'
        BY <2>3, <2>5 DEF Unfinished
    <3> QED
        BY <2>2, <2>3, <2>5, <2>6, <3>1, OneEpoch
  <2>8. PairShape'
    <3>1. Evidence'
        BY <2>3, <2>5 DEF Evidence
    <3>2. Pair'
        BY <1>1, <1>5, <3>1, SwappedPair DEF Pair
    <3> QED
        BY <3>2 DEF PairShape
  <2>9. StTypes' /\ FileShape' /\ MigShape'
      BY <1>1, <2>2, <2>3, <2>5, <2>6, StConstants DEF StTypes, FileShape, HostStates, MigShape
  <2>10. LostShape'
    <3>1. ~LiveLost
        BY <1>5, NoLossHere DEF StInv
    <3>2. r.lost = {}
        BY <2>1, <2>2, <3>1 DEF LiveLost, EpochForms, r
    <3>3. (~LiveLost)'
        BY <2>5, <3>1, <3>2 DEF LiveLost
    <3> QED
        BY <3>3 DEF LiveLost, LostShape, Lost
  <2> QED
      BY <1>2, <2>7, <2>8, <2>9, <2>10 DEF StInv
<1> QED
  <2>1. op.pc \in {"intent", "commit"} \/ UNCHANGED ep
      BY DEF StCrash
  <2>2. UNCHANGED ep \/ (op.pc = "intent" /\ SetEpoch(op.e, [ep[op.e] EXCEPT !.dir = TRUE, !.intent = "torn"]))
        \/ (op.pc = "commit" /\ SetEpoch(op.e, [ep[op.e] EXCEPT !.marker = "torn"]))
      BY <2>1 DEF StCrash, InOp
  <2> QED
      BY <1>3, <1>4, <1>5, <2>2

\* One store goes up one version; a file that was not there is made.
LEMMA MigrateOneStoreInv ==
    ASSUME StInv, MigrateOneStore
    PROVE  StInv'
<1> DEFINE s == NextStore
           n == [f |-> IF main[s].f = "none" THEN "live" ELSE main[s].f, v |-> main[s].v + 1]
<1>1. /\ host = "apply" /\ main[s].v < mig.target[s] /\ main' = [main EXCEPT ![s] = n] /\ mig.verified # Stores
      /\ UNCHANGED <<wal, ep, mig, bk, host, op, app, busy, newer>>
    BY DEF MigrateOneStore, Starting
<1>2. /\ StTypes /\ FileShape /\ EpochShape /\ PairShape /\ StartShape /\ MigShape /\ OpShape
      /\ main \in [Stores -> Files] /\ \A t \in Stores : main[t].f \in FileForms /\ main[t].v \in Nat
    BY StFields DEF StInv, StTypes
<1>3. s \in Stores /\ s \notin mig.verified
    BY <1>1, <1>2, StFields DEF NextStore, Stores
<1>4. n \in Files /\ n.v = main[s].v + 1 /\ n.f # "none" /\ n.v # 0 /\ (main[s].f # "none" => n.f = main[s].f)
      /\ (main[s].f = "none" => n.f = "live")
    BY <1>2, <1>3 DEF Files, FileForms
<1> HIDE DEF n
<1>5. main' \in [Stores -> Files] /\ main'[s] = n /\ \A t \in Stores \ {s} : main'[t] = main[t]
    BY <1>1, <1>2, <1>3, <1>4
<1>6. mig.st = "intent" /\ mig.backup # "PENDING" /\ NoneUnfinished /\ op = IdleOp
    BY <1>1, <1>2 DEF StartShape, MigSteps, OpShape
<1> HIDE DEF s
<1>7. StTypes'
    BY <1>1, <1>2, <1>5 DEF StTypes
<1>8. FileShape'
    BY <1>1, <1>2, <1>4, <1>5 DEF FileShape
<1>9. EpochShape' /\ NoneUnfinished'
    BY <1>1, <1>2, <1>6 DEF EpochShape, Unfinished, NoneUnfinished
<1>10. StartShape'
    BY <1>1, <1>2, <1>9 DEF StartShape, MigSteps
<1>11. MigShape'
  <2>1. ASSUME NEW t \in Stores
        PROVE  /\ mig'.target[t] > 0 /\ main'[t].v >= mig'.before[t]
               /\ t \in mig'.verified => main'[t].v = mig'.target[t]
               /\ mig'.backup = "NOT_REQUIRED" => mig'.before[t] = 0
               /\ mig'.backup # "NOT_REQUIRED" => mig'.before[t] > 0
    <3>1. mig.before[t] \in Nat /\ mig.target[t] \in Nat /\ main[t].v \in Nat
        BY <1>2, StFields
    <3>2. main[t].v >= mig.before[t] /\ mig.target[t] > 0
        BY <1>2, <1>6 DEF MigShape
    <3>3. main'[t].v = main[t].v \/ main'[t].v = main[t].v + 1
        BY <1>4, <1>5
    <3>4. t \in mig.verified => main'[t].v = mig.target[t]
        BY <1>2, <1>3, <1>5, <1>6 DEF MigShape
    <3>5. main'[t].v >= mig.before[t]
        BY <3>1, <3>2, <3>3
    <3> QED
        BY <1>1, <1>2, <1>6, <3>2, <3>4, <3>5 DEF MigShape
  <2> QED
      BY <1>1, <1>2, <1>6, <1>9, <2>1 DEF MigShape
<1>12. PairShape'
  <2>0. ~LiveLost
      BY <1>1, NoLossHere DEF StInv
  <2>1. CASE LeftBehind
      BY <1>1, <2>1 DEF PairShape, LeftBehind
  <2>2. CASE Pair /\ \A t \in Stores : main[t].f \in {"none", "live"}
    <3>1. \A t \in Stores : main'[t].f \in {"none", "live"}
        BY <1>4, <1>5, <2>2
    <3>2. ASSUME NEW t \in Stores, main'[t].f = "none"
          PROVE  Fresh'
      <4>1. main[t].f = "none" /\ t # s
          BY <1>4, <1>5, <3>2
      <4>2. Initialized = {} \/ Fresh
          BY <2>2, <4>1 DEF Pair, Stores
      <4>3. CASE Initialized = {}
        <5>1. main[s].v = 0
            BY <1>2, <1>3, <4>3, InitializedIs
        <5>2. mig.before[s] \in Nat /\ main[s].v >= mig.before[s]
            BY <1>2, <1>3, <1>6, StFields DEF MigShape
        <5>3. ~(mig.before[s] > 0)
            BY <5>1, <5>2
        <5>4. mig.backup = "NOT_REQUIRED"
            BY <1>2, <1>3, <1>6, <5>3 DEF MigShape
        <5> QED
            BY <1>1, <1>6, <5>4 DEF Fresh
      <4> QED
          BY <1>1, <4>2, <4>3 DEF Fresh
    <3> QED
        BY <3>1, <3>2 DEF PairShape, Pair
  <2>3. CASE /\ main["catalog"].f = main["recovery"].f /\ main["catalog"].f \in {"bak", "vac"} /\ wal = {} /\ Evidence
    <3>1. \A t \in Stores : main'[t].f = main[t].f
        BY <1>3, <1>4, <1>5, <2>3 DEF Stores
    <3> QED
        BY <1>1, <2>3, <3>1 DEF PairShape, Pair, Evidence, Stores
  <2> QED
      BY <1>2, <1>6, <2>0, <2>1, <2>2, <2>3 DEF PairShape, Pair
<1>13. OpShape'
    BY <1>1, <1>6, IdleIsShaped
<1>14. LostShape'
  <2>1. (~LiveLost)'
      BY <1>1, NoLossHere DEF StInv, LiveLost
  <2> QED
      BY <2>1 DEF LiveLost, LostShape, Lost
<1> QED
    BY <1>7, <1>8, <1>9, <1>10, <1>11, <1>12, <1>13, <1>14 DEF StInv

\* What is opened: a pair, at the release's versions.
LEMMA OpenedPair ==
    ASSUME StInv, host = "open"
    PROVE  /\ NoneUnfinished /\ op = IdleOp /\ mig.st \notin {"dir", "intent"} /\ Versions = Plan(app)
           /\ \A s \in Stores : main[s].v > 0 /\ main[s].f # "none"
           /\ ~LiveLost /\ (~LeftBehind => Pair)
<1>1. /\ NoneUnfinished /\ op = IdleOp /\ mig.st \notin {"dir", "intent"} /\ Versions = Plan(app)
      /\ ~LiveLost /\ (~LeftBehind => Pair)
    BY NoLossHere DEF StInv, StartShape, OpShape, MigShape, PairShape, AtTarget
<1>2. ASSUME NEW s \in Stores
      PROVE  main[s].v > 0 /\ main[s].f # "none"
  <2>1. Versions[s] = main[s].v /\ main[s].v \in Nat /\ Plan(app)[s] \in Nat \ {0}
      BY StFields, StConstants DEF StInv, StTypes
  <2> QED
      BY <1>1, <2>1 DEF StInv, FileShape
<1> QED
    BY <1>1, <1>2

\* The host opens the pair.
LEMMA OpenStoresInv ==
    ASSUME StInv, OpenStores
    PROVE  StInv'
<1>1. /\ host = "open" /\ host' = "up" /\ main' = [s \in Stores |-> [main[s] EXCEPT !.f = "live"]]
      /\ UNCHANGED <<wal, ep, mig, bk, op, app, busy, newer>>
    BY DEF OpenStores
<1>2. /\ StTypes /\ FileShape /\ EpochShape /\ main \in [Stores -> Files]
      /\ \A s \in Stores : main[s].v > 0 /\ main[s].v \in Nat
      /\ NoneUnfinished /\ op = IdleOp /\ mig.st \notin {"dir", "intent"} /\ Versions = Plan(app) /\ ~LiveLost
    BY <1>1, OpenedPair, StFields DEF StInv, StTypes
<1>3. \A s \in Stores : main'[s].f = "live" /\ main'[s].v = main[s].v /\ main'[s] \in Files
    BY <1>1, <1>2 DEF Files, FileForms
<1>4. main' \in [Stores -> Files]
    BY <1>1, <1>3
<1>5. StTypes'
    BY <1>1, <1>2, <1>4 DEF StTypes, HostStates
<1>6. FileShape'
    BY <1>1, <1>2, <1>3 DEF FileShape
<1>7. EpochShape' /\ NoneUnfinished'
    BY <1>1, <1>2 DEF EpochShape, Unfinished, NoneUnfinished
<1>8. AllLive' /\ AtTarget'
    BY <1>1, <1>2, <1>3 DEF AllLive, AtTarget, Versions
<1>9. PairShape' /\ MigShape' /\ OpShape'
    BY <1>1, <1>2, <1>8, LiveIsPair, IdleIsShaped DEF MigShape
<1>10. StartShape'
    BY <1>1, <1>2, <1>7, <1>8 DEF StartShape, MigSteps, IdleOp
<1>11. LostShape'
  <2>1. (~LiveLost)'
      BY <1>1, <1>2 DEF LiveLost
  <2> QED
      BY <2>1 DEF LiveLost, LostShape, Lost
<1> QED
    BY <1>5, <1>6, <1>7, <1>9, <1>10, <1>11 DEF StInv

\* The state of a first installation.
LEMMA StInitInv == StInit => StInv
<1> SUFFICES ASSUME StInit PROVE StInv
    OBVIOUS
<1>1. /\ main = [s \in Stores |-> Absent] /\ wal = {} /\ ep = [e \in Epochs |-> NoEpoch]
      /\ mig = NoMig /\ bk = NoBk /\ host = "down" /\ op = IdleOp
      /\ app = 1 /\ busy = {} /\ newer = FALSE
    BY DEF StInit
<1>2. StTypes
  <2>1. main \in [Stores -> Files] /\ ep \in [Epochs -> EpochForms]
      BY <1>1, StConstants
  <2>2. wal \subseteq Stores /\ mig \in MigForms /\ bk \in BkForms /\ host \in HostStates /\ op \in OpForms
      BY <1>1, StConstants DEF HostStates
  <2>3. app \in 1..2 /\ busy \subseteq Stores
      BY <1>1
  <2>4. newer \in BOOLEAN
      BY <1>1, Zenon
  <2> QED
      BY <2>1, <2>2, <2>3, <2>4 DEF StTypes
<1>3. \A s \in Stores : main[s].f = "none" /\ main[s].v = 0
    BY <1>1 DEF Absent
<1>4. \A e \in Epochs : ep[e].dir = FALSE /\ ep[e].left = FALSE /\ ep[e].lost = {}
                        /\ \A s \in Stores : ep[e].rb[s].f = "none" /\ ep[e].rb[s].v = 0
    BY <1>1 DEF NoEpoch, Absent
<1>5. FileShape
    BY <1>1, <1>3, <1>4 DEF FileShape, NoBk
<1>6. EpochShape
    BY <1>4 DEF EpochShape, Unfinished
<1>7. PairShape
    BY <1>2, <1>3, InitializedIs DEF PairShape, Pair
<1>8. StartShape
    BY <1>1 DEF StartShape, MigSteps, IdleOp
<1>9. MigShape
    BY <1>1 DEF MigShape, NoMig
<1>10. OpShape
    BY <1>1 DEF OpShape, IdleOp
<1>11. LostShape
    BY <1>4, NoneLost DEF LiveLost
<1> QED
    BY <1>2, <1>5, <1>6, <1>7, <1>8, <1>9, <1>10, <1>11 DEF StInv

\* Every step keeps the invariant.
LEMMA StStepInv == StInv /\ [StNext]_stVars => StInv'
<1> SUFFICES ASSUME StInv, [StNext]_stVars PROVE StInv'
    OBVIOUS
<1>1. CASE OpStep
    BY <1>1, PlanRestoreInv, PlanCompactionInv, WriteIntentInv, WriteCommittedInv, UndoStepInv,
       PrepareRestoreFileInv, PrepareCompactionFileInv, PutAsideInv, PutSidecarAsideInv,
       SwapRestoreFileInv, SwapCompactionFileInv DEF OpStep
<1>2. CASE StartStep
    BY <1>2, StartHostInv, RecoverRestoreEpochsInv, RecoverCompactionEpochsInv, ReconcileCommittedInv,
       ScanEpochsInv, CreateEpochIntentInv, EnsureBackupInv, CreateBackupSetInv,
       MigrateOneStoreInv, MarkStoreVerifiedInv, CommitMigrationInv, OpenStoresInv DEF StartStep
<1>3. CASE PrepareFails \/ SwapFails
    BY <1>3, PrepareFailsInv, SwapFailsInv
<1>4. CASE \E e \in Epochs : RestoreState(e) \/ CompactState(e)
    BY <1>4, BeginInv DEF RestoreState, CompactState
<1>5. CASE WorkOn \/ PruneEpochs \/ StCrash \/ CloseHost \/ UpgradeApp
    BY <1>5, WorkOnInv, PruneEpochsInv, StCrashInv, CloseHostInv, UpgradeAppInv
<1>6. CASE UNCHANGED stVars
  <2>1. StTypes' /\ FileShape' /\ EpochShape' /\ OpShape'
      BY <1>6 DEF stVars, StInv, StTypes, FileShape, EpochShape, Unfinished, AsideShape, OpShape, AllLive, FormOf
  <2>2. NoneUnfinished' = NoneUnfinished /\ AllLive' = AllLive /\ AtTarget' = AtTarget /\ Initialized' = Initialized
        /\ \A e \in Epochs : Unfinished(e)' = Unfinished(e)
      BY <1>6 DEF stVars, NoneUnfinished, Unfinished, AllLive, AtTarget, Versions, Initialized
  <2>3. PairShape' /\ StartShape' /\ MigShape'
      BY <1>6, <2>2 DEF stVars, StInv, PairShape, LeftBehind, LiveLost, Pair, Evidence, Fresh, StartShape, MigShape
  <2>4. LostShape'
      BY <1>6, LossStays DEF StInv, stVars, LostShape, LiveLost, Lost
  <2> QED
      BY <2>1, <2>3, <2>4 DEF StInv
<1> QED
    BY <1>1, <1>2, <1>3, <1>4, <1>5, <1>6 DEF StNext

\* The invariant of the two databases, along every behaviour.
THEOREM StInvariance == StSpec => []StInv
<1>1. StInit => StInv
    BY StInitInv
<1>2. StInv /\ [StNext]_stVars => StInv'
    BY StStepInv
<1> QED
    BY <1>1, <1>2, PTL DEF StSpec

\* The variables of the two databases keep their types.
THEOREM StoreTypes == StSpec => []StTypeOK
<1>1. StInv => StTypeOK
  <2> SUFFICES ASSUME StInv PROVE StTypeOK
      OBVIOUS
  <2>1. op.swapped \subseteq Stores /\ mig.verified \subseteq Stores
      BY StFields DEF StInv, StTypes, OpForms
  <2>2. \A s \in Stores : main[s].f \in {"none", "live", "bak", "vac"} /\ ((main[s].f = "none") = (main[s].v = 0))
    <3>1. ASSUME NEW s \in Stores
          PROVE  main[s].f \in {"none", "live", "bak", "vac"} /\ ((main[s].f = "none") <=> (main[s].v = 0))
        BY StFields DEF StInv, FileForms, FileShape
    <3> QED
        BY <3>1
  <2> QED
      BY <2>1, <2>2 DEF StInv, StTypes, StTypeOK
<1> QED
    BY <1>1, StInvariance, PTL

\* Restore and compaction: the pair an epoch replaces is there until the epoch is committed; a store
\* that the undoing of a failed first rename unlinked is absent (state_backup.py:2605, 2740).
THEOREM ReplacedPairIsKept == StSpec => []OldPairSurvives
<1>1. StInv => OldPairSurvives
  <2> SUFFICES ASSUME StInv, NEW s \in Stores, main[s].f \in {"none", "bak", "vac"}, Initialized # {}
               PROVE  \/ \E e \in Epochs : ep[e].rb[s].f = "live"
                      \/ \E e \in Epochs : ep[e].marker \in {"committed", "torn"}
                      \/ main[s].f = "none" /\ \E e \in Epochs : s \in ep[e].lost
                      \/ mig.st = "intent" /\ mig.backup = "NOT_REQUIRED"
      BY DEF OldPairSurvives
  <2>1. CASE ~NoneUnfinished
    <3>1. PICK e \in Epochs : Unfinished(e)
        BY <2>1 DEF NoneUnfinished
    <3>2. ep[e].rb[s].f = "live" \/ (main[s].f = "none" /\ s \in ep[e].lost)
        BY <3>1 DEF StInv, EpochShape, AsideShape
    <3> QED
        BY <3>2
  <2>4. CASE LiveLost
    <3>1. PICK e \in Epochs : Lost(e)
        BY <2>4 DEF LiveLost, Lost
    <3>2. ep[e].rb[s].f = "live" \/ (main[s].f = "none" /\ s \in ep[e].lost)
        BY <3>1 DEF StInv, LostShape, AsideShape
    <3> QED
        BY <3>2
  <2>2. CASE LeftBehind
      BY <2>2 DEF LeftBehind, StInv, EpochShape
  <2>3. CASE Pair
      BY <2>3 DEF Pair, Evidence, Fresh
  <2> QED
      BY <2>1, <2>2, <2>3, <2>4 DEF StInv, PairShape
<1> QED
    BY <1>1, StInvariance, PTL

\* Starting the host: the two files it opens belong together.
THEOREM PairIsOpened == StSpec => OpensOnePair
<1>1. StInv /\ [StNext]_stVars =>
        [(host = "open" /\ host' = "up" /\ ~LeftBehind) =>
           /\ main["catalog"].f = main["recovery"].f /\ Versions = Plan(app)
           /\ main["catalog"].f # "live" => /\ wal = {}
                                            /\ \E e \in Epochs : ep[e].marker \in {"committed", "torn"}]_stVars
  <2> SUFFICES ASSUME StInv, host = "open", ~LeftBehind
               PROVE  /\ main["catalog"].f = main["recovery"].f /\ Versions = Plan(app)
                      /\ main["catalog"].f # "live" => /\ wal = {}
                                                       /\ \E e \in Epochs : ep[e].marker \in {"committed", "torn"}
      OBVIOUS
  <2>1. Pair /\ Versions = Plan(app) /\ \A s \in Stores : main[s].f # "none"
      BY OpenedPair
  <2> QED
      BY <2>1 DEF Pair, Evidence, Stores
<1> QED
    BY <1>1, StInvariance, PTL DEF StSpec, OpensOnePair

\* Only two steps change a file's version without changing what the file is.
LEMMA VersionSteps ==
    ASSUME StInv, [StNext]_stVars, NEW s \in Stores, main[s].v > 0, main[s].f = main'[s].f, main'[s].v > main[s].v
    PROVE  MigrateOneStore
<1>1. main' # main
    BY StFields DEF StInv
<1>2. main[s].f # "none" /\ main[s].v \in Nat /\ main \in [Stores -> Files]
    BY StFields DEF StInv, FileShape, StTypes
<1>3. ASSUME NEW t \in Stores, PutAside(t) PROVE FALSE
  <2>1. main' = [main EXCEPT ![t] = Absent]
      BY <1>3 DEF PutAside
  <2> QED
      BY <1>2, <2>1 DEF Absent
<1>4. ASSUME NEW t \in Stores, TakeName(t), op.pc = "swap", t = Swapping PROVE FALSE
  <2>1. main' = [main EXCEPT ![t] = [f |-> ep[op.e].temp[t], v |-> VersionOf(ep[op.e].temp[t], t)]]
      BY <1>4 DEF TakeName
  <2>2. main[t].f \in {"live", "none"} /\ ep[op.e].temp[t] \in {"bak", "vac"}
      BY <1>4, SwappingIs, DuringSwap DEF FormOf
  <2> QED
      BY <1>2, <2>1, <2>2
<1>5. ASSUME NEW e \in Epochs, NEW t \in Stores, UndoMain(e, t), AsideShape(e) PROVE FALSE
  <2>1. \/ main' = [main EXCEPT ![t] = Absent]
        \/ main' = [main EXCEPT ![t] = ep[e].rb[t]] /\ main[t].f = "none"
      BY <1>5 DEF UndoMain
  <2>2. CASE main' = [main EXCEPT ![t] = Absent]
      BY <1>2, <2>2 DEF Absent
  <2>3. CASE main' = [main EXCEPT ![t] = ep[e].rb[t]] /\ main[t].f = "none"
      BY <1>2, <2>3
  <2> QED
      BY <2>1, <2>2, <2>3
<1>6. ASSUME OpenStores PROVE FALSE
  <2>1. main'[s] = [main[s] EXCEPT !.f = "live"]
      BY <1>6 DEF OpenStores
  <2>2. main'[s].v = main[s].v
      BY <1>2, <2>1 DEF Files
  <2> QED
      BY <1>2, <2>2
<1>7. CASE OpStep
  <2>1. CASE \E t \in Stores : PutAside(t) \/ SwapRestoreFile(t) \/ SwapCompactionFile(t)
      BY <1>3, <1>4, <2>1 DEF SwapRestoreFile, SwapCompactionFile, InOp
  <2>2. CASE UndoStep
    <3>1. op.pc = "undo" /\ op.e \in Epochs /\ AsideShape(op.e)
        BY <2>2, OpStands DEF UndoStep, InOp, StInv, OpShape
    <3>2. \E t \in Stores : UndoMain(op.e, t)
        BY <1>1, <2>2 DEF UndoStep, UndoSidecar, fileVars
    <3> QED
        BY <1>5, <3>1, <3>2
  <2> QED
      BY <1>1, <1>7, <2>1, <2>2 DEF OpStep, PlanRestore, PlanCompaction, WriteIntent, WriteCommitted, PrepareRestoreFile,
         PrepareCompactionFile, PutSidecarAside, fileVars
<1>8. CASE RecoverRestoreEpochs \/ RecoverCompactionEpochs
  <2>1. PICK k \in {"restore", "compaction"} : RollBackEpoch(k)
      BY <1>1, <1>8 DEF RecoverRestoreEpochs, RecoverCompactionEpochs, RollBackRestore, RollBackCompaction, Refuse, fileVars
  <2>2. PICK x \in Incomplete(k) : TRUE
      BY <2>1 DEF RollBackEpoch
  <2>3. \A y \in Incomplete(k) : y = x /\ x <= y /\ y \in Epochs /\ AsideShape(y)
    <3>1. \A y \in Incomplete(k) : y \in Epochs /\ Unfinished(y)
        BY EpochFields DEF Incomplete, Terminal, Unfinished, StInv
    <3>2. x <= x
        BY <2>2, <3>1 DEF Epochs
    <3> QED
        BY <2>2, <3>1, <3>2 DEF StInv, EpochShape
  <2>4. PICK e \in Incomplete(k) : \E t \in Stores : UndoMain(e, t)
    <3> DEFINE oldest == CHOOSE z \in Incomplete(k) : \A y \in Incomplete(k) : z <= y
    <3>1. oldest \in Incomplete(k)
        BY <2>2, <2>3
    <3>2. \E t \in Stores : UndoMain(oldest, t)
        BY <1>1, <2>1 DEF RollBackEpoch, UndoSidecar
    <3> QED
        BY <3>1, <3>2
  <2> QED
      BY <1>5, <2>3, <2>4
<1>9. CASE StartStep
    BY <1>1, <1>6, <1>8, <1>9 DEF StartStep, StartHost, ReconcileCommitted, ScanEpochs, CreateEpochIntent, EnsureBackup,
       CreateBackupSet, MarkStoreVerified, CommitMigration, Refuse, fileVars
<1>10. ASSUME NEW t \in Stores, DeletesLive(t) PROVE FALSE
  <2>1. main' = [main EXCEPT ![t] = Absent]
      BY <1>10 DEF DeletesLive
  <2> QED
      BY <1>2, <2>1 DEF Absent
<1>11. CASE SwapFails
    BY <1>1, <1>10, <1>11 DEF SwapFails, LeavesMarker
<1>12. CASE ~OpStep /\ ~StartStep /\ ~SwapFails
    BY <1>1, <1>12 DEF StNext, stVars, PrepareFails, RestoreState, CompactState, Begin, WorkOn, PruneEpochs,
       StCrash, CloseHost, UpgradeApp, fileVars
<1> QED
    BY <1>7, <1>9, <1>11, <1>12

\* Migrations: no store is changed before both are backed up.
THEOREM ChangesAreBackedUp == StSpec => BackedUpBeforeChange
<1>1. StInv /\ [StNext]_stVars =>
        [\A s \in Stores : (main[s].v > 0 /\ main[s].f = main'[s].f /\ main'[s].v > main[s].v) =>
            \/ mig.backup = "NOT_REQUIRED" /\ mig.before[s] = 0
            \/ bk.st = "manifest" /\ bk.v = mig.before]_stVars
  <2> SUFFICES ASSUME StInv, [StNext]_stVars, NEW s \in Stores,
                      main[s].v > 0, main[s].f = main'[s].f, main'[s].v > main[s].v
               PROVE  \/ mig.backup = "NOT_REQUIRED" /\ mig.before[s] = 0
                      \/ bk.st = "manifest" /\ bk.v = mig.before
      OBVIOUS
  <2>1. host = "apply"
      BY VersionSteps DEF MigrateOneStore
  <2>2. mig.st = "intent" /\ mig.backup \in {"NOT_REQUIRED", "VERIFIED"}
      BY <2>1, StFields DEF StInv, StartShape, MigSteps, BackupNeeds
  <2> QED
      BY <2>2 DEF StInv, MigShape
<1> QED
    BY <1>1, StInvariance, PTL DEF StSpec, BackedUpBeforeChange

\* The host opens one pair of stores, backed up before a change; sessions and refusals are what they say.
THEOREM HostStepsSound == StoresAndPipe => HostStepsAreSound
BY PairIsOpened, ChangesAreBackedUp, SessionsAreUsed, RefusalsAreReal, PTL DEF StoresAndPipe, HostStepsAreSound
=============================================================================
