------------------------------- MODULE MCHost -------------------------------
(* The host as its surroundings meet it, one side of it in each behaviour:   *)
(* its state files, the commands of a window, the lists of a window, the     *)
(* processes themselves, the pipe.  What a behaviour is not about is at rest. *)
EXTENDS Host

VARIABLE part
mcVars == <<stVars, cmVars, pgVars, hsVars, ssVars, part>>

(* Two at a time: a window is opened while a trigger fires, or the host is   *)
(* stopped.                                                                  *)
MCCompany == {<<"open", "send">>, <<"open", "stop">>}

StRest ==
    /\ main = [s \in Stores |-> [f |-> "live", v |-> Plan(1)[s]]]
    /\ wal = {} /\ ep = [e \in Epochs |-> NoEpoch]
    /\ mig = NoMig /\ bk = NoBk /\ host = "up" /\ op = IdleOp
    /\ app = 1 /\ busy = {} /\ newer = FALSE /\ stFaults = 0

CmRest == CmInit /\ acts.given = MaxActs /\ hindered = "NO" /\ hs.writable

PgRest == PgInit /\ list = "REPORT"

HsRest ==
    /\ hosts = [p \in Pids |-> NoHost] /\ mutex = 0
    /\ pub = NoPub /\ aged = FALSE
    /\ seek = [c \in Seekers |-> [NewSeeker("stop") EXCEPT !.end = "stopped"]]
    /\ running = FALSE /\ hsc = 0

SsRest ==
    /\ clock = Start /\ frames = <<>> /\ acc = [c \in {} |-> 0]
    /\ pipe = [Closed EXCEPT !.st = "listening"]
    /\ cl = [c \in Clients |-> [pc |-> "idle", req |-> "none"]]
    /\ res = [c \in Clients |-> NoAnswer] /\ used = [c \in Clients |-> Never]
    /\ ssc = [made |-> 0, fault |-> 0]

Init ==
    /\ part \in {"files", "commands", "lists", "processes", "pipe"}
    /\ IF part = "files" THEN StInit ELSE StRest
    /\ IF part = "commands" THEN CmInit ELSE CmRest
    /\ IF part = "lists" THEN PgInit ELSE PgRest
    /\ IF part = "processes" THEN HsInit ELSE HsRest
    /\ IF part = "pipe" THEN SsInit ELSE SsRest

(* A step of the part the behaviour is about. *)
OfPart(files, commands, lists, processes, pipes) ==
    \/ part = "files" /\ files /\ UNCHANGED <<cmVars, pgVars, hsVars, ssVars, part>>
    \/ part = "commands" /\ commands /\ UNCHANGED <<stVars, pgVars, hsVars, ssVars, part>>
    \/ part = "lists" /\ lists /\ UNCHANGED <<stVars, cmVars, hsVars, ssVars, part>>
    \/ part = "processes" /\ processes /\ UNCHANGED <<stVars, cmVars, pgVars, ssVars, part>>
    \/ part = "pipe" /\ pipes /\ UNCHANGED <<stVars, cmVars, pgVars, hsVars, part>>

Next == OfPart(StNext, CmNext, PgNext, HsNext, SsNext)

(* The fairness of each module, for the behaviours that are about it.  A     *)
(* behaviour is about one part, so a condition may name a step of each part. *)
LiveSpec ==
    /\ Init /\ [][Next]_mcVars
    /\ WF_mcVars(OfPart(StartStep, HostSteps, WorkerSteps, ProcessSteps(1), ServerSteps))
    /\ WF_mcVars(OfPart(OpStep, GiveUpOnDeadHost, Flush, ProcessSteps(2), FALSE))
    /\ WF_mcVars(OfPart(CloseHost, WindowSteps, FALSE, BeatPublishes(1), FALSE))
    /\ WF_mcVars(OfPart(FALSE, FALSE, FALSE, BeatPublishes(2), FALSE))
    /\ \A c \in Seekers : WF_mcVars(OfPart(FALSE, FALSE, FALSE, SeekerSteps(c), FALSE))
    /\ SF_mcVars(OfPart(FALSE, FALSE, FALSE, GivesUp(1), ClientSteps("a")))
    /\ SF_mcVars(OfPart(FALSE, FALSE, FALSE, GivesUp(2), ClientSteps("b")))

(* The host comes up again, edits and queries end, starters and hosts settle,  *)
(* and the pipe is served again after any client.                              *)
HostSettles == ComesUpAgain /\ EditsSettle /\ QueriesEnd /\ LifeGoesOn /\ ServerComesBack
=============================================================================
