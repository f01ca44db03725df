------------------------------ MODULE Sessions ------------------------------
(***************************************************************************)
(* The host's named pipe: one request at a time over an instance that is   *)
(* made for it, the clients the host has accepted, and the limits on what   *)
(* it takes from one client and from all of them in a window of time.       *)
(***************************************************************************)
EXTENDS Naturals, Sequences, FiniteSets

CONSTANTS
    Clients,      \* client instances
    MaxAccepted,  \* max_accepted_clients
    GlobalFrames, \* max_global_frames_per_window
    ClientFrames, \* max_client_frames_per_window
    Window,       \* frame_window_seconds, in ticks
    Idle,         \* accepted_client_idle_seconds, in ticks
    MaxClock,     \* bound: ticks
    MaxFrames,    \* bound: requests
    MaxSsFaults   \* bound: stalls, cancellations, late and oversized answers

\* IpcResourceLimits.__post_init__; an idle session outlives the window (300 s
\* and 1 s).
ASSUME SsAssumption ==
    /\ {MaxClock, MaxFrames, MaxSsFaults} \subseteq Nat
    /\ {MaxAccepted, GlobalFrames, ClientFrames, Window, Idle} \subseteq Nat \ {0}
    /\ ClientFrames <= GlobalFrames /\ Window <= Idle /\ "nobody" \notin Clients

VARIABLES
    clock,  \* the monotonic clock
    frames, \* _global_frame_times
    acc,    \* _accepted_clients
    pipe,   \* the server's pipe instance and whose it is
    cl,     \* the clients: where they are and what they ask
    res,    \* the last answer made for each client
    used,   \* history: when a frame of each client was last admitted
    ssc     \* requests and faults so far

ssVars == <<clock, frames, acc, pipe, cl, res, used, ssc>>

Start == Idle + 1 \* the clock when the host begins
Never == 0
NoAnswer == [what |-> "none", at |-> 0]
SsFault == ssc.fault < MaxSsFaults /\ ssc' = [ssc EXCEPT !.fault = @ + 1]

----------------------------------------------------------------------------
\* EngineHostIpcService: sessions and limits.

\* _discard_expired_frame_times: what is expired goes from the front.
Stale(times) ==
    CHOOSE n \in 0..Len(times) :
        /\ \A i \in 1..n : times[i] + Window <= clock
        /\ n < Len(times) => times[n + 1] + Window > clock
LiveFrames(times) == SubSeq(times, Stale(times) + 1, Len(times))

\* _expire_idle_clients
Unexpired == {c \in DOMAIN acc : acc[c].seen + Idle > clock}
Sessions == [c \in Unexpired |-> acc[c]]

\* _rate_limit_response with _retry_after_seconds
Limited(scope, times) == [what |-> scope, at |-> Head(times) + Window]

\* _client_capacity_response
Full(ss) ==
    [what |-> "full",
     at |-> (CHOOSE t \in {ss[c].seen : c \in DOMAIN ss} :
                \A c \in DOMAIN ss : t <= ss[c].seen) + Idle]

Answered(c, what) == res' = [res EXCEPT ![c] = [what |-> what, at |-> 0]]
Used(c) == used' = [used EXCEPT ![c] = clock]

\* _admit_client_frame
Admit(c, ss) ==
    LET times == LiveFrames(ss[c].times)
    IN  IF Len(times) >= ClientFrames
          THEN /\ acc' = [ss EXCEPT ![c].times = times]
               /\ res' = [res EXCEPT ![c] = Limited("client", times)]
               /\ UNCHANGED used
          ELSE /\ acc' = [ss EXCEPT ![c] = [seen |-> clock, times |-> Append(times, clock)]]
               /\ Answered(c, "ok") /\ Used(c)

\* handshake, once the versions and the identity are accepted
Hello(c) ==
    LET ss == Sessions
    IN  IF c \in DOMAIN ss THEN Admit(c, ss)
        ELSE IF Cardinality(DOMAIN ss) >= MaxAccepted
          THEN /\ acc' = ss /\ res' = [res EXCEPT ![c] = Full(ss)]
               /\ UNCHANGED used
          ELSE /\ acc' = [d \in DOMAIN ss \union {c} |->
                            IF d = c THEN [seen |-> clock, times |-> <<clock>>] ELSE ss[d]]
               /\ Answered(c, "ok") /\ Used(c)

\* _authorize_client_request
Authorize(c) ==
    LET ss == Sessions
    IN  IF c \in DOMAIN ss THEN Admit(c, ss)
        ELSE acc' = ss /\ Answered(c, "unknown") /\ UNCHANGED used

\* _admit_global_frame, then the request itself.  A frame that cannot be decoded
\* is refused before it; one of another version or user after it.
Serve(c, kind) ==
    LET times == LiveFrames(frames)
    IN  IF kind = "bad"
          THEN Answered(c, "refused") /\ UNCHANGED <<frames, acc, used>>
        ELSE IF Len(times) >= GlobalFrames
          THEN /\ frames' = times /\ res' = [res EXCEPT ![c] = Limited("global", times)]
               /\ UNCHANGED <<acc, used>>
        ELSE /\ frames' = Append(times, clock)
             /\ \/ kind = "hello" /\ Hello(c)
                \/ kind = "ask" /\ Authorize(c)
                \/ kind = "foreign" /\ Answered(c, "refused") /\ UNCHANGED <<acc, used>>

----------------------------------------------------------------------------
\* Win32NamedPipeServer.serve_once

Is(c, pc) == cl[c].pc = pc
Comes(c, pc) ==
    cl' = [cl EXCEPT ![c].pc = pc, ![c].req = IF pc \in {"idle", "stalled"} THEN "none" ELSE @]
Closed == [st |-> "none", who |-> "nobody"]

\* A fresh instance; the server waits for a client without a limit.
ServerListens ==
    /\ pipe.st = "none"
    /\ pipe' = [Closed EXCEPT !.st = "listening"]
    /\ UNCHANGED <<clock, frames, acc, cl, res, used, ssc>>

ServerReads ==
    /\ pipe.st = "reading" /\ Is(pipe.who, "sent")
    /\ Serve(pipe.who, cl[pipe.who].req)
    /\ pipe' = [pipe EXCEPT !.st = "writing"]
    /\ UNCHANGED <<clock, cl, ssc>>

ServerWrites ==
    /\ pipe.st = "writing" /\ Is(pipe.who, "sent")
    /\ pipe' = [pipe EXCEPT !.st = "acking"] /\ Comes(pipe.who, "answered")
    /\ UNCHANGED <<clock, frames, acc, res, used, ssc>>

\* An answer too large for a frame is replaced.
AnswerTooLarge ==
    /\ pipe.st = "writing" /\ Is(pipe.who, "sent") /\ SsFault
    /\ pipe' = [pipe EXCEPT !.st = "acking"] /\ Comes(pipe.who, "answered")
    /\ Answered(pipe.who, "refused")
    /\ UNCHANGED <<clock, frames, acc, used>>

ServerAcknowledged ==
    /\ pipe.st = "acking" /\ ~Is(pipe.who, "answered")
    /\ pipe' = Closed
    /\ UNCHANGED <<clock, frames, acc, cl, res, used, ssc>>

\* Mutant: only a client that is gone ends the exchange, not one that is silent.
ServerSeesGone ==
    /\ pipe.st \in {"reading", "writing"} /\ pipe' = Closed
    /\ cl[pipe.who].pc \in {"idle", "opening"}
    /\ UNCHANGED <<clock, frames, acc, cl, res, used, ssc>>

\* The client is gone or silent and the time limit passes: the instance is
\* disconnected and closed.
ServerGivesUp ==
    /\ pipe.st \in {"reading", "writing"} /\ pipe' = Closed
    /\ cl[pipe.who].pc \in {"idle", "opening", "stalled"}
    /\ UNCHANGED <<clock, frames, acc, cl, res, used, ssc>>

\* The client is only slow.
ServerTooEarly ==
    /\ pipe.st \in {"reading", "acking"} /\ SsFault
    /\ cl[pipe.who].pc \in {"opened", "answered"}
    /\ pipe' = Closed /\ Comes(pipe.who, "idle")
    /\ UNCHANGED <<clock, frames, acc, res, used>>

----------------------------------------------------------------------------
\* Win32NamedPipeClient._roundtrip and _open

ClientAsks(c, kind) ==
    /\ Is(c, "idle") /\ ssc.made < MaxFrames
    /\ cl' = [cl EXCEPT ![c] = [pc |-> "opening", req |-> kind]]
    /\ \/ kind \in {"hello", "ask"} /\ ssc' = [ssc EXCEPT !.made = @ + 1]
       \/ kind \in {"bad", "foreign"} /\ SsFault
    /\ UNCHANGED <<clock, frames, acc, pipe, res, used>>

ClientOpens(c) ==
    /\ Is(c, "opening") /\ pipe.st = "listening"
    /\ pipe' = [st |-> "reading", who |-> c] /\ Comes(c, "opened")
    /\ UNCHANGED <<clock, frames, acc, res, used, ssc>>

ClientWrites(c) ==
    /\ Is(c, "opened") /\ Comes(c, "sent")
    /\ UNCHANGED <<clock, frames, acc, pipe, res, used, ssc>>

ClientAcknowledges(c) ==
    /\ Is(c, "answered") /\ Comes(c, "idle")
    /\ UNCHANGED <<clock, frames, acc, pipe, res, used, ssc>>

\* The time limit passes before the pipe is free or the answer is there.
ClientTimesOut(c) ==
    /\ cl[c].pc \in {"opening", "sent"} /\ (pipe.who # c => pipe.st # "listening") /\ SsFault
    /\ Comes(c, "idle")
    /\ UNCHANGED <<clock, frames, acc, pipe, res, used>>

\* A background query is cancelled; a read or write under way is aborted first.
ClientCancelled(c) ==
    /\ cl[c].pc \in {"opening", "opened", "sent", "answered"} /\ SsFault
    /\ Comes(c, "idle")
    /\ UNCHANGED <<clock, frames, acc, pipe, res, used>>

\* Its process is suspended.
ClientStalls(c) ==
    /\ cl[c].pc \in {"opened", "sent", "answered"} /\ SsFault
    /\ Comes(c, "stalled")
    /\ UNCHANGED <<clock, frames, acc, pipe, res, used>>

\* Bound: time passes between requests; a request reads the clock once.
Tick ==
    /\ pipe.st = "listening" /\ \A c \in Clients : cl[c].pc \in {"idle", "stalled"}
    /\ clock < Start + MaxClock
    /\ clock' = clock + 1
    /\ UNCHANGED <<frames, acc, pipe, cl, res, used, ssc>>

----------------------------------------------------------------------------
SsInit ==
    /\ clock = Start /\ frames = <<>> /\ acc = [c \in {} |-> 0]
    /\ pipe = Closed
    /\ cl = [c \in Clients |-> [pc |-> "idle", req |-> "none"]]
    /\ res = [c \in Clients |-> NoAnswer] /\ used = [c \in Clients |-> Never]
    /\ ssc = [made |-> 0, fault |-> 0]

ServerSteps == ServerListens \/ ServerReads \/ ServerWrites \/ ServerAcknowledged \/ ServerGivesUp
ClientSteps(c) == ClientOpens(c) \/ ClientWrites(c) \/ ClientAcknowledges(c)

SsNext ==
    \/ ServerSteps \/ AnswerTooLarge \/ ServerTooEarly \/ Tick
    \/ \E c \in Clients :
         \/ ClientSteps(c) \/ ClientTimesOut(c) \/ ClientCancelled(c) \/ ClientStalls(c)
         \/ \E kind \in {"hello", "ask", "bad", "foreign"} : ClientAsks(c, kind)

SsSpec == SsInit /\ [][SsNext]_ssVars
SsFairness == WF_ssVars(ServerSteps) /\ \A c \in Clients : SF_ssVars(ClientSteps(c))

----------------------------------------------------------------------------
\* The type invariant.
SsTypeOK ==
    /\ clock \in Start..(Start + MaxClock)
    /\ DOMAIN acc \subseteq Clients /\ Cardinality(DOMAIN acc) <= MaxAccepted
    /\ pipe.st \in {"none", "listening", "reading", "writing", "acking"}
    /\ pipe.who \in Clients <=> pipe.st \in {"reading", "writing", "acking"}
    /\ \A c \in Clients :
         /\ cl[c].pc \in {"idle", "opening", "opened", "sent", "answered", "stalled"}
         /\ cl[c].pc \in {"opened", "answered"} => pipe.who = c
         /\ used[c] \in {Never} \union Start..clock

Room(c) ==
    c \in Unexpired => Len(LiveFrames(acc[c].times)) < ClientFrames
RoomForAll == Len(LiveFrames(frames)) < GlobalFrames

\* The time a refused client is told to wait is exact: before it the limit that
\* refused it would refuse it again, from then on that limit admits it, unless,
\* for the common one, others were served since.
RetryIsExact ==
    \A c \in Clients :
        /\ res[c].what = "client" => (Room(c) <=> clock >= res[c].at)
        /\ res[c].what = "global" /\ clock < res[c].at => ~RoomForAll
        /\ res[c].what = "global" /\ clock >= res[c].at
             => RoomForAll \/ frames[Len(frames)] >= res[c].at

\* The dispatch of a request of c.
Dispatched(c) == pipe.st = "reading" /\ pipe.who = c /\ pipe'.st = "writing"
Within(c) == used[c] # Never /\ used[c] + Idle > clock

\* A session is served exactly as long as it is used: a request is unknown only
\* if no frame of that client was admitted within the idle time, and it is
\* served only if one was, however often others came and went.
SessionsFollowUse ==
    [][\A c \in Clients :
         Dispatched(c) /\ cl[c].req = "ask"
             => /\ res'[c].what = "ok" => Within(c)
                /\ res'[c].what = "unknown" => ~Within(c)]_ssVars

\* A client is turned away for want of room only while that many others were
\* served within the idle time; the places of idle clients are free.
CapacityIsReal ==
    [][\A c \in Clients :
         Dispatched(c) /\ res'[c].what = "full"
             => Cardinality({d \in Clients \ {c} : Within(d)}) >= MaxAccepted]_ssVars

\* Whatever a client does - it is silent, cancelled, gone, sends nonsense or is
\* answered too late - the server listens again and the others are served.
ServerComesBack ==
    <>[](/\ pipe.st = "listening"
         /\ \A c \in Clients : cl[c].pc \in {"idle", "stalled"})
=============================================================================
