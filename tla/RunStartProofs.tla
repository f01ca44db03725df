--------------------------- MODULE RunStartProofs ---------------------------
(***************************************************************************)
(* Proofs about RunStart, for every set of commands and checks and every   *)
(* bound on crashes, busy databases and lost databases.                    *)
(***************************************************************************)
EXTENDS RunStart, FiniteSetTheorems, TLAPS

\* The steps of advance_run_start.
SagaSteps == {"peer", "confirm", "load", "completePeer", "completeSource", "done"}
Confirmed == {"SOURCE_CONFIRMED", "COMPLETED"}
Committed == {"PEER_COMMITTED", "COMPLETED"}

\* What a thread inside the saga knows of the start it advances: evidence
\* that no other thread takes away as long as no database is lost.
Knows(t) ==
    /\ pc[t] \in SagaSteps => source[cur[t]] # "none" /\ peer[cur[t]] # "AMBIGUOUS"
    /\ pc[t] \in SagaSteps \ {"peer"} =>
         cur[t] \in bound /\ peer[cur[t]] \in Committed
    /\ pc[t] \in {"load", "completePeer", "completeSource"} => source[cur[t]] \in Confirmed
    /\ pc[t] = "completePeer" =>
         /\ seen[t][2] \in Committed
         /\ seen[t][2] = "COMPLETED" => peer[cur[t]] = "COMPLETED"
    /\ pc[t] = "completeSource" => peer[cur[t]] = "COMPLETED"

\* How the threads stand to one another: main builds its runtime alone.
Shape ==
    /\ \A t \in Threads :
         /\ pc[t] \in SagaSteps \cup {"analyse"} => cur[t] \in Starts
         /\ pc[t] = "reconcile" => reconciling[t]
         /\ reconciling[t] => pc[t] \in SagaSteps \cup {"reconcile"}
         /\ pc[t] = "analyse" => t = "executor"
    /\ pc["main"] # "dead"
    /\ reconciling["main"] \/ pc["main"] = "off"
         => \A t \in Threads \ {"main"} : pc[t] = "off"

\* How the two databases stand to one another about a start.
Agree(s) ==
    /\ run[s] = "none" <=> source[s] = "none"
    /\ peer[s] # "AMBIGUOUS"
    /\ peer[s] # "none" => s \in bound /\ source[s] # "none"
    /\ source[s] \in Confirmed => peer[s] # "none"
    /\ source[s] = "COMPLETED" => peer[s] = "COMPLETED"

\* Without a lost database the two agree about every start, and no build finds
\* a disagreement.
Agreement ==
    losses = 0 =>
      /\ \A s \in Starts : Agree(s)
      /\ \A t \in Threads : Knows(t) /\ ~ambiguous[t]
      /\ \A t \in Threads : \A s \in todo[t] : source[s] # "none"
      /\ \A k \in Keys : receipt[k] = "SUCCEEDED" => source[k] \in Confirmed /\ k \in outbox
      /\ writable

\* What main's build has looked at, or a lost row left no trace of.
Handled(s) ==
    \/ s \in todo["main"]
    \/ source[s] = "none" /\ peer[s] = "none"
    \/ /\ source[s] # "none" /\ peer[s] # "AMBIGUOUS"
       /\ source[s] = "COMPLETED" => peer[s] = "COMPLETED"

\* A build that has reported no disagreement met none, lost databases or not.
BuildIsHonest ==
    reconciling["main"] /\ ~ambiguous["main"]
      => Knows("main") /\ \A s \in Starts : Handled(s)

OnlyRun == \A s, u \in Active : s = u

\* The inductive invariant.
IInv == TypeOK /\ Shape /\ Agreement /\ BuildIsHonest /\ OnlyRun
-----------------------------------------------------------------------------
USE StartAssumption
USE DEF vars, catalog, recovery, threads, status, faults, Starts, Threads,
        SagaSteps, Confirmed, Committed

\* The steps one by one.
Moved ==
    \/ \E t \in Threads :
         \/ CommitPeer(t) \/ ConfirmSource(t) \/ LoadHandoffs(t) \/ CompletePeer(t)
         \/ CompleteSource(t) \/ Advanced(t) \/ BuildRuntime(t) \/ ReconcileAmbiguous(t)
         \/ ReconcileHandoff(t) \/ RuntimeBuilt(t) \/ Busy(t)
    \/ \E k \in Keys :
         \/ StartRun(k) \/ StartRunOnCreated(k) \/ StartRunOnActive(k)
         \/ RejectStart(k) \/ ReplayStart(k)
    \/ \E c \in Checks : ClaimCheck(c)
    \/ StartWhenSafe \/ CheckWithoutRun
    \/ \E s \in Starts : \/ PauseRun(s) \/ ResumeRun(s) \/ Execute(s)
                         \/ LoseCatalog(s) \/ LoseRecovery(s)
    \/ Crash
    \/ UNCHANGED vars

\* The steps one by one.
LEMMA Moves == [Next]_vars => Moved
  BY Zenon DEF Next, SagaStep, Build, Command, Moved

\* Every step keeps the variables in their types.
LEMMA TypeStep ==
    ASSUME TypeOK, Shape, [Next]_vars
    PROVE  TypeOK'
<1> USE DEF TypeOK, Shape, RunStates, SourceStates, PeerStates, ReceiptStates, RequestStates
<1>1. ASSUME NEW t \in Threads, CommitPeer(t) PROVE TypeOK'
    BY <1>1 DEF CommitPeer, RecordHandoff, Goto
<1>2. ASSUME NEW t \in Threads, ConfirmSource(t) PROVE TypeOK'
    BY <1>2 DEF ConfirmSource, ReleaseCreatedRun, AcceptReceipt, Goto
<1>3. ASSUME NEW t \in Threads, LoadHandoffs(t) PROVE TypeOK'
    BY <1>3 DEF LoadHandoffs, Goto
<1>4. ASSUME NEW t \in Threads, CompletePeer(t) PROVE TypeOK'
    BY <1>4 DEF CompletePeer, TransitionHandoff, Goto
<1>5. ASSUME NEW t \in Threads, CompleteSource(t) PROVE TypeOK'
    BY <1>5 DEF CompleteSource, TransitionHandoff, Goto
<1>6. ASSUME NEW t \in Threads, Advanced(t) PROVE TypeOK'
    BY <1>6 DEF Advanced, Goto, Answer, Settle
<1>7. ASSUME NEW t \in Threads, BuildRuntime(t) PROVE TypeOK'
    BY <1>7 DEF BuildRuntime, Known, Goto, Serving
<1>8. ASSUME NEW t \in Threads, ReconcileAmbiguous(t) PROVE TypeOK'
    BY <1>8 DEF ReconcileAmbiguous, Diverged, TransitionHandoff
<1>9. ASSUME NEW t \in Threads, ReconcileHandoff(t) PROVE TypeOK'
    BY <1>9 DEF ReconcileHandoff, Diverged, Goto
<1>10. ASSUME NEW t \in Threads, RuntimeBuilt(t) PROVE TypeOK'
    BY <1>10 DEF RuntimeBuilt, Goto
<1>11. ASSUME NEW t \in Threads, Busy(t) PROVE TypeOK'
    <2>1. CASE HostDown /\ UNCHANGED <<answer, request>>
        BY <1>11, <2>1 DEF Busy, HostDown
    <2>2. CASE /\ t # "main" /\ reconciling[t]
               /\ Goto(t, "dead") /\ cur' = [cur EXCEPT ![t] = NoStart]
               /\ todo' = [todo EXCEPT ![t] = {}]
               /\ reconciling' = [reconciling EXCEPT ![t] = FALSE]
               /\ UNCHANGED <<seen, answer, request>>
        BY <1>11, <2>2 DEF Busy, Goto
    <2>3. CASE /\ ~reconciling[t]
               /\ Goto(t, "idle") /\ cur' = [cur EXCEPT ![t] = NoStart]
               /\ IF t = "main" THEN Answer(cur[t], "rejected") ELSE UNCHANGED answer
               /\ IF t = "executor" THEN Settle(cur[t], "FAILED") ELSE UNCHANGED request
               /\ UNCHANGED <<todo, seen, reconciling>>
        BY <1>11, <2>3 DEF Busy, Goto, Answer, Settle
    <2> QED
        BY <1>11, <2>1, <2>2, <2>3 DEF Busy
<1>12. ASSUME NEW k \in Keys, StartRun(k) PROVE TypeOK'
    BY <1>12 DEF StartRun, CreateRun, Unused, Advance, Goto, Serving
<1>13. ASSUME NEW k \in Keys, StartRunOnCreated(k) PROVE TypeOK'
    BY <1>13 DEF StartRunOnCreated, Answer, Active, Serving
<1>14. ASSUME NEW k \in Keys, StartRunOnActive(k) PROVE TypeOK'
    BY <1>14 DEF StartRunOnActive, HostDown
<1>15. ASSUME NEW k \in Keys, RejectStart(k) PROVE TypeOK'
    BY <1>15 DEF RejectStart, Answer
<1>16. ASSUME NEW k \in Keys, ReplayStart(k) PROVE TypeOK'
    BY <1>16 DEF ReplayStart, Advance, Goto, Answer, Serving
<1>17. ASSUME NEW c \in Checks, ClaimCheck(c) PROVE TypeOK'
    BY <1>17 DEF ClaimCheck, Settle, Goto
<1>18. CASE StartWhenSafe
    BY <1>18 DEF StartWhenSafe, CreateRun, Unused, Advance, Goto, Settle
<1>19. CASE CheckWithoutRun
    <2>1. PICK r \in {"SUCCEEDED", "BLOCKED", "FAILED"} :
              request' = [request EXCEPT ![cur["executor"]] = r]
        BY <1>19 DEF CheckWithoutRun, Settle
    <2>2. request' \in [Checks -> RequestStates]
        BY <2>1
    <2> QED
        BY <1>19, <2>2 DEF CheckWithoutRun, Goto
<1>20. ASSUME NEW s \in Starts, PauseRun(s) PROVE TypeOK'
    BY <1>20 DEF PauseRun
<1>21. ASSUME NEW s \in Starts, ResumeRun(s) PROVE TypeOK'
    BY <1>21 DEF ResumeRun
<1>22. ASSUME NEW s \in Starts, Execute(s) PROVE TypeOK'
    BY <1>22 DEF Execute
<1>23. ASSUME NEW s \in Starts, LoseCatalog(s) PROVE TypeOK'
    BY <1>23 DEF LoseCatalog, Up
<1>24. ASSUME NEW s \in Starts, LoseRecovery(s) PROVE TypeOK'
    BY <1>24 DEF LoseRecovery, Up
<1>25. CASE Crash
    BY <1>25 DEF Crash, HostDown, Up
<1>26. CASE UNCHANGED vars
    BY <1>26
<1> HIDE DEF TypeOK, Shape
<1> QED
    BY <1>1, <1>2, <1>3, <1>4, <1>5, <1>6, <1>7, <1>8, <1>9, <1>10, <1>11, <1>12, <1>13,
       <1>14, <1>15, <1>16, <1>17, <1>18, <1>19, <1>20, <1>21, <1>22, <1>23, <1>24, <1>25, <1>26,
       Moves DEF Moved

\* Threads start, work and stop in the order the host gives them.
LEMMA ShapeStep ==
    ASSUME TypeOK, Shape, [Next]_vars
    PROVE  Shape'
<1> USE DEF TypeOK, Shape
<1>1. ASSUME NEW t \in Threads, CommitPeer(t) PROVE Shape'
    BY <1>1 DEF CommitPeer, RecordHandoff, Goto
<1>2. ASSUME NEW t \in Threads, ConfirmSource(t) PROVE Shape'
    BY <1>2 DEF ConfirmSource, ReleaseCreatedRun, AcceptReceipt, Goto
<1>3. ASSUME NEW t \in Threads, LoadHandoffs(t) PROVE Shape'
    BY <1>3 DEF LoadHandoffs, Goto
<1>4. ASSUME NEW t \in Threads, CompletePeer(t) PROVE Shape'
    BY <1>4 DEF CompletePeer, TransitionHandoff, Goto
<1>5. ASSUME NEW t \in Threads, CompleteSource(t) PROVE Shape'
    BY <1>5 DEF CompleteSource, TransitionHandoff, Goto
<1>6. ASSUME NEW t \in Threads, Advanced(t) PROVE Shape'
    BY <1>6 DEF Advanced, Goto, Answer, Settle
<1>7. ASSUME NEW t \in Threads, BuildRuntime(t) PROVE Shape'
    BY <1>7 DEF BuildRuntime, Known, Goto, Serving
<1>8. ASSUME NEW t \in Threads, ReconcileAmbiguous(t) PROVE Shape'
    BY <1>8 DEF ReconcileAmbiguous, Diverged, TransitionHandoff
<1>9. ASSUME NEW t \in Threads, ReconcileHandoff(t) PROVE Shape'
    BY <1>9 DEF ReconcileHandoff, Diverged, Goto
<1>10. ASSUME NEW t \in Threads, RuntimeBuilt(t) PROVE Shape'
    BY <1>10 DEF RuntimeBuilt, Goto
<1>11. ASSUME NEW t \in Threads, Busy(t) PROVE Shape'
    BY <1>11 DEF Busy, HostDown, Goto, Answer, Settle
<1>12. ASSUME NEW k \in Keys, StartRun(k) PROVE Shape'
    BY <1>12 DEF StartRun, CreateRun, Unused, Advance, Goto, Serving
<1>13. ASSUME NEW k \in Keys, StartRunOnCreated(k) PROVE Shape'
    BY <1>13 DEF StartRunOnCreated, Answer, Active, Serving
<1>14. ASSUME NEW k \in Keys, StartRunOnActive(k) PROVE Shape'
    BY <1>14 DEF StartRunOnActive, HostDown, Serving
<1>15. ASSUME NEW k \in Keys, RejectStart(k) PROVE Shape'
    BY <1>15 DEF RejectStart, Answer, Serving
<1>16. ASSUME NEW k \in Keys, ReplayStart(k) PROVE Shape'
    BY <1>16 DEF ReplayStart, Advance, Goto, Answer, Serving
<1>17. ASSUME NEW c \in Checks, ClaimCheck(c) PROVE Shape'
    BY <1>17 DEF ClaimCheck, Settle, Goto
<1>18. CASE StartWhenSafe
    BY <1>18 DEF StartWhenSafe, CreateRun, Unused, Advance, Goto, Settle
<1>19. CASE CheckWithoutRun
    BY <1>19 DEF CheckWithoutRun, Goto, Settle
<1>20. ASSUME NEW s \in Starts, PauseRun(s) PROVE Shape'
    BY <1>20 DEF PauseRun
<1>21. ASSUME NEW s \in Starts, ResumeRun(s) PROVE Shape'
    BY <1>21 DEF ResumeRun
<1>22. ASSUME NEW s \in Starts, Execute(s) PROVE Shape'
    BY <1>22 DEF Execute
<1>23. ASSUME NEW s \in Starts, LoseCatalog(s) PROVE Shape'
    BY <1>23 DEF LoseCatalog, Up
<1>24. ASSUME NEW s \in Starts, LoseRecovery(s) PROVE Shape'
    BY <1>24 DEF LoseRecovery, Up
<1>25. CASE Crash
    BY <1>25 DEF Crash, HostDown, Up
<1>26. CASE UNCHANGED vars
    BY <1>26
<1> HIDE DEF TypeOK, Shape
<1> QED
    BY <1>1, <1>2, <1>3, <1>4, <1>5, <1>6, <1>7, <1>8, <1>9, <1>10, <1>11, <1>12, <1>13,
       <1>14, <1>15, <1>16, <1>17, <1>18, <1>19, <1>20, <1>21, <1>22, <1>23, <1>24, <1>25, <1>26,
       Moves DEF Moved

\* No step makes a second run active.
LEMMA OnlyRunStep ==
    ASSUME TypeOK, Shape, OnlyRun, [Next]_vars
    PROVE  OnlyRun'
<1> USE DEF TypeOK, Shape, OnlyRun, Active, RunStates
<1>1. ASSUME NEW t \in Threads, CommitPeer(t) PROVE OnlyRun'
    BY <1>1 DEF CommitPeer, RecordHandoff, Goto
<1>2. ASSUME NEW t \in Threads, ConfirmSource(t) PROVE OnlyRun'
    BY <1>2 DEF ConfirmSource, ReleaseCreatedRun, AcceptReceipt, Goto
<1>3. ASSUME NEW t \in Threads, LoadHandoffs(t) PROVE OnlyRun'
    BY <1>3 DEF LoadHandoffs, Goto
<1>4. ASSUME NEW t \in Threads, CompletePeer(t) PROVE OnlyRun'
    BY <1>4 DEF CompletePeer, TransitionHandoff, Goto
<1>5. ASSUME NEW t \in Threads, CompleteSource(t) PROVE OnlyRun'
    BY <1>5 DEF CompleteSource, TransitionHandoff, Goto
<1>6. ASSUME NEW t \in Threads, Advanced(t) PROVE OnlyRun'
    BY <1>6 DEF Advanced, Goto, Answer, Settle
<1>7. ASSUME NEW t \in Threads, BuildRuntime(t) PROVE OnlyRun'
    BY <1>7 DEF BuildRuntime, Known, Goto, Serving
<1>8. ASSUME NEW t \in Threads, ReconcileAmbiguous(t) PROVE OnlyRun'
    BY <1>8 DEF ReconcileAmbiguous, Diverged, TransitionHandoff
<1>9. ASSUME NEW t \in Threads, ReconcileHandoff(t) PROVE OnlyRun'
    BY <1>9 DEF ReconcileHandoff, Diverged, Goto
<1>10. ASSUME NEW t \in Threads, RuntimeBuilt(t) PROVE OnlyRun'
    BY <1>10 DEF RuntimeBuilt, Goto
<1>11. ASSUME NEW t \in Threads, Busy(t) PROVE OnlyRun'
    BY <1>11 DEF Busy, HostDown, Goto, Answer, Settle
<1>12. ASSUME NEW k \in Keys, StartRun(k) PROVE OnlyRun'
    BY <1>12 DEF StartRun, CreateRun, Unused, Advance, Goto, Serving
<1>13. ASSUME NEW k \in Keys, StartRunOnCreated(k) PROVE OnlyRun'
    BY <1>13 DEF StartRunOnCreated, Answer, Active, Serving
<1>14. ASSUME NEW k \in Keys, StartRunOnActive(k) PROVE OnlyRun'
    BY <1>14 DEF StartRunOnActive, HostDown
<1>15. ASSUME NEW k \in Keys, RejectStart(k) PROVE OnlyRun'
    BY <1>15 DEF RejectStart, Answer
<1>16. ASSUME NEW k \in Keys, ReplayStart(k) PROVE OnlyRun'
    BY <1>16 DEF ReplayStart, Advance, Goto, Answer, Serving
<1>17. ASSUME NEW c \in Checks, ClaimCheck(c) PROVE OnlyRun'
    BY <1>17 DEF ClaimCheck, Settle, Goto
<1>18. CASE StartWhenSafe
    BY <1>18 DEF StartWhenSafe, CreateRun, Unused, Advance, Goto, Settle
<1>19. CASE CheckWithoutRun
    BY <1>19 DEF CheckWithoutRun, Goto, Settle
<1>20. ASSUME NEW s \in Starts, PauseRun(s) PROVE OnlyRun'
    BY <1>20 DEF PauseRun
<1>21. ASSUME NEW s \in Starts, ResumeRun(s) PROVE OnlyRun'
    BY <1>21 DEF ResumeRun
<1>22. ASSUME NEW s \in Starts, Execute(s) PROVE OnlyRun'
    BY <1>22 DEF Execute
<1>23. ASSUME NEW s \in Starts, LoseCatalog(s) PROVE OnlyRun'
    BY <1>23 DEF LoseCatalog, Up
<1>24. ASSUME NEW s \in Starts, LoseRecovery(s) PROVE OnlyRun'
    BY <1>24 DEF LoseRecovery, Up
<1>25. CASE Crash
    BY <1>25 DEF Crash, HostDown, Up
<1>26. CASE UNCHANGED vars
    BY <1>26
<1> HIDE DEF TypeOK, Shape, OnlyRun
<1> QED
    BY <1>1, <1>2, <1>3, <1>4, <1>5, <1>6, <1>7, <1>8, <1>9, <1>10, <1>11, <1>12, <1>13,
       <1>14, <1>15, <1>16, <1>17, <1>18, <1>19, <1>20, <1>21, <1>22, <1>23, <1>24, <1>25, <1>26,
       Moves DEF Moved

\* As long as no database is lost, no interleaving of threads, crash or busy
\* database makes the two databases disagree.
LEMMA AgreementStep ==
    ASSUME TypeOK, Shape, Agreement, [Next]_vars
    PROVE  Agreement'
<1> USE DEF TypeOK, Shape, Agreement, Agree, Knows, RunStates, SourceStates, PeerStates, ReceiptStates, RequestStates
<1>1. ASSUME NEW t \in Threads, CommitPeer(t) PROVE Agreement'
    BY <1>1 DEF CommitPeer, RecordHandoff, Goto
<1>2. ASSUME NEW t \in Threads, ConfirmSource(t) PROVE Agreement'
    BY <1>2 DEF ConfirmSource, ReleaseCreatedRun, AcceptReceipt, Goto
<1>3. ASSUME NEW t \in Threads, LoadHandoffs(t) PROVE Agreement'
    BY <1>3 DEF LoadHandoffs, Goto
<1>4. ASSUME NEW t \in Threads, CompletePeer(t) PROVE Agreement'
    BY <1>4 DEF CompletePeer, TransitionHandoff, Goto
<1>5. ASSUME NEW t \in Threads, CompleteSource(t) PROVE Agreement'
    BY <1>5 DEF CompleteSource, TransitionHandoff, Goto
<1>6. ASSUME NEW t \in Threads, Advanced(t) PROVE Agreement'
    BY <1>6 DEF Advanced, Goto
<1>7. ASSUME NEW t \in Threads, BuildRuntime(t) PROVE Agreement'
    BY <1>7 DEF BuildRuntime, Known, Goto, Serving
<1>8. ASSUME NEW t \in Threads, ReconcileAmbiguous(t) PROVE Agreement'
    BY <1>8 DEF ReconcileAmbiguous, Diverged, TransitionHandoff
<1>9. ASSUME NEW t \in Threads, ReconcileHandoff(t) PROVE Agreement'
    BY <1>9 DEF ReconcileHandoff, Diverged, Goto
<1>10. ASSUME NEW t \in Threads, RuntimeBuilt(t) PROVE Agreement'
    <2>1. losses' = losses /\ (losses = 0 => writable')
        <3>1. losses = 0 => ~ambiguous[t] /\ writable
            OBVIOUS
        <3> QED
            BY <1>10, <3>1, Zenon DEF RuntimeBuilt
    <2> QED
        BY <1>10, <2>1 DEF RuntimeBuilt, Goto
<1>11. ASSUME NEW t \in Threads, Busy(t) PROVE Agreement'
    BY <1>11 DEF Busy, HostDown, Goto
<1>12. ASSUME NEW k \in Keys, StartRun(k) PROVE Agreement'
    BY <1>12 DEF StartRun, CreateRun, Unused, Advance, Goto, Serving
<1>13. ASSUME NEW k \in Keys, StartRunOnCreated(k) PROVE Agreement'
    BY <1>13 DEF StartRunOnCreated, Serving
<1>14. ASSUME NEW k \in Keys, StartRunOnActive(k) PROVE Agreement'
    BY <1>14 DEF StartRunOnActive, HostDown, Serving
<1>15. ASSUME NEW k \in Keys, RejectStart(k) PROVE Agreement'
    BY <1>15 DEF RejectStart, Serving
<1>16. ASSUME NEW k \in Keys, ReplayStart(k) PROVE Agreement'
    BY <1>16 DEF ReplayStart, Advance, Goto, Serving
<1>17. ASSUME NEW c \in Checks, ClaimCheck(c) PROVE Agreement'
    BY <1>17 DEF ClaimCheck, Goto
<1>18. CASE StartWhenSafe
    BY <1>18 DEF StartWhenSafe, CreateRun, Unused, Advance, Goto
<1>19. CASE CheckWithoutRun
    BY <1>19 DEF CheckWithoutRun, Goto
<1>20. ASSUME NEW s \in Starts, PauseRun(s) PROVE Agreement'
    BY <1>20 DEF PauseRun, Serving
<1>21. ASSUME NEW s \in Starts, ResumeRun(s) PROVE Agreement'
    BY <1>21 DEF ResumeRun, Serving
<1>22. ASSUME NEW s \in Starts, Execute(s) PROVE Agreement'
    BY <1>22 DEF Execute
<1>23. ASSUME NEW s \in Starts, LoseCatalog(s) PROVE Agreement'
    BY <1>23 DEF LoseCatalog, Up
<1>24. ASSUME NEW s \in Starts, LoseRecovery(s) PROVE Agreement'
    BY <1>24 DEF LoseRecovery, Up
<1>25. CASE Crash
    BY <1>25 DEF Crash, HostDown, Up
<1>26. CASE UNCHANGED vars
    BY <1>26
<1> HIDE DEF TypeOK, Shape, Agreement
<1> QED
    BY <1>1, <1>2, <1>3, <1>4, <1>5, <1>6, <1>7, <1>8, <1>9, <1>10, <1>11, <1>12, <1>13,
       <1>14, <1>15, <1>16, <1>17, <1>18, <1>19, <1>20, <1>21, <1>22, <1>23, <1>24, <1>25, <1>26,
       Moves DEF Moved

\* A build that has reported nothing has met nothing.
LEMMA HonestStep ==
    ASSUME TypeOK, Shape, BuildIsHonest, [Next]_vars
    PROVE  BuildIsHonest'
<1> USE DEF TypeOK, Shape, BuildIsHonest, Handled, Knows, RunStates, SourceStates, PeerStates, ReceiptStates, RequestStates
<1>1. ASSUME NEW t \in Threads, CommitPeer(t) PROVE BuildIsHonest'
    BY <1>1 DEF CommitPeer, RecordHandoff, Goto
<1>2. ASSUME NEW t \in Threads, ConfirmSource(t) PROVE BuildIsHonest'
    BY <1>2 DEF ConfirmSource, ReleaseCreatedRun, AcceptReceipt, Goto
<1>3. ASSUME NEW t \in Threads, LoadHandoffs(t) PROVE BuildIsHonest'
    BY <1>3 DEF LoadHandoffs, Goto
<1>4. ASSUME NEW t \in Threads, CompletePeer(t) PROVE BuildIsHonest'
    BY <1>4 DEF CompletePeer, TransitionHandoff, Goto
<1>5. ASSUME NEW t \in Threads, CompleteSource(t) PROVE BuildIsHonest'
    BY <1>5 DEF CompleteSource, TransitionHandoff, Goto
<1>6. ASSUME NEW t \in Threads, Advanced(t) PROVE BuildIsHonest'
    BY <1>6 DEF Advanced, Goto
<1>7. ASSUME NEW t \in Threads, BuildRuntime(t) PROVE BuildIsHonest'
    BY <1>7 DEF BuildRuntime, Known, Goto, Serving
<1>8. ASSUME NEW t \in Threads, ReconcileAmbiguous(t) PROVE BuildIsHonest'
    BY <1>8 DEF ReconcileAmbiguous, Diverged, TransitionHandoff
<1>9. ASSUME NEW t \in Threads, ReconcileHandoff(t) PROVE BuildIsHonest'
    BY <1>9 DEF ReconcileHandoff, Diverged, Goto
<1>10. ASSUME NEW t \in Threads, RuntimeBuilt(t) PROVE BuildIsHonest'
    BY <1>10 DEF RuntimeBuilt, Goto
<1>11. ASSUME NEW t \in Threads, Busy(t) PROVE BuildIsHonest'
    BY <1>11 DEF Busy, HostDown, Goto
<1>12. ASSUME NEW k \in Keys, StartRun(k) PROVE BuildIsHonest'
    BY <1>12 DEF StartRun, CreateRun, Unused, Advance, Goto, Serving
<1>13. ASSUME NEW k \in Keys, StartRunOnCreated(k) PROVE BuildIsHonest'
    BY <1>13 DEF StartRunOnCreated, Serving
<1>14. ASSUME NEW k \in Keys, StartRunOnActive(k) PROVE BuildIsHonest'
    BY <1>14 DEF StartRunOnActive, HostDown, Serving
<1>15. ASSUME NEW k \in Keys, RejectStart(k) PROVE BuildIsHonest'
    BY <1>15 DEF RejectStart, Serving
<1>16. ASSUME NEW k \in Keys, ReplayStart(k) PROVE BuildIsHonest'
    BY <1>16 DEF ReplayStart, Advance, Goto, Serving
<1>17. ASSUME NEW c \in Checks, ClaimCheck(c) PROVE BuildIsHonest'
    BY <1>17 DEF ClaimCheck, Goto
<1>18. CASE StartWhenSafe
    BY <1>18 DEF StartWhenSafe, CreateRun, Unused, Advance, Goto
<1>19. CASE CheckWithoutRun
    BY <1>19 DEF CheckWithoutRun, Goto
<1>20. ASSUME NEW s \in Starts, PauseRun(s) PROVE BuildIsHonest'
    BY <1>20 DEF PauseRun, Serving
<1>21. ASSUME NEW s \in Starts, ResumeRun(s) PROVE BuildIsHonest'
    BY <1>21 DEF ResumeRun, Serving
<1>22. ASSUME NEW s \in Starts, Execute(s) PROVE BuildIsHonest'
    BY <1>22 DEF Execute
<1>23. ASSUME NEW s \in Starts, LoseCatalog(s) PROVE BuildIsHonest'
    BY <1>23 DEF LoseCatalog, Up
<1>24. ASSUME NEW s \in Starts, LoseRecovery(s) PROVE BuildIsHonest'
    BY <1>24 DEF LoseRecovery, Up
<1>25. CASE Crash
    BY <1>25 DEF Crash, HostDown, Up
<1>26. CASE UNCHANGED vars
    BY <1>26
<1> HIDE DEF TypeOK, Shape, BuildIsHonest
<1> QED
    BY <1>1, <1>2, <1>3, <1>4, <1>5, <1>6, <1>7, <1>8, <1>9, <1>10, <1>11, <1>12, <1>13,
       <1>14, <1>15, <1>16, <1>17, <1>18, <1>19, <1>20, <1>21, <1>22, <1>23, <1>24, <1>25, <1>26,
       Moves DEF Moved

-----------------------------------------------------------------------------
\* The initial states satisfy the invariant.
LEMMA InitInv == Init => IInv
  BY DEF Init, IInv, TypeOK, Shape, Agreement, Agree, Knows, BuildIsHonest, OnlyRun,
         Active, RunStates, SourceStates, PeerStates, ReceiptStates, RequestStates

\* The invariant of the two databases and the three threads.
THEOREM Invariance == Spec => []IInv
<1>1. ASSUME IInv, [Next]_vars PROVE IInv'
    BY <1>1, TypeStep, ShapeStep, AgreementStep, HonestStep, OnlyRunStep DEF IInv
<1> QED
    BY InitInv, <1>1, PTL DEF Spec

\* Every variable keeps its type (the rows of run_start_handoffs.py and the
\* threads that advance them).
THEOREM TypeCorrect == Spec => []TypeOK
<1>1. IInv => TypeOK
    BY DEF IInv
<1> QED
    BY Invariance, <1>1, PTL

\* A receipt is settled only with the binding in the recovery database, the
\* confirmed source and the outbox message (confirm_run_start_source).
THEOREM Settled == Spec => []SettledIsBound
<1>1. IInv => SettledIsBound
    BY DEF IInv, Agreement, Agree, SettledIsBound
<1> QED
    BY Invariance, <1>1, PTL

\* No interleaving of the threads that complete the same handoffs, no crash and
\* no busy database makes reconcile_pending disable the commands.
THEOREM NeverFalselyAmbiguous == Spec => []NoFalseAmbiguity
<1>1. IInv => NoFalseAmbiguity
    BY DEF IInv, Agreement, Agree, NoFalseAmbiguity
<1> QED
    BY Invariance, <1>1, PTL

\* However many commands, checks and replays race, one run at most is active
\* (save_started_run).
THEOREM NeverTwoRuns == Spec => []OneActiveRun
<1>1. IInv => OneActiveRun
    <2> SUFFICES ASSUME OnlyRun PROVE Cardinality(Active) <= 1
        BY DEF IInv, OneActiveRun
    <2>1. CASE Active = {}
        BY <2>1, FS_EmptySet
    <2>2. CASE Active # {}
        <3>1. PICK s \in Active : Active = {s}
            BY <2>2 DEF OnlyRun
        <3> QED
            BY <3>1, FS_Singleton
    <2> QED
        BY <2>1, <2>2
<1> QED
    BY Invariance, <1>1, PTL

\* Main begins to serve while the databases disagree about a run.
Noticed ==
    /\ Serving' /\ ~Serving /\ reconciling["main"]
    /\ \E s \in Starts : Diverged(s)' /\ Known(s)'

\* Main begins to serve only at the end of its build, which has looked at every
\* start by then.
LEMMA DivergenceStep ==
    ASSUME IInv, [Next]_vars, Noticed
    PROVE  ~writable'
<1> USE DEF IInv, TypeOK, Shape, BuildIsHonest, Handled, Diverged, Known, Noticed, Serving
<1>1. ASSUME NEW t \in Threads, CommitPeer(t) PROVE ~writable'
    BY <1>1 DEF CommitPeer, RecordHandoff, Goto
<1>2. ASSUME NEW t \in Threads, ConfirmSource(t) PROVE ~writable'
    BY <1>2 DEF ConfirmSource, ReleaseCreatedRun, AcceptReceipt, Goto
<1>3. ASSUME NEW t \in Threads, LoadHandoffs(t) PROVE ~writable'
    BY <1>3 DEF LoadHandoffs, Goto
<1>4. ASSUME NEW t \in Threads, CompletePeer(t) PROVE ~writable'
    BY <1>4 DEF CompletePeer, TransitionHandoff, Goto
<1>5. ASSUME NEW t \in Threads, CompleteSource(t) PROVE ~writable'
    BY <1>5 DEF CompleteSource, TransitionHandoff, Goto
<1>6. ASSUME NEW t \in Threads, Advanced(t) PROVE ~writable'
    BY <1>6 DEF Advanced, Goto
<1>7. ASSUME NEW t \in Threads, BuildRuntime(t) PROVE ~writable'
    BY <1>7 DEF BuildRuntime, Known, Goto, Serving
<1>8. ASSUME NEW t \in Threads, ReconcileAmbiguous(t) PROVE ~writable'
    BY <1>8 DEF ReconcileAmbiguous, Diverged, TransitionHandoff
<1>9. ASSUME NEW t \in Threads, ReconcileHandoff(t) PROVE ~writable'
    BY <1>9 DEF ReconcileHandoff, Diverged, Goto
<1>10. ASSUME NEW t \in Threads, RuntimeBuilt(t) PROVE ~writable'
    BY <1>10 DEF RuntimeBuilt, Goto
<1>11. ASSUME NEW t \in Threads, Busy(t) PROVE ~writable'
    BY <1>11 DEF Busy, HostDown, Goto
<1>12. ASSUME NEW k \in Keys, StartRun(k) PROVE ~writable'
    BY <1>12 DEF StartRun, CreateRun, Unused, Advance, Goto, Serving
<1>13. ASSUME NEW k \in Keys, StartRunOnCreated(k) PROVE ~writable'
    BY <1>13 DEF StartRunOnCreated, Serving
<1>14. ASSUME NEW k \in Keys, StartRunOnActive(k) PROVE ~writable'
    BY <1>14 DEF StartRunOnActive, HostDown, Serving
<1>15. ASSUME NEW k \in Keys, RejectStart(k) PROVE ~writable'
    BY <1>15 DEF RejectStart, Serving
<1>16. ASSUME NEW k \in Keys, ReplayStart(k) PROVE ~writable'
    BY <1>16 DEF ReplayStart, Advance, Goto, Serving
<1>17. ASSUME NEW c \in Checks, ClaimCheck(c) PROVE ~writable'
    BY <1>17 DEF ClaimCheck, Goto
<1>18. CASE StartWhenSafe
    BY <1>18 DEF StartWhenSafe, CreateRun, Unused, Advance, Goto
<1>19. CASE CheckWithoutRun
    BY <1>19 DEF CheckWithoutRun, Goto
<1>20. ASSUME NEW s \in Starts, PauseRun(s) PROVE ~writable'
    BY <1>20 DEF PauseRun, Serving
<1>21. ASSUME NEW s \in Starts, ResumeRun(s) PROVE ~writable'
    BY <1>21 DEF ResumeRun, Serving
<1>22. ASSUME NEW s \in Starts, Execute(s) PROVE ~writable'
    BY <1>22 DEF Execute
<1>23. ASSUME NEW s \in Starts, LoseCatalog(s) PROVE ~writable'
    BY <1>23 DEF LoseCatalog, Up
<1>24. ASSUME NEW s \in Starts, LoseRecovery(s) PROVE ~writable'
    BY <1>24 DEF LoseRecovery, Up
<1>25. CASE Crash
    BY <1>25 DEF Crash, HostDown, Up
<1>26. CASE UNCHANGED vars
    BY <1>26
<1> HIDE DEF IInv, Noticed
<1> QED
    BY <1>1, <1>2, <1>3, <1>4, <1>5, <1>6, <1>7, <1>8, <1>9, <1>10, <1>11, <1>12, <1>13,
       <1>14, <1>15, <1>16, <1>17, <1>18, <1>19, <1>20, <1>21, <1>22, <1>23, <1>24, <1>25, <1>26,
       Moves DEF Moved

\* A lost database is noticed, catalog or recovery database: a host that comes
\* up while the two disagree takes no commands (reconcile_pending, ambiguous).
THEOREM DivergenceNoticed == Spec => DivergenceBlocksCommands
<1>1. ASSUME IInv, [Next]_vars PROVE Noticed => ~writable'
    BY <1>1, DivergenceStep
<1>2. (Noticed => ~writable') <=>
        ((Serving' /\ ~Serving /\ reconciling["main"]
            /\ \E s \in Starts : Diverged(s)' /\ Known(s)') => ~writable')
    BY DEF Noticed
<1> QED
    BY Invariance, <1>1, <1>2, PTL DEF Spec, DivergenceBlocksCommands
=============================================================================
