---------------------------- MODULE MCRunControl ----------------------------
(* Two targets; the first has two files, the second one.                   *)
EXTENDS RunControl

MCOps == {1, 2, 3}
MCTargetOf == [o \in MCOps |-> IF o = 3 THEN 2 ELSE 1]

(* A run that was asked to pause pauses, a run ends, and one that has ended   *)
(* never changes again.                                                        *)
RunsMoveOn == EndedRunsStay /\ PauseReached /\ RunSettles
=============================================================================
