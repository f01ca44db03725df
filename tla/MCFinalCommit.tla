---------------------------- MODULE MCFinalCommit ----------------------------
(***************************************************************************)
(* Instances of FinalCommit for TLC.                                       *)
(***************************************************************************)
EXTENDS FinalCommit
=============================================================================
