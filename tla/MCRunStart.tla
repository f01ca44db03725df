---------------------------- MODULE MCRunStart ----------------------------
(* Model checking of RunStart: one or two start commands and one check of *)
(* the same job.                                                          *)
EXTENDS RunStart
=============================================================================
