--------------------------- MODULE RecoveryPhases ---------------------------
(***************************************************************************)
(* The phases of one recovery operation (one file of one run target) and   *)
(* the transitions the recovery journal accepts: the enumeration, the      *)
(* success path and the terminal outcomes of                               *)
(* application/recovery_operations.py.                                     *)
(***************************************************************************)

\* The phases before the commit intent is durable.
PreCommitPhases ==
    {"PLANNED", "SOURCE_VALIDATED", "SOURCE_STABILITY_BOUND",
     "TARGET_PRECONDITION_VALIDATED", "STAGING_ALLOCATED", "TRANSFERRED",
     "STAGING_DURABLE", "STAGING_VERIFIED"}

\* The phases from the durable commit intent to the catalog record.
CommitPhases ==
    {"COMMIT_INTENT_RECORDED", "COMMIT_PRECONDITIONS_REVALIDATED",
     "OLD_TARGET_PRESERVED", "FILESYSTEM_APPLIED", "FINAL_DURABLE",
     "FINAL_VERIFIED", "CATALOG_RECORDED"}

TerminalPhases ==
    {"CLEANED", "SKIPPED", "CONFLICT", "DEFERRED", "FAILED_RETRYABLE",
     "FAILED_BLOCKED", "CANCELLED", "ROLLBACK_REQUIRED",
     "USER_DECISION_REQUIRED"}

Phases == PreCommitPhases \cup CommitPhases \cup TerminalPhases

\* The forward edges of the success path.
SuccessTransitions ==
    {<<"PLANNED", "SOURCE_VALIDATED">>,
     <<"SOURCE_VALIDATED", "SOURCE_STABILITY_BOUND">>,
     <<"SOURCE_STABILITY_BOUND", "TARGET_PRECONDITION_VALIDATED">>,
     <<"TARGET_PRECONDITION_VALIDATED", "STAGING_ALLOCATED">>,
     <<"STAGING_ALLOCATED", "TRANSFERRED">>,
     <<"TRANSFERRED", "STAGING_DURABLE">>,
     <<"STAGING_DURABLE", "STAGING_VERIFIED">>,
     <<"STAGING_VERIFIED", "COMMIT_INTENT_RECORDED">>,
     <<"COMMIT_INTENT_RECORDED", "COMMIT_PRECONDITIONS_REVALIDATED">>,
     <<"COMMIT_PRECONDITIONS_REVALIDATED", "OLD_TARGET_PRESERVED">>,
     <<"COMMIT_PRECONDITIONS_REVALIDATED", "FILESYSTEM_APPLIED">>,
     <<"OLD_TARGET_PRESERVED", "FILESYSTEM_APPLIED">>,
     <<"FILESYSTEM_APPLIED", "FINAL_DURABLE">>,
     <<"FINAL_DURABLE", "FINAL_VERIFIED">>,
     <<"FINAL_VERIFIED", "CATALOG_RECORDED">>,
     <<"CATALOG_RECORDED", "CLEANED">>}

\* validate_recovery_phase_transition: nothing leaves a terminal phase, any
\* other phase may end in any terminal phase or take a success edge.
PhaseTransitionAllowed(p, q) ==
    /\ p \notin TerminalPhases
    /\ q \in TerminalPhases \/ <<p, q>> \in SuccessTransitions
=============================================================================
