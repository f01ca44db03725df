------------------------------- MODULE Target -------------------------------
(* The four sides of what the host does to a target: recovery intent segments, *)
(* staging, directories, and the ownership of the target.  They share no state: *)
(* each keeps its own documents and rows, and the order of their steps is free. *)
EXTENDS Segments, Staging, Directories, Endpoints

(* Each side by its own specification. *)
TargetSpec == SgSpec /\ TfSpec /\ DirSpec /\ EpSpec

(* The types of the four parts, and what they rely on among themselves: an    *)
(* operation past its intent has a document or a row that says so, documents   *)
(* and rows of one segment agree, transfers keep the plan's order, an outage   *)
(* costs at most one attempt, the directory journal claims only what this      *)
(* program did (or a user's file that its move took along), a conflict has a   *)
(* cause, the catalog lists what is on disk, and evidence was published.       *)
TargetSound ==
    /\ SgTypeOK /\ TfTypeOK /\ DirTypeOK /\ EpTypeOK
    /\ IntentIsEvidenced /\ DocumentsMatchRows
    /\ InPlanOrder /\ OutageCostsOneAttempt
    /\ JournalClaimsOwnWork /\ ConflictHasACause /\ CatalogIsOnDisk
    /\ EvidenceWasPublished

(* No step takes from the target what somebody still needs: what the user put  *)
(* into a directory, the documents of unfinished operations, the ownership of  *)
(* a working owner, the order of the leases two installations were granted.    *)
TargetNeverLoses ==
    UserDataSurvives /\ DocumentsOutliveWork /\ OwnershipMoves /\ GrantsFenced
=============================================================================
