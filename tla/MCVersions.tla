----------------------------- MODULE MCVersions -----------------------------
(* Model checking of VersionRestore: two versions of one file, of two jobs. *)
EXTENDS VersionRestore

MCVersionSet == 1..2
MCJobOf == <<"j1", "j2">>

(* Restores and undos end, with a crash, an error or an edit at any step. *)
RestoresSettle == RestoreSettles /\ UndoSettles
=============================================================================
