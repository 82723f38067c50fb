--------------------------- MODULE BackupCatalogMC ---------------------------
(***************************************************************************)
(* Values for the instances of RestoreSource: repositories in the order    *)
(* RESTIC_REPOSITORIES lists them, and time zones.                         *)
(***************************************************************************)
EXTENDS RestoreSource

NearThenFar == <<"near", "far">>

\* Standard and remote points may be one run old, offline points three.
Ages == [standard |-> 1, remote |-> 1, offline |-> 3]

\* One run east of UTC.
East == 1
=============================================================================
