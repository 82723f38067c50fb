----------------------------- MODULE RestoreSource -----------------------------
(***************************************************************************)
(* The catalogue of BackupCatalog together with those who read it while it *)
(* changes: `restore run`, which chooses a point once it holds the         *)
(* operation lock, verifies it and works from its directory until it ends  *)
(* (internal/restore/restore.go, Run and Resolve), and the offline status  *)
(* report, which takes no lock (internal/backup/offline.go).               *)
(*                                                                         *)
(* The fetch that `restore run --repository` starts with is the Fetch of   *)
(* BackupCatalog: it comes before the lock, so that anything may happen    *)
(* between the two.  What the restore does with its point is RestoreRun.   *)
(***************************************************************************)
EXTENDS BackupCatalog

CONSTANT OfflineMaxAge   \* OFFLINE_BACKUP_MAX_AGE, in runs

ASSUME OfflineAgeIsSet == OfflineMaxAge \in Nat

VARIABLE restoring   \* the point the restore under way works from, 0 for none

sourceVars == <<vars, restoring>>

SourceTypeOK == TypeOK /\ restoring \in 0..MaxRuns

-----------------------------------------------------------------------------
(* The restore.                                                            *)

\* Mutant: the restore looks for its point before it has the lock.
LockIsFreeMutant == restoring = 0

\* operation.Acquire: a backup run or a restore has the lock, never both.
LockIsFree == pc = "idle" /\ restoring = 0

\* Mutant: the list is sorted by age.
NewestMutant(points) == {p \in points : \A q \in points : Created(p) <= Created(q)}

\* List sorts by time, and points of the same time in any order.
Newest(points) == {p \in points : \A q \in points : Created(p) >= Created(q)}

\* Verify: the manifest is readable and complete, and every file is there.
Verified(p) == p.whole /\ p.delivery \in {"none", "delivered"}

\* A point that does not verify ends the restore before anything is touched.
Apply(p) ==
  /\ Verified(p)
  /\ restoring' = p.id
  /\ UNCHANGED vars

\* Without an identifier, or with "latest", the newest directory is chosen,
\* whatever the state of its manifest; an identifier names its directory.
ResolveLatest == LockIsFree /\ \E p \in Newest(local) : Apply(p)
ResolveNamed == LockIsFree /\ \E p \in local : Apply(p)

\* The restore succeeds, fails or is killed.
EndRestore ==
  /\ restoring # 0
  /\ restoring' = 0
  /\ UNCHANGED vars

RestoreStep == ResolveLatest \/ ResolveNamed \/ EndRestore

-----------------------------------------------------------------------------
(* The composition: a backup run needs the lock, a fetch does not.         *)

CatalogStep ==
  /\ \/ LockIsFree /\ \E k \in Kinds : Publish(k)
     \/ RunStep
     \/ Crash
     \/ \E r \in Repos : Fetch(r)
  /\ UNCHANGED restoring

SourceInit == Init /\ restoring = 0
SourceNext == CatalogStep \/ RestoreStep
SourceSpec == SourceInit /\ [][SourceNext]_sourceVars

-----------------------------------------------------------------------------
(* The offline status.                                                     *)

\* Mutant: the report is content with a point that verifies.
OfflineReadyMutant ==
  \E p \in Newest(OfKind("offline", local)) :
    run - Created(p) \in 0..OfflineMaxAge /\ Verified(p)

\* CheckOfflineStatus finds no problem with the newest offline point: it is
\* fresh, verifies, and its manifest records the delivery.
OfflineReady ==
  \E p \in Newest(OfKind("offline", local)) :
    run - Created(p) \in 0..OfflineMaxAge /\ VerifiedDelivered(p)

-----------------------------------------------------------------------------
(* Properties.                                                             *)

\* From the moment a restore takes the node apart to its end its point is there
\* and whole, whatever was rotated out, torn or fetched before and is fetched
\* meanwhile.
RestoresWhatItVerified ==
  restoring # 0 => \E p \in local : p.id = restoring /\ Verified(p)

\* A restore of the latest point never goes back behind a newer good one, even
\* where broken manifests make points look newer or older than they are.
LatestIsNewestGood ==
  [][ResolveLatest => \A q \in local : Verified(q) => q.id <= restoring']_sourceVars

\* When the offline status reports no problem with the newest point, every
\* repository holds an offline point that is recent enough too.
OfflineReportIsTrue ==
  OfflineReady =>
    \A r \in Repos : \E s \in snaps[r] : s.kind = "offline" /\ run - s.id <= OfflineMaxAge

\* Why: no backup run works beside a restore.
Alone == restoring # 0 => pc = "idle"

SourceInv == CatalogInv /\ restoring \in 0..MaxRuns /\ Alone /\ RestoresWhatItVerified
=============================================================================
