---------------------------- MODULE BackupCatalog ----------------------------
(***************************************************************************)
(* What one `backup run` after the other does with its recovery point once *)
(* it is published (internal/backup/run.go, Run from os.Rename on, and     *)
(* restic.go): the point is stored in every Restic repository, its local   *)
(* manifest records the delivery, old local points of its kind are rotated *)
(* out and the success markers are written.  `restore run --repository`    *)
(* fetches a point back at any time: it takes no lock for that.            *)
(*                                                                         *)
(* Points are numbered by run.  A run ends at any step by an error, or is  *)
(* killed; what its step leaves half done stays.                           *)
(***************************************************************************)
EXTENDS Integers, Sequences, FiniteSets, FiniteSetsExt

CONSTANTS
  Repositories,      \* RESTIC_REPOSITORIES, in order
  Remote,            \* the repositories that are not local
  LegacyRemote,      \* is RESTIC_REPOSITORY set too, to a remote one?
  LocalRetention, OfflineRetention,  \* how many local points of a kind are kept
  KeepLast,          \* restic forget --keep-last
  RemoteRequired,    \* BACKUP_REQUIRE_REMOTE_REPOSITORY
  MaxAge,            \* the age a marker may have, in runs; 0 for any age
  Skew,              \* local time minus UTC, in runs
  MaxRuns,           \* bound: runs in a behaviour
  MaxCrashes         \* bound: killed runs

Repos == {Repositories[i] : i \in 1..Len(Repositories)}
Kinds == {"standard", "offline"}
Markers == {"standard", "offline", "remote"}

ASSUME RepositoriesAreListed ==
  Repositories \in Seq(Repos) /\ Repositories # <<>> /\ Remote \subseteq Repos
ASSUME SomethingIsRemote == LegacyRemote \in BOOLEAN /\ (LegacyRemote \/ Remote # {})
ASSUME RetentionIsPositive ==
  {LocalRetention, OfflineRetention, KeepLast} \subseteq Nat \ {0} /\ Skew \in Int
ASSUME AgesAreSet == RemoteRequired \in BOOLEAN /\ MaxAge \in [Markers -> Nat]
ASSUME CatalogBounds == MaxRuns \in Nat /\ MaxCrashes \in Nat

VARIABLES
  pc,       \* what the run does next
  run,      \* the number of the current or last run
  kind,     \* its kind (--include-images)
  next,     \* the repository it is at
  local,    \* the local points: directories under the backup root
  snaps,    \* the snapshots of each repository
  status,   \* the run each success marker names, 0 if there is no marker
  crashes

vars == <<pc, run, kind, next, local, snaps, status, crashes>>

\* delivery: what the manifest says of it; "torn" when it cannot be read.
\* whole: every file the manifest names is there.
LocalPoint == [id : 1..MaxRuns, kind : Kinds, whole : BOOLEAN,
               delivery : {"none", "delivered", "failed", "torn"}]
Snapshot == [id : 1..MaxRuns, kind : Kinds]

TypeOK ==
  /\ pc \in {"idle", "store", "forget", "record", "rotate", "standard", "offline",
             "remote", "inspect"}
  /\ run \in 0..MaxRuns /\ kind \in Kinds
  /\ next \in 1..Len(Repositories)
  /\ local \subseteq LocalPoint
  /\ \A p, q \in local : p.id = q.id => p = q
  /\ snaps \in [Repos -> SUBSET Snapshot]
  /\ status \in [Markers -> 0..MaxRuns]
  /\ crashes \in 0..MaxCrashes

Init ==
  /\ pc = "idle" /\ run = 0 /\ kind = "standard" /\ next = 1
  /\ local = {} /\ snaps = [r \in Repos |-> {}]
  /\ status = [m \in Markers |-> 0]
  /\ crashes = 0

Ids(points) == {p.id : p \in points}

-----------------------------------------------------------------------------
(* Delivery.                                                               *)

Publish(k) ==
  /\ pc = "idle" /\ run < MaxRuns
  /\ run' = run + 1 /\ kind' = k /\ next' = 1
  /\ local' = local \cup
       {[id |-> run + 1, kind |-> k, whole |-> TRUE, delivery |-> "none"]}
  /\ pc' = "store"
  /\ UNCHANGED <<snaps, status, crashes>>

Stored == [snaps EXCEPT ![Repositories[next]] = @ \cup {[id |-> run, kind |-> kind]}]

\* The snapshot is stored and queried back by its tag.
Store ==
  /\ pc = "store"
  /\ snaps' = Stored
  /\ pc' = "forget"
  /\ UNCHANGED <<run, kind, next, local, status, crashes>>

\* The n last of a set of snapshots.
Last(n, set) == {s \in set : Cardinality({t \in set : t.id > s.id}) < n}

OfKind(k, points) == {s \in points : s.kind = k}

\* Mutant: the retention does not look at the kind.
ForgottenMutant == [snaps EXCEPT ![Repositories[next]] = Last(KeepLast, @)]

\* The retention of a repository counts the snapshots of the run's kind only.
Forgotten ==
  [snaps EXCEPT ![Repositories[next]] =
    (@ \ OfKind(kind, @)) \cup Last(KeepLast, OfKind(kind, @))]

\* Mutant: the first repository is enough.
ForgetMutant ==
  /\ pc = "forget"
  /\ snaps' = Forgotten
  /\ pc' = "record"
  /\ UNCHANGED <<run, kind, next, local, status, crashes>>

Forget ==
  /\ pc = "forget"
  /\ snaps' = Forgotten
  /\ IF next < Len(Repositories)
     THEN pc' = "store" /\ next' = next + 1
     ELSE pc' = "record" /\ UNCHANGED next
  /\ UNCHANGED <<run, kind, local, status, crashes>>

\* The manifest of the run's point is rewritten in place.
Recorded(delivery) ==
  {IF p.id = run THEN [p EXCEPT !.delivery = delivery] ELSE p : p \in local}

Record ==
  /\ pc = "record"
  /\ local' = Recorded("delivered")
  /\ pc' = "rotate"
  /\ UNCHANGED <<run, kind, next, snaps, status, crashes>>

-----------------------------------------------------------------------------
(* Rotation.                                                               *)

\* inspect: a manifest that is unreadable or not complete does not give its
\* time, and the identifier, which is local time, is read as UTC.
Created(p) == IF p.delivery \in {"none", "delivered"} THEN p.id ELSE p.id + Skew

\* verifiedDeliveredOfflineRecoveryPoint
VerifiedDelivered(p) == p.kind = "offline" /\ p.whole /\ p.delivery = "delivered"

\* Mutant: every offline point counts.
CandidatesMutant == OfKind(kind, local)

\* The points the retention of the run's kind counts.
Candidates ==
  IF kind = "offline" THEN {p \in local : VerifiedDelivered(p)} ELSE OfKind("standard", local)

\* Mutant: the oldest are kept.
KeptMutant(retention) ==
  {keep \in SUBSET Candidates :
     /\ Cardinality(keep) = Min({retention, Cardinality(Candidates)})
     /\ \A p \in keep, q \in Candidates \ keep : Created(p) <= Created(q)}

\* The sets of newest points the sort may put first (ties in any order).
Kept(retention) ==
  {keep \in SUBSET Candidates :
     /\ Cardinality(keep) = Min({retention, Cardinality(Candidates)})
     /\ \A p \in keep, q \in Candidates \ keep : Created(p) >= Created(q)}

Retention == IF kind = "offline" THEN OfflineRetention ELSE LocalRetention

Rotate ==
  /\ pc = "rotate"
  /\ \E keep \in Kept(Retention) : local' = local \ (Candidates \ keep)
  /\ pc' = "standard"
  /\ UNCHANGED <<run, kind, next, snaps, status, crashes>>

\* What is left of a directory whose removal is cut short: the manifest or the
\* images may be among the files already gone.
Remains(p) ==
  [id : {p.id}, whole : {FALSE}, kind : {p.kind, "standard"},
   delivery : {p.delivery, "torn"}]

\* One more point is half removed.
HalfRemoved(left, p) == {(left \ {p}) \cup {rest} : rest \in Remains(p)}

\* A rotation cut short: some points are gone and one may be half removed.
Left(doomed) == {local \ gone : gone \in SUBSET doomed}
CutShort(doomed) ==
  Left(doomed) \cup UNION {UNION {HalfRemoved(left, p) : left \in Left(doomed)} : p \in doomed}
HalfRotated == UNION {CutShort(Candidates \ keep) : keep \in Kept(Retention)}

-----------------------------------------------------------------------------
(* The success markers.                                                    *)

RemoteDelivered == LegacyRemote \/ Remote # {}

\* Mutant: the marker of the offline points does not look at the kind of the run.
MarkedMutant(m) == m = "remote" => RemoteDelivered

\* Which markers a run writes, in the order standard, offline, remote.
Marked(m) ==
  CASE m = "standard" -> TRUE
    [] m = "offline"  -> kind = "offline"
    [] m = "remote"   -> RemoteDelivered

AfterMarker == [standard |-> "offline", offline |-> "remote", remote |-> "inspect"]

WriteSuccessStatus ==
  /\ pc \in Markers
  /\ status' = IF Marked(pc) THEN [status EXCEPT ![pc] = run] ELSE status
  /\ pc' = AfterMarker[pc]
  /\ UNCHANGED <<run, kind, next, local, snaps, crashes>>

\* The run succeeds only if its point is still there.
Inspect ==
  /\ pc = "inspect"
  /\ run \in Ids(local)
  /\ pc' = "idle"
  /\ UNCHANGED <<run, kind, next, local, snaps, status, crashes>>

\* The markers `backup status` insists on; an age limit makes the offline one so.
Required ==
  {"standard"} \cup {m \in {"remote"} : RemoteRequired}
               \cup {m \in {"offline"} : MaxAge[m] > 0}

\* CheckFreshness, for one marker.
Fresh(m) ==
  /\ status[m] # 0
  /\ MaxAge[m] = 0 \/ run - status[m] <= MaxAge[m]

FreshnessFailed == \E m \in Required : ~Fresh(m)

-----------------------------------------------------------------------------
(* Errors, kills, and the fetch.                                           *)

\* What a step cut short leaves in the repositories: all of its effect or none.
CutSnaps ==
  CASE pc = "store"  -> {snaps, Stored}
    [] pc = "forget" -> {snaps, Forgotten}
    [] OTHER -> {snaps}

\* ... and in the local directory: os.WriteFile truncates before it writes.
CutLocal ==
  CASE pc = "record" -> {Recorded(d) : d \in {"none", "torn"}}
    [] pc = "rotate" -> HalfRotated
    [] OTHER -> {local}

\* An error ends the run.  If it is an error of the delivery, the manifest is
\* made incomplete, and an error of that is ignored.
Fail ==
  /\ pc # "idle"
  /\ snaps' \in CutSnaps
  /\ local' \in IF pc \in {"store", "forget"}
                THEN {Recorded(d) : d \in {"failed", "none", "torn"}} ELSE CutLocal
  /\ pc' = "idle"
  /\ UNCHANGED <<run, kind, next, status, crashes>>

Crash ==
  /\ crashes < MaxCrashes
  /\ pc # "idle"
  /\ snaps' \in CutSnaps /\ local' \in CutLocal
  /\ crashes' = crashes + 1
  /\ pc' = "idle"
  /\ UNCHANGED <<run, kind, next, status>>

\* Mutant: a point that is there already is fetched once more.
FetchMutant(r) ==
  /\ \E s \in snaps[r] :
       local' = local \cup
         {[id |-> s.id, kind |-> s.kind, whole |-> TRUE, delivery |-> "none"]}
  /\ UNCHANGED <<pc, run, kind, next, snaps, status, crashes>>

\* RestoreFromRestic: a point that has no local directory comes back as it was
\* stored, before its delivery was recorded.
Fetch(r) ==
  /\ \E s \in snaps[r] :
       /\ s.id \notin Ids(local)
       /\ local' = local \cup
            {[id |-> s.id, kind |-> s.kind, whole |-> TRUE, delivery |-> "none"]}
  /\ UNCHANGED <<pc, run, kind, next, snaps, status, crashes>>

RunStep == Store \/ Forget \/ Record \/ Rotate \/ WriteSuccessStatus \/ Inspect \/ Fail

Next ==
  \/ \E k \in Kinds : Publish(k)
  \/ RunStep
  \/ Crash
  \/ \E r \in Repos : Fetch(r)

Spec == Init /\ [][Next]_vars

-----------------------------------------------------------------------------
(* Properties.                                                             *)

\* What a marker promises: every repository still holds a point at least as
\* recent as the one the marker names, of that kind for the offline marker,
\* however many later runs failed or were killed half-way through the
\* repositories and their retention.
MarkersAreHeld ==
  \A m \in Markers : status[m] # 0 =>
    \A r \in Repos : \E s \in snaps[r] :
      s.id >= status[m] /\ (m = "offline" => s.kind = "offline")

\* What the operator reads off `backup status`: as long as it reports no failure,
\* every repository, remote or not, holds points as recent as each limit that is
\* required asks, of the offline kind for the offline one.
FreshMeansRecoverable ==
  ~FreshnessFailed =>
    \A m \in Required : \A r \in Repos : \E s \in snaps[r] :
      /\ MaxAge[m] = 0 \/ run - s.id <= MaxAge[m]
      /\ m = "offline" => s.kind = "offline"

\* A point is recorded as delivered only when every repository holds it.
DeliveredEverywhere ==
  [][\A p \in local' : p.delivery = "delivered" /\ p \notin local /\ p.whole
       => \A r \in Repos : p.id \in Ids(snaps'[r])]_vars

\* A run that rotates old points never rotates out its own, even when points
\* with a broken manifest sort as newer than they are.
OwnPointSurvives ==
  pc \in Markers \cup {"inspect"} =>
    \E p \in local : p.id = run /\ p.whole /\ p.delivery = "delivered"

\* A good offline point disappears only when enough newer good ones stay:
\* failed, torn or fetched points never push it out.
GoodOfflinePointsStay ==
  [][\A p \in local : VerifiedDelivered(p) /\ p \notin local' =>
       Cardinality({q \in local' : VerifiedDelivered(q) /\ q.id > p.id})
         >= OfflineRetention]_vars

\* "Remote delivery is mandatory": the remote marker names a point that some
\* remote repository has received.
RemoteMarkerIsRemote ==
  [][status'["remote"] # status["remote"] =>
       \E r \in Remote : status'["remote"] \in Ids(snaps'[r])]_vars

-----------------------------------------------------------------------------
(* Why: the inductive invariant.                                           *)

\* Runs are numbered upwards.
NothingIsAhead ==
  /\ \A r \in Repos : \A s \in snaps[r] : s.id <= run
  /\ \A p \in local : p.id <= run

\* The repositories behind the run hold its point.
DeliveredSoFar ==
  \A i \in 1..Len(Repositories) :
    \/ pc = "store" /\ i < next
    \/ pc = "forget" /\ i <= next
    \/ pc \in {"record", "rotate", "inspect"} \cup Markers
    => [id |-> run, kind |-> kind] \in snaps[Repositories[i]]

Own(delivery) == [id |-> run, kind |-> kind, whole |-> TRUE, delivery |-> delivery]

\* The run's own point until the rotation.
OwnPointReady ==
  /\ pc \in {"store", "forget", "record"} => Own("none") \in local
  /\ pc = "rotate" => Own("delivered") \in local

\* What the delivery of a good offline point has left in the repositories.
DeliveredHeld ==
  \A p \in local : VerifiedDelivered(p) =>
    \A r \in Repos : \E s \in snaps[r] : s.kind = "offline" /\ s.id >= p.id

CatalogInv ==
  /\ TypeOK /\ NothingIsAhead /\ DeliveredSoFar /\ OwnPointReady
  /\ MarkersAreHeld /\ DeliveredHeld

-----------------------------------------------------------------------------
(* The abstract specification.                                             *)

\* The runs that every repository is as recent as with points of a kind.
HeldEverywhere(k) == {n \in 1..MaxRuns : \A r \in Repos : \E s \in OfKind(k, snaps[r]) : s.id >= n}

\* Whatever fails or is killed half-way through repositories, retention and
\* rotation, what can be recovered never gets older, and a marker only moves on
\* to what can be recovered.
Recovery == INSTANCE RecoveryContract WITH
  Serves <- [m \in Markers |-> IF m = "offline" THEN {"offline"} ELSE Kinds],
  held <- [k \in Kinds |-> HeldEverywhere(k)],
  promised <- status
RecoverySpec == Recovery!RSpec
=============================================================================
