-------------------------- MODULE BackupCatalogProofs --------------------------
(***************************************************************************)
(* Proofs about BackupCatalog and RestoreSource, for any repositories,     *)
(* retention, ages and number of runs, kills, fetches and restores.        *)
(***************************************************************************)
EXTENDS RestoreSource, FiniteSetTheorems, FunctionTheorems, TLAPS

-----------------------------------------------------------------------------
(* Sets of numbers, and what the retention of a repository keeps.          *)

LEMMA HasSmallest ==
  ASSUME NEW S \in SUBSET Nat, S # {}
  PROVE  \E m \in S : \A k \in S : m <= k
<1>1. PICK m \in S : \A k \in S : <<k, m>> \notin OpToRel(<, Nat)
  BY WFMin, NatLessThanWellFounded
<1>2. \A k \in S : ~(k < m)
  BY <1>1, Zenon DEF OpToRel
<1> QED BY <1>2

LEMMA HasLargest ==
  ASSUME NEW S \in SUBSET Nat, S # {}, NEW n \in Nat, \A k \in S : k <= n
  PROVE  \E m \in S : \A k \in S : k <= m
<1> DEFINE Bounds == {u \in Nat : \A k \in S : k <= u}
<1>1. n \in Bounds
  OBVIOUS
<1>2. PICK m \in Bounds : \A u \in Bounds : m <= u
  BY <1>1, HasSmallest
<1>3. m \in S
  <2> SUFFICES ASSUME m \notin S PROVE FALSE
    OBVIOUS
  <2>1. \A k \in S : k < m
    BY <1>2
  <2>2. PICK k \in S : k \in Nat
    OBVIOUS
  <2>3. m - 1 \in Nat
    BY <2>1, <2>2, <1>2
  <2>4. \A j \in S : j <= m - 1
    BY <2>1, <1>2
  <2> QED BY <2>3, <2>4, <1>2
<1> QED BY <1>2, <1>3

LEMMA LastKeepsLargest ==
  ASSUME NEW n \in Nat \ {0}, NEW set, NEW s \in set, s.id \in Nat,
         \A t \in set : t.id \in Nat /\ t.id <= s.id
  PROVE  s \in Last(n, set)
<1>1. {t \in set : t.id > s.id} = {}
  OBVIOUS
<1>2. Cardinality({t \in set : t.id > s.id}) = 0
  BY <1>1, FS_EmptySet
<1> QED BY <1>2 DEF Last

LEMMA IndexedRepos ==
  /\ Len(Repositories) \in Nat \ {0}
  /\ \A i \in 1..Len(Repositories) : Repositories[i] \in Repos
  /\ \A r \in Repos : \E i \in 1..Len(Repositories) : Repositories[i] = r
BY RepositoriesAreListed DEF Repos

-----------------------------------------------------------------------------
(* Steps in the repositories.                                              *)

\* For each old snapshot there is one of its kind that is no older.
Covers(new, old) ==
  \A r \in Repos : \A s \in old[r] : \E t \in new[r] : t.kind = s.kind /\ t.id >= s.id

SnapsOK(new) ==
  /\ new \in [Repos -> SUBSET Snapshot]
  /\ \A r \in Repos : \A s \in new[r] : s.id <= run
  /\ Covers(new, snaps)

LEMMA SnapsStayOK == CatalogInv => SnapsOK(snaps)
BY DEF CatalogInv, TypeOK, NothingIsAhead, SnapsOK, Covers, Snapshot

LEMMA StoredOK ==
  ASSUME CatalogInv, pc = "store"
  PROVE  /\ SnapsOK(Stored)
         /\ [id |-> run, kind |-> kind] \in Stored[Repositories[next]]
         /\ \A r \in Repos : snaps[r] \subseteq Stored[r]
<1>1. Repositories[next] \in Repos
  BY IndexedRepos DEF CatalogInv, TypeOK
<1>2. [id |-> run, kind |-> kind] \in Snapshot /\ run \in Nat
  BY DEF CatalogInv, OwnPointReady, Own, TypeOK, LocalPoint, Snapshot
<1>3. Stored \in [Repos -> SUBSET Snapshot]
  BY <1>1, <1>2 DEF CatalogInv, TypeOK, Stored
<1>4. \A r \in Repos : Stored[r] = IF r = Repositories[next]
                                  THEN snaps[r] \cup {[id |-> run, kind |-> kind]}
                                  ELSE snaps[r]
  BY <1>1 DEF CatalogInv, TypeOK, Stored
<1>5. ASSUME NEW r \in Repos, NEW s \in Stored[r]
      PROVE  s.id <= run
  <2>1. s \in snaps[r] \/ s = [id |-> run, kind |-> kind]
    BY <1>4
  <2> QED BY <2>1, <1>2 DEF CatalogInv, NothingIsAhead
<1>6. Covers(Stored, snaps)
  BY <1>4, SnapsStayOK DEF SnapsOK, Covers
<1> QED BY <1>1, <1>3, <1>4, <1>5, <1>6 DEF SnapsOK

LEMMA ForgottenOK ==
  ASSUME CatalogInv
  PROVE  SnapsOK(Forgotten)
<1> DEFINE repo == Repositories[next]
<1>1. repo \in Repos /\ KeepLast \in Nat \ {0} /\ MaxRuns \in Nat /\ run \in Nat
  BY IndexedRepos, RetentionIsPositive, CatalogBounds DEF CatalogInv, TypeOK
<1>2. \A r \in Repos : Forgotten[r] =
        IF r = repo THEN (snaps[r] \ OfKind(kind, snaps[r]))
                           \cup Last(KeepLast, OfKind(kind, snaps[r]))
                    ELSE snaps[r]
  BY <1>1 DEF CatalogInv, TypeOK, Forgotten
<1>3. \A r \in Repos : snaps[r] \subseteq Snapshot /\ Forgotten[r] \subseteq snaps[r]
  BY <1>2 DEF CatalogInv, TypeOK, Last, OfKind
<1>4. Forgotten \in [Repos -> SUBSET Snapshot]
  <2>1. Forgotten = [r \in Repos |-> Forgotten[r]]
    BY DEF CatalogInv, TypeOK, Forgotten
  <2> QED BY <2>1, <1>3
<1>5. ASSUME NEW r \in Repos, NEW s \in snaps[r]
      PROVE  \E t \in Forgotten[r] : t.kind = s.kind /\ t.id >= s.id
  <2>0. s.id \in Nat
    BY <1>3, <1>5 DEF Snapshot
  <2>1. CASE r # repo \/ s.kind # kind
    <3>1. s \in Forgotten[r]
      BY <2>1, <1>2 DEF OfKind
    <3>2. s.id >= s.id
      BY <2>0
    <3> QED BY <3>1, <3>2
  <2>2. CASE r = repo /\ s.kind = kind
    <3> DEFINE Same == OfKind(kind, snaps[r])
               Numbers == {t.id : t \in Same}
    <3>1. s \in Same /\ \A t \in Same : t.id \in Nat /\ t.id <= MaxRuns /\ t.kind = kind
      BY <1>1, <1>3, <2>2 DEF OfKind, Snapshot
    <3>2. Numbers \in SUBSET Nat /\ Numbers # {} /\ \A k \in Numbers : k <= MaxRuns
      BY <3>1
    <3>3. PICK m \in Numbers : \A k \in Numbers : k <= m
      BY <3>2, <1>1, HasLargest
    <3>4. PICK t \in Same : t.id = m
      BY <3>3
    <3>5. \A u \in Same : u.id <= t.id
      BY <3>3, <3>4
    <3>6. t \in Last(KeepLast, Same)
      BY <1>1, <3>1, <3>5, LastKeepsLargest
    <3>7. t.id >= s.id
      BY <3>1, <3>5
    <3> QED BY <3>1, <3>6, <3>7, <2>2, <1>2
  <2> QED BY <2>1, <2>2
<1>6. \A r \in Repos : \A s \in Forgotten[r] : s.id <= run
  BY <1>3 DEF CatalogInv, NothingIsAhead
<1> QED BY <1>4, <1>5, <1>6 DEF SnapsOK, Covers

\* The retention that follows a delivery never forgets what was delivered.
LEMMA ForgottenKeepsOwn ==
  ASSUME CatalogInv, NEW r \in Repos, [id |-> run, kind |-> kind] \in snaps[r]
  PROVE  [id |-> run, kind |-> kind] \in Forgotten[r]
<1> DEFINE own == [id |-> run, kind |-> kind]
           Same == OfKind(kind, snaps[r])
<1>1. Repositories[next] \in Repos /\ KeepLast \in Nat \ {0} /\ run \in Nat
  BY IndexedRepos, RetentionIsPositive DEF CatalogInv, TypeOK
<1>2. own \in Same /\ \A t \in Same : t.id \in Nat /\ t.id <= own.id
  BY DEF CatalogInv, TypeOK, NothingIsAhead, OfKind, Snapshot
<1>3. own \in Last(KeepLast, Same)
  BY <1>1, <1>2, LastKeepsLargest
<1> QED BY <1>1, <1>3 DEF CatalogInv, TypeOK, Forgotten

-----------------------------------------------------------------------------
(* Steps in the local directory.                                           *)

LocalOK(new) ==
  /\ new \subseteq LocalPoint
  /\ \A p, q \in new : p.id = q.id => p = q
  /\ \A p \in new : p.id <= run
  /\ \A p \in new : p.whole /\ p.delivery = "delivered" => p \in local

LEMMA LocalStaysOK == CatalogInv => LocalOK(local)
BY DEF CatalogInv, TypeOK, NothingIsAhead, LocalOK

LEMMA FewerPointsOK ==
  ASSUME CatalogInv, NEW new \in SUBSET local
  PROVE  LocalOK(new)
BY LocalStaysOK DEF LocalOK

LEMMA RecordedIsTyped ==
  ASSUME CatalogInv, NEW d \in {"none", "delivered", "failed", "torn"}
  PROVE  /\ Recorded(d) \subseteq LocalPoint
         /\ \A p, q \in Recorded(d) : p.id = q.id => p = q
         /\ \A p \in Recorded(d) : p.id <= run
         /\ \A p \in Recorded(d) : p \in local \/ (p.id = run /\ p.delivery = d)
<1> DEFINE New(p) == IF p.id = run THEN [p EXCEPT !.delivery = d] ELSE p
<1>1. \A p \in local : /\ New(p) \in LocalPoint /\ New(p).id = p.id
                       /\ New(p) = p \/ (p.id = run /\ New(p).delivery = d)
  BY DEF CatalogInv, TypeOK, LocalPoint
<1>2. Recorded(d) = {New(p) : p \in local}
  BY DEF Recorded
<1>3. \A p, q \in local : p.id = q.id => p = q
  BY DEF CatalogInv, TypeOK
<1>4. \A p \in local : p.id <= run
  BY DEF CatalogInv, NothingIsAhead
<1> HIDE DEF New
<1>5. \A p \in Recorded(d) : \E o \in local : p = New(o)
  BY <1>2
<1> QED BY <1>1, <1>3, <1>4, <1>5

LEMMA RecordedOK ==
  ASSUME CatalogInv, NEW d \in {"none", "failed", "torn"}
  PROVE  LocalOK(Recorded(d))
BY RecordedIsTyped DEF LocalOK

\* A rotation cut short takes away candidates that it does not keep.
LEMMA HalfRotatedShape ==
  ASSUME NEW new \in HalfRotated
  PROVE  \E keep \in Kept(Retention) :
           \E left \in Left(Candidates \ keep) :
             \/ new = left
             \/ \E p \in Candidates \ keep : \E rest \in Remains(p) :
                  new = (left \ {p}) \cup {rest}
<1>1. PICK keep \in Kept(Retention) : new \in CutShort(Candidates \ keep)
  BY Zenon DEF HalfRotated
<1> DEFINE doomed == Candidates \ keep
<1> HIDE DEF doomed
<1>2. CASE new \in Left(doomed)
  BY <1>2, Zenon DEF doomed
<1>3. CASE new \in UNION {UNION {HalfRemoved(left, p) : left \in Left(doomed)} : p \in doomed}
  <2>1. PICK p \in doomed : new \in UNION {HalfRemoved(left, p) : left \in Left(doomed)}
    BY <1>3, Zenon
  <2>2. PICK left \in Left(doomed) : new \in HalfRemoved(left, p)
    BY <2>1, Zenon
  <2>3. PICK rest \in Remains(p) : new = (left \ {p}) \cup {rest}
    BY <2>2, Zenon DEF HalfRemoved
  <2> QED BY <2>3, Zenon DEF doomed
<1> QED BY <1>1, <1>2, <1>3, Zenon DEF CutShort, doomed

LEMMA CandidatesAreLocal == Candidates \subseteq local
BY DEF Candidates, OfKind

LEMMA HalfRotatedOK ==
  ASSUME CatalogInv, NEW new \in HalfRotated
  PROVE  LocalOK(new)
<1>0. PICK keep \in Kept(Retention) :
        \E left \in Left(Candidates \ keep) :
          \/ new = left
          \/ \E p \in Candidates \ keep : \E rest \in Remains(p) :
               new = (left \ {p}) \cup {rest}
  BY HalfRotatedShape, Zenon
<1>1. PICK left \in Left(Candidates \ keep) :
        \/ new = left
        \/ \E p \in Candidates \ keep : \E rest \in Remains(p) :
             new = (left \ {p}) \cup {rest}
  BY <1>0, Zenon
<1>2. left \subseteq local
  BY <1>1 DEF Left
<1>3. CASE new = left
  BY <1>2, <1>3, FewerPointsOK
<1>4. ASSUME NEW p \in Candidates \ keep, NEW rest \in Remains(p),
             new = (left \ {p}) \cup {rest}
      PROVE  LocalOK(new)
  <2>1. p \in local /\ p \in LocalPoint
    BY CandidatesAreLocal DEF CatalogInv, TypeOK
  <2>2. rest \in LocalPoint /\ rest.id = p.id /\ ~rest.whole
    BY <2>1 DEF Remains, LocalPoint, Kinds
  <2>3. \A q \in new : q = rest \/ (q \in local /\ q # p)
    BY <1>2, <1>4
  <2>4. \A q \in local : q.id = p.id => q = p
    BY <2>1 DEF CatalogInv, TypeOK
  <2>5. new \subseteq LocalPoint /\ \A q \in new : q.id <= run
    BY <2>1, <2>2, <2>3 DEF CatalogInv, TypeOK, NothingIsAhead
  <2>6. \A q, o \in new : q.id = o.id => q = o
    BY <2>2, <2>3, <2>4 DEF CatalogInv, TypeOK
  <2>7. \A q \in new : q.whole /\ q.delivery = "delivered" => q \in local
    BY <2>2, <2>3
  <2> QED BY <2>5, <2>6, <2>7 DEF LocalOK
<1> QED BY <1>1, <1>3, <1>4

LEMMA CutsOK ==
  ASSUME CatalogInv
  PROVE  /\ \A new \in CutSnaps : SnapsOK(new)
         /\ \A new \in CutLocal : LocalOK(new)
<1>1. \A new \in CutSnaps : SnapsOK(new)
  BY SnapsStayOK, StoredOK, ForgottenOK DEF CutSnaps
<1>2. \A new \in CutLocal : LocalOK(new)
  BY LocalStaysOK, RecordedOK, HalfRotatedOK DEF CutLocal
<1> QED BY <1>1, <1>2

-----------------------------------------------------------------------------
(* The invariant of the catalogue.                                         *)

LEMMA CatalogInit == Init => CatalogInv
<1> SUFFICES ASSUME Init PROVE CatalogInv
  OBVIOUS
<1>1. TypeOK
  BY IndexedRepos, CatalogBounds DEF Init, TypeOK, Kinds
<1>2. NothingIsAhead /\ DeliveredSoFar /\ OwnPointReady /\ DeliveredHeld
  BY DEF Init, NothingIsAhead, DeliveredSoFar, OwnPointReady, DeliveredHeld, Markers
<1>3. MarkersAreHeld
  BY DEF Init, MarkersAreHeld
<1> QED BY <1>1, <1>2, <1>3 DEF CatalogInv

\* What every step but the recording of a delivery and the markers keeps.
LEMMA StepKeepsPoints ==
  ASSUME CatalogInv, run' = run, status' = status, SnapsOK(snaps'), LocalOK(local')
  PROVE  /\ NothingIsAhead' /\ MarkersAreHeld' /\ DeliveredHeld'
         /\ snaps' \in [Repos -> SUBSET Snapshot] /\ local' \subseteq LocalPoint
         /\ \A p, q \in local' : p.id = q.id => p = q
<1>1. NothingIsAhead'
  BY DEF NothingIsAhead, SnapsOK, LocalOK
<1>2. ASSUME NEW m \in Markers, status[m] # 0, NEW r \in Repos
      PROVE  \E t \in snaps'[r] : t.id >= status[m] /\ (m = "offline" => t.kind = "offline")
  <2>1. PICK s \in snaps[r] : s.id >= status[m] /\ (m = "offline" => s.kind = "offline")
    BY <1>2 DEF CatalogInv, MarkersAreHeld
  <2>2. PICK t \in snaps'[r] : t.kind = s.kind /\ t.id >= s.id
    BY <1>2 DEF SnapsOK, Covers
  <2>3. t.id \in Nat /\ s.id \in Nat /\ status[m] \in Nat
    BY <1>2 DEF CatalogInv, TypeOK, SnapsOK, Snapshot
  <2> QED BY <2>1, <2>2, <2>3
<1>3. MarkersAreHeld'
  BY <1>2 DEF MarkersAreHeld
<1>4. ASSUME NEW p \in local', VerifiedDelivered(p), NEW r \in Repos
      PROVE  \E t \in snaps'[r] : t.kind = "offline" /\ t.id >= p.id
  <2>1. p \in local
    BY <1>4 DEF LocalOK, VerifiedDelivered
  <2>2. PICK s \in snaps[r] : s.kind = "offline" /\ s.id >= p.id
    BY <1>4, <2>1 DEF CatalogInv, DeliveredHeld
  <2>3. PICK t \in snaps'[r] : t.kind = s.kind /\ t.id >= s.id
    BY <1>4 DEF SnapsOK, Covers
  <2>4. t.id \in Nat /\ s.id \in Nat /\ p.id \in Nat
    BY <1>4, <2>1 DEF CatalogInv, TypeOK, SnapsOK, Snapshot, LocalPoint
  <2> QED BY <2>2, <2>3, <2>4
<1>5. DeliveredHeld'
  BY <1>4 DEF DeliveredHeld, VerifiedDelivered
<1> QED BY <1>1, <1>3, <1>5 DEF SnapsOK, LocalOK

LEMMA EndOfRunKeepsInv ==
  ASSUME CatalogInv, pc' = "idle", run' = run, kind' = kind, next' = next,
         status' = status, crashes' \in 0..MaxCrashes,
         SnapsOK(snaps'), LocalOK(local')
  PROVE  CatalogInv'
<1>1. DeliveredSoFar' /\ OwnPointReady'
  BY DEF DeliveredSoFar, OwnPointReady, Markers
<1> QED BY <1>1, StepKeepsPoints DEF CatalogInv, TypeOK

LEMMA PublishKeepsInv ==
  ASSUME CatalogInv, NEW k \in Kinds, Publish(k)
  PROVE  CatalogInv'
<1> DEFINE point == [id |-> run + 1, kind |-> k, whole |-> TRUE, delivery |-> "none"]
<1>1. run' = run + 1 /\ run + 1 \in 1..MaxRuns /\ run \in Nat /\ point \in LocalPoint
  BY CatalogBounds DEF Publish, CatalogInv, TypeOK, LocalPoint
<1>2. local' = local \cup {point} /\ snaps' = snaps /\ status' = status
  BY DEF Publish
<1>3. \A p \in local : p.id \in Nat /\ p.id <= run /\ p \in LocalPoint
  BY DEF CatalogInv, TypeOK, NothingIsAhead, LocalPoint
<1>4. \A p \in local' : p \in local \/ p = point
  BY <1>2
<1>5. ASSUME NEW p \in local', NEW q \in local', p.id = q.id
      PROVE  p = q
  <2>1. point.id = run + 1 /\ \A o \in local : o.id # run + 1
    BY <1>1, <1>3
  <2>2. CASE p \in local /\ q \in local
    BY <2>2, <1>5 DEF CatalogInv, TypeOK
  <2>3. CASE p = point \/ q = point
    BY <2>1, <2>3, <1>4, <1>5, Zenon
  <2> QED BY <1>4, <2>2, <2>3
<1>6. TypeOK'
  BY <1>1, <1>2, <1>3, <1>4, <1>5, IndexedRepos DEF Publish, CatalogInv, TypeOK
<1>7. NothingIsAhead'
  <2>1. \A p \in local' : p.id <= run'
    BY <1>1, <1>3, <1>4
  <2>2. \A r \in Repos : \A s \in snaps[r] : s.id \in Nat /\ s.id <= run
    BY DEF CatalogInv, TypeOK, NothingIsAhead, Snapshot
  <2> QED BY <2>1, <2>2, <1>1, <1>2 DEF NothingIsAhead
<1>8. DeliveredSoFar' /\ OwnPointReady'
  BY <1>1, <1>2 DEF Publish, DeliveredSoFar, OwnPointReady, Own, Markers
<1>9. MarkersAreHeld'
  BY <1>2 DEF CatalogInv, MarkersAreHeld
<1>10. DeliveredHeld'
  BY <1>2, <1>4 DEF CatalogInv, DeliveredHeld, VerifiedDelivered
<1> QED BY <1>6, <1>7, <1>8, <1>9, <1>10 DEF CatalogInv

LEMMA StoreKeepsInv == CatalogInv /\ Store => CatalogInv'
<1> SUFFICES ASSUME CatalogInv, Store PROVE CatalogInv'
  OBVIOUS
<1>1. SnapsOK(snaps') /\ LocalOK(local') /\ run' = run /\ status' = status
  BY StoredOK, LocalStaysOK DEF Store
<1>2. DeliveredSoFar'
  <2>1. \A i \in 1..Len(Repositories) : i < next =>
          [id |-> run, kind |-> kind] \in snaps[Repositories[i]]
    BY DEF Store, CatalogInv, DeliveredSoFar
  <2>2. \A i \in 1..Len(Repositories) : i <= next =>
          [id |-> run, kind |-> kind] \in Stored[Repositories[i]]
    BY <2>1, StoredOK, IndexedRepos DEF Store, CatalogInv, TypeOK
  <2> QED BY <2>2 DEF Store, DeliveredSoFar, Markers
<1>3. OwnPointReady'
  BY DEF Store, CatalogInv, OwnPointReady, Own
<1> QED BY <1>1, <1>2, <1>3, StepKeepsPoints DEF Store, CatalogInv, TypeOK

LEMMA ForgetKeepsInv == CatalogInv /\ Forget => CatalogInv'
<1> SUFFICES ASSUME CatalogInv, Forget PROVE CatalogInv'
  OBVIOUS
<1>1. SnapsOK(snaps') /\ LocalOK(local') /\ run' = run /\ status' = status
  BY ForgottenOK, LocalStaysOK DEF Forget
<1>2. \A i \in 1..Len(Repositories) : i <= next =>
        [id |-> run, kind |-> kind] \in snaps'[Repositories[i]]
  BY ForgottenKeepsOwn, IndexedRepos DEF Forget, CatalogInv, DeliveredSoFar
<1>3. next \in 1..Len(Repositories) /\ Len(Repositories) \in Nat
  BY IndexedRepos DEF CatalogInv, TypeOK
<1>4. DeliveredSoFar' /\ next' \in 1..Len(Repositories) /\ pc' \in {"store", "record"}
  BY <1>2, <1>3 DEF Forget, DeliveredSoFar, Markers
<1>5. OwnPointReady'
  BY DEF Forget, CatalogInv, OwnPointReady, Own
<1> QED BY <1>1, <1>4, <1>5, StepKeepsPoints DEF Forget, CatalogInv, TypeOK

\* The run's point is recorded when every repository holds it.
LEMMA RecordKeepsInv == CatalogInv /\ Record => CatalogInv'
<1> SUFFICES ASSUME CatalogInv, Record PROVE CatalogInv'
  OBVIOUS
<1>1. /\ local' \subseteq LocalPoint
      /\ \A p, q \in local' : p.id = q.id => p = q
      /\ \A p \in local' : p.id <= run
      /\ \A p \in local' : p \in local \/ (p.id = run /\ p.delivery = "delivered")
  BY RecordedIsTyped DEF Record
<1>2. Own("delivered") \in local'
  <2>1. Own("none") \in local
    BY DEF Record, CatalogInv, OwnPointReady
  <2>2. PICK p \in local : p.id = run /\ p.kind = kind /\ p.whole = TRUE
    BY <2>1 DEF Own
  <2>3. p \in LocalPoint
    BY DEF CatalogInv, TypeOK
  <2>4. [p EXCEPT !.delivery = "delivered"] =
          [id |-> p.id, kind |-> p.kind, whole |-> p.whole, delivery |-> "delivered"]
    BY <2>3 DEF LocalPoint
  <2>5. [p EXCEPT !.delivery = "delivered"] \in local'
    BY <2>2, Zenon DEF Record, Recorded
  <2> QED BY <2>2, <2>4, <2>5 DEF Own
<1>3. \A p \in local' : p.id = run => p.kind = kind
  BY <1>1, <1>2 DEF Own
<1>4. TypeOK' /\ NothingIsAhead' /\ OwnPointReady'
  BY <1>1, <1>2 DEF Record, CatalogInv, TypeOK, NothingIsAhead, OwnPointReady, Own
<1>5. DeliveredSoFar' /\ \A r \in Repos : [id |-> run, kind |-> kind] \in snaps[r]
  BY IndexedRepos DEF Record, CatalogInv, DeliveredSoFar
<1>6. DeliveredHeld'
  <2> SUFFICES ASSUME NEW p \in local', VerifiedDelivered(p), NEW r \in Repos
               PROVE  \E s \in snaps[r] : s.kind = "offline" /\ s.id >= p.id
    BY DEF Record, DeliveredHeld, VerifiedDelivered
  <2>1. CASE p \in local
    BY <2>1 DEF CatalogInv, DeliveredHeld
  <2>2. CASE p.id = run
    <3>1. kind = "offline" /\ run >= p.id
      BY <1>1, <1>3, <2>2 DEF VerifiedDelivered, CatalogInv, TypeOK
    <3> QED BY <3>1, <1>5
  <2> QED BY <1>1, <2>1, <2>2
<1>7. MarkersAreHeld'
  BY DEF Record, CatalogInv, MarkersAreHeld
<1> QED BY <1>4, <1>5, <1>6, <1>7 DEF CatalogInv

LEMMA RotateKeepsInv == CatalogInv /\ Rotate => CatalogInv'
<1> SUFFICES ASSUME CatalogInv, Rotate PROVE CatalogInv'
  OBVIOUS
<1>1. SnapsOK(snaps') /\ LocalOK(local') /\ run' = run /\ status' = status
  BY SnapsStayOK, FewerPointsOK DEF Rotate
<1>2. DeliveredSoFar' /\ OwnPointReady'
  BY DEF Rotate, CatalogInv, DeliveredSoFar, OwnPointReady, Markers
<1> QED BY <1>1, <1>2, StepKeepsPoints DEF Rotate, CatalogInv, TypeOK

LEMMA MarkerKeepsInv == CatalogInv /\ WriteSuccessStatus => CatalogInv'
<1> SUFFICES ASSUME CatalogInv, WriteSuccessStatus PROVE CatalogInv'
  OBVIOUS
<1>1. pc \in Markers /\ run \in 0..MaxRuns
      /\ pc' \in {"offline", "remote", "inspect"}
  BY DEF WriteSuccessStatus, AfterMarker, CatalogInv, TypeOK, Markers
<1>2. status' \in [Markers -> 0..MaxRuns] /\ \A m \in Markers :
        status'[m] = status[m] \/ (m = pc /\ Marked(m) /\ status'[m] = run)
  BY <1>1 DEF WriteSuccessStatus, CatalogInv, TypeOK
<1>3. \A r \in Repos : [id |-> run, kind |-> kind] \in snaps[r]
  BY <1>1, IndexedRepos DEF CatalogInv, DeliveredSoFar
<1>4. MarkersAreHeld'
  <2> SUFFICES ASSUME NEW m \in Markers, status'[m] # 0, NEW r \in Repos
               PROVE  \E s \in snaps[r] :
                        s.id >= status'[m] /\ (m = "offline" => s.kind = "offline")
    BY DEF WriteSuccessStatus, MarkersAreHeld
  <2>1. CASE status'[m] = status[m]
    BY <2>1 DEF CatalogInv, MarkersAreHeld
  <2>2. CASE Marked(m) /\ status'[m] = run
    <3>1. m = "offline" => kind = "offline"
      BY <2>2 DEF Marked
    <3> QED BY <3>1, <2>2, <1>1, <1>3
  <2> QED BY <1>2, <2>1, <2>2
<1>5. TypeOK' /\ NothingIsAhead' /\ DeliveredHeld'
  BY <1>1, <1>2 DEF WriteSuccessStatus, CatalogInv, TypeOK, NothingIsAhead, DeliveredHeld,
                    VerifiedDelivered
<1>6. DeliveredSoFar' /\ OwnPointReady'
  BY <1>1 DEF WriteSuccessStatus, CatalogInv, DeliveredSoFar, OwnPointReady, Markers
<1> QED BY <1>4, <1>5, <1>6 DEF CatalogInv

LEMMA FailKeepsInv == CatalogInv /\ Fail => CatalogInv'
<1> SUFFICES ASSUME CatalogInv, Fail PROVE CatalogInv'
  OBVIOUS
<1>1. SnapsOK(snaps') /\ LocalOK(local')
  BY CutsOK, RecordedOK DEF Fail
<1> QED BY <1>1, EndOfRunKeepsInv DEF Fail, CatalogInv, TypeOK

LEMMA CrashKeepsInv == CatalogInv /\ Crash => CatalogInv'
<1> SUFFICES ASSUME CatalogInv, Crash PROVE CatalogInv'
  OBVIOUS
<1>1. SnapsOK(snaps') /\ LocalOK(local')
  BY CutsOK DEF Crash
<1>2. crashes' \in 0..MaxCrashes
  BY CatalogBounds DEF Crash, CatalogInv, TypeOK
<1> QED BY <1>1, <1>2, EndOfRunKeepsInv DEF Crash

\* A fetch adds a point whose directory is missing, and never a delivered one.
LEMMA FetchKeepsInv ==
  ASSUME CatalogInv, NEW r \in Repos, Fetch(r)
  PROVE  CatalogInv' /\ local \subseteq local'
<1>1. PICK s \in snaps[r] :
        /\ s.id \notin Ids(local)
        /\ local' = local \cup
             {[id |-> s.id, kind |-> s.kind, whole |-> TRUE, delivery |-> "none"]}
  BY DEF Fetch
<1> DEFINE point == [id |-> s.id, kind |-> s.kind, whole |-> TRUE, delivery |-> "none"]
<1>2. point \in LocalPoint /\ point.id <= run /\ point.delivery # "delivered"
  BY DEF CatalogInv, TypeOK, NothingIsAhead, Snapshot, LocalPoint
<1>3. \A p \in local : p.id # point.id
  BY <1>1 DEF Ids
<1>4. \A p \in local' : p \in local \/ p = point
  BY <1>1
<1>5. LocalOK(local')
  <2>1. \A p, q \in local' : p.id = q.id => p = q
    BY <1>3, <1>4 DEF CatalogInv, TypeOK
  <2> QED BY <2>1, <1>2, <1>4, LocalStaysOK DEF LocalOK
<1>6. SnapsOK(snaps') /\ run' = run /\ status' = status /\ pc' = pc /\ kind' = kind
  BY SnapsStayOK DEF Fetch
<1>7. DeliveredSoFar' /\ OwnPointReady'
  BY <1>1, <1>6 DEF Fetch, CatalogInv, DeliveredSoFar, OwnPointReady, Own
<1> QED BY <1>1, <1>5, <1>6, <1>7, StepKeepsPoints DEF Fetch, CatalogInv, TypeOK

LEMMA CatalogStepKeepsInv == CatalogInv /\ CatalogStep => CatalogInv'
<1> SUFFICES ASSUME CatalogInv, CatalogStep PROVE CatalogInv'
  OBVIOUS
<1>1. CASE Inspect
  BY <1>1, SnapsStayOK, LocalStaysOK, EndOfRunKeepsInv DEF Inspect, CatalogInv, TypeOK
<1> QED BY <1>1, PublishKeepsInv, StoreKeepsInv, ForgetKeepsInv, RecordKeepsInv,
           RotateKeepsInv, MarkerKeepsInv, FailKeepsInv, CrashKeepsInv, FetchKeepsInv
        DEF CatalogStep, RunStep

-----------------------------------------------------------------------------
(* The catalogue together with the restore.                                *)

LEMMA SourceInitState == SourceInit => SourceInv
BY CatalogInit, CatalogBounds DEF SourceInit, SourceInv, Alone, RestoresWhatItVerified

LEMMA UnchangedKeepsInv == CatalogInv /\ UNCHANGED vars => CatalogInv'
BY DEF vars, CatalogInv, TypeOK, NothingIsAhead, DeliveredSoFar, OwnPointReady, Own,
       MarkersAreHeld, DeliveredHeld, VerifiedDelivered

\* While a restore works nothing but a fetch touches the catalogue.
LEMMA CatalogStepKeepsRestore ==
  ASSUME SourceInv, CatalogStep
  PROVE  Alone' /\ RestoresWhatItVerified' /\ restoring' \in 0..MaxRuns
<1>1. CASE restoring = 0
  BY <1>1 DEF SourceInv, CatalogStep, Alone, RestoresWhatItVerified
<1>2. CASE restoring # 0
  <2>1. pc = "idle"
    BY <1>2 DEF SourceInv, Alone
  <2>2. PICK r \in Repos : Fetch(r)
    BY <1>2, <2>1 DEF CatalogStep, LockIsFree, RunStep, Store, Forget, Record, Rotate,
                      WriteSuccessStatus, Inspect, Fail, Crash, Markers
  <2>3. local \subseteq local' /\ pc' = pc /\ restoring' = restoring
    BY <2>2, FetchKeepsInv DEF SourceInv, CatalogStep, Fetch
  <2>4. PICK p \in local : p.id = restoring /\ Verified(p)
    BY <1>2 DEF SourceInv, RestoresWhatItVerified
  <2> QED BY <2>1, <2>3, <2>4 DEF SourceInv, Alone, RestoresWhatItVerified, Verified
<1> QED BY <1>1, <1>2

LEMMA SourceStepKeepsInv == SourceInv /\ [SourceNext]_sourceVars => SourceInv'
<1> SUFFICES ASSUME SourceInv, [SourceNext]_sourceVars PROVE SourceInv'
  OBVIOUS
<1>1. CASE CatalogStep
  BY <1>1, CatalogStepKeepsInv, CatalogStepKeepsRestore DEF SourceInv
<1>2. ASSUME NEW p \in local, LockIsFree, Apply(p)
      PROVE  SourceInv'
  <2>1. CatalogInv' /\ pc' = "idle" /\ local' = local
    BY <1>2, UnchangedKeepsInv DEF SourceInv, Apply, LockIsFree, vars
  <2>2. restoring' = p.id /\ p.id \in 1..MaxRuns /\ Verified(p)
    BY <1>2 DEF SourceInv, CatalogInv, TypeOK, LocalPoint, Apply
  <2> QED BY <2>1, <2>2 DEF SourceInv, Alone, RestoresWhatItVerified, Verified
<1>3. CASE EndRestore
  BY <1>3, UnchangedKeepsInv, CatalogBounds
     DEF SourceInv, EndRestore, Alone, RestoresWhatItVerified
<1>4. CASE UNCHANGED sourceVars
  BY <1>4, UnchangedKeepsInv
     DEF SourceInv, sourceVars, vars, Alone, RestoresWhatItVerified, Verified
<1> QED BY <1>1, <1>2, <1>3, <1>4
        DEF SourceNext, RestoreStep, ResolveLatest, ResolveNamed, Newest

\* The inductive invariant of the catalogue and its readers: types, numbering,
\* what the delivery under way has stored so far, what the markers and the
\* recorded deliveries stand for, and the point of the restore under way.
THEOREM SourceInvariance == SourceSpec => []SourceInv
<1> QED BY SourceInitState, SourceStepKeepsInv, PTL DEF SourceSpec

\* Every marker names a run whose point, or a newer one of the marker's kind, is
\* in every repository, for any number of repositories, runs and retentions and
\* whatever fails or is killed.
THEOREM MarkersStayHeld == SourceSpec => []MarkersAreHeld
<1>1. SourceInv => MarkersAreHeld
  BY DEF SourceInv, CatalogInv
<1> QED BY <1>1, SourceInvariance, PTL

\* A status without a failure means that every repository holds points as
\* recent as the limits ask.
THEOREM FreshnessIsRecoverability == SourceSpec => []FreshMeansRecoverable
<1>1. SourceInv => FreshMeansRecoverable
  <2> SUFFICES ASSUME SourceInv, ~FreshnessFailed, NEW m \in Required, NEW r \in Repos
               PROVE  \E s \in snaps[r] : /\ MaxAge[m] = 0 \/ run - s.id <= MaxAge[m]
                                          /\ m = "offline" => s.kind = "offline"
    BY DEF FreshMeansRecoverable
  <2>1. m \in Markers
    BY DEF Required, Markers
  <2>2. status[m] # 0 /\ (MaxAge[m] = 0 \/ run - status[m] <= MaxAge[m])
    BY DEF FreshnessFailed, Fresh
  <2>3. PICK s \in snaps[r] : s.id >= status[m] /\ (m = "offline" => s.kind = "offline")
    BY <2>1, <2>2 DEF SourceInv, CatalogInv, MarkersAreHeld
  <2>4. /\ run \in Int /\ status[m] \in Int /\ MaxAge[m] \in Int
        /\ s \in Snapshot
    BY <2>1, AgesAreSet DEF SourceInv, CatalogInv, TypeOK
  <2>5. s.id \in Int
    BY <2>4 DEF Snapshot
  <2> QED BY <2>2, <2>3, <2>4, <2>5
<1> QED BY <1>1, SourceInvariance, PTL

\* The point a restore works from stays there and whole until the restore ends.
THEOREM RestoredPointStays == SourceSpec => []RestoresWhatItVerified
<1>1. SourceInv => RestoresWhatItVerified
  BY DEF SourceInv
<1> QED BY <1>1, SourceInvariance, PTL

\* A content offline status means that every repository holds a recent offline
\* point: no step loses what a recorded delivery stands for.
THEOREM OfflineReportHolds == SourceSpec => []OfflineReportIsTrue
<1>1. SourceInv => OfflineReportIsTrue
  <2> SUFFICES ASSUME SourceInv, OfflineReady, NEW r \in Repos
               PROVE  \E s \in snaps[r] : s.kind = "offline" /\ run - s.id <= OfflineMaxAge
    BY DEF OfflineReportIsTrue
  <2>1. PICK p \in local : run - Created(p) \in 0..OfflineMaxAge /\ VerifiedDelivered(p)
    BY DEF OfflineReady, Newest, OfKind
  <2>2. run - p.id \in 0..OfflineMaxAge
    BY <2>1 DEF VerifiedDelivered, Created
  <2>3. PICK s \in snaps[r] : s.kind = "offline" /\ s.id >= p.id
    BY <2>1 DEF SourceInv, CatalogInv, DeliveredHeld
  <2>4. run \in Int /\ s \in Snapshot /\ p \in LocalPoint
    BY DEF SourceInv, CatalogInv, TypeOK
  <2>5. s.id \in Int /\ p.id \in Int
    BY <2>4 DEF Snapshot, LocalPoint
  <2> QED BY <2>2, <2>3, <2>4, <2>5, OfflineAgeIsSet
<1> QED BY <1>1, SourceInvariance, PTL

\* A restore of the latest point never goes back behind a newer good point,
\* whatever the clock's offset makes of the broken ones.
THEOREM LatestStaysNewestGood == SourceSpec => LatestIsNewestGood
<1>1. [SourceNext]_sourceVars =>
        [ResolveLatest => \A q \in local : Verified(q) => q.id <= restoring']_sourceVars
  <2> SUFFICES ASSUME ResolveLatest, NEW q \in local, Verified(q)
               PROVE  q.id <= restoring'
    OBVIOUS
  <2>1. PICK p \in Newest(local) : Apply(p)
    BY DEF ResolveLatest
  <2>2. Created(p) >= Created(q)
    BY <2>1 DEF Newest
  <2>3. Created(p) = p.id /\ Created(q) = q.id
    BY <2>1 DEF Apply, Verified, Created
  <2>4. restoring' = p.id
    BY <2>1 DEF Apply
  <2> QED BY <2>2, <2>3, <2>4
<1> QED BY <1>1, PTL DEF SourceSpec, LatestIsNewestGood

-----------------------------------------------------------------------------
(* What the rotation keeps.                                                *)

\* Points of different runs are as few as the runs they may be of.
LEMMA PointsAreFinite ==
  ASSUME NEW a \in Int, NEW b \in Int, NEW points, \A p \in points : p.id \in a..b,
         \A p, q \in points : p.id = q.id => p = q
  PROVE  IsFiniteSet(points) /\ Cardinality(points) <= Cardinality(a..b)
<1> DEFINE number == [p \in points |-> p.id]
<1>1. number \in [points -> a..b]
  OBVIOUS
<1>2. \A p, q \in points : number[p] = number[q] => p = q
  OBVIOUS
<1>3. number \in Injection(points, a..b)
  <2> HIDE DEF number
  <2> QED BY <1>1, <1>2, Fun_IsInj
<1>4. IsFiniteSet(a..b)
  BY FS_Interval
<1> QED
  <2> HIDE DEF number
  <2> QED BY <1>3, <1>4, FS_Injection

LEMMA LocalIsFinite ==
  ASSUME CatalogInv, NEW new, LocalOK(new)
  PROVE  IsFiniteSet(new)
<1>1. 1 \in Int /\ MaxRuns \in Int
  BY CatalogBounds
<1>2. \A p \in new : p.id \in 1..MaxRuns
  BY DEF LocalOK, LocalPoint
<1> QED BY <1>1, <1>2, PointsAreFinite DEF LocalOK

\* As long as the rotation takes anything away it keeps what the retention asks.
LEMMA KeptIsFull ==
  ASSUME CatalogInv, NEW keep \in Kept(Retention), keep # Candidates
  PROVE  /\ keep \subseteq Candidates /\ IsFiniteSet(keep)
         /\ Cardinality(keep) = Retention
<1>1. keep \subseteq Candidates /\ Cardinality(keep) = Min({Retention, Cardinality(Candidates)})
  BY DEF Kept
<1>2. IsFiniteSet(Candidates)
  BY LocalStaysOK, LocalIsFinite, CandidatesAreLocal, FS_Subset
<1>3. /\ IsFiniteSet(keep) /\ Cardinality(keep) <= Cardinality(Candidates)
      /\ Cardinality(keep) # Cardinality(Candidates)
  BY <1>1, <1>2, FS_Subset
<1>4. Cardinality(Candidates) \in Nat /\ Retention \in Nat
  BY <1>2, FS_CardinalityType, RetentionIsPositive DEF Retention
<1>5. Min({Retention, Cardinality(Candidates)}) \in {Retention, Cardinality(Candidates)}
  <2>1. \E x \in {Retention, Cardinality(Candidates)} :
          \A y \in {Retention, Cardinality(Candidates)} : x =< y
    <3>1. Retention =< Cardinality(Candidates) \/ Cardinality(Candidates) =< Retention
      BY <1>4
    <3> QED BY <3>1, <1>4
  <2> QED BY <2>1, Zenon DEF Min
<1> QED BY <1>1, <1>3, <1>5

LEMMA RotatedOut ==
  ASSUME CatalogInv, NEW keep \in Kept(Retention), NEW new, LocalOK(new), keep \subseteq new,
         NEW p \in Candidates \ keep, VerifiedDelivered(p)
  PROVE  Cardinality({q \in new : VerifiedDelivered(q) /\ q.id > p.id}) >= OfflineRetention
<1> DEFINE newer == {q \in new : VerifiedDelivered(q) /\ q.id > p.id}
<1>1. kind = "offline" /\ Retention = OfflineRetention
  BY DEF Candidates, OfKind, VerifiedDelivered, CatalogInv, TypeOK, Kinds, Retention
<1>2. keep \subseteq Candidates /\ Cardinality(keep) = Retention
  BY KeptIsFull
<1>3. ASSUME NEW q \in keep
      PROVE  q \in newer
  <2>1. VerifiedDelivered(q) /\ q \in local /\ p \in local
    BY <1>1, <1>2 DEF Candidates
  <2>2. Created(q) >= Created(p)
    BY DEF Kept
  <2>3. q.id >= p.id
    BY <2>1, <2>2 DEF VerifiedDelivered, Created
  <2>4. q.id # p.id /\ q.id \in Nat /\ p.id \in Nat
    BY <2>1 DEF CatalogInv, TypeOK, LocalPoint
  <2> QED BY <2>1, <2>3, <2>4
<1>4. IsFiniteSet(newer) /\ keep \in SUBSET newer
  BY <1>3, LocalIsFinite, FS_Subset
<1>5. Cardinality(keep) <= Cardinality(newer)
  <2> HIDE DEF newer
  <2> QED BY <1>4, FS_Subset
<1>6. Cardinality(newer) \in Nat /\ OfflineRetention \in Nat
  <2> HIDE DEF newer
  <2> QED BY <1>4, FS_CardinalityType, RetentionIsPositive
<1> QED BY <1>1, <1>2, <1>5, <1>6

LEMMA CutRotationLeaves ==
  ASSUME CatalogInv, NEW new \in HalfRotated
  PROVE  \E keep \in Kept(Retention) : keep \subseteq new /\ local \ new \subseteq Candidates \ keep
<1>0. PICK keep \in Kept(Retention) :
        \E left \in Left(Candidates \ keep) :
          \/ new = left
          \/ \E p \in Candidates \ keep : \E rest \in Remains(p) :
               new = (left \ {p}) \cup {rest}
  BY HalfRotatedShape, Zenon
<1>1. PICK left \in Left(Candidates \ keep) :
        \/ new = left
        \/ \E p \in Candidates \ keep : \E rest \in Remains(p) :
             new = (left \ {p}) \cup {rest}
  BY <1>0, Zenon
<1>2. local \ left \subseteq Candidates \ keep /\ keep \subseteq left
  BY <1>1, CandidatesAreLocal DEF Left, Kept
<1> QED BY <1>1, <1>2

\* A good offline point leaves the local directory only in a rotation, finished
\* or cut short, that keeps OFFLINE_BACKUP_LOCAL_RETENTION newer good ones.
THEOREM GoodPointsStay == SourceSpec => GoodOfflinePointsStay
<1>1. ASSUME CatalogInv, Next, NEW p \in local, VerifiedDelivered(p), p \notin local'
      PROVE  Cardinality({q \in local' : VerifiedDelivered(q) /\ q.id > p.id})
               >= OfflineRetention
  <2>1. CASE Rotate
    <3>1. PICK keep \in Kept(Retention) : local' = local \ (Candidates \ keep)
      BY <2>1 DEF Rotate
    <3>2. LocalOK(local') /\ keep \subseteq local' /\ p \in Candidates \ keep
      BY <1>1, <3>1, FewerPointsOK, CandidatesAreLocal DEF Kept
    <3> QED BY <1>1, <3>2, RotatedOut
  <2>2. CASE local' \in HalfRotated
    <3>1. PICK keep \in Kept(Retention) :
            keep \subseteq local' /\ local \ local' \subseteq Candidates \ keep
      BY <1>1, <2>2, CutRotationLeaves
    <3>2. LocalOK(local') /\ p \in Candidates \ keep
      BY <1>1, <2>2, <3>1, HalfRotatedOK
    <3> QED BY <1>1, <3>1, <3>2, RotatedOut
  <2>3. ASSUME NEW d \in {"none", "delivered", "failed", "torn"}, local' = Recorded(d),
               pc \in {"store", "forget", "record"}
        PROVE  FALSE
    <3>1. p.id = run
      BY <1>1, <2>3, Zenon DEF Recorded
    <3>2. p = Own("none")
      BY <1>1, <2>3, <3>1 DEF CatalogInv, TypeOK, OwnPointReady, Own
    <3> QED BY <1>1, <3>2 DEF Own, VerifiedDelivered
  <2>4. CASE Record
    BY <2>3, <2>4 DEF Record
  <2>5. ASSUME local' \in CutLocal
        PROVE  local' = local \/ local' \in HalfRotated
    BY <2>3, <2>5 DEF CutLocal
  <2>6. CASE Fail
    BY <1>1, <2>2, <2>3, <2>5, <2>6 DEF Fail
  <2>7. CASE Crash
    BY <1>1, <2>2, <2>5, <2>7 DEF Crash
  <2> QED BY <1>1, <2>1, <2>4, <2>6, <2>7
          DEF Next, RunStep, Publish, Store, Forget, WriteSuccessStatus, Inspect, Fetch
<1>2. SourceInv /\ [SourceNext]_sourceVars =>
        [\A p \in local : VerifiedDelivered(p) /\ p \notin local' =>
           Cardinality({q \in local' : VerifiedDelivered(q) /\ q.id > p.id})
             >= OfflineRetention]_vars
  <2>1. SourceNext => Next \/ UNCHANGED vars
    BY DEF SourceNext, CatalogStep, RestoreStep, ResolveLatest, ResolveNamed, Apply, EndRestore,
           Next
  <2> QED BY <1>1, <2>1 DEF SourceInv, sourceVars
<1> QED BY <1>2, SourceInvariance, PTL DEF SourceSpec, GoodOfflinePointsStay

\* Points that sort before the run's own are of the few runs that the clock's
\* offset can put there.
LEMMA OwnIsKept ==
  ASSUME CatalogInv, pc = "rotate", Skew < LocalRetention,
         NEW keep \in Kept(Retention), Own("delivered") \in Candidates
  PROVE  Own("delivered") \in keep
<1> DEFINE own == Own("delivered")
<1> SUFFICES ASSUME own \notin keep PROVE FALSE
  OBVIOUS
<1>1. /\ run \in Nat /\ Skew \in Int /\ LocalRetention \in Nat \ {0}
      /\ OfflineRetention \in Nat \ {0}
  BY RetentionIsPositive DEF CatalogInv, TypeOK
<1>2. keep \subseteq Candidates /\ Cardinality(keep) = Retention
  BY KeptIsFull
<1>3. own \in local /\ own.id = run /\ Created(own) = run
  BY CandidatesAreLocal DEF Own, Created
<1>4. ASSUME NEW p \in keep
      PROVE  p.id \in Nat /\ p.id < run /\ Created(p) >= run /\ p \in local
  <2>1. p \in local /\ p \in LocalPoint /\ p.id <= run
    BY <1>2, CandidatesAreLocal DEF CatalogInv, TypeOK, NothingIsAhead
  <2>2. p.id # run
    BY <1>3, <2>1 DEF CatalogInv, TypeOK
  <2>3. Created(p) >= Created(own)
    BY DEF Kept
  <2> QED BY <1>1, <1>3, <2>1, <2>2, <2>3 DEF LocalPoint
<1>5. \A p, q \in keep : p.id = q.id => p = q
  BY <1>4 DEF CatalogInv, TypeOK
<1>6. CASE kind = "offline"
  <2>1. \A p \in keep : Created(p) = p.id
    BY <1>2, <1>6 DEF Candidates, VerifiedDelivered, Created
  <2>2. keep = {}
    BY <2>1, <1>1, <1>4
  <2> QED BY <1>1, <1>2, <1>6, <2>2, FS_EmptySet DEF Retention
<1>7. CASE kind # "offline"
  <2>1. \A p \in keep : p.id \in (run - Skew)..(run - 1)
    BY <1>1, <1>4 DEF Created
  <2>2. run - Skew \in Int /\ run - 1 \in Int
    BY <1>1
  <2>3. Cardinality(keep) <= Cardinality((run - Skew)..(run - 1))
    BY <2>1, <2>2, <1>5, PointsAreFinite
  <2>4. Cardinality((run - Skew)..(run - 1)) =
          IF run - Skew > run - 1 THEN 0 ELSE (run - 1) - (run - Skew) + 1
    BY <2>2, FS_Interval
  <2> QED BY <1>1, <1>2, <1>7, <2>3, <2>4 DEF Retention
<1> QED BY <1>6, <1>7

\* A run's rotation spares its own point as long as local time is not as many
\* runs ahead of UTC as points are kept.
THEOREM OwnPointStays ==
  ASSUME Skew < LocalRetention
  PROVE  SourceSpec => []OwnPointSurvives
<1>1. SourceInit => OwnPointSurvives
  BY DEF SourceInit, Init, OwnPointSurvives, Markers
<1>2. ASSUME SourceInv, OwnPointSurvives, [SourceNext]_sourceVars
      PROVE  OwnPointSurvives'
  <2>0. CatalogInv
    BY <1>2 DEF SourceInv
  <2>1. CASE Rotate
    <3>1. PICK keep \in Kept(Retention) : local' = local \ (Candidates \ keep)
      BY <2>1 DEF Rotate
    <3>2. pc = "rotate" /\ Own("delivered") \in local /\ run' = run
      BY <2>0, <2>1 DEF Rotate, CatalogInv, OwnPointReady
    <3>3. Own("delivered") \in local'
      BY <2>0, <3>1, <3>2, OwnIsKept
    <3> QED BY <3>2, <3>3 DEF OwnPointSurvives, Own
  <2>2. CASE WriteSuccessStatus
    BY <1>2, <2>2 DEF WriteSuccessStatus, OwnPointSurvives
  <2>3. ASSUME NEW r \in Repos, Fetch(r)
        PROVE  OwnPointSurvives'
    BY <1>2, <2>0, <2>3, FetchKeepsInv DEF Fetch, OwnPointSurvives
  <2>4. CASE UNCHANGED vars
    BY <1>2, <2>4 DEF vars, OwnPointSurvives
  <2>5. CASE pc' \in {"idle", "store", "forget", "record", "rotate"}
    BY <2>5 DEF OwnPointSurvives, Markers
  <2>6. CASE CatalogStep
    BY <2>1, <2>2, <2>3, <2>5, <2>6
       DEF CatalogStep, RunStep, Publish, Store, Forget, Record, Inspect, Fail, Crash
  <2> QED BY <1>2, <2>4, <2>6
          DEF SourceNext, RestoreStep, ResolveLatest, ResolveNamed, Apply, EndRestore, sourceVars
<1> QED BY <1>1, <1>2, SourceInvariance, PTL DEF SourceSpec

\* Recorded as delivered means stored everywhere, for any number of repositories.
THEOREM RecordedIsDelivered == SourceSpec => DeliveredEverywhere
<1>1. ASSUME CatalogInv, CatalogStep, NEW p \in local', p.delivery = "delivered",
             p \notin local, p.whole, NEW r \in Repos
      PROVE  p.id \in Ids(snaps'[r])
  <2>1. CASE Record
    <3>1. p.id = run
      BY <1>1, <2>1, RecordedIsTyped DEF Record
    <3>2. [id |-> run, kind |-> kind] \in snaps[r] /\ snaps' = snaps
      BY <1>1, <2>1, IndexedRepos DEF Record, CatalogInv, DeliveredSoFar
    <3> QED BY <3>1, <3>2 DEF Ids
  <2>2. CASE LocalOK(local')
    BY <1>1, <2>2 DEF LocalOK
  <2>3. CASE Rotate \/ Fail \/ Crash
    BY <1>1, <2>2, <2>3, CutsOK, RecordedOK, FewerPointsOK DEF Rotate, Fail, Crash
  <2>4. CASE ~Record /\ ~(Rotate \/ Fail \/ Crash)
    BY <1>1, <2>4 DEF CatalogStep, RunStep, Publish, Store, Forget, WriteSuccessStatus,
                      Inspect, Fetch
  <2> QED BY <2>1, <2>3, <2>4
<1>2. SourceInv /\ [SourceNext]_sourceVars =>
        [\A p \in local' : p.delivery = "delivered" /\ p \notin local /\ p.whole
           => \A r \in Repos : p.id \in Ids(snaps'[r])]_vars
  <2>1. SourceNext => CatalogStep \/ UNCHANGED vars
    BY DEF SourceNext, RestoreStep, ResolveLatest, ResolveNamed, Apply, EndRestore
  <2> QED BY <1>1, <2>1 DEF SourceInv, sourceVars
<1> QED BY <1>2, SourceInvariance, PTL DEF SourceSpec, DeliveredEverywhere

\* Without a RESTIC_REPOSITORY on the side, the remote marker names a point that
\* every remote repository of the list holds, so at least one.
THEOREM RemoteMarkerNamesRemote ==
  ASSUME ~LegacyRemote
  PROVE  SourceSpec => RemoteMarkerIsRemote
<1>1. ASSUME CatalogInv, CatalogStep, status'["remote"] # status["remote"]
      PROVE  \E r \in Remote : status'["remote"] \in Ids(snaps'[r])
  <2>1. WriteSuccessStatus
    BY <1>1 DEF CatalogStep, RunStep, Publish, Store, Forget, Record, Rotate, Inspect, Fail,
                Crash, Fetch
  <2>2. pc = "remote" /\ Marked(pc) /\ status'["remote"] = run /\ snaps' = snaps
    BY <1>1, <2>1 DEF WriteSuccessStatus, CatalogInv, TypeOK, Markers
  <2>3. PICK r \in Remote : r \in Repos
    BY <2>2, RepositoriesAreListed DEF Marked, RemoteDelivered
  <2>4. [id |-> run, kind |-> kind] \in snaps[r]
    BY <1>1, <2>2, <2>3, IndexedRepos DEF CatalogInv, DeliveredSoFar, Markers
  <2> QED BY <2>2, <2>3, <2>4 DEF Ids
<1>2. SourceInv /\ [SourceNext]_sourceVars =>
        [status'["remote"] # status["remote"] =>
           \E r \in Remote : status'["remote"] \in Ids(snaps'[r])]_vars
  <2>1. SourceNext => CatalogStep \/ UNCHANGED vars
    BY DEF SourceNext, RestoreStep, ResolveLatest, ResolveNamed, Apply, EndRestore
  <2> QED BY <1>1, <2>1 DEF SourceInv, sourceVars
<1> QED BY <1>2, SourceInvariance, PTL DEF SourceSpec, RemoteMarkerIsRemote

-----------------------------------------------------------------------------
(* The promise of the backups: RecoveryContract.                           *)

\* HeldEverywhere, with the repositories as a parameter.
HeldIn(k, new) ==
  {n \in 1..MaxRuns : \A r \in Repos : \E s \in OfKind(k, new[r]) : s.id >= n}
Held == [k \in Kinds |-> HeldIn(k, snaps)]

LEMMA HeldIsHeld == Held = [k \in Kinds |-> HeldEverywhere(k)]
BY Zenon DEF Held, HeldIn, HeldEverywhere

\* A run delivers, and forgets, points of its own kind.
OthersStay(new) ==
  \A k \in Kinds \ {kind} : \A r \in Repos : OfKind(k, new[r]) = OfKind(k, snaps[r])

LEMMA StoredOfOneKind ==
  ASSUME CatalogInv
  PROVE  OthersStay(Stored)
<1>1. \A r \in Repos : Stored[r] = IF r = Repositories[next]
                                  THEN snaps[r] \cup {[id |-> run, kind |-> kind]}
                                  ELSE snaps[r]
  BY IndexedRepos DEF CatalogInv, TypeOK, Stored
<1>2. ASSUME NEW k \in Kinds, k # kind, NEW r \in Repos
      PROVE  OfKind(k, Stored[r]) = OfKind(k, snaps[r])
  <2>1. ASSUME NEW s \in Stored[r] PROVE s \in snaps[r] \/ s.kind = kind
    <3>1. s \in snaps[r] \/ s = [id |-> run, kind |-> kind]
      BY <1>1, <1>2, <2>1
    <3>. QED BY <3>1
  <2>2. snaps[r] \subseteq Stored[r]
    BY <1>1, <1>2
  <2>. QED BY <1>2, <2>1, <2>2 DEF OfKind
<1>. QED BY <1>2 DEF OthersStay

LEMMA ForgottenOfOneKind ==
  ASSUME CatalogInv
  PROVE  OthersStay(Forgotten)
<1>1. \A r \in Repos : Forgotten[r] =
        IF r = Repositories[next] THEN (snaps[r] \ OfKind(kind, snaps[r]))
                                         \cup Last(KeepLast, OfKind(kind, snaps[r]))
                                  ELSE snaps[r]
  BY IndexedRepos DEF CatalogInv, TypeOK, Forgotten
<1>2. \A r \in Repos : Last(KeepLast, OfKind(kind, snaps[r])) \subseteq OfKind(kind, snaps[r])
  BY DEF Last
<1>3. ASSUME NEW k \in Kinds, k # kind, NEW r \in Repos
      PROVE  OfKind(k, Forgotten[r]) = OfKind(k, snaps[r])
  <2>1. \A s : s.kind = k => (s \in Forgotten[r] <=> s \in snaps[r])
    BY <1>1, <1>2, <1>3 DEF OfKind
  <2>. QED BY <2>1 DEF OfKind
<1>. QED BY <1>3 DEF OthersStay

\* Whatever a step of the delivery leaves in the repositories, they are as
\* recent as before.
LEMMA RepositoriesDeliver ==
  ASSUME CatalogInv, SnapsOK(snaps'), OthersStay(snaps'), status' = status
  PROVE  Recovery!RNext
<1>1. kind \in Kinds /\ MaxRuns \in Nat
  BY CatalogBounds DEF CatalogInv, TypeOK
<1>2. ASSUME NEW n \in HeldIn(kind, snaps)
      PROVE  n \in HeldIn(kind, snaps')
  <2>1. ASSUME NEW r \in Repos
        PROVE  \E t \in OfKind(kind, snaps'[r]) : t.id >= n
    <3>1. PICK s \in OfKind(kind, snaps[r]) : s.id >= n
      BY <1>2 DEF HeldIn
    <3>2. PICK t \in snaps'[r] : t.kind = s.kind /\ t.id >= s.id
      BY <3>1 DEF SnapsOK, Covers, OfKind
    <3>3. s.id \in Nat /\ t.id \in Nat /\ n \in Nat
      BY <1>1, <1>2, <3>1 DEF CatalogInv, TypeOK, SnapsOK, Snapshot, OfKind, HeldIn
    <3>. QED BY <3>1, <3>2, <3>3 DEF OfKind
  <2>. QED BY <1>2, <2>1 DEF HeldIn
<1>3. ASSUME NEW k \in Kinds, k # kind
      PROVE  HeldIn(k, snaps') = HeldIn(k, snaps)
  BY <1>3, Zenon DEF OthersStay, HeldIn
<1>4. Held' = [Held EXCEPT ![kind] = Held'[kind]]
  BY <1>1, <1>3 DEF Held
<1>5. Held[kind] \subseteq Held'[kind]
  BY <1>1, <1>2 DEF Held
<1>6. Recovery!Deliver(kind)
  BY <1>4, <1>5, HeldIsHeld DEF HeldIn, Held, HeldEverywhere, Recovery!Deliver
<1>. QED BY <1>1, <1>6 DEF Recovery!RNext

\* A marker moves on, and only once every repository has the run's point.
LEMMA MarkerPromises ==
  ASSUME CatalogInv, WriteSuccessStatus
  PROVE  Recovery!RNext \/ UNCHANGED <<snaps, status>>
<1>1. CASE ~Marked(pc)
  BY <1>1 DEF WriteSuccessStatus
<1>2. CASE Marked(pc)
  <2>1. /\ pc \in Markers /\ kind \in Kinds /\ run \in 0..MaxRuns /\ snaps' = snaps
        /\ status' = [status EXCEPT ![pc] = run]
    BY <1>2 DEF WriteSuccessStatus, CatalogInv, TypeOK
  <2>2. \A r \in Repos : [id |-> run, kind |-> kind] \in OfKind(kind, snaps[r])
    BY <2>1, IndexedRepos DEF CatalogInv, DeliveredSoFar, OfKind
  <2>3. PICK r \in Repos : TRUE
    BY IndexedRepos
  <2>4. run \in 1..MaxRuns
    BY <2>2, <2>3 DEF CatalogInv, TypeOK, Snapshot, OfKind
  <2>5. run \in Held[kind]
    BY <2>1, <2>2, <2>4 DEF Held, HeldIn
  <2>6. run >= status[pc]
    <3>1. status[pc] \in 0..MaxRuns
      BY <2>1 DEF CatalogInv, TypeOK
    <3>2. CASE status[pc] # 0
      <4>1. PICK s \in snaps[r] : s.id >= status[pc]
        BY <2>1, <3>2 DEF CatalogInv, MarkersAreHeld
      <4>2. s.id \in Nat /\ s.id <= run
        BY DEF CatalogInv, TypeOK, NothingIsAhead, Snapshot
      <4>. QED BY <2>4, <3>1, <4>1, <4>2
    <3>. QED BY <2>1, <3>1, <3>2
  <2>7. Held' = Held
    BY <2>1 DEF Held
  <2>8. kind \in [m \in Markers |-> IF m = "offline" THEN {"offline"} ELSE Kinds][pc]
    BY <1>2, <2>1 DEF Marked, Markers
  <2>9. Recovery!Promise(pc)
    BY <2>1, <2>5, <2>6, <2>7, <2>8 DEF Held, HeldIn, HeldEverywhere, Recovery!Promise
  <2>. QED BY <2>1, <2>9 DEF Recovery!RNext
<1>. QED BY <1>1, <1>2

LEMMA RecoveryStep ==
  ASSUME SourceInv, [SourceNext]_sourceVars
  PROVE  [Recovery!RNext]_(Recovery!rvars)
<1>1. CatalogInv
  BY DEF SourceInv
<1>2. ASSUME UNCHANGED <<snaps, status>>
      PROVE  UNCHANGED Recovery!rvars
  BY <1>2 DEF Recovery!rvars, HeldEverywhere
<1>3. ASSUME snaps' \in CutSnaps, status' = status
      PROVE  [Recovery!RNext]_(Recovery!rvars)
  <2>1. SnapsOK(snaps')
    BY <1>1, <1>3, CutsOK
  <2>2. OthersStay(snaps') \/ snaps' = snaps
    BY <1>1, <1>3, StoredOfOneKind, ForgottenOfOneKind DEF CutSnaps
  <2>. QED BY <1>1, <1>2, <1>3, <2>1, <2>2, RepositoriesDeliver
<1>4. CASE Store
  BY <1>3, <1>4 DEF Store, CutSnaps
<1>5. CASE Forget
  BY <1>3, <1>5 DEF Forget, CutSnaps
<1>6. CASE Fail \/ Crash
  BY <1>3, <1>6 DEF Fail, Crash
<1>7. CASE WriteSuccessStatus
  BY <1>1, <1>2, <1>7, MarkerPromises
<1>8. CASE UNCHANGED <<snaps, status>>
  BY <1>2, <1>8
<1>. QED
  BY <1>4, <1>5, <1>6, <1>7, <1>8
  DEF SourceNext, CatalogStep, RunStep, RestoreStep, ResolveLatest, ResolveNamed, Apply,
      EndRestore, Publish, Record, Rotate, Inspect, Fetch, sourceVars, vars

\* Backups promise what RecoveryContract says, for any repositories, retentions
\* and number of runs: what can be recovered never gets older, and no step
\* takes back what a success marker has said.
THEOREM CatalogKeepsRecovery == SourceSpec => RecoverySpec
<1>1. SourceInit => Recovery!RInit
  <2>1. SUFFICES ASSUME SourceInit PROVE Recovery!RInit
    OBVIOUS
  <2>2. PICK r \in Repos : TRUE
    BY IndexedRepos
  <2>3. snaps[r] = {}
    BY <2>1, <2>2 DEF SourceInit, Init
  <2>4. \A k \in Kinds : HeldEverywhere(k) = {}
    BY <2>2, <2>3 DEF HeldEverywhere, OfKind
  <2>. QED BY <2>1, <2>4 DEF SourceInit, Init, Recovery!RInit
<1>2. SourceInv /\ [SourceNext]_sourceVars => [Recovery!RNext]_(Recovery!rvars)
  BY RecoveryStep
<1>. QED BY <1>1, <1>2, SourceInvariance, PTL DEF SourceSpec, RecoverySpec, Recovery!RSpec
=============================================================================
