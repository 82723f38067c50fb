------------------------- MODULE BackupCaptureProofs -------------------------
(***************************************************************************)
(* Proofs about BackupCapture, for any number of runs, writes and kills.   *)
(*                                                                         *)
(* IInv is inductive when `docker ps` never fails on containers that are   *)
(* there, whatever else fails: a converge starts Gitea between the runs    *)
(* only, so that Gitea stays down, and Harbor read-only, from before the   *)
(* first half is copied until after the second.                            *)
(***************************************************************************)
EXTENDS BackupCapture, FiniteSetTheorems, TLAPS

USE DEF Stages, GiteaStages, AfterGitea, FaultKinds, Captured, Halves, Point,
        services, results

LEMMA NoDraftIsDraft == NoDraft \in [Captured -> Halves]
<1>1. [dump |-> 0, files |-> 0] \in Halves BY CaptureBounds
<1>. QED BY <1>1 DEF NoDraft

\* The provers treat the two Boolean variables apart from the numbers.
LEMMA CaptureTypeInit == Init => TypeOK
<1>1. Init => wasRunning \in BOOLEAN /\ resets \in BOOLEAN BY Zenon DEF Init
<1>. QED BY <1>1, CaptureBounds, NoDraftIsDraft DEF Init, TypeOK

LEMMA CaptureTypeStep == TypeOK /\ [Next]_vars => TypeOK'
<1>. SUFFICES ASSUME TypeOK, [Next]_vars PROVE TypeOK' OBVIOUS
<1>. USE CaptureBounds DEF TypeOK
<1>0. faults' \subseteq Faults BY DEF Next, vars
<1>. USE <1>0
<1>1. CASE Begin
  <2>1. wasRunning' \in BOOLEAN /\ resets' \in BOOLEAN BY <1>1, Zenon DEF Begin
  <2>. QED BY <1>1, <2>1, NoDraftIsDraft DEF Begin
<1>2. CASE Discover BY <1>2 DEF Discover
<1>3. CASE GiteaLook BY <1>3 DEF GiteaLook, ContainerExists
<1>4. CASE GiteaStop BY <1>4 DEF GiteaStop
<1>5. CASE GiteaDump BY <1>5 DEF GiteaDump, Copy
<1>6. CASE GiteaFiles BY <1>6 DEF GiteaFiles, Copy
<1>7. CASE GiteaRestart BY <1>7 DEF GiteaRestart
<1>8. CASE HarborReadOnly BY <1>8 DEF HarborReadOnly
<1>9. CASE HarborDump BY <1>9 DEF HarborDump, Copy
<1>10. CASE HarborFiles BY <1>10 DEF HarborFiles, Copy
<1>11. CASE HarborReset BY <1>11 DEF HarborReset
<1>12. CASE Publish
  <2>1. [run |-> run, pair |-> draft] \in Point BY <1>12 DEF Publish
  <2>. QED BY <1>12, <2>1 DEF Publish
<1>13. CASE Fail
  <2>1. wasRunning' \in BOOLEAN /\ resets' \in BOOLEAN BY <1>13, Zenon DEF Fail
  <2>2. gitea' \in {"up", "down"} /\ harbor' \in {"writable", "read_only"}
    BY <1>13, Zenon DEF Fail, GiteaDeferred, HarborDeferred
  <2>3. partial' \subseteq 1..MaxRuns /\ failed' \subseteq 1..MaxRuns
    BY <1>13 DEF Fail, MayFail
  <2>4. stage' = "idle" /\ UNCHANGED <<run, writes, draft, points, crashes>>
    BY <1>13 DEF Fail
  <2>. QED BY <2>1, <2>2, <2>3, <2>4
<1>14. CASE Crash
  <2>1. wasRunning' \in BOOLEAN /\ resets' \in BOOLEAN BY <1>14, Zenon DEF Crash
  <2>. QED BY <1>14, <2>1 DEF Crash
<1>15. ASSUME NEW s \in Captured, Write(s) PROVE TypeOK' BY <1>15 DEF Write
<1>16. CASE Converge BY <1>16 DEF Converge
<1>17. CASE UNCHANGED vars BY <1>17 DEF vars
<1>. QED
  BY <1>1, <1>2, <1>3, <1>4, <1>5, <1>6, <1>7, <1>8, <1>9, <1>10, <1>11, <1>12,
     <1>13, <1>14, <1>15, <1>16, <1>17 DEF Next, RunStep

\* The variables keep their types, whatever fails (the ranges of TypeOK).
THEOREM CaptureTypes == Spec => []TypeOK
<1>. QED BY CaptureTypeInit, CaptureTypeStep, PTL DEF Spec

-----------------------------------------------------------------------------
(* The boundaries.                                                         *)

Boundaries == GiteaBoundary /\ HarborBoundary /\ PairsConsistent

LEMMA BoundariesInit == Init => Boundaries
BY DEF Init, Boundaries, GiteaBoundary, HarborBoundary, PairsConsistent

\* The steps that only Gitea's boundary can notice.
LEMMA GiteaSteps ==
  ASSUME TypeOK, Boundaries, "ps" \notin faults,
         Begin \/ Discover \/ GiteaLook \/ GiteaStop \/ GiteaDump \/ GiteaFiles \/ GiteaRestart
  PROVE  Boundaries'
<1>. USE DEF TypeOK, Boundaries, GiteaBoundary, HarborBoundary, PairsConsistent
<1>1. CASE Begin BY <1>1 DEF Begin
<1>2. CASE Discover BY <1>2 DEF Discover
<1>3. CASE GiteaLook BY <1>3 DEF GiteaLook, ContainerExists
<1>4. CASE GiteaStop BY <1>4 DEF GiteaStop
<1>5. CASE GiteaDump BY <1>5 DEF GiteaDump, Copy
<1>6. CASE GiteaFiles BY <1>6 DEF GiteaFiles, Copy
<1>7. CASE GiteaRestart BY <1>7 DEF GiteaRestart
<1>. QED BY <1>1, <1>2, <1>3, <1>4, <1>5, <1>6, <1>7

\* The steps from Harbor's boundary to the publication.
LEMMA HarborSteps ==
  ASSUME TypeOK, Boundaries,
         HarborReadOnly \/ HarborDump \/ HarborFiles \/ HarborReset \/ Publish
  PROVE  Boundaries'
<1>. USE DEF TypeOK, Boundaries, GiteaBoundary, HarborBoundary, PairsConsistent
<1>1. CASE HarborReadOnly BY <1>1 DEF HarborReadOnly
<1>2. CASE HarborDump BY <1>2 DEF HarborDump, Copy
<1>3. CASE HarborFiles BY <1>3 DEF HarborFiles, Copy
<1>4. CASE HarborReset BY <1>4 DEF HarborReset
<1>5. CASE Publish BY <1>5 DEF Publish
<1>. QED BY <1>1, <1>2, <1>3, <1>4, <1>5

\* A service that writes is up, so not inside its boundary; the rest ends a run
\* or happens between two runs.
LEMMA OtherSteps ==
  ASSUME TypeOK, Boundaries,
         Fail \/ Crash \/ Converge \/ (\E s \in Captured : Write(s)) \/ UNCHANGED vars
  PROVE  Boundaries'
<1>. USE DEF TypeOK, Boundaries, GiteaBoundary, HarborBoundary, PairsConsistent
<1>1. CASE Fail BY <1>1 DEF Fail
<1>2. CASE Crash BY <1>2 DEF Crash
<1>3. CASE Converge BY <1>3 DEF Converge
<1>4. ASSUME NEW s \in Captured, Write(s) PROVE Boundaries' BY <1>4 DEF Write
<1>5. CASE UNCHANGED vars BY <1>5 DEF vars
<1>. QED BY <1>1, <1>2, <1>3, <1>4, <1>5

\* What holds inside the two boundaries is an invariant of every behaviour in
\* which `docker ps` tells the truth.
THEOREM CaptureInvariance ==
  ASSUME "ps" \notin Faults
  PROVE  Spec => []IInv
<1>1. Init => IInv BY CaptureTypeInit, BoundariesInit DEF IInv, Boundaries
<1>2. IInv /\ [Next]_vars => IInv'
  <2>. SUFFICES ASSUME IInv, [Next]_vars PROVE IInv' OBVIOUS
  <2>1. TypeOK /\ Boundaries BY DEF IInv, Boundaries
  <2>2. TypeOK' BY <2>1, CaptureTypeStep
  <2>3. "ps" \notin faults BY <2>1 DEF TypeOK
  <2>4. Boundaries' BY <2>1, <2>3, GiteaSteps, HarborSteps, OtherSteps DEF Next, RunStep
  <2>. QED BY <2>2, <2>4 DEF IInv, Boundaries
<1>. QED BY <1>1, <1>2, PTL DEF Spec

\* In every published point the two halves of Gitea, and of Harbor, were copied
\* with no write in between, whatever else fails and whenever a run is killed.
THEOREM RecoveryPointsConsistent ==
  ASSUME "ps" \notin Faults
  PROVE  Spec => []PairsConsistent
<1>1. IInv => PairsConsistent BY DEF IInv
<1>. QED BY <1>1, CaptureInvariance, PTL

\* A point is published only when Harbor is writable again and a Gitea that was
\* running runs again.
THEOREM PublishedPointsServe ==
  ASSUME "ps" \notin Faults
  PROVE  Spec => PublishedServing
<1>1. IInv /\ [Next]_vars
        => [points' # points => harbor = "writable" /\ (wasRunning => gitea = "up")]_vars
  <2>. SUFFICES ASSUME IInv, [Next]_vars, points' # points
                PROVE  harbor = "writable" /\ (wasRunning => gitea = "up")
    OBVIOUS
  <2>1. Publish
    BY DEF Next, RunStep, vars, services, results, Begin, Discover, GiteaLook, GiteaStop,
           GiteaDump, GiteaFiles, GiteaRestart, HarborReadOnly, HarborDump, HarborFiles,
           HarborReset, Fail, Crash, Write, Converge
  <2>. QED BY <2>1 DEF Publish, IInv, GiteaBoundary, HarborBoundary
<1>. QED BY <1>1, CaptureInvariance, PTL DEF Spec, PublishedServing

-----------------------------------------------------------------------------
(* What a run leaves behind, whatever `docker ps` says.                    *)

\* Once Gitea's turn is over it runs again if it ran before, and until it comes
\* nobody has looked.
GiteaTurn ==
  /\ stage \in {"staged", "inventory"} => wasRunning = FALSE
  /\ stage \in AfterGitea \ {"restart"} => (wasRunning = TRUE => gitea = "up")

\* A read-only Harbor has somebody who will reset it, unless a run was killed.
HarborTurn ==
  /\ stage \in {"idle", "verify"} => resets = FALSE
  /\ harbor = "read_only" /\ {"answer", "reset"} \cap faults = {}
       => crashes > 0 \/ resets = TRUE

\* Drafts are of runs that were killed, and of the run under way.
Drafts ==
  /\ partial \subseteq 1..run
  /\ \A p \in points : p.run \in 1..run /\ p.run \notin partial
  /\ stage # "idle" => run \in partial
  /\ Cardinality(partial) <= crashes + (IF stage = "idle" THEN 0 ELSE 1)

LEMMA TurnsInit == Init => GiteaTurn /\ HarborTurn /\ Drafts
BY FS_EmptySet DEF Init, GiteaTurn, HarborTurn, Drafts

LEMMA GiteaTurnStep == TypeOK /\ GiteaTurn /\ [Next]_vars => GiteaTurn'
<1>. SUFFICES ASSUME TypeOK, GiteaTurn, [Next]_vars PROVE GiteaTurn' OBVIOUS
<1>. USE DEF GiteaTurn
<1>1. CASE Begin \/ Discover \/ GiteaLook \/ GiteaStop \/ GiteaDump \/ GiteaFiles
  BY <1>1 DEF Begin, Discover, GiteaLook, GiteaStop, GiteaDump, GiteaFiles
<1>2. CASE GiteaRestart BY <1>2 DEF GiteaRestart
<1>3. CASE HarborReadOnly \/ HarborDump \/ HarborFiles \/ HarborReset
  BY <1>3 DEF HarborReadOnly, HarborDump, HarborFiles, HarborReset
<1>4. CASE Publish \/ Fail \/ Crash \/ Converge
  BY <1>4 DEF Publish, Fail, Crash, Converge
<1>5. ASSUME NEW s \in Captured, Write(s) PROVE GiteaTurn' BY <1>5 DEF Write
<1>6. CASE UNCHANGED vars BY <1>6 DEF vars
<1>. QED BY <1>1, <1>2, <1>3, <1>4, <1>5, <1>6 DEF Next, RunStep

LEMMA HarborTurnStep == TypeOK /\ HarborTurn /\ [Next]_vars => HarborTurn'
<1>. SUFFICES ASSUME TypeOK, HarborTurn, [Next]_vars PROVE HarborTurn' OBVIOUS
<1>0. faults' = faults /\ crashes \in Nat BY DEF TypeOK, Next, vars
<1>. USE DEF HarborTurn
<1>1. CASE Begin BY <1>0, <1>1 DEF Begin
<1>2. CASE Discover \/ GiteaLook \/ GiteaStop \/ GiteaDump \/ GiteaFiles \/ GiteaRestart
  BY <1>0, <1>2 DEF Discover, GiteaLook, GiteaStop, GiteaDump, GiteaFiles, GiteaRestart
<1>3. CASE HarborReadOnly BY <1>0, <1>3 DEF HarborReadOnly
<1>4. CASE HarborDump \/ HarborFiles BY <1>0, <1>4 DEF HarborDump, HarborFiles
<1>5. CASE HarborReset BY <1>0, <1>5 DEF HarborReset
<1>6. CASE Publish BY <1>0, <1>6 DEF Publish
<1>7. CASE Fail
  <2>1. /\ stage' = "idle" /\ resets' = FALSE /\ crashes' = crashes
        /\ harbor' \in HarborDeferred
    BY <1>7 DEF Fail
  <2>2. CASE resets = TRUE
    BY <1>0, <2>1, <2>2 DEF HarborDeferred
  <2>3. CASE resets # TRUE
    <3>1. ~resets
      BY <2>3 DEF TypeOK
    <3> QED BY <1>0, <2>1, <2>3, <3>1 DEF HarborDeferred
  <2>. QED BY <2>2, <2>3
<1>8. CASE Crash BY <1>0, <1>8 DEF Crash
<1>9. CASE Converge BY <1>0, <1>9 DEF Converge
<1>10. ASSUME NEW s \in Captured, Write(s) PROVE HarborTurn' BY <1>0, <1>10 DEF Write
<1>11. CASE UNCHANGED vars BY <1>11 DEF vars
<1>. QED
  BY <1>1, <1>2, <1>3, <1>4, <1>5, <1>6, <1>7, <1>8, <1>9, <1>10, <1>11 DEF Next, RunStep

LEMMA DraftsStep == TypeOK /\ Drafts /\ [Next]_vars => Drafts'
<1>. SUFFICES ASSUME TypeOK, Drafts, [Next]_vars PROVE Drafts' OBVIOUS
<1>0. /\ IsFiniteSet(partial) /\ Cardinality(partial) \in Nat
      /\ crashes \in Nat /\ run \in Nat
  <2>1. crashes \in Nat /\ run \in Nat /\ partial \in SUBSET (1..MaxRuns)
    BY CaptureBounds DEF TypeOK
  <2>2. IsFiniteSet(1..MaxRuns) BY CaptureBounds, FS_Interval
  <2>3. IsFiniteSet(partial) BY <2>1, <2>2, FS_Subset
  <2>. QED BY <2>1, <2>3, FS_CardinalityType
<1>1. CASE Begin
  <2>1. run + 1 \notin partial BY <1>0 DEF Drafts
  <2>2. Cardinality(partial \cup {run + 1}) = Cardinality(partial) + 1
    BY <1>0, <2>1, FS_AddElement
  <2>3. /\ stage = "idle" /\ stage' = "staged" /\ run' = run + 1
        /\ partial' = partial \cup {run + 1} /\ UNCHANGED <<points, crashes>>
    BY <1>1 DEF Begin
  <2>4. partial' \subseteq 1..run' /\ run' \in partial'
    BY <1>0, <2>3 DEF Drafts
  <2>5. \A p \in points : p.run \in 1..run' /\ p.run \notin partial'
    BY <1>0, <2>3 DEF Drafts
  <2>6. Cardinality(partial') <= crashes' + 1
    BY <1>0, <2>2, <2>3 DEF Drafts
  <2>. QED BY <2>3, <2>4, <2>5, <2>6 DEF Drafts
<1>2. CASE \/ Discover \/ GiteaLook \/ GiteaStop \/ GiteaDump \/ GiteaFiles \/ GiteaRestart
           \/ HarborReadOnly \/ HarborDump \/ HarborFiles \/ HarborReset
  <2>1. stage # "idle" /\ stage' # "idle" /\ UNCHANGED <<run, partial, points, crashes>>
    BY <1>2 DEF Discover, GiteaLook, GiteaStop, GiteaDump, GiteaFiles, GiteaRestart,
                HarborReadOnly, HarborDump, HarborFiles, HarborReset
  <2>. QED BY <2>1 DEF Drafts
<1>3. CASE Publish \/ Fail
  <2>1. /\ stage # "idle" /\ stage' = "idle" /\ partial' = partial \ {run}
        /\ points' = points \/ points' = points \cup {[run |-> run, pair |-> draft]}
        /\ UNCHANGED <<run, crashes>>
    BY <1>3 DEF Publish, Fail, MayFail
  <2>2. Cardinality(partial') = Cardinality(partial) - 1
    BY <1>0, <2>1, FS_RemoveElement DEF Drafts
  <2>3. run \in 1..run
    BY <1>0, <2>1 DEF TypeOK
  <2>4. \A p \in points' : p.run \in 1..run' /\ p.run \notin partial'
    BY <2>1, <2>3 DEF Drafts
  <2>. QED BY <1>0, <2>1, <2>2, <2>4 DEF Drafts
<1>4. CASE Crash
  <2>1. /\ stage # "idle" /\ stage' = "idle" /\ crashes' = crashes + 1
        /\ UNCHANGED <<run, partial, points>>
    BY <1>4 DEF Crash
  <2>. QED BY <1>0, <2>1 DEF Drafts
<1>5. CASE Converge BY <1>5 DEF Converge, Drafts
<1>6. ASSUME NEW s \in Captured, Write(s) PROVE Drafts' BY <1>6 DEF Write, Drafts
<1>7. CASE UNCHANGED vars BY <1>7 DEF vars, Drafts
<1>. QED BY <1>1, <1>2, <1>3, <1>4, <1>5, <1>6, <1>7 DEF Next, RunStep

\* Between two runs Harbor can be written unless a run was killed, whichever
\* stage failed, as long as Harbor answers and obeys.
THEOREM HarborIsReset == Spec => []HarborComesBack
<1>1. TypeOK /\ HarborTurn => HarborComesBack BY DEF HarborTurn, HarborComesBack
<1>. QED BY <1>1, TurnsInit, HarborTurnStep, CaptureTypes, PTL DEF Spec

\* A run that is not killed leaves a Gitea that was running up, where Gitea can
\* be started at all, however often `docker ps` lies.
THEOREM GiteaIsRestarted == Spec => GiteaComesBack
<1>1. TypeOK /\ GiteaTurn /\ [Next]_vars =>
        [stage # "idle" /\ stage' = "idle" /\ crashes' = crashes /\ wasRunning
           => gitea' = "up" \/ "start" \in faults]_vars
  <2>. SUFFICES ASSUME TypeOK, GiteaTurn, Next, stage # "idle", stage' = "idle",
                       crashes' = crashes, wasRunning = TRUE, "start" \notin faults
                PROVE  gitea' = "up"
    BY DEF TypeOK
  <2>0. ~Crash
    <3>1. crashes \in Nat BY CaptureBounds DEF TypeOK
    <3>2. crashes + 1 # crashes BY <3>1
    <3>. QED BY <3>2, Zenon DEF Crash
  <2>1. Publish \/ Fail
    BY <2>0 DEF Next, RunStep, Begin, Discover, GiteaLook, GiteaStop, GiteaDump, GiteaFiles,
                GiteaRestart, HarborReadOnly, HarborDump, HarborFiles, HarborReset, Converge, Write
  <2>2. CASE Publish BY <2>2 DEF Publish, GiteaTurn
  <2>3. CASE Fail
    <3>1. gitea' \in GiteaDeferred BY <2>3 DEF Fail
    <3>2. stage \in GiteaStages \cup {"restart"} \/ stage \in AfterGitea \ {"restart"}
      BY DEF TypeOK, GiteaTurn
    <3>. QED BY <3>1, <3>2 DEF GiteaDeferred, GiteaTurn
  <2>. QED BY <2>1, <2>2, <2>3
<1>. QED BY <1>1, TurnsInit, GiteaTurnStep, CaptureTypes, PTL DEF Spec, GiteaComesBack

\* No published point is a draft, and only killed runs leave drafts behind.
THEOREM DraftsAreOfCrashes == Spec => []PartialsAreOfCrashes
<1>1. Drafts => PartialsAreOfCrashes BY DEF Drafts, PartialsAreOfCrashes
<1>. QED BY <1>1, TurnsInit, DraftsStep, CaptureTypes, PTL DEF Spec
=============================================================================
