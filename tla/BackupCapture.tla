---------------------------- MODULE BackupCapture ----------------------------
(***************************************************************************)
(* How one `backup run` after the other captures the services of a node    *)
(* (internal/backup/run.go, Run up to the publication, backupGitea,        *)
(* restartGitea, backupHarbor), from the moment the run holds the          *)
(* operation lock (see AdminNode) to the rename that publishes the point   *)
(* (see BackupCatalog for what follows).                                   *)
(*                                                                         *)
(* Gitea and Harbor each keep a database and files that must be captured   *)
(* as a pair.  The run stops Gitea, and makes Harbor read-only, around the *)
(* two copies.  Every write of a service changes both halves: a pair is    *)
(* consistent when both halves were copied after the same write.           *)
(* Keycloak, OpenBao, the images and the stack definitions have one half:  *)
(* their steps only succeed or fail, and are part of the stage before.     *)
(***************************************************************************)
EXTENDS Naturals, FiniteSets

CONSTANTS
  Faults,      \* the faults the environment may have
  MaxRuns,     \* bound: backup runs in a behaviour
  MaxWrites,   \* bound: writes of each service
  MaxCrashes   \* bound: killed runs

\* "ps"      `docker ps` fails although the containers are there
\* "start"   `docker start gitea` fails, or Gitea does not become healthy
\* "answer"  a request to Harbor is applied and its answer lost
\* "reset"   the request that makes Harbor writable again is refused
FaultKinds == {"ps", "start", "answer", "reset"}
Captured == {"gitea", "harbor"}

ASSUME FaultsAreKinds == Faults \subseteq FaultKinds
ASSUME CaptureBounds == MaxRuns \in Nat /\ MaxWrites \in Nat /\ MaxCrashes \in Nat

VARIABLES
  faults,      \* the faults it has in this behaviour
  stage,       \* what the run does next
  run,         \* the number of the current or last run
  gitea,       \* the Gitea container: "up" or "down"
  harbor,      \* the mode of Harbor: "writable" or "read_only"
  writes,      \* how often each service has changed its data
  wasRunning,  \* backupGitea's wasRunning: Gitea was found running
  resets,      \* backupHarbor has deferred the reset of Harbor
  partial,     \* the .partial- directories, by run
  draft,       \* the halves copied so far: the write each was copied after
  points,      \* the published recovery points
  failed,      \* the runs with a record under .failed
  crashes

vars == <<faults, stage, run, gitea, harbor, writes, wasRunning, resets, partial, draft,
          points, failed, crashes>>

Stages == {"idle", "staged", "inventory", "stop", "dump", "files", "restart",
           "harbor", "harborDump", "harborFiles", "harborReset", "verify"}
GiteaStages == {"stop", "dump", "files"}
AfterGitea == {"restart", "harbor", "harborDump", "harborFiles", "harborReset", "verify"}
Halves == [dump : 0..MaxWrites, files : 0..MaxWrites]
Point == [run : 1..MaxRuns, pair : [Captured -> Halves]]

TypeOK ==
  /\ faults \subseteq Faults
  /\ stage \in Stages
  /\ run \in 0..MaxRuns /\ (stage # "idle" => run > 0)
  /\ gitea \in {"up", "down"}
  /\ harbor \in {"writable", "read_only"}
  /\ writes \in [Captured -> 0..MaxWrites]
  /\ wasRunning \in BOOLEAN /\ resets \in BOOLEAN
  /\ partial \subseteq 1..MaxRuns
  /\ draft \in [Captured -> Halves]
  /\ points \subseteq Point
  /\ failed \subseteq 1..MaxRuns
  /\ crashes \in 0..MaxCrashes

NoDraft == [s \in Captured |-> [dump |-> 0, files |-> 0]]

Init ==
  /\ faults \in SUBSET Faults
  /\ stage = "idle" /\ run = 0
  /\ gitea \in {"up", "down"} /\ harbor = "writable"
  /\ writes = [s \in Captured |-> 0]
  /\ wasRunning = FALSE /\ resets = FALSE
  /\ partial = {} /\ draft = NoDraft /\ points = {} /\ failed = {}
  /\ crashes = 0

services == <<gitea, harbor, writes>>
results == <<points, failed>>

-----------------------------------------------------------------------------
(* The run.                                                                *)

\* Mutant: the directory is named before the run has its number.
BeginMutant ==
  /\ stage = "idle" /\ run < MaxRuns
  /\ run' = run + 1
  /\ partial' = partial \cup {run}
  /\ draft' = NoDraft /\ wasRunning' = FALSE /\ resets' = FALSE
  /\ stage' = "staged"
  /\ UNCHANGED <<services, results, crashes>>

Begin ==
  /\ stage = "idle" /\ run < MaxRuns
  /\ run' = run + 1
  /\ partial' = partial \cup {run + 1}
  /\ draft' = NoDraft /\ wasRunning' = FALSE /\ resets' = FALSE
  /\ stage' = "staged"
  /\ UNCHANGED <<services, results, crashes>>

\* The active stacks are known: from here on a failure leaves a record.
Discover ==
  /\ stage = "staged"
  /\ stage' = "inventory"
  /\ UNCHANGED <<run, services, wasRunning, resets, partial, draft, results, crashes>>

\* containerExists: a failing `docker ps` reads as "no such container".
ContainerExists(up) == {up} \cup IF "ps" \in faults THEN {FALSE} ELSE {}

\* Keycloak is dumped; Gitea's database runs; is Gitea running?
GiteaLook ==
  /\ stage = "inventory"
  /\ wasRunning' \in ContainerExists(gitea = "up")
  /\ stage' = "stop"
  /\ UNCHANGED <<run, services, resets, partial, draft, results, crashes>>

\* Mutant: Gitea is not stopped.
GiteaStopMutant ==
  /\ stage = "stop"
  /\ stage' = "dump"
  /\ UNCHANGED <<run, services, wasRunning, resets, partial, draft, results, crashes>>

GiteaStop ==
  /\ stage = "stop"
  /\ gitea' = IF wasRunning THEN "down" ELSE gitea
  /\ stage' = "dump"
  /\ UNCHANGED <<run, harbor, writes, wasRunning, resets, partial, draft, results, crashes>>

Copy(service, half) ==
  draft' = [draft EXCEPT ![service][half] = writes[service]]

GiteaDump ==
  /\ stage = "dump"
  /\ Copy("gitea", "dump")
  /\ stage' = "files"
  /\ UNCHANGED <<run, services, wasRunning, resets, partial, results, crashes>>

GiteaFiles ==
  /\ stage = "files"
  /\ Copy("gitea", "files")
  /\ stage' = "restart"
  /\ UNCHANGED <<run, services, wasRunning, resets, partial, results, crashes>>

\* Mutant: an application found running is left for the next converge.
GiteaRestartMutant ==
  /\ stage = "restart"
  /\ stage' = "harbor"
  /\ UNCHANGED <<run, services, wasRunning, resets, partial, draft, results, crashes>>

\* restartGitea succeeds only when Gitea is up and healthy.
GiteaRestart ==
  /\ stage = "restart"
  /\ gitea' = IF wasRunning THEN "up" ELSE gitea
  /\ stage' = "harbor"
  /\ UNCHANGED <<run, harbor, writes, wasRunning, resets, partial, draft, results, crashes>>

\* Mutant: Harbor is captured while it can be written.
HarborReadOnlyMutant ==
  /\ stage = "harbor"
  /\ resets' = TRUE
  /\ stage' = "harborDump"
  /\ UNCHANGED <<run, services, wasRunning, partial, draft, results, crashes>>

HarborReadOnly ==
  /\ stage = "harbor"
  /\ harbor' = "read_only"
  /\ resets' = TRUE
  /\ stage' = "harborDump"
  /\ UNCHANGED <<run, gitea, writes, wasRunning, partial, draft, results, crashes>>

HarborDump ==
  /\ stage = "harborDump"
  /\ Copy("harbor", "dump")
  /\ stage' = "harborFiles"
  /\ UNCHANGED <<run, services, wasRunning, resets, partial, results, crashes>>

HarborFiles ==
  /\ stage = "harborFiles"
  /\ Copy("harbor", "files")
  /\ stage' = "harborReset"
  /\ UNCHANGED <<run, services, wasRunning, resets, partial, results, crashes>>

HarborReset ==
  /\ stage = "harborReset"
  /\ harbor' = "writable"
  /\ resets' = FALSE
  /\ stage' = "verify"
  /\ UNCHANGED <<run, gitea, writes, wasRunning, partial, draft, results, crashes>>

\* OpenBao, images and definitions are captured; the point is verified and its
\* directory renamed.
Publish ==
  /\ stage = "verify"
  /\ points' = points \cup {[run |-> run, pair |-> draft]}
  /\ partial' = partial \ {run}
  /\ stage' = "idle"
  /\ UNCHANGED <<run, services, wasRunning, resets, draft, failed, crashes>>

-----------------------------------------------------------------------------
(* Failures.                                                               *)

\* Mutant: Gitea is restarted at the end of a capture that succeeded, only.
GiteaDeferredMutant == {gitea}

\* What the restart of Gitea leaves, deferred by backupGitea or tried in its
\* place; a container that starts may still not become healthy.
GiteaDeferred ==
  IF wasRunning /\ stage \in GiteaStages \cup {"restart"}
  THEN {"up"} \cup IF "start" \in faults THEN {"down"} ELSE {}
  ELSE {gitea}

\* Mutant: nothing resets Harbor when a copy fails.
HarborDeferredMutant == {harbor}

\* The reset of Harbor is deferred once Harbor has answered the first request.
HarborDeferred ==
  CASE resets -> {"writable"} \cup IF "reset" \in faults THEN {harbor} ELSE {}
    [] stage = "harbor" /\ "answer" \in faults -> {harbor, "read_only"}
    [] OTHER -> {harbor}

\* A stage fails: a full disk, a timeout, a command that exits with an error, an
\* artifact that is missing, SIGTERM.
MayFail ==
  CASE stage = "restart" -> wasRunning /\ "start" \in faults
    [] stage = "harborReset" -> {"reset", "answer"} \cap faults # {}
    [] OTHER -> stage # "idle"

\* Mutant: the .partial- directory is kept for the record.
FailMutant ==
  /\ MayFail
  /\ gitea' \in GiteaDeferred /\ harbor' \in HarborDeferred
  /\ failed' = IF stage = "staged" THEN failed ELSE failed \cup {run}
  /\ resets' = FALSE
  /\ stage' = "idle"
  /\ UNCHANGED <<run, writes, wasRunning, partial, draft, points, crashes>>

\* The run returns an error: its deferred calls run, the .partial- directory is
\* removed, and the record of what was produced is kept.
Fail ==
  /\ MayFail
  /\ gitea' \in GiteaDeferred /\ harbor' \in HarborDeferred
  /\ partial' = partial \ {run}
  /\ failed' = IF stage = "staged" THEN failed ELSE failed \cup {run}
  /\ resets' = FALSE
  /\ stage' = "idle"
  /\ UNCHANGED <<run, writes, wasRunning, draft, points, crashes>>

\* SIGKILL or power loss: nothing deferred runs.
Crash ==
  /\ crashes < MaxCrashes
  /\ stage # "idle"
  /\ crashes' = crashes + 1
  /\ resets' = FALSE
  /\ stage' = "idle"
  /\ UNCHANGED <<run, services, wasRunning, partial, draft, results>>

-----------------------------------------------------------------------------
(* The services between and during the runs.                               *)

\* A user writes through an application that accepts writes.
Write(service) ==
  /\ writes[service] < MaxWrites
  /\ IF service = "gitea" THEN gitea = "up" ELSE harbor = "writable"
  /\ writes' = [writes EXCEPT ![service] = @ + 1]
  /\ UNCHANGED <<stage, run, gitea, harbor, wasRunning, resets, partial, draft,
                 results, crashes>>

\* Mutant: the role starts the stack only when its definition has changed.
ConvergeMutant ==
  /\ stage = "idle" /\ gitea = "down" /\ FALSE
  /\ UNCHANGED vars

\* A converge run starts the Gitea stack; it needs the operation lock.
Converge ==
  /\ stage = "idle" /\ gitea = "down"
  /\ gitea' = "up"
  /\ UNCHANGED <<stage, run, harbor, writes, wasRunning, resets, partial, draft,
                 results, crashes>>

RunStep ==
  \/ Discover \/ GiteaLook \/ GiteaStop \/ GiteaDump \/ GiteaFiles \/ GiteaRestart
  \/ HarborReadOnly \/ HarborDump \/ HarborFiles \/ HarborReset
  \/ Publish \/ Fail

Next ==
  /\ Begin \/ RunStep \/ Crash \/ Converge \/ \E s \in Captured : Write(s)
  /\ UNCHANGED faults

Spec == Init /\ [][Next]_vars

\* A run goes on, since each of its commands is bounded by a timeout or ends by
\* itself; admin-converge.timer starts a converge run again and again.
FairSpec ==
  Spec /\ WF_vars(RunStep /\ UNCHANGED faults) /\ SF_vars(Converge /\ UNCHANGED faults)

-----------------------------------------------------------------------------
(* Properties.                                                             *)

\* In every published point the database and the files of Gitea, and those of
\* Harbor, were copied with no write in between, whatever failed on the way.
PairsConsistent ==
  \A p \in points : \A s \in Captured : p.pair[s].dump = p.pair[s].files

\* A point is published only when the services it disturbed serve again.
PublishedServing ==
  [][points' # points => harbor = "writable" /\ (wasRunning => gitea = "up")]_vars

\* "The previous running state is restored after the capture and on every
\* failure path": a run that is not killed leaves Gitea as it found it, where
\* Gitea can be started at all.
GiteaComesBack ==
  [][stage # "idle" /\ stage' = "idle" /\ crashes' = crashes /\ wasRunning
       => gitea' = "up" \/ "start" \in faults]_vars

\* Between two runs Harbor is read-only only if a run was killed, whichever step
\* of the run failed, as long as Harbor's own answers arrive and it obeys.
HarborComesBack ==
  stage = "idle" /\ harbor = "read_only" /\ {"answer", "reset"} \cap faults = {}
    => crashes > 0

\* No directory is both a draft and a published point, and only killed runs
\* leave drafts behind.
PartialsAreOfCrashes ==
  /\ \A p \in points : p.run \notin partial
  /\ Cardinality(partial) <= crashes + (IF stage = "idle" THEN 0 ELSE 1)

\* Why the pairs are consistent: what holds inside the two boundaries, as long as
\* `docker ps` tells the truth.
GiteaBoundary ==
  /\ stage = "stop" => wasRunning = (gitea = "up")
  /\ stage \in {"dump", "files"} => gitea = "down"
  /\ stage = "files" => draft["gitea"].dump = writes["gitea"]
  /\ stage \in AfterGitea => draft["gitea"].dump = draft["gitea"].files
  /\ stage \in AfterGitea \ {"restart"} => (wasRunning => gitea = "up")

HarborBoundary ==
  /\ stage \in {"harborDump", "harborFiles", "harborReset"} => harbor = "read_only" /\ resets
  /\ stage = "harborFiles" => draft["harbor"].dump = writes["harbor"]
  /\ stage \in {"harborReset", "verify"} => draft["harbor"].dump = draft["harbor"].files
  /\ stage = "verify" => harbor = "writable"

IInv == TypeOK /\ GiteaBoundary /\ HarborBoundary /\ PairsConsistent

\* A Gitea that a run has stopped comes back, also after a kill or a failed
\* restart: then the next converge starts it.
GiteaOutageEnds == wasRunning /\ gitea = "down" ~> gitea = "up"

=============================================================================
