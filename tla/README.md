# A verification model of homelab-admin-node

TLA+ modules, TLC configurations and TLAPS proofs for the commands of
`admin-node` that change the state of a node: backup, restore, Gitea restore,
converge, and the mode file, locks, timers, recovery points and services they
share. Line numbers refer to the files of this repository.

## 1. Inventory

### The system

`bin/admin-node` is a short-lived Go program. Every command is a process of its
own; systemd timers start some, people start others, and the ansible playbook of
a converge run starts a `restore run` as a child. There is no daemon: all state
that outlives a command is in files, in containers and in Restic repositories.

| Component | State it keeps | Operations | Talks to |
| --- | --- | --- | --- |
| Mode file (`internal/mode`) | one of five modes, replaced atomically | `Read`, `Set` | read by every command; written by restores, ansible and the operator, under no lock |
| Operation lock (`internal/operation`) | a flock in `/run` | `Acquire` (one try), `AcquireWait` (poll until a timeout) | backup waits; restore, Gitea restore and converge try once |
| Converge lock (`internal/converge`) | a second flock | taken inside `converge.Run`; contention is reported as success | called by `converge run` and by the Gitea restore |
| Backup run (`internal/backup/run.go`) | `.partial-` directories, published points, `.failed` records | capture, verify, publish, deliver, rotate, mark | docker, Harbor's API, btrfs, Restic |
| Catalogue (`list.go`, `manifest.go`) | a manifest per point | `List`, `Verify`, manifest rewrite | rotation, restore |
| Delivery (`restic.go`) | snapshots per repository | `RunRestic`, `RestoreFromRestic` | Restic repositories |
| Success markers (`status.go`, `offline.go`) | one JSON file per kind | `WriteSuccessStatus`, `CheckFreshness` | monitoring timers |
| Offline status (`offline.go`) | none; reads points and markers without a lock | `CheckOfflineStatus` | monitoring, people |
| Restore run (`internal/restore`) | none of its own | `Resolve`, `Verify`, stop, replace, import, start, validate, declare | docker compose, databases, OpenBao, systemd timers |
| Integrity check (`restic.go`, `admin-backup-integrity.service`) | the part to read next | `CheckRestic` | Restic repositories, success markers |
| Gitea restore (`cmd/admin-node`) | pre-restore copy | enter `restore`, replace Gitea, validate, optional converge | the same lock, mode and timers |
| Converge (`converge.go`, `ansible/site.yml`) | checked-out repositories | git update of the admin and the inventory repository, playbook | upstreams of both; reads the mode once; role base sets the timers; role restore starts the nested restore |
| Timers and services (`systemd/`) | active, enabled | start, stop, boot | start backups, converges, checks |
| OpenBao init/unseal (`internal/openbao`) | encrypted key file, its copies, vault storage | `InitIfNeeded`, `Unseal` | restore, converge |
| Configuration, validation, secrets, stack scope, runner, CI | none, or read-only | parsing, probes | everything |

### What is hard here

- *Interleaving.* Four commands, a nested child and an operator share the mode
  file and three locks. The mode is read before the lock is waited for, is
  written by losers of the lock, and is read once by a playbook that runs long.
- *Crashes.* A kill leaves the mode, stopped timers, a stopped Gitea, a
  read-only Harbor, half-replaced data, `.partial-` directories, a torn manifest,
  a torn key file or an OpenBao whose keys nobody holds. No process cleans up after another: the
  next command has to cope.
- *Partial failure.* Repositories are written in order, services are captured
  and restored in order, and every step has an error path with deferred calls.
- *The outside.* Operators and upstreams change the checked-out repositories while
  a converge compares and pulls; a reboot seals OpenBao until a converge of a node in
  mode `init` or `normal` succeeds.
- *Boundaries.* Retention counts, identifiers in local time against UTC times,
  lock timeouts, the wrap-around of the integrity subset.

What makes each component correct: one command at a time works on a node
(locks); `normal` is declared only on a whole node (mode); suspended timers stay
stopped and come back (timers); the halves of a recovery point belong together
and the services it disturbed serve again (capture); a marker names what every
repository holds and rotation never removes what is needed (catalogue); a restore keeps the
point it has verified (restore source); no
application runs on half-replaced data (restore); the key set of every storage in
use survives (OpenBao); the playbook runs on what was fetched and no commit of the
node is dropped (converge); a failed Gitea restore loses
nothing, and a killed one only what a full restore then finds in no copy (Gitea restore); bad data in a repository are noticed within a cycle
(integrity check). `PROJECT.json` lists the
hazards with their lines and the properties aimed at them.

## 2. Modules

```
              ModeContract            what lock, mode and services promise
               ^    ^    ^
               |    |    |  implemented by
               |    |    +------------------ GiteaRestore (see below)
               |    +----------------------- RestoreRun, OpenBaoKeys (see below)
           AdminNode                  the commands composed
               |
     phases opened by  BackupCapture (lock .. publication)
                       RestoreSource (extends BackupCatalog: publication ..
                                      markers, fetch; the restore's point)
                       OpenBaoKeys   (extends RestoreRun: the restore's data,
                                      the vault and its keys)
                       GiteaRestore  (one Gitea restore after the other)
                       ConvergeGit   (git update .. playbook of a converge)

           IntegrityCheck              the weekly check, under the same lock

           RecoveryContract            what backups promise: implemented by
                                       BackupCatalog with RestoreSource
```

`AdminNode` is the composition: its actions are the uses the commands make of
shared state, and what a command does between two of them is a phase. The other
modules open one phase each and start from what `AdminNode` guarantees: that the
command is alone. They share no variable with it. `RestoreSource` and `OpenBaoKeys`
are compositions in turn: each lets a restore interleave with the component it
shares files with, and is what TLC checks.

### ModeContract (abstract)

`holder`, `mode`, `damaged`: only the holder damages or repairs services, and the
mode becomes `normal` only when the vouched services are whole. It says nothing
of commands, timers or phases. Implemented by `AdminNode`, by `RestoreRun` alone and with
what `OpenBaoKeys` adds to it, and by `GiteaRestore`: all proved, and checked for `AdminNode`,
`OpenBaoKeys` and `GiteaRestore`. What "whole" means is abstract in the first, and spelled out
for each stack and for the files and the database of Gitea in the others.

### RecoveryContract (abstract)

`held`, `promised`: for each kind of points the runs that every repository is as recent as,
and the run each success marker names. What is held only grows, and a marker moves forward
only, to something held. It says nothing of storing, forgetting, rotation or failures.
Implemented by `BackupCatalog` (`RecoverySpec`, checked and proved for the composition
`RestoreSource`).

### AdminNode

| State | Code |
| --- | --- |
| `mode` | `cfg.ModeFile` |
| `opLock`, `convLock`, `nestLock` | `/run/admin-node-operation.lock`, `/run/admin-converge.lock`, `/run/admin-node-restore-under-converge.lock` |
| `pc`, `rs` | where a command is; where its restore session is (a `restore run`, or the child of a converge) |
| `seen` | the fact `admin_mode` of a playbook |
| `active`, `enabled` | systemd's state of the timers |
| `saved`, `giteaSaved` | the timers captured by the closure of `SuspendSystemdTimers` |
| `damaged` | what a restore has taken apart and nobody has validated since |

`Backup*` is `backup.Run`, `Restore*` is `restore.Run`, `Gitea*` is
`runGiteaProcessRestore`, `Converge*` and `Playbook*` are `converge.Run` and
`site.yml`. `ProcessDies`, `ChildDies` and `Reboot` are the environment: flocks
vanish with their process, `/run` with a boot, deferred calls do not run. With
`OrphansPossible` the child of a killed converge may survive it, which systemd
prevents for a converge it started and nobody prevents for one started by hand.
The operator sets any mode of `OperatorModes` at any time and `normal` only on a
whole node, as `site/content/en/docs/operations/backup-restore.md:229` asks: what
the *program* does is the question.

Timers are grouped by who suspends them. `admin-offline-backup.timer`, which no
restore suspends, is a hand-started backup here (`TimerStarted` leaves it out): it
may start at any time the mode allows. `damaged` becomes non-empty in
one step (`RestoreMutate`), before the first stack is stopped.

### BackupCapture

One run after the other, from the `.partial-` directory to the rename. Gitea and
Harbor are modelled in full: looked at, stopped or made read-only, dump, files,
restart or reset, with each deferred call. Every write of a user raises a
counter; a copy remembers the counter; a pair is consistent when both counters
are equal. Keycloak, OpenBao, images and stack definitions only succeed or fail,
inside the neighbouring stage. `Faults` is what the environment may do beyond
letting a stage fail: `docker ps` fails, a restart fails, an answer of Harbor is
lost, the reset is refused; a behaviour has some of these (`faults`, fixed in `Init`),
so that one run checks what holds only where, say, a restart works. Harbor's credentials are assumed present, as
`RequireHarborReadOnly` demands.

### BackupCatalog

One run after the other from the publication to the last marker, with kills and
errors at every step and a fetch at any time (`restore run --repository` takes no
lock for it). A local point carries its kind, whether all its files are there and
what its manifest says of the delivery; `torn` is a manifest cut short by
`os.WriteFile`. Time is the number of the run; `Skew` is the local time zone in
runs, which is what the identifier of a point with an invalid manifest is off by. So the
ages of `CheckFreshness` (`Fresh`, `FreshnessFailed`) are counted in runs, failed ones
included.
Snapshots of older layouts (never forgotten, section *Retention* of the
documentation) are not modelled. The failure record that a run also leaves when it
fails after its publication carries no information the properties need and is
left out here; `BackupCapture` has it.

### RestoreSource

| State | Code |
| --- | --- |
| `restoring` | the point `restore.Run` works from between `Resolve` and its return |

`ResolveLatest` and `ResolveNamed` are `Resolve` and `Verify` under the operation lock;
`LatestIsNewestGood` and `RestoresWhatItVerified` are about them. A restore excludes a
backup run (`LockIsFree`), not the fetch of another `restore run --repository`, which
precedes the lock. `OfflineReady` is the verdict of `CheckOfflineStatus` on the newest
offline point; its other lines (recovery kit, media) are files people keep.

### RestoreRun

The run is a sequence of operations (`Program`), in the order of the code, over the
four stacks that have state; each may fail or be killed before it takes effect,
and the operator asks for the next attempt. (An operation that takes effect and
still reports an error is the operation followed by a failure of the next one.)
Each stack has files and a database that are old, broken or new; OpenBao's storage
may be blank, old, temporary or new; Harbor's read-only flag is part of its
database and comes back with the dump. Between two runs only the operator acts: in
`restore_failed` and `restore` the roles that start stacks do not run or skip the
start. Manifests without `active_stacks` and the stacks
without state are not modelled (the checkout of the point's revision is `Restore` of
`ConvergeGit`); compose and env files are there, as the converge
that precedes a restore renders them. `RunInv` is the inductive invariant; `Done` are the operations
behind the run, and its parts say what follows from that about data and services.

### OpenBaoKeys

| State | Code |
| --- | --- |
| `role` | where the openbao role of a converge is: status, `operator init`, copy, write, unseal |
| `secrets` | `openbao-unseal.sops.yaml`: a key set, absent, or cut short by `os.WriteFile` |
| `kept` | the `.preinit-backup-` copies and what the operator keeps elsewhere |
| `keys`, `open` | the key set that opens OpenBao's storage; sealed or not |
| `served`, `points` | ghosts: key sets of storage that has been in use, and of the snapshots |

The storage itself is `vault` of `RestoreRun`, whose operations `open`, `snapshot` and
`unseal` become `OpenInitialised`, `Bootstrap`, `ImportStorage` and `UnsealRestored`;
every other operation is taken as it is, with what it does to a running OpenBao. The
converge of mode `init` or `normal` starts the container, may be told by a starting
OpenBao that it is not initialised (`Reported`), initialises it, copies an existing file,
writes the new one and unseals; it may end anywhere (`RoleEnds`, `Reboot`). Two
assumptions about the operator: the key set of a snapshot is put back only on a node that
is to be restored, keeping what it replaces (`PutBackSecrets`), and empty storage is made
only of a whole one (`StartOver`). Token creation, `EnableKV` and the age key are not
modelled.

### ConvergeGit

| State | Code |
| --- | --- |
| `at`, `index` | the step of `converge.Run` and the repository it is at |
| `branch`, `attached`, `tracking`, `origin` | local branch, `HEAD` on it or not, remote-tracking branch, the upstream itself |
| `mode` | the mode file, which the playbook reads once: `at` is then `"openbao"`, `"restore"` or the run is over |
| `timer` | `admin-converge.timer` started or not: restores stop it, role base and a boot start it |
| `sealed` | OpenBao; the role openbao unseals it in modes `init` and `normal`, a full restore when it succeeds |
| `calm` | a prophecy: no outage or error meets this run |

A revision is the set of commits of its history, so that `merge-base --is-ancestor` is
set inclusion. The operator commits and pushes, others push, and upstreams are rewritten
between any two git commands. The operator sets modes at any time (`SetMode`), and between
two converges full restores and Gitea restores are run by hand; what they do to mode, timer,
OpenBao and the checkout is one step here (`Restore`, `GiteaRestore`), the rest is in
`RestoreRun`, `OpenBaoKeys` and the module `GiteaRestore`. A repository without an upstream, `SkipGitPull` and an
inventory outside git end or skip an update without touching anything and are not
modelled.

### GiteaRestore

One `gitea restore-process` after the other, from the refusal of an existing safety
copy (`validateGiteaProcessRestoreInputs`) to the converge, and the full restores that take
over after a kill: the mode is then still `restore`, and a converge in that mode runs
`restore run` (`TakeOver` to `FullEnd`), which replaces Gitea's files and database by those
of a recovery point without a look at the safety copy. The data of Gitea are two
halves, `live.files` and `live.database`, each a version or missing; every write of a
user and every archive is a new version. `safety` is `--pre-restore-dir`, whose dump is
published by a rename and whose files are written in place by rsync (`Copy`, `Copied`).
`owed` holds the versions somebody relies on: what was served last, and each archive a
run has declared `normal`; `forsaken` is a history variable, the versions among them that
were in no copy when a full restore cleared the live data. The files of the archive and its dump are put in place by
the external `gitea-restore`. The operator archives a safety copy whenever no run is
active, as the runbook asks, and may retry at once. Assumed: the point of a full restore holds
Gitea (a point taken while Gitea was not active would leave its data as they are and still
end in `normal`), and `docker exec psql` fails if its input is cut short (a failing `sed`
before it, `main.go:493`, is not noticed by the shell). A full restore the operator asks for
gives up Gitea's data on purpose and is not modelled. Timers, locks and the mode of other
commands are in `AdminNode`; a part of the files that no archive replaces (attachments,
packages) counts with the files.

### IntegrityCheck

`CheckRestic` by several checkers. `file` is the state file, `part` what a run has loaded
from it, `at` the repository it has come to; each `restic check` and `restic prune` is one
step, as Restic locks the repository for it. `damaged` are the parts with bad data, and
`since` counts the success markers written since they went bad. A checker in `Unlocked`
runs without the operation lock, as `admin-node backup restic-check` does by hand. Errors
of the configuration and a legacy repository, which is one more repository at the end
of the order, are not told apart. The mode the unit checks before it waits is left out.

### Model-checking and proof modules

`AdminNodeMC` adds the symmetry of interchangeable processes, `BackupCatalogMC` the
values of sequences and the time zone, `ConvergeGitMC` the two repositories.
`AdminNodeProofs`, `BackupCaptureProofs`, `BackupCatalogProofs` (about `RestoreSource`),
`RestoreRunProofs`, `OpenBaoKeysProofs` (about the composition, on top of `RestoreRunProofs`),
`GiteaRestoreProofs`, `ConvergeGitProofs` and `IntegrityCheckProofs`
hold the theorems. An operator whose name ends in `Mutant` is
a plausible bug of the operator that follows it, kept to show that the properties
notice it; no specification uses it.

## 3. Runs

Passing runs:

| Run | What it asks | Bounds |
| --- | --- | --- |
| `node_contract` | `NormalMeansWhole`, `ContractSpec` without Gitea restores | 1 backup, 2 restores, 1 timed converge, 3 `mode set` of three modes, 2 kills or reboots |
| `node_commands` | `MutualExclusion`, `ConvergeNeverSkipped`, `SuspensionHolds`, `NoTimerForgotten` | all commands; 2 restores and 2 converges, 2 `mode set`, 2 kills or reboots |
| `node_liveness` | `LockReleased`, `BackupWaitEnds` | one process of each command, 2 kills or reboots |
| `capture_faults` | `PairsConsistent`, `PublishedServing`, `PartialsAreOfCrashes`, `HarborComesBack`, `GiteaComesBack`, `GiteaOutageEnds`, `IInv` | 2 runs, 2 writes per service, 1 kill, any of the faults but `ps` in a behaviour, fairness of section 4 |
| `catalog_delivery` | `MarkersAreHeld`, `FreshMeansRecoverable`, `OfflineReportIsTrue`, `DeliveredEverywhere`, `OwnPointSurvives`, `GoodOfflinePointsStay`, `RemoteMarkerIsRemote`, `RestoresWhatItVerified`, `LatestIsNewestGood`, `RecoverySpec` | 4 runs of both kinds, 2 repositories, retention 2/1, keep-last 2, ages of 1 and 3 runs, 2 for the offline status, one run east of UTC, 1 kill; fetches and restores without bound |
| `gitea_retries` | `LostOnlyToFullRestore`, `ServedDataBelongTogether`, `NormalMeansOneArchive`, `ContractSpec` | 3 Gitea restores, a full restore after every kill, 2 writes, 2 kills, failures anywhere |
| `integrity_cycle` | `DamageIsFound`, `IInv` | 2 checkers under the lock, 2 repositories of 4 parts, 5 runs, 2 damages |
| `restore_retries` | `NoServiceOnHalfData`, `KeysKept`, `NormalIsOpenable`, `NormalMeansRestored`, `ContractSpec` | 3 restore runs, any number of converges and snapshots, 2 kills or reboots, 3 key sets, a working or a blank node |
| `converge_updates` | `PlaybookIsCurrent`, `OwnCommitsStay`, `ChangesArrive`, `VaultIsUnsealed` | 2 repositories, 2 commits, any number of runs, pushes, rewrites and restores, the operator sets 3 modes, 1 reboot, fairness of section 4 |

The type invariants are parts of the inductive invariants of section 5, which hold for all
values of the constants; the runs keep `IInv` where it says more than their other properties do.

Why the bounds are enough: two restores and two converges are what it takes for one
command to lose against another of its own kind while a third waits; two kills let
a recovery be killed in turn. In the capture, one write between two copies makes a
pair inconsistent, and a second run starts from whatever the first left. In the
catalogue, four runs exceed each retention after a failed one. In the restore,
a third run repeats what a second, itself cut short, left of the first; three key sets
are the one in use, one that an initialisation or a bootstrap adds, and one more over
that. Two commits let the node and its upstream diverge: each gets one on top of the history they
share, and a rewrite takes one back between the comparison and the pull. The modes the operator
does not set are reached by restores, except `init`, which the playbook treats like `normal`
as far as OpenBao goes. The same as of the restore holds of the Gitea restore, where the operator archives one safety copy per attempt. In the
integrity check, five runs are one more than the cycle has parts.

`CHECK_DEADLOCK FALSE` is set where the bounds on runs, kills or `mode set` let a
behaviour stop (a node with nothing left to start); `node_commands`, `node_liveness`
and `converge_updates`, in which some command can always start, check for deadlock.

Runs that find a statement of the documentation or of a test violated:

| Run | Statement | What the code does |
| --- | --- | --- |
| `backup_mode` | "Le mode `normal` est obligatoire" | the mode is not read again after the wait for the lock |
| `gitea_timers` | a failed Gitea restore "keeps the timers stopped" | its own converge started them in mode `normal` |
| `capture_docker_ps` | no write crosses the recovery boundary | a failing `docker ps` reads as "Gitea does not run" |

Other differences between the documentation and the code. The model contains the
behaviour; no run is kept for it. The first seven are why a run or a theorem makes
the assumption it names:

- A nested restore that outlives its killed converge (started by hand, so that no
  control group takes it along) holds no common lock: with `OrphansPossible = TRUE`,
  `MutualExclusion` fails. `docs/backup.md:7`: "Un verrou commun empeche tout
  chevauchement".
- After a failed full restore, a Gitea restore sets `normal` having validated Gitea
  only (`main.go:410`): with Gitea restores and full restores together,
  `NormalMeansWhole` fails. `architecture.md:42` calls `restore_failed` the
  "explicit failed restore state for investigation and retry".
- A Gitea restore that is killed leaves mode `restore` (`main.go:331`), not the
  `restore_failed` of `backup-restore.md:216-217`, and the next converge runs a full restore
  that nobody asked for (`site.yml:147-148`). It replaces Gitea's files (`restore.go:156`) and
  drops its database (`restore.go:776`) without the safety copy that
  `backup-restore.md:208-209` promises of the Gitea restore. Killed before that copy is
  complete, or after its last validation when users write again, the data are gone: without
  `forsaken`, `LostOnlyToFullRestore` fails after one kill. `ErrorsLoseNothing` says that
  it takes a kill.
- When the answer to Harbor's read-only request is lost (`run.go:805`) no reset is
  deferred yet: with `"answer"` in `Faults`, `HarborComesBack` fails without any kill.
- `RESTIC_REPOSITORY` counts as a remote repository although nothing is written to it
  when `RESTIC_REPOSITORIES` is set (`restic.go:229`): with `LegacyRemote = TRUE` and
  local repositories only, `RemoteMarkerIsRemote` fails.
- The identifier of a point is local time (`run.go:60`) and is read as UTC when its
  manifest is not complete (`list.go:77`): with a `Skew` larger than the local retention,
  `OwnPointSurvives` fails, because failed points sort as newer than the point the run
  has just delivered. `run_test.go:782-783` asserts that the newest point stays.
- `admin-node backup restic-check` by hand takes no lock (`main.go:779`) and stores the
  part after the one it loaded, whatever a check beside it has stored meanwhile: with a
  checker in `Unlocked`, `DamageIsFound` fails.
  `backup-hardening-observability.md:61-62` says "a complete cryptographic data read over
  four successful checks".
- The temporary keys of OpenBao are in memory only (`restore.go:1004`): a run that ends
  between the temporary initialisation and the import leaves storage that no stored key
  opens (`vault = "temporary"` between two runs of `RestoreRun`), and every retry fails at
  `OpenVault`. `docs/restore-runbook.md:33-36` presents the bootstrap as recoverable by
  the snapshot's own material.
- Between `operator init` and the write of the key file (`openbao.go:52-84`) the new keys
  exist in memory only, and the file is written in place: a converge that ends there
  leaves an initialised OpenBao that no stored key opens. `KeysKept` speaks of storage
  that has been in use for that reason; what is lost here was never used.
- A restore of an offline point leaves `HEAD` detached (`restore.go:259`), and a converge
  skips a repository whose `HEAD` is on no branch and reports success
  (`converge.go:88`): the admin repository gets no further change until somebody
  switches back. `ChangesArrive` excepts it.
- A diverged repository, or a git error, ends a converge before its playbook
  (`converge.go:122`), so that after a reboot OpenBao stays sealed until the operator has
  sorted out a repository that has nothing to do with it. `VaultIsUnsealed` excepts it.
- In modes `restore_failed` and `locked` a converge does not come to the role openbao
  (`site.yml:129-130`) and reports success: after a reboot OpenBao stays sealed until the
  operator sets another mode. In mode `restore` its unseal is skipped
  (`roles/openbao/tasks/main.yml:118-123`) and left to the nested restore, and a failed
  restore leaves the converge timer stopped until a boot, a converge by hand or a restore
  that succeeds. `VaultIsUnsealed` excepts these modes and a stopped timer, `ChangesArrive`
  a stopped timer.
- `latest` takes the newest directory and then fails if it does not verify
  (`ResolveLatest`); it does not fall back to the newest good point.
- A `restore run` that loses the lock writes `restore_failed` (`restore.go:48`,
  `RestoreLost`) under the restore that holds it, which goes on in that mode, or over
  the `normal` the holder has written meanwhile.
- The Gitea restore enters mode `restore`, not `locked` as
  `docs/restore-runbook.md:75-77` says.
- A restore that fails after `startRestoreStacks` leaves stacks running in
  `restore_failed` (`restore.go:207`); `docs/restore-runbook.md:3` says they stay stopped.
- `docs/backup.md:11` says Gitea is not stopped; it is (`run.go:550`, and
  `backup-restore.md:92` says so).
- `docs/restore-runbook.md` gives the physical Gitea snapshot priority over the
  logical dump; `restore.go:149-193` copies the directory and imports the dump.
- `backup-restore.md:32` promises an inventory for failed runs, which a failure before
  the stacks are discovered does not leave.

## 4. Fairness

- `AdminNode!FairSpec`: weak fairness of `Step(p)` for every process. A running
  command is scheduled, and what it waits for ends: external commands exit or are
  cut by their timeouts, `AcquireWait` by its deadline. No fairness of `Start` or
  of the environment: nobody has to run a command, and kills may never happen.
- `BackupCapture!FairSpec`: weak fairness of the run for the same reason, strong
  fairness of `Converge`. `admin-converge.timer` fires again and again; a converge
  finds the lock taken while a backup runs, so it is enabled only between runs,
  infinitely often. The assumption is that the node is in a mode in which the role
  gitea starts the stack.

- `ConvergeGit!FairSpec`: weak fairness of the steps of a run, strong fairness of
  `TimerFires`: while it is started, `admin-converge.timer` starts runs again and again and
  not every one of them meets an outage, an error or a kill. A stopped timer starts nothing,
  and nothing is assumed of the mode, of those who set it or restore, or of those who push.

## 5. Proofs

`tlapm` checks every step of the eight proof modules, for
all values of the constants that satisfy the named assumptions of the modules.

**AdminNode.** `TypeCorrect` is inductive by itself. `MutualExclusion` is not: a nested
restore holds another file, so what excludes it is that its playbook still waits
and that the playbook's command holds the operation lock. `IInv` says so
(`LockDiscipline`), adds where the converge lock is held
(`ConvergeLockDiscipline`), that nobody restarts a timer a restore suspended
(`SuspensionHolds`: only role base does, and it needs the lock the restore has), that the
restore remembers every enabled timer (`NoTimerForgotten`), and that what has just been
validated is still whole (`ValidIsWhole`). `Invariance` needs `OrphansPossible = FALSE`; section 3
says why. From it: `Exclusion`, `ConvergeRuns`, `TimersSuspended`, `TimersRemembered`,
`NormalIsWhole` (without Gitea restores; section 3 says why) and
`ImplementsContract` (with them; the contract then vouches for Gitea only). The lemmas go
command by command, one per group of conjuncts, with one step per action.

**BackupCapture.** `PairsConsistent` rests on what is true between the two copies: Gitea is
down and Harbor read-only, so the counter a dump has recorded is still the current one
(`GiteaBoundary`, `HarborBoundary`). `CaptureInvariance` needs that `docker ps` tells the truth
(`"ps" \notin Faults`); the run `capture_docker_ps` shows why. `RecoveryPointsConsistent` and
`PublishedPointsServe` follow, for any number of runs, writes and kills. The other three
need no assumption on `docker ps`: `HarborIsReset` rests on a deferred reset wherever Harbor
is read-only (`HarborTurn`), `GiteaIsRestarted` on Gitea being up wherever the restart is
behind the run (`GiteaTurn`), and `DraftsAreOfCrashes` on there being at most one draft
more than kills while a run is under way (`Drafts`).

**BackupCatalog and RestoreSource.** `SourceInvariance` proves `SourceInv`, for any
repositories, retentions, ages, time zones and numbers of runs: no identifier is ahead of
the run's (`NothingIsAhead`); the repositories a run has passed hold its snapshot
(`DeliveredSoFar`); when it is recorded its point is whole and verified (`OwnPointReady`);
of every good offline point whose manifest records the delivery, each repository holds
the snapshot or a newer offline one (`DeliveredHeld`); and no run works beside a restore (`Alone`). The
markers (`MarkersStayHeld`, `FreshnessIsRecoverability`, `RemoteMarkerNamesRemote`), the
reports (`OfflineReportHolds`, `RecordedIsDelivered`) and the restore's point
(`RestoredPointStays`, `LatestStaysNewestGood`) follow. Forgetting is safe because the
newest `KeepLast` of a kind contain the maximum of the kind; rotation, because fewer than
`LocalRetention` points can sort before the run's own: only failed ones of the last `Skew`
runs do. Hence `OwnPointStays` assumes `Skew < LocalRetention`. `GoodPointsStay` counts the
good offline points newer than the one removed. `RemoteMarkerNamesRemote` assumes
`~LegacyRemote`; section 3 says why. `CatalogKeepsRecovery` is the refinement of
`RecoveryContract`: a store, a retention, or either cut short, is a `Deliver` of the run's kind
(`RepositoriesDeliver`: the newest of that kind stay, the other kind is not touched), a marker is a
`Promise` (`MarkerPromises`: the run's point is in every repository by then, and no marker is
ahead of the run), and everything else stutters.

**RestoreRun.** The program of a run is a fixed sequence, and its properties are about what
stands before what. `Listing` writes the 36 operations out; `ProgramIsListed` proves, for the
sequences the code's loops build, that they are this list, and `Order` and `Ending` read off it what
the argument needs. `RunInv` then says that what is behind the run stays done:
the data of a stack is new once its operations are in `Done` (`ReplacedSoFar`), an application is
down from the stop of its stack to its start (`QuietWhileReplaced`), the mode is `restore` until
`normal` is declared (`RestoringUntilDeclared`), and what runs is whole. `NoServiceOnHalfData` alone
is not inductive: it has to know that nobody starts an application between the two
halves. One lemma (`OperationKeepsInv`) covers the operations that are taken by default, with one step per kind
of operation. `RestoreInvariance`, `ServicesRunOnWholeData`, `RestoreEndsRestored` and
`RestoreKeepsContract` hold for any number of runs and kills.

**OpenBaoKeys.** `KeysKept` fails inductively at the write of the key file. `KeysInv` adds
that the file has been copied by then and the storage it is replaced for is not in use
(`InitKeepsOld`), that converge and restore exclude each other (`OneOfThem`), that blank
storage has no keys, and that a restore has unsealed OpenBao with the file before it comes
to its last three operations (`OpenedBefore`), so that `normal` is never declared over a
vault the file does not open. `NoKeysAreLost` and `NormalOpens` follow, for any number of
runs, kills and key sets. The restore of this module has other operations than that of
`RestoreRun` where it touches OpenBao, and neighbours: the results above are proved once
more for it. `NodeInv` is `RunInv`, `KeysInv` and `SetUpIsWhole` (a node in mode `init` has nothing half-done,
so that an initialisation or an empty storage never damages what a restore relies on);
`NodeInvariance` shows that it is inductive, `NodeServesWholeData`, `NodeEndsRestored` and
`NodeKeepsContract` are what the run `restore_retries` checks.

**ConvergeGit.** What a run has fetched is in the branch of each repository behind it
(`UpdatedSoFar`), whatever is committed, pushed or rewritten meanwhile.
`PlaybookRunsOnCurrent` and `NodeCommitsStay` follow, for any number of repositories and
commits.

**GiteaRestore.** `LostOnlyToFullRestore` is not inductive: it has to say why a step that
destroys data destroys none that are owed and not forsaken. `IInv` adds that Gitea is down from the dump on
(`QuietWhileReplaced`), that the safety copy is equal to the live data as far as it has got
(`SafetyCopyGrows`), that while data are taken apart every owed version is in a copy or forsaken
(`HeldByCopies`), and that only a kill lets a full restore begin (`TakenOverAfterKills`): an
error never leaves the mode `restore`. `GiteaLosesOnlyToFullRestore`, `GiteaErrorsLoseNothing`,
`GiteaServesWholeData` and `GiteaNormalIsWhole` follow.
`GiteaKeepsContract` is the refinement of `ModeContract`: either restore holds the node from the stop of
Gitea on, replacing files or database is a `Rework`, a failure or a kill is a `Leave` that
leaves damaged what it had taken apart, and the writes of users stutter, because they find whole data
and leave whole data.

**IntegrityCheck.** The invariant counts down: the markers since the damage and the runs
until the part is read again sum up to at most `Parts` (`Countdown`), which the wrap-around of
the state file keeps because what is bad although the current run has read it went bad after
that (`BadAfterReading`). Both theorems assume `Unlocked = {}`; section 3 says why.

Model-checked only: liveness (`LockReleased`, `BackupWaitEnds`, `GiteaOutageEnds`,
`ChangesArrive`, `VaultIsUnsealed`), which is out of the prover's reach. Every other property of a
passing run is stated by a theorem. The run of a nested restore that outlives its converge, and all that section 3 names
as an exception of a theorem, is outside what is proved.

## 6. Not modelled, and why

Parsing, rendering and probing (`internal/config`, `internal/validate`,
`internal/stackscope`, `images.go`, most ansible roles, compose files) have no state that
two steps could disagree on. Secrets, the command runner, CI and cloud-init are calls of
external tools. The content of dumps and images, ownership and permissions, and disk space
are abstracted away. A failure of `systemctl is-active` or `is-enabled` counts as "no" in the
code and is not modelled; neither is a mode file that cannot be read.

## 7. Plan

Done: `ModeContract`; `AdminNode`, `BackupCapture`, `BackupCatalog` with `RestoreSource`,
`RestoreRun` with `OpenBaoKeys`, `GiteaRestore`, `ConvergeGit` and `IntegrityCheck`, all with
proofs; the two contracts and the proofs that the components implement them.

Next:

1. `Maintenance`: `gitea-process-backup.sh` and `system-update.sh`, which take the lock by
   `flock`, as further processes of `AdminNode`. Their units
   do not look at the mode, and that of the integrity check looks at it before the wait
   (`admin-backup-integrity.service:20-21`), so all three may run on a node whose restore
   has failed meanwhile.
2. An abstract specification of the capture (a published point is a consistent cut of the
   services) implemented by `BackupCapture`.
