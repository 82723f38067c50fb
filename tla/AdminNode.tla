------------------------------ MODULE AdminNode ------------------------------
(***************************************************************************)
(* One admin node on which several admin-node commands run at once:        *)
(*                                                                         *)
(*   backup run                (internal/backup/run.go, Run)               *)
(*   restore run               (internal/restore/restore.go, Run)          *)
(*   gitea restore-process     (cmd/admin-node/main.go)                    *)
(*   converge run              (cmd/admin-node/main.go, internal/converge, *)
(*                              ansible/site.yml)                          *)
(*   mode set                  (internal/mode/mode.go)                     *)
(*                                                                         *)
(* They share the mode file, the operation lock, the converge lock and the *)
(* systemd timers.  A converge run that reads mode "restore" starts a      *)
(* nested `restore run` as a child process under a lock of its own.        *)
(* What a command does between two uses of this shared state is one phase; *)
(* BackupCapture, BackupCatalog and RestoreRun open the phases.             *)
(***************************************************************************)
EXTENDS Naturals, FiniteSets

CONSTANTS
  Backups, Restores, GiteaRestores, Converges, \* the processes, by command
  TimerStarted,     \* the processes a systemd timer starts; the others are run by hand
  OperatorModes,    \* the modes the operator may set by hand
  OrphansPossible,  \* may a nested restore outlive the converge that started it?
  MaxSets,          \* bound: `mode set` commands in a behaviour
  MaxCrashes,       \* bound: killed processes and reboots in a behaviour
  None              \* no process, or no mode read yet

Proc == Backups \cup Restores \cup GiteaRestores \cup Converges
Mode == {"locked", "init", "normal", "restore", "restore_failed"}

\* The timers, by which restores suspend them: "backup" stands for
\* admin-backup.timer and admin-gitea-process-backup.timer, "monitor" for
\* admin-backup-status.timer and admin-backup-integrity.timer.
Timers == {"converge", "backup", "monitor"}
RestoreTimers == Timers
GiteaTimers == {"converge", "backup"}

\* What a restore takes apart: a full restore both, a Gitea restore its own.
Services == {"gitea", "rest"}

ASSUME CommandsAreDisjoint ==
  /\ Backups \cap (Restores \cup GiteaRestores \cup Converges) = {}
  /\ Restores \cap (GiteaRestores \cup Converges) = {}
  /\ GiteaRestores \cap Converges = {}
ASSUME TimersStartBackupsAndConverges == TimerStarted \subseteq Backups \cup Converges
ASSUME OperatorModesAreModes == OperatorModes \subseteq Mode
ASSUME OrphansPossibleIsBoolean == OrphansPossible \in BOOLEAN
ASSUME BoundsAreNaturals == MaxSets \in Nat /\ MaxCrashes \in Nat
ASSUME NoneIsNothingElse == None \notin Proc /\ None \notin Mode

VARIABLES
  mode,        \* the content of the mode file
  opLock,      \* who holds /run/admin-node-operation.lock
  convLock,    \* who holds /run/admin-converge.lock
  nestLock,    \* whose child holds /run/admin-node-restore-under-converge.lock
  pc,          \* the phase of each process
  rs,          \* the phase of its restore session: of a `restore run`, or of
               \* the nested restore a converge run waits for
  seen,        \* the mode a playbook read at its start (admin_mode)
  active,      \* the timers that are running
  enabled,     \* the timers a boot starts
  saved,       \* the timers each restore session will resume
  giteaSaved,  \* the timers each Gitea restore will resume
  damaged,     \* the services taken apart and not yet validated
  sets,        \* `mode set` commands so far
  crashes      \* kills and reboots so far

locks   == <<opLock, convLock, nestLock>>
timers  == <<active, enabled, saved, giteaSaved>>
bounds  == <<sets, crashes>>
vars == <<mode, locks, pc, rs, seen, timers, damaged, bounds>>

Phases ==
  {"idle", "await", "validate", "capture",                 \* backup run
   "inputs", "suspend", "prepare", "mutate", "valid",      \* gitea restore-process
   "ready", "git", "base", "playbook", "resume"}           \* converge run, and its use
SessionHolds == {"locked", "prepare", "mutate", "valid", "done"}
SessionRuns == SessionHolds \cup {"checked", "lost"}
SessionPhases == SessionRuns \cup {"none", "ok", "failed"}

TypeOK ==
  /\ mode \in Mode
  /\ {opLock, convLock, nestLock} \subseteq Proc \cup {None}
  /\ pc \in [Proc -> Phases]
  /\ rs \in [Proc -> SessionPhases]
  /\ seen \in [Proc -> Mode \cup {None}]
  /\ active \subseteq Timers /\ enabled \subseteq Timers
  /\ saved \in [Proc -> SUBSET RestoreTimers]
  /\ giteaSaved \in [GiteaRestores -> SUBSET GiteaTimers]
  /\ damaged \subseteq Services
  /\ sets \in 0..MaxSets /\ crashes \in 0..MaxCrashes

TimersFor(m) == IF m = "normal" THEN Timers ELSE {"converge"}

Init ==
  /\ mode \in Mode \ {"restore", "restore_failed"}
  /\ opLock = None /\ convLock = None /\ nestLock = None
  /\ pc = [p \in Proc |-> "idle"]
  /\ rs = [p \in Proc |-> "none"]
  /\ seen = [p \in Proc |-> None]
  /\ enabled = TimersFor(mode)
  /\ active = enabled
  /\ saved = [p \in Proc |-> {}]
  /\ giteaSaved = [p \in GiteaRestores |-> {}]
  /\ damaged = {}
  /\ sets = 0 /\ crashes = 0

Goto(p, phase) == pc' = [pc EXCEPT ![p] = phase]
GotoRS(p, phase) == rs' = [rs EXCEPT ![p] = phase]
Idle(p) == pc[p] = "idle" /\ rs[p] = "none"

\* A timer starts its service only while it is running.
MayStart(p) ==
  p \in TimerStarted => (IF p \in Backups THEN "backup" ELSE "converge") \in active

-----------------------------------------------------------------------------
(* backup run.  The mode is read before the lock is waited for.            *)

BackupStart(p) ==
  /\ Idle(p) /\ MayStart(p)
  /\ mode = "normal"
  /\ Goto(p, "await")
  /\ UNCHANGED <<mode, locks, rs, seen, timers, damaged, bounds>>

BackupLock(p) ==
  /\ pc[p] = "await"
  /\ opLock = None
  /\ opLock' = p
  /\ Goto(p, "validate")
  /\ UNCHANGED <<mode, convLock, nestLock, rs, seen, timers, damaged, bounds>>

\* Mutant: the wait has no timeout.
BackupTimeoutMutant(p) ==
  /\ pc[p] = "await" /\ FALSE
  /\ UNCHANGED vars

\* The wait ends by its timeout; the lock may have become free meanwhile.
BackupTimeout(p) ==
  /\ pc[p] = "await"
  /\ Goto(p, "idle")
  /\ UNCHANGED <<mode, locks, rs, seen, timers, damaged, bounds>>

BackupValidated(p) ==
  /\ pc[p] = "validate"
  /\ Goto(p, "capture")
  /\ UNCHANGED <<mode, locks, rs, seen, timers, damaged, bounds>>

\* The run returns, with or without an error, and its deferred unlock runs.
BackupEnd(p) ==
  /\ pc[p] \in {"validate", "capture"}
  /\ Goto(p, "idle")
  /\ opLock' = None
  /\ UNCHANGED <<mode, convLock, nestLock, rs, seen, timers, damaged, bounds>>

-----------------------------------------------------------------------------
(* restore run, by hand (p in Restores) or nested in a converge run.       *)

Nested(p) == p \notin Restores

\* The session's lock is free / is taken / is given back.
SessionLockFree(p) == IF Nested(p) THEN nestLock = None ELSE opLock = None
TakeSessionLock(p) ==
  IF Nested(p) THEN nestLock' = p /\ UNCHANGED opLock
               ELSE opLock' = p /\ UNCHANGED nestLock
FreeSessionLock(p) ==
  IF Nested(p) THEN nestLock' = None /\ UNCHANGED opLock
               ELSE opLock' = None /\ UNCHANGED nestLock

\* The exit status stays for the playbook that waits for it, if one does.
Verdict(p, status) == IF pc[p] = "playbook" THEN status ELSE "none"

\* A session ends: its deferred unlock runs and its memory is gone.
EndSession(p, status) ==
  /\ GotoRS(p, Verdict(p, status))
  /\ FreeSessionLock(p)
  /\ saved' = [saved EXCEPT ![p] = {}]

RestoreCheckMode(p) ==
  /\ rs[p] = "none"
  /\ IF Nested(p) THEN pc[p] = "playbook" /\ seen[p] = "restore"
                  ELSE mode = "restore"
  /\ GotoRS(p, IF mode = "restore" THEN "checked" ELSE "failed")
  /\ UNCHANGED <<mode, locks, pc, seen, timers, damaged, bounds>>

\* Mutant: losing the lock is reported and the restore goes on.
RestoreLockMutant(p) ==
  /\ rs[p] = "checked"
  /\ IF SessionLockFree(p) THEN TakeSessionLock(p) ELSE UNCHANGED <<opLock, nestLock>>
  /\ GotoRS(p, "locked")
  /\ UNCHANGED <<mode, convLock, pc, seen, timers, damaged, bounds>>

\* The lock is tried once.
RestoreLock(p) ==
  /\ rs[p] = "checked"
  /\ IF SessionLockFree(p)
     THEN TakeSessionLock(p) /\ GotoRS(p, "locked")
     ELSE GotoRS(p, "lost") /\ UNCHANGED <<opLock, nestLock>>
  /\ UNCHANGED <<mode, convLock, pc, seen, timers, damaged, bounds>>

\* Losing the lock marks the node restore_failed, whatever the holder of the
\* lock has done to the mode since.
RestoreLost(p) ==
  /\ rs[p] = "lost"
  /\ mode' = "restore_failed"
  /\ GotoRS(p, Verdict(p, "failed"))
  /\ UNCHANGED <<locks, pc, seen, timers, damaged, bounds>>

\* Mutant: only what is running is remembered.
SuspendableMutant(which) == which \cap active

\* SuspendSystemdTimers: what is running or enabled is stopped and remembered.
Suspendable(which) == which \cap (active \cup enabled)

RestoreSuspend(p) ==
  /\ rs[p] = "locked"
  /\ saved' = [saved EXCEPT ![p] = Suspendable(RestoreTimers)]
  /\ active' = active \ Suspendable(RestoreTimers)
  /\ GotoRS(p, "prepare")
  /\ UNCHANGED <<mode, locks, pc, seen, enabled, giteaSaved, damaged, bounds>>

\* `systemctl stop` fails, having stopped some of the timers.
RestoreSuspendFails(p) ==
  /\ rs[p] = "locked"
  /\ active' \in {active \ stopped : stopped \in SUBSET Suspendable(RestoreTimers)}
  /\ mode' = "restore_failed"
  /\ EndSession(p, "failed")
  /\ UNCHANGED <<convLock, pc, seen, enabled, giteaSaved, damaged, bounds>>

\* The point is found and verified; the stacks are stopped and replaced.
RestoreMutate(p) ==
  /\ rs[p] = "prepare"
  /\ damaged' = Services
  /\ GotoRS(p, "mutate")
  /\ UNCHANGED <<mode, locks, pc, seen, timers, bounds>>

\* Everything is restored, started and validated.
RestoreValidated(p) ==
  /\ rs[p] = "mutate"
  /\ damaged' = {}
  /\ GotoRS(p, "valid")
  /\ UNCHANGED <<mode, locks, pc, seen, timers, bounds>>

RestoreFails(p) ==
  /\ rs[p] \in {"prepare", "mutate"}
  /\ mode' = "restore_failed"
  /\ EndSession(p, "failed")
  /\ UNCHANGED <<convLock, pc, seen, active, enabled, giteaSaved, damaged, bounds>>

\* Mutant: the mode is written before the validation.
RestoreNormalMutant(p) ==
  /\ rs[p] = "mutate"
  /\ mode' = "normal"
  /\ GotoRS(p, "done")
  /\ UNCHANGED <<locks, pc, seen, timers, damaged, bounds>>

RestoreNormal(p) ==
  /\ rs[p] = "valid"
  /\ mode' = "normal"
  /\ GotoRS(p, "done")
  /\ UNCHANGED <<locks, pc, seen, timers, damaged, bounds>>

\* The mode file cannot be written: the error is returned as it is.
RestoreNormalFails(p) ==
  /\ rs[p] = "valid"
  /\ EndSession(p, "failed")
  /\ UNCHANGED <<mode, convLock, pc, seen, active, enabled, giteaSaved, damaged, bounds>>

\* The timers are resumed (an error of `systemctl start` is ignored), then the
\* lock is released.
RestoreFinish(p) ==
  /\ rs[p] = "done"
  /\ active' \in {active, active \cup saved[p]}
  /\ EndSession(p, "ok")
  /\ UNCHANGED <<mode, convLock, pc, seen, enabled, giteaSaved, damaged, bounds>>

SessionStep(p) ==
  \/ RestoreCheckMode(p) /\ Nested(p)
  \/ RestoreLock(p) \/ RestoreLost(p)
  \/ RestoreSuspend(p) \/ RestoreSuspendFails(p)
  \/ RestoreMutate(p) \/ RestoreValidated(p) \/ RestoreFails(p)
  \/ RestoreNormal(p) \/ RestoreNormalFails(p) \/ RestoreFinish(p)

-----------------------------------------------------------------------------
(* gitea restore-process.                                                  *)

\* Mutant: the operation lock is written without looking who holds it.
GiteaLockMutant(p) ==
  /\ Idle(p)
  /\ opLock' = p
  /\ Goto(p, "inputs")
  /\ UNCHANGED <<mode, convLock, nestLock, rs, seen, timers, damaged, bounds>>

GiteaLock(p) ==
  /\ Idle(p)
  /\ opLock = None
  /\ opLock' = p
  /\ Goto(p, "inputs")
  /\ UNCHANGED <<mode, convLock, nestLock, rs, seen, timers, damaged, bounds>>

\* The inputs are refused: nothing has been touched.
GiteaRefuse(p) ==
  /\ pc[p] = "inputs"
  /\ opLock' = None
  /\ Goto(p, "idle")
  /\ UNCHANGED <<mode, convLock, nestLock, rs, seen, timers, damaged, bounds>>

\* Whatever the mode was, it becomes "restore".
GiteaEnterRestore(p) ==
  /\ pc[p] = "inputs"
  /\ mode' = "restore"
  /\ Goto(p, "suspend")
  /\ UNCHANGED <<locks, rs, seen, timers, damaged, bounds>>

GiteaSuspend(p) ==
  /\ pc[p] = "suspend"
  /\ giteaSaved' = [giteaSaved EXCEPT ![p] = Suspendable(GiteaTimers)]
  /\ active' = active \ Suspendable(GiteaTimers)
  /\ Goto(p, "prepare")
  /\ UNCHANGED <<mode, locks, rs, seen, enabled, saved, damaged, bounds>>

GiteaMutate(p) ==
  /\ pc[p] = "prepare"
  /\ damaged' = damaged \cup {"gitea"}
  /\ Goto(p, "mutate")
  /\ UNCHANGED <<mode, locks, rs, seen, timers, bounds>>

\* Only Gitea is validated.
GiteaValidated(p) ==
  /\ pc[p] = "mutate"
  /\ damaged' = damaged \ {"gitea"}
  /\ Goto(p, "valid")
  /\ UNCHANGED <<mode, locks, rs, seen, timers, bounds>>

\* The mode returns to "normal" before the converge that may be asked for.
GiteaNormal(p) ==
  /\ pc[p] = "valid"
  /\ mode' = "normal"
  /\ \E next \in {"ready", "resume"} : Goto(p, next)
  /\ UNCHANGED <<locks, rs, seen, timers, damaged, bounds>>

\* An error before the restore is complete: the deferred writer of
\* restore_failed and the deferred unlock run.
GiteaAborts(p) ==
  /\ mode' = "restore_failed"
  /\ opLock' = None
  /\ Goto(p, "idle")
  /\ giteaSaved' = [giteaSaved EXCEPT ![p] = {}]

GiteaFails(p) ==
  /\ pc[p] \in {"suspend", "prepare", "mutate", "valid"}
  /\ active' \in IF pc[p] = "suspend"
                 THEN {active \ stopped : stopped \in SUBSET Suspendable(GiteaTimers)}
                 ELSE {active}
  /\ GiteaAborts(p)
  /\ UNCHANGED <<convLock, nestLock, rs, seen, enabled, saved, damaged, bounds>>

\* The restore is complete; an error of `systemctl start` fails the command.
GiteaResume(p) ==
  /\ pc[p] = "resume"
  /\ active' \in {active, active \cup giteaSaved[p]}
  /\ giteaSaved' = [giteaSaved EXCEPT ![p] = {}]
  /\ opLock' = None
  /\ Goto(p, "idle")
  /\ UNCHANGED <<mode, convLock, nestLock, rs, seen, enabled, saved, damaged, bounds>>

-----------------------------------------------------------------------------
(* converge run (p in Converges), and converge.Run called at the end of a  *)
(* Gitea restore, which holds the operation lock already.                  *)

\* Mutant: converge run relies on the converge lock alone.
ConvergeLockMutant(p) ==
  /\ Idle(p) /\ MayStart(p)
  /\ Goto(p, "ready")
  /\ UNCHANGED <<mode, locks, rs, seen, timers, damaged, bounds>>

ConvergeLock(p) ==
  /\ Idle(p) /\ MayStart(p)
  /\ opLock = None
  /\ opLock' = p
  /\ Goto(p, "ready")
  /\ UNCHANGED <<mode, convLock, nestLock, rs, seen, timers, damaged, bounds>>

\* converge.Run returns to its caller: a converge run ends and unlocks, a
\* Gitea restore goes on or aborts.
ConvergeReturns(p, ok) ==
  IF p \in Converges
  THEN /\ Goto(p, "idle")
       /\ opLock' = None
       /\ UNCHANGED <<mode, giteaSaved>>
  ELSE IF ok
  THEN /\ Goto(p, "resume")
       /\ UNCHANGED <<mode, opLock, giteaSaved>>
  ELSE GiteaAborts(p)

\* A converge lock that is taken counts as success: another run is at it.
ConvergeBegin(p) ==
  /\ pc[p] = "ready"
  /\ IF convLock = None
     THEN /\ convLock' = p
          /\ Goto(p, "git")
          /\ UNCHANGED <<mode, opLock, giteaSaved>>
     ELSE /\ ConvergeReturns(p, TRUE)
          /\ UNCHANGED convLock
  /\ UNCHANGED <<nestLock, rs, seen, active, enabled, saved, damaged, bounds>>

\* The repositories are up to date and the playbook reads the mode, once.
PlaybookReadsMode(p) ==
  /\ pc[p] = "git"
  /\ seen' = [seen EXCEPT ![p] = mode]
  /\ Goto(p, "base")
  /\ UNCHANGED <<mode, locks, rs, timers, damaged, bounds>>

\* The role base enables and starts the timers the mode it read calls for and
\* stops and disables the others.
PlaybookBase(p) ==
  /\ pc[p] = "base"
  /\ enabled' = TimersFor(seen[p])
  /\ active' = TimersFor(seen[p])
  /\ Goto(p, "playbook")
  /\ UNCHANGED <<mode, locks, rs, seen, saved, giteaSaved, damaged, bounds>>

\* Mutant: the converge lock is not released after a failure.
LeavePlaybookMutant(p, ok) ==
  /\ ConvergeReturns(p, ok)
  /\ convLock' = IF ok THEN None ELSE convLock
  /\ rs' = [rs EXCEPT ![p] = "none"]
  /\ seen' = [seen EXCEPT ![p] = None]
  /\ UNCHANGED <<nestLock, active, enabled, saved, damaged, bounds>>

LeavePlaybook(p, ok) ==
  /\ ConvergeReturns(p, ok)
  /\ convLock' = None
  /\ rs' = [rs EXCEPT ![p] = "none"]
  /\ seen' = [seen EXCEPT ![p] = None]
  /\ UNCHANGED <<nestLock, active, enabled, saved, damaged, bounds>>

\* In mode "restore" the playbook needs the nested restore to succeed.
ConvergeSucceeds(p) ==
  /\ pc[p] = "playbook"
  /\ IF seen[p] = "restore" THEN rs[p] = "ok" ELSE rs[p] = "none"
  /\ LeavePlaybook(p, TRUE)

\* Mutant: a failed run starts over instead of returning.
ConvergeFailsMutant(p) ==
  /\ pc[p] \in {"git", "base", "playbook"}
  /\ rs[p] \notin SessionRuns
  /\ Goto(p, "git")
  /\ rs' = [rs EXCEPT ![p] = "none"]
  /\ seen' = [seen EXCEPT ![p] = None]
  /\ UNCHANGED <<mode, locks, timers, damaged, bounds>>

\* Any task may fail, but none ends while the nested restore runs.
ConvergeFails(p) ==
  /\ pc[p] \in {"git", "base", "playbook"}
  /\ rs[p] \notin SessionRuns
  /\ LeavePlaybook(p, FALSE)

-----------------------------------------------------------------------------
(* The environment: the operator, killed processes, reboots.               *)

\* Mutant: `mode set` does not check what it is given.
OperatorSetsModeMutant(m) ==
  /\ sets < MaxSets
  /\ mode' = "unknown"
  /\ sets' = sets + 1
  /\ UNCHANGED <<locks, pc, rs, seen, timers, damaged, crashes>>

\* `mode set` takes no lock.  The operator returns the node to "normal" by
\* hand only after the services have been repaired, as the documentation asks.
OperatorSetsMode(m) ==
  /\ sets < MaxSets
  /\ m \in OperatorModes
  /\ m = "normal" => damaged = {}
  /\ mode' = m
  /\ sets' = sets + 1
  /\ UNCHANGED <<locks, pc, rs, seen, timers, damaged, crashes>>

Without(lock, p) == IF lock = p THEN None ELSE lock

\* A process is killed: the kernel drops its flocks, no deferred call runs.
\* The child of a killed converge dies with its control group, or survives it.
ProcessDies(p) ==
  /\ crashes < MaxCrashes
  /\ ~Idle(p)
  /\ \E survives \in IF OrphansPossible /\ pc[p] = "playbook" /\ rs[p] \in SessionRuns
                     THEN BOOLEAN ELSE {FALSE} :
       /\ rs' = IF survives THEN rs ELSE [rs EXCEPT ![p] = "none"]
       /\ saved' = IF survives THEN saved ELSE [saved EXCEPT ![p] = {}]
       /\ nestLock' = IF survives THEN nestLock ELSE Without(nestLock, p)
  /\ opLock' = Without(opLock, p)
  /\ convLock' = Without(convLock, p)
  /\ Goto(p, "idle")
  /\ seen' = [seen EXCEPT ![p] = None]
  /\ giteaSaved' = [g \in GiteaRestores |-> IF g = p THEN {} ELSE giteaSaved[g]]
  /\ crashes' = crashes + 1
  /\ UNCHANGED <<mode, active, enabled, damaged, sets>>

\* Only the nested restore is killed: its playbook sees a failed command.
ChildDies(p) ==
  /\ crashes < MaxCrashes
  /\ pc[p] = "playbook" /\ rs[p] \in SessionRuns
  /\ rs' = [rs EXCEPT ![p] = "failed"]
  /\ saved' = [saved EXCEPT ![p] = {}]
  /\ nestLock' = Without(nestLock, p)
  /\ crashes' = crashes + 1
  /\ UNCHANGED <<mode, opLock, convLock, pc, seen, active, enabled, giteaSaved, damaged, sets>>

\* The mode file and the enabled timers survive a reboot, /run does not.
Reboot ==
  /\ crashes < MaxCrashes
  /\ opLock' = None /\ convLock' = None /\ nestLock' = None
  /\ pc' = [p \in Proc |-> "idle"]
  /\ rs' = [p \in Proc |-> "none"]
  /\ seen' = [p \in Proc |-> None]
  /\ active' = enabled
  /\ saved' = [p \in Proc |-> {}]
  /\ giteaSaved' = [g \in GiteaRestores |-> {}]
  /\ crashes' = crashes + 1
  /\ UNCHANGED <<mode, enabled, damaged, sets>>

-----------------------------------------------------------------------------
BackupStep(p) == BackupLock(p) \/ BackupTimeout(p) \/ BackupValidated(p) \/ BackupEnd(p)

GiteaStep(p) ==
  \/ GiteaRefuse(p) \/ GiteaEnterRestore(p) \/ GiteaSuspend(p)
  \/ GiteaMutate(p) \/ GiteaValidated(p) \/ GiteaNormal(p)
  \/ GiteaFails(p) \/ GiteaResume(p)

ConvergeStep(p) ==
  \/ ConvergeBegin(p) \/ PlaybookReadsMode(p) \/ PlaybookBase(p)
  \/ ConvergeSucceeds(p) \/ ConvergeFails(p)

\* What a running command does next.
Step(p) ==
  \/ p \in Backups /\ BackupStep(p)
  \/ p \in GiteaRestores /\ GiteaStep(p)
  \/ p \in Converges \cup GiteaRestores /\ ConvergeStep(p)
  \/ p \notin Backups /\ SessionStep(p)

\* A command is started, by a timer or by hand.
Start(p) ==
  \/ p \in Backups /\ BackupStart(p)
  \/ p \in Restores /\ RestoreCheckMode(p)
  \/ p \in GiteaRestores /\ GiteaLock(p)
  \/ p \in Converges /\ ConvergeLock(p)

Environment ==
  \/ \E m \in Mode : OperatorSetsMode(m)
  \/ \E p \in Proc : ProcessDies(p)
  \/ \E p \in Converges \cup GiteaRestores : ChildDies(p)
  \/ Reboot

Next ==
  \/ \E p \in Proc : Start(p) \/ Step(p)
  \/ Environment

Spec == Init /\ [][Next]_vars

\* A started command keeps running: the scheduler runs it, and the external
\* commands it waits for end (docker, ansible-playbook, systemctl, git).
FairSpec == Spec /\ \A p \in Proc : WF_vars(Step(p))

-----------------------------------------------------------------------------
(* Properties.                                                             *)

\* The process, or its nested restore, is past its lock.
Working(p) ==
  \/ pc[p] \notin {"idle", "await"}
  \/ rs[p] \in SessionHolds

\* "Un verrou commun empeche tout chevauchement avec un converge ou une
\* restauration": at most one command works on the node, nested restore
\* included, although the nested restore does not take the common lock.
MutualExclusion == \A p, q \in Proc : Working(p) /\ Working(q) => p = q

\* A converge asked for at the end of a Gitea restore, or by a converge run, is
\* never skipped as "another run is in progress": whoever reaches the converge
\* lock finds it free, because the operation lock is taken first.
ConvergeNeverSkipped == \A p \in Proc : pc[p] = "ready" => convLock = None

\* While a restore takes services apart, every timer it suspended stays
\* stopped: no other command (a converge's role base above all) restarts one.
SuspensionHolds ==
  /\ \A p \in Proc : rs[p] \in {"prepare", "mutate", "valid"}
                       => active \cap RestoreTimers = {}
  /\ \A p \in GiteaRestores : pc[p] \in {"prepare", "mutate", "valid"}
                       => active \cap GiteaTimers = {}

\* A restore that succeeds will resume every enabled timer, also one that an
\* earlier failed attempt, or a crash, left stopped.
NoTimerForgotten ==
  /\ \A p \in Proc : rs[p] \in {"prepare", "mutate", "valid", "done"}
                       => enabled \cap RestoreTimers \subseteq saved[p]
  /\ \A p \in GiteaRestores : pc[p] \in {"prepare", "mutate", "valid"}
                       => enabled \cap GiteaTimers \subseteq giteaSaved[p]

\* Why the above hold: what is true between any two steps of the commands.

\* Past its lock a command holds the operation lock, and a nested restore has a
\* playbook waiting for it, whose command holds the operation lock.
LockDiscipline ==
  /\ \A p \in Proc : pc[p] \notin {"idle", "await"} => opLock = p
  /\ \A p \in Restores : /\ pc[p] = "idle"
                         /\ rs[p] \in SessionHolds => opLock = p
  /\ \A p \in Proc \ Restores : rs[p] # "none" => pc[p] = "playbook"

\* The converge lock is held inside converge.Run and nowhere else.
ConvergeLockDiscipline ==
  \A p \in Proc : convLock = p => pc[p] \in {"git", "base", "playbook"}

\* What a restore has just validated is still whole when it writes "normal".
ValidIsWhole ==
  /\ \A p \in Proc : rs[p] = "valid" => damaged = {}
  /\ \A p \in GiteaRestores : pc[p] = "valid" => "gitea" \notin damaged

\* The inductive invariant of the proofs, for a nested restore that dies with
\* its converge run.
IInv ==
  /\ TypeOK /\ LockDiscipline /\ ConvergeLockDiscipline
  /\ SuspensionHolds /\ NoTimerForgotten /\ ValidIsWhole

\* The program returns the node to "normal" only when no service is left taken
\* apart, by this restore or by an earlier one that failed or died.
NormalMeansWhole == [][mode' = "normal" /\ mode # "normal" => damaged' = {}]_vars

\* The mode file, the operation lock and the state of the services keep the
\* contract of ModeContract.
Contract == INSTANCE ModeContract WITH
  holder <- opLock,
  Vouched <- IF GiteaRestores = {} THEN Services ELSE {"gitea"}
ContractSpec == Contract!CSpec

\* Whoever takes the operation lock gives it back.
LockReleased == \A p \in Proc : opLock = p ~> opLock # p

\* A backup does not wait for ever, even if the others always win the lock.
BackupWaitEnds == \A p \in Backups : pc[p] = "await" ~> pc[p] # "await"

-----------------------------------------------------------------------------
(* What the documentation says and the code does not keep (see the README). *)

\* "Le mode `normal` est obligatoire": a backup captures only in mode normal.
BackupNeedsNormal ==
  [][\A p \in Backups : pc[p] # "capture" /\ pc'[p] = "capture" => mode = "normal"]_vars

\* "If the command fails, it leaves the node in restore_failed and keeps the
\* timers stopped": those a Gitea restore has stopped.
GiteaFailureKeepsTimersStopped ==
  [][\A p \in GiteaRestores :
       pc[p] # "idle" /\ pc'[p] = "idle" /\ opLock' = None /\ mode' = "restore_failed"
         => active' \cap giteaSaved[p] = {}]_vars
=============================================================================
