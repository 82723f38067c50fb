--------------------------- MODULE AdminNodeProofs ---------------------------
(***************************************************************************)
(* Proofs about AdminNode, for any number of processes and any bounds.     *)
(*                                                                         *)
(* 1. TypeOK is inductive.                                                 *)
(* 2. IInv is inductive when a nested restore never outlives its converge: *)
(*    the lock discipline first (it needs nothing else), then what depends *)
(*    on it: the timers and the state of the services.                     *)
(* 3. What follows: mutual exclusion, no converge skipped, suspension, no  *)
(*    timer forgotten, "normal means whole", and the step simulation of    *)
(*    ModeContract.                                                        *)
(***************************************************************************)
EXTENDS AdminNode, TLAPS

USE DEF Proc, Mode, Timers, RestoreTimers, GiteaTimers, Services,
        Phases, SessionPhases, SessionRuns, SessionHolds, locks, timers, bounds

-----------------------------------------------------------------------------
(* Type correctness.                                                       *)

LEMMA TypeInit == Init => TypeOK
BY CommandsAreDisjoint, BoundsAreNaturals DEF Init, TypeOK, TimersFor

LEMMA TypeBackup ==
  ASSUME TypeOK, NEW p \in Backups, BackupStart(p) \/ BackupStep(p)
  PROVE  TypeOK'
<1>. USE DEF TypeOK, Goto
<1>1. CASE BackupStart(p) BY <1>1 DEF BackupStart
<1>2. CASE BackupLock(p) BY <1>2 DEF BackupLock
<1>3. CASE BackupTimeout(p) BY <1>3 DEF BackupTimeout
<1>4. CASE BackupValidated(p) BY <1>4 DEF BackupValidated
<1>5. CASE BackupEnd(p) BY <1>5 DEF BackupEnd
<1>. QED BY <1>1, <1>2, <1>3, <1>4, <1>5 DEF BackupStep

LEMMA TypeSession ==
  ASSUME TypeOK, NEW p \in Proc \ Backups, RestoreCheckMode(p) \/ SessionStep(p)
  PROVE  TypeOK'
<1>. USE DEF TypeOK, GotoRS, Verdict, EndSession, FreeSessionLock, TakeSessionLock,
             SessionLockFree, Suspendable
<1>1. CASE RestoreCheckMode(p) BY <1>1 DEF RestoreCheckMode
<1>2. CASE RestoreLock(p) BY <1>2 DEF RestoreLock
<1>3. CASE RestoreSuspend(p) BY <1>3 DEF RestoreSuspend
<1>4. CASE RestoreSuspendFails(p) BY <1>4 DEF RestoreSuspendFails
<1>5. CASE RestoreMutate(p) BY <1>5 DEF RestoreMutate
<1>6. CASE RestoreValidated(p) BY <1>6 DEF RestoreValidated
<1>7. CASE RestoreFails(p) BY <1>7 DEF RestoreFails
<1>8. CASE RestoreNormal(p) BY <1>8 DEF RestoreNormal
<1>9. CASE RestoreNormalFails(p) BY <1>9 DEF RestoreNormalFails
<1>10. CASE RestoreFinish(p) BY <1>10 DEF RestoreFinish
<1>11. CASE RestoreLost(p) BY <1>11 DEF RestoreLost
<1>. QED
  BY <1>1, <1>2, <1>3, <1>4, <1>5, <1>6, <1>7, <1>8, <1>9, <1>10, <1>11 DEF SessionStep

LEMMA TypeGitea ==
  ASSUME TypeOK, NEW p \in GiteaRestores, GiteaLock(p) \/ GiteaStep(p)
  PROVE  TypeOK'
<1>. USE DEF TypeOK, Goto, GiteaAborts, Suspendable
<1>1. CASE GiteaLock(p) BY <1>1 DEF GiteaLock
<1>2. CASE GiteaRefuse(p) BY <1>2 DEF GiteaRefuse
<1>3. CASE GiteaEnterRestore(p) BY <1>3 DEF GiteaEnterRestore
<1>4. CASE GiteaSuspend(p) BY <1>4 DEF GiteaSuspend
<1>5. CASE GiteaMutate(p) BY <1>5 DEF GiteaMutate
<1>6. CASE GiteaValidated(p) BY <1>6 DEF GiteaValidated
<1>7. CASE GiteaNormal(p) BY <1>7 DEF GiteaNormal
<1>8. CASE GiteaFails(p) BY <1>8 DEF GiteaFails
<1>9. CASE GiteaResume(p) BY <1>9 DEF GiteaResume
<1>. QED BY <1>1, <1>2, <1>3, <1>4, <1>5, <1>6, <1>7, <1>8, <1>9 DEF GiteaStep

LEMMA TypeConverge ==
  ASSUME TypeOK, NEW p \in Converges \cup GiteaRestores,
         (p \in Converges /\ ConvergeLock(p)) \/ ConvergeStep(p)
  PROVE  TypeOK'
<1>. USE DEF TypeOK, Goto, GiteaAborts, ConvergeReturns, LeavePlaybook, TimersFor
<1>1. CASE ConvergeLock(p) BY <1>1 DEF ConvergeLock
<1>2. CASE ConvergeBegin(p) BY <1>2 DEF ConvergeBegin
<1>3. CASE PlaybookReadsMode(p) BY <1>3 DEF PlaybookReadsMode
<1>4. CASE PlaybookBase(p) BY <1>4 DEF PlaybookBase
<1>5. CASE ConvergeSucceeds(p) BY <1>5 DEF ConvergeSucceeds
<1>6. CASE ConvergeFails(p) BY <1>6 DEF ConvergeFails
<1>. QED BY <1>1, <1>2, <1>3, <1>4, <1>5, <1>6 DEF ConvergeStep

LEMMA TypeEnvironment ==
  ASSUME TypeOK, Environment
  PROVE  TypeOK'
<1>. USE BoundsAreNaturals, OperatorModesAreModes DEF TypeOK, Goto, Without
<1>1. CASE \E m \in Mode : OperatorSetsMode(m) BY <1>1 DEF OperatorSetsMode
<1>2. ASSUME NEW p \in Proc, ProcessDies(p) PROVE TypeOK' BY <1>2 DEF ProcessDies
<1>3. ASSUME NEW p \in Proc, ChildDies(p) PROVE TypeOK' BY <1>3 DEF ChildDies
<1>4. CASE Reboot BY <1>4 DEF Reboot
<1>. QED BY <1>1, <1>2, <1>3, <1>4 DEF Environment

LEMMA TypeNext == TypeOK /\ [Next]_vars => TypeOK'
<1>. SUFFICES ASSUME TypeOK, [Next]_vars PROVE TypeOK'
  OBVIOUS
<1>1. ASSUME NEW p \in Proc, Start(p) PROVE TypeOK'
  BY <1>1, CommandsAreDisjoint, TypeBackup, TypeSession, TypeGitea, TypeConverge DEF Start
<1>2. ASSUME NEW p \in Proc, Step(p) PROVE TypeOK'
  BY <1>2, TypeBackup, TypeSession, TypeGitea, TypeConverge DEF Step
<1>3. CASE Environment BY <1>3, TypeEnvironment
<1>4. CASE UNCHANGED vars BY <1>4 DEF vars, TypeOK
<1>. QED BY <1>1, <1>2, <1>3, <1>4 DEF Next

\* Every reachable state is well typed: in particular the mode file holds one of
\* the five modes, whoever writes it.
THEOREM TypeCorrect == Spec => []TypeOK
BY TypeInit, TypeNext, PTL DEF Spec

-----------------------------------------------------------------------------
(* The lock discipline.                                                    *)

LEMMA LocksBackup ==
  ASSUME TypeOK, LockDiscipline, ConvergeLockDiscipline, NEW p \in Backups, BackupStart(p) \/ BackupStep(p)
  PROVE  (LockDiscipline /\ ConvergeLockDiscipline)'
<1>. USE CommandsAreDisjoint, NoneIsNothingElse
    DEF TypeOK, LockDiscipline, ConvergeLockDiscipline, Goto, Idle
<1>1. CASE BackupStart(p) BY <1>1 DEF BackupStart
<1>2. CASE BackupLock(p) BY <1>2 DEF BackupLock
<1>3. CASE BackupTimeout(p) BY <1>3 DEF BackupTimeout
<1>4. CASE BackupValidated(p) BY <1>4 DEF BackupValidated
<1>5. CASE BackupEnd(p) BY <1>5 DEF BackupEnd
<1>. QED BY <1>1, <1>2, <1>3, <1>4, <1>5 DEF BackupStep

LEMMA LocksSession ==
  ASSUME TypeOK, LockDiscipline, ConvergeLockDiscipline, NEW p \in Proc \ Backups, RestoreCheckMode(p) \/ SessionStep(p)
  PROVE  (LockDiscipline /\ ConvergeLockDiscipline)'
<1>. USE CommandsAreDisjoint, NoneIsNothingElse
    DEF TypeOK, LockDiscipline, ConvergeLockDiscipline, GotoRS, Verdict, EndSession, FreeSessionLock, TakeSessionLock,
             SessionLockFree, Nested, Suspendable
<1>1. CASE RestoreCheckMode(p) BY <1>1 DEF RestoreCheckMode
<1>2. CASE RestoreLock(p) BY <1>2 DEF RestoreLock
<1>3. CASE RestoreSuspend(p) BY <1>3 DEF RestoreSuspend
<1>4. CASE RestoreSuspendFails(p) BY <1>4 DEF RestoreSuspendFails
<1>5. CASE RestoreMutate(p) BY <1>5 DEF RestoreMutate
<1>6. CASE RestoreValidated(p) BY <1>6 DEF RestoreValidated
<1>7. CASE RestoreFails(p) BY <1>7 DEF RestoreFails
<1>8. CASE RestoreNormal(p) BY <1>8 DEF RestoreNormal
<1>9. CASE RestoreNormalFails(p) BY <1>9 DEF RestoreNormalFails
<1>10. CASE RestoreFinish(p) BY <1>10 DEF RestoreFinish
<1>11. CASE RestoreLost(p) BY <1>11 DEF RestoreLost
<1>. QED BY <1>1, <1>2, <1>3, <1>4, <1>5, <1>6, <1>7, <1>8, <1>9, <1>10, <1>11 DEF SessionStep

LEMMA LocksGitea ==
  ASSUME TypeOK, LockDiscipline, ConvergeLockDiscipline, NEW p \in GiteaRestores, GiteaLock(p) \/ GiteaStep(p)
  PROVE  (LockDiscipline /\ ConvergeLockDiscipline)'
<1>. USE CommandsAreDisjoint, NoneIsNothingElse
    DEF TypeOK, LockDiscipline, ConvergeLockDiscipline, Goto, GiteaAborts, Idle, Suspendable
<1>1. CASE GiteaLock(p) BY <1>1 DEF GiteaLock
<1>2. CASE GiteaRefuse(p) BY <1>2 DEF GiteaRefuse
<1>3. CASE GiteaEnterRestore(p) BY <1>3 DEF GiteaEnterRestore
<1>4. CASE GiteaSuspend(p) BY <1>4 DEF GiteaSuspend
<1>5. CASE GiteaMutate(p) BY <1>5 DEF GiteaMutate
<1>6. CASE GiteaValidated(p) BY <1>6 DEF GiteaValidated
<1>7. CASE GiteaNormal(p) BY <1>7 DEF GiteaNormal
<1>8. CASE GiteaFails(p) BY <1>8 DEF GiteaFails
<1>9. CASE GiteaResume(p) BY <1>9 DEF GiteaResume
<1>. QED BY <1>1, <1>2, <1>3, <1>4, <1>5, <1>6, <1>7, <1>8, <1>9 DEF GiteaStep

LEMMA LocksConverge ==
  ASSUME TypeOK, LockDiscipline, ConvergeLockDiscipline, NEW p \in Converges \cup GiteaRestores, (p \in Converges /\ ConvergeLock(p)) \/ ConvergeStep(p)
  PROVE  (LockDiscipline /\ ConvergeLockDiscipline)'
<1>. USE CommandsAreDisjoint, NoneIsNothingElse
    DEF TypeOK, LockDiscipline, ConvergeLockDiscipline, Goto, Idle, GiteaAborts, ConvergeReturns, LeavePlaybook
<1>1. CASE ConvergeLock(p) BY <1>1 DEF ConvergeLock
<1>2. CASE ConvergeBegin(p) BY <1>2 DEF ConvergeBegin
<1>3. CASE PlaybookReadsMode(p) BY <1>3 DEF PlaybookReadsMode
<1>4. CASE PlaybookBase(p) BY <1>4 DEF PlaybookBase
<1>5. CASE ConvergeSucceeds(p) BY <1>5 DEF ConvergeSucceeds
<1>6. CASE ConvergeFails(p) BY <1>6 DEF ConvergeFails
<1>. QED BY <1>1, <1>2, <1>3, <1>4, <1>5, <1>6 DEF ConvergeStep

-----------------------------------------------------------------------------
(* The timers, under the lock discipline.                                  *)

LEMMA TimersBackup ==
  ASSUME TypeOK, LockDiscipline, SuspensionHolds, NoTimerForgotten, NEW p \in Backups, BackupStart(p) \/ BackupStep(p)
  PROVE  (SuspensionHolds /\ NoTimerForgotten)'
<1>. USE CommandsAreDisjoint, NoneIsNothingElse
    DEF TypeOK, LockDiscipline, SuspensionHolds, NoTimerForgotten, TimersFor, Goto, Idle
<1>1. CASE BackupStart(p) BY <1>1 DEF BackupStart
<1>2. CASE BackupLock(p) BY <1>2 DEF BackupLock
<1>3. CASE BackupTimeout(p) BY <1>3 DEF BackupTimeout
<1>4. CASE BackupValidated(p) BY <1>4 DEF BackupValidated
<1>5. CASE BackupEnd(p) BY <1>5 DEF BackupEnd
<1>. QED BY <1>1, <1>2, <1>3, <1>4, <1>5 DEF BackupStep

LEMMA TimersSession ==
  ASSUME TypeOK, LockDiscipline, SuspensionHolds, NoTimerForgotten, NEW p \in Proc \ Backups, RestoreCheckMode(p) \/ SessionStep(p)
  PROVE  (SuspensionHolds /\ NoTimerForgotten)'
<1>. USE CommandsAreDisjoint, NoneIsNothingElse
    DEF TypeOK, LockDiscipline, SuspensionHolds, NoTimerForgotten, TimersFor, GotoRS, Verdict, EndSession, FreeSessionLock, TakeSessionLock,
             SessionLockFree, Nested, Suspendable
<1>1. CASE RestoreCheckMode(p) BY <1>1 DEF RestoreCheckMode
<1>2. CASE RestoreLock(p) BY <1>2 DEF RestoreLock
<1>3. CASE RestoreSuspend(p) BY <1>3 DEF RestoreSuspend
<1>4. CASE RestoreSuspendFails(p) BY <1>4 DEF RestoreSuspendFails
<1>5. CASE RestoreMutate(p) BY <1>5 DEF RestoreMutate
<1>6. CASE RestoreValidated(p) BY <1>6 DEF RestoreValidated
<1>7. CASE RestoreFails(p) BY <1>7 DEF RestoreFails
<1>8. CASE RestoreNormal(p) BY <1>8 DEF RestoreNormal
<1>9. CASE RestoreNormalFails(p) BY <1>9 DEF RestoreNormalFails
<1>10. CASE RestoreFinish(p) BY <1>10 DEF RestoreFinish
<1>11. CASE RestoreLost(p) BY <1>11 DEF RestoreLost
<1>. QED BY <1>1, <1>2, <1>3, <1>4, <1>5, <1>6, <1>7, <1>8, <1>9, <1>10, <1>11 DEF SessionStep

LEMMA TimersGitea ==
  ASSUME TypeOK, LockDiscipline, SuspensionHolds, NoTimerForgotten, NEW p \in GiteaRestores, GiteaLock(p) \/ GiteaStep(p)
  PROVE  (SuspensionHolds /\ NoTimerForgotten)'
<1>. USE CommandsAreDisjoint, NoneIsNothingElse
    DEF TypeOK, LockDiscipline, SuspensionHolds, NoTimerForgotten, TimersFor, Goto, GiteaAborts, Idle, Suspendable
<1>1. CASE GiteaLock(p) BY <1>1 DEF GiteaLock
<1>2. CASE GiteaRefuse(p) BY <1>2 DEF GiteaRefuse
<1>3. CASE GiteaEnterRestore(p) BY <1>3 DEF GiteaEnterRestore
<1>4. CASE GiteaSuspend(p) BY <1>4 DEF GiteaSuspend
<1>5. CASE GiteaMutate(p) BY <1>5 DEF GiteaMutate
<1>6. CASE GiteaValidated(p) BY <1>6 DEF GiteaValidated
<1>7. CASE GiteaNormal(p) BY <1>7 DEF GiteaNormal
<1>8. CASE GiteaFails(p) BY <1>8 DEF GiteaFails
<1>9. CASE GiteaResume(p) BY <1>9 DEF GiteaResume
<1>. QED BY <1>1, <1>2, <1>3, <1>4, <1>5, <1>6, <1>7, <1>8, <1>9 DEF GiteaStep

LEMMA TimersConverge ==
  ASSUME TypeOK, LockDiscipline, SuspensionHolds, NoTimerForgotten, NEW p \in Converges \cup GiteaRestores, (p \in Converges /\ ConvergeLock(p)) \/ ConvergeStep(p)
  PROVE  (SuspensionHolds /\ NoTimerForgotten)'
<1>. USE CommandsAreDisjoint, NoneIsNothingElse
    DEF TypeOK, LockDiscipline, SuspensionHolds, NoTimerForgotten, TimersFor, Goto, Idle, GiteaAborts, ConvergeReturns, LeavePlaybook
<1>1. CASE ConvergeLock(p) BY <1>1 DEF ConvergeLock
<1>2. CASE ConvergeBegin(p) BY <1>2 DEF ConvergeBegin
<1>3. CASE PlaybookReadsMode(p) BY <1>3 DEF PlaybookReadsMode
<1>4. CASE PlaybookBase(p) BY <1>4 DEF PlaybookBase
<1>5. CASE ConvergeSucceeds(p) BY <1>5 DEF ConvergeSucceeds
<1>6. CASE ConvergeFails(p) BY <1>6 DEF ConvergeFails
<1>. QED BY <1>1, <1>2, <1>3, <1>4, <1>5, <1>6 DEF ConvergeStep

-----------------------------------------------------------------------------
(* The services, under the lock discipline.                                *)

LEMMA WholeBackup ==
  ASSUME TypeOK, LockDiscipline, ValidIsWhole, NEW p \in Backups, BackupStart(p) \/ BackupStep(p)
  PROVE  ValidIsWhole'
<1>. USE CommandsAreDisjoint, NoneIsNothingElse
    DEF TypeOK, LockDiscipline, ValidIsWhole, Goto, Idle
<1>1. CASE BackupStart(p) BY <1>1 DEF BackupStart
<1>2. CASE BackupLock(p) BY <1>2 DEF BackupLock
<1>3. CASE BackupTimeout(p) BY <1>3 DEF BackupTimeout
<1>4. CASE BackupValidated(p) BY <1>4 DEF BackupValidated
<1>5. CASE BackupEnd(p) BY <1>5 DEF BackupEnd
<1>. QED BY <1>1, <1>2, <1>3, <1>4, <1>5 DEF BackupStep

LEMMA WholeSession ==
  ASSUME TypeOK, LockDiscipline, ValidIsWhole, NEW p \in Proc \ Backups, RestoreCheckMode(p) \/ SessionStep(p)
  PROVE  ValidIsWhole'
<1>. USE CommandsAreDisjoint, NoneIsNothingElse
    DEF TypeOK, LockDiscipline, ValidIsWhole, GotoRS, Verdict, EndSession, FreeSessionLock, TakeSessionLock,
             SessionLockFree, Nested, Suspendable
<1>1. CASE RestoreCheckMode(p) BY <1>1 DEF RestoreCheckMode
<1>2. CASE RestoreLock(p) BY <1>2 DEF RestoreLock
<1>3. CASE RestoreSuspend(p) BY <1>3 DEF RestoreSuspend
<1>4. CASE RestoreSuspendFails(p) BY <1>4 DEF RestoreSuspendFails
<1>5. CASE RestoreMutate(p) BY <1>5 DEF RestoreMutate
<1>6. CASE RestoreValidated(p) BY <1>6 DEF RestoreValidated
<1>7. CASE RestoreFails(p) BY <1>7 DEF RestoreFails
<1>8. CASE RestoreNormal(p) BY <1>8 DEF RestoreNormal
<1>9. CASE RestoreNormalFails(p) BY <1>9 DEF RestoreNormalFails
<1>10. CASE RestoreFinish(p) BY <1>10 DEF RestoreFinish
<1>11. CASE RestoreLost(p) BY <1>11 DEF RestoreLost
<1>. QED BY <1>1, <1>2, <1>3, <1>4, <1>5, <1>6, <1>7, <1>8, <1>9, <1>10, <1>11 DEF SessionStep

LEMMA WholeGitea ==
  ASSUME TypeOK, LockDiscipline, ValidIsWhole, NEW p \in GiteaRestores, GiteaLock(p) \/ GiteaStep(p)
  PROVE  ValidIsWhole'
<1>. USE CommandsAreDisjoint, NoneIsNothingElse
    DEF TypeOK, LockDiscipline, ValidIsWhole, Goto, GiteaAborts, Idle, Suspendable
<1>1. CASE GiteaLock(p) BY <1>1 DEF GiteaLock
<1>2. CASE GiteaRefuse(p) BY <1>2 DEF GiteaRefuse
<1>3. CASE GiteaEnterRestore(p) BY <1>3 DEF GiteaEnterRestore
<1>4. CASE GiteaSuspend(p) BY <1>4 DEF GiteaSuspend
<1>5. CASE GiteaMutate(p) BY <1>5 DEF GiteaMutate
<1>6. CASE GiteaValidated(p) BY <1>6 DEF GiteaValidated
<1>7. CASE GiteaNormal(p) BY <1>7 DEF GiteaNormal
<1>8. CASE GiteaFails(p) BY <1>8 DEF GiteaFails
<1>9. CASE GiteaResume(p) BY <1>9 DEF GiteaResume
<1>. QED BY <1>1, <1>2, <1>3, <1>4, <1>5, <1>6, <1>7, <1>8, <1>9 DEF GiteaStep

LEMMA WholeConverge ==
  ASSUME TypeOK, LockDiscipline, ValidIsWhole, NEW p \in Converges \cup GiteaRestores, (p \in Converges /\ ConvergeLock(p)) \/ ConvergeStep(p)
  PROVE  ValidIsWhole'
<1>. USE CommandsAreDisjoint, NoneIsNothingElse
    DEF TypeOK, LockDiscipline, ValidIsWhole, Goto, Idle, GiteaAborts, ConvergeReturns, LeavePlaybook
<1>1. CASE ConvergeLock(p) BY <1>1 DEF ConvergeLock
<1>2. CASE ConvergeBegin(p) BY <1>2 DEF ConvergeBegin
<1>3. CASE PlaybookReadsMode(p) BY <1>3 DEF PlaybookReadsMode
<1>4. CASE PlaybookBase(p) BY <1>4 DEF PlaybookBase
<1>5. CASE ConvergeSucceeds(p) BY <1>5 DEF ConvergeSucceeds
<1>6. CASE ConvergeFails(p) BY <1>6 DEF ConvergeFails
<1>. QED BY <1>1, <1>2, <1>3, <1>4, <1>5, <1>6 DEF ConvergeStep

-----------------------------------------------------------------------------
(* The inductive invariant.                                                *)

LEMMA IInvEnvironment ==
  ASSUME OrphansPossible = FALSE, IInv, TypeOK', Environment
  PROVE  IInv'
<1>. USE NoneIsNothingElse
     DEF IInv, TypeOK, LockDiscipline, ConvergeLockDiscipline, SuspensionHolds,
         NoTimerForgotten, ValidIsWhole, Goto, Without
<1>1. CASE \E m \in Mode : OperatorSetsMode(m) BY <1>1 DEF OperatorSetsMode
<1>2. ASSUME NEW p \in Proc, ProcessDies(p) PROVE IInv'
  <2>. USE <1>2 DEF ProcessDies
  <2>1. LockDiscipline' OBVIOUS
  <2>2. ConvergeLockDiscipline' OBVIOUS
  <2>3. SuspensionHolds' OBVIOUS
  <2>4. NoTimerForgotten' OBVIOUS
  <2>5. ValidIsWhole' OBVIOUS
  <2>. QED BY <2>1, <2>2, <2>3, <2>4, <2>5
<1>3. ASSUME NEW p \in Converges \cup GiteaRestores, ChildDies(p) PROVE IInv'
  BY <1>3 DEF ChildDies
<1>4. CASE Reboot BY <1>4 DEF Reboot
<1>. QED BY <1>1, <1>2, <1>3, <1>4 DEF Environment

LEMMA IInvInit == Init => IInv
<1>. SUFFICES ASSUME Init PROVE IInv
  OBVIOUS
<1>1. TypeOK BY TypeInit
<1>. QED
  BY <1>1, NoneIsNothingElse
  DEF Init, IInv, LockDiscipline, ConvergeLockDiscipline, SuspensionHolds,
      NoTimerForgotten, ValidIsWhole

LEMMA IInvNext ==
  ASSUME OrphansPossible = FALSE
  PROVE  IInv /\ [Next]_vars => IInv'
<1>. SUFFICES ASSUME IInv, [Next]_vars PROVE IInv'
  OBVIOUS
<1>1. TypeOK' BY TypeNext DEF IInv
<1>2. ASSUME NEW p \in Proc, Start(p) \/ Step(p) PROVE IInv'
  <2>1. CASE p \in Backups /\ (BackupStart(p) \/ BackupStep(p))
    BY <1>1, <2>1, LocksBackup, TimersBackup, WholeBackup DEF IInv
  <2>2. CASE p \in Proc \ Backups /\ (RestoreCheckMode(p) \/ SessionStep(p))
    BY <1>1, <2>2, LocksSession, TimersSession, WholeSession DEF IInv
  <2>3. CASE p \in GiteaRestores /\ (GiteaLock(p) \/ GiteaStep(p))
    BY <1>1, <2>3, LocksGitea, TimersGitea, WholeGitea DEF IInv
  <2>4. CASE /\ p \in Converges \cup GiteaRestores
             /\ (p \in Converges /\ ConvergeLock(p)) \/ ConvergeStep(p)
    BY <1>1, <2>4, LocksConverge, TimersConverge, WholeConverge DEF IInv
  <2>. QED BY <1>2, <2>1, <2>2, <2>3, <2>4, CommandsAreDisjoint DEF Start, Step
<1>3. CASE Environment BY <1>1, <1>3, IInvEnvironment
<1>4. CASE UNCHANGED vars
  BY <1>4 DEF vars, IInv, TypeOK, LockDiscipline, ConvergeLockDiscipline,
              SuspensionHolds, NoTimerForgotten, ValidIsWhole
<1>. QED BY <1>2, <1>3, <1>4 DEF Next

\* The inductive invariant holds in every reachable state.
THEOREM Invariance ==
  ASSUME OrphansPossible = FALSE
  PROVE  Spec => []IInv
BY IInvInit, IInvNext, PTL DEF Spec

-----------------------------------------------------------------------------
(* What follows from it.                                                   *)

LEMMA LocksExclude == IInv => MutualExclusion
BY CommandsAreDisjoint DEF IInv, LockDiscipline, MutualExclusion, Working

\* At most one command works on the node at a time, nested restores included.
THEOREM Exclusion ==
  ASSUME OrphansPossible = FALSE
  PROVE  Spec => []MutualExclusion
BY Invariance, LocksExclude, PTL

LEMMA LocksNest == IInv => ConvergeNeverSkipped
BY DEF IInv, TypeOK, LockDiscipline, ConvergeLockDiscipline, ConvergeNeverSkipped

\* A converge that reaches its lock is never turned away.
THEOREM ConvergeRuns ==
  ASSUME OrphansPossible = FALSE
  PROVE  Spec => []ConvergeNeverSkipped
BY Invariance, LocksNest, PTL

\* The timers a restore has suspended stay stopped while it works.
THEOREM TimersSuspended ==
  ASSUME OrphansPossible = FALSE
  PROVE  Spec => []SuspensionHolds
<1>1. IInv => SuspensionHolds BY DEF IInv
<1>. QED BY <1>1, Invariance, PTL

\* A restore at work remembers every enabled timer it has to resume, also one
\* that an earlier failed or killed restore left stopped.
THEOREM TimersRemembered ==
  ASSUME OrphansPossible = FALSE
  PROVE  Spec => []NoTimerForgotten
<1>1. IInv => NoTimerForgotten BY DEF IInv
<1>. QED BY <1>1, Invariance, PTL

LEMMA NormalStep ==
  ASSUME GiteaRestores = {}, IInv, [Next]_vars, mode' = "normal", mode # "normal"
  PROVE  damaged' = {}
<1>. USE DEF IInv, TypeOK, ValidIsWhole, EndSession
<1>1. ASSUME NEW p \in Proc, Start(p) PROVE damaged' = {}
  BY <1>1 DEF Start, BackupStart, RestoreCheckMode, ConvergeLock
<1>2. ASSUME NEW p \in Proc, Step(p) PROVE damaged' = {}
  <2>1. CASE BackupStep(p)
    BY <2>1 DEF BackupStep, BackupLock, BackupTimeout, BackupValidated, BackupEnd
  <2>2. CASE ConvergeStep(p) /\ p \in Converges
    BY <2>2 DEF ConvergeStep, ConvergeBegin, PlaybookReadsMode, PlaybookBase,
                ConvergeSucceeds, ConvergeFails, LeavePlaybook, ConvergeReturns
  <2>3. CASE SessionStep(p)
    BY <2>3 DEF SessionStep, RestoreCheckMode, RestoreLock, RestoreLost, RestoreSuspend,
                RestoreSuspendFails, RestoreMutate, RestoreValidated, RestoreFails,
                RestoreNormal, RestoreNormalFails, RestoreFinish
  <2>. QED BY <1>2, <2>1, <2>2, <2>3 DEF Step
<1>3. CASE Environment
  BY <1>3 DEF Environment, OperatorSetsMode, ProcessDies, ChildDies, Reboot
<1>. QED BY <1>1, <1>2, <1>3 DEF Next, vars

\* On a node without Gitea restores, the mode returns to "normal" only when
\* nothing is left taken apart.
THEOREM NormalIsWhole ==
  ASSUME OrphansPossible = FALSE, GiteaRestores = {}
  PROVE  Spec => NormalMeansWhole
<1>1. IInv /\ [Next]_vars => [mode' = "normal" /\ mode # "normal" => damaged' = {}]_vars
  BY NormalStep
<1>. QED BY <1>1, Invariance, PTL DEF Spec, NormalMeansWhole

-----------------------------------------------------------------------------
(* AdminNode implements ModeContract.                                      *)

LEMMA ContractBackup ==
  ASSUME IInv, NEW p \in Backups, BackupStart(p) \/ BackupStep(p)
  PROVE  [Contract!CNext]_(Contract!cvars)
<1>. USE CommandsAreDisjoint, NoneIsNothingElse
    DEF IInv, TypeOK, LockDiscipline, ValidIsWhole, Goto, Idle,
        Contract!cvars, Contract!CNext, Contract!Take, Contract!Rework,
        Contract!Declare, Contract!Leave
<1>1. CASE BackupStart(p) BY <1>1 DEF BackupStart
<1>2. CASE BackupLock(p) BY <1>2 DEF BackupLock
<1>3. CASE BackupTimeout(p) BY <1>3 DEF BackupTimeout
<1>4. CASE BackupValidated(p) BY <1>4 DEF BackupValidated
<1>5. CASE BackupEnd(p) BY <1>5 DEF BackupEnd
<1>. QED BY <1>1, <1>2, <1>3, <1>4, <1>5 DEF BackupStep

LEMMA ContractSession ==
  ASSUME IInv, NEW p \in Proc \ Backups, RestoreCheckMode(p) \/ SessionStep(p)
  PROVE  [Contract!CNext]_(Contract!cvars)
<1>. USE CommandsAreDisjoint, NoneIsNothingElse
    DEF IInv, TypeOK, LockDiscipline, ValidIsWhole, GotoRS, Verdict, EndSession, FreeSessionLock, TakeSessionLock,
             SessionLockFree, Nested, Suspendable,
        Contract!cvars, Contract!CNext, Contract!Take, Contract!Rework,
        Contract!Declare, Contract!Leave
<1>1. CASE RestoreCheckMode(p) BY <1>1 DEF RestoreCheckMode
<1>2. CASE RestoreLock(p) BY <1>2 DEF RestoreLock
<1>3. CASE RestoreSuspend(p) BY <1>3 DEF RestoreSuspend
<1>4. CASE RestoreSuspendFails(p) BY <1>4 DEF RestoreSuspendFails
<1>5. CASE RestoreMutate(p) BY <1>5 DEF RestoreMutate
<1>6. CASE RestoreValidated(p) BY <1>6 DEF RestoreValidated
<1>7. CASE RestoreFails(p) BY <1>7 DEF RestoreFails
<1>8. CASE RestoreNormal(p) BY <1>8 DEF RestoreNormal
<1>9. CASE RestoreNormalFails(p) BY <1>9 DEF RestoreNormalFails
<1>10. CASE RestoreFinish(p) BY <1>10 DEF RestoreFinish
<1>11. CASE RestoreLost(p) BY <1>11 DEF RestoreLost
<1>. QED BY <1>1, <1>2, <1>3, <1>4, <1>5, <1>6, <1>7, <1>8, <1>9, <1>10, <1>11 DEF SessionStep

LEMMA ContractGitea ==
  ASSUME IInv, NEW p \in GiteaRestores, GiteaLock(p) \/ GiteaStep(p)
  PROVE  [Contract!CNext]_(Contract!cvars)
<1>. USE CommandsAreDisjoint, NoneIsNothingElse
    DEF IInv, TypeOK, LockDiscipline, ValidIsWhole, Goto, GiteaAborts, Idle, Suspendable,
        Contract!cvars, Contract!CNext, Contract!Take, Contract!Rework,
        Contract!Declare, Contract!Leave
<1>1. CASE GiteaLock(p) BY <1>1 DEF GiteaLock
<1>2. CASE GiteaRefuse(p) BY <1>2 DEF GiteaRefuse
<1>3. CASE GiteaEnterRestore(p) BY <1>3 DEF GiteaEnterRestore
<1>4. CASE GiteaSuspend(p) BY <1>4 DEF GiteaSuspend
<1>5. CASE GiteaMutate(p) BY <1>5 DEF GiteaMutate
<1>6. CASE GiteaValidated(p) BY <1>6 DEF GiteaValidated
<1>7. CASE GiteaNormal(p) BY <1>7 DEF GiteaNormal
<1>8. CASE GiteaFails(p) BY <1>8 DEF GiteaFails
<1>9. CASE GiteaResume(p) BY <1>9 DEF GiteaResume
<1>. QED BY <1>1, <1>2, <1>3, <1>4, <1>5, <1>6, <1>7, <1>8, <1>9 DEF GiteaStep

LEMMA ContractConverge ==
  ASSUME IInv, NEW p \in Converges \cup GiteaRestores, (p \in Converges /\ ConvergeLock(p)) \/ ConvergeStep(p)
  PROVE  [Contract!CNext]_(Contract!cvars)
<1>. USE CommandsAreDisjoint, NoneIsNothingElse
    DEF IInv, TypeOK, LockDiscipline, ValidIsWhole, Goto, Idle, GiteaAborts, ConvergeReturns, LeavePlaybook,
        Contract!cvars, Contract!CNext, Contract!Take, Contract!Rework,
        Contract!Declare, Contract!Leave
<1>1. CASE ConvergeLock(p) BY <1>1 DEF ConvergeLock
<1>2. CASE ConvergeBegin(p) BY <1>2 DEF ConvergeBegin
<1>3. CASE PlaybookReadsMode(p) BY <1>3 DEF PlaybookReadsMode
<1>4. CASE PlaybookBase(p) BY <1>4 DEF PlaybookBase
<1>5. CASE ConvergeSucceeds(p) BY <1>5 DEF ConvergeSucceeds
<1>6. CASE ConvergeFails(p) BY <1>6 DEF ConvergeFails
<1>. QED BY <1>1, <1>2, <1>3, <1>4, <1>5, <1>6 DEF ConvergeStep

LEMMA ContractEnvironment ==
  ASSUME IInv, Environment
  PROVE  [Contract!CNext]_(Contract!cvars)
<1>. USE NoneIsNothingElse
     DEF IInv, TypeOK, LockDiscipline, Goto, Without, Contract!cvars, Contract!CNext,
         Contract!Declare, Contract!Leave
<1>1. CASE \E m \in Mode : OperatorSetsMode(m) BY <1>1 DEF OperatorSetsMode
<1>2. ASSUME NEW p \in Proc, ProcessDies(p) PROVE [Contract!CNext]_(Contract!cvars)
  BY <1>2 DEF ProcessDies
<1>3. ASSUME NEW p \in Proc, ChildDies(p) PROVE [Contract!CNext]_(Contract!cvars)
  BY <1>3 DEF ChildDies
<1>4. CASE Reboot BY <1>4 DEF Reboot
<1>. QED BY <1>1, <1>2, <1>3, <1>4 DEF Environment

LEMMA ContractInit == Init => Contract!CInit
BY DEF Init, Contract!CInit

LEMMA ContractStep == IInv /\ [Next]_vars => [Contract!CNext]_(Contract!cvars)
<1>. SUFFICES ASSUME IInv, [Next]_vars PROVE [Contract!CNext]_(Contract!cvars)
  OBVIOUS
<1>1. ASSUME NEW p \in Proc, Start(p) \/ Step(p)
      PROVE  [Contract!CNext]_(Contract!cvars)
  BY <1>1, CommandsAreDisjoint, ContractBackup, ContractSession, ContractGitea,
     ContractConverge DEF Start, Step
<1>2. CASE UNCHANGED vars BY <1>2 DEF vars, Contract!cvars
<1>. QED BY <1>1, <1>2, ContractEnvironment DEF Next

\* AdminNode implements ModeContract: the operation lock is an exclusive lease
\* on the services, and "normal" is written only over whole services.
THEOREM ImplementsContract ==
  ASSUME OrphansPossible = FALSE
  PROVE  Spec => ContractSpec
BY ContractInit, ContractStep, Invariance, PTL DEF Spec, ContractSpec, Contract!CSpec
=============================================================================
