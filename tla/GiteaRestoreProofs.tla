-------------------------- MODULE GiteaRestoreProofs --------------------------
(***************************************************************************)
(* Proofs about GiteaRestore, for any number of restores, writes and       *)
(* kills.  IInv is inductive: its preservation has one step per action,    *)
(* under which the conjuncts the action disturbs have steps of their own.  *)
(***************************************************************************)
EXTENDS GiteaRestore, TLAPS

USE DEF Missing, Versions, Data, Whole, NoCopy, Steps, FullSteps, Replacing, kept, limits

LEMMA TypeInit == Init => TypeOK
BY GiteaRestoreBounds DEF Init, TypeOK

LEMMA TypeNext == TypeOK /\ ServedDataBelongTogether /\ ReplacedInOrder
                  /\ QuietWhileReplaced /\ [Next]_vars => TypeOK'
<1>. SUFFICES ASSUME TypeOK, ServedDataBelongTogether, ReplacedInOrder,
                     QuietWhileReplaced, [Next]_vars
              PROVE  TypeOK'
  OBVIOUS
<1>. USE GiteaRestoreBounds DEF TypeOK
<1>1. CASE Begin BY <1>1 DEF Begin
<1>2. CASE Stop BY <1>2 DEF Stop
<1>3. CASE Dump BY <1>3 DEF Dump
<1>4. CASE Copy BY <1>4 DEF Copy
<1>5. CASE Copied BY <1>5 DEF Copied
<1>6. CASE ClearFiles BY <1>6 DEF ClearFiles
<1>7. CASE Fetch BY <1>7 DEF Fetch
<1>8. CASE ResetDatabase BY <1>8 DEF ResetDatabase
<1>9. CASE LoadDatabase BY <1>9 DEF LoadDatabase
<1>10. CASE Start BY <1>10 DEF Start
<1>11. CASE Validated BY <1>11 DEF Validated
<1>12. CASE DeclareNormal
  BY <1>12 DEF DeclareNormal, ServedDataBelongTogether, QuietWhileReplaced
<1>13. CASE Finish BY <1>13 DEF Finish
<1>14. CASE Fail BY <1>14 DEF Fail
<1>15. CASE Crash BY <1>15 DEF Crash
<1>16. CASE Write
  <2>1. last' \in Versions /\ live' \in Data
    BY <1>16 DEF Write
  <2>2. owed' \subseteq Versions
    BY <1>16, <2>1 DEF Write
  <2>3. writes' \in 0..MaxWrites
    BY <1>16 DEF Write
  <2>. QED BY <1>16, <2>1, <2>2, <2>3 DEF Write
<1>17. CASE Archive BY <1>17 DEF Archive
<1>18. CASE UNCHANGED vars BY <1>18 DEF vars
<1>19. CASE TakeOver BY <1>19 DEF TakeOver
<1>20. CASE FullStop BY <1>20 DEF FullStop
<1>21. CASE FullClear BY <1>21 DEF FullClear
<1>22. CASE FullCopy BY <1>22 DEF FullCopy
<1>23. CASE FullReset BY <1>23 DEF FullReset
<1>24. CASE FullLoad BY <1>24 DEF FullLoad
<1>25. CASE FullStart BY <1>25 DEF FullStart
<1>26. CASE FullDeclare
  BY <1>26 DEF FullDeclare, ServedDataBelongTogether
<1>27. CASE FullEnd BY <1>27 DEF FullEnd
<1>. QED
  BY <1>1, <1>2, <1>3, <1>4, <1>5, <1>6, <1>7, <1>8, <1>9, <1>10, <1>11, <1>12,
     <1>13, <1>14, <1>15, <1>16, <1>17, <1>18, <1>19, <1>20, <1>21, <1>22, <1>23,
     <1>24, <1>25, <1>26, <1>27 DEF Next, RunStep, FullStep

\* What the order of the steps guarantees at each of them.
LEMMA OrderNext ==
  ASSUME IInv, [Next]_vars
  PROVE  (ServedDataBelongTogether /\ QuietWhileReplaced /\ SafetyCopyGrows
            /\ ReplacedInOrder)'
<1>. USE DEF IInv, TypeOK, ServedDataBelongTogether, QuietWhileReplaced, SafetyCopyGrows,
             ReplacedInOrder
<1>1. CASE Begin BY <1>1 DEF Begin
<1>2. CASE Stop BY <1>2 DEF Stop
<1>3. CASE Dump BY <1>3 DEF Dump
<1>4. CASE Copy BY <1>4 DEF Copy
<1>5. CASE Copied
  <2>1. safety' = [present |-> safety.present,
                   data |-> [files |-> live.files, database |-> safety.data.database]]
    BY <1>5 DEF Copied
  <2>. QED BY <1>5, <2>1 DEF Copied
<1>6. CASE ClearFiles BY <1>6 DEF ClearFiles
<1>7. CASE Fetch BY <1>7 DEF Fetch
<1>8. CASE ResetDatabase BY <1>8 DEF ResetDatabase
<1>9. CASE LoadDatabase BY <1>9 DEF LoadDatabase
<1>10. CASE Start BY <1>10 DEF Start
<1>11. CASE Validated BY <1>11 DEF Validated
<1>12. CASE DeclareNormal BY <1>12 DEF DeclareNormal
<1>13. CASE Finish BY <1>13 DEF Finish
<1>14. CASE Fail BY <1>14 DEF Fail
<1>15. CASE Crash BY <1>15 DEF Crash
<1>16. CASE Write BY <1>16 DEF Write
<1>17. CASE Archive BY <1>17 DEF Archive
<1>18. CASE UNCHANGED vars BY <1>18 DEF vars
<1>19. CASE TakeOver BY <1>19 DEF TakeOver
<1>20. CASE FullStop BY <1>20 DEF FullStop
<1>21. CASE FullClear BY <1>21 DEF FullClear
<1>22. CASE FullCopy BY <1>22 DEF FullCopy
<1>23. CASE FullReset BY <1>23 DEF FullReset
<1>24. CASE FullLoad BY <1>24 DEF FullLoad
<1>25. CASE FullStart BY <1>25 DEF FullStart
<1>26. CASE FullDeclare BY <1>26 DEF FullDeclare
<1>27. CASE FullEnd BY <1>27 DEF FullEnd
<1>. QED
  BY <1>1, <1>2, <1>3, <1>4, <1>5, <1>6, <1>7, <1>8, <1>9, <1>10, <1>11, <1>12,
     <1>13, <1>14, <1>15, <1>16, <1>17, <1>18, <1>19, <1>20, <1>21, <1>22, <1>23,
     <1>24, <1>25, <1>26, <1>27 DEF Next, RunStep, FullStep

\* Wherever a version that is owed was held, it is still held after the step,
\* unless a full restore has just forsaken it.
LEMMA HeldNext ==
  ASSUME IInv, [Next]_vars
  PROVE  (LostOnlyToFullRestore /\ HeldByCopies)'
<1>. USE DEF IInv, TypeOK, LostOnlyToFullRestore, HeldByCopies, Stores, Saved
<1>1. CASE UNCHANGED <<live, safety, archived, owed, forsaken>>
           /\ (pc' \in Replacing => pc \in Replacing)
  BY <1>1
<1>2. CASE Dump BY <1>2 DEF Dump, SafetyCopyGrows
<1>3. CASE Copy BY <1>3 DEF Copy, SafetyCopyGrows
<1>4. CASE Copied BY <1>4 DEF Copied, SafetyCopyGrows
<1>5. CASE ClearFiles
  <2>1. \A v \in owed \ forsaken : Saved(v)
    BY <1>5 DEF ClearFiles, SafetyCopyGrows
  <2>. QED BY <1>5, <2>1 DEF ClearFiles
<1>6. CASE Fetch \/ FullCopy BY <1>6 DEF Fetch, FullCopy
<1>7. CASE ResetDatabase \/ FullReset BY <1>7 DEF ResetDatabase, FullReset
<1>8. CASE LoadDatabase \/ FullLoad BY <1>8 DEF LoadDatabase, FullLoad
<1>9. CASE DeclareNormal \/ FullDeclare
  BY <1>9 DEF DeclareNormal, FullDeclare, QuietWhileReplaced, ServedDataBelongTogether
<1>10. CASE Write
  <2>1. pc \notin Replacing
    BY <1>10 DEF Write, QuietWhileReplaced
  <2>2. Whole(live') /\ live'.files = last + 1
    BY <1>10 DEF Write
  <2>3. ASSUME NEW v \in owed \ forsaken, v # live.files
        PROVE  Saved(v)
    BY <2>3
  <2>4. LostOnlyToFullRestore'
    BY <1>10, <2>2, <2>3 DEF Write
  <2>. QED BY <1>10, <2>1, <2>4 DEF Write
<1>11. CASE Archive BY <1>11 DEF Archive
<1>12. CASE FullClear
  <2>1. \A v \in owed \ forsaken' : Saved(v)
    BY <1>12 DEF FullClear
  <2>. QED BY <1>12, <2>1 DEF FullClear
<1>. QED
  BY <1>1, <1>2, <1>3, <1>4, <1>5, <1>6, <1>7, <1>8, <1>9, <1>10, <1>11, <1>12
  DEF Next, RunStep, FullStep, Begin, Stop, Start, Validated, Finish, TakeOver, FullStop,
      FullStart, FullEnd, Fail, Crash, vars

\* A full restore is possible only after a kill: every other end of a run writes
\* another mode than "restore".
LEMMA TakenOverNext ==
  ASSUME IInv, [Next]_vars
  PROVE  TakenOverAfterKills'
BY DEF IInv, TypeOK, TakenOverAfterKills, Next, RunStep, FullStep, Begin, Stop, Dump, Copy,
       Copied, ClearFiles, Fetch, ResetDatabase, LoadDatabase, Start, Validated,
       DeclareNormal, Finish, TakeOver, FullStop, FullClear, FullCopy, FullReset, FullLoad,
       FullStart, FullDeclare, FullEnd, Fail, Crash, Write, Archive, vars

LEMMA IInvInit == Init => IInv
BY TypeInit
DEF Init, IInv, LostOnlyToFullRestore, ServedDataBelongTogether, QuietWhileReplaced,
    SafetyCopyGrows, HeldByCopies, ReplacedInOrder, TakenOverAfterKills, Stores

LEMMA IInvNext == IInv /\ [Next]_vars => IInv'
BY TypeNext, OrderNext, HeldNext, TakenOverNext DEF IInv

\* The inductive invariant holds in every reachable state.
THEOREM GiteaInvariance == Spec => []IInv
BY IInvInit, IInvNext, PTL DEF Spec

\* No sequence of failed, killed and repeated Gitea restores loses a version
\* that somebody relied on, except one that a full restore, run by the converge
\* after a kill, found live and in no copy when it cleared the live data.
THEOREM GiteaLosesOnlyToFullRestore == Spec => []LostOnlyToFullRestore
<1>1. IInv => LostOnlyToFullRestore BY DEF IInv
<1>. QED BY <1>1, GiteaInvariance, PTL

\* As long as no run is killed there is no exception: errors at any step of any
\* number of Gitea restores lose no version at all.
THEOREM GiteaErrorsLoseNothing == Spec => []ErrorsLoseNothing
<1>1. IInv => ErrorsLoseNothing
  BY DEF IInv, TypeOK, TakenOverAfterKills, LostOnlyToFullRestore, ErrorsLoseNothing
<1>. QED BY <1>1, GiteaInvariance, PTL

\* Gitea never serves files and a database that do not belong together.
THEOREM GiteaServesWholeData == Spec => []ServedDataBelongTogether
<1>1. IInv => ServedDataBelongTogether BY DEF IInv
<1>. QED BY <1>1, GiteaInvariance, PTL

\* A Gitea restore, or the full one that takes over, writes "normal" only over a Gitea that runs on whole data.
THEOREM GiteaNormalIsWhole == Spec => NormalMeansOneArchive
<1>1. IInv /\ [Next]_vars
        => [mode' = "normal" /\ mode # "normal" => app' = "up" /\ Whole(live')]_vars
  BY DEF IInv, ServedDataBelongTogether, QuietWhileReplaced, Next, RunStep, FullStep, Begin,
         Stop, Dump, Copy, Copied, ClearFiles, Fetch, ResetDatabase, LoadDatabase, Start,
         Validated, DeclareNormal, Finish, TakeOver, FullStop, FullClear, FullCopy, FullReset,
         FullLoad, FullStart, FullDeclare, FullEnd, Fail, Crash, Write, Archive
<1>. QED BY <1>1, GiteaInvariance, PTL DEF Spec, NormalMeansOneArchive

-----------------------------------------------------------------------------
(* The contract of the node.                                               *)

Holder == IF pc \in {"idle", "stop", "full_stop"} THEN "none" ELSE "run"
Damaged == {s \in {"gitea"} : ~Whole(live)}

\* A step that only makes the run go on, or that leaves data, mode and holder
\* alone, stutters.
LEMMA Stutters ==
  ASSUME Holder' = Holder, mode' = mode, Damaged' = Damaged
  PROVE  UNCHANGED Contract!cvars
BY DEF Holder, Damaged, Contract!cvars

\* Only a run takes the data apart and puts them together.
LEMMA Reworks ==
  ASSUME Holder = "run", Holder' = "run", mode' = mode
  PROVE  Contract!CNext
<1>1. Damaged' \in SUBSET {"gitea"} BY DEF Damaged
<1>. QED BY <1>1 DEF Holder, Damaged, Contract!CNext, Contract!Rework

\* What a user writes is whole, and replaces data that are.
LEMMA WriteLeavesWhole ==
  ASSUME IInv, Write
  PROVE  Damaged' = Damaged
<1>1. Whole(live) BY DEF Write, IInv, ServedDataBelongTogether
<1>2. Whole(live') BY DEF Write, Whole, IInv, TypeOK, Versions, Missing
<1>. QED BY <1>1, <1>2 DEF Damaged

LEMMA ContractStep ==
  ASSUME IInv, [Next]_vars
  PROVE  [Contract!CNext]_(Contract!cvars)
<1>1. CASE Begin
  <2>1. Contract!Declare
    BY <1>1 DEF Begin, Contract!Declare
  <2>. QED BY <2>1 DEF Contract!CNext
<1>2. CASE Stop \/ FullStop
  <2>1. Contract!Take("run")
    BY <1>2 DEF Stop, FullStop, Contract!Take
  <2>. QED BY <2>1 DEF Contract!CNext
<1>3. CASE Dump \/ Copy \/ Copied \/ Start \/ Validated \/ TakeOver \/ FullStart
  <2>1. Holder' = Holder /\ mode' = mode /\ Damaged' = Damaged
    BY <1>3 DEF Dump, Copy, Copied, Start, Validated, TakeOver, FullStart, Holder, Damaged
  <2>. QED BY <2>1, Stutters
<1>4. CASE \/ ClearFiles \/ Fetch \/ ResetDatabase \/ LoadDatabase
           \/ FullClear \/ FullCopy \/ FullReset \/ FullLoad
  <2>1. Holder = "run" /\ Holder' = "run" /\ mode' = mode
    BY <1>4 DEF ClearFiles, Fetch, ResetDatabase, LoadDatabase, FullClear, FullCopy, FullReset,
                FullLoad, Holder
  <2>. QED BY <2>1, Reworks
<1>5. CASE DeclareNormal \/ FullDeclare
  <2>1. Whole(live)
    BY <1>5 DEF DeclareNormal, FullDeclare, IInv, QuietWhileReplaced, ServedDataBelongTogether
  <2>2. Contract!Declare
    BY <1>5, <2>1 DEF DeclareNormal, FullDeclare, Contract!Declare
  <2>. QED BY <2>2 DEF Contract!CNext
<1>6. CASE Finish \/ FullEnd
  <2>1. Contract!Leave
    BY <1>6 DEF Finish, FullEnd, Contract!Leave, IInv, TypeOK
  <2>. QED BY <2>1 DEF Contract!CNext
<1>7. CASE Fail
  <2>1. CASE pc \in {"stop", "full_stop"}
    <3>1. Contract!Declare BY <1>7, <2>1 DEF Fail, Contract!Declare
    <3>. QED BY <3>1 DEF Contract!CNext
  <2>2. CASE pc \notin {"stop", "full_stop"}
    <3>1. Contract!Leave BY <1>7, <2>2 DEF Fail, Steps, Contract!Leave
    <3>. QED BY <3>1 DEF Contract!CNext
  <2>. QED BY <2>1, <2>2
<1>8. CASE Crash
  <2>1. CASE pc \in {"stop", "full_stop"}
    <3>1. Holder' = Holder /\ mode' = mode /\ Damaged' = Damaged
      BY <1>8, <2>1 DEF Crash, Holder, Damaged
    <3>. QED BY <3>1, Stutters
  <2>2. CASE pc \notin {"stop", "full_stop"}
    <3>1. Contract!Leave BY <1>8, <2>2 DEF Crash, Steps, Contract!Leave, IInv, TypeOK
    <3>. QED BY <3>1 DEF Contract!CNext
  <2>. QED BY <2>1, <2>2
<1>9. CASE Write
  <2>1. Damaged' = Damaged BY <1>9, WriteLeavesWhole
  <2>2. Holder' = Holder /\ mode' = mode BY <1>9 DEF Write, Holder
  <2>. QED BY <2>1, <2>2, Stutters
<1>10. CASE Archive \/ UNCHANGED vars
  <2>1. Holder' = Holder /\ mode' = mode /\ Damaged' = Damaged
    BY <1>10 DEF Archive, vars, Holder, Damaged
  <2>. QED BY <2>1, Stutters
<1>. QED
  BY <1>1, <1>2, <1>3, <1>4, <1>5, <1>6, <1>7, <1>8, <1>9, <1>10 DEF Next, RunStep, FullStep

\* Gitea restores that fail, are killed and are retried, and the full restores
\* that take over, keep the contract of the node: the mode returns to "normal" only over whole data.
THEOREM GiteaKeepsContract == Spec => ContractSpec
<1>1. Init => Contract!CInit
  BY DEF Init, Contract!CInit, Whole, Missing
<1>2. IInv /\ [Next]_vars => [Contract!CNext]_(Contract!cvars)
  BY ContractStep
<1>. QED BY <1>1, <1>2, GiteaInvariance, PTL DEF Spec, ContractSpec, Contract!CSpec
=============================================================================
