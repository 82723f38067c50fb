--------------------------- MODULE OpenBaoKeysProofs ---------------------------
(***************************************************************************)
(* Proofs about OpenBaoKeys, for any number of key sets, restore runs and  *)
(* kills:                                                                  *)
(*   - no key set that is needed is ever lost, and a node in mode "normal" *)
(*     can open its OpenBao;                                               *)
(*   - what RestoreRunProofs shows of restore runs alone stays true while  *)
(*     converge runs, reboots and the operator handle the node and its     *)
(*     keys in between.                                                    *)
(***************************************************************************)
EXTENDS OpenBaoKeys, RestoreRunProofs

-----------------------------------------------------------------------------
(* How the program of a restore ends.                                      *)

Unsealing == <<"unseal", "openbao">>
Validation == <<"validate", "node">>
Declaration == <<"declare", "node">>
Resumption == <<"resume", "node">>
Last == {Validation, Declaration, Resumption}

LEMMA ConclusionIs == {Conclusion[i] : i \in 1..3} = Last
BY DEF Conclusion, Last, Validation, Declaration, Resumption

LEMMA LastPlaces ==
  ASSUME NEW i \in 1..36
  PROVE  /\ Listing[i] = Unsealing <=> i = 33
         /\ Listing[i] = Validation <=> i = 34
         /\ Listing[i] = Declaration <=> i = 35
         /\ Listing[i] = Resumption <=> i = 36
BY DEF Listing, Unsealing, Validation, Declaration, Resumption

LEMMA ProgramEnds ==
  /\ Len(Program) = 36
  /\ \A i \in 1..36 :
       /\ Program[i] = Unsealing <=> i = 33
       /\ Program[i] = Validation <=> i = 34
       /\ Program[i] = Declaration <=> i = 35
       /\ Program[i] = Resumption <=> i = 36
<1>1. Len(Program) = 36 /\ \A i \in 1..36 : Program[i] = Listing[i]
  BY ProgramIsListed DEF Lists
<1>2. ASSUME NEW i \in 1..36
      PROVE  /\ Program[i] = Unsealing <=> i = 33
             /\ Program[i] = Validation <=> i = 34
             /\ Program[i] = Declaration <=> i = 35
             /\ Program[i] = Resumption <=> i = 36
  <2>1. Program[i] = Listing[i]
    BY <1>1
  <2> QED BY <2>1, LastPlaces, Zenon
<1> QED BY <1>1, <1>2

LEMMA Position ==
  ASSUME at \in 0..Len(Program), at > 0, Program[at] # Resumption
  PROVE  /\ at + 1 \in 1..Len(Program)
         /\ Program[at + 1] \in Last => Program[at] \in {Unsealing, Validation, Declaration}
         /\ Program[at] = Declaration => Program[at + 1] = Resumption
<1>1. at \in 1..36 /\ at # 36
  BY ProgramEnds
<1>2. at + 1 \in 1..36
  BY <1>1
<1>3. Program[at + 1] \in Last => at + 1 \in {34, 35, 36}
  BY <1>2, ProgramEnds DEF Last
<1>4. at + 1 \in {34, 35, 36} => at \in {33, 34, 35}
  BY <1>1
<1> QED BY <1>1, <1>2, <1>3, <1>4, ProgramEnds

-----------------------------------------------------------------------------
(* The inductive invariant.                                                *)

LEMMA KeysInitState == KeysInit => KeysInv
<1> SUFFICES ASSUME KeysInit PROVE KeysInv
  OBVIOUS
<1>1. at = 0 /\ role = "idle" /\ made = 1 /\ served = {1} /\ points = {1}
      /\ keys \in {Blank, 1} /\ secrets \in {Blank, 1} /\ open \in BOOLEAN
  BY DEF KeysInit, Init
<1>2. KeysTypeOK
  BY <1>1, SomeKeySet DEF KeysInit, KeysTypeOK, KeySets, Files, Blank
<1>3. KeysKept /\ InitKeepsOld /\ OneOfThem
  BY <1>1 DEF KeysInit, KeysKept, InitKeepsOld, OneOfThem, Blank
<1>4. OpenedBefore
  BY <1>1 DEF KeysInit, Init, OpenedBefore, Blank
<1>5. at \in 0..Len(Program)
  BY <1>1, ProgramEnds
<1>6. BlankHasNoKeys
  BY DEF KeysInit, Init, BlankHasNoKeys, Blank
<1> QED BY <1>2, <1>3, <1>4, <1>5, <1>6 DEF KeysInv

\* The restore run goes on, with the mode and the keys as they should be.
LEMMA AdvanceKeepsOpened ==
  ASSUME KeysInv, at > 0, Program[at] # Resumption, at' = at + 1, secrets' = secrets,
         mode' = IF Program[at] = Declaration THEN "normal" ELSE mode,
         Program[at] = Unsealing => secrets = keys',
         Program[at] \in Last => keys' = keys
  PROVE  at' \in 0..Len(Program) /\ OpenedBefore'
<1>1. at \in 0..Len(Program) /\ OpenedBefore
  BY DEF KeysInv
<1>2. at' \in 1..Len(Program)
  BY <1>1, Position
<1>3. Program[at'] \in Last => secrets' = keys'
  BY <1>1, Position, ConclusionIs DEF OpenedBefore, Last
<1>4. mode = "restore" /\ (Program[at'] # Resumption => mode' = "restore")
  BY <1>1, Position DEF OpenedBefore, Resumption
<1>5. mode' \in {"init", "normal"} => secrets' = keys'
  BY <1>1, <1>4, ConclusionIs DEF OpenedBefore, Last
<1> QED BY <1>2, <1>3, <1>4, <1>5, ConclusionIs DEF OpenedBefore, Resumption

LEMMA RestoreStepKeepsInv == KeysInv /\ RestoreStep => KeysInv'
<1> SUFFICES ASSUME KeysInv, RestoreStep PROVE KeysInv'
  OBVIOUS
<1>1. KeysTypeOK' /\ OneOfThem' /\ KeysKept' /\ InitKeepsOld'
  BY DEF RestoreStep, stored, KeysInv, KeysTypeOK, OneOfThem, KeysKept, InitKeepsOld
<1>2. keys' = keys /\ secrets' = secrets /\ served' = served
  BY DEF RestoreStep, stored
<1>3. vault' = vault => BlankHasNoKeys'
  BY <1>2 DEF KeysInv, BlankHasNoKeys
<1>4. CASE Begin
  <2>1. Program[1] \notin Last /\ 1 \in 0..Len(Program)
    BY ProgramEnds DEF Last
  <2>2. at' = 1 /\ mode' = "restore" /\ vault' = vault
    BY <1>4 DEF Begin, data
  <2>3. at' \in 0..Len(Program)
    BY <2>1, <2>2
  <2>4. OpenedBefore'
    BY <2>1, <2>2, ConclusionIs DEF OpenedBefore
  <2> QED BY <1>1, <1>3, <2>2, <2>3, <2>4 DEF KeysInv
<1>5. ASSUME at' = 0, mode' \in {"init", "normal"} => mode' = mode, vault' = vault
      PROVE  KeysInv'
  BY <1>1, <1>2, <1>3, <1>5, ProgramEnds DEF KeysInv, OpenedBefore
<1>6. CASE PlainOperation
  <2>1. Operation /\ at > 0 /\ Program[at] # Unsealing /\ vault' = vault
    BY <1>6, OperationMoves DEF PlainOperation, At, Unsealing, OpenVault, ImportSnapshot
  <2>2. \/ Program[at] = Resumption /\ at' = 0 /\ mode' = mode
        \/ /\ Program[at] # Resumption /\ at' = at + 1
           /\ mode' = IF Program[at] = Declaration THEN "normal" ELSE mode
    BY <2>1, OperationMoves
       DEF Finish, DeclareNormal, At, Advance, Declaration, Resumption
  <2>3. CASE Program[at] = Resumption
    BY <1>5, <2>1, <2>2, <2>3
  <2>4. CASE Program[at] # Resumption
    BY <1>1, <1>2, <1>3, <2>1, <2>2, <2>4, AdvanceKeepsOpened DEF KeysInv
  <2> QED BY <2>2, <2>3, <2>4
<1>7. CASE Fail \/ Crash
  BY <1>5, <1>7 DEF Fail, Crash, data
<1> QED BY <1>4, <1>6, <1>7 DEF RestoreStep

LEMMA VaultStepKeepsInv ==
  KeysInv /\ (OpenInitialised \/ Bootstrap \/ ImportStorage \/ UnsealRestored) => KeysInv'
<1> SUFFICES ASSUME KeysInv, OpenInitialised \/ Bootstrap \/ ImportStorage \/ UnsealRestored
             PROVE  KeysInv'
  OBVIOUS
<1>1. /\ at > 0 /\ at' = at + 1 /\ mode' = mode /\ secrets' = secrets /\ kept' = kept
      /\ role' = role /\ points' = points
      /\ Program[at] \in {<<"open", "openbao">>, <<"snapshot", "openbao">>, Unsealing}
      /\ Program[at] = Unsealing => secrets = keys /\ keys' = keys
  BY DEF OpenInitialised, Bootstrap, ImportStorage, UnsealRestored, OpenVault, ImportSnapshot,
         UnsealVault, At, Advance, Unsealing, stored
<1>2. role = "idle" /\ KeysTypeOK /\ BlankHasNoKeys /\ KeysKept /\ InitKeepsOld
  BY <1>1 DEF KeysInv, OneOfThem
<1>3. Program[at] \notin Last
  BY <1>1 DEF Last, Unsealing, Validation, Declaration, Resumption
<1>4. at' \in 0..Len(Program) /\ OpenedBefore'
  BY <1>1, <1>3, AdvanceKeepsOpened DEF Last
<1>5. OneOfThem'
  BY <1>1, <1>2 DEF OneOfThem
<1>6. CASE OpenInitialised \/ UnsealRestored
  <2>1. /\ served' = served \cup {keys} /\ secrets = keys /\ made' = made /\ keys' = keys
        /\ open' = TRUE /\ vault # "blank" /\ vault' = vault
    BY <1>6 DEF OpenInitialised, UnsealRestored, OpenVault, UnsealVault, data
  <2>2. keys \in KeySets
    BY <1>2, <2>1 DEF KeysTypeOK, BlankHasNoKeys
  <2>3. KeysTypeOK' /\ BlankHasNoKeys' /\ KeysKept'
    BY <1>1, <1>2, <2>1, <2>2 DEF KeysTypeOK, BlankHasNoKeys, KeysKept
  <2>4. InitKeepsOld'
    BY <1>1, <1>2, <2>1, <2>2 DEF KeysTypeOK, InitKeepsOld, KeySets
  <2> QED BY <1>4, <1>5, <2>3, <2>4 DEF KeysInv
<1>7. CASE Bootstrap
  <2>1. /\ made < MaxKeySets /\ made' = made + 1 /\ keys' = made + 1 /\ open' = TRUE
        /\ served' = served /\ vault' = "temporary"
    BY <1>7 DEF Bootstrap, OpenVault
  <2>2. made + 1 \in KeySets /\ made \in Nat /\ made + 1 # Blank
    BY <1>2, <2>1, SomeKeySet DEF KeysTypeOK, KeySets, Blank
  <2>3. KeysTypeOK' /\ BlankHasNoKeys' /\ KeysKept'
    BY <1>1, <1>2, <2>1, <2>2 DEF KeysTypeOK, BlankHasNoKeys, KeysKept
  <2>4. InitKeepsOld'
    BY <1>1, <1>2, <2>1, <2>2 DEF InitKeepsOld
  <2> QED BY <1>4, <1>5, <2>3, <2>4 DEF KeysInv
<1>8. CASE ImportStorage
  <2>1. keys' \in points /\ open' = FALSE /\ served' = served /\ made' = made /\ vault' = "new"
    BY <1>8 DEF ImportStorage, ImportSnapshot, stored
  <2>2. keys' \in KeySets /\ keys' # Blank
    BY <1>2, <2>1 DEF KeysTypeOK, KeySets, Blank
  <2>3. KeysTypeOK' /\ BlankHasNoKeys' /\ KeysKept'
    BY <1>1, <1>2, <2>1, <2>2 DEF KeysTypeOK, BlankHasNoKeys, KeysKept
  <2>4. InitKeepsOld'
    BY <1>1, <1>2, <2>1 DEF InitKeepsOld
  <2> QED BY <1>4, <1>5, <2>3, <2>4 DEF KeysInv
<1> QED BY <1>6, <1>7, <1>8

\* Steps while no restore runs.
LEMMA WithoutRestore ==
  ASSUME KeysInv, at' = 0, KeysTypeOK', BlankHasNoKeys', KeysKept', InitKeepsOld',
         mode' \in {"init", "normal"} /\ keys' \in served' => secrets' = keys'
  PROVE  KeysInv'
BY ProgramEnds DEF KeysInv, OneOfThem, OpenedBefore

\* The role goes on or ends without a change of the keys.
LEMMA RoleKeepsInv ==
  ASSUME KeysInv, at = 0, at' = 0, mode' = mode, vault' = vault, open' \in BOOLEAN,
         UNCHANGED <<keys, kept, made, served, points>>,
         secrets' = secrets \/ (role = "write" /\ secrets' = Torn),
         role' \in {"idle", "look", "init", "unseal"}
  PROVE  KeysInv'
<1>1. KeysTypeOK /\ BlankHasNoKeys /\ KeysKept /\ InitKeepsOld /\ OpenedBefore
  BY DEF KeysInv
<1>2. KeysTypeOK' /\ BlankHasNoKeys' /\ InitKeepsOld'
  BY <1>1 DEF KeysTypeOK, Files, BlankHasNoKeys, InitKeepsOld
<1>3. CASE secrets' = secrets
  <2>1. KeysKept' /\ (mode' \in {"init", "normal"} /\ keys' \in served' => secrets' = keys')
    BY <1>1, <1>3 DEF KeysKept, OpenedBefore
  <2> QED BY <1>2, <2>1, WithoutRestore
<1>4. CASE role = "write"
  <2>1. keys \notin served /\ secrets \in kept \cup {Blank} /\ Blank \notin served \cup points
    BY <1>1, <1>4 DEF InitKeepsOld, KeysTypeOK, KeySets, Blank
  <2>2. KeysKept'
    BY <1>1, <2>1 DEF KeysKept
  <2> QED BY <1>2, <2>1, <2>2, WithoutRestore
<1> QED BY <1>3, <1>4

LEMMA ConvergeStepKeepsInv == KeysInv /\ ConvergeStep => KeysInv'
<1> SUFFICES ASSUME KeysInv, ConvergeStep PROVE KeysInv'
  OBVIOUS
<1>0. KeysTypeOK /\ BlankHasNoKeys /\ KeysKept /\ InitKeepsOld /\ OpenedBefore /\ OneOfThem
  BY DEF KeysInv
<1>1. CASE StartContainer
  BY <1>0, <1>1, RoleKeepsInv DEF StartContainer, KeysTypeOK, stored, data
<1>2. CASE LookAtStatus
  BY <1>0, <1>2, RoleKeepsInv
     DEF LookAtStatus, RoleGoesOn, OneOfThem, KeysTypeOK, stored, vars
<1>3. CASE OperatorInit
  <2>1. /\ role = "init" /\ at = 0 /\ at' = 0 /\ mode' = mode
        /\ made < MaxKeySets /\ made' = made + 1 /\ keys' = made + 1 /\ vault' = "old"
        /\ role' = IF secrets = Blank THEN "write" ELSE "copy"
        /\ UNCHANGED <<open, secrets, kept, served, points>>
    BY <1>0, <1>3 DEF OperatorInit, OneOfThem
  <2>2. made + 1 \in KeySets /\ made \in Nat /\ made + 1 # Blank
    BY <1>0, <2>1, SomeKeySet DEF KeysTypeOK, KeySets, Blank
  <2>3. made + 1 \notin served \cup points
    BY <1>0, <2>2 DEF InitKeepsOld
  <2>4. KeysTypeOK' /\ BlankHasNoKeys' /\ KeysKept'
    BY <1>0, <2>1, <2>2 DEF KeysTypeOK, BlankHasNoKeys, KeysKept
  <2>5. InitKeepsOld'
    BY <1>0, <2>1, <2>2, <2>3 DEF InitKeepsOld
  <2> QED BY <2>1, <2>3, <2>4, <2>5, WithoutRestore
<1>4. CASE CopySecrets
  <2>1. /\ role = "copy" /\ role' = "write" /\ at = 0 /\ at' = 0 /\ mode' = mode
        /\ vault' = vault /\ kept' = kept \cup {secrets}
        /\ UNCHANGED <<keys, open, secrets, made, served, points>>
    BY <1>0, <1>4 DEF CopySecrets, RoleGoesOn, OneOfThem, vars
  <2>2. KeysTypeOK' /\ BlankHasNoKeys' /\ KeysKept' /\ InitKeepsOld'
    BY <1>0, <2>1 DEF KeysTypeOK, BlankHasNoKeys, KeysKept, InitKeepsOld
  <2> QED BY <1>0, <2>1, <2>2, WithoutRestore DEF OpenedBefore
<1>5. CASE WriteSecrets
  <2>1. /\ role = "write" /\ role' = "unseal" /\ at = 0 /\ at' = 0 /\ mode' = mode
        /\ vault' = vault /\ secrets' = keys
        /\ UNCHANGED <<keys, open, kept, made, served, points>>
    BY <1>0, <1>5 DEF WriteSecrets, RoleGoesOn, OneOfThem, vars
  <2>2. secrets \in kept \cup {Blank} /\ Blank \notin served \cup points
    BY <1>0, <2>1 DEF InitKeepsOld, KeysTypeOK, KeySets, Blank
  <2>3. KeysTypeOK' /\ BlankHasNoKeys' /\ KeysKept' /\ InitKeepsOld'
    BY <1>0, <2>1, <2>2 DEF KeysTypeOK, Files, BlankHasNoKeys, KeysKept, InitKeepsOld
  <2> QED BY <2>1, <2>3, WithoutRestore
<1>6. CASE Unseal
  <2>1. /\ role' = "idle" /\ at = 0 /\ at' = 0 /\ mode' = mode /\ vault' = vault
        /\ UNCHANGED <<keys, secrets, kept, made, points>>
    BY <1>0, <1>6 DEF Unseal, RoleGoesOn, OneOfThem, vars
  <2>2. CASE UNCHANGED <<open, served>>
    BY <1>0, <2>1, <2>2, RoleKeepsInv DEF KeysTypeOK
  <2>3. CASE vault # "blank" /\ secrets = keys /\ open' = TRUE /\ served' = served \cup {keys}
    <3>1. keys \in KeySets
      BY <1>0, <2>3 DEF KeysTypeOK, BlankHasNoKeys
    <3>2. KeysTypeOK' /\ BlankHasNoKeys' /\ KeysKept'
      BY <1>0, <2>1, <2>3, <3>1 DEF KeysTypeOK, BlankHasNoKeys, KeysKept
    <3>3. InitKeepsOld'
      BY <1>0, <2>1, <2>3, <3>1 DEF InitKeepsOld, KeysTypeOK, KeySets
    <3> QED BY <2>1, <2>3, <3>2, <3>3, WithoutRestore
  <2> QED BY <1>6, <2>2, <2>3 DEF Unseal
<1>7. CASE RoleEnds
  BY <1>0, <1>7, RoleKeepsInv DEF RoleEnds, RoleGoesOn, OneOfThem, KeysTypeOK, vars
<1> QED BY <1>1, <1>2, <1>3, <1>4, <1>5, <1>6, <1>7 DEF ConvergeStep

LEMMA EnvironmentKeepsInv ==
  KeysInv /\ (Snapshot \/ Reboot \/ SetMode \/ PutBackSecrets \/ StartOver) => KeysInv'
<1> SUFFICES ASSUME KeysInv, Snapshot \/ Reboot \/ SetMode \/ PutBackSecrets \/ StartOver
             PROVE  KeysInv'
  OBVIOUS
<1>0. KeysTypeOK /\ BlankHasNoKeys /\ KeysKept /\ InitKeepsOld /\ OpenedBefore /\ OneOfThem
  BY DEF KeysInv
<1>1. CASE Snapshot
  <2>1. /\ at = 0 /\ at' = 0 /\ mode' = mode /\ vault' = vault /\ keys \in served
        /\ points' = points \cup {keys}
        /\ UNCHANGED <<role, keys, open, secrets, kept, made, served>>
    BY <1>1 DEF Snapshot, vars
  <2>2. KeysTypeOK' /\ BlankHasNoKeys' /\ KeysKept' /\ InitKeepsOld'
    BY <1>0, <2>1 DEF KeysTypeOK, BlankHasNoKeys, KeysKept, InitKeepsOld
  <2> QED BY <1>0, <2>1, <2>2, WithoutRestore DEF OpenedBefore
<1>2. CASE Reboot
  <2>1. /\ at' = 0 /\ role' = "idle" /\ mode' = mode /\ vault' = vault /\ open' = FALSE
        /\ UNCHANGED <<keys, kept, made, served, points>>
        /\ secrets' = secrets \/ (role = "write" /\ secrets' = Torn)
    BY <1>2 DEF Reboot, data
  <2>2. CASE at = 0
    BY <2>1, <2>2, RoleKeepsInv
  <2>3. CASE at # 0
    <3>1. secrets' = secrets
      BY <1>0, <2>1, <2>3 DEF OneOfThem
    <3>2. KeysTypeOK' /\ BlankHasNoKeys' /\ KeysKept' /\ InitKeepsOld'
      BY <1>0, <2>1, <3>1 DEF KeysTypeOK, BlankHasNoKeys, KeysKept, InitKeepsOld
    <3> QED BY <1>0, <2>1, <3>1, <3>2, WithoutRestore DEF OpenedBefore
  <2> QED BY <2>2, <2>3
<1>3. CASE SetMode
  <2>1. /\ at = 0 /\ at' = 0 /\ vault' = vault
        /\ mode' = "restore" \/ (mode = "init" /\ mode' = "normal")
        /\ UNCHANGED <<role, keys, open, secrets, kept, made, served, points>>
    BY <1>3 DEF SetMode, OperatorAsks, keyVars, stored, data
  <2>2. KeysTypeOK' /\ BlankHasNoKeys' /\ KeysKept' /\ InitKeepsOld'
    BY <1>0, <2>1 DEF KeysTypeOK, BlankHasNoKeys, KeysKept, InitKeepsOld
  <2> QED BY <1>0, <2>1, <2>2, WithoutRestore DEF OpenedBefore
<1>4. CASE PutBackSecrets
  <2>1. /\ at = 0 /\ role = "idle" /\ at' = 0 /\ vault' = vault /\ mode' = mode
        /\ mode \in {"restore", "restore_failed"}
        /\ secrets' \in kept \cap KeySets /\ kept' = kept \cup ({secrets} \ {Blank})
        /\ UNCHANGED <<role, keys, open, made, served, points>>
    BY <1>4 DEF PutBackSecrets, Quiet, vars
  <2>2. Blank \notin served \cup points
    BY <1>0 DEF KeysTypeOK, KeySets, Blank
  <2>3. KeysTypeOK' /\ BlankHasNoKeys' /\ KeysKept' /\ InitKeepsOld'
    BY <1>0, <2>1, <2>2 DEF KeysTypeOK, Files, BlankHasNoKeys, KeysKept, InitKeepsOld
  <2> QED BY <2>1, <2>3, WithoutRestore
<1>5. CASE StartOver
  <2>1. /\ at' = 0 /\ role = "idle" /\ vault' = "blank" /\ keys' = Blank /\ open' = FALSE
        /\ UNCHANGED <<role, secrets, kept, made, served, points>>
    BY <1>5 DEF StartOver, Quiet, stored
  <2>2. Blank \notin served /\ Blank \in 0..made
    BY <1>0 DEF KeysTypeOK, KeySets, Blank
  <2>3. KeysTypeOK' /\ BlankHasNoKeys' /\ KeysKept' /\ InitKeepsOld'
    BY <1>0, <2>1, <2>2 DEF KeysTypeOK, BlankHasNoKeys, KeysKept, InitKeepsOld
  <2> QED BY <2>1, <2>2, <2>3, WithoutRestore
<1> QED BY <1>1, <1>2, <1>3, <1>4, <1>5

LEMMA KeysStepKeepsInv ==
  ASSUME KeysInv, [KeysNext]_allVars
  PROVE  KeysInv'
<1>1. KeysInv /\ UNCHANGED allVars => KeysInv'
  BY DEF allVars, keyVars, stored, vars, KeysInv, KeysTypeOK, BlankHasNoKeys, OneOfThem,
         KeysKept, InitKeepsOld, OpenedBefore
<1> QED BY <1>1, RestoreStepKeepsInv, VaultStepKeepsInv, ConvergeStepKeepsInv,
           EnvironmentKeepsInv DEF KeysNext

\* The inductive invariant of the keys and of those who handle them.
THEOREM KeysInvariance == KeysSpec => []KeysInv
<1>1. KeysInit => KeysInv
  BY KeysInitState
<1>2. KeysInv /\ [KeysNext]_allVars => KeysInv'
  BY KeysStepKeepsInv
<1> QED BY <1>1, <1>2, PTL DEF KeysSpec

\* The keys of every storage that has been in use and of every snapshot are kept,
\* for any number of initialisations, restores, failures and kills.
THEOREM NoKeysAreLost == KeysSpec => []KeysKept
<1>1. KeysInv => KeysKept
  BY DEF KeysInv
<1> QED BY <1>1, KeysInvariance, PTL

\* In mode "normal" the secrets file opens the vault in use.
THEOREM NormalOpens == KeysSpec => []NormalIsOpenable
<1>1. KeysInv => NormalIsOpenable
  BY DEF KeysInv, OpenedBefore, NormalIsOpenable
<1> QED BY <1>1, KeysInvariance, PTL
-----------------------------------------------------------------------------
(* The restore runs, next to all that handles the keys.                    *)

\* What the role, a reboot and the operator do to the node that a restore works
\* on, and that no restore runs then.
LEMMA BesideTheRestore ==
  ASSUME KeysInv, RunInv,
         ConvergeStep \/ Snapshot \/ Reboot \/ SetMode \/ PutBackSecrets \/ StartOver
  PROVE  \/ UNCHANGED vars
         \/ OperatorAsks
         \/ /\ at' = 0 /\ UNCHANGED <<files, database, readOnly>>
            /\ app' = app \/ \E state \in {"up", "down"} : app' = [app EXCEPT !["openbao"] = state]
            /\ runs' = runs /\ crashes' \in 0..MaxCrashes
            /\ \/ mode' = mode /\ vault' = vault
               \/ at = 0 /\ mode' = mode /\ vault = "blank" /\ vault' = "old"
               \/ at = 0 /\ mode = "init" /\ mode' = "normal" /\ vault' = vault
               \/ at = 0 /\ mode' = "init" /\ (\A s \in Stacks : Whole(s)) /\ vault' = "blank"
<1>0. OneOfThem /\ crashes \in 0..MaxCrashes
  BY DEF KeysInv, RunInv, TypeOK
<1>1. CASE \/ LookAtStatus \/ CopySecrets \/ WriteSecrets \/ Unseal \/ RoleEnds
           \/ Snapshot \/ PutBackSecrets
  BY <1>1 DEF LookAtStatus, CopySecrets, WriteSecrets, Unseal, RoleEnds, Snapshot, PutBackSecrets,
              RoleGoesOn
<1>2. CASE StartContainer
  BY <1>0, <1>2 DEF StartContainer, data, limits
<1>3. CASE OperatorInit
  BY <1>0, <1>3 DEF OperatorInit, OneOfThem, limits
<1>4. CASE Reboot
  <2>1. crashes' \in 0..MaxCrashes
    BY <1>0, <1>4, RestoreBounds DEF Reboot
  <2> QED BY <1>4, <2>1 DEF Reboot, data
<1>5. CASE SetMode
  BY <1>0, <1>5 DEF SetMode, data, limits
<1>6. CASE StartOver
  BY <1>0, <1>6 DEF StartOver, Quiet, limits
<1> QED BY <1>1, <1>2, <1>3, <1>4, <1>5, <1>6 DEF ConvergeStep

\* The steps of the restore are those of RestoreRun.
LEMMA RestoreMoves ==
  ASSUME RestoreStep \/ OpenInitialised \/ Bootstrap \/ ImportStorage \/ UnsealRestored
  PROVE  Next
BY DEF RestoreStep, PlainOperation, OpenInitialised, Bootstrap, ImportStorage, UnsealRestored,
       Operation, Next

LEMMA KeysStepKeepsRunInv ==
  ASSUME KeysInv, RunInv, KeysNext
  PROVE  RunInv'
<1>1. CASE RestoreStep \/ OpenInitialised \/ Bootstrap \/ ImportStorage \/ UnsealRestored
  BY <1>1, RestoreMoves, OperationKeepsInv, OtherStepKeepsInv DEF Next
<1>2. CASE ConvergeStep \/ Snapshot \/ Reboot \/ SetMode \/ PutBackSecrets \/ StartOver
  <2>1. CASE UNCHANGED vars
    BY <2>1, StutterKeepsInv
  <2>2. CASE OperatorAsks
    BY <2>2, OtherStepKeepsInv
  <2>3. CASE /\ at' = 0 /\ UNCHANGED <<files, database, readOnly>>
             /\ app' = app \/ \E state \in {"up", "down"} : app' = [app EXCEPT !["openbao"] = state]
             /\ runs' = runs /\ crashes' \in 0..MaxCrashes
             /\ mode' \in {mode, "normal", "init"} /\ vault' \in {vault, "old", "blank"}
    <3>1. TypeOK
      BY DEF RunInv
    <3>2. /\ app' \in [Stacks -> {"down", "database", "up"}]
          /\ \A s \in WithDatabase : app'[s] = app[s]
      BY <2>3, <3>1 DEF TypeOK, Stacks, WithDatabase
    <3>3. /\ mode' \in Modes /\ vault' \in {"blank", "old", "temporary", "new"}
          /\ runs' \in 0..MaxRuns
      BY <2>3, <3>1 DEF TypeOK, Modes
    <3> QED BY <2>3, <3>2, <3>3, AtRest
  <2> QED BY <1>2, <2>1, <2>2, <2>3, BesideTheRestore
<1> QED BY <1>1, <1>2 DEF KeysNext

LEMMA SetUpKeepsWhole ==
  ASSUME KeysInv, RunInv, SetUpIsWhole, KeysNext
  PROVE  SetUpIsWhole'
<1> SUFFICES ASSUME mode' = "init" PROVE \A s \in Stacks : Whole(s)'
  BY DEF SetUpIsWhole
<1>1. at \in 0..Len(Program) /\ RestoringUntilDeclared
  BY DEF RunInv, TypeOK
<1>2. ~Next
  <2>1. at > 0 => mode # "init"
    BY <1>1 DEF RestoringUntilDeclared
  <2>2. CASE Begin \/ Fail \/ Crash \/ OperatorAsks
    BY <2>1, <2>2 DEF Begin, Fail, Crash, OperatorAsks
  <2>3. CASE Operation
    BY <2>1, <2>3, OperationMoves DEF DeclareNormal, Finish
  <2> QED BY <2>2, <2>3 DEF Next
<1>3. ConvergeStep \/ Snapshot \/ Reboot \/ SetMode \/ PutBackSecrets \/ StartOver
  BY <1>2, RestoreMoves DEF KeysNext
<1>4. \A s \in Stacks : Whole(s)
  <2>1. mode = "init" \/ \A s \in Stacks : Whole(s)
    BY <1>2, <1>3, BesideTheRestore DEF vars, OperatorAsks
  <2> QED BY <2>1 DEF SetUpIsWhole
<1>5. UNCHANGED <<files, database>> /\ vault' \in {vault, "old", "blank"}
  BY <1>3, BesideTheRestore DEF vars, OperatorAsks, data
<1>6. Whole("openbao")'
  BY <1>4, <1>5 DEF Whole, Stacks
<1>7. \A s \in WithDatabase : Whole(s)'
  BY <1>4, <1>5, SameData DEF Stacks, WithDatabase
<1> QED BY <1>6, <1>7 DEF Stacks, WithDatabase

NodeInv == KeysInv /\ RunInv /\ SetUpIsWhole

\* The invariants of the keys and of the restore runs, together: no converge run,
\* reboot or operator disturbs what a restore relies on, and a node that is being
\* set up has nothing half-done.
THEOREM NodeInvariance == KeysSpec => []NodeInv
<1>1. KeysInit => NodeInv
  <2> SUFFICES ASSUME KeysInit PROVE NodeInv
    OBVIOUS
  <2>1. KeysInv /\ RunInv
    BY KeysInitState, RunInitState DEF KeysInit
  <2>2. \A s \in Stacks : Whole(s)
    BY InitIsWhole DEF KeysInit
  <2> QED BY <2>1, <2>2 DEF NodeInv, SetUpIsWhole
<1>2. NodeInv /\ [KeysNext]_allVars => NodeInv'
  <2> SUFFICES ASSUME NodeInv, [KeysNext]_allVars PROVE NodeInv'
    OBVIOUS
  <2>1. KeysInv'
    BY KeysStepKeepsInv DEF NodeInv
  <2>2. CASE KeysNext
    BY <2>1, <2>2, KeysStepKeepsRunInv, SetUpKeepsWhole DEF NodeInv
  <2>3. CASE UNCHANGED allVars
    <3>1. UNCHANGED vars /\ UNCHANGED data /\ mode' = mode
      BY <2>3 DEF allVars, vars, data
    <3>2. RunInv'
      BY <3>1, StutterKeepsInv DEF NodeInv
    <3>3. SetUpIsWhole'
      BY <3>1, SameWhole DEF NodeInv, SetUpIsWhole
    <3> QED BY <2>1, <3>2, <3>3 DEF NodeInv
  <2> QED BY <2>2, <2>3
<1> QED BY <1>1, <1>2, PTL DEF KeysSpec

\* No application runs on files and a database that do not belong together, also
\* where converge runs, reboots and the operator come between the restores.
THEOREM NodeServesWholeData == KeysSpec => []NoServiceOnHalfData
<1>1. NodeInv => NoServiceOnHalfData
  BY DEF NodeInv, RunInv
<1> QED BY <1>1, NodeInvariance, PTL

\* A restore ends in "normal" only with every stack running on the restored data.
THEOREM NodeEndsRestored == KeysSpec => NormalMeansRestored
<1>1. ASSUME NodeInv, [KeysNext]_allVars, mode' = "normal", mode \in {"restore", "restore_failed"}
      PROVE  /\ \A s \in Stacks : app[s] = "up"
             /\ \A s \in WithDatabase : HalvesOf(s) = {"new"}
             /\ vault = "new" /\ ~readOnly
  <2>1. KeysNext
    BY <1>1 DEF allVars, vars
  <2>2. ~(ConvergeStep \/ Snapshot \/ Reboot \/ SetMode \/ PutBackSecrets \/ StartOver)
    BY <1>1, BesideTheRestore DEF NodeInv, vars, OperatorAsks
  <2>3. Next
    BY <2>1, <2>2, RestoreMoves DEF KeysNext
  <2> QED BY <1>1, <2>3, OnlyDeclare, DeclaredIsRestored DEF NodeInv
<1> QED BY <1>1, NodeInvariance, PTL DEF KeysSpec, NormalMeansRestored

LEMMA NodeContractStep ==
  ASSUME NodeInv, [KeysNext]_allVars
  PROVE  ContractMoves
<1>0. KeysInv /\ RunInv /\ SetUpIsWhole
  BY DEF NodeInv
<1>1. CASE UNCHANGED allVars
  BY <1>0, <1>1, ContractStep DEF allVars
<1>2. CASE RestoreStep \/ OpenInitialised \/ Bootstrap \/ ImportStorage \/ UnsealRestored
  BY <1>0, <1>2, RestoreMoves, ContractStep
<1>3. CASE ConvergeStep \/ Snapshot \/ Reboot \/ SetMode \/ PutBackSecrets \/ StartOver
  <2>1. CASE UNCHANGED vars \/ OperatorAsks
    BY <1>0, <2>1, ContractStep DEF Next
  <2>2. CASE ~(UNCHANGED vars \/ OperatorAsks)
    <3>1. /\ at' = 0 /\ UNCHANGED <<files, database>>
          /\ \/ mode' = mode /\ vault' = vault
             \/ at = 0 /\ mode' = mode /\ vault = "blank" /\ vault' = "old"
             \/ at = 0 /\ mode = "init" /\ mode' = "normal" /\ vault' = vault
             \/ at = 0 /\ mode' = "init" /\ (\A s \in Stacks : Whole(s)) /\ vault' = "blank"
      BY <1>0, <1>3, <2>2, BesideTheRestore
    <3>2. mode \in Modes /\ mode' \in Modes /\ at \in 0..Len(Program)
      BY <1>0, <3>1 DEF RunInv, TypeOK, Modes
    <3>3. \A s \in WithDatabase : Whole(s)' <=> Whole(s)
      BY <3>1, SameData
    <3>4. Whole("openbao")' <=> Whole("openbao")
      BY <3>1 DEF Whole, Stacks
    <3>5. {s \in Stacks : ~Whole(s)}' = {s \in Stacks : ~Whole(s)}
      BY <3>3, <3>4 DEF Stacks, WithDatabase
    <3>6. mode = "init" => \A s \in Stacks : Whole(s)
      BY <1>0 DEF SetUpIsWhole
    <3>7. CASE at = 0
      BY <3>1, <3>2, <3>5, <3>6, <3>7, ContractDeclares
    <3>8. CASE at > 0
      BY <3>1, <3>2, <3>5, <3>8, ContractLeaves
    <3> QED BY <3>2, <3>7, <3>8, ProgramEnds
  <2> QED BY <2>1, <2>2
<1> QED BY <1>1, <1>2, <1>3 DEF KeysNext

\* The restore runs keep the contract of the lock and the mode file, in the
\* company of all that handles the keys.
THEOREM NodeKeepsContract == KeysSpec => ContractSpec
<1>1. KeysInit => Contract!CInit
  BY ContractInitState DEF KeysInit
<1>2. NodeInv /\ [KeysNext]_allVars => [Contract!CNext]_(Contract!cvars)
  BY NodeContractStep DEF ContractMoves
<1> QED BY <1>1, <1>2, NodeInvariance, PTL DEF KeysSpec, ContractSpec, Contract!CSpec
=============================================================================
