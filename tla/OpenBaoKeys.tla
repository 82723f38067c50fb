------------------------------ MODULE OpenBaoKeys ------------------------------
(***************************************************************************)
(* The keys of OpenBao, next to the restore runs of RestoreRun.  OpenBao's *)
(* storage is sealed with a key set of its own; the program keeps one key  *)
(* set, encrypted, in openbao-unseal.sops.yaml (the secrets file).  A      *)
(* converge run in mode "init" initialises a blank OpenBao and writes the  *)
(* file (internal/openbao/openbao.go, InitIfNeeded), every converge run    *)
(* unseals OpenBao with it (Unseal), and a restore unseals with it before  *)
(* and after it replaces the storage (restore.go, restoreOpenBao).         *)
(*                                                                         *)
(* The operation lock keeps converge and restore apart (see AdminNode).    *)
(* The operator puts back a key set that was kept elsewhere while the node *)
(* is to be restored, and may start over with empty storage.               *)
(***************************************************************************)
EXTENDS RestoreRun

CONSTANT MaxKeySets   \* bound: key sets made in a behaviour

ASSUME SomeKeySet == MaxKeySets \in Nat \ {0}

KeySets == 1..MaxKeySets
Blank == 0                 \* no key set: blank storage, or no secrets file
Torn == MaxKeySets + 1     \* a secrets file that was cut short
Files == KeySets \cup {Blank, Torn}

VARIABLES
  role,      \* what the openbao role of the converge run does next
  keys,      \* the key set that opens OpenBao's storage
  open,      \* is OpenBao unsealed?
  secrets,   \* the content of the secrets file
  kept,      \* the .preinit-backup- copies and what the operator keeps elsewhere
  made,      \* key sets made so far
  served,    \* the key sets of the storage that has been in use
  points     \* the key sets of the snapshots in recovery points

stored == <<secrets, kept, made, served, points>>
keyVars == <<role, keys, open, stored>>
allVars == <<vars, keyVars>>

KeysTypeOK ==
  /\ role \in {"idle", "look", "init", "copy", "write", "unseal"}
  /\ keys \in KeySets \cup {Blank}
  /\ open \in BOOLEAN
  /\ secrets \in Files /\ kept \subseteq Files
  /\ made \in KeySets
  /\ served \subseteq KeySets /\ points \subseteq KeySets

\* The node, or the one it replaces, has been in use with key set 1.  On a new
\* machine the operator may or may not have put the secrets file in place.
KeysInit ==
  /\ Init
  /\ role = "idle" /\ open = (mode = "normal")
  /\ keys = IF vault = "blank" THEN Blank ELSE 1
  /\ secrets = 1 \/ (vault = "blank" /\ secrets = Blank)
  /\ kept = IF secrets = 1 THEN {} ELSE {1}
  /\ made = 1 /\ served = {1} /\ points = {1}

-----------------------------------------------------------------------------
(* The restore run.                                                        *)

\* An operation that does not open the vault; its seal lasts as long as the
\* container runs.
PlainOperation ==
  Operation /\ ~\E op \in {"open", "snapshot", "unseal"} : At(op, "openbao")

RestoreStep ==
  /\ role = "idle"
  /\ Begin \/ PlainOperation \/ Fail \/ Crash
  /\ open' = (open /\ app'["openbao"] = "up")
  /\ UNCHANGED <<role, keys, stored>>

\* unsealOpenBao: an initialised vault needs the key set of the file.
OpenInitialised ==
  /\ OpenVault /\ vault # "blank"
  /\ secrets = keys
  /\ open' = TRUE /\ served' = served \cup {keys}
  /\ UNCHANGED <<role, keys, secrets, kept, made, points>>

\* bootstrapOpenBaoForSnapshotRestore: the keys are never written anywhere.
Bootstrap ==
  /\ OpenVault /\ vault = "blank"
  /\ made < MaxKeySets
  /\ made' = made + 1 /\ keys' = made + 1
  /\ open' = TRUE
  /\ UNCHANGED <<role, secrets, kept, served, points>>

\* The storage becomes that of the snapshot, sealed with the snapshot's keys.
ImportStorage ==
  /\ ImportSnapshot
  /\ keys' \in points
  /\ open' = FALSE
  /\ UNCHANGED <<role, stored>>

\* Mutant: an OpenBao that stays sealed does not fail the restore.
UnsealRestoredMutant ==
  /\ UnsealVault
  /\ open' = (secrets = keys)
  /\ UNCHANGED <<role, keys, stored>>

\* After the import there is a vault.
UnsealRestored ==
  /\ UnsealVault /\ vault # "blank"
  /\ secrets = keys
  /\ open' = TRUE /\ served' = served \cup {keys}
  /\ UNCHANGED <<role, keys, secrets, kept, made, points>>

-----------------------------------------------------------------------------
(* The converge run: the openbao role.                                     *)

RoleGoesOn(next) == role' = next /\ UNCHANGED <<vars, keys>>

\* docker compose up; the container may be created anew, which seals it.  The
\* mode was read when the playbook began.
StartContainer ==
  /\ role = "idle" /\ at = 0
  /\ mode \in {"init", "normal"}
  /\ role' = IF mode = "init" THEN "look" ELSE "unseal"
  /\ app' = [app EXCEPT !["openbao"] = "up"]
  /\ open' \in {FALSE, open}
  /\ UNCHANGED <<at, mode, data, limits, keys, stored>>

\* Does OpenBao report that it is initialised?  The first answers after a start
\* may deny it (waitInitialized waits for them to change).
Reported == {vault # "blank", FALSE}

\* InitIfNeeded: initialised and with a secrets file, there is nothing to do;
\* initialised and without one is an error.
LookAtStatus ==
  /\ role = "look"
  /\ \E initialised \in Reported :
       /\ initialised => secrets # Blank
       /\ RoleGoesOn(IF initialised THEN "unseal" ELSE "init")
  /\ UNCHANGED <<open, stored>>

\* Mutant: an existing secrets file is replaced.
OperatorInitMutant ==
  /\ role = "init" /\ vault = "blank"
  /\ made < MaxKeySets
  /\ made' = made + 1 /\ keys' = made + 1
  /\ vault' = "old"
  /\ role' = "write"
  /\ UNCHANGED <<at, mode, app, files, database, readOnly, limits,
                 open, secrets, kept, served, points>>

\* `bao operator init`; OpenBao refuses it when its storage is not blank.
OperatorInit ==
  /\ role = "init" /\ vault = "blank"
  /\ made < MaxKeySets
  /\ made' = made + 1 /\ keys' = made + 1
  /\ vault' = "old"
  /\ role' = IF secrets = Blank THEN "write" ELSE "copy"
  /\ UNCHANGED <<at, mode, app, files, database, readOnly, limits,
                 open, secrets, kept, served, points>>

CopySecrets ==
  /\ role = "copy"
  /\ RoleGoesOn("write")
  /\ kept' = kept \cup {secrets}
  /\ UNCHANGED <<open, secrets, made, served, points>>

WriteSecrets ==
  /\ role = "write"
  /\ RoleGoesOn("unseal")
  /\ secrets' = keys
  /\ UNCHANGED <<open, kept, made, served, points>>

\* Unseal.  Without a secrets file a blank OpenBao is left as it is.
Unseal ==
  /\ role = "unseal"
  /\ RoleGoesOn("idle")
  /\ \/ vault = "blank" /\ secrets = Blank /\ UNCHANGED <<open, served>>
     \/ vault # "blank" /\ open /\ UNCHANGED <<open, served>>
     \/ /\ vault # "blank" /\ ~open
        /\ secrets = keys
        /\ open' = TRUE /\ served' = served \cup {keys}
  /\ UNCHANGED <<secrets, kept, made, points>>

\* The converge run ends by an error or is killed: the key set that it has just
\* made is lost unless it is in the file, which is written in place.
RoleEnds ==
  /\ role # "idle"
  /\ RoleGoesOn("idle")
  /\ secrets' \in {secrets} \cup {f \in {Torn} : role = "write"}
  /\ UNCHANGED <<open, kept, made, served, points>>

-----------------------------------------------------------------------------
(* The rest of the node, and the operator.                                 *)

\* A backup run takes a snapshot, with a token of the storage in use.
Snapshot ==
  /\ at = 0 /\ role = "idle" /\ mode = "normal"
  /\ open /\ keys \in served
  /\ points' = points \cup {keys}
  /\ UNCHANGED <<vars, role, keys, open, secrets, kept, made, served>>

\* Nothing starts the container at once; whatever ran is killed.
Reboot ==
  /\ crashes < MaxCrashes
  /\ crashes' = crashes + 1
  /\ at' = 0 /\ role' = "idle"
  /\ app' = [app EXCEPT !["openbao"] = "down"] /\ open' = FALSE
  /\ secrets' \in {secrets} \cup {f \in {Torn} : role = "write"}
  /\ UNCHANGED <<mode, data, runs, keys, kept, made, served, points>>

Quiet == at = 0 /\ role = "idle"

\* `mode set`, also during a converge run: to restore the node, or to end its
\* set-up.
SetMode ==
  /\ \/ OperatorAsks
     \/ /\ at = 0 /\ mode = "init"
        /\ mode' = "normal"
        /\ UNCHANGED <<at, app, data, limits>>
  /\ UNCHANGED keyVars

\* The operator puts back the key set that belongs to the snapshot, and keeps
\* the one it replaces.
PutBackSecrets ==
  /\ Quiet
  /\ mode \in {"restore", "restore_failed"}
  /\ secrets' \in kept \cap KeySets
  /\ kept' = kept \cup ({secrets} \ {Blank})
  /\ UNCHANGED <<vars, role, keys, open, made, served, points>>

\* The operator starts over with empty OpenBao storage, on a node that no
\* restore has left half-done.
StartOver ==
  /\ Quiet
  /\ vault # "blank" /\ \A s \in Stacks : Whole(s)
  /\ vault' = "blank" /\ keys' = Blank
  /\ app' = [app EXCEPT !["openbao"] = "down"] /\ open' = FALSE
  /\ mode' = "init"
  /\ UNCHANGED <<at, files, database, readOnly, limits, role, stored>>

ConvergeStep ==
  \/ StartContainer \/ LookAtStatus \/ OperatorInit \/ CopySecrets \/ WriteSecrets
  \/ Unseal \/ RoleEnds

KeysNext ==
  \/ RestoreStep \/ OpenInitialised \/ Bootstrap \/ ImportStorage \/ UnsealRestored
  \/ ConvergeStep
  \/ Snapshot \/ Reboot
  \/ SetMode \/ PutBackSecrets \/ StartOver

KeysSpec == KeysInit /\ [][KeysNext]_allVars

-----------------------------------------------------------------------------
(* Properties.                                                             *)

\* The keys of every storage that has been in use, and of every snapshot, are in
\* the secrets file or in a copy of it, wherever an initialisation or a restore
\* is cut short and however often OpenBao is initialised anew.
KeysKept == served \cup points \subseteq {secrets} \cup kept

\* As long as the node is in mode "normal", the secrets file opens a vault that
\* is in use: after a reboot the next converge run can unseal it.
NormalIsOpenable == mode = "normal" /\ keys \in served => secrets = keys

-----------------------------------------------------------------------------
(* Why: the inductive invariant.                                           *)

\* A secrets file about to be replaced has been copied, and the storage it is
\* replaced for is new.
InitKeepsOld ==
  /\ role \in {"copy", "write"} => keys \notin served
  /\ role = "write" => secrets \in kept \cup {Blank}
  /\ keys \in 0..made /\ served \cup points \subseteq 1..made

\* Converge and restore exclude each other.
OneOfThem == role # "idle" => at = 0

\* A restore that has come to its conclusion has unsealed OpenBao with the file;
\* until it declares the node normal its mode is "restore".
OpenedBefore ==
  /\ at > 0 /\ Program[at] \in {Conclusion[i] : i \in 1..3} => secrets = keys
  /\ at > 0 /\ Program[at] # <<"resume", "node">> => mode = "restore"
  /\ mode \in {"init", "normal"} /\ keys \in served => secrets = keys

BlankHasNoKeys == vault = "blank" <=> keys = Blank

\* A node that is being set up has nothing half-done.
SetUpIsWhole == mode = "init" => \A s \in Stacks : Whole(s)

KeysInv ==
  /\ at \in 0..Len(Program) /\ KeysTypeOK /\ BlankHasNoKeys
  /\ OneOfThem /\ KeysKept /\ InitKeepsOld /\ OpenedBefore
=============================================================================
