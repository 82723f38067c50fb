------------------------------ MODULE RestoreRun ------------------------------
(***************************************************************************)
(* What one `restore run` after the other does to the services of a node   *)
(* (internal/restore/restore.go, Run), from the moment it holds its lock   *)
(* (see AdminNode): the stacks of the manifest are stopped, their files    *)
(* and databases replaced by those of the recovery point, the stacks are   *)
(* started and validated, and the node returns to mode "normal".           *)
(*                                                                         *)
(* A run is a program of small operations, each of which takes effect or   *)
(* not; it ends before any of them by an error, or is killed.  The stacks  *)
(* are those that keep state; what the others do is stopping and starting. *)
(* The mode "restore" is entered again by the operator, or found again by  *)
(* a converge run after a kill.                                            *)
(***************************************************************************)
EXTENDS Naturals, Sequences, FiniteSets

CONSTANTS
  MaxRuns,     \* bound: restore runs in a behaviour
  MaxCrashes   \* bound: killed runs

ASSUME RestoreBounds == MaxRuns \in Nat /\ MaxCrashes \in Nat

Stacks == {"openbao", "keycloak", "harbor", "gitea"}
WithFiles == {"harbor", "gitea"}
WithDatabase == {"keycloak", "harbor", "gitea"}

\* orderedActiveStacks: the start order.  Stacks are stopped in reverse.
StartOrder == <<"openbao", "keycloak", "harbor", "gitea">>
StopOrder == <<"gitea", "harbor", "keycloak", "openbao">>

Each(op, stacks) == [i \in 1..Len(stacks) |-> <<op, stacks[i]>>]

\* replaceDirContents, and restorePostgres
Replace(s) == <<<<"clear", s>>, <<"copy", s>>>>
Import(s) == <<<<"database", s>>, <<"drop", s>>, <<"load", s>>, <<"down", s>>>>

\* The operations of a run, in the order of the code.
Replacement ==
  <<<<"verify", "node">>>>
  \o Each("stop", StopOrder)
  \o <<<<"definitions", "node">>>>
  \o Replace("gitea") \o Replace("harbor")
  \o Import("keycloak") \o Import("gitea") \o Import("harbor")
  \o <<<<"vault", "openbao">>, <<"open", "openbao">>, <<"snapshot", "openbao">>,
       <<"down", "openbao">>>>
  \o Each("start", StartOrder)
  \o <<<<"administrator", "keycloak">>, <<"writable", "harbor">>, <<"unseal", "openbao">>>>
Conclusion == <<<<"validate", "node">>, <<"declare", "node">>, <<"resume", "node">>>>
Program == Replacement \o Conclusion

VARIABLES
  at,          \* the operation the run is at, 0 when none runs
  mode,        \* the mode file: "restore", "restore_failed", "normal" or "init"
  app,         \* what runs of each stack: "down", "database" (its own only), "up"
  files,       \* the files of a stack: "old", "broken" (in between) or "new"
  database,    \* its database, likewise
  vault,       \* OpenBao's storage: "blank", "old", "temporary" (initialised
               \* with keys only this run knows) or "new"
  readOnly,    \* Harbor's read-only setting, which is data of its database
  runs,        \* restore runs so far
  crashes

vars == <<at, mode, app, files, database, vault, readOnly, runs, crashes>>
data == <<files, database, vault, readOnly>>
limits == <<runs, crashes>>

Halves == {"old", "broken", "new"}
Modes == {"restore", "restore_failed", "normal", "init"}

TypeOK ==
  /\ at \in 0..Len(Program)
  /\ mode \in Modes
  /\ app \in [Stacks -> {"down", "database", "up"}]
  /\ files \in [WithFiles -> Halves]
  /\ database \in [WithDatabase -> Halves]
  /\ vault \in {"blank", "old", "temporary", "new"}
  /\ readOnly \in BOOLEAN
  /\ runs \in 0..MaxRuns /\ crashes \in 0..MaxCrashes

\* A node that works, or a new machine on which nothing has been started, to be
\* restored or to be set up.
Init ==
  /\ at = 0
  /\ \/ mode = "normal" /\ app = [s \in Stacks |-> "up"] /\ vault = "old"
     \/ mode \in {"restore", "init"} /\ app = [s \in Stacks |-> "down"] /\ vault = "blank"
  /\ files = [s \in WithFiles |-> "old"]
  /\ database = [s \in WithDatabase |-> "old"]
  /\ readOnly = FALSE
  /\ runs = 0 /\ crashes = 0

-----------------------------------------------------------------------------
(* The operations.                                                         *)

At(op, s) == at > 0 /\ Program[at] = <<op, s>>
Advance == at' = at + 1

Begin ==
  /\ at = 0 /\ runs < MaxRuns
  /\ mode = "restore"
  /\ at' = 1
  /\ runs' = runs + 1
  /\ UNCHANGED <<mode, app, data, crashes>>

\* The point is found and verified; the timers are stopped before.
Verify ==
  /\ At("verify", "node")
  /\ Advance
  /\ UNCHANGED <<mode, app, data, limits>>

\* Mutant: a stack that does not stop is left running.
StopStackMutant(s) ==
  /\ At("stop", s)
  /\ \E result \in {"down", app[s]} : app' = [app EXCEPT ![s] = result]
  /\ Advance
  /\ UNCHANGED <<mode, data, limits>>

StopStack(s) ==
  /\ At("stop", s)
  /\ app' = [app EXCEPT ![s] = "down"]
  /\ Advance
  /\ UNCHANGED <<mode, data, limits>>

\* The stack definitions are replaced and the images loaded.
RestoreDefinitions ==
  /\ At("definitions", "node")
  /\ Advance
  /\ UNCHANGED <<mode, app, data, limits>>

ClearFiles(s) ==
  /\ At("clear", s)
  /\ files' = [files EXCEPT ![s] = "broken"]
  /\ Advance
  /\ UNCHANGED <<mode, app, database, vault, readOnly, limits>>

CopyFiles(s) ==
  /\ At("copy", s)
  /\ files' = [files EXCEPT ![s] = "new"]
  /\ Advance
  /\ UNCHANGED <<mode, app, database, vault, readOnly, limits>>

\* Mutant: the whole stack is started for its database.
StartDatabaseMutant(s) ==
  /\ At("database", s)
  /\ app' = [app EXCEPT ![s] = "up"]
  /\ Advance
  /\ UNCHANGED <<mode, data, limits>>

StartDatabase(s) ==
  /\ At("database", s)
  /\ app' = [app EXCEPT ![s] = "database"]
  /\ Advance
  /\ UNCHANGED <<mode, data, limits>>

DropDatabase(s) ==
  /\ At("drop", s)
  /\ database' = [database EXCEPT ![s] = "broken"]
  /\ Advance
  /\ UNCHANGED <<mode, app, files, vault, readOnly, limits>>

\* Mutant: an error of pg_restore is not looked at.
LoadDatabaseMutant(s) ==
  /\ At("load", s)
  /\ \E result \in {"broken", "new"} : database' = [database EXCEPT ![s] = result]
  /\ readOnly' = (readOnly \/ s = "harbor")
  /\ Advance
  /\ UNCHANGED <<mode, app, files, vault, limits>>

\* Harbor's database was dumped while Harbor was read-only (see BackupCapture).
LoadDatabase(s) ==
  /\ At("load", s)
  /\ database' = [database EXCEPT ![s] = "new"]
  /\ readOnly' = (readOnly \/ s = "harbor")
  /\ Advance
  /\ UNCHANGED <<mode, app, files, vault, limits>>

\* The containers started for an import are removed; an error is ignored.
DownAfterImport(s) ==
  /\ At("down", s)
  /\ \E result \in {"down", app[s]} : app' = [app EXCEPT ![s] = result]
  /\ Advance
  /\ UNCHANGED <<mode, data, limits>>

StartVault ==
  /\ At("vault", "openbao")
  /\ app' = [app EXCEPT !["openbao"] = "up"]
  /\ Advance
  /\ UNCHANGED <<mode, data, limits>>

\* An initialised OpenBao is unsealed with the stored material.  A blank one is
\* initialised with keys that stay in the memory of the run.
OpenVault ==
  /\ At("open", "openbao")
  /\ vault # "temporary"
  /\ vault' = IF vault = "blank" THEN "temporary" ELSE vault
  /\ Advance
  /\ UNCHANGED <<mode, app, files, database, readOnly, limits>>

ImportSnapshot ==
  /\ At("snapshot", "openbao")
  /\ vault' = "new"
  /\ Advance
  /\ UNCHANGED <<mode, app, files, database, readOnly, limits>>

StartStack(s) ==
  /\ At("start", s)
  /\ app' = [app EXCEPT ![s] = "up"]
  /\ Advance
  /\ UNCHANGED <<mode, data, limits>>

RestoreKeycloakAdmin ==
  /\ At("administrator", "keycloak")
  /\ Advance
  /\ UNCHANGED <<mode, app, data, limits>>

\* Mutant: Harbor keeps the setting of its dump.
RestoreHarborWritableMutant ==
  /\ At("writable", "harbor")
  /\ Advance
  /\ UNCHANGED <<mode, app, data, limits>>

RestoreHarborWritable ==
  /\ At("writable", "harbor")
  /\ readOnly' = FALSE
  /\ Advance
  /\ UNCHANGED <<mode, app, files, database, vault, limits>>

UnsealVault ==
  /\ At("unseal", "openbao")
  /\ vault # "temporary"
  /\ Advance
  /\ UNCHANGED <<mode, app, data, limits>>

\* The probes ask whether each service runs and answers, never whose data it
\* serves; they may also fail where it does.
Validate ==
  /\ At("validate", "node")
  /\ \A s \in Stacks : app[s] = "up"
  /\ Advance
  /\ UNCHANGED <<mode, app, data, limits>>

DeclareNormal ==
  /\ At("declare", "node")
  /\ mode' = "normal"
  /\ Advance
  /\ UNCHANGED <<app, data, limits>>

\* Mutant: the last operation does not end the run.
FinishMutant ==
  /\ At("resume", "node")
  /\ Advance
  /\ UNCHANGED <<mode, app, data, limits>>

\* The timers are resumed, with or without success, and the lock is released.
Finish ==
  /\ At("resume", "node")
  /\ at' = 0
  /\ UNCHANGED <<mode, app, data, limits>>

\* Any operation may fail.  The node is marked, unless the mark itself failed.
Fail ==
  /\ at > 0 /\ ~At("resume", "node")
  /\ mode' = IF At("declare", "node") THEN mode ELSE "restore_failed"
  /\ at' = 0
  /\ UNCHANGED <<app, data, limits>>

Crash ==
  /\ crashes < MaxCrashes
  /\ at > 0
  /\ at' = 0
  /\ crashes' = crashes + 1
  /\ UNCHANGED <<mode, app, data, runs>>

\* `mode set restore`, with no run under way.
OperatorAsks ==
  /\ at = 0
  /\ mode # "restore"
  /\ mode' = "restore"
  /\ UNCHANGED <<at, app, data, limits>>

Operation ==
  \/ Verify \/ RestoreDefinitions
  \/ \E s \in Stacks :
       \/ StopStack(s) \/ StartStack(s)
       \/ ClearFiles(s) \/ CopyFiles(s)
       \/ StartDatabase(s) \/ DropDatabase(s) \/ LoadDatabase(s) \/ DownAfterImport(s)
  \/ StartVault \/ OpenVault \/ ImportSnapshot
  \/ RestoreKeycloakAdmin \/ RestoreHarborWritable \/ UnsealVault
  \/ Validate \/ DeclareNormal \/ Finish

Next == Begin \/ Operation \/ Fail \/ Crash \/ OperatorAsks

Spec == Init /\ [][Next]_vars

-----------------------------------------------------------------------------
(* Properties.                                                             *)

\* The data of a stack, half by half.
HalvesOf(s) ==
  {files[t] : t \in WithFiles \cap {s}} \cup {database[t] : t \in WithDatabase \cap {s}}

\* All of it is from before the restores, or all of it is the restored point's.
Whole(s) ==
  IF s = "openbao" THEN vault # "temporary"
  ELSE Cardinality(HalvesOf(s)) = 1 /\ "broken" \notin HalvesOf(s)

\* No application ever runs on files and a database that do not belong
\* together, in whichever run, at whichever operation, earlier runs failed or
\* were killed.  (OpenBao has no such pair.)
NoServiceOnHalfData == \A s \in WithDatabase : app[s] = "up" => Whole(s)

\* The node returns to "normal" only when all stacks run on the restored data
\* and Harbor can be written, although its data says the contrary.
NormalMeansRestored ==
  [][mode' = "normal" /\ mode \in {"restore", "restore_failed"} =>
       /\ \A s \in Stacks : app[s] = "up"
       /\ \A s \in WithDatabase : HalvesOf(s) = {"new"}
       /\ vault = "new" /\ ~readOnly]_vars

-----------------------------------------------------------------------------
(* Why: the inductive invariant, in terms of what this run has done.       *)

Done(op, s) == \E i \in 1..Len(Program) : i < at /\ Program[i] = <<op, s>>

\* Nothing that comes later in the run undoes what it has replaced.
ReplacedSoFar ==
  /\ \A s \in WithFiles : Done("copy", s) => files[s] = "new"
  /\ \A s \in WithDatabase : Done("load", s) => database[s] = "new"
  /\ Done("snapshot", "openbao") => vault = "new"
  /\ Done("writable", "harbor") => ~readOnly

\* An application is down from the stop of its stack to its start.
QuietWhileReplaced ==
  /\ \A s \in WithDatabase : Done("stop", s) /\ ~Done("start", s) => app[s] # "up"
  /\ \A s \in Stacks : Done("start", s) => app[s] = "up"

\* The mode is "restore" until the run declares the node normal.
RestoringUntilDeclared == at > 0 => mode = IF Done("declare", "node") THEN "normal" ELSE "restore"

RunInv ==
  /\ TypeOK /\ RestoringUntilDeclared
  /\ NoServiceOnHalfData /\ QuietWhileReplaced /\ ReplacedSoFar

-----------------------------------------------------------------------------
(* The abstract specification.                                             *)

\* A restore run keeps the contract that AdminNode keeps at the level of the
\* node, now with what "whole" means for each stack.
Contract == INSTANCE ModeContract WITH
  Proc <- {"run"}, None <- "none",
  Mode <- Modes,
  Services <- Stacks, Vouched <- Stacks,
  holder <- IF at = 0 THEN "none" ELSE "run",
  damaged <- {s \in Stacks : ~Whole(s)}
ContractSpec == Contract!CSpec
=============================================================================
