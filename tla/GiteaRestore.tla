----------------------------- MODULE GiteaRestore -----------------------------
(***************************************************************************)
(* What one `gitea restore-process` after the other does to the data of    *)
(* Gitea (cmd/admin-node/main.go, runGiteaProcessRestore), from the moment *)
(* it holds the operation lock (see AdminNode): Gitea is stopped, a safety *)
(* copy is taken, files and database are replaced by those of the remote   *)
(* archive, Gitea is started and validated.  A run fails or is killed at   *)
(* any step.                                                               *)
(*                                                                         *)
(* A killed run leaves the mode "restore", in which the next converge runs *)
(* a full restore (internal/restore/restore.go, Run), whether anybody      *)
(* wants one or not.  It replaces the data of Gitea too, and makes no      *)
(* safety copy.  The point it restores is taken to hold Gitea, as those of *)
(* a node that runs Gitea do.                                              *)
(*                                                                         *)
(* Data are versions: files and database belong together when they carry   *)
(* the same version.  Every write of a user and every restored archive is  *)
(* a version of its own.  No other command reaches the data as long as the *)
(* node is not back in mode "normal".                                      *)
(***************************************************************************)
EXTENDS Naturals

CONSTANTS
  MaxRuns,     \* bound: restores in a behaviour
  MaxWrites,   \* bound: writes of users
  MaxCrashes   \* bound: killed runs

ASSUME GiteaRestoreBounds == {MaxRuns, MaxWrites, MaxCrashes} \subseteq Nat

VARIABLES
  pc,        \* what the run does next
  mode,      \* the mode file
  app,       \* is the container gitea "up" or "down"?
  live,      \* the data of Gitea
  safety,    \* the pre-restore directory
  archived,  \* the safety copies the operator has moved away
  owed,      \* the versions somebody relied on: they must not get lost
  forsaken,  \* history: the owed versions that were in no copy when a full
             \* restore cleared the live data
  last,      \* the last version there was
  runs, writes, crashes

vars == <<pc, mode, app, live, safety, archived, owed, forsaken, last, runs, writes, crashes>>
kept == <<archived, owed, forsaken>>
limits == <<runs, writes, crashes>>

\* Version 0 stands for data that are missing or cut short.
Missing == 0
Versions == Nat \ {Missing}
Data == [files : Versions \cup {Missing}, database : Versions \cup {Missing}]
Whole(d) == d.files = d.database /\ d.files # Missing

\* What is there of the safety copy: each artifact may be absent.
NoCopy == [files |-> Missing, database |-> Missing]

Steps == {"stop", "dump", "copy", "copying", "clear", "fetch", "reset", "load",
          "start", "validate", "declare", "converge"}
FullSteps == {"full_stop", "full_clear", "full_copy", "full_reset", "full_load",
              "full_start", "full_declare"}

TypeOK ==
  /\ pc \in Steps \cup FullSteps \cup {"full_end", "idle"}
  /\ mode \in {"normal", "restore", "restore_failed"}
  /\ app \in {"up", "down"}
  /\ live \in Data
  /\ safety \in [present : BOOLEAN, data : Data]
  /\ archived \subseteq Data
  /\ owed \subseteq Versions /\ forsaken \subseteq Versions
  /\ last \in Versions
  /\ runs \in 0..MaxRuns /\ writes \in 0..MaxWrites /\ crashes \in 0..MaxCrashes

Init ==
  /\ pc = "idle" /\ mode = "normal" /\ app = "up"
  /\ live = [files |-> 1, database |-> 1]
  /\ safety = [present |-> FALSE, data |-> NoCopy]
  /\ archived = {} /\ owed = {1} /\ forsaken = {} /\ last = 1
  /\ runs = 0 /\ writes = 0 /\ crashes = 0

-----------------------------------------------------------------------------
(* The steps of a run.                                                     *)

\* Mutant: a retry overwrites the safety copy of the attempt before.
BeginMutant ==
  /\ pc = "idle" /\ runs < MaxRuns
  /\ runs' = runs + 1
  /\ mode' = "restore"
  /\ pc' = "stop"
  /\ UNCHANGED <<app, live, safety, kept, last, writes, crashes>>

\* validateGiteaProcessRestoreInputs: an artifact of an earlier safety copy, or
\* a part of one, makes the command refuse before it touches anything.
Begin ==
  /\ pc = "idle" /\ runs < MaxRuns
  /\ ~safety.present
  /\ runs' = runs + 1
  /\ mode' = "restore"
  /\ pc' = "stop"
  /\ UNCHANGED <<app, live, safety, kept, last, writes, crashes>>

\* Mutant: only the writes of the web front end are stopped.
StopMutant ==
  /\ pc = "stop"
  /\ pc' = "dump"
  /\ UNCHANGED <<mode, app, live, safety, kept, last, limits>>

Stop ==
  /\ pc = "stop"
  /\ app' = "down"
  /\ pc' = "dump"
  /\ UNCHANGED <<mode, live, safety, kept, last, limits>>

\* pg_dump to a temporary file, published by a rename.
Dump ==
  /\ pc = "dump"
  /\ safety' = [present |-> TRUE, data |-> [safety.data EXCEPT !.database = live.database]]
  /\ pc' = "copy"
  /\ UNCHANGED <<mode, app, live, kept, last, limits>>

\* rsync writes its target in place: until it is done there is a part of it.
Copy ==
  /\ pc = "copy"
  /\ safety' = [safety EXCEPT !.data.files = Missing]
  /\ pc' = "copying"
  /\ UNCHANGED <<mode, app, live, kept, last, limits>>

Copied ==
  /\ pc = "copying"
  /\ safety' = [safety EXCEPT !.data.files = live.files]
  /\ pc' = "clear"
  /\ UNCHANGED <<mode, app, live, kept, last, limits>>

ClearFiles ==
  /\ pc = "clear"
  /\ live' = [live EXCEPT !.files = Missing]
  /\ pc' = "fetch"
  /\ UNCHANGED <<mode, app, safety, kept, last, limits>>

\* The external gitea-restore puts the files of the archive in place, and its
\* dump into the scratch directory, which has been emptied.
Fetch ==
  /\ pc = "fetch"
  /\ last' = last + 1
  /\ live' = [live EXCEPT !.files = last + 1]
  /\ pc' = "reset"
  /\ UNCHANGED <<mode, app, safety, kept, limits>>

ResetDatabase ==
  /\ pc = "reset"
  /\ live' = [live EXCEPT !.database = Missing]
  /\ pc' = "load"
  /\ UNCHANGED <<mode, app, safety, kept, last, limits>>

\* Mutant: psql goes on after an error in the dump (no ON_ERROR_STOP).
LoadDatabaseMutant ==
  /\ pc = "load"
  /\ \E loaded \in {live.files, Missing} : live' = [live EXCEPT !.database = loaded]
  /\ pc' = "start"
  /\ UNCHANGED <<mode, app, safety, kept, last, limits>>

LoadDatabase ==
  /\ pc = "load"
  /\ live' = [live EXCEPT !.database = live.files]
  /\ pc' = "start"
  /\ UNCHANGED <<mode, app, safety, kept, last, limits>>

\* Ownership and file modes are set, then the stack is started.
Start ==
  /\ pc = "start"
  /\ app' = "up"
  /\ pc' = "validate"
  /\ UNCHANGED <<mode, live, safety, kept, last, limits>>

\* The probes ask whether Gitea and its database run and answer, not whether
\* files and database belong together.
Validated ==
  /\ pc = "validate"
  /\ app = "up"
  /\ pc' = "declare"
  /\ UNCHANGED <<mode, app, live, safety, kept, last, limits>>

\* From now on the restored data are those of the node.
DeclareNormal ==
  /\ pc = "declare"
  /\ mode' = "normal"
  /\ owed' = owed \cup {live.files}
  /\ pc' = "converge"
  /\ UNCHANGED <<app, live, safety, archived, forsaken, last, limits>>

\* The converge, if one is asked for, succeeds; the timers are resumed.
Finish ==
  /\ pc = "converge"
  /\ pc' = "idle"
  /\ UNCHANGED <<mode, app, live, safety, kept, last, limits>>

(* The full restore of a converge, as far as it concerns Gitea.            *)

\* A copy beside the live data holds version v.
Saved(v) == \E d \in {safety.data} \cup archived : Whole(d) /\ d.files = v

\* The playbook finds the mode a killed run has left.
TakeOver ==
  /\ pc = "idle" /\ mode = "restore"
  /\ pc' = "full_stop"
  /\ UNCHANGED <<mode, app, live, safety, kept, last, limits>>

FullStop ==
  /\ pc = "full_stop"
  /\ app' = "down"
  /\ pc' = "full_clear"
  /\ UNCHANGED <<mode, live, safety, kept, last, limits>>

\* replaceDirContents empties the directory; nobody has looked for a copy.
FullClear ==
  /\ pc = "full_clear"
  /\ live' = [live EXCEPT !.files = Missing]
  /\ forsaken' = forsaken \cup {v \in owed : ~Saved(v)}
  /\ pc' = "full_copy"
  /\ UNCHANGED <<mode, app, safety, archived, owed, last, limits>>

FullCopy ==
  /\ pc = "full_copy"
  /\ last' = last + 1
  /\ live' = [live EXCEPT !.files = last + 1]
  /\ pc' = "full_reset"
  /\ UNCHANGED <<mode, app, safety, kept, limits>>

FullReset ==
  /\ pc = "full_reset"
  /\ live' = [live EXCEPT !.database = Missing]
  /\ pc' = "full_load"
  /\ UNCHANGED <<mode, app, safety, kept, last, limits>>

\* The dump is that of the same point.
FullLoad ==
  /\ pc = "full_load"
  /\ live' = [live EXCEPT !.database = live.files]
  /\ pc' = "full_start"
  /\ UNCHANGED <<mode, app, safety, kept, last, limits>>

FullStart ==
  /\ pc = "full_start"
  /\ app' = "up"
  /\ pc' = "full_declare"
  /\ UNCHANGED <<mode, live, safety, kept, last, limits>>

\* The whole node is validated; Gitea must run for that.
FullDeclare ==
  /\ pc = "full_declare"
  /\ app = "up"
  /\ mode' = "normal"
  /\ owed' = owed \cup {live.files}
  /\ pc' = "full_end"
  /\ UNCHANGED <<app, live, safety, archived, forsaken, last, limits>>

\* The rest of the playbook succeeds or fails, without an effect on the mode.
FullEnd ==
  /\ pc = "full_end"
  /\ pc' = "idle"
  /\ UNCHANGED <<mode, app, live, safety, kept, last, limits>>

-----------------------------------------------------------------------------
(* How either of them ends early.                                          *)

\* Mutant: a run that fails puts the mode back as it was.
FailMutant ==
  /\ pc \in Steps \cup FullSteps
  /\ mode' = "normal"
  /\ pc' = "idle"
  /\ UNCHANGED <<app, live, safety, kept, last, limits>>

\* Any step returns an error: the mode becomes restore_failed, by the deferred
\* function of a Gitea restore and at each return of a full one.  Nothing is
\* rolled back.
Fail ==
  /\ pc \in Steps \cup FullSteps
  /\ mode' = "restore_failed"
  /\ pc' = "idle"
  /\ UNCHANGED <<app, live, safety, kept, last, limits>>

Crash ==
  /\ pc # "idle" /\ crashes < MaxCrashes
  /\ crashes' = crashes + 1
  /\ pc' = "idle"
  /\ UNCHANGED <<mode, app, live, safety, kept, last, runs, writes>>

-----------------------------------------------------------------------------
(* The users and the operator.                                             *)

\* A write takes what is served to a new version; the one before is history.
Write ==
  /\ app = "up" /\ writes < MaxWrites
  /\ writes' = writes + 1
  /\ last' = last + 1
  /\ live' = [files |-> last + 1, database |-> last + 1]
  /\ owed' = (owed \ {live.files}) \cup {last + 1}
  /\ UNCHANGED <<pc, mode, app, safety, archived, forsaken, runs, crashes>>

\* "Archive the whole directory ... never delete the only known-good copy."
Archive ==
  /\ pc = "idle" /\ safety.present
  /\ archived' = archived \cup {safety.data}
  /\ safety' = [present |-> FALSE, data |-> NoCopy]
  /\ UNCHANGED <<pc, mode, app, live, owed, forsaken, last, limits>>

RunStep ==
  \/ Begin \/ Stop \/ Dump \/ Copy \/ Copied \/ ClearFiles \/ Fetch
  \/ ResetDatabase \/ LoadDatabase \/ Start \/ Validated \/ DeclareNormal \/ Finish

FullStep ==
  \/ TakeOver \/ FullStop \/ FullClear \/ FullCopy \/ FullReset \/ FullLoad \/ FullStart
  \/ FullDeclare \/ FullEnd

Next == RunStep \/ FullStep \/ Fail \/ Crash \/ Write \/ Archive

Spec == Init /\ [][Next]_vars

-----------------------------------------------------------------------------
(* Properties.                                                             *)

Stores == {live, safety.data} \cup archived

\* "Inspect the error and the safety copy before retrying": however many Gitea
\* restores fail, are killed and are retried, every version somebody relied on
\* can be put together again: its files and its database are in one place, live,
\* in the safety copy or in an archived one.  The one exception is what a full
\* restore finds live and in no copy: it clears the data without making one.
LostOnlyToFullRestore ==
  \A v \in owed \ forsaken : \E d \in Stores : Whole(d) /\ d.files = v

\* As long as no run is killed the exception does not arise: errors alone lose
\* nothing, because an error never leaves the mode "restore".
ErrorsLoseNothing ==
  crashes = 0 => \A v \in owed : \E d \in Stores : Whole(d) /\ d.files = v

\* Gitea never serves a database that does not belong to its files.
ServedDataBelongTogether == app = "up" => Whole(live)

\* "normal" is written over a Gitea that runs on the data of one archive.
NormalMeansOneArchive ==
  [][mode' = "normal" /\ mode # "normal" => app' = "up" /\ Whole(live')]_vars

\* The live data have been taken apart.
Replacing == {"fetch", "reset", "load", "start",
              "full_copy", "full_reset", "full_load", "full_start"}

\* Why nothing is lost, step by step: until the safety copy is complete the live
\* data are untouched and at rest, and they are destroyed only after that.
QuietWhileReplaced ==
  /\ pc \in {"dump", "copy", "copying", "clear", "full_clear"} \cup Replacing
       => app = "down"
  /\ pc \in {"validate", "declare", "converge", "full_declare", "full_end"} => app = "up"

SafetyCopyGrows ==
  /\ pc \in {"stop", "dump"} => ~safety.present
  /\ ~safety.present => safety.data = NoCopy
  /\ pc \in {"copy", "copying", "clear"} => safety.present
  /\ pc \in {"copy", "copying"} => safety.data.files = Missing
  /\ pc \in {"copy", "copying", "clear"} => safety.data.database = live.database
  /\ pc = "clear" => safety.data.files = live.files

HeldByCopies == pc \in Replacing => \A v \in owed \ forsaken : Saved(v)

ReplacedInOrder ==
  /\ pc \in {"reset", "load", "full_reset", "full_load"} => live.files # Missing
  /\ pc \in {"start", "full_start"} => Whole(live)

\* Only a kill lets a full restore take over.
TakenOverAfterKills ==
  /\ pc = "converge" => mode = "normal"
  /\ pc = "idle" /\ mode = "restore" => crashes > 0
  /\ pc \in FullSteps \cup {"full_end"} => crashes > 0
  /\ forsaken # {} => crashes > 0

IInv ==
  /\ TypeOK /\ LostOnlyToFullRestore /\ ServedDataBelongTogether
  /\ QuietWhileReplaced /\ SafetyCopyGrows /\ HeldByCopies /\ ReplacedInOrder
  /\ TakenOverAfterKills

-----------------------------------------------------------------------------
(* The abstract specification.                                             *)

\* A Gitea restore, and the full one that takes over, keep the contract that
\* AdminNode and RestoreRun keep.  Either counts as the holder from the stop of
\* Gitea on: only then are data taken apart, and whatever is half-done when it
\* fails or is killed stays damaged until a later run declares the node normal.
Contract == INSTANCE ModeContract WITH
  Proc <- {"run"}, None <- "none",
  Mode <- {"normal", "restore", "restore_failed"},
  Services <- {"gitea"}, Vouched <- {"gitea"},
  holder <- IF pc \in {"idle", "stop", "full_stop"} THEN "none" ELSE "run",
  damaged <- {s \in {"gitea"} : ~Whole(live)}
ContractSpec == Contract!CSpec
=============================================================================
