---------------------------- MODULE IntegrityCheck ----------------------------
(***************************************************************************)
(* The weekly integrity check (internal/backup/restic.go, CheckRestic;     *)
(* admin-backup-integrity.service): a run reads one of the Parts parts of  *)
(* every repository, prunes the repositories, moves the state file to the  *)
(* next part and writes a success marker.                                  *)
(*                                                                         *)
(* The unit of systemd takes the operation lock around the whole run; the  *)
(* command itself takes none, so that a checker started by hand may be in  *)
(* Unlocked.  Data of a repository go bad at any time, and unnoticed.      *)
(* Restic locks a repository while it checks or prunes it: each of these   *)
(* is one step.                                                            *)
(***************************************************************************)
EXTENDS Integers

CONSTANTS
  Count,       \* how many repositories are configured
  Parts,       \* resticIntegrityParts
  Checkers,    \* who runs checks
  Unlocked,    \* those among them that do not take the operation lock
  None,        \* no checker
  MaxRuns,     \* bound: runs in a behaviour
  MaxDamages   \* bound: times data go bad

ASSUME IntegrityConstants ==
  /\ Count \in Nat \ {0} /\ Parts \in Nat \ {0}
  /\ Unlocked \subseteq Checkers /\ None \notin Checkers
  /\ MaxRuns \in Nat /\ MaxDamages \in Nat

VARIABLES
  file,      \* the part the state file names
  lock,      \* who holds the operation lock
  pc,        \* what a checker does next
  part,      \* the part its run has loaded from the state file
  at,        \* the repository its run has come to
  damaged,   \* the parts, of which repositories, with bad data
  since,     \* how many success markers were written since they went bad
  runs, damages

vars == <<file, lock, pc, part, at, damaged, since, runs, damages>>

Numbers == 1..Parts
Places == (1..Count) \X Numbers

TypeOK ==
  /\ file \in Numbers
  /\ lock \in Checkers \cup {None}
  /\ pc \in [Checkers -> {"idle", "check", "prune", "advance", "mark"}]
  /\ part \in [Checkers -> Numbers]
  /\ at \in [Checkers -> 1..Count]
  /\ damaged \subseteq Places
  /\ since \in [Places -> Nat]
  /\ runs \in 0..MaxRuns /\ damages \in 0..MaxDamages

\* Without a state file the first part is next.
Init ==
  /\ file = 1 /\ lock = None
  /\ pc = [c \in Checkers |-> "idle"]
  /\ part = [c \in Checkers |-> 1] /\ at = [c \in Checkers |-> 1]
  /\ damaged = {} /\ since = [p \in Places |-> 0]
  /\ runs = 0 /\ damages = 0

-----------------------------------------------------------------------------

\* The part after n: the last one is followed by the first.
Following(n) == (n % Parts) + 1

\* The operation lock goes when the process that flock started ends.
Leave(c) ==
  /\ pc' = [pc EXCEPT ![c] = "idle"]
  /\ lock' = IF lock = c THEN None ELSE lock

\* Mutant: the part is looked up before the lock is taken, or without it.
BeginMutant(c) ==
  /\ pc[c] = "idle" /\ runs < MaxRuns
  /\ runs' = runs + 1
  /\ part' = [part EXCEPT ![c] = file]
  /\ at' = [at EXCEPT ![c] = 1]
  /\ pc' = [pc EXCEPT ![c] = "check"]
  /\ UNCHANGED <<file, lock, damaged, since, damages>>

Begin(c) ==
  /\ pc[c] = "idle" /\ runs < MaxRuns
  /\ \/ c \in Unlocked /\ UNCHANGED lock
     \/ c \notin Unlocked /\ lock = None /\ lock' = c
  /\ runs' = runs + 1
  /\ part' = [part EXCEPT ![c] = file]
  /\ at' = [at EXCEPT ![c] = 1]
  /\ pc' = [pc EXCEPT ![c] = "check"]
  /\ UNCHANGED <<file, damaged, since, damages>>

\* The repositories are taken in the order of the configuration, once to check
\* all of them and once to prune all of them.
OnToNext(c, step) ==
  \/ /\ at[c] < Count
     /\ at' = [at EXCEPT ![c] = @ + 1]
     /\ UNCHANGED pc
  \/ /\ at[c] = Count
     /\ at' = [at EXCEPT ![c] = 1]
     /\ pc' = [pc EXCEPT ![c] = step]

\* restic check --read-data-subset part/Parts: bad data make it fail.
Check(c) ==
  /\ pc[c] = "check"
  /\ <<at[c], part[c]>> \notin damaged
  /\ OnToNext(c, "prune")
  /\ UNCHANGED <<file, lock, part, damaged, since, runs, damages>>

\* restic prune deletes unused data, bad ones among them; which part data belong
\* to is settled by their name.
Prune(c) ==
  /\ pc[c] = "prune"
  /\ \E unused \in SUBSET ({at[c]} \X Numbers) : damaged' = damaged \ unused
  /\ OnToNext(c, "advance")
  /\ UNCHANGED <<file, lock, part, since, runs, damages>>

\* storeNextIntegritySubset goes on from the part this run has loaded.
Advance(c) ==
  /\ pc[c] = "advance"
  /\ file' = Following(part[c])
  /\ pc' = [pc EXCEPT ![c] = "mark"]
  /\ UNCHANGED <<lock, part, at, damaged, since, runs, damages>>

\* WriteSuccessStatus: from here the freshness of the check is counted.
Mark(c) ==
  /\ pc[c] = "mark"
  /\ since' = [p \in Places |-> IF p \in damaged THEN since[p] + 1 ELSE since[p]]
  /\ Leave(c)
  /\ UNCHANGED <<file, part, at, damaged, runs, damages>>

\* Mutant: the part is advanced whether the run has succeeded or not.
FailMutant(c) ==
  /\ pc[c] # "idle"
  /\ file' = Following(part[c])
  /\ Leave(c)
  /\ UNCHANGED <<part, at, damaged, since, runs, damages>>

\* Restic or a write fails, or the run is killed: the state file, written aside
\* and renamed, is the old one or the new one.
Fail(c) ==
  /\ pc[c] # "idle"
  /\ Leave(c)
  /\ UNCHANGED <<file, part, at, damaged, since, runs, damages>>

Damage(p) ==
  /\ p \notin damaged /\ damages < MaxDamages
  /\ damages' = damages + 1
  /\ damaged' = damaged \cup {p}
  /\ since' = [since EXCEPT ![p] = 0]
  /\ UNCHANGED <<file, lock, pc, part, at, runs>>

Run(c) == Begin(c) \/ Check(c) \/ Prune(c) \/ Advance(c) \/ Mark(c) \/ Fail(c)

Next == (\E c \in Checkers : Run(c)) \/ (\E p \in Places : Damage(p))

Spec == Init /\ [][Next]_vars

-----------------------------------------------------------------------------
(* Properties.                                                             *)

\* "A successful four-week cycle reads all repository data": data that have gone
\* bad survive at most Parts success markers, whatever runs fail or are killed
\* in between.  It needs that all checkers take the operation lock.
DamageIsFound == \A p \in damaged : since[p] <= Parts

\* How many runs must succeed before a run reads part n.
Before(n) == IF file <= n THEN n - file ELSE n + Parts - file

\* What a run has loaded is what the state file names until it moves it on.
OneAtATime ==
  /\ \A c \in Checkers : pc[c] # "idle" => lock = c
  /\ \A c \in Checkers : pc[c] \in {"check", "prune", "advance"} => part[c] = file
  /\ \A c \in Checkers : pc[c] = "mark" => file = Following(part[c])

\* The repositories whose part the run of c has read.
HasRead(c, r) ==
  \/ pc[c] = "check" /\ r < at[c]
  \/ pc[c] \in {"prune", "advance"}

\* What is bad though the run has read it went bad after that.
BadAfterReading ==
  \A c \in Checkers : \A r \in 1..Count :
    HasRead(c, r) /\ <<r, file>> \in damaged => since[<<r, file>>] = 0

\* Each marker brings the part of the bad data one run closer.
Countdown ==
  \A p \in damaged :
    /\ since[p] + Before(p[2]) <= Parts
    /\ (\E c \in Checkers : pc[c] = "mark") => since[p] + Before(p[2]) < Parts

IInv == TypeOK /\ OneAtATime /\ BadAfterReading /\ Countdown
=============================================================================
