------------------------------ MODULE ConvergeGit ------------------------------
(***************************************************************************)
(* How `converge run` brings the configuration to the node before it runs  *)
(* the playbook (internal/converge/converge.go, Run and                    *)
(* updateGitRepository): the admin repository, then the repository of the  *)
(* inventory, are fetched from their upstreams and fast-forwarded.  An     *)
(* error ends the run before the playbook.                                 *)
(*                                                                         *)
(* The playbook (ansible/site.yml) is also what unseals OpenBao after a    *)
(* reboot, but not in every mode: it reads the mode file once and unseals  *)
(* in modes "init" and "normal"; in "restore" that is up to the restore it *)
(* runs, and in "locked" and "restore_failed" it leaves OpenBao alone.     *)
(* What starts the runs is a timer that restores stop.                     *)
(*                                                                         *)
(* A revision is the set of commits of its history: one is an ancestor of  *)
(* another when it is a subset.  Meanwhile the operator commits on the     *)
(* node and pushes, others push to the upstreams, and upstreams are        *)
(* rewritten.  The lock of converge keeps its runs apart (see AdminNode).  *)
(***************************************************************************)
EXTENDS Naturals, Sequences

CONSTANTS
  Repositories,   \* the repositories a run updates, in this order
  AdminRepo,      \* the one a restore of an offline point detaches
  Commits,        \* bound: the commits made in a behaviour
  OperatorModes,  \* the modes the operator sets
  MaxReboots      \* bound: reboots

Modes == {"locked", "init", "normal", "restore", "restore_failed"}
Repos == {Repositories[i] : i \in 1..Len(Repositories)}

\* An inventory inside the admin repository is not updated twice.
ASSUME RepositoriesAreGiven ==
  /\ Repositories \in Seq(Repos) /\ Repositories # <<>> /\ AdminRepo \in Repos
  /\ \A i, j \in 1..Len(Repositories) : Repositories[i] = Repositories[j] => i = j
ASSUME RebootBound == MaxReboots \in Nat
ASSUME OperatorSetsModes == OperatorModes \subseteq Modes

VARIABLES
  at,         \* what the run does next
  index,      \* the repository it is at
  calm,       \* no outage, error or kill meets this run
  branch,     \* the revision of the branch each repository has checked out
  attached,   \* is HEAD on that branch?
  tracking,   \* the upstream's revision when it was last fetched
  origin,     \* the upstream's revision
  mode,       \* the mode file
  timer,      \* is admin-converge.timer started?
  sealed,     \* is OpenBao sealed?
  reboots

vars == <<at, index, calm, branch, attached, tracking, origin, mode, timer, sealed, reboots>>
revisions == <<branch, attached, tracking, origin>>
node == <<mode, timer, sealed, reboots>>

\* Where the playbook runs.
InPlaybook == {"playbook", "openbao", "restore"}

TypeOK ==
  /\ at \in {"idle", "branch", "fetch", "compare", "pull"} \cup InPlaybook
  /\ index \in 1..Len(Repositories)
  /\ calm \in BOOLEAN
  /\ branch \in [Repos -> SUBSET Commits]
  /\ attached \in [Repos -> BOOLEAN]
  /\ tracking \in [Repos -> SUBSET Commits]
  /\ origin \in [Repos -> SUBSET Commits]
  /\ mode \in Modes /\ timer \in BOOLEAN
  /\ sealed \in BOOLEAN /\ reboots \in 0..MaxReboots

Init ==
  /\ at = "idle" /\ index = 1 /\ calm = TRUE
  /\ branch = [r \in Repos |-> {}] /\ attached = [r \in Repos |-> TRUE]
  /\ tracking = branch /\ origin = branch
  /\ mode = "normal" /\ timer = TRUE
  /\ sealed = FALSE /\ reboots = 0

repo == Repositories[index]

-----------------------------------------------------------------------------
(* The run.                                                                *)

Begin(smooth) ==
  /\ at = "idle"
  /\ at' = "branch" /\ index' = 1 /\ calm' = smooth
  /\ UNCHANGED <<revisions, node>>

\* Mutant: the inventory's repository is left for the next run.
NextRepositoryMutant == at' = "playbook" /\ UNCHANGED index

NextRepository ==
  IF index < Len(Repositories)
  THEN at' = "branch" /\ index' = index + 1
  ELSE at' = "playbook" /\ UNCHANGED index

\* A repository that is not on a branch is skipped.
ReadBranch ==
  /\ at = "branch"
  /\ IF attached[repo] THEN at' = "fetch" /\ UNCHANGED index ELSE NextRepository
  /\ UNCHANGED <<calm, revisions, node>>

\* git fetch --prune
Fetch ==
  /\ at = "fetch"
  /\ tracking' = [tracking EXCEPT ![repo] = origin[repo]]
  /\ at' = "compare"
  /\ UNCHANGED <<index, calm, branch, attached, origin, node>>

\* Mutant: a diverged repository is taken as it is.
CompareMutant ==
  /\ at = "compare"
  /\ IF branch[repo] \subseteq tracking[repo] /\ branch[repo] # tracking[repo]
     THEN at' = "pull" /\ UNCHANGED index
     ELSE NextRepository
  /\ UNCHANGED <<calm, revisions, node>>

\* Equal or ahead: nothing to do.  Behind: pull.  Diverged: the run ends.
Compare ==
  /\ at = "compare"
  /\ \/ tracking[repo] \subseteq branch[repo] /\ NextRepository
     \/ /\ branch[repo] \subseteq tracking[repo] /\ branch[repo] # tracking[repo]
        /\ at' = "pull" /\ UNCHANGED index
  /\ UNCHANGED <<calm, revisions, node>>

\* Mutant: the branch is made to follow its upstream.
PullMutant ==
  /\ at = "pull"
  /\ tracking' = [tracking EXCEPT ![repo] = origin[repo]]
  /\ branch' = [branch EXCEPT ![repo] = origin[repo]]
  /\ NextRepository
  /\ UNCHANGED <<calm, attached, origin, node>>

\* git pull --ff-only fetches once more; the upstream and the branch may have
\* changed since they were compared.
Pull ==
  /\ at = "pull"
  /\ tracking' = [tracking EXCEPT ![repo] = origin[repo]]
  /\ \/ origin[repo] \subseteq branch[repo] /\ UNCHANGED branch
     \/ /\ branch[repo] \subseteq origin[repo]
        /\ branch' = [branch EXCEPT ![repo] = origin[repo]]
  /\ NextRepository
  /\ UNCHANGED <<calm, attached, origin, node>>

\* The playbook reads the mode once.  Role base starts the timer in every mode;
\* the role openbao, with its unseal, and the role restore depend on it.
Playbook ==
  /\ at = "playbook"
  /\ timer' = TRUE
  /\ \/ mode \in {"init", "normal"} /\ at' = "openbao"
     \/ mode = "restore" /\ at' = "restore"
     \/ mode \in {"locked", "restore_failed"} /\ at' = "idle"
  /\ UNCHANGED <<index, calm, revisions, mode, sealed, reboots>>

\* Mutant: the playbook starts OpenBao and leaves it sealed.
UnsealMutant ==
  /\ at = "openbao"
  /\ at' = "idle"
  /\ UNCHANGED <<index, calm, revisions, node>>

\* The key set of the secrets file opens OpenBao (see OpenBaoKeys).
Unseal ==
  /\ at = "openbao"
  /\ sealed' = FALSE
  /\ at' = "idle"
  /\ UNCHANGED <<index, calm, revisions, mode, timer, reboots>>

\* A full restore (see RestoreRun) suspends the timer, checks out the revision of
\* an offline point, and restores OpenBao and unseals it, if the point holds it.
\* Only a success resumes the timer, an error of which is ignored; a kill leaves
\* the mode as it is.
Restore ==
  /\ attached' \in {attached, [attached EXCEPT ![AdminRepo] = FALSE]}
  /\ \/ mode' = "normal" /\ timer' \in BOOLEAN /\ sealed' \in {FALSE, sealed}
     \/ /\ mode' \in {"restore_failed", "restore"}
        /\ timer' \in {timer, FALSE} /\ sealed' \in BOOLEAN

\* The restore refuses to run when the mode has been changed since it was read.
NestedRestore ==
  /\ at = "restore"
  /\ at' = "idle"
  /\ \/ mode = "restore" /\ Restore /\ (calm => mode' = "normal")
     \/ mode # "restore" /\ UNCHANGED <<attached, mode, timer, sealed>>
  /\ UNCHANGED <<index, calm, branch, tracking, origin, reboots>>

\* The branch and what was fetched of its upstream cannot be fast-forwarded.
Refused ==
  \/ at = "compare" /\ ~(branch[repo] \subseteq tracking[repo])
                    /\ ~(tracking[repo] \subseteq branch[repo])
  \/ at = "pull" /\ ~(branch[repo] \subseteq origin[repo])
                 /\ ~(origin[repo] \subseteq branch[repo])

\* Any error ends the run; git leaves branch and upstream as they are, except
\* that a pull refused has fetched.
Fail ==
  /\ at # "idle" /\ (~calm \/ Refused)
  /\ tracking' \in {tracking} \cup
       {[tracking EXCEPT ![repo] = origin[repo]] : a \in {at} \cap {"pull"}}
  /\ at' = "idle"
  /\ UNCHANGED <<index, calm, branch, attached, origin, node>>

-----------------------------------------------------------------------------
(* Everybody else.                                                         *)

New(c) == \A r \in Repos : c \notin branch[r] \cup tracking[r] \cup origin[r]

\* The operator commits on the node.
CommitLocally(r, c) ==
  /\ attached[r] /\ New(c)
  /\ branch' = [branch EXCEPT ![r] = @ \cup {c}]
  /\ UNCHANGED <<at, index, calm, attached, tracking, origin, node>>

\* ... and pushes what the upstream can take.
PushFromNode(r) ==
  /\ attached[r] /\ origin[r] \subseteq branch[r]
  /\ origin' = [origin EXCEPT ![r] = branch[r]]
  /\ tracking' = [tracking EXCEPT ![r] = branch[r]]
  /\ UNCHANGED <<at, index, calm, branch, attached, node>>

PushElsewhere(r, c) ==
  /\ New(c)
  /\ origin' = [origin EXCEPT ![r] = @ \cup {c}]
  /\ UNCHANGED <<at, index, calm, branch, attached, tracking, node>>

\* A forced push takes commits out of the history.
RewriteUpstream(r) ==
  /\ \E rest \in SUBSET origin[r] : origin' = [origin EXCEPT ![r] = rest]
  /\ UNCHANGED <<at, index, calm, branch, attached, tracking, node>>

\* admin-node mode set takes no lock.
SetMode(m) ==
  /\ mode' = m
  /\ UNCHANGED <<at, index, calm, revisions, timer, sealed, reboots>>

RestoreByHand ==
  /\ at = "idle" /\ mode = "restore"
  /\ Restore
  /\ UNCHANGED <<at, index, calm, branch, tracking, origin, reboots>>

\* A Gitea restore leaves OpenBao alone, but not the mode and the timer.
GiteaRestore ==
  /\ at = "idle"
  /\ mode' \in {"normal", "restore", "restore_failed"}
  /\ timer' \in BOOLEAN
  /\ UNCHANGED <<at, index, calm, revisions, sealed, reboots>>

\* The operator switches back to the branch.
Reattach ==
  /\ at = "idle"
  /\ attached' = [attached EXCEPT ![AdminRepo] = TRUE]
  /\ UNCHANGED <<at, index, calm, branch, tracking, origin, node>>

\* A boot starts the enabled timers.
Reboot ==
  /\ reboots < MaxReboots
  /\ reboots' = reboots + 1
  /\ sealed' = TRUE /\ timer' = TRUE
  /\ at' = "idle"
  /\ UNCHANGED <<index, calm, revisions, mode>>

RunStep ==
  \/ ReadBranch \/ Fetch \/ Compare \/ Pull
  \/ Playbook \/ Unseal \/ NestedRestore \/ Fail

Next ==
  \/ \E smooth \in BOOLEAN : Begin(smooth)
  \/ RunStep
  \/ \E r \in Repos, c \in Commits : CommitLocally(r, c) \/ PushElsewhere(r, c)
  \/ \E r \in Repos : PushFromNode(r) \/ RewriteUpstream(r)
  \/ \E m \in OperatorModes : SetMode(m)
  \/ RestoreByHand \/ GiteaRestore \/ Reattach \/ Reboot

Spec == Init /\ [][Next]_vars

TimerFires == timer /\ Begin(TRUE)

\* A run goes on.  As long as admin-converge.timer is started it starts one after
\* the other, and not each of them meets an outage, an error or a kill.
FairSpec == Spec /\ WF_vars(RunStep) /\ SF_vars(TimerFires)

-----------------------------------------------------------------------------
(* Properties.                                                             *)

\* No commit of the node is ever dropped from its branch, whatever the upstream
\* becomes between the steps of an update.
OwnCommitsStay == [][\A r \in Repos : branch[r] \subseteq branch'[r]]_vars

\* The playbook runs on every change that this run has fetched, in both
\* repositories, unless HEAD was found off its branch.
PlaybookIsCurrent ==
  at \in InPlaybook => \A r \in Repos : attached[r] => tracking[r] \subseteq branch[r]

\* Why: what the run has fetched is in the branch of each repository behind it.
Passed == IF at \in InPlaybook THEN 1..Len(Repositories) ELSE 1..(index - 1)
UpdatedSoFar ==
  at # "idle" => \A i \in Passed :
    attached[Repositories[i]] =>
      tracking[Repositories[i]] \subseteq branch[Repositories[i]]

IInv == TypeOK /\ UpdatedSoFar

\* What an update of the repository refuses until the operator steps in.
Diverged(r) ==
  attached[r] /\ ~(branch[r] \subseteq origin[r]) /\ ~(origin[r] \subseteq branch[r])

\* A pushed change reaches the node, unless it is taken back, the repository or
\* one before it cannot be updated, or a restore has left the timer stopped.
ChangesArrive ==
  \A i \in 1..Len(Repositories), c \in Commits :
    c \in origin[Repositories[i]] ~>
      \/ c \in branch[Repositories[i]] \/ c \notin origin[Repositories[i]]
      \/ ~attached[Repositories[i]] \/ ~timer
      \/ \E j \in 1..i : Diverged(Repositories[j])

\* After a reboot, and after a restore that left it sealed, OpenBao is unsealed.
\* Three things keep the node without its secrets until somebody steps in: a
\* repository that cannot be updated; a mode other than "init" and "normal", in
\* which converges succeed without unsealing; and a timer a restore has stopped.
VaultIsUnsealed ==
  sealed ~> \/ ~sealed
            \/ \E r \in Repos : Diverged(r)
            \/ mode \notin {"init", "normal"}
            \/ ~timer
=============================================================================
