--------------------------- MODULE ConvergeGitProofs ---------------------------
(***************************************************************************)
(* Proofs about ConvergeGit, for any repositories, commits and number of   *)
(* reboots: what the playbook runs on, and that no update drops a commit.  *)
(***************************************************************************)
EXTENDS ConvergeGit, TLAPS

USE DEF InPlaybook

LEMMA IndexedRepos ==
  /\ Len(Repositories) \in Nat \ {0}
  /\ \A i \in 1..Len(Repositories) : Repositories[i] \in Repos
BY RepositoriesAreGiven DEF Repos

LEMMA InitialState == Init => IInv
<1>1. Init => /\ branch \in [Repos -> SUBSET Commits] /\ attached \in [Repos -> BOOLEAN]
              /\ tracking \in [Repos -> SUBSET Commits]
              /\ origin \in [Repos -> SUBSET Commits]
  BY DEF Init
<1>2. Init => at = "idle" /\ index \in 1..Len(Repositories) /\ reboots \in 0..MaxReboots
  BY IndexedRepos, RebootBound, SMT DEF Init
<1>3. Init => calm \in BOOLEAN /\ sealed \in BOOLEAN /\ timer \in BOOLEAN /\ mode \in Modes
  BY Zenon DEF Init, Modes
<1> QED BY <1>1, <1>2, <1>3 DEF IInv, TypeOK, UpdatedSoFar

\* What it takes to leave a repository: it is off its branch or up to date.
LEMMA MovesOn ==
  ASSUME IInv, at \in {"branch", "compare", "pull"}, NextRepository,
         attached' = attached,
         \A r \in Repos : r # repo => branch'[r] = branch[r] /\ tracking'[r] = tracking[r],
         attached[repo] => tracking'[repo] \subseteq branch'[repo]
  PROVE  UpdatedSoFar' /\ at' \in {"branch", "playbook"} /\ index' \in 1..Len(Repositories)
<1>1. index \in 1..Len(Repositories) /\ Len(Repositories) \in Nat
  BY IndexedRepos DEF IInv, TypeOK
<1>2. Passed = 1..(index - 1)
  BY DEF Passed
<1>3. Passed' \subseteq 1..index /\ at' \in {"branch", "playbook"}
  /\ index' \in 1..Len(Repositories)
  BY <1>1 DEF NextRepository, Passed
<1>4. ASSUME NEW i \in Passed', attached[Repositories[i]]
      PROVE  tracking'[Repositories[i]] \subseteq branch'[Repositories[i]]
  <2>1. i \in 1..Len(Repositories) /\ (i = index \/ i \in 1..(index - 1))
    BY <1>1, <1>3, <1>4
  <2>2. CASE i = index
    BY <2>2, <1>4 DEF repo
  <2>3. CASE i \in 1..(index - 1)
    <3>1. Repositories[i] # repo /\ Repositories[i] \in Repos
      BY <2>1, <2>3, <1>1, IndexedRepos, RepositoriesAreGiven DEF repo
    <3>2. tracking[Repositories[i]] \subseteq branch[Repositories[i]]
      BY <2>3, <1>2, <1>4 DEF IInv, UpdatedSoFar
    <3> QED BY <3>1, <3>2
  <2> QED BY <2>1, <2>2, <2>3
<1> QED BY <1>3, <1>4 DEF UpdatedSoFar

\* The run leaves the repositories behind it alone.
LEMMA StaysBehind ==
  ASSUME IInv, at \in {"branch", "fetch", "compare", "pull"},
         at' \in {"branch", "fetch", "compare", "pull"},
         index' = index, attached' = attached,
         \A r \in Repos : r # repo => branch'[r] = branch[r] /\ tracking'[r] = tracking[r]
  PROVE  UpdatedSoFar'
<1>1. index \in 1..Len(Repositories) /\ Len(Repositories) \in Nat
  BY IndexedRepos DEF IInv, TypeOK
<1>2. Passed = 1..(index - 1) /\ Passed' = 1..(index - 1)
  BY DEF Passed
<1>3. ASSUME NEW i \in 1..(index - 1)
      PROVE  Repositories[i] # repo /\ Repositories[i] \in Repos
  BY <1>1, IndexedRepos, RepositoriesAreGiven DEF repo
<1> QED BY <1>2, <1>3 DEF IInv, UpdatedSoFar

\* What a restore does to mode, timer, OpenBao and the checkout.
LEMMA RestoreTypes ==
  ASSUME TypeOK, Restore
  PROVE  /\ mode' \in Modes /\ attached' \in [Repos -> BOOLEAN]
         /\ sealed' \in BOOLEAN /\ timer' \in BOOLEAN
<1>1. mode' \in Modes
  BY DEF Restore, Modes
<1>2. attached' \in [Repos -> BOOLEAN]
  BY DEF Restore, TypeOK
<1>3. sealed' \in BOOLEAN /\ timer' \in BOOLEAN
  BY DEF Restore, TypeOK
<1> QED BY <1>1, <1>2, <1>3

LEMMA RunKeepsInv == IInv /\ RunStep => IInv'
<1> SUFFICES ASSUME IInv, RunStep PROVE IInv'
  OBVIOUS
<1>0. repo \in Repos /\ index \in 1..Len(Repositories)
  BY IndexedRepos DEF repo, IInv, TypeOK
<1>1. CASE ReadBranch
  <2>1. CASE attached[repo]
    <3>1. UpdatedSoFar'
      BY <1>1, <2>1, StaysBehind DEF ReadBranch, revisions, node
    <3> QED BY <3>1, <1>1, <2>1 DEF ReadBranch, IInv, TypeOK, revisions, node
  <2>2. CASE ~attached[repo]
    <3>1. UpdatedSoFar' /\ at' \in {"branch", "playbook"} /\ index' \in 1..Len(Repositories)
      BY <1>1, <2>2, MovesOn DEF ReadBranch, revisions, node
    <3> QED BY <3>1, <1>1 DEF ReadBranch, IInv, TypeOK, revisions, node
  <2> QED BY <2>1, <2>2
<1>2. CASE Fetch
  <2>1. \A r \in Repos : r # repo => branch'[r] = branch[r] /\ tracking'[r] = tracking[r]
    BY <1>2 DEF Fetch, IInv, TypeOK
  <2>2. UpdatedSoFar'
    BY <2>1, <1>2, StaysBehind DEF Fetch, node
  <2> QED BY <2>2, <1>0, <1>2 DEF Fetch, IInv, TypeOK, node
<1>3. CASE Compare
  <2>1. CASE tracking[repo] \subseteq branch[repo] /\ NextRepository
    <3>1. UpdatedSoFar' /\ at' \in {"branch", "playbook"} /\ index' \in 1..Len(Repositories)
      BY <1>3, <2>1, MovesOn DEF Compare, revisions, node
    <3> QED BY <3>1, <1>3 DEF Compare, IInv, TypeOK, revisions, node
  <2>2. CASE at' = "pull" /\ index' = index
    <3>1. UpdatedSoFar'
      BY <1>3, <2>2, StaysBehind DEF Compare, revisions, node
    <3> QED BY <3>1, <1>3, <2>2 DEF Compare, IInv, TypeOK, revisions, node
  <2> QED BY <1>3, <2>1, <2>2 DEF Compare
<1>4. CASE Pull
  <2>1. /\ \A r \in Repos : r # repo => branch'[r] = branch[r] /\ tracking'[r] = tracking[r]
        /\ tracking'[repo] = origin[repo] /\ origin[repo] \subseteq branch'[repo]
        /\ branch' \in [Repos -> SUBSET Commits] /\ tracking' \in [Repos -> SUBSET Commits]
    BY <1>0, <1>4 DEF Pull, IInv, TypeOK
  <2>2. UpdatedSoFar' /\ at' \in {"branch", "playbook"} /\ index' \in 1..Len(Repositories)
    BY <2>1, <1>4, MovesOn DEF Pull
  <2> QED BY <2>1, <2>2, <1>4 DEF Pull, IInv, TypeOK, node
<1>5. CASE Playbook
  <2>1. at' \in {"idle", "openbao", "restore"} /\ timer' \in BOOLEAN
    BY <1>5 DEF Playbook
  <2>2. UpdatedSoFar'
    BY <2>1, <1>5 DEF Playbook, IInv, UpdatedSoFar, Passed, revisions
  <2> QED BY <2>1, <2>2, <1>5 DEF Playbook, IInv, TypeOK, revisions
<1>6. CASE Fail
  BY <1>0, <1>6 DEF Fail, IInv, TypeOK, UpdatedSoFar, node
<1>7. CASE Unseal
  BY <1>7 DEF Unseal, IInv, TypeOK, UpdatedSoFar, revisions
<1>8. CASE NestedRestore
  <2>1. /\ mode' \in Modes /\ attached' \in [Repos -> BOOLEAN]
        /\ sealed' \in BOOLEAN /\ timer' \in BOOLEAN
    BY <1>8, RestoreTypes DEF NestedRestore, IInv, TypeOK
  <2> QED BY <1>8, <2>1 DEF NestedRestore, IInv, TypeOK, UpdatedSoFar
<1> QED BY <1>1, <1>2, <1>3, <1>4, <1>5, <1>6, <1>7, <1>8 DEF RunStep

\* Nobody else takes a commit from a branch or fetches what it does not push.
LEMMA OthersKeepInv ==
  ASSUME IInv,
         \/ \E r \in Repos, c \in Commits : CommitLocally(r, c) \/ PushElsewhere(r, c)
         \/ \E r \in Repos : PushFromNode(r) \/ RewriteUpstream(r)
         \/ \E m \in OperatorModes : SetMode(m)
         \/ RestoreByHand \/ GiteaRestore \/ Reattach
  PROVE  IInv'
<1>1. index \in 1..Len(Repositories) /\ Len(Repositories) \in Nat
  BY IndexedRepos DEF IInv, TypeOK
<1>2. \A i \in Passed : Repositories[i] \in Repos
  BY <1>1, IndexedRepos DEF Passed
<1>3. Passed' = Passed
  BY DEF Passed, CommitLocally, PushElsewhere, PushFromNode, RewriteUpstream, SetMode,
         RestoreByHand, GiteaRestore, Reattach
<1>4. ASSUME NEW r \in Repos, NEW c \in Commits, CommitLocally(r, c)
      PROVE  IInv'
  BY <1>2, <1>3, <1>4 DEF CommitLocally, IInv, TypeOK, UpdatedSoFar, node
<1>5. ASSUME NEW r \in Repos, NEW c \in Commits, PushElsewhere(r, c)
      PROVE  IInv'
  BY <1>3, <1>5 DEF PushElsewhere, IInv, TypeOK, UpdatedSoFar, node
<1>6. ASSUME NEW r \in Repos, PushFromNode(r)
      PROVE  IInv'
  BY <1>2, <1>3, <1>6 DEF PushFromNode, IInv, TypeOK, UpdatedSoFar, node
<1>7. ASSUME NEW r \in Repos, RewriteUpstream(r)
      PROVE  IInv'
  BY <1>3, <1>7 DEF RewriteUpstream, IInv, TypeOK, UpdatedSoFar, node
<1>8. CASE RestoreByHand
  <2>1. /\ mode' \in Modes /\ attached' \in [Repos -> BOOLEAN]
        /\ sealed' \in BOOLEAN /\ timer' \in BOOLEAN
    BY <1>8, RestoreTypes DEF RestoreByHand, IInv
  <2> QED BY <1>8, <2>1 DEF RestoreByHand, IInv, TypeOK, UpdatedSoFar
<1>9. CASE Reattach
  BY <1>9, RepositoriesAreGiven DEF Reattach, IInv, TypeOK, UpdatedSoFar, node
<1>10. CASE GiteaRestore
  BY <1>10 DEF GiteaRestore, IInv, TypeOK, UpdatedSoFar, Modes, revisions
<1>11. ASSUME NEW m \in OperatorModes, SetMode(m)
       PROVE  IInv'
  BY <1>3, <1>11, OperatorSetsModes DEF SetMode, IInv, TypeOK, UpdatedSoFar, revisions
<1> QED BY <1>4, <1>5, <1>6, <1>7, <1>8, <1>9, <1>10, <1>11

LEMMA NextKeepsInv == IInv /\ [Next]_vars => IInv'
<1> SUFFICES ASSUME IInv, [Next]_vars PROVE IInv'
  OBVIOUS
<1>1. CASE \E smooth \in BOOLEAN : Begin(smooth)
  BY <1>1, IndexedRepos DEF Begin, IInv, TypeOK, UpdatedSoFar, Passed, revisions, node
<1>2. CASE RunStep
  BY <1>2, RunKeepsInv
<1>3. CASE Reboot
  BY <1>3, RebootBound DEF Reboot, IInv, TypeOK, UpdatedSoFar, revisions
<1>4. CASE UNCHANGED vars
  BY <1>4 DEF vars, IInv, TypeOK, UpdatedSoFar, Passed
<1> QED BY <1>1, <1>2, <1>3, <1>4, OthersKeepInv DEF Next

\* The inductive invariant (converge.go, Run and updateGitRepository): the
\* repositories behind the run have what was fetched for them.
THEOREM GitInvariance == Spec => []IInv
<1>1. Init => IInv
  BY InitialState
<1>2. IInv /\ [Next]_vars => IInv'
  BY NextKeepsInv
<1> QED BY <1>1, <1>2, PTL DEF Spec

\* The playbook runs on everything that this run has fetched, for any number of
\* repositories and commits and whatever others push or rewrite meanwhile.
THEOREM PlaybookRunsOnCurrent == Spec => []PlaybookIsCurrent
<1>1. IInv => PlaybookIsCurrent
  BY DEF IInv, UpdatedSoFar, Passed, PlaybookIsCurrent, Repos
<1> QED BY <1>1, GitInvariance, PTL

\* No step drops a commit from a branch of the node.
THEOREM NodeCommitsStay == Spec => OwnCommitsStay
<1>1. IInv /\ [Next]_vars => [\A r \in Repos : branch[r] \subseteq branch'[r]]_vars
  <2> SUFFICES ASSUME IInv, Next, NEW r \in Repos PROVE branch[r] \subseteq branch'[r]
    BY DEF vars
  <2>0. repo \in Repos
    BY IndexedRepos DEF repo, IInv, TypeOK
  <2>1. CASE Pull
    BY <2>0, <2>1 DEF Pull, IInv, TypeOK
  <2>2. ASSUME NEW s \in Repos, NEW c \in Commits, CommitLocally(s, c)
        PROVE  branch[r] \subseteq branch'[r]
    BY <2>2 DEF CommitLocally, IInv, TypeOK
  <2>3. CASE ~Pull /\ ~(\E s \in Repos, c \in Commits : CommitLocally(s, c))
    BY <2>3 DEF Next, RunStep, Begin, ReadBranch, Fetch, Compare, Playbook, Unseal,
                NestedRestore, Fail, PushElsewhere, PushFromNode, RewriteUpstream, SetMode,
                RestoreByHand, GiteaRestore, Reattach, Reboot, revisions
  <2> QED BY <2>1, <2>2, <2>3
<1> QED BY <1>1, GitInvariance, PTL DEF Spec, OwnCommitsStay
=============================================================================
