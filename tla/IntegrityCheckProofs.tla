------------------------ MODULE IntegrityCheckProofs ------------------------
(***************************************************************************)
(* Proofs about IntegrityCheck, for any number of repositories, parts,     *)
(* checkers, runs and damages, when every checker takes the lock.          *)
(***************************************************************************)
EXTENDS IntegrityCheck, TLAPS

USE DEF Numbers, Places

\* The part after n is again a part; the last one is followed by the first.
LEMMA FollowingPart ==
  ASSUME NEW n \in Numbers
  PROVE  /\ Following(n) \in Numbers
         /\ Following(n) = IF n = Parts THEN 1 ELSE n + 1
<1>. USE IntegrityConstants DEF Following
<1>1. CASE n = Parts
  <2>1. n % Parts = 0 BY <1>1
  <2>. QED BY <1>1, <2>1
<1>2. CASE n # Parts
  <2>1. n % Parts = n BY <1>2
  <2>. QED BY <1>2, <2>1
<1>. QED BY <1>1, <1>2

LEMMA TypeInit == Init => TypeOK
BY IntegrityConstants DEF Init, TypeOK

LEMMA TypeNext == TypeOK /\ [Next]_vars => TypeOK'
<1>. SUFFICES ASSUME TypeOK, [Next]_vars PROVE TypeOK'
  OBVIOUS
<1>. USE IntegrityConstants DEF TypeOK
<1>1. ASSUME NEW c \in Checkers, Begin(c) PROVE TypeOK'
  BY <1>1 DEF Begin
<1>2. ASSUME NEW c \in Checkers, Check(c) PROVE TypeOK'
  BY <1>2 DEF Check, OnToNext
<1>3. ASSUME NEW c \in Checkers, Prune(c) PROVE TypeOK'
  BY <1>3 DEF Prune, OnToNext
<1>4. ASSUME NEW c \in Checkers, Advance(c) PROVE TypeOK'
  <2>1. Following(part[c]) \in Numbers BY FollowingPart
  <2>. QED BY <1>4, <2>1 DEF Advance
<1>5. ASSUME NEW c \in Checkers, Mark(c) PROVE TypeOK'
  BY <1>5 DEF Mark, Leave
<1>6. ASSUME NEW c \in Checkers, Fail(c) PROVE TypeOK'
  BY <1>6 DEF Fail, Leave
<1>7. ASSUME NEW p \in Places, Damage(p) PROVE TypeOK'
  BY <1>7 DEF Damage
<1>8. CASE UNCHANGED vars
  BY <1>8 DEF vars
<1>. QED
  BY <1>1, <1>2, <1>3, <1>4, <1>5, <1>6, <1>7, <1>8 DEF Next, Run

\* The lock keeps the runs apart.
LEMMA OneAtATimeNext ==
  Unlocked = {} /\ TypeOK /\ OneAtATime /\ [Next]_vars => OneAtATime'
<1>. SUFFICES ASSUME Unlocked = {}, TypeOK, OneAtATime, [Next]_vars PROVE OneAtATime'
  OBVIOUS
<1>. USE IntegrityConstants DEF TypeOK, OneAtATime
<1>1. ASSUME NEW c \in Checkers, Begin(c) PROVE OneAtATime'
  BY <1>1 DEF Begin
<1>2. ASSUME NEW c \in Checkers, Check(c) PROVE OneAtATime'
  BY <1>2 DEF Check, OnToNext
<1>3. ASSUME NEW c \in Checkers, Prune(c) PROVE OneAtATime'
  BY <1>3 DEF Prune, OnToNext
<1>4. ASSUME NEW c \in Checkers, Advance(c) PROVE OneAtATime'
  BY <1>4 DEF Advance
<1>5. ASSUME NEW c \in Checkers, Mark(c) PROVE OneAtATime'
  BY <1>5 DEF Mark, Leave
<1>6. ASSUME NEW c \in Checkers, Fail(c) PROVE OneAtATime'
  BY <1>6 DEF Fail, Leave
<1>7. ASSUME NEW p \in Places, Damage(p) PROVE OneAtATime'
  BY <1>7 DEF Damage
<1>8. CASE UNCHANGED vars
  BY <1>8 DEF vars
<1>. QED
  BY <1>1, <1>2, <1>3, <1>4, <1>5, <1>6, <1>7, <1>8 DEF Next, Run

\* Data that are bad when they are read end the run.
LEMMA BadAfterReadingNext ==
  Unlocked = {} /\ TypeOK /\ OneAtATime /\ BadAfterReading /\ [Next]_vars
    => BadAfterReading'
<1>. SUFFICES ASSUME Unlocked = {}, TypeOK, OneAtATime, BadAfterReading, [Next]_vars
              PROVE  BadAfterReading'
  OBVIOUS
<1>. USE IntegrityConstants DEF TypeOK, OneAtATime, BadAfterReading, HasRead
<1>1. ASSUME NEW c \in Checkers, Begin(c) PROVE BadAfterReading'
  <2>1. \A d \in Checkers \ {c} : pc[d] = "idle" /\ pc'[d] = "idle"
    BY <1>1 DEF Begin
  <2>2. pc'[c] = "check" /\ at'[c] = 1
    BY <1>1 DEF Begin
  <2>3. \A d \in Checkers, r \in 1..Count : ~ HasRead(d, r)'
    BY <2>1, <2>2
  <2>. QED BY <2>3
<1>2. ASSUME NEW c \in Checkers, Check(c) PROVE BadAfterReading'
  <2>1. \A d \in Checkers \ {c} : pc[d] = "idle" /\ pc'[d] = "idle"
    BY <1>2 DEF Check, OnToNext
  <2>2. ASSUME NEW r \in 1..Count, HasRead(c, r)' PROVE HasRead(c, r) \/ r = at[c]
    <3>1. pc[c] = "check" /\ at[c] \in 1..Count
      BY <1>2 DEF Check
    <3>2. CASE at[c] < Count
      <4>1. pc'[c] = "check" /\ at'[c] = at[c] + 1
        BY <1>2, <3>2 DEF Check, OnToNext
      <4>. QED BY <2>2, <3>1, <4>1
    <3>3. CASE at[c] = Count
      BY <3>1, <3>3
    <3>. QED BY <3>1, <3>2, <3>3
  <2>3. part[c] = file /\ UNCHANGED <<file, damaged, since>>
    BY <1>2 DEF Check
  <2>4. <<at[c], file>> \notin damaged
    BY <1>2, <2>3 DEF Check
  <2>5. ASSUME NEW r \in 1..Count, HasRead(c, r)', <<r, file>> \in damaged
        PROVE  since[<<r, file>>] = 0
    BY <2>2, <2>4, <2>5
  <2>. QED BY <2>1, <2>3, <2>5
<1>3. ASSUME NEW c \in Checkers, Prune(c) PROVE BadAfterReading'
  <2>1. \A d \in Checkers \ {c} : pc[d] = "idle" /\ pc'[d] = "idle"
    BY <1>3 DEF Prune, OnToNext
  <2>2. \A r \in 1..Count : HasRead(c, r)
    BY <1>3 DEF Prune
  <2>3. damaged' \subseteq damaged /\ UNCHANGED <<file, since>>
    BY <1>3 DEF Prune
  <2>. QED BY <2>1, <2>2, <2>3
<1>4. ASSUME NEW c \in Checkers, Advance(c) PROVE BadAfterReading'
  BY <1>4 DEF Advance
<1>5. ASSUME NEW c \in Checkers, Mark(c) PROVE BadAfterReading'
  BY <1>5 DEF Mark, Leave
<1>6. ASSUME NEW c \in Checkers, Fail(c) PROVE BadAfterReading'
  BY <1>6 DEF Fail, Leave
<1>7. ASSUME NEW p \in Places, Damage(p) PROVE BadAfterReading'
  BY <1>7 DEF Damage
<1>8. CASE UNCHANGED vars
  BY <1>8 DEF vars
<1>. QED
  BY <1>1, <1>2, <1>3, <1>4, <1>5, <1>6, <1>7, <1>8 DEF Next, Run

\* Each marker is paid for by a step of the state file.
LEMMA CountdownNext ==
  Unlocked = {} /\ TypeOK /\ OneAtATime /\ BadAfterReading /\ Countdown /\ [Next]_vars
    => Countdown'
<1>. SUFFICES ASSUME Unlocked = {}, TypeOK, OneAtATime, BadAfterReading, Countdown,
                     [Next]_vars
              PROVE  Countdown'
  OBVIOUS
<1>. USE IntegrityConstants DEF TypeOK, OneAtATime, Countdown, Before
<1>1. ASSUME NEW c \in Checkers, Begin(c) PROVE Countdown'
  BY <1>1 DEF Begin
<1>2. ASSUME NEW c \in Checkers, Check(c) PROVE Countdown'
  BY <1>2 DEF Check, OnToNext
<1>3. ASSUME NEW c \in Checkers, Prune(c) PROVE Countdown'
  BY <1>3 DEF Prune, OnToNext
<1>4. ASSUME NEW c \in Checkers, Advance(c) PROVE Countdown'
  <2>1. file' = IF file = Parts THEN 1 ELSE file + 1
    BY <1>4, FollowingPart DEF Advance
  <2>2. UNCHANGED <<damaged, since>>
    BY <1>4 DEF Advance
  <2>3. ASSUME NEW p \in damaged PROVE since[p] + Before(p[2])' < Parts
    <3>1. PICK r \in 1..Count, n \in Numbers : p = <<r, n>>
      OBVIOUS
    <3>2. since[p] \in Nat
      OBVIOUS
    <3>3. CASE n = file
      <4>1. since[p] = 0
        BY <1>4, <3>1, <3>3 DEF Advance, BadAfterReading, HasRead
      <4>2. Before(n)' <= Parts - 1
        BY <2>1, <3>3
      <4>. QED BY <4>1, <4>2, <3>1, <2>1
    <3>4. CASE n # file
      <4>1. Before(n)' = Before(n) - 1
        BY <2>1, <3>4
      <4>2. since[p] + Before(n) <= Parts
        BY <3>1
      <4>. QED BY <4>1, <4>2, <3>1, <3>2, <2>1
    <3>. QED BY <3>3, <3>4
  <2>4. \A p \in damaged : since[p] \in Nat /\ Before(p[2])' \in Int
    BY <2>1
  <2>. QED BY <2>2, <2>3, <2>4
<1>5. ASSUME NEW c \in Checkers, Mark(c) PROVE Countdown'
  <2>1. UNCHANGED <<file, damaged>> /\ \A p \in damaged : since'[p] = since[p] + 1
    BY <1>5 DEF Mark
  <2>2. \A d \in Checkers : pc'[d] # "mark"
    BY <1>5 DEF Mark, Leave
  <2>3. \A p \in damaged : since[p] + Before(p[2]) < Parts
    BY <1>5 DEF Mark
  <2>4. \A p \in damaged : since[p] \in Nat /\ Before(p[2]) \in Int
    OBVIOUS
  <2>. QED BY <2>1, <2>2, <2>3, <2>4
<1>6. ASSUME NEW c \in Checkers, Fail(c) PROVE Countdown'
  BY <1>6 DEF Fail, Leave
<1>7. ASSUME NEW p \in Places, Damage(p) PROVE Countdown'
  BY <1>7 DEF Damage
<1>8. CASE UNCHANGED vars
  BY <1>8 DEF vars
<1>. QED
  BY <1>1, <1>2, <1>3, <1>4, <1>5, <1>6, <1>7, <1>8 DEF Next, Run

LEMMA IInvInit == Init => IInv
BY TypeInit, IntegrityConstants
DEF Init, IInv, OneAtATime, BadAfterReading, HasRead, Countdown

\* Under the lock the inductive invariant holds in every reachable state.
THEOREM IntegrityInvariance == ASSUME Unlocked = {} PROVE Spec => []IInv
<1>1. IInv /\ [Next]_vars => IInv'
  BY TypeNext, OneAtATimeNext, BadAfterReadingNext, CountdownNext DEF IInv
<1>. QED BY <1>1, IInvInit, PTL DEF Spec

\* Under the lock no bad data outlive a cycle of successful runs.
THEOREM BadDataAreFound == ASSUME Unlocked = {} PROVE Spec => []DamageIsFound
<1>1. IInv => DamageIsFound
  <2>. SUFFICES ASSUME IInv, NEW p \in damaged PROVE since[p] <= Parts
    BY DEF DamageIsFound
  <2>1. since[p] \in Nat /\ Before(p[2]) \in Nat /\ Parts \in Nat
    BY IntegrityConstants DEF IInv, TypeOK, Before
  <2>2. since[p] + Before(p[2]) <= Parts
    BY DEF IInv, Countdown
  <2>. QED BY <2>1, <2>2
<1>. QED BY <1>1, IntegrityInvariance, PTL
=============================================================================
