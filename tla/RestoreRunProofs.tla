--------------------------- MODULE RestoreRunProofs ---------------------------
(***************************************************************************)
(* Proofs about RestoreRun, for any number of restore runs and kills:      *)
(*   - the inductive invariant RunInv;                                     *)
(*   - no application runs on half-replaced data, and a restore ends in    *)
(*     "normal" with every stack running on the restored data;             *)
(*   - restore runs keep the contract of the lock and the mode file.       *)
(* The argument is the order of the program.  RunInv speaks of what a run  *)
(* has done, Done(op, s); the program is spelled out as a list of 36       *)
(* operations, and what is done is decided by how far the run has come.    *)
(***************************************************************************)
EXTENDS RestoreRun, SequenceTheorems, FiniteSetTheorems, TLAPS

-----------------------------------------------------------------------------
(* The program of a run, as a list.                                        *)

Listing == <<
  <<"verify", "node">>,
  <<"stop", "gitea">>, <<"stop", "harbor">>, <<"stop", "keycloak">>, <<"stop", "openbao">>,
  <<"definitions", "node">>,
  <<"clear", "gitea">>, <<"copy", "gitea">>, <<"clear", "harbor">>, <<"copy", "harbor">>,
  <<"database", "keycloak">>, <<"drop", "keycloak">>, <<"load", "keycloak">>,
  <<"down", "keycloak">>,
  <<"database", "gitea">>, <<"drop", "gitea">>, <<"load", "gitea">>, <<"down", "gitea">>,
  <<"database", "harbor">>, <<"drop", "harbor">>, <<"load", "harbor">>, <<"down", "harbor">>,
  <<"vault", "openbao">>, <<"open", "openbao">>, <<"snapshot", "openbao">>,
  <<"down", "openbao">>,
  <<"start", "openbao">>, <<"start", "keycloak">>, <<"start", "harbor">>, <<"start", "gitea">>,
  <<"administrator", "keycloak">>, <<"writable", "harbor">>, <<"unseal", "openbao">>,
  <<"validate", "node">>, <<"declare", "node">>, <<"resume", "node">> >>

OpNames == {"verify", "stop", "definitions", "clear", "copy", "database", "drop", "load",
            "down", "vault", "open", "snapshot", "start", "administrator", "writable",
            "unseal", "validate", "declare", "resume"}
Ops == OpNames \X (Stacks \cup {"node"})

\* The first n operations of the list.
Lists(p, n) == p \in Seq(Ops) /\ Len(p) = n /\ \A i \in 1..n : p[i] = Listing[i]

\* The n operations after the first m.
Continues(q, m, n) == q \in Seq(Ops) /\ Len(q) = n /\ \A j \in 1..n : q[j] = Listing[m + j]

LEMMA ListGrows ==
  ASSUME NEW p, NEW q, NEW m \in Nat, NEW n \in Nat, Lists(p, m), Continues(q, m, n)
  PROVE  Lists(p \o q, m + n)
<1>1. /\ p \o q \in Seq(Ops) /\ Len(p \o q) = m + n
      /\ \A i \in 1..(m + n) : (p \o q)[i] = IF i <= m THEN p[i] ELSE q[i - m]
  BY ConcatProperties, Zenon DEF Lists, Continues
<1>2. ASSUME NEW i \in 1..(m + n) PROVE (p \o q)[i] = Listing[i]
  <2>1. CASE i <= m
    BY <1>1, <2>1 DEF Lists
  <2>2. CASE ~(i <= m)
    <3>1. i - m \in 1..n /\ m + (i - m) = i
      BY <2>2
    <3> QED BY <1>1, <2>2, <3>1 DEF Continues
  <2> QED BY <2>1, <2>2
<1> QED BY <1>1, <1>2 DEF Lists

LEMMA StopLoop == Continues(Each("stop", StopOrder), 1, 4)
<1>1. Each("stop", StopOrder) = << <<"stop", "gitea">>, <<"stop", "harbor">>,
                                  <<"stop", "keycloak">>, <<"stop", "openbao">> >>
  BY DEF Each, StopOrder
<1>2. Continues(<< <<"stop", "gitea">>, <<"stop", "harbor">>, <<"stop", "keycloak">>,
                   <<"stop", "openbao">> >>, 1, 4)
  BY DEF Continues, Listing, Ops, OpNames, Stacks
<1> QED BY <1>1, <1>2, Zenon

LEMMA StartLoop == Continues(Each("start", StartOrder), 26, 4)
<1>1. Each("start", StartOrder) = << <<"start", "openbao">>, <<"start", "keycloak">>,
                                    <<"start", "harbor">>, <<"start", "gitea">> >>
  BY DEF Each, StartOrder
<1>2. Continues(<< <<"start", "openbao">>, <<"start", "keycloak">>, <<"start", "harbor">>,
                   <<"start", "gitea">> >>, 26, 4)
  BY DEF Continues, Listing, Ops, OpNames, Stacks
<1> QED BY <1>1, <1>2, Zenon

\* The operations of a run are those of the list, in its order.
LEMMA ProgramIsListed == Lists(Program, 36)
<1> DEFINE q1 == << <<"verify", "node">> >>
           q2 == Each("stop", StopOrder)
           q3 == << <<"definitions", "node">> >>
           q9 == << <<"vault", "openbao">>, <<"open", "openbao">>, <<"snapshot", "openbao">>,
                    <<"down", "openbao">> >>
           q10 == Each("start", StartOrder)
           q11 == << <<"administrator", "keycloak">>, <<"writable", "harbor">>,
                     <<"unseal", "openbao">> >>
<1>1. Lists(q1, 1)
  BY DEF Lists, Listing, Ops, OpNames, Stacks
<1>2. Continues(q2, 1, 4)
  BY StopLoop
<1>3. Continues(q3, 5, 1)
  BY DEF Continues, Listing, Ops, OpNames, Stacks
<1>4. Continues(Replace("gitea"), 6, 2)
  BY DEF Continues, Replace, Listing, Ops, OpNames, Stacks
<1>5. Continues(Replace("harbor"), 8, 2)
  BY DEF Continues, Replace, Listing, Ops, OpNames, Stacks
<1>6. Continues(Import("keycloak"), 10, 4)
  BY DEF Continues, Import, Listing, Ops, OpNames, Stacks
<1>7. Continues(Import("gitea"), 14, 4)
  BY DEF Continues, Import, Listing, Ops, OpNames, Stacks
<1>8. Continues(Import("harbor"), 18, 4)
  BY DEF Continues, Import, Listing, Ops, OpNames, Stacks
<1>9. Continues(q9, 22, 4)
  BY DEF Continues, Listing, Ops, OpNames, Stacks
<1>10. Continues(q10, 26, 4)
  BY StartLoop
<1>11. Continues(q11, 30, 3)
  BY DEF Continues, Listing, Ops, OpNames, Stacks
<1>12. Continues(Conclusion, 33, 3)
  BY DEF Continues, Conclusion, Listing, Ops, OpNames, Stacks
<1> HIDE DEF q1, q2, q3, q9, q10, q11
<1>a. Lists(q1 \o q2, 5)
  BY <1>1, <1>2, ListGrows, 1 + 4 = 5
<1>b. Lists(q1 \o q2 \o q3, 6)
  BY <1>a, <1>3, ListGrows, 5 + 1 = 6
<1>c. Lists(q1 \o q2 \o q3 \o Replace("gitea"), 8)
  BY <1>b, <1>4, ListGrows, 6 + 2 = 8
<1> DEFINE stopped == q1 \o q2 \o q3 \o Replace("gitea")
           filed == stopped \o Replace("harbor")
           imported == filed \o Import("keycloak") \o Import("gitea") \o Import("harbor")
<1> HIDE DEF stopped
<1>d. Lists(filed, 10)
  BY <1>c, <1>5, ListGrows, 8 + 2 = 10 DEF stopped
<1> HIDE DEF filed
<1>e. Lists(filed \o Import("keycloak"), 14)
  BY <1>d, <1>6, ListGrows, 10 + 4 = 14
<1>f. Lists(filed \o Import("keycloak") \o Import("gitea"), 18)
  BY <1>e, <1>7, ListGrows, 14 + 4 = 18
<1>g. Lists(imported, 22)
  BY <1>f, <1>8, ListGrows, 18 + 4 = 22
<1> HIDE DEF imported
<1>h. Lists(imported \o q9, 26)
  BY <1>g, <1>9, ListGrows, 22 + 4 = 26
<1>i. Lists(imported \o q9 \o q10, 30)
  BY <1>h, <1>10, ListGrows, 26 + 4 = 30
<1>j. Lists(imported \o q9 \o q10 \o q11, 33)
  BY <1>i, <1>11, ListGrows, 30 + 3 = 33
<1>k. Lists((imported \o q9 \o q10 \o q11) \o Conclusion, 36)
  BY <1>j, <1>12, ListGrows, 33 + 3 = 36
<1>l. Replacement = imported \o q9 \o q10 \o q11
  BY Zenon DEF Replacement, imported, filed, stopped, q1, q2, q3, q9, q10, q11
<1> QED BY <1>k, <1>l, Zenon DEF Program

\* An operation occurs once, as the k-th.
IsAt(k, op, s) == \A i \in 1..36 : Listing[i] = <<op, s>> <=> i = k

\* Where each operation is in the list.
LEMMA Places ==
  ASSUME NEW i \in 1..36
  PROVE  /\ Listing[i] = <<"stop", "gitea">> <=> i = 2
         /\ Listing[i] = <<"stop", "harbor">> <=> i = 3
         /\ Listing[i] = <<"stop", "keycloak">> <=> i = 4
         /\ Listing[i] = <<"stop", "openbao">> <=> i = 5
         /\ Listing[i] = <<"clear", "gitea">> <=> i = 7
         /\ Listing[i] = <<"copy", "gitea">> <=> i = 8
         /\ Listing[i] = <<"clear", "harbor">> <=> i = 9
         /\ Listing[i] = <<"copy", "harbor">> <=> i = 10
         /\ Listing[i] = <<"database", "keycloak">> <=> i = 11
         /\ Listing[i] = <<"drop", "keycloak">> <=> i = 12
         /\ Listing[i] = <<"load", "keycloak">> <=> i = 13
         /\ Listing[i] = <<"down", "keycloak">> <=> i = 14
         /\ Listing[i] = <<"database", "gitea">> <=> i = 15
         /\ Listing[i] = <<"drop", "gitea">> <=> i = 16
         /\ Listing[i] = <<"load", "gitea">> <=> i = 17
         /\ Listing[i] = <<"down", "gitea">> <=> i = 18
         /\ Listing[i] = <<"database", "harbor">> <=> i = 19
         /\ Listing[i] = <<"drop", "harbor">> <=> i = 20
         /\ Listing[i] = <<"load", "harbor">> <=> i = 21
         /\ Listing[i] = <<"down", "harbor">> <=> i = 22
         /\ Listing[i] = <<"open", "openbao">> <=> i = 24
         /\ Listing[i] = <<"snapshot", "openbao">> <=> i = 25
         /\ Listing[i] = <<"down", "openbao">> <=> i = 26
         /\ Listing[i] = <<"start", "openbao">> <=> i = 27
         /\ Listing[i] = <<"start", "keycloak">> <=> i = 28
         /\ Listing[i] = <<"start", "harbor">> <=> i = 29
         /\ Listing[i] = <<"start", "gitea">> <=> i = 30
         /\ Listing[i] = <<"writable", "harbor">> <=> i = 32
         /\ Listing[i] = <<"declare", "node">> <=> i = 35
         /\ Listing[i] = <<"resume", "node">> <=> i = 36
BY DEF Listing

LEMMA NoPlace ==
  ASSUME NEW i \in 1..36
  PROVE  /\ Listing[i] # <<"clear", "keycloak">> /\ Listing[i] # <<"clear", "openbao">>
         /\ Listing[i] # <<"copy", "keycloak">> /\ Listing[i] # <<"copy", "openbao">>
         /\ Listing[i] # <<"database", "openbao">>
         /\ Listing[i] # <<"drop", "openbao">> /\ Listing[i] # <<"load", "openbao">>
BY DEF Listing

LEMMA Occurrences ==
  /\ IsAt(2, "stop", "gitea")
  /\ IsAt(3, "stop", "harbor")
  /\ IsAt(4, "stop", "keycloak")
  /\ IsAt(5, "stop", "openbao")
  /\ IsAt(7, "clear", "gitea")
  /\ IsAt(8, "copy", "gitea")
  /\ IsAt(9, "clear", "harbor")
  /\ IsAt(10, "copy", "harbor")
  /\ IsAt(11, "database", "keycloak")
  /\ IsAt(12, "drop", "keycloak")
  /\ IsAt(13, "load", "keycloak")
  /\ IsAt(14, "down", "keycloak")
  /\ IsAt(15, "database", "gitea")
  /\ IsAt(16, "drop", "gitea")
  /\ IsAt(17, "load", "gitea")
  /\ IsAt(18, "down", "gitea")
  /\ IsAt(19, "database", "harbor")
  /\ IsAt(20, "drop", "harbor")
  /\ IsAt(21, "load", "harbor")
  /\ IsAt(22, "down", "harbor")
  /\ IsAt(24, "open", "openbao")
  /\ IsAt(25, "snapshot", "openbao")
  /\ IsAt(26, "down", "openbao")
  /\ IsAt(27, "start", "openbao")
  /\ IsAt(28, "start", "keycloak")
  /\ IsAt(29, "start", "harbor")
  /\ IsAt(30, "start", "gitea")
  /\ IsAt(32, "writable", "harbor")
  /\ IsAt(35, "declare", "node")
  /\ IsAt(36, "resume", "node")
BY Places DEF IsAt

LEMMA PlaceDecides ==
  ASSUME at \in 0..Len(Program), NEW op, NEW s, NEW k \in 1..36, IsAt(k, op, s)
  PROVE  (At(op, s) <=> at = k) /\ (Done(op, s) <=> at > k)
<1>1. Len(Program) = 36 /\ \A i \in 1..36 : Program[i] = <<op, s>> <=> i = k
  BY ProgramIsListed DEF Lists, IsAt
<1>2. At(op, s) <=> at = k
  BY <1>1 DEF At
<1>3. Done(op, s) <=> at > k
  BY <1>1 DEF Done
<1> QED BY <1>2, <1>3

\* What is done is decided by how far the run has come.
LEMMA Progress ==
  ASSUME at \in 0..Len(Program)
  PROVE  /\ (At("stop", "gitea") <=> at = 2) /\ (Done("stop", "gitea") <=> at > 2)
         /\ (At("stop", "harbor") <=> at = 3) /\ (Done("stop", "harbor") <=> at > 3)
         /\ (At("stop", "keycloak") <=> at = 4) /\ (Done("stop", "keycloak") <=> at > 4)
         /\ (At("stop", "openbao") <=> at = 5) /\ (Done("stop", "openbao") <=> at > 5)
         /\ (At("clear", "gitea") <=> at = 7) /\ (Done("clear", "gitea") <=> at > 7)
         /\ (At("copy", "gitea") <=> at = 8) /\ (Done("copy", "gitea") <=> at > 8)
         /\ (At("clear", "harbor") <=> at = 9) /\ (Done("clear", "harbor") <=> at > 9)
         /\ (At("copy", "harbor") <=> at = 10) /\ (Done("copy", "harbor") <=> at > 10)
         /\ (At("database", "keycloak") <=> at = 11) /\ (Done("database", "keycloak") <=> at > 11)
         /\ (At("drop", "keycloak") <=> at = 12) /\ (Done("drop", "keycloak") <=> at > 12)
         /\ (At("load", "keycloak") <=> at = 13) /\ (Done("load", "keycloak") <=> at > 13)
         /\ (At("down", "keycloak") <=> at = 14) /\ (Done("down", "keycloak") <=> at > 14)
         /\ (At("database", "gitea") <=> at = 15) /\ (Done("database", "gitea") <=> at > 15)
         /\ (At("drop", "gitea") <=> at = 16) /\ (Done("drop", "gitea") <=> at > 16)
         /\ (At("load", "gitea") <=> at = 17) /\ (Done("load", "gitea") <=> at > 17)
         /\ (At("down", "gitea") <=> at = 18) /\ (Done("down", "gitea") <=> at > 18)
         /\ (At("database", "harbor") <=> at = 19) /\ (Done("database", "harbor") <=> at > 19)
         /\ (At("drop", "harbor") <=> at = 20) /\ (Done("drop", "harbor") <=> at > 20)
         /\ (At("load", "harbor") <=> at = 21) /\ (Done("load", "harbor") <=> at > 21)
         /\ (At("down", "harbor") <=> at = 22) /\ (Done("down", "harbor") <=> at > 22)
         /\ (At("open", "openbao") <=> at = 24) /\ (Done("open", "openbao") <=> at > 24)
         /\ (At("snapshot", "openbao") <=> at = 25) /\ (Done("snapshot", "openbao") <=> at > 25)
         /\ (At("down", "openbao") <=> at = 26) /\ (Done("down", "openbao") <=> at > 26)
         /\ (At("start", "openbao") <=> at = 27) /\ (Done("start", "openbao") <=> at > 27)
         /\ (At("start", "keycloak") <=> at = 28) /\ (Done("start", "keycloak") <=> at > 28)
         /\ (At("start", "harbor") <=> at = 29) /\ (Done("start", "harbor") <=> at > 29)
         /\ (At("start", "gitea") <=> at = 30) /\ (Done("start", "gitea") <=> at > 30)
         /\ (At("writable", "harbor") <=> at = 32) /\ (Done("writable", "harbor") <=> at > 32)
         /\ (At("declare", "node") <=> at = 35) /\ (Done("declare", "node") <=> at > 35)
         /\ (At("resume", "node") <=> at = 36) /\ (Done("resume", "node") <=> at > 36)
BY Occurrences, PlaceDecides

LEMMA Absent ==
  ASSUME at \in 0..Len(Program)
  PROVE  /\ ~At("clear", "keycloak") /\ ~At("clear", "openbao")
         /\ ~At("copy", "keycloak") /\ ~At("copy", "openbao")
         /\ ~At("database", "openbao") /\ ~At("drop", "openbao") /\ ~At("load", "openbao")
<1>1. Len(Program) = 36 /\ \A i \in 1..36 : Program[i] = Listing[i]
  BY ProgramIsListed DEF Lists
<1>2. at > 0 => at \in 1..36
  BY <1>1
<1>3. at > 0 => Program[at] = Listing[at]
  BY <1>1, <1>2
<1> QED BY <1>2, <1>3, NoPlace DEF At

\* What the order of the program comes down to.
LEMMA Order ==
  ASSUME at \in 0..Len(Program)
  PROVE  /\ \A s \in WithDatabase, op \in {"clear", "copy", "drop", "load"} :
              At(op, s) => Done("stop", s) /\ ~Done("start", s)
         /\ \A s \in Stacks, op \in {"stop", "database", "down"} : At(op, s) => ~Done("start", s)
         /\ \A s \in WithFiles : At("clear", s) => ~Done("copy", s)
         /\ \A s \in WithDatabase : At("drop", s) => ~Done("load", s)
         /\ At("open", "openbao") => ~Done("snapshot", "openbao")
         /\ At("load", "harbor") => ~Done("writable", "harbor")
         /\ \A s \in WithDatabase : At("start", s) => Done("load", s)
         /\ \A s \in WithFiles : At("start", s) => Done("copy", s)
<1>1. ASSUME NEW s \in WithDatabase
      PROVE  /\ At("clear", s) => Done("stop", s) /\ ~Done("start", s)
             /\ At("copy", s) => Done("stop", s) /\ ~Done("start", s)
  <2>3. CASE s = "keycloak"
    BY <2>3, Absent
  <2>4. CASE s = "harbor"
    BY <2>4, Progress
  <2>5. CASE s = "gitea"
    BY <2>5, Progress
  <2> QED BY <2>3, <2>4, <2>5 DEF WithDatabase
<1>2. ASSUME NEW s \in WithDatabase
      PROVE  /\ At("drop", s) => Done("stop", s) /\ ~Done("start", s) /\ ~Done("load", s)
             /\ At("load", s) => Done("stop", s) /\ ~Done("start", s)
             /\ At("database", s) => ~Done("start", s)
             /\ At("start", s) => Done("load", s)
  <2>1. CASE s = "keycloak"
    BY <2>1, Progress
  <2>2. CASE s = "harbor"
    BY <2>2, Progress
  <2>3. CASE s = "gitea"
    BY <2>3, Progress
  <2> QED BY <2>1, <2>2, <2>3 DEF WithDatabase
<1>3. ASSUME NEW s \in Stacks
      PROVE  /\ At("stop", s) => ~Done("start", s)
             /\ At("database", s) => ~Done("start", s)
             /\ At("down", s) => ~Done("start", s)
  <2>3. CASE s = "openbao"
    BY <2>3, Absent, Progress
  <2>4. CASE s = "keycloak"
    BY <2>4, Progress
  <2>5. CASE s = "harbor"
    BY <2>5, Progress
  <2>6. CASE s = "gitea"
    BY <2>6, Progress
  <2> QED BY <2>3, <2>4, <2>5, <2>6 DEF Stacks
<1>4. ASSUME NEW s \in WithFiles
      PROVE  /\ At("clear", s) => ~Done("copy", s)
             /\ At("start", s) => Done("copy", s)
  <2>1. CASE s = "harbor"
    BY <2>1, Progress
  <2>2. CASE s = "gitea"
    BY <2>2, Progress
  <2> QED BY <2>1, <2>2 DEF WithFiles
<1>5. At("open", "openbao") => ~Done("snapshot", "openbao")
  BY Progress
<1>6. At("load", "harbor") => ~Done("writable", "harbor")
  BY Progress
<1>7. \A s \in WithDatabase, op \in {"clear", "copy", "drop", "load"} :
        At(op, s) => Done("stop", s) /\ ~Done("start", s)
  BY <1>1, <1>2
<1>8. \A s \in Stacks, op \in {"stop", "database", "down"} : At(op, s) => ~Done("start", s)
  BY <1>3
<1> QED BY <1>2, <1>4, <1>5, <1>6, <1>7, <1>8

\* ... and how it ends.
LEMMA Ending ==
  ASSUME at \in 0..Len(Program)
  PROVE  /\ at > 0 => (At("resume", "node") <=> Done("declare", "node"))
         /\ at > 0 /\ ~At("resume", "node") => at + 1 \in 1..Len(Program)
         /\ At("declare", "node") =>
              /\ \A s \in Stacks : Done("start", s)
              /\ \A s \in WithFiles : Done("copy", s)
              /\ \A s \in WithDatabase : Done("load", s)
              /\ Done("snapshot", "openbao") /\ Done("writable", "harbor")
<1>1. Len(Program) = 36
  BY ProgramIsListed DEF Lists
<1> QED BY <1>1, Progress DEF Stacks, WithFiles, WithDatabase

\* What is done when the run goes on, and when it begins or ends.
LEMMA DoneGrows ==
  ASSUME at \in 1..Len(Program), at' = at + 1, NEW op, NEW s
  PROVE  Done(op, s)' <=> Done(op, s) \/ At(op, s)
<1>1. Len(Program) = 36
  BY ProgramIsListed DEF Lists
<1> QED BY <1>1 DEF Done, At

LEMMA NothingDone ==
  ASSUME at' \in {0, 1}, NEW op, NEW s
  PROVE  ~Done(op, s)'
<1>1. Len(Program) = 36
  BY ProgramIsListed DEF Lists
<1> QED BY <1>1 DEF Done

-----------------------------------------------------------------------------
(* Whole and half-replaced data.                                           *)

LEMMA NewIsWhole ==
  ASSUME NEW s \in WithDatabase, HalvesOf(s) = {"new"}
  PROVE  Whole(s)
<1>1. Cardinality({"new"}) = 1
  BY FS_Singleton
<1> QED BY <1>1 DEF Whole, WithDatabase

LEMMA ReplacedIsNew ==
  ASSUME NEW s \in WithDatabase, s \in WithFiles => files[s] = "new", database[s] = "new"
  PROVE  HalvesOf(s) = {"new"}
BY DEF HalvesOf, WithDatabase, WithFiles

LEMMA SameData ==
  ASSUME NEW s \in WithDatabase, s \in WithFiles => files'[s] = files[s],
         database'[s] = database[s]
  PROVE  HalvesOf(s)' = HalvesOf(s) /\ (Whole(s)' <=> Whole(s))
<1>1. HalvesOf(s)' = HalvesOf(s)
  BY DEF HalvesOf, WithDatabase, WithFiles
<1> QED BY <1>1 DEF Whole, WithDatabase

LEMMA SameWhole ==
  ASSUME UNCHANGED data, NEW s
  PROVE  HalvesOf(s)' = HalvesOf(s) /\ (Whole(s)' <=> Whole(s))
<1>1. HalvesOf(s)' = HalvesOf(s)
  BY DEF data, HalvesOf
<1> QED BY <1>1 DEF data, Whole

\* Service stays on whole data where only stacks that do not run are worked on,
\* and a stack is started on the new data.
LEMMA ServiceStays ==
  ASSUME NoServiceOnHalfData,
         \A s \in WithDatabase : app'[s] = "up" =>
           \/ /\ app[s] = "up"
              /\ s \in WithFiles => files'[s] = files[s]
              /\ database'[s] = database[s]
           \/ (s \in WithFiles => files'[s] = "new") /\ database'[s] = "new"
  PROVE  NoServiceOnHalfData'
<1> SUFFICES ASSUME NEW s \in WithDatabase, app'[s] = "up" PROVE Whole(s)'
  BY DEF NoServiceOnHalfData
<1>1. CASE app[s] = "up" /\ (s \in WithFiles => files'[s] = files[s]) /\ database'[s] = database[s]
  BY <1>1, SameData DEF NoServiceOnHalfData
<1>2. CASE (s \in WithFiles => files'[s] = "new") /\ database'[s] = "new"
  <2>1. HalvesOf(s)' = {"new"}
    BY <1>2 DEF HalvesOf, WithDatabase, WithFiles
  <2>2. Cardinality({"new"}) = 1
    BY FS_Singleton
  <2> QED BY <2>1, <2>2 DEF Whole, WithDatabase
<1> QED BY <1>1, <1>2

-----------------------------------------------------------------------------
(* The inductive invariant.                                                *)

LEMMA RunInitState == Init => RunInv
<1> SUFFICES ASSUME Init PROVE RunInv
  OBVIOUS
<1>1. Len(Program) = 36
  BY ProgramIsListed DEF Lists
<1>2. \A op, s : ~Done(op, s)
  BY <1>1 DEF Init, Done
<1>3. \A s \in WithDatabase : HalvesOf(s) = {"old"}
  BY DEF Init, HalvesOf, WithDatabase, WithFiles
<1>4. Cardinality({"old"}) = 1
  BY FS_Singleton
<1>5. NoServiceOnHalfData
  BY <1>3, <1>4 DEF NoServiceOnHalfData, Whole, WithDatabase
<1>6. TypeOK
  <2>1. app \in [Stacks -> {"down", "database", "up"}] /\ mode \in Modes
        /\ vault \in {"blank", "old", "temporary", "new"}
    BY DEF Init, Modes
  <2>2. files \in [WithFiles -> Halves] /\ database \in [WithDatabase -> Halves]
    BY DEF Init, Halves
  <2>3. at = 0 /\ readOnly = FALSE /\ runs = 0 /\ crashes = 0
    BY DEF Init
  <2>4. at \in 0..Len(Program) /\ runs \in 0..MaxRuns /\ crashes \in 0..MaxCrashes
    BY <1>1, <2>3, RestoreBounds
  <2> QED BY <2>1, <2>2, <2>3, <2>4 DEF TypeOK
<1>7. RestoringUntilDeclared
  BY DEF Init, RestoringUntilDeclared
<1>8. QuietWhileReplaced /\ ReplacedSoFar
  BY <1>2 DEF QuietWhileReplaced, ReplacedSoFar
<1> QED BY <1>5, <1>6, <1>7, <1>8 DEF RunInv

\* The run comes to its next operation.
LEMMA GoesOn ==
  ASSUME RunInv, NEW op, NEW s, At(op, s), <<op, s>> # <<"resume", "node">>, at' = at + 1,
         mode' = IF <<op, s>> = <<"declare", "node">> THEN "normal" ELSE mode
  PROVE  /\ at' \in 0..Len(Program) /\ mode' \in Modes /\ RestoringUntilDeclared'
         /\ \A o, t : Done(o, t)' <=> Done(o, t) \/ (o = op /\ t = s)
<1>1. /\ at \in 0..Len(Program) /\ mode \in Modes /\ RestoringUntilDeclared
      /\ at > 0 /\ Program[at] = <<op, s>>
  BY DEF RunInv, TypeOK, At
<1>2. ~At("resume", "node")
  BY <1>1 DEF At
<1>3. at \in 1..Len(Program) /\ at' \in 1..Len(Program)
  BY <1>1, <1>2, Ending
<1>4. ASSUME NEW o, NEW t PROVE Done(o, t)' <=> Done(o, t) \/ (o = op /\ t = s)
  <2>1. Done(o, t)' <=> Done(o, t) \/ At(o, t)
    BY <1>3, DoneGrows
  <2>2. At(o, t) <=> (o = op /\ t = s)
    BY <1>1 DEF At
  <2> QED BY <2>1, <2>2
<1>5. Done("declare", "node")' <=> Done("declare", "node") \/ <<op, s>> = <<"declare", "node">>
  BY <1>4
<1>6. RestoringUntilDeclared'
  BY <1>1, <1>3, <1>5 DEF RestoringUntilDeclared
<1> QED BY <1>1, <1>3, <1>4, <1>6 DEF Modes

\* An operation that touches no data and neither stops nor starts an application.
LEMMA NothingTouched ==
  ASSUME RunInv, NEW op, NEW s, At(op, s),
         op \notin {"resume", "stop", "start", "copy", "load", "snapshot", "writable"},
         at' = at + 1, mode' = IF <<op, s>> = <<"declare", "node">> THEN "normal" ELSE mode,
         UNCHANGED <<app, data, limits>>
  PROVE  RunInv'
<1>1. /\ at' \in 0..Len(Program) /\ mode' \in Modes /\ RestoringUntilDeclared'
      /\ \A o, t : Done(o, t)' <=> Done(o, t) \/ (o = op /\ t = s)
  BY GoesOn
<1>2. TypeOK'
  BY <1>1 DEF RunInv, TypeOK, data, limits
<1>3. QuietWhileReplaced' /\ ReplacedSoFar'
  BY <1>1 DEF RunInv, QuietWhileReplaced, ReplacedSoFar, data
<1>4. NoServiceOnHalfData'
  BY ServiceStays DEF RunInv, data
<1> QED BY <1>1, <1>2, <1>3, <1>4 DEF RunInv

\* A stack is stopped, or what was started for its database is removed.
LEMMA GoesDown ==
  ASSUME RunInv, NEW op \in {"stop", "down"}, NEW s \in Stacks, At(op, s),
         at' = at + 1, NEW result \in {"down", app[s]},
         op = "stop" => result = "down",
         app' = [app EXCEPT ![s] = result], UNCHANGED <<mode, data, limits>>
  PROVE  RunInv'
<1>1. /\ at' \in 0..Len(Program) /\ mode' \in Modes /\ RestoringUntilDeclared'
      /\ \A o, t : Done(o, t)' <=> Done(o, t) \/ (o = op /\ t = s)
  BY GoesOn
<1>2. TypeOK /\ QuietWhileReplaced /\ ReplacedSoFar /\ NoServiceOnHalfData
      /\ at \in 0..Len(Program)
  BY DEF RunInv, TypeOK
<1>3. ~Done("start", s)
  BY <1>2, Order
<1>4. TypeOK'
  BY <1>1, <1>2 DEF TypeOK, data, limits
<1>5. /\ \A t \in Stacks \ {s} : app'[t] = app[t]
      /\ app'[s] \in {"down", app[s]}
      /\ op = "stop" => app'[s] = "down"
  BY <1>2 DEF TypeOK
<1>6. QuietWhileReplaced'
  <2>1. ASSUME NEW t \in WithDatabase, Done("stop", t)', ~Done("start", t)' PROVE app'[t] # "up"
    BY <1>1, <1>2, <1>5, <2>1 DEF QuietWhileReplaced, WithDatabase, Stacks
  <2>2. ASSUME NEW t \in Stacks, Done("start", t)' PROVE app'[t] = "up"
    BY <1>1, <1>2, <1>3, <1>5, <2>2 DEF QuietWhileReplaced
  <2> QED BY <2>1, <2>2 DEF QuietWhileReplaced
<1>7. ReplacedSoFar'
  BY <1>1, <1>2 DEF ReplacedSoFar, data
<1>8. \A t \in WithDatabase : app'[t] = "up" => app[t] = "up"
  BY <1>5 DEF WithDatabase, Stacks
<1>9. NoServiceOnHalfData'
  BY <1>2, <1>8, ServiceStays DEF data
<1> QED BY <1>1, <1>4, <1>6, <1>7, <1>9 DEF RunInv

LEMMA StopKeepsInv ==
  ASSUME RunInv, NEW s \in Stacks, StopStack(s) \/ DownAfterImport(s)
  PROVE  RunInv'
BY GoesDown DEF StopStack, DownAfterImport, Advance

\* The database alone is started, of a stack that is not started yet.
LEMMA StartDatabaseKeepsInv ==
  ASSUME RunInv, NEW s \in Stacks, StartDatabase(s)
  PROVE  RunInv'
<1>1. /\ At("database", s) /\ at' = at + 1 /\ UNCHANGED <<mode, data, limits>>
      /\ app' = [app EXCEPT ![s] = "database"]
  BY DEF StartDatabase, Advance
<1>2. TypeOK /\ QuietWhileReplaced /\ ReplacedSoFar /\ NoServiceOnHalfData
      /\ at \in 0..Len(Program)
  BY DEF RunInv, TypeOK
<1>3. /\ at' \in 0..Len(Program) /\ mode' \in Modes /\ RestoringUntilDeclared'
      /\ \A o, t : Done(o, t)' <=> Done(o, t) \/ (o = "database" /\ t = s)
  BY <1>1, GoesOn
<1>4. ~Done("start", s)
  BY <1>1, <1>2, Order
<1>5. TypeOK'
  BY <1>1, <1>2, <1>3 DEF TypeOK, data, limits
<1>6. (\A t \in Stacks \ {s} : app'[t] = app[t]) /\ app'[s] = "database"
  BY <1>1, <1>2 DEF TypeOK
<1>7. QuietWhileReplaced'
  <2>1. ASSUME NEW t \in WithDatabase, Done("stop", t)', ~Done("start", t)' PROVE app'[t] # "up"
    BY <1>2, <1>3, <1>6, <2>1 DEF QuietWhileReplaced, WithDatabase, Stacks
  <2>2. ASSUME NEW t \in Stacks, Done("start", t)' PROVE app'[t] = "up"
    BY <1>2, <1>3, <1>4, <1>6, <2>2 DEF QuietWhileReplaced
  <2> QED BY <2>1, <2>2 DEF QuietWhileReplaced
<1>8. ReplacedSoFar'
  BY <1>1, <1>2, <1>3 DEF ReplacedSoFar, data
<1>9. \A t \in WithDatabase : app'[t] = "up" => app[t] = "up"
  BY <1>6 DEF WithDatabase, Stacks
<1>10. NoServiceOnHalfData'
  BY <1>1, <1>2, <1>9, ServiceStays DEF data
<1> QED BY <1>3, <1>5, <1>7, <1>8, <1>10 DEF RunInv

\* A stack is started: all that belongs to it has been replaced.
LEMMA StartKeepsInv ==
  ASSUME RunInv, NEW s \in Stacks, StartStack(s)
  PROVE  RunInv'
<1>1. /\ At("start", s) /\ at' = at + 1 /\ UNCHANGED <<mode, data, limits>>
      /\ app' = [app EXCEPT ![s] = "up"]
  BY DEF StartStack, Advance
<1>2. TypeOK /\ QuietWhileReplaced /\ ReplacedSoFar /\ NoServiceOnHalfData
      /\ at \in 0..Len(Program)
  BY DEF RunInv, TypeOK
<1>3. /\ at' \in 0..Len(Program) /\ mode' \in Modes /\ RestoringUntilDeclared'
      /\ \A o, t : Done(o, t)' <=> Done(o, t) \/ (o = "start" /\ t = s)
  BY <1>1, GoesOn
<1>4. TypeOK'
  BY <1>1, <1>2, <1>3 DEF TypeOK, data, limits
<1>5. (\A t \in Stacks \ {s} : app'[t] = app[t]) /\ app'[s] = "up"
  BY <1>1, <1>2 DEF TypeOK
<1>6. QuietWhileReplaced'
  BY <1>2, <1>3, <1>5 DEF QuietWhileReplaced, WithDatabase, Stacks
<1>7. ReplacedSoFar'
  BY <1>1, <1>2, <1>3 DEF ReplacedSoFar, data
<1>8. /\ s \in WithFiles => files'[s] = "new"
      /\ s \in WithDatabase => database'[s] = "new"
  BY <1>1, <1>2, Order DEF ReplacedSoFar, data
<1>9. \A t \in WithDatabase \ {s} : app'[t] = app[t]
  BY <1>5 DEF WithDatabase, Stacks
<1>10. NoServiceOnHalfData'
  BY <1>1, <1>2, <1>8, <1>9, ServiceStays DEF data
<1> QED BY <1>3, <1>4, <1>6, <1>7, <1>10 DEF RunInv

\* Files or a database are taken apart or replaced: of a stack that is stopped.
LEMMA ReworkKeepsInv ==
  ASSUME RunInv, NEW s \in WithDatabase, NEW op \in {"clear", "copy", "drop", "load"},
         At(op, s), at' = at + 1, UNCHANGED <<mode, app, vault, limits>>,
         files' \in [WithFiles -> Halves], database' \in [WithDatabase -> Halves],
         \A t \in WithFiles :
           files'[t] = IF t = s THEN CASE op = "clear" -> "broken"
                                      [] op = "copy" -> "new"
                                      [] OTHER -> files[t]
                                ELSE files[t],
         \A t \in WithDatabase :
           database'[t] = IF t = s THEN CASE op = "drop" -> "broken"
                                         [] op = "load" -> "new"
                                         [] OTHER -> database[t]
                                   ELSE database[t],
         readOnly' = (readOnly \/ (op = "load" /\ s = "harbor"))
  PROVE  RunInv'
<1>1. TypeOK /\ QuietWhileReplaced /\ ReplacedSoFar /\ NoServiceOnHalfData
      /\ at \in 0..Len(Program)
  BY DEF RunInv, TypeOK
<1>2. /\ at' \in 0..Len(Program) /\ mode' \in Modes /\ RestoringUntilDeclared'
      /\ \A o, t : Done(o, t)' <=> Done(o, t) \/ (o = op /\ t = s)
  BY GoesOn
<1>3. Done("stop", s) /\ ~Done("start", s) /\ app[s] # "up"
  BY <1>1, Order DEF QuietWhileReplaced
<1>4. TypeOK'
  BY <1>1, <1>2 DEF TypeOK, limits
<1>5. QuietWhileReplaced'
  BY <1>1, <1>2 DEF QuietWhileReplaced
<1>6. ReplacedSoFar'
  <2>1. ASSUME NEW t \in WithFiles, Done("copy", t)' PROVE files'[t] = "new"
    <3>1. CASE t = s /\ op = "clear"
      BY <1>1, <1>2, <2>1, <3>1, Order
    <3>2. CASE t = s /\ op = "copy"
      BY <3>2
    <3>3. CASE ~(t = s /\ op \in {"clear", "copy"})
      BY <1>1, <1>2, <2>1, <3>3 DEF ReplacedSoFar
    <3> QED BY <3>1, <3>2, <3>3
  <2>2. ASSUME NEW t \in WithDatabase, Done("load", t)' PROVE database'[t] = "new"
    <3>1. CASE t = s /\ op = "drop"
      BY <1>1, <1>2, <2>2, <3>1, Order
    <3>2. CASE t = s /\ op = "load"
      BY <3>2
    <3>3. CASE ~(t = s /\ op \in {"drop", "load"})
      BY <1>1, <1>2, <2>2, <3>3 DEF ReplacedSoFar
    <3> QED BY <3>1, <3>2, <3>3
  <2>3. Done("snapshot", "openbao")' => vault' = "new"
    BY <1>1, <1>2 DEF ReplacedSoFar
  <2>4. Done("writable", "harbor")' => ~readOnly'
    <3>1. Done("writable", "harbor")' => Done("writable", "harbor")
      BY <1>2
    <3>2. Done("writable", "harbor") => ~(op = "load" /\ s = "harbor")
      BY <1>1, Order
    <3>3. Done("writable", "harbor") => ~readOnly
      BY <1>1 DEF ReplacedSoFar
    <3> QED BY <3>1, <3>2, <3>3, Zenon
  <2> QED BY <2>1, <2>2, <2>3, <2>4 DEF ReplacedSoFar
<1>7. NoServiceOnHalfData'
  BY <1>1, <1>3, ServiceStays
<1> QED BY <1>2, <1>4, <1>5, <1>6, <1>7 DEF RunInv

\* The storage of OpenBao is opened or replaced.
LEMMA VaultKeepsInv ==
  ASSUME RunInv, OpenVault \/ ImportSnapshot
  PROVE  RunInv'
<1>1. TypeOK /\ QuietWhileReplaced /\ ReplacedSoFar /\ NoServiceOnHalfData
      /\ at \in 0..Len(Program)
  BY DEF RunInv, TypeOK
<1>2. PICK op \in {"open", "snapshot"} :
        /\ At(op, "openbao") /\ at' = at + 1
        /\ UNCHANGED <<mode, app, files, database, readOnly, limits>>
        /\ vault' = IF op = "snapshot" THEN "new"
                    ELSE IF vault = "blank" THEN "temporary" ELSE vault
  BY DEF OpenVault, ImportSnapshot, Advance
<1>3. /\ at' \in 0..Len(Program) /\ mode' \in Modes /\ RestoringUntilDeclared'
      /\ \A o, t : Done(o, t)' <=> Done(o, t) \/ (o = op /\ t = "openbao")
  BY <1>2, GoesOn
<1>4. TypeOK'
  BY <1>1, <1>2, <1>3 DEF TypeOK, limits
<1>5. QuietWhileReplaced'
  BY <1>1, <1>2, <1>3 DEF QuietWhileReplaced
<1>6. ReplacedSoFar'
  BY <1>1, <1>2, <1>3, Order DEF ReplacedSoFar
<1>7. NoServiceOnHalfData'
  BY <1>1, <1>2, ServiceStays
<1> QED BY <1>3, <1>4, <1>5, <1>6, <1>7 DEF RunInv

LEMMA WritableKeepsInv ==
  ASSUME RunInv, RestoreHarborWritable
  PROVE  RunInv'
<1>1. TypeOK /\ QuietWhileReplaced /\ ReplacedSoFar /\ NoServiceOnHalfData
  BY DEF RunInv
<1>2. /\ At("writable", "harbor") /\ at' = at + 1 /\ readOnly' = FALSE
      /\ UNCHANGED <<mode, app, files, database, vault, limits>>
  BY DEF RestoreHarborWritable, Advance
<1>3. /\ at' \in 0..Len(Program) /\ mode' \in Modes /\ RestoringUntilDeclared'
      /\ \A o, t : Done(o, t)' <=> Done(o, t) \/ (o = "writable" /\ t = "harbor")
  BY <1>2, GoesOn
<1>4. TypeOK'
  BY <1>1, <1>2, <1>3 DEF TypeOK, limits
<1>5. QuietWhileReplaced' /\ ReplacedSoFar'
  BY <1>1, <1>2, <1>3 DEF QuietWhileReplaced, ReplacedSoFar
<1>6. NoServiceOnHalfData'
  BY <1>1, <1>2, ServiceStays
<1> QED BY <1>3, <1>4, <1>5, <1>6 DEF RunInv

\* A run ends, or none runs: the data of the applications stay as they are.
LEMMA AtRest ==
  ASSUME RunInv, at' = 0, mode' \in Modes,
         app' \in [Stacks -> {"down", "database", "up"}],
         \A s \in WithDatabase : app'[s] = app[s],
         UNCHANGED <<files, database, readOnly>>,
         vault' \in {"blank", "old", "temporary", "new"},
         runs' \in 0..MaxRuns, crashes' \in 0..MaxCrashes
  PROVE  RunInv'
<1>1. \A o, t : ~Done(o, t)'
  BY NothingDone
<1>2. TypeOK'
  <2>1. Len(Program) = 36
    BY ProgramIsListed DEF Lists
  <2>2. at' \in 0..Len(Program)
    BY <2>1
  <2> QED BY <2>2 DEF RunInv, TypeOK
<1>3. RestoringUntilDeclared' /\ QuietWhileReplaced' /\ ReplacedSoFar'
  BY <1>1 DEF RestoringUntilDeclared, QuietWhileReplaced, ReplacedSoFar
<1>4. NoServiceOnHalfData'
  BY ServiceStays DEF RunInv
<1> QED BY <1>2, <1>3, <1>4 DEF RunInv

\* Only a stack that has files or a database comes to their replacement.
LEMMA HasData ==
  ASSUME at \in 0..Len(Program), NEW s \in Stacks
  PROVE  /\ At("clear", s) \/ At("copy", s) => s \in WithFiles
         /\ At("drop", s) \/ At("load", s) => s \in WithDatabase
BY Absent DEF Stacks, WithFiles, WithDatabase

\* Each operation keeps the invariant.
LEMMA OperationKeepsInv == RunInv /\ Operation => RunInv'
<1> SUFFICES ASSUME RunInv, Operation PROVE RunInv'
  OBVIOUS
<1>0. TypeOK /\ QuietWhileReplaced /\ ReplacedSoFar /\ NoServiceOnHalfData
      /\ at \in 0..Len(Program) /\ RestoringUntilDeclared
  BY DEF RunInv, TypeOK
<1>1. CASE Verify
  BY <1>1, NothingTouched DEF Verify, Advance
<1>2. CASE RestoreDefinitions
  BY <1>2, NothingTouched DEF RestoreDefinitions, Advance
<1>3. CASE RestoreKeycloakAdmin
  BY <1>3, NothingTouched DEF RestoreKeycloakAdmin, Advance
<1>4. CASE UnsealVault
  BY <1>4, NothingTouched DEF UnsealVault, Advance
<1>5. CASE Validate
  BY <1>5, NothingTouched DEF Validate, Advance
<1>6. CASE DeclareNormal
  BY <1>6, NothingTouched DEF DeclareNormal, Advance
<1>7. ASSUME NEW s \in Stacks, StopStack(s) \/ DownAfterImport(s) PROVE RunInv'
  BY <1>7, StopKeepsInv
<1>8. ASSUME NEW s \in Stacks, StartStack(s) PROVE RunInv'
  BY <1>8, StartKeepsInv
<1>9. ASSUME NEW s \in Stacks, StartDatabase(s) PROVE RunInv'
  BY <1>9, StartDatabaseKeepsInv
<1>10. ASSUME NEW s \in Stacks, ClearFiles(s) PROVE RunInv'
  <2>1. s \in WithFiles /\ s \in WithDatabase
    BY <1>0, <1>10, HasData DEF ClearFiles, WithFiles, WithDatabase
  <2> QED BY <1>0, <1>10, <2>1, ReworkKeepsInv DEF ClearFiles, Advance, TypeOK, Halves
<1>11. ASSUME NEW s \in Stacks, CopyFiles(s) PROVE RunInv'
  <2>1. s \in WithFiles /\ s \in WithDatabase
    BY <1>0, <1>11, HasData DEF CopyFiles, WithFiles, WithDatabase
  <2> QED BY <1>0, <1>11, <2>1, ReworkKeepsInv DEF CopyFiles, Advance, TypeOK, Halves
<1>12. ASSUME NEW s \in Stacks, DropDatabase(s) PROVE RunInv'
  <2>1. s \in WithDatabase
    BY <1>0, <1>12, HasData DEF DropDatabase
  <2> QED BY <1>0, <1>12, <2>1, ReworkKeepsInv DEF DropDatabase, Advance, TypeOK, Halves
<1>13. ASSUME NEW s \in Stacks, LoadDatabase(s) PROVE RunInv'
  <2>1. s \in WithDatabase
    BY <1>0, <1>13, HasData DEF LoadDatabase
  <2> QED BY <1>0, <1>13, <2>1, ReworkKeepsInv DEF LoadDatabase, Advance, TypeOK, Halves
<1>14. CASE StartVault
  <2>1. /\ At("vault", "openbao") /\ at' = at + 1 /\ UNCHANGED <<mode, data, limits>>
        /\ app' = [app EXCEPT !["openbao"] = "up"]
    BY <1>14 DEF StartVault, Advance
  <2>2. /\ at' \in 0..Len(Program) /\ mode' \in Modes /\ RestoringUntilDeclared'
        /\ \A o, t : Done(o, t)' <=> Done(o, t) \/ (o = "vault" /\ t = "openbao")
    BY <2>1, GoesOn
  <2>3. TypeOK'
    BY <1>0, <2>1, <2>2 DEF TypeOK, data, limits
  <2>4. (\A t \in Stacks \ {"openbao"} : app'[t] = app[t]) /\ app'["openbao"] = "up"
    BY <1>0, <2>1 DEF TypeOK, Stacks
  <2>5. \A t \in WithDatabase : app'[t] = app[t]
    BY <2>4 DEF WithDatabase, Stacks
  <2>6. QuietWhileReplaced'
    BY <1>0, <2>2, <2>4, <2>5 DEF QuietWhileReplaced
  <2>7. ReplacedSoFar'
    BY <1>0, <2>1, <2>2 DEF ReplacedSoFar, data
  <2>8. NoServiceOnHalfData'
    BY <1>0, <2>1, <2>5, ServiceStays DEF data
  <2> QED BY <2>2, <2>3, <2>6, <2>7, <2>8 DEF RunInv
<1>15. CASE OpenVault \/ ImportSnapshot
  BY <1>15, VaultKeepsInv
<1>16. CASE RestoreHarborWritable
  BY <1>16, WritableKeepsInv
<1>17. CASE Finish
  BY <1>0, <1>17, AtRest DEF Finish, TypeOK, data, limits
<1> QED BY <1>1, <1>2, <1>3, <1>4, <1>5, <1>6, <1>7, <1>8, <1>9, <1>10, <1>11, <1>12, <1>13,
           <1>14, <1>15, <1>16, <1>17 DEF Operation

LEMMA OtherStepKeepsInv == RunInv /\ (Begin \/ Fail \/ Crash \/ OperatorAsks) => RunInv'
<1> SUFFICES ASSUME RunInv, Begin \/ Fail \/ Crash \/ OperatorAsks PROVE RunInv'
  OBVIOUS
<1>0. TypeOK /\ NoServiceOnHalfData
  BY DEF RunInv
<1>1. CASE Begin
  <2>1. at' = 1 /\ mode' = "restore" /\ app' = app /\ UNCHANGED data
    BY <1>1 DEF Begin
  <2>2. runs' \in 0..MaxRuns /\ crashes' \in 0..MaxCrashes
    BY <1>0, <1>1, RestoreBounds DEF Begin, TypeOK
  <2>3. \A o, t : ~Done(o, t)'
    BY <2>1, NothingDone
  <2>4. at' \in 0..Len(Program)
    BY <2>1, ProgramIsListed DEF Lists
  <2>5. TypeOK'
    BY <1>0, <2>1, <2>2, <2>4 DEF TypeOK, data, Modes
  <2>6. RestoringUntilDeclared' /\ QuietWhileReplaced' /\ ReplacedSoFar'
    BY <2>1, <2>3 DEF RestoringUntilDeclared, QuietWhileReplaced, ReplacedSoFar
  <2>7. NoServiceOnHalfData'
    BY <1>0, <2>1, ServiceStays DEF data
  <2> QED BY <2>5, <2>6, <2>7 DEF RunInv
<1>2. CASE Fail
  BY <1>0, <1>2, AtRest DEF Fail, Modes, TypeOK, data, limits
<1>3. CASE Crash
  <2>1. runs' \in 0..MaxRuns /\ crashes' \in 0..MaxCrashes
    BY <1>0, <1>3, RestoreBounds DEF Crash, TypeOK
  <2> QED BY <1>0, <1>3, <2>1, AtRest DEF Crash, TypeOK, data
<1>4. CASE OperatorAsks
  BY <1>0, <1>4, AtRest DEF OperatorAsks, Modes, TypeOK, data, limits
<1> QED BY <1>1, <1>2, <1>3, <1>4

LEMMA StutterKeepsInv == RunInv /\ UNCHANGED vars => RunInv'
<1> SUFFICES ASSUME RunInv, UNCHANGED vars PROVE RunInv'
  OBVIOUS
<1>1. \A o, t : Done(o, t)' <=> Done(o, t)
  BY DEF vars, Done
<1>2. TypeOK' /\ RestoringUntilDeclared' /\ QuietWhileReplaced' /\ ReplacedSoFar'
  BY <1>1 DEF vars, RunInv, TypeOK, RestoringUntilDeclared, QuietWhileReplaced, ReplacedSoFar,
              data, limits
<1>3. NoServiceOnHalfData'
  BY ServiceStays DEF RunInv, vars, data
<1> QED BY <1>2, <1>3 DEF RunInv

\* The inductive invariant of the restore runs, for any number of runs and kills:
\* what a run has replaced stays replaced, an application is down from its stop
\* to its start, and what runs is whole.
THEOREM RestoreInvariance == Spec => []RunInv
<1>1. Init => RunInv
  BY RunInitState
<1>2. RunInv /\ [Next]_vars => RunInv'
  BY OperationKeepsInv, OtherStepKeepsInv, StutterKeepsInv DEF Next
<1> QED BY <1>1, <1>2, PTL DEF Spec

-----------------------------------------------------------------------------
(* The end of a run.                                                       *)

\* When a run declares the node normal, everything has been restored and runs.
LEMMA DeclaredIsRestored ==
  ASSUME RunInv, DeclareNormal
  PROVE  /\ \A s \in Stacks : app[s] = "up" /\ Whole(s)
         /\ \A s \in WithDatabase : HalvesOf(s) = {"new"}
         /\ vault = "new" /\ ~readOnly
<1>1. At("declare", "node")
  BY DEF DeclareNormal
<1>2. at \in 0..Len(Program) /\ QuietWhileReplaced /\ ReplacedSoFar
  BY DEF RunInv, TypeOK
<1>3. /\ \A s \in Stacks : Done("start", s)
      /\ \A s \in WithFiles : Done("copy", s)
      /\ \A s \in WithDatabase : Done("load", s)
      /\ Done("snapshot", "openbao") /\ Done("writable", "harbor")
  BY <1>1, <1>2, Ending
<1>4. \A s \in Stacks : app[s] = "up"
  BY <1>2, <1>3 DEF QuietWhileReplaced
<1>5. /\ \A s \in WithFiles : files[s] = "new"
      /\ \A s \in WithDatabase : database[s] = "new"
      /\ vault = "new" /\ ~readOnly
  BY <1>2, <1>3 DEF ReplacedSoFar
<1>6. \A s \in WithDatabase : HalvesOf(s) = {"new"} /\ Whole(s)
  BY <1>5, ReplacedIsNew, NewIsWhole
<1>7. Whole("openbao")
  BY <1>5 DEF Whole
<1>8. \A s \in Stacks : Whole(s)
  BY <1>6, <1>7 DEF Stacks, WithDatabase
<1> QED BY <1>4, <1>5, <1>6, <1>8

\* What an operation does to the run, to the mode and to the vault.
LEMMA OperationMoves ==
  ASSUME Operation
  PROVE  /\ at > 0
         /\ \/ Finish
            \/ DeclareNormal
            \/ /\ Program[at] \notin {<<"declare", "node">>, <<"resume", "node">>}
               /\ at' = at + 1 /\ mode' = mode
         /\ vault' = vault \/ OpenVault \/ ImportSnapshot
<1> USE DEF At, Advance
<1>1. CASE Finish
  BY <1>1 DEF Finish, data
<1>2. CASE DeclareNormal
  BY <1>2 DEF DeclareNormal, data
<1>3. ASSUME NEW s \in Stacks,
             \/ StopStack(s) \/ StartStack(s) \/ ClearFiles(s) \/ CopyFiles(s)
             \/ StartDatabase(s) \/ DropDatabase(s) \/ LoadDatabase(s) \/ DownAfterImport(s)
      PROVE  /\ at > 0 /\ Program[at] \notin {<<"declare", "node">>, <<"resume", "node">>}
             /\ at' = at + 1 /\ mode' = mode /\ vault' = vault
  BY <1>3 DEF data, StopStack, StartStack, ClearFiles, CopyFiles, StartDatabase, DropDatabase,
              LoadDatabase, DownAfterImport
<1>4. CASE \/ Verify \/ RestoreDefinitions \/ StartVault \/ OpenVault \/ ImportSnapshot
           \/ RestoreKeycloakAdmin \/ RestoreHarborWritable \/ UnsealVault \/ Validate
  BY <1>4 DEF data, Verify, RestoreDefinitions, StartVault, OpenVault, ImportSnapshot,
              RestoreKeycloakAdmin, RestoreHarborWritable, UnsealVault, Validate
<1> QED BY <1>1, <1>2, <1>3, <1>4 DEF Operation

LEMMA OnlyDeclare ==
  ASSUME Next \/ UNCHANGED vars, mode' = "normal", mode \in {"restore", "restore_failed"}
  PROVE  DeclareNormal
<1>1. ~Begin /\ ~Fail /\ ~Crash /\ ~OperatorAsks /\ ~UNCHANGED vars
  BY DEF Begin, Fail, Crash, OperatorAsks, vars
<1>2. Operation
  BY <1>1 DEF Next
<1> QED BY <1>2, OperationMoves DEF Finish

\* No application ever runs on files and a database that do not belong together.
THEOREM ServicesRunOnWholeData == Spec => []NoServiceOnHalfData
<1>1. RunInv => NoServiceOnHalfData
  BY DEF RunInv
<1> QED BY <1>1, RestoreInvariance, PTL

\* A restore ends in "normal" only with every stack running on the restored data.
THEOREM RestoreEndsRestored == Spec => NormalMeansRestored
<1>1. ASSUME RunInv, [Next]_vars, mode' = "normal", mode \in {"restore", "restore_failed"}
      PROVE  /\ \A s \in Stacks : app[s] = "up"
             /\ \A s \in WithDatabase : HalvesOf(s) = {"new"}
             /\ vault = "new" /\ ~readOnly
  BY <1>1, OnlyDeclare, DeclaredIsRestored
<1> QED BY <1>1, RestoreInvariance, PTL DEF Spec, NormalMeansRestored

-----------------------------------------------------------------------------
(* Restore runs implement ModeContract.                                    *)

ContractMoves == [Contract!CNext]_(Contract!cvars)

LEMMA ContractBegins ==
  ASSUME Begin
  PROVE  ContractMoves
<1>1. \A s : Whole(s)' <=> Whole(s)
  BY SameWhole DEF Begin
<1>2. {s \in Stacks : ~Whole(s)}' = {s \in Stacks : ~Whole(s)}
  BY <1>1
<1> QED BY <1>2 DEF Begin, ContractMoves, Contract!CNext, Contract!Take

\* While a run is at work only the mode, or only the services, change.
LEMMA ContractWorks ==
  ASSUME at > 0, at' > 0, mode' = mode
  PROVE  ContractMoves
BY DEF ContractMoves, Contract!CNext, Contract!Rework

LEMMA ContractDeclares ==
  ASSUME at = 0 <=> at' = 0, mode' \in Modes,
         {s \in Stacks : ~Whole(s)}' = {s \in Stacks : ~Whole(s)},
         mode' = "normal" => mode = "normal" \/ \A s \in Stacks : Whole(s)
  PROVE  ContractMoves
<1>1. CASE mode' = mode
  BY <1>1 DEF ContractMoves, Contract!cvars
<1>2. CASE mode' # mode
  BY <1>2 DEF ContractMoves, Contract!CNext, Contract!Declare
<1> QED BY <1>1, <1>2

\* A run that ends passes no verdict of its own.
LEMMA ContractLeaves ==
  ASSUME at > 0, at' = 0, mode' \in Modes, mode' = "normal" => mode = "normal",
         {s \in Stacks : ~Whole(s)}' = {s \in Stacks : ~Whole(s)}
  PROVE  ContractMoves
BY DEF ContractMoves, Contract!CNext, Contract!Leave

LEMMA ContractStep ==
  ASSUME RunInv, Next \/ UNCHANGED vars
  PROVE  ContractMoves
<1>0. at \in 0..Len(Program) /\ mode \in Modes /\ Len(Program) = 36
  BY ProgramIsListed DEF RunInv, TypeOK, Lists
<1>1. ASSUME UNCHANGED data PROVE {s \in Stacks : ~Whole(s)}' = {s \in Stacks : ~Whole(s)}
  BY <1>1, SameWhole
<1>2. CASE Begin
  BY <1>2, ContractBegins
<1>3. CASE Operation
  <2>1. CASE Finish
    BY <1>0, <1>1, <2>1, ContractLeaves DEF Finish, At
  <2>2. CASE DeclareNormal
    BY <1>0, <1>1, <2>2, DeclaredIsRestored, ContractDeclares DEF DeclareNormal, At, Advance, Modes
  <2>3. CASE at' = at + 1 /\ mode' = mode
    BY <1>0, <1>3, <2>3, OperationMoves, ContractWorks
  <2> QED BY <1>3, <2>1, <2>2, <2>3, OperationMoves
<1>4. CASE Fail
  BY <1>0, <1>1, <1>4, ContractLeaves DEF Fail, Modes
<1>5. CASE Crash
  BY <1>0, <1>1, <1>5, ContractLeaves DEF Crash
<1>6. CASE OperatorAsks
  BY <1>1, <1>6, ContractDeclares DEF OperatorAsks, Modes
<1>7. CASE UNCHANGED vars
  BY <1>0, <1>1, <1>7, ContractDeclares DEF vars, data
<1> QED BY <1>2, <1>3, <1>4, <1>5, <1>6, <1>7 DEF Next

LEMMA InitIsWhole ==
  ASSUME Init
  PROVE  \A s \in Stacks : Whole(s)
<1>1. \A s \in WithDatabase : HalvesOf(s) = {"old"}
  BY DEF Init, HalvesOf, WithDatabase, WithFiles
<1>2. Cardinality({"old"}) = 1
  BY FS_Singleton
<1> QED BY <1>1, <1>2 DEF Whole, Stacks, WithDatabase, Init

LEMMA ContractInitState == Init => Contract!CInit
BY InitIsWhole DEF Init, Contract!CInit, Modes

\* Every behaviour of restore runs is one that the contract of the lock and the
\* mode file allows.
THEOREM RestoreKeepsContract == Spec => ContractSpec
<1>1. Init => Contract!CInit
  BY ContractInitState
<1>2. RunInv /\ [Next]_vars => [Contract!CNext]_(Contract!cvars)
  BY ContractStep DEF ContractMoves
<1> QED BY <1>1, <1>2, RestoreInvariance, PTL DEF Spec, ContractSpec, Contract!CSpec
===============================================================================
