-------------------------- MODULE RecoveryContract --------------------------
(***************************************************************************)
(* What the backups of an admin node promise, without saying how points    *)
(* are stored, rotated, fetched back or lost half-way:                     *)
(*                                                                         *)
(*   - what can be recovered from every repository only ever gets newer;   *)
(*   - a success marker moves forward only, and only to what can be        *)
(*     recovered from every repository at that moment.                     *)
(*                                                                         *)
(* So nothing a marker has ever promised is taken back.  BackupCatalog     *)
(* implements this module (BackupCatalog!RecoverySpec).                    *)
(***************************************************************************)
EXTENDS Naturals

CONSTANTS
  Kinds,      \* the kinds of recovery points
  Markers,    \* the success markers
  Serves      \* the kinds of points that keep the promise of each marker

VARIABLES
  held,       \* for each kind the runs that every repository is as recent as
  promised    \* the run each marker names, 0 for none

rvars == <<held, promised>>

RInit ==
  /\ held = [k \in Kinds |-> {}]
  /\ promised = [m \in Markers |-> 0]

\* Points of one kind reach or leave the repositories.
Deliver(k) ==
  /\ held[k] \subseteq held'[k]
  /\ held' = [held EXCEPT ![k] = held'[k]]
  /\ UNCHANGED promised

Promise(m) ==
  /\ \E k \in Serves[m] : \E n \in held[k] :
       /\ n >= promised[m]
       /\ promised' = [promised EXCEPT ![m] = n]
  /\ UNCHANGED held

RNext ==
  \/ \E k \in Kinds : Deliver(k)
  \/ \E m \in Markers : Promise(m)

RSpec == RInit /\ [][RNext]_rvars
=============================================================================
