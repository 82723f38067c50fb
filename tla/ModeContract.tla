---------------------------- MODULE ModeContract ----------------------------
(***************************************************************************)
(* What the operation lock and the mode file of an admin node promise      *)
(* together, without saying how the commands keep the promise:             *)
(*                                                                         *)
(*   - one command at a time holds the node;                               *)
(*   - only the holder takes services apart or puts them back together;    *)
(*   - the node returns to "normal" only when the services the contract    *)
(*     vouches for (Vouched) are whole.                                    *)
(*                                                                         *)
(* AdminNode, the composition of the real commands, implements this module *)
(* (AdminNode!ContractSpec), and so do RestoreRun, in which one command    *)
(* runs and what "whole" means is spelled out for each stack, and          *)
(* GiteaRestore, in which users write while the node is held.              *)
(***************************************************************************)
EXTENDS FiniteSets

CONSTANTS
  Proc,       \* the processes that run admin-node commands
  None,       \* "nobody"
  Mode,       \* the values of the mode file
  Services,   \* the parts of the node that a restore can leave half-done
  Vouched     \* the services that "normal" promises to be whole

VARIABLES
  holder,     \* the process that holds the node, or None
  mode,       \* the content of the mode file
  damaged     \* the services that are neither untouched nor fully restored

cvars == <<holder, mode, damaged>>

CInit ==
  /\ holder = None
  /\ mode \in Mode
  /\ damaged = {}

Take(p) ==
  /\ holder = None
  /\ holder' = p
  /\ UNCHANGED <<mode, damaged>>

\* The holder damages or repairs services; nobody else may.
Rework(p) ==
  /\ holder = p
  /\ damaged' \in SUBSET Services
  /\ UNCHANGED <<holder, mode>>

\* The mode changes, by the program or by the operator: to "normal" only when
\* every vouched service is whole.
Declare ==
  /\ mode' \in Mode
  /\ mode' = "normal" => damaged \cap Vouched = {}
  /\ UNCHANGED <<holder, damaged>>

\* The holder leaves (it ended or died), possibly with a last verdict that is
\* never "normal": success is declared before the node is given back.
Leave ==
  /\ holder # None
  /\ holder' = None
  /\ mode' \in Mode
  /\ mode' = "normal" => mode = "normal"
  /\ UNCHANGED damaged

CNext ==
  \/ \E p \in Proc : Take(p) \/ Rework(p)
  \/ Declare
  \/ Leave

CSpec == CInit /\ [][CNext]_cvars
=============================================================================
