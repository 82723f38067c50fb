----------------------------- MODULE AdminNodeMC -----------------------------
(***************************************************************************)
(* AdminNode for TLC: the processes are model values, and processes that   *)
(* run the same command for the same reason are interchangeable.  (Not     *)
(* used with liveness properties, where symmetry is unsound.)              *)
(***************************************************************************)
EXTENDS AdminNode, TLC

Interchangeable ==
  Permutations(Restores) \cup Permutations(Converges \ TimerStarted)
=============================================================================
