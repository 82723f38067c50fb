----------------------------- MODULE ConvergeGitMC -----------------------------
(***************************************************************************)
(* ConvergeGit with the admin repository and one for the inventory.        *)
(***************************************************************************)
EXTENDS ConvergeGit

AdminThenInventory == <<"admin", "inventory">>
=============================================================================
