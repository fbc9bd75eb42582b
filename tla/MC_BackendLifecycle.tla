------------------------ MODULE MC_BackendLifecycle ------------------------
(* Instances of BackendLifecycle for TLC. *)
EXTENDS BackendLifecycle, TLC

CONSTANTS c1, c2

Processes == Permutations(Client)
=============================================================================
