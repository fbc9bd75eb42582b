----------------------------- MODULE MC_OpenLoop -----------------------------
(* Small instances of OpenLoop: two users with session caps, so that the same *)
(* run meets several lanes of one user, the cap and the full queue.           *)
EXTENDS OpenLoop, TLC

MCUser == 0 .. 1
MCOneUser == {0}
\* user 0 may run two sessions at a time, user 1 one
MCCap == (0 :> 2) @@ (1 :> 1)
\* one user, no session cap
MCNoCap == 0 :> Uncapped

Sessions == Permutations(Task)
=============================================================================
