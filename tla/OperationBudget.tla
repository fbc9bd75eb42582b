-------------------------- MODULE OperationBudget --------------------------
(***************************************************************************)
(* What --ops N promises of a count-only closed run: N operations are      *)
(* issued, no more, and every operation issued is finished.                *)
(***************************************************************************)
EXTENDS Naturals

CONSTANT N

VARIABLES issued, finished

vars == <<issued, finished>>

Init == issued = 0 /\ finished = 0

Issue  == issued < N /\ issued' = issued + 1 /\ UNCHANGED finished
Finish == finished < issued /\ finished' = finished + 1 /\ UNCHANGED issued

Spec == Init /\ [][Issue \/ Finish]_vars
FairSpec == Spec /\ WF_vars(Issue) /\ WF_vars(Finish)
=============================================================================
