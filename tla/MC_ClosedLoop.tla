---------------------------- MODULE MC_ClosedLoop ----------------------------
(* Small instances of ClosedLoop.  The plans of the lanes differ in length, so *)
(* that a run can end by count, by exhausted plans, or by deadline.            *)
EXTENDS ClosedLoop, TLC

CONSTANTS t1, t2, t3

MCTask == {t1, t2, t3}
MCShortAndLong == (t1 :> 1) @@ (t2 :> 3) @@ (t3 :> 2)
MCTwoEach == (t1 :> 2) @@ (t2 :> 2) @@ (t3 :> 2)
=============================================================================
