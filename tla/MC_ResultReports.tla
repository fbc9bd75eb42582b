------------------------- MODULE MC_ResultReports -------------------------
(* Instances of ResultReports; shards and operation types are alike.       *)
EXTENDS ResultReports, TLC
CONSTANTS s1, s2, add, search
Alike == {f @@ g : f \in Permutations({s1, s2}), g \in Permutations({add, search})}
===========================================================================
