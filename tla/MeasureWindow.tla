---------------------------- MODULE MeasureWindow ----------------------------
(***************************************************************************)
(* What a synchronized multi-process run promises about its measured       *)
(* window: it opens before any shard measures, it closes after the last    *)
(* shard has measured, and only a run that kept both reports a result.     *)
(***************************************************************************)
CONSTANT Shard

VARIABLES window,      \* "before", "open", "closed" or "lost"
          measuring,   \* shards whose measured phase runs
          measured,    \* shards whose measured phase is over
          reported     \* whether the pooled result was returned

vars == <<window, measuring, measured, reported>>

Init == window = "before" /\ measuring = {} /\ measured = {} /\ ~reported

Open == /\ window = "before"
        /\ window' = "open"
        /\ UNCHANGED <<measuring, measured, reported>>

Measure(s) == /\ window = "open"
              /\ s \notin measuring \cup measured
              /\ measuring' = measuring \cup {s}
              /\ UNCHANGED <<window, measured, reported>>

Measured(s) == /\ s \in measuring
               /\ measuring' = measuring \ {s}
               /\ measured' = measured \cup {s}
               /\ UNCHANGED <<window, reported>>

\* A shard that is killed while it measures is never done with it.
Vanish(s) == /\ s \in measuring
             /\ measuring' = measuring \ {s}
             /\ UNCHANGED <<window, measured, reported>>

Close == /\ window = "open" /\ measured = Shard
         /\ window' = "closed"
         /\ UNCHANGED <<measuring, measured, reported>>

Report == /\ window = "closed" /\ ~reported
          /\ reported'
          /\ UNCHANGED <<window, measuring, measured>>

\* A failure voids the window: no result follows, whatever the shards do.
Lose == /\ ~reported
        /\ window' = "lost"
        /\ UNCHANGED reported
        /\ measuring' \in SUBSET Shard /\ measured' \in SUBSET Shard

Next == \/ Open \/ Close \/ Report \/ Lose
        \/ \E s \in Shard : Measure(s) \/ Measured(s) \/ Vanish(s)

Spec == Init /\ [][Next]_vars
=============================================================================
