---------------------------- MODULE BoundedQueue ----------------------------
(***************************************************************************)
(* What docs/load-models.md promises of --global-concurrency C and         *)
(* --queue-bound Q: at most C requests are served and at most Q wait; a    *)
(* request waits only when C are served; and whoever waits gets the place  *)
(* of somebody who leaves, or gives up.  C = 0 is "no limit".              *)
(***************************************************************************)
EXTENDS Naturals, FiniteSets

CONSTANTS Task, C, Q

VARIABLES serving, waiting

vars == <<serving, waiting>>

Init == serving = {} /\ waiting = {}

Start(t) ==
  /\ t \notin serving \cup waiting
  /\ waiting = {}
  /\ C > 0 => Cardinality(serving) < C
  /\ serving' = serving \cup {t}
  /\ UNCHANGED waiting

Wait(t) ==
  /\ t \notin serving \cup waiting
  /\ C > 0 /\ Cardinality(serving) = C /\ Cardinality(waiting) < Q
  /\ waiting' = waiting \cup {t}
  /\ UNCHANGED serving

\* Whoever is served leaves; a waiter, if there is one, takes the place.
Leave(t) ==
  /\ t \in serving
  /\ \/ /\ waiting = {}
        /\ serving' = serving \ {t}
        /\ UNCHANGED waiting
     \/ \E h \in waiting :
          /\ serving' = (serving \ {t}) \cup {h}
          /\ waiting' = waiting \ {h}

GiveUp(t) ==
  /\ t \in waiting
  /\ waiting' = waiting \ {t}
  /\ UNCHANGED serving

Next == \E t \in Task : Start(t) \/ Wait(t) \/ Leave(t) \/ GiveUp(t)

Spec == Init /\ [][Next]_vars

\* Nobody is served for ever.
FairSpec == Spec /\ \A t \in Task : WF_vars(Leave(t))
=============================================================================
