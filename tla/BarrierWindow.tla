---------------------------- MODULE BarrierWindow ----------------------------
(***************************************************************************)
(* The measured window of a sharded run (core/multiproc.py), by what the   *)
(* parent and the workers are doing and where each worker was when its     *)
(* measured phase began and ended: what the barriers of MeasureBarrier are *)
(* for.                                                                    *)
(***************************************************************************)
CONSTANT Shard         \* the worker processes, one shard each

VARIABLES shard,       \* what each shard is doing
          parent,      \* where run_shards is
          began,       \* began[s]: where the parent was when s began to measure
          ended,       \* ended[s]: where it was when s stopped measuring
          unsynced     \* shards that passed a boundary on a failed hook

\* When run_shards returns a result, every shard began to measure after the
\* parent's start hook and stopped before its end hook, so the server metrics
\* taken by those hooks cover all of every shard's measured phase.  Errors and
\* killed workers do not break this; a shard whose own hook failed is exempt.
WindowCovered ==
  parent = "reported" =>
    \A s \in Shard \ unsynced : began[s] = "awaitEnd" /\ ended[s] = "awaitEnd"

\* The barrier implements the measured window of MeasureWindow: opened by the
\* start hook, closed by the end hook, void once a shard, or its hook, has failed.
Window == INSTANCE MeasureWindow WITH
  window <- IF parent = "raised" \/ unsynced # {} \/ \E s \in Shard : shard[s] = "failed"
            THEN "lost"
            ELSE CASE parent \in {"awaitStart", "startHook"} -> "before"
                   [] parent \in {"awaitEnd", "endHook"}     -> "open"
                   [] OTHER                                  -> "closed",
  measuring <- {s \in Shard : shard[s] = "measuring"},
  measured  <- {s \in Shard : ended[s] # "never"},
  reported  <- parent = "reported" /\ unsynced = {}

WindowSpec == Window!Spec
=============================================================================
