----------------------------- MODULE ClosedLoop -----------------------------
(***************************************************************************)
(* The closed load model of LoadRunner: a fixed set of lanes (a user, or   *)
(* one chat session of a user), each an endless cycle of                   *)
(*   take an operation - reserve it from the operation budget - think -    *)
(*   acquire a global slot - execute - record.                             *)
(* A lane that finds the budget spent raises the shared stop event.  Each  *)
(* phase ends when every lane has drained; an optional warm-up precedes    *)
(* the measured phase, has a deadline of its own, draws on no budget and   *)
(* is not recorded.                                                        *)
(*                                                                         *)
(* cur and expired are as in OpenLoop: the coroutine that has not          *)
(* suspended yet, and the clock seen against the phase's deadline.         *)
(***************************************************************************)
EXTENDS GlobalSlots, Functions

CONSTANTS Ops,          \* RunConfig.ops; 0 for no operation budget
          Timed,        \* RunConfig.duration > 0: the measured phase has a deadline
          Warmup,       \* RunConfig.warmup > 0
          PlanLength,   \* PlanLength[t]: operations the plan of lane t yields
          NoTask

ASSUME ClosedAssumption ==
  /\ Ops \in Nat /\ Timed \in BOOLEAN /\ Warmup \in BOOLEAN
  /\ PlanLength \in [Task -> Nat]
  /\ Timed \/ Ops > 0            \* RunConfig.__post_init__
  /\ NoTask \notin Task

VARIABLES phase,     \* run() is in its warm-up, in its measured phase, or over
          expired,   \* _deadline_reached(deadline)
          stop,      \* LoadRunner._stop is set
          opsDone,   \* LoadRunner._ops_done
          left,      \* operations left in the plan of each lane
          born,      \* the phase that spawned each lane's task
          cur,       \* the coroutine that is running, or NoTask
          results    \* results recorded, by the phase that dispatched them

vars == <<slotVars, phase, expired, stop, opsDone, left, born, cur, results>>

Phase == {"warmup", "measured"}
FirstPhase == IF Warmup THEN "warmup" ELSE "measured"
Live == Task \ At("done")

\* _record_results
Recording == phase = "measured"

\* deadline is not None
HasDeadline == phase = "warmup" \/ Timed

Init ==
  /\ pc = [t \in Task |-> "starting"] /\ SlotInit
  /\ phase = FirstPhase /\ expired = FALSE
  /\ stop = FALSE /\ opsDone = 0
  /\ left = PlanLength
  /\ born = [t \in Task |-> FirstPhase]
  /\ cur = NoTask
  /\ results = [p \in Phase |-> 0]

Tick ==
  /\ phase # "over" /\ HasDeadline /\ ~expired /\ expired' = TRUE
  /\ UNCHANGED <<slotVars, phase, stop, opsDone, left, born, cur, results>>

-----------------------------------------------------------------------------
(* One lane *)

Runs(t) == cur \in {t, NoTask}


\* (mutant of MayReturn: a count stop discards operations already reserved)
DiscardOnStop(t) ==
  \/ pc[t] = "starting" /\ expired
  \/ pc[t] = "turn" /\ (stop \/ expired \/ left[t] = 0)
  \/ pc[t] = "reserved" /\ (expired \/ stop)

\* (mutant of MayReturn: a lane with a reservation does not look at the clock)
NeverTooLate(t) ==
  \/ pc[t] = "starting" /\ expired
  \/ pc[t] = "turn" /\ (stop \/ expired \/ left[t] = 0)

\* The lane returns: too late to start or to dispatch, told to stop, or out of
\* operations (a plan that raises ends its lane the same way).
MayReturn(t) ==
  \/ pc[t] = "starting" /\ expired
  \/ pc[t] = "turn" /\ (stop \/ expired \/ left[t] = 0)
  \/ pc[t] = "reserved" /\ expired

Return(t) ==
  /\ Runs(t) /\ MayReturn(t)
  /\ pc' = [pc EXCEPT ![t] = "done"]
  /\ cur' = NoTask
  /\ UNCHANGED <<free, ahead, phase, expired, stop, opsDone, left, born, results>>

\* The ramp-up delay of the lane is over.
Start(t) ==
  /\ Runs(t) /\ pc[t] = "starting" /\ ~expired
  /\ pc' = [pc EXCEPT ![t] = "turn"]
  /\ cur' = t
  /\ UNCHANGED <<free, ahead, phase, expired, stop, opsDone, left, born, results>>

\* _reserve_op: unlimited while nothing is recorded or without a budget
Budgeted == Recording /\ Ops > 0

\* (mutant of BudgetSpent: off by one)
BudgetSpentLate == Budgeted /\ opsDone > Ops

\* (mutant of BudgetSpent: off by one)
BudgetSpentEarly == Budgeted /\ opsDone + 1 >= Ops

BudgetSpent == Budgeted /\ opsDone >= Ops

AtNextOp(t) == Runs(t) /\ pc[t] = "turn" /\ ~stop /\ ~expired /\ left[t] > 0

\* The lane takes the next operation and reserves it; an operation with a think
\* time suspends the lane before it is dispatched.
Reserve(t) ==
  /\ AtNextOp(t) /\ ~BudgetSpent
  /\ opsDone' = IF Budgeted THEN opsDone + 1 ELSE opsDone
  /\ left' = [left EXCEPT ![t] = @ - 1]
  /\ pc' = [pc EXCEPT ![t] = "reserved"]
  /\ cur' \in {t, NoTask}
  /\ UNCHANGED <<free, ahead, phase, expired, stop, born, results>>

\* The budget is spent: the lane tells everybody to stop.
StopAll(t) ==
  /\ AtNextOp(t) /\ BudgetSpent
  /\ stop' = TRUE
  /\ pc' = [pc EXCEPT ![t] = "done"]
  /\ cur' = NoTask
  /\ left' = [left EXCEPT ![t] = @ - 1]
  /\ UNCHANGED <<free, ahead, phase, expired, opsDone, born, results>>

\* _acquire_global_slot
Acquire(t) ==
  /\ Runs(t) /\ pc[t] = "reserved" /\ ~expired
  /\ AcquireSlot(t)
  /\ cur' = NoTask
  /\ UNCHANGED <<phase, expired, stop, opsDone, left, born, results>>

\* The second look at the clock, after the permit was acquired
InTime == ~expired

Dispatch(t) ==
  /\ Runs(t) /\ pc[t] = "granted" /\ InTime
  /\ ResumeWithSlot(t)
  /\ cur' = NoTask
  /\ UNCHANGED <<phase, expired, stop, opsDone, left, born, results>>

Expire(t) ==
  /\ Runs(t) /\ pc[t] \in {"queued", "granted"} /\ expired
  /\ AbandonWait(t, "done")
  /\ cur' = NoTask
  /\ UNCHANGED <<phase, expired, stop, opsDone, left, born, results>>

\* The backend answers or fails: the result is recorded and the permit returned.
Finish(t) ==
  /\ cur = NoTask /\ pc[t] = "executing"
  /\ results' = IF Recording THEN [results EXCEPT ![born[t]] = @ + 1] ELSE results
  /\ ReleaseSlot(t, "turn")
  /\ cur' = t
  /\ UNCHANGED <<phase, expired, stop, opsDone, left, born>>

LaneStep(t) ==
  \/ Return(t) \/ Start(t) \/ Reserve(t) \/ StopAll(t)
  \/ Acquire(t) \/ Dispatch(t) \/ Expire(t) \/ Finish(t)

-----------------------------------------------------------------------------
(* The phases *)

\* gather() over the lanes returns
Drained == Live = {}

\* After the warm-up, _reset_phase_state and a new workload; otherwise the end.
EndPhase ==
  /\ cur = NoTask /\ phase # "over" /\ Drained
  /\ IF phase = "warmup"
     THEN /\ phase' = "measured"
          /\ pc' = [t \in Task |-> IF pc[t] = "done" THEN "starting" ELSE pc[t]]
          /\ born' = [t \in Task |-> IF pc[t] = "done" THEN "measured" ELSE born[t]]
          /\ expired' = FALSE /\ stop' = FALSE /\ opsDone' = 0
          /\ left' = PlanLength
     ELSE /\ phase' = "over"
          /\ UNCHANGED <<pc, born, expired, stop, opsDone, left>>
  /\ UNCHANGED <<free, ahead, cur, results>>

Over == phase = "over" /\ UNCHANGED vars

Next == Tick \/ EndPhase \/ (\E t \in Task : LaneStep(t)) \/ Over

Spec == Init /\ [][Next]_vars

\* Time passes, ready coroutines get to run, and every client call returns.
Fairness == WF_vars(Tick) /\ WF_vars(EndPhase) /\ \A t \in Task : WF_vars(LaneStep(t))

FairSpec == Spec /\ Fairness

-----------------------------------------------------------------------------
(* Properties *)

Label == {"starting", "turn", "reserved", "queued", "granted", "executing", "done"}

TypeOK ==
  /\ pc \in [Task -> Label]
  /\ free \in Nat /\ ahead \in [Task -> SUBSET Task]
  /\ phase \in Phase \cup {"over"} /\ expired \in BOOLEAN
  /\ stop \in BOOLEAN /\ opsDone \in Nat
  /\ left \in [Task -> Nat] /\ born \in [Task -> Phase]
  /\ cur \in Task \cup {NoTask} /\ results \in [Phase -> Nat]

\* Reserved and not yet recorded
Pending == At("reserved") \cup InFlight

\* Without a deadline a reservation is a promise (_reserve_op): the operations
\* reserved are those recorded and those on their way, in every state.  A stop
\* raised by another lane discards none of them.
ReservationsKept ==
  phase # "warmup" /\ ~Timed =>
    opsDone = results["measured"] + Cardinality(Pending)

\* The budget is never exceeded, with or without a deadline, and the stop event
\* is raised only when it is spent.
BudgetRespected ==
  /\ phase # "warmup" => results["measured"] + Cardinality(At("executing")) <= opsDone
                         \/ Ops = 0
  /\ Ops > 0 => opsDone <= Ops
  /\ stop => opsDone = Ops /\ Ops > 0

\* The warm-up takes nothing from the budget and leaves nothing in the results.
WarmupApart ==
  /\ results["warmup"] = 0
  /\ phase = "warmup" => opsDone = 0 /\ ~stop

\* docs/load-models.md: a closed run with only --ops N executes exactly N
\* operations, provided the scenario supplies enough of them.
Supply == FoldFunctionOnSet(+, 0, PlanLength, Task)
ExactlyOps ==
  phase = "over" /\ ~Timed =>
    results["measured"] = IF Ops <= Supply THEN Ops ELSE Supply

\* --duration bounds dispatch: nothing starts executing once it has passed.
NoLateDispatch ==
  [][expired => Executing' \subseteq Executing]_vars

\* Every phase drains and the run ends.
RunEnds == <>(phase = "over")

\* A count-only run implements a budget of Ops operations, all of which are
\* eventually issued and finished.
Budget == INSTANCE OperationBudget WITH N <- Ops, issued <- opsDone,
                                        finished <- results["measured"]
BudgetSpec == Budget!FairSpec
=============================================================================
