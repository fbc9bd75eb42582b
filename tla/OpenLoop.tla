------------------------------ MODULE OpenLoop ------------------------------
(***************************************************************************)
(* The open load model of LoadRunner: an arrival process spawns sessions,  *)
(* each session dispatches a bounded number of operations through the      *)
(* bounded queue in front of the global concurrency limit, and the phase   *)
(* ends when every session it spawned has drained.  An optional warm-up    *)
(* runs the same workload first and is never recorded.                     *)
(*                                                                         *)
(* asyncio runs one coroutine at a time, until it suspends.  cur names the *)
(* coroutine that has not suspended yet; nobody else steps while it is set.*)
(* The clock is one bit, expired: time.monotonic() has reached the phase's *)
(* deadline.  It can flip between any two steps, suspended or not.         *)
(***************************************************************************)
EXTENDS GlobalSlots, Functions

CONSTANTS User,         \* the tenants of this shard, dealt in order 0..N-1
          Q,            \* RunConfig.queue_bound
          SessionOps,   \* RunConfig.session_ops
          Cap,          \* Cap[u]: scenario.max_sessions_per_user(u)
          Uncapped,     \* the value of Cap[u] when the scenario gives no cap
          Warmup,       \* RunConfig.warmup > 0
          MaxArrivals,  \* bound on the arrivals of one phase
          NoTask

Users == Cardinality(User)

ASSUME OpenAssumption ==
  /\ User = 0 .. (Users - 1) /\ User # {} /\ IsFiniteSet(User)
  /\ Q \in Nat /\ SessionOps \in Nat \ {0} /\ MaxArrivals \in Nat
  /\ Uncapped \notin Nat /\ Cap \in [User -> (Nat \ {0}) \cup {Uncapped}]
  /\ Warmup \in BOOLEAN /\ NoTask \notin Task

VARIABLES phase,     \* run() is in its warm-up, in its measured phase, or over
          expired,   \* _deadline_reached(deadline)
          arriving,  \* the arrival loop of _open_loop still runs
          arrived,   \* next_user: arrivals drawn so far in this phase
          owner,     \* the user each session was spawned for
          lane,      \* the session_id it reserved, or Uncapped
          born,      \* the phase that spawned it
          left,      \* operations left in its range(n_ops) loop
          occupied,  \* active_sessions: the lanes in use, per user
          admitted,  \* LoadRunner._admitted
          cur,       \* the coroutine that is running, or NoTask
          offers,    \* session_stats: offered, admitted, rejected
          results    \* results recorded, by the phase that dispatched them

sessionVars == <<owner, lane, born>>
runVars == <<phase, arriving, arrived, offers>>
vars == <<slotVars, sessionVars, runVars, expired, left, occupied, admitted,
          cur, results>>

Phase == {"warmup", "measured"}
Live == Task \ (At("absent") \cup At("done"))
LiveOf(u) == {s \in Live : owner[s] = u}
FirstPhase == IF Warmup THEN "warmup" ELSE "measured"

\* (mutant of Recording: the warm-up is recorded too)
AlwaysRecording == TRUE

\* _record_results
Recording == phase = "measured"

\* A fresh SessionAdmissionStats
NoOffers == [offered |-> 0, admitted |-> 0, rejected |-> 0]

Init ==
  /\ pc = [s \in Task |-> "absent"] /\ SlotInit
  /\ phase = FirstPhase /\ expired = FALSE
  /\ arriving = TRUE /\ arrived = 0
  /\ owner = [s \in Task |-> 0]
  /\ lane = [s \in Task |-> Uncapped]
  /\ born = [s \in Task |-> FirstPhase]
  /\ left = [s \in Task |-> 0]
  /\ occupied = [u \in User |-> {}]
  /\ admitted = 0 /\ cur = NoTask
  /\ offers = NoOffers
  /\ results = [p \in Phase |-> 0]

-----------------------------------------------------------------------------
(* Time and the arrival loop *)

Tick ==
  /\ phase # "over" /\ ~expired /\ expired' = TRUE
  /\ UNCHANGED <<slotVars, sessionVars, runVars, left, occupied, admitted, cur,
                 results>>

\* session_stats.record of one arrival, only while results are recorded
Record(in, out) ==
  offers' = IF Recording
            THEN [offered  |-> offers.offered + 1,
                  admitted |-> offers.admitted + in,
                  rejected |-> offers.rejected + out]
            ELSE offers

LaneFree(u) == Cap[u] # Uncapped => Cardinality(occupied[u]) < Cap[u]

\* (mutant of LaneFor: the number of lanes in use names the next lane)
LaneByCount(u) == IF Cap[u] = Uncapped THEN {Uncapped}
                  ELSE {Cardinality(occupied[u])}

\* _admit_open_session: the lowest lane of the user nobody occupies
LaneFor(u) == IF Cap[u] = Uncapped THEN {Uncapped}
              ELSE LET unused == (0 .. Cap[u] - 1) \ occupied[u]
                   IN  {i \in unused : \A j \in unused : i <= j}

Arrival(u) ==
  /\ cur = NoTask /\ phase # "over" /\ arriving /\ ~expired
  /\ arrived < MaxArrivals
  /\ u = arrived % Users
  /\ arrived' = arrived + 1
  /\ UNCHANGED <<phase, arriving, expired, admitted, cur, results, free, ahead>>

\* An arrival is admitted: it takes a lane of its user, and a task starts.
Admit(s, u) ==
  /\ Arrival(u) /\ LaneFree(u) /\ pc[s] = "absent"
  /\ pc' = [pc EXCEPT ![s] = "turn"]
  /\ owner' = [owner EXCEPT ![s] = u]
  /\ \E i \in LaneFor(u) :
       /\ lane' = [lane EXCEPT ![s] = i]
       /\ occupied' = [occupied EXCEPT ![u] = @ \cup ({i} \ {Uncapped})]
  /\ born' = [born EXCEPT ![s] = phase]
  /\ left' = [left EXCEPT ![s] = SessionOps]
  /\ Record(1, 0)

\* An arrival whose user is saturated is turned away.
TurnAway(u) ==
  /\ Arrival(u) /\ ~LaneFree(u)
  /\ Record(0, 1)
  /\ UNCHANGED <<pc, sessionVars, left, occupied>>

\* The loop ends at the deadline, or as soon as the next arrival lies past it.
EndArrivals ==
  /\ cur = NoTask /\ phase # "over" /\ arriving
  /\ arriving' = FALSE
  /\ UNCHANGED <<slotVars, sessionVars, phase, arrived, offers, expired, left,
                 occupied, admitted, cur, results>>

\* gather() over the session tasks returns
Drained == ~arriving /\ Live = {}

\* A warm-up is followed by _reset_phase_state and the
\* measured workload, the measured workload by the end of the run.
EndPhase ==
  /\ cur = NoTask /\ phase # "over" /\ Drained
  /\ phase' = IF phase = "warmup" THEN "measured" ELSE "over"
  /\ pc' = [s \in Task |-> IF pc[s] = "done" THEN "absent" ELSE pc[s]]
  /\ arriving' = (phase = "warmup")
  /\ IF phase = "warmup"
     THEN /\ expired' = FALSE /\ arrived' = 0 /\ admitted' = 0
          /\ offers' = NoOffers
          /\ occupied' = [u \in User |-> {}]
     ELSE UNCHANGED <<expired, arrived, admitted, offers, occupied>>
  /\ UNCHANGED <<free, ahead, sessionVars, left, cur, results>>

-----------------------------------------------------------------------------
(* One session *)

Runs(s) == cur \in {s, NoTask}

\* The finally clause of _open_session
FreeLane(s) ==
  occupied' = [occupied EXCEPT ![owner[s]] = @ \ ({lane[s]} \ {Uncapped})]

\* (mutant of MayLeave: a session waits for its operation past the deadline)
MayLeaveAtTurn(s) == pc[s] = "turn"

\* A session ends between two operations: its loop is over, its plan is
\* exhausted or raises, or the deadline has passed.
MayLeave(s) == pc[s] = "turn" \/ (pc[s] = "due" /\ expired)

Leave(s) ==
  /\ Runs(s) /\ MayLeave(s)
  /\ pc' = [pc EXCEPT ![s] = "done"]
  /\ FreeLane(s)
  /\ cur' = NoTask
  /\ UNCHANGED <<free, ahead, sessionVars, runVars, expired, left, admitted,
                 results>>

\* for _ in range(n_ops)
OpsLeft(s) == left[s] > 0

\* It takes the next operation of its plan and, when the operation has a delay,
\* sleeps before it is due.
NextOp(s) ==
  /\ Runs(s) /\ pc[s] = "turn" /\ ~expired /\ OpsLeft(s)
  /\ pc' = [pc EXCEPT ![s] = "due"]
  /\ left' = [left EXCEPT ![s] = @ - 1]
  /\ cur' \in {s, NoTask}
  /\ UNCHANGED <<free, ahead, sessionVars, runVars, expired, occupied, admitted,
                 results>>

\* (mutant of QueueFull: off by one)
QueueFullLate == Capped /\ admitted > C + Q

\* (mutant of QueueFull: off by one)
QueueFullEarly == Capped /\ admitted + 1 >= C + Q

QueueFull == Capped /\ admitted >= C + Q

\* _acquire_slot_bounded: reserve a place, then take a permit or wait for one.
Enter(s) ==
  /\ Runs(s) /\ pc[s] = "due" /\ ~expired /\ ~QueueFull
  /\ admitted' = IF Capped THEN admitted + 1 ELSE admitted
  /\ AcquireSlot(s)
  /\ cur' = NoTask
  /\ UNCHANGED <<sessionVars, runVars, expired, left, occupied, results>>

Recorded(s) ==
  results' = IF Recording THEN [results EXCEPT ![born[s]] = @ + 1] ELSE results

\* No room: the operation is recorded as rejected and the session goes on.
Reject(s) ==
  /\ Runs(s) /\ pc[s] = "due" /\ ~expired /\ QueueFull
  /\ pc' = [pc EXCEPT ![s] = "turn"]
  /\ cur' = s
  /\ Recorded(s)
  /\ UNCHANGED <<free, ahead, sessionVars, runVars, expired, left, occupied,
                 admitted>>

\* (mutant of InTime: the clock is read only before the wait)
NoRecheck == TRUE

\* The second look at the clock, after the permit was acquired
InTime == ~expired

\* A waiter wakes up owning a permit before the deadline: it executes.
Dispatch(s) ==
  /\ Runs(s) /\ pc[s] = "granted" /\ InTime
  /\ ResumeWithSlot(s)
  /\ cur' = NoTask
  /\ UNCHANGED <<sessionVars, runVars, expired, left, occupied,
                 admitted, results>>

\* (mutant of Unreserved: the reservation is never returned)
KeepReservation == admitted

\* A reservation is returned, if there is a limit to reserve against.
Unreserved == IF Capped THEN admitted - 1 ELSE admitted

\* The deadline passes while it waits, or before it resumes with its permit: the
\* place and the permit are given back and the session ends.
Expire(s) ==
  /\ Runs(s) /\ pc[s] \in {"queued", "granted"} /\ expired
  /\ AbandonWait(s, "done")
  /\ admitted' = Unreserved
  /\ FreeLane(s)
  /\ cur' = NoTask
  /\ UNCHANGED <<sessionVars, runVars, expired, left, results>>

\* The backend answers or fails: the result is recorded, the permit and the
\* place are released, and the session goes on without suspending.
Finish(s) ==
  /\ cur = NoTask /\ pc[s] = "executing"
  /\ Recorded(s)
  /\ ReleaseSlot(s, "turn")
  /\ admitted' = Unreserved
  /\ cur' = s
  /\ UNCHANGED <<sessionVars, runVars, expired, left, occupied>>

SessionStep(s) ==
  \/ Leave(s) \/ NextOp(s) \/ Enter(s) \/ Reject(s)
  \/ Dispatch(s) \/ Expire(s) \/ Finish(s)

Over == phase = "over" /\ UNCHANGED vars

Next ==
  \/ Tick \/ EndArrivals \/ EndPhase
  \/ \E u \in User : TurnAway(u) \/ \E s \in Task : Admit(s, u)
  \/ \E s \in Task : SessionStep(s)
  \/ Over

Spec == Init /\ [][Next]_vars

\* Time passes, the arrival loop sleeps no longer than to its deadline, ready
\* coroutines get to run, and every client call returns (the transports bound
\* each attempt and the number of attempts).
Fairness ==
  /\ WF_vars(Tick) /\ WF_vars(expired /\ EndArrivals) /\ WF_vars(EndPhase)
  /\ \A s \in Task : WF_vars(SessionStep(s))

FairSpec == Spec /\ Fairness
-----------------------------------------------------------------------------
(* Properties *)

Label == {"absent", "turn", "due", "queued", "granted", "executing", "done"}

TypeOK ==
  /\ pc \in [Task -> Label]
  /\ free \in Nat /\ ahead \in [Task -> SUBSET Task]
  /\ phase \in Phase \cup {"over"} /\ expired \in BOOLEAN
  /\ arriving \in BOOLEAN /\ arrived \in Nat
  /\ owner \in [Task -> User] /\ lane \in [Task -> Nat \cup {Uncapped}]
  /\ born \in [Task -> Phase] /\ left \in [Task -> Nat]
  /\ occupied \in [User -> SUBSET Nat] /\ admitted \in Nat
  /\ cur \in Task \cup {NoTask}
  /\ offers \in [offered : Nat, admitted : Nat, rejected : Nat]
  /\ results \in [Phase -> Nat]

\* _admitted counts exactly the operations running or waiting.  A reservation
\* that outlives its operation would make the queue look full for ever
\* (_acquire_slot_bounded, "the queue would appear permanently full").
AdmissionExact ==
  admitted = IF Capped THEN Cardinality(InFlight) ELSE 0

\* docs/load-models.md, congestion policy: at most C requests are in flight and
\* at most Q wait for a slot, not counting waiters for whom a permit is free and
\* who are about to be woken.  The code never compares the number of waiters
\* with Q: the bound follows from the reservation and the semaphore together.
CongestionBound ==
  Capped => Cardinality(Executing) <= C /\ Cardinality(Queued) <= Q + free

\* active_sessions holds exactly the lanes of the sessions still alive, and no
\* two of them share one: chat-replay gives the conversations of lane i to the
\* session that owns lane i.
LanesExact ==
  \A u \in User :
    /\ occupied[u] = {lane[s] : s \in LiveOf(u)} \ {Uncapped}
    /\ Cap[u] # Uncapped =>
         /\ occupied[u] \subseteq 0 .. (Cap[u] - 1)
         /\ Cardinality(occupied[u]) = Cardinality(LiveOf(u))

\* Nothing dispatched during the warm-up reaches the result list, and the
\* measured results are the operations the measured sessions consumed, less
\* those in progress and those the deadline expired.  The session counts, too,
\* are those of the measured arrivals alone.
ResultsAreMeasured ==
  LET measured == {s \in Task : born[s] = "measured" /\ pc[s] # "absent"}
      taken == [s \in Task |-> SessionOps - left[s]]
      consumed == FoldFunctionOnSet(+, 0, taken, measured)
  IN  /\ results["warmup"] = 0
      /\ phase = "measured" =>
           /\ offers.offered = arrived
           /\ offers.admitted = Cardinality(measured)
           /\ results["measured"] <= consumed
           /\ ~expired => results["measured"] + Cardinality(At("due") \cup InFlight) = consumed

\* A request is refused only when C + Q requests really run or wait.
RefusedOnlyWhenFull ==
  [][\A s \in Task : pc[s] = "due" /\ pc'[s] = "turn" =>
       Cardinality(InFlight) = C + Q]_vars

\* --duration bounds dispatch: no operation starts executing once the deadline
\* has been reached, whether it took a permit at once or waited for one.
NoLateDispatch ==
  [][expired => Executing' \subseteq Executing]_vars

\* Every phase drains and the run ends.
RunEnds == <>(phase = "over")

\* The runner implements the queue of docs/load-models.md.  A waiter with fewer
\* waiters in front of it than there are free permits counts as served.
Entitled == {t \in Queued : Cardinality(ahead[t]) < free}
Service == INSTANCE BoundedQueue WITH serving <- Owners \cup Entitled,
                                      waiting <- Queued \ Entitled
BoundedService == Service!FairSpec
=============================================================================
