--------------------------- MODULE MeasureBarrier ---------------------------
(***************************************************************************)
(* The start and end barriers between the processes of a sharded run       *)
(* (core/multiproc.py, and the synchronized hooks of cli.py).              *)
(*                                                                         *)
(* Every worker announces a boundary on a queue it shares with the parent  *)
(* and waits for an event.  The parent collects one announcement per       *)
(* worker, runs its own hook, and sets the event.  A worker that fails     *)
(* announces the error and sets both events, so that nobody stays blocked. *)
(*                                                                         *)
(* A multiprocessing.Queue keeps the order of one producer's messages and  *)
(* no other: it is modelled as one FIFO queue per worker, from which the   *)
(* parent takes in any order.  What the barriers are for, and the state    *)
(* that shows it, are in BarrierWindow.                                    *)
(***************************************************************************)
EXTENDS BarrierWindow, Sequences, FiniteSets

CONSTANTS HooksMayFail,  \* whether a worker's own hook may raise
          ShardsMayDie   \* whether a worker may be killed from outside

ASSUME BarrierAssumption == HooksMayFail \in BOOLEAN /\ ShardsMayDie \in BOOLEAN

VARIABLES queue,       \* queue[s]: the messages of shard s not yet received
          released,    \* which of the events "start" and "end" are set
          arrived      \* the shards counted at the boundary in progress

vars == <<shard, queue, released, parent, arrived, began, ended, unsynced>>
history == <<began, ended, unsynced>>
parentVars == <<parent, arrived>>

Boundary == {"start", "end"}
Busy     == {"preparing", "measuring", "leaving"}
Blocked  == {"atStart", "atEnd"}
Finished == {"returned", "failed"}
Awaits   == {"awaitStart", "awaitEnd"}
Stopped  == {"reported", "raised"}
Stages   == Awaits \cup Stopped \cup {"startHook", "endHook", "collect"}

TypeOK ==
  /\ shard \in [Shard -> Busy \cup Blocked \cup Finished \cup {"dead", "gone"}]
  /\ queue \in [Shard -> Seq(Boundary \cup {"error"})]
  /\ released \in SUBSET Boundary
  /\ parent \in Stages
  /\ arrived \in SUBSET Shard
  /\ began \in [Shard -> Stages \cup {"never"}]
  /\ ended \in [Shard -> Stages \cup {"never"}]
  /\ unsynced \in SUBSET Shard

Init == /\ shard = [s \in Shard |-> "preparing"]
        /\ queue = [s \in Shard |-> <<>>]
        /\ released = {}
        /\ parent = "awaitStart" /\ arrived = {}
        /\ began = [s \in Shard |-> "never"]
        /\ ended = [s \in Shard |-> "never"]
        /\ unsynced = {}

-----------------------------------------------------------------------------
(* A worker: setup, pre-ingest and warm-up; the start boundary; the        *)
(* measured phase; the end boundary; teardown.                             *)

Move(s, from, to) == shard[s] = from /\ shard' = [shard EXCEPT ![s] = to]

Put(s, message) == queue' = [queue EXCEPT ![s] = Append(@, message)]

StampBegan(s) == began' = [began EXCEPT ![s] = parent] /\ UNCHANGED ended
StampEnded(s) == ended' = [ended EXCEPT ![s] = parent] /\ UNCHANGED began

\* synchronized_start, up to its wait.
ReachStart(s) == /\ Move(s, "preparing", "atStart")
                 /\ Put(s, "start")
                 /\ UNCHANGED <<released, parentVars, history>>

\* The wait is over; the measured phase begins.
StartReleased == "start" \in released
Begin(s) == /\ StartReleased
            /\ Move(s, "atStart", "measuring")
            /\ StampBegan(s)
            /\ UNCHANGED <<queue, released, parentVars, unsynced>>

\* The measured phase has drained; synchronized_end, up to its wait.
ReachEnd(s) == /\ Move(s, "measuring", "atEnd")
               /\ Put(s, "end")
               /\ StampEnded(s)
               /\ UNCHANGED <<released, parentVars, unsynced>>

Leave(s) == /\ "end" \in released
            /\ Move(s, "atEnd", "leaving")
            /\ UNCHANGED <<queue, released, parentVars, history>>

\* The shard tears down its users and hands its results to the pool.
Return(s) == /\ Move(s, "leaving", "returned")
             /\ UNCHANGED <<queue, released, parentVars, history>>

\* (mutant of Announce: a failing shard exits without a word)
FailSilently(s) == UNCHANGED <<queue, released>>

\* Setup, pre-ingest, the workload or the teardown raises: _shard_entry
\* announces the error, sets both events and re-raises.
Announce(s) == Put(s, "error") /\ released' = Boundary
Fail(s) == /\ shard[s] \in Busy
           /\ shard' = [shard EXCEPT ![s] = "failed"]
           /\ Announce(s)
           /\ UNCHANGED <<parentVars, history>>

\* The synchronized hook itself raises, before its message is sent or while it
\* waits.  LoadRunner._call_hook swallows that, and the run goes on.
HookFails(s) ==
  /\ HooksMayFail
  /\ \/ shard[s] \in {"preparing", "atStart"}
        /\ shard' = [shard EXCEPT ![s] = "measuring"]
        /\ StampBegan(s)
     \/ shard[s] = "measuring"
        /\ shard' = [shard EXCEPT ![s] = "leaving"]
        /\ StampEnded(s)
     \/ Move(s, "atEnd", "leaving") /\ UNCHANGED <<began, ended>>
  /\ unsynced' = unsynced \cup {s}
  /\ UNCHANGED <<queue, released, parentVars>>

\* The worker is killed.  The pool starts another one, but the task of the dead
\* one is lost: it neither completes nor fails.
Die(s) == /\ ShardsMayDie
          /\ shard[s] \in Busy \cup Blocked
          /\ shard' = [shard EXCEPT ![s] = "dead"]
          /\ UNCHANGED <<queue, released, parentVars, history>>

-----------------------------------------------------------------------------
(* The parent: run_shards and _wait_for_workers.                           *)

\* The boundary _wait_for_workers was called for.
stage == IF parent = "awaitStart" THEN "start" ELSE "end"

\* The run ends with an exception: Pool.__exit__ terminates the live workers.
Raise == /\ parent' = "raised"
         /\ shard' = [s \in Shard |->
                        IF shard[s] \in Busy \cup Blocked THEN "gone" ELSE shard[s]]
         /\ UNCHANGED <<queue, arrived, history>>

\* (mutant of EveryoneArrived: one announcement opens the barrier)
AnyArrived(who) == who # {}

\* Every worker has announced the boundary in progress.
EveryoneArrived(who) == who = Shard

\* One message of shard s.  One of another boundary is dropped.
Counts(message) == message = stage
Receive(s) ==
  /\ parent \in Awaits /\ queue[s] # <<>>
  /\ Head(queue[s]) # "error"
  /\ queue' = [queue EXCEPT ![s] = Tail(@)]
  /\ LET who == IF Counts(Head(queue[s])) THEN arrived \cup {s} ELSE arrived
     IN  IF EveryoneArrived(who)
         THEN arrived' = {} /\ parent' = IF stage = "start" THEN "startHook" ELSE "endHook"
         ELSE arrived' = who /\ UNCHANGED parent
  /\ UNCHANGED <<shard, released, history>>

ReceiveError(s) == /\ parent \in Awaits /\ queue[s] # <<>>
                   /\ Head(queue[s]) = "error"
                   /\ Raise /\ UNCHANGED released

\* AsyncResult.ready: every task has completed, well or badly.
Ready == \A s \in Shard : shard[s] \in Finished

\* The queue stayed empty for a while and nobody is left to fill it.
GiveUp == parent \in Awaits /\ Ready /\ Raise /\ UNCHANGED released

\* The parent's hook for one boundary, and the event set in the finally clause.
\* If the hook raised, the run is over.
RunHook(hook, boundary, next) ==
  /\ parent = hook
  /\ released' = released \cup {boundary}
  /\ \/ parent' = next /\ UNCHANGED <<shard, queue, arrived, history>>
     \/ Raise

StartHook == RunHook("startHook", "start", "awaitEnd")
EndHook   == RunHook("endHook", "end", "collect")

\* pending.get()
AllReturned == \A s \in Shard : shard[s] = "returned"
Collect == /\ parent = "collect" /\ Ready
           /\ \/ /\ AllReturned
                 /\ parent' = "reported"
                 /\ UNCHANGED <<shard, queue, arrived, history>>
              \/ ~AllReturned /\ Raise
           /\ UNCHANGED released

Over == parent \in Stopped /\ UNCHANGED vars

Work(s) == ReachStart(s) \/ Begin(s) \/ ReachEnd(s) \/ Leave(s) \/ Return(s)
Fault(s) == Fail(s) \/ HookFails(s) \/ Die(s)
Serve(s) == Receive(s) \/ ReceiveError(s)
Parent == GiveUp \/ StartHook \/ EndHook \/ Collect

Next == \/ \E s \in Shard : Work(s) \/ Fault(s) \/ Serve(s)
        \/ Parent
        \/ Over

Spec == Init /\ [][Next]_vars

\* Workers run until they block, the parent polls, and its hooks return.
FairSpec == /\ Spec
            /\ \A s \in Shard : WF_vars(Work(s)) /\ WF_vars(Serve(s))
            /\ WF_vars(Parent)

-----------------------------------------------------------------------------
(* Properties.                                                             *)

\* run_shards returns or raises: no error of a worker, wherever it happens
\* before, between or after the boundaries, leaves the parent or a sibling
\* waiting for an announcement that cannot come.  Nothing is promised once a
\* worker was killed or its own hook has failed.
ParentEnds ==
  [](unsynced = {} /\ \A s \in Shard : shard[s] # "dead") => <>(parent \in Stopped)
=============================================================================
