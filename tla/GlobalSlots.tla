----------------------------- MODULE GlobalSlots -----------------------------
(***************************************************************************)
(* The global concurrency limit of one LoadRunner: an asyncio.Semaphore    *)
(* with C permits (self._global_sem), as the tasks of the runner use it.   *)
(*                                                                         *)
(* The semaphore is external code.  What is modelled is what the runner    *)
(* relies on: an uncontended acquire takes a permit without suspending; a  *)
(* contended one waits in FIFO order, also behind waiters that own a       *)
(* permit but have not resumed; release hands its permit to the first      *)
(* waiter, who owns it before it resumes; a waiter that is cancelled after *)
(* that hand-over passes the permit on.                                    *)
(*                                                                         *)
(* C = 0 stands for "no semaphore": the runner creates one only when       *)
(* global_concurrency > 0.                                                 *)
(***************************************************************************)
EXTENDS Naturals, FiniteSets

CONSTANTS Task,     \* the coroutines that compete for a permit
          C         \* RunConfig.global_concurrency

ASSUME SlotAssumption == IsFiniteSet(Task) /\ C \in Nat

VARIABLES pc,       \* where each coroutine is suspended (or runs)
          free,     \* Semaphore._value
          ahead     \* ahead[t]: the waiters in front of t in Semaphore._waiters

slotVars == <<pc, free, ahead>>

At(label) == {t \in Task : pc[t] = label}

\* Waiters still asleep; waiters that own a permit but have not resumed; and
\* tasks inside _execute, between acquiring and releasing.
Queued    == At("queued")
Granted   == At("granted")
Executing == At("executing")
Owners    == Granted \cup Executing
InFlight  == Queued \cup Owners

Capped == C > 0

\* Semaphore.locked(): no permit left, or somebody is in the queue.
Locked == free = 0 \/ Queued \cup Granted # {}

SlotInit == free = C /\ ahead = [t \in Task |-> {}]

\* Task t asks for a permit: it executes at once or joins the queue.
AcquireSlot(t) ==
  \/ /\ Capped => ~Locked
     /\ pc' = [pc EXCEPT ![t] = "executing"]
     /\ free' = IF Capped THEN free - 1 ELSE free
     /\ UNCHANGED ahead
  \/ /\ Capped /\ Locked
     /\ pc' = [pc EXCEPT ![t] = "queued"]
     /\ ahead' = [ahead EXCEPT ![t] = Queued]
     /\ UNCHANGED free

\* The groups of waiters other than t that may be woken next: a front part of
\* the queue, of at least `least` and at most `most` tasks if so many wait.
Front(t, least, most) ==
  {W \in SUBSET (Queued \ {t}) :
     /\ \A w \in W : ahead[w] \subseteq W \cup {t}
     /\ Cardinality(W) <= most
     /\ W = Queued \ {t} \/ Cardinality(W) >= least}

\* Task t moves to label next while n permits are free, and the waiters W are
\* handed one each.
HandOver(t, next, n, W) ==
  /\ pc' = [u \in Task |-> IF u = t THEN next
                           ELSE IF u \in W THEN "granted" ELSE pc[u]]
  /\ ahead' = [u \in Task |-> ahead[u] \ (W \cup {t})]
  /\ free' = n - Cardinality(W)

AtMostOne(n) == IF n = 0 THEN 0 ELSE 1

\* Semaphore.release by t wakes the first waiter.
ReleaseSlot(t, next) ==
  IF Capped
  THEN \E W \in Front(t, 1, 1) : HandOver(t, next, free + 1, W)
  ELSE pc' = [pc EXCEPT ![t] = next] /\ UNCHANGED <<free, ahead>>

\* A waiter resumes with its permit.  Permits released before it resumed are
\* passed on to those who queued behind it: to one of them (Python 3.11) or to
\* as many as there are permits (later versions).
ResumeWithSlot(t) ==
  \E W \in Front(t, AtMostOne(free), free) : HandOver(t, "executing", free, W)

\* (mutant of AbandonWait: a waiter that is cancelled keeps a permit it was handed)
ForgetPermit(t, next) == \E W \in Front(t, 0, 0) : HandOver(t, next, free, W)

\* The wait of task t is cancelled: it leaves the queue, and a permit it was
\* already handed is passed on.  A waiter that resumes only to find that it is
\* too late releases its permit, to the same effect.
AbandonWait(t, next) ==
  \/ /\ pc[t] = "queued"
     /\ \E W \in Front(t, 0, free) :
          HandOver(t, next, free, W)
  \/ /\ pc[t] = "granted"
     /\ \E W \in Front(t, 1, free + 1) : HandOver(t, next, free + 1, W)

-----------------------------------------------------------------------------
(* What every user of the permits must preserve. *)

PermitsConserved == Capped => free + Cardinality(Owners) = C

WorkConserving == Capped /\ Queued # {} => free = 0 \/ Granted # {}

NoLimitNoWait == ~Capped => Queued \cup Granted = {}

\* Every permit is free or owned by exactly one live task: none is lost when a
\* wait times out, none is returned twice.  And nobody sleeps while a permit is
\* free, unless a task that is about to resume will wake the sleeper.
SlotInv == PermitsConserved /\ WorkConserving /\ NoLimitNoWait
=============================================================================
