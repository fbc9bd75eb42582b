--------------------------- MODULE OpenLoop_proofs ---------------------------
(***************************************************************************)
(* Theorems about the open load model, for every number of users, sessions *)
(* and operations, every C and every Q.  The inductive invariant is Inv:   *)
(* the congestion bound the documentation states is not inductive by       *)
(* itself, because the code bounds the reservations (_admitted), and only  *)
(* the books of the semaphore (SlotInv) tie a reservation to a request     *)
(* that runs or waits.  The loop is shown to implement the bounded queue   *)
(* of the documentation: the waiters for whom a permit is free are the     *)
(* first ones of the queue, whoever of them has been handed one.  Ledger   *)
(* ties the results to the plans: an operation that a measured session took *)
(* is recorded or still without a result, and only the deadline takes one  *)
(* away.                                                                   *)
(***************************************************************************)
EXTENDS OpenLoop, FiniteSetTheorems, WellFoundedInduction, TLAPS

-----------------------------------------------------------------------------
(* What the operations on the global limit preserve, for every C, every    *)
(* finite set of tasks and every queue.                                    *)

\* A label that is none of the semaphore's own.
Outside(label) == label \notin {"queued", "granted", "executing"}

\* The functions pc and ahead are total, and every count below is finite.
SlotTypes(L) ==
  /\ pc \in [Task -> L] /\ {"queued", "granted", "executing"} \subseteq L
  /\ free \in Nat
  /\ ahead \in [Task -> SUBSET Task]

LEMMA FiniteAt ==
  ASSUME NEW S \in SUBSET Task
  PROVE  IsFiniteSet(S) /\ Cardinality(S) \in Nat
BY SlotAssumption, FS_Subset, FS_CardinalityType DEF SlotAssumption

\* The cardinality of disjoint unions, in the form the counts need.
LEMMA DisjointCount ==
  ASSUME NEW S \in SUBSET Task, NEW T \in SUBSET Task, S \cap T = {}
  PROVE  Cardinality(S \cup T) = Cardinality(S) + Cardinality(T)
<1>1. IsFiniteSet(S) /\ IsFiniteSet(T) /\ Cardinality(S) \in Nat
      /\ Cardinality(T) \in Nat
  BY FiniteAt
<1>2. Cardinality(S \cup T) = Cardinality(S) + Cardinality(T) - Cardinality(S \cap T)
  BY <1>1, FS_Union
<1>3. Cardinality(S \cap T) = 0
  BY FS_EmptySet
<1> QED BY <1>1, <1>2, <1>3

\* A task that moves between labels of its own does not touch the limit.
LEMMA OutsideMove ==
  ASSUME NEW L, SlotTypes(L), NEW t \in Task, NEW next \in L,
         Outside(pc[t]), Outside(next),
         pc' = [pc EXCEPT ![t] = next], UNCHANGED <<free, ahead>>
  PROVE  /\ SlotTypes(L)' /\ (SlotInv => SlotInv')
         /\ Queued' = Queued /\ Owners' = Owners /\ InFlight' = InFlight
         /\ Executing' = Executing
<1> USE DEF SlotTypes, Outside, Owners, Queued, Granted, Executing, At, InFlight
<1>1. Queued' = Queued /\ Granted' = Granted /\ Executing' = Executing
  OBVIOUS
<1>2. SlotTypes(L)'
  OBVIOUS
<1>3. SlotInv => SlotInv'
  BY <1>1 DEF SlotInv, PermitsConserved, WorkConserving, NoLimitNoWait, Capped
<1> QED BY <1>1, <1>2, <1>3

\* Acquiring: the task owns a permit that was free, or it is queued.
LEMMA AcquireSlotSound ==
  ASSUME NEW L, SlotTypes(L), SlotInv, NEW t \in Task, Outside(pc[t]),
         AcquireSlot(t)
  PROVE  /\ SlotTypes(L)' /\ SlotInv'
         /\ \/ Owners' = Owners \cup {t} /\ Queued' = Queued
            \/ Owners' = Owners /\ Queued' = Queued \cup {t}
         /\ t \notin InFlight
<1> USE DEF SlotTypes, Outside, Owners, Queued, Granted, Executing, At, InFlight
<1>1. t \notin InFlight
  OBVIOUS
<1>2. CASE /\ Capped => ~Locked
           /\ pc' = [pc EXCEPT ![t] = "executing"]
           /\ free' = IF Capped THEN free - 1 ELSE free
           /\ UNCHANGED ahead
  <2>1. Owners' = Owners \cup {t} /\ Queued' = Queued /\ Granted' = Granted
    BY <1>2
  <2>2. Cardinality(Owners') = Cardinality(Owners) + 1 /\ Cardinality(Owners) \in Nat
    BY <2>1, <1>1, FiniteAt, FS_AddElement
  <2>3. Capped => free > 0
    BY <1>2 DEF Locked
  <2>4. SlotTypes(L)'
    BY <1>2, <2>3
  <2>5. SlotInv'
    BY <1>2, <2>1, <2>2, <2>3 DEF SlotInv, PermitsConserved, WorkConserving, NoLimitNoWait, Locked, Capped
  <2> QED BY <1>1, <2>1, <2>4, <2>5
<1>3. CASE /\ Capped /\ Locked
           /\ pc' = [pc EXCEPT ![t] = "queued"]
           /\ ahead' = [ahead EXCEPT ![t] = Queued]
           /\ UNCHANGED free
  <2>1. Owners' = Owners /\ Queued' = Queued \cup {t} /\ Granted' = Granted
    BY <1>3
  <2>2. SlotTypes(L)'
    BY <1>3
  <2>3. SlotInv'
    BY <1>3, <2>1 DEF SlotInv, PermitsConserved, WorkConserving, NoLimitNoWait, Locked, Capped
  <2> QED BY <1>1, <2>1, <2>2, <2>3
<1> QED BY <1>2, <1>3 DEF AcquireSlot

\* Any hand-over moves t to its next label, gives the tasks of W a permit each,
\* and disturbs nobody else.
LEMMA HandOverSound ==
  ASSUME NEW L, SlotTypes(L), NEW t \in Task, NEW next \in L,
         Outside(next) \/ next = "executing",
         NEW n \in Nat, NEW W \in SUBSET (Queued \ {t}), Cardinality(W) <= n,
         HandOver(t, next, n, W)
  PROVE  /\ SlotTypes(L)'
         /\ Granted' = (Granted \ {t}) \cup W
         /\ Queued' = Queued \ (W \cup {t})
         /\ Executing' = IF next = "executing" THEN Executing \cup {t}
                                               ELSE Executing \ {t}
         /\ free' + Cardinality(W) = n
         /\ Cardinality(W) \in Nat /\ free' \in Nat
<1> USE DEF SlotTypes, Outside, Queued, Granted, Executing, At
<1>1. Cardinality(W) \in Nat
  BY FiniteAt
<1>2. free' \in Nat /\ free' + Cardinality(W) = n
  BY <1>1 DEF HandOver
<1>3. pc' = [u \in Task |-> IF u = t THEN next
                            ELSE IF u \in W THEN "granted" ELSE pc[u]]
      /\ ahead' = [u \in Task |-> ahead[u] \ (W \cup {t})]
  BY DEF HandOver
<1>4. SlotTypes(L)'
  BY <1>2, <1>3
<1>5. /\ Granted' = (Granted \ {t}) \cup W
      /\ Queued' = Queued \ (W \cup {t})
      /\ Executing' = IF next = "executing" THEN Executing \cup {t}
                                            ELSE Executing \ {t}
  BY <1>3
<1> QED BY <1>1, <1>2, <1>4, <1>5

\* Waiters handed a permit by a task that gives one back keep the books balanced.
LEMMA OwnersCount ==
  ASSUME NEW t \in Owners, NEW W \in SUBSET Queued
  PROVE  /\ Cardinality((Owners \ {t}) \cup W)
              = Cardinality(Owners) - 1 + Cardinality(W)
         /\ Cardinality(Owners) \in Nat
<1>1. Owners \in SUBSET Task /\ W \in SUBSET Task /\ Owners \cap W = {}
  BY DEF Owners, Granted, Executing, Queued, At
<1>2. Cardinality(Owners \ {t}) = Cardinality(Owners) - 1
      /\ Cardinality(Owners) \in Nat
  BY <1>1, FiniteAt, FS_RemoveElement
<1>3. Cardinality((Owners \ {t}) \cup W) = Cardinality(Owners \ {t}) + Cardinality(W)
  BY <1>1, DisjointCount
<1> QED BY <1>2, <1>3

\* Releasing: the permit is free again, or the first waiter owns it.
LEMMA ReleaseSlotSound ==
  ASSUME NEW L, SlotTypes(L), SlotInv, NEW t \in Executing, NEW next \in L,
         Outside(next), ReleaseSlot(t, next)
  PROVE  /\ SlotTypes(L)' /\ SlotInv'
         /\ InFlight' = InFlight \ {t}
         /\ \E W \in SUBSET Queued : /\ Owners' = (Owners \ {t}) \cup W
                                     /\ Queued' = Queued \ W
<1>1. t \in Task /\ t \in Owners /\ t \notin Queued /\ t \notin Granted
  BY DEF Owners, Executing, Queued, Granted, At
<1>2. CASE Capped
  <2>1. PICK W \in Front(t, 1, 1) : HandOver(t, next, free + 1, W)
    BY <1>2 DEF ReleaseSlot
  <2>2. W \in SUBSET (Queued \ {t}) /\ Cardinality(W) <= 1
        /\ (W = Queued \ {t} \/ Cardinality(W) >= 1)
    BY <2>1 DEF Front
  <2>3. W \in SUBSET Task /\ Cardinality(W) \in Nat /\ free + 1 \in Nat /\ free \in Nat
    BY <2>2, FiniteAt DEF Queued, At, SlotTypes
  <2>4. /\ SlotTypes(L)'
        /\ Granted' = (Granted \ {t}) \cup W
        /\ Queued' = Queued \ (W \cup {t})
        /\ Executing' = Executing \ {t}
        /\ free' + Cardinality(W) = free + 1 /\ free' \in Nat
    <3>1. Cardinality(W) <= free + 1
      BY <2>2, <2>3
    <3> QED
      BY <1>1, <2>1, <2>2, <2>3, <3>1, HandOverSound, next # "executing" DEF Outside
  <2>5. Owners' = (Owners \ {t}) \cup W /\ Queued' = Queued \ W
        /\ InFlight' = InFlight \ {t}
    BY <1>1, <2>2, <2>4 DEF Owners, InFlight, Granted, Executing, At
  <2>6. PermitsConserved'
    BY <1>1, <1>2, <2>2, <2>3, <2>4, <2>5, OwnersCount, W \in SUBSET Queued,
       SlotAssumption
       DEF SlotInv, PermitsConserved, Capped, SlotAssumption
  <2>7. WorkConserving'
    <3>1. CASE W = Queued \ {t}
      BY <1>1, <2>5, <3>1 DEF WorkConserving
    <3>2. CASE Cardinality(W) >= 1
      <4>1. W # {}
        BY <3>2, FS_EmptySet
      <4> QED BY <2>4, <4>1 DEF WorkConserving
    <3> QED BY <2>2, <3>1, <3>2
  <2> QED BY <1>2, <2>2, <2>4, <2>5, <2>6, <2>7 DEF SlotInv, NoLimitNoWait
<1>3. CASE ~Capped
  <2>1. pc' = [pc EXCEPT ![t] = next] /\ UNCHANGED <<free, ahead>>
    BY <1>3 DEF ReleaseSlot
  <2>2. SlotTypes(L)'
    BY <2>1, <1>1 DEF SlotTypes
  <2>3. /\ Owners' = Owners \ {t} /\ Queued' = Queued /\ Granted' = Granted
        /\ InFlight' = InFlight \ {t}
    BY <1>1, <2>1 DEF Owners, InFlight, Granted, Queued, Executing, At, SlotTypes, Outside
  <2>4. SlotInv'
    BY <1>3, <2>3 DEF SlotInv, PermitsConserved, WorkConserving, NoLimitNoWait, Capped
  <2>5. Owners' = (Owners \ {t}) \cup {} /\ Queued' = Queued \ {}
    BY <2>3
  <2> QED BY <2>2, <2>3, <2>4, <2>5
<1> QED BY <1>2, <1>3

\* Resuming: the waiter executes; waiters behind it may get free permits.
LEMMA ResumeWithSlotSound ==
  ASSUME NEW L, SlotTypes(L), SlotInv, NEW t \in Granted, ResumeWithSlot(t)
  PROVE  /\ SlotTypes(L)' /\ SlotInv'
         /\ InFlight' = InFlight
         /\ \E W \in SUBSET Queued : /\ Owners' = Owners \cup W
                                     /\ Queued' = Queued \ W
<1>0. Capped
  BY DEF SlotInv, NoLimitNoWait
<1>1. t \in Task /\ t \in Owners /\ t \notin Queued /\ t \notin Executing
  BY DEF Owners, Executing, Queued, Granted, At
<1>2. PICK W \in Front(t, AtMostOne(free), free) :
         HandOver(t, "executing", free, W)
  BY DEF ResumeWithSlot
<1>3. W \in SUBSET (Queued \ {t}) /\ Cardinality(W) <= free
      /\ (W = Queued \ {t} \/ Cardinality(W) >= AtMostOne(free))
  BY <1>2 DEF Front
<1>4. W \in SUBSET Task /\ Cardinality(W) \in Nat /\ free \in Nat
  BY <1>3, FiniteAt DEF Queued, At, SlotTypes
<1>5. /\ SlotTypes(L)'
      /\ Granted' = (Granted \ {t}) \cup W
      /\ Queued' = Queued \ (W \cup {t})
      /\ Executing' = Executing \cup {t}
      /\ free' + Cardinality(W) = free /\ free' \in Nat
  BY <1>1, <1>2, <1>3, <1>4, HandOverSound, "executing" \in L DEF SlotTypes
<1>6. Owners' = Owners \cup W /\ Queued' = Queued \ W /\ InFlight' = InFlight
  BY <1>1, <1>3, <1>5 DEF Owners, InFlight
<1>7. PermitsConserved'
  <2>1. Cardinality(Owners \cup W) = Cardinality(Owners) + Cardinality(W)
    BY <1>3, DisjointCount DEF Owners, Granted, Executing, Queued, At
  <2>2. Cardinality(Owners) \in Nat
    BY FiniteAt DEF Owners, Granted, Executing, At
  <2> QED
    BY <1>4, <1>5, <1>6, <2>1, <2>2, SlotAssumption
       DEF SlotInv, PermitsConserved, Capped, SlotAssumption
<1>8. WorkConserving'
  <2>1. CASE W = Queued \ {t}
    BY <1>1, <1>6, <2>1 DEF WorkConserving
  <2>2. CASE Cardinality(W) >= AtMostOne(free) /\ free = 0
    BY <1>4, <1>5, <2>2 DEF WorkConserving
  <2>3. CASE Cardinality(W) >= AtMostOne(free) /\ free # 0
    <3>1. W # {}
      BY <2>3, <1>4, FS_EmptySet DEF AtMostOne
    <3> QED BY <1>5, <3>1 DEF WorkConserving
  <2> QED BY <1>3, <2>1, <2>2, <2>3
<1> QED BY <1>0, <1>3, <1>5, <1>6, <1>7, <1>8 DEF SlotInv, NoLimitNoWait

\* Giving up: the waiter leaves the queue, and a permit it owned moves on.
LEMMA AbandonWaitSound ==
  ASSUME NEW L, SlotTypes(L), SlotInv, NEW t \in Task, NEW next \in L,
         Outside(next), AbandonWait(t, next)
  PROVE  /\ SlotTypes(L)' /\ SlotInv'
         /\ t \in Queued \cup Granted
         /\ InFlight' = InFlight \ {t}
         /\ \E W \in SUBSET Queued : /\ Owners' = (Owners \ {t}) \cup W
                                     /\ Queued' = Queued \ (W \cup {t})
<1>0. Capped
  BY DEF SlotInv, NoLimitNoWait, AbandonWait, Queued, Granted, At
<1>1. CASE pc[t] = "queued"
  <2>1. PICK W \in Front(t, 0, free) : HandOver(t, next, free, W)
    BY <1>1 DEF AbandonWait
  <2>2. W \in SUBSET (Queued \ {t}) /\ Cardinality(W) <= free
    BY <2>1 DEF Front
  <2>3. W \in SUBSET Task /\ Cardinality(W) \in Nat /\ free \in Nat
    BY <2>2, FiniteAt DEF Queued, At, SlotTypes
  <2>4. t \notin Owners /\ t \in Queued /\ t \notin Granted /\ t \notin Executing
    BY <1>1 DEF Owners, Granted, Executing, Queued, At
  <2>5. /\ SlotTypes(L)'
        /\ Granted' = (Granted \ {t}) \cup W
        /\ Queued' = Queued \ (W \cup {t})
        /\ Executing' = Executing \ {t}
        /\ free' + Cardinality(W) = free /\ free' \in Nat
    BY <2>1, <2>2, <2>3, HandOverSound, next # "executing" DEF Outside
  <2>6. Owners' = Owners \cup W /\ Owners' = (Owners \ {t}) \cup W
        /\ InFlight' = InFlight \ {t}
    BY <2>2, <2>4, <2>5 DEF Owners, InFlight
  <2>7. PermitsConserved'
    <3>1. Cardinality(Owners \cup W) = Cardinality(Owners) + Cardinality(W)
      BY <2>2, DisjointCount DEF Owners, Granted, Executing, Queued, At
    <3>2. Cardinality(Owners) \in Nat
      BY FiniteAt DEF Owners, Granted, Executing, At
    <3> QED
      BY <2>3, <2>5, <2>6, <3>1, <3>2, SlotAssumption
         DEF SlotInv, PermitsConserved, Capped, SlotAssumption
  <2>8. WorkConserving'
    BY <2>3, <2>4, <2>5 DEF SlotInv, WorkConserving
  <2> QED
    BY <1>0, <2>2, <2>4, <2>5, <2>6, <2>7, <2>8 DEF SlotInv, NoLimitNoWait
<1>2. CASE pc[t] = "granted"
  <2>1. PICK W \in Front(t, 1, free + 1) : HandOver(t, next, free + 1, W)
    BY <1>2 DEF AbandonWait
  <2>2. W \in SUBSET (Queued \ {t}) /\ Cardinality(W) <= free + 1
        /\ (W = Queued \ {t} \/ Cardinality(W) >= 1)
    BY <2>1 DEF Front
  <2>3. W \in SUBSET Task /\ Cardinality(W) \in Nat /\ free + 1 \in Nat /\ free \in Nat
    BY <2>2, FiniteAt DEF Queued, At, SlotTypes
  <2>4. t \in Owners /\ t \in Granted /\ t \notin Queued /\ t \notin Executing
    BY <1>2 DEF Owners, Granted, Executing, Queued, At
  <2>5. /\ SlotTypes(L)'
        /\ Granted' = (Granted \ {t}) \cup W
        /\ Queued' = Queued \ (W \cup {t})
        /\ Executing' = Executing \ {t}
        /\ free' + Cardinality(W) = free + 1 /\ free' \in Nat
    BY <2>1, <2>2, <2>3, HandOverSound, next # "executing" DEF Outside
  <2>6. Owners' = (Owners \ {t}) \cup W /\ InFlight' = InFlight \ {t}
    BY <2>2, <2>4, <2>5 DEF Owners, InFlight
  <2>7. PermitsConserved'
    BY <2>2, <2>3, <2>4, <2>5, <2>6, OwnersCount, W \in SUBSET Queued, SlotAssumption
       DEF SlotInv, PermitsConserved, Capped, SlotAssumption
  <2>8. WorkConserving'
    <3>1. CASE W = Queued \ {t}
      BY <2>4, <2>5, <3>1 DEF WorkConserving
    <3>2. CASE Cardinality(W) >= 1
      <4>1. W # {}
        BY <3>2, FS_EmptySet
      <4> QED BY <2>5, <4>1 DEF WorkConserving
    <3> QED BY <2>2, <3>1, <3>2
  <2> QED
    BY <1>0, <2>2, <2>4, <2>5, <2>6, <2>7, <2>8 DEF SlotInv, NoLimitNoWait
<1> QED BY <1>1, <1>2 DEF AbandonWait

-----------------------------------------------------------------------------
(* Sums over finite sets.  What the fold is for a set of any size is shown  *)
(* by a smallest set for which it is not.                                   *)

LEMMA SmallestSet ==
  ASSUME NEW D, D # {}, \A s \in D : IsFiniteSet(s)
  PROVE  \E s \in D : \A u \in D : u \subseteq s => u = s
<1> DEFINE S == UNION D
           R == StrictSubsetOrdering(S)
<1>1. IsWellFoundedOn(R, FiniteSubsetsOf(S))
  BY FS_StrictSubsetOrderingWellFounded
<1>2. D \subseteq FiniteSubsetsOf(S)
  BY DEF FiniteSubsetsOf
<1>3. \E x \in D : \A y \in D : ~(<<y, x>> \in R)
  <2> HIDE DEF R
  <2> QED BY <1>1, <1>2, WFMin
<1>4. ASSUME NEW x \in D, NEW y \in D, ~(<<y, x>> \in R), y \subseteq x PROVE y = x
  BY <1>4, SMT DEF StrictSubsetOrdering
<1> QED BY <1>3, <1>4

LEMMA LeastNumber ==
  ASSUME NEW N, N \subseteq Nat, N # {}
  PROVE  \E n \in N : \A m \in N : n <= m
<1> DEFINE D == {1 .. n : n \in N}
<1>1. D # {} /\ \A s \in D : IsFiniteSet(s)
  <2>1. D # {}
    OBVIOUS
  <2>2. \A n \in N : IsFiniteSet(1 .. n)
    BY FS_Interval
  <2> QED BY <2>1, <2>2
<1>2. PICK s \in D : \A u \in D : u \subseteq s => u = s
  <2> HIDE DEF D
  <2> QED BY <1>1, SmallestSet
<1>3. PICK n \in N : s = 1 .. n
  OBVIOUS
<1>4. ASSUME NEW m \in N, m < n PROVE FALSE
  <2>1. 1 .. m \in D /\ 1 .. m \subseteq s
    BY <1>3, <1>4
  <2>2. 1 .. m = s
    BY <1>2, <2>1
  <2>3. n \in s /\ n \notin 1 .. m
    BY <1>3, <1>4
  <2> QED BY <2>2, <2>3
<1> QED BY <1>4

SumOf(f, S) == FoldFunctionOnSet(+, 0, f, S)
One(S) == CHOOSE x \in S : TRUE

\* The equation of the fold over the sets of family F.
Partial(g, f, F) == \A s \in F : g[s] = IF s = {} THEN 0 ELSE f[One(s)] + g[s \ {One(s)}]

\* For the subsets of at most n elements it has a solution.
LEMMA PartialSums ==
  ASSUME NEW S, IsFiniteSet(S), NEW f, NEW n \in Nat
  PROVE  \E g : /\ g = [s \in SUBSET S |-> g[s]]
                /\ Partial(g, f, {s \in SUBSET S : Cardinality(s) <= n})
<1> DEFINE Upto(m) == {s \in SUBSET S : Cardinality(s) <= m}
           Good(m) == \E g : g = [s \in SUBSET S |-> g[s]] /\ Partial(g, f, Upto(m))
           Bad == {m \in Nat : ~Good(m)}
<1>1. SUFFICES ASSUME Bad # {} PROVE FALSE
  OBVIOUS
<1>2. PICK m \in Bad : \A k \in Bad : m <= k
  <2>1. Bad \subseteq Nat
    OBVIOUS
  <2> HIDE DEF Bad
  <2> QED BY <1>1, <2>1, LeastNumber
<1>3. \A s \in SUBSET S : IsFiniteSet(s) /\ Cardinality(s) \in Nat /\ (Cardinality(s) = 0 <=> s = {})
  BY FS_Subset, FS_EmptySet, FS_CardinalityType
<1>4. CASE m = 0
  <2> DEFINE g == [s \in SUBSET S |-> 0]
  <2>1. g = [s \in SUBSET S |-> g[s]]
    OBVIOUS
  <2>2. \A s \in Upto(0) : s = {}
    BY <1>3
  <2>3. Partial(g, f, Upto(0))
    BY <2>2 DEF Partial
  <2> HIDE DEF g
  <2> QED BY <1>4, <2>1, <2>3
<1>5. CASE m > 0
  <2>1. m - 1 \in Nat /\ m - 1 \notin Bad
    <3>1. m \in Nat
      OBVIOUS
    <3> HIDE DEF Bad
    <3> QED BY <1>2, <1>5, <3>1
  <2>2. PICK g : g = [s \in SUBSET S |-> g[s]] /\ Partial(g, f, Upto(m - 1))
    BY <2>1
  <2> DEFINE h == [s \in SUBSET S |-> IF s = {} THEN 0 ELSE f[One(s)] + g[s \ {One(s)}]]
  <2>3. h = [s \in SUBSET S |-> h[s]]
    OBVIOUS
  <2>4. ASSUME NEW s \in Upto(m), s # {} PROVE g[s \ {One(s)}] = h[s \ {One(s)}]
    <3>1. One(s) \in s /\ s \in SUBSET S
      BY <2>4 DEF One
    <3>2. /\ Cardinality(s \ {One(s)}) = Cardinality(s) - 1
      BY <1>3, <3>1, FS_RemoveElement
    <3>3. s \ {One(s)} \in Upto(m - 1)
      BY <1>3, <1>2, <3>1, <3>2
    <3> QED BY <2>2, <3>3 DEF Partial
  <2>5. Partial(h, f, Upto(m))
    <3> SUFFICES ASSUME NEW s \in Upto(m)
                 PROVE h[s] = IF s = {} THEN 0 ELSE f[One(s)] + h[s \ {One(s)}]
      BY DEF Partial
    <3>1. h[s] = IF s = {} THEN 0 ELSE f[One(s)] + g[s \ {One(s)}]
      OBVIOUS
    <3> HIDE DEF h
    <3> QED BY <2>4, <3>1
  <2> HIDE DEF h
  <2> QED BY <2>3, <2>5
<1> QED BY <1>2, <1>4, <1>5

\* The fold is the value of one solution on all subsets.
LEMMA SumSolution ==
  ASSUME NEW S, IsFiniteSet(S), NEW f
  PROVE  \E g : Partial(g, f, SUBSET S) /\ SumOf(f, S) = g[S]
<1> DEFINE Eqn(g) == g = [s \in SUBSET S |->
                            IF s = {} THEN 0 ELSE f[CHOOSE x \in s : TRUE]
                                                  + g[s \ {CHOOSE x \in s : TRUE}]]
           it == CHOOSE g : Eqn(g)
<1>1. \E g : Eqn(g)
  <2>1. Cardinality(S) \in Nat /\ \A s \in SUBSET S : Cardinality(s) <= Cardinality(S)
    BY FS_CardinalityType, FS_Subset
  <2>2. {s \in SUBSET S : Cardinality(s) <= Cardinality(S)} = SUBSET S
    BY <2>1
  <2>3. PICK g : /\ g = [s \in SUBSET S |-> g[s]]
                 /\ Partial(g, f, {s \in SUBSET S : Cardinality(s) <= Cardinality(S)})
    BY <2>1, PartialSums
  <2>4. Eqn(g)
    BY <2>2, <2>3 DEF Partial, One
  <2> QED BY <2>4
<1>2. Eqn(it)
  <2> HIDE DEF Eqn
  <2> QED BY <1>1, Zenon
<1>3. SumOf(f, S) = it[S]
  BY DEF SumOf, FoldFunctionOnSet, MapThenFoldSet
<1>4. Partial(it, f, SUBSET S)
  <2> HIDE DEF it
  <2> QED BY <1>2 DEF Partial, One
<1> QED BY <1>3, <1>4

\* Two solutions agree wherever both are one, also for functions that agree.
LEMMA SolutionsAgree ==
  ASSUME NEW S, IsFiniteSet(S), NEW f, NEW h, \A x \in S : f[x] = h[x],
         NEW a, NEW b, Partial(a, f, SUBSET S), Partial(b, h, SUBSET S)
  PROVE  a[S] = b[S]
<1> DEFINE D == {s \in SUBSET S : a[s] # b[s]}
<1> SUFFICES ASSUME D # {} PROVE FALSE
  OBVIOUS
<1>1. \A s \in D : IsFiniteSet(s)
  BY FS_Subset
<1>2. PICK s \in D : \A u \in D : u \subseteq s => u = s
  <2> HIDE DEF D
  <2> QED BY <1>1, SmallestSet
<1>3. s \in SUBSET S /\ a[s] # b[s]
  OBVIOUS
<1>4. s # {}
  BY <1>3 DEF Partial
<1>5. One(s) \in s
  BY <1>4 DEF One
<1>6. s \ {One(s)} \in SUBSET S /\ s \ {One(s)} \notin D
  BY <1>2, <1>5
<1>7. a[s \ {One(s)}] = b[s \ {One(s)}] /\ f[One(s)] = h[One(s)]
  BY <1>3, <1>5, <1>6
<1> HIDE DEF D
<1> QED BY <1>3, <1>4, <1>7 DEF Partial

LEMMA SumSame ==
  ASSUME NEW S, IsFiniteSet(S), NEW f, NEW h, \A x \in S : f[x] = h[x]
  PROVE  SumOf(f, S) = SumOf(h, S)
<1>1. PICK a : Partial(a, f, SUBSET S) /\ SumOf(f, S) = a[S]
  BY SumSolution
<1>2. PICK b : Partial(b, h, SUBSET S) /\ SumOf(h, S) = b[S]
  BY SumSolution
<1> QED BY <1>1, <1>2, SolutionsAgree

LEMMA SumEmpty == ASSUME NEW f PROVE SumOf(f, {}) = 0
BY SumSolution, FS_EmptySet DEF Partial

LEMMA SumChosen ==
  ASSUME NEW S, IsFiniteSet(S), S # {}, NEW f
  PROVE  One(S) \in S /\ SumOf(f, S) = f[One(S)] + SumOf(f, S \ {One(S)})
<1>1. One(S) \in S
  BY DEF One
<1> DEFINE T == S \ {One(S)}
<1>2. IsFiniteSet(T) /\ T \subseteq S
  BY FS_Subset
<1>3. PICK g : Partial(g, f, SUBSET S) /\ SumOf(f, S) = g[S]
  BY SumSolution
<1>4. PICK k : Partial(k, f, SUBSET T) /\ SumOf(f, T) = k[T]
  BY <1>2, SumSolution
<1>5. Partial(g, f, SUBSET T)
  BY <1>2, <1>3 DEF Partial
<1>6. g[T] = k[T]
  BY <1>2, <1>4, <1>5, SolutionsAgree
<1>7. g[S] = f[One(S)] + g[T]
  BY <1>3 DEF Partial
<1> QED BY <1>1, <1>3, <1>4, <1>6, <1>7

\* A sum of naturals, taken apart at any of its elements.
LEMMA SumSplit ==
  ASSUME NEW S, IsFiniteSet(S), NEW f, \A x \in S : f[x] \in Nat
  PROVE  /\ SumOf(f, S) \in Nat
         /\ \A x \in S : SumOf(f, S) = f[x] + SumOf(f, S \ {x})
<1> DEFINE Split(s) == /\ SumOf(f, s) \in Nat
                       /\ \A x \in s : SumOf(f, s) = f[x] + SumOf(f, s \ {x})
           D == {s \in SUBSET S : ~Split(s)}
<1> SUFFICES ASSUME D # {} PROVE FALSE
  OBVIOUS
<1>1. \A s \in SUBSET S : IsFiniteSet(s)
  BY FS_Subset
<1>2. PICK s \in D : \A u \in D : u \subseteq s => u = s
  <2>1. \A t \in D : IsFiniteSet(t)
    BY <1>1
  <2> HIDE DEF D
  <2> QED BY <2>1, SmallestSet
<1>3. s \in SUBSET S /\ ~Split(s) /\ IsFiniteSet(s)
  BY <1>1
<1>4. ASSUME NEW u \in SUBSET s, u # s PROVE Split(u)
  <2>1. u \in SUBSET S /\ u \notin D
    BY <1>2, <1>3, <1>4
  <2> HIDE DEF Split
  <2> QED BY <2>1
<1> HIDE DEF D
<1>5. CASE s = {}
  BY <1>3, <1>5, SumEmpty
<1>6. CASE s # {}
  <2> DEFINE c == One(s)
  <2>1. c \in s /\ SumOf(f, s) = f[c] + SumOf(f, s \ {c})
    BY <1>3, <1>6, SumChosen
  <2> HIDE DEF c
  <2>2. Split(s \ {c})
    BY <1>4, <2>1
  <2>3. SumOf(f, s) \in Nat
    BY <1>3, <2>1, <2>2
  <2>4. ASSUME NEW x \in s, x # c PROVE SumOf(f, s) = f[x] + SumOf(f, s \ {x})
    <3>1. Split(s \ {x})
      BY <1>4
    <3>2. x \in s \ {c} /\ c \in s \ {x}
      BY <2>1, <2>4
    <3>3. (s \ {c}) \ {x} = (s \ {x}) \ {c} /\ (s \ {c}) \ {x} # s
      BY <2>1
    <3>4. SumOf(f, s \ {c}) = f[x] + SumOf(f, (s \ {c}) \ {x})
      BY <2>2, <3>2
    <3>5. SumOf(f, s \ {x}) = f[c] + SumOf(f, (s \ {c}) \ {x})
      BY <3>1, <3>2, <3>3
    <3>6. SumOf(f, (s \ {c}) \ {x}) \in Nat
      BY <1>4, <3>3
    <3>7. f[x] \in Nat /\ f[c] \in Nat
      BY <1>3, <2>1
    <3> QED BY <2>1, <3>4, <3>5, <3>6, <3>7
  <2> QED BY <1>3, <2>1, <2>3, <2>4
<1> QED BY <1>5, <1>6

\* One summand changes.
LEMMA SumChange ==
  ASSUME NEW S, IsFiniteSet(S), NEW f, NEW h, NEW x \in S, \A y \in S : f[y] \in Nat /\ h[y] \in Nat,
         \A y \in S \ {x} : f[y] = h[y]
  PROVE  SumOf(h, S) + f[x] = SumOf(f, S) + h[x]
<1>1. IsFiniteSet(S \ {x})
  BY FS_Subset
<1>2. SumOf(f, S \ {x}) = SumOf(h, S \ {x}) /\ SumOf(f, S \ {x}) \in Nat
  BY <1>1, SumSame, SumSplit
<1>3. SumOf(f, S) = f[x] + SumOf(f, S \ {x}) /\ SumOf(h, S) = h[x] + SumOf(h, S \ {x})
  BY SumSplit
<1>4. f[x] \in Nat /\ h[x] \in Nat
  OBVIOUS
<1> QED BY <1>2, <1>3, <1>4

\* One more summand.
LEMMA SumExtend ==
  ASSUME NEW S, IsFiniteSet(S), NEW f, NEW x, x \notin S, \A y \in S \cup {x} : f[y] \in Nat
  PROVE  SumOf(f, S \cup {x}) = f[x] + SumOf(f, S)
<1>1. IsFiniteSet(S \cup {x}) /\ (S \cup {x}) \ {x} = S
  BY FS_AddElement
<1> QED BY <1>1, SumSplit

-----------------------------------------------------------------------------
(* The inductive invariant.                                                *)

ReservedBound == Capped => admitted <= C + Q

Inv == TypeOK /\ SlotInv /\ AdmissionExact /\ ReservedBound

LEMMA LabelFacts ==
  /\ {"queued", "granted", "executing"} \subseteq Label
  /\ \A l \in Label \ {"queued", "granted", "executing"} : Outside(l)
BY DEF Label, Outside

LEMMA TypeOKSlots == TypeOK => SlotTypes(Label)
BY LabelFacts DEF TypeOK, SlotTypes

LEMMA InitInv == Init => Inv
<1> SUFFICES ASSUME Init PROVE Inv
  OBVIOUS
<1> USE DEF Init, SlotInit, Phase, FirstPhase, Label
<1>0. 0 \in User
  BY OpenAssumption, FS_CardinalityType DEF OpenAssumption, Users
<1>1. TypeOK
  BY <1>0, OpenAssumption, SlotAssumption
     DEF TypeOK, OpenAssumption, SlotAssumption, NoOffers
<1>2. InFlight = {} /\ Owners = {} /\ Queued = {} /\ Granted = {}
  BY DEF InFlight, Owners, Queued, Granted, Executing, At
<1>3. SlotInv
  BY <1>2, FS_EmptySet, SlotAssumption
     DEF SlotInv, PermitsConserved, WorkConserving, NoLimitNoWait, SlotAssumption, Capped
<1>4. AdmissionExact /\ ReservedBound
  BY <1>2, FS_EmptySet, OpenAssumption, SlotAssumption
     DEF AdmissionExact, ReservedBound, OpenAssumption, SlotAssumption
<1> QED BY <1>1, <1>3, <1>4 DEF Inv

\* A step of one session that moves it between labels of its own and leaves the
\* reservations alone.
LEMMA QuietMove ==
  ASSUME Inv, NEW s \in Task, NEW next \in Label, Outside(pc[s]), Outside(next),
         pc' = [pc EXCEPT ![s] = next], UNCHANGED <<free, ahead, admitted>>
  PROVE  SlotTypes(Label)' /\ SlotInv' /\ AdmissionExact' /\ ReservedBound'
<1>1. SlotTypes(Label)
  BY TypeOKSlots DEF Inv
<1>2. SlotTypes(Label)' /\ (SlotInv => SlotInv') /\ InFlight' = InFlight
  BY <1>1, OutsideMove
<1> QED BY <1>2 DEF Inv, AdmissionExact, ReservedBound, Capped

-----------------------------------------------------------------------------
(* One lemma per kind of step. *)

LEMMA TickInv == Inv /\ Tick => Inv'
BY DEF Inv, Tick, TypeOK, slotVars, sessionVars, runVars, SlotInv,
       PermitsConserved, WorkConserving, NoLimitNoWait, Capped, AdmissionExact, ReservedBound,
       InFlight, Owners, Queued, Granted, Executing, At

LEMMA EndArrivalsInv == Inv /\ EndArrivals => Inv'
BY DEF Inv, EndArrivals, TypeOK, slotVars, sessionVars, runVars, SlotInv,
       PermitsConserved, WorkConserving, NoLimitNoWait, Capped, AdmissionExact, ReservedBound,
       InFlight, Owners, Queued, Granted, Executing, At

LEMMA TurnAwayInv == ASSUME Inv, NEW u \in User, TurnAway(u) PROVE Inv'
<1>1. TypeOK'
  BY DEF Inv, TurnAway, Arrival, Record, TypeOK, sessionVars
<1>2. SlotInv' /\ AdmissionExact' /\ ReservedBound'
  BY DEF Inv, TurnAway, Arrival, SlotInv, PermitsConserved, WorkConserving, NoLimitNoWait, Capped,
         AdmissionExact, ReservedBound, InFlight, Owners, Queued, Granted,
         Executing, At
<1> QED BY <1>1, <1>2 DEF Inv

LEMMA AdmitInv ==
  ASSUME Inv, NEW s \in Task, NEW u \in User, Admit(s, u) PROVE Inv'
<1>1. pc[s] = "absent" /\ pc' = [pc EXCEPT ![s] = "turn"]
      /\ UNCHANGED <<free, ahead, admitted>>
  BY DEF Admit, Arrival
<1>2. SlotTypes(Label)' /\ SlotInv' /\ AdmissionExact' /\ ReservedBound'
  BY <1>1, QuietMove DEF Label, Outside
<1>3. PICK i \in LaneFor(u) :
        /\ lane' = [lane EXCEPT ![s] = i]
        /\ occupied' = [occupied EXCEPT ![u] = @ \cup ({i} \ {Uncapped})]
  BY DEF Admit
<1>4. i \in Nat \cup {Uncapped}
  BY OpenAssumption DEF LaneFor, OpenAssumption
<1>5. /\ lane' \in [Task -> Nat \cup {Uncapped}]
      /\ occupied' \in [User -> SUBSET Nat]
  BY <1>3, <1>4 DEF Inv, TypeOK
<1>6. /\ owner' \in [Task -> User] /\ left' \in [Task -> Nat]
      /\ arrived' \in Nat
      /\ offers' \in [offered : Nat, admitted : Nat, rejected : Nat]
  BY OpenAssumption DEF Inv, TypeOK, Admit, Arrival, Record, OpenAssumption
<1>7. born' \in [Task -> Phase]
  BY DEF Inv, TypeOK, Admit, Arrival, Phase
<1>8. /\ phase' = phase /\ expired' = expired /\ arriving' = arriving
      /\ cur' = cur /\ results' = results /\ admitted' = admitted
  BY DEF Admit, Arrival
<1> QED BY <1>2, <1>5, <1>6, <1>7, <1>8 DEF Inv, TypeOK, SlotTypes

LEMMA EndPhaseInv == Inv /\ EndPhase => Inv'
<1> SUFFICES ASSUME Inv, EndPhase PROVE Inv'
  OBVIOUS
<1> USE DEF Inv
<1>1. /\ \A s \in Task : pc[s] \in {"absent", "done"}
      /\ pc' = [s \in Task |-> IF pc[s] = "done" THEN "absent" ELSE pc[s]]
      /\ UNCHANGED <<free, ahead>>
  BY DEF EndPhase, Drained, Live, At
<1>2. Queued = {} /\ Owners = {} /\ InFlight = {}
  BY <1>1 DEF InFlight, Owners, Queued, Granted, Executing, At
<1>3. Queued' = {} /\ Owners' = {} /\ Granted' = {} /\ InFlight' = {}
  BY <1>1 DEF InFlight, Owners, Queued, Granted, Executing, At
<1>4. SlotInv'
  BY <1>1, <1>2, <1>3 DEF SlotInv, PermitsConserved, WorkConserving, NoLimitNoWait, Capped
<1>5. admitted = 0 /\ admitted' = 0
  BY <1>2, FS_EmptySet DEF AdmissionExact, EndPhase
<1>6. AdmissionExact' /\ ReservedBound'
  BY <1>3, <1>5, FS_EmptySet, OpenAssumption, SlotAssumption
     DEF AdmissionExact, ReservedBound, Capped, OpenAssumption, SlotAssumption
<1>7. pc' \in [Task -> Label]
  BY <1>1 DEF TypeOK, Label
<1>8. /\ phase' \in Phase \cup {"over"} /\ arriving' \in BOOLEAN
      /\ expired' \in BOOLEAN /\ arrived' \in Nat
      /\ offers' \in [offered : Nat, admitted : Nat, rejected : Nat]
      /\ occupied' \in [User -> SUBSET Nat]
  <2>1. NoOffers \in [offered : Nat, admitted : Nat, rejected : Nat]
    BY DEF NoOffers
  <2>2. arriving' \in BOOLEAN
    BY DEF EndPhase
  <2>3. CASE phase = "warmup"
    <3>1. /\ phase' = "measured" /\ expired' = FALSE /\ arrived' = 0
          /\ offers' = NoOffers /\ occupied' = [u \in User |-> {}]
      BY <2>3 DEF EndPhase
    <3> QED BY <2>1, <2>2, <3>1 DEF Phase
  <2>4. CASE phase # "warmup"
    BY <2>2, <2>4 DEF EndPhase, TypeOK
  <2> QED BY <2>3, <2>4
<1>9. UNCHANGED <<owner, lane, born, left, cur, results>>
  BY DEF EndPhase, sessionVars
<1> QED BY <1>1, <1>4, <1>5, <1>6, <1>7, <1>8, <1>9 DEF TypeOK

LEMMA LeaveInv == ASSUME Inv, NEW s \in Task, Leave(s) PROVE Inv'
<1>1. /\ pc[s] \in {"turn", "due"} /\ pc' = [pc EXCEPT ![s] = "done"]
      /\ UNCHANGED <<free, ahead, admitted>>
  BY DEF Leave, MayLeave
<1>2. SlotTypes(Label)' /\ SlotInv' /\ AdmissionExact' /\ ReservedBound'
  BY <1>1, QuietMove DEF Label, Outside
<1>3. occupied' \in [User -> SUBSET Nat]
  BY DEF Inv, TypeOK, Leave, FreeLane
<1>4. cur' \in Task \cup {NoTask}
  BY DEF Leave
<1> QED
  BY <1>1, <1>2, <1>3, <1>4
     DEF Inv, TypeOK, SlotTypes, Leave, sessionVars, runVars

LEMMA NextOpInv == ASSUME Inv, NEW s \in Task, NextOp(s) PROVE Inv'
<1>1. /\ pc[s] = "turn" /\ pc' = [pc EXCEPT ![s] = "due"]
      /\ UNCHANGED <<free, ahead, admitted>>
  BY DEF NextOp
<1>2. SlotTypes(Label)' /\ SlotInv' /\ AdmissionExact' /\ ReservedBound'
  BY <1>1, QuietMove DEF Label, Outside
<1>3. left' \in [Task -> Nat]
  BY DEF Inv, TypeOK, NextOp, OpsLeft
<1>4. cur' \in Task \cup {NoTask}
  BY DEF NextOp
<1> QED
  BY <1>1, <1>2, <1>3, <1>4
     DEF Inv, TypeOK, SlotTypes, NextOp, sessionVars, runVars

LEMMA RejectInv == ASSUME Inv, NEW s \in Task, Reject(s) PROVE Inv'
<1>1. /\ pc[s] = "due" /\ pc' = [pc EXCEPT ![s] = "turn"]
      /\ UNCHANGED <<free, ahead, admitted>>
  BY DEF Reject
<1>2. SlotTypes(Label)' /\ SlotInv' /\ AdmissionExact' /\ ReservedBound'
  BY <1>1, QuietMove DEF Label, Outside
<1>3. results' \in [Phase -> Nat] /\ cur' \in Task \cup {NoTask}
  BY DEF Inv, TypeOK, Reject, Recorded
<1> QED
  BY <1>1, <1>2, <1>3 DEF Inv, TypeOK, SlotTypes, Reject, sessionVars, runVars

\* Membership in InFlight is what a reservation counts.
LEMMA InFlightCount ==
  ASSUME NEW s \in Task
  PROVE  /\ s \in InFlight => Cardinality(InFlight \ {s}) = Cardinality(InFlight) - 1
         /\ s \notin InFlight => Cardinality(InFlight \cup {s}) = Cardinality(InFlight) + 1
         /\ Cardinality(InFlight) \in Nat
         /\ s \in InFlight => Cardinality(InFlight) > 0
<1>1. InFlight \in SUBSET Task
  BY DEF InFlight, Owners, Queued, Granted, Executing, At
<1>2. IsFiniteSet(InFlight) /\ Cardinality(InFlight) \in Nat
  BY <1>1, FiniteAt
<1>3. s \in InFlight => Cardinality(InFlight) > 0
  BY <1>2, FS_EmptySet
<1> QED BY <1>2, <1>3, FS_AddElement, FS_RemoveElement

LEMMA EnterInv == ASSUME Inv, NEW s \in Task, Enter(s) PROVE Inv'
<1> USE DEF Inv
<1>1. SlotTypes(Label) /\ pc[s] = "due" /\ Outside(pc[s]) /\ AcquireSlot(s)
  BY TypeOKSlots DEF Enter, Outside
<1>2. /\ SlotTypes(Label)' /\ SlotInv' /\ s \notin InFlight
      /\ InFlight' = InFlight \cup {s}
  BY <1>1, AcquireSlotSound DEF InFlight
<1>3. admitted \in Nat /\ C \in Nat /\ Q \in Nat
  BY SlotAssumption, OpenAssumption DEF TypeOK, SlotAssumption, OpenAssumption
<1>4. admitted' = IF Capped THEN admitted + 1 ELSE admitted
  BY DEF Enter
<1>5. AdmissionExact'
  BY <1>2, <1>3, <1>4, InFlightCount DEF AdmissionExact, Capped
<1>6. ReservedBound'
  BY <1>3, <1>4 DEF ReservedBound, Enter, QueueFull, Capped
<1>7. cur' \in Task \cup {NoTask} /\ admitted' \in Nat
  BY <1>3, <1>4 DEF Enter
<1>8. UNCHANGED <<sessionVars, runVars, expired, left, occupied, results>>
  BY DEF Enter
<1> QED
  BY <1>2, <1>5, <1>6, <1>7, <1>8 DEF TypeOK, SlotTypes, sessionVars, runVars

\* Dispatch, like every step that resumes a waiter, keeps the requests in flight.
LEMMA DispatchInv == ASSUME Inv, NEW s \in Task, Dispatch(s) PROVE Inv'
<1> USE DEF Inv
<1>1. SlotTypes(Label) /\ s \in Granted /\ ResumeWithSlot(s) /\ admitted' = admitted
  BY TypeOKSlots DEF Dispatch, Granted, At
<1>2. SlotTypes(Label)' /\ SlotInv' /\ InFlight' = InFlight
  BY <1>1, ResumeWithSlotSound
<1>3. AdmissionExact' /\ ReservedBound'
  BY <1>1, <1>2 DEF AdmissionExact, ReservedBound, Capped
<1>4. cur' \in Task \cup {NoTask}
      /\ UNCHANGED <<sessionVars, runVars, expired, left, occupied, admitted, results>>
  BY DEF Dispatch
<1> QED BY <1>2, <1>3, <1>4 DEF TypeOK, SlotTypes, sessionVars, runVars

\* An operation that leaves takes its reservation with it.
LEMMA UnreserveSound ==
  ASSUME Inv, NEW s \in InFlight, InFlight' = InFlight \ {s}, admitted' = Unreserved
  PROVE  AdmissionExact' /\ ReservedBound' /\ admitted' \in Nat
<1>1. s \in Task
  BY DEF InFlight, Owners, Queued, Granted, Executing, At
<1>2. admitted \in Nat /\ C \in Nat /\ Q \in Nat
  BY SlotAssumption, OpenAssumption DEF Inv, TypeOK, SlotAssumption, OpenAssumption
<1>3. AdmissionExact' /\ admitted' \in Nat
  BY <1>1, <1>2, InFlightCount DEF Inv, AdmissionExact, Unreserved, Capped
<1>4. ReservedBound'
  BY <1>2, <1>3 DEF Inv, ReservedBound, Unreserved, Capped
<1> QED BY <1>3, <1>4

LEMMA ExpireInv == ASSUME Inv, NEW s \in Task, Expire(s) PROVE Inv'
<1> USE DEF Inv
<1>1. SlotTypes(Label) /\ AbandonWait(s, "done") /\ Outside("done") /\ "done" \in Label
  BY TypeOKSlots DEF Expire, Outside, Label
<1>2. /\ SlotTypes(Label)' /\ SlotInv' /\ InFlight' = InFlight \ {s}
      /\ s \in InFlight
  BY <1>1, AbandonWaitSound DEF InFlight, Owners
<1>3. AdmissionExact' /\ ReservedBound' /\ admitted' \in Nat
  BY <1>2, UnreserveSound DEF Expire
<1>4. occupied' \in [User -> SUBSET Nat]
  BY DEF TypeOK, Expire, FreeLane
<1>5. cur' \in Task \cup {NoTask}
      /\ UNCHANGED <<sessionVars, runVars, expired, left, results>>
  BY DEF Expire
<1> QED BY <1>2, <1>3, <1>4, <1>5 DEF TypeOK, SlotTypes, sessionVars, runVars

LEMMA FinishInv == ASSUME Inv, NEW s \in Task, Finish(s) PROVE Inv'
<1> USE DEF Inv
<1>1. /\ SlotTypes(Label) /\ s \in Executing /\ ReleaseSlot(s, "turn")
      /\ Outside("turn") /\ "turn" \in Label
  BY TypeOKSlots DEF Finish, Outside, Label, Executing, At
<1>2. /\ SlotTypes(Label)' /\ SlotInv' /\ InFlight' = InFlight \ {s}
      /\ s \in InFlight
  BY <1>1, ReleaseSlotSound DEF InFlight, Owners
<1>3. AdmissionExact' /\ ReservedBound' /\ admitted' \in Nat
  BY <1>2, UnreserveSound DEF Finish
<1>4. results' \in [Phase -> Nat]
  BY DEF TypeOK, Finish, Recorded
<1>5. cur' \in Task \cup {NoTask}
      /\ UNCHANGED <<sessionVars, runVars, expired, left, occupied>>
  BY DEF Finish
<1> QED BY <1>2, <1>3, <1>4, <1>5 DEF TypeOK, SlotTypes, sessionVars, runVars

LEMMA StutterInv == Inv /\ UNCHANGED vars => Inv'
BY DEF Inv, vars, TypeOK, slotVars, sessionVars, runVars, SlotInv,
       PermitsConserved, WorkConserving, NoLimitNoWait, Capped, AdmissionExact,
       ReservedBound, InFlight, Owners, Queued, Granted, Executing, At

THEOREM Invariance == Spec => []Inv
<1>1. Init => Inv
  BY InitInv
<1>2. Inv /\ [Next]_vars => Inv'
  <2> SUFFICES ASSUME Inv, [Next]_vars PROVE Inv'
    OBVIOUS
  <2>1. CASE Tick
    BY <2>1, TickInv
  <2>2. CASE EndArrivals
    BY <2>2, EndArrivalsInv
  <2>3. CASE EndPhase
    BY <2>3, EndPhaseInv
  <2>4. ASSUME NEW u \in User, TurnAway(u) PROVE Inv'
    BY <2>4, TurnAwayInv
  <2>5. ASSUME NEW u \in User, NEW s \in Task, Admit(s, u) PROVE Inv'
    BY <2>5, AdmitInv
  <2>6. ASSUME NEW s \in Task, SessionStep(s) PROVE Inv'
    BY <2>6, LeaveInv, NextOpInv, EnterInv, RejectInv, DispatchInv, ExpireInv,
       FinishInv DEF SessionStep
  <2>7. CASE Over \/ UNCHANGED vars
    BY <2>7, StutterInv DEF Over
  <2> QED BY <2>1, <2>2, <2>3, <2>4, <2>5, <2>6, <2>7 DEF Next
<1> QED BY <1>1, <1>2, PTL DEF Spec

-----------------------------------------------------------------------------
(* What follows from the invariant. *)

\* Every variable has its type, in particular no counter goes below zero.
THEOREM TypeCorrect == Spec => []TypeOK
BY Invariance, PTL DEF Inv

\* No permit of the semaphore is lost or returned twice (_acquire_global_slot,
\* _release_slot), however the deadline races the hand-over.
THEOREM PermitsSafe == Spec => []SlotInv
BY Invariance, PTL DEF Inv

\* _admitted is the number of requests that run or wait (_acquire_slot_bounded).
THEOREM ReservationsExact == Spec => []AdmissionExact
BY Invariance, PTL DEF Inv

\* At most C requests run and at most Q wait (docs/load-models.md, congestion
\* policy).
THEOREM CongestionBounded == Spec => []CongestionBound
<1>1. Inv => CongestionBound
  <2> SUFFICES ASSUME Inv, Capped
               PROVE  Cardinality(Executing) <= C /\ Cardinality(Queued) <= Q + free
    BY DEF CongestionBound
  <2>1. /\ Queued \in SUBSET Task /\ Owners \in SUBSET Task /\ Queued \cap Owners = {}
        /\ Executing \in SUBSET Owners
    BY DEF Owners, Queued, Granted, Executing, At
  <2>2. Cardinality(InFlight) = Cardinality(Queued) + Cardinality(Owners)
    BY <2>1, DisjointCount DEF InFlight
  <2>3. /\ Cardinality(Queued) \in Nat /\ Cardinality(Owners) \in Nat
        /\ IsFiniteSet(Owners)
    BY <2>1, FiniteAt
  <2>4. Cardinality(Executing) <= Cardinality(Owners) /\ Cardinality(Executing) \in Nat
    BY <2>1, <2>3, FS_Subset, FiniteAt
  <2>5. C \in Nat /\ Q \in Nat /\ free \in Nat
    BY SlotAssumption, OpenAssumption DEF SlotAssumption, OpenAssumption, Inv, TypeOK
  <2> QED
    BY <2>2, <2>3, <2>4, <2>5
       DEF Inv, SlotInv, PermitsConserved, AdmissionExact, ReservedBound, Capped
<1> QED BY <1>1, Invariance, PTL

\* How one step may move a task s: a shape of Next that hides everything else.
LEMMA PcSteps ==
  ASSUME TypeOK, [Next]_vars, NEW s \in Task
  PROVE  \/ pc'[s] = pc[s]
         \/ pc'[s] \in {"absent", "done", "granted", "queued"}
         \/ pc[s] = "absent" /\ pc'[s] = "turn"
         \/ pc[s] = "turn" /\ pc'[s] = "due"
         \/ pc[s] = "due" /\ pc'[s] = "turn" /\ Reject(s)
         \/ pc[s] = "due" /\ pc'[s] = "executing" /\ ~expired
         \/ pc[s] = "granted" /\ pc'[s] = "executing" /\ ~expired
         \/ pc[s] = "executing" /\ pc'[s] = "turn"
<1> DEFINE Goal == \/ pc'[s] = pc[s]
                   \/ pc'[s] \in {"absent", "done", "granted", "queued"}
                   \/ pc[s] = "absent" /\ pc'[s] = "turn"
                   \/ pc[s] = "turn" /\ pc'[s] = "due"
                   \/ pc[s] = "due" /\ pc'[s] = "turn" /\ Reject(s)
                   \/ pc[s] = "due" /\ pc'[s] = "executing" /\ ~expired
                   \/ pc[s] = "granted" /\ pc'[s] = "executing" /\ ~expired
                   \/ pc[s] = "executing" /\ pc'[s] = "turn"
<1> USE DEF TypeOK
<1>1. CASE Tick \/ EndArrivals \/ Over \/ UNCHANGED vars
  BY <1>1 DEF Tick, EndArrivals, Over, vars, slotVars
<1>2. CASE EndPhase
  BY <1>2 DEF EndPhase
<1>3. ASSUME NEW u \in User, TurnAway(u) PROVE Goal
  BY <1>3 DEF TurnAway
<1>4. ASSUME NEW u \in User, NEW r \in Task, Admit(r, u) PROVE Goal
  BY <1>4 DEF Admit
<1>5. ASSUME NEW r \in Task, SessionStep(r) PROVE Goal
  <2>1. CASE Leave(r)
    BY <2>1 DEF Leave
  <2>2. CASE NextOp(r)
    BY <2>2 DEF NextOp
  <2>3. CASE Enter(r)
    BY <2>3 DEF Enter, AcquireSlot
  <2>4. CASE Reject(r)
    <3>1. pc[r] = "due" /\ pc' = [pc EXCEPT ![r] = "turn"]
      BY <2>4 DEF Reject
    <3> QED BY <2>4, <3>1
  <2>5. CASE Dispatch(r)
    BY <2>5 DEF Dispatch, ResumeWithSlot, HandOver, InTime
  <2>6. CASE Expire(r)
    BY <2>6 DEF Expire, AbandonWait, HandOver
  <2>7. CASE Finish(r)
    BY <2>7 DEF Finish, ReleaseSlot, HandOver
  <2> QED BY <1>5, <2>1, <2>2, <2>3, <2>4, <2>5, <2>6, <2>7 DEF SessionStep
<1> QED BY <1>1, <1>2, <1>3, <1>4, <1>5 DEF Next

\* A request is refused as queue_full only when C + Q requests really run or
\* wait (_acquire_slot_bounded, _record_rejected).
THEOREM RefusalsJustified == Spec => RefusedOnlyWhenFull
<1>1. Inv /\ [Next]_vars =>
        [\A s \in Task : pc[s] = "due" /\ pc'[s] = "turn" =>
           Cardinality(InFlight) = C + Q]_vars
  <2> SUFFICES ASSUME Inv, [Next]_vars, NEW s \in Task, pc[s] = "due", pc'[s] = "turn"
               PROVE  Cardinality(InFlight) = C + Q
    OBVIOUS
  <2>1. Reject(s)
    BY PcSteps DEF Inv
  <2>2. Capped /\ admitted >= C + Q
    BY <2>1 DEF Reject, QueueFull
  <2>3. admitted \in Nat /\ C \in Nat /\ Q \in Nat
    BY SlotAssumption, OpenAssumption DEF Inv, TypeOK, SlotAssumption, OpenAssumption
  <2> QED BY <2>2, <2>3 DEF Inv, AdmissionExact, ReservedBound
<1> QED BY <1>1, Invariance, PTL DEF Spec, RefusedOnlyWhenFull

\* No request starts once the deadline has passed (_acquire_global_slot checks
\* the clock again after the wait).
THEOREM DispatchInTime == Spec => NoLateDispatch
<1>1. Inv /\ [Next]_vars => [expired => Executing' \subseteq Executing]_vars
  <2> SUFFICES ASSUME Inv, [Next]_vars, expired, NEW s \in Task, pc'[s] = "executing"
               PROVE  pc[s] = "executing"
    BY DEF Executing, At
  <2> QED BY PcSteps DEF Inv
<1> QED BY <1>1, Invariance, PTL DEF Spec, NoLateDispatch
-----------------------------------------------------------------------------
(* Lanes. *)

\* What the sessions of user u have on the lanes: with a cap, one for each of its own.
LanesOf(u) ==
  /\ occupied[u] = {lane[s] : s \in LiveOf(u)} \ {Uncapped}
  /\ \A s \in LiveOf(u) : IF Cap[u] = Uncapped THEN lane[s] = Uncapped
                          ELSE lane[s] \in 0 .. Cap[u] - 1
  /\ Cap[u] # Uncapped => \A s, t \in LiveOf(u) : lane[s] = lane[t] => s = t

Lanes == \A u \in User : LanesOf(u)

LEMMA LiveTasks == Live = {t \in Task : pc[t] \notin {"absent", "done"}}
BY DEF Live, At

LEMMA CapType == ASSUME NEW u \in User
                 PROVE  Cap[u] = Uncapped \/ (Cap[u] \in Nat \ {0} /\ Cap[u] # Uncapped)
BY OpenAssumption DEF OpenAssumption

LEMMA LanesKept ==
  ASSUME Lanes, Live' = Live, UNCHANGED <<owner, lane, occupied>>
  PROVE  Lanes'
BY DEF Lanes, LanesOf, LiveOf

\* A session ends and frees its lane, which nobody else of its user has.
LEMMA LaneGone ==
  ASSUME TypeOK, Lanes, NEW s \in Live, Live' = Live \ {s}, UNCHANGED <<owner, lane>>,
         FreeLane(s)
  PROVE  Lanes'
<1>1. owner[s] \in User /\ s \in Task
  BY DEF TypeOK, Live
<1>2. SUFFICES ASSUME NEW u \in User PROVE LanesOf(u)'
  BY DEF Lanes
<1>3. LanesOf(u) /\ LiveOf(u)' = LiveOf(u) \ {s}
  BY DEF Lanes, LiveOf
<1>4. CASE u # owner[s]
  <2>1. occupied'[u] = occupied[u] /\ s \notin LiveOf(u)
    BY <1>4 DEF FreeLane, TypeOK, LiveOf
  <2> QED BY <1>3, <2>1 DEF LanesOf
<1>5. CASE u = owner[s]
  <2>1. occupied'[u] = occupied[u] \ ({lane[s]} \ {Uncapped}) /\ s \in LiveOf(u)
    BY <1>5 DEF FreeLane, TypeOK, LiveOf
  <2>2. CASE Cap[u] = Uncapped
    BY <1>3, <2>1, <2>2 DEF LanesOf
  <2>3. CASE Cap[u] # Uncapped
    <3>1. \A t \in LiveOf(u) : lane[t] # Uncapped
      BY <1>3, <2>3, OpenAssumption DEF LanesOf, OpenAssumption
    <3>2. occupied'[u] = {lane[t] : t \in LiveOf(u) \ {s}} \ {Uncapped}
      BY <1>3, <2>1, <2>3, <3>1 DEF LanesOf
    <3> QED BY <1>3, <2>3, <3>2 DEF LanesOf
  <2> QED BY <2>2, <2>3
<1> QED BY <1>4, <1>5

\* A new session takes a lane that is free.
LEMMA LaneTaken ==
  ASSUME TypeOK, Lanes, NEW u \in User, NEW s \in Task, Admit(s, u)
  PROVE  Lanes'
<1>1. PICK i \in LaneFor(u) :
        /\ lane' = [lane EXCEPT ![s] = i]
        /\ occupied' = [occupied EXCEPT ![u] = @ \cup ({i} \ {Uncapped})]
  BY DEF Admit
<1>2. /\ owner' = [owner EXCEPT ![s] = u] /\ s \notin Live /\ Live' = Live \cup {s}
      /\ pc[s] = "absent"
  BY LiveTasks DEF Admit, TypeOK, Live, At
<1>3. SUFFICES ASSUME NEW v \in User PROVE LanesOf(v)'
  BY DEF Lanes
<1>4. /\ LanesOf(v) /\ s \notin LiveOf(v)
      /\ \A t \in LiveOf(v) : t \in Task /\ lane'[t] = lane[t]
  BY <1>1, <1>2 DEF Lanes, LiveOf, Live, TypeOK
<1>5. CASE v # u
  <2>1. LiveOf(v)' = LiveOf(v) /\ occupied'[v] = occupied[v]
    BY <1>1, <1>2, <1>5 DEF LiveOf, Live, TypeOK
  <2> QED BY <1>4, <2>1 DEF LanesOf
<1>6. CASE v = u
  <2>1. /\ LiveOf(v)' = LiveOf(v) \cup {s} /\ lane'[s] = i
        /\ occupied'[v] = occupied[v] \cup ({i} \ {Uncapped})
    BY <1>1, <1>2, <1>6 DEF LiveOf, Live, TypeOK
  <2>2. CASE Cap[v] = Uncapped
    BY <1>4, <1>6, <2>1, <2>2 DEF LanesOf, LaneFor
  <2>3. CASE Cap[v] # Uncapped
    <3>1. i \in 0 .. Cap[v] - 1 /\ i \notin occupied[v] /\ i # Uncapped
      BY <1>6, <2>3, OpenAssumption DEF LaneFor, OpenAssumption
    <3>2. \A t \in LiveOf(v) : lane[t] # i /\ lane[t] # Uncapped
      BY <1>4, <2>3, <3>1, OpenAssumption DEF LanesOf, OpenAssumption
    <3>3. occupied'[v] = {lane'[t] : t \in LiveOf(v)'} \ {Uncapped}
      BY <1>4, <2>1, <3>1, <3>2 DEF LanesOf
    <3> QED BY <1>4, <2>1, <2>3, <3>1, <3>2, <3>3 DEF LanesOf
  <2> QED BY <2>2, <2>3
<1> QED BY <1>5, <1>6

LEMMA LanesNext == ASSUME TypeOK, Lanes, [Next]_vars PROVE Lanes'
<1>1. CASE Tick \/ EndArrivals \/ Over \/ UNCHANGED vars
  BY <1>1, LanesKept DEF Tick, EndArrivals, Over, vars, slotVars, sessionVars, Live, At
<1>2. CASE EndPhase
  <2>1. Live = {} /\ Live' = {} /\ UNCHANGED <<owner, lane>>
    BY <1>2, LiveTasks DEF EndPhase, Drained, sessionVars, Live, At
  <2>2. \A u \in User : LiveOf(u) = {} /\ LiveOf(u)' = {} /\ occupied[u] = {}
    BY <2>1 DEF Lanes, LanesOf, LiveOf
  <2>3. \A u \in User : occupied'[u] = {}
    BY <1>2, <2>2 DEF EndPhase
  <2> QED BY <2>2, <2>3 DEF Lanes, LanesOf
<1>3. ASSUME NEW u \in User, TurnAway(u) PROVE Lanes'
  BY <1>3, LanesKept DEF TurnAway, sessionVars, Live, At
<1>4. ASSUME NEW u \in User, NEW s \in Task, Admit(s, u) PROVE Lanes'
  BY <1>4, LaneTaken
<1>5. ASSUME NEW s \in Task, SessionStep(s) PROVE Lanes'
  <2>1. CASE Leave(s)
    <3>1. s \in Live /\ Live' = Live \ {s}
      BY <2>1 DEF Leave, MayLeave, Live, At, TypeOK
    <3> QED BY <2>1, <3>1, LaneGone DEF Leave, sessionVars
  <2>2. CASE Expire(s)
    <3>1. s \in Live /\ Live' = Live \ {s}
      BY <2>2 DEF Expire, AbandonWait, HandOver, Front, Queued, Live, At, TypeOK
    <3> QED BY <2>2, <3>1, LaneGone DEF Expire, sessionVars
  <2>3. CASE NextOp(s) \/ Enter(s) \/ Reject(s)
    <3>1. Live' = Live
      BY <2>3 DEF NextOp, Enter, Reject, AcquireSlot, Live, At, TypeOK
    <3> QED BY <2>3, <3>1, LanesKept DEF NextOp, Enter, Reject, sessionVars
  <2>4. CASE Dispatch(s)
    <3>1. Live' = Live
      BY <2>4 DEF Dispatch, ResumeWithSlot, HandOver, Front, Queued, Live, At, TypeOK
    <3> QED BY <2>4, <3>1, LanesKept DEF Dispatch, sessionVars
  <2>5. CASE Finish(s)
    <3>1. Live' = Live
      BY <2>5 DEF Finish, ReleaseSlot, HandOver, Front, Queued, Live, At, TypeOK
    <3> QED BY <2>5, <3>1, LanesKept DEF Finish, sessionVars
  <2> QED BY <1>5, <2>1, <2>2, <2>3, <2>4, <2>5 DEF SessionStep
<1> QED BY <1>1, <1>2, <1>3, <1>4, <1>5 DEF Next

\* The lanes in use are those of the live sessions, each of one session only, however
\* sessions come and go (_admit_open_session and the finally of _open_session).
THEOREM LanesAlwaysExact == Spec => []LanesExact
<1>1. Spec => []Lanes
  <2>1. Init => Lanes
    BY DEF Init, Lanes, LanesOf, LiveOf, Live, At
  <2>2. Spec => []TypeOK
    BY TypeCorrect
  <2> QED BY <2>1, <2>2, LanesNext, PTL DEF Spec
<1>2. Lanes => LanesExact
  <2> SUFFICES ASSUME Lanes, NEW u \in User, Cap[u] # Uncapped
               PROVE  /\ occupied[u] \subseteq 0 .. Cap[u] - 1
                      /\ Cardinality(occupied[u]) = Cardinality(LiveOf(u))
    BY DEF LanesExact, Lanes, LanesOf
  <2>1. LanesOf(u) /\ \A s \in LiveOf(u) : lane[s] # Uncapped
    BY OpenAssumption DEF Lanes, LanesOf, OpenAssumption
  <2>2. occupied[u] = {lane[s] : s \in LiveOf(u)}
    BY <2>1 DEF LanesOf
  <2> DEFINE f == [s \in LiveOf(u) |-> lane[s]]
  <2>3. f \in [LiveOf(u) -> occupied[u]] /\ \A i \in occupied[u] : \E s \in LiveOf(u) : f[s] = i
    BY <2>2
  <2>4. f \in Surjection(LiveOf(u), occupied[u])
    BY <2>3 DEF Surjection
  <2>5. f \in Injection(LiveOf(u), occupied[u])
    BY <2>1, <2>3 DEF Injection, IsInjective, LanesOf
  <2>6. IsFiniteSet(LiveOf(u))
    BY SlotAssumption, FS_Subset DEF SlotAssumption, LiveOf, Live
  <2>7. Cardinality(occupied[u]) = Cardinality(LiveOf(u))
    BY <2>4, <2>5, <2>6, FS_Surjection
  <2> QED BY <2>1, <2>2, <2>7 DEF LanesOf
<1> QED BY <1>1, <1>2, PTL
-----------------------------------------------------------------------------
(* What is recorded. *)

\* The sessions of this phase, their operations that have no result yet, and the
\* operations they took.
Started == {s \in Task : pc[s] # "absent"}
Unanswered == At("due") \cup InFlight
Taken == [s \in Task |-> SessionOps - left[s]]
Consumed == SumOf(Taken, Started)

\* Every operation a measured session took is recorded or still without a result; only
\* the deadline takes operations away.  The property that is checked speaks of
\* born: that all sessions of the measured phase are measured is part of the
\* invariant, because results are filed under the phase of their session.
Ledger ==
  /\ results["warmup"] = 0
  /\ phase = "warmup" => results["measured"] = 0
  /\ \A s \in Task : left[s] <= SessionOps
  /\ phase = "measured" =>
       /\ \A s \in Started : born[s] = "measured"
       /\ offers.offered = arrived /\ offers.admitted = Cardinality(Started)
       /\ results["measured"] + Cardinality(Unanswered) <= Consumed
       /\ ~expired => results["measured"] + Cardinality(Unanswered) = Consumed

LEMMA StartedFinite ==
  /\ Started \in SUBSET Task /\ IsFiniteSet(Started)
  /\ Unanswered \in SUBSET Task /\ IsFiniteSet(Unanswered)
  /\ Cardinality(Started) \in Nat /\ Cardinality(Unanswered) \in Nat
<1>1. Started \in SUBSET Task /\ Unanswered \in SUBSET Task
  BY DEF Started, Unanswered, InFlight, Owners, Queued, Granted, Executing, At
<1> QED BY <1>1, FiniteAt

\* pc alone says which sessions there are and which of their operations are open.
LEMMA UnansweredPc ==
  /\ Unanswered = {t \in Task : pc[t] \in {"due", "queued", "granted", "executing"}}
  /\ Unanswered' = {t \in Task : pc'[t] \in {"due", "queued", "granted", "executing"}}
BY DEF Unanswered, InFlight, Owners, Queued, Granted, Executing, At

LEMMA TakenType ==
  ASSUME TypeOK, Ledger
  PROVE  /\ \A s \in Task : Taken[s] = SessionOps - left[s] /\ Taken[s] \in Nat
         /\ Consumed \in Nat
<1>1. \A s \in Task : Taken[s] = SessionOps - left[s] /\ Taken[s] \in Nat
  BY OpenAssumption DEF TypeOK, Ledger, Taken, OpenAssumption
<1>2. IsFiniteSet(Started) /\ Started \in SUBSET Task
  BY StartedFinite
<1>3. Consumed \in Nat
  BY <1>1, <1>2, SumSplit DEF Consumed
<1> QED BY <1>1, <1>3

\* A step that takes no operation.
LEMMA LedgerKept ==
  ASSUME TypeOK, Ledger, UNCHANGED <<phase, arrived, offers, born, left>>,
         Started' = Started,
         results'["warmup"] = results["warmup"],
         phase = "warmup" => results' = results,
         phase = "measured" =>
           LET open == results["measured"] + Cardinality(Unanswered)
           IN  \/ open' = open /\ (expired => expired')
               \/ open' <= open /\ open \in Nat /\ open' \in Nat /\ expired'
  PROVE  Ledger'
<1> DEFINE open == results["measured"] + Cardinality(Unanswered)
<1>1. Consumed' = Consumed
  BY DEF Consumed, Taken
<1>2. CASE phase = "measured" /\ open' = open /\ (expired => expired')
  BY <1>1, <1>2 DEF Ledger
<1>3. CASE phase = "measured" /\ open' <= open /\ open \in Nat /\ open' \in Nat /\ expired'
  BY <1>1, <1>3, TakenType DEF Ledger
<1>4. CASE phase # "measured"
  BY <1>4 DEF Ledger
<1> QED BY <1>2, <1>3, <1>4

\* An operation leaves the open ones.
LEMMA UnansweredLess ==
  ASSUME NEW s \in Unanswered, Unanswered' = Unanswered \ {s}
  PROVE  Cardinality(Unanswered') = Cardinality(Unanswered) - 1
         /\ Cardinality(Unanswered) \in Nat \ {0} /\ Cardinality(Unanswered') \in Nat
<1>1. IsFiniteSet(Unanswered) /\ Cardinality(Unanswered) \in Nat
  BY StartedFinite
<1>2. Cardinality(Unanswered) # 0
  BY <1>1, FS_EmptySet
<1> QED BY <1>1, <1>2, FS_RemoveElement

\* A result is recorded under the phase of its session.
LEMMA ResultRecorded ==
  ASSUME TypeOK, Ledger, NEW s \in Started, Recorded(s)
  PROVE  /\ results'["warmup"] = results["warmup"]
         /\ phase = "warmup" => results' = results
         /\ phase = "measured" => results'["measured"] = results["measured"] + 1
<1>1. s \in Task /\ results \in [Phase -> Nat]
  BY DEF TypeOK, Started
<1>2. CASE phase = "measured"
  <2>1. results' = [results EXCEPT !["measured"] = @ + 1]
    BY <1>2 DEF Ledger, Recorded, Recording
  <2> QED BY <1>1, <1>2, <2>1 DEF Phase
<1>3. CASE phase # "measured"
  BY <1>3 DEF Recorded, Recording
<1> QED BY <1>2, <1>3

\* A step that only moves sessions between labels with an operation without a
\* result, or between labels without one.
LEMMA LedgerSame ==
  ASSUME TypeOK, Ledger, Started' = Started, Unanswered' = Unanswered,
         UNCHANGED <<phase, arrived, offers, born, left, results>>, expired => expired'
  PROVE  Ledger'
BY LedgerKept DEF TypeOK

\* The result of s is recorded: one operation less is open.
LEMMA LedgerAnswered ==
  ASSUME TypeOK, Ledger, NEW s \in Unanswered, Recorded(s), Started' = Started,
         Unanswered' = Unanswered \ {s},
         UNCHANGED <<phase, arrived, offers, born, left, expired>>
  PROVE  Ledger'
<1>1. s \in Started /\ results["measured"] \in Nat
  BY UnansweredPc DEF Started, TypeOK, Phase
<1>2. /\ Cardinality(Unanswered') = Cardinality(Unanswered) - 1
      /\ Cardinality(Unanswered) \in Nat \ {0}
  BY UnansweredLess
<1> QED BY <1>1, <1>2, ResultRecorded, LedgerKept

\* After the deadline an operation may go without a result.
LEMMA LedgerLost ==
  ASSUME TypeOK, Ledger, NEW s \in Unanswered, Started' = Started, expired, expired',
         Unanswered' = Unanswered \ {s},
         UNCHANGED <<phase, arrived, offers, born, left, results>>
  PROVE  Ledger'
<1>1. results["measured"] \in Nat
  BY DEF TypeOK, Phase
<1>2. /\ Cardinality(Unanswered') = Cardinality(Unanswered) - 1
      /\ Cardinality(Unanswered) \in Nat \ {0} /\ Cardinality(Unanswered') \in Nat
  BY UnansweredLess
<1> QED BY <1>1, <1>2, LedgerKept

\* A session takes its next operation.
LEMMA LedgerTakes == ASSUME TypeOK, Ledger, NEW s \in Task, NextOp(s) PROVE Ledger'
<1>1. /\ pc[s] = "turn" /\ pc' = [pc EXCEPT ![s] = "due"] /\ left[s] > 0
      /\ left' = [left EXCEPT ![s] = @ - 1] /\ left[s] \in Nat
      /\ UNCHANGED <<phase, arrived, offers, born, expired, results>>
  BY DEF NextOp, OpsLeft, sessionVars, runVars, TypeOK
<1>2. /\ Started' = Started /\ s \in Started
      /\ Unanswered' = Unanswered \cup {s} /\ s \notin Unanswered
  BY <1>1, UnansweredPc DEF TypeOK, Started
<1>3. Cardinality(Unanswered') = Cardinality(Unanswered) + 1
      /\ Cardinality(Unanswered) \in Nat
  BY <1>2, StartedFinite, FS_AddElement
<1>4. \A t \in Task : left'[t] <= SessionOps /\ left'[t] \in Nat
  BY <1>1, OpenAssumption DEF Ledger, TypeOK, OpenAssumption
<1>5. /\ \A t \in Started : Taken[t] \in Nat /\ Taken'[t] \in Nat
      /\ \A t \in Started \ {s} : Taken'[t] = Taken[t]
      /\ Taken'[s] = Taken[s] + 1
  <2>1. \A t \in Task : Taken[t] = SessionOps - left[t] /\ Taken'[t] = SessionOps - left'[t]
    BY DEF Taken
  <2>2. /\ \A t \in Task \ {s} : left'[t] = left[t]
        /\ left'[s] = left[s] - 1 /\ SessionOps \in Nat /\ Started \in SUBSET Task
    BY <1>1, StartedFinite, OpenAssumption DEF TypeOK, OpenAssumption
  <2>3. \A t \in Task : left[t] \in Nat /\ left[t] <= SessionOps
    BY DEF TypeOK, Ledger
  <2> QED BY <1>4, <2>1, <2>2, <2>3
<1>6. SumOf(Taken', Started) + Taken[s] = SumOf(Taken, Started) + Taken'[s]
  BY <1>2, <1>5, StartedFinite, SumChange
<1>7. Consumed' = Consumed + 1
  <2>1. SumOf(Taken', Started) \in Nat
    BY <1>5, StartedFinite, SumSplit
  <2>2. Consumed' = SumOf(Taken', Started) /\ Consumed = SumOf(Taken, Started)
    BY <1>2 DEF Consumed
  <2> QED BY <1>2, <1>5, <1>6, <2>1, <2>2, TakenType
<1>8. results["measured"] \in Nat /\ Consumed \in Nat
  BY TakenType DEF TypeOK, Phase
<1> QED BY <1>1, <1>2, <1>3, <1>4, <1>7, <1>8 DEF Ledger

\* An admitted arrival starts a session of this phase that took nothing yet.
LEMMA LedgerAdmits ==
  ASSUME TypeOK, Ledger, NEW s \in Task, NEW u \in User, Admit(s, u)
  PROVE  Ledger'
<1>1. /\ pc[s] = "absent" /\ pc' = [pc EXCEPT ![s] = "turn"]
      /\ left' = [left EXCEPT ![s] = SessionOps] /\ born' = [born EXCEPT ![s] = phase]
      /\ arrived' = arrived + 1 /\ UNCHANGED <<phase, expired, results>>
      /\ phase # "over"
  BY DEF Admit, Arrival
<1>2. /\ Started' = Started \cup {s} /\ s \notin Started
      /\ Unanswered' = Unanswered
  BY <1>1, UnansweredPc DEF TypeOK, Started
<1>3. Cardinality(Started') = Cardinality(Started) + 1
  BY <1>2, StartedFinite, FS_AddElement
<1>4. \A t \in Task : left'[t] <= SessionOps
  BY <1>1, OpenAssumption DEF Ledger, TypeOK, OpenAssumption
<1>5. phase = "measured" =>
        offers'.offered = offers.offered + 1 /\ offers'.admitted = offers.admitted + 1
  BY DEF Admit, Record, Recording
<1>6. /\ \A t \in Started : Taken'[t] = Taken[t]
      /\ Taken'[s] = 0 /\ \A t \in Started \cup {s} : Taken'[t] \in Nat
  <2>1. \A t \in Task : Taken'[t] = SessionOps - left'[t] /\ Taken[t] = SessionOps - left[t]
    BY DEF Taken
  <2>2. /\ \A t \in Task \ {s} : left'[t] = left[t]
        /\ left'[s] = SessionOps /\ SessionOps \in Nat /\ Started \in SUBSET Task
    BY <1>1, StartedFinite, OpenAssumption DEF TypeOK, OpenAssumption
  <2> QED BY <1>2, <2>1, <2>2, TakenType
<1>7. SumOf(Taken', Started \cup {s}) = Taken'[s] + SumOf(Taken', Started)
  BY <1>2, <1>6, StartedFinite, SumExtend
<1>8. SumOf(Taken', Started) = SumOf(Taken, Started)
  BY <1>6, StartedFinite, SumSame
<1>9. Consumed' = Consumed
  <2>1. Consumed' = SumOf(Taken', Started \cup {s})
    BY <1>2 DEF Consumed
  <2>2. Consumed \in Nat
    BY TakenType
  <2> QED BY <1>6, <1>7, <1>8, <2>1, <2>2 DEF Consumed
<1>10. \A t \in Started' : phase = "measured" => born'[t] = "measured"
  BY <1>1, <1>2, StartedFinite DEF Ledger, TypeOK
<1>11. phase' = phase /\ Cardinality(Started) \in Nat
  BY <1>1, StartedFinite
<1>12. CASE phase = "measured"
  BY <1>1, <1>2, <1>3, <1>4, <1>5, <1>9, <1>10, <1>12 DEF Ledger
<1>13. CASE phase # "measured"
  BY <1>1, <1>4, <1>13 DEF Ledger
<1> QED BY <1>12, <1>13

LEMMA LedgerNextPhase == ASSUME TypeOK, Ledger, EndPhase PROVE Ledger'
<1>1. /\ \A t \in Task : pc[t] \in {"absent", "done"}
      /\ pc' = [t \in Task |-> IF pc[t] = "done" THEN "absent" ELSE pc[t]]
      /\ UNCHANGED <<born, left, results>>
  BY DEF EndPhase, Drained, Live, At, sessionVars
<1>2. \A t \in Task : pc'[t] = "absent"
  BY <1>1
<1>3. Started' = {} /\ Unanswered' = {}
  BY <1>2 DEF Started, Unanswered, InFlight, Owners, Queued, Granted, Executing, At
<1>4. CASE phase = "warmup"
  <2>1. phase' = "measured" /\ arrived' = 0 /\ offers' = NoOffers
    BY <1>4 DEF EndPhase
  <2>2. Consumed' = 0
    BY <1>3, SumEmpty DEF Consumed
  <2>3. Cardinality(Started') = 0 /\ Cardinality(Unanswered') = 0
    BY <1>3, FS_EmptySet
  <2>4. results'["measured"] = 0 /\ results'["warmup"] = 0
    BY <1>1, <1>4 DEF Ledger
  <2> QED BY <1>1, <1>3, <2>1, <2>2, <2>3, <2>4 DEF Ledger, NoOffers
<1>5. CASE phase # "warmup"
  <2>1. phase' = "over"
    BY <1>5 DEF EndPhase
  <2> QED BY <1>1, <2>1 DEF Ledger
<1> QED BY <1>4, <1>5

LEMMA LedgerSession == ASSUME Inv, Ledger, NEW s \in Task, SessionStep(s) PROVE Ledger'
<1> USE DEF Inv
<1>1. CASE Leave(s)
  <2>1. /\ pc' = [pc EXCEPT ![s] = "done"] /\ pc[s] \in {"turn", "due"}
        /\ pc[s] = "due" => expired
        /\ UNCHANGED <<phase, arrived, offers, born, left, results, expired>>
    BY <1>1 DEF Leave, MayLeave, sessionVars, runVars
  <2>2. Started' = Started
    BY <2>1 DEF Started, TypeOK
  <2>3. CASE pc[s] = "turn"
    <3>1. Unanswered' = Unanswered
      BY <2>1, <2>3, UnansweredPc DEF TypeOK
    <3> QED BY <2>1, <2>2, <3>1, LedgerSame
  <2>4. CASE pc[s] = "due"
    <3>1. Unanswered' = Unanswered \ {s} /\ s \in Unanswered
      BY <2>1, <2>4, UnansweredPc DEF TypeOK
    <3> QED BY <2>1, <2>2, <2>4, <3>1, LedgerLost
  <2> QED BY <2>1, <2>3, <2>4
<1>2. CASE NextOp(s)
  BY <1>2, LedgerTakes
<1>3. CASE Enter(s)
  <2>1. Started' = Started /\ Unanswered' = Unanswered
    BY <1>3, UnansweredPc DEF Enter, AcquireSlot, Started, TypeOK
  <2> QED BY <1>3, <2>1, LedgerSame DEF Enter, sessionVars, runVars
<1>4. CASE Reject(s)
  <2>1. /\ pc' = [pc EXCEPT ![s] = "turn"] /\ pc[s] = "due"
        /\ UNCHANGED <<phase, arrived, offers, born, left, expired>> /\ Recorded(s)
    BY <1>4 DEF Reject, sessionVars, runVars
  <2>2. /\ Started' = Started /\ Unanswered' = Unanswered \ {s}
        /\ s \in Unanswered
    BY <2>1, UnansweredPc DEF Started, TypeOK
  <2> QED BY <2>1, <2>2, LedgerAnswered
<1>5. CASE Dispatch(s)
  <2>1. Started' = Started /\ Unanswered' = Unanswered
    BY <1>5, UnansweredPc
       DEF Dispatch, ResumeWithSlot, HandOver, Front, Queued, At, Started, TypeOK
  <2> QED BY <1>5, <2>1, LedgerSame DEF Dispatch, sessionVars, runVars
<1>6. CASE Expire(s)
  <2>1. /\ expired /\ AbandonWait(s, "done") /\ pc[s] \in {"queued", "granted"}
        /\ UNCHANGED <<phase, arrived, offers, born, left, results, expired>>
    BY <1>6 DEF Expire, sessionVars, runVars
  <2>2. Started' = Started /\ Unanswered' = Unanswered \ {s} /\ s \in Unanswered
    BY <2>1, UnansweredPc
       DEF AbandonWait, HandOver, Front, Queued, At, Started, TypeOK
  <2> QED BY <2>1, <2>2, LedgerLost
<1>7. CASE Finish(s)
  <2>1. /\ pc[s] = "executing" /\ Recorded(s) /\ ReleaseSlot(s, "turn")
        /\ UNCHANGED <<phase, arrived, offers, born, left, expired>>
    BY <1>7 DEF Finish, sessionVars, runVars
  <2>2. Started' = Started /\ Unanswered' = Unanswered \ {s} /\ s \in Unanswered
    BY <2>1, UnansweredPc
       DEF ReleaseSlot, HandOver, Front, Queued, At, Started, TypeOK
  <2> QED BY <2>1, <2>2, LedgerAnswered
<1> QED BY <1>1, <1>2, <1>3, <1>4, <1>5, <1>6, <1>7 DEF SessionStep

LEMMA LedgerNext == ASSUME Inv, Ledger, [Next]_vars PROVE Ledger'
<1>1. CASE Tick \/ EndArrivals \/ Over \/ UNCHANGED vars
  <2>1. /\ Started' = Started /\ Unanswered' = Unanswered
        /\ UNCHANGED <<phase, arrived, offers, born, left, results>>
        /\ expired => expired'
    BY <1>1 DEF Tick, EndArrivals, Over, vars, slotVars, sessionVars, runVars, Started,
                Unanswered, InFlight, Owners, Queued, Granted, Executing, At
  <2> QED BY <2>1, LedgerSame DEF Inv
<1>2. CASE EndPhase
  BY <1>2, LedgerNextPhase DEF Inv
<1>3. ASSUME NEW u \in User, TurnAway(u) PROVE Ledger'
  <2>1. /\ UNCHANGED <<phase, born, left, results, expired>> /\ arrived' = arrived + 1
        /\ phase = "measured" => offers'.offered = offers.offered + 1
                                 /\ offers'.admitted = offers.admitted + 0
        /\ UNCHANGED pc
    BY <1>3 DEF TurnAway, Arrival, Record, Recording, sessionVars
  <2>2. Started' = Started /\ Unanswered' = Unanswered
    BY <2>1, UnansweredPc DEF Started
  <2>3. Consumed' = Consumed
    BY <2>1, <2>2 DEF Consumed, Taken
  <2> QED BY <2>1, <2>2, <2>3, StartedFinite DEF Ledger, Inv, TypeOK
<1>4. ASSUME NEW u \in User, NEW s \in Task, Admit(s, u) PROVE Ledger'
  BY <1>4, LedgerAdmits DEF Inv
<1>5. ASSUME NEW s \in Task, SessionStep(s) PROVE Ledger'
  BY <1>5, LedgerSession
<1> QED BY <1>1, <1>2, <1>3, <1>4, <1>5 DEF Next

LEMMA LedgerInit == Init => Ledger
<1> SUFFICES ASSUME Init PROVE Ledger
  OBVIOUS
<1>1. Started = {} /\ Unanswered = {}
  BY DEF Init, Started, Unanswered, InFlight, Owners, Queued, Granted, Executing, At
<1>2. Consumed = 0 /\ Cardinality(Started) = 0 /\ Cardinality(Unanswered) = 0
  BY <1>1, SumEmpty, FS_EmptySet DEF Consumed
<1> QED BY <1>1, <1>2, OpenAssumption DEF Init, Ledger, Phase, NoOffers, OpenAssumption

\* Nothing of the warm-up is recorded, and until the deadline every operation a
\* measured session took has a result or is still under way (_run_one,
\* _record_rejected and _reset_phase_state of LoadRunner).
THEOREM ResultsAlwaysMeasured == Spec => []ResultsAreMeasured
<1>1. Spec => []Ledger
  BY LedgerInit, LedgerNext, Invariance, PTL DEF Spec
<1>2. Inv /\ Ledger => ResultsAreMeasured
  <2> SUFFICES ASSUME Inv, Ledger PROVE ResultsAreMeasured
    OBVIOUS
  <2> DEFINE measured == {s \in Task : born[s] = "measured" /\ pc[s] # "absent"}
  <2>1. results["measured"] \in Nat /\ Cardinality(Unanswered) \in Nat /\ Consumed \in Nat
    BY StartedFinite, TakenType DEF Inv, TypeOK, Phase
  <2>2. phase = "measured" => measured = Started
    BY DEF Ledger, Started
  <2>3. FoldFunctionOnSet(+, 0, [s \in Task |-> SessionOps - left[s]], Started) = Consumed
    BY DEF Consumed, SumOf, Taken
  <2>4. results["warmup"] = 0
    BY DEF Ledger
  <2>5. CASE phase = "measured"
    <3>1. /\ offers.offered = arrived /\ offers.admitted = Cardinality(measured)
          /\ results["measured"] <= Consumed
          /\ ~expired => results["measured"] + Cardinality(Unanswered) = Consumed
      BY <2>1, <2>2, <2>5 DEF Ledger
    <3>2. FoldFunctionOnSet(+, 0, [s \in Task |-> SessionOps - left[s]], measured) = Consumed
      BY <2>2, <2>3, <2>5
    <3> HIDE DEF measured
    <3> QED BY <2>4, <3>1, <3>2 DEF ResultsAreMeasured, Unanswered, measured
  <2>6. CASE phase # "measured"
    BY <2>4, <2>6 DEF ResultsAreMeasured
  <2> QED BY <2>5, <2>6
<1> QED BY <1>1, <1>2, Invariance, PTL

-----------------------------------------------------------------------------
(* The queue of docs/load-models.md.                                       *)

\* The place of a waiter in the queue, and the first n waiters.
Rank(t) == Cardinality(ahead[t])
First(n) == {t \in Queued : Rank(t) < n}

\* Semaphore._waiters is a queue: those ahead of a waiter wait, and they are in order.
InOrder ==
  /\ \A t \in Queued : ahead[t] \in SUBSET (Queued \ {t})
  /\ \A t, u \in Queued : t # u => t \in ahead[u] \/ u \in ahead[t]
  /\ \A t, u \in Queued : t \in ahead[u] => ahead[t] \subseteq ahead[u]

LEMMA InOrderInit == Init => InOrder
BY DEF Init, InOrder, Queued, At

LEMMA RankOrder ==
  ASSUME InOrder, NEW t \in Queued
  PROVE  /\ Rank(t) \in Nat
         /\ \A u \in Queued : t \in ahead[u] => Rank(t) < Rank(u)
<1>1. Queued \in SUBSET Task
  BY DEF Queued, At
<1>2. ahead[t] \in SUBSET Task /\ t \notin ahead[t]
  BY <1>1 DEF InOrder
<1>3. IsFiniteSet(ahead[t]) /\ Rank(t) \in Nat
  BY <1>2, FiniteAt DEF Rank
<1>4. ASSUME NEW u \in Queued, t \in ahead[u] PROVE Rank(t) < Rank(u)
  <2>1. ahead[t] \cup {t} \in SUBSET ahead[u] /\ ahead[u] \in SUBSET Task
    BY <1>1, <1>4 DEF InOrder
  <2>2. IsFiniteSet(ahead[u]) /\ Cardinality(ahead[u]) \in Nat
    BY <2>1, FiniteAt
  <2>3. Cardinality(ahead[t] \cup {t}) = Rank(t) + 1
    BY <1>2, <1>3, FS_AddElement DEF Rank
  <2>4. Cardinality(ahead[t] \cup {t}) <= Cardinality(ahead[u])
    BY <2>1, <2>2, FS_Subset
  <2> QED BY <1>3, <2>2, <2>3, <2>4 DEF Rank
<1> QED BY <1>3, <1>4

\* Each place of the queue is that of one waiter.
LEMMA RankBijective ==
  ASSUME InOrder
  PROVE  /\ \A t \in Queued : Rank(t) \in 0 .. Cardinality(Queued) - 1
         /\ \A t, u \in Queued : Rank(t) = Rank(u) => t = u
         /\ \A i \in 0 .. Cardinality(Queued) - 1 : \E t \in Queued : Rank(t) = i
<1> DEFINE N == Cardinality(Queued)
           rank == [t \in Queued |-> Rank(t)]
<1>1. Queued \in SUBSET Task /\ IsFiniteSet(Queued) /\ N \in Nat
  BY FiniteAt DEF Queued, At
<1>2. ASSUME NEW t \in Queued PROVE Rank(t) \in 0 .. N - 1
  <2>1. ahead[t] \cup {t} \in SUBSET Queued /\ ahead[t] \in SUBSET Task /\ t \notin ahead[t]
    BY <1>1 DEF InOrder
  <2>2. Cardinality(ahead[t] \cup {t}) = Rank(t) + 1 /\ Rank(t) \in Nat
    BY <2>1, FiniteAt, FS_AddElement DEF Rank
  <2>3. Cardinality(ahead[t] \cup {t}) <= N
    BY <1>1, <2>1, FS_Subset
  <2> QED BY <1>1, <2>2, <2>3
<1>3. \A t, u \in Queued : Rank(t) = Rank(u) => t = u
  BY RankOrder DEF InOrder
<1>4. rank \in Injection(Queued, 0 .. N - 1)
  BY <1>2, <1>3 DEF Injection, IsInjective
<1>5. IsFiniteSet(0 .. N - 1) /\ Cardinality(0 .. N - 1) = N
  BY <1>1, FS_Interval
<1>6. rank \in Surjection(Queued, 0 .. N - 1)
  BY <1>4, <1>5, FS_Injection
<1> QED BY <1>2, <1>3, <1>6 DEF Surjection

\* As many waiters are among the first n as there are, or n.
LEMMA FirstCount ==
  ASSUME InOrder, NEW n \in Nat
  PROVE  /\ Cardinality(Queued) <= n => First(n) = Queued
         /\ Cardinality(Queued) >= n => Cardinality(First(n)) = n
<1> DEFINE N == Cardinality(Queued)
           rank == [t \in First(n) |-> Rank(t)]
<1>1. N \in Nat /\ First(n) \in SUBSET Task
  BY FiniteAt DEF Queued, At, First
<1>2. N <= n => First(n) = Queued
  BY <1>1, RankBijective DEF First
<1>3. ASSUME N >= n PROVE Cardinality(First(n)) = n
  <2>1. rank \in [First(n) -> 0 .. n - 1]
    BY RankBijective DEF First
  <2>2. \A i \in 0 .. n - 1 : \E t \in First(n) : rank[t] = i
    <3>1. ASSUME NEW i \in 0 .. n - 1 PROVE \E t \in First(n) : rank[t] = i
      <4>1. i \in 0 .. N - 1 /\ i < n
        BY <1>1, <1>3
      <4>2. PICK t \in Queued : Rank(t) = i
        BY <4>1, RankBijective
      <4> QED BY <4>1, <4>2 DEF First
    <3> QED BY <3>1
  <2>3. rank \in Surjection(First(n), 0 .. n - 1)
    BY <2>1, <2>2 DEF Surjection
  <2>4. rank \in Injection(First(n), 0 .. n - 1)
    BY <2>1, RankBijective DEF Injection, IsInjective, First
  <2>5. IsFiniteSet(First(n))
    BY <1>1, FiniteAt
  <2>6. Cardinality(0 .. n - 1) = n
    BY FS_Interval
  <2> QED BY <2>3, <2>4, <2>5, <2>6, FS_Surjection
<1> QED BY <1>2, <1>3

\* One more place serves the first of those who wait, if any.
LEMMA Promotion ==
  ASSUME InOrder, NEW n \in Nat
  PROVE  \/ First(n + 1) = Queued /\ First(n) = Queued
         \/ \E h \in Queued \ First(n) : First(n + 1) = First(n) \cup {h}
<1> DEFINE N == Cardinality(Queued)
<1>1. N \in Nat /\ \A t \in Queued : Rank(t) \in Nat
  BY FiniteAt, RankOrder DEF Queued, At
<1>2. CASE N <= n
  BY <1>1, <1>2, FirstCount
<1>3. CASE n < N
  <2>1. n \in 0 .. N - 1
    BY <1>1, <1>3
  <2>2. PICK h \in Queued : Rank(h) = n
    BY <2>1, RankBijective
  <2>3. \A t \in Queued : Rank(t) < n + 1 <=> Rank(t) < n \/ t = h
    BY <1>1, <2>2, RankBijective
  <2>4. h \notin First(n) /\ First(n + 1) = First(n) \cup {h}
    BY <2>2, <2>3 DEF First
  <2> QED BY <2>4
<1> QED BY <1>1, <1>2, <1>3

-----------------------------------------------------------------------------

Serving == Owners \cup Entitled
Waiting == Queued \ Entitled

LEMMA EntitledFirst == Entitled = First(free)
BY DEF Entitled, First, Rank

\* The first n waiters when t is gone.
FirstWithout(t, n) == {q \in Queued \ {t} : Cardinality(ahead[q] \ {t}) < n}

\* Whoever gets the permits, the waiters served are the first ones.
LEMMA HandOverServes ==
  ASSUME Inv, InOrder, NEW t \in Task, NEW next \in Label,
         Outside(next) \/ next = "executing",
         NEW n \in Nat, NEW W \in SUBSET (Queued \ {t}), Cardinality(W) <= n,
         \A w \in W : ahead[w] \subseteq W \cup {t}, HandOver(t, next, n, W)
  PROVE  /\ InOrder'
         /\ Serving' = (IF next = "executing" THEN Owners \cup {t} ELSE Owners \ {t})
                         \cup FirstWithout(t, n)
         /\ Waiting' = (Queued \ {t}) \ FirstWithout(t, n)
<1>1. /\ Granted' = (Granted \ {t}) \cup W /\ Queued' = Queued \ (W \cup {t})
      /\ Executing' = IF next = "executing" THEN Executing \cup {t} ELSE Executing \ {t}
      /\ free' + Cardinality(W) = n /\ Cardinality(W) \in Nat /\ free' \in Nat
  BY HandOverSound, TypeOKSlots DEF Inv
<1>2. \A q \in Queued : q \in Task /\ ahead[q] \in SUBSET (Queued \ {q})
  BY DEF InOrder, Queued, At
<1>3. \A q \in Queued : ahead'[q] = ahead[q] \ (W \cup {t})
  BY <1>2 DEF HandOver
<1>4. ASSUME NEW q \in Queued, q \notin W, q # t PROVE W \subseteq ahead[q]
  BY <1>4 DEF InOrder
<1>5. InOrder'
  BY <1>1, <1>2, <1>3 DEF InOrder
<1>6. ASSUME NEW q \in Queued, q \notin W, q # t
      PROVE  /\ Cardinality(ahead[q] \ {t}) \in Nat
             /\ Cardinality(ahead[q] \ {t}) = Cardinality(ahead'[q]) + Cardinality(W)
             /\ Cardinality(ahead'[q]) \in Nat
  <2>1. /\ ahead[q] \ {t} = ahead'[q] \cup W /\ ahead'[q] \cap W = {}
        /\ ahead'[q] \in SUBSET Task /\ W \in SUBSET Task /\ ahead[q] \ {t} \in SUBSET Task
    BY <1>2, <1>3, <1>4, <1>6
  <2> QED BY <2>1, DisjointCount, FiniteAt
<1>7. ASSUME NEW w \in W PROVE Cardinality(ahead[w] \ {t}) < n
  <2>1. ahead[w] \ {t} \in SUBSET (W \ {w}) /\ W \in SUBSET Task /\ W \ {w} \in SUBSET Task
    BY <1>2
  <2>2. Cardinality(W \ {w}) = Cardinality(W) - 1 /\ IsFiniteSet(W \ {w})
    BY <2>1, FiniteAt, FS_RemoveElement
  <2>3. Cardinality(ahead[w] \ {t}) <= Cardinality(W) - 1
    BY <2>1, <2>2, FS_Subset
  <2>4. Cardinality(ahead[w] \ {t}) \in Nat
    BY <2>1, FiniteAt
  <2> QED BY <1>1, <2>3, <2>4
<1>8. \A q \in Queued' : q \in Entitled' <=> q \in FirstWithout(t, n)
  <2> SUFFICES ASSUME NEW q \in Queued' PROVE q \in Entitled' <=> q \in FirstWithout(t, n)
    OBVIOUS
  <2>1. q \in Queued /\ q \notin W /\ q # t
    BY <1>1
  <2>2. q \in Entitled' <=> Cardinality(ahead'[q]) < free'
    BY DEF Entitled
  <2>3. q \in FirstWithout(t, n) <=> Cardinality(ahead[q] \ {t}) < n
    BY <2>1 DEF FirstWithout
  <2> QED BY <1>1, <1>6, <2>1, <2>2, <2>3
<1>9. W \subseteq FirstWithout(t, n)
  BY <1>7 DEF FirstWithout
<1>10. Entitled' \subseteq Queued' /\ FirstWithout(t, n) \subseteq Queued \ {t}
  BY DEF Entitled, FirstWithout
<1>11. FirstWithout(t, n) = W \cup Entitled'
  BY <1>1, <1>8, <1>9, <1>10
<1>12. t \notin W /\ t \in Task /\ W \cap Executing = {} /\ Granted \cap Executing = {}
  BY DEF Queued, Granted, Executing, At
<1>13. Owners' = (IF next = "executing" THEN Owners \cup {t} ELSE Owners \ {t}) \cup W
  BY <1>1, <1>12 DEF Owners
<1>14. Serving' = (IF next = "executing" THEN Owners \cup {t} ELSE Owners \ {t})
                    \cup FirstWithout(t, n)
  BY <1>11, <1>13 DEF Serving
<1>15. Waiting' = (Queued \ {t}) \ FirstWithout(t, n)
  BY <1>1, <1>11 DEF Waiting
<1> QED BY <1>5, <1>14, <1>15

LEMMA WithoutOutsider ==
  ASSUME InOrder, NEW t, t \notin Queued, NEW n PROVE FirstWithout(t, n) = First(n)
<1>1. \A q \in Queued : ahead[q] \ {t} = ahead[q]
  BY DEF InOrder
<1> QED BY <1>1 DEF FirstWithout, First, Rank

\* When a waiter is gone, those behind it move up.
LEMMA WithoutWaiter ==
  ASSUME InOrder, NEW t \in Queued, NEW n \in Nat
  PROVE  FirstWithout(t, n) = IF t \in First(n) THEN First(n + 1) \ {t} ELSE First(n)
<1>1. ASSUME NEW q \in Queued \ {t}
      PROVE  /\ Rank(q) \in Nat
             /\ t \in ahead[q] => /\ Rank(t) < Rank(q)
                                  /\ Cardinality(ahead[q] \ {t}) = Rank(q) - 1
             /\ t \notin ahead[q] => /\ Rank(q) < Rank(t)
                                     /\ Cardinality(ahead[q] \ {t}) = Rank(q)
  <2>1. ahead[q] \in SUBSET Task
    BY DEF InOrder, Queued, At
  <2>2. IsFiniteSet(ahead[q]) /\ Rank(q) \in Nat
    BY <2>1, FiniteAt DEF Rank
  <2>3. Cardinality(ahead[q] \ {t}) = IF t \in ahead[q] THEN Rank(q) - 1 ELSE Rank(q)
    BY <2>2, FS_RemoveElement DEF Rank
  <2>4. t \in ahead[q] => Rank(t) < Rank(q)
    BY RankOrder
  <2>5. t \notin ahead[q] => q \in ahead[t]
    BY DEF InOrder
  <2> QED BY <2>2, <2>3, <2>4, <2>5, RankOrder
<1>2. Rank(t) \in Nat
  BY RankOrder
<1>3. \A q \in Queued \ {t} :
        Cardinality(ahead[q] \ {t}) < n <=>
          IF Rank(t) < n THEN Rank(q) < n + 1 ELSE Rank(q) < n
  BY <1>1, <1>2
<1> QED BY <1>2, <1>3 DEF FirstWithout, First

\* Neither a place nor the queue changes.
LEMMA QueueKept ==
  ASSUME InOrder, Queued' = Queued, Owners' = Owners, UNCHANGED <<free, ahead>>
  PROVE  InOrder' /\ UNCHANGED Service!vars
<1>1. InOrder'
  BY DEF InOrder
<1>2. Entitled' = Entitled
  BY DEF Entitled
<1> QED BY <1>1, <1>2 DEF Service!vars

LEMMA PlacesCount ==
  ASSUME Inv
  PROVE  /\ free \in Nat /\ C \in Nat /\ Q \in Nat
         /\ Cardinality(Owners) \in Nat /\ Cardinality(Queued) \in Nat
         /\ Capped => free + Cardinality(Owners) = C
<1>1. Queued \in SUBSET Task /\ Owners \in SUBSET Task
  BY DEF Owners, Queued, Granted, Executing, At
<1>2. Cardinality(Owners) \in Nat /\ Cardinality(Queued) \in Nat
  BY <1>1, FiniteAt
<1> QED BY <1>2, SlotAssumption, OpenAssumption
           DEF Inv, TypeOK, SlotInv, PermitsConserved, SlotAssumption, OpenAssumption

\* Some of the waiters counted with the owners, and the others.
LEMMA WaitersCount ==
  ASSUME NEW S \in SUBSET Queued
  PROVE  /\ Cardinality(S) \in Nat /\ Cardinality(Queued \ S) \in Nat
         /\ Cardinality(Owners \cup S) = Cardinality(Owners) + Cardinality(S)
         /\ Cardinality(Queued) = Cardinality(Queued \ S) + Cardinality(S)
<1>1. /\ Owners \in SUBSET Task /\ Owners \cap S = {} /\ S \in SUBSET Task
      /\ Queued \ S \in SUBSET Task /\ (Queued \ S) \cup S = Queued
  BY DEF Owners, Queued, Granted, Executing, At
<1> QED BY <1>1, FiniteAt, DisjointCount

LEMMA ServiceCount == ASSUME NEW S PROVE Service!Cardinality(S) = Cardinality(S)
BY DEF Cardinality, Service!Cardinality

\* A request that enters is served, or waits because C are served.
LEMMA EnterServes ==
  ASSUME Inv, InOrder, NEW s \in Task, Enter(s)
  PROVE  InOrder' /\ (Service!Start(s) \/ Service!Wait(s))
<1>1. pc[s] = "due" /\ AcquireSlot(s) /\ ~QueueFull /\ pc \in [Task -> Label]
  BY DEF Enter, Inv, TypeOK
<1>2. s \notin Queued /\ s \notin Owners /\ Entitled \subseteq Queued
  BY <1>1 DEF Queued, Owners, Granted, Executing, At, Entitled
<1>3. CASE /\ Capped => ~Locked
           /\ pc' = [pc EXCEPT ![s] = "executing"]
           /\ free' = IF Capped THEN free - 1 ELSE free
           /\ UNCHANGED ahead
  <2>1. Queued = {}
    BY <1>3 DEF Locked, Inv, SlotInv, NoLimitNoWait
  <2>2. Queued' = {} /\ Owners' = Owners \cup {s}
    BY <1>1, <1>3, <2>1 DEF Queued, Owners, Granted, Executing, At
  <2>3. Entitled = {} /\ Entitled' = {} /\ InOrder'
    BY <2>1, <2>2 DEF Entitled, InOrder
  <2>4. C > 0 => Cardinality(Owners) < C
    <3>1. ASSUME C > 0 PROVE Capped /\ free # 0
      BY <1>3, <3>1 DEF Capped, Locked
    <3> QED BY <3>1, PlacesCount
  <2>5. Service!Start(s)
    <3>1. /\ Owners \cup Entitled = Owners /\ Queued \ Entitled = {}
          /\ Owners' \cup Entitled' = Owners \cup {s} /\ Queued' \ Entitled' = {}
      BY <2>1, <2>2, <2>3
    <3>2. C > 0 => Service!Cardinality(Owners) < C
      BY <2>4, ServiceCount
    <3> QED BY <1>2, <3>1, <3>2 DEF Service!Start
  <2> QED BY <2>3, <2>5
<1>4. CASE /\ Capped /\ Locked
           /\ pc' = [pc EXCEPT ![s] = "queued"]
           /\ ahead' = [ahead EXCEPT ![s] = Queued]
           /\ UNCHANGED free
  <2>1. Queued' = Queued \cup {s} /\ Owners' = Owners
    BY <1>1, <1>2, <1>4 DEF Queued, Owners, Granted, Executing, At
  <2>2. ahead'[s] = Queued /\ \A q \in Queued : ahead'[q] = ahead[q]
    BY <1>2, <1>4 DEF Inv, TypeOK, Queued, At
  <2>3. InOrder'
    BY <1>2, <2>1, <2>2 DEF InOrder
  <2>4. Entitled' = IF Cardinality(Queued) < free THEN Entitled \cup {s} ELSE Entitled
    BY <1>2, <1>4, <2>1, <2>2 DEF Entitled
  <2>5. CASE Cardinality(Queued) < free
    <3>1. Entitled = Queued
      BY <2>5, FirstCount, EntitledFirst, PlacesCount
    <3>2. Cardinality(Owners \cup Queued) < C
      <4>1. Cardinality(Owners \cup Queued) = Cardinality(Owners) + Cardinality(Queued)
        BY WaitersCount
      <4> QED BY <1>4, <2>5, <4>1, PlacesCount
    <3> DEFINE serving == Owners \cup Queued
    <3>3. /\ Owners \cup Entitled = serving /\ Queued \ Entitled = {}
          /\ Owners' \cup Entitled' = serving \cup {s} /\ Queued' \ Entitled' = {}
          /\ s \notin serving \cup {} /\ Service!Cardinality(serving) < C
      BY <1>2, <2>1, <2>4, <2>5, <3>1, <3>2, ServiceCount
    <3> HIDE DEF serving
    <3>4. Service!Start(s)
      BY <3>3 DEF Service!Start
    <3> QED BY <2>3, <3>4
  <2>6. CASE ~(Cardinality(Queued) < free)
    <3>1. Cardinality(Entitled) = free
      BY <2>6, FirstCount, EntitledFirst, PlacesCount
    <3>2. /\ Cardinality(Owners \cup Entitled) = C
          /\ Cardinality(Queued \ Entitled) = Cardinality(Queued) - free
      <4>1. Cardinality(Owners \cup Entitled) = Cardinality(Owners) + Cardinality(Entitled)
        BY <1>2, WaitersCount
      <4>2. Cardinality(Queued) = Cardinality(Queued \ Entitled) + Cardinality(Entitled)
        BY <1>2, WaitersCount
      <4>3. Cardinality(Queued \ Entitled) \in Nat
        BY <1>2, WaitersCount
      <4> QED BY <1>4, <3>1, <4>1, <4>2, <4>3, PlacesCount
    <3>3. Cardinality(Owners) + Cardinality(Queued) < C + Q
      <4>1. admitted < C + Q /\ admitted = Cardinality(InFlight)
        BY <1>1, <1>4, PlacesCount DEF QueueFull, Inv, TypeOK, AdmissionExact
      <4>2. InFlight = Owners \cup Queued
        BY DEF InFlight
      <4>3. Cardinality(Owners \cup Queued) = Cardinality(Owners) + Cardinality(Queued)
        BY WaitersCount
      <4> QED BY <4>1, <4>2, <4>3
    <3>4. Cardinality(Queued \ Entitled) < Q
      BY <1>4, <3>2, <3>3, PlacesCount
    <3>5. C > 0
      BY <1>4 DEF Capped
    <3> DEFINE serving == Owners \cup Entitled
               waiting == Queued \ Entitled
    <3>6. /\ Owners' \cup Entitled' = serving /\ Queued' \ Entitled' = waiting \cup {s}
          /\ s \notin serving \cup waiting
          /\ Service!Cardinality(serving) = C /\ Service!Cardinality(waiting) < Q
      BY <1>2, <2>1, <2>4, <2>6, <3>2, <3>4, ServiceCount
    <3> HIDE DEF serving, waiting
    <3>7. Owners \cup Entitled = serving /\ Queued \ Entitled = waiting
      BY DEF serving, waiting
    <3>8. Service!Wait(s)
      BY <3>5, <3>6, <3>7 DEF Service!Wait
    <3> QED BY <2>3, <3>8
  <2> QED BY <2>5, <2>6
<1> QED BY <1>1, <1>3, <1>4 DEF AcquireSlot

\* Whoever is served and leaves gives its place to the first who waits.
LEMMA PlaceHandedOn ==
  ASSUME Inv, InOrder, NEW s \in Owners \cup Entitled,
         Serving' = (Serving \cup First(free + 1)) \ {s},
         Waiting' = (Queued \ First(free + 1)) \ {s}
  PROVE  Service!Leave(s)
<1>1. free \in Nat /\ Entitled = First(free) /\ Owners \cap Queued = {}
      /\ First(free) \subseteq Queued
  BY EntitledFirst, PlacesCount DEF Owners, Queued, Granted, Executing, At, First
<1>2. CASE First(free + 1) = Queued /\ First(free) = Queued
  BY <1>1, <1>2 DEF Service!Leave, Serving, Waiting
<1>3. ASSUME NEW h \in Queued \ First(free), First(free + 1) = First(free) \cup {h}
      PROVE  Service!Leave(s)
  BY <1>1, <1>3 DEF Service!Leave, Serving, Waiting
<1> QED BY <1>1, <1>2, <1>3, Promotion

LEMMA FinishServes ==
  ASSUME Inv, InOrder, NEW s \in Task, Finish(s)
  PROVE  InOrder' /\ Service!Leave(s)
<1>1. s \in Owners /\ s \notin Queued /\ ReleaseSlot(s, "turn") /\ "turn" \in Label
      /\ Outside("turn") /\ "turn" # "executing"
  BY DEF Finish, Owners, Queued, Executing, Granted, At, Label, Outside
<1>2. CASE Capped
  <2>1. PICK W \in Front(s, 1, 1) : HandOver(s, "turn", free + 1, W)
    BY <1>1, <1>2 DEF ReleaseSlot
  <2>2. /\ W \in SUBSET (Queued \ {s}) /\ Cardinality(W) <= free + 1 /\ free + 1 \in Nat
        /\ \A w \in W : ahead[w] \subseteq W \cup {s}
    <3>1. /\ W \in SUBSET Queued /\ W \in SUBSET (Queued \ {s}) /\ Cardinality(W) <= 1
          /\ \A w \in W : ahead[w] \subseteq W \cup {s}
      BY <2>1 DEF Front
    <3>2. Cardinality(W) \in Nat /\ free \in Nat
      BY <3>1, PlacesCount, WaitersCount
    <3> QED BY <3>1, <3>2
  <2>3. /\ InOrder' /\ Serving' = (Owners \ {s}) \cup First(free + 1)
        /\ Waiting' = Queued \ First(free + 1)
    BY <1>1, <2>1, <2>2, HandOverServes, WithoutOutsider
  <2>4. First(free) \subseteq First(free + 1) /\ First(free + 1) \subseteq Queued
    BY RankOrder, PlacesCount DEF First
  <2> QED BY <1>1, <2>3, <2>4, PlaceHandedOn, EntitledFirst DEF Serving
<1>3. CASE ~Capped
  <2>1. Queued = {} /\ pc' = [pc EXCEPT ![s] = "turn"] /\ UNCHANGED <<free, ahead>>
    BY <1>1, <1>3 DEF ReleaseSlot, Inv, SlotInv, NoLimitNoWait
  <2>2. Queued' = {} /\ Owners' = Owners \ {s}
    BY <2>1 DEF Queued, Owners, Granted, Executing, At, Inv, TypeOK
  <2>3. Entitled = {} /\ Entitled' = {} /\ InOrder'
    BY <2>1, <2>2 DEF Entitled, InOrder
  <2> QED BY <1>1, <2>1, <2>2, <2>3 DEF Service!Leave
<1> QED BY <1>2, <1>3

LEMMA DispatchServes ==
  ASSUME Inv, InOrder, NEW s \in Task, Dispatch(s)
  PROVE  InOrder' /\ UNCHANGED Service!vars
<1>1. s \in Owners /\ s \notin Queued /\ ResumeWithSlot(s) /\ "executing" \in Label
  BY DEF Dispatch, Owners, Queued, Executing, Granted, At, Label
<1>2. PICK W \in Front(s, AtMostOne(free), free) : HandOver(s, "executing", free, W)
  BY <1>1 DEF ResumeWithSlot
<1>3. /\ W \in SUBSET (Queued \ {s}) /\ Cardinality(W) <= free /\ free \in Nat
      /\ \A w \in W : ahead[w] \subseteq W \cup {s}
  BY <1>2, PlacesCount DEF Front
<1>4. /\ InOrder' /\ Serving' = (Owners \cup {s}) \cup First(free)
      /\ Waiting' = Queued \ First(free)
  BY <1>1, <1>2, <1>3, HandOverServes, WithoutOutsider
<1> QED BY <1>1, <1>4, EntitledFirst DEF Service!vars, Serving, Waiting

LEMMA ExpireServes ==
  ASSUME Inv, InOrder, NEW s \in Task, Expire(s)
  PROVE  InOrder' /\ (Service!Leave(s) \/ Service!GiveUp(s))
<1>1. AbandonWait(s, "done") /\ "done" \in Label /\ Outside("done") /\ "done" # "executing"
  BY DEF Expire, Label, Outside
<1>2. First(free) \subseteq First(free + 1) /\ First(free + 1) \subseteq Queued /\ free \in Nat
      /\ Owners \cap Queued = {}
  BY RankOrder, PlacesCount DEF First, Owners, Queued, Granted, Executing, At
<1>3. CASE pc[s] = "queued"
  <2>1. PICK W \in Front(s, 0, free) : HandOver(s, "done", free, W)
    BY <1>1, <1>3 DEF AbandonWait
  <2>2. /\ W \in SUBSET (Queued \ {s}) /\ Cardinality(W) <= free
        /\ \A w \in W : ahead[w] \subseteq W \cup {s}
    BY <2>1 DEF Front
  <2>3. /\ InOrder' /\ Serving' = (Owners \ {s}) \cup FirstWithout(s, free)
        /\ Waiting' = (Queued \ {s}) \ FirstWithout(s, free)
    BY <1>1, <1>2, <2>1, <2>2, HandOverServes
  <2>4. s \in Queued /\ s \notin Owners
    BY <1>2, <1>3 DEF Queued, At
  <2>5. CASE s \in First(free)
    <3>1. FirstWithout(s, free) = First(free + 1) \ {s}
      BY <1>2, <2>4, <2>5, WithoutWaiter
    <3> QED BY <1>2, <2>3, <2>4, <2>5, <3>1, PlaceHandedOn, EntitledFirst DEF Serving
  <2>6. CASE s \notin First(free)
    <3>1. FirstWithout(s, free) = First(free)
      BY <1>2, <2>4, <2>6, WithoutWaiter
    <3> QED BY <2>3, <2>4, <2>6, <3>1, EntitledFirst DEF Service!GiveUp, Serving, Waiting
  <2> QED BY <2>5, <2>6
<1>4. CASE pc[s] = "granted"
  <2>1. PICK W \in Front(s, 1, free + 1) : HandOver(s, "done", free + 1, W)
    BY <1>1, <1>4 DEF AbandonWait
  <2>2. /\ W \in SUBSET (Queued \ {s}) /\ Cardinality(W) <= free + 1 /\ free + 1 \in Nat
        /\ \A w \in W : ahead[w] \subseteq W \cup {s}
    BY <1>2, <2>1 DEF Front
  <2>3. s \in Owners /\ s \notin Queued
    BY <1>2, <1>4 DEF Owners, Granted, At
  <2>4. /\ InOrder' /\ Serving' = (Owners \ {s}) \cup First(free + 1)
        /\ Waiting' = Queued \ First(free + 1)
    BY <1>1, <2>1, <2>2, <2>3, HandOverServes, WithoutOutsider
  <2> QED BY <1>2, <2>3, <2>4, PlaceHandedOn, EntitledFirst DEF Serving
<1> QED BY <1>1, <1>3, <1>4 DEF AbandonWait

LEMMA ServiceStep ==
  ASSUME Inv, InOrder, [Next]_vars
  PROVE  InOrder' /\ [Service!Next]_(Service!vars)
<1>1. CASE Tick \/ EndArrivals \/ Over \/ UNCHANGED vars
  BY <1>1, QueueKept DEF Tick, EndArrivals, Over, vars, slotVars, Queued, Owners, Granted, Executing, At
<1>2. CASE EndPhase
  <2>1. Queued' = Queued /\ Owners' = Owners /\ UNCHANGED <<free, ahead>>
    BY <1>2 DEF EndPhase, Queued, Owners, Granted, Executing, At
  <2> QED BY <2>1, QueueKept
<1>3. ASSUME NEW u \in User, TurnAway(u) PROVE InOrder' /\ UNCHANGED Service!vars
  BY <1>3, QueueKept DEF TurnAway, Arrival, Queued, Owners, Granted, Executing, At
<1>4. ASSUME NEW s \in Task, NEW next \in Label, Outside(pc[s]), Outside(next),
             pc' = [pc EXCEPT ![s] = next], UNCHANGED <<free, ahead>>
      PROVE  InOrder' /\ UNCHANGED Service!vars
  <2>1. Queued' = Queued /\ Owners' = Owners
    BY <1>4, OutsideMove, TypeOKSlots DEF Inv
  <2> QED BY <1>4, <2>1, QueueKept
<1>5. ASSUME NEW u \in User, NEW s \in Task, Admit(s, u)
      PROVE  InOrder' /\ UNCHANGED Service!vars
  BY <1>4, <1>5 DEF Admit, Arrival, Label, Outside
<1>6. ASSUME NEW s \in Task, Leave(s) \/ NextOp(s) \/ Reject(s)
      PROVE  InOrder' /\ UNCHANGED Service!vars
  <2>1. pc[s] \in {"turn", "due"} /\ UNCHANGED <<free, ahead>>
    BY <1>6 DEF Leave, MayLeave, NextOp, Reject
  <2>2. \E next \in {"done", "due", "turn"} : pc' = [pc EXCEPT ![s] = next]
    BY <1>6 DEF Leave, NextOp, Reject
  <2> QED BY <1>4, <2>1, <2>2 DEF Label, Outside
<1>7. ASSUME NEW s \in Task, Enter(s) \/ Finish(s) \/ Dispatch(s) \/ Expire(s)
      PROVE  InOrder' /\ [Service!Next]_(Service!vars)
  BY <1>7, EnterServes, FinishServes, DispatchServes, ExpireServes DEF Service!Next
<1> QED BY <1>1, <1>2, <1>3, <1>5, <1>6, <1>7 DEF Next, SessionStep

\* The runner implements the bounded queue of docs/load-models.md, up to liveness:
\* _acquire_slot_bounded never starts a request while others wait for the place, never
\* lets one wait while a place is free, and hands on the place of everyone who leaves.
THEOREM QueueImplemented == Spec => Service!Spec
<1>1. Init => Service!Init
  BY DEF Init, Service!Init, Entitled, Owners, Queued, Granted, Executing, At
<1>2. Spec => []InOrder
  BY InOrderInit, ServiceStep, Invariance, PTL DEF Spec
<1> QED BY <1>1, <1>2, ServiceStep, Invariance, PTL DEF Spec, Service!Spec
=============================================================================
