-------------------------- MODULE ClosedLoop_proofs --------------------------
(***************************************************************************)
(* Theorems about the closed load model, for every set of lanes, every     *)
(* plan, every C and every budget.  ReservationsKept is not inductive on   *)
(* its own: it needs that no lane of the warm-up is alive when the         *)
(* measured phase starts, that an untimed phase never sees its clock       *)
(* expire, and the books of the semaphore.  That a run executes exactly    *)
(* its budget (ExactlyOps) needs in addition what the plans of the lanes   *)
(* still hold: together with what was taken they make up the whole supply. *)
(***************************************************************************)
EXTENDS ClosedLoop, FiniteSetTheorems, WellFoundedInduction, TLAPS

-----------------------------------------------------------------------------
(* What the operations on the global limit preserve, for every C, every    *)
(* finite set of tasks and every queue.                                    *)

\* A label that is none of the semaphore's own.
Outside(label) == label \notin {"queued", "granted", "executing"}

\* The functions pc and ahead are total, and every count below is finite.
SlotTypes(L) ==
  /\ pc \in [Task -> L] /\ {"queued", "granted", "executing"} \subseteq L
  /\ free \in Nat
  /\ ahead \in [Task -> SUBSET Task]

LEMMA FiniteAt ==
  ASSUME NEW S \in SUBSET Task
  PROVE  IsFiniteSet(S) /\ Cardinality(S) \in Nat
BY SlotAssumption, FS_Subset, FS_CardinalityType DEF SlotAssumption

\* The cardinality of disjoint unions, in the form the counts need.
LEMMA DisjointCount ==
  ASSUME NEW S \in SUBSET Task, NEW T \in SUBSET Task, S \cap T = {}
  PROVE  Cardinality(S \cup T) = Cardinality(S) + Cardinality(T)
<1>1. IsFiniteSet(S) /\ IsFiniteSet(T) /\ Cardinality(S) \in Nat
      /\ Cardinality(T) \in Nat
  BY FiniteAt
<1>2. Cardinality(S \cup T) = Cardinality(S) + Cardinality(T) - Cardinality(S \cap T)
  BY <1>1, FS_Union
<1>3. Cardinality(S \cap T) = 0
  BY FS_EmptySet
<1> QED BY <1>1, <1>2, <1>3

\* A task that moves between labels of its own does not touch the limit.
LEMMA OutsideMove ==
  ASSUME NEW L, SlotTypes(L), NEW t \in Task, NEW next \in L,
         Outside(pc[t]), Outside(next),
         pc' = [pc EXCEPT ![t] = next], UNCHANGED <<free, ahead>>
  PROVE  /\ SlotTypes(L)' /\ (SlotInv => SlotInv')
         /\ Queued' = Queued /\ Owners' = Owners /\ InFlight' = InFlight
         /\ Executing' = Executing
<1> USE DEF SlotTypes, Outside, Owners, Queued, Granted, Executing, At, InFlight
<1>1. Queued' = Queued /\ Granted' = Granted /\ Executing' = Executing
  OBVIOUS
<1>2. SlotTypes(L)'
  OBVIOUS
<1>3. SlotInv => SlotInv'
  BY <1>1 DEF SlotInv, PermitsConserved, WorkConserving, NoLimitNoWait, Capped
<1> QED BY <1>1, <1>2, <1>3

\* Acquiring: the task owns a permit that was free, or it is queued.
LEMMA AcquireSlotSound ==
  ASSUME NEW L, SlotTypes(L), SlotInv, NEW t \in Task, Outside(pc[t]),
         AcquireSlot(t)
  PROVE  /\ SlotTypes(L)' /\ SlotInv'
         /\ \/ Owners' = Owners \cup {t} /\ Queued' = Queued
            \/ Owners' = Owners /\ Queued' = Queued \cup {t}
         /\ t \notin InFlight
<1> USE DEF SlotTypes, Outside, Owners, Queued, Granted, Executing, At, InFlight
<1>1. t \notin InFlight
  OBVIOUS
<1>2. CASE /\ Capped => ~Locked
           /\ pc' = [pc EXCEPT ![t] = "executing"]
           /\ free' = IF Capped THEN free - 1 ELSE free
           /\ UNCHANGED ahead
  <2>1. Owners' = Owners \cup {t} /\ Queued' = Queued /\ Granted' = Granted
    BY <1>2
  <2>2. Cardinality(Owners') = Cardinality(Owners) + 1 /\ Cardinality(Owners) \in Nat
    BY <2>1, <1>1, FiniteAt, FS_AddElement
  <2>3. Capped => free > 0
    BY <1>2 DEF Locked
  <2>4. SlotTypes(L)'
    BY <1>2, <2>3
  <2>5. SlotInv'
    BY <1>2, <2>1, <2>2, <2>3 DEF SlotInv, PermitsConserved, WorkConserving, NoLimitNoWait, Locked, Capped
  <2> QED BY <1>1, <2>1, <2>4, <2>5
<1>3. CASE /\ Capped /\ Locked
           /\ pc' = [pc EXCEPT ![t] = "queued"]
           /\ ahead' = [ahead EXCEPT ![t] = Queued]
           /\ UNCHANGED free
  <2>1. Owners' = Owners /\ Queued' = Queued \cup {t} /\ Granted' = Granted
    BY <1>3
  <2>2. SlotTypes(L)'
    BY <1>3
  <2>3. SlotInv'
    BY <1>3, <2>1 DEF SlotInv, PermitsConserved, WorkConserving, NoLimitNoWait, Locked, Capped
  <2> QED BY <1>1, <2>1, <2>2, <2>3
<1> QED BY <1>2, <1>3 DEF AcquireSlot

\* Any hand-over moves t to its next label, gives the tasks of W a permit each,
\* and disturbs nobody else.
LEMMA HandOverSound ==
  ASSUME NEW L, SlotTypes(L), NEW t \in Task, NEW next \in L,
         Outside(next) \/ next = "executing",
         NEW n \in Nat, NEW W \in SUBSET (Queued \ {t}), Cardinality(W) <= n,
         HandOver(t, next, n, W)
  PROVE  /\ SlotTypes(L)'
         /\ Granted' = (Granted \ {t}) \cup W
         /\ Queued' = Queued \ (W \cup {t})
         /\ Executing' = IF next = "executing" THEN Executing \cup {t}
                                               ELSE Executing \ {t}
         /\ free' + Cardinality(W) = n
         /\ Cardinality(W) \in Nat /\ free' \in Nat
<1> USE DEF SlotTypes, Outside, Queued, Granted, Executing, At
<1>1. Cardinality(W) \in Nat
  BY FiniteAt
<1>2. free' \in Nat /\ free' + Cardinality(W) = n
  BY <1>1 DEF HandOver
<1>3. pc' = [u \in Task |-> IF u = t THEN next
                            ELSE IF u \in W THEN "granted" ELSE pc[u]]
      /\ ahead' = [u \in Task |-> ahead[u] \ (W \cup {t})]
  BY DEF HandOver
<1>4. SlotTypes(L)'
  BY <1>2, <1>3
<1>5. /\ Granted' = (Granted \ {t}) \cup W
      /\ Queued' = Queued \ (W \cup {t})
      /\ Executing' = IF next = "executing" THEN Executing \cup {t}
                                            ELSE Executing \ {t}
  BY <1>3
<1> QED BY <1>1, <1>2, <1>4, <1>5

\* Waiters handed a permit by a task that gives one back keep the books balanced.
LEMMA OwnersCount ==
  ASSUME NEW t \in Owners, NEW W \in SUBSET Queued
  PROVE  /\ Cardinality((Owners \ {t}) \cup W)
              = Cardinality(Owners) - 1 + Cardinality(W)
         /\ Cardinality(Owners) \in Nat
<1>1. Owners \in SUBSET Task /\ W \in SUBSET Task /\ Owners \cap W = {}
  BY DEF Owners, Granted, Executing, Queued, At
<1>2. Cardinality(Owners \ {t}) = Cardinality(Owners) - 1
      /\ Cardinality(Owners) \in Nat
  BY <1>1, FiniteAt, FS_RemoveElement
<1>3. Cardinality((Owners \ {t}) \cup W) = Cardinality(Owners \ {t}) + Cardinality(W)
  BY <1>1, DisjointCount
<1> QED BY <1>2, <1>3

\* Releasing: the permit is free again, or the first waiter owns it.
LEMMA ReleaseSlotSound ==
  ASSUME NEW L, SlotTypes(L), SlotInv, NEW t \in Executing, NEW next \in L,
         Outside(next), ReleaseSlot(t, next)
  PROVE  /\ SlotTypes(L)' /\ SlotInv'
         /\ InFlight' = InFlight \ {t}
         /\ \E W \in SUBSET Queued : /\ Owners' = (Owners \ {t}) \cup W
                                     /\ Queued' = Queued \ W
<1>1. t \in Task /\ t \in Owners /\ t \notin Queued /\ t \notin Granted
  BY DEF Owners, Executing, Queued, Granted, At
<1>2. CASE Capped
  <2>1. PICK W \in Front(t, 1, 1) : HandOver(t, next, free + 1, W)
    BY <1>2 DEF ReleaseSlot
  <2>2. W \in SUBSET (Queued \ {t}) /\ Cardinality(W) <= 1
        /\ (W = Queued \ {t} \/ Cardinality(W) >= 1)
    BY <2>1 DEF Front
  <2>3. W \in SUBSET Task /\ Cardinality(W) \in Nat /\ free + 1 \in Nat /\ free \in Nat
    BY <2>2, FiniteAt DEF Queued, At, SlotTypes
  <2>4. /\ SlotTypes(L)'
        /\ Granted' = (Granted \ {t}) \cup W
        /\ Queued' = Queued \ (W \cup {t})
        /\ Executing' = Executing \ {t}
        /\ free' + Cardinality(W) = free + 1 /\ free' \in Nat
    <3>1. Cardinality(W) <= free + 1
      BY <2>2, <2>3
    <3> QED
      BY <1>1, <2>1, <2>2, <2>3, <3>1, HandOverSound, next # "executing" DEF Outside
  <2>5. Owners' = (Owners \ {t}) \cup W /\ Queued' = Queued \ W
        /\ InFlight' = InFlight \ {t}
    BY <1>1, <2>2, <2>4 DEF Owners, InFlight, Granted, Executing, At
  <2>6. PermitsConserved'
    BY <1>1, <1>2, <2>2, <2>3, <2>4, <2>5, OwnersCount, W \in SUBSET Queued,
       SlotAssumption
       DEF SlotInv, PermitsConserved, Capped, SlotAssumption
  <2>7. WorkConserving'
    <3>1. CASE W = Queued \ {t}
      BY <1>1, <2>5, <3>1 DEF WorkConserving
    <3>2. CASE Cardinality(W) >= 1
      <4>1. W # {}
        BY <3>2, FS_EmptySet
      <4> QED BY <2>4, <4>1 DEF WorkConserving
    <3> QED BY <2>2, <3>1, <3>2
  <2> QED BY <1>2, <2>2, <2>4, <2>5, <2>6, <2>7 DEF SlotInv, NoLimitNoWait
<1>3. CASE ~Capped
  <2>1. pc' = [pc EXCEPT ![t] = next] /\ UNCHANGED <<free, ahead>>
    BY <1>3 DEF ReleaseSlot
  <2>2. SlotTypes(L)'
    BY <2>1, <1>1 DEF SlotTypes
  <2>3. /\ Owners' = Owners \ {t} /\ Queued' = Queued /\ Granted' = Granted
        /\ InFlight' = InFlight \ {t}
    BY <1>1, <2>1 DEF Owners, InFlight, Granted, Queued, Executing, At, SlotTypes, Outside
  <2>4. SlotInv'
    BY <1>3, <2>3 DEF SlotInv, PermitsConserved, WorkConserving, NoLimitNoWait, Capped
  <2>5. Owners' = (Owners \ {t}) \cup {} /\ Queued' = Queued \ {}
    BY <2>3
  <2> QED BY <2>2, <2>3, <2>4, <2>5
<1> QED BY <1>2, <1>3

\* Resuming: the waiter executes; waiters behind it may get free permits.
LEMMA ResumeWithSlotSound ==
  ASSUME NEW L, SlotTypes(L), SlotInv, NEW t \in Granted, ResumeWithSlot(t)
  PROVE  /\ SlotTypes(L)' /\ SlotInv'
         /\ InFlight' = InFlight
         /\ \E W \in SUBSET Queued : /\ Owners' = Owners \cup W
                                     /\ Queued' = Queued \ W
<1>0. Capped
  BY DEF SlotInv, NoLimitNoWait
<1>1. t \in Task /\ t \in Owners /\ t \notin Queued /\ t \notin Executing
  BY DEF Owners, Executing, Queued, Granted, At
<1>2. PICK W \in Front(t, AtMostOne(free), free) :
         HandOver(t, "executing", free, W)
  BY DEF ResumeWithSlot
<1>3. W \in SUBSET (Queued \ {t}) /\ Cardinality(W) <= free
      /\ (W = Queued \ {t} \/ Cardinality(W) >= AtMostOne(free))
  BY <1>2 DEF Front
<1>4. W \in SUBSET Task /\ Cardinality(W) \in Nat /\ free \in Nat
  BY <1>3, FiniteAt DEF Queued, At, SlotTypes
<1>5. /\ SlotTypes(L)'
      /\ Granted' = (Granted \ {t}) \cup W
      /\ Queued' = Queued \ (W \cup {t})
      /\ Executing' = Executing \cup {t}
      /\ free' + Cardinality(W) = free /\ free' \in Nat
  BY <1>1, <1>2, <1>3, <1>4, HandOverSound, "executing" \in L DEF SlotTypes
<1>6. Owners' = Owners \cup W /\ Queued' = Queued \ W /\ InFlight' = InFlight
  BY <1>1, <1>3, <1>5 DEF Owners, InFlight
<1>7. PermitsConserved'
  <2>1. Cardinality(Owners \cup W) = Cardinality(Owners) + Cardinality(W)
    BY <1>3, DisjointCount DEF Owners, Granted, Executing, Queued, At
  <2>2. Cardinality(Owners) \in Nat
    BY FiniteAt DEF Owners, Granted, Executing, At
  <2> QED
    BY <1>4, <1>5, <1>6, <2>1, <2>2, SlotAssumption
       DEF SlotInv, PermitsConserved, Capped, SlotAssumption
<1>8. WorkConserving'
  <2>1. CASE W = Queued \ {t}
    BY <1>1, <1>6, <2>1 DEF WorkConserving
  <2>2. CASE Cardinality(W) >= AtMostOne(free) /\ free = 0
    BY <1>4, <1>5, <2>2 DEF WorkConserving
  <2>3. CASE Cardinality(W) >= AtMostOne(free) /\ free # 0
    <3>1. W # {}
      BY <2>3, <1>4, FS_EmptySet DEF AtMostOne
    <3> QED BY <1>5, <3>1 DEF WorkConserving
  <2> QED BY <1>3, <2>1, <2>2, <2>3
<1> QED BY <1>0, <1>3, <1>5, <1>6, <1>7, <1>8 DEF SlotInv, NoLimitNoWait

\* Giving up: the waiter leaves the queue, and a permit it owned moves on.
LEMMA AbandonWaitSound ==
  ASSUME NEW L, SlotTypes(L), SlotInv, NEW t \in Task, NEW next \in L,
         Outside(next), AbandonWait(t, next)
  PROVE  /\ SlotTypes(L)' /\ SlotInv'
         /\ t \in Queued \cup Granted
         /\ InFlight' = InFlight \ {t}
         /\ \E W \in SUBSET Queued : /\ Owners' = (Owners \ {t}) \cup W
                                     /\ Queued' = Queued \ (W \cup {t})
<1>0. Capped
  BY DEF SlotInv, NoLimitNoWait, AbandonWait, Queued, Granted, At
<1>1. CASE pc[t] = "queued"
  <2>1. PICK W \in Front(t, 0, free) : HandOver(t, next, free, W)
    BY <1>1 DEF AbandonWait
  <2>2. W \in SUBSET (Queued \ {t}) /\ Cardinality(W) <= free
    BY <2>1 DEF Front
  <2>3. W \in SUBSET Task /\ Cardinality(W) \in Nat /\ free \in Nat
    BY <2>2, FiniteAt DEF Queued, At, SlotTypes
  <2>4. t \notin Owners /\ t \in Queued /\ t \notin Granted /\ t \notin Executing
    BY <1>1 DEF Owners, Granted, Executing, Queued, At
  <2>5. /\ SlotTypes(L)'
        /\ Granted' = (Granted \ {t}) \cup W
        /\ Queued' = Queued \ (W \cup {t})
        /\ Executing' = Executing \ {t}
        /\ free' + Cardinality(W) = free /\ free' \in Nat
    BY <2>1, <2>2, <2>3, HandOverSound, next # "executing" DEF Outside
  <2>6. Owners' = Owners \cup W /\ Owners' = (Owners \ {t}) \cup W
        /\ InFlight' = InFlight \ {t}
    BY <2>2, <2>4, <2>5 DEF Owners, InFlight
  <2>7. PermitsConserved'
    <3>1. Cardinality(Owners \cup W) = Cardinality(Owners) + Cardinality(W)
      BY <2>2, DisjointCount DEF Owners, Granted, Executing, Queued, At
    <3>2. Cardinality(Owners) \in Nat
      BY FiniteAt DEF Owners, Granted, Executing, At
    <3> QED
      BY <2>3, <2>5, <2>6, <3>1, <3>2, SlotAssumption
         DEF SlotInv, PermitsConserved, Capped, SlotAssumption
  <2>8. WorkConserving'
    BY <2>3, <2>4, <2>5 DEF SlotInv, WorkConserving
  <2> QED
    BY <1>0, <2>2, <2>4, <2>5, <2>6, <2>7, <2>8 DEF SlotInv, NoLimitNoWait
<1>2. CASE pc[t] = "granted"
  <2>1. PICK W \in Front(t, 1, free + 1) : HandOver(t, next, free + 1, W)
    BY <1>2 DEF AbandonWait
  <2>2. W \in SUBSET (Queued \ {t}) /\ Cardinality(W) <= free + 1
        /\ (W = Queued \ {t} \/ Cardinality(W) >= 1)
    BY <2>1 DEF Front
  <2>3. W \in SUBSET Task /\ Cardinality(W) \in Nat /\ free + 1 \in Nat /\ free \in Nat
    BY <2>2, FiniteAt DEF Queued, At, SlotTypes
  <2>4. t \in Owners /\ t \in Granted /\ t \notin Queued /\ t \notin Executing
    BY <1>2 DEF Owners, Granted, Executing, Queued, At
  <2>5. /\ SlotTypes(L)'
        /\ Granted' = (Granted \ {t}) \cup W
        /\ Queued' = Queued \ (W \cup {t})
        /\ Executing' = Executing \ {t}
        /\ free' + Cardinality(W) = free + 1 /\ free' \in Nat
    BY <2>1, <2>2, <2>3, HandOverSound, next # "executing" DEF Outside
  <2>6. Owners' = (Owners \ {t}) \cup W /\ InFlight' = InFlight \ {t}
    BY <2>2, <2>4, <2>5 DEF Owners, InFlight
  <2>7. PermitsConserved'
    BY <2>2, <2>3, <2>4, <2>5, <2>6, OwnersCount, W \in SUBSET Queued, SlotAssumption
       DEF SlotInv, PermitsConserved, Capped, SlotAssumption
  <2>8. WorkConserving'
    <3>1. CASE W = Queued \ {t}
      BY <2>4, <2>5, <3>1 DEF WorkConserving
    <3>2. CASE Cardinality(W) >= 1
      <4>1. W # {}
        BY <3>2, FS_EmptySet
      <4> QED BY <2>5, <4>1 DEF WorkConserving
    <3> QED BY <2>2, <3>1, <3>2
  <2> QED
    BY <1>0, <2>2, <2>4, <2>5, <2>6, <2>7, <2>8 DEF SlotInv, NoLimitNoWait
<1> QED BY <1>1, <1>2 DEF AbandonWait

-----------------------------------------------------------------------------
(* Sums over finite sets.  What the fold is for a set of any size is shown  *)
(* by a smallest set for which it is not.                                   *)

LEMMA SmallestSet ==
  ASSUME NEW D, D # {}, \A s \in D : IsFiniteSet(s)
  PROVE  \E s \in D : \A u \in D : u \subseteq s => u = s
<1> DEFINE S == UNION D
           R == StrictSubsetOrdering(S)
<1>1. IsWellFoundedOn(R, FiniteSubsetsOf(S))
  BY FS_StrictSubsetOrderingWellFounded
<1>2. D \subseteq FiniteSubsetsOf(S)
  BY DEF FiniteSubsetsOf
<1>3. \E x \in D : \A y \in D : ~(<<y, x>> \in R)
  <2> HIDE DEF R
  <2> QED BY <1>1, <1>2, WFMin
<1>4. ASSUME NEW x \in D, NEW y \in D, ~(<<y, x>> \in R), y \subseteq x PROVE y = x
  BY <1>4, SMT DEF StrictSubsetOrdering
<1> QED BY <1>3, <1>4

LEMMA LeastNumber ==
  ASSUME NEW N, N \subseteq Nat, N # {}
  PROVE  \E n \in N : \A m \in N : n <= m
<1> DEFINE D == {1 .. n : n \in N}
<1>1. D # {} /\ \A s \in D : IsFiniteSet(s)
  <2>1. D # {}
    OBVIOUS
  <2>2. \A n \in N : IsFiniteSet(1 .. n)
    BY FS_Interval
  <2> QED BY <2>1, <2>2
<1>2. PICK s \in D : \A u \in D : u \subseteq s => u = s
  <2> HIDE DEF D
  <2> QED BY <1>1, SmallestSet
<1>3. PICK n \in N : s = 1 .. n
  OBVIOUS
<1>4. ASSUME NEW m \in N, m < n PROVE FALSE
  <2>1. 1 .. m \in D /\ 1 .. m \subseteq s
    BY <1>3, <1>4
  <2>2. 1 .. m = s
    BY <1>2, <2>1
  <2>3. n \in s /\ n \notin 1 .. m
    BY <1>3, <1>4
  <2> QED BY <2>2, <2>3
<1> QED BY <1>4

SumOf(f, S) == FoldFunctionOnSet(+, 0, f, S)
One(S) == CHOOSE x \in S : TRUE

\* The equation of the fold over the sets of family F.
Partial(g, f, F) == \A s \in F : g[s] = IF s = {} THEN 0 ELSE f[One(s)] + g[s \ {One(s)}]

\* For the subsets of at most n elements it has a solution.
LEMMA PartialSums ==
  ASSUME NEW S, IsFiniteSet(S), NEW f, NEW n \in Nat
  PROVE  \E g : /\ g = [s \in SUBSET S |-> g[s]]
                /\ Partial(g, f, {s \in SUBSET S : Cardinality(s) <= n})
<1> DEFINE Upto(m) == {s \in SUBSET S : Cardinality(s) <= m}
           Good(m) == \E g : g = [s \in SUBSET S |-> g[s]] /\ Partial(g, f, Upto(m))
           Bad == {m \in Nat : ~Good(m)}
<1>1. SUFFICES ASSUME Bad # {} PROVE FALSE
  OBVIOUS
<1>2. PICK m \in Bad : \A k \in Bad : m <= k
  <2>1. Bad \subseteq Nat
    OBVIOUS
  <2> HIDE DEF Bad
  <2> QED BY <1>1, <2>1, LeastNumber
<1>3. \A s \in SUBSET S : IsFiniteSet(s) /\ Cardinality(s) \in Nat /\ (Cardinality(s) = 0 <=> s = {})
  BY FS_Subset, FS_EmptySet, FS_CardinalityType
<1>4. CASE m = 0
  <2> DEFINE g == [s \in SUBSET S |-> 0]
  <2>1. g = [s \in SUBSET S |-> g[s]]
    OBVIOUS
  <2>2. \A s \in Upto(0) : s = {}
    BY <1>3
  <2>3. Partial(g, f, Upto(0))
    BY <2>2 DEF Partial
  <2> HIDE DEF g
  <2> QED BY <1>4, <2>1, <2>3
<1>5. CASE m > 0
  <2>1. m - 1 \in Nat /\ m - 1 \notin Bad
    <3>1. m \in Nat
      OBVIOUS
    <3> HIDE DEF Bad
    <3> QED BY <1>2, <1>5, <3>1
  <2>2. PICK g : g = [s \in SUBSET S |-> g[s]] /\ Partial(g, f, Upto(m - 1))
    BY <2>1
  <2> DEFINE h == [s \in SUBSET S |-> IF s = {} THEN 0 ELSE f[One(s)] + g[s \ {One(s)}]]
  <2>3. h = [s \in SUBSET S |-> h[s]]
    OBVIOUS
  <2>4. ASSUME NEW s \in Upto(m), s # {} PROVE g[s \ {One(s)}] = h[s \ {One(s)}]
    <3>1. One(s) \in s /\ s \in SUBSET S
      BY <2>4 DEF One
    <3>2. /\ Cardinality(s \ {One(s)}) = Cardinality(s) - 1
      BY <1>3, <3>1, FS_RemoveElement
    <3>3. s \ {One(s)} \in Upto(m - 1)
      BY <1>3, <1>2, <3>1, <3>2
    <3> QED BY <2>2, <3>3 DEF Partial
  <2>5. Partial(h, f, Upto(m))
    <3> SUFFICES ASSUME NEW s \in Upto(m)
                 PROVE h[s] = IF s = {} THEN 0 ELSE f[One(s)] + h[s \ {One(s)}]
      BY DEF Partial
    <3>1. h[s] = IF s = {} THEN 0 ELSE f[One(s)] + g[s \ {One(s)}]
      OBVIOUS
    <3> HIDE DEF h
    <3> QED BY <2>4, <3>1
  <2> HIDE DEF h
  <2> QED BY <2>3, <2>5
<1> QED BY <1>2, <1>4, <1>5

\* The fold is the value of one solution on all subsets.
LEMMA SumSolution ==
  ASSUME NEW S, IsFiniteSet(S), NEW f
  PROVE  \E g : Partial(g, f, SUBSET S) /\ SumOf(f, S) = g[S]
<1> DEFINE Eqn(g) == g = [s \in SUBSET S |->
                            IF s = {} THEN 0 ELSE f[CHOOSE x \in s : TRUE]
                                                  + g[s \ {CHOOSE x \in s : TRUE}]]
           it == CHOOSE g : Eqn(g)
<1>1. \E g : Eqn(g)
  <2>1. Cardinality(S) \in Nat /\ \A s \in SUBSET S : Cardinality(s) <= Cardinality(S)
    BY FS_CardinalityType, FS_Subset
  <2>2. {s \in SUBSET S : Cardinality(s) <= Cardinality(S)} = SUBSET S
    BY <2>1
  <2>3. PICK g : /\ g = [s \in SUBSET S |-> g[s]]
                 /\ Partial(g, f, {s \in SUBSET S : Cardinality(s) <= Cardinality(S)})
    BY <2>1, PartialSums
  <2>4. Eqn(g)
    BY <2>2, <2>3 DEF Partial, One
  <2> QED BY <2>4
<1>2. Eqn(it)
  <2> HIDE DEF Eqn
  <2> QED BY <1>1, Zenon
<1>3. SumOf(f, S) = it[S]
  BY DEF SumOf, FoldFunctionOnSet, MapThenFoldSet
<1>4. Partial(it, f, SUBSET S)
  <2> HIDE DEF it
  <2> QED BY <1>2 DEF Partial, One
<1> QED BY <1>3, <1>4

\* Two solutions agree wherever both are one, also for functions that agree.
LEMMA SolutionsAgree ==
  ASSUME NEW S, IsFiniteSet(S), NEW f, NEW h, \A x \in S : f[x] = h[x],
         NEW a, NEW b, Partial(a, f, SUBSET S), Partial(b, h, SUBSET S)
  PROVE  a[S] = b[S]
<1> DEFINE D == {s \in SUBSET S : a[s] # b[s]}
<1> SUFFICES ASSUME D # {} PROVE FALSE
  OBVIOUS
<1>1. \A s \in D : IsFiniteSet(s)
  BY FS_Subset
<1>2. PICK s \in D : \A u \in D : u \subseteq s => u = s
  <2> HIDE DEF D
  <2> QED BY <1>1, SmallestSet
<1>3. s \in SUBSET S /\ a[s] # b[s]
  OBVIOUS
<1>4. s # {}
  BY <1>3 DEF Partial
<1>5. One(s) \in s
  BY <1>4 DEF One
<1>6. s \ {One(s)} \in SUBSET S /\ s \ {One(s)} \notin D
  BY <1>2, <1>5
<1>7. a[s \ {One(s)}] = b[s \ {One(s)}] /\ f[One(s)] = h[One(s)]
  BY <1>3, <1>5, <1>6
<1> HIDE DEF D
<1> QED BY <1>3, <1>4, <1>7 DEF Partial

LEMMA SumSame ==
  ASSUME NEW S, IsFiniteSet(S), NEW f, NEW h, \A x \in S : f[x] = h[x]
  PROVE  SumOf(f, S) = SumOf(h, S)
<1>1. PICK a : Partial(a, f, SUBSET S) /\ SumOf(f, S) = a[S]
  BY SumSolution
<1>2. PICK b : Partial(b, h, SUBSET S) /\ SumOf(h, S) = b[S]
  BY SumSolution
<1> QED BY <1>1, <1>2, SolutionsAgree

LEMMA SumEmpty == ASSUME NEW f PROVE SumOf(f, {}) = 0
BY SumSolution, FS_EmptySet DEF Partial

LEMMA SumChosen ==
  ASSUME NEW S, IsFiniteSet(S), S # {}, NEW f
  PROVE  One(S) \in S /\ SumOf(f, S) = f[One(S)] + SumOf(f, S \ {One(S)})
<1>1. One(S) \in S
  BY DEF One
<1> DEFINE T == S \ {One(S)}
<1>2. IsFiniteSet(T) /\ T \subseteq S
  BY FS_Subset
<1>3. PICK g : Partial(g, f, SUBSET S) /\ SumOf(f, S) = g[S]
  BY SumSolution
<1>4. PICK k : Partial(k, f, SUBSET T) /\ SumOf(f, T) = k[T]
  BY <1>2, SumSolution
<1>5. Partial(g, f, SUBSET T)
  BY <1>2, <1>3 DEF Partial
<1>6. g[T] = k[T]
  BY <1>2, <1>4, <1>5, SolutionsAgree
<1>7. g[S] = f[One(S)] + g[T]
  BY <1>3 DEF Partial
<1> QED BY <1>1, <1>3, <1>4, <1>6, <1>7

\* A sum of naturals, taken apart at any of its elements.
LEMMA SumSplit ==
  ASSUME NEW S, IsFiniteSet(S), NEW f, \A x \in S : f[x] \in Nat
  PROVE  /\ SumOf(f, S) \in Nat
         /\ \A x \in S : SumOf(f, S) = f[x] + SumOf(f, S \ {x})
<1> DEFINE Split(s) == /\ SumOf(f, s) \in Nat
                       /\ \A x \in s : SumOf(f, s) = f[x] + SumOf(f, s \ {x})
           D == {s \in SUBSET S : ~Split(s)}
<1> SUFFICES ASSUME D # {} PROVE FALSE
  OBVIOUS
<1>1. \A s \in SUBSET S : IsFiniteSet(s)
  BY FS_Subset
<1>2. PICK s \in D : \A u \in D : u \subseteq s => u = s
  <2>1. \A t \in D : IsFiniteSet(t)
    BY <1>1
  <2> HIDE DEF D
  <2> QED BY <2>1, SmallestSet
<1>3. s \in SUBSET S /\ ~Split(s) /\ IsFiniteSet(s)
  BY <1>1
<1>4. ASSUME NEW u \in SUBSET s, u # s PROVE Split(u)
  <2>1. u \in SUBSET S /\ u \notin D
    BY <1>2, <1>3, <1>4
  <2> HIDE DEF Split
  <2> QED BY <2>1
<1> HIDE DEF D
<1>5. CASE s = {}
  BY <1>3, <1>5, SumEmpty
<1>6. CASE s # {}
  <2> DEFINE c == One(s)
  <2>1. c \in s /\ SumOf(f, s) = f[c] + SumOf(f, s \ {c})
    BY <1>3, <1>6, SumChosen
  <2> HIDE DEF c
  <2>2. Split(s \ {c})
    BY <1>4, <2>1
  <2>3. SumOf(f, s) \in Nat
    BY <1>3, <2>1, <2>2
  <2>4. ASSUME NEW x \in s, x # c PROVE SumOf(f, s) = f[x] + SumOf(f, s \ {x})
    <3>1. Split(s \ {x})
      BY <1>4
    <3>2. x \in s \ {c} /\ c \in s \ {x}
      BY <2>1, <2>4
    <3>3. (s \ {c}) \ {x} = (s \ {x}) \ {c} /\ (s \ {c}) \ {x} # s
      BY <2>1
    <3>4. SumOf(f, s \ {c}) = f[x] + SumOf(f, (s \ {c}) \ {x})
      BY <2>2, <3>2
    <3>5. SumOf(f, s \ {x}) = f[c] + SumOf(f, (s \ {c}) \ {x})
      BY <3>1, <3>2, <3>3
    <3>6. SumOf(f, (s \ {c}) \ {x}) \in Nat
      BY <1>4, <3>3
    <3>7. f[x] \in Nat /\ f[c] \in Nat
      BY <1>3, <2>1
    <3> QED BY <2>1, <3>4, <3>5, <3>6, <3>7
  <2> QED BY <1>3, <2>1, <2>3, <2>4
<1> QED BY <1>5, <1>6

\* One summand changes.
LEMMA SumChange ==
  ASSUME NEW S, IsFiniteSet(S), NEW f, NEW h, NEW x \in S, \A y \in S : f[y] \in Nat /\ h[y] \in Nat,
         \A y \in S \ {x} : f[y] = h[y]
  PROVE  SumOf(h, S) + f[x] = SumOf(f, S) + h[x]
<1>1. IsFiniteSet(S \ {x})
  BY FS_Subset
<1>2. SumOf(f, S \ {x}) = SumOf(h, S \ {x}) /\ SumOf(f, S \ {x}) \in Nat
  BY <1>1, SumSame, SumSplit
<1>3. SumOf(f, S) = f[x] + SumOf(f, S \ {x}) /\ SumOf(h, S) = h[x] + SumOf(h, S \ {x})
  BY SumSplit
<1>4. f[x] \in Nat /\ h[x] \in Nat
  OBVIOUS
<1> QED BY <1>2, <1>3, <1>4

LEMMA SumZero ==
  ASSUME NEW S, IsFiniteSet(S), NEW f, \A x \in S : f[x] = 0
  PROVE  SumOf(f, S) = 0
<1> DEFINE D == {s \in SUBSET S : SumOf(f, s) # 0}
<1> SUFFICES ASSUME D # {} PROVE FALSE
  OBVIOUS
<1>1. \A s \in SUBSET S : IsFiniteSet(s)
  BY FS_Subset
<1>2. PICK s \in D : \A u \in D : u \subseteq s => u = s
  <2>1. \A t \in D : IsFiniteSet(t)
    BY <1>1
  <2> HIDE DEF D
  <2> QED BY <2>1, SmallestSet
<1>3. s # {} /\ s \in SUBSET S
  BY SumEmpty
<1>4. One(s) \in s /\ SumOf(f, s) = f[One(s)] + SumOf(f, s \ {One(s)})
  BY <1>1, <1>3, SumChosen
<1>5. SumOf(f, s \ {One(s)}) = 0
  BY <1>2, <1>3, <1>4
<1> QED BY <1>3, <1>4, <1>5

-----------------------------------------------------------------------------
(* The inductive invariant.                                                *)

\* A live lane belongs to the phase that is running; no lane outlives the run.
LiveBorn ==
  /\ phase \in Phase => \A t \in Task : pc[t] # "done" => born[t] = phase
  /\ phase = "over" => \A t \in Task : pc[t] = "done"

\* Without a deadline the clock never expires.
NoClock == phase # "warmup" /\ ~Timed => ~expired

\* The measured phase starts from zero.
FreshStart == phase = "warmup" => results["measured"] = 0

\* With a budget, what is recorded or pending was reserved first.
ReservedFirst ==
  phase # "warmup" /\ Ops > 0 =>
    results["measured"] + Cardinality(Pending) <= opsDone

\* The counter stays within the budget, and stop means that it is spent.
CountBound ==
  /\ Ops > 0 => opsDone <= Ops
  /\ stop => opsDone = Ops /\ Ops > 0

Books == /\ LiveBorn /\ NoClock /\ FreshStart /\ WarmupApart
         /\ ReservationsKept /\ ReservedFirst /\ CountBound

Inv == TypeOK /\ SlotInv /\ Books

LEMMA TypeOKSlots == TypeOK => SlotTypes(Label)
BY DEF TypeOK, SlotTypes, Label

LEMMA InitInv == Init => Inv
<1> SUFFICES ASSUME Init PROVE Inv
  OBVIOUS
<1> USE DEF Init, SlotInit
<1>1. TypeOK
  BY ClosedAssumption, SlotAssumption
     DEF TypeOK, ClosedAssumption, SlotAssumption, Label, Phase, FirstPhase
<1>2. /\ InFlight = {} /\ Owners = {} /\ Queued = {} /\ Granted = {}
      /\ Pending = {}
  BY DEF Pending, InFlight, Owners, Queued, Granted, Executing, At
<1>3. SlotInv
  BY <1>2, FS_EmptySet, SlotAssumption
     DEF SlotInv, PermitsConserved, WorkConserving, NoLimitNoWait, SlotAssumption, Capped
<1>4. LiveBorn /\ NoClock /\ FreshStart /\ WarmupApart /\ CountBound
  BY ClosedAssumption
     DEF LiveBorn, NoClock, FreshStart, WarmupApart, CountBound, Phase, FirstPhase,
         ClosedAssumption
<1>5. ReservationsKept /\ ReservedFirst
  BY <1>2, FS_EmptySet DEF ReservationsKept, ReservedFirst, Phase
<1> QED BY <1>1, <1>3, <1>4, <1>5 DEF Inv, Books

\* Pending is finite, and its size moves with its members.
LEMMA PendingCount ==
  ASSUME NEW t \in Task
  PROVE  /\ Cardinality(Pending) \in Nat
         /\ t \in Pending => /\ Cardinality(Pending \ {t}) = Cardinality(Pending) - 1
                             /\ Cardinality(Pending) > 0
         /\ t \notin Pending => Cardinality(Pending \cup {t}) = Cardinality(Pending) + 1
<1>1. Pending \in SUBSET Task
  BY DEF Pending, InFlight, Owners, Queued, Granted, Executing, At
<1>2. IsFiniteSet(Pending) /\ Cardinality(Pending) \in Nat
  BY <1>1, FiniteAt
<1>3. t \in Pending => Cardinality(Pending) > 0
  BY <1>2, FS_EmptySet
<1> QED BY <1>2, <1>3, FS_AddElement, FS_RemoveElement

\* Handing permits over moves waiters only: reserved lanes stay where they are.
LEMMA HandOverReserved ==
  ASSUME TypeOK, NEW t \in Task, NEW next, next # "reserved", pc[t] # "reserved",
         NEW n, NEW W \in SUBSET Queued, HandOver(t, next, n, W)
  PROVE  /\ At("reserved")' = At("reserved")
         /\ \A u \in Task \ {t} : pc'[u] # "done" <=> pc[u] # "done"
         /\ pc'[t] = next
BY DEF HandOver, At, Queued, TypeOK

LEMMA LimitStep ==
  ASSUME TypeOK, NEW t \in Task,
         \/ pc[t] = "executing" /\ ReleaseSlot(t, "turn")
         \/ pc[t] = "granted" /\ ResumeWithSlot(t)
         \/ AbandonWait(t, "done")
  PROVE  /\ At("reserved")' = At("reserved")
         /\ \A u \in Task \ {t} : pc'[u] # "done" <=> pc[u] # "done"
<1>1. CASE pc[t] = "executing" /\ ReleaseSlot(t, "turn") /\ Capped
  BY <1>1, HandOverReserved DEF ReleaseSlot, Front
<1>2. CASE pc[t] = "executing" /\ ReleaseSlot(t, "turn") /\ ~Capped
  BY <1>2 DEF ReleaseSlot, At, TypeOK
<1>3. CASE pc[t] = "granted" /\ ResumeWithSlot(t)
  BY <1>3, HandOverReserved DEF ResumeWithSlot, Front
<1>4. CASE AbandonWait(t, "done")
  <2>1. CASE pc[t] = "queued"
    BY <1>4, <2>1, HandOverReserved DEF AbandonWait, Front
  <2>2. CASE pc[t] = "granted"
    BY <1>4, <2>2, HandOverReserved DEF AbandonWait, Front
  <2> QED BY <1>4, <2>1, <2>2 DEF AbandonWait
<1> QED BY <1>1, <1>2, <1>3, <1>4

-----------------------------------------------------------------------------
(* One lemma per kind of step. *)

\* A step that moves one lane between labels of its own.
LEMMA QuietMove ==
  ASSUME Inv, NEW t \in Task, NEW next \in Label, Outside(pc[t]), Outside(next),
         pc' = [pc EXCEPT ![t] = next], UNCHANGED <<free, ahead>>
  PROVE  /\ SlotTypes(Label)' /\ SlotInv'
         /\ Pending' = IF next = "reserved" THEN Pending \cup {t} ELSE Pending \ {t}
<1>1. SlotTypes(Label)
  BY TypeOKSlots DEF Inv
<1>2. /\ SlotTypes(Label)' /\ (SlotInv => SlotInv') /\ InFlight' = InFlight
  BY <1>1, OutsideMove
<1>3. t \notin InFlight
  BY DEF Outside, InFlight, Owners, Queued, Granted, Executing, At
<1>4. At("reserved")' = IF next = "reserved" THEN At("reserved") \cup {t}
                                             ELSE At("reserved") \ {t}
  BY DEF At, Inv, TypeOK
<1> QED BY <1>2, <1>3, <1>4 DEF Inv, Pending

LEMMA StutterInv == Inv /\ UNCHANGED vars => Inv'
BY DEF Inv, vars, Books, TypeOK, slotVars, SlotInv, PermitsConserved, WorkConserving,
       NoLimitNoWait, Capped, InFlight, Owners, Queued, Granted, Executing, At,
       LiveBorn, NoClock, FreshStart, WarmupApart, ReservationsKept, ReservedFirst,
       CountBound, Pending

LEMMA TickInv == Inv /\ Tick => Inv'
<1> SUFFICES ASSUME Inv, Tick PROVE Inv'
  OBVIOUS
<1>1. UNCHANGED <<pc, free, ahead, phase, stop, opsDone, left, born, cur, results>>
      /\ expired' = TRUE /\ (phase = "warmup" \/ Timed)
  BY DEF Tick, slotVars, HasDeadline
<1>2. TypeOK' /\ SlotInv'
  BY <1>1 DEF Inv, TypeOK, SlotInv, PermitsConserved, WorkConserving, NoLimitNoWait,
              Capped, InFlight, Owners, Queued, Granted, Executing, At
<1>3. Pending' = Pending
  BY <1>1 DEF Pending, InFlight, Owners, Queued, Granted, Executing, At
<1>4. Books'
  BY <1>1, <1>3 DEF Inv, Books, LiveBorn, NoClock, FreshStart, WarmupApart,
                    ReservationsKept, ReservedFirst, CountBound
<1> QED BY <1>2, <1>4 DEF Inv

\* What a step of lane t must show of the books once it is clear how Pending and
\* the two counters move.
LEMMA BooksStep ==
  ASSUME Inv, NEW t \in Task, pc[t] # "done", phase # "over",
         phase' = phase, expired' = expired, born' = born,
         \A u \in Task \ {t} : pc'[u] # "done" <=> pc[u] # "done",
         opsDone' \in Nat, results' \in [Phase -> Nat],
         results'["warmup"] = 0, phase = "warmup" => results' = results,
         phase = "warmup" => opsDone' = 0 /\ ~stop',
         CountBound', ReservationsKept', ReservedFirst'
  PROVE  Books'
<1>1. LiveBorn'
  BY DEF Inv, Books, LiveBorn, TypeOK, Phase
<1>2. NoClock' /\ FreshStart' /\ WarmupApart'
  BY DEF Inv, Books, NoClock, FreshStart, WarmupApart
<1> QED BY <1>1, <1>2 DEF Books

\* A live lane runs in a phase, not after the end.
LEMMA LiveRuns ==
  ASSUME Inv, NEW t \in Task, pc[t] # "done"
  PROVE  phase \in Phase /\ phase # "over" /\ born[t] = phase
BY DEF Inv, Books, LiveBorn, TypeOK, Phase

LEMMA StartInv == ASSUME Inv, NEW t \in Task, Start(t) PROVE Inv'
<1> USE DEF Inv
<1>1. /\ pc[t] = "starting" /\ pc' = [pc EXCEPT ![t] = "turn"] /\ cur' = t
      /\ UNCHANGED <<free, ahead, phase, expired, stop, opsDone, left, born, results>>
  BY DEF Start
<1>2. /\ SlotTypes(Label)' /\ SlotInv' /\ Pending' = Pending \ {t}
  BY <1>1, QuietMove DEF Outside, Label
<1>3. Pending' = Pending
  BY <1>1, <1>2 DEF Pending, InFlight, Owners, Queued, Granted, Executing, At
<1>4. TypeOK'
  BY <1>1, <1>2 DEF TypeOK, SlotTypes
<1>5. CountBound' /\ ReservationsKept' /\ ReservedFirst'
  BY <1>1, <1>3 DEF Books, CountBound, ReservationsKept, ReservedFirst
<1>6. \A u \in Task \ {t} : pc'[u] # "done" <=> pc[u] # "done"
  BY <1>1 DEF TypeOK
<1>7. Books'
  BY <1>1, <1>5, <1>6, LiveRuns, BooksStep DEF TypeOK, Books, WarmupApart
<1> QED BY <1>2, <1>4, <1>7

\* A lane that returns loses its reservation only to the deadline.
LEMMA ReturnInv == ASSUME Inv, NEW t \in Task, Return(t) PROVE Inv'
<1> USE DEF Inv
<1>1. /\ pc[t] \in {"starting", "turn", "reserved"}
      /\ pc[t] = "reserved" => expired
      /\ pc' = [pc EXCEPT ![t] = "done"] /\ cur' = NoTask
      /\ UNCHANGED <<free, ahead, phase, expired, stop, opsDone, left, born, results>>
  BY DEF Return, MayReturn
<1>2. /\ SlotTypes(Label)' /\ SlotInv' /\ Pending' = Pending \ {t}
  BY <1>1, QuietMove DEF Outside, Label
<1>3. TypeOK'
  BY <1>1, <1>2 DEF TypeOK, SlotTypes
<1>4. phase # "over" /\ phase \in Phase
  BY <1>1, LiveRuns
<1>5. ReservationsKept' /\ ReservedFirst' /\ CountBound'
  <2>1. ReservationsKept' /\ ReservedFirst'
    <3>1. CASE pc[t] # "reserved"
      <4>1. Pending' = Pending
        BY <1>1, <1>2, <3>1
           DEF Pending, InFlight, Owners, Queued, Granted, Executing, At
      <4> QED BY <1>1, <4>1 DEF Books, ReservationsKept, ReservedFirst
    <3>2. CASE pc[t] = "reserved"
      <4>1. Cardinality(Pending') = Cardinality(Pending) - 1
            /\ Cardinality(Pending) \in Nat
        BY <1>2, <3>2, PendingCount DEF Pending, At
      <4>2. ReservationsKept'
        BY <1>1, <3>2 DEF Books, NoClock, ReservationsKept
      <4>3. ReservedFirst'
        BY <1>1, <4>1 DEF Books, ReservedFirst, TypeOK, Phase
      <4> QED BY <4>2, <4>3
    <3> QED BY <3>1, <3>2
  <2> QED BY <1>1, <2>1 DEF Books, CountBound
<1>6. \A u \in Task \ {t} : pc'[u] # "done" <=> pc[u] # "done"
  BY <1>1 DEF TypeOK
<1>7. Books'
  BY <1>1, <1>4, <1>5, <1>6, BooksStep DEF TypeOK, Books, WarmupApart
<1> QED BY <1>2, <1>3, <1>7

LEMMA ReserveInv == ASSUME Inv, NEW t \in Task, Reserve(t) PROVE Inv'
<1> USE DEF Inv
<1>1. /\ pc[t] = "turn" /\ left[t] > 0 /\ ~BudgetSpent
      /\ opsDone' = IF Budgeted THEN opsDone + 1 ELSE opsDone
      /\ left' = [left EXCEPT ![t] = @ - 1]
      /\ pc' = [pc EXCEPT ![t] = "reserved"] /\ cur' \in {t, NoTask}
      /\ ~stop
      /\ UNCHANGED <<free, ahead, phase, expired, stop, born, results>>
  BY DEF Reserve, AtNextOp
<1>2. /\ SlotTypes(Label)' /\ SlotInv' /\ Pending' = Pending \cup {t}
  BY <1>1, QuietMove DEF Outside, Label
<1>3. TypeOK'
  BY <1>1, <1>2 DEF TypeOK, SlotTypes
<1>4. phase # "over" /\ phase \in Phase
  BY <1>1, LiveRuns
<1>5. t \notin Pending
  BY <1>1 DEF Pending, InFlight, Owners, Queued, Granted, Executing, At
<1>6. Cardinality(Pending') = Cardinality(Pending) + 1 /\ Cardinality(Pending) \in Nat
  BY <1>2, <1>5, PendingCount
<1>7. Budgeted <=> phase = "measured" /\ Ops > 0
  BY DEF Budgeted, Recording
<1>8. opsDone \in Nat /\ Ops \in Nat /\ results["measured"] \in Nat
  BY ClosedAssumption DEF ClosedAssumption, TypeOK, Phase
<1>9. CountBound'
  BY <1>1, <1>8 DEF Books, CountBound, BudgetSpent, Budgeted
<1>10. ReservationsKept' /\ ReservedFirst'
  BY <1>1, <1>4, <1>6, <1>7, <1>8, ClosedAssumption
     DEF Books, ReservationsKept, ReservedFirst, Phase, ClosedAssumption
<1>11. \A u \in Task \ {t} : pc'[u] # "done" <=> pc[u] # "done"
  BY <1>1 DEF TypeOK
<1>12. phase = "warmup" => opsDone' = 0 /\ ~stop'
  BY <1>1, <1>7 DEF Books, WarmupApart
<1>13. Books'
  BY <1>1, <1>3, <1>4, <1>9, <1>10, <1>11, <1>12, BooksStep
     DEF TypeOK, Books, WarmupApart
<1> QED BY <1>2, <1>3, <1>13

LEMMA StopAllInv == ASSUME Inv, NEW t \in Task, StopAll(t) PROVE Inv'
<1> USE DEF Inv
<1>1. /\ pc[t] = "turn" /\ left[t] > 0 /\ BudgetSpent
      /\ stop' = TRUE
      /\ left' = [left EXCEPT ![t] = @ - 1]
      /\ pc' = [pc EXCEPT ![t] = "done"] /\ cur' = NoTask
      /\ UNCHANGED <<free, ahead, phase, expired, opsDone, born, results>>
  BY DEF StopAll, AtNextOp
<1>2. /\ SlotTypes(Label)' /\ SlotInv' /\ Pending' = Pending \ {t}
  BY <1>1, QuietMove DEF Outside, Label
<1>3. Pending' = Pending
  BY <1>1, <1>2 DEF Pending, InFlight, Owners, Queued, Granted, Executing, At
<1>4. TypeOK'
  BY <1>1, <1>2 DEF TypeOK, SlotTypes
<1>5. /\ phase # "over" /\ phase = "measured" /\ Ops > 0 /\ opsDone >= Ops
  BY <1>1, LiveRuns DEF BudgetSpent, Budgeted, Recording
<1>6. opsDone \in Nat /\ Ops \in Nat
  BY ClosedAssumption DEF ClosedAssumption, TypeOK
<1>7. CountBound' /\ ReservationsKept' /\ ReservedFirst'
  BY <1>1, <1>3, <1>5, <1>6 DEF Books, CountBound, ReservationsKept, ReservedFirst
<1>8. \A u \in Task \ {t} : pc'[u] # "done" <=> pc[u] # "done"
  BY <1>1 DEF TypeOK
<1>9. Books'
  BY <1>1, <1>4, <1>5, <1>7, <1>8, BooksStep DEF TypeOK, Books, WarmupApart
<1> QED BY <1>2, <1>4, <1>9

\* Acquiring, resuming and releasing do not touch the counters of the budget.
LEMMA PendingSame ==
  ASSUME Inv, Pending' = Pending, UNCHANGED <<phase, opsDone, results, stop>>
  PROVE  CountBound' /\ ReservationsKept' /\ ReservedFirst'
BY DEF Inv, Books, CountBound, ReservationsKept, ReservedFirst

LEMMA AcquireInv == ASSUME Inv, NEW t \in Task, Acquire(t) PROVE Inv'
<1> USE DEF Inv
<1>1. /\ pc[t] = "reserved" /\ AcquireSlot(t) /\ cur' = NoTask
      /\ UNCHANGED <<phase, expired, stop, opsDone, left, born, results>>
  BY DEF Acquire
<1>2. /\ SlotTypes(Label)' /\ SlotInv' /\ InFlight' = InFlight \cup {t}
  BY <1>1, TypeOKSlots, AcquireSlotSound DEF Outside, InFlight
<1>3. /\ At("reserved")' = At("reserved") \ {t} /\ t \in At("reserved")
      /\ \A u \in Task \ {t} : pc'[u] # "done" <=> pc[u] # "done"
  BY <1>1 DEF AcquireSlot, At, TypeOK
<1>4. Pending' = Pending
  BY <1>2, <1>3 DEF Pending
<1>5. TypeOK'
  BY <1>1, <1>2 DEF TypeOK, SlotTypes
<1>6. Books'
  BY <1>1, <1>3, <1>4, <1>5, PendingSame, LiveRuns, BooksStep
     DEF TypeOK, Books, WarmupApart
<1> QED BY <1>2, <1>5, <1>6

LEMMA DispatchInv == ASSUME Inv, NEW t \in Task, Dispatch(t) PROVE Inv'
<1> USE DEF Inv
<1>1. /\ pc[t] = "granted" /\ t \in Granted /\ ResumeWithSlot(t) /\ cur' = NoTask
      /\ UNCHANGED <<phase, expired, stop, opsDone, left, born, results>>
  BY DEF Dispatch, Granted, At
<1>2. /\ SlotTypes(Label)' /\ SlotInv' /\ InFlight' = InFlight
  BY <1>1, TypeOKSlots, ResumeWithSlotSound
<1>3. /\ At("reserved")' = At("reserved")
      /\ \A u \in Task \ {t} : pc'[u] # "done" <=> pc[u] # "done"
  BY <1>1, LimitStep
<1>4. Pending' = Pending
  BY <1>2, <1>3 DEF Pending
<1>5. TypeOK'
  BY <1>1, <1>2 DEF TypeOK, SlotTypes
<1>6. Books'
  BY <1>1, <1>3, <1>4, <1>5, PendingSame, LiveRuns, BooksStep
     DEF TypeOK, Books, WarmupApart
<1> QED BY <1>2, <1>5, <1>6

LEMMA ExpireInv == ASSUME Inv, NEW t \in Task, Expire(t) PROVE Inv'
<1> USE DEF Inv
<1>1. /\ pc[t] \in {"queued", "granted"} /\ expired
      /\ AbandonWait(t, "done") /\ cur' = NoTask
      /\ UNCHANGED <<phase, expired, stop, opsDone, left, born, results>>
  BY DEF Expire
<1>2. /\ SlotTypes(Label)' /\ SlotInv' /\ InFlight' = InFlight \ {t}
      /\ t \in InFlight
  BY <1>1, TypeOKSlots, AbandonWaitSound DEF Outside, Label, InFlight, Owners
<1>3. /\ At("reserved")' = At("reserved") /\ t \notin At("reserved")
      /\ \A u \in Task \ {t} : pc'[u] # "done" <=> pc[u] # "done"
  BY <1>1, LimitStep DEF At
<1>4. Pending' = Pending \ {t} /\ t \in Pending
  BY <1>2, <1>3 DEF Pending
<1>5. Cardinality(Pending') = Cardinality(Pending) - 1 /\ Cardinality(Pending) \in Nat
  BY <1>4, PendingCount
<1>6. TypeOK'
  BY <1>1, <1>2 DEF TypeOK, SlotTypes
<1>7. ReservationsKept'
  BY <1>1 DEF Books, NoClock, ReservationsKept
<1>8. ReservedFirst' /\ CountBound'
  BY <1>1, <1>5 DEF Books, ReservedFirst, CountBound, TypeOK, Phase
<1>9. Books'
  BY <1>1, <1>3, <1>6, <1>7, <1>8, LiveRuns, BooksStep
     DEF TypeOK, Books, WarmupApart
<1> QED BY <1>2, <1>6, <1>9

LEMMA FinishInv == ASSUME Inv, NEW t \in Task, Finish(t) PROVE Inv'
<1> USE DEF Inv
<1>1. /\ pc[t] = "executing" /\ t \in Executing
      /\ ReleaseSlot(t, "turn") /\ cur' = t
      /\ results' = IF Recording THEN [results EXCEPT ![born[t]] = @ + 1] ELSE results
      /\ UNCHANGED <<phase, expired, stop, opsDone, left, born>>
  BY DEF Finish, Executing, At
<1>2. /\ SlotTypes(Label)' /\ SlotInv' /\ InFlight' = InFlight \ {t}
      /\ t \in InFlight
  BY <1>1, TypeOKSlots, ReleaseSlotSound DEF Outside, Label, InFlight, Owners
<1>3. /\ At("reserved")' = At("reserved") /\ t \notin At("reserved")
      /\ \A u \in Task \ {t} : pc'[u] # "done" <=> pc[u] # "done"
  BY <1>1, LimitStep DEF At
<1>4. Pending' = Pending \ {t} /\ t \in Pending
  BY <1>2, <1>3 DEF Pending
<1>5. Cardinality(Pending') = Cardinality(Pending) - 1 /\ Cardinality(Pending) \in Nat
  BY <1>4, PendingCount
<1>6. phase \in Phase /\ phase # "over" /\ born[t] = phase
  BY <1>1, LiveRuns
<1>7. /\ results' \in [Phase -> Nat]
      /\ phase = "warmup" => results' = results
      /\ phase = "measured" => /\ results'["measured"] = results["measured"] + 1
                               /\ results'["warmup"] = results["warmup"]
  BY <1>1, <1>6 DEF Recording, TypeOK, Phase
<1>8. TypeOK'
  BY <1>1, <1>2, <1>7 DEF TypeOK, SlotTypes
<1>9. ReservationsKept' /\ ReservedFirst' /\ CountBound'
  BY <1>1, <1>5, <1>6, <1>7
     DEF Books, ReservationsKept, ReservedFirst, CountBound, TypeOK, Phase
<1>10. results'["warmup"] = 0
  BY <1>6, <1>7 DEF Books, WarmupApart, Phase
<1>11. Books'
  BY <1>1, <1>3, <1>6, <1>7, <1>8, <1>9, <1>10, BooksStep
     DEF TypeOK, Books, WarmupApart
<1> QED BY <1>2, <1>8, <1>11

LEMMA EndPhaseInv == Inv /\ EndPhase => Inv'
<1> SUFFICES ASSUME Inv, EndPhase PROVE Inv'
  OBVIOUS
<1> USE DEF Inv
<1>1. /\ \A t \in Task : pc[t] = "done"
      /\ UNCHANGED <<free, ahead, cur, results>>
      /\ phase \in Phase
  BY DEF EndPhase, Drained, Live, At, TypeOK
<1>2. /\ Queued = {} /\ Owners = {} /\ Granted = {} /\ Pending = {}
  BY <1>1 DEF Pending, InFlight, Owners, Queued, Granted, Executing, At
<1>3. /\ \A t \in Task : pc'[t] \in {"starting", "done"}
      /\ pc' \in [Task -> Label]
  BY <1>1 DEF EndPhase, TypeOK, Label
<1>4. /\ Queued' = {} /\ Owners' = {} /\ Granted' = {} /\ Pending' = {}
  BY <1>3 DEF Pending, InFlight, Owners, Queued, Granted, Executing, At
<1>5. SlotInv'
  BY <1>1, <1>2, <1>4
     DEF SlotInv, PermitsConserved, WorkConserving, NoLimitNoWait, Capped
<1>6. CASE phase = "warmup"
  <2>1. /\ phase' = "measured" /\ expired' = FALSE /\ stop' = FALSE /\ opsDone' = 0
        /\ left' = PlanLength
        /\ born' = [t \in Task |-> IF pc[t] = "done" THEN "measured" ELSE born[t]]
    BY <1>6 DEF EndPhase
  <2>2. TypeOK'
    BY <1>1, <1>3, <2>1, ClosedAssumption DEF TypeOK, Phase, ClosedAssumption
  <2>3. LiveBorn' /\ NoClock' /\ FreshStart' /\ WarmupApart' /\ CountBound'
    BY <1>1, <1>6, <2>1, ClosedAssumption
       DEF Books, LiveBorn, NoClock, FreshStart, WarmupApart, CountBound,
           ClosedAssumption, Phase
  <2>4. ReservationsKept' /\ ReservedFirst'
    BY <1>1, <1>4, <1>6, <2>1, FS_EmptySet
       DEF Books, FreshStart, ReservationsKept, ReservedFirst
  <2> QED BY <1>5, <2>2, <2>3, <2>4 DEF Books
<1>7. CASE phase = "measured"
  <2>1. /\ phase' = "over" /\ UNCHANGED <<pc, born, expired, stop, opsDone, left>>
    BY <1>7 DEF EndPhase
  <2>2. TypeOK'
    BY <1>1, <2>1 DEF TypeOK
  <2>3. LiveBorn' /\ NoClock' /\ FreshStart' /\ WarmupApart' /\ CountBound'
    BY <1>1, <1>7, <2>1
       DEF Books, LiveBorn, NoClock, FreshStart, WarmupApart, CountBound, Phase
  <2>4. ReservationsKept' /\ ReservedFirst'
    BY <1>1, <1>2, <1>4, <1>7, <2>1
       DEF Books, ReservationsKept, ReservedFirst
  <2> QED BY <1>5, <2>2, <2>3, <2>4 DEF Books
<1> QED BY <1>1, <1>6, <1>7 DEF Phase

THEOREM Invariance == Spec => []Inv
<1>1. Init => Inv
  BY InitInv
<1>2. Inv /\ [Next]_vars => Inv'
  <2> SUFFICES ASSUME Inv, [Next]_vars PROVE Inv'
    OBVIOUS
  <2>1. CASE Tick
    BY <2>1, TickInv
  <2>2. CASE EndPhase
    BY <2>2, EndPhaseInv
  <2>3. ASSUME NEW t \in Task, LaneStep(t) PROVE Inv'
    BY <2>3, ReturnInv, StartInv, ReserveInv, StopAllInv, AcquireInv, DispatchInv,
       ExpireInv, FinishInv DEF LaneStep
  <2>4. CASE Over \/ UNCHANGED vars
    BY <2>4, StutterInv DEF Over
  <2> QED BY <2>1, <2>2, <2>3, <2>4 DEF Next
<1> QED BY <1>1, <1>2, PTL DEF Spec

-----------------------------------------------------------------------------
(* What follows from the invariant. *)

\* Every variable has its type.
THEOREM TypeCorrect == Spec => []TypeOK
BY Invariance, PTL DEF Inv

\* No permit is lost or returned twice (_acquire_global_slot and the finally of
\* _user_loop).
THEOREM PermitsSafe == Spec => []SlotInv
BY Invariance, PTL DEF Inv

\* Without a deadline a reservation is a promise (_reserve_op).
THEOREM ReservationsHonoured == Spec => []ReservationsKept
BY Invariance, PTL DEF Inv, Books

\* The warm-up takes nothing from the budget and leaves nothing in the results
\* (run, _reset_phase_state).
THEOREM WarmupLeavesNothing == Spec => []WarmupApart
BY Invariance, PTL DEF Inv, Books

\* The budget is never exceeded (_reserve_op).
THEOREM BudgetNeverExceeded == Spec => []BudgetRespected
<1>1. Inv => BudgetRespected
  <2> SUFFICES ASSUME Inv, phase # "warmup", Ops # 0
               PROVE  results["measured"] + Cardinality(At("executing")) <= opsDone
    BY DEF BudgetRespected, Inv, Books, CountBound
  <2>1. At("executing") \in SUBSET Pending /\ Pending \in SUBSET Task
    BY DEF Pending, InFlight, Owners, Queued, Granted, Executing, At
  <2>2. /\ IsFiniteSet(Pending) /\ Cardinality(Pending) \in Nat
        /\ Cardinality(At("executing")) \in Nat
    BY <2>1, FiniteAt
  <2>3. Cardinality(At("executing")) <= Cardinality(Pending)
    BY <2>1, <2>2, FS_Subset
  <2>4. /\ Ops > 0 /\ results["measured"] \in Nat /\ opsDone \in Nat
    BY ClosedAssumption DEF ClosedAssumption, Inv, TypeOK, Phase
  <2> QED BY <2>2, <2>3, <2>4 DEF Inv, Books, ReservedFirst
<1> QED BY <1>1, Invariance, PTL

\* A count-only run that stopped because its budget was spent recorded exactly
\* that many results (docs/load-models.md, termination).
StoppedExact == phase = "over" /\ ~Timed /\ stop => results["measured"] = Ops

THEOREM StoppedRunIsExact == Spec => []StoppedExact
<1>1. Inv => StoppedExact
  <2> SUFFICES ASSUME Inv, phase = "over", ~Timed, stop PROVE results["measured"] = Ops
    BY DEF StoppedExact
  <2>1. Pending = {}
    BY DEF Inv, Books, LiveBorn, Pending, InFlight, Owners, Queued, Granted,
           Executing, At
  <2>2. opsDone = results["measured"] /\ opsDone = Ops
    BY <2>1, FS_EmptySet
       DEF Inv, Books, ReservationsKept, CountBound, TypeOK, Phase
  <2> QED BY <2>2
<1> QED BY <1>1, Invariance, PTL

\* Where a task that executes was before: only one that looked at the clock
\* starts to execute.
LEMMA ExecutingSteps ==
  ASSUME TypeOK, [Next]_vars, expired, NEW s \in Task, pc'[s] = "executing"
  PROVE  pc[s] = "executing"
<1> USE DEF TypeOK
<1>1. CASE Tick \/ Over \/ UNCHANGED vars
  BY <1>1 DEF Tick, Over, vars, slotVars
<1>2. CASE EndPhase
  BY <1>2 DEF EndPhase
<1>3. ASSUME NEW t \in Task, LaneStep(t) PROVE pc[s] = "executing"
  <2>1. CASE Return(t) \/ Start(t) \/ Reserve(t) \/ StopAll(t)
    BY <2>1 DEF Return, Start, Reserve, StopAll
  <2>2. CASE Acquire(t) \/ Dispatch(t)
    BY <2>2 DEF Acquire, Dispatch, InTime
  <2>3. CASE Expire(t)
    BY <2>3 DEF Expire, AbandonWait, HandOver
  <2>4. CASE Finish(t)
    BY <2>4 DEF Finish, ReleaseSlot, HandOver
  <2> QED BY <1>3, <2>1, <2>2, <2>3, <2>4 DEF LaneStep
<1> QED BY <1>1, <1>2, <1>3 DEF Next

\* No operation starts once the deadline has passed (_acquire_global_slot checks
\* the clock again after the wait).
THEOREM DispatchInTime == Spec => NoLateDispatch
<1>1. Inv /\ [Next]_vars => [expired => Executing' \subseteq Executing]_vars
  <2> SUFFICES ASSUME Inv, [Next]_vars, expired, NEW s \in Task, pc'[s] = "executing"
               PROVE  pc[s] = "executing"
    BY DEF Executing, At
  <2> QED BY ExecutingSteps DEF Inv
<1> QED BY <1>1, Invariance, PTL DEF Spec, NoLateDispatch

-----------------------------------------------------------------------------
(* What the plans supply.  No operation of a plan is lost: while nobody has *)
(* raised the stop event, each one was reserved or is left in its plan, and *)
(* a lane that is done has none left.                                      *)

SupplyLeft ==
  phase # "warmup" /\ ~Timed =>
    /\ opsDone + SumOf(left, Task) <= SumOf(PlanLength, Task)
    /\ ~stop => /\ opsDone + SumOf(left, Task) = SumOf(PlanLength, Task)
                /\ \A t \in Task : pc[t] = "done" => left[t] = 0

\* The operations left are as many as the plans supply, and one fewer after each take.
LEMMA LeftSum ==
  ASSUME TypeOK
  PROVE  /\ SumOf(left, Task) \in Nat /\ SumOf(PlanLength, Task) \in Nat
         /\ \A t \in Task : left[t] > 0 /\ left' = [left EXCEPT ![t] = @ - 1]
                            => SumOf(left', Task) = SumOf(left, Task) - 1
<1>1. IsFiniteSet(Task) /\ left \in [Task -> Nat] /\ PlanLength \in [Task -> Nat]
  BY SlotAssumption, ClosedAssumption DEF SlotAssumption, ClosedAssumption, TypeOK
<1>2. SumOf(left, Task) \in Nat /\ SumOf(PlanLength, Task) \in Nat
  BY <1>1, SumSplit
<1>3. ASSUME NEW t \in Task, left[t] > 0, left' = [left EXCEPT ![t] = @ - 1]
      PROVE  SumOf(left', Task) = SumOf(left, Task) - 1
  <2>1. /\ \A u \in Task : left[u] \in Nat /\ left'[u] \in Nat
        /\ \A u \in Task \ {t} : left[u] = left'[u]
        /\ left'[t] = left[t] - 1
    BY <1>1, <1>3
  <2>2. SumOf(left', Task) + left[t] = SumOf(left, Task) + left'[t]
    BY <1>1, <2>1, SumChange
  <2>3. SumOf(left', Task) \in Nat
    BY <1>1, <2>1, SumSplit
  <2> QED BY <1>2, <2>1, <2>2, <2>3
<1> QED BY <1>2, <1>3

LEMMA SupplyInit == Init => SupplyLeft
<1> SUFFICES ASSUME Init PROVE SupplyLeft
  OBVIOUS
<1>1. SumOf(PlanLength, Task) \in Nat
  BY InitInv, LeftSum DEF Inv
<1> QED BY <1>1 DEF Init, SupplyLeft

\* The steps of a lane that take no operation.
LEMMA SupplySame ==
  ASSUME SupplyLeft, UNCHANGED <<phase, opsDone, left, stop>>,
         phase # "warmup" /\ ~Timed /\ ~stop =>
           \A t \in Task : pc'[t] = "done" => pc[t] = "done" \/ left[t] = 0
  PROVE  SupplyLeft'
BY DEF SupplyLeft

LEMMA SupplyLane == ASSUME Inv, SupplyLeft, NEW t \in Task, LaneStep(t) PROVE SupplyLeft'
<1>. TypeOK /\ NoClock
  BY DEF Inv, Books
<1>1. CASE Return(t)
  <2>1. UNCHANGED <<phase, opsDone, left, stop>> /\ pc' = [pc EXCEPT ![t] = "done"]
    BY <1>1 DEF Return
  <2>2. phase # "warmup" /\ ~Timed /\ ~stop => left[t] = 0
    BY <1>1 DEF Return, MayReturn, NoClock
  <2> QED BY <2>1, <2>2, SupplySame DEF TypeOK
<1>2. CASE Start(t) \/ Acquire(t)
  <2>1. UNCHANGED <<phase, opsDone, left, stop>>
    BY <1>2 DEF Start, Acquire
  <2>2. \A u \in Task : pc'[u] = "done" => pc[u] = "done"
    BY <1>2 DEF Start, Acquire, AcquireSlot, TypeOK
  <2> QED BY <2>1, <2>2, SupplySame
<1>3. CASE Reserve(t)
  <2>1. /\ left[t] > 0 /\ left' = [left EXCEPT ![t] = @ - 1] /\ UNCHANGED <<phase, stop>>
        /\ opsDone' = IF Budgeted THEN opsDone + 1 ELSE opsDone
        /\ pc[t] = "turn" /\ pc' = [pc EXCEPT ![t] = "reserved"] /\ ~stop
    BY <1>3 DEF Reserve, AtNextOp
  <2>2. SumOf(left', Task) = SumOf(left, Task) - 1 /\ SumOf(left, Task) \in Nat
    BY <2>1, LeftSum
  <2>3. phase # "warmup" /\ ~Timed => Budgeted
    BY <2>1, LiveRuns, ClosedAssumption
       DEF Budgeted, Recording, Phase, ClosedAssumption
  <2>4. \A u \in Task : pc'[u] = "done" => pc[u] = "done" /\ left'[u] = left[u]
    BY <2>1 DEF TypeOK
  <2> QED BY <2>1, <2>2, <2>3, <2>4 DEF SupplyLeft, TypeOK
<1>4. CASE StopAll(t)
  <2>1. /\ left[t] > 0 /\ left' = [left EXCEPT ![t] = @ - 1] /\ UNCHANGED <<phase, opsDone>>
        /\ stop' = TRUE
    BY <1>4 DEF StopAll, AtNextOp
  <2>2. /\ SumOf(left', Task) = SumOf(left, Task) - 1 /\ SumOf(left, Task) \in Nat
        /\ SumOf(PlanLength, Task) \in Nat /\ opsDone \in Nat
    BY <2>1, LeftSum DEF TypeOK
  <2> QED BY <2>1, <2>2 DEF SupplyLeft
<1>5. CASE Dispatch(t) \/ Finish(t)
  <2>1. UNCHANGED <<phase, opsDone, left, stop>>
    BY <1>5 DEF Dispatch, Finish
  <2>2. \A u \in Task \ {t} : pc'[u] # "done" <=> pc[u] # "done"
    BY <1>5, LimitStep DEF Dispatch, Finish
  <2>3. pc'[t] # "done"
    BY <1>5 DEF Dispatch, Finish, ResumeWithSlot, ReleaseSlot, HandOver, TypeOK
  <2> QED BY <2>1, <2>2, <2>3, SupplySame
<1>6. CASE Expire(t)
  <2>1. UNCHANGED <<phase, opsDone, left, stop>> /\ expired
    BY <1>6 DEF Expire
  <2> QED BY <2>1 DEF SupplyLeft, NoClock
<1> QED BY <1>1, <1>2, <1>3, <1>4, <1>5, <1>6 DEF LaneStep

LEMMA SupplyNext == Inv /\ SupplyLeft /\ [Next]_vars => SupplyLeft'
<1> SUFFICES ASSUME Inv, SupplyLeft, [Next]_vars PROVE SupplyLeft'
  OBVIOUS
<1>1. CASE Tick \/ Over \/ UNCHANGED vars
  <2>1. UNCHANGED <<pc, phase, opsDone, left, stop>>
    BY <1>1 DEF Tick, Over, vars, slotVars
  <2> QED BY <2>1, SupplySame
<1>2. CASE EndPhase
  <2>1. CASE phase = "warmup"
    <3>1. /\ opsDone' = 0 /\ left' = PlanLength /\ stop' = FALSE
          /\ \A t \in Task : pc'[t] # "done"
      BY <1>2, <2>1 DEF EndPhase
    <3>2. SumOf(PlanLength, Task) \in Nat
      BY LeftSum DEF Inv
    <3> QED BY <3>1, <3>2 DEF SupplyLeft
  <2>2. CASE phase # "warmup"
    <3>1. UNCHANGED <<pc, opsDone, left, stop>>
      BY <1>2, <2>2 DEF EndPhase
    <3> QED BY <2>2, <3>1 DEF SupplyLeft
  <2> QED BY <2>1, <2>2
<1>3. ASSUME NEW t \in Task, LaneStep(t) PROVE SupplyLeft'
  BY <1>3, SupplyLane
<1> QED BY <1>1, <1>2, <1>3 DEF Next

\* A count-only run records exactly the operations asked for, or all that the plans
\* supply if they are fewer (docs/load-models.md; _reserve_op, _user_loop).
THEOREM ExactlyTheBudget == Spec => []ExactlyOps
<1>1. Spec => []SupplyLeft
  BY SupplyInit, SupplyNext, Invariance, PTL DEF Spec
<1>2. Inv /\ SupplyLeft => ExactlyOps
  <2> SUFFICES ASSUME Inv, SupplyLeft, phase = "over", ~Timed
               PROVE  results["measured"] = IF Ops <= SumOf(PlanLength, Task) THEN Ops
                                            ELSE SumOf(PlanLength, Task)
    BY DEF ExactlyOps, Supply, SumOf
  <2>1. \A t \in Task : pc[t] = "done"
    BY DEF Inv, Books, LiveBorn
  <2>2. Pending = {}
    BY <2>1 DEF Pending, InFlight, Owners, Queued, Granted, Executing, At
  <2>3. opsDone = results["measured"] /\ results["measured"] \in Nat
    BY <2>2, FS_EmptySet DEF Inv, Books, ReservationsKept, TypeOK, Phase
  <2>4. /\ Ops \in Nat /\ Ops > 0 /\ SumOf(left, Task) \in Nat
        /\ SumOf(PlanLength, Task) \in Nat
    BY LeftSum, ClosedAssumption DEF ClosedAssumption, Inv
  <2>5. CASE stop
    BY <2>3, <2>4, <2>5 DEF Inv, Books, CountBound, SupplyLeft
  <2>6. CASE ~stop
    <3>1. \A t \in Task : left[t] = 0
      BY <2>1, <2>6 DEF SupplyLeft
    <3>2. SumOf(left, Task) = 0
      BY <3>1, SumZero, SlotAssumption DEF SlotAssumption
    <3> QED BY <2>3, <2>4, <2>6, <3>2 DEF Inv, Books, CountBound, SupplyLeft
  <2> QED BY <2>5, <2>6
<1> QED BY <1>1, <1>2, Invariance, PTL

-----------------------------------------------------------------------------
(* The refinement: with a budget, every step issues one operation of it,   *)
(* finishes one that was issued, or leaves both counts as they are.        *)

LEMMA BudgetStep ==
  ASSUME Ops > 0, Inv, [Next]_vars
  PROVE  [Budget!Issue \/ Budget!Finish]_(Budget!vars)
<1>1. /\ opsDone \in Nat /\ Ops \in Nat /\ results \in [Phase -> Nat]
      /\ phase \in Phase \cup {"over"} /\ born \in [Task -> Phase]
  BY ClosedAssumption DEF ClosedAssumption, Inv, TypeOK
<1>2. CASE Tick \/ Over \/ UNCHANGED vars
  BY <1>2 DEF Tick, Over, vars, slotVars, Budget!vars
<1>3. CASE EndPhase
  BY <1>3 DEF EndPhase, Budget!vars, Inv, Books, WarmupApart
<1>4. ASSUME NEW t \in Task, LaneStep(t)
      PROVE  [Budget!Issue \/ Budget!Finish]_(Budget!vars)
  <2>1. CASE Return(t) \/ Start(t) \/ StopAll(t) \/ Acquire(t) \/ Dispatch(t) \/ Expire(t)
    BY <2>1 DEF Return, Start, StopAll, Acquire, Dispatch, Expire, Budget!vars
  <2>2. CASE Reserve(t)
    BY <1>1, <2>2 DEF Reserve, BudgetSpent, Budgeted, Recording, Budget!vars, Budget!Issue
  <2>3. CASE Finish(t)
    <3>1. CASE Recording
      <4>1. born[t] = "measured" /\ "measured" \in Phase
        BY <2>3, <3>1 DEF Finish, Recording, Inv, Books, LiveBorn, Phase
      <4>2. t \in Pending
        BY <2>3 DEF Finish, Pending, InFlight, Owners, Executing, At
      <4>3. Cardinality(Pending) \in Nat /\ Cardinality(Pending) > 0
        BY <4>2, PendingCount
      <4>4. results["measured"] \in Nat /\ results["measured"] < opsDone
        BY <1>1, <3>1, <4>1, <4>3 DEF Recording, Inv, Books, ReservedFirst
      <4>5. results'["measured"] = results["measured"] + 1 /\ opsDone' = opsDone
        BY <1>1, <2>3, <3>1, <4>1 DEF Finish
      <4> QED BY <4>4, <4>5 DEF Budget!Finish
    <3>2. CASE ~Recording
      BY <2>3, <3>2 DEF Finish, Budget!vars
    <3> QED BY <3>1, <3>2
  <2> QED BY <1>4, <2>1, <2>2, <2>3 DEF LaneStep
<1> QED BY <1>2, <1>3, <1>4 DEF Next

\* A run with --ops N implements the budget of OperationBudget, up to liveness: also
\* with a deadline, it never issues more than N operations (_reserve_op), nor records
\* one that was not issued (_user_loop).
THEOREM BudgetImplemented == ASSUME Ops > 0 PROVE Spec => Budget!Spec
<1>1. Init => Budget!Init
  BY DEF Init, Budget!Init, Phase
<1>2. Inv /\ [Next]_vars => [Budget!Issue \/ Budget!Finish]_(Budget!vars)
  BY BudgetStep
<1> QED BY <1>1, <1>2, Invariance, PTL DEF Spec, Budget!Spec
=============================================================================
