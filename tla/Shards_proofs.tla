----------------------------- MODULE Shards_proofs -----------------------------
(***************************************************************************)
(* Proofs about the processes of a run.  How the load is divided among     *)
(* them (ShardBudget), for every number of users and processes and every   *)
(* budget: the users are partitioned, the shares add up to what was asked  *)
(* for and are divided evenly, a group of the profile has the users that   *)
(* the parent reports, a process refuses its share only if there are fewer *)
(* operations than processes, and none is without a cap if there are       *)
(* enough places for all.  And how they begin and end their measured phase *)
(* together (MeasureBarrier): a result is always covered by the measured   *)
(* window (BarrierWindow), with failing hooks and killed workers.          *)
(***************************************************************************)
EXTENDS ShardBudget, BarrierWindow, FiniteSetTheorems, WellFoundedInduction, TLAPS

CONSTANTS HooksMayFail, ShardsMayDie
VARIABLES queue, released, arrived

Barrier == INSTANCE MeasureBarrier

-----------------------------------------------------------------------------
(* Sums over finite sets.  What the fold is for a set of any size is shown  *)
(* by a smallest set for which it is not.                                   *)

LEMMA SmallestSet ==
  ASSUME NEW D, D # {}, \A s \in D : IsFiniteSet(s)
  PROVE  \E s \in D : \A u \in D : u \subseteq s => u = s
<1> DEFINE S == UNION D
           R == StrictSubsetOrdering(S)
<1>1. IsWellFoundedOn(R, FiniteSubsetsOf(S))
  BY FS_StrictSubsetOrderingWellFounded
<1>2. D \subseteq FiniteSubsetsOf(S)
  BY DEF FiniteSubsetsOf
<1>3. \E x \in D : \A y \in D : ~(<<y, x>> \in R)
  <2> HIDE DEF R
  <2> QED BY <1>1, <1>2, WFMin
<1>4. ASSUME NEW x \in D, NEW y \in D, ~(<<y, x>> \in R), y \subseteq x PROVE y = x
  BY <1>4, SMT DEF StrictSubsetOrdering
<1> QED BY <1>3, <1>4

LEMMA LeastNumber ==
  ASSUME NEW N, N \subseteq Nat, N # {}
  PROVE  \E n \in N : \A m \in N : n <= m
<1> DEFINE D == {1 .. n : n \in N}
<1>1. D # {} /\ \A s \in D : IsFiniteSet(s)
  <2>1. D # {}
    OBVIOUS
  <2>2. \A n \in N : IsFiniteSet(1 .. n)
    BY FS_Interval
  <2> QED BY <2>1, <2>2
<1>2. PICK s \in D : \A u \in D : u \subseteq s => u = s
  <2> HIDE DEF D
  <2> QED BY <1>1, SmallestSet
<1>3. PICK n \in N : s = 1 .. n
  OBVIOUS
<1>4. ASSUME NEW m \in N, m < n PROVE FALSE
  <2>1. 1 .. m \in D /\ 1 .. m \subseteq s
    BY <1>3, <1>4
  <2>2. 1 .. m = s
    BY <1>2, <2>1
  <2>3. n \in s /\ n \notin 1 .. m
    BY <1>3, <1>4
  <2> QED BY <2>2, <2>3
<1> QED BY <1>4

SumOf(f, S) == MapThenSumSet(LAMBDA x : f[x], S)
One(S) == CHOOSE x \in S : TRUE

\* The equation of the fold over the sets of family F.
Partial(g, f, F) == \A s \in F : g[s] = IF s = {} THEN 0 ELSE f[One(s)] + g[s \ {One(s)}]

\* For the subsets of at most n elements it has a solution.
LEMMA PartialSums ==
  ASSUME NEW S, IsFiniteSet(S), NEW f, NEW n \in Nat
  PROVE  \E g : /\ g = [s \in SUBSET S |-> g[s]]
                /\ Partial(g, f, {s \in SUBSET S : Cardinality(s) <= n})
<1> DEFINE Upto(m) == {s \in SUBSET S : Cardinality(s) <= m}
           Good(m) == \E g : g = [s \in SUBSET S |-> g[s]] /\ Partial(g, f, Upto(m))
           Bad == {m \in Nat : ~Good(m)}
<1>1. SUFFICES ASSUME Bad # {} PROVE FALSE
  OBVIOUS
<1>2. PICK m \in Bad : \A k \in Bad : m <= k
  <2>1. Bad \subseteq Nat
    OBVIOUS
  <2> HIDE DEF Bad
  <2> QED BY <1>1, <2>1, LeastNumber
<1>3. \A s \in SUBSET S : IsFiniteSet(s) /\ Cardinality(s) \in Nat /\ (Cardinality(s) = 0 <=> s = {})
  BY FS_Subset, FS_EmptySet, FS_CardinalityType
<1>4. CASE m = 0
  <2> DEFINE g == [s \in SUBSET S |-> 0]
  <2>1. g = [s \in SUBSET S |-> g[s]]
    OBVIOUS
  <2>2. \A s \in Upto(0) : s = {}
    BY <1>3
  <2>3. Partial(g, f, Upto(0))
    BY <2>2 DEF Partial
  <2> HIDE DEF g
  <2> QED BY <1>4, <2>1, <2>3
<1>5. CASE m > 0
  <2>1. m - 1 \in Nat /\ m - 1 \notin Bad
    <3>1. m \in Nat
      OBVIOUS
    <3> HIDE DEF Bad
    <3> QED BY <1>2, <1>5, <3>1
  <2>2. PICK g : g = [s \in SUBSET S |-> g[s]] /\ Partial(g, f, Upto(m - 1))
    BY <2>1
  <2> DEFINE h == [s \in SUBSET S |-> IF s = {} THEN 0 ELSE f[One(s)] + g[s \ {One(s)}]]
  <2>3. h = [s \in SUBSET S |-> h[s]]
    OBVIOUS
  <2>4. ASSUME NEW s \in Upto(m), s # {} PROVE g[s \ {One(s)}] = h[s \ {One(s)}]
    <3>1. One(s) \in s /\ s \in SUBSET S
      BY <2>4 DEF One
    <3>2. /\ Cardinality(s \ {One(s)}) = Cardinality(s) - 1
      BY <1>3, <3>1, FS_RemoveElement
    <3>3. s \ {One(s)} \in Upto(m - 1)
      BY <1>3, <1>2, <3>1, <3>2
    <3> QED BY <2>2, <3>3 DEF Partial
  <2>5. Partial(h, f, Upto(m))
    <3> SUFFICES ASSUME NEW s \in Upto(m)
                 PROVE h[s] = IF s = {} THEN 0 ELSE f[One(s)] + h[s \ {One(s)}]
      BY DEF Partial
    <3>1. h[s] = IF s = {} THEN 0 ELSE f[One(s)] + g[s \ {One(s)}]
      OBVIOUS
    <3> HIDE DEF h
    <3> QED BY <2>4, <3>1
  <2> HIDE DEF h
  <2> QED BY <2>3, <2>5
<1> QED BY <1>2, <1>4, <1>5

\* The fold is the value of one solution on all subsets.
LEMMA SumSolution ==
  ASSUME NEW S, IsFiniteSet(S), NEW f
  PROVE  \E g : Partial(g, f, SUBSET S) /\ SumOf(f, S) = g[S]
<1> DEFINE Eqn(g) == g = [s \in SUBSET S |->
                            IF s = {} THEN 0 ELSE f[CHOOSE x \in s : TRUE]
                                                  + g[s \ {CHOOSE x \in s : TRUE}]]
           it == CHOOSE g : Eqn(g)
<1>1. \E g : Eqn(g)
  <2>1. Cardinality(S) \in Nat /\ \A s \in SUBSET S : Cardinality(s) <= Cardinality(S)
    BY FS_CardinalityType, FS_Subset
  <2>2. {s \in SUBSET S : Cardinality(s) <= Cardinality(S)} = SUBSET S
    BY <2>1
  <2>3. PICK g : /\ g = [s \in SUBSET S |-> g[s]]
                 /\ Partial(g, f, {s \in SUBSET S : Cardinality(s) <= Cardinality(S)})
    BY <2>1, PartialSums
  <2>4. Eqn(g)
    BY <2>2, <2>3 DEF Partial, One
  <2> QED BY <2>4
<1>2. Eqn(it)
  <2> HIDE DEF Eqn
  <2> QED BY <1>1, Zenon
<1>3. SumOf(f, S) = it[S]
  BY DEF SumOf, MapThenSumSet, MapThenFoldSet
<1>4. Partial(it, f, SUBSET S)
  <2> HIDE DEF it
  <2> QED BY <1>2 DEF Partial, One
<1> QED BY <1>3, <1>4

\* Two solutions agree wherever both are one, also for functions that agree.
LEMMA SolutionsAgree ==
  ASSUME NEW S, IsFiniteSet(S), NEW f, NEW h, \A x \in S : f[x] = h[x],
         NEW a, NEW b, Partial(a, f, SUBSET S), Partial(b, h, SUBSET S)
  PROVE  a[S] = b[S]
<1> DEFINE D == {s \in SUBSET S : a[s] # b[s]}
<1> SUFFICES ASSUME D # {} PROVE FALSE
  OBVIOUS
<1>1. \A s \in D : IsFiniteSet(s)
  BY FS_Subset
<1>2. PICK s \in D : \A u \in D : u \subseteq s => u = s
  <2> HIDE DEF D
  <2> QED BY <1>1, SmallestSet
<1>3. s \in SUBSET S /\ a[s] # b[s]
  OBVIOUS
<1>4. s # {}
  BY <1>3 DEF Partial
<1>5. One(s) \in s
  BY <1>4 DEF One
<1>6. s \ {One(s)} \in SUBSET S /\ s \ {One(s)} \notin D
  BY <1>2, <1>5
<1>7. a[s \ {One(s)}] = b[s \ {One(s)}] /\ f[One(s)] = h[One(s)]
  BY <1>3, <1>5, <1>6
<1> HIDE DEF D
<1> QED BY <1>3, <1>4, <1>7 DEF Partial

LEMMA SumSame ==
  ASSUME NEW S, IsFiniteSet(S), NEW f, NEW h, \A x \in S : f[x] = h[x]
  PROVE  SumOf(f, S) = SumOf(h, S)
<1>1. PICK a : Partial(a, f, SUBSET S) /\ SumOf(f, S) = a[S]
  BY SumSolution
<1>2. PICK b : Partial(b, h, SUBSET S) /\ SumOf(h, S) = b[S]
  BY SumSolution
<1> QED BY <1>1, <1>2, SolutionsAgree

LEMMA SumEmpty == ASSUME NEW f PROVE SumOf(f, {}) = 0
BY SumSolution, FS_EmptySet DEF Partial

LEMMA SumChosen ==
  ASSUME NEW S, IsFiniteSet(S), S # {}, NEW f
  PROVE  One(S) \in S /\ SumOf(f, S) = f[One(S)] + SumOf(f, S \ {One(S)})
<1>1. One(S) \in S
  BY DEF One
<1> DEFINE T == S \ {One(S)}
<1>2. IsFiniteSet(T) /\ T \subseteq S
  BY FS_Subset
<1>3. PICK g : Partial(g, f, SUBSET S) /\ SumOf(f, S) = g[S]
  BY SumSolution
<1>4. PICK k : Partial(k, f, SUBSET T) /\ SumOf(f, T) = k[T]
  BY <1>2, SumSolution
<1>5. Partial(g, f, SUBSET T)
  BY <1>2, <1>3 DEF Partial
<1>6. g[T] = k[T]
  BY <1>2, <1>4, <1>5, SolutionsAgree
<1>7. g[S] = f[One(S)] + g[T]
  BY <1>3 DEF Partial
<1> QED BY <1>1, <1>3, <1>4, <1>6, <1>7

\* A sum of naturals, taken apart at any of its elements.
LEMMA SumSplit ==
  ASSUME NEW S, IsFiniteSet(S), NEW f, \A x \in S : f[x] \in Nat
  PROVE  /\ SumOf(f, S) \in Nat
         /\ \A x \in S : SumOf(f, S) = f[x] + SumOf(f, S \ {x})
<1> DEFINE Apart(s) == /\ SumOf(f, s) \in Nat
                       /\ \A x \in s : SumOf(f, s) = f[x] + SumOf(f, s \ {x})
           D == {s \in SUBSET S : ~Apart(s)}
<1> SUFFICES ASSUME D # {} PROVE FALSE
  OBVIOUS
<1>1. \A s \in SUBSET S : IsFiniteSet(s)
  BY FS_Subset
<1>2. PICK s \in D : \A u \in D : u \subseteq s => u = s
  <2>1. \A t \in D : IsFiniteSet(t)
    BY <1>1
  <2> HIDE DEF D
  <2> QED BY <2>1, SmallestSet
<1>3. s \in SUBSET S /\ ~Apart(s) /\ IsFiniteSet(s)
  BY <1>1
<1>4. ASSUME NEW u \in SUBSET s, u # s PROVE Apart(u)
  <2>1. u \in SUBSET S /\ u \notin D
    BY <1>2, <1>3, <1>4
  <2> HIDE DEF Apart
  <2> QED BY <2>1
<1> HIDE DEF D
<1>5. CASE s = {}
  BY <1>3, <1>5, SumEmpty
<1>6. CASE s # {}
  <2> DEFINE c == One(s)
  <2>1. c \in s /\ SumOf(f, s) = f[c] + SumOf(f, s \ {c})
    BY <1>3, <1>6, SumChosen
  <2> HIDE DEF c
  <2>2. Apart(s \ {c})
    BY <1>4, <2>1
  <2>3. SumOf(f, s) \in Nat
    BY <1>3, <2>1, <2>2
  <2>4. ASSUME NEW x \in s, x # c PROVE SumOf(f, s) = f[x] + SumOf(f, s \ {x})
    <3>1. Apart(s \ {x})
      BY <1>4
    <3>2. x \in s \ {c} /\ c \in s \ {x}
      BY <2>1, <2>4
    <3>3. (s \ {c}) \ {x} = (s \ {x}) \ {c} /\ (s \ {c}) \ {x} # s
      BY <2>1
    <3>4. SumOf(f, s \ {c}) = f[x] + SumOf(f, (s \ {c}) \ {x})
      BY <2>2, <3>2
    <3>5. SumOf(f, s \ {x}) = f[c] + SumOf(f, (s \ {c}) \ {x})
      BY <3>1, <3>2, <3>3
    <3>6. SumOf(f, (s \ {c}) \ {x}) \in Nat
      BY <1>4, <3>3
    <3>7. f[x] \in Nat /\ f[c] \in Nat
      BY <1>3, <2>1
    <3> QED BY <2>1, <3>4, <3>5, <3>6, <3>7
  <2> QED BY <1>3, <2>1, <2>3, <2>4
<1> QED BY <1>5, <1>6

\* Sums of two functions, of multiples, and of indicators.
LEMMA SumPlus ==
  ASSUME NEW S, IsFiniteSet(S), NEW f, NEW g, NEW h,
         \A x \in S : f[x] \in Nat /\ g[x] \in Nat /\ h[x] = f[x] + g[x]
  PROVE  SumOf(h, S) = SumOf(f, S) + SumOf(g, S)
<1> DEFINE D == {s \in SUBSET S : SumOf(h, s) # SumOf(f, s) + SumOf(g, s)}
<1> SUFFICES ASSUME D # {} PROVE FALSE
  OBVIOUS
<1>1. \A s \in SUBSET S : IsFiniteSet(s)
  BY FS_Subset
<1>2. PICK s \in D : \A u \in D : u \subseteq s => u = s
  <2>1. \A t \in D : IsFiniteSet(t)
    BY <1>1
  <2> HIDE DEF D
  <2> QED BY <2>1, SmallestSet
<1>3. s \in SUBSET S /\ SumOf(h, s) # SumOf(f, s) + SumOf(g, s)
  OBVIOUS
<1>4. s # {}
  <2>1. SumOf(f, {}) = 0 /\ SumOf(g, {}) = 0 /\ SumOf(h, {}) = 0
    BY SumEmpty
  <2>2. SumOf(h, {}) = SumOf(f, {}) + SumOf(g, {})
    BY <2>1
  <2> HIDE DEF D
  <2> QED BY <1>3, <2>2
<1> DEFINE c == One(s)
           r == s \ {c}
<1>5. c \in s /\ r \in SUBSET S /\ r # s
  BY <1>3, <1>4 DEF One
<1>6. r \notin D
  BY <1>2, <1>5
<1>7. SumOf(h, r) = SumOf(f, r) + SumOf(g, r)
  BY <1>5, <1>6
<1>8. /\ SumOf(h, s) = h[c] + SumOf(h, r) /\ SumOf(f, s) = f[c] + SumOf(f, r)
      /\ SumOf(g, s) = g[c] + SumOf(g, r)
  BY <1>1, <1>3, <1>4, SumChosen
<1>9. SumOf(f, r) \in Nat /\ SumOf(g, r) \in Nat
  BY <1>1, <1>5, SumSplit
<1>10. h[c] = f[c] + g[c] /\ f[c] \in Nat /\ g[c] \in Nat
  BY <1>3, <1>5
<1> HIDE DEF c, r, D
<1> QED BY <1>3, <1>7, <1>8, <1>9, <1>10

LEMMA SumTimes ==
  ASSUME NEW S, IsFiniteSet(S), NEW f, NEW h, NEW m \in Nat,
         \A x \in S : f[x] \in Nat /\ h[x] = m * f[x]
  PROVE  SumOf(h, S) = m * SumOf(f, S)
<1> DEFINE D == {s \in SUBSET S : SumOf(h, s) # m * SumOf(f, s)}
<1> SUFFICES ASSUME D # {} PROVE FALSE
  OBVIOUS
<1>1. \A s \in SUBSET S : IsFiniteSet(s)
  BY FS_Subset
<1>2. PICK s \in D : \A u \in D : u \subseteq s => u = s
  <2>1. \A t \in D : IsFiniteSet(t)
    BY <1>1
  <2> HIDE DEF D
  <2> QED BY <2>1, SmallestSet
<1>3. s \in SUBSET S /\ SumOf(h, s) # m * SumOf(f, s)
  OBVIOUS
<1>4. s # {}
  BY <1>3, SumEmpty
<1> DEFINE c == One(s)
           r == s \ {c}
<1>5. c \in s /\ r \in SUBSET S /\ r # s
  BY <1>3, <1>4 DEF One
<1>6. r \notin D
  BY <1>2, <1>5
<1>7. SumOf(h, r) = m * SumOf(f, r)
  BY <1>5, <1>6
<1>8. SumOf(h, s) = h[c] + SumOf(h, r) /\ SumOf(f, s) = f[c] + SumOf(f, r)
  BY <1>1, <1>3, <1>4, SumChosen
<1>9. SumOf(f, r) \in Nat
  BY <1>1, <1>5, SumSplit
<1>10. h[c] = m * f[c] /\ f[c] \in Nat
  BY <1>3, <1>5
<1>11. ASSUME NEW x \in Nat, NEW y \in Nat PROVE m * (x + y) = m * x + m * y
  OBVIOUS
<1> HIDE DEF c, r, D
<1> QED BY <1>3, <1>7, <1>8, <1>9, <1>10, <1>11

LEMMA SumCount ==
  ASSUME NEW S, IsFiniteSet(S), NEW T, NEW f, \A x \in S : f[x] = IF x \in T THEN 1 ELSE 0
  PROVE  SumOf(f, S) = Cardinality(S \cap T)
<1> DEFINE D == {s \in SUBSET S : SumOf(f, s) # Cardinality(s \cap T)}
<1> SUFFICES ASSUME D # {} PROVE FALSE
  OBVIOUS
<1>1. \A s \in SUBSET S : IsFiniteSet(s) /\ IsFiniteSet(s \cap T)
  BY FS_Subset
<1>2. PICK s \in D : \A u \in D : u \subseteq s => u = s
  <2>1. \A t \in D : IsFiniteSet(t)
    BY <1>1
  <2> HIDE DEF D
  <2> QED BY <2>1, SmallestSet
<1>3. s \in SUBSET S /\ SumOf(f, s) # Cardinality(s \cap T)
  OBVIOUS
<1>4. s # {}
  BY <1>3, SumEmpty, FS_EmptySet
<1> DEFINE c == One(s)
           r == s \ {c}
<1>5. c \in s /\ r \in SUBSET S /\ r # s
  BY <1>3, <1>4 DEF One
<1>6. r \notin D
  BY <1>2, <1>5
<1>7. SumOf(f, r) = Cardinality(r \cap T)
  BY <1>5, <1>6
<1>8. SumOf(f, s) = f[c] + SumOf(f, r)
  BY <1>1, <1>3, <1>4, SumChosen
<1>9. IsFiniteSet(r \cap T) /\ Cardinality(r \cap T) \in Nat
  BY <1>1, <1>5, FS_CardinalityType
<1>10. f[c] = IF c \in T THEN 1 ELSE 0
  BY <1>3, <1>5
<1>11. CASE c \in T
  <2>1. s \cap T = (r \cap T) \cup {c} /\ c \notin r \cap T
    BY <1>5, <1>11
  <2>2. Cardinality(s \cap T) = Cardinality(r \cap T) + 1
    BY <1>9, <2>1, FS_AddElement
  <2> HIDE DEF c, r, D
  <2> QED BY <1>3, <1>7, <1>8, <1>9, <1>10, <1>11, <2>2
<1>12. CASE c \notin T
  <2>1. s \cap T = r \cap T
    BY <1>5, <1>12
  <2> HIDE DEF c, r, D
  <2> QED BY <1>3, <1>7, <1>8, <1>9, <1>10, <1>12, <2>1
<1> QED BY <1>11, <1>12

\* A sum of larger summands.
LEMMA SumMonotone ==
  ASSUME NEW S, IsFiniteSet(S), NEW f, NEW h,
         \A x \in S : f[x] \in Nat /\ h[x] \in Nat /\ f[x] <= h[x]
  PROVE  SumOf(f, S) <= SumOf(h, S)
<1> DEFINE d == [x \in S |-> h[x] - f[x]]
<1>1. \A x \in S : d[x] \in Nat /\ h[x] = f[x] + d[x]
  OBVIOUS
<1>2. SumOf(h, S) = SumOf(f, S) + SumOf(d, S)
  <2> HIDE DEF d
  <2> QED BY <1>1, SumPlus
<1>3. SumOf(f, S) \in Nat /\ SumOf(d, S) \in Nat
  <2> HIDE DEF d
  <2> QED BY <1>1, SumSplit
<1> QED BY <1>2, <1>3

-----------------------------------------------------------------------------
(* Ranks in a finite set with a strict order, before[x] being what precedes x. *)

Ordered(S, before) ==
  /\ \A x \in S : before[x] \in SUBSET (S \ {x})
  /\ \A x, y \in S : x # y => x \in before[y] \/ y \in before[x]
  /\ \A x, y \in S : x \in before[y] => before[x] \subseteq before[y]

\* Each place is that of one element.
LEMMA RankBijective ==
  ASSUME NEW S, IsFiniteSet(S), NEW before, Ordered(S, before)
  PROVE  /\ \A x \in S : Cardinality(before[x]) \in 0 .. Cardinality(S) - 1
         /\ \A x, y \in S : Cardinality(before[x]) = Cardinality(before[y]) => x = y
         /\ \A i \in 0 .. Cardinality(S) - 1 : \E x \in S : Cardinality(before[x]) = i
<1> DEFINE N == Cardinality(S)
           Rank(x) == Cardinality(before[x])
           rank == [x \in S |-> Rank(x)]
<1>1. N \in Nat
  BY FS_CardinalityType
<1>2. \A x \in S : IsFiniteSet(before[x]) /\ Rank(x) \in Nat
  BY FS_Subset, FS_CardinalityType DEF Ordered
<1>3. ASSUME NEW x \in S PROVE Rank(x) \in 0 .. N - 1
  <2>1. x \notin before[x] /\ before[x] \cup {x} \in SUBSET S
    BY DEF Ordered
  <2>2. Cardinality(before[x] \cup {x}) = Rank(x) + 1
    BY <1>2, <2>1, FS_AddElement
  <2>3. Cardinality(before[x] \cup {x}) <= N
    BY <2>1, FS_Subset
  <2> QED BY <1>1, <1>2, <2>2, <2>3
<1>4. ASSUME NEW x \in S, NEW y \in S, x \in before[y] PROVE Rank(x) < Rank(y)
  <2>1. x \notin before[x] /\ before[x] \cup {x} \in SUBSET before[y]
    BY <1>4 DEF Ordered
  <2>2. Cardinality(before[x] \cup {x}) = Rank(x) + 1
    BY <1>2, <2>1, FS_AddElement
  <2>3. Cardinality(before[x] \cup {x}) <= Rank(y)
    BY <1>2, <2>1, FS_Subset
  <2> QED BY <1>2, <2>2, <2>3
<1>5. ASSUME NEW x \in S, NEW y \in S, Rank(x) = Rank(y) PROVE x = y
  <2> SUFFICES ASSUME x # y PROVE FALSE
    OBVIOUS
  <2>1. x \in before[y] \/ y \in before[x]
    BY DEF Ordered
  <2>2. Rank(x) < Rank(y) \/ Rank(y) < Rank(x)
    BY <1>4, <2>1
  <2> HIDE DEF Rank
  <2> QED BY <1>2, <1>5, <2>2
<1>6. rank \in Injection(S, 0 .. N - 1)
  <2> HIDE DEF Rank
  <2> QED BY <1>3, <1>5 DEF Injection, IsInjective
<1>7. IsFiniteSet(0 .. N - 1) /\ Cardinality(0 .. N - 1) = N
  BY <1>1, FS_Interval
<1>8. rank \in Surjection(S, 0 .. N - 1)
  <2> HIDE DEF rank
  <2> QED BY <1>6, <1>7, FS_Injection
<1> QED BY <1>3, <1>5, <1>8 DEF Surjection

\* As many elements are in a range of places as the range has places.
LEMMA RankCount ==
  ASSUME NEW S, IsFiniteSet(S), NEW before, Ordered(S, before),
         NEW a \in Nat, NEW b \in Nat, a <= b, b <= Cardinality(S)
  PROVE  Cardinality({x \in S : a <= Cardinality(before[x]) /\ Cardinality(before[x]) < b}) = b - a
<1> DEFINE T == {x \in S : a <= Cardinality(before[x]) /\ Cardinality(before[x]) < b}
           rank == [x \in T |-> Cardinality(before[x])]
<1>1. Cardinality(S) \in Nat /\ IsFiniteSet(T)
  BY FS_CardinalityType, FS_Subset
<1>2. rank \in [T -> a .. b - 1]
  BY RankBijective
<1>3. ASSUME NEW i \in a .. b - 1 PROVE \E x \in T : rank[x] = i
  <2>1. i \in 0 .. Cardinality(S) - 1
    BY <1>1
  <2> QED BY <2>1, RankBijective
<1>4. rank \in Surjection(T, a .. b - 1)
  <2> HIDE DEF rank, T
  <2> QED BY <1>2, <1>3 DEF Surjection
<1>5. rank \in Injection(T, a .. b - 1)
  <2>1. \A x, y \in T : rank[x] = rank[y] => x = y
    BY RankBijective
  <2> HIDE DEF rank, T
  <2> QED BY <1>2, <2>1 DEF Injection, IsInjective
<1>6. Cardinality(T) = Cardinality(a .. b - 1)
  <2> HIDE DEF rank, T
  <2> QED BY <1>1, <1>4, <1>5, FS_Surjection
<1>7. Cardinality(a .. b - 1) = b - a
  <2>1. Cardinality(a .. b - 1) = IF a > b - 1 THEN 0 ELSE (b - 1) - a + 1
    BY FS_Interval
  <2> QED BY <2>1
<1> QED BY <1>6, <1>7

-----------------------------------------------------------------------------
(* The shares. *)

\* A process is pending, or has its share, or has refused it with a reason; one that has
\* no share has no users and has worked out no groups.
Decided == \A i \in Procs :
             \/ share[i] = Pending /\ users[i] = {} /\ groups[i] = <<>>
             \/ /\ share[i] = Refused /\ ~Valid(args, RunConfig(args, i))
                /\ users[i] = {} /\ groups[i] = <<>>
             \/ /\ share[i] = RunConfig(args, i) /\ users[i] = ShardUsers(args, i)
                /\ groups[i] = Assigned(i)

Types == /\ args \in Args
         /\ args.users \in Nat \ {0} /\ args.procs \in Nat \ {0} /\ args.timed \in BOOLEAN
         /\ args.ops \in Nat /\ args.cap \in Nat /\ args.queue \in Nat
         /\ args.profile \in Profiles /\ args.shuffle \in Shuffles(args.users)
         /\ DOMAIN share = Procs /\ DOMAIN users = Procs /\ DOMAIN groups = Procs

Inv == Types /\ Valid(args, RunConfig(args, 0)) /\ Decided

\* The three states of a share are told apart by their state.
LEMMA States ==
  ASSUME NEW a, NEW i
  PROVE  /\ Pending.state = "pending" /\ Refused.state = "refused"
         /\ RunConfig(a, i).state = "built" /\ RunConfig(a, i).ops = Split(a.ops, a.procs, i)
         /\ RunConfig(a, i).cap = Split(a.cap, a.procs, i)
         /\ RunConfig(a, i).queue = Split(a.queue, a.procs, i)
BY DEF Pending, Refused, RunConfig

\* Quotient and remainder.
LEMMA Division ==
  ASSUME NEW a \in Nat, NEW n \in Nat \ {0}
  PROVE  /\ a \div n \in Nat /\ a % n \in 0 .. n - 1
         /\ a \div n = 0 => a < n /\ a % n = a
         /\ a >= n => a \div n > 0
OBVIOUS

\* A share of zero: nothing was asked for, or less than one for each process.
LEMMA ZeroShare ==
  ASSUME NEW total \in Nat, NEW procs \in Nat \ {0}, NEW i \in 0 .. procs - 1
  PROVE  /\ Split(total, procs, i) \in Nat
         /\ Split(total, procs, i) = 0 => total < procs
         /\ total >= procs => Split(total, procs, i) > 0
BY Division DEF Split

\* Division with remainder: there is one way to divide.
LEMMA Scale ==
  ASSUME NEW n \in Nat, NEW x \in Int, NEW y \in Int, x <= y
  PROVE  n * x <= n * y
OBVIOUS

LEMMA OneDivision ==
  ASSUME NEW n \in Nat \ {0}, NEW q \in Int, NEW p \in Int, NEW r \in Int, NEW s \in Int,
         n * q + r = n * p + s, 0 <= r, r < n, 0 <= s, s < n
  PROVE  q = p /\ r = s
<1>1. ASSUME NEW x \in Int, NEW y \in Int, x + 1 <= y PROVE n * x + n <= n * y
  <2>1. n * (x + 1) <= n * y
    BY <1>1, Scale
  <2>2. n * (x + 1) = n * x + n
    OBVIOUS
  <2> QED BY <2>1, <2>2
<1>2. n * q \in Int /\ n * p \in Int
  OBVIOUS
<1>3. ~(q + 1 <= p)
  BY <1>1, <1>2
<1>4. ~(p + 1 <= q)
  BY <1>1, <1>2
<1> QED BY <1>2, <1>3, <1>4

LEMMA DivMod ==
  ASSUME NEW a \in Nat, NEW n \in Nat \ {0}
  PROVE  /\ a \div n \in Nat /\ a % n \in Nat /\ a % n < n
         /\ a = n * (a \div n) + (a % n)
<1>1. a \div n \in Nat /\ a % n \in 0 .. n - 1
  OBVIOUS
<1>2. a = n * (a \div n) + (a % n)
  OBVIOUS
<1> QED BY <1>1, <1>2

LEMMA NextResidue ==
  ASSUME NEW a \in Nat, NEW n \in Nat \ {0}
  PROVE  (a + 1) % n = IF a % n = n - 1 THEN 0 ELSE (a % n) + 1
<1> DEFINE q == a \div n
           r == a % n
           p == (a + 1) \div n
           s == (a + 1) % n
<1>1. q \in Nat /\ r \in Nat /\ r < n /\ a = n * q + r
  BY DivMod
<1>2. p \in Nat /\ s \in Nat /\ s < n /\ a + 1 = n * p + s
  BY DivMod
<1> HIDE DEF q, r, p, s
<1>3. n * (q + 1) = n * q + n
  BY <1>1
<1>4. CASE r = n - 1
  <2>1. n * p + s = n * (q + 1) + 0
    BY <1>1, <1>2, <1>3, <1>4
  <2>2. q + 1 \in Int /\ p \in Int /\ s \in Int /\ 0 <= s
    BY <1>1, <1>2
  <2>3. s = 0
    BY <1>1, <1>2, <2>1, <2>2, OneDivision
  <2> QED BY <1>4, <2>3 DEF s, r
<1>5. CASE r # n - 1
  <2> DEFINE t == r + 1
  <2>1. n * q + t = n * p + s /\ t < n
    BY <1>1, <1>2, <1>5
  <2>2. q \in Int /\ p \in Int /\ s \in Int /\ t \in Int /\ 0 <= s /\ 0 <= t
    BY <1>1, <1>2
  <2> HIDE DEF t
  <2>3. t = s
    BY <1>1, <1>2, <2>1, <2>2, OneDivision
  <2> QED BY <1>5, <2>3 DEF s, r, t
<1> QED BY <1>4, <1>5

\* The shares of all processes add up to the total.
LEMMA SharesSum ==
  ASSUME NEW total \in Nat, NEW procs \in Nat \ {0}, NEW f,
         \A i \in 0 .. procs - 1 : f[i] = Split(total, procs, i)
  PROVE  SumOf(f, 0 .. procs - 1) = total
<1> DEFINE S == 0 .. procs - 1
           q == total \div procs
           r == total % procs
           one == [i \in S |-> 1]
           all == [i \in S |-> q]
           more == [i \in S |-> IF i \in 0 .. r - 1 THEN 1 ELSE 0]
<1>1. IsFiniteSet(S) /\ Cardinality(S) = procs
  BY FS_Interval
<1>2. q \in Nat /\ r \in Nat /\ r < procs /\ total = procs * q + r
  BY DivMod
<1> HIDE DEF q, r
<1>3. CASE procs <= 1
  <2>1. S = {0} /\ f[0] = total
    BY <1>3 DEF Split
  <2>2. SumOf(f, S) = f[0] + SumOf(f, S \ {0})
    BY <1>1, <2>1, SumSplit
  <2>3. SumOf(f, S \ {0}) = 0
    BY <2>1, SumEmpty
  <2> QED BY <2>1, <2>2, <2>3
<1>4. CASE procs > 1 /\ total <= 0
  <2>1. \A i \in S : f[i] = IF i \in {} THEN 1 ELSE 0
    BY <1>4 DEF Split
  <2>2. SumOf(f, S) = Cardinality(S \cap {})
    <3> HIDE DEF S
    <3> QED BY <1>1, <2>1, SumCount
  <2> QED BY <1>4, <2>2, FS_EmptySet
<1>5. CASE procs > 1 /\ total > 0
  <2>1. \A i \in S : /\ all[i] = q /\ more[i] \in Nat /\ one[i] = 1 /\ all[i] = q * one[i]
                     /\ more[i] = IF i \in 0 .. r - 1 THEN 1 ELSE 0
                     /\ f[i] = all[i] + more[i]
    BY <1>2, <1>5 DEF Split, q, r
  <2>2. Cardinality(S \cap S) = procs /\ Cardinality(S \cap (0 .. r - 1)) = r
    <3>1. S \cap (0 .. r - 1) = 0 .. r - 1 /\ S \cap S = S
      BY <1>2
    <3>2. Cardinality(0 .. r - 1) = r
      BY <1>2, FS_Interval
    <3> QED BY <1>1, <3>1, <3>2
  <2> HIDE DEF S, all, more, one
  <2>3. SumOf(f, S) = SumOf(all, S) + SumOf(more, S)
    <3>1. \A i \in S : all[i] \in Nat /\ more[i] \in Nat /\ f[i] = all[i] + more[i]
      BY <1>2, <2>1
    <3> QED BY <1>1, <3>1, SumPlus
  <2>4. SumOf(more, S) = r
    <3>1. \A i \in S : more[i] = IF i \in 0 .. r - 1 THEN 1 ELSE 0
      BY <2>1
    <3> QED BY <1>1, <2>2, <3>1, SumCount
  <2>5. SumOf(one, S) = procs
    <3>1. \A i \in S : one[i] = IF i \in S THEN 1 ELSE 0
      BY <2>1
    <3> QED BY <1>1, <2>2, <3>1, SumCount
  <2>6. SumOf(all, S) = q * SumOf(one, S)
    <3>1. \A i \in S : one[i] \in Nat /\ all[i] = q * one[i]
      BY <2>1
    <3> QED BY <1>1, <1>2, <3>1, SumTimes
  <2> QED BY <1>2, <2>3, <2>4, <2>5, <2>6 DEF S
<1> QED BY <1>3, <1>4, <1>5

\* Shares differ by one at most.
LEMMA SharesEven ==
  ASSUME NEW total \in Nat, NEW procs \in Nat \ {0}, NEW i \in 0 .. procs - 1,
         NEW j \in 0 .. procs - 1
  PROVE  Split(total, procs, i) - Split(total, procs, j) \in -1 .. 1
BY DivMod DEF Split

\* Every user in turn goes to the next process: after any number of users, those
\* dealt one more are the first ones.
LEMMA DealtEvenly ==
  ASSUME NEW procs \in Nat \ {0}, NEW n \in Nat
  PROVE  \E b \in Nat : \A i \in 0 .. procs - 1 :
           Cardinality({u \in 0 .. n - 1 : u % procs = i})
             = b + (IF i < n % procs THEN 1 ELSE 0)
<1> DEFINE Of(i, m) == {u \in 0 .. m - 1 : u % procs = i}
           Even(m) == \E b \in Nat : \A i \in 0 .. procs - 1 :
                        Cardinality(Of(i, m)) = b + (IF i < m % procs THEN 1 ELSE 0)
           Bad == {m \in Nat : ~Even(m)}
<1>1. SUFFICES ASSUME Bad # {} PROVE FALSE
  OBVIOUS
<1>2. PICK m \in Bad : \A k \in Bad : m <= k
  <2>1. Bad \subseteq Nat
    OBVIOUS
  <2> HIDE DEF Bad
  <2> QED BY <1>1, <2>1, LeastNumber
<1>3. m \in Nat /\ ~Even(m)
  OBVIOUS
<1>4. m # 0
  <2>1. SUFFICES ASSUME m = 0 PROVE Even(0)
    BY <1>3
  <2>2. 0 % procs = 0
    OBVIOUS
  <2>3. \A i \in 0 .. procs - 1 : Of(i, 0) = {}
    OBVIOUS
  <2>4. \A i \in 0 .. procs - 1 :
          Cardinality(Of(i, 0)) = 0 + (IF i < 0 % procs THEN 1 ELSE 0)
    BY <2>2, <2>3, FS_EmptySet
  <2> QED BY <2>4
<1> DEFINE k == m - 1
<1>5. k \in Nat /\ m = k + 1 /\ k \notin Bad
  <2>1. k \in Nat /\ m = k + 1 /\ k < m
    BY <1>3, <1>4
  <2> HIDE DEF Bad
  <2> QED BY <1>2, <2>1
<1>6. PICK b \in Nat : \A i \in 0 .. procs - 1 :
        Cardinality(Of(i, k)) = b + (IF i < k % procs THEN 1 ELSE 0)
  BY <1>5
<1>7. k % procs \in 0 .. procs - 1
      /\ m % procs = IF k % procs = procs - 1 THEN 0 ELSE (k % procs) + 1
  <2> HIDE DEF k
  <2>1. k % procs \in Nat /\ k % procs < procs
    BY <1>5, DivMod
  <2>2. (k + 1) % procs = IF k % procs = procs - 1 THEN 0 ELSE (k % procs) + 1
    BY <1>5, NextResidue
  <2> QED BY <1>5, <2>1, <2>2
<1>8. ASSUME NEW i \in 0 .. procs - 1
      PROVE  Cardinality(Of(i, m)) = Cardinality(Of(i, k)) + (IF i = k % procs THEN 1 ELSE 0)
  <2>1. 0 .. m - 1 = (0 .. k - 1) \cup {k}
    BY <1>5
  <2>2. IsFiniteSet(0 .. k - 1)
    BY FS_Interval, <1>5
  <2>3. IsFiniteSet(Of(i, k))
    BY <2>2, FS_Subset
  <2>4. k \notin Of(i, k)
    OBVIOUS
  <2>5. CASE i = k % procs
    <3>1. Of(i, m) = Of(i, k) \cup {k}
      BY <2>1, <2>5
    <3>2. Cardinality(Of(i, k) \cup {k}) = Cardinality(Of(i, k)) + 1
      <4> HIDE DEF Of
      <4> QED BY <2>3, <2>4, FS_AddElement
    <3> QED BY <2>5, <3>1, <3>2
  <2>6. CASE i # k % procs
    <3>1. Of(i, m) = Of(i, k)
      BY <2>1, <2>6
    <3>2. Cardinality(Of(i, k)) \in Nat
      BY <2>3, FS_CardinalityType
    <3> HIDE DEF Of, k
    <3> QED BY <2>6, <3>1, <3>2
  <2> QED BY <2>5, <2>6
<1> DEFINE c == IF k % procs = procs - 1 THEN b + 1 ELSE b
<1>9. c \in Nat /\ \A i \in 0 .. procs - 1 :
        Cardinality(Of(i, m)) = c + (IF i < m % procs THEN 1 ELSE 0)
  <2> HIDE DEF Of, k
  <2>1. c \in Nat
    OBVIOUS
  <2>2. ASSUME NEW i \in 0 .. procs - 1
        PROVE  Cardinality(Of(i, m)) = c + (IF i < m % procs THEN 1 ELSE 0)
    <3>1. Cardinality(Of(i, m)) = Cardinality(Of(i, k)) + (IF i = k % procs THEN 1 ELSE 0)
      BY <1>8
    <3>2. Cardinality(Of(i, k)) = b + (IF i < k % procs THEN 1 ELSE 0)
      BY <1>6
    <3> QED BY <1>7, <3>1, <3>2
  <2> QED BY <2>1, <2>2
<1> QED BY <1>3, <1>9

-----------------------------------------------------------------------------
(* The groups of a chat profile. *)

LEMMA ProfileFacts ==
  ASSUME NEW profile \in Profiles
  PROVE  /\ \E k \in 1 .. Parts : profile \in [1 .. k -> 1 .. Parts]
         /\ IsFiniteSet(DOMAIN profile) /\ Parts \in Nat \ {0}
         /\ \A g \in DOMAIN profile : profile[g] \in Nat
         /\ SumOf(profile, DOMAIN profile) = Parts
<1>1. PICK k \in 1 .. Parts : profile \in [1 .. k -> 1 .. Parts]
  BY DEF Profiles
<1>2. Parts \in Nat \ {0}
  BY BudgetAssumption DEF BudgetAssumption
<1>3. SumOf(profile, DOMAIN profile) = Parts
  BY DEF Profiles, SumOf
<1>4. DOMAIN profile = 1 .. k /\ IsFiniteSet(1 .. k)
  BY <1>1, FS_Interval
<1>5. \A g \in 1 .. k : profile[g] \in Nat
  BY <1>1, <1>2
<1> QED BY <1>1, <1>2, <1>3, <1>4, <1>5

\* What the floors of counts() leave: a natural, and there are at least that many groups
\* with a remainder.
Rest(profile, total) == total - SumOf(Floor(profile, total), DOMAIN profile)
Positive(profile, total) == {g \in DOMAIN profile : Remainder(profile, total, g) > 0}

LEMMA Shares ==
  ASSUME NEW profile \in Profiles, NEW total \in Nat, NEW g \in DOMAIN profile
  PROVE  /\ Floor(profile, total)[g] \in Nat
         /\ Remainder(profile, total, g) \in Nat /\ Remainder(profile, total, g) < Parts
         /\ profile[g] * total = Parts * Floor(profile, total)[g] + Remainder(profile, total, g)
<1>1. profile[g] \in Nat /\ Parts \in Nat \ {0}
  BY ProfileFacts
<1> DEFINE e == profile[g] * total
<1>2. e \in Nat
  BY <1>1
<1> HIDE DEF e
<1>3. /\ e \div Parts \in Nat /\ e % Parts \in Nat /\ e % Parts < Parts
      /\ e = Parts * (e \div Parts) + (e % Parts)
  BY <1>1, <1>2, DivMod
<1> QED BY <1>3 DEF Floor, Remainder, e

LEMMA RestFacts ==
  ASSUME NEW profile \in Profiles, NEW total \in Nat
  PROVE  /\ SumOf(Floor(profile, total), DOMAIN profile) \in Nat
         /\ Rest(profile, total) \in Nat
         /\ Rest(profile, total) <= Cardinality(Positive(profile, total))
<1> DEFINE D == DOMAIN profile
           floor == Floor(profile, total)
           rem == [g \in D |-> Remainder(profile, total, g)]
           exact == [g \in D |-> profile[g] * total]
           whole == [g \in D |-> Parts * floor[g]]
           pos == Positive(profile, total)
           one == [g \in D |-> IF g \in pos THEN 1 ELSE 0]
           most == [g \in D |-> (Parts - 1) * one[g]]
           F == SumOf(floor, D)
           R == SumOf(rem, D)
           n == Cardinality(pos)
<1>1. IsFiniteSet(D) /\ Parts \in Nat \ {0} /\ \A g \in D : profile[g] \in Nat
  BY ProfileFacts
<1>2. \A g \in D : /\ floor[g] \in Nat /\ rem[g] \in Nat /\ rem[g] < Parts
                   /\ exact[g] = Parts * floor[g] + rem[g]
                   /\ whole[g] = Parts * floor[g]
                   /\ exact[g] = total * profile[g]
  BY <1>1, Shares
<1>3. \A g \in D : whole[g] \in Nat
  BY <1>1, <1>2
<1>4. \A g \in D : /\ one[g] = IF g \in pos THEN 1 ELSE 0
                   /\ most[g] = (Parts - 1) * one[g]
                   /\ g \notin pos => rem[g] = 0
  BY <1>2 DEF Positive
<1>5. pos \subseteq D
  BY DEF Positive
<1> HIDE DEF D, floor, rem, exact, whole, pos, one, most
<1>6. F \in Nat /\ R \in Nat /\ n \in Nat
  <2>1. \A g \in D : floor[g] \in Nat
    BY <1>2
  <2>2. \A g \in D : rem[g] \in Nat
    BY <1>2
  <2>3. F \in Nat
    BY <1>1, <2>1, SumSplit
  <2>4. R \in Nat
    BY <1>1, <2>2, SumSplit
  <2>5. n \in Nat
    BY <1>1, <1>5, FS_Subset, FS_CardinalityType
  <2> QED BY <2>3, <2>4, <2>5
<1>7. SumOf(exact, D) = total * Parts
  <2>1. \A g \in D : profile[g] \in Nat /\ exact[g] = total * profile[g]
    BY <1>1, <1>2
  <2>2. SumOf(profile, D) = Parts
    BY ProfileFacts DEF D
  <2>3. SumOf(exact, D) = total * SumOf(profile, D)
    BY <1>1, <2>1, SumTimes
  <2> QED BY <2>2, <2>3
<1>8. SumOf(exact, D) = SumOf(whole, D) + R
  <2>1. \A g \in D : whole[g] \in Nat /\ rem[g] \in Nat /\ exact[g] = whole[g] + rem[g]
    BY <1>2, <1>3
  <2> QED BY <1>1, <2>1, SumPlus
<1>9. SumOf(whole, D) = Parts * F
  <2>1. \A g \in D : floor[g] \in Nat /\ whole[g] = Parts * floor[g]
    BY <1>2
  <2>2. Parts \in Nat
    BY <1>1
  <2> QED BY <1>1, <2>1, <2>2, SumTimes
<1>10. R <= (Parts - 1) * n
  <2>1. Parts - 1 \in Nat
    BY <1>1
  <2>2. \A g \in D : one[g] \in Nat /\ most[g] = (Parts - 1) * one[g]
    BY <1>4
  <2>3. SumOf(most, D) = (Parts - 1) * SumOf(one, D)
    <3> DEFINE m == Parts - 1
    <3>1. m \in Nat /\ \A g \in D : one[g] \in Nat /\ most[g] = m * one[g]
      BY <2>1, <2>2
    <3> HIDE DEF m
    <3>2. SumOf(most, D) = m * SumOf(one, D)
      BY <1>1, <3>1, SumTimes
    <3> QED BY <3>2 DEF m
  <2>4. SumOf(one, D) = Cardinality(D \cap pos)
    <3>1. \A g \in D : one[g] = IF g \in pos THEN 1 ELSE 0
      BY <1>4
    <3> QED BY <1>1, <3>1, SumCount
  <2>5. D \cap pos = pos
    BY <1>5
  <2>6. \A g \in D : rem[g] \in Nat /\ most[g] \in Nat /\ rem[g] <= most[g]
    <3>1. SUFFICES ASSUME NEW g \in D
                   PROVE  rem[g] \in Nat /\ most[g] \in Nat /\ rem[g] <= most[g]
      OBVIOUS
    <3>2. CASE g \in pos
      <4>1. most[g] = (Parts - 1) * 1
        BY <1>4, <3>2
      <4> QED BY <1>1, <1>2, <2>1, <4>1
    <3>3. CASE g \notin pos
      <4>1. most[g] = (Parts - 1) * 0 /\ rem[g] = 0
        BY <1>4, <3>3
      <4> QED BY <2>1, <4>1
    <3> QED BY <3>2, <3>3
  <2>7. R <= SumOf(most, D)
    BY <1>1, <2>6, SumMonotone
  <2> QED BY <2>3, <2>4, <2>5, <2>7
<1> HIDE DEF F, R, n
<1> DEFINE rest == total - F
<1>11. rest \in Int /\ Parts * rest = R
  <2>1. Parts * total = Parts * F + R
    BY <1>1, <1>7, <1>8, <1>9
  <2>2. Parts * (total - F) = Parts * total - Parts * F
    BY <1>1, <1>6
  <2> QED BY <1>1, <1>6, <2>1, <2>2
<1> HIDE DEF rest
<1>12. rest \in Nat
  <2>1. SUFFICES ASSUME rest <= -1 PROVE FALSE
    BY <1>11
  <2>2. Parts * rest <= Parts * (-1)
    BY <1>1, <1>11, <2>1, Scale
  <2> QED BY <1>1, <1>6, <1>11, <2>2
<1>13. rest <= n
  <2>1. SUFFICES ASSUME n + 1 <= rest PROVE FALSE
    BY <1>6, <1>11
  <2>2. Parts * (n + 1) <= Parts * rest
    BY <1>1, <1>6, <1>11, <2>1, Scale
  <2>3. Parts * (n + 1) = (Parts - 1) * n + n + Parts
    BY <1>1, <1>6
  <2>4. (Parts - 1) * n \in Nat
    BY <1>1, <1>6
  <2> QED BY <1>1, <1>6, <1>10, <1>11, <2>2, <2>3, <2>4
<1> QED BY <1>6, <1>12, <1>13 DEF Rest, F, n, rest, D, floor, pos

Precedes(profile, total) == [g \in DOMAIN profile |-> Before(profile, total, g)]

LEMMA BeforeOrdered ==
  ASSUME NEW profile \in Profiles, NEW total \in Nat
  PROVE  Ordered(DOMAIN profile, Precedes(profile, total))
<1> DEFINE D == DOMAIN profile
           rem(g) == Remainder(profile, total, g)
<1>1. \A g \in D : rem(g) \in Nat /\ g \in Nat
  <2>1. PICK k \in 1 .. Parts : profile \in [1 .. k -> 1 .. Parts]
    BY ProfileFacts
  <2>2. \A g \in D : g \in Nat
    BY <2>1, ProfileFacts
  <2> QED BY <2>2, Shares
<1>2. \A g \in D : Precedes(profile, total)[g]
                     = {h \in D : rem(h) > rem(g) \/ (rem(h) = rem(g) /\ h < g)}
  BY DEF Precedes, Before
<1> HIDE DEF D, rem
<1> QED BY <1>1, <1>2 DEF Ordered, D

\* The numbers of users the parent reports: naturals that add up to the users, each less
\* than one user away from the exact share.
LEMMA CountsFacts ==
  ASSUME NEW profile \in Profiles, NEW total \in Nat
  PROVE  /\ \A g \in DOMAIN profile :
              /\ Counts(profile, total)[g] \in Nat
              /\ Parts * Counts(profile, total)[g] - profile[g] * total
                   \in 1 - Parts .. Parts - 1
         /\ SumOf(Counts(profile, total), DOMAIN profile) = total
<1> DEFINE D == DOMAIN profile
           floor == Floor(profile, total)
           counts == Counts(profile, total)
           rest == Rest(profile, total)
           Place(g) == Cardinality(Before(profile, total, g))
           first == {g \in D : Place(g) < rest}
           more == [g \in D |-> IF g \in first THEN 1 ELSE 0]
           rem(g) == Remainder(profile, total, g)
           pos == Positive(profile, total)
<1>1. IsFiniteSet(D) /\ Parts \in Nat \ {0} /\ rest \in Nat /\ rest <= Cardinality(pos)
  BY ProfileFacts, RestFacts
<1>2. \A g \in D : counts[g] = floor[g] + (IF Place(g) < rest THEN 1 ELSE 0)
  BY DEF Counts, Rest, SumOf
<1>3. \A g \in D : /\ floor[g] \in Nat /\ rem(g) \in Nat /\ rem(g) < Parts
                   /\ profile[g] * total = Parts * floor[g] + rem(g)
  BY Shares
<1>4. /\ Ordered(D, Precedes(profile, total))
      /\ \A g \in D : Precedes(profile, total)[g] = Before(profile, total, g)
  BY BeforeOrdered DEF Precedes
<1>5. pos \subseteq D /\ Cardinality(pos) <= Cardinality(D) /\ Cardinality(D) \in Nat
      /\ Cardinality(pos) \in Nat
  <2>1. pos \subseteq D
    BY DEF Positive
  <2> QED BY <1>1, <2>1, FS_Subset, FS_CardinalityType
<1>6. \A g \in D : Place(g) \in Nat
  BY <1>1, <1>4, <1>5, RankBijective
<1>7. ASSUME NEW g \in first PROVE rem(g) > 0
  <2>1. SUFFICES ASSUME rem(g) = 0 PROVE FALSE
    BY <1>3
  <2>2. pos \subseteq Before(profile, total, g)
    BY <1>3, <2>1 DEF Before, Positive
  <2>3. IsFiniteSet(Before(profile, total, g))
    BY <1>1, FS_Subset DEF Before
  <2>4. Cardinality(pos) <= Place(g)
    BY <2>2, <2>3, FS_Subset
  <2>5. Place(g) < rest /\ Place(g) \in Nat
    BY <1>6
  <2> HIDE DEF Place, rest, pos
  <2> QED BY <1>1, <1>5, <2>4, <2>5
<1>8. Cardinality(first) = rest
  <2> DEFINE b == Precedes(profile, total)
  <2>1. Cardinality({g \in D : 0 <= Cardinality(b[g]) /\ Cardinality(b[g]) < rest}) = rest - 0
    <3> HIDE DEF D, b, rest
    <3>1. rest <= Cardinality(D) /\ 0 <= rest /\ 0 \in Nat /\ Ordered(D, b)
      BY <1>1, <1>4, <1>5 DEF b
    <3> QED BY <1>1, <3>1, RankCount
  <2>2. {g \in D : 0 <= Cardinality(b[g]) /\ Cardinality(b[g]) < rest} = first
    BY <1>4, <1>6
  <2>3. rest - 0 = rest
    BY <1>1
  <2> HIDE DEF first, rest, b, Place
  <2> QED BY <2>1, <2>2, <2>3, Zenon
<1>9. SumOf(counts, D) = total
  <2>1. \A g \in D : floor[g] \in Nat /\ more[g] \in Nat /\ counts[g] = floor[g] + more[g]
    BY <1>2, <1>3
  <2>2. \A g \in D : more[g] = IF g \in first THEN 1 ELSE 0
    OBVIOUS
  <2>3. D \cap first = first
    OBVIOUS
  <2>4. rest = total - SumOf(floor, D) /\ SumOf(floor, D) \in Nat
    BY RestFacts DEF Rest
  <2> HIDE DEF D, floor, counts, more, first, rest
  <2>5. SumOf(counts, D) = SumOf(floor, D) + SumOf(more, D)
    BY <1>1, <2>1, SumPlus
  <2>6. SumOf(more, D) = Cardinality(D \cap first)
    BY <1>1, <2>2, SumCount
  <2>7. SumOf(more, D) = rest
    BY <1>8, <2>3, <2>6, Zenon
  <2> QED BY <2>4, <2>5, <2>7
<1>10. ASSUME NEW g \in D
       PROVE  counts[g] \in Nat /\ Parts * counts[g] - profile[g] * total \in 1 - Parts .. Parts - 1
  <2>1. /\ floor[g] \in Nat /\ rem(g) \in Nat /\ rem(g) < Parts
        /\ profile[g] * total = Parts * floor[g] + rem(g)
    BY <1>3
  <2>2. Parts * floor[g] \in Nat
    BY <1>1, <2>1
  <2>3. CASE g \in first
    <3>1. counts[g] = floor[g] + 1 /\ rem(g) > 0
      BY <1>2, <1>7, <2>3
    <3> HIDE DEF counts, floor, rem
    <3>2. Parts * counts[g] = Parts * floor[g] + Parts
      BY <1>1, <2>1, <3>1
    <3> QED BY <1>1, <2>1, <2>2, <3>1, <3>2
  <2>4. CASE g \notin first
    <3>1. counts[g] = floor[g]
      BY <1>2, <2>1, <2>4
    <3> HIDE DEF counts, floor, rem
    <3> QED BY <1>1, <2>1, <2>2, <3>1
  <2> QED BY <2>3, <2>4
<1> QED BY <1>9, <1>10

\* Consecutive blocks: the ends of the first g groups.
EndOf(counts, g) == SumOf(counts, 1 .. g)

LEMMA Ends ==
  ASSUME NEW k \in Nat, NEW counts, \A g \in 1 .. k : counts[g] \in Nat
  PROVE  /\ EndOf(counts, 0) = 0
         /\ \A g \in 0 .. k : EndOf(counts, g) \in Nat
         /\ \A g \in 1 .. k : EndOf(counts, g) = counts[g] + EndOf(counts, g - 1)
         /\ \A g, h \in 0 .. k : g <= h => EndOf(counts, g) <= EndOf(counts, h)
<1>1. EndOf(counts, 0) = 0
  <2>1. 1 .. 0 = {}
    OBVIOUS
  <2> QED BY <2>1, SumEmpty DEF EndOf
<1>2. ASSUME NEW g \in 0 .. k
      PROVE  /\ IsFiniteSet(1 .. g) /\ \A x \in 1 .. g : counts[x] \in Nat
             /\ EndOf(counts, g) \in Nat
  <2>1. IsFiniteSet(1 .. g) /\ \A x \in 1 .. g : counts[x] \in Nat
    BY FS_Interval
  <2> QED BY <2>1, SumSplit DEF EndOf
<1>3. ASSUME NEW g \in 1 .. k PROVE EndOf(counts, g) = counts[g] + EndOf(counts, g - 1)
  <2>1. (1 .. g) \ {g} = 1 .. g - 1 /\ g \in 1 .. g /\ g \in 0 .. k
    OBVIOUS
  <2>2. SumOf(counts, 1 .. g) = counts[g] + SumOf(counts, (1 .. g) \ {g})
    BY <1>2, <2>1, SumSplit
  <2> QED BY <2>1, <2>2 DEF EndOf
<1>4. ASSUME NEW g \in 0 .. k, NEW h \in 0 .. k, g <= h
      PROVE  EndOf(counts, g) <= EndOf(counts, h)
  <2> DEFINE Bad == {m \in g .. k : ~(EndOf(counts, g) <= EndOf(counts, m))}
  <2>1. SUFFICES ASSUME Bad # {} PROVE FALSE
    BY <1>4
  <2>2. PICK m \in Bad : \A i \in Bad : m <= i
    <3>1. Bad \subseteq Nat
      OBVIOUS
    <3> HIDE DEF Bad
    <3> QED BY <2>1, <3>1, LeastNumber
  <2>3. m \in g .. k /\ ~(EndOf(counts, g) <= EndOf(counts, m))
    OBVIOUS
  <2>4. m # g
    BY <1>2, <2>3
  <2>5. m - 1 \in g .. k /\ m - 1 < m /\ m \in 1 .. k /\ m - 1 \in 0 .. k
    BY <2>3, <2>4
  <2>6. m - 1 \notin Bad
    <3> HIDE DEF Bad
    <3> QED BY <2>2, <2>5
  <2>7. EndOf(counts, g) <= EndOf(counts, m - 1)
    BY <2>5, <2>6
  <2>8. EndOf(counts, m) = counts[m] + EndOf(counts, m - 1) /\ counts[m] \in Nat
    BY <1>3, <2>5
  <2>9. EndOf(counts, m - 1) \in Nat /\ EndOf(counts, g) \in Nat
    BY <1>2, <2>5
  <2> HIDE DEF Bad
  <2> QED BY <2>3, <2>7, <2>8, <2>9
<1> QED BY <1>1, <1>2, <1>3, <1>4

\* Every place up to the end of the last block lies in exactly one of them.
LEMMA OneBlock ==
  ASSUME NEW k \in Nat, NEW counts, \A g \in 1 .. k : counts[g] \in Nat,
         NEW p \in Nat, p < EndOf(counts, k)
  PROVE  /\ \E g \in 1 .. k : p < EndOf(counts, g) /\ p >= EndOf(counts, g - 1)
         /\ \A g, h \in 1 .. k :
              /\ p < EndOf(counts, g) /\ p >= EndOf(counts, g - 1)
              /\ p < EndOf(counts, h) /\ p >= EndOf(counts, h - 1)
              => g = h
<1> DEFINE N == {g \in 0 .. k : p < EndOf(counts, g)}
<1>1. k \in N /\ N \subseteq Nat
  OBVIOUS
<1>2. PICK g \in N : \A h \in N : g <= h
  <2> HIDE DEF N
  <2> QED BY <1>1, LeastNumber
<1>3. g \in 0 .. k /\ p < EndOf(counts, g) /\ g # 0
  BY Ends
<1>4. g \in 1 .. k /\ g - 1 \in 0 .. k /\ g - 1 \notin N
  <2>1. g \in 1 .. k /\ g - 1 \in 0 .. k /\ ~(g <= g - 1)
    BY <1>3
  <2> HIDE DEF N
  <2> QED BY <1>2, <2>1
<1>5. p >= EndOf(counts, g - 1)
  <2>1. EndOf(counts, g - 1) \in Nat
    BY <1>4, Ends
  <2> QED BY <1>4, <2>1
<1>6. ASSUME NEW x \in 1 .. k, NEW y \in 1 .. k,
             p < EndOf(counts, x), p >= EndOf(counts, x - 1),
             p < EndOf(counts, y), p >= EndOf(counts, y - 1)
      PROVE  ~(x < y)
  <2>1. SUFFICES ASSUME x < y PROVE FALSE
    OBVIOUS
  <2>2. x \in 0 .. k /\ y - 1 \in 0 .. k /\ x <= y - 1
    BY <2>1
  <2>3. /\ EndOf(counts, x) <= EndOf(counts, y - 1)
        /\ EndOf(counts, x) \in Nat /\ EndOf(counts, y - 1) \in Nat
    BY <2>2, Ends
  <2> QED BY <1>6, <2>3
<1>7. ASSUME NEW x \in 1 .. k, NEW y \in 1 .. k,
             p < EndOf(counts, x), p >= EndOf(counts, x - 1),
             p < EndOf(counts, y), p >= EndOf(counts, y - 1)
      PROVE  x = y
  <2>1. ~(x < y) /\ ~(y < x)
    BY <1>6, <1>7
  <2> QED BY <2>1
<1> QED BY <1>3, <1>4, <1>5, <1>7

\* Every process sees the users in groups of the sizes the parent reports.
LEMMA AssignFacts ==
  ASSUME NEW n \in Nat, NEW profile \in Profiles, NEW shuffle \in Shuffles(n),
         args.shuffle = shuffle
  PROVE  LET list == 0 .. n - 1
             A == Assign(profile, list)
         IN  /\ DOMAIN A = list
             /\ \A u \in list : A[u] \in DOMAIN profile
             /\ \A g \in DOMAIN profile :
                  Cardinality({u \in list : A[u] = g}) = Counts(profile, n)[g]
<1> DEFINE list == 0 .. n - 1
           A == Assign(profile, list)
           counts == Counts(profile, Cardinality(list))
           earlier == [u \in list |-> {v \in list : shuffle[v] < shuffle[u]}]
           Place(u) == Cardinality({v \in list : args.shuffle[v] < args.shuffle[u]})
           End(g) == EndOf(counts, g)
           In(u, g) == Place(u) < End(g) /\ Place(u) >= End(g - 1)
<1>1. PICK k \in 1 .. Parts : profile \in [1 .. k -> 1 .. Parts]
  BY ProfileFacts
<1>2. k \in Nat /\ DOMAIN profile = 1 .. k
  BY <1>1, ProfileFacts
<1>3. IsFiniteSet(list) /\ Cardinality(list) = n
  <2>1. /\ IsFiniteSet(0 .. n - 1)
        /\ Cardinality(0 .. n - 1) = IF 0 > n - 1 THEN 0 ELSE (n - 1) - 0 + 1
    BY FS_Interval
  <2> QED BY <2>1
<1>4. /\ \A g \in 1 .. k : counts[g] \in Nat
      /\ End(k) = n
  BY <1>2, <1>3, CountsFacts DEF EndOf
<1>5. Ordered(list, earlier)
  <2>1. \A u \in list : shuffle[u] \in Nat
    BY DEF Shuffles
  <2>2. \A u, v \in list : shuffle[u] = shuffle[v] => u = v
    BY DEF Shuffles
  <2>3. \A u \in list : earlier[u] = {v \in list : shuffle[v] < shuffle[u]}
    OBVIOUS
  <2> HIDE DEF earlier, list
  <2> QED BY <2>1, <2>2, <2>3 DEF Ordered
<1>6. \A u \in list : Place(u) = Cardinality(earlier[u]) /\ Place(u) \in 0 .. n - 1
  <2>1. \A u \in list : Place(u) = Cardinality(earlier[u])
    OBVIOUS
  <2> HIDE DEF earlier, list, Place
  <2>2. \A u \in list : Cardinality(earlier[u]) \in 0 .. Cardinality(list) - 1
    BY <1>3, <1>5, RankBijective
  <2> QED BY <1>3, <2>1, <2>2
<1>7. A = [u \in list |-> CHOOSE g \in DOMAIN profile : In(u, g)]
  BY DEF Assign, EndOf, SumOf
<1>8. \A u \in list : \E g \in 1 .. k : In(u, g)
  <2> SUFFICES ASSUME NEW u \in list PROVE \E g \in 1 .. k : In(u, g)
    OBVIOUS
  <2>1. Place(u) \in Nat /\ Place(u) < EndOf(counts, k)
    BY <1>4, <1>6
  <2> HIDE DEF Place, counts
  <2> QED BY <1>2, <1>4, <2>1, OneBlock
<1>9. ASSUME NEW u \in list, NEW g \in 1 .. k, NEW h \in 1 .. k, In(u, g), In(u, h) PROVE g = h
  <2>1. Place(u) \in Nat /\ Place(u) < EndOf(counts, k)
    BY <1>4, <1>6
  <2> HIDE DEF Place, counts
  <2> QED BY <1>2, <1>4, <1>9, <2>1, OneBlock
<1> HIDE DEF A, In
<1>10. \A u \in list : A[u] \in 1 .. k /\ In(u, A[u])
  BY <1>2, <1>7, <1>8
<1>11. ASSUME NEW g \in 1 .. k PROVE Cardinality({u \in list : A[u] = g}) = counts[g]
  <2>1. {u \in list : A[u] = g} = {u \in list : In(u, g)}
    BY <1>9, <1>10
  <2>2. /\ End(g - 1) \in Nat /\ End(g) \in Nat /\ End(g - 1) <= End(g) /\ End(g) <= n
        /\ End(g) = counts[g] + End(g - 1) /\ counts[g] \in Nat
    <3>1. g \in 0 .. k /\ g - 1 \in 0 .. k /\ k \in 0 .. k /\ g - 1 <= g /\ g <= k
      BY <1>2
    <3> HIDE DEF counts
    <3> QED BY <1>2, <1>4, <3>1, Ends
  <2>3. Cardinality({u \in list : End(g - 1) <= Place(u) /\ Place(u) < End(g)})
          = End(g) - End(g - 1)
    <3> DEFINE a == End(g - 1)
               b == End(g)
    <3>1. a \in Nat /\ b \in Nat /\ a <= b /\ b <= Cardinality(list)
      BY <1>3, <2>2
    <3> HIDE DEF list, earlier, Place, a, b
    <3>2. Cardinality({u \in list : a <= Cardinality(earlier[u])
                                      /\ Cardinality(earlier[u]) < b}) = b - a
      BY <1>3, <1>5, <3>1, RankCount
    <3>3. {u \in list : a <= Place(u) /\ Place(u) < b}
            = {u \in list : a <= Cardinality(earlier[u]) /\ Cardinality(earlier[u]) < b}
      BY <1>6
    <3> QED BY <3>2, <3>3 DEF a, b
  <2>4. {u \in list : In(u, g)} = {u \in list : End(g - 1) <= Place(u) /\ Place(u) < End(g)}
    BY <1>6, <2>2 DEF In
  <2>5. End(g) - End(g - 1) = counts[g]
    <3> HIDE DEF End, counts
    <3> QED BY <2>2
  <2> HIDE DEF End, counts, list, Place
  <2>6. {u \in list : A[u] = g} = {u \in list : End(g - 1) <= Place(u) /\ Place(u) < End(g)}
    BY <2>1, <2>4, Zenon
  <2> QED BY <2>3, <2>5, <2>6, Zenon
<1>12. DOMAIN A = list
  BY <1>7
<1>13. counts = Counts(profile, n)
  BY <1>3
<1> HIDE DEF counts
<1> QED BY <1>2, <1>10, <1>11, <1>12, <1>13 DEF A

-----------------------------------------------------------------------------
(* The invariant. *)

LEMMA InitInv == Init => Inv
<1> SUFFICES ASSUME Init PROVE Inv
  OBVIOUS
<1>1. Valid(args, RunConfig(args, 0)) /\ args \in Args
  BY DEF Init
<1>2. PICK n \in 1 .. MaxUsers :
        args \in [users : {n}, procs : 1 .. MaxUsers, timed : BOOLEAN,
                  ops : 0 .. MaxBudget, cap : 0 .. MaxBudget, queue : 0 .. MaxBudget,
                  profile : Profiles, shuffle : Shuffles(n)]
  BY <1>1 DEF Args
<1>3. MaxUsers \in Nat \ {0} /\ MaxBudget \in Nat
  BY BudgetAssumption DEF BudgetAssumption
<1>4. Types
  BY <1>1, <1>2, <1>3 DEF Init, Types
<1> QED BY <1>1, <1>4 DEF Init, Inv, Decided

\* What a process assigns depends on the command line alone.
AssignBy(shuffle, profile, list) ==
  LET counts == Counts(profile, Cardinality(list))
      Place(u) == Cardinality({v \in list : shuffle[v] < shuffle[u]})
      End(g) == MapThenSumSet(LAMBDA h : counts[h], 1 .. g)
  IN  [u \in list |-> CHOOSE g \in DOMAIN profile : /\ Place(u) < End(g)
                                                    /\ Place(u) >= End(g - 1)]

AssignsBy == \A i : Assigned(i) = AssignBy(args.shuffle, args.profile, 0 .. args.users - 1)

LEMMA AssignedIsBy == AssignsBy
<1> SUFFICES ASSUME NEW i
             PROVE  Assigned(i) = AssignBy(args.shuffle, args.profile, 0 .. args.users - 1)
  BY DEF AssignsBy
<1> QED BY Zenon DEF Assigned, Assign, AssignBy

LEMMA AssignedIsByNext == AssignsBy'
BY AssignedIsBy, PTL

LEMMA AssignedKept ==
  ASSUME args' = args
  PROVE  \A i : Assigned(i)' = Assigned(i)
BY AssignedIsBy, AssignedIsByNext DEF AssignsBy

LEMMA NextInv == Inv /\ [Next]_vars => Inv'
<1> SUFFICES ASSUME Inv, [Next]_vars PROVE Inv'
  OBVIOUS
<1>1. ASSUME NEW i \in Procs, BuildShard(i) PROVE Inv'
  <2>1. args' = args /\ Procs' = Procs
    BY <1>1 DEF BuildShard, Procs
  <2>2. \A j \in Procs \ {i} : share'[j] = share[j] /\ users'[j] = users[j] /\ groups'[j] = groups[j]
    BY <1>1 DEF BuildShard, Inv, Types
  <2>3. users[i] = {} /\ groups[i] = <<>>
    <3>1. share[i] = Pending /\ Pending # Refused
      BY <1>1, States DEF BuildShard
    <3>2. share[i] # RunConfig(args, i)
      BY <3>1, States
    <3> QED BY <3>1, <3>2 DEF Inv, Decided
  <2>4. \/ /\ share'[i] = Refused /\ ~Valid(args, RunConfig(args, i))
           /\ users'[i] = {} /\ groups'[i] = <<>>
        \/ /\ share'[i] = RunConfig(args, i) /\ users'[i] = ShardUsers(args, i)
           /\ groups'[i] = Assigned(i)
    BY <1>1, <2>3 DEF BuildShard, Inv, Types
  <2>5. Types' /\ Valid(args, RunConfig(args, 0))'
    BY <1>1, <2>1 DEF BuildShard, Inv, Types
  <2>6. \A j \in Procs : Assigned(j)' = Assigned(j)
    BY <2>1, AssignedKept
  <2>7. Decided'
    BY <2>1, <2>2, <2>4, <2>6 DEF Inv, Decided
  <2> QED BY <2>5, <2>7 DEF Inv
<1>2. CASE Over \/ UNCHANGED vars
  BY <1>2, AssignedKept DEF Over, vars, Inv, Types, Decided, Procs
<1> QED BY <1>1, <1>2 DEF Next

LEMMA InvAlways == Spec => []Inv
BY InitInv, NextInv, PTL DEF Spec

-----------------------------------------------------------------------------

\* Every user is driven by exactly one process, and every process has one to drive
\* (LoadRunner.shard_users).
Dealt == Built => /\ UNION {users[i] : i \in Procs} = 0 .. args.users - 1
                  /\ \A i, j \in Procs : i # j => users[i] \cap users[j] = {}
                  /\ \A i \in Procs : users[i] # {}

LEMMA UsersDealt == Inv => Dealt
<1> SUFFICES ASSUME Inv, Built PROVE Dealt
  BY DEF Dealt
<1>1. \A i \in Procs : users[i] = ShardUsers(args, i)
  BY States DEF Inv, Decided, Built
<1>2. args.users \in Nat \ {0} /\ args.procs \in Nat \ {0} /\ args.procs <= args.users
  BY DEF Inv, Types, Valid
<1>3. ASSUME NEW u \in 0 .. args.users - 1 PROVE u % args.procs \in Procs
  <2>1. u \in Nat /\ args.procs \in Nat \ {0}
    BY <1>2
  <2>2. u % args.procs \in 0 .. args.procs - 1
    BY <2>1, Division
  <2> QED BY <2>2 DEF Procs
<1>4. UNION {users[i] : i \in Procs} = 0 .. args.users - 1
  <2>1. \A u \in 0 .. args.users - 1 : u \in users[u % args.procs]
    BY <1>1, <1>3 DEF ShardUsers
  <2>2. \A i \in Procs : users[i] \subseteq 0 .. args.users - 1
    BY <1>1 DEF ShardUsers
  <2> QED BY <1>3, <2>1, <2>2
<1>5. \A i, j \in Procs : i # j => users[i] \cap users[j] = {}
  BY <1>1 DEF ShardUsers
<1>6. ASSUME NEW i \in Procs PROVE users[i] # {}
  <2>1. i \in 0 .. args.users - 1 /\ i % args.procs = i
    BY <1>2 DEF Procs
  <2> QED BY <1>1, <2>1 DEF ShardUsers
<1> QED BY <1>4, <1>5, <1>6 DEF Dealt

\* Every process drives its own users, and together they drive all of them.
THEOREM UsersAlwaysDealt == Spec => []Dealt
BY UsersDealt, InvAlways, PTL

\* A process refuses its part of a command line that the parent has accepted only in
\* a purely count-limited run with fewer operations than processes (_build_run_config).
THEOREM RefusalExplained == Spec => []RefusedOnlyWhenShort
<1>1. Inv => RefusedOnlyWhenShort
  <2> SUFFICES ASSUME Inv, NEW i \in Procs, share[i] = Refused
               PROVE  ~args.timed /\ args.ops < args.procs
    BY DEF RefusedOnlyWhenShort
  <2>1. ~Valid(args, RunConfig(args, i)) /\ Valid(args, RunConfig(args, 0))
    BY States DEF Inv, Decided
  <2>2. ~args.timed /\ ~(RunConfig(args, i).ops > 0)
    BY <2>1 DEF Valid
  <2>3. args.ops \in Nat /\ args.procs \in Nat \ {0} /\ i \in 0 .. args.procs - 1
    BY DEF Inv, Types, Procs
  <2>4. Split(args.ops, args.procs, i) \in Nat
    BY <2>3, ZeroShare
  <2>5. ~(Split(args.ops, args.procs, i) > 0)
    BY <2>2, States
  <2>6. Split(args.ops, args.procs, i) = 0
    BY <2>4, <2>5
  <2>7. args.ops < args.procs
    BY <2>3, <2>6, ZeroShare
  <2> QED BY <2>2, <2>7
<1> QED BY <1>1, InvAlways, PTL

\* No process runs without a cap if the cap asked for is at least one place for each:
\* the condition that CapKept lacks (_split, and 0 for no cap).
CapKeptIfEnough == args.cap >= args.procs =>
                     \A i \in Procs : share[i].state = "built" => share[i].cap > 0

THEOREM EnoughPlacesKeepTheCap == Spec => []CapKeptIfEnough
<1>1. Inv => CapKeptIfEnough
  <2> SUFFICES ASSUME Inv, args.cap >= args.procs, NEW i \in Procs, share[i].state = "built"
               PROVE  share[i].cap > 0
    BY DEF CapKeptIfEnough
  <2>1. share[i] = RunConfig(args, i)
    BY States DEF Inv, Decided
  <2>2. args.cap \in Nat /\ args.procs \in Nat \ {0} /\ i \in 0 .. args.procs - 1
    BY DEF Inv, Types, Procs
  <2>3. Split(args.cap, args.procs, i) > 0
    BY <2>2, ZeroShare
  <2> QED BY <2>1, <2>3, States
<1> QED BY <1>1, InvAlways, PTL

-----------------------------------------------------------------------------

\* The share of a process that has one.
LEMMA BuiltShare ==
  ASSUME Inv, NEW i \in Procs, share[i].state = "built"
  PROVE  /\ share[i] = RunConfig(args, i) /\ users[i] = ShardUsers(args, i)
         /\ groups[i] = Assigned(i)
BY States DEF Inv, Decided

LEMMA SharesOfAll == Inv /\ Built => SharesExact
<1> SUFFICES ASSUME Inv, Built PROVE SharesExact
  OBVIOUS
<1>1. /\ args.ops \in Nat /\ args.cap \in Nat /\ args.queue \in Nat
      /\ args.procs \in Nat \ {0} /\ Procs = 0 .. args.procs - 1
  BY DEF Inv, Types, Procs
<1>2. \A i \in Procs : /\ share[i].ops = Split(args.ops, args.procs, i)
                       /\ share[i].cap = Split(args.cap, args.procs, i)
                       /\ share[i].queue = Split(args.queue, args.procs, i)
  BY BuiltShare, States DEF Built
<1>3. ASSUME NEW total \in Nat, NEW f,
             \A i \in Procs : f[i] = Split(total, args.procs, i)
      PROVE  Total(f) = total
  <2> DEFINE p == args.procs
  <2>1. p \in Nat \ {0} /\ \A i \in 0 .. p - 1 : f[i] = Split(total, p, i)
    BY <1>1, <1>3
  <2> HIDE DEF p
  <2>2. SumOf(f, 0 .. p - 1) = total
    BY <2>1, SharesSum
  <2> QED BY <1>1, <2>2 DEF Total, SumOf, p
<1>4. Total([i \in Procs |-> share[i].ops]) = args.ops
  <2> DEFINE f == [i \in Procs |-> share[i].ops]
  <2>1. \A i \in Procs : f[i] = Split(args.ops, args.procs, i)
    BY <1>2
  <2> HIDE DEF f
  <2>2. Total(f) = args.ops
    BY <1>1, <1>3, <2>1
  <2> QED BY <2>2 DEF f
<1>5. Total([i \in Procs |-> share[i].cap]) = args.cap
  <2> DEFINE f == [i \in Procs |-> share[i].cap]
  <2>1. \A i \in Procs : f[i] = Split(args.cap, args.procs, i)
    BY <1>2
  <2> HIDE DEF f
  <2>2. Total(f) = args.cap
    BY <1>1, <1>3, <2>1
  <2> QED BY <2>2 DEF f
<1>6. Total([i \in Procs |-> share[i].queue]) = args.queue
  <2> DEFINE f == [i \in Procs |-> share[i].queue]
  <2>1. \A i \in Procs : f[i] = Split(args.queue, args.procs, i)
    BY <1>2
  <2> HIDE DEF f
  <2>2. Total(f) = args.queue
    BY <1>1, <1>3, <2>1
  <2> QED BY <2>2 DEF f
<1>7. ASSUME NEW i \in Procs, NEW j \in Procs PROVE share[i].ops - share[j].ops \in -1 .. 1
  <2> DEFINE p == args.procs
             t == args.ops
  <2>1. p \in Nat \ {0} /\ t \in Nat /\ i \in 0 .. p - 1 /\ j \in 0 .. p - 1
    BY <1>1
  <2> HIDE DEF p, t
  <2>2. Split(t, p, i) - Split(t, p, j) \in -1 .. 1
    BY <2>1, SharesEven
  <2> QED BY <1>2, <2>2 DEF p, t
<1> QED BY <1>4, <1>5, <1>6, <1>7 DEF SharesExact

LEMMA EvenFromBothEnds == Inv /\ Built => UsersPartitioned
<1> SUFFICES ASSUME Inv, Built PROVE UsersPartitioned
  OBVIOUS
<1>1. args.procs \in Nat \ {0} /\ args.users \in Nat \ {0} /\ Procs = 0 .. args.procs - 1
  BY DEF Inv, Types, Procs
<1>2. \A i \in Procs : users[i] = {u \in 0 .. args.users - 1 : u % args.procs = i}
  BY BuiltShare DEF Built, ShardUsers
<1>3. ASSUME NEW n \in 1 .. args.users, NEW i \in Procs, NEW j \in Procs
      PROVE  Cardinality(users[i] \cap (0 .. n - 1)) - Cardinality(users[j] \cap (0 .. n - 1)) \in -1 .. 1
  <2> DEFINE p == args.procs
             Of(x) == {u \in 0 .. n - 1 : u % p = x}
  <2>1. n \in Nat /\ 0 .. n - 1 \subseteq 0 .. args.users - 1
    BY <1>1
  <2>2. \A x \in Procs : users[x] \cap (0 .. n - 1) = Of(x)
    BY <1>2, <2>1
  <2>3. p \in Nat \ {0} /\ i \in 0 .. p - 1 /\ j \in 0 .. p - 1
    BY <1>1
  <2> HIDE DEF p
  <2>4. PICK b \in Nat : \A x \in 0 .. p - 1 : Cardinality(Of(x)) = b + (IF x < n % p THEN 1 ELSE 0)
    BY <2>1, <2>3, DealtEvenly
  <2> HIDE DEF Of
  <2>5. Cardinality(Of(i)) \in {b, b + 1} /\ Cardinality(Of(j)) \in {b, b + 1}
    BY <2>3, <2>4
  <2>6. Cardinality(Of(i)) - Cardinality(Of(j)) \in -1 .. 1
    BY <2>5
  <2> QED BY <2>2, <2>6
<1>4. Dealt
  BY UsersDealt
<1> QED BY <1>3, <1>4 DEF Dealt, UsersPartitioned

LEMMA GroupsOf ==
  ASSUME Inv, NEW i \in Procs
  PROVE  LET A == Assigned(i) IN
           /\ DOMAIN A = 0 .. args.users - 1
           /\ \A u \in 0 .. args.users - 1 : A[u] \in DOMAIN args.profile
           /\ \A g \in DOMAIN args.profile :
                Cardinality({u \in 0 .. args.users - 1 : A[u] = g})
                  = Counts(args.profile, args.users)[g]
<1> DEFINE n == args.users
           profile == args.profile
           shuffle == args.shuffle
           A == Assign(profile, 0 .. n - 1)
<1>1. n \in Nat /\ profile \in Profiles /\ shuffle \in Shuffles(n) /\ args.shuffle = shuffle
  BY DEF Inv, Types
<1> HIDE DEF n, profile, shuffle, A
<1>2. /\ DOMAIN A = 0 .. n - 1 /\ \A u \in 0 .. n - 1 : A[u] \in DOMAIN profile
      /\ \A g \in DOMAIN profile :
           Cardinality({u \in 0 .. n - 1 : A[u] = g}) = Counts(profile, n)[g]
  BY <1>1, AssignFacts DEF A
<1>3. A = Assigned(i)
  BY DEF A, Assigned, profile, n
<1> QED BY <1>2, <1>3 DEF n, profile

\* The shares add up and are even, every user is driven once, and a process that takes no
\* part had no work to do (_split, _build_run_config, LoadRunner.shard_users).
THEOREM LoadAlwaysDivided == Spec => []LoadDivided
<1>1. Inv => TypeOK
  <2> SUFFICES ASSUME Inv PROVE TypeOK
    OBVIOUS
  <2>1. args \in Args
    BY DEF Inv, Types
  <2>2. ASSUME NEW i \in Procs
        PROVE  /\ share[i].state \in {"pending", "built", "refused"}
               /\ users[i] \subseteq 0 .. args.users - 1
               /\ DOMAIN groups[i] \subseteq 0 .. args.users - 1
               /\ \A u \in DOMAIN groups[i] : groups[i][u] \in DOMAIN args.profile
    <3>1. CASE share[i] = RunConfig(args, i) /\ users[i] = ShardUsers(args, i)
               /\ groups[i] = Assigned(i)
      <4>1. users[i] \subseteq 0 .. args.users - 1
        BY <3>1 DEF ShardUsers
      <4>2. /\ DOMAIN Assigned(i) = 0 .. args.users - 1
            /\ \A u \in 0 .. args.users - 1 : Assigned(i)[u] \in DOMAIN args.profile
        BY GroupsOf
      <4> QED BY <3>1, <4>1, <4>2, States
    <3>2. CASE users[i] = {} /\ groups[i] = <<>> /\ share[i] \in {Pending, Refused}
      <4>1. DOMAIN groups[i] = {}
        BY <3>2
      <4> QED BY <3>2, <4>1, States
    <3> QED BY <3>1, <3>2 DEF Inv, Decided
  <2> QED BY <2>1, <2>2 DEF TypeOK
<1>2. Inv /\ RefusedOnlyWhenShort => LoadDivided
  BY <1>1, SharesOfAll, EvenFromBothEnds DEF LoadDivided
<1> QED BY <1>2, InvAlways, RefusalExplained, PTL

\* Every group has the users the parent reports, its share of them but for less than one
\* user, whatever the shuffle (chat_profile.counts and assign; every process assigns all
\* users before it takes its own).
THEOREM GroupsAlwaysExact == Spec => []GroupsExact
<1>1. Inv => GroupsExact
  <2> SUFFICES ASSUME Inv, Built, NEW g \in DOMAIN args.profile
               PROVE  LET n == Cardinality(UNION {{u \in users[i] : groups[i][u] = g} : i \in Procs})
                      IN  /\ n = Counts(args.profile, args.users)[g]
                          /\ Parts * n - args.profile[g] * args.users \in 1 - Parts .. Parts - 1
    BY DEF GroupsExact
  <2> DEFINE driven == UNION {{u \in users[i] : groups[i][u] = g} : i \in Procs}
             A == Assign(args.profile, 0 .. args.users - 1)
  <2>1. \A i \in Procs : groups[i] = A
    BY BuiltShare DEF Built, Assigned
  <2>2. UNION {users[i] : i \in Procs} = 0 .. args.users - 1
    BY UsersDealt DEF Dealt
  <2>3. driven = {u \in 0 .. args.users - 1 : A[u] = g}
    <3> HIDE DEF A
    <3> QED BY <2>1, <2>2
  <2>4. 0 \in Procs
    BY DEF Inv, Types, Procs
  <2>5. Cardinality({u \in 0 .. args.users - 1 : A[u] = g}) = Counts(args.profile, args.users)[g]
    BY <2>4, GroupsOf DEF Assigned
  <2>6. Parts * Counts(args.profile, args.users)[g] - args.profile[g] * args.users
          \in 1 - Parts .. Parts - 1
    BY CountsFacts DEF Inv, Types
  <2> HIDE DEF driven, A
  <2>7. Cardinality(driven) = Counts(args.profile, args.users)[g]
    BY <2>3, <2>5
  <2>8. /\ Cardinality(driven) = Counts(args.profile, args.users)[g]
        /\ Parts * Cardinality(driven) - args.profile[g] * args.users \in 1 - Parts .. Parts - 1
    BY <2>6, <2>7
  <2> QED BY <2>8 DEF driven
<1> QED BY <1>1, InvAlways, PTL

-----------------------------------------------------------------------------
(* The barrier: the inductive invariant.                                   *)

\* No shard has failed.  A failure sets both events early, so most of what
\* follows holds only without one; and a failed shard stays failed.
NoFailure == \A s \in Shard : shard[s] # "failed"

\* What the history says of a shard, by where the shard is.
HistoryFits ==
  \A s \in Shard :
    /\ shard[s] \in {"preparing", "atStart"} => began[s] = "never"
    /\ shard[s] \in {"preparing", "atStart", "measuring"} => ended[s] = "never"
    /\ shard[s] \in {"measuring", "atEnd", "leaving", "returned"} => began[s] # "never"
    /\ shard[s] \in {"atEnd", "leaving", "returned"} => ended[s] # "never"

\* Once a shard has announced its end boundary, it has stopped measuring: the
\* announcement is on its way, counted, or the count is complete.
Announced(s) == \/ \E i \in 1 .. Len(queue[s]) : queue[s][i] = "end"
                \/ parent = "awaitEnd" /\ s \in arrived
                \/ parent \in {"endHook", "collect", "reported"}
EndsAnnounced == \A s \in Shard : Announced(s) => ended[s] # "never"

\* The parent sets the start event after its start hook, and before that no
\* shard measures, unless its hook failed.
NotOpenYet == parent \in {"awaitStart", "startHook"}
StartKept == /\ "start" \in released => ~NotOpenYet
             /\ NotOpenYet => \A s \in Shard \ unsynced : began[s] = "never"

\* Every shard measured inside the window so far.
InsideWindow == \A s \in Shard \ unsynced : /\ began[s] \in {"never", "awaitEnd"}
                                            /\ ended[s] \in {"never", "awaitEnd"}

\* A run that is over has no live shard, and one that reports lost none.
NoneLeft ==
  /\ parent \in Barrier!Stopped =>
       \A s \in Shard : shard[s] \notin Barrier!Busy \cup Barrier!Blocked
  /\ parent = "reported" => \A s \in Shard : shard[s] = "returned"

\* The count starts anew at each boundary.
CountReset == parent \in {"startHook", "endHook"} => arrived = {}

BarrierInv ==
  /\ Barrier!TypeOK
  /\ HistoryFits
  /\ EndsAnnounced
  /\ NoFailure => StartKept /\ InsideWindow
  /\ NoneLeft
  /\ CountReset

LEMMA BarrierInitInv == Barrier!Init => BarrierInv
BY DEF Barrier!Init, BarrierInv, Barrier!TypeOK, HistoryFits, EndsAnnounced, Announced,
   NoFailure, StartKept, NotOpenYet, InsideWindow, NoneLeft, CountReset, Barrier!Awaits,
   Barrier!Stopped, Barrier!Stages, Barrier!Busy, Barrier!Blocked, Barrier!Finished,
   Barrier!Boundary

-----------------------------------------------------------------------------
(* The steps of a worker.                                                  *)

LEMMA ReachStartInv ==
  ASSUME BarrierInv, NEW s \in Shard, Barrier!ReachStart(s)
  PROVE  BarrierInv'
<1>1. Barrier!TypeOK'
  BY DEF Barrier!ReachStart, Barrier!Move, Barrier!Put, Barrier!parentVars,
     Barrier!history, BarrierInv, Barrier!TypeOK, Barrier!Blocked, Barrier!Boundary
<1>2. HistoryFits'
  BY DEF Barrier!ReachStart, Barrier!Move, Barrier!Put, Barrier!parentVars,
     Barrier!history, BarrierInv, HistoryFits
<1>3. EndsAnnounced'
  BY DEF Barrier!ReachStart, Barrier!Move, Barrier!Put, Barrier!parentVars,
     Barrier!history, BarrierInv, EndsAnnounced, Announced
<1>4. NoFailure' => (StartKept /\ InsideWindow)'
  BY DEF Barrier!ReachStart, Barrier!Move, Barrier!Put, Barrier!parentVars,
     Barrier!history, BarrierInv, NoFailure, StartKept, InsideWindow, NotOpenYet
<1>5. NoneLeft' /\ CountReset'
  BY DEF Barrier!ReachStart, Barrier!Move, Barrier!Put, Barrier!parentVars,
     Barrier!history, BarrierInv, NoneLeft, CountReset, Barrier!Busy
<1> QED BY <1>1, <1>2, <1>3, <1>4, <1>5 DEF BarrierInv

LEMMA BeginInv == ASSUME BarrierInv, NEW s \in Shard, Barrier!Begin(s) PROVE BarrierInv'
<1>1. Barrier!TypeOK'
  BY DEF Barrier!Begin, Barrier!StartReleased, Barrier!Move, Barrier!StampBegan,
     Barrier!parentVars, BarrierInv, Barrier!TypeOK, Barrier!Busy
<1>2. HistoryFits'
  BY DEF Barrier!Begin, Barrier!StartReleased, Barrier!Move, Barrier!StampBegan,
     Barrier!parentVars, BarrierInv, Barrier!TypeOK, HistoryFits, Barrier!Blocked,
     NoneLeft, Barrier!Stages, Barrier!Awaits
<1>3. EndsAnnounced'
  BY DEF Barrier!Begin, Barrier!StartReleased, Barrier!Move, Barrier!StampBegan,
     Barrier!parentVars, BarrierInv, EndsAnnounced, Announced
<1>4. NoFailure' => (StartKept /\ InsideWindow)'
  BY DEF Barrier!Begin, Barrier!StartReleased, Barrier!Move, Barrier!StampBegan,
     Barrier!parentVars, BarrierInv, Barrier!TypeOK, NoFailure, StartKept, InsideWindow,
     NotOpenYet, EndsAnnounced, Announced, HistoryFits, NoneLeft, Barrier!Blocked,
     Barrier!Stages, Barrier!Awaits
<1>5. NoneLeft' /\ CountReset'
  BY DEF Barrier!Begin, Barrier!StartReleased, Barrier!Move, Barrier!StampBegan,
     Barrier!parentVars, BarrierInv, NoneLeft, CountReset, Barrier!Blocked
<1> QED BY <1>1, <1>2, <1>3, <1>4, <1>5 DEF BarrierInv

LEMMA ReachEndInv ==
  ASSUME BarrierInv, NEW s \in Shard, Barrier!ReachEnd(s)
  PROVE  BarrierInv'
<1>1. Barrier!TypeOK'
  BY DEF Barrier!ReachEnd, Barrier!Move, Barrier!Put, Barrier!StampEnded,
     Barrier!parentVars, BarrierInv, Barrier!TypeOK, Barrier!Blocked, Barrier!Boundary
<1>2. HistoryFits'
  BY DEF Barrier!ReachEnd, Barrier!Move, Barrier!Put, Barrier!StampEnded,
     Barrier!parentVars, BarrierInv, Barrier!TypeOK, HistoryFits, Barrier!Busy,
     NoneLeft, Barrier!Stages, Barrier!Awaits
<1>3. EndsAnnounced'
  BY DEF Barrier!ReachEnd, Barrier!Move, Barrier!Put, Barrier!StampEnded,
     Barrier!parentVars, BarrierInv, Barrier!TypeOK, EndsAnnounced, Announced,
     Barrier!Awaits, Barrier!Stopped, Barrier!Stages
<1>4. NoFailure' => (StartKept /\ InsideWindow)'
  BY DEF Barrier!ReachEnd, Barrier!Move, Barrier!Put, Barrier!StampEnded,
     Barrier!parentVars, BarrierInv, Barrier!TypeOK, NoFailure, StartKept, InsideWindow,
     NotOpenYet, EndsAnnounced, Announced, HistoryFits, NoneLeft, Barrier!Busy,
     Barrier!Stages, Barrier!Awaits
<1>5. NoneLeft' /\ CountReset'
  BY DEF Barrier!ReachEnd, Barrier!Move, Barrier!Put, Barrier!StampEnded,
     Barrier!parentVars, BarrierInv, NoneLeft, CountReset, Barrier!Busy
<1> QED BY <1>1, <1>2, <1>3, <1>4, <1>5 DEF BarrierInv

LEMMA LeaveInv == ASSUME BarrierInv, NEW s \in Shard, Barrier!Leave(s) PROVE BarrierInv'
<1>1. Barrier!TypeOK'
  BY DEF Barrier!Leave, Barrier!Move, Barrier!parentVars, Barrier!history, BarrierInv,
     Barrier!TypeOK, Barrier!Busy
<1>2. HistoryFits'
  BY DEF Barrier!Leave, Barrier!Move, Barrier!parentVars, Barrier!history, BarrierInv,
     HistoryFits
<1>3. EndsAnnounced'
  BY DEF Barrier!Leave, Barrier!Move, Barrier!parentVars, Barrier!history, BarrierInv,
     EndsAnnounced, Announced
<1>4. NoFailure' => (StartKept /\ InsideWindow)'
  BY DEF Barrier!Leave, Barrier!Move, Barrier!parentVars, Barrier!history, BarrierInv,
     NoFailure, StartKept, InsideWindow, NotOpenYet
<1>5. NoneLeft' /\ CountReset'
  BY DEF Barrier!Leave, Barrier!Move, Barrier!parentVars, Barrier!history, BarrierInv,
     NoneLeft, CountReset, Barrier!Blocked
<1> QED BY <1>1, <1>2, <1>3, <1>4, <1>5 DEF BarrierInv

LEMMA ReturnInv ==
  ASSUME BarrierInv, NEW s \in Shard, Barrier!Return(s)
  PROVE  BarrierInv'
<1>1. Barrier!TypeOK'
  BY DEF Barrier!Return, Barrier!Move, Barrier!parentVars, Barrier!history, BarrierInv,
     Barrier!TypeOK, Barrier!Finished
<1>2. HistoryFits'
  BY DEF Barrier!Return, Barrier!Move, Barrier!parentVars, Barrier!history, BarrierInv,
     HistoryFits
<1>3. EndsAnnounced'
  BY DEF Barrier!Return, Barrier!Move, Barrier!parentVars, Barrier!history, BarrierInv,
     EndsAnnounced, Announced
<1>4. NoFailure' => (StartKept /\ InsideWindow)'
  BY DEF Barrier!Return, Barrier!Move, Barrier!parentVars, Barrier!history, BarrierInv,
     NoFailure, StartKept, InsideWindow, NotOpenYet
<1>5. NoneLeft' /\ CountReset'
  BY DEF Barrier!Return, Barrier!Move, Barrier!parentVars, Barrier!history, BarrierInv,
     NoneLeft, CountReset, Barrier!Busy
<1> QED BY <1>1, <1>2, <1>3, <1>4, <1>5 DEF BarrierInv

LEMMA FailInv == ASSUME BarrierInv, NEW s \in Shard, Barrier!Fail(s) PROVE BarrierInv'
<1>1. Barrier!TypeOK'
  BY DEF Barrier!Fail, Barrier!Announce, Barrier!Put, Barrier!parentVars,
     Barrier!history, BarrierInv, Barrier!TypeOK, Barrier!Finished
<1>2. HistoryFits'
  BY DEF Barrier!Fail, Barrier!Announce, Barrier!Put, Barrier!parentVars,
     Barrier!history, BarrierInv, HistoryFits
<1>3. EndsAnnounced'
  BY DEF Barrier!Fail, Barrier!Announce, Barrier!Put, Barrier!parentVars,
     Barrier!history, BarrierInv, EndsAnnounced, Announced
<1>4. NoFailure' => (StartKept /\ InsideWindow)'
  BY DEF Barrier!Fail, Barrier!Announce, Barrier!Put, Barrier!parentVars,
     Barrier!history, BarrierInv, Barrier!TypeOK, NoFailure
<1>5. NoneLeft' /\ CountReset'
  BY DEF Barrier!Fail, Barrier!Announce, Barrier!Put, Barrier!parentVars,
     Barrier!history, BarrierInv, NoneLeft, CountReset, Barrier!Busy
<1> QED BY <1>1, <1>2, <1>3, <1>4, <1>5 DEF BarrierInv

LEMMA HookFailsInv ==
  ASSUME BarrierInv, NEW s \in Shard, Barrier!HookFails(s)
  PROVE  BarrierInv'
<1>1. Barrier!TypeOK'
  BY DEF Barrier!HookFails, Barrier!Move, Barrier!StampBegan, Barrier!StampEnded,
     Barrier!parentVars, BarrierInv, Barrier!TypeOK, Barrier!Busy, Barrier!Boundary,
     Barrier!Stages, Barrier!Awaits, Barrier!Stopped
<1>2. HistoryFits'
  BY DEF Barrier!HookFails, Barrier!Move, Barrier!StampBegan, Barrier!StampEnded,
     Barrier!parentVars, BarrierInv, Barrier!TypeOK, HistoryFits, Barrier!Busy,
     Barrier!Blocked, NoneLeft, Barrier!Stages, Barrier!Awaits
<1>3. EndsAnnounced'
  BY DEF Barrier!HookFails, Barrier!Move, Barrier!StampBegan, Barrier!StampEnded,
     Barrier!parentVars, BarrierInv, Barrier!TypeOK, EndsAnnounced, Announced,
     HistoryFits
<1>4. NoFailure' => (StartKept /\ InsideWindow)'
  BY DEF Barrier!HookFails, Barrier!Move, Barrier!StampBegan, Barrier!StampEnded,
     Barrier!parentVars, BarrierInv, Barrier!TypeOK, NoFailure, StartKept, InsideWindow,
     NotOpenYet
<1>5. NoneLeft' /\ CountReset'
  BY DEF Barrier!HookFails, Barrier!Move, Barrier!StampBegan, Barrier!StampEnded,
     Barrier!parentVars, BarrierInv, NoneLeft, CountReset, Barrier!Busy, Barrier!Blocked
<1> QED BY <1>1, <1>2, <1>3, <1>4, <1>5 DEF BarrierInv

LEMMA DieInv == ASSUME BarrierInv, NEW s \in Shard, Barrier!Die(s) PROVE BarrierInv'
<1>1. Barrier!TypeOK'
  BY DEF Barrier!Die, Barrier!parentVars, Barrier!history, BarrierInv, Barrier!TypeOK
<1>2. HistoryFits'
  BY DEF Barrier!Die, Barrier!parentVars, Barrier!history, BarrierInv, HistoryFits
<1>3. EndsAnnounced'
  BY DEF Barrier!Die, Barrier!parentVars, Barrier!history, BarrierInv, EndsAnnounced,
     Announced
<1>4. NoFailure' => (StartKept /\ InsideWindow)'
  BY DEF Barrier!Die, Barrier!parentVars, Barrier!history, BarrierInv, NoFailure,
     StartKept, InsideWindow, NotOpenYet, Barrier!Busy, Barrier!Blocked
<1>5. NoneLeft' /\ CountReset'
  BY DEF Barrier!Die, Barrier!parentVars, Barrier!history, BarrierInv, NoneLeft,
     CountReset, Barrier!Busy, Barrier!Blocked
<1> QED BY <1>1, <1>2, <1>3, <1>4, <1>5 DEF BarrierInv

-----------------------------------------------------------------------------
(* The steps of the parent.                                                *)

LEMMA ReceiveInv ==
  ASSUME BarrierInv, NEW s \in Shard, Barrier!Receive(s)
  PROVE  BarrierInv'
<1>1. Barrier!TypeOK'
  BY DEF Barrier!Receive, Barrier!Counts, Barrier!stage, Barrier!EveryoneArrived,
     Barrier!history, BarrierInv, Barrier!TypeOK, Barrier!Stages
<1>2. HistoryFits'
  BY DEF Barrier!Receive, Barrier!Counts, Barrier!stage, Barrier!EveryoneArrived,
     Barrier!history, BarrierInv, HistoryFits
<1>3. EndsAnnounced'
  BY DEF Barrier!Receive, Barrier!Counts, Barrier!stage, Barrier!EveryoneArrived,
     Barrier!history, BarrierInv, EndsAnnounced, Announced, Barrier!Awaits
<1>4. NoFailure' => (StartKept /\ InsideWindow)'
  BY DEF Barrier!Receive, Barrier!Counts, Barrier!stage, Barrier!EveryoneArrived,
     Barrier!history, BarrierInv, NoFailure, StartKept, InsideWindow, NotOpenYet
<1>5. NoneLeft' /\ CountReset'
  BY DEF Barrier!Receive, Barrier!Counts, Barrier!stage, Barrier!EveryoneArrived,
     Barrier!history, BarrierInv, NoneLeft, CountReset, Barrier!Awaits, Barrier!Stopped
<1> QED BY <1>1, <1>2, <1>3, <1>4, <1>5 DEF BarrierInv

LEMMA ReceiveErrorInv ==
  ASSUME BarrierInv, NEW s \in Shard, Barrier!ReceiveError(s)
  PROVE  BarrierInv'
<1>1. Barrier!TypeOK'
  BY DEF Barrier!ReceiveError, Barrier!Raise, Barrier!history, BarrierInv,
     Barrier!TypeOK, Barrier!Stages, Barrier!Stopped
<1>2. HistoryFits'
  BY DEF Barrier!ReceiveError, Barrier!Raise, Barrier!history, BarrierInv, HistoryFits
<1>3. EndsAnnounced'
  BY DEF Barrier!ReceiveError, Barrier!Raise, Barrier!history, BarrierInv,
     EndsAnnounced, Announced
<1>4. NoFailure' => (StartKept /\ InsideWindow)'
  BY DEF Barrier!ReceiveError, Barrier!Raise, Barrier!history, BarrierInv, NoFailure,
     StartKept, InsideWindow, NotOpenYet, Barrier!Busy, Barrier!Blocked
<1>5. NoneLeft' /\ CountReset'
  BY DEF Barrier!ReceiveError, Barrier!Raise, Barrier!history, BarrierInv, NoneLeft,
     CountReset, Barrier!Busy, Barrier!Blocked
<1> QED BY <1>1, <1>2, <1>3, <1>4, <1>5 DEF BarrierInv

LEMMA GiveUpInv == ASSUME BarrierInv, Barrier!GiveUp PROVE BarrierInv'
<1>1. Barrier!TypeOK'
  BY DEF Barrier!GiveUp, Barrier!Raise, Barrier!history, BarrierInv, Barrier!TypeOK,
     Barrier!Stages, Barrier!Stopped
<1>2. HistoryFits'
  BY DEF Barrier!GiveUp, Barrier!Raise, Barrier!history, BarrierInv, HistoryFits
<1>3. EndsAnnounced'
  BY DEF Barrier!GiveUp, Barrier!Raise, Barrier!history, BarrierInv, EndsAnnounced,
     Announced
<1>4. NoFailure' => (StartKept /\ InsideWindow)'
  BY DEF Barrier!GiveUp, Barrier!Raise, Barrier!history, BarrierInv, NoFailure,
     StartKept, InsideWindow, NotOpenYet, Barrier!Busy, Barrier!Blocked
<1>5. NoneLeft' /\ CountReset'
  BY DEF Barrier!GiveUp, Barrier!Raise, Barrier!history, BarrierInv, NoneLeft,
     CountReset, Barrier!Busy, Barrier!Blocked
<1> QED BY <1>1, <1>2, <1>3, <1>4, <1>5 DEF BarrierInv

LEMMA StartHookInv == ASSUME BarrierInv, Barrier!StartHook PROVE BarrierInv'
<1>1. Barrier!TypeOK'
  BY DEF Barrier!StartHook, Barrier!RunHook, Barrier!Raise, Barrier!history, BarrierInv,
     Barrier!TypeOK, Barrier!Boundary, Barrier!Stages, Barrier!Awaits, Barrier!Stopped
<1>2. HistoryFits'
  BY DEF Barrier!StartHook, Barrier!RunHook, Barrier!Raise, Barrier!history, BarrierInv,
     HistoryFits
<1>3. EndsAnnounced'
  BY DEF Barrier!StartHook, Barrier!RunHook, Barrier!Raise, Barrier!history, BarrierInv,
     EndsAnnounced, Announced, CountReset
<1>4. NoFailure' => (StartKept /\ InsideWindow)'
  BY DEF Barrier!StartHook, Barrier!RunHook, Barrier!Raise, Barrier!history, BarrierInv,
     NoFailure, StartKept, InsideWindow, NotOpenYet, Barrier!Busy, Barrier!Blocked
<1>5. NoneLeft' /\ CountReset'
  BY DEF Barrier!StartHook, Barrier!RunHook, Barrier!Raise, Barrier!history, BarrierInv,
     NoneLeft, CountReset, Barrier!Busy, Barrier!Blocked, Barrier!Stopped
<1> QED BY <1>1, <1>2, <1>3, <1>4, <1>5 DEF BarrierInv

LEMMA EndHookInv == ASSUME BarrierInv, Barrier!EndHook PROVE BarrierInv'
<1>1. Barrier!TypeOK'
  BY DEF Barrier!EndHook, Barrier!RunHook, Barrier!Raise, Barrier!history, BarrierInv,
     Barrier!TypeOK, Barrier!Boundary, Barrier!Stages, Barrier!Stopped
<1>2. HistoryFits'
  BY DEF Barrier!EndHook, Barrier!RunHook, Barrier!Raise, Barrier!history, BarrierInv,
     HistoryFits
<1>3. EndsAnnounced'
  BY DEF Barrier!EndHook, Barrier!RunHook, Barrier!Raise, Barrier!history, BarrierInv,
     EndsAnnounced, Announced
<1>4. NoFailure' => (StartKept /\ InsideWindow)'
  BY DEF Barrier!EndHook, Barrier!RunHook, Barrier!Raise, Barrier!history, BarrierInv,
     NoFailure, StartKept, InsideWindow, NotOpenYet, NoneLeft, Barrier!Busy,
     Barrier!Blocked, Barrier!Stages, Barrier!Awaits
<1>5. NoneLeft' /\ CountReset'
  BY DEF Barrier!EndHook, Barrier!RunHook, Barrier!Raise, Barrier!history, BarrierInv,
     NoneLeft, CountReset, Barrier!Busy, Barrier!Blocked, Barrier!Stopped
<1> QED BY <1>1, <1>2, <1>3, <1>4, <1>5 DEF BarrierInv

LEMMA CollectInv == ASSUME BarrierInv, Barrier!Collect PROVE BarrierInv'
<1>1. Barrier!TypeOK'
  BY DEF Barrier!Collect, Barrier!Ready, Barrier!AllReturned, Barrier!Raise,
     Barrier!history, BarrierInv, Barrier!TypeOK, Barrier!Stages, Barrier!Stopped
<1>2. HistoryFits'
  BY DEF Barrier!Collect, Barrier!Ready, Barrier!AllReturned, Barrier!Raise,
     Barrier!history, BarrierInv, HistoryFits
<1>3. EndsAnnounced'
  BY DEF Barrier!Collect, Barrier!Ready, Barrier!AllReturned, Barrier!Raise,
     Barrier!history, BarrierInv, EndsAnnounced, Announced
<1>4. NoFailure' => (StartKept /\ InsideWindow)'
  BY DEF Barrier!Collect, Barrier!Ready, Barrier!AllReturned, Barrier!Raise,
     Barrier!history, BarrierInv, NoFailure, StartKept, InsideWindow, NotOpenYet,
     NoneLeft, Barrier!Busy, Barrier!Blocked, Barrier!Stages
<1>5. NoneLeft' /\ CountReset'
  BY DEF Barrier!Collect, Barrier!Ready, Barrier!AllReturned, Barrier!Raise,
     Barrier!history, BarrierInv, NoneLeft, CountReset, Barrier!Busy, Barrier!Blocked
<1> QED BY <1>1, <1>2, <1>3, <1>4, <1>5 DEF BarrierInv

LEMMA BarrierStutterInv == BarrierInv /\ UNCHANGED Barrier!vars => BarrierInv'
BY DEF Barrier!vars, Barrier!history, Barrier!parentVars, BarrierInv, Barrier!TypeOK,
   HistoryFits, EndsAnnounced, Announced, NoFailure, StartKept, NotOpenYet,
   InsideWindow, NoneLeft, CountReset

-----------------------------------------------------------------------------
(* The theorems.                                                           *)

LEMMA BarrierNextInv == BarrierInv /\ [Barrier!Next]_(Barrier!vars) => BarrierInv'
<1> SUFFICES ASSUME BarrierInv, [Barrier!Next]_(Barrier!vars) PROVE BarrierInv'
  OBVIOUS
<1>1. ASSUME NEW s \in Shard, Barrier!Work(s) PROVE BarrierInv'
  BY <1>1, ReachStartInv, BeginInv, ReachEndInv, LeaveInv, ReturnInv DEF Barrier!Work
<1>2. ASSUME NEW s \in Shard, Barrier!Fault(s) PROVE BarrierInv'
  BY <1>2, FailInv, HookFailsInv, DieInv DEF Barrier!Fault
<1>3. ASSUME NEW s \in Shard, Barrier!Serve(s) PROVE BarrierInv'
  BY <1>3, ReceiveInv, ReceiveErrorInv DEF Barrier!Serve
<1>4. CASE Barrier!Parent
  BY <1>4, GiveUpInv, StartHookInv, EndHookInv, CollectInv DEF Barrier!Parent
<1>5. CASE Barrier!Over \/ UNCHANGED Barrier!vars
  BY <1>5, BarrierStutterInv DEF Barrier!Over
<1> QED BY <1>1, <1>2, <1>3, <1>4, <1>5 DEF Barrier!Next

THEOREM BarrierInvAlways == Barrier!Spec => []BarrierInv
BY BarrierInitInv, BarrierNextInv, PTL DEF Barrier!Spec

\* A reported result is covered by the measured window, whatever hooks fail and
\* whichever workers are killed (run_shards, _wait_for_workers).
THEOREM WindowAlwaysCovered == Barrier!Spec => []WindowCovered
<1>1. BarrierInv => WindowCovered
  <2> SUFFICES ASSUME BarrierInv, parent = "reported", NEW s \in Shard \ unsynced
               PROVE  began[s] = "awaitEnd" /\ ended[s] = "awaitEnd"
    BY DEF WindowCovered
  <2>1. NoFailure /\ shard[s] = "returned"
    BY DEF BarrierInv, NoneLeft, NoFailure
  <2>2. began[s] # "never" /\ ended[s] # "never"
    BY <2>1 DEF BarrierInv, HistoryFits
  <2> QED BY <2>1, <2>2 DEF BarrierInv, InsideWindow
<1> QED BY <1>1, BarrierInvAlways, PTL

\* Every variable has its type.
THEOREM BarrierTypeCorrect == Barrier!Spec => []Barrier!TypeOK
BY BarrierInvAlways, PTL DEF BarrierInv

-----------------------------------------------------------------------------
(* The refinement: every step of the barrier is one of the abstract window *)
(* or leaves it as it is.                                                  *)

\* The window is void.
Void == parent = "raised" \/ unsynced # {} \/ \E s \in Shard : shard[s] = "failed"

LEMMA InitMaps == Barrier!Init => Window!Init
BY DEF Barrier!Init, Window!Init

LEMMA VoidStays ==
  ASSUME Barrier!TypeOK, [Barrier!Next]_(Barrier!vars), Void
  PROVE  Void'
BY DEF Barrier!TypeOK, Void, Barrier!Next, Barrier!Work, Barrier!Fault, Barrier!Serve,
   Barrier!Parent, Barrier!Over, Barrier!ReachStart, Barrier!Begin, Barrier!ReachEnd,
   Barrier!Leave, Barrier!Return, Barrier!Fail, Barrier!HookFails, Barrier!Die,
   Barrier!Receive, Barrier!ReceiveError, Barrier!GiveUp, Barrier!StartHook,
   Barrier!EndHook, Barrier!Collect, Barrier!RunHook, Barrier!Raise, Barrier!Move,
   Barrier!vars, Barrier!history, Barrier!parentVars, Barrier!Busy, Barrier!Blocked,
   Barrier!Finished, Barrier!Awaits

\* Nothing happens any more once a result is reported.
LEMMA ReportedStays ==
  ASSUME BarrierInv, [Barrier!Next]_(Barrier!vars), parent = "reported"
  PROVE  UNCHANGED Barrier!vars
BY DEF BarrierInv, NoneLeft, Barrier!Next, Barrier!Work, Barrier!Fault, Barrier!Serve,
   Barrier!Parent, Barrier!Over, Barrier!ReachStart, Barrier!Begin, Barrier!ReachEnd,
   Barrier!Leave, Barrier!Return, Barrier!Fail, Barrier!HookFails, Barrier!Die,
   Barrier!Receive, Barrier!ReceiveError, Barrier!GiveUp, Barrier!StartHook,
   Barrier!EndHook, Barrier!Collect, Barrier!RunHook, Barrier!Move, Barrier!Busy,
   Barrier!Blocked, Barrier!Awaits

LEMMA NextMaps ==
  ASSUME BarrierInv, [Barrier!Next]_(Barrier!vars)
  PROVE  [Window!Next]_(Window!vars)
<1>1. CASE UNCHANGED Barrier!vars
  BY <1>1 DEF Barrier!vars, Barrier!history, Barrier!parentVars, Window!vars
<1>2. CASE Void' /\ parent # "reported"
  <2>1. ~(parent' = "reported" /\ unsynced' = {})
    BY <1>2, BarrierNextInv DEF Void, BarrierInv, NoneLeft
  <2>2. Window!Lose
    BY <1>2, <2>1 DEF Void, Window!Lose
  <2> QED BY <2>2 DEF Window!Next
<1>3. CASE ~Void' /\ parent # "reported"
  <2>1. ~Void /\ NoFailure /\ unsynced = {}
    BY <1>3, VoidStays DEF BarrierInv, Void, NoFailure
  <2>2. ASSUME NEW s \in Shard, Barrier!ReachStart(s) \/ Barrier!Leave(s) \/ Barrier!Return(s)
        PROVE  UNCHANGED Window!vars
    BY <1>3, <2>1, <2>2 DEF Void, Window!vars, Barrier!ReachStart,
       Barrier!Leave, Barrier!Return, Barrier!Move, Barrier!history, Barrier!parentVars,
       BarrierInv, Barrier!TypeOK
  <2>3. ASSUME NEW s \in Shard, Barrier!Begin(s) PROVE Window!Measure(s)
    <3>1. parent = "awaitEnd"
      BY <1>3, <2>1, <2>3 DEF Barrier!Begin, Barrier!StartReleased, Barrier!Move,
         BarrierInv, Barrier!TypeOK, StartKept, NotOpenYet, EndsAnnounced, Announced,
         HistoryFits, Barrier!Stages, Barrier!Awaits, Barrier!Stopped, Void
    <3>2. shard[s] = "atStart" /\ ended[s] = "never"
      BY <2>3 DEF Barrier!Begin, Barrier!Move, BarrierInv, HistoryFits
    <3> QED BY <1>3, <2>1, <2>3, <3>1, <3>2 DEF Void, Window!Measure,
               Barrier!Begin, Barrier!Move, Barrier!StampBegan, Barrier!parentVars,
               BarrierInv, Barrier!TypeOK
  <2>4. ASSUME NEW s \in Shard, Barrier!ReachEnd(s) PROVE Window!Measured(s)
    <3>1. parent # "never"
      BY DEF BarrierInv, Barrier!TypeOK, Barrier!Stages, Barrier!Awaits, Barrier!Stopped
    <3> QED BY <1>3, <2>1, <2>4, <3>1 DEF Void, Window!Measured,
               Barrier!ReachEnd, Barrier!Move, Barrier!StampEnded, Barrier!parentVars,
               BarrierInv, Barrier!TypeOK
  <2>5. ASSUME NEW s \in Shard, Barrier!Die(s)
        PROVE  Window!Vanish(s) \/ UNCHANGED Window!vars
    BY <1>3, <2>1, <2>5 DEF Void, Window!Vanish, Window!vars,
       Barrier!Die, Barrier!history, Barrier!parentVars, BarrierInv, Barrier!TypeOK
  <2>6. ASSUME NEW s \in Shard
        PROVE  /\ ~Barrier!Fail(s) /\ ~Barrier!HookFails(s)
               /\ ~Barrier!ReceiveError(s) /\ ~Barrier!GiveUp
    BY <1>3 DEF Void, Barrier!Fail, Barrier!HookFails, Barrier!ReceiveError,
       Barrier!GiveUp, Barrier!Raise, BarrierInv, Barrier!TypeOK
  <2>7. ASSUME NEW s \in Shard, Barrier!Receive(s) PROVE UNCHANGED Window!vars
    BY <1>3, <2>1, <2>7 DEF Void, Window!vars, Barrier!Receive, Barrier!stage,
       Barrier!Awaits, Barrier!history
  <2>8. CASE Barrier!StartHook
    <3>1. Window!Open
      BY <1>3, <2>1, <2>8 DEF Void, Window!Open, Barrier!StartHook,
         Barrier!RunHook, Barrier!Raise, Barrier!history
    <3> QED BY <3>1 DEF Window!Next
  <2>9. CASE Barrier!EndHook
    <3>1. \A s \in Shard : ended[s] # "never"
      BY <2>9 DEF Barrier!EndHook, Barrier!RunHook, BarrierInv, EndsAnnounced, Announced
    <3>2. Window!Close
      BY <1>3, <2>1, <2>9, <3>1 DEF Void, Window!Close, Barrier!EndHook,
         Barrier!RunHook, Barrier!Raise, Barrier!history
    <3> QED BY <3>2 DEF Window!Next
  <2>10. CASE Barrier!Collect
    <3>1. Window!Report
      BY <1>3, <2>1, <2>10 DEF Void, Window!Report, Barrier!Collect,
         Barrier!Raise, Barrier!history
    <3> QED BY <3>1 DEF Window!Next
  <2>11. CASE Barrier!GiveUp
    BY <1>3, <2>11 DEF Void, Barrier!GiveUp, Barrier!Raise
  <2>12. CASE Barrier!Over
    BY <1>1, <2>12 DEF Barrier!Over
  <2> QED BY <1>1, <2>2, <2>3, <2>4, <2>5, <2>6, <2>7, <2>8, <2>9, <2>10, <2>11, <2>12
             DEF Barrier!Next, Barrier!Work, Barrier!Fault, Barrier!Serve,
             Barrier!Parent, Window!Next
<1> QED BY <1>1, <1>2, <1>3, ReportedStays

\* run_shards implements the measured window (MeasureWindow): it opens before any
\* shard measures and closes when all have, or no result follows.
THEOREM BarrierImplementsWindow == Barrier!Spec => WindowSpec
<1>1. Barrier!Init => Window!Init
  BY InitMaps
<1>2. BarrierInv /\ [Barrier!Next]_(Barrier!vars) => [Window!Next]_(Window!vars)
  BY NextMaps
<1> QED BY <1>1, <1>2, BarrierInvAlways, PTL DEF Barrier!Spec, WindowSpec,
           Window!Spec
=============================================================================
