------------------------- MODULE ResultReports_proofs -------------------------
(***************************************************************************)
(* Proofs about the reports of a run, for any shards, operation types,     *)
(* interval and number of operations: the time series and the summary      *)
(* count the same operations, the backlog at a boundary is what was in     *)
(* flight, percentiles are the nearest ranks, and the error breakdown adds *)
(* up.                                                                     *)
(*                                                                         *)
(* The reports are functions of the requests and the stamps; the invariant *)
(* says of those what the run guarantees (an operation belongs to a        *)
(* measured phase and ends in it, an error has a detail) and ties the      *)
(* history to the requests.                                                *)
(***************************************************************************)
EXTENDS ResultReports, FiniteSetTheorems, SequenceTheorems, WellFoundedInduction, TLAPS

-----------------------------------------------------------------------------
(* Sums over finite sets.  What the fold is for a set of any size is shown  *)
(* by a smallest set for which it is not.                                   *)

LEMMA SmallestSet ==
  ASSUME NEW D, D # {}, \A s \in D : IsFiniteSet(s)
  PROVE  \E s \in D : \A u \in D : u \subseteq s => u = s
<1> DEFINE S == UNION D
           R == StrictSubsetOrdering(S)
<1>1. IsWellFoundedOn(R, FiniteSubsetsOf(S))
  BY FS_StrictSubsetOrderingWellFounded
<1>2. D \subseteq FiniteSubsetsOf(S)
  BY DEF FiniteSubsetsOf
<1>3. \E x \in D : \A y \in D : ~(<<y, x>> \in R)
  <2> HIDE DEF R
  <2> QED BY <1>1, <1>2, WFMin
<1>4. ASSUME NEW x \in D, NEW y \in D, ~(<<y, x>> \in R), y \subseteq x PROVE y = x
  BY <1>4, SMT DEF StrictSubsetOrdering
<1> QED BY <1>3, <1>4

LEMMA LeastNumber ==
  ASSUME NEW N, N \subseteq Nat, N # {}
  PROVE  \E n \in N : \A m \in N : n <= m
<1> DEFINE D == {1 .. n : n \in N}
<1>1. D # {} /\ \A s \in D : IsFiniteSet(s)
  <2>1. D # {}
    OBVIOUS
  <2>2. \A n \in N : IsFiniteSet(1 .. n)
    BY FS_Interval
  <2> QED BY <2>1, <2>2
<1>2. PICK s \in D : \A u \in D : u \subseteq s => u = s
  <2> HIDE DEF D
  <2> QED BY <1>1, SmallestSet
<1>3. PICK n \in N : s = 1 .. n
  OBVIOUS
<1>4. ASSUME NEW m \in N, m < n PROVE FALSE
  <2>1. 1 .. m \in D /\ 1 .. m \subseteq s
    BY <1>3, <1>4
  <2>2. 1 .. m = s
    BY <1>2, <2>1
  <2>3. n \in s /\ n \notin 1 .. m
    BY <1>3, <1>4
  <2> QED BY <2>2, <2>3
<1> QED BY <1>4

SumOf(f, S) == MapThenSumSet(LAMBDA x : f[x], S)
One(S) == CHOOSE x \in S : TRUE

\* The equation of the fold over the sets of family F.
Partial(g, f, F) == \A s \in F : g[s] = IF s = {} THEN 0 ELSE f[One(s)] + g[s \ {One(s)}]

\* For the subsets of at most n elements it has a solution.
LEMMA PartialSums ==
  ASSUME NEW S, IsFiniteSet(S), NEW f, NEW n \in Nat
  PROVE  \E g : /\ g = [s \in SUBSET S |-> g[s]]
                /\ Partial(g, f, {s \in SUBSET S : Cardinality(s) <= n})
<1> DEFINE Upto(m) == {s \in SUBSET S : Cardinality(s) <= m}
           Good(m) == \E g : g = [s \in SUBSET S |-> g[s]] /\ Partial(g, f, Upto(m))
           Bad == {m \in Nat : ~Good(m)}
<1>1. SUFFICES ASSUME Bad # {} PROVE FALSE
  OBVIOUS
<1>2. PICK m \in Bad : \A k \in Bad : m <= k
  <2>1. Bad \subseteq Nat
    OBVIOUS
  <2> HIDE DEF Bad
  <2> QED BY <1>1, <2>1, LeastNumber
<1>3. \A s \in SUBSET S : IsFiniteSet(s) /\ Cardinality(s) \in Nat /\ (Cardinality(s) = 0 <=> s = {})
  BY FS_Subset, FS_EmptySet, FS_CardinalityType
<1>4. CASE m = 0
  <2> DEFINE g == [s \in SUBSET S |-> 0]
  <2>1. g = [s \in SUBSET S |-> g[s]]
    OBVIOUS
  <2>2. \A s \in Upto(0) : s = {}
    BY <1>3
  <2>3. Partial(g, f, Upto(0))
    BY <2>2 DEF Partial
  <2> HIDE DEF g
  <2> QED BY <1>4, <2>1, <2>3
<1>5. CASE m > 0
  <2>1. m - 1 \in Nat /\ m - 1 \notin Bad
    <3>1. m \in Nat
      OBVIOUS
    <3> HIDE DEF Bad
    <3> QED BY <1>2, <1>5, <3>1
  <2>2. PICK g : g = [s \in SUBSET S |-> g[s]] /\ Partial(g, f, Upto(m - 1))
    BY <2>1
  <2> DEFINE h == [s \in SUBSET S |-> IF s = {} THEN 0 ELSE f[One(s)] + g[s \ {One(s)}]]
  <2>3. h = [s \in SUBSET S |-> h[s]]
    OBVIOUS
  <2>4. ASSUME NEW s \in Upto(m), s # {} PROVE g[s \ {One(s)}] = h[s \ {One(s)}]
    <3>1. One(s) \in s /\ s \in SUBSET S
      BY <2>4 DEF One
    <3>2. /\ Cardinality(s \ {One(s)}) = Cardinality(s) - 1
      BY <1>3, <3>1, FS_RemoveElement
    <3>3. s \ {One(s)} \in Upto(m - 1)
      BY <1>3, <1>2, <3>1, <3>2
    <3> QED BY <2>2, <3>3 DEF Partial
  <2>5. Partial(h, f, Upto(m))
    <3> SUFFICES ASSUME NEW s \in Upto(m)
                 PROVE h[s] = IF s = {} THEN 0 ELSE f[One(s)] + h[s \ {One(s)}]
      BY DEF Partial
    <3>1. h[s] = IF s = {} THEN 0 ELSE f[One(s)] + g[s \ {One(s)}]
      OBVIOUS
    <3> HIDE DEF h
    <3> QED BY <2>4, <3>1
  <2> HIDE DEF h
  <2> QED BY <2>3, <2>5
<1> QED BY <1>2, <1>4, <1>5

\* The fold is the value of one solution on all subsets.
LEMMA SumSolution ==
  ASSUME NEW S, IsFiniteSet(S), NEW f
  PROVE  \E g : Partial(g, f, SUBSET S) /\ SumOf(f, S) = g[S]
<1> DEFINE Eqn(g) == g = [s \in SUBSET S |->
                            IF s = {} THEN 0 ELSE f[CHOOSE x \in s : TRUE]
                                                  + g[s \ {CHOOSE x \in s : TRUE}]]
           it == CHOOSE g : Eqn(g)
<1>1. \E g : Eqn(g)
  <2>1. Cardinality(S) \in Nat /\ \A s \in SUBSET S : Cardinality(s) <= Cardinality(S)
    BY FS_CardinalityType, FS_Subset
  <2>2. {s \in SUBSET S : Cardinality(s) <= Cardinality(S)} = SUBSET S
    BY <2>1
  <2>3. PICK g : /\ g = [s \in SUBSET S |-> g[s]]
                 /\ Partial(g, f, {s \in SUBSET S : Cardinality(s) <= Cardinality(S)})
    BY <2>1, PartialSums
  <2>4. Eqn(g)
    BY <2>2, <2>3 DEF Partial, One
  <2> QED BY <2>4
<1>2. Eqn(it)
  <2> HIDE DEF Eqn
  <2> QED BY <1>1, Zenon
<1>3. SumOf(f, S) = it[S]
  BY DEF SumOf, MapThenSumSet, MapThenFoldSet
<1>4. Partial(it, f, SUBSET S)
  <2> HIDE DEF it
  <2> QED BY <1>2 DEF Partial, One
<1> QED BY <1>3, <1>4

\* Two solutions agree wherever both are one, also for functions that agree.
LEMMA SolutionsAgree ==
  ASSUME NEW S, IsFiniteSet(S), NEW f, NEW h, \A x \in S : f[x] = h[x],
         NEW a, NEW b, Partial(a, f, SUBSET S), Partial(b, h, SUBSET S)
  PROVE  a[S] = b[S]
<1> DEFINE D == {s \in SUBSET S : a[s] # b[s]}
<1> SUFFICES ASSUME D # {} PROVE FALSE
  OBVIOUS
<1>1. \A s \in D : IsFiniteSet(s)
  BY FS_Subset
<1>2. PICK s \in D : \A u \in D : u \subseteq s => u = s
  <2> HIDE DEF D
  <2> QED BY <1>1, SmallestSet
<1>3. s \in SUBSET S /\ a[s] # b[s]
  OBVIOUS
<1>4. s # {}
  BY <1>3 DEF Partial
<1>5. One(s) \in s
  BY <1>4 DEF One
<1>6. s \ {One(s)} \in SUBSET S /\ s \ {One(s)} \notin D
  BY <1>2, <1>5
<1>7. a[s \ {One(s)}] = b[s \ {One(s)}] /\ f[One(s)] = h[One(s)]
  BY <1>3, <1>5, <1>6
<1> HIDE DEF D
<1> QED BY <1>3, <1>4, <1>7 DEF Partial

LEMMA SumSame ==
  ASSUME NEW S, IsFiniteSet(S), NEW f, NEW h, \A x \in S : f[x] = h[x]
  PROVE  SumOf(f, S) = SumOf(h, S)
<1>1. PICK a : Partial(a, f, SUBSET S) /\ SumOf(f, S) = a[S]
  BY SumSolution
<1>2. PICK b : Partial(b, h, SUBSET S) /\ SumOf(h, S) = b[S]
  BY SumSolution
<1> QED BY <1>1, <1>2, SolutionsAgree

LEMMA SumEmpty == ASSUME NEW f PROVE SumOf(f, {}) = 0
BY SumSolution, FS_EmptySet DEF Partial

LEMMA SumChosen ==
  ASSUME NEW S, IsFiniteSet(S), S # {}, NEW f
  PROVE  One(S) \in S /\ SumOf(f, S) = f[One(S)] + SumOf(f, S \ {One(S)})
<1>1. One(S) \in S
  BY DEF One
<1> DEFINE T == S \ {One(S)}
<1>2. IsFiniteSet(T) /\ T \subseteq S
  BY FS_Subset
<1>3. PICK g : Partial(g, f, SUBSET S) /\ SumOf(f, S) = g[S]
  BY SumSolution
<1>4. PICK k : Partial(k, f, SUBSET T) /\ SumOf(f, T) = k[T]
  BY <1>2, SumSolution
<1>5. Partial(g, f, SUBSET T)
  BY <1>2, <1>3 DEF Partial
<1>6. g[T] = k[T]
  BY <1>2, <1>4, <1>5, SolutionsAgree
<1>7. g[S] = f[One(S)] + g[T]
  BY <1>3 DEF Partial
<1> QED BY <1>1, <1>3, <1>4, <1>6, <1>7

\* A sum of naturals, taken apart at any of its elements.
LEMMA SumSplit ==
  ASSUME NEW S, IsFiniteSet(S), NEW f, \A x \in S : f[x] \in Nat
  PROVE  /\ SumOf(f, S) \in Nat
         /\ \A x \in S : SumOf(f, S) = f[x] + SumOf(f, S \ {x})
<1> DEFINE Apart(s) == /\ SumOf(f, s) \in Nat
                       /\ \A x \in s : SumOf(f, s) = f[x] + SumOf(f, s \ {x})
           D == {s \in SUBSET S : ~Apart(s)}
<1> SUFFICES ASSUME D # {} PROVE FALSE
  OBVIOUS
<1>1. \A s \in SUBSET S : IsFiniteSet(s)
  BY FS_Subset
<1>2. PICK s \in D : \A u \in D : u \subseteq s => u = s
  <2>1. \A t \in D : IsFiniteSet(t)
    BY <1>1
  <2> HIDE DEF D
  <2> QED BY <2>1, SmallestSet
<1>3. s \in SUBSET S /\ ~Apart(s) /\ IsFiniteSet(s)
  BY <1>1
<1>4. ASSUME NEW u \in SUBSET s, u # s PROVE Apart(u)
  <2>1. u \in SUBSET S /\ u \notin D
    BY <1>2, <1>3, <1>4
  <2> HIDE DEF Apart
  <2> QED BY <2>1
<1> HIDE DEF D
<1>5. CASE s = {}
  BY <1>3, <1>5, SumEmpty
<1>6. CASE s # {}
  <2> DEFINE c == One(s)
  <2>1. c \in s /\ SumOf(f, s) = f[c] + SumOf(f, s \ {c})
    BY <1>3, <1>6, SumChosen
  <2> HIDE DEF c
  <2>2. Apart(s \ {c})
    BY <1>4, <2>1
  <2>3. SumOf(f, s) \in Nat
    BY <1>3, <2>1, <2>2
  <2>4. ASSUME NEW x \in s, x # c PROVE SumOf(f, s) = f[x] + SumOf(f, s \ {x})
    <3>1. Apart(s \ {x})
      BY <1>4
    <3>2. x \in s \ {c} /\ c \in s \ {x}
      BY <2>1, <2>4
    <3>3. (s \ {c}) \ {x} = (s \ {x}) \ {c} /\ (s \ {c}) \ {x} # s
      BY <2>1
    <3>4. SumOf(f, s \ {c}) = f[x] + SumOf(f, (s \ {c}) \ {x})
      BY <2>2, <3>2
    <3>5. SumOf(f, s \ {x}) = f[c] + SumOf(f, (s \ {c}) \ {x})
      BY <3>1, <3>2, <3>3
    <3>6. SumOf(f, (s \ {c}) \ {x}) \in Nat
      BY <1>4, <3>3
    <3>7. f[x] \in Nat /\ f[c] \in Nat
      BY <1>3, <2>1
    <3> QED BY <2>1, <3>4, <3>5, <3>6, <3>7
  <2> QED BY <1>3, <2>1, <2>3, <2>4
<1> QED BY <1>5, <1>6
\* One summand changes.
LEMMA SumChange ==
  ASSUME NEW S, IsFiniteSet(S), NEW f, NEW h, NEW x \in S, \A y \in S : f[y] \in Nat /\ h[y] \in Nat,
         \A y \in S \ {x} : f[y] = h[y]
  PROVE  SumOf(h, S) + f[x] = SumOf(f, S) + h[x]
<1>1. IsFiniteSet(S \ {x})
  BY FS_Subset
<1>2. SumOf(f, S \ {x}) = SumOf(h, S \ {x}) /\ SumOf(f, S \ {x}) \in Nat
  BY <1>1, SumSame, SumSplit
<1>3. SumOf(f, S) = f[x] + SumOf(f, S \ {x}) /\ SumOf(h, S) = h[x] + SumOf(h, S \ {x})
  BY SumSplit
<1>4. f[x] \in Nat /\ h[x] \in Nat
  OBVIOUS
<1> QED BY <1>2, <1>3, <1>4

LEMMA SumZero ==
  ASSUME NEW S, IsFiniteSet(S), NEW f, \A x \in S : f[x] = 0
  PROVE  SumOf(f, S) = 0
<1> DEFINE D == {s \in SUBSET S : SumOf(f, s) # 0}
<1> SUFFICES ASSUME D # {} PROVE FALSE
  OBVIOUS
<1>1. \A s \in SUBSET S : IsFiniteSet(s)
  BY FS_Subset
<1>2. PICK s \in D : \A u \in D : u \subseteq s => u = s
  <2>1. \A t \in D : IsFiniteSet(t)
    BY <1>1
  <2> HIDE DEF D
  <2> QED BY <2>1, SmallestSet
<1>3. s # {} /\ s \in SUBSET S
  BY SumEmpty
<1>4. One(s) \in s /\ SumOf(f, s) = f[One(s)] + SumOf(f, s \ {One(s)})
  BY <1>1, <1>3, SumChosen
<1>5. SumOf(f, s \ {One(s)}) = 0
  BY <1>2, <1>3, <1>4
<1> QED BY <1>3, <1>4, <1>5

-----------------------------------------------------------------------------
(* Finite sets of integers.                                                *)

LEMMA LeastOf ==
  ASSUME NEW S, IsFiniteSet(S), S \subseteq Int, S # {}
  PROVE  /\ Min(S) \in S /\ \A x \in S : Min(S) <= x
         /\ Max(S) \in S /\ \A x \in S : x <= Max(S)
<1> DEFINE Below(x) == {y \in S : y <= x}
           Above(x) == {y \in S : x <= y}
           D == {Below(x) : x \in S}
           E == {Above(x) : x \in S}
<1>0. ASSUME NEW x \in S PROVE IsFiniteSet(Below(x)) /\ IsFiniteSet(Above(x))
  <2>1. Below(x) \in SUBSET S /\ Above(x) \in SUBSET S
    OBVIOUS
  <2> HIDE DEF Below, Above
  <2> QED BY <2>1, FS_Subset
<1>1. D # {} /\ (\A s \in D : IsFiniteSet(s)) /\ E # {} /\ \A s \in E : IsFiniteSet(s)
  <2> HIDE DEF Below, Above
  <2> QED BY <1>0
<1>2. PICK d \in D : \A u \in D : u \subseteq d => u = d
  <2> HIDE DEF D
  <2> QED BY <1>1, SmallestSet
<1>3. PICK e \in E : \A u \in E : u \subseteq e => u = e
  <2> HIDE DEF E
  <2> QED BY <1>1, SmallestSet
<1>4. PICK x \in S : d = Below(x)
  OBVIOUS
<1>5. PICK z \in S : e = Above(z)
  OBVIOUS
<1>6. ASSUME NEW y \in S, y < x PROVE FALSE
  <2>1. Below(y) \subseteq Below(x) /\ x \in Below(x) /\ x \notin Below(y)
    <3>1. x \in Int /\ y \in Int /\ \A w \in S : w \in Int
      OBVIOUS
    <3>2. x \in Below(x) /\ x \notin Below(y)
      BY <1>6, <3>1
    <3>3. ASSUME NEW w \in Below(y) PROVE w \in Below(x)
      BY <1>6, <3>1
    <3> QED BY <3>2, <3>3
  <2>2. Below(y) \in D
    OBVIOUS
  <2> HIDE DEF D, Below
  <2> QED BY <1>2, <1>4, <2>1, <2>2
<1>7. ASSUME NEW y \in S, z < y PROVE FALSE
  <2>1. Above(y) \subseteq Above(z) /\ z \in Above(z) /\ z \notin Above(y)
    <3>1. z \in Int /\ y \in Int /\ \A w \in S : w \in Int
      OBVIOUS
    <3>2. z \in Above(z) /\ z \notin Above(y)
      BY <1>7, <3>1
    <3>3. ASSUME NEW w \in Above(y) PROVE w \in Above(z)
      BY <1>7, <3>1
    <3> QED BY <3>2, <3>3
  <2>2. Above(y) \in E
    OBVIOUS
  <2> HIDE DEF E, Above
  <2> QED BY <1>3, <1>5, <2>1, <2>2
<1>8. \A y \in S : x <= y /\ z >= y
  BY <1>6, <1>7
<1>9. Min(S) \in S /\ \A y \in S : Min(S) <= y
  BY <1>8 DEF Min
<1>10. Max(S) \in S /\ \A y \in S : Max(S) >= y
  BY <1>8 DEF Max
<1> QED BY <1>9, <1>10

LEMMA LargerOfTwo ==
  ASSUME NEW a \in Int, NEW b \in Int
  PROVE  /\ Max({a, b}) = IF a >= b THEN a ELSE b
         /\ Min({a, b}) = IF a >= b THEN b ELSE a
<1>1. IsFiniteSet({a, b}) /\ {a, b} \subseteq Int /\ {a, b} # {}
  <2>1. IsFiniteSet({} \cup {a}) /\ {} \cup {a} = {a} /\ {a} \cup {b} = {a, b}
    BY FS_EmptySet, FS_AddElement
  <2>2. IsFiniteSet({a} \cup {b})
    BY <2>1, FS_AddElement
  <2> QED BY <2>1, <2>2
<1>2. Max({a, b}) \in {a, b} /\ a <= Max({a, b}) /\ b <= Max({a, b})
  BY <1>1, LeastOf
<1>3. Min({a, b}) \in {a, b} /\ Min({a, b}) <= a /\ Min({a, b}) <= b
  BY <1>1, LeastOf
<1> QED BY <1>2, <1>3

\* The elements of S that are of kind k.
Alike(S, g, k) == {i \in S : g[i] = k}

\* As many elements in all as there are of each kind together.
LEMMA CountSplit ==
  ASSUME NEW S, IsFiniteSet(S), NEW K, IsFiniteSet(K), NEW g, \A i \in S : g[i] \in K,
         NEW f, \A k \in K : f[k] = Cardinality(Alike(S, g, k))
  PROVE  SumOf(f, K) = Cardinality(S)
<1> DEFINE Kind(s, k) == {i \in s : g[i] = k}
           F(s) == [k \in K |-> Cardinality(Kind(s, k))]
           D == {s \in SUBSET S : SumOf(F(s), K) # Cardinality(s)}
<1>1. \A s \in SUBSET S : IsFiniteSet(s)
  BY FS_Subset
<1>2. ASSUME NEW s \in SUBSET S, NEW k \in K
      PROVE  IsFiniteSet(Kind(s, k)) /\ Cardinality(Kind(s, k)) \in Nat
  <2>1. Kind(s, k) \in SUBSET S
    OBVIOUS
  <2> HIDE DEF Kind
  <2> QED BY <1>1, <2>1, FS_CardinalityType
<1>3. ASSUME D # {} PROVE FALSE
  <2>1. PICK s \in D : \A u \in D : u \subseteq s => u = s
    <3>1. \A t \in D : IsFiniteSet(t)
      BY <1>1
    <3> HIDE DEF D
    <3> QED BY <1>3, <3>1, SmallestSet
  <2>2. s \in SUBSET S /\ SumOf(F(s), K) # Cardinality(s)
    OBVIOUS
  <2>3. CASE s = {}
    <3>1. \A k \in K : Kind(s, k) = {}
      BY <2>3
    <3>2. \A k \in K : F(s)[k] = 0
      BY <3>1, FS_EmptySet
    <3> HIDE DEF F
    <3> QED BY <2>2, <2>3, <3>2, SumZero, FS_EmptySet
  <2>4. CASE s # {}
    <3> DEFINE c == One(s)
               r == s \ {c}
    <3>1. c \in s /\ r \in SUBSET S /\ r # s /\ g[c] \in K
      BY <2>2, <2>4 DEF One
    <3>2. r \notin D
      BY <2>1, <3>1
    <3>3. SumOf(F(r), K) = Cardinality(r)
      BY <3>1, <3>2
    <3>4. Cardinality(s) = Cardinality(r) + 1 /\ Cardinality(r) \in Nat
      BY <1>1, <2>2, <3>1, FS_RemoveElement, FS_CardinalityType
    <3>5. \A k \in K \ {g[c]} : Kind(s, k) = Kind(r, k)
      BY <3>1
    <3>6. Kind(s, g[c]) = Kind(r, g[c]) \cup {c} /\ c \notin Kind(r, g[c])
      BY <3>1
    <3>7. Cardinality(Kind(s, g[c])) = Cardinality(Kind(r, g[c])) + 1
      <4> HIDE DEF Kind, c, r
      <4> QED BY <1>2, <3>1, <3>6, FS_AddElement
    <3>8. /\ \A k \in K : F(s)[k] \in Nat /\ F(r)[k] \in Nat
          /\ \A k \in K \ {g[c]} : F(r)[k] = F(s)[k]
          /\ F(s)[g[c]] = F(r)[g[c]] + 1
      <4> HIDE DEF Kind, c, r
      <4> QED BY <1>2, <2>2, <3>1, <3>5, <3>7
    <3> HIDE DEF F, c, r, D
    <3>9. SumOf(F(s), K) + F(r)[g[c]] = SumOf(F(r), K) + F(s)[g[c]]
      BY <3>1, <3>8, SumChange
    <3>10. SumOf(F(s), K) \in Nat
      BY <3>8, SumSplit
    <3> QED BY <2>2, <3>1, <3>3, <3>4, <3>8, <3>9, <3>10
  <2> QED BY <2>3, <2>4
<1>4. SumOf(F(S), K) = Cardinality(S)
  BY <1>3
<1>5. \A k \in K : f[k] = F(S)[k]
  BY DEF Alike
<1> HIDE DEF F
<1> QED BY <1>4, <1>5, SumSame

LEMMA SumDifference ==
  ASSUME NEW S, IsFiniteSet(S), NEW f, NEW a, NEW b,
         \A x \in S : a[x] \in Nat /\ b[x] \in Nat /\ f[x] = a[x] - b[x]
  PROVE  SumOf(f, S) = SumOf(a, S) - SumOf(b, S)
<1> DEFINE D == {s \in SUBSET S : SumOf(f, s) # SumOf(a, s) - SumOf(b, s)}
<1> SUFFICES ASSUME D # {} PROVE FALSE
  OBVIOUS
<1>1. \A s \in SUBSET S : IsFiniteSet(s)
  BY FS_Subset
<1>2. PICK s \in D : \A u \in D : u \subseteq s => u = s
  <2>1. \A t \in D : IsFiniteSet(t)
    BY <1>1
  <2> HIDE DEF D
  <2> QED BY <2>1, SmallestSet
<1>3. s \in SUBSET S /\ SumOf(f, s) # SumOf(a, s) - SumOf(b, s)
  OBVIOUS
<1>4. s # {}
  <2> SUFFICES ASSUME s = {} PROVE FALSE
    OBVIOUS
  <2>1. SumOf(f, {}) # SumOf(a, {}) - SumOf(b, {})
    BY <1>3
  <2>2. SumOf(f, {}) = 0 /\ SumOf(a, {}) = 0 /\ SumOf(b, {}) = 0
    BY SumEmpty
  <2> HIDE DEF D
  <2> QED BY <2>1, <2>2
<1> DEFINE c == One(s)
           r == s \ {c}
<1>5. c \in s /\ r \in SUBSET S /\ r # s
  BY <1>3, <1>4 DEF One
<1>6. r \notin D
  BY <1>2, <1>5
<1>7. SumOf(f, r) = SumOf(a, r) - SumOf(b, r)
  BY <1>5, <1>6
<1>8. /\ SumOf(f, s) = f[c] + SumOf(f, r) /\ SumOf(a, s) = a[c] + SumOf(a, r)
      /\ SumOf(b, s) = b[c] + SumOf(b, r)
  BY <1>1, <1>3, <1>4, SumChosen
<1>9. SumOf(a, r) \in Nat /\ SumOf(b, r) \in Nat
  BY <1>1, <1>5, SumSplit
<1>10. f[c] = a[c] - b[c] /\ a[c] \in Nat /\ b[c] \in Nat
  BY <1>3, <1>5
<1> HIDE DEF c, r, D
<1> QED BY <1>3, <1>7, <1>8, <1>9, <1>10

\* The count of a set from those of its parts.
LEMMA TwoParts ==
  ASSUME NEW S, IsFiniteSet(S), NEW A \in SUBSET S, NEW B \in SUBSET S, A \cap B = {}
  PROVE  /\ Cardinality(A \cup B) = Cardinality(A) + Cardinality(B)
         /\ Cardinality(A) \in Nat /\ Cardinality(B) \in Nat
<1>1. IsFiniteSet(A) /\ IsFiniteSet(B) /\ Cardinality(A) \in Nat /\ Cardinality(B) \in Nat
  BY FS_Subset, FS_CardinalityType
<1>2. Cardinality(A \cup B) = Cardinality(A) + Cardinality(B) - Cardinality(A \cap B)
  BY <1>1, FS_Union
<1> QED BY <1>1, <1>2, FS_EmptySet

-----------------------------------------------------------------------------
(* The inductive invariant.                                                *)

\* A measured phase ends after it has begun.
PhasesOrdered == \A s \in Shard : phase[s] = "after" => stamps[s].from <= stamps[s].to

\* An operation is started in the measured phase of its shard, which does not end
\* before the operation has.
Measured(r) == /\ phase[r.shard] # "before" /\ stamps[r.shard].from <= r.from
               /\ r.state = "sent" => phase[r.shard] = "measuring"
               /\ phase[r.shard] = "after" => r.to <= stamps[r.shard].to

\* A request that is refused takes no time, and a failure has a detail.
Described(r) == /\ r.state = "rejected" => r.from = r.to
                /\ r.state = "error" => r.detail # "none"

Accounted == \A i \in DOMAIN requests : Measured(requests[i]) /\ Described(requests[i])

\* What was in flight at the end of a tick.
Flying(t) == {i \in DOMAIN requests : /\ requests[i].state # "rejected" /\ requests[i].from <= t
                                      /\ requests[i].state = "sent" \/ requests[i].to > t}
HistoryTrue == \A t \in 0 .. clock - 1 : running[t] = Cardinality(Flying(t))

Inv == TypeOK /\ PhasesOrdered /\ Accounted /\ HistoryTrue

\* What the type invariant says of one request.
RequestType == \A i \in DOMAIN requests : requests[i] \in Request

LEMMA RequestFacts ==
  ASSUME TypeOK
  PROVE  /\ DOMAIN requests = 1 .. Len(requests) /\ Len(requests) \in Nat /\ RequestType
         /\ clock \in Nat /\ IsFiniteSet(DOMAIN requests)
         /\ Cardinality(DOMAIN requests) = Len(requests)
<1>1. requests \in Seq(Request) /\ clock \in Nat
  BY DEF TypeOK
<1>2. DOMAIN requests = 1 .. Len(requests) /\ Len(requests) \in Nat /\ RequestType
  BY <1>1, LenProperties, ElementOfSeq DEF RequestType
<1>3. IsFiniteSet(1 .. Len(requests)) /\ Cardinality(1 .. Len(requests)) = Len(requests)
  <2>1. /\ IsFiniteSet(1 .. Len(requests))
        /\ Cardinality(1 .. Len(requests)) = IF 1 > Len(requests) THEN 0 ELSE Len(requests) - 1 + 1
    BY <1>2, FS_Interval
  <2> QED BY <1>2, <2>1
<1> QED BY <1>1, <1>2, <1>3

LEMMA InitInv == Init => Inv
<1> SUFFICES ASSUME Init PROVE Inv
  OBVIOUS
<1>1. requests = <<>> /\ DOMAIN requests = {} /\ Sent = {} /\ Len(requests) = 0
  BY DEF Init, Sent
<1>2. TypeOK
  BY <1>1, ReportAssumption, EmptySeq DEF Init, TypeOK, ReportAssumption
<1>3. PhasesOrdered /\ Accounted /\ HistoryTrue
  BY <1>1 DEF Init, PhasesOrdered, Accounted, HistoryTrue
<1> QED BY <1>2, <1>3 DEF Inv

\* Time passes: the types grow, and the tick that is over enters the history.
LEMMA TickInv == ASSUME Inv, Tick PROVE Inv'
<1> USE DEF Tick
<1>1. clock \in Nat /\ clock' = clock + 1 /\ clock' <= MaxClock /\ MaxClock \in Nat
  BY ReportAssumption DEF Inv, TypeOK, ReportAssumption
<1>2. Request \subseteq Request'
  BY <1>1 DEF Request
<1>3. DOMAIN requests = 1 .. Len(requests) /\ Len(requests) \in Nat /\ RequestType
      /\ IsFiniteSet(DOMAIN requests) /\ Cardinality(DOMAIN requests) = Len(requests)
  BY RequestFacts DEF Inv
<1>4. Sent \subseteq DOMAIN requests /\ Sent' = Sent
  BY DEF Sent
<1>5. Cardinality(Sent) \in 0 .. MaxRequests
  <2>1. IsFiniteSet(Sent) /\ Cardinality(Sent) <= Len(requests) /\ Cardinality(Sent) \in Nat
    BY <1>3, <1>4, FS_Subset, FS_CardinalityType
  <2> QED BY <2>1, ReportAssumption DEF Inv, TypeOK, ReportAssumption
<1>6. TypeOK'
  <2>1. requests' \in Seq(Request')
    BY <1>2, SeqMonotonic DEF Inv, TypeOK
  <2>2. stamps' \in [Shard -> [from : 0 .. clock', to : 0 .. clock']]
    BY <1>1 DEF Inv, TypeOK
  <2>3. running' \in [0 .. MaxClock -> 0 .. MaxRequests]
    BY <1>5 DEF Inv, TypeOK
  <2> QED BY <1>1, <1>4, <2>1, <2>2, <2>3 DEF Inv, TypeOK
<1>7. Flying(clock) = Sent
  <2>1. \A i \in DOMAIN requests : requests[i].from <= clock /\ ~(requests[i].to > clock)
    BY <1>1, <1>3 DEF RequestType, Request
  <2> QED BY <2>1 DEF Flying, Sent
<1>8. HistoryTrue'
  <2> SUFFICES ASSUME NEW t \in 0 .. clock' - 1
               PROVE  running'[t] = Cardinality(Flying(t)')
    BY DEF HistoryTrue
  <2>1. Flying(t)' = Flying(t)
    BY DEF Flying
  <2>2. CASE t = clock
    BY <1>1, <1>7, <2>1, <2>2 DEF Inv, TypeOK
  <2>3. CASE t # clock
    <3>1. t \in 0 .. clock - 1 /\ running'[t] = running[t]
      BY <1>1, <2>3 DEF Inv, TypeOK
    <3> QED BY <2>1, <3>1 DEF Inv, HistoryTrue
  <2> QED BY <2>2, <2>3
<1>9. PhasesOrdered' /\ Accounted'
  BY DEF Inv, PhasesOrdered, Accounted, Measured, Described
<1> QED BY <1>6, <1>8, <1>9 DEF Inv

\* A shard enters its measured phase, or leaves it with nothing in flight.
LEMMA PhaseInv ==
  ASSUME Inv, NEW s \in Shard, Open(s) \/ Close(s)
  PROVE  Inv'
<1>1. clock' = clock /\ requests' = requests /\ running' = running /\ clock \in Nat
  BY DEF Inv, TypeOK, Open, Close
<1>2. RequestType /\ Sent' = Sent /\ Request' = Request
  BY <1>1, RequestFacts DEF Inv, Sent, Request
<1>3. phase \in [Shard -> {"before", "measuring", "after"}]
      /\ stamps \in [Shard -> [from : 0 .. clock, to : 0 .. clock]]
  BY DEF Inv, TypeOK
<1>4. TypeOK'
  <2>1. phase' \in [Shard -> {"before", "measuring", "after"}]
    BY <1>3 DEF Open, Close
  <2>2. stamps' \in [Shard -> [from : 0 .. clock, to : 0 .. clock]]
    BY <1>1, <1>3 DEF Open, Close
  <2> QED BY <1>1, <1>2, <2>1, <2>2 DEF Inv, TypeOK
<1>5. HistoryTrue'
  BY <1>1 DEF Inv, HistoryTrue, Flying
<1>6. CASE Open(s)
  <2>1. \A u \in Shard : u # s => phase'[u] = phase[u] /\ stamps'[u] = stamps[u]
    BY <1>3, <1>6 DEF Open
  <2>2. phase[s] = "before" /\ phase'[s] = "measuring"
    BY <1>3, <1>6 DEF Open
  <2>3. PhasesOrdered'
    BY <2>1, <2>2 DEF Inv, PhasesOrdered
  <2>4. Accounted'
    <3> SUFFICES ASSUME NEW i \in DOMAIN requests
                 PROVE  Measured(requests[i])' /\ Described(requests[i])'
      BY <1>1 DEF Accounted
    <3>1. requests[i].shard \in Shard /\ Measured(requests[i]) /\ Described(requests[i])
      BY <1>2 DEF Inv, Accounted, RequestType, Request
    <3>2. requests[i].shard # s
      BY <2>2, <3>1 DEF Measured
    <3> QED BY <1>1, <2>1, <3>1, <3>2 DEF Measured, Described
  <2> QED BY <1>4, <1>5, <2>3, <2>4 DEF Inv
<1>7. CASE Close(s)
  <2>1. \A u \in Shard : u # s => phase'[u] = phase[u] /\ stamps'[u] = stamps[u]
    BY <1>3, <1>7 DEF Close
  <2>2. phase[s] = "measuring" /\ phase'[s] = "after"
        /\ stamps'[s].from = stamps[s].from /\ stamps'[s].to = clock
    BY <1>3, <1>7 DEF Close
  <2>3. PhasesOrdered'
    BY <1>1, <1>3, <2>1, <2>2 DEF Inv, PhasesOrdered
  <2>4. Accounted'
    <3> SUFFICES ASSUME NEW i \in DOMAIN requests
                 PROVE  Measured(requests[i])' /\ Described(requests[i])'
      BY <1>1 DEF Accounted
    <3>1. requests[i] \in Request /\ Measured(requests[i]) /\ Described(requests[i])
      BY <1>2 DEF Inv, Accounted, RequestType
    <3>2. requests[i].shard = s => requests[i].state # "sent"
      BY <1>7 DEF Close, Sent
    <3>3. requests[i].to <= clock
      BY <1>1, <3>1 DEF Request
    <3> QED BY <1>1, <2>1, <2>2, <3>1, <3>2, <3>3 DEF Measured, Described, Request
  <2> QED BY <1>4, <1>5, <2>3, <2>4 DEF Inv
<1> QED BY <1>6, <1>7

\* An operation starts.  It was in flight at no earlier tick.
LEMMA EmitInv ==
  ASSUME Inv, NEW s \in Shard, NEW o \in Op, Send(s, o) \/ Refuse(s, o)
  PROVE  Inv'
<1>1. PICK state \in {"sent", "rejected"}, to \in {0, clock} :
        Emit(s, o, state, to) /\ (state = "rejected" => to = clock)
  BY DEF Send, Refuse
<1> DEFINE r == [state |-> state, shard |-> s, op |-> o, from |-> clock, to |-> to,
                 detail |-> "none"]
           n == Len(requests)
<1>2. clock' = clock /\ phase' = phase /\ stamps' = stamps /\ running' = running
      /\ requests' = Append(requests, r) /\ phase[s] = "measuring" /\ n < MaxRequests
  BY <1>1 DEF Emit
<1>3. /\ DOMAIN requests = 1 .. n /\ n \in Nat /\ RequestType /\ clock \in Nat
      /\ requests \in Seq(Request)
  BY RequestFacts DEF Inv, TypeOK
<1>4. r \in Request /\ Request' = Request
  BY <1>2, <1>3 DEF Request, Status
<1>5. /\ requests' \in Seq(Request) /\ Len(requests') = n + 1
      /\ \A i \in 1 .. n : requests'[i] = requests[i]
      /\ requests'[n + 1] = r
  <2> HIDE DEF r
  <2> QED BY <1>2, <1>3, <1>4, AppendProperties
<1>6. DOMAIN requests' = 1 .. n + 1
  BY <1>5, LenProperties
<1>7. TypeOK'
  <2>1. \A i \in (DOMAIN requests \ Sent)' : requests'[i].from <= requests'[i].to
    <3> SUFFICES ASSUME NEW i \in 1 .. n + 1, requests'[i].state # "sent"
                 PROVE  requests'[i].from <= requests'[i].to
      BY <1>6 DEF Sent
    <3>1. CASE i = n + 1
      BY <1>1, <1>3, <1>5, <3>1
    <3>2. CASE i # n + 1
      <4>1. i \in DOMAIN requests \ Sent /\ requests'[i] = requests[i]
        BY <1>3, <1>5, <3>2 DEF Sent
      <4> QED BY <4>1 DEF Inv, TypeOK
    <3> QED BY <3>1, <3>2
  <2>2. Len(requests') <= MaxRequests
    BY <1>2, <1>3, <1>5, ReportAssumption DEF ReportAssumption
  <2> QED BY <1>2, <1>4, <1>5, <2>1, <2>2 DEF Inv, TypeOK
<1>8. Accounted'
  <2> SUFFICES ASSUME NEW i \in 1 .. n + 1
               PROVE  Measured(requests[i])' /\ Described(requests[i])'
    BY <1>6 DEF Accounted
  <2>1. CASE i = n + 1
    <3>1. requests'[i] = r
      BY <1>5, <2>1
    <3>2. stamps[s].from <= clock
      BY DEF Inv, TypeOK
    <3> QED BY <1>1, <1>2, <3>1, <3>2 DEF Measured, Described
  <2>2. CASE i # n + 1
    <3>1. i \in DOMAIN requests /\ requests'[i] = requests[i]
      BY <1>3, <1>5, <2>2
    <3> QED BY <1>2, <3>1 DEF Inv, Accounted, Measured, Described
  <2> QED BY <2>1, <2>2
<1>9. HistoryTrue'
  <2> SUFFICES ASSUME NEW t \in 0 .. clock - 1
               PROVE  running[t] = Cardinality(Flying(t)')
    BY <1>2 DEF HistoryTrue
  <2>1. Flying(t)' = Flying(t)
    BY <1>3, <1>5, <1>6 DEF Flying
  <2> QED BY <2>1 DEF Inv, HistoryTrue
<1>10. PhasesOrdered'
  BY <1>2 DEF Inv, PhasesOrdered
<1> QED BY <1>7, <1>8, <1>9, <1>10 DEF Inv

\* What was raised is known, or other: the detail of an error is never missing.
LEMMA DetailGiven ==
  ASSUME NEW chain \in Raised
  PROVE  Detail(chain) \in Category /\ Detail(chain) # "none"
<1> DEFINE known == {n \in DOMAIN chain : n <= 8 /\ chain[n] # "other"}
<1>1. PICK m \in 1 .. MaxCauses : chain \in [1 .. m -> Category]
  BY DEF Raised
<1>2. CASE known = {}
  BY <1>2 DEF Detail, Category
<1>3. CASE known # {}
  <2>1. known \subseteq 1 .. m /\ known \subseteq Int /\ IsFiniteSet(known)
    BY <1>1, FS_Interval, FS_Subset
  <2>2. Min(known) \in known
    <3> HIDE DEF known
    <3> QED BY <1>3, <2>1, LeastOf
  <2>3. chain[Min(known)] \in Known
    BY <1>1, <2>2 DEF Category
  <2>4. Detail(chain) = chain[Min(known)]
    BY <1>3 DEF Detail
  <2> QED BY <2>3, <2>4, ReportAssumption DEF ReportAssumption, Category
<1> QED BY <1>2, <1>3

\* An operation ends.  It was in flight before this tick, and still is then.
LEMMA ResultInv ==
  ASSUME Inv, NEW i \in Sent, Return(i) \/ Raise(i)
  PROVE  Inv'
<1>1. PICK state \in {"ok", "error"}, detail \in Category \cup {"none"} :
        Result(i, state, detail) /\ (state = "error" => detail # "none")
  BY DetailGiven DEF Return, Raise
<1>2. clock' = clock /\ phase' = phase /\ stamps' = stamps /\ running' = running
  BY <1>1 DEF Result
<1>3. /\ RequestType /\ clock \in Nat /\ requests \in Seq(Request)
      /\ DOMAIN requests = 1 .. Len(requests) /\ i \in DOMAIN requests /\ requests[i].state = "sent"
  BY RequestFacts DEF Inv, TypeOK, Sent
<1> DEFINE r == [requests[i] EXCEPT !.state = state, !.to = clock, !.detail = detail]
<1>4. r \in Request /\ Request' = Request
  <2>1. requests[i] \in Request /\ clock \in 0 .. clock /\ state \in Status \cup {"sent"}
    BY <1>3 DEF RequestType, Status
  <2> QED BY <1>2, <2>1 DEF Request
<1>5. requests' = [requests EXCEPT ![i] = r]
  BY <1>1, <1>3 DEF Result, RequestType, Request
<1>6. /\ requests' \in Seq(Request) /\ Len(requests') = Len(requests)
      /\ DOMAIN requests' = DOMAIN requests
      /\ \A j \in DOMAIN requests : requests'[j] = IF j = i THEN r ELSE requests[j]
  <2> HIDE DEF r
  <2> QED BY <1>3, <1>4, <1>5, ExceptSeq, LenProperties
<1>7. r.state = state /\ r.to = clock /\ r.detail = detail /\ r.from = requests[i].from
      /\ r.shard = requests[i].shard
  BY <1>3 DEF RequestType, Request
<1> HIDE DEF r
<1>8. requests[i].from <= clock /\ r.from \in Nat
  BY <1>3, <1>7 DEF RequestType, Request
<1>9. TypeOK'
  <2>1. \A j \in (DOMAIN requests \ Sent)' : requests'[j].from <= requests'[j].to
    <3> SUFFICES ASSUME NEW j \in DOMAIN requests, requests'[j].state # "sent"
                 PROVE  requests'[j].from <= requests'[j].to
      BY <1>6 DEF Sent
    <3>1. CASE j = i
      BY <1>6, <1>7, <1>8, <3>1
    <3>2. CASE j # i
      <4>1. j \in DOMAIN requests \ Sent /\ requests'[j] = requests[j]
        BY <1>6, <3>2 DEF Sent
      <4> QED BY <4>1 DEF Inv, TypeOK
    <3> QED BY <3>1, <3>2
  <2> QED BY <1>2, <1>4, <1>6, <2>1 DEF Inv, TypeOK
<1>10. Accounted'
  <2> SUFFICES ASSUME NEW j \in DOMAIN requests
               PROVE  Measured(requests[j])' /\ Described(requests[j])'
    BY <1>6 DEF Accounted
  <2>1. Measured(requests[j]) /\ Described(requests[j])
    BY DEF Inv, Accounted
  <2>2. CASE j = i
    <3>1. requests'[j] = r /\ phase[r.shard] = "measuring" /\ stamps[r.shard].from <= r.from
      BY <1>3, <1>6, <1>7, <2>1, <2>2 DEF Measured
    <3> QED BY <1>1, <1>2, <1>7, <3>1 DEF Measured, Described
  <2>3. CASE j # i
    BY <1>2, <1>6, <2>1, <2>3 DEF Measured, Described
  <2> QED BY <2>2, <2>3
<1>11. HistoryTrue'
  <2> SUFFICES ASSUME NEW t \in 0 .. clock - 1
               PROVE  running[t] = Cardinality(Flying(t)')
    BY <1>2 DEF HistoryTrue
  <2>1. clock > t
    BY <1>3
  <2>2. Flying(t)' = Flying(t)
    BY <1>1, <1>3, <1>6, <1>7, <2>1 DEF Flying
  <2> QED BY <2>2 DEF Inv, HistoryTrue
<1>12. PhasesOrdered'
  BY <1>2 DEF Inv, PhasesOrdered
<1> QED BY <1>9, <1>10, <1>11, <1>12 DEF Inv

LEMMA StutterInv == Inv /\ UNCHANGED vars => Inv'
<1> SUFFICES ASSUME Inv, UNCHANGED vars PROVE Inv'
  OBVIOUS
<1> USE DEF vars
<1>1. TypeOK'
  BY DEF Inv, TypeOK, Sent, Request
<1>2. HistoryTrue'
  BY DEF Inv, HistoryTrue, Flying
<1>3. PhasesOrdered' /\ Accounted'
  BY DEF Inv, PhasesOrdered, Accounted, Measured, Described
<1> QED BY <1>1, <1>2, <1>3 DEF Inv

LEMMA NextInv == Inv /\ [Next]_vars => Inv'
<1> SUFFICES ASSUME Inv, [Next]_vars PROVE Inv'
  OBVIOUS
<1>1. CASE Tick
  BY <1>1, TickInv
<1>2. CASE Over \/ UNCHANGED vars
  BY <1>2, StutterInv DEF Over
<1>3. ASSUME NEW s \in Shard, Open(s) \/ Close(s) PROVE Inv'
  BY <1>3, PhaseInv
<1>4. ASSUME NEW s \in Shard, NEW o \in Op, Send(s, o) \/ Refuse(s, o) PROVE Inv'
  BY <1>4, EmitInv
<1>5. ASSUME NEW i \in Sent, Return(i) \/ Raise(i) PROVE Inv'
  BY <1>5, ResultInv
<1> QED BY <1>1, <1>2, <1>3, <1>4, <1>5 DEF Next

LEMMA InvAlways == Spec => []Inv
BY InitInv, NextInv, PTL DEF Spec

-----------------------------------------------------------------------------
(* The window and the buckets.                                             *)

LEMMA TotalSum == ASSUME NEW f PROVE Total(f) = SumOf(f, DOMAIN f)
BY DEF Total, SumOf

\* What the invariant says of one result.
LEMMA ResultFacts ==
  ASSUME Inv
  PROVE  /\ IsFiniteSet(Results)
         /\ \A i \in Results :
              /\ i \in Nat /\ requests[i].state \in Status /\ requests[i].op \in Op
              /\ requests[i].from \in Nat /\ requests[i].to \in Nat
              /\ requests[i].from <= requests[i].to
              /\ requests[i].shard \in Shard
              /\ Measured(requests[i]) /\ Described(requests[i])
<1>1. RequestType /\ IsFiniteSet(DOMAIN requests) /\ clock \in Nat
      /\ DOMAIN requests \subseteq Nat
  BY RequestFacts DEF Inv
<1>2. Results \subseteq DOMAIN requests
  BY DEF Results
<1>3. IsFiniteSet(Results)
  BY <1>1, <1>2, FS_Subset
<1>4. ASSUME NEW i \in Results
      PROVE  /\ requests[i] \in Request /\ requests[i].state # "sent"
             /\ requests[i].from <= requests[i].to
             /\ Measured(requests[i]) /\ Described(requests[i])
  BY <1>1, <1>2 DEF Results, Sent, RequestType, Inv, TypeOK, Accounted
<1> QED BY <1>1, <1>2, <1>3, <1>4 DEF Request

LEMMA StampFacts ==
  ASSUME Inv
  PROVE  /\ Origin \in 0 .. clock /\ End \in 0 .. clock /\ clock \in Nat
         /\ \A s \in Shard : Origin <= stamps[s].from /\ stamps[s].to <= End
<1> DEFINE F == {stamps[s].from : s \in Shard}
           T == {stamps[s].to : s \in Shard}
<1>1. clock \in Nat /\ stamps \in [Shard -> [from : 0 .. clock, to : 0 .. clock]]
  BY DEF Inv, TypeOK
<1>2. F \subseteq 0 .. clock /\ T \subseteq 0 .. clock /\ F # {} /\ T # {}
  BY <1>1, ReportAssumption DEF ReportAssumption
<1>3. IsFiniteSet(F) /\ IsFiniteSet(T)
  <2>1. IsFiniteSet(0 .. clock)
    BY <1>1, FS_Interval
  <2> HIDE DEF F, T
  <2> QED BY <1>2, <2>1, FS_Subset
<1>4. /\ Origin \in F /\ \A x \in F : Origin <= x
      /\ End \in T /\ \A x \in T : x <= End
  <2>1. F \subseteq Int /\ T \subseteq Int
    BY <1>2
  <2>2. Min(F) \in F /\ (\A x \in F : Min(F) <= x) /\ Max(T) \in T /\ \A x \in T : x <= Max(T)
    <3> HIDE DEF F, T
    <3> QED BY <1>2, <1>3, <2>1, LeastOf
  <2> QED BY <2>2 DEF Origin, End
<1> QED BY <1>1, <1>2, <1>4

\* Once all shards have left their measured phase, all operations have results, and
\* the window holds them.
LEMMA WindowWhole ==
  ASSUME Inv, Finished
  PROVE  Sent = {} /\ Results = DOMAIN requests /\ Origin <= End /\ WindowHoldsResults
<1>1. Sent = {}
  <2> SUFFICES ASSUME NEW i \in Sent PROVE FALSE
    OBVIOUS
  <2>1. requests[i] \in Request /\ requests[i].state = "sent" /\ Measured(requests[i])
    BY RequestFacts DEF Inv, Accounted, Sent, RequestType
  <2>2. requests[i].shard \in Shard
    BY <2>1 DEF Request
  <2> QED BY <2>1, <2>2 DEF Measured, Finished
<1>2. Results = DOMAIN requests
  BY <1>1 DEF Results
<1>3. stamps \in [Shard -> [from : 0 .. clock, to : 0 .. clock]]
  BY DEF Inv, TypeOK
<1>4. Origin <= End
  <2>1. PICK s \in Shard : TRUE
    BY ReportAssumption DEF ReportAssumption
  <2>2. Origin <= stamps[s].from /\ stamps[s].from <= stamps[s].to /\ stamps[s].to <= End
    BY StampFacts DEF Inv, PhasesOrdered, Finished
  <2>3. stamps[s].from \in 0 .. clock /\ stamps[s].to \in 0 .. clock
    BY <1>3
  <2> QED BY <2>2, <2>3, StampFacts
<1>5. ASSUME NEW i \in Results PROVE Origin <= requests[i].from /\ requests[i].to <= End
  <2> DEFINE s == requests[i].shard
  <2>1. /\ s \in Shard /\ phase[s] = "after" /\ Measured(requests[i])
        /\ requests[i].from \in Nat /\ requests[i].to \in Nat
    BY ResultFacts DEF Finished
  <2>2. stamps[s].from <= requests[i].from /\ requests[i].to <= stamps[s].to
    BY <2>1 DEF Measured
  <2>3. stamps[s].from \in 0 .. clock /\ stamps[s].to \in 0 .. clock
        /\ Origin <= stamps[s].from /\ stamps[s].to <= End
    BY <1>3, <2>1, StampFacts
  <2> HIDE DEF s
  <2> QED BY <2>1, <2>2, <2>3, StampFacts
<1>6. Wall <= Duration
  <2>1. CASE Results = {}
    BY <1>4, <2>1, StampFacts DEF Wall, Duration
  <2>2. CASE Results # {}
    <3> DEFINE F == {requests[i].from : i \in Results}
               T == {requests[i].to : i \in Results}
    <3>1. F # {} /\ T # {} /\ F \subseteq Origin .. End /\ T \subseteq Origin .. End
      BY <1>5, <2>2, ResultFacts, StampFacts
    <3>2. IsFiniteSet(Origin .. End) /\ Origin .. End \subseteq Int
      BY StampFacts, FS_Interval
    <3> HIDE DEF F, T
    <3>3. IsFiniteSet(F) /\ IsFiniteSet(T) /\ F \subseteq Int /\ T \subseteq Int
      BY <3>1, <3>2, FS_Subset
    <3>4. Min(F) \in F /\ Max(T) \in T
      BY <3>1, <3>3, LeastOf
    <3>5. Wall = Max(T) - Min(F)
      BY <2>2 DEF Wall, F, T
    <3>6. Min(F) \in Origin .. End /\ Max(T) \in Origin .. End
      BY <3>1, <3>4
    <3> QED BY <3>5, <3>6, StampFacts DEF Duration
  <2> QED BY <2>1, <2>2
<1> QED BY <1>1, <1>2, <1>4, <1>5, <1>6 DEF WindowHoldsResults

\* Whole multiples below a number.
LEMMA Quotient ==
  ASSUME NEW a \in Nat, NEW n \in Nat \ {0}, NEW k \in Nat
  PROVE  a \div n \in Nat /\ (a \div n <= k <=> a < n * (k + 1))
<1>1. a \div n \in Nat /\ a % n \in 0 .. n - 1 /\ a = n * (a \div n) + (a % n)
  OBVIOUS
<1> DEFINE q == a \div n
           r == a % n
<1>2. q \in Nat /\ r \in 0 .. n - 1 /\ a = n * q + r
  BY <1>1
<1> HIDE DEF q, r
<1>3. ASSUME NEW x \in Nat, NEW y \in Nat, x <= y PROVE n * x <= n * y
  <2>1. y - x \in Nat /\ n * (y - x) \in Nat /\ n * x \in Nat /\ n * y \in Nat
    BY <1>3
  <2>2. n * (y - x) = n * y - n * x
    BY <2>1
  <2> QED BY <2>1, <2>2
<1>4. CASE q <= k
  <2>1. n * (q + 1) <= n * (k + 1) /\ n * (q + 1) = n * q + n
    BY <1>2, <1>3, <1>4
  <2>2. n * q \in Nat /\ n * (k + 1) \in Nat
    BY <1>2
  <2>3. a < n * (k + 1)
    BY <1>2, <2>1, <2>2
  <2> QED BY <1>2, <1>4, <2>3 DEF q
<1>5. CASE ~(q <= k)
  <2>1. n * (k + 1) <= n * q
    BY <1>2, <1>3, <1>5
  <2>2. n * q \in Nat /\ n * (k + 1) \in Nat
    BY <1>2
  <2>3. ~(a < n * (k + 1))
    BY <1>2, <2>1, <2>2
  <2> QED BY <1>2, <1>5, <2>3 DEF q
<1> QED BY <1>4, <1>5

\* The buckets cover the window, and the k-th ends with tick Last(k).
Last(k) == Origin + Interval * (k + 1) - 1

LEMMA BucketFacts ==
  ASSUME Inv, Finished
  PROVE  /\ Buckets \in Nat \ {0}
         /\ \A t \in Nat : Bucket(t) \in 0 .. Buckets - 1
         /\ \A t \in Nat, k \in 0 .. Buckets - 2 : Bucket(t) <= k <=> t <= Last(k)
         /\ \A k \in 0 .. Buckets - 2 : Last(k) \in 0 .. clock - 1
         /\ \A t, u \in Nat : t <= u => Bucket(t) <= Bucket(u)
<1>1. Interval \in Nat \ {0} /\ Origin \in Nat /\ End \in Nat /\ Origin <= End /\ End <= clock
      /\ clock \in Nat
  BY ReportAssumption, StampFacts, WindowWhole DEF ReportAssumption
<1> DEFINE d == Duration + Interval - 1
<1>2. Duration \in Nat /\ d \in Nat /\ d \div Interval \in Nat
  BY <1>1, Quotient DEF Duration
<1>3. Buckets = IF 1 >= d \div Interval THEN 1 ELSE d \div Interval
  BY <1>2, LargerOfTwo DEF Buckets
<1>4. Buckets \in Nat \ {0}
  BY <1>2, <1>3
<1>5. ASSUME NEW t \in Nat
      PROVE  /\ Bucket(t) \in 0 .. Buckets - 1
             /\ \A k \in 0 .. Buckets - 2 : Bucket(t) <= k <=> t <= Last(k)
  <2> DEFINE x == Max({t - Origin, 0})
  <2>1. x = IF t - Origin >= 0 THEN t - Origin ELSE 0
    BY <1>1, LargerOfTwo
  <2>2. x \in Nat
    BY <1>1, <2>1
  <2>3. x \div Interval \in Nat
    BY <1>1, <2>2, Quotient
  <2>4. Bucket(t) = IF x \div Interval >= Buckets - 1 THEN Buckets - 1 ELSE x \div Interval
    <3>1. Bucket(t) = Min({x \div Interval, Buckets - 1})
      BY DEF Bucket
    <3>2. x \div Interval \in Int /\ Buckets - 1 \in Int
      BY <1>4, <2>3
    <3> HIDE DEF x
    <3> QED BY <3>1, <3>2, LargerOfTwo
  <2>5. ASSUME NEW k \in 0 .. Buckets - 2 PROVE Bucket(t) <= k <=> t <= Last(k)
    <3>1. k \in Nat /\ k < Buckets - 1
      BY <1>4
    <3>2. x \div Interval <= k <=> x < Interval * (k + 1)
      BY <1>1, <2>2, <3>1, Quotient
    <3>3. Bucket(t) <= k <=> x \div Interval <= k
      BY <1>4, <2>3, <2>4, <3>1
    <3>4. Interval * (k + 1) \in Nat /\ Interval * (k + 1) > 0
      BY <1>1, <3>1
    <3>5. x < Interval * (k + 1) <=> t <= Last(k)
      BY <1>1, <2>1, <3>4 DEF Last
    <3> QED BY <3>2, <3>3, <3>5
  <2> HIDE DEF x
  <2>6. Bucket(t) \in 0 .. Buckets - 1
    BY <1>4, <2>3, <2>4
  <2> QED BY <2>5, <2>6
<1>6. ASSUME NEW k \in 0 .. Buckets - 2 PROVE Last(k) \in 0 .. clock - 1
  <2>1. k \in Nat /\ k + 1 < d \div Interval
    BY <1>2, <1>3, <1>4
  <2>2. ~(d < Interval * (k + 2))
    <3>1. ~(d \div Interval <= k + 1) /\ k + 1 \in Nat /\ k + 1 + 1 = k + 2
      BY <1>2, <2>1
    <3> QED BY <1>1, <1>2, <3>1, Quotient
  <2>3. Interval * (k + 2) = Interval * (k + 1) + Interval
        /\ Interval * (k + 1) \in Nat /\ Interval * (k + 1) > 0
    BY <1>1, <2>1
  <2>4. Interval * (k + 1) <= Duration - 1
    BY <1>1, <1>2, <2>2, <2>3
  <2> QED BY <1>1, <1>2, <2>3, <2>4 DEF Last, Duration
<1>7. ASSUME NEW t \in Nat, NEW u \in Nat, t <= u PROVE Bucket(t) <= Bucket(u)
  <2>1. Bucket(t) \in 0 .. Buckets - 1 /\ Bucket(u) \in 0 .. Buckets - 1
    BY <1>5
  <2>2. CASE Bucket(u) = Buckets - 1
    BY <1>4, <2>1, <2>2
  <2>3. CASE Bucket(u) # Buckets - 1
    <3>1. Bucket(u) \in 0 .. Buckets - 2 /\ Bucket(u) <= Bucket(u)
      BY <1>4, <2>1, <2>3
    <3>2. u <= Last(Bucket(u)) /\ Last(Bucket(u)) \in Int
      BY <1>5, <1>6, <3>1
    <3>3. t <= Last(Bucket(u))
      BY <1>7, <3>2
    <3> QED BY <1>5, <3>1, <3>3
  <2> QED BY <2>2, <2>3
<1> QED BY <1>4, <1>5, <1>6, <1>7

-----------------------------------------------------------------------------
(* The time series.                                                        *)

\* Results that were not rejected have succeeded or failed.
LEMMA Kinds ==
  ASSUME Inv, NEW S \in SUBSET Results
  PROVE  /\ IsFiniteSet(S) /\ IsFiniteSet(Dispatched(S))
         /\ IsFiniteSet(Ok(S)) /\ IsFiniteSet(Errors(S)) /\ IsFiniteSet(Rejected(S))
         /\ Dispatched(S) = Ok(S) \cup Errors(S) /\ Ok(S) \cap Errors(S) = {}
         /\ Accepted(S) = Cardinality(Dispatched(S))
<1>1. IsFiniteSet(S)
  BY ResultFacts, FS_Subset
<1>2. /\ Dispatched(S) \in SUBSET S /\ Ok(S) \in SUBSET S /\ Errors(S) \in SUBSET S
      /\ Rejected(S) \in SUBSET S
  BY DEF Dispatched, Ok, Errors, Rejected
<1>3. Dispatched(S) = Ok(S) \cup Errors(S) /\ Ok(S) \cap Errors(S) = {}
  BY DEF Dispatched, Ok, Errors, Rejected
<1>4. Accepted(S) = Cardinality(Dispatched(S))
  BY <1>1, <1>2, <1>3, TwoParts DEF Accepted
<1>5. /\ IsFiniteSet(Dispatched(S)) /\ IsFiniteSet(Ok(S)) /\ IsFiniteSet(Errors(S))
      /\ IsFiniteSet(Rejected(S))
  BY <1>1, <1>2, FS_Subset
<1> QED BY <1>1, <1>3, <1>4, <1>5

\* A column that counts each operation in one bucket counts them all.
LEMMA ColumnTotal ==
  ASSUME NEW S, IsFiniteSet(S), NEW n \in Nat, NEW g, \A i \in S : g[i] \in 0 .. n,
         NEW f, DOMAIN f = 0 .. n, \A k \in 0 .. n : f[k] = Cardinality(Alike(S, g, k))
  PROVE  Total(f) = Cardinality(S)
<1>1. IsFiniteSet(0 .. n)
  BY FS_Interval
<1>2. SumOf(f, 0 .. n) = Cardinality(S)
  BY <1>1, CountSplit
<1> QED BY <1>2, TotalSum

\* The errors of a bucket are what it has completed but not successfully.
LEMMA ErrorColumn ==
  ASSUME Inv, NEW S \in SUBSET Results, NEW k
  PROVE  Row(S, k)["errors"] = Cardinality({i \in Errors(S) : Bucket(requests[i].to) = k})
<1> DEFINE E == {i \in Errors(S) : Bucket(requests[i].to) = k}
           A == Ok(Completed(S, k))
<1>1. Completed(S, k) = A \cup E /\ A \cap E = {}
  BY Kinds DEF Completed, Ok, Errors
<1>2. Completed(S, k) \in SUBSET Dispatched(S)
  BY DEF Completed
<1>3. IsFiniteSet(Completed(S, k))
  BY <1>2, Kinds, FS_Subset
<1> DEFINE C == Completed(S, k)
<1>4. Cardinality(C) = Cardinality(A) + Cardinality(E)
      /\ Cardinality(A) \in Nat /\ Cardinality(E) \in Nat
  <2>1. C = A \cup E /\ A \cap E = {} /\ IsFiniteSet(C)
    BY <1>1, <1>3
  <2> HIDE DEF A, E, C
  <2> QED BY <2>1, TwoParts
<1>5. Row(S, k)["errors"] = Cardinality(Completed(S, k)) - Cardinality(A)
  BY DEF Row
<1> HIDE DEF A, E
<1>6. Row(S, k)["errors"] = Cardinality(E)
  BY <1>4, <1>5
<1> QED BY <1>6 DEF E

\* Summed over the buckets, each column is a count of the summary.
LEMMA ColumnsOf ==
  ASSUME Inv, Finished, NEW S \in SUBSET Results
  PROVE  LET Sum(column) == Total([k \in 0 .. Buckets - 1 |-> Row(S, k)[column]])
         IN  /\ Sum("started") = Accepted(S) /\ Sum("completed") = Accepted(S)
             /\ Sum("successful") = Cardinality(Ok(S)) /\ Sum("errors") = Cardinality(Errors(S))
             /\ Sum("rejected") = Cardinality(Rejected(S))
<1> DEFINE n == Buckets - 1
           started == [k \in 0 .. n |-> Row(S, k)["started"]]
           completed == [k \in 0 .. n |-> Row(S, k)["completed"]]
           successful == [k \in 0 .. n |-> Row(S, k)["successful"]]
           errors == [k \in 0 .. n |-> Row(S, k)["errors"]]
           rejected == [k \in 0 .. n |-> Row(S, k)["rejected"]]
           from == [i \in S |-> Bucket(requests[i].from)]
           to == [i \in S |-> Bucket(requests[i].to)]
<1>1. n \in Nat /\ (\A i \in S : from[i] \in 0 .. n) /\ (\A i \in S : to[i] \in 0 .. n)
  BY BucketFacts, ResultFacts
<1>2. /\ Dispatched(S) \in SUBSET S /\ Ok(S) \in SUBSET S /\ Errors(S) \in SUBSET S
      /\ Rejected(S) \in SUBSET S
  BY DEF Dispatched, Ok, Errors, Rejected
<1>3. Total(started) = Accepted(S)
  <2>1. \A k \in 0 .. n : started[k] = Cardinality(Alike(Dispatched(S), from, k))
    <3> SUFFICES ASSUME NEW k \in 0 .. n
                 PROVE  started[k] = Cardinality(Alike(Dispatched(S), from, k))
      OBVIOUS
    <3>1. started[k] = Cardinality(Started(S, k))
      BY DEF Row
    <3>2. Started(S, k) = Alike(Dispatched(S), from, k)
      BY <1>2 DEF Alike, Started
    <3> QED BY <3>1, <3>2
  <2>2. DOMAIN started = 0 .. n
    OBVIOUS
  <2>3. \A i \in Dispatched(S) : from[i] \in 0 .. n
    BY <1>1, <1>2
  <2>4. IsFiniteSet(Dispatched(S))
    BY Kinds
  <2> HIDE DEF started, from, n
  <2>5. Total(started) = Cardinality(Dispatched(S))
    BY <1>1, <2>1, <2>2, <2>3, <2>4, ColumnTotal
  <2> QED BY <2>5, Kinds
<1>4. Total(completed) = Accepted(S)
  <2>1. \A k \in 0 .. n : completed[k] = Cardinality(Alike(Dispatched(S), to, k))
    <3> SUFFICES ASSUME NEW k \in 0 .. n
                 PROVE  completed[k] = Cardinality(Alike(Dispatched(S), to, k))
      OBVIOUS
    <3>1. completed[k] = Cardinality(Completed(S, k))
      BY DEF Row
    <3>2. Completed(S, k) = Alike(Dispatched(S), to, k)
      BY <1>2 DEF Alike, Completed
    <3> QED BY <3>1, <3>2
  <2>2. DOMAIN completed = 0 .. n
    OBVIOUS
  <2>3. \A i \in Dispatched(S) : to[i] \in 0 .. n
    BY <1>1, <1>2
  <2>4. IsFiniteSet(Dispatched(S))
    BY Kinds
  <2> HIDE DEF completed, to, n
  <2>5. Total(completed) = Cardinality(Dispatched(S))
    BY <1>1, <2>1, <2>2, <2>3, <2>4, ColumnTotal
  <2> QED BY <2>5, Kinds
<1>5. Total(successful) = Cardinality(Ok(S))
  <2>1. \A k \in 0 .. n : successful[k] = Cardinality(Alike(Ok(S), to, k))
    <3> SUFFICES ASSUME NEW k \in 0 .. n
                 PROVE  successful[k] = Cardinality(Alike(Ok(S), to, k))
      OBVIOUS
    <3>1. successful[k] = Cardinality(Ok(Completed(S, k)))
      BY DEF Row
    <3>2. Ok(Completed(S, k)) = Alike(Ok(S), to, k)
      BY <1>2 DEF Alike, Completed, Dispatched, Ok, Rejected
    <3> QED BY <3>1, <3>2
  <2>2. DOMAIN successful = 0 .. n
    OBVIOUS
  <2>3. \A i \in Ok(S) : to[i] \in 0 .. n
    BY <1>1, <1>2
  <2>4. IsFiniteSet(Ok(S))
    BY Kinds
  <2> HIDE DEF successful, to, n
  <2>5. Total(successful) = Cardinality(Ok(S))
    BY <1>1, <2>1, <2>2, <2>3, <2>4, ColumnTotal
  <2> QED BY <2>5
<1>6. Total(errors) = Cardinality(Errors(S))
  <2>1. \A k \in 0 .. n : errors[k] = Cardinality(Alike(Errors(S), to, k))
    <3> SUFFICES ASSUME NEW k \in 0 .. n
                 PROVE  errors[k] = Cardinality(Alike(Errors(S), to, k))
      OBVIOUS
    <3>1. errors[k] = Cardinality({i \in Errors(S) : Bucket(requests[i].to) = k})
      BY ErrorColumn
    <3>2. {i \in Errors(S) : Bucket(requests[i].to) = k} = Alike(Errors(S), to, k)
      BY <1>2 DEF Alike
    <3> QED BY <3>1, <3>2
  <2>2. DOMAIN errors = 0 .. n
    OBVIOUS
  <2>3. \A i \in Errors(S) : to[i] \in 0 .. n
    BY <1>1, <1>2
  <2>4. IsFiniteSet(Errors(S))
    BY Kinds
  <2> HIDE DEF errors, to, n
  <2>5. Total(errors) = Cardinality(Errors(S))
    BY <1>1, <2>1, <2>2, <2>3, <2>4, ColumnTotal
  <2> QED BY <2>5
<1>7. Total(rejected) = Cardinality(Rejected(S))
  <2>1. \A k \in 0 .. n : rejected[k] = Cardinality(Alike(Rejected(S), from, k))
    <3> SUFFICES ASSUME NEW k \in 0 .. n
                 PROVE  rejected[k] = Cardinality(Alike(Rejected(S), from, k))
      OBVIOUS
    <3>1. rejected[k] = Cardinality({i \in Rejected(S) : Bucket(requests[i].from) = k})
      BY DEF Row
    <3>2. {i \in Rejected(S) : Bucket(requests[i].from) = k} = Alike(Rejected(S), from, k)
      BY <1>2 DEF Alike
    <3> QED BY <3>1, <3>2
  <2>2. DOMAIN rejected = 0 .. n
    OBVIOUS
  <2>3. \A i \in Rejected(S) : from[i] \in 0 .. n
    BY <1>1, <1>2
  <2>4. IsFiniteSet(Rejected(S))
    BY Kinds
  <2> HIDE DEF rejected, from, n
  <2>5. Total(rejected) = Cardinality(Rejected(S))
    BY <1>1, <2>1, <2>2, <2>3, <2>4, ColumnTotal
  <2> QED BY <2>5
<1> QED BY <1>3, <1>4, <1>5, <1>6, <1>7

LEMMA RowsInv == Inv => RowsMatchSummary
<1> SUFFICES ASSUME Inv, Finished, NEW o \in Op
             PROVE  LET S == OfType(o)
                        Sum(column) == Total([k \in 0 .. Buckets - 1 |-> Row(S, k)[column]])
                    IN  /\ Sum("started") = Accepted(S) /\ Sum("completed") = Accepted(S)
                        /\ Sum("successful") = Cardinality(Ok(S))
                        /\ Sum("errors") = Cardinality(Errors(S))
                        /\ Sum("rejected") = Cardinality(Rejected(S))
  BY WindowWhole DEF RowsMatchSummary
<1>1. OfType(o) \in SUBSET Results
  BY DEF OfType
<1> QED BY <1>1, ColumnsOf

\* The time series and the summary agree in every count, and the pooled window holds
\* all results, for any shards, operation types, interval and number of operations.
THEOREM SeriesMatchesSummary == Spec => []RowsMatchSummary
BY InvAlways, RowsInv, PTL

-----------------------------------------------------------------------------
(* The backlog.                                                            *)

\* What is carried to the end of bucket k is what has started by then and completes
\* in a later one.
Crossing(S, k) == {i \in Dispatched(S) : Bucket(requests[i].from) <= k
                                         /\ k < Bucket(requests[i].to)}

LEMMA CarriedOver ==
  ASSUME Inv, Finished, NEW S \in SUBSET Results, NEW k \in 0 .. Buckets - 1
  PROVE  InFlightEnd(S, k) = Cardinality(Crossing(S, k)) /\ IsFiniteSet(Crossing(S, k))
<1> DEFINE D == Dispatched(S)
           F == {i \in D : Bucket(requests[i].from) <= k}
           T == {i \in D : Bucket(requests[i].to) <= k}
           from == [i \in D |-> Bucket(requests[i].from)]
           to == [i \in D |-> Bucket(requests[i].to)]
           a == [n \in 0 .. k |-> Cardinality(Started(S, n))]
           b == [n \in 0 .. k |-> Cardinality(Completed(S, n))]
           f == [n \in 0 .. k |-> Row(S, n).started - Row(S, n).completed]
<1>1. IsFiniteSet(D) /\ D \subseteq Results
  BY Kinds DEF Dispatched
<1>2. k \in Nat /\ IsFiniteSet(0 .. k)
  <2>1. k \in Nat
    BY BucketFacts
  <2> QED BY <2>1, FS_Interval
<1>3. ASSUME NEW i \in D
      PROVE  /\ Bucket(requests[i].from) \in Nat /\ Bucket(requests[i].to) \in Nat
             /\ Bucket(requests[i].from) <= Bucket(requests[i].to)
  <2>1. requests[i].from \in Nat /\ requests[i].to \in Nat /\ requests[i].from <= requests[i].to
    BY <1>1, ResultFacts
  <2>2. Bucket(requests[i].from) \in 0 .. Buckets - 1 /\ Bucket(requests[i].to) \in 0 .. Buckets - 1
    BY <2>1, BucketFacts
  <2> QED BY <2>1, <2>2, BucketFacts
<1>4. IsFiniteSet(F) /\ IsFiniteSet(T) /\ IsFiniteSet(Crossing(S, k))
  <2>1. F \in SUBSET D /\ T \in SUBSET D /\ Crossing(S, k) \in SUBSET D
    BY DEF Crossing
  <2> HIDE DEF F, T, D
  <2> QED BY <1>1, <2>1, FS_Subset
<1>5. SumOf(a, 0 .. k) = Cardinality(F)
  <2>1. \A i \in F : from[i] \in 0 .. k
    BY <1>2, <1>3
  <2>2. \A n \in 0 .. k : a[n] = Cardinality(Alike(F, from, n))
    <3> SUFFICES ASSUME NEW n \in 0 .. k
                 PROVE  Started(S, n) = Alike(F, from, n)
      OBVIOUS
    <3> QED BY <1>2 DEF Alike, Started
  <2> HIDE DEF a, F, from
  <2> QED BY <1>2, <1>4, <2>1, <2>2, CountSplit
<1>6. SumOf(b, 0 .. k) = Cardinality(T)
  <2>1. \A i \in T : to[i] \in 0 .. k
    BY <1>2, <1>3
  <2>2. \A n \in 0 .. k : b[n] = Cardinality(Alike(T, to, n))
    <3> SUFFICES ASSUME NEW n \in 0 .. k
                 PROVE  Completed(S, n) = Alike(T, to, n)
      OBVIOUS
    <3> QED BY <1>2 DEF Alike, Completed
  <2> HIDE DEF b, T, to
  <2> QED BY <1>2, <1>4, <2>1, <2>2, CountSplit
<1>7. \A n \in 0 .. k : a[n] \in Nat /\ b[n] \in Nat /\ f[n] = a[n] - b[n]
  <2> SUFFICES ASSUME NEW n \in 0 .. k
               PROVE  a[n] \in Nat /\ b[n] \in Nat /\ f[n] = a[n] - b[n]
    OBVIOUS
  <2>1. Started(S, n) \in SUBSET D /\ Completed(S, n) \in SUBSET D
    BY DEF Started, Completed
  <2>2. Cardinality(Started(S, n)) \in Nat /\ Cardinality(Completed(S, n)) \in Nat
    <3> HIDE DEF D
    <3> QED BY <1>1, <2>1, FS_Subset, FS_CardinalityType
  <2>3. f[n] = Cardinality(Started(S, n)) - Cardinality(Completed(S, n))
    BY DEF Row
  <2> QED BY <2>2, <2>3
<1>8. InFlightEnd(S, k) = SumOf(f, 0 .. k)
  <2>1. InFlightEnd(S, k) = Total(f) /\ DOMAIN f = 0 .. k
    BY DEF InFlightEnd
  <2> HIDE DEF f
  <2> QED BY <2>1, TotalSum
<1>9. InFlightEnd(S, k) = Cardinality(F) - Cardinality(T)
  <2> HIDE DEF f, a, b
  <2> QED BY <1>2, <1>5, <1>6, <1>7, <1>8, SumDifference
<1>10. F = T \cup Crossing(S, k) /\ T \cap Crossing(S, k) = {}
  BY <1>2, <1>3 DEF Crossing
<1>11. Cardinality(F) = Cardinality(T) + Cardinality(Crossing(S, k))
       /\ Cardinality(T) \in Nat /\ Cardinality(Crossing(S, k)) \in Nat
  <2> HIDE DEF F, T
  <2> QED BY <1>4, <1>10, TwoParts
<1> HIDE DEF F, T
<1> QED BY <1>4, <1>9, <1>11

LEMMA BacklogInv == Inv => BacklogTrue
<1> SUFFICES ASSUME Inv, Finished, NEW k \in 0 .. Buckets - 1
             PROVE  Total([o \in Op |-> InFlightEnd(OfType(o), k)])
                      = IF k = Buckets - 1 THEN 0 ELSE running[Origin + (k + 1) * Interval - 1]
  BY DEF BacklogTrue
<1> DEFINE C == Crossing(Results, k)
           reported == [o \in Op |-> InFlightEnd(OfType(o), k)]
           op == [i \in C |-> requests[i].op]
<1>1. IsFiniteSet(C) /\ C \subseteq Results
  BY CarriedOver DEF Crossing, Dispatched
<1>2. Total(reported) = Cardinality(C)
  <2>1. \A i \in C : op[i] \in Op
    BY <1>1, ResultFacts
  <2>2. ASSUME NEW o \in Op
        PROVE  reported[o] = Cardinality(Alike(C, op, o))
    <3>1. OfType(o) \in SUBSET Results
      BY DEF OfType
    <3>2. reported[o] = Cardinality(Crossing(OfType(o), k))
      BY <3>1, CarriedOver
    <3>3. Crossing(OfType(o), k) = Alike(C, op, o)
      BY DEF Alike, Crossing, Dispatched, OfType, Rejected
    <3> QED BY <3>2, <3>3
  <2>3. IsFiniteSet(Op)
    BY ReportAssumption DEF ReportAssumption
  <2>4. DOMAIN reported = Op
    OBVIOUS
  <2>5. SumOf(reported, Op) = Cardinality(C)
    <3> HIDE DEF reported, op, C
    <3> QED BY <1>1, <2>1, <2>2, <2>3, CountSplit
  <2> HIDE DEF reported, C
  <2> QED BY <2>4, <2>5, TotalSum
<1>3. \A i \in C : requests[i].from \in Nat /\ requests[i].to \in Nat
  BY <1>1, ResultFacts
<1>4. CASE k = Buckets - 1
  <2>1. C = {}
    <3> SUFFICES ASSUME NEW i \in C PROVE FALSE
      OBVIOUS
    <3>1. Bucket(requests[i].to) \in 0 .. Buckets - 1 /\ k < Bucket(requests[i].to)
      BY <1>3, BucketFacts DEF Crossing
    <3> QED BY <1>4, <3>1, BucketFacts
  <2> QED BY <1>2, <1>4, <2>1, FS_EmptySet
<1>5. CASE k # Buckets - 1
  <2>1. k \in 0 .. Buckets - 2 /\ k \in Nat
    BY <1>5, BucketFacts
  <2>2. Last(k) \in 0 .. clock - 1 /\ Last(k) \in Int
    BY <2>1, BucketFacts
  <2>3. C = Flying(Last(k))
    <3>1. ASSUME NEW i \in Results
          PROVE  /\ Bucket(requests[i].from) <= k <=> requests[i].from <= Last(k)
                 /\ k < Bucket(requests[i].to) <=> requests[i].to > Last(k)
      <4>1. requests[i].from \in Nat /\ requests[i].to \in Nat
        BY ResultFacts
      <4>2. Bucket(requests[i].to) \in 0 .. Buckets - 1
        BY <4>1, BucketFacts
      <4> QED BY <2>1, <2>2, <4>1, <4>2, BucketFacts
    <3>2. Results = DOMAIN requests /\ \A i \in DOMAIN requests : requests[i].state # "sent"
      BY WindowWhole DEF Sent
    <3> QED BY <3>1, <3>2 DEF Crossing, Flying, Dispatched, Rejected
  <2>4. running[Last(k)] = Cardinality(C)
    BY <2>2, <2>3 DEF Inv, HistoryTrue
  <2>5. Last(k) = Origin + (k + 1) * Interval - 1
    BY <2>1, ReportAssumption, StampFacts DEF Last, ReportAssumption
  <2> QED BY <1>2, <1>5, <2>4, <2>5
<1> QED BY <1>4, <1>5

\* At every interval boundary inside the window the time series shows what really was
\* in flight over all shards, and at its end nothing, for any interval and shards.
THEOREM BacklogIsReal == Spec => []BacklogTrue
BY InvAlways, BacklogInv, PTL

-----------------------------------------------------------------------------
(* Ranks in a finite set with a strict order, before[x] being what precedes x. *)

StrictOrder(S, before) ==
  /\ \A x \in S : before[x] \in SUBSET (S \ {x})
  /\ \A x, y \in S : x # y => x \in before[y] \/ y \in before[x]
  /\ \A x, y \in S : x \in before[y] => before[x] \subseteq before[y]

\* Each place is that of one element.
LEMMA RankBijective ==
  ASSUME NEW S, IsFiniteSet(S), NEW before, StrictOrder(S, before)
  PROVE  /\ \A x \in S : Cardinality(before[x]) \in 0 .. Cardinality(S) - 1
         /\ \A x, y \in S : Cardinality(before[x]) = Cardinality(before[y]) => x = y
         /\ \A i \in 0 .. Cardinality(S) - 1 : \E x \in S : Cardinality(before[x]) = i
<1> DEFINE N == Cardinality(S)
           Place(x) == Cardinality(before[x])
           rank == [x \in S |-> Place(x)]
<1>1. N \in Nat
  BY FS_CardinalityType
<1>2. \A x \in S : IsFiniteSet(before[x]) /\ Place(x) \in Nat
  BY FS_Subset, FS_CardinalityType DEF StrictOrder
<1>3. ASSUME NEW x \in S PROVE Place(x) \in 0 .. N - 1
  <2>1. x \notin before[x] /\ before[x] \cup {x} \in SUBSET S
    BY DEF StrictOrder
  <2>2. Cardinality(before[x] \cup {x}) = Place(x) + 1
    BY <1>2, <2>1, FS_AddElement
  <2>3. Cardinality(before[x] \cup {x}) <= N
    BY <2>1, FS_Subset
  <2> QED BY <1>1, <1>2, <2>2, <2>3
<1>4. ASSUME NEW x \in S, NEW y \in S, x \in before[y] PROVE Place(x) < Place(y)
  <2>1. x \notin before[x] /\ before[x] \cup {x} \in SUBSET before[y]
    BY <1>4 DEF StrictOrder
  <2>2. Cardinality(before[x] \cup {x}) = Place(x) + 1
    BY <1>2, <2>1, FS_AddElement
  <2>3. Cardinality(before[x] \cup {x}) <= Place(y)
    BY <1>2, <2>1, FS_Subset
  <2> QED BY <1>2, <2>2, <2>3
<1>5. ASSUME NEW x \in S, NEW y \in S, Place(x) = Place(y) PROVE x = y
  <2> SUFFICES ASSUME x # y PROVE FALSE
    OBVIOUS
  <2>1. x \in before[y] \/ y \in before[x]
    BY DEF StrictOrder
  <2>2. Place(x) < Place(y) \/ Place(y) < Place(x)
    BY <1>4, <2>1
  <2> HIDE DEF Place
  <2> QED BY <1>2, <1>5, <2>2
<1>6. rank \in Injection(S, 0 .. N - 1)
  <2> HIDE DEF Place
  <2> QED BY <1>3, <1>5 DEF Injection, IsInjective
<1>7. IsFiniteSet(0 .. N - 1) /\ Cardinality(0 .. N - 1) = N
  BY <1>1, FS_Interval
<1>8. rank \in Surjection(S, 0 .. N - 1)
  <2> HIDE DEF rank
  <2> QED BY <1>6, <1>7, FS_Injection
<1> QED BY <1>3, <1>5, <1>8 DEF Surjection

\* As many elements are in a range of places as the range has places.
LEMMA RankCount ==
  ASSUME NEW S, IsFiniteSet(S), NEW before, StrictOrder(S, before),
         NEW a \in Nat, NEW b \in Nat, a <= b, b <= Cardinality(S)
  PROVE  Cardinality({x \in S : a <= Cardinality(before[x]) /\ Cardinality(before[x]) < b}) = b - a
<1> DEFINE T == {x \in S : a <= Cardinality(before[x]) /\ Cardinality(before[x]) < b}
           rank == [x \in T |-> Cardinality(before[x])]
<1>1. Cardinality(S) \in Nat /\ IsFiniteSet(T)
  BY FS_CardinalityType, FS_Subset
<1>2. rank \in [T -> a .. b - 1]
  BY RankBijective
<1>3. ASSUME NEW i \in a .. b - 1 PROVE \E x \in T : rank[x] = i
  <2>1. i \in 0 .. Cardinality(S) - 1
    BY <1>1
  <2> QED BY <2>1, RankBijective
<1>4. rank \in Surjection(T, a .. b - 1)
  <2> HIDE DEF rank, T
  <2> QED BY <1>2, <1>3 DEF Surjection
<1>5. rank \in Injection(T, a .. b - 1)
  <2>1. \A x, y \in T : rank[x] = rank[y] => x = y
    BY RankBijective
  <2> HIDE DEF rank, T
  <2> QED BY <1>2, <2>1 DEF Injection, IsInjective
<1>6. Cardinality(T) = Cardinality(a .. b - 1)
  <2> HIDE DEF rank, T
  <2> QED BY <1>1, <1>4, <1>5, FS_Surjection
<1>7. Cardinality(a .. b - 1) = b - a
  <2>1. Cardinality(a .. b - 1) = IF a > b - 1 THEN 0 ELSE (b - 1) - a + 1
    BY FS_Interval
  <2> QED BY <2>1
<1> QED BY <1>6, <1>7


-----------------------------------------------------------------------------
(* The percentiles.                                                        *)

\* The nearest rank is a rank, and the least one that is percent of n.
LEMMA RankFacts ==
  ASSUME NEW percent \in 1 .. 100, NEW n \in Nat \ {0}
  PROVE  /\ Rank(percent, n) \in 1 .. n /\ 100 * Rank(percent, n) >= percent * n
         /\ \A m \in Nat : 100 * m >= percent * n => Rank(percent, n) <= m
<1> DEFINE p == percent * n
           q == (p + 99) \div 100
<1>1. p \in Nat /\ p >= 1 /\ p <= 100 * n
  <2>1. percent * n \in Nat /\ (percent - 1) * n \in Nat /\ (100 - percent) * n \in Nat
    OBVIOUS
  <2>2. percent * n = (percent - 1) * n + n /\ 100 * n = percent * n + (100 - percent) * n
    OBVIOUS
  <2> QED BY <2>1, <2>2
<1> HIDE DEF p
<1>2. q \in Nat /\ 100 * q <= p + 99 /\ p + 99 < 100 * q + 100
  BY <1>1
<1>3. Rank(percent, n) = Max({1, Min({n, q})})
  BY DEF Rank, p
<1> HIDE DEF q
<1>4. q >= 1 /\ q <= n
  BY <1>1, <1>2
<1>5. Min({n, q}) = q
  <2>1. n \in Int /\ q \in Int
    BY <1>2
  <2>2. Min({n, q}) = IF n >= q THEN q ELSE n
    BY <2>1, LargerOfTwo
  <2> QED BY <1>2, <1>4, <2>2
<1>6. Rank(percent, n) = q
  <2>1. 1 \in Int /\ q \in Int
    BY <1>2
  <2>2. Max({1, q}) = IF 1 >= q THEN 1 ELSE q
    BY <2>1, LargerOfTwo
  <2> QED BY <1>2, <1>3, <1>4, <1>5, <2>2
<1>7. 100 * q >= p
  BY <1>1, <1>2
<1>8. \A m \in Nat : 100 * m >= p => q <= m
  BY <1>1, <1>2
<1> QED BY <1>2, <1>4, <1>6, <1>7, <1>8 DEF p

\* The latencies of a set of results are in order: each comes after as many as its
\* place says.
LEMMA LatencyOrder ==
  ASSUME Inv, NEW S \in SUBSET Results
  PROVE  /\ StrictOrder(S, [i \in S |-> Before(S, i)]) /\ IsFiniteSet(S)
         /\ \A i \in S : Latency(i) \in Nat
<1>1. IsFiniteSet(S)
  BY Kinds
<1>2. \A i \in S : Latency(i) \in Nat /\ i \in Nat
  <2> SUFFICES ASSUME NEW i \in S PROVE Latency(i) \in Nat /\ i \in Nat
    OBVIOUS
  <2>1. requests[i].from \in Nat /\ requests[i].to \in Nat /\ requests[i].from <= requests[i].to
        /\ i \in Nat
    BY ResultFacts
  <2> QED BY <2>1 DEF Latency
<1>3. StrictOrder(S, [i \in S |-> Before(S, i)])
  BY <1>2 DEF StrictOrder, Before
<1> QED BY <1>1, <1>2, <1>3

\* The operation at a place, and what is before it.
LEMMA AtPlace ==
  ASSUME Inv, NEW S \in SUBSET Results, NEW r \in 1 .. Cardinality(S)
  PROVE  Ordered(S)[r] \in S /\ Cardinality(Before(S, Ordered(S)[r])) = r - 1
<1> DEFINE before == [i \in S |-> Before(S, i)]
<1>1. StrictOrder(S, before) /\ IsFiniteSet(S)
  BY LatencyOrder
<1>2. Cardinality(S) \in Nat /\ r - 1 \in 0 .. Cardinality(S) - 1
  BY <1>1, FS_CardinalityType
<1>3. \E i \in S : Cardinality(before[i]) = r - 1
  <2> HIDE DEF before
  <2> QED BY <1>1, <1>2, RankBijective
<1>4. \E i \in S : Cardinality(Before(S, i)) = r - 1
  BY <1>3
<1>5. Ordered(S)[r] = CHOOSE i \in S : Cardinality(Before(S, i)) = r - 1
  BY <1>2 DEF Ordered
<1> QED BY <1>4, <1>5

\* At least percent of the latencies are within the percentile, and fewer are within
\* anything less.
LEMMA NearestRank ==
  ASSUME Inv, NEW S \in SUBSET Results, S # {}, NEW percent \in 1 .. 100
  PROVE  LET Within(x) == 100 * Cardinality({i \in S : Latency(i) <= x}) >= percent * Cardinality(S)
         IN  /\ Within(Percentile(S, percent))
             /\ \A i \in S : Within(Latency(i)) => Percentile(S, percent) <= Latency(i)
<1> DEFINE n == Cardinality(S)
           r == Rank(percent, n)
           c == Ordered(S)[r]
           before == [i \in S |-> Before(S, i)]
           Upto(x) == {i \in S : Latency(i) <= x}
<1>1. StrictOrder(S, before) /\ IsFiniteSet(S) /\ \A i \in S : Latency(i) \in Nat
  BY LatencyOrder
<1>2. n \in Nat \ {0}
  BY <1>1, FS_CardinalityType, FS_EmptySet
<1>3. r \in 1 .. n /\ 100 * r >= percent * n /\ \A m \in Nat : 100 * m >= percent * n => r <= m
  BY <1>2, RankFacts
<1>4. c \in S /\ Cardinality(Before(S, c)) = r - 1
  BY <1>3, AtPlace
<1>5. Percentile(S, percent) = Latency(c)
  BY DEF Percentile
<1>6. \A x : Upto(x) \in SUBSET S /\ IsFiniteSet(Upto(x)) /\ Cardinality(Upto(x)) \in Nat
  <2>1. \A x : Upto(x) \in SUBSET S
    OBVIOUS
  <2> HIDE DEF Upto
  <2> QED BY <1>1, <2>1, FS_Subset, FS_CardinalityType
<1>7. Before(S, c) \in SUBSET S /\ IsFiniteSet(Before(S, c)) /\ c \notin Before(S, c)
  <2>1. before[c] = Before(S, c) /\ before[c] \in SUBSET (S \ {c})
    BY <1>1, <1>4 DEF StrictOrder
  <2> HIDE DEF before, c
  <2> QED BY <1>1, <2>1, FS_Subset
<1> HIDE DEF c, r, n
<1>8. 100 * Cardinality(Upto(Latency(c))) >= percent * n
  <2>1. Before(S, c) \cup {c} \in SUBSET Upto(Latency(c))
    BY <1>1, <1>4 DEF Before
  <2>2. Cardinality(Before(S, c) \cup {c}) = Cardinality(Before(S, c)) + 1
    BY <1>7, FS_AddElement
  <2>3. r <= Cardinality(Upto(Latency(c)))
    <3> HIDE DEF Upto
    <3> QED BY <1>3, <1>4, <1>6, <2>1, <2>2, FS_Subset
  <2>4. percent * n \in Nat
    BY <1>2
  <2> HIDE DEF Upto
  <2> QED BY <1>3, <1>6, <2>3, <2>4
<1>9. ASSUME NEW i \in S, 100 * Cardinality(Upto(Latency(i))) >= percent * n
      PROVE  Latency(c) <= Latency(i)
  <2> SUFFICES ASSUME Latency(i) < Latency(c) PROVE FALSE
    BY <1>1, <1>4
  <2>1. Upto(Latency(i)) \in SUBSET Before(S, c)
    BY <1>1, <1>4 DEF Before
  <2> HIDE DEF Upto
  <2>2. Cardinality(Upto(Latency(i))) <= r - 1
    BY <1>4, <1>7, <2>1, FS_Subset
  <2>3. r <= Cardinality(Upto(Latency(i)))
    BY <1>3, <1>6, <1>9
  <2> QED BY <1>3, <1>6, <2>2, <2>3
<1> QED BY <1>5, <1>8, <1>9 DEF n

LEMMA RanksInv == Inv => LatencyRanks
<1> SUFFICES ASSUME Inv, NEW o \in Op, NEW percent \in {50, 90, 95, 99}, Ok(OfType(o)) # {}
             PROVE  LET S == Ok(OfType(o))
                        Within(x) == 100 * Cardinality({i \in S : Latency(i) <= x})
                                       >= percent * Cardinality(S)
                    IN  /\ Within(Percentile(S, percent))
                        /\ \A i \in S : Within(Latency(i))
                                          => Percentile(S, percent) <= Latency(i)
  BY DEF LatencyRanks
<1>1. Ok(OfType(o)) \in SUBSET Results
  BY DEF OfType, Ok
<1>2. percent \in 1 .. 100
  OBVIOUS
<1> QED BY <1>1, <1>2, NearestRank

-----------------------------------------------------------------------------
(* The error breakdown.                                                    *)

LEMMA BreakdownOf ==
  ASSUME Inv, NEW S \in SUBSET Results
  PROVE  Total([row \in Rows(S) |-> RowCount(S, row)]) = Cardinality(Errors(S))
<1> DEFINE f == [row \in Rows(S) |-> RowCount(S, row)]
           row == [i \in Errors(S) |-> RowOf(i)]
<1>1. Broken(S) = Errors(S)
  <2> SUFFICES ASSUME NEW i \in Errors(S) PROVE requests[i].detail # "none"
    BY DEF Broken, Errors
  <2>1. requests[i].state \in Status /\ Described(requests[i])
        /\ requests[i].state \notin {"ok", "rejected"}
    BY ResultFacts DEF Errors
  <2> QED BY <2>1 DEF Described, Status
<1>2. IsFiniteSet(Errors(S))
  BY Kinds
<1>3. Rows(S) = {RowOf(i) : i \in Errors(S)}
  BY <1>1 DEF Rows
<1>4. IsFiniteSet(Rows(S))
  <2>1. row \in Surjection(Errors(S), Rows(S))
    BY <1>3 DEF Surjection
  <2> HIDE DEF row
  <2> QED BY <1>2, <2>1, FS_Surjection
<1>5. \A i \in Errors(S) : row[i] \in Rows(S)
  BY <1>3
<1>6. \A x \in Rows(S) : f[x] = Cardinality(Alike(Errors(S), row, x))
  <2> SUFFICES ASSUME NEW x \in Rows(S)
               PROVE  RowCount(S, x) = Cardinality(Alike(Errors(S), row, x))
    OBVIOUS
  <2>1. {i \in Broken(S) : RowOf(i) = x} = Alike(Errors(S), row, x)
    BY <1>1 DEF Alike
  <2> QED BY <2>1 DEF RowCount
<1>7. DOMAIN f = Rows(S)
  OBVIOUS
<1>8. SumOf(f, Rows(S)) = Cardinality(Errors(S))
  <2> HIDE DEF f, row
  <2> QED BY <1>2, <1>4, <1>5, <1>6, CountSplit
<1> HIDE DEF f
<1>9. Total(f) = Cardinality(Errors(S))
  BY <1>7, <1>8, TotalSum
<1> QED BY <1>9 DEF f

LEMMA BreakdownInv == Inv => BreakdownReconciles
<1>1. Results \in SUBSET Results /\ \A o \in Op : OfType(o) \in SUBSET Results
  BY DEF OfType
<1> QED BY <1>1, BreakdownOf DEF BreakdownReconciles

\* The percentiles are the nearest ranks of the latencies, and the rows of the error
\* breakdown add up to the errors, whatever was raised, for any number of operations.
THEOREM SummaryIsTrue == Spec => []SummaryTrue
<1>1. Inv => SummaryTrue
  BY RanksInv, BreakdownInv DEF Inv, SummaryTrue
<1> QED BY <1>1, InvAlways, PTL

=============================================================================
