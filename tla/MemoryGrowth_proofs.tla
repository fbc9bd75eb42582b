------------------------- MODULE MemoryGrowth_proofs -------------------------
(***************************************************************************)
(* Proofs that manifest.json is true whenever the sweep is killed, that    *)
(* what it once reported is never lost or changed, that the figures and    *)
(* verdicts of both files follow from the repetitions they show, and that  *)
(* every repetition has a corpus and users of its own, for any number of   *)
(* users, points, repetitions and starts.                                  *)
(***************************************************************************)
EXTENDS MemoryGrowth, SequenceTheorems, FiniteSetTheorems, WellFoundedInduction, TLAPS

\* The type of the manifest.
Manifest == [sweep : Nat, status : Verdict, points : Seq(Point)]

Active == {"next", "running", "replace", "truncate", "rows", "closed"}

Types == /\ Points \in Nat \ {0}
         /\ \A i \in 1 .. Points : args.counts[i] \in 0 .. MaxItems
         /\ manifest \in Manifest /\ disk \in Manifest
         /\ pc \in Active \cup {"idle", "over", "refused"}
         /\ then \in {"next", "closed", "over"}
         /\ used \in BOOLEAN /\ sweep \in Nat

\* Where the sweep goes on once the reports are refreshed.
Stage == IF pc \in {"replace", "truncate", "rows"} THEN then ELSE pc

\* A repetition of point p is over.
Ended(p) == \A r \in 1 .. Len(p.repetitions) : p.repetitions[r].status # "running"

\* All repetitions of point p are over, and its verdict is theirs.
Complete(p) == /\ Len(p.repetitions) = Repetitions
               /\ Ended(p)
               /\ p.status = Combined(Statuses(p.repetitions))

\* The manifest m is a true one, apart from its last point.
Sound(m) == /\ \A i \in 1 .. Len(m.points) - 1 : Complete(m.points[i])
            /\ m.status # "running" => /\ Len(m.points) = Points
                                       /\ \A i \in 1 .. Points : Complete(m.points[i])
                                       /\ m.status = Combined(Statuses(m.points))

\* The last point is what its stage says.
LastPoint ==
  /\ Stage \in {"next", "running", "closed"} => manifest.status = "running"
  /\ Stage \in {"running", "closed"} => Current > 0
  /\ Current > 0 /\ pc # "running" => Ended(manifest.points[Current])
  /\ Current > 0 /\ pc = "running" =>
       /\ Runs # <<>>
       /\ \A r \in 1 .. Len(Runs) : Runs[r].status = "running" <=> r = Len(Runs)
  /\ Stage = "closed" => Len(Runs) = Repetitions
  /\ Stage = "next" /\ Current > 0 /\ Len(Runs) = Repetitions =>
       Complete(manifest.points[Current])
  /\ Current <= Points

\* What file d reports is part of manifest m.
PartOfManifest(d, m) ==
  d.points # <<>> =>
    /\ m.sweep = d.sweep
    /\ Len(d.points) <= Len(m.points)
    /\ \A i \in 1 .. Len(d.points) :
         /\ Len(d.points[i].repetitions) <= Len(m.points[i].repetitions)
         /\ \A r \in 1 .. Len(d.points[i].repetitions) :
              m.points[i].repetitions[r] = d.points[i].repetitions[r]

OnDisk == /\ Sound(disk)
          /\ \A i \in 1 .. Len(disk.points) : Ended(disk.points[i])
          /\ disk.points # <<>> => used
          /\ pc \in Active => PartOfManifest(disk, manifest)

Inv == Types /\ Sound(manifest) /\ LastPoint /\ OnDisk

\* A step that takes no repetition from the manifest, and that starts a new one if any.
Keeping == /\ Len(manifest.points) <= Len(manifest'.points)
           /\ \A i \in 1 .. Current : Len(manifest.points[i].repetitions)
                                      <= Len(manifest'.points[i].repetitions)
           /\ pc' = "running" => Current' > Current \/ Len(Runs') > Len(Runs)

-----------------------------------------------------------------------------
(* What the folds over the users and over the shards compute.  A recursive  *)
(* function is the CHOSEN solution of its equation: a function written out  *)
(* solves it as well, and a smallest set where the two differ is impossible.*)

LEMMA SmallestSet ==
  ASSUME NEW C, C # {}, \A s \in C : IsFiniteSet(s)
  PROVE  \E s \in C : \A u \in C : u \subseteq s => u = s
<1> DEFINE S == UNION C
           R == StrictSubsetOrdering(S)
<1>1. IsWellFoundedOn(R, FiniteSubsetsOf(S))
  BY FS_StrictSubsetOrderingWellFounded
<1>2. C \subseteq FiniteSubsetsOf(S)
  BY DEF FiniteSubsetsOf
<1>3. \E x \in C : \A y \in C : ~ (<<y, x>> \in R)
  <2> HIDE DEF R
  <2> QED BY <1>1, <1>2, WFMin
<1>4. ASSUME NEW x \in C, NEW y \in C, ~ (<<y, x>> \in R), y \subseteq x PROVE y = x
  BY <1>4, SMT DEF StrictSubsetOrdering
<1> QED BY <1>3, <1>4

Same(n, count) == [users |-> n, items |-> count * n, low |-> IF n = 0 THEN 0 ELSE count,
                   high |-> IF n = 0 THEN 0 ELSE count]
LEMMA RecordSame == ASSUME NEW n \in Nat, NEW count \in Nat
                    PROVE  Record(Same(n, count), count) = Same(n + 1, count)
<1>1. Max({0, count}) = count /\ Max({count, count}) = count /\ Min({count, count}) = count
  <2>1. \A x \in {0, count} : count >= x  OBVIOUS
  <2> QED BY <2>1 DEF Max, Min
<1>2. count * (n + 1) = count * n + count OBVIOUS
<1>3. CASE n = 0
  BY <1>1, <1>2, <1>3 DEF Record, Same
<1>4. CASE n # 0
  BY <1>1, <1>2, <1>4 DEF Record, Same
<1> QED BY <1>3, <1>4
LEMMA PartIs == ASSUME NEW users, IsFiniteSet(users), NEW count \in Nat
                PROVE  PartOf(users, count) = Same(Cardinality(users), count)
<1> DEFINE c(s) == CHOOSE x \in s : TRUE
           Eqn(f) == f = [s \in SUBSET users |-> IF s = {} THEN NoUsers ELSE Record(f[s \ {c(s)}], count)]
           w == [s \in SUBSET users |-> Same(Cardinality(s), count)]
           g == CHOOSE f : Eqn(f)
<1>1. Eqn(w)
  <2>1. ASSUME NEW s \in SUBSET users, s # {}
        PROVE  w[s] = Record(w[s \ {c(s)}], count)
    <3>1. c(s) \in s /\ IsFiniteSet(s)  BY <2>1, FS_Subset
    <3>2. /\ Cardinality(s \ {c(s)}) = Cardinality(s) - 1
          /\ Cardinality(s) \in Nat /\ Cardinality(s \ {c(s)}) \in Nat
      <4> HIDE DEF c
      <4> QED BY <3>1, FS_RemoveElement, FS_CardinalityType
    <3>3. s \ {c(s)} \in SUBSET users OBVIOUS
    <3> HIDE DEF c
    <3>4. w[s \ {c(s)}] = Same(Cardinality(s) - 1, count)
       BY <3>2, <3>3
    <3>5. Cardinality(s) - 1 + 1 = Cardinality(s) /\ Cardinality(s) - 1 \in Nat BY <3>2
    <3> QED BY <3>4, <3>5, RecordSame
  <2>2. w[{}] = NoUsers
    BY FS_EmptySet DEF Same, NoUsers
  <2> HIDE DEF c
  <2>3. w = [s \in SUBSET users |-> IF s = {} THEN NoUsers ELSE Record(w[s \ {c(s)}], count)]
    BY <2>1, <2>2
  <2> QED BY <2>3
<1>2. Eqn(g)
  <2> HIDE DEF Eqn
  <2> QED BY <1>1, Zenon
<1>3. PartOf(users, count) = g[users]
  BY DEF PartOf, FoldSet, MapThenFoldSet
<1>4. \A s \in SUBSET users : g[s] = w[s]
  <2> SUFFICES ASSUME \E s \in SUBSET users : g[s] # w[s] PROVE FALSE OBVIOUS
  <2> DEFINE C == {s \in SUBSET users : g[s] # w[s]}
  <2>1. C # {} /\ \A s \in C : IsFiniteSet(s)
    BY FS_Subset
  <2> HIDE DEF g, w, C
  <2>2. PICK s \in C : \A u \in C : u \subseteq s => u = s
    BY <2>1, SmallestSet
  <2>3. s \in SUBSET users /\ g[s] # w[s]
    BY DEF C
  <2>4. CASE s = {}
    BY <1>1, <1>2, <2>3, <2>4
  <2>5. CASE s # {}
    <3>1. c(s) \in s BY <2>5
    <3> HIDE DEF c
    <3>2. s \ {c(s)} \notin C
      BY <2>2, <3>1
    <3>3. g[s \ {c(s)}] = w[s \ {c(s)}]
      BY <3>2, <2>3 DEF C
    <3>4. g[s] = Record(g[s \ {c(s)}], count)
      BY <1>2, <2>3, <2>5
    <3>5. w[s] = Record(w[s \ {c(s)}], count)
      BY <1>1, <2>3, <2>5
    <3> QED BY <2>3, <3>3, <3>4, <3>5
  <2> QED BY <2>4, <2>5
<1> QED BY <1>3, <1>4

LEMMA PooledTwo == ASSUME NEW a, NEW b PROVE Pooled(<<a, b>>) = Merge(Merge(NoUsers, a), b)
<1> DEFINE parts == <<a, b>>
           Eqn(f) == f = [s \in SUBSET {1, 2} |-> IF s = {} THEN NoUsers
                                                ELSE Merge(f[s \ {Max(s)}], parts[Max(s)])]
           one(r) == Merge(NoUsers, parts[r])
           w == [s \in SUBSET {1, 2} |-> IF s = {} THEN NoUsers
                                         ELSE IF s = {1} THEN one(1)
                                         ELSE IF s = {2} THEN one(2)
                                         ELSE Merge(one(1), parts[2])]
           g == CHOOSE f : Eqn(f)
<1>1. /\ Max({1}) = 1 /\ Max({2}) = 2 /\ Max({1, 2}) = 2
      /\ {1} \ {1} = {} /\ {2} \ {2} = {} /\ {1, 2} \ {2} = {1}
  <2>1. \A x \in {1, 2} : 2 >= x
    OBVIOUS
  <2> QED BY <2>1 DEF Max
<1>2. SUBSET {1, 2} = {{}, {1}, {2}, {1, 2}}
  <2>1. ASSUME NEW s \in SUBSET {1, 2} PROVE s \in {{}, {1}, {2}, {1, 2}}
    <3>1. CASE 1 \in s /\ 2 \in s
      <4>1. s = {1, 2} BY <3>1
      <4> QED BY <4>1
    <3>2. CASE 1 \in s /\ 2 \notin s
      <4>1. s = {1} BY <3>2
      <4> QED BY <4>1
    <3>3. CASE 1 \notin s /\ 2 \in s
      <4>1. s = {2} BY <3>3
      <4> QED BY <4>1
    <3>4. CASE 1 \notin s /\ 2 \notin s
      <4>1. s = {} BY <3>4
      <4> QED BY <4>1
    <3> QED BY <3>1, <3>2, <3>3, <3>4
  <2> QED BY <2>1
<1>3. Eqn(w)
  <2>1. ASSUME NEW s \in SUBSET {1, 2}, s # {}
        PROVE  w[s] = Merge(w[s \ {Max(s)}], parts[Max(s)])
    <3>1. CASE s = {1}
      BY <1>1, <3>1
    <3>2. CASE s = {2}
      BY <1>1, <3>2
    <3>3. CASE s = {1, 2}
      BY <1>1, <3>3
    <3> QED BY <1>2, <2>1, <3>1, <3>2, <3>3
  <2> QED BY <2>1
<1>4. Eqn(g)
  <2> HIDE DEF Eqn
  <2> QED BY <1>3, Zenon
<1>5. Pooled(parts) = g[{1, 2}]
  <2>1. DOMAIN parts = {1, 2}
    OBVIOUS
  <2> QED BY <2>1 DEF Pooled, FoldLeft, MapThenFoldSet
<1>6. g[{1, 2}] = Merge(g[{1}], b) /\ g[{1}] = Merge(g[{}], a) /\ g[{}] = NoUsers
  <2>1. parts[1] = a /\ parts[2] = b
    OBVIOUS
  <2> HIDE DEF g, parts
  <2>2. \A s \in SUBSET {1, 2} :
          g[s] = IF s = {} THEN NoUsers ELSE Merge(g[s \ {Max(s)}], parts[Max(s)])
    BY <1>4
  <2>3. {1, 2} \in SUBSET {1, 2} /\ {1} \in SUBSET {1, 2} /\ {} \in SUBSET {1, 2}
    OBVIOUS
  <2>4. {1, 2} # {} /\ {1} # {}
    OBVIOUS
  <2>5. g[{}] = NoUsers
    BY <2>2, <2>3
  <2>6. g[{1}] = Merge(g[{1} \ {Max({1})}], parts[Max({1})])
    BY <2>2, <2>3, <2>4, Zenon
  <2>7. g[{1, 2}] = Merge(g[{1, 2} \ {Max({1, 2})}], parts[Max({1, 2})])
    BY <2>2, <2>3, <2>4, Zenon
  <2> QED BY <1>1, <2>1, <2>5, <2>6, <2>7, Zenon
<1> QED BY <1>5, <1>6

LEMMA IngestedItems ==
  ASSUME NEW first \in SUBSET User, NEW count \in Nat
  PROVE  Ingested(first, count).items = count * Cardinality(User)
<1> DEFINE rest == User \ first
           n == Cardinality(first)
           k == Cardinality(rest)
<1>1. IsFiniteSet(User) /\ IsFiniteSet(first) /\ IsFiniteSet(rest)
  BY SweepAssumption, FS_Subset
<1>2. n \in Nat /\ k \in Nat /\ n + k = Cardinality(User)
  <2>1. User \cap first = first
    OBVIOUS
  <2>2. k = Cardinality(User) - n
    BY <1>1, <2>1, FS_Difference
  <2>3. n \in Nat /\ k \in Nat /\ Cardinality(User) \in Nat
    BY <1>1, FS_CardinalityType
  <2> QED BY <2>2, <2>3
<1>3. Ingested(first, count) = Merge(Merge(NoUsers, Same(n, count)), Same(k, count))
  BY <1>1, PartIs, PooledTwo DEF Ingested
<1> HIDE DEF n, k
<1>4. Merge(NoUsers, Same(n, count)).items = count * n
  <2>1. count * 0 = 0 /\ count * n \in Nat
    BY <1>2
  <2> QED BY <1>2, <2>1 DEF Merge, NoUsers, Same
<1>5. Merge(Merge(NoUsers, Same(n, count)), Same(k, count)).items = count * n + count * k
  <2>1. count * 0 = 0 /\ count * n \in Nat /\ count * k \in Nat
    BY <1>2
  <2> DEFINE s == Merge(NoUsers, Same(n, count))
  <2> HIDE DEF s
  <2>2. s.items + count * 0 = s.items
    BY <1>4, <2>1 DEF s
  <2> QED BY <1>2, <1>4, <2>1, <2>2 DEF Merge, Same, s
<1>6. count * n + count * k = count * (n + k)
  BY <1>2
<1> QED BY <1>2, <1>3, <1>5, <1>6

-----------------------------------------------------------------------------
(* Manifests.                                                              *)

LEMMA BlankSound ==
  /\ Blank \in Manifest /\ Blank.points = <<>> /\ Len(Blank.points) = 0
  /\ Blank.status = "running" /\ Sound(Blank)
BY EmptySeq DEF Blank, Manifest, Verdict, Sound

LEMMA CombinedVerdict ==
  ASSUME NEW verdicts PROVE Combined(verdicts) \in Verdict \ {"running"}
BY DEF Combined, Verdict

LEMMA PointsOf ==
  ASSUME NEW m \in Manifest
  PROVE  /\ m.points \in Seq(Point) /\ Len(m.points) \in Nat
         /\ DOMAIN m.points = 1 .. Len(m.points)
         /\ \A i \in 1 .. Len(m.points) :
              /\ m.points[i] \in Point
              /\ m.points[i].repetitions \in Seq(Repetition)
              /\ Len(m.points[i].repetitions) \in Nat
              /\ DOMAIN m.points[i].repetitions = 1 .. Len(m.points[i].repetitions)
              /\ m.points[i].status \in Verdict
<1>1. m.points \in Seq(Point)
  BY DEF Manifest
<1>2. Len(m.points) \in Nat /\ DOMAIN m.points = 1 .. Len(m.points)
  BY <1>1, LenProperties
<1>3. ASSUME NEW i \in 1 .. Len(m.points)
      PROVE  /\ m.points[i] \in Point
             /\ m.points[i].repetitions \in Seq(Repetition)
             /\ m.points[i].status \in Verdict
  <2>1. m.points[i] \in Point
    BY <1>1, ElementOfSeq
  <2> QED BY <2>1 DEF Point
<1>4. \A i \in 1 .. Len(m.points) :
        /\ Len(m.points[i].repetitions) \in Nat
        /\ DOMAIN m.points[i].repetitions = 1 .. Len(m.points[i].repetitions)
  BY <1>3, LenProperties
<1> QED BY <1>1, <1>2, <1>3, <1>4

\* The last point replaced by another one.
LEMMA ReplaceLast ==
  ASSUME NEW m \in Manifest, Len(m.points) > 0, NEW p \in Point,
         NEW n, n = [m EXCEPT !.points[Len(m.points)] = p]
  PROVE  /\ n \in Manifest /\ Len(n.points) = Len(m.points)
         /\ \A i \in 1 .. Len(m.points) :
              n.points[i] = IF i = Len(m.points) THEN p ELSE m.points[i]
         /\ n.status = m.status /\ n.sweep = m.sweep
<1>1. Len(m.points) \in 1 .. Len(m.points)
  BY PointsOf
<1>2. n.points = [m.points EXCEPT ![Len(m.points)] = p] /\ n.status = m.status
        /\ n.sweep = m.sweep /\ n = [m EXCEPT !.points = n.points]
  BY DEF Manifest
<1>3. n.points \in Seq(Point) /\ Len(n.points) = Len(m.points)
  BY <1>1, <1>2, PointsOf, ExceptSeq
<1>4. \A i \in 1 .. Len(m.points) :
        n.points[i] = IF i = Len(m.points) THEN p ELSE m.points[i]
  BY <1>1, <1>2, PointsOf, ExceptSeq
<1>5. n \in Manifest
  BY <1>2, <1>3 DEF Manifest
<1> QED BY <1>2, <1>3, <1>4, <1>5

LEMMA ExtremaIn ==
  ASSUME NEW Q, Q \subseteq 0 .. 2, Q # {}
  PROVE  /\ Min(Q) \in 0 .. 2 /\ Max(Q) \in 0 .. 2
         /\ Min(Q) \in Q /\ Max(Q) \in Q /\ Q \subseteq Min(Q) .. Max(Q)
<1>1. \A x \in Q : x = 0 \/ x = 1 \/ x = 2
  OBVIOUS
<1>2. \E x \in Q : \A y \in Q : x <= y
  <2>1. CASE 0 \in Q
    BY <1>1, <2>1
  <2>2. CASE 0 \notin Q /\ 1 \in Q
    BY <1>1, <2>2
  <2>3. CASE 0 \notin Q /\ 1 \notin Q
    <3>1. Q = {2}
      BY <1>1, <2>3
    <3> QED BY <3>1
  <2> QED BY <2>1, <2>2, <2>3
<1>3. \E x \in Q : \A y \in Q : x >= y
  <2>1. CASE 2 \in Q
    BY <1>1, <2>1
  <2>2. CASE 2 \notin Q /\ 1 \in Q
    BY <1>1, <2>2
  <2>3. CASE 2 \notin Q /\ 1 \notin Q
    <3>1. Q = {0}
      BY <1>1, <2>3
    <3> QED BY <3>1
  <2> QED BY <2>1, <2>2, <2>3
<1>4. Min(Q) \in Q /\ \A y \in Q : Min(Q) <= y
  BY <1>2 DEF Min
<1>5. Max(Q) \in Q /\ \A y \in Q : Max(Q) >= y
  BY <1>3 DEF Max
<1>6. Min(Q) \in 0 .. 2 /\ Max(Q) \in 0 .. 2
  BY <1>4, <1>5
<1>7. \A y \in Q : y \in Nat /\ Min(Q) <= y /\ y <= Max(Q)
  BY <1>4, <1>5, <1>6
<1> QED BY <1>4, <1>5, <1>6, <1>7

\* The bounds of a metric over the valid repetitions are of the metric's type.
LEMMA AggregatedType ==
  ASSUME NEW p \in Point, NEW runs \in Seq(Repetition)
  PROVE  /\ Aggregated(p, runs) \in Point
         /\ Aggregated(p, runs).repetitions = runs
         /\ Aggregated(p, runs).status = p.status
<1>1. \A r \in DOMAIN runs : runs[r].qps \in 0 .. 2
  <2>1. \A r \in DOMAIN runs : runs[r] \in Repetition
    BY ElementOfSeq, LenProperties
  <2> QED BY <2>1 DEF Repetition
<1>2. ValidQps(runs) \subseteq 0 .. 2
  BY <1>1 DEF ValidQps
<1> DEFINE low == IF ValidQps(runs) = {} THEN 0 ELSE Min(ValidQps(runs))
           high == IF ValidQps(runs) = {} THEN 0 ELSE Max(ValidQps(runs))
<1>3. low \in 0 .. 2 /\ high \in 0 .. 2
  BY <1>2, ExtremaIn
<1>4. Aggregated(p, runs) = [p EXCEPT !.repetitions = runs, !.low = low, !.high = high]
  BY DEF Aggregated
<1> HIDE DEF low, high
<1> DEFINE EntrySeqs == Seq(Repetition)
<1>5. runs \in EntrySeqs /\ Point = [status : Verdict, repetitions : EntrySeqs, low : 0 .. 2,
                                    high : 0 .. 2]
  BY DEF Point
<1> HIDE DEF EntrySeqs
<1> QED BY <1>3, <1>4, <1>5

-----------------------------------------------------------------------------
(* One lemma for each action.                                              *)

LEMMA InitInv == Init => Inv
<1> SUFFICES ASSUME Init PROVE Inv
  OBVIOUS
<1>1. args.counts \in Counts
  BY DEF Init
<1>2. PICK n \in 1 .. MaxPoints : args.counts \in [1 .. n -> 0 .. MaxItems]
  BY <1>1 DEF Counts
<1>3. args.counts \in Seq(0 .. MaxItems) /\ Points = n
  BY <1>2, SweepAssumption DEF Points
<1>4. Types
  <2>1. MaxPoints \in Nat \ {0}
    BY SweepAssumption
  <2>2. Points \in Nat \ {0} /\ \A i \in 1 .. Points : args.counts[i] \in 0 .. MaxItems
    BY <1>2, <1>3, <2>1
  <2> QED BY <2>2, BlankSound DEF Init, Types, Active
<1>5. Sound(manifest) /\ LastPoint /\ OnDisk
  BY <1>3, BlankSound, SweepAssumption
     DEF Init, LastPoint, OnDisk, Stage, Active, Current, PartOfManifest
<1> QED BY <1>4, <1>5 DEF Inv

\* The file is as good as before when the sweep changes its manifest only.
LEMMA DiskKept ==
  ASSUME Inv, UNCHANGED <<input, files>>,
         pc' \in Active => PartOfManifest(disk, manifest')
  PROVE  OnDisk'
BY DEF Inv, OnDisk, Sound, PartOfManifest, Points, input, files

LEMMA TypesKept ==
  ASSUME Types, UNCHANGED <<input, files>>, manifest' \in Manifest, sweep' \in Nat,
         pc' \in Active \cup {"idle", "over", "refused"},
         then' \in {"next", "closed", "over"}
  PROVE  Types'
BY DEF Types, Points, input, files

\* A sweep that starts finds no report in its directory, or it is refused.
LEMMA StartInv == ASSUME Inv, Start PROVE Inv'
<1>. sweep' \in Nat
  BY DEF Start, Inv, Types
<1>1. CASE Accepted
  <2>1. /\ manifest' = [Blank EXCEPT !.sweep = sweep'] /\ pc' = "replace" /\ then' = "next"
        /\ sweep' \in Nat /\ UNCHANGED <<input, files>>
    BY <1>1 DEF Start, Save
  <2>2. /\ manifest' \in Manifest /\ manifest'.points = <<>> /\ Len(manifest'.points) = 0
        /\ manifest'.status = "running"
    BY <2>1, BlankSound DEF Blank, Manifest
  <2>3. disk.points = <<>>
    BY <1>1 DEF Inv, OnDisk, Accepted, Occupied
  <2>4. Types'
    BY <2>1, <2>2, TypesKept DEF Inv, Active
  <2>5. OnDisk'
    BY <2>1, <2>3, DiskKept DEF PartOfManifest
  <2>6. Sound(manifest)' /\ LastPoint'
    BY <2>1, <2>2, <2>4 DEF Types, Sound, LastPoint, Stage, Current
  <2> QED BY <2>4, <2>5, <2>6 DEF Inv
<1>2. CASE ~Accepted
  <2>1. pc' = "refused" /\ pc \in {"idle", "over"} /\ UNCHANGED <<then, manifest, input, files>>
    BY <1>2 DEF Start
  <2>2. Types'
    BY <2>1, TypesKept DEF Inv, Types
  <2>3. OnDisk'
    BY <2>1, DiskKept DEF Active
  <2>4. Sound(manifest)' /\ LastPoint'
    BY <2>1 DEF Inv, Sound, LastPoint, Stage, Current, Runs, Points, input
  <2> QED BY <2>2, <2>3, <2>4 DEF Inv
<1> QED BY <1>1, <1>2

\* The reports are written, or the process ends: the manifest is what it was, or lost.
LEMMA QuietInv ==
  ASSUME Inv, UNCHANGED <<input, manifest, disk, sweep>>, used => used', used' \in BOOLEAN,
         pc' \in Active => pc \in Active,
         then' = then,
         pc' \in Active \cup {"idle", "over", "refused"},
         \/ Stage' = Stage /\ pc # "running" /\ pc' # "running"
         \/ pc = "refused" /\ pc' = "idle"
  PROVE  Inv'
<1>1. Types'
  BY DEF Inv, Types, Points, input
<1>2. OnDisk'
  BY DEF Inv, OnDisk, Sound, PartOfManifest, Points, input
<1>3. Sound(manifest)'
  BY DEF Inv, Sound, Points, input
<1>4. LastPoint'
  BY DEF Inv, LastPoint, Stage, Current, Runs, Points, input
<1> QED BY <1>1, <1>2, <1>3, <1>4 DEF Inv

LEMMA CrashInv == ASSUME Inv, Crash PROVE Inv'
<1>1. /\ pc' = "idle" /\ then' = "next" /\ manifest' = Blank
      /\ UNCHANGED <<input, files>>
  BY DEF Crash
<1>2. Types'
  BY <1>1, TypesKept, BlankSound DEF Inv, Types, Crash
<1>3. OnDisk'
  BY <1>1, DiskKept DEF Active
<1>4. Sound(manifest)' /\ LastPoint'
  BY <1>1, <1>2, BlankSound DEF Types, Sound, LastPoint, Stage, Current
<1> QED BY <1>2, <1>3, <1>4 DEF Inv

LEMMA ReportInv == ASSUME Inv, Report \/ Exit \/ Done \/ UNCHANGED vars PROVE Inv'
<1>1. CASE WriteTemporary
  BY <1>1, QuietInv DEF WriteTemporary, Active, Stage
<1>2. CASE Replace
  <2>1. /\ pc = "replace" /\ pc' = "truncate" /\ used /\ used' = used
        /\ disk' = manifest /\ UNCHANGED <<input, then, manifest, sweep>>
    BY <1>2 DEF Replace
  <2>2. Types' /\ Sound(manifest)' /\ LastPoint'
    BY <2>1 DEF Inv, Types, Sound, LastPoint, Stage, Current, Runs, Active, Points, input
  <2>3. \A i \in 1 .. Len(manifest.points) : Ended(manifest.points[i])
    BY <2>1, PointsOf DEF Inv, Types, Sound, LastPoint, Complete, Current
  <2>4. PartOfManifest(manifest, manifest)
    BY PointsOf DEF Inv, Types, PartOfManifest
  <2>5. OnDisk'
    BY <2>1, <2>2, <2>3, <2>4 DEF OnDisk, PartOfManifest, Sound
  <2> QED BY <2>2, <2>5 DEF Inv
<1>3. CASE Truncate
  BY <1>3, QuietInv DEF Truncate, Active, Stage, Inv, Types
<1>4. CASE WriteRows
  BY <1>4, QuietInv DEF WriteRows, Active, Stage, Inv, Types
<1>5. CASE Exit
  BY <1>5, QuietInv DEF Exit, Active, Inv, Types, files
<1>6. CASE Done \/ UNCHANGED vars
  <2>1. UNCHANGED <<input, files, pc, then, manifest, sweep>>
    BY <1>6 DEF Done, vars
  <2>2. Types' /\ Sound(manifest)' /\ LastPoint'
    BY <2>1 DEF Inv, Types, Sound, LastPoint, Stage, Current, Runs, Points, input, files
  <2>3. OnDisk'
    BY <2>1, DiskKept DEF Inv, OnDisk
  <2> QED BY <2>2, <2>3 DEF Inv
<1> QED BY <1>1, <1>2, <1>3, <1>4, <1>5, <1>6 DEF Report

\* What a file reports stays part of a manifest that grows, and in which only
\* repetitions that were running change.
LEMMA Grows ==
  ASSUME NEW d \in Manifest, NEW m \in Manifest, NEW n \in Manifest,
         PartOfManifest(d, m), n.sweep = m.sweep, Len(m.points) <= Len(n.points),
         \A i \in 1 .. Len(d.points) : Ended(d.points[i]),
         \A i \in 1 .. Len(m.points) :
           /\ Len(m.points[i].repetitions) <= Len(n.points[i].repetitions)
           /\ \A r \in 1 .. Len(m.points[i].repetitions) :
                \/ n.points[i].repetitions[r] = m.points[i].repetitions[r]
                \/ m.points[i].repetitions[r].status = "running"
  PROVE  PartOfManifest(d, n)
<1> SUFFICES ASSUME d.points # <<>> PROVE PartOfManifest(d, n)
  BY DEF PartOfManifest
<1>1. Len(d.points) \in Nat /\ Len(m.points) \in Nat /\ Len(n.points) \in Nat
  BY PointsOf
<1>2. n.sweep = d.sweep /\ Len(d.points) <= Len(n.points)
  BY <1>1 DEF PartOfManifest
<1>3. ASSUME NEW i \in 1 .. Len(d.points)
      PROVE  /\ Len(d.points[i].repetitions) <= Len(n.points[i].repetitions)
             /\ \A r \in 1 .. Len(d.points[i].repetitions) :
                  n.points[i].repetitions[r] = d.points[i].repetitions[r]
  <2>1. i \in 1 .. Len(m.points) /\ i \in 1 .. Len(n.points)
    BY <1>1, <1>2 DEF PartOfManifest
  <2>2. /\ Len(d.points[i].repetitions) \in Nat
        /\ Len(m.points[i].repetitions) \in Nat
        /\ Len(n.points[i].repetitions) \in Nat
    BY <2>1, PointsOf
  <2>3. Len(d.points[i].repetitions) <= Len(m.points[i].repetitions)
    BY DEF PartOfManifest
  <2>4. ASSUME NEW r \in 1 .. Len(d.points[i].repetitions)
        PROVE  n.points[i].repetitions[r] = d.points[i].repetitions[r]
    <3>1. m.points[i].repetitions[r] = d.points[i].repetitions[r]
      BY DEF PartOfManifest
    <3>2. d.points[i].repetitions[r].status # "running"
      BY DEF Ended
    <3>3. r \in 1 .. Len(m.points[i].repetitions)
      BY SMTT(20), <2>2, <2>3
    <3> QED BY <2>1, <3>1, <3>2, <3>3
  <2>5. Len(m.points[i].repetitions) <= Len(n.points[i].repetitions)
    BY <2>1
  <2>6. Len(d.points[i].repetitions) <= Len(n.points[i].repetitions)
    <3>1. \A a, b, c \in Nat : a <= b /\ b <= c => a <= c
      OBVIOUS
    <3> QED BY <2>2, <2>3, <2>5, <3>1, Zenon
  <2> QED BY <2>4, <2>6
<1> QED BY <1>2, <1>3 DEF PartOfManifest

LEMMA RunningTypes == Running \in Repetition /\ NewPoint \in Point
<1>1. Running \in Repetition
  BY DEF Running, Repetition, Verdict
<1>2. <<Running>> \in Seq(Repetition)
  BY <1>1
<1> DEFINE EntrySeqs == Seq(Repetition)
<1>3. <<Running>> \in EntrySeqs /\ Point = [status : Verdict, repetitions : EntrySeqs,
                                               low : 0 .. 2, high : 0 .. 2]
  BY <1>2 DEF Point
<1> HIDE DEF EntrySeqs
<1> QED BY <1>1, <1>3 DEF NewPoint, Verdict

LEMMA BeginInv == ASSUME Inv, Begin PROVE Inv' /\ Keeping
<1>. /\ pc = "next" /\ pc' = "running" /\ then' = then /\ sweep' = sweep
     /\ UNCHANGED <<input, files>> /\ Types /\ Stage = "next" /\ manifest.status = "running"
  BY DEF Begin, Inv, Stage, LastPoint
<1>. manifest \in Manifest /\ disk \in Manifest /\ Current \in Nat
     /\ Current = Len(manifest.points)
  BY PointsOf DEF Types, Current
<1>. PartOfManifest(disk, manifest) /\ \A i \in 1 .. Len(disk.points) : Ended(disk.points[i])
  BY DEF Inv, OnDisk, Active
<1>1. ASSUME Current > 0, Len(Runs) < Repetitions,
             manifest' = [manifest EXCEPT !.points[Current].repetitions = Append(@, Running)]
      PROVE  Inv' /\ Keeping
  <2> DEFINE last == manifest.points[Current]
             p == [last EXCEPT !.repetitions = Append(@, Running)]
  <2>1. last \in Point /\ last.repetitions \in Seq(Repetition) /\ Runs = last.repetitions
    BY <1>1, PointsOf DEF Runs
  <2>2. /\ Append(Runs, Running) \in Seq(Repetition)
        /\ Len(Append(Runs, Running)) = Len(Runs) + 1 /\ Len(Runs) \in Nat
        /\ \A r \in 1 .. Len(Runs) : Append(Runs, Running)[r] = Runs[r]
        /\ Append(Runs, Running)[Len(Runs) + 1] = Running
    BY SMTT(20), <2>1, RunningTypes, LenProperties, AppendProperties
  <2>3. p \in Point /\ p.repetitions = Append(Runs, Running)
    <3> DEFINE EntrySeqs == Seq(Repetition)
    <3>1. Point = [status : Verdict, repetitions : EntrySeqs, low : 0 .. 2, high : 0 .. 2]
      BY DEF Point
    <3>2. Append(Runs, Running) \in EntrySeqs
      BY <2>2
    <3> HIDE DEF EntrySeqs
    <3>3. last \in [status : Verdict, repetitions : EntrySeqs, low : 0 .. 2, high : 0 .. 2]
      BY <2>1, <3>1
    <3> QED BY <2>1, <3>1, <3>2, <3>3
  <2>4. /\ manifest' = [manifest EXCEPT !.points[Len(manifest.points)] = p]
        /\ Len(manifest.points) > 0
    BY <1>1
  <2> HIDE DEF p
  <2>5. /\ manifest' \in Manifest /\ Len(manifest'.points) = Len(manifest.points)
        /\ \A i \in 1 .. Len(manifest.points) :
             manifest'.points[i] = IF i = Len(manifest.points) THEN p ELSE manifest.points[i]
        /\ manifest'.status = manifest.status /\ manifest'.sweep = manifest.sweep
    BY <2>3, <2>4, ReplaceLast
  <2>6. Runs' = Append(Runs, Running) /\ Current' = Current
    BY <1>1, <2>3, <2>5 DEF Runs, Current
  <2>7. Ended(last)
    BY <1>1 DEF Inv, LastPoint
  <2>8. Types'
    BY <2>5, TypesKept DEF Types, Active
  <2>9. Sound(manifest)'
    BY <2>5 DEF Inv, Sound
  <2>10. LastPoint'
    <3>1. \A r \in 1 .. Len(Runs)' : Runs'[r].status = "running" <=> r = Len(Runs')
      <4>1. \A r \in 1 .. Len(Runs) : Runs[r].status # "running"
        BY <2>1, <2>7 DEF Ended
      <4>2. Len(Runs') = Len(Runs) + 1
        BY <2>2, <2>6
      <4>3. Runs'[Len(Runs')].status = "running"
        BY <2>2, <2>6, <4>2 DEF Running
      <4> QED BY <2>2, <2>6, <4>1, <4>2, <4>3
    <3>2. Runs' # <<>>
      BY <2>2, <2>6
    <3>3. Current' > 0 /\ Current' <= Points' /\ Stage' = "running"
      BY <1>1, <2>6 DEF Inv, LastPoint, Stage, Points, input
    <3> QED BY <2>5, <3>1, <3>2, <3>3 DEF LastPoint
  <2>11. PartOfManifest(disk, manifest') /\ Keeping
    <3>1. \A i \in 1 .. Len(manifest.points) :
            /\ Len(manifest.points[i].repetitions) <= Len(manifest'.points[i].repetitions)
            /\ \A r \in 1 .. Len(manifest.points[i].repetitions) :
                 manifest'.points[i].repetitions[r] = manifest.points[i].repetitions[r]
      <4> SUFFICES ASSUME NEW i \in 1 .. Len(manifest.points)
                   PROVE  /\ Len(manifest.points[i].repetitions) <= Len(manifest'.points[i].repetitions)
                          /\ \A r \in 1 .. Len(manifest.points[i].repetitions) :
                               manifest'.points[i].repetitions[r] = manifest.points[i].repetitions[r]
        OBVIOUS
      <4>1. CASE i = Len(manifest.points)
        <5>1. manifest.points[i].repetitions = Runs
          BY <2>1, <4>1 DEF Current
        <5>2. manifest'.points[i].repetitions = Append(Runs, Running)
          BY <2>3, <2>5, <4>1
        <5> QED BY <2>2, <5>1, <5>2
      <4>2. CASE i # Len(manifest.points)
        <5>1. manifest'.points[i] = manifest.points[i]
          BY <2>5, <4>2
        <5>2. Len(manifest.points[i].repetitions) \in Nat
          BY PointsOf
        <5> QED BY <5>1, <5>2
      <4> QED BY <4>1, <4>2
    <3>2. Keeping
      BY <2>2, <2>5, <2>6, <3>1 DEF Keeping
    <3> QED BY <2>5, <3>1, <3>2, Grows
  <2> QED BY <2>8, <2>9, <2>10, <2>11, DiskKept DEF Inv
<1>2. ASSUME Current = 0 \/ Len(Runs) = Repetitions, MorePoints,
             manifest' = [manifest EXCEPT !.points = Append(@, NewPoint)]
      PROVE  Inv' /\ Keeping
  <2>1. /\ manifest'.points = Append(manifest.points, NewPoint)
        /\ manifest'.status = manifest.status /\ manifest'.sweep = manifest.sweep
        /\ manifest' = [manifest EXCEPT !.points = manifest'.points]
    BY <1>2 DEF Manifest
  <2>2. /\ manifest'.points \in Seq(Point) /\ Len(manifest'.points) = Current + 1
        /\ \A i \in 1 .. Current : manifest'.points[i] = manifest.points[i]
        /\ manifest'.points[Current + 1] = NewPoint
    BY <2>1, RunningTypes, PointsOf, AppendProperties
  <2>3. manifest' \in Manifest
    BY <2>1, <2>2 DEF Manifest
  <2>4. Runs' = <<Running>> /\ Current' = Current + 1
    BY <2>2 DEF Runs, Current, NewPoint
  <2>5. Types'
    BY <2>3, TypesKept DEF Types, Active
  <2>6. Sound(manifest)'
    <3>1. Current > 0 => Complete(manifest.points[Current])
      BY <1>2 DEF Inv, LastPoint
    <3>2. \A i \in 1 .. Current : Complete(manifest.points[i])
      BY <3>1 DEF Inv, Sound
    <3> QED BY <2>1, <2>2, <3>2 DEF Sound
  <2>7. LastPoint'
    <3>1. Current' <= Points'
      BY <1>2, <2>4 DEF MorePoints, Types, Points, input
    <3>2. \A r \in 1 .. Len(Runs') : Runs'[r].status = "running" <=> r = Len(Runs')
      BY <2>4 DEF Running
    <3>3. Current' > 0 /\ Stage' = "running" /\ Runs' # <<>>
      BY <2>4 DEF Stage
    <3> QED BY <2>1, <3>1, <3>2, <3>3 DEF LastPoint
  <2>8. PartOfManifest(disk, manifest')
    BY <2>1, <2>2, <2>3, PointsOf, Grows
  <2>9. Keeping
    BY <2>2, <2>4, PointsOf DEF Keeping
  <2> QED BY <2>5, <2>6, <2>7, <2>8, <2>9, DiskKept DEF Inv
<1> QED BY <1>1, <1>2 DEF Begin

\* The repetition that runs is over: its point is what the shards made of it.
LEMMA FinishedInv ==
  ASSUME Inv, pc = "running", NEW entry \in Repetition, entry.status # "running",
         Finished(entry), UNCHANGED <<input, files, sweep>>
  PROVE  Inv' /\ Keeping
<1> DEFINE last == manifest.points[Current]
           runs == [Runs EXCEPT ![Len(Runs)] = entry]
           p == Aggregated(last, runs)
<1>. manifest \in Manifest /\ disk \in Manifest /\ Current = Len(manifest.points)
  BY DEF Inv, Types, Current
<1>1. /\ manifest' = [manifest EXCEPT !.points[Len(manifest.points)] = p]
      /\ pc' = "replace"
      /\ then' = IF Len(Runs) = Repetitions THEN "closed" ELSE "next"
  BY DEF Finished, Save
<1>2. /\ Len(manifest.points) > 0 /\ Current \in 1 .. Len(manifest.points)
      /\ Runs # <<>> /\ manifest.status = "running"
      /\ \A r \in 1 .. Len(Runs) : Runs[r].status = "running" <=> r = Len(Runs)
  BY PointsOf DEF Inv, LastPoint, Stage
<1>3. last \in Point /\ Runs \in Seq(Repetition) /\ Runs = last.repetitions
  BY <1>2, PointsOf DEF Runs
<1>4. Len(Runs) \in 1 .. Len(Runs)
  BY <1>2, <1>3, EmptySeq, LenProperties
<1>5. /\ runs \in Seq(Repetition) /\ Len(runs) = Len(Runs)
      /\ \A r \in 1 .. Len(Runs) : runs[r] = IF r = Len(Runs) THEN entry ELSE Runs[r]
  BY <1>3, <1>4, ExceptSeq
<1> HIDE DEF runs
<1>6. p \in Point /\ p.repetitions = runs
  BY <1>3, <1>5, AggregatedType
<1> HIDE DEF p
<1>7. /\ manifest' \in Manifest /\ Len(manifest'.points) = Len(manifest.points)
      /\ \A i \in 1 .. Len(manifest.points) :
           manifest'.points[i] = IF i = Len(manifest.points) THEN p ELSE manifest.points[i]
      /\ manifest'.status = manifest.status /\ manifest'.sweep = manifest.sweep
  BY <1>1, <1>2, <1>6, ReplaceLast
<1>8. Runs' = runs /\ Current' = Current /\ Ended(manifest'.points[Current])
  BY <1>2, <1>5, <1>6, <1>7 DEF Runs, Current, Ended
<1>9. Types'
  BY <1>1, <1>7, TypesKept DEF Inv, Types, Active
<1>10. Sound(manifest)'
  BY <1>2, <1>7 DEF Inv, Sound
<1>11. LastPoint'
  <2>1. Stage' = then' /\ then' \in {"closed", "next"}
    BY <1>1 DEF Stage
  <2>2. then' = "closed" <=> Len(Runs') = Repetitions
    BY <1>1, <1>5, <1>8
  <2>3. Current' > 0 /\ Current' <= Points'
    BY <1>2, <1>8 DEF Inv, LastPoint, Points, input
  <2> QED BY <1>1, <1>2, <1>7, <1>8, <2>1, <2>2, <2>3 DEF LastPoint
<1>12. PartOfManifest(disk, manifest')
  <2>1. \A i \in 1 .. Len(manifest.points) :
          /\ Len(manifest.points[i].repetitions) <= Len(manifest'.points[i].repetitions)
          /\ \A r \in 1 .. Len(manifest.points[i].repetitions) :
               \/ manifest'.points[i].repetitions[r] = manifest.points[i].repetitions[r]
               \/ manifest.points[i].repetitions[r].status = "running"
    BY <1>2, <1>3, <1>5, <1>6, <1>7, PointsOf
  <2>2. PartOfManifest(disk, manifest) /\ \A i \in 1 .. Len(disk.points) : Ended(disk.points[i])
    BY DEF Inv, OnDisk, Active
  <2> QED BY <1>7, <2>1, <2>2, Grows
<1>13. Keeping
  <2>1. \A i \in 1 .. Current :
          Len(manifest'.points[i].repetitions) = Len(manifest.points[i].repetitions)
    BY <1>3, <1>5, <1>6, <1>7
  <2> QED BY <1>1, <1>7, <2>1, PointsOf DEF Keeping
<1> QED BY <1>9, <1>10, <1>11, <1>12, <1>13, DiskKept DEF Inv

LEMMA FinishInv == ASSUME Inv, Finish PROVE Inv' /\ Keeping
<1>1. PICK first \in SUBSET User, search \in Search, qps \in 1 .. 2 :
        Finished(EvaluateRepeat(Ingested(first, args.counts[Current]), search, qps))
  BY DEF Finish
<1>2. args.counts[Current] \in 0 .. MaxItems
  BY PointsOf DEF Finish, Inv, Types, LastPoint, Stage, Current
<1>3. Ingested(first, args.counts[Current]).items \in Nat
  BY <1>2, SweepAssumption, IngestedItems, FS_CardinalityType
<1>4. /\ EvaluateRepeat(Ingested(first, args.counts[Current]), search, qps) \in Repetition
      /\ EvaluateRepeat(Ingested(first, args.counts[Current]), search, qps).status # "running"
  BY <1>3 DEF EvaluateRepeat, Repetition, Verdict
<1> QED BY <1>1, <1>4, FinishedInv DEF Finish

LEMMA FailInv == ASSUME Inv, Fail PROVE Inv' /\ Keeping
<1>1. [Running EXCEPT !.status = "failed"] \in Repetition
  BY DEF Running, Repetition, Verdict
<1>2. [Running EXCEPT !.status = "failed"].status = "failed"
  BY DEF Running
<1> QED BY <1>1, <1>2, FinishedInv DEF Fail

LEMMA ClosePointInv == ASSUME Inv, ClosePoint PROVE Inv' /\ Keeping
<1> DEFINE last == manifest.points[Current]
           p == [last EXCEPT !.status = Combined(Statuses(Runs))]
<1>. manifest \in Manifest /\ disk \in Manifest /\ Current = Len(manifest.points)
  BY DEF Inv, Types, Current
<1>1. /\ manifest' = [manifest EXCEPT !.points[Len(manifest.points)] = p]
      /\ pc = "closed" /\ pc' = "replace" /\ then' = "next"
      /\ UNCHANGED <<input, files, sweep>>
  BY DEF ClosePoint, Save
<1>2. /\ Len(manifest.points) > 0 /\ Current \in 1 .. Len(manifest.points)
      /\ manifest.status = "running" /\ Len(Runs) = Repetitions /\ Ended(last)
  BY <1>1, PointsOf DEF Inv, LastPoint, Stage
<1>3. last \in Point /\ Runs = last.repetitions
  BY <1>2, PointsOf DEF Runs
<1>4. /\ p \in Point /\ p.repetitions = last.repetitions
      /\ p.status = Combined(Statuses(last.repetitions))
  BY <1>3, CombinedVerdict DEF Point
<1> HIDE DEF p
<1>5. Complete(p) /\ Ended(p)
  BY <1>2, <1>3, <1>4 DEF Complete, Ended
<1>6. /\ manifest' \in Manifest /\ Len(manifest'.points) = Len(manifest.points)
      /\ \A i \in 1 .. Len(manifest.points) :
           manifest'.points[i] = IF i = Len(manifest.points) THEN p ELSE manifest.points[i]
      /\ manifest'.status = manifest.status /\ manifest'.sweep = manifest.sweep
  BY <1>1, <1>2, <1>4, ReplaceLast
<1>7. manifest'.points[Current] = p /\ Current' = Current
  BY <1>2, <1>6 DEF Current
<1>8. Types'
  BY <1>1, <1>6, TypesKept DEF Inv, Types, Active
<1>9. Sound(manifest)'
  BY <1>2, <1>6 DEF Inv, Sound
<1>10. LastPoint'
  <2>1. Stage' = "next" /\ Current' <= Points'
    BY <1>1, <1>7 DEF Stage, Inv, LastPoint, Points, input
  <2> QED BY <1>1, <1>2, <1>5, <1>6, <1>7, <2>1 DEF LastPoint
<1>11. PartOfManifest(disk, manifest') /\ Keeping
  <2>1. \A i \in 1 .. Len(manifest.points) :
          manifest'.points[i].repetitions = manifest.points[i].repetitions
    BY <1>2, <1>4, <1>6
  <2>2. PartOfManifest(disk, manifest) /\ \A i \in 1 .. Len(disk.points) : Ended(disk.points[i])
    BY <1>1 DEF Inv, OnDisk, Active
  <2>3. Keeping
    BY <1>1, <1>6, <2>1, PointsOf DEF Keeping
  <2> QED BY <1>6, <2>1, <2>2, <2>3, PointsOf, Grows
<1> QED BY <1>1, <1>8, <1>9, <1>10, <1>11, DiskKept DEF Inv

LEMMA CloseInv == ASSUME Inv, Close PROVE Inv' /\ Keeping
<1>. manifest \in Manifest /\ disk \in Manifest /\ Current = Len(manifest.points)
  BY DEF Inv, Types, Current
<1>1. /\ manifest' = [manifest EXCEPT !.status = Combined(Statuses(manifest.points))]
      /\ pc = "next" /\ pc' = "replace" /\ then' = "over" /\ Current = Points
      /\ Len(Runs) = Repetitions /\ UNCHANGED <<input, files, sweep>>
  BY DEF Close, Save
<1>2. /\ manifest' \in Manifest /\ manifest'.points = manifest.points
      /\ manifest'.sweep = manifest.sweep
      /\ manifest'.status = Combined(Statuses(manifest.points))
  BY <1>1, CombinedVerdict DEF Manifest
<1>3. Current > 0 /\ Complete(manifest.points[Current])
  BY <1>1 DEF Inv, Types, LastPoint, Stage
<1>4. Types'
  BY <1>1, <1>2, TypesKept DEF Inv, Types, Active
<1>5. Points' = Points /\ Current' = Current
  BY <1>1, <1>2 DEF Points, input, Current
<1>6. Sound(manifest)'
  <2>1. Points \in Nat /\ Len(manifest'.points) = Points' /\ Len(manifest.points) = Points
    BY <1>1, <1>2, <1>5 DEF Inv, Types
  <2>2. ASSUME NEW i \in 1 .. Points PROVE Complete(manifest.points[i])
    <3>1. CASE i = Points
      BY <1>1, <1>3, <3>1
    <3>2. CASE i # Points
      BY <2>1, <3>2 DEF Inv, Sound
    <3> QED BY <3>1, <3>2
  <2> QED BY <1>2, <1>5, <2>1, <2>2 DEF Sound
<1>7. LastPoint'
  <2>1. Stage' = "over" /\ pc' = "replace"
    BY <1>1 DEF Stage
  <2>2. Ended(manifest'.points[Current'])
    BY <1>2, <1>3, <1>5 DEF Complete
  <2>3. Current' <= Points'
    BY <1>1, <1>5 DEF Inv, Types
  <2> QED BY <2>1, <2>2, <2>3 DEF LastPoint
<1>8. PartOfManifest(disk, manifest')
  BY <1>1, <1>2 DEF Inv, OnDisk, Active, PartOfManifest
<1>9. Keeping
  <2>1. pc' # "running" /\ Len(manifest.points) \in Nat
    BY <1>1, PointsOf
  <2>2. \A i \in 1 .. Current : Len(manifest.points[i].repetitions) \in Nat
    BY PointsOf
  <2> QED BY <1>2, <2>1, <2>2 DEF Keeping
<1> QED BY <1>1, <1>4, <1>6, <1>7, <1>8, <1>9, DiskKept DEF Inv

LEMMA NextInv == Inv /\ [Next]_vars => Inv'
BY StartInv, BeginInv, FinishInv, FailInv, ClosePointInv, CloseInv, ReportInv, CrashInv
   DEF Next, Work

LEMMA InvAlways == Spec => []Inv
BY InitInv, NextInv, PTL DEF Spec

-----------------------------------------------------------------------------

\* The verdicts of complete points say what their repetitions came to.
LEMMA InvHonest == Inv => ManifestHonest
<1> SUFFICES ASSUME Inv PROVE ManifestHonest
  OBVIOUS
<1>1. disk \in Manifest /\ Sound(disk) /\ \A i \in 1 .. Len(disk.points) : Ended(disk.points[i])
  BY DEF Inv, Types, OnDisk
<1>2. "running" \notin AllOf(disk)
  BY <1>1, PointsOf DEF AllOf, Statuses, Ended
<1>3. \A i \in 1 .. Len(disk.points) - 1 : Len(disk.points[i].repetitions) = Repetitions
  BY <1>1 DEF Sound, Complete
<1>4. ASSUME disk.status # "running"
      PROVE  /\ Len(disk.points) = Points
             /\ \A i \in 1 .. Points : Len(disk.points[i].repetitions) = Repetitions
             /\ disk.status = "ok" <=> AllOf(disk) = {"ok"}
             /\ disk.status = "failed" <=> "failed" \in AllOf(disk)
  <2>1. /\ Len(disk.points) = Points /\ DOMAIN disk.points = 1 .. Points
        /\ \A i \in 1 .. Points : Complete(disk.points[i])
        /\ disk.status = Combined(Statuses(disk.points))
    BY <1>1, <1>4, PointsOf DEF Sound
  <2>2. ASSUME NEW i \in 1 .. Points
        PROVE  /\ disk.points[i].status = Combined(Statuses(disk.points[i].repetitions))
               /\ Statuses(disk.points[i].repetitions) \subseteq {"ok", "invalid", "failed"}
               /\ Statuses(disk.points[i].repetitions) # {}
    <3>1. /\ disk.points[i].repetitions \in Seq(Repetition)
          /\ DOMAIN disk.points[i].repetitions = 1 .. Repetitions
          /\ Len(disk.points[i].repetitions) = Repetitions
      BY <1>1, <2>1, PointsOf DEF Complete
    <3>2. \A r \in 1 .. Repetitions :
            disk.points[i].repetitions[r].status \in Verdict \ {"running"}
      <4>1. \A r \in 1 .. Repetitions : disk.points[i].repetitions[r] \in Repetition
        BY <3>1, ElementOfSeq
      <4> QED BY <2>1, <3>1, <4>1 DEF Repetition, Complete, Ended
    <3>3. 1 \in 1 .. Repetitions
      BY SweepAssumption
    <3>4. disk.points[i].status = Combined(Statuses(disk.points[i].repetitions))
      BY <2>1 DEF Complete
    <3> QED BY <3>1, <3>2, <3>3, <3>4 DEF Statuses, Verdict
  <2>3. 1 \in 1 .. Points
    BY DEF Inv, Types
  <2>4. AllOf(disk) = UNION {Statuses(disk.points[i].repetitions) : i \in 1 .. Points}
    BY <2>1 DEF AllOf
  <2>5. Statuses(disk.points) = {disk.points[i].status : i \in 1 .. Points}
    BY <2>1 DEF Statuses
  <2>6. "failed" \in AllOf(disk) <=> "failed" \in Statuses(disk.points)
    BY <2>2, <2>4, <2>5 DEF Combined
  <2>7. AllOf(disk) = {"ok"} <=> Statuses(disk.points) = {"ok"}
    <3>1. \A i \in 1 .. Points :
            disk.points[i].status = "ok" <=> Statuses(disk.points[i].repetitions) = {"ok"}
      BY <2>2 DEF Combined
    <3>2. Statuses(disk.points) = {"ok"} <=> \A i \in 1 .. Points : disk.points[i].status = "ok"
      BY <2>3, <2>5
    <3>3. AllOf(disk) = {"ok"} <=>
            \A i \in 1 .. Points : Statuses(disk.points[i].repetitions) = {"ok"}
      <4> DEFINE S(i) == Statuses(disk.points[i].repetitions)
      <4>1. AllOf(disk) = UNION {S(i) : i \in 1 .. Points}
        BY <2>4
      <4>2. \A i \in 1 .. Points : S(i) # {}
        BY <2>2
      <4> HIDE DEF S
      <4>3. ASSUME AllOf(disk) = {"ok"}, NEW i \in 1 .. Points PROVE S(i) = {"ok"}
        <5>1. \A x \in S(i) : x \in AllOf(disk)
          BY <4>1
        <5> QED BY <4>2, <4>3, <5>1
      <4>4. ASSUME \A i \in 1 .. Points : S(i) = {"ok"} PROVE AllOf(disk) = {"ok"}
        <5>1. \A x : x \in AllOf(disk) <=> \E i \in 1 .. Points : x \in S(i)
          BY <4>1
        <5> QED BY <2>3, <4>4, <5>1
      <4> QED BY <4>3, <4>4 DEF S
    <3> QED BY <3>1, <3>2, <3>3
  <2>8. Statuses(disk.points) \subseteq {"ok", "invalid", "failed"} /\ Statuses(disk.points) # {}
    BY <2>2, <2>3, <2>5 DEF Combined
  <2> QED BY <2>1, <2>6, <2>7, <2>8 DEF Complete, Combined
<1> QED BY <1>2, <1>3, <1>4 DEF ManifestHonest

LEMMA StepKeeps ==
  ASSUME Inv, [Next]_vars, disk.points # <<>>
  PROVE  /\ disk'.sweep = disk.sweep
         /\ Len(disk.points) <= Len(disk'.points)
         /\ \A i \in DOMAIN disk.points : \A r \in DOMAIN disk.points[i].repetitions :
              /\ r \in DOMAIN disk'.points[i].repetitions
              /\ disk'.points[i].repetitions[r] = disk.points[i].repetitions[r]
<1>1. disk \in Manifest /\ manifest \in Manifest
  BY DEF Inv, Types
<1>2. CASE disk' = disk
  BY <1>1, <1>2, PointsOf
<1>3. CASE Replace
  <2>1. disk' = manifest /\ PartOfManifest(disk, manifest)
    BY <1>3 DEF Replace, Inv, OnDisk, Active
  <2>2. /\ manifest.sweep = disk.sweep /\ Len(disk.points) <= Len(manifest.points)
        /\ \A i \in 1 .. Len(disk.points) :
             /\ Len(disk.points[i].repetitions) <= Len(manifest.points[i].repetitions)
             /\ \A r \in 1 .. Len(disk.points[i].repetitions) :
                  manifest.points[i].repetitions[r] = disk.points[i].repetitions[r]
    BY <2>1 DEF PartOfManifest
  <2>3. ASSUME NEW i \in DOMAIN disk.points, NEW r \in DOMAIN disk.points[i].repetitions
        PROVE  /\ r \in DOMAIN manifest.points[i].repetitions
               /\ manifest.points[i].repetitions[r] = disk.points[i].repetitions[r]
    <3>1. i \in 1 .. Len(disk.points) /\ i \in 1 .. Len(manifest.points)
      BY <1>1, <2>2, PointsOf
    <3>2. r \in 1 .. Len(disk.points[i].repetitions)
      BY <1>1, <3>1, PointsOf
    <3>3. /\ DOMAIN manifest.points[i].repetitions = 1 .. Len(manifest.points[i].repetitions)
          /\ Len(manifest.points[i].repetitions) \in Nat
          /\ Len(disk.points[i].repetitions) \in Nat
      BY <1>1, <3>1, PointsOf
    <3>4. Len(disk.points[i].repetitions) <= Len(manifest.points[i].repetitions)
      BY <2>2, <3>1
    <3> QED BY <2>2, <3>1, <3>2, <3>3, <3>4
  <2> QED BY <2>1, <2>2, <2>3
<1>4. disk' = disk \/ Replace
  BY DEF Next, Work, Report, Start, Begin, Finish, Fail, ClosePoint, Close, WriteTemporary,
         Truncate, WriteRows, Crash, Exit, Done, files, vars
<1> QED BY <1>2, <1>3, <1>4

-----------------------------------------------------------------------------
(* The CSV.                                                                *)

\* While the CSV is written, manifest.json is the manifest it is written from.
Rows == CsvBehind /\ (pc \in {"truncate", "rows"} => disk = manifest)

LEMMA RowsInit == Init => Rows
<1> SUFFICES ASSUME Init PROVE Rows
  OBVIOUS
<1>1. csv = <<>> /\ pc = "idle"
  BY DEF Init, NoFile
<1> QED BY <1>1 DEF Rows, CsvBehind

LEMMA RowsNext == Inv /\ Rows /\ [Next]_vars => Rows'
<1> SUFFICES ASSUME Inv, Rows, [Next]_vars PROVE Rows'
  OBVIOUS
<1>1. CASE Replace
  <2>1. pc' = "truncate" /\ csv' = csv /\ disk' = manifest /\ manifest' = manifest
    BY <1>1 DEF Replace
  <2>2. ASSUME NEW i \in DOMAIN csv, NEW r \in DOMAIN csv[i]
        PROVE  /\ i \in DOMAIN disk'.points
               /\ r \in DOMAIN disk'.points[i].repetitions
               /\ disk'.points[i].repetitions[r] = csv[i][r]
    <3>1. /\ i \in DOMAIN disk.points /\ r \in DOMAIN disk.points[i].repetitions
          /\ disk.points[i].repetitions[r] = csv[i][r]
      BY DEF Rows, CsvBehind
    <3>2. disk \in Manifest /\ disk' \in Manifest
      BY <2>1 DEF Inv, Types
    <3>3. i \in 1 .. Len(disk.points) /\ disk.points # <<>>
      BY <3>1, <3>2, PointsOf
    <3>4. i \in 1 .. Len(disk'.points)
      <4>1. Len(disk.points) <= Len(disk'.points)
        BY <3>3, StepKeeps
      <4> QED BY <3>2, <3>3, <4>1, PointsOf
    <3>5. i \in DOMAIN disk'.points
      BY <3>2, <3>4, PointsOf
    <3> QED BY <3>1, <3>3, <3>5, StepKeeps
  <2> QED BY <2>1, <2>2 DEF Rows, CsvBehind
<1>2. CASE Truncate
  <2>1. pc' = "rows" /\ csv' = <<>> /\ disk' = manifest' /\ pc = "truncate"
    BY <1>2 DEF Truncate, NoFile, Rows
  <2> QED BY <2>1 DEF Rows, CsvBehind
<1>3. CASE WriteRows
  <2>1. pc' \in {"next", "closed", "over"} /\ csv' = RowsOf(disk') /\ disk' = disk
    BY <1>3 DEF WriteRows, Rows, Inv, Types
  <2>2. /\ DOMAIN RowsOf(disk) = DOMAIN disk.points
        /\ \A i \in DOMAIN disk.points :
             /\ DOMAIN RowsOf(disk)[i] = DOMAIN disk.points[i].repetitions
             /\ \A r \in DOMAIN disk.points[i].repetitions :
                  RowsOf(disk)[i][r] = disk.points[i].repetitions[r]
    BY DEF RowsOf
  <2> QED BY <2>1, <2>2 DEF Rows, CsvBehind
<1>4. CASE /\ UNCHANGED <<disk, csv>> /\ pc' \notin {"truncate", "rows"}
           /\ pc' \in {"next", "running", "closed", "over"} =>
                pc \in {"next", "running", "closed", "over"}
  BY <1>4 DEF Rows, CsvBehind, RowsOf
<1>5. CASE UNCHANGED vars
  BY <1>5 DEF Rows, CsvBehind, RowsOf, vars, files
<1>6. CASE Done
  BY <1>5, <1>6 DEF Done
<1> QED BY <1>1, <1>2, <1>3, <1>4, <1>5, <1>6
        DEF Next, Work, Report, Start, Begin, Finish, Fail, Finished, Save, ClosePoint, Close,
            WriteTemporary, Crash, Exit, files

LEMMA RowsAlways == Spec => []Rows
BY RowsInit, RowsNext, InvAlways, PTL DEF Spec

-----------------------------------------------------------------------------
(* The namespaces.                                                         *)

\* Repetition r of point i was tried by this sweep, and is not the one that runs.
Tried(i, r) == /\ i \in 1 .. Current /\ r \in 1 .. Len(manifest.points[i].repetitions)
               /\ ~(pc = "running" /\ i = Current /\ r = Len(Runs))

\* What is left on the backend is left by an earlier sweep, or by a repetition of this
\* one that is over.
LeftBehind(l) == \E s \in 0 .. sweep : \E c, r :
                   /\ l = <<s, c, r>>
                   /\ pc \in Active /\ s = sweep => \E i : Tried(i, r) /\ c = args.counts[i]

Apart == /\ args.counts \in Seq(0 .. MaxItems) /\ args.queries \in Nat
         /\ items \in [User -> 0 .. MaxItems]
         /\ pc \in Active => ValidArgs /\ \A i \in 1 .. Points : Fits(args.counts[i])
         /\ \A l \in left : LeftBehind(l)

LEMMA ApartInit == Init => Apart
<1> SUFFICES ASSUME Init PROVE Apart
  OBVIOUS
<1>1. args.counts \in Counts
  BY DEF Init
<1>2. PICK n \in 1 .. MaxPoints : args.counts \in [1 .. n -> 0 .. MaxItems]
  BY <1>1 DEF Counts
<1>3. args.counts \in Seq(0 .. MaxItems)
  BY <1>2, SweepAssumption
<1>4. MaxItems \in Nat /\ args.queries \in Nat
  BY SweepAssumption DEF Init
<1> QED BY <1>3, <1>4 DEF Init, Apart, Active

\* The last memory count is the largest one.
LEMMA AcceptedFits ==
  ASSUME Types, Apart, Accepted
  PROVE  ValidArgs /\ \A i \in 1 .. Points : Fits(args.counts[i])
<1> DEFINE counts == args.counts
           largest == Max(Range(counts))
<1>1. /\ DOMAIN counts = 1 .. Points /\ Points \in Nat \ {0}
      /\ \A i \in 1 .. Points : counts[i] \in Nat
  BY LenProperties DEF Types, Points, Apart
<1>2. \A i, j \in 1 .. Points : i < j => counts[i] < counts[j]
  BY <1>1 DEF Accepted, ValidArgs, Increasing
<1>3. \E x \in Range(counts) : \A y \in Range(counts) : x >= y
  <2>1. counts[Points] \in Range(counts)
    BY <1>1 DEF Range
  <2>2. ASSUME NEW y \in Range(counts) PROVE counts[Points] >= y
    <3>1. PICK i \in 1 .. Points : y = counts[i]
      BY <1>1 DEF Range
    <3>2. CASE i = Points
      BY <1>1, <3>1, <3>2
    <3>3. CASE i < Points
      BY <1>1, <1>2, <3>1, <3>3
    <3> QED BY <1>1, <3>2, <3>3
  <2> QED BY <2>1, <2>2
<1>4. \A y \in Range(counts) : largest >= y
  BY <1>3 DEF Max
<1>5. largest \in Range(counts)
  BY <1>3 DEF Max
<1>6. largest \in Nat
  BY <1>1, <1>5 DEF Range
<1>7. \A i \in 1 .. Points : counts[i] \in Range(counts)
  BY <1>1 DEF Range
<1>8. \A u \in User : items[u] >= largest
  BY DEF Accepted, Fits
<1>9. ASSUME NEW i \in 1 .. Points, NEW u \in User PROVE items[u] >= counts[i]
  <2>1. items[u] >= largest /\ largest >= counts[i]
    BY <1>4, <1>7, <1>8
  <2>2. items[u] \in Nat /\ counts[i] \in Nat
    BY <1>1 DEF Apart
  <2> QED BY <1>6, <2>1, <2>2
<1> QED BY <1>9 DEF Accepted, Fits

\* What the steps below leave alone, and what they may leave on the backend.
LEMMA StaysApart ==
  ASSUME Inv, Apart, UNCHANGED <<input, sweep>>, pc' \in Active => pc \in Active,
         \A i, r : pc' \in Active /\ Tried(i, r) => Tried(i, r)',
         \A l \in left' : \/ l \in left
                          \/ /\ l = Namespace
                             /\ \A i, r : i = Current /\ r = Len(Runs) =>
                                           (pc' \in Active => Tried(i, r)')
  PROVE  Apart'
<1>1. \A l \in left' : LeftBehind(l)'
  <2>1. ASSUME NEW l \in left PROVE LeftBehind(l)'
    BY <2>1 DEF Apart, LeftBehind, input
  <2>2. ASSUME NEW l, l = Namespace, NEW i, NEW r, i = Current, r = Len(Runs),
               pc' \in Active => Tried(i, r)'
        PROVE  LeftBehind(l)'
    <3>1. l = <<sweep', args'.counts[i], r>> /\ sweep' \in 0 .. sweep'
      BY <2>2 DEF Namespace, Inv, Types, input
    <3> QED BY <2>2, <3>1 DEF LeftBehind
  <2> QED BY <2>1, <2>2
<1>2. /\ args' = args /\ items' = items /\ Points' = Points
      /\ ValidArgs' <=> ValidArgs
  BY DEF ValidArgs, Points, input
<1>3. \A i \in 1 .. Points : Fits(args.counts[i]) => Fits(args.counts[i])'
  BY <1>2 DEF Fits
<1> QED BY <1>1, <1>2, <1>3 DEF Apart

\* What was tried stays tried while the manifest keeps its repetitions.
LEMMA KeepsTried ==
  ASSUME Inv, Inv', Keeping, NEW i, NEW r, Tried(i, r),
         pc' # "running" \/ pc # "running"
  PROVE  Tried(i, r)'
<1>1. manifest \in Manifest /\ manifest' \in Manifest
  BY DEF Inv, Types
<1>2. /\ i \in 1 .. Len(manifest.points) /\ i \in 1 .. Len(manifest'.points)
      /\ Len(manifest.points) \in Nat /\ Len(manifest'.points) \in Nat
  BY <1>1, PointsOf DEF Tried, Current, Keeping
<1>3. /\ Len(manifest.points[i].repetitions) \in Nat
      /\ Len(manifest'.points[i].repetitions) \in Nat
      /\ Len(manifest.points[i].repetitions) <= Len(manifest'.points[i].repetitions)
  BY <1>1, <1>2, PointsOf DEF Keeping, Current
<1>4. r \in 1 .. Len(manifest.points[i].repetitions)
  BY DEF Tried
<1>5. ~(pc' = "running" /\ i = Current' /\ r = Len(Runs'))
  <2> SUFFICES ASSUME pc' = "running", i = Current', r = Len(Runs') PROVE FALSE
    OBVIOUS
  <2>1. Current' = Current /\ Len(Runs') > Len(Runs)
    BY <1>2 DEF Keeping, Current
  <2>2. Runs = manifest.points[i].repetitions
    BY <1>2, <2>1 DEF Runs, Current
  <2> QED BY <1>3, <1>4, <2>1, <2>2
<1> QED BY <1>2, <1>3, <1>4, <1>5 DEF Tried, Current

LEMMA ApartNext == Inv /\ Inv' /\ Apart /\ [Next]_vars => Apart'
<1> SUFFICES ASSUME Inv, Inv', Apart, [Next]_vars PROVE Apart'
  OBVIOUS
<1>1. CASE Start
  <2>1. left' = left /\ sweep' = sweep + 1 /\ UNCHANGED input /\ sweep \in Nat
    BY <1>1 DEF Start, Inv, Types
  <2>2. pc' \in Active => Accepted
    BY <1>1 DEF Start, Active
  <2>3. \A l \in left' : LeftBehind(l)'
    <3>1. ASSUME NEW l \in left PROVE LeftBehind(l)'
      <4>1. PICK s \in 0 .. sweep : \E c, r : l = <<s, c, r>>
        BY DEF Apart, LeftBehind
      <4>2. s \in 0 .. sweep' /\ s # sweep'
        BY <2>1
      <4> QED BY <4>1, <4>2 DEF LeftBehind
    <3> QED BY <2>1, <3>1
  <2>4. pc' \in Active => ValidArgs /\ \A i \in 1 .. Points : Fits(args.counts[i])
    BY <2>2, AcceptedFits DEF Inv
  <2> QED BY <2>1, <2>3, <2>4 DEF Apart, ValidArgs, Fits, Points, input
<1>2. CASE Begin
  <2>1. /\ pc = "next" /\ left' = left /\ UNCHANGED <<input, sweep>> /\ pc \in Active
        /\ Keeping
    BY <1>2, BeginInv DEF Begin, Active
  <2>2. \A i, r : Tried(i, r) => Tried(i, r)'
    BY <2>1, KeepsTried
  <2> QED BY <2>1, <2>2, StaysApart
<1>3. CASE Finish \/ Fail
  <2>1. /\ pc = "running" /\ pc' = "replace" /\ UNCHANGED <<input, sweep>>
        /\ left' \subseteq left \cup {Namespace} /\ Keeping
    BY <1>3, FinishInv, FailInv DEF Finish, Fail, Finished, Save
  <2>2. \A i, r : Tried(i, r) => Tried(i, r)'
    BY <2>1, KeepsTried
  <2>3. \A i, r : i = Current /\ r = Len(Runs) => Tried(i, r)'
    <3>1. manifest \in Manifest /\ manifest' \in Manifest /\ Current > 0 /\ Runs # <<>>
      BY <2>1 DEF Inv, Types, LastPoint, Stage
    <3>2. Current \in 1 .. Len(manifest.points) /\ Current \in 1 .. Len(manifest'.points)
      BY <2>1, <3>1, PointsOf DEF Current, Keeping
    <3>3. Runs = manifest.points[Current].repetitions /\ Runs \in Seq(Repetition)
      BY <3>1, <3>2, PointsOf DEF Runs
    <3>4. Len(Runs) \in Nat /\ Len(Runs) > 0
      BY <3>1, <3>3, EmptySeq, LenProperties
    <3>5. /\ Len(manifest'.points[Current].repetitions) \in Nat
          /\ Len(Runs) <= Len(manifest'.points[Current].repetitions)
      BY <2>1, <3>1, <3>2, <3>3, PointsOf DEF Keeping
    <3> QED BY <2>1, <3>2, <3>4, <3>5 DEF Tried, Current
  <2> QED BY <2>1, <2>2, <2>3, StaysApart DEF Active
<1>4. CASE ClosePoint \/ Close
  <2>1. /\ pc \in {"closed", "next"} /\ pc' = "replace" /\ left' = left
        /\ UNCHANGED <<input, sweep>> /\ Keeping
    BY <1>4, ClosePointInv, CloseInv DEF ClosePoint, Close, Save
  <2>2. \A i, r : Tried(i, r) => Tried(i, r)'
    BY <2>1, KeepsTried
  <2> QED BY <2>1, <2>2, StaysApart DEF Active
<1>5. CASE Report
  <2>1. /\ pc \in {"replace", "truncate", "rows"} /\ pc' # "running"
        /\ UNCHANGED <<input, sweep, manifest, left>>
    BY <1>5 DEF Report, WriteTemporary, Replace, Truncate, WriteRows, Inv, Types
  <2>2. \A i, r : Tried(i, r) => Tried(i, r)'
    BY <2>1 DEF Tried, Current
  <2> QED BY <2>1, <2>2, StaysApart DEF Active
<1>6. CASE Crash
  <2>1. /\ pc' \notin Active /\ left' \subseteq left \cup {Namespace}
        /\ UNCHANGED <<input, sweep>>
    BY <1>6 DEF Crash, Active
  <2> QED BY <2>1, StaysApart
<1>7. CASE Exit \/ Done \/ UNCHANGED vars
  <2>1. /\ pc' \notin Active \/ UNCHANGED <<pc, manifest>>
        /\ UNCHANGED <<input, sweep>> /\ left' = left
    BY <1>7 DEF Exit, Done, vars, Active
  <2>2. \A i, r : pc' \in Active /\ Tried(i, r) => Tried(i, r)'
    BY <2>1 DEF Tried, Current, Runs
  <2> QED BY <2>1, <2>2, StaysApart
<1> QED BY <1>1, <1>2, <1>3, <1>4, <1>5, <1>6, <1>7 DEF Next, Work

\* Two points have different memory counts, so that a namespace names one repetition.
LEMMA ApartComparable == Inv /\ Apart => Comparable
<1> SUFFICES ASSUME Inv, Apart, pc = "running" PROVE Comparable
  BY DEF Comparable
<1>1. manifest \in Manifest /\ Current > 0 /\ Current <= Points
  BY DEF Inv, Types, LastPoint, Stage
<1>2. Points \in Nat /\ Current \in 1 .. Points /\ DOMAIN args.counts = 1 .. Points
  BY <1>1, PointsOf, LenProperties DEF Current, Inv, Types, Apart, Points
<1>3. \A u \in User : items[u] >= args.counts[Current]
  BY <1>2 DEF Apart, Active, Fits
<1>4. \A i, j \in 1 .. Points : i < j => args.counts[i] < args.counts[j]
  BY <1>2 DEF Apart, Active, ValidArgs, Increasing
<1>5. \A i \in 1 .. Points : args.counts[i] \in Nat
  BY DEF Inv, Types
<1>6. args.queries <= args.counts[Current]
  <2>1. args.queries <= args.counts[1]
    BY DEF Apart, Active, ValidArgs
  <2>2. 1 \in 1 .. Points /\ args.counts[1] <= args.counts[Current]
    BY <1>2, <1>4, <1>5
  <2>3. args.queries \in Nat
    BY DEF Apart
  <2> QED BY <1>2, <1>5, <2>1, <2>2, <2>3
<1>7. Namespace \notin left
  <2> SUFFICES ASSUME Namespace \in left PROVE FALSE
    OBVIOUS
  <2>0. PICK s \in 0 .. sweep : \E c, r :
          /\ Namespace = <<s, c, r>>
          /\ pc \in Active /\ s = sweep => \E i : Tried(i, r) /\ c = args.counts[i]
    BY DEF Apart, LeftBehind
  <2>1. PICK c, r :
          /\ Namespace = <<s, c, r>>
          /\ pc \in Active /\ s = sweep => \E i : Tried(i, r) /\ c = args.counts[i]
    BY <2>0
  <2>2. s = sweep /\ c = args.counts[Current] /\ r = Len(Runs)
    BY <2>1 DEF Namespace
  <2>3. PICK i : Tried(i, Len(Runs)) /\ args.counts[Current] = args.counts[i]
    BY <2>1, <2>2 DEF Active
  <2>4. i \in 1 .. Current /\ i # Current
    BY <2>3 DEF Tried
  <2>5. i \in 1 .. Points /\ i < Current
    BY <1>2, <2>4
  <2> QED BY <1>2, <1>4, <1>5, <2>3, <2>5
<1> QED BY <1>3, <1>6, <1>7 DEF Comparable

LEMMA ApartAlways == Spec => []Apart
<1>1. Inv /\ Apart /\ [Next]_vars => Apart'
  BY NextInv, ApartNext
<1> QED BY <1>1, ApartInit, InvAlways, PTL DEF Spec

-----------------------------------------------------------------------------
(* The figures of the reports.                                             *)

\* A repetition has measured nothing, and is not valid, or had its whole corpus.
Outcome(r, corpus) == \/ r.qps = 0 /\ r.status # "ok" /\ r.items = 0
                      \/ r.items = corpus

\* The figures of point p are the bounds of its valid repetitions.
Bounds(p) == LET qps == ValidQps(p.repetitions)
             IN  /\ qps = {} => p.low = 0 /\ p.high = 0
                 /\ qps # {} => /\ p.low \in qps /\ p.high \in qps
                                /\ qps \subseteq p.low .. p.high

Corpus(i) == args.counts[i] * Cardinality(User)
Figured(m) == \A i \in 1 .. Len(m.points) :
                /\ Bounds(m.points[i])
                /\ \A r \in 1 .. Len(m.points[i].repetitions) :
                     Outcome(m.points[i].repetitions[r], Corpus(i))

Figures == Figured(manifest) /\ Figured(disk)

LEMMA AggregatedBounds ==
  ASSUME NEW p \in Point, NEW runs \in Seq(Repetition)
  PROVE  Bounds(Aggregated(p, runs))
<1> DEFINE qps == ValidQps(runs)
           low == IF qps = {} THEN 0 ELSE Min(qps)
           high == IF qps = {} THEN 0 ELSE Max(qps)
<1>1. qps \subseteq 0 .. 2
  <2>1. \A r \in DOMAIN runs : runs[r] \in Repetition
    BY ElementOfSeq, LenProperties
  <2> QED BY <2>1 DEF ValidQps, Repetition
<1>2. /\ qps = {} => low = 0 /\ high = 0
      /\ qps # {} => low \in qps /\ high \in qps /\ qps \subseteq low .. high
  <2> HIDE DEF qps
  <2> QED BY <1>1, ExtremaIn
<1>3. Aggregated(p, runs) = [p EXCEPT !.repetitions = runs, !.low = low, !.high = high]
  BY DEF Aggregated
<1> HIDE DEF low, high
<1>4. /\ Aggregated(p, runs).low = low /\ Aggregated(p, runs).high = high
      /\ Aggregated(p, runs).repetitions = runs
  BY <1>3, AggregatedType DEF Point
<1> QED BY <1>2, <1>4 DEF Bounds

\* A repetition that runs has no figures yet.
LEMMA RunningOutcome ==
  ASSUME NEW runs \in Seq(Repetition)
  PROVE  /\ ValidQps(Append(runs, Running)) = ValidQps(runs)
         /\ \A corpus : Outcome(Running, corpus)
<1>1. /\ DOMAIN runs = 1 .. Len(runs) /\ Len(runs) \in Nat
      /\ DOMAIN Append(runs, Running) = 1 .. Len(runs) + 1
      /\ \A r \in 1 .. Len(runs) : Append(runs, Running)[r] = runs[r]
      /\ Append(runs, Running)[Len(runs) + 1] = Running
  BY RunningTypes, LenProperties, AppendProperties
<1>2. ~Valid(Running) /\ \A corpus : Outcome(Running, corpus)
  BY DEF Valid, Running, Outcome
<1>3. ASSUME NEW r
      PROVE  r \in DOMAIN Append(runs, Running) /\ Valid(Append(runs, Running)[r])
             <=> r \in DOMAIN runs /\ Valid(runs[r])
  BY <1>1, <1>2
<1>4. {r \in DOMAIN Append(runs, Running) : Valid(Append(runs, Running)[r])}
      = {r \in DOMAIN runs : Valid(runs[r])}
  BY <1>3
<1>5. ValidQps(Append(runs, Running)) = ValidQps(runs)
  BY <1>1, <1>4 DEF ValidQps
<1> QED BY <1>2, <1>5

LEMMA InitFigures == Init => Figures
BY BlankSound DEF Init, Figures, Figured

LEMMA BeginFigures == ASSUME Inv, Figures, Begin PROVE Figures'
<1>. /\ manifest \in Manifest /\ Current \in Nat /\ Current = Len(manifest.points)
     /\ UNCHANGED <<args, disk>>
  BY PointsOf DEF Inv, Types, Current, Begin, input, files
<1>1. ASSUME Current > 0,
             manifest' = [manifest EXCEPT !.points[Current].repetitions = Append(@, Running)]
      PROVE  Figured(manifest)'
  <2> DEFINE last == manifest.points[Current]
             p == [last EXCEPT !.repetitions = Append(@, Running)]
  <2>1. last \in Point /\ last.repetitions \in Seq(Repetition)
    BY <1>1, PointsOf
  <2>2. /\ Append(last.repetitions, Running) \in Seq(Repetition)
        /\ Len(last.repetitions) \in Nat
        /\ Len(Append(last.repetitions, Running)) = Len(last.repetitions) + 1
        /\ \A r \in 1 .. Len(last.repetitions) :
             Append(last.repetitions, Running)[r] = last.repetitions[r]
        /\ Append(last.repetitions, Running)[Len(last.repetitions) + 1] = Running
    BY <2>1, RunningTypes, LenProperties, AppendProperties
  <2>3. /\ p \in Point /\ p.repetitions = Append(last.repetitions, Running)
        /\ p.low = last.low /\ p.high = last.high
    <3> DEFINE Runs_ == Seq(Repetition)
    <3>1. Point = [status : Verdict, repetitions : Runs_, low : 0 .. 2, high : 0 .. 2]
      BY DEF Point
    <3>2. Append(last.repetitions, Running) \in Runs_
      BY <2>2
    <3> HIDE DEF Runs_
    <3>3. last \in [status : Verdict, repetitions : Runs_, low : 0 .. 2, high : 0 .. 2]
      BY <2>1, <3>1
    <3> QED BY <3>1, <3>2, <3>3
  <2>4. /\ manifest' = [manifest EXCEPT !.points[Len(manifest.points)] = p]
        /\ Len(manifest.points) > 0
    BY <1>1
  <2> HIDE DEF p
  <2>5. /\ Len(manifest'.points) = Len(manifest.points)
        /\ \A i \in 1 .. Len(manifest.points) :
             manifest'.points[i] = IF i = Len(manifest.points) THEN p ELSE manifest.points[i]
    BY <2>3, <2>4, ReplaceLast
  <2>6. /\ Bounds(last) /\ \A r \in 1 .. Len(last.repetitions) :
                              Outcome(last.repetitions[r], Corpus(Current))
    BY <1>1 DEF Figures, Figured
  <2>7. Bounds(p)
    BY <2>1, <2>3, <2>6, RunningOutcome DEF Bounds
  <2>8. \A r \in 1 .. Len(p.repetitions) : Outcome(p.repetitions[r], Corpus(Current))
    BY <2>1, <2>2, <2>3, <2>6, RunningOutcome
  <2> QED BY <2>5, <2>7, <2>8 DEF Figures, Figured, Corpus
<1>2. ASSUME manifest' = [manifest EXCEPT !.points = Append(@, NewPoint)]
      PROVE  Figured(manifest)'
  <2>1. manifest'.points = Append(manifest.points, NewPoint)
    BY <1>2 DEF Manifest
  <2>2. /\ Len(manifest'.points) = Current + 1
        /\ \A i \in 1 .. Current : manifest'.points[i] = manifest.points[i]
        /\ manifest'.points[Current + 1] = NewPoint
    BY <2>1, RunningTypes, PointsOf, AppendProperties
  <2>3. Bounds(NewPoint)
    BY DEF Bounds, NewPoint, ValidQps, Valid, Running
  <2>4. \A r \in 1 .. Len(NewPoint.repetitions) :
          Outcome(NewPoint.repetitions[r], Corpus(Current + 1))
    BY DEF NewPoint, Outcome, Running
  <2>5. ASSUME NEW i \in 1 .. Len(manifest'.points)
        PROVE  /\ Bounds(manifest'.points[i])
               /\ \A r \in 1 .. Len(manifest'.points[i].repetitions) :
                    Outcome(manifest'.points[i].repetitions[r], Corpus(i))
    <3>1. CASE i = Current + 1
      BY <2>2, <2>3, <2>4, <3>1
    <3>2. CASE i \in 1 .. Current
      BY <2>2, <3>2 DEF Figures, Figured
    <3> QED BY <2>2, <3>1, <3>2
  <2> QED BY <2>5 DEF Figured, Corpus
<1>3. Figured(disk)'
  BY DEF Figures, Figured, Corpus
<1> QED BY <1>1, <1>2, <1>3 DEF Begin, Figures

\* The figures of a point whose last repetition is over.
LEMMA FinishedFigures ==
  ASSUME Inv, Figures, pc = "running", NEW entry \in Repetition,
         Outcome(entry, Corpus(Current)), Finished(entry), UNCHANGED <<input, files>>
  PROVE  Figures'
<1> DEFINE last == manifest.points[Current]
           runs == [Runs EXCEPT ![Len(Runs)] = entry]
           p == Aggregated(last, runs)
<1>. manifest \in Manifest /\ Current = Len(manifest.points)
  BY DEF Inv, Types, Current
<1>1. manifest' = [manifest EXCEPT !.points[Len(manifest.points)] = p]
  BY DEF Finished
<1>2. Len(manifest.points) > 0 /\ Current \in 1 .. Len(manifest.points) /\ Runs # <<>>
  BY PointsOf DEF Inv, LastPoint, Stage
<1>3. last \in Point /\ Runs \in Seq(Repetition) /\ Runs = last.repetitions
  BY <1>2, PointsOf DEF Runs
<1>4. Len(Runs) \in 1 .. Len(Runs)
  BY <1>2, <1>3, EmptySeq, LenProperties
<1>5. /\ runs \in Seq(Repetition) /\ Len(runs) = Len(Runs)
      /\ \A r \in 1 .. Len(Runs) : runs[r] = IF r = Len(Runs) THEN entry ELSE Runs[r]
  BY <1>3, <1>4, ExceptSeq
<1> HIDE DEF runs
<1>6. p \in Point /\ p.repetitions = runs /\ Bounds(p)
  BY <1>3, <1>5, AggregatedType, AggregatedBounds
<1> HIDE DEF p
<1>7. /\ Len(manifest'.points) = Len(manifest.points)
      /\ \A i \in 1 .. Len(manifest.points) :
           manifest'.points[i] = IF i = Len(manifest.points) THEN p ELSE manifest.points[i]
  BY <1>1, <1>2, <1>6, ReplaceLast
<1>8. \A r \in 1 .. Len(runs) : Outcome(runs[r], Corpus(Current))
  BY <1>2, <1>3, <1>5 DEF Figures, Figured
<1>9. Figured(manifest)'
  BY <1>6, <1>7, <1>8 DEF Figures, Figured, Corpus, input
<1>10. Figured(disk)'
  BY DEF Figures, Figured, Corpus, input, files
<1> QED BY <1>9, <1>10 DEF Figures

LEMMA FinishFigures == ASSUME Inv, Figures, Finish PROVE Figures'
<1>1. PICK first \in SUBSET User, search \in Search, qps \in 1 .. 2 :
        Finished(EvaluateRepeat(Ingested(first, args.counts[Current]), search, qps))
  BY DEF Finish
<1> DEFINE stats == Ingested(first, args.counts[Current])
           entry == EvaluateRepeat(stats, search, qps)
<1>2. args.counts[Current] \in Nat
  BY PointsOf, SweepAssumption DEF Finish, Inv, Types, LastPoint, Stage, Current
<1>3. stats.items = Corpus(Current) /\ Corpus(Current) \in Nat
  BY <1>2, IngestedItems, SweepAssumption, FS_CardinalityType DEF Corpus
<1> HIDE DEF stats
<1>4. entry \in Repetition
  BY <1>3 DEF EvaluateRepeat, Repetition, Verdict
<1>5. Outcome(entry, Corpus(Current))
  BY <1>3 DEF EvaluateRepeat, Outcome, Invalid
<1> QED BY <1>1, <1>4, <1>5, FinishedFigures DEF Finish, stats

LEMMA FailFigures == ASSUME Inv, Figures, Fail PROVE Figures'
<1>1. [Running EXCEPT !.status = "failed"] \in Repetition
  BY DEF Running, Repetition, Verdict
<1>2. Outcome([Running EXCEPT !.status = "failed"], Corpus(Current))
  BY DEF Running, Outcome
<1> QED BY <1>1, <1>2, FinishedFigures DEF Fail

\* A verdict changes no figure.
LEMMA VerdictFigures == ASSUME Inv, Figures, ClosePoint \/ Close PROVE Figures'
<1>. manifest \in Manifest /\ UNCHANGED <<args, disk>>
  BY DEF Inv, Types, ClosePoint, Close, input, files
<1>1. CASE ClosePoint
  <2> DEFINE last == manifest.points[Current]
             p == [last EXCEPT !.status = Combined(Statuses(Runs))]
  <2>1. /\ Len(manifest.points) > 0 /\ Current \in 1 .. Len(manifest.points)
        /\ Current = Len(manifest.points)
    BY <1>1, PointsOf DEF Inv, LastPoint, Stage, ClosePoint, Current
  <2>2. last \in Point
    BY <2>1, PointsOf
  <2>3. /\ p \in Point /\ p.repetitions = last.repetitions /\ p.low = last.low
        /\ p.high = last.high
    BY <2>2, CombinedVerdict DEF Point
  <2>4. manifest' = [manifest EXCEPT !.points[Len(manifest.points)] = p]
    BY <1>1, <2>1 DEF ClosePoint
  <2> HIDE DEF p
  <2>5. /\ Len(manifest'.points) = Len(manifest.points)
        /\ \A i \in 1 .. Len(manifest.points) :
             manifest'.points[i] = IF i = Len(manifest.points) THEN p ELSE manifest.points[i]
    BY <2>1, <2>3, <2>4, ReplaceLast
  <2>6. Bounds(p) /\ \A r \in 1 .. Len(p.repetitions) :
                        Outcome(p.repetitions[r], Corpus(Len(manifest.points)))
    BY <2>1, <2>3 DEF Figures, Figured, Bounds
  <2> QED BY <2>5, <2>6 DEF Figures, Figured, Corpus
<1>2. CASE Close
  <2>1. manifest'.points = manifest.points
    BY <1>2 DEF Close, Manifest
  <2> QED BY <2>1 DEF Figures, Figured, Corpus
<1> QED BY <1>1, <1>2

LEMMA FiguresNext == Inv /\ Figures /\ [Next]_vars => Figures'
<1> SUFFICES ASSUME Inv, Figures, [Next]_vars PROVE Figures'
  OBVIOUS
<1>1. CASE Start
  <2>1. UNCHANGED <<args, disk>> /\ (manifest' = manifest \/ manifest'.points = <<>>)
    BY <1>1, BlankSound DEF Start, input, files, Blank
  <2> QED BY <2>1 DEF Figures, Figured, Corpus
<1>2. CASE Crash
  <2>1. UNCHANGED <<args, disk>> /\ manifest'.points = <<>>
    BY <1>2, BlankSound DEF Crash, input, files, Blank
  <2> QED BY <2>1 DEF Figures, Figured, Corpus
<1>3. CASE Report \/ Exit \/ Done \/ UNCHANGED vars
  <2>1. UNCHANGED <<args, manifest>> /\ disk' \in {disk, manifest}
    BY <1>3 DEF Report, WriteTemporary, Replace, Truncate, WriteRows, Exit, Done, vars, input, files
  <2> QED BY <2>1 DEF Figures, Figured, Corpus
<1> QED BY <1>1, <1>2, <1>3, BeginFigures, FinishFigures, FailFigures, VerdictFigures
        DEF Next, Work

LEMMA FiguresAlways == Spec => []Figures
BY InitFigures, FiguresNext, InvAlways, PTL DEF Spec

LEMMA FiguresTrue == Inv /\ Figures => FiguresHonest
<1> SUFFICES ASSUME Inv, Figures, NEW i \in DOMAIN disk.points
             PROVE  LET point == disk.points[i]
                        valid == {r \in DOMAIN point.repetitions :
                                    point.repetitions[r].status = "ok"}
                    IN  /\ valid = {} => point.low = 0 /\ point.high = 0
                        /\ \A r \in valid : point.repetitions[r].qps \in point.low .. point.high
                        /\ valid # {} => \E r, q \in valid :
                                             /\ point.repetitions[r].qps = point.low
                                             /\ point.repetitions[q].qps = point.high
                        /\ \A r \in DOMAIN point.repetitions :
                             \/ /\ point.repetitions[r].qps = 0 /\ r \notin valid
                                /\ point.repetitions[r].items = 0
                             \/ point.repetitions[r].items = args.counts[i] * Cardinality(User)
  BY DEF FiguresHonest
<1> DEFINE point == disk.points[i]
           runs == point.repetitions
           valid == {r \in DOMAIN runs : runs[r].status = "ok"}
<1>1. /\ i \in 1 .. Len(disk.points) /\ DOMAIN runs = 1 .. Len(runs)
  BY PointsOf DEF Inv, Types
<1>2. Bounds(point) /\ \A r \in DOMAIN runs : Outcome(runs[r], Corpus(i))
  BY <1>1 DEF Figures, Figured
<1>3. ValidQps(runs) = {runs[r].qps : r \in valid}
  BY DEF ValidQps, Valid
<1> HIDE DEF point
<1>4. valid = {} <=> ValidQps(runs) = {}
  BY <1>3
<1>5. \A r \in valid : runs[r].qps \in point.low .. point.high
  BY <1>2, <1>3, <1>4 DEF Bounds
<1>6. valid # {} => \E r, q \in valid : runs[r].qps = point.low /\ runs[q].qps = point.high
  BY <1>2, <1>3, <1>4 DEF Bounds
<1>7. valid = {} => point.low = 0 /\ point.high = 0
  BY <1>2, <1>4 DEF Bounds
<1>8. \A r \in DOMAIN runs : \/ runs[r].qps = 0 /\ r \notin valid /\ runs[r].items = 0
                             \/ runs[r].items = args.counts[i] * Cardinality(User)
  BY <1>2 DEF Outcome, Corpus
<1> QED BY <1>5, <1>6, <1>7, <1>8 DEF point

-----------------------------------------------------------------------------
(* The bounds of the counters, and what is left on the backend.            *)

InBounds == /\ args \in [counts : Counts, queries : 1 .. MaxItems]
            /\ sweep \in 0 .. MaxSweeps
            /\ pc \in Active => sweep > 0
            /\ manifest.sweep \in 0 .. MaxSweeps
            /\ disk.sweep \in 0 .. MaxSweeps
            /\ Len(disk.points) <= Points
            /\ pc = "running" => Len(Runs) <= Repetitions
            /\ left \subseteq (1 .. sweep) \X (1 .. MaxItems) \X (1 .. Repetitions)

\* The users of the repetition that runs are named for a sweep, a memory count and a
\* repetition.
LEMMA NamespaceType ==
  ASSUME Inv, Apart, InBounds, pc = "running"
  PROVE  Namespace \in (1 .. sweep) \X (1 .. MaxItems) \X (1 .. Repetitions)
<1>1. /\ manifest \in Manifest /\ Current > 0 /\ Current <= Points /\ Runs # <<>>
      /\ Points \in Nat /\ sweep \in Nat
  BY DEF Inv, Types, LastPoint, Stage
<1>2. Current \in 1 .. Points /\ Current \in 1 .. Len(manifest.points)
  BY <1>1, PointsOf DEF Current
<1>3. Runs = manifest.points[Current].repetitions /\ Runs \in Seq(Repetition)
  BY <1>1, <1>2, PointsOf DEF Runs
<1>4. DOMAIN args.counts = 1 .. Points
  BY LenProperties DEF Points, Apart
<1>5. args.counts[Current] > 0 /\ args.counts[Current] \in 0 .. MaxItems
  BY <1>2, <1>4 DEF Inv, Types, Apart, Active, ValidArgs, Increasing
<1>6. args.counts[Current] \in 1 .. MaxItems
  BY <1>5, SweepAssumption
<1>7. Len(Runs) \in 1 .. Repetitions
  BY <1>1, <1>3, EmptySeq, LenProperties, SweepAssumption DEF InBounds
<1>8. sweep \in 1 .. sweep
  BY <1>1 DEF InBounds, Active
<1> QED BY <1>6, <1>7, <1>8 DEF Namespace

LEMMA InitBounds == Init => InBounds
<1> SUFFICES ASSUME Init PROVE InBounds
  OBVIOUS
<1>1. Points \in Nat \ {0}
  BY InitInv DEF Inv, Types
<1>2. /\ manifest.sweep = 0 /\ disk.sweep = 0 /\ Len(disk.points) = 0
      /\ pc = "idle" /\ left = {} /\ sweep = 0
  BY BlankSound DEF Init, Blank
<1>3. MaxSweeps \in Nat
  BY SweepAssumption
<1> QED BY <1>1, <1>2, <1>3 DEF Init, InBounds, Active

LEMMA BoundsNext == Inv /\ Inv' /\ Apart /\ InBounds /\ [Next]_vars => InBounds'
<1> SUFFICES ASSUME Inv, Inv', Apart, InBounds, [Next]_vars PROVE InBounds'
  OBVIOUS
<1>. /\ manifest \in Manifest /\ manifest' \in Manifest /\ sweep \in Nat /\ Points \in Nat
     /\ MaxSweeps \in Nat /\ Repetitions \in Nat \ {0}
  BY SweepAssumption DEF Inv, Types
<1>1. CASE Start
  <2>1. /\ sweep' = sweep + 1 /\ sweep' \in 0 .. MaxSweeps /\ UNCHANGED <<args, disk, left>>
        /\ pc' # "running" /\ Points' = Points
    BY <1>1 DEF Start, Save, input, files, Points, InBounds
  <2>2. manifest'.sweep \in 0 .. MaxSweeps
    <3>1. manifest' = manifest \/ manifest'.sweep = sweep'
      BY <1>1 DEF Start, Blank
    <3> QED BY <2>1, <3>1 DEF InBounds
  <2>3. left' \subseteq (1 .. sweep') \X (1 .. MaxItems) \X (1 .. Repetitions)
    <3>1. 1 .. sweep \subseteq 1 .. sweep'
      BY <2>1
    <3> QED BY <2>1, <3>1 DEF InBounds
  <2> QED BY <2>1, <2>2, <2>3 DEF InBounds
<1>2. CASE Begin
  <2>1. /\ UNCHANGED <<args, disk, left, sweep>> /\ Points' = Points /\ pc \in Active
    BY <1>2 DEF Begin, input, files, Points, Active
  <2>2. manifest'.sweep = manifest.sweep
    BY <1>2 DEF Begin, Manifest
  <2>3. Len(Runs') <= Repetitions
    <3>1. ASSUME Current > 0, Len(Runs) < Repetitions,
                 manifest' = [manifest EXCEPT !.points[Current].repetitions = Append(@, Running)]
          PROVE  Len(Runs') <= Repetitions
      <4>1. /\ Current \in 1 .. Len(manifest.points) /\ Runs = manifest.points[Current].repetitions
            /\ manifest.points[Current] \in Point /\ Runs \in Seq(Repetition)
            /\ Current = Len(manifest.points)
        BY SMTT(20), <3>1, PointsOf DEF Current, Runs
      <4>2. manifest'.points = [manifest.points EXCEPT ![Current].repetitions = Append(@, Running)]
        BY <3>1 DEF Manifest
      <4>3. manifest'.points[Current].repetitions = Append(Runs, Running)
        BY SMTT(20), <4>1, <4>2, PointsOf DEF Point
      <4>4. Len(manifest'.points) = Len(manifest.points)
        BY <4>1, <4>2, PointsOf
      <4>5. Runs' = Append(Runs, Running)
        BY <4>1, <4>3, <4>4 DEF Runs, Current
      <4>6. Len(Append(Runs, Running)) = Len(Runs) + 1 /\ Len(Runs) \in Nat
        BY <4>1, RunningTypes, LenProperties, AppendProperties
      <4> QED BY <3>1, <4>5, <4>6
    <3>2. ASSUME manifest' = [manifest EXCEPT !.points = Append(@, NewPoint)]
          PROVE  Len(Runs') <= Repetitions
      <4>1. manifest'.points = Append(manifest.points, NewPoint)
        BY <3>2 DEF Manifest
      <4>2. /\ Len(manifest'.points) = Len(manifest.points) + 1
            /\ manifest'.points[Len(manifest.points) + 1] = NewPoint
        BY <4>1, RunningTypes, PointsOf, AppendProperties
      <4>3. Runs' = <<Running>>
        BY <4>2, PointsOf DEF Runs, Current, NewPoint
      <4> QED BY <4>3
    <3> QED BY <1>2, <3>1, <3>2 DEF Begin
  <2> QED BY <2>1, <2>2, <2>3 DEF InBounds
<1>3. CASE Finish \/ Fail
  <2>1. /\ pc = "running" /\ pc' = "replace" /\ UNCHANGED <<args, disk, sweep>>
        /\ Points' = Points /\ left' \subseteq left \cup {Namespace}
    BY <1>3 DEF Finish, Fail, Finished, Save, input, files, Points
  <2>2. manifest'.sweep = manifest.sweep
    BY <1>3 DEF Finish, Fail, Finished, Manifest
  <2> QED BY <2>1, <2>2, NamespaceType DEF InBounds, Active
<1>4. CASE ClosePoint \/ Close
  <2>1. /\ pc \in Active /\ pc' = "replace" /\ UNCHANGED <<args, disk, sweep, left>>
        /\ Points' = Points
    BY <1>4 DEF ClosePoint, Close, Save, input, files, Points, Active
  <2>2. manifest'.sweep = manifest.sweep
    BY <1>4 DEF ClosePoint, Close, Manifest
  <2> QED BY <2>1, <2>2 DEF InBounds, Active
<1>5. CASE Report
  <2>1. /\ pc \in Active /\ pc' # "running" /\ UNCHANGED <<args, sweep, left, manifest>>
        /\ Points' = Points /\ disk' \in {disk, manifest}
    BY <1>5 DEF Report, WriteTemporary, Replace, Truncate, WriteRows, input, Points, Active,
                Inv, Types
  <2>2. Len(manifest.points) <= Points
    BY DEF Inv, LastPoint, Current
  <2> QED BY <2>1, <2>2 DEF InBounds
<1>6. CASE Crash
  <2>1. /\ pc' = "idle" /\ UNCHANGED <<args, disk, sweep>> /\ Points' = Points
        /\ manifest'.sweep = 0
    BY <1>6 DEF Crash, input, files, Points, Blank
  <2>2. CASE pc = "running"
    <3>1. left' = left \cup {Namespace}
      BY <1>6, <2>2 DEF Crash
    <3> QED BY <2>1, <2>2, <3>1, NamespaceType DEF InBounds, Active
  <2>3. CASE pc # "running"
    <3>1. left' = left
      BY <1>6, <2>3 DEF Crash
    <3> QED BY <2>1, <3>1 DEF InBounds, Active
  <2> QED BY <2>2, <2>3
<1>7. CASE Exit \/ Done \/ UNCHANGED vars
  <2>1. /\ pc' \notin Active \/ pc' = pc
        /\ UNCHANGED <<args, sweep, left, manifest, disk>>
        /\ Points' = Points
    BY <1>7 DEF Exit, Done, vars, input, files, Points, Active
  <2> QED BY <2>1 DEF InBounds, Runs, Current, Active
<1> QED BY <1>1, <1>2, <1>3, <1>4, <1>5, <1>6, <1>7 DEF Next, Work

LEMMA BoundsAlways == Spec => []InBounds
<1>1. Inv /\ Inv' /\ Apart /\ InBounds /\ [Next]_vars => InBounds'
  BY BoundsNext
<1> QED BY <1>1, NextInv, InitBounds, InvAlways, ApartAlways, PTL DEF Spec

\* The types that the model states follow from all of this.
LEMMA ManifestTypes ==
  ASSUME NEW m \in Manifest, m.sweep \in 0 .. MaxSweeps, Len(m.points) <= Points
  PROVE  IsManifest(m)
BY DEF IsManifest, Manifest

LEMMA TypesTrue == Inv /\ Apart /\ InBounds => TypeOK
<1> SUFFICES ASSUME Inv, Apart, InBounds PROVE TypeOK
  OBVIOUS
<1>1. IsManifest(manifest) /\ IsManifest(disk)
  BY ManifestTypes DEF Inv, Types, LastPoint, Current, InBounds
<1>2. pc \in {"idle", "next", "running", "replace", "truncate", "rows", "closed", "over",
               "refused"}
  BY DEF Inv, Types, Active
<1> QED BY <1>1, <1>2 DEF TypeOK, Inv, Types, Apart, InBounds

-----------------------------------------------------------------------------

\* manifest.json is true whenever run_memory_growth is killed, also by the verdicts it
\* shows: _combined_status over repetitions, and over points, is that of the worst.
THEOREM ManifestAlwaysHonest == Spec => []ManifestHonest
BY InvAlways, InvHonest, PTL

\* summary.csv never shows a repetition that manifest.json does not, wherever
\* write_sweep_reports is cut short.
THEOREM CsvNeverAhead == Spec => []CsvBehind
<1>1. Rows => CsvBehind
  BY DEF Rows
<1> QED BY <1>1, RowsAlways, PTL

\* No write_sweep_reports, of this or of a later sweep, loses or changes a repetition
\* that manifest.json has reported.
THEOREM ReportsNeverRewritten == Spec => NeverRewritten
<1>1. Inv /\ [Next]_vars =>
        [disk.points # <<>> =>
           /\ disk'.sweep = disk.sweep
           /\ Len(disk.points) <= Len(disk'.points)
           /\ \A i \in DOMAIN disk.points : \A r \in DOMAIN disk.points[i].repetitions :
                /\ r \in DOMAIN disk'.points[i].repetitions
                /\ disk'.points[i].repetitions[r] = disk.points[i].repetitions[r]]_vars
  BY StepKeeps
<1> QED BY <1>1, InvAlways, PTL DEF Spec, NeverRewritten

\* run_memory_growth measures every repetition on a corpus of its size and in users of its
\* own, whatever repetitions that failed or were killed have left on the backend.
THEOREM RepetitionsComparable == Spec => []Comparable
BY InvAlways, ApartAlways, ApartComparable, PTL

\* Wherever run_memory_growth and write_sweep_reports are killed, both files of the output
\* directory are true: the manifest, the CSV, and the figures, which are those of the valid
\* repetitions (aggregate_repeats), each with its whole corpus of every user, however the
\* users were divided over shards (PreingestStats.merge, evaluate_repeat).
THEOREM ReportsAlwaysHonest == Spec => []ReportHonest
<1>1. Inv /\ Apart /\ InBounds /\ Figures /\ Rows => ReportHonest
  BY InvHonest, FiguresTrue, TypesTrue DEF ReportHonest, Rows
<1> QED BY <1>1, InvAlways, ApartAlways, BoundsAlways, FiguresAlways, RowsAlways, PTL
=============================================================================
