------------------------------- MODULE Corpora -------------------------------
(***************************************************************************)
(* The corpora of one process of a run: the rows of a dataset are dealt to *)
(* its users (users(), LoadRunner.run), bounded query pools are built      *)
(* before anything else (SearchLoad.validate_run), the corpora are         *)
(* pre-ingested (LoadRunner._preingest), and plans without dialogue draw   *)
(* their operations from them (AddLoad, SearchLoad and Mixed of            *)
(* core/scenarios.py).                                                     *)
(*                                                                         *)
(* The users' streams share one reader of a Parquet file, which caches one *)
(* row group; every decoding may fail, and so may every add.  An item is   *)
(* the row it comes from and its number in it.                             *)
(***************************************************************************)
EXTENDS Datasets

CONSTANTS Sizes,       \* the sizes of the file's row groups
          Setting,     \* the runs to look at
          AddBatch,    \* add_batch_size of the backend
          Rotation,    \* a pass of SearchLoad shifts by n // Rotation (7 in the code)
          MaxOps       \* bound: operations of a plan

ASSUME CorporaAssumption ==
  /\ Sizes \in Seq(Nat) /\ Sizes # <<>>
  /\ AddBatch \in Nat \ {0} /\ Rotation \in Nat \ {0, 1} /\ MaxOps \in Nat
  /\ \A s \in Setting :
       /\ {s.users, s.procs} \subseteq Nat \ {0} /\ {s.exact, s.limit} \subseteq Nat
       /\ s.index \in 0 .. s.procs - 1 /\ s.procs <= s.users
       /\ s.scenario \in {"add-load", "search-load", "mixed", "chat-replay"}

VARIABLES setting,  \* the source, scenario, model and sizes of the run
          items,    \* items[r]: how many memory items row r has
          order,    \* the shuffled rows
          phase,    \* where the process is
          cache,    \* _group and _table of the reader, 0 if there is none
          stored,   \* stored[u]: what was pre-ingested for user u
          ingest,   \* ingest[u]: the state of its pre-ingest
          memo,     \* _MEMO: whole streams
          pool,     \* _query_cache
          plan,     \* plan[u]: the operations of its plan so far
          drawing   \* drawing[u]: whether the user has a plan, or its loop has failed

corpusVars == <<setting, items, order, phase, cache, stored, ingest, memo, pool, plan, drawing>>

Rows == DOMAIN items
User == 0 .. setting.users - 1
\* shard_users: the users of this process.
Shard(s) == {u \in 0 .. s.users - 1 : u % s.procs = s.index}
Mine == DOMAIN stored

NotBuilt == <<"not built">>
Empty == [group |-> 0, table |-> 0]

\* The rows of a user, in replay order.
RowsOf(u) == IF setting.source = "nebius" THEN Stride(order, u, setting.users)
             ELSE Sample(order, u)

-----------------------------------------------------------------------------
(* Streams.                                                                *)

Total(rows, n) == SumFunctionOnSet([j \in DOMAIN rows |-> items[rows[j]]], 1 .. n)

\* The place of item p of a stream: its row, by its place in the list.
Place(rows, p) == Min({j \in DOMAIN rows : Total(rows, j) >= p})

\* All of a user's stream.
CorpusOf(u) ==
  LET rows == RowsOf(u)
  IN  [p \in 1 .. Total(rows, Len(rows)) |->
         LET j == Place(rows, p) IN <<rows[j], p - Total(rows, j - 1)>>]

\* (mutant of Undecoded: the group is taken for cached before it is decoded)
KeepTable(c, g) == [c EXCEPT !.group = g]

\* The decoding of a group raises: the old table was let go, its group was not.
Undecoded(c, g) == [c EXCEPT !.table = 0]

\* __getitem__: the row that is delivered, if one is, and the cache after it.
Failed(c) == [cache |-> c, row |-> 0]
ReadRow(c, row) ==
  LET g == GroupOf(Sizes, row - 1)
  IN  IF g = c.group
      THEN IF c.table = 0 THEN {Failed(c)}
           ELSE {[cache |-> c, row |-> row - Offset(Sizes, g) + Offset(Sizes, c.table)]}
      ELSE {[cache |-> [group |-> g, table |-> g], row |-> row], Failed(Undecoded(c, g))}

\* How the reading of some rows, one after the other, may end: with the rows that
\* were delivered, up to the first failure.
ReadRows(c, rows) ==
  LET after[n \in 0 .. Len(rows)] ==
        IF n = 0 THEN {[cache |-> c, got |-> <<>>]}
        ELSE UNION {IF Len(r.got) < n - 1 THEN {r}
                    ELSE {[cache |-> x.cache, got |-> IF x.row = 0 THEN r.got
                                                      ELSE Append(r.got, x.row)] :
                            x \in ReadRow(r.cache, rows[n])} : r \in after[n - 1]}
  IN  IF setting.source = "nebius" THEN after[Len(rows)]
      ELSE {[cache |-> c, got |-> rows]}

\* The next `want` items of a stream of which `from` were taken: its generator
\* stands in the row of the last of them and reads no row before it is needed.
Taken(u, from, want) ==
  LET rows  == RowsOf(u)
      whole == Total(rows, Len(rows))
      here  == IF from = 0 THEN 0 ELSE Place(rows, from)
      to    == Min({from + want, whole})
      there == IF want = 0 THEN here
               ELSE IF from + want <= whole THEN Place(rows, to) ELSE Len(rows)
      Item(r, p) == LET j == Place(rows, p)
                    IN  <<IF j > here THEN r.got[j - here] ELSE rows[j],
                          p - Total(rows, j - 1)>>
  IN  {[cache |-> r.cache, ok |-> Len(r.got) = there - here,
        items |-> IF Len(r.got) = there - here
                  THEN [n \in 1 .. to - from |-> Item(r, from + n)] ELSE <<>>] :
         r \in ReadRows(cache, SubSeq(rows, here + 1, there))}

\* list(memory_stream(u)): one item more than there are.
All(u) == Taken(u, 0, Len(CorpusOf(u)) + 1)

-----------------------------------------------------------------------------
(* Before the run.                                                         *)

Refuse == phase' = "refused"

\* users() has dealt the rows; nothing else has happened yet.
Dealt(s, rows) ==
  /\ setting' = s
  /\ order' \in {f \in [Rows -> Rows] : \A i, j \in Rows : f[i] = f[j] => i = j}
  /\ phase' = "validate"
  /\ LET mine == Shard(s)
     IN  /\ stored' = [u \in mine |-> <<>>] /\ ingest' = [u \in mine |-> "todo"]
         /\ memo' = [u \in mine |-> NotBuilt] /\ pool' = memo'
         /\ plan' = stored' /\ drawing' = [u \in mine |-> "no"]
  /\ items' = rows /\ UNCHANGED cache

\* validate_run: the pools are built one user after the other, or the run is refused.
Bounded == setting.scenario = "search-load" /\ setting.limit > 0
Unbuilt == {u \in Mine : Bounded /\ pool[u] = NotBuilt}
BuildPool ==
  /\ phase = "validate" /\ Unbuilt # {}
  /\ LET u == Min(Unbuilt)
     IN  \E r \in Taken(u, 0, setting.limit) :
           /\ cache' = r.cache
           /\ IF r.ok /\ Len(r.items) = setting.limit
              THEN pool' = [pool EXCEPT ![u] = r.items] /\ UNCHANGED phase
              ELSE Refuse /\ UNCHANGED pool
  /\ UNCHANGED <<setting, items, order, stored, ingest, memo, plan, drawing>>

Validated == /\ phase = "validate" /\ Unbuilt = {} /\ setting.scenario # "chat-replay"
             /\ phase' = IF setting.preingest = "none" THEN "run" ELSE "ingest"
             /\ UNCHANGED <<setting, items, order, cache, stored, ingest, memo, pool, plan,
                            drawing>>

\* How the ingest of a user ends.
Ends(u, state) == ingest' = [ingest EXCEPT ![u] = state]
Submit(u, new) == stored' = [stored EXCEPT ![u] = @ \o new]

\* preingest_items_per_user: the next batch is taken from the stream and added, and
\* either may fail; a stream that ends too early fails as well.
IngestBatch(u) ==
  /\ phase = "ingest" /\ ingest[u] = "todo" /\ setting.preingest = "exact"
  /\ LET have == Len(stored[u])
         want == Min({AddBatch, setting.exact - have})
     IN  \E r \in Taken(u, have, want) :
           /\ cache' = r.cache
           /\ \/ /\ want = 0 \/ r.items # <<>>
                 /\ Submit(u, r.items)
                 /\ Ends(u, IF have + Len(r.items) = setting.exact THEN "done" ELSE "todo")
              \/ Ends(u, "failed") /\ UNCHANGED stored
  /\ UNCHANGED <<setting, items, order, phase, memo, pool, plan, drawing>>

\* preingest_fraction: a share of the whole stream, at least one item, is added in
\* batches.
Shares(n) == IF setting.preingest = "all" THEN {n} ELSE {Min({k, n}) : k \in 1 .. n + 1}
IngestShare(u) ==
  /\ phase = "ingest" /\ ingest[u] = "todo" /\ setting.preingest \in {"all", "share"}
  /\ \E r \in All(u) :
       /\ cache' = r.cache
       /\ \/ /\ r.ok
             /\ \E keep \in Shares(Len(r.items)) :
                  /\ Submit(u, SubSeq(r.items, 1, keep))
                  /\ Ends(u, "done")
          \/ Ends(u, "failed") /\ UNCHANGED stored
  /\ UNCHANGED <<setting, items, order, phase, memo, pool, plan, drawing>>

\* (mutant of Ingested: the failures stay in the list that gather returns)
EveryoneReturned == \A u \in Mine : ingest[u] # "todo"

\* The run goes on if no user failed.
Ingested == \A u \in Mine : ingest[u] = "done"
EndIngest == /\ phase = "ingest" /\ \A u \in Mine : ingest[u] # "todo"
             /\ IF Ingested THEN phase' = "run" ELSE Refuse
             /\ UNCHANGED <<setting, items, order, cache, stored, ingest, memo, pool, plan,
                            drawing>>

-----------------------------------------------------------------------------
(* Plans.                                                                  *)

\* _memories and _query_pool: once built, they are kept; a pool without a limit is
\* the whole stream.  A plan that cannot be made ends the loop of the user, in the
\* open model only the session.
Start(u) ==
  /\ phase = "run" /\ drawing[u] = "no"
  /\ setting.scenario # "chat-replay"
  /\ IF Bounded \/ memo[u] # NotBuilt
     THEN drawing' = [drawing EXCEPT ![u] = "yes"] /\ UNCHANGED <<cache, memo, pool>>
     ELSE \E r \in All(u) :
            /\ cache' = r.cache
            /\ IF r.ok THEN /\ memo' = [memo EXCEPT ![u] = r.items]
                            /\ pool' = IF setting.scenario = "add-load" THEN pool
                                            ELSE [pool EXCEPT ![u] = r.items]
                            /\ drawing' = [drawing EXCEPT ![u] = "yes"]
               ELSE /\ UNCHANGED <<memo, pool>>
                    /\ drawing' = [drawing EXCEPT ![u] =
                                     IF setting.model = "open" THEN "no" ELSE "failed"]
  /\ UNCHANGED <<setting, items, order, phase, stored, ingest, plan>>

Add(item) == [kind |-> "add", item |-> item]
Search(item) == [kind |-> "search", item |-> item]
Count(u, kind) == Cardinality({n \in DOMAIN plan[u] : plan[u][n].kind = kind})
Ring(s, i) == s[(i % Len(s)) + 1]

\* Where a pass of SearchLoad starts: stride = max(1, n // 7).
Offsets(n, pass) == (pass * Max({1, n \div Rotation})) % n

\* The operations that may come next.
NextOps(u) ==
  LET k == Len(plan[u])
      n == Len(pool[u])
  IN  CASE setting.scenario = "add-load" -> {Add(Ring(memo[u], k))}
        [] setting.scenario = "search-load" ->
             {Search(Ring(pool[u], Offsets(n, k \div n) + (k % n)))}
        [] setting.scenario = "mixed" -> {Search(Ring(pool[u], Count(u, "search"))),
                                          Add(Ring(memo[u], Count(u, "add")))}

\* A user without items has a plan without operations.
Draw(u) == /\ phase = "run" /\ drawing[u] = "yes" /\ Len(plan[u]) < MaxOps
           /\ (IF Bounded THEN pool[u] ELSE memo[u]) # <<>>
           /\ \E op \in NextOps(u) : plan' = [plan EXCEPT ![u] = Append(@, op)]
           /\ UNCHANGED <<setting, items, order, phase, cache, stored, ingest, memo, pool,
                          drawing>>

\* Open model: a session ends, and the next one of the user makes its own plan.
NextSession(u) == /\ phase = "run" /\ drawing[u] = "yes" /\ setting.model = "open"
                  /\ plan' = [plan EXCEPT ![u] = <<>>]
                  /\ drawing' = [drawing EXCEPT ![u] = "no"]
                  /\ UNCHANGED <<setting, items, order, phase, cache, stored, ingest, memo,
                                 pool>>

CorpusStep == \/ BuildPool \/ Validated \/ EndIngest
              \/ \E u \in Mine : \/ IngestBatch(u) \/ IngestShare(u)
                                 \/ Start(u) \/ Draw(u) \/ NextSession(u)

-----------------------------------------------------------------------------
(* Properties.                                                             *)

IsPrefixOf(s, t) == Len(s) <= Len(t) /\ s = SubSeq(t, 1, Len(s))
Loaded == order # <<>>

\* Over all processes, every row is replayed by some user if there are enough users
\* or rows, by one only if there are enough rows; and no user is without.
RowsDealt ==
  LET Of(u) == Range(RowsOf(u))
  IN  /\ \A u \in User : Of(u) # {}
      /\ setting.source = "nebius" \/ setting.users >= Len(order) =>
           UNION {Of(u) : u \in User} = Rows
      /\ setting.users <= Len(order) =>
           \A u, v \in User : u # v => Of(u) \cap Of(v) = {}

\* Whatever the streams of other users do with the shared reader, and whatever
\* fails, a user gets the items of its own rows, whole and in order: what is
\* pre-ingested is the beginning of its corpus, of the length asked for; what its
\* operations are drawn from is all of it, or the beginning that query_limit names.
CorpusTrue ==
  Loaded =>
    /\ RowsDealt
    /\ \A u \in Mine :
         /\ IsPrefixOf(stored[u], CorpusOf(u))
         /\ ingest[u] = "done" =>
              CASE setting.preingest = "exact" -> Len(stored[u]) = setting.exact
                [] setting.preingest = "all"   -> stored[u] = CorpusOf(u)
                [] OTHER -> CorpusOf(u) # <<>> => stored[u] # <<>>
         /\ memo[u] # NotBuilt => memo[u] = CorpusOf(u)
         /\ pool[u] # NotBuilt => /\ IsPrefixOf(pool[u], CorpusOf(u))
                                  /\ Len(pool[u]) = IF Bounded THEN setting.limit
                                                    ELSE Len(CorpusOf(u))

\* A search is for something that was stored before the run, if the pre-ingest was
\* told to store as much as the searches are drawn from.
Covered == \/ setting.preingest = "all"
           \/ setting.preingest = "exact" /\ Bounded /\ setting.limit <= setting.exact
QueriesStored ==
  \A u \in Mine : \A k \in DOMAIN plan[u] :
    plan[u][k].kind = "search" /\ Covered => plan[u][k].item \in Range(stored[u])

\* Every pass of a search plan asks each query of the pool once, and begins with
\* another one than the pass before it.
PassesWhole ==
  \A u \in Mine : setting.scenario = "search-load" =>
    LET n == Len(pool[u])
        Asked(pass) == {plan[u][k].item : k \in pass * n + 1 .. (pass + 1) * n}
    IN  \A pass \in 0 .. MaxOps : (pass + 1) * n <= Len(plan[u]) /\ n > 0 =>
          /\ Asked(pass) = Range(pool[u])
          /\ pass > 0 /\ n > 1 =>
               plan[u][pass * n + 1] # plan[u][(pass - 1) * n + 1]

\* Adds go round the corpus, however many searches are drawn between them.
AddsCycle ==
  \A u \in Mine : \A j, k \in DOMAIN plan[u] :
    j < k /\ plan[u][j].kind = "add" /\ plan[u][k] = plan[u][j] =>
      {plan[u][m].item : m \in {m \in j .. k : plan[u][m].kind = "add"}} = Range(memo[u])

QueriesSound == Loaded => QueriesStored /\ PassesWhole /\ AddsCycle
=============================================================================
