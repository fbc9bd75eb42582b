# LTM100 in TLA+

LTM100 is a load generator for long-term-memory backends. It replays a workload
of *add* and *search* operations against a memory service, under an open or a
closed load model, from one process or from several, and reports latencies,
throughput, errors and what the service's own metrics say of the same window.
A number it reports is only worth something if the generator itself did what it
says: no lost or invented operation, no warm-up in the results, no permit that
leaks, no corpus that was half loaded. These modules state that and check it.

Contents: [inventory](#1-inventory), [modules](#2-modules-and-how-they-correspond-to-the-code),
[runs](#3-runs-bounds-and-what-they-show), [fairness](#4-fairness),
[proofs](#5-proofs), [disagreements](#6-where-code-and-documents-disagree),
[what is not modelled](#7-what-is-not-modelled), [plan](#8-plan).

To repeat a check: `tlc -config OpenLoop.cfg MC_OpenLoop.tla` (the module of every
run is in section 3), `tlapm OpenLoop_proofs.tla`.

Paths below are relative to `src/ltm100/` of the repository.

## 1. Inventory

| Component | Code | State it keeps | Operations |
|---|---|---|---|
| Load runner | `core/runner.py` | phase, deadline, stop flag, results, admission counter, semaphore, lanes in use per user | `run`, `_open_loop`, `_open_session`, `_closed_loop`, `_user_loop`, `_execute` |
| Global limit | `core/runner.py`, `asyncio.Semaphore` | permits, queue of waiters | `_acquire_global_slot`, `_acquire_slot_bounded`, `_release_slot` |
| Shards | `core/multiproc.py`, `cli.py` | two events, one message queue, a pool | `run_shards`, `_wait_for_workers`, the synchronized hooks, `_shard_entry` |
| Shares | `cli.py`, `core/config.py`, `core/chat_profile.py` | none | `_split`, `_build_run_config`, `shard_users`, `counts`, `assign` |
| Server metrics | `metrics/server_metrics.py` | snapshots, sampler thread, stop event | `SnapshotCollector.start/end/_sample_loop`, `diff`, `histogram_delta`, `quantile`, `finish`, `finish_timeseries` |
| Backends | `adapters/backends/*`, `adapters/transports/*` | projects created, session | `preflight`, `setup`, `add`, `search`, `teardown`, `request` with retries |
| Pre-ingest | `core/runner.py` | what was added for each user | `_preingest`, whole corpora, shares, exact counts |
| Scenarios | `core/scenarios.py` | pools of queries, streams kept in memory, the position in a plan | `validate_run`, `plan` of `add-load`, `search-load`, `mixed` and `chat-replay` |
| Datasets | `adapters/datasets/*` | the cached row group of a Parquet file | `users`, `memory_stream`, `_normalize_task`, `_split_chunks`, `_ParquetRecords` |
| Growth sweep | `core/memory_growth.py` | a manifest, two report files | `run_memory_growth`, its checks, `evaluate_repeat`, `aggregate_repeats`, `write_sweep_reports` |
| Reports | `metrics/{recorder,aggregate,timeseries,report}.py`, `errors.py` | list of results | `record`, `aggregate`, `aggregate_timeseries`, `error_detail` |
| Command line | `cli.py` | none | builds all of the above and orders them; `cleanup` |
| Filter-contract tool | `tools/filter_contract.py` (beside `ltm100/`) | whether the fixture is its own | `prepare`, `load`, `main` |

**Interaction.** The command line reads a dataset, deals its rows to users, and builds
one runner per process. Each runner validates its scenario, sets up its users on
the backend, pre-ingests, optionally warms up, calls a *measure start* hook, runs the
load model over the plans of the scenario, calls the *measure end* hook, and tears
down. In a sharded run those hooks are the barrier: every process waits in each until
the parent has heard of all and has run its own hook, which is where the server
metrics are scraped. Results go back to the parent, which pools them and writes
the reports. The growth sweep repeats all of that, once for each memory count and
repetition, in a directory of its own. `ltm100 cleanup` tears down the users of a
run that is over.

**What is hard, and what makes each part correct.**

* *Runner.* Many coroutines share a semaphore, a counter, a lane table and a
  deadline. A wait can time out in the same turn in which a permit is handed over;
  a deadline can pass between a wait and a dispatch; one lane's stop meets another
  lane's reservation. Correct: no permit is lost or used twice, the admission
  counter is exact, a request is refused only when the queue is full, nothing is
  dispatched late, exactly the operations asked for are executed, nothing of the
  warm-up is counted, and the run ends.
* *Barrier.* Messages and events between processes that may fail at any point.
  Correct: a reported window covers every shard's measured phase, and an error
  anywhere leaves nobody waiting.
* *Shares.* Every process works out its own part with no common state. Correct: the
  parts add up to the whole, and no user is driven twice or not at all.
* *Collector.* Two threads and a server that may restart. Correct: the snapshots are
  in order, a delta never claims more than happened, a quantile is where the request
  of that rank is, `end` returns.
* *Backends.* Requests are lost, answered late, repeated and raced by other
  processes; a project may be someone else's; a process may be killed. Correct: a
  project that was found is never deleted, a workload starts only on a complete
  corpus, the first error is the one that is raised, and a run without faults, or a
  cleanup without faults after any run, leaves nothing behind.
* *Datasets and corpora.* The streams of all users share one reader with one cached
  row group, and every decoding may fail; records are checked message by message;
  streams are taken for pools, for the pre-ingest and for plans. Correct: each user
  gets its own rows, whole and in order; tool calls and results belong together; no
  text is lost where it is cut; no search asks for what was not stored.
* *Replay.* A plan is restarted, cut short and dealt over lanes. Correct: turns are
  stored once and in order, and a recall search precedes its turn.
* *Sweep.* The process may be killed between any two writes, and started again on the
  same directory. Correct: the files never claim more than was run, an earlier
  sweep's are not overwritten, and all repetitions are comparable.
* *Reports.* Two reports are computed by different rules from one list. Correct: they
  agree with each other and with what happened.

## 2. Modules and how they correspond to the code

| Module | Models | Composition |
|---|---|---|
| `GlobalSlots` | `asyncio.Semaphore` as the runner uses it (external code) | extended by the two load models |
| `OpenLoop` | `_open_loop`, `_admit_open_session`, `_open_session`, `_acquire_slot_bounded`, `_execute`, the phases of `run` | extends `GlobalSlots`; implements `BoundedQueue` |
| `ClosedLoop` | `_closed_loop`, `_user_loop`, `_reserve_op`, the phases of `run` | extends `GlobalSlots`; implements `OperationBudget` |
| `BoundedQueue` | *abstract*: at most C served, at most Q waiting, and what waits is served in the end or leaves | |
| `OperationBudget` | *abstract*: at most N issued, finished after issued, and all N finished in the end | |
| `MeasureBarrier` | `run_shards`, `_wait_for_workers`, the synchronized hooks, `_shard_entry` | extends `BarrierWindow`; implements `MeasureWindow` |
| `BarrierWindow` | what the barrier is for: the state in which `WindowCovered` and the refinement `WindowSpec` are stated, apart from the queues and events that bring it about | instantiates `MeasureWindow`; used by `MeasureBarrier` and the proofs |
| `MeasureWindow` | *abstract*: a window that is open while anybody measures | |
| `ShardBudget` | `_split`, `_build_run_config`, `RunConfig.__post_init__`, `shard_users`, the group counts and assignment of a chat profile | |
| `SnapshotCollector` | `SnapshotCollector`, and the report of one histogram: `diff`, `quantile`, `build_report`, `finish`, `finish_timeseries` | |
| `BackendLifecycle` | `_run_shard_async`, `LoadRunner.run`'s setup and pre-ingest, the adapters of MemMachine (REST, REST with semantic memory, MCP), Mem0 and Supermemory, `RestTransport.request`, `_cleanup`, and the fixture of `filter_contract.py` | |
| `Trajectory` | `_normalize_task`, `memory_stream` of the Nebius dataset | |
| `Datasets` | `_split_chunks`, `users`, the row groups of `_ParquetRecords`: operators only | |
| `Corpora` | `_ParquetRecords`, `validate_run`, `_preingest`, the plans of `add-load`, `search-load` and `mixed` | extends `Datasets` |
| `ChatReplay` | `ChatReplay.plan` and what it calls | |
| `Workload` | from raw rows to operations: the dataset is read, dealt, ingested, and replayed or drawn from | composes `Trajectory`, `Corpora` and `ChatReplay` |
| `MemoryGrowth` | `run_memory_growth`, its checks, `PreingestStats`, `evaluate_repeat`, `aggregate_repeats`, `write_sweep_reports` | |
| `ResultReports` | `record`, `run_shards`' pooling, `aggregate`, `aggregate_timeseries`, `error_detail` | |
| `MC_*` | the finite instances that need model values or plans of their own | |
| `*_proofs` | the theorems of section 5 | extend the module they prove about; `Shards_proofs` extends `ShardBudget` and instantiates `MeasureBarrier` |

`PROJECT.json` names for each definition the lines it stands for. Some definitions
are preceded by a comment *(mutant of X: ...)*: each is a plausible wrong version of
`X`, never used by the specification, and is there to show that the property listed
with it in `PROJECT.json` would notice.

Choices that a reader needs to know:

* **One coroutine at a time.** asyncio switches only at an await that suspends. In
  `OpenLoop` and `ClosedLoop` the variable `cur` names the coroutine that has not
  suspended yet, and nobody else moves while it is set. An operation with no delay
  and a permit at hand therefore follows its predecessor without a gap, as in the
  code; with a delay it lets others in.
* **The clock.** The runner only asks whether the deadline has passed. `expired` is
  that bit, it may flip between any two steps, also in the middle of an unsuspended
  stretch, and it starts again at FALSE with each phase.
* **The semaphore.** A release hands its permit to the first waiter, who owns it
  before it resumes (`granted`). A waiter cancelled in between passes it on. The
  Python versions differ in how many waiters they wake when several permits are
  free: `ResumeWithSlot` and `AbandonWait` allow all of those numbers.
* **Time-outs.** `wait_for` is the choice between `Dispatch` and `Expire` at a waiter,
  including `Expire` of one that already owns a permit: the race of the two.
* **The pool and its queue.** A `multiprocessing.Queue` orders the messages of one
  producer only: `MeasureBarrier` has one FIFO queue for each worker.
* **History.** `began`, `ended` and `unsynced` (barrier), `truth` (collector), `running`
  (reports), `before`, `lost` and `calm` (lifecycle), `text` (workload), `left` (sweep)
  record what happened. They are read by properties, not by actions.
* **Late requests.** In `BackendLifecycle` a request that timed out stays in `late`
  and the server may apply it at any later time, also after a retry of it.
  A retry after a time-out is a new request. Nothing bounds the delay.
* **One user a process.** In `BackendLifecycle` a process drives one user, who stands
  for all of its users: their requests concern separate data. A teardown that stops
  at the first user who fails, as Mem0's does, is therefore one request.
* **Five backends, one life cycle.** They differ in what a project is, in whether
  `setup` creates it or the first `add` does (`Lazy`), in what the server answers
  (`StatusOf`), in which error answers a teardown forgives (`Forgiven`), and in whether
  the transport retries (`Retrying`). The filter-contract tool is a sixth client,
  which is one process, shares its project, and notes errors instead of raising them.
* **Reading a stream.** A generator stands in the row of the item it delivered last
  and opens no row before it is asked for another item: `Taken` reads just those
  rows, through the cache that all users share, and any of them may fail.
* **An item** is the row it comes from and its number in it. A query made from an item
  is that item.
* **Records are read once.** `Workload` reads and checks a record when the rows are
  dealt, and keeps only how many items it has: what a later reading of the same row
  yields is the same, if it is the same row, which is what `CorpusTrue` is about.
* **Chains of causes.** `error_detail` looks at eight exceptions at most; the limit
  is in `Detail`, and the run's chains are shorter than it.
* **A sweep's id** is random in the code: `sweep`, a number never used before.

## 3. Runs, bounds and what they show

All runs but `BudgetCap` find no error. Deadlock is checked in all but `Barrier`.

| Run | Module | Checks |
|---|---|---|
| `OpenLoop` | `MC_OpenLoop` | `SlotInv`, `AdmissionExact`, `CongestionBound`, `LanesExact`, `ResultsAreMeasured`, `RefusedOnlyWhenFull`, `NoLateDispatch` |
| `OpenLoopLive` | `MC_OpenLoop` | `RunEnds`, `BoundedService` |
| `ClosedCount` | `MC_ClosedLoop` | `ReservationsKept`, `ExactlyOps`, `BudgetSpec` |
| `ClosedTimed` | `MC_ClosedLoop` | `BudgetRespected`, `RunEnds` |
| `Barrier` | `MeasureBarrier` | `WindowCovered`, `WindowSpec`, `ParentEnds` |
| `Collector` | `SnapshotCollector` | `SnapshotsSound`, `DeltasSound`, `QuantilesSound`, `NoCatchUp`, `EndReturns` |
| `Budget` | `ShardBudget` | `LoadDivided`, `GroupsExact` |
| `BudgetCap` | `ShardBudget` | `CapKept`, violated: see section 6 |
| `Lifecycle` | `MC_BackendLifecycle` | `NotPulledAway`, `CorpusLoaded`, `ErrorsTrue`, `FoundStays`, `NothingLeft` |
| `Replay` | `MC_Workload` | `Replayed`, `TasksSound`, `ContentKept`, `CorpusTrue`, `QueriesSound` |
| `Growth` | `MemoryGrowth` | `ReportHonest`, `Comparable`, `NeverRewritten` |
| `Reports` | `MC_ResultReports` | `RowsMatchSummary`, `BacklogTrue`, `SummaryTrue` |

**OpenLoop.** Four sessions of two users, capped at two lanes and one; one slot, a
queue of one, two operations in a session, a warm-up, at most five arrivals
(`MaxArrivals`) in each phase. With `C + Q = 2` and four sessions the slot is taken,
the queue is full and a third request is refused, all at once; a waiter is handed a
permit while the deadline passes; the second user is saturated while the first has a
lane free; and both phases go through all of it. A larger `C` adds waiters that are
entitled to a permit and not yet awake, which is what **OpenLoopLive** has: two slots,
one user without a cap, no warm-up, four arrivals. It also checks liveness and that
the loop implements `BoundedQueue`. There a waiter with fewer waiters in front of it
than there are free permits counts as served, since nothing but its own wake-up is
missing. What the arrival process draws is left open: any arrival at any time, which
includes every rate and every seed.

**ClosedCount.** Three lanes with plans of one, three and two operations, two slots, a
budget of four: the budget is spent while another lane holds a reservation, and a
lane may run out of operations first. **ClosedTimed.** The same with two operations
each, one slot, a budget of three and a deadline: reservations, waits and hand-overs
are cut by the clock at each point. Both have a warm-up, which draws on no budget.

**Barrier.** Two shards, each of which may fail anywhere, have its own hook fail, or be
killed. The error of one at one boundary and the arrival of the other in any order is
all that the parent can tell apart; the proof of `WindowCovered` holds for any
number. Deadlock is not checked: a parent whose worker was killed waits for ever.

**Collector.** Interval of two ticks in a run of four, so that a scrape can miss a whole
interval and end exactly on a boundary; one restart of the server; a histogram with
two finite edges, at most one request before the run and two in it, each under any
edge or above all. A restart whose counts have caught up, so that nobody notices it,
then leaves bucket deltas that decrease; and of two requests the median and the 90th
percentile fall into different buckets. Each snapshot keeps how many requests had
been served (`truth`), which is what the deltas and quantiles are compared with.

**Budget.** Every command line with at most four users, four processes, budgets of at
most three and profiles whose shares are thirds, and every shuffle of the users: more
processes than budget, than users, budgets that divide and that do not, groups
without a user. Everything is decided by quotients and remainders, which these
bounds exhaust up to three.

**Lifecycle.** One or two processes over each of the five backends, or the tool; shared
project or private ones, projects that predate the run or not; two pre-ingest requests
for each user, one retry, and two faults, a fault being an error, a lost answer, a
time-out with the request applied late, or a kill; then a cleanup, under the same
faults. Two faults are the fewest that make a retry fail as well, or that let a
killed process's request arrive after another fault. Processes are symmetric.

**Replay.** About 2.4 million states. Records of up to four messages
(`LongRow`, `MaxMessages`), with parallel calls, repeated ids, calls of `finish`, blank
answers, and messages that are malformed: four is the fewest in which a call of one
message is observed two messages later and a call of another never. Dialogues of up to
six turns (`LongTurns`) with texts of up to six characters cut at four (`MaxChars`):
a text may be one chunk, two, or three, with its last space in either half of the
window. Three rows, in row groups of two, none and two (an empty group shares its
offset with the next one), dealt to up to three users in up to two processes, shuffled
in every way; pre-ingest of nothing, all, any share, or exactly one or three items, in
batches of two (`AddBatch`); plans of five operations (`MaxOps`), so that a pass over a
pool of two ends and the second one begins; passes shift by half of the pool
(`Rotation = 2`; the code has 7, and with pools this small every shift would be 1). A
search on every second user turn (`SearchEvery`), up to three lanes: a third user turn
is the first that has a search due and an earlier one to be counted from.

**Growth.** Two points of at most three memories, two users whose datasets have zero to
three, every number of queries up to three, two repetitions, two starts on the same
directory, a kill before and after each step and each write.

**Reports.** Two shards, two operation types, at most two operations, four ticks of time
(0 to 3), intervals of two ticks, chains of two causes: operations that start and end
on boundaries, in windows of length zero, and in windows that are no multiple of the
interval.

What the less obvious properties say:

* `SlotInv` (`GlobalSlots`): the permits that are free, handed over or in use are `C`;
  a permit stays free with somebody waiting only if an owner has yet to resume and
  pass it on; without a limit nobody waits.
* `AdmissionExact`: the reservation counter is the number of operations that run or
  wait. `CongestionBound` follows from it and the semaphore together: the code never
  compares the number of waiters with `Q`.
* `ReservationsKept`: a stop raised by one lane discards no operation another has
  reserved. `ExactlyOps`: `--ops N` executes N, if the scenario has as many.
* `WindowSpec`, `BudgetSpec`, `BoundedService`: the refinements of the abstract modules.
* `NoCatchUp`: after a slow scrape the sampler skips boundaries, and never takes two
  samples in one interval.
* `DeltasSound`, `QuantilesSound`: every row of the server-metrics report, and the whole
  window, against the requests that were really served between the two snapshots.
* `NotPulledAway`, `CorpusLoaded`: a process that runs its workload has a project, and in
  it every batch, in order, though perhaps more than once.
* `ErrorsTrue`: of two processes that create the shared project at once, both run; and
  the error of a failed teardown never takes the place of the one that stopped the run.
* `NothingLeft`: after a run without faults, and after a cleanup without faults whatever
  the run was; for the two backends whose adapters raise when a delete fails, after
  every run that ended without an error.
* `CorpusTrue`: with the streams of all users on one reader, whatever decoding fails,
  what a user was given is the beginning of its own corpus, of the length asked for.
* `QueriesSound`: a search is for what was stored before the run, if enough was; every
  pass over a pool asks each query once and does not start where the last one did;
  adds go round the corpus whatever searches are drawn between them.
* `TasksSound`: reading message by message accepts exactly the well-formed records, which
  are defined by positions, without the reader's sets. `ContentKept`: chunks keep their
  text, and a record's final answer and calls are each in one item exactly.
* `Replayed`: lanes share the conversations without overlap, turns are stored once and
  in order, a search precedes the turn that fires it, pauses fit their range.
* `ReportHonest`: the manifest on disk shows finished repetitions only, and the verdict of
  the worst (`ManifestHonest`); the aggregates of a point are over its valid repetitions
  and no invalid one has figures (`FiguresHonest`); the CSV shows nothing that the manifest does not (`CsvBehind`).
  `NeverRewritten`: what was reported stays, also when the sweep is started again.
* `Comparable`: every repetition finds a full corpus of its size for each user, which
  holds all its queries, and none of the users that an earlier one left behind.
* `BacklogTrue`: the in-flight column against the number really in flight.

`SnapshotsSound`, `LoadDivided`, `Replayed`, `ReportHonest` and `SummaryTrue` include
the type invariant of their modules; those of the load models and the barrier are
proved separately (section 5), that of `BackendLifecycle` in the part its invariants need.

## 4. Fairness

* *Open and closed loop*: weak fairness of `Tick` (time passes), of `EndArrivals` once
  the deadline has passed (the arrival loop never sleeps past it), of `EndPhase`, and
  of each session's or lane's steps. The event loop runs ready coroutines in FIFO
  order; an operation that executes comes back because the transports bound every
  attempt and the number of attempts. There is no fairness for arrivals.
* *Barrier*: weak fairness of each worker's own progress, of the receipt of its messages
  and of the parent. The parent polls with a time-out. Faults are not fair.
* *Collector*: both threads run, and a scrape returns, if only with a time-out
  (`urlopen` has one). The clock and the server need not move: `EndReturns` does not
  depend on a boundary ever being due.

The other specifications have safety properties only.

## 5. Proofs

All theorems are checked by TLAPS for every value of the constants that the
assumptions of the modules allow: finitely many tasks, any number of slots and
places, any number of shards, and so on (`SlotAssumption`, `OpenAssumption`,
`ClosedAssumption`, `LifecycleAssumption`, `CollectorAssumption`, `BudgetAssumption`,
`SweepAssumption`, `ReportAssumption`, `TrajectoryAssumption`, `CorporaAssumption`,
`ReplayAssumption`, `WorkloadAssumption`). The barrier needs no more than that `Shard` is a
set. Every invariant that a passing run checks is a theorem, and every property but those
named at the end of this section.

Some of the properties count or sum: over tasks, processes, rows or the elements of a
set. The induction theorems of the library cannot be used for that (they take an operator
as a parameter), so each such argument is by a smallest counterexample: a set of numbers
has a least element (`LeastNumber`), a family of finite sets a smallest one
(`SmallestSet`, from the well-foundedness of the strict subset ordering, which the library
states without parameters). `PartialSums` shows in this way that the recursive equation
behind a fold over a finite set has a solution, `SolutionsAgree` that it has one only, and
`SumSplit` that a sum may be taken apart at any element. The modules that sum repeat these
few lemmas. The recursions along a sequence are treated alike: a text cut into chunks, lists
joined, rows read one after the other (`SplitExists`, `JoinExists`, `ReadsExist`).

*The semaphore.* Both load models stand on the lemmas at the head of their proof modules:
each operation of `GlobalSlots` (`AcquireSlot`, `ReleaseSlot`, `ResumeWithSlot`,
`AbandonWait`) preserves `SlotInv`; the counting arguments (`OwnersCount`, `HandOverSound`)
use the library's theorems about cardinalities.

**`OpenLoop_proofs`**: `TypeCorrect`, `PermitsSafe`, `ReservationsExact`,
`CongestionBounded`, `RefusalsJustified`, `DispatchInTime`, `LanesAlwaysExact`,
`ResultsAlwaysMeasured`, `QueueImplemented`. The invariant `Inv` adds to the stated ones that the reservation
counter never exceeds `C + Q`: without it `RefusedOnlyWhenFull` would not follow, since
the guard of a refusal says only that the counter is *at least* that. One lemma for each
action. For the lanes, `Lanes`: the live sessions of a user with a cap have lanes below
the cap, no two the same, and the occupied lanes are exactly those; the counts are
equal by a bijection. For the results, `Ledger`: what the sessions of the measured phase
took from their plans is recorded or still without a result, and only the deadline takes
an operation away; the phase of a session is that of its results. `QueueImplemented` is the safety part of `BoundedService`: each step
of the loop is a step of `BoundedQueue` or a stutter. It needs that `Semaphore._waiters`
is in order (`InOrder`), from which each place in the queue is that of exactly one waiter
(`RankBijective`); whichever waiters are handed permits, the first ones are served
(`HandOverServes`), and a place that becomes free serves the next one or nobody waits
(`Promotion`).

**`ClosedLoop_proofs`**: `TypeCorrect`, `PermitsSafe`, `ReservationsHonoured`,
`WarmupLeavesNothing`, `BudgetNeverExceeded`, `StoppedRunIsExact`, `ExactlyTheBudget`,
`DispatchInTime`, `BudgetImplemented`. `Books`
ties the budget to the state of the lanes: without a clock every operation taken from
the budget is recorded or pending (`ReservationsKept`), with one at most as many
(`ReservedFirst`), and lanes of a measured phase were born in it (`LiveBorn`), which is
why a result of the warm-up cannot be counted. `StoppedRunIsExact`: a run that stopped
because its budget was spent recorded exactly that many. `ExactlyTheBudget` is the whole of
`ExactlyOps`: `SupplyLeft` says that what was reserved and what the plans of the lanes
still hold make up the supply until somebody raises the stop event, and that a lane
which is done has nothing left. `BudgetImplemented`: the loop implements the
safety part of `OperationBudget` for every budget that is set (`Ops > 0`, also with a
clock), each action as a step of the abstract budget or a stutter; the liveness of
`BudgetSpec` stays with TLC.

**`SnapshotCollector_proofs`**: `SnapshotsAlwaysSound`, `NeverCatchesUp`,
`DeltasAlwaysSound`, `QuantilesAlwaysSound`. A scrape in flight shows no less than what is
stored (`Fresh`), its answer no more than what was served (`Answered`), what is stored is
in order (`Ordered`), and the sampler's next boundary is ahead of the last snapshot it
stored (`Ahead`). For the deltas, `Counted`: between any text and a later one, or the server
now, no bucket grew by more than the requests under its edge, and by as many if there was
no restart (`Recent`, `Follows`). An unbroken series adds up to the window because
differences of neighbours do (`Telescope`). The quantiles need nothing more of the
program: the interpolation stays in the first bucket that covers the rank
(`QuantileForm`), also if the counts below it are no histogram, and for the counts of what
was served that is the bucket of the request of that rank (`NearestRankOf`).

**`Shards_proofs`**: `UsersAlwaysDealt`, `RefusalExplained`, `EnoughPlacesKeepTheCap`,
`LoadAlwaysDivided`, `GroupsAlwaysExact` of the shares; `WindowAlwaysCovered`,
`BarrierTypeCorrect`, `BarrierImplementsWindow` of the barrier.

* The invariant `Decided` says what each process has
  worked out so far by itself; the rest is arithmetic of what they worked out. Quotient and
  remainder of a division dealt to the processes in turn add up to the dividend
  (`SharesSum`) and differ by one at most, on any interval of users too (`SharesEven`,
  `DealtEvenly`). For the groups, the floors of the largest-remainder method leave fewer
  users over than there are groups (`RestFacts`), their ranks are those of a total order
  (`RankBijective`), so that the counts add up to the users (`CountsFacts`) and the blocks
  cut the shuffled users into groups of these sizes (`OneBlock`, `AssignFacts`).
  `EnoughPlacesKeepTheCap` is the condition that `CapKept` lacks: with a cap of at least one
  place for each process no process runs without one.
* `WindowCovered` alone is not inductive: a message in a queue could count a shard that
  has moved on. `BarrierInv` says that an end announcement, on its way or counted, comes
  from a shard that has stopped measuring; that no shard measures before the parent has
  set the start event; that a count starts anew at each boundary; and that all of this is
  claimed only as long as no shard has failed, after which the parent cannot report any
  more. The same invariant carries the refinement of `MeasureWindow`.

**`MemoryGrowth_proofs`**: `ManifestAlwaysHonest`, `CsvNeverAhead`, `ReportsNeverRewritten`,
`RepetitionsComparable`, `ReportsAlwaysHonest`. The
invariant: repetitions but the last have ended, points but the last are complete,
and what is on disk is part of the manifest in memory, or that of the sweep which the
directory belongs to. It holds across kills because a sweep never starts on a directory
that was written to. For `RepetitionsComparable`, `Apart`: what is left on the backend comes
from an earlier sweep or from a repetition of this one that is over, and since memory
counts increase a namespace names one repetition only. For `ReportsAlwaysHonest`,
`Figures`: in memory and on disk every repetition has the outcome of its own checks
(`Outcome`) and every point the bounds of its repetitions (`Bounds`), although only the
last repetition of the last point is ever written.

**`BackendLifecycle_proofs`**: five theorems, their invariants each on top of the ones
before, with kills, late requests and the cleanup included.

* `FoundProjectStays`. While a project that was found exists (`Untouched`), no process is
  past its lookup as if it were missing, none believes to have created it, and no
  create or delete of it is outstanding, also not among the late requests.
* `NobodyPulledAway`. `Secure`: with several processes nobody deletes a shared project
  (`Alone`, from the refusal of that combination); a process that skips `setup` has a
  backend that creates on the first add (`WithoutSetup`); no delete of a project is
  late or outstanding while its process works (`Undisturbed`); so that the project
  stands from the end of `setup` on (`Standing`).
* `CorpusAlwaysLoaded`. `Loading`: the server has all batches before the one a process is
  at, perhaps that one, and no other (`Stocked`, `Progress`), and whatever is stored,
  all that comes before it was stored before it (`Gapless`). That survives a batch that
  is applied twice or late, and gives the order of first occurrences.

* `ErrorsAlwaysTrue`. `Honest`: which answers a process can get as long as nothing fails
  (`Faultless`). A create fails only because another process was faster, which lets its
  second attempt find the project; a project is missing only before the setup and after
  the run.
* `NothingEverLeft`. `Tidiness`: a delete that was answered has taken place once no request
  of the run is on its way (`Deleted`); what a finished process leaves was there before it,
  or it ends with an error (`Left`); a cleanup has still to come to whatever exists
  (`Cleaned`). `Owed`: of a shared project, one process that created it has still to delete
  it.

**`ResultReports_proofs`**: `SeriesMatchesSummary`, `BacklogIsReal`, `SummaryIsTrue`. The
reports are functions of the requests and the stamps, so the invariant says what the run
guarantees of those: a measured phase ends after it began (`PhasesOrdered`), a request
belongs to the measured phase of its shard and ends in it, a refused one takes no time, a
failure has a detail (`Accounted`), and the history counts what was in flight at each tick
(`HistoryTrue`). The rest is counting. The buckets cut the window into disjoint parts, so
that the counts of the rows add up to those of the summary; the backlog of a row, a
difference that is carried over from row to row, is the requests dispatched and not
completed up to its last tick; a percentile has the rank that it should, which takes the
ranks of a strict total order (by latency, then by place) to be one for each place; and
the rows of the error table add up to the failures.

**`Workload_proofs`**: `ReadingIsSound`, `NothingIsLost`, `ConversationsReplayed`,
`CorporaTrue`, `QueriesAreSound`. Each group of variables has an invariant of its own, which
the actions on other groups cannot disturb; `CorporaInv` is their conjunction.

* *Records* (`RecordInv`). While a record is read, the reader's two sets are the calls and
  the observed ids of the messages so far, and no message so far broke a rule
  (`ReadSoFar`): what it accepts in the end is what is well formed by positions.
* *Texts* (`GoodFrom`). From any place on, the chunks that are cut there hold all of the
  text but spaces, in order, begin and end with no space and are no longer than allowed;
  two that touch had no space in reach to be cut at. It uses that the texts are stripped
  (`IsText`), as the reader leaves them.
* *Replay* (`ReplayInv`). The operations of a lane (`LaneOK`) are those of the turns of its
  present conversation that are over, all of them and in order (`OpsKnown`, `OpsThere`,
  `OpsOrdered`), a due search right before its turn is stored, and with the pauses that fit
  (`OpsPaced`); its counters are those of the turns (`Counted`). A lane stays in its own
  conversations, which are those that agree with it modulo the lanes.
* *Reading through the cache* (`CacheOK`, `RowRead`). The kept table is that of the kept
  group or none at all, also after a decoding that failed. Every row read is therefore
  the row asked for, whoever read before; what was taken of a stream is its beginning, and
  all of it unless a read failed or the stream ended (`TakenFacts`).
* *Users and plans* (`CorporaOK`). What was stored or pooled for a user begins its corpus,
  what is kept in memory is all of it, and each has the length asked for (`UserGood`). Of
  the plans, `PlanGood`: each search of a pass is the one that its number says, from which
  a pass is a round trip through the pool (`RoundTrip`) that starts elsewhere than the last
  one (`OffsetsFacts`, with a `Rotation` of two at least); searches come from the pool; and
  the adds are numbered on their own, round the corpus: two equal ones are whole rounds
  apart (`RoundApart`), and every number between is that of some add (`AddFound`).

Only model-checked is liveness, which needs ENABLED: `RunEnds`, `ParentEnds`, `EndReturns`,
and the liveness in `BoundedService` and `BudgetSpec`, whose safety part is proved
(`QueueImplemented`, `BudgetImplemented`).

## 6. Where code and documents disagree

One is shown by a run, `BudgetCap`. `docs/running.md:381` calls `--global-concurrency` the
"maximum total in-flight operations (`0` = no cap)". `_split` (`cli.py:65-84`) gives a
process a share of 0 if the cap is smaller than the number of processes, and the
process reads 0 as no cap.

Others met while modelling, which no run of these modules claims:

* `core/runner.py:248` swallows the failure of a measurement hook, so that a shard
  whose synchronized hook fails never arrives at the barrier, though the docstring at
  `core/multiproc.py:154` speaks of shards that report their errors.
* `core/multiproc.py:169` terminates the sibling processes of one that failed before
  their teardown, though `docs/running.md:550` promises deletion on exit. What they
  leave, a cleanup removes (`NothingLeft`), unless the project is shared:
* `ltm100 cleanup` with a configured `backend.project_id` deletes nothing, since its new
  adapter has created no project, and still reports that it deleted the state
  (`docs/running.md:551`).
* `cli.py:195`: the runner has its users before its scenario is validated, so that a
  refused scenario still tears down users that were never set up.
* The backends disagree on a failed delete: MemMachine's adapters log it and end well,
  those of Mem0 and Supermemory raise (`Forgiven`). An add that arrives after the
  teardown creates the scope or container again (`NothingLeft` excludes lost requests).
* `tools/filter_contract.py:96` says that a project which another client made in between
  is not taken as the tool's own. A comment in the same function (line 117) says that
  an identical create is answered with 201, so that it is, and is deleted in the end.
* `adapters/datasets/nebius.py:277`: a decoding that fails leaves the old group's number
  with no table. Later reads of that group fail with an AttributeError instead of
  decoding it again. `CorpusTrue` shows that no wrong row comes of it.
* An interrupted attempt may end with calls that were not observed. One that ends in the
  result of one of two parallel calls is rejected, since only calls of the very last
  message are excused (`Unobserved`).
* Every session of the open model makes its plan anew from the same seed. With fewer
  operations in a session than queries in the pool, only the first queries are ever
  asked, though `docs/scenarios.md:120-122` explains that the pool is as large as the
  stream so that repeated queries do not warm a cache (`NextSession`).
* `docs/load-models.md:79` says that a closed run with only `--ops N` executes exactly
  N operations. With fewer operations than processes the parent accepts the run and
  one of its processes refuses its share, so that the run fails
  (`RefusedOnlyWhenShort` is the exact condition).
* A counter that was reset and has since passed its old value is reported as a delta;
  `DESIGN.md:387-389` says that resets are detected. `DeltasSound` states what holds:
  such a delta is too small, never too large.
* `DESIGN.md:387` calls a negative delta a counter reset. `diff` also reports a series
  that is listed on one side only as one (its docstring says so): a series which the
  server lists from its first request on is left out of the window it first occurs
  in, with the note of a reset (`IsReset`).
* `core/memory_growth.py:167` speaks of atomic reports; the CSV is rewritten in place
  (`CsvBehind` states what holds).

## 7. What is not modelled

* Prometheus text, label selectors, sums and means of the server-metrics report: one
  histogram stands for all series.
* What a search returns, and the encoding of requests and answers, in all adapters:
  `BackendLifecycle` has the requests that change the server's state. MCP's session
  is I/O.
* The questions that the filter-contract tool asks, and their answers.
* Time stamps, ids, the text of an item, the checks of single fields and the download
  of the datasets; the synthetic generator, which is a seeded generator of random
  text without state that is shared or changes.
* `metrics/report.py`, the parser of `cli.py`, the metadata: layout.
* Rates, means and item counts of the summary: arithmetic on numbers that are
  modelled.
* The distribution of arrivals and think times, random seeds, and wall-clock time.
* The example of workload patterns, which runs `ChatReplay` over a backend that sleeps,
  and the tests.

Hazards that no property covers are in `PROJECT.json` with the reason.

## 8. Plan

Done, in the order of importance: the two load models and the semaphore, the
barrier, the collector, the shares, the life cycle of all backends with kills and the
cleanup, the datasets and all four scenarios up to their operations, the sweep with
its checks and verdicts, the reports; the proofs of section 5, which leave no invariant of a
run without a theorem.

Next, in this order:

1. *Composition*: the runner inside the barrier (a shard's phases as steps of
   `ClosedLoop`), and the collector as the parent's hook, so that the window of the
   server metrics is related to the operations themselves.
2. *More of the system*: label selectors and several series in the collector; the
   groups of the summary.
