---------------------------- MODULE MemoryGrowth ----------------------------
(***************************************************************************)
(* The memory-growth sweep (core/memory_growth.py, run_memory_growth) and  *)
(* the two reports it refreshes after every repetition, manifest.json and  *)
(* summary.csv, when the process may be killed between any two steps and   *)
(* started again on the same output directory; the checks that a sweep     *)
(* makes before it touches anything; and what it makes of a repetition:    *)
(* the pooled pre-ingest counts of its shards, its verdict and the         *)
(* aggregate of its point.                                                 *)
(***************************************************************************)
EXTENDS Naturals, SequencesExt

CONSTANTS User,         \* the virtual users
          MaxPoints,    \* bound: how many memory counts the sweep visits
          MaxItems,     \* bound: a memory count, or the items of a user
          Repetitions,  \* --repetitions
          MaxSweeps     \* bound: how often the sweep is started

ASSUME SweepAssumption ==
  /\ {MaxPoints, MaxItems, Repetitions, MaxSweeps} \subseteq Nat \ {0}
  /\ IsFiniteSet(User) /\ User # {}

VARIABLES args,      \* --memory-counts and --queries-per-user
          items,     \* items[u]: how many memories the dataset has for user u
          pc,        \* where the sweep is
          then,      \* where it goes on after a refresh of the reports
          manifest,  \* the manifest in memory
          disk,      \* manifest.json
          csv,       \* summary.csv
          used,      \* whether anything was written to the output directory
          sweep,     \* the number of the sweep, in place of its random id
          left       \* namespaces of repetitions that left users on the backend

input == <<args, items>>
files == <<disk, csv, used>>
vars == <<input, pc, then, manifest, files, sweep, left>>

Counts == UNION {[1 .. n -> 0 .. MaxItems] : n \in 1 .. MaxPoints}
Points == Len(args.counts)

Verdict == {"ok", "invalid", "failed", "running"}

\* A repetition with its metrics: input_items and, for all the others, qps (0: none).
Repetition == [status : Verdict, items : Nat, qps : 0 .. 2]
Running == [status |-> "running", items |-> 0, qps |-> 0]

Blank == [sweep |-> 0, status |-> "running", points |-> <<>>]
NoFile == <<>>

\* The rows of summary.csv: one for each repetition, with its status and metrics.
RowsOf(m) ==
  [i \in DOMAIN m.points |-> [r \in DOMAIN m.points[i].repetitions |->
                                m.points[i].repetitions[r]]]

Point == [status : Verdict, repetitions : Seq(Repetition), low : 0 .. 2, high : 0 .. 2]
IsManifest(m) == /\ m.sweep \in 0 .. MaxSweeps /\ m.status \in Verdict
                 /\ m.points \in Seq(Point) /\ Len(m.points) <= Points

TypeOK == /\ args \in [counts : Counts, queries : 1 .. MaxItems]
          /\ items \in [User -> 0 .. MaxItems]
          /\ pc \in {"idle", "next", "running", "replace", "truncate", "rows", "closed", "over",
                     "refused"}
          /\ then \in {"next", "closed", "over"}
          /\ IsManifest(manifest) /\ IsManifest(disk)
          /\ used \in BOOLEAN /\ sweep \in 0 .. MaxSweeps
          /\ left \subseteq (1 .. sweep) \X (1 .. MaxItems) \X (1 .. Repetitions)

Init == /\ args \in [counts : Counts, queries : 1 .. MaxItems]
        /\ items \in [User -> 0 .. MaxItems]
        /\ pc = "idle" /\ then = "next" /\ manifest = Blank /\ disk = Blank
        /\ csv = NoFile /\ used = FALSE /\ sweep = 0 /\ left = {}

-----------------------------------------------------------------------------

\* (mutant of Save: the CSV is refreshed and the manifest is not)
CsvOnly(label) == pc' = "truncate" /\ then' = label

\* write_sweep_reports, then on to label.
Save(label) == pc' = "replace" /\ then' = label

\* (mutant of Occupied: an output directory in use is accepted)
IgnoreFiles == FALSE

\* The output directory holds something: a new sweep is refused.
Occupied == used

\* parse_memory_counts: positive and strictly increasing.
Increasing(counts) == /\ \A i \in DOMAIN counts : counts[i] > 0
                      /\ \A i, j \in DOMAIN counts : i < j => counts[i] < counts[j]

\* _validate_args: the smallest memory count holds every query.
ValidArgs == Increasing(args.counts) /\ args.queries <= args.counts[1]

\* (mutant of Fits: only one user is looked at)
OneFits(count) == items[CHOOSE u \in User : TRUE] >= count

\* _validate_dataset_capacity: no user's stream is shorter than that.
Fits(count) == \A u \in User : items[u] >= count

Accepted == ValidArgs /\ ~Occupied /\ Fits(Max(Range(args.counts)))

Start == /\ pc \in {"idle", "over"} /\ sweep < MaxSweeps
         /\ sweep' = sweep + 1
         /\ IF Accepted THEN manifest' = [Blank EXCEPT !.sweep = sweep'] /\ Save("next")
            ELSE pc' = "refused" /\ UNCHANGED <<then, manifest>>
         /\ UNCHANGED <<input, files, left>>

Current == Len(manifest.points)
Runs == IF Current = 0 THEN <<>> ELSE manifest.points[Current].repetitions

\* for memory_count in memory_counts
MorePoints == Current < Points

\* The next repetition, of this point or of the next one.
NewPoint == [status |-> "running", repetitions |-> <<Running>>, low |-> 0, high |-> 0]
Begin == /\ pc = "next"
         /\ \/ /\ Current > 0 /\ Len(Runs) < Repetitions
               /\ manifest' = [manifest EXCEPT !.points[Current].repetitions =
                                                  Append(@, Running)]
            \/ /\ (Current = 0 \/ Len(Runs) = Repetitions) /\ MorePoints
               /\ manifest' = [manifest EXCEPT !.points = Append(@, NewPoint)]
         /\ pc' = "running"
         /\ UNCHANGED <<input, then, files, sweep, left>>

\* (mutant of Namespace: the same for all points)
OfRepetition == <<sweep, args.counts[1], Len(Runs)>>

\* mg_{sweep}_n{count}_r{repetition}_, which prefixes the users of the repetition.
Namespace == <<sweep, args.counts[Current], Len(Runs)>>

\* PreingestStats.
NoUsers == [users |-> 0, items |-> 0, low |-> 0, high |-> 0]
Record(s, count) ==
  [users |-> s.users + 1, items |-> s.items + count,
   low |-> IF s.users = 0 THEN count ELSE Min({s.low, count}), high |-> Max({s.high, count})]
Merge(s, o) ==
  IF o.users = 0 THEN s
  ELSE [users |-> s.users + o.users, items |-> s.items + o.items,
        low |-> IF s.users = 0 THEN o.low ELSE Min({s.low, o.low}),
        high |-> Max({s.high, o.high})]

\* (mutant of Pooled: the last shard's counts are reported)
LastPart(parts) == parts[Len(parts)]

\* run_shards pools the counts of the shards.
Pooled(parts) == FoldLeft(Merge, NoUsers, parts)

\* A shard ingests the same number of memories for each of its users, or raises.
PartOf(users, count) == FoldSet(LAMBDA u, s : Record(s, count), NoUsers, users)

\* Two shards, of which one drives the users in first.
Ingested(first, count) == Pooled(<<PartOf(first, count), PartOf(User \ first, count)>>)

\* What the search operations of a run came to.
Search == [measured : BOOLEAN, errors : BOOLEAN, rejections : BOOLEAN, empty : BOOLEAN]

\* evaluate_repeat: whether there is a reason to call the repetition invalid.
Invalid(stats, search) ==
  \/ ~search.measured \/ search.errors \/ search.rejections \/ search.empty
  \/ stats # [users |-> Cardinality(User), items |-> args.counts[Current] * Cardinality(User),
              low |-> args.counts[Current], high |-> args.counts[Current]]

EvaluateRepeat(stats, search, qps) ==
  [status |-> IF Invalid(stats, search) THEN "invalid" ELSE "ok",
   items |-> IF search.measured THEN stats.items ELSE 0,
   qps |-> IF search.measured THEN qps ELSE 0]

\* (mutant of Valid: invalid repetitions are aggregated as well)
AnyMeasured(repetition) == repetition.qps # 0

\* aggregate_repeats: the bounds of a metric over the valid repetitions.
Valid(repetition) == repetition.status = "ok"
ValidQps(runs) == {runs[r].qps : r \in {r \in DOMAIN runs : Valid(runs[r])}}
Aggregated(point, runs) ==
  [point EXCEPT !.repetitions = runs,
                !.low = IF ValidQps(runs) = {} THEN 0 ELSE Min(ValidQps(runs)),
                !.high = IF ValidQps(runs) = {} THEN 0 ELSE Max(ValidQps(runs))]

Finished(repetition) ==
  /\ manifest' = [manifest EXCEPT !.points[Current] =
                    Aggregated(@, [Runs EXCEPT ![Len(Runs)] = repetition])]
  /\ Save(IF Len(Runs) = Repetitions THEN "closed" ELSE "next")

\* run_one ends well: its shards have ingested their users, and its searches are
\* evaluated.
Finish == /\ pc = "running"
          /\ \E first \in SUBSET User, search \in Search, qps \in 1 .. 2 :
               Finished(EvaluateRepeat(Ingested(first, args.counts[Current]), search, qps))
          /\ UNCHANGED <<input, files, sweep, left>>

\* run_one raises or reports a failure, which is recorded as well; its teardown was
\* best effort.
Fail == /\ pc = "running"
        /\ Finished([Running EXCEPT !.status = "failed"])
        /\ left' \in {left, left \cup {Namespace}}
        /\ UNCHANGED <<input, files, sweep>>

\* (mutant of Combined: the best repetition decides)
LastCounts(verdicts) == IF "ok" \in verdicts THEN "ok"
                        ELSE IF "invalid" \in verdicts THEN "invalid" ELSE "failed"

\* _combined_status.
Combined(verdicts) == IF "failed" \in verdicts THEN "failed"
                      ELSE IF "invalid" \in verdicts THEN "invalid" ELSE "ok"
Statuses(s) == {s[i].status : i \in DOMAIN s}

\* All repetitions of a point are done.
ClosePoint == /\ pc = "closed"
              /\ manifest' = [manifest EXCEPT !.points[Current].status = Combined(Statuses(Runs))]
              /\ Save("next")
              /\ UNCHANGED <<input, files, sweep, left>>

\* All points are done.
Close == /\ pc = "next" /\ Current = Points /\ Len(Runs) = Repetitions
         /\ manifest' = [manifest EXCEPT !.status = Combined(Statuses(manifest.points))]
         /\ Save("over")
         /\ UNCHANGED <<input, files, sweep, left>>

-----------------------------------------------------------------------------
(* write_sweep_reports.                                                    *)

\* The manifest is written to a temporary file (of which only the first matters:
\* the directory is not empty any more) ...
WriteTemporary == /\ pc = "replace" /\ ~used
                  /\ used' = TRUE
                  /\ UNCHANGED <<input, pc, then, manifest, disk, csv, sweep, left>>

\* ... which then replaces the old one.
Replace == /\ pc = "replace" /\ used /\ pc' = "truncate"
           /\ disk' = manifest
           /\ UNCHANGED <<input, then, manifest, csv, used, sweep, left>>

\* The CSV file is opened for writing, and then written.
Truncate == /\ pc = "truncate" /\ pc' = "rows"
            /\ csv' = NoFile
            /\ UNCHANGED <<input, then, manifest, disk, used, sweep, left>>

WriteRows == /\ pc = "rows" /\ pc' = then
             /\ csv' = RowsOf(manifest)
             /\ UNCHANGED <<input, then, manifest, disk, used, sweep, left>>

\* The process is killed: what it had in memory is lost, and the repetition that
\* was running is not torn down.
Crash == /\ pc \notin {"idle", "over", "refused"}
         /\ pc' = "idle" /\ then' = "next" /\ manifest' = Blank
         /\ left' = left \cup (IF pc = "running" THEN {Namespace} ELSE {})
         /\ UNCHANGED <<input, files, sweep>>

\* A sweep that refused its arguments, dataset or output directory exits at once.
Exit == /\ pc = "refused" /\ pc' = "idle"
        /\ UNCHANGED <<input, then, manifest, files, sweep, left>>

Done == pc \in {"idle", "over"} /\ sweep = MaxSweeps /\ UNCHANGED vars

Work == Start \/ Begin \/ Finish \/ Fail \/ ClosePoint \/ Close
Report == WriteTemporary \/ Replace \/ Truncate \/ WriteRows
Next == Work \/ Report \/ Crash \/ Exit \/ Done

Spec == Init /\ [][Next]_vars

-----------------------------------------------------------------------------
(* Properties.                                                             *)

AllOf(m) == UNION {Statuses(m.points[i].repetitions) : i \in DOMAIN m.points}

\* Whenever the process is killed, manifest.json is one that the sweep really
\* had: finished repetitions only, all before the last refresh, and a verdict
\* only if nothing is missing; and the verdict is that of the worst repetition.
ManifestHonest ==
  /\ "running" \notin AllOf(disk)
  /\ \A i \in 1 .. Len(disk.points) - 1 : Len(disk.points[i].repetitions) = Repetitions
  /\ disk.status # "running" =>
       /\ Len(disk.points) = Points
       /\ \A i \in 1 .. Points : Len(disk.points[i].repetitions) = Repetitions
       /\ disk.status = "ok" <=> AllOf(disk) = {"ok"}
       /\ disk.status = "failed" <=> "failed" \in AllOf(disk)

\* The figures of a point are those of its valid repetitions, never of an invalid or
\* failed one, and a measured repetition had the whole corpus of its point.
FiguresHonest ==
  \A i \in DOMAIN disk.points :
    LET point == disk.points[i]
        valid == {r \in DOMAIN point.repetitions : point.repetitions[r].status = "ok"}
    IN  /\ valid = {} => point.low = 0 /\ point.high = 0
        /\ \A r \in valid : point.repetitions[r].qps \in point.low .. point.high
        /\ valid # {} => \E r, q \in valid : /\ point.repetitions[r].qps = point.low
                                             /\ point.repetitions[q].qps = point.high
        /\ \A r \in DOMAIN point.repetitions :
             \/ /\ point.repetitions[r].qps = 0 /\ r \notin valid
                /\ point.repetitions[r].items = 0
             \/ point.repetitions[r].items = args.counts[i] * Cardinality(User)

\* summary.csv shows no repetition that manifest.json does not show with the same
\* outcome, wherever the process is killed, and all of them while the sweep works.
CsvBehind ==
  /\ \A i \in DOMAIN csv : \A r \in DOMAIN csv[i] :
       /\ i \in DOMAIN disk.points
       /\ r \in DOMAIN disk.points[i].repetitions
       /\ disk.points[i].repetitions[r] = csv[i][r]
  /\ pc \in {"next", "running", "closed", "over"} => csv = RowsOf(disk)

\* Wherever the process is killed, both files of the output directory are true: the
\* manifest, its figures, and the CSV.
ReportHonest == TypeOK /\ ManifestHonest /\ FiguresHonest /\ CsvBehind

\* A repetition once reported is never lost, changed or mixed with those of
\* another sweep, whether the sweep goes on, is killed or is started again.
NeverRewritten ==
  [][disk.points # <<>> =>
       /\ disk'.sweep = disk.sweep
       /\ Len(disk.points) <= Len(disk'.points)
       /\ \A i \in DOMAIN disk.points : \A r \in DOMAIN disk.points[i].repetitions :
            /\ r \in DOMAIN disk'.points[i].repetitions
            /\ disk'.points[i].repetitions[r] = disk.points[i].repetitions[r]]_vars

\* Points can be compared: every repetition finds a full corpus of its size for each
\* user, that holds all its queries, and none of the users that an earlier one left
\* behind on the backend.
Comparable ==
  pc = "running" => /\ \A u \in User : items[u] >= args.counts[Current]
                    /\ args.queries <= args.counts[Current]
                    /\ Namespace \notin left
=============================================================================
