-------------------------- MODULE SnapshotCollector --------------------------
(***************************************************************************)
(* The server-metrics snapshots of one run (metrics/server_metrics.py):    *)
(* SnapshotCollector, called by the measure hooks on one thread and        *)
(* sampling on another, while the server counts requests and may restart;  *)
(* and the deltas and quantiles that are reported between its snapshots.   *)
(*                                                                         *)
(* One latency histogram stands for every exported series.  `truth` is the *)
(* bucket of every request it should show, and no part of the program.     *)
(***************************************************************************)
EXTENDS Integers, Sequences, FiniteSetsExt

CONSTANTS Interval,      \* interval_seconds, in ticks; 0 if it is None
          Edges,         \* the finite bucket edges `le` of the histogram
          Inf,           \* the edge +Inf
          MaxClock,      \* bound: ticks
          MaxServed,     \* bound: requests the server handles
          MaxRestarts    \* bound: restarts of the server

ASSUME CollectorAssumption ==
  /\ {Interval, MaxClock, MaxServed, MaxRestarts, Inf} \subseteq Nat
  /\ Edges \subseteq 1 .. Inf - 1

VARIABLES clock,      \* time.monotonic()
          main,       \* where the thread that calls start and end is
          sampler,    \* where _sample_loop is; "off" if not started
          sequence,   \* its next scheduled boundary
          stop,       \* the event _stop
          origin,     \* _started_monotonic
          snapshots,  \* _snapshots
          answer,     \* answer[c]: what the scrape of c got from the server
          counter,    \* the histogram the server exports, cumulative
          exported,   \* FALSE while the server does not list the series
          truth, restarts

vars == <<clock, main, sampler, sequence, stop, origin, snapshots, answer,
          counter, exported, truth, restarts>>
server == <<counter, exported, truth, restarts>>
thread == <<sampler, sequence, origin>>

Caller == {"main", "sampler"}

Bucket == Edges \cup {Inf}
Histogram == [Bucket -> Nat]
Empty == [b \in Bucket |-> 0]

\* The histogram h and one more request, in every bucket that its latency is under.
Observed(h, at) == [b \in Bucket |-> h[b] + (IF at <= b THEN 1 ELSE 0)]

\* What a scrape returns: ok is FALSE when it raised, or got no text.
Nothing == [ok |-> FALSE, exported |-> FALSE, count |-> Empty, truth |-> 0, back |-> FALSE]
Failed  == [Nothing EXCEPT !.back = TRUE]
Answers == [ok : BOOLEAN, exported : BOOLEAN, count : Histogram, truth : Nat, back : BOOLEAN]

Periodic == Interval > 0

TypeOK ==
  /\ clock \in 0 .. MaxClock
  /\ main \in {"setup", "before", "measuring", "joining", "after", "done", "broken"}
  /\ sampler \in {"off", "waiting", "scraping", "storing", "over"}
  /\ sequence \in Nat \ {0} /\ origin \in 0 .. MaxClock
  /\ stop \in BOOLEAN
  /\ \A i \in DOMAIN snapshots : /\ snapshots[i].text \in Answers
                                 /\ snapshots[i].elapsed \in 0 .. clock - origin
  /\ answer \in [Caller -> Answers]
  /\ counter \in Histogram /\ counter[Inf] <= Len(truth) + 1
  /\ exported \in BOOLEAN /\ (~exported => counter = Empty)
  /\ truth \in Seq(Bucket) /\ Len(truth) <= MaxServed /\ restarts \in 0 .. MaxRestarts

\* The server may have handled a request before, slower than every edge.
Init == /\ clock = 0 /\ main = "setup" /\ sampler = "off" /\ sequence = 1
        /\ stop = FALSE /\ origin = 0 /\ snapshots = <<>>
        /\ answer = [c \in Caller |-> Nothing]
        /\ truth = <<>> /\ restarts = 0
        /\ \/ counter = Empty /\ exported \in BOOLEAN
           \/ counter = Observed(Empty, Inf) /\ exported = TRUE

-----------------------------------------------------------------------------
(* The server and the clock, as long as the run lasts.                     *)

Lasts == main \notin {"setup", "done", "broken"}

Tick == /\ Lasts /\ clock < MaxClock
        /\ clock' = clock + 1
        /\ UNCHANGED <<main, sampler, sequence, stop, origin, snapshots, answer, server>>

Serve == /\ Lasts /\ Len(truth) < MaxServed
         /\ \E at \in Bucket :
              /\ truth' = Append(truth, at)
              /\ counter' = Observed(counter, at)
         /\ exported' = TRUE
         /\ UNCHANGED <<clock, main, sampler, sequence, stop, origin, snapshots,
                        answer, restarts>>

\* The process of the server restarts: its counters start from zero again, and
\* a labelled series is not listed before its first request.
Restart == /\ Lasts /\ restarts < MaxRestarts
           /\ restarts' = restarts + 1 /\ counter' = Empty /\ exported' \in BOOLEAN
           /\ UNCHANGED <<clock, main, sampler, sequence, stop, origin, snapshots,
                          answer, truth>>

Scraping(c) == IF c = "main" THEN main \in {"before", "after"} ELSE sampler = "scraping"

\* The server answers the scrape of c, or the scrape fails (_scrape).
Answer(c) ==
  /\ Scraping(c) /\ ~answer[c].back
  /\ \E a \in {[ok |-> TRUE, exported |-> exported, count |-> counter,
                truth |-> Len(truth), back |-> TRUE], Failed} :
       answer' = [answer EXCEPT ![c] = a]
  /\ UNCHANGED <<clock, main, sampler, sequence, stop, origin, snapshots, server>>

\* _append_snapshot with the answer that c got.
Store(c, slot, elapsed) ==
  /\ snapshots' = Append(snapshots, [slot |-> slot, text |-> answer[c], elapsed |-> elapsed])
  /\ answer' = [answer EXCEPT ![c] = Nothing]

-----------------------------------------------------------------------------
(* start, end, and the run between them.                                   *)

\* The time since the start of the window.
Elapsed == clock - origin

BeginStart == /\ main = "setup" /\ main' = "before"
              /\ UNCHANGED <<clock, thread, stop, snapshots, answer, server>>

FinishStart == /\ main = "before" /\ answer["main"].back
               /\ main' = "measuring"
               /\ Store("main", "before", 0)
               /\ origin' = clock
               /\ stop' = (~Periodic /\ stop)
               /\ sampler' = IF Periodic THEN "waiting" ELSE "off"
               /\ UNCHANGED <<clock, sequence, server>>

\* (mutant of BeginEnd: the stop event is not set)
EndWithoutStop == /\ main = "measuring" /\ main' = "joining"
                  /\ UNCHANGED <<clock, thread, stop, snapshots, answer, server>>

BeginEnd == /\ main = "measuring" /\ main' = "joining"
            /\ stop' = TRUE
            /\ UNCHANGED <<clock, thread, snapshots, answer, server>>

\* (mutant of Joined: end does not wait for the thread)
DoNotJoin == TRUE

\* end goes on once the sampler thread is joined.
Joined == sampler \in {"off", "over"}
Join == /\ main = "joining" /\ Joined
        /\ main' = "after"
        /\ UNCHANGED <<clock, thread, stop, snapshots, answer, server>>

FinishEnd == /\ main = "after" /\ answer["main"].back
             /\ main' = "done"
             /\ Store("main", "after", Elapsed)
             /\ UNCHANGED <<clock, thread, stop, server>>

\* The measured phase raises: the run ends without the end hook.
Break == /\ main = "measuring" /\ main' = "broken"
         /\ UNCHANGED <<clock, thread, stop, snapshots, answer, server>>

-----------------------------------------------------------------------------
(* The sampler thread: _sample_loop.                                       *)

Deadline == origin + sequence * Interval

\* The boundary is due, or the wait for it is cut short by the stop event.
Wake == /\ sampler = "waiting"
        /\ \/ stop /\ sampler' = "over"
           \/ ~stop /\ clock >= Deadline /\ sampler' = "scraping"
        /\ UNCHANGED <<clock, main, sequence, stop, origin, snapshots, answer, server>>

\* The scrape returned.  One that comes back after the stop is discarded.
Check == /\ sampler = "scraping" /\ answer["sampler"].back
         /\ sampler' = IF stop THEN "over" ELSE "storing"
         /\ UNCHANGED <<clock, main, sequence, stop, origin, snapshots, answer, server>>

\* (mutant of NextBoundary: missed boundaries are caught up with)
EveryBoundary(elapsed) == sequence + 1

\* The next boundary that is not yet past.
NextBoundary(elapsed) ==
  LET due == (elapsed \div Interval) + 1
  IN  IF due > sequence THEN due ELSE sequence + 1

StoreSample == /\ sampler = "storing" /\ sampler' = "waiting"
               /\ Store("sampler", "interval", Elapsed)
               /\ sequence' = NextBoundary(Elapsed)
               /\ UNCHANGED <<clock, main, stop, origin, server>>

\* The run is over, or the clock and the server have reached their bounds.
Over == main \in {"done", "broken"} /\ UNCHANGED vars

Main == BeginStart \/ FinishStart \/ BeginEnd \/ Join \/ FinishEnd
Sampler == Wake \/ Check \/ StoreSample
World == Tick \/ Serve \/ Restart \/ Break

Next == World \/ Main \/ Sampler \/ (\E c \in Caller : Answer(c)) \/ Over

Spec == Init /\ [][Next]_vars

\* A scrape returns, if only with a time-out, and both threads run.
FairSpec == Spec /\ WF_vars(Main) /\ WF_vars(Sampler)
                 /\ \A c \in Caller : WF_vars(Answer(c))

-----------------------------------------------------------------------------
(* The reports: diff, histogram_delta, quantile, build_report, finish and   *)
(* finish_timeseries, for one histogram.                                   *)

\* (mutant of IsReset: negative deltas are reported)
KeepNegative(from, to) == FALSE

\* A cumulative count fell, or the series is listed on one side only.
IsReset(from, to) == \/ from.exported # to.exported
                     \/ \E b \in Bucket : to.count[b] < from.count[b]

\* build_report: a row has a note, the cumulative delta, and what really
\* happened between the two snapshots.
Row(from, to) ==
  LET delta == [b \in Bucket |-> to.count[b] - from.count[b]]
  IN  [note |-> IF ~(from.ok /\ to.ok) THEN "failed"
                ELSE IF ~(from.exported \/ to.exported) THEN "no data"
                ELSE IF IsReset(from, to) THEN "reset"
                ELSE IF delta[Inf] = 0 THEN "not executed" ELSE "measured",
       delta |-> delta,
       served |-> SubSeq(truth, from.truth + 1, to.truth)]

\* The row of each interval between neighbouring snapshots.
Rows == [i \in 1 .. Len(snapshots) - 1 |-> Row(snapshots[i].text, snapshots[i + 1].text)]

\* The whole window: the first snapshot against the last.
WindowRow == Row(snapshots[1].text, snapshots[Len(snapshots)].text)

AllRows == {Rows[i] : i \in DOMAIN Rows} \cup {WindowRow}
Unfailed == {i \in DOMAIN Rows : Rows[i].note # "failed"}

\* (mutant of SeriesStatus: failed scrapes are not counted)
ValidOnly == IF Unfailed = {} THEN "failed" ELSE "ok"

SeriesStatus == IF Len(snapshots) < 2 \/ Unfailed = {} THEN "failed"
                ELSE IF \E i \in DOMAIN snapshots : ~snapshots[i].text.ok THEN "partial"
                ELSE "ok"

Quantiles == {50, 90, 99}

\* (mutant of Covering: the requests beyond the last edge are forgotten)
FiniteOnly(delta, q) == {le \in Edges : 100 * delta[le] >= q * delta[Max(Edges)]}

\* The finite edges whose bucket covers q per cent of the delta.
Covering(delta, q) == {le \in Edges : 100 * delta[le] >= q * delta[Inf]}

\* prev_le of a bucket: the edge below it, or zero.
LowerEdge(le) == Max({0} \cup {e \in Edges : e < le})

\* quantile: a fraction, interpolated in the first bucket that covers q.
Quantile(delta, q) ==
  LET le    == Min(Covering(delta, q))
      prev  == LowerEdge(le)
      below == IF prev = 0 THEN 0 ELSE delta[prev]
      den   == 100 * (delta[le] - below)
      num   == q * delta[Inf] - 100 * below
  IN  IF den = 0 THEN [num |-> le, den |-> 1]
                 ELSE [num |-> prev * den + (le - prev) * num, den |-> den]

Beyond(delta, q) == Covering(delta, q) = {}

-----------------------------------------------------------------------------
(* Properties.                                                             *)

\* However the two threads interleave, the snapshots of a finished window start
\* with `before`, end with `after`, and are in the order of what they show: no
\* sample that was under way when the window closed ends up behind the final
\* one, so adjacent deltas never overlap.
InOrder ==
  /\ \A i, j \in DOMAIN snapshots :
       i < j => /\ snapshots[i].elapsed <= snapshots[j].elapsed
                /\ snapshots[i].text.ok /\ snapshots[j].text.ok =>
                     snapshots[i].text.truth <= snapshots[j].text.truth
  /\ \A i \in DOMAIN snapshots :
       /\ snapshots[i].slot = "before" <=> i = 1
       /\ snapshots[i].slot = "after" => i = Len(snapshots) /\ main = "done"

SnapshotsSound == TypeOK /\ InOrder

\* A delta that is reported never exceeds what the server did between the two
\* snapshots and is never negative, bucket by bucket, and it is exact unless the
\* server restarted.  If the time series is ok and none of its rows is a reset,
\* its intervals partition the window (test_server_metrics.py:395).
DeltasSound ==
  main = "done" =>
    /\ \A row \in AllRows, b \in Bucket :
         LET done == Cardinality({i \in DOMAIN row.served : row.served[i] <= b})
         IN  row.note \in {"measured", "not executed", "no data"} =>
               /\ row.delta[b] \in 0 .. done
               /\ restarts = 0 => row.delta[b] = done
    /\ SeriesStatus = "ok" /\ (\A i \in DOMAIN Rows : Rows[i].note # "reset") =>
         /\ WindowRow.note \in {"measured", "not executed", "no data"}
         /\ \A b \in Bucket :
              WindowRow.delta[b] = MapThenSumSet(LAMBDA i : Rows[i].delta[b], DOMAIN Rows)

\* The latency of nearest rank: the bucket of the request that ranks at q per cent.
NearestRank(served, q) ==
  CHOOSE b \in Bucket :
    /\ 100 * Cardinality({i \in DOMAIN served : served[i] <= b}) >= q * Len(served)
    /\ 100 * Cardinality({i \in DOMAIN served : served[i] < b}) < q * Len(served)

\* The quantiles of a row that is reported grow with the rank, even if a restart
\* went unnoticed and the bucket deltas are no histogram any more.  Unless the
\* server restarted, each lies in the bucket of the request of that rank, and is
\* left out as beyond the buckets if and only if that request was slower than the
\* last edge.
QuantilesSound ==
  main = "done" =>
    \A row \in AllRows : row.note = "measured" =>
      /\ \A p, q \in Quantiles : p < q =>
           \/ Beyond(row.delta, q)
           \/ LET low  == Quantile(row.delta, p)
                  high == Quantile(row.delta, q)
              IN  ~Beyond(row.delta, p) /\ low.num * high.den <= high.num * low.den
      /\ restarts = 0 => \A q \in Quantiles :
           LET at == NearestRank(row.served, q)
               is == Quantile(row.delta, q)
           IN  IF at = Inf THEN Beyond(row.delta, q)
               ELSE /\ ~Beyond(row.delta, q)
                    /\ is.num <= at * is.den
                    /\ \A e \in Edges \cup {0} : e < at => is.num > e * is.den

\* docs/running.md: a scrape that overran one or more deadlines makes the
\* sampler skip those boundaries.  No scrape starts inside an interval in which
\* the sampler already stored a snapshot.
NoCatchUp ==
  [][sampler = "waiting" /\ sampler' = "scraping" =>
       \A i \in DOMAIN snapshots :
         snapshots[i].slot = "interval" =>
           snapshots[i].elapsed \div Interval < (clock - origin) \div Interval]_vars

\* The end hook returns: the sampler thread it joins always sees the stop.
EndReturns == main = "joining" ~> main = "done"
=============================================================================
