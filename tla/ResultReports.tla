---------------------------- MODULE ResultReports ----------------------------
(***************************************************************************)
(* From the operations of a run to its reports: the results that the       *)
(* shards record, the measured window that run_shards pools from theirs,   *)
(* the summary (metrics/aggregate.py) and the time series                  *)
(* (metrics/timeseries.py).                                                *)
(*                                                                         *)
(* Time is cut into ticks, and several things may happen within one.  The  *)
(* order of the results does not matter to the reports: each is kept with  *)
(* its request.  `running` is what really happened, and no part of the     *)
(* program.                                                                *)
(***************************************************************************)
EXTENDS Integers, Sequences, FiniteSetsExt

CONSTANTS Shard,        \* the processes of the run
          Op,           \* the operation types
          MaxRequests,  \* bound: operations of all shards
          MaxClock,     \* bound: ticks
          Interval,     \* --time-series-interval, in ticks
          Known,        \* what a failure can be recognised as
          MaxCauses     \* bound: exceptions in a chain of causes

ASSUME ReportAssumption ==
  /\ {MaxRequests, MaxClock} \subseteq Nat /\ {Interval, MaxCauses} \subseteq Nat \ {0}
  /\ IsFiniteSet(Shard) /\ Shard # {} /\ IsFiniteSet(Op) /\ IsFiniteSet(Known)
  /\ "none" \notin Known

VARIABLES clock,
          phase,    \* phase[s]: before, inside or after its measured phase
          stamps,   \* stamps[s]: its measurement_started_at and _ended_at
          requests, \* the operations of the run, in the order they were started
          running   \* running[t]: operations in flight at the end of tick t

vars == <<clock, phase, stamps, requests, running>>

Status   == {"ok", "error", "rejected"}
Category == Known \cup {"other"}
Request  == [state : Status \cup {"sent"}, shard : Shard, op : Op,
             from : 0 .. clock, to : 0 .. clock, detail : Category \cup {"none"}]
Sent == {i \in DOMAIN requests : requests[i].state = "sent"}

TypeOK ==
  /\ clock \in 0 .. MaxClock
  /\ phase \in [Shard -> {"before", "measuring", "after"}]
  /\ stamps \in [Shard -> [from : 0 .. clock, to : 0 .. clock]]
  /\ requests \in Seq(Request) /\ Len(requests) <= MaxRequests
  /\ \A i \in DOMAIN requests \ Sent : requests[i].from <= requests[i].to
  /\ running \in [0 .. MaxClock -> 0 .. MaxRequests]

Init == /\ clock = 0
        /\ phase = [s \in Shard |-> "before"]
        /\ stamps = [s \in Shard |-> [from |-> 0, to |-> 0]]
        /\ requests = <<>>
        /\ running = [t \in 0 .. MaxClock |-> 0]

-----------------------------------------------------------------------------
(* The run.                                                                *)

Finished == \A s \in Shard : phase[s] = "after"
Over == Finished /\ UNCHANGED vars

Tick == /\ clock < MaxClock /\ ~Finished
        /\ clock' = clock + 1
        /\ running' = [running EXCEPT ![clock] = Cardinality(Sent)]
        /\ UNCHANGED <<phase, stamps, requests>>

\* LoadRunner.run enters its measured phase, and leaves it once it has drained.
Open(s) == /\ phase[s] = "before"
           /\ phase' = [phase EXCEPT ![s] = "measuring"]
           /\ stamps' = [stamps EXCEPT ![s].from = clock]
           /\ UNCHANGED <<clock, requests, running>>

Close(s) == /\ phase[s] = "measuring"
            /\ \A i \in Sent : requests[i].shard # s
            /\ phase' = [phase EXCEPT ![s] = "after"]
            /\ stamps' = [stamps EXCEPT ![s].to = clock]
            /\ UNCHANGED <<clock, requests, running>>

\* Shard s starts an operation.
Emit(s, o, state, to) ==
  /\ phase[s] = "measuring" /\ Len(requests) < MaxRequests
  /\ requests' = Append(requests, [state |-> state, shard |-> s, op |-> o,
                                   from |-> clock, to |-> to, detail |-> "none"])
  /\ UNCHANGED <<clock, phase, stamps, running>>

\* _execute, up to the call of the client.
Send(s, o) == Emit(s, o, "sent", 0)

\* _record_rejected: the queue is full.
Refuse(s, o) == Emit(s, o, "rejected", clock)

\* An exception and its causes.  Each of them is of a known kind, or a transport has
\* annotated it with one, or neither ("other").
Raised == UNION {[1 .. n -> Category] : n \in 1 .. MaxCauses}

\* (mutant of Detail: an exception that is not recognised has no detail)
DetailIfKnown(chain) ==
  LET known == {n \in DOMAIN chain : n <= 8 /\ chain[n] # "other"}
  IN  IF known = {} THEN "none" ELSE chain[Min(known)]

\* error_detail: the first of eight that can be recognised.
Detail(chain) ==
  LET known == {n \in DOMAIN chain : n <= 8 /\ chain[n] # "other"}
  IN  IF known = {} THEN "other" ELSE chain[Min(known)]

Result(i, state, detail) ==
  /\ i \in Sent
  /\ requests' = [requests EXCEPT ![i].state = state, ![i].to = clock, ![i].detail = detail]
  /\ UNCHANGED <<clock, phase, stamps, running>>

\* The call returns, or raises.
Return(i) == Result(i, "ok", "none")
Raise(i) == \E chain \in Raised : Result(i, "error", Detail(chain))

Next == \/ Tick \/ Over
        \/ \E s \in Shard : Open(s) \/ Close(s) \/ \E o \in Op : Send(s, o) \/ Refuse(s, o)
        \/ \E i \in Sent : Return(i) \/ Raise(i)

Spec == Init /\ [][Next]_vars

-----------------------------------------------------------------------------
(* The pooled results and the measured window (run_shards).                *)

Results == DOMAIN requests \ Sent
Origin == Min({stamps[s].from : s \in Shard})

\* (mutant of End: the first shard to end closes the window)
EarliestEnd == Min({stamps[s].to : s \in Shard})

End == Max({stamps[s].to : s \in Shard})
Duration == End - Origin

-----------------------------------------------------------------------------
(* The summary: _aggregate.                                                *)

OfType(o) == {i \in Results : requests[i].op = o}
Ok(S)       == {i \in S : requests[i].state = "ok"}
Rejected(S) == {i \in S : requests[i].state = "rejected"}
Errors(S)   == {i \in S : requests[i].state \notin {"ok", "rejected"}}
Accepted(S) == Cardinality(Ok(S)) + Cardinality(Errors(S))

Wall == IF Results = {} THEN 0
        ELSE Max({requests[i].to : i \in Results}) - Min({requests[i].from : i \in Results})

Latency(i) == requests[i].to - requests[i].from

\* The latencies sorted: at each place the operation with so many before it.
Before(S, i) == {j \in S : Latency(j) < Latency(i) \/ (Latency(j) = Latency(i) /\ j < i)}
Ordered(S) == [n \in 1 .. Cardinality(S) |->
                 CHOOSE i \in S : Cardinality(Before(S, i)) = n - 1]

\* (mutant of Rank: rounded down)
RankBelow(percent, n) == Max({1, Min({n, (percent * n) \div 100})})

\* The nearest rank: ceil(percent / 100 * n), between 1 and n.
Rank(percent, n) == Max({1, Min({n, (percent * n + 99) \div 100})})
Percentile(S, percent) == Latency(Ordered(S)[Rank(percent, Cardinality(S))])

\* _add_error_breakdown: nothing without details; once there are some, failures
\* without one are counted as others.
Broken(S) == IF \E i \in Errors(S) : requests[i].detail # "none" THEN Errors(S) ELSE {}
RowOf(i) == [op |-> requests[i].op,
             category |-> IF requests[i].detail = "none" THEN "other" ELSE requests[i].detail]
RowCount(S, row) == Cardinality({i \in Broken(S) : RowOf(i) = row})
Rows(S) == {RowOf(i) : i \in Broken(S)}

-----------------------------------------------------------------------------
(* The time series: aggregate_timeseries.                                  *)

Buckets == Max({1, (Duration + Interval - 1) \div Interval})

\* (mutant of Bucket: an instant on a boundary belongs to the bucket before it)
BucketBefore(t) == Min({Max({t - Origin - 1, 0}) \div Interval, Buckets - 1})

Bucket(t) == Min({Max({t - Origin, 0}) \div Interval, Buckets - 1})

\* (mutant of Dispatched: rejected requests are counted as started as well)
Everything(S) == S

Dispatched(S) == S \ Rejected(S)

Started(S, k)   == {i \in Dispatched(S) : Bucket(requests[i].from) = k}
Completed(S, k) == {i \in Dispatched(S) : Bucket(requests[i].to) = k}
Row(S, k) == [started    |-> Cardinality(Started(S, k)),
              completed  |-> Cardinality(Completed(S, k)),
              successful |-> Cardinality(Ok(Completed(S, k))),
              errors     |-> Cardinality(Completed(S, k)) - Cardinality(Ok(Completed(S, k))),
              rejected   |-> Cardinality({i \in Rejected(S) : Bucket(requests[i].from) = k})]

Total(f) == MapThenSumSet(LAMBDA x : f[x], DOMAIN f)

\* in_flight is carried from bucket to bucket.
InFlightEnd(S, k) == Total([n \in 0 .. k |-> Row(S, n).started - Row(S, n).completed])

-----------------------------------------------------------------------------
(* Properties.                                                             *)

\* The time series and the summary are made from the same results by different
\* rules; summed over the buckets, every column gives the summary's count, and
\* what was dispatched is what the summary calls accepted.  The pooled window, which
\* the series covers, holds all the results, and so the summary's wall time.
WindowHoldsResults ==
  /\ \A i \in Results : Origin <= requests[i].from /\ requests[i].to <= End
  /\ Wall <= Duration
RowsMatchSummary ==
  Finished => WindowHoldsResults /\ \A o \in Op :
    LET S == OfType(o)
        Sum(column) == Total([k \in 0 .. Buckets - 1 |-> Row(S, k)[column]])
    IN  /\ Sum("started") = Accepted(S) /\ Sum("completed") = Accepted(S)
        /\ Sum("successful") = Cardinality(Ok(S)) /\ Sum("errors") = Cardinality(Errors(S))
        /\ Sum("rejected") = Cardinality(Rejected(S))

\* docs/running.md: a row shows the in-flight requests at the interval boundary.
\* At each boundary inside the window that is the number that really were in
\* flight, over all shards; at its end it is none.
BacklogTrue ==
  Finished => \A k \in 0 .. Buckets - 1 :
    LET reported == Total([o \in Op |-> InFlightEnd(OfType(o), k)])
    IN  reported = IF k = Buckets - 1 THEN 0
                   ELSE running[Origin + (k + 1) * Interval - 1]

\* A percentile is the least latency that so many percent of the successful
\* operations do not exceed.
LatencyRanks ==
  \A o \in Op, percent \in {50, 90, 95, 99} :
    LET S == Ok(OfType(o))
        Within(x) == 100 * Cardinality({i \in S : Latency(i) <= x}) >= percent * Cardinality(S)
    IN  S # {} => /\ Within(Percentile(S, percent))
                  /\ \A i \in S : Within(Latency(i)) => Percentile(S, percent) <= Latency(i)

\* docs/error-reporting.md: the counts of the error breakdown match the number of
\* errors, for every operation type and in all, whatever was raised.
BreakdownReconciles ==
  \A S \in {Results} \cup {OfType(o) : o \in Op} :
    Total([row \in Rows(S) |-> RowCount(S, row)]) = Cardinality(Errors(S))

\* The summary says of the results what they are.
SummaryTrue == TypeOK /\ (Finished => LatencyRanks /\ BreakdownReconciles)
=============================================================================
