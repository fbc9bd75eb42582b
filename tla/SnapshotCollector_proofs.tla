----------------------- MODULE SnapshotCollector_proofs -----------------------
(***************************************************************************)
(* Proofs that the snapshots of a window are in order however the two      *)
(* threads interleave, that the sampler never catches up with missed       *)
(* boundaries, and that the deltas and quantiles reported between the      *)
(* snapshots are those of what the server did, for every interval,         *)
(* histogram, clock and server.                                            *)
(***************************************************************************)
EXTENDS SnapshotCollector, SequenceTheorems, FiniteSetTheorems, WellFoundedInduction, TLAPS

Snapshot == [slot : {"before", "interval", "after"}, text : Answers, elapsed : Nat]

Types == TypeOK /\ snapshots \in Seq(Snapshot) /\ origin <= clock

\* Where the two threads can be at the same time.
Threads ==
  /\ main \in {"setup", "before"} => sampler = "off" /\ snapshots = <<>>
  /\ main \notin {"setup", "before"} => Len(snapshots) > 0
  /\ main \in {"after", "done"} => sampler \in {"off", "over"}
  /\ sampler # "off" => Periodic

\* The main thread waits for an answer at its two boundaries, the sampler between the
\* two, and no answer outlives its scrape.
Waits(c) == IF c = "main" THEN main \in {"before", "after"}
                          ELSE sampler \in {"scraping", "storing"}
Answered == /\ main \notin {"before", "after"} => ~answer["main"].back
            /\ sampler \in {"off", "waiting"} => ~answer["sampler"].back
            /\ sampler = "storing" => answer["sampler"].back

\* An answer is not older than any snapshot, and newer than no request.
Fresh == /\ \A i \in 1 .. Len(snapshots) :
              snapshots[i].text.ok => snapshots[i].text.truth <= Len(truth)
         /\ \A c \in Caller : Waits(c) /\ answer[c].back /\ answer[c].ok =>
              /\ answer[c].truth <= Len(truth)
              /\ \A i \in 1 .. Len(snapshots) :
                   snapshots[i].text.ok => snapshots[i].text.truth <= answer[c].truth

\* InOrder, over the indices of a sequence.
Ordered ==
  /\ \A i, j \in 1 .. Len(snapshots) :
       i < j => /\ snapshots[i].elapsed <= snapshots[j].elapsed
                /\ snapshots[i].text.ok /\ snapshots[j].text.ok =>
                     snapshots[i].text.truth <= snapshots[j].text.truth
  /\ \A i \in 1 .. Len(snapshots) :
       /\ snapshots[i].slot = "before" <=> i = 1
       /\ snapshots[i].slot = "after" => i = Len(snapshots) /\ main = "done"

\* The sampler has stored nothing in the interval of its next boundary, or later.
Ahead == Periodic => \A i \in 1 .. Len(snapshots) :
           snapshots[i].slot = "interval" => snapshots[i].elapsed \div Interval < sequence

Inv == Types /\ Threads /\ Answered /\ Fresh /\ Ordered /\ Ahead

-----------------------------------------------------------------------------
(* Arithmetic of the boundaries.                                           *)

LEMMA PastBoundary ==
  ASSUME NEW a \in Nat, NEW n \in Nat \ {0}, NEW k \in Nat, a >= k * n
  PROVE  a \div n \in Nat /\ a \div n >= k
<1> DEFINE q == a \div n
<1>1. q \in Nat
  OBVIOUS
<1>2. a < n * (q + 1)
  OBVIOUS
<1> HIDE DEF q
<1>3. ASSUME q + 1 <= k PROVE FALSE
  <2>1. \A x, y \in Nat : x <= y => n * x <= n * y
    OBVIOUS
  <2>2. n * (q + 1) <= n * k
    BY <1>1, <1>3, <2>1
  <2> QED BY <1>1, <1>2, <2>2
<1>4. q >= k
  BY <1>1, <1>3
<1> QED BY <1>1, <1>4 DEF q

LEMMA NextIsLater ==
  ASSUME Periodic, CollectorAssumption, NEW e \in Nat, sequence \in Nat \ {0}
  PROVE  /\ NextBoundary(e) \in Nat \ {0} /\ NextBoundary(e) > sequence
         /\ e \div Interval < NextBoundary(e)
<1>1. Interval \in Nat \ {0}
  BY DEF Periodic, CollectorAssumption
<1>2. e \div Interval \in Nat
  BY <1>1
<1> QED BY <1>2 DEF NextBoundary

-----------------------------------------------------------------------------
(* Types.                                                                  *)

LEMMA Constants ==
  /\ Interval \in Nat /\ MaxClock \in Nat /\ MaxServed \in Nat /\ MaxRestarts \in Nat
  /\ Inf \in Nat /\ Inf \in Bucket
  /\ \A b \in Bucket : b \in Nat /\ b <= Inf
BY CollectorAssumption DEF CollectorAssumption, Bucket

LEMMA AnswerTypes == Nothing \in Answers /\ Failed \in Answers
                     /\ ~Nothing.back /\ Failed.back /\ ~Failed.ok
<1>1. Empty \in Histogram
  BY DEF Empty, Histogram
<1> QED BY <1>1 DEF Nothing, Failed, Answers

LEMMA ObservedType ==
  ASSUME NEW h \in Histogram, NEW at \in Bucket
  PROVE  Observed(h, at) \in Histogram /\ Observed(h, at)[Inf] = h[Inf] + 1
BY Constants DEF Observed, Histogram

LEMMA InitInv == Init => Inv
<1> SUFFICES ASSUME Init PROVE Inv
  OBVIOUS
<1>1. counter \in Histogram /\ counter[Inf] <= 1 /\ (~exported => counter = Empty)
  <2>1. Empty \in Histogram /\ Empty[Inf] = 0
    BY Constants DEF Empty, Histogram
  <2> QED BY <2>1, ObservedType, Constants DEF Init
<1>2. snapshots = <<>> /\ snapshots \in Seq(Snapshot) /\ Len(snapshots) = 0
      /\ truth = <<>> /\ truth \in Seq(Bucket) /\ Len(truth) = 0 /\ DOMAIN snapshots = {}
  BY DEF Init
<1>3. TypeOK
  <2>1. counter \in Histogram /\ counter[Inf] <= Len(truth) + 1
    BY <1>1, <1>2
  <2>2. answer \in [Caller -> Answers]
    BY AnswerTypes DEF Init
  <2>3. \A i \in DOMAIN snapshots : /\ snapshots[i].text \in Answers
                                    /\ snapshots[i].elapsed \in 0 .. clock - origin
    BY <1>2
  <2>4. clock \in 0 .. MaxClock /\ origin \in 0 .. MaxClock /\ restarts \in 0 .. MaxRestarts
        /\ Len(truth) <= MaxServed
    BY <1>2, Constants DEF Init
  <2>5. /\ exported \in BOOLEAN /\ stop \in BOOLEAN /\ sequence = 1 /\ main = "setup"
        /\ sampler = "off"
    BY DEF Init
  <2> QED BY <1>1, <1>2, <2>1, <2>2, <2>3, <2>4, <2>5 DEF TypeOK
<1>4. ~answer["main"].back /\ ~answer["sampler"].back
  BY AnswerTypes DEF Init, Caller
<1> QED BY <1>2, <1>3, <1>4, Constants
        DEF Init, Inv, Types, Threads, Answered, Fresh, Ordered, Ahead, Waits, Caller

\* The snapshots as a sequence.
LEMMA SnapshotsOf ==
  ASSUME Types
  PROVE  /\ Len(snapshots) \in Nat /\ DOMAIN snapshots = 1 .. Len(snapshots)
         /\ \A i \in 1 .. Len(snapshots) :
              /\ snapshots[i] \in Snapshot /\ snapshots[i].elapsed \in 0 .. clock - origin
              /\ snapshots[i].text \in Answers /\ snapshots[i].text.truth \in Nat
BY ElementOfSeq, LenProperties DEF Types, TypeOK, Snapshot, Answers

-----------------------------------------------------------------------------
(* Steps that store no snapshot.                                           *)

\* What such a step has to keep.
LEMMA QuietInv ==
  ASSUME Inv, TypeOK', snapshots' = snapshots, origin' = origin, clock' >= clock,
         Len(truth') >= Len(truth), sequence' = sequence,
         Threads', Answered', main' = "done" <=> main = "done",
         \A c \in Caller : Waits(c)' /\ answer'[c].back /\ answer'[c].ok =>
           \/ answer'[c].truth = Len(truth')
           \/ Waits(c) /\ answer[c] = answer'[c]
  PROVE  Inv'
<1>1. Len(truth) \in Nat /\ Len(truth') \in Nat /\ clock \in Nat /\ clock' \in Nat /\ origin \in Nat
  BY Constants, LenProperties DEF Inv, Types, TypeOK
<1>2. Types'
  BY <1>1 DEF Inv, Types
<1>3. Fresh'
  <2>1. \A i \in 1 .. Len(snapshots) :
          snapshots[i].text.ok => snapshots[i].text.truth <= Len(truth')
    BY <1>1, SnapshotsOf DEF Inv, Fresh
  <2>2. ASSUME NEW c \in Caller, Waits(c)', answer'[c].back, answer'[c].ok
        PROVE  /\ answer'[c].truth <= Len(truth')
               /\ \A i \in 1 .. Len(snapshots) :
                    snapshots[i].text.ok => snapshots[i].text.truth <= answer'[c].truth
    <3>1. CASE answer'[c].truth = Len(truth')
      BY <1>1, <2>1, <3>1
    <3>2. CASE Waits(c) /\ answer[c] = answer'[c]
      <4>1. answer[c].truth <= Len(truth) /\ answer[c].truth \in Nat
        BY <2>2, <3>2 DEF Inv, Fresh, Types, TypeOK, Answers
      <4> QED BY <1>1, <2>2, <3>2, <4>1 DEF Inv, Fresh
    <3> QED BY <2>2, <3>1, <3>2
  <2> QED BY <2>1, <2>2 DEF Fresh
<1>4. Ordered' /\ Ahead'
  BY DEF Inv, Ordered, Ahead, Periodic
<1> QED BY <1>2, <1>3, <1>4 DEF Inv

LEMMA WorldInv == ASSUME Inv, World PROVE Inv'
<1>. TypeOK /\ Threads /\ Answered
  BY DEF Inv, Types
<1>. Len(truth) \in Nat /\ clock \in Nat
  BY LenProperties DEF TypeOK
<1>1. CASE Tick
  <2>1. TypeOK'
    BY <1>1, Constants DEF Tick, TypeOK, server
  <2> QED BY <1>1, <2>1, QuietInv DEF Tick, Threads, Answered, server, Waits, Periodic
<1>2. CASE Serve
  <2>1. PICK at \in Bucket : truth' = Append(truth, at) /\ counter' = Observed(counter, at)
    BY <1>2 DEF Serve
  <2>2. truth' \in Seq(Bucket) /\ Len(truth') = Len(truth) + 1
    BY <2>1, AppendProperties DEF TypeOK
  <2>3. /\ counter' \in Histogram /\ counter'[Inf] = counter[Inf] + 1
        /\ counter[Inf] \in Nat
    BY <2>1, ObservedType, Constants DEF TypeOK, Histogram
  <2>4. TypeOK'
    BY <1>2, <2>2, <2>3, Constants DEF Serve, TypeOK
  <2> QED BY <1>2, <2>2, <2>4, QuietInv DEF Serve, Threads, Answered, Waits, Periodic
<1>3. CASE Restart
  <2>1. counter' \in Histogram /\ counter'[Inf] = 0
    BY <1>3, Constants DEF Restart, Empty, Histogram
  <2>2. TypeOK'
    BY <1>3, <2>1, Constants DEF Restart, TypeOK
  <2> QED BY <1>3, <2>2, QuietInv DEF Restart, Threads, Answered, Waits, Periodic
<1>4. CASE Break
  <2>1. TypeOK'
    BY <1>4 DEF Break, TypeOK, thread, server
  <2> QED BY <1>4, <2>1, QuietInv DEF Break, Threads, Answered, thread, server, Waits, Periodic
<1> QED BY <1>1, <1>2, <1>3, <1>4 DEF World

LEMMA AnswerInv == ASSUME Inv, NEW c \in Caller, Answer(c) PROVE Inv'
<1>. TypeOK /\ Threads /\ Answered
  BY DEF Inv, Types
<1>. Len(truth) \in Nat /\ clock \in Nat
  BY LenProperties DEF TypeOK
<1>1. PICK a \in {[ok |-> TRUE, exported |-> exported, count |-> counter,
                   truth |-> Len(truth), back |-> TRUE], Failed} :
        answer' = [answer EXCEPT ![c] = a]
  BY DEF Answer
<1>2. a \in Answers /\ (a.ok => a.truth = Len(truth))
  <2>1. CASE a = Failed
    BY <2>1, AnswerTypes
  <2>2. CASE a = [ok |-> TRUE, exported |-> exported, count |-> counter,
                  truth |-> Len(truth), back |-> TRUE]
    <3>1. exported \in BOOLEAN /\ counter \in Histogram /\ Len(truth) \in Nat
      BY DEF TypeOK
    <3>2. a.ok = TRUE /\ a.truth = Len(truth)
      BY <2>2
    <3>3. a \in Answers
      BY <2>2, <3>1 DEF Answers
    <3> QED BY <3>2, <3>3
  <2> QED BY <2>1, <2>2
<1>3. TypeOK'
  BY <1>1, <1>2 DEF Answer, TypeOK, server
<1>4. Answered' /\ Threads'
  BY <1>1 DEF Answer, Scraping, Answered, Threads, Caller, TypeOK, Periodic, server
<1>5. \A d \in Caller : Waits(d)' /\ answer'[d].back /\ answer'[d].ok =>
        \/ answer'[d].truth = Len(truth')
        \/ Waits(d) /\ answer[d] = answer'[d]
  BY <1>1, <1>2 DEF Answer, Waits, TypeOK, server
<1> QED BY <1>3, <1>4, <1>5, QuietInv DEF Answer, server

LEMMA TurnInv ==
  ASSUME Inv, BeginStart \/ BeginEnd \/ Join \/ Wake \/ Check \/ Over \/ UNCHANGED vars
  PROVE  Inv'
<1>. TypeOK /\ Threads /\ Answered
  BY DEF Inv, Types
<1>. Len(truth) \in Nat /\ clock \in Nat
  BY LenProperties DEF TypeOK
<1>1. CASE BeginStart
  <2>1. TypeOK'
    BY <1>1 DEF BeginStart, TypeOK, thread, server
  <2> QED BY <1>1, <2>1, QuietInv
          DEF BeginStart, Threads, Answered, thread, server, Waits, Periodic
<1>2. CASE BeginEnd
  <2>1. TypeOK'
    BY <1>2 DEF BeginEnd, TypeOK, thread, server
  <2> QED BY <1>2, <2>1, QuietInv
          DEF BeginEnd, Threads, Answered, thread, server, Waits, Periodic
<1>3. CASE Join
  <2>1. TypeOK'
    BY <1>3 DEF Join, TypeOK, thread, server
  <2> QED BY <1>3, <2>1, QuietInv
          DEF Join, Joined, Threads, Answered, thread, server, Waits, Periodic
<1>4. CASE Wake
  <2>1. TypeOK'
    BY <1>4 DEF Wake, TypeOK, server
  <2> QED BY <1>4, <2>1, QuietInv DEF Wake, Threads, Answered, server, Waits, Periodic, Caller
<1>5. CASE Check
  <2>1. TypeOK'
    BY <1>5 DEF Check, TypeOK, server
  <2> QED BY <1>5, <2>1, QuietInv DEF Check, Threads, Answered, server, Waits, Periodic
<1>6. CASE Over \/ UNCHANGED vars
  <2>1. UNCHANGED vars
    BY <1>6 DEF Over
  <2>2. TypeOK'
    BY <2>1 DEF vars, TypeOK
  <2> QED BY <2>1, <2>2, QuietInv DEF vars, Threads, Answered, Waits, Periodic
<1> QED BY <1>1, <1>2, <1>3, <1>4, <1>5, <1>6

-----------------------------------------------------------------------------
(* Steps that store one.                                                   *)

LEMMA StoreKeeps ==
  ASSUME Inv, NEW c \in Caller, Waits(c), answer[c].back,
         NEW slot \in {"before", "interval", "after"}, NEW elapsed \in Nat,
         Store(c, slot, elapsed), truth' = truth,
         slot = "before" <=> snapshots = <<>>,
         \A i \in 1 .. Len(snapshots) : snapshots[i].elapsed <= elapsed,
         slot = "after" <=> main' = "done", main # "done",
         \A d \in Caller \ {c} : ~Waits(d)'
  PROVE  /\ snapshots' \in Seq(Snapshot) /\ Len(snapshots') = Len(snapshots) + 1
         /\ \A i \in 1 .. Len(snapshots) : snapshots'[i] = snapshots[i]
         /\ snapshots'[Len(snapshots) + 1] = [slot |-> slot, text |-> answer[c],
                                              elapsed |-> elapsed]
         /\ DOMAIN snapshots' = 1 .. Len(snapshots) + 1
         /\ answer' \in [Caller -> Answers] /\ ~answer'[c].back
         /\ \A d \in Caller \ {c} : answer'[d] = answer[d]
         /\ Fresh' /\ Ordered'
<1> DEFINE new == [slot |-> slot, text |-> answer[c], elapsed |-> elapsed]
<1>1. Types /\ TypeOK /\ answer \in [Caller -> Answers] /\ Len(snapshots) \in Nat
  BY SnapshotsOf DEF Inv, Types, TypeOK
<1>2. new \in Snapshot
  BY <1>1 DEF Snapshot
<1>3. /\ snapshots' \in Seq(Snapshot) /\ Len(snapshots') = Len(snapshots) + 1
      /\ \A i \in 1 .. Len(snapshots) : snapshots'[i] = snapshots[i]
      /\ snapshots'[Len(snapshots) + 1] = new
  BY <1>1, <1>2, AppendProperties DEF Store, Types
<1>4. DOMAIN snapshots' = 1 .. Len(snapshots) + 1
  BY <1>3, LenProperties
<1>5. /\ answer' \in [Caller -> Answers] /\ ~answer'[c].back
      /\ \A d \in Caller \ {c} : answer'[d] = answer[d]
  BY <1>1, AnswerTypes DEF Store
<1>6. answer[c].ok => /\ answer[c].truth <= Len(truth)
                      /\ \A i \in 1 .. Len(snapshots) :
                           snapshots[i].text.ok => snapshots[i].text.truth <= answer[c].truth
  BY DEF Inv, Fresh
<1>7. Fresh'
  <2>1. \A i \in 1 .. Len(snapshots') :
          snapshots'[i].text.ok => snapshots'[i].text.truth <= Len(truth')
    BY <1>1, <1>3, <1>6 DEF Inv, Fresh
  <2>2. \A d \in Caller : ~(Waits(d)' /\ answer'[d].back)
    BY <1>5
  <2> QED BY <2>1, <2>2 DEF Fresh
<1>8. Ordered'
  <2>1. ASSUME NEW i \in 1 .. Len(snapshots'), NEW j \in 1 .. Len(snapshots'), i < j
        PROVE  /\ snapshots'[i].elapsed <= snapshots'[j].elapsed
               /\ snapshots'[i].text.ok /\ snapshots'[j].text.ok =>
                    snapshots'[i].text.truth <= snapshots'[j].text.truth
    <3>1. i \in 1 .. Len(snapshots) /\ snapshots'[i] = snapshots[i]
      BY <1>1, <1>3, <2>1
    <3>2. CASE j = Len(snapshots) + 1
      BY <1>3, <1>6, <3>1, <3>2
    <3>3. CASE j # Len(snapshots) + 1
      <4>1. j \in 1 .. Len(snapshots) /\ snapshots'[j] = snapshots[j]
        BY <1>1, <1>3, <3>3
      <4> QED BY <2>1, <3>1, <4>1 DEF Inv, Ordered
    <3> QED BY <3>2, <3>3
  <2>2. ASSUME NEW i \in 1 .. Len(snapshots')
        PROVE  /\ snapshots'[i].slot = "before" <=> i = 1
               /\ snapshots'[i].slot = "after" => i = Len(snapshots') /\ main' = "done"
    <3>1. CASE i = Len(snapshots) + 1
      <4>1. Len(snapshots) = 0 <=> snapshots = <<>>
        BY <1>1, EmptySeq DEF Types
      <4> QED BY <1>1, <1>3, <3>1, <4>1
    <3>2. CASE i # Len(snapshots) + 1
      <4>1. i \in 1 .. Len(snapshots) /\ snapshots'[i] = snapshots[i]
        BY <1>1, <1>3, <3>2
      <4> QED BY <4>1 DEF Inv, Ordered
    <3> QED BY <3>1, <3>2
  <2> QED BY <2>1, <2>2 DEF Ordered
<1> QED BY <1>3, <1>4, <1>5, <1>7, <1>8

LEMMA FinishStartInv == ASSUME Inv, FinishStart PROVE Inv'
<1>. /\ TypeOK /\ Types /\ main = "before" /\ main' = "measuring" /\ answer["main"].back
     /\ Store("main", "before", 0) /\ origin' = clock /\ sampler = "off" /\ snapshots = <<>>
     /\ sampler' = (IF Periodic THEN "waiting" ELSE "off")
     /\ stop' = (~Periodic /\ stop)
     /\ UNCHANGED <<clock, sequence, server>>
  BY DEF FinishStart, Inv, Types, Threads
<1>1. Len(snapshots) = 0 /\ "main" \in Caller /\ Waits("main") /\ truth' = truth
  BY DEF Waits, Caller, server
<1>2. \A d \in Caller \ {"main"} : ~Waits(d)'
  BY DEF Waits, Caller
<1>3. /\ snapshots' \in Seq(Snapshot) /\ Len(snapshots') = 1
      /\ snapshots'[1] = [slot |-> "before", text |-> answer["main"], elapsed |-> 0]
      /\ DOMAIN snapshots' = 1 .. 1
      /\ answer' \in [Caller -> Answers] /\ ~answer'["main"].back
      /\ Fresh' /\ Ordered'
  BY <1>1, <1>2, StoreKeeps
<1>4. clock' \in 0 .. MaxClock /\ clock \in Nat
  BY DEF TypeOK
<1>5. TypeOK'
  <2>1. clock' - origin' = 0 /\ answer["main"] \in Answers
    BY <1>1, <1>4 DEF TypeOK
  <2>2. \A i \in DOMAIN snapshots' : /\ snapshots'[i].text \in Answers
                                     /\ snapshots'[i].elapsed \in 0 .. clock' - origin'
    BY <1>3, <2>1
  <2>3. sampler' \in {"waiting", "off"} /\ stop' \in BOOLEAN
    BY DEF TypeOK
  <2> QED BY <1>3, <1>4, <2>2, <2>3 DEF TypeOK, server
<1>6. ~answer'["sampler"].back
  <2>1. ~answer["sampler"].back
    BY DEF Inv, Answered
  <2> QED BY <1>1, <2>1 DEF Store, Caller, TypeOK
<1>7. Threads' /\ Answered'
  BY <1>3, <1>6 DEF Threads, Answered, Periodic
<1>8. Types' /\ Ahead'
  BY <1>3, <1>4, <1>5 DEF Types, Ahead
<1> QED BY <1>3, <1>7, <1>8 DEF Inv

LEMMA ElapsedBound ==
  ASSUME Types
  PROVE  /\ Elapsed \in Nat /\ Elapsed = clock - origin
         /\ \A i \in 1 .. Len(snapshots) : snapshots[i].elapsed <= Elapsed
BY SnapshotsOf DEF Types, TypeOK, Elapsed

LEMMA FinishEndInv == ASSUME Inv, FinishEnd PROVE Inv'
<1>. /\ TypeOK /\ Types /\ main = "after" /\ main' = "done" /\ answer["main"].back
     /\ Store("main", "after", Elapsed) /\ sampler \in {"off", "over"}
     /\ UNCHANGED <<clock, thread, stop, server>>
  BY DEF FinishEnd, Inv, Types, Threads
<1>1. Len(snapshots) > 0 /\ "main" \in Caller /\ Waits("main") /\ truth' = truth
  BY DEF Waits, Caller, server, Inv, Threads
<1>2. \A d \in Caller \ {"main"} : ~Waits(d)'
  BY DEF Waits, Caller, thread
<1>3. snapshots # <<>> /\ Len(snapshots) \in Nat
  BY <1>1, SnapshotsOf
<1>4. /\ snapshots' \in Seq(Snapshot) /\ Len(snapshots') = Len(snapshots) + 1
      /\ \A i \in 1 .. Len(snapshots) : snapshots'[i] = snapshots[i]
      /\ snapshots'[Len(snapshots) + 1] = [slot |-> "after", text |-> answer["main"],
                                           elapsed |-> Elapsed]
      /\ DOMAIN snapshots' = 1 .. Len(snapshots) + 1
      /\ answer' \in [Caller -> Answers] /\ ~answer'["main"].back
      /\ answer'["sampler"] = answer["sampler"]
      /\ Fresh' /\ Ordered'
  <2>1. "sampler" \in Caller \ {"main"}
    BY DEF Caller
  <2> QED BY <1>1, <1>2, <1>3, <2>1, ElapsedBound, StoreKeeps
<1>5. TypeOK'
  <2>1. \A i \in DOMAIN snapshots' : /\ snapshots'[i].text \in Answers
                                     /\ snapshots'[i].elapsed \in 0 .. clock' - origin'
    <3>1. ASSUME NEW i \in 1 .. Len(snapshots)
          PROVE  snapshots[i].text \in Answers /\ snapshots[i].elapsed \in 0 .. clock - origin
      BY SnapshotsOf
    <3>2. Elapsed \in 0 .. clock - origin /\ answer["main"] \in Answers
      BY <1>1, ElapsedBound DEF TypeOK
    <3> QED BY <1>3, <1>4, <3>1, <3>2 DEF thread
  <2> QED BY <1>4, <2>1 DEF TypeOK, server, thread
<1>6. Threads' /\ Answered'
  BY <1>3, <1>4 DEF Inv, Threads, Answered, Periodic, thread
<1>7. Types' /\ Ahead'
  BY <1>3, <1>4, <1>5 DEF Inv, Types, Ahead, thread, Periodic
<1> QED BY <1>4, <1>6, <1>7 DEF Inv

LEMMA StoreSampleInv == ASSUME Inv, StoreSample PROVE Inv'
<1>. /\ TypeOK /\ Types /\ sampler = "storing" /\ sampler' = "waiting" /\ Periodic
     /\ Store("sampler", "interval", Elapsed) /\ sequence' = NextBoundary(Elapsed)
     /\ main \notin {"setup", "before", "after", "done"}
     /\ UNCHANGED <<clock, main, stop, origin, server>>
  BY DEF StoreSample, Inv, Types, Threads
<1>1. Len(snapshots) > 0 /\ "sampler" \in Caller /\ Waits("sampler") /\ truth' = truth
  BY DEF Waits, Caller, server, Inv, Threads
<1>2. \A d \in Caller \ {"sampler"} : ~Waits(d)'
  BY DEF Waits, Caller
<1>3. snapshots # <<>> /\ Len(snapshots) \in Nat /\ Elapsed \in Nat
  BY <1>1, SnapshotsOf, ElapsedBound
<1>4. answer["sampler"].back
  BY DEF Inv, Answered
<1>5. /\ snapshots' \in Seq(Snapshot) /\ Len(snapshots') = Len(snapshots) + 1
      /\ \A i \in 1 .. Len(snapshots) : snapshots'[i] = snapshots[i]
      /\ snapshots'[Len(snapshots) + 1] = [slot |-> "interval", text |-> answer["sampler"],
                                           elapsed |-> Elapsed]
      /\ DOMAIN snapshots' = 1 .. Len(snapshots) + 1
      /\ answer' \in [Caller -> Answers] /\ ~answer'["sampler"].back
      /\ answer'["main"] = answer["main"]
      /\ Fresh' /\ Ordered'
  <2>1. "main" \in Caller \ {"sampler"}
    BY DEF Caller
  <2> QED BY <1>1, <1>2, <1>3, <1>4, <2>1, ElapsedBound, StoreKeeps
<1>6. /\ sequence' \in Nat \ {0} /\ sequence' > sequence
      /\ Elapsed \div Interval < sequence' /\ sequence \in Nat
  BY <1>3, NextIsLater, CollectorAssumption DEF TypeOK
<1>7. TypeOK'
  <2>1. \A i \in DOMAIN snapshots' : /\ snapshots'[i].text \in Answers
                                     /\ snapshots'[i].elapsed \in 0 .. clock' - origin'
    <3>1. ASSUME NEW i \in 1 .. Len(snapshots)
          PROVE  snapshots[i].text \in Answers /\ snapshots[i].elapsed \in 0 .. clock - origin
      BY SnapshotsOf
    <3>2. Elapsed \in 0 .. clock - origin /\ answer["sampler"] \in Answers
      BY <1>1, ElapsedBound DEF TypeOK
    <3> QED BY <1>3, <1>5, <3>1, <3>2
  <2> QED BY <1>5, <1>6, <2>1 DEF TypeOK, server
<1>8. Threads' /\ Answered'
  BY <1>3, <1>5 DEF Inv, Threads, Answered, Periodic
<1>9. Ahead'
  <2>1. ASSUME NEW i \in 1 .. Len(snapshots'), snapshots'[i].slot = "interval"
        PROVE  snapshots'[i].elapsed \div Interval < sequence'
    <3>1. CASE i = Len(snapshots) + 1
      BY <1>5, <1>6, <3>1
    <3>2. CASE i # Len(snapshots) + 1
      <4>1. i \in 1 .. Len(snapshots) /\ snapshots'[i] = snapshots[i]
        BY <1>3, <1>5, <3>2
      <4>2. snapshots[i].elapsed \div Interval < sequence
        BY <2>1, <4>1 DEF Inv, Ahead
      <4>3. snapshots[i].elapsed \in Nat /\ Interval \in Nat \ {0}
        BY <4>1, SnapshotsOf, Constants DEF Periodic, Snapshot
      <4>4. snapshots[i].elapsed \div Interval \in Nat
        BY <4>3
      <4> QED BY <1>6, <4>1, <4>2, <4>4
    <3> QED BY <3>1, <3>2
  <2> QED BY <2>1 DEF Ahead
<1>10. Types'
  BY <1>5, <1>7 DEF Types
<1> QED BY <1>5, <1>8, <1>9, <1>10 DEF Inv

-----------------------------------------------------------------------------
(* The theorems.                                                           *)

LEMMA NextInv == Inv /\ [Next]_vars => Inv'
BY WorldInv, AnswerInv, TurnInv, FinishStartInv, FinishEndInv, StoreSampleInv
   DEF Next, Main, Sampler

LEMMA InvAlways == Spec => []Inv
BY InitInv, NextInv, PTL DEF Spec

\* Whatever the order in which the main thread and _sample_loop take their steps, the
\* stored snapshots are in the order of what they show, from `before` to `after`.
THEOREM SnapshotsAlwaysSound == Spec => []SnapshotsSound
<1>1. Inv => SnapshotsSound
  <2> SUFFICES ASSUME Inv PROVE SnapshotsSound
    OBVIOUS
  <2>1. TypeOK /\ DOMAIN snapshots = 1 .. Len(snapshots)
    BY SnapshotsOf DEF Inv, Types
  <2> QED BY <2>1 DEF SnapshotsSound, InOrder, Inv, Ordered
<1> QED BY <1>1, InvAlways, PTL

LEMMA WakeIsLater ==
  ASSUME Inv, [Next]_vars, sampler = "waiting", sampler' = "scraping",
         NEW i \in DOMAIN snapshots, snapshots[i].slot = "interval"
  PROVE  snapshots[i].elapsed \div Interval < (clock - origin) \div Interval
<1>1. Types /\ Periodic /\ i \in 1 .. Len(snapshots)
  BY SnapshotsOf DEF Inv, Threads
<1>2. Wake
  BY DEF Next, World, Main, Sampler, Tick, Serve, Restart, Break, BeginStart, FinishStart,
         BeginEnd, Join, FinishEnd, Wake, Check, StoreSample, Answer, Over, vars, thread
<1>3. /\ clock >= Deadline /\ clock \in Nat /\ origin \in Nat /\ origin <= clock
      /\ sequence \in Nat /\ Interval \in Nat \ {0}
  BY <1>1, <1>2, Constants DEF Wake, Types, TypeOK, Periodic
<1>4. clock - origin \in Nat /\ sequence * Interval \in Nat
      /\ clock - origin >= sequence * Interval
  BY <1>3 DEF Deadline
<1>5. (clock - origin) \div Interval \in Nat /\ (clock - origin) \div Interval >= sequence
  BY <1>3, <1>4, PastBoundary
<1>6. snapshots[i].elapsed \div Interval < sequence /\ snapshots[i].elapsed \in Nat
  BY <1>1, SnapshotsOf DEF Inv, Ahead, Snapshot
<1>7. snapshots[i].elapsed \div Interval \in Nat
  BY <1>3, <1>6
<1> QED BY <1>3, <1>5, <1>6, <1>7

\* However long a scrape takes, _sample_loop starts none in an interval in which it has
\* already stored a snapshot.
THEOREM NeverCatchesUp == Spec => NoCatchUp
<1>1. Inv /\ [Next]_vars =>
        [sampler = "waiting" /\ sampler' = "scraping" =>
           \A i \in DOMAIN snapshots : snapshots[i].slot = "interval" =>
             snapshots[i].elapsed \div Interval < (clock - origin) \div Interval]_vars
  BY WakeIsLater
<1> QED BY <1>1, InvAlways, PTL DEF Spec, NoCatchUp

-----------------------------------------------------------------------------
(* Deltas: how many requests are under an edge.                            *)

\* The requests under edge b among the first n of s.
Hits(s, b, n) == Cardinality({i \in 1 .. n : s[i] <= b})

LEMMA HitsType ==
  ASSUME NEW s, NEW b, NEW n \in Nat
  PROVE  IsFiniteSet({i \in 1 .. n : s[i] <= b}) /\ Hits(s, b, n) \in Nat
<1>1. IsFiniteSet(1 .. n)
  BY FS_Interval
<1>2. IsFiniteSet({i \in 1 .. n : s[i] <= b})
  BY <1>1, FS_Subset
<1> QED BY <1>2, FS_CardinalityType DEF Hits

\* One more request counts under the edges above it.
LEMMA HitsMore ==
  ASSUME NEW s \in Seq(Bucket), NEW at \in Bucket, NEW b \in Bucket
  PROVE  /\ \A n \in 0 .. Len(s) : Hits(Append(s, at), b, n) = Hits(s, b, n)
         /\ Hits(Append(s, at), b, Len(s) + 1) = Hits(s, b, Len(s)) + (IF at <= b THEN 1 ELSE 0)
<1> DEFINE t == Append(s, at)
           Under(r, n) == {i \in 1 .. n : r[i] <= b}
<1>1. Len(s) \in Nat /\ t[Len(s) + 1] = at /\ \A i \in 1 .. Len(s) : t[i] = s[i]
  BY AppendProperties, LenProperties
<1> HIDE DEF t
<1>2. ASSUME NEW n \in 0 .. Len(s) PROVE Hits(t, b, n) = Hits(s, b, n)
  <2>1. Under(t, n) = Under(s, n)
    BY <1>1
  <2> QED BY <2>1 DEF Hits
<1>3. Hits(t, b, Len(s) + 1) = Hits(s, b, Len(s)) + (IF at <= b THEN 1 ELSE 0)
  <2> DEFINE old == Under(s, Len(s))
             new == Under(t, Len(s) + 1)
  <2>1. IsFiniteSet(old) /\ Cardinality(old) \in Nat
    BY <1>1, HitsType DEF Hits
  <2>2. Len(s) + 1 \notin old
    BY <1>1
  <2>3. new = IF at <= b THEN old \cup {Len(s) + 1} ELSE old
    BY <1>1
  <2>4. Hits(t, b, Len(s) + 1) = Cardinality(new) /\ Hits(s, b, Len(s)) = Cardinality(old)
    BY DEF Hits
  <2> HIDE DEF old, new
  <2>5. Cardinality(old \cup {Len(s) + 1}) = Cardinality(old) + 1
    BY <2>1, <2>2, FS_AddElement
  <2> QED BY <2>1, <2>3, <2>4, <2>5
<1> QED BY <1>2, <1>3 DEF t

\* Those of a subsequence are those up to its end less those before it.
LEMMA HitsBetween ==
  ASSUME NEW s \in Seq(Bucket), NEW b, NEW n \in 0 .. Len(s), NEW m \in 0 .. n
  PROVE  LET served == SubSeq(s, m + 1, n)
         IN  /\ Cardinality({i \in DOMAIN served : served[i] <= b}) = Hits(s, b, n) - Hits(s, b, m)
             /\ served \in Seq(Bucket) /\ Len(served) = n - m
<1> DEFINE served == SubSeq(s, m + 1, n)
           K == {i \in DOMAIN served : served[i] <= b}
           A == {i \in 1 .. m : s[i] <= b}
           B == {i \in m + 1 .. n : s[i] <= b}
<1>1. Len(s) \in Nat /\ DOMAIN s = 1 .. Len(s) /\ m \in Nat /\ n \in Nat /\ m <= n
  BY LenProperties
<1>2. /\ served \in Seq(Bucket) /\ Len(served) = n - m
      /\ \A i \in 1 .. n - m : served[i] = s[m + i]
  <2>1. \A i \in m + 1 .. n : s[i] \in Bucket
    BY <1>1, ElementOfSeq
  <2>2. m + 1 \in Int /\ n \in Int
    BY <1>1
  <2>3. /\ served \in Seq(Bucket)
        /\ Len(served) = IF m + 1 <= n THEN n - (m + 1) + 1 ELSE 0
        /\ \A i \in 1 .. n - (m + 1) + 1 : served[i] = s[(m + 1) + i - 1]
    BY <2>1, <2>2, SubSeqProperties
  <2> HIDE DEF served
  <2>4. n - (m + 1) + 1 = n - m /\ \A i \in 1 .. n - m : (m + 1) + i - 1 = m + i
    BY <1>1
  <2> QED BY <1>1, <2>3, <2>4
<1>3. DOMAIN served = 1 .. n - m
  BY <1>2, LenProperties
<1> HIDE DEF served
<1>4. IsFiniteSet(A) /\ IsFiniteSet(K) /\ Cardinality(K) \in Nat
  <2>1. IsFiniteSet(1 .. n - m) /\ K \subseteq 1 .. n - m
    BY <1>1, <1>3, FS_Interval
  <2>2. IsFiniteSet(A)
    BY <1>1, HitsType
  <2> HIDE DEF K, A
  <2> QED BY <2>1, <2>2, FS_Subset, FS_CardinalityType
<1>5. IsFiniteSet(B) /\ Cardinality(B) = Cardinality(K)
  <2> DEFINE f == [i \in K |-> m + i]
  <2>1. f \in Bijection(K, B)
    <3>1. \A i \in K : f[i] \in B
      BY <1>1, <1>2, <1>3
    <3>2. \A i, j \in K : f[i] = f[j] => i = j
      BY <1>1, <1>3
    <3>3. ASSUME NEW j \in B PROVE \E i \in K : f[i] = j
      <4>1. j - m \in K /\ m + (j - m) = j
        BY <1>1, <1>2, <1>3
      <4> QED BY <4>1
    <3> QED BY <3>1, <3>2, <3>3 DEF Bijection, Injection, Surjection, IsInjective
  <2>2. ExistsBijection(K, B)
    BY <2>1 DEF ExistsBijection
  <2> QED BY <1>4, <2>2, FS_Bijection
<1>6. A \cap B = {} /\ A \cup B = {i \in 1 .. n : s[i] <= b}
  BY <1>1
<1>7. Cardinality(A \cup B) = Cardinality(A) + Cardinality(B) - Cardinality(A \cap B)
  BY <1>4, <1>5, FS_Union
<1>8. Cardinality(A \cap B) = 0 /\ Cardinality(A) \in Nat
  BY <1>4, <1>6, FS_EmptySet, FS_CardinalityType
<1>9. Hits(s, b, n) = Hits(s, b, m) + Cardinality(K)
  <2>1. Hits(s, b, m) = Cardinality(A) /\ Hits(s, b, n) = Cardinality(A \cup B)
    BY <1>6 DEF Hits
  <2> HIDE DEF A, B, K
  <2> QED BY <1>4, <1>5, <1>7, <1>8, <2>1
<1>10. Cardinality(K) = Hits(s, b, n) - Hits(s, b, m)
  <2>1. Hits(s, b, m) \in Nat /\ Hits(s, b, n) \in Nat
    BY <1>1, HitsType
  <2> HIDE DEF K
  <2> QED BY <1>4, <1>9, <2>1
<1> QED BY <1>2, <1>10 DEF served

-----------------------------------------------------------------------------
(* Deltas: what the snapshots count.                                       *)

\* Since text t was scraped, no bucket of histogram h grew by more than the requests
\* under its edge in s, and if the server has not restarted, by as many.
Recent(t, s, h, r) ==
  t.ok => /\ t.truth <= Len(s)
          /\ ~t.exported => t.count = Empty
          /\ \A b \in Bucket :
               /\ h[b] + Hits(s, b, t.truth) <= t.count[b] + Hits(s, b, Len(s))
               /\ r = 0 => h[b] + Hits(s, b, t.truth) = t.count[b] + Hits(s, b, Len(s))

\* The same of text u, that was scraped after t.
Follows(t, u, s, r) ==
  t.ok /\ u.ok =>
    /\ t.truth <= u.truth
    /\ \A b \in Bucket :
         /\ u.count[b] + Hits(s, b, t.truth) <= t.count[b] + Hits(s, b, u.truth)
         /\ r = 0 => u.count[b] + Hits(s, b, t.truth) = t.count[b] + Hits(s, b, u.truth)

Counted ==
  /\ \A i \in 1 .. Len(snapshots) : Recent(snapshots[i].text, truth, counter, restarts)
  /\ \A i, j \in 1 .. Len(snapshots) :
       i < j => Follows(snapshots[i].text, snapshots[j].text, truth, restarts)
  /\ \A c \in Caller : Waits(c) /\ answer[c].back =>
       /\ Recent(answer[c], truth, counter, restarts)
       /\ \A i \in 1 .. Len(snapshots) : Follows(snapshots[i].text, answer[c], truth, restarts)

LEMMA TextTypes ==
  ASSUME NEW t \in Answers
  PROVE  /\ t.truth \in Nat /\ t.count \in Histogram /\ t.exported \in BOOLEAN /\ t.ok \in BOOLEAN
         /\ \A b \in Bucket : t.count[b] \in Nat
BY DEF Answers, Histogram

\* A request is counted once on either side.
LEMMA RecentServed ==
  ASSUME NEW t \in Answers, NEW s \in Seq(Bucket), NEW h \in Histogram, NEW r,
         NEW at \in Bucket, Recent(t, s, h, r)
  PROVE  Recent(t, Append(s, at), Observed(h, at), r)
<1> SUFFICES ASSUME t.ok PROVE Recent(t, Append(s, at), Observed(h, at), r)
  BY DEF Recent
<1>1. Len(s) \in Nat /\ Len(Append(s, at)) = Len(s) + 1 /\ t.truth \in 0 .. Len(s)
  BY TextTypes, LenProperties, AppendProperties DEF Recent
<1>2. ASSUME NEW b \in Bucket
      PROVE  /\ Observed(h, at)[b] + Hits(Append(s, at), b, t.truth)
                  <= t.count[b] + Hits(Append(s, at), b, Len(s) + 1)
             /\ r = 0 => Observed(h, at)[b] + Hits(Append(s, at), b, t.truth)
                           = t.count[b] + Hits(Append(s, at), b, Len(s) + 1)
  <2> DEFINE one  == IF at <= b THEN 1 ELSE 0
             seen == t.count[b]
             now  == h[b]
             old  == Hits(s, b, t.truth)
             all  == Hits(s, b, Len(s))
             now1 == Observed(h, at)[b]
             old1 == Hits(Append(s, at), b, t.truth)
             all1 == Hits(Append(s, at), b, Len(s) + 1)
  <2>1. old1 = old /\ all1 = all + one
    BY <1>1, HitsMore
  <2>2. now1 = now + one
    BY DEF Observed
  <2>3. /\ one \in Nat /\ seen \in Nat /\ now \in Nat /\ old \in Nat /\ all \in Nat
    <3>1. old \in Nat /\ all \in Nat
      <4>1. t.truth \in Nat /\ Len(s) \in Nat
        BY <1>1, TextTypes
      <4> HIDE DEF old, all
      <4>2. old = Hits(s, b, t.truth) /\ all = Hits(s, b, Len(s))
        BY DEF old, all
      <4> QED BY <4>1, <4>2, HitsType
    <3>2. seen \in Nat /\ now \in Nat
      BY TextTypes DEF Histogram
    <3> QED BY <3>1, <3>2
  <2>4. now + old <= seen + all /\ (r = 0 => now + old = seen + all)
    BY DEF Recent
  <2>5. now1 + old1 <= seen + all1 /\ (r = 0 => now1 + old1 = seen + all1)
    <3> HIDE DEF one, seen, now, old, all, now1, old1, all1
    <3> QED BY <2>1, <2>2, <2>3, <2>4
  <2> QED BY <2>5
<1>3. t.truth <= Len(s) + 1 /\ (~t.exported => t.count = Empty)
  BY <1>1 DEF Recent
<1> QED BY <1>1, <1>2, <1>3 DEF Recent

LEMMA FollowsServed ==
  ASSUME NEW t \in Answers, NEW u \in Answers, NEW s \in Seq(Bucket), NEW r,
         NEW at \in Bucket, Follows(t, u, s, r), u.ok => u.truth <= Len(s)
  PROVE  Follows(t, u, Append(s, at), r)
<1> SUFFICES ASSUME t.ok, u.ok PROVE Follows(t, u, Append(s, at), r)
  BY DEF Follows
<1>1. Len(s) \in Nat /\ t.truth \in 0 .. Len(s) /\ u.truth \in 0 .. Len(s)
  BY TextTypes, LenProperties DEF Follows
<1>2. \A b \in Bucket : /\ Hits(Append(s, at), b, t.truth) = Hits(s, b, t.truth)
                        /\ Hits(Append(s, at), b, u.truth) = Hits(s, b, u.truth)
  BY <1>1, HitsMore
<1> QED BY <1>2 DEF Follows

\* A restart only loses counts.
LEMMA RecentRestart ==
  ASSUME NEW t \in Answers, NEW s \in Seq(Bucket), NEW h \in Histogram, NEW r \in Nat,
         Recent(t, s, h, r)
  PROVE  Recent(t, s, Empty, r + 1)
<1>1. \A b \in Bucket : /\ h[b] \in Nat /\ Empty[b] = 0 /\ t.count[b] \in Nat
                        /\ Hits(s, b, t.truth) \in Nat /\ Hits(s, b, Len(s)) \in Nat
  BY TextTypes, HitsType, LenProperties DEF Histogram, Empty
<1> QED BY <1>1 DEF Recent

\* A scrape shows what the server counts at that moment.
LEMMA Scraped ==
  ASSUME NEW t \in Answers, NEW s, NEW h, NEW r, t.truth = Len(s), t.count = h,
         ~t.exported => h = Empty
  PROVE  /\ Len(s) \in Nat /\ h \in Histogram => Recent(t, s, h, r)
         /\ \A u \in Answers : Recent(u, s, h, r) => Follows(u, t, s, r)
<1>1. Recent(t, s, h, r) \/ ~(Len(s) \in Nat /\ h \in Histogram)
  <2>1. Len(s) \in Nat /\ h \in Histogram =>
          \A b \in Bucket : h[b] \in Nat /\ Hits(s, b, Len(s)) \in Nat
    BY HitsType DEF Histogram
  <2> QED BY <2>1 DEF Recent
<1>2. ASSUME NEW u \in Answers, Recent(u, s, h, r) PROVE Follows(u, t, s, r)
  BY <1>2 DEF Recent, Follows
<1> QED BY <1>1, <1>2

-----------------------------------------------------------------------------
(* Deltas: the steps.                                                      *)

LEMMA InitCounted == Init => Counted
<1> SUFFICES ASSUME Init PROVE Counted
  OBVIOUS
<1>1. Len(snapshots) = 0 /\ \A c \in Caller : ~answer[c].back
  BY AnswerTypes DEF Init
<1> QED BY <1>1 DEF Counted

\* A step that neither scrapes nor serves.
LEMMA QuietCounted ==
  ASSUME Counted, UNCHANGED <<snapshots, truth, counter, restarts>>,
         \A c \in Caller : Waits(c)' /\ answer'[c].back => Waits(c) /\ answer'[c] = answer[c]
  PROVE  Counted'
BY DEF Counted

LEMMA ServerCounted == ASSUME Inv, Counted, Serve \/ Restart PROVE Counted'
<1>1. /\ UNCHANGED <<snapshots, answer, main, sampler>>
      /\ truth \in Seq(Bucket) /\ counter \in Histogram /\ restarts \in Nat
      /\ \A i \in 1 .. Len(snapshots) : snapshots[i].text \in Answers
      /\ \A c \in Caller : answer[c] \in Answers /\ (Waits(c)' => Waits(c))
  BY SnapshotsOf, Constants DEF Serve, Restart, Inv, Types, TypeOK, Waits
<1>2. CASE Serve
  <2>1. PICK at \in Bucket : truth' = Append(truth, at) /\ counter' = Observed(counter, at)
    BY <1>2 DEF Serve
  <2>2. restarts' = restarts
    BY <1>2 DEF Serve
  <2>3. \A i \in 1 .. Len(snapshots) : Recent(snapshots[i].text, truth', counter', restarts')
    BY <1>1, <2>1, <2>2, RecentServed DEF Counted
  <2>4. ASSUME NEW i \in 1 .. Len(snapshots), NEW j \in 1 .. Len(snapshots), i < j
        PROVE  Follows(snapshots[i].text, snapshots[j].text, truth', restarts')
    <3>1. snapshots[j].text.ok => snapshots[j].text.truth <= Len(truth)
      BY DEF Counted, Recent
    <3> QED BY <1>1, <2>1, <2>2, <2>4, <3>1, FollowsServed DEF Counted
  <2>5. ASSUME NEW c \in Caller, Waits(c)', answer[c].back
        PROVE  /\ Recent(answer[c], truth', counter', restarts')
               /\ \A i \in 1 .. Len(snapshots) :
                    Follows(snapshots[i].text, answer[c], truth', restarts')
    <3>1. /\ Recent(answer[c], truth, counter, restarts)
          /\ \A i \in 1 .. Len(snapshots) :
               Follows(snapshots[i].text, answer[c], truth, restarts)
      BY <1>1, <2>5 DEF Counted
    <3>2. answer[c].ok => answer[c].truth <= Len(truth)
      BY <3>1 DEF Recent
    <3> QED BY <1>1, <2>1, <2>2, <3>1, <3>2, RecentServed, FollowsServed
  <2> QED BY <1>1, <2>3, <2>4, <2>5 DEF Counted
<1>3. CASE Restart
  <2>1. truth' = truth /\ counter' = Empty /\ restarts' = restarts + 1
    BY <1>3 DEF Restart
  <2>2. \A t \in Answers : Recent(t, truth, counter, restarts) => Recent(t, truth', counter', restarts')
    BY <1>1, <2>1, RecentRestart
  <2>3. \A t, u : Follows(t, u, truth, restarts) => Follows(t, u, truth', restarts')
    BY <1>1, <2>1 DEF Follows
  <2>4. \A c \in Caller : Waits(c)' /\ answer'[c].back =>
          /\ Recent(answer[c], truth', counter', restarts')
          /\ \A i \in 1 .. Len(snapshots) :
               Follows(snapshots[i].text, answer[c], truth', restarts')
    BY <1>1, <2>2, <2>3 DEF Counted
  <2> QED BY <1>1, <2>2, <2>3, <2>4 DEF Counted
<1> QED BY <1>2, <1>3

LEMMA AnswerCounted == ASSUME Inv, Counted, NEW c \in Caller, Answer(c) PROVE Counted'
<1>1. /\ UNCHANGED <<snapshots, truth, counter, restarts, main, sampler>>
      /\ truth \in Seq(Bucket) /\ Len(truth) \in Nat /\ counter \in Histogram
      /\ exported \in BOOLEAN /\ (~exported => counter = Empty)
      /\ \A i \in 1 .. Len(snapshots) : snapshots[i].text \in Answers
      /\ answer \in [Caller -> Answers]
  BY SnapshotsOf, LenProperties DEF Answer, server, Inv, Types, TypeOK
<1>2. PICK a \in {[ok |-> TRUE, exported |-> exported, count |-> counter,
                   truth |-> Len(truth), back |-> TRUE], Failed} :
        answer' = [answer EXCEPT ![c] = a]
  BY DEF Answer
<1>3. /\ answer'[c] = a /\ \A d \in Caller : d # c => answer'[d] = answer[d]
      /\ \A d \in Caller : Waits(d)' <=> Waits(d)
  BY <1>1, <1>2 DEF Waits
<1>4. /\ Recent(a, truth, counter, restarts)
      /\ \A i \in 1 .. Len(snapshots) : Follows(snapshots[i].text, a, truth, restarts)
  <2>1. CASE a = Failed
    BY <2>1, AnswerTypes DEF Recent, Follows
  <2>2. CASE a # Failed
    <3>1. a \in Answers /\ a.truth = Len(truth) /\ a.count = counter /\ a.exported = exported
      <4>1. a = [ok |-> TRUE, exported |-> exported, count |-> counter,
                 truth |-> Len(truth), back |-> TRUE]
        BY <1>2, <2>2
      <4>2. a \in Answers
        BY <1>1, <4>1 DEF Answers
      <4> QED BY <4>1, <4>2
    <3>2. \A t \in Answers :
            Recent(t, truth, counter, restarts) => Follows(t, a, truth, restarts)
      BY <1>1, <3>1, Scraped
    <3>3. Recent(a, truth, counter, restarts)
      BY <1>1, <3>1, Scraped
    <3> QED BY <1>1, <3>2, <3>3 DEF Counted
  <2> QED BY <2>1, <2>2
<1> QED BY <1>1, <1>3, <1>4 DEF Counted

LEMMA StoreCounted ==
  ASSUME Inv, Counted, NEW c \in Caller, Waits(c), answer[c].back,
         NEW slot \in {"before", "interval", "after"}, NEW elapsed \in Nat,
         Store(c, slot, elapsed), UNCHANGED server,
         \A d \in Caller \ {c} : ~Waits(d)'
  PROVE  Counted'
<1>1. Types /\ TypeOK /\ answer \in [Caller -> Answers] /\ Len(snapshots) \in Nat
  BY SnapshotsOf DEF Inv, Types, TypeOK
<1>2. /\ Len(snapshots') = Len(snapshots) + 1
      /\ \A i \in 1 .. Len(snapshots) : snapshots'[i] = snapshots[i]
      /\ snapshots'[Len(snapshots) + 1].text = answer[c]
  <2>1. [slot |-> slot, text |-> answer[c], elapsed |-> elapsed] \in Snapshot
    BY <1>1 DEF Snapshot
  <2> QED BY <1>1, <2>1, AppendProperties DEF Store, Types
<1>3. UNCHANGED <<truth, counter, restarts>>
  BY DEF server
<1>4. \A d \in Caller : ~(Waits(d)' /\ answer'[d].back)
  BY <1>1, AnswerTypes DEF Store
<1>5. /\ Recent(answer[c], truth, counter, restarts)
      /\ \A i \in 1 .. Len(snapshots) : Follows(snapshots[i].text, answer[c], truth, restarts)
  BY DEF Counted
<1>6. ASSUME NEW i \in 1 .. Len(snapshots')
      PROVE  Recent(snapshots'[i].text, truth', counter', restarts')
  BY <1>1, <1>2, <1>3, <1>5 DEF Counted
<1>7. ASSUME NEW i \in 1 .. Len(snapshots'), NEW j \in 1 .. Len(snapshots'), i < j
      PROVE  Follows(snapshots'[i].text, snapshots'[j].text, truth', restarts')
  <2>1. i \in 1 .. Len(snapshots) /\ snapshots'[i] = snapshots[i]
    BY <1>1, <1>2, <1>7
  <2>2. CASE j = Len(snapshots) + 1
    BY <1>2, <1>3, <1>5, <2>1, <2>2
  <2>3. CASE j # Len(snapshots) + 1
    <3>1. j \in 1 .. Len(snapshots) /\ snapshots'[j] = snapshots[j]
      BY <1>1, <1>2, <2>3
    <3> QED BY <1>3, <1>7, <2>1, <3>1 DEF Counted
  <2> QED BY <2>2, <2>3
<1> QED BY <1>4, <1>6, <1>7 DEF Counted

LEMMA CountedNext == Inv /\ Counted /\ [Next]_vars => Counted'
<1> SUFFICES ASSUME Inv, Counted, [Next]_vars PROVE Counted'
  OBVIOUS
<1>1. CASE Serve \/ Restart
  BY <1>1, ServerCounted
<1>2. ASSUME NEW c \in Caller, Answer(c) PROVE Counted'
  BY <1>2, AnswerCounted
<1>3. CASE FinishStart
  <2>1. /\ "main" \in Caller /\ Waits("main") /\ answer["main"].back
        /\ Store("main", "before", 0) /\ UNCHANGED server
        /\ \A d \in Caller \ {"main"} : ~Waits(d)'
    BY <1>3 DEF FinishStart, Waits, Caller
  <2> QED BY <2>1, StoreCounted
<1>4. CASE FinishEnd
  <2>1. /\ "main" \in Caller /\ Waits("main") /\ answer["main"].back
        /\ Store("main", "after", Elapsed) /\ UNCHANGED server
        /\ \A d \in Caller \ {"main"} : ~Waits(d)'
    BY <1>4 DEF FinishEnd, Waits, Caller, thread, Inv, Threads
  <2> QED BY <2>1, ElapsedBound, StoreCounted DEF Inv
<1>5. CASE StoreSample
  <2>1. /\ "sampler" \in Caller /\ Waits("sampler") /\ answer["sampler"].back
        /\ Store("sampler", "interval", Elapsed) /\ UNCHANGED server
        /\ \A d \in Caller \ {"sampler"} : ~Waits(d)'
    BY <1>5 DEF StoreSample, Waits, Caller, Inv, Threads, Answered
  <2> QED BY <2>1, ElapsedBound, StoreCounted DEF Inv
<1>6. CASE Tick \/ Break \/ BeginStart \/ BeginEnd \/ Join \/ Wake \/ Check \/ Over \/ UNCHANGED vars
  <2>1. UNCHANGED <<snapshots, answer, truth, counter, restarts>>
    BY <1>6 DEF Tick, Break, BeginStart, BeginEnd, Join, Wake, Check, Over, vars, server
  <2>2. ASSUME NEW c \in Caller, Waits(c)', answer'[c].back PROVE Waits(c)
    <3>1. CASE c = "main"
      BY <1>6, <2>1, <2>2, <3>1
         DEF Tick, Break, BeginStart, BeginEnd, Join, Wake, Check, Over, vars, Waits, Inv, Answered
    <3>2. CASE c = "sampler"
      BY <1>6, <2>1, <2>2, <3>2
         DEF Tick, Break, BeginStart, BeginEnd, Join, Wake, Check, Over, vars, Waits, Inv, Answered,
             thread
    <3> QED BY <3>1, <3>2 DEF Caller
  <2> QED BY <2>1, <2>2, QuietCounted
<1> QED BY <1>1, <1>2, <1>3, <1>4, <1>5, <1>6 DEF Next, World, Main, Sampler

LEMMA CountedAlways == Spec => [](Inv /\ Counted)
BY InitCounted, CountedNext, InvAlways, PTL DEF Spec

-----------------------------------------------------------------------------
(* Deltas: the rows.                                                       *)

Reported == {"measured", "not executed", "no data"}

\* What the note of a row says of its two texts.
LEMMA RowNote ==
  ASSUME NEW t \in Answers, NEW u \in Answers, NEW row, row = Row(t, u),
         t.ok /\ ~t.exported => t.count = Empty, u.ok /\ ~u.exported => u.count = Empty
  PROVE  /\ row.delta = [b \in Bucket |-> u.count[b] - t.count[b]]
         /\ row.served = SubSeq(truth, t.truth + 1, u.truth)
         /\ row.note \in Reported <=>
              /\ t.ok /\ u.ok /\ t.exported = u.exported
              /\ \A b \in Bucket : t.count[b] <= u.count[b]
         /\ row.note = "failed" <=> ~(t.ok /\ u.ok)
         /\ row.note \in Reported \cup {"failed", "reset"}
         /\ row.note = "measured" => row.delta[Inf] # 0
<1>1. \A b \in Bucket : t.count[b] \in Nat /\ u.count[b] \in Nat
  BY TextTypes
<1>2. \A b \in Bucket : Empty[b] = 0
  BY DEF Empty
<1> DEFINE delta == [b \in Bucket |-> u.count[b] - t.count[b]]
<1>3. /\ row.delta = delta
      /\ row.served = SubSeq(truth, t.truth + 1, u.truth)
      /\ row.note = IF ~(t.ok /\ u.ok) THEN "failed"
                    ELSE IF ~(t.exported \/ u.exported) THEN "no data"
                    ELSE IF IsReset(t, u) THEN "reset"
                    ELSE IF delta[Inf] = 0 THEN "not executed" ELSE "measured"
  BY DEF Row
<1>4. IsReset(t, u) <=> ~(/\ t.exported = u.exported
                          /\ \A b \in Bucket : t.count[b] <= u.count[b])
  BY <1>1 DEF IsReset
<1>5. t.ok /\ u.ok /\ ~(t.exported \/ u.exported) => ~IsReset(t, u)
  BY <1>1, <1>2, <1>4, TextTypes
<1> HIDE DEF delta
<1>6. t.ok \in BOOLEAN /\ u.ok \in BOOLEAN
  BY TextTypes
<1>7. row.note \in Reported <=> t.ok /\ u.ok /\ ~IsReset(t, u)
  BY <1>3, <1>5, <1>6 DEF Reported
<1>8. /\ row.note = "failed" <=> ~(t.ok /\ u.ok)
      /\ row.note \in Reported \cup {"failed", "reset"}
      /\ row.note = "measured" => row.delta[Inf] # 0
  BY <1>3, <1>6 DEF Reported
<1> QED BY <1>3, <1>4, <1>7, <1>8 DEF delta

\* Every row of the two reports is between a snapshot and the same or a later one.
LEMMA RowsOf ==
  ASSUME Inv, Counted, main = "done", NEW row \in AllRows
  PROVE  \E t, u \in Answers :
           /\ row = Row(t, u)
           /\ Recent(t, truth, counter, restarts) /\ Recent(u, truth, counter, restarts)
           /\ Follows(t, u, truth, restarts)
<1>1. Len(snapshots) \in Nat \ {0}
      /\ \A i \in 1 .. Len(snapshots) : snapshots[i].text \in Answers
  BY SnapshotsOf DEF Inv, Types, Threads, TypeOK
<1>2. ASSUME NEW t \in Answers, Recent(t, truth, counter, restarts)
      PROVE  Follows(t, t, truth, restarts)
  <2>1. t.ok => \A b \in Bucket : t.count[b] \in Nat /\ Hits(truth, b, t.truth) \in Nat
    BY <1>2, TextTypes, HitsType, LenProperties DEF Recent, Inv, Types, TypeOK
  <2>2. t.truth \in Nat
    BY TextTypes
  <2> QED BY <2>1, <2>2 DEF Follows
<1>3. PICK i \in 1 .. Len(snapshots), j \in 1 .. Len(snapshots) :
        i <= j /\ row = Row(snapshots[i].text, snapshots[j].text)
  <2>1. CASE row = WindowRow
    BY <1>1, <2>1 DEF WindowRow
  <2>2. CASE row \in {Rows[i] : i \in DOMAIN Rows}
    <3>1. PICK i \in 1 .. Len(snapshots) - 1 : row = Row(snapshots[i].text, snapshots[i + 1].text)
      BY <2>2 DEF Rows
    <3> QED BY <1>1, <3>1
  <2> QED BY <2>1, <2>2 DEF AllRows
<1>4. /\ Recent(snapshots[i].text, truth, counter, restarts)
      /\ Recent(snapshots[j].text, truth, counter, restarts)
  BY DEF Counted
<1>5. Follows(snapshots[i].text, snapshots[j].text, truth, restarts)
  BY <1>1, <1>2, <1>3, <1>4 DEF Counted
<1> QED BY <1>1, <1>3, <1>4, <1>5

\* The requests that were served under edge b.
Done(served, b) == Cardinality({i \in DOMAIN served : served[i] <= b})

\* The delta of a reported row is at most what was served, or just that.
LEMMA RowDelta ==
  ASSUME Inv, Counted, main = "done", NEW row \in AllRows, row.note \in Reported
  PROVE  /\ row.served \in Seq(Bucket) /\ row.delta = [b \in Bucket |-> row.delta[b]]
         /\ row.note = "measured" => row.delta[Inf] # 0
         /\ \A b \in Bucket : /\ Done(row.served, b) \in Nat
                              /\ row.delta[b] \in 0 .. Done(row.served, b)
                              /\ restarts = 0 => row.delta[b] = Done(row.served, b)
<1>. PICK t \in Answers, u \in Answers :
       /\ row = Row(t, u)
       /\ Recent(t, truth, counter, restarts) /\ Recent(u, truth, counter, restarts)
       /\ Follows(t, u, truth, restarts)
  BY RowsOf
<1>0. /\ t.ok /\ ~t.exported => t.count = Empty
      /\ u.ok /\ ~u.exported => u.count = Empty
  BY DEF Recent
<1>1. /\ row.delta = [b \in Bucket |-> u.count[b] - t.count[b]]
      /\ row.served = SubSeq(truth, t.truth + 1, u.truth)
      /\ t.ok /\ u.ok /\ \A b \in Bucket : t.count[b] <= u.count[b]
      /\ row.note = "measured" => row.delta[Inf] # 0
  BY <1>0, RowNote
<1>2. truth \in Seq(Bucket) /\ Len(truth) \in Nat
  BY LenProperties DEF Inv, Types, TypeOK
<1>3. u.truth \in 0 .. Len(truth) /\ t.truth \in 0 .. u.truth
  BY <1>1, <1>2, TextTypes DEF Recent, Follows
<1>4. row.served \in Seq(Bucket)
  BY <1>1, <1>2, <1>3, HitsBetween
<1>5. ASSUME NEW b \in Bucket
      PROVE  /\ Done(row.served, b) \in Nat
             /\ row.delta[b] \in 0 .. Done(row.served, b)
             /\ restarts = 0 => row.delta[b] = Done(row.served, b)
  <2> DEFINE last  == Hits(truth, b, u.truth)
             first == Hits(truth, b, t.truth)
             high  == u.count[b]
             low   == t.count[b]
             delta == row.delta[b]
             done  == Done(row.served, b)
  <2>1. done = last - first
    <3> DEFINE served == SubSeq(truth, t.truth + 1, u.truth)
    <3>1. Done(served, b) = Hits(truth, b, u.truth) - Hits(truth, b, t.truth)
      BY <1>2, <1>3, HitsBetween DEF Done
    <3>2. row.served = served
      BY <1>1
    <3> HIDE DEF served
    <3> QED BY <3>1, <3>2
  <2>2. delta = high - low
    BY <1>1
  <2>3. high \in Nat /\ low \in Nat /\ low <= high /\ last \in Nat /\ first \in Nat
    BY <1>1, <1>2, <1>3, TextTypes, HitsType
  <2>4. high + first <= low + last /\ (restarts = 0 => high + first = low + last)
    BY <1>1 DEF Follows
  <2>5. done \in Nat /\ delta \in 0 .. done /\ (restarts = 0 => delta = done)
    <3> HIDE DEF last, first, high, low, delta, done
    <3> QED BY <2>1, <2>2, <2>3, <2>4
  <2> QED BY <2>5
<1>6. row.delta = [b \in Bucket |-> row.delta[b]]
  BY <1>1
<1> QED BY <1>1, <1>4, <1>5, <1>6

-----------------------------------------------------------------------------
(* Sums over finite sets, as in Shards_proofs.                             *)

LEMMA SmallestSet ==
  ASSUME NEW D, D # {}, \A s \in D : IsFiniteSet(s)
  PROVE  \E s \in D : \A u \in D : u \subseteq s => u = s
<1> DEFINE S == UNION D
           R == StrictSubsetOrdering(S)
<1>1. IsWellFoundedOn(R, FiniteSubsetsOf(S))
  BY FS_StrictSubsetOrderingWellFounded
<1>2. D \subseteq FiniteSubsetsOf(S)
  BY DEF FiniteSubsetsOf
<1>3. \E x \in D : \A y \in D : ~(<<y, x>> \in R)
  <2> HIDE DEF R
  <2> QED BY <1>1, <1>2, WFMin
<1>4. ASSUME NEW x \in D, NEW y \in D, ~(<<y, x>> \in R), y \subseteq x PROVE y = x
  BY <1>4, SMT DEF StrictSubsetOrdering
<1> QED BY <1>3, <1>4

LEMMA LeastNumber ==
  ASSUME NEW N, N \subseteq Nat, N # {}
  PROVE  \E n \in N : \A m \in N : n <= m
<1> DEFINE D == {1 .. n : n \in N}
<1>1. D # {} /\ \A s \in D : IsFiniteSet(s)
  <2>1. D # {}
    OBVIOUS
  <2>2. \A n \in N : IsFiniteSet(1 .. n)
    BY FS_Interval
  <2> QED BY <2>1, <2>2
<1>2. PICK s \in D : \A u \in D : u \subseteq s => u = s
  <2> HIDE DEF D
  <2> QED BY <1>1, SmallestSet
<1>3. PICK n \in N : s = 1 .. n
  OBVIOUS
<1>4. ASSUME NEW m \in N, m < n PROVE FALSE
  <2>1. 1 .. m \in D /\ 1 .. m \subseteq s
    BY <1>3, <1>4
  <2>2. 1 .. m = s
    BY <1>2, <2>1
  <2>3. n \in s /\ n \notin 1 .. m
    BY <1>3, <1>4
  <2> QED BY <2>2, <2>3
<1> QED BY <1>4

SumOf(f, S) == MapThenSumSet(LAMBDA x : f[x], S)
One(S) == CHOOSE x \in S : TRUE

\* The equation of the fold over the sets of family F.
Partial(g, f, F) == \A s \in F : g[s] = IF s = {} THEN 0 ELSE f[One(s)] + g[s \ {One(s)}]

\* For the subsets of at most n elements it has a solution.
LEMMA PartialSums ==
  ASSUME NEW S, IsFiniteSet(S), NEW f, NEW n \in Nat
  PROVE  \E g : /\ g = [s \in SUBSET S |-> g[s]]
                /\ Partial(g, f, {s \in SUBSET S : Cardinality(s) <= n})
<1> DEFINE Upto(m) == {s \in SUBSET S : Cardinality(s) <= m}
           Good(m) == \E g : g = [s \in SUBSET S |-> g[s]] /\ Partial(g, f, Upto(m))
           Bad == {m \in Nat : ~Good(m)}
<1>1. SUFFICES ASSUME Bad # {} PROVE FALSE
  OBVIOUS
<1>2. PICK m \in Bad : \A k \in Bad : m <= k
  <2>1. Bad \subseteq Nat
    OBVIOUS
  <2> HIDE DEF Bad
  <2> QED BY <1>1, <2>1, LeastNumber
<1>3. \A s \in SUBSET S : IsFiniteSet(s) /\ Cardinality(s) \in Nat /\ (Cardinality(s) = 0 <=> s = {})
  BY FS_Subset, FS_EmptySet, FS_CardinalityType
<1>4. CASE m = 0
  <2> DEFINE g == [s \in SUBSET S |-> 0]
  <2>1. g = [s \in SUBSET S |-> g[s]]
    OBVIOUS
  <2>2. \A s \in Upto(0) : s = {}
    BY <1>3
  <2>3. Partial(g, f, Upto(0))
    BY <2>2 DEF Partial
  <2> HIDE DEF g
  <2> QED BY <1>4, <2>1, <2>3
<1>5. CASE m > 0
  <2>1. m - 1 \in Nat /\ m - 1 \notin Bad
    <3>1. m \in Nat
      OBVIOUS
    <3> HIDE DEF Bad
    <3> QED BY <1>2, <1>5, <3>1
  <2>2. PICK g : g = [s \in SUBSET S |-> g[s]] /\ Partial(g, f, Upto(m - 1))
    BY <2>1
  <2> DEFINE h == [s \in SUBSET S |-> IF s = {} THEN 0 ELSE f[One(s)] + g[s \ {One(s)}]]
  <2>3. h = [s \in SUBSET S |-> h[s]]
    OBVIOUS
  <2>4. ASSUME NEW s \in Upto(m), s # {} PROVE g[s \ {One(s)}] = h[s \ {One(s)}]
    <3>1. One(s) \in s /\ s \in SUBSET S
      BY <2>4 DEF One
    <3>2. /\ Cardinality(s \ {One(s)}) = Cardinality(s) - 1
      BY <1>3, <3>1, FS_RemoveElement
    <3>3. s \ {One(s)} \in Upto(m - 1)
      BY <1>3, <1>2, <3>1, <3>2
    <3> QED BY <2>2, <3>3 DEF Partial
  <2>5. Partial(h, f, Upto(m))
    <3> SUFFICES ASSUME NEW s \in Upto(m)
                 PROVE h[s] = IF s = {} THEN 0 ELSE f[One(s)] + h[s \ {One(s)}]
      BY DEF Partial
    <3>1. h[s] = IF s = {} THEN 0 ELSE f[One(s)] + g[s \ {One(s)}]
      OBVIOUS
    <3> HIDE DEF h
    <3> QED BY <2>4, <3>1
  <2> HIDE DEF h
  <2> QED BY <2>3, <2>5
<1> QED BY <1>2, <1>4, <1>5

\* The fold is the value of one solution on all subsets.
LEMMA SumSolution ==
  ASSUME NEW S, IsFiniteSet(S), NEW f
  PROVE  \E g : Partial(g, f, SUBSET S) /\ SumOf(f, S) = g[S]
<1> DEFINE Eqn(g) == g = [s \in SUBSET S |->
                            IF s = {} THEN 0 ELSE f[CHOOSE x \in s : TRUE]
                                                  + g[s \ {CHOOSE x \in s : TRUE}]]
           it == CHOOSE g : Eqn(g)
<1>1. \E g : Eqn(g)
  <2>1. Cardinality(S) \in Nat /\ \A s \in SUBSET S : Cardinality(s) <= Cardinality(S)
    BY FS_CardinalityType, FS_Subset
  <2>2. {s \in SUBSET S : Cardinality(s) <= Cardinality(S)} = SUBSET S
    BY <2>1
  <2>3. PICK g : /\ g = [s \in SUBSET S |-> g[s]]
                 /\ Partial(g, f, {s \in SUBSET S : Cardinality(s) <= Cardinality(S)})
    BY <2>1, PartialSums
  <2>4. Eqn(g)
    BY <2>2, <2>3 DEF Partial, One
  <2> QED BY <2>4
<1>2. Eqn(it)
  <2> HIDE DEF Eqn
  <2> QED BY <1>1, Zenon
<1>3. SumOf(f, S) = it[S]
  BY DEF SumOf, MapThenSumSet, MapThenFoldSet
<1>4. Partial(it, f, SUBSET S)
  <2> HIDE DEF it
  <2> QED BY <1>2 DEF Partial, One
<1> QED BY <1>3, <1>4

\* Two solutions agree wherever both are one, also for functions that agree.
LEMMA SolutionsAgree ==
  ASSUME NEW S, IsFiniteSet(S), NEW f, NEW h, \A x \in S : f[x] = h[x],
         NEW a, NEW b, Partial(a, f, SUBSET S), Partial(b, h, SUBSET S)
  PROVE  a[S] = b[S]
<1> DEFINE D == {s \in SUBSET S : a[s] # b[s]}
<1> SUFFICES ASSUME D # {} PROVE FALSE
  OBVIOUS
<1>1. \A s \in D : IsFiniteSet(s)
  BY FS_Subset
<1>2. PICK s \in D : \A u \in D : u \subseteq s => u = s
  <2> HIDE DEF D
  <2> QED BY <1>1, SmallestSet
<1>3. s \in SUBSET S /\ a[s] # b[s]
  OBVIOUS
<1>4. s # {}
  BY <1>3 DEF Partial
<1>5. One(s) \in s
  BY <1>4 DEF One
<1>6. s \ {One(s)} \in SUBSET S /\ s \ {One(s)} \notin D
  BY <1>2, <1>5
<1>7. a[s \ {One(s)}] = b[s \ {One(s)}] /\ f[One(s)] = h[One(s)]
  BY <1>3, <1>5, <1>6
<1> HIDE DEF D
<1> QED BY <1>3, <1>4, <1>7 DEF Partial

LEMMA SumSame ==
  ASSUME NEW S, IsFiniteSet(S), NEW f, NEW h, \A x \in S : f[x] = h[x]
  PROVE  SumOf(f, S) = SumOf(h, S)
<1>1. PICK a : Partial(a, f, SUBSET S) /\ SumOf(f, S) = a[S]
  BY SumSolution
<1>2. PICK b : Partial(b, h, SUBSET S) /\ SumOf(h, S) = b[S]
  BY SumSolution
<1> QED BY <1>1, <1>2, SolutionsAgree

LEMMA SumEmpty == ASSUME NEW f PROVE SumOf(f, {}) = 0
BY SumSolution, FS_EmptySet DEF Partial

LEMMA SumChosen ==
  ASSUME NEW S, IsFiniteSet(S), S # {}, NEW f
  PROVE  One(S) \in S /\ SumOf(f, S) = f[One(S)] + SumOf(f, S \ {One(S)})
<1>1. One(S) \in S
  BY DEF One
<1> DEFINE T == S \ {One(S)}
<1>2. IsFiniteSet(T) /\ T \subseteq S
  BY FS_Subset
<1>3. PICK g : Partial(g, f, SUBSET S) /\ SumOf(f, S) = g[S]
  BY SumSolution
<1>4. PICK k : Partial(k, f, SUBSET T) /\ SumOf(f, T) = k[T]
  BY <1>2, SumSolution
<1>5. Partial(g, f, SUBSET T)
  BY <1>2, <1>3 DEF Partial
<1>6. g[T] = k[T]
  BY <1>2, <1>4, <1>5, SolutionsAgree
<1>7. g[S] = f[One(S)] + g[T]
  BY <1>3 DEF Partial
<1> QED BY <1>1, <1>3, <1>4, <1>6, <1>7

\* A sum of naturals, taken apart at any of its elements.
LEMMA SumSplit ==
  ASSUME NEW S, IsFiniteSet(S), NEW f, \A x \in S : f[x] \in Nat
  PROVE  /\ SumOf(f, S) \in Nat
         /\ \A x \in S : SumOf(f, S) = f[x] + SumOf(f, S \ {x})
<1> DEFINE Split(s) == /\ SumOf(f, s) \in Nat
                       /\ \A x \in s : SumOf(f, s) = f[x] + SumOf(f, s \ {x})
           D == {s \in SUBSET S : ~Split(s)}
<1> SUFFICES ASSUME D # {} PROVE FALSE
  OBVIOUS
<1>1. \A s \in SUBSET S : IsFiniteSet(s)
  BY FS_Subset
<1>2. PICK s \in D : \A u \in D : u \subseteq s => u = s
  <2>1. \A t \in D : IsFiniteSet(t)
    BY <1>1
  <2> HIDE DEF D
  <2> QED BY <2>1, SmallestSet
<1>3. s \in SUBSET S /\ ~Split(s) /\ IsFiniteSet(s)
  BY <1>1
<1>4. ASSUME NEW u \in SUBSET s, u # s PROVE Split(u)
  <2>1. u \in SUBSET S /\ u \notin D
    BY <1>2, <1>3, <1>4
  <2> HIDE DEF Split
  <2> QED BY <2>1
<1> HIDE DEF D
<1>5. CASE s = {}
  BY <1>3, <1>5, SumEmpty
<1>6. CASE s # {}
  <2> DEFINE c == One(s)
  <2>1. c \in s /\ SumOf(f, s) = f[c] + SumOf(f, s \ {c})
    BY <1>3, <1>6, SumChosen
  <2> HIDE DEF c
  <2>2. Split(s \ {c})
    BY <1>4, <2>1
  <2>3. SumOf(f, s) \in Nat
    BY <1>3, <2>1, <2>2
  <2>4. ASSUME NEW x \in s, x # c PROVE SumOf(f, s) = f[x] + SumOf(f, s \ {x})
    <3>1. Split(s \ {x})
      BY <1>4
    <3>2. x \in s \ {c} /\ c \in s \ {x}
      BY <2>1, <2>4
    <3>3. (s \ {c}) \ {x} = (s \ {x}) \ {c} /\ (s \ {c}) \ {x} # s
      BY <2>1
    <3>4. SumOf(f, s \ {c}) = f[x] + SumOf(f, (s \ {c}) \ {x})
      BY <2>2, <3>2
    <3>5. SumOf(f, s \ {x}) = f[c] + SumOf(f, (s \ {c}) \ {x})
      BY <3>1, <3>2, <3>3
    <3>6. SumOf(f, (s \ {c}) \ {x}) \in Nat
      BY <1>4, <3>3
    <3>7. f[x] \in Nat /\ f[c] \in Nat
      BY <1>3, <2>1
    <3> QED BY <2>1, <3>4, <3>5, <3>6, <3>7
  <2> QED BY <1>3, <2>1, <2>3, <2>4
<1> QED BY <1>5, <1>6

\* The differences of neighbours add up to that of the ends.
LEMMA Telescope ==
  ASSUME NEW n \in Nat, NEW c, \A i \in 1 .. n + 1 : c[i] \in Nat,
         NEW f, \A i \in 1 .. n : c[i] <= c[i + 1] /\ f[i] = c[i + 1] - c[i]
  PROVE  c[1] <= c[n + 1] /\ SumOf(f, 1 .. n) = c[n + 1] - c[1]
<1> DEFINE Good(m) == c[1] <= c[m + 1] /\ SumOf(f, 1 .. m) = c[m + 1] - c[1]
           Bad == {m \in 0 .. n : ~Good(m)}
<1>1. SUFFICES ASSUME Bad # {} PROVE FALSE
  OBVIOUS
<1>2. PICK m \in Bad : \A k \in Bad : m <= k
  <2>1. Bad \subseteq Nat
    OBVIOUS
  <2> HIDE DEF Bad
  <2> QED BY <1>1, <2>1, LeastNumber
<1>3. m \in 0 .. n /\ ~Good(m)
  OBVIOUS
<1>4. CASE m = 0
  <2>1. 1 .. 0 = {} /\ c[1] \in Nat
    OBVIOUS
  <2>2. Good(0)
    BY <2>1, SumEmpty
  <2> QED BY <1>3, <1>4, <2>2
<1>5. CASE m > 0
  <2>1. m - 1 \in 0 .. n /\ m - 1 \notin Bad
    <3>1. m - 1 \in 0 .. n /\ m \in Nat
      BY <1>3, <1>5
    <3> HIDE DEF Bad
    <3> QED BY <1>2, <3>1
  <2>2. c[1] <= c[m] /\ SumOf(f, 1 .. m - 1) = c[m] - c[1]
    <3>1. Good(m - 1) /\ (m - 1) + 1 = m
      BY <2>1
    <3> QED BY <3>1
  <2>3. /\ c[1] \in Nat /\ c[m] \in Nat /\ c[m + 1] \in Nat
        /\ c[m] <= c[m + 1] /\ f[m] = c[m + 1] - c[m]
    BY <1>3, <1>5
  <2> DEFINE S == 1 .. m
  <2>4. m \in S /\ S \ {m} = 1 .. m - 1 /\ IsFiniteSet(S) /\ \A i \in S : f[i] \in Nat
    <3>1. m \in S /\ S \ {m} = 1 .. m - 1 /\ IsFiniteSet(S)
      <4>1. m \in Nat \ {0}
        BY <1>3, <1>5
      <4>2. m \in S /\ S \ {m} = 1 .. m - 1
        BY <4>1
      <4>3. IsFiniteSet(S)
        BY <4>1, FS_Interval
      <4> QED BY <4>2, <4>3
    <3>2. ASSUME NEW i \in S PROVE f[i] \in Nat
      <4>1. i \in 1 .. n /\ i \in 1 .. n + 1 /\ i + 1 \in 1 .. n + 1
        BY <1>3, <1>5
      <4>2. c[i] \in Nat /\ c[i + 1] \in Nat /\ c[i] <= c[i + 1] /\ f[i] = c[i + 1] - c[i]
        BY <4>1
      <4> QED BY <4>2
    <3> QED BY <3>1, <3>2
  <2>5. SumOf(f, S) = f[m] + SumOf(f, 1 .. m - 1)
    <3> HIDE DEF S
    <3>1. \A i \in S : SumOf(f, S) = f[i] + SumOf(f, S \ {i})
      BY <2>4, SumSplit
    <3> QED BY <2>4, <3>1
  <2>6. Good(m)
    BY <2>2, <2>3, <2>5
  <2> QED BY <1>3, <2>6
<1> QED BY <1>3, <1>4, <1>5

\* What no step changes is the same at both ends.
LEMMA Unchanging ==
  ASSUME NEW n \in Nat, NEW e, \A i \in 1 .. n : e[i + 1] = e[i]
  PROVE  e[n + 1] = e[1]
<1> DEFINE Bad == {m \in 0 .. n : e[m + 1] # e[1]}
<1>1. SUFFICES ASSUME Bad # {} PROVE FALSE
  <2>1. n \in 0 .. n
    OBVIOUS
  <2> QED BY <2>1
<1>2. PICK m \in Bad : \A k \in Bad : m <= k
  <2>1. Bad \subseteq Nat
    OBVIOUS
  <2> HIDE DEF Bad
  <2> QED BY <1>1, <2>1, LeastNumber
<1>3. m \in 1 .. n /\ e[m + 1] = e[m] /\ e[m + 1] # e[1]
  OBVIOUS
<1>4. m - 1 \in Bad
  BY <1>3
<1>5. m <= m - 1
  BY <1>2, <1>4
<1> QED BY <1>3, <1>5

\* The sum in DeltasSound, as one over a function.
LEMMA RowSum ==
  ASSUME NEW b, NEW f, NEW S, IsFiniteSet(S), \A i \in S : f[i] = Rows[i].delta[b]
  PROVE  MapThenSumSet(LAMBDA i : Rows[i].delta[b], S) = SumOf(f, S)
<1> DEFINE Eqn(g) == g = [s \in SUBSET S |->
                            IF s = {} THEN 0 ELSE Rows[CHOOSE x \in s : TRUE].delta[b]
                                                  + g[s \ {CHOOSE x \in s : TRUE}]]
           it == CHOOSE g : Eqn(g)
<1>1. \A s \in SUBSET S : s # {} => f[One(s)] = Rows[CHOOSE x \in s : TRUE].delta[b]
  BY DEF One
<1>2. \E g : Eqn(g)
  <2>1. Cardinality(S) \in Nat /\ \A s \in SUBSET S : Cardinality(s) <= Cardinality(S)
    BY FS_CardinalityType, FS_Subset
  <2>2. {s \in SUBSET S : Cardinality(s) <= Cardinality(S)} = SUBSET S
    BY <2>1
  <2>3. PICK g : /\ g = [s \in SUBSET S |-> g[s]]
                 /\ Partial(g, f, {s \in SUBSET S : Cardinality(s) <= Cardinality(S)})
    BY <2>1, PartialSums
  <2>4. \A s \in SUBSET S : g[s] = IF s = {} THEN 0 ELSE f[One(s)] + g[s \ {One(s)}]
    BY <2>2, <2>3 DEF Partial
  <2>5. \A s \in SUBSET S :
          g[s] = IF s = {} THEN 0 ELSE Rows[CHOOSE x \in s : TRUE].delta[b]
                                       + g[s \ {CHOOSE x \in s : TRUE}]
    BY <1>1, <2>4 DEF One
  <2>6. Eqn(g)
    BY <2>3, <2>5
  <2> QED BY <2>6
<1>3. Eqn(it)
  <2> HIDE DEF Eqn
  <2> QED BY <1>2, Zenon
<1>4. MapThenSumSet(LAMBDA i : Rows[i].delta[b], S) = it[S]
  BY DEF MapThenSumSet, MapThenFoldSet
<1>5. Partial(it, f, SUBSET S)
  <2> HIDE DEF it
  <2> QED BY <1>1, <1>3 DEF Partial, One
<1>6. PICK k : Partial(k, f, SUBSET S) /\ SumOf(f, S) = k[S]
  BY SumSolution
<1>7. it[S] = k[S]
  <2> HIDE DEF it
  <2> QED BY <1>5, <1>6, SolutionsAgree
<1> QED BY <1>4, <1>6, <1>7

\* The rows of a series that is ok and has no reset add up to that of the window.
LEMMA WindowAddsUp ==
  ASSUME Inv, Counted, main = "done", SeriesStatus = "ok", \A i \in DOMAIN Rows : Rows[i].note # "reset"
  PROVE  /\ WindowRow.note \in Reported
         /\ \A b \in Bucket :
              WindowRow.delta[b] = MapThenSumSet(LAMBDA i : Rows[i].delta[b], DOMAIN Rows)
<1> DEFINE n == Len(snapshots) - 1
           text == [i \in 1 .. n + 1 |-> snapshots[i].text]
<1>1. Len(snapshots) \in Nat /\ DOMAIN snapshots = 1 .. Len(snapshots)
      /\ \A i \in 1 .. Len(snapshots) : snapshots[i].text \in Answers
  BY SnapshotsOf, LenProperties DEF Inv, Types, TypeOK
<1>2. Len(snapshots) >= 2 /\ \A i \in 1 .. Len(snapshots) : snapshots[i].text.ok
  BY <1>1 DEF SeriesStatus
<1>3. n \in Nat /\ n + 1 = Len(snapshots) /\ DOMAIN Rows = 1 .. n /\ IsFiniteSet(1 .. n)
  <2>1. n \in Nat /\ n + 1 = Len(snapshots)
    BY <1>1, <1>2
  <2>2. DOMAIN Rows = 1 .. n
    BY DEF Rows
  <2> QED BY <2>1, <2>2, FS_Interval
<1> HIDE DEF n
<1>4. \A i \in 1 .. n + 1 : /\ text[i] \in Answers /\ text[i].ok
                            /\ ~text[i].exported => text[i].count = Empty
                            /\ text[i] = snapshots[i].text
  BY <1>1, <1>2, <1>3 DEF Counted, Recent
<1>5. \A i \in 1 .. n : Rows[i] = Row(text[i], text[i + 1])
  <2>1. \A i \in 1 .. n : i \in 1 .. n + 1 /\ i + 1 \in 1 .. n + 1
    BY <1>3
  <2>2. \A i \in 1 .. n : Rows[i] = Row(snapshots[i].text, snapshots[i + 1].text)
    BY <1>3 DEF Rows
  <2> QED BY <1>4, <2>1, <2>2
<1>6. WindowRow = Row(text[1], text[n + 1])
  <2>1. 1 \in 1 .. n + 1 /\ n + 1 \in 1 .. n + 1
    BY <1>3
  <2> QED BY <1>3, <1>4, <2>1 DEF WindowRow
<1> HIDE DEF text
<1>7. ASSUME NEW i \in 1 .. n
      PROVE  /\ text[i].exported = text[i + 1].exported
             /\ \A b \in Bucket : /\ text[i].count[b] \in Nat /\ text[i + 1].count[b] \in Nat
                                  /\ text[i].count[b] <= text[i + 1].count[b]
                                  /\ Rows[i].delta[b] = text[i + 1].count[b] - text[i].count[b]
  <2>1. i \in 1 .. n + 1 /\ i + 1 \in 1 .. n + 1
    BY <1>3
  <2>2. Rows[i].note # "reset" /\ Rows[i] = Row(text[i], text[i + 1])
    BY <1>3, <1>5
  <2>3. /\ text[i] \in Answers /\ text[i].ok /\ (~text[i].exported => text[i].count = Empty)
        /\ text[i + 1] \in Answers /\ text[i + 1].ok
        /\ (~text[i + 1].exported => text[i + 1].count = Empty)
    BY <1>4, <2>1
  <2>4. PICK t, u, row : /\ t = text[i] /\ u = text[i + 1] /\ row = Rows[i]
                         /\ t \in Answers /\ u \in Answers
    BY <2>3
  <2>5. /\ row = Row(t, u) /\ row.note # "reset"
        /\ t.ok /\ (~t.exported => t.count = Empty)
        /\ u.ok /\ (~u.exported => u.count = Empty)
    BY <2>2, <2>3, <2>4
  <2>6. row.note \in Reported /\ row.delta = [b \in Bucket |-> u.count[b] - t.count[b]]
    BY <2>4, <2>5, RowNote
  <2>7. t.exported = u.exported /\ \A b \in Bucket : t.count[b] <= u.count[b]
    BY <2>4, <2>5, <2>6, RowNote
  <2>8. \A b \in Bucket : /\ t.count[b] \in Nat /\ u.count[b] \in Nat
                          /\ row.delta[b] = u.count[b] - t.count[b]
    BY <2>4, <2>6, TextTypes
  <2> QED BY <2>4, <2>7, <2>8
<1>8. text[n + 1].exported = text[1].exported
  <2> DEFINE e == [i \in 1 .. n + 1 |-> text[i].exported]
  <2>1. ASSUME NEW i \in 1 .. n PROVE e[i + 1] = e[i]
    <3>1. i \in 1 .. n + 1 /\ i + 1 \in 1 .. n + 1
      BY <1>3
    <3>2. e[i] = text[i].exported /\ e[i + 1] = text[i + 1].exported
      BY <3>1
    <3> QED BY <1>7, <3>2
  <2>2. e[n + 1] = text[n + 1].exported /\ e[1] = text[1].exported
    BY <1>3
  <2> HIDE DEF e
  <2>3. e[n + 1] = e[1]
    BY <1>3, <2>1, Unchanging
  <2> QED BY <2>2, <2>3
<1>9. ASSUME NEW b \in Bucket
      PROVE  /\ text[1].count[b] <= text[n + 1].count[b]
             /\ MapThenSumSet(LAMBDA i : Rows[i].delta[b], 1 .. n)
                  = text[n + 1].count[b] - text[1].count[b]
  <2> DEFINE c == [i \in 1 .. n + 1 |-> text[i].count[b]]
             f == [i \in 1 .. n |-> Rows[i].delta[b]]
  <2>1. \A i \in 1 .. n + 1 : c[i] \in Nat
    BY <1>4, TextTypes
  <2>2. \A i \in 1 .. n : c[i] <= c[i + 1] /\ f[i] = c[i + 1] - c[i]
    BY <1>3, <1>7
  <2>3. c[n + 1] = text[n + 1].count[b] /\ c[1] = text[1].count[b]
    BY <1>3
  <2>4. \A i \in 1 .. n : f[i] = Rows[i].delta[b]
    OBVIOUS
  <2> HIDE DEF c, f
  <2>5. c[1] <= c[n + 1] /\ SumOf(f, 1 .. n) = c[n + 1] - c[1]
    BY <1>3, <2>1, <2>2, Telescope
  <2>6. MapThenSumSet(LAMBDA i : Rows[i].delta[b], 1 .. n) = SumOf(f, 1 .. n)
    <3>1. IsFiniteSet(1 .. n)
      BY <1>3, FS_Interval
    <3> QED BY <2>4, <3>1, RowSum
  <2> QED BY <2>3, <2>5, <2>6
<1>10. /\ text[1] \in Answers /\ text[1].ok /\ (~text[1].exported => text[1].count = Empty)
       /\ text[n + 1] \in Answers /\ text[n + 1].ok
       /\ (~text[n + 1].exported => text[n + 1].count = Empty)
  BY <1>3, <1>4
<1>11. /\ WindowRow.note \in Reported
       /\ \A b \in Bucket : WindowRow.delta[b] = text[n + 1].count[b] - text[1].count[b]
  <2>1. PICK t, u, row : /\ t = text[1] /\ u = text[n + 1] /\ row = WindowRow
                         /\ t \in Answers /\ u \in Answers
    BY <1>10
  <2>2. /\ row = Row(t, u)
        /\ t.ok /\ (~t.exported => t.count = Empty)
        /\ u.ok /\ (~u.exported => u.count = Empty)
        /\ t.exported = u.exported /\ \A b \in Bucket : t.count[b] <= u.count[b]
    BY <1>6, <1>8, <1>9, <1>10, <2>1
  <2>3. row.note \in Reported /\ row.delta = [b \in Bucket |-> u.count[b] - t.count[b]]
    BY <2>1, <2>2, RowNote
  <2> QED BY <2>1, <2>3
<1> QED BY <1>3, <1>9, <1>11

LEMMA DeltasFollow == Inv /\ Counted => DeltasSound
<1> SUFFICES ASSUME Inv, Counted, main = "done" PROVE DeltasSound
  BY DEF DeltasSound
<1>1. ASSUME NEW row \in AllRows, NEW b \in Bucket, row.note \in Reported
      PROVE  /\ row.delta[b] \in 0 .. Done(row.served, b)
             /\ restarts = 0 => row.delta[b] = Done(row.served, b)
  BY <1>1, RowDelta
<1>2. SeriesStatus = "ok" /\ (\A i \in DOMAIN Rows : Rows[i].note # "reset") =>
         /\ WindowRow.note \in Reported
         /\ \A b \in Bucket :
              WindowRow.delta[b] = MapThenSumSet(LAMBDA i : Rows[i].delta[b], DOMAIN Rows)
  BY WindowAddsUp
<1> QED BY <1>1, <1>2 DEF DeltasSound, Reported, Done

\* What a row reports was done by the server between its two snapshots, all of it if the
\* server did not restart, and the rows of an unbroken series partition the window: for
\* every interleaving of the two threads with the server and its restarts.
THEOREM DeltasAlwaysSound == Spec => []DeltasSound
BY DeltasFollow, CountedAlways, PTL

-----------------------------------------------------------------------------
(* Quantiles: the bucket that covers a rank, and the edge below it.        *)

LEMMA MinOf == ASSUME NEW N, N \subseteq Nat, N # {}
               PROVE  Min(N) \in N /\ \A m \in N : Min(N) <= m
BY LeastNumber DEF Min

LEMMA MaxOf ==
  ASSUME NEW N, N \subseteq Nat, N # {}, NEW k \in Nat, \A m \in N : m <= k
  PROVE  Max(N) \in N /\ \A m \in N : m <= Max(N)
<1> DEFINE D == {k - m : m \in N}
<1>1. PICK d \in D : \A e \in D : d <= e
  <2>1. ASSUME NEW m \in N PROVE k - m \in Nat
    <3>1. m \in Nat /\ m <= k
      OBVIOUS
    <3> QED BY <3>1
  <2>2. D \subseteq Nat /\ D # {}
    BY <2>1
  <2> HIDE DEF D
  <2> QED BY <2>2, LeastNumber
<1>2. PICK n \in N : d = k - n
  OBVIOUS
<1>3. ASSUME NEW m \in N PROVE n >= m
  <2>1. d <= k - m /\ m \in Nat /\ n \in Nat
    BY <1>1
  <2> QED BY <1>2, <2>1
<1> QED BY <1>2, <1>3 DEF Max

LEMMA EdgeTypes == /\ Edges \subseteq Nat \ {0} /\ Edges \subseteq Bucket /\ 0 \notin Edges
                   /\ \A e \in Edges : e < Inf
BY CollectorAssumption DEF CollectorAssumption, Bucket

LEMMA LowerEdgeOf ==
  ASSUME NEW le \in Edges
  PROVE  /\ LowerEdge(le) \in Nat /\ LowerEdge(le) \in Edges \cup {0} /\ LowerEdge(le) < le
         /\ \A e \in Edges \cup {0} : e < le => e <= LowerEdge(le)
<1> DEFINE N == {0} \cup {e \in Edges : e < le}
<1>1. /\ N \subseteq Nat /\ N # {} /\ le \in Nat /\ 0 < le
      /\ \A m \in N : m < le /\ m <= le /\ m \in Edges \cup {0}
      /\ \A e \in Edges \cup {0} : e < le => e \in N
  <2>1. le \in Nat /\ 0 < le /\ \A e \in Edges : e \in Nat
    BY EdgeTypes
  <2>2. N \subseteq Nat /\ 0 \in N
    <3>1. \A m \in N : m = 0 \/ m \in Edges
      OBVIOUS
    <3> HIDE DEF N
    <3>2. ASSUME NEW m \in N PROVE m \in Nat
      <4>1. CASE m = 0
        BY <4>1
      <4>2. CASE m \in Edges
        BY <2>1, <4>2
      <4> QED BY <3>1, <4>1, <4>2
    <3> QED BY <3>2 DEF N
  <2>3. \A m \in N : m < le /\ m <= le /\ m \in Edges \cup {0}
    BY <2>1
  <2>4. \A e \in Edges \cup {0} : e < le => e \in N
    OBVIOUS
  <2> QED BY <2>1, <2>2, <2>3, <2>4
<1>2. LowerEdge(le) = Max(N)
  BY DEF LowerEdge
<1> HIDE DEF N
<1>3. Max(N) \in N /\ \A m \in N : m <= Max(N)
  BY <1>1, MaxOf
<1> QED BY <1>1, <1>2, <1>3

Below(d, le) == IF LowerEdge(le) = 0 THEN 0 ELSE d[LowerEdge(le)]
Width(d, le) == 100 * (d[le] - Below(d, le))
Rank(d, q, le) == q * d[Inf] - 100 * Below(d, le)

\* The interpolation never leaves the first bucket that covers the rank, whatever the
\* counts below it are.
LEMMA QuantileForm ==
  ASSUME NEW d \in Histogram, d[Inf] # 0, NEW q \in Nat \ {0}, ~Beyond(d, q)
  PROVE  \E le \in Edges :
           /\ le \in Covering(d, q) /\ \A m \in Covering(d, q) : le <= m
           /\ Rank(d, q, le) \in Nat \ {0} /\ Width(d, le) \in Nat
           /\ Rank(d, q, le) <= Width(d, le)
           /\ Quantile(d, q).den = Width(d, le)
           /\ Quantile(d, q).num = LowerEdge(le) * Width(d, le)
                                     + (le - LowerEdge(le)) * Rank(d, q, le)
<1> DEFINE le == Min(Covering(d, q))
<1>1. le \in Covering(d, q) /\ \A m \in Covering(d, q) : le <= m
  <2>1. Covering(d, q) \subseteq Nat /\ Covering(d, q) # {}
    BY EdgeTypes DEF Covering, Beyond
  <2> QED BY <2>1, MinOf
<1>2. Quantile(d, q) =
        IF Width(d, le) = 0 THEN [num |-> le, den |-> 1]
        ELSE [num |-> LowerEdge(le) * Width(d, le) + (le - LowerEdge(le)) * Rank(d, q, le),
              den |-> Width(d, le)]
  BY DEF Quantile, Width, Rank, Below
<1> HIDE DEF le
<1>3. le \in Edges /\ 100 * d[le] >= q * d[Inf]
  BY <1>1 DEF Covering
<1>4. LowerEdge(le) \in Edges => 100 * d[LowerEdge(le)] < q * d[Inf]
  <2> SUFFICES ASSUME LowerEdge(le) \in Edges, ~(100 * d[LowerEdge(le)] < q * d[Inf]) PROVE FALSE
    OBVIOUS
  <2>1. d[LowerEdge(le)] \in Nat /\ d[Inf] \in Nat
    BY EdgeTypes, Constants DEF Histogram
  <2>2. q * d[Inf] \in Nat
    BY <2>1
  <2>3. 100 * d[LowerEdge(le)] >= q * d[Inf]
    BY <2>1, <2>2
  <2>4. LowerEdge(le) \in Covering(d, q)
    BY <2>3 DEF Covering
  <2>5. le <= LowerEdge(le) /\ LowerEdge(le) < le /\ LowerEdge(le) \in Nat /\ le \in Nat
    BY <1>1, <1>3, <2>4, LowerEdgeOf, EdgeTypes
  <2> QED BY <2>5
<1>5. d[le] \in Nat /\ q * d[Inf] \in Nat \ {0} /\ Below(d, le) \in Nat
      /\ 100 * Below(d, le) < q * d[Inf]
  <2>1. d[le] \in Nat /\ d[Inf] \in Nat \ {0}
    BY <1>3, EdgeTypes, Constants DEF Histogram
  <2>2. q * d[Inf] \in Nat \ {0}
    BY <2>1
  <2>3. LowerEdge(le) \in Edges \cup {0}
    BY <1>3, LowerEdgeOf
  <2>4. CASE LowerEdge(le) = 0
    BY <2>1, <2>2, <2>4 DEF Below
  <2>5. CASE LowerEdge(le) # 0
    <3>1. d[LowerEdge(le)] \in Nat /\ Below(d, le) = d[LowerEdge(le)] /\ LowerEdge(le) \in Edges
      BY <2>3, <2>5, EdgeTypes DEF Below, Histogram
    <3> QED BY <1>4, <2>1, <2>2, <3>1
  <2> QED BY <2>4, <2>5
<1>6. /\ Rank(d, q, le) \in Nat \ {0} /\ Width(d, le) \in Nat
      /\ Rank(d, q, le) <= Width(d, le)
  <2>1. \A x, y, z \in Nat : 100 * x >= z /\ 100 * y < z =>
          z - 100 * y \in Nat \ {0} /\ 100 * (x - y) \in Nat /\ z - 100 * y <= 100 * (x - y)
    OBVIOUS
  <2> QED BY <1>3, <1>5, <2>1 DEF Rank, Width
<1>7. Width(d, le) # 0
  BY <1>6
<1> QED BY <1>1, <1>2, <1>3, <1>6, <1>7

LEMMA Products == \A x, y, z \in Nat : x * y \in Nat /\ x * y = y * x /\ (x * y) * z = x * (y * z)
                                       /\ (x <= y => x * z <= y * z)
                                       /\ (x < y /\ z # 0 => x * z < y * z)
<1>1. ASSUME NEW x \in Nat, NEW y \in Nat, NEW z \in Nat
      PROVE  /\ x * y \in Nat /\ x * y = y * x /\ (x * y) * z = x * (y * z)
             /\ x <= y => x * z <= y * z
             /\ x < y /\ z # 0 => x * z < y * z
  OBVIOUS
<1> QED BY <1>1

\* The point at n of d between two edges lies above the lower and not above the upper.
LEMMA Interpolated ==
  ASSUME NEW low \in Nat, NEW high \in Nat, low < high,
         NEW n \in Nat \ {0}, NEW d \in Nat, n <= d
  PROVE  /\ low * d + (high - low) * n \in Nat
         /\ low * d < low * d + (high - low) * n
         /\ low * d + (high - low) * n <= high * d
<1>1. PICK w \in Nat \ {0} : w = high - low /\ high = low + w
  <2>1. high - low \in Nat \ {0} /\ high = low + (high - low)
    OBVIOUS
  <2> QED BY <2>1
<1>2. low * d \in Nat /\ w * n \in Nat /\ w * n > 0
  OBVIOUS
<1>3. w * n <= w * d
  BY Products
<1>4. (low + w) * d = low * d + w * d /\ w * d \in Nat
  OBVIOUS
<1>5. high * d = low * d + w * d
  BY <1>1, <1>4
<1> QED BY <1>1, <1>2, <1>3, <1>4, <1>5

-----------------------------------------------------------------------------
(* Quantiles: a later rank, and the rank of a request.                     *)

\* The first part of QuantilesSound, for any counts.
LEMMA QuantilesGrow ==
  ASSUME NEW d \in Histogram, d[Inf] # 0, NEW p \in Nat \ {0}, NEW q \in Nat \ {0}, p < q,
         ~Beyond(d, q)
  PROVE  /\ ~Beyond(d, p)
         /\ Quantile(d, p).num * Quantile(d, q).den <= Quantile(d, q).num * Quantile(d, p).den
<1>1. d[Inf] \in Nat \ {0}
  BY Constants DEF Histogram
<1>2. p * d[Inf] \in Nat /\ q * d[Inf] \in Nat /\ p * d[Inf] < q * d[Inf]
  BY <1>1, Products
<1>3. Covering(d, q) \subseteq Covering(d, p)
  <2>1. \A e \in Edges : 100 * d[e] \in Nat
    BY EdgeTypes DEF Histogram
  <2> QED BY <1>2, <2>1 DEF Covering
<1>4. ~Beyond(d, p)
  BY <1>3 DEF Beyond
<1>5. PICK a \in Edges :
           /\ a \in Covering(d, p) /\ \A m \in Covering(d, p) : a <= m
           /\ Rank(d, p, a) \in Nat \ {0} /\ Width(d, a) \in Nat
           /\ Rank(d, p, a) <= Width(d, a)
           /\ Quantile(d, p).den = Width(d, a)
           /\ Quantile(d, p).num = LowerEdge(a) * Width(d, a)
                                     + (a - LowerEdge(a)) * Rank(d, p, a)
  BY <1>4, QuantileForm
<1>6. PICK b \in Edges :
           /\ b \in Covering(d, q) /\ \A m \in Covering(d, q) : b <= m
           /\ Rank(d, q, b) \in Nat \ {0} /\ Width(d, b) \in Nat
           /\ Rank(d, q, b) <= Width(d, b)
           /\ Quantile(d, q).den = Width(d, b)
           /\ Quantile(d, q).num = LowerEdge(b) * Width(d, b)
                                     + (b - LowerEdge(b)) * Rank(d, q, b)
  BY QuantileForm
<1>7. /\ a \in Nat /\ b \in Nat /\ a <= b
      /\ LowerEdge(a) \in Nat /\ LowerEdge(a) < a /\ LowerEdge(b) \in Nat /\ LowerEdge(b) < b
      /\ a < b => a <= LowerEdge(b)
  BY <1>3, <1>5, <1>6, EdgeTypes, LowerEdgeOf
<1>8. CASE a = b
  <2>1. Rank(d, p, a) < Rank(d, q, a)
    <3>1. \A x, y, z \in Int : x < y => x - z < y - z
      OBVIOUS
    <3>2. Below(d, a) \in Nat
      BY LowerEdgeOf, EdgeTypes DEF Below, Histogram
    <3> QED BY <1>2, <3>1, <3>2 DEF Rank
  <2>2. (a - LowerEdge(a)) * Rank(d, p, a) <= (a - LowerEdge(a)) * Rank(d, q, a)
    <3>1. a - LowerEdge(a) \in Nat
      BY <1>7
    <3> QED BY <1>5, <1>6, <1>8, <2>1, <3>1, Products
  <2>3. /\ LowerEdge(a) * Width(d, a) \in Nat
        /\ (a - LowerEdge(a)) * Rank(d, p, a) \in Nat /\ (a - LowerEdge(a)) * Rank(d, q, a) \in Nat
    <3>1. a - LowerEdge(a) \in Nat
      BY <1>7
    <3> QED BY <1>5, <1>6, <1>7, <1>8, <3>1, Products
  <2>4. /\ Quantile(d, p).num \in Nat /\ Quantile(d, q).num \in Nat
        /\ Quantile(d, p).num <= Quantile(d, q).num
        /\ Quantile(d, p).den = Quantile(d, q).den /\ Quantile(d, p).den \in Nat
    BY <1>5, <1>6, <1>8, <2>2, <2>3
  <2> QED BY <1>4, <2>4, Products
<1>9. CASE a # b
  <2> DEFINE P == Quantile(d, p)
             Q == Quantile(d, q)
  <2>1. P.num \in Nat /\ P.num <= a * P.den /\ P.den \in Nat
    BY <1>5, <1>7, Interpolated
  <2>2. Q.num \in Nat /\ LowerEdge(b) * Q.den < Q.num /\ Q.den \in Nat
    BY <1>6, <1>7, Interpolated
  <2>3. a <= LowerEdge(b)
    BY <1>7, <1>9
  <2> HIDE DEF P, Q
  <2>4. P.num * Q.den <= (a * P.den) * Q.den
    BY <1>7, <2>1, <2>2, Products
  <2>5. (a * P.den) * Q.den = (a * Q.den) * P.den
    BY <1>7, <2>1, <2>2, Products
  <2>6. a * Q.den <= LowerEdge(b) * Q.den /\ a * Q.den \in Nat /\ LowerEdge(b) * Q.den \in Nat
    BY <1>7, <2>2, <2>3, Products
  <2>7. (a * Q.den) * P.den <= Q.num * P.den
    <3>1. a * Q.den <= Q.num
      BY <2>2, <2>6
    <3> QED BY <2>1, <2>2, <2>6, <3>1, Products
  <2>8. P.num * Q.den \in Nat /\ (a * Q.den) * P.den \in Nat /\ Q.num * P.den \in Nat
    BY <2>1, <2>2, <2>6, Products
  <2>9. P.num * Q.den <= Q.num * P.den
    BY <2>4, <2>5, <2>7, <2>8
  <2> QED BY <1>4, <2>9 DEF P, Q
<1> QED BY <1>8, <1>9

\* The requests that were served faster than edge b.
Faster(served, b) == Cardinality({i \in DOMAIN served : served[i] < b})

LEMMA FasterThan ==
  ASSUME NEW s \in Seq(Bucket)
  PROVE  /\ \A b \in Bucket : Done(s, b) \in Nat /\ Faster(s, b) \in Nat
         /\ \A a, b \in Bucket : a < b => Done(s, a) <= Faster(s, b)
         /\ \A a, b \in Bucket : a < b /\ (\A c \in Bucket : c < b => c <= a) =>
              Faster(s, b) = Done(s, a)
         /\ \A b \in Bucket : (\A c \in Bucket : ~(c < b)) => Faster(s, b) = 0
         /\ Done(s, Inf) = Len(s)
<1> DEFINE Upto(b) == {i \in DOMAIN s : s[i] <= b}
           Under(b) == {i \in DOMAIN s : s[i] < b}
<1>1. Len(s) \in Nat /\ DOMAIN s = 1 .. Len(s) /\ \A i \in 1 .. Len(s) : s[i] \in Bucket
  BY LenProperties, ElementOfSeq
<1>2. IsFiniteSet(1 .. Len(s)) /\ Cardinality(1 .. Len(s)) = Len(s)
  <2> DEFINE len == Len(s)
  <2>1. len \in Nat /\ 1 \in Int /\ len \in Int
    BY <1>1
  <2> HIDE DEF len
  <2>2. IsFiniteSet(1 .. len) /\ Cardinality(1 .. len) = IF 1 > len THEN 0 ELSE len - 1 + 1
    BY <2>1, FS_Interval
  <2>3. Cardinality(1 .. len) = len
    BY <2>1, <2>2
  <2> QED BY <2>2, <2>3 DEF len
<1>3. \A b \in Bucket : /\ IsFiniteSet(Upto(b)) /\ IsFiniteSet(Under(b))
                        /\ Done(s, b) = Cardinality(Upto(b))
                        /\ Faster(s, b) = Cardinality(Under(b))
  <2>1. \A b \in Bucket : IsFiniteSet(Upto(b)) /\ IsFiniteSet(Under(b))
    BY <1>1, <1>2, FS_Subset
  <2> QED BY <2>1 DEF Done, Faster
<1>4. \A b \in Bucket : b \in Nat /\ b <= Inf
  BY Constants
<1>5. \A a, b \in Bucket : a < b => Upto(a) \subseteq Under(b)
  BY <1>1, <1>4
<1>6. \A a, b \in Bucket : a < b /\ (\A c \in Bucket : c < b => c <= a) => Under(b) = Upto(a)
  BY <1>1, <1>4
<1>7. \A b \in Bucket : (\A c \in Bucket : ~(c < b)) => Under(b) = {}
  BY <1>1
<1>8. Upto(Inf) = 1 .. Len(s)
  BY <1>1, <1>4
<1> HIDE DEF Upto, Under
<1>9. \A b \in Bucket : Done(s, b) \in Nat /\ Faster(s, b) \in Nat
  BY <1>3, FS_CardinalityType
<1>10. \A a, b \in Bucket : a < b => Done(s, a) <= Faster(s, b)
  BY <1>3, <1>5, FS_Subset
<1>11. Done(s, Inf) = Len(s)
  BY <1>2, <1>3, <1>8, Constants
<1> QED BY <1>3, <1>6, <1>7, <1>9, <1>10, <1>11, FS_EmptySet

\* There is a request of each rank.
LEMMA NearestRankOf ==
  ASSUME NEW s \in Seq(Bucket), Len(s) # 0, NEW q \in 1 .. 100
  PROVE  /\ NearestRank(s, q) \in Bucket
         /\ 100 * Done(s, NearestRank(s, q)) >= q * Len(s)
         /\ 100 * Faster(s, NearestRank(s, q)) < q * Len(s)
<1> DEFINE N == {b \in Bucket : 100 * Done(s, b) >= q * Len(s)}
<1>1. Len(s) \in Nat \ {0} /\ q * Len(s) \in Nat \ {0} /\ q * Len(s) <= 100 * Len(s)
  <2>1. Len(s) \in Nat \ {0} /\ q \in Nat \ {0} /\ q <= 100
    BY LenProperties
  <2> QED BY <2>1, Products
<1>2. Inf \in N /\ N \subseteq Nat
  BY <1>1, FasterThan, Constants
<1>3. PICK b \in N : \A m \in N : b <= m
  <2> HIDE DEF N
  <2> QED BY <1>2, LeastNumber
<1>4. b \in Bucket /\ 100 * Done(s, b) >= q * Len(s) /\ b \in Nat
  BY <1>2
<1>5. 100 * Faster(s, b) < q * Len(s)
  <2> DEFINE M == {c \in Bucket : c < b}
  <2>1. CASE M = {}
    <3>1. Faster(s, b) = 0
      BY <1>4, <2>1, FasterThan
    <3> QED BY <1>1, <3>1
  <2>2. CASE M # {}
    <3>2. \A m \in M : m \in Bucket /\ m < b
      OBVIOUS
    <3>3. \A c \in Bucket : c < b => c \in M
      OBVIOUS
    <3> HIDE DEF M
    <3>0. \A m \in M : m \in Nat /\ m < b
      BY <3>2, Constants
    <3>1. M \subseteq Nat /\ \A m \in M : m <= b
      BY <1>4, <3>0
    <3>4. Max(M) \in M /\ \A m \in M : m <= Max(M)
      BY <1>4, <2>2, <3>1, MaxOf
    <3>5. Max(M) \in Bucket /\ Max(M) < b /\ Max(M) \in Nat /\ \A c \in Bucket : c < b => c <= Max(M)
      BY <3>1, <3>2, <3>3, <3>4
    <3>6. Faster(s, b) = Done(s, Max(M)) /\ Done(s, Max(M)) \in Nat
      BY <1>4, <3>5, FasterThan
    <3>7. Max(M) \notin N
      BY <1>3, <1>4, <3>5
    <3> QED BY <1>1, <3>5, <3>6, <3>7
  <2> QED BY <2>1, <2>2
<1>6. NearestRank(s, q) =
        CHOOSE c \in Bucket : 100 * Done(s, c) >= q * Len(s) /\ 100 * Faster(s, c) < q * Len(s)
  BY DEF NearestRank, Done, Faster
<1> QED BY <1>4, <1>5, <1>6

\* The second part of QuantilesSound: if the deltas count what was served.
LEMMA QuantileExact ==
  ASSUME NEW s \in Seq(Bucket), NEW d \in Histogram, d[Inf] # 0,
         \A b \in Bucket : d[b] = Done(s, b), NEW q \in 1 .. 100
  PROVE  LET at == NearestRank(s, q)
             is == Quantile(d, q)
         IN  IF at = Inf THEN Beyond(d, q)
             ELSE /\ ~Beyond(d, q)
                  /\ is.num <= at * is.den
                  /\ \A e \in Edges \cup {0} : e < at => is.num > e * is.den
<1> DEFINE at == NearestRank(s, q)
           is == Quantile(d, q)
<1>1. /\ at \in Bucket /\ 100 * Done(s, at) >= q * Len(s) /\ 100 * Faster(s, at) < q * Len(s)
      /\ d[Inf] = Len(s) /\ Len(s) \in Nat /\ q * Len(s) \in Nat
  <2>1. d[Inf] = Len(s) /\ Len(s) \in Nat
    BY FasterThan, Constants, LenProperties
  <2>2. q * Len(s) \in Nat
    BY <2>1
  <2> QED BY <2>1, <2>2, NearestRankOf
<1> HIDE DEF at
<1>2. at \in Nat /\ at <= Inf /\ \A e \in Edges : e \in Nat /\ e \in Bucket /\ e < Inf
  BY <1>1, Constants, EdgeTypes
<1>3. ASSUME NEW e \in Edges, e < at PROVE e \notin Covering(d, q)
  <2>1. d[e] <= Faster(s, at) /\ d[e] \in Nat /\ Faster(s, at) \in Nat
    BY <1>1, <1>2, <1>3, FasterThan
  <2> QED BY <1>1, <2>1 DEF Covering
<1>4. CASE at = Inf
  <2>1. Covering(d, q) = {}
    BY <1>2, <1>3, <1>4 DEF Covering
  <2> QED BY <1>4, <2>1 DEF Beyond, at
<1>5. CASE at # Inf
  <2>1. at \in Edges /\ at \in Covering(d, q)
    BY <1>1, <1>5 DEF Covering, Bucket
  <2>2. ~Beyond(d, q)
    BY <2>1 DEF Beyond
  <2>3. PICK le \in Edges :
           /\ le \in Covering(d, q) /\ \A m \in Covering(d, q) : le <= m
           /\ Rank(d, q, le) \in Nat \ {0} /\ Width(d, le) \in Nat
           /\ Rank(d, q, le) <= Width(d, le)
           /\ is.den = Width(d, le)
           /\ is.num = LowerEdge(le) * Width(d, le) + (le - LowerEdge(le)) * Rank(d, q, le)
    <3>1. q \in Nat \ {0}
      OBVIOUS
    <3> QED BY <2>2, <3>1, QuantileForm
  <2> HIDE DEF is
  <2>4. le = at
    BY <1>2, <1>3, <2>1, <2>3
  <2>5. /\ LowerEdge(at) \in Nat /\ LowerEdge(at) < at
        /\ \A e \in Edges \cup {0} : e < at => e <= LowerEdge(at)
    BY <2>1, LowerEdgeOf
  <2>6. /\ is.num \in Nat /\ is.den \in Nat
        /\ LowerEdge(at) * is.den < is.num /\ is.num <= at * is.den
    <3>1. /\ Rank(d, q, at) \in Nat \ {0} /\ Width(d, at) \in Nat
          /\ Rank(d, q, at) <= Width(d, at)
          /\ is.den = Width(d, at)
          /\ is.num = LowerEdge(at) * Width(d, at) + (at - LowerEdge(at)) * Rank(d, q, at)
      BY <2>3, <2>4
    <3>2. PICK low \in Nat, n \in Nat \ {0}, w \in Nat :
            low = LowerEdge(at) /\ n = Rank(d, q, at) /\ w = Width(d, at)
      BY <2>5, <3>1
    <3>3. low < at /\ n <= w
      BY <2>5, <3>1, <3>2
    <3>4. /\ low * w + (at - low) * n \in Nat
          /\ low * w < low * w + (at - low) * n
          /\ low * w + (at - low) * n <= at * w
      BY <1>2, <3>3, Interpolated
    <3> QED BY <3>1, <3>2, <3>4
  <2>7. ASSUME NEW e \in Edges \cup {0}, e < at PROVE is.num > e * is.den
    <3>1. e \in Nat /\ e <= LowerEdge(at)
      BY <1>2, <2>5, <2>7
    <3>2. e * is.den <= LowerEdge(at) * is.den /\ e * is.den \in Nat /\ LowerEdge(at) * is.den \in Nat
      BY <2>5, <2>6, <3>1, Products
    <3> QED BY <2>6, <3>2
  <2> QED BY <1>5, <2>2, <2>6, <2>7 DEF at, is
<1> QED BY <1>4, <1>5

LEMMA QuantilesFollow == Inv /\ Counted => QuantilesSound
<1> SUFFICES ASSUME Inv, Counted, main = "done", NEW row \in AllRows, row.note = "measured"
             PROVE  /\ \A p, q \in Quantiles : p < q =>
                         \/ Beyond(row.delta, q)
                         \/ /\ ~Beyond(row.delta, p)
                            /\ Quantile(row.delta, p).num * Quantile(row.delta, q).den
                                 <= Quantile(row.delta, q).num * Quantile(row.delta, p).den
                    /\ restarts = 0 => \A q \in Quantiles :
                         LET at == NearestRank(row.served, q)
                             is == Quantile(row.delta, q)
                         IN  IF at = Inf THEN Beyond(row.delta, q)
                             ELSE /\ ~Beyond(row.delta, q)
                                  /\ is.num <= at * is.den
                                  /\ \A e \in Edges \cup {0} : e < at => is.num > e * is.den
  BY Zenon DEF QuantilesSound
<1>1. /\ row.served \in Seq(Bucket) /\ row.delta \in Histogram /\ row.delta[Inf] # 0
      /\ restarts = 0 => \A b \in Bucket : row.delta[b] = Done(row.served, b)
  <2>1. row.note \in Reported
    BY DEF Reported
  <2>2. /\ row.served \in Seq(Bucket) /\ row.delta = [b \in Bucket |-> row.delta[b]]
        /\ row.delta[Inf] # 0
        /\ \A b \in Bucket : /\ Done(row.served, b) \in Nat
                             /\ row.delta[b] \in 0 .. Done(row.served, b)
                             /\ restarts = 0 => row.delta[b] = Done(row.served, b)
    BY <2>1, RowDelta
  <2>3. \A b \in Bucket : row.delta[b] \in Nat
    BY <2>2
  <2> QED BY <2>2, <2>3 DEF Histogram
<1>2. PICK s \in Seq(Bucket), d \in Histogram : s = row.served /\ d = row.delta
  BY <1>1
<1>3. \A q \in Quantiles : q \in 1 .. 100 /\ q \in Nat \ {0}
  BY DEF Quantiles
<1>4. \A p, q \in Quantiles : p < q /\ ~Beyond(d, q) =>
         /\ ~Beyond(d, p)
         /\ Quantile(d, p).num * Quantile(d, q).den <= Quantile(d, q).num * Quantile(d, p).den
  BY <1>1, <1>2, <1>3, QuantilesGrow
<1>5. ASSUME restarts = 0, NEW q \in Quantiles
      PROVE  LET at == NearestRank(s, q)
                 is == Quantile(d, q)
             IN  IF at = Inf THEN Beyond(d, q)
                 ELSE /\ ~Beyond(d, q)
                      /\ is.num <= at * is.den
                      /\ \A e \in Edges \cup {0} : e < at => is.num > e * is.den
  <2>1. d[Inf] # 0 /\ \A b \in Bucket : d[b] = Done(s, b)
    BY <1>1, <1>2, <1>5
  <2> QED BY <1>3, <2>1, QuantileExact
<1> QED BY <1>2, <1>4, <1>5

\* The quantiles of a row grow with the rank, whatever the server did, and if it did not
\* restart each lies in the bucket of the request of its rank: for every histogram and
\* every interleaving.
THEOREM QuantilesAlwaysSound == Spec => []QuantilesSound
BY QuantilesFollow, CountedAlways, PTL
=============================================================================
