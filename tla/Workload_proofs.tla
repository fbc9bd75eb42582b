--------------------------- MODULE Workload_proofs ---------------------------
(***************************************************************************)
(* Proofs about the way from a dataset to operations, for any messages,    *)
(* texts, settings and bounds: the reader of trajectories accepts exactly  *)
(* the well-formed ones, and their answer and calls are kept; a text is    *)
(* whole in its chunks; conversations are replayed in order, searched for  *)
(* in time and paced as people do; and corpora are read, stored, searched  *)
(* and added whole and in order, whatever shares the reader or fails.      *)
(*                                                                         *)
(* Each group of variables has an invariant of its own: what the other     *)
(* actions leave unchanged they cannot disturb.                            *)
(***************************************************************************)
EXTENDS Workload, FiniteSetTheorems, SequenceTheorems, WellFoundedInduction, TLAPS

-----------------------------------------------------------------------------
(* Records: what is true of the messages read so far.                      *)

\* The places of the calls, and their number, when another message is read.
NoRepeats(ms) == CallsDistinct(ms) /\ ObservationsFollow(ms)
NoneMalformed(ms) == \A i \in DOMAIN ms : ms[i].role # "malformed"

\* calls and observed are what the messages say.
ReadSoFar ==
  /\ msgs \in Seq(Message)
  /\ calls = {At(msgs, p) : p \in CallPlaces(msgs)}
  /\ observed = {msgs[i].call.id : i \in {j \in DOMAIN msgs : msgs[j].role = "tool"}}
  /\ NoRepeats(msgs) /\ NoneMalformed(msgs)

Idle == msgs = <<>> /\ calls = {} /\ observed = {}
Fresh == Idle /\ verdict \in {"none", "reading"}

RecordInv == /\ verdict \in {"none", "reading", "accepted", "rejected"}
             /\ verdict = "none" => Idle
             /\ verdict = "reading" => ReadSoFar
             /\ verdict \in {"accepted", "rejected"} => msgs \in Seq(Message) /\ msgs # <<>>
             /\ TasksSound

LEMMA PlaceIn ==
  ASSUME NEW ms, NEW p
  PROVE  p \in CallPlaces(ms) <=> \E i \in DOMAIN ms : \E k \in DOMAIN ms[i].calls : p = <<i, k>>
BY DEF CallPlaces

LEMMA PlaceParts ==
  ASSUME NEW ms, NEW p \in CallPlaces(ms)
  PROVE  /\ p[1] \in DOMAIN ms /\ p[2] \in DOMAIN ms[p[1]].calls
         /\ p = <<p[1], p[2]>>
         /\ At(ms, p) \in CallsOf(ms[p[1]])
BY DEF CallPlaces, At, CallsOf

LEMMA CallAt ==
  ASSUME NEW ms, NEW i \in DOMAIN ms, NEW k \in DOMAIN ms[i].calls
  PROVE  <<i, k>> \in CallPlaces(ms) /\ At(ms, <<i, k>>) = ms[i].calls[k]
BY DEF CallPlaces, At

\* One more message: the old ones stay, and its calls are new places.
LEMMA OneMoreMessage ==
  ASSUME NEW ms \in Seq(Message), NEW m \in Message
  PROVE  LET new == Append(ms, m)
         IN  /\ new \in Seq(Message) /\ new # <<>>
             /\ Len(new) = Len(ms) + 1 /\ DOMAIN new = 1 .. Len(ms) + 1
             /\ DOMAIN ms = 1 .. Len(ms) /\ Len(ms) \in Nat
             /\ new[Len(ms) + 1] = m
             /\ \A i \in DOMAIN ms : i \in DOMAIN new /\ new[i] = ms[i]
             /\ CallPlaces(new) = CallPlaces(ms) \cup {<<Len(ms) + 1, k>> : k \in DOMAIN m.calls}
             /\ \A p \in CallPlaces(ms) : At(new, p) = At(ms, p) /\ p[1] <= Len(ms)
             /\ \A k \in DOMAIN m.calls : At(new, <<Len(ms) + 1, k>>) = m.calls[k]
<1> DEFINE new == Append(ms, m)
           n == Len(ms) + 1
<1>1. /\ new \in Seq(Message) /\ new # <<>>
      /\ Len(new) = n /\ DOMAIN new = 1 .. n
      /\ DOMAIN ms = 1 .. Len(ms) /\ Len(ms) \in Nat
      /\ new[n] = m
      /\ \A i \in 1 .. Len(ms) : new[i] = ms[i]
  OBVIOUS
<1> HIDE DEF new
<1>2. \A i \in DOMAIN ms : i \in DOMAIN new /\ new[i] = ms[i] /\ i <= Len(ms)
  BY <1>1
<1>3. CallPlaces(new) \subseteq CallPlaces(ms) \cup {<<n, k>> : k \in DOMAIN m.calls}
  <2>1. SUFFICES ASSUME NEW i \in DOMAIN new, NEW k \in DOMAIN new[i].calls
                 PROVE  <<i, k>> \in CallPlaces(ms) \cup {<<n, j>> : j \in DOMAIN m.calls}
    BY PlaceIn
  <2>2. CASE i = n
    BY <1>1, <2>2
  <2>3. CASE i # n
    <3>1. i \in DOMAIN ms /\ new[i] = ms[i]
      BY <1>1, <2>3
    <3> QED BY <3>1, CallAt
  <2> QED BY <2>2, <2>3
<1>4. CallPlaces(ms) \cup {<<n, k>> : k \in DOMAIN m.calls} \subseteq CallPlaces(new)
  <2>1. ASSUME NEW i \in DOMAIN ms, NEW k \in DOMAIN ms[i].calls
        PROVE  <<i, k>> \in CallPlaces(new)
    <3>1. k \in DOMAIN new[i].calls
      BY <1>2
    <3> QED BY <1>2, <3>1, CallAt
  <2>2. ASSUME NEW k \in DOMAIN m.calls PROVE <<n, k>> \in CallPlaces(new)
    <3>1. n \in DOMAIN new /\ k \in DOMAIN new[n].calls
      BY <1>1
    <3> QED BY <3>1, CallAt
  <2> QED BY <2>1, <2>2, PlaceIn
<1>5. \A p \in CallPlaces(ms) : At(new, p) = At(ms, p) /\ p[1] <= Len(ms)
  BY <1>2, PlaceParts DEF At
<1>6. \A k \in DOMAIN m.calls : At(new, <<n, k>>) = m.calls[k]
  BY <1>1 DEF At
<1> QED BY <1>1, <1>2, <1>3, <1>4, <1>5, <1>6 DEF new

\* A message that is no assistant's makes no calls.
LEMMA MessageFacts ==
  ASSUME NEW m \in Message
  PROVE  /\ m.role \in Role /\ m.text \in {"blank", "answer", "other"}
         /\ Len(m.calls) \in Nat /\ DOMAIN m.calls = 1 .. Len(m.calls)
         /\ DOMAIN m.calls # {} => m.role = "assistant"
BY TrajectoryAssumption DEF IsMessage

\* A call that was made has a place, and an observation a message.
LEMMA ReadCalls ==
  ASSUME ReadSoFar
  PROVE  /\ \A c : c \in calls <=> \E p \in CallPlaces(msgs) : At(msgs, p) = c
         /\ \A d : d \in observed <=>
              \E i \in DOMAIN msgs : msgs[i].role = "tool" /\ msgs[i].call.id = d
         /\ \A p, q \in CallPlaces(msgs) : At(msgs, p).id = At(msgs, q).id => p = q
         /\ \A i \in DOMAIN msgs : msgs[i].role = "tool" => msgs[i].call \in calls
BY DEF ReadSoFar, NoRepeats, CallsDistinct, ObservationsFollow

LEMMA ValidMessage ==
  ASSUME ReadSoFar, NEW m \in Message, Valid(m)
  PROVE  NoRepeats(Append(msgs, m)) /\ NoneMalformed(Append(msgs, m))
<1> DEFINE new == Append(msgs, m)
           n == Len(msgs) + 1
<1>1. /\ DOMAIN new = 1 .. n /\ DOMAIN msgs = 1 .. Len(msgs) /\ Len(msgs) \in Nat
      /\ new[n] = m
      /\ \A i \in DOMAIN msgs : i \in DOMAIN new /\ new[i] = msgs[i]
      /\ CallPlaces(new) = CallPlaces(msgs) \cup {<<n, k>> : k \in DOMAIN m.calls}
      /\ \A p \in CallPlaces(msgs) : At(new, p) = At(msgs, p) /\ p[1] <= Len(msgs)
      /\ \A k \in DOMAIN m.calls : At(new, <<n, k>>) = m.calls[k]
  BY OneMoreMessage DEF ReadSoFar
<1> HIDE DEF new
<1>2. \A i \in DOMAIN new : i \in DOMAIN msgs \/ i = n
  BY <1>1
<1>3. CallsDistinct(new)
  <2>1. SUFFICES ASSUME NEW p \in CallPlaces(new), NEW q \in CallPlaces(new), p # q,
                        At(new, p).id = At(new, q).id
                 PROVE  FALSE
    BY DEF CallsDistinct
  <2>2. ASSUME NEW k \in DOMAIN m.calls, NEW r \in CallPlaces(msgs)
        PROVE  m.calls[k].id # At(new, r).id
    <3>1. NewCalls(m)
      BY MessageFacts DEF Valid
    <3>2. At(new, r) \in calls /\ At(new, r).id \in Ids(calls)
      BY <1>1, ReadCalls DEF Ids
    <3>3. m.calls[k].id \in Ids(CallsOf(m))
      BY DEF Ids, CallsOf
    <3> QED BY <3>1, <3>2, <3>3 DEF NewCalls
  <2>3. ASSUME NEW j \in DOMAIN m.calls, NEW k \in DOMAIN m.calls, j # k
        PROVE  m.calls[j].id # m.calls[k].id
    <3>1. NewCalls(m)
      BY MessageFacts DEF Valid
    <3> QED BY <3>1, <2>3 DEF NewCalls
  <2>4. CASE p \in CallPlaces(msgs) /\ q \in CallPlaces(msgs)
    BY <1>1, <2>1, <2>4, ReadCalls
  <2>5. CASE p \in CallPlaces(msgs) /\ q \notin CallPlaces(msgs)
    <3>1. PICK k \in DOMAIN m.calls : q = <<n, k>>
      BY <1>1, <2>5
    <3> QED BY <1>1, <2>1, <2>2, <2>5, <3>1
  <2>6. CASE p \notin CallPlaces(msgs) /\ q \in CallPlaces(msgs)
    <3>1. PICK k \in DOMAIN m.calls : p = <<n, k>>
      BY <1>1, <2>6
    <3> QED BY <1>1, <2>1, <2>2, <2>6, <3>1
  <2>7. CASE p \notin CallPlaces(msgs) /\ q \notin CallPlaces(msgs)
    <3>1. PICK j \in DOMAIN m.calls : p = <<n, j>>
      BY <1>1, <2>7
    <3>2. PICK k \in DOMAIN m.calls : q = <<n, k>>
      BY <1>1, <2>7
    <3> QED BY <1>1, <2>1, <2>3, <3>1, <3>2
  <2> QED BY <2>4, <2>5, <2>6, <2>7
<1>4. ObservationsFollow(new)
  <2>1. SUFFICES ASSUME NEW i \in DOMAIN new, new[i].role = "tool"
                 PROVE  /\ \E p \in CallPlaces(new) : p[1] < i /\ At(new, p) = new[i].call
                        /\ \A j \in DOMAIN new : Observes(new, j, new[i].call) => j = i
    BY DEF ObservationsFollow
  <2>2. m.role = "tool" =>
          /\ m.call \in calls
          /\ \A j \in DOMAIN msgs : msgs[j].role = "tool" => msgs[j].call # m.call
    BY ReadCalls DEF Valid, Matches
  <2>3. CASE i = n
    <3>1. PICK p \in CallPlaces(msgs) : At(msgs, p) = m.call
      BY <1>1, <2>1, <2>2, <2>3, ReadCalls
    <3>2. p \in CallPlaces(new) /\ p[1] < n /\ At(new, p) = m.call
      BY <1>1, <3>1, PlaceParts
    <3> QED BY <1>1, <1>2, <2>1, <2>2, <2>3, <3>2 DEF Observes
  <2>4. CASE i \in DOMAIN msgs
    <3>1. PICK p \in CallPlaces(msgs) : p[1] < i /\ At(msgs, p) = msgs[i].call
      BY <1>1, <2>1, <2>4 DEF ReadSoFar, NoRepeats, ObservationsFollow
    <3>2. \A j \in DOMAIN msgs : Observes(msgs, j, msgs[i].call) => j = i
      BY <1>1, <2>1, <2>4 DEF ReadSoFar, NoRepeats, ObservationsFollow
    <3> QED BY <1>1, <1>2, <2>1, <2>2, <2>4, <3>1, <3>2 DEF Observes
  <2> QED BY <1>2, <2>3, <2>4
<1>5. NoneMalformed(new)
  <2>1. m.role # "malformed"
    BY DEF Valid
  <2> QED BY <1>1, <1>2, <2>1 DEF ReadSoFar, NoneMalformed
<1> QED BY <1>3, <1>4, <1>5 DEF NoRepeats, new

\* A message that is not valid spoils the record for good.
LEMMA InvalidMessage ==
  ASSUME ReadSoFar, NEW m \in Message, ~Valid(m)
  PROVE  ~WellFormed(Append(msgs, m))
<1> DEFINE new == Append(msgs, m)
           n == Len(msgs) + 1
<1>1. /\ DOMAIN new = 1 .. n /\ DOMAIN msgs = 1 .. Len(msgs) /\ Len(msgs) \in Nat
      /\ new[n] = m
      /\ \A i \in DOMAIN msgs : i \in DOMAIN new /\ new[i] = msgs[i]
      /\ CallPlaces(new) = CallPlaces(msgs) \cup {<<n, k>> : k \in DOMAIN m.calls}
      /\ \A p \in CallPlaces(msgs) : At(new, p) = At(msgs, p) /\ p[1] <= Len(msgs)
      /\ \A k \in DOMAIN m.calls : At(new, <<n, k>>) = m.calls[k]
  BY OneMoreMessage DEF ReadSoFar
<1> HIDE DEF new
<1>2. SUFFICES ASSUME CallsDistinct(new), ObservationsFollow(new),
                      \A i \in DOMAIN new : new[i].role # "malformed"
               PROVE  FALSE
  BY DEF WellFormed, new
<1>3. n \in DOMAIN new
  BY <1>1
<1>4. m.role \in {"assistant", "tool"}
  BY <1>1, <1>2, <1>3, MessageFacts DEF Valid, Role
<1>5. CASE m.role = "assistant"
  <2>1. ~NewCalls(m)
    BY <1>5 DEF Valid
  <2>2. CASE Ids(CallsOf(m)) \cap Ids(calls) # {}
    <3>1. PICK c \in CallsOf(m), d \in calls : c.id = d.id
      BY <2>2 DEF Ids
    <3>2. PICK k \in DOMAIN m.calls : c = m.calls[k]
      BY DEF CallsOf
    <3>3. PICK p \in CallPlaces(msgs) : At(msgs, p) = d
      BY ReadCalls
    <3>4. <<n, k>> # p
      BY <1>1, <3>3
    <3>5. p \in CallPlaces(new) /\ At(new, p) = d
      BY <1>1, <3>3
    <3>6. <<n, k>> \in CallPlaces(new) /\ At(new, <<n, k>>) = c
      BY <1>1, <3>2
    <3>7. At(new, <<n, k>>).id # At(new, p).id
      BY <1>2, <3>4, <3>5, <3>6, Zenon DEF CallsDistinct
    <3> QED BY <3>1, <3>5, <3>6, <3>7, Zenon
  <2>3. CASE \E j, k \in DOMAIN m.calls : j # k /\ m.calls[j].id = m.calls[k].id
    <3>1. PICK j \in DOMAIN m.calls, k \in DOMAIN m.calls : j # k /\ m.calls[j].id = m.calls[k].id
      BY <2>3
    <3>2. <<n, j>> \in CallPlaces(new) /\ <<n, k>> \in CallPlaces(new) /\ <<n, j>> # <<n, k>>
      BY <1>1, <3>1
    <3> QED BY <1>1, <1>2, <3>1, <3>2 DEF CallsDistinct
  <2> QED BY <2>1, <2>2, <2>3 DEF NewCalls
<1>6. CASE m.role = "tool"
  <2>1. /\ \E p \in CallPlaces(new) : p[1] < n /\ At(new, p) = m.call
        /\ \A j \in DOMAIN new : Observes(new, j, m.call) => j = n
    BY <1>1, <1>2, <1>3, <1>6 DEF ObservationsFollow
  <2>2. PICK p \in CallPlaces(new) : p[1] < n /\ At(new, p) = m.call
    BY <2>1
  <2>3. p \in CallPlaces(msgs) /\ At(msgs, p) = m.call
    BY <1>1, <2>2
  <2>4. m.call \in calls /\ m.call.id \in observed
    BY <1>6, <2>3, ReadCalls DEF Valid, Matches
  <2>5. PICK j \in DOMAIN msgs : msgs[j].role = "tool" /\ msgs[j].call.id = m.call.id
    BY <2>4, ReadCalls
  <2>6. PICK q \in CallPlaces(msgs) : At(msgs, q) = msgs[j].call
    BY <2>5, ReadCalls
  <2>7. q = p
    BY <2>3, <2>5, <2>6, ReadCalls
  <2>8. Observes(new, j, m.call)
    BY <1>1, <2>3, <2>5, <2>6, <2>7 DEF Observes
  <2> QED BY <1>1, <2>1, <2>8
<1> QED BY <1>4, <1>5, <1>6

\* The calls and observations that are remembered are those of the messages.
LEMMA ReadOne ==
  ASSUME ReadSoFar, NEW m \in Message, ReadMessage(m), Valid(m)
  PROVE  ReadSoFar'
<1> DEFINE n == Len(msgs) + 1
<1>1. /\ msgs' = Append(msgs, m) /\ calls' = calls \cup CallsOf(m)
      /\ observed' = observed \cup (IF m.role = "tool" THEN {m.call.id} ELSE {})
  BY DEF ReadMessage
<1>2. /\ msgs' \in Seq(Message)
      /\ DOMAIN msgs' = 1 .. n /\ DOMAIN msgs = 1 .. Len(msgs) /\ Len(msgs) \in Nat
      /\ msgs'[n] = m
      /\ \A i \in DOMAIN msgs : i \in DOMAIN msgs' /\ msgs'[i] = msgs[i]
      /\ CallPlaces(msgs') = CallPlaces(msgs) \cup {<<n, k>> : k \in DOMAIN m.calls}
      /\ \A p \in CallPlaces(msgs) : At(msgs', p) = At(msgs, p)
      /\ \A k \in DOMAIN m.calls : At(msgs', <<n, k>>) = m.calls[k]
  BY <1>1, OneMoreMessage DEF ReadSoFar
<1>3. calls' = {At(msgs', p) : p \in CallPlaces(msgs')}
  <2>1. \A c : c \in calls' <=> c \in calls \/ \E k \in DOMAIN m.calls : c = m.calls[k]
    BY <1>1 DEF CallsOf
  <2>2. \A c : (\E p \in CallPlaces(msgs') : c = At(msgs', p)) <=>
                 \/ \E p \in CallPlaces(msgs) : c = At(msgs, p)
                 \/ \E k \in DOMAIN m.calls : c = m.calls[k]
    <3> DEFINE old == CallPlaces(msgs)
               more == {<<n, k>> : k \in DOMAIN m.calls}
    <3>1. \A p : p \in CallPlaces(msgs') <=> p \in old \/ p \in more
      BY <1>2, Zenon
    <3>2. \A p \in old : At(msgs', p) = At(msgs, p)
      BY <1>2, Zenon
    <3>3. \A k \in DOMAIN m.calls : <<n, k>> \in more /\ At(msgs', <<n, k>>) = m.calls[k]
      BY <1>2, Zenon
    <3>4. \A p \in more : \E k \in DOMAIN m.calls : At(msgs', p) = m.calls[k]
      BY <3>3, Zenon
    <3> HIDE DEF old, more
    <3>5. \A c : (\E p \in CallPlaces(msgs') : c = At(msgs', p)) <=>
                    (\E p \in old : c = At(msgs, p)) \/ \E k \in DOMAIN m.calls : c = m.calls[k]
      BY <3>1, <3>2, <3>3, <3>4, Zenon
    <3> QED BY <3>5, Zenon DEF old
  <2>3. \A c : c \in calls <=> \E p \in CallPlaces(msgs) : c = At(msgs, p)
    BY ReadCalls
  <2>4. \A c : c \in calls' <=> \E p \in CallPlaces(msgs') : c = At(msgs', p)
    BY <2>1, <2>2, <2>3
  <2> QED BY <2>4
<1>4. observed' = {msgs'[i].call.id : i \in {j \in DOMAIN msgs' : msgs'[j].role = "tool"}}
  <2>1. \A d : d \in observed' <=> d \in observed \/ (m.role = "tool" /\ d = m.call.id)
    BY <1>1
  <2>2. \A i : i \in DOMAIN msgs' <=> i \in DOMAIN msgs \/ i = n
    BY <1>2
  <2>3. \A d : d \in observed' <=>
                 \E i \in DOMAIN msgs' : msgs'[i].role = "tool" /\ d = msgs'[i].call.id
    BY <1>2, <2>1, <2>2, ReadCalls
  <2> QED BY <2>3
<1>5. NoRepeats(msgs') /\ NoneMalformed(msgs')
  BY <1>1, ValidMessage
<1> QED BY <1>2, <1>3, <1>4, <1>5 DEF ReadSoFar

\* The calls of a message that are finish calls can be counted.
LEMMA FinishCount ==
  ASSUME NEW m \in Message
  PROVE  /\ IsFiniteSet(Finishes(m)) /\ Cardinality(Finishes(m)) \in Nat
         /\ Finishes(m) # {} => m.role = "assistant" /\ Cardinality(Finishes(m)) # 0
<1>1. IsFiniteSet(DOMAIN m.calls) /\ Finishes(m) \subseteq DOMAIN m.calls
  BY MessageFacts, FS_Interval DEF Finishes
<1>2. IsFiniteSet(Finishes(m))
  BY <1>1, FS_Subset
<1>3. Cardinality(Finishes(m)) \in Nat /\ (Cardinality(Finishes(m)) = 0 <=> Finishes(m) = {})
  BY <1>2, FS_CardinalityType, FS_EmptySet
<1>4. Finishes(m) # {} => m.role = "assistant"
  BY <1>1, MessageFacts
<1> QED BY <1>2, <1>3, <1>4

\* The calls that lack a result at the end are the ones a record may not lack.
LEMMA MissingResults ==
  ASSUME ReadSoFar, msgs # <<>>
  PROVE  (\A c \in calls : ~Unobserved(c)) <=> CallsObserved(msgs)
<1>1. Len(msgs) \in DOMAIN msgs /\ DOMAIN msgs = 1 .. Len(msgs)
  <2>1. msgs \in Seq(Message)
    BY DEF ReadSoFar
  <2> QED BY <2>1
<1>2. ASSUME NEW p \in CallPlaces(msgs)
      PROVE  /\ At(msgs, p).id \in observed <=>
                  \E i \in DOMAIN msgs : Observes(msgs, i, At(msgs, p))
             /\ At(msgs, p) \in CallsOf(LastOf(msgs)) <=> p[1] = Len(msgs)
  <2>1. ASSUME NEW i \in DOMAIN msgs, msgs[i].role = "tool", msgs[i].call.id = At(msgs, p).id
        PROVE  Observes(msgs, i, At(msgs, p))
    <3>1. PICK q \in CallPlaces(msgs) : At(msgs, q) = msgs[i].call
      BY <2>1, ReadCalls
    <3> QED BY <2>1, <3>1, ReadCalls DEF Observes
  <2>2. ASSUME NEW k \in DOMAIN LastOf(msgs).calls, At(msgs, p) = LastOf(msgs).calls[k]
        PROVE  p[1] = Len(msgs)
    <3>1. <<Len(msgs), k>> \in CallPlaces(msgs) /\ At(msgs, <<Len(msgs), k>>) = At(msgs, p)
      BY <1>1, <2>2, CallAt DEF LastOf
    <3>2. p = <<Len(msgs), k>>
      BY <3>1, ReadCalls
    <3> QED BY <3>2
  <2>3. p[1] = Len(msgs) => At(msgs, p) \in CallsOf(LastOf(msgs))
    BY PlaceParts DEF LastOf
  <2> QED BY <2>1, <2>2, <2>3, ReadCalls DEF Observes, CallsOf
<1>3. (\A c \in calls : ~Unobserved(c)) <=> \A p \in CallPlaces(msgs) : ~Unobserved(At(msgs, p))
  BY ReadCalls
<1> QED BY <1>2, <1>3 DEF CallsObserved, Unobserved

LEMMA RecordEnds ==
  ASSUME ReadSoFar, EndRecord
  PROVE  /\ msgs # <<>>
         /\ verdict' = IF WellFormed(msgs) THEN "accepted" ELSE "rejected"
<1>1. msgs # <<>> /\ verdict' \in {"accepted", "rejected"}
  BY DEF EndRecord
<1>2. LastOf(msgs) \in Message
  <2>1. msgs \in Seq(Message)
    BY DEF ReadSoFar
  <2> QED BY <1>1, <2>1 DEF LastOf
<1>3. CallsDistinct(msgs) /\ ObservationsFollow(msgs)
      /\ \A i \in DOMAIN msgs : msgs[i].role # "malformed"
  BY DEF ReadSoFar, NoRepeats, NoneMalformed
<1>4. {"user", "assistant"} \subseteq {msgs[i].role : i \in DOMAIN msgs}
        <=> Spoken("user") /\ Spoken("assistant")
  BY DEF Spoken
<1>5. (HasFinal(msgs) => answer # "missing" /\ Cardinality(Finishes(LastOf(msgs))) = 1)
        <=> Cardinality(Finishes(LastOf(msgs))) <= 1 /\ (HasFinal(msgs) => answer # "missing")
  <2>1. Finishes(LastOf(msgs)) = {} => Cardinality(Finishes(LastOf(msgs))) = 0
    BY FS_EmptySet
  <2> QED BY <1>2, <2>1, FinishCount DEF HasFinal
<1>6. (\A c \in calls : ~Unobserved(c)) <=> CallsObserved(msgs)
  BY <1>1, MissingResults
<1>7. WellFormed(msgs) <=>
        /\ Spoken("user") /\ Spoken("assistant")
        /\ \A c \in calls : ~Unobserved(c)
        /\ Cardinality(Finishes(LastOf(msgs))) <= 1
        /\ HasFinal(msgs) => answer # "missing"
  <2> QED BY <1>3, <1>4, <1>5, <1>6, Zenon DEF WellFormed
<1> QED BY <1>1, <1>7, Zenon DEF EndRecord

\* What is well formed depends on the messages, the exit status and the answer.
LEMMA SameRecord ==
  ASSUME UNCHANGED <<exit, answer>>
  PROVE  WellFormed(msgs)' <=> WellFormed(msgs')
BY DEF WellFormed, CallsDistinct, ObservationsFollow, CallsObserved, HasFinal, LastOf, Finishes,
       CallPlaces, At, Observes

LEMMA RecordUnchanged ==
  ASSUME RecordInv, UNCHANGED recordVars
  PROVE  RecordInv'
<1>1. WellFormed(msgs)' <=> WellFormed(msgs)
  BY SameRecord DEF recordVars
<1> QED BY <1>1 DEF recordVars, RecordInv, Idle, ReadSoFar, TasksSound, NoRepeats, NoneMalformed,
           CallsDistinct, ObservationsFollow, CallPlaces, At, Observes

\* A record that was not begun, or is empty again.
LEMMA NothingRead == Fresh => RecordInv
<1> SUFFICES ASSUME Idle, verdict \in {"none", "reading"} PROVE RecordInv
  BY DEF Fresh
<1>1. CallPlaces(msgs) = {} /\ DOMAIN msgs = {}
  BY DEF Idle, CallPlaces
<1>2. ReadSoFar
  BY <1>1 DEF Idle, ReadSoFar, NoRepeats, NoneMalformed, CallsDistinct, ObservationsFollow
<1> QED BY <1>2 DEF RecordInv, TasksSound

LEMMA ReadRecordStep ==
  ASSUME RecordInv, ReadRecord
  PROVE  RecordInv'
<1>1. ReadSoFar
  BY DEF RecordInv, ReadRecord
<1>2. CASE EndRecord
  <2>1. msgs # <<>> /\ verdict' = IF WellFormed(msgs) THEN "accepted" ELSE "rejected"
    BY <1>1, <1>2, RecordEnds
  <2>2. WellFormed(msgs)' <=> WellFormed(msgs)
    BY <1>2, SameRecord DEF EndRecord
  <2>3. msgs' = msgs /\ msgs \in Seq(Message)
    BY <1>1, <1>2 DEF EndRecord, ReadSoFar
  <2> QED BY <2>1, <2>2, <2>3 DEF RecordInv, TasksSound
<1>3. ASSUME NEW m \in Message, ReadMessage(m) PROVE RecordInv'
  <2>1. /\ msgs' = Append(msgs, m) /\ UNCHANGED <<exit, answer>>
        /\ verdict' = IF Valid(m) THEN "reading" ELSE "rejected"
    BY <1>3 DEF ReadMessage
  <2>2. msgs' \in Seq(Message) /\ msgs' # <<>>
    BY <1>1, <2>1, OneMoreMessage DEF ReadSoFar
  <2>3. Valid(m) => ReadSoFar'
    BY <1>1, <1>3, ReadOne
  <2>4. ~Valid(m) => ~WellFormed(msgs)'
    BY <1>1, <2>1, InvalidMessage, SameRecord
  <2> QED BY <2>1, <2>2, <2>3, <2>4 DEF RecordInv, TasksSound
<1> QED BY <1>2, <1>3 DEF ReadRecord

\* Every action of the process keeps what is said of the record.
LEMMA RecordStep ==
  ASSUME RecordInv, [Next]_vars
  PROVE  RecordInv'
<1>1. CASE Fresh'
  BY <1>1, NothingRead, PTL
<1>2. CASE UNCHANGED recordVars
  BY <1>2, RecordUnchanged
<1>3. CASE BeginRecord
  <2>1. Idle
    BY <1>3 DEF BeginRecord, RecordInv
  <2>2. UNCHANGED recordVars \/ (verdict' = "reading" /\ UNCHANGED <<msgs, calls, observed>>)
    BY <1>3 DEF BeginRecord
  <2> QED BY <1>1, <1>2, <2>1, <2>2 DEF Fresh, Idle
<1>4. CASE ReadRecord
  BY <1>4, ReadRecordStep
<1>5. CASE CloseRecord
  <2>1. UNCHANGED recordVars \/ (verdict' = "none" /\ Idle')
    BY <1>5 DEF CloseRecord, Close, Idle
  <2> QED BY <1>1, <1>2, <2>1 DEF Fresh
<1>6. CASE BeginSample
  <2>1. Idle' /\ verdict' = "reading"
    BY <1>6 DEF BeginSample, Idle, RecordInv
  <2> QED BY <1>1, <2>1 DEF Fresh
<1>7. CASE EndSample
  <2>1. Idle' /\ verdict' = "none"
    BY <1>7 DEF EndSample, Close, Idle
  <2> QED BY <1>1, <2>1 DEF Fresh
<1>8. CASE \/ ReadTurn \/ EndConversation \/ Deal \/ ValidateReplay \/ StartReplay \/ ReplayTurn
           \/ DrawFromCorpus \/ Over \/ UNCHANGED vars
  <2>1. UNCHANGED recordVars
    BY <1>8 DEF ReadTurn, EndConversation, Deal, ValidateReplay, StartReplay, ReplayTurn,
                DrawFromCorpus, Over, vars
  <2> QED BY <1>2, <2>1
<1> QED BY <1>3, <1>4, <1>5, <1>6, <1>7, <1>8 DEF Next

\* Reading message by message accepts exactly the well-formed records, of any length
\* and with any calls (_normalize_task).
THEOREM ReadingIsSound == Spec => []TasksSound
<1>1. Init => RecordInv
  <2>1. Init => Fresh
    BY DEF Init, Fresh, Idle
  <2> QED BY <2>1, NothingRead
<1>2. RecordInv /\ [Next]_vars => RecordInv'
  BY RecordStep
<1>3. RecordInv => TasksSound
  BY DEF RecordInv
<1> QED BY <1>1, <1>2, <1>3, PTL DEF Spec

-----------------------------------------------------------------------------
(* The content of an accepted record.                                      *)

\* What is said at the places of a content.
LEMMA PartFacts ==
  ASSUME NEW m \in Message, NEW final \in BOOLEAN
  PROVE  LET content == Parts(m, final)
         IN  /\ \A n \in DOMAIN content : n = -1 \/ n = 0 \/ n \in DOMAIN m.calls
             /\ -1 \in DOMAIN content <=> m.role = "tool"
             /\ 0 \in DOMAIN content <=> m.text # "blank"
             /\ \A k \in DOMAIN m.calls :
                  k \in DOMAIN content <=>
                    (IsAnswer(m, k, final) => answer = "answer" /\ m.text # "answer")
             /\ -1 \in DOMAIN content => content[-1] = Said("result")
             /\ 0 \in DOMAIN content => content[0] = Said(m.text)
             /\ \A k \in DOMAIN m.calls : k \in DOMAIN content =>
                  content[k] = IF IsAnswer(m, k, final) THEN Said("answer")
                               ELSE Called(m.calls[k])
<1>1. DOMAIN m.calls = 1 .. Len(m.calls) /\ Len(m.calls) \in Nat
  BY MessageFacts
<1> DEFINE places == {n \in -1 .. Len(m.calls) :
                        /\ n = -1 => m.role = "tool"
                        /\ n = 0 => m.text # "blank"
                        /\ n > 0 /\ IsAnswer(m, n, final) =>
                             answer = "answer" /\ m.text # "answer"}
           Part(n) == IF n = -1 THEN Said("result")
                      ELSE IF n = 0 THEN Said(m.text)
                      ELSE IF IsAnswer(m, n, final) THEN Said("answer")
                      ELSE Called(m.calls[n])
<1>2. Parts(m, final) = [n \in places |-> Part(n)]
  BY Zenon DEF Parts
<1>3. /\ \A n \in places : n = -1 \/ n = 0 \/ n \in DOMAIN m.calls
      /\ -1 \in places <=> m.role = "tool"
      /\ 0 \in places <=> m.text # "blank"
      /\ \A k \in DOMAIN m.calls :
           k \in places <=> (IsAnswer(m, k, final) => answer = "answer" /\ m.text # "answer")
  BY <1>1
<1>4. /\ Part(-1) = Said("result") /\ Part(0) = Said(m.text)
      /\ \A k \in DOMAIN m.calls : Part(k) = IF IsAnswer(m, k, final) THEN Said("answer")
                                             ELSE Called(m.calls[k])
  BY <1>1
<1> HIDE DEF places, Part
<1> QED BY <1>2, <1>3, <1>4

LEMMA OnceAt ==
  ASSUME NEW content, NEW part, NEW n \in DOMAIN content, content[n] = part,
         \A j \in DOMAIN content : content[j] = part => j = n
  PROVE  Times(content, part) = 1
<1>1. {j \in DOMAIN content : content[j] = part} = {n}
  OBVIOUS
<1> QED BY <1>1, FS_Singleton DEF Times

\* The texts of a part tell what it is.
LEMMA PartsDiffer ==
  ASSUME NEW c, NEW d, NEW said \in {"result", "answer", "other"}
  PROVE  /\ Said(said) # Called(c)
         /\ Said(said) = Said("answer") => said = "answer"
         /\ Called(c) = Called(d) => c.id = d.id
BY DEF Said, Called

LEMMA AcceptedContent ==
  ASSUME RecordInv
  PROVE  AnswerOnce
<1> SUFFICES ASSUME verdict = "accepted" PROVE AnswerOnce
  BY DEF AnswerOnce
<1>1. /\ WellFormed(msgs) /\ msgs \in Seq(Message) /\ msgs # <<>>
  BY DEF RecordInv, TasksSound
<1>2. /\ Len(msgs) \in DOMAIN msgs /\ \A i \in DOMAIN msgs : msgs[i] \in Message
  BY <1>1
<1> DEFINE last == LastOf(msgs)
           F(i) == i = Len(msgs) /\ HasFinal(msgs)
<1>3. \A i \in DOMAIN msgs : F(i) \in BOOLEAN /\ ContentOf(msgs, i) = Parts(msgs[i], F(i))
  BY DEF ContentOf, HasFinal
<1>4. last \in Message /\ last = msgs[Len(msgs)]
  BY <1>2 DEF LastOf
<1>5. ASSUME HasFinal(msgs), answer = "answer"
      PROVE  /\ Len(msgs) \in ItemMessages(msgs)
             /\ Times(ContentOf(msgs, Len(msgs)), Said("answer")) = 1
  <2> DEFINE content == Parts(last, TRUE)
  <2>1. content = ContentOf(msgs, Len(msgs))
    BY <1>2, <1>3, <1>4, <1>5
  <2>2. last.role = "assistant" /\ Cardinality(Finishes(last)) = 1
    BY <1>1, <1>5 DEF WellFormed, HasFinal
  <2>3. PICK k : Finishes(last) = {k}
    BY <1>4, <2>2, FinishCount, FS_Singleton
  <2>4. /\ k \in DOMAIN last.calls
        /\ \A j \in DOMAIN last.calls : IsAnswer(last, j, TRUE) <=> j = k
    BY <2>3 DEF Finishes, IsAnswer
  <2>5. /\ \A n \in DOMAIN content : n = -1 \/ n = 0 \/ n \in DOMAIN last.calls
        /\ -1 \notin DOMAIN content
        /\ 0 \in DOMAIN content <=> last.text # "blank"
        /\ 0 \in DOMAIN content => content[0] = Said(last.text)
        /\ \A j \in DOMAIN last.calls : j \in DOMAIN content =>
             content[j] = IF j = k THEN Said("answer") ELSE Called(last.calls[j])
        /\ k \in DOMAIN content <=> last.text # "answer"
    BY <1>4, <1>5, <2>2, <2>4, PartFacts
  <2>6. last.text \in {"blank", "answer", "other"}
    BY <1>4, MessageFacts
  <2> HIDE DEF content
  <2>7. CASE last.text = "answer"
    <3>1. 0 \in DOMAIN content /\ content[0] = Said("answer")
      BY <2>5, <2>7
    <3>2. \A j \in DOMAIN content : content[j] = Said("answer") => j = 0
      BY <2>4, <2>5, <2>7, PartsDiffer
    <3>3. Times(content, Said("answer")) = 1
      BY <3>1, <3>2, OnceAt
    <3> QED BY <1>2, <1>4, <2>1, <2>2, <3>1, <3>3 DEF ItemMessages
  <2>8. CASE last.text # "answer"
    <3>1. k \in DOMAIN content /\ content[k] = Said("answer")
      BY <2>4, <2>5, <2>8
    <3>2. \A j \in DOMAIN content : content[j] = Said("answer") => j = k
      BY <2>4, <2>5, <2>6, <2>8, PartsDiffer
    <3>3. Times(content, Said("answer")) = 1
      BY <3>1, <3>2, OnceAt
    <3> QED BY <1>2, <1>4, <2>1, <2>2, <3>1, <3>3 DEF ItemMessages
  <2> QED BY <2>7, <2>8
<1>6. ASSUME NEW p \in CallPlaces(msgs),
             ~(HasFinal(msgs) /\ p[1] = Len(msgs) /\ At(msgs, p).name = "finish")
      PROVE  Times(ContentOf(msgs, p[1]), Called(At(msgs, p))) = 1
  <2> DEFINE i == p[1]
             k == p[2]
             m == msgs[i]
             content == Parts(m, F(i))
  <2>1. i \in DOMAIN msgs /\ k \in DOMAIN m.calls /\ At(msgs, p) = m.calls[k] /\ p = <<i, k>>
    BY PlaceParts DEF At
  <2>2. m \in Message /\ content = ContentOf(msgs, i) /\ F(i) \in BOOLEAN
    BY <1>2, <1>3, <2>1
  <2>3. ~IsAnswer(m, k, F(i))
    BY <1>6, <2>1 DEF IsAnswer
  <2>4. /\ \A n \in DOMAIN content : n = -1 \/ n = 0 \/ n \in DOMAIN m.calls
        /\ -1 \in DOMAIN content => content[-1] = Said("result")
        /\ 0 \in DOMAIN content => content[0] = Said(m.text) /\ m.text # "blank"
        /\ \A j \in DOMAIN m.calls : j \in DOMAIN content =>
             content[j] = Said("answer") \/ content[j] = Called(m.calls[j])
        /\ k \in DOMAIN content /\ content[k] = Called(m.calls[k])
    <3> HIDE DEF m, F, i, k
    <3> QED BY <2>1, <2>2, <2>3, PartFacts
  <2>5. m.text \in {"blank", "answer", "other"}
    BY <2>2, MessageFacts
  <2>6. ASSUME NEW j \in DOMAIN m.calls, m.calls[j].id = m.calls[k].id PROVE j = k
    <3>1. <<i, j>> \in CallPlaces(msgs) /\ At(msgs, <<i, j>>) = m.calls[j]
      BY <2>1, CallAt
    <3>2. <<i, j>> = p
      BY <1>1, <2>1, <2>6, <3>1 DEF WellFormed, CallsDistinct
    <3> QED BY <2>1, <3>2
  <2> HIDE DEF content, m, i, k
  <2>7. \A j \in DOMAIN content : content[j] = Called(m.calls[k]) => j = k
    BY <2>4, <2>5, <2>6, PartsDiffer
  <2>8. Times(content, Called(m.calls[k])) = 1
    BY <2>4, <2>7, OnceAt
  <2> QED BY <2>1, <2>2, <2>8 DEF i
<1>7. ASSUME NEW i \in DOMAIN msgs, msgs[i].role = "tool" PROVE i \in ItemMessages(msgs)
  <2>1. -1 \in DOMAIN ContentOf(msgs, i)
    BY <1>2, <1>3, <1>7, PartFacts
  <2> QED BY <1>7, <2>1 DEF ItemMessages
<1> QED BY <1>5, <1>6, <1>7 DEF AnswerOnce

-----------------------------------------------------------------------------
(* Least and greatest numbers.                                             *)

LEMMA SmallestSet ==
  ASSUME NEW D, D # {}, \A s \in D : IsFiniteSet(s)
  PROVE  \E s \in D : \A u \in D : u \subseteq s => u = s
<1> DEFINE S == UNION D
           R == StrictSubsetOrdering(S)
<1>1. IsWellFoundedOn(R, FiniteSubsetsOf(S))
  BY FS_StrictSubsetOrderingWellFounded
<1>2. D \subseteq FiniteSubsetsOf(S)
  BY DEF FiniteSubsetsOf
<1>3. \E x \in D : \A y \in D : ~(<<y, x>> \in R)
  <2> HIDE DEF R
  <2> QED BY <1>1, <1>2, WFMin
<1>4. ASSUME NEW x \in D, NEW y \in D, ~(<<y, x>> \in R), y \subseteq x PROVE y = x
  BY <1>4, SMT DEF StrictSubsetOrdering
<1> QED BY <1>3, <1>4

LEMMA LeastNumber ==
  ASSUME NEW N, N \subseteq Nat, N # {}
  PROVE  \E n \in N : \A m \in N : n <= m
<1> DEFINE D == {1 .. n : n \in N}
<1>1. D # {} /\ \A s \in D : IsFiniteSet(s)
  <2>1. \A n \in N : IsFiniteSet(1 .. n)
    BY FS_Interval
  <2> QED BY <2>1
<1>2. PICK s \in D : \A u \in D : u \subseteq s => u = s
  <2> HIDE DEF D
  <2> QED BY <1>1, SmallestSet
<1>3. PICK n \in N : s = 1 .. n
  OBVIOUS
<1>4. ASSUME NEW m \in N, m < n PROVE FALSE
  <2>1. 1 .. m \in D /\ 1 .. m \subseteq s
    BY <1>3, <1>4
  <2>2. n \in s /\ n \notin 1 .. m
    BY <1>3, <1>4
  <2> QED BY <1>2, <2>1, <2>2
<1> QED BY <1>4

LEMMA GreatestNumber ==
  ASSUME NEW N, NEW top \in Nat, N \subseteq 0 .. top, N # {}
  PROVE  \E n \in N : \A m \in N : n >= m
<1> DEFINE M == {top - n : n \in N}
<1>1. M \subseteq Nat /\ M # {}
  <2>1. \A n \in N : n \in Int /\ top - n \in Nat
    OBVIOUS
  <2>2. M \subseteq Nat
    BY <2>1
  <2>3. PICK n \in N : TRUE
    OBVIOUS
  <2>4. top - n \in M
    OBVIOUS
  <2> QED BY <2>2, <2>4
<1>2. PICK k \in M : \A j \in M : k <= j
  <2> HIDE DEF M
  <2> QED BY <1>1, LeastNumber
<1>3. PICK n \in N : k = top - n
  OBVIOUS
<1>4. \A m \in N : top - m \in M /\ top - n <= top - m
  BY <1>2, <1>3
<1>5. \A m \in N : n \in Int /\ m \in Int /\ n >= m
  BY <1>4
<1> QED BY <1>5

LEMMA MinFacts ==
  ASSUME NEW N, N \subseteq Nat, N # {}
  PROVE  Min(N) \in N /\ \A m \in N : Min(N) <= m
<1>1. \E n \in N : \A m \in N : n <= m
  BY LeastNumber
<1> QED BY <1>1 DEF Min

LEMMA MaxFacts ==
  ASSUME NEW N, NEW top \in Nat, N \subseteq 0 .. top, N # {}
  PROVE  Max(N) \in N /\ \A m \in N : Max(N) >= m
<1>1. \E n \in N : \A m \in N : n >= m
  BY GreatestNumber
<1> QED BY <1>1 DEF Max

-----------------------------------------------------------------------------
(* The chunks of a text.                                                   *)

\* The next chunk starts later, within the limit, and at a space unless there is none
\* in the second half of the window.
LEMMA NextStartFacts ==
  ASSUME NEW t, IsText(t), NEW max \in Nat \ {0}, NEW start \in 0 .. t.len - 1
  PROVE  LET next == NextStart(t, start, max)
         IN  /\ next \in start + 1 .. t.len /\ next <= start + max
             /\ \/ next = t.len \/ next \in t.spaces
                \/ /\ next = start + max
                   /\ \A p \in t.spaces : ~(p > start + max \div 2 /\ p < next)
<1> DEFINE end == Min({start + max, t.len})
           cuts == {p \in t.spaces : p > start + max \div 2 /\ p < end}
<1>1. t.len \in Nat /\ t.spaces \subseteq 1 .. t.len - 2 /\ max \div 2 \in Nat
  BY DEF IsText
<1>2. end = IF start + max <= t.len THEN start + max ELSE t.len
  <2>1. {start + max, t.len} \subseteq Nat /\ {start + max, t.len} # {}
    BY <1>1
  <2>2. end \in {start + max, t.len} /\ end <= start + max /\ end <= t.len
    BY <2>1, MinFacts
  <2> HIDE DEF end
  <2> QED BY <1>1, <2>2
<1>3. NextStart(t, start, max) = IF end < t.len /\ cuts # {} THEN Max(cuts) ELSE end
  BY DEF NextStart
<1>4. cuts # {} => Max(cuts) \in cuts
  <2>1. cuts \subseteq 0 .. t.len
    BY <1>1
  <2> HIDE DEF cuts
  <2> QED BY <1>1, <2>1, MaxFacts
<1> HIDE DEF end
<1>5. CASE end < t.len /\ cuts # {}
  <2>1. Max(cuts) \in t.spaces /\ Max(cuts) > start + max \div 2 /\ Max(cuts) < end
    BY <1>4, <1>5
  <2>2. NextStart(t, start, max) = Max(cuts)
    BY <1>3, <1>5
  <2>3. Max(cuts) \in Nat
    BY <1>1, <2>1
  <2> HIDE DEF cuts
  <2> QED BY <1>1, <1>2, <2>1, <2>2, <2>3
<1>6. CASE ~(end < t.len /\ cuts # {})
  BY <1>1, <1>2, <1>3, <1>6
<1> QED BY <1>5, <1>6

ChunkType == [first : Nat, last : Nat]

\* A chunk is what is left of its window without the spaces at its ends.
LEMMA ChunkFacts ==
  ASSUME NEW t, IsText(t), NEW max \in Nat \ {0}, NEW start \in 0 .. t.len - 1
  PROVE  LET kept == (start .. NextStart(t, start, max) - 1) \ t.spaces
         IN  \/ kept = {} /\ Chunk(t, start, max) = <<>>
             \/ \E c \in ChunkType :
                  /\ Chunk(t, start, max) = <<c>>
                  /\ c.first \in kept /\ c.last \in kept
                  /\ \A i \in kept : c.first <= i /\ i <= c.last
<1> DEFINE next == NextStart(t, start, max)
           kept == (start .. next - 1) \ t.spaces
           c == [first |-> Min(kept), last |-> Max(kept)]
<1>1. next \in Nat /\ next <= t.len /\ t.len \in Nat
  <2>1. t.len \in Nat /\ next \in start + 1 .. t.len
    BY NextStartFacts DEF IsText
  <2> HIDE DEF next
  <2> QED BY <2>1
<1>2. Chunk(t, start, max) = IF kept = {} THEN <<>> ELSE <<c>>
  BY DEF Chunk
<1>3. kept \subseteq 0 .. t.len /\ kept \subseteq Nat
  BY <1>1
<1> HIDE DEF next, kept
<1>4. ASSUME kept # {}
      PROVE  /\ Min(kept) \in kept /\ Max(kept) \in kept
             /\ \A i \in kept : Min(kept) <= i /\ i <= Max(kept)
  BY <1>1, <1>3, <1>4, MinFacts, MaxFacts
<1>5. ASSUME kept # {}
      PROVE  /\ c \in ChunkType
             /\ c.first = Min(kept) /\ c.last = Max(kept)
  BY <1>3, <1>4, <1>5 DEF ChunkType
<1> HIDE DEF c
<1> QED BY <1>2, <1>4, <1>5 DEF kept, next

\* What the chunks of a text from some place on must be.
GoodFrom(cs, t, max, start) ==
  /\ cs \in Seq(ChunkType)
  /\ \A i \in start .. t.len - 1 : i \in t.spaces \/
       \E n \in DOMAIN cs : cs[n].first <= i /\ i <= cs[n].last
  /\ \A n \in DOMAIN cs :
       /\ start <= cs[n].first /\ cs[n].first <= cs[n].last /\ cs[n].last < t.len
       /\ cs[n].last - cs[n].first < max
       /\ cs[n].first \notin t.spaces /\ cs[n].last \notin t.spaces
  /\ \A n \in 1 .. Len(cs) - 1 :
       /\ cs[n].last < cs[n + 1].first
       /\ cs[n].last + 1 = cs[n + 1].first =>
            \A p \in t.spaces : ~(cs[n].last - (max - max \div 2 - 2) <= p /\ p <= cs[n].last)

LEMMA GoodFacts ==
  ASSUME NEW cs, NEW t, NEW max, NEW start, GoodFrom(cs, t, max, start)
  PROVE  /\ cs \in Seq(ChunkType) /\ Len(cs) \in Nat /\ DOMAIN cs = 1 .. Len(cs)
         /\ \A n \in DOMAIN cs : n \in Nat /\ cs[n].first \in Nat /\ cs[n].last \in Nat
<1>1. cs \in Seq(ChunkType)
  BY DEF GoodFrom
<1>2. Len(cs) \in Nat /\ DOMAIN cs = 1 .. Len(cs) /\ \A n \in DOMAIN cs : cs[n] \in ChunkType
  BY <1>1
<1>3. \A c \in ChunkType : c.first \in Nat /\ c.last \in Nat
  BY DEF ChunkType
<1> QED BY <1>1, <1>2, <1>3

LEMMA FrontOf ==
  ASSUME NEW S, NEW c \in S, NEW cs \in Seq(S)
  PROVE  LET all == <<c>> \o cs
         IN  /\ all \in Seq(S) /\ Len(all) = Len(cs) + 1 /\ DOMAIN all = 1 .. Len(cs) + 1
             /\ DOMAIN cs = 1 .. Len(cs) /\ Len(cs) \in Nat
             /\ all[1] = c /\ \A n \in DOMAIN cs : all[n + 1] = cs[n]
OBVIOUS

LEMMA OneMoreChunk ==
  ASSUME NEW t, IsText(t), NEW max \in Nat \ {0}, NEW start \in 0 .. t.len - 1, NEW cs,
         GoodFrom(cs, t, max, NextStart(t, start, max))
  PROVE  GoodFrom(Chunk(t, start, max) \o cs, t, max, start)
<1> DEFINE next == NextStart(t, start, max)
           kept == (start .. next - 1) \ t.spaces
<1>1. /\ next \in start + 1 .. t.len /\ next <= start + max
      /\ \/ next = t.len \/ next \in t.spaces
         \/ /\ next = start + max
            /\ \A p \in t.spaces : ~(p > start + max \div 2 /\ p < next)
  BY NextStartFacts
<1>2. t.len \in Nat /\ start \in Nat /\ max \div 2 \in Nat /\ next \in Nat /\ t.spaces \subseteq Nat
  BY <1>1 DEF IsText
<1>3. GoodFrom(cs, t, max, next)
  OBVIOUS
<1>6. /\ cs \in Seq(ChunkType) /\ Len(cs) \in Nat /\ DOMAIN cs = 1 .. Len(cs)
      /\ \A n \in DOMAIN cs : n \in Nat /\ cs[n].first \in Nat /\ cs[n].last \in Nat
  BY <1>3, GoodFacts
<1> HIDE DEF next
<1>4. CASE kept = {} /\ Chunk(t, start, max) = <<>>
  <2>1. <<>> \o cs = cs
    BY <1>3 DEF GoodFrom
  <2>2. \A i \in start .. t.len - 1 : i \in t.spaces \/ i \in next .. t.len - 1
    BY <1>1, <1>2, <1>4
  <2>3. GoodFrom(cs, t, max, start)
    <3>1. \A n \in DOMAIN cs : start <= cs[n].first
      BY <1>1, <1>2, <1>3, <1>6 DEF GoodFrom
    <3> QED BY <1>3, <1>6, <2>2, <3>1 DEF GoodFrom
  <2> QED BY <1>4, <2>1, <2>3
<1>5. ASSUME NEW c \in ChunkType, Chunk(t, start, max) = <<c>>,
             c.first \in kept, c.last \in kept, \A i \in kept : c.first <= i /\ i <= c.last
      PROVE  GoodFrom(Chunk(t, start, max) \o cs, t, max, start)
  <2> DEFINE all == <<c>> \o cs
  <2>1. /\ all \in Seq(ChunkType) /\ Len(all) = Len(cs) + 1 /\ DOMAIN all = 1 .. Len(cs) + 1
        /\ DOMAIN cs = 1 .. Len(cs) /\ Len(cs) \in Nat
        /\ all[1] = c /\ \A n \in DOMAIN cs : all[n + 1] = cs[n]
    BY <1>5, <1>6, FrontOf
  <2> HIDE DEF all
  <2>2. \A n \in DOMAIN all : n = 1 \/ (n - 1 \in DOMAIN cs /\ all[n] = cs[n - 1])
    <3>1. \A n \in DOMAIN all : n # 1 => n - 1 \in DOMAIN cs /\ (n - 1) + 1 = n
      BY <2>1
    <3>2. \A n \in DOMAIN all : n # 1 => all[n] = cs[n - 1]
      <4> TAKE n \in DOMAIN all
      <4> HAVE n # 1
      <4>1. n - 1 \in DOMAIN cs /\ (n - 1) + 1 = n
        BY <3>1
      <4>2. all[(n - 1) + 1] = cs[n - 1]
        BY <2>1, <4>1
      <4> QED BY <4>1, <4>2
    <3> QED BY <3>1, <3>2
  <2>3. \A n \in DOMAIN cs : n + 1 \in DOMAIN all
    BY <1>6, <2>1
  <2>4. /\ start <= c.first /\ c.first <= c.last /\ c.last < next
        /\ c.first \notin t.spaces /\ c.last \notin t.spaces
        /\ c.first \in Nat /\ c.last \in Nat
    <3>1. c.first \in Nat /\ c.last \in Nat
      BY DEF ChunkType
    <3>2. c.first <= c.last
      BY <1>5
    <3> QED BY <1>2, <1>5, <3>1, <3>2
  <2>5. \A i \in start .. t.len - 1 : i \in t.spaces \/
          \E n \in DOMAIN all : all[n].first <= i /\ i <= all[n].last
    <3>1. SUFFICES ASSUME NEW i \in start .. t.len - 1, i \notin t.spaces
                   PROVE  \E n \in DOMAIN all : all[n].first <= i /\ i <= all[n].last
      OBVIOUS
    <3>2. CASE i < next
      <4>1. i \in kept /\ 1 \in DOMAIN all
        BY <1>2, <2>1, <3>1, <3>2
      <4> QED BY <1>5, <2>1, <4>1
    <3>3. CASE i >= next
      <4>1. i \in next .. t.len - 1
        BY <1>2, <3>3
      <4>2. PICK n \in DOMAIN cs : cs[n].first <= i /\ i <= cs[n].last
        BY <1>3, <3>1, <4>1 DEF GoodFrom
      <4> QED BY <2>1, <2>3, <4>2
    <3> QED BY <1>2, <3>2, <3>3
  <2>6. \A n \in DOMAIN all :
          /\ start <= all[n].first /\ all[n].first <= all[n].last /\ all[n].last < t.len
          /\ all[n].last - all[n].first < max
          /\ all[n].first \notin t.spaces /\ all[n].last \notin t.spaces
    <3>1. SUFFICES ASSUME NEW n \in DOMAIN all
                   PROVE /\ start <= all[n].first /\ all[n].first <= all[n].last
                         /\ all[n].last < t.len /\ all[n].last - all[n].first < max
                         /\ all[n].first \notin t.spaces /\ all[n].last \notin t.spaces
      OBVIOUS
    <3>2. CASE n = 1
      <4>1. c.last - c.first < max /\ c.last < t.len
        BY <1>1, <1>2, <1>5, <2>4
      <4> QED BY <2>1, <2>4, <3>2, <4>1
    <3>3. CASE n # 1
      <4>1. n - 1 \in DOMAIN cs /\ all[n] = cs[n - 1]
        BY <2>2, <3>3
      <4>2. start <= cs[n - 1].first
        BY <1>1, <1>2, <1>3, <1>6, <4>1 DEF GoodFrom
      <4> QED BY <1>3, <4>1, <4>2 DEF GoodFrom
    <3> QED BY <3>2, <3>3
  <2>7. \A n \in 1 .. Len(all) - 1 :
          /\ all[n].last < all[n + 1].first
          /\ all[n].last + 1 = all[n + 1].first =>
               \A p \in t.spaces :
                 ~(all[n].last - (max - max \div 2 - 2) <= p /\ p <= all[n].last)
    <3>1. SUFFICES ASSUME NEW n \in 1 .. Len(all) - 1
                   PROVE  /\ all[n].last < all[n + 1].first
                          /\ all[n].last + 1 = all[n + 1].first =>
                               \A p \in t.spaces :
                                 ~(all[n].last - (max - max \div 2 - 2) <= p /\ p <= all[n].last)
      OBVIOUS
    <3>2. n \in DOMAIN cs /\ n \in Nat /\ all[n + 1] = cs[n]
      BY <1>6, <2>1
    <3>3. CASE n = 1
      <4>1. /\ next <= cs[1].first /\ cs[1].first < t.len /\ cs[1].first \notin t.spaces
        <5>1. 1 \in DOMAIN cs
          BY <3>2, <3>3
        <5>2. \A j \in DOMAIN cs :
                next <= cs[j].first /\ cs[j].first <= cs[j].last /\ cs[j].last < t.len
                  /\ cs[j].first \notin t.spaces
          BY <1>3 DEF GoodFrom
        <5>3. cs[1].first \in Nat /\ cs[1].last \in Nat
          BY <1>6, <5>1
        <5> QED BY <1>2, <5>1, <5>2, <5>3
      <4>5. cs[1].first \in Nat
        BY <1>6, <3>2, <3>3
      <4>2. c.last < cs[1].first
        <5> HIDE DEF kept
        <5> QED BY <1>2, <2>4, <4>1, <4>5
      <4>3. ASSUME c.last + 1 = cs[1].first, NEW p \in t.spaces,
                   c.last - (max - max \div 2 - 2) <= p, p <= c.last
            PROVE  FALSE
        <5>3. c.last + 1 = cs[1].first /\ p \in Nat
          BY <1>2, <4>3
        <5>1. next = cs[1].first /\ c.last = next - 1
          <6> HIDE DEF kept
          <6> QED BY SMTT(20), <1>2, <2>4, <4>1, <4>5, <5>3
        <5>2. next = start + max /\ ~(p > start + max \div 2 /\ p < next)
          <6>1. next # t.len /\ next \notin t.spaces
            BY <4>1, <4>5, <5>1
          <6> QED BY <1>1, <6>1
        <5>4. PICK half \in Nat : half = max \div 2
          BY <1>2
        <5>5. c.last - (max - half - 2) <= p /\ p <= c.last /\ ~(p > start + half /\ p < next)
          BY <4>3, <5>2, <5>4
        <5> QED BY SMTT(20), <1>2, <5>1, <5>2, <5>3, <5>5
      <4> QED BY <2>1, <3>2, <3>3, <4>2, <4>3
    <3>4. CASE n # 1
      <4>1. /\ n - 1 \in 1 .. Len(cs) - 1 /\ (n - 1) + 1 = n /\ all[n] = cs[n - 1]
        BY <1>6, <2>1, <2>2, <3>2, <3>4
      <4>2. /\ cs[n - 1].last < cs[n].first
            /\ cs[n - 1].last + 1 = cs[n].first =>
                 \A p \in t.spaces :
                   ~(cs[n - 1].last - (max - max \div 2 - 2) <= p /\ p <= cs[n - 1].last)
        BY <1>3, <4>1 DEF GoodFrom
      <4> QED BY <3>2, <4>1, <4>2
    <3> QED BY <3>3, <3>4
  <2>8. GoodFrom(all, t, max, start)
    BY <2>1, <2>5, <2>6, <2>7 DEF GoodFrom
  <2> QED BY <1>5, <2>8 DEF all
<1> QED BY <1>4, <1>5, ChunkFacts DEF next

\* A function that is the recursion of SplitChunks from some places on.
Split(f, t, max, from) ==
  \A start \in from .. t.len :
    f[start] = IF start = t.len THEN <<>>
               ELSE Chunk(t, start, max) \o f[NextStart(t, start, max)]

LEMMA SplitExists ==
  ASSUME NEW t, IsText(t), NEW max \in Nat \ {0}, NEW from \in 0 .. t.len
  PROVE  \E f : f = [start \in 0 .. t.len |-> f[start]] /\ Split(f, t, max, from)
<1> DEFINE Bad == {n \in 0 .. t.len :
                     ~\E f : f = [start \in 0 .. t.len |-> f[start]] /\ Split(f, t, max, n)}
<1>1. t.len \in Nat
  BY DEF IsText
<1>2. SUFFICES ASSUME Bad # {} PROVE FALSE
  OBVIOUS
<1>3. PICK n \in Bad : \A m \in Bad : n >= m
  <2>1. Bad \subseteq 0 .. t.len
    OBVIOUS
  <2> HIDE DEF Bad
  <2> QED BY <1>1, <1>2, <2>1, GreatestNumber
<1>4. n \in 0 .. t.len
  OBVIOUS
<1>5. CASE n = t.len
  <2> DEFINE g == [start \in 0 .. t.len |-> <<>>]
  <2>1. g = [start \in 0 .. t.len |-> g[start]] /\ g[t.len] = <<>>
    BY <1>1
  <2> HIDE DEF g
  <2>2. Split(g, t, max, t.len)
    BY <1>1, <2>1 DEF Split
  <2> QED BY <1>5, <2>1, <2>2
<1>6. CASE n < t.len
  <2>1. n + 1 \in 0 .. t.len /\ n + 1 \notin Bad
    <3>1. n + 1 \in 0 .. t.len /\ n \in Nat /\ ~(n >= n + 1)
      BY <1>1, <1>4, <1>6
    <3> HIDE DEF Bad
    <3> QED BY <1>3, <3>1
  <2>2. PICK f : f = [start \in 0 .. t.len |-> f[start]] /\ Split(f, t, max, n + 1)
    BY <2>1
  <2> DEFINE value == Chunk(t, n, max) \o f[NextStart(t, n, max)]
             g == [start \in 0 .. t.len |-> IF start = n THEN value ELSE f[start]]
  <2>3. /\ g = [start \in 0 .. t.len |-> g[start]]
        /\ \A start \in 0 .. t.len : g[start] = IF start = n THEN value ELSE f[start]
    OBVIOUS
  <2> HIDE DEF g
  <2>4. ASSUME NEW start \in n .. t.len - 1
        PROVE  /\ NextStart(t, start, max) \in n + 1 .. t.len
               /\ g[NextStart(t, start, max)] = f[NextStart(t, start, max)]
    <3> DEFINE next == NextStart(t, start, max)
    <3>1. start \in 0 .. t.len - 1
      BY <1>1, <1>4
    <3>2. next \in start + 1 .. t.len
      BY <3>1, NextStartFacts
    <3> HIDE DEF next
    <3>3. next \in n + 1 .. t.len /\ next \in 0 .. t.len /\ next # n
      BY <1>1, <1>4, <3>2
    <3> QED BY <2>3, <3>3 DEF next
  <2>5. ASSUME NEW start \in n .. t.len
        PROVE  g[start] = IF start = t.len THEN <<>>
                          ELSE Chunk(t, start, max) \o g[NextStart(t, start, max)]
    <3>1. CASE start = n
      <4>1. g[n] = value /\ n \in n .. t.len - 1
        BY SMTT(20), <1>1, <1>4, <1>6, <2>3
      <4>2. g[NextStart(t, n, max)] = f[NextStart(t, n, max)] /\ n # t.len
        BY <1>1, <1>4, <1>6, <2>4, <4>1
      <4>3. g[n] = Chunk(t, n, max) \o g[NextStart(t, n, max)]
        BY <4>1, <4>2
      <4> QED BY <3>1, <4>2, <4>3
    <3>2. CASE start # n
      <4>1. start \in n + 1 .. t.len /\ start \in 0 .. t.len
        BY <1>1, <1>4, <3>2
      <4>2. g[start] = IF start = t.len THEN <<>>
                       ELSE Chunk(t, start, max) \o f[NextStart(t, start, max)]
        BY <2>2, <2>3, <3>2, <4>1 DEF Split
      <4>3. start # t.len => start \in n .. t.len - 1
        BY <1>1, <1>4
      <4> QED BY <2>4, <4>2, <4>3
    <3> QED BY <3>1, <3>2
  <2>6. Split(g, t, max, n)
    BY <2>5 DEF Split
  <2> QED BY <2>3, <2>6
<1> QED BY <1>1, <1>4, <1>5, <1>6

\* What the recursion gives from any place on is good.
LEMMA SplitIsGood ==
  ASSUME NEW t, IsText(t), NEW max \in Nat \ {0}, NEW f, Split(f, t, max, 0),
         NEW from \in 0 .. t.len
  PROVE  GoodFrom(f[from], t, max, from)
<1> DEFINE Bad == {n \in 0 .. t.len : ~GoodFrom(f[n], t, max, n)}
<1>1. t.len \in Nat
  BY DEF IsText
<1>2. SUFFICES ASSUME Bad # {} PROVE FALSE
  OBVIOUS
<1>3. PICK n \in Bad : \A m \in Bad : n >= m
  <2>1. Bad \subseteq 0 .. t.len
    OBVIOUS
  <2> HIDE DEF Bad
  <2> QED BY <1>1, <1>2, <2>1, GreatestNumber
<1>4. n \in 0 .. t.len /\ ~GoodFrom(f[n], t, max, n)
  OBVIOUS
<1>5. f[n] = IF n = t.len THEN <<>> ELSE Chunk(t, n, max) \o f[NextStart(t, n, max)]
  BY <1>4 DEF Split
<1>6. CASE n = t.len
  <2>1. f[n] = <<>>
    BY <1>5, <1>6
  <2>2. GoodFrom(<<>>, t, max, t.len)
    BY <1>1 DEF GoodFrom
  <2> QED BY <1>4, <1>6, <2>1, <2>2
<1>7. CASE n # t.len
  <2> DEFINE next == NextStart(t, n, max)
  <2>1. n \in 0 .. t.len - 1
    BY <1>1, <1>4, <1>7
  <2>2. next \in n + 1 .. t.len
    BY <2>1, NextStartFacts
  <2> HIDE DEF next
  <2>3. next \in 0 .. t.len /\ ~(n >= next)
    BY <1>1, <1>4, <2>2
  <2>4. next \notin Bad
    <3> HIDE DEF Bad
    <3> QED BY <1>3, <2>3
  <2>5. GoodFrom(f[next], t, max, next)
    BY <2>3, <2>4
  <2> QED BY <1>4, <1>5, <1>7, <2>1, <2>5, OneMoreChunk DEF next
<1> QED BY <1>6, <1>7

LEMMA ChunksGood ==
  ASSUME NEW t, IsText(t), NEW max \in Nat \ {0}
  PROVE  GoodFrom(SplitChunks(t, max), t, max, 0)
<1>1. t.len \in Nat /\ t.spaces \subseteq 1 .. t.len - 2
  BY DEF IsText
<1>2. CASE t.len \in 1 .. max
  <2> DEFINE c == [first |-> 0, last |-> t.len - 1]
  <2>1. SplitChunks(t, max) = <<c>>
    BY <1>2 DEF SplitChunks
  <2>2. c \in ChunkType /\ c.first = 0 /\ c.last = t.len - 1
    BY <1>1, <1>2 DEF ChunkType
  <2> HIDE DEF c
  <2>3. <<c>> \in Seq(ChunkType) /\ Len(<<c>>) = 1 /\ DOMAIN <<c>> = {1} /\ <<c>>[1] = c
    BY <2>2
  <2>4. GoodFrom(<<c>>, t, max, 0)
    BY <1>1, <1>2, <2>2, <2>3 DEF GoodFrom, ChunkType
  <2> QED BY <2>1, <2>4
<1>3. CASE t.len \notin 1 .. max
  <2> DEFINE Is(g) == g = [start \in 0 .. t.len |->
                             IF start = t.len THEN <<>>
                             ELSE Chunk(t, start, max) \o g[NextStart(t, start, max)]]
             it == CHOOSE g : Is(g)
  <2>1. SplitChunks(t, max) = it[0]
    BY <1>3, Zenon DEF SplitChunks
  <2>2. 0 \in 0 .. t.len
    BY <1>1
  <2>3. PICK f : f = [start \in 0 .. t.len |-> f[start]] /\ Split(f, t, max, 0)
    BY <2>2, SplitExists
  <2>4. Is(f)
    BY <2>3 DEF Split
  <2>5. Is(it)
    <3> HIDE DEF Is
    <3> QED BY <2>4
  <2>6. Split(it, t, max, 0)
    <3> HIDE DEF it
    <3> QED BY <2>5 DEF Split
  <2> HIDE DEF it
  <2> QED BY <2>1, <2>2, <2>6, SplitIsGood
<1> QED BY <1>2, <1>3

\* The text that is cut is one of a dialogue, or none.
LEMMA TextStep ==
  ASSUME IsText(text), [Next]_vars
  PROVE  IsText(text')
<1>1. IsText(NoText)
  BY DEF IsText, NoText
<1>2. CASE ReadTurn
  BY <1>2, WorkloadAssumption DEF ReadTurn
<1>3. CASE EndConversation
  BY <1>1, <1>3 DEF EndConversation
<1>4. CASE \/ BeginRecord \/ ReadRecord \/ CloseRecord \/ BeginSample \/ EndSample \/ Deal
           \/ ValidateReplay \/ StartReplay \/ ReplayTurn \/ DrawFromCorpus \/ Over
           \/ UNCHANGED vars
  BY <1>4 DEF BeginRecord, ReadRecord, CloseRecord, BeginSample, EndSample, Deal,
              ValidateReplay, StartReplay, ReplayTurn, DrawFromCorpus, Over, vars, sampleVars
<1> QED BY <1>2, <1>3, <1>4 DEF Next

LEMMA WholeText ==
  ASSUME IsText(text)
  PROVE  ChunksWhole
<1> DEFINE cs == SplitChunks(text, MaxChars)
           Inside(c) == c.first .. c.last
<1>1. /\ MaxChars \in Nat \ {0} /\ text.len \in Nat /\ text.spaces \subseteq 1 .. text.len - 2
      /\ MaxChars \div 2 \in Nat
  BY WorkloadAssumption DEF IsText
<1>2. GoodFrom(cs, text, MaxChars, 0)
  BY <1>1, ChunksGood
<1> HIDE DEF cs
<1>3. /\ Len(cs) \in Nat /\ DOMAIN cs = 1 .. Len(cs)
      /\ \A n \in DOMAIN cs : n \in Nat /\ cs[n].first \in Nat /\ cs[n].last \in Nat
  BY <1>2, GoodFacts
<1>4. \A c : c \in Range(cs) <=> \E n \in DOMAIN cs : c = cs[n]
  BY DEF Range
<1>5. (0 .. text.len - 1) \ text.spaces \subseteq UNION {Inside(c) : c \in Range(cs)}
  <2>1. SUFFICES ASSUME NEW i \in 0 .. text.len - 1, i \notin text.spaces
                 PROVE  \E c \in Range(cs) : i \in Inside(c)
    OBVIOUS
  <2>2. PICK n \in DOMAIN cs : cs[n].first <= i /\ i <= cs[n].last
    BY <1>2, <2>1 DEF GoodFrom
  <2>3. i \in Inside(cs[n])
    BY <1>3, <2>2
  <2> QED BY <1>4, <2>3
<1>6. \A c \in Range(cs) : /\ c.last - c.first \in 0 .. MaxChars - 1
                           /\ {c.first, c.last} \cap text.spaces = {}
  <2>1. \A n \in DOMAIN cs : /\ cs[n].first <= cs[n].last /\ cs[n].last - cs[n].first < MaxChars
                             /\ cs[n].first \notin text.spaces /\ cs[n].last \notin text.spaces
    BY <1>2 DEF GoodFrom
  <2>2. \A n \in DOMAIN cs : cs[n].last - cs[n].first \in 0 .. MaxChars - 1
    BY <1>1, <1>3, <2>1
  <2> QED BY <1>4, <2>1, <2>2
<1>7. \A n \in 1 .. Len(cs) - 1 :
        /\ cs[n].last < cs[n + 1].first
        /\ cs[n].last + 1 = cs[n + 1].first =>
             (cs[n].last - (MaxChars - MaxChars \div 2 - 2) .. cs[n].last) \cap text.spaces = {}
  <2> TAKE n \in 1 .. Len(cs) - 1
  <2>1. /\ cs[n].last < cs[n + 1].first
        /\ cs[n].last + 1 = cs[n + 1].first =>
             \A p \in text.spaces :
               ~(cs[n].last - (MaxChars - MaxChars \div 2 - 2) <= p /\ p <= cs[n].last)
    BY <1>2 DEF GoodFrom
  <2> QED BY <2>1
<1> QED BY <1>5, <1>6, <1>7 DEF ChunksWhole, cs

\* Texts of any length are whole in their chunks (_split_chunks), and the answer and
\* the calls of any accepted record are each in one item (_message_content).
THEOREM NothingIsLost == Spec => []ContentKept
<1> DEFINE Inv == RecordInv /\ IsText(text)
<1>1. Init => Inv
  <2>1. Init => Fresh /\ IsText(text)
    BY DEF Init, Fresh, Idle, IsText, NoText
  <2> QED BY <2>1, NothingRead
<1>2. Inv /\ [Next]_vars => Inv'
  BY RecordStep, TextStep
<1>3. Inv => ContentKept
  BY AcceptedContent, WholeText DEF ContentKept
<1> HIDE DEF Inv
<1> QED BY <1>1, <1>2, <1>3, PTL DEF Spec

-----------------------------------------------------------------------------
(* The replay of one conversation.                                         *)

Turn == [role : {d.role : d \in Dialogue}, items : Nat \ {0}]

\* What the lane's counters and operations are when it is at turn t of s.
SearchOf(i) == [kind |-> "search", turn |-> i, item |-> 1]
AddOf(i, k) == [kind |-> "add", turn |-> i, item |-> k]

IsSeq(o) == o \in Seq({o[n] : n \in DOMAIN o})

Counted(s, t, r, p) == /\ t \in 1 .. Len(s) + 1
                       /\ r = Cardinality(UserTurns(s, t))
                       /\ p = (t > 1 /\ s[t - 1].role = "user")

\* Every operation is one of a turn that is over, ...
OpsKnown(s, t, o) ==
  \A n \in DOMAIN o :
    \E i \in 1 .. t - 1 :
      \/ o[n].op = SearchOf(i) /\ Due(s, i) /\ n < Len(o) /\ o[n + 1].op = AddOf(i, 1)
      \/ \E k \in 1 .. s[i].items : o[n].op = AddOf(i, k)

\* ... and all that such a turn asks for are there, ...
OpsThere(s, t, o) ==
  \A i \in 1 .. t - 1 :
    /\ Due(s, i) => \E n \in DOMAIN o : o[n].op = SearchOf(i)
    /\ \A k \in 1 .. s[i].items : \E n \in DOMAIN o : o[n].op = AddOf(i, k)

\* ... in order, ...
OpsOrdered(o) ==
  \A m, n \in DOMAIN o :
    m < n /\ o[m].op.kind = "add" /\ o[n].op.kind = "add" => Before(o[m].op, o[n].op)

\* ... and with the pauses between turns.
OpsPaced(s, o) ==
  \A n \in DOMAIN o :
    LET i == o[n].op.turn IN
    o[n].pause # "none" =>
      /\ i > 1
      /\ o[n].pause = "answer" => s[i].role = "assistant" /\ s[i - 1].role = "user"
      /\ o[n].pause = "typing" => s[i].role = "user"
      /\ \A m \in DOMAIN o : o[m].op.turn = i /\ m # n => o[m].pause = "none"

LaneOK(s, t, r, p, o) ==
  /\ Counted(s, t, r, p) /\ IsSeq(o)
  /\ OpsKnown(s, t, o) /\ OpsThere(s, t, o) /\ OpsOrdered(o) /\ OpsPaced(s, o)

LEMMA SequenceFacts ==
  ASSUME NEW o, IsSeq(o)
  PROVE  Len(o) \in Nat /\ DOMAIN o = 1 .. Len(o)
<1> DEFINE S == {o[n] : n \in DOMAIN o}
<1>1. o \in Seq(S)
  BY DEF IsSeq
<1> HIDE DEF S
<1> QED BY <1>1

LEMMA JoinFacts ==
  ASSUME NEW o, IsSeq(o), NEW b, IsSeq(b)
  PROVE  LET all == o \o b
         IN  /\ IsSeq(all)
             /\ Len(all) = Len(o) + Len(b) /\ DOMAIN all = 1 .. Len(o) + Len(b)
             /\ \A n \in DOMAIN o : n \in DOMAIN all /\ all[n] = o[n]
             /\ \A n \in DOMAIN b : Len(o) + n \in DOMAIN all /\ all[Len(o) + n] = b[n]
             /\ \A n \in DOMAIN all : n \in DOMAIN o \/
                  (n - Len(o) \in DOMAIN b /\ all[n] = b[n - Len(o)] /\ n > Len(o))
<1> DEFINE S == {o[n] : n \in DOMAIN o} \cup {b[n] : n \in DOMAIN b}
           all == o \o b
<1>1. o \in Seq(S) /\ b \in Seq(S)
  <2>1. Len(o) \in Nat /\ DOMAIN o = 1 .. Len(o) /\ Len(b) \in Nat /\ DOMAIN b = 1 .. Len(b)
    BY SequenceFacts
  <2>2. \A n \in DOMAIN o : o[n] \in S
    OBVIOUS
  <2>3. \A n \in DOMAIN b : b[n] \in S
    OBVIOUS
  <2>4. o = [n \in 1 .. Len(o) |-> o[n]] /\ b = [n \in 1 .. Len(b) |-> b[n]]
    <3> DEFINE T == {o[n] : n \in DOMAIN o}
               U == {b[n] : n \in DOMAIN b}
    <3>1. o \in Seq(T) /\ b \in Seq(U)
      BY DEF IsSeq
    <3> HIDE DEF T, U
    <3> QED BY <3>1
  <2> HIDE DEF S
  <2> QED BY <2>1, <2>2, <2>3, <2>4
<1>2. /\ all \in Seq(S) /\ Len(all) = Len(o) + Len(b) /\ DOMAIN all = 1 .. Len(o) + Len(b)
      /\ Len(o) \in Nat /\ DOMAIN o = 1 .. Len(o) /\ Len(b) \in Nat /\ DOMAIN b = 1 .. Len(b)
      /\ \A n \in 1 .. Len(o) + Len(b) : all[n] = IF n <= Len(o) THEN o[n] ELSE b[n - Len(o)]
  <2> HIDE DEF S
  <2> QED BY <1>1
<1> HIDE DEF all
<1>3. IsSeq(all)
  <2> DEFINE T == {all[n] : n \in DOMAIN all}
  <2>1. \A n \in DOMAIN all : all[n] \in T
    OBVIOUS
  <2>2. all = [n \in 1 .. Len(all) |-> all[n]] /\ Len(all) \in Nat
    <3> HIDE DEF S
    <3> QED BY <1>2
  <2>3. DOMAIN all = 1 .. Len(all)
    BY <1>2
  <2>4. all \in Seq(T)
    <3> HIDE DEF T
    <3> QED BY <2>1, <2>2, <2>3
  <2> QED BY <2>4 DEF IsSeq
<1> HIDE DEF S
<1>4. \A n \in DOMAIN o : n \in DOMAIN all /\ all[n] = o[n]
  BY <1>2
<1>5. \A n \in DOMAIN b : Len(o) + n \in DOMAIN all /\ all[Len(o) + n] = b[n]
  <2> TAKE n \in DOMAIN b
  <2>1. Len(o) + n \in 1 .. Len(o) + Len(b) /\ ~(Len(o) + n <= Len(o)) /\ (Len(o) + n) - Len(o) = n
    BY <1>2
  <2> QED BY <1>2, <2>1
<1>6. \A n \in DOMAIN all : n \in DOMAIN o \/
        (n - Len(o) \in DOMAIN b /\ all[n] = b[n - Len(o)] /\ n > Len(o))
  BY <1>2
<1> QED BY <1>2, <1>3, <1>4, <1>5, <1>6 DEF all

\* The operations of turn t: a search if one is due, and an add for each item.
LEMMA BatchFacts ==
  ASSUME NEW t, t.items \in Nat \ {0}, NEW n, NEW index, NEW pause
  PROVE  LET b == WithPause(Ops(t, n, index), pause)
             d == IF IsUser(t) /\ Fires(n) THEN 1 ELSE 0
         IN  /\ IsSeq(b)
             /\ Len(b) = d + t.items /\ DOMAIN b = 1 .. d + t.items
             /\ \A j \in DOMAIN b :
                  /\ b[j].pause = IF j = 1 THEN pause ELSE "none"
                  /\ b[j].op = IF j <= d THEN SearchOf(index) ELSE AddOf(index, j - d)
<1> DEFINE ops == Ops(t, n, index)
           b == WithPause(ops, pause)
           d == IF IsUser(t) /\ Fires(n) THEN 1 ELSE 0
           S == {SearchOf(index)} \cup {AddOf(index, i) : i \in 1 .. t.items}
           first == IF IsUser(t) /\ Fires(n) THEN <<SearchOf(index)>> ELSE <<>>
           adds == [i \in 1 .. t.items |-> AddOf(index, i)]
<1>1. ops = first \o adds
  BY DEF Ops, SearchOf, AddOf
<1>2. /\ first \in Seq(S) /\ Len(first) = d /\ (d = 1 => first[1] = SearchOf(index))
      /\ adds \in Seq(S) /\ Len(adds) = t.items
      /\ \A i \in 1 .. t.items : adds[i] = AddOf(index, i)
  <2>1. SearchOf(index) \in S /\ \A i \in 1 .. t.items : AddOf(index, i) \in S
    OBVIOUS
  <2> HIDE DEF S
  <2> QED BY <2>1
<1> HIDE DEF first, adds, S
<1>3. /\ d \in {0, 1} /\ t.items \in Nat
      /\ DOMAIN ops = 1 .. d + t.items /\ Len(ops) = d + t.items
      /\ \A j \in DOMAIN ops : ops[j] = IF j <= d THEN SearchOf(index) ELSE AddOf(index, j - d)
  <2>1. d \in {0, 1} /\ t.items \in Nat
    OBVIOUS
  <2> HIDE DEF d
  <2>2. Len(ops) = d + t.items /\ DOMAIN ops = 1 .. d + t.items
    BY <1>1, <1>2, <2>1
  <2>3. \A j \in 1 .. d + t.items : ops[j] = IF j <= d THEN first[j] ELSE adds[j - d]
    BY <1>1, <1>2, <2>1
  <2>4. \A j \in 1 .. d + t.items : j <= d => d = 1 /\ j = 1
    BY <2>1
  <2>5. \A j \in 1 .. d + t.items : ~(j <= d) => j - d \in 1 .. t.items
    BY <2>1
  <2> QED BY <1>2, <2>1, <2>2, <2>3, <2>4, <2>5
<1> HIDE DEF ops, d
<1>4. /\ DOMAIN b = 1 .. d + t.items
      /\ \A j \in DOMAIN b : b[j] = [op |-> ops[j], pause |-> IF j = 1 THEN pause ELSE "none"]
      /\ b = [j \in 1 .. d + t.items |-> b[j]]
  BY <1>3 DEF WithPause
<1> HIDE DEF b
<1>5. IsSeq(b) /\ Len(b) = d + t.items
  <2> DEFINE T == {b[j] : j \in DOMAIN b}
  <2>1. \A j \in DOMAIN b : b[j] \in T
    OBVIOUS
  <2>2. PICK N \in Nat : N = d + t.items
    BY <1>3
  <2>3. \A j \in 1 .. N : b[j] \in T
    BY <1>4, <2>1, <2>2
  <2>4. b = [j \in 1 .. N |-> b[j]]
    BY <1>4, <2>2
  <2>5. b \in Seq(T) /\ Len(b) = N
    <3> HIDE DEF T
    <3> QED BY <2>3, <2>4
  <2> QED BY <2>2, <2>5 DEF IsSeq
<1>6. \A j \in DOMAIN b :
        /\ b[j].pause = IF j = 1 THEN pause ELSE "none"
        /\ b[j].op = IF j <= d THEN SearchOf(index) ELSE AddOf(index, j - d)
  <2> TAKE j \in DOMAIN b
  <2>1. j \in DOMAIN ops /\ ops[j] = IF j <= d THEN SearchOf(index) ELSE AddOf(index, j - d)
    BY <1>3, <1>4
  <2>2. b[j] = [op |-> ops[j], pause |-> IF j = 1 THEN pause ELSE "none"]
    BY <1>4
  <2>3. b[j].pause = (IF j = 1 THEN pause ELSE "none") /\ b[j].op = ops[j]
    BY <2>2
  <2> QED BY <2>1, <2>3
<1>7. DOMAIN b = 1 .. d + t.items
  BY <1>4
<1> QED BY <1>5, <1>6, <1>7, Zenon DEF b, d, ops

\* What is asked of turn i is asked of it alone: its place is the turn of its operations.
LEMMA OpTurns ==
  ASSUME NEW s, NEW t, NEW o, OpsKnown(s, t, o), NEW n \in DOMAIN o
  PROVE  o[n].op.turn \in 1 .. t - 1
<1>1. \A i, k : SearchOf(i).turn = i /\ AddOf(i, k).turn = i
  BY DEF SearchOf, AddOf
<1> QED BY <1>1 DEF OpsKnown

LEMMA OneMoreUserTurn ==
  ASSUME NEW s, NEW t \in Nat \ {0}
  PROVE  /\ Cardinality(UserTurns(s, t)) \in Nat
         /\ Cardinality(UserTurns(s, t + 1)) =
              IF s[t].role = "user" THEN Cardinality(UserTurns(s, t)) + 1
              ELSE Cardinality(UserTurns(s, t))
<1>1. IsFiniteSet(UserTurns(s, t))
  <2>1. IsFiniteSet(1 .. t - 1) /\ UserTurns(s, t) \subseteq 1 .. t - 1
    BY FS_Interval DEF UserTurns
  <2> QED BY <2>1, FS_Subset
<1>2. t \notin UserTurns(s, t)
  BY DEF UserTurns
<1>3. UserTurns(s, t + 1) = IF s[t].role = "user" THEN UserTurns(s, t) \cup {t} ELSE UserTurns(s, t)
  <2>1. \A j : j \in 1 .. (t + 1) - 1 <=> j \in 1 .. t - 1 \/ j = t
    OBVIOUS
  <2> QED BY <2>1 DEF UserTurns
<1> QED BY <1>1, <1>2, <1>3, FS_CardinalityType, FS_AddElement

\* The extra pause of a turn, if it has one.
LEMMA PauseFacts ==
  ASSUME NEW u, NEW index, NEW after, Pause(u, index, after) # "none"
  PROVE  \/ Pause(u, index, after) = "typing" /\ u.role = "user" /\ index > 1
         \/ Pause(u, index, after) = "answer" /\ u.role = "assistant" /\ after
BY DEF Pause, IsUser, IsAssistant

LEMMA TurnReplayed ==
  ASSUME NEW s \in Seq(Turn), NEW t, NEW r, NEW p, NEW o, LaneOK(s, t, r, p, o), t <= Len(s)
  PROVE  LaneOK(s, t + 1, IF IsUser(s[t]) THEN r + 1 ELSE r, IsUser(s[t]),
                o \o WithPause(Ops(s[t], r, t), Pause(s[t], t, p)))
<1> DEFINE u == s[t]
           b == WithPause(Ops(u, r, t), Pause(u, t, p))
           all == o \o b
           d == IF IsUser(u) /\ Fires(r) THEN 1 ELSE 0
           N == u.items
<1>1. /\ Len(s) \in Nat /\ t \in Nat \ {0} /\ t \in DOMAIN s /\ u \in Turn
      /\ N \in Nat \ {0} /\ d \in {0, 1}
  <2>1. Len(s) \in Nat /\ t \in 1 .. Len(s) + 1
    BY DEF LaneOK, Counted
  <2>2. t \in Nat \ {0} /\ t \in DOMAIN s
    BY <2>1
  <2>3. u \in Turn
    BY <2>2
  <2> QED BY <2>1, <2>2, <2>3 DEF Turn
<1>2. /\ r = Cardinality(UserTurns(s, t)) /\ p = (t > 1 /\ s[t - 1].role = "user")
      /\ IsSeq(o)
      /\ OpsKnown(s, t, o) /\ OpsThere(s, t, o) /\ OpsOrdered(o) /\ OpsPaced(s, o)
  BY DEF LaneOK, Counted
<1>3. d = 1 <=> Due(s, t)
  BY <1>2 DEF Due, IsUser, Fires
<1>4. /\ IsSeq(b) /\ Len(b) = d + N /\ DOMAIN b = 1 .. d + N
      /\ \A j \in DOMAIN b :
           /\ b[j].pause = IF j = 1 THEN Pause(u, t, p) ELSE "none"
           /\ b[j].op = IF j <= d THEN SearchOf(t) ELSE AddOf(t, j - d)
  BY <1>1, BatchFacts
<1> HIDE DEF b, d, N
<1>5. /\ IsSeq(all)
      /\ Len(all) = Len(o) + Len(b) /\ DOMAIN all = 1 .. Len(o) + Len(b)
      /\ \A n \in DOMAIN o : n \in DOMAIN all /\ all[n] = o[n]
      /\ \A n \in DOMAIN b : Len(o) + n \in DOMAIN all /\ all[Len(o) + n] = b[n]
      /\ \A n \in DOMAIN all : n \in DOMAIN o \/
           (n - Len(o) \in DOMAIN b /\ all[n] = b[n - Len(o)] /\ n > Len(o))
  <2>1. IsSeq(o) /\ IsSeq(b)
    BY <1>2, <1>4
  <2> QED BY <2>1, JoinFacts
<1>6. Len(o) \in Nat /\ DOMAIN o = 1 .. Len(o)
  BY <1>2, SequenceFacts
<1> HIDE DEF all
<1>7. /\ \A i : i \in 1 .. (t + 1) - 1 <=> i \in 1 .. t - 1 \/ i = t
      /\ \A i \in 1 .. t - 1 : i < t /\ i \in Nat
  BY <1>1
<1>8. \A i, k : /\ SearchOf(i).turn = i /\ SearchOf(i).kind = "search"
                /\ AddOf(i, k).turn = i /\ AddOf(i, k).item = k /\ AddOf(i, k).kind = "add"
  BY DEF SearchOf, AddOf
<1>9. \A n \in DOMAIN o : o[n].op.turn \in 1 .. t - 1
  BY <1>2, OpTurns
<1>10. \A n \in DOMAIN b : b[n].op.turn = t
  BY <1>4, <1>8
<1>11. Counted(s, t + 1, IF IsUser(u) THEN r + 1 ELSE r, IsUser(u))
  <2>1. t + 1 \in 1 .. Len(s) + 1 /\ t + 1 > 1 /\ (t + 1) - 1 = t
    BY <1>1
  <2>2. (IF IsUser(u) THEN r + 1 ELSE r) = Cardinality(UserTurns(s, t + 1))
    BY <1>1, <1>2, OneMoreUserTurn DEF IsUser
  <2>3. IsUser(u) <=> (t + 1 > 1 /\ s[(t + 1) - 1].role = "user")
    BY <2>1 DEF IsUser
  <2>4. IsUser(u) = (t + 1 > 1 /\ s[(t + 1) - 1].role = "user")
    BY <2>3 DEF IsUser
  <2> QED BY <2>1, <2>2, <2>4 DEF Counted
<1>12. OpsKnown(s, t + 1, all)
  <2>1. SUFFICES ASSUME NEW n \in DOMAIN all
                 PROVE  \E i \in 1 .. (t + 1) - 1 :
                          \/ /\ all[n].op = SearchOf(i) /\ Due(s, i) /\ n < Len(all)
                             /\ all[n + 1].op = AddOf(i, 1)
                          \/ \E k \in 1 .. s[i].items : all[n].op = AddOf(i, k)
    BY DEF OpsKnown
  <2>2. CASE n \in DOMAIN o
    <3>1. PICK i \in 1 .. t - 1 :
            \/ o[n].op = SearchOf(i) /\ Due(s, i) /\ n < Len(o) /\ o[n + 1].op = AddOf(i, 1)
            \/ \E k \in 1 .. s[i].items : o[n].op = AddOf(i, k)
      BY <1>2, <2>2 DEF OpsKnown
    <3>2. i \in 1 .. (t + 1) - 1 /\ all[n].op = o[n].op
      BY <1>5, <1>7, <2>2
    <3>3. n < Len(o) => n < Len(all) /\ n + 1 \in DOMAIN o /\ all[n + 1] = o[n + 1]
      <4>1. Len(b) \in Nat
        BY <1>1, <1>4
      <4> QED BY <1>5, <1>6, <2>2, <4>1
    <3> QED BY <3>1, <3>2, <3>3
  <2>3. CASE n \notin DOMAIN o
    <3> DEFINE j == n - Len(o)
    <3>1. j \in DOMAIN b /\ all[n] = b[j] /\ n = Len(o) + j /\ n \in Nat /\ j \in 1 .. d + N
      <4>1. j \in DOMAIN b /\ all[n] = b[j]
        BY <1>5, <2>3
      <4>2. n \in Nat
        BY <1>1, <1>4, <1>5, <1>6
      <4> QED BY <1>4, <1>6, <4>1, <4>2
    <3>2. t \in 1 .. (t + 1) - 1
      BY <1>1
    <3> HIDE DEF j
    <3>3. CASE j <= d
      <4>1. j = 1 /\ d = 1 /\ all[n].op = SearchOf(t)
        BY <1>1, <1>4, <3>1, <3>3
      <4>2. n + 1 = Len(o) + 2 /\ 2 \in DOMAIN b /\ ~(2 <= d) /\ 2 - d = 1 /\ n < Len(all)
        BY <1>1, <1>4, <1>5, <1>6, <3>1, <4>1
      <4>3. all[n + 1] = b[2] /\ b[2].op = AddOf(t, 1)
        BY <1>4, <1>5, <4>2
      <4> QED BY <1>3, <3>2, <4>1, <4>2, <4>3
    <3>4. CASE ~(j <= d)
      <4>1. all[n].op = AddOf(t, j - d) /\ j - d \in 1 .. N
        BY <1>1, <1>4, <3>1, <3>4
      <4> QED BY <3>2, <4>1 DEF N
    <3> QED BY <3>3, <3>4
  <2> QED BY <2>2, <2>3
<1>13. OpsThere(s, t + 1, all)
  <2>1. SUFFICES ASSUME NEW i \in 1 .. (t + 1) - 1
                 PROVE  /\ Due(s, i) => \E n \in DOMAIN all : all[n].op = SearchOf(i)
                        /\ \A k \in 1 .. s[i].items :
                             \E n \in DOMAIN all : all[n].op = AddOf(i, k)
    BY DEF OpsThere
  <2>2. CASE i \in 1 .. t - 1
    <3>1. /\ Due(s, i) => \E n \in DOMAIN o : o[n].op = SearchOf(i)
          /\ \A k \in 1 .. s[i].items : \E n \in DOMAIN o : o[n].op = AddOf(i, k)
      BY <1>2, <2>2 DEF OpsThere
    <3> QED BY <1>5, <3>1
  <2>3. CASE i = t
    <3>1. ASSUME Due(s, t) PROVE \E n \in DOMAIN all : all[n].op = SearchOf(t)
      <4>1. d = 1 /\ 1 \in DOMAIN b /\ 1 <= d
        BY <1>1, <1>3, <1>4, <3>1
      <4>2. b[1].op = SearchOf(t)
        BY <1>4, <4>1
      <4> QED BY <1>5, <4>1, <4>2
    <3>2. ASSUME NEW k \in 1 .. N PROVE \E n \in DOMAIN all : all[n].op = AddOf(t, k)
      <4>1. k + d \in DOMAIN b /\ ~(k + d <= d) /\ (k + d) - d = k
        BY <1>1, <1>4
      <4>2. b[k + d].op = AddOf(t, k)
        BY <1>4, <4>1
      <4> QED BY <1>5, <4>1, <4>2
    <3> QED BY <2>3, <3>1, <3>2 DEF N
  <2> QED BY <1>7, <2>1, <2>2, <2>3
<1>14. OpsOrdered(all)
  <2>1. SUFFICES ASSUME NEW m \in DOMAIN all, NEW n \in DOMAIN all, m < n,
                        all[m].op.kind = "add", all[n].op.kind = "add"
                 PROVE  Before(all[m].op, all[n].op)
    BY DEF OpsOrdered
  <2>2. CASE m \in DOMAIN o /\ n \in DOMAIN o
    BY <1>2, <1>5, <2>1, <2>2 DEF OpsOrdered
  <2>3. CASE m \in DOMAIN o /\ n \notin DOMAIN o
    <3>1. all[m].op.turn \in 1 .. t - 1 /\ all[n].op.turn = t
      BY <1>5, <1>9, <1>10, <2>3
    <3> QED BY <1>7, <3>1 DEF Before
  <2>4. CASE m \notin DOMAIN o /\ n \in DOMAIN o
    <3>1. m > Len(o) /\ n <= Len(o)
      BY <1>5, <1>6, <2>4
    <3>2. m \in Nat /\ n \in Nat
      BY <1>1, <1>4, <1>5, <1>6
    <3> QED BY <1>6, <2>1, <3>1, <3>2
  <2>5. CASE m \notin DOMAIN o /\ n \notin DOMAIN o
    <3>1. /\ m - Len(o) \in DOMAIN b /\ all[m] = b[m - Len(o)]
          /\ n - Len(o) \in DOMAIN b /\ all[n] = b[n - Len(o)]
      BY <1>5, <2>5
    <3>2. m \in Nat /\ n \in Nat
      BY <1>1, <1>4, <1>5, <1>6
    <3>3. ASSUME NEW j \in DOMAIN b, b[j].op.kind = "add"
          PROVE  b[j].op.turn = t /\ b[j].op.item = j - d
      BY <1>4, <1>8, <3>3
    <3>4. /\ all[m].op.turn = t /\ all[m].op.item = (m - Len(o)) - d
          /\ all[n].op.turn = t /\ all[n].op.item = (n - Len(o)) - d
      BY <2>1, <3>1, <3>3
    <3> QED BY <1>1, <1>6, <2>1, <3>2, <3>4 DEF Before
  <2> QED BY <2>2, <2>3, <2>4, <2>5
<1>15. OpsPaced(s, all)
  <2>1. SUFFICES ASSUME NEW n \in DOMAIN all, all[n].pause # "none"
                 PROVE  LET i == all[n].op.turn
                        IN  /\ i > 1
                            /\ all[n].pause = "answer" =>
                                 s[i].role = "assistant" /\ s[i - 1].role = "user"
                            /\ all[n].pause = "typing" => s[i].role = "user"
                            /\ \A m \in DOMAIN all :
                                 all[m].op.turn = i /\ m # n => all[m].pause = "none"
    BY DEF OpsPaced
  <2>2. CASE n \in DOMAIN o
    <3>1. all[n] = o[n] /\ o[n].op.turn \in 1 .. t - 1
      BY <1>5, <1>9, <2>2
    <3>2. LET i == o[n].op.turn
          IN  /\ i > 1
              /\ o[n].pause = "answer" => s[i].role = "assistant" /\ s[i - 1].role = "user"
              /\ o[n].pause = "typing" => s[i].role = "user"
              /\ \A m \in DOMAIN o : o[m].op.turn = i /\ m # n => o[m].pause = "none"
      BY <1>2, <2>1, <2>2, <3>1 DEF OpsPaced
    <3>3. ASSUME NEW m \in DOMAIN all, all[m].op.turn = o[n].op.turn
          PROVE  m \in DOMAIN o /\ all[m] = o[m]
      <4>1. m \notin DOMAIN o => all[m].op.turn = t
        BY <1>5, <1>10
      <4> QED BY <1>5, <1>7, <3>1, <3>3, <4>1
    <3> QED BY <3>1, <3>2, <3>3
  <2>3. CASE n \notin DOMAIN o
    <3> DEFINE j == n - Len(o)
    <3>1. j \in DOMAIN b /\ all[n] = b[j] /\ n \in Nat /\ n = Len(o) + j
      <4>1. j \in DOMAIN b /\ all[n] = b[j]
        BY <1>5, <2>3
      <4>2. n \in Nat
        BY <1>1, <1>4, <1>5, <1>6
      <4> QED BY <1>6, <4>1, <4>2
    <3> HIDE DEF j
    <3>2. j = 1 /\ all[n].pause = Pause(u, t, p) /\ all[n].op.turn = t
      BY <1>4, <1>10, <2>1, <3>1
    <3>3. /\ t > 1
          /\ all[n].pause = "answer" => s[t].role = "assistant" /\ s[t - 1].role = "user"
          /\ all[n].pause = "typing" => s[t].role = "user"
      <4>1. Pause(u, t, p) # "none"
        BY <2>1, <3>2
      <4>2. \/ all[n].pause = "typing" /\ u.role = "user" /\ t > 1
            \/ all[n].pause = "answer" /\ u.role = "assistant" /\ p
        BY <3>2, <4>1, PauseFacts
      <4>3. p => t > 1 /\ s[t - 1].role = "user"
        BY <1>2
      <4> QED BY <4>2, <4>3
    <3>4. ASSUME NEW m \in DOMAIN all, all[m].op.turn = t, m # n PROVE all[m].pause = "none"
      <4>1. m \notin DOMAIN o
        BY <1>5, <1>7, <1>9, <3>4
      <4>2. m - Len(o) \in DOMAIN b /\ all[m] = b[m - Len(o)] /\ m \in Nat
        BY <1>1, <1>4, <1>5, <1>6, <4>1
      <4>3. m - Len(o) # 1
        BY <1>6, <3>1, <3>2, <3>4, <4>2
      <4> QED BY <1>4, <4>2, <4>3
    <3> QED BY <3>2, <3>3, <3>4
  <2> QED BY <2>2, <2>3
<1> QED BY <1>5, <1>11, <1>12, <1>13, <1>14, <1>15 DEF LaneOK, all, b

-----------------------------------------------------------------------------
(* Quotient and remainder: there is one way to divide.                     *)

LEMMA Scale ==
  ASSUME NEW n \in Nat, NEW x \in Int, NEW y \in Int, x <= y
  PROVE  n * x <= n * y
OBVIOUS

LEMMA OneDivision ==
  ASSUME NEW n \in Nat \ {0}, NEW q \in Int, NEW p \in Int, NEW r \in Int, NEW s \in Int,
         n * q + r = n * p + s, 0 <= r, r < n, 0 <= s, s < n
  PROVE  q = p /\ r = s
<1>1. ASSUME NEW x \in Int, NEW y \in Int, x + 1 <= y PROVE n * x + n <= n * y
  <2>1. n * (x + 1) <= n * y
    BY <1>1, Scale
  <2>2. n * (x + 1) = n * x + n
    OBVIOUS
  <2> QED BY <2>1, <2>2
<1>2. n * q \in Int /\ n * p \in Int
  OBVIOUS
<1>3. ~(q + 1 <= p)
  BY <1>1, <1>2
<1>4. ~(p + 1 <= q)
  BY <1>1, <1>2
<1> QED BY <1>2, <1>3, <1>4

LEMMA DivMod ==
  ASSUME NEW a \in Nat, NEW n \in Nat \ {0}
  PROVE  /\ a \div n \in Nat /\ a % n \in Nat /\ a % n < n
         /\ a = n * (a \div n) + (a % n)
<1>1. a \div n \in Nat /\ a % n \in 0 .. n - 1
  OBVIOUS
<1>2. a = n * (a \div n) + (a % n)
  OBVIOUS
<1> QED BY <1>1, <1>2

LEMMA SmallResidue ==
  ASSUME NEW n \in Nat \ {0}, NEW a \in 0 .. n - 1
  PROVE  a % n = a
<1> DEFINE q == a \div n
           r == a % n
<1>1. q \in Int /\ r \in Int /\ 0 <= r /\ r < n /\ a = n * q + r
  <2>1. a \in Nat
    OBVIOUS
  <2> QED BY <2>1, DivMod
<1>2. n * 0 + a = a
  OBVIOUS
<1> HIDE DEF q, r
<1>3. a = r
  BY <1>1, <1>2, OneDivision
<1> QED BY <1>3 DEF r

-----------------------------------------------------------------------------
(* The lanes of a user.                                                    *)

\* A function that is the recursion of FlattenSeq up to some place.
Joined(f, ss, m) == \A i \in 1 .. m : f[i] = IF i = 1 THEN ss[i] ELSE f[i - 1] \o ss[i]

LEMMA JoinExists ==
  ASSUME NEW ss, NEW N \in Nat, NEW m \in 0 .. N
  PROVE  \E f : f = [i \in 1 .. N |-> f[i]] /\ Joined(f, ss, m)
<1> DEFINE Bad == {n \in 0 .. N : ~\E f : f = [i \in 1 .. N |-> f[i]] /\ Joined(f, ss, n)}
<1>1. SUFFICES ASSUME Bad # {} PROVE FALSE
  OBVIOUS
<1>2. PICK n \in Bad : \A k \in Bad : n <= k
  <2>1. Bad \subseteq Nat
    OBVIOUS
  <2> HIDE DEF Bad
  <2> QED BY <1>1, <2>1, LeastNumber
<1>3. n \in 0 .. N
  OBVIOUS
<1>4. CASE n = 0
  <2> DEFINE g == [i \in 1 .. N |-> 0]
  <2>1. g = [i \in 1 .. N |-> g[i]]
    OBVIOUS
  <2> HIDE DEF g
  <2>2. Joined(g, ss, 0)
    BY DEF Joined
  <2> QED BY <1>4, <2>1, <2>2
<1>5. CASE n > 0
  <2>1. n - 1 \in 0 .. N /\ n - 1 \notin Bad
    <3>1. n - 1 \in 0 .. N /\ ~(n <= n - 1)
      BY <1>3, <1>5
    <3> HIDE DEF Bad
    <3> QED BY <1>2, <3>1
  <2>2. PICK f : f = [i \in 1 .. N |-> f[i]] /\ Joined(f, ss, n - 1)
    BY <2>1
  <2> DEFINE value == IF n = 1 THEN ss[n] ELSE f[n - 1] \o ss[n]
             g == [i \in 1 .. N |-> IF i = n THEN value ELSE f[i]]
  <2>3. /\ g = [i \in 1 .. N |-> g[i]]
        /\ \A i \in 1 .. N : g[i] = IF i = n THEN value ELSE f[i]
    OBVIOUS
  <2> HIDE DEF g
  <2>4. ASSUME NEW i \in 1 .. n
        PROVE  g[i] = IF i = 1 THEN ss[i] ELSE g[i - 1] \o ss[i]
    <3>1. i \in 1 .. N /\ (i # 1 => i - 1 \in 1 .. N /\ i - 1 # n)
      BY <1>3
    <3>2. i # 1 => g[i - 1] = f[i - 1]
      BY <2>3, <3>1
    <3>3. CASE i = n
      BY <2>3, <3>1, <3>2, <3>3
    <3>4. CASE i # n
      <4>1. i \in 1 .. n - 1
        BY <1>3, <3>4
      <4> QED BY <2>2, <2>3, <3>1, <3>2, <3>4, <4>1 DEF Joined
    <3> QED BY <3>3, <3>4
  <2>5. Joined(g, ss, n)
    BY <2>4 DEF Joined
  <2> QED BY <2>3, <2>5
<1> QED BY <1>3, <1>4, <1>5

LEMMA JoinedParts ==
  ASSUME NEW T, NEW ss \in Seq(Seq(T)), NEW f, Joined(f, ss, Len(ss)), NEW i \in 1 .. Len(ss)
  PROVE  f[i] \in Seq(T)
<1> DEFINE Bad == {n \in 1 .. Len(ss) : f[n] \notin Seq(T)}
<1>1. SUFFICES ASSUME Bad # {} PROVE FALSE
  OBVIOUS
<1>2. PICK n \in Bad : \A k \in Bad : n <= k
  <2>1. Bad \subseteq Nat
    OBVIOUS
  <2> HIDE DEF Bad
  <2> QED BY <1>1, <2>1, LeastNumber
<1>3. n \in 1 .. Len(ss) /\ f[n] \notin Seq(T)
  OBVIOUS
<1>4. ss[n] \in Seq(T)
  BY <1>3
<1>5. f[n] = IF n = 1 THEN ss[n] ELSE f[n - 1] \o ss[n]
  BY <1>3 DEF Joined
<1>6. n # 1 => f[n - 1] \in Seq(T)
  <2>1. n # 1 => n - 1 \in 1 .. Len(ss) /\ ~(n <= n - 1)
    BY <1>3
  <2>2. n # 1 => n - 1 \notin Bad
    <3> HIDE DEF Bad
    <3> QED BY <1>2, <2>1
  <2> QED BY <2>1, <2>2
<1>7. n # 1 => f[n - 1] \o ss[n] \in Seq(T)
  BY <1>4, <1>6
<1> QED BY <1>3, <1>4, <1>5, <1>7

\* The turns of all conversations are turns.
LEMMA FlattenTurns ==
  ASSUME NEW T, NEW ss \in Seq(Seq(T)), ss # <<>>
  PROVE  FlattenSeq(ss) \in Seq(T)
<1> DEFINE Is(g) == g = [i \in 1 .. Len(ss) |-> IF i = 1 THEN ss[i] ELSE g[i - 1] \o ss[i]]
           it == CHOOSE g : Is(g)
<1>1. Len(ss) \in Nat /\ Len(ss) # 0 /\ Len(ss) \in 1 .. Len(ss) /\ Len(ss) \in 0 .. Len(ss)
  OBVIOUS
<1>2. FlattenSeq(ss) = it[Len(ss)]
  BY <1>1, Zenon DEF FlattenSeq
<1>3. PICK f : f = [i \in 1 .. Len(ss) |-> f[i]] /\ Joined(f, ss, Len(ss))
  BY <1>1, JoinExists
<1>4. Is(f)
  BY <1>3 DEF Joined
<1>5. Is(it)
  <2> HIDE DEF Is
  <2> QED BY <1>4
<1>6. Joined(it, ss, Len(ss))
  <2> HIDE DEF it
  <2> QED BY <1>5 DEF Joined
<1> HIDE DEF it
<1> QED BY <1>1, <1>2, <1>6, JoinedParts

\* A conversation that has just begun.
LEMMA BeginsOK ==
  ASSUME NEW s \in Seq(Turn)
  PROVE  LaneOK(s, 1, 0, FALSE, <<>>)
<1>1. UserTurns(s, 1) = {} /\ Len(s) \in Nat
  BY DEF UserTurns
<1>2. Counted(s, 1, 0, FALSE)
  <2>1. 1 \in 1 .. Len(s) + 1 /\ ~(1 > 1)
    BY <1>1
  <2>2. FALSE = (1 > 1 /\ s[1 - 1].role = "user")
    BY <2>1, Zenon
  <2>3. 0 = Cardinality(UserTurns(s, 1))
    BY <1>1, FS_EmptySet
  <2> QED BY <2>1, <2>2, <2>3, Zenon DEF Counted
<1>3. IsSeq(<<>>) /\ OpsOrdered(<<>>) /\ OpsPaced(s, <<>>)
  BY DEF IsSeq, OpsOrdered, OpsPaced
<1>4. OpsKnown(s, 1, <<>>) /\ OpsThere(s, 1, <<>>)
  BY DEF OpsKnown, OpsThere
<1> QED BY <1>2, <1>3, <1>4 DEF LaneOK

IsOn(f, D) == f = [l \in D |-> f[l]]

\* Every lane is in one of its conversations, and has done what that one asks for.
LanesOK ==
  /\ lanes \in 0 .. Len(sessions)
  /\ IsOn(at, Lane) /\ IsOn(turn, Lane) /\ IsOn(recalls, Lane) /\ IsOn(prev, Lane)
  /\ IsOn(out, Lane)
  /\ \A l \in Lane : /\ at[l] \in Assigned(l)
                     /\ LaneOK(sessions[at[l]], turn[l], recalls[l], prev[l], out[l])

ReplayInv ==
  /\ turns \in Seq(Turn) /\ sessions \in Seq(Seq(Turn))
  /\ phase \in {"validate", "ingest", "run"} => setting \in Setting
  /\ phase \in {"ingest", "run"} /\ Dialogues => setting.lanes <= Len(sessions)
  /\ lanes # 0 => phase = "run"
  /\ LanesOK

\* A user has a conversation for every lane, and a lane that has another one's keeps
\* its own.
LEMMA LaneFacts ==
  ASSUME sessions \in Seq(Seq(Turn)), lanes \in 0 .. Len(sessions), NEW l \in Lane
  PROVE  /\ Len(sessions) \in Nat /\ lanes \in Nat \ {0} /\ l \in Nat /\ l < lanes
         /\ l + 1 \in Assigned(l)
         /\ Assigned(l) \subseteq 1 .. Len(sessions)
         /\ \A i \in Assigned(l) : sessions[i] \in Seq(Turn)
<1>1. Len(sessions) \in Nat /\ lanes \in Nat \ {0} /\ l \in Nat /\ l < lanes
  BY DEF Lane
<1>2. Assigned(l) \subseteq 1 .. Len(sessions)
  BY DEF Assigned
<1>3. (l + 1) - 1 = l /\ l % lanes = l
  <2>1. l \in 0 .. lanes - 1
    BY <1>1
  <2> QED BY <1>1, <2>1, SmallResidue
<1>4. l + 1 \in 1 .. Len(sessions)
  BY <1>1
<1> QED BY <1>1, <1>2, <1>3, <1>4 DEF Assigned

LEMMA NextAtFacts ==
  ASSUME NEW l, Assigned(l) # {}, Assigned(l) \subseteq Nat
  PROVE  NextAt(l) \in Assigned(l)
<1> DEFINE later == {i \in Assigned(l) : i > at[l]}
           from == IF later = {} THEN Assigned(l) ELSE later
<1>1. from \subseteq Assigned(l) /\ from \subseteq Nat /\ from # {}
  OBVIOUS
<1>2. NextAt(l) = CHOOSE i \in from : \A j \in from : i <= j
  BY DEF NextAt
<1> HIDE DEF from
<1>3. \E i \in from : \A j \in from : i <= j
  BY <1>1, LeastNumber
<1> QED BY <1>1, <1>2, <1>3

LEMMA LanesUnchanged ==
  ASSUME LanesOK, UNCHANGED replayVars
  PROVE  LanesOK'
BY DEF replayVars, LanesOK, Lane, Assigned

LEMMA NoLanes ==
  ASSUME LanesOK, lanes = 0, UNCHANGED <<lanes, at, turn, recalls, prev, out>>,
         sessions' \in Seq(Seq(Turn))
  PROVE  LanesOK'
<1>1. Lane = {} /\ Lane' = {} /\ lanes' \in 0 .. Len(sessions')
  BY DEF Lane
<1> QED BY <1>1 DEF LanesOK

\* One lane moves on, and the others stay where they are.
LEMMA LaneMoves ==
  ASSUME LanesOK, UNCHANGED <<sessions, lanes>>, NEW l \in Lane,
         NEW a \in Assigned(l), NEW t, NEW r, NEW p, NEW o, LaneOK(sessions[a], t, r, p, o),
         at' = [at EXCEPT ![l] = a], turn' = [turn EXCEPT ![l] = t],
         recalls' = [recalls EXCEPT ![l] = r], prev' = [prev EXCEPT ![l] = p],
         out' = [out EXCEPT ![l] = o]
  PROVE  LanesOK'
<1>1. Lane' = Lane /\ lanes' \in 0 .. Len(sessions') /\ \A m : Assigned(m)' = Assigned(m)
  BY DEF LanesOK, Lane, Assigned
<1>2. /\ IsOn(at, Lane) /\ IsOn(turn, Lane) /\ IsOn(recalls, Lane) /\ IsOn(prev, Lane)
      /\ IsOn(out, Lane)
  BY DEF LanesOK
<1>3. IsOn(at', Lane) /\ at'[l] = a /\ \A m \in Lane : m # l => at'[m] = at[m]
  BY <1>2 DEF IsOn
<1>4. IsOn(turn', Lane) /\ turn'[l] = t /\ \A m \in Lane : m # l => turn'[m] = turn[m]
  BY <1>2 DEF IsOn
<1>5. IsOn(recalls', Lane) /\ recalls'[l] = r /\ \A m \in Lane : m # l => recalls'[m] = recalls[m]
  BY <1>2 DEF IsOn
<1>6. IsOn(prev', Lane) /\ prev'[l] = p /\ \A m \in Lane : m # l => prev'[m] = prev[m]
  BY <1>2 DEF IsOn
<1>7. IsOn(out', Lane) /\ out'[l] = o /\ \A m \in Lane : m # l => out'[m] = out[m]
  BY <1>2 DEF IsOn
<1>8. ASSUME NEW m \in Lane
      PROVE  /\ at'[m] \in Assigned(m)
             /\ LaneOK(sessions'[at'[m]], turn'[m], recalls'[m], prev'[m], out'[m])
  <2>1. CASE m = l
    BY <1>3, <1>4, <1>5, <1>6, <1>7, <2>1
  <2>2. CASE m # l
    <3>1. /\ at'[m] = at[m] /\ turn'[m] = turn[m] /\ recalls'[m] = recalls[m]
          /\ prev'[m] = prev[m] /\ out'[m] = out[m]
      BY <1>3, <1>4, <1>5, <1>6, <1>7, <2>2
    <3> QED BY <3>1 DEF LanesOK
  <2> QED BY <2>1, <2>2
<1> QED BY <1>1, <1>3, <1>4, <1>5, <1>6, <1>7, <1>8 DEF LanesOK

LEMMA LaneStep ==
  ASSUME LanesOK, sessions \in Seq(Seq(Turn)), NEW l \in Lane, ReplayStep(l) \/ NewVisitor(l)
  PROVE  LanesOK'
<1>1. /\ IsOn(at, Lane) /\ IsOn(turn, Lane) /\ IsOn(recalls, Lane) /\ IsOn(prev, Lane)
      /\ IsOn(out, Lane)
      /\ at[l] \in Assigned(l)
      /\ LaneOK(sessions[at[l]], turn[l], recalls[l], prev[l], out[l])
      /\ lanes \in 0 .. Len(sessions)
  BY DEF LanesOK
<1>2. /\ l + 1 \in Assigned(l) /\ Assigned(l) \subseteq Nat
      /\ \A i \in Assigned(l) : sessions[i] \in Seq(Turn)
  BY <1>1, LaneFacts
<1>3. ASSUME NEW i \in Assigned(l), Begin(l, i) PROVE LanesOK'
  <2>1. LaneOK(sessions[i], 1, 0, FALSE, <<>>)
    BY <1>2, BeginsOK
  <2>2. /\ at' = [at EXCEPT ![l] = i] /\ turn' = [turn EXCEPT ![l] = 1]
        /\ recalls' = [recalls EXCEPT ![l] = 0] /\ prev' = [prev EXCEPT ![l] = FALSE]
        /\ out' = [out EXCEPT ![l] = <<>>] /\ UNCHANGED <<sessions, lanes>>
    BY <1>3 DEF Begin, ResetCounters
  <2> QED BY <2>1, <2>2, LaneMoves
<1>4. CASE Step(l)
  <2> DEFINE s == sessions[at[l]]
             t == turn[l]
             r == IF IsUser(s[t]) THEN recalls[l] + 1 ELSE recalls[l]
             o == out[l] \o WithPause(Ops(s[t], recalls[l], t), Pause(s[t], t, prev[l]))
  <2>1. LaneOK(s, t + 1, r, IsUser(s[t]), o)
    <3>1. s \in Seq(Turn) /\ t <= Len(s) /\ LaneOK(s, t, recalls[l], prev[l], out[l])
      BY <1>1, <1>2, <1>4 DEF Step
    <3> HIDE DEF s, t
    <3> QED BY <3>1, TurnReplayed
  <2>2. /\ turn' = [turn EXCEPT ![l] = t + 1] /\ recalls' = [recalls EXCEPT ![l] = r]
        /\ prev' = [prev EXCEPT ![l] = IsUser(s[t])] /\ out' = [out EXCEPT ![l] = o]
        /\ UNCHANGED <<sessions, lanes, at>>
    BY <1>4 DEF Step
  <2>3. at' = [at EXCEPT ![l] = at[l]]
    BY <1>1, <2>2 DEF IsOn
  <2> HIDE DEF r, o
  <2> QED BY <1>1, <2>1, <2>2, <2>3, LaneMoves
<1>5. CASE NextConversation(l)
  <2>1. NextAt(l) \in Assigned(l)
    BY <1>1, <1>2, NextAtFacts
  <2> QED BY <1>3, <1>5, <2>1 DEF NextConversation
<1>6. CASE NewVisitor(l)
  BY <1>2, <1>3, <1>6 DEF NewVisitor
<1> QED BY <1>4, <1>5, <1>6 DEF ReplayStep

\* The lanes of a user start at the first conversations.
LEMMA LanesStart ==
  ASSUME NEW ss \in Seq(Seq(Turn)), NEW n \in 0 .. Len(ss), Replay(ss, n)
  PROVE  LanesOK'
<1>1. /\ sessions' = ss /\ lanes' = n
      /\ at' = [l \in 0 .. n - 1 |-> l + 1] /\ turn' = [l \in 0 .. n - 1 |-> 1]
      /\ recalls' = [l \in 0 .. n - 1 |-> 0] /\ prev' = [l \in 0 .. n - 1 |-> FALSE]
      /\ out' = [l \in 0 .. n - 1 |-> <<>>]
  BY DEF Replay
<1>2. Lane' = 0 .. n - 1
  BY <1>1 DEF Lane
<1>3. ASSUME NEW l \in 0 .. n - 1
      PROVE  l + 1 \in Assigned(l)' /\ LaneOK(ss[l + 1], 1, 0, FALSE, <<>>)
  <2>1. l + 1 \in 1 .. Len(ss) /\ (l + 1) - 1 = l /\ n \in Nat \ {0}
    OBVIOUS
  <2>2. l % n = l
    BY <2>1, SmallResidue
  <2>3. ss[l + 1] \in Seq(Turn)
    BY <2>1
  <2> QED BY <1>1, <2>1, <2>2, <2>3, BeginsOK DEF Assigned
<1>4. /\ IsOn(at', 0 .. n - 1) /\ IsOn(turn', 0 .. n - 1) /\ IsOn(recalls', 0 .. n - 1)
      /\ IsOn(prev', 0 .. n - 1) /\ IsOn(out', 0 .. n - 1)
  BY <1>1 DEF IsOn
<1>5. \A l \in 0 .. n - 1 : /\ at'[l] = l + 1 /\ turn'[l] = 1 /\ recalls'[l] = 0
                            /\ prev'[l] = FALSE /\ out'[l] = <<>>
  BY <1>1
<1> QED BY <1>1, <1>2, <1>3, <1>4, <1>5 DEF LanesOK

\* What an action of the reader or the dealer does to the variables of the replay.
Phase(name) == phase = name /\ lanes = 0

LEMMA ReadingLeavesLanes ==
  ASSUME ReplayInv, Phase("read"), UNCHANGED <<lanes, at, turn, recalls, prev, out>>,
         turns' \in Seq(Turn), sessions' \in Seq(Seq(Turn)),
         \/ phase' \in {"read", "refused"}
         \/ phase' = "validate" /\ setting' \in Setting
  PROVE  ReplayInv'
<1>1. LanesOK'
  BY NoLanes DEF ReplayInv, Phase
<1>2. lanes' = 0
  BY DEF Phase
<1> QED BY <1>1, <1>2 DEF ReplayInv

\* The phase goes on, and nothing that the lanes depend on changes.
LEMMA RunningLeavesLanes ==
  ASSUME ReplayInv, UNCHANGED <<turns, replayVars, setting>>,
         \/ UNCHANGED phase
         \/ phase' = "refused" /\ lanes = 0
         \/ phase \in {"validate", "ingest"} /\ phase' \in {"ingest", "run"}
              /\ (phase = "ingest" \/ (Dialogues => setting.lanes <= Len(sessions)))
  PROVE  ReplayInv'
<1>1. LanesOK'
  BY LanesUnchanged DEF ReplayInv
<1>2. Dialogues' <=> Dialogues
  BY DEF Dialogues
<1> QED BY <1>1, <1>2 DEF ReplayInv, replayVars

LEMMA KeptTurns ==
  ASSUME NEW d \in Dialogue
  PROVE  Kept(d.role, SplitChunks(d.text, MaxChars)) \in Seq(Turn)
<1> DEFINE cs == SplitChunks(d.text, MaxChars)
           t == [role |-> d.role, items |-> Len(cs)]
<1>1. GoodFrom(cs, d.text, MaxChars, 0)
  BY WorkloadAssumption, ChunksGood
<1> HIDE DEF cs
<1>2. cs \in Seq(ChunkType)
  BY <1>1, GoodFacts
<1>3. cs # <<>> => Len(cs) \in Nat \ {0}
  BY <1>2
<1>4. cs # <<>> => t \in Turn
  BY <1>3 DEF Turn
<1>5. Kept(d.role, cs) = IF cs = <<>> THEN <<>> ELSE <<t>>
  BY DEF Kept
<1> HIDE DEF t
<1> QED BY <1>4, <1>5 DEF cs

LEMMA ReplayInvStep ==
  ASSUME ReplayInv, [Next]_vars
  PROVE  ReplayInv'
<1>1. /\ turns \in Seq(Turn) /\ sessions \in Seq(Seq(Turn))
      /\ phase \in {"validate", "ingest", "run"} => setting \in Setting
      /\ phase \in {"ingest", "run"} /\ Dialogues => setting.lanes <= Len(sessions)
      /\ lanes # 0 => phase = "run"
      /\ LanesOK
  BY DEF ReplayInv
<1>2. phase = "read" => Phase("read")
  BY <1>1 DEF Phase
<1>3. CASE BeginRecord \/ ReadRecord \/ CloseRecord
  <2>1. phase = "read" /\ phase' \in {"read", "refused"} /\ UNCHANGED <<sampleVars, replayVars>>
    BY <1>3 DEF BeginRecord, ReadRecord, CloseRecord, Source, Refuse, Close, corpusVars
  <2> QED BY <1>1, <1>2, <2>1, ReadingLeavesLanes DEF sampleVars, replayVars
<1>4. CASE BeginSample \/ EndSample
  <2>1. /\ phase = "read" /\ phase' = "read" /\ UNCHANGED <<turns, lanes, at, turn, recalls, prev, out>>
        /\ sessions' \in {<<>>, sessions}
    BY <1>4 DEF BeginSample, EndSample, Source, Close, corpusVars, sampleVars, replayVars
  <2>2. <<>> \in Seq(Seq(Turn))
    OBVIOUS
  <2>3. sessions' \in Seq(Seq(Turn)) /\ turns' \in Seq(Turn)
    BY <1>1, <2>1, <2>2
  <2> QED BY <1>2, <2>1, <2>3, ReadingLeavesLanes
<1>5. CASE ReadTurn
  <2>1. PICK d \in Dialogue : turns' = turns \o Kept(d.role, SplitChunks(d.text, MaxChars))
    BY <1>5 DEF ReadTurn
  <2>2. turns' \in Seq(Turn)
    BY <1>1, <2>1, KeptTurns
  <2>3. phase = "read" /\ phase' = "read" /\ UNCHANGED replayVars
    BY <1>5 DEF ReadTurn, Source, corpusVars
  <2> QED BY <1>1, <1>2, <2>2, <2>3, ReadingLeavesLanes DEF replayVars
<1>6. CASE EndConversation
  <2>1. /\ sessions' = IF turns = <<>> THEN sessions ELSE Append(sessions, turns)
        /\ turns' = <<>> /\ phase = "read" /\ phase' = "read"
        /\ UNCHANGED <<lanes, at, turn, recalls, prev, out>>
    BY <1>6 DEF EndConversation, Source, corpusVars
  <2>2. turns' \in Seq(Turn) /\ sessions' \in Seq(Seq(Turn))
    BY <1>1, <2>1
  <2> QED BY <1>2, <2>1, <2>2, ReadingLeavesLanes
<1>7. CASE Deal
  <2>1. PICK s \in Setting : Dealt(s, items) /\ sessions' = IF s.scenario = "chat-replay"
                                                           THEN sessions ELSE <<>>
    BY <1>7 DEF Deal
  <2>2. /\ phase = "read" /\ phase' = "validate" /\ setting' \in Setting
        /\ UNCHANGED <<turns, lanes, at, turn, recalls, prev, out>>
    BY <1>7, <2>1 DEF Deal, Dealt, sampleVars
  <2>3. turns' \in Seq(Turn) /\ sessions' \in Seq(Seq(Turn))
    BY <1>1, <2>1, <2>2
  <2> QED BY <1>2, <2>2, <2>3, ReadingLeavesLanes
<1>8. CASE ValidateReplay
  <2>1. /\ phase = "validate" /\ lanes = 0 /\ UNCHANGED <<turns, replayVars, setting>>
        /\ \/ phase' = "refused"
           \/ phase' \in {"ingest", "run"} /\ ~(setting.lanes > Len(sessions))
    BY <1>1, <1>8 DEF ValidateReplay, Refuse, OnlyPhase, sampleVars
  <2>2. setting.lanes \in Nat /\ Len(sessions) \in Nat
    BY <1>1, <2>1, WorkloadAssumption
  <2> QED BY <2>1, <2>2, RunningLeavesLanes
<1>9. CASE StartReplay
  <2>1. /\ phase = "run" /\ Dialogues /\ sessions # <<>> /\ UNCHANGED <<turns, phase, setting>>
        /\ setting.lanes \in Nat /\ setting.lanes <= Len(sessions) /\ setting \in Setting
    BY <1>1, <1>9, WorkloadAssumption DEF StartReplay, sampleVars, corpusVars
  <2>2. PICK ss \in Seq(Seq(Turn)) : \E n \in 0 .. Len(ss) :
          Replay(ss, n) /\ setting.lanes <= Len(ss)
    <3>1. CASE setting.lanes > 0
      <4>1. setting.lanes \in 0 .. Len(sessions) /\ Len(sessions) \in Nat
        BY <1>1, <2>1
      <4> QED BY <1>1, <1>9, <2>1, <3>1, <4>1 DEF StartReplay
    <3>2. CASE ~(setting.lanes > 0)
      <4>1. FlattenSeq(sessions) \in Seq(Turn)
        BY <1>1, <2>1, FlattenTurns
      <4>2. /\ <<FlattenSeq(sessions)>> \in Seq(Seq(Turn)) /\ Len(<<FlattenSeq(sessions)>>) = 1
            /\ 1 \in 0 .. 1
        BY <4>1
      <4>3. Replay(<<FlattenSeq(sessions)>>, 1) /\ setting.lanes <= 1
        BY <1>9, <2>1, <3>2 DEF StartReplay
      <4> QED BY <4>2, <4>3
    <3> QED BY <3>1, <3>2
  <2>3. LanesOK' /\ sessions' = ss
    BY <2>2, LanesStart DEF Replay
  <2>4. turns' \in Seq(Turn) /\ Dialogues'
    BY <1>1, <2>1 DEF Dialogues
  <2> QED BY <2>1, <2>2, <2>3, <2>4 DEF ReplayInv
<1>10. CASE ReplayTurn
  <2>1. /\ phase = "run" /\ Dialogues /\ UNCHANGED <<turns, phase, setting>>
        /\ \E l \in Lane : ReplayStep(l) \/ NewVisitor(l)
    BY <1>10 DEF ReplayTurn, sampleVars, corpusVars
  <2>2. UNCHANGED sessions
    BY <2>1 DEF ReplayStep, Step, NextConversation, NewVisitor, Begin
  <2>3. LanesOK' /\ (Dialogues' <=> Dialogues)
    BY <1>1, <2>1, LaneStep DEF Dialogues
  <2> QED BY <1>1, <2>1, <2>2, <2>3 DEF ReplayInv
<1>11. CASE DrawFromCorpus
  <2>1. UNCHANGED <<turns, replayVars, setting>>
    BY <1>11 DEF DrawFromCorpus, CorpusStep, BuildPool, Validated, EndIngest, IngestBatch,
                 IngestShare, Start, Draw, NextSession, sampleVars
  <2>2. \/ UNCHANGED phase
        \/ phase' = "refused" /\ phase \in {"validate", "ingest"}
        \/ phase = "ingest" /\ phase' = "run"
        \/ phase = "validate" /\ phase' \in {"ingest", "run"} /\ ~Dialogues
    BY <1>11 DEF DrawFromCorpus, CorpusStep, BuildPool, Validated, EndIngest, IngestBatch,
                 IngestShare, Start, Draw, NextSession, Refuse, Dialogues
  <2> QED BY <1>1, <2>1, <2>2, RunningLeavesLanes
<1>12. CASE Over \/ UNCHANGED vars
  <2>1. UNCHANGED <<turns, replayVars, setting, phase>>
    BY <1>12 DEF Over, vars, sampleVars, corpusVars
  <2> QED BY <2>1, RunningLeavesLanes
<1> QED BY <1>3, <1>4, <1>5, <1>6, <1>7, <1>8, <1>9, <1>10, <1>11, <1>12 DEF Next

LEMMA LanesReplay ==
  ASSUME sessions \in Seq(Seq(Turn)), LanesOK
  PROVE  Replayed
<1>1. lanes \in 0 .. Len(sessions) /\ Len(sessions) \in Nat
  BY DEF LanesOK
<1>2. ASSUME NEW l \in Lane
      PROVE  /\ at[l] \in Assigned(l) /\ at[l] \in 1 .. Len(sessions)
             /\ LaneOK(sessions[at[l]], turn[l], recalls[l], prev[l], out[l])
             /\ sessions[at[l]] \in Seq(Turn) /\ lanes \in Nat \ {0}
  BY <1>1, LaneFacts DEF LanesOK
<1>3. TypeOK
  <2>1. at \in [Lane -> 1 .. Len(sessions)]
    BY <1>2 DEF LanesOK, IsOn
  <2>2. ASSUME NEW l \in Lane
        PROVE  /\ turn[l] \in 1 .. Len(sessions[at[l]]) + 1 /\ recalls[l] \in 0 .. turn[l] - 1
               /\ prev[l] \in BOOLEAN
    <3> DEFINE s == sessions[at[l]]
               t == turn[l]
    <3>1. Counted(s, t, recalls[l], prev[l]) /\ Len(s) \in Nat
      BY <1>2 DEF LaneOK
    <3>2. t \in 1 .. Len(s) + 1 /\ recalls[l] = Cardinality(UserTurns(s, t)) /\ prev[l] \in BOOLEAN
      <4> HIDE DEF s, t
      <4> QED BY <3>1 DEF Counted
    <3> HIDE DEF s, t
    <3>3. IsFiniteSet(1 .. t - 1) /\ Cardinality(1 .. t - 1) = t - 1
      <4>1. t \in Int /\ t >= 1
        BY <3>1, <3>2
      <4>2. IsFiniteSet(1 .. t - 1)
            /\ Cardinality(1 .. t - 1) = IF 1 > t - 1 THEN 0 ELSE (t - 1) - 1 + 1
        BY <4>1, FS_Interval
      <4> QED BY <4>1, <4>2
    <3>4. UserTurns(s, t) \subseteq 1 .. t - 1
      BY DEF UserTurns
    <3>5. /\ Cardinality(UserTurns(s, t)) \in Nat
          /\ Cardinality(UserTurns(s, t)) <= Cardinality(1 .. t - 1)
      BY <3>3, <3>4, FS_Subset, FS_CardinalityType
    <3> QED BY <3>1, <3>2, <3>3, <3>5 DEF s, t
  <2>3. prev \in [Lane -> BOOLEAN]
    BY <2>2 DEF LanesOK, IsOn
  <2> QED BY <1>1, <2>1, <2>2, <2>3 DEF TypeOK
<1>4. LanesDisjoint
  <2>1. ASSUME NEW l \in Lane, NEW m \in Lane, l # m
        PROVE  at[l] # at[m] /\ Assigned(l) \cap Assigned(m) = {}
    <3>1. Assigned(l) \cap Assigned(m) = {}
      BY <2>1 DEF Assigned
    <3> QED BY <1>2, <3>1
  <2>2. ASSUME lanes > 0
        PROVE  UNION {Assigned(l) : l \in Lane} = 1 .. Len(sessions)
    <3>1. \A l \in Lane : Assigned(l) \subseteq 1 .. Len(sessions)
      BY DEF Assigned
    <3>2. ASSUME NEW i \in 1 .. Len(sessions) PROVE \E l \in Lane : i \in Assigned(l)
      <4>1. i - 1 \in Nat /\ lanes \in Nat \ {0}
        BY <1>1, <2>2
      <4>2. (i - 1) % lanes \in Lane
        BY <4>1, DivMod DEF Lane
      <4> QED BY <4>2 DEF Assigned
    <3> QED BY <3>1, <3>2
  <2> QED BY <2>1, <2>2 DEF LanesDisjoint
<1>5. \A i, j, k : /\ SearchOf(i) = SearchOf(j) => i = j
                   /\ SearchOf(i) # AddOf(j, k)
                   /\ SearchOf(i).kind = "search" /\ AddOf(j, k).kind = "add"
                   /\ AddOf(i, 1) = [SearchOf(i) EXCEPT !.kind = "add"]
  BY DEF SearchOf, AddOf
<1>6. RecallBeforeStore
  <2>1. SUFFICES ASSUME NEW l \in Lane
                 PROVE  /\ \A i \in 1 .. turn[l] - 1 :
                             SearchOf(i) \in OpsOf(l) <=> Due(sessions[at[l]], i)
                        /\ \A n \in DOMAIN out[l] : out[l][n].op.kind = "search" =>
                             /\ n < Len(out[l])
                             /\ out[l][n + 1].op = [out[l][n].op EXCEPT !.kind = "add"]
    BY DEF RecallBeforeStore, SearchOf
  <2>2. OpsKnown(sessions[at[l]], turn[l], out[l]) /\ OpsThere(sessions[at[l]], turn[l], out[l])
    BY <1>2 DEF LaneOK
  <2>3. ASSUME NEW n \in DOMAIN out[l], out[l][n].op.kind = "search"
        PROVE  \E i \in 1 .. turn[l] - 1 :
                 /\ out[l][n].op = SearchOf(i) /\ Due(sessions[at[l]], i) /\ n < Len(out[l])
                 /\ out[l][n + 1].op = AddOf(i, 1)
    <3> DEFINE s == sessions[at[l]]
               t == turn[l]
               o == out[l]
    <3>1. OpsKnown(s, t, o) /\ n \in DOMAIN o /\ o[n].op.kind = "search"
      BY <2>2, <2>3
    <3> HIDE DEF s, t, o
    <3>2. PICK i \in 1 .. t - 1 :
            \/ o[n].op = SearchOf(i) /\ Due(s, i) /\ n < Len(o) /\ o[n + 1].op = AddOf(i, 1)
            \/ \E k \in 1 .. s[i].items : o[n].op = AddOf(i, k)
      BY <3>1 DEF OpsKnown
    <3>3. \A k : o[n].op # AddOf(i, k)
      BY <1>5, <3>1
    <3> QED BY <3>2, <3>3 DEF s, t, o
  <2>4. \A i \in 1 .. turn[l] - 1 : Due(sessions[at[l]], i) => SearchOf(i) \in OpsOf(l)
    BY <2>2 DEF OpsThere, OpsOf
  <2>5. ASSUME NEW i \in 1 .. turn[l] - 1, SearchOf(i) \in OpsOf(l)
        PROVE  Due(sessions[at[l]], i)
    <3>1. PICK n \in DOMAIN out[l] : out[l][n].op = SearchOf(i)
      BY <2>5 DEF OpsOf
    <3>2. out[l][n].op.kind = "search"
      BY <1>5, <3>1
    <3>3. PICK j \in 1 .. turn[l] - 1 :
            out[l][n].op = SearchOf(j) /\ Due(sessions[at[l]], j)
      BY <2>3, <3>2
    <3>4. SearchOf(i) = SearchOf(j)
      BY <3>1, <3>3
    <3>5. i = j
      BY <1>5, <3>4
    <3> QED BY <3>3, <3>5
  <2>6. ASSUME NEW n \in DOMAIN out[l], out[l][n].op.kind = "search"
        PROVE  n < Len(out[l]) /\ out[l][n + 1].op = [out[l][n].op EXCEPT !.kind = "add"]
    <3>1. PICK i \in 1 .. turn[l] - 1 :
            /\ out[l][n].op = SearchOf(i) /\ n < Len(out[l]) /\ out[l][n + 1].op = AddOf(i, 1)
      BY <2>3, <2>6
    <3>2. AddOf(i, 1) = [SearchOf(i) EXCEPT !.kind = "add"]
      BY <1>5
    <3> QED BY <3>1, <3>2
  <2> QED BY <2>4, <2>5, <2>6
<1>7. StoredInOrder
  <2>1. SUFFICES ASSUME NEW l \in Lane
                 PROVE  /\ \A i \in 1 .. turn[l] - 1 : \A k \in 1 .. sessions[at[l]][i].items :
                             AddOf(i, k) \in OpsOf(l)
                        /\ OpsOrdered(out[l])
    BY DEF StoredInOrder, AddOf, OpsOrdered
  <2>2. OpsThere(sessions[at[l]], turn[l], out[l]) /\ OpsOrdered(out[l])
    BY <1>2 DEF LaneOK
  <2> QED BY <2>2 DEF OpsThere, OpsOf
<1>8. PausesFit
  <2>1. \A l \in Lane : OpsPaced(sessions[at[l]], out[l])
    BY <1>2 DEF LaneOK
  <2> QED BY <2>1 DEF PausesFit, OpsPaced
<1> QED BY <1>3, <1>4, <1>6, <1>7, <1>8 DEF Replayed

LEMMA ReplayInit ==
  Init => ReplayInv
<1> SUFFICES ASSUME Init PROVE ReplayInv
  OBVIOUS
<1>1. /\ turns = <<>> /\ sessions = <<>> /\ lanes = 0 /\ phase = "read"
      /\ at = <<>> /\ turn = <<>> /\ recalls = <<>> /\ prev = <<>> /\ out = <<>>
  BY DEF Init
<1>2. Lane = {}
  BY <1>1 DEF Lane
<1>3. IsOn(<<>>, {})
  BY DEF IsOn
<1>4. LanesOK
  BY <1>1, <1>2, <1>3 DEF LanesOK
<1> QED BY <1>1, <1>4 DEF ReplayInv

\* The lanes of a user replay its conversations (ChatReplay): each in one lane only,
\* every item stored once and in order, searched for in time and paced as people do,
\* for any conversations, number of lanes and interval of searches.
THEOREM ConversationsReplayed == Spec => []Replayed
<1>1. Init => ReplayInv
  BY ReplayInit
<1>2. ReplayInv /\ [Next]_vars => ReplayInv'
  BY ReplayInvStep
<1>3. ReplayInv => Replayed
  BY LanesReplay DEF ReplayInv
<1> QED BY <1>1, <1>2, <1>3, PTL DEF Spec

-----------------------------------------------------------------------------
(* Sums over finite sets.                                                  *)

One(S) == CHOOSE x \in S : TRUE

\* The equation of the fold over the sets of family F.
Partial(g, f, F) == \A s \in F : g[s] = IF s = {} THEN 0 ELSE f[One(s)] + g[s \ {One(s)}]

\* For the subsets of at most n elements it has a solution.
LEMMA PartialSums ==
  ASSUME NEW S, IsFiniteSet(S), NEW f, NEW n \in Nat
  PROVE  \E g : /\ g = [s \in SUBSET S |-> g[s]]
                /\ Partial(g, f, {s \in SUBSET S : Cardinality(s) <= n})
<1> DEFINE Upto(m) == {s \in SUBSET S : Cardinality(s) <= m}
           Good(m) == \E g : g = [s \in SUBSET S |-> g[s]] /\ Partial(g, f, Upto(m))
           Bad == {m \in Nat : ~Good(m)}
<1>1. SUFFICES ASSUME Bad # {} PROVE FALSE
  OBVIOUS
<1>2. PICK m \in Bad : \A k \in Bad : m <= k
  <2>1. Bad \subseteq Nat
    OBVIOUS
  <2> HIDE DEF Bad
  <2> QED BY <1>1, <2>1, LeastNumber
<1>3. \A s \in SUBSET S : IsFiniteSet(s) /\ Cardinality(s) \in Nat /\ (Cardinality(s) = 0 <=> s = {})
  BY FS_Subset, FS_EmptySet, FS_CardinalityType
<1>4. CASE m = 0
  <2> DEFINE g == [s \in SUBSET S |-> 0]
  <2>1. g = [s \in SUBSET S |-> g[s]]
    OBVIOUS
  <2>2. \A s \in Upto(0) : s = {}
    BY <1>3
  <2>3. Partial(g, f, Upto(0))
    BY <2>2 DEF Partial
  <2> HIDE DEF g
  <2> QED BY <1>4, <2>1, <2>3
<1>5. CASE m > 0
  <2>1. m - 1 \in Nat /\ m - 1 \notin Bad
    <3>1. m \in Nat
      OBVIOUS
    <3> HIDE DEF Bad
    <3> QED BY <1>2, <1>5, <3>1
  <2>2. PICK g : g = [s \in SUBSET S |-> g[s]] /\ Partial(g, f, Upto(m - 1))
    BY <2>1
  <2> DEFINE h == [s \in SUBSET S |-> IF s = {} THEN 0 ELSE f[One(s)] + g[s \ {One(s)}]]
  <2>3. h = [s \in SUBSET S |-> h[s]]
    OBVIOUS
  <2>4. ASSUME NEW s \in Upto(m), s # {} PROVE g[s \ {One(s)}] = h[s \ {One(s)}]
    <3>1. One(s) \in s /\ s \in SUBSET S
      BY <2>4 DEF One
    <3>2. Cardinality(s \ {One(s)}) = Cardinality(s) - 1
      BY <1>3, <3>1, FS_RemoveElement
    <3>3. s \ {One(s)} \in Upto(m - 1)
      BY <1>3, <1>2, <3>1, <3>2
    <3> QED BY <2>2, <3>3 DEF Partial
  <2>5. Partial(h, f, Upto(m))
    <3> SUFFICES ASSUME NEW s \in Upto(m)
                 PROVE h[s] = IF s = {} THEN 0 ELSE f[One(s)] + h[s \ {One(s)}]
      BY DEF Partial
    <3>1. h[s] = IF s = {} THEN 0 ELSE f[One(s)] + g[s \ {One(s)}]
      OBVIOUS
    <3> HIDE DEF h
    <3> QED BY <2>4, <3>1
  <2> HIDE DEF h
  <2> QED BY <2>3, <2>5
<1> QED BY <1>2, <1>4, <1>5

\* A sum of naturals is one, and 0 over no elements.
LEMMA SumNat ==
  ASSUME NEW S, IsFiniteSet(S), NEW f, \A x \in S : f[x] \in Nat
  PROVE  SumFunctionOnSet(f, S) \in Nat /\ (S = {} => SumFunctionOnSet(f, S) = 0)
<1> DEFINE Eqn(g) == g = [s \in SUBSET S |->
                            IF s = {} THEN 0 ELSE f[CHOOSE x \in s : TRUE]
                                                  + g[s \ {CHOOSE x \in s : TRUE}]]
           it == CHOOSE g : Eqn(g)
<1>1. \E g : Eqn(g)
  <2>1. Cardinality(S) \in Nat /\ \A s \in SUBSET S : Cardinality(s) <= Cardinality(S)
    BY FS_CardinalityType, FS_Subset
  <2>2. {s \in SUBSET S : Cardinality(s) <= Cardinality(S)} = SUBSET S
    BY <2>1
  <2>3. PICK g : /\ g = [s \in SUBSET S |-> g[s]]
                 /\ Partial(g, f, {s \in SUBSET S : Cardinality(s) <= Cardinality(S)})
    BY <2>1, PartialSums
  <2>4. Eqn(g)
    BY <2>2, <2>3 DEF Partial, One
  <2> QED BY <2>4
<1>2. Eqn(it)
  <2> HIDE DEF Eqn
  <2> QED BY <1>1, Zenon
<1>3. SumFunctionOnSet(f, S) = it[S]
  BY DEF SumFunctionOnSet, FoldFunctionOnSet, MapThenFoldSet
<1>4. Partial(it, f, SUBSET S)
  <2> HIDE DEF it
  <2> QED BY <1>2 DEF Partial, One
<1> HIDE DEF it
<1>5. it[{}] = 0
  <2>1. {} \in SUBSET S
    OBVIOUS
  <2> QED BY <1>4, <2>1, Zenon DEF Partial
<1> DEFINE D == {s \in SUBSET S : it[s] \notin Nat}
<1>6. D = {}
  <2> SUFFICES ASSUME D # {} PROVE FALSE
    OBVIOUS
  <2>1. \A s \in D : IsFiniteSet(s)
    BY FS_Subset
  <2>2. PICK s \in D : \A u \in D : u \subseteq s => u = s
    <3> HIDE DEF D
    <3> QED BY <2>1, SmallestSet
  <2>3. s \in SUBSET S /\ it[s] \notin Nat
    OBVIOUS
  <2>4. s # {}
    BY <1>5, <2>3
  <2>5. One(s) \in s
    BY <2>4 DEF One
  <2>6. s \ {One(s)} \in SUBSET S /\ s \ {One(s)} \notin D
    BY <2>2, <2>5
  <2>7. it[s \ {One(s)}] \in Nat /\ f[One(s)] \in Nat
    BY <2>3, <2>5, <2>6
  <2>8. it[s] = f[One(s)] + it[s \ {One(s)}]
    BY <1>4, <2>3, <2>4 DEF Partial
  <2> HIDE DEF D
  <2> QED BY <2>3, <2>7, <2>8
<1>7. it[S] \in Nat
  BY <1>6
<1>8. S = {} => it[S] = 0
  BY <1>5
<1> QED BY <1>3, <1>7, <1>8

-----------------------------------------------------------------------------
(* The rows of a user.                                                     *)

\* An order of all rows: users() shuffles them.
Shuffled(rows, n) == /\ rows \in [1 .. n -> 1 .. n]
                     /\ \A i, j \in 1 .. n : rows[i] = rows[j] => i = j

LEMMA ShuffledFacts ==
  ASSUME NEW n \in Nat, NEW rows, Shuffled(rows, n)
  PROVE  /\ rows \in Seq(1 .. n) /\ Len(rows) = n /\ DOMAIN rows = 1 .. n
         /\ \A r \in 1 .. n : \E i \in 1 .. n : rows[i] = r
<1>1. rows \in Injection(1 .. n, 1 .. n)
  BY DEF Shuffled, Injection, IsInjective
<1>2. IsFiniteSet(1 .. n)
  BY FS_Interval
<1>3. rows \in Surjection(1 .. n, 1 .. n)
  BY <1>1, <1>2, FS_Injection
<1>4. \A r \in 1 .. n : \E i \in 1 .. n : rows[i] = r
  BY <1>3 DEF Surjection
<1>5. rows \in Seq(1 .. n) /\ Len(rows) = n /\ DOMAIN rows = 1 .. n
  BY DEF Shuffled
<1> QED BY <1>4, <1>5

\* What the rows of a user are taken from: a row for each place.
Distinct(s) == \A i, j \in DOMAIN s : s[i] = s[j] => i = j

LEMMA WrappedFacts ==
  ASSUME NEW n \in Nat \ {0}, NEW rows, Shuffled(rows, n), NEW i \in Nat
  PROVE  /\ Wrapped(rows, i) = rows[(i % n) + 1] /\ (i % n) + 1 \in 1 .. n
         /\ <<Wrapped(rows, i)>> \in Seq(1 .. n) /\ Distinct(<<Wrapped(rows, i)>>)
         /\ <<Wrapped(rows, i)>> # <<>> /\ Range(<<Wrapped(rows, i)>>) = {Wrapped(rows, i)}
<1>1. Len(rows) = n /\ rows \in Seq(1 .. n)
  BY ShuffledFacts
<1>2. (i % n) + 1 \in 1 .. n
  BY DivMod
<1>3. Wrapped(rows, i) = rows[(i % n) + 1] /\ Wrapped(rows, i) \in 1 .. n
  BY <1>1, <1>2 DEF Wrapped
<1> DEFINE w == Wrapped(rows, i)
<1>4. w \in 1 .. n
  BY <1>3
<1> HIDE DEF w
<1>5. <<w>> \in Seq(1 .. n) /\ Distinct(<<w>>) /\ <<w>> # <<>> /\ Range(<<w>>) = {w}
  BY <1>4 DEF Distinct, Range
<1> QED BY <1>2, <1>3, <1>5 DEF w

\* How many rows Stride takes.
LEMMA StrideCount ==
  ASSUME NEW n \in Nat \ {0}, NEW users \in 1 .. n, NEW u \in 0 .. users - 1
  PROVE  LET count == (n - u + users - 1) \div users
         IN  /\ count \in Nat \ {0}
             /\ \A k \in Int : k <= count <=> u + (k - 1) * users <= n - 1
<1> DEFINE a == n - u + users - 1
           count == a \div users
           r == a % users
<1>1. a \in Nat /\ users \in Nat \ {0}
  OBVIOUS
<1>2. count \in Nat /\ r \in Nat /\ r < users /\ a = users * count + r
  BY <1>1, DivMod
<1>3. count # 0
  <2>1. count = 0 => users * count = 0
    OBVIOUS
  <2>2. a >= users
    OBVIOUS
  <2> QED BY <1>1, <1>2, <2>1, <2>2
<1>4. ASSUME NEW k \in Int PROVE k <= count <=> u + (k - 1) * users <= n - 1
  <2>1. (k - 1) * users = users * k - users /\ users * k \in Int /\ users * count \in Int
    BY <1>2
  <2>2. k <= count => users * k <= users * count
    BY <1>2, Scale
  <2>3. count + 1 <= k => users * count + users <= users * k
    <3>1. count + 1 <= k => users * (count + 1) <= users * k
      BY <1>2, Scale
    <3>2. users * (count + 1) = users * count + users
      BY <1>2
    <3> QED BY <3>1, <3>2
  <2> HIDE DEF count, r
  <2> QED BY <1>2, <2>1, <2>2, <2>3 DEF a
<1> QED BY <1>2, <1>3, <1>4

LEMMA StrideFacts ==
  ASSUME NEW n \in Nat \ {0}, NEW rows, Shuffled(rows, n), NEW users \in 1 .. n,
         NEW u \in 0 .. users - 1
  PROVE  LET s == Stride(rows, u, users)
         IN  /\ s \in Seq(1 .. n) /\ s # <<>> /\ Distinct(s)
             /\ \A i \in 1 .. n : (i - 1) % users = u <=> rows[i] \in Range(s)
<1> DEFINE count == (n - u + users - 1) \div users
           s == Stride(rows, u, users)
           place(k) == u + 1 + (k - 1) * users
<1>1. count \in Nat \ {0} /\ \A k \in Int : k <= count <=> u + (k - 1) * users <= n - 1
  BY StrideCount
<1>2. s = [k \in 1 .. count |-> rows[place(k)]]
  <2>1. Len(rows) = n
    BY ShuffledFacts
  <2> QED BY <2>1 DEF Stride
<1>3. ASSUME NEW k \in 1 .. count
      PROVE  place(k) \in 1 .. n /\ place(k) = users * (k - 1) + (u + 1)
  <2>1. u + (k - 1) * users <= n - 1 /\ k \in Int /\ k >= 1
    BY <1>1
  <2>2. (k - 1) * users = users * (k - 1) /\ users * (k - 1) \in Int
    BY <2>1
  <2>3. users * 0 <= users * (k - 1)
    BY <2>1, Scale
  <2>4. users * 0 = 0
    OBVIOUS
  <2> QED BY <2>1, <2>2, <2>3, <2>4
<1> HIDE DEF count, s
<1>4. s \in Seq(1 .. n) /\ s # <<>> /\ DOMAIN s = 1 .. count
  <2>1. \A k \in 1 .. count : rows[place(k)] \in 1 .. n
    BY <1>3 DEF Shuffled
  <2> HIDE DEF place
  <2>2. s \in [1 .. count -> 1 .. n]
    BY <1>2, <2>1
  <2>3. s \in Seq(1 .. n) /\ Len(s) = count /\ DOMAIN s = 1 .. count
    BY <1>1, <2>2
  <2>4. Len(s) # 0
    BY <1>1, <2>3
  <2> QED BY <2>3, <2>4
<1>5. ASSUME NEW j \in 1 .. count, NEW k \in 1 .. count, s[j] = s[k] PROVE j = k
  <2>1. place(j) = place(k)
    <3>1. rows[place(j)] = rows[place(k)]
      BY <1>2, <1>5
    <3>2. place(j) \in 1 .. n /\ place(k) \in 1 .. n
      BY <1>3
    <3> HIDE DEF place
    <3> QED BY <3>1, <3>2 DEF Shuffled
  <2>2. users * (j - 1) + 0 = users * (k - 1) + 0
    BY <1>3, <2>1
  <2>3. j - 1 \in Int /\ k - 1 \in Int
    OBVIOUS
  <2>4. j - 1 = k - 1
    BY <2>2, <2>3, OneDivision
  <2> QED BY <2>4
<1>6. ASSUME NEW i \in 1 .. n PROVE (i - 1) % users = u <=> rows[i] \in Range(s)
  <2> DEFINE q == (i - 1) \div users
             r == (i - 1) % users
  <2>1. q \in Nat /\ r \in Nat /\ r < users /\ i - 1 = users * q + r
    BY DivMod
  <2> HIDE DEF q, r
  <2>2. ASSUME r = u PROVE rows[i] \in Range(s)
    <3>1. q + 1 \in Int /\ (q + 1) - 1 = q /\ q * users = users * q
      BY <2>1
    <3>2. u + ((q + 1) - 1) * users <= n - 1
      BY <2>1, <2>2, <3>1
    <3>3. q + 1 \in 1 .. count
      BY <1>1, <2>1, <3>1, <3>2
    <3>4. place(q + 1) = i
      BY <2>1, <2>2, <3>1
    <3>5. s[q + 1] = rows[i]
      BY <1>2, <3>3, <3>4
    <3> QED BY <1>4, <3>3, <3>5 DEF Range
  <2>3. ASSUME rows[i] \in Range(s) PROVE r = u
    <3>1. PICK k \in 1 .. count : s[k] = rows[i]
      BY <1>4, <2>3 DEF Range
    <3>2. place(k) = i
      <4>1. place(k) \in 1 .. n /\ rows[place(k)] = rows[i]
        BY <1>2, <1>3, <3>1
      <4> HIDE DEF place
      <4> QED BY <4>1 DEF Shuffled
    <3>3. users * q + r = users * (k - 1) + u /\ k - 1 \in Int
      BY <1>3, <2>1, <3>2
    <3> QED BY <2>1, <3>3, OneDivision
  <2> QED BY <2>2, <2>3 DEF r
<1>7. Distinct(s)
  BY <1>4, <1>5 DEF Distinct
<1> QED BY <1>4, <1>6, <1>7 DEF s

\* Every row is some user's if there are enough users or rows, one user's only if
\* there are enough rows, and no user is without (RowsDealt).
LEMMA DealtToAll ==
  ASSUME items # <<>>, items \in Seq(Nat), Shuffled(order, Len(items)),
         setting.users \in Nat \ {0}
  PROVE  /\ RowsDealt
         /\ \A u \in User : RowsOf(u) \in Seq(Rows) /\ RowsOf(u) # <<>> /\ Distinct(RowsOf(u))
<1> DEFINE n == Len(items)
           k == setting.users
<1>1. n \in Nat \ {0} /\ Rows = 1 .. n /\ k \in Nat \ {0} /\ User = 0 .. k - 1
  BY DEF Rows, User
<1>2. /\ Len(order) = n /\ Shuffled(order, n)
      /\ \A r \in 1 .. n : \E i \in 1 .. n : order[i] = r
  BY <1>1, ShuffledFacts
<1> HIDE DEF n, k
\* The user of the row at place i.
<1>3. ASSUME NEW u \in User
      PROVE  /\ RowsOf(u) \in Seq(Rows) /\ RowsOf(u) # <<>> /\ Distinct(RowsOf(u))
             /\ (setting.source = "nebius" /\ k <= n) =>
                  \A i \in 1 .. n : (i - 1) % k = u <=> order[i] \in Range(RowsOf(u))
             /\ (setting.source # "nebius" \/ ~(k <= n)) =>
                  Range(RowsOf(u)) = {order[(u % n) + 1]}
  <2>1. u \in Nat /\ u \in 0 .. k - 1
    BY <1>1
  <2>2. CASE setting.source = "nebius" /\ k <= n
    <3>1. k \in 1 .. n
      BY <1>1, <2>2
    <3>2. RowsOf(u) = Stride(order, u, k)
      BY <2>2 DEF RowsOf, k
    <3>3. n \in Nat \ {0} /\ Shuffled(order, n)
      BY <1>1, <1>2
    <3>4. LET s == Stride(order, u, k)
          IN  /\ s \in Seq(1 .. n) /\ s # <<>> /\ Distinct(s)
              /\ \A i \in 1 .. n : (i - 1) % k = u <=> order[i] \in Range(s)
      BY <2>1, <3>1, <3>3, StrideFacts
    <3> QED BY <1>1, <2>2, <3>2, <3>4
  <2>3. CASE ~(setting.source = "nebius" /\ k <= n)
    <3>1. RowsOf(u) = <<Wrapped(order, u)>>
      BY <1>2, <2>3 DEF RowsOf, Stride, Sample, k
    <3>2. /\ Wrapped(order, u) = order[(u % n) + 1]
          /\ <<Wrapped(order, u)>> \in Seq(1 .. n) /\ Distinct(<<Wrapped(order, u)>>)
          /\ <<Wrapped(order, u)>> # <<>>
          /\ Range(<<Wrapped(order, u)>>) = {Wrapped(order, u)}
      <4>1. n \in Nat \ {0} /\ Shuffled(order, n)
        BY <1>1, <1>2
      <4> QED BY <2>1, <4>1, WrappedFacts, Zenon
    <3> QED BY <1>1, <2>3, <3>1, <3>2
  <2> QED BY <2>2, <2>3
<1>4. ASSUME NEW u \in User PROVE Range(RowsOf(u)) # {} /\ Range(RowsOf(u)) \subseteq Rows
  <2>1. RowsOf(u) \in Seq(Rows) /\ 1 \in DOMAIN RowsOf(u)
    BY <1>3
  <2>2. RowsOf(u)[1] \in Range(RowsOf(u))
    BY <2>1 DEF Range
  <2>3. \A i \in DOMAIN RowsOf(u) : RowsOf(u)[i] \in Rows
    BY <2>1
  <2> QED BY <2>2, <2>3 DEF Range
<1>5. ASSUME setting.source = "nebius" \/ k >= n, NEW r \in Rows
      PROVE  \E u \in User : r \in Range(RowsOf(u))
  <2>1. PICK i \in 1 .. n : order[i] = r
    BY <1>1, <1>2
  <2>2. CASE setting.source = "nebius" /\ k <= n
    <3>1. (i - 1) % k \in User
      BY <1>1, DivMod
    <3> QED BY <1>3, <2>1, <2>2, <3>1
  <2>3. CASE ~(setting.source = "nebius" /\ k <= n)
    <3>1. i - 1 \in User /\ i - 1 \in 0 .. n - 1
      BY <1>1, <1>5, <2>3
    <3>2. (i - 1) % n = i - 1
      BY <1>1, <3>1, SmallResidue
    <3>3. Range(RowsOf(i - 1)) = {order[i]}
      <4>1. setting.source # "nebius" \/ ~(k <= n)
        BY <2>3
      <4>2. Range(RowsOf(i - 1)) = {order[((i - 1) % n) + 1]}
        BY <1>3, <3>1, <4>1
      <4>3. ((i - 1) % n) + 1 = i
        BY <3>2
      <4> QED BY <4>2, <4>3
    <3> QED BY <2>1, <3>1, <3>3
  <2> QED BY <2>2, <2>3
<1>6. ASSUME k <= n, NEW u \in User, NEW v \in User, u # v
      PROVE  Range(RowsOf(u)) \cap Range(RowsOf(v)) = {}
  <2>1. CASE setting.source = "nebius"
    <3>1. ASSUME NEW r, r \in Range(RowsOf(u)), r \in Range(RowsOf(v)) PROVE FALSE
      <4>1. PICK i \in 1 .. n : order[i] = r
        BY <1>1, <1>2, <1>4, <3>1
      <4>2. (i - 1) % k = u /\ (i - 1) % k = v
        BY <1>3, <1>6, <2>1, <3>1, <4>1
      <4> QED BY <1>6, <4>2
    <3> QED BY <3>1
  <2>2. CASE setting.source # "nebius"
    <3>1. u \in 0 .. n - 1 /\ v \in 0 .. n - 1
      BY <1>1, <1>6
    <3>2. u % n = u /\ v % n = v
      BY <1>1, <3>1, SmallResidue
    <3>3. Range(RowsOf(u)) = {order[u + 1]} /\ Range(RowsOf(v)) = {order[v + 1]}
      <4>1. Range(RowsOf(u)) = {order[(u % n) + 1]} /\ Range(RowsOf(v)) = {order[(v % n) + 1]}
        BY <1>3, <2>2
      <4> QED BY <3>2, <4>1
    <3>4. u + 1 \in 1 .. n /\ v + 1 \in 1 .. n /\ u + 1 # v + 1
      BY <1>1, <1>6, <3>1
    <3>5. order[u + 1] # order[v + 1]
      BY <1>2, <3>4 DEF Shuffled
    <3> QED BY <3>3, <3>5
  <2> QED BY <2>1, <2>2
<1>7. RowsDealt
  <2>1. \A u \in User : Range(RowsOf(u)) # {}
    BY <1>4
  <2>2. setting.source = "nebius" \/ k >= n => UNION {Range(RowsOf(u)) : u \in User} = Rows
    BY <1>4, <1>5
  <2>3. k <= n => \A u, v \in User : u # v => Range(RowsOf(u)) \cap Range(RowsOf(v)) = {}
    BY <1>6
  <2> QED BY <1>2, <2>1, <2>2, <2>3 DEF RowsDealt, k
<1> QED BY <1>3, <1>7

-----------------------------------------------------------------------------
(* The stream of a user: the items of its rows, one row after the other.   *)

MemoryItem == Nat \X Int

LEMMA TotalFacts ==
  ASSUME items \in Seq(Nat), NEW rows \in Seq(Rows), NEW n \in 0 .. Len(rows)
  PROVE  Total(rows, n) \in Nat /\ (n = 0 => Total(rows, n) = 0)
<1> DEFINE f == [j \in DOMAIN rows |-> items[rows[j]]]
<1>1. DOMAIN rows = 1 .. Len(rows) /\ Len(rows) \in Nat
  OBVIOUS
<1>2. \A j \in 1 .. n : f[j] \in Nat
  <2>1. \A j \in 1 .. n : j \in DOMAIN rows /\ rows[j] \in Rows
    BY <1>1
  <2> QED BY <2>1 DEF Rows
<1>3. IsFiniteSet(1 .. n) /\ (n = 0 => 1 .. n = {})
  BY <1>1, FS_Interval
<1> HIDE DEF f
<1>4. SumFunctionOnSet(f, 1 .. n) \in Nat /\ (n = 0 => SumFunctionOnSet(f, 1 .. n) = 0)
  BY <1>2, <1>3, SumNat
<1> QED BY <1>4 DEF Total, f

\* Item p is in the first row that ends at or behind it.
LEMMA PlaceFirst ==
  ASSUME items \in Seq(Nat), NEW rows \in Seq(Rows), NEW p \in 1 .. Total(rows, Len(rows))
  PROVE  /\ Place(rows, p) \in 1 .. Len(rows) /\ Total(rows, Place(rows, p)) >= p
         /\ \A j \in 1 .. Len(rows) : Total(rows, j) >= p => Place(rows, p) <= j
<1> DEFINE N == {j \in DOMAIN rows : Total(rows, j) >= p}
<1>1. DOMAIN rows = 1 .. Len(rows) /\ Len(rows) \in Nat
  OBVIOUS
<1>2. Total(rows, Len(rows)) \in Nat /\ (Len(rows) = 0 => Total(rows, Len(rows)) = 0)
  BY <1>1, TotalFacts
<1>3. N \subseteq Nat /\ Len(rows) \in N
  BY <1>1, <1>2
<1>4. Min(N) \in N /\ \A j \in N : Min(N) <= j
  <2> HIDE DEF N
  <2> QED BY <1>3, MinFacts
<1>5. Place(rows, p) = Min(N)
  BY DEF Place
<1> QED BY <1>1, <1>4, <1>5

LEMMA CorpusFacts ==
  ASSUME items \in Seq(Nat), NEW u, RowsOf(u) \in Seq(Rows)
  PROVE  LET rows == RowsOf(u)
             c == CorpusOf(u)
         IN  /\ Len(c) = Total(rows, Len(rows)) /\ Len(c) \in Nat
             /\ c \in Seq(MemoryItem) /\ DOMAIN c = 1 .. Len(c)
             /\ \A p \in 1 .. Len(c) :
                  c[p] = <<rows[Place(rows, p)], p - Total(rows, Place(rows, p) - 1)>>
             /\ Distinct(rows) => Distinct(c)
<1> DEFINE rows == RowsOf(u)
           c == CorpusOf(u)
           whole == Total(rows, Len(rows))
           item(p) == <<rows[Place(rows, p)], p - Total(rows, Place(rows, p) - 1)>>
<1>1. rows \in Seq(Rows) /\ Len(rows) \in 0 .. Len(rows) /\ whole \in Nat
  BY TotalFacts
<1>2. c = [p \in 1 .. whole |-> item(p)]
  BY DEF CorpusOf
<1> HIDE DEF rows, c, whole
<1>3. ASSUME NEW p \in 1 .. whole
      PROVE  /\ Place(rows, p) \in 1 .. Len(rows) /\ rows[Place(rows, p)] \in Rows
             /\ Total(rows, Place(rows, p) - 1) \in Nat /\ item(p) \in MemoryItem
  <2>1. Place(rows, p) \in 1 .. Len(rows)
    BY <1>1, PlaceFirst DEF whole
  <2>2. Place(rows, p) - 1 \in 0 .. Len(rows)
    BY <1>1, <2>1
  <2>3. Total(rows, Place(rows, p) - 1) \in Nat
    BY <1>1, <2>2, TotalFacts
  <2>4. rows[Place(rows, p)] \in Rows /\ Rows \subseteq Nat
    BY SMTT(20), <1>1, <2>1 DEF Rows
  <2>5. p - Total(rows, Place(rows, p) - 1) \in Int
    BY <2>3
  <2> QED BY <2>1, <2>3, <2>4, <2>5 DEF MemoryItem
<1>4. c \in Seq(MemoryItem) /\ Len(c) = whole /\ DOMAIN c = 1 .. whole
  <2>1. c \in [1 .. whole -> MemoryItem]
    BY <1>2, <1>3
  <2> QED BY <1>1, <2>1
<1>5. ASSUME Distinct(rows), NEW p \in 1 .. whole, NEW q \in 1 .. whole, c[p] = c[q]
      PROVE  p = q
  <2>1. rows[Place(rows, p)] = rows[Place(rows, q)]
        /\ p - Total(rows, Place(rows, p) - 1) = q - Total(rows, Place(rows, q) - 1)
    BY <1>2, <1>5
  <2>2. Place(rows, p) = Place(rows, q)
    <3>1. Place(rows, p) \in 1 .. Len(rows) /\ Place(rows, q) \in 1 .. Len(rows)
      BY <1>3
    <3>2. DOMAIN rows = 1 .. Len(rows)
      BY <1>1
    <3> QED BY <1>5, <2>1, <3>1, <3>2, Zenon DEF Distinct
  <2>3. Total(rows, Place(rows, p) - 1) \in Nat
    BY <1>3
  <2> QED BY <2>1, <2>2, <2>3
<1>6. Distinct(rows) => Distinct(c)
  BY <1>4, <1>5 DEF Distinct
<1>7. \A p \in 1 .. Len(c) : c[p] = item(p)
  BY <1>2, <1>4
<1> QED BY <1>1, <1>4, <1>6, <1>7 DEF rows, c, whole

-----------------------------------------------------------------------------
(* The reader of the rows.                                                 *)

\* The table that is kept is the one of the group that is kept, if there is one.
CacheOK(c) == c.group \in 0 .. Len(Sizes) /\ c.table \in {0, c.group}

LEMMA GroupFacts ==
  ASSUME NEW index \in Nat
  PROVE  GroupOf(Sizes, index) \in 1 .. Len(Sizes)
<1> DEFINE N == {g \in DOMAIN Sizes : Offset(Sizes, g) <= index}
<1>1. Len(Sizes) \in Nat /\ DOMAIN Sizes = 1 .. Len(Sizes) /\ 1 \in DOMAIN Sizes
  BY CorporaAssumption
<1>2. Offset(Sizes, 1) = 0
  <2>1. 1 .. 1 - 1 = {} /\ IsFiniteSet({})
    BY FS_EmptySet
  <2> QED BY <2>1, SumNat DEF Offset
<1>3. N \subseteq 0 .. Len(Sizes) /\ N # {}
  BY <1>1, <1>2
<1>4. Max(N) \in N
  <2> HIDE DEF N
  <2> QED BY <1>1, <1>3, MaxFacts
<1> QED BY <1>1, <1>4 DEF GroupOf

LEMMA OffsetNat ==
  ASSUME NEW g \in 1 .. Len(Sizes)
  PROVE  Offset(Sizes, g) \in Nat
<1>1. IsFiniteSet(1 .. g - 1)
  BY FS_Interval
<1>2. \A h \in 1 .. g - 1 : Sizes[h] \in Nat
  BY CorporaAssumption
<1> QED BY <1>1, <1>2, SumNat DEF Offset

\* No row but the one that was asked for is ever delivered.
LEMMA RowRead ==
  ASSUME NEW c, CacheOK(c), NEW row \in Nat \ {0}, NEW x \in ReadRow(c, row)
  PROVE  CacheOK(x.cache) /\ x.row \in {0, row}
<1> DEFINE g == GroupOf(Sizes, row - 1)
<1>1. g \in 1 .. Len(Sizes)
  BY GroupFacts
<1>2. Offset(Sizes, g) \in Nat
  BY <1>1, OffsetNat
<1>3. IF g = c.group
      THEN IF c.table = 0 THEN x = Failed(c)
           ELSE x = [cache |-> c, row |-> row - Offset(Sizes, g) + Offset(Sizes, c.table)]
      ELSE x = [cache |-> [group |-> g, table |-> g], row |-> row] \/ x = Failed(Undecoded(c, g))
  BY DEF ReadRow
<1> HIDE DEF g
<1>4. CASE x = Failed(c)
  BY <1>4 DEF Failed
<1>5. CASE g = c.group /\ c.table # 0
  <2>1. c.table = g
    BY <1>5 DEF CacheOK
  <2>2. row - Offset(Sizes, g) + Offset(Sizes, g) = row
    BY <1>2
  <2> QED BY <1>3, <1>5, <2>1, <2>2
<1>6. CASE x = [cache |-> [group |-> g, table |-> g], row |-> row]
  BY <1>1, <1>6 DEF CacheOK
<1>7. CASE x = Failed(Undecoded(c, g))
  <2> DEFINE d == Undecoded(c, g)
  <2>1. x.cache = d /\ x.row = 0
    BY <1>7 DEF Failed
  <2>2. d.group = c.group /\ d.table \in {0, c.table}
    BY DEF Undecoded
  <2>3. CacheOK(d)
    BY <2>2 DEF CacheOK
  <2> QED BY <2>1, <2>3
<1> QED BY <1>3, <1>4, <1>5, <1>6, <1>7

\* What reading one more row makes of one way the reading went so far.
ReadNext(r, n, row) ==
  IF Len(r.got) < n - 1 THEN {r}
  ELSE {[cache |-> x.cache, got |-> IF x.row = 0 THEN r.got ELSE Append(r.got, x.row)] :
          x \in ReadRow(r.cache, row)}

\* A function that is the recursion of ReadRows up to some row.
Reads(f, c, rows, m) ==
  \A n \in 0 .. m : f[n] = IF n = 0 THEN {[cache |-> c, got |-> <<>>]}
                           ELSE UNION {ReadNext(r, n, rows[n]) : r \in f[n - 1]}

LEMMA ReadsExist ==
  ASSUME NEW c, NEW rows, NEW N \in Nat, NEW m \in 0 .. N
  PROVE  \E f : f = [n \in 0 .. N |-> f[n]] /\ Reads(f, c, rows, m)
<1> DEFINE Bad == {n \in 0 .. N : ~\E f : f = [i \in 0 .. N |-> f[i]] /\ Reads(f, c, rows, n)}
<1>1. SUFFICES ASSUME Bad # {} PROVE FALSE
  OBVIOUS
<1>2. PICK n \in Bad : \A k \in Bad : n <= k
  <2>1. Bad \subseteq Nat
    OBVIOUS
  <2> HIDE DEF Bad
  <2> QED BY <1>1, <2>1, LeastNumber
<1>3. n \in 0 .. N
  OBVIOUS
<1>4. CASE n = 0
  <2> DEFINE g == [i \in 0 .. N |-> {[cache |-> c, got |-> <<>>]}]
  <2>1. g = [i \in 0 .. N |-> g[i]] /\ g[0] = {[cache |-> c, got |-> <<>>]}
    OBVIOUS
  <2> HIDE DEF g
  <2>2. Reads(g, c, rows, 0)
    <3>1. \A i \in 0 .. 0 : i = 0
      OBVIOUS
    <3> QED BY <2>1, <3>1 DEF Reads
  <2> QED BY <1>4, <2>1, <2>2
<1>5. CASE n > 0
  <2>1. n - 1 \in 0 .. N /\ n - 1 \notin Bad
    <3>1. n - 1 \in 0 .. N /\ ~(n <= n - 1)
      BY <1>3, <1>5
    <3> HIDE DEF Bad
    <3> QED BY <1>2, <3>1
  <2>2. PICK f : f = [i \in 0 .. N |-> f[i]] /\ Reads(f, c, rows, n - 1)
    BY <2>1
  <2> DEFINE value == UNION {ReadNext(r, n, rows[n]) : r \in f[n - 1]}
             g == [i \in 0 .. N |-> IF i = n THEN value ELSE f[i]]
  <2>3. /\ g = [i \in 0 .. N |-> g[i]]
        /\ \A i \in 0 .. N : g[i] = IF i = n THEN value ELSE f[i]
    OBVIOUS
  <2> HIDE DEF g
  <2>4. ASSUME NEW i \in 0 .. n
        PROVE  g[i] = IF i = 0 THEN {[cache |-> c, got |-> <<>>]}
                      ELSE UNION {ReadNext(r, i, rows[i]) : r \in g[i - 1]}
    <3>1. i \in 0 .. N /\ (i # 0 => i - 1 \in 0 .. N /\ i - 1 # n)
      BY <1>3
    <3>2. i # 0 => g[i - 1] = f[i - 1]
      BY <2>3, <3>1
    <3>3. CASE i = n
      <4>1. g[n] = value /\ n # 0
        BY <1>3, <1>5, <2>3
      <4> QED BY <3>2, <3>3, <4>1
    <3>4. CASE i # n
      <4>1. i \in 0 .. n - 1 /\ g[i] = f[i]
        BY <1>3, <2>3, <3>1, <3>4
      <4>2. f[i] = IF i = 0 THEN {[cache |-> c, got |-> <<>>]}
                   ELSE UNION {ReadNext(r, i, rows[i]) : r \in f[i - 1]}
        BY <2>2, <4>1 DEF Reads
      <4> QED BY <3>2, <4>1, <4>2
    <3> QED BY <3>3, <3>4
  <2>5. Reads(g, c, rows, n)
    BY <2>4 DEF Reads
  <2> QED BY <2>3, <2>5
<1> QED BY <1>3, <1>4, <1>5

\* What was delivered of the first n rows: the first of them, in order.
GotOK(r, rows, n) ==
  /\ CacheOK(r.cache) /\ r.got \in Seq(Nat) /\ Len(r.got) <= n
  /\ \A i \in 1 .. Len(r.got) : r.got[i] = rows[i]

LEMMA OneMoreRow ==
  ASSUME NEW n \in Nat \ {0}, NEW rows, rows[n] \in Nat \ {0},
         NEW r, GotOK(r, rows, n - 1), NEW y \in ReadNext(r, n, rows[n])
  PROVE  GotOK(y, rows, n)
<1>1. r.got \in Seq(Nat) /\ Len(r.got) \in Nat /\ Len(r.got) <= n - 1 /\ CacheOK(r.cache)
      /\ \A i \in 1 .. Len(r.got) : r.got[i] = rows[i]
  BY DEF GotOK
<1>2. CASE Len(r.got) < n - 1
  <2>1. y = r
    BY <1>2 DEF ReadNext
  <2> QED BY <1>1, <2>1 DEF GotOK
<1>3. CASE ~(Len(r.got) < n - 1)
  <2>1. Len(r.got) = n - 1
    BY <1>1, <1>3
  <2>2. PICK x \in ReadRow(r.cache, rows[n]) :
          y = [cache |-> x.cache, got |-> IF x.row = 0 THEN r.got ELSE Append(r.got, x.row)]
    BY <1>3 DEF ReadNext
  <2>3. CacheOK(x.cache) /\ x.row \in {0, rows[n]}
    BY <1>1, RowRead
  <2>4. CASE x.row = 0
    <3>1. y.cache = x.cache /\ y.got = r.got
      BY <2>2, <2>4
    <3> QED BY <1>1, <2>3, <3>1 DEF GotOK
  <2>5. CASE x.row # 0
    <3> DEFINE s == Append(r.got, rows[n])
    <3>1. y.cache = x.cache /\ y.got = s
      BY <2>2, <2>3, <2>5
    <3>2. /\ s \in Seq(Nat) /\ Len(s) = n /\ s[n] = rows[n]
          /\ \A i \in 1 .. n - 1 : s[i] = r.got[i]
      BY <1>1, <2>1
    <3> HIDE DEF s
    <3>3. \A i \in 1 .. n : s[i] = rows[i]
      <4>1. ASSUME NEW i \in 1 .. n PROVE s[i] = rows[i]
        <5>1. i = n \/ i \in 1 .. n - 1
          OBVIOUS
        <5> QED BY <1>1, <2>1, <3>2, <5>1
      <4> QED BY <4>1
    <3> QED BY <2>3, <3>1, <3>2, <3>3 DEF GotOK
  <2> QED BY <2>4, <2>5
<1> QED BY <1>2, <1>3

LEMMA ReadsGood ==
  ASSUME NEW c, CacheOK(c), NEW rows \in Seq(Nat \ {0}), NEW f, Reads(f, c, rows, Len(rows)),
         NEW n \in 0 .. Len(rows), NEW r \in f[n]
  PROVE  GotOK(r, rows, n)
<1> DEFINE Bad == {k \in 0 .. Len(rows) : \E y \in f[k] : ~GotOK(y, rows, k)}
<1>1. SUFFICES ASSUME Bad # {} PROVE FALSE
  OBVIOUS
<1>2. PICK k \in Bad : \A j \in Bad : k <= j
  <2>1. Bad \subseteq Nat
    OBVIOUS
  <2> HIDE DEF Bad
  <2> QED BY <1>1, <2>1, LeastNumber
<1>3. k \in 0 .. Len(rows)
  OBVIOUS
<1>4. PICK y \in f[k] : ~GotOK(y, rows, k)
  OBVIOUS
<1>5. f[k] = IF k = 0 THEN {[cache |-> c, got |-> <<>>]}
             ELSE UNION {ReadNext(x, k, rows[k]) : x \in f[k - 1]}
  BY <1>3 DEF Reads
<1>6. k # 0 => k - 1 \in 0 .. Len(rows) /\ k - 1 \notin Bad
  <2>1. k # 0 => k - 1 \in 0 .. Len(rows) /\ ~(k <= k - 1)
    BY <1>3
  <2> HIDE DEF Bad
  <2> QED BY <1>2, <2>1
<1>7. CASE k = 0
  <2>1. y = [cache |-> c, got |-> <<>>]
    BY <1>4, <1>5, <1>7
  <2>2. y.cache = c /\ y.got = <<>>
    BY <2>1
  <2> QED BY <1>4, <1>7, <2>2 DEF GotOK
<1>8. CASE k # 0
  <2>1. PICK x \in f[k - 1] : y \in ReadNext(x, k, rows[k])
    BY <1>4, <1>5, <1>8
  <2>2. GotOK(x, rows, k - 1)
    BY <1>6, <1>8, <2>1
  <2>3. k \in Nat \ {0} /\ rows[k] \in Nat \ {0}
    BY <1>3, <1>8
  <2> HIDE DEF Bad
  <2> QED BY <1>4, <2>1, <2>2, <2>3, OneMoreRow
<1> QED BY <1>7, <1>8

LEMMA RowsRead ==
  ASSUME NEW c, CacheOK(c), NEW rows \in Seq(Nat \ {0}), NEW r \in ReadRows(c, rows)
  PROVE  GotOK(r, rows, Len(rows))
<1> DEFINE N == Len(rows)
           Is(f) == f = [n \in 0 .. N |->
                           IF n = 0 THEN {[cache |-> c, got |-> <<>>]}
                           ELSE UNION {IF Len(x.got) < n - 1 THEN {x}
                                       ELSE {[cache |-> y.cache,
                                              got |-> IF y.row = 0 THEN x.got
                                                      ELSE Append(x.got, y.row)] :
                                               y \in ReadRow(x.cache, rows[n])} : x \in f[n - 1]}]
           it == CHOOSE f : Is(f)
<1>1. N \in Nat /\ N \in 0 .. N /\ DOMAIN rows = 1 .. N /\ \A i \in 1 .. N : rows[i] \in Nat
  OBVIOUS
<1>2. PICK f : f = [n \in 0 .. N |-> f[n]] /\ Reads(f, c, rows, N)
  BY <1>1, ReadsExist
<1>3. Is(f)
  BY <1>2 DEF Reads, ReadNext
<1>4. Is(it)
  <2> HIDE DEF Is
  <2> QED BY <1>3
<1>5. Reads(it, c, rows, N)
  <2> HIDE DEF it
  <2> QED BY <1>4 DEF Reads, ReadNext
<1>6. ReadRows(c, rows) = IF setting.source = "nebius" THEN it[N] ELSE {[cache |-> c, got |-> rows]}
  BY DEF ReadRows
<1> HIDE DEF it
<1>7. CASE setting.source = "nebius"
  BY <1>1, <1>5, <1>6, <1>7, ReadsGood
<1>8. CASE setting.source # "nebius"
  <2>1. r.cache = c /\ r.got = rows
    BY <1>6, <1>8
  <2>2. rows \in Seq(Nat)
    BY <1>1
  <2> QED BY <1>1, <2>1, <2>2 DEF GotOK
<1> QED BY <1>7, <1>8

\* Taking the next items of a stream gives the next items of the corpus, or none.
LEMMA TakenFacts ==
  ASSUME items \in Seq(Nat), CacheOK(cache), NEW u, RowsOf(u) \in Seq(Rows),
         NEW from \in 0 .. Len(CorpusOf(u)), NEW want \in Nat, NEW r \in Taken(u, from, want)
  PROVE  LET c == CorpusOf(u)
         IN  /\ CacheOK(r.cache) /\ r.ok \in BOOLEAN /\ r.items \in Seq(MemoryItem)
             /\ r.ok => Len(r.items) = IF from + want <= Len(c) THEN want ELSE Len(c) - from
             /\ ~r.ok => r.items = <<>>
             /\ \A n \in 1 .. Len(r.items) : from + n \in 1 .. Len(c) /\ r.items[n] = c[from + n]
<1> DEFINE c == CorpusOf(u)
           rows == RowsOf(u)
           whole == Total(rows, Len(rows))
           here == IF from = 0 THEN 0 ELSE Place(rows, from)
           to == Min({from + want, whole})
           there == IF want = 0 THEN here
                    ELSE IF from + want <= whole THEN Place(rows, to) ELSE Len(rows)
           part == SubSeq(rows, here + 1, there)
           item(y, p) == <<IF Place(rows, p) > here THEN y.got[Place(rows, p) - here]
                           ELSE rows[Place(rows, p)], p - Total(rows, Place(rows, p) - 1)>>
<1>1. /\ rows \in Seq(Rows) /\ Len(rows) \in Nat /\ whole \in Nat /\ Len(c) = whole
      /\ c \in Seq(MemoryItem)
      /\ \A p \in 1 .. whole :
           c[p] = <<rows[Place(rows, p)], p - Total(rows, Place(rows, p) - 1)>>
  <2>1. /\ Len(c) = Total(rows, Len(rows)) /\ Len(c) \in Nat /\ c \in Seq(MemoryItem)
        /\ \A p \in 1 .. Len(c) :
             c[p] = <<rows[Place(rows, p)], p - Total(rows, Place(rows, p) - 1)>>
    BY CorpusFacts
  <2> QED BY <2>1
<1>2. PICK y \in ReadRows(cache, part) :
        r = [cache |-> y.cache, ok |-> Len(y.got) = there - here,
             items |-> IF Len(y.got) = there - here
                       THEN [n \in 1 .. to - from |-> item(y, from + n)] ELSE <<>>]
  BY DEF Taken
<1>3. from \in 0 .. whole
  BY <1>1
<1>4. to = IF from + want <= whole THEN from + want ELSE whole
  <2>1. {from + want, whole} \subseteq Nat /\ {from + want, whole} # {}
    BY <1>1, <1>3
  <2>2. to \in {from + want, whole} /\ to <= from + want /\ to <= whole
    BY <2>1, MinFacts
  <2> HIDE DEF to
  <2> QED BY <1>1, <1>3, <2>2
<1> HIDE DEF c, rows, whole, to
<1>5. ASSUME NEW p \in 1 .. whole
      PROVE  /\ Place(rows, p) \in 1 .. Len(rows) /\ Total(rows, Place(rows, p)) >= p
             /\ \A j \in 1 .. Len(rows) : Total(rows, j) >= p => Place(rows, p) <= j
  BY <1>1, PlaceFirst DEF whole
<1>6. ASSUME NEW p \in 1 .. whole, NEW q \in 1 .. whole, p <= q
      PROVE  Place(rows, p) <= Place(rows, q)
  <2>1. Place(rows, q) \in 1 .. Len(rows) /\ Total(rows, Place(rows, q)) >= q
    BY <1>5
  <2>2. Total(rows, Place(rows, q)) \in Nat
    <3>1. Place(rows, q) \in 0 .. Len(rows)
      BY <1>1, <2>1
    <3> QED BY <1>1, <3>1, TotalFacts
  <2>3. Total(rows, Place(rows, q)) >= p
    BY <1>1, <1>6, <2>1, <2>2
  <2> QED BY <1>5, <2>1, <2>3
<1>7. here \in 0 .. Len(rows)
  <2>1. from # 0 => from \in 1 .. whole
    BY <1>1, <1>3
  <2>2. from # 0 => Place(rows, from) \in 1 .. Len(rows)
    BY <1>5, <2>1
  <2> QED BY <1>1, <2>2
\* The rows that are read reach from the row after the last one to that of the last
\* item, in which all of the items are.
<1>8. there \in here .. Len(rows)
  <2>1. CASE want # 0 /\ from + want <= whole
    <3>1. to \in 1 .. whole /\ from <= to
      BY <1>1, <1>3, <1>4, <2>1
    <3>2. Place(rows, to) \in 1 .. Len(rows)
      BY <1>5, <3>1
    <3>3. from # 0 => Place(rows, from) <= Place(rows, to)
      BY <1>1, <1>3, <1>6, <3>1
    <3> QED BY <1>7, <2>1, <3>2, <3>3
  <2>2. CASE ~(want # 0 /\ from + want <= whole)
    BY <1>1, <1>7, <2>2
  <2> QED BY <2>1, <2>2
<1>9. ASSUME NEW p \in from + 1 .. to PROVE p \in 1 .. whole /\ Place(rows, p) \in 1 .. there
  <2>1. p \in 1 .. whole /\ to \in 1 .. whole /\ p <= to /\ want # 0
    BY <1>1, <1>3, <1>4
  <2>2. Place(rows, p) \in 1 .. Len(rows) /\ Place(rows, p) <= Place(rows, to)
        /\ Place(rows, to) \in 1 .. Len(rows)
    BY <1>5, <1>6, <2>1
  <2>3. there = Place(rows, to) \/ there = Len(rows)
    BY <2>1
  <2> QED BY <1>1, <2>1, <2>2, <2>3
<1> HIDE DEF here, there
<1>10. /\ part \in Seq(Nat \ {0}) /\ Len(part) = there - here
       /\ \A i \in 1 .. there - here : part[i] = rows[here + i]
  <2>1. here + 1 \in 1 .. Len(rows) + 1 /\ there \in here .. Len(rows) /\ here \in Nat
    BY <1>1, <1>7, <1>8
  <2>2. \A i \in 1 .. Len(rows) : rows[i] \in Nat \ {0}
    <3>1. Rows \subseteq Nat \ {0}
      BY DEF Rows
    <3>2. \A i \in 1 .. Len(rows) : rows[i] \in Rows
      BY <1>1
    <3> QED BY <3>1, <3>2
  <2>3. part = [i \in 1 .. there - here |-> rows[here + i]]
    BY <1>1, <2>1
  <2>4. \A i \in 1 .. there - here : rows[here + i] \in Nat \ {0}
    BY <1>1, <2>1, <2>2
  <2> HIDE DEF part
  <2>5. part \in [1 .. there - here -> Nat \ {0}]
    BY <2>3, <2>4
  <2>6. there - here \in Nat
    BY <1>1, <2>1
  <2> QED BY SMTT(20), <2>3, <2>5, <2>6
<1> HIDE DEF part
<1>11. GotOK(y, part, there - here)
  BY <1>10, RowsRead
<1>12. CacheOK(y.cache) /\ r.cache = y.cache /\ r.ok = (Len(y.got) = there - here)
  BY <1>2, <1>11 DEF GotOK
<1>13. CASE Len(y.got) = there - here
  <2>1. r.items = [n \in 1 .. to - from |-> item(y, from + n)]
    BY <1>2, <1>13
  <2>2. to - from \in Nat /\ to - from = IF from + want <= whole THEN want ELSE whole - from
    BY <1>1, <1>3, <1>4
  <2>3. ASSUME NEW n \in 1 .. to - from
        PROVE  from + n \in 1 .. whole /\ item(y, from + n) = c[from + n]
    <3> DEFINE p == from + n
    <3>1. p \in from + 1 .. to
      BY <1>1, <1>3, <1>4, <2>2
    <3> HIDE DEF p
    <3>2. p \in 1 .. whole /\ Place(rows, p) \in 1 .. there
      BY <1>9, <3>1
    <3>3. c[p] = <<rows[Place(rows, p)], p - Total(rows, Place(rows, p) - 1)>>
      BY <1>1, <3>2
    <3>4. ASSUME Place(rows, p) > here
          PROVE  y.got[Place(rows, p) - here] = rows[Place(rows, p)]
      <4>1. Place(rows, p) - here \in 1 .. there - here
        BY SMTT(20), <1>1, <1>7, <1>8, <3>2, <3>4
      <4>2. y.got[Place(rows, p) - here] = part[Place(rows, p) - here]
        BY <1>11, <1>13, <4>1 DEF GotOK
      <4>3. part[Place(rows, p) - here] = rows[here + (Place(rows, p) - here)]
        BY <1>10, <4>1
      <4>4. here + (Place(rows, p) - here) = Place(rows, p)
        BY <1>7, <3>2
      <4> QED BY <4>2, <4>3, <4>4
    <3>5. item(y, p) = c[p]
      BY <3>3, <3>4
    <3> QED BY <3>2, <3>5 DEF p
  <2> HIDE DEF item
  <2>4. r.items \in Seq(MemoryItem) /\ Len(r.items) = to - from
        /\ \A n \in 1 .. to - from : r.items[n] = c[from + n]
    <3>1. \A n \in 1 .. to - from : c[from + n] \in MemoryItem
      BY <1>1, <2>3
    <3>2. r.items \in [1 .. to - from -> MemoryItem]
      BY <2>1, <2>3, <3>1
    <3>3. r.items \in Seq(MemoryItem) /\ Len(r.items) = to - from
      <4>1. \A k \in Nat : \A s \in [1 .. k -> MemoryItem] : s \in Seq(MemoryItem) /\ Len(s) = k
        OBVIOUS
      <4> QED BY <2>2, <3>2, <4>1
    <3> QED BY <2>1, <2>3, <3>3
  <2> QED BY <1>1, <1>12, <1>13, <2>2, <2>3, <2>4 DEF c
<1>14. CASE Len(y.got) # there - here
  <2>1. r.items = <<>> /\ ~r.ok
    BY <1>2, <1>14
  <2>2. <<>> \in Seq(MemoryItem) /\ Len(<<>>) = 0
    OBVIOUS
  <2> QED BY <1>12, <2>1, <2>2
<1> QED BY <1>13, <1>14

-----------------------------------------------------------------------------
(* The corpora: what is true of each user, by its corpus c and the setting *)
(* cfg of the run.                                                         *)

Begins(s, c) == /\ s \in Seq(MemoryItem) /\ Len(s) <= Len(c)
                /\ \A n \in 1 .. Len(s) : s[n] = c[n]

Limited(cfg) == cfg.scenario = "search-load" /\ cfg.limit > 0
PoolGood(c, cfg, p) == Begins(p, c) /\ Len(p) = IF Limited(cfg) THEN cfg.limit ELSE Len(c)

\* What was stored (s), how the ingest went (i), the memories (m) and the pool (p).
UserGood(c, cfg, s, i, m, p) ==
  /\ Begins(s, c)
  /\ cfg.preingest = "exact" => Len(s) <= cfg.exact
  /\ i = "todo" /\ cfg.preingest # "exact" => s = <<>>
  /\ i = "done" => /\ cfg.preingest = "exact" => Len(s) = cfg.exact
                   /\ cfg.preingest # "exact" => (c # <<>> => s # <<>>)
                   /\ cfg.preingest = "all" => s = c
  /\ m # NotBuilt =>
       m = c /\ (~Limited(cfg) /\ cfg.scenario # "add-load" => PoolGood(c, cfg, p))
  /\ p # NotBuilt => PoolGood(c, cfg, p)

Op == [kind : {"add", "search"}, item : MemoryItem]

\* The operations of a search plan, all of them; ...
PassGood(cfg, p, pl) ==
  cfg.scenario = "search-load" /\ pl # <<>> =>
    /\ p # <<>>
    /\ \A k \in 1 .. Len(pl) :
         pl[k] = Search(Ring(p, Offsets(Len(p), (k - 1) \div Len(p)) + ((k - 1) % Len(p))))

\* ... the searches and the adds of any plan.
SearchesGood(p, pl) == \A k \in 1 .. Len(pl) : pl[k].kind = "search" => pl[k].item \in Range(p)

AddsBefore(pl, k) == Cardinality({j \in 1 .. k - 1 : pl[j].kind = "add"})
AddsGood(m, pl) ==
  \A k \in 1 .. Len(pl) :
    pl[k].kind = "add" => m # <<>> /\ pl[k].item = Ring(m, AddsBefore(pl, k))

OnlyAdds(cfg, pl) == cfg.scenario = "add-load" => \A k \in 1 .. Len(pl) : pl[k].kind = "add"

\* What a plan may draw from while it is there.
Drawable(c, cfg, m, p) ==
  /\ cfg.scenario # "chat-replay"
  /\ Limited(cfg) => PoolGood(c, cfg, p)
  /\ ~Limited(cfg) => m = c /\ (cfg.scenario # "add-load" => PoolGood(c, cfg, p))

PlanGood(c, cfg, ph, m, p, pl, d) ==
  /\ pl \in Seq(Op)
  /\ ph # "run" => d = "no"
  /\ d # "yes" => pl = <<>>
  /\ d = "yes" => Drawable(c, cfg, m, p)
  /\ PassGood(cfg, p, pl) /\ SearchesGood(p, pl) /\ AddsGood(m, pl) /\ OnlyAdds(cfg, pl)

UserOK(u) ==
  /\ UserGood(CorpusOf(u), setting, stored[u], ingest[u], memo[u], pool[u])
  /\ PlanGood(CorpusOf(u), setting, phase, memo[u], pool[u], plan[u], drawing[u])

AllOn(D) == /\ IsOn(stored, D) /\ IsOn(ingest, D) /\ IsOn(memo, D) /\ IsOn(pool, D)
            /\ IsOn(plan, D) /\ IsOn(drawing, D)

DealtOK == /\ setting \in Setting /\ items # <<>> /\ Shuffled(order, Len(items))
           /\ AllOn(Shard(setting))

\* The run began with the pools and the memories that it needs.
PhaseOK ==
  /\ phase = "run" /\ setting.preingest # "none" => \A u \in Mine : ingest[u] = "done"
  /\ phase \in {"ingest", "run"} /\ Limited(setting) =>
       \A u \in Mine : PoolGood(CorpusOf(u), setting, pool[u])

CorporaOK ==
  /\ CacheOK(cache) /\ items \in Seq(Nat)
  /\ phase = "read" => ~Loaded
  /\ ~Loaded => Mine = {} /\ phase \in {"read", "refused"}
  /\ Loaded => DealtOK /\ PhaseOK /\ \A u \in Mine : UserOK(u)

LEMMA LoadedFacts ==
  ASSUME CorporaOK, Loaded
  PROVE  /\ setting \in Setting /\ Mine = Shard(setting) /\ Mine \subseteq User /\ AllOn(Mine)
         /\ RowsDealt /\ Mine \subseteq Nat
         /\ \A u \in Mine : /\ RowsOf(u) \in Seq(Rows) /\ RowsOf(u) # <<>>
                            /\ CorpusOf(u) \in Seq(MemoryItem) /\ Distinct(CorpusOf(u))
<1>1. DealtOK /\ items \in Seq(Nat)
  BY DEF CorporaOK
<1>2. setting \in Setting /\ setting.users \in Nat \ {0}
  BY <1>1, CorporaAssumption DEF DealtOK
<1>3. Mine = Shard(setting) /\ AllOn(Mine)
  BY <1>1 DEF DealtOK, AllOn, IsOn, Mine
<1>4. Mine \subseteq User /\ Mine \subseteq Nat
  BY <1>2, <1>3 DEF Shard, User
<1>5. /\ RowsDealt
      /\ \A u \in User : RowsOf(u) \in Seq(Rows) /\ RowsOf(u) # <<>> /\ Distinct(RowsOf(u))
  BY <1>1, <1>2, DealtToAll DEF DealtOK
<1>6. ASSUME NEW u \in Mine PROVE CorpusOf(u) \in Seq(MemoryItem) /\ Distinct(CorpusOf(u))
  BY <1>1, <1>4, <1>5, CorpusFacts
<1> QED BY <1>2, <1>3, <1>4, <1>5, <1>6

\* The rows and the corpora stay what they are once they are dealt.
LEMMA CorpusSame ==
  ASSUME UNCHANGED <<setting, items, order>>, NEW u
  PROVE  CorpusOf(u)' = CorpusOf(u)
BY DEF CorpusOf, RowsOf, Total, Place, Rows

\* Reading more rows of the dataset.
LEMMA CorporaWhileReading ==
  ASSUME CorporaOK, phase = "read", phase' \in {"read", "refused"}, UNCHANGED <<order, stored>>,
         CacheOK(cache)', items' \in Seq(Nat)
  PROVE  CorporaOK'
BY DEF CorporaOK, Loaded, Mine

LEMMA CorporaUnchanged ==
  ASSUME CorporaOK, UNCHANGED corpusVars
  PROVE  CorporaOK'
<1>1. \A u : CorpusOf(u)' = CorpusOf(u)
  BY CorpusSame DEF corpusVars
<1>2. CacheOK(cache)' /\ items' = items /\ phase' = phase /\ (Loaded' <=> Loaded)
      /\ Mine' = Mine /\ setting' = setting
  BY DEF corpusVars, CorporaOK, Loaded, Mine
<1>3. DealtOK => DealtOK'
  BY DEF DealtOK, corpusVars, AllOn
<1>4. PhaseOK => PhaseOK'
  BY <1>1, <1>2 DEF PhaseOK, corpusVars
<1>5. ASSUME NEW u \in Mine, UserOK(u) PROVE UserOK(u)'
  BY <1>1, <1>5 DEF UserOK, corpusVars
<1> QED BY <1>2, <1>3, <1>4, <1>5 DEF CorporaOK

\* A step of one user, or of its part of the validation.
LEMMA OneUser ==
  ASSUME CorporaOK, Loaded, UNCHANGED <<setting, items, order, phase>>, CacheOK(cache)',
         AllOn(Mine)', Mine' = Mine, NEW v \in Mine, UserOK(v)', PhaseOK',
         \A u \in Mine \ {v} :
           /\ stored'[u] = stored[u] /\ ingest'[u] = ingest[u] /\ memo'[u] = memo[u]
           /\ pool'[u] = pool[u] /\ plan'[u] = plan[u] /\ drawing'[u] = drawing[u]
  PROVE  CorporaOK'
<1>1. \A u : CorpusOf(u)' = CorpusOf(u)
  BY CorpusSame
<1>2. Loaded' /\ phase' # "read" /\ items' \in Seq(Nat)
  BY DEF CorporaOK, Loaded
<1>3. DealtOK'
  <2>1. Mine = Shard(setting) /\ DealtOK
    BY LoadedFacts DEF CorporaOK
  <2>2. Shard(setting)' = Mine'
    BY <2>1
  <2> QED BY <2>1, <2>2 DEF DealtOK
<1>4. ASSUME NEW u \in Mine PROVE UserOK(u)'
  <2>1. CASE u = v
    BY <2>1
  <2>2. CASE u # v
    <3>1. UserOK(u)
      BY DEF CorporaOK
    <3> QED BY <1>1, <2>2, <3>1 DEF UserOK
  <2> QED BY <2>1, <2>2
<1> QED BY <1>2, <1>3, <1>4 DEF CorporaOK

\* The process goes on to another phase, or refuses the run.
LEMMA PhaseMoves ==
  ASSUME CorporaOK, Loaded, phase \in {"validate", "ingest"}, phase' # "read",
         UNCHANGED <<setting, items, order, stored, ingest, memo, pool, plan, drawing>>,
         CacheOK(cache)', PhaseOK'
  PROVE  CorporaOK'
<1>1. \A u : CorpusOf(u)' = CorpusOf(u)
  BY CorpusSame
<1>2. Loaded' /\ Mine' = Mine /\ items' \in Seq(Nat) /\ phase # "run"
  BY DEF CorporaOK, Loaded, Mine
<1>3. DealtOK'
  <2>1. DealtOK
    BY DEF CorporaOK
  <2> QED BY <2>1 DEF DealtOK, AllOn
<1>4. ASSUME NEW u \in Mine PROVE UserOK(u)'
  <2>1. UserOK(u)
    BY DEF CorporaOK
  <2> QED BY <1>1, <1>2, <2>1 DEF UserOK, PlanGood
<1> QED BY <1>2, <1>3, <1>4 DEF CorporaOK

-----------------------------------------------------------------------------
(* What is taken from a stream.                                            *)

LEMMA BeginsMore ==
  ASSUME NEW c \in Seq(MemoryItem), NEW s, Begins(s, c), NEW t \in Seq(MemoryItem),
         \A n \in 1 .. Len(t) : Len(s) + n \in 1 .. Len(c) /\ t[n] = c[Len(s) + n]
  PROVE  Begins(s \o t, c) /\ Len(s \o t) = Len(s) + Len(t)
<1>1. /\ s \in Seq(MemoryItem) /\ Len(s) \in Nat /\ Len(t) \in Nat /\ Len(s) <= Len(c)
      /\ \A n \in 1 .. Len(s) : s[n] = c[n]
  BY DEF Begins
<1> DEFINE all == s \o t
<1>2. /\ all \in Seq(MemoryItem) /\ Len(all) = Len(s) + Len(t)
      /\ \A n \in 1 .. Len(s) : all[n] = s[n]
      /\ \A n \in 1 .. Len(t) : all[Len(s) + n] = t[n]
  BY <1>1
<1> HIDE DEF all
<1>3. Len(all) <= Len(c)
  <2>1. Len(t) # 0 => Len(t) \in 1 .. Len(t)
    BY <1>1
  <2> QED BY <1>1, <1>2, <2>1
<1>4. ASSUME NEW n \in 1 .. Len(all) PROVE all[n] = c[n]
  <2>1. CASE n <= Len(s)
    <3>1. n \in 1 .. Len(s)
      BY <1>1, <2>1
    <3> QED BY <1>1, <1>2, <3>1
  <2>2. CASE n > Len(s)
    <3>1. n - Len(s) \in 1 .. Len(t) /\ Len(s) + (n - Len(s)) = n
      BY <1>1, <1>2, <2>2
    <3> QED BY <1>2, <3>1
  <2> QED BY <1>1, <2>1, <2>2
<1> QED BY <1>2, <1>3, <1>4 DEF Begins, all

LEMMA BeginsFacts ==
  ASSUME NEW c \in Seq(MemoryItem), NEW s, Begins(s, c)
  PROVE  /\ s \in Seq(MemoryItem) /\ Len(s) \in 0 .. Len(c) /\ DOMAIN s = 1 .. Len(s)
         /\ IsPrefixOf(s, c) /\ (Len(s) = Len(c) => s = c)
<1>1. /\ s \in Seq(MemoryItem) /\ Len(s) \in 0 .. Len(c) /\ DOMAIN s = 1 .. Len(s)
      /\ \A n \in 1 .. Len(s) : s[n] = c[n]
  BY DEF Begins
<1> DEFINE t == SubSeq(c, 1, Len(s))
<1>2. t \in Seq(MemoryItem) /\ Len(t) = Len(s) /\ \A n \in 1 .. Len(s) : t[n] = c[n]
  BY <1>1
<1> HIDE DEF t
<1>3. \A x, y \in Seq(MemoryItem) :
        Len(x) = Len(y) /\ (\A n \in 1 .. Len(x) : x[n] = y[n]) => x = y
  OBVIOUS
<1>4. s = t
  BY <1>1, <1>2, <1>3
<1>5. Len(s) = Len(c) => s = c
  BY <1>1, <1>3
<1> QED BY <1>1, <1>4, <1>5 DEF IsPrefixOf, t

\* A stream that is taken from its beginning.
LEMMA TakenFirst ==
  ASSUME CorporaOK, Loaded, NEW u \in Mine, NEW want \in Nat, NEW r \in Taken(u, 0, want)
  PROVE  /\ CacheOK(r.cache) /\ r.ok \in BOOLEAN /\ Begins(r.items, CorpusOf(u))
         /\ r.ok => Len(r.items) = IF want <= Len(CorpusOf(u)) THEN want ELSE Len(CorpusOf(u))
<1> DEFINE c == CorpusOf(u)
<1>1. /\ c \in Seq(MemoryItem) /\ RowsOf(u) \in Seq(Rows) /\ items \in Seq(Nat) /\ CacheOK(cache)
      /\ Len(c) \in Nat /\ 0 \in 0 .. Len(c)
  <2>1. c \in Seq(MemoryItem) /\ RowsOf(u) \in Seq(Rows)
    BY LoadedFacts
  <2>2. items \in Seq(Nat) /\ CacheOK(cache)
    BY DEF CorporaOK
  <2> HIDE DEF c
  <2> QED BY <2>1, <2>2
<1>2. /\ CacheOK(r.cache) /\ r.ok \in BOOLEAN /\ r.items \in Seq(MemoryItem)
      /\ r.ok => Len(r.items) = IF 0 + want <= Len(c) THEN want ELSE Len(c) - 0
      /\ \A n \in 1 .. Len(r.items) : 0 + n \in 1 .. Len(c) /\ r.items[n] = c[0 + n]
  BY <1>1, TakenFacts
<1> HIDE DEF c
<1>3. \A n \in 1 .. Len(r.items) : n \in 1 .. Len(c) /\ r.items[n] = c[n]
  <2>1. \A n \in 1 .. Len(r.items) : 0 + n = n
    OBVIOUS
  <2> QED BY <1>2, <2>1
<1>4. Len(r.items) <= Len(c)
  <2>1. Len(r.items) \in Nat
    BY <1>2
  <2>2. Len(r.items) # 0 => Len(r.items) \in 1 .. Len(r.items)
    BY <2>1
  <2> QED BY <1>1, <1>3, <2>1, <2>2
<1>5. 0 + want = want /\ Len(c) - 0 = Len(c)
  BY <1>1
<1> QED BY <1>2, <1>3, <1>4, <1>5 DEF Begins, c

LEMMA TakenAll ==
  ASSUME CorporaOK, Loaded, NEW u \in Mine, NEW r \in All(u)
  PROVE  CacheOK(r.cache) /\ r.ok \in BOOLEAN /\ (r.ok => r.items = CorpusOf(u))
<1> DEFINE c == CorpusOf(u)
<1>1. c \in Seq(MemoryItem)
  BY LoadedFacts
<1>2. Len(c) \in Nat /\ Len(c) + 1 \in Nat /\ ~(Len(c) + 1 <= Len(c))
  <2> HIDE DEF c
  <2> QED BY <1>1
<1>3. /\ CacheOK(r.cache) /\ r.ok \in BOOLEAN /\ Begins(r.items, c)
      /\ r.ok => Len(r.items) = IF Len(c) + 1 <= Len(c) THEN Len(c) + 1 ELSE Len(c)
  BY <1>2, TakenFirst DEF All
<1> HIDE DEF c
<1>4. r.ok => r.items = c
  BY <1>1, <1>2, <1>3, BeginsFacts
<1> QED BY <1>3, <1>4 DEF c

-----------------------------------------------------------------------------
(* Before the run.                                                         *)

LEMMA BuildPoolStep ==
  ASSUME CorporaOK, Loaded, BuildPool
  PROVE  CorporaOK'
<1>1. /\ phase = "validate" /\ Unbuilt # {}
      /\ UNCHANGED <<setting, items, order, stored, ingest, memo, plan, drawing>>
  BY DEF BuildPool
<1>2. Mine \subseteq Nat /\ AllOn(Mine) /\ setting \in Setting
  BY LoadedFacts
<1>3. PICK u \in Mine : u = Min(Unbuilt) /\ Bounded
  <2>1. Unbuilt \subseteq Nat
    BY <1>2 DEF Unbuilt
  <2>2. Min(Unbuilt) \in Unbuilt
    BY <1>1, <2>1, MinFacts
  <2> QED BY <2>2 DEF Unbuilt
<1>4. PICK r \in Taken(u, 0, setting.limit) :
        /\ cache' = r.cache
        /\ IF r.ok /\ Len(r.items) = setting.limit
           THEN pool' = [pool EXCEPT ![u] = r.items] /\ UNCHANGED phase
           ELSE Refuse /\ UNCHANGED pool
  BY <1>3 DEF BuildPool
<1>5. setting.limit \in Nat
  BY <1>2, CorporaAssumption
<1>6. CacheOK(r.cache) /\ Begins(r.items, CorpusOf(u))
  BY <1>3, <1>5, TakenFirst
<1>7. CacheOK(cache)' /\ Mine' = Mine
  BY <1>1, <1>4, <1>6 DEF CacheOK, Mine
<1>8. CASE r.ok /\ Len(r.items) = setting.limit
  <2>1. pool' = [pool EXCEPT ![u] = r.items] /\ phase' = phase
    BY <1>4, <1>8
  <2>2. IsOn(pool', Mine) /\ pool'[u] = r.items /\ \A w \in Mine \ {u} : pool'[w] = pool[w]
    <3>1. IsOn(pool, Mine)
      BY <1>2 DEF AllOn
    <3> QED BY <1>3, <2>1, <3>1 DEF IsOn
  <2>3. AllOn(Mine)'
    BY <1>1, <1>2, <1>7, <2>2 DEF AllOn
  <2>4. Limited(setting) /\ PoolGood(CorpusOf(u), setting, r.items)
    BY <1>3, <1>6, <1>8 DEF PoolGood, Limited, Bounded
  <2>5. UserOK(u) /\ CorpusOf(u)' = CorpusOf(u)
    BY <1>1, <1>3, CorpusSame DEF CorporaOK
  <2>6. UserGood(CorpusOf(u), setting, stored[u], ingest[u], memo[u], r.items)
    BY <2>4, <2>5 DEF UserOK, UserGood
  <2>7. PlanGood(CorpusOf(u), setting, phase, memo[u], r.items, plan[u], drawing[u])
    <3>1. drawing[u] = "no" /\ plan[u] = <<>>
      BY <1>1, <2>5 DEF UserOK, PlanGood
    <3>2. PassGood(setting, r.items, <<>>) /\ SearchesGood(r.items, <<>>)
      BY DEF PassGood, SearchesGood
    <3> QED BY <2>5, <3>1, <3>2 DEF UserOK, PlanGood
  <2>8. UserOK(u)'
    BY <1>1, <2>1, <2>2, <2>5, <2>6, <2>7 DEF UserOK
  <2>9. PhaseOK'
    BY <1>1, <2>1 DEF PhaseOK
  <2> QED BY <1>1, <1>3, <1>7, <2>1, <2>2, <2>3, <2>8, <2>9, OneUser
<1>9. CASE ~(r.ok /\ Len(r.items) = setting.limit)
  <2>1. phase' = "refused" /\ pool' = pool
    BY <1>4, <1>9 DEF Refuse
  <2>2. PhaseOK'
    BY <2>1 DEF PhaseOK
  <2> QED BY <1>1, <1>7, <2>1, <2>2, PhaseMoves
<1> QED BY <1>8, <1>9

\* What a step of the ingest of one user has to show.
LEMMA IngestMoves ==
  ASSUME CorporaOK, Loaded, phase = "ingest", CacheOK(cache)',
         UNCHANGED <<setting, items, order, phase, memo, pool, plan, drawing>>,
         NEW u \in Mine, IsOn(stored', Mine), IsOn(ingest', Mine),
         \A w \in Mine \ {u} : stored'[w] = stored[w] /\ ingest'[w] = ingest[w],
         UserGood(CorpusOf(u), setting, stored'[u], ingest'[u], memo[u], pool[u])
  PROVE  CorporaOK'
<1>1. AllOn(Mine) /\ UserOK(u) /\ PhaseOK
  BY LoadedFacts DEF CorporaOK
<1>2. Mine' = Mine
  BY DEF Mine, IsOn
<1>3. AllOn(Mine)'
  BY <1>1, <1>2 DEF AllOn
<1>4. \A w : CorpusOf(w)' = CorpusOf(w)
  BY CorpusSame
<1>5. UserOK(u)'
  BY <1>1, <1>4 DEF UserOK
<1>6. PhaseOK'
  BY <1>1, <1>2, <1>4 DEF PhaseOK
<1> QED BY <1>2, <1>3, <1>5, <1>6, OneUser

LEMMA IngestBatchStep ==
  ASSUME CorporaOK, Loaded, NEW u \in Mine, IngestBatch(u)
  PROVE  CorporaOK'
<1> DEFINE c == CorpusOf(u)
           have == Len(stored[u])
           want == Min({AddBatch, setting.exact - have})
<1>1. /\ phase = "ingest" /\ ingest[u] = "todo" /\ setting.preingest = "exact"
      /\ UNCHANGED <<setting, items, order, phase, memo, pool, plan, drawing>>
  BY DEF IngestBatch
<1>2. PICK r \in Taken(u, have, want) :
        /\ cache' = r.cache
        /\ \/ /\ stored' = [stored EXCEPT ![u] = @ \o r.items]
              /\ ingest' = [ingest EXCEPT ![u] =
                              IF have + Len(r.items) = setting.exact THEN "done" ELSE "todo"]
           \/ ingest' = [ingest EXCEPT ![u] = "failed"] /\ UNCHANGED stored
  BY DEF IngestBatch, Submit, Ends
<1>3. c \in Seq(MemoryItem) /\ RowsOf(u) \in Seq(Rows) /\ setting \in Setting /\ AllOn(Mine)
      /\ items \in Seq(Nat) /\ CacheOK(cache)
  BY LoadedFacts DEF CorporaOK
<1>4. UserGood(c, setting, stored[u], ingest[u], memo[u], pool[u])
  BY DEF CorporaOK, UserOK
<1>5. Begins(stored[u], c) /\ have <= setting.exact
  BY <1>1, <1>4 DEF UserGood
<1> HIDE DEF c
<1>6. have \in 0 .. Len(c) /\ Len(c) \in Nat
  BY <1>3, <1>5, BeginsFacts
<1> HIDE DEF have
<1>7. want \in Nat /\ have + want <= setting.exact
  <2>1. AddBatch \in Nat /\ setting.exact \in Nat
    BY <1>3, CorporaAssumption
  <2>2. {AddBatch, setting.exact - have} \subseteq Nat /\ {AddBatch, setting.exact - have} # {}
    BY <1>5, <1>6, <2>1
  <2>3. want \in {AddBatch, setting.exact - have} /\ want <= setting.exact - have
    BY <2>2, MinFacts
  <2> HIDE DEF want
  <2> QED BY <1>6, <2>1, <2>2, <2>3
<1> HIDE DEF want
<1>8. /\ CacheOK(r.cache) /\ r.ok \in BOOLEAN /\ r.items \in Seq(MemoryItem)
      /\ r.ok => Len(r.items) = IF have + want <= Len(c) THEN want ELSE Len(c) - have
      /\ ~r.ok => r.items = <<>>
      /\ \A n \in 1 .. Len(r.items) : have + n \in 1 .. Len(c) /\ r.items[n] = c[have + n]
  BY <1>3, <1>6, <1>7, TakenFacts DEF c
<1>9. CacheOK(cache)'
  BY <1>2, <1>8 DEF CacheOK
<1>10. CASE /\ stored' = [stored EXCEPT ![u] = @ \o r.items]
            /\ ingest' = [ingest EXCEPT ![u] =
                            IF have + Len(r.items) = setting.exact THEN "done" ELSE "todo"]
  <2> DEFINE s == stored[u] \o r.items
             i == IF have + Len(r.items) = setting.exact THEN "done" ELSE "todo"
  <2>1. Begins(s, c) /\ Len(s) = have + Len(r.items)
    BY <1>3, <1>5, <1>8, BeginsMore DEF have
  <2>2. Len(r.items) <= want /\ Len(r.items) \in Nat
    BY <1>6, <1>7, <1>8
  <2>3. Len(s) <= setting.exact
    <3> HIDE DEF s
    <3>1. have + Len(r.items) <= have + want /\ have \in Nat /\ setting.exact \in Nat
      BY <1>3, <1>6, <1>7, <2>2, CorporaAssumption
    <3> QED BY <1>7, <2>1, <2>2, <3>1
  <2>4. i \in {"done", "todo"} /\ (i = "done" => Len(s) = setting.exact)
    BY <2>1
  <2> HIDE DEF s, i
  <2>5. UserGood(c, setting, s, i, memo[u], pool[u])
    BY <1>1, <1>4, <2>1, <2>3, <2>4 DEF UserGood
  <2>6. /\ IsOn(stored', Mine) /\ IsOn(ingest', Mine) /\ stored'[u] = s /\ ingest'[u] = i
        /\ \A w \in Mine \ {u} : stored'[w] = stored[w] /\ ingest'[w] = ingest[w]
    BY <1>3, <1>10 DEF s, i, AllOn, IsOn
  <2> QED BY <1>1, <1>9, <2>5, <2>6, IngestMoves DEF c
<1>11. CASE ingest' = [ingest EXCEPT ![u] = "failed"] /\ UNCHANGED stored
  <2>1. UserGood(c, setting, stored[u], "failed", memo[u], pool[u])
    BY <1>4 DEF UserGood
  <2>2. /\ IsOn(stored', Mine) /\ IsOn(ingest', Mine)
        /\ stored'[u] = stored[u] /\ ingest'[u] = "failed"
        /\ \A w \in Mine \ {u} : stored'[w] = stored[w] /\ ingest'[w] = ingest[w]
    BY <1>3, <1>11 DEF AllOn, IsOn
  <2> QED BY <1>1, <1>9, <1>11, <2>1, <2>2, IngestMoves DEF c
<1> QED BY <1>2, <1>10, <1>11

LEMMA SharesFacts ==
  ASSUME NEW n \in Nat, NEW keep \in Shares(n)
  PROVE  keep \in 0 .. n /\ (n > 0 => keep > 0) /\ (setting.preingest = "all" => keep = n)
<1>1. CASE setting.preingest = "all"
  BY <1>1 DEF Shares
<1>2. CASE setting.preingest # "all"
  <2>1. PICK k \in 1 .. n + 1 : keep = Min({k, n})
    BY <1>2 DEF Shares
  <2>2. {k, n} \subseteq Nat /\ {k, n} # {}
    OBVIOUS
  <2>3. keep \in {k, n} /\ keep <= n
    BY <2>1, <2>2, MinFacts
  <2> QED BY <1>2, <2>2, <2>3
<1> QED BY <1>1, <1>2

LEMMA IngestShareStep ==
  ASSUME CorporaOK, Loaded, NEW u \in Mine, IngestShare(u)
  PROVE  CorporaOK'
<1> DEFINE c == CorpusOf(u)
<1>1. /\ phase = "ingest" /\ ingest[u] = "todo" /\ setting.preingest # "exact"
      /\ UNCHANGED <<setting, items, order, phase, memo, pool, plan, drawing>>
  BY DEF IngestShare
<1>2. PICK r \in All(u) :
        /\ cache' = r.cache
        /\ \/ r.ok /\ \E keep \in Shares(Len(r.items)) :
                        /\ stored' = [stored EXCEPT ![u] = @ \o SubSeq(r.items, 1, keep)]
                        /\ ingest' = [ingest EXCEPT ![u] = "done"]
           \/ ingest' = [ingest EXCEPT ![u] = "failed"] /\ UNCHANGED stored
  BY DEF IngestShare, Submit, Ends
<1>3. c \in Seq(MemoryItem) /\ AllOn(Mine)
  BY LoadedFacts
<1>4. UserGood(c, setting, stored[u], ingest[u], memo[u], pool[u])
  BY DEF CorporaOK, UserOK
<1>5. CacheOK(r.cache) /\ (r.ok => r.items = c)
  BY TakenAll
<1> HIDE DEF c
<1>6. CacheOK(cache)'
  BY <1>2, <1>5 DEF CacheOK
<1>7. ASSUME r.ok, NEW keep \in Shares(Len(r.items)),
             stored' = [stored EXCEPT ![u] = @ \o SubSeq(r.items, 1, keep)],
             ingest' = [ingest EXCEPT ![u] = "done"]
      PROVE  CorporaOK'
  <2> DEFINE s == SubSeq(c, 1, keep)
  <2>1. stored[u] = <<>> /\ r.items = c
    BY <1>1, <1>4, <1>5, <1>7 DEF UserGood
  <2>2. Len(c) \in Nat /\ keep \in 0 .. Len(c) /\ (Len(c) > 0 => keep > 0)
        /\ (setting.preingest = "all" => keep = Len(c))
    <3>1. Len(c) \in Nat
      BY <1>3
    <3> QED BY <1>7, <2>1, <3>1, SharesFacts
  <2>3. s \in Seq(MemoryItem) /\ Len(s) = keep /\ \A n \in 1 .. keep : s[n] = c[n]
    BY <1>3, <2>2
  <2>4. <<>> \o s = s
    BY <2>3
  <2> HIDE DEF s
  <2>5. Begins(s, c)
    BY <2>2, <2>3 DEF Begins
  <2>6. (setting.preingest = "all" => s = c) /\ (c # <<>> => s # <<>>)
    <3>1. setting.preingest = "all" => s = c
      BY <1>3, <2>2, <2>3, <2>5, BeginsFacts
    <3>2. c # <<>> => Len(c) > 0
      BY <1>3
    <3>3. s = <<>> => Len(s) = 0
      OBVIOUS
    <3> QED BY <2>2, <2>3, <3>1, <3>2, <3>3
  <2>7. UserGood(c, setting, s, "done", memo[u], pool[u])
    BY <1>1, <1>4, <2>5, <2>6 DEF UserGood
  <2>8. /\ IsOn(stored', Mine) /\ IsOn(ingest', Mine) /\ stored'[u] = s /\ ingest'[u] = "done"
        /\ \A w \in Mine \ {u} : stored'[w] = stored[w] /\ ingest'[w] = ingest[w]
    BY <1>3, <1>7, <2>1, <2>4 DEF s, AllOn, IsOn
  <2> QED BY <1>1, <1>6, <1>7, <2>7, <2>8, IngestMoves DEF c
<1>8. CASE ingest' = [ingest EXCEPT ![u] = "failed"] /\ UNCHANGED stored
  <2>1. UserGood(c, setting, stored[u], "failed", memo[u], pool[u])
    BY <1>4 DEF UserGood
  <2>2. /\ IsOn(stored', Mine) /\ IsOn(ingest', Mine)
        /\ stored'[u] = stored[u] /\ ingest'[u] = "failed"
        /\ \A w \in Mine \ {u} : stored'[w] = stored[w] /\ ingest'[w] = ingest[w]
    BY <1>3, <1>8 DEF AllOn, IsOn
  <2> QED BY <1>1, <1>6, <1>8, <2>1, <2>2, IngestMoves DEF c
<1> QED BY <1>2, <1>7, <1>8

-----------------------------------------------------------------------------
(* Plans.                                                                  *)

LEMMA RingFacts ==
  ASSUME NEW s \in Seq(MemoryItem), s # <<>>, NEW i \in Nat
  PROVE  /\ Ring(s, i) = s[(i % Len(s)) + 1] /\ (i % Len(s)) + 1 \in 1 .. Len(s)
         /\ Ring(s, i) \in MemoryItem /\ Ring(s, i) \in Range(s)
<1>1. Len(s) \in Nat \ {0} /\ DOMAIN s = 1 .. Len(s)
  OBVIOUS
<1>2. (i % Len(s)) + 1 \in 1 .. Len(s)
  BY <1>1, DivMod
<1>3. Ring(s, i) = s[(i % Len(s)) + 1]
  BY DEF Ring
<1> QED BY <1>1, <1>2, <1>3 DEF Range

\* A pass starts within the pool, and not where the one before it did.
LEMMA OffsetsFacts ==
  ASSUME NEW n \in Nat \ {0}, NEW pass \in Nat
  PROVE  /\ Offsets(n, pass) \in 0 .. n - 1
         /\ n > 1 => Offsets(n, pass + 1) # Offsets(n, pass)
<1> DEFINE s == Max({1, n \div Rotation})
           q == n \div Rotation
<1>1. Rotation \in Nat /\ Rotation >= 2
  BY CorporaAssumption
<1>2. q \in Nat /\ q < n
  <2>1. q \in Nat /\ n % Rotation \in Nat /\ n = Rotation * q + (n % Rotation)
    BY <1>1, DivMod
  <2>2. 2 * q <= Rotation * q
    <3>1. q * 2 <= q * Rotation
      BY <1>1, <2>1, Scale
    <3>2. q * 2 = 2 * q /\ q * Rotation = Rotation * q
      BY <1>1, <2>1
    <3> HIDE DEF q
    <3> QED BY <3>1, <3>2
  <2>3. Rotation * q \in Int
    BY <1>1, <2>1
  <2> HIDE DEF q
  <2> QED BY <2>1, <2>2, <2>3
<1>3. s \in {1, q} /\ s >= 1
  <2>1. {1, q} \subseteq 0 .. n /\ {1, q} # {}
    BY <1>2
  <2>2. Max({1, q}) \in {1, q} /\ \A m \in {1, q} : Max({1, q}) >= m
    <3> HIDE DEF q
    <3> QED BY <2>1, MaxFacts
  <2> QED BY <2>2
<1>4. s \in Nat \ {0} /\ (n > 1 => s < n)
  <2> HIDE DEF s, q
  <2> QED BY <1>2, <1>3
<1>5. \A p \in Nat : Offsets(n, p) = (p * s) % n
  BY DEF Offsets
<1> HIDE DEF s, q
<1>6. pass * s \in Nat /\ (pass + 1) * s \in Nat /\ (pass + 1) * s = pass * s + s
  BY <1>4
<1> DEFINE a == pass * s
           b == (pass + 1) * s
<1>7. Offsets(n, pass) = a % n /\ Offsets(n, pass + 1) = b % n
  BY <1>5
<1>8. a \in Nat /\ b = a + s
  BY <1>6
<1> HIDE DEF a, b
<1>9. b \in Nat
  BY <1>4, <1>8
<1>10. /\ a \div n \in Nat /\ a % n \in Nat /\ a % n < n /\ a = n * (a \div n) + (a % n)
       /\ b \div n \in Nat /\ b % n \in Nat /\ b % n < n /\ b = n * (b \div n) + (b % n)
  BY <1>8, <1>9, DivMod
<1>11. ASSUME n > 1, a % n = b % n PROVE FALSE
  <2> DEFINE x == a \div n
             y == b \div n
             r == a % n
  <2>1. x \in Nat /\ y \in Nat /\ r \in Nat /\ n * x + r + s = n * y + r
    BY <1>8, <1>10, <1>11
  <2> HIDE DEF x, y, r
  <2>2. n * x \in Int /\ n * y \in Int
    BY <2>1
  <2>3. n * x + s = n * y + 0
    BY <1>4, <2>1, <2>2
  <2>4. s = 0
    BY <1>4, <1>11, <2>1, <2>3, OneDivision
  <2> QED BY <1>4, <2>4
<1> QED BY <1>7, <1>10, <1>11

LEMMA StartStep ==
  ASSUME CorporaOK, Loaded, NEW u \in Mine, Start(u)
  PROVE  CorporaOK'
<1> DEFINE c == CorpusOf(u)
<1>1. /\ phase = "run" /\ drawing[u] = "no" /\ setting.scenario # "chat-replay"
      /\ UNCHANGED <<setting, items, order, phase, stored, ingest, plan>>
  BY DEF Start
<1>2. AllOn(Mine) /\ UserOK(u) /\ PhaseOK /\ CacheOK(cache)
  BY LoadedFacts DEF CorporaOK
<1>3. UserGood(c, setting, stored[u], ingest[u], memo[u], pool[u])
      /\ PlanGood(c, setting, phase, memo[u], pool[u], plan[u], drawing[u])
  BY <1>2 DEF UserOK
<1>4. plan[u] = <<>>
  BY <1>1, <1>3 DEF PlanGood
<1>5. Mine' = Mine /\ CorpusOf(u)' = c /\ Bounded = Limited(setting)
  BY <1>1, CorpusSame DEF Mine, Bounded, Limited
<1> HIDE DEF c
\* A plan that is made, or cannot be made, has no operations yet.
<1>6. ASSUME NEW m, NEW p, NEW d \in {"no", "yes", "failed"},
             d = "yes" => Drawable(c, setting, m, p)
      PROVE  PlanGood(c, setting, phase, m, p, <<>>, d)
  <2>1. /\ PassGood(setting, p, <<>>) /\ SearchesGood(p, <<>>) /\ AddsGood(m, <<>>)
        /\ OnlyAdds(setting, <<>>)
    BY DEF PassGood, SearchesGood, AddsGood, OnlyAdds
  <2>2. <<>> \in Seq(Op)
    OBVIOUS
  <2> QED BY <1>1, <1>6, <2>1, <2>2 DEF PlanGood
<1>7. CASE Bounded \/ memo[u] # NotBuilt
  <2>1. drawing' = [drawing EXCEPT ![u] = "yes"] /\ UNCHANGED <<cache, memo, pool>>
    BY <1>7 DEF Start
  <2>2. Drawable(c, setting, memo[u], pool[u])
    <3>1. Limited(setting) => PoolGood(c, setting, pool[u])
      BY <1>1, <1>2 DEF PhaseOK, c
    <3>2. ~Limited(setting) =>
            memo[u] = c /\ (setting.scenario # "add-load" => PoolGood(c, setting, pool[u]))
      BY <1>3, <1>5, <1>7 DEF UserGood
    <3> QED BY <1>1, <3>1, <3>2 DEF Drawable
  <2>3. PlanGood(c, setting, phase, memo[u], pool[u], <<>>, "yes")
    BY <1>6, <2>2
  <2>4. /\ IsOn(drawing', Mine) /\ drawing'[u] = "yes"
        /\ \A w \in Mine \ {u} : drawing'[w] = drawing[w]
    BY <1>2, <2>1 DEF AllOn, IsOn
  <2>5. AllOn(Mine)' /\ UserOK(u)' /\ PhaseOK' /\ CacheOK(cache)'
    <3>1. AllOn(Mine)'
      BY <1>1, <1>2, <1>5, <2>1, <2>4 DEF AllOn
    <3>2. UserOK(u)'
      BY <1>1, <1>3, <1>4, <1>5, <2>1, <2>3, <2>4 DEF UserOK
    <3>3. \A w : CorpusOf(w)' = CorpusOf(w)
      BY <1>1, CorpusSame
    <3>4. PhaseOK'
      BY <1>1, <1>2, <1>5, <2>1, <3>3 DEF PhaseOK
    <3>5. CacheOK(cache)'
      BY <1>2, <2>1 DEF CacheOK
    <3> QED BY <3>1, <3>2, <3>4, <3>5
  <2> QED BY <1>1, <1>5, <2>1, <2>4, <2>5, OneUser
<1>8. CASE ~(Bounded \/ memo[u] # NotBuilt)
  <2>1. PICK r \in All(u) :
          /\ cache' = r.cache
          /\ \/ /\ r.ok /\ memo' = [memo EXCEPT ![u] = r.items]
                /\ pool' = IF setting.scenario = "add-load" THEN pool
                           ELSE [pool EXCEPT ![u] = r.items]
                /\ drawing' = [drawing EXCEPT ![u] = "yes"]
             \/ /\ UNCHANGED <<memo, pool>>
                /\ drawing' = [drawing EXCEPT ![u] =
                                 IF setting.model = "open" THEN "no" ELSE "failed"]
    BY <1>8 DEF Start
  <2>2. CacheOK(r.cache) /\ (r.ok => r.items = c)
    BY TakenAll DEF c
  <2>3. CacheOK(cache)' /\ ~Limited(setting)
    BY <1>5, <1>8, <2>1, <2>2 DEF CacheOK
  <2>4. PhaseOK'
    BY <1>1, <1>2, <1>5, <2>3 DEF PhaseOK
  <2>5. IsOn(memo, Mine) /\ IsOn(pool, Mine) /\ IsOn(drawing, Mine)
    BY <1>2 DEF AllOn
  <2>6. CASE /\ r.ok /\ memo' = [memo EXCEPT ![u] = r.items]
             /\ pool' = IF setting.scenario = "add-load" THEN pool
                        ELSE [pool EXCEPT ![u] = r.items]
             /\ drawing' = [drawing EXCEPT ![u] = "yes"]
    <3>1. /\ IsOn(memo', Mine) /\ IsOn(pool', Mine) /\ IsOn(drawing', Mine)
          /\ memo'[u] = c /\ drawing'[u] = "yes"
          /\ pool'[u] = IF setting.scenario = "add-load" THEN pool[u] ELSE c
          /\ \A w \in Mine \ {u} :
               memo'[w] = memo[w] /\ pool'[w] = pool[w] /\ drawing'[w] = drawing[w]
      <4>1. IsOn(memo', Mine) /\ memo'[u] = c /\ \A w \in Mine \ {u} : memo'[w] = memo[w]
        BY <2>2, <2>5, <2>6 DEF IsOn
      <4>2. /\ IsOn(pool', Mine) /\ \A w \in Mine \ {u} : pool'[w] = pool[w]
            /\ pool'[u] = IF setting.scenario = "add-load" THEN pool[u] ELSE c
        BY <2>2, <2>5, <2>6 DEF IsOn
      <4>3. /\ IsOn(drawing', Mine) /\ drawing'[u] = "yes"
            /\ \A w \in Mine \ {u} : drawing'[w] = drawing[w]
        BY <2>5, <2>6 DEF IsOn
      <4> QED BY <4>1, <4>2, <4>3
    <3>2. AllOn(Mine)'
      BY <1>1, <1>2, <1>5, <3>1 DEF AllOn
    <3>3. PoolGood(c, setting, c)
      <4>1. c \in Seq(MemoryItem)
        BY LoadedFacts DEF c
      <4> QED BY <2>3, <4>1 DEF PoolGood, Begins
    <3>4. Drawable(c, setting, memo'[u], pool'[u])
      BY <1>1, <2>3, <3>1, <3>3 DEF Drawable
    <3>5. PlanGood(c, setting, phase, memo'[u], pool'[u], <<>>, "yes")
      BY <1>6, <3>4
    <3>6. UserGood(c, setting, stored[u], ingest[u], memo'[u], pool'[u])
      BY <1>3, <3>1, <3>3 DEF UserGood
    <3>7. UserOK(u)'
      BY <1>1, <1>4, <1>5, <3>1, <3>5, <3>6 DEF UserOK
    <3> QED BY <1>1, <1>5, <2>3, <2>4, <3>1, <3>2, <3>7, OneUser
  <2>7. CASE /\ UNCHANGED <<memo, pool>>
             /\ drawing' = [drawing EXCEPT ![u] =
                              IF setting.model = "open" THEN "no" ELSE "failed"]
    <3>1. /\ IsOn(drawing', Mine) /\ drawing'[u] \in {"no", "failed"}
          /\ \A w \in Mine \ {u} : drawing'[w] = drawing[w]
      BY <2>5, <2>7 DEF IsOn
    <3>2. AllOn(Mine)'
      BY <1>1, <1>2, <1>5, <2>7, <3>1 DEF AllOn
    <3>3. PlanGood(c, setting, phase, memo[u], pool[u], <<>>, drawing'[u])
      BY <1>6, <3>1
    <3>4. UserOK(u)'
      BY <1>1, <1>3, <1>4, <1>5, <2>7, <3>3 DEF UserOK
    <3> QED BY <1>1, <1>5, <2>3, <2>4, <2>7, <3>1, <3>2, <3>4, OneUser
  <2> QED BY <2>1, <2>6, <2>7
<1> QED BY <1>7, <1>8

\* One more operation.
LEMMA Appended ==
  ASSUME NEW pl \in Seq(Op), NEW op \in Op
  PROVE  LET more == Append(pl, op)
         IN  /\ more \in Seq(Op) /\ Len(more) = Len(pl) + 1 /\ Len(pl) \in Nat
             /\ more[Len(pl) + 1] = op /\ \A k \in 1 .. Len(pl) : more[k] = pl[k]
             /\ \A k \in 1 .. Len(pl) + 1 : AddsBefore(more, k) = AddsBefore(pl, k)
<1> DEFINE more == Append(pl, op)
<1>1. /\ more \in Seq(Op) /\ Len(more) = Len(pl) + 1 /\ Len(pl) \in Nat
      /\ more[Len(pl) + 1] = op /\ \A k \in 1 .. Len(pl) : more[k] = pl[k]
  OBVIOUS
<1> HIDE DEF more
<1>2. ASSUME NEW k \in 1 .. Len(pl) + 1 PROVE AddsBefore(more, k) = AddsBefore(pl, k)
  <2>1. \A j \in 1 .. k - 1 : more[j] = pl[j]
    BY <1>1
  <2>2. {j \in 1 .. k - 1 : more[j].kind = "add"} = {j \in 1 .. k - 1 : pl[j].kind = "add"}
    BY <2>1
  <2> QED BY <2>2 DEF AddsBefore
<1> QED BY <1>1, <1>2 DEF more

LEMMA CountUp ==
  ASSUME NEW k \in Nat
  PROVE  Cardinality(1 .. k) = k
<1>1. Cardinality(1 .. k) = IF 1 > k THEN 0 ELSE k - 1 + 1
  BY FS_Interval
<1> QED BY <1>1

LEMMA DrawStep ==
  ASSUME CorporaOK, Loaded, NEW u \in Mine, Draw(u)
  PROVE  CorporaOK'
<1> DEFINE c == CorpusOf(u)
           m == memo[u]
           p == pool[u]
           pl == plan[u]
           k == Len(pl)
           n == Len(p)
<1>1. /\ phase = "run" /\ drawing[u] = "yes"
      /\ (IF Bounded THEN pool[u] ELSE memo[u]) # <<>>
      /\ UNCHANGED <<setting, items, order, phase, cache, stored, ingest, memo, pool, drawing>>
  BY DEF Draw
<1>2. PICK op \in NextOps(u) : plan' = [plan EXCEPT ![u] = Append(@, op)]
  BY DEF Draw
<1>3. AllOn(Mine) /\ UserOK(u) /\ PhaseOK /\ CacheOK(cache) /\ setting \in Setting
      /\ c \in Seq(MemoryItem)
  BY LoadedFacts DEF CorporaOK
<1>4. UserGood(c, setting, stored[u], ingest[u], m, p) /\ PlanGood(c, setting, phase, m, p, pl, "yes")
  BY <1>1, <1>3 DEF UserOK
<1>5. /\ pl \in Seq(Op) /\ Drawable(c, setting, m, p)
      /\ PassGood(setting, p, pl) /\ SearchesGood(p, pl) /\ AddsGood(m, pl)
      /\ OnlyAdds(setting, pl)
  BY <1>4 DEF PlanGood
<1>6. Mine' = Mine /\ CorpusOf(u)' = c /\ Bounded = Limited(setting)
  BY <1>1, CorpusSame DEF Mine, Bounded, Limited
<1>7. op \in CASE setting.scenario = "add-load" -> {Add(Ring(m, k))}
               [] setting.scenario = "search-load" ->
                    {Search(Ring(p, Offsets(n, k \div n) + (k % n)))}
               [] setting.scenario = "mixed" -> {Search(Ring(p, Count(u, "search"))),
                                                 Add(Ring(m, Count(u, "add")))}
  BY DEF NextOps
<1>8. setting.scenario \in {"add-load", "search-load", "mixed"}
  BY <1>3, <1>5, CorporaAssumption DEF Drawable
<1>9. Count(u, "add") = AddsBefore(pl, k + 1) /\ Count(u, "search") \in Nat
      /\ Count(u, "add") \in Nat
  <2>1. DOMAIN pl = 1 .. k /\ k \in Nat /\ (k + 1) - 1 = k
    BY <1>5
  <2>2. \A kind : Count(u, kind) \in Nat
    <3>1. IsFiniteSet(1 .. k)
      BY <2>1, FS_Interval
    <3>2. ASSUME NEW kind PROVE Count(u, kind) \in Nat
      <4> DEFINE S == {i \in 1 .. k : pl[i].kind = kind}
      <4>1. S \in SUBSET (1 .. k)
        OBVIOUS
      <4>2. Count(u, kind) = Cardinality(S)
        BY <2>1 DEF Count
      <4> HIDE DEF S
      <4>3. IsFiniteSet(S)
        BY <3>1, <4>1, FS_Subset
      <4> QED BY <4>2, <4>3, FS_CardinalityType
    <3> QED BY <3>2
  <2>3. Count(u, "add") = AddsBefore(pl, k + 1)
    BY <2>1 DEF Count, AddsBefore
  <2> QED BY <2>2, <2>3
<1> HIDE DEF c, m, p, pl, k, n
<1>10. k = Len(pl) /\ k \in Nat /\ n = Len(p)
  BY <1>5 DEF k, n
\* What the plan draws from is there, and is not empty.
<1>11. setting.scenario # "search-load" => m \in Seq(MemoryItem) /\ m # <<>>
  BY <1>1, <1>3, <1>5, <1>6 DEF Drawable, Limited, m
<1>12. setting.scenario # "add-load" => p \in Seq(MemoryItem) /\ p # <<>> /\ n \in Nat \ {0}
  <2>1. ASSUME setting.scenario # "add-load"
        PROVE  Begins(p, c) /\ n = IF Limited(setting) THEN setting.limit ELSE Len(c)
    BY <1>5, <1>10, <2>1 DEF Drawable, PoolGood
  <2>2. setting.scenario # "add-load" => p \in Seq(MemoryItem)
    BY <2>1 DEF Begins
  <2>3. CASE Limited(setting)
    <3>1. p # <<>>
      BY <1>1, <1>6, <2>3 DEF p
    <3> QED BY <1>10, <2>2, <3>1
  <2>4. CASE ~Limited(setting)
    <3>1. c # <<>>
      BY <1>1, <1>5, <1>6, <2>4 DEF Drawable, m
    <3>2. Len(c) \in Nat \ {0}
      BY <1>3, <3>1
    <3>3. setting.scenario # "add-load" => n \in Nat \ {0}
      BY <2>1, <2>4, <3>2
    <3>4. p = <<>> => Len(p) = 0
      OBVIOUS
    <3> QED BY <1>10, <2>2, <3>3, <3>4
  <2> QED BY <2>3, <2>4
<1> DEFINE place == Offsets(n, k \div n) + (k % n)
<1>13. setting.scenario = "search-load" => place \in Nat
  <2>1. ASSUME setting.scenario = "search-load" PROVE place \in Nat
    <3>1. n \in Nat \ {0}
      BY <1>12, <2>1
    <3>2. k \div n \in Nat /\ k % n \in Nat
      BY <1>10, <3>1, DivMod
    <3>3. Offsets(n, k \div n) \in 0 .. n - 1
      BY <3>1, <3>2, OffsetsFacts
    <3> HIDE DEF place
    <3>4. \A x \in 0 .. n - 1 : \A y \in Nat : x + y \in Nat
      BY <3>1
    <3> QED BY <3>2, <3>3, <3>4 DEF place
  <2> QED BY <2>1
<1> HIDE DEF place
<1>14. \/ /\ setting.scenario # "search-load" /\ op = Add(Ring(m, AddsBefore(pl, k + 1)))
          /\ AddsBefore(pl, k + 1) \in Nat
       \/ setting.scenario = "search-load" /\ op = Search(Ring(p, place))
       \/ setting.scenario = "mixed" /\ op = Search(Ring(p, Count(u, "search")))
  <2>1. CASE setting.scenario = "add-load"
    <3>1. \A j \in 1 .. k : pl[j].kind = "add"
      BY <1>5, <1>10, <2>1 DEF OnlyAdds
    <3>2. (k + 1) - 1 = k /\ {j \in 1 .. k : pl[j].kind = "add"} = 1 .. k
      BY <1>10, <3>1
    <3>3. Cardinality(1 .. k) = k
      BY <1>10, CountUp
    <3>4. AddsBefore(pl, k + 1) = k
      BY <3>2, <3>3 DEF AddsBefore
    <3>5. op = Add(Ring(m, k))
      BY <1>7, <2>1
    <3> QED BY <1>10, <2>1, <3>4, <3>5
  <2>2. CASE setting.scenario = "search-load"
    BY <1>7, <2>2 DEF place
  <2>3. CASE setting.scenario = "mixed"
    BY <1>7, <1>9, <2>3
  <2> QED BY <1>8, <2>1, <2>2, <2>3
\* The next operation of each kind.
<1>15. /\ op \in Op /\ (op.kind = "search" => op.item \in Range(p))
       /\ op.kind = "add" => m # <<>> /\ op.item = Ring(m, AddsBefore(pl, k + 1))
       /\ setting.scenario = "add-load" => op.kind = "add"
       /\ setting.scenario = "search-load" => op = Search(Ring(p, place))
  <2>1. CASE /\ setting.scenario # "search-load" /\ op = Add(Ring(m, AddsBefore(pl, k + 1)))
             /\ AddsBefore(pl, k + 1) \in Nat
    <3>1. m # <<>> /\ Ring(m, AddsBefore(pl, k + 1)) \in MemoryItem
      BY <1>11, <2>1, RingFacts
    <3>2. op.kind = "add" /\ op.item = Ring(m, AddsBefore(pl, k + 1)) /\ op \in Op
      BY <2>1, <3>1 DEF Add, Op
    <3> QED BY <2>1, <3>1, <3>2
  <2>2. ASSUME setting.scenario \in {"search-load", "mixed"}, NEW i \in Nat,
               op = Search(Ring(p, i))
        PROVE  op \in Op /\ op.kind = "search" /\ op.item \in Range(p)
    <3>1. Ring(p, i) \in MemoryItem /\ Ring(p, i) \in Range(p)
      BY <1>12, <2>2, RingFacts
    <3> QED BY <2>2, <3>1 DEF Search, Op
  <2>3. CASE setting.scenario = "search-load" /\ op = Search(Ring(p, place))
    BY <1>13, <2>2, <2>3
  <2>4. CASE setting.scenario = "mixed" /\ op = Search(Ring(p, Count(u, "search")))
    BY <1>9, <2>2, <2>4
  <2> QED BY <1>14, <2>1, <2>3, <2>4
<1> DEFINE more == Append(pl, op)
<1>16. /\ more \in Seq(Op) /\ Len(more) = k + 1 /\ more[k + 1] = op
       /\ \A j \in 1 .. k : more[j] = pl[j]
       /\ \A j \in 1 .. k + 1 : AddsBefore(more, j) = AddsBefore(pl, j)
  BY <1>5, <1>10, <1>15, Appended
<1> HIDE DEF more
<1>17. \A j \in 1 .. Len(more) : j = k + 1 \/ j \in 1 .. k
  BY <1>10, <1>16
<1>18. PassGood(setting, p, more)
  <2>1. ASSUME setting.scenario = "search-load", NEW j \in 1 .. Len(more)
        PROVE  more[j] = Search(Ring(p, Offsets(n, (j - 1) \div n) + ((j - 1) % n)))
    <3>1. CASE j = k + 1
      <4>1. j - 1 = k
        BY <1>10, <3>1
      <4> QED BY <1>15, <1>16, <2>1, <3>1, <4>1 DEF place
    <3>2. CASE j \in 1 .. k
      <4>1. pl # <<>>
        BY <1>10, <3>2
      <4> QED BY <1>5, <1>10, <1>16, <2>1, <3>2, <4>1 DEF PassGood
    <3> QED BY <1>17, <3>1, <3>2
  <2> QED BY <1>10, <1>12, <2>1 DEF PassGood
<1>19. SearchesGood(p, more)
  BY <1>5, <1>10, <1>15, <1>16, <1>17 DEF SearchesGood
<1>20. AddsGood(m, more)
  <2>1. ASSUME NEW j \in 1 .. Len(more), more[j].kind = "add"
        PROVE  m # <<>> /\ more[j].item = Ring(m, AddsBefore(more, j))
    <3>1. CASE j = k + 1
      <4>1. AddsBefore(more, j) = AddsBefore(pl, k + 1)
        BY <1>10, <1>16, <3>1
      <4> QED BY <1>15, <1>16, <2>1, <3>1, <4>1
    <3>2. CASE j \in 1 .. k
      <4>1. more[j] = pl[j] /\ AddsBefore(more, j) = AddsBefore(pl, j)
        BY <1>10, <1>16, <3>2
      <4> QED BY <1>5, <1>10, <2>1, <3>2, <4>1 DEF AddsGood
    <3> QED BY <1>17, <3>1, <3>2
  <2> QED BY <2>1 DEF AddsGood
<1>21. OnlyAdds(setting, more)
  BY <1>5, <1>10, <1>15, <1>16, <1>17 DEF OnlyAdds
<1>22. PlanGood(c, setting, phase, m, p, more, "yes")
  BY <1>1, <1>5, <1>16, <1>18, <1>19, <1>20, <1>21 DEF PlanGood
<1>23. IsOn(plan', Mine) /\ plan'[u] = more /\ \A w \in Mine \ {u} : plan'[w] = plan[w]
  BY <1>2, <1>3 DEF AllOn, IsOn, more, pl
<1>24. UserOK(u)'
  BY <1>1, <1>4, <1>6, <1>22, <1>23 DEF UserOK, m, p
<1>25. AllOn(Mine)' /\ CacheOK(cache)'
  BY <1>1, <1>3, <1>6, <1>23 DEF AllOn, CacheOK
<1>26. PhaseOK'
  <2>1. \A w : CorpusOf(w)' = CorpusOf(w)
    BY <1>1, CorpusSame
  <2> QED BY <1>1, <1>3, <1>6, <2>1 DEF PhaseOK
<1> QED BY <1>1, <1>6, <1>23, <1>24, <1>25, <1>26, OneUser

LEMMA NextSessionStep ==
  ASSUME CorporaOK, Loaded, NEW u \in Mine, NextSession(u)
  PROVE  CorporaOK'
<1>1. /\ phase = "run" /\ plan' = [plan EXCEPT ![u] = <<>>] /\ drawing' = [drawing EXCEPT ![u] = "no"]
      /\ UNCHANGED <<setting, items, order, phase, cache, stored, ingest, memo, pool>>
  BY DEF NextSession
<1>2. AllOn(Mine) /\ UserOK(u) /\ PhaseOK /\ CacheOK(cache)
  BY LoadedFacts DEF CorporaOK
<1>3. Mine' = Mine /\ \A w : CorpusOf(w)' = CorpusOf(w)
  BY <1>1, CorpusSame DEF Mine
<1>4. /\ IsOn(plan', Mine) /\ IsOn(drawing', Mine) /\ plan'[u] = <<>> /\ drawing'[u] = "no"
      /\ \A w \in Mine \ {u} : plan'[w] = plan[w] /\ drawing'[w] = drawing[w]
  BY <1>1, <1>2 DEF AllOn, IsOn
<1>5. PlanGood(CorpusOf(u), setting, phase, memo[u], pool[u], <<>>, "no")
  <2>1. /\ PassGood(setting, pool[u], <<>>) /\ SearchesGood(pool[u], <<>>)
        /\ AddsGood(memo[u], <<>>) /\ OnlyAdds(setting, <<>>)
    BY DEF PassGood, SearchesGood, AddsGood, OnlyAdds
  <2>2. <<>> \in Seq(Op)
    OBVIOUS
  <2> QED BY <2>1, <2>2 DEF PlanGood
<1>6. UserOK(u)'
  BY <1>1, <1>2, <1>3, <1>4, <1>5 DEF UserOK
<1>7. AllOn(Mine)' /\ CacheOK(cache)' /\ PhaseOK'
  BY <1>1, <1>2, <1>3, <1>4 DEF AllOn, CacheOK, PhaseOK
<1> QED BY <1>1, <1>3, <1>4, <1>6, <1>7, OneUser

-----------------------------------------------------------------------------
(* Every action of the process.                                            *)

\* The memory items of the conversations of a sample can be counted.
LEMMA SampleItems ==
  ASSUME sessions \in Seq(Seq(Turn))
  PROVE  LET all == FlattenSeq(sessions)
         IN  SumFunction([i \in DOMAIN all |-> all[i].items]) \in Nat
<1> DEFINE all == FlattenSeq(sessions)
           f == [i \in DOMAIN all |-> all[i].items]
<1>1. all \in Seq(Turn)
  <2>1. CASE sessions = <<>>
    <3>1. all = <<>>
      BY <2>1, Zenon DEF FlattenSeq
    <3>2. <<>> \in Seq(Turn)
      OBVIOUS
    <3> HIDE DEF all
    <3> QED BY <3>1, <3>2
  <2>2. CASE sessions # <<>>
    BY <2>2, FlattenTurns
  <2> QED BY <2>1, <2>2
<1> HIDE DEF all
<1>2. DOMAIN all = 1 .. Len(all) /\ Len(all) \in Nat /\ \A i \in DOMAIN all : all[i].items \in Nat
  <2>1. \A i \in DOMAIN all : all[i] \in Turn
    BY <1>1
  <2> QED BY <1>1, <2>1 DEF Turn
<1>3. IsFiniteSet(DOMAIN all)
  BY <1>2, FS_Interval
<1>4. DOMAIN f = DOMAIN all /\ \A i \in DOMAIN all : f[i] \in Nat
  BY <1>2
<1>5. SumFunction(f) = SumFunctionOnSet(f, DOMAIN f)
  BY DEF SumFunction, SumFunctionOnSet, FoldFunction
<1> HIDE DEF f
<1>6. SumFunctionOnSet(f, DOMAIN f) \in Nat
  BY <1>3, <1>4, SumNat
<1> QED BY <1>5, <1>6 DEF f, all

LEMMA ItemCountNat ==
  ASSUME msgs \in Seq(Message)
  PROVE  ItemCount(msgs) \in Nat
<1>1. DOMAIN msgs = 1 .. Len(msgs) /\ Len(msgs) \in Nat
  OBVIOUS
<1>2. IsFiniteSet(DOMAIN msgs)
  BY <1>1, FS_Interval
<1>3. ItemMessages(msgs) \in SUBSET (DOMAIN msgs)
  BY DEF ItemMessages
<1>4. IsFiniteSet(ItemMessages(msgs))
  BY <1>2, <1>3, FS_Subset
<1> QED BY <1>4, FS_CardinalityType DEF ItemCount

\* The rows are read.
LEMMA ReadingStep ==
  ASSUME RecordInv, ReplayInv, CorporaOK,
         \/ BeginRecord \/ ReadRecord \/ CloseRecord
         \/ BeginSample \/ ReadTurn \/ EndConversation \/ EndSample
  PROVE  CorporaOK'
<1>1. items \in Seq(Nat) /\ CacheOK(cache)
  BY DEF CorporaOK
<1>2. ASSUME phase = "read", UNCHANGED <<order, stored, cache>>, phase' \in {"read", "refused"},
             items' \in Seq(Nat)
      PROVE  CorporaOK'
  <2>1. CacheOK(cache)'
    BY <1>1, <1>2 DEF CacheOK
  <2> QED BY <1>2, <2>1, CorporaWhileReading
<1>3. ASSUME NEW n \in Nat, phase = "read", Close(n) PROVE CorporaOK'
  <2>1. items' \in Seq(Nat)
    BY <1>1, <1>3 DEF Close
  <2> QED BY <1>2, <1>3, <2>1 DEF Close
<1>4. CASE BeginRecord
  <2>1. PICK r \in ReadRow(cache, Len(items) + 1) :
          /\ cache' = r.cache /\ phase' \in {"read", "refused"}
          /\ phase = "read" /\ UNCHANGED <<items, order, stored>>
    BY <1>4 DEF BeginRecord, Source, Refuse
  <2>2. Len(items) + 1 \in Nat \ {0}
    BY <1>1
  <2>3. CacheOK(r.cache)
    BY <1>1, <2>2, RowRead
  <2>4. CacheOK(cache)'
    BY <2>1, <2>3 DEF CacheOK
  <2> QED BY <1>1, <2>1, <2>4, CorporaWhileReading
<1>5. CASE CloseRecord
  <2>1. phase = "read"
    BY <1>5 DEF CloseRecord, Source
  <2>2. CASE verdict = "accepted" /\ Close(ItemCount(msgs))
    <3>1. msgs \in Seq(Message)
      BY <2>2 DEF RecordInv
    <3> QED BY <1>3, <2>1, <2>2, <3>1, ItemCountNat
  <2>3. CASE Refuse /\ OnlyPhase
    BY <1>1, <1>2, <2>1, <2>3 DEF Refuse, OnlyPhase
  <2> QED BY <1>5, <2>2, <2>3 DEF CloseRecord
<1>6. CASE EndSample
  <2>1. phase = "read"
    BY <1>6 DEF EndSample, Source
  <2>2. sessions \in Seq(Seq(Turn))
    BY DEF ReplayInv
  <2>3. PICK n \in Nat : Close(n)
    BY <1>6, <2>2, SampleItems DEF EndSample
  <2> QED BY <1>3, <2>1, <2>3
<1>7. CASE ReadRecord \/ BeginSample \/ ReadTurn \/ EndConversation
  BY <1>7, CorporaUnchanged DEF ReadRecord, BeginSample, ReadTurn, EndConversation
<1> QED BY <1>4, <1>5, <1>6, <1>7

RowsThere == /\ items # <<>> /\ items \in Seq(Nat) /\ Shuffled(order, Len(items))
             /\ setting.users \in Nat \ {0}
CorporaThere == \A u \in User : CorpusOf(u) \in Seq(MemoryItem)

LEMMA CorporaDealt == RowsThere => CorporaThere
<1> SUFFICES ASSUME items # <<>>, items \in Seq(Nat), Shuffled(order, Len(items)),
                    setting.users \in Nat \ {0}, NEW u \in User
             PROVE  CorpusOf(u) \in Seq(MemoryItem)
  BY DEF RowsThere, CorporaThere
<1>1. RowsOf(u) \in Seq(Rows)
  BY DealtToAll
<1> QED BY <1>1, CorpusFacts

LEMMA DealStep ==
  ASSUME CorporaOK, Deal
  PROVE  CorporaOK'
<1>1. PICK s \in Setting : Dealt(s, items)
  BY DEF Deal
<1>2. items \in Seq(Nat) /\ CacheOK(cache) /\ items # <<>>
  BY DEF CorporaOK, Deal
<1> DEFINE mine == Shard(s)
<1>3. /\ setting' = s /\ phase' = "validate" /\ items' = items /\ cache' = cache
      /\ order' \in {f \in [Rows -> Rows] : \A i, j \in Rows : f[i] = f[j] => i = j}
      /\ stored' = [u \in mine |-> <<>>] /\ ingest' = [u \in mine |-> "todo"]
      /\ memo' = [u \in mine |-> NotBuilt] /\ pool' = [u \in mine |-> NotBuilt]
      /\ plan' = [u \in mine |-> <<>>] /\ drawing' = [u \in mine |-> "no"]
  BY <1>1 DEF Dealt
<1> HIDE DEF mine
<1>4. Rows = 1 .. Len(items) /\ Len(items) \in Nat \ {0}
  BY <1>2 DEF Rows
<1>5. Shuffled(order', Len(items))
  BY <1>3, <1>4 DEF Shuffled
<1>6. Loaded'
  <2>1. order' \in Seq(1 .. Len(items)) /\ Len(order') = Len(items)
    BY <1>4, <1>5, ShuffledFacts
  <2> QED BY <1>4, <2>1 DEF Loaded
<1>7. CacheOK(cache)' /\ (items \in Seq(Nat))' /\ phase' # "read"
  BY <1>2, <1>3 DEF CacheOK
<1>8. AllOn(mine)' /\ Mine' = mine
  <2>1. /\ IsOn(stored', mine) /\ IsOn(ingest', mine) /\ IsOn(memo', mine)
        /\ IsOn(pool', mine) /\ IsOn(plan', mine) /\ IsOn(drawing', mine)
        /\ DOMAIN stored' = mine
    BY <1>3 DEF IsOn
  <2> QED BY <2>1 DEF AllOn, Mine
<1>9. DealtOK'
  <2>1. mine = Shard(setting)' /\ setting' \in Setting
    BY <1>3 DEF mine
  <2> QED BY <1>2, <1>3, <1>5, <1>8, <2>1 DEF DealtOK
<1>10. PhaseOK'
  BY <1>3 DEF PhaseOK
<1>11. ASSUME NEW u \in mine PROVE UserOK(u)'
  <2> DEFINE c == CorpusOf(u)'
  <2>1. /\ stored'[u] = <<>> /\ ingest'[u] = "todo" /\ memo'[u] = NotBuilt
        /\ pool'[u] = NotBuilt /\ plan'[u] = <<>> /\ drawing'[u] = "no"
    BY <1>3
  <2>2. c \in Seq(MemoryItem)
    <3>1. setting'.users \in Nat \ {0} /\ u \in (0 .. setting'.users - 1)
      BY <1>3, CorporaAssumption DEF mine, Shard
    <3>2. u \in User'
      BY <3>1 DEF User
    <3>3. RowsThere'
      BY <1>2, <1>3, <1>5, <3>1 DEF RowsThere
    <3>4. CorporaThere'
      BY <3>3, CorporaDealt, PTL
    <3> QED BY <3>2, <3>4 DEF CorporaThere
  <2> HIDE DEF c
  <2>3. Begins(<<>>, c)
    BY <2>2 DEF Begins
  <2>4. setting'.exact \in Nat
    BY <1>3, CorporaAssumption
  <2>5. UserGood(c, setting', <<>>, "todo", NotBuilt, NotBuilt)
    BY <2>3, <2>4 DEF UserGood
  <2>6. PlanGood(c, setting', phase', NotBuilt, NotBuilt, <<>>, "no")
    BY DEF PlanGood, PassGood, SearchesGood, AddsGood, OnlyAdds
  <2> QED BY <2>1, <2>5, <2>6 DEF UserOK, c
<1> QED BY <1>6, <1>7, <1>8, <1>9, <1>10, <1>11 DEF CorporaOK

\* The process leaves the validation or the ingest.
LEMMA ValidateReplayStep ==
  ASSUME CorporaOK, Loaded, ValidateReplay
  PROVE  CorporaOK'
<1>1. /\ phase = "validate" /\ setting.scenario = "chat-replay" /\ CacheOK(cache)
      /\ UNCHANGED <<setting, items, order, cache, stored, ingest, memo, pool, plan, drawing>>
      /\ \/ phase' = "refused"
         \/ phase' = IF setting.preingest = "none" THEN "run" ELSE "ingest"
  BY DEF ValidateReplay, Dialogues, OnlyPhase, Refuse, CorporaOK
<1>2. PhaseOK'
  BY <1>1 DEF PhaseOK, Limited
<1>3. CacheOK(cache)'
  BY <1>1 DEF CacheOK
<1> QED BY <1>1, <1>2, <1>3, PhaseMoves

LEMMA ValidatedStep ==
  ASSUME CorporaOK, Loaded, Validated
  PROVE  CorporaOK'
<1>1. /\ phase = "validate" /\ Unbuilt = {} /\ CacheOK(cache)
      /\ UNCHANGED <<setting, items, order, cache, stored, ingest, memo, pool, plan, drawing>>
      /\ phase' = IF setting.preingest = "none" THEN "run" ELSE "ingest"
  BY DEF Validated, CorporaOK
<1>2. Mine' = Mine /\ \A u : CorpusOf(u)' = CorpusOf(u)
  BY <1>1, CorpusSame DEF Mine
<1>3. ASSUME Limited(setting), NEW u \in Mine PROVE PoolGood(CorpusOf(u), setting, pool[u])
  <2>1. pool[u] # NotBuilt
    BY <1>1, <1>3 DEF Unbuilt, Bounded, Limited
  <2>2. UserGood(CorpusOf(u), setting, stored[u], ingest[u], memo[u], pool[u])
    BY DEF CorporaOK, UserOK
  <2> QED BY <2>1, <2>2 DEF UserGood
<1>4. PhaseOK'
  BY <1>1, <1>2, <1>3 DEF PhaseOK
<1>5. CacheOK(cache)'
  BY <1>1 DEF CacheOK
<1> QED BY <1>1, <1>4, <1>5, PhaseMoves

LEMMA EndIngestStep ==
  ASSUME CorporaOK, Loaded, EndIngest
  PROVE  CorporaOK'
<1>1. /\ phase = "ingest" /\ CacheOK(cache) /\ PhaseOK
      /\ UNCHANGED <<setting, items, order, cache, stored, ingest, memo, pool, plan, drawing>>
      /\ phase' = "refused" \/ (phase' = "run" /\ \A u \in Mine : ingest[u] = "done")
  BY DEF EndIngest, Ingested, Refuse, CorporaOK
<1>2. Mine' = Mine /\ \A u : CorpusOf(u)' = CorpusOf(u)
  BY <1>1, CorpusSame DEF Mine
<1>3. PhaseOK'
  BY <1>1, <1>2 DEF PhaseOK
<1>4. CacheOK(cache)'
  BY <1>1 DEF CacheOK
<1> QED BY <1>1, <1>3, <1>4, PhaseMoves

\* Before the rows are dealt the process reads or has refused.
LEMMA PhaseLoaded ==
  ASSUME CorporaOK
  PROVE  /\ phase \notin {"read", "refused"} => Loaded
         /\ Mine # {} => Loaded
BY DEF CorporaOK

LEMMA CorpusStepKeeps ==
  ASSUME CorporaOK, CorpusStep
  PROVE  CorporaOK'
<1>1. CASE BuildPool
  <2>1. Loaded
    BY <1>1, PhaseLoaded DEF BuildPool
  <2> QED BY <1>1, <2>1, BuildPoolStep
<1>2. CASE Validated
  <2>1. Loaded
    BY <1>2, PhaseLoaded DEF Validated
  <2> QED BY <1>2, <2>1, ValidatedStep
<1>3. CASE EndIngest
  <2>1. Loaded
    BY <1>3, PhaseLoaded DEF EndIngest
  <2> QED BY <1>3, <2>1, EndIngestStep
<1>4. ASSUME NEW u \in Mine,
             IngestBatch(u) \/ IngestShare(u) \/ Start(u) \/ Draw(u) \/ NextSession(u)
      PROVE  CorporaOK'
  <2>1. Loaded
    BY PhaseLoaded
  <2> QED BY <1>4, <2>1, IngestBatchStep, IngestShareStep, StartStep, DrawStep, NextSessionStep
<1> QED BY <1>1, <1>2, <1>3, <1>4 DEF CorpusStep

LEMMA CorporaStep ==
  ASSUME RecordInv, ReplayInv, CorporaOK, [Next]_vars
  PROVE  CorporaOK'
<1>1. CASE \/ BeginRecord \/ ReadRecord \/ CloseRecord
           \/ BeginSample \/ ReadTurn \/ EndConversation \/ EndSample
  BY <1>1, ReadingStep
<1>2. CASE Deal
  BY <1>2, DealStep
<1>3. CASE ValidateReplay
  <2>1. Loaded
    BY <1>3, PhaseLoaded DEF ValidateReplay
  <2> QED BY <1>3, <2>1, ValidateReplayStep
<1>4. CASE DrawFromCorpus
  BY <1>4, CorpusStepKeeps DEF DrawFromCorpus
<1>5. CASE StartReplay \/ ReplayTurn \/ Over \/ UNCHANGED vars
  BY <1>5, CorporaUnchanged DEF StartReplay, ReplayTurn, Over, vars
<1> QED BY <1>1, <1>2, <1>3, <1>4, <1>5 DEF Next

LEMMA CorporaInit ==
  ASSUME Init
  PROVE  CorporaOK
BY CorporaAssumption DEF Init, CorporaOK, CacheOK, Empty, Loaded, Mine

-----------------------------------------------------------------------------
(* What follows for the corpora and the plans.                             *)

LEMMA CorporaAreTrue ==
  ASSUME CorporaOK
  PROVE  CorpusTrue
<1> SUFFICES ASSUME Loaded PROVE CorpusTrue
  BY DEF CorpusTrue
<1>1. RowsDealt
  BY LoadedFacts
<1>2. ASSUME NEW u \in Mine
      PROVE  /\ IsPrefixOf(stored[u], CorpusOf(u))
             /\ ingest[u] = "done" =>
                  CASE setting.preingest = "exact" -> Len(stored[u]) = setting.exact
                    [] setting.preingest = "all"   -> stored[u] = CorpusOf(u)
                    [] OTHER -> CorpusOf(u) # <<>> => stored[u] # <<>>
             /\ memo[u] # NotBuilt => memo[u] = CorpusOf(u)
             /\ pool[u] # NotBuilt => /\ IsPrefixOf(pool[u], CorpusOf(u))
                                      /\ Len(pool[u]) = IF Bounded THEN setting.limit
                                                        ELSE Len(CorpusOf(u))
  <2> DEFINE c == CorpusOf(u)
  <2>1. c \in Seq(MemoryItem)
    BY LoadedFacts
  <2>2. UserGood(c, setting, stored[u], ingest[u], memo[u], pool[u])
    BY DEF CorporaOK, UserOK
  <2> HIDE DEF c
  <2>3. IsPrefixOf(stored[u], c)
    BY <2>1, <2>2, BeginsFacts DEF UserGood
  <2>4. ingest[u] = "done" =>
          CASE setting.preingest = "exact" -> Len(stored[u]) = setting.exact
            [] setting.preingest = "all"   -> stored[u] = c
            [] OTHER -> c # <<>> => stored[u] # <<>>
    BY <2>2 DEF UserGood
  <2>5. memo[u] # NotBuilt => memo[u] = c
    BY <2>2 DEF UserGood
  <2>6. ASSUME pool[u] # NotBuilt
        PROVE  /\ IsPrefixOf(pool[u], c)
               /\ Len(pool[u]) = IF Bounded THEN setting.limit ELSE Len(c)
    <3>1. Begins(pool[u], c) /\ Len(pool[u]) = IF Limited(setting) THEN setting.limit ELSE Len(c)
      BY <2>2, <2>6 DEF UserGood, PoolGood
    <3> QED BY <2>1, <3>1, BeginsFacts DEF Bounded, Limited
  <2> QED BY <2>3, <2>4, <2>5, <2>6 DEF c
<1> QED BY <1>1, <1>2 DEF CorpusTrue

\* What is known of a plan that has operations.
LEMMA PlanFacts ==
  ASSUME CorporaOK, Loaded, NEW u \in Mine, plan[u] # <<>>
  PROVE  /\ phase = "run" /\ Drawable(CorpusOf(u), setting, memo[u], pool[u])
         /\ plan[u] \in Seq(Op) /\ PassGood(setting, pool[u], plan[u])
         /\ SearchesGood(pool[u], plan[u]) /\ AddsGood(memo[u], plan[u])
         /\ OnlyAdds(setting, plan[u])
<1>1. PlanGood(CorpusOf(u), setting, phase, memo[u], pool[u], plan[u], drawing[u])
  BY DEF CorporaOK, UserOK
<1>2. drawing[u] = "yes" /\ phase = "run"
  BY <1>1 DEF PlanGood
<1> QED BY <1>1, <1>2 DEF PlanGood

LEMMA SearchesStored ==
  ASSUME CorporaOK, Loaded
  PROVE  QueriesStored
<1> SUFFICES ASSUME NEW u \in Mine, NEW k \in DOMAIN plan[u], plan[u][k].kind = "search", Covered
             PROVE  plan[u][k].item \in Range(stored[u])
  BY DEF QueriesStored
<1> DEFINE c == CorpusOf(u)
           p == pool[u]
           s == stored[u]
<1>1. plan[u] # <<>>
  OBVIOUS
<1>2. /\ phase = "run" /\ Drawable(c, setting, memo[u], p) /\ plan[u] \in Seq(Op)
      /\ SearchesGood(p, plan[u]) /\ OnlyAdds(setting, plan[u])
  BY <1>1, PlanFacts
<1>3. DOMAIN plan[u] = 1 .. Len(plan[u])
  BY <1>2
<1>4. plan[u][k].item \in Range(p) /\ setting.scenario # "add-load"
  BY <1>2, <1>3 DEF SearchesGood, OnlyAdds
<1>5. PoolGood(c, setting, p)
  BY <1>2, <1>4 DEF Drawable
<1>6. c \in Seq(MemoryItem) /\ UserGood(c, setting, s, ingest[u], memo[u], p) /\ PhaseOK
      /\ setting \in Setting
  BY LoadedFacts DEF CorporaOK, UserOK
<1>7. ingest[u] = "done"
  BY <1>2, <1>6 DEF PhaseOK, Covered
<1> HIDE DEF c, p, s
<1>8. /\ p \in Seq(MemoryItem) /\ Len(p) \in 0 .. Len(c) /\ DOMAIN p = 1 .. Len(p)
      /\ s \in Seq(MemoryItem) /\ Len(s) \in 0 .. Len(c) /\ DOMAIN s = 1 .. Len(s)
      /\ \A i \in 1 .. Len(p) : p[i] = c[i]
      /\ \A i \in 1 .. Len(s) : s[i] = c[i]
  BY <1>5, <1>6, BeginsFacts DEF PoolGood, UserGood, Begins
<1>9. Len(p) <= Len(s)
  <2>1. CASE setting.preingest = "all"
    <3>1. s = c
      BY <1>6, <1>7, <2>1 DEF UserGood
    <3> QED BY <1>8, <3>1
  <2>2. CASE setting.preingest = "exact" /\ Bounded /\ setting.limit <= setting.exact
    <3>1. Len(s) = setting.exact
      BY <1>6, <1>7, <2>2 DEF UserGood
    <3>2. Len(p) = setting.limit
      BY <1>5, <2>2 DEF PoolGood, Bounded, Limited
    <3> QED BY <2>2, <3>1, <3>2
  <2> QED BY <2>1, <2>2 DEF Covered
<1>10. PICK i \in 1 .. Len(p) : plan[u][k].item = p[i]
  BY <1>4, <1>8 DEF Range, p
<1>11. i \in 1 .. Len(s) /\ s[i] = p[i]
  BY <1>8, <1>9
<1>12. plan[u][k].item \in Range(s)
  BY <1>8, <1>10, <1>11 DEF Range
<1> QED BY <1>12 DEF s

\* Going round a ring of n places from any number, every place is met within n steps.
LEMMA RoundTrip ==
  ASSUME NEW n \in Nat \ {0}, NEW a \in Nat, NEW i \in 0 .. n - 1
  PROVE  \E r \in 0 .. n - 1 : (a + r) % n = i
<1> DEFINE q == a \div n
           o == a % n
           r == IF i >= o THEN i - o ELSE i - o + n
           b == a + r
<1>1. q \in Nat /\ o \in Nat /\ o < n /\ a = n * q + o
  BY DivMod
<1> HIDE DEF q, o
<1>2. r \in 0 .. n - 1
  BY <1>1
<1>3. PICK p \in Int : b = n * p + i
  <2>1. CASE i >= o
    <3>1. n * q \in Int
      BY <1>1
    <3>2. b = n * q + i
      BY <1>1, <2>1, <3>1
    <3> QED BY <1>1, <3>2
  <2>2. CASE ~(i >= o)
    <3>1. n * q \in Int /\ n * (q + 1) = n * q + n
      BY <1>1
    <3>2. b = n * (q + 1) + i
      BY <1>1, <2>2, <3>1
    <3>3. q + 1 \in Int
      BY <1>1
    <3> HIDE DEF b
    <3> QED BY <3>2, <3>3
  <2> QED BY <2>1, <2>2
<1> HIDE DEF r
<1>4. b \in Nat
  BY <1>2
<1>5. b = a + r
  OBVIOUS
<1> HIDE DEF b
<1> DEFINE x == b \div n
           y == b % n
<1>6. x \in Nat /\ y \in Nat /\ y < n /\ b = n * x + y
  BY <1>4, DivMod
<1> HIDE DEF x, y
<1>7. n * x + y = n * p + i /\ x \in Int /\ y \in Int /\ i \in Int /\ 0 <= y /\ 0 <= i /\ i < n
  BY <1>3, <1>6
<1>8. y = i
  BY <1>6, <1>7, OneDivision
<1> QED BY <1>2, <1>5, <1>8 DEF y

\* The operations of a pass, by their places: the next n of the ring.
LEMMA PassPlaces ==
  ASSUME NEW n \in Nat \ {0}, NEW pass \in Nat, NEW r \in 0 .. n - 1, NEW k,
         k = pass * n + 1 + r
  PROVE  /\ (k - 1) \div n = pass /\ (k - 1) % n = r
         /\ k \in pass * n + 1 .. (pass + 1) * n /\ k \in 1 .. (pass + 1) * n
<1> DEFINE b == pass * n
           a == k - 1
           x == a \div n
           y == a % n
<1>1. (pass + 1) * n = b + n /\ b = n * pass /\ b \in Nat
  OBVIOUS
<1>2. k = b + 1 + r
  OBVIOUS
<1> HIDE DEF b
<1>3. k \in b + 1 .. b + n /\ k \in 1 .. b + n /\ a \in Nat /\ a = n * pass + r
  BY <1>1, <1>2
<1> HIDE DEF a
<1>4. x \in Nat /\ y \in Nat /\ y < n /\ a = n * x + y
  BY <1>3, DivMod
<1> HIDE DEF x, y
<1>5. n * x + y = n * pass + r
  BY <1>3, <1>4
<1>6. x = pass /\ y = r
  BY <1>4, <1>5, OneDivision
<1> QED BY <1>1, <1>3, <1>6 DEF a, b, x, y

LEMMA PassesAreWhole ==
  ASSUME CorporaOK, Loaded
  PROVE  PassesWhole
<1> SUFFICES ASSUME NEW u \in Mine, setting.scenario = "search-load"
             PROVE  LET n == Len(pool[u])
                        Asked(pass) == {plan[u][k].item : k \in pass * n + 1 .. (pass + 1) * n}
                    IN  \A pass \in 0 .. MaxOps : (pass + 1) * n <= Len(plan[u]) /\ n > 0 =>
                          /\ Asked(pass) = Range(pool[u])
                          /\ pass > 0 /\ n > 1 =>
                               plan[u][pass * n + 1] # plan[u][(pass - 1) * n + 1]
  BY DEF PassesWhole
<1> DEFINE c == CorpusOf(u)
           p == pool[u]
           pl == plan[u]
           n == Len(p)
           Asked(pass) == {pl[k].item : k \in pass * n + 1 .. (pass + 1) * n}
<1>1. pl \in Seq(Op)
  BY DEF CorporaOK, UserOK, PlanGood
<1>2. Len(pl) \in Nat /\ (pl = <<>> => Len(pl) = 0)
  BY <1>1
<1>3. pl # <<>> => /\ Drawable(c, setting, memo[u], p) /\ PassGood(setting, p, pl)
                   /\ c \in Seq(MemoryItem) /\ Distinct(c)
  BY LoadedFacts, PlanFacts
<1> HIDE DEF c, p, pl, n
<1>4. pl # <<>> =>
        /\ p \in Seq(MemoryItem) /\ p # <<>> /\ n \in Nat \ {0} /\ Distinct(p)
        /\ \A k \in 1 .. Len(pl) : pl[k] = Search(Ring(p, Offsets(n, (k - 1) \div n) + ((k - 1) % n)))
  <2> SUFFICES ASSUME pl # <<>>
               PROVE  /\ p \in Seq(MemoryItem) /\ p # <<>> /\ n \in Nat \ {0} /\ Distinct(p)
                      /\ \A k \in 1 .. Len(pl) :
                           pl[k] = Search(Ring(p, Offsets(n, (k - 1) \div n) + ((k - 1) % n)))
    OBVIOUS
  <2>1. Begins(p, c)
    BY <1>3 DEF Drawable, PoolGood
  <2>2. p # <<>> /\ \A k \in 1 .. Len(pl) :
                      pl[k] = Search(Ring(p, Offsets(n, (k - 1) \div n) + ((k - 1) % n)))
    BY <1>3 DEF PassGood, n
  <2>3. /\ p \in Seq(MemoryItem) /\ Len(p) \in 0 .. Len(c) /\ DOMAIN p = 1 .. Len(p)
        /\ \A i \in 1 .. Len(p) : p[i] = c[i]
        /\ DOMAIN c = 1 .. Len(c) /\ Len(c) \in Nat
    BY <1>3, <2>1, BeginsFacts DEF Begins
  <2>4. n \in Nat \ {0}
    BY <2>2, <2>3 DEF n
  <2>5. Distinct(p)
    <3> SUFFICES ASSUME NEW i \in 1 .. Len(p), NEW j \in 1 .. Len(p), p[i] = p[j] PROVE i = j
      BY <2>3 DEF Distinct
    <3>1. i \in DOMAIN c /\ j \in DOMAIN c /\ c[i] = c[j]
      BY <2>3
    <3> QED BY <1>3, <3>1 DEF Distinct
  <2> QED BY <2>2, <2>3, <2>4, <2>5
\* The operations of a pass.
<1>5. ASSUME NEW pass \in Nat, (pass + 1) * n <= Len(pl), n \in Nat \ {0}
      PROVE  /\ p \in Seq(MemoryItem) /\ p # <<>> /\ Distinct(p) /\ Offsets(n, pass) \in 0 .. n - 1
             /\ \A r \in 0 .. n - 1 :
                  pl[pass * n + 1 + r] = Search(Ring(p, Offsets(n, pass) + r))
  <2>1. (pass + 1) * n = pass * n + n /\ pass * n \in Nat
    BY <1>5
  <2>2. pl # <<>>
    BY <1>2, <1>5, <2>1
  <2>3. Offsets(n, pass) \in 0 .. n - 1
    BY <1>5, OffsetsFacts
  <2>4. ASSUME NEW r \in 0 .. n - 1
        PROVE  pl[pass * n + 1 + r] = Search(Ring(p, Offsets(n, pass) + r))
    <3> DEFINE k == pass * n + 1 + r
    <3>1. k = pass * n + 1 + r
      OBVIOUS
    <3> HIDE DEF k
    <3>2. (k - 1) \div n = pass /\ (k - 1) % n = r /\ k \in 1 .. (pass + 1) * n
      BY <1>5, <3>1, PassPlaces
    <3>3. k \in 1 .. Len(pl)
      <4>1. \A e \in Nat : \A x \in 1 .. e : e <= Len(pl) => x \in 1 .. Len(pl)
        BY <1>2
      <4>2. (pass + 1) * n \in Nat
        BY <1>5, <2>1
      <4> QED BY <1>5, <3>2, <4>1, <4>2
    <3>4. pl[k] = Search(Ring(p, Offsets(n, pass) + r))
      BY <1>4, <2>2, <3>2, <3>3
    <3> QED BY <3>1, <3>4
  <2> QED BY <1>4, <2>2, <2>3, <2>4
<1>6. ASSUME NEW pass \in Nat, (pass + 1) * n <= Len(pl), n \in Nat \ {0}
      PROVE  Asked(pass) = Range(p)
  <2> DEFINE o == Offsets(n, pass)
  <2>1. /\ p \in Seq(MemoryItem) /\ p # <<>> /\ o \in 0 .. n - 1
        /\ \A r \in 0 .. n - 1 : pl[pass * n + 1 + r] = Search(Ring(p, o + r))
    BY <1>5, <1>6
  <2>2. /\ pass * n \in Nat /\ (pass + 1) * n = pass * n + n
        /\ DOMAIN p = 1 .. n
    BY <1>6, <2>1 DEF n
  <2> DEFINE b == pass * n
  <2>3. /\ pass * n = b /\ (pass + 1) * n = b + n /\ b \in Nat
        /\ \A r \in 0 .. n - 1 : pl[b + 1 + r] = Search(Ring(p, o + r))
        /\ Asked(pass) = {pl[k].item : k \in b + 1 .. b + n}
    BY <2>1, <2>2
  <2> HIDE DEF o, b, Asked
  <2>4. ASSUME NEW k \in b + 1 .. b + n PROVE pl[k].item \in Range(p)
    <3> DEFINE r == k - (b + 1)
    <3>1. r \in 0 .. n - 1 /\ b + 1 + r = k
      BY <1>6, <2>3
    <3> HIDE DEF r
    <3>2. o + r \in Nat
      BY <1>6, <2>1, <3>1
    <3>3. pl[k] = Search(Ring(p, o + r))
      BY <2>3, <3>1
    <3>4. Ring(p, o + r) \in Range(p)
      BY <2>1, <3>2, RingFacts
    <3> QED BY <3>3, <3>4 DEF Search
  <2>5. ASSUME NEW i \in 1 .. n PROVE p[i] \in Asked(pass)
    <3>1. i - 1 \in 0 .. n - 1 /\ o \in Nat
      BY <1>6, <2>1
    <3>2. PICK r \in 0 .. n - 1 : (o + r) % n = i - 1
      BY <1>6, <3>1, RoundTrip
    <3> DEFINE k == b + 1 + r
    <3>3. k \in b + 1 .. b + n
      BY <1>6, <2>3
    <3>4. pl[k].item = Ring(p, o + r)
      <4>1. pl[k] = Search(Ring(p, o + r))
        BY <2>3
      <4> HIDE DEF k
      <4> QED BY <4>1 DEF Search
    <3>5. Ring(p, o + r) = p[i]
      <4>1. Ring(p, o + r) = p[((o + r) % n) + 1]
        BY DEF Ring, n
      <4>2. i - 1 + 1 = i
        BY <1>6
      <4> QED BY <3>2, <4>1, <4>2
    <3> HIDE DEF k
    <3> QED BY <2>3, <3>3, <3>4, <3>5
  <2>6. Asked(pass) \subseteq Range(p)
    BY <2>4, <2>3
  <2>7. Range(p) \subseteq Asked(pass)
    BY <2>2, <2>5 DEF Range
  <2> QED BY <2>6, <2>7
<1>7. ASSUME NEW pass \in Nat, pass > 0, n > 1, (pass + 1) * n <= Len(pl), n \in Nat \ {0}
      PROVE  pl[pass * n + 1] # pl[(pass - 1) * n + 1]
  <2> DEFINE q == pass - 1
  <2>1. q \in Nat /\ q + 1 = pass
    BY <1>7
  <2>2. (q + 1) * n <= Len(pl)
    <3>1. (pass + 1) * n = pass * n + n /\ pass * n \in Nat
      BY <1>7
    <3> QED BY <1>2, <1>7, <2>1, <3>1
  <2> HIDE DEF q
  <2>3. ASSUME NEW t \in Nat, (t + 1) * n <= Len(pl)
        PROVE  /\ pl[t * n + 1] = Search(p[Offsets(n, t) + 1]) /\ Offsets(n, t) \in 0 .. n - 1
               /\ Distinct(p) /\ p \in Seq(MemoryItem)
    <3> DEFINE o == Offsets(n, t)
    <3>1. /\ p \in Seq(MemoryItem) /\ p # <<>> /\ Distinct(p) /\ o \in 0 .. n - 1
          /\ pl[t * n + 1 + 0] = Search(Ring(p, o + 0))
      <4>1. 0 \in 0 .. n - 1
        BY <1>7
      <4> QED BY <1>5, <1>7, <2>3, <4>1
    <3> HIDE DEF o
    <3>2. t * n + 1 + 0 = t * n + 1 /\ o + 0 = o
      BY <1>7, <3>1
    <3>3. Ring(p, o) = p[o + 1]
      <4>1. o % n = o
        BY <1>7, <3>1, SmallResidue
      <4> QED BY <4>1 DEF Ring, n
    <3> QED BY <3>1, <3>2, <3>3 DEF o
  <2>4. Offsets(n, pass) # Offsets(n, q)
    BY <1>7, <2>1, OffsetsFacts
  <2> DEFINE x == Offsets(n, pass)
             y == Offsets(n, q)
  <2>5. /\ pl[pass * n + 1] = Search(p[x + 1]) /\ pl[q * n + 1] = Search(p[y + 1])
        /\ x \in 0 .. n - 1 /\ y \in 0 .. n - 1 /\ Distinct(p) /\ p \in Seq(MemoryItem) /\ x # y
    BY <1>7, <2>1, <2>2, <2>3, <2>4
  <2> HIDE DEF x, y
  <2>6. x + 1 \in DOMAIN p /\ y + 1 \in DOMAIN p /\ x + 1 # y + 1
    BY <1>7, <2>5 DEF n
  <2>7. p[x + 1] # p[y + 1]
    BY <2>5, <2>6 DEF Distinct
  <2>8. pl[pass * n + 1] # pl[q * n + 1]
    BY <2>5, <2>7 DEF Search
  <2> QED BY <2>8 DEF q
<1>8. ASSUME NEW pass \in 0 .. MaxOps, (pass + 1) * n <= Len(pl), n > 0
      PROVE  /\ Asked(pass) = Range(p)
             /\ pass > 0 /\ n > 1 => pl[pass * n + 1] # pl[(pass - 1) * n + 1]
  <2>1. pass \in Nat /\ n \in Nat \ {0}
    <3>1. pass \in Nat
      BY CorporaAssumption
    <3>2. UserGood(c, setting, stored[u], ingest[u], memo[u], p)
      BY DEF CorporaOK, UserOK, p, c
    <3>3. p = NotBuilt => n \in Nat
      <4>1. Len(NotBuilt) = 1
        BY DEF NotBuilt
      <4> QED BY <4>1 DEF n
    <3>4. p # NotBuilt => n \in Nat
      BY <3>2 DEF UserGood, PoolGood, Begins, n
    <3> QED BY <1>8, <3>1, <3>3, <3>4
  <2> QED BY <1>6, <1>7, <1>8, <2>1
<1> QED BY <1>8 DEF p, pl, n

\* One more place: one more add, or not.
LEMMA AddsGrow ==
  ASSUME NEW pl \in Seq(Op), NEW k \in 1 .. Len(pl)
  PROVE  /\ AddsBefore(pl, k) \in Nat
         /\ AddsBefore(pl, k + 1) = AddsBefore(pl, k) + IF pl[k].kind = "add" THEN 1 ELSE 0
<1> DEFINE S == {j \in 1 .. k - 1 : pl[j].kind = "add"}
           T == {j \in 1 .. k : pl[j].kind = "add"}
<1>1. k \in Nat /\ (k + 1) - 1 = k /\ k \notin 1 .. k - 1 /\ 1 .. k = (1 .. k - 1) \cup {k}
  OBVIOUS
<1>2. IsFiniteSet(1 .. k - 1) /\ S \in SUBSET (1 .. k - 1)
  <2>1. k - 1 \in Int
    BY <1>1
  <2> QED BY <2>1, FS_Interval
<1>3. IsFiniteSet(S) /\ k \notin S
  <2>1. k \notin S
    BY <1>1
  <2> HIDE DEF S
  <2> QED BY <1>2, <2>1, FS_Subset
<1>4. Cardinality(S) \in Nat
  <2> HIDE DEF S
  <2> QED BY <1>3, FS_CardinalityType
<1>5. T = IF pl[k].kind = "add" THEN S \cup {k} ELSE S
  BY <1>1
<1>6. Cardinality(S \cup {k}) = Cardinality(S) + 1
  <2> HIDE DEF S
  <2> QED BY <1>3, FS_AddElement
<1>7. AddsBefore(pl, k) = Cardinality(S) /\ AddsBefore(pl, k + 1) = Cardinality(T)
  BY <1>1 DEF AddsBefore
<1> HIDE DEF S, T
<1> QED BY <1>4, <1>5, <1>6, <1>7

\* The adds before a later place are as many or more; ...
LEMMA AddsMonotone ==
  ASSUME NEW pl \in Seq(Op), NEW j \in 1 .. Len(pl), NEW k \in 1 .. Len(pl), j < k,
         pl[j].kind = "add"
  PROVE  AddsBefore(pl, j) < AddsBefore(pl, k)
<1> DEFINE S == {i \in 1 .. j : pl[i].kind = "add"}
           T == {i \in 1 .. k - 1 : pl[i].kind = "add"}
<1>1. j \in Nat /\ k \in Nat /\ k - 1 \in Int /\ (j + 1) - 1 = j /\ Len(pl) \in Nat
  OBVIOUS
<1>2. S \in SUBSET T /\ T \in SUBSET (1 .. k - 1)
  BY <1>1
<1>3. IsFiniteSet(1 .. k - 1)
  BY <1>1, FS_Interval
<1> HIDE DEF S, T
<1>4. IsFiniteSet(T) /\ Cardinality(S) <= Cardinality(T)
  BY <1>2, <1>3, FS_Subset
<1>5. IsFiniteSet(S)
  BY <1>2, <1>4, FS_Subset
<1>6. Cardinality(S) \in Nat /\ Cardinality(T) \in Nat
  BY <1>4, <1>5, FS_CardinalityType
<1>7. AddsBefore(pl, j + 1) = Cardinality(S) /\ AddsBefore(pl, k) = Cardinality(T)
  BY <1>1 DEF AddsBefore, S, T
<1>8. AddsBefore(pl, j + 1) = AddsBefore(pl, j) + 1 /\ AddsBefore(pl, j) \in Nat
  BY AddsGrow
<1> QED BY <1>4, <1>6, <1>7, <1>8

\* ... and every number between is that of an add.
LEMMA AddFound ==
  ASSUME NEW pl \in Seq(Op), NEW j \in 1 .. Len(pl), NEW k \in 1 .. Len(pl), j < k, NEW c \in Nat,
         AddsBefore(pl, j) <= c, c < AddsBefore(pl, k)
  PROVE  \E m \in j .. k : pl[m].kind = "add" /\ AddsBefore(pl, m) = c
<1> DEFINE N == {m \in j .. k : AddsBefore(pl, m) <= c}
<1>1. j \in Nat /\ k \in Nat /\ Len(pl) \in Nat /\ \A m \in j .. k : m \in 1 .. Len(pl)
  OBVIOUS
<1>2. N \subseteq 0 .. k /\ N # {}
  <2>1. j \in N
    BY <1>1
  <2> QED BY <1>1, <2>1
<1>3. PICK m \in N : \A i \in N : m >= i
  <2> HIDE DEF N
  <2> QED BY <1>1, <1>2, GreatestNumber
<1>4. m \in j .. k /\ AddsBefore(pl, m) <= c /\ m \in 1 .. Len(pl)
  BY <1>1
<1>5. m < k
  <2>1. AddsBefore(pl, k) \in Nat
    BY AddsGrow
  <2>2. m # k
    BY <1>4, <2>1
  <2> QED BY <1>1, <1>4, <2>2
<1>6. m + 1 \in j .. k /\ m + 1 \notin N
  <2>1. m + 1 \in j .. k /\ ~(m >= m + 1)
    BY <1>1, <1>4, <1>5
  <2> HIDE DEF N
  <2> QED BY <1>3, <2>1
<1>7. ~(AddsBefore(pl, m + 1) <= c)
  BY <1>6
<1>8. /\ AddsBefore(pl, m) \in Nat
      /\ AddsBefore(pl, m + 1) = AddsBefore(pl, m) + IF pl[m].kind = "add" THEN 1 ELSE 0
  BY <1>4, AddsGrow
<1>9. pl[m].kind = "add" /\ AddsBefore(pl, m) = c
  BY <1>4, <1>7, <1>8
<1> QED BY <1>4, <1>9

\* Equal residues of different numbers are a round apart.
LEMMA RoundApart ==
  ASSUME NEW n \in Nat \ {0}, NEW a \in Nat, NEW b \in Nat, a < b, a % n = b % n
  PROVE  a + n <= b
<1> DEFINE x == a \div n
           y == b \div n
           r == a % n
<1>1. x \in Nat /\ y \in Nat /\ r \in Nat /\ a = n * x + r /\ b = n * y + r
  <2>1. a \div n \in Nat /\ a % n \in Nat /\ a = n * (a \div n) + (a % n)
    BY DivMod
  <2>2. b \div n \in Nat /\ b = n * (b \div n) + (b % n)
    BY DivMod
  <2> QED BY <2>1, <2>2
<1> HIDE DEF x, y, r
<1>2. n * x \in Int /\ n * y \in Int
  BY <1>1
<1>3. x + 1 <= y
  <2>1. ASSUME y <= x PROVE FALSE
    <3>1. n * y <= n * x
      BY <1>1, <2>1, Scale
    <3> QED BY <1>1, <1>2, <3>1
  <2> QED BY <1>1, <2>1
<1>4. n * (x + 1) <= n * y
  BY <1>1, <1>3, Scale
<1>5. n * (x + 1) = n * x + n
  BY <1>1
<1> QED BY <1>1, <1>2, <1>4, <1>5

LEMMA AddsGoRound ==
  ASSUME CorporaOK, Loaded
  PROVE  AddsCycle
<1> SUFFICES ASSUME NEW u \in Mine, NEW j \in DOMAIN plan[u], NEW k \in DOMAIN plan[u],
                    j < k, plan[u][j].kind = "add", plan[u][k] = plan[u][j]
             PROVE  {plan[u][m].item : m \in {m \in j .. k : plan[u][m].kind = "add"}}
                      = Range(memo[u])
  BY DEF AddsCycle
<1> DEFINE c == CorpusOf(u)
           ms == memo[u]
           pl == plan[u]
           n == Len(ms)
<1>1. pl # <<>>
  OBVIOUS
<1>2. /\ Drawable(c, setting, ms, pool[u]) /\ pl \in Seq(Op)
      /\ PassGood(setting, pool[u], pl) /\ AddsGood(ms, pl)
      /\ c \in Seq(MemoryItem) /\ Distinct(c)
  BY <1>1, LoadedFacts, PlanFacts
<1> HIDE DEF c, ms, pl, n
<1>3. j \in 1 .. Len(pl) /\ k \in 1 .. Len(pl) /\ pl[k].kind = "add" /\ pl[j].kind = "add"
      /\ pl[k].item = pl[j].item /\ Len(pl) \in Nat
  BY <1>2 DEF pl
<1>4. ~Limited(setting)
  <2>1. ASSUME setting.scenario = "search-load" PROVE FALSE
    <3>1. PICK item : pl[j] = Search(item)
      BY <1>1, <1>2, <1>3, <2>1 DEF PassGood, pl
    <3> QED BY <1>3, <3>1 DEF Search
  <2> QED BY <2>1 DEF Limited
<1>5. ms \in Seq(MemoryItem) /\ Distinct(ms) /\ ms # <<>>
  BY <1>2, <1>3, <1>4 DEF Drawable, AddsGood
<1>6. n \in Nat \ {0} /\ DOMAIN ms = 1 .. n
  BY <1>5 DEF n
<1> DEFINE b(m) == AddsBefore(pl, m)
<1>7. \A m \in 1 .. Len(pl) : pl[m].kind = "add" => pl[m].item = ms[(b(m) % n) + 1]
  BY <1>2 DEF AddsGood, Ring, n
<1>8. \A m \in 1 .. Len(pl) : b(m) \in Nat /\ (b(m) % n) + 1 \in 1 .. n /\ b(m) % n \in Nat
  <2> SUFFICES ASSUME NEW m \in 1 .. Len(pl)
               PROVE  b(m) \in Nat /\ (b(m) % n) + 1 \in 1 .. n /\ b(m) % n \in Nat
    OBVIOUS
  <2>1. b(m) \in Nat
    BY <1>2, AddsGrow
  <2> HIDE DEF b
  <2>2. b(m) % n \in Nat /\ b(m) % n < n
    BY <1>6, <2>1, DivMod
  <2> QED BY <1>6, <2>1, <2>2
<1>9. b(j) < b(k)
  BY <1>2, <1>3, AddsMonotone
<1>10. \A d \in Nat : b(j) <= d /\ d < b(k) =>
         \E m \in j .. k : pl[m].kind = "add" /\ b(m) = d
  BY <1>2, <1>3, AddFound
<1> HIDE DEF b
<1>11. b(j) % n = b(k) % n
  <2>1. ms[(b(j) % n) + 1] = ms[(b(k) % n) + 1]
    BY <1>3, <1>7
  <2>2. (b(j) % n) + 1 = (b(k) % n) + 1
    BY <1>3, <1>5, <1>6, <1>8, <2>1 DEF Distinct
  <2>3. \A x, y \in Nat : x + 1 = y + 1 => x = y
    OBVIOUS
  <2> QED BY <1>3, <1>8, <2>2, <2>3
<1>12. b(j) + n <= b(k)
  BY <1>3, <1>6, <1>8, <1>9, <1>11, RoundApart
<1> DEFINE Added == {pl[m].item : m \in {m \in j .. k : pl[m].kind = "add"}}
<1>13. \A m \in j .. k : m \in 1 .. Len(pl)
  BY <1>3
<1>14. ASSUME NEW m \in j .. k, pl[m].kind = "add" PROVE pl[m].item \in Range(ms)
  BY <1>6, <1>7, <1>8, <1>13, <1>14 DEF Range
<1>15. ASSUME NEW i \in 1 .. n PROVE ms[i] \in Added
  <2>1. b(j) \in Nat /\ b(k) \in Nat /\ i - 1 \in 0 .. n - 1
    BY <1>3, <1>6, <1>8
  <2>2. PICK r \in 0 .. n - 1 : (b(j) + r) % n = i - 1
    BY <1>6, <2>1, RoundTrip
  <2> DEFINE d == b(j) + r
  <2>3. d \in Nat /\ b(j) <= d /\ d < b(k) /\ d % n = i - 1
    BY <1>6, <1>12, <2>1, <2>2
  <2> HIDE DEF d
  <2>4. PICK m \in j .. k : pl[m].kind = "add" /\ b(m) = d
    BY <1>10, <2>3
  <2>5. pl[m].item = ms[(i - 1) + 1]
    BY <1>7, <1>13, <2>3, <2>4
  <2>6. (i - 1) + 1 = i
    BY <1>6
  <2> QED BY <2>4, <2>5, <2>6
<1>16. Added \subseteq Range(ms)
  BY <1>14
<1>17. Range(ms) \subseteq Added
  <2> HIDE DEF Added
  <2> QED BY <1>6, <1>15 DEF Range
<1>18. Added = Range(ms)
  <2> HIDE DEF Added
  <2> QED BY <1>16, <1>17
<1> QED BY <1>18 DEF pl, ms

LEMMA QueriesAreGood ==
  ASSUME CorporaOK
  PROVE  QueriesSound
BY SearchesStored, PassesAreWhole, AddsGoRound DEF QueriesSound

-----------------------------------------------------------------------------
(* The corpora of a run.                                                   *)

CorporaInv == RecordInv /\ ReplayInv /\ CorporaOK

LEMMA CorporaInvKept == Spec => []CorporaInv
<1>1. Init => RecordInv
  BY NothingRead DEF Init, Fresh, Idle
<1>2. Init => ReplayInv
  BY ReplayInit
<1>3. Init => CorporaInv
  BY <1>1, <1>2, CorporaInit DEF CorporaInv
<1>4. CorporaInv /\ [Next]_vars => CorporaInv'
  BY RecordStep, ReplayInvStep, CorporaStep DEF CorporaInv
<1> QED BY <1>3, <1>4, PTL DEF Spec

\* Whatever the streams of other users do with the reader they share, and whatever
\* fails: a user gets the items of its own rows, whole and in order, stores the part
\* that was asked for, and draws from all of them or from the beginning that
\* query_limit names (_ParquetRecords, users(), _preingest, validate_run), for any
\* dataset, groups of rows and setting of the run.
THEOREM CorporaTrue == Spec => []CorpusTrue
<1>1. CorporaInv => CorpusTrue
  BY CorporaAreTrue DEF CorporaInv
<1> QED BY <1>1, CorporaInvKept, PTL

\* Searches are for what was stored, if as much was to be stored as is searched for;
\* every pass of SearchLoad asks each query once and starts elsewhere than the last;
\* and the adds go round the whole corpus (SearchLoad, AddLoad and Mixed), for plans
\* of any length.
THEOREM QueriesAreSound == Spec => []QueriesSound
<1>1. CorporaInv => QueriesSound
  BY QueriesAreGood DEF CorporaInv
<1> QED BY <1>1, CorporaInvKept, PTL
=============================================================================
