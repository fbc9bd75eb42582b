----------------------------- MODULE Trajectory -----------------------------
(***************************************************************************)
(* One record of the Nebius dataset (adapters/datasets/nebius.py): the     *)
(* messages of an agent's attempt are read one by one, tool calls and      *)
(* their observations matched on the way (_normalize_task), and an         *)
(* accepted attempt is projected to memory items (memory_stream).          *)
(*                                                                         *)
(* A text is blank, the final answer, or some other text; the checks of    *)
(* the type of a field are one malformed message.                          *)
(***************************************************************************)
EXTENDS Integers, Sequences, FiniteSetsExt

CONSTANTS Message,     \* the messages a record may have
          MaxMessages  \* bound: messages of a record

VARIABLES exit,      \* exit_status: "submit", or that of an interrupted attempt
          answer,    \* the message argument of a finish call
          msgs,      \* messages
          calls,     \* the calls made so far, by their ids and names
          observed,  \* observations
          verdict

recordVars == <<exit, answer, msgs, calls, observed, verdict>>

Role == {"system", "user", "assistant", "tool", "malformed"}

\* A call of an assistant; a tool's message names the call it observes.
IsMessage(m) == /\ m.role \in Role
                /\ m.text \in {"blank", "answer", "other"}
                /\ Len(m.calls) \in Nat /\ DOMAIN m.calls = 1 .. Len(m.calls)
                /\ m.role # "assistant" => m.calls = <<>>

ASSUME TrajectoryAssumption == /\ \A m \in Message : IsMessage(m)
                               /\ MaxMessages \in Nat \ {0}

-----------------------------------------------------------------------------
(* One message.                                                            *)

Ids(cs) == {c.id : c \in cs}
CallsOf(m) == {m.calls[k] : k \in DOMAIN m.calls}

NewCalls(m) == /\ Ids(CallsOf(m)) \cap Ids(calls) = {}
               /\ \A j, k \in DOMAIN m.calls : j # k => m.calls[j].id # m.calls[k].id

\* An observation belongs to an earlier call of that name, and is its first.
Matches(m) == m.call \in calls /\ m.call.id \notin observed

Valid(m) == \/ m.role \in {"system", "user"}
            \/ m.role = "assistant" /\ NewCalls(m)
            \/ m.role = "tool" /\ Matches(m)

ReadMessage(m) ==
  /\ verdict = "reading" /\ Len(msgs) < MaxMessages
  /\ msgs' = Append(msgs, m)
  /\ calls' = calls \cup CallsOf(m)
  /\ observed' = observed \cup (IF m.role = "tool" THEN {m.call.id} ELSE {})
  /\ verdict' = IF Valid(m) THEN "reading" ELSE "rejected"
  /\ UNCHANGED <<exit, answer>>

-----------------------------------------------------------------------------
(* The end of the record.                                                  *)

LastOf(ms) == ms[Len(ms)]
Spoken(role) == \E i \in DOMAIN msgs : msgs[i].role = role

\* (mutant of Unobserved: any interrupted attempt may leave calls unobserved)
UnobservedOfSubmitted(c) ==
  c.id \notin observed /\ c.name # "finish" /\ exit = "submit"

\* A call other than finish whose result is missing: only those of the last
\* message of an attempt that was interrupted have an excuse.
Unobserved(c) ==
  /\ c.id \notin observed /\ c.name # "finish"
  /\ exit = "submit" \/ c \notin CallsOf(LastOf(msgs))

Finishes(m) == {k \in DOMAIN m.calls : m.calls[k].name = "finish"}

\* final_response: the record ends with an answer.
HasFinal(ms) == LastOf(ms).role = "assistant" /\ Finishes(LastOf(ms)) # {}

EndRecord ==
  /\ verdict = "reading" /\ msgs # <<>>
  /\ verdict' = IF /\ Spoken("user") /\ Spoken("assistant")
                   /\ \A c \in calls : ~Unobserved(c)
                   /\ Cardinality(Finishes(LastOf(msgs))) <= 1
                   /\ HasFinal(msgs) => answer # "missing"
                THEN "accepted" ELSE "rejected"
  /\ UNCHANGED <<exit, answer, msgs, calls, observed>>

-----------------------------------------------------------------------------
(* The memory items of an accepted record.                                 *)

\* The parts of a content: a text, or a call by its id.
Said(text) == <<text, 0>>
Called(c) == <<"call", c.id>>

\* The finish call of a record that ends with an answer stands for the answer.
IsAnswer(m, k, final) == final /\ m.calls[k].name = "finish"

\* _message_content: the name of the tool, the text, and the calls of a message, by
\* their places.  The answer is left out if it is blank or the message says it anyway.
Parts(m, final) ==
  LET places == {n \in -1 .. Len(m.calls) :
                   /\ n = -1 => m.role = "tool"
                   /\ n = 0 => m.text # "blank"
                   /\ n > 0 /\ IsAnswer(m, n, final) => answer = "answer" /\ m.text # "answer"}
  IN  [n \in places |-> IF n = -1 THEN Said("result")
                        ELSE IF n = 0 THEN Said(m.text)
                        ELSE IF IsAnswer(m, n, final) THEN Said("answer")
                        ELSE Called(m.calls[n])]

ContentOf(ms, i) == Parts(ms[i], i = Len(ms) /\ HasFinal(ms))

\* memory_stream: an item for each message with content but the system's (a content
\* within chunk_chars is one chunk).
ItemMessages(ms) == {i \in DOMAIN ms : ms[i].role # "system" /\ DOMAIN ContentOf(ms, i) # {}}
ItemCount(ms) == Cardinality(ItemMessages(ms))

-----------------------------------------------------------------------------
(* Properties.                                                             *)

\* What a record must be, by the positions of its messages and calls.
CallPlaces(ms) == UNION {{<<i, k>> : k \in DOMAIN ms[i].calls} : i \in DOMAIN ms}
At(ms, place) == ms[place[1]].calls[place[2]]
Observes(ms, i, c) == ms[i].role = "tool" /\ ms[i].call = c

CallsDistinct(ms) ==
  \A p, q \in CallPlaces(ms) : p # q => At(ms, p).id # At(ms, q).id
ObservationsFollow(ms) ==
  \A i \in DOMAIN ms : ms[i].role = "tool" =>
    /\ \E p \in CallPlaces(ms) : p[1] < i /\ At(ms, p) = ms[i].call
    /\ \A j \in DOMAIN ms : Observes(ms, j, ms[i].call) => j = i
CallsObserved(ms) ==
  \A p \in CallPlaces(ms) :
    \/ At(ms, p).name = "finish"
    \/ \E i \in DOMAIN ms : Observes(ms, i, At(ms, p))
    \/ exit # "submit" /\ p[1] = Len(ms)
WellFormed(ms) ==
  /\ CallsDistinct(ms) /\ ObservationsFollow(ms) /\ CallsObserved(ms)
  /\ {"user", "assistant"} \subseteq {ms[i].role : i \in DOMAIN ms}
  /\ \A i \in DOMAIN ms : ms[i].role # "malformed"
  /\ HasFinal(ms) => answer # "missing" /\ Cardinality(Finishes(LastOf(ms))) = 1

\* Reading message by message accepts exactly the well-formed records: every result
\* belongs to one earlier call, and no call lacks its result but a finish, or the
\* last ones of an attempt that was interrupted.
TasksSound == /\ verdict = "accepted" => WellFormed(msgs)
              /\ verdict = "rejected" => ~WellFormed(msgs)

\* The projection of a record keeps its calls and texts and the final answer, which
\* is there exactly once: not a second time when the last message says it as well.
Times(content, part) == Cardinality({n \in DOMAIN content : content[n] = part})
AnswerOnce ==
  verdict = "accepted" =>
    /\ HasFinal(msgs) /\ answer = "answer" =>
         /\ Len(msgs) \in ItemMessages(msgs)
         /\ Times(ContentOf(msgs, Len(msgs)), Said("answer")) = 1
    /\ \A p \in CallPlaces(msgs) :
         \/ Times(ContentOf(msgs, p[1]), Called(At(msgs, p))) = 1
         \/ HasFinal(msgs) /\ p[1] = Len(msgs) /\ At(msgs, p).name = "finish"
    /\ \A i \in DOMAIN msgs : msgs[i].role = "tool" => i \in ItemMessages(msgs)
=============================================================================
