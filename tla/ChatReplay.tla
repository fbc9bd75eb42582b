----------------------------- MODULE ChatReplay -----------------------------
(***************************************************************************)
(* The plans that the lanes of one user draw their operations from in a    *)
(* chat-replay run with a profile (ChatReplay in core/scenarios.py):       *)
(* which conversations a lane replays, and which operations a conversation *)
(* turns into.  Lanes advance in any order, one turn at a time.            *)
(*                                                                         *)
(* The size of a delay is abstracted: an operation has the usual jitter,   *)
(* and perhaps one extra pause, for typing or for generating an answer.    *)
(***************************************************************************)
EXTENDS Naturals, Sequences, FiniteSets

CONSTANTS SearchEvery,  \* ChatSettings.search_every
          Typing,       \* whether user_gap > 0
          Answering     \* whether answer_time > 0

ASSUME ReplayAssumption == SearchEvery \in Nat \ {0}

VARIABLES sessions,  \* the conversations of the user (session_stream)
          lanes,     \* how many lanes share them
          at,        \* at[l]: the conversation of lane l, by its place in its list
          turn,      \* turn[l]: the turn it is at
          recalls,   \* user_turn_idx
          prev,      \* previous_user_turn
          out        \* out[l]: the operations of the conversation so far

replayVars == <<sessions, lanes, at, turn, recalls, prev, out>>

Lane == 0 .. lanes - 1

\* sessions[session_id::session_count], as the positions it takes.
Assigned(l) == {i \in 1 .. Len(sessions) : (i - 1) % lanes = l}

\* The conversations of a lane in order, wrapping around.
NextAt(l) == LET later == {i \in Assigned(l) : i > at[l]}
                 from  == IF later = {} THEN Assigned(l) ELSE later
             IN  CHOOSE i \in from : \A j \in from : i <= j

\* The conversations ss are dealt to n lanes, which start at their first.
Replay(ss, n) == /\ sessions' = ss /\ lanes' = n
                 /\ at' = [l \in 0 .. n - 1 |-> l + 1]
                 /\ turn' = [l \in 0 .. n - 1 |-> 1]
                 /\ recalls' = [l \in 0 .. n - 1 |-> 0]
                 /\ prev' = [l \in 0 .. n - 1 |-> FALSE]
                 /\ out' = [l \in 0 .. n - 1 |-> <<>>]

TypeOK == /\ lanes \in 0 .. Len(sessions)
          /\ at \in [Lane -> 1 .. Len(sessions)]
          /\ \A l \in Lane : /\ turn[l] \in 1 .. Len(sessions[at[l]]) + 1
                             /\ recalls[l] \in 0 .. turn[l] - 1
          /\ prev \in [Lane -> BOOLEAN]

-----------------------------------------------------------------------------
(* One turn: _conversation_ops.                                            *)

IsUser(t)      == t.role = "user"
IsAssistant(t) == t.role = "assistant"

Fires(n) == n % SearchEvery = 0

\* The operations before their pauses: the recall search, then the items.
Ops(t, n, index) ==
  (IF IsUser(t) /\ Fires(n)
   THEN <<[kind |-> "search", turn |-> index, item |-> 1]>> ELSE <<>>)
    \o [i \in 1 .. t.items |-> [kind |-> "add", turn |-> index, item |-> i]]

\* The extra pause before the first operation of a turn.
Pause(t, index, after) ==
  IF IsUser(t) /\ index > 1 /\ Typing THEN "typing"
  ELSE IF IsAssistant(t) /\ after /\ Answering THEN "answer" ELSE "none"

WithPause(ops, pause) ==
  [i \in DOMAIN ops |-> [op |-> ops[i], pause |-> IF i = 1 THEN pause ELSE "none"]]

Step(l) ==
  /\ turn[l] <= Len(sessions[at[l]])
  /\ LET t == sessions[at[l]][turn[l]]
     IN  /\ out' = [out EXCEPT ![l] = @ \o WithPause(Ops(t, recalls[l], turn[l]),
                                                     Pause(t, turn[l], prev[l]))]
         /\ recalls' = [recalls EXCEPT ![l] = IF IsUser(t) THEN @ + 1 ELSE @]
         /\ prev' = [prev EXCEPT ![l] = IsUser(t)]
  /\ turn' = [turn EXCEPT ![l] = @ + 1]
  /\ UNCHANGED <<sessions, lanes, at>>

\* (mutant of ResetCounters: the counters outlive the conversation)
KeepCounters(l) == UNCHANGED <<recalls, prev>>

\* A conversation begins with fresh counters.
ResetCounters(l) == /\ recalls' = [recalls EXCEPT ![l] = 0]
                    /\ prev' = [prev EXCEPT ![l] = FALSE]
Begin(l, i) == /\ at' = [at EXCEPT ![l] = i]
               /\ turn' = [turn EXCEPT ![l] = 1]
               /\ out' = [out EXCEPT ![l] = <<>>]
               /\ ResetCounters(l)
               /\ UNCHANGED <<sessions, lanes>>

\* The conversation is over: _plan goes on to the next one of the lane.
NextConversation(l) == turn[l] > Len(sessions[at[l]]) /\ Begin(l, NextAt(l))

\* Open model: the visitor in the lane leaves, and another one's plan starts
\* from the first conversation of the lane.
NewVisitor(l) == turn[l] > 1 /\ Begin(l, l + 1)

ReplayStep(l) == Step(l) \/ NextConversation(l)

-----------------------------------------------------------------------------
(* Properties.                                                             *)

\* Concurrent lanes never replay the same conversation, and together they cover
\* all of the user's.
LanesDisjoint ==
  /\ \A l, m \in Lane : l # m => at[l] # at[m] /\ Assigned(l) \cap Assigned(m) = {}
  /\ lanes > 0 => UNION {Assigned(l) : l \in Lane} = 1 .. Len(sessions)

OpsOf(l) == {out[l][n].op : n \in DOMAIN out[l]}
UserTurns(s, i) == {j \in 1 .. i - 1 : s[j].role = "user"}
Due(s, i) == s[i].role = "user" /\ Cardinality(UserTurns(s, i)) % SearchEvery = 0

\* A recall search comes before every SearchEvery-th user turn of a conversation,
\* counted anew in each replay, and right before the first item of its turn is
\* stored: it can find every earlier turn and nothing of its own.
RecallBeforeStore ==
  \A l \in Lane :
    /\ \A i \in 1 .. turn[l] - 1 :
         [kind |-> "search", turn |-> i, item |-> 1] \in OpsOf(l)
           <=> Due(sessions[at[l]], i)
    /\ \A n \in DOMAIN out[l] : out[l][n].op.kind = "search" =>
         /\ n < Len(out[l])
         /\ out[l][n + 1].op = [out[l][n].op EXCEPT !.kind = "add"]

\* Every item of the turns so far is stored exactly once, in the order of the
\* conversation.
Before(a, b) == a.turn < b.turn \/ (a.turn = b.turn /\ a.item < b.item)
StoredInOrder ==
  \A l \in Lane :
    /\ \A i \in 1 .. turn[l] - 1 : \A k \in 1 .. sessions[at[l]][i].items :
         [kind |-> "add", turn |-> i, item |-> k] \in OpsOf(l)
    /\ \A m, n \in DOMAIN out[l] :
         m < n /\ out[l][m].op.kind = "add" /\ out[l][n].op.kind = "add" =>
           Before(out[l][m].op, out[l][n].op)

\* The user types before a turn, but never before the first one of a replay,
\* and an answer is generated only right after a user turn.  Either pause is on
\* one operation of the turn.
PausesFit ==
  \A l \in Lane : \A n \in DOMAIN out[l] :
    LET i == out[l][n].op.turn
        s == sessions[at[l]] IN
    out[l][n].pause # "none" =>
      /\ i > 1
      /\ out[l][n].pause = "answer" => s[i].role = "assistant" /\ s[i - 1].role = "user"
      /\ out[l][n].pause = "typing" => s[i].role = "user"
      /\ \A m \in DOMAIN out[l] : out[l][m].op.turn = i /\ m # n => out[l][m].pause = "none"

\* What the lanes of a user replay is the user's conversations: each in one lane only,
\* its turns stored once and in order, recalled in time, and paced as people do.
Replayed == TypeOK /\ LanesDisjoint /\ RecallBeforeStore /\ StoredInOrder /\ PausesFit
=============================================================================
