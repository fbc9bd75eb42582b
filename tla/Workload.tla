------------------------------ MODULE Workload ------------------------------
(***************************************************************************)
(* From a dataset to operations, in one process of a run: the rows are     *)
(* read, checked and dealt to users (NebiusAdapter, LongMemEvalAdapter),   *)
(* the scenario is validated, the corpora are pre-ingested, and the plans  *)
(* of the run draw their operations, from dialogues (ChatReplay) or from   *)
(* corpora (Corpora).                                                      *)
(*                                                                         *)
(* Nebius rows are checked when they are dealt; a LongMemEval sample is    *)
(* read turn by turn.  The setting of the run is chosen when the rows are  *)
(* dealt: nothing before depends on it but for the dataset.                *)
(***************************************************************************)
EXTENDS Trajectory, Corpora, ChatReplay, SequencesExt

CONSTANTS Dialogue,  \* the turns a sample may have: a role and a text
          MaxChars,  \* max_chars of _split_chunks
          Longest    \* Longest[r]: bound on the messages or turns of row r

ASSUME WorkloadAssumption == /\ MaxChars \in Nat \ {0} /\ Longest \in Seq(Nat)
                             /\ \A d \in Dialogue : IsText(d.text)
                             /\ \A s \in Setting : s.lanes \in Nat

VARIABLES turns,  \* the turns of the conversation that is being read
          text    \* the text that was cut into chunks last

sampleVars == <<turns, text>>
vars == <<sampleVars, recordVars, corpusVars, replayVars>>

NoText == [len |-> 0, spaces |-> {}]

Init == /\ setting \in {[source |-> s.source] : s \in Setting}
        /\ turns = <<>> /\ text = NoText
        /\ exit = "none" /\ answer = "none" /\ msgs = <<>> /\ calls = {} /\ observed = {}
        /\ verdict = "none"
        /\ items = <<>> /\ order = <<>> /\ phase = "read" /\ cache = Empty
        /\ stored = <<>> /\ ingest = <<>> /\ memo = <<>> /\ pool = <<>>
        /\ plan = <<>> /\ drawing = <<>>
        /\ sessions = <<>> /\ lanes = 0
        /\ at = <<>> /\ turn = <<>> /\ recalls = <<>> /\ prev = <<>> /\ out = <<>>

Source(name) == phase = "read" /\ setting.source = name
OnlyPhase == UNCHANGED <<setting, items, order, cache, stored, ingest, memo, pool, plan, drawing>>

\* The row is done, and has n memory items.
Close(n) ==
  /\ items' = Append(items, n)
  /\ exit' = "none" /\ answer' = "none" /\ msgs' = <<>> /\ calls' = {} /\ observed' = {}
  /\ verdict' = "none"
  /\ UNCHANGED <<setting, order, phase, cache, stored, ingest, memo, pool, plan, drawing>>

-----------------------------------------------------------------------------
(* Nebius: users() checks every row.                                       *)

BeginRecord ==
  /\ Source("nebius") /\ verdict = "none" /\ Len(items) < Len(Longest)
  /\ \E r \in ReadRow(cache, Len(items) + 1) :
       /\ cache' = r.cache
       /\ IF r.row = 0 THEN Refuse /\ UNCHANGED recordVars
          ELSE /\ UNCHANGED phase
               /\ exit' \in {"submit", "interrupted"}
               /\ answer' \in {"blank", "answer", "missing"}
               /\ verdict' = "reading"
               /\ UNCHANGED <<msgs, calls, observed>>
  /\ UNCHANGED <<setting, items, order, stored, ingest, memo, pool, plan, drawing>>
  /\ UNCHANGED <<sampleVars, replayVars>>

ReadRecord ==
  /\ Source("nebius") /\ verdict = "reading"
  /\ \/ Len(msgs) < Longest[Len(items) + 1] /\ \E m \in Message : ReadMessage(m)
     \/ EndRecord
  /\ UNCHANGED <<sampleVars, corpusVars, replayVars>>

\* A record that is not accepted, or has the id of an earlier one, stops the run.
CloseRecord ==
  /\ Source("nebius")
  /\ \/ verdict = "accepted" /\ Close(ItemCount(msgs))
     \/ /\ verdict = "rejected" \/ (verdict = "accepted" /\ items # <<>>)
        /\ Refuse /\ OnlyPhase /\ UNCHANGED recordVars
  /\ UNCHANGED <<sampleVars, replayVars>>

-----------------------------------------------------------------------------
(* LongMemEval: _iter_sessions.                                            *)

BeginSample ==
  /\ Source("longmemeval") /\ verdict = "none" /\ Len(items) < Len(Longest)
  /\ verdict' = "reading" /\ sessions' = <<>>
  /\ UNCHANGED <<exit, answer, msgs, calls, observed>>
  /\ UNCHANGED <<sampleVars, corpusVars, lanes, at, turn, recalls, prev, out>>

\* A turn without content is left out.
Kept(role, chunks) ==
  IF chunks = <<>> THEN <<>> ELSE <<[role |-> role, items |-> Len(chunks)]>>

ReadTurn ==
  /\ Source("longmemeval") /\ verdict = "reading"
  /\ Len(turns) + Len(FlattenSeq(sessions)) < Longest[Len(items) + 1]
  /\ \E t \in Dialogue : /\ turns' = turns \o Kept(t.role, SplitChunks(t.text, MaxChars))
                         /\ text' = t.text
  /\ UNCHANGED <<recordVars, corpusVars, replayVars>>

\* And so is a conversation without turns.
EndConversation ==
  /\ Source("longmemeval") /\ verdict = "reading"
  /\ sessions' = IF turns = <<>> THEN sessions ELSE Append(sessions, turns)
  /\ turns' = <<>> /\ text' = NoText
  /\ UNCHANGED <<recordVars, corpusVars, lanes, at, turn, recalls, prev, out>>

\* The sample's memory_stream is that of its turns, one after the other.
EndSample ==
  /\ Source("longmemeval") /\ verdict = "reading" /\ turns = <<>> /\ text = NoText
  /\ LET all == FlattenSeq(sessions)
     IN  Close(SumFunction([i \in DOMAIN all |-> all[i].items]))
  /\ UNCHANGED <<sampleVars, replayVars>>

-----------------------------------------------------------------------------
(* The run.                                                                *)

\* users(), sharding, and the choice of the scenario.
Deal ==
  /\ phase = "read" /\ verdict = "none" /\ items # <<>>
  /\ \E s \in Setting : /\ s.source = setting.source
                        /\ Dealt(s, items)
                        /\ sessions' = IF s.scenario = "chat-replay" THEN sessions ELSE <<>>
  /\ UNCHANGED <<sampleVars, recordVars, lanes, at, turn, recalls, prev, out>>

Dialogues == setting.scenario = "chat-replay"

\* ChatReplay.validate_run: every lane of a profile has a conversation.
ValidateReplay ==
  /\ phase = "validate" /\ Dialogues
  /\ IF setting.lanes > Len(sessions) THEN Refuse
     ELSE phase' = IF setting.preingest = "none" THEN "run" ELSE "ingest"
  /\ OnlyPhase
  /\ UNCHANGED <<sampleVars, recordVars, replayVars>>

\* _plan: without a profile the turns of all conversations are one.
StartReplay ==
  /\ phase = "run" /\ Dialogues /\ lanes = 0 /\ sessions # <<>>
  /\ IF setting.lanes > 0 THEN Replay(sessions, setting.lanes)
     ELSE Replay(<<FlattenSeq(sessions)>>, 1)
  /\ UNCHANGED <<sampleVars, recordVars, corpusVars>>

ReplayTurn ==
  /\ phase = "run" /\ Dialogues
  /\ \E l \in Lane : ReplayStep(l) \/ (setting.model = "open" /\ NewVisitor(l))
  /\ UNCHANGED <<sampleVars, recordVars, corpusVars>>

DrawFromCorpus == CorpusStep /\ UNCHANGED <<sampleVars, recordVars, replayVars>>

\* The process has refused its part, or the bounds of the plans are reached.
Over == phase \in {"refused", "run"} /\ UNCHANGED vars

Next == \/ BeginRecord \/ ReadRecord \/ CloseRecord
        \/ BeginSample \/ ReadTurn \/ EndConversation \/ EndSample
        \/ Deal \/ ValidateReplay \/ StartReplay \/ ReplayTurn
        \/ DrawFromCorpus
        \/ Over

Spec == Init /\ [][Next]_vars

-----------------------------------------------------------------------------
(* Properties.                                                             *)

\* A text is cut into chunks that keep all of it but the spaces at their ends, each
\* within the limit and none blank; and a word is cut only where more than half of
\* a chunk has no space.
ChunksWhole ==
  LET cs == SplitChunks(text, MaxChars)
      Inside(c) == c.first .. c.last
  IN  /\ (0 .. text.len - 1) \ text.spaces \subseteq UNION {Inside(c) : c \in Range(cs)}
      /\ \A c \in Range(cs) : /\ c.last - c.first \in 0 .. MaxChars - 1
                              /\ {c.first, c.last} \cap text.spaces = {}
      /\ \A n \in 1 .. Len(cs) - 1 :
           /\ cs[n].last < cs[n + 1].first
           /\ cs[n].last + 1 = cs[n + 1].first =>
                (cs[n].last - (MaxChars - MaxChars \div 2 - 2) .. cs[n].last)
                  \cap text.spaces = {}

\* Nothing of a source is lost or doubled on the way to the backend: texts are whole
\* in their chunks, and a record's answer and calls are each in one item.
ContentKept == ChunksWhole /\ AnswerOnce
=============================================================================
