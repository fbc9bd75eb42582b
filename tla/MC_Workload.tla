----------------------------- MODULE MC_Workload -----------------------------
(* Instances of Workload for TLC. *)
EXTENDS Workload

CONSTANTS LongRow, LongTurns

Run(id, name) == [id |-> id, name |-> name]
Tools == {"run", "finish"}
CallLists == {<<>>} \cup {<<Run(i, n)>> : i \in 1 .. 2, n \in Tools}
               \cup {<<Run(1, n), Run(2, m)>> : n \in Tools, m \in Tools}
               \cup {<<Run(1, "run"), Run(1, "run")>>}
MCMessage ==
  [role : {"assistant"}, text : {"blank", "answer"}, calls : CallLists]
  \cup [role : {"tool"}, text : {"other"}, calls : {<<>>},
        call : {Run(1, "run"), Run(2, "run"), Run(1, "finish")}]
  \cup [role : {"user", "system", "malformed"}, text : {"other"}, calls : {<<>>}]

\* One, one and two chunks of at most four characters, and none; and longer texts.
Short == [len |-> 2, spaces |-> {}]
Long == [len |-> 6, spaces |-> {3}]
MCDialogue ==
  [role : {"user"}, text : {Short, Long, NoText}]
  \cup [role : {"assistant"}, text : Texts(LongTurns)]
  \cup [role : {"tool"}, text : {Short}]

MCSizes == <<2, 0, 2>>
MCLongest == <<LongRow, 2, 2>>

Base == [source |-> "nebius", scenario |-> "mixed", model |-> "closed", users |-> 2,
         procs |-> 1, index |-> 0, preingest |-> "none", exact |-> 0, limit |-> 0,
         lanes |-> 0]
Corpus(source) ==
  {[Base EXCEPT !.source = source, !.scenario = "search-load", !.limit = 2,
                !.preingest = "exact", !.exact = k] : k \in {1, 3}}
  \cup {[Base EXCEPT !.source = source, !.scenario = "search-load", !.model = "open",
                     !.users = 3, !.procs = 2, !.index = i, !.preingest = "all"] :
          i \in {0, 1}}
  \cup {[Base EXCEPT !.source = source, !.preingest = p, !.procs = 2] :
          p \in {"none", "share", "all"}}
  \cup {[Base EXCEPT !.source = source, !.scenario = "add-load", !.model = "open"]}
MCSetting ==
  Corpus("nebius") \cup Corpus("longmemeval")
  \cup {[Base EXCEPT !.source = "longmemeval", !.scenario = "chat-replay", !.users = 1,
                     !.model = m, !.lanes = l] : m \in {"open", "closed"}, l \in 0 .. 3}
=============================================================================
