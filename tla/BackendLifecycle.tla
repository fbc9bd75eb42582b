-------------------------- MODULE BackendLifecycle --------------------------
(***************************************************************************)
(* What a run leaves on a server: preflight, setup, pre-ingest, workload   *)
(* and teardown of every process of one run (cli._run_shard_async,         *)
(* LoadRunner.run), over each of the backends (MemMachineClient with or    *)
(* without semantic memory, MemMachineMcpClient, Mem0Client and            *)
(* SupermemoryClient), and over a transport that loses answers and retries *)
(* (RestTransport.request; McpTransport.call_tool does not retry).         *)
(*                                                                         *)
(* A project is what a backend keeps a user's memories in: a project of    *)
(* MemMachine, a user scope of Mem0, a container of Supermemory.  Each     *)
(* process drives one user, who stands for all of its users: their         *)
(* requests concern separate data.  The server is external: it applies a   *)
(* request at once, or late, after the client has given it up.  A process  *)
(* may be killed anywhere, by the pool when another one fails or by the    *)
(* user, and `ltm100 cleanup' (cli._cleanup) may be called afterwards.     *)
(* tools/filter_contract.py, which loads a fixture of its own into a       *)
(* shared project to ask questions of it, goes through the same steps.     *)
(***************************************************************************)
EXTENDS Naturals, Sequences, FiniteSets

CONSTANTS Client,     \* the processes a run may have, and their users
          Common,     \* the shared project (backend.project_id)
          Batches,    \* pre-ingest requests per user: batches, or single items
          Retries,    \* backend.retries
          MaxFaults   \* bound: lost answers, server errors and killed processes

ASSUME LifecycleAssumption ==
  /\ IsFiniteSet(Client) /\ Common \notin Client
  /\ {Batches, Retries, MaxFaults} \subseteq Nat

VARIABLES backend,   \* the adapter
          shared,    \* whether backend.project_id is set
          delete,    \* RunConfig.delete_on_exit
          before,    \* the projects that predate the run
          pc,        \* where each process is
          batch,     \* the pre-ingest request it is at
          again,     \* whether its create is the second attempt
          created,   \* MemMachineClient._created_shared
          error,     \* what the process ends with: the first thing that went wrong
          call,      \* the request each process waits for
          exists,    \* projects on the server
          stored,    \* stored[c]: the batches of user c on the server
          late,      \* requests given up that the server may still apply
          lost,      \* whether there ever was such a request
          faults,
          cleanup,   \* how far `ltm100 cleanup' is
          toClean,   \* the users it has not come to yet
          calm       \* whether nothing went wrong since, or was about to

vars == <<backend, shared, delete, before, pc, batch, again, created, error, call,
          exists, stored, late, lost, faults, cleanup, toClean, calm>>
mode == <<backend, shared, delete, before>>
server == <<exists, stored, late, lost>>
cleaning == <<cleanup, toClean, calm>>

Project == Client \cup {Common}
ProjectOf(c) == IF shared THEN Common ELSE c

\* MemMachine over REST, with or without semantic memory types, or over MCP; and
\* the backends that create what they need on the first add; and the filter-contract
\* tool, a client of MemMachine's REST interface as well.
Rest == {"rest", "semantic"}
Lazy == {"mem0", "supermemory"}
Backend == Rest \cup {"mcp", "contract"} \cup Lazy

Requesting == {"preflight", "check", "create", "ingest", "teardown"}
Label == Requesting \cup {"run", "over"}
Error == {"none", "refused", "setup", "workload", "teardown", "killed"}
Status == {"none", "ok", "missing", "conflict", "error"}

\* A request: sent but unanswered while status is "none"; `fresh` if the project
\* did not exist when it was sent; `tries` counts the retries of the transport.
Idle == [sent |-> FALSE, status |-> "none", fresh |-> FALSE, tries |-> 0]

TypeOK ==
  /\ backend \in Backend /\ shared \in BOOLEAN /\ delete \in BOOLEAN
  /\ before \subseteq Project
  /\ pc \in [Client -> Label]
  /\ batch \in [Client -> 1 .. Batches + 1]
  /\ {again, created} \subseteq [Client -> BOOLEAN]
  /\ error \in [Client -> Error]
  /\ call \in [Client -> [sent : BOOLEAN, status : Status, fresh : BOOLEAN,
                          tries : 0 .. Retries]]
  /\ exists \subseteq Project
  /\ stored \in [Client -> Seq(1 .. Batches)]
  /\ lost \in BOOLEAN /\ faults \in 0 .. MaxFaults
  /\ cleanup \in {"no", "working", "ok", "failed"}
  /\ toClean \subseteq Client /\ calm \in BOOLEAN

\* (mutant of Accepted: the combination is not refused)
AcceptAll(procs) == TRUE

\* Every process but one would find its project deleted under it: _run refuses.  The
\* tool is one process.
Accepted(procs) == Cardinality(procs) > 1 => ~(delete /\ shared) /\ backend # "contract"

\* backend.project_id is an option of one adapter, and the tool's fixture is shared.
Shares == IF backend \in Rest THEN BOOLEAN ELSE {backend = "contract"}

NextLabel == IF Batches = 0 THEN "run" ELSE "ingest"

\* setup: a shared project is looked up first, and created if it is missing.
Setup == IF shared THEN "check" ELSE IF backend \in Lazy THEN NextLabel ELSE "create"

\* --procs of the processes take part.
Init == /\ backend \in Backend /\ delete \in BOOLEAN
        /\ shared \in Shares
        /\ \E procs \in SUBSET Client :
             /\ Accepted(procs)
             /\ before \in SUBSET (IF shared THEN {Common} ELSE procs)
             /\ pc = [c \in Client |-> IF c \notin procs THEN "over"
                                      ELSE IF backend = "semantic" THEN "preflight"
                                      ELSE Setup]
        /\ batch = [c \in Client |-> 1]
        /\ again = [c \in Client |-> FALSE] /\ created = again
        /\ error = [c \in Client |-> "none"]
        /\ call = [c \in Client |-> Idle]
        /\ exists = before
        /\ stored = [c \in Client |-> <<>>]
        /\ late = {} /\ lost = FALSE /\ faults = 0
        /\ cleanup = "no" /\ toClean = {} /\ calm = FALSE

-----------------------------------------------------------------------------
(* The transport and the server.                                           *)

SendAs(c, tries) ==
  call' = [call EXCEPT ![c] = [sent |-> TRUE, status |-> "none", tries |-> tries,
                               fresh |-> ProjectOf(c) \notin exists]]

Send(c) == /\ pc[c] \in Requesting /\ ~call[c].sent
           /\ SendAs(c, 0)
           /\ UNCHANGED <<mode, pc, batch, again, created, error, server, faults, cleaning>>

\* The effect of one request on the server.
Apply(kind, c, b) ==
  LET p == ProjectOf(c) IN
  CASE kind = "create" -> exists' = exists \cup {p} /\ UNCHANGED stored
    [] kind = "ingest" -> /\ stored' = IF p \in exists \/ backend \in Lazy
                                       THEN [stored EXCEPT ![c] = Append(@, b)] ELSE stored
                          /\ exists' = IF backend \in Lazy THEN exists \cup {p} ELSE exists
    [] kind = "teardown" ->
         /\ exists' = exists \ {p}
         /\ stored' = [u \in Client |-> IF ProjectOf(u) = p THEN <<>> ELSE stored[u]]
    [] OTHER -> UNCHANGED <<exists, stored>>

\* How the server may answer it.  An identical create is answered like the
\* first, or as a conflict; one that raced another create, with an error.  Mem0
\* deletes an empty scope like any other; and semantic memory may be switched off.
StatusOf(c) ==
  IF pc[c] = "preflight" THEN {"ok", "missing"}
  ELSE IF backend = "mem0" \/ (backend \in Lazy /\ pc[c] = "ingest") THEN {"ok"}
  ELSE IF ProjectOf(c) \in exists
  THEN IF pc[c] # "create" THEN {"ok"}
       ELSE IF call[c].fresh THEN {"ok", "error"} ELSE {"ok", "conflict"}
  ELSE IF pc[c] = "create" THEN {"ok"} ELSE {"missing"}

Answer(c) == /\ call[c].sent /\ call[c].status = "none"
             /\ Apply(pc[c], c, batch[c])
             /\ \E status \in StatusOf(c) : call' = [call EXCEPT ![c].status = status]
             /\ UNCHANGED <<mode, pc, batch, again, created, error, late, lost, faults,
                            cleaning>>

\* Something goes wrong.
Fault == /\ faults < MaxFaults /\ faults' = faults + 1
         /\ calm' = FALSE /\ UNCHANGED <<cleanup, toClean>>

\* The server fails to serve a request.
ServerError(c) == /\ call[c].sent /\ call[c].status = "none"
                  /\ Fault
                  /\ call' = [call EXCEPT ![c].status = "error"]
                  /\ UNCHANGED <<mode, pc, batch, again, created, error, server>>

\* A request given up before it was answered may be applied at any later time.
ApplyLate == /\ \E r \in late : Apply(r.kind, r.client, r.batch) /\ late' = late \ {r}
             /\ UNCHANGED <<mode, pc, batch, again, created, error, call, lost, faults,
                            cleaning>>

-----------------------------------------------------------------------------
(* The process: what it does with an answer.                               *)

\* The process goes on to a label, with no request outstanding.
Goto(c, label) == /\ pc' = [pc EXCEPT ![c] = label]
                  /\ call' = [call EXCEPT ![c] = Idle]

\* (mutant of Exit: a failed run skips its teardown)
KeepOnFailure(c, ok) == IF ok /\ delete /\ (shared => created'[c]) THEN "teardown" ELSE "over"

\* teardown is called after the run, failed or not; it leaves a shared project
\* that this process did not create.
Exit(c, ok) == IF delete /\ (shared => created'[c]) THEN "teardown" ELSE "over"

Fails(c, what) == error' = [error EXCEPT ![c] = what]
RunFails(c, what) == Goto(c, Exit(c, FALSE)) /\ Fails(c, what)

\* (mutant of TeardownFails: the teardown's error takes the place of the run's)
TeardownRaises(c) == Goto(c, "over") /\ Fails(c, "teardown") /\ UNCHANGED cleanup

OnlyNotes == backend = "contract"

\* An error of the teardown is raised only if the run had not failed, and the tool
\* only notes it; it ends a cleanup at once.
TeardownFails(c) ==
  /\ Goto(c, "over")
  /\ IF error[c] = "none" /\ cleanup = "no" /\ ~OnlyNotes THEN Fails(c, "teardown")
     ELSE UNCHANGED error
  /\ cleanup' = IF cleanup = "working" THEN "failed" ELSE cleanup

\* The preflight comes before what is cleaned up after.
PreflightFails(c, what) == Goto(c, "over") /\ Fails(c, what)

\* Nobody waits for the request of the process any more.
GiveUp(c) == IF call[c].sent /\ call[c].status = "none"
             THEN /\ late' = late \cup {[kind |-> pc[c], client |-> c, batch |-> batch[c],
                                        id |-> faults]}
                  /\ lost' = TRUE
             ELSE UNCHANGED <<late, lost>>

\* The time-out or connection error of a request: the transport retries, and
\* then raises what no caller handles.
Retrying == Backend \ {"mcp", "contract"}
MayRetry(c) == backend \in Retrying /\ call[c].tries < Retries
NoAnswer(c) ==
  /\ call[c].sent /\ faults < MaxFaults /\ faults' = faults + 1
  /\ GiveUp(c)
  /\ calm' = FALSE /\ UNCHANGED <<created, toClean>>
  /\ IF MayRetry(c)
     THEN SendAs(c, call[c].tries + 1) /\ UNCHANGED <<pc, error, cleanup>>
     ELSE IF pc[c] = "preflight" THEN PreflightFails(c, "setup") /\ UNCHANGED cleanup
     ELSE IF pc[c] = "teardown" THEN TeardownFails(c)
     ELSE RunFails(c, "setup") /\ UNCHANGED cleanup
  /\ UNCHANGED <<mode, batch, again, exists, stored>>

Got(c, label, statuses) == pc[c] = label /\ call[c].status \in statuses

\* preflight: the server must report that semantic memory is enabled.
FinishPreflight(c) ==
  /\ \/ Got(c, "preflight", {"ok"}) /\ Goto(c, Setup) /\ UNCHANGED error
     \/ Got(c, "preflight", {"missing"}) /\ PreflightFails(c, "refused")
     \/ Got(c, "preflight", {"error"}) /\ PreflightFails(c, "setup")
  /\ UNCHANGED <<mode, batch, again, created, server, faults, cleaning>>

\* (mutant of Checked: the project is created without a look at the lookup)
TrustCreate(c) ==
  \/ Got(c, "check", {"ok", "missing"}) /\ Goto(c, "create") /\ UNCHANGED error
  \/ Got(c, "check", {"error"}) /\ RunFails(c, "setup")

Checked(c) == \/ Got(c, "check", {"ok"}) /\ Goto(c, NextLabel) /\ UNCHANGED error
              \/ Got(c, "check", {"missing"}) /\ Goto(c, "create") /\ UNCHANGED error
              \/ Got(c, "check", {"error"}) /\ RunFails(c, "setup")
FinishCheck(c) == /\ UNCHANGED <<mode, batch, again, created, server, faults, cleaning>>
                  /\ Checked(c)

\* (mutant of SecondAttempt: an error of the create is final)
NoSecondAttempt(c) == FALSE

\* _create_project: one more attempt for a shared project.
SecondAttempt(c) == shared /\ ~again[c] /\ backend \in Rest
FinishCreate(c) ==
  /\ \/ /\ Got(c, "create", {"ok"})
        /\ created' = [created EXCEPT ![c] = shared]
        /\ Goto(c, NextLabel)
        /\ UNCHANGED <<again, error>>
     \/ /\ Got(c, "create", {"conflict"})
        /\ Goto(c, NextLabel)
        /\ UNCHANGED <<created, again, error>>
     \/ /\ Got(c, "create", {"error"})
        /\ UNCHANGED created
        /\ IF SecondAttempt(c)
           THEN /\ again' = [again EXCEPT ![c] = TRUE]
                /\ Goto(c, "create")
                /\ UNCHANGED error
           ELSE RunFails(c, "setup") /\ UNCHANGED again
  /\ UNCHANGED <<mode, batch, server, faults, cleaning>>

\* (mutant of GoesOn: a failed batch is skipped)
GoesOnAnyway == {"ok", "error"}

\* _preingest: the requests of a user go out one after the other.
GoesOn == {"ok"}

\* add: one item after the other over Mem0 and MCP, one batch over the others.
NextRequest(c) == IF batch[c] = Batches THEN "run" ELSE "ingest"
FinishIngest(c) ==
  /\ UNCHANGED created
  /\ \/ /\ Got(c, "ingest", GoesOn)
        /\ batch' = [batch EXCEPT ![c] = @ + 1]
        /\ Goto(c, NextRequest(c))
        /\ UNCHANGED error
     \/ /\ Got(c, "ingest", {"missing", "error"} \ GoesOn)
        /\ RunFails(c, "setup") /\ UNCHANGED batch
  /\ UNCHANGED <<mode, again, server, faults, cleaning>>

ReportsErrors == backend = "contract"

\* The workload ends, or raises; the checks of the tool report what they raise.
FinishRun(c) == /\ pc[c] = "run"
                /\ UNCHANGED created
                /\ \/ Goto(c, Exit(c, TRUE)) /\ UNCHANGED error
                   \/ ~ReportsErrors /\ RunFails(c, "workload")
                /\ UNCHANGED <<mode, batch, again, server, faults, cleaning>>

Logged == Status \ {"none"}

\* MemMachine's adapters log an error answer to the delete and forget it;
\* Supermemory's forgives a container that is not there.
Forgiven == CASE backend = "mem0" -> {"ok"}
              [] backend = "supermemory" -> {"ok", "missing"}
              [] OTHER -> Logged
FinishTeardown(c) ==
  /\ \/ Got(c, "teardown", Forgiven) /\ Goto(c, "over") /\ UNCHANGED <<error, cleanup>>
     \/ Got(c, "teardown", Logged \ Forgiven) /\ TeardownFails(c)
  /\ UNCHANGED <<mode, batch, again, created, server, faults, toClean, calm>>

\* A process of the run is killed; it tears nothing down.
Kill(c) == /\ pc[c] # "over" /\ cleanup = "no"
           /\ Fault
           /\ GiveUp(c)
           /\ Goto(c, "over") /\ Fails(c, "killed")
           /\ UNCHANGED <<mode, batch, again, created, exists, stored>>

-----------------------------------------------------------------------------
(* ltm100 cleanup, after the run: teardown of all users, one by one.  This *)
(* process has created no project.                                         *)

AllOver == \A c \in Client : pc[c] = "over"

\* (mutant of CleanUp: only the users of processes that ended by themselves)
CleanUpEnded == IF shared THEN {} ELSE {c \in Client : error[c] # "killed"}

CleanUp == IF shared THEN {} ELSE Client

StartCleanup == /\ AllOver /\ cleanup = "no"
                /\ cleanup' = "working" /\ toClean' = CleanUp /\ calm' = (late = {})
                /\ UNCHANGED <<mode, pc, batch, again, created, error, call, server, faults>>

CleanUser(c) == /\ AllOver /\ cleanup = "working" /\ c \in toClean
                /\ toClean' = toClean \ {c}
                /\ Goto(c, "teardown")
                /\ UNCHANGED <<mode, batch, again, created, error, server, faults, cleanup, calm>>

EndCleanup == /\ AllOver /\ cleanup = "working" /\ toClean = {}
              /\ cleanup' = "ok"
              /\ UNCHANGED <<mode, pc, batch, again, created, error, call, server, faults,
                             toClean, calm>>

Over == AllOver /\ cleanup \in {"ok", "failed"} /\ UNCHANGED vars

Process(c) == \/ Send(c) \/ FinishPreflight(c) \/ FinishCheck(c) \/ FinishCreate(c)
              \/ FinishIngest(c) \/ FinishRun(c) \/ FinishTeardown(c) \/ NoAnswer(c)
Cleanup == StartCleanup \/ (\E c \in Client : CleanUser(c)) \/ EndCleanup

Next == \/ \E c \in Client : Process(c) \/ Answer(c) \/ ServerError(c) \/ Kill(c)
        \/ ApplyLate
        \/ Cleanup
        \/ Over

Spec == Init /\ [][Next]_vars

-----------------------------------------------------------------------------
(* Properties.                                                             *)

\* A shared project that was on the server before the run is still there at any
\* time during it and after it, whatever is lost, retried or raised.
FoundStays == shared /\ Common \in before => Common \in exists

\* Nobody's project is deleted under it: while a process ingests or runs, its
\* project exists, or, where the first add creates it, has existed since that.
NotPulledAway ==
  \A c \in Client :
    pc[c] \in {"ingest", "run"} /\ (backend \in Lazy => batch[c] > 1) => ProjectOf(c) \in exists

\* With no fault of the network or the server, a run that deletes on exit leaves
\* no project behind but a shared one it found, or one that a refused process never
\* touched, even if some workload raised.  A run over Mem0 or Supermemory whose
\* processes all end without an error leaves none whatever the server answered, as
\* long as it got no request late: their adapters raise when a delete failed.
NeverTouched == {c \in Client : error[c] = "refused"}
RunLeavesNothing ==
  /\ AllOver /\ cleanup = "no"
  /\ delete
  /\ \/ faults = 0
     \/ backend \in Lazy /\ ~lost /\ \A c \in Client : error[c] = "none"
  => exists \subseteq before \cap (IF shared THEN {Common} ELSE NeverTouched)

\* However the run ended, killed processes and refused or failed teardowns included,
\* a cleanup that ends well leaves no user's project, provided that no request was
\* still on its way when it started and nothing went wrong since; over Mem0 and
\* Supermemory also if something did, but for a request that was lost.
CleanupLeavesNothing ==
  cleanup = "ok" /\ (calm \/ (backend \in Lazy /\ ~lost)) => exists \subseteq {Common}

\* Nothing stays behind, neither after a run nor after a cleanup.
NothingLeft == RunLeavesNothing /\ CleanupLeavesNothing

\* Before the workload starts, all of a user's corpus is on the server, in
\* order, whatever was retried; and every batch exactly once if nothing was.
Firsts(s) == {n \in DOMAIN s : \A m \in 1 .. n - 1 : s[m] # s[n]}
CorpusLoaded ==
  \A c \in Client : pc[c] = "run" =>
    /\ {stored[c][n] : n \in DOMAIN stored[c]} = 1 .. Batches
    /\ \A m, n \in Firsts(stored[c]) : m < n => stored[c][m] < stored[c][n]
    /\ faults = 0 => Len(stored[c]) = Batches

\* A process ends with the error that stopped it.  Processes that create the shared
\* project at the same time do not fail each other, and without faults no teardown
\* fails a run: then only a workload that raised, or a server without what was asked
\* for, ends a process with an error.  And one that was stopped in the middle of
\* its pre-ingest says so, whatever went wrong in its teardown or in a cleanup.
ErrorsTrue ==
  \A c \in Client :
    /\ faults = 0 => error[c] \in {"none", "refused", "workload"}
    /\ pc[c] = "over" /\ batch[c] \in 2 .. Batches => error[c] \in {"setup", "killed"}
=============================================================================
