----------------------- MODULE BackendLifecycle_proofs -----------------------
(***************************************************************************)
(* Proofs, for any number of processes, batches, retries and faults: that  *)
(* a run never deletes a shared project it found on the server, nor the    *)
(* project of a process that is not done with it; that a workload starts   *)
(* on a whole corpus; that a process ends with the error that stopped it;  *)
(* and that neither a run nor a cleanup leaves more on the server than it  *)
(* reports.                                                                *)
(*                                                                         *)
(* Each invariant is inductive relative to those before it: Inv (a found   *)
(* project is untouched), Secure (nobody deletes the project of a working  *)
(* process), Loading (what a user has on the server, and what may still    *)
(* come), Honest (which answers a process can get without faults), and     *)
(* Tidiness with Owed (who has still to delete what exists).               *)
(***************************************************************************)
EXTENDS BackendLifecycle, FiniteSetTheorems, SequenceTheorems, TLAPS

Requests == [sent : BOOLEAN, status : Status, fresh : BOOLEAN, tries : Nat]

\* Of the types, those the argument needs.
Types == /\ pc \in [Client -> Label]
         /\ created \in [Client -> BOOLEAN]
         /\ call \in [Client -> Requests]
         /\ shared \in BOOLEAN
         /\ shared => toClean = {}

\* No process is past the lookup as if the project were missing, so none has
\* created it, or deletes it, or has asked to.
Untouched ==
  /\ Common \in exists
  /\ \A c \in Client : /\ pc[c] \notin {"create", "teardown"}
                       /\ ~created[c]
                       /\ pc[c] = "check" => call[c].status # "missing"
  /\ \A r \in late : r.kind \notin {"create", "teardown"}

Inv == Types /\ (shared /\ Common \in before => Untouched)

LEMMA SetupLabel == NextLabel \in {"run", "ingest"} /\ Setup \in Label /\ Setup # "teardown"
BY DEF NextLabel, Setup, Label, Requesting

LEMMA InitInv == Init => Inv
<1> SUFFICES ASSUME Init PROVE Inv
  OBVIOUS
<1>1. Idle \in Requests
  BY DEF Idle, Requests, Status
<1>2. PICK procs \in SUBSET Client :
        pc = [c \in Client |-> IF c \notin procs THEN "over"
                               ELSE IF backend = "semantic" THEN "preflight" ELSE Setup]
  BY DEF Init
<1>3. pc \in [Client -> Label]
  BY <1>2, SetupLabel DEF Label, Requesting
<1>4. Types
  BY <1>1, <1>3 DEF Init, Types, Shares, Rest
<1>5. ASSUME shared, Common \in before PROVE Untouched
  BY <1>2, <1>5 DEF Init, Setup, Idle, Untouched
<1> QED BY <1>4, <1>5 DEF Inv

-----------------------------------------------------------------------------
(* One lemma for each action.                                              *)

LEMMA SendTypes ==
  ASSUME Types, NEW c \in Client, NEW tries \in Nat, SendAs(c, tries)
  PROVE  call' \in [Client -> Requests]
BY DEF Types, SendAs, Requests, Status

LEMMA SendInv == ASSUME Inv, NEW c \in Client, Send(c) PROVE Inv'
BY DEF Send, SendAs, mode, server, cleaning, Inv, Types, Untouched, Requests, Status

\* A request other than a delete keeps the project.
LEMMA ApplyKeeps ==
  ASSUME shared, Common \in exists, NEW c \in Client, NEW b, NEW kind,
         kind \notin {"create", "teardown"}, Apply(kind, c, b)
  PROVE  Common \in exists'
BY DEF Apply

LEMMA AnswerInv == ASSUME Inv, NEW c \in Client, Answer(c) PROVE Inv'
<1>1. Types'
  BY DEF Answer, mode, cleaning, StatusOf, Inv, Types, Requests, Status
<1>2. ASSUME shared, Common \in before, Untouched PROVE Untouched'
  <2>1. Common \in exists'
    BY <1>2, ApplyKeeps DEF Answer, Untouched
  <2>2. \A d \in Client : pc'[d] = "check" => call'[d].status # "missing"
    BY <1>2 DEF Answer, StatusOf, ProjectOf, Inv, Types, Untouched, Requests
  <2> QED BY <1>2, <2>1, <2>2 DEF Answer, mode, cleaning, Untouched
<1> QED BY <1>1, <1>2 DEF Answer, mode, cleaning, Inv

LEMMA ServerErrorInv == ASSUME Inv, NEW c \in Client, ServerError(c) PROVE Inv'
BY DEF ServerError, Fault, mode, cleaning, server, Inv, Types, Untouched, Requests, Status

LEMMA ApplyLateInv == ASSUME Inv, ApplyLate PROVE Inv'
<1>1. ASSUME shared, Common \in before, Untouched PROVE Untouched'
  <2>1. PICK r \in late : Apply(r.kind, r.client, r.batch) /\ late' = late \ {r}
    BY DEF ApplyLate
  <2>2. Common \in exists'
    BY <1>1, <2>1 DEF Apply, Untouched
  <2> QED BY <1>1, <2>1, <2>2 DEF ApplyLate, Untouched
<1> QED BY <1>1 DEF ApplyLate, mode, cleaning, Inv, Types

\* A process leaves the run by deleting its project or at once, and deletes a
\* shared project only if it created it.
LEMMA ExitLabel ==
  ASSUME NEW c \in Client
  PROVE  Exit(c, TRUE) \in Label /\ Exit(c, FALSE) \in Label
BY DEF Exit, Label, Requesting

LEMMA ExitKeeps ==
  ASSUME shared, NEW c \in Client, ~created'[c]
  PROVE  Exit(c, TRUE) = "over" /\ Exit(c, FALSE) = "over"
BY DEF Exit

LEMMA GotoTypes ==
  ASSUME Types, NEW c \in Client, NEW label \in Label, Goto(c, label)
  PROVE  pc' \in [Client -> Label] /\ call' \in [Client -> Requests]
BY DEF Types, Goto, Requests, Idle, Status

\* A move to a harmless label, with no effect on the server, harms nothing.
LEMMA GotoKeeps ==
  ASSUME Types, Untouched, NEW c \in Client, NEW label \in Label,
         label \notin {"create", "teardown"}, Goto(c, label),
         UNCHANGED <<created, exists, late>>
  PROVE  Untouched'
BY DEF Types, Untouched, Goto, Idle

LEMMA NoAnswerInv == ASSUME Inv, NEW c \in Client, NoAnswer(c) PROVE Inv'
<1>1. CASE MayRetry(c)
  <2>1. Types'
    <3>1. call[c].tries + 1 \in Nat
      BY DEF Inv, Types, Requests
    <3>2. call' \in [Client -> Requests]
      BY <1>1, <3>1, SendTypes DEF NoAnswer, Inv
    <3> QED BY <1>1, <3>2 DEF NoAnswer, mode, cleaning, cleaning, Inv, Types
  <2>2. ASSUME shared, Common \in before, Untouched PROVE Untouched'
    BY <1>1, <2>2 DEF NoAnswer, GiveUp, SendAs, Inv, Types, Untouched
  <2> QED BY <2>1, <2>2 DEF NoAnswer, mode, cleaning, cleaning, Inv
<1>2. CASE ~MayRetry(c)
  <2>1. PICK label \in Label : Goto(c, label) /\ label \in {"over", Exit(c, FALSE)}
    BY <1>2, ExitLabel DEF NoAnswer, RunFails, PreflightFails, TeardownFails, Label
  <2>2. Types'
    BY <2>1, GotoTypes DEF NoAnswer, mode, cleaning, cleaning, Inv, Types
  <2>3. ASSUME shared, Common \in before, Untouched PROVE Untouched'
    <3>1. label = "over"
      BY <2>1, <2>3, ExitKeeps DEF NoAnswer, Untouched
    <3>2. \A r \in late' : r.kind \notin {"create", "teardown"}
      BY <2>3 DEF NoAnswer, GiveUp, Untouched
    <3>3. \A d \in Client : /\ pc'[d] \notin {"create", "teardown"}
                            /\ pc'[d] = "check" => call'[d].status # "missing"
      BY <2>1, <2>3, <3>1 DEF Goto, Inv, Types, Untouched
    <3> QED BY <2>3, <3>2, <3>3 DEF NoAnswer, Untouched
  <2> QED BY <2>2, <2>3 DEF NoAnswer, mode, cleaning, cleaning, Inv
<1> QED BY <1>1, <1>2

LEMMA FinishPreflightInv ==
  ASSUME Inv, NEW c \in Client, FinishPreflight(c) PROVE Inv'
<1>1. PICK label \in Label : Goto(c, label) /\ label \in {"over", Setup}
  BY SetupLabel DEF FinishPreflight, PreflightFails, Label
<1>2. Types'
  BY <1>1, GotoTypes DEF FinishPreflight, mode, cleaning, Inv, Types
<1>3. ASSUME shared, Common \in before, Untouched PROVE Untouched'
  <2>1. label \notin {"create", "teardown"}
    BY <1>1, <1>3 DEF Setup
  <2> QED BY <1>1, <1>3, <2>1, GotoKeeps DEF FinishPreflight, server, Inv
<1> QED BY <1>2, <1>3 DEF FinishPreflight, mode, cleaning, Inv

LEMMA FinishCheckInv == ASSUME Inv, NEW c \in Client, FinishCheck(c) PROVE Inv'
<1>1. PICK label \in Label :
        /\ Goto(c, label)
        /\ label = "create" => call[c].status = "missing" /\ pc[c] = "check"
        /\ label \in {"create", "run", "ingest", Exit(c, FALSE)}
  BY ExitLabel
     DEF FinishCheck, Checked, Got, RunFails, NextLabel, Exit, Label, Requesting
<1>2. Types'
  BY <1>1, GotoTypes DEF FinishCheck, mode, cleaning, Inv, Types
<1>3. ASSUME shared, Common \in before, Untouched PROVE Untouched'
  <2>1. label \notin {"create", "teardown"}
    BY <1>1, <1>3, ExitKeeps DEF FinishCheck, Untouched
  <2> QED BY <1>1, <1>3, <2>1, GotoKeeps DEF FinishCheck, server, Inv
<1> QED BY <1>2, <1>3 DEF FinishCheck, mode, cleaning, Inv

LEMMA FinishCreateInv == ASSUME Inv, NEW c \in Client, FinishCreate(c) PROVE Inv'
<1>1. PICK label \in Label : Goto(c, label)
  BY ExitLabel DEF FinishCreate, RunFails, NextLabel, Label, Requesting
<1>2. created' \in [Client -> BOOLEAN]
  BY DEF FinishCreate, Inv, Types
<1>3. Types'
  BY <1>1, <1>2, GotoTypes DEF FinishCreate, mode, cleaning, Inv, Types
<1>4. pc[c] = "create"
  BY DEF FinishCreate, Got
<1> QED BY <1>3, <1>4 DEF FinishCreate, mode, cleaning, Inv, Untouched

LEMMA FinishIngestInv == ASSUME Inv, NEW c \in Client, FinishIngest(c) PROVE Inv'
<1>1. PICK label \in Label : Goto(c, label) /\ label \in {"run", "ingest", Exit(c, FALSE)}
  BY ExitLabel DEF FinishIngest, NextRequest, RunFails, Label, Requesting
<1>2. Types'
  BY <1>1, GotoTypes DEF FinishIngest, mode, cleaning, Inv, Types
<1>3. ASSUME shared, Common \in before, Untouched PROVE Untouched'
  <2>1. label \notin {"create", "teardown"}
    BY <1>1, <1>3, ExitKeeps DEF FinishIngest, Untouched
  <2> QED BY <1>1, <1>3, <2>1, GotoKeeps DEF FinishIngest, server, Inv
<1> QED BY <1>2, <1>3 DEF FinishIngest, mode, cleaning, Inv

LEMMA FinishRunInv == ASSUME Inv, NEW c \in Client, FinishRun(c) PROVE Inv'
<1>1. PICK label \in Label : Goto(c, label) /\ label \in {Exit(c, TRUE), Exit(c, FALSE)}
  BY ExitLabel DEF FinishRun, RunFails
<1>2. Types'
  BY <1>1, GotoTypes DEF FinishRun, mode, cleaning, Inv, Types
<1>3. ASSUME shared, Common \in before, Untouched PROVE Untouched'
  <2>1. label \notin {"create", "teardown"}
    BY <1>1, <1>3, ExitKeeps DEF FinishRun, Untouched
  <2> QED BY <1>1, <1>3, <2>1, GotoKeeps DEF FinishRun, server, Inv
<1> QED BY <1>2, <1>3 DEF FinishRun, mode, cleaning, Inv

LEMMA FinishTeardownInv == ASSUME Inv, NEW c \in Client, FinishTeardown(c) PROVE Inv'
<1>1. pc[c] = "teardown"
  BY DEF FinishTeardown, Got
<1>2. Goto(c, "over")
  BY DEF FinishTeardown, TeardownFails
<1>3. Types'
  BY <1>2, GotoTypes DEF FinishTeardown, mode, cleaning, Inv, Types, Label
<1> QED BY <1>1, <1>3 DEF FinishTeardown, mode, cleaning, Inv, Untouched

LEMMA KillInv == ASSUME Inv, NEW c \in Client, Kill(c) PROVE Inv'
<1>1. Goto(c, "over") /\ "over" \in Label
  BY DEF Kill, Label
<1>2. Types'
  BY <1>1, GotoTypes DEF Kill, Fault, mode, Inv, Types
<1>3. ASSUME shared, Common \in before, Untouched PROVE Untouched'
  <2>1. \A r \in late' : r.kind \notin {"create", "teardown"}
    BY <1>3 DEF Kill, GiveUp, Untouched
  <2>2. \A d \in Client : /\ pc'[d] \notin {"create", "teardown"}
                          /\ pc'[d] = "check" => call'[d].status # "missing"
    BY <1>1, <1>3 DEF Goto, Inv, Types, Untouched
  <2> QED BY <1>3, <2>1, <2>2 DEF Kill, Untouched
<1> QED BY <1>2, <1>3 DEF Kill, mode, Inv

\* A cleanup passes over a shared project.
LEMMA CleanupInv == ASSUME Inv, Cleanup PROVE Inv'
<1>1. CASE StartCleanup
  BY <1>1 DEF StartCleanup, CleanUp, mode, server, Inv, Types, Untouched
<1>2. ASSUME NEW c \in Client, CleanUser(c) PROVE Inv'
  <2>1. ~shared
    BY <1>2 DEF CleanUser, Inv, Types
  <2>2. Types'
    BY <1>2, GotoTypes DEF CleanUser, mode, Inv, Types, Label, Requesting
  <2> QED BY <1>2, <2>1, <2>2 DEF CleanUser, mode, Inv
<1>3. CASE EndCleanup
  BY <1>3 DEF EndCleanup, mode, server, Inv, Types, Untouched
<1> QED BY <1>1, <1>2, <1>3 DEF Cleanup

LEMMA StutterInv == Inv /\ UNCHANGED vars => Inv'
BY DEF vars, Inv, Types, Untouched

-----------------------------------------------------------------------------
(* The theorems.                                                           *)

LEMMA NextInv == Inv /\ [Next]_vars => Inv'
<1> SUFFICES ASSUME Inv, [Next]_vars PROVE Inv'
  OBVIOUS
<1>1. ASSUME NEW c \in Client, Process(c) PROVE Inv'
  BY <1>1, SendInv, FinishPreflightInv, FinishCheckInv, FinishCreateInv, FinishIngestInv, FinishRunInv,
     FinishTeardownInv, NoAnswerInv DEF Process
<1>2. ASSUME NEW c \in Client, Answer(c) \/ ServerError(c) \/ Kill(c) PROVE Inv'
  BY <1>2, AnswerInv, ServerErrorInv, KillInv
<1>3. CASE ApplyLate
  BY <1>3, ApplyLateInv
<1>4. CASE Over \/ UNCHANGED vars
  BY <1>4, StutterInv DEF Over
<1>5. CASE Cleanup
  BY <1>5, CleanupInv
<1> QED BY <1>1, <1>2, <1>3, <1>4, <1>5 DEF Next

THEOREM Invariance == Spec => []Inv
BY InitInv, NextInv, PTL DEF Spec

\* A shared project that predates the run survives it, whatever is lost,
\* retried, answered late or raised (MemMachineClient.setup and teardown).
THEOREM FoundProjectStays == Spec => []FoundStays
<1>1. Inv => FoundStays
  BY DEF Inv, Untouched, FoundStays
<1> QED BY <1>1, Invariance, PTL

-----------------------------------------------------------------------------
(* No project is pulled away: the invariant.                               *)

Working == {"preflight", "check", "create", "ingest", "run"}

\* Several processes that share a project do not delete it.
Alone == shared /\ delete => \A c, d \in Client : c # d => pc[c] = "over" \/ pc[d] = "over"

\* Nobody deletes the project of c, or has asked to.
Undisturbed(c) ==
  /\ \A d \in Client : pc[d] = "teardown" => ProjectOf(d) # ProjectOf(c)
  /\ \A r \in late : r.kind = "teardown" => ProjectOf(r.client) # ProjectOf(c)

\* Backends without a setup create a project with the first add.
WithoutSetup == backend \in Lazy => \A c \in Client : pc[c] \notin {"preflight", "check", "create"}

\* The project of c is there, or its next label is not reached yet.
Standing(c) ==
  /\ pc[c] \in {"ingest", "run"} /\ (backend \in Lazy => batch[c] > 1) => ProjectOf(c) \in exists
  /\ pc[c] = "check" /\ call[c].status = "ok" => ProjectOf(c) \in exists
  /\ pc[c] = "create" /\ call[c].status \in {"ok", "conflict"} => ProjectOf(c) \in exists
  /\ pc[c] = "ingest" /\ call[c].status = "ok" => ProjectOf(c) \in exists

Safe(c) == pc[c] \in Working => Undisturbed(c) /\ Standing(c)

Secure == /\ backend \in Backend /\ (backend \in Lazy => ~shared)
          /\ \A c \in Client : call[c].sent => pc[c] \in Requesting
          /\ batch \in [Client -> Nat]
          /\ Alone /\ WithoutSetup
          /\ \A c \in Client : Safe(c)

\* Two processes are several.
LEMMA SeveralProcesses ==
  ASSUME NEW procs \in SUBSET Client, NEW c \in procs, NEW d \in procs, c # d
  PROVE  Cardinality(procs) > 1
<1>1. IsFiniteSet(procs) /\ Cardinality(procs) \in Nat
  BY LifecycleAssumption, FS_Subset, FS_CardinalityType DEF LifecycleAssumption
<1>2. Cardinality({c, d}) <= Cardinality(procs)
  BY <1>1, FS_Subset
<1>3. Cardinality({c, d}) = 2
  <2>1. Cardinality({c}) = 1 /\ IsFiniteSet({c})
    BY FS_Singleton
  <2>2. {c, d} = {c} \cup {d} /\ d \notin {c}
    OBVIOUS
  <2> QED BY <2>1, <2>2, FS_AddElement
<1> QED BY <1>1, <1>2, <1>3

LEMMA InitSecure == Init => Secure
<1> SUFFICES ASSUME Init PROVE Secure
  OBVIOUS
<1>1. PICK procs \in SUBSET Client :
        /\ Accepted(procs)
        /\ pc = [c \in Client |-> IF c \notin procs THEN "over"
                                  ELSE IF backend = "semantic" THEN "preflight" ELSE Setup]
  BY DEF Init
<1>2. backend \in Backend /\ (backend \in Lazy => ~shared) /\ batch \in [Client -> Nat]
  BY DEF Init, Shares, Rest, Lazy
<1>3. Alone
  <2> SUFFICES ASSUME shared, delete, NEW c \in Client, NEW d \in Client, c # d,
                      pc[c] # "over", pc[d] # "over"
               PROVE  FALSE
    BY DEF Alone
  <2>1. c \in procs /\ d \in procs
    BY <1>1
  <2> QED BY <1>1, <2>1, SeveralProcesses DEF Accepted
<1>4. WithoutSetup
  BY <1>1, <1>2 DEF WithoutSetup, Setup, NextLabel, Lazy
<1>5. ASSUME NEW c \in Client, pc[c] \in Working PROVE Undisturbed(c) /\ Standing(c)
  <2>1. \A d \in Client : pc[d] # "teardown"
    BY <1>1, SetupLabel
  <2>2. late = {} /\ call[c].status = "none" /\ batch[c] = 1
    BY DEF Init, Idle
  <2>3. pc[c] \in {"ingest", "run"} => backend \in Lazy
    BY <1>1, <1>5 DEF Setup, NextLabel
  <2> QED BY <2>1, <2>2, <2>3 DEF Undisturbed, Standing
<1>6. \A c \in Client : ~call[c].sent
  BY DEF Init, Idle
<1> QED BY <1>2, <1>3, <1>4, <1>5, <1>6 DEF Secure, Safe

-----------------------------------------------------------------------------
(* Its steps.                                                              *)

LEMMA SendSecure == ASSUME Inv, Secure, NEW c \in Client, Send(c) PROVE Secure'
BY DEF Send, SendAs, mode, server, cleaning, Inv, Types, Requests, Secure, Alone, WithoutSetup,
       Safe, Undisturbed, Standing, ProjectOf

\* What a request does to the project of a working process.
LEMMA ApplySafe ==
  ASSUME NEW c \in Client, NEW d, NEW b, NEW kind, Apply(kind, d, b),
         kind = "teardown" => ProjectOf(d) # ProjectOf(c), ProjectOf(c) \in exists
  PROVE  ProjectOf(c) \in exists'
BY DEF Apply

LEMMA AnswerSecure == ASSUME Inv, Secure, NEW c \in Client, Answer(c) PROVE Secure'
<1>1. /\ UNCHANGED <<mode, pc, batch, late>>
      /\ Apply(pc[c], c, batch[c])
  BY DEF Answer
<1>2. PICK status \in StatusOf(c) : call' = [call EXCEPT ![c].status = status]
  BY DEF Answer
<1>3. ASSUME NEW d \in Client, pc[d] \in Working PROVE Standing(d)'
  <2>1. Undisturbed(d) /\ Standing(d)
    BY <1>3 DEF Secure, Safe
  <2>2. ProjectOf(d) \in exists => ProjectOf(d) \in exists'
    BY <1>1, <2>1, ApplySafe DEF Undisturbed
  <2>3. d # c => call'[d] = call[d]
    BY <1>2 DEF Inv, Types
  <2>4. d = c /\ pc[c] \in {"check", "create", "ingest"} /\ status \in {"ok", "conflict"}
          => ProjectOf(c) \in exists'
    BY <1>1, <1>2 DEF StatusOf, Apply, Secure, WithoutSetup, Lazy
  <2>5. call'[c].status = status
    BY <1>2 DEF Inv, Types, Requests
  <2>6. pc'[d] = pc[d] /\ batch' = batch /\ backend' = backend /\ ProjectOf(d)' = ProjectOf(d)
    BY <1>1 DEF mode, ProjectOf
  <2> QED BY <2>1, <2>2, <2>3, <2>4, <2>5, <2>6 DEF Standing
<1>4. \A d \in Client : Undisturbed(d) => Undisturbed(d)'
  BY <1>1 DEF Undisturbed, mode, ProjectOf
<1>5. \A d \in Client : call'[d].sent = call[d].sent
  BY <1>2 DEF Inv, Types, Requests
<1> QED BY <1>1, <1>3, <1>4, <1>5 DEF Secure, Safe, Alone, WithoutSetup, mode

LEMMA ServerErrorSecure == ASSUME Inv, Secure, NEW c \in Client, ServerError(c) PROVE Secure'
BY DEF ServerError, Fault, mode, server, cleaning, Inv, Types, Requests, Secure, Alone, WithoutSetup,
       Safe, Undisturbed, Standing, ProjectOf

LEMMA ApplyLateSecure == ASSUME Inv, Secure, ApplyLate PROVE Secure'
<1>1. PICK r \in late : Apply(r.kind, r.client, r.batch) /\ late' = late \ {r}
  BY DEF ApplyLate
<1>2. UNCHANGED <<mode, pc, batch, call>>
  BY DEF ApplyLate
<1>3. ASSUME NEW c \in Client, pc[c] \in Working PROVE Undisturbed(c)' /\ Standing(c)'
  <2>1. Undisturbed(c) /\ Standing(c)
    BY <1>3 DEF Secure, Safe
  <2>2. ProjectOf(c) \in exists => ProjectOf(c) \in exists'
    BY <1>1, <2>1, ApplySafe DEF Undisturbed
  <2>3. Undisturbed(c)'
    BY <1>1, <1>2, <2>1 DEF Undisturbed, mode, ProjectOf
  <2> QED BY <1>2, <2>1, <2>2, <2>3 DEF Standing, mode, ProjectOf
<1> QED BY <1>2, <1>3 DEF Secure, Safe, Alone, WithoutSetup, mode

\* A process moves on.  It works on only if it worked before, and ingests only with
\* its project there; and it deletes only what nobody else works with.
LEMMA MoveSecure ==
  ASSUME Inv, Secure, NEW c \in Client, NEW label \in Label, Goto(c, label),
         UNCHANGED <<mode, exists>>, batch' \in [Client -> Nat],
         \A d \in Client : d # c => batch'[d] = batch[d],
         \A r \in late' : r \in late \/ (r.client = c /\ r.kind = pc[c]),
         label \in Working => pc[c] \in Working /\ (backend \in Lazy => label \in {"ingest", "run"}),
         label = "teardown" => pc[c] \in Working /\ delete,
         label \in {"ingest", "run"} /\ (backend \in Lazy => batch'[c] > 1) =>
           ProjectOf(c) \in exists
  PROVE  Secure'
<1>1. /\ pc' = [pc EXCEPT ![c] = label] /\ pc'[c] = label
      /\ \A d \in Client : d # c => pc'[d] = pc[d] /\ call'[d] = call[d]
      /\ call'[c].status = "none" /\ ~call'[c].sent
  BY DEF Goto, Idle, Inv, Types
<1>2. \A d \in Client : ProjectOf(d)' = ProjectOf(d)
  BY DEF mode, ProjectOf
<1>3. label # "over" => pc[c] # "over"
  BY DEF Label, Requesting, Working
<1>4. Alone'
  BY <1>1, <1>3 DEF Alone, Secure, mode
<1>5. WithoutSetup'
  BY <1>1 DEF WithoutSetup, Secure, Working, mode
<1>6. ASSUME NEW d \in Client, pc'[d] \in Working PROVE Undisturbed(d)' /\ Standing(d)'
  <2>1. pc[d] \in Working
    BY <1>1, <1>6
  <2>2. Undisturbed(d) /\ Standing(d)
    BY <2>1 DEF Secure, Safe
  <2>3. ASSUME label = "teardown" PROVE ProjectOf(c) # ProjectOf(d)
    <3>1. c # d /\ pc[c] # "over" /\ pc[d] # "over"
      BY <1>1, <1>6, <2>1, <2>3 DEF Working
    <3>2. ~shared
      BY <2>3, <3>1 DEF Secure, Alone
    <3> QED BY <3>1, <3>2 DEF ProjectOf
  <2>4. \A e \in Client : pc'[e] = "teardown" => ProjectOf(e)' # ProjectOf(d)'
    BY <1>1, <1>2, <2>2, <2>3 DEF Undisturbed
  <2>5. \A r \in late' : r.kind = "teardown" => ProjectOf(r.client)' # ProjectOf(d)'
    <3> SUFFICES ASSUME NEW r \in late', r.kind = "teardown"
                 PROVE  ProjectOf(r.client)' # ProjectOf(d)'
      OBVIOUS
    <3>1. ProjectOf(r.client)' = ProjectOf(r.client)
      BY DEF mode, ProjectOf
    <3> QED BY <1>2, <2>2, <3>1 DEF Undisturbed
  <2>6. Standing(d)'
    <3>1. CASE d = c
      BY <1>1, <1>2, <3>1 DEF Standing, mode
    <3>2. CASE d # c
      BY <1>1, <1>2, <2>2, <3>2 DEF Standing, mode
    <3> QED BY <3>1, <3>2
  <2> QED BY <2>4, <2>5, <2>6 DEF Undisturbed
<1>7. \A d \in Client : call'[d].sent => pc'[d] \in Requesting
  BY <1>1 DEF Secure
<1> QED BY <1>4, <1>5, <1>6, <1>7 DEF Secure, Safe, mode

LEMMA ExitSafe ==
  ASSUME NEW c \in Client, NEW ok \in BOOLEAN
  PROVE  Exit(c, ok) \in Label \ Working /\ (Exit(c, ok) = "teardown" => delete)
BY DEF Exit, Label, Requesting, Working

LEMMA NoAnswerSecure == ASSUME Inv, Secure, NEW c \in Client, NoAnswer(c) PROVE Secure'
<1>1. /\ UNCHANGED <<mode, batch, exists>>
      /\ \A r \in late' : r \in late \/ (r.client = c /\ r.kind = pc[c])
      /\ call[c].sent
  BY DEF NoAnswer, GiveUp
<1>2. CASE MayRetry(c)
  <2>1. pc' = pc /\ SendAs(c, call[c].tries + 1)
    BY <1>2 DEF NoAnswer
  <2>2. /\ call'[c].sent /\ call'[c].status = "none"
        /\ \A d \in Client : d # c => call'[d] = call[d]
    BY <2>1 DEF SendAs, Inv, Types
  <2>3. ASSUME NEW d \in Client, pc[d] \in Working PROVE Undisturbed(d)' /\ Standing(d)'
    <3>1. Undisturbed(d) /\ Standing(d)
      BY <2>3 DEF Secure, Safe
    <3>2. \A e \in Client : pc'[e] = "teardown" => ProjectOf(e)' # ProjectOf(d)'
      BY <1>1, <2>1, <3>1 DEF Undisturbed, mode, ProjectOf
    <3>3. \A r \in late' : r.kind = "teardown" => ProjectOf(r.client)' # ProjectOf(d)'
      <4> SUFFICES ASSUME NEW r \in late', r.kind = "teardown"
                   PROVE  ProjectOf(r.client)' # ProjectOf(d)'
        OBVIOUS
      <4>1. r \in late \/ (r.client = c /\ pc[c] = "teardown")
        BY <1>1
      <4>2. ProjectOf(r.client)' = ProjectOf(r.client) /\ ProjectOf(d)' = ProjectOf(d)
        BY <1>1 DEF mode, ProjectOf
      <4> QED BY <3>1, <4>1, <4>2 DEF Undisturbed
    <3>4. Standing(d)'
      BY <1>1, <2>1, <2>2, <3>1 DEF Standing, mode, ProjectOf
    <3> QED BY <3>2, <3>3, <3>4 DEF Undisturbed
  <2>4. \A d \in Client : call'[d].sent => pc'[d] \in Requesting
    BY <1>1, <2>1, <2>2 DEF Secure
  <2> QED BY <1>1, <2>1, <2>3, <2>4 DEF Secure, Safe, Alone, WithoutSetup, mode
<1>3. CASE ~MayRetry(c)
  <2>1. PICK label \in Label \ Working :
          /\ Goto(c, label)
          /\ label = "teardown" => pc[c] \in Working /\ delete
    <3>1. pc[c] \in Requesting
      BY <1>1 DEF Secure
    <3>2. CASE pc[c] \in {"preflight", "teardown"}
      BY <1>3, <3>2 DEF NoAnswer, PreflightFails, TeardownFails, Label, Working
    <3>3. CASE pc[c] \notin {"preflight", "teardown"}
      BY <1>3, <3>1, <3>3, ExitSafe DEF NoAnswer, RunFails, Requesting, Working
    <3> QED BY <3>2, <3>3
  <2>2. batch' \in [Client -> Nat]
    BY <1>1 DEF Secure
  <2> QED BY <1>1, <2>1, <2>2, MoveSecure DEF Working
<1> QED BY <1>2, <1>3

LEMMA FinishSecure ==
  ASSUME Inv, Secure, NEW c \in Client,
         FinishPreflight(c) \/ FinishCheck(c) \/ FinishCreate(c)
  PROVE  Secure'
<1>1. UNCHANGED <<mode, batch, exists, late>> /\ batch' \in [Client -> Nat]
  BY DEF FinishPreflight, FinishCheck, FinishCreate, server, Secure
<1>2. pc[c] \in {"preflight", "check", "create"} /\ backend \notin Lazy
  BY DEF FinishPreflight, FinishCheck, FinishCreate, Checked, Got, Secure, WithoutSetup
<1>3. Standing(c)
  BY <1>2 DEF Secure, Safe, Working
<1>4. PICK label \in Label :
        /\ Goto(c, label)
        /\ label = "teardown" => delete
        /\ label \in {"ingest", "run"} => ProjectOf(c) \in exists
  <2>1. CASE FinishPreflight(c)
    BY <1>2, <2>1, SetupLabel DEF FinishPreflight, PreflightFails, Setup, Label, Requesting
  <2>2. CASE FinishCheck(c)
    <3>1. CASE Got(c, "check", {"ok"}) /\ Goto(c, NextLabel)
      BY <1>3, <3>1, SetupLabel DEF Got, Standing, Label, Requesting
    <3>2. CASE Got(c, "check", {"missing"}) /\ Goto(c, "create")
      BY <3>2 DEF Label, Requesting
    <3>3. CASE RunFails(c, "setup")
      BY <3>3, ExitSafe DEF RunFails, Working
    <3> QED BY <2>2, <3>1, <3>2, <3>3 DEF FinishCheck, Checked
  <2>3. CASE FinishCreate(c)
    <3>1. CASE Got(c, "create", {"ok", "conflict"}) /\ Goto(c, NextLabel)
      BY <1>3, <3>1, SetupLabel DEF Got, Standing, Label, Requesting
    <3>2. CASE Goto(c, "create")
      BY <3>2 DEF Label, Requesting
    <3>3. CASE RunFails(c, "setup")
      BY <3>3, ExitSafe DEF RunFails, Working
    <3> QED BY <2>3, <3>1, <3>2, <3>3 DEF FinishCreate, Got
  <2> QED BY <2>1, <2>2, <2>3
<1> QED BY <1>1, <1>2, <1>4, MoveSecure DEF Working

LEMMA FinishIngestSecure == ASSUME Inv, Secure, NEW c \in Client, FinishIngest(c) PROVE Secure'
<1>1. UNCHANGED <<mode, exists, late>> /\ pc[c] = "ingest"
  BY DEF FinishIngest, Got, server
<1>2. batch' \in [Client -> Nat] /\ \A d \in Client : d # c => batch'[d] = batch[d]
  BY DEF FinishIngest, Secure
<1>3. Standing(c)
  BY <1>1 DEF Secure, Safe, Working
<1>4. PICK label \in Label :
        /\ Goto(c, label)
        /\ label \in {"ingest", "run"} => ProjectOf(c) \in exists
        /\ label \in Working => label \in {"ingest", "run"}
        /\ label = "teardown" => delete
  <2>1. CASE Got(c, "ingest", {"ok"}) /\ Goto(c, NextRequest(c))
    BY <1>3, <2>1 DEF Got, Standing, NextRequest, Label, Requesting
  <2>2. CASE RunFails(c, "setup")
    BY <2>2, ExitSafe DEF RunFails, Working
  <2> QED BY <2>1, <2>2 DEF FinishIngest, GoesOn
<1> QED BY <1>1, <1>2, <1>4, MoveSecure DEF Working

LEMMA FinishRunSecure == ASSUME Inv, Secure, NEW c \in Client, FinishRun(c) PROVE Secure'
<1>1. UNCHANGED <<mode, batch, exists, late>> /\ pc[c] = "run" /\ batch' \in [Client -> Nat]
  BY DEF FinishRun, server, Secure
<1>2. PICK label \in Label \ Working : Goto(c, label) /\ (label = "teardown" => delete)
  BY ExitSafe DEF FinishRun, RunFails
<1> QED BY <1>1, <1>2, MoveSecure DEF Working

LEMMA OverSecure ==
  ASSUME Inv, Secure, NEW c \in Client, FinishTeardown(c) \/ Kill(c)
  PROVE  Secure'
<1>1. UNCHANGED <<mode, batch, exists>> /\ batch' \in [Client -> Nat]
  BY DEF FinishTeardown, Kill, server, Secure
<1>2. \A r \in late' : r \in late \/ (r.client = c /\ r.kind = pc[c])
  BY DEF FinishTeardown, Kill, GiveUp, server
<1>3. Goto(c, "over") /\ "over" \in Label \ Working
  BY DEF FinishTeardown, TeardownFails, Kill, Label, Working
<1> QED BY <1>1, <1>2, <1>3, MoveSecure DEF Working

\* A cleanup works when no process does.
LEMMA CleanupSecure == ASSUME Inv, Secure, Cleanup PROVE Secure'
<1>1. CASE StartCleanup \/ EndCleanup
  BY <1>1 DEF StartCleanup, EndCleanup, mode, server, Secure, Safe, Alone, WithoutSetup, Undisturbed,
              Standing, ProjectOf
<1>2. ASSUME NEW c \in Client, CleanUser(c) PROVE Secure'
  <2>1. \A d \in Client : pc'[d] = IF d = c THEN "teardown" ELSE "over"
    BY <1>2 DEF CleanUser, AllOver, Goto, Inv, Types
  <2>2. \A d \in Client : call'[d].sent => d # c /\ call[d].sent
    BY <1>2 DEF CleanUser, Goto, Idle, Inv, Types
  <2>3. \A d \in Client : call[d].sent => pc[d] # "over"
    BY DEF Secure, Requesting
  <2> QED BY <1>2, <2>1, <2>2, <2>3 DEF CleanUser, AllOver, mode, Secure, Safe, Alone, WithoutSetup,
                                         Working
<1> QED BY <1>1, <1>2 DEF Cleanup

LEMMA SecureNext == Inv /\ Secure /\ [Next]_vars => Secure'
<1> SUFFICES ASSUME Inv, Secure, [Next]_vars PROVE Secure'
  OBVIOUS
<1>1. ASSUME NEW c \in Client, Process(c) PROVE Secure'
  BY <1>1, SendSecure, FinishSecure, FinishIngestSecure, FinishRunSecure, OverSecure, NoAnswerSecure
     DEF Process
<1>2. ASSUME NEW c \in Client, Answer(c) \/ ServerError(c) \/ Kill(c) PROVE Secure'
  BY <1>2, AnswerSecure, ServerErrorSecure, OverSecure
<1>3. CASE ApplyLate
  BY <1>3, ApplyLateSecure
<1>4. CASE Over \/ UNCHANGED vars
  BY <1>4 DEF Over, vars, Secure, Safe, Alone, WithoutSetup, Undisturbed, Standing, ProjectOf
<1>5. CASE Cleanup
  BY <1>5, CleanupSecure
<1> QED BY <1>1, <1>2, <1>3, <1>4, <1>5 DEF Next

\* No process loses its project to another one's teardown, nor to a request that comes
\* late (_run's refusal, teardown).
THEOREM NobodyPulledAway == Spec => []NotPulledAway
<1>1. Spec => []Secure
  BY InitSecure, SecureNext, Invariance, PTL DEF Spec
<1>2. Secure => NotPulledAway
  BY DEF Secure, Safe, Standing, Working, NotPulledAway
<1> QED BY <1>1, <1>2, PTL

-----------------------------------------------------------------------------
(* The corpus is whole: the invariant.                                     *)

Elems(s) == {s[n] : n \in DOMAIN s}

\* Whatever is stored, all that comes before it was stored before it.
Gapless(s) == \A n \in 1 .. Len(s) : \A b \in 1 .. s[n] - 1 : \E m \in 1 .. n : s[m] = b

\* The batches before the one that user c is at, perhaps that one as well, and no other.
Stocked(c, s) == /\ 1 .. batch[c] - 1 \subseteq Elems(s)
                 /\ Elems(s) \subseteq 1 .. batch[c] /\ Elems(s) \subseteq 1 .. Batches
                 /\ Gapless(s)

\* What user c has on the server, while its process works, and what may still come.
Progress(c) ==
  pc[c] \in Working =>
    /\ Stocked(c, stored[c])
    /\ pc[c] \in {"preflight", "check", "create"} => batch[c] = 1 /\ stored[c] = <<>>
    /\ \A r \in late : r.kind = "ingest" /\ r.client = c =>
         pc[c] \in {"ingest", "run"} /\ r.batch \in 1 .. batch[c] /\ r.batch \in 1 .. Batches
    /\ pc[c] = "ingest" => /\ batch[c] <= Batches
                           /\ call[c].status = "ok" => batch[c] \in Elems(stored[c])
    /\ pc[c] = "run" => batch[c] = Batches + 1
    /\ faults = 0 => Len(stored[c]) = IF pc[c] = "ingest" /\ call[c].status = "ok"
                                      THEN batch[c] ELSE batch[c] - 1

Loading == /\ stored \in [Client -> Seq(Nat)] /\ batch \in [Client -> Nat \ {0}]
           /\ faults \in Nat /\ (faults = 0 => late = {})
           /\ \A r \in late : r.batch \in Nat
           /\ \A c \in Client : call[c].status # "none" => call[c].sent
           /\ \A c \in Client : Progress(c)

LEMMA Appended ==
  ASSUME NEW s \in Seq(Nat), NEW b \in Nat
  PROVE  /\ Append(s, b) \in Seq(Nat) /\ Len(Append(s, b)) = Len(s) + 1 /\ Len(s) \in Nat
         /\ Elems(Append(s, b)) = Elems(s) \cup {b}
         /\ Gapless(s) /\ 1 .. b - 1 \subseteq Elems(s) => Gapless(Append(s, b))
<1> DEFINE t == Append(s, b)
<1>1. /\ t \in Seq(Nat) /\ Len(t) = Len(s) + 1 /\ Len(s) \in Nat
      /\ DOMAIN s = 1 .. Len(s) /\ DOMAIN t = 1 .. Len(t)
      /\ \A n \in 1 .. Len(s) : t[n] = s[n]
      /\ t[Len(s) + 1] = b
  BY LenProperties, AppendProperties
<1> HIDE DEF t
<1>2. Elems(t) = Elems(s) \cup {b}
  BY <1>1 DEF Elems
<1>3. ASSUME Gapless(s), 1 .. b - 1 \subseteq Elems(s) PROVE Gapless(t)
  <2> SUFFICES ASSUME NEW n \in 1 .. Len(t), NEW v \in 1 .. t[n] - 1
               PROVE  \E m \in 1 .. n : t[m] = v
    BY DEF Gapless
  <2>1. CASE n <= Len(s)
    <3>1. n \in 1 .. Len(s) /\ v \in 1 .. s[n] - 1
      BY <1>1, <2>1
    <3>2. PICK m \in 1 .. n : s[m] = v
      BY <1>3, <3>1 DEF Gapless
    <3> QED BY <1>1, <2>1, <3>2
  <2>2. CASE n = Len(s) + 1
    <3>1. v \in Elems(s)
      BY <1>1, <1>3, <2>2
    <3>2. PICK m \in 1 .. Len(s) : s[m] = v
      BY <1>1, <3>1 DEF Elems
    <3> QED BY <1>1, <2>2, <3>2
  <2> QED BY <1>1, <2>1, <2>2
<1> QED BY <1>1, <1>2, <1>3 DEF t

LEMMA InitLoading == Init => Loading
<1> SUFFICES ASSUME Init PROVE Loading
  OBVIOUS
<1>1. /\ stored = [c \in Client |-> <<>>] /\ batch = [c \in Client |-> 1]
      /\ faults = 0 /\ late = {} /\ call = [c \in Client |-> Idle] /\ Batches \in Nat
  BY LifecycleAssumption DEF Init, LifecycleAssumption
<1>2. Elems(<<>>) = {} /\ Gapless(<<>>) /\ Len(<<>>) = 0
  BY DEF Elems, Gapless
<1>3. ASSUME NEW c \in Client, pc[c] \in Working
      PROVE  (pc[c] = "ingest" => 1 <= Batches) /\ (pc[c] = "run" => Batches = 0)
  <2>1. pc[c] \in {"over", "preflight", Setup}
    BY DEF Init
  <2> QED BY <1>1, <1>3, <2>1 DEF Setup, NextLabel, Working
<1>4. ASSUME NEW c \in Client PROVE Progress(c)
  BY <1>1, <1>2, <1>3 DEF Progress, Stocked, Idle
<1> QED BY <1>1, <1>4 DEF Loading, Idle

-----------------------------------------------------------------------------
(* Its steps.                                                              *)

\* A step that user c does not notice.
LEMMA Unnoticed ==
  ASSUME NEW c \in Client, Progress(c), pc'[c] = pc[c], batch'[c] = batch[c],
         stored'[c] = stored[c],
         \A r \in late' : r \in late \/ r.client # c \/ (r.kind = pc[c] /\ r.batch = batch[c]),
         batch[c] \in Nat \ {0},
         pc[c] = "ingest" => (call'[c].status = "ok" => call[c].status = "ok"),
         pc[c] = "ingest" => (call[c].status = "ok" => call'[c].status = "ok" \/ faults' # 0),
         faults' = 0 => faults = 0
  PROVE  Progress(c)'
<1> SUFFICES ASSUME pc[c] \in Working PROVE Progress(c)'
  BY DEF Progress
<1>1. Stocked(c, stored[c])'
  BY DEF Progress, Stocked
<1>2. ASSUME NEW r \in late', r.kind = "ingest", r.client = c
      PROVE  pc[c] \in {"ingest", "run"} /\ r.batch \in 1 .. batch[c] /\ r.batch \in 1 .. Batches
  <2>1. CASE r \in late
    BY <1>2, <2>1 DEF Progress
  <2>2. CASE pc[c] = "ingest" /\ r.batch = batch[c]
    <3>1. Batches \in Nat /\ batch[c] <= Batches
      BY <2>2, LifecycleAssumption DEF Progress, LifecycleAssumption
    <3> QED BY <2>2, <3>1
  <2> QED BY <1>2, <2>1, <2>2
<1> QED BY <1>1, <1>2 DEF Progress

LEMMA SendLoading == ASSUME Inv, Loading, NEW c \in Client, Send(c) PROVE Loading'
<1>1. UNCHANGED <<pc, batch, stored, late, faults>>
  BY DEF Send, server
<1>2. \A d \in Client : /\ call'[d].status = call[d].status
                        /\ call'[d].status # "none" => call'[d].sent
  BY DEF Send, SendAs, Inv, Types, Loading
<1>3. ASSUME NEW d \in Client PROVE Progress(d)'
  <2>1. Progress(d) /\ batch[d] \in Nat \ {0}
    BY DEF Loading
  <2> QED BY <1>1, <1>2, <2>1, Unnoticed
<1> QED BY <1>1, <1>2, <1>3 DEF Loading

LEMMA StockedMore ==
  ASSUME NEW c \in Client, batch[c] \in Nat \ {0}, NEW s \in Seq(Nat), Stocked(c, s),
         NEW b \in 1 .. batch[c], b \in 1 .. Batches
  PROVE  Stocked(c, Append(s, b))
<1>1. b \in Nat /\ 1 .. b - 1 \subseteq Elems(s)
  BY DEF Stocked
<1> QED BY <1>1, Appended DEF Stocked

\* What a request does to the memories of a user.
LEMMA ApplyStored ==
  ASSUME stored \in [Client -> Seq(Nat)], NEW c, NEW b \in Nat, NEW kind, Apply(kind, c, b)
  PROVE  /\ stored' \in [Client -> Seq(Nat)]
         /\ \A d \in Client :
              \/ stored'[d] = stored[d]
              \/ kind = "ingest" /\ d = c /\ stored'[d] = Append(stored[d], b)
              \/ kind = "teardown" /\ ProjectOf(d) = ProjectOf(c)
<1>1. CASE kind = "ingest"
  <2>1. c \in Client => Append(stored[c], b) \in Seq(Nat)
    BY Appended
  <2> QED BY <1>1, <2>1 DEF Apply
<1>2. CASE kind = "teardown"
  <2>1. <<>> \in Seq(Nat)
    OBVIOUS
  <2> QED BY <1>2, <2>1 DEF Apply
<1>3. CASE kind \notin {"ingest", "teardown"}
  BY <1>3 DEF Apply
<1> QED BY <1>1, <1>2, <1>3

LEMMA AnswerLoading == ASSUME Inv, Secure, Loading, NEW c \in Client, Answer(c) PROVE Loading'
<1>1. /\ UNCHANGED <<mode, pc, batch, late, faults>>
      /\ Apply(pc[c], c, batch[c]) /\ batch[c] \in Nat
      /\ call[c].sent /\ call[c].status = "none"
  BY DEF Answer, Loading
<1>2. PICK status \in StatusOf(c) : call' = [call EXCEPT ![c].status = status]
  BY DEF Answer
<1>3. /\ call'[c].status = status /\ call'[c].sent = call[c].sent
      /\ \A d \in Client : d # c => call'[d] = call[d]
  BY <1>2 DEF Inv, Types, Requests
<1>4. /\ stored' \in [Client -> Seq(Nat)]
      /\ \A d \in Client :
           \/ stored'[d] = stored[d]
           \/ pc[c] = "ingest" /\ d = c /\ stored'[d] = Append(stored[d], batch[c])
           \/ pc[c] = "teardown" /\ ProjectOf(d) = ProjectOf(c)
  BY <1>1, ApplyStored DEF Loading
<1>5. ASSUME NEW d \in Client, pc[d] \in Working, d # c PROVE Progress(d)'
  <2>1. stored'[d] = stored[d]
    BY <1>4, <1>5 DEF Secure, Safe, Undisturbed
  <2>2. Progress(d) /\ batch[d] \in Nat \ {0}
    BY DEF Loading
  <2> QED BY <1>1, <1>3, <1>5, <2>1, <2>2, Unnoticed
<1>6. Progress(c) /\ batch[c] \in Nat \ {0} /\ stored[c] \in Seq(Nat)
  BY DEF Loading
<1>7. Progress(c)'
  <2>1. CASE pc[c] = "ingest"
    <3>1. \/ status = "ok" /\ stored'[c] = Append(stored[c], batch[c])
          \/ status # "ok" /\ stored'[c] = stored[c]
      BY <1>1, <1>2, <1>6, <2>1 DEF Apply, StatusOf, Loading, Lazy
    <3>2. CASE status # "ok" /\ stored'[c] = stored[c]
      BY <1>1, <1>3, <1>6, <3>2, Unnoticed
    <3>3. CASE status = "ok" /\ stored'[c] = Append(stored[c], batch[c])
      <4>1. /\ Stocked(c, stored[c]) /\ batch[c] \in 1 .. batch[c] /\ batch[c] \in 1 .. Batches
            /\ faults = 0 => Len(stored[c]) = batch[c] - 1
        BY <1>1, <1>6, <2>1, LifecycleAssumption DEF Progress, Working, LifecycleAssumption
      <4>2. /\ Stocked(c, stored'[c]) /\ Len(stored'[c]) = Len(stored[c]) + 1
            /\ batch[c] \in Elems(stored'[c])
        BY <1>6, <3>3, <4>1, StockedMore, Appended
      <4>3. Stocked(c, stored[c])'
        BY <1>1, <4>2 DEF Stocked
      <4> QED BY <1>1, <1>3, <1>6, <2>1, <3>3, <4>1, <4>2, <4>3 DEF Progress
    <3> QED BY <3>1, <3>2, <3>3
  <2>2. CASE pc[c] # "ingest" /\ pc[c] \in Working
    <3>1. stored'[c] = stored[c]
      BY <1>4, <2>2 DEF Working
    <3> QED BY <1>1, <1>6, <2>2, <3>1, Unnoticed
  <2>3. CASE pc[c] \notin Working
    BY <1>1, <2>3 DEF Progress
  <2> QED BY <2>1, <2>2, <2>3
<1>8. ASSUME NEW d \in Client PROVE Progress(d)'
  <2>1. CASE d = c
    BY <1>7, <2>1
  <2>2. CASE d # c /\ pc[d] \in Working
    BY <1>5, <2>2
  <2>3. CASE pc[d] \notin Working
    BY <1>1, <2>3 DEF Progress
  <2> QED BY <2>1, <2>2, <2>3
<1> QED BY <1>1, <1>3, <1>4, <1>8 DEF Loading

LEMMA ServerErrorLoading == ASSUME Inv, Loading, NEW c \in Client, ServerError(c) PROVE Loading'
<1>1. UNCHANGED <<pc, batch, stored, late>> /\ faults' = faults + 1 /\ faults \in Nat
  BY DEF ServerError, Fault, server, Loading
<1>2. /\ call'[c].status = "error" /\ call'[c].sent
      /\ \A d \in Client : d # c => call'[d] = call[d]
  BY DEF ServerError, Inv, Types, Requests
<1>3. ASSUME NEW d \in Client PROVE Progress(d)'
  <2>1. Progress(d) /\ batch[d] \in Nat \ {0} /\ call[c].status = "none"
    BY DEF Loading, ServerError
  <2> QED BY <1>1, <1>2, <2>1, Unnoticed
<1>4. \A d \in Client : call'[d].status # "none" => call'[d].sent
  BY <1>2 DEF Loading
<1>5. faults' \in Nat /\ faults' # 0
  BY <1>1
<1> QED BY <1>1, <1>3, <1>4, <1>5 DEF Loading

LEMMA ApplyLateLoading == ASSUME Inv, Secure, Loading, ApplyLate PROVE Loading'
<1>1. PICK r \in late : Apply(r.kind, r.client, r.batch) /\ late' = late \ {r}
  BY DEF ApplyLate
<1>2. UNCHANGED <<mode, pc, batch, call, faults>> /\ faults # 0 /\ r.batch \in Nat
  BY <1>1 DEF ApplyLate, Loading
<1>3. /\ stored' \in [Client -> Seq(Nat)]
      /\ \A d \in Client :
           \/ stored'[d] = stored[d]
           \/ r.kind = "ingest" /\ d = r.client /\ stored'[d] = Append(stored[d], r.batch)
           \/ r.kind = "teardown" /\ ProjectOf(d) = ProjectOf(r.client)
  BY <1>1, <1>2, ApplyStored DEF Loading
<1>4. ASSUME NEW d \in Client, pc[d] \in Working PROVE Progress(d)'
  <2>1. Progress(d) /\ batch[d] \in Nat \ {0} /\ stored[d] \in Seq(Nat)
    BY DEF Loading
  <2>2. CASE stored'[d] = stored[d]
    BY <1>1, <1>2, <2>1, <2>2, Unnoticed
  <2>3. CASE r.kind = "ingest" /\ d = r.client /\ stored'[d] = Append(stored[d], r.batch)
    <3>1. /\ pc[d] \in {"ingest", "run"} /\ r.batch \in 1 .. batch[d] /\ r.batch \in 1 .. Batches
          /\ Stocked(d, stored[d])
      BY <1>4, <2>1, <2>3 DEF Progress
    <3>2. Stocked(d, stored'[d])
      BY <2>1, <2>3, <3>1, StockedMore
    <3>3. Elems(stored'[d]) = Elems(stored[d]) \cup {r.batch}
      BY <1>2, <2>1, <2>3, Appended
    <3>4. Stocked(d, stored[d])'
      BY <1>2, <3>2 DEF Stocked
    <3> QED BY <1>1, <1>2, <1>4, <2>1, <3>1, <3>3, <3>4 DEF Progress
  <2> QED BY <1>3, <1>4, <2>2, <2>3 DEF Secure, Safe, Undisturbed
<1>5. \A d \in Client : Progress(d)'
  BY <1>2, <1>4 DEF Progress
<1> QED BY <1>1, <1>2, <1>3, <1>5 DEF Loading

\* A process moves on, or sends its request once more: the others do not notice.
LEMMA MoveLoading ==
  ASSUME Inv, Loading, NEW c \in Client, Progress(c)',
         pc' \in [Client -> Label], call' \in [Client -> Requests],
         \A d \in Client : d # c => pc'[d] = pc[d] /\ call'[d] = call[d] /\ batch'[d] = batch[d],
         call'[c].status = "none",
         UNCHANGED stored, batch' \in [Client -> Nat \ {0}],
         faults' \in Nat, faults' = 0 => faults = 0 /\ late' = late,
         \A r \in late' : r \in late \/ (r.client = c /\ r.batch = batch[c])
  PROVE  Loading'
<1>1. ASSUME NEW d \in Client PROVE Progress(d)'
  <2>1. CASE d = c
    BY <2>1
  <2>2. CASE d # c
    <3>1. Progress(d) /\ batch[d] \in Nat \ {0} /\ stored'[d] = stored[d]
      BY DEF Loading
    <3>2. \A r \in late' : r \in late \/ r.client # d
      BY <2>2
    <3> QED BY <2>2, <3>1, <3>2, Unnoticed
  <2> QED BY <2>1, <2>2
<1>2. \A r \in late' : r.batch \in Nat
  BY DEF Loading
<1>3. \A d \in Client : call'[d].status # "none" => call'[d].sent
  BY DEF Loading
<1> QED BY <1>1, <1>2, <1>3 DEF Loading

LEMMA GotoParts ==
  ASSUME Inv, NEW c \in Client, NEW label \in Label, Goto(c, label)
  PROVE  /\ pc' \in [Client -> Label] /\ call' \in [Client -> Requests]
         /\ pc'[c] = label /\ call'[c].status = "none"
         /\ \A d \in Client : d # c => pc'[d] = pc[d] /\ call'[d] = call[d]
BY GotoTypes DEF Goto, Idle, Inv, Types

\* A process stops working.
LEMMA LeaveLoading ==
  ASSUME Inv, Loading, NEW c \in Client, NEW label \in Label \ Working, Goto(c, label),
         UNCHANGED <<batch, stored>>, faults' \in {faults, faults + 1},
         late' = late \/ faults' = faults + 1,
         \A r \in late' : r \in late \/ (r.client = c /\ r.batch = batch[c])
  PROVE  Loading'
<1>1. Progress(c)'
  BY GotoParts DEF Progress
<1>2. faults' \in Nat /\ (faults' = 0 => faults = 0 /\ late' = late)
  BY DEF Loading
<1>3. batch' \in [Client -> Nat \ {0}]
  BY DEF Loading
<1> QED BY <1>1, <1>2, <1>3, GotoParts, MoveLoading

\* A process that has not come to its corpus moves on.
LEMMA BeforeLoading ==
  ASSUME Inv, Loading, NEW c \in Client, NEW label \in Label, Goto(c, label),
         pc[c] \in {"preflight", "check", "create"},
         label = "ingest" => Batches # 0, label = "run" => Batches = 0,
         UNCHANGED <<batch, stored, faults, late>>
  PROVE  Loading'
<1>1. /\ Stocked(c, stored[c]) /\ batch[c] = 1 /\ stored[c] = <<>> /\ Batches \in Nat
      /\ \A r \in late : ~(r.kind = "ingest" /\ r.client = c)
      /\ faults = 0 => Len(stored[c]) = batch[c] - 1
  BY LifecycleAssumption DEF Loading, Progress, Working, LifecycleAssumption
<1>2. pc'[c] = label /\ call'[c].status = "none"
  BY GotoParts
<1>3. Stocked(c, stored[c])'
  BY <1>1 DEF Stocked
<1>4. Progress(c)'
  BY <1>1, <1>2, <1>3 DEF Progress
<1>5. faults' \in Nat /\ batch' \in [Client -> Nat \ {0}]
  BY DEF Loading
<1> QED BY <1>4, <1>5, GotoParts, MoveLoading

LEMMA FinishLoading ==
  ASSUME Inv, Loading, NEW c \in Client,
         FinishPreflight(c) \/ FinishCheck(c) \/ FinishCreate(c)
  PROVE  Loading'
<1>1. UNCHANGED <<batch, stored, faults, late>> /\ pc[c] \in {"preflight", "check", "create"}
  BY DEF FinishPreflight, FinishCheck, FinishCreate, Checked, Got, server
<1>2. \E label \in Label : /\ Goto(c, label)
                           /\ label = "ingest" => Batches # 0
                           /\ label = "run" => Batches = 0
  <2>1. CASE FinishPreflight(c)
    BY <2>1, SetupLabel DEF FinishPreflight, PreflightFails, Setup, NextLabel, Label, Requesting
  <2>2. CASE FinishCheck(c)
    <3>1. CASE Goto(c, NextLabel)
      BY <3>1, SetupLabel DEF NextLabel, Label, Requesting
    <3>2. CASE Goto(c, "create")
      BY <3>2 DEF Label, Requesting
    <3>3. CASE RunFails(c, "setup")
      BY <3>3, ExitSafe DEF RunFails, Working
    <3> QED BY <2>2, <3>1, <3>2, <3>3 DEF FinishCheck, Checked
  <2>3. CASE FinishCreate(c)
    <3>1. CASE Goto(c, NextLabel)
      BY <3>1, SetupLabel DEF NextLabel, Label, Requesting
    <3>2. CASE Goto(c, "create")
      BY <3>2 DEF Label, Requesting
    <3>3. CASE RunFails(c, "setup")
      BY <3>3, ExitSafe DEF RunFails, Working
    <3> QED BY <2>3, <3>1, <3>2, <3>3 DEF FinishCreate
  <2> QED BY <1>1, <2>1, <2>2, <2>3
<1>3. ASSUME NEW label \in Label, Goto(c, label), label = "ingest" => Batches # 0,
             label = "run" => Batches = 0
      PROVE  Loading'
  BY <1>1, <1>3, BeforeLoading
<1> QED BY <1>2, <1>3

LEMMA FinishIngestLoading == ASSUME Inv, Loading, NEW c \in Client, FinishIngest(c) PROVE Loading'
<1>1. UNCHANGED <<stored, faults, late>> /\ pc[c] = "ingest"
  BY DEF FinishIngest, Got, server
<1>2. CASE RunFails(c, "setup") /\ UNCHANGED batch
  BY <1>1, <1>2, ExitSafe, LeaveLoading DEF RunFails
<1>3. CASE /\ Got(c, "ingest", {"ok"}) /\ Goto(c, NextRequest(c))
           /\ batch' = [batch EXCEPT ![c] = @ + 1]
  <2> DEFINE b == batch[c]
  <2>1. b \in Nat \ {0} /\ Batches \in Nat /\ Progress(c) /\ faults \in Nat
    BY LifecycleAssumption DEF Loading, LifecycleAssumption
  <2>2. /\ batch' \in [Client -> Nat \ {0}] /\ batch'[c] = b + 1
        /\ \A d \in Client : d # c => batch'[d] = batch[d]
    BY <1>3 DEF Loading
  <2>3. /\ NextRequest(c) \in Label /\ pc'[c] = NextRequest(c) /\ call'[c].status = "none"
        /\ NextRequest(c) = IF b = Batches THEN "run" ELSE "ingest"
    <3>1. NextRequest(c) \in Label
      BY DEF NextRequest, Label, Requesting
    <3> QED BY <1>3, <3>1, GotoParts DEF NextRequest
  <2>4. /\ Stocked(c, stored[c]) /\ b <= Batches /\ b \in Elems(stored[c])
        /\ faults = 0 => Len(stored[c]) = b
        /\ \A r \in late : r.kind = "ingest" /\ r.client = c =>
             r.batch \in 1 .. b /\ r.batch \in 1 .. Batches
    BY <1>1, <1>3, <2>1 DEF Got, Progress, Working
  <2> HIDE DEF b
  <2>5. Stocked(c, stored[c])'
    <3>1. 1 .. (b + 1) - 1 \subseteq Elems(stored[c]) /\ Elems(stored[c]) \subseteq 1 .. b + 1
      BY <2>1, <2>4 DEF Stocked, b
    <3> QED BY <1>1, <2>2, <2>4, <3>1 DEF Stocked
  <2>6. \A r \in late' : r.kind = "ingest" /\ r.client = c =>
          r.batch \in 1 .. batch'[c] /\ r.batch \in 1 .. Batches
    BY <1>1, <2>1, <2>2, <2>4
  <2>7. /\ b = Batches => batch'[c] = Batches + 1
        /\ b # Batches => batch'[c] <= Batches
        /\ faults' = 0 => Len(stored'[c]) = batch'[c] - 1
    BY <1>1, <2>1, <2>2, <2>4
  <2>8. Progress(c)'
    BY <2>3, <2>5, <2>6, <2>7 DEF Progress
  <2>9. \A d \in Client : d # c => pc'[d] = pc[d] /\ call'[d] = call[d] /\ batch'[d] = batch[d]
    BY <1>3, <2>2, <2>3, GotoParts
  <2>10. pc' \in [Client -> Label] /\ call' \in [Client -> Requests]
    BY <1>3, <2>3, GotoParts
  <2>11. faults' \in Nat /\ (faults' = 0 => faults = 0 /\ late' = late)
    BY <1>1, <2>1
  <2>12. \A r \in late' : r \in late
    BY <1>1
  <2> QED BY <1>1, <2>2, <2>3, <2>8, <2>9, <2>10, <2>11, <2>12, MoveLoading
<1> QED BY <1>2, <1>3 DEF FinishIngest, GoesOn

LEMMA FinishRunLoading == ASSUME Inv, Loading, NEW c \in Client, FinishRun(c) PROVE Loading'
<1>1. UNCHANGED <<batch, stored, faults, late>>
  BY DEF FinishRun, server
<1>2. PICK label \in Label \ Working : Goto(c, label)
  BY ExitSafe DEF FinishRun, RunFails
<1> QED BY <1>1, <1>2, LeaveLoading

LEMMA OverLoading ==
  ASSUME Inv, Loading, NEW c \in Client, FinishTeardown(c) \/ Kill(c)
  PROVE  Loading'
<1>1. /\ UNCHANGED <<batch, stored>>
      /\ faults' = faults + 1 \/ (faults' = faults /\ late' = late)
      /\ \A r \in late' : r \in late \/ (r.client = c /\ r.batch = batch[c])
  BY DEF FinishTeardown, Kill, Fault, GiveUp, server
<1>2. Goto(c, "over") /\ "over" \in Label \ Working
  BY DEF FinishTeardown, TeardownFails, Kill, Label, Working
<1> QED BY <1>1, <1>2, LeaveLoading

LEMMA NoAnswerLoading == ASSUME Inv, Secure, Loading, NEW c \in Client, NoAnswer(c) PROVE Loading'
<1>1. /\ UNCHANGED <<batch, stored>> /\ faults' = faults + 1 /\ faults \in Nat
      /\ \A r \in late' : r \in late \/ (r.client = c /\ r.kind = pc[c] /\ r.batch = batch[c])
      /\ call[c].sent
  BY DEF NoAnswer, GiveUp, Loading
<1>2. CASE MayRetry(c)
  <2>1. pc' = pc /\ SendAs(c, call[c].tries + 1)
    BY <1>2 DEF NoAnswer
  <2>2. call' \in [Client -> Requests]
    <3>1. call[c].tries + 1 \in Nat
      BY DEF Inv, Types, Requests
    <3> QED BY <2>1, <3>1, SendTypes DEF Inv
  <2>3. call'[c].status = "none" /\ \A d \in Client : d # c => call'[d] = call[d]
    BY <2>1 DEF SendAs, Inv, Types
  <2>4. Progress(c) /\ batch[c] \in Nat \ {0} /\ batch' \in [Client -> Nat \ {0}]
    BY <1>1 DEF Loading
  <2>5. call'[c].status # "ok" /\ faults' # 0
    BY <1>1, <2>3
  <2>6. Progress(c)'
    BY <1>1, <2>1, <2>4, <2>5, Unnoticed
  <2>7. faults' \in Nat /\ faults' # 0
    BY <1>1
  <2>8. pc' \in [Client -> Label]
    BY <2>1 DEF Inv, Types
  <2> QED BY <1>1, <2>1, <2>2, <2>3, <2>4, <2>6, <2>7, <2>8, MoveLoading
<1>3. CASE ~MayRetry(c)
  <2>1. PICK label \in Label \ Working : Goto(c, label)
    <3>1. CASE pc[c] \in {"preflight", "teardown"}
      BY <1>3, <3>1 DEF NoAnswer, PreflightFails, TeardownFails, Label, Working
    <3>2. CASE pc[c] \notin {"preflight", "teardown"}
      BY <1>3, <3>2, ExitSafe DEF NoAnswer, RunFails
    <3> QED BY <3>1, <3>2
  <2> QED BY <1>1, <2>1, LeaveLoading
<1> QED BY <1>2, <1>3

LEMMA CleanupLoading == ASSUME Inv, Loading, Cleanup PROVE Loading'
<1>1. CASE StartCleanup \/ EndCleanup
  BY <1>1 DEF StartCleanup, EndCleanup, server, Loading, Progress, Stocked
<1>2. ASSUME NEW c \in Client, CleanUser(c) PROVE Loading'
  <2>1. UNCHANGED <<batch, stored, faults, late>> /\ Goto(c, "teardown")
    BY <1>2 DEF CleanUser, server
  <2>2. "teardown" \in Label \ Working
    BY DEF Label, Requesting, Working
  <2> QED BY <2>1, <2>2, LeaveLoading
<1> QED BY <1>1, <1>2 DEF Cleanup

LEMMA LoadingNext == Inv /\ Secure /\ Loading /\ [Next]_vars => Loading'
<1> SUFFICES ASSUME Inv, Secure, Loading, [Next]_vars PROVE Loading'
  OBVIOUS
<1>1. ASSUME NEW c \in Client, Process(c) PROVE Loading'
  BY <1>1, SendLoading, FinishLoading, FinishIngestLoading, FinishRunLoading, OverLoading,
     NoAnswerLoading DEF Process
<1>2. ASSUME NEW c \in Client, Answer(c) \/ ServerError(c) \/ Kill(c) PROVE Loading'
  BY <1>2, AnswerLoading, ServerErrorLoading, OverLoading
<1>3. CASE ApplyLate
  BY <1>3, ApplyLateLoading
<1>4. CASE Over \/ UNCHANGED vars
  BY <1>4 DEF Over, vars, Loading, Progress, Stocked
<1>5. CASE Cleanup
  BY <1>5, CleanupLoading
<1> QED BY <1>1, <1>2, <1>3, <1>4, <1>5 DEF Next

\* In a sequence without gaps, what is there for the first time is the largest so far.
LEMMA FirstsAscend ==
  ASSUME NEW s \in Seq(Nat \ {0}), Gapless(s), NEW m \in Firsts(s), NEW n \in Firsts(s), m < n
  PROVE  s[m] < s[n]
<1>1. /\ Len(s) \in Nat /\ DOMAIN s = 1 .. Len(s) /\ m \in 1 .. Len(s) /\ n \in 1 .. Len(s)
      /\ s[m] \in Nat \ {0} /\ s[n] \in Nat \ {0}
  BY LenProperties, ElementOfSeq DEF Firsts
<1>2. \A k \in 1 .. n - 1 : s[k] # s[n]
  BY DEF Firsts
<1>3. SUFFICES ASSUME s[n] \in 1 .. s[m] - 1 PROVE FALSE
  BY <1>1, <1>2
<1>4. PICK k \in 1 .. m : s[k] = s[n]
  BY <1>1, <1>3 DEF Gapless
<1> QED BY <1>1, <1>2, <1>4

\* A workload starts on a complete corpus: every batch of its users is on the server, in
\* order, whatever was lost, answered late or repeated, and once if nothing was
\* (_preingest, RestTransport.request).
THEOREM CorpusAlwaysLoaded == Spec => []CorpusLoaded
<1>1. Spec => []Loading
  <2>1. Spec => []Secure
    BY InitSecure, SecureNext, Invariance, PTL DEF Spec
  <2> QED BY <2>1, InitLoading, LoadingNext, Invariance, PTL DEF Spec
<1>2. Loading => CorpusLoaded
  <2> SUFFICES ASSUME Loading, NEW c \in Client, pc[c] = "run"
               PROVE  /\ Elems(stored[c]) = 1 .. Batches
                      /\ \A m, n \in Firsts(stored[c]) : m < n => stored[c][m] < stored[c][n]
                      /\ faults = 0 => Len(stored[c]) = Batches
    BY DEF CorpusLoaded, Elems
  <2> DEFINE s == stored[c]
  <2>1. /\ batch[c] = Batches + 1 /\ Stocked(c, s) /\ s \in Seq(Nat) /\ Batches \in Nat
        /\ faults = 0 => Len(s) = batch[c] - 1
    BY LifecycleAssumption DEF Loading, Progress, Working, LifecycleAssumption
  <2>2. Elems(s) = 1 .. Batches /\ Gapless(s)
    <3>1. batch[c] - 1 = Batches
      BY <2>1
    <3>2. 1 .. Batches \subseteq Elems(s) /\ Elems(s) \subseteq 1 .. Batches /\ Gapless(s)
      BY <2>1, <3>1 DEF Stocked
    <3> QED BY <3>2
  <2>3. s \in Seq(Nat \ {0})
    <3>1. /\ DOMAIN s = 1 .. Len(s) /\ Len(s) \in Nat
          /\ \A n \in 1 .. Len(s) : s[n] \in Nat \ {0}
      BY <2>1, <2>2, LenProperties DEF Elems
    <3>2. s = [n \in 1 .. Len(s) |-> s[n]]
      BY <2>1, <3>1
    <3> QED BY <3>1, <3>2
  <2> HIDE DEF s
  <2>4. \A m, n \in Firsts(s) : m < n => s[m] < s[n]
    BY <2>2, <2>3, FirstsAscend
  <2> QED BY <2>1, <2>2, <2>4 DEF s
<1> QED BY <1>1, <1>2, PTL

-----------------------------------------------------------------------------
(* The errors are true: the invariant.                                     *)

\* A shared project is created in two attempts; no one else creates any other.
Contended == shared /\ backend \in Rest

\* Without faults a create fails only if another process was faster, so that the second
\* attempt finds the project; and a project is missing only before the setup or after.
Faultless(c) ==
  /\ error[c] \in {"none", "refused", "workload"}
  /\ call[c].status = "error" =>
       pc[c] = "create" /\ ~again[c] /\ Contended /\ ProjectOf(c) \in exists
  /\ call[c].status = "missing" =>
       pc[c] \in {"preflight", "check"} \/ (pc[c] = "teardown" /\ backend # "mem0")
  /\ call[c].status = "conflict" => pc[c] = "create"
  /\ pc[c] = "create" /\ again[c] =>
       ProjectOf(c) \in exists /\ (call[c].sent => ~call[c].fresh)
  /\ pc[c] = "create" /\ call[c].sent /\ call[c].status = "none" /\ call[c].fresh /\ ~Contended =>
       ProjectOf(c) \notin exists

Errors(c) ==
  /\ pc[c] \in Working => error[c] = "none"
  /\ pc[c] \notin Working /\ batch[c] \in 2 .. Batches => error[c] \in {"setup", "killed"}
  /\ pc[c] \in {"preflight", "check"} => ~again[c]
  /\ faults = 0 => Faultless(c)

Honest == /\ again \in [Client -> BOOLEAN] /\ error \in [Client -> Error]
          /\ backend = "contract" =>
               \A c, d \in Client : c # d => pc[c] = "over" \/ pc[d] = "over"
          /\ shared => backend \in Rest \cup {"contract"}
          /\ \A c \in Client : Errors(c)

LEMMA InitHonest == Init => Honest
<1> SUFFICES ASSUME Init PROVE Honest
  OBVIOUS
<1>1. PICK procs \in SUBSET Client :
        /\ Accepted(procs)
        /\ pc = [c \in Client |-> IF c \notin procs THEN "over"
                                  ELSE IF backend = "semantic" THEN "preflight" ELSE Setup]
  BY DEF Init
<1>2. ASSUME backend = "contract", NEW c \in Client, NEW d \in Client, c # d
      PROVE  pc[c] = "over" \/ pc[d] = "over"
  <2> SUFFICES ASSUME c \in procs, d \in procs PROVE FALSE
    BY <1>1
  <2> QED BY <1>1, <1>2, SeveralProcesses DEF Accepted
<1>3. shared => backend \in Rest \cup {"contract"}
  BY DEF Init, Shares
<1>4. ASSUME NEW c \in Client PROVE Errors(c)
  BY DEF Init, Idle, Errors, Faultless
<1>5. again \in [Client -> BOOLEAN] /\ error \in [Client -> Error]
  BY DEF Init, Error
<1> QED BY <1>2, <1>3, <1>4, <1>5 DEF Honest

-----------------------------------------------------------------------------
(* Its steps.                                                              *)

\* A step that c does not notice.
LEMMA ErrorsKept ==
  ASSUME NEW c \in Client, Errors(c), UNCHANGED mode, pc'[c] = pc[c], batch'[c] = batch[c],
         error'[c] = error[c], again'[c] = again[c], call'[c] = call[c],
         faults' = 0 => faults = 0,
         faults = 0 /\ pc[c] = "create" /\ ProjectOf(c) \in exists => ProjectOf(c) \in exists',
         faults = 0 /\ pc[c] = "create" /\ ~Contended /\ ProjectOf(c) \notin exists =>
           ProjectOf(c) \notin exists'
  PROVE  Errors(c)'
<1>1. ProjectOf(c)' = ProjectOf(c) /\ Contended' = Contended
  BY DEF mode, ProjectOf, Contended
<1>2. ASSUME Faultless(c), faults = 0 PROVE Faultless(c)'
  BY <1>1, <1>2 DEF Faultless, mode
<1> QED BY <1>2 DEF Errors

\* A step of process c: the others do not notice.
LEMMA MoveHonest ==
  ASSUME Inv, Honest, NEW c \in Client, Errors(c)', UNCHANGED <<mode, exists>>,
         again' \in [Client -> BOOLEAN], error' \in [Client -> Error],
         faults' = 0 => faults = 0, pc'[c] # "over" => pc[c] # "over",
         \A d \in Client : d # c => /\ pc'[d] = pc[d] /\ call'[d] = call[d] /\ batch'[d] = batch[d]
                                    /\ error'[d] = error[d] /\ again'[d] = again[d]
  PROVE  Honest'
<1>1. ASSUME NEW d \in Client PROVE Errors(d)'
  <2>1. Errors(d)
    BY DEF Honest
  <2> QED BY <2>1, ErrorsKept
<1>2. backend' = "contract" => \A d, e \in Client : d # e => pc'[d] = "over" \/ pc'[e] = "over"
  BY DEF Honest, mode
<1> QED BY <1>1, <1>2 DEF Honest, mode

\* What has to be shown of a process that moves on.
LEMMA GotoErrors ==
  ASSUME Inv, NEW c \in Client, NEW label \in Label, Goto(c, label), UNCHANGED <<mode, exists>>,
         label \in Working => error'[c] = "none",
         label \notin Working /\ batch'[c] \in 2 .. Batches => error'[c] \in {"setup", "killed"},
         label \in {"preflight", "check"} => ~again'[c],
         faults' = 0 => error'[c] \in {"none", "refused", "workload"},
         faults' = 0 /\ label = "create" /\ again'[c] => ProjectOf(c) \in exists
  PROVE  Errors(c)'
<1>1. pc'[c] = label /\ call'[c].status = "none" /\ ~call'[c].sent
  BY DEF Goto, Idle, Inv, Types
<1>2. ProjectOf(c)' = ProjectOf(c)
  BY DEF mode, ProjectOf
<1>3. faults' = 0 => Faultless(c)'
  BY <1>1, <1>2 DEF Faultless
<1> QED BY <1>1, <1>3 DEF Errors

LEMMA GotoHonest ==
  ASSUME Inv, Honest, NEW c \in Client, NEW label \in Label, Goto(c, label),
         UNCHANGED <<mode, exists>>,
         again' \in [Client -> BOOLEAN], error' \in [Client -> Error],
         faults' = 0 => faults = 0, label # "over" => pc[c] # "over",
         \A d \in Client : d # c => /\ batch'[d] = batch[d]
                                    /\ error'[d] = error[d] /\ again'[d] = again[d],
         label \in Working => error'[c] = "none",
         label \notin Working /\ batch'[c] \in 2 .. Batches => error'[c] \in {"setup", "killed"},
         label \in {"preflight", "check"} => ~again'[c],
         faults' = 0 => error'[c] \in {"none", "refused", "workload"},
         faults' = 0 /\ label = "create" /\ again'[c] => ProjectOf(c) \in exists
  PROVE  Honest'
<1>1. Errors(c)'
  BY GotoErrors
<1>2. /\ pc'[c] = label
      /\ \A d \in Client : d # c => pc'[d] = pc[d] /\ call'[d] = call[d]
  BY GotoParts
<1> QED BY <1>1, <1>2, MoveHonest

LEMMA SendHonest == ASSUME Inv, Honest, NEW c \in Client, Send(c) PROVE Honest'
<1>1. /\ UNCHANGED <<mode, pc, batch, again, error, exists, faults>>
      /\ \A d \in Client : d # c => call'[d] = call[d]
      /\ call'[c].status = "none" /\ call'[c].fresh = (ProjectOf(c) \notin exists)
      /\ Errors(c)
  BY DEF Send, SendAs, server, Inv, Types, Honest
<1>2. ProjectOf(c)' = ProjectOf(c)
  BY <1>1 DEF mode, ProjectOf
<1>3. Errors(c)'
  BY <1>1, <1>2 DEF Errors, Faultless
<1>4. again' \in [Client -> BOOLEAN] /\ error' \in [Client -> Error]
  BY <1>1 DEF Honest
<1> QED BY <1>1, <1>3, <1>4, MoveHonest

\* What a request does to the project of a process that creates it.
LEMMA ApplyOther ==
  ASSUME NEW c \in Client, NEW d \in Client, NEW b, NEW kind, Apply(kind, d, b),
         ProjectOf(d) # ProjectOf(c)
  PROVE  ProjectOf(c) \in exists' <=> ProjectOf(c) \in exists
BY DEF Apply

LEMMA AnswerHonest == ASSUME Inv, Secure, Honest, NEW c \in Client, Answer(c) PROVE Honest'
<1>1. /\ UNCHANGED <<mode, pc, batch, again, error, faults>>
      /\ Apply(pc[c], c, batch[c])
      /\ call[c].sent /\ call[c].status = "none" /\ pc[c] \in Requesting
  BY DEF Answer, Secure
<1>2. PICK status \in StatusOf(c) : call' = [call EXCEPT ![c].status = status]
  BY DEF Answer
<1>3. /\ call'[c].status = status /\ call'[c].sent /\ call'[c].fresh = call[c].fresh
      /\ \A d \in Client : d # c => call'[d] = call[d]
  BY <1>1, <1>2 DEF Inv, Types, Requests
<1>4. \A d \in Client : ProjectOf(d)' = ProjectOf(d)
  BY <1>1 DEF mode, ProjectOf
<1>5. Contended' = Contended /\ backend' = backend
  BY <1>1 DEF mode, Contended
<1>6. ASSUME Faultless(c), faults = 0 PROVE Faultless(c)'
  <2>1. /\ status = "error" => pc[c] = "create" /\ ProjectOf(c) \in exists /\ call[c].fresh
        /\ status = "conflict" => pc[c] = "create"
    BY DEF StatusOf
  <2>2. pc[c] = "create" /\ ProjectOf(c) \in exists => ProjectOf(c) \in exists'
    BY <1>1 DEF Apply
  <2>3. status = "missing" =>
          pc[c] \in {"preflight", "check"} \/ (pc[c] = "teardown" /\ backend # "mem0")
    <3>1. pc[c] = "ingest" /\ backend \notin Lazy => ProjectOf(c) \in exists
      BY DEF Secure, Safe, Standing, Working
    <3> QED BY <1>1, <3>1 DEF StatusOf, Requesting, Lazy
  <2>4. status = "error" => ~again[c] /\ Contended
    BY <1>1, <1>6, <2>1 DEF Faultless
  <2>5. status \in {"ok", "missing", "conflict", "error"}
    BY DEF StatusOf
  <2> QED BY <1>1, <1>3, <1>4, <1>5, <1>6, <2>1, <2>2, <2>3, <2>4, <2>5 DEF Faultless
<1>7. ASSUME NEW d \in Client, d # c PROVE Errors(d)'
  <2>1. pc[d] = "create" /\ ProjectOf(d) \in exists => ProjectOf(d) \in exists'
    <3>1. pc[d] = "create" /\ pc[c] = "teardown" => ProjectOf(c) # ProjectOf(d)
      BY DEF Secure, Safe, Undisturbed, Working
    <3> QED BY <1>1, <3>1, ApplySafe
  <2>2. ASSUME pc[d] = "create", ~Contended PROVE ProjectOf(c) # ProjectOf(d)
    <3>1. SUFFICES ASSUME shared PROVE FALSE
      BY <1>7 DEF ProjectOf
    <3>2. backend = "contract"
      BY <2>2, <3>1 DEF Contended, Honest
    <3> QED BY <1>1, <1>7, <2>2, <3>2 DEF Honest, Requesting
  <2>3. pc[d] = "create" /\ ~Contended /\ ProjectOf(d) \notin exists => ProjectOf(d) \notin exists'
    BY <1>1, <2>2, ApplyOther
  <2>4. Errors(d) /\ call'[d] = call[d]
    BY <1>3, <1>7 DEF Honest
  <2> QED BY <1>1, <2>1, <2>3, <2>4, ErrorsKept
<1>8. Errors(c)'
  <2>1. Errors(c)
    BY DEF Honest
  <2> QED BY <1>1, <1>6, <2>1 DEF Errors
<1>9. \A d \in Client : Errors(d)'
  BY <1>7, <1>8
<1> QED BY <1>1, <1>9 DEF Honest, mode

\* After a fault only what stopped the processes counts.
LEMMA FaultyHonest ==
  ASSUME Honest, faults' # 0, UNCHANGED <<mode, pc, batch, again, error>>
  PROVE  Honest'
BY DEF Honest, Errors, mode

LEMMA ServerErrorHonest == ASSUME Loading, Honest, NEW c \in Client, ServerError(c) PROVE Honest'
<1>1. faults' # 0 /\ UNCHANGED <<mode, pc, batch, again, error>>
  BY DEF ServerError, Fault, Loading
<1> QED BY <1>1, FaultyHonest

LEMMA ApplyLateHonest == ASSUME Loading, Honest, ApplyLate PROVE Honest'
<1>1. faults' # 0 /\ UNCHANGED <<mode, pc, batch, again, error>>
  BY DEF ApplyLate, Loading
<1> QED BY <1>1, FaultyHonest

LEMMA FinishPreflightHonest ==
  ASSUME Inv, Loading, Honest, NEW c \in Client, FinishPreflight(c) PROVE Honest'
<1>1. /\ UNCHANGED <<mode, exists, batch, again, faults>> /\ pc[c] = "preflight"
      /\ batch[c] = 1 /\ Batches \in Nat /\ Errors(c) /\ pc[c] \in Working
  BY LifecycleAssumption
     DEF FinishPreflight, Got, server, Loading, Progress, Working, Honest, LifecycleAssumption
<1>2. PICK label \in Label :
        /\ Goto(c, label)
        /\ \/ label = Setup /\ error' = error
           \/ label = "over" /\ \E e \in {"refused", "setup"} :
                Fails(c, e) /\ (e = "setup" => call[c].status = "error")
  BY SetupLabel DEF FinishPreflight, PreflightFails, Got, Label
<1>3. faults = 0 => call[c].status # "error"
  BY <1>1 DEF Errors, Faultless
<1>4. CASE label = Setup /\ error' = error
  BY <1>1, <1>2, <1>4, GotoHonest, SetupLabel DEF Honest, Errors
<1>5. ASSUME label = "over", NEW e \in {"refused", "setup"}, Fails(c, e),
             e = "setup" => call[c].status = "error"
      PROVE  Honest'
  <2>1. /\ error' \in [Client -> Error] /\ error'[c] = e
        /\ \A d \in Client : d # c => error'[d] = error[d]
    BY <1>5 DEF Fails, Honest, Error
  <2>2. again' \in [Client -> BOOLEAN] /\ "over" \notin Working /\ batch'[c] = 1
    BY <1>1 DEF Honest, Working
  <2> QED BY <1>1, <1>2, <1>3, <1>5, <2>1, <2>2, GotoHonest
<1> QED BY <1>2, <1>4, <1>5

\* A run that fails in its setup or pre-ingest says so.
LEMMA RunFailsHonest ==
  ASSUME Inv, Honest, NEW c \in Client, RunFails(c, "setup"), UNCHANGED <<mode, exists, batch>>,
         again' = again, faults' # 0, pc[c] # "over"
  PROVE  Honest'
<1>1. /\ error' \in [Client -> Error] /\ error'[c] = "setup"
      /\ \A d \in Client : d # c => error'[d] = error[d]
      /\ again' \in [Client -> BOOLEAN]
  BY DEF RunFails, Fails, Honest, Error
<1>2. PICK label \in Label \ Working : Goto(c, label)
  BY ExitSafe DEF RunFails
<1>3. label \notin {"preflight", "check", "create"}
  BY DEF Working
<1> QED BY <1>1, <1>2, <1>3, GotoHonest

LEMMA FinishCheckHonest == ASSUME Inv, Honest, NEW c \in Client, FinishCheck(c) PROVE Honest'
<1>1. /\ UNCHANGED <<mode, exists, batch, again, faults>> /\ pc[c] = "check"
      /\ Errors(c) /\ pc[c] \in Working
  BY DEF FinishCheck, Checked, Got, server, Working, Honest
<1>2. ASSUME NEW label \in Label, Goto(c, label), error' = error, label \in {"run", "ingest", "create"}
      PROVE  Honest'
  BY <1>1, <1>2, GotoHonest DEF Honest, Errors, Working
<1>3. CASE Got(c, "check", {"error"}) /\ RunFails(c, "setup")
  BY <1>1, <1>3, RunFailsHonest DEF Got, Errors, Faultless
<1>4. "create" \in Label /\ NextLabel \in Label
  BY SetupLabel DEF Label, Requesting
<1> QED BY <1>2, <1>3, <1>4, SetupLabel DEF FinishCheck, Checked

LEMMA FinishCreateHonest == ASSUME Inv, Honest, NEW c \in Client, FinishCreate(c) PROVE Honest'
<1>1. /\ UNCHANGED <<mode, exists, batch, faults>> /\ pc[c] = "create"
      /\ Errors(c) /\ pc[c] \in Working
  BY DEF FinishCreate, Got, server, Working, Honest
<1>2. CASE Goto(c, NextLabel) /\ UNCHANGED <<again, error>>
  <2>1. NextLabel \in Label /\ NextLabel \in {"run", "ingest"}
    BY SetupLabel DEF Label, Requesting
  <2> QED BY <1>1, <1>2, <2>1, GotoHonest DEF Honest, Errors, Working
<1>3. CASE /\ call[c].status = "error" /\ SecondAttempt(c) /\ again' = [again EXCEPT ![c] = TRUE]
           /\ Goto(c, "create") /\ UNCHANGED error
  <2>1. /\ again' \in [Client -> BOOLEAN] /\ "create" \in Label
        /\ \A d \in Client : d # c => again'[d] = again[d]
    BY <1>3 DEF Honest, Label, Requesting
  <2>2. faults = 0 => ProjectOf(c) \in exists /\ error[c] = "none"
    BY <1>1, <1>3 DEF Errors, Faultless
  <2> QED BY <1>1, <1>3, <2>1, <2>2, GotoHonest DEF Honest, Errors, Working
<1>4. CASE /\ call[c].status = "error" /\ ~SecondAttempt(c) /\ RunFails(c, "setup")
           /\ UNCHANGED again
  <2>1. faults # 0
    BY <1>1, <1>4 DEF Errors, Faultless, SecondAttempt, Contended
  <2> QED BY <1>1, <1>4, <2>1, RunFailsHonest
<1> QED BY <1>2, <1>3, <1>4 DEF FinishCreate, Got

LEMMA FinishIngestHonest ==
  ASSUME Inv, Loading, Honest, NEW c \in Client, FinishIngest(c) PROVE Honest'
<1>1. /\ UNCHANGED <<mode, exists, again, faults>> /\ pc[c] = "ingest"
      /\ Errors(c) /\ pc[c] \in Working
  BY DEF FinishIngest, Got, server, Working, Honest
<1>2. CASE /\ batch' = [batch EXCEPT ![c] = @ + 1] /\ Goto(c, NextRequest(c)) /\ UNCHANGED error
  <2>1. NextRequest(c) \in Label /\ NextRequest(c) \in {"run", "ingest"}
    BY DEF NextRequest, Label, Requesting
  <2>2. \A d \in Client : d # c => batch'[d] = batch[d]
    BY <1>2 DEF Loading
  <2> QED BY <1>1, <1>2, <2>1, <2>2, GotoHonest DEF Honest, Errors, Working
<1>3. CASE Got(c, "ingest", {"missing", "error"}) /\ RunFails(c, "setup") /\ UNCHANGED batch
  <2>1. faults # 0
    BY <1>1, <1>3 DEF Got, Errors, Faultless
  <2> QED BY <1>1, <1>3, <2>1, RunFailsHonest
<1> QED BY <1>2, <1>3 DEF FinishIngest, GoesOn, Got

LEMMA FinishRunHonest == ASSUME Inv, Loading, Honest, NEW c \in Client, FinishRun(c) PROVE Honest'
<1>1. /\ UNCHANGED <<mode, exists, batch, again, faults>> /\ pc[c] = "run"
      /\ Errors(c) /\ pc[c] \in Working /\ batch[c] = Batches + 1 /\ Batches \in Nat
  BY LifecycleAssumption
     DEF FinishRun, server, Working, Honest, Loading, Progress, LifecycleAssumption
<1>2. PICK label \in Label \ Working :
        /\ Goto(c, label)
        /\ error' = error \/ Fails(c, "workload")
  BY ExitSafe DEF FinishRun, RunFails
<1>3. /\ error' \in [Client -> Error] /\ error'[c] \in {"none", "workload"}
      /\ \A d \in Client : d # c => error'[d] = error[d]
  BY <1>1, <1>2 DEF Fails, Honest, Error, Errors
<1>4. batch'[c] \notin 2 .. Batches /\ again' \in [Client -> BOOLEAN]
  BY <1>1 DEF Honest
<1>5. label \notin {"preflight", "check", "create"}
  BY DEF Working
<1> QED BY <1>1, <1>2, <1>3, <1>4, <1>5, GotoHonest

\* A teardown never hides what stopped the run.
LEMMA TeardownHonest ==
  ASSUME Inv, Honest, NEW c \in Client, pc[c] = "teardown", Goto(c, "over"),
         UNCHANGED <<mode, exists, batch, again>>,
         \/ error' = error /\ (faults' = 0 => faults = 0)
         \/ error[c] = "none" /\ Fails(c, "teardown") /\ faults' # 0
  PROVE  Honest'
<1>1. Errors(c) /\ pc[c] \notin Working /\ "over" \in Label \ Working
  BY DEF Honest, Working, Label
<1>2. /\ error' \in [Client -> Error] /\ again' \in [Client -> BOOLEAN]
      /\ \A d \in Client : d # c => error'[d] = error[d]
  BY DEF Fails, Honest, Error
<1>3. /\ batch'[c] \in 2 .. Batches => error'[c] \in {"setup", "killed"}
      /\ faults' = 0 => error'[c] \in {"none", "refused", "workload"}
  BY <1>1 DEF Errors, Faultless, Fails
<1>4. faults' = 0 => faults = 0
  OBVIOUS
<1> QED BY <1>1, <1>2, <1>3, <1>4, GotoHonest

LEMMA FinishTeardownHonest ==
  ASSUME Inv, Honest, NEW c \in Client, FinishTeardown(c) PROVE Honest'
<1>1. /\ UNCHANGED <<mode, exists, batch, again, faults>> /\ pc[c] = "teardown" /\ Errors(c)
  BY DEF FinishTeardown, Got, server, Honest
<1>2. CASE Goto(c, "over") /\ UNCHANGED error
  BY <1>1, <1>2, TeardownHonest
<1>3. CASE Got(c, "teardown", Logged \ Forgiven) /\ TeardownFails(c)
  <2>1. faults # 0
    BY <1>1, <1>3 DEF Got, Logged, Forgiven, Status, Errors, Faultless
  <2> QED BY <1>1, <1>3, <2>1, TeardownHonest DEF TeardownFails
<1> QED BY <1>2, <1>3 DEF FinishTeardown

LEMMA NoAnswerHonest ==
  ASSUME Inv, Secure, Loading, Honest, NEW c \in Client, NoAnswer(c) PROVE Honest'
<1>1. /\ UNCHANGED <<mode, exists, batch, again>> /\ faults' # 0 /\ pc[c] \in Requesting
      /\ Errors(c)
  BY DEF NoAnswer, Loading, Secure, Honest
<1>2. CASE MayRetry(c)
  BY <1>1, <1>2, FaultyHonest DEF NoAnswer
<1>3. CASE ~MayRetry(c) /\ pc[c] = "preflight"
  <2>1. Goto(c, "over") /\ Fails(c, "setup") /\ "over" \in Label /\ "over" \notin Working
    BY <1>3 DEF NoAnswer, PreflightFails, Label, Working
  <2>2. /\ error' \in [Client -> Error] /\ error'[c] = "setup"
        /\ \A d \in Client : d # c => error'[d] = error[d]
        /\ again' \in [Client -> BOOLEAN]
    BY <1>1, <2>1 DEF Fails, Honest, Error
  <2> QED BY <1>1, <2>1, <2>2, GotoHonest
<1>4. CASE ~MayRetry(c) /\ pc[c] = "teardown"
  BY <1>1, <1>4, TeardownHonest DEF NoAnswer, TeardownFails
<1>5. CASE ~MayRetry(c) /\ pc[c] \notin {"preflight", "teardown"}
  BY <1>1, <1>5, RunFailsHonest DEF NoAnswer, Requesting
<1> QED BY <1>2, <1>3, <1>4, <1>5

LEMMA KillHonest == ASSUME Inv, Loading, Honest, NEW c \in Client, Kill(c) PROVE Honest'
<1>1. /\ UNCHANGED <<mode, exists, batch, again>> /\ faults' # 0
      /\ Goto(c, "over") /\ "over" \in Label /\ "over" \notin Working
  BY DEF Kill, Fault, Loading, Label, Working
<1>2. /\ error' \in [Client -> Error] /\ error'[c] = "killed"
      /\ \A d \in Client : d # c => error'[d] = error[d]
      /\ again' \in [Client -> BOOLEAN]
  BY <1>1 DEF Kill, Fails, Honest, Error
<1> QED BY <1>1, <1>2, GotoHonest

LEMMA CleanupHonest == ASSUME Inv, Honest, Cleanup PROVE Honest'
<1>1. CASE StartCleanup \/ EndCleanup
  BY <1>1 DEF StartCleanup, EndCleanup, mode, server, Honest, Errors, Faultless, Contended, ProjectOf
<1>2. ASSUME NEW c \in Client, CleanUser(c) PROVE Honest'
  <2>1. /\ UNCHANGED <<mode, exists, batch, again, error, faults>> /\ AllOver
        /\ Goto(c, "teardown") /\ "teardown" \in Label /\ "teardown" \notin Working
        /\ "over" \notin Working
    BY <1>2 DEF CleanUser, server, Label, Requesting, Working
  <2>2. \A d \in Client : Errors(d)
    BY DEF Honest
  <2>3. Errors(c)'
    BY <2>1, <2>2, GotoErrors DEF AllOver, Errors, Faultless
  <2>4. /\ pc'[c] = "teardown"
        /\ \A d \in Client : d # c => pc'[d] = pc[d] /\ call'[d] = call[d]
    BY <2>1, GotoParts
  <2>5. ASSUME NEW d \in Client PROVE Errors(d)'
    BY <2>1, <2>2, <2>3, <2>4, ErrorsKept
  <2>6. \A d, e \in Client : d # e => pc'[d] = "over" \/ pc'[e] = "over"
    BY <2>1, <2>4 DEF AllOver
  <2> QED BY <2>1, <2>5, <2>6 DEF Honest, mode
<1> QED BY <1>1, <1>2 DEF Cleanup

LEMMA HonestNext == Inv /\ Secure /\ Loading /\ Honest /\ [Next]_vars => Honest'
<1> SUFFICES ASSUME Inv, Secure, Loading, Honest, [Next]_vars PROVE Honest'
  OBVIOUS
<1>1. ASSUME NEW c \in Client, Process(c) PROVE Honest'
  BY <1>1, SendHonest, FinishPreflightHonest, FinishCheckHonest, FinishCreateHonest,
     FinishIngestHonest, FinishRunHonest, FinishTeardownHonest, NoAnswerHonest DEF Process
<1>2. ASSUME NEW c \in Client, Answer(c) \/ ServerError(c) \/ Kill(c) PROVE Honest'
  BY <1>2, AnswerHonest, ServerErrorHonest, KillHonest
<1>3. CASE ApplyLate
  BY <1>3, ApplyLateHonest
<1>4. CASE Over \/ UNCHANGED vars
  BY <1>4 DEF Over, vars, Honest, Errors, Faultless, Contended, ProjectOf
<1>5. CASE Cleanup
  BY <1>5, CleanupHonest
<1> QED BY <1>1, <1>2, <1>3, <1>4, <1>5 DEF Next

LEMMA AllInvariants == Spec => [](Inv /\ Secure /\ Loading /\ Honest)
<1>1. Spec => []Secure
  BY InitSecure, SecureNext, Invariance, PTL DEF Spec
<1>2. Spec => []Loading
  BY <1>1, InitLoading, LoadingNext, Invariance, PTL DEF Spec
<1> QED BY <1>1, <1>2, InitHonest, HonestNext, Invariance, PTL DEF Spec

\* A process ends with the error that stopped it: without faults with none but that of its
\* workload or of a refused preflight, although processes race to create their project;
\* and never with its teardown's if it was stopped in its pre-ingest (LoadRunner.run,
\* _create_project).
THEOREM ErrorsAlwaysTrue == Spec => []ErrorsTrue
<1>1. Honest => ErrorsTrue
  BY DEF Honest, Errors, Faultless, Working, ErrorsTrue
<1> QED BY <1>1, AllInvariants, PTL

-----------------------------------------------------------------------------
(* Nothing is left: the invariant.                                         *)

\* No request of the run is still on its way.
Quiet == ~lost \/ calm

\* What a cleanup reports can be trusted.
Sound == calm \/ (backend \in Lazy /\ ~lost)

\* A delete that was answered has taken place, and was answered if it had to be.
Deleted(c) ==
  pc[c] = "teardown" =>
    /\ Quiet /\ call[c].status \in {"ok", "missing"} => c \notin exists
    /\ calm => call[c].status \in {"none", "ok", "missing"}

\* What a process leaves that is over was there before a preflight that was refused, or
\* the process ends with an error.
Left(c) ==
  /\ faults = 0 /\ pc[c] = "preflight" /\ c \in exists => c \in before
  /\ delete /\ cleanup = "no" /\ pc[c] = "over" /\ c \in exists =>
       /\ faults = 0 => c \in before /\ error[c] = "refused"
       /\ backend \in Lazy /\ ~lost => error[c] # "none"

\* A cleanup has still to come to a project that exists.
Cleaned(c) ==
  cleanup \in {"working", "ok"} /\ Sound /\ c \in exists => c \in toClean \/ pc[c] = "teardown"

Tidy(c) == ~shared => Deleted(c) /\ Left(c) /\ Cleaned(c)

Tidiness ==
  /\ lost \in BOOLEAN /\ calm \in BOOLEAN
  /\ exists \subseteq IF shared THEN {Common} ELSE Client
  /\ \A r \in late : r.client \in Client
  /\ late # {} => lost
  /\ calm => late = {} /\ cleanup # "no"
  /\ faults = 0 => ~lost
  /\ cleanup # "no" => \A c \in Client : pc[c] \in {"teardown", "over"}
  /\ cleanup = "ok" => AllOver /\ toClean = {}
  /\ \A c \in Client : Tidy(c)

\* The process that created the shared project has still to delete it.
Owes(c) ==
  \/ pc[c] = "create" /\ call[c].status = "ok"
  \/ pc[c] \in {"ingest", "run"} /\ created[c]
  \/ pc[c] = "teardown" /\ call[c].status = "none"

Owed == shared /\ delete /\ faults = 0 /\ cleanup = "no" /\ Common \in exists \ before =>
          \E c \in Client : Owes(c)

LEMMA InitTidy == Init => Tidiness /\ Owed
<1> SUFFICES ASSUME Init PROVE Tidiness /\ Owed
  OBVIOUS
<1>1. PICK procs \in SUBSET Client :
        /\ before \in SUBSET (IF shared THEN {Common} ELSE procs)
        /\ pc = [c \in Client |-> IF c \notin procs THEN "over"
                                  ELSE IF backend = "semantic" THEN "preflight" ELSE Setup]
  BY DEF Init
<1>2. ASSUME NEW c \in Client, ~shared PROVE Deleted(c) /\ Left(c) /\ Cleaned(c)
  <2>1. pc[c] = "over" => c \notin exists
    BY <1>1, <1>2 DEF Init, Setup, NextLabel
  <2>2. cleanup = "no" /\ exists = before /\ pc[c] # "teardown"
    BY <1>1, SetupLabel DEF Init
  <2> QED BY <2>1, <2>2 DEF Deleted, Left, Cleaned
<1>3. exists \subseteq IF shared THEN {Common} ELSE Client
  BY <1>1 DEF Init
<1> QED BY <1>2, <1>3 DEF Init, Tidiness, Tidy, Owed

-----------------------------------------------------------------------------
(* Its steps.                                                              *)

\* A step that c does not notice.
LEMMA TidyKept ==
  ASSUME NEW c \in Client, Tidy(c), UNCHANGED mode, pc'[c] = pc[c], error'[c] = error[c],
         call'[c] = call[c], ~shared /\ c \in exists' => c \in exists,
         ~lost' => ~lost, calm' => calm, faults' = 0 => faults = 0,
         cleanup' \in {cleanup, "failed"}, c \in toClean => c \in toClean'
  PROVE  Tidy(c)'
<1> SUFFICES ASSUME ~shared PROVE Deleted(c)' /\ Left(c)' /\ Cleaned(c)'
  BY DEF Tidy, mode
<1>1. Quiet' => Quiet
  BY DEF Quiet
<1>2. Sound' => Sound
  BY DEF Sound, mode
<1>3. Deleted(c)'
  BY <1>1 DEF Tidy, Deleted
<1>4. Left(c)'
  BY DEF Tidy, Left, mode
<1>5. Cleaned(c)'
  BY <1>2 DEF Tidy, Cleaned
<1> QED BY <1>3, <1>4, <1>5

\* A process that is not over takes a step which leaves the server alone and may give a
\* request up.
Recorded(c) ==
  \/ UNCHANGED <<late, lost, calm, faults>>
  \/ GiveUp(c) /\ faults' # 0 /\ calm' = FALSE

LEMMA RecordedFacts ==
  ASSUME Tidiness, NEW c \in Client, Recorded(c)
  PROVE  /\ lost' \in BOOLEAN /\ calm' \in BOOLEAN
         /\ \A r \in late' : r.client \in Client
         /\ late' # {} => lost'
         /\ calm' => calm /\ late' = {}
         /\ faults' = 0 => faults = 0 /\ ~lost'
         /\ ~lost' => ~lost
<1>1. CASE UNCHANGED <<late, lost, calm, faults>>
  BY <1>1 DEF Tidiness
<1>2. ASSUME NEW r, r.client = c, late' = late \cup {r}, lost' = TRUE, faults' # 0,
             calm' = FALSE
      PROVE  \A q \in late' : q.client \in Client
  BY <1>2 DEF Tidiness
<1>3. CASE UNCHANGED <<late, lost>> /\ faults' # 0 /\ calm' = FALSE
  BY <1>3 DEF Tidiness
<1>4. CASE /\ late' = late \cup {[kind |-> pc[c], client |-> c, batch |-> batch[c], id |-> faults]}
           /\ lost' = TRUE /\ faults' # 0 /\ calm' = FALSE
  <2>1. \A q \in late' : q.client \in Client
    BY <1>2, <1>4
  <2> QED BY <1>4, <2>1
<1> QED BY <1>1, <1>3, <1>4 DEF Recorded, GiveUp

LEMMA MoveTidy ==
  ASSUME Inv, Tidiness, NEW c \in Client, Tidy(c)', UNCHANGED <<mode, exists, toClean>>,
         pc[c] # "over", pc[c] = "teardown" => pc'[c] \in {"teardown", "over"}, Recorded(c),
         cleanup' = cleanup \/ (cleanup = "working" /\ cleanup' = "failed"),
         \A d \in Client : d # c => pc'[d] = pc[d] /\ call'[d] = call[d] /\ error'[d] = error[d]
  PROVE  Tidiness'
<1>1. /\ lost' \in BOOLEAN /\ calm' \in BOOLEAN
      /\ \A r \in late' : r.client \in Client
      /\ late' # {} => lost'
      /\ calm' => calm /\ late' = {}
      /\ faults' = 0 => faults = 0 /\ ~lost'
      /\ ~lost' => ~lost
  BY RecordedFacts
<1>2. ASSUME NEW d \in Client, d # c PROVE Tidy(d)'
  <2>1. Tidy(d)
    BY DEF Tidiness
  <2>2. cleanup' \in {cleanup, "failed"}
    OBVIOUS
  <2> QED BY <1>1, <1>2, <2>1, <2>2, TidyKept
<1>3. \A d \in Client : Tidy(d)'
  BY <1>2
<1>4. cleanup' = "ok" => FALSE
  BY DEF Tidiness, AllOver
<1>5. cleanup' # "no" => \A d \in Client : pc'[d] \in {"teardown", "over"}
  BY DEF Tidiness
<1>6. calm' => cleanup' # "no"
  BY <1>1 DEF Tidiness
<1>7. exists' \subseteq IF shared' THEN {Common} ELSE Client
  BY DEF Tidiness, mode
<1> QED BY <1>1, <1>3, <1>4, <1>5, <1>6, <1>7 DEF Tidiness

\* A process moves on.  It is over only if it need not delete, or has failed.
LEMMA GotoTidy ==
  ASSUME Inv, Tidiness, NEW c \in Client, NEW label \in Label \ {"preflight"}, Goto(c, label),
         UNCHANGED <<mode, exists, toClean>>, pc[c] # "over",
         pc[c] = "teardown" => label = "over", Recorded(c),
         cleanup' = cleanup \/ (cleanup = "working" /\ cleanup' = "failed"),
         \A d \in Client : d # c => error'[d] = error[d],
         ~shared /\ delete /\ cleanup' = "no" /\ label = "over" /\ c \in exists =>
           /\ faults' = 0 => c \in before /\ error'[c] = "refused"
           /\ backend \in Lazy /\ ~lost' => error'[c] # "none",
         ~shared /\ cleanup' \in {"working", "ok"} /\ Sound' => c \notin exists
  PROVE  Tidiness'
<1>1. /\ pc'[c] = label /\ call'[c].status = "none"
      /\ \A d \in Client : d # c => pc'[d] = pc[d] /\ call'[d] = call[d]
  BY GotoParts
<1>2. Deleted(c)'
  BY <1>1 DEF Deleted
<1>3. ~shared => Left(c)' /\ Cleaned(c)'
  BY <1>1 DEF Left, Cleaned, mode
<1>4. Tidy(c)'
  BY <1>2, <1>3 DEF Tidy, mode
<1> QED BY <1>1, <1>4, MoveTidy

\* No process works during a cleanup.
LEMMA WorkingFirst ==
  ASSUME Tidiness, NEW c \in Client, pc[c] \in Working
  PROVE  cleanup = "no"
BY DEF Tidiness, Working

\* A process that leaves its work goes to its teardown, unless it deletes nothing or fails.
LEMMA WorkTidy ==
  ASSUME Inv, Tidiness, NEW c \in Client, pc[c] \in Working, NEW label \in Label \ {"preflight"},
         Goto(c, label), UNCHANGED <<mode, exists, toClean, cleanup>>, Recorded(c),
         \A d \in Client : d # c => error'[d] = error[d],
         ~shared /\ delete => label # "over"
  PROVE  Tidiness'
BY WorkingFirst, GotoTidy DEF Working

LEMMA ExitDeletes ==
  ASSUME NEW c \in Client, NEW ok \in BOOLEAN
  PROVE  ~shared /\ delete => Exit(c, ok) = "teardown"
BY DEF Exit

LEMMA RunFailsTidy ==
  ASSUME Inv, Honest, Tidiness, NEW c \in Client, pc[c] \in Working, NEW what, RunFails(c, what),
         UNCHANGED <<mode, exists, toClean, cleanup>>, Recorded(c)
  PROVE  Tidiness'
<1>1. /\ Exit(c, FALSE) \in Label \ Working /\ Goto(c, Exit(c, FALSE))
      /\ \A d \in Client : d # c => error'[d] = error[d]
  BY ExitSafe DEF RunFails, Fails, Honest
<1>2. Exit(c, FALSE) # "preflight" /\ (~shared /\ delete => Exit(c, FALSE) # "over")
  BY <1>1, ExitDeletes DEF Working
<1> QED BY <1>1, <1>2, WorkTidy

LEMMA SendTidy == ASSUME Inv, Tidiness, NEW c \in Client, Send(c) PROVE Tidiness'
<1>1. /\ UNCHANGED <<mode, pc, error, exists, late, lost, faults, cleanup, toClean, calm>>
      /\ call'[c].status = "none" /\ \A d \in Client : d # c => call'[d] = call[d]
      /\ pc[c] # "over" /\ Tidy(c)
  BY DEF Send, SendAs, server, cleaning, Requesting, Inv, Types, Tidiness
<1>2. Tidy(c)'
  BY <1>1 DEF Tidy, Deleted, Left, Cleaned, Quiet, Sound, mode
<1> QED BY <1>1, <1>2, MoveTidy DEF Recorded

\* What a request does to the projects.
LEMMA ApplyScope ==
  ASSUME NEW c, NEW b, NEW kind, Apply(kind, c, b)
  PROVE  /\ exists' \subseteq exists \cup {ProjectOf(c)}
         /\ kind = "teardown" => ProjectOf(c) \notin exists'
         /\ kind \notin {"create", "ingest", "teardown"} => exists' = exists
BY DEF Apply

LEMMA AnswerTidy == ASSUME Inv, Secure, Tidiness, NEW c \in Client, Answer(c) PROVE Tidiness'
<1>1. /\ UNCHANGED <<mode, pc, error, late, lost, faults, cleanup, toClean, calm>>
      /\ Apply(pc[c], c, batch[c]) /\ pc[c] \in Requesting
  BY DEF Answer, cleaning, Secure
<1>2. PICK status \in StatusOf(c) : call' = [call EXCEPT ![c].status = status]
  BY DEF Answer
<1>3. call'[c].status = status /\ \A d \in Client : d # c => call'[d] = call[d]
  BY <1>2 DEF Inv, Types, Requests
<1>4. /\ exists' \subseteq exists \cup {ProjectOf(c)}
      /\ pc[c] = "teardown" => ProjectOf(c) \notin exists'
      /\ pc[c] = "preflight" => exists' = exists
  BY <1>1, ApplyScope
<1>5. ASSUME ~shared PROVE Deleted(c)' /\ Left(c)' /\ Cleaned(c)'
  <2>1. ProjectOf(c) = c /\ Deleted(c) /\ Left(c) /\ Cleaned(c)
    BY <1>5 DEF ProjectOf, Tidiness, Tidy
  <2>2. pc[c] = "teardown" => status \in {"ok", "missing"}
    BY DEF StatusOf
  <2>3. Deleted(c)'
    BY <1>1, <1>3, <1>4, <2>1, <2>2 DEF Deleted
  <2>4. Left(c)'
    BY <1>1, <1>4, <2>1 DEF Left, Requesting, mode
  <2>5. cleanup # "no" => pc[c] = "teardown"
    BY <1>1 DEF Tidiness, Requesting
  <2>6. Cleaned(c)'
    BY <1>1, <2>5 DEF Cleaned
  <2> QED BY <2>3, <2>4, <2>6
<1>6. ASSUME NEW d \in Client, d # c PROVE Tidy(d)'
  <2>1. ~shared => ProjectOf(c) = c
    BY DEF ProjectOf
  <2>2. ~shared /\ d \in exists' => d \in exists
    BY <1>4, <1>6, <2>1
  <2>3. Tidy(d) /\ call'[d] = call[d] /\ cleanup' \in {cleanup, "failed"}
    BY <1>1, <1>3, <1>6 DEF Tidiness
  <2> QED BY <1>1, <2>2, <2>3, TidyKept
<1>7. \A d \in Client : Tidy(d)'
  BY <1>1, <1>5, <1>6 DEF Tidy, mode
<1>8. exists' \subseteq IF shared' THEN {Common} ELSE Client
  BY <1>1, <1>4 DEF Tidiness, ProjectOf, mode
<1> QED BY <1>1, <1>7, <1>8 DEF Tidiness, AllOver

\* A fault while c goes on.
LEMMA FaultTidy ==
  ASSUME Inv, Loading, Tidiness, NEW c \in Client,
         UNCHANGED <<mode, pc, error, exists, toClean, cleanup>>,
         pc[c] # "over", Recorded(c), faults' # 0, calm' = FALSE,
         call'[c].status = "none",
         \A d \in Client : d # c => call'[d] = call[d]
  PROVE  Tidiness'
<1>1. Sound' => Sound
  BY RecordedFacts DEF Sound, mode
<1>2. Deleted(c)'
  BY DEF Deleted
<1>3. Left(c)'
  BY DEF Left
<1>4. Tidy(c)'
  BY <1>1, <1>2, <1>3 DEF Tidiness, Tidy, Cleaned, mode
<1> QED BY <1>4, MoveTidy

LEMMA ServerErrorTidy ==
  ASSUME Inv, Secure, Loading, Tidiness, NEW c \in Client, ServerError(c)
  PROVE  Tidiness'
<1>1. /\ UNCHANGED <<mode, pc, error, exists, late, lost, toClean, cleanup>>
      /\ faults' # 0 /\ calm' = FALSE /\ pc[c] # "over"
      /\ call'[c].status = "error" /\ \A d \in Client : d # c => call'[d] = call[d]
  <2>1. call'[c].status = "error" /\ \A d \in Client : d # c => call'[d] = call[d]
    BY DEF ServerError, Inv, Types, Requests
  <2>2. pc[c] # "over"
    BY DEF ServerError, Secure, Requesting
  <2> QED BY <2>1, <2>2 DEF ServerError, Fault, server, Loading
<1>2. Tidy(c)'
  <2>1. Sound' => Sound
    BY <1>1 DEF Sound, mode
  <2> QED BY <1>1, <2>1 DEF Tidiness, Tidy, Deleted, Left, Cleaned, mode
<1>3. ASSUME NEW d \in Client PROVE Tidy(d)'
  <2>1. Tidy(d) /\ cleanup' \in {cleanup, "failed"}
    BY <1>1 DEF Tidiness
  <2> QED BY <1>1, <1>2, <2>1, TidyKept
<1> QED BY <1>1, <1>3 DEF Tidiness, AllOver, mode

\* Once a request is lost, nothing is promised but by a cleanup that starts later.
LEMMA ApplyLateTidy == ASSUME Tidiness, ApplyLate PROVE Tidiness'
<1>1. PICK r \in late : Apply(r.kind, r.client, r.batch) /\ late' = late \ {r}
  BY DEF ApplyLate
<1>2. /\ UNCHANGED <<mode, pc, error, call, lost, faults, cleanup, toClean, calm>>
      /\ lost /\ ~calm /\ faults # 0 /\ r.client \in Client
  BY <1>1 DEF ApplyLate, cleaning, Tidiness
<1>3. \A d \in Client : Tidy(d)'
  BY <1>2 DEF Tidy, Deleted, Left, Cleaned, Quiet, Sound
<1>4. exists' \subseteq IF shared' THEN {Common} ELSE Client
  <2>1. exists' \subseteq exists \cup {ProjectOf(r.client)}
    BY <1>1, ApplyScope
  <2> QED BY <1>2, <2>1 DEF Tidiness, ProjectOf, mode
<1> QED BY <1>1, <1>2, <1>3, <1>4 DEF Tidiness, AllOver

LEMMA FinishPreflightTidy ==
  ASSUME Inv, Honest, Tidiness, NEW c \in Client, FinishPreflight(c) PROVE Tidiness'
<1>1. /\ UNCHANGED <<mode, exists, toClean, cleanup>> /\ Recorded(c) /\ pc[c] = "preflight"
      /\ faults' = faults /\ Errors(c) /\ Tidy(c) /\ cleanup = "no"
  BY WorkingFirst DEF FinishPreflight, Got, server, cleaning, Recorded, Honest, Tidiness, Working
<1>2. CASE Goto(c, Setup) /\ UNCHANGED error
  BY <1>1, <1>2, SetupLabel, WorkTidy DEF Setup, NextLabel, Working
<1>3. ASSUME NEW e \in {"refused", "setup"}, Goto(c, "over"), Fails(c, e),
             e = "setup" => call[c].status = "error"
      PROVE  Tidiness'
  <2>1. error'[c] = e /\ \A d \in Client : d # c => error'[d] = error[d]
    BY <1>3 DEF Fails, Honest
  <2>2. ~shared /\ c \in exists /\ faults' = 0 => c \in before /\ e = "refused"
    BY <1>1, <1>3 DEF Tidy, Left, Errors, Faultless
  <2>3. "over" \in Label \ {"preflight"}
    BY DEF Label
  <2> QED BY <1>1, <1>3, <2>1, <2>2, <2>3, GotoTidy
<1> QED BY <1>2, <1>3 DEF FinishPreflight, PreflightFails, Got

LEMMA FinishTidy ==
  ASSUME Inv, Honest, Tidiness, NEW c \in Client,
         FinishCheck(c) \/ FinishCreate(c) \/ FinishIngest(c) \/ FinishRun(c)
  PROVE  Tidiness'
<1>1. /\ UNCHANGED <<mode, exists, toClean, cleanup>> /\ Recorded(c) /\ pc[c] \in Working
  BY DEF FinishCheck, Checked, FinishCreate, FinishIngest, FinishRun, Got, server, cleaning, Recorded,
         Working
<1>2. ASSUME NEW what, RunFails(c, what) PROVE Tidiness'
  BY <1>1, <1>2, RunFailsTidy
<1>3. ASSUME NEW label \in {"create", "ingest", "run", Exit(c, TRUE)}, Goto(c, label),
             UNCHANGED error
      PROVE  Tidiness'
  <2>1. label \in Label \ {"preflight"} /\ (~shared /\ delete => label # "over")
    BY ExitSafe, ExitDeletes DEF Label, Requesting, Working
  <2> QED BY <1>1, <1>3, <2>1, WorkTidy
<1>4. NextLabel \in {"ingest", "run"} /\ NextRequest(c) \in {"ingest", "run"}
  BY DEF NextLabel, NextRequest
<1>5. CASE FinishCheck(c)
  BY <1>2, <1>3, <1>4, <1>5 DEF FinishCheck, Checked
<1>6. CASE FinishCreate(c)
  BY <1>2, <1>3, <1>4, <1>6 DEF FinishCreate
<1>7. CASE FinishIngest(c)
  BY <1>2, <1>3, <1>4, <1>7 DEF FinishIngest
<1>8. CASE FinishRun(c)
  BY <1>2, <1>3, <1>8 DEF FinishRun
<1> QED BY <1>5, <1>6, <1>7, <1>8

LEMMA FinishTeardownTidy ==
  ASSUME Inv, Honest, Tidiness, NEW c \in Client, FinishTeardown(c) PROVE Tidiness'
<1>1. /\ UNCHANGED <<mode, exists, toClean, late, lost, faults, calm>> /\ Recorded(c)
      /\ pc[c] = "teardown" /\ Goto(c, "over") /\ "over" \in Label \ {"preflight"}
      /\ call[c].status # "none" /\ Errors(c) /\ Tidy(c) /\ cleanup # "ok"
  BY DEF FinishTeardown, TeardownFails, Got, Forgiven, Logged, server, Recorded, Label, Honest,
         Tidiness, AllOver
<1>2. /\ cleanup' = cleanup \/ (cleanup = "working" /\ cleanup' = "failed")
      /\ \A d \in Client : d # c => error'[d] = error[d]
  BY DEF FinishTeardown, TeardownFails, Fails, Honest
<1>3. call[c].status \in Status /\ Quiet' = Quiet /\ Sound' = Sound
  BY <1>1 DEF Inv, Types, Requests, Quiet, Sound, mode
<1>4. ASSUME ~shared, Quiet, call[c].status \in {"ok", "missing"} PROVE c \notin exists
  BY <1>1, <1>4 DEF Tidy, Deleted
<1>5. faults = 0 => Quiet /\ call[c].status \in {"ok", "missing"}
  BY <1>1, <1>3 DEF Tidiness, Quiet, Errors, Faultless, Status
<1>6. ASSUME backend \in Lazy, ~lost
      PROVE  \/ Quiet /\ call[c].status \in {"ok", "missing"}
             \/ error'[c] # "none" \/ cleanup # "no"
  <2>1. CASE Got(c, "teardown", Forgiven)
    BY <1>6, <2>1 DEF Got, Forgiven, Lazy, Quiet
  <2>2. CASE TeardownFails(c)
    BY <1>6, <2>2 DEF TeardownFails, OnlyNotes, Lazy, Fails, Honest
  <2> QED BY <2>1, <2>2 DEF FinishTeardown
<1>7. ASSUME ~shared, cleanup' \in {"working", "ok"}, Sound
      PROVE  Quiet /\ call[c].status \in {"ok", "missing"}
  <2>1. CASE calm
    BY <1>1, <1>7, <2>1 DEF Tidy, Deleted, Quiet
  <2>2. CASE backend \in Lazy /\ ~lost
    <3>1. Got(c, "teardown", Forgiven)
      BY <1>1, <1>7 DEF FinishTeardown, TeardownFails
    <3> QED BY <2>2, <3>1 DEF Got, Forgiven, Lazy, Quiet
  <2> QED BY <1>7, <2>1, <2>2 DEF Sound
<1>8. ~shared /\ cleanup' = "no" /\ c \in exists =>
        /\ faults' = 0 => c \in before /\ error'[c] = "refused"
        /\ backend \in Lazy /\ ~lost' => error'[c] # "none"
  BY <1>1, <1>2, <1>4, <1>5, <1>6
<1>9. ~shared /\ cleanup' \in {"working", "ok"} /\ Sound' => c \notin exists
  BY <1>3, <1>4, <1>7
<1> QED BY <1>1, <1>2, <1>8, <1>9, GotoTidy

LEMMA NoAnswerTidy ==
  ASSUME Inv, Secure, Loading, Honest, Tidiness, NEW c \in Client, NoAnswer(c) PROVE Tidiness'
<1>1. /\ UNCHANGED <<mode, exists, toClean>> /\ faults' # 0 /\ calm' = FALSE /\ Recorded(c)
      /\ pc[c] \in Requesting /\ pc[c] # "over"
  BY DEF NoAnswer, Recorded, Loading, Secure, Requesting
<1>2. CASE MayRetry(c)
  <2>1. UNCHANGED <<pc, error, cleanup>> /\ SendAs(c, call[c].tries + 1)
    BY <1>2 DEF NoAnswer
  <2>2. call'[c].status = "none" /\ \A d \in Client : d # c => call'[d] = call[d]
    BY <2>1 DEF SendAs, Inv, Types
  <2> QED BY <1>1, <2>1, <2>2, FaultTidy
<1>3. CASE ~MayRetry(c) /\ pc[c] = "preflight"
  <2>1. Goto(c, "over") /\ Fails(c, "setup") /\ UNCHANGED cleanup /\ cleanup = "no"
    BY <1>3, WorkingFirst DEF NoAnswer, PreflightFails, Working
  <2>2. error'[c] = "setup" /\ \A d \in Client : d # c => error'[d] = error[d]
    BY <2>1 DEF Fails, Honest
  <2>3. "over" \in Label \ {"preflight"}
    BY DEF Label
  <2> QED BY <1>1, <1>3, <2>1, <2>2, <2>3, GotoTidy
<1>4. CASE ~MayRetry(c) /\ pc[c] = "teardown"
  <2>1. TeardownFails(c) /\ Goto(c, "over") /\ "over" \in Label \ {"preflight"}
    BY <1>4 DEF NoAnswer, TeardownFails, Label
  <2>2. /\ cleanup' = cleanup \/ (cleanup = "working" /\ cleanup' = "failed")
        /\ \A d \in Client : d # c => error'[d] = error[d]
        /\ cleanup' \notin {"working", "ok"}
    BY <1>4, <2>1 DEF TeardownFails, Fails, Honest, Tidiness, AllOver
  <2>3. backend \in Lazy /\ cleanup' = "no" => error'[c] # "none"
    BY <2>1 DEF TeardownFails, OnlyNotes, Lazy, Fails, Honest
  <2> QED BY <1>1, <1>4, <2>1, <2>2, <2>3, GotoTidy
<1>5. CASE ~MayRetry(c) /\ pc[c] \notin {"preflight", "teardown"}
  <2>1. RunFails(c, "setup") /\ UNCHANGED cleanup /\ pc[c] \in Working
    BY <1>1, <1>5 DEF NoAnswer, Requesting, Working
  <2> QED BY <1>1, <2>1, RunFailsTidy
<1> QED BY <1>2, <1>3, <1>4, <1>5

LEMMA KillTidy == ASSUME Inv, Loading, Honest, Tidiness, NEW c \in Client, Kill(c) PROVE Tidiness'
<1>1. /\ UNCHANGED <<mode, exists, toClean, cleanup>> /\ faults' # 0 /\ Recorded(c)
      /\ pc[c] # "over" /\ cleanup = "no" /\ Goto(c, "over") /\ "over" \in Label \ {"preflight"}
  BY DEF Kill, Fault, Recorded, Loading, Label
<1>2. error'[c] = "killed" /\ \A d \in Client : d # c => error'[d] = error[d]
  BY DEF Kill, Fails, Honest
<1> QED BY <1>1, <1>2, GotoTidy

LEMMA CleanupTidy == ASSUME Inv, Tidiness, Cleanup PROVE Tidiness'
<1>1. CASE StartCleanup
  <2>1. /\ UNCHANGED <<mode, pc, error, call, exists, late, lost, faults>> /\ AllOver
        /\ cleanup' = "working" /\ toClean' = CleanUp /\ calm' = (late = {})
    BY <1>1 DEF StartCleanup, server
  <2>2. \A d \in Client : Tidy(d)'
    BY <2>1 DEF AllOver, CleanUp, Tidy, Deleted, Left, Cleaned, mode
  <2> QED BY <2>1, <2>2 DEF Tidiness, AllOver, mode
<1>2. CASE EndCleanup
  <2>1. /\ UNCHANGED <<mode, pc, error, call, exists, late, lost, faults, toClean, calm>>
        /\ AllOver /\ toClean = {} /\ cleanup = "working" /\ cleanup' = "ok"
    BY <1>2 DEF EndCleanup, server
  <2>2. Quiet' = Quiet /\ Sound' = Sound
    BY <2>1 DEF Quiet, Sound, mode
  <2>3. ASSUME NEW d \in Client PROVE Tidy(d)'
    BY <2>1, <2>2 DEF Tidiness, Tidy, Deleted, Left, Cleaned, AllOver, mode
  <2> QED BY <2>1, <2>3 DEF Tidiness, AllOver, mode
<1>3. ASSUME NEW c \in Client, CleanUser(c) PROVE Tidiness'
  <2>1. /\ UNCHANGED <<mode, error, exists, late, lost, faults, cleanup, calm>> /\ AllOver
        /\ cleanup = "working" /\ toClean' = toClean \ {c} /\ "teardown" \in Label
    BY <1>3 DEF CleanUser, server, Label, Requesting
  <2>2. /\ pc'[c] = "teardown" /\ call'[c].status = "none"
        /\ \A d \in Client : d # c => pc'[d] = pc[d] /\ call'[d] = call[d]
    BY <1>3, <2>1, GotoParts DEF CleanUser
  <2>3. Tidy(c)'
    BY <2>1, <2>2 DEF Tidy, Deleted, Left, Cleaned
  <2>4. ASSUME NEW d \in Client, d # c PROVE Tidy(d)'
    <3>1. Tidy(d) /\ cleanup' \in {cleanup, "failed"} /\ (d \in toClean => d \in toClean')
      BY <2>1, <2>4 DEF Tidiness
    <3> QED BY <2>1, <2>2, <2>4, <3>1, TidyKept
  <2> QED BY <2>1, <2>2, <2>3, <2>4 DEF Tidiness, AllOver, mode
<1> QED BY <1>1, <1>2, <1>3 DEF Cleanup

LEMMA TidyNext == Inv /\ Secure /\ Loading /\ Honest /\ Tidiness /\ [Next]_vars => Tidiness'
<1> SUFFICES ASSUME Inv, Secure, Loading, Honest, Tidiness, [Next]_vars PROVE Tidiness'
  OBVIOUS
<1>1. ASSUME NEW c \in Client, Process(c) PROVE Tidiness'
  BY <1>1, SendTidy, FinishPreflightTidy, FinishTidy, FinishTeardownTidy, NoAnswerTidy DEF Process
<1>2. ASSUME NEW c \in Client, Answer(c) \/ ServerError(c) \/ Kill(c) PROVE Tidiness'
  BY <1>2, AnswerTidy, ServerErrorTidy, KillTidy
<1>3. CASE ApplyLate
  BY <1>3, ApplyLateTidy
<1>4. CASE Over \/ UNCHANGED vars
  BY <1>4 DEF Over, vars, Tidiness, Tidy, Deleted, Left, Cleaned, Quiet, Sound, AllOver
<1>5. CASE Cleanup
  BY <1>5, CleanupTidy
<1> QED BY <1>1, <1>2, <1>3, <1>4, <1>5 DEF Next

-----------------------------------------------------------------------------
(* The shared project that a run created, alone.                           *)

\* A process that owes the delete and moves on still owes it, or has deleted.
LEMMA OwedNext == Inv /\ Secure /\ Loading /\ Honest /\ Tidiness /\ Owed /\ [Next]_vars => Owed'
<1> SUFFICES ASSUME Inv, Secure, Loading, Honest, Tidiness, Owed, [Next]_vars,
                    shared', delete', faults' = 0, cleanup' = "no", Common \in exists',
                    Common \notin before'
             PROVE  \E c \in Client : Owes(c)'
  BY DEF Owed
<1>1. UNCHANGED mode /\ shared /\ delete /\ Common \notin before /\ backend \notin Lazy
  <2>1. UNCHANGED mode
    BY DEF Next, Process, Cleanup, Send, FinishPreflight, FinishCheck, FinishCreate, FinishIngest,
           FinishRun, FinishTeardown, NoAnswer, Answer, ServerError, Kill, ApplyLate, StartCleanup,
           CleanUser, EndCleanup, Over, vars, mode
  <2> QED BY <2>1 DEF mode, Secure
<1>2. ASSUME NEW c \in Client, pc[c] # "over", faults = 0, cleanup = "no", Common \in exists
      PROVE  Owes(c)
  <2>1. PICK d \in Client : Owes(d)
    BY <1>1, <1>2 DEF Owed
  <2>2. pc[d] # "over"
    BY <2>1 DEF Owes
  <2>3. d = c
    BY <1>1, <1>2, <2>2 DEF Secure, Alone
  <2> QED BY <2>1, <2>3
<1>3. ASSUME NEW c \in Client, Send(c) PROVE Owes(c)'
  <2>1. /\ UNCHANGED <<pc, created, exists, faults, cleanup>> /\ pc[c] # "over"
        /\ call'[c].status = "none" /\ call[c].status = "none"
    BY <1>3 DEF Send, SendAs, server, cleaning, Requesting, Inv, Types, Loading
  <2>2. Owes(c)
    BY <1>2, <2>1
  <2> QED BY <2>1, <2>2 DEF Owes
<1>4. ASSUME NEW c \in Client, NEW label \in Label, Goto(c, label),
             FinishCreate(c) \/ FinishIngest(c) \/ FinishRun(c), pc[c] # "over",
             label = "over" => ~created'[c],
             label \in {"ingest", "run", "teardown", "over"}
      PROVE  Owes(c)'
  <2>1. UNCHANGED <<exists, faults, cleanup>>
    BY <1>4 DEF FinishCreate, FinishIngest, FinishRun, server, cleaning
  <2>2. Owes(c) /\ pc[c] \in {"create", "ingest", "run"}
    BY <1>2, <1>4, <2>1 DEF FinishCreate, FinishIngest, FinishRun, Got
  <2>3. created'[c]
    <3>1. CASE FinishCreate(c)
      BY <1>1, <2>2, <3>1 DEF FinishCreate, Got, Owes, Inv, Types
    <3>2. CASE FinishIngest(c) \/ FinishRun(c)
      BY <2>2, <3>2 DEF FinishIngest, FinishRun, Got, Owes
    <3> QED BY <1>4, <3>1, <3>2
  <2>4. pc'[c] = label /\ call'[c].status = "none"
    BY <1>4, GotoParts
  <2> QED BY <1>4, <2>3, <2>4 DEF Owes
<1>5. ASSUME NEW c \in Client,
             FinishPreflight(c) \/ FinishCheck(c) \/ FinishTeardown(c)
      PROVE  FALSE
  <2>1. /\ UNCHANGED <<exists, faults>> /\ (cleanup' = "no" => cleanup = "no")
        /\ \/ pc[c] \in {"preflight", "check"}
           \/ pc[c] = "teardown" /\ call[c].status # "none"
    BY <1>5 DEF FinishPreflight, FinishCheck, Checked, FinishTeardown, TeardownFails, Got, Forgiven,
                Logged, server, cleaning
  <2> QED BY <1>2, <2>1 DEF Owes
<1>6. ASSUME NEW c \in Client, NEW ok \in BOOLEAN
      PROVE  Exit(c, ok) \in {"teardown", "over"} /\ (Exit(c, ok) = "over" => ~created'[c])
  BY <1>1 DEF Exit
<1>7. ASSUME NEW c \in Client, FinishCreate(c) PROVE Owes(c)'
  <2>1. /\ UNCHANGED <<exists, faults, cleanup>> /\ pc[c] = "create"
    BY <1>7 DEF FinishCreate, Got, server, cleaning
  <2>2. call[c].status = "ok"
    BY <1>2, <2>1 DEF Owes
  <2>3. Goto(c, NextLabel) /\ NextLabel \in {"ingest", "run"} /\ NextLabel \in Label
    BY <1>7, <2>2, SetupLabel DEF FinishCreate, Got, Label, Requesting
  <2> QED BY <1>4, <1>7, <2>1, <2>3
<1>8. ASSUME NEW c \in Client, FinishIngest(c) PROVE Owes(c)'
  <2>1. pc[c] = "ingest" /\ NextRequest(c) \in {"ingest", "run"}
    BY <1>8 DEF FinishIngest, Got, NextRequest
  <2>2. PICK label \in Label : Goto(c, label) /\ label \in {NextRequest(c), Exit(c, FALSE)}
    BY <1>8, <2>1, <1>6 DEF FinishIngest, RunFails, Label, Requesting
  <2> QED BY <1>4, <1>6, <1>8, <2>1, <2>2
<1>9. ASSUME NEW c \in Client, FinishRun(c) PROVE Owes(c)'
  <2>1. PICK label \in Label : Goto(c, label) /\ label \in {Exit(c, TRUE), Exit(c, FALSE)}
    BY <1>9, <1>6 DEF FinishRun, RunFails, Label, Requesting
  <2> QED BY <1>4, <1>6, <1>9, <2>1 DEF FinishRun
<1>10. ASSUME NEW c \in Client, Answer(c) PROVE Owes(c)'
  <2>1. /\ UNCHANGED <<pc, created, faults, cleanup>> /\ pc[c] \in Requesting
        /\ Apply(pc[c], c, batch[c]) /\ call[c].status = "none" /\ ProjectOf(c) = Common
    BY <1>1, <1>10 DEF Answer, cleaning, Secure, ProjectOf
  <2>2. PICK status \in StatusOf(c) : call'[c].status = status
    <3>1. PICK status \in StatusOf(c) : call' = [call EXCEPT ![c].status = status]
      BY <1>10 DEF Answer
    <3> QED BY <3>1 DEF Inv, Types, Requests
  <2>3. CASE Common \in exists
    <3>1. Owes(c)
      BY <1>2, <2>1, <2>3 DEF Requesting
    <3>2. pc[c] # "teardown"
      BY <2>1, ApplyScope
    <3> QED BY <2>1, <3>1, <3>2 DEF Owes
  <2>4. CASE Common \notin exists
    <3>1. pc[c] = "create"
      BY <1>1, <2>1, <2>4 DEF Apply
    <3>2. status = "ok"
      BY <2>1, <2>4, <3>1 DEF StatusOf
    <3> QED BY <2>1, <2>2, <3>1, <3>2 DEF Owes
  <2> QED BY <2>3, <2>4
<1>11. ASSUME NEW c \in Client, NoAnswer(c) \/ ServerError(c) \/ Kill(c) PROVE FALSE
  BY <1>11 DEF NoAnswer, ServerError, Kill, Fault, Loading
<1>12. ~ApplyLate
  BY DEF ApplyLate, Loading
<1>13. ~Cleanup
  <2>1. ~StartCleanup /\ ~EndCleanup
    BY DEF StartCleanup, EndCleanup
  <2>2. \A c \in Client : ~CleanUser(c)
    BY DEF CleanUser
  <2> QED BY <2>1, <2>2 DEF Cleanup
<1>14. CASE Over \/ UNCHANGED vars
  BY <1>14 DEF Over, vars, Owed, Owes
<1>15. ASSUME NEW c \in Client, Process(c) PROVE \E d \in Client : Owes(d)'
  BY <1>3, <1>5, <1>7, <1>8, <1>9, <1>11, <1>15 DEF Process
<1> QED BY <1>10, <1>11, <1>12, <1>13, <1>14, <1>15 DEF Next

\* With no fault, a run that deletes on exit leaves nothing but what it found; over Mem0
\* and Supermemory one that ends without an error leaves nothing whatever was answered;
\* and neither does a cleanup that ends well, however the run ended (_run_shard_async,
\* teardown, _cleanup).
THEOREM NothingEverLeft == Spec => []NothingLeft
<1>1. Spec => [](Tidiness /\ Owed)
  BY InitTidy, TidyNext, OwedNext, AllInvariants, PTL DEF Spec
<1>2. ASSUME Inv, Secure, Tidiness, Owed PROVE NothingLeft
  <2>1. RunLeavesNothing
    <3> SUFFICES ASSUME AllOver, cleanup = "no", delete, NEW p \in exists,
                        \/ faults = 0
                        \/ backend \in Lazy /\ ~lost /\ \A c \in Client : error[c] = "none"
                 PROVE  p \in before \cap (IF shared THEN {Common} ELSE NeverTouched)
      BY DEF RunLeavesNothing
    <3>1. CASE shared
      <4>1. p = Common /\ faults = 0
        BY <1>2, <3>1 DEF Tidiness, Secure
      <4>2. \A c \in Client : ~Owes(c)
        BY DEF AllOver, Owes
      <4> QED BY <1>2, <3>1, <4>1, <4>2 DEF Owed
    <3>2. CASE ~shared
      <4>1. p \in Client
        BY <1>2, <3>2 DEF Tidiness
      <4>2. Left(p)
        BY <1>2, <3>2, <4>1 DEF Tidiness, Tidy
      <4> QED BY <3>2, <4>1, <4>2 DEF Left, AllOver, NeverTouched
    <3> QED BY <3>1, <3>2
  <2>2. CleanupLeavesNothing
    <3> SUFFICES ASSUME cleanup = "ok", Sound, NEW p \in exists PROVE p = Common
      BY DEF CleanupLeavesNothing, Sound
    <3>1. CASE shared
      BY <1>2, <3>1 DEF Tidiness
    <3>2. CASE ~shared
      <4>1. p \in Client /\ AllOver /\ toClean = {}
        BY <1>2, <3>2 DEF Tidiness
      <4>2. Cleaned(p)
        BY <1>2, <3>2, <4>1 DEF Tidiness, Tidy
      <4> QED BY <4>1, <4>2 DEF Cleaned, AllOver
    <3> QED BY <3>1, <3>2
  <2> QED BY <2>1, <2>2 DEF NothingLeft
<1> QED BY <1>1, <1>2, AllInvariants, PTL
=============================================================================
