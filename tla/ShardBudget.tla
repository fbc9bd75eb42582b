----------------------------- MODULE ShardBudget -----------------------------
(***************************************************************************)
(* How the load of one run is divided over its processes: cli._split and   *)
(* cli._build_run_config, the checks of RunConfig, and                     *)
(* LoadRunner.shard_users, and how a chat profile divides the users over   *)
(* its groups (chat_profile.py).  Every process works out its own share,   *)
(* and the groups of all users; the parent has only tried the share of the *)
(* first process, and reports the sizes of the groups.                     *)
(***************************************************************************)
EXTENDS Integers, Sequences, FiniteSetsExt

CONSTANTS MaxUsers,   \* bound: users and processes
          MaxBudget,  \* bound: --ops, --global-concurrency and --queue-bound
          Parts       \* the shares of the groups are multiples of 1 / Parts

ASSUME BudgetAssumption == {MaxUsers, Parts} \subseteq Nat \ {0} /\ MaxBudget \in Nat

VARIABLES args,     \* the command line
          share,    \* share[i]: the RunConfig of process i, or Refused or Pending
          users,    \* users[i]: the positions of the users it drives
          groups    \* groups[i]: the group of each user, as process i sees it

vars == <<args, share, users, groups>>

\* (mutant of Split: the remainder of the division is lost)
DroppedRemainder(total, procs, index) == total \div procs

\* A share of a whole-run budget.  The remainder goes to the first processes.
Split(total, procs, index) ==
  IF procs <= 1 \/ total <= 0 THEN total
  ELSE total \div procs + (IF index < total % procs THEN 1 ELSE 0)

Pending == [state |-> "pending", ops |-> 0, cap |-> 0, queue |-> 0]
Refused == [Pending EXCEPT !.state = "refused"]

RunConfig(a, index) == [state |-> "built",
                        ops   |-> Split(a.ops, a.procs, index),
                        cap   |-> Split(a.cap, a.procs, index),
                        queue |-> Split(a.queue, a.procs, index)]

\* (mutant of Valid: off by one)
NeedsTwo(a, config) == (a.timed \/ config.ops > 1) /\ a.procs <= a.users

\* RunConfig.__post_init__: the checks that depend on the share.
Valid(a, config) == (a.timed \/ config.ops > 0) /\ a.procs <= a.users

\* users[index::procs]
ShardUsers(a, index) == {u \in 0 .. a.users - 1 : u % a.procs = index}

\* load_chat_profile: positive shares that sum to one.
Profiles == {shares \in UNION {[1 .. n -> 1 .. Parts] : n \in 1 .. Parts} :
               MapThenSumSet(LAMBDA g : shares[g], DOMAIN shares) = Parts}

\* counts(total): every group has the floor of its exact number of users; those with
\* the largest remainders, of equal ones the first, have one user more.
Floor(profile, total) == [g \in DOMAIN profile |-> (profile[g] * total) \div Parts]
Remainder(profile, total, g) == (profile[g] * total) % Parts
Before(profile, total, g) ==
  {h \in DOMAIN profile : \/ Remainder(profile, total, h) > Remainder(profile, total, g)
                          \/ Remainder(profile, total, h) = Remainder(profile, total, g) /\ h < g}
Counts(profile, total) ==
  LET floor == Floor(profile, total)
      rest  == total - MapThenSumSet(LAMBDA g : floor[g], DOMAIN profile)
  IN  [g \in DOMAIN profile |->
         floor[g] + IF Cardinality(Before(profile, total, g)) < rest THEN 1 ELSE 0]

\* assign(list): consecutive blocks of the shuffled users, one for each group.
Assign(profile, list) ==
  LET counts == Counts(profile, Cardinality(list))
      Place(u) == Cardinality({v \in list : args.shuffle[v] < args.shuffle[u]})
      End(g) == MapThenSumSet(LAMBDA h : counts[h], 1 .. g)
  IN  [u \in list |-> CHOOSE g \in DOMAIN profile : /\ Place(u) < End(g)
                                                    /\ Place(u) >= End(g - 1)]

Shuffles(n) == {f \in [0 .. n - 1 -> 0 .. n - 1] :
                  \A u, v \in 0 .. n - 1 : f[u] = f[v] => u = v}

Args == UNION {[users : {n}, procs : 1 .. MaxUsers, timed : BOOLEAN,
                ops : 0 .. MaxBudget, cap : 0 .. MaxBudget, queue : 0 .. MaxBudget,
                profile : Profiles, shuffle : Shuffles(n)] : n \in 1 .. MaxUsers}

Procs == 0 .. args.procs - 1

TypeOK == /\ args \in Args
          /\ \A i \in Procs : /\ share[i].state \in {"pending", "built", "refused"}
                              /\ users[i] \subseteq 0 .. args.users - 1
                              /\ DOMAIN groups[i] \subseteq 0 .. args.users - 1
                              /\ \A u \in DOMAIN groups[i] :
                                   groups[i][u] \in DOMAIN args.profile

\* _run has built the first configuration without an error.
Init == /\ args \in {a \in Args : Valid(a, RunConfig(a, 0))}
        /\ share = [i \in Procs |-> Pending]
        /\ users = [i \in Procs |-> {}]
        /\ groups = [i \in Procs |-> <<>>]

\* (mutant of Assigned: the profile is applied after sharding)
OwnOnly(i) == Assign(args.profile, ShardUsers(args, i))

\* _configure_users, before sharding.
Assigned(i) == Assign(args.profile, 0 .. args.users - 1)

\* Process i builds its runner and divides the users (_run_shard_async), or raises.
BuildShard(i) ==
  /\ share[i] = Pending
  /\ LET config == RunConfig(args, i)
     IN  IF Valid(args, config)
         THEN /\ share' = [share EXCEPT ![i] = config]
              /\ users' = [users EXCEPT ![i] = ShardUsers(args, i)]
              /\ groups' = [groups EXCEPT ![i] = Assigned(i)]
         ELSE share' = [share EXCEPT ![i] = Refused] /\ UNCHANGED <<users, groups>>
  /\ UNCHANGED args

Built == \A i \in Procs : share[i].state = "built"
Over == Pending \notin {share[i] : i \in Procs} /\ UNCHANGED vars

Next == (\E i \in Procs : BuildShard(i)) \/ Over

Spec == Init /\ [][Next]_vars

-----------------------------------------------------------------------------
(* Properties.                                                             *)

Total(f) == MapThenSumSet(LAMBDA i : f[i], Procs)

\* The shares of operations, of in-flight slots and of queue places add up to
\* what was asked for, and no process gets more than one more than another.
SharesExact ==
  /\ Total([i \in Procs |-> share[i].ops])   = args.ops
  /\ Total([i \in Procs |-> share[i].cap])   = args.cap
  /\ Total([i \in Procs |-> share[i].queue]) = args.queue
  /\ \A i, j \in Procs : share[i].ops - share[j].ops \in -1 .. 1

\* Every user is driven by exactly one process, every process has one to drive,
\* and an ordered list of users is dealt out evenly from both ends.
UsersPartitioned ==
  /\ UNION {users[i] : i \in Procs} = 0 .. args.users - 1
  /\ \A i, j \in Procs : i # j => users[i] \cap users[j] = {}
  /\ \A i \in Procs : users[i] # {}
  /\ \A n \in 1 .. args.users, i, j \in Procs :
       Cardinality(users[i] \cap 0 .. n - 1)
         - Cardinality(users[j] \cap 0 .. n - 1) \in -1 .. 1

\* docs/running.md: --global-concurrency is the maximum of total in-flight
\* operations.  No process runs without a limit if one was asked for.
CapKept == Built /\ args.cap > 0 => \A i \in Procs : share[i].cap > 0

\* A process refuses its share of a command line that the parent has accepted
\* only when a purely count-limited run has fewer operations than processes.
RefusedOnlyWhenShort ==
  (\E i \in Procs : share[i] = Refused) => ~args.timed /\ args.ops < args.procs

\* What the processes do adds up to the whole load, divided evenly; and a process
\* that takes no part, which fails the run, is one for which there was no work.
LoadDivided == TypeOK /\ RefusedOnlyWhenShort
               /\ (Built => SharesExact /\ UsersPartitioned)

\* Over all processes every group of the profile has as many users as the parent
\* reports, whatever the shuffle, and its share of them but for less than one user.
GroupsExact ==
  Built => LET Driven(g) == UNION {{u \in users[i] : groups[i][u] = g} : i \in Procs}
           IN  \A g \in DOMAIN args.profile :
                 LET n == Cardinality(Driven(g))
                 IN  /\ n = Counts(args.profile, args.users)[g]
                     /\ Parts * n - args.profile[g] * args.users \in 1 - Parts .. Parts - 1
=============================================================================
