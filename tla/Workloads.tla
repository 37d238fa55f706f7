------------------------------ MODULE Workloads ------------------------------
(***************************************************************************)
(* The generators of traffic.  Each looks at the registry once, when its   *)
(* process starts, and then waits and publishes in turn.  Time is whole    *)
(* units, the waits of random length are taken from a small set, and a     *)
(* packet is its header and what became of it.                             *)
(***************************************************************************)
EXTENDS Naturals, FiniteSets, Sequences

CONSTANTS
  Waits,     \* what rng.expovariate may return
  Endless    \* rounds = None

VARIABLES
  now,       \* env.now
  due,       \* for each suspended process of a loop, when its timeout ends
  job,       \* for each started generator, its local variables
  packets    \* all packets published, in order

workVars == <<now, due, job, packets>>

SyncPatterns == {"all_reduce", "parameter_server"}

RoundPatterns == SyncPatterns \cup {"federated"}

ArrivalPatterns == {"poisson", "on_off", "bursty"}

\* The fields of the three profiles that a generator reads; no time is negative,
\* and no generator goes round without any time passing.
IsTrainingProfile(w) ==
  /\ w.pattern \in SyncPatterns
  /\ w.interval \in Nat \ {0} /\ w.rounds \in Nat \cup {Endless} /\ w.flops \in Nat

IsInferenceProfile(w) ==
  /\ w.pattern \in ArrivalPatterns
  /\ {w.on, w.off, w.burst, w.gap, w.flops} \subseteq Nat /\ {w.on + w.off, w.idle} \subseteq Nat \ {0}

IsFederatedProfile(w) ==
  /\ w.pattern = "federated"
  /\ w.interval \in Nat \ {0} /\ w.rounds \in Nat /\ w.flops \in Nat

IsProfile(w) == IsTrainingProfile(w) \/ IsInferenceProfile(w) \/ IsFederatedProfile(w)
-----------------------------------------------------------------------------
\* get_active_pods keeps the order of the registry, in which pods are numbered.
First(pods) == CHOOSE pod \in pods : \A other \in pods : pod[2] <= other[2]

\* The aggregator of the profile, if it is active, or the first active pod.
Server(w, pods) ==
  IF w.pattern = "federated" /\ w.aggregator \in pods THEN w.aggregator ELSE First(pods)

\* The time up to the first emission, or nothing if the generator returns.
FirstWaits(w, pods) ==
  CASE w.pattern \in RoundPatterns ->
         IF Cardinality(pods) < 2 \/ w.rounds = 0 THEN {} ELSE {w.interval}
    [] w.pattern = "poisson" -> IF pods = {} THEN {} ELSE Waits
    [] w.pattern = "on_off" -> IF pods = {} THEN {} ELSE IF w.on = 0 THEN {w.off} ELSE Waits
    [] w.pattern = "bursty" -> IF pods = {} THEN {} ELSE {0}

\* The local variables of generate for the workload w at time t.
Begun(w, pods, registry, t) ==
  [workload |-> w,
   pods |-> pods,
   sources |-> IF w.sources \cap registry = {} THEN registry ELSE w.sources \cap registry,
   round |-> 0,
   left |-> w.burst,
   until |-> t + w.on]
-----------------------------------------------------------------------------
(* One round *)

Header(k, role, s, d) ==
  [by |-> k, round |-> job[k].round, role |-> role, src |-> s, dst |-> d,
   type |-> job[k].workload.type,
   flops |-> IF role = "broadcast" THEN 0 ELSE job[k].workload.flops,
   status |-> "published", hops |-> 0]

\* The order of the nested loops over the pods.
InOrder(e, f) == e[1][2] < f[1][2] \/ (e[1][2] = f[1][2] /\ e[2][2] <= f[2][2])

Published(k, role, pairs) ==
  [i \in 1 .. Cardinality(pairs) |->
     LET e == CHOOSE e \in pairs : Cardinality({f \in pairs : InOrder(f, e)}) = i
     IN  Header(k, role, e[1], e[2])]

\* Fault: the server is one of the workers.
RoundWithServer(k) ==
  LET pods == job[k].pods
      server == Server(job[k].workload, pods)
  IN  Published(k, "gradient", pods \X {server})

TrainingRound(k) ==
  LET pods == job[k].pods
      server == Server(job[k].workload, pods)
      pairs == IF job[k].workload.pattern = "all_reduce"
               THEN {e \in pods \X pods : e[1] # e[2]}
               ELSE (pods \ {server}) \X {server}
  IN  Published(k, "gradient", pairs)

FederatedRound(k) ==
  LET pods == job[k].pods
      aggregator == Server(job[k].workload, pods)
      workers == pods \ {aggregator}
  IN  Published(k, "gather", workers \X {aggregator})
      \o Published(k, "broadcast", {aggregator} \X workers)

Round(k) ==
  IF job[k].workload.pattern = "federated" THEN FederatedRound(k) ELSE TrainingRound(k)

\* Process k waits for d more units, from the time it was resumed at.
Sleep(k, d) == due' = [due EXCEPT ![k] = due[k] + d]

Return(k) == due' = [j \in DOMAIN due \ {k} |-> due[j]]

PublishRound(k) ==
  LET w == job[k].workload IN
  /\ w.pattern \in RoundPatterns
  /\ packets' = packets \o Round(k)
  /\ job' = [job EXCEPT ![k].round = @ + 1]
  /\ IF w.rounds = Endless \/ job[k].round + 1 < w.rounds THEN Sleep(k, w.interval) ELSE Return(k)
-----------------------------------------------------------------------------
(* Queries *)

Emit(k) ==
  \E s \in job[k].sources, d \in job[k].pods :
    packets' = Append(packets, Header(k, "query", s, d))

PoissonQuery(k) ==
  /\ job[k].workload.pattern = "poisson"
  /\ Emit(k)
  /\ \E d \in Waits : Sleep(k, d)
  /\ UNCHANGED job

\* until = 0 stands for the pause after a window; windows of no length leave nothing
\* but pauses.
OnOffQuery(k) ==
  /\ job[k].workload.pattern = "on_off"
  /\ job[k].until > due[k]
  /\ Emit(k)
  /\ \E d \in Waits : Sleep(k, d)
  /\ UNCHANGED job

OnOffPause(k) ==
  /\ job[k].workload.pattern = "on_off"
  /\ job[k].until \in 1 .. due[k] \/ job[k].workload.on = 0
  /\ job' = [job EXCEPT ![k].until = 0]
  /\ Sleep(k, job[k].workload.off)
  /\ UNCHANGED packets

OnOffWindow(k) ==
  /\ job[k].workload.pattern = "on_off"
  /\ job[k].until = 0 /\ job[k].workload.on > 0
  /\ job' = [job EXCEPT ![k].until = due[k] + job[k].workload.on]
  /\ \E d \in Waits : Sleep(k, d)
  /\ UNCHANGED packets

BurstQuery(k) ==
  /\ job[k].workload.pattern = "bursty"
  /\ job[k].left > 0
  /\ Emit(k)
  /\ job' = [job EXCEPT ![k].left = @ - 1]
  /\ Sleep(k, job[k].workload.gap)

BurstPause(k) ==
  /\ job[k].workload.pattern = "bursty"
  /\ job[k].left = 0
  /\ job' = [job EXCEPT ![k].left = job[k].workload.burst]
  /\ Sleep(k, job[k].workload.idle)
  /\ UNCHANGED packets

Work(k) ==
  \/ PublishRound(k)
  \/ PoissonQuery(k)
  \/ OnOffQuery(k)
  \/ OnOffPause(k)
  \/ OnOffWindow(k)
  \/ BurstQuery(k)
  \/ BurstPause(k)
-----------------------------------------------------------------------------
\* The headers of the packets of role that generator k published in round r.
Sent(k, r, role) ==
  {i \in DOMAIN packets : packets[i].by = k /\ packets[i].round = r /\ packets[i].role = role}

\* Exactly one packet of I goes along each of the pairs.
Covers(I, pairs) ==
  /\ Cardinality(I) = Cardinality(pairs)
  /\ pairs = {<<packets[i].src, packets[i].dst>> : i \in I}

\* Whatever has failed or recovered since, each round of training is complete:
\* all-reduce exchanges every pair of the pods that were active at the start, a
\* server hears from all the others, and a federated aggregator hears from each
\* worker once, and answers each once, after the last it hears from.  Server and
\* aggregator are the same in all rounds.
RoundsAreComplete ==
  \A k \in DOMAIN job : \E server \in job[k].pods : \A r \in 0 .. job[k].round - 1 :
    LET pods == job[k].pods
        toServer == (pods \ {server}) \X {server}
        fromServer == {server} \X (pods \ {server})
    IN  CASE job[k].workload.pattern = "all_reduce" ->
               Covers(Sent(k, r, "gradient"), {e \in pods \X pods : e[1] # e[2]})
          [] job[k].workload.pattern = "parameter_server" ->
               Covers(Sent(k, r, "gradient"), toServer)
          [] job[k].workload.pattern = "federated" ->
               /\ Covers(Sent(k, r, "gather"), toServer)
               /\ Covers(Sent(k, r, "broadcast"), fromServer)
               /\ \A i \in Sent(k, r, "gather"), j \in Sent(k, r, "broadcast") : i < j
=============================================================================
