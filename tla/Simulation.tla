----------------------------- MODULE Simulation -----------------------------
(***************************************************************************)
(* One simulation, from its construction to its results: the loops of the  *)
(* engine under one clock, the graph they build, the workloads, what       *)
(* becomes of the packets, and the collectors that listen.  How packets    *)
(* find their way is left to Forwarding and the routing modules.           *)
(***************************************************************************)
EXTENDS Workloads, Metrics, TopologyBuilder

CONSTANTS
  View(_, _),         \* what is where: of a constellation, at a time
  Duration,
  TopologyInterval,   \* the other intervals are one unit
  MaxHops,            \* a bound on the transmissions of a packet
  MaxRuns,            \* a bound on the calls of run for one simulation
  Followed            \* the packets whose fate is followed; later ones stay under way

ASSUME TimesAssumption ==
  /\ Duration \in Nat \ {0}
  /\ TopologyInterval \in Nat \ {0}
  /\ Waits \subseteq Nat \ {0}
  /\ {MaxHops, MaxRuns} \subseteq Nat

VARIABLES
  spec,        \* what the simulation was built from
  phase,
  runs,        \* how often run has been called
  graph,       \* the edges of context.graph
  version,     \* context.topology_version
  faulted,     \* nodes that are not operational
  snapshot,    \* the last entry of metrics_snapshots
  results      \* what run has returned

simVars == <<workVars, metricsVars, spec, phase, runs, graph, version, faulted, snapshot, results>>

\* SimulationSpec, or the layers given to from_layers.
IsSpecification(s) ==
  /\ s.size \in Nat \X Nat /\ s.missing \subseteq Satellites(s.size)
  /\ s.pods \in Int /\ s.grounds \in Nat /\ s.sight \in BOOLEAN
  /\ s.unreliable \subseteq {"router", "physics", "workload"}
  /\ s.collectors \in Seq(MetricNames)
  /\ \A i \in DOMAIN s.workloads : IsProfile(s.workloads[i])

Sats == Satellites(spec.size) \ spec.missing
Pods == {<<"pod", i>> : i \in 1 .. spec.pods}
Grounds == {<<"gs", i>> : i \in 1 .. spec.grounds}
Registry == Sats \cup Pods \cup Grounds

GraphAt(t) ==
  BuildGraph(IslLinks(spec.size, Sats), Sats, Pods, Grounds, View(spec.size, t), spec.sight)
-----------------------------------------------------------------------------
(* Construction and start *)

InitSimulation ==
  /\ spec = <<>> /\ phase = "none" /\ runs = 0
  /\ now = 0 /\ due = <<>> /\ job = <<>> /\ packets = <<>>
  /\ collectors = <<>> /\ tally = <<>>
  /\ graph = {} /\ version = 0 /\ faulted = {} /\ snapshot = <<>> /\ results = <<>>

\* __init__, for a specification that is accepted.
Construct(s) ==
  /\ spec' = s /\ phase' = "built" /\ runs' = 0
  /\ now' = 0 /\ due' = <<>> /\ job' = <<>> /\ packets' = <<>>
  /\ collectors' = WithNetwork(s.collectors)
  /\ tally' = [i \in DOMAIN collectors' |-> NoCounts]
  /\ graph' = {} /\ version' = 0 /\ faulted' = {} /\ snapshot' = <<>> /\ results' = <<>>

\* The processes of one call of run, besides those of packets and pods.
Loops == {"topology", "snapshot"} \cup IF spec.models = {} THEN {} ELSE {"physics"}

LoopInterval(loop) == IF loop = "topology" THEN TopologyInterval ELSE 1

ActivePods == Pods \ faulted

\* The workloads that get as far as their first yield.
Starting ==
  {i \in DOMAIN spec.workloads : FirstWaits(spec.workloads[i], ActivePods) # {}}

\* run: setup the first time, and one process for each loop and workload.  After
\* an exception it can be called again, and the processes that were left run on.
Run ==
  /\ phase \in {"built", "raised"}
  /\ runs < MaxRuns
  /\ runs' = runs + 1
  /\ phase' = "running"
  /\ graph' = IF runs = 0 THEN GraphAt(0) ELSE graph
  /\ LET loops == {<<l, 0, runs'>> : l \in Loops}
         generators == {<<"workload", i, runs'>> : i \in Starting}
     IN  /\ \E wait \in [generators -> UNION {FirstWaits(spec.workloads[i], ActivePods) : i \in Starting}] :
              /\ \A k \in generators : wait[k] \in FirstWaits(spec.workloads[k[2]], ActivePods)
              /\ due' = [k \in DOMAIN due \cup loops \cup generators |->
                           IF k \in DOMAIN due THEN due[k]
                           ELSE now + IF k \in loops THEN LoopInterval(k[1]) ELSE wait[k]]
         /\ job' = [k \in DOMAIN job \cup generators |->
                      IF k \in generators
                      THEN Begun(spec.workloads[k[2]], ActivePods, Registry, now) ELSE job[k]]
  /\ UNCHANGED <<now, packets, metricsVars, spec, version, faulted, snapshot, results>>
-----------------------------------------------------------------------------
(* The loops *)

\* Fault: what is due at the end still happens.
ResumesAtEnd(k) ==
  /\ phase = "running"
  /\ due[k] <= Duration
  /\ \A j \in DOMAIN due : due[k] <= due[j]
  /\ now' = due[k]

\* env.run resumes the processes in order of time, and none at the very end.
Resumes(k) ==
  /\ phase = "running"
  /\ due[k] < Duration
  /\ \A j \in DOMAIN due : due[k] <= due[j]
  /\ now' = due[k]

\* The exception leaves env.run, and the process is gone.
Raise(k) == phase' = "raised" /\ Return(k)

TopologyUpdate(k) ==
  /\ k[1] = "topology"
  /\ Resumes(k)
  /\ \/ /\ version' = version + 1
        /\ Sleep(k, TopologyInterval)
        /\ Announce("TopologyUpdateEvent")
        /\ UNCHANGED phase
     \/ /\ "router" \in spec.unreliable
        /\ Raise(k)
        /\ UNCHANGED <<version, tally>>
  /\ graph' = GraphAt(now')
  /\ UNCHANGED <<job, packets, collectors, spec, runs, faulted, snapshot, results>>

\* A model that raises costs the tick; which nodes are faulted is up to the others.
PhysicsTick(k) ==
  /\ k[1] = "physics"
  /\ Resumes(k)
  /\ Sleep(k, 1)
  /\ \/ /\ faulted' \in {{}, {<<"pod", 1>>} \cap Pods}
        /\ Announce("PhysicsTickEvent")
     \/ /\ "physics" \in spec.unreliable
        /\ Announce("EngineErrorEvent")
        /\ UNCHANGED faulted
  /\ UNCHANGED <<job, packets, collectors, spec, phase, runs, graph, version, snapshot, results>>

\* Fault: the loop does not wait.
SnapshotAtOnce(k) ==
  /\ k[1] = "snapshot"
  /\ Resumes(k)
  /\ snapshot' = Summaries
  /\ UNCHANGED <<due, job, packets, metricsVars, spec, phase, runs, graph, version, faulted, results>>

Snapshot(k) ==
  /\ k[1] = "snapshot"
  /\ Resumes(k)
  /\ snapshot' = Summaries
  /\ Sleep(k, 1)
  /\ UNCHANGED <<job, packets, metricsVars, spec, phase, runs, graph, version, faulted, results>>

\* _safe_workload: an exception ends the workload only.
WorkloadTurn(k) ==
  /\ k \in DOMAIN job
  /\ Resumes(k)
  /\ \/ Work(k) /\ UNCHANGED tally
     \/ /\ "workload" \in spec.unreliable
        /\ Return(k)
        /\ Announce("EngineErrorEvent")
        /\ UNCHANGED <<job, packets>>
  /\ UNCHANGED <<collectors, spec, phase, runs, graph, version, faulted, snapshot, results>>

Finish ==
  /\ phase = "running"
  /\ \A k \in DOMAIN due : due[k] >= Duration
  /\ phase' = "ended"
  /\ now' = Duration
  /\ results' = Summaries
  /\ UNCHANGED <<due, job, packets, metricsVars, spec, runs, graph, version, faulted, snapshot>>
-----------------------------------------------------------------------------
(* What becomes of the packets, at any time between the turns of the loops *)

Becomes(i, status) == packets' = [packets EXCEPT ![i].status = status]

PacketUnchanged ==
  UNCHANGED <<now, due, job, collectors, spec, phase, runs, graph, version, faulted, snapshot, results>>

Transmit(i) ==
  /\ phase = "running"
  /\ packets[i].status = "published"
  /\ packets[i].src # packets[i].dst
  /\ packets[i].hops < MaxHops
  /\ packets' = [packets EXCEPT ![i].hops = @ + 1]
  /\ AnnounceOf(packets[i], "PacketTransmitEvent")
  /\ PacketUnchanged

Deliver(i) ==
  /\ phase = "running"
  /\ packets[i].status = "published"
  /\ packets[i].hops > 0
  /\ packets[i].dst \notin faulted
  /\ Becomes(i, "delivered")
  /\ AnnounceOf(packets[i], "PacketDeliveredEvent")
  /\ PacketUnchanged

\* The node that drops it may be any on its way.
Drop(i) ==
  /\ phase = "running"
  /\ packets[i].status = "published"
  /\ \E n \in Registry :
       \/ /\ n \in faulted
          /\ Becomes(i, "blamed")
          /\ AnnounceOf(packets[i], "PhysicsInducedDropEvent")
       \/ /\ n \notin faulted
          /\ Becomes(i, "dropped")
          /\ AnnounceOf(packets[i], "PacketDropEvent")
  /\ PacketUnchanged

\* The pod is not asked whether it is operational.
Compute(i) ==
  /\ phase = "running"
  /\ packets[i].status = "delivered"
  /\ packets[i].dst \in Pods
  /\ Becomes(i, "computed")
  /\ AnnounceOf(packets[i], "ComputeJobCompleteEvent")
  /\ PacketUnchanged

Turn ==
  \/ \E k \in DOMAIN due : TopologyUpdate(k) \/ PhysicsTick(k) \/ Snapshot(k) \/ WorkloadTurn(k)
  \/ Finish

PacketStep ==
  \E i \in DOMAIN packets : i <= Followed /\ (Transmit(i) \/ Deliver(i) \/ Drop(i) \/ Compute(i))

NextSimulation == Run \/ Turn \/ PacketStep
-----------------------------------------------------------------------------
(* Properties *)

\* Every variable keeps its type, and the clock stops short of the end while
\* anything can still happen.
TypeOK ==
  /\ phase \in {"none", "configured", "refused", "built", "running", "raised", "ended"}
  /\ runs \in 0 .. MaxRuns
  /\ now \in 0 .. Duration
  /\ phase = "ended" <=> now = Duration
  /\ \A k \in DOMAIN due : due[k] \in Nat /\ (phase = "running" => due[k] >= now)
  /\ \A k \in DOMAIN job : k[1] = "workload" /\ k[3] \in 1 .. runs
  /\ \A i \in DOMAIN packets :
       /\ packets[i].status \in {"published", "delivered", "computed", "dropped", "blamed"}
       /\ packets[i].hops \in 0 .. MaxHops
       /\ packets[i].src \in Registry /\ packets[i].dst \in Pods
  /\ Len(tally) = Len(collectors)
  /\ \A i \in DOMAIN tally : tally[i] \in [Counters -> Nat]
  /\ runs > 0 => graph \subseteq Registry \X Registry
  /\ version \in Nat
  /\ runs > 0 => faulted \subseteq Registry

With(statuses) == {i \in DOMAIN packets : packets[i].status \in statuses}

Lost == {"dropped", "blamed"}

\* Each packet's first hop, second hop, and so on.
HopsMade == {h \in (DOMAIN packets) \X (1 .. MaxHops) : h[2] <= packets[h[1]].hops}

\* What the collector called name should have counted.
MatchesFates(name, t) ==
  CASE name = "network_metrics" ->
         /\ t.delivered = Cardinality(With({"delivered", "computed"}))
         /\ t.drops = Cardinality(With(Lost))
         /\ t.transmitted = Cardinality(HopsMade)
    [] name = "compute_metrics" ->
         /\ t.jobs = Cardinality(With({"computed"}))
         /\ t.drops = Cardinality({i \in With(Lost) : IsComputePacket(packets[i])})
    [] name = "topology_metrics" -> t.updates = version
    [] name = "physics_metrics" -> t.drops = Cardinality(With({"blamed"}))

\* Whatever else has subscribed to the same events, a collector counts each
\* packet, job, drop and rebuild once: a drop by a faulted node counts for the
\* network, as one of all drops, and for physics.  Each second's summary counts
\* no more than the next, and the results are those of the end.
TalliesMatchFates ==
  /\ \A i \in DOMAIN collectors : MatchesFates(collectors[i], tally[i])
  /\ \A name \in DOMAIN snapshot : \A c \in Counters : snapshot[name][c] <= Summaries[name][c]
  /\ phase = "ended" => results = Summaries

\* A simulation that ended has rebuilt its topology once per interval, the end
\* excluded, but for the one update that each exception cost; and without an
\* exception or an error physics has ticked every second, the end excluded.
LoopsKeepTheBeat ==
  phase = "ended" =>
    /\ version = (Duration - 1) \div TopologyInterval - (runs - 1)
    /\ runs = 1 /\ "physics" \notin spec.unreliable =>
         \A i \in DOMAIN collectors :
           collectors[i] = "physics_metrics" =>
             tally[i].ticks = IF spec.models = {} THEN 0 ELSE Duration - 1

\* A node that can be sent to over a link can answer over it.
LinksLeadBothWays == runs > 0 => IsMutual(graph)

\* Links lead both ways, and without occlusion the satellites that are
\* registered reach each other, and the pods reach them, whatever the shape of
\* the constellation and whichever of its satellites are missing.
GraphHoldsTogether ==
  /\ LinksLeadBothWays
  /\ runs > 0 /\ ~ spec.sight => HoldsTogether(graph, Sats, Pods)

\* Once started a simulation ends, by itself or by an exception.
RunsEnd == phase = "running" ~> phase \in {"ended", "raised"}
=============================================================================
