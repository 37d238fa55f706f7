------------------------------- MODULE Metrics -------------------------------
(***************************************************************************)
(* The collectors and their aggregator: subscribers of the event bus that  *)
(* count.  The bus calls a subscriber for events of the class it has       *)
(* subscribed to and of the classes derived from it.                       *)
(***************************************************************************)
EXTENDS Naturals, Sequences, FiniteSets, SequencesExt

VARIABLES
  collectors,   \* MetricsAggregator.collectors, by name
  tally         \* what each collector has counted

metricsVars == <<collectors, tally>>

MetricNames == {"network_metrics", "compute_metrics", "topology_metrics", "physics_metrics"}

\* SimulationEvent and the classes between do not have subscribers of their own.
BasesOf(class) ==
  {class} \cup IF class = "PhysicsInducedDropEvent" THEN {"PacketDropEvent"} ELSE {}

\* Fault: drops are subscribed to by both of their classes.
SubscribedTwice(name) ==
  CASE name = "network_metrics" ->
         {"PacketDeliveredEvent", "PacketDropEvent", "PhysicsInducedDropEvent", "PacketTransmitEvent"}
    [] name = "compute_metrics" -> {"ComputeJobCompleteEvent", "PacketDropEvent"}
    [] name = "topology_metrics" -> {"TopologyUpdateEvent"}
    [] name = "physics_metrics" -> {"PhysicsTickEvent", "PacketDropEvent"}

\* attach
Subscribed(name) ==
  CASE name = "network_metrics" ->
         {"PacketDeliveredEvent", "PacketDropEvent", "PacketTransmitEvent"}
    [] name = "compute_metrics" -> {"ComputeJobCompleteEvent", "PacketDropEvent"}
    [] name = "topology_metrics" -> {"TopologyUpdateEvent"}
    [] name = "physics_metrics" -> {"PhysicsTickEvent", "PacketDropEvent"}

COMPUTE_PACKET_TYPES == {"ai_training_sync", "inference_query", "fl_gather", "fl_broadcast"}

IsComputePacket(p) == p.flops > 0 \/ p.type \in COMPUTE_PACKET_TYPES

\* The counters that the callbacks of each collector advance on an event.  What
\* is added up beside them, latencies, FLOPS, temperatures, is left out.
NetworkCounters(class) ==
  CASE class = "PacketDeliveredEvent" -> {"delivered"}
    [] class = "PacketTransmitEvent" -> {"transmitted"}
    [] OTHER -> {"drops"}

ComputeCounters(class, isCompute) ==
  CASE class = "ComputeJobCompleteEvent" -> {"jobs"}
    [] OTHER -> IF isCompute THEN {"drops"} ELSE {}

TopologyCounters == {"updates"}

\* ticks stands for all that _on_physics_tick counts.
PhysicsCounters(class) ==
  CASE class = "PhysicsTickEvent" -> {"ticks"}
    [] class = "PhysicsInducedDropEvent" -> {"drops"}
    [] OTHER -> {}

\* For an event that may be about a packet for a pod to compute.
Counter(name, class, isCompute) ==
  CASE name = "network_metrics" -> NetworkCounters(class)
    [] name = "compute_metrics" -> ComputeCounters(class, isCompute)
    [] name = "topology_metrics" -> TopologyCounters
    [] name = "physics_metrics" -> PhysicsCounters(class)

Counters == {"delivered", "transmitted", "drops", "jobs", "updates", "ticks"}

NoCounts == [c \in Counters |-> 0]

\* How often the bus calls back the collector, once per matching subscription.
Calls(name, class) == Cardinality(Subscribed(name) \cap BasesOf(class))

Counted(name, counts, class, isCompute) ==
  [c \in Counters |->
     counts[c] + IF c \in Counter(name, class, isCompute) THEN Calls(name, class) ELSE 0]

\* EventBus.publish, as far as the collectors go, of an event about packet p.
AnnounceOf(p, class) ==
  tally' = [i \in DOMAIN tally |->
              Counted(collectors[i], tally[i], class, IsComputePacket(p))]

\* An event that is not about a packet.
Announce(class) ==
  tally' = [i \in DOMAIN tally |-> Counted(collectors[i], tally[i], class, FALSE)]

\* get_all_summaries: of two collectors with one name the later one is seen.
Summaries ==
  [name \in {collectors[i] : i \in DOMAIN collectors} |->
     tally[CHOOSE i \in DOMAIN collectors :
             collectors[i] = name /\ \A j \in DOMAIN collectors : collectors[j] = name => j <= i]]

\* The typed views of what run returns: an entry that is missing reads as 0.
Entry(summaries, name, c) == IF name \in DOMAIN summaries THEN summaries[name][c] ELSE 0

NetworkSummary(summaries) ==
  [transmitted |-> Entry(summaries, "network_metrics", "transmitted"),
   delivered |-> Entry(summaries, "network_metrics", "delivered"),
   dropped |-> Entry(summaries, "network_metrics", "drops")]

ComputeSummary(summaries) ==
  [jobs_completed |-> Entry(summaries, "compute_metrics", "jobs"),
   compute_drops |-> Entry(summaries, "compute_metrics", "drops")]

PhysicsSummary(summaries) ==
  [physics_caused_drops |-> Entry(summaries, "physics_metrics", "drops")]

TopologySummary(summaries) ==
  [topology_updates |-> Entry(summaries, "topology_metrics", "updates")]

\* _resolve_collectors
WithNetwork(names) ==
  IF Contains(names, "network_metrics") THEN names
  ELSE Append(names, "network_metrics")
=============================================================================
