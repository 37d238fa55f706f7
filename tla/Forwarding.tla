----------------------------- MODULE Forwarding -----------------------------
(***************************************************************************)
(* The packet-forwarding core of the SkyNetra simulation engine: one       *)
(* process per packet (_forward_packet), one compute server per pod        *)
(* (_compute_loop), the bounded queues of the nodes, one prioritised       *)
(* resource per directed link, and the topology and physics loops that     *)
(* change the graph and the fault flags under them.                        *)
(*                                                                         *)
(* SimPy runs one process at a time and switches only where a process      *)
(* yields, so an action is the code between two yields.  Durations are     *)
(* abstracted away: any process whose event is pending may run next.  The  *)
(* routing engine is any function whatever of the current state: it may    *)
(* name any node, answer None or raise.                                    *)
(***************************************************************************)
EXTENDS Naturals, Sequences, FiniteSets

CONSTANTS
  Relays, Pods, Grounds,  \* the node ids of the registry, by node type
  Packets,                \* the packets the workloads publish
  Src, Dst, Priority,     \* the immutable header fields of each packet
  MaxHops,                \* MAX_FORWARD_HOPS
  RelayCapacity,          \* RELAY_QUEUE_CAPACITY
  PodCapacity,            \* POD_QUEUE_CAPACITY
  Topologies,             \* the edge sets _build_graph may produce
  FaultSets,              \* the sets of nodes a physics tick may leave faulted
  Nobody                  \* neither a packet on a link nor a task at a pod

Nodes == Relays \cup Pods \cup Grounds
Buffered == Relays \cup Pods      \* a ground station does not buffer
Links == UNION Topologies

ASSUME NodeAssumption ==
  /\ Relays \cap Pods = {}
  /\ Buffered \cap Grounds = {}

ASSUME PacketAssumption ==
  /\ Src \in [Packets -> Nodes]
  /\ Dst \in [Packets -> Nodes]
  /\ Priority \in [Packets -> Nat]
  /\ Nobody \notin Packets

ASSUME BoundAssumption ==
  /\ MaxHops \in Nat \ {0}
  /\ RelayCapacity \in Nat
  /\ PodCapacity \in Nat

ASSUME EnvironmentAssumption ==
  /\ Topologies # {}
  /\ Topologies \subseteq SUBSET (Nodes \X Nodes)
  /\ FaultSets \subseteq SUBSET Nodes

VARIABLES
  stage,     \* where the process of each packet is suspended
  at,        \* current_node_id of each packet
  to,        \* next_hop of each packet, while it is on a link
  hops,      \* packet.hops
  before,    \* the requests queued on the link when the packet's own came in
  fate,      \* the outcome published for each packet
  blamed,    \* the packets dropped by a PhysicsInducedDropEvent
  holder,    \* the packet that holds each link's resource
  queue,     \* the _queue of each relay and pod
  tokens,    \* the items in the compute store of each pod
  serving,   \* the task each pod's compute server is executing
  computed,  \* the completed jobs, as <<packet, pod>>
  received, sent, refused,  \* the packet counters of each node
  edges,     \* the edges of context.graph
  faulted    \* the nodes whose fault flag is set

packetVars == <<stage, at, to, hops, before, fate, blamed, holder>>
nodeVars == <<queue, received, sent, refused>>
podVars == <<tokens, serving, computed>>
worldVars == <<edges, faulted>>
vars == <<packetVars, nodeVars, podVars, worldVars>>

Stages == {"unpublished", "spawned", "waiting", "sending", "flying", "ended"}
Refusals == {"source_unavailable", "node_unavailable", "destination_unavailable"}
Strandings == {"unrouted", "max_hops"}
Fates == {"none", "delivered"} \cup Refusals \cup Strandings

Init ==
  /\ stage = [p \in Packets |-> "unpublished"]
  /\ at = Src
  /\ to = Src
  /\ hops = [p \in Packets |-> 0]
  /\ before = [p \in Packets |-> {}]
  /\ fate = [p \in Packets |-> "none"]
  /\ blamed = {}
  /\ holder = [l \in Links |-> Nobody]
  /\ queue = [n \in Buffered |-> <<>>]
  /\ tokens = [d \in Pods |-> 0]
  /\ serving = [d \in Pods |-> Nobody]
  /\ computed = {}
  /\ received = [n \in Nodes |-> 0]
  /\ sent = [n \in Nodes |-> 0]
  /\ refused = [n \in Nodes |-> 0]
  /\ edges \in Topologies
  /\ faulted = {}
-----------------------------------------------------------------------------
(* Links: the simpy.PriorityResource of each directed link. *)

Link(p) == <<at[p], to[p]>>

Waiting(l) == {p \in Packets : stage[p] = "waiting" /\ Link(p) = l}

\* Fault: the request is made without the priority of the packet.
PrecedesInArrivalOrder(p, q) == p \in before[q]

\* The order of the request queue: by priority, then by arrival.
Precedes(p, q) ==
  \/ Priority[p] < Priority[q]
  \/ Priority[p] = Priority[q] /\ p \in before[q]

IsHead(p, l) ==
  /\ p \in Waiting(l)
  /\ \A q \in Waiting(l) \ {p} : Precedes(p, q)

\* p leaves the request queue of its link and holds the link.
Granted(p) ==
  [q \in Packets |-> IF q = p THEN {} ELSE before[q] \ {p}]

\* p, at node n, asks for the link to m.  A request is granted at once if the
\* link is free and nobody in the queue sorts before it; a link that has been
\* released but not yet passed on goes to the head of the queue, p included.
Request(p, n, m) ==
  LET l == <<n, m>> IN
  /\ at' = [at EXCEPT ![p] = n]
  /\ to' = [to EXCEPT ![p] = m]
  /\ \/ /\ holder[l] = Nobody
        /\ \A q \in Waiting(l) : Priority[p] < Priority[q]
        /\ holder' = [holder EXCEPT ![l] = p]
        /\ stage' = [stage EXCEPT ![p] = "sending"]
        /\ UNCHANGED before
     \/ /\ holder[l] = Nobody
        /\ \E q \in Waiting(l) :
             /\ IsHead(q, l)
             /\ Priority[q] <= Priority[p]
             /\ holder' = [holder EXCEPT ![l] = q]
             /\ stage' = [stage EXCEPT ![p] = "waiting", ![q] = "sending"]
             /\ before' = [Granted(q) EXCEPT ![p] = Waiting(l) \ {q}]
     \/ /\ holder[l] # Nobody
        /\ stage' = [stage EXCEPT ![p] = "waiting"]
        /\ before' = [before EXCEPT ![p] = Waiting(l)]
        /\ UNCHANGED holder
-----------------------------------------------------------------------------
(* Nodes: process_packet, and the engine's _drop. *)

Capacity(n) == IF n \in Relays THEN RelayCapacity ELSE PodCapacity

\* Fault: the capacity test is off by one.
AcceptsOneShort(n) ==
  /\ n \notin faulted
  /\ n \in Buffered => Len(queue[n]) + 1 < Capacity(n)

Accepts(n) ==
  /\ n \notin faulted
  /\ n \in Buffered => Len(queue[n]) < Capacity(n)

Enqueued(p, n) ==
  IF n \in Buffered THEN [queue EXCEPT ![n] = Append(@, p)] ELSE queue

Accept(p, n) ==
  /\ Accepts(n)
  /\ received' = [received EXCEPT ![n] = @ + 1]
  /\ UNCHANGED refused

\* The process of p publishes its outcome, at node n, and returns.
End(p, n, outcome) ==
  /\ stage' = [stage EXCEPT ![p] = "ended"]
  /\ at' = [at EXCEPT ![p] = n]
  /\ to' = [to EXCEPT ![p] = n]
  /\ fate' = [fate EXCEPT ![p] = outcome]

\* Fault: no return after the drop.
DropWithoutReturn(p, n, reason) ==
  /\ at' = [at EXCEPT ![p] = n]
  /\ to' = [to EXCEPT ![p] = n]
  /\ fate' = [fate EXCEPT ![p] = reason]
  /\ blamed' = IF n \in faulted THEN blamed \cup {p} ELSE blamed
  /\ UNCHANGED stage

Drop(p, n, reason) ==
  /\ End(p, n, reason)
  /\ blamed' = IF n \in faulted THEN blamed \cup {p} ELSE blamed

\* Node n refuses p, and the engine drops it there.
Refuse(p, n, reason) ==
  /\ ~ Accepts(n)
  /\ refused' = [refused EXCEPT ![n] = @ + 1]
  /\ Drop(p, n, reason)
  /\ UNCHANGED <<hops, before, holder, queue, received, sent, podVars, worldVars>>
-----------------------------------------------------------------------------
(* Packets: _forward_packet. *)

\* Fault: a pod may be entered in transit.
UsableThroughPods(p, n) == {m \in Nodes \ {n} : <<n, m>> \in edges}

\* The edges the engine lets a packet take from n once the router names them:
\* a pod is entered only as the destination.
Usable(p, n) ==
  {m \in Nodes \ {n} : <<n, m>> \in edges /\ (m \in Pods => m = Dst[p])}

\* Fault: forward_packet is never called.
DispatchWithoutDequeue(p, n, hopsDone) ==
  /\ hops' = [hops EXCEPT ![p] = hopsDone]
  /\ queue' = Enqueued(p, n)
  /\ UNCHANGED sent
  /\ \/ /\ hopsDone < MaxHops
        /\ \E m \in Usable(p, n) : Request(p, n, m)
        /\ UNCHANGED <<fate, blamed>>
     \/ /\ Drop(p, n, IF hopsDone < MaxHops THEN "unrouted" ELSE "max_hops")
        /\ UNCHANGED <<before, holder>>

\* From the top of the forwarding loop to its first yield, at a node n that
\* has just accepted p: the loop test, the routing decision and the dequeue.
\* Only a relay has a forward_packet, which pops its oldest packet, not p.
Dispatch(p, n, hopsDone) ==
  /\ hops' = [hops EXCEPT ![p] = hopsDone]
  /\ \/ /\ hopsDone < MaxHops
        /\ \E m \in Usable(p, n) :
             /\ queue' = IF n \in Relays
                         THEN [Enqueued(p, n) EXCEPT ![n] = Tail(@)]
                         ELSE Enqueued(p, n)
             /\ sent' = IF n \in Relays THEN [sent EXCEPT ![n] = @ + 1] ELSE sent
             /\ Request(p, n, m)
             /\ UNCHANGED <<fate, blamed>>
     \/ /\ queue' = Enqueued(p, n)
        /\ Drop(p, n, IF hopsDone < MaxHops THEN "unrouted" ELSE "max_hops")
        /\ UNCHANGED <<before, holder, sent>>

\* A workload publishes p: publish_packet spawns its forwarding process.
Publish(p) ==
  /\ stage[p] = "unpublished"
  /\ stage' = [stage EXCEPT ![p] = "spawned"]
  /\ UNCHANGED <<at, to, hops, before, fate, blamed, holder, nodeVars, podVars, worldVars>>

\* The forwarding process starts, at the source.
Start(p) ==
  /\ stage[p] = "spawned"
  /\ \/ Refuse(p, Src[p], "source_unavailable")
     \/ /\ Accept(p, Src[p])
        /\ Dispatch(p, Src[p], 0)
        /\ UNCHANGED <<podVars, worldVars>>

\* Fault: the relay dequeues once more when the transmission ends.
FinishSendingDequeuesAgain(p) ==
  /\ stage[p] = "sending"
  /\ stage' = [stage EXCEPT ![p] = "flying"]
  /\ holder' = [holder EXCEPT ![Link(p)] = Nobody]
  /\ queue' = IF at[p] \in Relays /\ queue[at[p]] # <<>>
              THEN [queue EXCEPT ![at[p]] = Tail(@)]
              ELSE queue
  /\ UNCHANGED <<at, to, hops, before, fate, blamed, received, sent, refused, podVars, worldVars>>

\* The transmission ends and the link is released; the next request is
\* granted only when SimPy gets to the release event, in PassOn.
FinishSending(p) ==
  /\ stage[p] = "sending"
  /\ stage' = [stage EXCEPT ![p] = "flying"]
  /\ holder' = [holder EXCEPT ![Link(p)] = Nobody]
  /\ UNCHANGED <<at, to, hops, before, fate, blamed, nodeVars, podVars, worldVars>>

PassOn(l) ==
  /\ holder[l] = Nobody
  /\ \E p \in Packets :
       /\ IsHead(p, l)
       /\ holder' = [holder EXCEPT ![l] = p]
       /\ stage' = [stage EXCEPT ![p] = "sending"]
       /\ before' = Granted(p)
  /\ UNCHANGED <<at, to, hops, fate, blamed, nodeVars, podVars, worldVars>>

\* Fault: the compute server is not woken.
DeliverWithoutToken(p) ==
  /\ Accept(p, Dst[p])
  /\ queue' = Enqueued(p, Dst[p])
  /\ End(p, Dst[p], "delivered")
  /\ UNCHANGED <<hops, before, blamed, holder, sent, podVars, worldVars>>

\* _deliver at a destination that accepts p; a pod's server gets a token.
Deliver(p) ==
  /\ Accept(p, Dst[p])
  /\ queue' = Enqueued(p, Dst[p])
  /\ End(p, Dst[p], "delivered")
  /\ tokens' = IF Dst[p] \in Pods THEN [tokens EXCEPT ![Dst[p]] = @ + 1] ELSE tokens
  /\ UNCHANGED <<hops, before, blamed, holder, sent, serving, computed, worldVars>>

\* Fault: a hop is counted on both ends of the link.
ArriveCountingTwice(p) ==
  /\ stage[p] = "flying"
  /\ \/ /\ to[p] = Dst[p]
        /\ Deliver(p) \/ Refuse(p, Dst[p], "destination_unavailable")
     \/ /\ to[p] # Dst[p]
        /\ \/ Refuse(p, to[p], "node_unavailable")
           \/ /\ Accept(p, to[p])
              /\ Dispatch(p, to[p], hops[p] + 2)
              /\ UNCHANGED <<podVars, worldVars>>

\* p arrives at the other end of its link.
Arrive(p) ==
  /\ stage[p] = "flying"
  /\ \/ /\ to[p] = Dst[p]
        /\ Deliver(p) \/ Refuse(p, Dst[p], "destination_unavailable")
     \/ /\ to[p] # Dst[p]
        /\ \/ Refuse(p, to[p], "node_unavailable")
           \/ /\ Accept(p, to[p])
              /\ Dispatch(p, to[p], hops[p] + 1)
              /\ UNCHANGED <<podVars, worldVars>>
-----------------------------------------------------------------------------
(* Pods: _compute_loop. *)

\* A token wakes the server, which takes the oldest packet of the queue.
TakeTask(d) ==
  /\ serving[d] = Nobody
  /\ tokens[d] > 0
  /\ tokens' = [tokens EXCEPT ![d] = @ - 1]
  /\ IF queue[d] = <<>>
     THEN UNCHANGED <<queue, serving>>
     ELSE /\ serving' = [serving EXCEPT ![d] = Head(queue[d])]
          /\ queue' = [queue EXCEPT ![d] = Tail(@)]
  /\ UNCHANGED <<packetVars, received, sent, refused, computed, worldVars>>

\* Fault: record_compute does not count the packet.
FinishTaskUncounted(d) ==
  /\ serving[d] # Nobody
  /\ computed' = computed \cup {<<serving[d], d>>}
  /\ serving' = [serving EXCEPT ![d] = Nobody]
  /\ UNCHANGED <<packetVars, nodeVars, tokens, worldVars>>

FinishTask(d) ==
  /\ serving[d] # Nobody
  /\ computed' = computed \cup {<<serving[d], d>>}
  /\ sent' = [sent EXCEPT ![d] = @ + 1]
  /\ serving' = [serving EXCEPT ![d] = Nobody]
  /\ UNCHANGED <<packetVars, queue, received, refused, tokens, worldVars>>
-----------------------------------------------------------------------------
(* The topology and physics loops. *)

\* Fault: the link resources are rebuilt with the graph.
TopologyUpdateForgettingLinks ==
  /\ edges' \in Topologies
  /\ holder' = [l \in Links |-> Nobody]
  /\ UNCHANGED <<stage, at, to, hops, before, fate, blamed, nodeVars, podVars, faulted>>

\* The graph is replaced under packets that are on its links; the link
\* resources are kept.
TopologyUpdate ==
  /\ edges' \in Topologies
  /\ UNCHANGED <<packetVars, nodeVars, podVars, faulted>>

PhysicsTick ==
  /\ faulted' \in FaultSets
  /\ UNCHANGED <<packetVars, nodeVars, podVars, edges>>
-----------------------------------------------------------------------------
Next ==
  \/ \E p \in Packets : Publish(p) \/ Start(p) \/ FinishSending(p) \/ Arrive(p)
  \/ \E l \in Links : PassOn(l)
  \/ \E d \in Pods : TakeTask(d) \/ FinishTask(d)
  \/ TopologyUpdate
  \/ PhysicsTick

Spec == Init /\ [][Next]_vars

\* SimPy processes every scheduled event, if the run is long enough: a process
\* that can go on eventually does.  Workloads, topology and faults owe nothing.
Fairness ==
  /\ \A p \in Packets : WF_vars(Start(p)) /\ WF_vars(FinishSending(p)) /\ WF_vars(Arrive(p))
  /\ \A l \in Links : WF_vars(PassOn(l))
  /\ \A d \in Pods : WF_vars(TakeTask(d)) /\ WF_vars(FinishTask(d))

FairSpec == Spec /\ Fairness
-----------------------------------------------------------------------------
(* Properties. *)

\* Every variable keeps its type.
TypeOK ==
  /\ stage \in [Packets -> Stages]
  /\ at \in [Packets -> Nodes]
  /\ to \in [Packets -> Nodes]
  /\ hops \in [Packets -> 0 .. MaxHops]
  /\ before \in [Packets -> SUBSET Packets]
  /\ fate \in [Packets -> Fates]
  /\ blamed \in SUBSET Packets
  /\ holder \in [Links -> Packets \cup {Nobody}]
  /\ queue \in [Buffered -> Seq(Packets)]
  /\ tokens \in [Pods -> Nat]
  /\ serving \in [Pods -> Packets \cup {Nobody}]
  /\ computed \in SUBSET (Packets \X Pods)
  /\ received \in [Nodes -> Nat]
  /\ sent \in [Nodes -> Nat]
  /\ refused \in [Nodes -> Nat]
  /\ edges \in Topologies
  /\ faulted \in SUBSET Nodes

Sending(l) == {p \in Packets : stage[p] = "sending" /\ Link(p) = l}

\* A link transmits one packet at a time, and it is the one that holds its
\* resource, whatever topology rebuilds come between request and release.
LinkExclusive ==
  \A l \in Links : Sending(l) = IF holder[l] = Nobody THEN {} ELSE {holder[l]}

\* Whoever waits for a link waits for the packet that is sending on it, or,
\* between a release and the grant, can tell who comes first: requests with
\* priorities never end up in a circle in which nobody is the next.
LinksServe ==
  /\ LinkExclusive
  /\ \A l \in Links : Waiting(l) # {} => \E p \in Packets : IsHead(p, l)

\* A queued packet is overtaken on its link only by a more urgent one or by
\* one that was queued before it, even by a request that comes in between a
\* release and the grant that follows it.
NoUnfairOvertaking ==
  [][\A p, q \in Packets :
       (/\ stage[p] = "waiting" /\ stage'[p] = "waiting"
        /\ stage[q] # "sending" /\ stage'[q] = "sending"
        /\ Link(q)' = Link(p))
         => \/ Priority[q] < Priority[p]
            \/ Priority[q] = Priority[p] /\ q \in before[p]]_vars

\* The packets that ended at relay r after r had queued them.
Stranded(r) ==
  {p \in Packets : fate[p] \in Strandings \cup {"delivered"} /\ at[p] = r}

\* A relay's depth between two steps is the number of packets that ended
\* there: a packet dropped after it was accepted keeps its slot for ever, and
\* a packet in flight occupies none.
BacklogIsStranded ==
  \A r \in Relays : Len(queue[r]) = Cardinality(Stranded(r))

\* The slots lost to such packets are never recovered.
BacklogNeverShrinks ==
  [][\A r \in Relays : Len(queue'[r]) >= Len(queue[r])]_vars

\* The packets that pod d has accepted as their source.
Emitted(d) ==
  {p \in Packets : /\ Src[p] = d
                   /\ stage[p] \notin {"unpublished", "spawned"}
                   /\ fate[p] # "source_unavailable"}

\* A pod's queue holds one packet per token, plus one for each packet the pod
\* ever emitted; in particular a woken server never finds its queue empty.
PodBacklogCoversTokens ==
  \A d \in Pods : Len(queue[d]) = tokens[d] + Cardinality(Emitted(d))

\* The packets a pod has queued, is executing, or has executed.
AtHand(d) ==
  {queue[d][i] : i \in 1 .. Len(queue[d])}
  \cup ({serving[d]} \ {Nobody})
  \cup {p \in Packets : <<p, d>> \in computed}

\* A pod neither loses a task nor makes one up: these are the packets that were
\* delivered to it and, mixed up with them, those it emitted; and if it never
\* emitted any, there is a token for every packet that is queued.
PodsKeepTheirWork ==
  /\ PodBacklogCoversTokens
  /\ \A d \in Pods :
       AtHand(d) = {p \in Packets : fate[p] = "delivered" /\ Dst[p] = d} \cup Emitted(d)

\* The node counters that the metrics read balance with the queues.
BooksBalance ==
  /\ \A r \in Relays : received[r] = sent[r] + Len(queue[r])
  /\ \A d \in Pods :
       received[d] = sent[d] + Len(queue[d]) + (IF serving[d] = Nobody THEN 0 ELSE 1)
  /\ \A n \in Nodes :
       refused[n] = Cardinality({p \in Packets : fate[p] \in Refusals /\ at[p] = n})

\* Only a refusal is blamed on physics; a refusal that is not blamed happened
\* at a full buffer, and a relay that was full then is full for ever; and the
\* hop limit ends exactly the packets that MAX_FORWARD_HOPS nodes have accepted
\* on their way.
DropsAreExplained ==
  \A p \in Packets :
    /\ p \in blamed => fate[p] \in Refusals
    /\ fate[p] \in Refusals /\ p \notin blamed
         => /\ at[p] \in Buffered
            /\ at[p] \in Relays => Len(queue[at[p]]) = RelayCapacity
    /\ fate[p] = "max_hops" <=> hops[p] = MaxHops

\* What the ledger says of p.
StatusOf(p) ==
  IF stage[p] = "unpublished" THEN "unpublished"
  ELSE IF fate[p] = "none" THEN "in_flight"
  ELSE IF fate[p] = "delivered" THEN "delivered"
  ELSE "dropped"

Ledger == INSTANCE PacketLedger WITH
  Budget <- MaxHops,
  status <- [p \in Packets |-> StatusOf(p)],
  left <- [p \in Packets |-> MaxHops - hops[p]]

\* The engine implements PacketLedger: a published packet is delivered or
\* dropped once and for all, and that happens after at most MaxHops acceptances
\* at intermediate nodes.
KeepsLedger == Ledger!Spec

\* Every task delivered to a pod is executed there.
DeliveredIsComputed ==
  \A p \in Packets :
    (fate[p] = "delivered" /\ Dst[p] \in Pods) ~> (<<p, Dst[p]>> \in computed)

\* Relay queues drain when nothing is in flight: there is no phantom backlog.
NoPhantomBacklog ==
  (\A p \in Packets : stage[p] \in {"unpublished", "ended"})
     => \A r \in Relays : queue[r] = <<>>
=============================================================================
