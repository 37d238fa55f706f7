------------------------- MODULE ShortestPathRouting -------------------------
(***************************************************************************)
(* ShortestPathRouter and the engine that follows it: the next-hop tables  *)
(* computed when the topology changes, the search that stands in for them  *)
(* when a table entry is unusable or link penalties are in force, and one  *)
(* packet at a time that is routed hop by hop while graph, penalties and   *)
(* faults change.  Dijkstra's algorithm is networkx's: what it returns is  *)
(* a shortest path, and which one of several is left open.                 *)
(***************************************************************************)
EXTENDS Integers, Sequences, FiniteSetsExt

CONSTANTS
  Nodes,
  Pods,
  Sources, Destinations,  \* of the packets the workloads publish
  Graphs,       \* the graphs: functions from edges to the weight of the mode
  Penalties,    \* the weight_overrides: functions from some links to a penalty
  FaultSets,
  MaxHops,
  Infinity,     \* math.inf: more than any path weighs
  None

ASSUME RoutingAssumption ==
  /\ Pods \subseteq Nodes
  /\ Sources \cup Destinations \subseteq Nodes
  /\ None \notin Nodes
  /\ MaxHops \in Nat \ {0}
  /\ Infinity \in Nat
  /\ FaultSets \subseteq SUBSET Nodes
  /\ \A w \in Graphs : DOMAIN w \subseteq Nodes \X Nodes

\* A link takes time, or counts as one hop, or weighs the inverse of its capacity;
\* a penalty is the size of a relative shift.
ASSUME WeightsAssumption ==
  /\ IsFiniteSet(Nodes)
  /\ \A w \in Graphs : w \in [DOMAIN w -> Nat \ {0}]
  /\ \A p \in Penalties : p \in [DOMAIN p -> Nat]

VARIABLES
  graph,        \* context.graph
  nextHop,      \* _next_hop, with every first hop of an equally short path
  penalty,      \* context.combined_weight_overrides
  faulted,      \* the nodes whose fault flag is set
  outcome,      \* what the packet is doing, or has come to
  at,           \* where the router was last asked
  to,           \* the hop it chose
  dst,
  hops,
  trail         \* where it was asked for this packet since the world changed

worldVars == <<graph, nextHop, penalty, faulted>>
packetVars == <<outcome, at, to, dst, hops, trail>>
vars == <<worldVars, packetVars>>

Drops == {"source_unavailable", "node_unavailable", "destination_unavailable",
          "no_route", "pod_not_transit", "max_hops"}
Outcomes == {"unsent", "flying", "delivered"} \cup Drops
-----------------------------------------------------------------------------
(* Shortest paths in the subgraph of w on the nodes N. *)

Into(w, N, n) == {m \in N : <<m, n>> \in DOMAIN w}

\* The weight of the lightest path from s to each node.
Lengths(w, N, s) ==
  LET within[k \in Nat] ==
        IF k = 0 THEN [n \in N |-> IF n = s THEN 0 ELSE Infinity]
        ELSE LET shorter == within[k - 1] IN
             [n \in N |->
                Min({shorter[n]} \cup {shorter[m] + w[<<m, n>>] : m \in Into(w, N, n)})]
  IN  IF N = {} THEN <<>> ELSE within[Cardinality(N) - 1]

\* route[1] of the paths single_source_dijkstra or dijkstra_path may return.
FirstHops(w, N, s, t) ==
  LET length == Lengths(w, N, s)[t]
  IN  IF s = t \/ length >= Infinity THEN {}
      ELSE {m \in N : /\ <<s, m>> \in DOMAIN w
                      /\ w[<<s, m>>] + Lengths(w, N, m)[t] = length}

\* Fault: the pods stay in the graph.
TransitThroughPods(N, s) == N

\* _transit_subgraph: no pods but the source.
Transit(N, s) == (N \ Pods) \cup {s}

\* Fault: an attached node that is out of reach counts as near.
HopsToPodOutOfReach(w, v, N, s, pod) ==
  LET T == Transit(N, s)
      lengths == Lengths(w, T, s)
      Total(a) == (IF a \in T /\ lengths[a] < Infinity THEN lengths[a] ELSE 0) + v[<<a, pod>>]
      attached == Into(v, N, pod)
      best == {a \in attached : \A b \in attached : Total(a) <= Total(b)}
  IN  UNION {IF a = s THEN {pod} ELSE FirstHops(w, T, s, a) :
               a \in {b \in best \cap T : lengths[b] < Infinity}}

\* _patch_pod_targets: through the attached node with the least total.  The
\* search uses weight w, the last edge weight v.
HopsToPod(w, v, N, s, pod) ==
  LET T == Transit(N, s)
      lengths == Lengths(w, T, s)
      Total(a) == (IF a \in T THEN lengths[a] ELSE Infinity) + v[<<a, pod>>]
      attached == Into(v, N, pod)
      best == {a \in attached : \A b \in attached : Total(a) <= Total(b)}
  IN  UNION {IF a = s THEN {pod} ELSE FirstHops(w, T, s, a) :
               a \in {b \in best \cap T : lengths[b] < Infinity}}

\* _precompute_next_hops
Tables ==
  [w \in Graphs |-> [s \in Nodes |-> [t \in Nodes \ {s} |->
     IF t \in Pods THEN HopsToPod(w, w, Nodes, s, t)
     ELSE FirstHops(w, Transit(Nodes, s), s, t)]]]
-----------------------------------------------------------------------------
(* select_next_hop *)

\* _edge_weight_fn, penalties included.
Penalised == [e \in DOMAIN graph |->
                graph[e] + (IF e \in DOMAIN penalty THEN penalty[e] ELSE 0)]

Operational == Nodes \ faulted

\* _dijkstra_next_hop on the operational subgraph: the pods are kept out of
\* the way to a pod only, and the last edge to a pod bears no penalty.
Searched(s, t) ==
  IF {s, t} \cap faulted # {} THEN {}
  ELSE IF t \in Pods THEN HopsToPod(Penalised, graph, Operational, s, t)
  ELSE FirstHops(Penalised, Operational, s, t)

SearchResults(s, t) ==
  LET found == Searched(s, t) IN IF found = {} THEN {None} ELSE found

\* Fault: the table is not checked against the faults.
UnusableOnlyIfGone(s, h) == <<s, h>> \notin DOMAIN graph

Unusable(s, h) == h \in faulted \/ <<s, h>> \notin DOMAIN graph

\* Fault: the tables come first, penalties or not.
SelectTableFirst(s, t) ==
  IF s = t \/ s \in faulted THEN {None}
  ELSE {h \in nextHop[s][t] : ~ Unusable(s, h)} \cup
       (IF nextHop[s][t] = {} \/ \E h \in nextHop[s][t] : Unusable(s, h)
        THEN SearchResults(s, t) ELSE {})

\* The answers the router may give at s for destination t.
Select(s, t) ==
  IF s = t THEN {None}
  ELSE IF DOMAIN penalty # {} THEN SearchResults(s, t)
  ELSE IF s \in faulted THEN {None}
  ELSE {h \in nextHop[s][t] : ~ Unusable(s, h)} \cup
       (IF nextHop[s][t] = {} \/ \E h \in nextHop[s][t] : Unusable(s, h)
        THEN SearchResults(s, t) ELSE {})
-----------------------------------------------------------------------------
Init ==
  /\ graph \in Graphs
  /\ nextHop = Tables[graph]
  /\ penalty = <<>>
  /\ faulted = {}
  /\ outcome = "unsent"
  /\ at = None /\ to = None /\ dst = None
  /\ hops = 0
  /\ trail = <<>>

\* The router asked at n for t has the answers to choose from: the engine takes
\* the hop, or drops the packet.
Route(answers, n, t) ==
  /\ at' = n
  /\ dst' = t
  /\ \E h \in answers :
       /\ to' = h
       /\ outcome' = IF h \in {None, n} \/ <<n, h>> \notin DOMAIN graph THEN "no_route"
                     ELSE IF h \in Pods \ {t} THEN "pod_not_transit"
                     ELSE "flying"

End(result) ==
  /\ outcome' = result
  /\ UNCHANGED <<at, to, dst>>

\* A packet starts at s, after the last one has ended.
SendOn(answers, s, t) ==
  /\ outcome # "flying"
  /\ hops' = 0
  /\ \/ /\ s \in faulted
        /\ outcome' = "source_unavailable"
        /\ at' = s /\ to' = None /\ dst' = t
        /\ trail' = <<>>
     \/ /\ s \notin faulted
        /\ Route(answers, s, t)
        /\ trail' = <<s>>
  /\ UNCHANGED worldVars

\* Fault: the router is asked once more than the cap allows.
ArriveOnePastCap(answers) ==
  /\ outcome = "flying"
  /\ to # dst
  /\ to \notin faulted
  /\ hops' = hops + 1
  /\ IF hops < MaxHops
     THEN Route(answers, to, dst) /\ trail' = Append(trail, to)
     ELSE End("max_hops") /\ UNCHANGED trail
  /\ UNCHANGED worldVars

ArriveOn(answers) ==
  /\ outcome = "flying"
  /\ \/ /\ to = dst
        /\ End(IF to \in faulted THEN "destination_unavailable" ELSE "delivered")
        /\ UNCHANGED <<hops, trail>>
     \/ /\ to # dst
        /\ to \in faulted
        /\ End("node_unavailable")
        /\ UNCHANGED <<hops, trail>>
     \/ /\ to # dst
        /\ to \notin faulted
        /\ hops' = hops + 1
        /\ IF hops + 1 < MaxHops
           THEN Route(answers, to, dst) /\ trail' = Append(trail, to)
           ELSE End("max_hops") /\ UNCHANGED trail
  /\ UNCHANGED worldVars

Send(s, t) == SendOn(Select(s, t), s, t)

Arrive == ArriveOn(Select(to, dst))

\* The graph is replaced and the tables with it.
TopologyUpdate ==
  /\ graph' \in Graphs
  /\ nextHop' = Tables[graph']
  /\ trail' = <<>>
  /\ UNCHANGED <<penalty, faulted, outcome, at, to, dst, hops>>

PhysicsTick ==
  /\ faulted' \in FaultSets
  /\ penalty' \in Penalties
  /\ trail' = <<>>
  /\ UNCHANGED <<graph, nextHop, outcome, at, to, dst, hops>>

Next ==
  \/ \E s \in Sources, t \in Destinations : Send(s, t)
  \/ Arrive
  \/ TopologyUpdate
  \/ PhysicsTick

Spec == Init /\ [][Next]_vars
-----------------------------------------------------------------------------
(* Properties. *)

\* Every variable keeps its type.
TypeOK ==
  /\ graph \in Graphs
  /\ \A s \in Nodes : \A t \in Nodes \ {s} : nextHop[s][t] \subseteq Nodes
  /\ penalty \in Penalties \cup {<<>>}
  /\ faulted \in SUBSET Nodes
  /\ outcome \in Outcomes
  /\ {at, to, dst} \subseteq Nodes \cup {None}
  /\ hops \in 0 .. MaxHops
  /\ trail \in Seq(Nodes)

\* The weight of the lightest simple path to t over the operational nodes that
\* are not pods, found by walking every such path.
Shortest(w, t) ==
  LET by[V \in SUBSET Nodes] ==
        [n \in Nodes |->
           IF n = t THEN 0
           ELSE Min({Infinity} \cup
                    {w[<<n, m>>] + by[V \ {m}][m] :
                       m \in {k \in V : /\ <<n, k>> \in DOMAIN w
                                        /\ k = t \/ k \notin Pods}})]
  IN  [n \in Nodes |-> by[Operational \ {n}][n]]

\* The steps in which the router was asked.
Decides == trail' # <<>> /\ outcome' \in {"flying", "no_route", "pod_not_transit"}

\* A route the router names starts with an edge of the present graph to a node
\* that is not faulted, however old the table is.
HopIsSound ==
  [][Decides /\ to' # None => <<at', to'>> \in DOMAIN graph' /\ to' \notin faulted']_vars

\* The router gives a packet up only if no operational path of non-pods leads
\* to its destination: an unusable table entry is not the end.
NoRouteMeansCutOff ==
  [][Decides /\ to' = None /\ at' # dst' => Shortest(graph', dst')[at'] >= Infinity]_vars

\* The hop starts a shortest path in which pods are only endpoints.
HopIsShortest ==
  LET left == Shortest(graph, dst')
  IN  left[at'] < Infinity => left[at'] = graph[<<at', to'>>] + left[to']

\* While the world stands still no node is visited twice, as long as all the
\* decisions are taken by the tables or all by the search.
RoutesDoNotMix ==
  faulted = {} \/ DOMAIN penalty # {} => IsInjective(trail)

\* "Shortest-path routes are simple paths": while the world stands still, no
\* node is visited twice, faults or none.
RoutesAreSimple == IsInjective(trail)

\* "Shortest-path routing never transits a pod": the router names a pod only
\* as the destination.
NeverTransitsPod == outcome # "pod_not_transit"
=============================================================================
