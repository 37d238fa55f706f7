------------------------- MODULE BackPressureRouting -------------------------
(***************************************************************************)
(* BackPressureRouter and the engine that follows it: the cached view of   *)
(* the operational graph, the filters that keep a greedy decision from     *)
(* dead ends and loops, and one packet at a time whose path_history the    *)
(* engine keeps while graph, loads and faults change.  The router is       *)
(* configured as by default, with avoid_faulty_nodes.                      *)
(***************************************************************************)
EXTENDS Naturals, Sequences, FiniteSetsExt, Functions

CONSTANTS
  Nodes,
  Pods,
  Sources, Destinations,  \* of the packets the workloads publish
  Graphs,       \* the edge sets _build_graph may produce
  Loads,        \* the total_weight of each link: functions from Nodes \X Nodes
  FaultSets,
  MaxHops,
  None

ASSUME RoutingAssumption ==
  /\ IsFiniteSet(Nodes)
  /\ Pods \subseteq Nodes
  /\ Sources \cup Destinations \subseteq Nodes
  /\ None \notin Nodes
  /\ MaxHops \in Nat \ {0}
  /\ FaultSets \subseteq SUBSET Nodes
  /\ Graphs \subseteq SUBSET (Nodes \X Nodes)
  /\ \A g \in Graphs : \A e \in g : <<e[2], e[1]>> \in g
  /\ Loads \subseteq [Nodes \X Nodes -> Nat]

VARIABLES
  graph,        \* context.graph
  faulted,      \* the nodes whose fault flag is set
  load,         \* queue pressure, backlog, delay and penalty of each link
  view,         \* _view_cache: its key and the operational edges, or None
  outcome,      \* what the packet is doing, or has come to
  at, to, dst,
  path,         \* packet.path_history
  changedAt     \* the length path had when the world last changed

worldVars == <<graph, faulted, load>>
packetVars == <<outcome, at, to, dst, path, changedAt>>
vars == <<worldVars, view, packetVars>>

Drops == {"source_unavailable", "node_unavailable", "destination_unavailable",
          "no_route", "pod_not_transit", "max_hops"}
Outcomes == {"unsent", "flying", "delivered"} \cup Drops
-----------------------------------------------------------------------------
(* _operational_view and _build_tables *)

Operational(g, F) == {e \in g : {e[1], e[2]} \cap F = {}}

Successors(E, n) == {m \in Nodes : <<n, m>> \in E}

\* The number of hops from n to t in E, by a search in breadth; Far if there is
\* no path.
Far == Cardinality(Nodes)

Distance(E, n, t) ==
  LET within[k \in Nat] ==
        IF k = 0 THEN {n}
        ELSE within[k - 1] \cup UNION {Successors(E, m) : m \in within[k - 1]}
  IN  Min({Far} \cup {k \in 0 .. Far - 1 : t \in within[k]})

\* The tables of every view the router may come to build.
Views == {Operational(g, F) : g \in Graphs, F \in FaultSets \cup {{}}}

Tables == [E \in Views |-> [n \in Nodes |-> [t \in Nodes |-> Distance(E, n, t)]]]

HopDistance(E, n, t) == Tables[E][n][t]

Reaches(E, n, t) == HopDistance(E, n, t) < Far

\* Fault: a change of the faults does not miss the cache.
KeyIgnoringFaults(g, F) == <<g, {}>>

\* The identity of a graph stands for its edges, which no step changes.
Key(g, F) == <<g, F>>

DecisionEdges ==
  IF view # None /\ view.key = Key(graph, faulted)
  THEN view.edges
  ELSE Operational(graph, faulted)
-----------------------------------------------------------------------------
(* select_next_hop *)

\* The members of C in P, if it has any.
Prefer(C, P) == IF C \cap P = {} THEN C ELSE C \cap P

\* Fault: the packet's history is not consulted.
CandidatesWithoutHistory(n, t, history) ==
  LET E == DecisionEdges
      successors == Successors(E, n)
  IN  IF t \in successors THEN {t}
      ELSE Prefer(Prefer(successors, {m \in Nodes : Reaches(E, m, t)}), Nodes \ Pods)

\* The destination if it is next; else those of the successors that reach it,
\* are no pods, are not where the packet came from and are new to it, each
\* wish being dropped if nobody is left.
Candidates(n, t, history) ==
  LET E == DecisionEdges
      successors == Successors(E, n)
      previous == IF Len(history) < 2 THEN {} ELSE {history[Len(history) - 1]}
  IN  IF t \in successors THEN {t}
      ELSE Prefer(Prefer(Prefer(Prefer(successors,
             {m \in Nodes : Reaches(E, m, t)}), Nodes \ Pods),
             Nodes \ previous), Nodes \ Range(history))

\* Lower weight first, then fewer hops to go.
RanksBefore(n, t, u, v) ==
  \/ load[n, u] < load[n, v]
  \/ /\ load[n, u] = load[n, v]
     /\ HopDistance(DecisionEdges, u, t) < HopDistance(DecisionEdges, v, t)

\* The answers the router may give: ties are broken by the order of the edges.
Select(n, t, history) ==
  LET C == Candidates(n, t, history)
  IN  IF n = t \/ C = {} THEN {None}
      ELSE {v \in C : \A u \in C : ~ RanksBefore(n, t, u, v)}
-----------------------------------------------------------------------------
Init ==
  /\ graph \in Graphs
  /\ faulted = {}
  /\ load \in Loads
  /\ view = None
  /\ outcome = "unsent"
  /\ at = None /\ to = None /\ dst = None
  /\ path = <<>>
  /\ changedAt = 0

\* The engine asks the router at n and takes the hop, or drops the packet.
Route(n, t, history) ==
  /\ at' = n
  /\ dst' = t
  /\ path' = history
  /\ view' = [key |-> Key(graph, faulted), edges |-> DecisionEdges]
  /\ \E h \in Select(n, t, history) :
       /\ to' = h
       /\ outcome' = IF h = None \/ <<n, h>> \notin graph THEN "no_route"
                     ELSE IF h \in Pods \ {t} THEN "pod_not_transit"
                     ELSE "flying"

\* A packet starts at s, after the last one has ended.
Send(s, t) ==
  /\ outcome # "flying"
  /\ s # t
  /\ changedAt' = 0
  /\ \/ /\ s \in faulted
        /\ outcome' = "source_unavailable"
        /\ at' = s /\ to' = None /\ dst' = t
        /\ path' = <<>>
        /\ UNCHANGED view
     \/ /\ s \notin faulted
        /\ Route(s, t, <<s>>)
  /\ UNCHANGED worldVars

End(result) ==
  /\ outcome' = result
  /\ UNCHANGED <<at, to, dst, view>>

\* Fault: the router is asked once more than the cap allows.
ArriveOnePastCap ==
  /\ outcome = "flying"
  /\ to # dst
  /\ to \notin faulted
  /\ IF Len(path) <= MaxHops
     THEN Route(to, dst, Append(path, to))
     ELSE End("max_hops") /\ path' = Append(path, to)
  /\ UNCHANGED <<worldVars, changedAt>>

\* The packet arrives; Len(path) is its number of hops once it is accepted.
Arrive ==
  /\ outcome = "flying"
  /\ \/ /\ to = dst
        /\ End(IF to \in faulted THEN "destination_unavailable" ELSE "delivered")
        /\ UNCHANGED path
     \/ /\ to # dst
        /\ to \in faulted
        /\ End("node_unavailable")
        /\ UNCHANGED path
     \/ /\ to # dst
        /\ to \notin faulted
        /\ IF Len(path) < MaxHops
           THEN Route(to, dst, Append(path, to))
           ELSE End("max_hops") /\ path' = Append(path, to)
  /\ UNCHANGED <<worldVars, changedAt>>

\* The graph is replaced, and the router forgets its view.
TopologyUpdate ==
  /\ graph' \in Graphs
  /\ view' = None
  /\ changedAt' = Len(path)
  /\ UNCHANGED <<faulted, load, outcome, at, to, dst, path>>

\* A physics tick, or other packets that fill and empty the queues.
WorldChange ==
  /\ \/ faulted' \in FaultSets /\ UNCHANGED load
     \/ load' \in Loads /\ UNCHANGED faulted
  /\ changedAt' = Len(path)
  /\ UNCHANGED <<graph, view, outcome, at, to, dst, path>>

Next ==
  \/ \E s \in Sources, t \in Destinations : Send(s, t)
  \/ Arrive
  \/ TopologyUpdate
  \/ WorldChange

Spec == Init /\ [][Next]_vars
-----------------------------------------------------------------------------
(* Properties. *)

\* Every variable keeps its type.
TypeOK ==
  /\ graph \in Graphs
  /\ faulted \in SUBSET Nodes
  /\ load \in Loads
  /\ view = None \/ (view.key[1] \in Graphs /\ view.edges \subseteq Nodes \X Nodes)
  /\ outcome \in Outcomes
  /\ {at, to, dst} \subseteq Nodes \cup {None}
  /\ path \in Seq(Nodes) /\ Len(path) <= MaxHops + 1
  /\ changedAt \in 0 .. Len(path)

\* The steps in which the router was asked.
Decides ==
  /\ path' # path \/ outcome' # outcome
  /\ outcome' \in {"flying", "no_route", "pod_not_transit"}

\* A hop the router names is an edge of the present graph to a node that is
\* not faulted, however old the cached view is.
HopIsSound ==
  [][Decides /\ to' # None => <<at', to'>> \in graph' /\ to' \notin faulted']_vars

\* The router gives up only at a node without any operational neighbour.  A
\* packet is sent back where it came from, to a node it has seen, or into a pod
\* that is not its destination only if there is nothing else: the neighbours
\* that would be better are pods, or there are pods only.
LastResorts ==
  [][Decides =>
       LET neighbours == Successors(Operational(graph, faulted), at')
           previous == IF Len(path') < 2 THEN {} ELSE {path'[Len(path') - 1]}
       IN  /\ to' = None => neighbours = {}
           /\ to' \in previous => neighbours \ previous \subseteq Pods
           /\ to' \in Range(path') => neighbours \ Range(path') \subseteq Pods
           /\ to' \in Pods \ {dst'} => neighbours \subseteq Pods]_vars

\* The packet has come twice along the same link, since the world changed and
\* without having seen a new node in between: the next decision is the same
\* again, and so on until the hop limit.
Locked ==
  \E i, j \in (changedAt + 1) .. Len(path) :
    /\ 1 < i /\ i < j
    /\ path[i - 1] = path[j - 1]
    /\ path[i] = path[j]
    /\ \A k \in i .. j : \E l \in 1 .. i : path[k] = path[l]

\* The nodes of S form one ring.  Around it there are stations, each linked to
\* at most one of them, and pods, linked to any of them; there are no other links.
IsRingOf(E, S) ==
  /\ \A n \in S : \E l, r \in S \ {n} : l # r /\ Successors(E, n) \cap S = {l, r}
  /\ \A C \in SUBSET S :
       C # {} /\ (\A n \in C : Successors(E, n) \cap S \subseteq C) => C = S
  /\ \A n \in Nodes \ S : Successors(E, n) \subseteq S
  /\ \A n \in Nodes \ (S \cup Pods) : \A l, r \in Successors(E, n) : l = r

\* The views that show such a ring, be it of few satellites of many.
IntactRings == {E \in Views : \E S \in SUBSET (Nodes \ Pods) : IsRingOf(E, S)}

\* If the operational satellites form a ring, under which the destination is,
\* and the world does not change on the way, no packet locks into a loop; and
\* with two hops for every node but one, each whose source is linked arrives.
IntactRingsDeliver ==
  LET E == Operational(graph, faulted)
  IN  changedAt = 0 /\ path # <<>> /\ E \in IntactRings /\ Successors(E, dst) # {}
      => /\ ~ Locked
         /\ Successors(E, path[1]) # {} /\ MaxHops >= 2 * (Far - 1)
            => outcome \in {"flying", "delivered"}

\* "It cannot lock into closed rings", as long as there is a way to the
\* destination.
CannotLock ==
  Locked /\ outcome = "flying" => Distance(Operational(graph, faulted \cup (Pods \ {dst})), at, dst) = Far
=============================================================================
