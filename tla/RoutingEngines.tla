---------------------------- MODULE RoutingEngines ----------------------------
(***************************************************************************)
(* The other routing strategies behind the same forwarding loop: the       *)
(* greedy one, which looks at its neighbours only, and those that search   *)
(* the operational graph afresh at each hop, by a cost that also counts    *)
(* the state of the nodes to be crossed.  A simulation has one strategy.   *)
(***************************************************************************)
EXTENDS ShortestPathRouting

CONSTANTS
  Strategies,   \* those a simulation may be built with
  Distance,     \* between any two nodes, for each graph
  Conditions    \* the states the nodes may be in, a function from nodes

AllStrategies == {"shortest_path", "geographic_greedy", "thermal_energy_aware",
                  "physics_compute_synergy", "energy_aware"}

\* heat: kelvins above nominal, by 40; deficit: nominal power / power - 1;
\* queue: utilisation; dose: krad; degradation: nominal / available FLOPS.
Condition == [heat : Nat, deficit : Nat, queue : Nat, dose : Nat, degradation : Nat, jobs : Nat]

ASSUME EnginesAssumption ==
  /\ Strategies \subseteq AllStrategies
  /\ Conditions \subseteq [Nodes -> Condition]
  /\ \A w \in Graphs : \A n, t \in Nodes : Distance[w][<<n, t>>] \in Nat

VARIABLES
  strategy,     \* context.routing_engine
  condition     \* physics_state and queues of the nodes

engineVars == <<strategy, condition>>
allVars == <<vars, engineVars>>
-----------------------------------------------------------------------------
(* GeographicGreedyRouter *)

Candidates(s) == {n \in Operational : <<s, n>> \in DOMAIN graph}

Nearest(N, t) ==
  {n \in N : \A k \in N : Distance[graph][<<n, t>>] <= Distance[graph][<<k, t>>]}

Closer(s, t) ==
  {n \in Candidates(s) : Distance[graph][<<n, t>>] < Distance[graph][<<s, t>>]}

\* _min_delay_neighbor
LeastDelay(s) ==
  {n \in Candidates(s) : \A k \in Candidates(s) : Penalised[<<s, n>>] <= Penalised[<<s, k>>]}

\* Fault: the least delay decides, also where a neighbour is closer.
GreedyByDelay(s, t) == IF t \in Candidates(s) THEN {t} ELSE LeastDelay(s)

Greedy(s, t) ==
  IF t \in Candidates(s) THEN {t}
  ELSE IF Closer(s, t) # {} THEN Nearest(Closer(s, t), t)
  ELSE LeastDelay(s)
-----------------------------------------------------------------------------
(* The costs of the strategies that search: delay, penalty, and a toll of  *)
(* the node a link leads to, in milliseconds.                              *)

ThermalEnergyToll(c) == 15 * c.heat * c.heat + 25 * c.deficit + 10 * c.queue

PowerToll(c) == IF c.deficit > 9 THEN 500 ELSE 0

SynergyToll(c, isPod) ==
  40 * c.queue + (15 * c.heat * c.heat) \div 2 + 15 * c.dose
  + IF isPod THEN 35 * c.degradation + (7 * c.jobs) \div 2 ELSE 0

\* math.inf: each hop may bear the heaviest penalty and toll, and still no path
\* weighs as much.
ASSUME InfinityAssumption ==
  \E most \in 0 .. Infinity :
    /\ Cardinality(Nodes) * most < Infinity
    /\ \A w \in Graphs, p \in Penalties \cup {<<>>}, c \in Conditions : \A e \in DOMAIN w :
         LET tolls == {0, ThermalEnergyToll(c[e[2]]), PowerToll(c[e[2]]),
                       SynergyToll(c[e[2]], e[2] \in Pods)}
             weight == w[e] + (IF e \in DOMAIN p THEN p[e] ELSE 0)
         IN  \A toll \in tolls : weight + toll <= most

Toll(n) == CASE strategy = "thermal_energy_aware" -> ThermalEnergyToll(condition[n])
             [] strategy = "physics_compute_synergy" -> SynergyToll(condition[n], n \in Pods)
             [] OTHER -> PowerToll(condition[n])

\* Fault: the state of a node is known to its neighbours only.
CostSeenFrom(s) == [e \in DOMAIN graph |-> Penalised[e] + IF e[1] = s THEN Toll(e[2]) ELSE 0]

\* weight_fn, synergy_weight_fn, get_edge_weight.
Cost(s) == [e \in DOMAIN graph |-> Penalised[e] + Toll(e[2])]

\* nx.shortest_path on the operational nodes, pods and all.
Cheapest(s, t) ==
  LET found == IF {s, t} \subseteq Operational
               THEN FirstHops(Cost(s), Operational, s, t) ELSE {}
  IN  IF found = {} THEN {None} ELSE found

SearchStrategies == {"thermal_energy_aware", "physics_compute_synergy", "energy_aware"}

\* The first two take a link to the destination whatever it costs.
TakesDirectLink == strategy \in {"thermal_energy_aware", "physics_compute_synergy"}

\* select_next_hop of the strategy in use.
Answers(s, t) ==
  CASE strategy = "shortest_path" -> Select(s, t)
    [] strategy = "geographic_greedy" ->
         IF Candidates(s) = {} THEN {None} ELSE Greedy(s, t)
    [] OTHER -> IF TakesDirectLink /\ t \in Candidates(s) THEN {t} ELSE Cheapest(s, t)
-----------------------------------------------------------------------------
InitEngines ==
  /\ Init
  /\ strategy \in Strategies
  /\ condition \in Conditions

SendPacket(s, t) ==
  /\ SendOn(Answers(s, t), s, t)
  /\ UNCHANGED engineVars

ForwardPacket ==
  /\ ArriveOn(Answers(to, dst))
  /\ UNCHANGED engineVars

\* Only the shortest path reads the tables that update_topology makes.
ReplaceTopology ==
  /\ TopologyUpdate
  /\ UNCHANGED engineVars

TickPhysics ==
  /\ PhysicsTick
  /\ condition' \in Conditions
  /\ UNCHANGED strategy

\* Other packets fill and empty the queues.
Traffic ==
  /\ condition' \in {c \in Conditions :
       \A n \in Nodes : [c[n] EXCEPT !.queue = 0, !.jobs = 0]
                        = [condition[n] EXCEPT !.queue = 0, !.jobs = 0]}
  /\ condition' # condition
  /\ trail' = <<>>
  /\ UNCHANGED <<worldVars, outcome, at, to, dst, hops, strategy>>

NextEngines ==
  \/ \E s \in Sources, t \in Destinations : SendPacket(s, t)
  \/ ForwardPacket
  \/ ReplaceTopology
  \/ TickPhysics
  \/ Traffic

SpecEngines == InitEngines /\ [][NextEngines]_allVars
-----------------------------------------------------------------------------
(* Properties. *)

\* Every variable keeps its type, and the strategy is the one set up.
EnginesTypeOK ==
  /\ TypeOK
  /\ strategy \in Strategies
  /\ condition \in Conditions

\* A local minimum: no operational neighbour of s is closer to t than s is.
IsMinimum(s, t) ==
  \A n \in Operational :
    <<s, n>> \in DOMAIN graph => Distance[graph][<<n, t>>] >= Distance[graph][<<s, t>>]

\* A packet the greedy router takes back to a node while the world stands still
\* has met a local minimum: greed alone never loops, the fallback does.
GreedyLoopsOnlyAtMinima ==
  strategy = "geographic_greedy" /\ ~ IsInjective(trail)
    => \E i \in 1 .. Len(trail) - 1 : IsMinimum(trail[i], dst)

\* A route searched afresh at each hop comes back to no node while graph,
\* penalties, faults and the states of the nodes stand still: the costs each
\* node works with are the same, and the direct link only shortens the way.
SearchedRoutesAreSimple == strategy \in SearchStrategies => IsInjective(trail)

\* While the world stands still no node is visited twice by the shortest path,
\* as long as all the decisions are taken by the tables or all by the search.
TableRoutesDoNotMix == strategy = "shortest_path" => RoutesDoNotMix

\* Without faults and penalties each hop of the shortest-path strategy starts a
\* shortest path in which pods are only endpoints, if there is any such path.
TableRoutesAreShortest ==
  [][strategy = "shortest_path" /\ Decides /\ to' # None /\ faulted = {} /\ DOMAIN penalty = {}
       => HopIsShortest]_vars
=============================================================================
