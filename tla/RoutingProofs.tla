----------------------------- MODULE RoutingProofs -----------------------------
(***************************************************************************)
(* Whatever strategy a simulation has, whatever the graph, the tables, the *)
(* penalties, the faults and the states of the nodes, what the router      *)
(* names can be used when it is named, and it names nothing only where no  *)
(* way is left.  Where the search is what the engine follows, or the       *)
(* tables are, the way comes back to no node, for the lengths of the       *)
(* shortest paths decrease; and what the tables name in a calm world is    *)
(* the first hop of a path as short as any that can be walked.             *)
(***************************************************************************)
EXTENDS RoutingEngines, Recursion, FiniteSetTheorems, TLAPS

\* A first hop is the other end of an edge inside of the subgraph.
LEMMA FirstHopIsEdge ==
  ASSUME NEW w, NEW N, NEW s, NEW t
  PROVE  FirstHops(w, N, s, t) \subseteq {m \in N : <<s, m>> \in DOMAIN w}
<1> DEFINE length == Lengths(w, N, s)[t]
<1>1. FirstHops(w, N, s, t) =
        IF s = t \/ length >= Infinity THEN {}
        ELSE {m \in N : /\ <<s, m>> \in DOMAIN w
                        /\ w[<<s, m>>] + Lengths(w, N, m)[t] = length}
  BY DEF FirstHops
<1> HIDE DEF length
<1>2. QED
  BY <1>1, Zenon

\* So is a hop to a pod: into the pod, or towards a node it is attached to.
LEMMA HopToPodIsEdge ==
  ASSUME NEW w, NEW v, DOMAIN v = DOMAIN w, NEW N, NEW s \in N, NEW pod \in N
  PROVE  HopsToPod(w, v, N, s, pod) \subseteq {m \in N : <<s, m>> \in DOMAIN w}
<1> DEFINE T == Transit(N, s)
           lengths == Lengths(w, T, s)
           Total(a) == (IF a \in T THEN lengths[a] ELSE Infinity) + v[<<a, pod>>]
           attached == Into(v, N, pod)
           best == {a \in attached : \A b \in attached : Total(a) <= Total(b)}
           Near == {b \in best \cap T : lengths[b] < Infinity}
<1>1. HopsToPod(w, v, N, s, pod) =
        UNION {IF a = s THEN {pod} ELSE FirstHops(w, T, s, a) : a \in Near}
  BY DEF HopsToPod
<1>2. T \subseteq N
  BY DEF Transit
<1>3. ASSUME NEW a \in Near
      PROVE  <<a, pod>> \in DOMAIN w
  <2>1. a \in attached
    OBVIOUS
  <2>2. QED
    BY <2>1 DEF Into
<1>4. ASSUME NEW a \in Near
      PROVE  (IF a = s THEN {pod} ELSE FirstHops(w, T, s, a))
               \subseteq {m \in N : <<s, m>> \in DOMAIN w}
  <2>1. CASE a = s
    BY <1>3, <2>1
  <2>2. CASE a # s
    <3>1. FirstHops(w, T, s, a) \subseteq {m \in T : <<s, m>> \in DOMAIN w}
      BY FirstHopIsEdge
    <3>2. QED
      BY <1>2, <2>2, <3>1
  <2>3. QED
    BY <2>1, <2>2
<1> HIDE DEF Near, T
<1>5. QED
  BY <1>1, <1>4

\* The search stays in the operational part of the graph.
LEMMA SearchIsSound ==
  ASSUME NEW s \in Nodes, NEW t \in Nodes
  PROVE  Searched(s, t) \subseteq
           {m \in Nodes : <<s, m>> \in DOMAIN graph /\ m \notin faulted}
<1>1. DOMAIN Penalised = DOMAIN graph
  BY DEF Penalised
<1>2. CASE {s, t} \cap faulted # {}
  BY <1>2 DEF Searched
<1>3. CASE {s, t} \cap faulted = {}
  <2>1. s \in Operational /\ t \in Operational
    BY <1>3 DEF Operational
  <2>2. CASE t \in Pods
    <3>1. Searched(s, t) = HopsToPod(Penalised, graph, Operational, s, t)
      BY <1>3, <2>2 DEF Searched
    <3>2. QED
      BY <1>1, <2>1, <3>1, HopToPodIsEdge DEF Operational
  <2>3. CASE t \notin Pods
    <3>1. Searched(s, t) = FirstHops(Penalised, Operational, s, t)
      BY <1>3, <2>3 DEF Searched
    <3>2. QED
      BY <1>1, <3>1, FirstHopIsEdge DEF Operational
  <2>4. QED
    BY <2>2, <2>3
<1>4. QED
  BY <1>2, <1>3

\* And a table entry is used only if it can be.
LEMMA SelectIsSound ==
  ASSUME NEW s \in Nodes, NEW t \in Nodes, NEW h \in Select(s, t), h # None
  PROVE  <<s, h>> \in DOMAIN graph /\ h \notin faulted
<1>1. h \in Searched(s, t) => <<s, h>> \in DOMAIN graph /\ h \notin faulted
  BY SearchIsSound
<1>2. h \in SearchResults(s, t) => h \in Searched(s, t)
  BY DEF SearchResults
<1>3. \/ h \in SearchResults(s, t)
      \/ ~ Unusable(s, h)
  BY DEF Select
<1>4. QED
  BY <1>1, <1>2, <1>3 DEF Unusable

\* What a packet under way is on: a link between two nodes.
UnderWay ==
  /\ graph \in Graphs
  /\ outcome = "flying" => to \in Nodes /\ dst \in Nodes

\* What the engine takes from sound answers is sound.
LEMMA RouteIsSound ==
  ASSUME UnderWay, NEW answers, NEW s \in Nodes, NEW t \in Nodes,
         \A h \in answers : h # None => <<s, h>> \in DOMAIN graph /\ h \notin faulted,
         Route(answers, s, t), UNCHANGED worldVars
  PROVE  /\ at' = s
         /\ to' # None => <<s, to'>> \in DOMAIN graph' /\ to' \notin faulted'
         /\ UnderWay'
<1>1. /\ at' = s /\ dst' = t /\ to' \in answers /\ graph' = graph /\ faulted' = faulted
      /\ outcome' = "flying" => to' # None
  BY DEF Route, worldVars
<1>2. to' # None => <<s, to'>> \in DOMAIN graph /\ to' \notin faulted
  BY <1>1
<1>3. DOMAIN graph \subseteq Nodes \X Nodes
  BY RoutingAssumption DEF UnderWay
<1>4. QED
  BY <1>1, <1>2, <1>3 DEF UnderWay

Sound ==
  Decides /\ to' # None => <<at', to'>> \in DOMAIN graph' /\ to' \notin faulted'

LEMMA SendIsSound ==
  ASSUME UnderWay, NEW answers, NEW s \in Nodes, NEW t \in Nodes,
         \A h \in answers : h # None => <<s, h>> \in DOMAIN graph /\ h \notin faulted,
         SendOn(answers, s, t)
  PROVE  Sound /\ UnderWay'
<1>1. UNCHANGED worldVars
  BY DEF SendOn
<1>2. CASE Route(answers, s, t)
  BY <1>1, <1>2, RouteIsSound DEF Sound
<1>3. CASE outcome' = "source_unavailable"
  BY <1>1, <1>3 DEF Sound, Decides, UnderWay, worldVars
<1>4. QED
  BY <1>2, <1>3 DEF SendOn

LEMMA ArriveIsSound ==
  ASSUME UnderWay, NEW answers,
         outcome = "flying" =>
           \A h \in answers : h # None => <<to, h>> \in DOMAIN graph /\ h \notin faulted,
         ArriveOn(answers)
  PROVE  Sound /\ UnderWay'
<1>1. UNCHANGED worldVars /\ to \in Nodes /\ dst \in Nodes /\ outcome = "flying"
  BY DEF ArriveOn, UnderWay
<1>2. CASE Route(answers, to, dst)
  BY <1>1, <1>2, RouteIsSound DEF Sound
<1>3. ASSUME NEW result, End(result),
             result \in {"delivered", "destination_unavailable", "node_unavailable", "max_hops"}
      PROVE  Sound /\ UnderWay'
  BY <1>1, <1>3 DEF End, Sound, Decides, UnderWay, worldVars
<1>4. QED
  BY <1>2, <1>3 DEF ArriveOn

\* When the world changes nothing is decided.
LEMMA WorldIsSound == UnderWay /\ (TopologyUpdate \/ PhysicsTick) => Sound /\ UnderWay'
BY DEF TopologyUpdate, PhysicsTick, Sound, Decides, UnderWay

LEMMA StepIsSound == UnderWay /\ Next => Sound /\ UnderWay'
<1> SUFFICES ASSUME UnderWay, Next PROVE Sound /\ UnderWay'
  OBVIOUS
<1>1. ASSUME NEW s \in Sources, NEW t \in Destinations, Send(s, t)
      PROVE  Sound /\ UnderWay'
  <2>1. s \in Nodes /\ t \in Nodes
    BY RoutingAssumption
  <2>2. SendOn(Select(s, t), s, t)
    BY <1>1 DEF Send
  <2>3. QED
    BY <2>1, <2>2, SelectIsSound, SendIsSound
<1>2. CASE Arrive
  <2>1. ArriveOn(Select(to, dst))
    BY <1>2 DEF Arrive
  <2>2. outcome = "flying" => to \in Nodes /\ dst \in Nodes
    BY DEF UnderWay
  <2>3. QED
    BY <2>1, <2>2, SelectIsSound, ArriveIsSound
<1>3. CASE TopologyUpdate \/ PhysicsTick
  BY <1>3, WorldIsSound
<1>4. QED
  BY <1>1, <1>2, <1>3 DEF Next

\* The router never sends a packet into a faulted node or along an edge that is
\* gone, whatever the age of its tables.
THEOREM HopsAreSound == Spec => HopIsSound
<1>1. Init => UnderWay
  BY DEF Init, UnderWay
<1>2. UnderWay /\ [Next]_vars => UnderWay' /\ [Sound]_vars
  <2>1. UnderWay /\ UNCHANGED vars => UnderWay'
    BY DEF UnderWay, vars, worldVars, packetVars
  <2>2. QED
    BY <2>1, StepIsSound
<1>3. HopIsSound <=> [][Sound]_vars
  BY DEF HopIsSound, Sound
<1>4. QED
  BY <1>1, <1>2, <1>3, PTL DEF Spec
-----------------------------------------------------------------------------
(* The other strategies. *)

\* What may be answered at s: nothing, or a usable neighbour.
Usable(s) == {None} \cup {h \in Nodes : <<s, h>> \in DOMAIN graph /\ h \notin faulted}

LEMMA CheapestIsUsable ==
  ASSUME NEW s, NEW t
  PROVE  Cheapest(s, t) \subseteq Usable(s)
<1> DEFINE found == IF {s, t} \subseteq Operational
                    THEN FirstHops(Cost(s), Operational, s, t) ELSE {}
<1>1. Cheapest(s, t) = IF found = {} THEN {None} ELSE found
  BY DEF Cheapest
<1>2. DOMAIN Cost(s) = DOMAIN graph
  BY DEF Cost
<1>3. FirstHops(Cost(s), Operational, s, t) \subseteq {m \in Operational : <<s, m>> \in DOMAIN Cost(s)}
  BY FirstHopIsEdge
<1>4. found \subseteq {m \in Operational : <<s, m>> \in DOMAIN graph}
  BY <1>2, <1>3
<1> HIDE DEF found
<1>5. QED
  BY <1>1, <1>4 DEF Usable, Operational

LEMMA GreedyIsUsable ==
  ASSUME NEW s, NEW t
  PROVE  Greedy(s, t) \subseteq Usable(s)
<1>1. Candidates(s) \subseteq Usable(s)
  BY DEF Candidates, Usable, Operational
<1>2. Nearest(Closer(s, t), t) \subseteq Candidates(s)
  BY DEF Nearest, Closer
<1>3. LeastDelay(s) \subseteq Candidates(s)
  BY DEF LeastDelay
<1>4. QED
  BY <1>1, <1>2, <1>3 DEF Greedy

LEMMA SelectIsUsable ==
  ASSUME NEW s \in Nodes, NEW t \in Nodes, graph \in Graphs
  PROVE  Select(s, t) \subseteq Usable(s)
<1>1. ASSUME NEW h \in Select(s, t), h # None
      PROVE  h \in Usable(s)
  <2>1. <<s, h>> \in DOMAIN graph /\ h \notin faulted
    BY <1>1, SelectIsSound
  <2>2. DOMAIN graph \subseteq Nodes \X Nodes
    BY RoutingAssumption
  <2>3. QED
    BY <2>1, <2>2 DEF Usable
<1>2. None \in Usable(s)
  BY DEF Usable
<1>3. QED
  BY <1>1, <1>2

LEMMA AnswersAreUsable ==
  ASSUME NEW s \in Nodes, NEW t \in Nodes, graph \in Graphs
  PROVE  Answers(s, t) \subseteq Usable(s)
<1>1. \/ Answers(s, t) = Select(s, t)
      \/ Answers(s, t) = {None}
      \/ Answers(s, t) = Greedy(s, t)
      \/ Answers(s, t) = {t} /\ t \in Candidates(s)
      \/ Answers(s, t) = Cheapest(s, t)
  BY DEF Answers
<1>2. Candidates(s) \subseteq Usable(s) /\ None \in Usable(s)
  BY DEF Candidates, Usable, Operational
<1>3. QED
  BY <1>1, <1>2, SelectIsUsable, GreedyIsUsable, CheapestIsUsable
-----------------------------------------------------------------------------
\* Every entry of every table names nodes.
LEMMA TablesNameNodes ==
  ASSUME NEW g \in Graphs, NEW s \in Nodes, NEW t \in Nodes \ {s}
  PROVE  Tables[g][s][t] \subseteq Nodes
<1>1. Tables[g][s][t] = IF t \in Pods THEN HopsToPod(g, g, Nodes, s, t)
                        ELSE FirstHops(g, Transit(Nodes, s), s, t)
  BY DEF Tables
<1>2. Transit(Nodes, s) \subseteq Nodes
  BY DEF Transit
<1>3. HopsToPod(g, g, Nodes, s, t) \subseteq Nodes
  BY HopToPodIsEdge
<1>4. FirstHops(g, Transit(Nodes, s), s, t) \subseteq Transit(Nodes, s)
  BY FirstHopIsEdge
<1>5. QED
  BY <1>1, <1>2, <1>3, <1>4

\* What the world is made of.
WorldOK ==
  /\ graph \in Graphs
  /\ \A s \in Nodes : \A t \in Nodes \ {s} : nextHop[s][t] \subseteq Nodes
  /\ penalty \in Penalties \cup {<<>>}
  /\ faulted \in SUBSET Nodes

\* What a packet is made of: it has not used up its hops while it flies.
PacketOK ==
  /\ outcome \in Outcomes
  /\ {at, to, dst} \subseteq Nodes \cup {None}
  /\ hops \in 0 .. MaxHops
  /\ trail \in Seq(Nodes)
  /\ outcome = "flying" => hops < MaxHops /\ to \in Nodes /\ dst \in Nodes

EnginesInv == WorldOK /\ PacketOK /\ strategy \in Strategies /\ condition \in Conditions

LEMMA InvIsTyped == EnginesInv => EnginesTypeOK
BY DEF EnginesInv, WorldOK, PacketOK, EnginesTypeOK, TypeOK

LEMMA InitIsTyped == InitEngines => EnginesInv
<1> SUFFICES ASSUME InitEngines PROVE EnginesInv
  OBVIOUS
<1>1. WorldOK
  BY TablesNameNodes DEF InitEngines, Init, WorldOK
<1>2. PacketOK
  BY RoutingAssumption DEF InitEngines, Init, PacketOK, Outcomes
<1>3. QED
  BY <1>1, <1>2 DEF InitEngines, EnginesInv

\* Taking one of the answers leaves a packet that is flying to a node, or ended.
LEMMA RouteIsTyped ==
  ASSUME NEW s \in Nodes, NEW t \in Nodes, graph \in Graphs, Route(Answers(s, t), s, t)
  PROVE  /\ outcome' \in {"no_route", "pod_not_transit", "flying"}
         /\ {at', to', dst'} \subseteq Nodes \cup {None}
         /\ outcome' = "flying" => to' \in Nodes /\ dst' \in Nodes
<1>1. to' \in Usable(s) /\ at' = s /\ dst' = t
  BY AnswersAreUsable DEF Route
<1>2. /\ outcome' \in {"no_route", "pod_not_transit", "flying"}
      /\ outcome' = "flying" => to' # None
  BY DEF Route
<1>3. QED
  BY <1>1, <1>2 DEF Usable

LEMMA SendIsTyped ==
  ASSUME EnginesInv, NEW s \in Nodes, NEW t \in Nodes, SendPacket(s, t)
  PROVE  EnginesInv'
<1>1. SendOn(Answers(s, t), s, t) /\ UNCHANGED engineVars /\ UNCHANGED worldVars
  BY DEF SendPacket, SendOn
<1>2. hops' = 0
  BY <1>1 DEF SendOn
<1>3. PacketOK'
  <2>1. CASE Route(Answers(s, t), s, t) /\ trail' = <<s>>
    <3>1. trail' \in Seq(Nodes)
      BY <2>1
    <3>2. QED
      BY <1>2, <2>1, <3>1, RouteIsTyped, RoutingAssumption
      DEF EnginesInv, WorldOK, PacketOK, Outcomes, Drops
  <2>2. CASE /\ outcome' = "source_unavailable" /\ at' = s /\ to' = None /\ dst' = t
             /\ trail' = <<>>
    BY <1>2, <2>2, RoutingAssumption DEF PacketOK, Outcomes, Drops
  <2>3. QED
    BY <1>1, <2>1, <2>2 DEF SendOn
<1>4. QED
  BY <1>1, <1>3 DEF EnginesInv, WorldOK, worldVars, engineVars

LEMMA ForwardIsTyped ==
  ASSUME EnginesInv, ForwardPacket
  PROVE  EnginesInv'
<1>1. ArriveOn(Answers(to, dst)) /\ UNCHANGED engineVars /\ UNCHANGED worldVars
  BY DEF ForwardPacket, ArriveOn
<1>2. to \in Nodes /\ dst \in Nodes /\ hops < MaxHops /\ hops \in Nat /\ MaxHops \in Nat
  BY <1>1, RoutingAssumption DEF ArriveOn, EnginesInv, PacketOK
<1>3. PacketOK'
  <2>1. ASSUME NEW result \in Outcomes \ {"flying"}, End(result), UNCHANGED trail,
               hops' \in {hops, hops + 1}
        PROVE  PacketOK'
    BY <1>2, <2>1 DEF End, EnginesInv, PacketOK
  <2>2. CASE /\ Route(Answers(to, dst), to, dst) /\ trail' = Append(trail, to)
             /\ hops' = hops + 1 /\ hops + 1 < MaxHops
    <3>1. trail' \in Seq(Nodes)
      BY <1>2, <2>2 DEF EnginesInv, PacketOK
    <3>2. QED
      BY <1>2, <2>2, <3>1, RouteIsTyped DEF EnginesInv, WorldOK, PacketOK, Outcomes, Drops
  <2>3. QED
    BY <1>1, <2>1, <2>2 DEF ArriveOn, Outcomes, Drops
<1>4. QED
  BY <1>1, <1>3 DEF EnginesInv, WorldOK, worldVars, engineVars

LEMMA StepIsTyped == EnginesInv /\ [NextEngines]_allVars => EnginesInv'
<1> SUFFICES ASSUME EnginesInv, [NextEngines]_allVars PROVE EnginesInv'
  OBVIOUS
<1>1. ASSUME NEW s \in Sources, NEW t \in Destinations, SendPacket(s, t)
      PROVE  EnginesInv'
  BY <1>1, SendIsTyped, RoutingAssumption
<1>2. CASE ForwardPacket
  BY <1>2, ForwardIsTyped
<1>3. CASE ReplaceTopology
  <2>1. WorldOK'
    BY <1>3, TablesNameNodes DEF ReplaceTopology, TopologyUpdate, EnginesInv, WorldOK
  <2>2. QED
    BY <1>3, <2>1 DEF ReplaceTopology, TopologyUpdate, EnginesInv, PacketOK, engineVars
<1>4. CASE TickPhysics
  <2>1. WorldOK'
    BY <1>4, RoutingAssumption DEF TickPhysics, PhysicsTick, EnginesInv, WorldOK
  <2>2. QED
    BY <1>4, <2>1 DEF TickPhysics, PhysicsTick, EnginesInv, PacketOK
<1>5. CASE Traffic
  <2>1. /\ condition' \in Conditions
        /\ trail' = <<>>
        /\ UNCHANGED <<worldVars, outcome, at, to, dst, hops, strategy>>
    BY <1>5, Zenon DEF Traffic
  <2>2. QED
    BY <2>1 DEF EnginesInv, WorldOK, PacketOK, worldVars
<1>6. CASE UNCHANGED allVars
  BY <1>6 DEF allVars, vars, worldVars, packetVars, engineVars, EnginesInv, WorldOK, PacketOK
<1>7. QED
  BY <1>1, <1>2, <1>3, <1>4, <1>5, <1>6 DEF NextEngines

\* Under every strategy the loop keeps its types: a flying packet flies to a
\* node and has hops left, and no table names anything but nodes.
THEOREM EnginesTypeCorrect == SpecEngines => []EnginesTypeOK
<1>1. QED
  BY InitIsTyped, StepIsTyped, InvIsTyped, PTL DEF SpecEngines
-----------------------------------------------------------------------------
LEMMA InvIsUnderWay == EnginesInv => UnderWay
BY DEF EnginesInv, WorldOK, PacketOK, UnderWay

LEMMA AnswersAreSound ==
  ASSUME NEW s \in Nodes, NEW t \in Nodes, graph \in Graphs, NEW h \in Answers(s, t), h # None
  PROVE  <<s, h>> \in DOMAIN graph /\ h \notin faulted
BY AnswersAreUsable DEF Usable

LEMMA EnginesStepIsSound == EnginesInv /\ [NextEngines]_allVars => [Sound]_vars
<1> SUFFICES ASSUME EnginesInv, [NextEngines]_allVars PROVE Sound \/ UNCHANGED vars
  OBVIOUS
<1> USE InvIsUnderWay
<1>0. graph \in Graphs
  BY DEF EnginesInv, WorldOK
<1>1. ASSUME NEW s \in Sources, NEW t \in Destinations, SendPacket(s, t)
      PROVE  Sound
  <2>1. s \in Nodes /\ t \in Nodes /\ SendOn(Answers(s, t), s, t)
    BY <1>1, RoutingAssumption DEF SendPacket
  <2>2. QED
    BY <1>0, <2>1, AnswersAreSound, SendIsSound
<1>2. CASE ForwardPacket
  <2>1. ArriveOn(Answers(to, dst)) /\ to \in Nodes /\ dst \in Nodes
    BY <1>2 DEF ForwardPacket, ArriveOn, EnginesInv, PacketOK
  <2>2. QED
    BY <1>0, <2>1, AnswersAreSound, ArriveIsSound
<1>3. CASE ReplaceTopology \/ TickPhysics
  BY <1>3, WorldIsSound DEF ReplaceTopology, TickPhysics
<1>4. CASE Traffic
  BY <1>4 DEF Traffic, Sound, Decides
<1>5. QED
  BY <1>1, <1>2, <1>3, <1>4 DEF NextEngines, allVars

\* Under every strategy a hop that is named starts with an edge of the present
\* graph, and leads to a node that is not faulted.
THEOREM EveryHopIsSound == SpecEngines => HopIsSound
<1>1. HopIsSound <=> [][Sound]_vars
  BY DEF HopIsSound, Sound
<1>2. QED
  BY <1>1, InitIsTyped, StepIsTyped, EnginesStepIsSound, PTL DEF SpecEngines
-----------------------------------------------------------------------------
(* The lengths of shortest paths. *)

Weighed(w, N) ==
  \A e \in N \X N : e \in DOMAIN w => w[e] \in Nat /\ w[e] > 0

Start(N, s) == [n \in N |-> IF n = s THEN 0 ELSE Infinity]
Shorter(w, N, f) ==
  [n \in N |-> Min({f[n]} \cup {f[m] + w[<<m, n>>] : m \in Into(w, N, n)})]

\* The rounds of the search from s.
IsSearch(w, N, s, f) ==
  /\ f \in [Nat -> [N -> Nat]]
  /\ f[0] = Start(N, s)
  /\ \A k \in Nat : f[k + 1] = Shorter(w, N, f[k])

\* What a round does: every length stays, or becomes that of a way by a neighbour.
IsRound(w, N, f, g) ==
  \A n \in N :
    /\ g[n] <= f[n]
    /\ \A m \in Into(w, N, n) : g[n] <= f[m] + w[<<m, n>>]
    /\ \/ g[n] = f[n]
       \/ \E m \in Into(w, N, n) : g[n] = f[m] + w[<<m, n>>]

LEMMA ShorterIsTyped ==
  ASSUME NEW w, NEW N, Weighed(w, N), NEW f \in [N -> Nat]
  PROVE  Shorter(w, N, f) \in [N -> Nat] /\ IsRound(w, N, f, Shorter(w, N, f))
<1>1. ASSUME NEW n \in N
      PROVE  /\ Shorter(w, N, f)[n] \in Nat
             /\ Shorter(w, N, f)[n] <= f[n]
             /\ \A m \in Into(w, N, n) : Shorter(w, N, f)[n] <= f[m] + w[<<m, n>>]
             /\ \/ Shorter(w, N, f)[n] = f[n]
                \/ \E m \in Into(w, N, n) : Shorter(w, N, f)[n] = f[m] + w[<<m, n>>]
  <2> DEFINE S == {f[n]} \cup {f[m] + w[<<m, n>>] : m \in Into(w, N, n)}
  <2>1. ASSUME NEW m \in Into(w, N, n) PROVE f[m] + w[<<m, n>>] \in Nat
    <3>1. m \in N /\ <<m, n>> \in N \X N /\ <<m, n>> \in DOMAIN w
      BY DEF Into
    <3>2. QED
      BY <3>1 DEF Weighed
  <2>2. f[n] \in Nat
    OBVIOUS
  <2>3. S \subseteq Nat /\ S # {}
    BY <2>1, <2>2
  <2>4. Shorter(w, N, f)[n] = Min(S)
    BY DEF Shorter
  <2>5. f[n] \in S /\ (\A m \in Into(w, N, n) : f[m] + w[<<m, n>>] \in S)
    OBVIOUS
  <2>6. \A x \in S : x = f[n] \/ \E m \in Into(w, N, n) : x = f[m] + w[<<m, n>>]
    OBVIOUS
  <2> HIDE DEF S
  <2>7. Min(S) \in S /\ \A y \in S : Min(S) <= y
    BY <2>3, MinIsLeast
  <2>8. Shorter(w, N, f)[n] \in S /\ \A y \in S : Shorter(w, N, f)[n] <= y
    BY <2>4, <2>7, Zenon
  <2>9. QED
    BY <2>3, <2>5, <2>6, <2>8
<1>2. Shorter(w, N, f) = [n \in N |-> Shorter(w, N, f)[n]]
  BY DEF Shorter
<1>3. QED
  BY <1>1, <1>2, Zenon DEF IsRound

LEMMA SearchExists ==
  ASSUME NEW w, NEW N, Weighed(w, N), NEW s, Infinity \in Nat
  PROVE  \E f : IsSearch(w, N, s, f)
<1> DEFINE D == [N -> Nat]
           a == Start(N, s)
           step == [k \in Nat |-> [f \in D |-> Shorter(w, N, f)]]
<1>1. a \in D
  BY DEF Start
<1>2. \A f \in D : Shorter(w, N, f) \in D
  BY ShorterIsTyped, Zenon
<1>3. \A k \in Nat, f \in D : step[k][f] = Shorter(w, N, f)
  OBVIOUS
<1>6. step \in [Nat -> [D -> D]]
  <2> HIDE DEF D
  <2>1. QED
    BY <1>2
<1> HIDE DEF a, step, D
<1>4. PICK f : Follows(D, a, step, f)
  BY <1>1, <1>6, RecursionHolds, Zenon
<1>7. \A n \in Nat : f[n] \in D
  BY <1>4 DEF Follows
<1>8. \A n \in Nat : f[n + 1] = Shorter(w, N, f[n])
  BY <1>3, <1>4, <1>7 DEF Follows
<1>5. QED
  BY <1>4, <1>8 DEF IsSearch, Follows, a, D

LEMMA LengthsAreSearched ==
  ASSUME NEW w, NEW N, N # {}, Weighed(w, N), NEW s, Infinity \in Nat,
         Cardinality(N) - 1 \in Nat
  PROVE  \E f : IsSearch(w, N, s, f) /\ Lengths(w, N, s) = f[Cardinality(N) - 1]
<1> DEFINE Def(g) == [k \in Nat |-> IF k = 0 THEN [n \in N |-> IF n = s THEN 0 ELSE Infinity]
             ELSE [n \in N |->
                     Min({g[k-1][n]} \cup {g[k-1][m] + w[<<m, n>>] : m \in Into(w, N, n)})]]
           W == CHOOSE g : g = Def(g)
<1>1. Lengths(w, N, s) = W[Cardinality(N) - 1]
  BY DEF Lengths
<1>6. \A g, k : Def(g) = [j \in Nat |-> IF j = 0 THEN Start(N, s) ELSE Shorter(w, N, g[j-1])]
  BY DEF Start, Shorter
<1> HIDE DEF Def
<1>2. \E f : f = Def(f)
  <2>1. PICK f : IsSearch(w, N, s, f)
    BY SearchExists
  <2>2. \A j \in Nat : f[j] = IF j = 0 THEN Start(N, s) ELSE Shorter(w, N, f[j - 1])
    <3> SUFFICES ASSUME NEW j \in Nat, j # 0 PROVE f[j] = Shorter(w, N, f[j - 1])
      BY <2>1 DEF IsSearch
    <3>1. j - 1 \in Nat /\ (j - 1) + 1 = j
      OBVIOUS
    <3>2. QED
      BY <2>1, <3>1 DEF IsSearch
  <2>3. f = [j \in Nat |-> f[j]]
    BY <2>1 DEF IsSearch
  <2>5. f = [j \in Nat |-> IF j = 0 THEN Start(N, s) ELSE Shorter(w, N, f[j - 1])]
    BY <2>2, <2>3
  <2>6. f = Def(f)
    BY <1>6, <2>5, Zenon
  <2>4. QED
    BY <2>6
<1>3. W = Def(W)
  BY <1>2, Zenon
<1> HIDE DEF W
<1>4. W[0] = Start(N, s) /\ \A k \in Nat : W[k + 1] = Shorter(w, N, W[k])
  <2>1. W = [j \in Nat |-> IF j = 0 THEN Start(N, s) ELSE Shorter(w, N, W[j-1])]
    BY <1>3, <1>6, Zenon
  <2>2. \A k \in Nat : k + 1 # 0 /\ (k + 1) - 1 = k
    OBVIOUS
  <2>4. ASSUME NEW j \in Nat PROVE W[j] = IF j = 0 THEN Start(N, s) ELSE Shorter(w, N, W[j-1])
    BY <2>1, Zenon
  <2>5. ASSUME NEW k \in Nat PROVE W[k + 1] = Shorter(w, N, W[k])
    <3>1. W[k + 1] = Shorter(w, N, W[(k + 1) - 1])
      BY <2>2, <2>4
    <3>2. QED
      BY <3>1, <2>2
  <2>3. QED
    BY <2>4, <2>5
<1>7. W \in [Nat -> [N -> Nat]]
  <2> DEFINE T == {k \in Nat : W[k] \in [N -> Nat]}
  <2>1. 0 \in T
    BY <1>4 DEF Start
  <2>2. \A k \in Nat : k \in T => k + 1 \in T
    BY <1>4, ShorterIsTyped
  <2>3. \A k \in Nat : k \in T
    <3> HIDE DEF T
    <3>1. QED
      BY <2>1, <2>2, ByInduction
  <2>4. W = [k \in Nat |-> W[k]]
    BY <1>3 DEF Def
  <2>5. QED
    BY <2>3, <2>4
<1>5. QED
  BY <1>1, <1>4, <1>7 DEF IsSearch

LEMMA RoundFacts ==
  ASSUME NEW w, NEW N, Weighed(w, N), NEW s, NEW f, IsSearch(w, N, s, f), NEW k \in Nat, NEW n \in N
  PROVE  /\ f[k][n] \in Nat /\ f[k + 1][n] \in Nat
         /\ f[k + 1][n] <= f[k][n]
         /\ \A m \in Into(w, N, n) : f[k + 1][n] <= f[k][m] + w[<<m, n>>]
         /\ \/ f[k + 1][n] = f[k][n]
            \/ \E m \in Into(w, N, n) : f[k + 1][n] = f[k][m] + w[<<m, n>>]
<1>1. f[k] \in [N -> Nat] /\ f[k + 1] \in [N -> Nat] /\ f[k + 1] = Shorter(w, N, f[k])
  BY DEF IsSearch
<1>2. IsRound(w, N, f[k], f[k + 1])
  BY <1>1, ShorterIsTyped
<1>3. f[k][n] \in Nat /\ f[k + 1][n] \in Nat
  BY <1>1
<1>4. QED
  BY <1>2, <1>3 DEF IsRound

LEMMA RoundsDecrease ==
  ASSUME NEW w, NEW N, Weighed(w, N), NEW s, NEW f, IsSearch(w, N, s, f), NEW k \in Nat, NEW n \in N
  PROVE  \A j \in Nat : f[k + j][n] <= f[k][n]
<1> DEFINE S == {j \in Nat : f[k + j][n] <= f[k][n]}
<1>1. 0 \in S
  BY RoundFacts
<1>2. ASSUME NEW j \in Nat, j \in S PROVE j + 1 \in S
  <2>1. f[(k + j) + 1][n] <= f[k + j][n] /\ f[k + j][n] \in Nat /\ f[(k + j) + 1][n] \in Nat
    BY RoundFacts
  <2>2. k + (j + 1) = (k + j) + 1
    OBVIOUS
  <2>3. f[k][n] \in Nat /\ f[k + j][n] <= f[k][n]
    BY <1>2, RoundFacts
  <2>4. QED
    BY <2>1, <2>2, <2>3
<1>3. \A j \in Nat : j \in S
  <2> HIDE DEF S
  <2>1. QED
    BY <1>1, <1>2, ByInduction
<1>4. QED
  BY <1>3

\* The limit of the rounds.
Limit(f, n) == CHOOSE x \in Nat : (\E k \in Nat : f[k][n] = x) /\ \A k \in Nat : x <= f[k][n]

LEMMA LimitIsReached ==
  ASSUME NEW w, NEW N, Weighed(w, N), NEW s, NEW f, IsSearch(w, N, s, f), NEW n \in N
  PROVE  /\ Limit(f, n) \in Nat
         /\ \A k \in Nat : Limit(f, n) <= f[k][n]
         /\ \E k \in Nat : f[k][n] = Limit(f, n)
<1> DEFINE S == {f[k][n] : k \in Nat}
<1>1. S \subseteq Nat /\ S # {}
  BY RoundFacts
<1>2. PICK x \in S : \A y \in S : x <= y
  BY <1>1, LeastNumber
<1>3. x \in Nat /\ (\E k \in Nat : f[k][n] = x) /\ \A k \in Nat : x <= f[k][n]
  BY <1>1, <1>2
<1>4. QED
  BY <1>3 DEF Limit

Settled(N, f, k) == {n \in N : f[k][n] = Limit(f, n)}

\* A node that is not settled yet, and is nearest of those, is in the next round.
LEMMA OneMoreSettles ==
  ASSUME NEW w, NEW N, Weighed(w, N), NEW s, Infinity \in Nat,
         NEW f, IsSearch(w, N, s, f), NEW k \in Nat, Settled(N, f, k) # N
  PROVE  /\ Settled(N, f, k) \subseteq Settled(N, f, k + 1)
         /\ \E n \in N \ Settled(N, f, k) : n \in Settled(N, f, k + 1)
<1>1. Settled(N, f, k) \subseteq Settled(N, f, k + 1)
  <2> SUFFICES ASSUME NEW n \in N, f[k][n] = Limit(f, n) PROVE f[k + 1][n] = Limit(f, n)
    BY DEF Settled
  <2>1. f[k + 1][n] <= f[k][n] /\ f[k][n] \in Nat /\ f[k + 1][n] \in Nat
    BY RoundFacts
  <2>2. Limit(f, n) <= f[k + 1][n] /\ Limit(f, n) \in Nat
    BY LimitIsReached
  <2>3. QED
    BY <2>1, <2>2
<1> DEFINE Rest == N \ Settled(N, f, k)
           Values == {Limit(f, n) : n \in Rest}
<1>2. Rest # {} /\ Values # {} /\ Values \subseteq Nat
  BY LimitIsReached DEF Settled
<1>3. PICK n \in Rest : \A m \in Rest : Limit(f, n) <= Limit(f, m)
  <2>1. PICK x \in Values : \A y \in Values : x <= y
    BY <1>2, LeastNumber
  <2>2. QED
    BY <2>1
<1>4. f[k][n] # Limit(f, n) /\ n \in N
  BY DEF Settled
<1> DEFINE Times == {j \in Nat : f[j][n] = Limit(f, n)}
<1>5. PICK j \in Times : \A i \in Times : j <= i
  <2>1. Times # {} /\ Times \subseteq Nat
    BY <1>4, LimitIsReached
  <2>2. QED
    BY <2>1, LeastNumber
<1>6. j > k
  <2> SUFFICES ASSUME j <= k PROVE FALSE
    OBVIOUS
  <2>1. k - j \in Nat /\ j + (k - j) = k
    OBVIOUS
  <2>2. f[k][n] <= f[j][n]
    BY <1>4, <2>1, RoundsDecrease
  <2>3. Limit(f, n) <= f[k][n] /\ f[j][n] = Limit(f, n) /\ f[k][n] \in Nat /\ Limit(f, n) \in Nat
    BY <1>4, LimitIsReached, RoundFacts
  <2>4. QED
    BY <1>4, <2>2, <2>3
<1>7. j - 1 \in Nat /\ (j - 1) + 1 = j /\ f[j - 1][n] # Limit(f, n)
  <2>1. j - 1 \in Nat /\ (j - 1) + 1 = j /\ ~ (j <= j - 1)
    BY <1>6
  <2>2. QED
    BY <1>5, <2>1
<1>8. PICK m \in Into(w, N, n) : f[j][n] = f[j - 1][m] + w[<<m, n>>]
  BY <1>4, <1>5, <1>7, RoundFacts
<1>9. m \in N /\ w[<<m, n>>] \in Nat /\ m # n /\ w[<<m, n>>] > 0
  <2>1. m \in N /\ <<m, n>> \in N \X N /\ <<m, n>> \in DOMAIN w
    BY <1>4 DEF Into
  <2>2. w[<<m, n>>] \in Nat /\ w[<<m, n>>] > 0
    BY <2>1 DEF Weighed
  <2>3. f[j][n] <= f[j - 1][n] /\ f[j][n] \in Nat /\ f[j - 1][n] \in Nat /\ f[j][n] # f[j - 1][n]
    BY <1>4, <1>5, <1>7, RoundFacts
  <2>4. m # n
    BY <1>8, <2>2, <2>3
  <2>5. QED
    BY <2>1, <2>2, <2>4
<1>10. Limit(f, n) \in Nat /\ Limit(f, m) \in Nat /\ f[j][n] = Limit(f, n) /\ Limit(f, m) <= f[j - 1][m]
       /\ f[j - 1][m] \in Nat
  BY <1>4, <1>5, <1>7, <1>9, LimitIsReached, RoundFacts
<1>11. Limit(f, m) < Limit(f, n)
  BY <1>8, <1>9, <1>10
<1>12. f[k][m] = Limit(f, m)
  BY <1>3, <1>9, <1>10, <1>11 DEF Settled
<1>13. f[k + 1][n] <= f[k][m] + w[<<m, n>>] /\ f[k + 1][n] \in Nat
  BY <1>4, <1>8, RoundFacts
<1>14. Limit(f, n) <= f[k + 1][n]
  BY <1>4, LimitIsReached
<1>15. f[k + 1][n] = Limit(f, n)
  BY <1>8, <1>9, <1>10, <1>12, <1>13, <1>14
<1>16. QED
  BY <1>1, <1>3, <1>4, <1>15 DEF Settled

\* As many rounds as there are other nodes are enough.
LEMMA RoundsSettle ==
  ASSUME NEW w, NEW N, IsFiniteSet(N), Weighed(w, N), NEW s \in N, Infinity \in Nat,
         NEW f, IsSearch(w, N, s, f)
  PROVE  /\ Cardinality(N) - 1 \in Nat
         /\ \A n \in N : f[Cardinality(N)][n] = f[Cardinality(N) - 1][n]
<1> DEFINE S == {k \in Nat : Settled(N, f, k) = N \/ Cardinality(Settled(N, f, k)) >= k + 1}
<1>0. \A k \in Nat : /\ IsFiniteSet(Settled(N, f, k)) /\ Cardinality(Settled(N, f, k)) \in Nat
                     /\ Cardinality(Settled(N, f, k)) <= Cardinality(N)
                     /\ (Cardinality(Settled(N, f, k)) = Cardinality(N) => Settled(N, f, k) = N)
  BY FS_Subset, FS_CardinalityType DEF Settled
<1>1. 0 \in S
  <2>1. f[0][s] = 0
    BY DEF IsSearch, Start
  <2>2. Limit(f, s) \in Nat /\ Limit(f, s) <= 0
    BY <2>1, LimitIsReached
  <2>3. s \in Settled(N, f, 0)
    BY <2>1, <2>2 DEF Settled
  <2>4. Cardinality(Settled(N, f, 0)) # 0
    BY <1>0, <2>3, FS_EmptySet
  <2>5. QED
    BY <1>0, <2>4
<1>2. ASSUME NEW k \in Nat, k \in S PROVE k + 1 \in S
  <2>1. CASE Settled(N, f, k) = N
    <3>1. Settled(N, f, k + 1) = N
      <4> SUFFICES ASSUME NEW n \in N PROVE f[k + 1][n] = Limit(f, n)
        BY DEF Settled
      <4>1. f[k][n] = Limit(f, n)
        BY <2>1 DEF Settled
      <4>2. /\ f[k + 1][n] <= f[k][n] /\ Limit(f, n) <= f[k + 1][n]
            /\ f[k + 1][n] \in Nat /\ Limit(f, n) \in Nat
        BY LimitIsReached, RoundFacts
      <4>3. QED
        BY <4>1, <4>2
    <3>2. QED
      BY <3>1
  <2>2. CASE Settled(N, f, k) # N
    <3>1. PICK n \in N \ Settled(N, f, k) : n \in Settled(N, f, k + 1)
      BY <2>2, OneMoreSettles
    <3>2. Settled(N, f, k) \cup {n} \subseteq Settled(N, f, k + 1)
      BY <2>2, <3>1, OneMoreSettles
    <3>3. /\ IsFiniteSet(Settled(N, f, k) \cup {n})
          /\ Cardinality(Settled(N, f, k) \cup {n}) = Cardinality(Settled(N, f, k)) + 1
      BY <1>0, <3>1, FS_AddElement
    <3>4. Cardinality(Settled(N, f, k) \cup {n}) <= Cardinality(Settled(N, f, k + 1))
      BY <1>0, <3>2, FS_Subset
    <3>5. Cardinality(Settled(N, f, k)) >= k + 1
      BY <1>2, <2>2
    <3>6. Cardinality(Settled(N, f, k + 1)) \in Nat /\ Cardinality(Settled(N, f, k)) \in Nat
      BY <1>0
    <3>7. Cardinality(Settled(N, f, k + 1)) >= (k + 1) + 1
      BY <3>3, <3>4, <3>5, <3>6
    <3>8. QED
      BY <3>7
  <2>3. QED
    BY <2>1, <2>2
<1>3. \A k \in Nat : k \in S
  <2> HIDE DEF S
  <2>1. QED
    BY <1>1, <1>2, ByInduction
<1>4. Cardinality(N) \in Nat /\ Cardinality(N) # 0
  BY FS_CardinalityType, FS_EmptySet
<1>5. Cardinality(N) - 1 \in Nat /\ (Cardinality(N) - 1) + 1 = Cardinality(N)
  BY <1>4
<1> DEFINE K == Cardinality(N) - 1
<1>6. Settled(N, f, K) = N
  <2>1. Settled(N, f, K) = N \/ Cardinality(Settled(N, f, K)) >= K + 1
    BY <1>3, <1>5
  <2>2. QED
    BY <1>0, <1>4, <1>5, <2>1
<1>7. ASSUME NEW n \in N PROVE f[Cardinality(N)][n] = f[K][n]
  <2>1. f[K][n] = Limit(f, n)
    BY <1>6 DEF Settled
  <2>2. /\ f[K + 1][n] <= f[K][n] /\ Limit(f, n) <= f[K + 1][n]
        /\ f[K + 1][n] \in Nat /\ Limit(f, n) \in Nat
    BY <1>5, LimitIsReached, RoundFacts
  <2>3. QED
    BY <1>5, <2>1, <2>2
<1>8. QED
  BY <1>5, <1>7

\* The rounds that make Lengths.
SearchOf(w, N, s) ==
  CHOOSE f : IsSearch(w, N, s, f) /\ Lengths(w, N, s) = f[Cardinality(N) - 1]

LEMMA SearchOfIsSearch ==
  ASSUME NEW w, NEW N, IsFiniteSet(N), Weighed(w, N), Infinity \in Nat, NEW s \in N
  PROVE  /\ IsSearch(w, N, s, SearchOf(w, N, s))
         /\ Cardinality(N) \in Nat /\ Cardinality(N) - 1 \in Nat
         /\ (Cardinality(N) - 1) + 1 = Cardinality(N)
         /\ Lengths(w, N, s) = SearchOf(w, N, s)[Cardinality(N) - 1]
         /\ \A n \in N : /\ SearchOf(w, N, s)[Cardinality(N)][n] = Lengths(w, N, s)[n]
                         /\ \A k \in Nat : SearchOf(w, N, s)[k][n] \in Nat
                         /\ Lengths(w, N, s)[n] \in Nat
<1>1. Cardinality(N) \in Nat /\ Cardinality(N) # 0
  BY FS_CardinalityType, FS_EmptySet
<1>2. Cardinality(N) - 1 \in Nat /\ (Cardinality(N) - 1) + 1 = Cardinality(N)
  BY <1>1
<1>3. \E f : IsSearch(w, N, s, f) /\ Lengths(w, N, s) = f[Cardinality(N) - 1]
  BY <1>2, LengthsAreSearched
<1>4. /\ IsSearch(w, N, s, SearchOf(w, N, s))
      /\ Lengths(w, N, s) = SearchOf(w, N, s)[Cardinality(N) - 1]
  BY <1>3, Zenon DEF SearchOf
<1>5. ASSUME NEW n \in N
      PROVE  /\ SearchOf(w, N, s)[Cardinality(N)][n] = Lengths(w, N, s)[n]
             /\ \A k \in Nat : SearchOf(w, N, s)[k][n] \in Nat
             /\ Lengths(w, N, s)[n] \in Nat
  <2>1. SearchOf(w, N, s)[Cardinality(N)][n] = SearchOf(w, N, s)[Cardinality(N) - 1][n]
    BY <1>4, RoundsSettle
  <2>2. \A k \in Nat : SearchOf(w, N, s)[k][n] \in Nat
    BY <1>4 DEF IsSearch
  <2>3. QED
    BY <1>2, <1>4, <2>1, <2>2
<1>6. QED
  BY <1>1, <1>2, <1>4, <1>5

\* A way that starts with an edge is no shorter than the shortest one.
LEMMA FirstEdgeBounds ==
  ASSUME NEW w, NEW N, Weighed(w, N), NEW s \in N, NEW m \in N, <<s, m>> \in DOMAIN w,
         Infinity \in Nat,
         NEW f, IsSearch(w, N, s, f), NEW g, IsSearch(w, N, m, g)
  PROVE  \A k \in Nat : \A n \in N : f[k + 1][n] <= w[<<s, m>>] + g[k][n]
<1>0. w[<<s, m>>] \in Nat
  <2>1. <<s, m>> \in N \X N
    OBVIOUS
  <2>2. QED
    BY <2>1 DEF Weighed
<1>f. \A k \in Nat : \A n \in N : f[k][n] \in Nat /\ g[k][n] \in Nat
  BY RoundFacts
<1> DEFINE S == {k \in Nat : \A n \in N : f[k + 1][n] <= w[<<s, m>>] + g[k][n]}
<1>1. 0 \in S
  <2> SUFFICES ASSUME NEW n \in N PROVE f[0 + 1][n] <= w[<<s, m>>] + g[0][n]
    OBVIOUS
  <2>1. f[0][s] = 0 /\ f[0][n] <= Infinity /\ g[0][n] = IF n = m THEN 0 ELSE Infinity
    BY DEF IsSearch, Start
  <2>2. f[0 + 1][n] <= f[0][n] /\ f[0 + 1][n] \in Nat /\ f[0][n] \in Nat
    BY RoundFacts
  <2>3. CASE n = m
    <3>1. s \in Into(w, N, n)
      BY <2>3 DEF Into
    <3>2. f[0 + 1][n] <= f[0][s] + w[<<s, n>>]
      BY <3>1, RoundFacts
    <3>3. QED
      BY <1>0, <2>1, <2>2, <2>3, <3>2
  <2>4. CASE n # m
    BY <1>0, <2>1, <2>2, <2>4
  <2>5. QED
    BY <2>3, <2>4
<1>2. ASSUME NEW k \in Nat, k \in S PROVE k + 1 \in S
  <2> SUFFICES ASSUME NEW n \in N PROVE f[(k + 1) + 1][n] <= w[<<s, m>>] + g[k + 1][n]
    OBVIOUS
  <2>0. k + 1 \in Nat /\ (k + 1) + 1 \in Nat
    OBVIOUS
  <2>1. f[(k + 1) + 1][n] <= f[k + 1][n]
    BY <2>0, RoundFacts
  <2>2. \A j \in N : f[k + 1][j] <= w[<<s, m>>] + g[k][j]
    BY <1>2
  <2>3. CASE g[k + 1][n] = g[k][n]
    BY <1>0, <1>f, <2>0, <2>1, <2>2, <2>3
  <2>4. ASSUME NEW j \in Into(w, N, n), g[k + 1][n] = g[k][j] + w[<<j, n>>]
        PROVE  f[(k + 1) + 1][n] <= w[<<s, m>>] + g[k + 1][n]
    <3>1. j \in N /\ <<j, n>> \in N \X N /\ <<j, n>> \in DOMAIN w
      BY DEF Into
    <3>2. w[<<j, n>>] \in Nat
      BY <3>1 DEF Weighed
    <3>3. f[(k + 1) + 1][n] <= f[k + 1][j] + w[<<j, n>>]
      BY <2>0, RoundFacts
    <3>4. f[k + 1][j] <= w[<<s, m>>] + g[k][j]
      BY <2>2, <3>1
    <3>5. f[(k + 1) + 1][n] \in Nat /\ f[k + 1][j] \in Nat /\ g[k][j] \in Nat
      BY <1>f, <2>0, <3>1
    <3>6. QED
      BY <1>0, <2>4, <3>2, <3>3, <3>4, <3>5
  <2>5. \/ g[k + 1][n] = g[k][n]
        \/ \E j \in Into(w, N, n) : g[k + 1][n] = g[k][j] + w[<<j, n>>]
    BY RoundFacts
  <2>6. QED
    BY <2>3, <2>4, <2>5
<1>3. \A k \in Nat : k \in S
  <2> HIDE DEF S
  <2>1. QED
    BY <1>1, <1>2, ByInduction
<1>4. QED
  BY <1>3

\* What is shorter than infinite, from another node, starts with an edge.
HasFirstEdge(w, N, s, f, k, n) ==
  \E m \in N : <<s, m>> \in DOMAIN w /\ f[k + 1][n] >= w[<<s, m>>] + SearchOf(w, N, m)[k][n]

LEMMA FirstEdgeExists ==
  ASSUME NEW w, NEW N, IsFiniteSet(N), Weighed(w, N), Infinity \in Nat, NEW s \in N,
         NEW f, IsSearch(w, N, s, f)
  PROVE  \A k \in Nat : \A n \in N :
           n # s /\ f[k + 1][n] < Infinity => HasFirstEdge(w, N, s, f, k, n)
<1> DEFINE S == {k \in Nat : \A n \in N :
                   n # s /\ f[k + 1][n] < Infinity => HasFirstEdge(w, N, s, f, k, n)}
<1>w. \A x, y \in N : <<x, y>> \in DOMAIN w => w[<<x, y>>] \in Nat
  BY DEF Weighed
<1>f. \A k \in Nat : \A n \in N : f[k][n] \in Nat
  BY RoundFacts
<1>g. \A m \in N : \A k \in Nat : \A n \in N :
         SearchOf(w, N, m)[k][n] \in Nat /\ SearchOf(w, N, m)[k + 1][n] <= SearchOf(w, N, m)[k][n]
  BY SearchOfIsSearch, RoundFacts
<1>0. \A m \in N : SearchOf(w, N, m)[0][m] = 0
  <2> SUFFICES ASSUME NEW m \in N PROVE SearchOf(w, N, m)[0][m] = 0
    OBVIOUS
  <2>1. SearchOf(w, N, m)[0] = Start(N, m)
    BY SearchOfIsSearch DEF IsSearch
  <2>2. QED
    BY <2>1 DEF Start
<1>s. \A m \in N : \A k \in Nat : SearchOf(w, N, m)[k][m] = 0
  <2> SUFFICES ASSUME NEW m \in N, NEW k \in Nat PROVE SearchOf(w, N, m)[k][m] = 0
    OBVIOUS
  <2>1. SearchOf(w, N, m)[0 + k][m] <= SearchOf(w, N, m)[0][m]
    BY SearchOfIsSearch, RoundsDecrease
  <2>2. 0 + k = k
    OBVIOUS
  <2>3. QED
    BY <1>0, <1>g, <2>1, <2>2
<1>z. \A n \in N : n # s => f[0][n] = Infinity
  BY DEF IsSearch, Start
\* An edge from s to n is a way.
<1>e. ASSUME NEW k \in Nat, NEW n \in N, s \in Into(w, N, n), f[k + 1][n] >= w[<<s, n>>]
      PROVE  HasFirstEdge(w, N, s, f, k, n)
  <2>1. <<s, n>> \in DOMAIN w /\ w[<<s, n>>] \in Nat
    BY <1>e, <1>w DEF Into
  <2>2. SearchOf(w, N, n)[k][n] = 0
    BY <1>s
  <2>3. f[k + 1][n] >= w[<<s, n>>] + SearchOf(w, N, n)[k][n]
    BY <1>e, <2>1, <2>2
  <2>4. QED
    BY <2>1, <2>3 DEF HasFirstEdge
<1>1. 0 \in S
  <2> SUFFICES ASSUME NEW n \in N, n # s, f[0 + 1][n] < Infinity PROVE HasFirstEdge(w, N, s, f, 0, n)
    OBVIOUS
  <2>1. f[0][n] = Infinity
    BY <1>z
  <2>2. PICK j \in Into(w, N, n) : f[0 + 1][n] = f[0][j] + w[<<j, n>>]
    BY <2>1, <1>f, RoundFacts
  <2>3. j \in N /\ w[<<j, n>>] \in Nat
    BY <1>w DEF Into
  <2>4. j = s
    <3>1. f[0][j] # Infinity
      BY <2>2, <2>3
    <3>2. QED
      BY <1>z, <2>3, <3>1
  <2>5. f[0 + 1][n] >= w[<<s, n>>]
    BY <1>f, <2>2, <2>3, <2>4
  <2>6. QED
    BY <1>e, <2>2, <2>4, <2>5
<1>2. ASSUME NEW k \in Nat, k \in S PROVE k + 1 \in S
  <2> SUFFICES ASSUME NEW n \in N, n # s, f[(k + 1) + 1][n] < Infinity
               PROVE  HasFirstEdge(w, N, s, f, k + 1, n)
    OBVIOUS
  <2>0. k + 1 \in Nat /\ (k + 1) + 1 \in Nat
    OBVIOUS
  <2>1. CASE f[(k + 1) + 1][n] = f[k + 1][n]
    <3>1. HasFirstEdge(w, N, s, f, k, n)
      BY <1>2, <2>1
    <3>2. PICK m \in N : <<s, m>> \in DOMAIN w /\ f[k + 1][n] >= w[<<s, m>>] + SearchOf(w, N, m)[k][n]
      BY <3>1 DEF HasFirstEdge
    <3>3. /\ SearchOf(w, N, m)[k + 1][n] <= SearchOf(w, N, m)[k][n]
          /\ SearchOf(w, N, m)[k + 1][n] \in Nat /\ SearchOf(w, N, m)[k][n] \in Nat
      BY <1>g, <2>0
    <3>4. f[(k + 1) + 1][n] >= w[<<s, m>>] + SearchOf(w, N, m)[k + 1][n]
      BY <1>w, <1>f, <2>0, <2>1, <3>2, <3>3
    <3>5. QED
      BY <3>2, <3>4 DEF HasFirstEdge
  <2>2. ASSUME NEW j \in Into(w, N, n), f[(k + 1) + 1][n] = f[k + 1][j] + w[<<j, n>>]
        PROVE  HasFirstEdge(w, N, s, f, k + 1, n)
    <3>1. j \in N /\ <<j, n>> \in DOMAIN w /\ w[<<j, n>>] \in Nat
      BY <1>w DEF Into
    <3>2. CASE j = s
      <4>1. f[(k + 1) + 1][n] >= w[<<s, n>>]
        BY <1>f, <2>0, <2>2, <3>1, <3>2
      <4>2. QED
        BY <1>e, <2>0, <3>2, <4>1
    <3>3. CASE j # s
      <4>1. f[k + 1][j] < Infinity
        BY <1>f, <2>0, <2>2, <3>1
      <4>2. HasFirstEdge(w, N, s, f, k, j)
        BY <1>2, <3>1, <3>3, <4>1
      <4>3. PICK m \in N : <<s, m>> \in DOMAIN w /\ f[k + 1][j] >= w[<<s, m>>] + SearchOf(w, N, m)[k][j]
        BY <4>2 DEF HasFirstEdge
      <4>4. SearchOf(w, N, m)[k + 1][n] <= SearchOf(w, N, m)[k][j] + w[<<j, n>>]
        BY <2>2, SearchOfIsSearch, RoundFacts
      <4>5. /\ SearchOf(w, N, m)[k + 1][n] \in Nat /\ SearchOf(w, N, m)[k][j] \in Nat
            /\ w[<<s, m>>] \in Nat /\ f[k + 1][j] \in Nat
        BY <1>g, <1>w, <1>f, <2>0, <3>1, <4>3
      <4>6. f[(k + 1) + 1][n] >= w[<<s, m>>] + SearchOf(w, N, m)[k + 1][n]
        BY <2>2, <3>1, <4>3, <4>4, <4>5
      <4>7. QED
        BY <4>3, <4>6 DEF HasFirstEdge
    <3>4. QED
      BY <3>2, <3>3
  <2>3. \/ f[(k + 1) + 1][n] = f[k + 1][n]
        \/ \E j \in Into(w, N, n) : f[(k + 1) + 1][n] = f[k + 1][j] + w[<<j, n>>]
    BY <2>0, RoundFacts
  <2>4. QED
    BY <2>1, <2>2, <2>3
<1>3. \A k \in Nat : k \in S
  <2> HIDE DEF S
  <2>1. QED
    BY <1>1, <1>2, ByInduction
<1>4. QED
  BY <1>3

\* What Lengths are: no way is shorter, and one that starts with an edge is as short.
IsDistance(w, N, s, L) ==
  /\ L \in [N -> Nat]
  /\ L[s] = 0
  /\ \A n \in N : L[n] <= Infinity
  /\ \A n \in N, m \in N : <<s, m>> \in DOMAIN w => L[n] <= w[<<s, m>>] + Lengths(w, N, m)[n]
  /\ \A n \in N : n # s /\ L[n] < Infinity =>
       \E m \in N : <<s, m>> \in DOMAIN w /\ L[n] = w[<<s, m>>] + Lengths(w, N, m)[n]

LEMMA LengthsAreDistances ==
  ASSUME NEW w, NEW N, IsFiniteSet(N), Weighed(w, N), Infinity \in Nat, NEW s \in N
  PROVE  IsDistance(w, N, s, Lengths(w, N, s))
<1> DEFINE C == Cardinality(N)
           K == C - 1
           f == SearchOf(w, N, s)
           L == Lengths(w, N, s)
<1>1. C \in Nat /\ K \in Nat /\ K + 1 = C /\ IsSearch(w, N, s, f) /\ L = f[K]
  BY SearchOfIsSearch
<1>2. \A m \in N : \A n \in N : /\ SearchOf(w, N, m)[C][n] = Lengths(w, N, m)[n]
                                /\ SearchOf(w, N, m)[K][n] = Lengths(w, N, m)[n]
                                /\ Lengths(w, N, m)[n] \in Nat
  BY SearchOfIsSearch
<1>w. \A x, y \in N : <<x, y>> \in DOMAIN w => w[<<x, y>>] \in Nat
  BY DEF Weighed
<1>3. L \in [N -> Nat]
  BY <1>1 DEF IsSearch
<1>4. \A n \in N : L[n] <= f[0][n]
  <2> SUFFICES ASSUME NEW n \in N PROVE L[n] <= f[0][n]
    OBVIOUS
  <2>1. f[0 + K][n] <= f[0][n]
    BY <1>1, RoundsDecrease
  <2>2. 0 + K = K
    BY <1>1
  <2>3. QED
    BY <1>1, <2>1, <2>2
<1>5. f[0] = Start(N, s)
  BY <1>1 DEF IsSearch
<1>6. L[s] = 0 /\ \A n \in N : L[n] <= Infinity
  BY <1>3, <1>4, <1>5 DEF Start
<1> HIDE DEF C, K, f, L
<1>7. ASSUME NEW n \in N, NEW m \in N, <<s, m>> \in DOMAIN w
      PROVE  L[n] <= w[<<s, m>>] + Lengths(w, N, m)[n]
  <2>1. f[K + 1][n] <= w[<<s, m>>] + SearchOf(w, N, m)[K][n]
    BY <1>1, <1>7, SearchOfIsSearch, FirstEdgeBounds
  <2>2. f[C][n] = L[n]
    BY <1>2 DEF f, L
  <2>3. QED
    BY <1>1, <1>2, <2>1, <2>2
<1>8. ASSUME NEW n \in N, n # s, L[n] < Infinity
      PROVE  \E m \in N : <<s, m>> \in DOMAIN w /\ L[n] = w[<<s, m>>] + Lengths(w, N, m)[n]
  <2>1. f[K + 1][n] = L[n]
    BY <1>1, <1>2 DEF f, L
  <2>2. HasFirstEdge(w, N, s, f, K, n)
    BY <1>1, <1>8, <2>1, FirstEdgeExists
  <2>3. PICK m \in N : <<s, m>> \in DOMAIN w /\ f[K + 1][n] >= w[<<s, m>>] + SearchOf(w, N, m)[K][n]
    BY <2>2 DEF HasFirstEdge
  <2>4. L[n] >= w[<<s, m>>] + Lengths(w, N, m)[n]
    BY <1>2, <2>1, <2>3
  <2>5. L[n] <= w[<<s, m>>] + Lengths(w, N, m)[n]
    BY <1>7, <2>3
  <2>6. L[n] \in Nat /\ w[<<s, m>>] \in Nat /\ Lengths(w, N, m)[n] \in Nat
    BY <1>2, <1>3, <1>w, <2>3
  <2>7. QED
    BY <2>3, <2>4, <2>5, <2>6
<1>9. QED
  BY <1>3, <1>6, <1>7, <1>8, Zenon DEF IsDistance, L

\* The next node of a shortest path is nearer to its end.
LEMMA FirstHopIsNearer ==
  ASSUME NEW w, NEW N, IsFiniteSet(N), Weighed(w, N), Infinity \in Nat,
         NEW s \in N, NEW t \in N, NEW h \in FirstHops(w, N, s, t), h # s
  PROVE  /\ h \in N
         /\ Lengths(w, N, h)[t] \in Nat /\ Lengths(w, N, s)[t] \in Nat
         /\ Lengths(w, N, h)[t] < Lengths(w, N, s)[t]
         /\ Lengths(w, N, s)[t] < Infinity
<1> DEFINE length == Lengths(w, N, s)[t]
<1>1. FirstHops(w, N, s, t) =
        IF s = t \/ length >= Infinity THEN {}
        ELSE {m \in N : /\ <<s, m>> \in DOMAIN w
                        /\ w[<<s, m>>] + Lengths(w, N, m)[t] = length}
  BY DEF FirstHops
<1>2. length \in Nat /\ \A m \in N : Lengths(w, N, m)[t] \in Nat
  BY SearchOfIsSearch
<1> HIDE DEF length
<1>3. /\ h \in N /\ <<s, h>> \in DOMAIN w /\ ~ (length >= Infinity)
      /\ w[<<s, h>>] + Lengths(w, N, h)[t] = length
  BY <1>1
<1>4. <<s, h>> \in N \X N /\ <<s, h>>[1] = s /\ <<s, h>>[2] = h
  BY <1>3
<1>5. w[<<s, h>>] \in Nat /\ w[<<s, h>>] > 0
  BY <1>3, <1>4 DEF Weighed
<1>6. QED
  BY <1>2, <1>3, <1>5 DEF length

\* And has a next node of its own, or is the end.
LEMMA FirstHopHasFirstHop ==
  ASSUME NEW w, NEW N, IsFiniteSet(N), Weighed(w, N), Infinity \in Nat,
         NEW s \in N, NEW t \in N, s # t, Lengths(w, N, s)[t] < Infinity
  PROVE  FirstHops(w, N, s, t) # {}
<1> DEFINE length == Lengths(w, N, s)[t]
<1>1. FirstHops(w, N, s, t) =
        IF s = t \/ length >= Infinity THEN {}
        ELSE {m \in N : /\ <<s, m>> \in DOMAIN w
                        /\ w[<<s, m>>] + Lengths(w, N, m)[t] = length}
  BY DEF FirstHops
<1>2. IsDistance(w, N, s, Lengths(w, N, s))
  BY LengthsAreDistances
<1>3. \E m \in N : <<s, m>> \in DOMAIN w /\ length = w[<<s, m>>] + Lengths(w, N, m)[t]
  BY <1>2 DEF IsDistance
<1>4. length \in Nat
  BY SearchOfIsSearch
<1> HIDE DEF length
<1>5. ~ (length >= Infinity)
  BY <1>4 DEF length
<1>6. QED
  BY <1>1, <1>3, <1>5

\* The way to a pod by the node a, and by the best one.
ByWayOf(w, v, N, s, pod, a) ==
  (IF a \in Transit(N, s) THEN Lengths(w, Transit(N, s), s)[a] ELSE Infinity) + v[<<a, pod>>]

PodLeft(w, v, N, s, pod) == Min({ByWayOf(w, v, N, s, pod, a) : a \in Into(v, N, pod)})

LEMMA PodLeftIsLeast ==
  ASSUME NEW w, NEW v, NEW N, IsFiniteSet(N), Weighed(w, N), Weighed(v, N), Infinity \in Nat,
         NEW s \in N, NEW pod \in N, Into(v, N, pod) # {}
  PROVE  /\ PodLeft(w, v, N, s, pod) \in Nat
         /\ \E a \in Into(v, N, pod) : PodLeft(w, v, N, s, pod) = ByWayOf(w, v, N, s, pod, a)
         /\ \A a \in Into(v, N, pod) : /\ ByWayOf(w, v, N, s, pod, a) \in Nat
                                       /\ PodLeft(w, v, N, s, pod) <= ByWayOf(w, v, N, s, pod, a)
<1> DEFINE S == {ByWayOf(w, v, N, s, pod, a) : a \in Into(v, N, pod)}
<1>1. IsFiniteSet(Transit(N, s)) /\ s \in Transit(N, s) /\ Transit(N, s) \subseteq N
  BY FS_Subset DEF Transit
<1>2. Weighed(w, Transit(N, s))
  BY <1>1 DEF Weighed
<1>3. \A a \in Transit(N, s) : Lengths(w, Transit(N, s), s)[a] \in Nat
  BY <1>1, <1>2, SearchOfIsSearch
<1>4. ASSUME NEW a \in Into(v, N, pod) PROVE ByWayOf(w, v, N, s, pod, a) \in Nat
  <2>1. <<a, pod>> \in N \X N /\ <<a, pod>> \in DOMAIN v
    BY DEF Into
  <2>2. v[<<a, pod>>] \in Nat
    BY <2>1 DEF Weighed
  <2>3. QED
    BY <1>3, <2>2 DEF ByWayOf
<1>5. S \subseteq Nat /\ S # {}
  BY <1>4
<1>6. Min(S) \in S /\ \A y \in S : Min(S) <= y
  <2> HIDE DEF S
  <2>1. QED
    BY <1>5, MinIsLeast
<1>7. PodLeft(w, v, N, s, pod) = Min(S)
  BY DEF PodLeft
<1>8. QED
  BY <1>4, <1>5, <1>6, <1>7

LEMMA HopToPodIsNearer ==
  ASSUME NEW w, NEW v, NEW N, IsFiniteSet(N), Weighed(w, N), Weighed(v, N), Infinity \in Nat,
         NEW s \in N, s \notin Pods, NEW pod \in N, pod \in Pods,
         NEW h \in HopsToPod(w, v, N, s, pod), h \notin Pods, h # s
  PROVE  /\ h \in N
         /\ Into(v, N, pod) # {}
         /\ PodLeft(w, v, N, h, pod) < PodLeft(w, v, N, s, pod)
<1> DEFINE T == Transit(N, s)
           lengths == Lengths(w, T, s)
           Total(a) == (IF a \in T THEN lengths[a] ELSE Infinity) + v[<<a, pod>>]
           attached == Into(v, N, pod)
           best == {a \in attached : \A b \in attached : Total(a) <= Total(b)}
           Near == {b \in best \cap T : lengths[b] < Infinity}
<1>1. HopsToPod(w, v, N, s, pod) =
        UNION {IF a = s THEN {pod} ELSE FirstHops(w, T, s, a) : a \in Near}
  BY DEF HopsToPod
<1>2. PICK a \in Near : h \in IF a = s THEN {pod} ELSE FirstHops(w, T, s, a)
  <2> HIDE DEF Near, T
  <2>1. QED
    BY <1>1
<1>3. a # s /\ h \in FirstHops(w, T, s, a)
  BY <1>2
<1>4. \A b : Total(b) = ByWayOf(w, v, N, s, pod, b)
  BY DEF ByWayOf
<1>5. a \in attached /\ a \in T /\ \A b \in attached : Total(a) <= Total(b)
  OBVIOUS
<1>6. T = N \ Pods /\ s \in T /\ T \subseteq N /\ IsFiniteSet(T)
  BY FS_Subset DEF Transit
<1>7. Weighed(w, T)
  BY <1>6 DEF Weighed
<1> HIDE DEF Near, T, lengths
<1>8. /\ h \in T
      /\ Lengths(w, T, h)[a] \in Nat /\ Lengths(w, T, s)[a] \in Nat
      /\ Lengths(w, T, h)[a] < Lengths(w, T, s)[a]
  BY <1>3, <1>5, <1>6, <1>7, FirstHopIsNearer
<1>9. Transit(N, h) = T /\ Transit(N, s) = T
  BY <1>6, <1>8 DEF Transit
<1>10. v[<<a, pod>>] \in Nat
  <2>1. <<a, pod>> \in N \X N /\ <<a, pod>> \in DOMAIN v
    BY <1>5 DEF Into
  <2>2. QED
    BY <2>1 DEF Weighed
<1>11. ByWayOf(w, v, N, h, pod, a) < ByWayOf(w, v, N, s, pod, a)
  BY <1>5, <1>8, <1>9, <1>10 DEF ByWayOf
<1>12. attached # {} /\ h \in N
  BY <1>5, <1>6, <1>8
<1>13. /\ PodLeft(w, v, N, h, pod) \in Nat /\ PodLeft(w, v, N, s, pod) \in Nat
       /\ PodLeft(w, v, N, h, pod) <= ByWayOf(w, v, N, h, pod, a)
       /\ ByWayOf(w, v, N, h, pod, a) \in Nat /\ ByWayOf(w, v, N, s, pod, a) \in Nat
  BY <1>5, <1>12, PodLeftIsLeast
<1>14. ByWayOf(w, v, N, s, pod, a) <= PodLeft(w, v, N, s, pod)
  <2>1. PICK b \in attached : PodLeft(w, v, N, s, pod) = ByWayOf(w, v, N, s, pod, b)
    BY <1>12, PodLeftIsLeast
  <2>2. Total(a) <= Total(b)
    BY <1>5
  <2>3. QED
    BY <1>4, <2>1, <2>2, Zenon
<1>15. QED
  BY <1>11, <1>12, <1>13, <1>14
-----------------------------------------------------------------------------
(* Ways that get shorter at each hop. *)

\* A way that M counts down on, except past the nodes of X, and that has no pod
\* after its first node.
Descends(M, X, q) ==
  /\ \A j \in 2 .. Len(q) : q[j] \notin Pods
  /\ \A i, j \in 1 .. Len(q) :
       i < j /\ (\A k \in i .. j - 1 : q[k] \notin X) => M[q[j]] < M[q[i]]

\* One more step down, or past a node of X.
LEMMA DescentGoesOn ==
  ASSUME NEW M \in [Nodes -> Nat], NEW X, NEW q \in Seq(Nodes), Descends(M, X, q),
         NEW s \in Nodes, NEW h \in Nodes, h \notin Pods,
         q # <<>>, q[Len(q)] = s, s \in X \/ M[h] < M[s]
  PROVE  Descends(M, X, Append(q, h))
<1> DEFINE r == Append(q, h)
<1>1. /\ Len(q) \in Nat /\ Len(q) >= 1 /\ Len(r) = Len(q) + 1
      /\ \A i \in 1 .. Len(q) : r[i] = q[i] /\ q[i] \in Nodes
      /\ r[Len(q) + 1] = h
  OBVIOUS
<1> HIDE DEF r
<1>2. ASSUME NEW j \in 2 .. Len(r)
      PROVE  r[j] \notin Pods
  <2>1. CASE j = Len(q) + 1
    BY <1>1, <2>1
  <2>2. CASE j # Len(q) + 1
    <3>1. j \in 2 .. Len(q) /\ j \in 1 .. Len(q)
      BY <1>1, <2>2
    <3>2. QED
      BY <1>1, <3>1 DEF Descends
  <2>3. QED
    BY <2>1, <2>2
<1>3. ASSUME NEW i \in 1 .. Len(r), NEW j \in 1 .. Len(r), i < j,
             \A k \in i .. j - 1 : r[k] \notin X
      PROVE  M[r[j]] < M[r[i]]
  <2>0. i \in 1 .. Len(q)
    BY <1>1, <1>3
  <2>1. CASE j \in 1 .. Len(q)
    <3>1. \A k \in i .. j - 1 : k \in 1 .. Len(q)
      BY <1>1, <2>0, <2>1
    <3>2. \A k \in i .. j - 1 : q[k] \notin X
      BY <1>1, <1>3, <3>1
    <3>3. M[q[j]] < M[q[i]]
      BY <1>3, <2>0, <2>1, <3>2 DEF Descends
    <3>4. QED
      BY <1>1, <2>0, <2>1, <3>3
  <2>2. CASE j \notin 1 .. Len(q)
    <3>1. j = Len(q) + 1 /\ r[j] = h
      BY <1>1, <2>2
    <3>2. Len(q) \in i .. j - 1 /\ Len(q) \in 1 .. Len(q) /\ r[Len(q)] = s
      BY <1>1, <2>0, <3>1
    <3>3. M[h] < M[s]
      BY <1>3, <3>2
    <3>4. CASE i = Len(q)
      BY <1>1, <2>0, <3>1, <3>3, <3>4
    <3>5. CASE i # Len(q)
      <4>1. i < Len(q)
        BY <1>1, <2>0, <3>5
      <4>2. \A k \in i .. Len(q) - 1 : k \in i .. j - 1 /\ k \in 1 .. Len(q)
        BY <1>1, <2>0, <3>1
      <4>3. \A k \in i .. Len(q) - 1 : q[k] \notin X
        BY <1>1, <1>3, <4>2
      <4>4. M[q[Len(q)]] < M[q[i]]
        BY <2>0, <3>2, <4>1, <4>3 DEF Descends
      <4>5. M[q[i]] \in Nat /\ M[s] \in Nat /\ M[h] \in Nat
        BY <1>1, <2>0
      <4>6. QED
        BY <1>1, <2>0, <3>1, <3>3, <4>4, <4>5
    <3>6. QED
      BY <3>4, <3>5
  <2>3. QED
    BY <2>1, <2>2
<1>4. QED
  BY <1>2, <1>3 DEF Descends, r

LEMMA ShortDescends ==
  ASSUME NEW M, NEW X, NEW q, q = <<>> \/ \E n : q = <<n>>
  PROVE  Descends(M, X, q)
<1>1. Len(q) \in {0, 1}
  OBVIOUS
<1>2. QED
  BY <1>1 DEF Descends

\* A beginning of a descent is one.
LEMMA DescentBegins ==
  ASSUME NEW M, NEW X, NEW q \in Seq(Nodes), NEW h \in Nodes, Descends(M, X, Append(q, h))
  PROVE  Descends(M, X, q)
<1>1. Len(q) \in Nat /\ Len(Append(q, h)) = Len(q) + 1 /\ \A i \in 1 .. Len(q) : Append(q, h)[i] = q[i]
  OBVIOUS
<1>2. 1 .. Len(q) \subseteq 1 .. Len(Append(q, h)) /\ 2 .. Len(q) \subseteq 2 .. Len(Append(q, h))
  BY <1>1
<1>3. \A i \in 2 .. Len(q) : i \in 1 .. Len(q)
  OBVIOUS
<1>4. \A i, j \in 1 .. Len(q) : \A k \in i .. j - 1 : k \in 1 .. Len(q)
  BY <1>1
<1>5. QED
  BY <1>1, <1>2, <1>3, <1>4 DEF Descends

\* A way that comes back to a node has passed one of X.
LEMMA DescentIsSimple ==
  ASSUME NEW M \in [Nodes -> Nat], NEW X, NEW q \in Seq(Nodes), Descends(M, X, q),
         ~ IsInjective(q)
  PROVE  \E k \in 1 .. Len(q) - 1 : q[k] \in X \ Pods
<1>1. PICK i, j \in 1 .. Len(q) : i < j /\ q[i] = q[j]
  <2>1. DOMAIN q = 1 .. Len(q)
    OBVIOUS
  <2>2. PICK i, j \in 1 .. Len(q) : q[i] = q[j] /\ i # j
    BY <2>1 DEF IsInjective
  <2>3. i < j \/ j < i
    BY <2>2
  <2>4. QED
    BY <2>2, <2>3
<1>2. q[i] \in Nodes /\ M[q[i]] \in Nat
  OBVIOUS
<1>3. PICK k \in i .. j - 1 : q[k] \in X
  BY <1>1, <1>2 DEF Descends
<1>4. k \in 1 .. Len(q) - 1
  BY <1>1
<1>5. q[k] \notin Pods
  <2>1. j \in 2 .. Len(q)
    BY <1>1
  <2>2. CASE k = i
    BY <1>1, <2>1, <2>2 DEF Descends
  <2>3. CASE k # i
    <3>1. k \in 2 .. Len(q)
      BY <1>1, <2>3
    <3>2. QED
      BY <3>1 DEF Descends
  <2>4. QED
    BY <2>2, <2>3
<1>6. QED
  BY <1>3, <1>4, <1>5
-----------------------------------------------------------------------------
(* What is left of the way, under each strategy. *)

\* What is left of the way from n to t, as the search sees it.
SearchLeft(n, t) ==
  IF ~ ({n, t} \subseteq Operational) THEN 0
  ELSE IF t \notin Pods THEN Lengths(Penalised, Operational, n)[t]
  ELSE IF Into(graph, Operational, t) = {} THEN 0
  ELSE PodLeft(Penalised, graph, Operational, n, t)

\* And as the tables see it, where they have an entry: less than any search that
\* stands in for a missing one.
ShortestLeft(n, t) ==
  IF DOMAIN penalty = {} /\ t \notin Pods /\ nextHop[n][t] # {}
  THEN Lengths(graph, Transit(Nodes, n), n)[t]
  ELSE Infinity + SearchLeft(n, t)

Left(t) ==
  [n \in Nodes |->
     CASE strategy = "geographic_greedy" -> Distance[graph][<<n, t>>]
       [] strategy = "shortest_path" -> ShortestLeft(n, t)
       [] OTHER -> IF {n, t} \subseteq Operational THEN Lengths(Cost(n), Operational, n)[t] ELSE 0]

\* Where the way need not get shorter: at the minima of the greedy strategy, and
\* at a pod, which only the first node can be.
Exempt(t) == IF strategy = "geographic_greedy" THEN {n \in Nodes : IsMinimum(n, t)} ELSE Pods

\* The decisions are all taken by the tables, or all by the search.
Unmixed == strategy = "shortest_path" => faulted = {} \/ DOMAIN penalty # {}

\* The tables are those of the graph.
Current == nextHop = Tables[graph]

LEMMA GraphIsWeighed ==
  ASSUME graph \in Graphs, NEW N
  PROVE  Weighed(graph, N)
BY WeightsAssumption DEF Weighed

LEMMA PenalisedIsWeighed ==
  ASSUME WorldOK, NEW N
  PROVE  Weighed(Penalised, N)
<1> SUFFICES ASSUME NEW e \in N \X N, e \in DOMAIN graph
             PROVE  Penalised[e] \in Nat /\ Penalised[e] > 0
  BY DEF Weighed, Penalised
<1>1. graph[e] \in Nat /\ graph[e] > 0
  BY WeightsAssumption DEF WorldOK
<1>2. e \in DOMAIN penalty => penalty[e] \in Nat
  BY WeightsAssumption DEF WorldOK
<1>3. Penalised[e] = graph[e] + (IF e \in DOMAIN penalty THEN penalty[e] ELSE 0)
  BY DEF Penalised
<1>4. QED
  BY <1>1, <1>2, <1>3

LEMMA CalmIsUnpenalised ==
  ASSUME graph \in Graphs, DOMAIN penalty = {}
  PROVE  Penalised = graph
<1>1. graph = [e \in DOMAIN graph |-> graph[e]] /\ \A e \in DOMAIN graph : graph[e] \in Nat
  BY WeightsAssumption
<1>2. Penalised = [e \in DOMAIN graph |-> graph[e] + 0]
  BY DEF Penalised
<1>3. QED
  BY <1>1, <1>2

LEMMA TollIsNatural ==
  ASSUME condition \in Conditions, NEW n \in Nodes
  PROVE  Toll(n) \in Nat
<1> DEFINE c == condition[n]
<1>1. /\ c.heat \in Nat /\ c.deficit \in Nat /\ c.queue \in Nat /\ c.dose \in Nat
      /\ c.degradation \in Nat /\ c.jobs \in Nat
  BY EnginesAssumption DEF Condition
<1> HIDE DEF c
<1>2. c.heat * c.heat \in Nat
  BY <1>1
<1>3. ThermalEnergyToll(c) \in Nat
  <2>1. 15 * c.heat * c.heat = 15 * (c.heat * c.heat)
    BY <1>1
  <2>2. QED
    BY <1>1, <1>2, <2>1 DEF ThermalEnergyToll
<1>4. PowerToll(c) \in Nat
  BY DEF PowerToll
<1>5. ASSUME NEW isPod PROVE SynergyToll(c, isPod) \in Nat
  <2>1. 15 * c.heat * c.heat = 15 * (c.heat * c.heat)
    BY <1>1
  <2>2. (15 * (c.heat * c.heat)) \div 2 \in Nat /\ (7 * c.jobs) \div 2 \in Nat
    BY <1>1, <1>2
  <2>3. QED
    BY <1>1, <2>1, <2>2 DEF SynergyToll
<1>6. QED
  BY <1>3, <1>4, <1>5 DEF Toll, c

LEMMA CostIsWeighed ==
  ASSUME WorldOK, condition \in Conditions, NEW N, NEW s
  PROVE  Weighed(Cost(s), N)
<1> SUFFICES ASSUME NEW e \in N \X N, e \in DOMAIN graph
             PROVE  Cost(s)[e] \in Nat /\ Cost(s)[e] > 0
  BY DEF Weighed, Cost
<1>1. Penalised[e] \in Nat /\ Penalised[e] > 0
  <2>1. e \in DOMAIN Penalised
    BY DEF Penalised
  <2>2. QED
    BY <2>1, PenalisedIsWeighed DEF Weighed
<1>2. e[2] \in Nodes
  BY RoutingAssumption DEF WorldOK
<1>3. Toll(e[2]) \in Nat
  BY <1>2, TollIsNatural
<1>4. Cost(s)[e] = Penalised[e] + Toll(e[2])
  BY DEF Cost
<1>5. QED
  BY <1>1, <1>3, <1>4

LEMMA OperationalIsFinite == IsFiniteSet(Operational) /\ Operational \subseteq Nodes
BY WeightsAssumption, FS_Subset DEF Operational

LEMMA SearchLeftIsNatural ==
  ASSUME WorldOK, NEW n \in Nodes, NEW t \in Nodes
  PROVE  SearchLeft(n, t) \in Nat
<1>0. Infinity \in Nat /\ graph \in Graphs
  BY RoutingAssumption DEF WorldOK
<1>1. ASSUME {n, t} \subseteq Operational PROVE Lengths(Penalised, Operational, n)[t] \in Nat
  BY <1>0, <1>1, OperationalIsFinite, PenalisedIsWeighed, SearchOfIsSearch
<1>2. ASSUME {n, t} \subseteq Operational, Into(graph, Operational, t) # {}
      PROVE  PodLeft(Penalised, graph, Operational, n, t) \in Nat
  BY <1>0, <1>2, OperationalIsFinite, PenalisedIsWeighed, GraphIsWeighed, PodLeftIsLeast
<1>3. QED
  BY <1>1, <1>2 DEF SearchLeft

LEMMA LeftIsTyped ==
  ASSUME EnginesInv, NEW t \in Nodes
  PROVE  Left(t) \in [Nodes -> Nat]
<1>0. Infinity \in Nat /\ WorldOK /\ condition \in Conditions /\ graph \in Graphs
  BY RoutingAssumption DEF EnginesInv, WorldOK
<1>1. \A n \in Nodes : SearchLeft(n, t) \in Nat
  BY <1>0, SearchLeftIsNatural
<1>2. ASSUME NEW n \in Nodes, t \notin Pods PROVE Lengths(graph, Transit(Nodes, n), n)[t] \in Nat
  <2>1. IsFiniteSet(Transit(Nodes, n)) /\ n \in Transit(Nodes, n) /\ t \in Transit(Nodes, n)
    BY <1>2, WeightsAssumption, FS_Subset DEF Transit
  <2>2. QED
    BY <1>0, <2>1, GraphIsWeighed, SearchOfIsSearch
<1>3. ASSUME NEW n \in Nodes PROVE ShortestLeft(n, t) \in Nat
  BY <1>0, <1>1, <1>2 DEF ShortestLeft
<1>4. ASSUME NEW n \in Nodes, {n, t} \subseteq Operational
      PROVE  Lengths(Cost(n), Operational, n)[t] \in Nat
  BY <1>0, <1>4, OperationalIsFinite, CostIsWeighed, SearchOfIsSearch
<1>5. \A n \in Nodes : Distance[graph][<<n, t>>] \in Nat
  BY <1>0, EnginesAssumption
<1>6. QED
  BY <1>3, <1>4, <1>5 DEF Left
-----------------------------------------------------------------------------
\* An answer the engine goes on with.
GoesOn(h, s, t) == h \in Nodes \ Pods /\ h # s /\ h # t /\ <<s, h>> \in DOMAIN graph

LEMMA GreedyDescends ==
  ASSUME EnginesInv, strategy = "geographic_greedy", NEW s \in Nodes, NEW t \in Nodes,
         NEW h \in Answers(s, t), GoesOn(h, s, t)
  PROVE  s \in Exempt(t) \/ Left(t)[h] < Left(t)[s]
<1>1. h # None
  BY RoutingAssumption DEF GoesOn
<1>2. h \in Greedy(s, t) /\ Candidates(s) # {}
  BY <1>1 DEF Answers
<1>3. CASE h \in Closer(s, t)
  <2>1. Distance[graph][<<h, t>>] < Distance[graph][<<s, t>>]
    BY <1>3 DEF Closer
  <2>2. QED
    BY <2>1 DEF Left, GoesOn
<1>4. CASE h \notin Closer(s, t)
  <2>1. Closer(s, t) = {}
    BY <1>2, <1>4 DEF Greedy, Nearest, GoesOn
  <2>2. graph \in Graphs
    BY DEF EnginesInv, WorldOK
  <2>3. \A n \in Nodes : Distance[graph][<<n, t>>] \in Nat
    BY <2>2, EnginesAssumption
  <2>4. IsMinimum(s, t)
    BY <2>1, <2>3 DEF IsMinimum, Closer, Candidates, Operational
  <2>5. QED
    BY <2>4 DEF Exempt
<1>5. QED
  BY <1>3, <1>4

LEMMA SearchDescends ==
  ASSUME EnginesInv, strategy \in SearchStrategies, NEW s \in Nodes, NEW t \in Nodes,
         NEW h \in Answers(s, t), GoesOn(h, s, t)
  PROVE  Left(t)[h] < Left(t)[s]
<1>0. Infinity \in Nat /\ WorldOK /\ condition \in Conditions
  BY RoutingAssumption DEF EnginesInv
<1>1. h # None /\ h # t
  BY RoutingAssumption DEF GoesOn
<1>2. strategy # "shortest_path" /\ strategy # "geographic_greedy"
  BY DEF SearchStrategies
<1>3. h \in Cheapest(s, t)
  BY <1>1, <1>2 DEF Answers
<1>4. {s, t} \subseteq Operational /\ h \in FirstHops(Cost(s), Operational, s, t)
  BY <1>1, <1>3 DEF Cheapest
<1>5. h \in Operational /\ Lengths(Cost(s), Operational, h)[t] < Lengths(Cost(s), Operational, s)[t]
  BY <1>0, <1>4, OperationalIsFinite, CostIsWeighed, FirstHopIsNearer DEF GoesOn
<1>6. Cost(h) = Cost(s)
  BY DEF Cost
<1>7. Lengths(Cost(h), Operational, h)[t] < Lengths(Cost(s), Operational, s)[t]
  BY <1>5, <1>6
<1>8. h \in Nodes /\ {h, t} \subseteq Operational
  BY <1>4, <1>5, OperationalIsFinite
<1>9. /\ Left(t)[h] = Lengths(Cost(h), Operational, h)[t]
      /\ Left(t)[s] = Lengths(Cost(s), Operational, s)[t]
  BY <1>2, <1>4, <1>8 DEF Left
<1>10. QED
  BY <1>7, <1>9

\* What the search answers is nearer to the searcher's end.
LEMMA SearchedIsNearer ==
  ASSUME WorldOK, NEW s \in Nodes \ Pods, NEW t \in Nodes, NEW h \in Searched(s, t), GoesOn(h, s, t)
  PROVE  SearchLeft(h, t) < SearchLeft(s, t)
<1>0. Infinity \in Nat /\ graph \in Graphs
  BY RoutingAssumption DEF WorldOK
<1>1. {s, t} \subseteq Operational
  BY DEF Searched, Operational
<1>2. CASE t \notin Pods
  <2>1. h \in FirstHops(Penalised, Operational, s, t)
    BY <1>1, <1>2 DEF Searched, Operational
  <2>2. /\ h \in Operational
        /\ Lengths(Penalised, Operational, h)[t] < Lengths(Penalised, Operational, s)[t]
    BY <1>0, <1>1, <2>1, OperationalIsFinite, PenalisedIsWeighed, FirstHopIsNearer DEF GoesOn
  <2>3. QED
    BY <1>1, <1>2, <2>2 DEF SearchLeft
<1>3. CASE t \in Pods
  <2>1. h \in HopsToPod(Penalised, graph, Operational, s, t)
    BY <1>1, <1>3 DEF Searched, Operational
  <2>2. /\ h \in Operational /\ Into(graph, Operational, t) # {}
        /\ PodLeft(Penalised, graph, Operational, h, t) < PodLeft(Penalised, graph, Operational, s, t)
    BY <1>0, <1>1, <1>3, <2>1, OperationalIsFinite, PenalisedIsWeighed, GraphIsWeighed,
       HopToPodIsNearer DEF GoesOn
  <2>3. QED
    BY <1>1, <1>3, <2>2 DEF SearchLeft
<1>4. QED
  BY <1>2, <1>3

\* A table that names a node which is not the end has an entry at that node too.
LEMMA EntryIsNearer ==
  ASSUME WorldOK, Current, NEW s \in Nodes \ Pods, NEW t \in Nodes \ Pods, s # t,
         NEW h \in nextHop[s][t], GoesOn(h, s, t)
  PROVE  /\ nextHop[h][t] # {}
         /\ Lengths(graph, Transit(Nodes, h), h)[t] < Lengths(graph, Transit(Nodes, s), s)[t]
<1> DEFINE T == Nodes \ Pods
<1>0. Infinity \in Nat /\ graph \in Graphs /\ IsFiniteSet(T) /\ Weighed(graph, T)
  BY RoutingAssumption, WeightsAssumption, FS_Subset, GraphIsWeighed DEF WorldOK
<1>1. h \in T /\ h # t /\ h # s
  BY DEF GoesOn
<1>2. Transit(Nodes, s) = T /\ Transit(Nodes, h) = T
  BY <1>1 DEF Transit
<1>3. nextHop[s][t] = FirstHops(graph, T, s, t) /\ nextHop[h][t] = FirstHops(graph, T, h, t)
  BY <1>0, <1>1, <1>2 DEF Current, Tables
<1> HIDE DEF T
<1>4. /\ Lengths(graph, T, h)[t] \in Nat /\ Lengths(graph, T, s)[t] \in Nat
      /\ Lengths(graph, T, h)[t] < Lengths(graph, T, s)[t]
      /\ Lengths(graph, T, s)[t] < Infinity
  <2>1. s \in T /\ t \in T
    BY DEF T
  <2>2. QED
    BY <1>0, <1>1, <1>3, <2>1, FirstHopIsNearer
<1>5. Lengths(graph, T, h)[t] < Infinity /\ t \in T
  BY <1>0, <1>4 DEF T
<1>6. FirstHops(graph, T, h, t) # {}
  BY <1>0, <1>1, <1>5, FirstHopHasFirstHop
<1>7. QED
  BY <1>2, <1>3, <1>4, <1>6

LEMMA ShortestDescends ==
  ASSUME EnginesInv, Current, Unmixed, strategy = "shortest_path",
         NEW s \in Nodes \ Pods, NEW t \in Nodes,
         NEW h \in Answers(s, t), GoesOn(h, s, t)
  PROVE  ShortestLeft(h, t) < ShortestLeft(s, t)
<1>0. Infinity \in Nat /\ WorldOK /\ graph \in Graphs /\ h \in Nodes \ Pods /\ h # None /\ h # s
  BY RoutingAssumption DEF EnginesInv, WorldOK, GoesOn
<1>1. h \in Select(s, t) /\ s # t
  BY <1>0 DEF Answers, Select
<1>2. SearchLeft(h, t) \in Nat /\ SearchLeft(s, t) \in Nat
  BY <1>0, SearchLeftIsNatural
<1>3. h \in SearchResults(s, t) => h \in Searched(s, t) /\ SearchLeft(h, t) < SearchLeft(s, t)
  BY <1>0, SearchedIsNearer DEF SearchResults
<1>4. CASE DOMAIN penalty # {}
  <2>1. h \in SearchResults(s, t)
    BY <1>1, <1>4 DEF Select
  <2>2. QED
    BY <1>0, <1>2, <1>3, <1>4, <2>1 DEF ShortestLeft
<1>5. CASE DOMAIN penalty = {}
  <2>1. faulted = {} /\ Penalised = graph /\ Operational = Nodes
    BY <1>0, <1>5, CalmIsUnpenalised DEF Unmixed, Operational
  <2>2. CASE t \notin Pods
    <3>1. \A n \in Nodes : nextHop[n][t] # {} =>
            ShortestLeft(n, t) = Lengths(graph, Transit(Nodes, n), n)[t]
      BY <1>5, <2>2 DEF ShortestLeft
    <3>2. CASE h \in nextHop[s][t]
      <4>1. /\ nextHop[h][t] # {} /\ nextHop[s][t] # {}
            /\ Lengths(graph, Transit(Nodes, h), h)[t] < Lengths(graph, Transit(Nodes, s), s)[t]
        BY <1>0, <1>1, <2>2, <3>2, EntryIsNearer
      <4>2. QED
        BY <1>0, <3>1, <4>1
    <3>3. CASE h \notin nextHop[s][t]
      <4>1. h \in SearchResults(s, t) /\ (nextHop[s][t] = {} \/ \E k \in nextHop[s][t] : Unusable(s, k))
        BY <1>0, <1>1, <1>5, <3>3 DEF Select
      <4>2. \A k \in nextHop[s][t] : ~ Unusable(s, k)
        <5> SUFFICES ASSUME NEW k \in nextHop[s][t] PROVE <<s, k>> \in DOMAIN graph /\ k \notin faulted
          BY DEF Unusable
        <5>1. nextHop[s][t] = FirstHops(graph, Transit(Nodes, s), s, t)
          BY <1>0, <1>1, <2>2 DEF Current, Tables
        <5>2. QED
          BY <2>1, <5>1, FirstHopIsEdge
      <4>3. nextHop[s][t] = {} /\ SearchLeft(h, t) < SearchLeft(s, t)
        BY <1>3, <4>1, <4>2
      <4>4. ShortestLeft(s, t) = Infinity + SearchLeft(s, t)
        BY <4>3 DEF ShortestLeft
      <4>5. CASE nextHop[h][t] = {}
        <5>1. ShortestLeft(h, t) = Infinity + SearchLeft(h, t)
          BY <4>5 DEF ShortestLeft
        <5>2. QED
          BY <1>0, <1>2, <4>3, <4>4, <5>1
      <4>6. CASE nextHop[h][t] # {}
        <5> DEFINE T == Nodes \ Pods
        <5>1. Transit(Nodes, h) = T
          BY <1>0 DEF Transit
        <5>2. nextHop[h][t] = FirstHops(graph, T, h, t)
          <6>1. h # t
            BY DEF GoesOn
          <6>2. QED
            BY <1>0, <2>2, <5>1, <6>1 DEF Current, Tables
        <5>3. Lengths(graph, T, h)[t] < Infinity
          <6>1. Lengths(graph, T, h)[t] \in Nat
            <7>1. IsFiniteSet(T) /\ Weighed(graph, T) /\ h \in T /\ t \in T
              BY <1>0, <2>2, WeightsAssumption, FS_Subset, GraphIsWeighed
            <7>2. QED
              BY <1>0, <7>1, SearchOfIsSearch
          <6>2. ~ (Lengths(graph, T, h)[t] >= Infinity)
            BY <4>6, <5>2 DEF FirstHops
          <6>3. QED
            BY <1>0, <6>1, <6>2
        <5>4. ShortestLeft(h, t) = Lengths(graph, T, h)[t]
          BY <1>0, <3>1, <4>6, <5>1
        <5>5. Lengths(graph, T, h)[t] \in Nat
          <6>1. IsFiniteSet(T) /\ Weighed(graph, T) /\ h \in T /\ t \in T
            BY <1>0, <2>2, WeightsAssumption, FS_Subset, GraphIsWeighed
          <6>2. QED
            BY <1>0, <6>1, SearchOfIsSearch
        <5> HIDE DEF T
        <5>6. SearchLeft(s, t) >= 0
          BY <1>2
        <5>7. QED
          BY <1>0, <1>2, <4>4, <5>3, <5>4, <5>5, <5>6
      <4>7. QED
        BY <4>5, <4>6
    <3>4. QED
      BY <3>2, <3>3
  <2>3. CASE t \in Pods
    <3>1. nextHop[s][t] = HopsToPod(graph, graph, Nodes, s, t)
      BY <1>0, <1>1, <2>3 DEF Current, Tables
    <3>2. Searched(s, t) = HopsToPod(graph, graph, Nodes, s, t)
      BY <2>1, <2>3 DEF Searched
    <3>3. h \in Searched(s, t)
      <4>1. h \in nextHop[s][t] \/ h \in SearchResults(s, t)
        BY <1>0, <1>1, <1>5 DEF Select
      <4>2. QED
        BY <1>3, <3>1, <3>2, <4>1
    <3>4. SearchLeft(h, t) < SearchLeft(s, t)
      BY <1>0, <3>3, SearchedIsNearer
    <3>5. /\ ShortestLeft(h, t) = Infinity + SearchLeft(h, t)
          /\ ShortestLeft(s, t) = Infinity + SearchLeft(s, t)
      BY <2>3 DEF ShortestLeft
    <3>6. QED
      BY <1>0, <1>2, <3>4, <3>5
  <2>4. QED
    BY <2>2, <2>3
<1>6. QED
  BY <1>4, <1>5

\* Whatever the strategy, what the engine goes on with is a step down.
LEMMA AnswersDescend ==
  ASSUME EnginesInv, Current, Unmixed, NEW s \in Nodes, NEW t \in Nodes,
         NEW h \in Answers(s, t), GoesOn(h, s, t)
  PROVE  s \in Exempt(t) \/ Left(t)[h] < Left(t)[s]
<1>0. strategy \in AllStrategies /\ h \in Nodes
  BY EnginesAssumption DEF EnginesInv, GoesOn
<1>1. CASE strategy = "geographic_greedy"
  BY <1>1, GreedyDescends
<1>2. CASE strategy \in SearchStrategies
  BY <1>2, SearchDescends
<1>3. CASE strategy = "shortest_path"
  <2>1. CASE s \in Pods
    BY <1>3, <2>1 DEF Exempt
  <2>2. CASE s \notin Pods
    <3>1. ShortestLeft(h, t) < ShortestLeft(s, t)
      BY <1>3, <2>2, ShortestDescends
    <3>2. QED
      BY <1>0, <1>3, <3>1 DEF Left
  <2>3. QED
    BY <2>1, <2>2
<1>4. QED
  BY <1>0, <1>1, <1>2, <1>3 DEF AllStrategies, SearchStrategies
-----------------------------------------------------------------------------
(* The invariant, and what follows. *)

\* The trail, and the node the packet is on its way to.
Ahead == IF outcome = "flying" /\ to # dst THEN Append(trail, to) ELSE trail

WaysInv ==
  /\ EnginesInv
  /\ Current
  /\ trail # <<>> => dst \in Nodes
  /\ outcome = "flying" => to \notin Pods \ {dst}
  /\ Unmixed => \A t \in Nodes : dst = t => Descends(Left(t), Exempt(t), Ahead)

\* A step of the packet changes nothing the measure depends on.
LEMMA LeftStays ==
  ASSUME UNCHANGED worldVars, UNCHANGED engineVars, NEW t
  PROVE  /\ Left(t)' = Left(t)
         /\ Exempt(t)' = Exempt(t)
         /\ Unmixed' = Unmixed
         /\ Current' = Current
<1>0. graph' = graph /\ nextHop' = nextHop /\ penalty' = penalty /\ faulted' = faulted
      /\ strategy' = strategy /\ condition' = condition
  BY DEF worldVars, engineVars
<1>1. Penalised' = Penalised
  BY <1>0 DEF Penalised
<1>2. Operational' = Operational
  BY <1>0 DEF Operational
<1>3. ASSUME NEW n PROVE Cost(n)' = Cost(n)
  BY <1>0, <1>1 DEF Cost, Toll
<1>4. ASSUME NEW n PROVE SearchLeft(n, t)' = SearchLeft(n, t)
  BY <1>0, <1>1, <1>2 DEF SearchLeft
<1>5. ASSUME NEW n PROVE ShortestLeft(n, t)' = ShortestLeft(n, t)
  BY <1>0, <1>4 DEF ShortestLeft
<1>6. Left(t)' = Left(t)
  BY <1>0, <1>2, <1>3, <1>5 DEF Left
<1>7. Exempt(t)' = Exempt(t)
  BY <1>0, <1>2 DEF Exempt, IsMinimum
<1>8. Unmixed' = Unmixed /\ Current' = Current
  BY <1>0 DEF Unmixed, Current
<1>9. QED
  BY <1>6, <1>7, <1>8

LEMMA RouteDescends ==
  ASSUME EnginesInv, Current, NEW s \in Nodes, NEW t \in Nodes, NEW q \in Seq(Nodes),
         q # <<>>, q[Len(q)] = s,
         Unmixed => Descends(Left(t), Exempt(t), q),
         Route(Answers(s, t), s, t), trail' = q, UNCHANGED worldVars, UNCHANGED engineVars,
         EnginesInv'
  PROVE  WaysInv'
<1>1. dst' = t /\ trail' = q /\ Current'
  BY LeftStays DEF Route
<1>2. PICK h \in Answers(s, t) :
        /\ to' = h
        /\ outcome' = IF h \in {None, s} \/ <<s, h>> \notin DOMAIN graph THEN "no_route"
                      ELSE IF h \in Pods \ {t} THEN "pod_not_transit"
                      ELSE "flying"
  BY DEF Route
<1>3. outcome' = "flying" => h \notin Pods \ {t} /\ h # s /\ <<s, h>> \in DOMAIN graph /\ h # None
  BY <1>2
<1>4. h # None => h \in Nodes
  <2>1. graph \in Graphs
    BY DEF EnginesInv, WorldOK
  <2>2. QED
    BY <2>1, AnswersAreUsable DEF Usable
<1>5. ASSUME Unmixed' PROVE Descends(Left(t)', Exempt(t)', Ahead')
  <2>1. Unmixed /\ Descends(Left(t), Exempt(t), q)
    BY <1>5, LeftStays
  <2>2. CASE outcome' = "flying" /\ h # t
    <3>1. GoesOn(h, s, t)
      BY <1>3, <1>4, <2>2 DEF GoesOn
    <3>2. s \in Exempt(t) \/ Left(t)[h] < Left(t)[s]
      BY <2>1, <3>1, AnswersDescend
    <3>3. Left(t) \in [Nodes -> Nat]
      BY LeftIsTyped
    <3>4. Descends(Left(t), Exempt(t), Append(q, h))
      <4>1. h \in Nodes /\ h \notin Pods
        BY <3>1 DEF GoesOn
      <4>2. QED
        BY <2>1, <3>2, <3>3, <4>1, DescentGoesOn
    <3>5. Ahead' = Append(q, h)
      BY <1>1, <1>2, <2>2 DEF Ahead
    <3>6. QED
      BY <3>4, <3>5, LeftStays
  <2>3. CASE ~ (outcome' = "flying" /\ h # t)
    <3>1. Ahead' = q
      BY <1>1, <1>2, <2>3 DEF Ahead
    <3>2. QED
      BY <2>1, <3>1, LeftStays
  <2>4. QED
    BY <2>2, <2>3
<1>6. (Unmixed => \A x \in Nodes : dst = x => Descends(Left(x), Exempt(x), Ahead))'
  BY <1>1, <1>5
<1>7. QED
  BY <1>1, <1>2, <1>3, <1>6 DEF WaysInv

LEMMA InitWays == InitEngines => WaysInv
<1> SUFFICES ASSUME InitEngines PROVE WaysInv
  OBVIOUS
<1>1. trail = <<>> /\ outcome = "unsent" /\ dst = None /\ Current
  BY DEF InitEngines, Init, Current
<1>2. dst \notin Nodes
  BY <1>1, RoutingAssumption
<1>3. QED
  BY <1>1, <1>2, InitIsTyped DEF WaysInv

LEMMA SendKeepsWays ==
  ASSUME WaysInv, NEW s \in Nodes, NEW t \in Nodes, SendPacket(s, t)
  PROVE  WaysInv'
<1>1. SendOn(Answers(s, t), s, t) /\ UNCHANGED engineVars /\ UNCHANGED worldVars
  BY DEF SendPacket, SendOn
<1>2. EnginesInv /\ Current /\ EnginesInv' /\ Current'
  BY <1>1, SendIsTyped, LeftStays DEF WaysInv
<1>3. CASE Route(Answers(s, t), s, t) /\ trail' = <<s>>
  <2>1. <<s>> \in Seq(Nodes) /\ <<s>> # <<>> /\ <<s>>[Len(<<s>>)] = s
    OBVIOUS
  <2>2. Descends(Left(t), Exempt(t), <<s>>)
    BY ShortDescends
  <2>3. QED
    BY <1>1, <1>2, <1>3, <2>1, <2>2, RouteDescends
<1>4. CASE outcome' = "source_unavailable" /\ trail' = <<>>
  <2>1. Ahead' = <<>> /\ trail' = <<>> /\ outcome' # "flying"
    BY <1>4 DEF Ahead
  <2>2. ASSUME NEW x PROVE Descends(Left(x)', Exempt(x)', Ahead')
    BY <2>1, ShortDescends
  <2>3. QED
    BY <1>2, <2>1, <2>2 DEF WaysInv
<1>5. QED
  BY <1>1, <1>3, <1>4 DEF SendOn

LEMMA ForwardKeepsWays ==
  ASSUME WaysInv, ForwardPacket
  PROVE  WaysInv'
<1>1. ArriveOn(Answers(to, dst)) /\ UNCHANGED engineVars /\ UNCHANGED worldVars
  BY DEF ForwardPacket, ArriveOn
<1>2. EnginesInv /\ Current /\ EnginesInv' /\ Current'
  BY <1>1, ForwardIsTyped, LeftStays DEF WaysInv
<1>3. PICK s \in Nodes, t \in Nodes : s = to /\ t = dst
  BY <1>1 DEF ArriveOn, WaysInv, EnginesInv, PacketOK
<1>4. outcome = "flying" /\ trail \in Seq(Nodes)
  BY <1>1 DEF ArriveOn, WaysInv, EnginesInv, PacketOK
<1>5. CASE to # dst /\ Route(Answers(to, dst), to, dst) /\ trail' = Append(trail, to)
  <2>1. PICK q : q = Append(trail, s)
    OBVIOUS
  <2>2. q \in Seq(Nodes) /\ q # <<>> /\ q[Len(q)] = s
    BY <1>4, <2>1
  <2>3. Route(Answers(s, t), s, t) /\ trail' = q
    BY <1>3, <1>5, <2>1
  <2>4. Unmixed => Descends(Left(t), Exempt(t), q)
    <3>1. Ahead = q
      BY <1>3, <1>4, <1>5, <2>1 DEF Ahead
    <3>2. QED
      BY <1>3, <3>1 DEF WaysInv
  <2>5. QED
    BY <1>1, <1>2, <2>2, <2>3, <2>4, RouteDescends
<1>6. ASSUME NEW result, End(result), result # "flying", UNCHANGED trail
      PROVE  WaysInv'
  <2>1. outcome' # "flying" /\ dst' = dst /\ trail' = trail
    BY <1>6 DEF End
  <2>2. ASSUME Unmixed' PROVE Descends(Left(t)', Exempt(t)', Ahead')
    <3>1. Descends(Left(t), Exempt(t), Ahead)
      BY <1>1, <1>3, <2>2, LeftStays DEF WaysInv
    <3>2. Descends(Left(t), Exempt(t), trail)
      BY <1>3, <1>4, <3>1, DescentBegins DEF Ahead
    <3>3. Ahead' = trail
      BY <2>1 DEF Ahead
    <3>4. QED
      BY <1>1, <3>2, <3>3, LeftStays
  <2>3. dst' = t /\ dst' \in Nodes
    BY <1>3, <2>1
  <2>4. (Unmixed => \A x \in Nodes : dst = x => Descends(Left(x), Exempt(x), Ahead))'
    BY <2>2, <2>3
  <2>5. QED
    BY <1>2, <2>1, <2>3, <2>4 DEF WaysInv
<1>7. QED
  BY <1>1, <1>5, <1>6 DEF ArriveOn

LEMMA StepKeepsWays == WaysInv /\ [NextEngines]_allVars => WaysInv'
<1> SUFFICES ASSUME WaysInv, [NextEngines]_allVars PROVE WaysInv'
  OBVIOUS
<1>1. EnginesInv /\ EnginesInv'
  BY StepIsTyped DEF WaysInv
<1>2. ASSUME NEW s \in Sources, NEW t \in Destinations, SendPacket(s, t)
      PROVE  WaysInv'
  BY <1>2, SendKeepsWays, RoutingAssumption
<1>3. CASE ForwardPacket
  BY <1>3, ForwardKeepsWays
<1>4. ASSUME trail' = <<>>, Current', UNCHANGED <<outcome, to, dst>>
      PROVE  WaysInv'
  <2>1. Ahead' = <<>> \/ Ahead' = <<to'>>
    BY <1>4 DEF Ahead
  <2>2. ASSUME NEW x PROVE Descends(Left(x)', Exempt(x)', Ahead')
    BY <2>1, ShortDescends
  <2>3. QED
    BY <1>1, <1>4, <2>2 DEF WaysInv
<1>5. CASE ReplaceTopology
  BY <1>4, <1>5 DEF ReplaceTopology, TopologyUpdate, Current
<1>6. CASE TickPhysics
  BY <1>4, <1>6 DEF TickPhysics, PhysicsTick, Current, WaysInv
<1>7. CASE Traffic
  <2>1. trail' = <<>> /\ UNCHANGED <<outcome, to, dst>> /\ UNCHANGED worldVars
    BY <1>7, Zenon DEF Traffic
  <2>2. QED
    BY <1>4, <2>1 DEF Current, WaysInv, worldVars
<1>8. CASE UNCHANGED allVars
  <2>1. UNCHANGED worldVars /\ UNCHANGED engineVars /\ UNCHANGED packetVars
    BY <1>8 DEF allVars, vars
  <2>2. UNCHANGED <<outcome, to, dst, trail>> /\ Ahead' = Ahead
    BY <2>1 DEF packetVars, Ahead
  <2>3. ASSUME NEW x \in Nodes, Unmixed', dst' = x PROVE Descends(Left(x)', Exempt(x)', Ahead')
    BY <2>1, <2>2, <2>3, LeftStays DEF WaysInv
  <2>4. Current'
    BY <2>1, LeftStays DEF WaysInv
  <2>5. QED
    BY <1>1, <2>2, <2>3, <2>4 DEF WaysInv
<1>9. QED
  BY <1>2, <1>3, <1>5, <1>6, <1>7, <1>8 DEF NextEngines

LEMMA WaysAreSimple ==
  ASSUME WaysInv, Unmixed, ~ IsInjective(trail)
  PROVE  \E k \in 1 .. Len(trail) - 1 : trail[k] \in Exempt(dst) \ Pods
<1>1. trail # <<>>
  BY DEF IsInjective
<1>2. PICK t \in Nodes : t = dst
  BY <1>1 DEF WaysInv
<1>3. Descends(Left(t), Exempt(t), Ahead) /\ trail \in Seq(Nodes)
  BY <1>2 DEF WaysInv, EnginesInv, PacketOK
<1>4. Descends(Left(t), Exempt(t), trail)
  <2>1. CASE outcome = "flying" /\ to # dst
    <3>1. to \in Nodes
      BY <2>1 DEF WaysInv, EnginesInv, PacketOK
    <3>2. QED
      BY <1>3, <2>1, <3>1, DescentBegins DEF Ahead
  <2>2. CASE ~ (outcome = "flying" /\ to # dst)
    BY <1>3, <2>2 DEF Ahead
  <2>3. QED
    BY <2>1, <2>2
<1>5. Left(t) \in [Nodes -> Nat]
  BY LeftIsTyped DEF WaysInv
<1>6. \E k \in 1 .. Len(trail) - 1 : trail[k] \in Exempt(t) \ Pods
  BY <1>3, <1>4, <1>5, DescentIsSimple
<1>7. QED
  BY <1>2, <1>6

\* A route of the strategies that search afresh at each hop comes back to no
\* node while the world stands still, whatever the graph, the penalties, the
\* faults and the states of the nodes.
THEOREM SearchedRoutesComeNotBack == SpecEngines => []SearchedRoutesAreSimple
<1>1. WaysInv => SearchedRoutesAreSimple
  <2> SUFFICES ASSUME WaysInv, strategy \in SearchStrategies, ~ IsInjective(trail) PROVE FALSE
    BY DEF SearchedRoutesAreSimple
  <2>1. Unmixed /\ Exempt(dst) = Pods
    BY DEF Unmixed, Exempt, SearchStrategies
  <2>2. QED
    BY <2>1, WaysAreSimple
<1>2. QED
  BY <1>1, InitWays, StepKeepsWays, PTL DEF SpecEngines

\* Nor does a route of the shortest path, as long as the tables take all its
\* decisions or the search does.
THEOREM TableRoutesComeNotBack == SpecEngines => []TableRoutesDoNotMix
<1>1. WaysInv => TableRoutesDoNotMix
  <2> SUFFICES ASSUME WaysInv, strategy = "shortest_path", faulted = {} \/ DOMAIN penalty # {},
                      ~ IsInjective(trail)
               PROVE  FALSE
    BY DEF TableRoutesDoNotMix, RoutesDoNotMix
  <2>1. Unmixed /\ Exempt(dst) = Pods
    BY DEF Unmixed, Exempt
  <2>2. QED
    BY <2>1, WaysAreSimple
<1>2. QED
  BY <1>1, InitWays, StepKeepsWays, PTL DEF SpecEngines

\* A route of the greedy strategy that comes back to a node has met a local
\* minimum on the way: greed alone never loops.
THEOREM GreedyComesBackByMinima == SpecEngines => []GreedyLoopsOnlyAtMinima
<1>1. WaysInv => GreedyLoopsOnlyAtMinima
  <2> SUFFICES ASSUME WaysInv, strategy = "geographic_greedy", ~ IsInjective(trail)
               PROVE  \E i \in 1 .. Len(trail) - 1 : IsMinimum(trail[i], dst)
    BY DEF GreedyLoopsOnlyAtMinima
  <2>1. Unmixed
    BY DEF Unmixed
  <2>2. PICK k \in 1 .. Len(trail) - 1 : trail[k] \in Exempt(dst)
    BY <2>1, WaysAreSimple
  <2>3. IsMinimum(trail[k], dst)
    BY <2>2 DEF Exempt
  <2>4. QED
    BY <2>3
<1>2. QED
  BY <1>1, InitWays, StepKeepsWays, PTL DEF SpecEngines
-----------------------------------------------------------------------------
(* The simple paths to t, walked one by one. *)

\* Where a walk to t by the nodes of V may go from n.
Open(w, t, n, V) == {m \in V : <<n, m>> \in DOMAIN w /\ (m = t \/ m \notin Pods)}

Row(w, t, f, V) ==
  [n \in Nodes |->
     IF n = t THEN 0
     ELSE Min({Infinity} \cup {w[<<n, m>>] + f[V \ {m}][m] : m \in Open(w, t, n, V)})]

\* f[V][n] is the least weight of a walk to t from n, by nodes of V.
IsWalk(w, t, f) ==
  /\ f \in [SUBSET Nodes -> [Nodes -> Nat]]
  /\ \A V \in SUBSET Nodes : f[V] = Row(w, t, f, V)

\* The least of the walks from n, of which r is the weight.
IsLightest(w, t, f, V, n, r) ==
  /\ r \in Nat
  /\ n = t => r = 0
  /\ n # t => /\ r <= Infinity
              /\ \A m \in Open(w, t, n, V) : r <= w[<<n, m>>] + f[V \ {m}][m]
              /\ \/ r = Infinity
                 \/ \E m \in Open(w, t, n, V) : r = w[<<n, m>>] + f[V \ {m}][m]

LEMMA RowIsLightest ==
  ASSUME NEW w, Weighed(w, Nodes), Infinity \in Nat, NEW t,
         NEW f \in [SUBSET Nodes -> [Nodes -> Nat]], NEW V \in SUBSET Nodes
  PROVE  /\ Row(w, t, f, V) \in [Nodes -> Nat]
         /\ \A n \in Nodes : IsLightest(w, t, f, V, n, Row(w, t, f, V)[n])
<1>1. ASSUME NEW n \in Nodes
      PROVE  IsLightest(w, t, f, V, n, Row(w, t, f, V)[n])
  <2> DEFINE S == {Infinity} \cup {w[<<n, m>>] + f[V \ {m}][m] : m \in Open(w, t, n, V)}
             r == Row(w, t, f, V)[n]
  <2>1. r = IF n = t THEN 0 ELSE Min(S)
    BY DEF Row
  <2>2. ASSUME NEW m \in Open(w, t, n, V)
        PROVE  w[<<n, m>>] + f[V \ {m}][m] \in Nat
    <3>1. m \in Nodes /\ <<n, m>> \in DOMAIN w /\ <<n, m>> \in Nodes \X Nodes
      BY DEF Open
    <3>2. w[<<n, m>>] \in Nat
      BY <3>1 DEF Weighed
    <3>3. V \ {m} \in SUBSET Nodes
      OBVIOUS
    <3>4. f[V \ {m}] \in [Nodes -> Nat]
      BY <3>3
    <3>5. f[V \ {m}][m] \in Nat
      BY <3>1, <3>4
    <3>6. QED
      BY <3>2, <3>5
  <2>3. S \subseteq Nat /\ S # {}
    BY <2>2
  <2>4. Infinity \in S /\ \A m \in Open(w, t, n, V) : w[<<n, m>>] + f[V \ {m}][m] \in S
    OBVIOUS
  <2>5. \A x \in S : x = Infinity \/ \E m \in Open(w, t, n, V) : x = w[<<n, m>>] + f[V \ {m}][m]
    OBVIOUS
  <2> HIDE DEF S, r
  <2>6. Min(S) \in S /\ \A y \in S : Min(S) <= y
    BY <2>3, MinIsLeast
  <2>7. CASE n = t
    <3>1. r = 0
      BY <2>1, <2>7
    <3>2. QED
      BY <2>7, <3>1 DEF IsLightest, r
  <2>8. CASE n # t
    <3>1. r \in S /\ \A y \in S : r <= y
      BY <2>1, <2>6, <2>8
    <3>2. r \in Nat /\ r <= Infinity
      BY <2>3, <2>4, <3>1
    <3>3. \A m \in Open(w, t, n, V) : r <= w[<<n, m>>] + f[V \ {m}][m]
      BY <2>4, <3>1
    <3>4. r = Infinity \/ \E m \in Open(w, t, n, V) : r = w[<<n, m>>] + f[V \ {m}][m]
      BY <2>5, <3>1
    <3>5. IsLightest(w, t, f, V, n, r)
      BY <2>8, <3>2, <3>3, <3>4 DEF IsLightest
    <3>6. QED
      BY <3>5 DEF r
  <2>9. QED
    BY <2>7, <2>8
<1>2. \A n \in Nodes : Row(w, t, f, V)[n] \in Nat
  BY <1>1 DEF IsLightest
<1>3. Row(w, t, f, V) = [n \in Nodes |-> Row(w, t, f, V)[n]]
  BY DEF Row
<1>4. Row(w, t, f, V) \in [Nodes -> Nat]
  BY <1>2, <1>3
<1>5. QED
  BY <1>1, <1>4

LEMMA RowsAgree ==
  ASSUME NEW w, NEW t, NEW f, NEW g, NEW V,
         \A m \in V : f[V \ {m}] = g[V \ {m}]
  PROVE  Row(w, t, f, V) = Row(w, t, g, V)
<1> SUFFICES ASSUME NEW n \in Nodes
             PROVE  {w[<<n, m>>] + f[V \ {m}][m] : m \in Open(w, t, n, V)}
                      = {w[<<n, m>>] + g[V \ {m}][m] : m \in Open(w, t, n, V)}
  BY DEF Row
<1>1. \A m \in Open(w, t, n, V) : f[V \ {m}][m] = g[V \ {m}][m]
  BY DEF Open
<1>2. QED
  BY <1>1

\* The walks are well defined: each goes on by fewer nodes.
LEMMA WalkExists ==
  ASSUME NEW w, Weighed(w, Nodes), IsFiniteSet(Nodes), Infinity \in Nat, NEW t
  PROVE  \E f : IsWalk(w, t, f)
<1> DEFINE D == [SUBSET Nodes -> [Nodes -> Nat]]
           zero == [V \in SUBSET Nodes |-> [n \in Nodes |-> 0]]
           next(f) == [V \in SUBSET Nodes |-> Row(w, t, f, V)]
           on == [i \in Nat |-> [f \in D |-> next(f)]]
<1>1. zero \in D
  OBVIOUS
<1>2. \A f \in D : next(f) \in D
  BY RowIsLightest
<1>3. on \in [Nat -> [D -> D]]
  <2> HIDE DEF next, D
  <2>1. QED
    BY <1>2
<1>4. \A i \in Nat, f \in D : on[i][f] = next(f)
  OBVIOUS
<1> HIDE DEF zero, on, D
<1>5. PICK F : Follows(D, zero, on, F)
  BY <1>1, <1>3, RecursionHolds
<1>6. \A i \in Nat : F[i] \in D /\ F[i + 1] = next(F[i])
  <2> HIDE DEF next
  <2>1. QED
    BY <1>4, <1>5 DEF Follows
<1> DEFINE S == {k \in Nat : \A V \in SUBSET Nodes : Cardinality(V) < k => F[k][V] = F[k + 1][V]}
<1>7. \A V \in SUBSET Nodes : Cardinality(V) \in Nat /\ \A m \in V : Cardinality(V \ {m}) = Cardinality(V) - 1
  <2> SUFFICES ASSUME NEW V \in SUBSET Nodes
               PROVE  Cardinality(V) \in Nat /\ \A m \in V : Cardinality(V \ {m}) = Cardinality(V) - 1
    OBVIOUS
  <2>1. IsFiniteSet(V)
    BY FS_Subset
  <2>2. QED
    BY <2>1, FS_CardinalityType, FS_RemoveElement
<1>8. 0 \in S
  <2>1. \A V \in SUBSET Nodes : ~ (Cardinality(V) < 0)
    BY <1>7
  <2>2. QED
    BY <2>1
<1>9. ASSUME NEW k \in Nat, k \in S
      PROVE  k + 1 \in S
  <2> SUFFICES ASSUME NEW V \in SUBSET Nodes, Cardinality(V) < k + 1
               PROVE  F[k + 1][V] = F[(k + 1) + 1][V]
    OBVIOUS
  <2>1. ASSUME NEW m \in V
        PROVE  F[k][V \ {m}] = F[k + 1][V \ {m}]
    <3>1. V \ {m} \in SUBSET Nodes /\ Cardinality(V \ {m}) < k
      BY <1>7
    <3>2. QED
      BY <1>9, <3>1
  <2>0. PICK f, g : f = F[k] /\ g = F[k + 1]
    OBVIOUS
  <2>2. Row(w, t, f, V) = Row(w, t, g, V)
    BY <2>0, <2>1, RowsAgree
  <2>3. F[k + 1][V] = Row(w, t, f, V)
    BY <1>6, <2>0
  <2>4. F[(k + 1) + 1][V] = Row(w, t, g, V)
    <3>1. k + 1 \in Nat
      OBVIOUS
    <3>2. F[(k + 1) + 1] = next(F[k + 1])
      <4> HIDE DEF next
      <4>1. QED
        BY <1>6, <3>1
    <3>3. QED
      BY <2>0, <3>2
  <2>5. QED
    BY <2>2, <2>3, <2>4
<1>10. \A k \in Nat : k \in S
  <2> HIDE DEF S
  <2>1. QED
    BY <1>8, <1>9, ByInduction
<1>11. PICK k \in Nat : k = Cardinality(Nodes) + 1
  BY FS_CardinalityType
<1>12. ASSUME NEW V \in SUBSET Nodes
       PROVE  F[k][V] = Row(w, t, F[k], V)
  <2>1. Cardinality(V) < k
    BY <1>7, <1>11, FS_Subset
  <2>2. F[k][V] = F[k + 1][V]
    BY <1>10, <2>1
  <2>3. F[k + 1][V] = Row(w, t, F[k], V)
    BY <1>6
  <2>4. QED
    BY <2>2, <2>3
<1>13. F[k] \in [SUBSET Nodes -> [Nodes -> Nat]]
  BY <1>6 DEF D
<1>14. IsWalk(w, t, F[k])
  BY <1>12, <1>13 DEF IsWalk
<1>15. QED
  BY <1>14

\* The property reads off f.
IsReadOff(w, t, f) ==
  IsWalk(w, t, f) /\ \A n \in Nodes : Shortest(w, t)[n] = f[Operational \ {n}][n]

LEMMA ShortestIsWalked ==
  ASSUME NEW w, Weighed(w, Nodes), IsFiniteSet(Nodes), Infinity \in Nat, NEW t
  PROVE  \E f : IsReadOff(w, t, f)
<1> DEFINE Def(g) == [V \in SUBSET Nodes |->
        [n \in Nodes |->
           IF n = t THEN 0
           ELSE Min({Infinity} \cup
                    {w[<<n, m>>] + g[V \ {m}][m] :
                       m \in {k \in V : /\ <<n, k>> \in DOMAIN w
                                        /\ k = t \/ k \notin Pods}})]]
           W == CHOOSE g : g = Def(g)
<1>1. Shortest(w, t) = [n \in Nodes |-> W[Operational \ {n}][n]]
  BY DEF Shortest
<1>2. \A g : Def(g) = [V \in SUBSET Nodes |-> Row(w, t, g, V)]
  BY DEF Row, Open
<1> HIDE DEF Def
<1>3. \E f : f = Def(f)
  <2>1. PICK f : IsWalk(w, t, f)
    BY WalkExists
  <2>2. f = [V \in SUBSET Nodes |-> f[V]]
    BY <2>1 DEF IsWalk
  <2>3. f = [V \in SUBSET Nodes |-> Row(w, t, f, V)]
    BY <2>1, <2>2 DEF IsWalk
  <2>4. QED
    BY <1>2, <2>3
<1>4. W = Def(W)
  BY <1>3, Zenon
<1> HIDE DEF W
<1>5. W = [V \in SUBSET Nodes |-> Row(w, t, W, V)]
  BY <1>2, <1>4
<1>6. \A V \in SUBSET Nodes : W[V] = Row(w, t, W, V)
  BY <1>5
<1>7. W \in [SUBSET Nodes -> [Nodes -> Nat]]
  <2>0. PICK g : IsWalk(w, t, g)
    BY WalkExists
  <2> DEFINE S == {k \in Nat : \A V \in SUBSET Nodes : Cardinality(V) < k => W[V] = g[V]}
  <2>1. \A V \in SUBSET Nodes : /\ Cardinality(V) \in Nat
                                /\ \A m \in V : Cardinality(V \ {m}) = Cardinality(V) - 1
    BY FS_Subset, FS_CardinalityType, FS_RemoveElement
  <2>2. 0 \in S
    <3>1. \A V \in SUBSET Nodes : ~ (Cardinality(V) < 0)
      BY <2>1
    <3>2. QED
      BY <3>1
  <2>3. ASSUME NEW k \in Nat, k \in S
        PROVE  k + 1 \in S
    <3> SUFFICES ASSUME NEW V \in SUBSET Nodes, Cardinality(V) < k + 1
                 PROVE  W[V] = g[V]
      OBVIOUS
    <3>1. ASSUME NEW m \in V PROVE W[V \ {m}] = g[V \ {m}]
      <4>1. V \ {m} \in SUBSET Nodes /\ Cardinality(V \ {m}) < k
        BY <2>1
      <4>2. QED
        BY <2>3, <4>1
    <3>2. Row(w, t, W, V) = Row(w, t, g, V)
      BY <3>1, RowsAgree, Zenon
    <3>3. QED
      BY <1>6, <2>0, <3>2 DEF IsWalk
  <2>4. \A k \in Nat : k \in S
    <3> HIDE DEF S
    <3>1. QED
      BY <2>2, <2>3, ByInduction
  <2>5. ASSUME NEW V \in SUBSET Nodes PROVE W[V] \in [Nodes -> Nat]
    <3>1. Cardinality(V) + 1 \in S /\ Cardinality(V) < Cardinality(V) + 1
      BY <2>1, <2>4
    <3>2. W[V] = g[V]
      BY <3>1
    <3>3. QED
      BY <2>0, <3>2 DEF IsWalk
  <2>6. QED
    BY <1>5, <2>5
<1>8. IsWalk(w, t, W)
  BY <1>6, <1>7 DEF IsWalk
<1>9. IsReadOff(w, t, W)
  BY <1>1, <1>8 DEF IsReadOff
<1>10. QED
  BY <1>9
-----------------------------------------------------------------------------
(* Lengths and walks *)

LEMMA WalkIsLightest ==
  ASSUME NEW w, Weighed(w, Nodes), Infinity \in Nat, NEW t, NEW f, IsWalk(w, t, f),
         NEW V \in SUBSET Nodes, NEW n \in Nodes
  PROVE  IsLightest(w, t, f, V, n, f[V][n])
<1>1. f \in [SUBSET Nodes -> [Nodes -> Nat]] /\ f[V] = Row(w, t, f, V)
  BY DEF IsWalk
<1>2. IsLightest(w, t, f, V, n, Row(w, t, f, V)[n])
  BY <1>1, RowIsLightest
<1>3. QED
  BY <1>1, <1>2

LEMMA OneLess ==
  ASSUME IsFiniteSet(Nodes), NEW V \in SUBSET Nodes
  PROVE  /\ Cardinality(V) \in Nat
         /\ \A m \in V : V \ {m} \in SUBSET V /\ Cardinality(V \ {m}) = Cardinality(V) - 1
BY FS_Subset, FS_CardinalityType, FS_RemoveElement

\* What is left to t, from s and the nodes a packet from s may pass: no edge
\* shortens it by more than its weight, and one by as much.
IsPotential(w, t, s, M, D) ==
  /\ M \subseteq Operational /\ s \in M /\ t \in M
  /\ Operational \ Pods \subseteq M
  /\ M \cap Pods \subseteq {s, t}
  /\ D \in [M -> Nat] /\ D[t] = 0
  /\ \A n \in M : D[n] <= Infinity
  /\ \A n, m \in M : n # t /\ <<n, m>> \in DOMAIN w => D[n] <= w[<<n, m>>] + D[m]
  /\ \A n \in M : n # t /\ D[n] < Infinity =>
       \E m \in M : <<n, m>> \in DOMAIN w /\ D[n] = w[<<n, m>>] + D[m]

LEMMA WalksAreNoLess ==
  ASSUME IsFiniteSet(Nodes), NEW w, Weighed(w, Nodes), Infinity \in Nat, NEW t, NEW f, IsWalk(w, t, f),
         NEW s, NEW M, NEW D, IsPotential(w, t, s, M, D)
  PROVE  \A V \in SUBSET Operational, n \in M : D[n] <= f[V][n]
<1> DEFINE S == {k \in Nat : \A V \in SUBSET Operational, n \in M : Cardinality(V) < k => D[n] <= f[V][n]}
<1>0. Operational \subseteq Nodes /\ M \subseteq Operational
  BY DEF Operational, IsPotential
<1>1. 0 \in S
  <2>1. \A V \in SUBSET Operational : ~ (Cardinality(V) < 0)
    BY <1>0, OneLess
  <2>2. QED
    BY <2>1
<1>2. ASSUME NEW k \in Nat, k \in S
      PROVE  k + 1 \in S
  <2> SUFFICES ASSUME NEW V \in SUBSET Operational, NEW n \in M, Cardinality(V) < k + 1
               PROVE  D[n] <= f[V][n]
    OBVIOUS
  <2>0. V \in SUBSET Nodes /\ n \in Nodes
    BY <1>0
  <2>1. IsLightest(w, t, f, V, n, f[V][n])
    BY <2>0, WalkIsLightest
  <2>2. D[n] \in Nat /\ D[n] <= Infinity
    BY DEF IsPotential
  <2>3. CASE n = t
    BY <2>1, <2>3 DEF IsLightest, IsPotential
  <2>4. CASE f[V][n] = Infinity
    BY <2>2, <2>4
  <2>5. ASSUME n # t, NEW m \in Open(w, t, n, V), f[V][n] = w[<<n, m>>] + f[V \ {m}][m]
        PROVE  D[n] <= f[V][n]
    <3>1. m \in V /\ <<n, m>> \in DOMAIN w /\ m \in M /\ m \in Nodes
      BY <1>0 DEF Open, IsPotential
    <3>2. V \ {m} \in SUBSET Operational /\ Cardinality(V \ {m}) < k
      BY <2>0, <3>1, OneLess
    <3>3. D[m] <= f[V \ {m}][m]
      BY <1>2, <3>1, <3>2
    <3>4. D[n] <= w[<<n, m>>] + D[m] /\ D[m] \in Nat
      BY <2>5, <3>1 DEF IsPotential
    <3>5. w[<<n, m>>] \in Nat
      BY <2>0, <3>1 DEF Weighed
    <3>6. f[V \ {m}][m] \in Nat
      BY <2>0, <3>1, WalkIsLightest DEF IsLightest
    <3>7. QED
      BY <2>2, <2>5, <3>3, <3>4, <3>5, <3>6
  <2>6. QED
    BY <2>1, <2>3, <2>4, <2>5 DEF IsLightest
<1>3. \A k \in Nat : k \in S
  <2> HIDE DEF S
  <2>1. QED
    BY <1>1, <1>2, ByInduction
<1>4. ASSUME NEW V \in SUBSET Operational, NEW n \in M
      PROVE  D[n] <= f[V][n]
  <2>1. Cardinality(V) \in Nat
    BY <1>0, OneLess
  <2>2. Cardinality(V) + 1 \in S /\ Cardinality(V) < Cardinality(V) + 1
    BY <1>3, <2>1
  <2>3. QED
    BY <2>2
<1>5. QED
  BY <1>4

LEMMA WalksAreNoMore ==
  ASSUME NEW w, Weighed(w, Nodes), Infinity \in Nat, NEW t, NEW f, IsWalk(w, t, f),
         NEW s, NEW M, NEW D, IsPotential(w, t, s, M, D)
  PROVE  \A V \in SUBSET Nodes, n \in M :
           (n = s \/ D[n] < D[s]) /\ {x \in M : D[x] < D[n]} \subseteq V => f[V][n] <= D[n]
<1>0. Operational \subseteq Nodes /\ M \subseteq Operational /\ s \in M
      /\ \A n \in M : D[n] \in Nat
  BY DEF Operational, IsPotential
<1> DEFINE P(k) == \A V \in SUBSET Nodes, n \in M :
             D[n] < k /\ (n = s \/ D[n] < D[s]) /\ {x \in M : D[x] < D[n]} \subseteq V
               => f[V][n] <= D[n]
           T == {k \in Nat : P(k)}
<1>1. 0 \in T
  <2>1. \A n \in M : ~ (D[n] < 0)
    BY <1>0
  <2>2. QED
    BY <2>1
<1>2. ASSUME NEW k \in Nat, k \in T
      PROVE  k + 1 \in T
  <2> SUFFICES ASSUME NEW V \in SUBSET Nodes, NEW n \in M, D[n] < k + 1, n = s \/ D[n] < D[s],
                      {x \in M : D[x] < D[n]} \subseteq V
               PROVE  f[V][n] <= D[n]
    OBVIOUS
  <2>0. n \in Nodes /\ D[n] \in Nat /\ D[s] \in Nat
    BY <1>0
  <2>1. IsLightest(w, t, f, V, n, f[V][n])
    BY <2>0, WalkIsLightest
  <2>2. CASE n = t
    BY <2>1, <2>2 DEF IsLightest, IsPotential
  <2>3. CASE n # t /\ D[n] >= Infinity
    BY <2>0, <2>1, <2>3 DEF IsLightest
  <2>4. CASE n # t /\ D[n] < Infinity
    <3>1. PICK m \in M : <<n, m>> \in DOMAIN w /\ D[n] = w[<<n, m>>] + D[m]
      BY <2>4 DEF IsPotential
    <3>2. D[m] \in Nat /\ m \in Nodes
      BY <1>0
    <3>3. w[<<n, m>>] \in Nat /\ w[<<n, m>>] > 0
      BY <2>0, <3>1, <3>2 DEF Weighed
    <3>4. D[m] < D[n]
      BY <2>0, <3>1, <3>2, <3>3
    <3>5. m \in V /\ D[m] < D[s] /\ m # s
      BY <2>0, <3>2, <3>4
    <3>6. m \in Open(w, t, n, V)
      BY <3>1, <3>5 DEF Open, IsPotential
    <3>7. f[V][n] <= w[<<n, m>>] + f[V \ {m}][m]
      BY <2>1, <2>4, <3>6 DEF IsLightest
    <3>8. f[V \ {m}][m] <= D[m]
      <4>1. D[m] < k
        BY <2>0, <3>2, <3>4
      <4>2. {x \in M : D[x] < D[m]} \subseteq V \ {m}
        BY <1>0, <2>0, <3>2, <3>4
      <4>3. V \ {m} \in SUBSET Nodes
        OBVIOUS
      <4>4. QED
        BY <1>2, <3>5, <4>1, <4>2, <4>3
    <3>9. f[V \ {m}][m] \in Nat /\ f[V][n] \in Nat
      <4>1. V \ {m} \in SUBSET Nodes
        OBVIOUS
      <4>2. IsLightest(w, t, f, V \ {m}, m, f[V \ {m}][m])
        BY <3>2, <4>1, WalkIsLightest
      <4>3. QED
        BY <2>1, <4>2 DEF IsLightest
    <3>10. QED
      BY <2>0, <3>1, <3>2, <3>3, <3>7, <3>8, <3>9
  <2>5. QED
    BY <2>0, <2>2, <2>3, <2>4
<1>3. \A k \in Nat : k \in T
  <2> HIDE DEF T
  <2>1. QED
    BY <1>1, <1>2, ByInduction
<1>4. ASSUME NEW V \in SUBSET Nodes, NEW n \in M, n = s \/ D[n] < D[s],
             {x \in M : D[x] < D[n]} \subseteq V
      PROVE  f[V][n] <= D[n]
  <2>1. D[n] \in Nat /\ D[n] + 1 \in Nat /\ D[n] < D[n] + 1
    BY <1>0
  <2>2. D[n] + 1 \in T
    BY <1>3, <2>1
  <2>3. QED
    BY <1>4, <2>1, <2>2
<1>5. QED
  BY <1>4

\* The walks of the property find what the potential says.
LEMMA ShortestIsPotential ==
  ASSUME IsFiniteSet(Nodes), NEW w, Weighed(w, Nodes), Infinity \in Nat, NEW t \in Nodes,
         NEW s, NEW M, NEW D, IsPotential(w, t, s, M, D),
         NEW n \in M, n = s \/ D[n] < D[s]
  PROVE  Shortest(w, t)[n] = D[n]
<1>a. PICK f : IsReadOff(w, t, f)
  BY ShortestIsWalked
<1>1. IsWalk(w, t, f) /\ \A x \in Nodes : Shortest(w, t)[x] = f[Operational \ {x}][x]
  BY <1>a DEF IsReadOff
<1>0. M \subseteq Operational /\ Operational \subseteq Nodes
      /\ \A x \in M : D[x] \in Nat
  BY DEF IsPotential, Operational
<1>2. PICK V : V = Operational \ {n}
  OBVIOUS
<1>3. V \in SUBSET Operational /\ V \in SUBSET Nodes /\ n \in Nodes
  BY <1>0, <1>2
<1>4. Shortest(w, t)[n] = f[V][n]
  BY <1>1, <1>2, <1>3
<1>5. D[n] <= f[V][n]
  BY <1>1, <1>3, WalksAreNoLess
<1>6. {x \in M : D[x] < D[n]} \subseteq V
  BY <1>0, <1>2
<1>7. f[V][n] <= D[n]
  BY <1>1, <1>3, <1>6, WalksAreNoMore
<1>8. f[V][n] \in Nat
  BY <1>1, <1>3, WalkIsLightest DEF IsLightest
<1>9. QED
  BY <1>0, <1>4, <1>5, <1>7, <1>8

\* No path of edges that weigh B at most is as long as Infinity.
IsMost(B) == B \in Nat /\ Cardinality(Nodes) * B < Infinity

\* Lengths that grow by at most B at each edge of the walk are finite where a
\* walk is.
LEMMA WalkedIsNear ==
  ASSUME IsFiniteSet(Nodes), NEW w, Weighed(w, Nodes), Infinity \in Nat, NEW t \in Nodes,
         NEW B \in Nat, IsMost(B),
         NEW M, M \subseteq Operational, NEW E \in [M -> Nat],
         \A m \in Operational : m = t \/ m \notin Pods => m \in M,
         t \in M => E[t] = 0,
         \A n, m \in M : n # t /\ <<n, m>> \in DOMAIN w => E[n] <= B + E[m],
         NEW n \in M, Shortest(w, t)[n] < Infinity
  PROVE  E[n] < Infinity
<1>0. Operational \subseteq Nodes
  BY DEF Operational
<1>a. PICK f : IsReadOff(w, t, f)
  BY ShortestIsWalked
<1>1. IsWalk(w, t, f) /\ \A x \in Nodes : Shortest(w, t)[x] = f[Operational \ {x}][x]
  BY <1>a DEF IsReadOff
<1> DEFINE S == {k \in Nat : \A V \in SUBSET Operational, x \in M :
                   Cardinality(V) <= k /\ f[V][x] < Infinity => E[x] <= k * B}
<1> HIDE DEF S
<1>2. ASSUME NEW V \in SUBSET Operational, NEW x \in M, f[V][x] < Infinity, x # t
      PROVE  \E m \in V : /\ m \in M /\ E[x] <= B + E[m]
                          /\ Cardinality(V) >= 1 /\ Cardinality(V \ {m}) = Cardinality(V) - 1
                          /\ f[V \ {m}][m] < Infinity
  <2>0. V \in SUBSET Nodes /\ x \in Nodes
    BY <1>0
  <2>1. IsLightest(w, t, f, V, x, f[V][x])
    BY <1>1, <2>0, WalkIsLightest
  <2>2. PICK m \in Open(w, t, x, V) : f[V][x] = w[<<x, m>>] + f[V \ {m}][m]
    BY <1>2, <2>1 DEF IsLightest
  <2>3. m \in V /\ m \in M /\ <<x, m>> \in DOMAIN w /\ m \in Nodes
    BY <1>0 DEF Open
  <2>4. V \ {m} \in SUBSET Nodes /\ Cardinality(V) \in Nat /\ Cardinality(V \ {m}) \in Nat
        /\ Cardinality(V \ {m}) = Cardinality(V) - 1
    BY <2>0, <2>3, OneLess
  <2>5. f[V \ {m}][m] \in Nat /\ w[<<x, m>>] \in Nat
    <3>1. IsLightest(w, t, f, V \ {m}, m, f[V \ {m}][m])
      BY <1>1, <2>3, <2>4, WalkIsLightest
    <3>2. QED
      BY <2>0, <2>3, <3>1 DEF IsLightest, Weighed
  <2>6. f[V \ {m}][m] < Infinity
    BY <1>2, <2>2, <2>5
  <2>7. E[x] <= B + E[m]
    BY <1>2, <2>3
  <2>8. Cardinality(V) >= 1
    BY <2>4
  <2>9. QED
    BY <2>3, <2>4, <2>6, <2>7, <2>8
<1>3. 0 \in S
  <2> SUFFICES ASSUME NEW V \in SUBSET Operational, NEW x \in M, Cardinality(V) <= 0, f[V][x] < Infinity
               PROVE  E[x] <= 0 * B
    BY DEF S
  <2>1. Cardinality(V) \in Nat
    BY <1>0, OneLess
  <2>2. ASSUME x # t PROVE FALSE
    <3>1. Cardinality(V) >= 1
      BY <1>2, <2>2
    <3>2. QED
      BY <2>1, <3>1
  <2>3. QED
    BY <2>2
<1>4. ASSUME NEW k \in Nat, k \in S
      PROVE  k + 1 \in S
  <2> SUFFICES ASSUME NEW V \in SUBSET Operational, NEW x \in M,
                      Cardinality(V) <= k + 1, f[V][x] < Infinity
               PROVE  E[x] <= (k + 1) * B
    BY DEF S
  <2>0. (k + 1) * B = k * B + B /\ k * B \in Nat /\ E[x] \in Nat
    OBVIOUS
  <2>1. PICK y \in Nat : y = k * B
    BY <2>0
  <2>2. CASE x = t
    BY <2>0, <2>1, <2>2
  <2>3. CASE x # t
    <3>1. PICK m \in V : /\ m \in M /\ E[x] <= B + E[m]
                                /\ Cardinality(V) >= 1 /\ Cardinality(V \ {m}) = Cardinality(V) - 1
                                /\ f[V \ {m}][m] < Infinity
      BY <1>2, <2>3
    <3>2. V \ {m} \in SUBSET Operational /\ Cardinality(V) \in Nat
      BY <1>0, OneLess
    <3>3. Cardinality(V \ {m}) <= k
      BY <3>1, <3>2
    <3>4. E[m] <= y /\ E[m] \in Nat
      BY <1>4, <2>1, <3>1, <3>2, <3>3 DEF S
    <3>5. E[x] <= y + B
      BY <2>0, <3>1, <3>4
    <3>6. QED
      BY <2>0, <2>1, <3>5
  <2>4. QED
    BY <2>2, <2>3
<1>5. \A k \in Nat : k \in S
  BY <1>3, <1>4, ByInduction
<1>6. PICK V : V = Operational \ {n}
  OBVIOUS
<1>7. V \in SUBSET Operational /\ Cardinality(V) <= Cardinality(Nodes) /\ Cardinality(Nodes) \in Nat
  BY <1>0, <1>6, FS_Subset, FS_CardinalityType
<1>8. f[V][n] < Infinity
  BY <1>0, <1>1, <1>6
<1>9. PICK c \in Nat : c = Cardinality(Nodes)
  BY <1>7
<1>10. E[n] <= c * B
  <2>1. c \in S
    BY <1>5
  <2>2. QED
    BY <1>7, <1>8, <1>9, <2>1 DEF S
<1>11. PICK y \in Nat : y = c * B
  OBVIOUS
<1>12. QED
  BY <1>9, <1>10, <1>11 DEF IsMost
-----------------------------------------------------------------------------
(* What is left of the way to a pod, from any node that may be passed. *)

Attached(v, N, s, pod) == Into(v, N, pod) \cap Transit(N, s)

\* By the node a, which is attached to the pod.
By(w, v, N, s, pod, n, a) == Lengths(w, Transit(N, s), n)[a] + v[<<a, pod>>]

LeftToPod(w, v, N, s, pod) ==
  [n \in Transit(N, s) \cup {pod} |->
     IF n = pod THEN 0
     ELSE Min({Infinity} \cup {By(w, v, N, s, pod, n, a) : a \in Attached(v, N, s, pod)})]

\* P is that, as far as it is said by the least of the ways.
IsLeftToPod(w, v, N, s, pod, P) ==
  /\ P \in [Transit(N, s) \cup {pod} -> Nat]
  /\ P[pod] = 0
  /\ \A n \in Transit(N, s) :
       /\ P[n] <= Infinity
       /\ \A a \in Attached(v, N, s, pod) : P[n] <= By(w, v, N, s, pod, n, a)
       /\ P[n] = Infinity \/ \E a \in Attached(v, N, s, pod) : P[n] = By(w, v, N, s, pod, n, a)

\* What the searches in T find of each other.
ToAndFro(w, T) ==
  /\ \A n, a \in T : /\ Lengths(w, T, n)[a] \in Nat
                     /\ Lengths(w, T, n)[a] <= Infinity
                     /\ Lengths(w, T, n)[n] = 0
  /\ \A n, m \in T : <<n, m>> \in DOMAIN w =>
       /\ w[<<n, m>>] \in Nat
       /\ \A a \in T : Lengths(w, T, n)[a] <= w[<<n, m>>] + Lengths(w, T, m)[a]
  /\ \A n, a \in T : a # n /\ Lengths(w, T, n)[a] < Infinity =>
       \E m \in T : <<n, m>> \in DOMAIN w /\ Lengths(w, T, n)[a] = w[<<n, m>>] + Lengths(w, T, m)[a]

LEMMA SearchesAgree ==
  ASSUME NEW w, NEW T, IsFiniteSet(T), Weighed(w, T), Infinity \in Nat
  PROVE  ToAndFro(w, T)
<1>1. \A n \in T : IsDistance(w, T, n, Lengths(w, T, n))
  BY LengthsAreDistances
<1>2. ASSUME NEW n \in T
      PROVE  /\ \A a \in T : /\ Lengths(w, T, n)[a] \in Nat
                             /\ Lengths(w, T, n)[a] <= Infinity
                             /\ Lengths(w, T, n)[n] = 0
             /\ \A m \in T : <<n, m>> \in DOMAIN w =>
                  \A a \in T : Lengths(w, T, n)[a] <= w[<<n, m>>] + Lengths(w, T, m)[a]
             /\ \A a \in T : a # n /\ Lengths(w, T, n)[a] < Infinity =>
                  \E m \in T : <<n, m>> \in DOMAIN w
                               /\ Lengths(w, T, n)[a] = w[<<n, m>>] + Lengths(w, T, m)[a]
  <2>1. PICK L : L = Lengths(w, T, n)
    OBVIOUS
  <2>2. IsDistance(w, T, n, L)
    BY <1>1, <2>1
  <2>3. QED
    BY <2>1, <2>2 DEF IsDistance
<1>3. \A n, m \in T : <<n, m>> \in DOMAIN w => w[<<n, m>>] \in Nat
  BY DEF Weighed
<1>4. QED
  BY <1>2, <1>3 DEF ToAndFro

LEMMA TransitIsWeighed ==
  ASSUME NEW w, NEW N, IsFiniteSet(N), Weighed(w, N), NEW s \in N
  PROVE  /\ IsFiniteSet(Transit(N, s)) /\ s \in Transit(N, s) /\ Transit(N, s) \subseteq N
         /\ Weighed(w, Transit(N, s))
BY FS_Subset DEF Transit, Weighed

LEMMA LeftToPodIsLeast ==
  ASSUME NEW w, NEW v, NEW N, IsFiniteSet(N), Weighed(w, N), Weighed(v, N), Infinity \in Nat,
         NEW s \in N, NEW pod \in N, pod \notin Transit(N, s)
  PROVE  IsLeftToPod(w, v, N, s, pod, LeftToPod(w, v, N, s, pod))
<1> DEFINE T == Transit(N, s)
           P == LeftToPod(w, v, N, s, pod)
<1>1. ToAndFro(w, T) /\ T \subseteq N
  BY TransitIsWeighed, SearchesAgree
<1>2. ASSUME NEW n \in T
      PROVE  /\ P[n] \in Nat /\ P[n] <= Infinity
             /\ \A a \in Attached(v, N, s, pod) : P[n] <= By(w, v, N, s, pod, n, a)
             /\ P[n] = Infinity \/ \E a \in Attached(v, N, s, pod) : P[n] = By(w, v, N, s, pod, n, a)
  <2> DEFINE S == {Infinity} \cup {By(w, v, N, s, pod, n, a) : a \in Attached(v, N, s, pod)}
  <2>1. P[n] = Min(S)
    BY DEF LeftToPod
  <2>2. ASSUME NEW a \in Attached(v, N, s, pod) PROVE By(w, v, N, s, pod, n, a) \in Nat
    <3>1. <<a, pod>> \in N \X N /\ <<a, pod>> \in DOMAIN v /\ a \in T
      BY DEF Attached, Into
    <3>2. v[<<a, pod>>] \in Nat
      BY <3>1 DEF Weighed
    <3>3. Lengths(w, T, n)[a] \in Nat
      BY <1>1, <3>1 DEF ToAndFro
    <3>4. QED
      BY <3>2, <3>3 DEF By
  <2>3. S \subseteq Nat /\ S # {}
    BY <2>2
  <2>4. Infinity \in S /\ \A a \in Attached(v, N, s, pod) : By(w, v, N, s, pod, n, a) \in S
    OBVIOUS
  <2>5. \A x \in S : x = Infinity \/ \E a \in Attached(v, N, s, pod) : x = By(w, v, N, s, pod, n, a)
    OBVIOUS
  <2> HIDE DEF S, P
  <2>6. Min(S) \in S /\ \A y \in S : Min(S) <= y
    BY <2>3, MinIsLeast
  <2>7. QED
    BY <2>1, <2>3, <2>4, <2>5, <2>6
<1>3. P = [n \in T \cup {pod} |-> P[n]] /\ P[pod] = 0
  BY DEF LeftToPod
<1>4. P \in [T \cup {pod} -> Nat]
  <2> HIDE DEF P, T
  <2>1. QED
    BY <1>2, <1>3
<1>5. QED
  BY <1>2, <1>3, <1>4 DEF IsLeftToPod

\* No edge shortens it by more than the edge's weight, and one by as much.
LEMMA LeftToPodFalls ==
  ASSUME NEW w, NEW v, NEW N, IsFiniteSet(N), Weighed(w, N), Weighed(v, N), Infinity \in Nat,
         NEW s \in N, NEW pod \in N, pod \notin Transit(N, s),
         NEW P, IsLeftToPod(w, v, N, s, pod, P), NEW n \in Transit(N, s)
  PROVE  /\ <<n, pod>> \in DOMAIN v => P[n] <= v[<<n, pod>>]
         /\ \A m \in Transit(N, s) : <<n, m>> \in DOMAIN w => P[n] <= w[<<n, m>>] + P[m]
         /\ P[n] < Infinity =>
              \/ <<n, pod>> \in DOMAIN v /\ P[n] = v[<<n, pod>>]
              \/ \E m \in Transit(N, s) : <<n, m>> \in DOMAIN w /\ P[n] = w[<<n, m>>] + P[m]
<1> DEFINE T == Transit(N, s)
<1>1. ToAndFro(w, T) /\ T \subseteq N
  BY TransitIsWeighed, SearchesAgree
<1>2. ASSUME NEW a \in Attached(v, N, s, pod)
      PROVE  a \in T /\ <<a, pod>> \in DOMAIN v /\ v[<<a, pod>>] \in Nat
  <2>1. <<a, pod>> \in N \X N /\ <<a, pod>> \in DOMAIN v /\ a \in T
    BY DEF Attached, Into
  <2>2. QED
    BY <2>1 DEF Weighed
<1> HIDE DEF T
<1>0. n \in T /\ \A m \in T : P[m] \in Nat /\ P[m] <= Infinity
  BY DEF IsLeftToPod, T
<1>3. ASSUME <<n, pod>> \in DOMAIN v PROVE P[n] <= v[<<n, pod>>]
  <2>1. n \in Attached(v, N, s, pod)
    BY <1>0, <1>1, <1>3 DEF Attached, Into, T
  <2>2. P[n] <= By(w, v, N, s, pod, n, n)
    BY <2>1 DEF IsLeftToPod
  <2>3. By(w, v, N, s, pod, n, n) = 0 + v[<<n, pod>>]
    BY <1>0, <1>1 DEF By, ToAndFro, T
  <2>4. QED
    BY <1>2, <2>1, <2>2, <2>3
<1>4. ASSUME NEW m \in T, <<n, m>> \in DOMAIN w PROVE P[n] <= w[<<n, m>>] + P[m]
  <2>1. w[<<n, m>>] \in Nat /\ \A a \in T : Lengths(w, T, n)[a] <= w[<<n, m>>] + Lengths(w, T, m)[a]
    BY <1>0, <1>1, <1>4 DEF ToAndFro
  <2>2. CASE P[m] = Infinity
    BY <1>0, <2>1, <2>2
  <2>3. CASE P[m] # Infinity
    <3>1. PICK a \in Attached(v, N, s, pod) : P[m] = By(w, v, N, s, pod, m, a)
      BY <2>3 DEF IsLeftToPod, T
    <3>2. P[n] <= Lengths(w, T, n)[a] + v[<<a, pod>>] /\ P[m] = Lengths(w, T, m)[a] + v[<<a, pod>>]
      BY <3>1 DEF IsLeftToPod, By, T
    <3>3. Lengths(w, T, n)[a] \in Nat /\ Lengths(w, T, m)[a] \in Nat /\ v[<<a, pod>>] \in Nat
      BY <1>0, <1>1, <1>2 DEF ToAndFro
    <3>4. Lengths(w, T, n)[a] <= w[<<n, m>>] + Lengths(w, T, m)[a]
      BY <1>2, <2>1
    <3>5. QED
      BY <1>0, <2>1, <3>2, <3>3, <3>4
  <2>4. QED
    BY <2>2, <2>3
<1>5. ASSUME P[n] < Infinity
      PROVE  \/ <<n, pod>> \in DOMAIN v /\ P[n] = v[<<n, pod>>]
             \/ \E m \in T : <<n, m>> \in DOMAIN w /\ P[n] = w[<<n, m>>] + P[m]
  <2>1. PICK a \in Attached(v, N, s, pod) : P[n] = By(w, v, N, s, pod, n, a)
    BY <1>0, <1>5 DEF IsLeftToPod, T
  <2>2. P[n] = Lengths(w, T, n)[a] + v[<<a, pod>>]
    BY <2>1 DEF By, T
  <2>3. Lengths(w, T, n)[a] \in Nat /\ v[<<a, pod>>] \in Nat /\ a \in T
    BY <1>0, <1>1, <1>2 DEF ToAndFro
  <2>4. CASE a = n
    <3>1. P[n] = 0 + v[<<n, pod>>] /\ <<n, pod>> \in DOMAIN v
      BY <1>0, <1>1, <1>2, <2>2, <2>4 DEF ToAndFro
    <3>2. QED
      BY <2>3, <2>4, <3>1
  <2>5. CASE a # n
    <3>1. Lengths(w, T, n)[a] < Infinity
      BY <1>0, <1>5, <2>2, <2>3
    <3>2. PICK m \in T : <<n, m>> \in DOMAIN w /\ Lengths(w, T, n)[a] = w[<<n, m>>] + Lengths(w, T, m)[a]
      BY <1>0, <1>1, <2>3, <2>5, <3>1 DEF ToAndFro
    <3>3. P[m] <= Lengths(w, T, m)[a] + v[<<a, pod>>]
      BY <3>2 DEF IsLeftToPod, By, T
    <3>4. Lengths(w, T, m)[a] \in Nat /\ w[<<n, m>>] \in Nat
      BY <1>0, <1>1, <2>3, <3>2 DEF ToAndFro
    <3>5. P[n] <= w[<<n, m>>] + P[m] /\ P[m] \in Nat
      BY <1>0, <1>4, <3>2
    <3>6. P[n] = w[<<n, m>>] + P[m]
      BY <1>0, <2>2, <2>3, <3>2, <3>3, <3>4, <3>5
    <3>7. QED
      BY <3>2, <3>6
  <2>6. QED
    BY <2>4, <2>5
<1>6. QED
  BY <1>3, <1>4, <1>5 DEF T

\* The hops to the pod are the first of the shortest ways there.
LEMMA HopsToPodAreShortest ==
  ASSUME NEW w, NEW v, NEW N, IsFiniteSet(N), Weighed(w, N), Weighed(v, N), Infinity \in Nat,
         NEW s \in N, NEW pod \in N, pod \notin Transit(N, s),
         NEW P, IsLeftToPod(w, v, N, s, pod, P), P[s] < Infinity
  PROVE  /\ HopsToPod(w, v, N, s, pod) # {}
         /\ \A h \in HopsToPod(w, v, N, s, pod) :
              \/ h = pod /\ P[s] = v[<<s, pod>>]
              \/ h \in Transit(N, s) /\ <<s, h>> \in DOMAIN w /\ P[s] = w[<<s, h>>] + P[h]
<1> DEFINE T == Transit(N, s)
           lengths == Lengths(w, T, s)
           Total(a) == (IF a \in T THEN lengths[a] ELSE Infinity) + v[<<a, pod>>]
           attached == Into(v, N, pod)
           best == {a \in attached : \A b \in attached : Total(a) <= Total(b)}
           Near == {b \in best \cap T : lengths[b] < Infinity}
<1>1. HopsToPod(w, v, N, s, pod) =
        UNION {IF a = s THEN {pod} ELSE FirstHops(w, T, s, a) : a \in Near}
  BY DEF HopsToPod
<1>2. ToAndFro(w, T) /\ T \subseteq N /\ s \in T /\ IsFiniteSet(T) /\ Weighed(w, T)
  BY TransitIsWeighed, SearchesAgree
<1>3. ASSUME NEW a \in attached PROVE v[<<a, pod>>] \in Nat
  <2>1. <<a, pod>> \in N \X N /\ <<a, pod>> \in DOMAIN v
    BY DEF Into
  <2>2. QED
    BY <2>1 DEF Weighed
<1>4. \A b : Total(b) = ByWayOf(w, v, N, s, pod, b)
  BY DEF ByWayOf
<1>5. \A a \in Near : a \in attached /\ a \in T /\ lengths[a] < Infinity
                      /\ \A b \in attached : Total(a) <= Total(b)
  OBVIOUS
<1>6. \A a \in attached \cap T : Total(a) = By(w, v, N, s, pod, s, a)
  BY DEF By
<1>7. \A a \in attached : a \notin T => Total(a) = Infinity + v[<<a, pod>>]
  OBVIOUS
<1>8. \A a \in attached \cap T :
        lengths[a] < Infinity /\ (\A b \in attached : Total(a) <= Total(b)) => a \in Near
  OBVIOUS
<1>9. attached \cap T = Attached(v, N, s, pod)
  BY DEF Attached
<1> HIDE DEF Near, Total, attached
<1>10. PICK c \in Attached(v, N, s, pod) : P[s] = By(w, v, N, s, pod, s, c)
  BY <1>2 DEF IsLeftToPod
<1>11. c \in attached \cap T /\ Total(c) = P[s] /\ P[s] \in Nat
  BY <1>2, <1>6, <1>9, <1>10 DEF IsLeftToPod
<1>12. \A a \in attached \cap T : P[s] <= Total(a)
  BY <1>2, <1>6, <1>9 DEF IsLeftToPod
<1>13. \A a \in attached : Total(a) \in Nat /\ P[s] <= Total(a)
  <2> SUFFICES ASSUME NEW a \in attached PROVE Total(a) \in Nat /\ P[s] <= Total(a)
    OBVIOUS
  <2>1. CASE a \in T
    <3>1. lengths[a] \in Nat
      BY <1>2, <2>1 DEF ToAndFro
    <3>2. Total(a) = lengths[a] + v[<<a, pod>>]
      BY <2>1 DEF Total
    <3>3. QED
      BY <1>3, <1>12, <2>1, <3>1, <3>2
  <2>2. CASE a \notin T
    <3>1. Total(a) = Infinity + v[<<a, pod>>]
      BY <1>7, <2>2
    <3>2. v[<<a, pod>>] \in Nat
      BY <1>3
    <3>3. QED
      BY <1>11, <3>1, <3>2
  <2>3. QED
    BY <2>1, <2>2
<1>14. c \in Near
  <2>1. lengths[c] < Infinity
    <3>1. lengths[c] \in Nat
      BY <1>2, <1>11 DEF ToAndFro
    <3>2. Total(c) = lengths[c] + v[<<c, pod>>]
      BY <1>11 DEF Total
    <3>3. QED
      BY <1>3, <1>11, <3>1, <3>2
  <2>2. QED
    BY <1>8, <1>11, <1>13, <2>1
<1>15. HopsToPod(w, v, N, s, pod) # {}
  <2>1. (IF c = s THEN {pod} ELSE FirstHops(w, T, s, c)) # {}
    <3>1. c # s => FirstHops(w, T, s, c) # {}
      <4> HIDE DEF T
      <4>1. QED
        BY <1>2, <1>5, <1>14, FirstHopHasFirstHop
    <3>2. QED
      BY <3>1
  <2>2. PICK h : h \in IF c = s THEN {pod} ELSE FirstHops(w, T, s, c)
    BY <2>1
  <2>3. h \in UNION {IF a = s THEN {pod} ELSE FirstHops(w, T, s, a) : a \in Near}
    BY <1>14, <2>2, Zenon
  <2>4. QED
    BY <1>1, <2>3
<1>16. ASSUME NEW h \in HopsToPod(w, v, N, s, pod)
       PROVE  \/ h = pod /\ P[s] = v[<<s, pod>>]
              \/ h \in T /\ <<s, h>> \in DOMAIN w /\ P[s] = w[<<s, h>>] + P[h]
  <2>1. PICK a \in Near : h \in IF a = s THEN {pod} ELSE FirstHops(w, T, s, a)
    <3> HIDE DEF T
    <3>1. QED
      BY <1>1
  <2>2. a \in T /\ a \in attached /\ a \in Attached(v, N, s, pod) /\ lengths[a] < Infinity
    BY <1>5, <1>9, <2>1
  <2>3. Total(a) = P[s]
    <3>1. Total(a) <= Total(c)
      BY <1>5, <1>11, <2>1
    <3>2. QED
      BY <1>11, <1>13, <2>2, <3>1
  <2>4. lengths[a] \in Nat /\ Total(a) = lengths[a] + v[<<a, pod>>] /\ v[<<a, pod>>] \in Nat
    BY <1>2, <1>3, <2>2 DEF Total, ToAndFro
  <2>5. CASE a = s
    <3>1. h = pod /\ lengths[s] = 0
      BY <1>2, <2>1, <2>5 DEF ToAndFro
    <3>2. QED
      BY <2>3, <2>4, <2>5, <3>1
  <2>6. CASE a # s
    <3>1. h \in FirstHops(w, T, s, a)
      BY <2>1, <2>6
    <3>2. h \in T /\ <<s, h>> \in DOMAIN w /\ w[<<s, h>>] + Lengths(w, T, h)[a] = lengths[a]
      <4> DEFINE far == Lengths(w, T, s)[a]
      <4>1. FirstHops(w, T, s, a) =
              IF s = a \/ far >= Infinity THEN {}
              ELSE {m \in T : <<s, m>> \in DOMAIN w /\ w[<<s, m>>] + Lengths(w, T, m)[a] = far}
        BY DEF FirstHops
      <4>2. far = lengths[a]
        OBVIOUS
      <4> HIDE DEF far, T
      <4>3. h \in T /\ <<s, h>> \in DOMAIN w /\ w[<<s, h>>] + Lengths(w, T, h)[a] = far
        BY <3>1, <4>1
      <4>4. QED
        BY <4>2, <4>3
    <3>3. P[h] <= Lengths(w, T, h)[a] + v[<<a, pod>>]
      BY <2>2, <3>2 DEF IsLeftToPod, By
    <3>4. P[s] <= w[<<s, h>>] + P[h] /\ P[h] \in Nat
      <4>1. P[h] \in Nat
        BY <3>2 DEF IsLeftToPod
      <4>2. P[s] <= w[<<s, h>>] + P[h]
        BY <1>2, <3>2, LeftToPodFalls
      <4>3. QED
        BY <4>1, <4>2
    <3>5. Lengths(w, T, h)[a] \in Nat /\ w[<<s, h>>] \in Nat
      BY <1>2, <2>2, <3>2 DEF ToAndFro
    <3>6. P[s] = w[<<s, h>>] + P[h]
      BY <1>11, <2>3, <2>4, <3>2, <3>3, <3>4, <3>5
    <3>7. QED
      BY <3>2, <3>6
  <2>7. QED
    BY <2>5, <2>6
<1>17. QED
  BY <1>15, <1>16
-----------------------------------------------------------------------------
(* The hops of the tables start shortest paths. *)

\* The hop h from s goes down by as much as it weighs.
StepsDown(w, D, s, h) == <<s, h>> \in DOMAIN w /\ D[s] = w[<<s, h>>] + D[h]

LEMMA SearchIsPotential ==
  ASSUME IsFiniteSet(Nodes), faulted = {}, NEW w, Weighed(w, Nodes), Infinity \in Nat,
         NEW s \in Nodes, NEW t \in Nodes \ Pods, s # t
  PROVE  \E M, D : /\ IsPotential(w, t, s, M, D)
                   /\ D[s] < Infinity => FirstHops(w, Transit(Nodes, s), s, t) # {}
                   /\ \A h \in FirstHops(w, Transit(Nodes, s), s, t) : h \in M /\ StepsDown(w, D, s, h)
<1> DEFINE M == Transit(Nodes, s)
           D == [n \in M |-> Lengths(w, M, n)[t]]
<1>1. ToAndFro(w, M) /\ M \subseteq Nodes /\ IsFiniteSet(M) /\ Weighed(w, M) /\ s \in M
  BY TransitIsWeighed, SearchesAgree
<1>2. t \in M /\ Nodes \ Pods \subseteq M /\ M \cap Pods \subseteq {s, t} /\ Operational = Nodes
  BY DEF Transit, Operational
<1> HIDE DEF M
<1>3. \A n \in M : D[n] = Lengths(w, M, n)[t]
  OBVIOUS
<1>4. D \in [M -> Nat] /\ D[t] = 0 /\ \A n \in M : D[n] <= Infinity
  BY <1>1, <1>2 DEF ToAndFro
<1>5. \A n, m \in M : <<n, m>> \in DOMAIN w => D[n] <= w[<<n, m>>] + D[m]
  BY <1>1, <1>2 DEF ToAndFro
<1>6. \A n \in M : n # t /\ D[n] < Infinity =>
        \E m \in M : <<n, m>> \in DOMAIN w /\ D[n] = w[<<n, m>>] + D[m]
  BY <1>1, <1>2 DEF ToAndFro
<1> HIDE DEF D
<1>7. IsPotential(w, t, s, M, D)
  BY <1>1, <1>2, <1>4, <1>5, <1>6 DEF IsPotential
<1>8. ASSUME D[s] < Infinity PROVE FirstHops(w, M, s, t) # {}
  BY <1>1, <1>2, <1>3, <1>8, FirstHopHasFirstHop
<1>9. ASSUME NEW h \in FirstHops(w, M, s, t) PROVE h \in M /\ StepsDown(w, D, s, h)
  <2> DEFINE far == Lengths(w, M, s)[t]
  <2>1. FirstHops(w, M, s, t) =
          IF s = t \/ far >= Infinity THEN {}
          ELSE {m \in M : <<s, m>> \in DOMAIN w /\ w[<<s, m>>] + Lengths(w, M, m)[t] = far}
    BY DEF FirstHops
  <2>2. far = D[s]
    BY <1>1, <1>3
  <2> HIDE DEF far
  <2>3. h \in M /\ <<s, h>> \in DOMAIN w /\ w[<<s, h>>] + Lengths(w, M, h)[t] = far
    BY <1>9, <2>1
  <2>4. QED
    BY <1>3, <2>2, <2>3 DEF StepsDown
<1>10. QED
  BY <1>7, <1>8, <1>9 DEF M

LEMMA PodSearchIsPotential ==
  ASSUME IsFiniteSet(Nodes), faulted = {}, NEW w, Weighed(w, Nodes), Infinity \in Nat,
         NEW s \in Nodes, NEW t \in Nodes \cap Pods, s # t
  PROVE  \E M, D : /\ IsPotential(w, t, s, M, D)
                   /\ D[s] < Infinity => /\ HopsToPod(w, w, Nodes, s, t) # {}
                                         /\ \A h \in HopsToPod(w, w, Nodes, s, t) :
                                              h \in M /\ StepsDown(w, D, s, h)
<1> DEFINE T == Transit(Nodes, s)
           M == T \cup {t}
           D == LeftToPod(w, w, Nodes, s, t)
<1>1. T \subseteq Nodes /\ s \in T
  BY TransitIsWeighed
<1>2. t \notin T /\ Nodes \ Pods \subseteq M /\ M \cap Pods \subseteq {s, t} /\ Operational = Nodes
  BY DEF Transit, Operational
<1>3. IsLeftToPod(w, w, Nodes, s, t, D)
  BY <1>2, LeftToPodIsLeast
<1> HIDE DEF D, T
<1>4. D \in [M -> Nat] /\ D[t] = 0 /\ \A n \in M : D[n] <= Infinity
  BY <1>3 DEF IsLeftToPod, T
<1>5. ASSUME NEW n \in M, NEW m \in M, n # t, <<n, m>> \in DOMAIN w
      PROVE  D[n] <= w[<<n, m>>] + D[m]
  <2>1. n \in T
    BY <1>5
  <2>2. CASE m = t
    <3>1. D[n] <= w[<<n, t>>]
      BY <1>2, <1>3, <1>5, <2>1, <2>2, LeftToPodFalls DEF T
    <3>2. w[<<n, t>>] \in Nat
      BY <1>1, <1>5, <2>1, <2>2 DEF Weighed
    <3>3. QED
      BY <1>4, <2>2, <3>1, <3>2
  <2>3. CASE m # t
    <3>1. m \in T
      BY <2>3
    <3>2. QED
      BY <1>2, <1>3, <1>5, <2>1, <3>1, LeftToPodFalls DEF T
  <2>4. QED
    BY <2>2, <2>3
<1>6. ASSUME NEW n \in M, n # t, D[n] < Infinity
      PROVE  \E m \in M : <<n, m>> \in DOMAIN w /\ D[n] = w[<<n, m>>] + D[m]
  <2>1. n \in T
    BY <1>6
  <2>2. \/ <<n, t>> \in DOMAIN w /\ D[n] = w[<<n, t>>]
        \/ \E m \in T : <<n, m>> \in DOMAIN w /\ D[n] = w[<<n, m>>] + D[m]
    BY <1>2, <1>3, <1>6, <2>1, LeftToPodFalls DEF T
  <2>3. CASE <<n, t>> \in DOMAIN w /\ D[n] = w[<<n, t>>]
    <3>1. w[<<n, t>>] \in Nat
      BY <1>1, <2>1, <2>3 DEF Weighed
    <3>2. t \in M /\ D[n] = w[<<n, t>>] + D[t]
      BY <1>4, <2>3, <3>1
    <3>3. QED
      BY <2>3, <3>2
  <2>4. QED
    BY <2>2, <2>3
<1>7. IsPotential(w, t, s, M, D)
  BY <1>1, <1>2, <1>4, <1>5, <1>6 DEF IsPotential
<1>8. ASSUME D[s] < Infinity
      PROVE  /\ HopsToPod(w, w, Nodes, s, t) # {}
             /\ \A h \in HopsToPod(w, w, Nodes, s, t) : h \in M /\ StepsDown(w, D, s, h)
  <2>1. HopsToPod(w, w, Nodes, s, t) # {}
    BY <1>2, <1>3, <1>8, HopsToPodAreShortest DEF T
  <2>2. ASSUME NEW h \in HopsToPod(w, w, Nodes, s, t) PROVE h \in M /\ StepsDown(w, D, s, h)
    <3>1. h \in Nodes /\ <<s, h>> \in DOMAIN w
      BY HopToPodIsEdge
    <3>2. w[<<s, h>>] \in Nat
      BY <3>1 DEF Weighed
    <3>3. \/ h = t /\ D[s] = w[<<s, t>>]
          \/ h \in T /\ D[s] = w[<<s, h>>] + D[h]
      BY <1>2, <1>3, <1>8, HopsToPodAreShortest DEF T
    <3>4. CASE h = t /\ D[s] = w[<<s, t>>]
      <4>1. D[s] = w[<<s, h>>] + D[h]
        BY <1>4, <3>2, <3>4
      <4>2. QED
        BY <3>1, <3>4, <4>1 DEF StepsDown
    <3>5. QED
      BY <3>1, <3>3, <3>4 DEF StepsDown
  <2>3. QED
    BY <2>1, <2>2
<1>9. QED
  BY <1>7, <1>8

\* Where the answers are the tables' the packet goes on by a shortest path.
LEMMA AnswerIsShortest ==
  ASSUME EnginesInv, Current, strategy = "shortest_path", faulted = {}, DOMAIN penalty = {},
         NEW s \in Nodes, NEW t \in Nodes, NEW h \in Answers(s, t), h # None,
         Shortest(graph, t)[s] < Infinity
  PROVE  Shortest(graph, t)[s] = graph[<<s, h>>] + Shortest(graph, t)[h]
<1>1. /\ IsFiniteSet(Nodes) /\ Infinity \in Nat /\ graph \in Graphs /\ Weighed(graph, Nodes)
  BY RoutingAssumption, WeightsAssumption, GraphIsWeighed DEF EnginesInv, WorldOK
<1>2. h \in Select(s, t)
  BY DEF Answers
<1>3. s # t
  BY <1>2 DEF Select
<1>4. nextHop[s][t] = IF t \in Pods THEN HopsToPod(graph, graph, Nodes, s, t)
                      ELSE FirstHops(graph, Transit(Nodes, s), s, t)
  BY <1>1, <1>3 DEF Current, Tables
<1>5. PICK M, D : /\ IsPotential(graph, t, s, M, D)
                  /\ D[s] < Infinity => /\ nextHop[s][t] # {}
                                        /\ \A k \in nextHop[s][t] : k \in M /\ StepsDown(graph, D, s, k)
  <2>1. CASE t \in Pods
    BY <1>1, <1>3, <1>4, <2>1, PodSearchIsPotential
  <2>2. CASE t \notin Pods
    BY <1>1, <1>3, <1>4, <2>2, SearchIsPotential
  <2>3. QED
    BY <2>1, <2>2
<1>6. s \in M /\ D \in [M -> Nat] /\ M \subseteq Nodes
  BY <1>5 DEF IsPotential, Operational
<1>7. Shortest(graph, t)[s] = D[s]
  BY <1>1, <1>5, <1>6, ShortestIsPotential
<1>8. \A k \in nextHop[s][t] : ~ Unusable(s, k)
  BY <1>5, <1>7 DEF StepsDown, Unusable
<1>9. h \in nextHop[s][t]
  BY <1>2, <1>5, <1>7, <1>8 DEF Select
<1>10. h \in M /\ <<s, h>> \in DOMAIN graph /\ D[s] = graph[<<s, h>>] + D[h]
  BY <1>5, <1>7, <1>9 DEF StepsDown
<1>11. graph[<<s, h>>] \in Nat /\ graph[<<s, h>>] > 0
  BY <1>1, <1>6, <1>10 DEF Weighed
<1>12. D[h] < D[s]
  BY <1>6, <1>10, <1>11
<1>13. Shortest(graph, t)[h] = D[h]
  BY <1>1, <1>5, <1>10, <1>12, ShortestIsPotential
<1>14. QED
  BY <1>7, <1>10, <1>13

\* What the engine asked for when it decided.
LEMMA DecidesByAnswer ==
  ASSUME WaysInv, [NextEngines]_allVars, ~ UNCHANGED vars, Decides
  PROVE  /\ UNCHANGED worldVars
         /\ \E s \in Nodes, t \in Nodes : /\ at' = s /\ dst' = t /\ s \notin faulted
                                          /\ to' \in Answers(s, t)
<1>1. ASSUME NEW s \in Nodes, NEW t \in Nodes, Route(Answers(s, t), s, t)
      PROVE  at' = s /\ dst' = t /\ to' \in Answers(s, t)
  BY <1>1 DEF Route
<1>2. ASSUME NEW s \in Sources, NEW t \in Destinations, SendPacket(s, t)
      PROVE  UNCHANGED worldVars /\ s \notin faulted /\ Route(Answers(s, t), s, t)
  BY <1>2 DEF SendPacket, SendOn, Decides
<1>3. CASE ForwardPacket
  <2>1. to \in Nodes /\ dst \in Nodes
    BY <1>3 DEF ForwardPacket, ArriveOn, WaysInv, EnginesInv, PacketOK
  <2>2. /\ UNCHANGED worldVars
        /\ \/ to \notin faulted /\ Route(Answers(to, dst), to, dst)
           \/ \E result \in (Drops \cup {"delivered"}) \ {"no_route", "pod_not_transit"} : End(result)
    BY <1>3, Zenon DEF ForwardPacket, ArriveOn, Drops
  <2>3. ASSUME NEW result \in (Drops \cup {"delivered"}) \ {"no_route", "pod_not_transit"}, End(result)
        PROVE  FALSE
    BY <2>3 DEF End, Decides, Drops
  <2>4. to \notin faulted /\ Route(Answers(to, dst), to, dst)
    BY <2>2, <2>3
  <2>5. QED
    BY <1>1, <2>1, <2>2, <2>4
<1>4. CASE ReplaceTopology \/ TickPhysics \/ Traffic
  BY <1>4 DEF ReplaceTopology, TopologyUpdate, TickPhysics, PhysicsTick, Traffic, Decides
<1>5. QED
  BY <1>1, <1>2, <1>3, <1>4, RoutingAssumption DEF NextEngines, allVars

\* Without faults and penalties every hop of the shortest-path strategy starts a
\* shortest path in which pods are only endpoints, whatever the graph.
THEOREM TableHopsAreShortest == SpecEngines => TableRoutesAreShortest
<1> DEFINE A == strategy = "shortest_path" /\ Decides /\ to' # None /\ faulted = {}
                /\ DOMAIN penalty = {} => HopIsShortest
<1>1. WaysInv /\ [NextEngines]_allVars => [A]_vars
  <2> SUFFICES ASSUME WaysInv, [NextEngines]_allVars, ~ UNCHANGED vars,
                      strategy = "shortest_path", Decides, to' # None, faulted = {}, DOMAIN penalty = {}
               PROVE  HopIsShortest
    OBVIOUS
  <2>1. PICK s \in Nodes, t \in Nodes : at' = s /\ dst' = t /\ to' \in Answers(s, t)
    BY DecidesByAnswer
  <2>2. PICK h : h = to'
    OBVIOUS
  <2>3. h \in Answers(s, t) /\ h # None
    BY <2>1, <2>2
  <2>4. Shortest(graph, t)[s] < Infinity =>
          Shortest(graph, t)[s] = graph[<<s, h>>] + Shortest(graph, t)[h]
    BY <2>3, AnswerIsShortest DEF WaysInv
  <2>5. QED
    BY <2>1, <2>2, <2>4 DEF HopIsShortest
<1>2. TableRoutesAreShortest <=> [][A]_vars
  BY DEF TableRoutesAreShortest
<1>3. QED
  BY <1>1, <1>2, InitWays, StepKeepsWays, PTL DEF SpecEngines
-----------------------------------------------------------------------------
(* A packet is given up only where it cannot go. *)

\* No link of the graph, penalties and tolls included, weighs more than most.
IsHeaviest(most) ==
  /\ IsMost(most)
  /\ \A e \in DOMAIN graph : /\ graph[e] <= most
                             /\ Penalised[e] <= most
                             /\ \A s \in Nodes : Cost(s)[e] <= most

LEMMA HeaviestExists ==
  ASSUME EnginesInv
  PROVE  \E most \in Nat : IsHeaviest(most)
<1>0. /\ graph \in Graphs /\ penalty \in Penalties \cup {<<>>} /\ condition \in Conditions
      /\ Infinity \in Nat /\ DOMAIN graph \subseteq Nodes \X Nodes
  BY RoutingAssumption DEF EnginesInv, WorldOK
<1>1. PICK most \in 0 .. Infinity :
        /\ Cardinality(Nodes) * most < Infinity
        /\ \A w \in Graphs, p \in Penalties \cup {<<>>}, c \in Conditions : \A e \in DOMAIN w :
             LET tolls == {0, ThermalEnergyToll(c[e[2]]), PowerToll(c[e[2]]),
                           SynergyToll(c[e[2]], e[2] \in Pods)}
                 weight == w[e] + (IF e \in DOMAIN p THEN p[e] ELSE 0)
             IN  \A toll \in tolls : weight + toll <= most
  BY InfinityAssumption
<1>2. most \in Nat /\ IsMost(most)
  BY <1>0, <1>1 DEF IsMost
<1>3. ASSUME NEW e \in DOMAIN graph
      PROVE  graph[e] <= most /\ Penalised[e] <= most /\ \A s \in Nodes : Cost(s)[e] <= most
  <2> DEFINE tolls == {0, ThermalEnergyToll(condition[e[2]]), PowerToll(condition[e[2]]),
                       SynergyToll(condition[e[2]], e[2] \in Pods)}
  <2>1. Penalised[e] = graph[e] + (IF e \in DOMAIN penalty THEN penalty[e] ELSE 0)
    BY DEF Penalised
  <2>2. \A toll \in tolls : (graph[e] + (IF e \in DOMAIN penalty THEN penalty[e] ELSE 0)) + toll <= most
    BY <1>0, <1>1
  <2>3. graph[e] \in Nat /\ Penalised[e] \in Nat /\ graph[e] <= Penalised[e]
    <3>1. graph[e] \in Nat
      BY <1>0, WeightsAssumption
    <3>2. e \in DOMAIN penalty => penalty[e] \in Nat
      BY <1>0, WeightsAssumption
    <3>3. QED
      BY <2>1, <3>1, <3>2
  <2>4. 0 \in tolls /\ Toll(e[2]) \in tolls
    BY DEF Toll
  <2> HIDE DEF tolls
  <2>5. Penalised[e] + 0 <= most /\ Penalised[e] + Toll(e[2]) <= most
    BY <2>1, <2>2, <2>4
  <2>6. \A s \in Nodes : Cost(s)[e] = Penalised[e] + Toll(e[2])
    BY DEF Cost
  <2>7. QED
    BY <1>2, <2>3, <2>5, <2>6
<1>4. QED
  BY <1>2, <1>3 DEF IsHeaviest

\* Where no walk leads to t the way is said to be infinitely long.
CutOff(s, t) == Shortest(graph, t)[s] >= Infinity

\* What a search sees of the way: where it sees none there is none.
LEMMA UnseenIsCutOff ==
  ASSUME EnginesInv, NEW s \in Operational, NEW t \in Nodes,
         NEW most \in Nat, IsHeaviest(most),
         NEW M, M \subseteq Operational, Operational \ (Pods \ {t}) \subseteq M, s \in M,
         NEW E \in [M -> Nat], t \in M => E[t] = 0,
         \A n, m \in M : n # t /\ <<n, m>> \in DOMAIN graph => E[n] <= most + E[m],
         E[s] >= Infinity
  PROVE  CutOff(s, t)
<1>0. /\ IsFiniteSet(Nodes) /\ Infinity \in Nat /\ Weighed(graph, Nodes) /\ s \in Nodes
      /\ IsMost(most) /\ E[s] \in Nat
  BY RoutingAssumption, WeightsAssumption, GraphIsWeighed, OperationalIsFinite
     DEF EnginesInv, WorldOK, IsHeaviest
<1>1. Shortest(graph, t)[s] \in Nat
  <2>a. PICK f : IsReadOff(graph, t, f)
    BY <1>0, ShortestIsWalked
  <2>1. IsWalk(graph, t, f) /\ \A x \in Nodes : Shortest(graph, t)[x] = f[Operational \ {x}][x]
    BY <2>a DEF IsReadOff
  <2>2. PICK V : V = Operational \ {s}
    OBVIOUS
  <2>3. V \in SUBSET Nodes
    BY <2>2, OperationalIsFinite
  <2>4. f[V][s] \in Nat
    BY <1>0, <2>1, <2>3, WalkIsLightest DEF IsLightest
  <2>5. QED
    BY <1>0, <2>1, <2>2, <2>4
<1>2. ASSUME Shortest(graph, t)[s] < Infinity PROVE FALSE
  <2>1. \A m \in Operational : m = t \/ m \notin Pods => m \in M
    OBVIOUS
  <2>2. E[s] < Infinity
    BY <1>0, <1>2, <2>1, WalkedIsNear
  <2>3. QED
    BY <1>0, <2>2
<1>3. QED
  BY <1>0, <1>1, <1>2 DEF CutOff

\* By lengths of paths over the operational nodes.
LEMMA UnreachedIsCutOff ==
  ASSUME EnginesInv, NEW s \in Operational, NEW t \in Operational, s # t,
         NEW c, DOMAIN c = DOMAIN graph, Weighed(c, Nodes),
         NEW most \in Nat, IsHeaviest(most), \A e \in DOMAIN graph : c[e] <= most,
         FirstHops(c, Operational, s, t) = {}
  PROVE  CutOff(s, t)
<1>0. /\ IsFiniteSet(Operational) /\ Operational \subseteq Nodes /\ Infinity \in Nat
      /\ Weighed(c, Operational)
  BY RoutingAssumption, OperationalIsFinite DEF Weighed
<1>1. ToAndFro(c, Operational)
  BY <1>0, SearchesAgree
<1> DEFINE E == [n \in Operational |-> Lengths(c, Operational, n)[t]]
<1>2. E \in [Operational -> Nat] /\ E[t] = 0
  BY <1>1 DEF ToAndFro
<1>3. ASSUME NEW n \in Operational, NEW m \in Operational, <<n, m>> \in DOMAIN graph
      PROVE  E[n] <= most + E[m]
  <2>1. E[n] <= c[<<n, m>>] + E[m] /\ c[<<n, m>>] \in Nat
    BY <1>1, <1>3 DEF ToAndFro
  <2>2. c[<<n, m>>] <= most
    BY <1>3
  <2> HIDE DEF E
  <2>3. QED
    BY <1>2, <2>1, <2>2
<1>4. E[s] >= Infinity
  <2>1. ~ (Lengths(c, Operational, s)[t] < Infinity)
    BY <1>0, FirstHopHasFirstHop
  <2>2. QED
    BY <1>0, <1>2, <2>1
<1> HIDE DEF E
<1>5. QED
  BY <1>0, <1>2, <1>3, <1>4, UnseenIsCutOff

\* By what is left of the way to a pod.
LEMMA UnreachedPodIsCutOff ==
  ASSUME EnginesInv, NEW s \in Operational, NEW t \in Operational \cap Pods, s # t,
         NEW most \in Nat, IsHeaviest(most),
         HopsToPod(Penalised, graph, Operational, s, t) = {}
  PROVE  CutOff(s, t)
<1> DEFINE T == Transit(Operational, s)
           M == T \cup {t}
           P == LeftToPod(Penalised, graph, Operational, s, t)
<1>0. /\ IsFiniteSet(Operational) /\ Operational \subseteq Nodes /\ Infinity \in Nat
      /\ Weighed(Penalised, Operational) /\ Weighed(graph, Operational)
      /\ DOMAIN Penalised = DOMAIN graph
  BY RoutingAssumption, OperationalIsFinite, PenalisedIsWeighed, GraphIsWeighed
     DEF EnginesInv, WorldOK, Penalised
<1>1. t \notin T /\ s \in T /\ T \subseteq Operational /\ Operational \ (Pods \ {t}) \subseteq M
  BY DEF Transit
<1>2. IsLeftToPod(Penalised, graph, Operational, s, t, P)
  BY <1>0, <1>1, LeftToPodIsLeast
<1> HIDE DEF P, T
<1>3. P \in [M -> Nat] /\ P[t] = 0
  BY <1>2 DEF IsLeftToPod, T
<1>4. \A e \in DOMAIN graph : graph[e] <= most /\ Penalised[e] <= most
  BY DEF IsHeaviest
<1>5. ASSUME NEW n \in M, NEW m \in M, n # t, <<n, m>> \in DOMAIN graph
      PROVE  P[n] <= most + P[m]
  <2>1. n \in T /\ n \in Operational /\ m \in Operational
    BY <1>1, <1>5
  <2>2. CASE m = t
    <3>1. P[n] <= graph[<<n, t>>]
      BY <1>0, <1>1, <1>2, <1>5, <2>1, <2>2, LeftToPodFalls DEF T
    <3>2. graph[<<n, t>>] \in Nat /\ graph[<<n, t>>] <= most
      BY <1>0, <1>4, <1>5, <2>1, <2>2 DEF Weighed
    <3>3. QED
      BY <1>3, <2>2, <3>1, <3>2
  <2>3. CASE m # t
    <3>1. m \in T
      BY <2>3
    <3>2. P[n] <= Penalised[<<n, m>>] + P[m]
      BY <1>0, <1>1, <1>2, <1>5, <2>1, <3>1, LeftToPodFalls DEF T
    <3>3. Penalised[<<n, m>>] \in Nat /\ Penalised[<<n, m>>] <= most
      BY <1>0, <1>4, <1>5, <2>1 DEF Weighed
    <3>4. QED
      BY <1>3, <3>2, <3>3
  <2>4. QED
    BY <2>2, <2>3
<1>6. P[s] >= Infinity
  <2>1. ~ (P[s] < Infinity)
    BY <1>0, <1>1, <1>2, HopsToPodAreShortest DEF T
  <2>2. QED
    BY <1>0, <1>1, <1>3, <2>1
<1>7. t \in Nodes /\ M \subseteq Operational /\ s \in M
  BY <1>0, <1>1
<1> HIDE DEF M
<1>8. QED
  BY <1>1, <1>3, <1>5, <1>6, <1>7, UnseenIsCutOff

\* A destination that is out of service, or no operational neighbour.
LEMMA IsolatedIsCutOff ==
  ASSUME EnginesInv, NEW s \in Operational, NEW t \in Nodes, s # t,
         t \notin Operational \/ Candidates(s) = {},
         NEW most \in Nat, IsHeaviest(most)
  PROVE  CutOff(s, t)
<1> DEFINE E == [n \in Operational |-> IF t \notin Operational \/ n = s THEN Infinity ELSE 0]
<1>1. Infinity \in Nat
  BY RoutingAssumption
<1>2. E \in [Operational -> Nat] /\ (t \in Operational => E[t] = 0) /\ E[s] >= Infinity
  BY <1>1
<1>3. ASSUME NEW n \in Operational, NEW m \in Operational, <<n, m>> \in DOMAIN graph
      PROVE  E[n] <= most + E[m]
  <2>1. CASE t \notin Operational
    BY <1>1, <2>1
  <2>2. CASE t \in Operational
    <3>1. n # s
      BY <1>3, <2>2 DEF Candidates
    <3>2. QED
      BY <1>2, <2>2, <3>1
  <2>3. QED
    BY <2>1, <2>2
<1> HIDE DEF E
<1>4. QED
  BY <1>2, <1>3, UnseenIsCutOff

LEMMA NoAnswerIsCutOff ==
  ASSUME EnginesInv, NEW s \in Nodes, NEW t \in Nodes, s # t, s \notin faulted,
         None \in Answers(s, t)
  PROVE  CutOff(s, t)
<1>0. /\ WorldOK /\ condition \in Conditions /\ graph \in Graphs /\ None \notin Nodes
      /\ s \in Operational /\ strategy \in AllStrategies
  BY RoutingAssumption, EnginesAssumption DEF EnginesInv, WorldOK, Operational
<1>1. PICK most \in Nat : IsHeaviest(most)
  BY HeaviestExists
<1>2. CASE t \notin Operational
  BY <1>0, <1>1, <1>2, IsolatedIsCutOff
<1>3. CASE t \in Operational /\ strategy = "geographic_greedy"
  <2>1. Candidates(s) = {}
    <3>1. ASSUME Candidates(s) # {} PROVE FALSE
      <4>1. None \in Greedy(s, t)
        BY <1>3, <3>1 DEF Answers
      <4>2. Greedy(s, t) \subseteq Candidates(s)
        BY DEF Greedy, Nearest, Closer, LeastDelay
      <4>3. QED
        BY <1>0, <4>1, <4>2 DEF Candidates, Operational
    <3>2. QED
      BY <3>1
  <2>2. QED
    BY <1>0, <1>1, <2>1, IsolatedIsCutOff
<1>4. CASE t \in Operational /\ strategy = "shortest_path"
  <2>1. None \in Select(s, t)
    BY <1>4 DEF Answers
  <2>2. None \in SearchResults(s, t)
    <3>1. nextHop[s][t] \subseteq Nodes
      BY <1>0 DEF WorldOK
    <3>2. QED
      BY <1>0, <2>1, <3>1 DEF Select
  <2>3. Searched(s, t) = {}
    <3>1. Searched(s, t) \subseteq Nodes
      BY <1>0, SearchIsSound
    <3>2. QED
      BY <1>0, <2>2, <3>1 DEF SearchResults
  <2>4. {s, t} \cap faulted = {}
    BY <1>4 DEF Operational
  <2>5. CASE t \in Pods
    <3>1. HopsToPod(Penalised, graph, Operational, s, t) = {}
      BY <2>3, <2>4, <2>5 DEF Searched
    <3>2. QED
      BY <1>0, <1>1, <1>4, <2>5, <3>1, UnreachedPodIsCutOff
  <2>6. CASE t \notin Pods
    <3>1. FirstHops(Penalised, Operational, s, t) = {}
      BY <2>3, <2>4, <2>6 DEF Searched
    <3>2. DOMAIN Penalised = DOMAIN graph /\ \A e \in DOMAIN graph : Penalised[e] <= most
      BY <1>1 DEF Penalised, IsHeaviest
    <3>3. Weighed(Penalised, Nodes)
      BY <1>0, PenalisedIsWeighed
    <3>4. QED
      BY <1>0, <1>1, <1>4, <3>1, <3>2, <3>3, UnreachedIsCutOff
  <2>7. QED
    BY <2>5, <2>6
<1>5. CASE t \in Operational /\ strategy \in SearchStrategies
  <2>1. None \in Cheapest(s, t)
    <3>1. None # t
      BY <1>0
    <3>2. QED
      BY <1>5, <3>1 DEF Answers, SearchStrategies
  <2>2. FirstHops(Cost(s), Operational, s, t) = {}
    <3>1. FirstHops(Cost(s), Operational, s, t) \subseteq Operational
      BY FirstHopIsEdge
    <3>2. None \notin Operational /\ {s, t} \subseteq Operational
      BY <1>0, <1>5 DEF Operational
    <3>3. QED
      BY <2>1, <3>1, <3>2 DEF Cheapest
  <2>3. DOMAIN Cost(s) = DOMAIN graph /\ \A e \in DOMAIN graph : Cost(s)[e] <= most
    BY <1>1 DEF Cost, IsHeaviest
  <2>4. Weighed(Cost(s), Nodes)
    BY <1>0, CostIsWeighed
  <2>5. PICK c : c = Cost(s)
    OBVIOUS
  <2>6. QED
    BY <1>0, <1>1, <1>5, <2>2, <2>3, <2>4, <2>5, UnreachedIsCutOff
<1>6. QED
  BY <1>0, <1>2, <1>3, <1>4, <1>5 DEF AllStrategies, SearchStrategies

\* Whatever the strategy, a packet is given up only where no operational path of
\* nodes that may be passed leads to its destination.
THEOREM GivenUpIsCutOff == SpecEngines => NoRouteMeansCutOff
<1> DEFINE A == Decides /\ to' = None /\ at' # dst' => Shortest(graph', dst')[at'] >= Infinity
<1>1. WaysInv /\ [NextEngines]_allVars => [A]_vars
  <2> SUFFICES ASSUME WaysInv, [NextEngines]_allVars, ~ UNCHANGED vars,
                      Decides, to' = None, at' # dst'
               PROVE  Shortest(graph', dst')[at'] >= Infinity
    OBVIOUS
  <2>1. PICK s \in Nodes, t \in Nodes : at' = s /\ dst' = t /\ s \notin faulted /\ to' \in Answers(s, t)
    BY DecidesByAnswer
  <2>2. CutOff(s, t)
    BY <2>1, NoAnswerIsCutOff DEF WaysInv
  <2>3. graph' = graph
    BY DecidesByAnswer DEF worldVars
  <2>4. Shortest(graph', dst')[at'] >= Infinity
    BY <2>1, <2>2, <2>3 DEF CutOff
  <2>5. QED
    BY <2>4
<1>2. NoRouteMeansCutOff <=> [][A]_vars
  BY DEF NoRouteMeansCutOff
<1>3. QED
  BY <1>1, <1>2, InitWays, StepKeepsWays, PTL DEF SpecEngines
=============================================================================
