------------------------- MODULE BackPressureProofs -------------------------
(***************************************************************************)
(* Theorems about BackPressureRouting for every graph, load, fault set and *)
(* hop cap.                                                                *)
(***************************************************************************)
EXTENDS BackPressureRouting, Recursion, FiniteSetTheorems

\* A cached view shows what its key says; a packet in flight is on its way to
\* a node where it has not been, and may still be accepted there.
ViewMatchesKey ==
  view # None =>
    /\ view.key \in Graphs \X SUBSET Nodes
    /\ view.edges = Operational(view.key[1], view.key[2])

UnderWay ==
  outcome = "flying" =>
    to \in Nodes /\ dst \in Nodes \ Range(path) /\ Len(path) \in 1 .. MaxHops

\* The faults are those of a tick, or there has been none.
FaultsAreGiven == faulted \in FaultSets \cup {{}}

IInv == TypeOK /\ ViewMatchesKey /\ UnderWay /\ FaultsAreGiven

-----------------------------------------------------------------------------
\* Whatever is cached, decisions are taken on the operational graph.
LEMMA DecisionsAreCurrent ==
  ASSUME IInv
  PROVE  /\ DecisionEdges = Operational(graph, faulted)
         /\ DecisionEdges \subseteq Nodes \X Nodes
<1>1. graph \in Graphs /\ graph \subseteq Nodes \X Nodes
  BY RoutingAssumption DEF IInv, TypeOK
<1>2. ASSUME view # None, view.key = Key(graph, faulted)
      PROVE  view.edges = Operational(graph, faulted)
  <2>1. view.key[1] = graph /\ view.key[2] = faulted
    BY <1>2 DEF Key
  <2> QED
    BY <1>2, <2>1 DEF IInv, ViewMatchesKey
<1>3. DecisionEdges = Operational(graph, faulted)
  BY <1>2 DEF DecisionEdges
<1> QED
  BY <1>1, <1>3 DEF Operational

\* However the candidates are thinned out, they are successors.
LEMMA CandidatesAreSuccessors ==
  ASSUME NEW n, NEW t, NEW history
  PROVE  Candidates(n, t, history) \subseteq Successors(DecisionEdges, n)
<1>1. \A C, P : Prefer(C, P) \subseteq C
  BY DEF Prefer
<1> QED
  BY <1>1, Zenon DEF Candidates

\* A node the router names is reached by an operational edge.
LEMMA SelectedIsSound ==
  ASSUME IInv, NEW n, NEW t, NEW history,
         NEW h \in Select(n, t, history), h # None
  PROVE  h \in Nodes /\ <<n, h>> \in graph /\ h \notin faulted
<1>1. h \in Candidates(n, t, history)
  BY Zenon DEF Select
<1>2. h \in Nodes /\ <<n, h>> \in Operational(graph, faulted)
  BY <1>1, CandidatesAreSuccessors, DecisionsAreCurrent DEF Successors
<1> QED
  BY <1>2 DEF Operational

\* What the routing decision does to the packet and to the cache.
LEMMA RouteEffect ==
  ASSUME IInv, NEW n \in Nodes, NEW t \in Nodes, NEW history \in Seq(Nodes),
         Route(n, t, history), UNCHANGED worldVars
  PROVE  /\ outcome' \in Outcomes
         /\ {at', to', dst'} \subseteq Nodes \cup {None}
         /\ at' = n /\ dst' = t /\ path' = history
         /\ outcome' = "flying" => to' \in Nodes
         /\ to' # None => <<at', to'>> \in graph' /\ to' \notin faulted'
         /\ ViewMatchesKey'
         /\ view'.key[1] \in Graphs /\ view'.edges \subseteq Nodes \X Nodes
<1>1. PICK h \in Select(n, t, history) :
        /\ to' = h
        /\ outcome' = IF h = None \/ <<n, h>> \notin graph THEN "no_route"
                      ELSE IF h \in Pods \ {t} THEN "pod_not_transit"
                      ELSE "flying"
  BY Zenon DEF Route
<1>2. at' = n /\ dst' = t /\ path' = history
      /\ view' = [key |-> Key(graph, faulted), edges |-> DecisionEdges]
  BY Zenon DEF Route
<1>3. h # None => h \in Nodes /\ <<n, h>> \in graph /\ h \notin faulted
  BY SelectedIsSound
<1>4. graph \in Graphs /\ faulted \in SUBSET Nodes
  BY DEF IInv, TypeOK
<1>5. /\ view'.key = <<graph, faulted>> /\ view'.edges = Operational(graph, faulted)
      /\ view'.edges \subseteq Nodes \X Nodes
  BY <1>2, DecisionsAreCurrent DEF Key
<1>6. ViewMatchesKey'
  BY <1>4, <1>5 DEF ViewMatchesKey
<1>7. outcome' \in Outcomes
  BY <1>1 DEF Outcomes, Drops
<1> QED
  BY <1>1, <1>2, <1>3, <1>4, <1>5, <1>6, <1>7 DEF worldVars
\* What is seen after one more hop.
LEMMA RangeOfAppend ==
  ASSUME NEW history \in Seq(Nodes), NEW n \in Nodes
  PROVE  Range(Append(history, n)) = Range(history) \cup {n}
<1>1. Len(history) \in Nat /\ DOMAIN history = 1 .. Len(history)
      /\ DOMAIN Append(history, n) = 1 .. Len(history) + 1
  OBVIOUS
<1>2. \A i \in 1 .. Len(history) : Append(history, n)[i] = history[i]
  OBVIOUS
<1>3. Append(history, n)[Len(history) + 1] = n
  OBVIOUS
<1>4. QED
  BY <1>1, <1>2, <1>3 DEF Range
-----------------------------------------------------------------------------
LEMMA InitInv == Init => IInv
BY RoutingAssumption
   DEF Init, IInv, TypeOK, ViewMatchesKey, UnderWay, FaultsAreGiven, Outcomes

LEMMA SendInv ==
  ASSUME IInv, NEW s \in Sources, NEW t \in Destinations, Send(s, t)
  PROVE  IInv'
<1>1. s \in Nodes /\ t \in Nodes /\ MaxHops \in Nat \ {0}
  BY RoutingAssumption
<1>2. UNCHANGED worldVars /\ changedAt' = 0
  BY DEF Send
<1>3. CASE s \in faulted
  <2>1. /\ outcome' = "source_unavailable" /\ at' = s /\ to' = None /\ dst' = t
        /\ path' = <<>> /\ view' = view
    BY <1>3 DEF Send
  <2> QED
    BY <1>1, <1>2, <2>1
       DEF IInv, TypeOK, ViewMatchesKey, UnderWay, FaultsAreGiven, Outcomes, Drops, worldVars
<1>4. CASE s \notin faulted
  <2>1. Route(s, t, <<s>>)
    BY <1>4 DEF Send
  <2>2. <<s>> \in Seq(Nodes) /\ Len(<<s>>) = 1
    BY <1>1
  <2>3. /\ outcome' \in Outcomes
        /\ {at', to', dst'} \subseteq Nodes \cup {None}
        /\ dst' = t /\ path' = <<s>>
        /\ outcome' = "flying" => to' \in Nodes
        /\ ViewMatchesKey'
        /\ view'.key[1] \in Graphs /\ view'.edges \subseteq Nodes \X Nodes
    BY <1>1, <1>2, <2>1, <2>2, RouteEffect
  <2>4. t \notin Range(<<s>>)
    BY DEF Send, Range
  <2> QED
    BY <1>1, <1>2, <2>2, <2>3, <2>4 DEF IInv, TypeOK, UnderWay, FaultsAreGiven, worldVars
<1> QED
  BY <1>3, <1>4

LEMMA ArriveInv == IInv /\ Arrive => IInv'
<1> SUFFICES ASSUME IInv, Arrive PROVE IInv'
  OBVIOUS
<1>1. /\ outcome = "flying" /\ to \in Nodes /\ dst \in Nodes \ Range(path)
      /\ path \in Seq(Nodes) /\ Len(path) \in 1 .. MaxHops
      /\ changedAt \in 0 .. Len(path) /\ MaxHops \in Nat \ {0}
  BY RoutingAssumption DEF IInv, TypeOK, UnderWay, Arrive
<1>2. UNCHANGED <<worldVars, changedAt>>
  BY DEF Arrive
<1>3. /\ Append(path, to) \in Seq(Nodes)
      /\ Len(Append(path, to)) = Len(path) + 1
  BY <1>1
<1>4. ASSUME NEW result \in Outcomes \ {"flying"}, End(result),
             path' \in {path, Append(path, to)}
      PROVE  IInv'
  <2>1. /\ outcome' = result /\ outcome' # "flying"
        /\ UNCHANGED <<at, to, dst, view, graph, faulted, load, changedAt>>
    BY <1>2, <1>4 DEF End, worldVars
  <2>2. path' \in Seq(Nodes) /\ Len(path') \in Len(path) .. MaxHops + 1
    BY <1>1, <1>3, <1>4
  <2>3. changedAt' \in 0 .. Len(path')
    BY <1>1, <2>1, <2>2
  <2>4. TypeOK'
    BY <1>1, <2>1, <2>2, <2>3 DEF IInv, TypeOK
  <2>5. ViewMatchesKey' /\ FaultsAreGiven'
    BY <2>1 DEF IInv, ViewMatchesKey, FaultsAreGiven
  <2>6. QED
    BY <2>1, <2>4, <2>5 DEF IInv, UnderWay
<1>5. CASE to = dst \/ to \in faulted
  <2>1. PICK result \in Outcomes \ {"flying"} : End(result) /\ UNCHANGED path
    BY <1>5 DEF Arrive, Outcomes, Drops
  <2> QED
    BY <2>1, <1>4
<1>6. CASE to # dst /\ to \notin faulted /\ Len(path) < MaxHops
  <2>1. Route(to, dst, Append(path, to))
    BY <1>6 DEF Arrive
  <2>2. /\ outcome' \in Outcomes
        /\ {at', to', dst'} \subseteq Nodes \cup {None}
        /\ dst' = dst /\ path' = Append(path, to)
        /\ outcome' = "flying" => to' \in Nodes
        /\ ViewMatchesKey'
        /\ view'.key[1] \in Graphs /\ view'.edges \subseteq Nodes \X Nodes
    BY <1>1, <1>2, <1>3, <2>1, RouteEffect
  <2>3. dst \notin Range(Append(path, to))
    BY <1>1, <1>6, RangeOfAppend
  <2> QED
    BY <1>1, <1>2, <1>3, <1>6, <2>2, <2>3
       DEF IInv, TypeOK, UnderWay, FaultsAreGiven, worldVars
<1>7. CASE to # dst /\ to \notin faulted /\ ~ (Len(path) < MaxHops)
  <2>1. End("max_hops") /\ path' = Append(path, to)
    BY <1>7 DEF Arrive
  <2> QED
    BY <2>1, <1>4 DEF Outcomes, Drops
<1> QED
  BY <1>5, <1>6, <1>7

\* Graph, loads and faults may change under the cache.
LEMMA WorldInv == IInv /\ (TopologyUpdate \/ WorldChange) => IInv'
<1> SUFFICES ASSUME IInv, TopologyUpdate \/ WorldChange PROVE IInv'
  OBVIOUS
<1>1. /\ UNCHANGED <<outcome, at, to, dst, path>> /\ changedAt' = Len(path)
      /\ view' = view \/ view' = None
      /\ graph' \in Graphs /\ load' \in Loads /\ faulted' \in SUBSET Nodes
      /\ FaultsAreGiven'
  BY RoutingAssumption DEF TopologyUpdate, WorldChange, IInv, TypeOK, FaultsAreGiven
<1>2. Len(path) \in 0 .. Len(path)
  BY DEF IInv, TypeOK
<1> QED
  BY <1>1, <1>2 DEF IInv, TypeOK, ViewMatchesKey, UnderWay, FaultsAreGiven

LEMMA NextInv == IInv /\ [Next]_vars => IInv'
<1> SUFFICES ASSUME IInv, [Next]_vars PROVE IInv'
  OBVIOUS
<1>1. CASE UNCHANGED vars
  BY <1>1 DEF vars, worldVars, packetVars, IInv, TypeOK, ViewMatchesKey, UnderWay, FaultsAreGiven
<1>2. CASE Next
  BY <1>2, SendInv, ArriveInv, WorldInv DEF Next
<1> QED
  BY <1>1, <1>2

LEMMA Invariance == Spec => []IInv
BY InitInv, NextInv, PTL DEF Spec
-----------------------------------------------------------------------------
\* Every variable keeps its type, and no path is longer than the hop cap allows.
THEOREM TypeCorrect == Spec => []TypeOK
BY Invariance, PTL DEF IInv

\* The cached view is never older than the graph and the faults: whatever has
\* changed since it was built, the hop the router names can be taken.
THEOREM HopsAreSound == Spec => HopIsSound
<1> DEFINE Sound == Decides /\ to' # None => <<at', to'>> \in graph' /\ to' \notin faulted'
<1>1. IInv /\ [Next]_vars => [Sound]_vars
  <2> SUFFICES ASSUME IInv, Next, Decides, to' # None
               PROVE  <<at', to'>> \in graph' /\ to' \notin faulted'
    OBVIOUS
  <2>1. ASSUME NEW s \in Sources, NEW t \in Destinations, Send(s, t)
        PROVE  <<at', to'>> \in graph' /\ to' \notin faulted'
    <3>1. Route(s, t, <<s>>) /\ UNCHANGED worldVars
      BY <2>1 DEF Send
    <3>2. s \in Nodes /\ t \in Nodes /\ <<s>> \in Seq(Nodes)
      BY RoutingAssumption
    <3> QED
      BY <3>1, <3>2, RouteEffect
  <2>2. ASSUME Arrive
        PROVE  <<at', to'>> \in graph' /\ to' \notin faulted'
    <3>1. Route(to, dst, Append(path, to)) /\ UNCHANGED worldVars
      BY <2>2 DEF Arrive, End, Decides
    <3>2. to \in Nodes /\ dst \in Nodes /\ Append(path, to) \in Seq(Nodes)
      BY <2>2 DEF IInv, TypeOK, UnderWay, Arrive
    <3> QED
      BY <3>1, <3>2, RouteEffect
  <2>3. ASSUME TopologyUpdate \/ WorldChange
        PROVE  FALSE
    BY <2>3 DEF TopologyUpdate, WorldChange, Decides
  <2> QED
    BY <2>1, <2>2, <2>3 DEF Next
<1> QED
  BY Invariance, <1>1, PTL DEF Spec, HopIsSound
-----------------------------------------------------------------------------
(* The search in breadth *)

\* W[i] is reached from n in at most i hops.
IsSpread(E, n, W) ==
  /\ W[0] = {n}
  /\ \A i \in Nat : W[i + 1] = W[i] \cup {m \in Nodes : \E k \in W[i] : <<k, m>> \in E}

IsClosed(E, C) == \A k \in C, m \in Nodes : <<k, m>> \in E => m \in C

LEMMA DistanceBySpread ==
  ASSUME NEW E, NEW n \in Nodes, NEW t
  PROVE  \E W : /\ IsSpread(E, n, W)
               /\ Distance(E, n, t) = Min({Far} \cup {k \in 0 .. Far - 1 : t \in W[k]})
<1> DEFINE next(S) == S \cup UNION {Successors(E, m) : m \in S}
           D == SUBSET Nodes
           on == [i \in Nat |-> [S \in D |-> next(S)]]
           Def(g) == [i \in Nat |-> IF i = 0 THEN {n} ELSE next(g[i - 1])]
           W == CHOOSE g : g = Def(g)
<1>1. Distance(E, n, t) = Min({Far} \cup {k \in 0 .. Far - 1 : t \in W[k]})
  BY DEF Distance
<1>2. \A S \in D : next(S) \in D
  BY DEF Successors
<1>3. \E f : f = Def(f)
  <2>1. {n} \in D /\ on \in [Nat -> [D -> D]]
    <3> HIDE DEF next
    <3>1. QED
      BY <1>2
  <2>2. \A i \in Nat, S \in D : on[i][S] = next(S)
    OBVIOUS
  <2> HIDE DEF on, D
  <2>3. PICK f : Follows(D, {n}, on, f)
    BY <2>1, RecursionHolds
  <2> HIDE DEF next
  <2>4. \A i \in Nat : f[i + 1] = next(f[i])
    BY <2>2, <2>3 DEF Follows
  <2>5. ASSUME NEW i \in Nat
        PROVE  f[i] = IF i = 0 THEN {n} ELSE next(f[i - 1])
    <3>1. CASE i = 0
      BY <2>3, <3>1 DEF Follows
    <3>2. CASE i # 0
      <4>1. i - 1 \in Nat /\ (i - 1) + 1 = i
        BY <3>2
      <4>2. QED
        BY <2>4, <3>2, <4>1
    <3>3. QED
      BY <3>1, <3>2
  <2>6. f = [i \in Nat |-> f[i]]
    BY <2>3 DEF Follows
  <2>7. f = Def(f)
    BY <2>5, <2>6
  <2>8. QED
    BY <2>7
<1>4. W = Def(W)
  BY <1>3, Zenon
<1> HIDE DEF W
<1>5. \A i \in Nat : W[i] = IF i = 0 THEN {n} ELSE next(W[i - 1])
  BY <1>4
<1>6. W[0] = {n}
  BY <1>5
<1>7. ASSUME NEW i \in Nat
      PROVE  W[i + 1] = next(W[i])
  <2>1. i + 1 \in Nat /\ i + 1 # 0 /\ (i + 1) - 1 = i
    OBVIOUS
  <2> HIDE DEF next
  <2>2. QED
    BY <1>5, <2>1
<1>8. ASSUME NEW S
      PROVE  next(S) = S \cup {m \in Nodes : \E k \in S : <<k, m>> \in E}
  <2>1. \A k, m : m \in Successors(E, k) <=> m \in Nodes /\ <<k, m>> \in E
    BY DEF Successors
  <2>2. ASSUME NEW x
        PROVE  x \in next(S) <=> x \in S \/ (x \in Nodes /\ \E k \in S : <<k, x>> \in E)
    <3>1. x \in UNION {Successors(E, k) : k \in S} <=> \E k \in S : x \in Successors(E, k)
      BY Zenon
    <3>2. QED
      BY <2>1, <3>1
  <2> HIDE DEF next
  <2>3. QED
    BY <2>2
<1>9. IsSpread(E, n, W)
  <2> HIDE DEF next
  <2>1. QED
    BY <1>6, <1>7, <1>8 DEF IsSpread
<1>10. QED
  BY <1>1, <1>9

\* As long as something is added, there is one more each time; so fewer hops
\* than there are nodes are enough.
LEMMA SpreadIsClosed ==
  ASSUME NEW E, NEW n \in Nodes, NEW W, IsSpread(E, n, W)
  PROVE  /\ Far \in Nat \ {0}
         /\ n \in W[Far - 1] /\ IsClosed(E, W[Far - 1])
         /\ \A i \in 0 .. Far - 1 : W[i] \subseteq W[Far - 1]
<1>1. IsFiniteSet(Nodes)
  BY RoutingAssumption
<1>2. Far \in Nat /\ Far # 0
  BY <1>1, FS_CardinalityType, FS_EmptySet DEF Far
<1> DEFINE T == {i \in Nat : /\ n \in W[i] /\ W[i] \subseteq Nodes
                             /\ Cardinality(W[i]) > i \/ IsClosed(E, W[i])
                             /\ \A j \in 0 .. i : W[j] \subseteq W[i]}
<1>3. 0 \in T
  <2>1. W[0] = {n}
    BY DEF IsSpread
  <2>2. Cardinality({n}) = 1
    BY FS_Singleton
  <2>3. Cardinality(W[0]) > 0
    BY <2>1, <2>2
  <2>4. QED
    BY <2>1, <2>3
<1>4. ASSUME NEW i \in Nat, i \in T
      PROVE  i + 1 \in T
  <2>1. W[i + 1] = W[i] \cup {m \in Nodes : \E k \in W[i] : <<k, m>> \in E}
    BY DEF IsSpread
  <2>2. /\ n \in W[i] /\ W[i] \subseteq Nodes
        /\ Cardinality(W[i]) > i \/ IsClosed(E, W[i])
        /\ \A j \in 0 .. i : W[j] \subseteq W[i]
    BY <1>4
  <2>3. n \in W[i + 1] /\ W[i + 1] \subseteq Nodes
    BY <2>1, <2>2
  <2>4. \A j \in 0 .. i + 1 : W[j] \subseteq W[i + 1]
    <3>1. \A j \in 0 .. i + 1 : j = i + 1 \/ j \in 0 .. i
      OBVIOUS
    <3>2. W[i] \subseteq W[i + 1]
      BY <2>1
    <3>3. QED
      BY <2>2, <3>1, <3>2
  <2>5. CASE IsClosed(E, W[i])
    <3>1. W[i + 1] = W[i]
      BY <2>1, <2>5 DEF IsClosed
    <3>2. QED
      BY <2>3, <2>4, <2>5, <3>1
  <2>6. CASE ~ IsClosed(E, W[i])
    <3>1. W[i] # W[i + 1] /\ W[i] \in SUBSET W[i + 1]
      BY <2>1, <2>6 DEF IsClosed
    <3>2. IsFiniteSet(W[i + 1])
      BY <1>1, <2>3, FS_Subset
    <3>3. /\ IsFiniteSet(W[i]) /\ Cardinality(W[i]) <= Cardinality(W[i + 1])
          /\ Cardinality(W[i]) # Cardinality(W[i + 1])
      BY <3>1, <3>2, FS_Subset
    <3>4. Cardinality(W[i]) \in Nat /\ Cardinality(W[i + 1]) \in Nat
      BY <3>2, <3>3, FS_CardinalityType
    <3>5. Cardinality(W[i + 1]) > i + 1
      BY <2>2, <2>6, <3>3, <3>4
    <3>6. QED
      BY <2>3, <2>4, <3>5
  <2>7. QED
    BY <2>5, <2>6
<1>5. \A i \in Nat : i \in T
  <2> HIDE DEF T
  <2>1. QED
    BY <1>3, <1>4, ByInduction
<1>6. PICK c \in Nat : c = Far - 1
  BY <1>2
<1>7. /\ n \in W[c] /\ W[c] \subseteq Nodes
      /\ Cardinality(W[c]) > c \/ IsClosed(E, W[c])
      /\ \A j \in 0 .. c : W[j] \subseteq W[c]
  BY <1>5
<1>8. CASE Cardinality(W[c]) > c
  <2>1. W[c] \in SUBSET Nodes /\ Cardinality(W[c]) <= Far /\ Cardinality(W[c]) \in Nat
    BY <1>1, <1>7, FS_Subset, FS_CardinalityType DEF Far
  <2>2. Cardinality(W[c]) = Cardinality(Nodes)
    BY <1>2, <1>6, <1>8, <2>1 DEF Far
  <2>3. W[c] = Nodes
    BY <1>1, <2>1, <2>2, FS_Subset
  <2>4. IsClosed(E, W[c])
    BY <2>3 DEF IsClosed
  <2>5. QED
    BY <1>2, <1>6, <1>7, <2>4
<1>9. QED
  BY <1>2, <1>6, <1>7, <1>8

\* What is reached is in every set that no edge leaves.
LEMMA SpreadIsLeast ==
  ASSUME NEW E, NEW n, NEW W, IsSpread(E, n, W), NEW C, n \in C, IsClosed(E, C)
  PROVE  \A i \in Nat : W[i] \subseteq C
<1> DEFINE T == {i \in Nat : W[i] \subseteq C}
<1>1. 0 \in T
  BY DEF IsSpread
<1>2. ASSUME NEW i \in Nat, i \in T
      PROVE  i + 1 \in T
  <2>1. W[i + 1] = W[i] \cup {m \in Nodes : \E k \in W[i] : <<k, m>> \in E}
    BY DEF IsSpread
  <2>2. \A k \in W[i], m \in Nodes : <<k, m>> \in E => m \in C
    BY <1>2 DEF IsClosed
  <2>3. W[i + 1] \subseteq C
    BY <1>2, <2>1, <2>2
  <2>4. QED
    BY <2>3
<1>3. \A i \in Nat : i \in T
  <2> HIDE DEF T
  <2>1. QED
    BY <1>1, <1>2, ByInduction
<1>4. QED
  BY <1>3

\* A node is reached exactly if no set without it can keep the search.
LEMMA NearIsReached ==
  ASSUME NEW E, NEW n \in Nodes, NEW t
  PROVE  Distance(E, n, t) < Far <=> \A C : n \in C /\ IsClosed(E, C) => t \in C
<1>1. PICK W : /\ IsSpread(E, n, W)
               /\ Distance(E, n, t) = Min({Far} \cup {k \in 0 .. Far - 1 : t \in W[k]})
  BY DistanceBySpread
<1>2. /\ Far \in Nat \ {0}
      /\ n \in W[Far - 1] /\ IsClosed(E, W[Far - 1])
      /\ \A i \in 0 .. Far - 1 : W[i] \subseteq W[Far - 1]
  BY <1>1, SpreadIsClosed
<1> DEFINE S == {Far} \cup {k \in 0 .. Far - 1 : t \in W[k]}
<1>3. S \subseteq Nat /\ S # {}
  BY <1>2
<1>4. Min(S) \in S /\ \A y \in S : Min(S) <= y
  <2> HIDE DEF S
  <2>1. QED
    BY <1>3, MinIsLeast
<1>5. ASSUME Min(S) < Far, NEW C, n \in C, IsClosed(E, C)
      PROVE  t \in C
  <2>1. PICK k \in 0 .. Far - 1 : t \in W[k]
    BY <1>2, <1>4, <1>5
  <2>2. W[k] \subseteq C
    BY <1>1, <1>2, <1>5, SpreadIsLeast
  <2>3. QED
    BY <2>1, <2>2
<1>6. ASSUME \A C : n \in C /\ IsClosed(E, C) => t \in C
      PROVE  Min(S) < Far
  <2>1. t \in W[Far - 1]
    BY <1>2, <1>6
  <2>2. Far - 1 \in S
    BY <1>2, <2>1
  <2>3. QED
    BY <1>2, <1>3, <1>4, <2>2
<1>7. QED
  BY <1>1, <1>5, <1>6
-----------------------------------------------------------------------------
(* What a decision is made of *)

\* Where links lead both ways, the neighbours of a node reach the same nodes,
\* by way of it.
LEMMA NeighboursReachTheSame ==
  ASSUME IInv, NEW n \in Nodes, NEW t \in Nodes,
         NEW u \in Successors(DecisionEdges, n), NEW v \in Successors(DecisionEdges, n),
         Reaches(DecisionEdges, u, t)
  PROVE  Reaches(DecisionEdges, v, t)
<1> DEFINE E == DecisionEdges
<1>1. E = Operational(graph, faulted)
  BY DecisionsAreCurrent
<1>2. E \in Views
  BY <1>1 DEF Views, IInv, TypeOK, FaultsAreGiven
<1>3. \A e \in graph : <<e[2], e[1]>> \in graph
  BY RoutingAssumption DEF IInv, TypeOK
<1>4. \A k, m \in Nodes : <<k, m>> \in E => <<m, k>> \in E
  <2> SUFFICES ASSUME NEW k \in Nodes, NEW m \in Nodes, <<k, m>> \in graph, {k, m} \cap faulted = {}
               PROVE  <<m, k>> \in graph /\ {m, k} \cap faulted = {}
    BY <1>1 DEF Operational
  <2>1. QED
    BY <1>3
<1> HIDE DEF E
<1>5. \A m \in Nodes : HopDistance(E, m, t) = Distance(E, m, t)
  BY <1>2, Zenon DEF HopDistance, Tables
<1>6. u \in Nodes /\ v \in Nodes /\ <<n, u>> \in E /\ <<n, v>> \in E
  BY DEF Successors, E
<1>7. \A C : v \in C /\ IsClosed(E, C) => u \in C
  BY <1>4, <1>6 DEF IsClosed
<1>8. Distance(E, u, t) < Far
  BY <1>5, <1>6 DEF Reaches, E
<1>9. Distance(E, v, t) < Far
  BY <1>6, <1>7, <1>8, NearIsReached
<1>10. QED
  BY <1>5, <1>6, <1>9 DEF Reaches, E

\* Whom a packet of this history would rather not be given to.
Previous(history) == IF Len(history) < 2 THEN {} ELSE {history[Len(history) - 1]}

LEMMA CandidatesAreLastResorts ==
  ASSUME IInv, NEW n \in Nodes, NEW t \in Nodes, NEW history \in Seq(Nodes),
         t \notin Range(history)
  PROVE  LET C == Candidates(n, t, history)
             neighbours == Successors(DecisionEdges, n)
         IN  /\ C = {} => neighbours = {}
             /\ \A h \in C :
                  /\ h \in Previous(history) => neighbours \ Previous(history) \subseteq Pods
                  /\ h \in Range(history) => neighbours \ Range(history) \subseteq Pods
                  /\ h \in Pods \ {t} => neighbours \subseteq Pods
<1> DEFINE E == DecisionEdges
           M == Successors(E, n)
           C1 == Prefer(M, {m \in Nodes : Reaches(E, m, t)})
           C2 == Prefer(C1, Nodes \ Pods)
           C3 == Prefer(C2, Nodes \ Previous(history))
           C4 == Prefer(C3, Nodes \ Range(history))
<1>1. Candidates(n, t, history) = IF t \in M THEN {t} ELSE C4
  BY Zenon DEF Candidates, Previous
<1>2. Previous(history) \subseteq Range(history)
  BY DEF Previous, Range
<1>3. M \subseteq Nodes
  BY DEF Successors
<1>4. C1 = M
  <2>1. \A u, v \in M : Reaches(E, u, t) => Reaches(E, v, t)
    BY NeighboursReachTheSame
  <2> HIDE DEF E, M
  <2>2. QED
    BY <1>3, <2>1 DEF Prefer
<1> HIDE DEF E, M, C1
<1>5. C2 = IF M \subseteq Pods THEN M ELSE M \ Pods
  BY <1>3, <1>4 DEF Prefer
<1> HIDE DEF C2
<1>6. C3 = IF C2 \subseteq Previous(history) THEN C2 ELSE C2 \ Previous(history)
  BY <1>3, <1>5 DEF Prefer
<1> HIDE DEF C3
<1>7. C4 = IF C3 \subseteq Range(history) THEN C3 ELSE C3 \ Range(history)
  BY <1>3, <1>5, <1>6 DEF Prefer
<1> HIDE DEF C4
<1>8. CASE t \in M
  <2>1. t \notin Previous(history)
    BY <1>2
  <2>2. QED
    BY <1>1, <1>8, <2>1 DEF M, E
<1>9. CASE t \notin M
  <2>1. C4 = {} => M = {}
    BY <1>5, <1>6, <1>7
  <2>2. ASSUME NEW h \in C4, h \in Previous(history)
        PROVE  M \ Previous(history) \subseteq Pods
    BY <1>5, <1>6, <1>7, <2>2
  <2>3. ASSUME NEW h \in C4, h \in Range(history)
        PROVE  M \ Range(history) \subseteq Pods
    <3>1. C3 \subseteq Range(history)
      BY <1>7, <2>3
    <3>2. C2 \subseteq Range(history)
      BY <1>2, <1>6, <3>1
    <3>3. QED
      BY <1>5, <3>2
  <2>4. ASSUME NEW h \in C4, h \in Pods
        PROVE  M \subseteq Pods
    BY <1>5, <1>6, <1>7, <2>4
  <2>5. QED
    BY <1>1, <1>9, <2>1, <2>2, <2>3, <2>4 DEF M, E
<1>10. QED
  BY <1>8, <1>9

\* The bad choices of a step in which the router was asked at n.
Excused(n, t, history, h, neighbours) ==
  /\ h = None => neighbours = {}
  /\ h \in Previous(history) => neighbours \ Previous(history) \subseteq Pods
  /\ h \in Range(history) => neighbours \ Range(history) \subseteq Pods
  /\ h \in Pods \ {t} => neighbours \subseteq Pods

LEMMA RouteIsExcused ==
  ASSUME IInv, NEW n \in Nodes, NEW t \in Nodes, n # t, NEW history \in Seq(Nodes),
         t \notin Range(history), Route(n, t, history)
  PROVE  /\ at' = n /\ dst' = t /\ path' = history
         /\ Excused(n, t, history, to', Successors(Operational(graph, faulted), n))
<1> DEFINE C == Candidates(n, t, history)
           M == Successors(DecisionEdges, n)
<1>1. at' = n /\ dst' = t /\ path' = history
  BY Zenon DEF Route
<1>2. to' \in Select(n, t, history)
  BY Zenon DEF Route
<1>3. CASE C = {}
  <2>1. to' = None
    BY <1>2, <1>3, Zenon DEF Select
  <2>2. M = {}
    BY <1>3, CandidatesAreLastResorts
  <2>3. QED
    BY <1>1, <2>1, <2>2, DecisionsAreCurrent DEF Excused
<1>4. CASE C # {}
  <2>1. to' \in C
    BY <1>2, <1>4, Zenon DEF Select
  <2>2. to' # None
    <3>1. to' \in M
      BY <2>1, CandidatesAreSuccessors
    <3>2. QED
      BY <3>1, RoutingAssumption DEF Successors
  <2>3. /\ to' \in Previous(history) => M \ Previous(history) \subseteq Pods
        /\ to' \in Range(history) => M \ Range(history) \subseteq Pods
        /\ to' \in Pods \ {t} => M \subseteq Pods
    BY <2>1, CandidatesAreLastResorts
  <2>4. QED
    BY <1>1, <2>2, <2>3, DecisionsAreCurrent DEF Excused
<1>5. QED
  BY <1>3, <1>4

\* Whatever graph, loads, faults and cap, the router gives up, turns back,
\* repeats itself or names a pod only for want of anything better.
THEOREM ResortsAreLast == Spec => LastResorts
<1> DEFINE Last ==
      Decides =>
        LET neighbours == Successors(Operational(graph, faulted), at')
            previous == IF Len(path') < 2 THEN {} ELSE {path'[Len(path') - 1]}
        IN  /\ to' = None => neighbours = {}
            /\ to' \in previous => neighbours \ previous \subseteq Pods
            /\ to' \in Range(path') => neighbours \ Range(path') \subseteq Pods
            /\ to' \in Pods \ {dst'} => neighbours \subseteq Pods
<1>1. IInv /\ [Next]_vars => [Last]_vars
  <2> SUFFICES ASSUME IInv, Next, Decides
               PROVE  Last
    OBVIOUS
  <2>1. ASSUME NEW n \in Nodes, NEW t \in Nodes, n # t, NEW history \in Seq(Nodes),
               t \notin Range(history), Route(n, t, history)
        PROVE  Last
    <3>1. /\ at' = n /\ dst' = t /\ path' = history
          /\ Excused(n, t, history, to', Successors(Operational(graph, faulted), n))
      BY <2>1, RouteIsExcused
    <3>2. QED
      BY <3>1, Zenon DEF Excused, Previous
  <2> HIDE DEF Last
  <2>2. ASSUME NEW s \in Sources, NEW t \in Destinations, Send(s, t)
        PROVE  Last
    <3>1. Route(s, t, <<s>>) /\ s # t
      BY <2>2 DEF Send, Decides
    <3>2. s \in Nodes /\ t \in Nodes /\ <<s>> \in Seq(Nodes)
      BY RoutingAssumption
    <3>3. t \notin Range(<<s>>)
      BY <3>1 DEF Range
    <3>4. QED
      BY <2>1, <3>1, <3>2, <3>3
  <2>3. ASSUME Arrive
        PROVE  Last
    <3>1. Route(to, dst, Append(path, to)) /\ to # dst
      BY <2>3 DEF Arrive, End, Decides
    <3>2. to \in Nodes /\ dst \in Nodes \ Range(path) /\ path \in Seq(Nodes)
      BY <2>3 DEF IInv, TypeOK, UnderWay, Arrive
    <3>3. Append(path, to) \in Seq(Nodes) /\ dst \notin Range(Append(path, to))
      BY <3>1, <3>2, RangeOfAppend
    <3>4. QED
      BY <2>1, <3>1, <3>2, <3>3
  <2>4. ASSUME TopologyUpdate \/ WorldChange
        PROVE  FALSE
    BY <2>4 DEF TopologyUpdate, WorldChange, Decides
  <2>5. QED
    BY <2>2, <2>3, <2>4 DEF Next
<1>2. QED
  BY Invariance, <1>1, PTL DEF Spec, LastResorts
-----------------------------------------------------------------------------
(* A packet on a ring *)

Beside(E, S, n) == Successors(E, n) \cap S

IsMutual(E) == \A n, m \in Nodes : <<n, m>> \in E => <<m, n>> \in E

\* V is what has been seen of the ring S on a way from f to n by p: all but
\* the ends have both neighbours in it, and n is beside p and perhaps f only.
IsArc(E, S, V, f, p, n) ==
  /\ V \subseteq S /\ {f, p, n} \subseteq V
  /\ \A v \in V \ {f, n} : Beside(E, S, v) \subseteq V
  /\ \A v \in V \ {f, p, n} : n \notin Beside(E, S, v)
  /\ n = f => V = {f}
  /\ n # f => p # n /\ n \in Beside(E, S, p)
  /\ p # f => \E x \in V \ {n} : x \in Beside(E, S, f)

\* The packet has come to a new neighbour of n.
LEMMA ArcGoesOn ==
  ASSUME NEW E, IsMutual(E), NEW S \in SUBSET Nodes, IsRingOf(E, S),
         NEW V, NEW f, NEW p, NEW n, IsArc(E, S, V, f, p, n),
         NEW w \in Beside(E, S, n), w \notin V
  PROVE  IsArc(E, S, V \cup {w}, f, n, w)
<1>1. /\ V \subseteq S /\ f \in V /\ p \in V /\ n \in V
      /\ \A v \in V \ {f, n} : Beside(E, S, v) \subseteq V
      /\ n = f => V = {f}
      /\ n # f => p # n /\ n \in Beside(E, S, p)
      /\ p # f => \E x \in V \ {n} : x \in Beside(E, S, f)
  BY DEF IsArc
<1>2. w \in S
  BY DEF Beside
<1>3. n # f => Beside(E, S, n) = {p, w}
  <2> SUFFICES ASSUME n # f PROVE Beside(E, S, n) = {p, w}
    OBVIOUS
  <2>1. p \in Beside(E, S, n)
    BY <1>1 DEF Beside, Successors, IsMutual
  <2>2. PICK l \in S, r \in S : Beside(E, S, n) = {l, r}
    BY <1>1 DEF IsRingOf, Beside
  <2>3. p # w
    BY <1>1
  <2>4. QED
    BY <2>1, <2>2, <2>3
<1>4. \A v \in (V \cup {w}) \ {f, w} : Beside(E, S, v) \subseteq V \cup {w}
  BY <1>1, <1>3
<1>5. \A v \in (V \cup {w}) \ {f, n, w} : w \notin Beside(E, S, v)
  BY <1>1
<1>6. n # f => \E x \in (V \cup {w}) \ {w} : x \in Beside(E, S, f)
  BY <1>1
<1>7. QED
  BY <1>1, <1>2, <1>4, <1>5, <1>6 DEF IsArc

\* There is a new neighbour, unless the whole ring has been seen.
LEMMA ArcCloses ==
  ASSUME NEW E, IsMutual(E), NEW S \in SUBSET Nodes, IsRingOf(E, S),
         NEW V, NEW f, NEW p, NEW n, IsArc(E, S, V, f, p, n),
         Beside(E, S, n) \subseteq V
  PROVE  V = S
<1>1. /\ V \subseteq S /\ f \in V /\ p \in V /\ n \in V
      /\ \A v \in V \ {f, n} : Beside(E, S, v) \subseteq V
      /\ \A v \in V \ {f, p, n} : n \notin Beside(E, S, v)
      /\ n = f => V = {f}
      /\ n # f => p # n /\ n \in Beside(E, S, p)
      /\ p # f => \E x \in V \ {n} : x \in Beside(E, S, f)
  BY DEF IsArc
<1>2. \A u, v \in S : u \in Beside(E, S, v) => v \in Beside(E, S, u)
  BY DEF Beside, Successors, IsMutual
<1>3. \A v \in S : \E l, r \in S \ {v} : l # r /\ Beside(E, S, v) = {l, r}
  BY DEF IsRingOf, Beside
<1>4. n # f
  BY <1>1, <1>3
<1>5. PICK w \in S \ {n, p} : w \in Beside(E, S, n)
  BY <1>1, <1>3
<1>6. w = f
  BY <1>1, <1>2, <1>5
<1>7. PICK x \in V \ {n} : x \in Beside(E, S, f)
  BY <1>1, <1>5, <1>6
<1>8. n \in Beside(E, S, f)
  BY <1>1, <1>2, <1>5, <1>6
<1>9. Beside(E, S, f) \subseteq V
  BY <1>1, <1>3, <1>7, <1>8
<1>10. \A v \in V : Successors(E, v) \cap S \subseteq V
  BY <1>1, <1>9 DEF Beside
<1>11. V \in SUBSET S /\ V # {}
  BY <1>1
<1>12. QED
  BY <1>10, <1>11 DEF IsRingOf

IsNew(h, i) == \A k \in 1 .. i - 1 : h[k] # h[i]

\* A way along the ring towards t, with excursions to stations: it would have
\* ended next to t; one of two consecutive nodes is a new one, so that there are
\* at least half as many nodes as steps; and it ends on the ring, at the station
\* or pod where it began, or at a station it had not been to.
IsWalk(E, S, t, h) ==
  /\ h \in Seq(Nodes) /\ h # <<>>
  /\ \A i \in 1 .. Len(h) - 1 : <<h[i], t>> \notin E
  /\ \A i \in 2 .. Len(h) : IsNew(h, i) \/ IsNew(h, i - 1)
  /\ Len(h) <= 2 * Cardinality(Range(h))
  /\ IsNew(h, Len(h)) => Len(h) < 2 * Cardinality(Range(h))
  /\ LET z == h[Len(h)]
         V == Range(h) \cap S
     IN  \/ z \in S /\ \E f, p : IsArc(E, S, V, f, p, z)
         \/ z \notin S /\ Len(h) = 1
         \/ /\ z \notin S \cup Pods /\ IsNew(h, Len(h))
            /\ \E y, f, p : <<z, y>> \in E /\ IsArc(E, S, V, f, p, y)

\* Such a way never leads twice along the same link.
LEMMA WalkDoesNotLock ==
  ASSUME NEW E, NEW S, NEW t, IsWalk(E, S, t, path), changedAt = 0
  PROVE  ~ Locked
<1>1. path \in Seq(Nodes) /\ Len(path) \in Nat
      /\ \A i \in 2 .. Len(path) : IsNew(path, i) \/ IsNew(path, i - 1)
  BY DEF IsWalk
<1>2. ASSUME NEW i \in 1 .. Len(path), NEW j \in 1 .. Len(path), 1 < i, i < j,
             path[i - 1] = path[j - 1], path[i] = path[j]
      PROVE  FALSE
  <2>1. j \in 2 .. Len(path) /\ i \in 1 .. j - 1 /\ i - 1 \in 1 .. (j - 1) - 1
    BY <1>1, <1>2
  <2>2. ~ IsNew(path, j)
    BY <1>2, <2>1 DEF IsNew
  <2>3. ~ IsNew(path, j - 1)
    BY <1>2, <2>1 DEF IsNew
  <2>4. QED
    BY <1>1, <2>1, <2>2, <2>3
<1>3. QED
  BY <1>2 DEF Locked

LEMMA NewInAppend ==
  ASSUME NEW h \in Seq(Nodes), NEW m \in Nodes
  PROVE  /\ \A i \in 1 .. Len(h) : IsNew(h, i) => IsNew(Append(h, m), i)
         /\ m \notin Range(h) => IsNew(Append(h, m), Len(h) + 1)
<1> DEFINE g == Append(h, m)
<1>1. /\ Len(h) \in Nat /\ Len(g) = Len(h) + 1 /\ DOMAIN h = 1 .. Len(h)
      /\ \A i \in 1 .. Len(h) : g[i] = h[i]
      /\ g[Len(h) + 1] = m
  OBVIOUS
<1>2. \A i \in 1 .. Len(h) : h[i] \in Range(h)
  BY <1>1 DEF Range
<1> HIDE DEF g
<1>3. ASSUME NEW i \in 1 .. Len(h), IsNew(h, i)
      PROVE  IsNew(g, i)
  BY <1>1, <1>3 DEF IsNew
<1>4. m \notin Range(h) => IsNew(g, Len(h) + 1)
  BY <1>1, <1>2 DEF IsNew
<1>5. QED
  BY <1>3, <1>4 DEF g
\* A hop that is taken for want of anything better only prolongs the way.
LEMMA WalkGoesOn ==
  ASSUME NEW E, IsMutual(E), NEW S \in SUBSET (Nodes \ Pods), IsRingOf(E, S),
         NEW t \in Nodes, Successors(E, t) # {},
         NEW h, IsWalk(E, S, t, h), t \notin Range(h),
         NEW m \in Successors(E, h[Len(h)]), t \notin Successors(E, h[Len(h)]),
         m \in Range(h) => Successors(E, h[Len(h)]) \ Range(h) \subseteq Pods,
         m \in Pods => Successors(E, h[Len(h)]) \subseteq Pods
  PROVE  IsWalk(E, S, t, Append(h, m))
<1> DEFINE z == h[Len(h)]
           V == Range(h) \cap S
           g == Append(h, m)
           W == Range(g) \cap S
           M == Successors(E, z)
<1>0. S \subseteq Nodes /\ S \cap Pods = {}
  OBVIOUS
<1>1. /\ h \in Seq(Nodes) /\ Len(h) \in Nat \ {0}
      /\ \A i \in 1 .. Len(h) - 1 : <<h[i], t>> \notin E
      /\ \A i \in 2 .. Len(h) : IsNew(h, i) \/ IsNew(h, i - 1)
      /\ Len(h) <= 2 * Cardinality(Range(h))
      /\ IsNew(h, Len(h)) => Len(h) < 2 * Cardinality(Range(h))
  BY DEF IsWalk
<1>2. \/ z \in S /\ \E f, p : IsArc(E, S, V, f, p, z)
      \/ z \notin S /\ Len(h) = 1
      \/ /\ z \notin S \cup Pods /\ IsNew(h, Len(h))
         /\ \E y, f, p : <<z, y>> \in E /\ IsArc(E, S, V, f, p, y)
  BY Zenon DEF IsWalk
<1>3. m \in Nodes /\ M \subseteq Nodes /\ <<z, m>> \in E /\ <<z, t>> \notin E
  BY DEF Successors
<1>4. /\ g \in Seq(Nodes) /\ g # <<>> /\ Len(g) = Len(h) + 1
      /\ \A i \in 1 .. Len(h) : g[i] = h[i]
      /\ g[Len(h) + 1] = m
  BY <1>1, <1>3
<1>5. Range(g) = Range(h) \cup {m}
  BY <1>1, <1>3, RangeOfAppend
<1>6. /\ \A i \in 1 .. Len(h) : IsNew(h, i) => IsNew(g, i)
      /\ m \notin Range(h) => IsNew(g, Len(h) + 1)
  BY <1>1, <1>3, NewInAppend
<1>7. z \in Nodes /\ z \in Range(h) /\ \A x \in Range(h) : \E i \in 1 .. Len(h) : h[i] = x
  BY <1>1 DEF Range
<1> HIDE DEF z, V, g, W, M
<1>8. <<m, z>> \in E
  BY <1>3, <1>7 DEF IsMutual
<1>9. \A i \in 1 .. Len(g) - 1 : <<g[i], t>> \notin E
  <2>1. ASSUME NEW i \in 1 .. Len(g) - 1
        PROVE  <<g[i], t>> \notin E
    <3>1. CASE i = Len(h)
      <4>1. g[i] = z
        BY <1>1, <1>4, <3>1 DEF z
      <4>2. QED
        BY <1>3, <4>1
    <3>2. CASE i # Len(h)
      <4>1. i \in 1 .. Len(h) - 1 /\ g[i] = h[i]
        BY <1>1, <1>4, <3>2
      <4>2. QED
        BY <1>1, <4>1
    <3>3. QED
      BY <3>1, <3>2
  <2>2. QED
    BY <2>1
<1>10. ASSUME m \notin Range(h) \/ IsNew(h, Len(h)), NEW i \in 2 .. Len(g)
       PROVE  IsNew(g, i) \/ IsNew(g, i - 1)
  <2>1. CASE i = Len(h) + 1
    BY <1>1, <1>6, <1>10, <2>1
  <2>2. CASE i # Len(h) + 1
    <3>1. i \in 2 .. Len(h) /\ i \in 1 .. Len(h) /\ i - 1 \in 1 .. Len(h)
      BY <1>1, <1>4, <2>2
    <3>2. QED
      BY <1>1, <1>6, <3>1
  <2>3. QED
    BY <2>1, <2>2
<1>11. ASSUME m \notin Range(h) \/ IsNew(h, Len(h))
       PROVE  /\ Len(g) <= 2 * Cardinality(Range(g))
              /\ IsNew(g, Len(g)) => Len(g) < 2 * Cardinality(Range(g))
  <2>1. IsFiniteSet(Range(h)) /\ Cardinality(Range(h)) \in Nat
    <3>1. Range(h) \subseteq Nodes
      BY <1>1 DEF Range
    <3>2. QED
      BY <3>1, RoutingAssumption, FS_Subset, FS_CardinalityType
  <2>2. CASE m \notin Range(h)
    <3>1. Cardinality(Range(g)) = Cardinality(Range(h)) + 1
      BY <1>5, <2>1, <2>2, FS_AddElement
    <3>2. QED
      BY <1>1, <1>4, <2>1, <3>1
  <2>3. CASE m \in Range(h)
    <3>1. Range(g) = Range(h)
      BY <1>5, <2>3
    <3>2. ~ IsNew(g, Len(g))
      <4>1. PICK i \in 1 .. Len(h) : h[i] = m
        BY <1>7, <2>3
      <4>2. i \in 1 .. Len(g) - 1 /\ g[i] = g[Len(g)]
        BY <1>1, <1>4, <4>1
      <4>3. QED
        BY <4>2 DEF IsNew
    <3>3. QED
      BY <1>1, <1>4, <1>11, <2>1, <2>3, <3>1, <3>2
  <2>4. QED
    BY <2>2, <2>3
<1>12. /\ z \notin S => M \subseteq S
       /\ z \notin S \cup Pods => \A l, r \in M : l = r
  BY <1>7 DEF IsRingOf, M
<1>13. CASE z \in S /\ \E f, p : IsArc(E, S, V, f, p, z)
  <2>1. PICK f, p : IsArc(E, S, V, f, p, z)
    BY <1>13
  <2>2. V # S
    <3>1. CASE t \in S
      BY <3>1 DEF V
    <3>2. CASE t \notin S
      <4>1. PICK d \in Nodes : <<t, d>> \in E /\ d \in S
        BY <3>2 DEF IsRingOf, Successors
      <4>2. <<d, t>> \in E
        BY <4>1 DEF IsMutual
      <4>3. ASSUME NEW i \in 1 .. Len(h), h[i] = d
            PROVE  FALSE
        <5>1. CASE i = Len(h)
          BY <1>3, <4>2, <4>3, <5>1 DEF z
        <5>2. CASE i # Len(h)
          <6>1. i \in 1 .. Len(h) - 1
            BY <1>1, <5>2
          <6>2. QED
            BY <1>1, <4>2, <4>3, <6>1
        <5>3. QED
          BY <5>1, <5>2
      <4>4. QED
        BY <1>7, <4>1, <4>3 DEF V
    <3>3. QED
      BY <3>1, <3>2
  <2>3. PICK w \in Beside(E, S, z) : w \notin V
    BY <1>0, <2>1, <2>2, ArcCloses
  <2>4. w \in M \ Range(h) /\ w \notin Pods
    BY <1>0, <2>3 DEF Beside, M, V
  <2>5. m \notin Range(h) /\ m \notin Pods
    BY <2>4 DEF M, z
  <2>6. CASE m \in S
    <3>1. W = V \cup {m} /\ m \notin V /\ m \in Beside(E, S, z)
      BY <1>5, <2>5, <2>6 DEF W, V, Beside, z
    <3>2. IsArc(E, S, W, f, z, m)
      BY <1>0, <2>1, <3>1, ArcGoesOn
    <3>3. QED
      BY <1>4, <1>9, <1>10, <1>11, <2>5, <2>6, <3>2 DEF IsWalk, W, g
  <2>7. CASE m \notin S
    <3>1. W = V
      BY <1>5, <2>7 DEF W, V
    <3>2. IsNew(g, Len(g))
      BY <1>4, <1>6, <2>5
    <3>3. QED
      BY <1>4, <1>8, <1>9, <1>10, <1>11, <2>1, <2>5, <2>7, <3>1, <3>2 DEF IsWalk, W, g
  <2>8. QED
    BY <2>6, <2>7 DEF g
<1>14. CASE z \notin S /\ Len(h) = 1
  <2>1. m \in S /\ Range(h) = {z}
    BY <1>7, <1>12, <1>14 DEF M, z
  <2>2. W = {m} /\ m \notin Range(h)
    BY <1>5, <1>14, <2>1 DEF W
  <2>3. IsArc(E, S, W, m, m, m)
    BY <2>1, <2>2 DEF IsArc
  <2>4. QED
    BY <1>4, <1>9, <1>10, <1>11, <2>1, <2>2, <2>3 DEF IsWalk, W, g
<1>15. CASE /\ z \notin S \cup Pods /\ IsNew(h, Len(h))
            /\ \E y, f, p : <<z, y>> \in E /\ IsArc(E, S, V, f, p, y)
  <2>1. PICK y, f, p : <<z, y>> \in E /\ IsArc(E, S, V, f, p, y)
    BY <1>15
  <2>2. y \in V /\ V \subseteq S
    BY <2>1 DEF IsArc
  <2>3. m = y
    BY <1>0, <1>12, <1>15, <2>1, <2>2 DEF M, z, Successors
  <2>4. m \in S /\ W = V
    BY <1>5, <2>2, <2>3 DEF W, V
  <2>5. QED
    BY <1>4, <1>9, <1>10, <1>11, <1>15, <2>1, <2>3, <2>4 DEF IsWalk, W, g
<1>16. QED
  BY <1>2, <1>13, <1>14, <1>15

\* Where a packet starts.
LEMMA WalkStarts ==
  ASSUME NEW E, NEW S, NEW t, NEW n \in Nodes
  PROVE  IsWalk(E, S, t, <<n>>)
<1> DEFINE h == <<n>>
<1>1. h \in Seq(Nodes) /\ h # <<>> /\ Len(h) = 1 /\ h[1] = n
  OBVIOUS
<1>2. Range(h) = {n}
  BY DEF Range
<1> HIDE DEF h
<1>3. n \in S => IsArc(E, S, Range(h) \cap S, n, n, n)
  BY <1>2 DEF IsArc
<1>4. Cardinality(Range(h)) = 1
  <2>1. Cardinality({n}) = 1
    BY FS_Singleton
  <2>2. QED
    BY <1>2, <2>1
<1>5. QED
  BY <1>1, <1>3, <1>4 DEF IsWalk, h
\* It is at most twice as long as there are other nodes than t.
LEMMA WalkIsShort ==
  ASSUME NEW E, NEW S, NEW t \in Nodes, NEW h, IsWalk(E, S, t, h), t \notin Range(h)
  PROVE  Len(h) \in Nat /\ Far \in Nat /\ Len(h) <= 2 * (Far - 1)
<1>1. h \in Seq(Nodes) /\ Len(h) \in Nat /\ Len(h) <= 2 * Cardinality(Range(h))
  BY DEF IsWalk
<1>2. Range(h) \subseteq Nodes \ {t}
  BY <1>1 DEF Range
<1>3. /\ IsFiniteSet(Nodes \ {t}) /\ Cardinality(Nodes) \in Nat
      /\ Cardinality(Nodes \ {t}) = Cardinality(Nodes) - 1
  BY RoutingAssumption, FS_RemoveElement, FS_CardinalityType
<1>4. /\ Cardinality(Range(h)) <= Cardinality(Nodes \ {t})
      /\ Cardinality(Range(h)) \in Nat
  BY <1>2, <1>3, FS_Subset, FS_CardinalityType
<1>5. QED
  BY <1>1, <1>3, <1>4 DEF Far

\* At its end there is a satellite to go on to, if there was one at its start.
LEMMA WalkIsNotStuck ==
  ASSUME NEW E, NEW S \in SUBSET (Nodes \ Pods), IsRingOf(E, S), NEW t,
         NEW h, IsWalk(E, S, t, h), Successors(E, h[1]) # {}
  PROVE  ~ (Successors(E, h[Len(h)]) \subseteq Pods)
<1> DEFINE z == h[Len(h)]
<1>1. /\ h \in Seq(Nodes) /\ h # <<>>
      /\ \/ z \in S /\ \E f, p : IsArc(E, S, Range(h) \cap S, f, p, z)
         \/ z \notin S /\ Len(h) = 1
         \/ /\ z \notin S \cup Pods /\ IsNew(h, Len(h))
            /\ \E y, f, p : <<z, y>> \in E /\ IsArc(E, S, Range(h) \cap S, f, p, y)
  BY Zenon DEF IsWalk
<1>2. z \in Nodes
  BY <1>1
<1> HIDE DEF z
<1>3. CASE z \in S
  <2>1. PICK l \in S : l \in Successors(E, z)
    BY <1>3 DEF IsRingOf
  <2>2. QED
    BY <2>1 DEF z
<1>4. CASE z \notin S /\ Len(h) = 1
  <2>1. Successors(E, z) \subseteq S
    BY <1>2, <1>4 DEF IsRingOf
  <2>2. Successors(E, z) # {}
    BY <1>4 DEF z
  <2>3. QED
    BY <2>1, <2>2 DEF z
<1>5. CASE \E y, f, p : <<z, y>> \in E /\ IsArc(E, S, Range(h) \cap S, f, p, y)
  <2>1. PICK y, f, p : <<z, y>> \in E /\ IsArc(E, S, Range(h) \cap S, f, p, y)
    BY <1>5
  <2>2. y \in S
    BY <2>1 DEF IsArc
  <2>3. y \in Successors(E, z) /\ y \notin Pods
    BY <2>1, <2>2 DEF Successors
  <2>4. QED
    BY <2>3 DEF z
<1>6. QED
  BY <1>1, <1>3, <1>4, <1>5

\* Under a ring, the packet has come along such a way, and so will it have if
\* it arrives where it is on its way to; and it is not dropped.
OnRing ==
  \A S \in SUBSET (Nodes \ Pods) :
    LET E == Operational(graph, faulted)
    IN  changedAt = 0 /\ path # <<>> /\ IsRingOf(E, S) /\ Successors(E, dst) # {}
        => /\ IsWalk(E, S, dst, path)
           /\ outcome = "flying" =>
                /\ to \in Successors(E, path[Len(path)])
                /\ to # dst => IsWalk(E, S, dst, Append(path, to))
           /\ Successors(E, path[1]) # {} /\ MaxHops >= 2 * (Far - 1)
              => outcome \in {"flying", "delivered"}

\* Links lead both ways, and stop doing so together.
LEMMA OperationalIsMutual ==
  ASSUME IInv
  PROVE  IsMutual(Operational(graph, faulted))
<1>1. \A e \in graph : <<e[2], e[1]>> \in graph
  BY RoutingAssumption DEF IInv, TypeOK
<1>2. ASSUME NEW n \in Nodes, NEW m \in Nodes, <<n, m>> \in graph, {n, m} \cap faulted = {}
      PROVE  <<m, n>> \in graph /\ {m, n} \cap faulted = {}
  BY <1>1, <1>2
<1>3. QED
  BY <1>2 DEF IsMutual, Operational

\* Whoever is next to the destination gives the packet to it.
LEMMA NextToDestination ==
  ASSUME IInv, NEW n \in Nodes, NEW t \in Nodes, n # t, NEW history,
         t \in Successors(Operational(graph, faulted), n),
         NEW h \in Select(n, t, history)
  PROVE  h = t
<1>1. Candidates(n, t, history) = {t}
  BY DecisionsAreCurrent, Zenon DEF Candidates
<1>2. QED
  BY <1>1, Zenon DEF Select

LEMMA RouteOnRing ==
  ASSUME IInv, NEW n \in Nodes, NEW t \in Nodes, n # t, NEW history \in Seq(Nodes),
         t \notin Range(history), Route(n, t, history), UNCHANGED worldVars,
         NEW S \in SUBSET (Nodes \ Pods), NEW E, E = Operational(graph, faulted),
         IsRingOf(E, S), Successors(E, t) # {},
         IsWalk(E, S, t, history), n = history[Len(history)]
  PROVE  /\ outcome' = "flying" =>
              /\ to' \in Successors(E, n)
              /\ to' # t => IsWalk(E, S, t, Append(history, to'))
         /\ Successors(E, history[1]) # {} => outcome' = "flying"
<1> DEFINE M == Successors(E, n)
<1>1. PICK h \in Select(n, t, history) :
        /\ to' = h
        /\ outcome' = IF h = None \/ <<n, h>> \notin graph THEN "no_route"
                      ELSE IF h \in Pods \ {t} THEN "pod_not_transit"
                      ELSE "flying"
  BY Zenon DEF Route
<1>2. /\ h = None => M = {}
      /\ h \in Range(history) => M \ Range(history) \subseteq Pods
      /\ h \in Pods \ {t} => M \subseteq Pods
  <2>1. Excused(n, t, history, to', M)
    BY RouteIsExcused
  <2>2. QED
    BY <1>1, <2>1 DEF Excused
<1>3. h # None => h \in M
  <2>1. h # None => h \in Candidates(n, t, history)
    BY Zenon DEF Select
  <2>2. QED
    BY <2>1, CandidatesAreSuccessors, DecisionsAreCurrent
<1>4. h \in M => <<n, h>> \in graph
  BY DEF Successors, Operational
<1>5. t \in M => h = t
  BY NextToDestination
<1>6. ASSUME outcome' = "flying", h # t
      PROVE  IsWalk(E, S, t, Append(history, h))
  <2>1. h \in M /\ h \notin Pods /\ t \notin M
    BY <1>1, <1>3, <1>5, <1>6
  <2>2. IsMutual(E)
    BY OperationalIsMutual
  <2>3. QED
    BY <1>2, <2>1, <2>2, WalkGoesOn
<1>7. ASSUME Successors(E, history[1]) # {}
      PROVE  outcome' = "flying"
  <2>1. ~ (M \subseteq Pods)
    BY <1>7, WalkIsNotStuck
  <2>2. h # None /\ h \notin Pods \ {t}
    BY <1>2, <2>1
  <2>3. QED
    BY <1>1, <1>3, <1>4, <2>2
<1>8. QED
  BY <1>1, <1>3, <1>6, <1>7
-----------------------------------------------------------------------------
RingInv == IInv /\ OnRing

LEMMA RingInit == Init => OnRing
BY DEF Init, OnRing

LEMMA RingSend ==
  ASSUME IInv, NEW s \in Sources, NEW t \in Destinations, Send(s, t)
  PROVE  OnRing'
<1>1. s \in Nodes /\ t \in Nodes /\ s # t
  BY RoutingAssumption DEF Send
<1>2. UNCHANGED worldVars /\ graph' = graph /\ faulted' = faulted
  BY DEF Send, worldVars
<1>3. CASE s \in faulted
  <2>1. path' = <<>>
    BY <1>3 DEF Send
  <2>2. QED
    BY <2>1 DEF OnRing
<1>4. CASE s \notin faulted
  <2>1. Route(s, t, <<s>>)
    BY <1>4 DEF Send
  <2>2. dst' = t /\ path' = <<s>>
    BY <2>1, Zenon DEF Route
  <2>3. /\ <<s>> \in Seq(Nodes) /\ s = <<s>>[Len(<<s>>)] /\ s = <<s>>[1]
        /\ t \notin Range(<<s>>)
    BY <1>1 DEF Range
  <2>4. PICK h : h = <<s>>
    OBVIOUS
  <2>5. ASSUME NEW S \in SUBSET (Nodes \ Pods), NEW E, E = Operational(graph, faulted),
               IsRingOf(E, S), Successors(E, t) # {}
        PROVE  /\ IsWalk(E, S, t, h)
               /\ outcome' = "flying" =>
                    /\ to' \in Successors(E, h[Len(h)])
                    /\ to' # t => IsWalk(E, S, t, Append(h, to'))
               /\ Successors(E, h[1]) # {} => outcome' = "flying"
    <3>1. IsWalk(E, S, t, h)
      BY <1>1, <2>4, WalkStarts
    <3>2. QED
      BY <1>1, <1>2, <2>1, <2>3, <2>4, <2>5, <3>1, RouteOnRing
  <2>6. QED
    BY <1>2, <2>2, <2>4, <2>5 DEF OnRing
<1>5. QED
  BY <1>3, <1>4

LEMMA RingArrive == RingInv /\ Arrive => OnRing'
<1> SUFFICES ASSUME RingInv, Arrive PROVE OnRing'
  OBVIOUS
<1>1. /\ outcome = "flying" /\ to \in Nodes /\ dst \in Nodes \ Range(path)
      /\ path \in Seq(Nodes) /\ Len(path) \in 1 .. MaxHops /\ MaxHops \in Nat
  BY RoutingAssumption DEF RingInv, IInv, TypeOK, UnderWay, Arrive
<1>2. /\ UNCHANGED worldVars /\ graph' = graph /\ faulted' = faulted
      /\ changedAt' = changedAt /\ path # <<>>
  BY <1>1 DEF Arrive, worldVars
<1> DEFINE E == Operational(graph, faulted)
           R(S) == changedAt = 0 /\ IsRingOf(E, S) /\ Successors(E, dst) # {}
           h == Append(path, to)
<1>3. ASSUME NEW S \in SUBSET (Nodes \ Pods), R(S)
      PROVE  /\ IsWalk(E, S, dst, path)
             /\ to \notin faulted
             /\ to # dst => IsWalk(E, S, dst, h)
  <2>1. /\ IsWalk(E, S, dst, path)
        /\ to \in Successors(E, path[Len(path)])
        /\ to # dst => IsWalk(E, S, dst, h)
    BY <1>1, <1>2, <1>3 DEF RingInv, OnRing
  <2>2. QED
    BY <2>1 DEF Successors, Operational
<1>4. /\ h \in Seq(Nodes) /\ to = h[Len(h)] /\ h[1] = path[1]
      /\ Len(h) = Len(path) + 1
      /\ to # dst => dst \notin Range(h)
  BY <1>1, RangeOfAppend
<1> HIDE DEF h
<1>5. CASE /\ outcome' # "flying" /\ dst' = dst
           /\ path' = path \/ (to # dst /\ path' = h)
           /\ to \notin faulted /\ (to # dst => Len(path) < MaxHops) => outcome' = "delivered"
           /\ to # dst /\ to \notin faulted => path' = h
  <2>1. ASSUME NEW S \in SUBSET (Nodes \ Pods), R(S)
        PROVE  /\ IsWalk(E, S, dst, path')
               /\ MaxHops >= 2 * (Far - 1) => outcome' = "delivered"
    <3>1. IsWalk(E, S, dst, path')
      BY <1>3, <1>5, <2>1
    <3>2. ASSUME to # dst, MaxHops >= 2 * (Far - 1)
          PROVE  Len(path) < MaxHops
      <4>1. Len(h) \in Nat /\ Far \in Nat /\ Len(h) <= 2 * (Far - 1)
        BY <1>1, <1>3, <1>4, <2>1, <3>2, WalkIsShort
      <4>2. QED
        BY <1>1, <1>4, <3>2, <4>1
    <3>3. QED
      BY <1>3, <1>5, <2>1, <3>1, <3>2
  <2>2. QED
    BY <1>2, <1>5, <2>1 DEF OnRing
<1>6. CASE to # dst /\ Route(to, dst, h)
  <2>1. dst' = dst /\ path' = h
    BY <1>6, Zenon DEF Route
  <2>2. ASSUME NEW S \in SUBSET (Nodes \ Pods), R(S)
        PROVE  /\ IsWalk(E, S, dst, h)
               /\ outcome' = "flying" =>
                    /\ to' \in Successors(E, h[Len(h)])
                    /\ to' # dst => IsWalk(E, S, dst, Append(h, to'))
               /\ Successors(E, h[1]) # {} => outcome' = "flying"
    <3>1. IsWalk(E, S, dst, h)
      BY <1>3, <1>6, <2>2
    <3>2. QED
      BY <1>1, <1>2, <1>4, <1>6, <2>2, <3>1, RouteOnRing DEF RingInv
  <2>3. QED
    BY <1>2, <2>1, <2>2 DEF OnRing
<1>7. QED
  BY <1>5, <1>6 DEF Arrive, End, h

LEMMA RingNext == RingInv /\ [Next]_vars => RingInv'
<1> SUFFICES ASSUME RingInv, [Next]_vars PROVE OnRing'
  BY NextInv DEF RingInv
<1>1. CASE UNCHANGED vars
  BY <1>1 DEF vars, worldVars, packetVars, RingInv, OnRing
<1>2. ASSUME TopologyUpdate \/ WorldChange
      PROVE  OnRing'
  <2>1. changedAt' = Len(path) /\ path' = path /\ path \in Seq(Nodes)
    BY <1>2 DEF TopologyUpdate, WorldChange, RingInv, IInv, TypeOK
  <2>2. path' = <<>> \/ changedAt' # 0
    BY <2>1
  <2>3. QED
    BY <2>2 DEF OnRing
<1>3. QED
  BY <1>1, <1>2, RingSend, RingArrive DEF Next, RingInv

\* Whatever the size of the ring, the stations and pods around it, the loads
\* and the cap: a packet under an intact ring never comes twice along a link
\* without having seen a new node in between, and if the cap leaves two hops
\* for each node but one, it is not dropped before it is delivered.
THEOREM RingsDeliver == Spec => []IntactRingsDeliver
<1>1. RingInv => IntactRingsDeliver
  <2> SUFFICES ASSUME RingInv, changedAt = 0, path # <<>>,
                      NEW S \in SUBSET (Nodes \ Pods),
                      IsRingOf(Operational(graph, faulted), S),
                      Successors(Operational(graph, faulted), dst) # {}
               PROVE  /\ ~ Locked
                      /\ /\ Successors(Operational(graph, faulted), path[1]) # {}
                         /\ MaxHops >= 2 * (Far - 1)
                         => outcome \in {"flying", "delivered"}
    BY Zenon DEF IntactRingsDeliver, IntactRings
  <2>1. /\ IsWalk(Operational(graph, faulted), S, dst, path)
        /\ /\ Successors(Operational(graph, faulted), path[1]) # {}
           /\ MaxHops >= 2 * (Far - 1)
           => outcome \in {"flying", "delivered"}
    BY DEF RingInv, OnRing
  <2>2. ~ Locked
    BY <2>1, WalkDoesNotLock
  <2>3. QED
    BY <2>1, <2>2
<1>2. QED
  BY <1>1, InitInv, RingInit, RingNext, PTL DEF Spec, RingInv
=============================================================================
