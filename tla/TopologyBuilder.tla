--------------------------- MODULE TopologyBuilder ---------------------------
(***************************************************************************)
(* The edges of the network graph: links between satellites that follow    *)
(* from the shape of the constellation, links of ground stations to the    *)
(* satellites high enough above them, and links of pods to the satellites  *)
(* nearest to them.  Geometry is a view: what is in sight of what, above   *)
(* what, and how far from what at one moment, and in which order the ids   *)
(* of the satellites come as strings.                                      *)
(***************************************************************************)
EXTENDS Integers, FiniteSets

\* get_sat_ids, of a constellation with c[1] planes of c[2] satellites.
Satellites(c) == {<<"sat", p, s>> : p \in 0 .. c[1] - 1, s \in 0 .. c[2] - 1}

\* The order of get_sat_ids.
IsBefore(a, b) == a[2] < b[2] \/ (a[2] = b[2] /\ a[3] < b[3])

BothWays(links) == links \cup {<<l[2], l[1]>> : l \in links}
-----------------------------------------------------------------------------
(* _isl_links *)

\* A satellite alone in its plane is linked to itself.
InPlane(c) ==
  {l \in Satellites(c) \X Satellites(c) :
     l[1][2] = l[2][2] /\ l[2][3] = (l[1][3] + 1) % c[2]}

AcrossPlanes(c) ==
  {l \in Satellites(c) \X Satellites(c) :
     l[1] # l[2] /\ l[1][3] = l[2][3] /\ l[2][2] = (l[1][2] + 1) % c[1]}

\* One ring through all satellites, in their order.
RingOf(sats) ==
  {l \in sats \X sats :
     \/ IsBefore(l[1], l[2]) /\ ~ \E k \in sats : IsBefore(l[1], k) /\ IsBefore(k, l[2])
     \/ ~ \E k \in sats : IsBefore(l[1], k) \/ IsBefore(k, l[2])}

\* Fault: the planes are left to themselves.
IslLinksInPlane(c, sats) == IF sats = Satellites(c) THEN InPlane(c) ELSE RingOf(sats)

\* The links of a constellation of which only sats are registered.
IslLinks(c, sats) ==
  IF sats = Satellites(c) THEN InPlane(c) \cup AcrossPlanes(c) ELSE RingOf(sats)
-----------------------------------------------------------------------------
(* build_topology_graph and _attach_pod_edges *)

POD_ATTACH_NEAREST_SATS == 2

\* heapq.nsmallest: equally distant ones in the order of their ids, which as strings
\* are not ordered by number.
Nearest(view, sats, pod) ==
  LET Distance(s) == view.distance[<<pod, s>>]
      IsNearer(k, s) == Distance(k) < Distance(s) \/ (Distance(k) = Distance(s) /\ view.order[k] < view.order[s])
  IN  {s \in sats : Cardinality({k \in sats : IsNearer(k, s)}) < POD_ATTACH_NEAREST_SATS}

\* Fault: the second direction of a pod's link is forgotten.
BuildGraphOneWay(links, sats, pods, grounds, view, enforceSight) ==
  BothWays({l \in links : enforceSight => l \in view.sight})
  \cup BothWays({l \in sats \X grounds : l \in view.above})
  \cup {l \in pods \X sats : l[2] \in Nearest(view, sats, l[1])}

BuildGraph(links, sats, pods, grounds, view, enforceSight) ==
  BothWays({l \in links : enforceSight => l \in view.sight})
  \cup BothWays({l \in sats \X grounds : l \in view.above})
  \cup BothWays({l \in pods \X sats : l[2] \in Nearest(view, sats, l[1])})
-----------------------------------------------------------------------------
(* Properties of a graph. *)

\* Whoever can be sent to can answer.
IsMutual(graph) == \A e \in graph : <<e[2], e[1]>> \in graph

\* The nodes reached from n in at most i steps that stay within N.
Reached(graph, N, n) ==
  LET step[i \in Nat] ==
        IF i = 0 THEN {n}
        ELSE step[i - 1] \cup {m \in N : \E k \in step[i - 1] : <<k, m>> \in graph}
  IN  step[Cardinality(N)]

\* The satellites reach each other without help from the ground, and every
\* pod reaches them and is reached.
HoldsTogether(graph, sats, pods) ==
  /\ \A s \in sats : sats \subseteq Reached(graph, sats, s)
  /\ sats # {} => \A pod \in pods : \E s \in sats : {<<pod, s>>, <<s, pod>>} \subseteq graph
=============================================================================
