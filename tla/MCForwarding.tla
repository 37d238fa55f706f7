---------------------------- MODULE MCForwarding ----------------------------
(***************************************************************************)
(* A small constellation for TLC: a ground station under a relay, a second *)
(* relay behind it with the pod the packets are for, and another pod.      *)
(***************************************************************************)
EXTENDS Forwarding, TLC

CONSTANTS g, r1, r2, d, d2, p1, p2, p3

Both(pairs) == pairs \cup {<<e[2], e[1]>> : e \in pairs}

Chain == Both({<<g, r1>>, <<r1, r2>>, <<r2, d>>, <<d2, r1>>})

\* The relays have lost sight of each other.
Cut == Both({<<g, r1>>, <<r2, d>>, <<d2, r1>>})

MCTopologies == {Chain, Cut}
OneTopology == {Chain}

\* Two packets of the station and a more urgent one of the other pod compete
\* for the link between the relays.
MCSrc == p1 :> g @@ p2 :> g @@ p3 :> d2
MCDst == p1 :> d @@ p2 :> d @@ p3 :> d
MCPriority == p1 :> 1 @@ p2 :> 1 @@ p3 :> 0
MCFaultSets == {{}, {r1}, {d}}

\* One packet the destination itself emits, and no faults.
PodSrc == p1 :> g @@ p2 :> g @@ p3 :> d
PodDst == p1 :> d @@ p2 :> d @@ p3 :> g
NoFaults == {{}}
=============================================================================
