------------------------ MODULE MCShortestPathRouting ------------------------
(***************************************************************************)
(* Four satellites in a ring, a pod under two of them and two ground       *)
(* stations.  From ga to gc the way by b and c is the short one; it is     *)
(* left for e when c fails, or when the graph has moved on.  In Torn only   *)
(* the pod has links to both halves.                                       *)
(***************************************************************************)
EXTENDS ShortestPathRouting, TLC

CONSTANTS a, b, c, e, pod, ga, gc

\* The weights of the links, the same in both directions.
Symmetric(weights) ==
  weights @@ [l \in {<<k[2], k[1]>> : k \in DOMAIN weights} |-> weights[<<l[2], l[1]>>]]

Ring(ab, bc, ce, ea) ==
  (<<a, b>> :> ab) @@ (<<b, c>> :> bc) @@ (<<c, e>> :> ce) @@ (<<e, a>> :> ea)

Access(stations) == [l \in stations |-> 1]

Early == Symmetric(Ring(1, 1, 2, 5) @@ Access({<<ga, a>>, <<gc, c>>, <<gc, e>>, <<pod, a>>, <<pod, e>>}))
Later == Symmetric(Ring(1, 1, 3, 5) @@ Access({<<ga, b>>, <<gc, e>>, <<pod, e>>, <<pod, c>>}))
Torn == Symmetric((<<a, b>> :> 1) @@ (<<c, e>> :> 1) @@ Access({<<ga, a>>, <<gc, c>>, <<pod, a>>, <<pod, e>>}))

MCGraphs == {Early, Later, Torn}
MCPenalties == {<<>>, <<a, b>> :> 4, <<pod, e>> :> 3 @@ <<a, pod>> :> 3}
MCFaultSets == {{}, {c}, {b, e}}
=============================================================================
