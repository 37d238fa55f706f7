------------------------ MODULE MCBackPressureRouting ------------------------
(***************************************************************************)
(* A ring of four satellites, two ground stations under b, one under a and *)
(* a pod under two satellites.  After a rebuild the pod is under others,   *)
(* and the ring may be open.  Without c the ring is a line with the two    *)
(* stations at one end.                                                    *)
(***************************************************************************)
EXTENDS BackPressureRouting, TLC

CONSTANTS a, b, c, e, q, r, s, pod

Both(pairs) == pairs \cup {<<l[2], l[1]>> : l \in pairs}

Ring == {<<a, b>>, <<b, c>>, <<c, e>>, <<e, a>>}
Access == {<<q, b>>, <<r, b>>, <<s, a>>}

Early == Both(Ring \cup Access \cup {<<pod, c>>, <<pod, e>>})
\* The pod is under other satellites, and a link is out of sight: no ring.
Open == Both((Ring \ {<<c, e>>}) \cup Access \cup {<<pod, a>>, <<pod, e>>})

MCGraphs == {Early, Open}
OneGraph == {Early}

\* All links alike; and a load on a and e, which makes stations attractive.
Even == [l \in Nodes \X Nodes |-> 1]
Uneven == [l \in Nodes \X Nodes |-> CASE l[2] = e -> 3 [] l[2] = a -> 2 [] OTHER -> 1]

MCLoads == {Even, Uneven}
OneLoad == {Uneven}

MCFaultSets == {{}, {s}, {b, e}}
OneFault == {{}, {c}}
=============================================================================
