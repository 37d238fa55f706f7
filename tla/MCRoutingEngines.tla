--------------------------- MODULE MCRoutingEngines ---------------------------
(***************************************************************************)
(* Four satellites in a ring, a pod under two of them and two ground       *)
(* stations, at integer points of a plane; the delay of a link is the      *)
(* distance of its ends.  Early the way from ga to gc by c is the short    *)
(* one; Later e and a are out of each other's sight, and the pod between   *)
(* them would be a short cut; in Torn only the pod has links to both       *)
(* halves.                                                                 *)
(***************************************************************************)
EXTENDS RoutingEngines, TLC

CONSTANTS a, b, c, e, pod, ga, gc

Abs(i) == IF i < 0 THEN -i ELSE i

Place == (a :> <<0, 0>>) @@ (b :> <<3, 1>>) @@ (c :> <<6, 0>>) @@ (e :> <<4, -4>>)
         @@ (pod :> <<1, -2>>) @@ (ga :> <<0, -1>>) @@ (gc :> <<7, -2>>)

Between == [l \in Nodes \X Nodes |->
              Abs(Place[l[1]][1] - Place[l[2]][1]) + Abs(Place[l[1]][2] - Place[l[2]][2])]

\* The links between the pairs, both ways.
Linked(pairs) ==
  [l \in pairs \cup {<<k[2], k[1]>> : k \in pairs} |-> Between[l]]

Ring == {<<a, b>>, <<b, c>>, <<c, e>>, <<e, a>>}

Early == Linked(Ring \cup {<<ga, a>>, <<gc, c>>, <<gc, e>>, <<pod, a>>, <<pod, e>>})
Later == Linked({<<a, b>>, <<b, c>>, <<c, e>>, <<ga, a>>, <<gc, e>>, <<pod, e>>, <<pod, a>>})
Torn == Linked({<<a, b>>, <<c, e>>, <<ga, a>>, <<gc, c>>, <<pod, a>>, <<pod, e>>})

MCGraphs == {Early, Later, Torn}
MCDistance == [w \in MCGraphs |-> Between]
MCPenalties == {<<>>, <<a, b>> :> 4 @@ <<pod, e>> :> 3 @@ <<a, pod>> :> 9}
MCFaultSets == {{}, {c}, {b, e}}

Calm == [n \in Nodes |-> [heat |-> 0, deficit |-> 0, queue |-> 0, dose |-> 0,
                          degradation |-> 1, jobs |-> 0]]
Harsh == [Calm EXCEPT ![b].heat = 2, ![e].deficit = 19, ![a].dose = 2, ![pod].degradation = 3]
Busy == [Calm EXCEPT ![c].queue = 1, ![pod].jobs = 4]
MCConditions == {Calm, Harsh, Busy}
=============================================================================
