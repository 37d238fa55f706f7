-------------------------- MODULE ForwardingProofs --------------------------
(***************************************************************************)
(* Theorems about Forwarding for every registry, every packet header,      *)
(* every capacity and hop cap, and every way the topology and the faults   *)
(* may change.                                                             *)
(***************************************************************************)
EXTENDS Forwarding, Recursion, FiniteSetTheorems, TLAPS

OnLinkStages == {"waiting", "sending", "flying"}

\* A packet that is on a link is on a link that some topology has, may still
\* be accepted once more, and enters a pod only as its destination; one that
\* has not started has made no hop; exactly the ended ones have a fate.
OnLinkOf(p) ==
  /\ stage[p] \in OnLinkStages =>
       /\ Link(p) \in Links
       /\ hops[p] < MaxHops
       /\ to[p] \in Pods => to[p] = Dst[p]
  /\ stage[p] \in {"unpublished", "spawned"} => hops[p] = 0
  /\ stage[p] = "ended" <=> fate[p] # "none"

OnLink == \A p \in Packets : OnLinkOf(p)

TypeInv == TypeOK /\ OnLink

-----------------------------------------------------------------------------
(* Typing. *)

LEMMA LinksAreNodePairs == Links \subseteq Nodes \X Nodes
  BY EnvironmentAssumption DEF Links

\* Asking for a link leaves every packet with a stage, and the requests typed.
LEMMA RequestType ==
  ASSUME TypeInv, NEW p \in Packets, NEW n \in Nodes, NEW m \in Nodes,
         <<n, m>> \in Links, Request(p, n, m)
  PROVE  /\ stage' \in [Packets -> Stages]
         /\ at' \in [Packets -> Nodes]
         /\ to' \in [Packets -> Nodes]
         /\ before' \in [Packets -> SUBSET Packets]
         /\ holder' \in [Links -> Packets \cup {Nobody}]
         /\ at'[p] = n /\ to'[p] = m
         /\ stage'[p] \in {"waiting", "sending"}
         /\ \A q \in Packets \ {p} : at'[q] = at[q] /\ to'[q] = to[q]
         /\ \A q \in Packets \ {p} :
              stage'[q] = stage[q] \/ (stage[q] = "waiting" /\ stage'[q] = "sending")
<1>1. /\ at' \in [Packets -> Nodes] /\ to' \in [Packets -> Nodes]
      /\ at'[p] = n /\ to'[p] = m
      /\ \A q \in Packets \ {p} : at'[q] = at[q] /\ to'[q] = to[q]
  BY DEF Request, TypeInv, TypeOK
<1>2. Waiting(<<n, m>>) \in SUBSET Packets
  BY DEF Waiting
<1>3. CASE /\ holder' = [holder EXCEPT ![<<n, m>>] = p]
           /\ stage' = [stage EXCEPT ![p] = "sending"]
           /\ UNCHANGED before
  BY <1>1, <1>3 DEF TypeInv, TypeOK, Stages
<1>4. ASSUME NEW q \in Waiting(<<n, m>>),
             holder' = [holder EXCEPT ![<<n, m>>] = q],
             stage' = [stage EXCEPT ![p] = "waiting", ![q] = "sending"],
             before' = [Granted(q) EXCEPT ![p] = Waiting(<<n, m>>) \ {q}]
      PROVE  /\ stage' \in [Packets -> Stages]
             /\ before' \in [Packets -> SUBSET Packets]
             /\ holder' \in [Links -> Packets \cup {Nobody}]
             /\ stage'[p] \in {"waiting", "sending"}
             /\ \A r \in Packets \ {p} :
                  stage'[r] = stage[r] \/ (stage[r] = "waiting" /\ stage'[r] = "sending")
  <2>1. q \in Packets /\ stage[q] = "waiting"
    BY <1>4 DEF Waiting
  <2>2. Granted(q) \in [Packets -> SUBSET Packets]
    BY DEF Granted, TypeInv, TypeOK
  <2>. QED
    BY <1>2, <1>4, <2>1, <2>2 DEF TypeInv, TypeOK, Stages
<1>5. CASE /\ stage' = [stage EXCEPT ![p] = "waiting"]
           /\ before' = [before EXCEPT ![p] = Waiting(<<n, m>>)]
           /\ UNCHANGED holder
  BY <1>1, <1>2, <1>5 DEF TypeInv, TypeOK, Stages
<1>. QED
  BY <1>1, <1>3, <1>4, <1>5 DEF Request

\* Ending at a node leaves the packet's stage, place and fate typed.
LEMMA EndType ==
  ASSUME TypeInv, NEW p \in Packets, NEW n \in Nodes,
         NEW why \in Fates \ {"none"}, End(p, n, why)
  PROVE  /\ stage' \in [Packets -> Stages]
         /\ at' \in [Packets -> Nodes]
         /\ to' \in [Packets -> Nodes]
         /\ fate' \in [Packets -> Fates]
         /\ stage'[p] = "ended" /\ at'[p] = n /\ fate'[p] = why
         /\ \A q \in Packets \ {p} :
              /\ stage'[q] = stage[q] /\ at'[q] = at[q]
              /\ to'[q] = to[q] /\ fate'[q] = fate[q]
  BY DEF End, TypeInv, TypeOK, Stages

\* What a step does to the packets other than the one it is about.
OthersStay(p) ==
  \A q \in Packets \ {p} :
    /\ at'[q] = at[q] /\ to'[q] = to[q] /\ fate'[q] = fate[q] /\ hops'[q] = hops[q]
    /\ stage'[q] = stage[q] \/ (stage[q] = "waiting" /\ stage'[q] = "sending")

LEMMA OnLinkStep ==
  ASSUME TypeInv, NEW p \in Packets, OthersStay(p), OnLinkOf(p)'
  PROVE  OnLink'
  BY DEF TypeInv, OnLink, OnLinkOf, OthersStay, OnLinkStages, Link

LEMMA EnqueuedType ==
  ASSUME TypeOK, NEW p \in Packets, NEW n \in Nodes
  PROVE  /\ Enqueued(p, n) \in [Buffered -> Seq(Packets)]
         /\ n \in Buffered => /\ Enqueued(p, n)[n] = Append(queue[n], p)
                              /\ Len(Enqueued(p, n)[n]) = Len(queue[n]) + 1
                              /\ Tail(Enqueued(p, n)[n]) \in Seq(Packets)
                              /\ Len(Tail(Enqueued(p, n)[n])) = Len(queue[n])
         /\ \A k \in Buffered \ {n} : Enqueued(p, n)[k] = queue[k]
<1>1. CASE n \in Buffered
  <2>1. queue[n] \in Seq(Packets)
    BY <1>1 DEF TypeOK
  <2>2. Append(queue[n], p) \in Seq(Packets) /\ Len(Append(queue[n], p)) = Len(queue[n]) + 1
    BY <2>1
  <2>3. Append(queue[n], p) # <<>>
    BY <2>1
  <2>4. /\ Tail(Append(queue[n], p)) \in Seq(Packets)
        /\ Len(Tail(Append(queue[n], p))) = Len(queue[n])
    BY <2>1, <2>2, <2>3
  <2>. QED
    BY <1>1, <2>1, <2>2, <2>4 DEF Enqueued, TypeOK
<1>2. CASE n \notin Buffered
  BY <1>2 DEF Enqueued, TypeOK
<1>. QED
  BY <1>1, <1>2

\* The typing of everything a forwarding step may touch.
ForwardTyped ==
  /\ stage \in [Packets -> Stages]
  /\ at \in [Packets -> Nodes]
  /\ to \in [Packets -> Nodes]
  /\ hops \in [Packets -> 0 .. MaxHops]
  /\ before \in [Packets -> SUBSET Packets]
  /\ fate \in [Packets -> Fates]
  /\ blamed \in SUBSET Packets
  /\ holder \in [Links -> Packets \cup {Nobody}]
  /\ queue \in [Buffered -> Seq(Packets)]
  /\ sent \in [Nodes -> Nat]

\* Dispatching p either puts it on a link out of n or strands it at n; a relay
\* pays for the slot p took with its oldest one only in the first case.
LEMMA DispatchEffect ==
  ASSUME TypeInv, NEW p \in Packets, NEW n \in Nodes, NEW h \in 0 .. MaxHops,
         fate[p] = "none", Dispatch(p, n, h)
  PROVE  /\ ForwardTyped'
         /\ OthersStay(p)
         /\ OnLinkOf(p)'
         /\ hops'[p] = h
         /\ at'[p] = n
         /\ \/ /\ stage'[p] \in {"waiting", "sending"}
               /\ fate'[p] = fate[p]
               /\ h < MaxHops
               /\ blamed' = blamed
               /\ n \in Relays =>
                    /\ Len(queue'[n]) = Len(queue[n])
                    /\ sent' = [sent EXCEPT ![n] = @ + 1]
               /\ n \notin Relays => queue' = Enqueued(p, n) /\ sent' = sent
            \/ /\ stage'[p] = "ended"
               /\ fate'[p] \in Strandings
               /\ blamed' = IF n \in faulted THEN blamed \cup {p} ELSE blamed
               /\ queue' = Enqueued(p, n)
               /\ sent' = sent
         /\ \A k \in Buffered \ {n} : queue'[k] = queue[k]
<1> USE DEF TypeInv
<1>0. /\ hops' = [hops EXCEPT ![p] = h] /\ hops' \in [Packets -> 0 .. MaxHops]
      /\ hops'[p] = h /\ \A q \in Packets \ {p} : hops'[q] = hops[q]
  BY DEF Dispatch, TypeOK
<1>1. CASE /\ h < MaxHops
           /\ \E m \in Usable(p, n) :
                /\ queue' = IF n \in Relays
                            THEN [Enqueued(p, n) EXCEPT ![n] = Tail(@)]
                            ELSE Enqueued(p, n)
                /\ sent' = IF n \in Relays THEN [sent EXCEPT ![n] = @ + 1] ELSE sent
                /\ Request(p, n, m)
                /\ UNCHANGED <<fate, blamed>>
  <2>1. PICK m \in Usable(p, n) :
          /\ queue' = IF n \in Relays
                      THEN [Enqueued(p, n) EXCEPT ![n] = Tail(@)]
                      ELSE Enqueued(p, n)
          /\ sent' = IF n \in Relays THEN [sent EXCEPT ![n] = @ + 1] ELSE sent
          /\ Request(p, n, m)
          /\ UNCHANGED <<fate, blamed>>
    BY <1>1
  <2>2. m \in Nodes /\ <<n, m>> \in Links /\ (m \in Pods => m = Dst[p])
    BY DEF Usable, TypeOK, Links
  <2>3. /\ stage' \in [Packets -> Stages]
        /\ at' \in [Packets -> Nodes]
        /\ to' \in [Packets -> Nodes]
        /\ before' \in [Packets -> SUBSET Packets]
        /\ holder' \in [Links -> Packets \cup {Nobody}]
        /\ at'[p] = n /\ to'[p] = m
        /\ stage'[p] \in {"waiting", "sending"}
        /\ \A q \in Packets \ {p} : at'[q] = at[q] /\ to'[q] = to[q]
        /\ \A q \in Packets \ {p} :
             stage'[q] = stage[q] \/ (stage[q] = "waiting" /\ stage'[q] = "sending")
    BY <2>1, <2>2, RequestType
  <2>4. OthersStay(p) /\ OnLinkOf(p)'
    BY <1>0, <1>1, <2>1, <2>2, <2>3 DEF OthersStay, OnLinkOf, OnLinkStages, Link
  <2>5. /\ queue' \in [Buffered -> Seq(Packets)]
        /\ n \in Relays => Len(queue'[n]) = Len(queue[n])
        /\ \A k \in Buffered \ {n} : queue'[k] = queue[k]
    BY <2>1, EnqueuedType DEF Buffered
  <2>6. sent' \in [Nodes -> Nat]
    BY <2>1 DEF TypeOK
  <2>7. fate' \in [Packets -> Fates] /\ fate'[p] = fate[p] /\ blamed' \in SUBSET Packets
    BY <2>1 DEF TypeOK
  <2>. QED
    BY <1>0, <1>1, <2>1, <2>3, <2>4, <2>5, <2>6, <2>7 DEF ForwardTyped
<1>2. CASE /\ queue' = Enqueued(p, n)
           /\ Drop(p, n, IF h < MaxHops THEN "unrouted" ELSE "max_hops")
           /\ UNCHANGED <<before, holder, sent>>
  <2>1. PICK why \in Strandings : End(p, n, why)
    BY <1>2 DEF Drop, Strandings
  <2>2. why \in Fates \ {"none"}
    BY DEF Fates, Strandings
  <2>3. /\ stage' \in [Packets -> Stages]
        /\ at' \in [Packets -> Nodes]
        /\ to' \in [Packets -> Nodes]
        /\ fate' \in [Packets -> Fates]
        /\ stage'[p] = "ended" /\ at'[p] = n /\ fate'[p] = why
        /\ \A q \in Packets \ {p} :
             /\ stage'[q] = stage[q] /\ at'[q] = at[q]
             /\ to'[q] = to[q] /\ fate'[q] = fate[q]
    BY <2>1, <2>2, EndType
  <2>4. OthersStay(p) /\ OnLinkOf(p)'
    BY <1>0, <2>2, <2>3 DEF OthersStay, OnLinkOf, OnLinkStages
  <2>5. /\ queue' \in [Buffered -> Seq(Packets)]
        /\ \A k \in Buffered \ {n} : queue'[k] = queue[k]
    BY <1>2, EnqueuedType
  <2>6. /\ blamed' = IF n \in faulted THEN blamed \cup {p} ELSE blamed
        /\ blamed' \in SUBSET Packets
    BY <1>2 DEF Drop, TypeOK
  <2>. QED
    BY <1>0, <1>2, <2>3, <2>4, <2>5, <2>6 DEF ForwardTyped, TypeOK
<1>. QED
  BY <1>1, <1>2 DEF Dispatch

\* A refused packet ends where it was refused, and nothing else moves.
LEMMA RefuseEffect ==
  ASSUME TypeInv, NEW p \in Packets, NEW n \in Nodes, NEW why \in Refusals,
         Refuse(p, n, why)
  PROVE  /\ TypeInv'
         /\ OthersStay(p)
         /\ stage'[p] = "ended" /\ at'[p] = n /\ fate'[p] = why /\ hops' = hops
         /\ blamed' = IF n \in faulted THEN blamed \cup {p} ELSE blamed
         /\ refused' = [refused EXCEPT ![n] = @ + 1]
<1>1. End(p, n, why) /\ why \in Fates \ {"none"}
  BY DEF Refuse, Drop, Fates, Refusals
<1>2. /\ stage' \in [Packets -> Stages]
      /\ at' \in [Packets -> Nodes]
      /\ to' \in [Packets -> Nodes]
      /\ fate' \in [Packets -> Fates]
      /\ stage'[p] = "ended" /\ at'[p] = n /\ fate'[p] = why
      /\ \A q \in Packets \ {p} :
           /\ stage'[q] = stage[q] /\ at'[q] = at[q]
           /\ to'[q] = to[q] /\ fate'[q] = fate[q]
  BY <1>1, EndType
<1>3. /\ blamed' = IF n \in faulted THEN blamed \cup {p} ELSE blamed
      /\ refused' = [refused EXCEPT ![n] = @ + 1]
      /\ UNCHANGED <<hops, before, holder, queue, received, sent, podVars, worldVars>>
  BY DEF Refuse, Drop
<1>4. TypeOK'
  <2>1. blamed' \in SUBSET Packets
    BY <1>3 DEF TypeInv, TypeOK
  <2>2. refused' \in [Nodes -> Nat]
    BY <1>3 DEF TypeInv, TypeOK
  <2>. QED
    BY <1>2, <1>3, <2>1, <2>2 DEF TypeInv, TypeOK, podVars, worldVars
<1>5. OthersStay(p) /\ OnLinkOf(p)'
  BY <1>1, <1>2, <1>3 DEF OthersStay, OnLinkOf, OnLinkStages
<1>. QED
  BY <1>2, <1>3, <1>4, <1>5, OnLinkStep DEF TypeInv

\* An accepted packet that is dispatched: the common part of Start and Arrive.
LEMMA AcceptAndDispatchType ==
  ASSUME TypeInv, NEW p \in Packets, NEW n \in Nodes, NEW h \in 0 .. MaxHops,
         fate[p] = "none", Accept(p, n), Dispatch(p, n, h), UNCHANGED <<podVars, worldVars>>
  PROVE  TypeInv'
<1>1. ForwardTyped' /\ OthersStay(p) /\ OnLinkOf(p)'
  BY DispatchEffect
<1>2. received' \in [Nodes -> Nat] /\ refused' \in [Nodes -> Nat]
  BY DEF Accept, TypeInv, TypeOK
<1>3. TypeOK'
  BY <1>1, <1>2 DEF ForwardTyped, TypeInv, TypeOK, podVars, worldVars
<1>. QED
  BY <1>1, <1>3, OnLinkStep DEF TypeInv

LEMMA SrcDstAreNodes ==
  ASSUME NEW p \in Packets
  PROVE  Src[p] \in Nodes /\ Dst[p] \in Nodes
  BY PacketAssumption

LEMMA InitType == Init => TypeInv
<1>. SUFFICES ASSUME Init PROVE TypeInv
  OBVIOUS
<1>1. \A p \in Packets : stage[p] = "unpublished" /\ hops[p] = 0 /\ fate[p] = "none"
  BY DEF Init
<1>2. MaxHops \in Nat /\ Src \in [Packets -> Nodes] /\ Topologies # {}
  BY BoundAssumption, PacketAssumption, EnvironmentAssumption
<1>3. TypeOK
  BY <1>2 DEF Init, TypeOK, Stages, Fates
<1>. QED
  BY <1>1, <1>3 DEF TypeInv, OnLink, OnLinkOf, OnLinkStages

LEMMA StartType ==
  ASSUME TypeInv, NEW p \in Packets, Start(p)
  PROVE  TypeInv'
<1>0. fate[p] = "none"
  BY DEF Start, TypeInv, OnLink, OnLinkOf
<1>1. CASE Refuse(p, Src[p], "source_unavailable")
  BY <1>1, RefuseEffect, SrcDstAreNodes DEF Refusals
<1>2. CASE /\ Accept(p, Src[p])
           /\ Dispatch(p, Src[p], 0)
           /\ UNCHANGED <<podVars, worldVars>>
  BY <1>0, <1>2, AcceptAndDispatchType, SrcDstAreNodes, BoundAssumption
<1>. QED
  BY <1>1, <1>2 DEF Start

LEMMA DeliverType ==
  ASSUME TypeInv, NEW p \in Packets, Deliver(p)
  PROVE  /\ TypeInv'
         /\ OthersStay(p)
         /\ stage'[p] = "ended" /\ at'[p] = Dst[p] /\ fate'[p] = "delivered"
<1>1. End(p, Dst[p], "delivered") /\ "delivered" \in Fates \ {"none"}
  BY DEF Deliver, Fates
<1>2. /\ stage' \in [Packets -> Stages]
      /\ at' \in [Packets -> Nodes]
      /\ to' \in [Packets -> Nodes]
      /\ fate' \in [Packets -> Fates]
      /\ stage'[p] = "ended" /\ at'[p] = Dst[p] /\ fate'[p] = "delivered"
      /\ \A q \in Packets \ {p} :
           /\ stage'[q] = stage[q] /\ at'[q] = at[q]
           /\ to'[q] = to[q] /\ fate'[q] = fate[q]
  BY <1>1, EndType, SrcDstAreNodes
<1>3. queue' \in [Buffered -> Seq(Packets)]
  BY EnqueuedType, SrcDstAreNodes DEF Deliver, TypeInv
<1>4. /\ received' \in [Nodes -> Nat] /\ refused' \in [Nodes -> Nat]
      /\ tokens' \in [Pods -> Nat]
  <2>1. received' \in [Nodes -> Nat] /\ refused' \in [Nodes -> Nat]
    <3>1. received \in [Nodes -> Nat] /\ refused \in [Nodes -> Nat]
      BY DEF TypeInv, TypeOK
    <3>2. received' = [received EXCEPT ![Dst[p]] = @ + 1] /\ refused' = refused
      BY DEF Deliver, Accept
    <3>. QED
      BY <3>1, <3>2, SrcDstAreNodes
  <2>2. tokens \in [Pods -> Nat]
    BY DEF TypeInv, TypeOK
  <2>3. tokens' = IF Dst[p] \in Pods THEN [tokens EXCEPT ![Dst[p]] = @ + 1] ELSE tokens
    BY DEF Deliver
  <2>. QED
    BY <2>1, <2>2, <2>3
<1>5. UNCHANGED <<hops, before, blamed, holder, sent, serving, computed, worldVars>>
  BY DEF Deliver
<1>6. TypeOK'
  BY <1>2, <1>3, <1>4, <1>5 DEF TypeInv, TypeOK, worldVars
<1>7. OthersStay(p) /\ OnLinkOf(p)'
  BY <1>1, <1>2, <1>5 DEF OthersStay, OnLinkOf, OnLinkStages
<1>. QED
  BY <1>2, <1>6, <1>7, OnLinkStep DEF TypeInv

LEMMA ArriveType ==
  ASSUME TypeInv, NEW p \in Packets, Arrive(p)
  PROVE  TypeInv'
<1>0. stage[p] = "flying" /\ OnLinkOf(p)
  BY DEF Arrive, TypeInv, OnLink
<1>1. /\ fate[p] = "none"
      /\ to[p] \in Nodes
      /\ hops[p] + 1 \in 0 .. MaxHops
  <2>1. fate[p] = "none" /\ hops[p] < MaxHops
    BY <1>0 DEF OnLinkOf, OnLinkStages
  <2>2. hops[p] \in 0 .. MaxHops /\ to[p] \in Nodes
    BY DEF TypeInv, TypeOK
  <2>. QED
    BY <2>1, <2>2, BoundAssumption
<1>2. CASE Deliver(p)
  BY <1>2, DeliverType
<1>3. CASE Refuse(p, Dst[p], "destination_unavailable")
  BY <1>3, RefuseEffect, SrcDstAreNodes DEF Refusals
<1>4. CASE Refuse(p, to[p], "node_unavailable")
  BY <1>1, <1>4, RefuseEffect DEF Refusals
<1>5. CASE /\ Accept(p, to[p])
           /\ Dispatch(p, to[p], hops[p] + 1)
           /\ UNCHANGED <<podVars, worldVars>>
  BY <1>0, <1>1, <1>5, AcceptAndDispatchType
<1>. QED
  BY <1>2, <1>3, <1>4, <1>5 DEF Arrive

LEMMA PassOnType ==
  ASSUME TypeInv, NEW l \in Links, PassOn(l)
  PROVE  TypeInv'
<1>1. PICK p \in Packets :
        /\ IsHead(p, l)
        /\ holder' = [holder EXCEPT ![l] = p]
        /\ stage' = [stage EXCEPT ![p] = "sending"]
        /\ before' = Granted(p)
  BY DEF PassOn
<1>2. stage[p] = "waiting" /\ Link(p) = l
  BY <1>1 DEF IsHead, Waiting
<1>3. UNCHANGED <<at, to, hops, fate, blamed, nodeVars, podVars, worldVars>>
  BY DEF PassOn
<1>4. before' \in [Packets -> SUBSET Packets]
  BY <1>1 DEF Granted, TypeInv, TypeOK
<1>5. /\ stage' \in [Packets -> Stages]
      /\ holder' \in [Links -> Packets \cup {Nobody}]
  BY <1>1 DEF TypeInv, TypeOK, Stages
<1>6. TypeOK'
  BY <1>3, <1>4, <1>5 DEF TypeInv, TypeOK, nodeVars, podVars, worldVars
<1>7. OnLink'
  BY <1>1, <1>2, <1>3 DEF TypeInv, TypeOK, OnLink, OnLinkOf, OnLinkStages, Link
<1>. QED
  BY <1>6, <1>7 DEF TypeInv

LEMMA ServerType ==
  ASSUME TypeInv, NEW d \in Pods, TakeTask(d) \/ FinishTask(d)
  PROVE  TypeInv'
<1>1. UNCHANGED packetVars /\ UNCHANGED worldVars /\ UNCHANGED received /\ UNCHANGED refused
  BY DEF TakeTask, FinishTask, packetVars, worldVars
<1>2. OnLink'
  BY <1>1 DEF TypeInv, OnLink, OnLinkOf, Link, packetVars
<1>3. d \in Buffered /\ d \in Nodes /\ queue[d] \in Seq(Packets)
  BY DEF Buffered, Nodes, TypeInv, TypeOK
<1>4. CASE TakeTask(d)
  <2>1. tokens' \in [Pods -> Nat]
    BY <1>4 DEF TakeTask, TypeInv, TypeOK
  <2>2. queue' \in [Buffered -> Seq(Packets)] /\ serving' \in [Pods -> Packets \cup {Nobody}]
    <3>1. CASE queue[d] = <<>>
      BY <1>4, <3>1 DEF TakeTask, TypeInv, TypeOK
    <3>2. CASE queue[d] # <<>>
      <4>1. Head(queue[d]) \in Packets /\ Tail(queue[d]) \in Seq(Packets)
        BY <1>3, <3>2
      <4>. QED
        BY <1>4, <3>2, <4>1 DEF TakeTask, TypeInv, TypeOK
    <3>. QED
      BY <3>1, <3>2
  <2>. QED
    BY <1>1, <1>2, <1>4, <2>1, <2>2 DEF TakeTask, TypeInv, TypeOK, packetVars, worldVars
<1>5. CASE FinishTask(d)
  <2>1. /\ sent' \in [Nodes -> Nat]
        /\ serving' \in [Pods -> Packets \cup {Nobody}]
    BY <1>3, <1>5 DEF FinishTask, TypeInv, TypeOK
  <2>2. computed' \in SUBSET (Packets \X Pods)
    BY <1>5 DEF FinishTask, TypeInv, TypeOK
  <2>. QED
    BY <1>1, <1>2, <1>5, <2>1, <2>2 DEF FinishTask, TypeInv, TypeOK, packetVars, worldVars
<1>. QED
  BY <1>4, <1>5

LEMMA NextType == TypeInv /\ [Next]_vars => TypeInv'
<1>. SUFFICES ASSUME TypeInv, [Next]_vars PROVE TypeInv'
  OBVIOUS
<1>1. ASSUME NEW p \in Packets, Publish(p) PROVE TypeInv'
  BY <1>1 DEF Publish, TypeInv, TypeOK, OnLink, OnLinkOf, OnLinkStages, Link, Stages,
              nodeVars, podVars, worldVars
<1>2. ASSUME NEW p \in Packets, FinishSending(p) PROVE TypeInv'
  <2>0. stage[p] = "sending" /\ OnLinkOf(p)
    BY <1>2 DEF FinishSending, TypeInv, OnLink
  <2>1. Link(p) \in Links
    BY <2>0 DEF OnLinkOf, OnLinkStages
  <2>. QED
    BY <1>2, <2>1 DEF FinishSending, TypeInv, TypeOK, OnLink, OnLinkOf, OnLinkStages, Link, Stages,
                      nodeVars, podVars, worldVars
<1>3. CASE TopologyUpdate
  BY <1>3 DEF TopologyUpdate, TypeInv, TypeOK, OnLink, OnLinkOf, Link, packetVars, nodeVars, podVars
<1>4. CASE PhysicsTick
  BY <1>4, EnvironmentAssumption
     DEF PhysicsTick, TypeInv, TypeOK, OnLink, OnLinkOf, Link, packetVars, nodeVars, podVars
<1>5. CASE UNCHANGED vars
  BY <1>5 DEF vars, TypeInv, TypeOK, OnLink, OnLinkOf, Link, packetVars, nodeVars, podVars, worldVars
<1>. QED
  BY <1>1, <1>2, <1>3, <1>4, <1>5, StartType, ArriveType, PassOnType, ServerType DEF Next

LEMMA TypeInvariant == Spec => []TypeInv
  BY InitType, NextType, PTL DEF Spec

\* Every variable keeps its type, for all constants.
THEOREM TypeCorrect == Spec => []TypeOK
  BY TypeInvariant, PTL DEF TypeInv
-----------------------------------------------------------------------------
(* What Start and Arrive do to the books: node n refuses p, or accepts it and
   sends it on, or accepts it and keeps it. *)

Rejected(p, n) ==
  /\ ~ Accepts(n)
  /\ stage'[p] = "ended" /\ fate'[p] \in Refusals /\ at'[p] = n
  /\ blamed' = IF n \in faulted THEN blamed \cup {p} ELSE blamed
  /\ refused' = [refused EXCEPT ![n] = @ + 1]
  /\ UNCHANGED <<queue, received, sent, tokens, hops>>

Passed(p, n) ==
  /\ Accepts(n)
  /\ stage'[p] \in {"waiting", "sending"} /\ fate'[p] = "none"
  /\ n \in Relays => /\ Len(queue'[n]) = Len(queue[n])
                     /\ sent' = [sent EXCEPT ![n] = @ + 1]
  /\ n \notin Relays => queue' = Enqueued(p, n) /\ sent' = sent
  /\ received' = [received EXCEPT ![n] = @ + 1]
  /\ UNCHANGED <<refused, blamed, tokens>>

Kept(p, n) ==
  /\ Accepts(n)
  /\ stage'[p] = "ended" /\ at'[p] = n
  /\ fate'[p] \in Strandings \cup {"delivered"}
  /\ queue' = Enqueued(p, n)
  /\ received' = [received EXCEPT ![n] = @ + 1]
  /\ tokens' = IF fate'[p] = "delivered" /\ n \in Pods
               THEN [tokens EXCEPT ![n] = @ + 1] ELSE tokens
  /\ UNCHANGED <<refused, blamed, sent>>

Handled(p, n) ==
  /\ OthersStay(p)
  /\ fate[p] = "none"
  /\ fate'[p] = "max_hops" <=> hops'[p] = MaxHops
  /\ \A k \in Buffered \ {n} : queue'[k] = queue[k]
  /\ UNCHANGED <<serving, computed, faulted>>
  /\ Rejected(p, n) \/ Passed(p, n) \/ Kept(p, n)

LEMMA DispatchHandled ==
  ASSUME TypeInv, NEW p \in Packets, NEW n \in Nodes, NEW h \in 0 .. MaxHops,
         fate[p] = "none",
         Accept(p, n), Dispatch(p, n, h), UNCHANGED <<podVars, worldVars>>
  PROVE  /\ Handled(p, n)
         /\ Passed(p, n) \/ (Kept(p, n) /\ fate'[p] \in Strandings)
         /\ hops'[p] = h
         /\ h = MaxHops => stage'[p] = "ended"
<1>1. n \notin faulted /\ Accepts(n)
  BY DEF Accept, Accepts
<1>2. received' = [received EXCEPT ![n] = @ + 1] /\ UNCHANGED refused
  BY DEF Accept
<1>3. UNCHANGED <<tokens, serving, computed, faulted>>
  BY DEF podVars, worldVars
<1>4. "delivered" \notin Strandings
  BY DEF Strandings
<1>5. MaxHops \in Nat
  BY BoundAssumption
<1>6. fate'[p] = "max_hops" <=> h = MaxHops
  <2>1. \/ h < MaxHops /\ fate' = fate
        \/ fate' = [fate EXCEPT ![p] = IF h < MaxHops THEN "unrouted" ELSE "max_hops"]
    BY DEF Dispatch, Drop, End
  <2>2. fate \in [Packets -> Fates]
    BY DEF TypeInv, TypeOK
  <2>. QED
    BY <1>5, <2>1, <2>2
<1>. QED
  BY <1>1, <1>2, <1>3, <1>4, <1>5, <1>6, DispatchEffect DEF Handled, Passed, Kept

LEMMA RefuseHandled ==
  ASSUME TypeInv, NEW p \in Packets, NEW n \in Nodes, NEW why \in Refusals,
         fate[p] = "none", hops[p] # MaxHops, Refuse(p, n, why)
  PROVE  Handled(p, n) /\ Rejected(p, n) /\ fate'[p] = why
<1>1. UNCHANGED <<hops, queue, received, sent, tokens, serving, computed, faulted>>
  BY DEF Refuse, podVars, worldVars
<1>2. ~ Accepts(n) /\ why # "max_hops"
  BY DEF Refuse, Refusals
<1>. QED
  BY <1>1, <1>2, RefuseEffect DEF Handled, Rejected

\* The source handles a packet that starts; it emits it unless it refuses it.
LEMMA StartHandled ==
  ASSUME TypeInv, NEW p \in Packets, Start(p)
  PROVE  /\ stage[p] = "spawned"
         /\ Handled(p, Src[p])
         /\ hops'[p] = 0
         /\ \/ Rejected(p, Src[p]) /\ fate'[p] = "source_unavailable"
            \/ Passed(p, Src[p])
            \/ Kept(p, Src[p]) /\ fate'[p] \in Strandings
<1>1. stage[p] = "spawned" /\ OnLinkOf(p)
  BY DEF Start, TypeInv, OnLink
<1>2. fate[p] = "none" /\ hops[p] = 0 /\ MaxHops # 0
  BY <1>1, BoundAssumption DEF OnLinkOf
<1>3. CASE Refuse(p, Src[p], "source_unavailable")
  BY <1>1, <1>2, <1>3, RefuseHandled, SrcDstAreNodes DEF Refusals, Rejected
<1>4. CASE /\ Accept(p, Src[p])
           /\ Dispatch(p, Src[p], 0)
           /\ UNCHANGED <<podVars, worldVars>>
  BY <1>1, <1>2, <1>4, DispatchHandled, SrcDstAreNodes, BoundAssumption
<1>. QED
  BY <1>3, <1>4 DEF Start

\* The node at the other end of the link handles a packet that arrives; a pod
\* that accepts it is its destination and gets a token.
LEMMA ArriveHandled ==
  ASSUME TypeInv, NEW p \in Packets, Arrive(p)
  PROVE  /\ stage[p] = "flying"
         /\ to[p] \in Nodes
         /\ Handled(p, to[p])
         /\ fate'[p] # "source_unavailable"
         /\ \/ Rejected(p, to[p]) /\ hops' = hops
            \/ Passed(p, to[p]) /\ to[p] \notin Pods /\ hops'[p] = hops[p] + 1
            \/ /\ Kept(p, to[p])
               /\ \/ fate'[p] = "delivered" /\ hops' = hops
                  \/ /\ fate'[p] \in Strandings
                     /\ to[p] \notin Pods
                     /\ hops'[p] = hops[p] + 1
<1>1. stage[p] = "flying" /\ OnLinkOf(p)
  BY DEF Arrive, TypeInv, OnLink
<1>2. fate[p] = "none" /\ hops[p] < MaxHops /\ (to[p] \in Pods => to[p] = Dst[p])
  BY <1>1 DEF OnLinkOf, OnLinkStages
<1>3. to[p] \in Nodes /\ hops[p] \in 0 .. MaxHops /\ MaxHops \in Nat
  BY BoundAssumption DEF TypeInv, TypeOK
<1>4. "source_unavailable" \notin Strandings \cup {"none", "delivered"}
  BY DEF Strandings
<1>5. CASE to[p] = Dst[p] /\ Deliver(p)
  <2>1. /\ OthersStay(p)
        /\ stage'[p] = "ended" /\ at'[p] = to[p] /\ fate'[p] = "delivered"
    BY <1>5, DeliverType
  <2>2. /\ Accepts(to[p])
        /\ queue' = Enqueued(p, to[p])
        /\ received' = [received EXCEPT ![to[p]] = @ + 1]
        /\ tokens' = IF to[p] \in Pods THEN [tokens EXCEPT ![to[p]] = @ + 1] ELSE tokens
        /\ UNCHANGED <<refused, blamed, sent, serving, computed, faulted, hops>>
    BY <1>5 DEF Deliver, Accept, worldVars
  <2>3. \A k \in Buffered \ {to[p]} : queue'[k] = queue[k]
    BY <1>3, <2>2, EnqueuedType DEF TypeInv
  <2>4. Kept(p, to[p])
    BY <2>1, <2>2 DEF Kept
  <2>5. fate'[p] # "max_hops" /\ hops'[p] # MaxHops
    BY <1>2, <1>3, <2>1, <2>2
  <2>. QED
    BY <1>1, <1>2, <1>3, <2>1, <2>2, <2>3, <2>4, <2>5 DEF Handled
<1>6. ASSUME NEW why \in Refusals \ {"source_unavailable"}, Refuse(p, to[p], why)
      PROVE  /\ Handled(p, to[p]) /\ Rejected(p, to[p]) /\ hops' = hops
             /\ fate'[p] # "source_unavailable"
  <2>1. hops[p] # MaxHops
    BY <1>2, <1>3
  <2>. QED
    BY <1>2, <1>3, <1>6, <2>1, RefuseHandled DEF Rejected
<1>7. CASE /\ to[p] # Dst[p]
           /\ Accept(p, to[p])
           /\ Dispatch(p, to[p], hops[p] + 1)
           /\ UNCHANGED <<podVars, worldVars>>
  <2>1. hops[p] + 1 \in 0 .. MaxHops
    BY <1>2, <1>3
  <2>2. /\ Handled(p, to[p])
        /\ Passed(p, to[p]) \/ (Kept(p, to[p]) /\ fate'[p] \in Strandings)
        /\ hops'[p] = hops[p] + 1
    BY <1>2, <1>3, <1>7, <2>1, DispatchHandled
  <2>3. fate'[p] # "source_unavailable"
    BY <1>4, <2>2 DEF Passed
  <2>. QED
    BY <1>1, <1>2, <1>3, <1>7, <2>2, <2>3
<1>8. /\ "destination_unavailable" \in Refusals \ {"source_unavailable"}
      /\ "node_unavailable" \in Refusals \ {"source_unavailable"}
  BY DEF Refusals
<1>. QED
  BY <1>1, <1>3, <1>5, <1>6, <1>7, <1>8 DEF Arrive
-----------------------------------------------------------------------------
(* Counting: what is in the queues, and which packets put it there. *)

\* A step that neither ends a packet nor touches a queue or a counter.
Quiet ==
  /\ UNCHANGED <<at, to, hops, fate, blamed, nodeVars, podVars>>
  /\ \A p \in Packets :
       stage'[p] \in {"unpublished", "spawned"} <=> stage[p] \in {"unpublished", "spawned"}

LEMMA StepShape ==
  ASSUME TypeInv, [Next]_vars
  PROVE  \/ \E p \in Packets : Start(p) \/ Arrive(p)
         \/ \E d \in Pods : TakeTask(d) \/ FinishTask(d)
         \/ Quiet
<1>1. ASSUME NEW p \in Packets, Publish(p) PROVE Quiet
  BY <1>1 DEF Publish, Quiet, TypeInv, TypeOK
<1>2. ASSUME NEW p \in Packets, FinishSending(p) PROVE Quiet
  BY <1>2 DEF FinishSending, Quiet, TypeInv, TypeOK
<1>3. ASSUME NEW l \in Links, PassOn(l) PROVE Quiet
  BY <1>3 DEF PassOn, IsHead, Waiting, Quiet, TypeInv, TypeOK
<1>4. CASE TopologyUpdate \/ PhysicsTick \/ UNCHANGED vars
  BY <1>4 DEF TopologyUpdate, PhysicsTick, Quiet, vars, packetVars, nodeVars, podVars
<1>. QED
  BY <1>1, <1>2, <1>3, <1>4 DEF Next

RelayBacklog ==
  \A r \in Relays :
    IsFiniteSet(Stranded(r)) /\ Len(queue[r]) = Cardinality(Stranded(r))

LEMMA HandledRelayBacklog ==
  ASSUME TypeInv, RelayBacklog, NEW p \in Packets, NEW n \in Nodes, Handled(p, n),
         NEW r \in Relays
  PROVE  /\ IsFiniteSet(Stranded(r)') /\ Len(queue'[r]) = Cardinality(Stranded(r)')
         /\ Len(queue'[r]) >= Len(queue[r])
<1> DEFINE Ends == Strandings \cup {"delivered"}
<1>1. "none" \notin Ends /\ \A f \in Refusals : f \notin Ends
  BY DEF Strandings, Refusals
<1>2. r \in Buffered /\ Len(queue[r]) \in Nat
  BY DEF Buffered, TypeInv, TypeOK
<1>3. /\ fate[p] = "none"
      /\ \A q \in Packets \ {p} : at'[q] = at[q] /\ fate'[q] = fate[q]
  BY DEF Handled, OthersStay
<1>4. p \notin Stranded(r)
  BY <1>1, <1>3 DEF Stranded
<1>5. IsFiniteSet(Stranded(r)) /\ Len(queue[r]) = Cardinality(Stranded(r))
  BY DEF RelayBacklog
<1>6. CASE Kept(p, n) /\ n = r
  <2>1. Stranded(r)' = Stranded(r) \cup {p}
    BY <1>3, <1>6 DEF Stranded, Kept
  <2>2. IsFiniteSet(Stranded(r)') /\ Cardinality(Stranded(r)') = Cardinality(Stranded(r)) + 1
    BY <1>4, <1>5, <2>1, FS_AddElement
  <2>3. Len(queue'[r]) = Len(queue[r]) + 1
    BY <1>2, <1>6, EnqueuedType DEF Kept, TypeInv
  <2>. QED
    BY <1>2, <1>5, <2>2, <2>3
<1>7. CASE ~ (Kept(p, n) /\ n = r)
  <2>1. ~ (fate'[p] \in Ends /\ at'[p] = r)
    BY <1>1, <1>7 DEF Handled, Rejected, Passed, Kept
  <2>2. Stranded(r)' = Stranded(r)
    BY <1>3, <1>4, <2>1 DEF Stranded
  <2>3. Len(queue'[r]) = Len(queue[r])
    BY <1>2, <1>7 DEF Handled, Rejected, Passed
  <2>. QED
    BY <1>2, <1>5, <2>2, <2>3
<1>. QED
  BY <1>6, <1>7

LEMMA ServerLeavesRelays ==
  ASSUME TypeInv, NEW d \in Pods, TakeTask(d) \/ FinishTask(d)
  PROVE  /\ UNCHANGED <<packetVars, received, refused>>
         /\ \A r \in Relays : queue'[r] = queue[r] /\ sent'[r] = sent[r]
<1>1. \A r \in Relays : r # d /\ r \in Buffered /\ r \in Nodes
  BY NodeAssumption DEF Buffered, Nodes
<1>. QED
  BY <1>1 DEF TakeTask, FinishTask, TypeInv, TypeOK

LEMMA RelayBacklogStep ==
  ASSUME TypeInv, RelayBacklog, [Next]_vars
  PROVE  RelayBacklog' /\ \A r \in Relays : Len(queue'[r]) >= Len(queue[r])
<1>1. \A r \in Relays : Len(queue[r]) \in Nat
  BY DEF Buffered, TypeInv, TypeOK
<1>2. ASSUME NEW p \in Packets, Start(p) \/ Arrive(p)
      PROVE  RelayBacklog' /\ \A r \in Relays : Len(queue'[r]) >= Len(queue[r])
  <2>1. PICK n \in Nodes : Handled(p, n)
    BY <1>2, StartHandled, ArriveHandled, SrcDstAreNodes
  <2>. QED
    BY <2>1, HandledRelayBacklog DEF RelayBacklog
<1>3. ASSUME NEW d \in Pods, TakeTask(d) \/ FinishTask(d)
      PROVE  RelayBacklog' /\ \A r \in Relays : Len(queue'[r]) >= Len(queue[r])
  <2>1. UNCHANGED packetVars /\ \A r \in Relays : queue'[r] = queue[r]
    BY <1>3, ServerLeavesRelays
  <2>2. \A r \in Relays : Stranded(r)' = Stranded(r)
    BY <2>1 DEF Stranded, packetVars
  <2>. QED
    BY <1>1, <2>1, <2>2 DEF RelayBacklog
<1>4. CASE Quiet
  BY <1>1, <1>4 DEF Quiet, RelayBacklog, Stranded, nodeVars
<1>. QED
  BY <1>2, <1>3, <1>4, StepShape

LEMMA RelayBacklogInit == Init => RelayBacklog
<1>. SUFFICES ASSUME Init, NEW r \in Relays
              PROVE  IsFiniteSet(Stranded(r)) /\ Len(queue[r]) = Cardinality(Stranded(r))
  BY DEF RelayBacklog
<1>1. Stranded(r) = {}
  BY DEF Init, Stranded, Strandings
<1>2. queue[r] = <<>>
  BY DEF Init, Buffered
<1>. QED
  BY <1>1, <1>2, FS_EmptySet

\* The depth of a relay's queue is, at every yield, the number of packets that
\* ended at the relay after it had accepted them.
THEOREM RelayDepthIsStranded == Spec => []BacklogIsStranded
<1>1. TypeInv /\ RelayBacklog /\ [Next]_vars => RelayBacklog'
  BY RelayBacklogStep
<1>2. RelayBacklog => BacklogIsStranded
  BY DEF RelayBacklog, BacklogIsStranded
<1>. QED
  BY <1>1, <1>2, RelayBacklogInit, TypeInvariant, PTL DEF Spec

\* No step whatever makes a relay's queue shorter than it was.
THEOREM RelayDepthIsMonotone == Spec => BacklogNeverShrinks
<1>1. TypeInv /\ RelayBacklog /\ [Next]_vars => RelayBacklog'
  BY RelayBacklogStep
<1>2. TypeInv /\ RelayBacklog /\ [Next]_vars
        => [\A r \in Relays : Len(queue'[r]) >= Len(queue[r])]_vars
  BY RelayBacklogStep
<1>. QED
  BY <1>1, <1>2, RelayBacklogInit, TypeInvariant, PTL DEF Spec, BacklogNeverShrinks

PodBacklog ==
  \A d \in Pods :
    IsFiniteSet(Emitted(d)) /\ Len(queue[d]) = tokens[d] + Cardinality(Emitted(d))

LEMMA PodFacts ==
  ASSUME TypeInv, NEW d \in Pods
  PROVE  /\ d \in Buffered /\ d \in Nodes /\ d \notin Relays
         /\ queue[d] \in Seq(Packets) /\ Len(queue[d]) \in Nat /\ tokens[d] \in Nat
  BY NodeAssumption DEF Buffered, Nodes, TypeInv, TypeOK

LEMMA StartPodBacklog ==
  ASSUME TypeInv, PodBacklog, NEW p \in Packets, Start(p), NEW d \in Pods
  PROVE  /\ IsFiniteSet(Emitted(d)')
         /\ Len(queue'[d]) = tokens'[d] + Cardinality(Emitted(d)')
<1>1. /\ stage[p] = "spawned"
      /\ Handled(p, Src[p])
      /\ \/ Rejected(p, Src[p]) /\ fate'[p] = "source_unavailable"
         \/ Passed(p, Src[p])
         \/ Kept(p, Src[p]) /\ fate'[p] \in Strandings
  BY StartHandled
<1>2. /\ IsFiniteSet(Emitted(d)) /\ Cardinality(Emitted(d)) \in Nat
      /\ Len(queue[d]) = tokens[d] + Cardinality(Emitted(d))
  BY FS_CardinalityType DEF PodBacklog
<1>3. \A q \in Packets \ {p} :
        /\ fate'[q] = fate[q]
        /\ stage'[q] \in {"unpublished", "spawned"} <=> stage[q] \in {"unpublished", "spawned"}
  BY <1>1 DEF Handled, OthersStay
<1>4. p \notin Emitted(d)
  BY <1>1 DEF Emitted
<1>5. "delivered" \notin Strandings /\ "source_unavailable" \notin Strandings
  BY DEF Strandings
<1>6. CASE Src[p] = d /\ (Passed(p, d) \/ (Kept(p, d) /\ fate'[p] \in Strandings))
  <2>1. Emitted(d)' = Emitted(d) \cup {p}
    BY <1>3, <1>5, <1>6 DEF Emitted, Passed, Kept
  <2>2. IsFiniteSet(Emitted(d)') /\ Cardinality(Emitted(d)') = Cardinality(Emitted(d)) + 1
    BY <1>2, <1>4, <2>1, FS_AddElement
  <2>3. tokens' = tokens /\ queue' = Enqueued(p, d)
    BY <1>5, <1>6, PodFacts DEF Passed, Kept
  <2>4. Len(queue'[d]) = Len(queue[d]) + 1
    BY <2>3, PodFacts, EnqueuedType DEF TypeInv
  <2>. QED
    BY <1>2, <2>2, <2>3, <2>4, PodFacts
<1>7. CASE ~ (Src[p] = d /\ (Passed(p, d) \/ (Kept(p, d) /\ fate'[p] \in Strandings)))
  <2>1. Emitted(d)' = Emitted(d)
    BY <1>1, <1>3, <1>4, <1>7 DEF Emitted, Rejected
  <2>2. tokens' = tokens
    BY <1>1, <1>5 DEF Rejected, Passed, Kept
  <2>3. queue'[d] = queue[d]
    BY <1>1, <1>7, PodFacts DEF Handled, Rejected
  <2>. QED
    BY <1>2, <2>1, <2>2, <2>3
<1>. QED
  BY <1>6, <1>7

LEMMA ArrivePodBacklog ==
  ASSUME TypeInv, PodBacklog, NEW p \in Packets, Arrive(p), NEW d \in Pods
  PROVE  /\ IsFiniteSet(Emitted(d)')
         /\ Len(queue'[d]) = tokens'[d] + Cardinality(Emitted(d)')
<1>1. /\ stage[p] = "flying" /\ fate'[p] # "source_unavailable" /\ to[p] \in Nodes
      /\ Handled(p, to[p])
      /\ \/ Rejected(p, to[p])
         \/ Passed(p, to[p]) /\ to[p] \notin Pods
         \/ Kept(p, to[p]) /\ (fate'[p] = "delivered" \/ to[p] \notin Pods)
  BY ArriveHandled
<1>2. /\ IsFiniteSet(Emitted(d)) /\ Cardinality(Emitted(d)) \in Nat
      /\ Len(queue[d]) = tokens[d] + Cardinality(Emitted(d))
  BY FS_CardinalityType DEF PodBacklog
<1>3. fate[p] = "none" /\ stage'[p] \notin {"unpublished", "spawned"}
  BY <1>1 DEF Handled, Rejected, Passed, Kept
<1>4. Emitted(d)' = Emitted(d)
  BY <1>1, <1>3 DEF Emitted, Handled, OthersStay
<1>5. CASE to[p] = d /\ Kept(p, d)
  <2>0. fate'[p] = "delivered"
    BY <1>1, <1>5 DEF Rejected, Kept, Refusals, Strandings
  <2>1. queue' = Enqueued(p, d) /\ tokens' = [tokens EXCEPT ![d] = @ + 1]
    BY <1>5, <2>0 DEF Kept
  <2>2. Len(queue'[d]) = Len(queue[d]) + 1
    BY <2>1, PodFacts, EnqueuedType DEF TypeInv
  <2>3. tokens'[d] = tokens[d] + 1
    BY <2>1 DEF TypeInv, TypeOK
  <2>. QED
    BY <1>2, <1>4, <2>2, <2>3, PodFacts
<1>6. CASE ~ (to[p] = d /\ Kept(p, d))
  <2>1. queue'[d] = queue[d]
    BY <1>1, <1>6, PodFacts DEF Handled, Rejected
  <2>2. tokens'[d] = tokens[d]
    BY <1>1, <1>6 DEF Rejected, Passed, Kept, TypeInv, TypeOK
  <2>. QED
    BY <1>2, <1>4, <2>1, <2>2
<1>. QED
  BY <1>5, <1>6

LEMMA ServerPodBacklog ==
  ASSUME TypeInv, PodBacklog, NEW e \in Pods, TakeTask(e) \/ FinishTask(e), NEW d \in Pods
  PROVE  /\ IsFiniteSet(Emitted(d)')
         /\ Len(queue'[d]) = tokens'[d] + Cardinality(Emitted(d)')
<1>1. UNCHANGED packetVars
  BY ServerLeavesRelays
<1>2. Emitted(d)' = Emitted(d)
  BY <1>1 DEF Emitted, packetVars
<1>3. /\ IsFiniteSet(Emitted(d)) /\ Cardinality(Emitted(d)) \in Nat
      /\ Len(queue[d]) = tokens[d] + Cardinality(Emitted(d))
  BY FS_CardinalityType DEF PodBacklog
<1>4. CASE TakeTask(e) /\ e = d
  <2>1. tokens[d] > 0 /\ tokens' = [tokens EXCEPT ![d] = @ - 1]
    BY <1>4 DEF TakeTask
  <2>2. queue[d] # <<>>
    BY <1>3, <2>1, PodFacts
  <2>3. queue' = [queue EXCEPT ![d] = Tail(@)]
    BY <1>4, <2>2 DEF TakeTask
  <2>4. tokens'[d] = tokens[d] - 1
    BY <2>1 DEF TypeInv, TypeOK
  <2>5. queue'[d] = Tail(queue[d])
    BY <2>3, PodFacts DEF TypeInv, TypeOK
  <2>6. Len(queue'[d]) = Len(queue[d]) - 1
    BY <2>2, <2>5, PodFacts
  <2>. QED
    BY <1>2, <1>3, <2>1, <2>4, <2>6, PodFacts
<1>5. CASE FinishTask(e) \/ e # d
  <2>1. queue'[d] = queue[d] /\ tokens'[d] = tokens[d]
    BY <1>5, PodFacts DEF TakeTask, FinishTask, TypeInv, TypeOK
  <2>. QED
    BY <1>2, <1>3, <2>1
<1>. QED
  BY <1>4, <1>5

LEMMA PodBacklogInit == Init => PodBacklog
<1>. SUFFICES ASSUME Init, NEW d \in Pods
              PROVE  /\ IsFiniteSet(Emitted(d))
                     /\ Len(queue[d]) = tokens[d] + Cardinality(Emitted(d))
  BY DEF PodBacklog
<1>1. Emitted(d) = {}
  BY DEF Init, Emitted
<1>2. queue[d] = <<>> /\ tokens[d] = 0
  BY DEF Init, Buffered
<1>. QED
  BY <1>1, <1>2, FS_EmptySet

LEMMA PodBacklogStep == TypeInv /\ PodBacklog /\ [Next]_vars => PodBacklog'
<1>. SUFFICES ASSUME TypeInv, PodBacklog, [Next]_vars, NEW d \in Pods
              PROVE  /\ IsFiniteSet(Emitted(d)')
                     /\ Len(queue'[d]) = tokens'[d] + Cardinality(Emitted(d)')
  BY DEF PodBacklog
<1>1. CASE Quiet
  <2>1. Emitted(d)' = Emitted(d)
    BY <1>1 DEF Quiet, Emitted
  <2>. QED
    BY <1>1, <2>1 DEF Quiet, PodBacklog, nodeVars, podVars
<1>. QED
  BY <1>1, StartPodBacklog, ArrivePodBacklog, ServerPodBacklog, StepShape

-----------------------------------------------------------------------------
(* The node counters. *)

RefusedAt(n) == {p \in Packets : fate[p] \in Refusals /\ at[p] = n}

Books ==
  /\ \A r \in Relays : received[r] = sent[r] + Len(queue[r])
  /\ \A d \in Pods :
       received[d] = sent[d] + Len(queue[d]) + (IF serving[d] = Nobody THEN 0 ELSE 1)
  /\ \A n \in Nodes : IsFiniteSet(RefusedAt(n)) /\ refused[n] = Cardinality(RefusedAt(n))

LEMMA HandledBooks ==
  ASSUME TypeInv, Books, NEW p \in Packets, NEW n \in Nodes, Handled(p, n)
  PROVE  Books'
<1>1. ASSUME NEW r \in Relays
      PROVE  received'[r] = sent'[r] + Len(queue'[r])
  <2>1. /\ r \in Buffered /\ r \in Nodes
        /\ received[r] \in Nat /\ sent[r] \in Nat /\ Len(queue[r]) \in Nat
        /\ received[r] = sent[r] + Len(queue[r])
        /\ received \in [Nodes -> Nat] /\ sent \in [Nodes -> Nat]
    BY DEF Books, Buffered, Nodes, TypeInv, TypeOK
  <2>2. CASE n = r
    <3>1. CASE Rejected(p, r)
      BY <2>1, <3>1 DEF Rejected
    <3>2. CASE Passed(p, r)
      BY <2>1, <3>2 DEF Passed
    <3>3. CASE Kept(p, r)
      <4>1. Len(queue'[r]) = Len(queue[r]) + 1
        BY <2>1, <3>3, EnqueuedType DEF Kept, TypeInv
      <4>. QED
        BY <2>1, <3>3, <4>1 DEF Kept
    <3>. QED
      BY <2>2, <3>1, <3>2, <3>3 DEF Handled
  <2>3. CASE n # r
    <3>1. queue'[r] = queue[r] /\ received'[r] = received[r] /\ sent'[r] = sent[r]
      BY <2>1, <2>3 DEF Handled, Rejected, Passed, Kept
    <3>. QED
      BY <2>1, <3>1
  <2>. QED
    BY <2>2, <2>3
<1>2. ASSUME NEW d \in Pods
      PROVE  received'[d]
               = sent'[d] + Len(queue'[d]) + (IF serving'[d] = Nobody THEN 0 ELSE 1)
  <2>1. /\ received[d] \in Nat /\ sent[d] \in Nat
        /\ received[d] = sent[d] + Len(queue[d]) + (IF serving[d] = Nobody THEN 0 ELSE 1)
        /\ received \in [Nodes -> Nat] /\ sent \in [Nodes -> Nat]
    BY PodFacts DEF Books, TypeInv, TypeOK
  <2>2. serving' = serving
    BY DEF Handled
  <2>3. CASE n = d /\ (Passed(p, d) \/ Kept(p, d))
    <3>1. queue' = Enqueued(p, d) /\ sent' = sent /\ received'[d] = received[d] + 1
      BY <2>1, <2>3, PodFacts DEF Passed, Kept
    <3>2. Len(queue'[d]) = Len(queue[d]) + 1
      BY <3>1, PodFacts, EnqueuedType DEF TypeInv
    <3>. QED
      BY <2>1, <2>2, <3>1, <3>2, PodFacts
  <2>4. CASE ~ (n = d /\ (Passed(p, d) \/ Kept(p, d)))
    <3>1. queue'[d] = queue[d] /\ received'[d] = received[d] /\ sent'[d] = sent[d]
      BY <2>1, <2>4, PodFacts DEF Handled, Rejected, Passed, Kept
    <3>. QED
      BY <2>1, <2>2, <3>1
  <2>. QED
    BY <2>3, <2>4
<1>3. ASSUME NEW k \in Nodes
      PROVE  IsFiniteSet(RefusedAt(k)') /\ refused'[k] = Cardinality(RefusedAt(k)')
  <2>1. /\ IsFiniteSet(RefusedAt(k)) /\ refused[k] = Cardinality(RefusedAt(k))
        /\ refused \in [Nodes -> Nat]
    BY DEF Books, TypeInv, TypeOK
  <2>2. /\ fate[p] = "none"
        /\ \A q \in Packets \ {p} : at'[q] = at[q] /\ fate'[q] = fate[q]
    BY DEF Handled, OthersStay
  <2>3. "none" \notin Refusals /\ Refusals \cap (Strandings \cup {"delivered"}) = {}
    BY DEF Refusals, Strandings
  <2>4. p \notin RefusedAt(k)
    BY <2>2, <2>3 DEF RefusedAt
  <2>5. CASE Rejected(p, n) /\ n = k
    <3>1. RefusedAt(k)' = RefusedAt(k) \cup {p}
      BY <2>2, <2>5 DEF RefusedAt, Rejected
    <3>2. /\ IsFiniteSet(RefusedAt(k)')
          /\ Cardinality(RefusedAt(k)') = Cardinality(RefusedAt(k)) + 1
      BY <2>1, <2>4, <3>1, FS_AddElement
    <3>3. refused'[k] = refused[k] + 1
      BY <2>1, <2>5 DEF Rejected
    <3>. QED
      BY <2>1, <3>2, <3>3
  <2>6. CASE ~ (Rejected(p, n) /\ n = k)
    <3>1. ~ (fate'[p] \in Refusals /\ at'[p] = k)
      BY <2>3, <2>6 DEF Handled, Rejected, Passed, Kept
    <3>2. RefusedAt(k)' = RefusedAt(k)
      BY <2>2, <2>4, <3>1 DEF RefusedAt
    <3>3. refused'[k] = refused[k]
      BY <2>1, <2>6 DEF Handled, Rejected, Passed, Kept
    <3>. QED
      BY <2>1, <3>2, <3>3
  <2>. QED
    BY <2>5, <2>6
<1>. QED
  BY <1>1, <1>2, <1>3 DEF Books

LEMMA ServerBooks ==
  ASSUME TypeInv, Books, NEW d \in Pods, TakeTask(d) \/ FinishTask(d)
  PROVE  Books'
<1>1. /\ UNCHANGED <<packetVars, received, refused>>
      /\ \A r \in Relays : queue'[r] = queue[r] /\ sent'[r] = sent[r]
  BY ServerLeavesRelays
<1>2. \A n \in Nodes : RefusedAt(n)' = RefusedAt(n)
  BY <1>1 DEF RefusedAt, packetVars
<1>3. ASSUME NEW e \in Pods
      PROVE  received'[e]
               = sent'[e] + Len(queue'[e]) + (IF serving'[e] = Nobody THEN 0 ELSE 1)
  <2>1. /\ received[e] \in Nat /\ sent[e] \in Nat
        /\ received[e] = sent[e] + Len(queue[e]) + (IF serving[e] = Nobody THEN 0 ELSE 1)
        /\ sent \in [Nodes -> Nat] /\ queue \in [Buffered -> Seq(Packets)]
        /\ serving \in [Pods -> Packets \cup {Nobody}]
    BY PodFacts DEF Books, TypeInv, TypeOK
  <2>2. CASE e # d
    <3>1. sent'[e] = sent[e] /\ queue'[e] = queue[e] /\ serving'[e] = serving[e]
      BY <2>1, <2>2, PodFacts DEF TakeTask, FinishTask
    <3>. QED
      BY <1>1, <2>1, <3>1
  <2>3. CASE e = d /\ FinishTask(d)
    <3>1. serving[d] # Nobody /\ serving'[d] = Nobody /\ queue' = queue
      BY <2>1, <2>3 DEF FinishTask
    <3>2. sent'[d] = sent[d] + 1
      BY <2>1, <2>3, PodFacts DEF FinishTask
    <3>. QED
      BY <1>1, <2>1, <2>3, <3>1, <3>2, PodFacts
  <2>4. CASE e = d /\ TakeTask(d) /\ queue[d] = <<>>
    BY <1>1, <2>1, <2>4 DEF TakeTask
  <2>5. CASE e = d /\ TakeTask(d) /\ queue[d] # <<>>
    <3>1. /\ serving[d] = Nobody /\ serving' = [serving EXCEPT ![d] = Head(queue[d])]
          /\ queue' = [queue EXCEPT ![d] = Tail(@)] /\ sent' = sent
      BY <2>5 DEF TakeTask
    <3>2. Head(queue[d]) \in Packets /\ Len(Tail(queue[d])) = Len(queue[d]) - 1
      BY <2>5, PodFacts
    <3>3. serving'[d] = Head(queue[d]) /\ queue'[d] = Tail(queue[d])
      BY <2>1, <3>1, PodFacts
    <3>4. serving'[d] # Nobody
      BY <3>2, <3>3, PacketAssumption
    <3>. QED
      BY <1>1, <2>1, <2>5, <3>1, <3>2, <3>3, <3>4, PodFacts
  <2>. QED
    BY <2>2, <2>3, <2>4, <2>5
<1>. QED
  BY <1>1, <1>2, <1>3 DEF Books

LEMMA BooksInit == Init => Books
<1>. SUFFICES ASSUME Init PROVE Books
  OBVIOUS
<1>1. \A n \in Nodes : RefusedAt(n) = {}
  BY DEF Init, RefusedAt, Refusals
<1>2. \A n \in Nodes : received[n] = 0 /\ sent[n] = 0 /\ refused[n] = 0
  BY DEF Init
<1>3. \A n \in Buffered : queue[n] = <<>> /\ Len(queue[n]) = 0
  BY DEF Init
<1>4. \A d \in Pods : serving[d] = Nobody
  BY DEF Init
<1>5. \A r \in Relays : r \in Nodes /\ r \in Buffered
  BY DEF Buffered, Nodes
<1>6. \A d \in Pods : d \in Nodes /\ d \in Buffered
  BY DEF Buffered, Nodes
<1>7. \A n \in Nodes : IsFiniteSet(RefusedAt(n)) /\ refused[n] = Cardinality(RefusedAt(n))
  BY <1>1, <1>2, FS_EmptySet
<1>. QED
  BY <1>2, <1>3, <1>4, <1>5, <1>6, <1>7 DEF Books

LEMMA BooksStep == TypeInv /\ Books /\ [Next]_vars => Books'
<1>. SUFFICES ASSUME TypeInv, Books, [Next]_vars PROVE Books'
  OBVIOUS
<1>1. ASSUME NEW p \in Packets, Start(p) \/ Arrive(p) PROVE Books'
  <2>1. PICK n \in Nodes : Handled(p, n)
    BY <1>1, StartHandled, ArriveHandled, SrcDstAreNodes
  <2>. QED
    BY <2>1, HandledBooks
<1>2. CASE Quiet
  <2>1. \A n \in Nodes : RefusedAt(n)' = RefusedAt(n)
    BY <1>2 DEF Quiet, RefusedAt
  <2>. QED
    BY <1>2, <2>1 DEF Quiet, Books, nodeVars, podVars
<1>. QED
  BY <1>1, <1>2, ServerBooks, StepShape

\* What the nodes' counters say agrees with what is in their queues, at their
\* servers, and in the outcomes the engine has published.
THEOREM CountersBalance == Spec => []BooksBalance
<1>1. Books => BooksBalance
  BY DEF Books, BooksBalance, RefusedAt
<1>. QED
  BY <1>1, BooksInit, BooksStep, TypeInvariant, PTL DEF Spec
-----------------------------------------------------------------------------
(* Refusals, and what they are blamed on. *)

RelayBounded == \A r \in Relays : Len(queue[r]) <= RelayCapacity

Explained ==
  /\ RelayBounded
  /\ DropsAreExplained

LEMMA HandledExplained ==
  ASSUME TypeInv, RelayBacklog, Explained, NEW p \in Packets, NEW n \in Nodes, Handled(p, n)
  PROVE  Explained'
<1>0. RelayCapacity \in Nat /\ \A r \in Relays : r \in Buffered /\ Len(queue[r]) \in Nat
  BY BoundAssumption DEF Buffered, TypeInv, TypeOK
<1>1. /\ RelayCapacity \in Nat
      /\ \A r \in Relays : r \in Buffered /\ Len(queue[r]) \in Nat /\ Len(queue'[r]) \in Nat
  <2>1. ASSUME NEW r \in Relays PROVE Len(queue'[r]) \in Nat
    BY HandledRelayBacklog, FS_CardinalityType
  <2>. QED
    BY <1>0, <2>1
<1>2. ASSUME NEW r \in Relays
      PROVE  Len(queue'[r]) >= Len(queue[r]) /\ Len(queue'[r]) <= RelayCapacity
  <2>1. Len(queue[r]) <= RelayCapacity
    BY DEF Explained, RelayBounded
  <2>2. CASE Kept(p, n) /\ n = r
    <3>1. Len(queue'[r]) = Len(queue[r]) + 1
      BY <1>1, <2>2, EnqueuedType DEF Kept, TypeInv
    <3>2. Len(queue[r]) < RelayCapacity
      BY <1>1, <2>2 DEF Kept, Accepts, Capacity
    <3>. QED
      BY <1>1, <3>1, <3>2
  <2>3. CASE ~ (Kept(p, n) /\ n = r)
    <3>1. Len(queue'[r]) = Len(queue[r])
      BY <1>1, <2>3 DEF Handled, Rejected, Passed
    <3>. QED
      BY <1>1, <2>1, <3>1
  <2>. QED
    BY <2>2, <2>3
<1>3. ASSUME NEW q \in Packets
      PROVE  /\ q \in blamed' => fate'[q] \in Refusals
             /\ fate'[q] \in Refusals /\ q \notin blamed'
                  => /\ at'[q] \in Buffered
                     /\ at'[q] \in Relays => Len(queue'[at'[q]]) = RelayCapacity
  <2>1. /\ q \in blamed => fate[q] \in Refusals
        /\ fate[q] \in Refusals /\ q \notin blamed
             => /\ at[q] \in Buffered
                /\ at[q] \in Relays => Len(queue[at[q]]) = RelayCapacity
    BY DEF Explained, DropsAreExplained
  <2>2. fate[p] = "none" /\ "none" \notin Refusals
        /\ \A f \in Strandings \cup {"delivered"} : f \notin Refusals
    BY DEF Handled, Refusals, Strandings
  <2>3. CASE q # p
    <3>1. at'[q] = at[q] /\ fate'[q] = fate[q] /\ (q \in blamed' <=> q \in blamed)
      BY <2>3 DEF Handled, OthersStay, Rejected, Passed, Kept
    <3>2. \A r \in Relays : Len(queue[r]) = RelayCapacity => Len(queue'[r]) = RelayCapacity
      BY <1>1, <1>2
    <3>. QED
      BY <2>1, <3>1, <3>2
  <2>4. CASE q = p /\ Rejected(p, n)
    <3>1. fate'[p] \in Refusals /\ at'[p] = n /\ queue' = queue
      BY <2>4 DEF Rejected
    <3>2. ASSUME p \notin blamed'
          PROVE  n \in Buffered /\ (n \in Relays => Len(queue[n]) = RelayCapacity)
      <4>1. n \notin faulted
        BY <2>4, <3>2 DEF Rejected
      <4>2. n \in Buffered /\ ~ (Len(queue[n]) < Capacity(n))
        BY <2>4, <4>1 DEF Rejected, Accepts
      <4>3. n \in Relays => Capacity(n) = RelayCapacity /\ Len(queue[n]) <= RelayCapacity
        BY DEF Capacity, Explained, RelayBounded
      <4>. QED
        BY <1>1, <4>2, <4>3
    <3>. QED
      BY <2>4, <3>1, <3>2
  <2>5. CASE q = p /\ (Passed(p, n) \/ Kept(p, n))
    BY <2>1, <2>2, <2>5 DEF Passed, Kept
  <2>. QED
    BY <2>3, <2>4, <2>5 DEF Handled
<1>4. ASSUME NEW q \in Packets
      PROVE  fate'[q] = "max_hops" <=> hops'[q] = MaxHops
  <2>1. fate[q] = "max_hops" <=> hops[q] = MaxHops
    BY DEF Explained, DropsAreExplained
  <2>. QED
    BY <2>1 DEF Handled, OthersStay
<1>. QED
  BY <1>2, <1>3, <1>4 DEF Explained, RelayBounded, DropsAreExplained

LEMMA ExplainedStep == TypeInv /\ RelayBacklog /\ Explained /\ [Next]_vars => Explained'
<1>. SUFFICES ASSUME TypeInv, RelayBacklog, Explained, [Next]_vars PROVE Explained'
  OBVIOUS
<1>1. ASSUME NEW p \in Packets, Start(p) \/ Arrive(p) PROVE Explained'
  <2>1. PICK n \in Nodes : Handled(p, n)
    BY <1>1, StartHandled, ArriveHandled, SrcDstAreNodes
  <2>. QED
    BY <2>1, HandledExplained
<1>2. ASSUME NEW d \in Pods, TakeTask(d) \/ FinishTask(d) PROVE Explained'
  <2>1. UNCHANGED packetVars /\ \A r \in Relays : queue'[r] = queue[r]
    BY <1>2, ServerLeavesRelays
  <2>. QED
    BY <2>1 DEF Explained, RelayBounded, DropsAreExplained, packetVars
<1>3. CASE Quiet
  BY <1>3 DEF Quiet, Explained, RelayBounded, DropsAreExplained, nodeVars
<1>. QED
  BY <1>1, <1>2, <1>3, StepShape

LEMMA ExplainedInit == Init => Explained
<1>. SUFFICES ASSUME Init PROVE Explained
  OBVIOUS
<1>1. RelayBounded
  BY BoundAssumption DEF Init, RelayBounded, Buffered
<1>2. DropsAreExplained
  BY BoundAssumption DEF Init, DropsAreExplained, Refusals
<1>. QED
  BY <1>1, <1>2 DEF Explained

\* A drop is blamed on physics only if a node refused the packet, and a refusal
\* that is not blamed on physics means a full buffer, full for ever at a relay; and
\* the hop limit ends the packets that have used it up, and no others.
THEOREM BlameIsExplained == Spec => []DropsAreExplained
<1>1. TypeInv /\ RelayBacklog /\ [Next]_vars => RelayBacklog'
  BY RelayBacklogStep
<1>2. Explained => DropsAreExplained
  BY DEF Explained
<1>. QED
  BY <1>1, <1>2, RelayBacklogInit, ExplainedInit, ExplainedStep, TypeInvariant, PTL DEF Spec
-----------------------------------------------------------------------------
(* Mutual exclusion on the links. *)

LEMMA NobodyIsNoPacket == Nobody \notin Packets
  BY PacketAssumption

\* A step that changes neither who sends, nor where, nor who holds what.
LEMMA LinksKept ==
  ASSUME TypeInv, LinkExclusive, holder' = holder,
         \A q \in Packets : stage'[q] = "sending" <=> stage[q] = "sending",
         \A q \in Packets : stage[q] = "sending" => at'[q] = at[q] /\ to'[q] = to[q]
  PROVE  LinkExclusive'
<1>1. \A l \in Links : Sending(l)' = Sending(l)
  BY DEF Sending, Link
<1>. QED
  BY <1>1 DEF LinkExclusive

\* A free link is given to a packet that was not sending.
LEMMA LinkGranted ==
  ASSUME TypeInv, LinkExclusive, NEW l \in Links, NEW p \in Packets,
         holder[l] = Nobody, holder' = [holder EXCEPT ![l] = p],
         stage[p] # "sending", stage'[p] = "sending", Link(p)' = l,
         \A q \in Packets \ {p} : stage'[q] = "sending" <=> stage[q] = "sending",
         \A q \in Packets : stage[q] = "sending" => at'[q] = at[q] /\ to'[q] = to[q]
  PROVE  LinkExclusive'
<1>1. \A q \in Packets \ {p} : \A k \in Links :
        (stage'[q] = "sending" /\ Link(q)' = k) <=> (stage[q] = "sending" /\ Link(q) = k)
  BY DEF Link
<1>2. Sending(l)' = {p}
  BY <1>1, NobodyIsNoPacket DEF Sending, LinkExclusive
<1>3. \A k \in Links \ {l} : Sending(k)' = Sending(k)
  BY <1>1 DEF Sending
<1>4. holder'[l] = p /\ \A k \in Links \ {l} : holder'[k] = holder[k]
  BY DEF TypeInv, TypeOK
<1>. QED
  BY <1>2, <1>3, <1>4, NobodyIsNoPacket DEF LinkExclusive

LEMMA RequestLinks ==
  ASSUME TypeInv, LinkExclusive, NEW p \in Packets, NEW n \in Nodes, NEW m \in Nodes,
         <<n, m>> \in Links, stage[p] \notin {"waiting", "sending"}, Request(p, n, m)
  PROVE  LinkExclusive'
<1>1. /\ at' = [at EXCEPT ![p] = n] /\ to' = [to EXCEPT ![p] = m]
      /\ \A q \in Packets : stage[q] = "sending" => at'[q] = at[q] /\ to'[q] = to[q]
      /\ Link(p)' = <<n, m>>
  BY DEF Request, TypeInv, TypeOK, Link
<1>2. CASE /\ holder[<<n, m>>] = Nobody
           /\ holder' = [holder EXCEPT ![<<n, m>>] = p]
           /\ stage' = [stage EXCEPT ![p] = "sending"]
  <2>1. stage'[p] = "sending" /\ \A q \in Packets \ {p} : stage'[q] = stage[q]
    BY <1>2 DEF TypeInv, TypeOK
  <2>. QED
    BY <1>1, <1>2, <2>1, LinkGranted
<1>3. ASSUME NEW q \in Waiting(<<n, m>>), holder[<<n, m>>] = Nobody,
             holder' = [holder EXCEPT ![<<n, m>>] = q],
             stage' = [stage EXCEPT ![p] = "waiting", ![q] = "sending"]
      PROVE  LinkExclusive'
  <2>1. q \in Packets \ {p} /\ stage[q] = "waiting" /\ Link(q) = <<n, m>>
    BY <1>3 DEF Waiting
  <2>2. /\ stage'[q] = "sending" /\ stage'[p] = "waiting"
        /\ \A r \in Packets \ {p, q} : stage'[r] = stage[r]
    BY <1>3, <2>1 DEF TypeInv, TypeOK
  <2>3. Link(q)' = <<n, m>>
    BY <1>1, <2>1 DEF Link, TypeInv, TypeOK
  <2>. QED
    BY <1>1, <1>3, <2>1, <2>2, <2>3, LinkGranted
<1>4. CASE holder' = holder /\ stage' = [stage EXCEPT ![p] = "waiting"]
  <2>1. \A q \in Packets : stage'[q] = "sending" <=> stage[q] = "sending"
    BY <1>4 DEF TypeInv, TypeOK
  <2>. QED
    BY <1>1, <1>4, <2>1, LinksKept
<1>. QED
  BY <1>2, <1>3, <1>4 DEF Request

LEMMA EndLinks ==
  ASSUME TypeInv, LinkExclusive, NEW p \in Packets, NEW n \in Nodes,
         NEW why \in Fates \ {"none"}, stage[p] # "sending", End(p, n, why), holder' = holder
  PROVE  LinkExclusive'
  BY EndType, LinksKept

LEMMA DispatchLinks ==
  ASSUME TypeInv, LinkExclusive, NEW p \in Packets, NEW n \in Nodes, NEW h \in Nat,
         stage[p] \notin {"waiting", "sending"}, Dispatch(p, n, h)
  PROVE  LinkExclusive'
<1>1. CASE \E m \in Usable(p, n) : Request(p, n, m)
  <2>1. PICK m \in Usable(p, n) : Request(p, n, m)
    BY <1>1
  <2>2. m \in Nodes /\ <<n, m>> \in Links
    BY DEF Usable, Links, TypeInv, TypeOK
  <2>. QED
    BY <2>1, <2>2, RequestLinks
<1>2. CASE /\ Drop(p, n, IF h < MaxHops THEN "unrouted" ELSE "max_hops")
           /\ UNCHANGED holder
  <2>1. PICK why \in Strandings : End(p, n, why)
    BY <1>2 DEF Drop, Strandings
  <2>2. why \in Fates \ {"none"}
    BY DEF Fates, Strandings
  <2>. QED
    BY <1>2, <2>1, <2>2, EndLinks
<1>. QED
  BY <1>1, <1>2 DEF Dispatch

LEMMA RefuseLinks ==
  ASSUME TypeInv, LinkExclusive, NEW p \in Packets, NEW n \in Nodes,
         NEW why \in Refusals, stage[p] # "sending", Refuse(p, n, why)
  PROVE  LinkExclusive'
<1>1. End(p, n, why) /\ holder' = holder /\ why \in Fates \ {"none"}
  BY DEF Refuse, Drop, Fates, Refusals
<1>. QED
  BY <1>1, EndLinks

LEMMA LinkExclusiveStep == TypeInv /\ LinkExclusive /\ [Next]_vars => LinkExclusive'
<1>. SUFFICES ASSUME TypeInv, LinkExclusive, [Next]_vars PROVE LinkExclusive'
  OBVIOUS
<1>1. ASSUME NEW p \in Packets, Start(p) PROVE LinkExclusive'
  BY <1>1, RefuseLinks, DispatchLinks, SrcDstAreNodes DEF Start, Refusals
<1>2. ASSUME NEW p \in Packets, Arrive(p) PROVE LinkExclusive'
  <2>1. stage[p] = "flying" /\ to[p] \in Nodes /\ hops[p] + 1 \in Nat
    BY <1>2, BoundAssumption DEF Arrive, TypeInv, TypeOK
  <2>2. CASE Deliver(p)
    <3>1. End(p, Dst[p], "delivered") /\ holder' = holder /\ "delivered" \in Fates \ {"none"}
      BY <2>2 DEF Deliver, Fates
    <3>. QED
      BY <2>1, <3>1, EndLinks, SrcDstAreNodes
  <2>3. CASE Dispatch(p, to[p], hops[p] + 1)
    BY <2>1, <2>3, DispatchLinks
  <2>4. CASE \/ Refuse(p, Dst[p], "destination_unavailable")
             \/ Refuse(p, to[p], "node_unavailable")
    BY <2>1, <2>4, RefuseLinks, SrcDstAreNodes DEF Refusals
  <2>. QED
    BY <1>2, <2>2, <2>3, <2>4 DEF Arrive
<1>3. ASSUME NEW p \in Packets, FinishSending(p) PROVE LinkExclusive'
  <2>1. stage[p] = "sending" /\ OnLinkOf(p)
    BY <1>3 DEF FinishSending, TypeInv, OnLink
  <2>2. Link(p) \in Links
    BY <2>1 DEF OnLinkOf, OnLinkStages
  <2>3. Sending(Link(p)) = {p}
    BY <2>1, <2>2 DEF LinkExclusive, Sending
  <2>4. /\ stage'[p] = "flying"
        /\ \A q \in Packets \ {p} : stage'[q] = stage[q]
        /\ UNCHANGED <<at, to>>
    BY <1>3 DEF FinishSending, TypeInv, TypeOK
  <2>5. \A k \in Links : Sending(k)' = Sending(k) \ {p}
    BY <2>4 DEF Sending, Link
  <2>6. /\ holder'[Link(p)] = Nobody
        /\ \A k \in Links \ {Link(p)} : holder'[k] = holder[k]
    BY <1>3, <2>2 DEF FinishSending, TypeInv, TypeOK
  <2>7. \A k \in Links \ {Link(p)} : p \notin Sending(k)
    BY DEF Sending
  <2>. QED
    BY <2>2, <2>3, <2>5, <2>6, <2>7 DEF LinkExclusive
<1>4. ASSUME NEW l \in Links, PassOn(l) PROVE LinkExclusive'
  <2>1. PICK p \in Packets :
          /\ p \in Waiting(l)
          /\ holder' = [holder EXCEPT ![l] = p]
          /\ stage' = [stage EXCEPT ![p] = "sending"]
    BY <1>4 DEF PassOn, IsHead
  <2>2. holder[l] = Nobody /\ UNCHANGED <<at, to>>
    BY <1>4 DEF PassOn
  <2>3. stage[p] = "waiting" /\ Link(p)' = l
    BY <2>1, <2>2 DEF Waiting, Link
  <2>4. stage'[p] = "sending" /\ \A q \in Packets \ {p} : stage'[q] = stage[q]
    BY <2>1 DEF TypeInv, TypeOK
  <2>. QED
    BY <2>1, <2>2, <2>3, <2>4, LinkGranted
<1>5. ASSUME NEW p \in Packets, Publish(p) PROVE LinkExclusive'
  <2>1. /\ holder' = holder /\ UNCHANGED <<at, to>>
        /\ \A q \in Packets : stage'[q] = "sending" <=> stage[q] = "sending"
    BY <1>5 DEF Publish, TypeInv, TypeOK
  <2>. QED
    BY <2>1, LinksKept
<1>6. CASE UNCHANGED packetVars
  BY <1>6 DEF packetVars, LinkExclusive, Sending, Link
<1>7. CASE \/ TopologyUpdate \/ PhysicsTick \/ UNCHANGED vars
           \/ \E d \in Pods : TakeTask(d) \/ FinishTask(d)
  BY <1>6, <1>7 DEF TopologyUpdate, PhysicsTick, vars, TakeTask, FinishTask
<1>. QED
  BY <1>1, <1>2, <1>3, <1>4, <1>5, <1>7 DEF Next

-----------------------------------------------------------------------------
(* The order in which a link serves its requests. *)

\* q is given a link for which p is waiting and goes on waiting.
Overtakes(q, p) ==
  /\ stage[p] = "waiting" /\ stage'[p] = "waiting"
  /\ stage[q] # "sending" /\ stage'[q] = "sending"
  /\ Link(q)' = Link(p)

Entitled(q, p) ==
  \/ Priority[q] < Priority[p]
  \/ Priority[q] = Priority[p] /\ q \in before[p]

LEMMA HeadIsEntitled ==
  ASSUME NEW l, NEW q, IsHead(q, l), NEW p \in Packets \ {q}, stage[p] = "waiting", Link(p) = l
  PROVE  Entitled(q, p)
  BY DEF IsHead, Waiting, Precedes, Entitled

LEMMA RequestOrder ==
  ASSUME TypeInv, NEW x \in Packets, NEW n \in Nodes, NEW m \in Nodes, <<n, m>> \in Links,
         stage[x] \notin {"waiting", "sending"}, Request(x, n, m),
         NEW p \in Packets, NEW q \in Packets, Overtakes(q, p)
  PROVE  Entitled(q, p)
<1>1. /\ at' = [at EXCEPT ![x] = n] /\ to' = [to EXCEPT ![x] = m]
      /\ Link(x)' = <<n, m>>
      /\ \A r \in Packets \ {x} : Link(r)' = Link(r)
  BY DEF Request, TypeInv, TypeOK, Link
<1>2. p # q /\ p # x
  BY DEF Overtakes
<1>3. CASE /\ \A r \in Waiting(<<n, m>>) : Priority[x] < Priority[r]
           /\ stage' = [stage EXCEPT ![x] = "sending"]
  <2>1. q = x
    BY <1>3 DEF Overtakes, TypeInv, TypeOK
  <2>2. p \in Waiting(<<n, m>>)
    BY <1>1, <2>1 DEF Overtakes, Waiting
  <2>. QED
    BY <1>3, <2>1, <2>2 DEF Entitled
<1>4. ASSUME NEW r \in Waiting(<<n, m>>), IsHead(r, <<n, m>>),
             stage' = [stage EXCEPT ![x] = "waiting", ![r] = "sending"]
      PROVE  Entitled(q, p)
  <2>1. r \in Packets \ {x} /\ Link(r) = <<n, m>>
    BY <1>4 DEF Waiting
  <2>2. q = r
    BY <1>4, <2>1 DEF Overtakes, TypeInv, TypeOK
  <2>3. Link(p) = <<n, m>>
    BY <1>1, <2>1, <2>2 DEF Overtakes
  <2>. QED
    BY <1>2, <1>4, <2>2, <2>3, HeadIsEntitled DEF Overtakes
<1>5. CASE stage' = [stage EXCEPT ![x] = "waiting"]
  BY <1>5 DEF Overtakes, TypeInv, TypeOK
<1>. QED
  BY <1>3, <1>4, <1>5 DEF Request

LEMMA NobodyStartsSending ==
  ASSUME \A r \in Packets : stage'[r] = "sending" => stage[r] = "sending",
         NEW p \in Packets, NEW q \in Packets, Overtakes(q, p)
  PROVE  Entitled(q, p)
  BY DEF Overtakes

LEMMA DispatchOrder ==
  ASSUME TypeInv, NEW x \in Packets, NEW n \in Nodes, NEW h \in Nat,
         stage[x] \notin {"waiting", "sending"}, Dispatch(x, n, h),
         NEW p \in Packets, NEW q \in Packets, Overtakes(q, p)
  PROVE  Entitled(q, p)
<1>1. CASE \E m \in Usable(x, n) : Request(x, n, m)
  <2>1. PICK m \in Usable(x, n) : Request(x, n, m)
    BY <1>1
  <2>2. m \in Nodes /\ <<n, m>> \in Links
    BY DEF Usable, Links, TypeInv, TypeOK
  <2>. QED
    BY <2>1, <2>2, RequestOrder
<1>2. CASE Drop(x, n, IF h < MaxHops THEN "unrouted" ELSE "max_hops")
  <2>1. \A r \in Packets : stage'[r] = "sending" => stage[r] = "sending"
    BY <1>2 DEF Drop, End, TypeInv, TypeOK
  <2>. QED
    BY <2>1, NobodyStartsSending
<1>. QED
  BY <1>1, <1>2 DEF Dispatch

\* A waiting packet is overtaken on its link only by a more urgent packet or by
\* one that was queued on the link before it.
THEOREM LinksServeInOrder == Spec => NoUnfairOvertaking
<1> DEFINE InOrder ==
      \A p, q \in Packets :
        (/\ stage[p] = "waiting" /\ stage'[p] = "waiting"
         /\ stage[q] # "sending" /\ stage'[q] = "sending"
         /\ Link(q)' = Link(p))
          => \/ Priority[q] < Priority[p]
             \/ Priority[q] = Priority[p] /\ q \in before[p]
<1>1. TypeInv /\ [Next]_vars => InOrder
  <2>. SUFFICES ASSUME TypeInv, [Next]_vars,
                       NEW p \in Packets, NEW q \in Packets, Overtakes(q, p)
                PROVE  Entitled(q, p)
    BY DEF Overtakes, Entitled
  <2>1. ASSUME NEW x \in Packets, Start(x) PROVE Entitled(q, p)
    <3>1. CASE Refuse(x, Src[x], "source_unavailable")
      <4>1. \A r \in Packets : stage'[r] = "sending" => stage[r] = "sending"
        BY <3>1 DEF Refuse, Drop, End, TypeInv, TypeOK
      <4>. QED
        BY <4>1, NobodyStartsSending
    <3>2. CASE Dispatch(x, Src[x], 0)
      BY <2>1, <3>2, DispatchOrder, SrcDstAreNodes DEF Start
    <3>. QED
      BY <2>1, <3>1, <3>2 DEF Start
  <2>2. ASSUME NEW x \in Packets, Arrive(x) PROVE Entitled(q, p)
    <3>1. stage[x] = "flying" /\ to[x] \in Nodes /\ hops[x] + 1 \in Nat
      <4>1. hops[x] \in 0 .. MaxHops /\ to[x] \in Nodes
        BY DEF TypeInv, TypeOK
      <4>. QED
        BY <2>2, <4>1, BoundAssumption DEF Arrive
    <3>2. CASE Dispatch(x, to[x], hops[x] + 1)
      BY <3>1, <3>2, DispatchOrder
    <3>3. CASE \/ Deliver(x)
               \/ Refuse(x, Dst[x], "destination_unavailable")
               \/ Refuse(x, to[x], "node_unavailable")
      <4>1. \A r \in Packets : stage'[r] = "sending" => stage[r] = "sending"
        BY <3>3 DEF Deliver, Refuse, Drop, End, TypeInv, TypeOK
      <4>. QED
        BY <4>1, NobodyStartsSending
    <3>. QED
      BY <2>2, <3>2, <3>3 DEF Arrive
  <2>3. ASSUME NEW l \in Links, PassOn(l) PROVE Entitled(q, p)
    <3>1. PICK x \in Packets : IsHead(x, l) /\ stage' = [stage EXCEPT ![x] = "sending"]
      BY <2>3 DEF PassOn
    <3>2. q = x
      BY <3>1 DEF Overtakes, TypeInv, TypeOK
    <3>3. Link(q)' = Link(q) /\ Link(x) = l
      BY <2>3, <3>1 DEF PassOn, Link, IsHead, Waiting
    <3>. QED
      BY <3>1, <3>2, <3>3, HeadIsEntitled DEF Overtakes
  <2>4. CASE \/ \E x \in Packets : Publish(x) \/ FinishSending(x)
             \/ \E d \in Pods : TakeTask(d) \/ FinishTask(d)
             \/ TopologyUpdate \/ PhysicsTick \/ UNCHANGED vars
    <3>1. \A r \in Packets : stage'[r] = "sending" => stage[r] = "sending"
      BY <2>4 DEF Publish, FinishSending, TakeTask, FinishTask, TopologyUpdate, PhysicsTick,
                  vars, packetVars, TypeInv, TypeOK
    <3>. QED
      BY <3>1, NobodyStartsSending
  <2>. QED
    BY <2>1, <2>2, <2>3, <2>4 DEF Next
<1>2. TypeInv /\ [Next]_vars => [InOrder]_vars
  BY <1>1
<1>. QED
  BY <1>2, TypeInvariant, PTL DEF Spec, NoUnfairOvertaking
-----------------------------------------------------------------------------
(* The ledger. *)

Status == [p \in Packets |-> StatusOf(p)]
Left == [p \in Packets |-> MaxHops - hops[p]]

LEMMA StatusOfOthers ==
  ASSUME NEW p \in Packets, OthersStay(p), NEW q \in Packets \ {p}
  PROVE  StatusOf(q)' = StatusOf(q) /\ hops'[q] = hops[q]
<1>1. fate'[q] = fate[q] /\ hops'[q] = hops[q]
      /\ (stage'[q] = "unpublished" <=> stage[q] = "unpublished")
  BY DEF OthersStay
<1>. QED
  BY <1>1 DEF StatusOf

LEMMA HandledLedger ==
  ASSUME TypeInv, NEW p \in Packets, NEW n \in Nodes, Handled(p, n),
         stage[p] \in {"spawned", "flying"},
         \/ hops'[p] = hops[p]
         \/ /\ hops'[p] = hops[p] + 1 /\ hops[p] < MaxHops
            /\ fate'[p] \in {"none"} \cup Strandings
  PROVE  Ledger!Next \/ UNCHANGED Ledger!vars
<1>1. \A q \in Packets \ {p} : StatusOf(q)' = StatusOf(q) /\ hops'[q] = hops[q]
  BY StatusOfOthers DEF Handled
<1>2. StatusOf(p) = "in_flight"
  BY DEF StatusOf, Handled
<1>3. stage'[p] # "unpublished"
  BY DEF Handled, Rejected, Passed, Kept
<1>4. hops[p] \in Nat /\ MaxHops \in Nat /\ hops[p] <= MaxHops
  BY BoundAssumption DEF TypeInv, TypeOK
<1>5. CASE hops'[p] = hops[p]
  <2>1. Left' = Left
    BY <1>1, <1>5 DEF Left
  <2>2. CASE fate'[p] = "none"
    <3>1. StatusOf(p)' = "in_flight"
      BY <1>3, <2>2 DEF StatusOf
    <3>2. Status' = Status
      BY <1>1, <1>2, <3>1 DEF Status
    <3>. QED
      BY <2>1, <3>2 DEF Ledger!vars, Status, Left
  <2>3. CASE fate'[p] # "none"
    <3>1. StatusOf(p)' \in {"delivered", "dropped"}
      BY <1>3, <2>3 DEF StatusOf, Handled, Rejected, Passed, Kept, Refusals, Strandings
    <3>2. Status' = [Status EXCEPT ![p] = StatusOf(p)']
      BY <1>1 DEF Status
    <3>3. Status[p] = "in_flight"
      BY <1>2 DEF Status
    <3>4. Ledger!Conclude(p)
      BY <2>1, <3>1, <3>2, <3>3 DEF Ledger!Conclude, Status, Left
    <3>. QED
      BY <3>4 DEF Ledger!Next
  <2>. QED
    BY <2>2, <2>3
<1>6. CASE /\ hops'[p] = hops[p] + 1 /\ hops[p] < MaxHops
           /\ fate'[p] \in {"none"} \cup Strandings
  <2>1. Left' = [Left EXCEPT ![p] = @ - 1] /\ Left[p] > 0
    <3>1. MaxHops - hops'[p] = (MaxHops - hops[p]) - 1 /\ MaxHops - hops[p] > 0
      BY <1>4, <1>6
    <3>2. \A q \in Packets \ {p} : MaxHops - hops'[q] = MaxHops - hops[q]
      BY <1>1
    <3>. QED
      BY <3>1, <3>2 DEF Left
  <2>2. Status[p] = "in_flight"
    BY <1>2 DEF Status
  <2>3. CASE fate'[p] = "none"
    <3>1. StatusOf(p)' = "in_flight"
      BY <1>3, <2>3 DEF StatusOf
    <3>2. Status' = Status
      BY <1>1, <1>2, <3>1 DEF Status
    <3>3. Ledger!Forward(p)
      BY <2>1, <2>2, <3>2 DEF Ledger!Forward, Status, Left
    <3>. QED
      BY <3>3 DEF Ledger!Next
  <2>4. CASE fate'[p] \in Strandings
    <3>1. StatusOf(p)' = "dropped"
      BY <1>3, <2>4 DEF StatusOf, Strandings
    <3>2. Status' = [Status EXCEPT ![p] = "dropped"] /\ Status'[p] = "dropped"
      BY <1>1, <3>1 DEF Status
    <3>3. Ledger!Conclude(p)
      BY <2>1, <2>2, <3>2 DEF Ledger!Conclude, Status, Left
    <3>. QED
      BY <3>3 DEF Ledger!Next
  <2>. QED
    BY <1>6, <2>3, <2>4
<1>. QED
  BY <1>5, <1>6

LEMMA LedgerInit == Init => Ledger!Init
<1>. SUFFICES ASSUME Init PROVE Ledger!Init
  OBVIOUS
<1>1. \A p \in Packets : StatusOf(p) = "unpublished" /\ MaxHops - hops[p] = MaxHops
  BY BoundAssumption DEF Init, StatusOf
<1>. QED
  BY <1>1 DEF Ledger!Init

LEMMA LedgerStep == TypeInv /\ [Next]_vars => [Ledger!Next]_(Ledger!vars)
<1>. SUFFICES ASSUME TypeInv, [Next]_vars PROVE Ledger!Next \/ UNCHANGED Ledger!vars
  OBVIOUS
<1>1. ASSUME NEW p \in Packets, Publish(p) PROVE Ledger!Next
  <2>1. stage[p] = "unpublished" /\ OnLinkOf(p)
    BY <1>1 DEF Publish, TypeInv, OnLink
  <2>2. fate[p] = "none" /\ fate' = fate /\ hops' = hops
    BY <1>1, <2>1 DEF Publish, OnLinkOf
  <2>3. stage'[p] = "spawned" /\ \A q \in Packets \ {p} : stage'[q] = stage[q]
    BY <1>1 DEF Publish, TypeInv, TypeOK
  <2>4. \A q \in Packets \ {p} : StatusOf(q)' = StatusOf(q)
    BY <2>2, <2>3 DEF StatusOf
  <2>5. StatusOf(p) = "unpublished" /\ StatusOf(p)' = "in_flight"
    BY <2>1, <2>2, <2>3 DEF StatusOf
  <2>6. Status[p] = "unpublished" /\ Status' = [Status EXCEPT ![p] = "in_flight"]
    BY <2>4, <2>5 DEF Status
  <2>7. Left' = Left
    BY <2>2 DEF Left
  <2>8. Ledger!Publish(p)
    BY <2>6, <2>7 DEF Ledger!Publish, Status, Left
  <2>. QED
    BY <2>8 DEF Ledger!Next
<1>2. ASSUME NEW p \in Packets, Start(p) PROVE Ledger!Next \/ UNCHANGED Ledger!vars
  <2>1. OnLinkOf(p) /\ stage[p] = "spawned" /\ Handled(p, Src[p]) /\ hops'[p] = 0
    BY <1>2, StartHandled DEF TypeInv, OnLink
  <2>2. hops'[p] = hops[p]
    BY <2>1 DEF OnLinkOf
  <2>. QED
    BY <2>1, <2>2, HandledLedger, SrcDstAreNodes
<1>3. ASSUME NEW p \in Packets, Arrive(p) PROVE Ledger!Next \/ UNCHANGED Ledger!vars
  <2>1. OnLinkOf(p) /\ stage[p] = "flying" /\ Handled(p, to[p]) /\ to[p] \in Nodes
    BY <1>3, ArriveHandled DEF TypeInv, OnLink
  <2>2. hops[p] < MaxHops
    BY <2>1 DEF OnLinkOf, OnLinkStages
  <2>3. \/ hops'[p] = hops[p]
        \/ hops'[p] = hops[p] + 1 /\ fate'[p] \in {"none"} \cup Strandings
    BY <1>3, ArriveHandled DEF Passed
  <2>. QED
    BY <2>1, <2>2, <2>3, HandledLedger
<1>4. ASSUME hops' = hops, fate' = fate,
             \A q \in Packets : stage'[q] = "unpublished" <=> stage[q] = "unpublished"
      PROVE  UNCHANGED Ledger!vars
  <2>1. \A q \in Packets : StatusOf(q)' = StatusOf(q)
    BY <1>4 DEF StatusOf
  <2>2. Status' = Status /\ Left' = Left
    BY <1>4, <2>1 DEF Status, Left
  <2>. QED
    BY <2>2 DEF Ledger!vars, Status, Left
<1>5. CASE \/ \E p \in Packets : FinishSending(p)
           \/ \E l \in Links : PassOn(l)
           \/ \E d \in Pods : TakeTask(d) \/ FinishTask(d)
           \/ TopologyUpdate \/ PhysicsTick \/ UNCHANGED vars
  <2>1. hops' = hops /\ fate' = fate
    BY <1>5 DEF FinishSending, PassOn, TakeTask, FinishTask, TopologyUpdate, PhysicsTick,
                vars, packetVars
  <2>2. \A q \in Packets : stage'[q] = "unpublished" <=> stage[q] = "unpublished"
    BY <1>5 DEF FinishSending, PassOn, IsHead, Waiting, TakeTask, FinishTask, TopologyUpdate,
                PhysicsTick, vars, packetVars, TypeInv, TypeOK
  <2>. QED
    BY <1>4, <2>1, <2>2
<1>. QED
  BY <1>1, <1>2, <1>3, <1>5 DEF Next

\* Every behaviour of the engine is, as far as outcomes go, one of the ledger's:
\* no packet is delivered and dropped, or delivered twice, or forwarded through
\* more than MaxHops nodes.
THEOREM ImplementsLedger == Spec => Ledger!SafeSpec
  BY LedgerInit, LedgerStep, TypeInvariant, PTL DEF Spec, Ledger!SafeSpec
-----------------------------------------------------------------------------
(* The request queues: whoever waits waits for somebody. *)

Published == {p \in Packets : stage[p] # "unpublished"}

\* The requests that wait for a link came in one after another: the ones before
\* a request wait for the same link, and of two requests one is before the other.
QueueOrder ==
  /\ \A q \in Packets : stage[q] = "waiting" =>
       /\ before[q] \subseteq Waiting(Link(q)) \ {q}
       /\ \A p \in before[q] : before[p] \subseteq before[q]
  /\ \A p, q \in Packets :
       p # q /\ stage[p] = "waiting" /\ stage[q] = "waiting" /\ Link(p) = Link(q)
         => p \in before[q] \/ q \in before[p]

QueueInv == LinkExclusive /\ QueueOrder /\ IsFiniteSet(Published)

\* What a step does to the queues: packet x may join or leave one of the other
\* stages, and the packets of G are given the links they waited for.
QueueMove(x, G) ==
  /\ \A q \in Packets \ {x} :
       /\ at'[q] = at[q] /\ to'[q] = to[q]
       /\ q \in G => stage[q] = "waiting" /\ stage'[q] = "sending"
       /\ q \notin G => stage'[q] = stage[q] /\ before'[q] = before[q] \ G
  /\ x \in Packets =>
       /\ stage[x] # "waiting"
       /\ x \notin G
       /\ stage'[x] = "waiting" => before'[x] = Waiting(<<at'[x], to'[x]>>) \ G

LEMMA QueueMoveKeepsOrder ==
  ASSUME QueueOrder, NEW x, NEW G, QueueMove(x, G)
  PROVE  QueueOrder'
<1>1. ASSUME NEW q \in Packets \ {x}, stage'[q] = "waiting"
      PROVE  /\ stage[q] = "waiting" /\ q \notin G
             /\ Link(q)' = Link(q) /\ before'[q] = before[q] \ G
  BY <1>1 DEF QueueMove, Link
<1>2. ASSUME NEW l, NEW p \in Waiting(l) \ G
      PROVE  /\ p \in Packets \ {x} /\ stage'[p] = "waiting" /\ Link(p)' = l
             /\ before'[p] = before[p] \ G
  BY <1>2 DEF QueueMove, Waiting, Link
<1>3. ASSUME x \in Packets, stage'[x] = "waiting"
      PROVE  before'[x] = Waiting(Link(x)') \ G
  BY <1>3 DEF QueueMove, Link
<1>4. ASSUME NEW q \in Packets, stage'[q] = "waiting"
      PROVE  /\ before'[q] \subseteq Waiting(Link(q))' \ {q}
             /\ \A p \in before'[q] : before'[p] \subseteq before'[q]
  <2>1. CASE q # x
    <3>1. /\ before[q] \subseteq Waiting(Link(q)) \ {q}
          /\ \A p \in before[q] : before[p] \subseteq before[q]
      BY <1>1, <1>4, <2>1 DEF QueueOrder
    <3>2. before'[q] = before[q] \ G /\ Link(q)' = Link(q)
      BY <1>1, <1>4, <2>1
    <3>3. \A p \in before[q] \ G :
            /\ p \in Packets /\ stage'[p] = "waiting" /\ Link(p)' = Link(q)
            /\ before'[p] = before[p] \ G
      BY <1>2, <3>1
    <3>4. before[q] \ G \subseteq Waiting(Link(q))'
      BY <3>2, <3>3 DEF Waiting
    <3>. QED
      BY <3>1, <3>2, <3>3, <3>4
  <2>2. CASE q = x
    <3>1. before'[q] = Waiting(Link(q)') \ G
      BY <1>3, <1>4, <2>2
    <3>2. \A p \in Waiting(Link(q)') \ G :
            p # x /\ stage'[p] = "waiting" /\ Link(p)' = Link(q)' /\ p \in Packets
      BY <1>2 DEF Waiting
    <3>3. \A p \in Waiting(Link(q)') \ G : before'[p] = before[p] \ G
      BY <1>2
    <3>4. \A p \in Waiting(Link(q)') : before[p] \subseteq Waiting(Link(q)')
      BY DEF QueueOrder, Waiting
    <3>5. before'[q] \subseteq Waiting(Link(q))' \ {q}
      BY <2>2, <3>1, <3>2 DEF Waiting
    <3>. QED
      BY <3>1, <3>3, <3>4, <3>5
  <2>. QED
    BY <2>1, <2>2
<1>5. ASSUME NEW p \in Packets, NEW q \in Packets \ {x}, p # q,
             stage'[p] = "waiting", stage'[q] = "waiting", Link(p)' = Link(q)'
      PROVE  p \in before'[q] \/ q \in before'[p]
  <2>1. stage[q] = "waiting" /\ q \notin G /\ Link(q)' = Link(q) /\ before'[q] = before[q] \ G
    BY <1>1, <1>5
  <2>2. CASE p # x
    <3>1. stage[p] = "waiting" /\ p \notin G /\ Link(p)' = Link(p) /\ before'[p] = before[p] \ G
      BY <1>1, <1>5, <2>2
    <3>2. p \in before[q] \/ q \in before[p]
      BY <1>5, <2>1, <3>1 DEF QueueOrder
    <3>. QED
      BY <2>1, <3>1, <3>2
  <2>3. CASE p = x
    <3>1. before'[p] = Waiting(Link(p)') \ G
      BY <1>3, <1>5, <2>3
    <3>2. q \in Waiting(Link(p)')
      BY <1>5, <2>1 DEF Waiting
    <3>. QED
      BY <2>1, <3>1, <3>2
  <2>. QED
    BY <2>2, <2>3
<1>6. ASSUME NEW p \in Packets, NEW q \in Packets, p # q,
             stage'[p] = "waiting", stage'[q] = "waiting", Link(p)' = Link(q)'
      PROVE  p \in before'[q] \/ q \in before'[p]
  BY <1>5, <1>6
<1>. QED
  BY <1>4, <1>6 DEF QueueOrder

LEMMA RequestMoves ==
  ASSUME TypeInv, NEW p \in Packets, NEW n \in Nodes, NEW m \in Nodes,
         stage[p] # "waiting", Request(p, n, m)
  PROVE  \E G : QueueMove(p, G)
<1>0. /\ at'[p] = n /\ to'[p] = m
      /\ \A q \in Packets \ {p} : at'[q] = at[q] /\ to'[q] = to[q]
  BY DEF Request, TypeInv, TypeOK
<1>1. CASE /\ stage' = [stage EXCEPT ![p] = "sending"]
           /\ UNCHANGED before
  <2>1. QueueMove(p, {})
    BY <1>0, <1>1 DEF QueueMove, TypeInv, TypeOK
  <2>. QED
    BY <2>1
<1>2. ASSUME NEW r \in Waiting(<<n, m>>),
             stage' = [stage EXCEPT ![p] = "waiting", ![r] = "sending"],
             before' = [Granted(r) EXCEPT ![p] = Waiting(<<n, m>>) \ {r}]
      PROVE  QueueMove(p, {r})
  <2>1. r \in Packets /\ r # p /\ stage[r] = "waiting"
    BY <1>2 DEF Waiting
  <2>2. /\ stage'[p] = "waiting" /\ stage'[r] = "sending"
        /\ \A q \in Packets \ {p, r} : stage'[q] = stage[q]
    BY <1>2, <2>1 DEF TypeInv, TypeOK
  <2>3. /\ before'[p] = Waiting(<<n, m>>) \ {r}
        /\ \A q \in Packets \ {p, r} : before'[q] = before[q] \ {r}
    BY <1>2, <2>1 DEF Granted
  <2>. QED
    BY <1>0, <2>1, <2>2, <2>3 DEF QueueMove
<1>3. CASE /\ stage' = [stage EXCEPT ![p] = "waiting"]
           /\ before' = [before EXCEPT ![p] = Waiting(<<n, m>>)]
  <2>1. QueueMove(p, {})
    BY <1>0, <1>3 DEF QueueMove, TypeInv, TypeOK
  <2>. QED
    BY <2>1
<1>. QED
  BY <1>1, <1>2, <1>3 DEF Request

LEMMA EndMoves ==
  ASSUME TypeInv, NEW p \in Packets, NEW n, NEW why, stage[p] # "waiting",
         End(p, n, why), UNCHANGED before
  PROVE  \E G : QueueMove(p, G)
<1>1. QueueMove(p, {})
  BY DEF End, QueueMove, TypeInv, TypeOK
<1>. QED
  BY <1>1

LEMMA DispatchMoves ==
  ASSUME TypeInv, NEW p \in Packets, NEW n \in Nodes, NEW h,
         stage[p] # "waiting", Dispatch(p, n, h)
  PROVE  \E G : QueueMove(p, G)
<1>1. CASE \E m \in Usable(p, n) : Request(p, n, m)
  BY <1>1, RequestMoves DEF Usable
<1>2. CASE /\ Drop(p, n, IF h < MaxHops THEN "unrouted" ELSE "max_hops")
           /\ UNCHANGED before
  BY <1>2, EndMoves DEF Drop
<1>. QED
  BY <1>1, <1>2 DEF Dispatch

\* No step does anything else to the queues, and at most one packet starts.
LEMMA StepMoves ==
  ASSUME TypeInv, [Next]_vars
  PROVE  \E x, G : QueueMove(x, G)
<1>1. ASSUME NEW p \in Packets, Start(p) PROVE \E G : QueueMove(p, G)
  <2>1. stage[p] # "waiting"
    BY <1>1 DEF Start
  <2>2. CASE Refuse(p, Src[p], "source_unavailable")
    BY <2>1, <2>2, EndMoves DEF Refuse, Drop
  <2>. QED
    BY <1>1, <2>1, <2>2, DispatchMoves, SrcDstAreNodes DEF Start
<1>2. ASSUME NEW p \in Packets, Arrive(p) PROVE \E G : QueueMove(p, G)
  <2>1. stage[p] # "waiting" /\ to[p] \in Nodes
    BY <1>2 DEF Arrive, TypeInv, TypeOK
  <2>2. CASE Deliver(p)
    BY <2>1, <2>2, EndMoves DEF Deliver
  <2>3. CASE \/ Refuse(p, Dst[p], "destination_unavailable")
             \/ Refuse(p, to[p], "node_unavailable")
    BY <2>1, <2>3, EndMoves DEF Refuse, Drop
  <2>4. CASE Dispatch(p, to[p], hops[p] + 1)
    BY <2>1, <2>4, DispatchMoves
  <2>. QED
    BY <1>2, <2>2, <2>3, <2>4 DEF Arrive
<1>3. ASSUME NEW l \in Links, PassOn(l) PROVE \E x, G : QueueMove(x, G)
  <2>1. PICK p \in Packets :
          /\ IsHead(p, l)
          /\ stage' = [stage EXCEPT ![p] = "sending"]
          /\ before' = Granted(p)
    BY <1>3 DEF PassOn
  <2>2. UNCHANGED <<at, to>> /\ stage[p] = "waiting"
    BY <1>3, <2>1 DEF PassOn, IsHead, Waiting
  <2>3. \A q \in Packets \ {p} : before'[q] = before[q] \ {p}
    BY <2>1 DEF Granted
  <2>4. QueueMove(Nobody, {p})
    BY <2>1, <2>2, <2>3, NobodyIsNoPacket DEF QueueMove, TypeInv, TypeOK
  <2>. QED
    BY <2>4
<1>4. ASSUME NEW p \in Packets, Publish(p) \/ FinishSending(p) PROVE QueueMove(p, {})
  BY <1>4 DEF Publish, FinishSending, QueueMove, TypeInv, TypeOK
<1>5. CASE UNCHANGED packetVars
  <2>1. QueueMove(Nobody, {})
    BY <1>5, NobodyIsNoPacket DEF packetVars, QueueMove
  <2>. QED
    BY <2>1
<1>6. CASE \/ TopologyUpdate \/ PhysicsTick \/ UNCHANGED vars
           \/ \E d \in Pods : TakeTask(d) \/ FinishTask(d)
  BY <1>5, <1>6 DEF TopologyUpdate, PhysicsTick, vars, TakeTask, FinishTask
<1>. QED
  BY <1>1, <1>2, <1>3, <1>4, <1>6 DEF Next

LEMMA QueueInit == Init => QueueInv
<1>. SUFFICES ASSUME Init PROVE QueueInv
  OBVIOUS
<1>1. LinkExclusive /\ QueueOrder
  BY DEF Init, LinkExclusive, Sending, QueueOrder
<1>2. Published = {}
  BY DEF Init, Published
<1>. QED
  BY <1>1, <1>2, FS_EmptySet DEF QueueInv

LEMMA QueueStep == TypeInv /\ QueueInv /\ [Next]_vars => QueueInv'
<1>. SUFFICES ASSUME TypeInv, QueueInv, [Next]_vars PROVE QueueInv'
  OBVIOUS
<1>1. PICK x, G : QueueMove(x, G)
  BY StepMoves
<1>2. QueueOrder'
  BY <1>1, QueueMoveKeepsOrder DEF QueueInv
<1>3. IsFiniteSet(Published')
  <2>1. Published' \subseteq Published \cup {x}
    BY <1>1 DEF Published, QueueMove
  <2>2. IsFiniteSet(Published \cup {x})
    BY FS_AddElement DEF QueueInv
  <2>. QED
    BY <2>1, <2>2, FS_Subset
<1>. QED
  BY <1>2, <1>3, LinkExclusiveStep DEF QueueInv

\* Of the most urgent requests of a link, the one with the fewest before it is
\* the head.
LEMMA HeadExists ==
  ASSUME TypeInv, QueueInv, NEW l \in Links, Waiting(l) # {}
  PROVE  \E p \in Packets : IsHead(p, l)
<1> DEFINE W == Waiting(l)
           Ranks == {Priority[q] : q \in W}
<1>1. W \subseteq Packets /\ \A q \in W : stage[q] = "waiting" /\ Link(q) = l
  BY DEF Waiting
<1>2. Ranks \subseteq Nat /\ Ranks # {}
  BY <1>1, PacketAssumption
<1>3. PICK k \in Ranks : \A j \in Ranks : k <= j
  <2> HIDE DEF Ranks
  <2>. QED
    BY <1>2, LeastNumber
<1> DEFINE Urgent == {q \in W : Priority[q] = k}
           Depths == {Cardinality(before[q]) : q \in Urgent}
<1>4. \A q \in W : before[q] \subseteq W \ {q} /\ \A r \in before[q] : before[r] \subseteq before[q]
  BY <1>1 DEF QueueInv, QueueOrder
<1>5. \A q \in W : IsFiniteSet(before[q])
  <2>1. W \subseteq Published
    BY <1>1 DEF Published
  <2>2. \A q \in W : before[q] \subseteq Published
    BY <1>4, <2>1
  <2>. QED
    BY <2>2, FS_Subset DEF QueueInv
<1>6. Depths \subseteq Nat /\ Depths # {}
  BY <1>5, FS_CardinalityType
<1>7. PICK c \in Depths : \A j \in Depths : c <= j
  <2> HIDE DEF Depths
  <2>. QED
    BY <1>6, LeastNumber
<1>8. PICK p \in Urgent : c = Cardinality(before[p])
  OBVIOUS
<1>9. ASSUME NEW q \in W \ {p} PROVE Precedes(p, q)
  <2>1. Priority[p] = k /\ k <= Priority[q] /\ k \in Nat /\ Priority[q] \in Nat
    BY <1>1, <1>2, <1>3
  <2>2. CASE Priority[q] = k
    <3>1. SUFFICES ASSUME q \in before[p] PROVE FALSE
      BY <1>1, <2>1, <2>2 DEF QueueInv, QueueOrder, Precedes
    <3>2. before[q] \subseteq before[p] /\ q \notin before[q] /\ IsFiniteSet(before[p])
      BY <1>4, <1>5, <3>1
    <3>3. Cardinality(before[q]) < Cardinality(before[p])
      BY <3>1, <3>2, FS_Subset, FS_CardinalityType
    <3>4. Cardinality(before[q]) \in Depths
      BY <2>2
    <3>5. Cardinality(before[q]) \in Nat /\ c \in Nat
      BY <1>6, <3>4
    <3>. QED
      BY <1>7, <1>8, <3>3, <3>4, <3>5
  <2>3. CASE Priority[q] # k
    BY <2>1, <2>3 DEF Precedes
  <2>. QED
    BY <2>2, <2>3
<1>. QED
  BY <1>1, <1>9 DEF IsHead

\* A link transmits at most one packet at a time, the one that holds it, and if
\* anybody waits for a link there is one who is to have it next.
THEOREM LinksServeWhoeverWaits == Spec => []LinksServe
<1>1. TypeInv /\ QueueInv => LinksServe
  BY HeadExists DEF QueueInv, LinksServe
<1>. QED
  BY <1>1, QueueInit, QueueStep, TypeInvariant, PTL DEF Spec
-----------------------------------------------------------------------------
(* The packets at the pods. *)

Occurring(s) == {s[i] : i \in 1 .. Len(s)}

Executed(d) == {p \in Packets : <<p, d>> \in computed}

DeliveredTo(d) == {p \in Packets : fate[p] = "delivered" /\ Dst[p] = d}

PodWork == \A d \in Pods : AtHand(d) = DeliveredTo(d) \cup Emitted(d)

LEMMA AppendedOccurs ==
  ASSUME NEW s \in Seq(Packets), NEW p \in Packets
  PROVE  Occurring(Append(s, p)) = Occurring(s) \cup {p}
<1>1. /\ Len(Append(s, p)) = Len(s) + 1 /\ Len(s) \in Nat
      /\ Append(s, p)[Len(s) + 1] = p
      /\ \A i \in 1 .. Len(s) : Append(s, p)[i] = s[i]
  OBVIOUS
<1>2. 1 .. Len(s) + 1 = (1 .. Len(s)) \cup {Len(s) + 1}
  BY <1>1
<1>. QED
  BY <1>1, <1>2 DEF Occurring

LEMMA HeadOccurs ==
  ASSUME NEW s \in Seq(Packets), s # <<>>
  PROVE  Occurring(s) = {Head(s)} \cup Occurring(Tail(s))
<1>1. /\ Len(s) \in Nat \ {0} /\ Head(s) = s[1]
      /\ Len(Tail(s)) = Len(s) - 1
      /\ \A i \in 1 .. Len(s) - 1 : Tail(s)[i] = s[i + 1]
  OBVIOUS
<1>2. ASSUME NEW i \in 1 .. Len(s) PROVE s[i] \in {Head(s)} \cup Occurring(Tail(s))
  <2>1. CASE i = 1
    BY <1>1, <2>1
  <2>2. CASE i # 1
    <3>1. i - 1 \in 1 .. Len(s) - 1 /\ (i - 1) + 1 = i
      BY <1>1, <2>2
    <3>2. Tail(s)[i - 1] = s[i]
      BY <1>1, <3>1
    <3>. QED
      BY <1>1, <3>1, <3>2 DEF Occurring
  <2>. QED
    BY <2>1, <2>2
<1>3. ASSUME NEW i \in 1 .. Len(Tail(s)) PROVE Tail(s)[i] \in Occurring(s)
  <2>1. i + 1 \in 1 .. Len(s) /\ Tail(s)[i] = s[i + 1]
    BY <1>1
  <2>. QED
    BY <2>1 DEF Occurring
<1>4. Head(s) \in Occurring(s)
  BY <1>1 DEF Occurring
<1>. QED
  BY <1>2, <1>3, <1>4 DEF Occurring

\* A packet is delivered nowhere but at its destination.
LEMMA DeliveredAtDestination ==
  ASSUME TypeInv, NEW p \in Packets, Arrive(p), fate'[p] = "delivered"
  PROVE  to[p] = Dst[p]
<1>. SUFFICES ASSUME to[p] # Dst[p] PROVE FALSE
  OBVIOUS
<1>1. stage[p] = "flying" /\ OnLinkOf(p)
  BY DEF Arrive, TypeInv, OnLink
<1>2. fate[p] = "none" /\ hops[p] < MaxHops
  BY <1>1 DEF OnLinkOf, OnLinkStages
<1>3. to[p] \in Nodes /\ hops[p] + 1 \in 0 .. MaxHops
  BY <1>2, BoundAssumption DEF TypeInv, TypeOK
<1>4. CASE Refuse(p, to[p], "node_unavailable")
  BY <1>3, <1>4, RefuseEffect DEF Refusals
<1>5. CASE Dispatch(p, to[p], hops[p] + 1)
  <2>1. fate'[p] \in Strandings \cup {"none"}
    BY <1>2, <1>3, <1>5, DispatchEffect
  <2>. QED
    BY <2>1 DEF Strandings
<1>. QED
  BY <1>4, <1>5 DEF Arrive

\* A pod that queues p has p at hand; one whose queue is left alone, what it had.
LEMMA QueuedIsAtHand ==
  ASSUME TypeInv, NEW d \in Pods, NEW p \in Packets, UNCHANGED <<serving, computed>>
  PROVE  /\ queue'[d] = Append(queue[d], p) => AtHand(d)' = AtHand(d) \cup {p}
         /\ queue'[d] = queue[d] => AtHand(d)' = AtHand(d)
<1>1. /\ AtHand(d) = Occurring(queue[d]) \cup ({serving[d]} \ {Nobody}) \cup Executed(d)
      /\ AtHand(d)' = Occurring(queue'[d]) \cup ({serving[d]} \ {Nobody}) \cup Executed(d)
  BY DEF AtHand, Occurring, Executed
<1>2. Occurring(Append(queue[d], p)) = Occurring(queue[d]) \cup {p}
  BY PodFacts, AppendedOccurs
<1>. QED
  BY <1>1, <1>2

LEMMA StartPodWork ==
  ASSUME TypeInv, PodWork, NEW p \in Packets, Start(p), NEW d \in Pods
  PROVE  AtHand(d)' = DeliveredTo(d)' \cup Emitted(d)'
<1>1. /\ stage[p] = "spawned"
      /\ Handled(p, Src[p])
      /\ \/ Rejected(p, Src[p]) /\ fate'[p] = "source_unavailable"
         \/ Passed(p, Src[p])
         \/ Kept(p, Src[p]) /\ fate'[p] \in Strandings
  BY StartHandled
<1>2. AtHand(d) = DeliveredTo(d) \cup Emitted(d)
  BY DEF PodWork
<1>3. \A q \in Packets \ {p} :
        /\ fate'[q] = fate[q]
        /\ stage'[q] \in {"unpublished", "spawned"} <=> stage[q] \in {"unpublished", "spawned"}
  BY <1>1 DEF Handled, OthersStay
<1>4. fate[p] = "none" /\ fate'[p] # "delivered" /\ UNCHANGED <<serving, computed>>
  BY <1>1 DEF Handled, Passed, Strandings
<1>5. DeliveredTo(d)' = DeliveredTo(d)
  BY <1>3, <1>4 DEF DeliveredTo
<1>6. CASE Src[p] = d /\ (Passed(p, d) \/ (Kept(p, d) /\ fate'[p] \in Strandings))
  <2>1. Emitted(d)' = Emitted(d) \cup {p}
    BY <1>1, <1>3, <1>6 DEF Emitted, Passed, Kept, Strandings
  <2>2. queue' = Enqueued(p, d)
    BY <1>6, PodFacts DEF Passed, Kept
  <2>3. queue'[d] = Append(queue[d], p)
    BY <2>2, PodFacts, EnqueuedType DEF TypeInv
  <2>. QED
    BY <1>2, <1>4, <1>5, <2>1, <2>3, QueuedIsAtHand
<1>7. CASE ~ (Src[p] = d /\ (Passed(p, d) \/ (Kept(p, d) /\ fate'[p] \in Strandings)))
  <2>1. Emitted(d)' = Emitted(d)
    BY <1>1, <1>3, <1>7 DEF Emitted, Rejected
  <2>2. queue'[d] = queue[d]
    BY <1>1, <1>7, PodFacts DEF Handled, Rejected
  <2>. QED
    BY <1>2, <1>4, <1>5, <2>1, <2>2, QueuedIsAtHand
<1>. QED
  BY <1>6, <1>7

LEMMA ArrivePodWork ==
  ASSUME TypeInv, PodWork, NEW p \in Packets, Arrive(p), NEW d \in Pods
  PROVE  AtHand(d)' = DeliveredTo(d)' \cup Emitted(d)'
<1>1. /\ stage[p] = "flying" /\ fate'[p] # "source_unavailable" /\ to[p] \in Nodes
      /\ Handled(p, to[p])
      /\ \/ Rejected(p, to[p])
         \/ Passed(p, to[p]) /\ to[p] \notin Pods
         \/ Kept(p, to[p]) /\ (fate'[p] = "delivered" \/ to[p] \notin Pods)
  BY ArriveHandled
<1>2. AtHand(d) = DeliveredTo(d) \cup Emitted(d)
  BY DEF PodWork
<1>3. /\ fate[p] = "none" /\ stage'[p] \notin {"unpublished", "spawned"}
      /\ UNCHANGED <<serving, computed>>
      /\ \A q \in Packets \ {p} : fate'[q] = fate[q]
  BY <1>1 DEF Handled, OthersStay, Rejected, Passed, Kept
<1>4. Emitted(d)' = Emitted(d)
  BY <1>1, <1>3 DEF Emitted, Handled, OthersStay
<1>5. fate'[p] = "delivered" => to[p] = Dst[p]
  BY DeliveredAtDestination
<1>6. CASE to[p] = d /\ Kept(p, d)
  <2>1. fate'[p] = "delivered"
    BY <1>1, <1>6 DEF Rejected, Kept, Refusals, Strandings
  <2>2. DeliveredTo(d)' = DeliveredTo(d) \cup {p}
    BY <1>3, <1>5, <1>6, <2>1 DEF DeliveredTo
  <2>3. queue'[d] = Append(queue[d], p)
    BY <1>6, PodFacts, EnqueuedType DEF Kept, TypeInv
  <2>. QED
    BY <1>2, <1>3, <1>4, <2>2, <2>3, QueuedIsAtHand
<1>7. CASE ~ (to[p] = d /\ Kept(p, d))
  <2>1. ~ (fate'[p] = "delivered" /\ Dst[p] = d)
    BY <1>1, <1>5, <1>7 DEF Rejected, Passed, Refusals
  <2>2. DeliveredTo(d)' = DeliveredTo(d)
    BY <1>3, <2>1 DEF DeliveredTo
  <2>3. queue'[d] = queue[d]
    BY <1>1, <1>7, PodFacts DEF Handled, Rejected
  <2>. QED
    BY <1>2, <1>3, <1>4, <2>2, <2>3, QueuedIsAtHand
<1>. QED
  BY <1>6, <1>7

LEMMA ServerPodWork ==
  ASSUME TypeInv, PodWork, NEW e \in Pods, TakeTask(e) \/ FinishTask(e), NEW d \in Pods
  PROVE  AtHand(d)' = DeliveredTo(d)' \cup Emitted(d)'
<1>1. UNCHANGED packetVars
  BY ServerLeavesRelays
<1>2. DeliveredTo(d)' = DeliveredTo(d) /\ Emitted(d)' = Emitted(d)
  BY <1>1 DEF DeliveredTo, Emitted, packetVars
<1>3. SUFFICES AtHand(d)' = AtHand(d)
  BY <1>2 DEF PodWork
<1>4. /\ AtHand(d) = Occurring(queue[d]) \cup ({serving[d]} \ {Nobody}) \cup Executed(d)
      /\ AtHand(d)' = Occurring(queue'[d]) \cup ({serving'[d]} \ {Nobody}) \cup Executed(d)'
  BY DEF AtHand, Occurring, Executed
<1>5. CASE TakeTask(e) /\ e = d /\ queue[d] # <<>>
  <2>1. /\ serving[d] = Nobody /\ serving' = [serving EXCEPT ![d] = Head(queue[d])]
        /\ queue' = [queue EXCEPT ![d] = Tail(@)] /\ computed' = computed
    BY <1>5 DEF TakeTask
  <2>2. serving'[d] = Head(queue[d]) /\ queue'[d] = Tail(queue[d])
    BY <2>1, PodFacts DEF TypeInv, TypeOK
  <2>3. Head(queue[d]) \in Packets
    BY <1>5, PodFacts
  <2>4. Occurring(queue[d]) = {Head(queue[d])} \cup Occurring(Tail(queue[d]))
    BY <1>5, PodFacts, HeadOccurs
  <2>5. Executed(d)' = Executed(d)
    BY <2>1 DEF Executed
  <2>. QED
    BY <1>4, <2>1, <2>2, <2>3, <2>4, <2>5, NobodyIsNoPacket
<1>6. CASE FinishTask(e) /\ e = d
  <2>1. /\ serving[d] # Nobody /\ serving' = [serving EXCEPT ![d] = Nobody]
        /\ queue' = queue /\ computed' = computed \cup {<<serving[d], d>>}
    BY <1>6 DEF FinishTask
  <2>2. serving'[d] = Nobody /\ serving[d] \in Packets
    BY <2>1 DEF TypeInv, TypeOK
  <2>3. Executed(d)' = Executed(d) \cup {serving[d]}
    BY <2>1, <2>2 DEF Executed
  <2>. QED
    BY <1>4, <2>1, <2>2, <2>3
<1>7. CASE e # d \/ (TakeTask(e) /\ queue[d] = <<>>)
  <2>1. queue'[d] = queue[d] /\ serving'[d] = serving[d]
    BY <1>7, PodFacts DEF TakeTask, FinishTask, TypeInv, TypeOK
  <2>2. Executed(d)' = Executed(d)
    BY <1>7 DEF TakeTask, FinishTask, Executed
  <2>. QED
    BY <1>4, <2>1, <2>2
<1>. QED
  BY <1>5, <1>6, <1>7

LEMMA PodWorkInit == Init => PodWork
<1>. SUFFICES ASSUME Init, NEW d \in Pods PROVE AtHand(d) = DeliveredTo(d) \cup Emitted(d)
  BY DEF PodWork
<1>1. queue[d] = <<>> /\ serving[d] = Nobody /\ computed = {}
  BY DEF Init, Buffered
<1>2. AtHand(d) = {}
  BY <1>1 DEF AtHand
<1>3. DeliveredTo(d) = {} /\ Emitted(d) = {}
  BY DEF Init, DeliveredTo, Emitted
<1>. QED
  BY <1>2, <1>3

LEMMA PodWorkStep == TypeInv /\ PodWork /\ [Next]_vars => PodWork'
<1>. SUFFICES ASSUME TypeInv, PodWork, [Next]_vars, NEW d \in Pods
              PROVE  AtHand(d)' = DeliveredTo(d)' \cup Emitted(d)'
  BY DEF PodWork
<1>1. CASE Quiet
  <2>1. /\ DeliveredTo(d)' = DeliveredTo(d) /\ Emitted(d)' = Emitted(d)
        /\ AtHand(d)' = AtHand(d)
    BY <1>1 DEF Quiet, DeliveredTo, Emitted, AtHand, nodeVars, podVars
  <2>. QED
    BY <2>1 DEF PodWork
<1>. QED
  BY <1>1, StartPodWork, ArrivePodWork, ServerPodWork, StepShape

\* What a pod has queued, is executing or has executed is what was delivered to
\* it and what it emitted, and its queue holds a packet for every token and one
\* more for each packet it emitted.
THEOREM PodsKeepWhatTheyAccept == Spec => []PodsKeepTheirWork
<1>1. PodBacklog /\ PodWork => PodsKeepTheirWork
  BY DEF PodBacklog, PodBacklogCoversTokens, PodWork, DeliveredTo, PodsKeepTheirWork
<1>. QED
  BY <1>1, PodBacklogInit, PodBacklogStep, PodWorkInit, PodWorkStep, TypeInvariant, PTL DEF Spec
-----------------------------------------------------------------------------
(* How many steps a packet may still make. *)

Rank == [unpublished |-> 5, spawned |-> 4, waiting |-> 3, sending |-> 2, flying |-> 1, ended |-> 0]

StepsLeft(p) == 4 * (MaxHops - hops[p]) + Rank[stage[p]]

\* A step of p's process, or a grant to p, brings p closer to its end.
Advances(p) ==
  \/ stage'[p] = stage[p] /\ hops'[p] = hops[p]
  \/ StepsLeft(p)' < StepsLeft(p)

LEMMA Ranking ==
  /\ Rank["unpublished"] = 5 /\ Rank["spawned"] = 4 /\ Rank["waiting"] = 3
  /\ Rank["sending"] = 2 /\ Rank["flying"] = 1 /\ Rank["ended"] = 0
  BY DEF Rank

LEMMA StepsLeftIsNatural ==
  ASSUME TypeInv, NEW p \in Packets
  PROVE  StepsLeft(p) \in 0 .. 4 * MaxHops + 5
<1>1. hops[p] \in 0 .. MaxHops /\ MaxHops \in Nat /\ stage[p] \in Stages
  BY BoundAssumption DEF TypeInv, TypeOK
<1>2. Rank[stage[p]] \in 0 .. 5
  BY <1>1, Ranking DEF Stages
<1>. QED
  BY <1>1, <1>2 DEF StepsLeft

\* In its own stage a packet goes down by one rank at least; with a new hop it
\* may climb back, but not as far.
LEMMA LowerRankAdvances ==
  ASSUME TypeInv, TypeInv', NEW p \in Packets,
         \/ hops'[p] = hops[p] /\ Rank[stage'[p]] < Rank[stage[p]]
         \/ hops'[p] = hops[p] + 1 /\ Rank[stage'[p]] < Rank[stage[p]] + 4
  PROVE  Advances(p)
<1>1. hops[p] \in Nat /\ hops'[p] \in Nat /\ MaxHops \in Nat
  BY BoundAssumption DEF TypeInv, TypeOK
<1>2. Rank[stage[p]] \in Nat /\ Rank[stage'[p]] \in Nat
  <2>1. stage[p] \in Stages /\ stage'[p] \in Stages
    BY DEF TypeInv, TypeOK
  <2>. QED
    BY <2>1, Ranking DEF Stages
<1>. QED
  BY <1>1, <1>2 DEF Advances, StepsLeft

LEMMA OthersAdvance ==
  ASSUME TypeInv, TypeInv', NEW p \in Packets, OthersStay(p), NEW q \in Packets \ {p}
  PROVE  Advances(q)
<1>1. hops'[q] = hops[q]
  BY DEF OthersStay
<1>2. CASE stage'[q] = stage[q]
  BY <1>1, <1>2 DEF Advances
<1>3. CASE stage[q] = "waiting" /\ stage'[q] = "sending"
  BY <1>1, <1>3, Ranking, LowerRankAdvances
<1>. QED
  BY <1>2, <1>3 DEF OthersStay

LEMMA AllAdvance ==
  ASSUME TypeInv, [Next]_vars, NEW p \in Packets
  PROVE  Advances(p)
<1>0. TypeInv'
  BY NextType
<1>1. ASSUME NEW x \in Packets, Start(x) PROVE Advances(p)
  <2>1. /\ stage[x] = "spawned" /\ hops'[x] = 0 /\ OthersStay(x)
        /\ stage'[x] \in {"waiting", "sending", "ended"}
    BY <1>1, StartHandled DEF Handled, Rejected, Passed, Kept
  <2>2. hops[x] = 0
    BY <2>1 DEF TypeInv, OnLink, OnLinkOf
  <2>3. Advances(x)
    BY <1>0, <2>1, <2>2, Ranking, LowerRankAdvances
  <2>. QED
    BY <1>0, <2>1, <2>3, OthersAdvance
<1>2. ASSUME NEW x \in Packets, Arrive(x) PROVE Advances(p)
  <2>1. /\ stage[x] = "flying" /\ OthersStay(x)
        /\ \/ stage'[x] = "ended" /\ hops'[x] = hops[x]
           \/ stage'[x] \in {"waiting", "sending", "ended"} /\ hops'[x] = hops[x] + 1
    BY <1>2, ArriveHandled DEF Handled, Rejected, Passed, Kept
  <2>2. Advances(x)
    BY <1>0, <2>1, Ranking, LowerRankAdvances
  <2>. QED
    BY <1>0, <2>1, <2>2, OthersAdvance
<1>3. ASSUME NEW x \in Packets, Publish(x) \/ FinishSending(x) PROVE Advances(p)
  <2>1. /\ hops' = hops
        /\ \A q \in Packets \ {x} : stage'[q] = stage[q]
        /\ \/ stage[x] = "unpublished" /\ stage'[x] = "spawned"
           \/ stage[x] = "sending" /\ stage'[x] = "flying"
    BY <1>3 DEF Publish, FinishSending, TypeInv, TypeOK
  <2>2. CASE p = x
    BY <1>0, <2>1, <2>2, Ranking, LowerRankAdvances
  <2>. QED
    BY <2>1, <2>2 DEF Advances
<1>4. ASSUME NEW l \in Links, PassOn(l) PROVE Advances(p)
  <2>1. PICK x \in Packets : IsHead(x, l) /\ stage' = [stage EXCEPT ![x] = "sending"]
    BY <1>4 DEF PassOn
  <2>2. /\ hops' = hops
        /\ \A q \in Packets \ {x} : stage'[q] = stage[q]
        /\ stage[x] = "waiting" /\ stage'[x] = "sending"
    BY <1>4, <2>1 DEF PassOn, IsHead, Waiting, TypeInv, TypeOK
  <2>3. CASE p = x
    BY <1>0, <2>2, <2>3, Ranking, LowerRankAdvances
  <2>. QED
    BY <2>2, <2>3 DEF Advances
<1>5. CASE UNCHANGED packetVars
  BY <1>5 DEF packetVars, Advances
<1>6. CASE \/ TopologyUpdate \/ PhysicsTick \/ UNCHANGED vars
           \/ \E d \in Pods : TakeTask(d) \/ FinishTask(d)
  BY <1>5, <1>6 DEF TopologyUpdate, PhysicsTick, vars, TakeTask, FinishTask
<1>. QED
  BY <1>1, <1>2, <1>3, <1>4, <1>6 DEF Next

\* No step, of whatever process, lets a packet wander: each change of a packet's
\* stage or hop count lowers its StepsLeft, a number that starts at
\* 4 * MaxHops + 5 at most, so that its process makes no more steps than that.
THEOREM EveryStepCounts ==
  Spec => /\ [](\A p \in Packets : StepsLeft(p) \in 0 .. 4 * MaxHops + 5)
          /\ [][\A p \in Packets : Advances(p)]_vars
<1> DEFINE Bounded == \A p \in Packets : StepsLeft(p) \in 0 .. 4 * MaxHops + 5
           AllOn == \A p \in Packets : Advances(p)
<1>1. TypeInv => Bounded
  BY StepsLeftIsNatural
<1>2. TypeInv /\ [Next]_vars => [AllOn]_vars
  BY AllAdvance
<1> HIDE DEF Bounded, AllOn
<1>3. Spec => []Bounded /\ [][AllOn]_vars
  BY <1>1, <1>2, TypeInvariant, PTL DEF Spec
<1>. QED
  BY <1>3 DEF Bounded, AllOn
=============================================================================
